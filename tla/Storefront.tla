------------------------------ MODULE Storefront ------------------------------
(***************************************************************************)
(* The stores of the web frontend over its HTTP client: the product list   *)
(* with its filter and cache (store/productStore.ts), signing in and out   *)
(* (store/authStore.ts) and the order of the checkout page.                *)
(*                                                                         *)
(* The list and the time it was fetched are persisted, the filter is not.  *)
(* Components may call the stores in any order; the user that authStore    *)
(* shows is left out, and so are the cart and the orders, filled alike.    *)
(* The names are unlike those of Auth, so that SessionProofs can use both. *)
(***************************************************************************)
EXTENDS ApiClient

CONSTANTS
  Queries,    \* what one may search for; "" is no filter
  MaxReloads  \* bound on reloads of the page

ASSUME StorefrontAssumption ==
  "" \in Queries /\ "none" \notin Queries /\ MaxReloads \in Nat

VARIABLES
  filter,     \* filters.q
  listed,     \* products: the query they answer, and whether there are any
  cached,     \* lastFetched is less than CACHE_TTL_MS ago
  loading,    \* the flags of the store
  error,
  overlapped, \* history: the last fetch began while another was under way
  unfetched,  \* history: the filter was changed without a fetch since
  reloads     \* how often the page was reloaded

listVars == <<filter, listed, cached, loading, error, overlapped, unfetched, reloads>>
storefrontVars == <<clientVars, listVars>>

StorefrontInit ==
  /\ ClientInit
  /\ filter = "" /\ listed = [q |-> "none", some |-> FALSE]
  /\ cached = FALSE /\ loading = FALSE /\ error = FALSE
  /\ overlapped = FALSE /\ unfetched = TRUE
  /\ reloads = 0

-----------------------------------------------------------------------------
(* The product list.                                                        *)

Fetch(c) ==
  /\ Send(c, "list", filter')
  /\ loading' = TRUE /\ error' = FALSE
  /\ overlapped' = InProgress("list")
  /\ unfetched' = FALSE
  /\ UNCHANGED <<listed, cached, reloads>>

\* Without `force`, a fresh list that is not empty is kept.
FetchProducts(c) ==
  /\ ~(cached /\ listed.some)
  /\ filter' = filter
  /\ Fetch(c)

\* Mutant: the fetch is not forced.
SearchInCache(c, q) ==
  /\ filter' = q
  /\ \/ ~(cached /\ listed.some) /\ Fetch(c)
     \/ /\ cached /\ listed.some
        /\ UNCHANGED <<clientVars, listed, cached, loading, error, overlapped, unfetched, reloads>>

SearchProducts(c, q) ==
  /\ filter' = q
  /\ Fetch(c)

\* setFilter, and clearFilter with "".
SetFilter(q) ==
  /\ q # filter
  /\ filter' = q
  /\ unfetched' = TRUE
  /\ UNCHANGED <<clientVars, listed, cached, loading, error, overlapped, reloads>>

CacheExpires ==
  /\ cached /\ cached' = FALSE
  /\ UNCHANGED <<clientVars, filter, listed, loading, error, overlapped, unfetched, reloads>>

\* Mutant: loading is reset by an answer only.
KeepLoading == error' = TRUE /\ UNCHANGED loading

\* The catch and the finally of fetchProducts.
StopLoading == error' = TRUE /\ loading' = FALSE

ProductsArrive(c) ==
  /\ calls[c].kind = "list"
  /\ Resolve(c)
  /\ \E some \in BOOLEAN : listed' = [q |-> calls[c].for, some |-> some]
  /\ cached' = TRUE /\ loading' = FALSE
  /\ UNCHANGED <<tokenVars, filter, error, overlapped, unfetched, reloads>>

-----------------------------------------------------------------------------
(* Signing in and out, the user's own data, orders.                         *)

Issue(c, kind) ==
  /\ Send(c, kind, "none")
  /\ UNCHANGED listVars

\* A token that the answer does not have leaves the stored one in place.
LoggedIn(c) ==
  /\ calls[c].kind = "login"
  /\ logins < MaxLogins /\ logins' = logins + 1
  /\ Resolve(c)
  /\ \/ Store(logins + 1)
     \/ StoreSingly(logins + 1)
     \/ UNCHANGED <<access, refresh, refreshing, crossed>>
  /\ UNCHANGED listVars

LoggedOut(c) ==
  /\ calls[c].kind = "logout"
  /\ Resolve(c)
  /\ ClearTokens
  /\ UNCHANGED <<logins, listVars>>

\* The answer to me() and to an order: the tokens stay as they are.
Arrives(c) ==
  /\ calls[c].kind \in {"me", "order"}
  /\ Resolve(c)
  /\ UNCHANGED <<tokenVars, listVars>>

\* What the stores do about a rejected call: the tokens go when me() or logout
\* has failed, the list keeps what it had.
HandleFailure(c) ==
  LET kind == calls[c].kind IN
  /\ calls[c].at = "failed"
  /\ calls' = [calls EXCEPT ![c] = NoCall]
  /\ IF kind \in {"me", "logout"} THEN ClearTokens
     ELSE UNCHANGED <<access, refresh, refreshing, crossed>>
  /\ IF kind = "list" THEN StopLoading ELSE UNCHANGED <<loading, error>>
  /\ UNCHANGED <<logins, made, filter, listed, cached, overlapped, unfetched, reloads>>

-----------------------------------------------------------------------------

\* The page is loaded anew: calls and flags are gone, what is persisted is not.
Reload ==
  /\ reloads < MaxReloads /\ reloads' = reloads + 1
  /\ calls' = [c \in Calls |-> NoCall] /\ refreshing' = 0
  /\ filter' = "" /\ loading' = FALSE /\ error' = FALSE
  /\ overlapped' = FALSE /\ unfetched' = TRUE
  /\ UNCHANGED <<access, refresh, logins, crossed, made, listed, cached>>

BeginCall(c) ==
  \/ FetchProducts(c)
  \/ \E q \in Queries : SearchProducts(c, q)
  \/ \E kind \in {"me", "order", "login", "logout"} : Issue(c, kind)

Answer(c) ==
  \/ ProductsArrive(c) \/ LoggedIn(c) \/ LoggedOut(c) \/ Arrives(c)
  \/ (Unauthorized(c) \/ Fails(c)) /\ UNCHANGED listVars

ContinueCall(c) == HandleFailure(c) \/ (Wake(c) /\ UNCHANGED listVars)

AnswerRefresh ==
  /\ Refreshed \/ RefreshedWithNothing \/ RefreshFails
  /\ UNCHANGED listVars

StorefrontNext ==
  \/ \E c \in Calls : BeginCall(c) \/ Answer(c) \/ ContinueCall(c)
  \/ AnswerRefresh
  \/ \E q \in Queries : SetFilter(q)
  \/ CacheExpires \/ Reload

\* A call is answered or times out (10 s), timers fire, rejections are handled.
\* The refresh goes out without a timeout: that it ends rests on the network.
Fairness ==
  /\ \A c \in Calls : WF_storefrontVars(Answer(c)) /\ WF_storefrontVars(ContinueCall(c))
  /\ WF_storefrontVars(AnswerRefresh)

StorefrontSpec == StorefrontInit /\ [][StorefrontNext]_storefrontVars /\ Fairness

-----------------------------------------------------------------------------
(* Properties                                                              *)

\* Every variable has its type.
StorefrontTypeOK ==
  /\ access \in 0..MaxLogins /\ refresh \in 0..MaxLogins /\ refreshing \in 0..MaxLogins
  /\ calls \in [Calls -> Call(Queries \cup {"none"})]
  /\ logins \in 0..MaxLogins /\ made \in 0..MaxCalls /\ crossed \in BOOLEAN
  /\ filter \in Queries
  /\ listed \in [q : Queries \cup {"none"}, some : BOOLEAN]
  /\ cached \in BOOLEAN /\ loading \in BOOLEAN /\ error \in BOOLEAN
  /\ overlapped \in BOOLEAN /\ unfetched \in BOOLEAN
  /\ reloads \in 0..MaxReloads

\* No order, login or logout is carried out twice, although a call may be sent
\* again after a refresh and after a failure that hides whether it was.
WritesRunOnce ==
  \A c \in Calls : IsIdempotentMethod(calls[c].kind) \/ calls[c].ran < 2

\* Calls wait for a refresh exactly while there is one: none is left in the queue
\* when it ends, and none starts a second.
WaitersHaveARefresh ==
  StorefrontTypeOK /\ (refreshing # 0 <=> \E c \in Calls : calls[c].at = "waiting")

\* The stored tokens are of one login, or both gone, unless a login or a logout
\* came during a refresh (then the answer puts an access token of the former
\* session beside the new refresh token, or back after the logout), or a login was
\* answered with one token only, which leaves the other of the former session.
TokensAgree == access = refresh \/ crossed

\* The list shown answers the filter, unless the fetch has failed, the filter was
\* changed without a fetch (setFilter, clearFilter, a reload of the page), or
\* two fetches overlapped: their answers may come in either order.
ListAnswersTheFilter ==
  InProgress("list") \/ overlapped \/ unfetched \/ error \/ listed.q = filter

\* Once the user lets go, every call ends, those that wait for a refresh among
\* them, and the list does not stay on loading.
EverythingSettles == <>[](loading = FALSE /\ \A c \in Calls : calls[c] = NoCall)
==============================================================================
