------------------------------ MODULE ApiClient ------------------------------
(***************************************************************************)
(* The web frontend's HTTP client (services/api/client.ts): one axios      *)
(* instance whose interceptors attach the access token, refresh it after a *)
(* 401 and retry reads; and the two tokens in localStorage, which login    *)
(* and logout (services/api/auth.ts, store/authStore.ts) also write.       *)
(*                                                                         *)
(* The script runs to its next `await` undisturbed, so an action is what   *)
(* one answer, one timer or one click sets off.  The answers are the       *)
(* servers' and the network's: any of them may come at any time.  A token  *)
(* is known by the login it stems from.                                    *)
(***************************************************************************)
EXTENDS Naturals

CONSTANTS
  Calls,      \* slots for calls in progress
  Retries,    \* how often a read is tried again (2 in the code)
  MaxCalls,   \* bound on the calls made
  MaxLogins   \* bound on successful logins

ASSUME ApiClientAssumption ==
  Retries \in Nat /\ MaxCalls \in Nat /\ MaxLogins \in Nat

VARIABLES
  access,     \* the stored access token: the login it stems from, 0 for none
  refresh,    \* the stored refresh token, likewise
  refreshing, \* isRefreshing: the refresh token being exchanged, 0 for none
  calls,      \* the calls in progress
  logins,     \* how many logins have succeeded
  made,       \* how many calls were made
  crossed     \* history: tokens were stored or cleared while being refreshed,
              \* or one was stored without the other

tokenVars == <<access, refresh, refreshing, logins, crossed>>
clientVars == <<tokenVars, calls, made>>

\* GET /products and GET /me; POST of an order; POST /auth/login, /auth/logout
Kind == {"list", "me", "order", "login", "logout"}
IsIdempotentMethod(kind) == kind \in {"list", "me"}

\* at "waiting": the call that refreshes and those in pendingQueue; "failed": the
\* promise is rejected; for: what a list is asked for; retryCount and isRetry:
\* the flags kept on the config; ran (history): how often the server did it.
Call(Args) ==
  [at : {"idle", "sent", "sleeping", "waiting", "failed"}, kind : Kind, for : Args,
   isRetry : BOOLEAN, retryCount : 0..Retries, ran : 0..2]

Fresh(kind, arg) == [at |-> "sent", kind |-> kind, for |-> arg,
                     isRetry |-> FALSE, retryCount |-> 0, ran |-> 0]
NoCall == [Fresh("me", "none") EXCEPT !.at = "idle"]

ClientInit ==
  /\ access = 0 /\ refresh = 0 /\ refreshing = 0 /\ crossed = FALSE
  /\ calls = [c \in Calls |-> NoCall]
  /\ logins = 0 /\ made = 0

InProgress(kind) == \E c \in Calls : calls[c].at # "idle" /\ calls[c].kind = kind

Send(c, kind, arg) ==
  /\ calls[c] = NoCall
  /\ made < MaxCalls /\ made' = made + 1
  /\ calls' = [calls EXCEPT ![c] = Fresh(kind, arg)]
  /\ UNCHANGED tokenVars

-----------------------------------------------------------------------------
(* The stored tokens.                                                       *)

\* Both tokens become `token`; while a refresh is under way its answer will come
\* on top.
Store(token) ==
  /\ access' = token /\ refresh' = token
  /\ crossed' = (refreshing # 0)
  /\ UNCHANGED refreshing

\* Mutant: clearTokens removes the key of the refresh token only.
ClearHalf ==
  /\ refresh' = 0
  /\ crossed' = (refreshing # 0)
  /\ UNCHANGED <<access, refreshing>>

ClearTokens == Store(0)

\* One of the two is stored, the other stays.
StoreSingly(token) ==
  /\ \/ access' = token /\ UNCHANGED refresh
     \/ refresh' = token /\ UNCHANGED access
  /\ crossed' = TRUE
  /\ UNCHANGED refreshing

-----------------------------------------------------------------------------
(* What the response interceptor makes of an answer to a call that was sent. *)

\* The server does what it was asked for, at most twice as far as we count.
RunIt(call) == [call EXCEPT !.ran = IF @ = 2 THEN 2 ELSE @ + 1]

\* A success: what follows is up to the caller.
Resolve(c) ==
  /\ calls[c].at = "sent"
  /\ calls' = [calls EXCEPT ![c] = NoCall]
  /\ UNCHANGED made

Reject(c) == calls' = [calls EXCEPT ![c].at = "failed"]

\* A 401, of a server that has done nothing: refresh once, then give up.
Unauthorized(c) ==
  /\ calls[c].at = "sent"
  /\ IF calls[c].isRetry THEN Reject(c) /\ UNCHANGED tokenVars
     ELSE \/ /\ refreshing = 0 /\ refresh = 0   \* 'No refresh token'
             /\ calls' = [calls EXCEPT ![c].at = "failed", ![c].isRetry = TRUE]
             /\ ClearTokens
             /\ UNCHANGED logins
          \/ /\ refreshing # 0 \/ refresh # 0
             /\ calls' = [calls EXCEPT ![c].at = "waiting", ![c].isRetry = TRUE]
             /\ refreshing' = IF refreshing = 0 THEN refresh ELSE refreshing
             /\ UNCHANGED <<access, refresh, logins, crossed>>
  /\ UNCHANGED made

\* Mutant: every method is tried again.
FailsAlike(c) ==
  LET call == calls[c] IN
  /\ call.at = "sent"
  /\ \E known \in {call, RunIt(call)} :
       IF call.retryCount < Retries
       THEN calls' = [calls EXCEPT ![c] = [known EXCEPT !.at = "sleeping", !.retryCount = @ + 1]]
       ELSE calls' = [calls EXCEPT ![c] = [known EXCEPT !.at = "failed"]]
  /\ UNCHANGED <<tokenVars, made>>

\* A network error, a timeout (10 s) or a 5xx, before the server has done what it
\* was asked for or after.
Fails(c) ==
  LET call == calls[c] IN
  /\ call.at = "sent"
  /\ \E known \in {call, RunIt(call)} :
       IF IsIdempotentMethod(call.kind) /\ call.retryCount < Retries
       THEN calls' = [calls EXCEPT ![c] = [known EXCEPT !.at = "sleeping", !.retryCount = @ + 1]]
       ELSE calls' = [calls EXCEPT ![c] = [known EXCEPT !.at = "failed"]]
  /\ UNCHANGED <<tokenVars, made>>

Wake(c) ==
  /\ calls[c].at = "sleeping"
  /\ calls' = [calls EXCEPT ![c].at = "sent"]
  /\ UNCHANGED <<tokenVars, made>>

-----------------------------------------------------------------------------
(* The answer to the refresh, for the call that asked and those that wait.  *)

Release(at) ==
  calls' = [c \in Calls |-> IF calls[c].at = "waiting" THEN [calls[c] EXCEPT !.at = at]
                            ELSE calls[c]]

\* The rotated refresh token in the answer, if any, is not stored.
Refreshed ==
  /\ refreshing # 0
  /\ access' = refreshing /\ refreshing' = 0
  /\ Release("sent")
  /\ UNCHANGED <<refresh, logins, crossed, made>>

\* An answer without an access token.
RefreshedWithNothing ==
  /\ refreshing # 0 /\ refreshing' = 0
  /\ Release("failed")
  /\ UNCHANGED <<access, refresh, logins, crossed, made>>

\* Mutant: the queue is forgotten with the error.
RefreshFailsAlone ==
  /\ refreshing # 0 /\ refreshing' = 0
  /\ \E c \in Calls : calls[c].at = "waiting" /\ Reject(c)
  /\ access' = 0 /\ refresh' = 0 /\ crossed' = FALSE
  /\ UNCHANGED <<logins, made>>

RefreshFails ==
  /\ refreshing # 0 /\ refreshing' = 0
  /\ Release("failed")
  /\ access' = 0 /\ refresh' = 0 /\ crossed' = FALSE
  /\ UNCHANGED <<logins, made>>
==============================================================================
