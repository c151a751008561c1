# CloudShop in TLA+

Specifications of the services of this repository, the configurations that
model-check them and the proofs that hold for instances of any size. Paths such
as `inventory-service/...` are relative to `src/services/`, `web/...` to `src/`.

## 1. The system

CloudShop is a shop made of services that share nothing but identifiers. Each
service has its own tables in PostgreSQL; some keep copies in Redis or
Elasticsearch, one consumes Kafka topics. The services do not call one another:
the web frontend and (for the notification service) whoever enqueues a task
connect them. Every interaction that can go wrong is therefore between the
concurrent activations of one service, its tables and the world outside it.

| Component | State | Operations | Hard behaviour | What makes it correct |
|---|---|---|---|---|
| inventory: stock rows (`repository/inventory.repository.ts`) | `quantity`, `reserved_quantity` per product and warehouse | conditional reserve, floored release, absolute write | every `await` lets other requests run; each UPDATE is atomic, pairs of them are not | reserved units belong to somebody; reserving never overdraws |
| inventory: reservations (`reservation.service.ts`) | table `reservations` | create, confirm, release, release by order or session, clean-up every five minutes | release against release, confirm against release and clean-up; a failed INSERT after the stock UPDATE; overlapping ticks | stock is given back once, before the row is gone; overdue rows are settled |
| inventory: transfers (`transfer.service.ts`) | table `transfers` | create, start, complete with compensation, cancel | two completions, cancel against complete, compensation after the stock was taken | a transfer holds its stock exactly while in transit, and moves it once |
| inventory: alerts, history, cache, socket, forecasting | `low_stock_alerts`, `inventory_history`, Redis copy | alert if none active, write-behind of the copy | check then insert; the older row written last | one active alert per row; the copy is the last row |
| payment (`services/*.go`) | `payments`, `audit_logs`, the mutex per payment, the gateway's own charges | create, process in a goroutine, retry, refund, webhooks | lost answers, late and repeated webhooks, goroutines that die with the process | money and status agree; one charge per activation |
| order (`app/services/*.py`) | `orders`, `order_items` | create, change status, cancel, refund | validation on a status read before the commit of another request | statuses move along the table of transitions |
| auth (`auth/src/services/*.ts`) | `users`, `mfa_secrets`, sessions in Redis | register, login, refresh, logout, logout everywhere, set up, enable, disable MFA | two refreshes with one token, KEYS then DEL, DEL then SETEX, verified secret replaced before it is enabled | a session descends from a login, a revoked one stays revoked |
| notification (`app/tasks/*.py`) | `notifications`, `delivery_tracking`, the Celery queue | four tasks, REST requests | retry after the provider was called, redelivery | a message is recorded as sent when it was sent |
| admin (`admin-service/src/services/*.ts`) | quotas, merchants, users, configuration, audit | CRUD, check, count and reset of quotas | check and increment are two statements | limits hold; configuration values have their types |
| customer (`customer-service`, Java) | customers, addresses, preferences, loyalty, index | CRUD, add and spend points, default address | read-modify-write without a version | points add up; one default address |
| product (`product-service`, Java) | products, variants, categories, reviews, index, caches | CRUD, bulk import, search | database and index written without a common transaction | the index has what the database has |
| analytics (`analytics-service`, Java) | events and four metric tables | consume, accumulate, report | redelivery, swallowed exceptions, read-modify-write of a metric | metrics count each event once |
| web (`web/src`) | tokens, cart, orders in stores and local storage | API client with refresh and retry, checkout | requests that wait for one refresh | no request waits for ever |

Kafka, Elasticsearch, the payment mock and the compose file are configuration
around these.

Some defects keep parts from running as they stand; the modules describe the
services with them out of the way:

* `inventory-service/src/index.ts:60` constructs the services before line 84
  creates the pool their repositories ask for (`config/database.ts:42`), and line
  12 of migration 005 is not valid SQL (the alerts' table is modelled without
  the index it asks for);
* the web client posts to `/auth/refresh` and reads another answer than the auth
  service's `/auth/refresh-token` gives; client and service are therefore
  separate modules, and the answers the client may get are any;
* of the pages only those of `main.tsx` are mounted, and some import hooks that
  do not exist; `Storefront` lets the stores be called in any order.

`releaseByOrderId` and `releaseBySessionId` (inventory), `RetryPayment`
(payment), `checkQuota` and `incrementUsage` (admin) are public methods without
a caller; they are modelled, because they are the service's interface.

## 2. Plan

The order follows the harm a wrong interleaving does: stock and money first.

| | Modules | Contents | State |
|---|---|---|---|
| 1 | `Stock`, `Reservations` | stock rows; checkout reservations and the clean-up | modelled, checked, proved |
| 2 | `Transfers` | transfers over the same rows | modelled, checked, proved |
| 3 | `Payments` | payments, gateway, refunds, webhooks | modelled, checked, proved |
| 4 | `OrderLifecycle`, `Orders` | abstract life cycle; the service that implements it | modelled, checked, proved |
| 5 | `Auth` | sessions, refresh tokens and the second factor of an account | modelled, checked, proved |
| 6 | `StockViews` | history, alerts, events and Redis copy over `Stock` | modelled, checked, proved |
| 7 | `Admin` | users, merchants, configuration and audit log under concurrent administrators | modelled, checked, proved |
| 8 | `Quotas` | counts, limits and their resets | modelled, checked, proved |
| 9 | `ApiClient`, `Storefront` | the web client with its single refresh; the product list and the tokens over it | modelled, checked, proved |
| 10 | `Notifications` | Celery tasks with redelivery and retries; abstract "recorded if sent" | to do |
| 11 | `Loyalty`, `Addresses` | read-modify-write transactions of the customer service | to do |
| 12 | `Catalogue`, `Analytics` | row, index and cache of a product; at-least-once consumers | to do |
| 13 | `Pricing` | totals of orders against the cart's, on bounded inputs | to do |

Every safety property a run checks is also a theorem (section 6). What is left to
state and prove: one abstract account of a stock row (reserved units against what
is owed to their holders) that both `Reservations` and `Transfers` implement; the
lemmas for its steps are those behind `AccountIInv`.

## 3. How code becomes actions

A handler (an Express request, a goroutine, a FastAPI request, a timer tick) is
a record: the statement it executes next and the locals that survive. An action
is one SQL statement or one call of the outside, with everything the code does
up to the next point where it waits. That is the granularity at which the real
programs interleave: Node runs other callbacks at an `await`, Go schedules
goroutines anywhere but shares only the database and the mutexes, FastAPI runs
other requests at an `await`, and none of the statements modelled here is inside
a longer database transaction (orders are: there the transaction reads and
writes one row under READ COMMITTED, so its read and its commit are two steps).

History variables (marked as such where they are declared) record what happened
for the properties to speak about; no guard reads one, except to bound it or to
draw an input. What a
property adds up (the units reservations or transfers hold, the changes still to
be written) is a function summed with `SumFunction`. `frees` stops at `MaxFrees`: never, once and
more than once are all the properties tell apart.

### Stock

One row, as a record, and the three UPDATE statements on it. `CanReserve` is the
WHERE clause, `GiveBack` the `GREATEST(0, ...)`.

### Reservations

`handlers[h].at` names the next query; `row` is the reservation as the method
read it, `todo` what its loop has left. `CreateReservation` /
`InsertReservation` are the two statements of `createReservation`;
`ConfirmReservation` / `WriteConfirmed` the read and the write of
`confirmReservation`; `ReleaseReservation` (or an iteration, `VisitNext`),
`FreeStock`, `MarkReleased` those of `releaseReservation`; `FindExpired`,
`MarkExpired` and `SkipFailed` belong to the clean-up. `ExpiryPasses` is time:
only whether `expires_at` has passed matters. `Abort` is a rejected query or a
crash. Left out: the history INSERT, the socket emit and the cache write inside
`InventoryService`, which change nothing read here; their failure after the
UPDATE is `Abort` at the statement that follows.

### Transfers

The rows of one product per warehouse. `completeTransfer` is `CompleteTransfer`,
`ReleaseSource`, `ReadDestination`, then `SetDestination` or
`CreateDestination`, then `Arrive`; a failure inside its `try` goes to
`ReserveAgain`, the catch block, with `DestinationFails`. `CustomerReserves` and
`CustomerReleases` stand for reservations of one unit, `UpdateInventory` for an
administrator. `disturbed` collects the transfers on which a request began while
another was under way: that is where the account of a transfer stops being
exact, because the status is validated before the queries. Two starts and one
completion, for instance, reserve twice and give back once, and no method can
give back the other unit of a completed transfer: `held` and `HoldsWhileInTransit`
show such losses to be confined to disturbed transfers and to failures, not that
there are none. `arrived` counts how often the destination was written for a
transfer; `ArrivesOnce` limits it by the failures, because the catch block leaves
the transfer in transit after the destination was written, to be completed again.

### Payments

`threads` are goroutines: Workers run `processPayment`, Clients serve requests.
`waiting[p]` counts goroutines at `mutex.Lock()`. The gateway is external: a
charge is unused, open, or paid, remembers a declined attempt and how much was
given back, and is modelled from the answers the code distinguishes. An
amount reaches Stripe as `int64(amount * 100)` of a float, which loses a cent of
some amounts (19.99 becomes 1998), PayPal as `"%.2f"`, while the refund's record
keeps the amount asked for: `Cents` and `Sent` are the conversion, `LosesCent` the
amounts that lose one. Webhooks are what may be announced of a charge at any
later time, so they are late, repeated and out of order by construction;
`ReceiveWebhook` is the lookup by external identifier, `ApplyWebhook` the UPDATE.
Of a gateway in `Verified` (Stripe with a secret) they say what is true there; of
the others (PayPal, whose payloads nothing verifies, webhook_service.go:203, and
Stripe with an empty secret) they may say anything (`Announced`). That is more
than some deployments accept: the signature is computed over JSON that was
marshalled again (webhook_service.go:76-81), and PayPal's own events carry the
identifier of a capture. `IntentSettles` is Stripe going on with an intent it
answered `processing` for; the customer can do nothing with an open one, because
no client secret is handed out. `AnswerLost` is a gateway call that
took effect and returned an error; `Crash` loses goroutines, waiters and
mutexes. A failed query is one that was not executed. `CapturePayment` writes
nothing to the tables of the model and is left out.

### OrderLifecycle and Orders

`Orders` has the requests: `UpdateOrderStatus`, `CancelOrder` and
`RequestRefund` are the SELECT and the validation; `ProcessRefund` is the refund,
after the SELECT of the items was awaited and on the status read before it
(`selectinload`, order_service.py:121); `Commit` is the UPDATE of the status,
without a condition. `request_refund` validates twice on the same read, because
the session returns the object it already has. `Fail` is a failing statement or
the end of the worker; after `ProcessRefund` it leaves a refund without a record.

`OrderLifecycle` is the promise: an order moves along the transitions of
`OrderValidationService.validate_status_transition`, and is refunded once, after
its delivery. Because the UPDATE has no condition the service keeps this promise
only for orders that two requests never worked on at once; for the others
(`contended`) it keeps a weaker one: the next status follows one the order has
had (`Grounds`), and it may be refunded again, on whatever status it has by then.
An order whose refund was processed and not recorded (`lapsed`) may be refunded
again too. `Flow` is the instance of `OrderLifecycle` with `status <- orders`;
`past`, `contended`, `lapsed` and `refunds` are histories of both. `Contend` and
`Lapse` are what makes the weaker promise reachable, and the refinement shows
that nothing else does, no mixture of the three endpoints and no other failure.

### Auth

One account: `users`, its row of `mfa_secrets` and its keys in Redis. A refresh
token is a JWT without an identifier of its own, so it is known by the second it
is signed in (`generateRefreshToken`), and two signed in one second are one key.
`Register`, `Login`, `RefreshTokens`, `Logout`, `LogoutAll` and the three MFA
methods are the first statements of the service methods; `CreateUser`,
`CheckMfa`, `VerifyMfa`, `SignNext`, `DeleteOldSession`, `CreateSession`,
`DeleteSession`, `DeleteAllUserSessions`, `WriteEnabled` what follows their
`await`s. Passwords and access tokens (verified without state) are left out:
`Login` is by somebody who knows the password. `Expire` is the time to live of a
key, a day after it was set; all that matters is that it may end.

### StockViews

`InventoryService` on one row, with everything it derives: `Write` is the UPDATE
and hands the snapshot it returned to `AddHistory`, `CheckLowStock` with
`FindActive`, `ResolveAlerts`, `RaiseAlert` (the repository's `create`),
`EmitInventoryUpdate` and `UpdateCache`. `Reservations` and `Transfers` leave
these out, for nothing they do reads them; here the callers are left out and any
method may come at any time. Quantities are small numbers and `reorder` is -1
only in `NoRow`, which `RowsAreCreated` states.

### Admin

The controllers of users, merchants and configuration, each the role check of
the middleware, the service's statements and the audit INSERT, with the foreign
keys that make a DELETE or that INSERT fail. `actor` is the administrator whose
token the request carries; the roles were checked when it began. A request
does not look at the roles again: it carries on when its actor has lost the role
since (`lost`, kept by `SucceedOnRole`). `crossed`, `ousted` and `failed` mark the
races the properties except; `ousted` is a removal by a `lost` request, or of the
remover himself, so an administrator removed by someone who never was one would
break `SomeAdminRemains`. `quotas` is there
because the foreign keys of its rows keep their owners from being deleted.

### Quotas

One owner's row. `CheckQuota`, `ResetCounts` and `Reread` are the statements of
`checkQuota`, in which each reset is followed by a SELECT; `IncrementUsage` is
the UPDATE. `uses` counts the uses of the running period and `fresh` those among
them by requests whose check began in it; `Tick` sets both to zero where a
period ends, whether or not a check has come to reset the row. The row is compared
with them: it may miss uses of the first kind, because a request let through
before midnight (or while no limit was enforced) may count before the first
reset, which drops its use; it misses none of the second.

### ApiClient and Storefront

`ApiClient` is the axios instance: `Unauthorized` and `Fails` are the error
interceptor, `Wake` its `sleep`, `Refreshed`, `RefreshedWithNothing` and
`RefreshFails` the answers to the refresh, with `Release` for `pendingQueue`.
JavaScript runs to its next `await`, so an action is what one answer or timer
sets off. `Storefront` adds what the stores do before and after a call:
`Fetch`, `ProductsArrive`, `StopLoading` (productStore), `LoggedIn`,
`LoggedOut`, the failures of `me` and `logout` (authStore), and the reload of
the page, which keeps what is persisted. A login stores each token only if the answer has it
(web/src/services/api/auth.ts:14-15): both, one beside a former other one
(`StoreSingly`), or none. Servers are any answers; `ran` counts
how often one did what it was asked for, because a timeout hides that.

## 4. Runs

Every run but the violation must finish without an error. `MC*.tla` hold only
the symmetry sets.

| Run | Shows | Instance |
|---|---|---|
| `Reservations_races` | no reserved unit is stranded (`ReservedIsAccountedFor`), the account is exact unless a reservation was freed twice (`ShortfallOnlyFromDoubleFree`), nothing is gone before its stock was given back (`GoneMeansFreed`), reserving never overdraws a row (`OverdrawnOnlyByAdjustment`), and the inductive invariant the proofs use (`AccountIInv`) | one item, two reservations, two requests racing with a tick and an administrator, one fault |
| `Reservations_cleanup` | `OverdueIsSettled`, under fairness | two reservations, one request, one tick, two faults |
| `Transfers_races` | a transfer nobody disturbed holds its stock exactly while in transit (`HoldsWhileInTransit`), the row says what customers and transfers hold (`ExactUnlessDisturbed`), what is completed has arrived (`CompletedHasArrived`), once but for failures (`ArrivesOnce`), and the inductive invariant (`AccountIInv`) | two transfers, two warehouses, two requests, an administrator, one fault |
| `Payments_races` | one gateway call per activation (`ChargedOncePerActivation`), SUCCEEDED and refunds are backed by the gateway (`SucceededWasCharged`, `RefundsAreBacked`), succeeded payments are traceable (`SucceededIsTraceable`), outcomes are logged (`OutcomesAreLogged`) | one payment of 58 cents, all or 29 refunded, two charges, one retry, two workers, two clients, both gateways, Stripe's webhooks verified, two faults |
| `Payments_settles` | `PaymentSettles`, under fairness, without faults | two retries, two clients, one worker |
| `Payments_idempotent` | expected to be violated: `PaidAtMostOnce` (below) | one retry, one client, one fault |
| `Orders_races` | the service implements `OrderLifecycle` (`Lifecycle`); `StagesAreNotSkipped` although statuses are overwritten | one order, four requests, two faults |
| `Auth_races` | rotation keeps one session per sign-in (`SessionsDoNotMultiply`), an ended session stays ended (`EndedStaysEnded`), the second factor is enabled with a secret the user has (`EnabledSecretWasProved`) and protects every login it was on for (`MfaProtectsLogin`) | two requests, two seconds, two secrets, two sign-ins, one fault |
| `StockViews_races` | the history adds up to the row (`HistoryAddsUp`), browsers and cache end up with the row (`ViewsAreCurrent`), one alert at a time (`OneActiveAlert`), a low row is noticed (`LowStockIsNoticed`) | two requests, quantities 0 and 2, reorder points 0 and 1, four entries, one fault |
| `Admin_races` | what the audit log may lose (`AuditLostOnlyWithItsActor`, `AuthorsAreLogged`), `ConfigFitsItsType`, `SomeAdminRemains` | two administrators and a user to come, one merchant, two types and values, two requests, three writes |
| `Quotas_periods` | limits are overrun by concurrent requests only (`OverrunIsBounded`), concurrent resets drop no use of a request that checked in the running period, and leave none of an earlier one (`CountsAreOfThePeriod`) | three requests, limits 0 and 1, months of two days, four days, four uses |
| `Storefront_races` | `WritesRunOnce`, `WaitersHaveARefresh`, `TokensAgree`, `ListAnswersTheFilter`, and under fairness `EverythingSettles` | two calls at once, three in all, two retries, two logins, two searches, one reload |

The bounds, and why they are enough. No action relates more than two
reservations, transfers or payments (sums are over the rows of one item), and
each race the code admits is between two activations; a third is there where two
race while another acts (the tick, the administrator, the third request on a
quota, the third and fourth on an order: one delivers it while two refund it).
Orders do not interact, so one is enough. A second fault is needed for the failure of a compensation,
which `Transfers_races` reaches by a customer who takes the units instead.
Amounts: one unit of a stock of one or two, so that the last unit is contended,
and a price of 58 cents refunded in part (29) or whole: `0.29 * 100`,
`0.57 * 100` and `0.58 * 100` fall short of the integer in a float64, so both
amounts lose a cent with Stripe and none with PayPal. Two charges: the one that was
forgotten and the one of the retry; with a third nothing new could be linked,
because a payment has one retry there. Two seconds: tokens that are equal and
tokens that are not. Two secrets: the one verified and the one it was replaced
with. Four days of months of two: the end of a day within a month and the end of
both. A third call: one that starts while one waits and one sleeps. Histories
are not bounded otherwise; `MaxRetries` bounds the retries of a payment that
begin one after another, `MaxEntries`, `MaxUses`, `MaxWrites`, `MaxCalls`,
`MaxLogins`, `MaxReloads`, `MaxSignIns` and `MaxRaces` how often something is
done, `MaxTime` and `MaxDay` the clock, `MaxFaults` the failures. Deadlock is
checked where there is always something to do (`Quotas_periods`); elsewhere
identifiers or bounds run out in an instance, and the programs may simply have
no more requests.

The violation is a statement of the documentation that the code does not keep,
and its counterexample is the explanation: payment-service/README.md:10,
"Idempotent payment operations". A charge whose outcome the service did not learn
is forgotten and the payment FAILED: the answer was lost, as in the shortest
trace, or Stripe answered `processing` and pays the intent later
(stripe_service.go:82). RetryPayment then charges again, because the request
carries no idempotency key (stripe_service.go:50-75), and both are paid.

Other statements of the repository that the models contradict, met while
modelling; the properties above are stated so that they hold in spite of them.

Stock:

* inventory-service/README.md:242, reservations prevent overselling: a
  confirmation writes over a release, and the units it confirms are sold again;
* reservation.service.ts:82, "Already released": two releases that read before
  either writes free the stock twice (`ShortfallOnlyFromDoubleFree` allows it);
* inventory-service/README.md:245, clean-up of expired reservations: a
  confirmation made after the SELECT of the clean-up is overwritten;
* inventory-service/README.md:250, "Transfer inventory": the quantity of the source
  is never lowered;
* transfer.service.ts:61, "Transfer is not in pending status": two starts that
  read before either writes reserve twice, and the completion gives back once; the
  rest stays reserved at the source for ever (`disturbed`);
* transfer.service.ts:142, "Cannot cancel a completed transfer", and :89,
  "quantity was already reserved": the status is validated before the queries, so
  a second completion or a late cancellation releases units of others
  (`disturbed`);
* transfer.service.ts:118, "reserve again in source": a customer may have taken
  the units meanwhile, the transfer stays in transit without stock, and completing
  it later releases units that others hold;
* inventory-service/README.md:257, alerts at available <= reorder point:
  `reserveStock` and `releaseReservation` never check (`LowStockIsNoticed` is
  about the methods that do); the route `/low-stock` is shadowed by
  `/:product_id`; nothing reads the Redis copy; `updateStatus` of the alerts and
  the forecasts have no caller;
* inventory `index.ts:123`: shutting down closes the pool before the server, so
  requests under way fail between two statements (`Abort`).

Payments and orders:

* models/payment.go:83, final statuses cannot change: refunds, retries and
  webhooks write them without a condition;
* payment-service/README.md:11, refund tracking: the amounts of two concurrent
  refunds overwrite one another, and refunds are recorded less than given;
* the amounts Stripe is asked for may be a cent short (stripe_service.go:48, 175),
  and the refund on record is not (`RefundsAreBacked` allows it);
* payment-service/README.md:219, all webhooks are verified: PayPal's are not
  (webhook_service.go:203), so REFUNDED may be written without money given back
  (`Verified`);
* paypal_service.go:183, an approved order must be captured: processPayment never
  captures;
* payment-service/README.md:225, all operations are logged: a failed INSERT into
  the audit log is swallowed (`OutcomesAreLogged` is about runs without failures);
* order_service.py:207, invalid transitions raise: they are validated on a stale
  read (`contended`);
* order-service/README.md:210, the flow of statuses: REFUNDED follows DELIVERED
  only in the code.

Accounts:

* auth.test.ts:79 expects 401 of a refused login: the routes (auth.routes.ts:13
  and so on; the inventory and admin routes alike) do not await the controllers, so
  what a service throws never reaches `errorHandler`, and the client is not
  answered;
* a logout whose body has no refresh token deletes the key of the access token,
  which no session has;
* a refresh between the KEYS and the DEL of logoutAll keeps its session;
* `disableMFA` asks for neither a code nor the password.

Administration:

* admin-service/README.md:10, "Comprehensive audit trail": the entry is an INSERT
  of its own after the change, and is refused when its actor was deleted meanwhile
  (`AuditLostOnlyWithItsActor`); an update that changes nothing is logged;
* users and merchants whom another row names cannot be deleted (foreign keys
  without ON DELETE);
* value and type of a configuration cannot be changed together: the new type is
  checked against the old value as well (config.service.ts:95);
* `daily_limit || 10000` makes the default of a limit of 0 (`Given`);
* two administrators who were both checked can remove each other (`ousted`).

Web:

* a login answered with one token only leaves it beside the other one of a former
  login (`crossed`);
* a rotated refresh token is not stored; a refresh that fails clears the tokens
  of a newer login (`crossed`); the store goes on showing a user whose tokens are
  gone;
* after a reload within half a minute the persisted list is shown without its
  filter (`unfetched`); answers to overlapping fetches overwrite each other in
  either order (`overlapped`), as in `useAsync`, whose one `cancelled` flag is
  reset by the next call; orderStore's `cancelOrder` is local.

## 5. Fairness

`Reservations!FairSpec`: a started method goes on (PostgreSQL answers, Node runs
the continuation) and the timer of `index.ts:95` keeps finding overdue rows. No
fairness for customers, time or failures. `SkipFailed` is bounded by
`MaxFaults`: queries do not fail for ever.

`Payments!FairSpec`: a goroutine that can run does, and a mutex somebody waits
for is granted to one of the waiters (`sync.Mutex` does not starve them). Crashes
and failures are outside it: after a crash nothing resumes a payment, and
`PaymentSettles` is checked with `MaxFaults = 0`.

`Storefront!Fairness`: every call is answered or runs into the 10 s timeout of
the axios instance, timers fire and rejections are handled. The refresh is sent
with the bare `axios`, which has no timeout; that it ends rests on the network
ending the connection, and this is assumed. `EverythingSettles` assumes nothing
of the user: calls, logins and reloads just run out.

The other specifications state no fairness: their properties are about safety.

## 6. Proofs

`tlapm` checks every theorem from the named assumptions on the constants alone.
They ask of the sets that are summed over, counted or both (rows a table may
get, slots for requests) that they are finite, as tables and connection pools
are; nothing bounds their size.

* `StockProofs` holds what the proofs about the inventory share: sums over
  finite sets and the statements of `Stock`. `SumFunction` is defined by a
  recursion over sets that takes the elements in an order of its own. Induction
  over data is out of the prover's reach, but strict inclusion is well-founded on
  the subsets of a finite set, so each lemma looks at a smallest set for which it
  fails (`SmallestSet`) and refutes it. `SumUnfolds` shows that the recursion
  exists and does what it says, `SumRemove` that any element may be taken out
  first, and `SumChange` what the accounts need: if one summand changes, the sum
  changes by as much.
* `ReservationsProofs`. `GoneMeansFreed` is not inductive: a handler about to
  write `released` must be known to have freed. `WritersHaveFreed` says so, of
  `mark` and `expire`, and that only the loops read, which is needed because
  `VisitNext` goes to `expire` on a row found `released`; for that row
  `GoneMeansFreed` itself gives the fact back. `StockIInv` is both with the
  types. `OverdrawnOnlyByAdjustment` is a property of steps and follows from
  types, case by case: only `UpdateInventory` writes a quantity.
  `AccountIInv` adds the account of reserved units. `ReservedIsAccountedFor` and
  `ShortfallOnlyFromDoubleFree` say together that a row and what its reservations
  claim are equal, or less when one was freed twice; a step moves a summand of
  `Unfreed` or `InFlight`, or the row, by one reservation's quantity, and
  `HandlersKnowTheirRows` says that the quantity and item a handler carries are
  those of the row in the table, which no statement changes.
* `TransfersProofs`. `CompletedHasArrived` needs that the handler at `arrive`
  has added to the destination (`ArrivalsAreReal`). `HoldsWhileInTransit` speaks
  of transfers at rest; `OneByOne` extends it to a transfer with a request under
  way, which is then the only one, and `Stage` says for each query of that
  request what the transfer holds and which status it has. `HoldingIInv` is these
  together, proved one action at a time. `AccountIInv` adds the two accounts of
  a row, `ExactUnlessDisturbed`: where nothing failed and nobody disturbed a
  transfer its reserved units equal what customers and transfers hold, for then
  `HoldsWhileInTransit` says that what is given back is held.
  `HeldByTransfers` is needed for the summand of a transfer about to be created.
  `ArrivesOnce` speaks of runs with failures too, where `OneByOne` says nothing;
  `ArrivalsCounted` has for them that a transfer nobody disturbed has one request
  at most, which stands where its status says (`Standing`), and that it arrived
  once per failure and once more only if completed or about to be.
* `StockViewsProofs`. `ViewsIInv` has a part for each property. `HistoryAddsUp`
  is a sum again, with changes of either sign; it needs that nothing is under way
  before the row exists (`RowsAreCreated`). `OneReplaces` adds to
  `OneActiveAlert` that a request about to insert found and resolved all alerts
  alone. `ViewsAreCurrent` speaks of states with no snapshot under way;
  `OneSnapshot` says of the others that the snapshot of an undisturbed write is
  the row and alone, and has reached the browsers when Redis is next.
  `LowStockIsNoticed` speaks of quiet states; `AlertIsComing` says that otherwise
  a request is on its way to look or to raise. `EntriesFit` is for the bound of
  the model. `NextIs` reduces every action to one of seven kinds of step, and
  each part is shown for those.
* `PaymentsProofs`. `ChargedOncePerActivation` needs the account
  `ActivationsSpent`: calls made, plus one for a worker at the call, plus one
  while the payment is PENDING or a worker has just seen it so, stay within the
  activations; and `MutexOK`, by which there is at most one such worker.
  `MoneyIInv` says of every row and every goroutine what it may rely on at the
  gateway: an identifier belongs to the payment, whoever is about to write
  SUCCEEDED knows a charge, whoever writes REFUNDED or the amount knows the money
  returned. It is inductive because the gateway only learns (`Grows`), so one
  lemma (`MoneyStep`) reduces every action to what the moved thread and the
  written row say; `SucceededWasCharged` and `RefundsAreBacked` follow.
  Of the conversion the proof uses only that it lowers no amount to zero. Of a
  webhook to be applied the invariant knows that it is
  true if its gateway is in `Verified`, and of one that writes SUCCEEDED, that the
  payment carries a charge. The two
  properties of runs without failures have an invariant each: no identifier is
  unwritten (`TraceIInv`), and for every status somebody answers, a goroutine on
  its way or an entry of the audit log (`AuditIInv`).
* `OrdersProofs`. `StagesAreNotSkipped` needs that what a request has read was
  reached (`ReadsArePast`). `OrdersImplementLifecycle` is the refinement, for any
  number of orders, requests and failures: the initial states agree, `CreateOrder`
  is `Place`, a read is `Contend` or a stutter, `ProcessRefund` is `IssueRefund`,
  `Commit` is `Advance`, `Fail` after a refund is `Lapse` and a stutter before. For
  an order that is not contended `Commit` and `ProcessRefund` follow the promise by
  `ReadsAreFresh`: the request is the only one and the status is still the one it
  read. That such an order is not refunded twice unless a refund `lapsed` is
  `RefundsAreRecorded`.
* `SessionProofs`, first part (`Auth`). `SessionsDoNotMultiply` counts sessions and those about to be
  stored; it is inductive with the types, by the cardinality of sets with one
  element more or less. `EndedStaysEnded` needs `TokensAreSigned`: what is issued
  or about to be stored was signed, and twice if two requests hold it or it is
  issued already. `MfaProtectsLogin` and `EnabledSecretWasProved` need
  `LoginsAreSteady`: a login that counts has found MFA on, and whoever is about
  to enable has shown a code.
* `AdminProofs`, first part (`Admin`). `AdminIInv` adds that the actors of requests and the users of
  rows existed once (`ActorsExisted`), that whoever is named by a row cannot be
  gone (`NamedArePresent`), and what each request has checked
  (`ChecksHold`): that is where `crossed` is needed. `SomeAdminRemains` rests on
  the role check: a request not `lost` is that of an administrator, from
  `Authenticate` on (`RolesAreKnown`), so whoever removes another remains.
* `AdminProofs`, second part (`Quotas`). `CountsAreOfThePeriod` needs
  `ResetsAreDone`: where a reset is due no use counts as `fresh`, for a request past
  the resets of its check knows that none was due on its day (`Cleared`), and counts
  as `fresh` only if that day's period still runs. `OverrunIsBounded` needs that a quota taken as strict
  is active (`LaxIsKnown`); whoever decides by the counts joins at most all other
  requests, and whoever resets is not among those that use.
* `SessionProofs`, second part (`Storefront`). A token being exchanged is the one stored unless `crossed`
  (`RefreshIsStored`); a write that may be sent again has not run (`WritesWait`);
  a fetch that does not overlap asks for the filter (`FetchFollowsFilter`). The
  three parts disturb one another nowhere, so each lemma about an action is
  assembled from one about tokens, one about writes and one about the list.

`AdminProofs` and `SessionProofs` cover two specifications each, which is why
`Quotas` and `Storefront` do not call their parts `Init`, `Next` and `Spec`.

Only model-checked: liveness (`OverdueIsSettled`, `PaymentSettles`,
`EverythingSettles`), which is outside the prover's reach.

## 7. Not modelled

The components marked "to do" above. Beyond them: HTTP validation and
authorisation, rate limiting, logging, dashboards, reports and forecasting
(queries over stored rows), templates and their rendering, migrations (their
constraints are in the types), pages and components of the frontend, and the
deployment.
