------------------------------- MODULE Orders -------------------------------
(***************************************************************************)
(* The order service: the statuses of orders as OrderService changes them. *)
(*                                                                         *)
(* Every request has an AsyncSession of its own, hence a transaction under *)
(* READ COMMITTED: it SELECTs the order, validates the status it has read, *)
(* sets the attribute and commits, which runs `UPDATE orders SET status`   *)
(* for the row whatever its status has become.  Between the SELECT and the *)
(* commit other requests run.                                              *)
(***************************************************************************)
EXTENDS Naturals

CONSTANTS
  Orders,   \* identifiers of orders
  Requests, \* slots for concurrent requests
  MaxFaults \* bound on requests that fail before their commit

ASSUME OrdersAssumption == MaxFaults \in Nat

VARIABLES
  orders,   \* the column orders.status; "none" is no row yet
  requests, \* the requests under way
  refunds,  \* history: how often a refund of each order was processed
  past,     \* history: the statuses each order has had
  contended,\* history: the orders that two requests worked on at once
  lapsed,   \* history: the orders with a refund processed and never recorded
  faults    \* how many requests have failed

vars == <<orders, requests, refunds, past, contended, lapsed, faults>>

Flow == INSTANCE OrderLifecycle WITH status <- orders

Statuses == Flow!Statuses

\* What a request carries across its awaits: what it does next, the order it has
\* read, the status it has read, and the one it is going to commit.
Request == [at : {"idle", "refund", "commit"}, order : Orders \cup {"none"},
            read : Statuses, to : Statuses]

Idle == [at |-> "idle", order |-> "none", read |-> "none", to |-> "none"]

Init ==
  /\ orders = [o \in Orders |-> "none"]
  /\ requests = [r \in Requests |-> Idle]
  /\ refunds = [o \in Orders |-> 0]
  /\ past = [o \in Orders |-> {}]
  /\ contended = {}
  /\ lapsed = {}
  /\ faults = 0

-----------------------------------------------------------------------------
(* Validation, on the status that was read                                  *)

\* Mutant: no table of transitions.
AnyTransition(from, to) == from # "none" /\ to # from

\* validate_status_transition
ValidTransition(from, to) ==
  \/ from = "PENDING" /\ to \in {"PROCESSING", "CANCELLED"}
  \/ from = "PROCESSING" /\ to \in {"SHIPPED", "CANCELLED"}
  \/ from = "SHIPPED" /\ to = "DELIVERED"
  \/ from = "DELIVERED" /\ to = "REFUNDED"

\* Mutant: a parcel on its way can be called back.
CancellableUntilDelivered(from) == from \in {"PENDING", "PROCESSING", "SHIPPED"}

\* validate_cancellation
Cancellable(from) == from \in {"PENDING", "PROCESSING"}

\* Mutant: what is refunded can be refunded again.
RefundableAgain(from) == from \in {"DELIVERED", "REFUNDED"}

\* validate_refund
Refundable(from) == from = "DELIVERED"

-----------------------------------------------------------------------------
\* create_order: the order and its items in one transaction.
CreateOrder(o) ==
  /\ orders[o] = "none"
  /\ orders' = [orders EXCEPT ![o] = "PENDING"]
  /\ past' = [past EXCEPT ![o] = @ \cup {"PENDING"}]
  /\ UNCHANGED <<requests, refunds, contended, lapsed, faults>>

Working(r) == requests[r].at # "idle"

WorkedOn(o) == \E q \in Requests : Working(q) /\ requests[q].order = o

\* The first SELECT of get_order_by_id has the order; its items are SELECTed
\* next.  The request goes on at `at` and is to commit the status s.
Read(r, o, at, s) ==
  /\ requests[r] = Idle
  /\ orders[o] # "none"
  /\ requests' = [requests EXCEPT ![r] =
                    [at |-> at, order |-> o, read |-> orders[o], to |-> s]]
  /\ contended' = IF WorkedOn(o) THEN contended \cup {o} ELSE contended

UpdateOrderStatus(r, o, s) ==
  /\ Read(r, o, "commit", s)
  /\ ValidTransition(orders[o], s)
  /\ UNCHANGED <<orders, refunds, past, lapsed, faults>>

CancelOrder(r, o) ==
  /\ Read(r, o, "commit", "CANCELLED")
  /\ Cancellable(orders[o])
  /\ UNCHANGED <<orders, refunds, past, lapsed, faults>>

\* request_refund reads the order and awaits its items.
RequestRefund(r, o) ==
  /\ Read(r, o, "refund", "REFUNDED")
  /\ Refundable(orders[o])
  /\ UNCHANGED <<orders, refunds, past, lapsed, faults>>

\* process_refund, on the order as it was read, and then update_order_status,
\* whose SELECT finds the order in the identity map of the session and leaves
\* the attributes: the transition is validated on the same, older, status.
ProcessRefund(r) ==
  /\ requests[r].at = "refund"
  /\ refunds' = [refunds EXCEPT ![requests[r].order] = @ + 1]
  /\ requests' = [requests EXCEPT ![r].at = "commit"]
  /\ UNCHANGED <<orders, past, contended, lapsed, faults>>

Commit(r) ==
  LET o == requests[r].order IN
  /\ requests[r].at = "commit"
  /\ orders' = [orders EXCEPT ![o] = requests[r].to]
  /\ past' = [past EXCEPT ![o] = @ \cup {requests[r].to}]
  /\ requests' = [requests EXCEPT ![r] = Idle]
  /\ UNCHANGED <<refunds, contended, lapsed, faults>>

\* A SELECT or the commit fails, or the worker dies: the session is closed,
\* nothing is written, and a refund that was processed stays processed.
Fail(r) ==
  /\ Working(r)
  /\ faults < MaxFaults /\ faults' = faults + 1
  /\ requests' = [requests EXCEPT ![r] = Idle]
  /\ lapsed' = IF requests[r].at = "commit" /\ requests[r].to = "REFUNDED"
               THEN lapsed \cup {requests[r].order} ELSE lapsed
  /\ UNCHANGED <<orders, refunds, past, contended>>

Next ==
  \/ \E o \in Orders : CreateOrder(o)
  \/ \E r \in Requests, o \in Orders, s \in Statuses : UpdateOrderStatus(r, o, s)
  \/ \E r \in Requests, o \in Orders : CancelOrder(r, o) \/ RequestRefund(r, o)
  \/ \E r \in Requests : ProcessRefund(r) \/ Commit(r) \/ Fail(r)

Spec == Init /\ [][Next]_vars

-----------------------------------------------------------------------------
(* Properties                                                              *)

TypeOK ==
  /\ orders \in [Orders -> Statuses]
  /\ requests \in [Requests -> Request]
  /\ refunds \in [Orders -> Nat]
  /\ past \in [Orders -> SUBSET Statuses]
  /\ contended \subseteq Orders
  /\ lapsed \subseteq Orders
  /\ faults \in 0..MaxFaults

Had(o, s) == s \in past[o]

\* However requests race, no stage of the flow is skipped: an order that ever
\* was SHIPPED was PROCESSING before, one that was DELIVERED was SHIPPED, one
\* that was REFUNDED, or whose refund was processed, was DELIVERED.
StagesAreNotSkipped ==
  \A o \in Orders :
    /\ Had(o, "SHIPPED") => Had(o, "PROCESSING")
    /\ Had(o, "DELIVERED") => Had(o, "SHIPPED")
    /\ Had(o, "REFUNDED") \/ refunds[o] > 0 => Had(o, "DELIVERED")

\* Strengthening of StagesAreNotSkipped: the status of an order, and the status
\* a request has read, were reached by the order.
ReadsArePast ==
  /\ \A o \in Orders : orders[o] # "none" => Had(o, orders[o])
  /\ \A r \in Requests : Working(r) =>
       /\ requests[r].order \in Orders
       /\ Had(requests[r].order, requests[r].read)
       /\ ValidTransition(requests[r].read, requests[r].to)
       /\ requests[r].at = "refund" => requests[r].to = "REFUNDED"

\* As long as no two requests worked on an order at once, a request under way is
\* the only one and the order still has the status it has read.
ReadsAreFresh ==
  \A r \in Requests : Working(r) /\ requests[r].order \notin contended =>
    /\ orders[requests[r].order] = requests[r].read
    /\ \A q \in Requests :
         Working(q) /\ requests[q].order = requests[r].order => q = r

\* Strengthening of Lifecycle: unless two requests worked on the order at once or
\* the request failed after its refund, a refund is recorded or about to be.
RefundsAreRecorded ==
  \A o \in Orders \ (contended \cup lapsed) : refunds[o] > 0 =>
    \/ orders[o] = "REFUNDED"
    \/ \E r \in Requests :
         requests[r].at = "commit" /\ requests[r].order = o /\ requests[r].to = "REFUNDED"

OrdersIInv ==
  TypeOK /\ StagesAreNotSkipped /\ ReadsArePast /\ ReadsAreFresh /\ RefundsAreRecorded

\* The service implements the life cycle: whatever the requests and failures, an
\* order leaves the table of transitions only after two requests worked on it at
\* once, and even then for a successor of a status it has had; and it is refunded
\* a second time only then, or after a failure between the refund and its commit.
Lifecycle == Flow!Spec
=============================================================================
