--------------------------- MODULE OrderLifecycle ---------------------------
(***************************************************************************)
(* What the order service promises of an order: the transitions of         *)
(* OrderValidationService, and one refund, only for what was delivered.    *)
(* For an order that two requests have worked on at once the promise is    *)
(* weaker for good: the next status follows one the order has had, and it  *)
(* may be refunded again; so it may when a refund was never recorded.      *)
(***************************************************************************)
EXTENDS Naturals

CONSTANT Orders

VARIABLES
  status,    \* the status of each order; "none" before it is placed
  past,      \* the statuses it has had
  contended, \* the orders two requests have worked on at once
  lapsed,    \* the orders with a refund issued and never recorded
  refunds    \* how often each order was refunded

lifecycle == <<status, past, contended, lapsed, refunds>>

Statuses == {"none", "PENDING", "PROCESSING", "SHIPPED", "DELIVERED", "CANCELLED", "REFUNDED"}

\* valid_transitions
Successors(s) ==
  CASE s = "PENDING"    -> {"PROCESSING", "CANCELLED"}
    [] s = "PROCESSING" -> {"SHIPPED", "CANCELLED"}
    [] s = "SHIPPED"    -> {"DELIVERED"}
    [] s = "DELIVERED"  -> {"REFUNDED"}
    [] OTHER            -> {}

Init ==
  /\ status = [o \in Orders |-> "none"]
  /\ past = [o \in Orders |-> {}]
  /\ contended = {}
  /\ lapsed = {}
  /\ refunds = [o \in Orders |-> 0]

Write(o, s) ==
  /\ status' = [status EXCEPT ![o] = s]
  /\ past' = [past EXCEPT ![o] = @ \cup {s}]
  /\ UNCHANGED <<contended, lapsed, refunds>>

Place(o) == status[o] = "none" /\ Write(o, "PENDING")

\* The statuses the next one may follow.
Grounds(o) == IF o \in contended THEN past[o] ELSE {status[o]}

Advance(o) == \E from \in Grounds(o) : \E s \in Successors(from) : Write(o, s)

\* A second request starts while one is under way.
Contend(o) ==
  /\ contended' = contended \cup {o}
  /\ UNCHANGED <<status, past, lapsed, refunds>>

\* A refund is issued for a delivered order, once unless the order is contended
\* or the refund before was not recorded.
IssueRefund(o) ==
  /\ "DELIVERED" \in Grounds(o)
  /\ refunds[o] = 0 \/ o \in contended \cup lapsed
  /\ refunds' = [refunds EXCEPT ![o] = @ + 1]
  /\ UNCHANGED <<status, past, contended, lapsed>>

\* The request fails after its refund: the status does not follow.
Lapse(o) ==
  /\ lapsed' = lapsed \cup {o}
  /\ UNCHANGED <<status, past, contended, refunds>>

Next == \E o \in Orders : Place(o) \/ Advance(o) \/ Contend(o) \/ IssueRefund(o) \/ Lapse(o)

Spec == Init /\ [][Next]_lifecycle
=============================================================================
