---------------------------- MODULE OrdersProofs ----------------------------
(***************************************************************************)
(* Proofs about Orders for any number of orders, requests and failures.    *)
(***************************************************************************)
EXTENDS Orders, TLAPS

(* The table of transitions ends in statuses, starts at placed orders, and  *)
(* admits what the other two validations admit.                             *)

LEMMA TransitionsTyped ==
  ASSUME NEW from, NEW to, ValidTransition(from, to)
  PROVE  /\ from \in Statuses \ {"none"} /\ to \in Statuses \ {"none"}
         /\ to # from
BY DEF ValidTransition, Statuses, Flow!Statuses

LEMMA CancelIsTransition ==
  ASSUME NEW from, Cancellable(from)
  PROVE  ValidTransition(from, "CANCELLED")
BY DEF ValidTransition, Cancellable

LEMMA RefundIsTransition ==
  ASSUME NEW from, Refundable(from)
  PROVE  ValidTransition(from, "REFUNDED")
BY DEF ValidTransition, Refundable

LEMMA IdleTyped == Idle \in Request /\ Idle.at = "idle"
BY DEF Idle, Request, Statuses, Flow!Statuses

LEMMA InitIInv == Init => OrdersIInv
<1> SUFFICES ASSUME Init PROVE OrdersIInv
  OBVIOUS
<1>1. TypeOK
  BY IdleTyped, OrdersAssumption DEF Init, TypeOK, Statuses, Flow!Statuses
<1>2. StagesAreNotSkipped
  <2>1. \A o \in Orders, s \in {"SHIPPED", "DELIVERED", "REFUNDED"} : ~Had(o, s)
    BY DEF Init, Had
  <2>2. ASSUME NEW o \in Orders PROVE ~(refunds[o] > 0)
    <3>1. refunds[o] = 0
      BY DEF Init
    <3>2. QED
      BY <3>1
  <2>3. QED
    BY <2>1, <2>2 DEF StagesAreNotSkipped
<1>3. \A r \in Requests : ~Working(r)
  BY IdleTyped DEF Init, Working
<1>4. ReadsArePast /\ ReadsAreFresh /\ RefundsAreRecorded
  BY <1>3 DEF Init, ReadsArePast, ReadsAreFresh, RefundsAreRecorded
<1>5. QED
  BY <1>1, <1>2, <1>4 DEF OrdersIInv

(* What the other requests hold stays when one moves.                       *)

LEMMA OthersStay ==
  ASSUME TypeOK, NEW r \in Requests, NEW n, requests' = [requests EXCEPT ![r] = n]
  PROVE  requests'[r] = n /\ \A q \in Requests \ {r} : requests'[q] = requests[q]
BY DEF TypeOK

-----------------------------------------------------------------------------
(* What a request gets from its SELECT, once validated, keeps the           *)
(* invariant.                                                               *)

LEMMA ReadKeepsIInv ==
  ASSUME OrdersIInv, NEW r \in Requests, NEW o \in Orders, NEW at \in {"refund", "commit"},
         NEW s, Read(r, o, at, s), ValidTransition(orders[o], s),
         at = "refund" => s = "REFUNDED",
         UNCHANGED <<orders, past, refunds, lapsed, faults>>
  PROVE  OrdersIInv'
<1> DEFINE n == [at |-> at, order |-> o, read |-> orders[o], to |-> s]
<1> USE DEF OrdersIInv
<1>1. s \in Statuses /\ orders[o] \in Statuses /\ orders[o] # "none"
  BY TransitionsTyped DEF TypeOK, Read
<1>2. n \in Request /\ n.at # "idle"
  BY <1>1 DEF Request
<1>3. requests' = [requests EXCEPT ![r] = n] /\ requests[r] = Idle
  BY DEF Read
<1>4. requests'[r] = n /\ \A q \in Requests \ {r} : requests'[q] = requests[q]
  BY <1>3, OthersStay
<1>5. contended' = IF WorkedOn(o) THEN contended \cup {o} ELSE contended
  BY DEF Read
<1>6. TypeOK'
  BY <1>2, <1>3, <1>5 DEF TypeOK
<1>7. StagesAreNotSkipped'
  BY DEF StagesAreNotSkipped, Had
<1>8. ReadsArePast'
  <2>1. ASSUME NEW q \in Requests, requests'[q].at # "idle"
        PROVE  /\ requests'[q].order \in Orders
               /\ requests'[q].read \in past'[requests'[q].order]
               /\ ValidTransition(requests'[q].read, requests'[q].to)
               /\ requests'[q].at = "refund" => requests'[q].to = "REFUNDED"
    <3>1. CASE q = r
      <4>1. orders[o] \in past[o]
        BY <1>1 DEF ReadsArePast, Had
      <4>2. QED
        BY <1>4, <3>1, <4>1
    <3>2. CASE q # r
      BY <1>4, <2>1, <3>2 DEF ReadsArePast, Had, Working
    <3>3. QED
      BY <3>1, <3>2
  <2>2. \A x \in Orders : orders'[x] # "none" => orders'[x] \in past'[x]
    BY DEF ReadsArePast, Had
  <2>3. QED
    BY <2>1, <2>2 DEF ReadsArePast, Had, Working, ValidTransition
<1>9. ReadsAreFresh'
  <2> SUFFICES ASSUME NEW q \in Requests, requests'[q].at # "idle",
                      NEW x, x = requests'[q].order, x \notin contended'
               PROVE  /\ orders[x] = requests'[q].read
                      /\ \A f \in Requests :
                           requests'[f].at # "idle" /\ requests'[f].order = x => f = q
    BY DEF ReadsAreFresh, Working
  <2>1. CASE x = o
    <3>1. \A f \in Requests : requests[f].at # "idle" => requests[f].order # o
      BY <1>5, <2>1 DEF WorkedOn, Working
    <3>2. q = r
      BY <1>4, <2>1, <3>1
    <3>3. QED
      BY <1>4, <2>1, <3>1, <3>2
  <2>2. CASE x # o
    <3>1. q # r
      BY <1>4, <2>2
    <3>2. x \notin contended /\ x = requests[q].order /\ requests[q].at # "idle"
      BY <1>4, <1>5, <3>1
    <3>3. QED
      BY <1>4, <2>2, <3>1, <3>2 DEF ReadsAreFresh, Working
  <2>3. QED
    BY <2>1, <2>2
<1>10. RefundsAreRecorded'
  <2> SUFFICES ASSUME NEW x \in Orders \ (contended \cup lapsed), refunds[x] > 0,
                      orders[x] # "REFUNDED"
               PROVE  \E q \in Requests : requests'[q].at = "commit"
                        /\ requests'[q].order = x /\ requests'[q].to = "REFUNDED"
    BY <1>5 DEF RefundsAreRecorded
  <2>1. PICK q \in Requests : requests[q].at = "commit"
          /\ requests[q].order = x /\ requests[q].to = "REFUNDED"
    BY DEF RefundsAreRecorded
  <2>2. q # r
    BY <1>3, <2>1, IdleTyped
  <2>3. QED
    BY <1>4, <2>1, <2>2
<1>11. QED
  BY <1>6, <1>7, <1>8, <1>9, <1>10

(* The refund is processed while the request is still the only one, or the  *)
(* order contended.                                                         *)

LEMMA RefundKeepsIInv ==
  ASSUME OrdersIInv, NEW r \in Requests, ProcessRefund(r)
  PROVE  OrdersIInv'
<1> DEFINE o == requests[r].order
           n == [requests[r] EXCEPT !.at = "commit"]
<1> USE DEF OrdersIInv
<1>1. requests[r] \in Request /\ requests[r].at = "refund" /\ Working(r)
  BY DEF ProcessRefund, TypeOK, Working
<1>2. /\ o \in Orders /\ requests[r].read \in past[o] /\ requests[r].to = "REFUNDED"
      /\ ValidTransition(requests[r].read, "REFUNDED")
  BY <1>1 DEF ReadsArePast, Had
<1>3. requests[r].read = "DELIVERED"
  BY <1>2 DEF ValidTransition
<1>4. /\ refunds' = [refunds EXCEPT ![o] = @ + 1] /\ requests' = [requests EXCEPT ![r] = n]
      /\ UNCHANGED <<orders, past, contended, lapsed, faults>>
  BY <1>1 DEF ProcessRefund, TypeOK
<1>5. /\ n \in Request /\ n.at = "commit" /\ n.order = o /\ n.read = requests[r].read
      /\ n.to = "REFUNDED"
  BY <1>1, <1>2 DEF Request
<1>6. requests'[r] = n /\ \A q \in Requests \ {r} : requests'[q] = requests[q]
  BY <1>4, OthersStay
<1>7. TypeOK'
  BY <1>2, <1>4, <1>5 DEF TypeOK
<1>8. \A x \in Orders : refunds'[x] > 0 => refunds[x] > 0 \/ x = o
  BY <1>2, <1>4 DEF TypeOK
<1>9. StagesAreNotSkipped'
  BY <1>2, <1>3, <1>4, <1>8 DEF StagesAreNotSkipped, Had
<1> HIDE DEF n
<1>10. \A q \in Requests : /\ requests'[q].order = requests[q].order
                           /\ requests'[q].read = requests[q].read
                           /\ requests'[q].to = requests[q].to
                           /\ requests'[q].at # "idle" <=> requests[q].at # "idle"
                           /\ requests'[q].at = "refund" => requests[q].at = "refund"
  BY <1>1, <1>2, <1>5, <1>6
<1>11. ReadsArePast'
  <2>1. ASSUME NEW q \in Requests, requests'[q].at # "idle"
        PROVE  /\ requests'[q].order \in Orders
               /\ requests'[q].read \in past'[requests'[q].order]
               /\ ValidTransition(requests'[q].read, requests'[q].to)
               /\ requests'[q].at = "refund" => requests'[q].to = "REFUNDED"
    BY <1>4, <1>10, <2>1 DEF ReadsArePast, Had, Working
  <2>2. \A x \in Orders : orders'[x] # "none" => orders'[x] \in past'[x]
    BY <1>4 DEF ReadsArePast, Had
  <2>3. QED
    BY <2>1, <2>2 DEF ReadsArePast, Had, Working, ValidTransition
<1>12. ReadsAreFresh'
  BY <1>4, <1>10 DEF ReadsAreFresh, Working
<1>13. RefundsAreRecorded'
  <2> SUFFICES ASSUME NEW x \in Orders \ (contended \cup lapsed), refunds'[x] > 0,
                      orders[x] # "REFUNDED"
               PROVE  \E q \in Requests : requests'[q].at = "commit"
                        /\ requests'[q].order = x /\ requests'[q].to = "REFUNDED"
    BY <1>4 DEF RefundsAreRecorded
  <2>1. CASE x = o
    BY <1>5, <1>6, <2>1
  <2>2. CASE x # o
    <3>1. PICK q \in Requests : requests[q].at = "commit"
            /\ requests[q].order = x /\ requests[q].to = "REFUNDED"
      BY <1>8, <2>2 DEF RefundsAreRecorded
    <3>2. q # r
      BY <2>2, <3>1
    <3>3. QED
      BY <1>6, <3>1, <3>2
  <2>3. QED
    BY <2>1, <2>2
<1>14. QED
  BY <1>7, <1>9, <1>11, <1>12, <1>13

(* A request that ends, after its commit or without one, keeps the          *)
(* invariant.                                                               *)

LEMMA EndKeepsIInv ==
  ASSUME OrdersIInv, NEW r \in Requests, Working(r),
         requests' = [requests EXCEPT ![r] = Idle],
         faults' \in 0..MaxFaults, UNCHANGED <<refunds, contended>>,
         \/ /\ UNCHANGED <<orders, past>>
            /\ lapsed' = IF requests[r].at = "commit" /\ requests[r].to = "REFUNDED"
                         THEN lapsed \cup {requests[r].order} ELSE lapsed
         \/ /\ orders' = [orders EXCEPT ![requests[r].order] = requests[r].to]
            /\ past' = [past EXCEPT ![requests[r].order] = @ \cup {requests[r].to}]
            /\ UNCHANGED lapsed
  PROVE  OrdersIInv'
<1> DEFINE o == requests[r].order
           s == requests[r].to
<1> USE DEF OrdersIInv
<1>1. /\ o \in Orders
      /\ requests[r].read \in past[o]
      /\ ValidTransition(requests[r].read, s)
  BY DEF ReadsArePast, Had
<1>2. s \in Statuses /\ s # "none"
  BY <1>1, TransitionsTyped
<1>3. TypeOK'
  BY <1>1, <1>2, IdleTyped DEF TypeOK
<1>4. \A x \in Orders : past[x] \subseteq past'[x]
  BY <1>1 DEF TypeOK
<1>5. \A x \in Orders : past'[x] \subseteq past[x] \/ (x = o /\ past'[x] = past[x] \cup {s})
  BY <1>1 DEF TypeOK
<1>6. StagesAreNotSkipped'
  <2> SUFFICES ASSUME NEW x \in Orders
               PROVE  /\ "SHIPPED" \in past'[x] => "PROCESSING" \in past'[x]
                      /\ "DELIVERED" \in past'[x] => "SHIPPED" \in past'[x]
                      /\ "REFUNDED" \in past'[x] \/ refunds[x] > 0
                           => "DELIVERED" \in past'[x]
    BY DEF StagesAreNotSkipped, Had
  <2>1. /\ "SHIPPED" \in past[x] => "PROCESSING" \in past[x]
        /\ "DELIVERED" \in past[x] => "SHIPPED" \in past[x]
        /\ "REFUNDED" \in past[x] \/ refunds[x] > 0 => "DELIVERED" \in past[x]
    BY DEF StagesAreNotSkipped, Had
  <2>2. CASE past'[x] \subseteq past[x]
    BY <2>1, <2>2, <1>4
  <2>3. CASE x = o /\ past'[x] = past[x] \cup {s}
    BY <2>1, <2>3, <1>1 DEF ValidTransition
  <2>4. QED
    BY <2>2, <2>3, <1>5
<1>7. \A x \in Orders : orders'[x] # "none" => orders'[x] \in past'[x]
  BY <1>1, <1>4 DEF ReadsArePast, Had, TypeOK
<1>8. requests'[r] = Idle /\ \A q \in Requests \ {r} : requests'[q] = requests[q]
  BY OthersStay
<1>9. \A q \in Requests : requests'[q].at # "idle" => q # r /\ requests'[q] = requests[q]
  BY <1>8, IdleTyped
<1>10. ReadsArePast'
  <2>1. ASSUME NEW q \in Requests, requests'[q].at # "idle"
        PROVE  /\ requests'[q].order \in Orders
               /\ requests'[q].read \in past'[requests'[q].order]
               /\ ValidTransition(requests'[q].read, requests'[q].to)
               /\ requests'[q].at = "refund" => requests'[q].to = "REFUNDED"
    BY <2>1, <1>9, <1>4 DEF ReadsArePast, Had, Working
  <2>2. QED
    BY <2>1, <1>7 DEF ReadsArePast, Had, Working, ValidTransition
<1>11. ReadsAreFresh'
  <2> SUFFICES ASSUME NEW q \in Requests, requests'[q].at # "idle",
                      requests[q].order \notin contended
               PROVE  /\ orders'[requests[q].order] = requests[q].read
                      /\ \A f \in Requests :
                           requests'[f].at # "idle" /\ requests[f].order = requests[q].order
                             => f = q
    BY <1>9 DEF ReadsAreFresh, Working
  <2>1. /\ requests[q].at # "idle" /\ q # r
        /\ orders[requests[q].order] = requests[q].read
        /\ \A f \in Requests :
             requests[f].at # "idle" /\ requests[f].order = requests[q].order => f = q
    BY <1>9 DEF ReadsAreFresh, Working
  <2>2. requests[q].order # o
    BY <2>1 DEF Working
  <2>3. requests[q].order \in Orders
    BY <2>1 DEF ReadsArePast, Working
  <2>4. orders'[requests[q].order] = orders[requests[q].order]
    BY <1>1, <2>2, <2>3 DEF TypeOK
  <2>5. QED
    BY <1>9, <2>1, <2>4
<1>12. RefundsAreRecorded'
  <2> SUFFICES ASSUME NEW x \in Orders \ (contended \cup lapsed'), refunds[x] > 0,
                      orders'[x] # "REFUNDED"
               PROVE  \E q \in Requests : requests'[q].at = "commit"
                        /\ requests'[q].order = x /\ requests'[q].to = "REFUNDED"
    BY DEF RefundsAreRecorded
  <2>1. x \notin contended \cup lapsed
    OBVIOUS
  <2>2. orders[x] # "REFUNDED"
    \* A fresh request has read a status that has a successor.
    <3>1. orders[x] = "REFUNDED" /\ x = o => requests[r].read = "REFUNDED"
      BY <2>1 DEF ReadsAreFresh
    <3>2. orders[x] = "REFUNDED" => x # o
      BY <1>1, <3>1 DEF ValidTransition
    <3>3. x # o => orders'[x] = orders[x]
      BY <1>1 DEF TypeOK
    <3>4. QED
      BY <3>2, <3>3
  <2>3. PICK q \in Requests : requests[q].at = "commit"
          /\ requests[q].order = x /\ requests[q].to = "REFUNDED"
    BY <2>1, <2>2 DEF RefundsAreRecorded
  <2>4. q # r
    \* Its commit would have recorded the refund, and its failure is a lapse.
    <3>1. q = r => x = o /\ s = "REFUNDED" /\ requests[r].at = "commit"
      BY <2>3
    <3>2. q = r => orders' = [orders EXCEPT ![o] = "REFUNDED"]
      BY <3>1
    <3>3. QED
      BY <1>1, <3>1, <3>2 DEF TypeOK
  <2>5. QED
    BY <1>8, <2>3, <2>4
<1>13. QED
  BY <1>3, <1>6, <1>10, <1>11, <1>12

LEMMA CreateKeepsIInv ==
  ASSUME OrdersIInv, NEW o \in Orders, CreateOrder(o)
  PROVE  OrdersIInv'
<1> USE DEF OrdersIInv
<1>1. "PENDING" \in Statuses
  BY DEF Statuses, Flow!Statuses
<1>2. /\ orders' = [orders EXCEPT ![o] = "PENDING"] /\ orders[o] = "none"
      /\ past' = [past EXCEPT ![o] = past[o] \cup {"PENDING"}]
      /\ UNCHANGED <<requests, refunds, contended, lapsed, faults>>
  BY DEF CreateOrder
<1>3. TypeOK'
  BY <1>1, <1>2 DEF TypeOK
<1>4. \A x \in Orders : past[x] \subseteq past'[x] /\ past'[x] \subseteq past[x] \cup {"PENDING"}
  BY <1>2 DEF TypeOK
<1>5. StagesAreNotSkipped'
  BY <1>2, <1>4 DEF StagesAreNotSkipped, Had
<1>6. \A x \in Orders : orders'[x] # "none" => orders'[x] \in past'[x]
  BY <1>2, <1>4 DEF ReadsArePast, Had, TypeOK
<1>7. ReadsArePast'
  BY <1>2, <1>4, <1>6 DEF ReadsArePast, Had, Working, ValidTransition
<1>8. ReadsAreFresh'
  \* An order that a request has read has been placed.
  <2>1. \A r \in Requests : requests[r].at # "idle" /\ requests[r].order \notin contended =>
          requests[r].order \in Orders /\ requests[r].order # o
    <3>1. \A r \in Requests : requests[r].at # "idle" =>
            requests[r].order \in Orders /\ requests[r].read # "none"
      BY TransitionsTyped DEF ReadsArePast, Working
    <3>2. QED
      BY <1>2, <3>1 DEF ReadsAreFresh, Working
  <2>2. QED
    BY <1>2, <2>1 DEF ReadsAreFresh, Working, TypeOK
<1>9. RefundsAreRecorded'
  <2>1. \A x \in Orders : orders[x] = "REFUNDED" => orders'[x] = "REFUNDED"
    BY <1>2 DEF TypeOK
  <2>2. QED
    BY <1>2, <2>1 DEF RefundsAreRecorded
<1>10. QED
  BY <1>3, <1>5, <1>7, <1>8, <1>9

LEMMA NextIInv == OrdersIInv /\ [Next]_vars => OrdersIInv'
<1> SUFFICES ASSUME OrdersIInv, [Next]_vars PROVE OrdersIInv'
  OBVIOUS
<1>1. CASE UNCHANGED vars
  BY <1>1 DEF vars, OrdersIInv, TypeOK, StagesAreNotSkipped, ReadsArePast, ReadsAreFresh,
            RefundsAreRecorded, Working, Had, ValidTransition
<1>2. ASSUME NEW o \in Orders, CreateOrder(o) PROVE OrdersIInv'
  BY <1>2, CreateKeepsIInv
<1>3. ASSUME NEW r \in Requests, NEW o \in Orders, NEW s \in Statuses,
             UpdateOrderStatus(r, o, s)
      PROVE  OrdersIInv'
  BY <1>3, ReadKeepsIInv DEF UpdateOrderStatus
<1>4. ASSUME NEW r \in Requests, NEW o \in Orders, CancelOrder(r, o)
      PROVE  OrdersIInv'
  BY <1>4, ReadKeepsIInv, CancelIsTransition DEF CancelOrder
<1>5. ASSUME NEW r \in Requests, NEW o \in Orders, RequestRefund(r, o)
      PROVE  OrdersIInv'
  BY <1>5, ReadKeepsIInv, RefundIsTransition DEF RequestRefund
<1>6. ASSUME NEW r \in Requests, ProcessRefund(r) PROVE OrdersIInv'
  BY <1>6, RefundKeepsIInv
<1>7. ASSUME NEW r \in Requests, Commit(r) PROVE OrdersIInv'
  BY <1>7, EndKeepsIInv DEF Commit, Working, OrdersIInv, TypeOK
<1>8. ASSUME NEW r \in Requests, Fail(r) PROVE OrdersIInv'
  <2>1. faults' \in 0..MaxFaults
    BY <1>8, OrdersAssumption DEF Fail, OrdersIInv, TypeOK
  <2>2. QED
    BY <2>1, <1>8, EndKeepsIInv DEF Fail
<1>9. QED
  BY <1>1, <1>2, <1>3, <1>4, <1>5, <1>6, <1>7, <1>8 DEF Next

(* However many requests race, a status that a request has read was reached *)
(* by the order, and no stage of the flow was skipped on the way.           *)

THEOREM OrdersInvariant == Spec => []OrdersIInv
<1>1. QED
  BY InitIInv, NextIInv, PTL DEF Spec

(* In particular an order is refunded only if it was delivered, delivered   *)
(* only if shipped and shipped only if processed: the statement about       *)
(* OrderService.update_order_status, cancel_order and the refund route that *)
(* survives their races.                                                    *)

THEOREM OrdersSkipNoStage == Spec => []StagesAreNotSkipped
<1>1. OrdersIInv => StagesAreNotSkipped
  BY DEF OrdersIInv
<1>2. QED
  BY <1>1, OrdersInvariant, PTL

-----------------------------------------------------------------------------
(* The service implements the life cycle.                                   *)

LEMMA TransitionIsSuccessor ==
  ASSUME NEW from, NEW to, ValidTransition(from, to)
  PROVE  to \in Flow!Successors(from)
<1>1. CASE from = "PENDING"
  BY <1>1 DEF ValidTransition, Flow!Successors
<1>2. CASE from = "PROCESSING"
  BY <1>2 DEF ValidTransition, Flow!Successors
<1>3. CASE from = "SHIPPED"
  BY <1>3 DEF ValidTransition, Flow!Successors
<1>4. CASE from = "DELIVERED"
  BY <1>4 DEF ValidTransition, Flow!Successors
<1>5. QED
  BY <1>1, <1>2, <1>3, <1>4 DEF ValidTransition

(* The initial state maps to the initial state of the life cycle.           *)

LEMMA InitMaps == Init => Flow!Init
BY DEF Init, Flow!Init

(* The SELECT of a request is a stutter, or the moment two requests are     *)
(* seen on one order.                                                       *)

LEMMA ReadMaps ==
  ASSUME NEW r \in Requests, NEW o \in Orders, NEW at, NEW s, Read(r, o, at, s),
         UNCHANGED <<orders, past, refunds, lapsed>>
  PROVE  Flow!Contend(o) \/ UNCHANGED Flow!lifecycle
BY DEF Read, Flow!Contend, Flow!lifecycle

(* A refund is processed for a status the order has had and, unless two     *)
(* requests worked on it or one lapsed, for the one it has, and once.       *)

LEMMA RefundMaps ==
  ASSUME OrdersIInv, NEW r \in Requests, ProcessRefund(r)
  PROVE  Flow!IssueRefund(requests[r].order)
<1> DEFINE o == requests[r].order
<1>1. Working(r) /\ requests[r].at = "refund"
  BY DEF ProcessRefund, Working
<1>2. /\ o \in Orders /\ requests[r].read \in past[o]
      /\ ValidTransition(requests[r].read, "REFUNDED")
  BY <1>1 DEF OrdersIInv, ReadsArePast, Had
<1>3. requests[r].read = "DELIVERED"
  BY <1>2 DEF ValidTransition
<1>4. o \notin contended => orders[o] = "DELIVERED"
                            /\ \A q \in Requests : Working(q) /\ requests[q].order = o => q = r
  BY <1>1, <1>3 DEF OrdersIInv, ReadsAreFresh
<1>5. "DELIVERED" \in Flow!Grounds(o)
  BY <1>2, <1>3, <1>4 DEF Flow!Grounds
<1>6. ASSUME o \notin contended \cup lapsed, refunds[o] > 0 PROVE FALSE
  <2>1. PICK q \in Requests : requests[q].at = "commit" /\ requests[q].order = o
    BY <1>2, <1>4, <1>6 DEF OrdersIInv, RefundsAreRecorded
  <2>2. q = r
    BY <1>4, <1>6, <2>1 DEF Working
  <2>3. QED
    BY <1>1, <2>1, <2>2
<1>7. refunds[o] = 0 \/ o \in contended \cup lapsed
  BY <1>2, <1>6 DEF OrdersIInv, TypeOK
<1>8. QED
  BY <1>5, <1>7 DEF ProcessRefund, Flow!IssueRefund

(* Every step maps to a step of the life cycle or to a stutter.             *)

LEMMA NextMaps == OrdersIInv /\ [Next]_vars => [Flow!Next]_(Flow!lifecycle)
<1> SUFFICES ASSUME OrdersIInv, [Next]_vars
             PROVE  [Flow!Next]_(Flow!lifecycle)
  OBVIOUS
<1>1. CASE UNCHANGED vars
  BY <1>1 DEF vars, Flow!lifecycle
<1>2. ASSUME NEW o \in Orders, CreateOrder(o) PROVE Flow!Next
  BY <1>2 DEF CreateOrder, Flow!Place, Flow!Write, Flow!Next
<1>3. ASSUME NEW r \in Requests, NEW o \in Orders, NEW s \in Statuses,
             UpdateOrderStatus(r, o, s)
      PROVE  Flow!Next \/ UNCHANGED Flow!lifecycle
  BY <1>3, ReadMaps DEF UpdateOrderStatus, Flow!Next
<1>4. ASSUME NEW r \in Requests, NEW o \in Orders, CancelOrder(r, o)
      PROVE  Flow!Next \/ UNCHANGED Flow!lifecycle
  BY <1>4, ReadMaps DEF CancelOrder, Flow!Next
<1>5. ASSUME NEW r \in Requests, NEW o \in Orders, RequestRefund(r, o)
      PROVE  Flow!Next \/ UNCHANGED Flow!lifecycle
  BY <1>5, ReadMaps DEF RequestRefund, Flow!Next
<1>6. ASSUME NEW r \in Requests, ProcessRefund(r) PROVE Flow!Next
  <2>1. requests[r].order \in Orders
    BY <1>6 DEF ProcessRefund, Working, OrdersIInv, ReadsArePast
  <2>2. QED
    BY <1>6, <2>1, RefundMaps DEF Flow!Next
<1>7. ASSUME NEW r \in Requests, Commit(r) PROVE Flow!Next
  <2> DEFINE o == requests[r].order
  <2>1. Working(r)
    BY <1>7 DEF Commit, Working
  <2>2. o \in Orders /\ requests[r].to \in Flow!Successors(requests[r].read)
    BY <2>1, TransitionIsSuccessor DEF OrdersIInv, ReadsArePast
  <2>3. requests[r].read \in Flow!Grounds(o)
    BY <2>1 DEF OrdersIInv, ReadsArePast, ReadsAreFresh, Had, Flow!Grounds
  <2>4. Flow!Write(o, requests[r].to)
    BY <1>7 DEF Commit, Flow!Write
  <2>5. QED
    BY <2>2, <2>3, <2>4 DEF Flow!Advance, Flow!Next
<1>8. ASSUME NEW r \in Requests, Fail(r) PROVE Flow!Next \/ UNCHANGED Flow!lifecycle
  <2>1. requests[r].order \in Orders
    BY <1>8 DEF Fail, OrdersIInv, ReadsArePast
  <2>2. QED
    BY <1>8, <2>1 DEF Fail, Flow!Lapse, Flow!Next, Flow!lifecycle
<1>9. QED
  BY <1>1, <1>2, <1>3, <1>4, <1>5, <1>6, <1>7, <1>8 DEF Next

(* OrderService implements the life cycle: an order leaves the table of     *)
(* transitions only after two requests worked on it at once, and even then  *)
(* only for a successor of a status it has had; without such a race it is   *)
(* refunded while DELIVERED, and again only if the refund before it was     *)
(* never recorded.                                                          *)

THEOREM OrdersImplementLifecycle == Spec => Lifecycle
<1>1. QED
  BY InitMaps, NextMaps, OrdersInvariant, PTL DEF Spec, Lifecycle, Flow!Spec
=============================================================================
