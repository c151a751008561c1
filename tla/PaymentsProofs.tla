--------------------------- MODULE PaymentsProofs ---------------------------
(***************************************************************************)
(* Proofs about Payments for any number of payments, charges, goroutines,  *)
(* retries and failures.                                                   *)
(***************************************************************************)
EXTENDS Payments, TLAPS

(* The idle thread and an unused charge are well typed.                     *)

LEMMA IdleTyped ==
  /\ Idle \in Thread /\ Idle.at = "idle"
  /\ Unused \in Charge
  /\ \A p \in Payments : Opened(p) \in Charge /\ Paid(p) \in Charge
BY PaymentsAssumption DEF Idle, Thread, Statement, Logged, Unused, Charge, Opened, Paid

(* A thread takes its next statement, with new locals or without.           *)

LEMMA NextStatement ==
  ASSUME NEW s \in Thread, NEW at \in Statement
  PROVE  LET moved == [s EXCEPT !.at = at]
         IN  moved \in Thread /\ moved.at = at /\ moved.pay = s.pay
BY Zenon DEF Thread

LEMMA NextLogging ==
  ASSUME NEW s \in Thread, NEW at \in Statement, NEW log \in Logged
  PROVE  LET logging == [s EXCEPT !.at = at, !.log = log]
         IN  logging \in Thread /\ logging.at = at /\ logging.pay = s.pay
BY Zenon DEF Thread

LEMMA NextCharged ==
  ASSUME NEW s \in Thread, NEW charge \in Charges
  PROVE  LET charged == [s EXCEPT !.charge = charge]
         IN  charged \in Thread /\ charged.at = s.at /\ charged.pay = s.pay
BY Zenon DEF Thread

(* A method begins at its first statement, with the locals it needs.        *)

LEMMA FirstPlain ==
  ASSUME NEW at \in Statement, NEW p \in Payments
  PROVE  [Idle EXCEPT !.at = at, !.pay = p] \in Thread
BY IdleTyped, Zenon DEF Thread

LEMMA FirstLogging ==
  ASSUME NEW at \in Statement, NEW p \in Payments, NEW log \in Logged
  PROVE  [Idle EXCEPT !.at = at, !.pay = p, !.log = log] \in Thread
BY IdleTyped, Zenon DEF Thread

LEMMA FirstApplying ==
  ASSUME NEW at \in Statement, NEW p \in Payments,
         NEW to \in {"none", "SUCCEEDED", "FAILED", "REFUNDED"}
  PROVE  [Idle EXCEPT !.at = at, !.pay = p, !.to = to] \in Thread
BY IdleTyped, Zenon DEF Thread

LEMMA FirstRefunding ==
  ASSUME NEW at \in Statement, NEW p \in Payments,
         NEW c \in Charges \cup {"none"}, NEW amount \in 0..Price
  PROVE  [Idle EXCEPT !.at = at, !.pay = p, !.charge = c, !.amount = amount] \in Thread
BY IdleTyped, Zenon DEF Thread

(* Every statement there is, and every amount.                              *)

LEMMA Statements ==
  /\ {"read", "start", "call", "fail", "link", "succeed"} \subseteq Statement
  /\ {"retry", "refund", "mark", "track", "apply", "log"} \subseteq Statement
BY DEF Statement

LEMMA Amounts ==
  /\ Price \in 0..Price /\ MaxFaults \in Nat
  /\ \A amount \in Refunds : amount \in 0..Price
<1>1. Price \in Nat /\ MaxFaults \in Nat /\ Refunds \subseteq 0..Price
  BY PaymentsAssumption
<1>2. QED
  BY <1>1

(* A worker is not called "none", so a mutex held by one is not free.       *)

LEMMA WorkersNamed == \A w \in Workers : w # "none" /\ w \notin Clients /\ w \in Threads
BY PaymentsAssumption DEF Threads

LEMMA InitIInv == Init => PaymentsIInv
<1> SUFFICES ASSUME Init PROVE PaymentsIInv
  OBVIOUS
<1>1. TypeOK
  BY IdleTyped, PaymentsAssumption DEF Init, TypeOK, Payment, Status, Threads
<1>2. MutexOK
  BY IdleTyped DEF Init, MutexOK, Threads
<1>3. \A p \in Payments : ~Calling(p) /\ ~Open(p)
  BY IdleTyped DEF Init, Calling, Open, Threads
<1>4. ActivationsSpent
  BY <1>3 DEF Init, ActivationsSpent
<1>5. QED
  BY <1>1, <1>2, <1>4 DEF PaymentsIInv

-----------------------------------------------------------------------------
(* What most steps do: one thread moves or returns, and no payment becomes  *)
(* PENDING.                                                                 *)

Undisturbed ==
  /\ payments' \in [Payments -> Payment]
  /\ \A p \in Payments : payments'[p].status = "PENDING" => payments[p].status = "PENDING"
  /\ waiting' \in [Payments -> Nat]
  /\ gateway' \in [Charges -> Charge]
  /\ audited' \in [Payments -> SUBSET Logged]
  /\ faults' \in 0..MaxFaults
  /\ UNCHANGED <<activations, calls>>

(* A write of a status touches one row and one column of it.                *)

LEMMA RowWritten ==
  ASSUME payments \in [Payments -> Payment], NEW p \in Payments, NEW row \in Payment,
         payments' = [payments EXCEPT ![p] = row]
  PROVE  /\ payments' \in [Payments -> Payment]
         /\ payments'[p] = row
         /\ \A q \in Payments \ {p} : payments'[q] = payments[q]
OBVIOUS

LEMMA StatusWritten ==
  ASSUME PaymentsIInv, NEW p \in Payments, NEW s \in Status, SetStatus(p, s)
  PROVE  /\ payments' \in [Payments -> Payment]
         /\ payments'[p].status = s
         /\ \A q \in Payments \ {p} : payments'[q] = payments[q]
<1> DEFINE row == [payments[p] EXCEPT !.status = s]
<1>1. payments \in [Payments -> Payment]
  BY DEF PaymentsIInv, TypeOK
<1>2. payments[p] \in Payment
  BY <1>1
<1>3. row \in Payment /\ row.status = s
  BY <1>2, SMT DEF Payment
<1>4. payments' = [payments EXCEPT ![p] = row]
  BY Zenon DEF SetStatus
<1> HIDE DEF row
<1>5. QED
  BY <1>1, <1>3, <1>4, RowWritten

(* The table is the only thing written, and no payment becomes PENDING.     *)

LEMMA OnlyRows ==
  ASSUME PaymentsIInv, payments' \in [Payments -> Payment],
         \A p \in Payments : payments'[p].status = "PENDING" => payments[p].status = "PENDING",
         UNCHANGED <<waiting, gateway, audited, activations, calls, faults>>
  PROVE  Undisturbed
BY DEF Undisturbed, PaymentsIInv, TypeOK

LEMMA OnlyStatus ==
  ASSUME PaymentsIInv, NEW p \in Payments, NEW s \in Status \ {"PENDING"}, SetStatus(p, s),
         UNCHANGED <<waiting, gateway, audited, activations, calls, faults>>
  PROVE  Undisturbed
<1>1. /\ payments' \in [Payments -> Payment]
      /\ payments'[p].status = s
      /\ \A q \in Payments \ {p} : payments'[q] = payments[q]
  BY StatusWritten
<1>2. QED
  BY <1>1, OnlyRows

(* A thread under way has the locals of its method.                         *)

LEMMA Busy ==
  ASSUME PaymentsIInv, NEW t \in Threads, threads[t].at # "idle"
  PROVE  threads[t] \in Thread /\ threads[t].pay \in Payments
BY DEF PaymentsIInv, TypeOK, MutexOK, Threads

(* Activations stay accounted for when no payment gains a call or a claim.  *)

LEMMA TokensKept ==
  ASSUME TypeOK, ActivationsSpent, UNCHANGED <<activations, calls>>,
         \A p \in Payments : (Calling(p)' => Calling(p)) /\ (Open(p)' => Open(p))
  PROVE  ActivationsSpent'
<1> SUFFICES ASSUME NEW p \in Payments
             PROVE  calls'[p] + (IF Calling(p)' THEN 1 ELSE 0)
                      + (IF Open(p)' THEN 1 ELSE 0) <= activations'[p]
  BY DEF ActivationsSpent
<1>1. calls[p] \in Nat /\ activations[p] \in Nat
  BY DEF TypeOK
<1>2. calls[p] + (IF Calling(p) THEN 1 ELSE 0) + (IF Open(p) THEN 1 ELSE 0) <= activations[p]
  BY DEF ActivationsSpent
<1>3. (Calling(p)' => Calling(p)) /\ (Open(p)' => Open(p))
  OBVIOUS
<1> HIDE DEF Calling, Open
<1>4. QED
  BY <1>1, <1>2, <1>3

(* A busy thread moves on within its method, to a statement that is neither *)
(* the write of PROCESSING nor the call of the gateway.                     *)

LEMMA MoveIInv ==
  ASSUME PaymentsIInv, NEW t \in Threads, NEW state \in Thread, Goto(t, state),
         threads[t].at # "idle" \/ t \in Clients,
         state.pay \in Payments, threads[t].at # "idle" => state.pay = threads[t].pay,
         state.at \notin {"call", "start"}, UNCHANGED mutex, Undisturbed
  PROVE  PaymentsIInv'
<1>1. TypeOK'
  BY DEF PaymentsIInv, TypeOK, Goto, Undisturbed
<1>2. MutexOK'
  BY WorkersNamed DEF PaymentsIInv, TypeOK, MutexOK, Goto, Threads
<1>3. \A p \in Payments : (Calling(p)' => Calling(p)) /\ (Open(p)' => Open(p))
  BY WorkersNamed DEF PaymentsIInv, TypeOK, Goto, Calling, Open, Undisturbed
<1>4. ActivationsSpent'
  BY <1>3, TokensKept DEF PaymentsIInv, Undisturbed
<1>5. QED
  BY <1>1, <1>2, <1>4 DEF PaymentsIInv

(* A busy thread returns from its method and unlocks the mutex it holds.    *)

LEMMA ReturnIInv ==
  ASSUME PaymentsIInv, NEW t \in Threads, threads[t].at # "idle", Return(t), Undisturbed
  PROVE  PaymentsIInv'
<1>1. TypeOK'
  BY IdleTyped, PaymentsAssumption DEF PaymentsIInv, TypeOK, Return, Goto, Undisturbed
<1>2. MutexOK'
  <2>1. ASSUME NEW w \in Workers, threads'[w].at # "idle"
        PROVE  threads'[w].pay \in Payments /\ mutex'[threads'[w].pay] = w
    <3>1. w # t /\ threads'[w] = threads[w]
      BY <2>1, IdleTyped, WorkersNamed DEF PaymentsIInv, TypeOK, Return, Goto
    <3>2. threads[w].pay \in Payments /\ mutex[threads[w].pay] = w
      BY <2>1, <3>1 DEF PaymentsIInv, MutexOK
    <3>3. t \in Workers => mutex[threads[t].pay] = t
      BY DEF PaymentsIInv, MutexOK
    <3>4. QED
      BY <3>1, <3>2, <3>3 DEF Return, PaymentsIInv, TypeOK
  <2>2. \A c \in Clients : threads'[c].at # "idle" => threads'[c].pay \in Payments
    BY IdleTyped DEF PaymentsIInv, TypeOK, MutexOK, Return, Goto, Threads
  <2>3. QED
    BY <2>1, <2>2 DEF MutexOK
<1>3. \A p \in Payments : (Calling(p)' => Calling(p)) /\ (Open(p)' => Open(p))
  BY IdleTyped, WorkersNamed
     DEF PaymentsIInv, TypeOK, Return, Goto, Calling, Open, Undisturbed
<1>4. ActivationsSpent'
  BY <1>3, TokensKept DEF PaymentsIInv, Undisturbed
<1>5. QED
  BY <1>1, <1>2, <1>4 DEF PaymentsIInv
-----------------------------------------------------------------------------
(* The steps of a worker.                                                   *)

\* What the invariant says of a busy worker.
LEMMA BusyWorker ==
  ASSUME PaymentsIInv, NEW w \in Workers, threads[w].at # "idle"
  PROVE  /\ threads[w] \in Thread /\ threads[w].pay \in Payments
         /\ mutex[threads[w].pay] = w
         /\ \A v \in Workers : threads[v].at # "idle" /\ threads[v].pay = threads[w].pay => v = w
BY WorkersNamed DEF PaymentsIInv, TypeOK, MutexOK

LEMMA AcquireIInv ==
  ASSUME PaymentsIInv, NEW w \in Workers, NEW p \in Payments, Acquire(w, p)
  PROVE  PaymentsIInv'
<1> DEFINE state == [Idle EXCEPT !.at = "read", !.pay = p]
<1>1. state \in Thread /\ state.at = "read" /\ state.pay = p
  <2>1. "read" \in Statement
    BY Statements
  <2>2. state \in Thread
    BY <2>1, FirstPlain, Zenon
  <2>3. QED
    BY <2>2 DEF Idle
<1>2. Goto(w, state) /\ w \in Threads
  BY WorkersNamed DEF Acquire
<1> HIDE DEF state
<1>3. TypeOK'
  BY <1>1, <1>2 DEF PaymentsIInv, TypeOK, Acquire, Goto
<1>4. MutexOK'
  <2>1. ASSUME NEW v \in Workers, threads'[v].at # "idle"
        PROVE  threads'[v].pay \in Payments /\ mutex'[threads'[v].pay] = v
    <3>1. CASE v = w
      BY <1>1, <1>2, <3>1 DEF Acquire, Goto, PaymentsIInv, TypeOK
    <3>2. CASE v # w
      <4>1. threads'[v] = threads[v]
        BY <1>2, <3>2, WorkersNamed DEF Goto, PaymentsIInv, TypeOK
      <4>2. threads[v].pay \in Payments /\ mutex[threads[v].pay] = v /\ threads[v].pay # p
        BY <2>1, <4>1, WorkersNamed DEF Acquire, PaymentsIInv, MutexOK
      <4>3. QED
        BY <4>1, <4>2 DEF Acquire, PaymentsIInv, TypeOK
    <3>3. QED
      BY <3>1, <3>2
  <2>2. \A c \in Clients : threads'[c].at # "idle" => threads'[c].pay \in Payments
    BY <1>2, WorkersNamed DEF Goto, PaymentsIInv, TypeOK, MutexOK, Threads
  <2>3. QED
    BY <2>1, <2>2 DEF MutexOK
<1>5. \A q \in Payments : (Calling(q)' => Calling(q)) /\ (Open(q)' => Open(q))
  BY <1>1, <1>2, WorkersNamed DEF PaymentsIInv, TypeOK, Acquire, Goto, Calling, Open
<1>6. ActivationsSpent'
  BY <1>5, TokensKept DEF PaymentsIInv, Acquire
<1>7. QED
  BY <1>3, <1>4, <1>6 DEF PaymentsIInv

\* A worker moves from one statement to the next one of the same payment.
LEMMA WorkerStays ==
  ASSUME PaymentsIInv, NEW w \in Workers, threads[w].at # "idle",
         NEW state \in Thread, state.pay = threads[w].pay, Goto(w, state), UNCHANGED mutex
  PROVE  MutexOK' /\ threads' \in [Threads -> Thread]
<1>1. threads' \in [Threads -> Thread]
  BY DEF Goto, PaymentsIInv, TypeOK
<1>2. MutexOK'
  BY WorkersNamed DEF Goto, PaymentsIInv, TypeOK, MutexOK, Threads
<1>3. QED
  BY <1>1, <1>2

LEMMA RecheckIInv ==
  ASSUME PaymentsIInv, NEW w \in Workers, Recheck(w)
  PROVE  PaymentsIInv'
<1> DEFINE p == threads[w].pay
           state == [threads[w] EXCEPT !.at = "start"]
<1>1. w \in Threads /\ threads[w].at # "idle" /\ p \in Payments
  BY WorkersNamed, BusyWorker DEF Recheck
<1>2. CASE payments[p].status # "PENDING"
  <2>1. Return(w)
    BY <1>2 DEF Recheck
  <2>2. Undisturbed
    BY DEF Recheck, Undisturbed, PaymentsIInv, TypeOK
  <2>3. QED
    BY <1>1, <2>1, <2>2, ReturnIInv
<1>3. CASE payments[p].status = "PENDING"
  <2>1. Goto(w, state) /\ UNCHANGED mutex
    BY <1>3 DEF Recheck, Step, Return
  <2>2. state \in Thread /\ state.at = "start" /\ state.pay = p
    BY <1>1, Busy, Statements, NextStatement, Zenon
  <2> HIDE DEF state
  <2>3. MutexOK' /\ threads' \in [Threads -> Thread]
    BY <1>1, <2>1, <2>2, WorkerStays
  <2>4. TypeOK'
    BY <2>1, <2>3 DEF PaymentsIInv, TypeOK, Recheck
  <2>5. \A q \in Payments : (Calling(q)' => Calling(q)) /\ (Open(q)' => Open(q))
    BY <1>1, <1>3, <2>1, <2>2, WorkersNamed
       DEF PaymentsIInv, TypeOK, Goto, Calling, Open, Recheck
  <2>6. ActivationsSpent'
    BY <2>5, TokensKept DEF PaymentsIInv, Recheck
  <2>7. QED
    BY <2>3, <2>4, <2>6 DEF PaymentsIInv
<1>4. QED
  BY <1>2, <1>3

\* The worker that writes PROCESSING trades its claim for the right to call.
LEMMA StartProcessingIInv ==
  ASSUME PaymentsIInv, NEW w \in Workers, StartProcessing(w)
  PROVE  PaymentsIInv'
<1> DEFINE p == threads[w].pay
           state == [threads[w] EXCEPT !.at = "call"]
<1>1. w \in Threads /\ threads[w].at = "start" /\ p \in Payments
  BY WorkersNamed, BusyWorker DEF StartProcessing
<1>2. state \in Thread /\ state.at = "call" /\ state.pay = p
  BY <1>1, Busy, Statements, NextStatement, Zenon
<1>3. Goto(w, state) /\ UNCHANGED mutex
  BY DEF StartProcessing, Step
<1>4. payments' \in [Payments -> Payment] /\ payments'[p].status = "PROCESSING"
      /\ \A q \in Payments \ {p} : payments'[q] = payments[q]
  <2>1. SetStatus(p, "PROCESSING") /\ "PROCESSING" \in Status
    BY DEF StartProcessing, Status
  <2> HIDE DEF p
  <2>2. QED
    BY <1>1, <2>1, StatusWritten
<1> HIDE DEF state
<1>5. MutexOK' /\ threads' \in [Threads -> Thread]
  BY <1>1, <1>2, <1>3, WorkerStays
<1>6. TypeOK'
  BY <1>3, <1>4, <1>5 DEF PaymentsIInv, TypeOK, StartProcessing
<1>7. \A v \in Workers : threads[v].at # "idle" /\ threads[v].pay = p => v = w
  BY <1>1, BusyWorker
<1>8. \A q \in Payments : q = p => Open(q) /\ ~Calling(q) /\ ~Open(q)'
  BY <1>1, <1>2, <1>3, <1>4, <1>7, WorkersNamed
     DEF Open, Calling, Goto, PaymentsIInv, TypeOK
<1>9. \A q \in Payments \ {p} : (Calling(q)' => Calling(q)) /\ (Open(q)' => Open(q))
  BY <1>1, <1>2, <1>3, <1>4, WorkersNamed DEF Open, Calling, Goto, PaymentsIInv, TypeOK
<1>10. ActivationsSpent'
  <2> SUFFICES ASSUME NEW q \in Payments
               PROVE  calls'[q] + (IF Calling(q)' THEN 1 ELSE 0)
                        + (IF Open(q)' THEN 1 ELSE 0) <= activations'[q]
    BY DEF ActivationsSpent
  <2>1. calls[q] \in Nat /\ activations[q] \in Nat /\ calls' = calls /\ activations' = activations
    BY DEF PaymentsIInv, TypeOK, StartProcessing
  <2>2. calls[q] + (IF Calling(q) THEN 1 ELSE 0) + (IF Open(q) THEN 1 ELSE 0) <= activations[q]
    BY DEF PaymentsIInv, ActivationsSpent
  <2> HIDE DEF Calling, Open, p
  <2>3. CASE q = p
    BY <1>8, <2>1, <2>2, <2>3
  <2>4. CASE q # p
    BY <1>9, <2>1, <2>2, <2>4
  <2>5. QED
    BY <2>3, <2>4
<1>11. QED
  BY <1>5, <1>6, <1>10 DEF PaymentsIInv

\* A call spends the right of the one worker that has it.
LEMMA CallIInv ==
  ASSUME PaymentsIInv, NEW w \in Workers, threads[w].at = "call",
         NEW state \in Thread, state.pay = threads[w].pay, state.at \in {"link", "fail"},
         Goto(w, state), calls' = [calls EXCEPT ![threads[w].pay] = @ + 1],
         gateway' \in [Charges -> Charge], faults' \in 0..MaxFaults,
         UNCHANGED <<payments, waiting, mutex, audited, activations>>
  PROVE  PaymentsIInv'
<1> DEFINE p == threads[w].pay
<1>1. w \in Threads /\ p \in Payments
      /\ \A v \in Workers : threads[v].at # "idle" /\ threads[v].pay = p => v = w
  BY WorkersNamed, BusyWorker
<1>2. MutexOK' /\ threads' \in [Threads -> Thread]
  BY WorkerStays
<1>3. TypeOK'
  BY <1>1, <1>2 DEF PaymentsIInv, TypeOK
<1>4. \A q \in Payments : q = p => Calling(q) /\ ~Calling(q)'
  BY <1>1, WorkersNamed DEF Calling, Goto, PaymentsIInv, TypeOK
<1>5. \A q \in Payments : (Calling(q)' => Calling(q)) /\ (Open(q)' => Open(q))
  BY WorkersNamed DEF Open, Calling, Goto, PaymentsIInv, TypeOK
<1>6. ActivationsSpent'
  <2> SUFFICES ASSUME NEW q \in Payments
               PROVE  calls'[q] + (IF Calling(q)' THEN 1 ELSE 0)
                        + (IF Open(q)' THEN 1 ELSE 0) <= activations'[q]
    BY DEF ActivationsSpent
  <2>1. calls[q] \in Nat /\ activations[q] \in Nat /\ activations' = activations
        /\ calls'[q] = IF q = p THEN calls[q] + 1 ELSE calls[q]
    BY <1>1 DEF PaymentsIInv, TypeOK
  <2>2. calls[q] + (IF Calling(q) THEN 1 ELSE 0) + (IF Open(q) THEN 1 ELSE 0) <= activations[q]
    BY DEF PaymentsIInv, ActivationsSpent
  <2>3. (Calling(q)' => Calling(q)) /\ (Open(q)' => Open(q))
    BY <1>5
  <2> HIDE DEF Calling, Open, p
  <2>4. CASE q = p
    BY <1>4, <2>1, <2>2, <2>3, <2>4
  <2>5. CASE q # p
    BY <2>1, <2>2, <2>3, <2>5
  <2>6. QED
    BY <2>4, <2>5
<1>7. QED
  BY <1>2, <1>3, <1>6 DEF PaymentsIInv

LEMMA AskGatewayIInv ==
  ASSUME PaymentsIInv, NEW w \in Workers, AskGateway(w) \/ AnswerLost(w)
  PROVE  PaymentsIInv'
<1> DEFINE p == threads[w].pay
<1>1. w \in Threads /\ threads[w].at = "call" /\ p \in Payments
  BY WorkersNamed, BusyWorker, Zenon DEF AskGateway, AnswerLost
<1>2. calls' = [calls EXCEPT ![p] = @ + 1]
      /\ UNCHANGED <<payments, waiting, mutex, audited, activations>>
  BY Zenon DEF AskGateway, AnswerLost
<1>3. faults' \in 0..MaxFaults
  <2>1. faults' = faults \/ (faults < MaxFaults /\ faults' = faults + 1)
    BY Zenon DEF AskGateway, AnswerLost
  <2>2. faults \in 0..MaxFaults
    BY DEF PaymentsIInv, TypeOK
  <2>3. QED
    BY <2>1, <2>2, Amounts
<1>4. gateway' \in [Charges -> Charge]
  <2>1. \/ gateway' = gateway
        \/ \E c \in Charges : gateway' = [gateway EXCEPT ![c] = Paid(p)]
                            \/ gateway' = [gateway EXCEPT ![c] = Opened(p)]
    BY Zenon DEF AskGateway, AnswerLost
  <2>2. Paid(p) \in Charge /\ Opened(p) \in Charge
    BY <1>1, IdleTyped
  <2>3. gateway \in [Charges -> Charge]
    BY DEF PaymentsIInv, TypeOK
  <2> HIDE DEF p
  <2>4. QED
    BY <2>1, <2>2, <2>3
<1>5. PICK state \in Thread : Goto(w, state) /\ state.pay = p /\ state.at \in {"link", "fail"}
  <2>1. Goto(w, [threads[w] EXCEPT !.at = "fail"])
        \/ \E c \in Charges : Goto(w, [threads[w] EXCEPT !.at = "link", !.charge = c])
    BY Zenon DEF AskGateway, AnswerLost, Step
  <2>2. threads[w] \in Thread
    BY <1>1, Busy
  <2>3. CASE Goto(w, [threads[w] EXCEPT !.at = "fail"])
    <3> DEFINE state == [threads[w] EXCEPT !.at = "fail"]
    <3>1. state \in Thread /\ state.at = "fail" /\ state.pay = p
      <4>1. "fail" \in Statement
        BY Statements
      <4>2. QED
        BY <2>2, <4>1, NextStatement, Zenon
    <3>2. Goto(w, state)
      BY <2>3
    <3> HIDE DEF state
    <3>3. QED
      BY <3>1, <3>2
  <2>4. ASSUME NEW c \in Charges, Goto(w, [threads[w] EXCEPT !.at = "link", !.charge = c])
        PROVE  \E state \in Thread : Goto(w, state) /\ state.pay = p /\ state.at \in {"link", "fail"}
    <3> DEFINE linking == [threads[w] EXCEPT !.at = "link"]
               state == [linking EXCEPT !.charge = c]
    <3>1. state \in Thread /\ state.at = "link" /\ state.pay = p
      <4>1. "link" \in Statement
        BY Statements
      <4>2. linking \in Thread /\ linking.at = "link" /\ linking.pay = p
        BY <2>2, <4>1, NextStatement, Zenon
      <4> HIDE DEF linking, p
      <4>3. QED
        BY <4>2, NextCharged
    <3>2. Goto(w, state)
      BY <2>4
    <3> HIDE DEF state
    <3>3. QED
      BY <3>1, <3>2
  <2>5. QED
    BY <2>1, <2>3, <2>4, Zenon
<1>6. QED
  BY <1>1, <1>2, <1>3, <1>4, <1>5, CallIInv

\* A busy thread takes its next statement, of those that are not watched here.
LEMMA StepIInv ==
  ASSUME PaymentsIInv, NEW t \in Threads, threads[t].at # "idle",
         NEW at \in Statement, at \notin {"call", "start"}, Step(t, at),
         UNCHANGED mutex, Undisturbed
  PROVE  PaymentsIInv'
<1> DEFINE moved == [threads[t] EXCEPT !.at = at]
<1>1. threads[t] \in Thread /\ threads[t].pay \in Payments
  BY Busy
<1>2. moved \in Thread /\ moved.at = at /\ moved.pay = threads[t].pay
  BY <1>1, NextStatement, Zenon
<1>3. Goto(t, moved)
  BY DEF Step
<1> HIDE DEF moved
<1>4. QED
  BY <1>1, <1>2, <1>3, MoveIInv

\* A busy thread comes to the last statement of its method, the audit entry.
LEMMA ThenLogIInv ==
  ASSUME PaymentsIInv, NEW t \in Threads, threads[t].at # "idle",
         NEW log \in Logged, ThenLog(t, log), UNCHANGED mutex, Undisturbed
  PROVE  PaymentsIInv'
<1> DEFINE logging == [threads[t] EXCEPT !.at = "log", !.log = log]
<1>1. threads[t] \in Thread /\ threads[t].pay \in Payments
  BY Busy
<1>2. logging \in Thread /\ logging.at = "log" /\ logging.pay = threads[t].pay
  <2>1. "log" \in Statement
    BY Statements
  <2>2. QED
    BY <1>1, <2>1, NextLogging, Zenon
<1>3. Goto(t, logging)
  BY DEF ThenLog
<1> HIDE DEF logging
<1>4. QED
  BY <1>1, <1>2, <1>3, MoveIInv

LEMMA MarkFailedIInv ==
  ASSUME PaymentsIInv, NEW w \in Workers, MarkFailed(w)
  PROVE  PaymentsIInv'
<1>1. threads[w].pay \in Payments /\ "FAILED" \in Status \ {"PENDING"}
  BY BusyWorker DEF MarkFailed, Status
<1>2. Undisturbed
  BY <1>1, OnlyStatus, Zenon DEF MarkFailed
<1>3. w \in Threads /\ "failed" \in Logged
  BY WorkersNamed DEF Logged
<1>4. QED
  BY <1>2, <1>3, ThenLogIInv DEF MarkFailed

LEMMA LinkChargeIInv ==
  ASSUME PaymentsIInv, NEW w \in Workers, LinkCharge(w)
  PROVE  PaymentsIInv'
<1> DEFINE p == threads[w].pay
           row == [payments[p] EXCEPT !.ext = threads[w].charge]
<1>1. threads[w] \in Thread /\ p \in Payments /\ payments \in [Payments -> Payment]
  BY BusyWorker DEF LinkCharge, PaymentsIInv, TypeOK
<1>2. Undisturbed
  <2>1. threads[w].charge \in Charges \cup {"none"}
    BY <1>1 DEF Thread
  <2>2. payments[p] \in Payment
    BY <1>1
  <2>3. row \in Payment /\ row.status = payments[p].status
    BY <2>1, <2>2, SMT DEF Payment
  <2>4. payments' = [payments EXCEPT ![p] = row]
    BY Zenon DEF LinkCharge
  <2> HIDE DEF p, row
  <2>5. payments' \in [Payments -> Payment]
        /\ \A q \in Payments : payments'[q].status = payments[q].status
    BY <1>1, <2>3, <2>4, RowWritten
  <2>6. QED
    BY <2>5, OnlyRows DEF LinkCharge
<1>3. w \in Threads /\ "succeed" \in Statement
  BY WorkersNamed, Statements
<1>4. QED
  BY <1>2, <1>3, StepIInv DEF LinkCharge

LEMMA MarkSucceededIInv ==
  ASSUME PaymentsIInv, NEW w \in Workers, MarkSucceeded(w)
  PROVE  PaymentsIInv'
<1>1. threads[w].pay \in Payments /\ "SUCCEEDED" \in Status \ {"PENDING"}
  BY BusyWorker DEF MarkSucceeded, Status
<1>2. Undisturbed
  BY <1>1, OnlyStatus, Zenon DEF MarkSucceeded
<1>3. w \in Threads /\ "succeeded" \in Logged
  BY WorkersNamed DEF Logged
<1>4. QED
  BY <1>2, <1>3, ThenLogIInv DEF MarkSucceeded

LEMMA LogIInv ==
  ASSUME PaymentsIInv, NEW t \in Threads, Log(t)
  PROVE  PaymentsIInv'
<1>1. threads[t].pay \in Payments /\ threads[t].log \in Logged /\ threads[t].at # "idle"
  BY DEF Log, PaymentsIInv, TypeOK, MutexOK, Thread, Threads
<1>2. waiting' \in [Payments -> Nat]
  BY <1>1 DEF Log, AfterLog, PaymentsIInv, TypeOK
<1>3. audited' \in [Payments -> SUBSET Logged]
  BY <1>1 DEF Log, PaymentsIInv, TypeOK
<1>4. Undisturbed
  BY <1>2, <1>3 DEF Log, Undisturbed, PaymentsIInv, TypeOK
<1>5. QED
  BY <1>1, <1>4, ReturnIInv DEF Log, AfterLog

-----------------------------------------------------------------------------
(* The steps of a request.                                                  *)

\* A request begins: an idle client turns to its first statement.
LEMMA BeginIInv ==
  ASSUME PaymentsIInv, NEW t \in Clients, threads[t] = Idle, NEW state \in Thread,
         Goto(t, state), state.pay \in Payments, state.at \notin {"call", "start"},
         UNCHANGED mutex, Undisturbed
  PROVE  PaymentsIInv'
BY IdleTyped, MoveIInv DEF Threads

LEMMA RequestIInv ==
  ASSUME PaymentsIInv, NEW t \in Clients, NEW p \in Payments,
         RetryPayment(t, p) \/ (\E amount \in Refunds : RefundPayment(t, p, amount))
           \/ (\E c \in Charges : ReceiveWebhook(t, c))
  PROVE  PaymentsIInv'
<1>1. Undisturbed /\ threads[t] = Idle /\ UNCHANGED mutex
  BY Zenon DEF RetryPayment, RefundPayment, ReceiveWebhook, Undisturbed, PaymentsIInv, TypeOK
<1>2. \E state \in Thread : Goto(t, state) /\ state.pay \in Payments
                            /\ state.at \notin {"call", "start"}
  <2> "retry" \in Statement /\ "refund" \in Statement /\ "apply" \in Statement
    BY Statements
  <2>1. CASE RetryPayment(t, p)
    <3> DEFINE state == [Idle EXCEPT !.at = "retry", !.pay = p]
    <3>1. state \in Thread
      BY FirstPlain, Zenon
    <3>2. state.at = "retry" /\ state.pay = p /\ Goto(t, state)
      BY <2>1, Zenon DEF RetryPayment, Idle
    <3> HIDE DEF state
    <3>3. QED
      BY <3>1, <3>2, Zenon
  <2>2. ASSUME NEW amount \in Refunds, RefundPayment(t, p, amount)
        PROVE  \E state \in Thread : Goto(t, state) /\ state.pay \in Payments
                              /\ state.at \notin {"call", "start"}
    <3> DEFINE state == [Idle EXCEPT !.at = "refund", !.pay = p,
                                     !.charge = payments[p].ext, !.amount = amount]
    <3>1. amount \in 0..Price /\ payments[p].ext \in Charges \cup {"none"}
      BY Amounts DEF PaymentsIInv, TypeOK, Payment
    <3>2. state \in Thread
      BY <3>1, FirstRefunding, Zenon
    <3>3. state.at = "refund" /\ state.pay = p /\ Goto(t, state)
      BY <2>2, Zenon DEF RefundPayment, Idle
    <3> HIDE DEF state
    <3>4. QED
      BY <3>2, <3>3, Zenon
  <2>3. ASSUME NEW c \in Charges, ReceiveWebhook(t, c)
        PROVE  \E state \in Thread : Goto(t, state) /\ state.pay \in Payments
                              /\ state.at \notin {"call", "start"}
    <3>1. PICK q \in Payments, s \in {"SUCCEEDED", "FAILED", "REFUNDED"} :
            Goto(t, [Idle EXCEPT !.at = "apply", !.pay = q, !.to = s])
      <4>1. \A q \in Payments : Announced(q, c) \subseteq {"SUCCEEDED", "FAILED", "REFUNDED"}
        BY DEF Announced
      <4>2. QED
        BY <2>3, <4>1, Zenon DEF ReceiveWebhook
    <3> DEFINE state == [Idle EXCEPT !.at = "apply", !.pay = q, !.to = s]
    <3>2. state \in Thread
      BY FirstApplying, Zenon
    <3>3. state.at = "apply" /\ state.pay = q /\ Goto(t, state)
      BY <3>1, Zenon DEF Idle
    <3> HIDE DEF state
    <3>4. QED
      BY <3>2, <3>3, Zenon
  <2>4. QED
    BY <2>1, <2>2, <2>3
<1>3. QED
  BY <1>1, <1>2, BeginIInv, Zenon

\* A payment becomes PENDING, and the step is counted.
LEMMA ActivationCounted ==
  ASSUME TypeOK, ActivationsSpent, NEW p \in Payments, UNCHANGED calls,
         activations' = [activations EXCEPT ![p] = @ + 1] \/ (UNCHANGED activations /\ Open(p)),
         \A q \in Payments : (Calling(q)' => Calling(q)) /\ (q # p => (Open(q)' => Open(q)))
  PROVE  ActivationsSpent'
<1> SUFFICES ASSUME NEW q \in Payments
             PROVE  calls'[q] + (IF Calling(q)' THEN 1 ELSE 0)
                      + (IF Open(q)' THEN 1 ELSE 0) <= activations'[q]
  BY DEF ActivationsSpent
<1>1. calls[q] \in Nat /\ activations[q] \in Nat /\ calls' = calls
  BY DEF TypeOK
<1>2. calls[q] + (IF Calling(q) THEN 1 ELSE 0) + (IF Open(q) THEN 1 ELSE 0) <= activations[q]
  BY DEF ActivationsSpent
<1>3. (Calling(q)' => Calling(q)) /\ (q # p => (Open(q)' => Open(q)))
  OBVIOUS
<1>4. q # p => activations'[q] = activations[q]
  BY DEF TypeOK
<1>5. q = p => activations'[q] = activations[q] + 1 \/ (activations'[q] = activations[q] /\ Open(q))
  BY DEF TypeOK
<1> HIDE DEF Calling, Open
<1>6. QED
  BY <1>1, <1>2, <1>3, <1>4, <1>5

LEMMA CreatePaymentIInv ==
  ASSUME PaymentsIInv, NEW t \in Clients, NEW p \in Payments, NEW g \in Gateways,
         CreatePayment(t, p, g)
  PROVE  PaymentsIInv'
<1> DEFINE state == [Idle EXCEPT !.at = "log", !.pay = p, !.log = "created"]
<1>1. state \in Thread /\ state.at = "log" /\ state.pay = p
  <2>1. "log" \in Statement /\ "created" \in Logged
    BY Statements DEF Logged
  <2>2. state \in Thread
    BY <2>1, FirstLogging, Zenon
  <2>3. QED
    BY <2>2 DEF Idle
<1>2. Goto(t, state) /\ t \in Threads /\ t \notin Workers
  BY WorkersNamed DEF CreatePayment, Threads
<1> HIDE DEF state
<1>3. TypeOK'
  <2>1. g \in {"STRIPE", "PAYPAL"} /\ payments[p] \in Payment
    BY PaymentsAssumption DEF PaymentsIInv, TypeOK
  <2>2. [payments[p] EXCEPT !.status = "PENDING", !.gateway = g] \in Payment
    BY <2>1 DEF Payment, Status
  <2>3. payments' = [payments EXCEPT ![p] =
                       [payments[p] EXCEPT !.status = "PENDING", !.gateway = g]]
    BY DEF CreatePayment, PaymentsIInv, TypeOK
  <2>4. payments' \in [Payments -> Payment]
    BY <2>2, <2>3 DEF PaymentsIInv, TypeOK
  <2>5. threads' \in [Threads -> Thread] /\ activations' \in [Payments -> Nat]
    BY <1>1, <1>2 DEF CreatePayment, Goto, PaymentsIInv, TypeOK
  <2>6. QED
    BY <2>4, <2>5 DEF CreatePayment, PaymentsIInv, TypeOK
<1>4. MutexOK'
  BY <1>1, <1>2 DEF CreatePayment, Goto, PaymentsIInv, TypeOK, MutexOK, Threads
<1>5. \A q \in Payments : (Calling(q)' => Calling(q)) /\ (q # p => (Open(q)' => Open(q)))
  BY <1>2, WorkersNamed DEF CreatePayment, Goto, Calling, Open, PaymentsIInv, TypeOK
<1>6. ActivationsSpent'
  BY <1>5, ActivationCounted DEF CreatePayment, PaymentsIInv
<1>7. QED
  BY <1>3, <1>4, <1>6 DEF PaymentsIInv

LEMMA ReactivateIInv ==
  ASSUME PaymentsIInv, NEW t \in Clients, Reactivate(t)
  PROVE  PaymentsIInv'
<1> DEFINE p == threads[t].pay
<1>1. t \in Threads /\ t \notin Workers /\ p \in Payments
  BY WorkersNamed DEF Reactivate, Threads, PaymentsIInv, MutexOK
<1>2. TypeOK'
  <2>1. payments' \in [Payments -> Payment]
    BY <1>1, StatusWritten DEF Reactivate, Status
  <2>2. activations' \in [Payments -> Nat]
    <3>1. activations' = activations \/ activations' = [activations EXCEPT ![p] = @ + 1]
      BY DEF Reactivate
    <3>2. QED
      BY <1>1, <3>1 DEF PaymentsIInv, TypeOK
  <2>3. waiting' \in [Payments -> Nat] /\ threads' \in [Threads -> Thread]
    BY <1>1, IdleTyped DEF Reactivate, Goto, PaymentsIInv, TypeOK
  <2>4. QED
    BY <2>1, <2>2, <2>3 DEF Reactivate, PaymentsIInv, TypeOK
<1>3. MutexOK'
  BY <1>1, IdleTyped DEF Reactivate, Goto, PaymentsIInv, TypeOK, MutexOK, Threads
<1>4. \A q \in Payments : (Calling(q)' => Calling(q)) /\ (q # p => (Open(q)' => Open(q)))
  BY <1>1, WorkersNamed DEF Reactivate, SetStatus, Goto, Calling, Open, PaymentsIInv, TypeOK
<1>5. activations' = [activations EXCEPT ![p] = @ + 1] \/ (UNCHANGED activations /\ Open(p))
  BY DEF Reactivate, Open
<1>6. ActivationsSpent'
  <2> HIDE DEF p
  <2>1. QED
    BY <1>1, <1>4, <1>5, ActivationCounted DEF Reactivate, PaymentsIInv
<1>7. QED
  BY <1>2, <1>3, <1>6 DEF PaymentsIInv

\* What is sent of an amount is an amount, and nothing only of nothing.
LEMMA SentTyped ==
  ASSUME NEW p, NEW n \in 0..Price
  PROVE  Sent(p, n) \in 0..Price /\ (n > 0 => Sent(p, n) > 0)
BY PaymentsAssumption DEF Sent, Cents

LEMMA AskRefundIInv ==
  ASSUME PaymentsIInv, NEW t \in Clients, AskRefund(t)
  PROVE  PaymentsIInv'
<1> DEFINE c == threads[t].charge
<1>1. t \in Threads /\ t \notin Workers /\ threads[t].at # "idle" /\ threads[t] \in Thread
  BY WorkersNamed DEF AskRefund, Threads, PaymentsIInv, TypeOK
<1>2. gateway' \in [Charges -> Charge]
  <2>1. CASE c \in Charges
    <3>1. gateway[c] \in Charge /\ threads[t].amount \in 0..Price
      BY <1>1, <2>1 DEF PaymentsIInv, TypeOK, Thread
    <3> DEFINE whole == Sent(threads[t].pay, Price)
               some == Sent(threads[t].pay, threads[t].amount)
    <3>2. whole \in 0..Price /\ some \in 0..Price
      BY <3>1, SentTyped, Amounts
    <3>3. ToGive(t) = IF threads[t].amount = 0 THEN whole - gateway[c].refunded ELSE some
      BY DEF ToGive
    <3> DEFINE row == [gateway[c] EXCEPT !.refunded = @ + ToGive(t)]
    <3>4. \/ gateway' = gateway
          \/ /\ ToGive(t) > 0 /\ gateway[c].refunded + ToGive(t) <= whole
             /\ gateway' = [gateway EXCEPT ![c] = row]
      BY Zenon DEF AskRefund, Refundable
    <3> HIDE DEF whole, some
    <3>5. /\ ToGive(t) > 0 /\ gateway[c].refunded + ToGive(t) <= whole
          => row \in Charge
      BY <3>1, <3>2, <3>3, PaymentsAssumption DEF Charge
    <3>6. gateway \in [Charges -> Charge]
      BY DEF PaymentsIInv, TypeOK
    <3> HIDE DEF c, row
    <3>7. QED
      BY <2>1, <3>4, <3>5, <3>6
  <2>2. CASE c \notin Charges
    BY <2>2 DEF AskRefund, PaymentsIInv, TypeOK
  <2>3. QED
    BY <2>1, <2>2
<1>3. Undisturbed /\ UNCHANGED mutex
  BY <1>2, Zenon DEF AskRefund, Undisturbed, PaymentsIInv, TypeOK
<1>4. CASE Step(t, "mark")
  <2>1. "mark" \in Statement
    BY Statements
  <2>2. QED
    BY <1>1, <1>3, <1>4, <2>1, StepIInv
<1>5. CASE Goto(t, Idle)
  BY <1>1, <1>3, <1>5, ReturnIInv, Zenon DEF Return
<1>6. QED
  BY <1>4, <1>5 DEF AskRefund

LEMMA MarkRefundedIInv ==
  ASSUME PaymentsIInv, NEW t \in Clients, MarkRefunded(t)
  PROVE  PaymentsIInv'
<1>1. threads[t].pay \in Payments /\ "REFUNDED" \in Status \ {"PENDING"}
  BY Busy DEF MarkRefunded, Status, Threads
<1>2. Undisturbed
  BY <1>1, OnlyStatus, Zenon DEF MarkRefunded
<1>3. t \in Threads /\ "track" \in Statement
  BY Statements DEF Threads
<1>4. QED
  BY <1>2, <1>3, StepIInv DEF MarkRefunded

LEMMA TrackRefundIInv ==
  ASSUME PaymentsIInv, NEW t \in Clients, TrackRefund(t)
  PROVE  PaymentsIInv'
<1> DEFINE p == threads[t].pay
           row(amount) == [payments[p] EXCEPT !.tracked = amount]
<1>1. threads[t] \in Thread /\ p \in Payments /\ payments \in [Payments -> Payment]
  BY Busy DEF TrackRefund, PaymentsIInv, TypeOK, Threads
<1>2. threads[t].amount \in 0..Price /\ Price \in 0..Price
  BY <1>1, Amounts DEF Thread
<1>3. PICK amount \in 0..Price : payments' = [payments EXCEPT ![p] = row(amount)]
  BY <1>2 DEF TrackRefund
<1>4. payments[p] \in Payment
  BY <1>1
<1>5. row(amount) \in Payment /\ row(amount).status = payments[p].status
  BY <1>4, SMT DEF Payment
<1>6. payments' \in [Payments -> Payment]
      /\ \A q \in Payments : payments'[q].status = payments[q].status
  <2> HIDE DEF p, row
  <2>1. QED
    BY <1>1, <1>3, <1>5, RowWritten
<1>7. Undisturbed
  BY <1>6, OnlyRows DEF TrackRefund
<1>8. QED
  BY <1>7, ThenLogIInv DEF TrackRefund, Logged, Threads

LEMMA ApplyWebhookIInv ==
  ASSUME PaymentsIInv, NEW t \in Clients, ApplyWebhook(t)
  PROVE  PaymentsIInv'
<1>1. threads[t].to \in Status \ {"PENDING"} /\ threads[t].pay \in Payments
  BY Busy DEF ApplyWebhook, Thread, Threads, Status
<1>2. Undisturbed
  BY <1>1, OnlyStatus, Zenon DEF ApplyWebhook
<1>3. QED
  BY <1>2, ThenLogIInv DEF ApplyWebhook, Logged, Threads

-----------------------------------------------------------------------------
(* The surroundings.                                                        *)

LEMMA IntentSettlesIInv ==
  ASSUME PaymentsIInv, NEW c \in Charges, IntentSettles(c)
  PROVE  PaymentsIInv'
<1>1. gateway' \in [Charges -> Charge]
  <2>1. gateway' = [gateway EXCEPT ![c].paid = TRUE] \/
        gateway' = [gateway EXCEPT ![c].declined = TRUE]
    BY DEF IntentSettles
  <2>2. gateway[c] \in Charge
    BY DEF PaymentsIInv, TypeOK
  <2>3. [gateway[c] EXCEPT !.paid = TRUE] \in Charge
        /\ [gateway[c] EXCEPT !.declined = TRUE] \in Charge
    BY <2>2 DEF Charge
  <2>4. gateway' = [gateway EXCEPT ![c] = [gateway[c] EXCEPT !.paid = TRUE]] \/
        gateway' = [gateway EXCEPT ![c] = [gateway[c] EXCEPT !.declined = TRUE]]
    BY <2>1
  <2>5. QED
    BY <2>3, <2>4 DEF PaymentsIInv, TypeOK
<1>2. TypeOK' /\ MutexOK'
  BY <1>1 DEF IntentSettles, PaymentsIInv, TypeOK, MutexOK
<1>3. ActivationsSpent'
  BY TokensKept DEF IntentSettles, PaymentsIInv, Calling, Open
<1>4. QED
  BY <1>2, <1>3 DEF PaymentsIInv

LEMMA QueryFailsIInv ==
  ASSUME PaymentsIInv, NEW t \in Threads, QueryFails(t)
  PROVE  PaymentsIInv'
<1>1. threads[t].at # "idle" /\ threads[t].pay \in Payments
  BY DEF QueryFails, PaymentsIInv, MutexOK, Threads
<1>2. Undisturbed
  <2>1. waiting' \in [Payments -> Nat]
    <3>1. waiting' = waiting \/ waiting' = [waiting EXCEPT ![threads[t].pay] = @ + 1]
      BY DEF QueryFails, AfterLog
    <3>2. QED
      BY <1>1, <3>1 DEF PaymentsIInv, TypeOK
  <2>2. faults' \in 0..MaxFaults
    BY PaymentsAssumption DEF QueryFails, PaymentsIInv, TypeOK
  <2>3. QED
    BY <2>1, <2>2 DEF QueryFails, Undisturbed, PaymentsIInv, TypeOK
<1>3. \/ Return(t)
      \/ (ThenLog(t, "failed") \/ Step(t, "succeed") \/ ThenLog(t, "refunded")) /\ UNCHANGED mutex
  BY DEF QueryFails, AfterLog
<1>4. CASE Return(t)
  BY <1>1, <1>2, <1>4, ReturnIInv, Zenon
<1>5. CASE (ThenLog(t, "failed") \/ Step(t, "succeed") \/ ThenLog(t, "refunded"))
           /\ UNCHANGED mutex
  BY <1>1, <1>2, <1>5, StepIInv, ThenLogIInv, Statements DEF Logged
<1>6. QED
  BY <1>3, <1>4, <1>5

LEMMA CrashIInv ==
  ASSUME PaymentsIInv, Crash
  PROVE  PaymentsIInv'
<1>1. TypeOK'
  BY IdleTyped, PaymentsAssumption DEF Crash, PaymentsIInv, TypeOK
<1>2. MutexOK'
  BY IdleTyped DEF Crash, MutexOK, Threads
<1>3. \A q \in Payments : (Calling(q)' => Calling(q)) /\ (Open(q)' => Open(q))
  BY IdleTyped, WorkersNamed DEF Crash, Calling, Open
<1>4. ActivationsSpent'
  BY <1>3, TokensKept DEF Crash, PaymentsIInv
<1>5. QED
  BY <1>1, <1>2, <1>4 DEF PaymentsIInv

(* Every step preserves the invariant.                                      *)

LEMMA NextIInv ==
  ASSUME PaymentsIInv, [Next]_vars
  PROVE  PaymentsIInv'
<1>1. ASSUME NEW t \in Clients, Request(t)
      PROVE  PaymentsIInv'
  <2>1. CASE \E p \in Payments, g \in Gateways : CreatePayment(t, p, g)
    BY <2>1, CreatePaymentIInv
  <2>2. CASE \E p \in Payments : RetryPayment(t, p)
    BY <2>2, RequestIInv
  <2>3. CASE \E p \in Payments, amount \in Refunds : RefundPayment(t, p, amount)
    BY <2>3, RequestIInv
  <2>4. CASE \E c \in Charges : ReceiveWebhook(t, c)
    BY <2>4, RequestIInv, Zenon DEF ReceiveWebhook
  <2>5. QED
    BY <1>1, <2>1, <2>2, <2>3, <2>4 DEF Request
<1>2. ASSUME NEW t \in Clients, Serve(t)
      PROVE  PaymentsIInv'
  BY <1>2, ReactivateIInv, AskRefundIInv, MarkRefundedIInv, TrackRefundIInv,
     ApplyWebhookIInv, LogIInv DEF Serve, Threads
<1>3. ASSUME NEW w \in Workers, Work(w) \/ AnswerLost(w)
      PROVE  PaymentsIInv'
  BY <1>3, RecheckIInv, StartProcessingIInv, AskGatewayIInv, MarkFailedIInv,
     LinkChargeIInv, MarkSucceededIInv, LogIInv DEF Work, Threads
<1>4. CASE UNCHANGED vars
  BY <1>4, TokensKept DEF vars, PaymentsIInv, TypeOK, MutexOK, ActivationsSpent, Calling, Open
<1>5. CASE Next
  BY <1>1, <1>2, <1>3, <1>5, AcquireIInv, IntentSettlesIInv, QueryFailsIInv, CrashIInv DEF Next
<1>6. QED
  BY <1>4, <1>5

(* The strengthened invariant holds for any number of payments, goroutines  *)
(* and failures.                                                            *)

THEOREM PaymentsInvariant == Spec => []PaymentsIInv
BY InitIInv, NextIInv, PTL DEF Spec

(* However many goroutines, retries, webhooks, failures and crashes there   *)
(* are, the gateway is asked to charge a payment at most once for every     *)
(* time the payment became PENDING.                                         *)

THEOREM PaymentsChargedOnce == Spec => []ChargedOncePerActivation
<1>1. PaymentsIInv => ChargedOncePerActivation
  <2> SUFFICES ASSUME PaymentsIInv, NEW p \in Payments PROVE calls[p] <= activations[p]
    BY DEF ChargedOncePerActivation
  <2>1. calls[p] \in Nat /\ activations[p] \in Nat
    BY DEF PaymentsIInv, TypeOK
  <2>2. calls[p] + (IF Calling(p) THEN 1 ELSE 0) + (IF Open(p) THEN 1 ELSE 0) <= activations[p]
    BY DEF PaymentsIInv, ActivationsSpent
  <2>3. QED
    BY <2>1, <2>2
<1>2. QED
  BY <1>1, PaymentsInvariant, PTL

-----------------------------------------------------------------------------
(* Money: what a status, or a thread about to write one, says of the        *)
(* gateway.                                                                 *)

\* Charge c stands for p being SUCCEEDED; charge c of p has n given back.
Backs(c, p) == c \in ChargesOf(p) /\ (payments[p].gateway = "STRIPE" => gateway[c].paid)
GivenBack(c, p, n) == c \in ChargesOf(p) /\ gateway[c].refunded > 0 /\ gateway[c].refunded >= n

Backed(p) == \E c \in Charges : Backs(c, p)
Returned(p, n) == \E c \in Charges : GivenBack(c, p, n)

\* What REFUNDED stands for, where only verified webhooks can have written it.
Refunded(p) == payments[p].gateway \in Verified => Returned(p, 0)

\* The amount a refund records: all of it if none is named.
Whole(amount) == IF amount = 0 THEN Price ELSE amount

\* What a thread knows of the payment it works on, by the statement it is at.
Tells(r) ==
  /\ r.at # "idle" => payments[r.pay].status # "none"
  /\ r.at = "link" => Backs(r.charge, r.pay)
  /\ r.at = "succeed" => Backed(r.pay)
  /\ r.at \in {"refund", "mark", "track"} => r.charge \in ChargesOf(r.pay)
  /\ r.at \in {"mark", "track"} => GivenBack(r.charge, r.pay, Sent(r.pay, Whole(r.amount)))
  /\ r.at = "apply" =>
       /\ r.to # "none"
       /\ r.to = "SUCCEEDED" => Backed(r.pay)
       /\ r.to = "REFUNDED" => Refunded(r.pay)

\* What the row of a payment tells.
RowTells(p) ==
  /\ payments[p].ext # "none" => Backs(payments[p].ext, p)
  /\ payments[p].status = "SUCCEEDED" => Backed(p)
  /\ payments[p].status = "REFUNDED" => Refunded(p)
  /\ payments[p].tracked > 0 => Returned(p, Sent(p, payments[p].tracked))

\* Nothing belongs to a payment that has no row.
Blank(p) ==
  payments[p].status = "none" =>
    /\ payments[p].ext = "none" /\ payments[p].tracked = 0
    /\ waiting[p] = 0 /\ ChargesOf(p) = {}

MoneyIInv ==
  /\ \A t \in Threads : Tells(threads[t])
  /\ \A p \in Payments : RowTells(p) /\ Blank(p)

\* The gateway forgets nothing, payments with a row keep it and their gateway,
\* and those without stay blank.
Grows ==
  /\ \A c \in Charges, p \in Payments : gateway[c].payment = p =>
       /\ gateway'[c].payment = p
       /\ gateway[c].paid => gateway'[c].paid
       /\ gateway[c].refunded <= gateway'[c].refunded
  /\ \A p \in Payments : payments[p].status # "none" =>
       payments'[p].status # "none" /\ payments'[p].gateway = payments[p].gateway
  /\ \A p \in Payments : payments'[p].status = "none" =>
       /\ payments'[p] = payments[p] /\ waiting'[p] = waiting[p]
       /\ \A c \in Charges : gateway'[c].payment = p => gateway[c].payment = p

LEMMA GrowsKeeps ==
  ASSUME PaymentsIInv, PaymentsIInv', Grows, NEW p \in Payments, payments[p].status # "none"
  PROVE  /\ \A c \in Charges : c \in ChargesOf(p) => c \in ChargesOf(p)'
         /\ \A c \in Charges : Backs(c, p) => Backs(c, p)'
         /\ \A c \in Charges, n \in 0..Price : GivenBack(c, p, n) => GivenBack(c, p, n)'
         /\ \A n \in 0..Price : Returned(p, n) => Returned(p, n)'
         /\ \A n \in 0..Price : Sent(p, n)' = Sent(p, n)
         /\ Backed(p) => Backed(p)'
         /\ Refunded(p) => Refunded(p)'
<1>1. \A c \in Charges : c \in ChargesOf(p) => c \in ChargesOf(p)'
  BY DEF Grows, ChargesOf
<1>2. \A c \in Charges : Backs(c, p) => Backs(c, p)'
  BY <1>1 DEF Grows, Backs, ChargesOf
<1>3. ASSUME NEW c \in Charges, NEW n \in 0..Price, GivenBack(c, p, n)
      PROVE  GivenBack(c, p, n)'
  <2>1. gateway[c].refunded \in 0..Price /\ gateway'[c].refunded \in 0..Price /\ Price \in Nat
    BY PaymentsAssumption DEF PaymentsIInv, TypeOK, Charge
  <2>2. gateway[c].refunded <= gateway'[c].refunded
    BY <1>3 DEF GivenBack, ChargesOf, Grows
  <2>3. c \in ChargesOf(p)' /\ gateway[c].refunded > 0 /\ gateway[c].refunded >= n
    BY <1>1, <1>3 DEF GivenBack
  <2>4. gateway'[c].refunded > 0 /\ gateway'[c].refunded >= n
    BY <2>1, <2>2, <2>3
  <2>5. QED
    BY <2>3, <2>4 DEF GivenBack
<1>4. payments'[p].gateway = payments[p].gateway /\ 0 \in 0..Price
  BY PaymentsAssumption DEF Grows
<1>5. \A n \in 0..Price : Returned(p, n) => Returned(p, n)'
  BY <1>3 DEF Returned
<1>6. Refunded(p) => Refunded(p)'
  BY <1>4, <1>5 DEF Refunded
<1>7. \A n \in 0..Price : Sent(p, n)' = Sent(p, n)
  BY <1>4 DEF Sent
<1>8. Backed(p) => Backed(p)'
  BY <1>2 DEF Backed
<1>9. QED
  BY <1>1, <1>2, <1>3, <1>5, <1>6, <1>7, <1>8

LEMMA ChargesTyped == \A p \in Payments : ChargesOf(p) \subseteq Charges
BY DEF ChargesOf

LEMMA WholeTyped == \A n \in 0..Price : Whole(n) \in 0..Price
BY Amounts DEF Whole

\* What a thread knows stays true.
LEMMA TellsOn ==
  ASSUME PaymentsIInv, PaymentsIInv', Grows, NEW r \in Thread, Tells(r),
         r.at # "idle" => r.pay \in Payments
  PROVE  Tells(r)'
<1>1. CASE r.at = "idle"
  BY <1>1 DEF Tells
<1>2. CASE r.at # "idle"
  <2>1. r.pay \in Payments /\ Tells(r)
    BY <1>2
  <2>2. payments[r.pay].status # "none" /\ payments'[r.pay].status # "none"
    BY <1>2, <2>1 DEF Tells, Grows
  <2>3. PICK n \in 0..Price : n = Whole(r.amount) /\ Sent(r.pay, n) \in 0..Price
    BY WholeTyped, SentTyped DEF Thread
  <2>4. /\ \A c \in Charges : c \in ChargesOf(r.pay) => c \in ChargesOf(r.pay)'
        /\ \A c \in Charges : Backs(c, r.pay) => Backs(c, r.pay)'
        /\ \A c \in Charges, m \in 0..Price : GivenBack(c, r.pay, m) => GivenBack(c, r.pay, m)'
        /\ Sent(r.pay, n)' = Sent(r.pay, n)
    BY <2>1, <2>2, GrowsKeeps
  <2>5. r.at = "link" => Backs(r.charge, r.pay)'
    <3>1. r.at = "link" => Backs(r.charge, r.pay) /\ r.charge \in Charges
      BY <2>1, ChargesTyped DEF Tells, Backs
    <3>2. QED
      BY <2>4, <3>1
  <2>6. Backed(r.pay) => Backed(r.pay)'
    BY <2>1, <2>2, GrowsKeeps
  <2>7. Refunded(r.pay) => Refunded(r.pay)'
    BY <2>1, <2>2, GrowsKeeps
  <2>8. r.at \in {"refund", "mark", "track"} => r.charge \in Charges /\ r.charge \in ChargesOf(r.pay)'
    BY <2>1, <2>4, ChargesTyped DEF Tells
  <2>9. r.at \in {"mark", "track"} => GivenBack(r.charge, r.pay, Sent(r.pay, Whole(r.amount)))'
    <3>1. r.at \in {"mark", "track"} =>
            GivenBack(r.charge, r.pay, Sent(r.pay, n)) /\ r.charge \in Charges
      BY <2>1, <2>3, <2>8 DEF Tells
    <3>2. PICK m \in 0..Price : m = Sent(r.pay, n) /\ m = Sent(r.pay, n)'
      BY <2>3, <2>4
    <3>3. r.at \in {"mark", "track"} => GivenBack(r.charge, r.pay, m)'
      BY <2>4, <3>1, <3>2
    <3>4. QED
      BY <2>3, <3>2, <3>3 DEF GivenBack, Whole
  <2>10. Tells(r)'
    BY <2>1, <2>2, <2>5, <2>6, <2>7, <2>8, <2>9 DEF Tells
  <2>11. QED
    BY <2>10
<1>3. QED
  BY <1>1, <1>2

\* A row tells the truth after a step if it did before, and the step leaves its
\* identifier, and writes an outcome and an amount that are backed, if any.
LEMMA RowKept ==
  ASSUME PaymentsIInv, PaymentsIInv', Grows, NEW p \in Payments, payments[p].status # "none",
         RowTells(p), payments'[p].ext = payments[p].ext,
         payments'[p].status = payments[p].status
           \/ /\ payments'[p].status = "SUCCEEDED" => Backed(p)
              /\ payments'[p].status = "REFUNDED" => Refunded(p),
         NEW n \in 0..Price, payments'[p].tracked = n,
         payments[p].tracked = n \/ Returned(p, Sent(p, n))
  PROVE  RowTells(p)'
<1>1. payments[p].ext \in Charges \cup {"none"}
  BY DEF PaymentsIInv, TypeOK, Payment
<1>2. payments[p].ext # "none" => Backs(payments[p].ext, p)'
  BY <1>1, GrowsKeeps DEF RowTells
<1>3. payments'[p].ext # "none" => Backs(payments[p].ext, p)'
  BY <1>2 DEF Backs
<1>4. /\ payments'[p].status = "SUCCEEDED" => Backed(p)'
      /\ payments'[p].status = "REFUNDED" => Refunded(p)'
  BY GrowsKeeps DEF RowTells
<1>5. PICK m \in 0..Price : m = Sent(p, n) /\ m = Sent(p, n)'
  BY SentTyped, GrowsKeeps
<1>6. n > 0 => Returned(p, m)
  BY <1>5 DEF RowTells
<1>7. n > 0 => Returned(p, m)'
  BY <1>6, GrowsKeeps
<1>8. payments'[p].tracked > 0 => Returned(p, Sent(p, payments[p].tracked))'
  BY <1>5, <1>7 DEF Returned, GivenBack
<1>9. QED
  BY <1>3, <1>4, <1>8 DEF RowTells

LEMMA MoneyStep ==
  ASSUME PaymentsIInv, PaymentsIInv', MoneyIInv, Grows,
         \A u \in Threads : threads'[u] = threads[u] \/ Tells(threads[u])',
         \A p \in Payments : payments'[p] = payments[p] \/ RowTells(p)'
  PROVE  MoneyIInv'
<1>1. ASSUME NEW u \in Threads, threads'[u] = threads[u] PROVE Tells(threads[u])'
  <2>1. PICK r \in Thread : r = threads[u]
    BY DEF PaymentsIInv, TypeOK
  <2>2. Tells(r) /\ (r.at # "idle" => r.pay \in Payments)
    BY <2>1, Busy DEF MoneyIInv
  <2>3. Tells(r)'
    BY <2>2, TellsOn
  <2>4. QED
    BY <1>1, <2>1, <2>3 DEF Tells
<1>2. ASSUME NEW p \in Payments, payments'[p] = payments[p] PROVE RowTells(p)'
  <2>1. RowTells(p) /\ Blank(p) /\ payments[p] \in Payment
    BY DEF MoneyIInv, PaymentsIInv, TypeOK
  <2>2. CASE payments[p].status = "none"
    BY <1>2, <2>1, <2>2, PaymentsAssumption DEF RowTells, Blank
  <2>3. CASE payments[p].status # "none"
    <3>1. payments[p].tracked \in 0..Price
      BY <2>1 DEF Payment
    <3>2. QED
      BY <1>2, <2>1, <2>3, <3>1, RowKept
  <2>4. QED
    BY <2>2, <2>3
<1>3. ASSUME NEW p \in Payments PROVE Blank(p)'
  BY <1>3 DEF Grows, Blank, MoneyIInv, ChargesOf
<1>4. QED
  BY <1>1, <1>2, <1>3 DEF MoneyIInv

(* One thread moves, to a state that tells the truth before the step.       *)

LEMMA ThreadTells ==
  ASSUME PaymentsIInv, PaymentsIInv', Grows, NEW t \in Threads, NEW s \in Thread,
         Tells(s), s.at # "idle" => s.pay \in Payments, Goto(t, s)
  PROVE  \A u \in Threads : threads'[u] = threads[u] \/ Tells(threads[u])'
<1>1. threads' = [threads EXCEPT ![t] = s] /\ threads \in [Threads -> Thread]
  BY DEF Goto, PaymentsIInv, TypeOK
<1>2. Tells(s)'
  BY TellsOn
<1>3. \A u \in Threads \ {t} : threads'[u] = threads[u]
  BY <1>1
<1>4. threads'[t] = s
  BY <1>1
<1>5. Tells(threads[t])'
  BY <1>2, <1>4 DEF Tells
<1>6. QED
  BY <1>3, <1>5

LEMMA OnlyWaiting ==
  ASSUME PaymentsIInv, UNCHANGED <<payments, gateway>>,
         \A p \in Payments : payments[p].status = "none" => waiting'[p] = waiting[p]
  PROVE  Grows
<1>1. \A c \in Charges : gateway[c].refunded <= gateway[c].refunded
  BY PaymentsAssumption DEF PaymentsIInv, TypeOK, Charge
<1>2. QED
  BY <1>1 DEF Grows

LEMMA MovedStep ==
  ASSUME PaymentsIInv, PaymentsIInv', MoneyIInv, NEW t \in Threads, NEW s \in Thread,
         Tells(s), s.at # "idle" => s.pay \in Payments, Goto(t, s), UNCHANGED <<payments, gateway>>,
         \A p \in Payments : payments[p].status = "none" => waiting'[p] = waiting[p]
  PROVE  MoneyIInv'
<1>1. Grows
  BY OnlyWaiting
<1>2. QED
  BY <1>1, ThreadTells, MoneyStep

\* A status is written over that of a payment that has a row.
LEMMA StatusStep ==
  ASSUME PaymentsIInv, PaymentsIInv', MoneyIInv, NEW t \in Threads, NEW s \in Thread,
         Tells(s), s.at # "idle" => s.pay \in Payments, Goto(t, s), gateway' = gateway,
         NEW p \in Payments, NEW st \in Status \ {"none"}, SetStatus(p, st),
         payments[p].status # "none",
         st = "SUCCEEDED" => Backed(p), st = "REFUNDED" => Refunded(p),
         \A q \in Payments \ {p} : waiting'[q] = waiting[q]
  PROVE  MoneyIInv'
<1>1. /\ payments[p] \in Payment
      /\ payments' = [payments EXCEPT ![p] = [payments[p] EXCEPT !.status = st]]
      /\ payments \in [Payments -> Payment]
  BY DEF PaymentsIInv, TypeOK, SetStatus
<1>2. /\ payments'[p].status = st /\ payments'[p].gateway = payments[p].gateway
      /\ payments'[p].ext = payments[p].ext /\ payments'[p].tracked = payments[p].tracked
      /\ \A q \in Payments \ {p} : payments'[q] = payments[q]
  BY <1>1 DEF Payment
<1>3. \A c \in Charges : gateway[c].refunded <= gateway[c].refunded
  BY PaymentsAssumption DEF PaymentsIInv, TypeOK, Charge
<1>4. Grows
  BY <1>2, <1>3 DEF Grows
<1>5. RowTells(p)'
  <2>1. RowTells(p)
    BY DEF MoneyIInv
  <2>2. payments[p].tracked \in 0..Price
    BY <1>1 DEF Payment
  <2>3. QED
    BY <1>2, <1>4, <2>1, <2>2, RowKept
<1>6. QED
  BY <1>2, <1>4, <1>5, ThreadTells, MoneyStep

(* Statements that need no knowledge of the gateway.                        *)

LEMMA PlainTells ==
  ASSUME NEW r \in Thread,
         r.at \in {"idle", "read", "start", "call", "fail", "retry", "log"},
         r.at # "idle" => payments[r.pay].status # "none"
  PROVE  Tells(r)
BY DEF Tells

LEMMA IdleTells == Tells(Idle)
BY IdleTyped DEF Tells

\* A thread under way works on a payment with a row, and tells the truth.
LEMMA BusyTells ==
  ASSUME PaymentsIInv, MoneyIInv, NEW t \in Threads, threads[t].at # "idle"
  PROVE  /\ threads[t] \in Thread /\ threads[t].pay \in Payments
         /\ payments[threads[t].pay].status # "none" /\ Tells(threads[t])
<1>1. Tells(threads[t])
  BY DEF MoneyIInv
<1>2. QED
  BY <1>1, Busy DEF Tells

\* The locals stay when a thread goes on to its next statement.
LEMMA NextKeeps ==
  ASSUME NEW r \in Thread, NEW at \in Statement
  PROVE  LET s == [r EXCEPT !.at = at]
         IN  /\ s \in Thread /\ s.at = at /\ s.pay = r.pay
             /\ s.charge = r.charge /\ s.amount = r.amount /\ s.to = r.to
BY SMT DEF Thread

LEMMA NextLogs ==
  ASSUME NEW r \in Thread, NEW log \in Logged, payments[r.pay].status # "none"
  PROVE  LET s == [r EXCEPT !.at = "log", !.log = log]
         IN  s \in Thread /\ Tells(s) /\ s.pay = r.pay /\ s.at = "log"
<1> DEFINE s == [r EXCEPT !.at = "log", !.log = log]
<1>1. s \in Thread /\ s.at = "log" /\ s.pay = r.pay
  BY NextLogging, Statements
<1> HIDE DEF s
<1>2. Tells(s)
  BY <1>1, PlainTells
<1> USE DEF s
<1>3. QED
  BY <1>1, <1>2

(* The actions that move a thread.                                          *)

LEMMA ReturnMoney ==
  ASSUME PaymentsIInv, PaymentsIInv', MoneyIInv, NEW t \in Threads, Return(t),
         UNCHANGED <<payments, gateway>>,
         \A p \in Payments : payments[p].status = "none" => waiting'[p] = waiting[p]
  PROVE  MoneyIInv'
BY IdleTyped, IdleTells, MovedStep DEF Return

LEMMA AcquireMoney ==
  ASSUME PaymentsIInv, PaymentsIInv', MoneyIInv,
         NEW w \in Workers, NEW p \in Payments, Acquire(w, p)
  PROVE  MoneyIInv'
<1> DEFINE s == [Idle EXCEPT !.at = "read", !.pay = p]
<1>1. s \in Thread /\ s.at = "read" /\ s.pay = p
  BY FirstPlain, Statements, IdleTyped DEF Thread
<1>2. payments[p].status # "none"
  BY DEF Acquire, MoneyIInv, Blank, PaymentsIInv, TypeOK
<1>3. /\ Goto(w, s) /\ UNCHANGED <<payments, gateway>>
      /\ waiting \in [Payments -> Nat] /\ waiting' = [waiting EXCEPT ![p] = @ - 1]
  BY DEF Acquire, PaymentsIInv, TypeOK
<1> HIDE DEF s
<1>4. Tells(s)
  BY <1>1, <1>2, PlainTells
<1>5. \A q \in Payments : payments[q].status = "none" => waiting'[q] = waiting[q]
  BY <1>2, <1>3
<1>6. QED
  BY <1>1, <1>3, <1>4, <1>5, MovedStep DEF Threads

LEMMA RecheckMoney ==
  ASSUME PaymentsIInv, PaymentsIInv', MoneyIInv, NEW w \in Workers, Recheck(w)
  PROVE  MoneyIInv'
<1>1. w \in Threads /\ UNCHANGED <<payments, waiting, gateway>> /\ threads[w].at = "read"
  BY DEF Recheck, Threads
<1>2. CASE Return(w)
  BY <1>1, <1>2, ReturnMoney
<1>3. CASE Step(w, "start")
  <2> DEFINE s == [threads[w] EXCEPT !.at = "start"]
  <2>1. threads[w] \in Thread /\ threads[w].pay \in Payments /\ payments[threads[w].pay].status # "none"
    BY <1>1, BusyTells
  <2>2. s \in Thread /\ s.at = "start" /\ s.pay = threads[w].pay
    BY <2>1, NextKeeps, Statements
  <2>3. Goto(w, s)
    BY <1>3 DEF Step
  <2> HIDE DEF s
  <2>4. Tells(s)
    BY <2>1, <2>2, PlainTells
  <2>5. QED
    BY <1>1, <2>1, <2>2, <2>3, <2>4, MovedStep
<1>4. QED
  BY <1>2, <1>3 DEF Recheck

LEMMA LogMoney ==
  ASSUME PaymentsIInv, PaymentsIInv', MoneyIInv, NEW t \in Threads, threads[t].at = "log",
         AfterLog(t), UNCHANGED <<payments, gateway>>
  PROVE  MoneyIInv'
<1>1. threads[t].pay \in Payments /\ payments[threads[t].pay].status # "none"
  BY BusyTells
<1>2. waiting \in [Payments -> Nat]
  BY DEF PaymentsIInv, TypeOK
<1>3. \A q \in Payments : payments[q].status = "none" => waiting'[q] = waiting[q]
  BY <1>1, <1>2 DEF AfterLog
<1>4. QED
  BY <1>3, ReturnMoney DEF AfterLog

LEMMA BeginMoney ==
  ASSUME PaymentsIInv, PaymentsIInv', MoneyIInv, NEW t \in Clients,
         \/ \E p \in Payments : RetryPayment(t, p)
         \/ \E p \in Payments, amount \in Refunds : RefundPayment(t, p, amount)
         \/ \E c \in Charges : ReceiveWebhook(t, c)
  PROVE  MoneyIInv'
<1>1. t \in Threads
  BY DEF Threads
<1>2. ASSUME NEW p \in Payments, RetryPayment(t, p) PROVE MoneyIInv'
  <2> DEFINE s == [Idle EXCEPT !.at = "retry", !.pay = p]
  <2>1. s \in Thread /\ s.at = "retry" /\ s.pay = p
    BY FirstPlain, Statements, IdleTyped DEF Thread
  <2>2. Goto(t, s) /\ UNCHANGED <<payments, waiting, gateway>> /\ payments[p].status # "none"
    BY <1>2 DEF RetryPayment
  <2> HIDE DEF s
  <2>3. Tells(s)
    BY <2>1, <2>2, PlainTells
  <2>4. QED
    BY <1>1, <2>1, <2>2, <2>3, MovedStep
<1>3. ASSUME NEW p \in Payments, NEW amount \in Refunds, RefundPayment(t, p, amount)
      PROVE  MoneyIInv'
  <2> DEFINE s == [Idle EXCEPT !.at = "refund", !.pay = p,
                               !.charge = payments[p].ext, !.amount = amount]
  <2>1. payments[p].ext \in Charges \cup {"none"} /\ amount \in 0..Price
    BY Amounts DEF PaymentsIInv, TypeOK, Payment
  <2>2. s \in Thread
    BY <2>1, FirstRefunding, Statements
  <2>3. s.at = "refund" /\ s.pay = p /\ s.charge = payments[p].ext
    BY IdleTyped DEF Thread
  <2>4. Goto(t, s) /\ UNCHANGED <<payments, waiting, gateway>>
    BY <1>3 DEF RefundPayment
  <2>5. payments[p].status # "none" /\ payments[p].ext \in ChargesOf(p)
    BY <1>3 DEF RefundPayment, MoneyIInv, RowTells, Backs
  <2> HIDE DEF s
  <2>6. Tells(s)
    BY <2>3, <2>5 DEF Tells
  <2>7. QED
    BY <1>1, <2>2, <2>3, <2>4, <2>6, MovedStep
<1>4. ASSUME NEW c \in Charges, ReceiveWebhook(t, c) PROVE MoneyIInv'
  <2>1. PICK p \in Payments : \E to \in Announced(p, c) :
          payments[p].ext = c /\ Goto(t, [Idle EXCEPT !.at = "apply", !.pay = p, !.to = to])
    BY <1>4, Zenon DEF ReceiveWebhook
  <2> PICK to \in Announced(p, c) :
          payments[p].ext = c /\ Goto(t, [Idle EXCEPT !.at = "apply", !.pay = p, !.to = to])
    BY <2>1
  <2> DEFINE s == [Idle EXCEPT !.at = "apply", !.pay = p, !.to = to]
  <2>2. to \in {"SUCCEEDED", "FAILED", "REFUNDED"}
    BY DEF Announced
  <2>3. s \in Thread
    BY <2>2, FirstApplying, Statements
  <2>4. s.at = "apply" /\ s.pay = p /\ s.to = to
    BY IdleTyped DEF Thread
  <2>5. Goto(t, s) /\ UNCHANGED <<payments, waiting, gateway>>
    BY <1>4, <2>1 DEF ReceiveWebhook
  <2>6. Backs(c, p) /\ c \in ChargesOf(p) /\ payments[p].status # "none"
    BY <2>1, PaymentsAssumption DEF MoneyIInv, RowTells, Blank, Backs
  <2>7. to = "SUCCEEDED" => Backed(p)
    BY <2>6 DEF Backed
  <2>8. to = "REFUNDED" => Refunded(p)
    <3>1. gateway[c].refunded \in 0..Price
      BY DEF PaymentsIInv, TypeOK, Charge
    <3>2. to = "REFUNDED" /\ payments[p].gateway \in Verified => gateway[c].refunded > 0
      BY DEF Announced
    <3>3. to = "REFUNDED" /\ payments[p].gateway \in Verified => GivenBack(c, p, 0)
      BY <2>6, <3>1, <3>2, PaymentsAssumption DEF GivenBack
    <3>4. QED
      BY <3>3 DEF Refunded, Returned
  <2> HIDE DEF s
  <2>9. Tells(s)
    BY <2>2, <2>4, <2>6, <2>7, <2>8 DEF Tells
  <2>10. QED
    BY <1>1, <2>3, <2>4, <2>5, <2>9, MovedStep
<1>5. QED
  BY <1>2, <1>3, <1>4

(* The actions that write a status.                                         *)

LEMMA StatusMoney ==
  ASSUME PaymentsIInv, PaymentsIInv', MoneyIInv, NEW t \in Threads,
         NEW st \in Status \ {"none"}, SetStatus(threads[t].pay, st),
         UNCHANGED <<gateway, waiting>>, threads[t].at # "idle",
         NEW s \in Thread, s.pay = threads[t].pay, Tells(s), Goto(t, s),
         st = "SUCCEEDED" => Backed(threads[t].pay),
         st = "REFUNDED" => Refunded(threads[t].pay)
  PROVE  MoneyIInv'
<1>1. PICK p \in Payments : p = threads[t].pay
  BY BusyTells
<1>2. payments[p].status # "none"
  BY <1>1, BusyTells
<1>3. SetStatus(p, st) /\ s.pay \in Payments
  BY <1>1
<1>4. (st = "SUCCEEDED" => Backed(p)) /\ (st = "REFUNDED" => Refunded(p))
  BY <1>1
<1>5. QED
  BY <1>2, <1>3, <1>4, StatusStep

LEMMA StatusesAre == {"PENDING", "PROCESSING", "SUCCEEDED", "FAILED", "REFUNDED"} \subseteq Status \ {"none"}
BY DEF Status

LEMMA StartMoney ==
  ASSUME PaymentsIInv, PaymentsIInv', MoneyIInv, NEW w \in Workers, StartProcessing(w)
  PROVE  MoneyIInv'
<1> DEFINE s == [threads[w] EXCEPT !.at = "call"]
<1>1. w \in Threads /\ threads[w].at = "start" /\ UNCHANGED <<gateway, waiting>>
      /\ SetStatus(threads[w].pay, "PROCESSING") /\ Goto(w, s)
  BY DEF StartProcessing, Step, Threads
<1>2. threads[w] \in Thread /\ payments[threads[w].pay].status # "none"
  BY <1>1, BusyTells
<1>3. s \in Thread /\ s.at = "call" /\ s.pay = threads[w].pay
  BY <1>2, NextKeeps, Statements
<1> HIDE DEF s
<1>4. Tells(s)
  BY <1>2, <1>3, PlainTells
<1>5. QED
  BY <1>1, <1>3, <1>4, StatusMoney, StatusesAre

LEMMA LoggedStatusMoney ==
  ASSUME PaymentsIInv, PaymentsIInv', MoneyIInv, NEW t \in Threads,
         NEW st \in Status \ {"none"}, SetStatus(threads[t].pay, st),
         UNCHANGED <<gateway, waiting>>, threads[t].at # "idle",
         NEW log \in Logged, ThenLog(t, log),
         st = "SUCCEEDED" => Backed(threads[t].pay),
         st = "REFUNDED" => Refunded(threads[t].pay)
  PROVE  MoneyIInv'
<1> DEFINE s == [threads[t] EXCEPT !.at = "log", !.log = log]
<1>1. threads[t] \in Thread /\ payments[threads[t].pay].status # "none"
  BY BusyTells
<1>2. s \in Thread /\ Tells(s) /\ s.pay = threads[t].pay
  BY <1>1, NextLogs
<1>3. Goto(t, s)
  BY DEF ThenLog
<1> HIDE DEF s
<1>4. QED
  BY <1>2, <1>3, StatusMoney

LEMMA OutcomeMoney ==
  ASSUME PaymentsIInv, PaymentsIInv', MoneyIInv, NEW t \in Threads,
         MarkFailed(t) \/ MarkSucceeded(t) \/ ApplyWebhook(t)
  PROVE  MoneyIInv'
<1>1. threads[t].at # "idle" /\ UNCHANGED <<gateway, waiting>>
  BY DEF MarkFailed, MarkSucceeded, ApplyWebhook
<1>2. Tells(threads[t]) /\ threads[t] \in Thread
  BY <1>1, BusyTells
<1>3. {"failed", "succeeded", "processed"} \subseteq Logged
  BY DEF Logged
<1>4. CASE MarkFailed(t)
  BY <1>1, <1>3, <1>4, StatusesAre, LoggedStatusMoney DEF MarkFailed
<1>5. CASE MarkSucceeded(t)
  <2>1. Backed(threads[t].pay)
    BY <1>2, <1>5 DEF MarkSucceeded, Tells
  <2>2. QED
    BY <1>1, <1>3, <1>5, <2>1, StatusesAre, LoggedStatusMoney DEF MarkSucceeded
<1>6. CASE ApplyWebhook(t)
  <2>1. /\ threads[t].to \in Status \ {"none"}
        /\ threads[t].to = "SUCCEEDED" => Backed(threads[t].pay)
        /\ threads[t].to = "REFUNDED" => Refunded(threads[t].pay)
    BY <1>2, <1>6, StatusesAre DEF ApplyWebhook, Tells, Thread
  <2>2. QED
    BY <1>1, <1>3, <1>6, <2>1, LoggedStatusMoney DEF ApplyWebhook
<1>7. QED
  BY <1>4, <1>5, <1>6

LEMMA ReactivateMoney ==
  ASSUME PaymentsIInv, PaymentsIInv', MoneyIInv, NEW t \in Clients, Reactivate(t)
  PROVE  MoneyIInv'
<1>1. t \in Threads /\ threads[t].at # "idle"
  BY DEF Reactivate, Threads
<1>2. PICK p \in Payments : p = threads[t].pay /\ payments[p].status # "none"
  BY <1>1, BusyTells
<1>3. waiting \in [Payments -> Nat]
  BY DEF PaymentsIInv, TypeOK
<1>4. \A q \in Payments \ {p} : waiting'[q] = waiting[q]
  BY <1>2, <1>3 DEF Reactivate
<1>5. SetStatus(p, "PENDING") /\ Goto(t, Idle) /\ gateway' = gateway
  BY <1>2 DEF Reactivate
<1>6. QED
  BY <1>1, <1>2, <1>4, <1>5, IdleTyped, IdleTells, StatusesAre, StatusStep

LEMMA MarkRefundedMoney ==
  ASSUME PaymentsIInv, PaymentsIInv', MoneyIInv, NEW t \in Clients, MarkRefunded(t)
  PROVE  MoneyIInv'
<1> DEFINE s == [threads[t] EXCEPT !.at = "track"]
<1>1. t \in Threads /\ threads[t].at = "mark" /\ UNCHANGED <<gateway, waiting>>
      /\ SetStatus(threads[t].pay, "REFUNDED") /\ Goto(t, s)
  BY DEF MarkRefunded, Step, Threads
<1>2. threads[t] \in Thread /\ payments[threads[t].pay].status # "none" /\ Tells(threads[t])
  BY <1>1, BusyTells
<1>3. s \in Thread /\ s.at = "track" /\ s.pay = threads[t].pay
      /\ s.charge = threads[t].charge /\ s.amount = threads[t].amount
  BY <1>2, NextKeeps, Statements
<1>4. GivenBack(threads[t].charge, threads[t].pay,
                Sent(threads[t].pay, Whole(threads[t].amount)))
  BY <1>1, <1>2 DEF Tells
<1>5. Refunded(threads[t].pay)
  <2>1. threads[t].charge \in Charges /\ gateway[threads[t].charge].refunded > 0
    BY <1>4 DEF GivenBack, ChargesOf
  <2>2. gateway[threads[t].charge].refunded \in 0..Price
    BY <2>1 DEF PaymentsIInv, TypeOK, Charge
  <2>3. GivenBack(threads[t].charge, threads[t].pay, 0)
    BY <1>4, <2>1, <2>2, PaymentsAssumption DEF GivenBack
  <2>4. QED
    BY <2>1, <2>3 DEF Refunded, Returned
<1> HIDE DEF s
<1>6. Tells(s)
  BY <1>1, <1>2, <1>3, <1>4 DEF Tells
<1>7. QED
  BY <1>1, <1>3, <1>5, <1>6, StatusMoney, StatusesAre

(* The writes of the identifier and of the metadata.                        *)

LEMMA LinkMoney ==
  ASSUME PaymentsIInv, PaymentsIInv', MoneyIInv, NEW w \in Workers, LinkCharge(w)
  PROVE  MoneyIInv'
<1>1. w \in Threads /\ threads[w].at = "link"
  BY DEF LinkCharge, Threads
<1>2. PICK r \in Thread, p \in Payments, c \in Charges :
        r = threads[w] /\ p = threads[w].pay /\ c = threads[w].charge
        /\ payments[p].status # "none" /\ Backs(c, p)
  BY <1>1, BusyTells, ChargesTyped DEF Tells, Backs
<1>3. PICK s \in Thread : s = [r EXCEPT !.at = "succeed"] /\ s.at = "succeed" /\ s.pay = p
  <2>1. LET moved == [r EXCEPT !.at = "succeed"]
        IN  moved \in Thread /\ moved.at = "succeed" /\ moved.pay = p
    BY <1>2, NextStatement, Statements
  <2>2. QED
    BY <2>1
<1>4. /\ Goto(w, s) /\ UNCHANGED <<gateway, waiting>>
      /\ payments' = [payments EXCEPT ![p].ext = c]
  BY <1>2, <1>3 DEF LinkCharge, Step
<1>5. /\ payments'[p].ext = c /\ payments'[p].status = payments[p].status
      /\ payments'[p].gateway = payments[p].gateway /\ payments'[p].tracked = payments[p].tracked
      /\ \A q \in Payments \ {p} : payments'[q] = payments[q]
  BY <1>4 DEF PaymentsIInv, TypeOK, Payment
<1>6. \A d \in Charges : gateway[d].refunded <= gateway[d].refunded
  BY PaymentsAssumption DEF PaymentsIInv, TypeOK, Charge
<1>7. Grows
  BY <1>2, <1>4, <1>5, <1>6 DEF Grows
<1>8. RowTells(p)'
  <2>1. PICK n \in 0..Price : n = payments[p].tracked
    BY DEF PaymentsIInv, TypeOK, Payment
  <2>2. PICK m \in 0..Price : m = Sent(p, n) /\ m = Sent(p, n)'
    BY <1>2, <1>7, SentTyped, GrowsKeeps
  <2>3. RowTells(p) /\ (n > 0 => Returned(p, m))
    BY <2>1, <2>2 DEF MoneyIInv, RowTells
  <2>4. /\ Backed(p) => Backed(p)'
        /\ Refunded(p) => Refunded(p)'
        /\ Returned(p, m) => Returned(p, m)'
    BY <1>2, <1>7, GrowsKeeps
  <2>5. Backs(c, p)'
    BY <1>2, <1>7, GrowsKeeps
  <2>6. payments'[p].tracked > 0 => Returned(p, Sent(p, payments[p].tracked))'
    BY <1>5, <2>1, <2>2, <2>3, <2>4 DEF Returned, GivenBack
  <2>7. payments'[p].ext # "none" => Backs(payments[p].ext, p)'
    BY <1>5, <2>5 DEF Backs
  <2>8. QED
    BY <1>5, <2>3, <2>4, <2>6, <2>7 DEF RowTells
<1>9. Tells(s)
  BY <1>2, <1>3 DEF Tells, Backed
<1>10. QED
  BY <1>1, <1>3, <1>4, <1>5, <1>7, <1>8, <1>9, ThreadTells, MoneyStep

LEMMA TrackMoney ==
  ASSUME PaymentsIInv, PaymentsIInv', MoneyIInv, NEW t \in Clients, TrackRefund(t)
  PROVE  MoneyIInv'
<1>1. t \in Threads /\ threads[t].at = "track"
  BY DEF TrackRefund, Threads
<1>2. PICK r \in Thread, p \in Payments : r = threads[t] /\ p = threads[t].pay
  BY <1>1, BusyTells
<1>3. r.pay = p /\ payments[p].status # "none" /\ GivenBack(r.charge, p, Sent(p, Whole(r.amount)))
      /\ r.charge \in Charges
  BY <1>1, <1>2, BusyTells, ChargesTyped DEF Tells, GivenBack
<1>4. PICK n \in 0..Price : n = Whole(r.amount)
  BY WholeTyped DEF Thread
<1>5. Returned(p, Sent(p, n))
  BY <1>3, <1>4 DEF Returned
<1>6. PICK s \in Thread : s = [r EXCEPT !.at = "log", !.log = "refunded"] /\ s.pay = p /\ Tells(s)
  BY <1>3, NextLogs DEF Logged
<1>7. /\ Goto(t, s) /\ UNCHANGED <<gateway, waiting>>
      /\ payments' = [payments EXCEPT ![p].tracked = n]
  BY <1>2, <1>4, <1>6 DEF TrackRefund, ThenLog, Whole
<1>8. /\ payments'[p].tracked = n /\ payments'[p].status = payments[p].status
      /\ payments'[p].gateway = payments[p].gateway /\ payments'[p].ext = payments[p].ext
      /\ \A q \in Payments \ {p} : payments'[q] = payments[q]
  BY <1>7 DEF PaymentsIInv, TypeOK, Payment
<1>9. \A d \in Charges : gateway[d].refunded <= gateway[d].refunded
  BY PaymentsAssumption DEF PaymentsIInv, TypeOK, Charge
<1>10. Grows
  BY <1>3, <1>7, <1>8, <1>9 DEF Grows
<1>11. RowTells(p)'
  <2>1. RowTells(p)
    BY DEF MoneyIInv
  <2>2. QED
    BY <1>3, <1>5, <1>8, <1>10, <2>1, RowKept
<1>12. QED
  BY <1>1, <1>6, <1>7, <1>8, <1>10, <1>11, ThreadTells, MoneyStep

(* A new row.                                                               *)

\* A thread goes to a state that tells the truth after the step.
LEMMA NewTells ==
  ASSUME PaymentsIInv, NEW t \in Threads, NEW s \in Thread, Tells(s)', Goto(t, s)
  PROVE  \A u \in Threads : threads'[u] = threads[u] \/ Tells(threads[u])'
<1>1. threads' = [threads EXCEPT ![t] = s] /\ threads \in [Threads -> Thread]
  BY DEF Goto, PaymentsIInv, TypeOK
<1>2. threads'[t] = s /\ \A u \in Threads \ {t} : threads'[u] = threads[u]
  BY <1>1
<1>3. Tells(threads[t])'
  BY <1>2 DEF Tells
<1>4. QED
  BY <1>2, <1>3

LEMMA CreateMoney ==
  ASSUME PaymentsIInv, PaymentsIInv', MoneyIInv,
         NEW t \in Clients, NEW p \in Payments, NEW g \in Gateways, CreatePayment(t, p, g)
  PROVE  MoneyIInv'
<1>1. t \in Threads /\ payments[p].status = "none" /\ RowTells(p) /\ Blank(p)
  BY DEF CreatePayment, Threads, MoneyIInv
<1>2. PICK s \in Thread : s = [Idle EXCEPT !.at = "log", !.pay = p, !.log = "created"]
                          /\ s.at = "log" /\ s.pay = p
  <2>1. [Idle EXCEPT !.at = "log", !.pay = p, !.log = "created"] \in Thread
    BY FirstLogging, Statements DEF Logged
  <2>2. QED
    BY <2>1, IdleTyped DEF Thread
<1>3. /\ Goto(t, s) /\ UNCHANGED <<gateway, waiting>>
      /\ payments' = [payments EXCEPT ![p].status = "PENDING", ![p].gateway = g]
  BY <1>2 DEF CreatePayment
<1>4. /\ payments'[p].status = "PENDING"
      /\ payments'[p].ext = payments[p].ext /\ payments'[p].tracked = payments[p].tracked
      /\ \A q \in Payments \ {p} : payments'[q] = payments[q]
  BY <1>3 DEF PaymentsIInv, TypeOK, Payment
<1>5. \A d \in Charges : gateway[d].refunded <= gateway[d].refunded
  BY PaymentsAssumption DEF PaymentsIInv, TypeOK, Charge
<1>6. Grows
  BY <1>1, <1>3, <1>4, <1>5 DEF Grows
<1>7. RowTells(p)'
  BY <1>1, <1>4, PaymentsAssumption DEF RowTells, Blank
<1>8. Tells(s)'
  BY <1>2, <1>4 DEF Tells
<1>9. QED
  BY <1>1, <1>2, <1>3, <1>4, <1>6, <1>7, <1>8, NewTells, MoneyStep

(* The gateway moves.                                                       *)

\* Of one charge the gateway learns more, or gives it to a payment with a row.
LEMMA GatewayGrows ==
  ASSUME PaymentsIInv, UNCHANGED <<payments, waiting>>, NEW c \in Charges,
         \A d \in Charges \ {c} : gateway'[d] = gateway[d],
         \/ /\ gateway'[c].payment = gateway[c].payment
            /\ gateway[c].paid => gateway'[c].paid
            /\ gateway[c].refunded <= gateway'[c].refunded
         \/ /\ gateway[c] = Unused
            /\ gateway'[c].payment \in Payments
            /\ payments[gateway'[c].payment].status # "none"
  PROVE  Grows
<1>1. \A d \in Charges : gateway[d].refunded <= gateway[d].refunded
  BY PaymentsAssumption DEF PaymentsIInv, TypeOK, Charge
<1>2. \A p \in Payments : Unused.payment # p
  BY PaymentsAssumption DEF Unused
<1>3. QED
  BY <1>1, <1>2 DEF Grows

LEMMA SettlesMoney ==
  ASSUME PaymentsIInv, PaymentsIInv', MoneyIInv, NEW c \in Charges, IntentSettles(c)
  PROVE  MoneyIInv'
<1>1. gateway \in [Charges -> Charge] /\ gateway[c].refunded \in 0..Price
  BY DEF PaymentsIInv, TypeOK, Charge
<1>2. /\ UNCHANGED <<payments, waiting, threads>>
      /\ \A d \in Charges \ {c} : gateway'[d] = gateway[d]
      /\ gateway'[c].payment = gateway[c].payment
      /\ gateway[c].paid => gateway'[c].paid
      /\ gateway'[c].refunded = gateway[c].refunded
  BY <1>1 DEF IntentSettles, Charge
<1>3. gateway[c].refunded <= gateway'[c].refunded
  BY <1>1, <1>2, PaymentsAssumption
<1>4. Grows
  BY <1>2, <1>3, GatewayGrows
<1>5. QED
  BY <1>2, <1>4, MoneyStep

\* An unused charge is given to a payment with a row.
LEMMA ChargeGrows ==
  ASSUME PaymentsIInv, UNCHANGED <<payments, waiting>>, NEW c \in Charges, gateway[c] = Unused,
         NEW p \in Payments, payments[p].status # "none",
         NEW x \in Charge, x.payment = p, gateway' = [gateway EXCEPT ![c] = x]
  PROVE  Grows /\ gateway'[c] = x
<1>1. gateway'[c] = x /\ \A d \in Charges \ {c} : gateway'[d] = gateway[d]
  BY DEF PaymentsIInv, TypeOK
<1>2. QED
  BY <1>1, GatewayGrows

\* A worker that calls the gateway, and the states it can go to.
LEMMA CallingWorker ==
  ASSUME PaymentsIInv, MoneyIInv, NEW w \in Workers, threads[w].at = "call"
  PROVE  /\ w \in Threads /\ threads[w] \in Thread /\ threads[w].pay \in Payments
         /\ payments[threads[w].pay].status # "none"
         /\ payments[threads[w].pay].gateway \in {"STRIPE", "PAYPAL"}
<1>1. w \in Threads
  BY DEF Threads
<1>2. QED
  BY <1>1, BusyTells DEF PaymentsIInv, TypeOK, Payment

LEMMA FailedTells ==
  ASSUME NEW r \in Thread, payments'[r.pay].status # "none"
  PROVE  \E s \in Thread : s = [r EXCEPT !.at = "fail"] /\ s.at = "fail" /\ Tells(s)'
<1>1. LET moved == [r EXCEPT !.at = "fail"]
      IN  moved \in Thread /\ moved.at = "fail" /\ moved.pay = r.pay
  BY NextStatement, Statements
<1>2. PICK s \in Thread : s = [r EXCEPT !.at = "fail"] /\ s.at = "fail" /\ s.pay = r.pay
  BY <1>1
<1>3. Tells(s)'
  BY <1>2 DEF Tells
<1>4. QED
  BY <1>2, <1>3

LEMMA LinkingTells ==
  ASSUME NEW r \in Thread, NEW c \in Charges, payments'[r.pay].status # "none",
         Backs(c, r.pay)'
  PROVE  \E s \in Thread : s = [r EXCEPT !.at = "link", !.charge = c] /\ Tells(s)'
<1>1. LET moved == [r EXCEPT !.at = "link", !.charge = c]
      IN  moved \in Thread /\ moved.at = "link" /\ moved.pay = r.pay /\ moved.charge = c
  BY Statements, Zenon DEF Thread
<1>2. PICK s \in Thread : /\ s = [r EXCEPT !.at = "link", !.charge = c]
                          /\ s.at = "link" /\ s.pay = r.pay /\ s.charge = c
  BY <1>1
<1>3. Tells(s)'
  BY <1>2 DEF Tells
<1>4. QED
  BY <1>2, <1>3

LEMMA AskGatewayMoney ==
  ASSUME PaymentsIInv, PaymentsIInv', MoneyIInv, NEW w \in Workers,
         AskGateway(w) \/ AnswerLost(w)
  PROVE  MoneyIInv'
<1>1. threads[w].at = "call" /\ UNCHANGED <<payments, waiting>>
  BY DEF AskGateway, AnswerLost
<1>2. w \in Threads
  BY DEF Threads
<1>3. PICK r \in Thread, p \in Payments : r = threads[w] /\ p = threads[w].pay
  BY <1>1, CallingWorker
<1>4. r.pay = p /\ payments[p].status # "none" /\ payments'[p].status # "none"
      /\ payments[p].gateway \in {"STRIPE", "PAYPAL"} /\ payments'[p] = payments[p]
  BY <1>1, <1>3, CallingWorker
<1>5. ASSUME NEW c \in Charges, NEW x \in Charge, gateway[c] = Unused, x.payment = p,
             gateway' = [gateway EXCEPT ![c] = x],
             \/ Step(w, "fail")
             \/ /\ Goto(w, [threads[w] EXCEPT !.at = "link", !.charge = c])
                /\ payments[p].gateway = "STRIPE" => x.paid
      PROVE  MoneyIInv'
  <2>1. Grows /\ gateway'[c] = x
    BY <1>1, <1>4, <1>5, ChargeGrows
  <2>2. CASE Step(w, "fail")
    <3>1. PICK s \in Thread : s = [r EXCEPT !.at = "fail"] /\ Tells(s)'
      BY <1>4, FailedTells
    <3>2. Goto(w, s)
      BY <1>3, <2>2, <3>1 DEF Step
    <3>3. QED
      BY <1>1, <1>2, <2>1, <3>1, <3>2, NewTells, MoneyStep
  <2>3. CASE /\ Goto(w, [threads[w] EXCEPT !.at = "link", !.charge = c])
             /\ payments[p].gateway = "STRIPE" => x.paid
    <3>1. Backs(c, p)'
      BY <1>4, <1>5, <2>1, <2>3 DEF Backs, ChargesOf
    <3>2. PICK s \in Thread : s = [r EXCEPT !.at = "link", !.charge = c] /\ Tells(s)'
      BY <1>4, <3>1, LinkingTells
    <3>3. Goto(w, s)
      BY <1>3, <2>3, <3>2
    <3>4. QED
      BY <1>1, <1>2, <2>1, <3>2, <3>3, NewTells, MoneyStep
  <2>4. QED
    BY <1>5, <2>2, <2>3
<1>6. /\ Paid(p) \in Charge /\ Paid(p).payment = p /\ Paid(p).paid
      /\ Opened(p) \in Charge /\ Opened(p).payment = p
  BY IdleTyped DEF Paid, Opened
<1>7. CASE Step(w, "fail") /\ UNCHANGED gateway
  <2>1. PICK s \in Thread : s = [r EXCEPT !.at = "fail"] /\ Tells(s)'
    BY <1>4, FailedTells
  <2>2. Goto(w, s)
    BY <1>3, <1>7, <2>1 DEF Step
  <2>3. Grows
    BY <1>1, <1>7, OnlyWaiting
  <2>4. QED
    BY <1>1, <1>2, <2>1, <2>2, <2>3, NewTells, MoneyStep
<1>8. CASE AnswerLost(w)
  <2>1. PICK c \in Charges :
          /\ gateway[c] = Unused
          /\ gateway' = [gateway EXCEPT ![c] =
                           IF payments[p].gateway = "STRIPE" THEN Paid(p) ELSE Opened(p)]
    BY <1>3, <1>8 DEF AnswerLost
  <2>2. Step(w, "fail")
    BY <1>8 DEF AnswerLost
  <2>3. CASE payments[p].gateway = "STRIPE"
    BY <1>5, <1>6, <2>1, <2>2, <2>3
  <2>4. CASE payments[p].gateway # "STRIPE"
    BY <1>5, <1>6, <2>1, <2>2, <2>4
  <2>5. QED
    BY <2>3, <2>4
<1>9. CASE AskGateway(w)
  <2>1. CASE /\ payments[p].gateway = "STRIPE"
             /\ \E c \in Charges :
                  /\ gateway[c] = Unused
                  /\ \/ /\ gateway' = [gateway EXCEPT ![c] = Paid(p)]
                        /\ Goto(w, [threads[w] EXCEPT !.at = "link", !.charge = c])
                     \/ /\ gateway' = [gateway EXCEPT ![c] = Opened(p)]
                        /\ Step(w, "fail")
    BY <1>5, <1>6, <2>1
  <2>2. CASE /\ payments[p].gateway = "PAYPAL"
             /\ \E c \in Charges :
                  /\ gateway[c] = Unused
                  /\ gateway' = [gateway EXCEPT ![c] = Opened(p)]
                  /\ Goto(w, [threads[w] EXCEPT !.at = "link", !.charge = c])
    BY <1>5, <1>6, <2>2
  <2>3. QED
    BY <1>3, <1>7, <1>9, <2>1, <2>2 DEF AskGateway
<1>10. QED
  BY <1>8, <1>9

(* The gateway gives money back.                                            *)

LEMMA RefundSums ==
  ASSUME NEW given \in 0..Price, NEW amount \in 0..Price, NEW whole \in 0..Price,
         NEW some \in 0..Price,
         NEW more, more = (IF amount = 0 THEN whole - given ELSE some), more > 0
  PROVE  /\ given <= given + more /\ given + more > 0
         /\ given + more >= (IF amount = 0 THEN whole ELSE some)
BY PaymentsAssumption

LEMMA AskRefundMoney ==
  ASSUME PaymentsIInv, PaymentsIInv', MoneyIInv, NEW t \in Clients, AskRefund(t)
  PROVE  MoneyIInv'
<1>1. t \in Threads /\ threads[t].at = "refund" /\ UNCHANGED <<payments, waiting>>
  BY DEF AskRefund, Threads
<1>2. PICK r \in Thread, p \in Payments, c \in Charges :
        r = threads[t] /\ p = threads[t].pay /\ c = threads[t].charge
        /\ payments[p].status # "none" /\ c \in ChargesOf(p)
  BY <1>1, BusyTells, ChargesTyped DEF Tells
<1>3. CASE Goto(t, Idle) /\ UNCHANGED gateway
  BY <1>1, <1>3, IdleTyped, IdleTells, MovedStep
<1>4. CASE /\ ToGive(t) > 0
           /\ gateway' = [gateway EXCEPT ![c].refunded = @ + ToGive(t)]
           /\ Step(t, "mark")
  <2>1. gateway[c] \in Charge /\ gateway[c].refunded \in 0..Price /\ r.amount \in 0..Price
        /\ gateway \in [Charges -> Charge]
    BY DEF PaymentsIInv, TypeOK, Charge, Thread
  <2>2. ToGive(t) = IF r.amount = 0 THEN Sent(p, Price) - gateway[c].refunded
                    ELSE Sent(p, r.amount)
    BY <1>2 DEF ToGive
  <2>3. /\ gateway[c].refunded <= gateway[c].refunded + ToGive(t)
        /\ gateway[c].refunded + ToGive(t) > 0
        /\ gateway[c].refunded + ToGive(t) >= Sent(p, Whole(r.amount))
    <3>1. PICK whole \in 0..Price, some \in 0..Price :
            whole = Sent(p, Price) /\ some = Sent(p, r.amount)
      BY <2>1, SentTyped, Amounts
    <3>2. /\ gateway[c].refunded <= gateway[c].refunded + ToGive(t)
          /\ gateway[c].refunded + ToGive(t) > 0
          /\ gateway[c].refunded + ToGive(t) >= (IF r.amount = 0 THEN whole ELSE some)
      BY <1>4, <2>1, <2>2, <3>1, RefundSums
    <3>3. QED
      BY <3>1, <3>2 DEF Whole
  <2>4. /\ \A d \in Charges \ {c} : gateway'[d] = gateway[d]
        /\ gateway'[c].payment = gateway[c].payment /\ gateway'[c].paid = gateway[c].paid
        /\ gateway'[c].refunded = gateway[c].refunded + ToGive(t)
    BY <1>4, <2>1 DEF Charge
  <2>5. Grows
    BY <1>1, <2>3, <2>4, GatewayGrows
  <2>6. LET moved == [r EXCEPT !.at = "mark"]
        IN  /\ moved \in Thread /\ moved.at = "mark" /\ moved.pay = p
            /\ moved.charge = c /\ moved.amount = r.amount
    BY <1>2, NextKeeps, Statements
  <2>7. PICK s \in Thread : /\ s = [r EXCEPT !.at = "mark"] /\ s.at = "mark" /\ s.pay = p
                            /\ s.charge = c /\ s.amount = r.amount
    BY <2>6
  <2>8. Goto(t, s)
    BY <1>2, <1>4, <2>7 DEF Step
  <2>9. GivenBack(c, p, Sent(p, Whole(r.amount)))'
    BY <1>1, <1>2, <2>3, <2>4 DEF GivenBack, ChargesOf, Whole, Sent
  <2>10. Tells(s)'
    BY <1>1, <1>2, <2>7, <2>9 DEF Tells, GivenBack
  <2>11. QED
    BY <1>1, <2>5, <2>8, <2>10, NewTells, MoneyStep
<1>5. QED
  BY <1>2, <1>3, <1>4 DEF AskRefund, Refundable

(* Failures.                                                                *)

LEMMA QueryFailsMoney ==
  ASSUME PaymentsIInv, PaymentsIInv', MoneyIInv, NEW t \in Threads, QueryFails(t)
  PROVE  MoneyIInv'
<1>1. UNCHANGED <<payments, gateway>>
  BY DEF QueryFails
<1>2. CASE Return(t) /\ UNCHANGED waiting
  BY <1>1, <1>2, ReturnMoney
<1>3. CASE threads[t].at = "log" /\ AfterLog(t)
  BY <1>1, <1>3, LogMoney
<1>4. ASSUME NEW log \in Logged, threads[t].at # "idle", ThenLog(t, log), UNCHANGED waiting
      PROVE  MoneyIInv'
  <2>1. PICK r \in Thread : r = threads[t] /\ r.pay \in Payments /\ payments[r.pay].status # "none"
    BY <1>4, BusyTells
  <2>2. PICK s \in Thread : s = [r EXCEPT !.at = "log", !.log = log] /\ Tells(s) /\ s.pay = r.pay
    BY <2>1, NextLogs
  <2>3. Goto(t, s)
    BY <1>4, <2>1, <2>2 DEF ThenLog
  <2>4. QED
    BY <1>1, <1>4, <2>1, <2>2, <2>3, MovedStep
<1>5. CASE threads[t].at = "link" /\ Step(t, "succeed") /\ UNCHANGED waiting
  <2>1. PICK r \in Thread : /\ r = threads[t] /\ r.pay \in Payments
                            /\ payments[r.pay].status # "none" /\ Backs(r.charge, r.pay)
    BY <1>5, BusyTells DEF Tells
  <2>2. Backed(r.pay)
    BY <2>1, ChargesTyped DEF Backs, Backed
  <2>3. LET moved == [r EXCEPT !.at = "succeed"]
        IN  moved \in Thread /\ moved.at = "succeed" /\ moved.pay = r.pay
    BY NextStatement, Statements
  <2>4. PICK s \in Thread : s = [r EXCEPT !.at = "succeed"] /\ s.at = "succeed" /\ s.pay = r.pay
    BY <2>3
  <2>5. Tells(s) /\ Goto(t, s)
    BY <1>5, <2>1, <2>2, <2>4 DEF Tells, Step
  <2>6. QED
    BY <1>1, <1>5, <2>1, <2>4, <2>5, MovedStep
<1>6. {"failed", "refunded"} \subseteq Logged
  BY DEF Logged
<1>7. QED
  BY <1>2, <1>3, <1>4, <1>5, <1>6 DEF QueryFails

LEMMA CrashMoney ==
  ASSUME PaymentsIInv, PaymentsIInv', MoneyIInv, Crash
  PROVE  MoneyIInv'
<1>1. UNCHANGED <<payments, gateway>> /\ waiting' = [p \in Payments |-> 0]
      /\ threads' = [t \in Threads |-> Idle]
  BY DEF Crash
<1>2. \A p \in Payments : payments[p].status = "none" => waiting'[p] = waiting[p]
  BY <1>1 DEF MoneyIInv, Blank
<1>3. Grows
  BY <1>1, <1>2, OnlyWaiting
<1>4. Tells(Idle)'
  BY IdleTyped DEF Tells
<1>5. \A u \in Threads : Tells(threads[u])'
  BY <1>1, <1>4 DEF Tells
<1>6. QED
  BY <1>1, <1>3, <1>5, MoneyStep

LEMMA InitMoney == Init => MoneyIInv
<1> SUFFICES ASSUME Init PROVE MoneyIInv
  OBVIOUS
<1>1. \A t \in Threads : Tells(threads[t])
  BY IdleTells DEF Init, Tells
<1>2. ASSUME NEW p \in Payments PROVE RowTells(p) /\ Blank(p)
  <2>1. /\ payments[p].status = "none" /\ payments[p].ext = "none" /\ payments[p].tracked = 0
        /\ waiting[p] = 0
    BY DEF Init
  <2>2. \A c \in Charges : gateway[c].payment = "none"
    BY DEF Init, Unused
  <2>3. ChargesOf(p) = {}
    BY <2>2, PaymentsAssumption DEF ChargesOf
  <2>4. QED
    BY <2>1, <2>3, PaymentsAssumption DEF RowTells, Blank
<1>3. QED
  BY <1>1, <1>2 DEF MoneyIInv

LEMMA NextMoney == PaymentsIInv /\ PaymentsIInv' /\ MoneyIInv /\ [Next]_vars => MoneyIInv'
<1> SUFFICES ASSUME PaymentsIInv, PaymentsIInv', MoneyIInv, [Next]_vars PROVE MoneyIInv'
  OBVIOUS
<1>1. CASE UNCHANGED vars
  <2>1. UNCHANGED <<payments, gateway, threads, waiting>>
    BY <1>1 DEF vars
  <2>2. Grows
    BY <2>1, OnlyWaiting
  <2>3. QED
    BY <2>1, <2>2, MoneyStep
<1>2. ASSUME NEW t \in Clients, Request(t) PROVE MoneyIInv'
  <2>1. CASE \E p \in Payments, g \in Gateways : CreatePayment(t, p, g)
    BY <2>1, CreateMoney
  <2>2. CASE ~ \E p \in Payments, g \in Gateways : CreatePayment(t, p, g)
    BY <1>2, <2>2, BeginMoney DEF Request
  <2>3. QED
    BY <2>1, <2>2
<1>3. ASSUME NEW t \in Threads, Log(t) PROVE MoneyIInv'
  BY <1>3, LogMoney DEF Log
<1>4. ASSUME NEW t \in Clients, Serve(t) PROVE MoneyIInv'
  <2>1. t \in Threads
    BY DEF Threads
  <2>2. QED
    BY <1>3, <1>4, <2>1, ReactivateMoney, AskRefundMoney, MarkRefundedMoney, TrackMoney,
       OutcomeMoney DEF Serve
<1>5. ASSUME NEW w \in Workers, Work(w) \/ AnswerLost(w) PROVE MoneyIInv'
  <2>1. w \in Threads
    BY DEF Threads
  <2>2. QED
    BY <1>3, <1>5, <2>1, RecheckMoney, StartMoney, AskGatewayMoney, LinkMoney, OutcomeMoney
    DEF Work
<1>6. QED
  BY <1>1, <1>2, <1>4, <1>5, AcquireMoney, SettlesMoney, QueryFailsMoney, CrashMoney DEF Next

\* At any moment, every row and every goroutine of the payment service is right
\* about what the gateway holds: an identifier is that of a charge of the payment,
\* a paid one with Stripe; a success that is written or about to be has its charge;
\* a refund has the money returned that was sent for it, and so has REFUNDED unless
\* a webhook nobody verified may have written it.
THEOREM PaymentsMoney == Spec => []MoneyIInv
<1>1. MoneyIInv /\ PaymentsIInv /\ PaymentsIInv' /\ [Next]_vars => MoneyIInv'
  BY NextMoney
<1>2. QED
  BY InitMoney, PaymentsInvariant, <1>1, PTL DEF Spec

\* SUCCEEDED stands for a charge of this very payment, a paid one with Stripe,
\* whichever of processPayment and ProcessWebhook wrote it, retried or not.
THEOREM PaymentsSucceededWereCharged == Spec => []SucceededWasCharged
<1>1. MoneyIInv => SucceededWasCharged
  BY DEF MoneyIInv, RowTells, SucceededWasCharged, Backed, Backs, ChargesOf
<1>2. QED
  BY <1>1, PaymentsMoney, PTL

\* A refund the table records, as an amount or, where webhooks are verified, as a
\* status, was given back by the gateway on one charge of the payment: as much as
\* is recorded, but for the cent a conversion may have lost.
THEOREM PaymentsRefundsAreBacked == Spec => []RefundsAreBacked
<1>1. ASSUME PaymentsIInv, MoneyIInv PROVE RefundsAreBacked
  <2> SUFFICES ASSUME NEW p \in Payments,
                      \/ payments[p].status = "REFUNDED" /\ payments[p].gateway \in Verified
                      \/ payments[p].tracked > 0
               PROVE  \E c \in ChargesOf(p) :
                        gateway[c].refunded > 0
                        /\ gateway[c].refunded >= Sent(p, payments[p].tracked)
    BY DEF RefundsAreBacked
  <2>1. payments[p].tracked \in 0..Price /\ RowTells(p)
    BY <1>1 DEF PaymentsIInv, TypeOK, Payment, MoneyIInv
  <2>2. Returned(p, Sent(p, payments[p].tracked))
    <3>1. CASE payments[p].tracked > 0
      BY <2>1, <3>1 DEF RowTells
    <3>2. CASE payments[p].tracked = 0
      <4>1. Sent(p, payments[p].tracked) = 0
        BY <3>2, PaymentsAssumption DEF Sent, Cents
      <4>2. QED
        BY <2>1, <3>2, <4>1 DEF RowTells, Refunded
    <3>3. QED
      BY <2>1, <3>1, <3>2
  <2>3. QED
    BY <2>2 DEF Returned, GivenBack
<1>2. QED
  BY <1>1, PaymentsInvariant, PaymentsMoney, PTL

-----------------------------------------------------------------------------
(* Without failures, whoever writes SUCCEEDED finds the identifier written.  *)

Traces(r) == r.at \in {"succeed", "apply"} => payments[r.pay].ext # "none"

TraceIInv ==
  faults = 0 =>
    /\ \A t \in Threads : Traces(threads[t])
    /\ \A p \in Payments : payments[p].status = "SUCCEEDED" => payments[p].ext # "none"

\* An identifier once written stays, and a success is written over one.
LEMMA TraceStep ==
  ASSUME PaymentsIInv, TraceIInv, faults' = 0 => faults = 0,
         \A p \in Payments : payments[p].ext # "none" => payments'[p].ext # "none",
         \A p \in Payments : payments'[p].status = "SUCCEEDED" =>
           payments[p].status = "SUCCEEDED" \/ payments[p].ext # "none",
         \A u \in Threads : \/ threads'[u] = threads[u]
                            \/ threads'[u].at \notin {"succeed", "apply"}
                            \/ payments'[threads'[u].pay].ext # "none"
  PROVE  TraceIInv'
<1> SUFFICES ASSUME faults' = 0
             PROVE  /\ \A t \in Threads : Traces(threads[t])'
                    /\ \A p \in Payments : payments'[p].status = "SUCCEEDED" => payments'[p].ext # "none"
  BY DEF TraceIInv
<1>1. /\ \A t \in Threads : Traces(threads[t])
      /\ \A p \in Payments : payments[p].status = "SUCCEEDED" => payments[p].ext # "none"
  BY DEF TraceIInv
<1>2. ASSUME NEW u \in Threads, threads'[u] = threads[u] PROVE Traces(threads[u])'
  <2>1. threads[u].at # "idle" => threads[u].pay \in Payments
    BY Busy
  <2>2. QED
    BY <1>1, <1>2, <2>1 DEF Traces
<1>3. \A u \in Threads : Traces(threads[u])'
  BY <1>2 DEF Traces
<1>4. QED
  BY <1>1, <1>3

\* What an action leaves of a row when it writes one field.
LEMMA RowsAfter ==
  ASSUME PaymentsIInv, NEW p \in Payments
  PROVE  /\ \A st : SetStatus(p, st) =>
              /\ payments'[p].status = st /\ payments'[p].ext = payments[p].ext
              /\ \A q \in Payments \ {p} : payments'[q] = payments[q]
         /\ \A c : payments' = [payments EXCEPT ![p].ext = c] =>
              /\ payments'[p].status = payments[p].status /\ payments'[p].ext = c
              /\ \A q \in Payments \ {p} : payments'[q] = payments[q]
         /\ \A n : payments' = [payments EXCEPT ![p].tracked = n] =>
              /\ payments'[p].status = payments[p].status /\ payments'[p].ext = payments[p].ext
              /\ \A q \in Payments \ {p} : payments'[q] = payments[q]
BY DEF PaymentsIInv, TypeOK, Payment, SetStatus

LEMMA ThreadAfter ==
  ASSUME PaymentsIInv, NEW t \in Threads, NEW s, Goto(t, s)
  PROVE  threads'[t] = s /\ \A u \in Threads \ {t} : threads'[u] = threads[u]
BY DEF PaymentsIInv, TypeOK, Goto

LEMMA StepAfter ==
  ASSUME PaymentsIInv, NEW t \in Threads
  PROVE  /\ \A at : Step(t, at) =>
              /\ threads'[t].at = at /\ threads'[t].pay = threads[t].pay
              /\ \A u \in Threads \ {t} : threads'[u] = threads[u]
         /\ \A log : ThenLog(t, log) =>
              /\ threads'[t].at = "log"
              /\ \A u \in Threads \ {t} : threads'[u] = threads[u]
         /\ Return(t) =>
              /\ threads'[t].at = "idle"
              /\ \A u \in Threads \ {t} : threads'[u] = threads[u]
<1>1. threads[t] \in Thread /\ threads \in [Threads -> Thread]
  BY DEF PaymentsIInv, TypeOK
<1>2. \A at : [threads[t] EXCEPT !.at = at].at = at
              /\ [threads[t] EXCEPT !.at = at].pay = threads[t].pay
  BY <1>1, Zenon DEF Thread
<1>3. \A log : [threads[t] EXCEPT !.at = "log", !.log = log].at = "log"
  BY <1>1, Zenon DEF Thread
<1>4. ASSUME NEW at, Step(t, at)
      PROVE  /\ threads'[t].at = at /\ threads'[t].pay = threads[t].pay
             /\ \A u \in Threads \ {t} : threads'[u] = threads[u]
  <2>1. threads' = [threads EXCEPT ![t] = [threads[t] EXCEPT !.at = at]]
    BY <1>4 DEF Step, Goto
  <2>2. threads'[t] = [threads[t] EXCEPT !.at = at]
    BY <1>1, <2>1
  <2>3. QED
    BY <1>1, <1>2, <2>1, <2>2
<1>5. ASSUME NEW log, ThenLog(t, log)
      PROVE  threads'[t].at = "log" /\ \A u \in Threads \ {t} : threads'[u] = threads[u]
  <2>1. threads' = [threads EXCEPT ![t] = [threads[t] EXCEPT !.at = "log", !.log = log]]
    BY <1>5 DEF ThenLog, Goto
  <2>2. threads'[t] = [threads[t] EXCEPT !.at = "log", !.log = log]
    BY <1>1, <2>1
  <2>3. QED
    BY <1>1, <1>3, <2>1, <2>2
<1>6. Return(t) => threads'[t].at = "idle" /\ \A u \in Threads \ {t} : threads'[u] = threads[u]
  BY IdleTyped, ThreadAfter DEF Return
<1>7. QED
  BY <1>4, <1>5, <1>6

LEMMA InitTraces == Init => TraceIInv
BY IdleTyped DEF Init, TraceIInv, Traces

\* A thread that goes on without writing, to a statement that claims nothing.
LEMMA QuietTrace ==
  ASSUME PaymentsIInv, TraceIInv, NEW t \in Threads, UNCHANGED <<payments, faults>>,
         threads'[t].at \notin {"succeed", "apply"},
         \A u \in Threads \ {t} : threads'[u] = threads[u]
  PROVE  TraceIInv'
BY TraceStep

\* A thread that writes a status other than SUCCEEDED, or one it traces.
LEMMA StatusTrace ==
  ASSUME PaymentsIInv, TraceIInv, NEW t \in Threads, NEW st, SetStatus(threads[t].pay, st),
         UNCHANGED faults, threads[t].at # "idle",
         st = "SUCCEEDED" => faults = 0 /\ threads[t].at \in {"succeed", "apply"},
         threads'[t].at \notin {"succeed", "apply"},
         \A u \in Threads \ {t} : threads'[u] = threads[u]
  PROVE  TraceIInv'
<1>1. PICK p \in Payments : p = threads[t].pay
  BY Busy
<1>2. /\ payments'[p].status = st /\ payments'[p].ext = payments[p].ext
      /\ \A q \in Payments \ {p} : payments'[q] = payments[q]
  BY <1>1, RowsAfter
<1>3. st = "SUCCEEDED" => payments[p].ext # "none"
  BY <1>1 DEF TraceIInv, Traces
<1>4. QED
  BY <1>2, <1>3, TraceStep

LEMMA RequestTrace ==
  ASSUME PaymentsIInv, TraceIInv, NEW t \in Clients, Request(t)
  PROVE  TraceIInv'
<1>1. t \in Threads
  BY DEF Threads
<1>2. ASSUME NEW p \in Payments, NEW g \in Gateways, CreatePayment(t, p, g) PROVE TraceIInv'
  <2>1. /\ payments' = [payments EXCEPT ![p].status = "PENDING", ![p].gateway = g]
        /\ Goto(t, [Idle EXCEPT !.at = "log", !.pay = p, !.log = "created"]) /\ UNCHANGED faults
    BY <1>2 DEF CreatePayment
  <2>2. /\ payments'[p].status = "PENDING" /\ payments'[p].ext = payments[p].ext
        /\ \A q \in Payments \ {p} : payments'[q] = payments[q]
    BY <2>1 DEF PaymentsIInv, TypeOK, Payment
  <2>3. [Idle EXCEPT !.at = "log", !.pay = p, !.log = "created"].at = "log"
    BY IdleTyped DEF Thread
  <2>4. threads'[t].at = "log" /\ \A u \in Threads \ {t} : threads'[u] = threads[u]
    BY <1>1, <2>1, <2>3, ThreadAfter
  <2>5. QED
    BY <2>1, <2>2, <2>4, TraceStep
<1>3. ASSUME NEW p \in Payments, RetryPayment(t, p) PROVE TraceIInv'
  <2>1. [Idle EXCEPT !.at = "retry", !.pay = p].at = "retry"
    BY IdleTyped DEF Thread
  <2>2. Goto(t, [Idle EXCEPT !.at = "retry", !.pay = p]) /\ UNCHANGED <<payments, faults>>
    BY <1>3 DEF RetryPayment
  <2>3. QED
    BY <1>1, <2>1, <2>2, ThreadAfter, QuietTrace
<1>4. ASSUME NEW p \in Payments, NEW amount \in Refunds, RefundPayment(t, p, amount)
      PROVE  TraceIInv'
  <2> DEFINE s == [Idle EXCEPT !.at = "refund", !.pay = p,
                               !.charge = payments[p].ext, !.amount = amount]
  <2>1. s.at = "refund"
    BY IdleTyped DEF Thread
  <2>2. Goto(t, s) /\ UNCHANGED <<payments, faults>>
    BY <1>4 DEF RefundPayment
  <2> HIDE DEF s
  <2>3. QED
    BY <1>1, <2>1, <2>2, ThreadAfter, QuietTrace
<1>5. ASSUME NEW c \in Charges, ReceiveWebhook(t, c) PROVE TraceIInv'
  <2>1. PICK p \in Payments : \E to \in Announced(p, c) :
          payments[p].ext = c /\ Goto(t, [Idle EXCEPT !.at = "apply", !.pay = p, !.to = to])
    BY <1>5, Zenon DEF ReceiveWebhook
  <2> PICK to \in Announced(p, c) :
          payments[p].ext = c /\ Goto(t, [Idle EXCEPT !.at = "apply", !.pay = p, !.to = to])
    BY <2>1
  <2>2. [Idle EXCEPT !.at = "apply", !.pay = p, !.to = to].pay = p
    BY IdleTyped DEF Thread
  <2>3. threads'[t].pay = p /\ \A u \in Threads \ {t} : threads'[u] = threads[u]
    BY <1>1, <2>1, <2>2, ThreadAfter
  <2>4. payments[p].ext # "none" /\ UNCHANGED <<payments, faults>>
    BY <1>5, <2>1, PaymentsAssumption DEF ReceiveWebhook
  <2>5. QED
    BY <2>3, <2>4, TraceStep
<1>6. QED
  BY <1>2, <1>3, <1>4, <1>5 DEF Request

LEMMA LinkTrace ==
  ASSUME PaymentsIInv, TraceIInv, MoneyIInv, NEW w \in Workers, LinkCharge(w)
  PROVE  TraceIInv'
<1>1. w \in Threads /\ threads[w].at = "link" /\ UNCHANGED faults
  BY DEF LinkCharge, Threads
<1>2. PICK p \in Payments, c \in Charges : p = threads[w].pay /\ c = threads[w].charge
  BY <1>1, BusyTells, ChargesTyped DEF Tells, Backs
<1>3. payments' = [payments EXCEPT ![p].ext = c] /\ Step(w, "succeed")
  BY <1>2 DEF LinkCharge
<1>4. /\ payments'[p].status = payments[p].status /\ payments'[p].ext = c
      /\ \A q \in Payments \ {p} : payments'[q] = payments[q]
  BY <1>3, RowsAfter
<1>5. threads'[w].pay = p /\ \A u \in Threads \ {w} : threads'[u] = threads[u]
  BY <1>1, <1>2, <1>3, StepAfter
<1>6. c # "none"
  BY PaymentsAssumption
<1>7. QED
  BY <1>1, <1>4, <1>5, <1>6, TraceStep

LEMMA TrackTrace ==
  ASSUME PaymentsIInv, TraceIInv, MoneyIInv, NEW t \in Clients, TrackRefund(t)
  PROVE  TraceIInv'
<1>1. t \in Threads /\ threads[t].at = "track" /\ UNCHANGED faults /\ ThenLog(t, "refunded")
  BY DEF TrackRefund, Threads
<1>2. PICK p \in Payments :
        p = threads[t].pay /\ \E n : payments' = [payments EXCEPT ![p].tracked = n]
  BY <1>1, BusyTells DEF TrackRefund
<1>3. /\ payments'[p].status = payments[p].status /\ payments'[p].ext = payments[p].ext
      /\ \A q \in Payments \ {p} : payments'[q] = payments[q]
  BY <1>2, RowsAfter
<1>4. threads'[t].at = "log" /\ \A u \in Threads \ {t} : threads'[u] = threads[u]
  BY <1>1, StepAfter
<1>5. QED
  BY <1>1, <1>3, <1>4, TraceStep

LEMMA MoveTrace ==
  ASSUME PaymentsIInv, TraceIInv, NEW t \in Threads,
         \/ Recheck(t) \/ AskGateway(t) \/ AskRefund(t) \/ Log(t)
         \/ \E p \in Payments : Acquire(t, p)
  PROVE  TraceIInv'
<1>1. UNCHANGED <<payments, faults>>
  BY DEF Recheck, AskGateway, AskRefund, Log, Acquire
<1>2. CASE \E p \in Payments : Goto(t, [Idle EXCEPT !.at = "read", !.pay = p])
  <2>1. PICK p \in Payments : Goto(t, [Idle EXCEPT !.at = "read", !.pay = p])
    BY <1>2
  <2>2. [Idle EXCEPT !.at = "read", !.pay = p].at = "read"
    BY IdleTyped DEF Thread
  <2>3. QED
    BY <1>1, <2>1, <2>2, ThreadAfter, QuietTrace
<1>3. CASE \E c \in Charges : Goto(t, [threads[t] EXCEPT !.at = "link", !.charge = c])
  <2>1. PICK c \in Charges : Goto(t, [threads[t] EXCEPT !.at = "link", !.charge = c])
    BY <1>3
  <2>2. [threads[t] EXCEPT !.at = "link", !.charge = c].at = "link"
    BY DEF PaymentsIInv, TypeOK, Thread
  <2>3. QED
    BY <1>1, <2>1, <2>2, ThreadAfter, QuietTrace
<1>4. CASE Goto(t, Idle)
  BY <1>1, <1>4, IdleTyped, ThreadAfter, QuietTrace
<1>5. CASE \E at \in {"start", "fail", "mark"} : Step(t, at)
  BY <1>1, <1>5, StepAfter, QuietTrace
<1>6. CASE Return(t)
  BY <1>1, <1>6, StepAfter, QuietTrace
<1>7. QED
  <2>1. CASE Recheck(t)
    BY <2>1, <1>5, <1>6 DEF Recheck
  <2>2. CASE AskGateway(t)
    BY <2>2, <1>3, <1>5, Zenon DEF AskGateway
  <2>3. CASE AskRefund(t)
    BY <2>3, <1>4, <1>5 DEF AskRefund
  <2>4. CASE Log(t)
    BY <2>4, <1>6 DEF Log, AfterLog
  <2>5. CASE \E p \in Payments : Acquire(t, p)
    BY <2>5, <1>2 DEF Acquire
  <2>6. QED
    BY <2>1, <2>2, <2>3, <2>4, <2>5

LEMMA WriteTrace ==
  ASSUME PaymentsIInv, TraceIInv, NEW t \in Threads,
         \/ StartProcessing(t) \/ MarkFailed(t) \/ MarkSucceeded(t) \/ ApplyWebhook(t)
         \/ Reactivate(t) \/ MarkRefunded(t)
  PROVE  TraceIInv'
<1>1. UNCHANGED faults /\ threads[t].at # "idle"
  BY DEF StartProcessing, MarkFailed, MarkSucceeded, ApplyWebhook, Reactivate, MarkRefunded
<1>2. CASE faults # 0
  BY <1>1, <1>2 DEF TraceIInv
<1>3. CASE faults = 0
  <2>1. PICK st : /\ SetStatus(threads[t].pay, st)
                  /\ st = "SUCCEEDED" => threads[t].at \in {"succeed", "apply"}
                  /\ \/ \E at \in {"call", "track"} : Step(t, at)
                     \/ \E log : ThenLog(t, log)
                     \/ Goto(t, Idle)
    BY Zenon DEF StartProcessing, MarkFailed, MarkSucceeded, ApplyWebhook, Reactivate, MarkRefunded
  <2>2. threads'[t].at \notin {"succeed", "apply"}
        /\ \A u \in Threads \ {t} : threads'[u] = threads[u]
    BY <2>1, StepAfter, ThreadAfter, IdleTyped
  <2>3. QED
    BY <1>1, <1>3, <2>1, <2>2, StatusTrace
<1>4. QED
  BY <1>2, <1>3

LEMMA NextTraces == PaymentsIInv /\ MoneyIInv /\ TraceIInv /\ [Next]_vars => TraceIInv'
<1> SUFFICES ASSUME PaymentsIInv, MoneyIInv, TraceIInv, [Next]_vars PROVE TraceIInv'
  OBVIOUS
<1>1. CASE UNCHANGED vars
  BY <1>1, TraceStep DEF vars
<1>2. Workers \subseteq Threads /\ Clients \subseteq Threads
  BY DEF Threads
<1>3. ASSUME NEW w \in Workers, Work(w) PROVE TraceIInv'
  BY <1>2, <1>3, MoveTrace, WriteTrace, LinkTrace DEF Work
<1>4. ASSUME NEW t \in Clients, Serve(t) PROVE TraceIInv'
  BY <1>2, <1>4, MoveTrace, WriteTrace, TrackTrace DEF Serve
<1>5. ASSUME NEW c \in Charges, IntentSettles(c) PROVE TraceIInv'
  BY <1>5, TraceStep DEF IntentSettles
<1>6. ASSUME faults' = faults + 1 PROVE TraceIInv'
  BY <1>6, PaymentsAssumption DEF TraceIInv, PaymentsIInv, TypeOK
<1>7. QED
  BY <1>1, <1>2, <1>3, <1>4, <1>5, <1>6, RequestTrace, MoveTrace
  DEF Next, AnswerLost, QueryFails, Crash

\* As long as nothing fails, a payment that is SUCCEEDED carries the identifier of
\* a charge of its own: a webhook finds it and a refund can be made.
THEOREM PaymentsSucceededAreTraceable == Spec => []SucceededIsTraceable
<1>1. MoneyIInv /\ TraceIInv => SucceededIsTraceable
  BY DEF MoneyIInv, TraceIInv, RowTells, Backs, SucceededIsTraceable
<1>2. PaymentsIInv /\ MoneyIInv /\ TraceIInv /\ [Next]_vars => TraceIInv'
  BY NextTraces
<1>3. QED
  BY InitTraces, PaymentsInvariant, PaymentsMoney, <1>1, <1>2, PTL DEF Spec

-----------------------------------------------------------------------------
(* Without failures, somebody answers for every status: a goroutine that is  *)
(* about to take the payment on, or the audit entry of whoever wrote it.     *)

Answers(r, status) ==
  \/ status = "PENDING" /\ r.at \in {"read", "start"}
  \/ status = "PENDING" /\ r.at = "log" /\ r.log = "created"
  \/ status = "PROCESSING" /\ r.at \in {"call", "fail", "link", "succeed"}
  \/ status \in DOMAIN Outcome /\ r.at = "log" /\ r.log \in {Outcome[status], "processed"}
  \/ status = "REFUNDED" /\ r.at = "track"

Answered(p) ==
  \/ payments[p].status = "none"
  \/ payments[p].status = "PENDING" /\ waiting[p] > 0
  \/ /\ payments[p].status \in DOMAIN Outcome
     /\ audited[p] \cap {Outcome[payments[p].status], "processed"} # {}
  \/ \E t \in Threads : threads[t].pay = p /\ Answers(threads[t], payments[p].status)

AuditIInv == faults = 0 => \A p \in Payments : Answered(p)

LEMMA OutcomeIs ==
  /\ DOMAIN Outcome = {"SUCCEEDED", "FAILED", "REFUNDED"}
  /\ Outcome["SUCCEEDED"] = "succeeded" /\ Outcome["FAILED"] = "failed"
  /\ Outcome["REFUNDED"] = "refunded"
BY DEF Outcome

LEMMA IdleAnswersNothing == \A r, status : r.at \in {"idle", "retry", "refund", "mark", "apply"}
                              => ~Answers(r, status)
BY DEF Answers

\* One thread moves: what it answered for must be answered again.
LEMMA AnsweredStep ==
  ASSUME PaymentsIInv, AuditIInv, UNCHANGED faults, NEW t \in Threads,
         \A u \in Threads \ {t} : threads'[u] = threads[u],
         \A p \in Payments : audited[p] \subseteq audited'[p],
         \A p \in Payments : payments'[p].status = payments[p].status \/ Answered(p)',
         \A p \in Payments : payments[p].status = "PENDING" /\ waiting[p] > 0 =>
           waiting'[p] > 0 \/ Answered(p)',
         \A p \in Payments : threads[t].pay = p /\ Answers(threads[t], payments[p].status) =>
           Answered(p)'
  PROVE  AuditIInv'
<1> SUFFICES ASSUME faults = 0, NEW p \in Payments, payments'[p].status = payments[p].status
             PROVE  Answered(p)'
  BY DEF AuditIInv
<1>1. Answered(p)
  BY DEF AuditIInv
<1>2. CASE \E u \in Threads \ {t} : threads[u].pay = p /\ Answers(threads[u], payments[p].status)
  <2>1. PICK u \in Threads \ {t} : threads[u].pay = p /\ Answers(threads[u], payments[p].status)
    BY <1>2
  <2>2. threads'[u].pay = p /\ Answers(threads[u], payments[p].status)'
    BY <2>1 DEF Answers
  <2>3. QED
    BY <2>2 DEF Answered
<1>3. CASE audited[p] \cap {Outcome[payments[p].status], "processed"} # {}
           /\ payments[p].status \in DOMAIN Outcome
  <2>1. audited'[p] \cap {Outcome[payments'[p].status], "processed"} # {}
    BY <1>3
  <2>2. QED
    BY <1>3, <2>1 DEF Answered
<1>4. QED
  BY <1>1, <1>2, <1>3 DEF Answered

\* The thread that moved answers.
LEMMA AnswersNow ==
  ASSUME NEW t \in Threads, NEW p \in Payments, threads'[t].pay = p,
         \/ payments'[p].status = "PENDING" /\ threads'[t].at \in {"read", "start"}
         \/ payments'[p].status = "PENDING" /\ threads'[t].at = "log" /\ threads'[t].log = "created"
         \/ payments'[p].status = "PROCESSING" /\ threads'[t].at \in {"call", "fail", "link", "succeed"}
         \/ /\ payments'[p].status \in DOMAIN Outcome /\ threads'[t].at = "log"
            /\ threads'[t].log \in {Outcome[payments'[p].status], "processed"}
         \/ payments'[p].status = "REFUNDED" /\ threads'[t].at = "track"
  PROVE  Answered(p)'
<1>1. PICK r, st : r = threads'[t] /\ st = payments'[p].status
  OBVIOUS
<1>2. Answers(r, st)
  BY <1>1 DEF Answers
<1>3. Answers(threads[t], payments[p].status)'
  BY <1>1, <1>2 DEF Answers
<1>4. QED
  BY <1>3, Zenon DEF Answered

LEMMA InitAnswered == Init => AuditIInv
BY DEF Init, AuditIInv, Answered

\* A thread that answered for nothing goes on, and writes nothing.
LEMMA QuietAnswered ==
  ASSUME PaymentsIInv, AuditIInv, UNCHANGED <<payments, waiting, audited, faults>>,
         NEW t \in Threads, threads[t].at \in {"idle", "retry", "refund", "mark", "apply"},
         \A u \in Threads \ {t} : threads'[u] = threads[u]
  PROVE  AuditIInv'
BY IdleAnswersNothing, AnsweredStep

\* A thread writes a status for which it answers from then on.
LEMMA StatusAnswered ==
  ASSUME PaymentsIInv, AuditIInv, UNCHANGED <<audited, faults, waiting>>,
         NEW t \in Threads, threads[t].at # "idle", NEW st, SetStatus(threads[t].pay, st),
         \A u \in Threads \ {t} : threads'[u] = threads[u],
         threads'[t].pay = threads[t].pay,
         \/ st = "PROCESSING" /\ threads'[t].at = "call"
         \/ st \in DOMAIN Outcome /\ threads'[t].at = "log"
            /\ threads'[t].log \in {Outcome[st], "processed"}
         \/ st = "REFUNDED" /\ threads'[t].at = "track"
  PROVE  AuditIInv'
<1>1. PICK p \in Payments : p = threads[t].pay
  BY Busy
<1>2. payments'[p].status = st /\ \A q \in Payments \ {p} : payments'[q] = payments[q]
  BY <1>1, RowsAfter
<1>3. Answered(p)'
  BY <1>1, <1>2, AnswersNow
<1>4. QED
  BY <1>1, <1>2, <1>3, AnsweredStep

\* The log a thread is about to write, and the payment it is about.
LEMMA LoggingAfter ==
  ASSUME PaymentsIInv, NEW t \in Threads, NEW log, ThenLog(t, log)
  PROVE  threads'[t].at = "log" /\ threads'[t].log = log /\ threads'[t].pay = threads[t].pay
<1>1. threads[t] \in Thread /\ threads \in [Threads -> Thread]
  BY DEF PaymentsIInv, TypeOK
<1>2. threads'[t] = [threads[t] EXCEPT !.at = "log", !.log = log]
  BY <1>1 DEF ThenLog, Goto
<1>3. QED
  BY <1>1, <1>2 DEF Thread

LEMMA RequestAnswered ==
  ASSUME PaymentsIInv, AuditIInv, NEW t \in Clients, Request(t)
  PROVE  AuditIInv'
<1>1. t \in Threads
  BY DEF Threads
<1>2. threads[t].at = "idle"
  BY IdleTyped DEF Request, CreatePayment, RetryPayment, RefundPayment, ReceiveWebhook
<1>3. ASSUME NEW p \in Payments, NEW g \in Gateways, CreatePayment(t, p, g) PROVE AuditIInv'
  <2>1. /\ payments' = [payments EXCEPT ![p].status = "PENDING", ![p].gateway = g]
        /\ Goto(t, [Idle EXCEPT !.at = "log", !.pay = p, !.log = "created"])
        /\ UNCHANGED <<waiting, audited, faults>>
    BY <1>3 DEF CreatePayment
  <2>2. /\ payments'[p].status = "PENDING"
        /\ \A q \in Payments \ {p} : payments'[q] = payments[q]
    BY <2>1 DEF PaymentsIInv, TypeOK, Payment
  <2>3. LET s == [Idle EXCEPT !.at = "log", !.pay = p, !.log = "created"]
        IN  s.at = "log" /\ s.pay = p /\ s.log = "created"
    BY IdleTyped, Zenon DEF Thread
  <2>4. /\ threads'[t].at = "log" /\ threads'[t].pay = p /\ threads'[t].log = "created"
        /\ \A u \in Threads \ {t} : threads'[u] = threads[u]
    BY <1>1, <2>1, <2>3, ThreadAfter
  <2>5. Answered(p)'
    BY <1>1, <2>2, <2>4, AnswersNow
  <2>6. \A q \in Payments : payments'[q].status = payments[q].status \/ Answered(q)'
    BY <2>2, <2>5
  <2>7. \A q \in Payments : ~(threads[t].pay = q /\ Answers(threads[t], payments[q].status))
    BY <1>2, IdleAnswersNothing
  <2>8. \A q \in Payments : waiting'[q] = waiting[q] /\ audited[q] \subseteq audited'[q]
    BY <2>1
  <2>9. QED
    BY <1>1, <2>1, <2>4, <2>6, <2>7, <2>8, AnsweredStep
<1>4. CASE \/ \E p \in Payments : RetryPayment(t, p)
           \/ \E p \in Payments, amount \in Refunds : RefundPayment(t, p, amount)
           \/ \E c \in Charges : ReceiveWebhook(t, c)
  <2>1. UNCHANGED <<payments, waiting, audited, faults>> /\ \E s : Goto(t, s)
    BY <1>4, Zenon DEF RetryPayment, RefundPayment, ReceiveWebhook
  <2>2. \A u \in Threads \ {t} : threads'[u] = threads[u]
    BY <1>1, <2>1, ThreadAfter
  <2>3. QED
    BY <1>1, <1>2, <2>1, <2>2, QuietAnswered
<1>5. QED
  BY <1>3, <1>4 DEF Request

LEMMA AcquireAnswered ==
  ASSUME PaymentsIInv, AuditIInv, NEW w \in Workers, NEW p \in Payments, Acquire(w, p)
  PROVE  AuditIInv'
<1>1. w \in Threads /\ threads[w].at = "idle" /\ UNCHANGED <<payments, audited, faults>>
  BY IdleTyped DEF Acquire, Threads
<1>2. LET s == [Idle EXCEPT !.at = "read", !.pay = p] IN s.at = "read" /\ s.pay = p
  BY IdleTyped, Zenon DEF Thread
<1>3. /\ threads'[w].at = "read" /\ threads'[w].pay = p
      /\ \A u \in Threads \ {w} : threads'[u] = threads[u]
  BY <1>1, <1>2, ThreadAfter DEF Acquire
<1>4. \A q \in Payments \ {p} : waiting'[q] = waiting[q]
  BY DEF Acquire, PaymentsIInv, TypeOK
<1>5. payments[p].status = "PENDING" => Answered(p)'
  BY <1>1, <1>3, AnswersNow
<1>6. \A q \in Payments : payments[q].status = "PENDING" /\ waiting[q] > 0 =>
        waiting'[q] > 0 \/ Answered(q)'
  BY <1>4, <1>5
<1>7. \A q \in Payments : ~(threads[w].pay = q /\ Answers(threads[w], payments[q].status))
  BY <1>1, IdleAnswersNothing
<1>8. \A q \in Payments : payments'[q].status = payments[q].status /\ audited[q] \subseteq audited'[q]
  BY <1>1
<1>9. QED
  BY <1>1, <1>3, <1>6, <1>7, <1>8, AnsweredStep

\* A thread that answers for its payment goes on to the next statement.
LEMMA WorkAnswered ==
  ASSUME PaymentsIInv, AuditIInv, NEW t \in Threads,
         Recheck(t) \/ AskGateway(t) \/ LinkCharge(t) \/ TrackRefund(t)
  PROVE  AuditIInv'
<1>1. UNCHANGED <<waiting, audited, faults>> /\ threads[t].at # "idle"
  BY DEF Recheck, AskGateway, LinkCharge, TrackRefund
<1>2. PICK p \in Payments : p = threads[t].pay
  BY <1>1, Busy
<1>3. \A q \in Payments : payments'[q].status = payments[q].status
  <2>1. \/ UNCHANGED payments
        \/ \E c : payments' = [payments EXCEPT ![p].ext = c]
        \/ \E n : payments' = [payments EXCEPT ![p].tracked = n]
    BY <1>2, Zenon DEF Recheck, AskGateway, LinkCharge, TrackRefund
  <2>2. QED
    BY <2>1, RowsAfter
<1>4. \A u \in Threads \ {t} : threads'[u] = threads[u]
  BY StepAfter, ThreadAfter, Zenon DEF Recheck, AskGateway, LinkCharge, TrackRefund
<1>5. Answers(threads[t], payments[p].status) => Answered(p)'
  <2>1. CASE Recheck(t)
    BY <1>2, <1>3, <2>1, StepAfter, AnswersNow DEF Recheck, Answers
  <2>2. CASE LinkCharge(t)
    BY <1>2, <1>3, <2>2, StepAfter, AnswersNow DEF LinkCharge, Answers
  <2>3. CASE TrackRefund(t)
    <3>1. /\ threads'[t].at = "log" /\ threads'[t].log = "refunded"
          /\ threads'[t].pay = p /\ threads[t].at = "track"
      BY <1>2, <2>3, LoggingAfter DEF TrackRefund
    <3>2. QED
      BY <1>3, <3>1, AnswersNow, OutcomeIs DEF Answers
  <2>4. CASE AskGateway(t)
    <3>1. threads[t].at = "call"
      BY <2>4 DEF AskGateway
    <3>2. CASE \E c \in Charges : Goto(t, [threads[t] EXCEPT !.at = "link", !.charge = c])
      <4>1. PICK c \in Charges : Goto(t, [threads[t] EXCEPT !.at = "link", !.charge = c])
        BY <3>2
      <4>2. threads[t] \in Thread /\ threads \in [Threads -> Thread]
        BY DEF PaymentsIInv, TypeOK
      <4>3. threads'[t] = [threads[t] EXCEPT !.at = "link", !.charge = c]
        BY <4>1, <4>2 DEF Goto
      <4>4. threads'[t].at = "link" /\ threads'[t].pay = p
        BY <1>2, <4>2, <4>3 DEF Thread
      <4>5. QED
        BY <1>3, <3>1, <4>4, AnswersNow DEF Answers
    <3>3. CASE Step(t, "fail")
      BY <1>2, <1>3, <3>1, <3>3, StepAfter, AnswersNow DEF Answers
    <3>4. QED
      BY <2>4, <3>2, <3>3, Zenon DEF AskGateway
  <2>5. QED
    BY <2>1, <2>2, <2>3, <2>4
<1>6. QED
  BY <1>1, <1>2, <1>3, <1>4, <1>5, AnsweredStep

LEMMA WriteAnswered ==
  ASSUME PaymentsIInv, MoneyIInv, AuditIInv, NEW t \in Threads,
         \/ StartProcessing(t) \/ MarkFailed(t) \/ MarkSucceeded(t) \/ ApplyWebhook(t)
         \/ MarkRefunded(t)
  PROVE  AuditIInv'
<1>1. UNCHANGED <<audited, faults, waiting>> /\ threads[t].at # "idle"
  BY DEF StartProcessing, MarkFailed, MarkSucceeded, ApplyWebhook, MarkRefunded
<1>2. \A u \in Threads \ {t} : threads'[u] = threads[u]
  BY StepAfter DEF StartProcessing, MarkFailed, MarkSucceeded, ApplyWebhook, MarkRefunded
<1>3. CASE StartProcessing(t)
  BY <1>1, <1>2, <1>3, StepAfter, StatusAnswered DEF StartProcessing
<1>4. CASE MarkRefunded(t)
  BY <1>1, <1>2, <1>4, StepAfter, StatusAnswered DEF MarkRefunded
<1>5. CASE MarkFailed(t)
  BY <1>1, <1>2, <1>5, LoggingAfter, StatusAnswered, OutcomeIs DEF MarkFailed
<1>6. CASE MarkSucceeded(t)
  BY <1>1, <1>2, <1>6, LoggingAfter, StatusAnswered, OutcomeIs DEF MarkSucceeded
<1>7. CASE ApplyWebhook(t)
  <2>1. threads[t].to \in DOMAIN Outcome
    BY <1>1, <1>7, BusyTells, OutcomeIs DEF ApplyWebhook, Tells, Thread
  <2>2. QED
    BY <1>1, <1>2, <1>7, <2>1, LoggingAfter, StatusAnswered DEF ApplyWebhook
<1>8. QED
  BY <1>3, <1>4, <1>5, <1>6, <1>7

LEMMA ReactivateAnswered ==
  ASSUME PaymentsIInv, AuditIInv, NEW t \in Threads, Reactivate(t)
  PROVE  AuditIInv'
<1>1. threads[t].at = "retry" /\ UNCHANGED <<audited, faults>>
  BY DEF Reactivate
<1>2. PICK p \in Payments : p = threads[t].pay
  BY <1>1, Busy
<1>3. /\ payments'[p].status = "PENDING"
      /\ \A q \in Payments \ {p} : payments'[q] = payments[q]
  BY <1>2, RowsAfter DEF Reactivate
<1>4. waiting'[p] > 0 /\ \A q \in Payments \ {p} : waiting'[q] = waiting[q]
  BY <1>2 DEF Reactivate, PaymentsIInv, TypeOK
<1>5. \A u \in Threads \ {t} : threads'[u] = threads[u]
  BY ThreadAfter DEF Reactivate
<1>6. Answered(p)'
  BY <1>3, <1>4 DEF Answered
<1>7. \A q \in Payments : ~(threads[t].pay = q /\ Answers(threads[t], payments[q].status))
  BY <1>1, IdleAnswersNothing
<1>8. QED
  BY <1>1, <1>3, <1>4, <1>5, <1>6, <1>7, AnsweredStep

\* The audit entry takes over from the thread, or the goroutine that is started.
LEMMA LogAnswered ==
  ASSUME PaymentsIInv, AuditIInv, NEW t \in Threads, Log(t)
  PROVE  AuditIInv'
<1>1. threads[t].at = "log" /\ UNCHANGED <<payments, faults>> /\ Return(t)
  BY DEF Log, AfterLog
<1>2. PICK p \in Payments : p = threads[t].pay
  BY <1>1, Busy
<1>3. /\ audited' = [audited EXCEPT ![p] = @ \cup {threads[t].log}]
      /\ audited \in [Payments -> SUBSET Logged]
      /\ waiting \in [Payments -> Nat]
      /\ waiting' = IF threads[t].log = "created" THEN [waiting EXCEPT ![p] = @ + 1] ELSE waiting
  BY <1>2 DEF Log, AfterLog, PaymentsIInv, TypeOK
<1>4. \A u \in Threads \ {t} : threads'[u] = threads[u]
  BY <1>1, StepAfter
<1>5. threads[t].log \in audited'[p] /\ \A q \in Payments : audited[q] \subseteq audited'[q]
  BY <1>3
<1>6. /\ threads[t].log = "created" => waiting'[p] > 0
      /\ \A q \in Payments : waiting[q] > 0 => waiting'[q] > 0
  BY <1>3
<1>7. Answers(threads[t], payments[p].status) => Answered(p)'
  <2>1. ASSUME payments[p].status = "PENDING", threads[t].log = "created" PROVE Answered(p)'
    BY <1>1, <1>6, <2>1 DEF Answered
  <2>2. ASSUME payments[p].status \in DOMAIN Outcome,
               threads[t].log \in {Outcome[payments[p].status], "processed"}
        PROVE  Answered(p)'
    BY <1>1, <1>5, <2>2 DEF Answered
  <2>3. QED
    BY <1>1, <2>1, <2>2 DEF Answers
<1>8. QED
  BY <1>1, <1>2, <1>4, <1>5, <1>6, <1>7, AnsweredStep

LEMMA NextAnswered == PaymentsIInv /\ MoneyIInv /\ AuditIInv /\ [Next]_vars => AuditIInv'
<1> SUFFICES ASSUME PaymentsIInv, MoneyIInv, AuditIInv, [Next]_vars PROVE AuditIInv'
  OBVIOUS
<1>1. ASSUME UNCHANGED <<payments, threads, waiting, audited, faults>> PROVE AuditIInv'
  BY <1>1 DEF AuditIInv, Answered
<1>2. Workers \subseteq Threads /\ Clients \subseteq Threads
  BY DEF Threads
<1>3. ASSUME NEW w \in Workers, Work(w) PROVE AuditIInv'
  BY <1>2, <1>3, WorkAnswered, WriteAnswered, LogAnswered DEF Work
<1>4. ASSUME NEW t \in Clients, AskRefund(t) PROVE AuditIInv'
  <2>1. UNCHANGED <<payments, waiting, audited, faults>> /\ threads[t].at = "refund"
    BY <1>4 DEF AskRefund
  <2>2. \A u \in Threads \ {t} : threads'[u] = threads[u]
    BY <1>2, <1>4, StepAfter, ThreadAfter DEF AskRefund
  <2>3. QED
    BY <1>2, <2>1, <2>2, QuietAnswered
<1>5. ASSUME NEW t \in Clients, Serve(t) PROVE AuditIInv'
  BY <1>2, <1>4, <1>5, ReactivateAnswered, WorkAnswered, WriteAnswered, LogAnswered DEF Serve
<1>6. ASSUME faults' = faults + 1 PROVE AuditIInv'
  BY <1>6, PaymentsAssumption DEF AuditIInv, PaymentsIInv, TypeOK
<1>7. QED
  BY <1>1, <1>3, <1>5, <1>6, RequestAnswered, AcquireAnswered
  DEF Next, AnswerLost, QueryFails, Crash, IntentSettles, vars

\* As long as nothing fails, somebody answers for the status of every payment;
\* once all goroutines are done, it is an outcome and in the audit log.
THEOREM PaymentsOutcomesAreLogged == Spec => []OutcomesAreLogged
<1>1. ASSUME PaymentsIInv, AuditIInv PROVE OutcomesAreLogged
  <2> SUFFICES ASSUME faults = 0, Quiet, NEW p \in Payments, payments[p].status # "none"
               PROVE  /\ payments[p].status \in DOMAIN Outcome
                      /\ audited[p] \cap {Outcome[payments[p].status], "processed"} # {}
    BY DEF OutcomesAreLogged
  <2>1. \A t \in Threads : ~Answers(threads[t], payments[p].status)
    BY IdleTyped, IdleAnswersNothing DEF Quiet
  <2>2. ~(waiting[p] > 0)
    BY DEF Quiet
  <2>3. QED
    BY <1>1, <2>1, <2>2 DEF AuditIInv, Answered
<1>2. PaymentsIInv /\ MoneyIInv /\ AuditIInv /\ [Next]_vars => AuditIInv'
  BY NextAnswered
<1>3. QED
  BY InitAnswered, PaymentsInvariant, PaymentsMoney, <1>1, <1>2, PTL DEF Spec
=============================================================================
