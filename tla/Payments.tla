------------------------------ MODULE Payments ------------------------------
(***************************************************************************)
(* The payment service: PaymentService, WebhookService and RefundService   *)
(* over the table `payments`, with the payment gateway at the other end.   *)
(*                                                                         *)
(* Clients are goroutines serving an HTTP request, Workers the goroutines  *)
(* started with `go processPayment`.  A thread is a record: the statement  *)
(* it executes next and the locals it carries.  Every statement is one SQL *)
(* statement or one call of the gateway, hence atomic; any other thread    *)
(* can run between two of them, and the process can die.                   *)
(***************************************************************************)
EXTENDS Naturals, FiniteSets

CONSTANTS
  Payments,   \* identifiers of payments
  Charges,    \* identifiers the gateway can give: payment intents, orders
  Gateways,   \* the gateways enabled, among "STRIPE" and "PAYPAL"
  Workers,    \* slots for goroutines that hold the mutex of a payment
  Clients,    \* slots for concurrent requests
  Verified,   \* the gateways whose webhooks carry a signature that is looked at
  Price,      \* amount of every payment, in cents
  Refunds,    \* amounts a refund request may name; 0 is "no amount": all of it
  LosesCent,  \* amounts whose product with 100 in a float64 falls short of the cents
  MaxRetries, \* bound on the retries of a payment that begin one after another
  MaxFaults   \* bound on failed queries, lost answers and crashes

ASSUME PaymentsAssumption ==
  /\ Gateways \subseteq {"STRIPE", "PAYPAL"}
  /\ Workers \cap Clients = {}
  /\ "none" \notin Workers \cup Charges \cup Payments
  /\ Verified \subseteq {"STRIPE"}
  /\ Price \in Nat \ {0}
  /\ Refunds \subseteq 0..Price
  /\ LosesCent \subseteq 2..Price
  /\ MaxRetries \in Nat
  /\ MaxFaults \in Nat

VARIABLES
  payments,    \* the table `payments`; status "none" is no row yet
  waiting,     \* how many goroutines wait for the mutex of each payment
  mutex,       \* the holder of each entry of paymentMutexes
  threads,     \* the goroutines under way
  gateway,     \* the charges as the gateway knows them
  audited,     \* the table `audit_logs`: the actions logged for each payment
  activations, \* history: how often a payment became PENDING
  calls,       \* history: how often the gateway was asked to charge it
  faults       \* how many failures have happened

vars == <<payments, waiting, mutex, threads, gateway, audited, activations, calls, faults>>

Threads == Workers \cup Clients

Status == {"none", "PENDING", "PROCESSING", "SUCCEEDED", "FAILED", "REFUNDED"}
Logged == {"created", "failed", "succeeded", "refunded", "processed"}

\* external_transaction_id "" is "none"; tracked is metadata.refund_amount.
Payment == [status : Status, gateway : {"STRIPE", "PAYPAL"},
            ext : Charges \cup {"none"}, tracked : 0..Price]

\* A charge can be open, paid, or an open one whose last attempt was declined.
Charge == [payment : Payments \cup {"none"}, paid : BOOLEAN, declined : BOOLEAN,
           refunded : 0..Price]

Unused == [payment |-> "none", paid |-> FALSE, declined |-> FALSE, refunded |-> 0]
Opened(p) == [payment |-> p, paid |-> FALSE, declined |-> FALSE, refunded |-> 0]
Paid(p) == [payment |-> p, paid |-> TRUE, declined |-> FALSE, refunded |-> 0]

Statement == {"idle", "read", "start", "call", "fail", "link", "succeed",
              "retry", "refund", "mark", "track", "apply", "log"}

Thread == [at : Statement,
           pay : Payments \cup {"none"}, charge : Charges \cup {"none"},
           amount : 0..Price, to : {"none", "SUCCEEDED", "FAILED", "REFUNDED"}, log : Logged]

Idle == [at |-> "idle", pay |-> "none", charge |-> "none", amount |-> 0,
         to |-> "none", log |-> "created"]

Init ==
  /\ payments = [p \in Payments |-> [status |-> "none", gateway |-> "STRIPE",
                                     ext |-> "none", tracked |-> 0]]
  /\ waiting = [p \in Payments |-> 0]
  /\ mutex = [p \in Payments |-> "none"]
  /\ threads = [t \in Threads |-> Idle]
  /\ gateway = [c \in Charges |-> Unused]
  /\ audited = [p \in Payments |-> {}]
  /\ activations = [p \in Payments |-> 0]
  /\ calls = [p \in Payments |-> 0]
  /\ faults = 0

SetStatus(p, s) == payments' = [payments EXCEPT ![p].status = s]

Goto(t, state) == threads' = [threads EXCEPT ![t] = state]

\* The next statement of a thread, with the locals it has.
Step(t, at) == Goto(t, [threads[t] EXCEPT !.at = at])

\* logAudit(action) comes next, as the last statement of the method.
ThenLog(t, action) == Goto(t, [threads[t] EXCEPT !.at = "log", !.log = action])

\* Mutant: the mutex is unlocked at the end of the method only, not deferred.
ReturnLocked(t) ==
  /\ Goto(t, Idle)
  /\ mutex' = IF t \in Workers /\ threads[t].at = "log"
              THEN [mutex EXCEPT ![threads[t].pay] = "none"] ELSE mutex

\* The method returns: a goroutine of processPayment unlocks its mutex.
Return(t) ==
  /\ Goto(t, Idle)
  /\ mutex' = IF t \in Workers THEN [mutex EXCEPT ![threads[t].pay] = "none"] ELSE mutex

-----------------------------------------------------------------------------
(* CreatePayment: INSERT, logAudit, go processPayment (in Log).             *)

CreatePayment(t, p, g) ==
  /\ threads[t] = Idle
  /\ payments[p].status = "none"
  /\ payments' = [payments EXCEPT ![p].status = "PENDING", ![p].gateway = g]
  /\ activations' = [activations EXCEPT ![p] = @ + 1]
  /\ Goto(t, [Idle EXCEPT !.at = "log", !.pay = p, !.log = "created"])
  /\ UNCHANGED <<waiting, mutex, gateway, audited, calls, faults>>

(* processPayment *)

\* Mutant: processPayment without its mutex.
AcquireUnlocked(w, p) ==
  /\ threads[w] = Idle
  /\ waiting[p] > 0
  /\ mutex' = [mutex EXCEPT ![p] = w]
  /\ waiting' = [waiting EXCEPT ![p] = @ - 1]
  /\ Goto(w, [Idle EXCEPT !.at = "read", !.pay = p])
  /\ UNCHANGED <<payments, gateway, audited, activations, calls, faults>>

\* getPaymentMutex(id).Lock() by one of the goroutines that wait for it.
Acquire(w, p) ==
  /\ threads[w] = Idle
  /\ waiting[p] > 0
  /\ mutex[p] = "none"
  /\ mutex' = [mutex EXCEPT ![p] = w]
  /\ waiting' = [waiting EXCEPT ![p] = @ - 1]
  /\ Goto(w, [Idle EXCEPT !.at = "read", !.pay = p])
  /\ UNCHANGED <<payments, gateway, audited, activations, calls, faults>>

\* Mutant: the status is not looked at again under the mutex.
RecheckNothing(w) ==
  /\ threads[w].at = "read"
  /\ Step(w, "start") /\ UNCHANGED mutex
  /\ UNCHANGED <<payments, waiting, gateway, audited, activations, calls, faults>>

\* The row is read again under the mutex; anything but PENDING ends the method.
Recheck(w) ==
  /\ threads[w].at = "read"
  /\ \/ payments[threads[w].pay].status = "PENDING" /\ Step(w, "start") /\ UNCHANGED mutex
     \/ payments[threads[w].pay].status # "PENDING" /\ Return(w)
  /\ UNCHANGED <<payments, waiting, gateway, audited, activations, calls, faults>>

StartProcessing(w) ==
  /\ threads[w].at = "start"
  /\ SetStatus(threads[w].pay, "PROCESSING")
  /\ Step(w, "call")
  /\ UNCHANGED <<waiting, mutex, gateway, audited, activations, calls, faults>>

\* Mutant: the error of the gateway is not looked at.
AskGatewayUnchecked(w) ==
  LET p == threads[w].pay IN
  /\ threads[w].at = "call"
  /\ calls' = [calls EXCEPT ![p] = @ + 1]
  /\ \/ \E c \in Charges :
          /\ gateway[c] = Unused
          /\ gateway' = [gateway EXCEPT ![c] = Paid(p)]
          /\ Goto(w, [threads[w] EXCEPT !.at = "link", !.charge = c])
     \/ Step(w, "succeed") /\ UNCHANGED gateway
  /\ UNCHANGED <<payments, waiting, mutex, audited, activations, faults>>

\* The gateway is asked to charge.  Stripe pays at once, or leaves the intent
\* open or processing, which ProcessPayment returns as an error and the caller
\* thus forgets the identifier; PayPal creates an order that nobody
\* captures and answers success; either may refuse.
AskGateway(w) ==
  LET p == threads[w].pay IN
  /\ threads[w].at = "call"
  /\ calls' = [calls EXCEPT ![p] = @ + 1]
  /\ \/ /\ payments[p].gateway = "STRIPE"
        /\ \E c \in Charges :
             /\ gateway[c] = Unused
             /\ \/ /\ gateway' = [gateway EXCEPT ![c] = Paid(p)]
                   /\ Goto(w, [threads[w] EXCEPT !.at = "link", !.charge = c])
                \/ /\ gateway' = [gateway EXCEPT ![c] = Opened(p)]
                   /\ Step(w, "fail")
     \/ /\ payments[p].gateway = "PAYPAL"
        /\ \E c \in Charges :
             /\ gateway[c] = Unused
             /\ gateway' = [gateway EXCEPT ![c] = Opened(p)]
             /\ Goto(w, [threads[w] EXCEPT !.at = "link", !.charge = c])
     \/ Step(w, "fail") /\ UNCHANGED gateway
  /\ UNCHANGED <<payments, waiting, mutex, audited, activations, faults>>

MarkFailed(w) ==
  /\ threads[w].at = "fail"
  /\ SetStatus(threads[w].pay, "FAILED")
  /\ ThenLog(w, "failed")
  /\ UNCHANGED <<waiting, mutex, gateway, audited, activations, calls, faults>>

\* Mutant: the identifier is not written.
LinkNothing(w) ==
  /\ threads[w].at = "link"
  /\ Step(w, "succeed")
  /\ UNCHANGED <<payments, waiting, mutex, gateway, audited, activations, calls, faults>>

LinkCharge(w) ==
  /\ threads[w].at = "link"
  /\ payments' = [payments EXCEPT ![threads[w].pay].ext = threads[w].charge]
  /\ Step(w, "succeed")
  /\ UNCHANGED <<waiting, mutex, gateway, audited, activations, calls, faults>>

\* Mutant: the method returns without its audit entry.
SucceedUnlogged(w) ==
  /\ threads[w].at = "succeed"
  /\ SetStatus(threads[w].pay, "SUCCEEDED")
  /\ Return(w)
  /\ UNCHANGED <<waiting, gateway, audited, activations, calls, faults>>

MarkSucceeded(w) ==
  /\ threads[w].at = "succeed"
  /\ SetStatus(threads[w].pay, "SUCCEEDED")
  /\ ThenLog(w, "succeeded")
  /\ UNCHANGED <<waiting, mutex, gateway, audited, activations, calls, faults>>

\* What follows the audit INSERT, done or failed: CreatePayment starts the
\* goroutine, every method returns.
AfterLog(t) ==
  /\ waiting' = IF threads[t].log = "created"
                THEN [waiting EXCEPT ![threads[t].pay] = @ + 1] ELSE waiting
  /\ Return(t)

Log(t) ==
  /\ threads[t].at = "log"
  /\ audited' = [audited EXCEPT ![threads[t].pay] = @ \cup {threads[t].log}]
  /\ AfterLog(t)
  /\ UNCHANGED <<payments, gateway, activations, calls, faults>>

-----------------------------------------------------------------------------
(* RetryPayment: the status is checked, then written without the mutex.     *)

RetryPayment(t, p) ==
  /\ threads[t] = Idle
  /\ payments[p].status = "FAILED"
  /\ activations[p] <= MaxRetries
  /\ Goto(t, [Idle EXCEPT !.at = "retry", !.pay = p])
  /\ UNCHANGED <<payments, waiting, mutex, gateway, audited, activations, calls, faults>>

Reactivate(t) ==
  LET p == threads[t].pay IN
  /\ threads[t].at = "retry"
  /\ SetStatus(p, "PENDING")
  /\ activations' = IF payments[p].status = "PENDING" THEN activations
                    ELSE [activations EXCEPT ![p] = @ + 1]
  /\ waiting' = [waiting EXCEPT ![p] = @ + 1]
  /\ Goto(t, Idle)
  /\ UNCHANGED <<mutex, gateway, audited, calls, faults>>

(* ProcessRefund: CanRefund, the gateway, REFUNDED, the metadata.           *)

RefundPayment(t, p, amount) ==
  /\ threads[t] = Idle
  /\ payments[p].status = "SUCCEEDED" /\ payments[p].ext # "none"
  /\ Goto(t, [Idle EXCEPT !.at = "refund", !.pay = p,
                          !.charge = payments[p].ext, !.amount = amount])
  /\ UNCHANGED <<payments, waiting, mutex, gateway, audited, activations, calls, faults>>

\* An amount as the gateway gets it: int64(amountFloat * 100) for Stripe, which
\* makes 28 of 0.29 and 1998 of 19.99; "%.2f" for PayPal.
Cents(amount) == IF amount \in LosesCent THEN amount - 1 ELSE amount

Sent(p, amount) ==
  IF payments[p].gateway = "STRIPE" THEN Cents(amount) ELSE amount

\* What the gateway would give back: all that is left when no amount is named.
ToGive(t) ==
  LET c == gateway[threads[t].charge]
      p == threads[t].pay IN
  IF threads[t].amount = 0 THEN Sent(p, Price) - c.refunded ELSE Sent(p, threads[t].amount)

\* It gives back no more than was charged.
Refundable(t) ==
  LET c == gateway[threads[t].charge] IN
  c.paid /\ ToGive(t) > 0 /\ c.refunded + ToGive(t) <= Sent(threads[t].pay, Price)

\* Mutant: REFUNDED is written whatever the gateway answered.
AskRefundUnchecked(t) ==
  LET c == threads[t].charge IN
  /\ threads[t].at = "refund"
  /\ \/ /\ Refundable(t)
        /\ gateway' = [gateway EXCEPT ![c].refunded = @ + ToGive(t)]
     \/ UNCHANGED gateway
  /\ Step(t, "mark")
  /\ UNCHANGED <<payments, waiting, mutex, audited, activations, calls, faults>>

\* The gateway refunds what was paid and not refunded yet, or answers an error.
AskRefund(t) ==
  LET c == threads[t].charge IN
  /\ threads[t].at = "refund"
  /\ \/ /\ Refundable(t)
        /\ gateway' = [gateway EXCEPT ![c].refunded = @ + ToGive(t)]
        /\ Step(t, "mark")
     \/ Goto(t, Idle) /\ UNCHANGED gateway
  /\ UNCHANGED <<payments, waiting, mutex, audited, activations, calls, faults>>

MarkRefunded(t) ==
  /\ threads[t].at = "mark"
  /\ SetStatus(threads[t].pay, "REFUNDED")
  /\ Step(t, "track")
  /\ UNCHANGED <<waiting, mutex, gateway, audited, activations, calls, faults>>

TrackRefund(t) ==
  LET amount == IF threads[t].amount = 0 THEN Price ELSE threads[t].amount IN
  /\ threads[t].at = "track"
  /\ payments' = [payments EXCEPT ![threads[t].pay].tracked = amount]
  /\ ThenLog(t, "refunded")
  /\ UNCHANGED <<waiting, mutex, gateway, audited, activations, calls, faults>>

-----------------------------------------------------------------------------
(* ProcessWebhook: the payment is found by its external identifier and its  *)
(* status overwritten.  The gateway may deliver an event late, out of order *)
(* and more than once; one about a charge no payment carries is dropped.    *)

\* The statuses a webhook may announce for charge c of payment p, at any later
\* time: those the gateway signs are true; of one without a signature, PayPal's
\* always and Stripe's when no secret is configured, anything is believed.
Announced(p, c) ==
  {s \in {"SUCCEEDED", "FAILED", "REFUNDED"} :
     \/ payments[p].gateway \notin Verified
     \/ s = "SUCCEEDED" /\ gateway[c].paid
     \/ s = "FAILED" /\ gateway[c].declined
     \/ s = "REFUNDED" /\ gateway[c].refunded > 0}

ReceiveWebhook(t, c) ==
  /\ threads[t] = Idle
  /\ \E p \in Payments : \E s \in Announced(p, c) :
       /\ payments[p].ext = c
       /\ Goto(t, [Idle EXCEPT !.at = "apply", !.pay = p, !.to = s])
  /\ UNCHANGED <<payments, waiting, mutex, gateway, audited, activations, calls, faults>>

ApplyWebhook(t) ==
  /\ threads[t].at = "apply"
  /\ SetStatus(threads[t].pay, threads[t].to)
  /\ ThenLog(t, "processed")
  /\ UNCHANGED <<waiting, mutex, gateway, audited, activations, calls, faults>>

\* Stripe itself goes on with an intent that was "processing" when it answered,
\* and pays or declines it.  The customer has no part in it: he is handed no
\* client secret.
IntentSettles(c) ==
  /\ gateway[c] # Unused /\ ~gateway[c].paid
  /\ payments[gateway[c].payment].gateway = "STRIPE"
  /\ gateway' = [gateway EXCEPT ![c].paid = TRUE] \/
     gateway' = [gateway EXCEPT ![c].declined = TRUE]
  /\ UNCHANGED <<payments, waiting, mutex, threads, audited, activations, calls, faults>>

-----------------------------------------------------------------------------
(* Failures                                                                 *)

\* The statement of a thread fails.  Most end the method; a failed write of
\* FAILED, of the identifier, of the metadata or of the log is only logged.
QueryFails(t) ==
  /\ faults < MaxFaults /\ faults' = faults + 1
  /\ \/ /\ threads[t].at \in {"read", "start", "succeed", "retry", "mark", "apply"}
        /\ Return(t) /\ UNCHANGED waiting
     \/ threads[t].at = "fail" /\ ThenLog(t, "failed") /\ UNCHANGED <<waiting, mutex>>
     \/ threads[t].at = "link" /\ Step(t, "succeed") /\ UNCHANGED <<waiting, mutex>>
     \/ threads[t].at = "track" /\ ThenLog(t, "refunded") /\ UNCHANGED <<waiting, mutex>>
     \/ threads[t].at = "log" /\ AfterLog(t)
  /\ UNCHANGED <<payments, gateway, audited, activations, calls>>

\* The gateway has charged and the answer is lost: an error for the caller.
AnswerLost(w) ==
  LET p == threads[w].pay IN
  /\ faults < MaxFaults /\ faults' = faults + 1
  /\ threads[w].at = "call"
  /\ calls' = [calls EXCEPT ![p] = @ + 1]
  /\ \E c \in Charges :
       /\ gateway[c] = Unused
       /\ gateway' = [gateway EXCEPT ![c] =
                        IF payments[p].gateway = "STRIPE" THEN Paid(p) ELSE Opened(p)]
  /\ Step(w, "fail")
  /\ UNCHANGED <<payments, waiting, mutex, audited, activations>>

\* The process dies, or shuts down without waiting for its goroutines.
Crash ==
  /\ faults < MaxFaults /\ faults' = faults + 1
  /\ threads' = [t \in Threads |-> Idle]
  /\ waiting' = [p \in Payments |-> 0]
  /\ mutex' = [p \in Payments |-> "none"]
  /\ UNCHANGED <<payments, gateway, audited, activations, calls>>

-----------------------------------------------------------------------------
Request(t) ==
  \/ \E p \in Payments, g \in Gateways : CreatePayment(t, p, g)
  \/ \E p \in Payments : RetryPayment(t, p)
  \/ \E p \in Payments, amount \in Refunds : RefundPayment(t, p, amount)
  \/ \E c \in Charges : ReceiveWebhook(t, c)

\* What a worker, or a client, does next in the method it runs.
Work(w) ==
  \/ Recheck(w) \/ StartProcessing(w) \/ AskGateway(w) \/ MarkFailed(w)
  \/ LinkCharge(w) \/ MarkSucceeded(w) \/ Log(w)

Serve(t) ==
  \/ Reactivate(t) \/ AskRefund(t) \/ MarkRefunded(t) \/ TrackRefund(t)
  \/ ApplyWebhook(t) \/ Log(t)

Next ==
  \/ \E t \in Clients : Request(t) \/ Serve(t)
  \/ \E w \in Workers, p \in Payments : Acquire(w, p)
  \/ \E w \in Workers : Work(w) \/ AnswerLost(w)
  \/ \E c \in Charges : IntentSettles(c)
  \/ \E t \in Threads : QueryFails(t)
  \/ Crash

Spec == Init /\ [][Next]_vars

(* Fairness: the Go scheduler runs every goroutine, a mutex is granted to   *)
(* one of those waiting, PostgreSQL and the gateway answer.  Nothing is     *)
(* assumed of customers, webhooks or failures.                              *)
FairSpec ==
  /\ Spec
  /\ \A t \in Clients : WF_vars(Serve(t))
  /\ \A w \in Workers : WF_vars(Work(w))
  /\ \A p \in Payments : WF_vars(\E w \in Workers : Acquire(w, p))
-----------------------------------------------------------------------------
(* Properties                                                              *)

\* Every variable has its type.
TypeOK ==
  /\ payments \in [Payments -> Payment]
  /\ waiting \in [Payments -> Nat]
  /\ mutex \in [Payments -> Workers \cup {"none"}]
  /\ threads \in [Threads -> Thread]
  /\ gateway \in [Charges -> Charge]
  /\ audited \in [Payments -> SUBSET Logged]
  /\ activations \in [Payments -> Nat]
  /\ calls \in [Payments -> Nat]
  /\ faults \in 0..MaxFaults

\* The gateway is asked at most once for every time a payment became PENDING,
\* however many goroutines were started for it: what the mutex together with
\* the second look at the status is there for.
ChargedOncePerActivation == \A p \in Payments : calls[p] <= activations[p]

\* Strengthening: an activation is either spent on a call, or in the hands of
\* the worker that took it, or still to be taken.
MutexOK ==
  /\ \A w \in Workers : threads[w].at # "idle" =>
       threads[w].pay \in Payments /\ mutex[threads[w].pay] = w
  /\ \A t \in Clients : threads[t].at # "idle" => threads[t].pay \in Payments

Calling(p) == \E w \in Workers : threads[w].pay = p /\ threads[w].at = "call"

Open(p) ==
  \/ payments[p].status = "PENDING"
  \/ \E w \in Workers : threads[w].pay = p /\ threads[w].at = "start"

ActivationsSpent ==
  \A p \in Payments :
    calls[p] + (IF Calling(p) THEN 1 ELSE 0) + (IF Open(p) THEN 1 ELSE 0) <= activations[p]

PaymentsIInv == TypeOK /\ MutexOK /\ ActivationsSpent

ChargesOf(p) == {c \in Charges : gateway[c].payment = p}

\* SUCCEEDED, by whichever of the worker and the webhooks (verified or not) wrote
\* it last, stands for a charge of this very payment at the gateway, a paid one
\* with Stripe.
SucceededWasCharged ==
  \A p \in Payments : payments[p].status = "SUCCEEDED" =>
    \E c \in ChargesOf(p) : payments[p].gateway = "STRIPE" => gateway[c].paid

\* A refund on record, as the amount in the metadata or as the status (where the
\* webhooks that may write it are verified), is covered by what the gateway has
\* given back on one charge of this very payment, whichever refunds, webhooks,
\* errors and crashes came before; up to the cent the conversion may lose.
RefundsAreBacked ==
  \A p \in Payments :
    \/ payments[p].status = "REFUNDED" /\ payments[p].gateway \in Verified
    \/ payments[p].tracked > 0
    => \E c \in ChargesOf(p) :
         gateway[c].refunded > 0 /\ gateway[c].refunded >= Sent(p, payments[p].tracked)

\* Without failures a payment that is SUCCEEDED can be found by a webhook and
\* refunded: the identifier is written before the status.
SucceededIsTraceable ==
  faults = 0 => \A p \in Payments : payments[p].status = "SUCCEEDED" =>
    payments[p].ext \in ChargesOf(p)

Quiet == (\A t \in Threads : threads[t] = Idle) /\ (\A p \in Payments : waiting[p] = 0)

Outcome == [SUCCEEDED |-> "succeeded", FAILED |-> "failed", REFUNDED |-> "refunded"]

\* Without failures, and with no goroutine left, every payment has an outcome and
\* the audit log has an entry of whoever may have written it, however retries,
\* refunds and webhooks overwrite one another.
OutcomesAreLogged ==
  faults = 0 /\ Quiet => \A p \in Payments : payments[p].status # "none" =>
    /\ payments[p].status \in DOMAIN Outcome
    /\ audited[p] \cap {Outcome[payments[p].status], "processed"} # {}

\* As long as the process lives and no statement fails, a payment does not stay
\* PENDING or PROCESSING, whatever retries and webhooks do to it meanwhile.
PaymentSettles ==
  \A p \in Payments :
    payments[p].status \in {"PENDING", "PROCESSING"} ~>
      payments[p].status \notin {"PENDING", "PROCESSING"}

-----------------------------------------------------------------------------
(* Claims of the documentation and of comments, refuted by their runs.      *)

\* README.md:10 "Idempotent payment operations": the customer is never charged
\* twice for one payment, a retry after a lost answer included.
PaidAtMostOnce == \A p \in Payments : Cardinality({c \in ChargesOf(p) : gateway[c].paid}) <= 1
=============================================================================
