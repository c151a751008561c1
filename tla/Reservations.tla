---------------------------- MODULE Reservations ----------------------------
(***************************************************************************)
(* Checkout reservations of the inventory service: ReservationService over *)
(* InventoryService and their repositories.                                *)
(*                                                                         *)
(* A handler is one activation of a service method in the Node process: a  *)
(* request (Requests) or a tick of the clean-up timer (Sweepers).  Every   *)
(* `await` of a database query is a point where other handlers run, so a   *)
(* handler is a record holding the method it runs, the query it is about   *)
(* to issue and the local variables that survive the await.  The history   *)
(* INSERT, the socket emit and the cache write that follow a stock UPDATE  *)
(* touch nothing read here and can only fail; Abort covers their failure.  *)
(***************************************************************************)
EXTENDS Stock, FiniteSetsExt

CONSTANTS
  Items,        \* rows of `inventory`: (product, warehouse) pairs
  Resvs,        \* identifiers gen_random_uuid() can give to reservations
  Owners,       \* the orders and sessions a reservation can belong to
  Requests,     \* slots for concurrent requests
  Sweepers,     \* slots for overlapping ticks of the clean-up timer
  Quantities,   \* amounts a customer may ask for
  InitialStock, \* quantity of every item at the start
  Counts,       \* amounts an administrator may set a quantity to
  MaxFaults     \* bound on failed queries and crashes

ASSUME ReservationsAssumption ==
  /\ Items # {}
  /\ Owners # {}
  /\ Requests \cap Sweepers = {}
  /\ IsFiniteSet(Resvs) /\ IsFiniteSet(Requests \cup Sweepers)
  /\ Quantities \subseteq Nat \ {0}
  /\ InitialStock \in Nat
  /\ Counts \subseteq Nat
  /\ MaxFaults \in Nat

VARIABLES
  inventory,    \* the table `inventory`
  reservations, \* the table `reservations`; status "none" is no row yet
  handlers,     \* the activations in progress
  frees,        \* history: how often the stock of a reservation was given back,
                \* counted up to MaxFrees
  leaked,       \* history: stock reserved by a creation that then failed
  faults        \* how many failures have happened

vars == <<inventory, reservations, handlers, frees, leaked, faults>>

Handlers == Requests \cup Sweepers

\* Never, once, or more than once: what the properties tell apart.
MaxFrees == 2

\* The states in which a reservation is a promise to the customer.
Held == {"pending", "confirmed"}
Status == Held \cup {"none", "released", "expired"}

Reservation == [status : Status, item : Items, quantity : Nat,
                owner : Owners, due : BOOLEAN]

NoRow == [status |-> "none", item |-> CHOOSE i \in Items : TRUE,
          quantity |-> 0, owner |-> CHOOSE o \in Owners : TRUE, due |-> FALSE]

\* at: the query the handler issues next; row: the row it is to insert, or the
\* row as it read it; todo: the reservations its loop has still to visit.
Handler == [op : {"none", "create", "confirm", "release", "batch", "sweep"},
            at : {"idle", "insert", "confirm", "read", "free", "mark", "expire"},
            id : Resvs \cup {"none"}, row : Reservation, todo : SUBSET Resvs]

Idle == [op |-> "none", at |-> "idle", id |-> "none", row |-> NoRow, todo |-> {}]

Init ==
  /\ inventory = [i \in Items |-> [quantity |-> InitialStock, reserved |-> 0]]
  /\ reservations = [r \in Resvs |-> NoRow]
  /\ handlers = [h \in Handlers |-> Idle]
  /\ frees = [r \in Resvs |-> 0]
  /\ leaked = [i \in Items |-> 0]
  /\ faults = 0

Exists(r) == reservations[r].status # "none"

SetStatus(r, s) == reservations' = [reservations EXCEPT ![r].status = s]

Goto(h, state) == handlers' = [handlers EXCEPT ![h] = state]

\* The loops over a list of reservations: the next iteration, or the return.
Loop(op, todo) ==
  IF todo = {} THEN Idle
  ELSE [Idle EXCEPT !.op = op, !.at = "read", !.todo = todo]

-----------------------------------------------------------------------------
(* createReservation: the conditional UPDATE on the stock, then the INSERT. *)

CreateReservation(h, i, q, o) ==
  /\ handlers[h] = Idle
  /\ CanReserve(inventory[i], q)
  /\ inventory' = [inventory EXCEPT ![i] = Reserve(@, q)]
  /\ Goto(h, [Idle EXCEPT !.op = "create", !.at = "insert",
                          !.row = [status |-> "pending", item |-> i, quantity |-> q,
                                   owner |-> o, due |-> FALSE]])
  /\ UNCHANGED <<reservations, frees, leaked, faults>>

InsertReservation(h) ==
  /\ handlers[h].at = "insert"
  /\ \E r \in Resvs :
       /\ ~Exists(r)
       /\ reservations' = [reservations EXCEPT ![r] = handlers[h].row]
  /\ Goto(h, Idle)
  /\ UNCHANGED <<inventory, frees, leaked, faults>>

(* confirmReservation: the status is read, and written without a condition. *)

ConfirmReservation(h, r) ==
  /\ handlers[h] = Idle
  /\ reservations[r].status = "pending"
  /\ Goto(h, [Idle EXCEPT !.op = "confirm", !.at = "confirm", !.id = r])
  /\ UNCHANGED <<inventory, reservations, frees, leaked, faults>>

WriteConfirmed(h) ==
  /\ handlers[h].at = "confirm"
  /\ SetStatus(handlers[h].id, "confirmed")
  /\ Goto(h, Idle)
  /\ UNCHANGED <<inventory, frees, leaked, faults>>

-----------------------------------------------------------------------------
(* releaseReservation(id), called by the request, by the two batch methods  *)
(* and by the clean-up.                                                     *)

\* A row that is not yet 'released' goes on to the stock UPDATE.
AboutToFree(op, r, todo) ==
  [op |-> op, at |-> "free", id |-> r, row |-> reservations[r], todo |-> todo]

ReleaseReservation(h, r) ==
  /\ handlers[h] = Idle
  /\ Exists(r) /\ reservations[r].status # "released"
  /\ Goto(h, AboutToFree("release", r, {}))
  /\ UNCHANGED <<inventory, reservations, frees, leaked, faults>>

FreeStock(h) ==
  LET row == handlers[h].row IN
  /\ handlers[h].at = "free"
  /\ inventory' = [inventory EXCEPT ![row.item] = GiveBack(@, row.quantity)]
  /\ frees' = [frees EXCEPT ![handlers[h].id] = IF @ = MaxFrees THEN @ ELSE @ + 1]
  /\ Goto(h, [handlers[h] EXCEPT !.at = "mark"])
  /\ UNCHANGED <<reservations, leaked, faults>>

\* What follows releaseReservation in the method that called it.
AfterRelease(h) ==
  IF handlers[h].op = "sweep" THEN [handlers[h] EXCEPT !.at = "expire"]
                              ELSE Loop("batch", handlers[h].todo)

MarkReleased(h) ==
  /\ handlers[h].at = "mark"
  /\ SetStatus(handlers[h].id, "released")
  /\ Goto(h, AfterRelease(h))
  /\ UNCHANGED <<inventory, frees, leaked, faults>>

(* releaseByOrderId takes the rows of an order whatever their status,       *)
(* releaseBySessionId only the pending ones of a session.                   *)

ReleaseByOwner(h, o) ==
  /\ handlers[h] = Idle
  /\ \E statuses \in {Status \ {"none"}, {"pending"}} :
       LET found == {r \in Resvs : /\ reservations[r].status \in statuses
                                   /\ reservations[r].owner = o}
       IN  found # {} /\ Goto(h, Loop("batch", found))
  /\ UNCHANGED <<inventory, reservations, frees, leaked, faults>>

(* releaseExpiredReservations, from setInterval: SELECT the pending rows    *)
(* past their expiry, release each and overwrite its status with 'expired'. *)

\* Mutant: the comparison with the expiry is the wrong way round.
FindUnexpired(h) ==
  LET found == {r \in Resvs : /\ reservations[r].status = "pending"
                              /\ ~reservations[r].due}
  IN  /\ handlers[h] = Idle
      /\ found # {}
      /\ Goto(h, Loop("sweep", found))
      /\ UNCHANGED <<inventory, reservations, frees, leaked, faults>>

FindExpired(h) ==
  LET found == {r \in Resvs : /\ reservations[r].status = "pending"
                              /\ reservations[r].due}
  IN  /\ handlers[h] = Idle
      /\ found # {}
      /\ Goto(h, Loop("sweep", found))
      /\ UNCHANGED <<inventory, reservations, frees, leaked, faults>>

\* Mutant: every row that is no longer pending is taken for released.
VisitPendingOnly(h) ==
  /\ handlers[h].at = "read"
  /\ \E r \in handlers[h].todo :
       LET rest == handlers[h].todo \ {r}
           op   == handlers[h].op
       IN  Goto(h, IF reservations[r].status = "pending" THEN AboutToFree(op, r, rest)
                   ELSE IF op = "batch" THEN Loop(op, rest)
                   ELSE [Idle EXCEPT !.op = op, !.at = "expire", !.id = r, !.todo = rest])
  /\ UNCHANGED <<inventory, reservations, frees, leaked, faults>>

\* One iteration of a loop: releaseReservation reads the row again, and does
\* nothing when it finds it 'released'; the clean-up marks it all the same.
VisitNext(h) ==
  /\ handlers[h].at = "read"
  /\ \E r \in handlers[h].todo :
       LET rest == handlers[h].todo \ {r}
           op   == handlers[h].op
       IN  Goto(h, IF reservations[r].status # "released" THEN AboutToFree(op, r, rest)
                   ELSE IF op = "batch" THEN Loop(op, rest)
                   ELSE [Idle EXCEPT !.op = op, !.at = "expire", !.id = r, !.todo = rest])
  /\ UNCHANGED <<inventory, reservations, frees, leaked, faults>>

MarkExpired(h) ==
  /\ handlers[h].at = "expire"
  /\ SetStatus(handlers[h].id, "expired")
  /\ Goto(h, Loop("sweep", handlers[h].todo))
  /\ UNCHANGED <<inventory, frees, leaked, faults>>

-----------------------------------------------------------------------------
(* The surroundings: time, the administrator, failures.                     *)

ExpiryPasses(r) ==
  /\ reservations[r].status = "pending" /\ ~reservations[r].due
  /\ reservations' = [reservations EXCEPT ![r].due = TRUE]
  /\ UNCHANGED <<inventory, handlers, frees, leaked, faults>>

\* updateInventory writes the quantity it is given, whatever is reserved.
UpdateInventory(i, n) ==
  /\ inventory[i].quantity # n
  /\ inventory' = [inventory EXCEPT ![i] = SetQuantity(@, n)]
  /\ UNCHANGED <<reservations, handlers, frees, leaked, faults>>

\* A query of h is rejected and the error leaves the method, or the process
\* dies under it: the locals are gone, the statements executed so far stay.
Abort(h) ==
  LET row == handlers[h].row IN
  /\ faults < MaxFaults /\ faults' = faults + 1
  /\ handlers[h] # Idle
  /\ leaked' = IF handlers[h].at = "insert"
               THEN [leaked EXCEPT ![row.item] = @ + row.quantity] ELSE leaked
  /\ Goto(h, Idle)
  /\ UNCHANGED <<inventory, reservations, frees>>

\* The try/catch of the clean-up loop: the failed reservation is skipped.
SkipFailed(h) ==
  /\ faults < MaxFaults /\ faults' = faults + 1
  /\ handlers[h].op = "sweep"
  /\ \/ handlers[h].at # "read" /\ Goto(h, Loop("sweep", handlers[h].todo))
     \/ /\ handlers[h].at = "read"
        /\ \E r \in handlers[h].todo : Goto(h, Loop("sweep", handlers[h].todo \ {r}))
  /\ UNCHANGED <<inventory, reservations, frees, leaked>>

-----------------------------------------------------------------------------
RequestStep(h) ==
  \/ \E i \in Items, q \in Quantities, o \in Owners : CreateReservation(h, i, q, o)
  \/ \E r \in Resvs : ConfirmReservation(h, r) \/ ReleaseReservation(h, r)
  \/ \E o \in Owners : ReleaseByOwner(h, o)

\* The statements that carry a started method on.
Continue(h) ==
  \/ InsertReservation(h) \/ WriteConfirmed(h) \/ FreeStock(h)
  \/ MarkReleased(h) \/ VisitNext(h) \/ MarkExpired(h)

Next ==
  \/ \E h \in Requests : RequestStep(h)
  \/ \E h \in Sweepers : FindExpired(h)
  \/ \E h \in Handlers : Continue(h) \/ Abort(h) \/ SkipFailed(h)
  \/ \E r \in Resvs : ExpiryPasses(r)
  \/ \E i \in Items, n \in Counts : UpdateInventory(i, n)

Spec == Init /\ [][Next]_vars

(* Fairness: PostgreSQL answers every query and setInterval keeps firing.   *)
(* Nothing is assumed of the customers, of time or of failures.             *)
FairSpec ==
  /\ Spec
  /\ \A h \in Handlers : WF_vars(Continue(h))
  /\ \A h \in Sweepers : WF_vars(FindExpired(h))

-----------------------------------------------------------------------------
(* Properties                                                              *)

\* Every variable has its type; the columns respect their CHECKs.
TypeOK ==
  /\ inventory \in [Items -> StockRow]
  /\ reservations \in [Resvs -> Reservation]
  /\ handlers \in [Handlers -> Handler]
  /\ frees \in [Resvs -> 0..MaxFrees]
  /\ leaked \in [Items -> Nat]
  /\ faults \in 0..MaxFaults

\* Units of item i in reservations whose stock was never given back, one by one
\* and in all.
UnfreedUnits(i) ==
  [r \in Resvs |-> IF Exists(r) /\ reservations[r].item = i /\ frees[r] = 0
                   THEN reservations[r].quantity ELSE 0]
Unfreed(i) == SumFunction(UnfreedUnits(i))

\* Units of item i taken by creations that have not inserted their row yet.
InFlightUnits(i) ==
  [h \in Handlers |-> IF handlers[h].at = "insert" /\ handlers[h].row.item = i
                      THEN handlers[h].row.quantity ELSE 0]
InFlight(i) == SumFunction(InFlightUnits(i))

\* No reserved unit is stranded: whatever the interleaving of creations,
\* releases and clean-ups, each reserved unit belongs to a reservation nobody
\* has freed, to a creation in progress, or to one that failed after its stock
\* UPDATE (reservation.service.ts has no compensation for that).
ReservedIsAccountedFor ==
  \A i \in Items : inventory[i].reserved <= Unfreed(i) + InFlight(i) + leaked[i]

\* The only way the row can fall short of what is reserved is one reservation
\* freed twice: GREATEST(0, ..) and every other race keep the account exact.
ShortfallOnlyFromDoubleFree ==
  \A i \in Items :
    inventory[i].reserved < Unfreed(i) + InFlight(i) + leaked[i] =>
      \E r \in Resvs : reservations[r].item = i /\ frees[r] > 1

\* A reservation leaves the held statuses for good only after its stock was
\* given back at least once: the order of the two statements of
\* releaseReservation, the early return on 'released' and the overwriting of
\* the status by the clean-up never skip the stock.
GoneMeansFreed ==
  \A r \in Resvs :
    reservations[r].status \in {"released", "expired"} => frees[r] > 0

\* Strengthening of GoneMeansFreed: a method that is about to write 'released'
\* or 'expired' has given the stock back, or has found that someone did; the
\* statements that act on a reservation have one; a row is inserted as pending;
\* only the loops read.
WritersHaveFreed ==
  \A h \in Handlers :
    /\ handlers[h].at \in {"confirm", "free", "mark", "expire"} => handlers[h].id \in Resvs
    /\ handlers[h].at \in {"mark", "expire"} => frees[handlers[h].id] > 0
    /\ handlers[h].at = "insert" => handlers[h].row.status = "pending"
    /\ handlers[h].at = "read" => handlers[h].op \in {"batch", "sweep"}

StockIInv == TypeOK /\ GoneMeansFreed /\ WritersHaveFreed

\* What the account rests on: a method that acts on a reservation acts on an
\* existing row, and gives back the item and the quantity of that row; only a row
\* can be freed; a clean-up has no insertion to lose.
Knows(state) ==
  /\ \A r \in state.todo : Exists(r)
  /\ state.at \in {"confirm", "free", "mark", "expire"} => Exists(state.id)
  /\ state.at = "free" => /\ state.row.item = reservations[state.id].item
                         /\ state.row.quantity = reservations[state.id].quantity
  /\ state.at = "insert" => state.op = "create"

HandlersKnowTheirRows ==
  /\ \A r \in Resvs : ~Exists(r) => frees[r] = 0
  /\ \A h \in Handlers : Knows(handlers[h])

AccountIInv ==
  StockIInv /\ HandlersKnowTheirRows /\ ReservedIsAccountedFor /\ ShortfallOnlyFromDoubleFree

\* Reservations never overdraw a row: the reserved units go beyond the quantity
\* only in a step in which an administrator lowers the quantity.
OverdrawnOnlyByAdjustment ==
  [][\A i \in Items :
       /\ inventory[i].reserved <= inventory[i].quantity
       /\ inventory'[i].reserved > inventory'[i].quantity
       => inventory'[i].quantity < inventory[i].quantity]_vars

\* A reservation that outlives its expiry while pending is settled in the end:
\* the timer finds it however often single queries fail before.
OverdueIsSettled ==
  \A r \in Resvs :
    reservations[r].status = "pending" /\ reservations[r].due
      ~> reservations[r].status # "pending"
==============================================================================
