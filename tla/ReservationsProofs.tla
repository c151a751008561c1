------------------------- MODULE ReservationsProofs -------------------------
(***************************************************************************)
(* Proofs about Reservations for any number of items, reservations,        *)
(* requests, clean-up ticks and failures.                                  *)
(***************************************************************************)
EXTENDS Reservations, StockProofs

(* The empty row and the idle handler are well typed.                       *)

LEMMA IdleTyped ==
  /\ NoRow \in Reservation /\ NoRow.status = "none"
  /\ Idle \in Handler /\ Idle.at = "idle"
<1>1. NoRow \in Reservation
  BY ReservationsAssumption DEF NoRow, Reservation, Status, Held
<1>2. QED
  BY <1>1 DEF Idle, Handler, NoRow

(* The loop continuation is a well typed handler that reads or is idle.     *)

LEMMA LoopTyped ==
  ASSUME NEW op \in {"batch", "sweep"}, NEW todo \in SUBSET Resvs
  PROVE  /\ Loop(op, todo) \in Handler
         /\ Loop(op, todo).at \in {"idle", "read"}
         /\ Loop(op, todo).at = "read" => Loop(op, todo).op = op
BY IdleTyped DEF Loop, Idle, Handler

-----------------------------------------------------------------------------
(* The inductive invariant.                                                 *)

LEMMA InitIInv == Init => StockIInv
<1> SUFFICES ASSUME Init PROVE StockIInv
  OBVIOUS
<1>1. [quantity |-> InitialStock, reserved |-> 0] \in StockRow
  BY ReservationsAssumption DEF StockRow
<1>2. TypeOK
  BY <1>1, IdleTyped, ReservationsAssumption DEF Init, TypeOK, MaxFrees
<1>3. GoneMeansFreed
  BY IdleTyped DEF Init, GoneMeansFreed
<1>4. WritersHaveFreed
  BY IdleTyped DEF Init, WritersHaveFreed
<1>5. QED
  BY <1>2, <1>3, <1>4 DEF StockIInv

(* What a handler may become without touching the tables: anything that     *)
(* keeps the facts WritersHaveFreed records about it.                       *)

WellPlaced(state) ==
  /\ state \in Handler
  /\ state.at \in {"confirm", "free", "mark", "expire"} => state.id \in Resvs
  /\ state.at \in {"mark", "expire"} => frees[state.id] > 0
  /\ state.at = "insert" => state.row.status = "pending"
  /\ state.at = "read" => state.op \in {"batch", "sweep"}

(* A step that only moves a handler to a well placed state.                 *)

LEMMA GotoIInv ==
  ASSUME StockIInv, NEW h \in Handlers, NEW state, WellPlaced(state), Goto(h, state),
         UNCHANGED <<inventory, reservations, frees>>,
         leaked' \in [Items -> Nat], faults' \in 0..MaxFaults
  PROVE  StockIInv'
<1>1. TypeOK'
  BY DEF StockIInv, TypeOK, Goto, WellPlaced
<1>2. GoneMeansFreed'
  BY DEF StockIInv, GoneMeansFreed
<1>3. WritersHaveFreed'
  BY DEF StockIInv, TypeOK, WritersHaveFreed, Goto, WellPlaced
<1>4. QED
  BY <1>1, <1>2, <1>3 DEF StockIInv

(* A step that writes the status s of reservation r and moves a handler.    *)

LEMMA StatusIInv ==
  ASSUME StockIInv, NEW h \in Handlers, NEW state, WellPlaced(state), Goto(h, state),
         NEW r \in Resvs, NEW s \in Status \ {"none"}, SetStatus(r, s),
         s \in {"released", "expired"} => frees[r] > 0,
         UNCHANGED <<inventory, frees, leaked, faults>>
  PROVE  StockIInv'
<1>1. reservations' \in [Resvs -> Reservation]
  BY DEF StockIInv, TypeOK, SetStatus, Reservation
<1>2. TypeOK'
  BY <1>1 DEF StockIInv, TypeOK, Goto, WellPlaced
<1>3. GoneMeansFreed'
  BY DEF StockIInv, TypeOK, GoneMeansFreed, SetStatus, Reservation
<1>4. WritersHaveFreed'
  BY DEF StockIInv, TypeOK, WritersHaveFreed, Goto, WellPlaced
<1>5. QED
  BY <1>2, <1>3, <1>4 DEF StockIInv

(* Idle and the head of a loop are well placed.                             *)

LEMMA LoopWellPlaced ==
  /\ WellPlaced(Idle)
  /\ \A op \in {"batch", "sweep"}, todo \in SUBSET Resvs : WellPlaced(Loop(op, todo))
BY IdleTyped, LoopTyped DEF WellPlaced

-----------------------------------------------------------------------------
(* One lemma per action.                                                    *)

LEMMA CreateIInv ==
  ASSUME StockIInv, NEW h \in Handlers, NEW i \in Items, NEW q \in Quantities,
         NEW o \in Owners, CreateReservation(h, i, q, o)
  PROVE  StockIInv'
<1> DEFINE row == [status |-> "pending", item |-> i, quantity |-> q, owner |-> o, due |-> FALSE]
           state == [Idle EXCEPT !.op = "create", !.at = "insert", !.row = row]
<1>1. q \in Nat
  BY ReservationsAssumption
<1>2. state \in Handler /\ state.at = "insert" /\ state.row.status = "pending"
  BY <1>1, IdleTyped DEF Handler, Reservation, Status, Held, Idle
<1>3. Goto(h, state)
  BY DEF CreateReservation
<1> HIDE DEF state
<1>4. TypeOK'
  BY <1>1, <1>2, <1>3, StockStatementsTyped DEF StockIInv, TypeOK, CreateReservation, Goto
<1>5. GoneMeansFreed'
  BY DEF StockIInv, GoneMeansFreed, CreateReservation
<1>6. WritersHaveFreed'
  BY <1>2, <1>3 DEF StockIInv, TypeOK, WritersHaveFreed, CreateReservation, Goto
<1>7. QED
  BY <1>4, <1>5, <1>6 DEF StockIInv

LEMMA InsertIInv ==
  ASSUME StockIInv, NEW h \in Handlers, InsertReservation(h)
  PROVE  StockIInv'
<1>1. PICK r \in Resvs : reservations' = [reservations EXCEPT ![r] = handlers[h].row]
  BY DEF InsertReservation
<1>2. handlers[h].row \in Reservation /\ handlers[h].row.status = "pending"
  BY DEF StockIInv, TypeOK, Handler, WritersHaveFreed, InsertReservation
<1>3. TypeOK'
  BY <1>1, <1>2, IdleTyped DEF StockIInv, TypeOK, InsertReservation, Goto
<1>4. GoneMeansFreed'
  BY <1>1, <1>2 DEF StockIInv, TypeOK, GoneMeansFreed, InsertReservation
<1>5. WritersHaveFreed'
  BY IdleTyped DEF StockIInv, TypeOK, WritersHaveFreed, InsertReservation, Goto
<1>6. QED
  BY <1>3, <1>4, <1>5 DEF StockIInv

LEMMA ConfirmIInv ==
  ASSUME StockIInv, NEW h \in Handlers, NEW r \in Resvs, ConfirmReservation(h, r)
  PROVE  StockIInv'
<1> DEFINE state == [Idle EXCEPT !.op = "confirm", !.at = "confirm", !.id = r]
<1>1. WellPlaced(state)
  BY IdleTyped DEF WellPlaced, Handler, Idle
<1>2. Goto(h, state)
  BY DEF ConfirmReservation
<1> HIDE DEF state
<1>3. QED
  BY <1>1, <1>2, GotoIInv DEF ConfirmReservation, StockIInv, TypeOK

LEMMA WriteConfirmedIInv ==
  ASSUME StockIInv, NEW h \in Handlers, WriteConfirmed(h)
  PROVE  StockIInv'
<1>1. handlers[h].id \in Resvs
  BY DEF WriteConfirmed, StockIInv, WritersHaveFreed
<1>2. QED
  BY <1>1, StatusIInv, LoopWellPlaced DEF WriteConfirmed, Status, Held

(* AboutToFree is well placed: it names the reservation it has read.        *)

LEMMA AboutToFreeWellPlaced ==
  ASSUME TypeOK, NEW r \in Resvs, NEW todo \in SUBSET Resvs,
         NEW op \in {"release", "batch", "sweep"}
  PROVE  WellPlaced(AboutToFree(op, r, todo))
BY DEF TypeOK, AboutToFree, WellPlaced, Handler

LEMMA ReleaseIInv ==
  ASSUME StockIInv, NEW h \in Handlers, NEW r \in Resvs, ReleaseReservation(h, r)
  PROVE  StockIInv'
<1>1. WellPlaced(AboutToFree("release", r, {}))
  BY AboutToFreeWellPlaced DEF StockIInv
<1>2. QED
  BY <1>1, GotoIInv DEF ReleaseReservation, StockIInv, TypeOK

LEMMA FreeStockIInv ==
  ASSUME StockIInv, NEW h \in Handlers, FreeStock(h)
  PROVE  StockIInv'
<1> DEFINE state == [handlers[h] EXCEPT !.at = "mark"]
<1>1. handlers[h].id \in Resvs /\ handlers[h] \in Handler
  BY DEF FreeStock, StockIInv, TypeOK, WritersHaveFreed
<1>2. state \in Handler /\ state.at = "mark" /\ state.id = handlers[h].id
  BY <1>1 DEF Handler
<1>3. Goto(h, state)
  BY DEF FreeStock
<1> HIDE DEF state
<1>4. inventory' \in [Items -> StockRow]
  <2>1. handlers[h].row.item \in Items /\ handlers[h].row.quantity \in Nat
    BY <1>1 DEF Handler, Reservation
  <2>2. QED
    BY <2>1, StockStatementsTyped DEF FreeStock, StockIInv, TypeOK
<1>5. \A r \in Resvs : frees'[r] \in 0..MaxFrees /\ frees'[r] >= frees[r]
  BY <1>1 DEF FreeStock, StockIInv, TypeOK, MaxFrees
<1>6. frees'[handlers[h].id] > 0
  BY <1>1 DEF FreeStock, StockIInv, TypeOK, MaxFrees
<1>7. TypeOK'
  BY <1>2, <1>3, <1>4, <1>5 DEF FreeStock, StockIInv, TypeOK, Goto
<1>8. GoneMeansFreed'
  BY <1>5 DEF FreeStock, StockIInv, TypeOK, GoneMeansFreed
<1>9. WritersHaveFreed'
  BY <1>1, <1>2, <1>3, <1>5, <1>6 DEF StockIInv, TypeOK, WritersHaveFreed, Goto
<1>10. QED
  BY <1>7, <1>8, <1>9 DEF StockIInv

LEMMA MarkReleasedIInv ==
  ASSUME StockIInv, NEW h \in Handlers, MarkReleased(h)
  PROVE  StockIInv'
<1>1. handlers[h].id \in Resvs /\ frees[handlers[h].id] > 0 /\ handlers[h] \in Handler
  BY DEF MarkReleased, StockIInv, TypeOK, WritersHaveFreed
<1>2. WellPlaced([handlers[h] EXCEPT !.at = "expire"])
  BY <1>1 DEF WellPlaced, Handler
<1>3. WellPlaced(AfterRelease(h))
  BY <1>1, <1>2, LoopWellPlaced DEF AfterRelease, Handler
<1>4. QED
  BY <1>1, <1>3, StatusIInv DEF MarkReleased, Status, Held

LEMMA ReleaseByOwnerIInv ==
  ASSUME StockIInv, NEW h \in Handlers, NEW o \in Owners, ReleaseByOwner(h, o)
  PROVE  StockIInv'
<1>1. PICK found \in SUBSET Resvs : Goto(h, Loop("batch", found))
  BY DEF ReleaseByOwner
<1>2. QED
  BY <1>1, GotoIInv, LoopWellPlaced DEF ReleaseByOwner, StockIInv, TypeOK

LEMMA FindExpiredIInv ==
  ASSUME StockIInv, NEW h \in Handlers, FindExpired(h)
  PROVE  StockIInv'
<1>1. PICK found \in SUBSET Resvs : Goto(h, Loop("sweep", found))
  BY DEF FindExpired
<1>2. QED
  BY <1>1, GotoIInv, LoopWellPlaced DEF FindExpired, StockIInv, TypeOK

LEMMA VisitNextIInv ==
  ASSUME StockIInv, NEW h \in Handlers, VisitNext(h)
  PROVE  StockIInv'
<1> DEFINE op == handlers[h].op
<1>0. op \in {"batch", "sweep"}
  BY DEF VisitNext, StockIInv, WritersHaveFreed
<1>1. PICK r \in handlers[h].todo :
        Goto(h, IF reservations[r].status # "released"
                THEN AboutToFree(op, r, handlers[h].todo \ {r})
                ELSE IF op = "batch" THEN Loop(op, handlers[h].todo \ {r})
                ELSE [Idle EXCEPT !.op = op, !.at = "expire", !.id = r,
                                  !.todo = handlers[h].todo \ {r}])
  BY DEF VisitNext
<1>2. r \in Resvs /\ handlers[h].todo \ {r} \in SUBSET Resvs
  BY DEF StockIInv, TypeOK, Handler
<1>3. WellPlaced(AboutToFree(op, r, handlers[h].todo \ {r}))
  BY <1>0, <1>2, AboutToFreeWellPlaced DEF StockIInv
<1>4. WellPlaced(Loop(op, handlers[h].todo \ {r}))
  BY <1>0, <1>2, LoopWellPlaced
<1>5. ASSUME reservations[r].status = "released"
      PROVE  WellPlaced([Idle EXCEPT !.op = op, !.at = "expire", !.id = r,
                                     !.todo = handlers[h].todo \ {r}])
  BY <1>0, <1>2, <1>5, IdleTyped DEF StockIInv, GoneMeansFreed, WellPlaced, Handler, Idle
<1>6. UNCHANGED <<inventory, reservations, frees>> /\ leaked' \in [Items -> Nat]
      /\ faults' \in 0..MaxFaults
  BY DEF VisitNext, StockIInv, TypeOK
<1>7. CASE reservations[r].status # "released"
  BY <1>1, <1>3, <1>6, <1>7, GotoIInv
<1>8. CASE reservations[r].status = "released"
  BY <1>1, <1>4, <1>5, <1>6, <1>8, GotoIInv
<1>9. QED
  BY <1>7, <1>8

LEMMA MarkExpiredIInv ==
  ASSUME StockIInv, NEW h \in Handlers, MarkExpired(h)
  PROVE  StockIInv'
<1>1. handlers[h].id \in Resvs /\ frees[handlers[h].id] > 0 /\ handlers[h].todo \in SUBSET Resvs
  BY DEF MarkExpired, StockIInv, TypeOK, Handler, WritersHaveFreed
<1>2. QED
  BY <1>1, StatusIInv, LoopWellPlaced DEF MarkExpired, Status, Held

LEMMA ExpiryPassesIInv ==
  ASSUME StockIInv, NEW r \in Resvs, ExpiryPasses(r)
  PROVE  StockIInv'
<1>1. TypeOK'
  BY DEF StockIInv, TypeOK, ExpiryPasses, Reservation
<1>2. GoneMeansFreed'
  BY DEF StockIInv, TypeOK, ExpiryPasses, Reservation, GoneMeansFreed
<1>3. WritersHaveFreed'
  BY DEF StockIInv, ExpiryPasses, WritersHaveFreed
<1>4. QED
  BY <1>1, <1>2, <1>3 DEF StockIInv

LEMMA UpdateInventoryIInv ==
  ASSUME StockIInv, NEW i \in Items, NEW n \in Counts, UpdateInventory(i, n)
  PROVE  StockIInv'
<1>1. SetQuantity(inventory[i], n) \in StockRow
  BY StockStatementsTyped, ReservationsAssumption DEF StockIInv, TypeOK
<1>2. TypeOK'
  BY <1>1 DEF StockIInv, TypeOK, UpdateInventory
<1>3. GoneMeansFreed' /\ WritersHaveFreed'
  BY DEF StockIInv, UpdateInventory, GoneMeansFreed, WritersHaveFreed
<1>4. QED
  BY <1>2, <1>3 DEF StockIInv

LEMMA AbortIInv ==
  ASSUME StockIInv, NEW h \in Handlers, Abort(h)
  PROVE  StockIInv'
<1> DEFINE row == handlers[h].row
<1>1. row.item \in Items /\ row.quantity \in Nat
  BY DEF StockIInv, TypeOK, Handler, Reservation
<1>2. leaked' \in [Items -> Nat]
  BY <1>1 DEF Abort, StockIInv, TypeOK
<1>3. faults' \in 0..MaxFaults
  BY ReservationsAssumption DEF Abort, StockIInv, TypeOK
<1>4. QED
  BY <1>2, <1>3, GotoIInv, LoopWellPlaced DEF Abort

LEMMA SkipFailedIInv ==
  ASSUME StockIInv, NEW h \in Handlers, SkipFailed(h)
  PROVE  StockIInv'
<1>1. PICK todo \in SUBSET Resvs : Goto(h, Loop("sweep", todo))
  <2>1. handlers[h].todo \in SUBSET Resvs
    BY DEF StockIInv, TypeOK, Handler
  <2>2. CASE handlers[h].at # "read"
    BY <2>1, <2>2 DEF SkipFailed
  <2>3. CASE handlers[h].at = "read"
    <3>1. PICK r \in handlers[h].todo : Goto(h, Loop("sweep", handlers[h].todo \ {r}))
      BY <2>3 DEF SkipFailed
    <3>2. QED
      BY <2>1, <3>1
  <2>4. QED
    BY <2>2, <2>3
<1>2. faults' \in 0..MaxFaults
  BY ReservationsAssumption DEF SkipFailed, StockIInv, TypeOK
<1>3. QED
  BY <1>1, <1>2, GotoIInv, LoopWellPlaced DEF SkipFailed, StockIInv, TypeOK

(* Every step, taken by whatever handler, preserves the invariant.          *)

LEMMA NextIInv ==
  ASSUME StockIInv, [Next]_vars
  PROVE  StockIInv'
<1>1. CASE \E h \in Requests : RequestStep(h)
  <2>1. PICK h \in Requests : RequestStep(h)
    BY <1>1
  <2>2. h \in Handlers
    BY DEF Handlers
  <2>3. QED
    BY <2>1, <2>2, CreateIInv, ConfirmIInv, ReleaseIInv, ReleaseByOwnerIInv DEF RequestStep
<1>2. CASE \E h \in Sweepers : FindExpired(h)
  BY <1>2, FindExpiredIInv DEF Handlers
<1>3. CASE \E h \in Handlers : Continue(h) \/ Abort(h) \/ SkipFailed(h)
  <2>1. PICK h \in Handlers : Continue(h) \/ Abort(h) \/ SkipFailed(h)
    BY <1>3
  <2>2. CASE Continue(h)
    BY <2>2, InsertIInv, WriteConfirmedIInv, FreeStockIInv, MarkReleasedIInv,
       VisitNextIInv, MarkExpiredIInv DEF Continue
  <2>3. QED
    BY <2>1, <2>2, AbortIInv, SkipFailedIInv
<1>4. CASE \E r \in Resvs : ExpiryPasses(r)
  BY <1>4, ExpiryPassesIInv
<1>5. CASE \E i \in Items, n \in Counts : UpdateInventory(i, n)
  BY <1>5, UpdateInventoryIInv
<1>6. CASE UNCHANGED vars
  BY <1>6 DEF vars, StockIInv, TypeOK, GoneMeansFreed, WritersHaveFreed
<1>7. QED
  BY <1>1, <1>2, <1>3, <1>4, <1>5, <1>6 DEF Next

(* StockIInv holds in every state of every behaviour.                       *)

THEOREM StockInvariant == Spec => []StockIInv
BY InitIInv, NextIInv, PTL DEF Spec

(* The tables and the handlers stay well typed and no stock column is ever  *)
(* negative: what GREATEST(0, ..) and the guard of the reserving UPDATE do. *)

THEOREM ReservationsTyped == Spec => []TypeOK
<1>1. StockIInv => TypeOK
  BY DEF StockIInv
<1>2. QED
  BY <1>1, StockInvariant, PTL

(* A reservation that is 'released' or 'expired' had its stock given back,  *)
(* however requests, clean-up ticks and failures interleave.                *)

THEOREM ReservationsFreeBeforeGone == Spec => []GoneMeansFreed
<1>1. StockIInv => GoneMeansFreed
  BY DEF StockIInv
<1>2. QED
  BY <1>1, StockInvariant, PTL

-----------------------------------------------------------------------------
(* Only an administrator can overdraw a row.                                *)

OverdrawnHere ==
  \A i \in Items :
    /\ inventory[i].reserved <= inventory[i].quantity
    /\ inventory'[i].reserved > inventory'[i].quantity
    => inventory'[i].quantity < inventory[i].quantity

(* The conditional UPDATE and the giving back never overdraw a row.         *)

LEMMA StatementsDoNotOverdraw ==
  ASSUME NEW row \in StockRow, NEW q \in Nat
  PROVE  /\ CanReserve(row, q) => Reserve(row, q).reserved <= Reserve(row, q).quantity
         /\ row.reserved <= row.quantity => GiveBack(row, q).reserved <= GiveBack(row, q).quantity
         /\ SetQuantity(row, q).reserved = row.reserved /\ SetQuantity(row, q).quantity = q
BY DEF StockRow, CanReserve, Reserve, GiveBack, SetQuantity

LEMMA NextOverdrawn ==
  ASSUME TypeOK, [Next]_vars
  PROVE  OverdrawnHere
<1>1. ASSUME NEW h \in Handlers, NEW i \in Items, NEW q \in Quantities, NEW o \in Owners,
             CreateReservation(h, i, q, o)
      PROVE  OverdrawnHere
  <2>1. q \in Nat /\ inventory[i] \in StockRow
    BY ReservationsAssumption DEF TypeOK
  <2>2. inventory' = [inventory EXCEPT ![i] = Reserve(@, q)] /\ CanReserve(inventory[i], q)
    BY <1>1 DEF CreateReservation
  <2>3. Reserve(inventory[i], q) \in StockRow
        /\ Reserve(inventory[i], q).reserved <= Reserve(inventory[i], q).quantity
    BY <2>1, <2>2, StatementsDoNotOverdraw, StockStatementsTyped
  <2>4. QED
    BY <2>2, <2>3 DEF OverdrawnHere, TypeOK, StockRow
<1>2. ASSUME NEW h \in Handlers, FreeStock(h)
      PROVE  OverdrawnHere
  <2> DEFINE row == handlers[h].row
  <2>1. row.item \in Items /\ row.quantity \in Nat /\ inventory[row.item] \in StockRow
    BY DEF TypeOK, Handler, Reservation
  <2>2. inventory' = [inventory EXCEPT ![row.item] = GiveBack(@, row.quantity)]
    BY <1>2 DEF FreeStock
  <2> HIDE DEF row
  <2>3. LET after == GiveBack(inventory[row.item], row.quantity) IN
        /\ after \in StockRow
        /\ inventory[row.item].reserved <= inventory[row.item].quantity
             => after.reserved <= after.quantity
    BY <2>1, StatementsDoNotOverdraw, StockStatementsTyped
  <2>4. QED
    BY <2>1, <2>2, <2>3 DEF OverdrawnHere, TypeOK, StockRow
<1>3. ASSUME NEW i \in Items, NEW n \in Counts, UpdateInventory(i, n)
      PROVE  OverdrawnHere
  <2>1. n \in Nat /\ inventory[i] \in StockRow
    BY ReservationsAssumption DEF TypeOK
  <2>2. inventory' = [inventory EXCEPT ![i] = SetQuantity(@, n)]
    BY <1>3 DEF UpdateInventory
  <2>3. SetQuantity(inventory[i], n).reserved = inventory[i].reserved
        /\ SetQuantity(inventory[i], n).quantity = n
    BY <2>1, StatementsDoNotOverdraw
  <2>4. QED
    BY <2>1, <2>2, <2>3 DEF OverdrawnHere, TypeOK, StockRow
<1>4. ASSUME UNCHANGED inventory
      PROVE  OverdrawnHere
  BY <1>4 DEF OverdrawnHere, TypeOK, StockRow
<1>5. CASE \E h \in Requests : RequestStep(h)
  BY <1>1, <1>4, <1>5 DEF RequestStep, ConfirmReservation, ReleaseReservation,
     ReleaseByOwner, Handlers
<1>6. CASE \E h \in Handlers : Continue(h)
  BY <1>2, <1>4, <1>6 DEF Continue, InsertReservation, WriteConfirmed, MarkReleased,
     VisitNext, MarkExpired
<1>7. CASE \E h \in Sweepers : FindExpired(h)
  BY <1>4, <1>7 DEF FindExpired
<1>8. CASE \E h \in Handlers : Abort(h) \/ SkipFailed(h)
  BY <1>4, <1>8 DEF Abort, SkipFailed
<1>9. CASE \E r \in Resvs : ExpiryPasses(r)
  BY <1>4, <1>9 DEF ExpiryPasses
<1>10. CASE \E i \in Items, n \in Counts : UpdateInventory(i, n)
  BY <1>3, <1>10
<1>11. CASE UNCHANGED vars
  BY <1>4, <1>11 DEF vars
<1>12. QED
  BY <1>5, <1>6, <1>7, <1>8, <1>9, <1>10, <1>11 DEF Next

(* Reservations never overdraw a row, whatever the races and failures.      *)

THEOREM ReservationsNeverOverdraw == Spec => OverdrawnOnlyByAdjustment
<1>1. TypeOK /\ [Next]_vars => [OverdrawnHere]_vars
  BY NextOverdrawn
<1>2. QED
  BY <1>1, ReservationsTyped, PTL DEF Spec, OverdrawnOnlyByAdjustment, OverdrawnHere

-----------------------------------------------------------------------------
(* Handlers know the rows they act on.                                      *)

LEMMA InitKnows == Init => HandlersKnowTheirRows
BY IdleTyped DEF Init, HandlersKnowTheirRows, Knows, Exists, Idle

(* Rows stay, with their item and quantity, and only rows are freed.        *)

RowsStay ==
  /\ \A r \in Resvs : Exists(r) =>
       /\ Exists(r)'
       /\ reservations'[r].item = reservations[r].item
       /\ reservations'[r].quantity = reservations[r].quantity
  /\ \A r \in Resvs : ~Exists(r)' => frees'[r] = 0

LEMMA KnowsIInv ==
  ASSUME StockIInv, StockIInv', HandlersKnowTheirRows, RowsStay,
         NEW h \in Handlers, NEW state, Goto(h, state), Knows(state)
  PROVE  HandlersKnowTheirRows'
<1>1. handlers'[h] = state /\ \A g \in Handlers \ {h} : handlers'[g] = handlers[g]
  BY DEF StockIInv, TypeOK, Goto
<1>2. ASSUME NEW g \in Handlers
      PROVE  Knows(handlers[g])'
  <2>1. Knows(handlers'[g])
    BY <1>1 DEF HandlersKnowTheirRows
  <2>2. handlers'[g] \in Handler
    BY DEF StockIInv, TypeOK
  <2>3. handlers'[g].at \in {"confirm", "free", "mark", "expire"} => handlers'[g].id \in Resvs
    BY DEF StockIInv, WritersHaveFreed
  <2>4. handlers'[g].todo \subseteq Resvs
    BY <2>2 DEF Handler
  <2> QED BY <2>1, <2>3, <2>4 DEF RowsStay, Knows
<1> QED BY <1>2 DEF HandlersKnowTheirRows, RowsStay

(* The three kinds of step that keep the rows.                              *)

LEMMA TablesStay ==
  ASSUME HandlersKnowTheirRows, UNCHANGED <<reservations, frees>>
  PROVE  RowsStay
BY DEF HandlersKnowTheirRows, RowsStay, Exists

LEMMA StatusStays ==
  ASSUME StockIInv, HandlersKnowTheirRows, NEW r \in Resvs, NEW s \in Status \ {"none"},
         SetStatus(r, s), UNCHANGED frees
  PROVE  RowsStay
<1>1. \A q \in Resvs : /\ reservations'[q].item = reservations[q].item
                       /\ reservations'[q].quantity = reservations[q].quantity
                       /\ reservations'[q].status \in {reservations[q].status, s}
  BY DEF StockIInv, TypeOK, Reservation, SetStatus
<1> QED BY <1>1 DEF HandlersKnowTheirRows, RowsStay, Exists

LEMMA LoopKnows ==
  /\ Knows(Idle)
  /\ \A op \in {"batch", "sweep"} : \A todo :
       (\A r \in todo : Exists(r)) => Knows(Loop(op, todo))
<1>1. Knows(Idle)
  BY DEF Knows, Idle
<1>2. ASSUME NEW op \in {"batch", "sweep"}, NEW todo, \A r \in todo : Exists(r)
      PROVE  Knows(Loop(op, todo))
  BY <1>2 DEF Knows, Loop, Idle
<1> QED BY <1>1, <1>2

LEMMA CreateKnows ==
  ASSUME StockIInv, StockIInv', HandlersKnowTheirRows, NEW h \in Handlers, NEW i \in Items,
         NEW q \in Quantities, NEW o \in Owners, CreateReservation(h, i, q, o)
  PROVE  HandlersKnowTheirRows'
<1> DEFINE row == [status |-> "pending", item |-> i, quantity |-> q, owner |-> o, due |-> FALSE]
           state == [Idle EXCEPT !.op = "create", !.at = "insert", !.row = row]
<1>1. Knows(state)
  BY DEF Knows, Idle
<1>2. Goto(h, state) /\ RowsStay
  BY TablesStay DEF CreateReservation
<1> HIDE DEF state
<1> QED BY <1>1, <1>2, KnowsIInv

LEMMA InsertKnows ==
  ASSUME StockIInv, StockIInv', HandlersKnowTheirRows, NEW h \in Handlers, InsertReservation(h)
  PROVE  HandlersKnowTheirRows'
<1>1. PICK r \in Resvs : ~Exists(r) /\ reservations' = [reservations EXCEPT ![r] = handlers[h].row]
  BY DEF InsertReservation
<1>2. handlers[h].row.status # "none"
  BY DEF StockIInv, WritersHaveFreed, InsertReservation
<1>3. RowsStay
  BY <1>1, <1>2 DEF InsertReservation, RowsStay, HandlersKnowTheirRows, Exists, StockIInv, TypeOK
<1> QED BY <1>3, KnowsIInv, LoopKnows DEF InsertReservation

LEMMA ConfirmKnows ==
  ASSUME StockIInv, StockIInv', HandlersKnowTheirRows, NEW h \in Handlers, NEW r \in Resvs,
         ConfirmReservation(h, r)
  PROVE  HandlersKnowTheirRows'
<1> DEFINE state == [Idle EXCEPT !.op = "confirm", !.at = "confirm", !.id = r]
<1>1. Knows(state)
  BY DEF Knows, Idle, ConfirmReservation, Exists
<1>2. Goto(h, state) /\ RowsStay
  BY TablesStay DEF ConfirmReservation
<1> HIDE DEF state
<1> QED BY <1>1, <1>2, KnowsIInv

LEMMA WriteConfirmedKnows ==
  ASSUME StockIInv, StockIInv', HandlersKnowTheirRows, NEW h \in Handlers, WriteConfirmed(h)
  PROVE  HandlersKnowTheirRows'
<1>1. handlers[h].id \in Resvs
  BY DEF WriteConfirmed, StockIInv, WritersHaveFreed
<1>2. RowsStay
  BY <1>1, StatusStays DEF WriteConfirmed, Status, Held
<1> QED BY <1>2, KnowsIInv, LoopKnows DEF WriteConfirmed

LEMMA ReleaseKnows ==
  ASSUME StockIInv, StockIInv', HandlersKnowTheirRows, NEW h \in Handlers, NEW r \in Resvs,
         ReleaseReservation(h, r)
  PROVE  HandlersKnowTheirRows'
<1>1. RowsStay
  BY TablesStay DEF ReleaseReservation
<1>2. Knows(AboutToFree("release", r, {}))
  BY DEF ReleaseReservation, AboutToFree, Knows
<1> QED BY <1>1, <1>2, KnowsIInv DEF ReleaseReservation

LEMMA FreeStockKnows ==
  ASSUME StockIInv, StockIInv', HandlersKnowTheirRows, NEW h \in Handlers, FreeStock(h)
  PROVE  HandlersKnowTheirRows'
<1> DEFINE state == [handlers[h] EXCEPT !.at = "mark"]
<1>1. handlers[h] \in Handler /\ handlers[h].id \in Resvs /\ Exists(handlers[h].id)
      /\ \A r \in handlers[h].todo : Exists(r)
  BY DEF FreeStock, StockIInv, TypeOK, WritersHaveFreed, HandlersKnowTheirRows, Knows
<1>2. state.todo = handlers[h].todo /\ state.id = handlers[h].id /\ state.at = "mark"
  BY <1>1 DEF Handler
<1>3. Goto(h, state)
  BY DEF FreeStock
<1> HIDE DEF state
<1>4. Knows(state)
  BY <1>1, <1>2 DEF Knows
<1>5. RowsStay
  BY <1>1 DEF FreeStock, RowsStay, HandlersKnowTheirRows, Exists, StockIInv, TypeOK
<1> QED BY <1>3, <1>4, <1>5, KnowsIInv

LEMMA MarkReleasedKnows ==
  ASSUME StockIInv, StockIInv', HandlersKnowTheirRows, NEW h \in Handlers, MarkReleased(h)
  PROVE  HandlersKnowTheirRows'
<1> DEFINE state == [handlers[h] EXCEPT !.at = "expire"]
<1>1. handlers[h] \in Handler /\ handlers[h].id \in Resvs /\ Exists(handlers[h].id)
      /\ \A r \in handlers[h].todo : Exists(r)
  BY DEF MarkReleased, StockIInv, TypeOK, WritersHaveFreed, HandlersKnowTheirRows, Knows
<1>2. Knows(state)
  BY <1>1 DEF Knows, Handler
<1>3. Knows(AfterRelease(h))
  BY <1>1, <1>2, LoopKnows DEF AfterRelease
<1>4. RowsStay
  BY <1>1, StatusStays DEF MarkReleased, Status, Held
<1> QED BY <1>3, <1>4, KnowsIInv DEF MarkReleased

LEMMA ReleaseByOwnerKnows ==
  ASSUME StockIInv, StockIInv', HandlersKnowTheirRows, NEW h \in Handlers, NEW o \in Owners,
         ReleaseByOwner(h, o)
  PROVE  HandlersKnowTheirRows'
<1>1. PICK found : Goto(h, Loop("batch", found)) /\ \A r \in found : Exists(r)
  BY DEF ReleaseByOwner, Exists
<1>2. RowsStay
  BY TablesStay DEF ReleaseByOwner
<1> QED BY <1>1, <1>2, KnowsIInv, LoopKnows

LEMMA FindExpiredKnows ==
  ASSUME StockIInv, StockIInv', HandlersKnowTheirRows, NEW h \in Handlers, FindExpired(h)
  PROVE  HandlersKnowTheirRows'
<1>1. PICK found : Goto(h, Loop("sweep", found)) /\ \A r \in found : Exists(r)
  BY DEF FindExpired, Exists
<1>2. RowsStay
  BY TablesStay DEF FindExpired
<1> QED BY <1>1, <1>2, KnowsIInv, LoopKnows

LEMMA VisitNextKnows ==
  ASSUME StockIInv, StockIInv', HandlersKnowTheirRows, NEW h \in Handlers, VisitNext(h)
  PROVE  HandlersKnowTheirRows'
<1> DEFINE op == handlers[h].op
<1>1. PICK r \in handlers[h].todo :
        Goto(h, IF reservations[r].status # "released"
                THEN AboutToFree(op, r, handlers[h].todo \ {r})
                ELSE IF op = "batch" THEN Loop(op, handlers[h].todo \ {r})
                ELSE [Idle EXCEPT !.op = op, !.at = "expire", !.id = r,
                                  !.todo = handlers[h].todo \ {r}])
  BY DEF VisitNext
<1>2. op \in {"batch", "sweep"} /\ r \in Resvs /\ Exists(r)
      /\ \A q \in handlers[h].todo \ {r} : Exists(q)
  BY DEF VisitNext, StockIInv, TypeOK, Handler, WritersHaveFreed, HandlersKnowTheirRows, Knows
<1>3. RowsStay
  BY TablesStay DEF VisitNext
<1>4. Knows(AboutToFree(op, r, handlers[h].todo \ {r})) /\ Knows(Loop(op, handlers[h].todo \ {r}))
  BY <1>2 DEF Knows, AboutToFree, Loop, Idle
<1>5. Knows([Idle EXCEPT !.op = op, !.at = "expire", !.id = r, !.todo = handlers[h].todo \ {r}])
  BY <1>2 DEF Knows, Idle
<1>6. CASE reservations[r].status # "released"
  BY <1>1, <1>3, <1>4, <1>6, KnowsIInv
<1>7. CASE reservations[r].status = "released"
  BY <1>1, <1>3, <1>4, <1>5, <1>7, KnowsIInv
<1> QED BY <1>6, <1>7

LEMMA MarkExpiredKnows ==
  ASSUME StockIInv, StockIInv', HandlersKnowTheirRows, NEW h \in Handlers, MarkExpired(h)
  PROVE  HandlersKnowTheirRows'
<1>1. handlers[h].id \in Resvs /\ \A r \in handlers[h].todo : Exists(r)
  BY DEF MarkExpired, StockIInv, WritersHaveFreed, HandlersKnowTheirRows, Knows
<1>2. RowsStay
  BY <1>1, StatusStays DEF MarkExpired, Status, Held
<1> QED BY <1>1, <1>2, KnowsIInv, LoopKnows DEF MarkExpired

LEMMA AbortKnows ==
  ASSUME StockIInv, StockIInv', HandlersKnowTheirRows, NEW h \in Handlers, Abort(h) \/ SkipFailed(h)
  PROVE  HandlersKnowTheirRows'
<1>1. RowsStay
  BY TablesStay DEF Abort, SkipFailed
<1>2. \A r \in handlers[h].todo : Exists(r)
  BY DEF HandlersKnowTheirRows, Knows
<1>3. CASE Abort(h)
  BY <1>1, <1>3, KnowsIInv, LoopKnows DEF Abort
<1>4. CASE SkipFailed(h)
  <2>1. PICK todo : Goto(h, Loop("sweep", todo)) /\ todo \subseteq handlers[h].todo
    <3>1. CASE handlers[h].at # "read"
      BY <1>4, <3>1 DEF SkipFailed
    <3>2. CASE handlers[h].at = "read"
      <4>1. PICK r \in handlers[h].todo : Goto(h, Loop("sweep", handlers[h].todo \ {r}))
        BY <1>4, <3>2 DEF SkipFailed
      <4> QED BY <4>1
    <3> QED BY <3>1, <3>2
  <2> QED BY <1>1, <1>2, <2>1, KnowsIInv, LoopKnows
<1> QED BY <1>3, <1>4

LEMMA NextKnows ==
  ASSUME StockIInv, StockIInv', HandlersKnowTheirRows, [Next]_vars
  PROVE  HandlersKnowTheirRows'
<1>1. CASE \E h \in Requests : RequestStep(h)
  <2>1. PICK h \in Requests : RequestStep(h)
    BY <1>1
  <2>2. h \in Handlers
    BY DEF Handlers
  <2> QED BY <2>1, <2>2, CreateKnows, ConfirmKnows, ReleaseKnows, ReleaseByOwnerKnows DEF RequestStep
<1>2. CASE \E h \in Sweepers : FindExpired(h)
  BY <1>2, FindExpiredKnows DEF Handlers
<1>3. CASE \E h \in Handlers : Continue(h) \/ Abort(h) \/ SkipFailed(h)
  <2>1. PICK h \in Handlers : Continue(h) \/ Abort(h) \/ SkipFailed(h)
    BY <1>3
  <2>2. CASE Continue(h)
    BY <2>2, InsertKnows, WriteConfirmedKnows, FreeStockKnows, MarkReleasedKnows,
       VisitNextKnows, MarkExpiredKnows DEF Continue
  <2> QED BY <2>1, <2>2, AbortKnows
<1>4. CASE \E r \in Resvs : ExpiryPasses(r)
  <2>1. PICK r \in Resvs : ExpiryPasses(r)
    BY <1>4
  <2>2. \A q \in Resvs : /\ reservations'[q].item = reservations[q].item
                         /\ reservations'[q].quantity = reservations[q].quantity
                         /\ reservations'[q].status = reservations[q].status
    BY <2>1 DEF ExpiryPasses, StockIInv, TypeOK, Reservation
  <2>3. \A h \in Handlers : handlers[h].todo \subseteq Resvs
    BY DEF StockIInv, TypeOK, Handler
  <2>4. UNCHANGED <<handlers, frees>>
    BY <2>1 DEF ExpiryPasses
  <2>5. \A h \in Handlers : handlers[h].at \in {"confirm", "free", "mark", "expire"}
                              => handlers[h].id \in Resvs
    BY DEF StockIInv, WritersHaveFreed
  <2> QED BY <2>2, <2>3, <2>4, <2>5 DEF HandlersKnowTheirRows, Knows, Exists
<1>5. CASE \E i \in Items, n \in Counts : UpdateInventory(i, n)
  BY <1>5 DEF UpdateInventory, HandlersKnowTheirRows, Knows, Exists
<1>6. CASE UNCHANGED vars
  BY <1>6 DEF vars, HandlersKnowTheirRows, Knows, Exists
<1> QED BY <1>1, <1>2, <1>3, <1>4, <1>5, <1>6 DEF Next

-----------------------------------------------------------------------------
(* The account of an item.                                                  *)

AccountHolds == ReservedIsAccountedFor /\ ShortfallOnlyFromDoubleFree

(* The parts of the account are natural numbers.                            *)

LEMMA PartsTyped ==
  ASSUME TypeOK, NEW i \in Items
  PROVE  /\ UnfreedUnits(i) \in [Resvs -> Nat] /\ InFlightUnits(i) \in [Handlers -> Nat]
         /\ Unfreed(i) \in Nat /\ InFlight(i) \in Nat
         /\ inventory[i].reserved \in Nat /\ leaked[i] \in Nat
         /\ \A r \in Resvs : UnfreedUnits(i)[r] <= Unfreed(i)
<1>1. UnfreedUnits(i) \in [Resvs -> Nat] /\ InFlightUnits(i) \in [Handlers -> Nat]
  BY DEF TypeOK, UnfreedUnits, InFlightUnits, Reservation, Handler
<1>2. IsFiniteSet(Resvs) /\ IsFiniteSet(Handlers)
  BY ReservationsAssumption DEF Handlers
<1>3. Unfreed(i) \in Nat /\ \A r \in Resvs : UnfreedUnits(i)[r] <= Unfreed(i)
  BY <1>1, <1>2, SumBounds DEF Unfreed
<1>4. InFlight(i) \in Nat
  BY <1>1, <1>2, SumBounds DEF InFlight
<1> QED BY <1>1, <1>3, <1>4 DEF TypeOK, StockRow

(* A step that touches one reservation, or one handler, changes the sums by *)
(* the change of that one.                                                  *)

LEMMA UnfreedChange ==
  ASSUME TypeOK, TypeOK', NEW i \in Items, NEW r \in Resvs,
         \A s \in Resvs \ {r} : reservations'[s] = reservations[s] /\ frees'[s] = frees[s]
  PROVE  /\ Unfreed(i)' = Unfreed(i) - UnfreedUnits(i)[r] + UnfreedUnits(i)'[r]
         /\ Unfreed(i)' \in Nat /\ Unfreed(i) \in Nat
         /\ UnfreedUnits(i)[r] \in Nat /\ UnfreedUnits(i)'[r] \in Nat
<1>1. UnfreedUnits(i) \in [Resvs -> Nat] /\ UnfreedUnits(i)' \in [Resvs -> Nat]
  BY DEF TypeOK, UnfreedUnits, Reservation
<1>2. \A s \in Resvs \ {r} : UnfreedUnits(i)'[s] = UnfreedUnits(i)[s]
  BY DEF UnfreedUnits, Exists
<1>3. IsFiniteSet(Resvs)
  BY ReservationsAssumption
<1>4. PICK f \in [Resvs -> Nat], g \in [Resvs -> Nat] :
        f = UnfreedUnits(i) /\ g = UnfreedUnits(i)'
  BY <1>1
<1>5. SumFunction(g) = SumFunction(f) - f[r] + g[r]
  BY <1>2, <1>3, <1>4, SumChange
<1>6. SumFunction(f) \in Nat /\ SumFunction(g) \in Nat
  BY <1>3, SumBounds
<1> QED BY <1>1, <1>4, <1>5, <1>6 DEF Unfreed

LEMMA InFlightChange ==
  ASSUME TypeOK, TypeOK', NEW i \in Items, NEW h \in Handlers,
         \A g \in Handlers \ {h} : handlers'[g] = handlers[g]
  PROVE  /\ InFlight(i)' = InFlight(i) - InFlightUnits(i)[h] + InFlightUnits(i)'[h]
         /\ InFlight(i)' \in Nat /\ InFlight(i) \in Nat
         /\ InFlightUnits(i)[h] \in Nat /\ InFlightUnits(i)'[h] \in Nat
<1>1. InFlightUnits(i) \in [Handlers -> Nat] /\ InFlightUnits(i)' \in [Handlers -> Nat]
  BY DEF TypeOK, InFlightUnits, Handler, Reservation
<1>2. \A s \in Handlers \ {h} : InFlightUnits(i)'[s] = InFlightUnits(i)[s]
  BY DEF InFlightUnits
<1>3. IsFiniteSet(Handlers)
  BY ReservationsAssumption DEF Handlers
<1>4. PICK f \in [Handlers -> Nat], g \in [Handlers -> Nat] :
        f = InFlightUnits(i) /\ g = InFlightUnits(i)'
  BY <1>1
<1>5. SumFunction(g) = SumFunction(f) - f[h] + g[h]
  BY <1>2, <1>3, <1>4, SumChange
<1>6. SumFunction(f) \in Nat /\ SumFunction(g) \in Nat
  BY <1>3, SumBounds
<1> QED BY <1>1, <1>4, <1>5, <1>6 DEF InFlight

(* Reservations that are no rows, and handlers that insert nothing, count   *)
(* for nothing: at the start the account is empty.                          *)

LEMMA InitAccount == Init => AccountHolds
<1> SUFFICES ASSUME Init, NEW i \in Items
             PROVE  inventory[i].reserved = 0 /\ Unfreed(i) = 0 /\ InFlight(i) = 0 /\ leaked[i] = 0
  BY DEF AccountHolds, ReservedIsAccountedFor, ShortfallOnlyFromDoubleFree
<1>1. inventory[i].reserved = 0 /\ leaked[i] = 0
  BY DEF Init
<1>2. \A r \in Resvs : UnfreedUnits(i)[r] = 0
  BY IdleTyped DEF Init, UnfreedUnits, Exists
<1>3. \A h \in Handlers : InFlightUnits(i)[h] = 0
  BY IdleTyped DEF Init, InFlightUnits
<1>4. DOMAIN UnfreedUnits(i) = Resvs /\ DOMAIN InFlightUnits(i) = Handlers
  BY DEF UnfreedUnits, InFlightUnits
<1>5. IsFiniteSet(Resvs) /\ IsFiniteSet(Handlers)
  BY ReservationsAssumption DEF Handlers
<1>6. Unfreed(i) = 0
  BY <1>2, <1>4, <1>5, SumZero DEF Unfreed, SumFunction
<1>7. InFlight(i) = 0
  BY <1>3, <1>4, <1>5, SumZero DEF InFlight, SumFunction
<1> QED BY <1>1, <1>6, <1>7

(* The account of each item follows from its parts and from its doubly      *)
(* freed reservations.                                                      *)

DoublyFreed(i) == \E r \in Resvs : reservations[r].item = i /\ frees[r] > 1

Balanced(i) ==
  LET owed == Unfreed(i) + InFlight(i) + leaked[i] IN
  /\ inventory[i].reserved <= owed
  /\ inventory[i].reserved < owed => DoublyFreed(i)

LEMMA AccountIsBalance == AccountHolds <=> \A i \in Items : Balanced(i)
BY DEF AccountHolds, ReservedIsAccountedFor, ShortfallOnlyFromDoubleFree, Balanced, DoublyFreed

(* A step that moves no unit: neither the reserved units nor what the       *)
(* reservations, the frees and the insertions say of units changes.         *)

LEMMA QuietAccount ==
  ASSUME TypeOK, TypeOK', AccountHolds,
         \A r \in Resvs : /\ Exists(r)' <=> Exists(r)
                         /\ reservations'[r].item = reservations[r].item
                         /\ reservations'[r].quantity = reservations[r].quantity,
         \A h \in Handlers : handlers'[h] # handlers[h] =>
           handlers[h].at # "insert" /\ handlers'[h].at # "insert",
         \A i \in Items : inventory'[i].reserved = inventory[i].reserved,
         UNCHANGED <<frees, leaked>>
  PROVE  AccountHolds'
<1> SUFFICES ASSUME NEW i \in Items PROVE Balanced(i)'
  BY DEF AccountHolds, ReservedIsAccountedFor, ShortfallOnlyFromDoubleFree, Balanced, DoublyFreed
<1>1. UnfreedUnits(i)' = UnfreedUnits(i)
  BY DEF UnfreedUnits
<1>2. InFlightUnits(i)' = InFlightUnits(i)
  BY DEF InFlightUnits
<1>3. Unfreed(i)' = Unfreed(i) /\ InFlight(i)' = InFlight(i)
  BY <1>1, <1>2 DEF Unfreed, InFlight
<1>4. Balanced(i)
  BY AccountIsBalance
<1>5. DoublyFreed(i) => DoublyFreed(i)'
  BY DEF DoublyFreed
<1> QED BY <1>3, <1>4, <1>5 DEF Balanced

(* createReservation: the units it reserves are in flight until the INSERT, *)
(* and belong to the reservation from then on.                              *)

LEMMA CreateAccount ==
  ASSUME TypeOK, TypeOK', AccountHolds, NEW h \in Handlers, NEW i \in Items,
         NEW q \in Quantities, NEW o \in Owners, CreateReservation(h, i, q, o)
  PROVE  AccountHolds'
<1> SUFFICES ASSUME NEW j \in Items PROVE Balanced(j)'
  BY DEF AccountHolds, ReservedIsAccountedFor, ShortfallOnlyFromDoubleFree, Balanced, DoublyFreed
<1>1. q \in Nat /\ inventory[i] \in StockRow
  BY ReservationsAssumption DEF TypeOK
<1>2. inventory'[j].reserved = inventory[j].reserved + (IF i = j THEN q ELSE 0)
  BY <1>1, StockStatementsReserved DEF CreateReservation, TypeOK, StockRow
<1>3. InFlightUnits(j)[h] = 0 /\ InFlightUnits(j)'[h] = IF i = j THEN q ELSE 0
  BY <1>1, IdleTyped DEF CreateReservation, TypeOK, Goto, InFlightUnits, Idle
<1>4. \A g \in Handlers \ {h} : handlers'[g] = handlers[g]
  BY DEF CreateReservation, Goto, TypeOK
<1>5. InFlight(j)' = InFlight(j) + (IF i = j THEN q ELSE 0) /\ InFlight(j) \in Nat
  <2> HIDE DEF InFlight, InFlightUnits
  <2> QED BY <1>1, <1>3, <1>4, InFlightChange
<1>6. Unfreed(j)' = Unfreed(j) /\ (DoublyFreed(j) => DoublyFreed(j)')
  BY DEF Unfreed, UnfreedUnits, Exists, CreateReservation, DoublyFreed
<1>7. leaked' = leaked /\ inventory[j].reserved \in Nat /\ leaked[j] \in Nat /\ Unfreed(j) \in Nat
  BY PartsTyped DEF CreateReservation
<1>8. Balanced(j)
  BY AccountIsBalance
<1> QED BY <1>1, <1>2, <1>5, <1>6, <1>7, <1>8 DEF Balanced

LEMMA InsertAccount ==
  ASSUME StockIInv, StockIInv', HandlersKnowTheirRows, AccountHolds,
         NEW h \in Handlers, InsertReservation(h)
  PROVE  AccountHolds'
<1> SUFFICES ASSUME NEW j \in Items PROVE Balanced(j)'
  BY DEF AccountHolds, ReservedIsAccountedFor, ShortfallOnlyFromDoubleFree, Balanced, DoublyFreed
<1> DEFINE row == handlers[h].row
           q == IF row.item = j THEN row.quantity ELSE 0
<1>1. PICK r \in Resvs : ~Exists(r) /\ reservations' = [reservations EXCEPT ![r] = row]
  BY DEF InsertReservation
<1>2. row.quantity \in Nat /\ row.status # "none" /\ frees[r] = 0 /\ TypeOK /\ TypeOK'
  BY <1>1 DEF StockIInv, TypeOK, Handler, Reservation, WritersHaveFreed, InsertReservation,
     HandlersKnowTheirRows
<1>3. UnfreedUnits(j)[r] = 0 /\ UnfreedUnits(j)'[r] = q
  BY <1>1, <1>2 DEF UnfreedUnits, Exists, InsertReservation, TypeOK
<1>4. InFlightUnits(j)[h] = q /\ InFlightUnits(j)'[h] = 0
  BY <1>2, IdleTyped DEF InFlightUnits, InsertReservation, Goto, TypeOK
<1>5. \A s \in Resvs \ {r} : reservations'[s] = reservations[s] /\ frees'[s] = frees[s]
  BY <1>1, <1>2 DEF InsertReservation, TypeOK
<1>6. \A g \in Handlers \ {h} : handlers'[g] = handlers[g]
  BY <1>2 DEF InsertReservation, Goto, TypeOK
<1>7. DoublyFreed(j) => DoublyFreed(j)'
  BY <1>1, <1>2 DEF DoublyFreed, InsertReservation, TypeOK
<1>8. leaked' = leaked /\ inventory' = inventory /\ inventory[j].reserved \in Nat /\ leaked[j] \in Nat
  BY <1>2, PartsTyped DEF InsertReservation
<1>9. Balanced(j)
  BY AccountIsBalance
<1> HIDE DEF q
<1>10. Unfreed(j)' = Unfreed(j) + q /\ Unfreed(j) \in Nat /\ q \in Nat
  BY <1>2, <1>3, <1>5, UnfreedChange
<1>11. InFlight(j)' = InFlight(j) - q /\ InFlight(j) \in Nat /\ InFlight(j)' \in Nat
  BY <1>2, <1>4, <1>6, InFlightChange
<1> QED BY <1>7, <1>8, <1>9, <1>10, <1>11 DEF Balanced

(* Giving the units of a reservation back: once they leave both sides of    *)
(* the account, and from the second time on the reservation is the excuse   *)
(* for what the row lacks.                                                  *)

LEMMA FreeStockAccount ==
  ASSUME StockIInv, StockIInv', HandlersKnowTheirRows, AccountHolds,
         NEW h \in Handlers, FreeStock(h)
  PROVE  AccountHolds'
<1> SUFFICES ASSUME NEW j \in Items PROVE Balanced(j)'
  BY DEF AccountHolds, ReservedIsAccountedFor, ShortfallOnlyFromDoubleFree, Balanced, DoublyFreed
<1>1. PICK r \in Resvs, i \in Items, q \in Nat :
        /\ r = handlers[h].id /\ i = handlers[h].row.item /\ q = handlers[h].row.quantity
        /\ Exists(r) /\ i = reservations[r].item /\ q = reservations[r].quantity
  BY DEF FreeStock, StockIInv, TypeOK, Handler, Reservation, WritersHaveFreed,
     HandlersKnowTheirRows, Knows
<1>2. TypeOK /\ TypeOK' /\ inventory[i] \in StockRow
  BY DEF StockIInv, TypeOK
<1>3. frees' = [frees EXCEPT ![r] = IF @ = MaxFrees THEN @ ELSE @ + 1]
  BY <1>1 DEF FreeStock
<1>4. /\ i # j => inventory'[j].reserved = inventory[j].reserved
      /\ i = j => inventory'[j].reserved =
                    IF inventory[j].reserved > q THEN inventory[j].reserved - q ELSE 0
  <2>1. inventory' = [inventory EXCEPT ![i] = GiveBack(@, q)]
    BY <1>1 DEF FreeStock
  <2> QED BY <1>1, <1>2, <2>1, StockStatementsReserved DEF TypeOK
<1>5. InFlight(j)' = InFlight(j)
  <2>1. InFlightUnits(j)[h] = 0 /\ InFlightUnits(j)'[h] = 0
    BY <1>2 DEF FreeStock, Goto, TypeOK, InFlightUnits, Handler
  <2>2. \A g \in Handlers \ {h} : handlers'[g] = handlers[g]
    BY <1>2 DEF FreeStock, Goto, TypeOK
  <2> QED BY <1>2, <2>1, <2>2, InFlightChange
<1>6. \A s \in Resvs \ {r} : reservations'[s] = reservations[s] /\ frees'[s] = frees[s]
  BY <1>2, <1>3 DEF FreeStock, TypeOK
<1>7. /\ UnfreedUnits(j)[r] = IF i = j /\ frees[r] = 0 THEN q ELSE 0
      /\ UnfreedUnits(j)'[r] = 0
  BY <1>1, <1>2, <1>3 DEF UnfreedUnits, FreeStock, TypeOK, MaxFrees, Exists
<1>8. Unfreed(j)' = Unfreed(j) - (IF i = j /\ frees[r] = 0 THEN q ELSE 0)
      /\ Unfreed(j)' \in Nat /\ Unfreed(j) \in Nat
  BY <1>2, <1>6, <1>7, UnfreedChange
<1>9. leaked' = leaked /\ inventory[j].reserved \in Nat /\ leaked[j] \in Nat /\ InFlight(j) \in Nat
  BY <1>2, PartsTyped DEF FreeStock
<1>10. (DoublyFreed(j) => DoublyFreed(j)') /\ (i = j /\ frees[r] # 0 => DoublyFreed(j)')
  BY <1>1, <1>2, <1>3 DEF DoublyFreed, FreeStock, TypeOK, MaxFrees
<1>11. Balanced(j)
  BY AccountIsBalance
<1>12. CASE i # j
  BY <1>4, <1>5, <1>8, <1>9, <1>10, <1>11, <1>12 DEF Balanced
<1>13. CASE i = j /\ frees[r] # 0
  BY <1>1, <1>4, <1>5, <1>8, <1>9, <1>10, <1>11, <1>13 DEF Balanced
<1>14. CASE i = j /\ frees[r] = 0
  BY <1>1, <1>4, <1>5, <1>8, <1>9, <1>10, <1>11, <1>14 DEF Balanced
<1> QED BY <1>12, <1>13, <1>14

(* A creation that dies before its INSERT leaks the units it reserved.      *)

LEMMA AbortAccount ==
  ASSUME StockIInv, StockIInv', AccountHolds, NEW h \in Handlers, Abort(h)
  PROVE  AccountHolds'
<1> SUFFICES ASSUME NEW j \in Items PROVE Balanced(j)'
  BY DEF AccountHolds, ReservedIsAccountedFor, ShortfallOnlyFromDoubleFree, Balanced, DoublyFreed
<1> DEFINE row == handlers[h].row
           q == IF handlers[h].at = "insert" /\ row.item = j THEN row.quantity ELSE 0
<1>1. row.quantity \in Nat /\ row.item \in Items /\ TypeOK /\ TypeOK'
  BY DEF StockIInv, TypeOK, Handler, Reservation
<1>2. InFlightUnits(j)[h] = q /\ InFlightUnits(j)'[h] = 0
  BY <1>1, IdleTyped DEF InFlightUnits, Abort, Goto, TypeOK
<1>3. \A g \in Handlers \ {h} : handlers'[g] = handlers[g]
  BY <1>1 DEF Abort, Goto, TypeOK
<1>4. leaked'[j] = leaked[j] + q
  BY <1>1 DEF Abort, TypeOK
<1>5. Unfreed(j)' = Unfreed(j) /\ (DoublyFreed(j) => DoublyFreed(j)') /\ inventory' = inventory
  BY DEF Unfreed, UnfreedUnits, Exists, Abort, DoublyFreed
<1>6. inventory[j].reserved \in Nat /\ leaked[j] \in Nat /\ Unfreed(j) \in Nat
  BY <1>1, PartsTyped
<1>7. Balanced(j)
  BY AccountIsBalance
<1> HIDE DEF q
<1>8. InFlight(j)' = InFlight(j) - q /\ InFlight(j) \in Nat /\ InFlight(j)' \in Nat /\ q \in Nat
  BY <1>1, <1>2, <1>3, InFlightChange
<1> QED BY <1>4, <1>5, <1>6, <1>7, <1>8 DEF Balanced

(* Every other step is quiet.  The next two lemmas give QuietAccount what   *)
(* it asks of the handler and of the status that a step changes.            *)

LEMMA QuietGoto ==
  ASSUME TypeOK, TypeOK', AccountHolds, NEW h \in Handlers, NEW state, Goto(h, state),
         handlers[h].at # "insert", state.at # "insert",
         UNCHANGED <<inventory, reservations, frees, leaked>>
  PROVE  AccountHolds'
<1>1. handlers'[h] = state /\ \A g \in Handlers \ {h} : handlers'[g] = handlers[g]
  BY DEF TypeOK, Goto
<1>2. \A g \in Handlers : handlers'[g] # handlers[g] =>
        handlers[g].at # "insert" /\ handlers'[g].at # "insert"
  BY <1>1
<1>3. \A r \in Resvs : Exists(r)' <=> Exists(r)
  BY DEF Exists
<1> QED BY <1>2, <1>3, QuietAccount

LEMMA QuietStatus ==
  ASSUME TypeOK, TypeOK', AccountHolds, NEW h \in Handlers, NEW state, Goto(h, state),
         handlers[h].at # "insert", state.at # "insert",
         NEW r \in Resvs, Exists(r), NEW s \in Status \ {"none"}, SetStatus(r, s),
         UNCHANGED <<inventory, frees, leaked>>
  PROVE  AccountHolds'
<1>1. handlers'[h] = state /\ \A g \in Handlers \ {h} : handlers'[g] = handlers[g]
  BY DEF TypeOK, Goto
<1>2. \A g \in Handlers : handlers'[g] # handlers[g] =>
        handlers[g].at # "insert" /\ handlers'[g].at # "insert"
  BY <1>1
<1>3. \A q \in Resvs : /\ Exists(q)' <=> Exists(q)
                      /\ reservations'[q].item = reservations[q].item
                      /\ reservations'[q].quantity = reservations[q].quantity
  BY DEF Exists, SetStatus, TypeOK, Reservation
<1> QED BY <1>2, <1>3, QuietAccount

LEMMA LoopInsertsNothing ==
  /\ Idle.at # "insert"
  /\ \A op, todo : Loop(op, todo).at # "insert"
  /\ \A op, r, todo : AboutToFree(op, r, todo).at # "insert"
BY DEF Loop, Idle, AboutToFree

LEMMA RequestAccount ==
  ASSUME TypeOK, TypeOK', AccountHolds, NEW h \in Requests, RequestStep(h)
  PROVE  AccountHolds'
<1>1. h \in Handlers
  BY DEF Handlers
<1>2. ASSUME NEW r \in Resvs, ConfirmReservation(h, r)
      PROVE  AccountHolds'
  <2> DEFINE state == [Idle EXCEPT !.op = "confirm", !.at = "confirm", !.id = r]
  <2>1. Goto(h, state) /\ state.at # "insert"
    BY <1>2 DEF ConfirmReservation, Idle
  <2> HIDE DEF state
  <2>2. handlers[h].at # "insert" /\ UNCHANGED <<inventory, reservations, frees, leaked>>
    BY <1>2, LoopInsertsNothing DEF ConfirmReservation
  <2> QED BY <1>1, <2>1, <2>2, QuietGoto
<1>3. ASSUME NEW r \in Resvs, ReleaseReservation(h, r)
      PROVE  AccountHolds'
  <2>1. PICK state : Goto(h, state) /\ state.at # "insert"
    BY <1>3, LoopInsertsNothing DEF ReleaseReservation
  <2>2. handlers[h].at # "insert" /\ UNCHANGED <<inventory, reservations, frees, leaked>>
    BY <1>3, LoopInsertsNothing DEF ReleaseReservation
  <2> QED BY <1>1, <2>1, <2>2, QuietGoto
<1>4. ASSUME NEW o \in Owners, ReleaseByOwner(h, o)
      PROVE  AccountHolds'
  <2>1. PICK state : Goto(h, state) /\ state.at # "insert"
    BY <1>4, LoopInsertsNothing DEF ReleaseByOwner
  <2>2. handlers[h].at # "insert" /\ UNCHANGED <<inventory, reservations, frees, leaked>>
    BY <1>4, LoopInsertsNothing DEF ReleaseByOwner
  <2> QED BY <1>1, <2>1, <2>2, QuietGoto
<1> QED BY <1>1, <1>2, <1>3, <1>4, CreateAccount DEF RequestStep

LEMMA SweepAccount ==
  ASSUME StockIInv, StockIInv', HandlersKnowTheirRows, AccountHolds, NEW h \in Handlers,
         FindExpired(h) \/ VisitNext(h) \/ SkipFailed(h)
  PROVE  AccountHolds'
<1>1. handlers[h].at # "insert" /\ UNCHANGED <<inventory, reservations, frees, leaked>>
  BY LoopInsertsNothing DEF FindExpired, VisitNext, SkipFailed, HandlersKnowTheirRows, Knows
<1>2. PICK state : Goto(h, state) /\ state.at # "insert"
  <2>1. CASE FindExpired(h)
    BY <2>1, LoopInsertsNothing DEF FindExpired
  <2>2. CASE VisitNext(h)
    <3> DEFINE op == handlers[h].op
    <3>1. PICK r : Goto(h, IF reservations[r].status # "released"
                           THEN AboutToFree(op, r, handlers[h].todo \ {r})
                           ELSE IF op = "batch" THEN Loop(op, handlers[h].todo \ {r})
                           ELSE [Idle EXCEPT !.op = op, !.at = "expire", !.id = r,
                                             !.todo = handlers[h].todo \ {r}])
      BY <2>2 DEF VisitNext
    <3>2. [Idle EXCEPT !.op = op, !.at = "expire", !.id = r,
                       !.todo = handlers[h].todo \ {r}].at # "insert"
      BY DEF Idle
    <3> QED BY <3>1, <3>2, LoopInsertsNothing
  <2>3. CASE SkipFailed(h)
    BY <2>3, LoopInsertsNothing DEF SkipFailed
  <2> QED BY <2>1, <2>2, <2>3
<1> QED BY <1>1, <1>2, QuietGoto DEF StockIInv

LEMMA MarkAccount ==
  ASSUME StockIInv, StockIInv', HandlersKnowTheirRows, AccountHolds, NEW h \in Handlers,
         WriteConfirmed(h) \/ MarkReleased(h) \/ MarkExpired(h)
  PROVE  AccountHolds'
<1>1. handlers[h].at # "insert" /\ UNCHANGED <<inventory, frees, leaked>>
      /\ handlers[h].id \in Resvs /\ Exists(handlers[h].id)
  BY DEF WriteConfirmed, MarkReleased, MarkExpired, HandlersKnowTheirRows, Knows, StockIInv,
     WritersHaveFreed
<1>2. \E state : Goto(h, state) /\ state.at # "insert"
  <2>1. [handlers[h] EXCEPT !.at = "expire"].at # "insert"
    BY DEF StockIInv, TypeOK, Handler
  <2> QED BY <2>1, LoopInsertsNothing DEF WriteConfirmed, MarkReleased, MarkExpired, AfterRelease
<1>3. PICK s \in Status \ {"none"} : SetStatus(handlers[h].id, s)
  BY DEF WriteConfirmed, MarkReleased, MarkExpired, Status, Held
<1> QED BY <1>1, <1>2, <1>3, QuietStatus DEF StockIInv

LEMMA NextAccount ==
  ASSUME StockIInv, StockIInv', HandlersKnowTheirRows, AccountHolds, [Next]_vars
  PROVE  AccountHolds'
<1>0. TypeOK /\ TypeOK'
  BY DEF StockIInv
<1>1. CASE \E h \in Requests : RequestStep(h)
  BY <1>0, <1>1, RequestAccount
<1>2. CASE \E h \in Sweepers : FindExpired(h)
  BY <1>2, SweepAccount DEF Handlers
<1>3. CASE \E h \in Handlers : Continue(h) \/ Abort(h) \/ SkipFailed(h)
  BY <1>3, InsertAccount, FreeStockAccount, MarkAccount, SweepAccount, AbortAccount DEF Continue
<1>4. CASE \E r \in Resvs : ExpiryPasses(r)
  <2>1. \A q \in Resvs : /\ Exists(q)' <=> Exists(q)
                        /\ reservations'[q].item = reservations[q].item
                        /\ reservations'[q].quantity = reservations[q].quantity
    BY <1>0, <1>4 DEF ExpiryPasses, Exists, TypeOK, Reservation
  <2> QED BY <1>0, <1>4, <2>1, QuietAccount DEF ExpiryPasses
<1>5. CASE \E i \in Items, n \in Counts : UpdateInventory(i, n)
  <2>1. PICK i \in Items, n \in Counts : UpdateInventory(i, n)
    BY <1>5
  <2>2. n \in Nat
    BY ReservationsAssumption
  <2>3. \A j \in Items : inventory'[j].reserved = inventory[j].reserved
    BY <1>0, <2>1, <2>2, StockStatementsReserved DEF UpdateInventory, TypeOK
  <2>4. \A q \in Resvs : Exists(q)' <=> Exists(q)
    BY <2>1 DEF UpdateInventory, Exists
  <2> QED BY <1>0, <2>1, <2>3, <2>4, QuietAccount DEF UpdateInventory
<1>6. CASE UNCHANGED vars
  <2>1. \A q \in Resvs : Exists(q)' <=> Exists(q)
    BY <1>6 DEF vars, Exists
  <2> QED BY <1>0, <1>6, <2>1, QuietAccount DEF vars
<1> QED BY <1>1, <1>2, <1>3, <1>4, <1>5, <1>6 DEF Next

(* AccountIInv holds in every state of every behaviour.                     *)

THEOREM AccountInvariant == Spec => []AccountIInv
<1>1. Init => AccountIInv
  BY InitIInv, InitKnows, InitAccount DEF AccountIInv, AccountHolds
<1>2. AccountIInv /\ [Next]_vars => AccountIInv'
  BY NextIInv, NextKnows, NextAccount DEF AccountIInv, AccountHolds
<1> QED BY <1>1, <1>2, PTL DEF Spec

(* No unit is reserved for nobody: for every number of reservations,        *)
(* requests and failures, what a row says is reserved is at most what       *)
(* reservations nobody freed, creations in progress and creations that      *)
(* failed after their stock UPDATE took.                                    *)

THEOREM NoUnitStranded == Spec => []ReservedIsAccountedFor
<1>1. AccountIInv => ReservedIsAccountedFor
  BY DEF AccountIInv
<1> QED BY <1>1, AccountInvariant, PTL

(* A row lacks units only where one reservation was freed twice.            *)

THEOREM ShortfallMeansDoubleFree == Spec => []ShortfallOnlyFromDoubleFree
<1>1. AccountIInv => ShortfallOnlyFromDoubleFree
  BY DEF AccountIInv
<1> QED BY <1>1, AccountInvariant, PTL
=============================================================================
