-------------------------- MODULE TransfersProofs --------------------------
(***************************************************************************)
(* Proofs about Transfers for any number of warehouses, transfers,         *)
(* requests and failures.                                                  *)
(***************************************************************************)
EXTENDS Transfers, StockProofs

LEMMA IdleTyped ==
  /\ NoRow \in Transfer /\ NoRow.status = "none"
  /\ Idle \in Handler /\ Idle.at = "idle"
BY TransfersAssumption DEF NoRow, Transfer, Idle, Handler

LEMMA InitIInv == Init => TransfersIInv
<1> SUFFICES ASSUME Init PROVE TransfersIInv
  OBVIOUS
<1>1. \A w \in Warehouses :
        [quantity |-> IF w \in Stocked THEN InitialStock ELSE 0, reserved |-> 0] \in StockRow
  BY TransfersAssumption DEF StockRow
<1>2. TypeOK
  BY <1>1, IdleTyped, TransfersAssumption DEF Init, TypeOK
<1>3. CompletedHasArrived /\ ArrivalsAreReal
  BY IdleTyped DEF Init, CompletedHasArrived, ArrivalsAreReal
<1>4. QED
  BY <1>2, <1>3 DEF TransfersIInv

-----------------------------------------------------------------------------
(* What the invariant asks of the next state of one handler.                *)

Placed(s) ==
  s.at # "idle" =>
    /\ s.id \in Transfers
    /\ transfers'[s.id].status # "none"
    /\ s.at = "arrive" => arrived'[s.id] > 0

(* What every step does: arrivals are not taken back, a transfer is not     *)
(* deleted, 'completed' is written for one that has arrived.                *)

Harmless ==
  /\ inventory' \in [Warehouses -> StockRow]
  /\ stocked' \subseteq Warehouses
  /\ transfers' \in [Transfers -> Transfer]
  /\ handlers' \in [Handlers -> Handler]
  /\ held' \in [Transfers -> Nat]
  /\ arrived' \in [Transfers -> Nat]
  /\ disturbed' \subseteq Transfers
  /\ customers' \in [Warehouses -> Nat]
  /\ faults' \in 0..MaxFaults
  /\ \A t \in Transfers :
       /\ arrived[t] > 0 => arrived'[t] > 0
       /\ transfers[t].status # "none" => transfers'[t].status # "none"
       /\ transfers'[t].status = "completed" =>
            transfers[t].status = "completed" \/ arrived'[t] > 0

LEMMA KeepsIInv ==
  ASSUME TransfersIInv, Harmless,
         \A g \in Handlers : handlers'[g] = handlers[g] \/ Placed(handlers'[g])
  PROVE  TransfersIInv'
<1>1. TypeOK'
  BY DEF Harmless, TypeOK
<1>2. CompletedHasArrived'
  BY DEF Harmless, CompletedHasArrived, TransfersIInv
<1>3. ArrivalsAreReal'
  <2> SUFFICES ASSUME NEW g \in Handlers, handlers'[g].at # "idle"
               PROVE  /\ handlers'[g].id \in Transfers
                      /\ transfers'[handlers'[g].id].status # "none"
                      /\ handlers'[g].at = "arrive" => arrived'[handlers'[g].id] > 0
    BY DEF ArrivalsAreReal
  <2>1. CASE Placed(handlers'[g])
    BY <2>1 DEF Placed
  <2>2. CASE handlers'[g] = handlers[g]
    BY <2>2 DEF Harmless, ArrivalsAreReal, TransfersIInv
  <2>3. QED
    BY <2>1, <2>2
<1>4. QED
  BY <1>1, <1>2, <1>3 DEF TransfersIInv

(* A step of one handler that writes nothing the invariant speaks of but    *)
(* stock, accounts and the row of its transfer.                             *)

LEMMA HandlerKeepsIInv ==
  ASSUME TransfersIInv, Harmless, NEW h \in Handlers, NEW s \in Handler,
         Goto(h, s), Placed(s)
  PROVE  TransfersIInv'
<1>1. \A g \in Handlers : handlers'[g] = handlers[g] \/ Placed(handlers'[g])
  <2> SUFFICES ASSUME NEW g \in Handlers
               PROVE  handlers'[g] = handlers[g] \/ Placed(handlers'[g])
    OBVIOUS
  <2>1. CASE g = h
    <3>1. handlers'[g] = s
      BY <2>1 DEF Goto, TransfersIInv, TypeOK
    <3>2. QED
      BY <3>1
  <2>2. CASE g # h
    BY <2>2 DEF Goto, TransfersIInv, TypeOK
  <2>3. QED
    BY <2>1, <2>2
<1>2. QED
  BY <1>1, KeepsIInv

(* Where a busy handler is, and what its transfer is.                       *)

LEMMA Busy ==
  ASSUME TransfersIInv, NEW h \in Handlers, handlers[h].at # "idle"
  PROVE  /\ handlers[h] \in Handler
         /\ handlers[h].id \in Transfers
         /\ transfers[handlers[h].id] \in Transfer
         /\ transfers[handlers[h].id].status # "none"
         /\ From(h) \in Warehouses /\ To(h) \in Warehouses /\ Amount(h) \in Nat
BY DEF TransfersIInv, TypeOK, ArrivalsAreReal, From, To, Amount, Transfer

(* A method that goes on with its transfer, or returns.                     *)

LEMMA Moves ==
  ASSUME TransfersIInv, NEW h \in Handlers, handlers[h].at # "idle",
         NEW at \in {"depart", "dest", "set", "create", "undo", "cancel"},
         NEW n \in Nat, Harmless
  PROVE  /\ [handlers[h] EXCEPT !.at = at] \in Handler
         /\ Placed([handlers[h] EXCEPT !.at = at])
         /\ [handlers[h] EXCEPT !.at = at, !.total = n] \in Handler
         /\ Placed([handlers[h] EXCEPT !.at = at, !.total = n])
BY Busy DEF Placed, Harmless, Handler

LEMMA Returns == Placed(Idle)
BY IdleTyped DEF Placed

(* Requests                                                                 *)

LEMMA CreateTransferIInv ==
  ASSUME TransfersIInv, NEW t \in Transfers, NEW v \in Warehouses, NEW w \in Warehouses,
         NEW q \in Quantities, CreateTransfer(t, v, w, q)
  PROVE  TransfersIInv'
<1> DEFINE row == [status |-> "pending", from |-> v, to |-> w, quantity |-> q]
<1>1. row \in Transfer /\ row.status = "pending"
  BY TransfersAssumption DEF Transfer
<1>2. transfers' = [transfers EXCEPT ![t] = row]
      /\ UNCHANGED <<inventory, stocked, handlers, held, arrived, customers, faults, disturbed>>
  BY DEF CreateTransfer
<1>3. \A u \in Transfers : transfers'[u] = IF u = t THEN row ELSE transfers[u]
  BY <1>2 DEF TransfersIInv, TypeOK
<1>4. Harmless
  BY <1>1, <1>2, <1>3 DEF Harmless, TransfersIInv, TypeOK
<1>5. QED
  BY <1>2, <1>4, KeepsIInv

LEMMA BeginIInv ==
  ASSUME TransfersIInv, NEW h \in Handlers, NEW t \in Transfers,
         NEW at \in {"reserve", "release", "free", "cancel"},
         transfers[t].status # "none", Begin(h, t, at),
         UNCHANGED <<inventory, stocked, transfers, held, arrived, customers, faults>>
  PROVE  TransfersIInv'
<1> DEFINE s == [Idle EXCEPT !.at = at, !.id = t]
<1>1. s \in Handler /\ s.at = at /\ s.id = t
  BY IdleTyped DEF Handler
<1>2. Goto(h, s) /\ disturbed' \subseteq Transfers
  BY DEF Begin, TransfersIInv, TypeOK
<1>3. Harmless
  BY <1>1, <1>2 DEF Goto, Harmless, TransfersIInv, TypeOK
<1>4. Placed(s)
  BY <1>1 DEF Placed
<1>5. QED
  BY <1>1, <1>2, <1>3, <1>4, HandlerKeepsIInv

-----------------------------------------------------------------------------
(* The queries of the methods.                                              *)

(* Stock and accounts at the source stay typed under both its statements.   *)

LEMMA SourceTyped ==
  ASSUME TransfersIInv, NEW h \in Handlers, handlers[h].at # "idle",
         \/ /\ inventory' = [inventory EXCEPT ![From(h)] = Reserve(@, Amount(h))]
            /\ held' = [held EXCEPT ![handlers[h].id] = @ + 1]
         \/ GiveBackSource(h)
         \/ UNCHANGED <<inventory, held>>
  PROVE  inventory' \in [Warehouses -> StockRow] /\ held' \in [Transfers -> Nat]
<1> USE Busy
<1>1. \A w \in Warehouses : /\ Reserve(inventory[w], Amount(h)) \in StockRow
                            /\ GiveBack(inventory[w], Amount(h)) \in StockRow
  BY StockStatementsTyped DEF TransfersIInv, TypeOK
<1>2. inventory' \in [Warehouses -> StockRow]
  BY <1>1 DEF TransfersIInv, TypeOK, GiveBackSource
<1>3. held' \in [Transfers -> Nat]
  BY DEF TransfersIInv, TypeOK, GiveBackSource
<1>4. QED
  BY <1>2, <1>3

(* A step that changes stock and accounts at the source and one handler.    *)

LEMMA SourceIInv ==
  ASSUME TransfersIInv, NEW h \in Handlers, handlers[h].at # "idle",
         NEW at \in {"depart", "dest", "cancel"},
         inventory' \in [Warehouses -> StockRow], held' \in [Transfers -> Nat],
         Step(h, at) \/ Goto(h, Idle),
         disturbed' \subseteq Transfers,
         UNCHANGED <<stocked, transfers, arrived, customers, faults>>
  PROVE  TransfersIInv'
<1> DEFINE s == [handlers[h] EXCEPT !.at = at]
<1>1. s \in Handler
  BY Busy DEF Handler
<1>2. handlers' \in [Handlers -> Handler]
  BY <1>1, IdleTyped DEF Step, Goto, TransfersIInv, TypeOK
<1>3. Harmless
  <2>1. TypeOK
    BY DEF TransfersIInv
  <2>2. disturbed' \in SUBSET Transfers
    BY Zenon
  <2>3. QED
    BY <1>2, <2>1, <2>2, Zenon DEF Harmless, TypeOK
<1>4. CASE Step(h, at)
  <2>1. Goto(h, s)
    BY <1>4, Zenon DEF Step
  <2> HIDE DEF s
  <2>2. QED
    BY <1>1, <1>3, <2>1, Moves, HandlerKeepsIInv DEF s
<1>5. CASE Goto(h, Idle)
  BY <1>3, <1>5, IdleTyped, Returns, HandlerKeepsIInv, Zenon
<1>6. QED
  BY <1>4, <1>5

LEMMA ReserveSourceIInv ==
  ASSUME TransfersIInv, NEW h \in Handlers, ReserveSource(h)
  PROVE  TransfersIInv'
<1>1. handlers[h].at # "idle"
  BY DEF ReserveSource
<1>2. inventory' \in [Warehouses -> StockRow] /\ held' \in [Transfers -> Nat]
  BY <1>1, SourceTyped DEF ReserveSource
<1>3. QED
  BY <1>1, <1>2, Busy, SourceIInv DEF TransfersIInv, TypeOK, ReserveSource

LEMMA ReleaseSourceIInv ==
  ASSUME TransfersIInv, NEW h \in Handlers, ReleaseSource(h)
  PROVE  TransfersIInv'
<1>1. handlers[h].at # "idle"
  BY DEF ReleaseSource
<1>2. inventory' \in [Warehouses -> StockRow] /\ held' \in [Transfers -> Nat]
  BY <1>1, SourceTyped DEF ReleaseSource
<1>3. QED
  BY <1>1, <1>2, Busy, SourceIInv DEF TransfersIInv, TypeOK, ReleaseSource

LEMMA FreeSourceIInv ==
  ASSUME TransfersIInv, NEW h \in Handlers, FreeSource(h)
  PROVE  TransfersIInv'
<1>1. handlers[h].at # "idle"
  BY DEF FreeSource
<1>2. inventory' \in [Warehouses -> StockRow] /\ held' \in [Transfers -> Nat]
  BY <1>1, SourceTyped DEF FreeSource
<1>3. QED
  BY <1>1, <1>2, Busy, SourceIInv DEF TransfersIInv, TypeOK, FreeSource

LEMMA ReserveAgainIInv ==
  ASSUME TransfersIInv, NEW h \in Handlers, ReserveAgain(h)
  PROVE  TransfersIInv'
<1>1. handlers[h].at # "idle"
  BY DEF ReserveAgain
<1>2. inventory' \in [Warehouses -> StockRow] /\ held' \in [Transfers -> Nat]
  BY <1>1, SourceTyped DEF ReserveAgain
<1>3. QED
  BY <1>1, <1>2, Busy, SourceIInv DEF TransfersIInv, TypeOK, ReserveAgain

(* A handler that writes a status and returns: only one that has arrived    *)
(* writes 'completed'.                                                      *)

LEMMA StatusIInv ==
  ASSUME TransfersIInv, NEW h \in Handlers, handlers[h].at # "idle",
         NEW s \in {"in_transit", "completed", "cancelled"},
         s = "completed" => arrived[handlers[h].id] > 0,
         SetStatus(h, s), Goto(h, Idle),
         UNCHANGED <<inventory, stocked, held, arrived, customers, faults, disturbed>>
  PROVE  TransfersIInv'
<1> DEFINE t == handlers[h].id
<1>1. t \in Transfers /\ transfers[t] \in Transfer
  BY Busy
<1>2. [transfers[t] EXCEPT !.status = s] \in Transfer
  BY <1>1 DEF Transfer
<1>3. transfers' = [transfers EXCEPT ![t] = [transfers[t] EXCEPT !.status = s]]
  BY <1>1 DEF SetStatus, TransfersIInv, TypeOK
<1>4. \A u \in Transfers : transfers'[u].status = IF u = t THEN s ELSE transfers[u].status
  BY <1>1, <1>3 DEF Transfer, TransfersIInv, TypeOK
<1>5. Harmless
  BY <1>1, <1>2, <1>3, <1>4, IdleTyped DEF Harmless, Goto, TransfersIInv, TypeOK
<1>6. QED
  BY <1>5, IdleTyped, Returns, HandlerKeepsIInv

LEMMA DepartIInv ==
  ASSUME TransfersIInv, NEW h \in Handlers, Depart(h)
  PROVE  TransfersIInv'
BY StatusIInv DEF Depart

LEMMA ArriveIInv ==
  ASSUME TransfersIInv, NEW h \in Handlers, Arrive(h)
  PROVE  TransfersIInv'
BY StatusIInv DEF Arrive, TransfersIInv, ArrivalsAreReal

LEMMA MarkCancelledIInv ==
  ASSUME TransfersIInv, NEW h \in Handlers, MarkCancelled(h)
  PROVE  TransfersIInv'
BY StatusIInv DEF MarkCancelled

(* The destination                                                          *)

LEMMA ReadDestinationIInv ==
  ASSUME TransfersIInv, NEW h \in Handlers, ReadDestination(h)
  PROVE  TransfersIInv'
<1> DEFINE sum == inventory[To(h)].quantity + Amount(h)
           s == IF To(h) \in stocked
                THEN [handlers[h] EXCEPT !.at = "set", !.total = sum]
                ELSE [handlers[h] EXCEPT !.at = "create"]
<1>1. handlers[h].at # "idle"
  BY DEF ReadDestination
<1>2. sum \in Nat
  BY <1>1, Busy DEF TransfersIInv, TypeOK, StockRow
<1>3. s \in Handler
  BY <1>1, <1>2, Busy DEF Handler
<1>4. /\ Goto(h, s)
      /\ UNCHANGED <<inventory, stocked, transfers, held, arrived, customers, faults, disturbed>>
  BY DEF ReadDestination, Step
<1>5. Harmless
  BY <1>3, <1>4 DEF Harmless, Goto, TransfersIInv, TypeOK
<1>6. Placed(s)
  BY <1>1, <1>2, <1>5, Moves
<1>7. QED
  BY <1>3, <1>4, <1>5, <1>6, HandlerKeepsIInv

(* The write of the destination counts as an arrival.                       *)

LEMMA WriteIInv ==
  ASSUME TransfersIInv, NEW h \in Handlers, handlers[h].at # "idle", NEW n \in Nat,
         inventory' = [inventory EXCEPT ![To(h)] = SetQuantity(@, n)],
         arrived' = [arrived EXCEPT ![handlers[h].id] = @ + 1],
         Step(h, "arrive"), stocked' \subseteq Warehouses,
         UNCHANGED <<transfers, held, customers, faults, disturbed>>
  PROVE  TransfersIInv'
<1> DEFINE s == [handlers[h] EXCEPT !.at = "arrive"]
<1>1. s \in Handler /\ s.at = "arrive" /\ s.id = handlers[h].id /\ s.id \in Transfers
  BY Busy DEF Handler
<1>2. \A w \in Warehouses : SetQuantity(inventory[w], n) \in StockRow
  BY StockStatementsTyped DEF TransfersIInv, TypeOK
<1>3. inventory' \in [Warehouses -> StockRow]
  BY <1>2, Busy DEF TransfersIInv, TypeOK
<1>4. /\ arrived' \in [Transfers -> Nat]
      /\ arrived'[s.id] > 0
      /\ \A t \in Transfers : arrived[t] > 0 => arrived'[t] > 0
  BY <1>1 DEF TransfersIInv, TypeOK
<1>5. Goto(h, s)
  BY DEF Step
<1>6. Harmless
  BY <1>1, <1>3, <1>4, <1>5 DEF Harmless, Goto, TransfersIInv, TypeOK
<1>7. Placed(s)
  BY <1>1, <1>4, Busy DEF Placed
<1>8. QED
  BY <1>1, <1>5, <1>6, <1>7, HandlerKeepsIInv

LEMMA SetDestinationIInv ==
  ASSUME TransfersIInv, NEW h \in Handlers, SetDestination(h)
  PROVE  TransfersIInv'
<1>1. handlers[h].total \in Nat /\ handlers[h].at # "idle"
  BY Busy DEF SetDestination, Handler
<1>2. QED
  BY <1>1, WriteIInv DEF SetDestination, TransfersIInv, TypeOK

(* A handler that goes to its catch block.                                  *)

LEMMA UndoIInv ==
  ASSUME TransfersIInv, NEW h \in Handlers, handlers[h].at # "idle", Step(h, "undo"),
         faults' \in 0..MaxFaults,
         UNCHANGED <<inventory, stocked, transfers, held, arrived, customers, disturbed>>
  PROVE  TransfersIInv'
<1> DEFINE s == [handlers[h] EXCEPT !.at = "undo"]
<1>1. s \in Handler
  BY Busy DEF Handler
<1>2. Goto(h, s)
  BY DEF Step
<1>3. Harmless
  BY <1>1, <1>2 DEF Harmless, Goto, TransfersIInv, TypeOK
<1>4. QED
  BY <1>1, <1>2, <1>3, Moves, HandlerKeepsIInv

LEMMA CreateDestinationIInv ==
  ASSUME TransfersIInv, NEW h \in Handlers, CreateDestination(h)
  PROVE  TransfersIInv'
<1>1. handlers[h].at # "idle"
  BY DEF CreateDestination
<1>2. CASE To(h) \notin stocked
  <2>1. stocked' \subseteq Warehouses
    BY <1>1, <1>2, Busy DEF CreateDestination, TransfersIInv, TypeOK
  <2>2. QED
    BY <1>1, <1>2, <2>1, Busy, WriteIInv DEF CreateDestination
<1>3. CASE To(h) \in stocked
  BY <1>1, <1>3, UndoIInv DEF CreateDestination, TransfersIInv, TypeOK
<1>4. QED
  BY <1>2, <1>3

-----------------------------------------------------------------------------
(* The surroundings                                                         *)

LEMMA CustomersIInv ==
  ASSUME TransfersIInv, NEW w \in Warehouses,
         CustomerReserves(w) \/ CustomerReleases(w)
         \/ \E n \in Counts : UpdateInventory(w, n)
  PROVE  TransfersIInv'
<1>1. /\ inventory[w] \in StockRow /\ Reserve(inventory[w], 1) \in StockRow
      /\ GiveBack(inventory[w], 1) \in StockRow
      /\ \A n \in Counts : SetQuantity(inventory[w], n) \in StockRow
  BY StockStatementsTyped, TransfersAssumption DEF TransfersIInv, TypeOK
<1>2. inventory' \in [Warehouses -> StockRow]
  BY <1>1 DEF CustomerReserves, CustomerReleases, UpdateInventory, TransfersIInv, TypeOK
<1>3. customers' \in [Warehouses -> Nat]
  BY DEF CustomerReserves, CustomerReleases, UpdateInventory, TransfersIInv, TypeOK
<1>4. UNCHANGED <<stocked, transfers, handlers, held, arrived, faults, disturbed>>
  BY DEF CustomerReserves, CustomerReleases, UpdateInventory
<1>5. Harmless
  BY <1>2, <1>3, <1>4 DEF Harmless, TransfersIInv, TypeOK
<1>6. QED
  BY <1>4, <1>5, KeepsIInv

LEMMA FailuresIInv ==
  ASSUME TransfersIInv, NEW h \in Handlers, DestinationFails(h) \/ Abort(h)
  PROVE  TransfersIInv'
<1>1. faults' \in 0..MaxFaults
  BY TransfersAssumption DEF DestinationFails, Abort, TransfersIInv, TypeOK
<1>2. CASE DestinationFails(h)
  BY <1>1, <1>2, UndoIInv DEF DestinationFails
<1>3. CASE Abort(h)
  <2>1. Harmless
    BY <1>1, <1>3, IdleTyped DEF Abort, Goto, Harmless, TransfersIInv, TypeOK
  <2>2. QED
    BY <1>3, <2>1, IdleTyped, Returns, HandlerKeepsIInv DEF Abort
<1>4. QED
  BY <1>2, <1>3

LEMMA NextIInv == TransfersIInv /\ [Next]_vars => TransfersIInv'
<1> SUFFICES ASSUME TransfersIInv, [Next]_vars PROVE TransfersIInv'
  OBVIOUS
<1>1. CASE UNCHANGED vars
  BY <1>1 DEF vars, TransfersIInv, TypeOK, CompletedHasArrived, ArrivalsAreReal
<1>2. ASSUME NEW t \in Transfers, NEW v \in Warehouses, NEW w \in Warehouses,
             NEW q \in Quantities, CreateTransfer(t, v, w, q)
      PROVE  TransfersIInv'
  BY <1>2, CreateTransferIInv
<1>3. ASSUME NEW h \in Handlers, NEW t \in Transfers, RequestStep(h, t)
      PROVE  TransfersIInv'
  <2>1. CASE StartTransfer(h, t)
    BY <2>1, BeginIInv DEF StartTransfer
  <2>2. CASE CompleteTransfer(h, t)
    BY <2>2, BeginIInv DEF CompleteTransfer
  <2>3. CASE CancelTransfer(h, t)
    BY <2>3, BeginIInv DEF CancelTransfer
  <2>4. QED
    BY <1>3, <2>1, <2>2, <2>3 DEF RequestStep
<1>4. ASSUME NEW h \in Handlers, Continue(h) PROVE TransfersIInv'
  BY <1>4, ReserveSourceIInv, DepartIInv, ReleaseSourceIInv, ReadDestinationIInv,
     SetDestinationIInv, CreateDestinationIInv, ReserveAgainIInv, ArriveIInv,
     FreeSourceIInv, MarkCancelledIInv
     DEF Continue
<1>5. ASSUME NEW h \in Handlers, DestinationFails(h) \/ Abort(h) PROVE TransfersIInv'
  BY <1>5, FailuresIInv
<1>6. ASSUME NEW w \in Warehouses,
             CustomerReserves(w) \/ CustomerReleases(w)
             \/ \E n \in Counts : UpdateInventory(w, n)
      PROVE  TransfersIInv'
  BY <1>6, CustomersIInv
<1>7. QED
  BY <1>1, <1>2, <1>3, <1>4, <1>5, <1>6 DEF Next

(* However requests, failures and compensations interleave, a completion    *)
(* that is about to write its status has written the destination.           *)

THEOREM TransfersInvariant == Spec => []TransfersIInv
<1>1. QED
  BY InitIInv, NextIInv, PTL DEF Spec

(* Hence 'completed' is never ahead of the stock: what the order of the     *)
(* statements of completeTransfer and its catch block are there for.        *)

THEOREM TransfersArriveFirst == Spec => []CompletedHasArrived
<1>1. TransfersIInv => CompletedHasArrived
  BY DEF TransfersIInv
<1>2. QED
  BY <1>1, TransfersInvariant, PTL

-----------------------------------------------------------------------------
(* Who holds the stock of a transfer.                                       *)

Holding == IdleMeansIdle /\ HoldsWhileInTransit /\ OneByOne

(* The account of one transfer at rest.                                     *)
Settled(t) == held[t] = IF transfers[t].status = "in_transit" THEN 1 ELSE 0

LEMMA IdleOnNothing ==
  ASSUME HoldingIInv, NEW h \in Handlers, handlers[h].id \in Transfers
  PROVE  /\ handlers[h].at # "idle" /\ handlers[h] # Idle
         /\ transfers[handlers[h].id].status # "none"
<1>1. Idle.id = "none" /\ "none" \notin Transfers
  BY TransfersAssumption DEF Idle
<1>2. handlers[h] # Idle
  BY <1>1
<1>3. handlers[h].at # "idle"
  BY <1>2 DEF HoldingIInv, IdleMeansIdle
<1>4. QED
  BY <1>2, <1>3, Busy DEF HoldingIInv

LEMMA InitHolding == Init => Holding
<1>1. Idle.id \notin Transfers
  BY TransfersAssumption DEF Idle
<1>2. NoRow.status # "in_transit"
  BY DEF NoRow
<1>3. QED
  BY <1>1, <1>2 DEF Init, Holding, IdleMeansIdle, HoldsWhileInTransit, OneByOne

(* A step of one handler, within its method or to its end, that touches no  *)
(* account but that of its own transfer.                                    *)

LEMMA StepHolding ==
  ASSUME HoldingIInv, NEW h \in Handlers, handlers[h].at # "idle", NEW s \in Handler,
         NEW t, t = handlers[h].id, Goto(h, s), faults' = faults, disturbed \subseteq disturbed',
         \A u \in Transfers : u # t =>
           held'[u] = held[u] /\ transfers'[u].status = transfers[u].status,
         s = Idle \/ (s.at # "idle" /\ s.id = t),
         faults = 0 /\ t \notin disturbed' /\ Stage(h) =>
           IF s = Idle THEN Settled(t)' ELSE Stage(h)'
  PROVE  Holding'
<1>1. t \in Transfers /\ "none" \notin Transfers /\ Idle.id = "none" /\ Idle.at = "idle"
  BY Busy, TransfersAssumption DEF HoldingIInv, Idle
<1>2. /\ handlers'[h] = s
      /\ \A g \in Handlers : g # h => handlers'[g] = handlers[g]
  BY DEF Goto, HoldingIInv, TransfersIInv, TypeOK
<1>3. IdleMeansIdle'
  BY <1>1, <1>2 DEF IdleMeansIdle, HoldingIInv
<1>4. HoldsWhileInTransit'
  <2> SUFFICES ASSUME faults = 0, NEW u \in Transfers, u \notin disturbed',
                      \A g \in Handlers : handlers'[g].id # u
               PROVE  Settled(u)'
    BY DEF HoldsWhileInTransit, Settled
  <2>1. CASE u = t
    <3>1. s = Idle
      BY <1>2, <2>1
    <3>2. Stage(h)
      BY <2>1 DEF HoldingIInv, OneByOne
    <3>3. QED
      BY <2>1, <3>1, <3>2
  <2>2. CASE u # t
    <3>1. \A g \in Handlers : handlers[g].id # u
      BY <1>2, <2>2
    <3>2. Settled(u)
      BY <3>1 DEF HoldingIInv, HoldsWhileInTransit, Settled
    <3>3. QED
      BY <2>2, <3>2 DEF Settled
  <2>3. QED
    BY <2>1, <2>2
<1>5. OneByOne'
  <2> SUFFICES ASSUME faults = 0, NEW u \in Transfers, u \notin disturbed',
                      NEW g \in Handlers, handlers'[g].id = u
               PROVE  /\ \A f \in Handlers : handlers'[f].id = u => f = g
                      /\ Stage(g)'
    BY DEF OneByOne
  <2>1. \A f \in Handlers : handlers'[f].id = u => handlers[f].id = u
    BY <1>1, <1>2
  <2>2. /\ \A f \in Handlers : handlers[f].id = u => f = g
        /\ Stage(g)
    BY <2>1 DEF HoldingIInv, OneByOne
  <2>3. CASE g = h
    <3>1. s # Idle
      BY <1>1, <1>2, <2>3
    <3>2. QED
      BY <2>1, <2>2, <2>3, <3>1
  <2>4. CASE g # h
    <3>1. u # t
      BY <2>2, <2>4
    <3>2. handlers'[g] = handlers[g] /\ held'[u] = held[u]
          /\ transfers'[u].status = transfers[u].status
      BY <1>2, <2>4, <3>1
    <3>3. QED
      BY <2>1, <2>2, <3>2 DEF Stage
  <2>5. QED
    BY <2>3, <2>4
<1>6. QED
  BY <1>3, <1>4, <1>5 DEF Holding

LEMMA ContinueHolding ==
  ASSUME HoldingIInv, NEW h \in Handlers, Continue(h)
  PROVE  Holding'
<1> PICK t : t = handlers[h].id
  OBVIOUS
<1> DEFINE Elsewhere == \A u \in Transfers : u # t =>
                         held'[u] = held[u] /\ transfers'[u].status = transfers[u].status
<1>1. handlers[h].at # "idle" /\ faults' = faults /\ disturbed \subseteq disturbed'
  BY DEF Continue, ReserveSource, Depart, ReleaseSource, ReadDestination, SetDestination,
         CreateDestination, ReserveAgain, Arrive, FreeSource, MarkCancelled
<1>2. /\ handlers[h] \in Handler /\ t \in Transfers /\ transfers[t] \in Transfer
      /\ handlers \in [Handlers -> Handler] /\ held \in [Transfers -> Nat]
      /\ transfers \in [Transfers -> Transfer]
  BY <1>1, Busy DEF HoldingIInv, TransfersIInv, TypeOK
<1>3. \A n \in {"depart", "dest", "set", "create", "arrive", "undo", "cancel"}, m \in Nat :
        /\ [handlers[h] EXCEPT !.at = n] \in Handler
        /\ [handlers[h] EXCEPT !.at = n, !.total = m] \in Handler
  BY <1>2 DEF Handler
<1>4. Idle \in Handler
  BY IdleTyped
<1>4a. \A n : [handlers[h] EXCEPT !.at = n].at = n /\ [handlers[h] EXCEPT !.at = n].id = t
  BY <1>2 DEF Handler
<1>5. CASE ReserveSource(h)
  <2>1. Elsewhere
    BY <1>2, <1>5 DEF ReserveSource
  <2>2. CASE CanReserve(inventory[From(h)], Amount(h))
    <3> DEFINE s == [handlers[h] EXCEPT !.at = "depart"]
    <3>1. Goto(h, s) /\ s \in Handler /\ s.at = "depart" /\ s.id = t
      BY <1>3, <1>5, <1>4a, <2>2 DEF ReserveSource, Step
    <3>2. Stage(h) => Stage(h)'
      BY <1>2, <1>5, <2>2, <3>1 DEF ReserveSource, Stage, Goto
    <3>3. QED
      BY <1>1, <2>1, <3>1, <3>2, IdleTyped, StepHolding
  <2>3. CASE ~CanReserve(inventory[From(h)], Amount(h))
    <3>1. Goto(h, Idle) /\ (Stage(h) => Settled(t)')
      BY <1>2, <1>5, <2>3 DEF ReserveSource, Stage, Settled
    <3>2. QED
      BY <1>1, <1>4, <2>1, <3>1, StepHolding
  <2>4. QED
    BY <2>2, <2>3
<1>6. CASE Depart(h) \/ Arrive(h) \/ MarkCancelled(h)
  <2>1. Elsewhere /\ Goto(h, Idle)
    BY <1>2, <1>6 DEF Depart, Arrive, MarkCancelled, SetStatus
  <2>2. Stage(h) => Settled(t)'
    BY <1>2, <1>6 DEF Depart, Arrive, MarkCancelled, SetStatus, Stage, Settled, Transfer
  <2>3. QED
    BY <1>1, <1>4, <2>1, <2>2, StepHolding
<1>7. CASE ReleaseSource(h) \/ FreeSource(h)
  <2> DEFINE s == [handlers[h] EXCEPT !.at = IF ReleaseSource(h) THEN "dest" ELSE "cancel"]
  <2>1. Elsewhere
    BY <1>2, <1>7 DEF ReleaseSource, FreeSource, GiveBackSource
  <2>2. Goto(h, s) /\ s \in Handler /\ s.at \in {"dest", "cancel"} /\ s.id = t
    BY <1>3, <1>7, <1>4a DEF ReleaseSource, FreeSource, Step
  <2>3. held'[t] = IF held[t] = 0 THEN 0 ELSE held[t] - 1
    BY <1>2, <1>7 DEF ReleaseSource, FreeSource, GiveBackSource
  <2>4. handlers'[h] = s
    BY <1>2, <2>2 DEF Goto
  <2>5. Stage(h) => Stage(h)'
    BY <1>2, <1>7, <2>2, <2>3, <2>4 DEF ReleaseSource, FreeSource, Stage
  <2>6. QED
    BY <1>1, <2>1, <2>2, <2>5, IdleTyped, StepHolding
<1>8. CASE ReadDestination(h)
  <2> DEFINE sum == inventory[To(h)].quantity + Amount(h)
             s == IF To(h) \in stocked
                  THEN [handlers[h] EXCEPT !.at = "set", !.total = sum]
                  ELSE [handlers[h] EXCEPT !.at = "create"]
  <2>1. sum \in Nat
    BY <1>1, Busy DEF HoldingIInv, TransfersIInv, TypeOK, StockRow
  <2>2. Goto(h, s) /\ s \in Handler /\ s.at \in {"set", "create"} /\ s.id = t
    <3>1. Goto(h, s)
      BY <1>8, Zenon DEF ReadDestination, Step
    <3> DEFINE setting == [handlers[h] EXCEPT !.at = "set", !.total = sum]
               creating == [handlers[h] EXCEPT !.at = "create"]
    <3> HIDE DEF sum
    <3>2. CASE To(h) \in stocked
      <4>1. setting \in Handler
        BY <1>3, <2>1, Zenon
      <4>2. setting.at = "set" /\ setting.id = t
        BY <1>2, Zenon DEF Handler
      <4>3. s = setting
        BY <3>2
      <4>4. QED
        BY <3>1, <4>1, <4>2, <4>3, Zenon
    <3>3. CASE To(h) \notin stocked
      <4>1. creating \in Handler
        BY <1>3, <2>1, Zenon
      <4>2. creating.at = "create" /\ creating.id = t
        BY <1>2, Zenon DEF Handler
      <4>3. s = creating
        BY <3>3
      <4>4. QED
        BY <3>1, <4>1, <4>2, <4>3, Zenon
    <3>4. QED
      BY <3>2, <3>3
  <2>3. Elsewhere /\ held'[t] = held[t] /\ transfers'[t] = transfers[t]
    BY <1>8 DEF ReadDestination
  <2>4. Stage(h) => Stage(h)'
    BY <1>2, <1>8, <2>2, <2>3 DEF ReadDestination, Stage, Goto
  <2>5. QED
    BY <1>1, <2>2, <2>3, <2>4, IdleTyped, StepHolding
<1>9. CASE SetDestination(h) \/ CreateDestination(h)
  <2> DEFINE s == [handlers[h] EXCEPT !.at =
                     IF CreateDestination(h) /\ To(h) \in stocked THEN "undo" ELSE "arrive"]
  <2>1. Goto(h, s) /\ s \in Handler /\ s.at \in {"undo", "arrive"} /\ s.id = t
    BY <1>3, <1>9, <1>4a DEF SetDestination, CreateDestination, Step
  <2>2. Elsewhere /\ held'[t] = held[t] /\ transfers'[t] = transfers[t]
    BY <1>9 DEF SetDestination, CreateDestination
  <2>3. Stage(h) => Stage(h)'
    BY <1>2, <1>9, <2>1, <2>2 DEF SetDestination, CreateDestination, Stage, Goto
  <2>4. QED
    BY <1>1, <2>1, <2>2, <2>3, IdleTyped, StepHolding
<1>10. CASE ReserveAgain(h)
  <2>1. Elsewhere /\ Goto(h, Idle)
    BY <1>2, <1>10 DEF ReserveAgain
  <2>2. Stage(h) /\ t \notin disturbed' => Settled(t)'
    BY <1>2, <1>10 DEF ReserveAgain, Stage, Settled
  <2>3. QED
    BY <1>1, <1>4, <2>1, <2>2, StepHolding
<1>11. QED
  BY <1>5, <1>6, <1>7, <1>8, <1>9, <1>10 DEF Continue

(* A request on a transfer somebody works on disturbs it; otherwise the     *)
(* transfer is at rest and its account is settled.                          *)

LEMMA BeginHolding ==
  ASSUME HoldingIInv, NEW h \in Handlers, NEW t \in Transfers,
         NEW at \in {"reserve", "release", "free", "cancel"}, Begin(h, t, at),
         UNCHANGED <<transfers, held, faults>>,
         at = "reserve" => transfers[t].status = "pending",
         at \in {"release", "free"} <=> transfers[t].status = "in_transit"
  PROVE  Holding'
<1> DEFINE s == [Idle EXCEPT !.at = at, !.id = t]
<1>1. s.at = at /\ s.id = t /\ at # "idle" /\ Idle.id \notin Transfers /\ handlers[h] = Idle
  BY TransfersAssumption DEF Idle, Begin
<1>2. /\ handlers'[h] = s
      /\ \A g \in Handlers : g # h => handlers'[g] = handlers[g]
  BY DEF Begin, Goto, HoldingIInv, TransfersIInv, TypeOK
<1>3. disturbed' = IF \E g \in Handlers : handlers[g].id = t
                   THEN disturbed \cup {t} ELSE disturbed
  BY DEF Begin
<1>4. IdleMeansIdle'
  BY <1>1, <1>2 DEF IdleMeansIdle, HoldingIInv
<1>5. HoldsWhileInTransit'
  <2> SUFFICES ASSUME faults = 0, NEW u \in Transfers, u \notin disturbed',
                      \A g \in Handlers : handlers'[g].id # u
               PROVE  Settled(u)'
    BY DEF HoldsWhileInTransit, Settled
  <2>1. \A g \in Handlers : handlers[g].id # u
    BY <1>1, <1>2
  <2>2. Settled(u)
    BY <1>3, <2>1 DEF HoldingIInv, HoldsWhileInTransit, Settled
  <2>3. QED
    BY <2>2 DEF Settled
<1>6. OneByOne'
  <2> SUFFICES ASSUME faults = 0, NEW u \in Transfers, u \notin disturbed',
                      NEW g \in Handlers, handlers'[g].id = u
               PROVE  /\ \A f \in Handlers : handlers'[f].id = u => f = g
                      /\ Stage(g)'
    BY DEF OneByOne
  <2>1. CASE u = t
    <3>1. \A f \in Handlers : handlers[f].id # t
      BY <1>3, <2>1
    <3>2. \A f \in Handlers : handlers'[f].id = t => f = h
      BY <1>2, <3>1
    <3>3. g = h
      BY <2>1, <3>2
    <3>4. Settled(t)
      BY <1>3, <2>1, <3>1 DEF HoldingIInv, HoldsWhileInTransit, Settled
    <3>5. Stage(h)'
      BY <1>1, <1>2, <3>4 DEF Stage, Settled
    <3>6. QED
      BY <2>1, <3>2, <3>3, <3>5
  <2>2. CASE u # t
    <3>1. g # h /\ handlers[g].id = u
      BY <1>1, <1>2, <2>2
    <3>2. /\ \A f \in Handlers : handlers[f].id = u => f = g
          /\ Stage(g)
      BY <1>3, <3>1 DEF HoldingIInv, OneByOne
    <3>3. QED
      BY <1>1, <1>2, <2>2, <3>1, <3>2 DEF Stage
  <2>3. QED
    BY <2>1, <2>2
<1>7. QED
  BY <1>4, <1>5, <1>6 DEF Holding

LEMMA CreateTransferHolding ==
  ASSUME HoldingIInv, NEW t \in Transfers, NEW v \in Warehouses, NEW w \in Warehouses,
         NEW q \in Quantities, CreateTransfer(t, v, w, q)
  PROVE  Holding'
<1>1. /\ transfers[t].status = "none" /\ transfers'[t].status = "pending"
      /\ \A u \in Transfers : u # t => transfers'[u] = transfers[u]
      /\ UNCHANGED <<handlers, held, faults, disturbed>>
  BY DEF CreateTransfer, HoldingIInv, TransfersIInv, TypeOK
<1>2. \A g \in Handlers : handlers[g].id # t
  BY <1>1, IdleOnNothing
<1>3. QED
  BY <1>1, <1>2 DEF Holding, HoldingIInv, IdleMeansIdle, HoldsWhileInTransit, OneByOne, Stage

(* A failure ends what the account is stated for.                           *)

LEMMA FailuresHolding ==
  ASSUME HoldingIInv, NEW h \in Handlers, DestinationFails(h) \/ Abort(h)
  PROVE  Holding'
<1>1. faults' # 0
  BY DEF DestinationFails, Abort, HoldingIInv, TransfersIInv, TypeOK
<1>2. handlers'[h] = Idle \/ handlers'[h].at = "undo"
  BY Busy DEF DestinationFails, Abort, Step, Goto, HoldingIInv, TransfersIInv, TypeOK, Handler
<1>3. \A g \in Handlers : g # h => handlers'[g] = handlers[g]
  BY DEF DestinationFails, Abort, Step, Goto, HoldingIInv, TransfersIInv, TypeOK
<1>4. IdleMeansIdle'
  BY <1>2, <1>3 DEF IdleMeansIdle, HoldingIInv
<1>5. QED
  BY <1>1, <1>4 DEF Holding, HoldsWhileInTransit, OneByOne

LEMMA NextHolding == HoldingIInv /\ [Next]_vars => HoldingIInv'
<1> SUFFICES ASSUME HoldingIInv, [Next]_vars PROVE HoldingIInv'
  OBVIOUS
<1>1. TransfersIInv'
  BY NextIInv DEF HoldingIInv
<1>2. CASE UNCHANGED vars
  BY <1>1, <1>2 DEF vars, HoldingIInv, IdleMeansIdle, HoldsWhileInTransit, OneByOne, Stage
<1>3. ASSUME NEW t \in Transfers, NEW v \in Warehouses, NEW w \in Warehouses,
             NEW q \in Quantities, CreateTransfer(t, v, w, q)
      PROVE  Holding'
  BY <1>3, CreateTransferHolding
<1>4. ASSUME NEW h \in Handlers, NEW t \in Transfers, RequestStep(h, t)
      PROVE  Holding'
  <2>1. CASE StartTransfer(h, t)
    BY <2>1, BeginHolding DEF StartTransfer
  <2>2. CASE CompleteTransfer(h, t)
    BY <2>2, BeginHolding DEF CompleteTransfer
  <2>3. CASE CancelTransfer(h, t)
    BY <2>3, BeginHolding DEF CancelTransfer
  <2>4. QED
    BY <1>4, <2>1, <2>2, <2>3 DEF RequestStep
<1>5. ASSUME NEW h \in Handlers, Continue(h) PROVE Holding'
  BY <1>5, ContinueHolding
<1>6. ASSUME NEW h \in Handlers, DestinationFails(h) \/ Abort(h) PROVE Holding'
  BY <1>6, FailuresHolding
<1>7. ASSUME NEW w \in Warehouses,
             CustomerReserves(w) \/ CustomerReleases(w)
             \/ \E n \in Counts : UpdateInventory(w, n)
      PROVE  Holding'
  <2>1. UNCHANGED <<transfers, handlers, held, faults, disturbed>>
    BY <1>7 DEF CustomerReserves, CustomerReleases, UpdateInventory
  <2>2. QED
    BY <2>1 DEF Holding, HoldingIInv, IdleMeansIdle, HoldsWhileInTransit, OneByOne, Stage
<1>8. Holding' => HoldingIInv'
  BY <1>1 DEF Holding, HoldingIInv
<1>9. QED
  BY <1>2, <1>3, <1>4, <1>5, <1>6, <1>7, <1>8 DEF Next

(* Without failures, a transfer whose requests came one after the other has *)
(* one request at most, and its next query tells what it holds.             *)

THEOREM TransfersAccount == Spec => []HoldingIInv
<1>1. Init => HoldingIInv
  BY InitIInv, InitHolding DEF Holding, HoldingIInv
<1>2. QED
  BY <1>1, NextHolding, PTL DEF Spec

(* Hence such a transfer holds its stock precisely while it is in transit.  *)

THEOREM TransfersHoldInTransit == Spec => []HoldsWhileInTransit
<1>1. HoldingIInv => HoldsWhileInTransit
  BY DEF HoldingIInv
<1>2. QED
  BY <1>1, TransfersAccount, PTL

-----------------------------------------------------------------------------
(* The account of a warehouse.                                              *)

Balanced(w) ==
  faults = 0 /\ disturbed = {} => inventory[w].reserved = customers[w] + HeldAt(w)

LEMMA AccountIsBalance == ExactUnlessDisturbed <=> \A w \in Warehouses : Balanced(w)
BY DEF ExactUnlessDisturbed, Balanced

(* The units are natural numbers, and none of them exceeds their sum.       *)

LEMMA PartsTyped ==
  ASSUME TypeOK, NEW w \in Warehouses
  PROVE  /\ HeldUnits(w) \in [Transfers -> Nat] /\ HeldAt(w) \in Nat
         /\ \A t \in Transfers : HeldUnits(w)[t] <= HeldAt(w)
         /\ inventory[w] \in StockRow /\ inventory[w].reserved \in Nat /\ customers[w] \in Nat
<1>1. \A t \in Transfers : held[t] \in Nat /\ transfers[t].quantity \in Nat
  BY DEF TypeOK, Transfer
<1>2. \A k, q \in Nat : k * q \in Nat
  OBVIOUS
<1>3. HeldUnits(w) \in [Transfers -> Nat]
  BY <1>1, <1>2 DEF HeldUnits
<1>4. HeldAt(w) \in Nat /\ \A t \in Transfers : HeldUnits(w)[t] <= HeldAt(w)
  BY <1>3, SumBounds, TransfersAssumption DEF HeldAt
<1> QED BY <1>3, <1>4 DEF TypeOK, StockRow

(* A step that changes what one transfer holds changes the sum by as much.  *)

LEMMA HeldChange ==
  ASSUME TypeOK, TypeOK', NEW w \in Warehouses, NEW t \in Transfers,
         transfers' = transfers, \A u \in Transfers \ {t} : held'[u] = held[u]
  PROVE  /\ HeldAt(w)' = HeldAt(w) - HeldUnits(w)[t] + HeldUnits(w)'[t]
         /\ HeldAt(w)' \in Nat
<1>1. HeldUnits(w) \in [Transfers -> Nat]
  BY PartsTyped
<1>2. \A u \in Transfers : held'[u] \in Nat /\ transfers[u].quantity \in Nat
  BY DEF TypeOK, Transfer
<1>3. \A k, q \in Nat : k * q \in Nat
  OBVIOUS
<1>4. HeldUnits(w)' \in [Transfers -> Nat]
  BY <1>2, <1>3 DEF HeldUnits
<1>5. \A u \in Transfers \ {t} : HeldUnits(w)'[u] = HeldUnits(w)[u]
  BY DEF HeldUnits
<1>6. PICK f \in [Transfers -> Nat], g \in [Transfers -> Nat] :
        f = HeldUnits(w) /\ g = HeldUnits(w)'
  BY <1>1, <1>4
<1>7. SumFunction(g) = SumFunction(f) - f[t] + g[t]
  BY <1>5, <1>6, SumChange, TransfersAssumption
<1>8. SumFunction(g) \in Nat
  BY SumBounds, TransfersAssumption
<1> QED BY <1>6, <1>7, <1>8 DEF HeldAt

(* One reservation more, or one less, of a transfer.                        *)

LEMMA OneMore ==
  ASSUME NEW k \in Nat, NEW q \in Nat
  PROVE  /\ k * q \in Nat /\ (k + 1) * q = k * q + q
         /\ k > 0 => (k - 1) * q = k * q - q /\ q <= k * q
<1>1. k * q \in Nat /\ (k + 1) * q = k * q + q
  OBVIOUS
<1>2. ASSUME k > 0 PROVE (k - 1) * q = k * q - q /\ q <= k * q
  <2>1. k - 1 \in Nat
    BY <1>2
  <2>2. PICK j \in Nat : k = j + 1
    BY <2>1
  <2>3. k * q = j * q + q /\ j * q \in Nat
    BY <2>2
  <2> QED BY <2>2, <2>3
<1> QED BY <1>1, <1>2

LEMMA InitAccount == Init => ExactUnlessDisturbed /\ HeldByTransfers
<1> SUFFICES ASSUME Init, NEW w \in Warehouses
             PROVE  inventory[w].reserved = 0 /\ customers[w] = 0 /\ HeldAt(w) = 0
  BY DEF Init, ExactUnlessDisturbed, HeldByTransfers
<1>1. inventory[w].reserved = 0 /\ customers[w] = 0
  BY DEF Init
<1>2. \A t \in Transfers : HeldUnits(w)[t] = 0
  BY DEF Init, HeldUnits, NoRow
<1>3. DOMAIN HeldUnits(w) = Transfers
  BY DEF HeldUnits
<1>4. HeldAt(w) = 0
  BY <1>2, <1>3, SumZero, TransfersAssumption DEF HeldAt, SumFunction
<1> QED BY <1>1, <1>4

(* A step that moves no unit, and forgives nothing.                         *)

LEMMA QuietAccount ==
  ASSUME TypeOK, ExactUnlessDisturbed, UNCHANGED customers,
         \A w \in Warehouses : inventory'[w].reserved = inventory[w].reserved,
         \A w \in Warehouses : HeldUnits(w)' = HeldUnits(w),
         faults' = 0 /\ disturbed' = {} => faults = 0 /\ disturbed = {}
  PROVE  ExactUnlessDisturbed'
<1> SUFFICES ASSUME NEW w \in Warehouses PROVE Balanced(w)'
  BY DEF ExactUnlessDisturbed, Balanced
<1>1. Balanced(w)
  BY AccountIsBalance
<1>2. HeldAt(w)' = HeldAt(w)
  BY DEF HeldAt
<1> QED BY <1>1, <1>2 DEF Balanced

(* Reserving at the source, by startTransfer or by the catch block of       *)
(* completeTransfer.                                                        *)

LEMMA ReserveAccount ==
  ASSUME TransfersIInv, TypeOK', ExactUnlessDisturbed, NEW h \in Handlers, handlers[h].at # "idle",
         inventory' = [inventory EXCEPT ![From(h)] = Reserve(@, Amount(h))],
         held' = [held EXCEPT ![handlers[h].id] = @ + 1],
         UNCHANGED <<transfers, customers, faults, disturbed>>
  PROVE  ExactUnlessDisturbed'
<1> SUFFICES ASSUME NEW w \in Warehouses PROVE Balanced(w)'
  BY DEF ExactUnlessDisturbed, Balanced
<1>1. PICK t \in Transfers, v \in Warehouses, q \in Nat :
        t = handlers[h].id /\ v = From(h) /\ q = Amount(h)
        /\ v = transfers[t].from /\ q = transfers[t].quantity
  BY Busy DEF From, Amount
<1>2. TypeOK /\ inventory[v] \in StockRow /\ held[t] \in Nat /\ held'[t] = held[t] + 1
  BY <1>1 DEF TransfersIInv, TypeOK
<1>3. inventory'[w].reserved = inventory[w].reserved + (IF v = w THEN q ELSE 0)
  <2>1. inventory' = [inventory EXCEPT ![v] = Reserve(@, q)]
    BY <1>1
  <2>2. /\ v # w => inventory'[w].reserved = inventory[w].reserved
        /\ v = w => inventory'[w].reserved = inventory[w].reserved + q
    BY <1>1, <1>2, <2>1, StockStatementsReserved DEF TypeOK
  <2>3. inventory[w].reserved \in Nat
    BY <1>2, PartsTyped
  <2> QED BY <2>2, <2>3
<1>4. HeldUnits(w)'[t] = HeldUnits(w)[t] + (IF v = w THEN q ELSE 0)
  <2>1. HeldUnits(w)[t] = IF v = w THEN held[t] * q ELSE 0
    BY <1>1 DEF HeldUnits
  <2>2. HeldUnits(w)'[t] = IF v = w THEN held'[t] * q ELSE 0
    BY <1>1 DEF HeldUnits
  <2>3. held[t] * q \in Nat /\ (held[t] + 1) * q = held[t] * q + q
    BY <1>2, OneMore
  <2> QED BY <1>2, <2>1, <2>2, <2>3
<1>5. \A u \in Transfers \ {t} : held'[u] = held[u]
  BY <1>1, <1>2 DEF TypeOK
<1>6. HeldAt(w)' = HeldAt(w) + (IF v = w THEN q ELSE 0) /\ HeldAt(w) \in Nat
  BY <1>1, <1>2, <1>4, <1>5, HeldChange, PartsTyped
<1>7. customers[w] \in Nat /\ inventory[w].reserved \in Nat
  BY <1>2, PartsTyped
<1>8. Balanced(w)
  BY AccountIsBalance
<1> QED BY <1>1, <1>3, <1>6, <1>7, <1>8 DEF Balanced

(* Giving back at the source, by completeTransfer or cancelTransfer: what   *)
(* is given back was held, unless the transfer is disturbed or something    *)
(* failed.                                                                  *)

LEMMA GiveBackAccount ==
  ASSUME HoldingIInv, TypeOK', ExactUnlessDisturbed, NEW h \in Handlers,
         handlers[h].at \in {"release", "free"}, GiveBackSource(h),
         UNCHANGED <<transfers, customers, faults, disturbed>>
  PROVE  ExactUnlessDisturbed'
<1> SUFFICES ASSUME NEW w \in Warehouses PROVE Balanced(w)'
  BY DEF ExactUnlessDisturbed, Balanced
<1>1. PICK t \in Transfers, v \in Warehouses, q \in Nat :
        t = handlers[h].id /\ v = From(h) /\ q = Amount(h)
        /\ v = transfers[t].from /\ q = transfers[t].quantity
  BY Busy DEF From, Amount, HoldingIInv
<1>2. TypeOK /\ inventory[v] \in StockRow /\ held[t] \in Nat
      /\ held'[t] = IF held[t] = 0 THEN 0 ELSE held[t] - 1
  BY <1>1 DEF HoldingIInv, TransfersIInv, TypeOK, GiveBackSource
<1>3. /\ v # w => inventory'[w].reserved = inventory[w].reserved
      /\ v = w => inventory'[w].reserved =
                    IF inventory[w].reserved > q THEN inventory[w].reserved - q ELSE 0
  <2>1. inventory' = [inventory EXCEPT ![v] = GiveBack(@, q)]
    BY <1>1 DEF GiveBackSource
  <2> QED BY <1>1, <1>2, <2>1, StockStatementsReserved DEF TypeOK
<1>4. /\ HeldUnits(w)'[t] = HeldUnits(w)[t] - (IF v = w /\ held[t] > 0 THEN q ELSE 0)
      /\ v = w /\ held[t] > 0 => q <= HeldUnits(w)[t]
      /\ HeldUnits(w)[t] \in Nat
  <2>1. HeldUnits(w)[t] = IF v = w THEN held[t] * q ELSE 0
    BY <1>1 DEF HeldUnits
  <2>2. HeldUnits(w)'[t] = IF v = w THEN held'[t] * q ELSE 0
    BY <1>1 DEF HeldUnits
  <2>3. held[t] > 0 => held'[t] * q = held[t] * q - q /\ q <= held[t] * q
    BY <1>1, <1>2, OneMore
  <2>4. held[t] = 0 => held'[t] * q = held[t] * q
    BY <1>1, <1>2
  <2>5. held[t] * q \in Nat
    BY <1>1, <1>2, OneMore
  <2> QED BY <1>2, <2>1, <2>2, <2>3, <2>4, <2>5
<1>5. \A u \in Transfers \ {t} : held'[u] = held[u]
  BY <1>1, <1>2 DEF TypeOK, GiveBackSource
<1>6. HeldAt(w)' = HeldAt(w) - (IF v = w /\ held[t] > 0 THEN q ELSE 0)
      /\ HeldAt(w) \in Nat /\ HeldUnits(w)[t] <= HeldAt(w)
  BY <1>1, <1>2, <1>4, <1>5, HeldChange, PartsTyped
<1>7. customers[w] \in Nat /\ inventory[w].reserved \in Nat
  BY <1>2, PartsTyped
<1>8. faults = 0 /\ disturbed = {} => held[t] > 0
  BY <1>1 DEF HoldingIInv, OneByOne, Stage
<1>9. Balanced(w)
  BY AccountIsBalance
<1>10. CASE v # w
  BY <1>1, <1>3, <1>6, <1>7, <1>9, <1>10 DEF Balanced
<1>11. CASE v = w /\ held[t] > 0
  BY <1>1, <1>3, <1>4, <1>6, <1>7, <1>9, <1>11 DEF Balanced
<1>12. CASE v = w /\ held[t] = 0
  BY <1>1, <1>2, <1>3, <1>6, <1>7, <1>8, <1>9, <1>12 DEF Balanced
<1> QED BY <1>2, <1>10, <1>11, <1>12

LEMMA CustomersAccount ==
  ASSUME TypeOK, TypeOK', ExactUnlessDisturbed, NEW w \in Warehouses,
         CustomerReserves(w) \/ CustomerReleases(w)
  PROVE  ExactUnlessDisturbed'
<1> SUFFICES ASSUME NEW v \in Warehouses PROVE Balanced(v)'
  BY DEF ExactUnlessDisturbed, Balanced
<1>1. /\ inventory[w] \in StockRow /\ customers[w] \in Nat
      /\ inventory[v].reserved \in Nat /\ customers[v] \in Nat /\ HeldAt(v) \in Nat
  BY PartsTyped
<1>2. HeldAt(v)' = HeldAt(v) /\ UNCHANGED <<faults, disturbed>>
  BY DEF HeldAt, HeldUnits, CustomerReserves, CustomerReleases
<1>3. Balanced(v)
  BY AccountIsBalance
<1>4. CASE v # w
  BY <1>1, <1>2, <1>3, <1>4 DEF CustomerReserves, CustomerReleases, TypeOK, Balanced
<1>5. CASE v = w /\ CustomerReserves(w)
  <2>1. inventory'[w].reserved = inventory[w].reserved + 1 /\ customers'[w] = customers[w] + 1
    BY <1>1, <1>5, StockStatementsReserved DEF CustomerReserves, TypeOK
  <2> QED BY <1>1, <1>2, <1>3, <1>5, <2>1 DEF Balanced
<1>6. CASE v = w /\ CustomerReleases(w)
  <2>1. /\ inventory'[w].reserved =
             IF inventory[w].reserved > 1 THEN inventory[w].reserved - 1 ELSE 0
        /\ customers'[w] = customers[w] - 1 /\ customers[w] > 0
    BY <1>1, <1>6, StockStatementsReserved DEF CustomerReleases, TypeOK
  <2> QED BY <1>1, <1>2, <1>3, <1>6, <2>1 DEF Balanced
<1> QED BY <1>4, <1>5, <1>6

(* The destination and the administrator write quantities only.             *)

LEMMA QuantityAccount ==
  ASSUME TypeOK, ExactUnlessDisturbed, NEW w \in Warehouses, NEW n \in Nat,
         inventory' = [inventory EXCEPT ![w] = SetQuantity(@, n)],
         UNCHANGED <<transfers, held, customers, faults, disturbed>>
  PROVE  ExactUnlessDisturbed'
<1>1. \A v \in Warehouses : inventory'[v].reserved = inventory[v].reserved
  BY StockStatementsReserved DEF TypeOK
<1>2. \A v \in Warehouses : HeldUnits(v)' = HeldUnits(v)
  BY DEF HeldUnits
<1> QED BY <1>1, <1>2, QuietAccount

(* A step that leaves stock, accounts and transfers alone.                  *)

LEMMA ElsewhereAccount ==
  ASSUME TypeOK, ExactUnlessDisturbed, UNCHANGED <<inventory, transfers, held, customers>>,
         faults' = 0 /\ disturbed' = {} => faults = 0 /\ disturbed = {}
  PROVE  ExactUnlessDisturbed'
<1>1. \A v \in Warehouses : HeldUnits(v)' = HeldUnits(v)
  BY DEF HeldUnits
<1> QED BY <1>1, QuietAccount

(* A status written by a method keeps the row of the transfer.              *)

LEMMA StatusAccount ==
  ASSUME TransfersIInv, ExactUnlessDisturbed, NEW h \in Handlers, handlers[h].at # "idle",
         NEW s, SetStatus(h, s), UNCHANGED <<inventory, held, customers, faults, disturbed>>
  PROVE  ExactUnlessDisturbed'
<1>1. \A t \in Transfers : /\ transfers'[t].from = transfers[t].from
                          /\ transfers'[t].quantity = transfers[t].quantity
  BY DEF SetStatus, TransfersIInv, TypeOK, Transfer
<1>2. \A v \in Warehouses : HeldUnits(v)' = HeldUnits(v)
  BY <1>1 DEF HeldUnits
<1> QED BY <1>2, QuietAccount DEF TransfersIInv

(* A new transfer holds nothing.                                            *)

LEMMA CreateAccount ==
  ASSUME TypeOK, TypeOK', ExactUnlessDisturbed, HeldByTransfers, NEW t \in Transfers,
         NEW v \in Warehouses, NEW w \in Warehouses, NEW q \in Quantities,
         CreateTransfer(t, v, w, q)
  PROVE  ExactUnlessDisturbed'
<1>1. held[t] = 0 /\ held' = held
  BY DEF HeldByTransfers, CreateTransfer
<1>2. \A u \in Transfers \ {t} : transfers'[u] = transfers[u]
  BY DEF CreateTransfer, TypeOK
<1>3. transfers[t].quantity \in Nat /\ transfers'[t].quantity \in Nat
  BY DEF TypeOK, Transfer
<1>4. \A u \in Transfers, x \in Warehouses : HeldUnits(x)'[u] = HeldUnits(x)[u]
  <2> SUFFICES ASSUME NEW u \in Transfers, NEW x \in Warehouses
               PROVE  HeldUnits(x)'[u] = HeldUnits(x)[u]
    OBVIOUS
  <2>1. CASE u # t
    BY <1>1, <1>2, <2>1 DEF HeldUnits
  <2>2. CASE u = t
    <3>1. HeldUnits(x)[t] = 0
      BY <1>1, <1>3 DEF HeldUnits
    <3>2. HeldUnits(x)'[t] = 0
      BY <1>1, <1>3 DEF HeldUnits
    <3> QED BY <2>2, <3>1, <3>2
  <2> QED BY <2>1, <2>2
<1>5. \A x \in Warehouses : HeldUnits(x)' = HeldUnits(x)
  <2> TAKE x \in Warehouses
  <2>1. HeldUnits(x) = [u \in Transfers |-> HeldUnits(x)[u]]
        /\ HeldUnits(x)' = [u \in Transfers |-> HeldUnits(x)'[u]]
    BY DEF HeldUnits
  <2> QED BY <1>4, <2>1
<1> QED BY <1>5, QuietAccount DEF CreateTransfer

-----------------------------------------------------------------------------
(* Every step keeps the account, and only transfers that exist hold stock.  *)

LEMMA NextHeld ==
  ASSUME TransfersIInv, TypeOK', HeldByTransfers, [Next]_vars
  PROVE  HeldByTransfers'
<1>1. TypeOK
  BY DEF TransfersIInv
<1>2. CASE held' = held /\ \A t \in Transfers : transfers'[t].status = "none"
                                                => transfers[t].status = "none"
  BY <1>2 DEF HeldByTransfers
<1>3. ASSUME NEW h \in Handlers, handlers[h].at # "idle", transfers' = transfers,
             \A t \in Transfers : t # handlers[h].id => held'[t] = held[t]
      PROVE  HeldByTransfers'
  BY <1>3, Busy DEF HeldByTransfers
<1>4. ASSUME NEW h \in Handlers, NEW s \in {"in_transit", "completed", "cancelled"},
             handlers[h].at # "idle", SetStatus(h, s), held' = held
      PROVE  HeldByTransfers'
  BY <1>1, <1>4, Busy DEF HeldByTransfers, SetStatus, TypeOK, Transfer
<1>5. ASSUME NEW t \in Transfers, NEW v \in Warehouses, NEW w \in Warehouses,
             NEW q \in Quantities, CreateTransfer(t, v, w, q)
      PROVE  HeldByTransfers'
  BY <1>1, <1>5 DEF CreateTransfer, HeldByTransfers, TypeOK
<1>6. ASSUME NEW h \in Handlers, Continue(h) PROVE HeldByTransfers'
  <2>1. CASE Depart(h) \/ Arrive(h) \/ MarkCancelled(h)
    BY <1>4, <2>1 DEF Depart, Arrive, MarkCancelled
  <2>2. CASE ReadDestination(h) \/ SetDestination(h) \/ CreateDestination(h)
    BY <1>2, <2>2 DEF ReadDestination, SetDestination, CreateDestination
  <2>3. CASE ReserveSource(h) \/ ReserveAgain(h)
    BY <1>1, <1>3, <2>3 DEF ReserveSource, ReserveAgain, TypeOK
  <2>4. CASE ReleaseSource(h) \/ FreeSource(h)
    BY <1>1, <1>3, <2>4 DEF ReleaseSource, FreeSource, GiveBackSource, TypeOK
  <2> QED BY <1>6, <2>1, <2>2, <2>3, <2>4 DEF Continue
<1>7. ASSUME UNCHANGED <<transfers, held>> PROVE HeldByTransfers'
  BY <1>7 DEF HeldByTransfers
<1>8. ASSUME NEW h \in Handlers, NEW t \in Transfers, RequestStep(h, t) PROVE HeldByTransfers'
  BY <1>7, <1>8 DEF RequestStep, StartTransfer, CompleteTransfer, CancelTransfer
<1>9. ASSUME NEW h \in Handlers, DestinationFails(h) \/ Abort(h) PROVE HeldByTransfers'
  BY <1>7, <1>9 DEF DestinationFails, Abort
<1>10. ASSUME NEW w \in Warehouses,
             CustomerReserves(w) \/ CustomerReleases(w)
             \/ \E n \in Counts : UpdateInventory(w, n)
      PROVE  HeldByTransfers'
  BY <1>7, <1>10 DEF CustomerReserves, CustomerReleases, UpdateInventory
<1>11. CASE UNCHANGED vars
  BY <1>7, <1>11 DEF vars
<1> QED BY <1>5, <1>6, <1>8, <1>9, <1>10, <1>11 DEF Next

LEMMA ContinueAccount ==
  ASSUME HoldingIInv, TypeOK', ExactUnlessDisturbed, NEW h \in Handlers, Continue(h)
  PROVE  ExactUnlessDisturbed'
<1>1. TransfersIInv /\ TypeOK
  BY DEF HoldingIInv, TransfersIInv
<1>2. CASE Depart(h) \/ Arrive(h) \/ MarkCancelled(h)
  BY <1>1, <1>2, StatusAccount DEF Depart, Arrive, MarkCancelled
<1>3. CASE ReserveSource(h)
  BY <1>1, <1>3, ReserveAccount, ElsewhereAccount DEF ReserveSource
<1>4. CASE ReserveAgain(h)
  <2>1. CASE CanReserve(inventory[From(h)], Amount(h))
    BY <1>1, <1>4, <2>1, ReserveAccount DEF ReserveAgain
  <2>2. CASE ~CanReserve(inventory[From(h)], Amount(h))
    <3>1. disturbed' # {} /\ UNCHANGED <<inventory, transfers, held, customers>>
      BY <1>4, <2>2 DEF ReserveAgain
    <3> QED BY <1>1, <3>1, ElsewhereAccount
  <2> QED BY <2>1, <2>2
<1>5. CASE ReleaseSource(h) \/ FreeSource(h)
  BY <1>5, GiveBackAccount DEF ReleaseSource, FreeSource
<1>6. CASE ReadDestination(h)
  BY <1>1, <1>6, ElsewhereAccount DEF ReadDestination
<1>7. CASE SetDestination(h)
  <2>1. handlers[h].total \in Nat /\ To(h) \in Warehouses
    BY <1>1, <1>7, Busy DEF SetDestination, Handler
  <2> QED BY <1>1, <1>7, <2>1, QuantityAccount DEF SetDestination
<1>8. CASE CreateDestination(h)
  <2>1. Amount(h) \in Nat /\ To(h) \in Warehouses
    BY <1>1, <1>8, Busy DEF CreateDestination
  <2> QED BY <1>1, <1>8, <2>1, QuantityAccount, ElsewhereAccount DEF CreateDestination
<1> QED BY <1>2, <1>3, <1>4, <1>5, <1>6, <1>7, <1>8 DEF Continue

LEMMA NextAccount ==
  ASSUME HoldingIInv, TypeOK', ExactUnlessDisturbed, HeldByTransfers, [Next]_vars
  PROVE  ExactUnlessDisturbed'
<1>1. TransfersIInv /\ TypeOK
  BY DEF HoldingIInv, TransfersIInv
<1>2. ASSUME NEW h \in Handlers, NEW t \in Transfers, RequestStep(h, t)
      PROVE  ExactUnlessDisturbed'
  <2>1. disturbed' = {} => disturbed = {}
    BY <1>2 DEF RequestStep, StartTransfer, CompleteTransfer, CancelTransfer, Begin
  <2> QED BY <1>1, <1>2, <2>1, ElsewhereAccount
          DEF RequestStep, StartTransfer, CompleteTransfer, CancelTransfer
<1>3. ASSUME NEW h \in Handlers, DestinationFails(h) \/ Abort(h)
      PROVE  ExactUnlessDisturbed'
  <2>1. faults' # 0 /\ UNCHANGED <<inventory, transfers, held, customers>>
    BY <1>1, <1>3 DEF DestinationFails, Abort, TypeOK
  <2> QED BY <1>1, <2>1, ElsewhereAccount
<1>4. ASSUME NEW w \in Warehouses,
             CustomerReserves(w) \/ CustomerReleases(w)
             \/ \E n \in Counts : UpdateInventory(w, n)
      PROVE  ExactUnlessDisturbed'
  BY <1>1, <1>4, CustomersAccount, QuantityAccount, TransfersAssumption DEF UpdateInventory
<1>5. CASE UNCHANGED vars
  BY <1>1, <1>5, ElsewhereAccount DEF vars
<1> QED BY <1>1, <1>2, <1>3, <1>4, <1>5, CreateAccount, ContinueAccount DEF Next

-----------------------------------------------------------------------------
(* How often a transfer arrives.                                            *)

(* What ArrivalsCounted says of one transfer.                               *)

CountHolds(t) ==
  /\ \A g, h \in Handlers : handlers[g].id = t /\ handlers[h].id = t => g = h
  /\ \A h \in Handlers : handlers[h].id = t => Standing(h)
  /\ arrived[t] <= faults + (IF Counted(t) THEN 1 ELSE 0)

LEMMA CountsAre == ArrivalsCounted <=> \A t \in Transfers \ disturbed : CountHolds(t)
BY DEF ArrivalsCounted, CountHolds

LEMMA InitCounted == Init => ArrivalsCounted
<1>1. Idle.id \notin Transfers
  BY TransfersAssumption DEF Idle
<1> QED BY <1>1 DEF Init, ArrivalsCounted, Counted

(* A step that leaves a transfer, the requests on it and its arrivals alone.*)

LEMMA ElsewhereCounted ==
  ASSUME TypeOK, TypeOK', NEW u \in Transfers, CountHolds(u), faults <= faults',
         arrived'[u] = arrived[u], transfers'[u].status = transfers[u].status,
         \A g \in Handlers : \/ handlers'[g] = handlers[g]
                             \/ handlers[g].id # u /\ handlers'[g].id # u
  PROVE  CountHolds(u)'
<1>1. /\ \A g \in Handlers : handlers'[g].id = u <=> handlers[g].id = u
      /\ \A g \in Handlers : handlers[g].id = u => handlers'[g] = handlers[g]
  OBVIOUS
<1>2. \A g \in Handlers : handlers[g].id = u /\ Standing(g) => Standing(g)'
  BY <1>1 DEF Standing
<1>3. Counted(u)' <=> Counted(u)
  BY <1>1 DEF Counted
<1>4. arrived[u] \in Nat /\ faults \in Nat /\ faults' \in Nat
  BY DEF TypeOK
<1>5. arrived'[u] <= faults' + (IF Counted(u)' THEN 1 ELSE 0)
  BY <1>3, <1>4 DEF CountHolds
<1> QED BY <1>1, <1>2, <1>5 DEF CountHolds

(* A step of one handler on transfer t, within its method or to its end.    *)
(* Only the write of the destination adds an arrival, and then the request  *)
(* is about to mark the row; a failure makes room for what was counted.     *)

LEMMA StepCounted ==
  ASSUME HoldingIInv, TypeOK', ArrivalsCounted, NEW h \in Handlers, handlers[h].at # "idle",
         NEW t \in Transfers, t = handlers[h].id,
         NEW s \in Handler, Goto(h, s), s = Idle \/ s.id = t,
         faults <= faults', disturbed \subseteq disturbed',
         \A u \in Transfers : u # t =>
           arrived'[u] = arrived[u] /\ transfers'[u].status = transfers[u].status,
         s = Idle \/ (Standing(h) => Standing(h)'),
         Standing(h) /\ arrived[t] <= faults + (IF handlers[h].at = "arrive" THEN 1 ELSE 0) =>
           arrived'[t] <= faults' + (IF s.at = "arrive" \/ transfers'[t].status = "completed"
                                     THEN 1 ELSE 0)
  PROVE  ArrivalsCounted'
<1>1. TypeOK /\ Idle.id \notin Transfers /\ Idle.at = "idle"
  BY TransfersAssumption DEF HoldingIInv, TransfersIInv, Idle
<1>2. /\ handlers'[h] = s
      /\ \A g \in Handlers : g # h => handlers'[g] = handlers[g]
  BY <1>1 DEF Goto, TypeOK
<1> SUFFICES ASSUME NEW u \in Transfers, u \notin disturbed' PROVE CountHolds(u)'
  BY DEF ArrivalsCounted, CountHolds
<1>3. CountHolds(u)
  BY CountsAre
<1>4. CASE u # t
  <2>1. handlers[h].id # u /\ s.id # u
    BY <1>1, <1>4
  <2>2. \A g \in Handlers : \/ handlers'[g] = handlers[g]
                            \/ handlers[g].id # u /\ handlers'[g].id # u
    BY <1>2, <2>1
  <2> QED BY <1>1, <1>3, <1>4, <2>2, ElsewhereCounted
<1>5. CASE u = t
  <2>1. \A g \in Handlers : handlers[g].id = t => g = h
    BY <1>3, <1>5 DEF CountHolds
  <2>2. \A g \in Handlers : handlers'[g].id = t => g = h /\ s # Idle
    BY <1>1, <1>2, <2>1
  <2>3. Standing(h)
    BY <1>3, <1>5 DEF CountHolds
  <2>4. Counted(t) => handlers[h].at = "arrive" \/ transfers[t].status = "completed"
    BY <2>1 DEF Counted
  <2>5. transfers[t].status # "completed"
    BY <1>1, <2>3 DEF Standing
  <2>6. arrived[t] <= faults + (IF handlers[h].at = "arrive" THEN 1 ELSE 0)
    <3>1. arrived[t] \in Nat /\ faults \in Nat
      BY <1>1 DEF TypeOK
    <3> QED BY <1>3, <1>5, <2>4, <2>5, <3>1 DEF CountHolds
  <2>7. s.at = "arrive" => Counted(t)'
    <3>1. s.at = "arrive" => s # Idle
      BY <1>1
    <3> QED BY <1>2, <3>1 DEF Counted
  <2>8. transfers'[t].status = "completed" => Counted(t)'
    BY DEF Counted
  <2>9. arrived'[t] <= faults' + (IF Counted(t)' THEN 1 ELSE 0)
    <3>1. arrived'[t] \in Nat /\ faults' \in Nat
      BY DEF TypeOK
    <3> QED BY <2>3, <2>6, <2>7, <2>8, <3>1
  <2> QED BY <1>5, <2>2, <2>3, <2>9 DEF CountHolds
<1> QED BY <1>4, <1>5

(* A handler that goes on with its transfer t.                              *)

GoesTo(h, t, n) ==
  \E s \in Handler : s.at = n /\ s.id = t /\ Goto(h, s) /\ handlers'[h] = s

LEMMA GoesOn ==
  ASSUME TypeOK, NEW h \in Handlers, NEW t \in Transfers, t = handlers[h].id,
         NEW n \in {"depart", "dest", "set", "create", "arrive", "undo", "cancel"},
         Step(h, n)
  PROVE  GoesTo(h, t, n)
<1>1. handlers[h] \in Handler /\ handlers \in [Handlers -> Handler]
  BY DEF TypeOK
<1>2. PICK r \in Handler : r = handlers[h]
  BY <1>1
<1> DEFINE s == [r EXCEPT !.at = n]
<1>3. s \in Handler /\ s.at = n /\ s.id = r.id
  BY DEF Handler
<1>4. Goto(h, s)
  BY <1>2, Zenon DEF Step
<1> HIDE DEF s
<1>5. handlers'[h] = s
  BY <1>1, <1>4 DEF Goto
<1> QED BY <1>2, <1>3, <1>4, <1>5 DEF GoesTo

LEMMA GoesOnWith ==
  ASSUME TypeOK, NEW h \in Handlers, NEW t \in Transfers, t = handlers[h].id,
         NEW n \in {"depart", "dest", "set", "create", "arrive", "undo", "cancel"},
         NEW m \in Nat, Goto(h, [handlers[h] EXCEPT !.at = n, !.total = m])
  PROVE  GoesTo(h, t, n)
<1>1. handlers[h] \in Handler /\ handlers \in [Handlers -> Handler]
  BY DEF TypeOK
<1>2. PICK r \in Handler : r = handlers[h]
  BY <1>1
<1> DEFINE s == [r EXCEPT !.at = n, !.total = m]
<1>3. s \in Handler /\ s.at = n /\ s.id = r.id
  BY DEF Handler
<1>4. Goto(h, s)
  BY <1>2, Zenon DEF Step
<1> HIDE DEF s
<1>5. handlers'[h] = s
  BY <1>1, <1>4 DEF Goto
<1> QED BY <1>2, <1>3, <1>4, <1>5 DEF GoesTo

LEMMA ContinueCounted ==
  ASSUME HoldingIInv, TypeOK', ArrivalsCounted, NEW h \in Handlers, Continue(h)
  PROVE  ArrivalsCounted'
<1>1. /\ handlers[h].at # "idle" /\ faults' = faults /\ disturbed \subseteq disturbed'
      /\ TransfersIInv /\ TypeOK
  BY DEF Continue, ReserveSource, Depart, ReleaseSource, ReadDestination, SetDestination,
         CreateDestination, ReserveAgain, Arrive, FreeSource, MarkCancelled,
         HoldingIInv, TransfersIInv
<1>2. PICK t \in Transfers : t = handlers[h].id
  BY <1>1, Busy
<1>3. /\ handlers[h] \in Handler /\ transfers[t] \in Transfer /\ transfers \in [Transfers -> Transfer]
      /\ handlers \in [Handlers -> Handler] /\ arrived \in [Transfers -> Nat] /\ faults \in Nat
  BY <1>1 DEF TypeOK
<1>5. Idle \in Handler /\ Idle.at = "idle"
  BY IdleTyped
(* A step that writes neither status nor destination and goes on to at, or returns. *)
<1>6. ASSUME UNCHANGED <<transfers, arrived>>, NEW s \in Handler, Goto(h, s),
             s = Idle \/ s.id = t, handlers[h].at # "arrive",
             s = Idle \/ (Standing(h) => Standing(h)')
      PROVE  ArrivalsCounted'
  BY <1>1, <1>2, <1>3, <1>6, StepCounted
<1>7. CASE ReserveSource(h)
  <2>1. CASE Step(h, "depart")
    <3>2. PICK s \in Handler : s.at = "depart" /\ s.id = t /\ Goto(h, s) /\ handlers'[h] = s
      BY <1>1, <1>2, <2>1, GoesOn DEF GoesTo
    <3>3. Standing(h) => Standing(h)'
      BY <1>2, <1>7, <3>2 DEF ReserveSource, Standing
    <3> QED BY <1>6, <1>7, <3>2, <3>3 DEF ReserveSource
  <2>2. CASE Goto(h, Idle)
    BY <1>5, <1>6, <1>7, <2>2 DEF ReserveSource
  <2> QED BY <1>7, <2>1, <2>2 DEF ReserveSource
<1>8. CASE Depart(h) \/ MarkCancelled(h)
  <2>1. /\ \A u \in Transfers : u # t => transfers'[u] = transfers[u]
        /\ Goto(h, Idle) /\ arrived' = arrived /\ handlers[h].at # "arrive"
    BY <1>2, <1>3, <1>8 DEF Depart, MarkCancelled, SetStatus
  <2> QED BY <1>1, <1>2, <1>3, <1>5, <2>1, StepCounted
<1>9. CASE Arrive(h)
  <2>1. /\ \A u \in Transfers : u # t => transfers'[u] = transfers[u]
        /\ transfers'[t].status = "completed"
        /\ Goto(h, Idle) /\ arrived' = arrived /\ handlers[h].at = "arrive"
    BY <1>2, <1>3, <1>9 DEF Arrive, SetStatus, Transfer
  <2> QED BY <1>1, <1>2, <1>3, <1>5, <2>1, StepCounted
<1>10. CASE ReleaseSource(h) \/ FreeSource(h)
  <2>1. PICK n \in {"dest", "cancel"} : Step(h, n)
          /\ (n = "dest" => handlers[h].at = "release") /\ (n = "cancel" => handlers[h].at = "free")
    BY <1>10 DEF ReleaseSource, FreeSource
  <2>3. PICK s \in Handler : s.at = n /\ s.id = t /\ Goto(h, s) /\ handlers'[h] = s
    BY <1>1, <1>2, <2>1, GoesOn DEF GoesTo
  <2>4. UNCHANGED <<transfers, arrived>> /\ handlers[h].at \in {"release", "free"}
    BY <1>10 DEF ReleaseSource, FreeSource
  <2>5. Standing(h) => Standing(h)'
    BY <1>2, <2>1, <2>3, <2>4 DEF Standing
  <2> QED BY <1>6, <2>3, <2>4, <2>5
<1>11. CASE ReadDestination(h)
  <2>1. inventory[To(h)].quantity + Amount(h) \in Nat
    BY <1>1, Busy DEF TypeOK, StockRow
  <2>2. PICK n \in {"set", "create"}, m \in Nat :
          Goto(h, [handlers[h] EXCEPT !.at = n, !.total = m]) \/ Step(h, n)
    BY <1>11, <2>1 DEF ReadDestination
  <2>3. GoesTo(h, t, n)
    <3>1. CASE Step(h, n)
      BY <1>1, <1>2, <3>1, GoesOn
    <3>2. CASE Goto(h, [handlers[h] EXCEPT !.at = n, !.total = m])
      BY <1>1, <1>2, <3>2, GoesOnWith
    <3> QED BY <2>2, <3>1, <3>2, Zenon
  <2>4. PICK s \in Handler : s.at = n /\ s.id = t /\ Goto(h, s) /\ handlers'[h] = s
    BY <2>3 DEF GoesTo
  <2>5. UNCHANGED <<transfers, arrived>> /\ handlers[h].at = "dest"
    BY <1>11 DEF ReadDestination
  <2>6. Standing(h) => Standing(h)'
    BY <1>2, <2>4, <2>5 DEF Standing
  <2> QED BY <1>6, <2>4, <2>5, <2>6
<1>12. CASE Step(h, "arrive") /\ handlers[h].at \in {"set", "create"} /\ transfers' = transfers
            /\ arrived' = [arrived EXCEPT ![handlers[h].id] = @ + 1]
  <2>2. PICK s \in Handler : s.at = "arrive" /\ s.id = t /\ Goto(h, s) /\ handlers'[h] = s
    BY <1>1, <1>2, <1>12, GoesOn DEF GoesTo
  <2>3. Standing(h) => Standing(h)'
    BY <1>2, <1>12, <2>2 DEF Standing
  <2>4. /\ \A u \in Transfers : u # t => arrived'[u] = arrived[u]
        /\ arrived'[t] = arrived[t] + 1
    BY <1>2, <1>3, <1>12
  <2>5. Standing(h) /\ arrived[t] <= faults + (IF handlers[h].at = "arrive" THEN 1 ELSE 0)
        => arrived'[t] <= faults' + (IF s.at = "arrive" \/ transfers'[t].status = "completed"
                                     THEN 1 ELSE 0)
    BY <1>1, <1>3, <1>12, <2>2, <2>4
  <2>6. faults <= faults' /\ \A u \in Transfers : transfers'[u] = transfers[u]
    BY <1>1, <1>3, <1>12
  <2> QED BY <1>1, <1>2, <2>2, <2>3, <2>4, <2>5, <2>6, StepCounted
<1>13. CASE SetDestination(h) \/ CreateDestination(h)
  <2>1. CASE Step(h, "arrive") /\ arrived' = [arrived EXCEPT ![handlers[h].id] = @ + 1]
    BY <1>12, <1>13, <2>1 DEF SetDestination, CreateDestination
  <2>2. CASE Step(h, "undo") /\ UNCHANGED arrived
    <3>2. PICK s \in Handler : s.at = "undo" /\ s.id = t /\ Goto(h, s) /\ handlers'[h] = s
      BY <1>1, <1>2, <2>2, GoesOn DEF GoesTo
    <3>3. transfers' = transfers /\ handlers[h].at \in {"set", "create"}
      BY <1>13 DEF SetDestination, CreateDestination
    <3>4. Standing(h) => Standing(h)'
      BY <1>2, <3>2, <3>3 DEF Standing
    <3> QED BY <1>6, <2>2, <3>2, <3>3, <3>4
  <2> QED BY <1>13, <2>1, <2>2 DEF SetDestination, CreateDestination
<1>14. CASE ReserveAgain(h)
  <2>1. Goto(h, Idle) /\ handlers[h].at = "undo" /\ UNCHANGED <<transfers, arrived>>
    BY <1>14 DEF ReserveAgain
  <2> QED BY <1>5, <1>6, <2>1
<1> QED BY <1>7, <1>8, <1>9, <1>10, <1>11, <1>13, <1>14 DEF Continue

(* A failure: the handler goes to its catch block or returns.               *)

LEMMA FailuresCounted ==
  ASSUME HoldingIInv, TypeOK', ArrivalsCounted, NEW h \in Handlers,
         DestinationFails(h) \/ Abort(h)
  PROVE  ArrivalsCounted'
<1>1. /\ handlers[h].at # "idle" /\ TransfersIInv /\ TypeOK
      /\ UNCHANGED <<transfers, arrived, disturbed>> /\ faults' = faults + 1
  BY DEF DestinationFails, Abort, HoldingIInv, IdleMeansIdle, TransfersIInv
<1>2. PICK t \in Transfers : t = handlers[h].id
  BY <1>1, Busy
<1>3. handlers[h] \in Handler /\ arrived[t] \in Nat /\ faults \in Nat
  BY <1>1 DEF TypeOK
<1>4. \A x : arrived[t] <= faults + (IF x THEN 1 ELSE 0) => arrived'[t] <= faults'
  BY <1>1, <1>3
<1>5. CASE DestinationFails(h)
  <2>1. PICK s \in Handler : s = [handlers[h] EXCEPT !.at = "undo"]
    BY <1>3 DEF Handler
  <2>2. s.at = "undo" /\ s.id = t /\ Goto(h, s) /\ handlers'[h] = s
    BY <1>1, <1>2, <1>3, <1>5, <2>1 DEF DestinationFails, Step, Goto, Handler, TypeOK
  <2>3. Standing(h) => Standing(h)'
    BY <1>1, <1>2, <1>5, <2>2 DEF Standing, DestinationFails
  <2> QED BY <1>1, <1>2, <1>3, <1>4, <2>2, <2>3, StepCounted
<1>6. CASE Abort(h)
  BY <1>1, <1>2, <1>3, <1>4, <1>6, IdleTyped, StepCounted DEF Abort
<1> QED BY <1>5, <1>6

(* A request on a transfer somebody works on disturbs it.                   *)

LEMMA BeginCounted ==
  ASSUME HoldingIInv, TypeOK', ArrivalsCounted, NEW h \in Handlers, NEW t \in Transfers,
         NEW at \in {"reserve", "release", "free", "cancel"}, Begin(h, t, at),
         UNCHANGED <<transfers, arrived, faults>>,
         at = "reserve" => transfers[t].status = "pending",
         at \in {"release", "free"} => transfers[t].status = "in_transit",
         at = "cancel" => transfers[t].status # "completed"
  PROVE  ArrivalsCounted'
<1> DEFINE s == [Idle EXCEPT !.at = at, !.id = t]
<1>1. s.at = at /\ s.id = t /\ Idle.id \notin Transfers /\ handlers[h] = Idle /\ TypeOK
  BY TransfersAssumption DEF Idle, Begin, HoldingIInv, TransfersIInv
<1>2. /\ handlers'[h] = s
      /\ \A g \in Handlers : g # h => handlers'[g] = handlers[g]
  BY <1>1 DEF Begin, Goto, TypeOK
<1>3. disturbed' = IF \E g \in Handlers : handlers[g].id = t
                   THEN disturbed \cup {t} ELSE disturbed
  BY DEF Begin
<1> SUFFICES ASSUME NEW u \in Transfers, u \notin disturbed' PROVE CountHolds(u)'
  BY DEF ArrivalsCounted, CountHolds
<1>4. CountHolds(u) /\ faults \in Nat /\ faults <= faults'
  BY <1>1, <1>3, CountsAre DEF TypeOK
<1>5. CASE u # t
  <2>1. \A g \in Handlers : \/ handlers'[g] = handlers[g]
                            \/ handlers[g].id # u /\ handlers'[g].id # u
    BY <1>1, <1>2, <1>5
  <2> QED BY <1>1, <1>4, <2>1, ElsewhereCounted
<1>6. CASE u = t
  <2>1. \A g \in Handlers : handlers[g].id # t
    BY <1>3, <1>6
  <2>2. \A g \in Handlers : handlers'[g].id = t => g = h
    BY <1>2, <2>1
  <2>3. Standing(h)'
    BY <1>1, <1>2 DEF Standing
  <2>4. Counted(t) => Counted(t)'
    BY <2>1 DEF Counted
  <2>5. arrived'[t] <= faults' + (IF Counted(t)' THEN 1 ELSE 0)
    <3>1. arrived[t] \in Nat
      BY <1>1 DEF TypeOK
    <3> QED BY <1>4, <1>6, <2>4, <3>1 DEF CountHolds
  <2> QED BY <1>6, <2>2, <2>3, <2>5 DEF CountHolds
<1> QED BY <1>5, <1>6

(* A new transfer has no request on it and has not arrived more than it had.*)

LEMMA CreateCounted ==
  ASSUME HoldingIInv, TypeOK', ArrivalsCounted, NEW t \in Transfers, NEW v \in Warehouses,
         NEW w \in Warehouses, NEW q \in Quantities, CreateTransfer(t, v, w, q)
  PROVE  ArrivalsCounted'
<1>1. /\ transfers[t].status = "none" /\ transfers'[t].status = "pending"
      /\ \A u \in Transfers : u # t => transfers'[u] = transfers[u]
      /\ UNCHANGED <<handlers, arrived, faults, disturbed>>
  BY DEF CreateTransfer, HoldingIInv, TransfersIInv, TypeOK
<1>2. \A g \in Handlers : handlers[g].id # t
  BY <1>1, IdleOnNothing
<1>3. \A u \in Transfers : Counted(u)' <=> Counted(u)
  BY <1>1 DEF Counted
<1> QED BY <1>1, <1>2, <1>3 DEF ArrivalsCounted, Standing

LEMMA NextCounted ==
  ASSUME HoldingIInv, TypeOK', ArrivalsCounted, [Next]_vars
  PROVE  ArrivalsCounted'
<1>1. ASSUME UNCHANGED <<transfers, handlers, arrived, faults, disturbed>>
      PROVE  ArrivalsCounted'
  BY <1>1 DEF ArrivalsCounted, Standing, Counted
<1>2. ASSUME NEW h \in Handlers, NEW t \in Transfers, RequestStep(h, t)
      PROVE  ArrivalsCounted'
  BY <1>2, BeginCounted DEF RequestStep, StartTransfer, CompleteTransfer, CancelTransfer
<1>3. ASSUME NEW w \in Warehouses,
             CustomerReserves(w) \/ CustomerReleases(w)
             \/ \E n \in Counts : UpdateInventory(w, n)
      PROVE  ArrivalsCounted'
  BY <1>1, <1>3 DEF CustomerReserves, CustomerReleases, UpdateInventory
<1>4. CASE UNCHANGED vars
  BY <1>1, <1>4 DEF vars
<1> QED BY <1>2, <1>3, <1>4, CreateCounted, ContinueCounted, FailuresCounted DEF Next

(* AccountIInv holds in every state of every behaviour.                     *)

THEOREM AccountInvariant == Spec => []AccountIInv
<1>1. Init => AccountIInv
  BY InitIInv, InitHolding, InitAccount, InitCounted DEF Holding, HoldingIInv, AccountIInv
<1>2. AccountIInv /\ [Next]_vars => AccountIInv'
  <2> SUFFICES ASSUME AccountIInv, [Next]_vars PROVE AccountIInv'
    OBVIOUS
  <2>1. HoldingIInv /\ HoldingIInv' /\ TransfersIInv /\ TypeOK'
    BY NextHolding DEF AccountIInv, HoldingIInv, TransfersIInv
  <2>2. HeldByTransfers' /\ ExactUnlessDisturbed' /\ ArrivalsCounted'
    BY <2>1, NextHeld, NextAccount, NextCounted DEF AccountIInv
  <2> QED BY <2>1, <2>2 DEF AccountIInv
<1> QED BY <1>1, <1>2, PTL DEF Spec

(* A transfer whose requests came one after the other is added to its       *)
(* destination once, and once more at most for every failure: the status    *)
(* checks of completeTransfer and the order of its statements see to it.    *)

THEOREM TransfersArriveOnce == Spec => []ArrivesOnce
<1>1. AccountIInv => ArrivesOnce
  BY DEF AccountIInv, ArrivalsCounted, ArrivesOnce, HoldingIInv, TransfersIInv, TypeOK
<1> QED BY <1>1, AccountInvariant, PTL

(* Without failures and disturbed transfers the row says exactly what       *)
(* customers and transfers hold.                                            *)

THEOREM RowsAreExact == Spec => []ExactUnlessDisturbed
<1>1. AccountIInv => ExactUnlessDisturbed
  BY DEF AccountIInv
<1> QED BY <1>1, AccountInvariant, PTL
=============================================================================
