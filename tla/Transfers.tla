----------------------------- MODULE Transfers -----------------------------
(***************************************************************************)
(* Transfers between warehouses: TransferService over InventoryService.    *)
(*                                                                         *)
(* The rows of one product, one per warehouse.  As in Reservations a       *)
(* handler is one activation of a service method and every `await` of a    *)
(* query lets other handlers run.  Customers reserve and release at any    *)
(* time (module Reservations), administrators set quantities.              *)
(***************************************************************************)
EXTENDS Stock, FiniteSetsExt

CONSTANTS
  Warehouses,   \* the warehouses
  Stocked,      \* those that have a row for the product at the start
  Transfers,    \* identifiers gen_random_uuid() can give to transfers
  Handlers,     \* slots for concurrent requests
  Quantities,   \* amounts of a transfer
  InitialStock, \* quantity of every row at the start
  Counts,       \* amounts an administrator may set a quantity to
  MaxFaults     \* bound on failed queries and crashes

ASSUME TransfersAssumption ==
  /\ Warehouses # {} /\ Stocked \subseteq Warehouses
  /\ "none" \notin Transfers /\ IsFiniteSet(Transfers)
  /\ Quantities \subseteq Nat \ {0}
  /\ InitialStock \in Nat
  /\ Counts \subseteq Nat
  /\ MaxFaults \in Nat

VARIABLES
  inventory, \* the rows of the product
  stocked,   \* the warehouses that have a row
  transfers, \* the table `transfers`; status "none" is no row yet
  handlers,  \* the activations in progress
  held,      \* history: reservations of a transfer that were not given back
  arrived,   \* history: how often a transfer was added to its destination
  disturbed, \* history: transfers that two requests worked on at once, or
             \* whose compensation found the stock taken
  customers, \* units reserved by customers, per warehouse
  faults     \* how many failures have happened

vars == <<inventory, stocked, transfers, handlers, held, arrived, disturbed, customers, faults>>

Transfer == [status : {"none", "pending", "in_transit", "completed", "cancelled"},
             from : Warehouses, to : Warehouses, quantity : Nat]

NoRow == [status |-> "none", from |-> CHOOSE w \in Warehouses : TRUE,
          to |-> CHOOSE w \in Warehouses : TRUE, quantity |-> 0]

\* at: the query the handler issues next; total: the quantity it has computed
\* for the destination.
Handler == [at : {"idle", "reserve", "depart", "release", "dest", "create", "set",
                  "arrive", "undo", "free", "cancel"},
            id : Transfers \cup {"none"}, total : Nat]

Idle == [at |-> "idle", id |-> "none", total |-> 0]

Init ==
  /\ inventory = [w \in Warehouses |->
                    [quantity |-> IF w \in Stocked THEN InitialStock ELSE 0, reserved |-> 0]]
  /\ stocked = Stocked
  /\ transfers = [t \in Transfers |-> NoRow]
  /\ handlers = [h \in Handlers |-> Idle]
  /\ held = [t \in Transfers |-> 0]
  /\ arrived = [t \in Transfers |-> 0]
  /\ disturbed = {}
  /\ customers = [w \in Warehouses |-> 0]
  /\ faults = 0

From(h) == transfers[handlers[h].id].from
To(h) == transfers[handlers[h].id].to
Amount(h) == transfers[handlers[h].id].quantity

SetStatus(h, s) == transfers' = [transfers EXCEPT ![handlers[h].id].status = s]

Goto(h, state) == handlers' = [handlers EXCEPT ![h] = state]

Step(h, at) == Goto(h, [handlers[h] EXCEPT !.at = at])

\* A method starts on transfer t.
Begin(h, t, at) ==
  /\ handlers[h] = Idle
  /\ Goto(h, [Idle EXCEPT !.at = at, !.id = t])
  /\ disturbed' = IF \E g \in Handlers : handlers[g].id = t THEN disturbed \cup {t} ELSE disturbed

-----------------------------------------------------------------------------
\* createTransfer: the stock is looked at, nothing is reserved yet.  Nobody
\* knows the transfer before the response, so the check and the INSERT are one.
CreateTransfer(t, v, w, q) ==
  /\ transfers[t].status = "none"
  /\ v # w
  /\ v \in stocked /\ CanReserve(inventory[v], q)
  /\ transfers' = [transfers EXCEPT ![t] =
                     [status |-> "pending", from |-> v, to |-> w, quantity |-> q]]
  /\ UNCHANGED <<inventory, stocked, handlers, held, arrived, customers, faults, disturbed>>

(* startTransfer                                                            *)

StartTransfer(h, t) ==
  /\ transfers[t].status = "pending"
  /\ Begin(h, t, "reserve")
  /\ UNCHANGED <<inventory, stocked, transfers, held, arrived, customers, faults>>

\* reserveStock; when the stock is gone the method throws.
ReserveSource(h) ==
  /\ handlers[h].at = "reserve"
  /\ \/ /\ CanReserve(inventory[From(h)], Amount(h))
        /\ inventory' = [inventory EXCEPT ![From(h)] = Reserve(@, Amount(h))]
        /\ held' = [held EXCEPT ![handlers[h].id] = @ + 1]
        /\ Step(h, "depart")
     \/ /\ ~CanReserve(inventory[From(h)], Amount(h))
        /\ Goto(h, Idle) /\ UNCHANGED <<inventory, held>>
  /\ UNCHANGED <<stocked, transfers, arrived, customers, faults, disturbed>>

Depart(h) ==
  /\ handlers[h].at = "depart"
  /\ SetStatus(h, "in_transit")
  /\ Goto(h, Idle)
  /\ UNCHANGED <<inventory, stocked, held, arrived, customers, faults, disturbed>>

(* completeTransfer                                                         *)

CompleteTransfer(h, t) ==
  /\ transfers[t].status = "in_transit"
  /\ Begin(h, t, "release")
  /\ UNCHANGED <<inventory, stocked, transfers, held, arrived, customers, faults>>

\* InventoryService.releaseReservation on the source, in both methods.
GiveBackSource(h) ==
  /\ inventory' = [inventory EXCEPT ![From(h)] = GiveBack(@, Amount(h))]
  /\ held' = [held EXCEPT ![handlers[h].id] = IF @ = 0 THEN 0 ELSE @ - 1]

\* Mutant: the release at the source is left out.
ReleaseNothing(h) ==
  /\ handlers[h].at = "release"
  /\ Step(h, "dest")
  /\ UNCHANGED <<inventory, held, stocked, transfers, arrived, customers, faults, disturbed>>

ReleaseSource(h) ==
  /\ handlers[h].at = "release"
  /\ GiveBackSource(h)
  /\ Step(h, "dest")
  /\ UNCHANGED <<stocked, transfers, arrived, customers, faults, disturbed>>

\* getInventory of the destination; the sum is computed from what it returns.
ReadDestination(h) ==
  LET sum == inventory[To(h)].quantity + Amount(h) IN
  /\ handlers[h].at = "dest"
  /\ IF To(h) \in stocked
     THEN Goto(h, [handlers[h] EXCEPT !.at = "set", !.total = sum])
     ELSE Step(h, "create")
  /\ UNCHANGED <<inventory, stocked, transfers, held, arrived, customers, faults, disturbed>>

SetDestination(h) ==
  /\ handlers[h].at = "set"
  /\ inventory' = [inventory EXCEPT ![To(h)] = SetQuantity(@, handlers[h].total)]
  /\ arrived' = [arrived EXCEPT ![handlers[h].id] = @ + 1]
  /\ Step(h, "arrive")
  /\ UNCHANGED <<stocked, transfers, held, customers, faults, disturbed>>

\* createInventory; it throws when the row has appeared meanwhile.
CreateDestination(h) ==
  /\ handlers[h].at = "create"
  /\ \/ /\ To(h) \notin stocked
        /\ stocked' = stocked \cup {To(h)}
        /\ inventory' = [inventory EXCEPT ![To(h)] = SetQuantity(@, Amount(h))]
        /\ arrived' = [arrived EXCEPT ![handlers[h].id] = @ + 1]
        /\ Step(h, "arrive")
     \/ To(h) \in stocked /\ Step(h, "undo") /\ UNCHANGED <<inventory, stocked, arrived>>
  /\ UNCHANGED <<transfers, held, customers, faults, disturbed>>

\* Mutant: the error of the destination is swallowed.
CompleteAnyway(h) ==
  /\ handlers[h].at = "undo"
  /\ Step(h, "arrive")
  /\ UNCHANGED <<inventory, held, stocked, transfers, arrived, customers, faults, disturbed>>

\* The catch block: reserve at the source again, then throw.
ReserveAgain(h) ==
  /\ handlers[h].at = "undo"
  /\ IF CanReserve(inventory[From(h)], Amount(h))
     THEN /\ inventory' = [inventory EXCEPT ![From(h)] = Reserve(@, Amount(h))]
          /\ held' = [held EXCEPT ![handlers[h].id] = @ + 1]
          /\ UNCHANGED disturbed
     ELSE /\ disturbed' = disturbed \cup {handlers[h].id}
          /\ UNCHANGED <<inventory, held>>
  /\ Goto(h, Idle)
  /\ UNCHANGED <<stocked, transfers, arrived, customers, faults>>

\* Mutant: the row is not marked, the transfer stays in transit.
ArriveUnmarked(h) ==
  /\ handlers[h].at = "arrive"
  /\ Goto(h, Idle)
  /\ UNCHANGED <<inventory, transfers, held, stocked, arrived, customers, faults, disturbed>>

Arrive(h) ==
  /\ handlers[h].at = "arrive"
  /\ SetStatus(h, "completed")
  /\ Goto(h, Idle)
  /\ UNCHANGED <<inventory, stocked, held, arrived, customers, faults, disturbed>>

(* cancelTransfer                                                           *)

CancelTransfer(h, t) ==
  /\ transfers[t].status \notin {"none", "completed"}
  /\ Begin(h, t, IF transfers[t].status = "in_transit" THEN "free" ELSE "cancel")
  /\ UNCHANGED <<inventory, stocked, transfers, held, arrived, customers, faults>>

FreeSource(h) ==
  /\ handlers[h].at = "free"
  /\ GiveBackSource(h)
  /\ Step(h, "cancel")
  /\ UNCHANGED <<stocked, transfers, arrived, customers, faults, disturbed>>

MarkCancelled(h) ==
  /\ handlers[h].at = "cancel"
  /\ SetStatus(h, "cancelled")
  /\ Goto(h, Idle)
  /\ UNCHANGED <<inventory, stocked, held, arrived, customers, faults, disturbed>>

-----------------------------------------------------------------------------
(* The surroundings: customers, administrators, failures.                   *)

CustomerReserves(w) ==
  /\ w \in stocked /\ CanReserve(inventory[w], 1)
  /\ inventory' = [inventory EXCEPT ![w] = Reserve(@, 1)]
  /\ customers' = [customers EXCEPT ![w] = @ + 1]
  /\ UNCHANGED <<stocked, transfers, handlers, held, arrived, faults, disturbed>>

CustomerReleases(w) ==
  /\ customers[w] > 0
  /\ inventory' = [inventory EXCEPT ![w] = GiveBack(@, 1)]
  /\ customers' = [customers EXCEPT ![w] = @ - 1]
  /\ UNCHANGED <<stocked, transfers, handlers, held, arrived, faults, disturbed>>

UpdateInventory(w, n) ==
  /\ w \in stocked /\ inventory[w].quantity # n
  /\ inventory' = [inventory EXCEPT ![w] = SetQuantity(@, n)]
  /\ UNCHANGED <<stocked, transfers, handlers, held, arrived, customers, faults, disturbed>>

\* A query inside the try block of completeTransfer fails: the read or write of
\* the destination, or the history and alert queries after the write.
DestinationFails(h) ==
  /\ faults < MaxFaults /\ faults' = faults + 1
  /\ handlers[h].at \in {"dest", "set", "create", "arrive"}
  /\ Step(h, "undo")
  /\ UNCHANGED <<inventory, stocked, transfers, held, arrived, customers, disturbed>>

\* Any other query fails, or the process dies: what was executed stays.
Abort(h) ==
  /\ faults < MaxFaults /\ faults' = faults + 1
  /\ handlers[h] # Idle
  /\ Goto(h, Idle)
  /\ UNCHANGED <<inventory, stocked, transfers, held, arrived, customers, disturbed>>

-----------------------------------------------------------------------------
RequestStep(h, t) == StartTransfer(h, t) \/ CompleteTransfer(h, t) \/ CancelTransfer(h, t)

Continue(h) ==
  \/ ReserveSource(h) \/ Depart(h)
  \/ ReleaseSource(h) \/ ReadDestination(h) \/ SetDestination(h) \/ CreateDestination(h)
  \/ ReserveAgain(h) \/ Arrive(h)
  \/ FreeSource(h) \/ MarkCancelled(h)

Next ==
  \/ \E t \in Transfers, v, w \in Warehouses, q \in Quantities : CreateTransfer(t, v, w, q)
  \/ \E h \in Handlers, t \in Transfers : RequestStep(h, t)
  \/ \E h \in Handlers : Continue(h) \/ DestinationFails(h) \/ Abort(h)
  \/ \E w \in Warehouses : CustomerReserves(w) \/ CustomerReleases(w)
  \/ \E w \in Warehouses, n \in Counts : UpdateInventory(w, n)

Spec == Init /\ [][Next]_vars

-----------------------------------------------------------------------------
(* Properties                                                              *)

TypeOK ==
  /\ inventory \in [Warehouses -> StockRow]
  /\ stocked \subseteq Warehouses
  /\ transfers \in [Transfers -> Transfer]
  /\ handlers \in [Handlers -> Handler]
  /\ held \in [Transfers -> Nat]
  /\ arrived \in [Transfers -> Nat]
  /\ disturbed \subseteq Transfers
  /\ customers \in [Warehouses -> Nat]
  /\ faults \in 0..MaxFaults

\* Units transfers have reserved at warehouse w and not given back, one by one
\* and in all.
HeldUnits(w) ==
  [t \in Transfers |-> IF transfers[t].from = w THEN held[t] * transfers[t].quantity ELSE 0]
HeldAt(w) == SumFunction(HeldUnits(w))

\* A completed transfer has reached its destination: no failure of a query, no
\* compensation and no race marks a transfer ahead of its stock.
CompletedHasArrived ==
  \A t \in Transfers : transfers[t].status = "completed" => arrived[t] > 0

\* Strengthening of CompletedHasArrived: the completion that is about to write
\* 'completed' has written the destination; a method works on an existing
\* transfer.
ArrivalsAreReal ==
  \A h \in Handlers : handlers[h].at # "idle" =>
    /\ handlers[h].id \in Transfers
    /\ transfers[handlers[h].id].status # "none"
    /\ handlers[h].at = "arrive" => arrived[handlers[h].id] > 0

TransfersIInv == TypeOK /\ CompletedHasArrived /\ ArrivalsAreReal

\* Where nothing failed, a transfer whose requests came one after the other
\* holds its stock, once, precisely while it is in transit, whatever happens to
\* the other transfers and to the rows: start, complete, its compensation and
\* cancel agree on who reserves and who releases.
HoldsWhileInTransit ==
  faults = 0 =>
    \A t \in Transfers \ disturbed :
      (\A h \in Handlers : handlers[h].id # t) =>
        held[t] = IF transfers[t].status = "in_transit" THEN 1 ELSE 0

\* Strengthening of HoldsWhileInTransit: such a transfer has one request at most,
\* and what it holds follows from the query that comes next.
Stage(h) ==
  LET t == handlers[h].id IN
  /\ held[t] = IF handlers[h].at \in {"depart", "release", "free"} THEN 1 ELSE 0
  /\ handlers[h].at \in {"reserve", "depart"} => transfers[t].status = "pending"
  /\ handlers[h].at \notin {"reserve", "depart", "cancel"} => transfers[t].status = "in_transit"

OneByOne ==
  faults = 0 =>
    \A t \in Transfers \ disturbed, h \in Handlers : handlers[h].id = t =>
      /\ \A g \in Handlers : handlers[g].id = t => g = h
      /\ Stage(h)

IdleMeansIdle == \A h \in Handlers : handlers[h].at = "idle" => handlers[h] = Idle

HoldingIInv == TransfersIInv /\ IdleMeansIdle /\ HoldsWhileInTransit /\ OneByOne

\* Where nothing failed and no transfer was disturbed, the row says exactly what
\* customers and transfers hold.
ExactUnlessDisturbed ==
  faults = 0 /\ disturbed = {} =>
    \A w \in Warehouses : inventory[w].reserved = customers[w] + HeldAt(w)

\* Strengthening of the account: a transfer holds nothing before it exists.
HeldByTransfers == \A t \in Transfers : transfers[t].status = "none" => held[t] = 0

\* A transfer reaches its destination once: a failure after the destination was
\* written, whose compensation leaves the transfer in transit to be completed
\* again, may add it once more, and nothing else does, provided its requests came
\* one after the other.
ArrivesOnce == \A t \in Transfers \ disturbed : arrived[t] <= 1 + faults

\* Strengthening of ArrivesOnce, with failures too: such a transfer has one
\* request at most, its status is the one the request has read, and beyond the
\* failures it has arrived only if it is completed or about to be.
Standing(h) ==
  LET status == transfers[handlers[h].id].status IN
  /\ handlers[h].at \in {"reserve", "depart"} => status = "pending"
  /\ handlers[h].at = "cancel" => status # "completed"
  /\ handlers[h].at \notin {"reserve", "depart", "cancel"} => status = "in_transit"

Counted(t) == transfers[t].status = "completed"
              \/ \E h \in Handlers : handlers[h].id = t /\ handlers[h].at = "arrive"

ArrivalsCounted ==
  \A t \in Transfers \ disturbed :
    /\ \A g, h \in Handlers : handlers[g].id = t /\ handlers[h].id = t => g = h
    /\ \A h \in Handlers : handlers[h].id = t => Standing(h)
    /\ arrived[t] <= faults + (IF Counted(t) THEN 1 ELSE 0)

AccountIInv == HoldingIInv /\ HeldByTransfers /\ ExactUnlessDisturbed /\ ArrivalsCounted
=============================================================================
