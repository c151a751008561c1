------------------------------ MODULE StockViews ------------------------------
(***************************************************************************)
(* What the inventory service derives from a row of `inventory`: the       *)
(* history of its changes, the low-stock alerts, the events sent to the    *)
(* browsers and the copy in Redis (InventoryService, its repositories,     *)
(* SocketService).  Reservations and Transfers model who calls these       *)
(* methods; here any order of calls may come.                              *)
(*                                                                         *)
(* History, alerts, rooms and cache keys of two rows never meet, so one    *)
(* row stands for all.  A request holds the row its UPDATE returned (the   *)
(* snapshot) until it has sent it to the browsers and to Redis; every      *)
(* `await` between is a point where other requests run.                    *)
(***************************************************************************)
EXTENDS Stock, Integers, FiniteSetsExt

CONSTANTS
  Requests,      \* slots for concurrent requests
  Counts,        \* amounts a quantity may be set to
  ReorderPoints, \* values of reorder_point
  Quantities,    \* amounts reserved and released
  MaxEntries,    \* bound on the entries of the history
  MaxFaults      \* bound on failed queries and crashes

ASSUME StockViewsAssumption ==
  /\ IsFiniteSet(Requests)
  /\ Counts \subseteq Nat /\ Counts # {}
  /\ ReorderPoints \subseteq Nat /\ ReorderPoints # {}
  /\ Quantities \subseteq Nat \ {0}
  /\ MaxEntries \in Nat /\ MaxFaults \in Nat

VARIABLES
  row,       \* the row, or NoRow
  entries,   \* how many entries inventory_history has
  logged,    \* the sum of their quantity_change
  active,    \* how many alerts of the row are 'active'
  seen,      \* the last `inventory:update` the browsers received
  cached,    \* the value of the key in Redis
  requests,  \* the requests in progress
  skewed,    \* history: an entry is missing or tells another change than happened
  unsettled, \* history: since the last write of the row its snapshot was dropped,
             \* or other snapshots were under way with it
  unchecked, \* history: since the last check the row was reserved from, or the
             \* check of a write was lost
  doubled,   \* history: two requests replaced the alerts at once
  faults     \* how many failures have happened

vars == <<row, entries, logged, active, seen, cached, requests,
          skewed, unsettled, unchecked, doubled, faults>>

NoRow == [quantity |-> 0, reserved |-> 0, reorder |-> -1]
Exists == row # NoRow

Available(r) == r.quantity - r.reserved
IsLow(r) == Available(r) <= r.reorder

\* want: the row to insert, or the columns to set, of which the quantity may be
\* Unset; old: the quantity read before;
\* change: the entry to write; snapshot: the row the UPDATE returned; checks:
\* whether the method goes on to checkLowStock.
Unset == -1
Idle == [at |-> "idle", want |-> NoRow, old |-> 0, change |-> 0,
         snapshot |-> NoRow, checks |-> FALSE]

Init ==
  /\ row = NoRow /\ entries = 0 /\ logged = 0 /\ active = 0
  /\ seen = NoRow /\ cached = NoRow
  /\ requests = [h \in Requests |-> Idle]
  /\ skewed = FALSE /\ unsettled = FALSE /\ unchecked = FALSE /\ doubled = FALSE
  /\ faults = 0

Goto(h, state) == requests' = [requests EXCEPT ![h] = state]
Step(h, at) == Goto(h, [requests[h] EXCEPT !.at = at])

Publishing == {"history", "check", "find", "resolve", "raise", "emit", "cache"}
Holders == {h \in Requests : requests[h].at \in Publishing}

\* The row becomes r; the request goes on with the entry for `change`, if any.
Write(h, r, change, checks) ==
  /\ row' = r
  /\ unsettled' = (Holders \ {h} # {})
  /\ unchecked' = (unchecked \/ ~checks)
  /\ Goto(h, [Idle EXCEPT !.change = change, !.snapshot = r, !.checks = checks,
                          !.at = IF change = 0 THEN "check" ELSE "history"])

-----------------------------------------------------------------------------
(* createInventory and updateInventory: a SELECT, then the write.           *)

CreateInventory(h, n, p) ==
  /\ ~Exists
  /\ Goto(h, [Idle EXCEPT !.at = "insert",
                          !.want = [quantity |-> n, reserved |-> 0, reorder |-> p]])
  /\ UNCHANGED <<row, entries, logged, active, seen, cached,
                 skewed, unsettled, unchecked, doubled, faults>>

\* UNIQUE(product_id, warehouse_id) rejects the second of two creations.
InsertRow(h) ==
  LET want == requests[h].want IN
  /\ requests[h].at = "insert"
  /\ IF Exists THEN Goto(h, Idle) /\ UNCHANGED <<row, unsettled, unchecked>>
     ELSE /\ row' = want
          /\ unsettled' = (Holders # {})
          /\ Goto(h, [Idle EXCEPT !.change = want.quantity, !.snapshot = want,
                                  !.checks = TRUE, !.at = "history"])
          /\ UNCHANGED unchecked
  /\ UNCHANGED <<entries, logged, active, seen, cached, skewed, doubled, faults>>

UpdateInventory(h, n, p) ==
  /\ Exists
  /\ Goto(h, [Idle EXCEPT !.at = "write", !.old = row.quantity,
                          !.want = [quantity |-> n, reserved |-> 0, reorder |-> p]])
  /\ UNCHANGED <<row, entries, logged, active, seen, cached,
                 skewed, unsettled, unchecked, doubled, faults>>

\* Only the columns given are set; the entry tells the difference to the quantity
\* read before the UPDATE.
WriteRow(h) ==
  LET r == requests[h]
      set == [row EXCEPT !.reorder = r.want.reorder] IN
  /\ r.at = "write"
  /\ IF r.want.quantity = Unset THEN Write(h, set, 0, TRUE) /\ UNCHANGED skewed
     ELSE /\ Write(h, SetQuantity(set, r.want.quantity), r.want.quantity - r.old, TRUE)
          /\ skewed' = (skewed \/ row.quantity # r.old)
  /\ UNCHANGED <<entries, logged, active, seen, cached, doubled, faults>>

-----------------------------------------------------------------------------
(* reserveStock and releaseReservation: one UPDATE, no check of the stock.  *)

ReserveStock(h, q) ==
  /\ Exists /\ CanReserve(row, q)
  /\ Write(h, Reserve(row, q), -q, FALSE)
  /\ UNCHANGED <<entries, logged, active, seen, cached, skewed, doubled, faults>>

\* The entry tells q units even when the floor of the UPDATE gave back fewer.
ReleaseReservation(h, q) ==
  /\ Exists
  /\ Write(h, GiveBack(row, q), q, FALSE)
  /\ skewed' = (skewed \/ row.reserved < q)
  /\ UNCHANGED <<entries, logged, active, seen, cached, doubled, faults>>

-----------------------------------------------------------------------------
(* What every method goes on with.                                          *)

AddHistory(h) ==
  /\ requests[h].at = "history"
  /\ entries' = entries + 1
  /\ logged' = logged + requests[h].change
  /\ Step(h, IF requests[h].checks THEN "check" ELSE "emit")
  /\ UNCHANGED <<row, active, seen, cached, skewed, unsettled, unchecked, doubled, faults>>

\* Mutant: the comparison with the reorder point is strict.
CheckBelow(h) ==
  /\ requests[h].at = "check"
  /\ unchecked' = FALSE
  /\ Step(h, IF Available(row) < row.reorder THEN "find" ELSE "emit")
  /\ UNCHANGED <<row, entries, logged, active, seen, cached, skewed, unsettled, doubled, faults>>

\* checkLowStock reads the row again ...
CheckLowStock(h) ==
  /\ requests[h].at = "check"
  /\ unchecked' = FALSE
  /\ Step(h, IF IsLow(row) THEN "find" ELSE "emit")
  /\ UNCHANGED <<row, entries, logged, active, seen, cached, skewed, unsettled, doubled, faults>>

\* ... looks for an active alert ...
FindActive(h) ==
  /\ requests[h].at = "find"
  /\ Step(h, IF active = 0 THEN "resolve" ELSE "emit")
  /\ UNCHANGED <<row, entries, logged, active, seen, cached,
                 skewed, unsettled, unchecked, doubled, faults>>

\* Mutant: create() only inserts.
ResolveNothing(h) ==
  /\ requests[h].at = "resolve"
  /\ doubled' = (doubled \/ \E g \in Requests : requests[g].at = "raise")
  /\ Step(h, "raise")
  /\ UNCHANGED <<row, entries, logged, active, seen, cached, skewed, unsettled, unchecked, faults>>

\* ... and, with none found, resolves the active ones and inserts another.  The
\* UNIQUE .. WHERE of the migration is no PostgreSQL syntax; with the table the
\* rest of it describes, no index keeps a second alert out.
ResolveAlerts(h) ==
  /\ requests[h].at = "resolve"
  /\ active' = 0
  /\ doubled' = (doubled \/ \E g \in Requests : requests[g].at = "raise")
  /\ Step(h, "raise")
  /\ UNCHANGED <<row, entries, logged, seen, cached, skewed, unsettled, unchecked, faults>>

RaiseAlert(h) ==
  /\ requests[h].at = "raise"
  /\ active' = active + 1
  /\ Step(h, "emit")
  /\ UNCHANGED <<row, entries, logged, seen, cached,
                 skewed, unsettled, unchecked, doubled, faults>>

EmitInventoryUpdate(h) ==
  /\ requests[h].at = "emit"
  /\ seen' = requests[h].snapshot
  /\ Step(h, "cache")
  /\ UNCHANGED <<row, entries, logged, active, cached,
                 skewed, unsettled, unchecked, doubled, faults>>

\* Mutant: a key that is there is left alone (SETNX).
UpdateCacheOnce(h) ==
  /\ requests[h].at = "cache"
  /\ cached' = IF cached = NoRow THEN requests[h].snapshot ELSE cached
  /\ Goto(h, Idle)
  /\ UNCHANGED <<row, entries, logged, active, seen,
                 skewed, unsettled, unchecked, doubled, faults>>

UpdateCache(h) ==
  /\ requests[h].at = "cache"
  /\ cached' = requests[h].snapshot
  /\ Goto(h, Idle)
  /\ UNCHANGED <<row, entries, logged, active, seen,
                 skewed, unsettled, unchecked, doubled, faults>>

-----------------------------------------------------------------------------
(* The surroundings.                                                        *)

\* The key is set for an hour.
CacheExpires ==
  /\ cached # NoRow /\ cached' = NoRow
  /\ UNCHANGED <<row, entries, logged, active, seen, requests,
                 skewed, unsettled, unchecked, doubled, faults>>

\* A query of h fails or the process dies: what the method had still to do is
\* dropped.  A failed SETEX is swallowed by updateCache, with the same effect.
Abort(h) ==
  LET r == requests[h] IN
  /\ faults < MaxFaults /\ faults' = faults + 1
  /\ r.at # "idle"
  /\ skewed' = (skewed \/ r.at = "history")
  /\ unsettled' = (unsettled \/ r.at \in Publishing)
  /\ unchecked' = (unchecked \/ (r.checks /\ r.at \notin {"emit", "cache"}))
  /\ Goto(h, Idle)
  /\ UNCHANGED <<row, entries, logged, active, seen, cached, doubled>>

Begin(h) ==
  /\ requests[h] = Idle
  /\ entries + Cardinality({g \in Requests : requests[g] # Idle}) < MaxEntries
  /\ \/ \E n \in Counts, p \in ReorderPoints : CreateInventory(h, n, p)
     \/ \E n \in Counts \cup {Unset}, p \in ReorderPoints : UpdateInventory(h, n, p)
     \/ \E q \in Quantities : ReserveStock(h, q) \/ ReleaseReservation(h, q)

Continue(h) ==
  \/ InsertRow(h) \/ WriteRow(h) \/ AddHistory(h) \/ CheckLowStock(h) \/ FindActive(h)
  \/ ResolveAlerts(h) \/ RaiseAlert(h) \/ EmitInventoryUpdate(h) \/ UpdateCache(h)

Next ==
  \/ \E h \in Requests : Begin(h) \/ Continue(h) \/ Abort(h)
  \/ CacheExpires

Spec == Init /\ [][Next]_vars

-----------------------------------------------------------------------------
(* Properties                                                              *)

Row == [quantity : Nat, reserved : Nat, reorder : Nat \cup {-1}]

Request == [at : {"idle", "insert", "write"} \cup Publishing,
            want : [quantity : Nat \cup {Unset}, reserved : {0}, reorder : Nat \cup {-1}],
            old : Nat, change : Int, snapshot : Row, checks : BOOLEAN]

\* Every variable has its type.
TypeOK ==
  /\ {row, seen, cached} \subseteq Row
  /\ entries \in 0..MaxEntries /\ logged \in Int /\ active \in Nat
  /\ requests \in [Requests -> Request]
  /\ {skewed, unsettled, unchecked, doubled} \subseteq BOOLEAN
  /\ faults \in 0..MaxFaults

\* What the entries still to be written will tell, one by one and in all.
UnwrittenChanges ==
  [h \in Requests |-> IF requests[h].at = "history" THEN requests[h].change ELSE 0]
Unwritten == SumFunction(UnwrittenChanges)

\* The history adds up: from the creation on, the changes it tells and those
\* about to be written sum up to what is available, although each is computed
\* apart from the UPDATE, unless an entry failed, an update wrote over a quantity
\* it had not read, or a release hit the floor.
HistoryAddsUp == Exists /\ ~skewed => logged + Unwritten = Available(row)

\* With no snapshot under way, browsers and cache show the row as it is, unless
\* the last write raced with other snapshots (the older one may arrive last) or
\* its own was dropped.  A later undisturbed write always repairs them.
ViewsAreCurrent ==
  Exists /\ Holders = {} /\ ~unsettled => seen = row /\ cached \in {row, NoRow}

\* Two alerts of one row are active at once only after two requests were between
\* the two statements of LowStockAlertRepository.create together.
OneActiveAlert == active > 1 => doubled

\* README.md:257 "Alerts triggered when available quantity <= reorder point": with
\* no request in progress a low row has an active alert, unless it became low by
\* a reservation (reserveStock and releaseReservation never check) or the check
\* was lost.
LowStockIsNoticed ==
  /\ Exists /\ IsLow(row) /\ ~unchecked
  /\ \A h \in Requests : requests[h].at = "idle"
  => active > 0

-----------------------------------------------------------------------------
(* Strengthenings of the four: what the requests under way are up to.       *)

\* Before there is a row nothing is under way but creations; a row has a reorder
\* point, and so has one to come.
RowsAreCreated ==
  /\ IF Exists THEN row.reorder >= 0
     ELSE logged = 0 /\ \A h \in Requests : requests[h].at \in {"idle", "insert"}
  /\ \A h \in Requests :
       /\ requests[h].at \in {"insert", "write"} => requests[h].want.reorder >= 0
       /\ requests[h].at = "insert" => requests[h].want.quantity >= 0

\* Every request that will write an entry finds room for it.
Writing == {h \in Requests : requests[h].at \in {"insert", "write", "history"}}
EntriesFit == entries + Cardinality(Writing) <= MaxEntries

\* Without two replacements at once, one request at most is about to insert an
\* alert, and then none is active.
OneReplaces ==
  ~doubled =>
    /\ active <= 1
    /\ \A h \in Requests : requests[h].at = "raise" =>
         active = 0 /\ \A g \in Requests : requests[g].at = "raise" => g = h

\* The snapshot of an undisturbed write is the row and the only one under way;
\* the browsers have it before Redis.
OneSnapshot ==
  Exists /\ ~unsettled =>
    \A h \in Holders :
      /\ Holders = {h}
      /\ requests[h].snapshot = row
      /\ requests[h].at = "cache" => seen = row

\* A low row that was checked has an alert, or a request on its way to raise one.
Checking(h) ==
  \/ requests[h].at \in {"check", "find", "resolve", "raise"}
  \/ requests[h].at = "history" /\ requests[h].checks

AlertIsComing ==
  /\ Exists /\ IsLow(row) /\ ~unchecked => active > 0 \/ \E h \in Requests : Checking(h)
  /\ \A h \in Requests : Checking(h) => requests[h].checks

ViewsIInv ==
  /\ TypeOK /\ RowsAreCreated /\ EntriesFit
  /\ HistoryAddsUp /\ OneReplaces /\ ViewsAreCurrent /\ OneSnapshot /\ AlertIsComing
==============================================================================
