-------------------------- MODULE StockViewsProofs --------------------------
(***************************************************************************)
(* Proofs about StockViews: the history adds up, the alerts do not double, *)
(* browsers and cache settle on the row and a low row is noticed, for      *)
(* every number of requests, amounts and failures.                         *)
(*                                                                         *)
(* The conjuncts of ViewsIInv are shown one by one, each from itself and   *)
(* the ones before it.  A step changes the entry of one request; the       *)
(* lemmas of the first part say which, and what the others see of it.      *)
(***************************************************************************)
EXTENDS StockViews, StockProofs

\* What the statements do to a row with a reorder point.
LEMMA RowStatements ==
  ASSUME NEW r \in Row, NEW q \in Nat
  PROVE  /\ Reserve(r, q) \in Row /\ GiveBack(r, q) \in Row /\ SetQuantity(r, q) \in Row
         /\ Reserve(r, q).reorder = r.reorder
         /\ GiveBack(r, q).reorder = r.reorder
         /\ SetQuantity(r, q).reorder = r.reorder
         /\ Available(r) \in Int
         /\ Available(Reserve(r, q)) = Available(r) - q
         /\ r.reserved >= q => Available(GiveBack(r, q)) = Available(r) + q
         /\ Available(SetQuantity(r, q)) = Available(r) + q - r.quantity
BY DEF Row, Reserve, GiveBack, SetQuantity, Available

LEMMA ReorderSet ==
  ASSUME NEW r \in Row, NEW p \in Nat
  PROVE  LET s == [r EXCEPT !.reorder = p] IN
         s \in Row /\ s.reorder = p /\ s.quantity = r.quantity /\ Available(s) = Available(r)
BY DEF Row, Available

\* A row with a reorder point is a row.
LEMMA ReorderMeansRow ==
  ASSUME NEW r, r.reorder >= 0
  PROVE  r # NoRow
BY DEF NoRow

LEMMA NoRowTyped == NoRow \in Row /\ Idle \in Request /\ Idle.at = "idle"
BY DEF NoRow, Row, Idle, Request, Unset, Publishing

-----------------------------------------------------------------------------
(* Types.                                                                   *)

LEMMA InitViews == Init => ViewsIInv
<1> SUFFICES ASSUME Init PROVE ViewsIInv
  OBVIOUS
<1>1. TypeOK
  <2>1. requests \in [Requests -> Request]
    BY NoRowTyped DEF Init
  <2>2. {row, seen, cached} \subseteq Row
    BY NoRowTyped DEF Init
  <2>3. entries \in 0..MaxEntries /\ faults \in 0..MaxFaults /\ logged \in Int /\ active \in Nat
    BY StockViewsAssumption DEF Init
  <2>4. {skewed, unsettled, unchecked, doubled} \subseteq BOOLEAN
    BY DEF Init
  <2> QED BY <2>1, <2>2, <2>3, <2>4 DEF TypeOK
<1>2. \A h \in Requests : requests[h].at = "idle"
  BY NoRowTyped DEF Init
<1>3. Holders = {} /\ ~ Exists /\ logged = 0
  BY <1>2 DEF Holders, Publishing, Exists, Init
<1>4. RowsAreCreated
  BY <1>2, <1>3 DEF RowsAreCreated
<1>5. EntriesFit
  <2>1. Writing = {}
    BY <1>2 DEF Writing
  <2> QED BY <2>1, FS_EmptySet, StockViewsAssumption DEF EntriesFit, Init
<1>6. HistoryAddsUp /\ ViewsAreCurrent /\ OneSnapshot
  BY <1>3 DEF HistoryAddsUp, ViewsAreCurrent, OneSnapshot
<1>7. OneReplaces /\ AlertIsComing
  BY <1>2, <1>3 DEF OneReplaces, AlertIsComing, Checking, Init
<1> QED BY <1>1, <1>4, <1>5, <1>6, <1>7 DEF ViewsIInv

\* What a step of h leaves alone, and where it takes h.
Moves(h) ==
  /\ requests' \in [Requests -> Request]
  /\ \A g \in Requests \ {h} : requests'[g] = requests[g]

LEMMA GotoMoves ==
  ASSUME TypeOK, NEW h \in Requests, NEW s \in Request, Goto(h, s)
  PROVE  Moves(h) /\ requests'[h] = s
BY DEF TypeOK, Moves, Goto

LEMMA StepMoves ==
  ASSUME TypeOK, NEW h \in Requests, NEW at \in Publishing, Step(h, at)
  PROVE  /\ Moves(h)
         /\ requests'[h].at = at
         /\ requests'[h].change = requests[h].change
         /\ requests'[h].snapshot = requests[h].snapshot
         /\ requests'[h].checks = requests[h].checks
<1>1. PICK s \in Request : s = [requests[h] EXCEPT !.at = at]
  BY DEF TypeOK, Request
<1>2. Goto(h, s)
  BY <1>1 DEF Step, Goto
<1>3. /\ s.at = at /\ s.change = requests[h].change
      /\ s.snapshot = requests[h].snapshot /\ s.checks = requests[h].checks
  BY <1>1 DEF TypeOK, Request
<1> QED BY <1>2, <1>3, GotoMoves

LEMMA IdleMoves ==
  ASSUME TypeOK, NEW h \in Requests, Goto(h, Idle)
  PROVE  Moves(h) /\ requests'[h].at = "idle" /\ ~ requests'[h].checks
<1>1. PICK s \in Request : s = Idle /\ s.at = "idle" /\ ~ s.checks
  BY NoRowTyped DEF Idle
<1>2. Goto(h, s)
  BY <1>1 DEF Goto
<1> QED BY <1>1, <1>2, GotoMoves

\* The write of r, with the entry for `change` to come, if any.
Wrote(h, r, change, checks) ==
  /\ Moves(h)
  /\ row' = r /\ r \in Row
  /\ requests'[h].at = IF change = 0 THEN "check" ELSE "history"
  /\ requests'[h].change = change /\ requests'[h].snapshot = r
  /\ requests'[h].checks = checks
  /\ unsettled' = (Holders \ {h} # {})
  /\ unchecked' = (unchecked \/ ~checks)

LEMMA WriteMoves ==
  ASSUME TypeOK, NEW h \in Requests, NEW r \in Row, NEW change \in Int,
         NEW checks \in BOOLEAN, Write(h, r, change, checks)
  PROVE  Wrote(h, r, change, checks)
<1>1. PICK s \in Request :
        s = [Idle EXCEPT !.change = change, !.snapshot = r, !.checks = checks,
                         !.at = IF change = 0 THEN "check" ELSE "history"]
  BY NoRowTyped DEF Request, Idle, Publishing
<1>2. Goto(h, s)
  BY <1>1 DEF Write, Goto
<1>3. /\ s.at = IF change = 0 THEN "check" ELSE "history"
      /\ s.change = change /\ s.snapshot = r /\ s.checks = checks
  BY <1>1 DEF Idle
<1>4. Moves(h) /\ requests'[h] = s
  BY <1>2, GotoMoves
<1> QED BY <1>3, <1>4 DEF Write, Wrote

-----------------------------------------------------------------------------
(* What each action does, in the terms the invariant speaks of.             *)

LEMMA CreateDoes ==
  ASSUME TypeOK, NEW h \in Requests, NEW n \in Counts, NEW p \in ReorderPoints,
         CreateInventory(h, n, p)
  PROVE  /\ Moves(h) /\ requests'[h].at = "insert"
         /\ requests'[h].want.quantity = n /\ requests'[h].want.reorder = p
         /\ ~ requests'[h].checks
<1>1. PICK s \in Request :
        s = [Idle EXCEPT !.at = "insert",
                         !.want = [quantity |-> n, reserved |-> 0, reorder |-> p]]
  BY NoRowTyped, StockViewsAssumption DEF Request, Idle
<1>2. Goto(h, s)
  BY <1>1 DEF CreateInventory, Goto
<1>3. s.at = "insert" /\ s.want.quantity = n /\ s.want.reorder = p /\ ~ s.checks
  BY <1>1 DEF Idle
<1> QED BY <1>2, <1>3, GotoMoves

LEMMA UpdateDoes ==
  ASSUME TypeOK, NEW h \in Requests, NEW n \in Counts \cup {Unset}, NEW p \in ReorderPoints,
         UpdateInventory(h, n, p)
  PROVE  /\ Moves(h) /\ requests'[h].at = "write"
         /\ requests'[h].want.quantity = n /\ requests'[h].want.reorder = p
         /\ ~ requests'[h].checks
<1>1. row.quantity \in Nat
  BY DEF TypeOK, Row
<1>2. PICK s \in Request :
        s = [Idle EXCEPT !.at = "write", !.old = row.quantity,
                         !.want = [quantity |-> n, reserved |-> 0, reorder |-> p]]
  BY <1>1, NoRowTyped, StockViewsAssumption DEF Request, Idle
<1>3. Goto(h, s)
  BY <1>2 DEF UpdateInventory, Goto
<1>4. s.at = "write" /\ s.want.quantity = n /\ s.want.reorder = p /\ ~ s.checks
  BY <1>2 DEF Idle
<1> QED BY <1>3, <1>4, GotoMoves

LEMMA InsertDoes ==
  ASSUME TypeOK, RowsAreCreated, NEW h \in Requests, InsertRow(h), ~ Exists
  PROVE  /\ Moves(h) /\ row' = requests[h].want /\ row' \in Row /\ row'.reorder >= 0
         /\ Available(row') = requests'[h].change
         /\ unsettled' = (Holders # {}) /\ unchecked' = unchecked
         /\ requests'[h].at = "history" /\ requests'[h].checks
         /\ requests'[h].snapshot = row'
<1> DEFINE want == requests[h].want
<1>1. want \in Row /\ want.reorder >= 0 /\ want.reserved = 0
  BY DEF InsertRow, RowsAreCreated, TypeOK, Request, Row, Unset
<1>2. PICK s \in Request :
        s = [Idle EXCEPT !.change = want.quantity, !.snapshot = want,
                         !.checks = TRUE, !.at = "history"]
  <2>1. PICK r \in Row : r = want /\ r.quantity \in Int
    BY <1>1 DEF Row
  <2>2. [Idle EXCEPT !.change = r.quantity, !.snapshot = r,
                     !.checks = TRUE, !.at = "history"] \in Request
    BY <2>1, NoRowTyped DEF Request, Idle, Publishing
  <2> QED BY <2>1, <2>2
<1>3. Goto(h, s)
  BY <1>2 DEF InsertRow, Goto
<1>4. s.at = "history" /\ s.checks /\ s.snapshot = want /\ s.change = want.quantity
  BY <1>2 DEF Idle
<1>5. row' = want /\ unsettled' = (Holders # {}) /\ unchecked' = unchecked
  BY DEF InsertRow
<1>6. Moves(h) /\ requests'[h] = s
  BY <1>3, GotoMoves
<1>7. Available(row') = s.change
  BY <1>1, <1>4, <1>5 DEF Available, Row
<1> QED BY <1>1, <1>4, <1>5, <1>6, <1>7

LEMMA WriteRowDoes ==
  ASSUME TypeOK, RowsAreCreated, NEW h \in Requests, WriteRow(h)
  PROVE  \E r \in Row, change \in Int :
           /\ Wrote(h, r, change, TRUE)
           /\ r.reorder >= 0
           /\ Exists
           /\ skewed' \in BOOLEAN
           /\ ~ skewed' => ~ skewed /\ Available(r) = Available(row) + change
<1> DEFINE want == requests[h].want
           old == requests[h].old
           set == [row EXCEPT !.reorder = want.reorder]
<1>1. want.reorder \in Nat /\ old \in Nat /\ want.quantity \in Nat \cup {Unset} /\ Exists
  BY DEF WriteRow, RowsAreCreated, TypeOK, Request
<1>2. row \in Row /\ skewed \in BOOLEAN
  BY DEF TypeOK
<1>3. /\ set \in Row /\ set.reorder = want.reorder /\ set.quantity = row.quantity
      /\ Available(set) = Available(row) /\ Available(row) \in Int
  BY <1>1, <1>2, ReorderSet, RowStatements
<1>4. CASE want.quantity = Unset
  <2>1. Write(h, set, 0, TRUE) /\ skewed' = skewed
    BY <1>4 DEF WriteRow
  <2>2. PICK r \in Row, change \in Int : r = set /\ change = 0
    BY <1>3
  <2>3. Wrote(h, r, change, TRUE)
    <3>1. Write(h, r, change, TRUE)
      BY <2>1, <2>2
    <3> QED BY <3>1, WriteMoves
  <2>4. Available(r) = Available(row) + change /\ r.reorder >= 0
    BY <1>1, <1>3, <2>2
  <2>5. skewed' \in BOOLEAN /\ (~ skewed' => ~ skewed)
    BY <1>2, <2>1
  <2> QED BY <1>1, <2>3, <2>4, <2>5
<1>5. CASE want.quantity # Unset
  <2>1. /\ Write(h, SetQuantity(set, want.quantity), want.quantity - old, TRUE)
        /\ skewed' = (skewed \/ row.quantity # old)
    BY <1>5 DEF WriteRow
  <2>2. PICK r \in Row, change \in Int : r = SetQuantity(set, want.quantity) /\ change = want.quantity - old
    <3>1. want.quantity \in Nat /\ want.quantity - old \in Int
      BY <1>1, <1>5
    <3> QED BY <1>3, <3>1, RowStatements
  <2>3. Wrote(h, r, change, TRUE)
    <3>1. Write(h, r, change, TRUE)
      BY <2>1, <2>2
    <3> QED BY <3>1, WriteMoves
  <2>4. r.reorder >= 0 /\ Available(r) = Available(row) + want.quantity - row.quantity
    <3>1. PICK t \in Row, q \in Nat : t = set /\ q = want.quantity
      BY <1>1, <1>3, <1>5
    <3>2. /\ SetQuantity(t, q).reorder = t.reorder
          /\ Available(SetQuantity(t, q)) = Available(t) + q - t.quantity
      BY RowStatements
    <3> HIDE DEF set, want
    <3> QED BY <1>1, <1>3, <2>2, <3>1, <3>2
  <2>5. skewed' \in BOOLEAN /\ (~ skewed' => ~ skewed /\ Available(r) = Available(row) + change)
    <3>1. row.quantity \in Nat /\ want.quantity \in Nat
      BY <1>1, <1>2, <1>5 DEF Row
    <3> HIDE DEF want, old
    <3> QED BY <1>1, <1>2, <1>3, <2>1, <2>2, <2>4, <3>1
  <2> QED BY <1>1, <2>3, <2>4, <2>5
<1> QED BY <1>4, <1>5

LEMMA ReserveDoes ==
  ASSUME TypeOK, RowsAreCreated, NEW h \in Requests, NEW q \in Quantities, ReserveStock(h, q)
  PROVE  \E r \in Row, change \in Int :
           /\ Wrote(h, r, change, FALSE) /\ change # 0
           /\ r.reorder >= 0
           /\ Available(r) = Available(row) + change
<1>1. q \in Nat /\ q # 0 /\ row \in Row
  BY StockViewsAssumption DEF TypeOK
<1>2. PICK r \in Row, change \in Int : r = Reserve(row, q) /\ change = -q
  BY <1>1, RowStatements
<1>3. Wrote(h, r, change, FALSE)
  <2>1. Write(h, r, change, FALSE)
    BY <1>2 DEF ReserveStock
  <2> QED BY <2>1, WriteMoves
<1>4. row.reorder >= 0 /\ Available(row) \in Int
  BY <1>1, RowStatements DEF ReserveStock, RowsAreCreated
<1>5. r.reorder = row.reorder /\ Available(r) = Available(row) - q
  BY <1>1, <1>2, RowStatements
<1>6. change # 0 /\ r.reorder >= 0 /\ Available(r) = Available(row) + change
  BY <1>1, <1>2, <1>4, <1>5
<1> QED BY <1>3, <1>6

LEMMA ReleaseDoes ==
  ASSUME TypeOK, RowsAreCreated, NEW h \in Requests, NEW q \in Quantities,
         ReleaseReservation(h, q)
  PROVE  \E r \in Row, change \in Int :
           /\ Wrote(h, r, change, FALSE) /\ change # 0
           /\ r.reorder >= 0
           /\ skewed' \in BOOLEAN
           /\ ~ skewed' => ~ skewed /\ Available(r) = Available(row) + change
<1>1. q \in Nat /\ q # 0 /\ row \in Row /\ row.reserved \in Nat /\ skewed \in BOOLEAN
  BY StockViewsAssumption DEF TypeOK, Row
<1>2. PICK r \in Row, change \in Int : r = GiveBack(row, q) /\ change = q
  BY <1>1, RowStatements
<1>3. Wrote(h, r, change, FALSE)
  <2>1. Write(h, r, change, FALSE)
    BY <1>2 DEF ReleaseReservation
  <2> QED BY <2>1, WriteMoves
<1>4. row.reorder >= 0
  BY DEF ReleaseReservation, RowsAreCreated
<1>5. r.reorder = row.reorder /\ (row.reserved >= q => Available(r) = Available(row) + q)
  BY <1>1, <1>2, RowStatements
<1>6. skewed' = (skewed \/ row.reserved < q)
  BY DEF ReleaseReservation
<1>7. change # 0 /\ r.reorder >= 0
  BY <1>1, <1>2, <1>4, <1>5
<1>8. skewed' \in BOOLEAN /\ (~ skewed' => ~ skewed /\ ~ row.reserved < q)
  BY <1>1, <1>6
<1>9. ~ row.reserved < q => Available(r) = Available(row) + change
  BY <1>1, <1>2, <1>5
<1> QED BY <1>3, <1>7, <1>8, <1>9

-----------------------------------------------------------------------------
(* A step is one of these: a request starts, inserts the row, is turned     *)
(* down, writes the row, goes on to its next statement, ends, or fails.     *)

Starts(h) ==
  /\ Moves(h)
  /\ requests[h].at = "idle"
  /\ entries + Cardinality({g \in Requests : requests[g] # Idle}) < MaxEntries
  /\ requests'[h].want.reorder >= 0 /\ ~ requests'[h].checks
  /\ \/ requests'[h].at = "insert" /\ requests'[h].want.quantity >= 0
     \/ requests'[h].at = "write" /\ Exists
  /\ UNCHANGED <<row, entries, logged, active, seen, cached,
                 skewed, unsettled, unchecked, doubled, faults>>

Inserts(h) ==
  /\ Moves(h)
  /\ requests[h].at = "insert" /\ ~ Exists
  /\ requests'[h].at = "history" /\ requests'[h].checks
  /\ requests'[h].snapshot = row' /\ requests'[h].change = Available(row')
  /\ row' \in Row /\ row'.reorder >= 0
  /\ unsettled' = (Holders # {})
  /\ UNCHANGED <<entries, logged, active, seen, cached, skewed, unchecked, doubled, faults>>

TurnedDown(h) ==
  /\ Moves(h)
  /\ requests[h].at = "insert" /\ Exists
  /\ requests'[h].at = "idle" /\ ~ requests'[h].checks
  /\ UNCHANGED <<row, entries, logged, active, seen, cached,
                 skewed, unsettled, unchecked, doubled, faults>>

Writes(h) ==
  \E r \in Row, change \in Int, checks \in BOOLEAN :
    /\ Wrote(h, r, change, checks) /\ Exists /\ r.reorder >= 0
    /\ ~ checks => change # 0
    /\ skewed' \in BOOLEAN
    /\ ~ skewed' => ~ skewed /\ Available(r) = Available(row) + change
    /\ \/ requests[h].at = "write"
       \/ /\ requests[h].at = "idle"
          /\ entries + Cardinality({g \in Requests : requests[g] # Idle}) < MaxEntries
    /\ UNCHANGED <<entries, logged, active, seen, cached, doubled, faults>>

Follows(h) ==
  \/ AddHistory(h) \/ CheckLowStock(h) \/ FindActive(h)
  \/ ResolveAlerts(h) \/ RaiseAlert(h) \/ EmitInventoryUpdate(h)

\* What Step gives in each of them.
GoesOn(h) ==
  /\ Moves(h)
  /\ requests'[h].change = requests[h].change
  /\ requests'[h].snapshot = requests[h].snapshot
  /\ requests'[h].checks = requests[h].checks

Ends(h) == Moves(h) /\ requests'[h].at = "idle" /\ ~ requests'[h].checks

LEMMA FollowsDoes ==
  ASSUME TypeOK, NEW h \in Requests, Follows(h)
  PROVE  /\ GoesOn(h)
         /\ requests[h].at \in Publishing /\ requests'[h].at \in Publishing
         /\ AddHistory(h) =>
              requests'[h].at = IF requests[h].checks THEN "check" ELSE "emit"
         /\ CheckLowStock(h) => requests'[h].at = IF IsLow(row) THEN "find" ELSE "emit"
         /\ FindActive(h) => requests'[h].at = IF active = 0 THEN "resolve" ELSE "emit"
         /\ ResolveAlerts(h) => requests'[h].at = "raise"
         /\ RaiseAlert(h) => requests'[h].at = "emit"
         /\ EmitInventoryUpdate(h) => requests'[h].at = "cache"
<1>1. requests[h].at \in Publishing
  BY DEF Follows, AddHistory, CheckLowStock, FindActive, ResolveAlerts, RaiseAlert,
         EmitInventoryUpdate, Publishing
<1>2. ASSUME NEW at \in Publishing, Step(h, at)
      PROVE  GoesOn(h) /\ requests'[h].at = at
  BY <1>2, StepMoves DEF GoesOn
<1>3. CASE AddHistory(h)
  <2>1. PICK at \in Publishing : at = IF requests[h].checks THEN "check" ELSE "emit"
    BY DEF Publishing
  <2>2. Step(h, at) /\ requests[h].at = "history"
    BY <1>3, <2>1 DEF AddHistory
  <2> QED BY <1>1, <1>2, <2>1, <2>2 DEF CheckLowStock, FindActive, ResolveAlerts, RaiseAlert,
         EmitInventoryUpdate, Publishing
<1>4. CASE CheckLowStock(h)
  <2>1. PICK at \in Publishing : at = IF IsLow(row) THEN "find" ELSE "emit"
    BY DEF Publishing
  <2>2. Step(h, at) /\ requests[h].at = "check"
    BY <1>4, <2>1 DEF CheckLowStock
  <2> QED BY <1>1, <1>2, <2>1, <2>2 DEF AddHistory, FindActive, ResolveAlerts, RaiseAlert,
         EmitInventoryUpdate, Publishing
<1>5. CASE FindActive(h)
  <2>1. PICK at \in Publishing : at = IF active = 0 THEN "resolve" ELSE "emit"
    BY DEF Publishing
  <2>2. Step(h, at) /\ requests[h].at = "find"
    BY <1>5, <2>1 DEF FindActive
  <2> QED BY <1>1, <1>2, <2>1, <2>2 DEF AddHistory, CheckLowStock, ResolveAlerts, RaiseAlert,
         EmitInventoryUpdate, Publishing
<1>6. CASE ResolveAlerts(h)
  <2>1. Step(h, "raise") /\ requests[h].at = "resolve" /\ "raise" \in Publishing
    BY <1>6 DEF ResolveAlerts, Publishing
  <2> QED BY <1>1, <1>2, <2>1 DEF AddHistory, CheckLowStock, FindActive, RaiseAlert,
         EmitInventoryUpdate, Publishing
<1>7. CASE RaiseAlert(h)
  <2>1. Step(h, "emit") /\ requests[h].at = "raise" /\ "emit" \in Publishing
    BY <1>7 DEF RaiseAlert, Publishing
  <2> QED BY <1>1, <1>2, <2>1 DEF AddHistory, CheckLowStock, FindActive, ResolveAlerts,
         EmitInventoryUpdate, Publishing
<1>8. CASE EmitInventoryUpdate(h)
  <2>1. Step(h, "cache") /\ requests[h].at = "emit" /\ "cache" \in Publishing
    BY <1>8 DEF EmitInventoryUpdate, Publishing
  <2> QED BY <1>1, <1>2, <2>1 DEF AddHistory, CheckLowStock, FindActive, ResolveAlerts,
         RaiseAlert, Publishing
<1> QED BY <1>3, <1>4, <1>5, <1>6, <1>7, <1>8 DEF Follows

LEMMA EndsDoes ==
  ASSUME TypeOK, NEW h \in Requests, UpdateCache(h) \/ Abort(h)
  PROVE  Ends(h)
BY IdleMoves DEF UpdateCache, Abort, Ends

LEMMA BeginIs ==
  ASSUME TypeOK, RowsAreCreated, NEW h \in Requests, Begin(h)
  PROVE  Starts(h) \/ Writes(h)
<1>1. /\ requests[h].at = "idle"
      /\ entries + Cardinality({g \in Requests : requests[g] # Idle}) < MaxEntries
  BY DEF Begin, Idle
<1>2. ASSUME NEW n \in Counts, NEW p \in ReorderPoints, CreateInventory(h, n, p)
      PROVE  Starts(h)
  <2>1. n >= 0 /\ p >= 0
    BY StockViewsAssumption
  <2>2. UNCHANGED <<row, entries, logged, active, seen, cached,
                    skewed, unsettled, unchecked, doubled, faults>>
    BY <1>2 DEF CreateInventory
  <2> QED BY <1>1, <1>2, <2>1, <2>2, CreateDoes DEF Starts
<1>3. ASSUME NEW n \in Counts \cup {Unset}, NEW p \in ReorderPoints, UpdateInventory(h, n, p)
      PROVE  Starts(h)
  <2>1. p >= 0
    BY StockViewsAssumption
  <2>2. Exists /\ UNCHANGED <<row, entries, logged, active, seen, cached,
                              skewed, unsettled, unchecked, doubled, faults>>
    BY <1>3 DEF UpdateInventory
  <2> QED BY <1>1, <1>3, <2>1, <2>2, UpdateDoes DEF Starts
<1>4. ASSUME NEW q \in Quantities, ReserveStock(h, q)
      PROVE  Writes(h)
  <2>1. PICK r \in Row, change \in Int :
           /\ Wrote(h, r, change, FALSE) /\ change # 0
           /\ r.reorder >= 0
           /\ Available(r) = Available(row) + change
    BY <1>4, ReserveDoes
  <2>2. /\ Exists /\ skewed' = skewed /\ skewed \in BOOLEAN
        /\ UNCHANGED <<entries, logged, active, seen, cached, doubled, faults>>
    BY <1>4 DEF ReserveStock, TypeOK
  <2>3. skewed' \in BOOLEAN /\ (~ skewed' => ~ skewed)
    BY <2>2
  <2> QED BY <1>1, <2>1, <2>2, <2>3 DEF Writes
<1>5. ASSUME NEW q \in Quantities, ReleaseReservation(h, q)
      PROVE  Writes(h)
  <2>1. PICK r \in Row, change \in Int :
           /\ Wrote(h, r, change, FALSE) /\ change # 0
           /\ r.reorder >= 0
           /\ skewed' \in BOOLEAN
           /\ ~ skewed' => ~ skewed /\ Available(r) = Available(row) + change
    BY <1>5, ReleaseDoes
  <2>2. Exists /\ UNCHANGED <<entries, logged, active, seen, cached, doubled, faults>>
    BY <1>5 DEF ReleaseReservation
  <2> QED BY <1>1, <2>1, <2>2 DEF Writes
<1> QED BY <1>2, <1>3, <1>4, <1>5 DEF Begin

LEMMA WriteRowIs ==
  ASSUME TypeOK, RowsAreCreated, NEW h \in Requests, WriteRow(h)
  PROVE  Writes(h)
<1>1. PICK r \in Row, change \in Int :
         /\ Wrote(h, r, change, TRUE)
         /\ r.reorder >= 0
         /\ Exists
         /\ skewed' \in BOOLEAN
         /\ ~ skewed' => ~ skewed /\ Available(r) = Available(row) + change
  BY WriteRowDoes
<1>2. /\ requests[h].at = "write"
      /\ UNCHANGED <<entries, logged, active, seen, cached, doubled, faults>>
  BY DEF WriteRow
<1> QED BY <1>1, <1>2 DEF Writes

LEMMA InsertRowIs ==
  ASSUME TypeOK, RowsAreCreated, NEW h \in Requests, InsertRow(h)
  PROVE  Inserts(h) \/ TurnedDown(h)
<1>1. CASE ~ Exists
  <2>1. /\ requests[h].at = "insert"
        /\ UNCHANGED <<entries, logged, active, seen, cached, skewed, doubled, faults>>
    BY DEF InsertRow
  <2> QED BY <1>1, <2>1, InsertDoes DEF Inserts
<1>2. CASE Exists
  <2>1. /\ requests[h].at = "insert" /\ Goto(h, Idle)
        /\ UNCHANGED <<row, entries, logged, active, seen, cached,
                       skewed, unsettled, unchecked, doubled, faults>>
    BY <1>2 DEF InsertRow
  <2> QED BY <1>2, <2>1, IdleMoves DEF TurnedDown
<1> QED BY <1>1, <1>2

LEMMA NextIs ==
  ASSUME TypeOK, RowsAreCreated, [Next]_vars
  PROVE  \/ \E h \in Requests :
              \/ Starts(h) \/ Inserts(h) \/ TurnedDown(h) \/ Writes(h)
              \/ Follows(h) \/ UpdateCache(h) \/ Abort(h)
         \/ CacheExpires
         \/ UNCHANGED vars
<1>1. ASSUME NEW h \in Requests, Continue(h)
      PROVE  Inserts(h) \/ TurnedDown(h) \/ Writes(h) \/ Follows(h) \/ UpdateCache(h)
  BY <1>1, InsertRowIs, WriteRowIs DEF Continue, Follows
<1> QED BY <1>1, BeginIs DEF Next

-----------------------------------------------------------------------------
(* Types, the row that is created once, and room for the entries.           *)

LEMMA WritingMoves ==
  ASSUME NEW h \in Requests, Moves(h)
  PROVE  /\ IsFiniteSet(Writing) /\ Cardinality(Writing) \in Nat
         /\ requests'[h].at \in {"insert", "write", "history"} => Writing' = Writing \cup {h}
         /\ requests'[h].at \notin {"insert", "write", "history"} => Writing' = Writing \ {h}
<1>1. Writing \subseteq Requests
  BY DEF Writing
<1>2. IsFiniteSet(Writing)
  BY <1>1, FS_Subset, StockViewsAssumption
<1> QED BY <1>2, FS_CardinalityType DEF Writing, Moves

LEMMA WritingCounts ==
  ASSUME NEW h \in Requests, Moves(h)
  PROVE  /\ Cardinality(Writing') \in Nat
         /\ h \in Writing => Cardinality(Writing') <= Cardinality(Writing)
         /\ Cardinality(Writing') <= Cardinality(Writing) + 1
         /\ requests'[h].at \notin {"insert", "write", "history"} =>
              Cardinality(Writing') =
                IF h \in Writing THEN Cardinality(Writing) - 1 ELSE Cardinality(Writing)
<1>1. IsFiniteSet(Writing) /\ Cardinality(Writing) \in Nat
  BY WritingMoves
<1>2. CASE requests'[h].at \in {"insert", "write", "history"}
  <2>1. Writing' = Writing \cup {h}
    BY <1>2, WritingMoves
  <2>2. Cardinality(Writing \cup {h}) =
          IF h \in Writing THEN Cardinality(Writing) ELSE Cardinality(Writing) + 1
    BY <1>1, FS_AddElement
  <2> QED BY <1>1, <1>2, <2>1, <2>2
<1>3. CASE requests'[h].at \notin {"insert", "write", "history"}
  <2>1. Writing' = Writing \ {h}
    BY <1>3, WritingMoves
  <2>2. Cardinality(Writing \ {h}) =
          IF h \in Writing THEN Cardinality(Writing) - 1 ELSE Cardinality(Writing)
    BY <1>1, FS_RemoveElement
  <2>3. Cardinality(Writing \ {h}) \in Nat
    BY <1>1, FS_RemoveElement, FS_CardinalityType
  <2> QED BY <1>1, <1>3, <2>1, <2>2, <2>3
<1> QED BY <1>2, <1>3

\* Who finds Begin's guard open leaves room for one entry more.
LEMMA BeginLeavesRoom ==
  ASSUME TypeOK, NEW h \in Requests, requests[h].at = "idle",
         entries + Cardinality({g \in Requests : requests[g] # Idle}) < MaxEntries
  PROVE  entries + Cardinality(Writing) + 1 <= MaxEntries
<1> DEFINE Busy == {g \in Requests : requests[g] # Idle}
<1>1. Writing \subseteq Busy
  BY NoRowTyped DEF Writing
<1>2. IsFiniteSet(Busy)
  BY FS_Subset, StockViewsAssumption
<1>3. Cardinality(Writing) <= Cardinality(Busy) /\ IsFiniteSet(Writing)
  BY <1>1, <1>2, FS_Subset
<1>4. Cardinality(Writing) \in Nat /\ Cardinality(Busy) \in Nat /\ entries \in Nat
  BY <1>2, <1>3, FS_CardinalityType DEF TypeOK
<1> HIDE DEF Busy
<1>5. entries + Cardinality(Busy) < MaxEntries
  BY DEF Busy
<1> QED BY <1>3, <1>4, <1>5, StockViewsAssumption

LEMMA EntriesFitKept ==
  ASSUME TypeOK, RowsAreCreated, EntriesFit, [Next]_vars
  PROVE  EntriesFit' /\ entries' \in 0..MaxEntries
<1>1. entries \in Nat /\ entries <= MaxEntries /\ MaxEntries \in Nat
  BY StockViewsAssumption DEF TypeOK
<1>2. entries + Cardinality(Writing) <= MaxEntries
  BY DEF EntriesFit
<1>3. ASSUME NEW h \in Requests, Starts(h) \/ Writes(h)
      PROVE  EntriesFit' /\ entries' \in 0..MaxEntries
  <2>1. Moves(h) /\ entries' = entries
    BY <1>3 DEF Starts, Writes, Wrote
  <2>2. Cardinality(Writing) \in Nat /\ Cardinality(Writing') \in Nat
    BY <2>1, WritingMoves, WritingCounts
  <2>3. CASE requests[h].at = "idle"
    <3>1. entries + Cardinality({g \in Requests : requests[g] # Idle}) < MaxEntries
      BY <1>3, <2>3 DEF Starts, Writes
    <3>2. entries + Cardinality(Writing) + 1 <= MaxEntries
      BY <2>3, <3>1, BeginLeavesRoom
    <3> QED BY <1>1, <2>1, <2>2, <3>2, WritingCounts DEF EntriesFit
  <2>4. CASE requests[h].at # "idle"
    <3>1. h \in Writing
      BY <1>3, <2>4 DEF Starts, Writes, Writing
    <3> QED BY <1>1, <1>2, <2>1, <2>2, <3>1, WritingCounts DEF EntriesFit
  <2> QED BY <2>3, <2>4
<1>4. ASSUME NEW h \in Requests, Inserts(h) \/ TurnedDown(h) \/ UpdateCache(h) \/ Abort(h)
      PROVE  EntriesFit' /\ entries' \in 0..MaxEntries
  <2>1. Moves(h) /\ entries' = entries
    BY <1>4, EndsDoes DEF Inserts, TurnedDown, UpdateCache, Abort, Ends
  <2>2. requests'[h].at \in {"insert", "write", "history"} => h \in Writing
    BY <1>4, EndsDoes DEF Inserts, TurnedDown, Ends, Writing
  <2>3. Cardinality(Writing) \in Nat /\ Cardinality(Writing') \in Nat
    BY <2>1, WritingMoves, WritingCounts
  <2>4. Cardinality(Writing') <= Cardinality(Writing)
    BY <2>1, <2>2, <2>3, WritingCounts
  <2> QED BY <1>1, <1>2, <2>1, <2>3, <2>4 DEF EntriesFit
<1>5. ASSUME NEW h \in Requests, Follows(h)
      PROVE  EntriesFit' /\ entries' \in 0..MaxEntries
  <2>1. Moves(h) /\ requests[h].at \in Publishing
    BY <1>5, FollowsDoes DEF GoesOn
  <2>2. Cardinality(Writing) \in Nat /\ Cardinality(Writing') \in Nat
    BY <2>1, WritingMoves, WritingCounts
  <2>3. requests'[h].at \notin {"insert", "write", "history"}
    BY <1>5, FollowsDoes DEF Follows
  <2>4. CASE AddHistory(h)
    <3>1. h \in Writing /\ entries' = entries + 1
      BY <2>4 DEF AddHistory, Writing
    <3> QED BY <1>1, <1>2, <2>1, <2>2, <2>3, <3>1, WritingCounts DEF EntriesFit
  <2>5. CASE ~ AddHistory(h)
    <3>1. entries' = entries
      BY <1>5, <2>5 DEF Follows, CheckLowStock, FindActive, ResolveAlerts, RaiseAlert,
                        EmitInventoryUpdate
    <3>2. Cardinality(Writing') <= Cardinality(Writing)
      BY <2>1, <2>2, <2>3, WritingCounts
    <3> QED BY <1>1, <1>2, <2>2, <3>1, <3>2 DEF EntriesFit
  <2> QED BY <2>4, <2>5
<1>6. CASE CacheExpires \/ UNCHANGED vars
  BY <1>1, <1>2, <1>6 DEF CacheExpires, vars, EntriesFit, Writing
<1> QED BY <1>3, <1>4, <1>5, <1>6, NextIs

LEMMA TypesKept ==
  ASSUME TypeOK, RowsAreCreated, EntriesFit, [Next]_vars
  PROVE  TypeOK'
<1>1. entries' \in 0..MaxEntries
  BY EntriesFitKept
<1>2. CASE CacheExpires \/ UNCHANGED vars
  BY <1>1, <1>2, NoRowTyped DEF CacheExpires, vars, TypeOK
<1>3. ASSUME NEW h \in Requests, Starts(h) \/ Inserts(h) \/ TurnedDown(h) \/ Writes(h)
      PROVE  TypeOK'
  <2>1. requests' \in [Requests -> Request]
    BY <1>3 DEF Starts, Inserts, TurnedDown, Writes, Wrote, Moves
  <2>2. row' \in Row /\ {seen', cached'} \subseteq Row
    BY <1>3 DEF Starts, Inserts, TurnedDown, Writes, Wrote, TypeOK
  <2>3. logged' \in Int /\ active' \in Nat /\ faults' \in 0..MaxFaults
    BY <1>3 DEF Starts, Inserts, TurnedDown, Writes, TypeOK
  <2>4. skewed' \in BOOLEAN /\ doubled' \in BOOLEAN
    BY <1>3 DEF Starts, Inserts, TurnedDown, Writes, TypeOK
  <2>5. unsettled' \in BOOLEAN /\ unchecked' \in BOOLEAN
    BY <1>3 DEF Starts, Inserts, TurnedDown, Writes, Wrote, TypeOK
  <2> QED BY <1>1, <2>1, <2>2, <2>3, <2>4, <2>5 DEF TypeOK
<1>4. ASSUME NEW h \in Requests, Follows(h) \/ UpdateCache(h) \/ Abort(h)
      PROVE  TypeOK'
  <2>1. requests' \in [Requests -> Request]
    BY <1>4, FollowsDoes, EndsDoes DEF GoesOn, Ends, Moves
  <2>2. requests[h].snapshot \in Row /\ requests[h].change \in Int
    BY DEF TypeOK, Request
  <2>3. {row', seen', cached'} \subseteq Row
    BY <1>4, <2>2 DEF Follows, AddHistory, CheckLowStock, FindActive, ResolveAlerts,
                      RaiseAlert, EmitInventoryUpdate, UpdateCache, Abort, TypeOK
  <2>4. logged' \in Int /\ active' \in Nat /\ faults' \in 0..MaxFaults
    BY <1>4, <2>2, StockViewsAssumption
       DEF Follows, AddHistory, CheckLowStock, FindActive, ResolveAlerts,
           RaiseAlert, EmitInventoryUpdate, UpdateCache, Abort, TypeOK
  <2>5. {skewed', unsettled', unchecked', doubled'} \subseteq BOOLEAN
    BY <1>4 DEF Follows, AddHistory, CheckLowStock, FindActive, ResolveAlerts,
                RaiseAlert, EmitInventoryUpdate, UpdateCache, Abort, TypeOK
  <2> QED BY <1>1, <2>1, <2>3, <2>4, <2>5 DEF TypeOK
<1> QED BY <1>2, <1>3, <1>4, NextIs

LEMMA RowsAreCreatedKept ==
  ASSUME TypeOK, RowsAreCreated, [Next]_vars
  PROVE  RowsAreCreated'
<1>1. CASE CacheExpires \/ UNCHANGED vars
  BY <1>1 DEF CacheExpires, vars, RowsAreCreated, Exists
<1>2. ASSUME NEW h \in Requests, Inserts(h) \/ Writes(h)
      PROVE  RowsAreCreated'
  <2>1. Moves(h) /\ row'.reorder >= 0 /\ requests'[h].at \in {"check", "history"}
    BY <1>2 DEF Inserts, Writes, Wrote
  <2>2. Exists'
    BY <2>1, ReorderMeansRow DEF Exists
  <2> QED BY <2>1, <2>2 DEF RowsAreCreated, Moves
<1>3. ASSUME NEW h \in Requests, Starts(h)
      PROVE  RowsAreCreated'
  BY <1>3 DEF Starts, RowsAreCreated, Moves, Exists
<1>4. ASSUME NEW h \in Requests, TurnedDown(h) \/ UpdateCache(h) \/ Abort(h)
      PROVE  RowsAreCreated'
  <2>1. Ends(h) /\ row' = row /\ logged' = logged
    BY <1>4, EndsDoes DEF TurnedDown, UpdateCache, Abort, Ends
  <2> QED BY <2>1 DEF Ends, RowsAreCreated, Moves, Exists
<1>5. ASSUME NEW h \in Requests, Follows(h)
      PROVE  RowsAreCreated'
  <2>1. Moves(h) /\ requests[h].at \in Publishing /\ requests'[h].at \in Publishing
    BY <1>5, FollowsDoes DEF GoesOn
  <2>2. row' = row
    BY <1>5 DEF Follows, AddHistory, CheckLowStock, FindActive, ResolveAlerts, RaiseAlert,
                EmitInventoryUpdate
  <2>3. Exists
    BY <2>1 DEF RowsAreCreated, Publishing
  <2> QED BY <2>1, <2>2, <2>3 DEF RowsAreCreated, Moves, Exists, Publishing
<1> QED BY <1>1, <1>2, <1>3, <1>4, <1>5, NextIs

-----------------------------------------------------------------------------
(* The history.                                                             *)

Owed(h) == IF requests[h].at = "history" THEN requests[h].change ELSE 0

LEMMA UnwrittenMoves ==
  ASSUME TypeOK, NEW h \in Requests, Moves(h)
  PROVE  /\ Unwritten \in Int /\ Owed(h) \in Int /\ Owed(h)' \in Int
         /\ Unwritten' = Unwritten - Owed(h) + Owed(h)'
<1>1. PICK f \in [Requests -> Int], g \in [Requests -> Int] :
        f = UnwrittenChanges /\ g = UnwrittenChanges'
  <2>1. UnwrittenChanges \in [Requests -> Int]
    BY DEF UnwrittenChanges, TypeOK, Request
  <2>2. UnwrittenChanges' \in [Requests -> Int]
    BY DEF UnwrittenChanges, Moves, Request
  <2> QED BY <2>1, <2>2
<1>2. \A y \in Requests \ {h} : g[y] = f[y]
  BY <1>1 DEF UnwrittenChanges, Moves
<1>3. SumFunction(g) = SumFunction(f) - f[h] + g[h]
  BY <1>2, SumChange, StockViewsAssumption
<1>4. SumFunction(f) \in Int
  BY SumRemove, StockViewsAssumption DEF SumFunction
<1>5. f[h] = Owed(h) /\ g[h] = Owed(h)'
  BY <1>1 DEF UnwrittenChanges, Owed
<1>6. SumFunction(f) = Unwritten /\ SumFunction(g) = Unwritten'
  BY <1>1 DEF Unwritten
<1> QED BY <1>3, <1>4, <1>5, <1>6

LEMMA NothingUnwritten ==
  ASSUME TypeOK, \A h \in Requests : requests[h].at # "history"
  PROVE  Unwritten = 0
<1>1. UnwrittenChanges \in [Requests -> Int] /\ \A h \in Requests : UnwrittenChanges[h] = 0
  BY DEF UnwrittenChanges
<1>2. DOMAIN UnwrittenChanges = Requests
  BY <1>1
<1>3. SumFunctionOnSet(UnwrittenChanges, Requests) = 0
  BY <1>1, SumZero, StockViewsAssumption
<1> QED BY <1>2, <1>3 DEF Unwritten, SumFunction

LEMMA HistoryKept ==
  ASSUME TypeOK, RowsAreCreated, HistoryAddsUp, [Next]_vars
  PROVE  HistoryAddsUp'
<1> SUFFICES ASSUME Exists', ~ skewed' PROVE logged' + Unwritten' = Available(row')
  BY DEF HistoryAddsUp, Exists, Available
<1>1. logged \in Int /\ row \in Row /\ Available(row) \in Int
  BY RowStatements DEF TypeOK
<1>2. CASE CacheExpires \/ UNCHANGED vars
  BY <1>2 DEF CacheExpires, vars, HistoryAddsUp, Exists, Available, Unwritten, UnwrittenChanges
<1>3. ASSUME NEW h \in Requests, Inserts(h)
      PROVE  logged' + Unwritten' = Available(row')
  <2>1. Moves(h) /\ requests[h].at = "insert" /\ ~ Exists
    BY <1>3 DEF Inserts
  <2>2. logged = 0 /\ \A g \in Requests : requests[g].at # "history"
    BY <2>1 DEF RowsAreCreated
  <2>3. Unwritten = 0 /\ Owed(h) = 0
    BY <2>2, NothingUnwritten DEF Owed
  <2>4. Owed(h)' = Available(row') /\ logged' = logged
    BY <1>3 DEF Inserts, Owed
  <2> QED BY <2>1, <2>2, <2>3, <2>4, UnwrittenMoves
<1>4. ASSUME NEW h \in Requests, Writes(h)
      PROVE  logged' + Unwritten' = Available(row')
  <2>1. PICK r \in Row, change \in Int, checks \in BOOLEAN :
           /\ Wrote(h, r, change, checks) /\ Exists
           /\ ~ skewed /\ Available(r) = Available(row) + change
           /\ requests[h].at \in {"write", "idle"}
           /\ logged' = logged
    BY <1>4 DEF Writes
  <2>2. /\ Moves(h) /\ row' = r /\ requests'[h].change = change
        /\ requests'[h].at = IF change = 0 THEN "check" ELSE "history"
    BY <2>1 DEF Wrote
  <2>3. Owed(h) = 0 /\ Owed(h)' = change
    BY <2>1, <2>2 DEF Owed
  <2>4. logged + Unwritten = Available(row)
    BY <2>1 DEF HistoryAddsUp
  <2>5. Available(row') = Available(row) + change
    BY <2>1, <2>2
  <2> QED BY <1>1, <2>1, <2>2, <2>3, <2>4, <2>5, UnwrittenMoves
<1>5. ASSUME NEW h \in Requests, AddHistory(h)
      PROVE  logged' + Unwritten' = Available(row')
  <2>1. /\ requests[h].at = "history" /\ logged' = logged + requests[h].change
        /\ row' = row /\ skewed' = skewed
    BY <1>5 DEF AddHistory
  <2>2. Moves(h) /\ requests'[h].at # "history"
    BY <1>5, FollowsDoes DEF Follows, GoesOn
  <2>3. Owed(h) = requests[h].change /\ Owed(h)' = 0
    BY <2>1, <2>2 DEF Owed
  <2>4. logged + Unwritten = Available(row)
    BY <2>1 DEF HistoryAddsUp, Exists
  <2> QED BY <1>1, <2>1, <2>2, <2>3, <2>4, UnwrittenMoves
<1>6. ASSUME NEW h \in Requests, Moves(h), Owed(h)' = Owed(h),
             row' = row, logged' = logged, ~ skewed
      PROVE  logged' + Unwritten' = Available(row')
  <2>1. logged + Unwritten = Available(row)
    BY <1>6 DEF HistoryAddsUp, Exists
  <2> QED BY <1>1, <1>6, <2>1, UnwrittenMoves
<1>7. ASSUME NEW h \in Requests, Follows(h), ~ AddHistory(h)
      PROVE  logged' + Unwritten' = Available(row')
  <2>1. row' = row /\ logged' = logged /\ ~ skewed /\ requests[h].at # "history"
    BY <1>7 DEF Follows, CheckLowStock, FindActive, ResolveAlerts, RaiseAlert,
                EmitInventoryUpdate
  <2>2. Moves(h) /\ requests'[h].at # "history"
    BY <1>7, FollowsDoes DEF Follows, GoesOn
  <2>3. Owed(h)' = Owed(h)
    BY <2>1, <2>2 DEF Owed
  <2> QED BY <1>6, <2>1, <2>2, <2>3
<1>8. ASSUME NEW h \in Requests, Starts(h) \/ TurnedDown(h) \/ UpdateCache(h) \/ Abort(h)
      PROVE  logged' + Unwritten' = Available(row')
  <2>1. row' = row /\ logged' = logged /\ ~ skewed /\ requests[h].at # "history"
    <3>1. row' = row /\ logged' = logged
      BY <1>8 DEF Starts, TurnedDown, UpdateCache, Abort
    <3>2. CASE Abort(h)
      <4>1. skewed' = (skewed \/ requests[h].at = "history")
        BY <3>2 DEF Abort
      <4> QED BY <3>1, <4>1
    <3>3. CASE ~ Abort(h)
      BY <1>8, <3>1, <3>3 DEF Starts, TurnedDown, UpdateCache
    <3> QED BY <3>2, <3>3
  <2>2. Moves(h) /\ requests'[h].at # "history"
    BY <1>8, EndsDoes DEF Starts, TurnedDown, Ends
  <2>3. Owed(h)' = Owed(h)
    BY <2>1, <2>2 DEF Owed
  <2> QED BY <1>6, <2>1, <2>2, <2>3
<1> QED BY <1>2, <1>3, <1>4, <1>5, <1>7, <1>8, NextIs

-----------------------------------------------------------------------------
(* The alerts.                                                              *)

LEMMA OneReplacesKept ==
  ASSUME TypeOK, RowsAreCreated, OneReplaces, [Next]_vars
  PROVE  OneReplaces'
<1> SUFFICES ASSUME ~ doubled'
             PROVE  /\ active' <= 1
                    /\ \A h \in Requests : requests'[h].at = "raise" =>
                         active' = 0 /\ \A g \in Requests : requests'[g].at = "raise" => g = h
  BY DEF OneReplaces
<1> DEFINE Alone == /\ active' <= 1
                    /\ \A h \in Requests : requests'[h].at = "raise" =>
                         active' = 0 /\ \A g \in Requests : requests'[g].at = "raise" => g = h
<1>1. CASE CacheExpires \/ UNCHANGED vars
  BY <1>1 DEF CacheExpires, vars, OneReplaces
<1>2. ASSUME NEW h \in Requests, Moves(h), requests'[h].at # "raise",
             active' = active, doubled' = doubled
      PROVE  Alone
  BY <1>2 DEF Moves, OneReplaces
<1>3. ASSUME NEW h \in Requests,
             Starts(h) \/ Inserts(h) \/ TurnedDown(h) \/ Writes(h) \/ UpdateCache(h) \/ Abort(h)
      PROVE  Alone
  <2>1. Moves(h) /\ requests'[h].at # "raise" /\ active' = active /\ doubled' = doubled
    BY <1>3, EndsDoes DEF Starts, Inserts, TurnedDown, Writes, Wrote, UpdateCache, Abort, Ends
  <2> QED BY <1>2, <2>1
<1>4. ASSUME NEW h \in Requests, Follows(h), ~ ResolveAlerts(h), ~ RaiseAlert(h)
      PROVE  Alone
  <2>1. Moves(h) /\ requests'[h].at # "raise"
    BY <1>4, FollowsDoes DEF Follows, GoesOn
  <2>2. active' = active /\ doubled' = doubled
    BY <1>4 DEF Follows, AddHistory, CheckLowStock, FindActive, EmitInventoryUpdate
  <2> QED BY <1>2, <2>1, <2>2
<1>5. ASSUME NEW h \in Requests, ResolveAlerts(h)
      PROVE  Alone
  <2>1. active' = 0 /\ \A g \in Requests : requests[g].at # "raise"
    BY <1>5 DEF ResolveAlerts
  <2>2. Moves(h)
    BY <1>5, FollowsDoes DEF Follows, GoesOn
  <2> QED BY <2>1, <2>2 DEF Moves
<1>6. ASSUME NEW h \in Requests, RaiseAlert(h)
      PROVE  Alone
  <2>1. requests[h].at = "raise" /\ active' = active + 1 /\ ~ doubled
    BY <1>6 DEF RaiseAlert
  <2>2. Moves(h) /\ requests'[h].at = "emit"
    BY <1>6, FollowsDoes DEF Follows, GoesOn
  <2>3. active = 0 /\ \A g \in Requests : requests[g].at = "raise" => g = h
    BY <2>1 DEF OneReplaces
  <2> QED BY <2>1, <2>2, <2>3 DEF Moves
<1> QED BY <1>1, <1>3, <1>4, <1>5, <1>6, NextIs

LEMMA AlertIsComingKept ==
  ASSUME TypeOK, RowsAreCreated, AlertIsComing, [Next]_vars
  PROVE  AlertIsComing'
<1>1. CASE CacheExpires \/ UNCHANGED vars
  BY <1>1 DEF CacheExpires, vars, AlertIsComing, Exists, IsLow, Available, Checking
<1>2. ASSUME NEW h \in Requests, Starts(h) \/ TurnedDown(h) \/ UpdateCache(h)
      PROVE  AlertIsComing'
  <2>1. /\ Moves(h) /\ row' = row /\ active' = active /\ unchecked' = unchecked
        /\ requests[h].at \in {"idle", "insert", "cache"}
        /\ requests'[h].at \in {"idle", "insert", "write"}
    BY <1>2, EndsDoes DEF Starts, TurnedDown, UpdateCache, Ends
  <2> QED BY <2>1 DEF Moves, AlertIsComing, Exists, IsLow, Available, Checking
<1>3. ASSUME NEW h \in Requests, Abort(h)
      PROVE  AlertIsComing'
  <2>1. /\ Ends(h) /\ row' = row /\ active' = active
        /\ ~ unchecked' => ~ unchecked /\ ~ Checking(h)
    BY <1>3, EndsDoes DEF Abort, Checking, AlertIsComing, TypeOK
  <2> QED BY <2>1 DEF Ends, Moves, AlertIsComing, Exists, IsLow, Available, Checking
<1>4. ASSUME NEW h \in Requests, Inserts(h)
      PROVE  AlertIsComing'
  <2>1. Moves(h) /\ requests'[h].at = "history" /\ requests'[h].checks
    BY <1>4 DEF Inserts
  <2> QED BY <2>1 DEF Moves, AlertIsComing, Checking
<1>5. ASSUME NEW h \in Requests, Writes(h)
      PROVE  AlertIsComing'
  <2>1. /\ Moves(h)
        /\ \/ requests'[h].checks /\ requests'[h].at \in {"check", "history"}
           \/ ~ requests'[h].checks /\ requests'[h].at = "history" /\ unchecked'
    BY <1>5 DEF Writes, Wrote
  <2> QED BY <2>1 DEF Moves, AlertIsComing, Checking
<1>6. ASSUME NEW h \in Requests, Follows(h)
      PROVE  AlertIsComing'
  <2>1. /\ Moves(h) /\ requests'[h].checks = requests[h].checks
    BY <1>6, FollowsDoes DEF GoesOn
  <2>2. row' = row /\ Exists' = Exists /\ IsLow(row)' = IsLow(row) /\ active \in Nat
    BY <1>6 DEF Follows, AddHistory, CheckLowStock, FindActive, ResolveAlerts, RaiseAlert,
                EmitInventoryUpdate, Exists, IsLow, Available, TypeOK
  <2>3. CASE AddHistory(h)
    <3>1. /\ requests[h].at = "history" /\ active' = active /\ unchecked' = unchecked
          /\ requests'[h].at = IF requests[h].checks THEN "check" ELSE "emit"
      BY <1>6, <2>3, FollowsDoes DEF AddHistory
    <3>2. Checking(h)' = Checking(h)
      BY <2>1, <3>1 DEF Checking
    <3> QED BY <2>1, <2>2, <3>1, <3>2 DEF Moves, AlertIsComing, Checking
  <2>4. CASE CheckLowStock(h)
    <3>1. /\ requests[h].at = "check" /\ active' = active
          /\ requests'[h].at = IF IsLow(row) THEN "find" ELSE "emit"
      BY <1>6, <2>4, FollowsDoes DEF CheckLowStock
    <3> QED BY <2>1, <2>2, <3>1 DEF Moves, AlertIsComing, Checking
  <2>5. CASE FindActive(h)
    <3>1. /\ requests[h].at = "find" /\ active' = active /\ unchecked' = unchecked
          /\ requests'[h].at = IF active = 0 THEN "resolve" ELSE "emit"
      BY <1>6, <2>5, FollowsDoes DEF FindActive
    <3> QED BY <2>1, <2>2, <3>1 DEF Moves, AlertIsComing, Checking
  <2>6. CASE ResolveAlerts(h)
    <3>1. requests[h].at = "resolve" /\ requests'[h].at = "raise"
      BY <1>6, <2>6, FollowsDoes DEF ResolveAlerts
    <3> QED BY <2>1, <3>1 DEF Moves, AlertIsComing, Checking
  <2>7. CASE RaiseAlert(h)
    <3>1. requests[h].at = "raise" /\ requests'[h].at = "emit" /\ active' = active + 1
      BY <1>6, <2>7, FollowsDoes DEF RaiseAlert
    <3> QED BY <2>1, <2>2, <3>1 DEF Moves, AlertIsComing, Checking
  <2>8. CASE EmitInventoryUpdate(h)
    <3>1. /\ requests[h].at = "emit" /\ requests'[h].at = "cache"
          /\ active' = active /\ unchecked' = unchecked
      BY <1>6, <2>8, FollowsDoes DEF EmitInventoryUpdate
    <3> QED BY <2>1, <2>2, <3>1 DEF Moves, AlertIsComing, Checking
  <2> QED BY <1>6, <2>3, <2>4, <2>5, <2>6, <2>7, <2>8 DEF Follows
<1> QED BY <1>1, <1>2, <1>3, <1>4, <1>5, <1>6, NextIs

-----------------------------------------------------------------------------
(* Browsers and cache.                                                      *)

LEMMA HoldersMove ==
  ASSUME NEW h \in Requests, Moves(h)
  PROVE  Holders' = IF requests'[h].at \in Publishing THEN Holders \cup {h} ELSE Holders \ {h}
BY DEF Moves, Holders

LEMMA SnapshotsKept ==
  ASSUME TypeOK, RowsAreCreated, ViewsAreCurrent, OneSnapshot, [Next]_vars
  PROVE  ViewsAreCurrent' /\ OneSnapshot'
<1>1. CASE UNCHANGED vars
  BY <1>1 DEF vars, ViewsAreCurrent, OneSnapshot, Exists, Holders
<1>2. CASE CacheExpires
  <2>1. /\ cached' = NoRow
        /\ UNCHANGED <<row, seen, requests, unsettled>>
    BY <1>2 DEF CacheExpires
  <2> QED BY <2>1 DEF ViewsAreCurrent, OneSnapshot, Exists, Holders
<1>3. ASSUME NEW h \in Requests, Moves(h), h \notin Holders, h \notin Holders',
             ~ unsettled' => ~ unsettled, UNCHANGED <<row, seen, cached>>
      PROVE  ViewsAreCurrent' /\ OneSnapshot'
  <2>1. Holders' = Holders
    BY <1>3, HoldersMove
  <2>2. \A g \in Holders : requests'[g] = requests[g]
    BY <1>3 DEF Moves, Holders
  <2> QED BY <1>3, <2>1, <2>2 DEF ViewsAreCurrent, OneSnapshot, Exists
<1>4. ASSUME NEW h \in Requests, Starts(h) \/ TurnedDown(h)
      PROVE  ViewsAreCurrent' /\ OneSnapshot'
  <2>1. /\ Moves(h) /\ UNCHANGED <<row, seen, cached, unsettled>>
        /\ requests[h].at \in {"idle", "insert"}
        /\ requests'[h].at \in {"idle", "insert", "write"}
    BY <1>4 DEF Starts, TurnedDown
  <2>2. h \notin Holders /\ h \notin Holders'
    BY <2>1 DEF Holders, Publishing
  <2> QED BY <1>3, <2>1, <2>2
<1>5. ASSUME NEW h \in Requests, Abort(h)
      PROVE  ViewsAreCurrent' /\ OneSnapshot'
  <2>1. Ends(h) /\ UNCHANGED <<row, seen, cached>>
    BY <1>5, EndsDoes DEF Abort
  <2>2. h \notin Holders'
    BY <2>1 DEF Ends, Holders, Publishing
  <2>3. CASE unsettled'
    BY <2>3 DEF ViewsAreCurrent, OneSnapshot
  <2>4. CASE ~ unsettled'
    <3>1. ~ unsettled /\ h \notin Holders
      BY <1>5, <2>4 DEF Abort, Holders
    <3> QED BY <1>3, <2>1, <2>2, <3>1 DEF Ends
  <2> QED BY <2>3, <2>4
<1>6. ASSUME NEW h \in Requests, Inserts(h) \/ Writes(h)
      PROVE  ViewsAreCurrent' /\ OneSnapshot'
  <2>1. /\ Moves(h) /\ requests'[h].at \in {"history", "check"}
        /\ requests'[h].snapshot = row'
        /\ ~ unsettled' => Holders \ {h} = {}
    BY <1>6 DEF Inserts, Writes, Wrote
  <2>2. Holders' = Holders \cup {h}
    BY <2>1, HoldersMove DEF Publishing
  <2>3. ~ unsettled' => Holders' = {h}
    BY <2>1, <2>2
  <2> QED BY <2>1, <2>2, <2>3 DEF ViewsAreCurrent, OneSnapshot
<1>7. ASSUME NEW h \in Requests, Follows(h)
      PROVE  ViewsAreCurrent' /\ OneSnapshot'
  <2>1. /\ Moves(h) /\ requests'[h].snapshot = requests[h].snapshot
        /\ requests[h].at \in Publishing /\ requests'[h].at \in Publishing
    BY <1>7, FollowsDoes DEF GoesOn
  <2>2. Holders' = Holders /\ h \in Holders
    BY <2>1, HoldersMove DEF Holders
  <2>3. UNCHANGED <<row, unsettled>>
    BY <1>7 DEF Follows, AddHistory, CheckLowStock, FindActive, ResolveAlerts, RaiseAlert,
                EmitInventoryUpdate
  <2>4. requests'[h].at = "cache" => seen' = requests[h].snapshot
    BY <1>7, FollowsDoes DEF Follows, EmitInventoryUpdate
  <2> QED BY <2>1, <2>2, <2>3, <2>4 DEF ViewsAreCurrent, OneSnapshot, Exists
<1>8. ASSUME NEW h \in Requests, UpdateCache(h)
      PROVE  ViewsAreCurrent' /\ OneSnapshot'
  <2>1. /\ Ends(h) /\ UNCHANGED <<row, seen, unsettled>>
        /\ requests[h].at = "cache" /\ cached' = requests[h].snapshot
    BY <1>8, EndsDoes DEF UpdateCache
  <2>2. h \in Holders /\ Holders' = Holders \ {h}
    BY <2>1, HoldersMove DEF Ends, Holders, Publishing
  <2> QED BY <2>1, <2>2 DEF ViewsAreCurrent, OneSnapshot, Exists
<1> QED BY <1>1, <1>2, <1>4, <1>5, <1>6, <1>7, <1>8, NextIs

-----------------------------------------------------------------------------
(* The theorems.                                                            *)

LEMMA NextViews == ViewsIInv /\ [Next]_vars => ViewsIInv'
<1> SUFFICES ASSUME ViewsIInv, [Next]_vars PROVE ViewsIInv'
  OBVIOUS
<1>1. TypeOK' /\ RowsAreCreated' /\ EntriesFit'
  BY TypesKept, RowsAreCreatedKept, EntriesFitKept DEF ViewsIInv
<1>2. HistoryAddsUp' /\ OneReplaces' /\ AlertIsComing'
  BY HistoryKept, OneReplacesKept, AlertIsComingKept DEF ViewsIInv
<1>3. ViewsAreCurrent' /\ OneSnapshot'
  BY SnapshotsKept DEF ViewsIInv
<1> QED BY <1>1, <1>2, <1>3 DEF ViewsIInv

\* What the requests under way are up to, and with it the five properties below,
\* holds in every reachable state of InventoryService and its repositories.
THEOREM ViewsInvariant == Spec => []ViewsIInv
<1>1. Init => ViewsIInv
  BY InitViews
<1>2. ViewsIInv /\ [Next]_vars => ViewsIInv'
  BY NextViews
<1> QED BY <1>1, <1>2, PTL DEF Spec

\* Every variable keeps its type; the history never has more entries than
\* Begin makes room for.
THEOREM ViewsTyped == Spec => []TypeOK
<1>1. ViewsIInv => TypeOK
  BY DEF ViewsIInv
<1> QED BY <1>1, ViewsInvariant, PTL

\* The changes inventory_history tells and those about to be written sum up to the
\* available quantity, unless an entry failed, an update wrote over a quantity it
\* had not read or a release hit the floor: no other order of the requests loses
\* or doubles a change.
THEOREM ChangesAddUp == Spec => []HistoryAddsUp
<1>1. ViewsIInv => HistoryAddsUp
  BY DEF ViewsIInv
<1> QED BY <1>1, ViewsInvariant, PTL

\* Two alerts of one row are active only after two calls of
\* LowStockAlertRepository.create were between its two statements together.
THEOREM AlertsDoNotDouble == Spec => []OneActiveAlert
<1>1. ViewsIInv => OneActiveAlert
  BY DEF ViewsIInv, TypeOK, OneReplaces, OneActiveAlert
<1> QED BY <1>1, ViewsInvariant, PTL

\* With no snapshot under way the browsers and Redis show the row, unless the last
\* write raced with other snapshots or its own was dropped.
THEOREM ViewsSettle == Spec => []ViewsAreCurrent
<1>1. ViewsIInv => ViewsAreCurrent
  BY DEF ViewsIInv
<1> QED BY <1>1, ViewsInvariant, PTL

\* With no request in progress a low row has an active alert, unless a reservation
\* or release made it low or the check of a write was lost.
THEOREM LowStockNoticed == Spec => []LowStockIsNoticed
<1>1. ViewsIInv => LowStockIsNoticed
  BY DEF ViewsIInv, AlertIsComing, Checking, LowStockIsNoticed
<1> QED BY <1>1, ViewsInvariant, PTL
=============================================================================
