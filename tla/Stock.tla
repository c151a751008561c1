-------------------------------- MODULE Stock --------------------------------
(***************************************************************************)
(* One row of the table `inventory` of the inventory service (a product in *)
(* a warehouse) and the UPDATE statements the repository runs on it.  Each *)
(* statement is one PostgreSQL statement outside any transaction block, so *)
(* it is atomic, and everything between two of them can interleave.        *)
(***************************************************************************)
EXTENDS Naturals

\* The columns the statements read or write; the CHECKs of the table keep
\* both of them at or above zero.
StockRow == [quantity : Nat, reserved : Nat]

\* Mutant: the WHERE clause forgets what is already reserved.
CanReserveIgnoringReserved(row, q) == row.quantity >= q

\* WHERE clause of the reserving UPDATE: available_quantity is the generated
\* column quantity - reserved_quantity, and may be negative.
CanReserve(row, q) == row.quantity >= row.reserved + q

\* SET reserved_quantity = reserved_quantity + q
Reserve(row, q) == [row EXCEPT !.reserved = @ + q]

\* Mutants: nothing happens at the floor; everything is given back.
GiveBackAboveFloor(row, q) == [row EXCEPT !.reserved = IF @ > q THEN @ - q ELSE @]
GiveBackAll(row, q) == [row EXCEPT !.reserved = 0]

\* SET reserved_quantity = GREATEST(0, reserved_quantity - q)
GiveBack(row, q) == [row EXCEPT !.reserved = IF @ > q THEN @ - q ELSE 0]

\* SET quantity = n, the absolute write of the admin form and of a transfer
SetQuantity(row, n) == [row EXCEPT !.quantity = n]
==============================================================================
