------------------------------ MODULE MCOrders ------------------------------
(* Small instances of Orders for TLC.                                       *)
EXTENDS Orders, TLC

\* Orders and request slots are interchangeable.
Interchangeable == Permutations(Orders) \cup Permutations(Requests)
=============================================================================
