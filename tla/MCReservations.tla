--------------------------- MODULE MCReservations ---------------------------
(* Small instances of Reservations for TLC.                                 *)
EXTENDS Reservations, TLC

\* Request slots and reservation identifiers are interchangeable.
Interchangeable == Permutations(Requests) \cup Permutations(Resvs)
=============================================================================
