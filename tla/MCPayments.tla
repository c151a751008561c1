----------------------------- MODULE MCPayments -----------------------------
(* Small instances of Payments for TLC.                                     *)
EXTENDS Payments, TLC

\* Worker slots, request slots and charges are interchangeable.
Interchangeable ==
  Permutations(Workers) \cup Permutations(Clients) \cup Permutations(Charges)
=============================================================================
