---------------------------- MODULE MCTransfers ----------------------------
(* Small instances of Transfers for TLC.                                    *)
EXTENDS Transfers, TLC

\* Request slots and transfers are interchangeable.
Interchangeable == Permutations(Handlers) \cup Permutations(Transfers)
=============================================================================
