------------------------------- MODULE MCQuotas -------------------------------
(* Small instances of Quotas for TLC.                                       *)
EXTENDS Quotas, TLC

\* Check slots are interchangeable.
Interchangeable == Permutations(Checks)
=============================================================================
