-------------------------------- MODULE MCAuth --------------------------------
(* Small instances of Auth for TLC.                                         *)
EXTENDS Auth, TLC

\* Request slots and secrets are interchangeable.
Interchangeable == Permutations(Requests) \cup Permutations(Secrets)
=============================================================================
