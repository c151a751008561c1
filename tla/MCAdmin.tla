------------------------------- MODULE MCAdmin -------------------------------
(* Small instances of Admin for TLC.                                        *)
EXTENDS Admin, TLC

\* Request slots are interchangeable, and so are the first administrators.
Interchangeable == Permutations(Requests) \cup Permutations(Admins)
=============================================================================
