----------------------------- MODULE MCStockViews -----------------------------
(* Small instances of StockViews for TLC.                                   *)
EXTENDS StockViews, TLC

\* Request slots are interchangeable.
Interchangeable == Permutations(Requests)
=============================================================================
