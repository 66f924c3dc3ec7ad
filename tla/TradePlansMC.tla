----------------------------- MODULE TradePlansMC -----------------------------
(* A small instance of TradePlans for TLC. *)
EXTENDS TradePlans, TLC

\* Nothing tells one operator or one request from another.
Interchangeable == Permutations(Operators) \cup Permutations(Workers)
=============================================================================
