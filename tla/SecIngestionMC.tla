---------------------------- MODULE SecIngestionMC ----------------------------
(* Small instances of SecIngestion for TLC. *)
EXTENDS SecIngestion

CONSTANTS goog, googl, form4, broken, report8k, second8k

\* Two share classes of one company list its filings.
SharedListing == [s \in Symbols |-> IF s = goog THEN {form4, report8k} ELSE {form4, broken}]

\* A Form 4 of two transactions.
SmallSize == [f \in Filings |-> IF f = form4 THEN 2 ELSE IF f = broken THEN 1 ELSE 0]

\* Every filing has a key of its own.
DistinctKeys == [p \in Symbols \X Filings |-> p]

\* One company files two reports of one form on a day.
SameDayListing == [s \in Symbols |-> {report8k, second8k}]
SameDayKeys ==
  [p \in Symbols \X Filings |-> <<p[1], IF p[2] = second8k THEN report8k ELSE p[2]>>]
=============================================================================
