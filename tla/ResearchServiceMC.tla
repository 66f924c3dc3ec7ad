--------------------------- MODULE ResearchServiceMC ---------------------------
(* A small instance of ResearchService. *)
EXTENDS ResearchService

CONSTANTS i1, i2, f1, x, o1, o2

\* Filing f1 has the one ownership event i1; i2 is a provider snapshot.
MCEventsOf == [f \in {f1} |-> {i1}]

\* Two snapshots of x: y is not among the operational candidates.
MCSymbolOf == [o \in {o1, o2} |-> x]

\* A stake and news match two strategies, whose names and order differ.
StakeAndNews == {"stake 5", "impact 70", "volume 1.2"}

MCSnapshot(symbol, observed, facts, missing, stakeScore, otherScore) ==
  [symbol |-> symbol, observed |-> observed, excluded |-> FALSE, live |-> TRUE,
   facts |-> facts, missing |-> missing,
   score |-> [s \in Strategies |-> IF s = "activist_catalyst" THEN stakeScore ELSE otherScore],
   confidence |-> 100, completeness |-> 100]

\* A symbol with two strategies of the same score, a newer snapshot of it that
\* the policy excludes, one short of a field, one that is old and scores more,
\* and one of a replay.
MCSnapshots ==
  LET fresh == MCSnapshot(1, 30, StakeAndNews, {}, 80, 80)
  IN  {fresh, [fresh EXCEPT !.observed = 40, !.excluded = TRUE], [fresh EXCEPT !.live = FALSE],
       MCSnapshot(2, 0, StakeAndNews, {"revision"}, 90, 85),
       MCSnapshot(3, 0, {"pattern"}, {}, 70, 85)}

\* Rates far apart, and so close that the optimistic case raises.
MCEvidence ==
  {[standard |-> TRUE, complete |-> TRUE, discount |-> 90, terminal |-> 25],
   [standard |-> TRUE, complete |-> TRUE, discount |-> 40, terminal |-> 20]}

\* The command line names a symbol twice.
MCWatched == <<"spy", "spy">>

\* The laptop's clock is right, or ahead by as much as is accepted at once, or
\* by more.
MCSkews == {0, 1, 2}
=============================================================================
