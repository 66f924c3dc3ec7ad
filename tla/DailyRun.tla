-------------------------------- MODULE DailyRun --------------------------------
(***************************************************************************)
(* The daily run: LMIOService.run_daily of src/lmio/service.py, with the   *)
(* candidate lifecycle of src/lmio/candidates.py, and research_latest,     *)
(* which writes packages for the newest screen run.  The stages of the     *)
(* pipeline that write to the same tables, market_snapshot and screens,    *)
(* are actions here: they leave a screen row that names no universe.       *)
(*                                                                         *)
(* A run appends its rows of evidence one at a time and its report last;   *)
(* runs go on at a time, and each may stop between two rows, because the   *)
(* store refuses one or the process dies.  The rows are kept here with the *)
(* run that appended them; in the store most of them do not name it.       *)
(*                                                                         *)
(* Definitions named Faulty... are plausible mistakes in the one that      *)
(* follows them.  No specification uses them: they show what the           *)
(* properties catch.                                                       *)
(***************************************************************************)
EXTENDS Integers, Sequences, FiniteSets

CONSTANTS
  DailyRuns,        \* calls of run_daily
  Pipelines,        \* pipeline runs
  Researches,       \* calls of research_latest
  Tickers,          \* symbols a screen may return, each by one strategy
  Observations,     \* snapshots: what a provider gave of a symbol at a time
  SymbolOf,         \* the symbol of each
  OperationalLimit, \* candidates of a screen whose evidence is stored
  ReportLimit,      \* candidates of a report
  ResearchLimits,   \* candidates a call of research_latest may ask for
  MaxStopped,       \* bound: runs that stop before they have ended
  NoScreen          \* no screen row

ASSUME DailyRunAssumption ==
  /\ DailyRuns \cap Pipelines = {}
  /\ NoScreen \notin DailyRuns \cup Pipelines
  /\ SymbolOf \in [Observations -> Tickers]
  /\ IsFiniteSet(Tickers)
  /\ {OperationalLimit, ReportLimit, MaxStopped} \subseteq Nat
  /\ ResearchLimits \subseteq 0..OperationalLimit

VARIABLES
  running,      \* what each run appends next
  input,        \* its provenance, its candidates by score, and of the operational ones those
                \* that are ill-evidenced and the snapshots of their symbols
  next,         \* the candidate it is at
  universeRows, \* universe_runs: of each run the id of its row, 0 without one
  snapshotRows, \* provider_snapshots, one row of each
  trail,        \* candidate_transitions: of each run and candidate, the new states
  screenRows,   \* screen_runs: of each run the universe row it names, 0 without one
  pipelineRows, \* screen_runs of pipelines: the ones that have one, which name no universe row
  pipelineInput,\* the candidates by score of each pipeline
  newestScreen, \* who appended the newest row of screen_runs
  evaluated,    \* top3_evaluations: of each run its candidates
  reportRows,   \* reports: the runs that have one
  syntheticRows,\* synthetic_records: the runs that have one
  stopped,      \* runs stopped so far
  research,     \* of each call of research_latest, the screen row it read, what it still packs
  packs         \* research_packs: whose screen row it is of, and a symbol

runTables == <<universeRows, trail, screenRows, evaluated, reportRows, syntheticRows>>
pipelineTables == <<pipelineRows, pipelineInput>>
dailyVars ==
  <<running, input, next, runTables, snapshotRows, pipelineTables, newestScreen, stopped,
    research, packs>>

CandidateStates ==
  {"discovered", "filtered", "researching", "watching", "confirmed", "rejected", "expired"}

\* Where a candidate may go.
AllowedCandidateTransitions ==
  [discovered |-> {"filtered", "rejected"},
   filtered |-> {"researching", "rejected", "expired"},
   researching |-> {"watching", "rejected", "expired"},
   watching |-> {"confirmed", "rejected", "expired"},
   confirmed |-> {"expired"}, rejected |-> {}, expired |-> {}]

\* Those who append to screen_runs.
Screeners == DailyRuns \cup Pipelines

\* Candidates by score, none twice.
Screens == {s \in UNION {[1..n -> Tickers] : n \in 0..Cardinality(Tickers)} :
              \A i, j \in DOMAIN s : i # j => s[i] # s[j]}

NamesOf(s) == {s[i] : i \in DOMAIN s}
FirstPlaces(s, limit) == {i \in DOMAIN s : i <= limit}
FirstOf(s, limit) == {s[i] : i \in FirstPlaces(s, limit)}

DailyInputs ==
  {i \in [live : BOOLEAN, screened : Screens, thin : SUBSET Tickers, given : SUBSET Observations] :
     LET operational == FirstOf(i.screened, OperationalLimit)
     IN  i.thin \subseteq operational /\ {SymbolOf[o] : o \in i.given} = operational}

Stages == {"new", "universe", "snapshots", "transitions", "screen", "evaluations", "report",
           "synthetic", "done", "stopped"}

NoInput == [live |-> TRUE, screened |-> <<>>, thin |-> {}, given |-> {}]

DailyTypeOK ==
  /\ running \in [DailyRuns -> Stages]
  /\ input \in [DailyRuns -> DailyInputs]
  /\ next \in [DailyRuns -> Nat]
  /\ universeRows \in [DailyRuns -> Nat]
  /\ snapshotRows \subseteq Observations
  /\ trail \in [DailyRuns -> [Tickers -> Seq(CandidateStates)]]
  /\ screenRows \in [DailyRuns -> Nat]
  /\ pipelineRows \subseteq Pipelines
  /\ pipelineInput \in [Pipelines -> Screens]
  /\ newestScreen \in Screeners \cup {NoScreen}
  /\ evaluated \in [DailyRuns -> SUBSET Tickers]
  /\ reportRows \subseteq DailyRuns
  /\ syntheticRows \subseteq DailyRuns
  /\ stopped \in 0..MaxStopped
  /\ research \in [Researches -> [of : Screeners \cup {NoScreen}, left : SUBSET Tickers]]
  /\ packs \subseteq Screeners \X Tickers

DailyInit ==
  /\ running = [r \in DailyRuns |-> "new"]
  /\ input = [r \in DailyRuns |-> NoInput]
  /\ next = [r \in DailyRuns |-> 1]
  /\ universeRows = [r \in DailyRuns |-> 0]
  /\ snapshotRows = {}
  /\ trail = [r \in DailyRuns |-> [t \in Tickers |-> <<>>]]
  /\ screenRows = [r \in DailyRuns |-> 0]
  /\ pipelineRows = {}
  /\ pipelineInput = [p \in Pipelines |-> <<>>]
  /\ newestScreen = NoScreen
  /\ evaluated = [r \in DailyRuns |-> {}]
  /\ reportRows = {}
  /\ syntheticRows = {}
  /\ stopped = 0
  /\ research = [q \in Researches |-> [of |-> NoScreen, left |-> {}]]
  /\ packs = {}

-----------------------------------------------------------------------------
(* run_daily.                                                              *)

FaultyFollowing(stage) ==   \* the report before the verdicts it rests on
  CASE stage = "universe" -> "snapshots" [] stage = "snapshots" -> "transitions"
    [] stage = "transitions" -> "screen" [] stage = "screen" -> "report"
    [] stage = "report" -> "evaluations" [] stage \in {"evaluations", "synthetic"} -> "done"

\* The order of the rows.
Following(stage) ==
  CASE stage = "universe" -> "snapshots" [] stage = "snapshots" -> "transitions"
    [] stage = "transitions" -> "screen" [] stage = "screen" -> "evaluations"
    [] stage = "evaluations" -> "report" [] stage \in {"report", "synthetic"} -> "done"

GoOn(r) ==
  /\ running' = [running EXCEPT ![r] = Following(running[r])]
  /\ next' = [next EXCEPT ![r] = 1]

Operational(r) == FirstOf(input[r].screened, OperationalLimit)

\* The screens have returned, and the report is made, before anything is stored.
\* What a run of no operational provenance was given is in its one row alone.
StartDaily(r) ==
  /\ running[r] = "new"
  /\ \/ \E i \in DailyInputs :
          /\ i.live
          /\ input' = [input EXCEPT ![r] = i]
          /\ running' = [running EXCEPT ![r] = "universe"]
     \/ /\ input' = [input EXCEPT ![r].live = FALSE]
        /\ running' = [running EXCEPT ![r] = "synthetic"]
  /\ UNCHANGED <<next, runTables, snapshotRows, pipelineTables, newestScreen, stopped, research,
                 packs>>

\* Rows of provenance that is not operational are kept apart.
AppendSynthetic(r) ==
  /\ running[r] = "synthetic"
  /\ syntheticRows' = syntheticRows \cup {r}
  /\ GoOn(r)
  /\ UNCHANGED <<input, universeRows, snapshotRows, trail, screenRows, pipelineTables,
                 newestScreen, evaluated, reportRows, stopped, research, packs>>

AppendUniverse(r) ==
  /\ running[r] = "universe"
  /\ universeRows' = [universeRows EXCEPT ![r] =
                        1 + Cardinality({q \in DailyRuns : universeRows[q] # 0})]
  /\ GoOn(r)
  /\ UNCHANGED <<input, snapshotRows, trail, screenRows, pipelineTables, newestScreen, evaluated,
                 reportRows, syntheticRows, stopped, research, packs>>

\* One snapshot after the other; one that is there already is not stored again.
PutSnapshots(r) ==
  /\ running[r] = "snapshots"
  /\ IF input[r].given \subseteq snapshotRows
     THEN GoOn(r) /\ UNCHANGED snapshotRows
     ELSE /\ \E o \in input[r].given \ snapshotRows : snapshotRows' = snapshotRows \cup {o}
          /\ UNCHANGED <<running, next>>
  /\ UNCHANGED <<input, runTables, pipelineTables, newestScreen, stopped, research, packs>>

\* The transitions of a candidate of a run: each is checked, and all start from
\* a candidate that has just been discovered.
Transitions(r, t) ==
  IF t \in input[r].thin THEN <<"filtered", "researching">> ELSE <<"filtered">>

Legal(states) ==
  \A i \in DOMAIN states :
    states[i] \in AllowedCandidateTransitions[IF i = 1 THEN "discovered" ELSE states[i - 1]]

AppendTransition(r) ==
  /\ running[r] = "transitions"
  /\ IF next[r] \notin FirstPlaces(input[r].screened, OperationalLimit)
     THEN GoOn(r) /\ UNCHANGED trail
     ELSE LET t == input[r].screened[next[r]]
              done == Len(trail[r][t]) + 1
          IN  /\ Legal(Transitions(r, t))
              /\ trail' = [trail EXCEPT ![r][t] = Append(@, Transitions(r, t)[done])]
              /\ next' = [next EXCEPT ![r] = IF done = Len(Transitions(r, t)) THEN @ + 1 ELSE @]
              /\ UNCHANGED running
  /\ UNCHANGED <<input, universeRows, snapshotRows, screenRows, pipelineTables, newestScreen,
                 evaluated, reportRows, syntheticRows, stopped, research, packs>>

AppendScreen(r) ==
  /\ running[r] = "screen"
  /\ screenRows' = [screenRows EXCEPT ![r] = universeRows[r]]
  /\ newestScreen' = r
  /\ GoOn(r)
  /\ UNCHANGED <<input, universeRows, snapshotRows, trail, pipelineTables, evaluated, reportRows,
                 syntheticRows, stopped, research, packs>>

AppendEvaluation(r) ==
  /\ running[r] = "evaluations"
  /\ LET left == FirstOf(input[r].screened, ReportLimit) \ evaluated[r] IN
       IF left = {}
       THEN GoOn(r) /\ UNCHANGED evaluated
       ELSE /\ \E t \in left : evaluated' = [evaluated EXCEPT ![r] = @ \cup {t}]
            /\ UNCHANGED <<running, next>>
  /\ UNCHANGED <<input, universeRows, snapshotRows, trail, screenRows, pipelineTables,
                 newestScreen, reportRows, syntheticRows, stopped, research, packs>>

AppendReport(r) ==
  /\ running[r] = "report"
  /\ reportRows' = reportRows \cup {r}
  /\ GoOn(r)
  /\ UNCHANGED <<input, universeRows, snapshotRows, trail, screenRows, pipelineTables,
                 newestScreen, evaluated, syntheticRows, stopped, research, packs>>

\* A row is refused or the process dies: what is stored stays.
Stop(r) ==
  /\ running[r] \notin {"new", "done", "stopped"}
  /\ stopped < MaxStopped
  /\ running' = [running EXCEPT ![r] = "stopped"]
  /\ stopped' = stopped + 1
  /\ UNCHANGED <<input, next, runTables, snapshotRows, pipelineTables, newestScreen, research,
                 packs>>

-----------------------------------------------------------------------------
(* The pipeline, which is a module of its own: what it adds to the tables  *)
(* of this one.                                                            *)

PutPipelineSnapshot(o) ==
  /\ snapshotRows' = snapshotRows \cup {o}
  /\ UNCHANGED <<running, input, next, runTables, pipelineTables, newestScreen, stopped, research,
                 packs>>

\* A pipeline screens after it has stored every snapshot it was given: a failed
\* market_snapshot blocks the later stages.
AppendPipelineScreen(p) ==
  /\ p \notin pipelineRows
  /\ pipelineRows' = pipelineRows \cup {p}
  /\ \E s \in Screens :
       /\ NamesOf(s) \subseteq {SymbolOf[o] : o \in snapshotRows}
       /\ pipelineInput' = [pipelineInput EXCEPT ![p] = s]
  /\ newestScreen' = p
  /\ UNCHANGED <<running, input, next, runTables, snapshotRows, stopped, research, packs>>

-----------------------------------------------------------------------------
(* research_latest.                                                        *)

\* The candidates of a screen row.
ScreenedBy(w) == IF w \in DailyRuns THEN input[w].screened ELSE pipelineInput[w]

\* The newest screen row is read, whoever appended it, and whether or not that
\* run goes on to a report.
ReadScreen(q) ==
  /\ research[q].of = NoScreen
  /\ newestScreen # NoScreen
  /\ \E limit \in ResearchLimits :
       research' = [research EXCEPT ![q] = [of |-> newestScreen,
                                            left |-> FirstOf(ScreenedBy(newestScreen), limit)]]
  /\ UNCHANGED <<running, input, next, runTables, snapshotRows, pipelineTables, newestScreen,
                 stopped, packs>>

AppendPack(q) ==
  /\ \E t \in research[q].left :
       /\ packs' = packs \cup {<<research[q].of, t>>}
       /\ research' = [research EXCEPT ![q].left = @ \ {t}]
  /\ UNCHANGED <<running, input, next, runTables, snapshotRows, pipelineTables, newestScreen,
                 stopped>>

DailyNext ==
  \/ \E r \in DailyRuns :
       StartDaily(r) \/ AppendSynthetic(r) \/ AppendUniverse(r) \/ PutSnapshots(r)
         \/ AppendTransition(r) \/ AppendScreen(r) \/ AppendEvaluation(r) \/ AppendReport(r)
         \/ Stop(r)
  \/ \E o \in Observations : PutPipelineSnapshot(o)
  \/ \E p \in Pipelines : AppendPipelineScreen(p)
  \/ \E q \in Researches : ReadScreen(q) \/ AppendPack(q)

DailySpec == DailyInit /\ [][DailyNext]_dailyVars

-----------------------------------------------------------------------------
(* Properties.                                                             *)

\* The screen row of a daily run names its universe row and comes after the
\* snapshots and the full trail of its operational candidates.
ScreenBacked(r) ==
  /\ screenRows[r] = universeRows[r] /\ universeRows[r] # 0
  /\ input[r].given \subseteq snapshotRows
  /\ \A t \in Operational(r) : trail[r][t] = Transitions(r, t)

\* Of what rests a report is always whole, wherever a run stops and whatever
\* goes on beside it: a screen row with all that comes before it, and a verdict
\* on every candidate it lists; and only runs of operational provenance are
\* reported.  A package is of a candidate of a stored screen row of which a
\* snapshot is stored.  If a daily run appended that row, all that comes before
\* it is there; if a pipeline did, nothing more need be.
ReportBacked ==
  /\ \A r \in reportRows :
       /\ input[r].live /\ ScreenBacked(r)
       /\ evaluated[r] = FirstOf(input[r].screened, ReportLimit)
  /\ \A pack \in packs :
       /\ pack[2] \in NamesOf(ScreenedBy(pack[1]))
       /\ \E o \in snapshotRows : SymbolOf[o] = pack[2]
       /\ pack[1] \in DailyRuns => input[pack[1]].live /\ ScreenBacked(pack[1])
       /\ pack[1] \in Pipelines => pack[1] \in pipelineRows
=============================================================================
