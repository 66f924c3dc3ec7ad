------------------------------- MODULE Pipeline -------------------------------
(***************************************************************************)
(* The daily operational pipeline: OperationalPipeline.run of              *)
(* src/lmio/pipeline.py with the stage handlers of                         *)
(* LMIOService.run_operational_pipeline (src/lmio/service.py), and the     *)
(* reports table it shares with the after-close job and the news refresh.  *)
(*                                                                         *)
(* A run carries its context from stage to stage in memory and appends     *)
(* rows of evidence to the store as it goes; the run and its stages are    *)
(* recorded at the very end.  A handler may raise between any two          *)
(* operations and the process may die between any two: rows stay, the      *)
(* context does not.  A step is one operation on the store (all rows of a  *)
(* kind together), one addition to the context, or the end of a stage.     *)
(*                                                                         *)
(* Definitions named Faulty... are plausible mistakes in the one that      *)
(* follows them.  No specification uses them: they show what the           *)
(* properties catch.                                                       *)
(***************************************************************************)
EXTENDS Integers, FiniteSets

CONSTANTS
  Runs,          \* invocations of the pipeline, each with a fresh run_id
  MaxSetbacks,   \* bound: stages of a run that raise or end worse than they might
  NoRun          \* no run

ASSUME RunsAssumption ==
  /\ NoRun \notin Runs
  /\ MaxSetbacks \in Nat

VARIABLES
  phase,         \* where each run is: its stages, or recording them
  at,            \* the stage it is at
  context,       \* what the handlers have put into its context
  rows,          \* the kinds of rows it has appended
  listed,        \* the kinds its operational_lineage row lists the ids of
  outcome,       \* status of each stage
  blockedBy,     \* blocking_stage, 0 if there is none
  recorded,      \* status of its pipeline_runs row, "absent" without one
  stageRows,     \* number of its pipeline_stages rows
  setbacks,      \* setbacks it has had
  latest,        \* the newest reports row: its type and its run
  newestTop10,   \* the run of the newest daily report, which holds a Top 10
  refreshed      \* the last news refresh: whose Top 10 it watched, and whose was newest

run == <<phase, at, context, rows, listed, outcome, blockedBy, recorded, stageRows, setbacks>>
reports == <<latest, newestTop10, refreshed>>
vars == <<run, reports>>

Stages == 1..21

FaultyCritical == {1, 2, 5, 6, 8, 16}   \* a failed ranking does not block

FaultyCriticalNoBrief == {1, 2, 5, 6, 8, 9}   \* nor does a missing brief

Critical == {1, 2, 5, 6, 8, 9, 16}

AlwaysRun == {21}

\* What handlers put into the context without storing it, with their stages.
Data == [snapshots |-> 2, official_refresh |-> 3, investable |-> 5, candidates |-> 6, top_10 |-> 9]

\* The rows that handlers append, with their stages.
Evidence ==
  [provider_snapshots |-> 2, screen_runs |-> 6, top10_rankings |-> 9,
   valuation_input_records |-> 10, valuation_runs |-> 11,
   research_packs |-> 13, top3_evaluations |-> 13, reports |-> 13,
   candidate_transitions |-> 15, telegram_deliveries |-> 17, operational_lineage |-> 21]

DataOf(n) == {d \in DOMAIN Data : Data[d] = n}
EvidenceOf(n) == {k \in DOMAIN Evidence : Evidence[k] = n}
Items == DOMAIN Data \cup DOMAIN Evidence

\* The kinds of rows whose ids a lineage row can list.
Lineage == DOMAIN Evidence \ {"candidate_transitions", "telegram_deliveries", "operational_lineage"}

Statuses == {"succeeded", "partial", "failed", "skipped", "blocked"}
Phases == {"new", "stages", "run", "rows", "done", "dead"}

TypeOK ==
  /\ phase \in [Runs -> Phases]
  /\ at \in [Runs -> 1..22]
  /\ context \in [Runs -> SUBSET Items]
  /\ rows \in [Runs -> SUBSET DOMAIN Evidence]
  /\ listed \in [Runs -> SUBSET Lineage]
  /\ outcome \in [Runs -> [Stages -> Statuses \cup {"none"}]]
  /\ blockedBy \in [Runs -> Critical \cup {0}]
  /\ recorded \in [Runs -> {"succeeded", "partial", "failed", "absent"}]
  /\ stageRows \in [Runs -> 0..21]
  /\ setbacks \in [Runs -> Nat]
  /\ latest \in [type : {"none", "daily", "after_close"}, run : Runs \cup {NoRun}]
  /\ newestTop10 \in Runs \cup {NoRun}
  /\ refreshed \in [watched : Runs \cup {NoRun}, newest : Runs \cup {NoRun}]

Init ==
  /\ phase = [r \in Runs |-> "new"]
  /\ at = [r \in Runs |-> 1]
  /\ context = [r \in Runs |-> {}]
  /\ rows = [r \in Runs |-> {}]
  /\ listed = [r \in Runs |-> {}]
  /\ outcome = [r \in Runs |-> [n \in Stages |-> "none"]]
  /\ blockedBy = [r \in Runs |-> 0]
  /\ recorded = [r \in Runs |-> "absent"]
  /\ stageRows = [r \in Runs |-> 0]
  /\ setbacks = [r \in Runs |-> 0]
  /\ latest = [type |-> "none", run |-> NoRun]
  /\ newestTop10 = NoRun
  /\ refreshed = [watched |-> NoRun, newest |-> NoRun]

-----------------------------------------------------------------------------
(* The steps of a handler.                                                 *)

Begin(r) ==
  /\ phase[r] = "new"
  /\ phase' = [phase EXCEPT ![r] = "stages"]
  /\ UNCHANGED <<at, context, rows, listed, outcome, blockedBy, recorded, stageRows,
                 setbacks, reports>>

\* A handler is called unless an earlier critical stage has failed.
Executing(r) ==
  /\ phase[r] = "stages"
  /\ at[r] \in Stages
  /\ blockedBy[r] = 0 \/ at[r] \in AlwaysRun

\* What a refresh of the official news watches: the Top 10 of the newest report,
\* if that has one.
Refresh ==
  refreshed' = [watched |-> IF latest.type = "daily" THEN latest.run ELSE NoRun,
                newest |-> newestTop10]

Put(r, d) ==
  /\ Executing(r)
  /\ d \in DataOf(at[r]) \ context[r]
  /\ context' = [context EXCEPT ![r] = @ \cup {d}]
  /\ IF d = "official_refresh" THEN Refresh ELSE UNCHANGED refreshed
  /\ UNCHANGED <<phase, at, rows, listed, outcome, blockedBy, recorded, stageRows,
                 setbacks, latest, newestTop10>>

\* What a handler has put into the context before it appends rows of a kind.
Before(k) ==
  CASE k = "top3_evaluations" -> {}
    [] k = "reports" -> {"research_packs", "top3_evaluations"}
    [] k \in DOMAIN Evidence \ {"top3_evaluations", "reports"} -> DataOf(Evidence[k])

\* What the handler of a stage indexes in the context or takes as given; for
\* anything else it has a default.
Indexed(n) ==
  CASE n \in {11, 13} -> {"snapshots", "top_10"}
    [] n = 17 -> {"reports"}
    [] n \in Stages \ {11, 13, 17} -> {}

Append(r, k) ==
  /\ Executing(r)
  /\ k \in EvidenceOf(at[r]) \ rows[r]
  /\ Before(k) \cup Indexed(at[r]) \subseteq context[r]
  /\ k = "top3_evaluations" => "research_packs" \in rows[r]
  /\ rows' = [rows EXCEPT ![r] = @ \cup {k}]
  /\ listed' = [listed EXCEPT ![r] =
       IF k = "operational_lineage" THEN context[r] \cap Lineage ELSE @]
  /\ IF k = "reports"
       THEN latest' = [type |-> "daily", run |-> r] /\ newestTop10' = r
       ELSE UNCHANGED <<latest, newestTop10>>
  /\ UNCHANGED <<phase, at, context, outcome, blockedBy, recorded, stageRows, setbacks,
                 refreshed>>

FaultyNotable(r, k) == k \in EvidenceOf(at[r])   \* the ids before the rows

\* The ids of rows go into the context once they are there, those of the
\* research packages with those of the evaluations.
Notable(r, k) ==
  /\ k \in rows[r]
  /\ k = "research_packs" => "top3_evaluations" \in rows[r]

Note(r, k) ==
  /\ Executing(r)
  /\ k \in EvidenceOf(at[r]) \ context[r]
  /\ Notable(r, k)
  /\ context' = [context EXCEPT ![r] = @ \cup {k}]
  /\ UNCHANGED <<phase, at, rows, listed, outcome, blockedBy, recorded, stageRows, setbacks,
                 reports>>

-----------------------------------------------------------------------------
(* The end of a stage.                                                     *)

\* The statuses that the handler of stage n may return with context c.
Results(n, c) ==
  CASE n = 1 -> {"succeeded", "failed"}
    [] n = 4 -> IF "official_refresh" \in c THEN {"succeeded", "partial", "failed", "skipped"}
                ELSE {"skipped"}
    [] n = 11 -> IF "valuation_input_records" \in c THEN {"succeeded", "partial"} ELSE {"succeeded"}
    [] n = 14 -> IF "research_packs" \in c THEN {"succeeded", "partial"} ELSE {"succeeded"}
    [] n = 16 -> IF "reports" \in c THEN {"succeeded"} ELSE {"failed"}
    [] n = 20 -> {"succeeded", "skipped"}
    [] n \in {2, 3, 10, 13, 17, 18, 19, 21} -> {"succeeded", "partial"}
    [] n \in {5, 6, 7, 8, 9, 12, 15} -> {"succeeded"}

\* The loop of run takes the status of its stage and goes on.
EndStage(r, status) ==
  /\ outcome' = [outcome EXCEPT ![r][at[r]] = status]
  /\ at' = [at EXCEPT ![r] = @ + 1]
  /\ blockedBy' = [blockedBy EXCEPT ![r] = IF status = "failed" /\ at[r] \in Critical THEN at[r] ELSE @]
  /\ phase' = [phase EXCEPT ![r] = IF at[r] = 21 THEN "run" ELSE @]
  /\ UNCHANGED <<context, rows, listed, recorded, stageRows, reports>>

Setback(r) ==
  /\ setbacks[r] < MaxSetbacks
  /\ setbacks' = [setbacks EXCEPT ![r] = @ + 1]

\* A handler returns.
Complete(r, status) ==
  LET results == Results(at[r], context[r]) IN
  /\ Executing(r)
  /\ DataOf(at[r]) \cup EvidenceOf(at[r]) \subseteq context[r]
  /\ status \in results
  /\ EndStage(r, status)
  /\ IF "succeeded" \in results \ {status} THEN Setback(r) ELSE UNCHANGED setbacks

\* A handler raises, wherever it is: the stage has failed.
Raise(r) ==
  /\ Executing(r)
  /\ Setback(r)
  /\ EndStage(r, "failed")

FaultyBlock(r) ==   \* a blocked run stops there, with no health summary
  /\ phase[r] = "stages"
  /\ ~ Executing(r)
  /\ phase' = [phase EXCEPT ![r] = "run"]
  /\ UNCHANGED <<at, context, rows, listed, outcome, blockedBy, recorded, stageRows, setbacks,
                 reports>>

\* A stage after a failed critical one is not executed.
Block(r) ==
  /\ phase[r] = "stages"
  /\ ~ Executing(r)
  /\ EndStage(r, "blocked")
  /\ UNCHANGED setbacks

-----------------------------------------------------------------------------
(* Recording the run.                                                      *)

\* _run_status
RunStatus(o) ==
  IF \E n \in Stages : o[n] = "failed" THEN "failed"
  ELSE IF \E n \in Stages : o[n] \in {"partial", "blocked"} THEN "partial"
  ELSE "succeeded"

FaultyPersistRun(r) ==   \* a blocked run is not recorded
  /\ phase[r] = "run"
  /\ blockedBy[r] = 0
  /\ recorded' = [recorded EXCEPT ![r] = RunStatus(outcome[r])]
  /\ phase' = [phase EXCEPT ![r] = "rows"]
  /\ UNCHANGED <<at, context, rows, listed, outcome, blockedBy, stageRows, setbacks, reports>>

\* The row of the run comes before those of its stages, which refer to it.
PersistRun(r) ==
  /\ phase[r] = "run"
  /\ recorded' = [recorded EXCEPT ![r] = RunStatus(outcome[r])]
  /\ phase' = [phase EXCEPT ![r] = "rows"]
  /\ UNCHANGED <<at, context, rows, listed, outcome, blockedBy, stageRows, setbacks, reports>>

PersistStage(r) ==
  /\ phase[r] = "rows"
  /\ stageRows' = [stageRows EXCEPT ![r] = @ + 1]
  /\ phase' = [phase EXCEPT ![r] = IF stageRows[r] = 20 THEN "done" ELSE @]
  /\ UNCHANGED <<at, context, rows, listed, outcome, blockedBy, recorded, setbacks, reports>>

\* The process dies or exceeds its time, or recording the run raises.
Die(r) ==
  /\ phase[r] \in {"stages", "run", "rows"}
  /\ phase' = [phase EXCEPT ![r] = "dead"]
  /\ context' = [context EXCEPT ![r] = {}]
  /\ UNCHANGED <<at, rows, listed, outcome, blockedBy, recorded, stageRows, setbacks, reports>>

-----------------------------------------------------------------------------
(* The other users of the reports table.                                   *)

\* The after-close job appends its summary, which has no Top 10.
AfterCloseReport ==
  /\ latest' = [type |-> "after_close", run |-> NoRun]
  /\ UNCHANGED <<run, newestTop10, refreshed>>

\* The scheduled refresh of the official news.
RefreshNews ==
  /\ Refresh
  /\ UNCHANGED <<run, latest, newestTop10>>

-----------------------------------------------------------------------------

Work(r) ==
  \/ \E d \in DOMAIN Data : Put(r, d)
  \/ \E k \in DOMAIN Evidence : Append(r, k) \/ Note(r, k)
  \/ \E status \in Statuses : Complete(r, status)
  \/ Block(r) \/ PersistRun(r) \/ PersistStage(r)

Next ==
  \/ \E r \in Runs : Begin(r) \/ Work(r) \/ Raise(r) \/ Die(r)
  \/ AfterCloseReport
  \/ RefreshNews

Spec == Init /\ [][Next]_vars

\* A run goes on until it is recorded, unless it dies.
FairSpec == Spec /\ \A r \in Runs : WF_vars(Work(r))

-----------------------------------------------------------------------------
(* Properties.                                                             *)

\* A brief is handed to the outbox only by a run whose market data, screens and
\* ranking are complete and stored, and whose report is stored: "Failure of
\* current market data makes analytical output misleading" (src/lmio/pipeline.py).
BriefRestsOnEvidence ==
  \A r \in Runs :
    "telegram_deliveries" \in rows[r] =>
      /\ {"provider_snapshots", "screen_runs", "top10_rankings", "reports"} \subseteq rows[r]
      /\ \A n \in Critical : outcome[r][n] \in {"succeeded", "partial"}

\* What a handler takes for granted in the context is there when it is called,
\* whatever failed or raised before: the critical stages are enough.
InputsReady ==
  \A r \in Runs :
    Executing(r) => Indexed(at[r]) \subseteq context[r]

\* The lineage of a run lists no rows that are not stored, and leaves out none
\* but those of a handler that raised.
LineageFaithful ==
  \A r \in Runs :
    "operational_lineage" \in rows[r] =>
      /\ listed[r] \subseteq rows[r]
      /\ \A k \in (rows[r] \cap Lineage) \ listed[r] : outcome[r][Evidence[k]] = "failed"

\* A run that ends has a status for each of the 21 stages and a row for each,
\* and its lineage unless the health summary failed, also if it was blocked;
\* and one that is recorded as succeeded has appended and listed all there is.
EndsWithEvidence ==
  \A r \in Runs :
    phase[r] = "done" =>
      /\ stageRows[r] = 21
      /\ \A n \in Stages : outcome[r][n] # "none"
      /\ "operational_lineage" \in rows[r] \/ outcome[r][21] = "failed"
      /\ blockedBy[r] # 0 => recorded[r] = "failed"
      /\ recorded[r] = "succeeded" =>
           /\ "reports" \in rows[r]
           /\ listed[r] = Lineage

\* Every run that begins is recorded as a whole in the end, or it dies.
RunEnds == \A r \in Runs : phase[r] = "stages" ~> phase[r] \in {"done", "dead"}

\* "It also checks SEC filings for the configured symbols plus symbols in the
\* latest Top 10" (docs/OPERATIONS.md).
WatchesLatestTop10 == refreshed.watched = refreshed.newest
=============================================================================
