---------------------------- MODULE PipelineProofs ----------------------------
(***************************************************************************)
(* Proofs about Pipeline for any number of runs and of setbacks: what a    *)
(* handler indexes is there, a brief rests on stored evidence, the lineage *)
(* is faithful, and a run that ends is recorded as a whole.                *)
(***************************************************************************)
EXTENDS Pipeline, TLAPS

Completed == {"succeeded", "partial"}

\* What a stage that completed has left: in the context while the run goes on,
\* and in the store for good.
StageLeaves ==
  \A r \in Runs, n \in Stages :
    outcome[r][n] \in Completed =>
      /\ EvidenceOf(n) \subseteq rows[r]
      /\ phase[r] = "stages" => DataOf(n) \cup EvidenceOf(n) \subseteq context[r]

\* Rows are of earlier stages, or of the one that executes; those that are not
\* in the context are of a stage that failed or of the one that executes.
RowsOfStages ==
  \A r \in Runs : \A k \in rows[r] :
    /\ Evidence[k] <= at[r]
    /\ phase[r] = "stages" /\ Evidence[k] = at[r] => Executing(r)
    /\ phase[r] = "stages" /\ Evidence[k] < at[r] =>
         k \in context[r] \/ outcome[r][Evidence[k]] = "failed"

\* Ids in the context are those of rows.
ContextStored == \A r \in Runs : context[r] \cap DOMAIN Evidence \subseteq rows[r]

\* The stages behind a run have a status; while it is not blocked the critical
\* ones have completed, and the last one has left a report.
StagesBehind ==
  \A r \in Runs :
    /\ phase[r] = "new" => at[r] = 1 /\ blockedBy[r] = 0 /\ rows[r] = {}
    /\ phase[r] = "stages" => at[r] \in Stages
    /\ phase[r] \in {"run", "rows", "done"} => at[r] = 22
    /\ \A n \in Stages : n < at[r] <=> outcome[r][n] # "none"
    /\ blockedBy[r] = 0 => \A n \in Critical : n < at[r] => outcome[r][n] \in Completed
    /\ phase[r] = "stages" /\ outcome[r][16] \in Completed => "reports" \in context[r]
    /\ blockedBy[r] # 0 => blockedBy[r] < at[r] /\ outcome[r][blockedBy[r]] = "failed"
    /\ outcome[r][21] # "blocked"
    /\ \A n \in Stages \ {4, 20} : outcome[r][n] # "skipped"

\* What the lineage lists, from the moment it is appended.
LineageListed ==
  \A r \in Runs :
    "operational_lineage" \in rows[r] =>
      \A k \in Lineage : outcome[r][Evidence[k]] \in Completed => k \in listed[r]

\* The rows of a run's stages, counted.
RowsCounted ==
  \A r \in Runs :
    /\ phase[r] \in {"new", "stages", "run"} => stageRows[r] = 0
    /\ phase[r] = "rows" => stageRows[r] < 21 /\ recorded[r] = RunStatus(outcome[r])
    /\ phase[r] = "done" => stageRows[r] = 21 /\ recorded[r] = RunStatus(outcome[r])

Inv ==
  /\ TypeOK
  /\ RowsCounted
  /\ StageLeaves
  /\ RowsOfStages
  /\ ContextStored
  /\ StagesBehind
  /\ LineageFaithful
  /\ LineageListed
  /\ BriefRestsOnEvidence

Kinds == DOMAIN Evidence

LEMMA EvidenceStages ==
  /\ Evidence \in [Kinds -> Stages]
  /\ Kinds = {"provider_snapshots", "screen_runs", "top10_rankings",
              "valuation_input_records", "valuation_runs", "research_packs",
              "top3_evaluations", "reports", "candidate_transitions",
              "telegram_deliveries", "operational_lineage"}
BY DEF Evidence, Kinds, Stages

LEMMA LineageStages ==
  /\ Lineage \subseteq Kinds
  /\ \A k \in Lineage : Evidence[k] < 21
  /\ Evidence["operational_lineage"] = 21
  /\ Evidence["telegram_deliveries"] = 17
  /\ Evidence["reports"] = 13
BY EvidenceStages DEF Lineage, Evidence, Kinds

LEMMA DataStages ==
  /\ Data \in [DOMAIN Data -> Stages]
  /\ DOMAIN Data = {"snapshots", "official_refresh", "investable", "candidates", "top_10"}
  /\ Data["snapshots"] = 2
  /\ Data["top_10"] = 9
  /\ Data["official_refresh"] = 3
BY DEF Data, Stages

LEMMA ResultsFacts ==
  ASSUME NEW n \in Stages, NEW c, NEW status \in Results(n, c)
  PROVE  /\ status \in Statuses \ {"blocked"}
         /\ n \in Critical => status \in Completed \cup {"failed"}
         /\ n = 16 /\ status \in Completed => "reports" \in c
         /\ n \notin {4, 20} => status # "skipped"
<1>1. CASE n \in {1, 4, 11, 14, 16, 20}
  BY <1>1 DEF Results, Statuses, Critical, Completed
<1>2. CASE n \in {2, 3, 10, 13, 17, 18, 19, 21}
  <2>1. Results(n, c) = {"succeeded", "partial"}
    BY <1>2 DEF Results
  <2>2. QED
    BY <1>2, <2>1 DEF Statuses, Critical, Completed
<1>3. CASE n \in {5, 6, 7, 8, 9, 12, 15}
  <2>1. Results(n, c) = {"succeeded"}
    BY <1>3 DEF Results
  <2>2. QED
    BY <1>3, <2>1 DEF Statuses, Critical, Completed
<1>4. QED
  BY <1>1, <1>2, <1>3 DEF Stages

\* The critical stages come before all that rests on them.
LEMMA CriticalFirst ==
  /\ Critical \subseteq Stages
  /\ 2 \in Critical /\ 9 \in Critical /\ 16 \in Critical
  /\ 21 \notin Critical
BY DEF Critical, Stages

THEOREM InitInv == Init => Inv
BY RunsAssumption, CriticalFirst
   DEF Init, Inv, TypeOK, RowsCounted, StageLeaves, RowsOfStages, ContextStored, StagesBehind,
       LineageFaithful, LineageListed, BriefRestsOnEvidence, Stages, Statuses, Phases, Completed

LEMMA EndStageType ==
  ASSUME TypeOK, NEW r \in Runs, at[r] \in Stages, NEW status \in Statuses, EndStage(r, status)
  PROVE  /\ outcome' \in [Runs -> [Stages -> Statuses \cup {"none"}]]
         /\ at' \in [Runs -> 1..22]
         /\ blockedBy' \in [Runs -> Critical \cup {0}]
         /\ phase' \in [Runs -> Phases]
<1>1. outcome' \in [Runs -> [Stages -> Statuses \cup {"none"}]]
  BY DEF TypeOK, EndStage
<1>2. at' \in [Runs -> 1..22]
  BY DEF TypeOK, EndStage, Stages
<1>3. blockedBy' \in [Runs -> Critical \cup {0}]
  BY DEF TypeOK, EndStage
<1>4. phase' \in [Runs -> Phases]
  BY DEF TypeOK, EndStage, Phases
<1>5. QED
  BY <1>1, <1>2, <1>3, <1>4

LEMMA TypeStep == Inv /\ [Next]_vars => TypeOK'
<1> SUFFICES ASSUME Inv, [Next]_vars PROVE TypeOK'
    OBVIOUS
<1> USE RunsAssumption DEF Inv
<1>1. ASSUME NEW r \in Runs, Begin(r) PROVE TypeOK'
  BY <1>1 DEF Begin, TypeOK, Phases, reports
<1>2. ASSUME NEW r \in Runs, NEW d \in DOMAIN Data, Put(r, d) PROVE TypeOK'
  <2>1. refreshed' \in [watched : Runs \cup {NoRun}, newest : Runs \cup {NoRun}]
    BY <1>2 DEF Put, Refresh, TypeOK
  <2>2. context' \in [Runs -> SUBSET Items]
    BY <1>2 DEF Put, TypeOK, Items
  <2>3. QED
    BY <1>2, <2>1, <2>2 DEF Put, TypeOK
<1>3. ASSUME NEW r \in Runs, NEW k \in Kinds, Append(r, k) PROVE TypeOK'
  <2>1. rows' \in [Runs -> SUBSET DOMAIN Evidence] /\ listed' \in [Runs -> SUBSET Lineage]
    BY <1>3 DEF Append, TypeOK, Kinds
  <2>2. /\ latest' \in [type : {"none", "daily", "after_close"}, run : Runs \cup {NoRun}]
        /\ newestTop10' \in Runs \cup {NoRun}
    BY <1>3 DEF Append, TypeOK
  <2>3. QED
    BY <1>3, <2>1, <2>2 DEF Append, TypeOK
<1>4. ASSUME NEW r \in Runs, NEW k \in Kinds, Note(r, k) PROVE TypeOK'
  BY <1>4 DEF Note, TypeOK, Items, Kinds, reports
<1>5. ASSUME NEW r \in Runs, NEW status \in Statuses, Complete(r, status) PROVE TypeOK'
  <2>1. setbacks' \in [Runs -> Nat]
    <3>1. Setback(r) \/ setbacks' = setbacks
      BY <1>5, Zenon DEF Complete
    <3>2. QED
      BY <3>1 DEF Setback, TypeOK
  <2>2. at[r] \in Stages /\ EndStage(r, status)
    BY <1>5 DEF Complete, Executing
  <2>3. QED
    BY <2>1, <2>2, EndStageType DEF EndStage, TypeOK, reports
<1>6. ASSUME NEW r \in Runs, Block(r) PROVE TypeOK'
  <2>1. at[r] \in Stages /\ EndStage(r, "blocked") /\ UNCHANGED setbacks
    BY <1>6 DEF Block, StagesBehind
  <2>2. "blocked" \in Statuses
    BY DEF Statuses
  <2>3. QED
    BY <2>1, <2>2, EndStageType DEF EndStage, TypeOK, reports
<1>7. ASSUME NEW r \in Runs, PersistRun(r) PROVE TypeOK'
  BY <1>7 DEF PersistRun, RunStatus, TypeOK, Phases, reports
<1>8. ASSUME NEW r \in Runs, PersistStage(r) PROVE TypeOK'
  <2>1. stageRows[r] \in 0..21 /\ stageRows[r] < 21
    BY <1>8 DEF PersistStage, TypeOK, RowsCounted
  <2>2. stageRows' = [stageRows EXCEPT ![r] = stageRows[r] + 1] /\ stageRows[r] + 1 \in 0..21
    BY <1>8, <2>1 DEF PersistStage
  <2>3. stageRows' \in [Runs -> 0..21]
    BY <2>2 DEF TypeOK
  <2>4. phase' \in [Runs -> Phases]
    BY <1>8 DEF PersistStage, TypeOK, Phases
  <2>5. QED
    BY <1>8, <2>3, <2>4 DEF PersistStage, TypeOK, reports
<1>9. ASSUME NEW r \in Runs, Raise(r) PROVE TypeOK'
  <2>1. at[r] \in Stages /\ EndStage(r, "failed") /\ setbacks' \in [Runs -> Nat]
    BY <1>9 DEF Raise, Executing, Setback, TypeOK
  <2>2. "failed" \in Statuses
    BY DEF Statuses
  <2>3. QED
    BY <2>1, <2>2, EndStageType DEF EndStage, TypeOK, reports
<1>10. ASSUME NEW r \in Runs, Die(r) PROVE TypeOK'
  BY <1>10 DEF Die, TypeOK, Phases, reports
<1>11. CASE AfterCloseReport
  BY <1>11 DEF AfterCloseReport, TypeOK, run
<1>12. CASE RefreshNews
  BY <1>12 DEF RefreshNews, Refresh, TypeOK, run
<1>13. CASE UNCHANGED vars
  BY <1>13 DEF vars, run, reports, TypeOK
<1>14. QED
  BY <1>1, <1>2, <1>3, <1>4, <1>5, <1>6, <1>7, <1>8, <1>9, <1>10, <1>11, <1>12, <1>13
     DEF Next, Work, Kinds

\* The ends of stages, one run and one stage at a time.
LEMMA EndStageEffect ==
  ASSUME TypeOK, NEW r \in Runs, at[r] \in Stages, NEW status \in Statuses, EndStage(r, status)
  PROVE  \A q \in Runs :
           /\ at'[q] = IF q = r THEN at[r] + 1 ELSE at[q]
           /\ phase'[q] = IF q = r /\ at[r] = 21 THEN "run" ELSE phase[q]
           /\ blockedBy'[q] = IF q = r /\ status = "failed" /\ at[r] \in Critical
                              THEN at[r] ELSE blockedBy[q]
           /\ \A n \in Stages :
                outcome'[q][n] = IF q = r /\ n = at[r] THEN status ELSE outcome[q][n]
           /\ context'[q] = context[q] /\ rows'[q] = rows[q] /\ listed'[q] = listed[q]
           /\ recorded'[q] = recorded[q] /\ stageRows'[q] = stageRows[q]
BY DEF TypeOK, EndStage

LEMMA StageCutShort ==
  ASSUME Inv, NEW r \in Runs, Block(r) \/ Raise(r)
  PROVE  /\ at[r] \in Stages /\ phase[r] = "stages"
         /\ \/ Block(r) /\ ~ Executing(r) /\ EndStage(r, "blocked")
            \/ Raise(r) /\ Executing(r) /\ EndStage(r, "failed")
BY DEF Inv, Block, Raise, Executing, StagesBehind

LEMMA Elsewhere ==
  ASSUME AfterCloseReport \/ RefreshNews \/ UNCHANGED vars
  PROVE  UNCHANGED run
BY DEF AfterCloseReport, RefreshNews, vars

LEMMA StageLeavesStep == Inv /\ [Next]_vars => StageLeaves'
<1> SUFFICES ASSUME Inv, [Next]_vars, NEW q \in Runs, NEW n \in Stages,
                    outcome'[q][n] \in Completed
             PROVE  /\ EvidenceOf(n) \subseteq rows'[q]
                    /\ phase'[q] = "stages" => DataOf(n) \cup EvidenceOf(n) \subseteq context'[q]
    BY DEF StageLeaves
<1> DEFINE Goal == /\ EvidenceOf(n) \subseteq rows'[q]
                   /\ phase'[q] = "stages" => DataOf(n) \cup EvidenceOf(n) \subseteq context'[q]
<1> HIDE DEF Goal
<1> USE DEF Inv
<1>0. outcome[q][n] \in Completed /\ phase[q] # "new" =>
        /\ EvidenceOf(n) \subseteq rows[q]
        /\ phase[q] = "stages" => DataOf(n) \cup EvidenceOf(n) \subseteq context[q]
  BY DEF StageLeaves
<1>1. ASSUME NEW r \in Runs, Begin(r) PROVE Goal
  <2>1. outcome[r][n] = "none"
    BY <1>1 DEF Begin, StagesBehind, Stages
  <2>2. q # r
    BY <1>1, <2>1 DEF Begin, Completed
  <2>3. QED
    BY <1>1, <2>2 DEF Begin, StageLeaves, TypeOK, Goal
<1>2. ASSUME NEW r \in Runs, NEW d \in DOMAIN Data, Put(r, d) PROVE Goal
  BY <1>2 DEF Put, StageLeaves, TypeOK, Goal
<1>3. ASSUME NEW r \in Runs, NEW k \in Kinds, Append(r, k) PROVE Goal
  BY <1>3 DEF Append, StageLeaves, TypeOK, Goal
<1>4. ASSUME NEW r \in Runs, NEW k \in Kinds, Note(r, k) PROVE Goal
  BY <1>4 DEF Note, StageLeaves, TypeOK, Goal
<1>5. ASSUME NEW r \in Runs, NEW status \in Statuses, Complete(r, status) PROVE Goal
  <2>1. at[r] \in Stages /\ EndStage(r, status)
    BY <1>5 DEF Complete, Executing
  <2>2. CASE q = r /\ n = at[r]
    <3>1. DataOf(n) \cup EvidenceOf(n) \subseteq context[r]
      BY <1>5, <2>2 DEF Complete
    <3>2. EvidenceOf(n) \subseteq rows[r]
      BY <3>1 DEF ContextStored, EvidenceOf
    <3>3. QED
      BY <2>1, <2>2, <3>1, <3>2, EndStageEffect DEF Goal
  <2>3. CASE ~ (q = r /\ n = at[r])
    <3>1. outcome[q][n] \in Completed
      BY <2>1, <2>3, EndStageEffect
    <3>2. QED
      BY <2>1, <3>1, EndStageEffect DEF StageLeaves, Goal
  <2>4. QED
    BY <2>2, <2>3
<1>6. ASSUME NEW r \in Runs, NEW status \in {"blocked", "failed"}, at[r] \in Stages, EndStage(r, status)
      PROVE  Goal
  <2>1. status \in Statuses /\ status \notin Completed
    BY DEF Statuses, Completed
  <2>2. outcome[q][n] \in Completed
    BY <1>6, <2>1, EndStageEffect
  <2>3. QED
    BY <1>6, <2>1, <2>2, EndStageEffect DEF StageLeaves, Goal
<1>7. ASSUME NEW r \in Runs, PersistRun(r) PROVE Goal
  BY <1>7 DEF PersistRun, StageLeaves, TypeOK, Goal
<1>8. ASSUME NEW r \in Runs, PersistStage(r) PROVE Goal
  BY <1>8 DEF PersistStage, StageLeaves, TypeOK, Goal
<1>9. ASSUME NEW r \in Runs, Die(r) PROVE Goal
  BY <1>9 DEF Die, StageLeaves, TypeOK, Goal
<1>10. CASE UNCHANGED run
  BY <1>10 DEF run, StageLeaves, Goal
<1>11. QED
  BY <1>1, <1>2, <1>3, <1>4, <1>5, <1>6, <1>7, <1>8, <1>9, <1>10, StageCutShort, Elsewhere
     DEF Next, Work, Kinds, Goal

LEMMA ContextStoredStep == Inv /\ [Next]_vars => ContextStored'
<1> SUFFICES ASSUME Inv, [Next]_vars, NEW q \in Runs PROVE context'[q] \cap Kinds \subseteq rows'[q]
    BY DEF ContextStored, Kinds
<1> USE DEF Inv
<1>0. context[q] \cap Kinds \subseteq rows[q]
  BY DEF ContextStored, Kinds
<1>1. ASSUME NEW r \in Runs, Begin(r) PROVE context'[q] \cap Kinds \subseteq rows'[q]
  BY <1>0, <1>1 DEF Begin
<1>2. ASSUME NEW r \in Runs, NEW d \in DOMAIN Data, Put(r, d)
      PROVE  context'[q] \cap Kinds \subseteq rows'[q]
  <2>1. d \notin Kinds
    BY EvidenceStages, DataStages
  <2>2. QED
    BY <1>0, <1>2, <2>1 DEF Put, TypeOK
<1>3. ASSUME NEW r \in Runs, NEW k \in Kinds, Append(r, k)
      PROVE  context'[q] \cap Kinds \subseteq rows'[q]
  BY <1>0, <1>3 DEF Append, TypeOK
<1>4. ASSUME NEW r \in Runs, NEW k \in Kinds, Note(r, k)
      PROVE  context'[q] \cap Kinds \subseteq rows'[q]
  BY <1>0, <1>4 DEF Note, Notable, TypeOK
<1>5. ASSUME NEW r \in Runs, NEW status, EndStage(r, status)
      PROVE  context'[q] \cap Kinds \subseteq rows'[q]
  BY <1>0, <1>5 DEF EndStage
<1>6. ASSUME NEW r \in Runs, PersistRun(r) \/ PersistStage(r)
      PROVE  context'[q] \cap Kinds \subseteq rows'[q]
  BY <1>0, <1>6 DEF PersistRun, PersistStage
<1>7. ASSUME NEW r \in Runs, Die(r) PROVE context'[q] \cap Kinds \subseteq rows'[q]
  BY <1>0, <1>7 DEF Die, TypeOK
<1>8. CASE UNCHANGED run
  BY <1>0, <1>8 DEF run
<1>9. QED
  BY <1>1, <1>2, <1>3, <1>4, <1>5, <1>6, <1>7, <1>8, StageCutShort, Elsewhere
     DEF Next, Work, Complete, Kinds

LEMMA RowsOfStagesStep == Inv /\ [Next]_vars => RowsOfStages'
<1> SUFFICES ASSUME Inv, [Next]_vars, NEW q \in Runs, NEW j \in rows'[q]
             PROVE  /\ Evidence[j] <= at'[q]
                    /\ phase'[q] = "stages" /\ Evidence[j] = at'[q] => Executing(q)'
                    /\ phase'[q] = "stages" /\ Evidence[j] < at'[q] =>
                         j \in context'[q] \/ outcome'[q][Evidence[j]] = "failed"
    BY DEF RowsOfStages
<1> DEFINE Goal == /\ Evidence[j] <= at'[q]
                   /\ phase'[q] = "stages" /\ Evidence[j] = at'[q] => Executing(q)'
                   /\ phase'[q] = "stages" /\ Evidence[j] < at'[q] =>
                        j \in context'[q] \/ outcome'[q][Evidence[j]] = "failed"
<1> HIDE DEF Goal
<1> USE DEF Inv
<1>0. j \in rows[q] =>
        /\ Evidence[j] \in Stages
        /\ Evidence[j] <= at[q]
        /\ phase[q] = "stages" /\ Evidence[j] = at[q] => Executing(q)
        /\ phase[q] = "stages" /\ Evidence[j] < at[q] =>
             j \in context[q] \/ outcome[q][Evidence[j]] = "failed"
  BY EvidenceStages DEF RowsOfStages, TypeOK, Kinds
<1>1. ASSUME NEW r \in Runs, Begin(r) PROVE Goal
  <2>1. q # r
    BY <1>1 DEF Begin, StagesBehind
  <2>2. phase'[q] = phase[q]
    BY <1>1, <2>1 DEF Begin, TypeOK
  <2>3. QED
    BY <1>0, <1>1, <2>2 DEF Begin, Goal, Executing
<1>2. ASSUME NEW r \in Runs, NEW d \in DOMAIN Data, Put(r, d) PROVE Goal
  BY <1>0, <1>2 DEF Put, TypeOK, Goal, Executing
<1>3. ASSUME NEW r \in Runs, NEW k \in Kinds, Append(r, k) PROVE Goal
  <2>1. CASE q = r /\ j = k
    <3>1. Executing(q) /\ Evidence[j] = at[q] /\ at[q] \in Stages
      BY <1>3, <2>1 DEF Append, EvidenceOf, Executing
    <3>2. Executing(q)' /\ at'[q] = at[q]
      BY <1>3, <3>1 DEF Append, Executing
    <3>3. QED
      BY <3>1, <3>2 DEF Goal, Stages
  <2>2. CASE ~ (q = r /\ j = k)
    <3>1. j \in rows[q]
      BY <1>3, <2>2 DEF Append, TypeOK
    <3>2. QED
      BY <1>0, <1>3, <3>1 DEF Append, Goal, Executing
  <2>3. QED
    BY <2>1, <2>2
<1>4. ASSUME NEW r \in Runs, NEW k \in Kinds, Note(r, k) PROVE Goal
  BY <1>0, <1>4 DEF Note, TypeOK, Goal, Executing
<1>5. ASSUME NEW r \in Runs, NEW status \in Statuses, at[r] \in Stages, phase[r] = "stages",
             EndStage(r, status),
             Executing(r) => status = "failed" \/ EvidenceOf(at[r]) \subseteq context[r]
      PROVE  Goal
  <2>1. j \in rows[q]
    BY <1>5, EndStageEffect
  <2>2. CASE q # r
    BY <1>0, <1>5, <2>1, <2>2, EndStageEffect DEF Goal, Executing
  <2>3. CASE q = r
    <3>1. /\ at'[q] = at[q] + 1 /\ at'[q] \in Int
          /\ Evidence[j] \in Int /\ Evidence[j] < at'[q]
      BY <1>0, <1>5, <2>1, <2>3, EndStageEffect DEF Stages
    <3>2. CASE Evidence[j] = at[q]
      <4>1. Executing(q)
        BY <1>0, <1>5, <2>1, <2>3, <3>2
      <4>2. j \in EvidenceOf(at[r])
        BY <2>1, <2>3, <3>2 DEF EvidenceOf, TypeOK
      <4>3. j \in context'[q] \/ outcome'[q][Evidence[j]] = "failed"
        BY <1>5, <2>3, <3>2, <4>1, <4>2, EndStageEffect
      <4>4. QED
        BY <3>1, <4>3, <1>0, <2>1 DEF Goal, Stages
    <3>3. CASE Evidence[j] # at[q]
      <4>1. Evidence[j] < at[q]
        BY <1>0, <1>5, <2>1, <2>3, <3>3 DEF Stages
      <4>2. j \in context'[q] \/ outcome'[q][Evidence[j]] = "failed"
        BY <1>0, <1>5, <2>1, <2>3, <4>1, EndStageEffect DEF Stages
      <4>3. QED
        BY <3>1, <4>2, <1>0, <2>1 DEF Goal, Stages
    <3>4. QED
      BY <3>2, <3>3
  <2>4. QED
    BY <2>2, <2>3
<1>6. ASSUME NEW r \in Runs, NEW status \in Statuses, Complete(r, status) PROVE Goal
  BY <1>5, <1>6 DEF Complete, Executing
<1>7. ASSUME NEW r \in Runs, Block(r) \/ Raise(r) PROVE Goal
  <2>1. "blocked" \in Statuses /\ "failed" \in Statuses
    BY DEF Statuses
  <2>2. QED
    BY <1>5, <1>7, <2>1, StageCutShort
<1>8. ASSUME NEW r \in Runs, PersistRun(r) PROVE Goal
  BY <1>0, <1>8 DEF PersistRun, TypeOK, Goal, Executing
<1>9. ASSUME NEW r \in Runs, PersistStage(r) PROVE Goal
  BY <1>0, <1>9 DEF PersistStage, TypeOK, Goal, Executing
<1>10. ASSUME NEW r \in Runs, Die(r) PROVE Goal
  BY <1>0, <1>10 DEF Die, TypeOK, Goal, Executing
<1>11. CASE UNCHANGED run
  BY <1>0, <1>11 DEF run, Goal, Executing
<1>12. QED
  BY <1>1, <1>2, <1>3, <1>4, <1>6, <1>7, <1>8, <1>9, <1>10, <1>11, Elsewhere
     DEF Next, Work, Kinds, Goal

LEMMA StagesBehindStep == Inv /\ [Next]_vars => StagesBehind'
<1> DEFINE
      Goal(q) ==
        /\ phase'[q] = "new" => at'[q] = 1 /\ blockedBy'[q] = 0 /\ rows'[q] = {}
        /\ phase'[q] = "stages" => at'[q] \in Stages
        /\ phase'[q] \in {"run", "rows", "done"} => at'[q] = 22
        /\ \A n \in Stages : n < at'[q] <=> outcome'[q][n] # "none"
        /\ blockedBy'[q] = 0 => \A n \in Critical : n < at'[q] => outcome'[q][n] \in Completed
        /\ phase'[q] = "stages" /\ outcome'[q][16] \in Completed => "reports" \in context'[q]
        /\ blockedBy'[q] # 0 => blockedBy'[q] < at'[q] /\ outcome'[q][blockedBy'[q]] = "failed"
        /\ outcome'[q][21] # "blocked"
        /\ \A n \in Stages \ {4, 20} : outcome'[q][n] # "skipped"
<1> SUFFICES ASSUME Inv, [Next]_vars, NEW q \in Runs PROVE Goal(q)
    BY DEF StagesBehind
<1> HIDE DEF Goal
<1> USE DEF Inv
<1>1. ASSUME NEW r \in Runs, Begin(r) PROVE Goal(q)
  <2>1. /\ phase'[q] = "new" => phase[q] = "new"
        /\ phase'[q] = "stages" => phase[q] \in {"new", "stages"}
        /\ phase'[q] \in {"run", "rows", "done"} => phase[q] = phase'[q]
    BY <1>1 DEF Begin, TypeOK
  <2>2. phase[q] = "new" => at[q] \in Stages /\ outcome[q][16] = "none"
    <3>1. phase[q] = "new" => at[q] = 1
      BY DEF StagesBehind
    <3>2. 16 \in Stages /\ 1 \in Stages /\ ~ (16 < 1)
      BY DEF Stages
    <3>3. QED
      BY <3>1, <3>2 DEF StagesBehind
  <2>3. UNCHANGED <<at, blockedBy, rows, outcome, context>>
    BY <1>1 DEF Begin
  <2>4. "none" \notin Completed
    BY DEF Completed
  <2>5. QED
    BY <2>1, <2>2, <2>3, <2>4 DEF StagesBehind, Goal
<1>2. ASSUME NEW r \in Runs, NEW d \in DOMAIN Data, Put(r, d) PROVE Goal(q)
  <2>1. context[q] \subseteq context'[q]
    BY <1>2 DEF Put, TypeOK
  <2>2. QED
    BY <1>2, <2>1 DEF Put, StagesBehind, Goal
<1>3. ASSUME NEW r \in Runs, NEW k \in Kinds, Append(r, k) PROVE Goal(q)
  <2>1. phase[r] = "stages"
    BY <1>3 DEF Append, Executing
  <2>2. q = r => phase[q] # "new"
    BY <2>1
  <2>3. q # r => rows'[q] = rows[q]
    BY <1>3 DEF Append, TypeOK
  <2>4. QED
    BY <1>3, <2>2, <2>3 DEF Append, StagesBehind, Goal
<1>4. ASSUME NEW r \in Runs, NEW k \in Kinds, Note(r, k) PROVE Goal(q)
  <2>1. context[q] \subseteq context'[q]
    BY <1>4 DEF Note, TypeOK
  <2>2. QED
    BY <1>4, <2>1 DEF Note, StagesBehind, Goal
<1>5. ASSUME NEW r \in Runs, NEW status \in Statuses, at[r] \in Stages, phase[r] = "stages",
             EndStage(r, status),
             at[r] = 21 => status # "blocked",
             at[r] = 16 /\ status \in Completed => "reports" \in context[r],
             at[r] \notin {4, 20} => status # "skipped",
             blockedBy[r] = 0 /\ at[r] \in Critical => status \in Completed \cup {"failed"}
      PROVE  Goal(q)
  <2>1. CASE q # r
    <3>1. /\ phase'[q] = phase[q] /\ at'[q] = at[q] /\ blockedBy'[q] = blockedBy[q]
          /\ rows'[q] = rows[q] /\ context'[q] = context[q]
          /\ \A n \in Stages : outcome'[q][n] = outcome[q][n]
      BY <1>5, <2>1, EndStageEffect
    <3>2. 16 \in Stages /\ 21 \in Stages
      BY DEF Stages
    <3>3. blockedBy[q] # 0 => blockedBy[q] \in Stages
      BY CriticalFirst DEF TypeOK
    <3>4. QED
      BY <3>1, <3>2, <3>3, CriticalFirst DEF StagesBehind, Goal
  <2>2. CASE q = r
    <3>1. /\ phase'[q] = IF at[q] = 21 THEN "run" ELSE "stages"
          /\ at'[q] = at[q] + 1
          /\ context'[q] = context[q]
          /\ blockedBy'[q] = IF status = "failed" /\ at[q] \in Critical THEN at[q] ELSE blockedBy[q]
          /\ \A n \in Stages : outcome'[q][n] = IF n = at[q] THEN status ELSE outcome[q][n]
      BY <1>5, <2>2, EndStageEffect
    <3>2. /\ phase'[q] # "new"
          /\ phase'[q] = "stages" => at'[q] \in Stages
          /\ phase'[q] \in {"run", "rows", "done"} => at'[q] = 22
      BY <1>5, <2>2, <3>1 DEF Stages
    <3>3. \A n \in Stages : n < at'[q] <=> outcome'[q][n] # "none"
      BY <1>5, <2>2, <3>1 DEF Stages, Statuses, StagesBehind
    <3>4. ASSUME blockedBy'[q] = 0, NEW n \in Critical, n < at'[q]
          PROVE  outcome'[q][n] \in Completed
      <4>1. blockedBy[q] = 0 /\ (at[q] \in Critical => status # "failed")
        BY <1>5, <2>2, <3>1, <3>4 DEF Stages
      <4>2. n = at[q] \/ n < at[q]
        BY <1>5, <2>2, <3>1, <3>4, CriticalFirst DEF Stages
      <4>3. QED
        BY <1>5, <2>2, <3>1, <4>1, <4>2, CriticalFirst DEF StagesBehind
    <3>5. phase'[q] = "stages" /\ outcome'[q][16] \in Completed => "reports" \in context'[q]
      BY <1>5, <2>2, <3>1 DEF StagesBehind, Stages
    <3>6. ASSUME blockedBy'[q] # 0
          PROVE  blockedBy'[q] < at'[q] /\ outcome'[q][blockedBy'[q]] = "failed"
      <4>1. CASE status = "failed" /\ at[q] \in Critical
        BY <1>5, <2>2, <3>1, <4>1 DEF Stages
      <4>2. CASE ~ (status = "failed" /\ at[q] \in Critical)
        <5>1. blockedBy'[q] = blockedBy[q] /\ blockedBy[q] \in Stages
          BY <3>1, <3>6, <4>2, CriticalFirst DEF TypeOK
        <5>2. blockedBy[q] < at[q] /\ outcome[q][blockedBy[q]] = "failed"
          BY <3>6, <5>1 DEF StagesBehind
        <5>3. QED
          BY <1>5, <2>2, <3>1, <5>1, <5>2 DEF Stages
      <4>3. QED
        BY <4>1, <4>2
    <3>7. outcome'[q][21] # "blocked" /\ \A n \in Stages \ {4, 20} : outcome'[q][n] # "skipped"
      BY <1>5, <2>2, <3>1 DEF StagesBehind, Stages
    <3>8. QED
      BY <3>2, <3>3, <3>4, <3>5, <3>6, <3>7 DEF Goal
  <2>3. QED
    BY <2>1, <2>2
<1>6. ASSUME NEW r \in Runs, NEW status \in Statuses, Complete(r, status) PROVE Goal(q)
  <2>1. /\ at[r] \in Stages /\ phase[r] = "stages" /\ EndStage(r, status)
        /\ status \in Results(at[r], context[r])
    BY <1>6 DEF Complete, Executing
  <2>2. /\ status # "blocked"
        /\ at[r] = 16 /\ status \in Completed => "reports" \in context[r]
        /\ at[r] \notin {4, 20} => status # "skipped"
        /\ at[r] \in Critical => status \in Completed \cup {"failed"}
    BY <2>1, ResultsFacts
  <2>3. QED
    BY <1>5, <2>1, <2>2
<1>7. ASSUME NEW r \in Runs, Block(r) PROVE Goal(q)
  <2>1. /\ at[r] \in Stages /\ phase[r] = "stages" /\ EndStage(r, "blocked")
        /\ ~ Executing(r)
    BY <1>7, StageCutShort DEF Block
  <2>2. /\ at[r] # 21 /\ blockedBy[r] # 0 /\ "blocked" \in Statuses
        /\ "blocked" \notin Completed
    BY <2>1 DEF Executing, AlwaysRun, Statuses, Completed
  <2>3. QED
    BY <1>5, <2>1, <2>2
<1>8. ASSUME NEW r \in Runs, Raise(r) PROVE Goal(q)
  <2>1. /\ at[r] \in Stages /\ phase[r] = "stages" /\ EndStage(r, "failed")
        /\ "failed" \in Statuses /\ "failed" \notin Completed
    BY <1>8 DEF Raise, Executing, Statuses, Completed
  <2>2. QED
    BY <1>5, <2>1
<1>9. ASSUME NEW r \in Runs, PersistRun(r) PROVE Goal(q)
  <2>1. q = r => phase[q] = "run" /\ phase'[q] = "rows"
    BY <1>9 DEF PersistRun, TypeOK
  <2>2. q # r => phase'[q] = phase[q]
    BY <1>9 DEF PersistRun, TypeOK
  <2>3. QED
    BY <1>9, <2>1, <2>2 DEF PersistRun, StagesBehind, Goal
<1>10. ASSUME NEW r \in Runs, PersistStage(r) PROVE Goal(q)
  <2>1. q = r => phase[q] = "rows" /\ phase'[q] \in {"rows", "done"}
    BY <1>10 DEF PersistStage, TypeOK
  <2>2. q # r => phase'[q] = phase[q]
    BY <1>10 DEF PersistStage, TypeOK
  <2>3. QED
    BY <1>10, <2>1, <2>2 DEF PersistStage, StagesBehind, Goal
<1>11. ASSUME NEW r \in Runs, Die(r) PROVE Goal(q)
  <2>1. q = r => phase'[q] = "dead"
    BY <1>11 DEF Die, TypeOK
  <2>2. q # r => phase'[q] = phase[q] /\ context'[q] = context[q]
    BY <1>11 DEF Die, TypeOK
  <2>3. QED
    BY <1>11, <2>1, <2>2 DEF Die, StagesBehind, Goal
<1>12. CASE UNCHANGED run
  BY <1>12 DEF run, StagesBehind, Goal
<1>13. QED
  BY <1>1, <1>2, <1>3, <1>4, <1>6, <1>7, <1>8, <1>9, <1>10, <1>11, <1>12, Elsewhere
     DEF Next, Work, Kinds

LEMMA RowsCountedStep == Inv /\ [Next]_vars => RowsCounted'
<1> DEFINE
      Goal(q) ==
        /\ phase'[q] \in {"new", "stages", "run"} => stageRows'[q] = 0
        /\ phase'[q] = "rows" => stageRows'[q] < 21 /\ recorded'[q] = RunStatus(outcome'[q])
        /\ phase'[q] = "done" => stageRows'[q] = 21 /\ recorded'[q] = RunStatus(outcome'[q])
<1> SUFFICES ASSUME Inv, [Next]_vars, NEW q \in Runs PROVE Goal(q)
    BY DEF RowsCounted
<1> HIDE DEF Goal
<1> USE DEF Inv
<1>1. ASSUME NEW r \in Runs, Begin(r) PROVE Goal(q)
  BY <1>1 DEF Begin, RowsCounted, TypeOK, Goal
<1>2. ASSUME NEW r \in Runs,
             \/ \E d \in DOMAIN Data : Put(r, d)
             \/ \E k \in Kinds : Append(r, k) \/ Note(r, k)
      PROVE  Goal(q)
  <2>1. UNCHANGED <<phase, stageRows, recorded, outcome>>
    BY <1>2 DEF Put, Append, Note
  <2>2. QED
    BY <2>1 DEF RowsCounted, Goal
<1>3. ASSUME NEW r \in Runs, NEW status \in Statuses, at[r] \in Stages, phase[r] = "stages",
             EndStage(r, status)
      PROVE  Goal(q)
  <2>1. CASE q # r
    <3>1. outcome'[q] = outcome[q]
      BY <1>3, <2>1 DEF EndStage, TypeOK
    <3>2. /\ phase'[q] = phase[q] /\ stageRows'[q] = stageRows[q] /\ recorded'[q] = recorded[q]
      BY <1>3, <2>1, EndStageEffect
    <3>3. QED
      BY <3>1, <3>2 DEF RowsCounted, Goal
  <2>2. CASE q = r
    BY <1>3, <2>2, EndStageEffect DEF RowsCounted, Goal
  <2>3. QED
    BY <2>1, <2>2
<1>4. ASSUME NEW r \in Runs, NEW status \in Statuses, Complete(r, status) PROVE Goal(q)
  BY <1>3, <1>4 DEF Complete, Executing
<1>5. ASSUME NEW r \in Runs, Block(r) \/ Raise(r) PROVE Goal(q)
  <2>1. "blocked" \in Statuses /\ "failed" \in Statuses
    BY DEF Statuses
  <2>2. QED
    BY <1>3, <1>5, <2>1, StageCutShort
<1>6. ASSUME NEW r \in Runs, PersistRun(r) PROVE Goal(q)
  <2>1. q = r => /\ phase[q] = "run" /\ phase'[q] = "rows"
                 /\ recorded'[q] = RunStatus(outcome[q])
    BY <1>6 DEF PersistRun, TypeOK
  <2>2. q # r => phase'[q] = phase[q] /\ recorded'[q] = recorded[q]
    BY <1>6 DEF PersistRun, TypeOK
  <2>3. stageRows' = stageRows /\ outcome' = outcome
    BY <1>6 DEF PersistRun
  <2>4. QED
    BY <2>1, <2>2, <2>3 DEF RowsCounted, Goal
<1>7. ASSUME NEW r \in Runs, PersistStage(r) PROVE Goal(q)
  <2>1. q = r => /\ phase[q] = "rows" /\ stageRows'[q] = stageRows[q] + 1
                 /\ phase'[q] = IF stageRows[q] = 20 THEN "done" ELSE "rows"
    BY <1>7 DEF PersistStage, TypeOK
  <2>2. q # r => phase'[q] = phase[q] /\ stageRows'[q] = stageRows[q]
    BY <1>7 DEF PersistStage, TypeOK
  <2>3. recorded' = recorded /\ outcome' = outcome /\ stageRows[q] \in 0..21
    BY <1>7 DEF PersistStage, TypeOK
  <2>4. QED
    BY <2>1, <2>2, <2>3 DEF RowsCounted, Goal
<1>8. ASSUME NEW r \in Runs, Die(r) PROVE Goal(q)
  BY <1>8 DEF Die, RowsCounted, TypeOK, Goal
<1>9. CASE UNCHANGED run
  BY <1>9 DEF run, RowsCounted, Goal
<1>10. QED
  BY <1>1, <1>2, <1>4, <1>5, <1>6, <1>7, <1>8, <1>9, Elsewhere DEF Next, Work, Kinds

LEMMA LineageStep == Inv /\ [Next]_vars => LineageFaithful' /\ LineageListed'
<1> DEFINE
      Goal(q) ==
        "operational_lineage" \in rows'[q] =>
          /\ listed'[q] \subseteq rows'[q]
          /\ \A k \in (rows'[q] \cap Lineage) \ listed'[q] : outcome'[q][Evidence[k]] = "failed"
          /\ \A k \in Lineage : outcome'[q][Evidence[k]] \in Completed => k \in listed'[q]
<1> SUFFICES ASSUME Inv, [Next]_vars, NEW q \in Runs PROVE Goal(q)
    BY DEF LineageFaithful, LineageListed
<1> HIDE DEF Goal
<1> USE DEF Inv
<1>0. "operational_lineage" \in rows[q] =>
        /\ listed[q] \subseteq rows[q]
        /\ \A k \in (rows[q] \cap Lineage) \ listed[q] : outcome[q][Evidence[k]] = "failed"
        /\ \A k \in Lineage : outcome[q][Evidence[k]] \in Completed => k \in listed[q]
        /\ at[q] >= 21
  BY LineageStages DEF LineageFaithful, LineageListed, RowsOfStages
<1>1. ASSUME rows'[q] = rows[q], listed'[q] = listed[q], outcome'[q] = outcome[q] PROVE Goal(q)
  BY <1>0, <1>1 DEF Goal
<1>2. ASSUME NEW r \in Runs, NEW k \in Kinds, Append(r, k) PROVE Goal(q)
  <2>1. CASE q # r
    BY <1>1, <1>2, <2>1 DEF Append, TypeOK
  <2>2. CASE q = r /\ k = "operational_lineage"
    <3>1. /\ at[q] = 21 /\ phase[q] = "stages"
          /\ rows'[q] = rows[q] \cup {k} /\ listed'[q] = context[q] \cap Lineage
          /\ outcome' = outcome
      BY <1>2, <2>2, LineageStages DEF Append, TypeOK, EvidenceOf, Executing
    <3>2. listed'[q] \subseteq rows'[q]
      BY <3>1, LineageStages DEF ContextStored, Kinds
    <3>3. ASSUME NEW i \in (rows'[q] \cap Lineage) \ listed'[q]
          PROVE  outcome'[q][Evidence[i]] = "failed"
      <4>1. i \in Lineage /\ "operational_lineage" \notin Lineage
        BY <3>3 DEF Lineage
      <4>2. i \in rows[q] /\ i \notin context[q]
        BY <2>2, <3>1, <3>3, <4>1
      <4>3. Evidence[i] < at[q]
        BY <3>1, <4>1, LineageStages
      <4>4. QED
        BY <3>1, <4>2, <4>3 DEF RowsOfStages
    <3>4. ASSUME NEW i \in Lineage, outcome'[q][Evidence[i]] \in Completed
          PROVE  i \in listed'[q]
      <4>1. Evidence[i] \in Stages /\ i \in EvidenceOf(Evidence[i])
        BY EvidenceStages, LineageStages DEF EvidenceOf, Kinds
      <4>2. QED
        BY <3>1, <3>4, <4>1 DEF StageLeaves
    <3>5. QED
      BY <3>2, <3>3, <3>4 DEF Goal
  <2>3. CASE q = r /\ k # "operational_lineage"
    <3>1. /\ rows'[q] = rows[q] \cup {k} /\ listed'[q] = listed[q] /\ outcome' = outcome
          /\ Evidence[k] = at[q] /\ at[q] \in Stages
      BY <1>2, <2>3 DEF Append, TypeOK, EvidenceOf, Executing
    <3>2. CASE "operational_lineage" \in rows[q]
      <4>1. Evidence[k] >= 21
        BY <1>0, <3>1, <3>2
      <4>2. k \notin Lineage
        BY <4>1, <3>1, LineageStages DEF Stages
      <4>3. QED
        BY <1>0, <3>1, <3>2, <4>2 DEF Goal
    <3>3. CASE "operational_lineage" \notin rows[q]
      BY <2>3, <3>1, <3>3 DEF Goal
    <3>4. QED
      BY <3>2, <3>3
  <2>4. QED
    BY <2>1, <2>2, <2>3
<1>3. ASSUME NEW r \in Runs, NEW status \in Statuses, at[r] \in Stages, EndStage(r, status)
      PROVE  Goal(q)
  <2>1. CASE q # r
    BY <1>1, <1>3, <2>1 DEF EndStage, TypeOK
  <2>2. CASE q = r /\ "operational_lineage" \in rows[q]
    <3>1. \A k \in Lineage : Evidence[k] \in Stages /\ Evidence[k] # at[q]
      BY <1>0, <2>2, EvidenceStages, LineageStages DEF Stages
    <3>2. \A k \in Lineage : outcome'[q][Evidence[k]] = outcome[q][Evidence[k]]
      BY <1>3, <2>2, <3>1, EndStageEffect
    <3>3. rows'[q] = rows[q] /\ listed'[q] = listed[q]
      BY <1>3, EndStageEffect
    <3>4. QED
      BY <1>0, <2>2, <3>2, <3>3 DEF Goal
  <2>3. CASE "operational_lineage" \notin rows[q]
    BY <1>3, <2>3, EndStageEffect DEF Goal
  <2>4. QED
    BY <2>1, <2>2, <2>3
<1>4. ASSUME NEW r \in Runs, NEW status \in Statuses, Complete(r, status) PROVE Goal(q)
  BY <1>3, <1>4 DEF Complete, Executing
<1>5. ASSUME NEW r \in Runs, Block(r) \/ Raise(r) PROVE Goal(q)
  <2>1. "blocked" \in Statuses /\ "failed" \in Statuses
    BY DEF Statuses
  <2>2. QED
    BY <1>3, <1>5, <2>1, StageCutShort
<1>6. ASSUME NEW r \in Runs,
             \/ Begin(r) \/ PersistRun(r) \/ PersistStage(r) \/ Die(r)
             \/ \E d \in DOMAIN Data : Put(r, d)
             \/ \E k \in Kinds : Note(r, k)
      PROVE  Goal(q)
  <2>1. UNCHANGED <<rows, listed, outcome>>
    BY <1>6 DEF Begin, PersistRun, PersistStage, Die, Put, Note
  <2>2. QED
    BY <1>1, <2>1
<1>7. CASE UNCHANGED run
  BY <1>1, <1>7 DEF run
<1>8. QED
  BY <1>2, <1>4, <1>5, <1>6, <1>7, Elsewhere DEF Next, Work, Kinds

LEMMA BriefStep == Inv /\ [Next]_vars => BriefRestsOnEvidence'
<1> DEFINE
      Goal(q) ==
        "telegram_deliveries" \in rows'[q] =>
          /\ {"provider_snapshots", "screen_runs", "top10_rankings", "reports"} \subseteq rows'[q]
          /\ \A n \in Critical : outcome'[q][n] \in {"succeeded", "partial"}
<1> SUFFICES ASSUME Inv, [Next]_vars, NEW q \in Runs PROVE Goal(q)
    BY DEF BriefRestsOnEvidence
<1> HIDE DEF Goal
<1> USE DEF Inv
<1>0. "telegram_deliveries" \in rows[q] =>
        /\ {"provider_snapshots", "screen_runs", "top10_rankings", "reports"} \subseteq rows[q]
        /\ \A n \in Critical : outcome[q][n] \in {"succeeded", "partial"}
        /\ at[q] >= 17
  BY LineageStages DEF BriefRestsOnEvidence, RowsOfStages
<1>1. ASSUME rows'[q] = rows[q], \A n \in Critical : outcome'[q][n] = outcome[q][n]
      PROVE  Goal(q)
  BY <1>0, <1>1 DEF Goal
<1>2. ASSUME NEW r \in Runs, NEW k \in Kinds, Append(r, k) PROVE Goal(q)
  <2>1. rows' = [rows EXCEPT ![r] = @ \cup {k}] /\ outcome' = outcome
    BY <1>2 DEF Append
  <2>2. CASE q # r
    BY <1>1, <2>1, <2>2 DEF TypeOK
  <2>3. CASE q = r /\ "telegram_deliveries" \in rows[q]
    BY <1>0, <2>1, <2>3 DEF TypeOK, Goal
  <2>4. CASE q = r /\ k = "telegram_deliveries"
    <3>1. at[q] = 17 /\ phase[q] = "stages" /\ blockedBy[q] = 0
      BY <1>2, <2>4, LineageStages DEF Append, EvidenceOf, Executing, AlwaysRun
    <3>2. \A n \in Critical : n < 17 /\ outcome[q][n] \in Completed
      BY <3>1, CriticalFirst DEF StagesBehind, Critical
    <3>3. {2, 6, 9, 16} \subseteq Critical
      BY DEF Critical
    <3>4. EvidenceOf(2) \cup EvidenceOf(6) \cup EvidenceOf(9) \subseteq rows[q]
      BY <3>2, <3>3, CriticalFirst DEF StageLeaves
    <3>5. /\ "provider_snapshots" \in EvidenceOf(2)
          /\ "screen_runs" \in EvidenceOf(6)
          /\ "top10_rankings" \in EvidenceOf(9)
      BY EvidenceStages DEF EvidenceOf, Evidence, Kinds
    <3>6. "reports" \in rows[q]
      BY <3>1, <3>2, <3>3, EvidenceStages DEF StagesBehind, ContextStored, Kinds
    <3>7. rows[q] \subseteq rows'[q]
      BY <2>1, <2>4 DEF TypeOK
    <3>8. QED
      BY <2>1, <3>2, <3>4, <3>5, <3>6, <3>7 DEF Completed, Goal
  <2>5. CASE q = r /\ k # "telegram_deliveries" /\ "telegram_deliveries" \notin rows[q]
    BY <2>1, <2>5 DEF TypeOK, Goal
  <2>6. QED
    BY <2>2, <2>3, <2>4, <2>5
<1>3. ASSUME NEW r \in Runs, NEW status \in Statuses, at[r] \in Stages, EndStage(r, status)
      PROVE  Goal(q)
  <2>1. rows'[q] = rows[q]
    BY <1>3, EndStageEffect
  <2>2. CASE "telegram_deliveries" \notin rows[q]
    BY <2>1, <2>2 DEF Goal
  <2>3. CASE q # r
    BY <1>1, <1>3, <2>1, <2>3 DEF EndStage, TypeOK
  <2>4. CASE q = r /\ "telegram_deliveries" \in rows[q]
    <3>1. \A n \in Critical : n \in Stages /\ n # at[q]
      BY <1>0, <2>4 DEF Critical, Stages
    <3>2. \A n \in Critical : outcome'[q][n] = outcome[q][n]
      BY <1>3, <2>4, <3>1, EndStageEffect
    <3>3. QED
      BY <1>1, <2>1, <3>2
  <2>5. QED
    BY <2>2, <2>3, <2>4
<1>4. ASSUME NEW r \in Runs, NEW status \in Statuses, Complete(r, status) PROVE Goal(q)
  BY <1>3, <1>4 DEF Complete, Executing
<1>5. ASSUME NEW r \in Runs, Block(r) \/ Raise(r) PROVE Goal(q)
  <2>1. "blocked" \in Statuses /\ "failed" \in Statuses
    BY DEF Statuses
  <2>2. QED
    BY <1>3, <1>5, <2>1, StageCutShort
<1>6. ASSUME NEW r \in Runs,
             \/ Begin(r) \/ PersistRun(r) \/ PersistStage(r) \/ Die(r)
             \/ \E d \in DOMAIN Data : Put(r, d)
             \/ \E k \in Kinds : Note(r, k)
      PROVE  Goal(q)
  <2>1. UNCHANGED <<rows, outcome>>
    BY <1>6 DEF Begin, PersistRun, PersistStage, Die, Put, Note
  <2>2. QED
    BY <1>1, <2>1
<1>7. CASE UNCHANGED run
  BY <1>1, <1>7 DEF run
<1>8. QED
  BY <1>2, <1>4, <1>5, <1>6, <1>7, Elsewhere DEF Next, Work, Kinds

\* The inductive invariant holds in every reachable state.
THEOREM Invariance == Spec => []Inv
<1>1. Init => Inv
  BY InitInv
<1>2. Inv /\ [Next]_vars => Inv'
  BY TypeStep, StageLeavesStep, ContextStoredStep, RowsOfStagesStep, StagesBehindStep,
     RowsCountedStep, LineageStep, BriefStep DEF Inv
<1>3. QED
  BY <1>1, <1>2, PTL DEF Spec

\* Every variable keeps to its type.
THEOREM TypeCorrect == Spec => []TypeOK
<1>1. Inv => TypeOK
  BY DEF Inv
<1>2. QED
  BY <1>1, Invariance, PTL

\* The lineage of a run lists no row that is not stored, and misses none but
\* those of a handler that raised, wherever handlers raise and processes die.
THEOREM LineageIsFaithful == Spec => []LineageFaithful
<1>1. Inv => LineageFaithful
  BY DEF Inv
<1>2. QED
  BY <1>1, Invariance, PTL

\* No brief is handed to the outbox without complete and stored evidence.
THEOREM BriefsRestOnEvidence == Spec => []BriefRestsOnEvidence
<1>1. Inv => BriefRestsOnEvidence
  BY DEF Inv
<1>2. QED
  BY <1>1, Invariance, PTL

\* The critical stages are enough: no handler lacks what it indexes.
THEOREM InputsAreReady == Spec => []InputsReady
<1>1. ASSUME Inv, NEW r \in Runs, Executing(r) PROVE Indexed(at[r]) \subseteq context[r]
  <2> USE <1>1 DEF Inv
  <2>1. CASE at[r] \in {11, 13}
    <3>1. phase[r] = "stages" /\ blockedBy[r] = 0
      BY <2>1 DEF Executing, AlwaysRun
    <3>2. outcome[r][2] \in Completed /\ outcome[r][9] \in Completed
      BY <2>1, <3>1, CriticalFirst DEF StagesBehind
    <3>3. DataOf(2) \subseteq context[r] /\ DataOf(9) \subseteq context[r]
      BY <3>1, <3>2 DEF StageLeaves, Stages
    <3>4. "snapshots" \in DataOf(2) /\ "top_10" \in DataOf(9)
      BY DataStages DEF DataOf
    <3>5. Indexed(at[r]) = {"snapshots", "top_10"}
      BY <2>1 DEF Indexed
    <3>6. QED
      BY <3>3, <3>4, <3>5
  <2>2. CASE at[r] = 17
    <3>1. phase[r] = "stages" /\ blockedBy[r] = 0
      BY <2>2 DEF Executing, AlwaysRun
    <3>2. outcome[r][16] \in Completed
      BY <2>2, <3>1, CriticalFirst DEF StagesBehind
    <3>3. "reports" \in context[r]
      BY <3>1, <3>2 DEF StagesBehind
    <3>4. Indexed(at[r]) = {"reports"}
      BY <2>2 DEF Indexed
    <3>5. QED
      BY <3>3, <3>4
  <2>3. CASE at[r] \in Stages \ {11, 13, 17}
    <3>1. Indexed(at[r]) = {}
      BY <2>3 DEF Indexed
    <3>2. QED
      BY <3>1
  <2>4. QED
    BY <2>1, <2>2, <2>3 DEF Executing
<1>2. Inv => InputsReady
  BY <1>1 DEF InputsReady
<1>3. QED
  BY <1>2, Invariance, PTL

\* A run that ends is recorded as a whole, and what is recorded as succeeded is.
THEOREM EndIsRecorded == Spec => []EndsWithEvidence
<1>1. ASSUME Inv, NEW r \in Runs, phase[r] = "done"
      PROVE  /\ stageRows[r] = 21
             /\ \A n \in Stages : outcome[r][n] # "none"
             /\ "operational_lineage" \in rows[r] \/ outcome[r][21] = "failed"
             /\ blockedBy[r] # 0 => recorded[r] = "failed"
             /\ recorded[r] = "succeeded" => "reports" \in rows[r] /\ listed[r] = Lineage
  <2> USE <1>1 DEF Inv
  <2>1. stageRows[r] = 21 /\ recorded[r] = RunStatus(outcome[r])
    BY DEF RowsCounted
  <2>2. \A n \in Stages : outcome[r][n] # "none"
    BY DEF StagesBehind, Stages
  <2>3. outcome[r][21] \in Completed \cup {"failed"}
    <3>1. 21 \in Stages \ {4, 20} /\ outcome[r][21] \in Statuses \cup {"none"}
      BY DEF TypeOK, Stages
    <3>2. outcome[r][21] \notin {"none", "skipped", "blocked"}
      BY <2>2, <3>1 DEF StagesBehind
    <3>3. QED
      BY <3>1, <3>2 DEF Completed, Statuses
  <2>4. outcome[r][21] \in Completed => "operational_lineage" \in rows[r]
    BY LineageStages, EvidenceStages DEF StageLeaves, EvidenceOf, Kinds, Stages
  <2>5. ASSUME recorded[r] = "succeeded"
        PROVE  "reports" \in rows[r] /\ listed[r] = Lineage
    <3>1. \A n \in Stages : outcome[r][n] \notin {"failed", "partial", "blocked"}
      BY <2>1, <2>5 DEF RunStatus
    <3>2. \A n \in Stages \ {4, 20} : outcome[r][n] \in Completed
      BY <2>2, <3>1 DEF StagesBehind, TypeOK, Statuses, Completed
    <3>3. \A k \in Lineage : Evidence[k] \in Stages \ {4, 20} /\ k \in EvidenceOf(Evidence[k])
      BY EvidenceStages DEF Lineage, Evidence, EvidenceOf, Kinds, Stages
    <3>4. \A k \in Lineage : outcome[r][Evidence[k]] \in Completed
      BY <3>2, <3>3
    <3>5. "operational_lineage" \in rows[r]
      BY <2>3, <2>4, <3>1 DEF Stages
    <3>6. Lineage \subseteq listed[r]
      BY <3>4, <3>5 DEF LineageListed
    <3>7. listed[r] \subseteq Lineage
      BY DEF TypeOK
    <3>8. "reports" \in Lineage /\ listed[r] \subseteq rows[r]
      BY <3>5, EvidenceStages DEF LineageFaithful, Lineage, Kinds
    <3>9. QED
      BY <3>6, <3>7, <3>8
  <2>6. ASSUME blockedBy[r] # 0
        PROVE  recorded[r] = "failed"
    <3>1. blockedBy[r] \in Stages /\ outcome[r][blockedBy[r]] = "failed"
      BY <2>6, CriticalFirst DEF TypeOK, StagesBehind
    <3>2. QED
      BY <2>1, <3>1 DEF RunStatus
  <2>7. QED
    BY <2>1, <2>2, <2>3, <2>4, <2>5, <2>6
<1>2. Inv => EndsWithEvidence
  BY <1>1 DEF EndsWithEvidence
<1>3. QED
  BY <1>2, Invariance, PTL
=============================================================================
