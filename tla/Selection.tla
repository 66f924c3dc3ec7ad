------------------------------- MODULE Selection -------------------------------
(***************************************************************************)
(* From snapshots to the Top 3 of a pipeline run: the universe             *)
(* (src/lmio/universe.py), the screens (screens.py), the Top 10            *)
(* (ranking.py), the inputs of valuations and the valuations               *)
(* (valuation_inputs.py, valuation.py), the research packages              *)
(* (research.py), the verdicts before and after research (top3.py) and the *)
(* daily report (reports.py), which judges the Top 10 once more.           *)
(*                                                                         *)
(* Symbols are numbers, in the order of their names; scores are points of  *)
(* a hundred, confidence and completeness percent, rates thousandths,      *)
(* times hours.  What a snapshot scores for a strategy is data.            *)
(*                                                                         *)
(* Definitions named Faulty... are plausible mistakes in the one that      *)
(* follows them.  No specification uses them: they show what the           *)
(* properties catch.                                                       *)
(***************************************************************************)
EXTENDS Ordering

CONSTANTS
  Snapshots,    \* snapshots that the provider may deliver
  Evidence,     \* financial evidence that may be supplied for a symbol
  MaxItems,     \* bound: snapshots of a run
  CurrentHour,  \* when the run ranks
  RankLimit,    \* candidates of a ranking
  TopLimit      \* candidates that are selected

Percent == 0..100

\* The strategies, in the order in which a snapshot is tried for them.
StrategyOrder ==
  <<"quality_growth_momentum", "earnings_revision_momentum", "institutional_accumulation",
    "activist_catalyst", "insider_value", "quality_at_reasonable_price",
    "post_earnings_announcement_drift", "news_driven", "oversold_reversal", "short_squeeze",
    "pattern_recognition">>

\* The same, in the order of their names.
NameOrder ==
  <<"activist_catalyst", "earnings_revision_momentum", "insider_value",
    "institutional_accumulation", "news_driven", "oversold_reversal", "pattern_recognition",
    "post_earnings_announcement_drift", "quality_at_reasonable_price",
    "quality_growth_momentum", "short_squeeze">>

Strategies == {StrategyOrder[i] : i \in 1..11}

Position(order, s) == CHOOSE i \in 1..11 : order[i] = s

\* What must hold of the fields of a snapshot for it to match a strategy.  A
\* strength or surprise of exactly zero counts as a missing one.
Requires ==
  [quality_growth_momentum |->
     {"revenue 10", "eps 10", "roic 10", "debt 1.5", "fcf 5", "strength 0"},
   earnings_revision_momentum |-> {"revision 2", "surprise 0", "strength 0"},
   institutional_accumulation |-> {"ownership 2", "volume 1"},
   activist_catalyst |-> {"stake 5"},
   insider_value |-> {"insiders 0.25", "pe 30"},
   quality_at_reasonable_price |-> {"pe 30", "pe positive", "eps 10", "roic 10"},
   post_earnings_announcement_drift |-> {"surprise 5", "within 20 days", "drift 0"},
   news_driven |-> {"impact 70", "volume 1.2"},
   oversold_reversal |-> {"rsi 30", "volume 1.2", "revision 0"},
   short_squeeze |-> {"short 15", "cover 3", "volume 1.5", "trend 0"},
   pattern_recognition |-> {"pattern"}]

RequiredFields == {"revenue", "eps", "roic", "debt", "fcf", "strength", "revision"}

Snapshot ==
  [symbol : Nat, observed : Nat, excluded : BOOLEAN, live : BOOLEAN,
   facts : SUBSET UNION {Requires[s] : s \in Strategies}, missing : SUBSET RequiredFields,
   score : [Strategies -> Percent], confidence : Percent, completeness : Percent]

\* Evidence of a company of a type that has a model, with every required input
\* or not, and the rates of its assumptions.
FinancialEvidence ==
  [standard : BOOLEAN, complete : BOOLEAN, discount : Int, terminal : Int]

ASSUME SelectionAssumption ==
  /\ Snapshots \subseteq Snapshot
  /\ Evidence \subseteq FinancialEvidence
  /\ {MaxItems, CurrentHour, RankLimit, TopLimit} \subseteq Nat

VARIABLES
  stage,       \* what the run does next
  batch,       \* the candidates
  ranking,     \* the Top 10
  valued,      \* the symbols of it that have a valuation
  preliminary, \* the verdicts before research
  verdicts,    \* the verdicts after it, as they are stored
  reported     \* the candidates and verdicts of the report

selectionVars == <<stage, batch, ranking, valued, preliminary, verdicts, reported>>

Verdicts == {"screened", "research_pending", "valuation_pending", "evidence_incomplete",
             "top3_eligible", "top3_selected", "rejected"}

CandidateRecord ==
  [symbol : Nat, strategy : Strategies, score : Percent, confidence : Percent,
   completeness : Percent, missing : SUBSET RequiredFields, observed : Nat, live : BOOLEAN]

SelectionTypeOK ==
  /\ stage \in {"screen", "rank", "value", "research", "done", "failed"}
  /\ batch \in Seq(CandidateRecord)
  /\ ranking \in Seq(CandidateRecord)
  /\ valued \subseteq Nat
  /\ preliminary \in Seq(Verdicts)
  /\ verdicts \in Seq(Verdicts)
  /\ reported \in [top : Seq(CandidateRecord), verdicts : Seq(Verdicts)]

SelectionInit ==
  /\ stage = "screen"
  /\ batch = <<>>
  /\ ranking = <<>>
  /\ valued = {}
  /\ preliminary = <<>>
  /\ verdicts = <<>>
  /\ reported = [top |-> <<>>, verdicts |-> <<>>]

-----------------------------------------------------------------------------
(* build_investable_universe and run_core_screens.                         *)

\* Of each symbol the newest snapshot among those that the policy admits, the
\* earlier of equal ones.
Universe(items) ==
  LET admitted == {i \in DOMAIN items : ~items[i].excluded}
      newer(i, j) == items[i].observed > items[j].observed
                       \/ (items[i].observed = items[j].observed /\ i < j)
  IN  {items[i] : i \in {k \in admitted : \A j \in admitted \ {k} :
                           items[j].symbol = items[k].symbol => newer(k, j)}}

CandidateOf(item, s) ==
  [symbol |-> item.symbol, strategy |-> s, score |-> item.score[s],
   confidence |-> item.confidence, completeness |-> item.completeness,
   missing |-> item.missing, observed |-> item.observed, live |-> item.live]

CandidatesOf(item) == {CandidateOf(item, s) : s \in {t \in Strategies : Requires[t] \subseteq item.facts}}

\* By score, then symbol; of one symbol in the order of the strategies.
Better(a, b) ==
  \/ a.score > b.score
  \/ a.score = b.score /\ a.symbol < b.symbol
  \/ /\ a.score = b.score /\ a.symbol = b.symbol
     /\ Position(StrategyOrder, a.strategy) < Position(StrategyOrder, b.strategy)

RunCoreScreens(universe) ==
  LET found == UNION {CandidatesOf(item) : item \in universe}
  IN  InOrder(found, {p \in found \X found : Better(p[1], p[2])})

-----------------------------------------------------------------------------
(* rank_top10.                                                             *)

\* What a score loses: by confidence and completeness, by missing fields, by age.
Penalty(c) ==
  (100 - c.confidence) \div 5 + (100 - c.completeness) \div 5
    + (IF Cardinality(c.missing) < 5 THEN 5 * Cardinality(c.missing) ELSE 25)
    + (IF CurrentHour - c.observed > 24 THEN 15 ELSE 0)

Adjusted(c) == IF c.score > Penalty(c) THEN c.score - Penalty(c) ELSE 0

FaultyStronger(cs, i, j) ==   \* of equals the one that comes first
  \/ Adjusted(cs[i]) > Adjusted(cs[j])
  \/ Adjusted(cs[i]) = Adjusted(cs[j]) /\ cs[i].score > cs[j].score
  \/ Adjusted(cs[i]) = Adjusted(cs[j]) /\ cs[i].score = cs[j].score /\ i < j

\* Which of two candidates of a symbol is kept.
Stronger(cs, i, j) ==
  LET name(k) == Position(NameOrder, cs[k].strategy)
  IN  \/ Adjusted(cs[i]) > Adjusted(cs[j])
      \/ /\ Adjusted(cs[i]) = Adjusted(cs[j])
         /\ \/ cs[i].score > cs[j].score
            \/ cs[i].score = cs[j].score /\ name(i) < name(j)
            \/ cs[i].score = cs[j].score /\ name(i) = name(j) /\ i < j

\* The order of those that are kept, one of each symbol.
Ahead(a, b) ==
  \/ Adjusted(a) > Adjusted(b)
  \/ Adjusted(a) = Adjusted(b) /\ a.score > b.score
  \/ Adjusted(a) = Adjusted(b) /\ a.score = b.score /\ a.symbol < b.symbol

RankTop10(cs) ==
  LET live == {i \in DOMAIN cs : cs[i].live}
      kept == {i \in live : \A j \in live \ {i} : cs[i].symbol = cs[j].symbol => Stronger(cs, i, j)}
      one == {cs[i] : i \in kept}
      ordered == InOrder(one, {p \in one \X one : Ahead(p[1], p[2])})
  IN  SubSeq(ordered, 1, IF Len(ordered) < RankLimit THEN Len(ordered) ELSE RankLimit)

-----------------------------------------------------------------------------
(* prepare_valuation_input and run_valuation.                              *)

\* The rates of the base case, the pessimistic and the optimistic one and the
\* sensitivities.
Cases(e) ==
  {<<e.discount, e.terminal>>,
   <<e.discount + 15, IF e.terminal < 5 THEN 0 ELSE e.terminal - 5>>,
   <<e.discount - 10, IF e.discount - 10 < e.terminal + 10 THEN e.discount - 10 ELSE e.terminal + 10>>,
   <<e.discount - 10, e.terminal>>, <<e.discount + 10, e.terminal>>}

\* Inputs that are ready give a valuation unless a case's discount rate does
\* not exceed its terminal growth, which raises.
Valuable(e) == e.standard /\ e.complete /\ \A c \in Cases(e) : c[1] > c[2]

-----------------------------------------------------------------------------
(* build_research_pack and evaluate_top3.                                  *)

FaultyCompleted(candidate, hasValuation, contrary) == 15   \* a missing statement counts

\* How many of its fifteen mandatory fields a package completes: four of what
\* the business is, one of its management and two of its owners are missing.
Completed(candidate, hasValuation, contrary) ==
  15 - 7 - (IF "revision" \in candidate.missing THEN 1 ELSE 0)
    - (IF hasValuation THEN 0 ELSE 1) - (IF contrary THEN 0 ELSE 1)

Short(candidate) ==
  candidate.missing # {} \/ candidate.confidence < 75 \/ candidate.completeness < 75

AfterValuation(candidate, hasValuation) ==
  CASE ~candidate.live -> "rejected"
    [] candidate.live /\ ~hasValuation -> "valuation_pending"
    [] candidate.live /\ hasValuation -> "screened"

\* The verdicts that incomplete evidence leaves as they are.
Kept(verdict) == verdict \in {"rejected", "valuation_pending"}

\* The verdict of the gates, without a package or with one of some fields.
Gated(candidate, hasValuation, fields) ==
  LET verdict == AfterValuation(candidate, hasValuation)
  IN  CASE ~Kept(verdict) /\ (Short(candidate) \/ fields \in 0..14) -> "evidence_incomplete"
        [] ~Kept(verdict) /\ ~Short(candidate) /\ fields = -1 -> "research_pending"
        [] OTHER -> verdict

\* No gate is closed and the candidates before it leave room: selected.
EvaluateTop3(top, value, fields) ==
  LET gated(i) == Gated(top[i], top[i].symbol \in value, fields[top[i].symbol])
      open == {i \in DOMAIN top : gated(i) = "screened"}
  IN  [i \in DOMAIN top |->
         CASE i \in open /\ Cardinality({j \in open : j <= i}) <= TopLimit -> "top3_selected"
           [] i \in open /\ Cardinality({j \in open : j <= i}) > TopLimit -> "top3_eligible"
           [] OTHER -> gated(i)]

\* The report orders candidates by what they score, without penalties.
Sooner(top, i, j) ==
  \/ top[i].score > top[j].score
  \/ top[i].score = top[j].score /\ top[i].symbol < top[j].symbol
  \/ top[i].score = top[j].score /\ top[i].symbol = top[j].symbol /\ i < j

ReportOrder(top) ==
  LET places == DOMAIN top
      order == InOrder(places, {p \in places \X places : Sooner(top, p[1], p[2])})
  IN  [k \in places |-> top[order[k]]]

-----------------------------------------------------------------------------
(* The stages of a run.                                                    *)

\* The snapshots of a run have one provenance.
Screen ==
  /\ stage = "screen"
  /\ \E items \in UNION {[1..n -> Snapshots] : n \in 0..MaxItems} :
       /\ \A i, j \in DOMAIN items : i # j => items[i] # items[j]
       /\ \A i, j \in DOMAIN items : items[i].live = items[j].live
       /\ batch' = RunCoreScreens(Universe(items))
  /\ stage' = "rank"
  /\ UNCHANGED <<ranking, valued, preliminary, verdicts, reported>>

Rank ==
  /\ stage = "rank"
  /\ ranking' = RankTop10(batch)
  /\ stage' = "value"
  /\ UNCHANGED <<batch, valued, preliminary, verdicts, reported>>

SymbolsOf(top) == {top[i].symbol : i \in DOMAIN top}
NoPackage(top) == [s \in SymbolsOf(top) |-> -1]

\* The evidence supplied for some of the symbols is prepared and valued, and
\* the first verdicts are given.
Value ==
  /\ stage = "value"
  /\ \E supplied \in SUBSET SymbolsOf(ranking) : \E e \in [supplied -> Evidence] :
       LET value == {s \in supplied : Valuable(e[s])} IN
       /\ valued' = value
       /\ preliminary' = EvaluateTop3(ranking, value, NoPackage(ranking))
  /\ stage' = "research"
  /\ UNCHANGED <<batch, ranking, verdicts, reported>>

\* Evidence of another symbol or provenance than the candidate's ends the run.
RefuseEvidence ==
  /\ stage = "value" /\ ranking # <<>>
  /\ stage' = "failed"
  /\ UNCHANGED <<batch, ranking, valued, preliminary, verdicts, reported>>

\* The news give contrary evidence of some symbols; the verdicts are stored and
\* the report gives its own.
Research ==
  /\ stage = "research"
  /\ \E contrary \in SUBSET SymbolsOf(ranking) :
       LET candidate(s) == CHOOSE c \in {ranking[i] : i \in DOMAIN ranking} : c.symbol = s
           fields == [s \in SymbolsOf(ranking) |->
                        Completed(candidate(s), s \in valued, s \in contrary)]
       IN  /\ verdicts' = EvaluateTop3(ranking, valued, fields)
           /\ reported' = [top |-> ReportOrder(ranking),
                           verdicts |-> EvaluateTop3(ReportOrder(ranking), valued, fields)]
  /\ stage' = "done"
  /\ UNCHANGED <<batch, ranking, valued, preliminary>>

SelectionNext == Screen \/ Rank \/ Value \/ RefuseEvidence \/ Research

SelectionSpec == SelectionInit /\ [][SelectionNext]_selectionVars

-----------------------------------------------------------------------------
(* Properties.                                                             *)

Orders(n) == {p \in [1..n -> 1..n] : \A i, j \in 1..n : i # j => p[i] # p[j]}

\* rank_top10 is "independent of screen execution order", as its docstring
\* says: the Top 10 is the same whatever the order of the candidates.
RankingCanonical ==
  stage = "value" =>
    \A p \in Orders(Len(batch)) : RankTop10([i \in DOMAIN batch |-> batch[p[i]]]) = ranking

\* A pipeline run judges its Top 10 three times, in two orders: before research,
\* after it for top3_evaluations, and in the report, ordered by raw score.
\* The report gives every symbol the verdict that is stored for it, research
\* takes nothing out of a wait for its valuation, and nothing that is valued
\* still waits for a package.
VerdictsHold ==
  stage = "done" =>
    /\ \A i, j \in DOMAIN ranking :
         ranking[i] = reported.top[j] => verdicts[i] = reported.verdicts[j]
    /\ \A i \in DOMAIN ranking :
         /\ preliminary[i] = "valuation_pending" <=> verdicts[i] = "valuation_pending"
         /\ verdicts[i] # "research_pending"
=============================================================================
