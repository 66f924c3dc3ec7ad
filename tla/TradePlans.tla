------------------------------ MODULE TradePlans ------------------------------
(***************************************************************************)
(* Conditional plans and the signals made from them: the endpoints of      *)
(* src/lmio/main.py that create a plan and move it on, and                 *)
(* create_signal_from_approved_plan of src/lmio/service.py.                *)
(*                                                                         *)
(* A plan is a row of conditional_plans, and moving it on appends another  *)
(* row; no row ever changes.  The rows of one plan share no identity but   *)
(* their symbol and run_id, here their lineage.  A worker is one request   *)
(* of an operator at a time, a step one operation of the store.            *)
(*                                                                         *)
(* Definitions named Faulty... are plausible mistakes in the one that      *)
(* follows them.  No specification uses them: they show what the           *)
(* properties catch.                                                       *)
(***************************************************************************)
EXTENDS Integers, Sequences, FiniteSets

CONSTANTS
  Lineages,        \* symbol and run_id of plans
  News,            \* lineages of analyses of news: the run_id is the analysis
  Selected,        \* lineages with a ranking and a selected Top 3 evaluation
  Expiries,        \* what expires_at may be
  Operators,       \* actors
  Workers,         \* requests
  HistoryLimit,    \* rows of a table that a request reads
  Moments,         \* bound: the times the clock shows
  MaxDrafts,       \* bound: plans that are created
  MaxTransitions,  \* bound: transitions that begin
  MaxSignals,      \* bound: signals that are asked for
  MaxDeaths,       \* bound: deaths of requests
  None             \* no operator

ASSUME PlansAssumption ==
  /\ Selected \subseteq Lineages
  /\ News \subseteq Lineages \ Selected
  /\ Expiries \subseteq Int
  /\ None \notin Operators
  /\ HistoryLimit \in Nat

ASSUME BoundsAssumption ==
  /\ Moments \subseteq Int
  /\ Moments # {}
  /\ {MaxDrafts, MaxTransitions, MaxSignals, MaxDeaths} \subseteq Nat

PlanStates ==
  {"draft", "waiting_confirmation", "plan_ready", "monitoring", "invalidated", "expired", "archived"}

Allowed(s) ==
  CASE s = "draft" -> {"waiting_confirmation", "invalidated"}
    [] s = "waiting_confirmation" -> {"plan_ready", "invalidated"}
    [] s = "plan_ready" -> {"monitoring", "invalidated"}
    [] s = "monitoring" -> {"expired", "invalidated"}
    [] s \in {"invalidated", "expired"} -> {"archived"}
    [] OTHER -> {}

VARIABLES
  now,          \* the time
  plans,        \* conditional_plans; of each row also, as history, the transition it is from
  transitions,  \* trade_plan_transitions: the row moved on, the state it goes to, the actor
  signals,      \* signals: the row it was asked of, and the actor
  stage,        \* what each request does next
  actor,        \* its operator
  plan,         \* the row of conditional_plans it has read
  target,       \* the state it moves the plan to
  event,        \* the transition it has appended, 0 if none
  deaths        \* history: deaths of requests

store == <<plans, transitions, signals>>
local == <<stage, actor, plan, target, event>>
vars == <<now, store, local, deaths>>

Plans == [lineage : Lineages, expires : Int, state : PlanStates, event : Nat]
Transitions == [of : Nat \ {0}, to : PlanStates, actor : Operators]
Signals == [of : Nat \ {0}, actor : Operators]

TypeOK ==
  /\ now \in Moments
  /\ plans \in Seq(Plans)
  /\ transitions \in Seq(Transitions)
  /\ signals \in Seq(Signals)
  /\ stage \in [Workers -> {"idle", "event", "version", "approval", "market", "signal"}]
  /\ actor \in [Workers -> Operators \cup {None}]
  /\ plan \in [Workers -> Nat]
  /\ target \in [Workers -> PlanStates]
  /\ event \in [Workers -> Nat]
  /\ deaths \in Nat

Init ==
  /\ now \in {m \in Moments : \A n \in Moments : m <= n}
  /\ plans = <<>>
  /\ transitions = <<>>
  /\ signals = <<>>
  /\ stage = [w \in Workers |-> "idle"]
  /\ actor = [w \in Workers |-> None]
  /\ plan = [w \in Workers |-> 0]
  /\ target = [w \in Workers |-> "draft"]
  /\ event = [w \in Workers |-> 0]
  /\ deaths = 0

Tick ==
  /\ \E m \in Moments : m > now /\ now' = m
  /\ UNCHANGED <<store, local, deaths>>

\* The newest rows of a table, which is all that a request reads of it.
History(table) == {i \in 1..Len(table) : i > Len(table) - HistoryLimit}

\* A request ends, with an answer or without.
End(w) ==
  /\ stage' = [stage EXCEPT ![w] = "idle"]
  /\ actor' = [actor EXCEPT ![w] = None]
  /\ plan' = [plan EXCEPT ![w] = 0]
  /\ target' = [target EXCEPT ![w] = "draft"]
  /\ event' = [event EXCEPT ![w] = 0]

-----------------------------------------------------------------------------
(* Plans.                                                                  *)

Drafts == {i \in 1..Len(plans) : plans[i].state = "draft"}

Draft(l, expires) ==
  /\ Cardinality(Drafts) < MaxDrafts
  /\ plans' = Append(plans, [lineage |-> l, expires |-> expires, state |-> "draft", event |-> 0])
  /\ UNCHANGED <<now, transitions, signals, local, deaths>>

\* An operator creates a plan, of any symbol and run_id.
CreateTradePlan(l, expires) ==
  /\ expires > now
  /\ Draft(l, expires)

\* An event of the news whose price reaction is confirmed becomes a plan.
AnalyseNewsEvent(l, expires) ==
  /\ l \in News
  /\ \A i \in 1..Len(plans) : plans[i].lineage # l
  /\ expires > now
  /\ Draft(l, expires)

FaultyFirst == "version"   \* the row before the event

First == "event"

\* Whatever rows have followed it, row i may be moved on.
BeginTransition(w, a, i, t) ==
  /\ stage[w] = "idle"
  /\ Len(transitions) < MaxTransitions
  /\ i \in History(plans)
  /\ t \in Allowed(plans[i].state)
  /\ stage' = [stage EXCEPT ![w] = First]
  /\ actor' = [actor EXCEPT ![w] = a]
  /\ plan' = [plan EXCEPT ![w] = i]
  /\ target' = [target EXCEPT ![w] = t]
  /\ UNCHANGED <<now, store, event, deaths>>

Event(w) == [of |-> plan[w], to |-> target[w], actor |-> actor[w]]

AppendEvent(w) ==
  /\ stage[w] = "event"
  /\ transitions' = Append(transitions, Event(w))
  /\ event' = [event EXCEPT ![w] = Len(transitions) + 1]
  /\ stage' = [stage EXCEPT ![w] = "version"]
  /\ UNCHANGED <<now, plans, signals, actor, plan, target, deaths>>

Version(w) == [plans[plan[w]] EXCEPT !.state = target[w], !.event = event[w]]

FaultyAppendVersion(w) ==   \* a row that was moved on meanwhile is left as it is
  /\ stage[w] = "version"
  /\ plans' = IF \E i \in 1..Len(plans) :
                   plans[i].event > 0 /\ transitions[plans[i].event].of = plan[w]
              THEN plans ELSE Append(plans, Version(w))
  /\ End(w)
  /\ UNCHANGED <<now, transitions, signals, deaths>>

\* The new row is the one that was read, in its new state.
AppendVersion(w) ==
  /\ stage[w] = "version"
  /\ plans' = Append(plans, Version(w))
  /\ End(w)
  /\ UNCHANGED <<now, transitions, signals, deaths>>

-----------------------------------------------------------------------------
(* Signals.                                                                *)

\* Whatever rows have followed it, a signal may be asked of row i.
BeginSignal(w, a, i) ==
  /\ stage[w] = "idle"
  /\ Len(signals) < MaxSignals
  /\ i \in History(plans)
  /\ plans[i].state \in {"plan_ready", "monitoring"}
  /\ stage' = [stage EXCEPT ![w] = "approval"]
  /\ actor' = [actor EXCEPT ![w] = a]
  /\ plan' = [plan EXCEPT ![w] = i]
  /\ UNCHANGED <<now, store, target, event, deaths>>

FaultyApproves(e, w) ==   \* by whomever
  /\ transitions[e].to = "plan_ready"
  /\ plans[transitions[e].of].lineage = plans[plan[w]].lineage

\* Transition e approves a plan of the lineage, and is of the operator who asks.
Approves(e, w) ==
  /\ transitions[e].to = "plan_ready"
  /\ transitions[e].actor = actor[w]
  /\ plans[transitions[e].of].lineage = plans[plan[w]].lineage

Continue(w, s) ==
  /\ stage' = [stage EXCEPT ![w] = s]
  /\ UNCHANGED <<now, store, actor, plan, target, event, deaths>>

Refuse(w) == End(w) /\ UNCHANGED <<now, store, deaths>>

CheckApproval(w) ==
  /\ stage[w] = "approval"
  /\ \/ /\ \E e \in History(transitions) : Approves(e, w)
        /\ plans[plan[w]].expires > now
        /\ Continue(w, "market")
     \/ /\ \/ \A e \in History(transitions) : ~Approves(e, w)
           \/ plans[plan[w]].expires <= now
        /\ Refuse(w)

\* The market's rows may be missing, stale or without a price.
CheckMarket(w) ==
  /\ stage[w] = "market"
  /\ \/ plans[plan[w]].lineage \in Selected /\ Continue(w, "signal")
     \/ Refuse(w)

AppendSignal(w) ==
  /\ stage[w] = "signal"
  /\ signals' = Append(signals, [of |-> plan[w], actor |-> actor[w]])
  /\ End(w)
  /\ UNCHANGED <<now, plans, transitions, deaths>>

-----------------------------------------------------------------------------

\* The process dies, or an operation of the store raises: nothing catches it.
Die(w) ==
  /\ stage[w] # "idle"
  /\ deaths < MaxDeaths
  /\ deaths' = deaths + 1
  /\ End(w)
  /\ UNCHANGED <<now, store>>

Create ==
  \E l \in Lineages, x \in Expiries : CreateTradePlan(l, x) \/ AnalyseNewsEvent(l, x)

Ask(w) ==
  \E a \in Operators, i \in 1..Len(plans) :
    \/ \E t \in PlanStates : BeginTransition(w, a, i, t)
    \/ BeginSignal(w, a, i)

Next ==
  \/ Tick
  \/ Create
  \/ \E w \in Workers :
       \/ Ask(w)
       \/ AppendEvent(w)
       \/ AppendVersion(w)
       \/ CheckApproval(w)
       \/ CheckMarket(w)
       \/ AppendSignal(w)
       \/ Die(w)

Spec == Init /\ [][Next]_vars

-----------------------------------------------------------------------------
(* Properties.                                                             *)

\* Every state of a plan but the first has its transition on record, from the
\* state before it and by the table, and no transition stands for two: "Every
\* transition must record ... actor ... previous state ... new state" (section
\* 15.2 of docs/governing/LEON_MARKET_INTELLIGENCE_OS_MASTER_SPEC.md).
EveryVersionRecorded ==
  /\ \A i \in 1..Len(plans) :
       plans[i].state # "draft" =>
         /\ plans[i].event \in 1..Len(transitions)
         /\ LET e == transitions[plans[i].event]
            IN /\ e.to = plans[i].state
               /\ e.of \in 1..(i - 1)
               /\ e.to \in Allowed(plans[e.of].state)
               /\ plans[e.of].lineage = plans[i].lineage
  /\ \A i, j \in 1..Len(plans) :
       plans[i].event = plans[j].event /\ plans[i].event # 0 => i = j

\* Transitions on record that no row follows, nor will.
Stray ==
  {e \in 1..Len(transitions) :
     /\ \A i \in 1..Len(plans) : plans[i].event # e
     /\ \A w \in Workers : event[w] # e}

\* Only a death leaves a transition without its row, one at most.
StrayPerDeath == Cardinality(Stray) <= deaths

\* A plan of the lineage was confirmed and then approved, the latter by a.
ApprovedBy(l, a) ==
  \E confirmation, approval \in 1..Len(transitions) :
    /\ confirmation < approval
    /\ transitions[confirmation].to = "waiting_confirmation"
    /\ plans[transitions[confirmation].of].lineage = l
    /\ transitions[approval].to = "plan_ready"
    /\ plans[transitions[approval].of].lineage = l
    /\ transitions[approval].actor = a

\* A signal is of a plan that was confirmed and then approved, and approved by
\* the operator who asked for the signal, whoever else moves plans at the time:
\* "only after the same authenticated operator approves"
\* (docs/OPERATIONAL_ACCEPTANCE_REPORT.md).  That it is the same plan and not
\* another one of the lineage the code does not ensure.
SignalRestsOnApproval ==
  \A s \in 1..Len(signals) :
    LET p == plans[signals[s].of]
    IN /\ signals[s].of \in 1..Len(plans)
       /\ p.state \in {"plan_ready", "monitoring"}
       /\ p.lineage \in Selected
       /\ ApprovedBy(p.lineage, signals[s].actor)

\* Row i was invalidated: a row that it was moved on to says so.
Invalidated(i) ==
  \E j \in 1..Len(plans) :
    plans[j].state = "invalidated" /\ transitions[plans[j].event].of = i

\* A signal is made "only after the same authenticated operator approves a complete
\* current plan" (docs/OPERATIONAL_ACCEPTANCE_REPORT.md:79): not of a row that is
\* invalidated already.
SignalOfCurrentPlan ==
  [][\A s \in 1..Len(signals') : s > Len(signals) => ~Invalidated(signals'[s].of)]_vars
=============================================================================
