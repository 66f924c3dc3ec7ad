--------------------------- MODULE TradePlansProofs ---------------------------
(***************************************************************************)
(* Proofs about plans and signals, for any lineages, operators, requests   *)
(* and moments.                                                            *)
(***************************************************************************)
EXTENDS TradePlans, SequenceTheorems, FiniteSetTheorems, TLAPS

(***************************************************************************)
(* The inductive invariant.                                                *)
(***************************************************************************)

\* What a request knows of the rows it has read and appended.
Knows(w) ==
  /\ stage[w] = "version" \/ event[w] = 0
  /\ stage[w] # "idle" => actor[w] \in Operators /\ plan[w] \in 1..Len(plans)
  /\ stage[w] \in {"event", "version"} => target[w] \in Allowed(plans[plan[w]].state)
  /\ stage[w] = "version" =>
       /\ event[w] \in 1..Len(transitions)
       /\ transitions[event[w]] = Event(w)
       /\ \A i \in 1..Len(plans) : plans[i].event # event[w]
  /\ stage[w] \in {"approval", "market", "signal"} =>
       plans[plan[w]].state \in {"plan_ready", "monitoring"}
  /\ stage[w] \in {"market", "signal"} => ApprovedBy(plans[plan[w]].lineage, actor[w])
  /\ stage[w] = "signal" => plans[plan[w]].lineage \in Selected

RequestOK == \A w \in Workers : Knows(w)

\* No two requests have appended one transition.
Apart == \A v, w \in Workers : v # w /\ event[v] = event[w] => event[v] = 0

\* A transition leaves a row that was there, and that is from an earlier one.
TransitionsOK ==
  \A e \in 1..Len(transitions) :
    /\ transitions[e].of \in 1..Len(plans)
    /\ transitions[e].to \in Allowed(plans[transitions[e].of].state)
    /\ plans[transitions[e].of].event < e

\* A draft is from no transition.
DraftsOK == \A i \in 1..Len(plans) : plans[i].state = "draft" => plans[i].event = 0

StrayCounted == IsFiniteSet(Stray) /\ StrayPerDeath

Inv ==
  /\ TypeOK
  /\ RequestOK
  /\ Apart
  /\ TransitionsOK
  /\ DraftsOK
  /\ EveryVersionRecorded
  /\ StrayCounted
  /\ SignalRestsOnApproval

-----------------------------------------------------------------------------
(***************************************************************************)
(* Tables that grow.                                                       *)
(***************************************************************************)

\* The rows that were there keep their places.
LEMMA Appended ==
  ASSUME NEW R, NEW s \in Seq(R), NEW row \in R, NEW t, t = Append(s, row)
  PROVE  /\ t \in Seq(R)
         /\ Len(s) \in Nat
         /\ Len(t) = Len(s) + 1
         /\ \A i \in 1..Len(s) : t[i] = s[i] /\ i \in 1..Len(t)
         /\ t[Len(s) + 1] = row
         /\ \A i \in 1..Len(t) : i \in 1..Len(s) \/ i = Len(s) + 1
<1>1. /\ t \in Seq(R) /\ Len(s) \in Nat /\ Len(t) = Len(s) + 1
      /\ \A i \in 1..Len(s) : t[i] = s[i]
      /\ t[Len(s) + 1] = row
  BY AppendProperties, LenProperties
<1>2. \A i \in 1..Len(t) : i \in 1..Len(s) \/ i = Len(s) + 1
  BY <1>1
<1>3. \A i \in 1..Len(s) : i \in 1..Len(t)
  BY <1>1
<1>4. QED
  BY <1>1, <1>2, <1>3

\* No step takes a row away or changes one.
Grows ==
  /\ Len(plans) \in Nat /\ Len(plans') \in Nat
  /\ Len(transitions) \in Nat /\ Len(transitions') \in Nat
  /\ \A i \in 1..Len(plans) : i \in 1..Len(plans') /\ plans'[i] = plans[i]
  /\ \A e \in 1..Len(transitions) : e \in 1..Len(transitions') /\ transitions'[e] = transitions[e]

\* The rows that are appended are rows.
LEMMA NewRows ==
  ASSUME TypeOK, RequestOK
  PROVE  /\ \A l \in Lineages, x \in Expiries :
              [lineage |-> l, expires |-> x, state |-> "draft", event |-> 0] \in Plans
         /\ \A w \in Workers :
              /\ stage[w] = "event" => Event(w) \in Transitions
              /\ stage[w] = "version" => Version(w) \in Plans
              /\ stage[w] = "signal" => [of |-> plan[w], actor |-> actor[w]] \in Signals
<1> USE PlansAssumption
<1>1. ASSUME NEW l \in Lineages, NEW x \in Expiries
      PROVE  [lineage |-> l, expires |-> x, state |-> "draft", event |-> 0] \in Plans
  BY DEF Plans, PlanStates
<1>2. ASSUME NEW w \in Workers, stage[w] = "event" PROVE Event(w) \in Transitions
  <2>1. plan[w] \in Nat \ {0} /\ actor[w] \in Operators /\ target[w] \in PlanStates
    BY <1>2 DEF TypeOK, RequestOK, Knows
  <2>2. QED
    BY <2>1 DEF Event, Transitions
<1>3. ASSUME NEW w \in Workers, stage[w] = "version" PROVE Version(w) \in Plans
  <2>1. plans[plan[w]] \in Plans
    BY <1>3, ElementOfSeq DEF TypeOK, RequestOK, Knows
  <2>2. QED
    BY <2>1 DEF TypeOK, Version, Plans
<1>4. ASSUME NEW w \in Workers, stage[w] = "signal"
      PROVE  [of |-> plan[w], actor |-> actor[w]] \in Signals
  <2>1. plan[w] \in Nat \ {0} /\ actor[w] \in Operators
    BY <1>4 DEF TypeOK, RequestOK, Knows
  <2>2. QED
    BY <2>1 DEF Signals
<1>5. QED
  BY <1>1, <1>2, <1>3, <1>4

THEOREM InitInv == Init => Inv
<1> SUFFICES ASSUME Init PROVE Inv
  OBVIOUS
<1> USE PlansAssumption, BoundsAssumption
<1>1. /\ plans = <<>> /\ transitions = <<>> /\ signals = <<>>
      /\ Len(plans) = 0 /\ Len(transitions) = 0 /\ Len(signals) = 0
      /\ plans \in Seq(Plans) /\ transitions \in Seq(Transitions) /\ signals \in Seq(Signals)
  BY EmptySeq DEF Init
<1>2. TypeOK
  BY <1>1 DEF Init, TypeOK, PlanStates
<1>3. RequestOK /\ Apart
  BY <1>1 DEF Init, RequestOK, Knows, Apart
<1>4. TransitionsOK /\ DraftsOK /\ EveryVersionRecorded /\ SignalRestsOnApproval
  BY <1>1 DEF TransitionsOK, DraftsOK, EveryVersionRecorded, SignalRestsOnApproval
<1>5. Stray = {} /\ deaths = 0
  BY <1>1 DEF Init, Stray
<1>6. StrayCounted
  BY <1>5, FS_EmptySet DEF StrayCounted, StrayPerDeath
<1>7. QED
  BY <1>2, <1>3, <1>4, <1>6 DEF Inv

-----------------------------------------------------------------------------

LEMMA TypeStep == Inv /\ [Next]_vars => TypeOK'
<1> SUFFICES ASSUME Inv, [Next]_vars PROVE TypeOK'
  OBVIOUS
<1> USE PlansAssumption, BoundsAssumption DEF Inv, TypeOK
<1>1. CASE Tick
  BY <1>1 DEF Tick, store, local
<1>2. ASSUME NEW l \in Lineages, NEW x \in Expiries, Draft(l, x) PROVE TypeOK'
  <2>1. plans' \in Seq(Plans)
    BY <1>2, NewRows, Appended DEF Draft
  <2>2. QED
    BY <1>2, <2>1 DEF Draft, local
<1>3. ASSUME NEW w \in Workers, NEW a \in Operators, NEW i \in 1..Len(plans),
             NEW t \in PlanStates, BeginTransition(w, a, i, t)
      PROVE  TypeOK'
  BY <1>3 DEF BeginTransition, First, store
<1>4. ASSUME NEW w \in Workers, NEW a \in Operators, NEW i \in 1..Len(plans),
             BeginSignal(w, a, i)
      PROVE  TypeOK'
  BY <1>4 DEF BeginSignal, store
<1>5. ASSUME NEW w \in Workers, AppendEvent(w) PROVE TypeOK'
  <2>1. transitions' \in Seq(Transitions)
    BY <1>5, NewRows, Appended DEF AppendEvent
  <2>2. Len(transitions) + 1 \in Nat
    BY LenProperties
  <2>3. QED
    BY <1>5, <2>1, <2>2 DEF AppendEvent
<1>6. ASSUME NEW w \in Workers, AppendVersion(w) PROVE TypeOK'
  <2>1. plans' \in Seq(Plans)
    BY <1>6, NewRows, Appended DEF AppendVersion
  <2>2. QED
    BY <1>6, <2>1 DEF AppendVersion, End, PlanStates
<1>7. ASSUME NEW w \in Workers, CheckApproval(w) \/ CheckMarket(w) PROVE TypeOK'
  <2>1. CASE Continue(w, "market") \/ Continue(w, "signal")
    BY <2>1 DEF Continue, store
  <2>2. CASE Refuse(w)
    BY <2>2 DEF Refuse, End, store, PlanStates
  <2>3. QED
    BY <1>7, <2>1, <2>2 DEF CheckApproval, CheckMarket
<1>8. ASSUME NEW w \in Workers, AppendSignal(w) PROVE TypeOK'
  <2>1. signals' \in Seq(Signals)
    <3>1. stage[w] = "signal" /\ signals' = Append(signals, [of |-> plan[w], actor |-> actor[w]])
      BY <1>8 DEF AppendSignal
    <3>2. [of |-> plan[w], actor |-> actor[w]] \in Signals
      BY <3>1, NewRows
    <3>3. QED
      BY <3>1, <3>2, AppendProperties
  <2>2. QED
    BY <1>8, <2>1 DEF AppendSignal, End, PlanStates
<1>9. ASSUME NEW w \in Workers, Die(w) PROVE TypeOK'
  BY <1>9 DEF Die, End, store, PlanStates
<1>10. CASE UNCHANGED vars
  BY <1>10 DEF vars, store, local
<1>11. QED
  BY <1>1, <1>2, <1>3, <1>4, <1>5, <1>6, <1>7, <1>8, <1>9, <1>10
     DEF Next, Create, CreateTradePlan, AnalyseNewsEvent, Ask

LEMMA TablesGrow == Inv /\ [Next]_vars => Grows
<1> SUFFICES ASSUME Inv, [Next]_vars PROVE Grows
  OBVIOUS
<1> USE DEF Inv, TypeOK
<1>0. Len(plans) \in Nat /\ Len(transitions) \in Nat
  BY LenProperties
<1>1. ASSUME NEW row \in Plans, plans' = Append(plans, row), UNCHANGED transitions PROVE Grows
  BY <1>0, <1>1, Appended DEF Grows
<1>2. ASSUME NEW row \in Transitions, transitions' = Append(transitions, row), UNCHANGED plans
      PROVE Grows
  BY <1>0, <1>2, Appended DEF Grows
<1>3. CASE UNCHANGED <<plans, transitions>>
  BY <1>0, <1>3 DEF Grows
<1>4. ASSUME NEW l \in Lineages, NEW x \in Expiries, Draft(l, x) PROVE Grows
  BY <1>1, <1>4, NewRows DEF Draft
<1>5. ASSUME NEW w \in Workers, AppendEvent(w) PROVE Grows
  BY <1>2, <1>5, NewRows DEF AppendEvent
<1>6. ASSUME NEW w \in Workers, AppendVersion(w) PROVE Grows
  BY <1>1, <1>6, NewRows DEF AppendVersion
<1>7. QED
  BY <1>3, <1>4, <1>5, <1>6
     DEF Next, Create, CreateTradePlan, AnalyseNewsEvent, Ask, Tick, BeginTransition,
         BeginSignal, CheckApproval, CheckMarket, AppendSignal, Continue, Refuse, Die, vars, store

-----------------------------------------------------------------------------
(***************************************************************************)
(* Rows, transitions and approvals.                                        *)
(***************************************************************************)

\* Nothing goes back to a draft, and only what is confirmed becomes ready.
LEMMA Lifecycle ==
  ASSUME NEW s \in PlanStates
  PROVE  "draft" \notin Allowed(s) /\ ("plan_ready" \in Allowed(s) => s = "waiting_confirmation")
BY DEF Allowed, PlanStates

LEMMA RowTypes ==
  ASSUME TypeOK
  PROVE  /\ Len(plans) \in Nat /\ Len(transitions) \in Nat /\ Len(signals) \in Nat
         /\ \A i \in 1..Len(plans) : plans[i] \in Plans
         /\ \A e \in 1..Len(transitions) : transitions[e] \in Transitions
         /\ \A s \in 1..Len(signals) : signals[s] \in Signals
BY ElementOfSeq, LenProperties DEF TypeOK

\* A row is from a transition that is on record.
LEMMA EventsRecorded ==
  ASSUME Inv, NEW i \in 1..Len(plans)
  PROVE  plans[i].event \in 0..Len(transitions)
BY RowTypes DEF Inv, DraftsOK, EveryVersionRecorded

\* A transition to plan_ready has the confirmation before it.
LEMMA ApprovalRests ==
  ASSUME Inv, NEW e \in 1..Len(transitions), transitions[e].to = "plan_ready"
  PROVE  ApprovedBy(plans[transitions[e].of].lineage, transitions[e].actor)
<1> DEFINE i == transitions[e].of
           c == plans[i].event
<1>1. i \in 1..Len(plans) /\ "plan_ready" \in Allowed(plans[i].state) /\ c < e
  BY DEF Inv, TransitionsOK
<1>2. plans[i].state \in PlanStates
  BY <1>1, RowTypes DEF Inv, Plans
<1>3. plans[i].state = "waiting_confirmation"
  BY <1>1, <1>2, Lifecycle
<1>4. /\ c \in 1..Len(transitions)
      /\ transitions[c].to = "waiting_confirmation"
      /\ plans[transitions[c].of].lineage = plans[i].lineage
  BY <1>1, <1>3 DEF Inv, EveryVersionRecorded
<1> HIDE DEF c
<1>5. QED
  BY <1>1, <1>4 DEF ApprovedBy

\* ApprovedBy in the next state.
ApprovedNext(l, a) ==
  \E confirmation, approval \in 1..Len(transitions') :
    /\ confirmation < approval
    /\ transitions'[confirmation].to = "waiting_confirmation"
    /\ plans'[transitions'[confirmation].of].lineage = l
    /\ transitions'[approval].to = "plan_ready"
    /\ plans'[transitions'[approval].of].lineage = l
    /\ transitions'[approval].actor = a

LEMMA ApprovedStays ==
  ASSUME Grows, TransitionsOK, NEW l, NEW a, ApprovedBy(l, a)
  PROVE  ApprovedNext(l, a)
<1>1. PICK c \in 1..Len(transitions), e \in 1..Len(transitions) :
        /\ c < e
        /\ transitions[c].to = "waiting_confirmation"
        /\ plans[transitions[c].of].lineage = l
        /\ transitions[e].to = "plan_ready"
        /\ plans[transitions[e].of].lineage = l
        /\ transitions[e].actor = a
  BY DEF ApprovedBy
<1>2. \A d \in {c, e} :
        /\ d \in 1..Len(transitions')
        /\ transitions'[d] = transitions[d]
        /\ plans'[transitions[d].of] = plans[transitions[d].of]
  BY <1>1 DEF Grows, TransitionsOK
<1>3. QED
  BY <1>1, <1>2 DEF ApprovedNext

-----------------------------------------------------------------------------

\* A request knows what it knew, if it has done nothing and no row is from its transition.
LEMMA OthersKeep ==
  ASSUME Inv, Grows, NEW q \in Workers,
         stage'[q] = stage[q], actor'[q] = actor[q], plan'[q] = plan[q],
         target'[q] = target[q], event'[q] = event[q],
         \A i \in 1..Len(plans') :
           i \in 1..Len(plans) \/ event[q] = 0 \/ plans'[i].event # event[q]
  PROVE  Knows(q)'
<1>1. Knows(q)
  BY DEF Inv, RequestOK
<1>2. stage[q] # "idle" => plan[q] \in 1..Len(plans') /\ plans'[plan[q]] = plans[plan[q]]
  BY <1>1 DEF Knows, Grows
<1>3. ASSUME stage[q] = "version"
      PROVE  /\ event[q] \in 1..Len(transitions')
             /\ transitions'[event[q]] = Event(q)'
             /\ \A i \in 1..Len(plans') : plans'[i].event # event[q]
  <2>1. event[q] \in 1..Len(transitions) /\ event[q] # 0 /\ transitions[event[q]] = Event(q)
    BY <1>1, <1>3, RowTypes DEF Knows, Inv
  <2>2. Event(q)' = Event(q)
    BY DEF Event
  <2>3. \A i \in 1..Len(plans) : plans'[i].event # event[q]
    BY <1>1, <1>3 DEF Knows, Grows
  <2>4. event[q] \in 1..Len(transitions') /\ transitions'[event[q]] = transitions[event[q]]
    BY <2>1 DEF Grows
  <2>5. QED
    BY <2>1, <2>2, <2>3, <2>4
<1>4. ASSUME stage[q] \in {"market", "signal"}
      PROVE  ApprovedBy(plans[plan[q]].lineage, actor[q])'
  <2>1. ApprovedNext(plans[plan[q]].lineage, actor[q])
    BY <1>1, <1>4, ApprovedStays DEF Knows, Inv
  <2>2. plans'[plan'[q]].lineage = plans[plan[q]].lineage
    BY <1>2, <1>4
  <2>3. QED
    BY <2>1, <2>2 DEF ApprovedBy, ApprovedNext
<1>5. QED
  BY <1>1, <1>2, <1>3, <1>4 DEF Knows

LEMMA IdleKnows ==
  ASSUME NEW q \in Workers, stage'[q] = "idle", event'[q] = 0
  PROVE  Knows(q)'
BY DEF Knows

LEMMA RequestStep == Inv /\ [Next]_vars => RequestOK'
<1> SUFFICES ASSUME Inv, [Next]_vars, NEW q \in Workers PROVE Knows(q)'
  BY DEF RequestOK
<1> USE DEF Inv, TypeOK
<1>0. Grows /\ Knows(q)
  BY TablesGrow DEF RequestOK
<1>1. CASE UNCHANGED <<plans, local>>
  BY <1>0, <1>1, OthersKeep DEF local
<1>2. ASSUME NEW l \in Lineages, NEW x \in Expiries, Draft(l, x) PROVE Knows(q)'
  <2> DEFINE row == [lineage |-> l, expires |-> x, state |-> "draft", event |-> 0]
  <2>1. row \in Plans /\ plans' = Append(plans, row) /\ row.event = 0
    BY <1>2, NewRows DEF Draft
  <2> HIDE DEF row
  <2>2. \A i \in 1..Len(plans') : i \in 1..Len(plans) \/ plans'[i].event = 0
    BY <2>1, Appended
  <2>3. QED
    BY <1>0, <1>2, <2>2, OthersKeep DEF Draft, local
<1>3. ASSUME NEW w \in Workers, NEW a \in Operators, NEW i \in 1..Len(plans),
             NEW t \in PlanStates, BeginTransition(w, a, i, t)
      PROVE  Knows(q)'
  <2>1. CASE q = w
    <3>1. /\ stage'[q] = "event" /\ actor'[q] = a /\ plan'[q] = i /\ target'[q] = t
          /\ event'[q] = 0 /\ UNCHANGED plans /\ t \in Allowed(plans[i].state)
      BY <1>0, <1>3, <2>1 DEF BeginTransition, First, store, Knows
    <3>2. QED
      BY <3>1 DEF Knows
  <2>2. CASE q # w
    BY <1>0, <1>3, <2>2, OthersKeep DEF BeginTransition, store
  <2>3. QED
    BY <2>1, <2>2
<1>4. ASSUME NEW w \in Workers, NEW a \in Operators, NEW i \in 1..Len(plans),
             BeginSignal(w, a, i)
      PROVE  Knows(q)'
  <2>1. CASE q = w
    <3>1. /\ stage'[q] = "approval" /\ actor'[q] = a /\ plan'[q] = i
          /\ event'[q] = 0 /\ UNCHANGED plans
          /\ plans[i].state \in {"plan_ready", "monitoring"}
      BY <1>0, <1>4, <2>1 DEF BeginSignal, store, Knows
    <3>2. QED
      BY <3>1 DEF Knows
  <2>2. CASE q # w
    BY <1>0, <1>4, <2>2, OthersKeep DEF BeginSignal, store
  <2>3. QED
    BY <2>1, <2>2
<1>5. ASSUME NEW w \in Workers, AppendEvent(w) PROVE Knows(q)'
  <2>1. CASE q = w
    <3>1. Event(w) \in Transitions /\ transitions' = Append(transitions, Event(w))
      BY <1>5, NewRows DEF AppendEvent
    <3>2. /\ Len(transitions) \in Nat /\ Len(transitions') = Len(transitions) + 1
          /\ transitions'[Len(transitions) + 1] = Event(w)
      BY <3>1, Appended
    <3>3. /\ stage'[q] = "version" /\ event'[q] = Len(transitions) + 1
          /\ stage[q] = "event" /\ UNCHANGED <<actor, plan, target, plans>>
      BY <1>5, <2>1 DEF AppendEvent
    <3>4. Event(q)' = Event(w)
      BY <2>1, <3>3 DEF Event
    <3>5. \A i \in 1..Len(plans) : plans[i].event # Len(transitions) + 1
      BY <3>2, EventsRecorded
    <3>6. QED
      BY <1>0, <2>1, <3>2, <3>3, <3>4, <3>5 DEF Knows
  <2>2. CASE q # w
    BY <1>0, <1>5, <2>2, OthersKeep DEF AppendEvent
  <2>3. QED
    BY <2>1, <2>2
<1>6. ASSUME NEW w \in Workers, AppendVersion(w) PROVE Knows(q)'
  <2>1. CASE q = w
    BY <1>6, <2>1, IdleKnows DEF AppendVersion, End
  <2>2. CASE q # w
    <3>1. Version(w) \in Plans /\ plans' = Append(plans, Version(w))
      BY <1>6, NewRows DEF AppendVersion
    <3>2. Version(w).event = event[w]
      <4>1. plans[plan[w]] \in Plans
        BY <1>6, RowTypes DEF AppendVersion, RequestOK, Knows
      <4>2. QED
        BY <4>1 DEF Version, Plans
    <3>3. event[q] = 0 \/ event[w] # event[q]
      BY <2>2 DEF Apart
    <3>4. \A i \in 1..Len(plans') :
            i \in 1..Len(plans) \/ event[q] = 0 \/ plans'[i].event # event[q]
      BY <3>1, <3>2, <3>3, Appended
    <3>5. QED
      BY <1>0, <1>6, <2>2, <3>4, OthersKeep DEF AppendVersion, End
  <2>3. QED
    BY <2>1, <2>2
<1>7. ASSUME NEW w \in Workers, Refuse(w) PROVE Knows(q)'
  <2>1. CASE q = w
    BY <1>7, <2>1, IdleKnows DEF Refuse, End
  <2>2. CASE q # w
    BY <1>0, <1>7, <2>2, OthersKeep DEF Refuse, End, store
  <2>3. QED
    BY <2>1, <2>2
<1>8. ASSUME NEW w \in Workers, stage[w] = "approval", Continue(w, "market"),
             NEW e \in History(transitions), Approves(e, w)
      PROVE  Knows(q)'
  <2>1. CASE q = w
    <3>1. e \in 1..Len(transitions) /\ transitions[e].to = "plan_ready"
      BY <1>8 DEF History, Approves
    <3>2. ApprovedBy(plans[plan[w]].lineage, actor[w])
      BY <1>8, <3>1, ApprovalRests DEF Approves
    <3>3. stage'[q] = "market" /\ UNCHANGED <<plans, transitions, actor, plan, target, event>>
      BY <1>8, <2>1 DEF Continue, store
    <3>4. QED
      BY <1>0, <1>8, <2>1, <3>2, <3>3 DEF Knows, ApprovedBy
  <2>2. CASE q # w
    BY <1>0, <1>8, <2>2, OthersKeep DEF Continue, store
  <2>3. QED
    BY <2>1, <2>2
<1>9. ASSUME NEW w \in Workers, stage[w] = "market", Continue(w, "signal"),
             plans[plan[w]].lineage \in Selected
      PROVE  Knows(q)'
  <2>1. CASE q = w
    <3>1. stage'[q] = "signal" /\ UNCHANGED <<plans, transitions, actor, plan, target, event>>
      BY <1>9, <2>1 DEF Continue, store
    <3>2. QED
      BY <1>0, <1>9, <2>1, <3>1 DEF Knows, ApprovedBy
  <2>2. CASE q # w
    BY <1>0, <1>9, <2>2, OthersKeep DEF Continue, store
  <2>3. QED
    BY <2>1, <2>2
<1>10. ASSUME NEW w \in Workers, AppendSignal(w) \/ Die(w) PROVE Knows(q)'
  <2>1. CASE q = w
    BY <1>10, <2>1, IdleKnows DEF AppendSignal, Die, End
  <2>2. CASE q # w
    BY <1>0, <1>10, <2>2, OthersKeep DEF AppendSignal, Die, End, store
  <2>3. QED
    BY <2>1, <2>2
<1>11. QED
  BY <1>1, <1>2, <1>3, <1>4, <1>5, <1>6, <1>7, <1>8, <1>9, <1>10
     DEF Next, Create, CreateTradePlan, AnalyseNewsEvent, Ask, CheckApproval, CheckMarket,
         Tick, vars, store

-----------------------------------------------------------------------------

LEMMA ApartStep == Inv /\ [Next]_vars => Apart'
<1> SUFFICES ASSUME Inv, [Next]_vars, NEW u \in Workers, NEW v \in Workers, u # v,
                    event'[u] = event'[v]
             PROVE  event'[u] = 0
  BY DEF Apart
<1> USE DEF Inv, TypeOK
<1>0. event[u] = event[v] => event[u] = 0
  BY DEF Apart
<1>1. ASSUME NEW w \in Workers, AppendEvent(w) PROVE event'[u] = 0
  <2>1. ASSUME NEW x \in Workers PROVE event[x] # Len(transitions) + 1
    <3>1. Knows(x)
      BY DEF RequestOK
    <3>2. event[x] = 0 \/ event[x] \in 1..Len(transitions)
      BY <3>1 DEF Knows
    <3>3. Len(transitions) \in Nat
      BY RowTypes
    <3>4. QED
      BY <3>2, <3>3
  <2>2. QED
    BY <1>0, <1>1, <2>1 DEF AppendEvent
<1>2. ASSUME NEW w \in Workers, End(w) PROVE event'[u] = 0
  BY <1>0, <1>2 DEF End
<1>3. CASE UNCHANGED event
  BY <1>0, <1>3
<1>4. QED
  BY <1>1, <1>2, <1>3
     DEF Next, Create, CreateTradePlan, AnalyseNewsEvent, Draft, Ask, BeginTransition,
         BeginSignal, AppendVersion, CheckApproval, CheckMarket, Continue, Refuse,
         AppendSignal, Die, Tick, vars, local

\* What a request that appends a row knows of it.
LEMMA VersionRow ==
  ASSUME Inv, NEW w \in Workers, stage[w] = "version"
  PROVE  /\ Version(w) \in Plans
         /\ Version(w).event = event[w] /\ Version(w).state = target[w]
         /\ Version(w).lineage = plans[plan[w]].lineage
         /\ target[w] # "draft" /\ target[w] \in Allowed(plans[plan[w]].state)
         /\ plan[w] \in 1..Len(plans)
         /\ event[w] \in 1..Len(transitions)
         /\ transitions[event[w]].to = target[w] /\ transitions[event[w]].of = plan[w]
         /\ \A i \in 1..Len(plans) : plans[i].event # event[w]
<1>1. Knows(w)
  BY DEF Inv, RequestOK
<1>2. plan[w] \in 1..Len(plans) /\ plans[plan[w]] \in Plans
  BY <1>1, RowTypes DEF Knows, Inv
<1>3. Version(w) \in Plans
  BY NewRows DEF Inv
<1>4. /\ Version(w).event = event[w] /\ Version(w).state = target[w]
      /\ Version(w).lineage = plans[plan[w]].lineage
  BY <1>2 DEF Version, Plans
<1>5. target[w] # "draft" /\ target[w] \in Allowed(plans[plan[w]].state)
  BY <1>1, <1>2, Lifecycle DEF Knows, Plans
<1>6. /\ event[w] \in 1..Len(transitions)
      /\ transitions[event[w]].to = target[w] /\ transitions[event[w]].of = plan[w]
      /\ \A i \in 1..Len(plans) : plans[i].event # event[w]
  BY <1>1 DEF Knows, Event
<1>7. QED
  BY <1>2, <1>3, <1>4, <1>5, <1>6

\* The tables only change by one of these.
Changes ==
  \/ UNCHANGED <<plans, transitions>>
  \/ \E l \in Lineages, x \in Expiries : Draft(l, x)
  \/ \E w \in Workers : AppendEvent(w) \/ AppendVersion(w)

LEMMA StepChanges == [Next]_vars => Changes
BY DEF Changes, Next, Create, CreateTradePlan, AnalyseNewsEvent, Ask, BeginTransition,
       BeginSignal, CheckApproval, CheckMarket, Continue, Refuse, AppendSignal, Die, Tick,
       vars, store

LEMMA TransitionsStep == Inv /\ [Next]_vars => TransitionsOK'
<1> SUFFICES ASSUME Inv, [Next]_vars, NEW e \in 1..Len(transitions')
             PROVE  /\ transitions'[e].of \in 1..Len(plans')
                    /\ transitions'[e].to \in Allowed(plans'[transitions'[e].of].state)
                    /\ plans'[transitions'[e].of].event < e
  BY DEF TransitionsOK, Allowed
<1> USE DEF Inv
<1>1. Grows /\ Changes
  BY TablesGrow, StepChanges
<1>2. CASE e \in 1..Len(transitions)
  BY <1>1, <1>2 DEF Grows, TransitionsOK
<1>3. CASE e \notin 1..Len(transitions)
  <2>1. PICK w \in Workers : AppendEvent(w)
    BY <1>1, <1>3 DEF Changes, Draft, AppendVersion
  <2>2. Event(w) \in Transitions /\ transitions' = Append(transitions, Event(w))
    BY <2>1, NewRows DEF AppendEvent
  <2>3. e = Len(transitions) + 1 /\ transitions'[e] = Event(w)
    <3>1. transitions \in Seq(Transitions)
      BY DEF TypeOK
    <3>2. /\ transitions'[Len(transitions) + 1] = Event(w)
          /\ \A d \in 1..Len(transitions') : d \in 1..Len(transitions) \/ d = Len(transitions) + 1
      BY <2>2, <3>1, Appended
    <3>3. QED
      BY <1>3, <3>2
  <2>4. plan[w] \in 1..Len(plans) /\ target[w] \in Allowed(plans[plan[w]].state)
    BY <2>1 DEF AppendEvent, RequestOK, Knows
  <2>5. plans[plan[w]].event < e
    BY <2>3, <2>4, EventsRecorded, RowTypes
  <2>6. UNCHANGED plans
    BY <2>1 DEF AppendEvent
  <2>7. QED
    BY <2>3, <2>4, <2>5, <2>6 DEF Event
<1>4. QED
  BY <1>2, <1>3

\* A row that was not there is a draft, or the one of a request.
LEMMA NewRow ==
  ASSUME Inv, [Next]_vars, NEW i \in 1..Len(plans'), i \notin 1..Len(plans)
  PROVE  /\ i = Len(plans) + 1
         /\ UNCHANGED transitions
         /\ \/ plans'[i].state = "draft" /\ plans'[i].event = 0
            \/ \E w \in Workers : stage[w] = "version" /\ plans'[i] = Version(w)
<1> USE DEF Inv, TypeOK
<1>1. ASSUME NEW row \in Plans, plans' = Append(plans, row)
      PROVE  i = Len(plans) + 1 /\ plans'[i] = row
  BY <1>1, Appended
<1>2. CASE \E l \in Lineages, x \in Expiries : Draft(l, x)
  <2>1. PICK l \in Lineages, x \in Expiries : Draft(l, x)
    BY <1>2
  <2> DEFINE row == [lineage |-> l, expires |-> x, state |-> "draft", event |-> 0]
  <2>2. /\ row \in Plans /\ plans' = Append(plans, row) /\ UNCHANGED transitions
        /\ row.state = "draft" /\ row.event = 0
    BY <2>1, NewRows DEF Draft
  <2> HIDE DEF row
  <2>3. QED
    BY <1>1, <2>2
<1>3. ASSUME NEW w \in Workers, AppendVersion(w)
      PROVE  /\ i = Len(plans) + 1 /\ UNCHANGED transitions
             /\ stage[w] = "version" /\ plans'[i] = Version(w)
  BY <1>1, <1>3, NewRows DEF AppendVersion
<1>4. ~ UNCHANGED plans
  OBVIOUS
<1>5. QED
  BY <1>2, <1>3, <1>4, StepChanges DEF Changes, AppendEvent

LEMMA VersionsStep == Inv /\ [Next]_vars => DraftsOK' /\ EveryVersionRecorded'
<1> SUFFICES ASSUME Inv, [Next]_vars PROVE DraftsOK' /\ EveryVersionRecorded'
  OBVIOUS
<1> USE DEF Inv
<1>1. Grows
  BY TablesGrow
<1>2. ASSUME NEW i \in 1..Len(plans'), plans'[i].state = "draft" PROVE plans'[i].event = 0
  <2>1. CASE i \in 1..Len(plans)
    BY <1>1, <1>2, <2>1 DEF Grows, DraftsOK
  <2>2. CASE i \notin 1..Len(plans)
    BY <1>2, <2>2, NewRow, VersionRow
  <2>3. QED
    BY <2>1, <2>2
<1>3. ASSUME NEW i \in 1..Len(plans'), plans'[i].state # "draft"
      PROVE  /\ plans'[i].event \in 1..Len(transitions')
             /\ transitions'[plans'[i].event].to = plans'[i].state
             /\ transitions'[plans'[i].event].of \in 1..(i - 1)
             /\ transitions'[plans'[i].event].to
                  \in Allowed(plans'[transitions'[plans'[i].event].of].state)
             /\ plans'[transitions'[plans'[i].event].of].lineage = plans'[i].lineage
  <2>1. CASE i \in 1..Len(plans)
    <3> DEFINE e == plans[i].event
               j == transitions[e].of
    <3>1. /\ e \in 1..Len(transitions) /\ transitions[e].to = plans[i].state
          /\ j \in 1..(i - 1) /\ transitions[e].to \in Allowed(plans[j].state)
          /\ plans[j].lineage = plans[i].lineage
      BY <1>1, <1>3, <2>1 DEF Grows, EveryVersionRecorded
    <3>2. j \in 1..Len(plans)
      BY <2>1, <3>1, RowTypes
    <3>3. plans'[i] = plans[i] /\ transitions'[e] = transitions[e] /\ plans'[j] = plans[j]
          /\ e \in 1..Len(transitions')
      BY <1>1, <2>1, <3>1, <3>2 DEF Grows
    <3>4. QED
      BY <3>1, <3>3
  <2>2. CASE i \notin 1..Len(plans)
    <3>1. PICK w \in Workers : stage[w] = "version" /\ plans'[i] = Version(w)
      BY <1>3, <2>2, NewRow
    <3>2. UNCHANGED transitions /\ i = Len(plans) + 1
      BY <2>2, NewRow
    <3>3. plan[w] \in 1..Len(plans) /\ plans'[plan[w]] = plans[plan[w]]
      BY <1>1, <3>1, VersionRow DEF Grows
    <3>4. plan[w] \in 1..(i - 1)
      BY <3>2, <3>3, RowTypes
    <3>5. QED
      BY <3>1, <3>2, <3>3, <3>4, VersionRow
  <2>3. QED
    BY <2>1, <2>2
<1>4. ASSUME NEW i \in 1..Len(plans'), NEW j \in 1..Len(plans'),
             plans'[i].event = plans'[j].event, plans'[i].event # 0
      PROVE  i = j
  <2>1. CASE i \in 1..Len(plans) /\ j \in 1..Len(plans)
    BY <1>1, <1>4, <2>1 DEF Grows, EveryVersionRecorded
  <2>2. CASE i \notin 1..Len(plans) /\ j \notin 1..Len(plans)
    BY <2>2, NewRow
  <2>3. ASSUME NEW m \in 1..Len(plans'), m \notin 1..Len(plans), plans'[m].event # 0,
               NEW k \in 1..Len(plans)
        PROVE  plans'[k].event # plans'[m].event
    <3>1. PICK w \in Workers : stage[w] = "version" /\ plans'[m] = Version(w)
      BY <2>3, NewRow
    <3>2. plans'[k] = plans[k]
      BY <1>1 DEF Grows
    <3>3. QED
      BY <3>1, <3>2, VersionRow
  <2>4. QED
    BY <1>4, <2>1, <2>2, <2>3
<1>5. DraftsOK'
  BY <1>2 DEF DraftsOK
<1>6. EveryVersionRecorded'
  BY <1>3, <1>4 DEF EveryVersionRecorded, Allowed
<1>7. QED
  BY <1>5, <1>6

-----------------------------------------------------------------------------

\* A step after which nothing else is stray keeps the count.
LEMMA NoFurtherStray ==
  ASSUME StrayCounted, Stray' \subseteq Stray, deaths \in Nat, deaths' = deaths
  PROVE  StrayCounted'
<1>1. IsFiniteSet(Stray') /\ Cardinality(Stray') <= Cardinality(Stray)
  BY FS_Subset DEF StrayCounted
<1>2. Cardinality(Stray) \in Nat /\ Cardinality(Stray') \in Nat
  BY <1>1, FS_CardinalityType DEF StrayCounted
<1>3. QED
  BY <1>1, <1>2 DEF StrayCounted, StrayPerDeath

\* One element more counts one more at most.
LEMMA OneMore ==
  ASSUME NEW S, IsFiniteSet(S), NEW x
  PROVE  /\ IsFiniteSet(S \cup {x})
         /\ Cardinality(S \cup {x}) <= Cardinality(S) + 1
         /\ Cardinality(S) \in Nat
<1>1. Cardinality(S) \in Nat
  BY FS_CardinalityType
<1>2. IsFiniteSet(S \cup {x})
  BY FS_AddElement
<1>3. CASE x \in S
  <2>1. Cardinality(S \cup {x}) = Cardinality(S)
    BY <1>3, FS_AddElement
  <2>2. QED
    BY <1>1, <1>2, <2>1
<1>4. CASE x \notin S
  <2>1. Cardinality(S \cup {x}) = Cardinality(S) + 1
    BY <1>4, FS_AddElement
  <2>2. QED
    BY <1>1, <1>2, <2>1
<1>5. QED
  BY <1>3, <1>4

LEMMA StrayStep == Inv /\ [Next]_vars => StrayCounted'
<1> SUFFICES ASSUME Inv, [Next]_vars PROVE StrayCounted'
  OBVIOUS
<1> USE DEF Inv, TypeOK
<1>0. Grows
  BY TablesGrow
<1>1. CASE UNCHANGED <<transitions, event, deaths>>
  <2>1. Stray' \subseteq Stray
    BY <1>0, <1>1 DEF Stray, Grows
  <2>2. QED
    BY <1>1, <2>1, NoFurtherStray
<1>2. ASSUME NEW w \in Workers, AppendEvent(w) PROVE StrayCounted'
  <2>1. event[w] = 0 /\ Event(w) \in Transitions
    BY <1>2, NewRows DEF AppendEvent, RequestOK, Knows
  <2>2. \A e \in 1..Len(transitions') :
          e \in 1..Len(transitions) \/ e = Len(transitions) + 1
    BY <1>2, <2>1, Appended DEF AppendEvent
  <2>3. event' = [event EXCEPT ![w] = Len(transitions) + 1] /\ UNCHANGED <<plans, deaths>>
    BY <1>2 DEF AppendEvent
  <2>4. \A e \in 1..Len(transitions) : event[w] # e
    BY <2>1
  <2>5. Stray' \subseteq Stray
    BY <2>2, <2>3, <2>4 DEF Stray
  <2>6. QED
    BY <2>3, <2>5, NoFurtherStray
<1>3. ASSUME NEW w \in Workers, AppendVersion(w) PROVE StrayCounted'
  <2>1. Version(w) \in Plans /\ Version(w).event = event[w]
    BY <1>3, VersionRow DEF AppendVersion
  <2>2. Len(plans) + 1 \in 1..Len(plans') /\ plans'[Len(plans) + 1].event = event[w]
    <3>1. plans' = Append(plans, Version(w))
      BY <1>3 DEF AppendVersion
    <3>2. /\ Len(plans) \in Nat /\ Len(plans') = Len(plans) + 1
          /\ plans'[Len(plans) + 1] = Version(w)
      BY <2>1, <3>1, Appended
    <3>3. QED
      BY <2>1, <3>2
  <2>3. event' = [event EXCEPT ![w] = 0] /\ UNCHANGED <<transitions, deaths>>
    BY <1>3 DEF AppendVersion, End
  <2>4. Stray' \subseteq Stray
    <3>1. SUFFICES ASSUME NEW e \in Stray' PROVE e \in Stray
      OBVIOUS
    <3>2. /\ e \in 1..Len(transitions)
          /\ \A i \in 1..Len(plans') : plans'[i].event # e
          /\ \A v \in Workers : event'[v] # e
      BY <2>3 DEF Stray
    <3>3. \A i \in 1..Len(plans) : plans[i].event # e
      BY <1>0, <3>2 DEF Grows
    <3>4. \A v \in Workers : event[v] # e
      BY <2>2, <2>3, <3>2
    <3>5. QED
      BY <3>2, <3>3, <3>4 DEF Stray
  <2>5. QED
    BY <2>3, <2>4, NoFurtherStray
<1>4. ASSUME NEW w \in Workers, stage[w] # "version", End(w), UNCHANGED <<plans, transitions, deaths>>
      PROVE  StrayCounted'
  <2>1. event[w] = 0 /\ event' = [event EXCEPT ![w] = 0]
    BY <1>4 DEF RequestOK, Knows, End
  <2>2. event' = event
    BY <2>1
  <2>3. QED
    BY <1>1, <1>4, <2>2
<1>5. ASSUME NEW w \in Workers, Die(w) PROVE StrayCounted'
  <2>1. event' = [event EXCEPT ![w] = 0] /\ UNCHANGED <<plans, transitions>> /\ deaths' = deaths + 1
    BY <1>5 DEF Die, End, store
  <2>2. Stray' \subseteq Stray \cup {event[w]}
    BY <2>1 DEF Stray
  <2>3. /\ IsFiniteSet(Stray \cup {event[w]})
        /\ Cardinality(Stray \cup {event[w]}) <= Cardinality(Stray) + 1
        /\ Cardinality(Stray) \in Nat
    <3>1. IsFiniteSet(Stray)
      BY DEF StrayCounted
    <3>2. QED
      BY <3>1, OneMore
  <2>4. /\ IsFiniteSet(Stray')
        /\ Cardinality(Stray') <= Cardinality(Stray \cup {event[w]})
        /\ Cardinality(Stray') \in Nat /\ Cardinality(Stray \cup {event[w]}) \in Nat
    BY <2>2, <2>3, FS_Subset, FS_CardinalityType
  <2>5. QED
    BY <2>1, <2>3, <2>4 DEF StrayCounted, StrayPerDeath
<1>6. QED
  BY <1>1, <1>2, <1>3, <1>4, <1>5
     DEF Next, Create, CreateTradePlan, AnalyseNewsEvent, Draft, Ask, BeginTransition,
         BeginSignal, CheckApproval, CheckMarket, Continue, Refuse, AppendSignal, Tick,
         vars, store, local

LEMMA SignalStep == Inv /\ [Next]_vars => SignalRestsOnApproval'
<1> SUFFICES ASSUME Inv, [Next]_vars, NEW s \in 1..Len(signals')
             PROVE  /\ signals'[s].of \in 1..Len(plans')
                    /\ plans'[signals'[s].of].state \in {"plan_ready", "monitoring"}
                    /\ plans'[signals'[s].of].lineage \in Selected
                    /\ ApprovedNext(plans'[signals'[s].of].lineage, signals'[s].actor)
  BY DEF SignalRestsOnApproval, ApprovedBy, ApprovedNext
<1> USE DEF Inv, TypeOK
<1>0. Grows
  BY TablesGrow
<1>1. ASSUME NEW i \in 1..Len(plans), NEW a, signals'[s].of = i, signals'[s].actor = a,
             plans[i].state \in {"plan_ready", "monitoring"},
             plans[i].lineage \in Selected, ApprovedBy(plans[i].lineage, a)
      PROVE  /\ signals'[s].of \in 1..Len(plans')
             /\ plans'[signals'[s].of].state \in {"plan_ready", "monitoring"}
             /\ plans'[signals'[s].of].lineage \in Selected
             /\ ApprovedNext(plans'[signals'[s].of].lineage, signals'[s].actor)
  <2>1. i \in 1..Len(plans') /\ plans'[i] = plans[i]
    BY <1>0 DEF Grows
  <2>2. ApprovedNext(plans[i].lineage, a)
    BY <1>0, <1>1, ApprovedStays
  <2>3. QED
    BY <1>1, <2>1, <2>2
<1>2. CASE UNCHANGED signals
  BY <1>1, <1>2 DEF SignalRestsOnApproval
<1>3. ASSUME NEW w \in Workers, AppendSignal(w)
      PROVE  /\ signals'[s].of \in 1..Len(plans')
             /\ plans'[signals'[s].of].state \in {"plan_ready", "monitoring"}
             /\ plans'[signals'[s].of].lineage \in Selected
             /\ ApprovedNext(plans'[signals'[s].of].lineage, signals'[s].actor)
  <2> DEFINE row == [of |-> plan[w], actor |-> actor[w]]
  <2>1. /\ row \in Signals /\ signals' = Append(signals, row)
        /\ row.of = plan[w] /\ row.actor = actor[w]
    BY <1>3, NewRows DEF AppendSignal
  <2> HIDE DEF row
  <2>2. /\ \A r \in 1..Len(signals) : signals'[r] = signals[r]
        /\ signals'[Len(signals) + 1] = row
        /\ s \in 1..Len(signals) \/ s = Len(signals) + 1
    BY <2>1, Appended
  <2>3. CASE s \in 1..Len(signals)
    BY <1>1, <2>2, <2>3 DEF SignalRestsOnApproval
  <2>4. CASE s = Len(signals) + 1
    <3>1. stage[w] = "signal" /\ Knows(w)
      BY <1>3 DEF AppendSignal, RequestOK
    <3>2. QED
      BY <1>1, <2>1, <2>2, <2>4, <3>1 DEF Knows
  <2>5. QED
    BY <2>2, <2>3, <2>4
<1>4. QED
  BY <1>2, <1>3
     DEF Next, Create, CreateTradePlan, AnalyseNewsEvent, Draft, Ask, BeginTransition,
         BeginSignal, AppendEvent, AppendVersion, CheckApproval, CheckMarket, Continue,
         Refuse, Die, Tick, vars, store

LEMMA InvStep == Inv /\ [Next]_vars => Inv'
BY TypeStep, RequestStep, ApartStep, TransitionsStep, VersionsStep, StrayStep, SignalStep DEF Inv

THEOREM Invariance == Spec => []Inv
<1>1. QED
  BY InitInv, InvStep, PTL DEF Spec

-----------------------------------------------------------------------------

\* Every variable of plans and signals keeps to its type.
THEOREM TypeCorrect == Spec => []TypeOK
<1>1. Inv => TypeOK
  BY DEF Inv
<1>2. QED
  BY <1>1, Invariance, PTL

\* Every state of a plan has its transition on record, whatever requests overlap.
THEOREM VersionsAreRecorded == Spec => []EveryVersionRecorded
<1>1. Inv => EveryVersionRecorded
  BY DEF Inv
<1>2. QED
  BY <1>1, Invariance, PTL

\* Transitions that no row follows are no more than the deaths.
THEOREM StraysAreDeaths == Spec => []StrayPerDeath
<1>1. Inv => StrayPerDeath
  BY DEF Inv, StrayCounted
<1>2. QED
  BY <1>1, Invariance, PTL

\* A signal rests on a confirmation and then an approval by its own actor.
THEOREM SignalsRestOnApproval == Spec => []SignalRestsOnApproval
<1>1. Inv => SignalRestsOnApproval
  BY DEF Inv
<1>2. QED
  BY <1>1, Invariance, PTL
=============================================================================
