------------------------------- MODULE Outcomes -------------------------------
(***************************************************************************)
(* What became of the signals: process_due_outcomes and                    *)
(* aggregate_strategy_performance of src/lmio/service.py, with             *)
(* evaluate_timed_horizon of src/lmio/outcomes.py.                         *)
(*                                                                         *)
(* The pipeline, the after-close job and the operator's refresh all call   *)
(* process_due_outcomes, at any time.  A call reads signals, outcomes and  *)
(* snapshots, the newest rows of each, and then appends a row for every    *)
(* horizon whose status is another than the one it read.  A caller is one  *)
(* call at a time, a step one operation of the store.                      *)
(*                                                                         *)
(* Time is an hour of New York, counted from a Monday at 0:00.  There is   *)
(* one symbol of interest; rows of snapshots of other symbols only take    *)
(* their place among the newest.  Prices, returns and benchmarks are left  *)
(* out: a price is positive or it is not.                                  *)
(*                                                                         *)
(* Definitions named Faulty... are plausible mistakes in the one that      *)
(* follows them.  No specification uses them: they show what the           *)
(* properties catch.                                                       *)
(***************************************************************************)
EXTENDS Ordering

CONSTANTS
  Callers,         \* calls of process_due_outcomes
  SignalIds,       \* signal_id: made of plan and snapshot, so a repeated request has the same
  Horizons,        \* the horizons looked at, of the five there are
  SignalLimit,     \* rows of signals a call reads
  SnapshotLimit,   \* rows of provider_snapshots
  OutcomeLimit,    \* rows of signal_outcomes
  Hours,           \* bound: the times the clock shows
  MaxSignalRows,   \* bound: rows of signals
  MaxSnapshots,    \* bound: rows of provider_snapshots
  MaxCalls,        \* bound: calls that begin
  MaxLost          \* bound: calls that die

ASSUME OutcomesAssumption ==
  /\ Horizons \subseteq {"1h", "close", "1d", "5d", "20d"}
  /\ Hours \subseteq Nat
  /\ Hours # {}
  /\ {SignalLimit, SnapshotLimit, OutcomeLimit} \subseteq Nat
  /\ {MaxSignalRows, MaxSnapshots, MaxCalls, MaxLost} \subseteq Nat

\* The horizons in the order of _outcome_due_times.
HorizonOrder == <<"1h", "close", "1d", "5d", "20d">>
HorizonNumber(horizon) == CHOOSE i \in 1..5 : HorizonOrder[i] = horizon

-----------------------------------------------------------------------------
(* When a horizon is due.                                                  *)

TradingDay(day) == day % 7 < 5

CloseOf(day) == 24 * day + 16

\* The close of the n-th trading day after the day of t: five weekdays a week.
NextClose(t, n) ==
  LET after(day) == {d \in (t \div 24 + 1)..day : TradingDay(d)}
      days == {d \in (t \div 24 + 1)..(t \div 24 + 2 * n + 2) :
                 TradingDay(d) /\ Cardinality(after(d)) = n}
  IN  CloseOf(CHOOSE d \in days : TRUE)

Due(horizon, t) ==
  CASE horizon = "1h" -> t + 1
    [] horizon = "close" ->
         IF TradingDay(t \div 24) /\ CloseOf(t \div 24) > t
         THEN CloseOf(t \div 24) ELSE NextClose(t, 1)
    [] horizon = "1d" -> NextClose(t, 1)
    [] horizon = "5d" -> NextClose(t, 5)
    [] horizon = "20d" -> NextClose(t, 20)

-----------------------------------------------------------------------------

VARIABLES
  hour,         \* the time
  signalRows,   \* signals: signal_id and created_at
  snapshots,    \* provider_snapshots: symbol, observed_at, price
  outcomes,     \* signal_outcomes; of each row also, as history, which of the rows of
                \* signals its call had read it is of, and the outcomes the call had seen
  writers,      \* history: the number of the call that appended each of them
  performance,  \* strategy_performance: horizon, sample_count and, as history, the rows counted
  phase,        \* what each call does next
  number,       \* history: the number of a call
  asOf,         \* the time it began at
  asked,        \* the rows of signals it has read
  known,        \* the length of signal_outcomes when it read that
  pending,      \* the rows it has still to append
  calls,        \* calls that began
  lost          \* history: calls that died

outcomeTables == <<signalRows, snapshots, outcomes, writers, performance>>
callState == <<phase, number, asOf, asked, known, pending>>
outcomeVars == <<hour, outcomeTables, callState, calls, lost>>

Statuses == {"completed", "not_due", "unavailable", "failed"}

SignalRow == [id : SignalIds, at : Nat]
SnapshotRow == [own : BOOLEAN, at : Nat, positive : BOOLEAN]
OutcomeRow == [id : SignalIds, horizon : Horizons, status : Statuses, row : Nat, seen : Nat]
SummaryRow == [horizon : Horizons, samples : Nat, of : SUBSET Nat]

OutcomesTypeOK ==
  /\ hour \in Hours
  /\ signalRows \in Seq(SignalRow)
  /\ snapshots \in Seq(SnapshotRow)
  /\ outcomes \in Seq(OutcomeRow)
  /\ writers \in Seq(Nat)
  /\ performance \in Seq(SummaryRow)
  /\ phase \in [Callers -> {"idle", "outcomes", "snapshots", "append"}]
  /\ number \in [Callers -> Nat]
  /\ asOf \in [Callers -> Nat]
  /\ asked \in [Callers -> Seq(SignalRow)]
  /\ known \in [Callers -> Nat]
  /\ pending \in [Callers -> Seq(OutcomeRow)]
  /\ calls \in Nat
  /\ lost \in Nat

OutcomesInit ==
  /\ hour \in {h \in Hours : \A other \in Hours : h <= other}
  /\ signalRows = <<>>
  /\ snapshots = <<>>
  /\ outcomes = <<>>
  /\ writers = <<>>
  /\ performance = <<>>
  /\ phase = [c \in Callers |-> "idle"]
  /\ number = [c \in Callers |-> 0]
  /\ asOf = [c \in Callers |-> 0]
  /\ asked = [c \in Callers |-> <<>>]
  /\ known = [c \in Callers |-> 0]
  /\ pending = [c \in Callers |-> <<>>]
  /\ calls = 0
  /\ lost = 0

-----------------------------------------------------------------------------
(* The environment: time, signals and snapshots.                           *)

ClockMoves ==
  /\ \E h \in Hours : h > hour /\ hour' = h
  /\ UNCHANGED <<outcomeTables, callState, calls, lost>>

\* A signal is created.  A request that is sent again for the plan and the
\* snapshot of the last signal makes a second row of its signal_id.
CreateSignal(id) ==
  /\ Len(signalRows) < MaxSignalRows
  /\ \A i \in 1..Len(signalRows) : signalRows[i].id = id => i = Len(signalRows)
  /\ signalRows' = Append(signalRows, [id |-> id, at |-> hour])
  /\ UNCHANGED <<hour, snapshots, outcomes, writers, performance, callState, calls, lost>>

\* A snapshot is stored: of the symbol or of another, observed now.
StoreSnapshot(own, positive) ==
  /\ Len(snapshots) < MaxSnapshots
  /\ own \/ positive
  /\ snapshots' = Append(snapshots, [own |-> own, at |-> hour, positive |-> positive])
  /\ UNCHANGED <<hour, signalRows, outcomes, writers, performance, callState, calls, lost>>

-----------------------------------------------------------------------------
(* The status of a horizon.                                                *)

\* The newest rows of a table, the newest last.
NewestOf(table, limit) ==
  SubSeq(table, (IF Len(table) > limit THEN Len(table) - limit ELSE 0) + 1, Len(table))

\* The rows of a signal and horizon among the newest of the first n outcomes.
KnownRows(id, horizon, n) ==
  {i \in 1..n : /\ i > n - OutcomeLimit
                /\ outcomes[i].id = id
                /\ outcomes[i].horizon = horizon}

\* The status of the newest of them, "none" without one.
LatestStatus(id, horizon, n) ==
  LET rows == KnownRows(id, horizon, n) IN
  IF rows = {} THEN "none" ELSE outcomes[CHOOSE i \in rows : \A j \in rows : j <= i].status

\* evaluate_timed_horizon: the terminal price is the first at or after the
\* due time, and of prices of one time the newest row's.
Evaluation(horizon, at, current, prices) ==
  LET due == Due(horizon, at)
      late == {i \in 1..Len(prices) : prices[i].own /\ prices[i].at >= due}
      terminal == CHOOSE i \in late : \A j \in late :
                    prices[i].at < prices[j].at \/ (prices[i].at = prices[j].at /\ j <= i)
      path == {i \in 1..Len(prices) : prices[i].own /\ at < prices[i].at /\ prices[i].at <= due}
  IN  IF current < due THEN "not_due"
      ELSE IF late = {} THEN "unavailable"
      ELSE IF \E i \in path \cup {terminal} : ~prices[i].positive THEN "failed"
      ELSE "completed"

FaultySettled(status) == FALSE   \* every horizon is evaluated anew

Settled(status) == status = "completed"

\* The row a call appends for a row of signals and a horizon, p.
RowOf(p, rows, current, n, prices) ==
  [id |-> rows[p[1]].id, horizon |-> p[2], row |-> p[1], seen |-> n,
   status |-> Evaluation(p[2], rows[p[1]].at, current, prices)]

\* The horizons whose status has changed since it was last appended.
ChangedOf(rows, current, n, prices) ==
  {p \in (1..Len(rows)) \X Horizons :
     LET latest == LatestStatus(rows[p[1]].id, p[2], n)
     IN  ~Settled(latest) /\ latest # RowOf(p, rows, current, n, prices).status}

\* The rows of signals are gone through from the newest, of each the horizons
\* in their order.
AppendOrder(pairs) ==
  {q \in pairs \X pairs :
     \/ q[1][1] > q[2][1]
     \/ q[1][1] = q[2][1] /\ HorizonNumber(q[1][2]) < HorizonNumber(q[2][2])}

\* The rows a call appends: they do not change what it has read of the outcomes.
AllRows(rows, current, n, prices) ==
  LET changed == ChangedOf(rows, current, n, prices)
      order == InOrder(changed, AppendOrder(changed))
  IN  [i \in 1..Len(order) |-> RowOf(order[i], rows, current, n, prices)]

-----------------------------------------------------------------------------
(* process_due_outcomes.                                                   *)

EndCall(c) ==
  /\ phase' = [phase EXCEPT ![c] = "idle"]
  /\ number' = [number EXCEPT ![c] = 0]
  /\ asOf' = [asOf EXCEPT ![c] = 0]
  /\ asked' = [asked EXCEPT ![c] = <<>>]
  /\ known' = [known EXCEPT ![c] = 0]
  /\ pending' = [pending EXCEPT ![c] = <<>>]

BeginCall(c) ==
  /\ phase[c] = "idle"
  /\ calls < MaxCalls
  /\ calls' = calls + 1
  /\ number' = [number EXCEPT ![c] = calls + 1]
  /\ asOf' = [asOf EXCEPT ![c] = hour]
  /\ asked' = [asked EXCEPT ![c] = NewestOf(signalRows, SignalLimit)]
  /\ phase' = [phase EXCEPT ![c] = "outcomes"]
  /\ UNCHANGED <<hour, outcomeTables, known, pending, lost>>

ReadOutcomes(c) ==
  /\ phase[c] = "outcomes"
  /\ known' = [known EXCEPT ![c] = Len(outcomes)]
  /\ phase' = [phase EXCEPT ![c] = "snapshots"]
  /\ UNCHANGED <<hour, outcomeTables, number, asOf, asked, pending, calls, lost>>

\* The snapshots are the last the call reads: what it appends is then settled.
ReadSnapshots(c) ==
  LET rows == AllRows(asked[c], asOf[c], known[c], NewestOf(snapshots, SnapshotLimit)) IN
  /\ phase[c] = "snapshots"
  /\ \/ rows = <<>> /\ EndCall(c)
     \/ /\ rows # <<>>
        /\ pending' = [pending EXCEPT ![c] = rows]
        /\ phase' = [phase EXCEPT ![c] = "append"]
        /\ UNCHANGED <<number, asOf, asked, known>>
  /\ UNCHANGED <<hour, outcomeTables, calls, lost>>

AppendOutcome(c) ==
  /\ phase[c] = "append"
  /\ outcomes' = Append(outcomes, Head(pending[c]))
  /\ writers' = Append(writers, number[c])
  /\ \/ Len(pending[c]) = 1 /\ EndCall(c)
     \/ /\ Len(pending[c]) > 1
        /\ pending' = [pending EXCEPT ![c] = Tail(@)]
        /\ UNCHANGED <<phase, number, asOf, asked, known>>
  /\ UNCHANGED <<hour, signalRows, snapshots, performance, calls, lost>>

\* The process dies, or an operation of the store raises.
LoseCall(c) ==
  /\ phase[c] # "idle"
  /\ lost < MaxLost
  /\ lost' = lost + 1
  /\ EndCall(c)
  /\ UNCHANGED <<hour, outcomeTables, calls>>

FaultyEligible(n) == {i \in 1..n : i > n - OutcomeLimit}   \* of whatever status

\* The completed rows among the newest: what performance is counted of.
Eligible(n) == {i \in 1..n : i > n - OutcomeLimit /\ outcomes[i].status = "completed"}

SamplesOf(horizon) == {i \in Eligible(Len(outcomes)) : outcomes[i].horizon = horizon}

\* The horizons in the order in which the rows, from the newest, are met.
MetBefore(horizons) ==
  {p \in horizons \X horizons : \E i \in SamplesOf(p[1]) : \A j \in SamplesOf(p[2]) : j < i}

\* aggregate_strategy_performance, for the one strategy: one summary a horizon.
PerformanceRows ==
  LET present == {h \in Horizons : SamplesOf(h) # {}}
      order == InOrder(present, MetBefore(present))
  IN  [i \in 1..Len(order) |->
         [horizon |-> order[i], samples |-> Cardinality(SamplesOf(order[i])),
          of |-> SamplesOf(order[i])]]

Aggregate ==
  /\ calls < MaxCalls
  /\ calls' = calls + 1
  /\ performance' = performance \o PerformanceRows
  /\ UNCHANGED <<hour, signalRows, snapshots, outcomes, writers, callState, lost>>

CallStep(c) == ReadOutcomes(c) \/ ReadSnapshots(c) \/ AppendOutcome(c)

OutcomesNext ==
  \/ ClockMoves
  \/ \E id \in SignalIds : CreateSignal(id)
  \/ \E own, positive \in BOOLEAN : StoreSnapshot(own, positive)
  \/ \E c \in Callers : BeginCall(c) \/ CallStep(c) \/ LoseCall(c)
  \/ Aggregate

OutcomesSpec == OutcomesInit /\ [][OutcomesNext]_outcomeVars

-----------------------------------------------------------------------------
(* Properties.                                                             *)

SameHorizon(i, j) ==
  outcomes[i].id = outcomes[j].id /\ outcomes[i].horizon = outcomes[j].horizon

\* Row j is of another call than row i, which had read the outcomes before row i
\* was there.
Overlaps(i, j) == writers[i] # writers[j] /\ outcomes[j].seen < i

\* One call appended both, for two rows of signals that it had read: it goes on
\* with the statuses that it has read, whatever it appends itself.
Repeats(i, j) == writers[i] = writers[j] /\ outcomes[i].row # outcomes[j].row

\* When the call of row j read them, row i was no longer among the newest.
DroppedOut(i, j) == outcomes[j].seen >= i + OutcomeLimit

\* Once a horizon is completed it is not taken up again, unless the row fell
\* out of the newest ones, or after it a call appended to the horizon that had
\* read before it was there, or the same call did for another row of the signal.
CompletedIsFinal ==
  \A j \in 1..Len(outcomes) : \A i \in 1..(j - 1) :
    (SameHorizon(i, j) /\ outcomes[i].status = "completed")
      => \/ DroppedOut(i, j)
         \/ \E k \in (i + 1)..j : SameHorizon(i, k) /\ (Overlaps(i, k) \/ Repeats(i, k))

\* A summary is of completed rows alone and counts no signal twice for a
\* horizon, with two exceptions: a call that overlapped with the one before
\* appended to the horizon, or one call did so for two rows of the signal.  The
\* rows that calls append one after the other for a signal with one row cannot
\* both be among the newest and completed.
SamplesAreSignals ==
  \A s \in 1..Len(performance) :
    /\ \A i \in performance[s].of : outcomes[i].status = "completed"
    /\ \A i, j \in performance[s].of :
         (i < j /\ SameHorizon(i, j))
           => \E k \in (i + 1)..j : SameHorizon(i, k) /\ (Overlaps(i, k) \/ Repeats(i, k))
=============================================================================
