--------------------------- MODULE SchedulerProofs ---------------------------
(***************************************************************************)
(* Proofs about Scheduler for every manifest, every number of calls and    *)
(* every time: the slots of a schedule leave no gap, a window is executed  *)
(* once at most, and the evidence is truthful and complete but for deaths. *)
(***************************************************************************)
EXTENDS Scheduler, WellFoundedInduction, TLAPS

(***************************************************************************)
(* The slots.                                                              *)
(***************************************************************************)

\* The search stops at the smallest offset that will do.
LEMMA NearestIsLeast ==
  ASSUME NEW offsets \in SUBSET Offsets, offsets # {}
  PROVE  /\ Nearest(offsets) \in offsets
         /\ \A m \in offsets : Nearest(offsets) <= m
<1> DEFINE Less == {p \in Nat \X Nat : p[1] < p[2]}
<1>1. offsets \subseteq Nat
  BY DEF Offsets
<1>2. IsWellFoundedOn(Less, Nat)
  BY NatLessThanWellFounded DEF OpToRel
<1>3. \E n \in offsets : \A m \in offsets : <<m, n>> \notin Less
  <2> HIDE DEF Less
  <2> QED
    BY <1>1, <1>2, WFMin
<1>4. \E n \in offsets : \A m \in offsets : n <= m
  <2>1. PICK n \in offsets : \A m \in offsets : <<m, n>> \notin Less
    BY <1>3
  <2>2. ASSUME NEW m \in offsets PROVE n <= m
    <3>1. m \in Nat /\ n \in Nat
      BY <1>1
    <3>2. ~ (m < n)
      BY <2>1, <3>1
    <3>3. QED
      BY <3>1, <3>2
  <2>3. QED
    BY <2>2
<1>5. QED
  BY <1>4 DEF Nearest

\* A day of every week is within a week of every day, before it and after it.
LEMMA DayWithinAWeek ==
  ASSUME NEW day \in Int, NEW weekday \in 0..6
  PROVE  /\ \E n \in 1..7 : (day - n) % 7 = weekday
         /\ \E n \in 1..7 : (day + n) % 7 = weekday
<1>1. \E n \in 1..7 : (day - n) % 7 = weekday
  OBVIOUS
<1>2. \E n \in 1..7 : (day + n) % 7 = weekday
  OBVIOUS
<1>3. QED
  BY <1>1, <1>2

LEMMA WindowIsLastDueSlot ==
  ASSUME NEW schedule \in Schedules, NEW t \in Instants
  PROVE  LET w == ScheduledWindow(schedule, t) IN
         /\ w \in Slots(schedule)
         /\ NotAfter(w, t)
         /\ \A u \in Slots(schedule) : NotAfter(u, t) => NotAfter(u, w)
<1> DEFINE offsets == WindowOffsets(schedule, t)
<1> DEFINE n == Nearest(offsets)
<1>1. t.day \in Int /\ t.time \in 0..LastTime
  BY DEF Instants
<1>2. schedule.weekdays \subseteq 0..6 /\ schedule.weekdays # {} /\ schedule.time \in 0..LastTime
  BY DEF Schedules
<1>3. PICK weekday \in schedule.weekdays : TRUE
  BY <1>2
<1>4. PICK m \in 1..7 : (t.day - m) % 7 = weekday
  BY <1>1, <1>2, DayWithinAWeek
<1>5. m \in offsets
  BY <1>1, <1>2, <1>4 DEF WindowOffsets, Offsets, NotAfter, Before, At
<1>6. n \in offsets /\ \A k \in offsets : n <= k
  BY <1>5, NearestIsLeast DEF WindowOffsets
<1>7. n \in 0..7 /\ (t.day - n) % 7 \in schedule.weekdays
      /\ NotAfter(At(t.day - n, schedule.time), t)
  BY <1>6 DEF WindowOffsets, Offsets
<1>8. ScheduledWindow(schedule, t) = At(t.day - n, schedule.time)
  BY <1>5 DEF ScheduledWindow
<1>9. ASSUME NEW u \in Slots(schedule), NotAfter(u, t)
      PROVE  NotAfter(u, At(t.day - n, schedule.time))
  <2>1. u.day \in Int /\ u.time = schedule.time /\ u.day % 7 \in schedule.weekdays
    BY DEF Slots, Instants
  <2>2. u.day <= t.day
    BY <1>1, <1>9, <2>1 DEF NotAfter, Before
  <2>3. CASE t.day - u.day <= 7
    <3>1. t.day - u.day \in offsets
      BY <1>1, <1>9, <2>1, <2>2, <2>3 DEF WindowOffsets, Offsets, NotAfter, Before, At
    <3>2. n <= t.day - u.day
      BY <1>6, <3>1
    <3>3. QED
      BY <1>1, <1>2, <1>7, <2>1, <3>2 DEF NotAfter, Before, At
  <2>4. CASE t.day - u.day > 7
    BY <1>1, <1>2, <1>7, <2>1, <2>4 DEF NotAfter, Before, At
  <2>5. QED
    BY <1>1, <2>1, <2>3, <2>4
<1>10. At(t.day - n, schedule.time) \in Slots(schedule)
  BY <1>1, <1>2, <1>7 DEF Slots, Instants, At
<1>11. QED
  BY <1>7, <1>8, <1>9, <1>10

LEMMA NextIsFirstSlotToCome ==
  ASSUME NEW schedule \in Schedules, NEW t \in Instants
  PROVE  LET x == NextScheduledTime(schedule, t) IN
         /\ x \in Slots(schedule)
         /\ Before(t, x)
         /\ \A u \in Slots(schedule) : Before(t, u) => NotAfter(x, u)
<1> DEFINE offsets == NextOffsets(schedule, t)
<1> DEFINE n == Nearest(offsets)
<1>1. t.day \in Int /\ t.time \in 0..LastTime
  BY DEF Instants
<1>2. schedule.weekdays \subseteq 0..6 /\ schedule.weekdays # {} /\ schedule.time \in 0..LastTime
  BY DEF Schedules
<1>3. PICK weekday \in schedule.weekdays : TRUE
  BY <1>2
<1>4. PICK m \in 1..7 : (t.day + m) % 7 = weekday
  BY <1>1, <1>2, DayWithinAWeek
<1>5. m \in offsets
  BY <1>1, <1>2, <1>4 DEF NextOffsets, Offsets, Before, At
<1>6. n \in offsets /\ \A k \in offsets : n <= k
  BY <1>5, NearestIsLeast DEF NextOffsets
<1>7. n \in 0..7 /\ (t.day + n) % 7 \in schedule.weekdays
      /\ Before(t, At(t.day + n, schedule.time))
  BY <1>6 DEF NextOffsets, Offsets
<1>8. NextScheduledTime(schedule, t) = At(t.day + n, schedule.time)
  BY <1>5 DEF NextScheduledTime
<1>9. ASSUME NEW u \in Slots(schedule), Before(t, u)
      PROVE  NotAfter(At(t.day + n, schedule.time), u)
  <2>1. u.day \in Int /\ u.time = schedule.time /\ u.day % 7 \in schedule.weekdays
    BY DEF Slots, Instants
  <2>2. t.day <= u.day
    BY <1>1, <1>9, <2>1 DEF Before
  <2>3. CASE u.day - t.day <= 7
    <3>1. u.day - t.day \in offsets
      BY <1>1, <1>9, <2>1, <2>2, <2>3 DEF NextOffsets, Offsets, Before, At
    <3>2. n <= u.day - t.day
      BY <1>6, <3>1
    <3>3. QED
      BY <1>1, <1>2, <1>7, <2>1, <3>2 DEF NotAfter, Before, At
  <2>4. CASE u.day - t.day > 7
    BY <1>1, <1>2, <1>7, <2>1, <2>4 DEF NotAfter, Before, At
  <2>5. QED
    BY <1>1, <2>1, <2>3, <2>4
<1>10. At(t.day + n, schedule.time) \in Slots(schedule)
  BY <1>1, <1>2, <1>7 DEF Slots, Instants, At
<1>11. QED
  BY <1>7, <1>8, <1>9, <1>10

\* For any set of slots one asks about, so for all of them: a job's window and
\* its next scheduled time are neighbours around the instant.
THEOREM WindowAndNextAreNeighbours ==
  ASSUME NEW schedule \in Schedules, NEW t \in Instants, NEW slots \in SUBSET Instants
  PROVE  SlotsBracket(schedule, t, slots)
<1> DEFINE w == ScheduledWindow(schedule, t)
<1> DEFINE x == NextScheduledTime(schedule, t)
<1>1. /\ w \in Slots(schedule)
      /\ NotAfter(w, t)
      /\ \A u \in Slots(schedule) : NotAfter(u, t) => NotAfter(u, w)
  BY WindowIsLastDueSlot
<1>2. /\ x \in Slots(schedule)
      /\ Before(t, x)
      /\ \A u \in Slots(schedule) : Before(t, u) => NotAfter(x, u)
  BY NextIsFirstSlotToCome
<1>3. \A u \in slots : NotAfter(u, t) \/ Before(t, u)
  BY LastTimeAssumption DEF NotAfter, Before, Instants
<1> HIDE DEF w, x
<1>4. QED
  BY <1>1, <1>2, <1>3 DEF SlotsBracket, w, x

-----------------------------------------------------------------------------
(***************************************************************************)
(* The calls.  The inductive invariant says how the stage of a call goes   *)
(* with the lock of its window: the calls that got a lock and the keys     *)
(* that are taken match one to one, and a call that is to skip has seen    *)
(* another one's lock.                                                     *)
(***************************************************************************)

SameWindow(c, d) == job[c] = job[d] /\ window[c] = window[d]

\* What is known of a call at each stage.
StageOK ==
  \A c \in Calls :
    /\ stage[c] \in Running => job[c] \in Jobs /\ window[c] \in Instants
    /\ stage[c] \in {"new", "lock", "skip"} => c \notin acquired
    /\ stage[c] \in {"new", "lock", "skip", "execute"} => c \notin executed
    /\ stage[c] \in {"execute", "record"} => c \in acquired
    /\ stage[c] = "record" => c \in executed /\ result[c] \in Results
    /\ stage[c] # "done" => event[c] = "none"
    /\ stage[c] = "done" /\ c \in acquired => event[c] \in Severities \ {"skipped_duplicate"}
    /\ c \in executed => c \in acquired

\* No two calls have got the lock of one window, and what a call got is taken.
OneOwner ==
  /\ \A c \in acquired : LockKey(c) \in locks
  /\ \A c, d \in acquired : SameWindow(c, d) => c = d

\* A call that is to skip has lost against another one.
SkipJustified ==
  \A c \in Calls : stage[c] = "skip" => \E d \in acquired \ {c} : SameWindow(d, c)

Inv ==
  /\ TypeOK
  /\ StageOK
  /\ OneOwner
  /\ SkipJustified
  /\ TakenAccountedFor
  /\ EvidenceTruthful

LEMMA WindowType ==
  ASSUME NEW j \in Jobs, TypeOK
  PROVE  ScheduledWindow(Schedule[j], now) \in Instants
BY JobsAssumption, WindowIsLastDueSlot DEF TypeOK, Slots

THEOREM InitInv == Init => Inv
BY JobsAssumption, LastTimeAssumption
   DEF Init, Inv, TypeOK, StageOK, OneOwner, SkipJustified, TakenAccountedFor,
       EvidenceTruthful, Instants, At, NoWindow, Stages, Running, Results, Severities

LEMMA TypeStep == Inv /\ [Next]_vars => TypeOK'
<1> SUFFICES ASSUME Inv, [Next]_vars PROVE TypeOK'
    OBVIOUS
<1> USE DEF Inv, TypeOK, StageOK, Stages, Running, Results, Severities
<1>1. CASE Tick
    BY <1>1, LastTimeAssumption, JobsAssumption DEF Tick, Instants, At, calls, history
<1>2. ASSUME NEW c \in Calls, NEW j \in Jobs, Start(c, j) PROVE TypeOK'
    BY <1>2, WindowType DEF Start, history
<1>3. ASSUME NEW c \in Calls, Acquire(c) PROVE TypeOK'
    BY <1>3 DEF Acquire, LockKey
<1>4. ASSUME NEW c \in Calls, Skip(c) PROVE TypeOK'
    BY <1>4 DEF Skip, history
<1>5. ASSUME NEW c \in Calls, Execute(c) PROVE TypeOK'
    BY <1>5 DEF Execute
<1>6. ASSUME NEW c \in Calls, Record(c) PROVE TypeOK'
    BY <1>6 DEF Record, Severity, history
<1>7. ASSUME NEW c \in Calls, Die(c) PROVE TypeOK'
    BY <1>7 DEF Die, history
<1>8. CASE UNCHANGED vars
    BY <1>8 DEF vars, calls, history
<1>9. QED
    BY <1>1, <1>2, <1>3, <1>4, <1>5, <1>6, <1>7, <1>8 DEF Next, Work

LEMMA StageStep == Inv /\ [Next]_vars => StageOK'
<1> SUFFICES ASSUME Inv, [Next]_vars PROVE StageOK'
    OBVIOUS
<1> USE DEF Inv, TypeOK, StageOK, Stages, Running, Results, Severities
<1>1. CASE Tick
    BY <1>1 DEF Tick, calls, history
<1>2. ASSUME NEW c \in Calls, NEW j \in Jobs, Start(c, j) PROVE StageOK'
    BY <1>2, WindowType DEF Start, history
<1>3. ASSUME NEW c \in Calls, Acquire(c) PROVE StageOK'
    BY <1>3 DEF Acquire
<1>4. ASSUME NEW c \in Calls, Skip(c) PROVE StageOK'
    BY <1>4 DEF Skip, history
<1>5. ASSUME NEW c \in Calls, Execute(c) PROVE StageOK'
    BY <1>5 DEF Execute
<1>6. ASSUME NEW c \in Calls, Record(c) PROVE StageOK'
    BY <1>6 DEF Record, Severity, history
<1>7. ASSUME NEW c \in Calls, Die(c) PROVE StageOK'
    BY <1>7 DEF Die, history
<1>8. CASE UNCHANGED vars
    BY <1>8 DEF vars, calls, history
<1>9. QED
    BY <1>1, <1>2, <1>3, <1>4, <1>5, <1>6, <1>7, <1>8 DEF Next, Work

LEMMA OwnerStep == Inv /\ [Next]_vars => OneOwner'
<1> SUFFICES ASSUME Inv, [Next]_vars PROVE OneOwner'
    OBVIOUS
<1> USE DEF Inv, TypeOK, StageOK, OneOwner, SameWindow, LockKey, TakenAccountedFor, Running, Stages
<1>1. CASE Tick
    BY <1>1 DEF Tick, calls, history
<1>2. ASSUME NEW c \in Calls, NEW j \in Jobs, Start(c, j) PROVE OneOwner'
    BY <1>2 DEF Start, history
<1>3. ASSUME NEW c \in Calls, Acquire(c) PROVE OneOwner'
    BY <1>3 DEF Acquire
<1>4. ASSUME NEW c \in Calls, Skip(c) PROVE OneOwner'
    BY <1>4 DEF Skip, history
<1>5. ASSUME NEW c \in Calls, Execute(c) PROVE OneOwner'
    BY <1>5 DEF Execute
<1>6. ASSUME NEW c \in Calls, Record(c) PROVE OneOwner'
    BY <1>6 DEF Record, Severity, history
<1>7. ASSUME NEW c \in Calls, Die(c) PROVE OneOwner'
    BY <1>7 DEF Die, history
<1>8. CASE UNCHANGED vars
    BY <1>8 DEF vars, calls, history
<1>9. QED
    BY <1>1, <1>2, <1>3, <1>4, <1>5, <1>6, <1>7, <1>8 DEF Next, Work

LEMMA SkipStep == Inv /\ [Next]_vars => SkipJustified'
<1> SUFFICES ASSUME Inv, [Next]_vars PROVE SkipJustified'
    OBVIOUS
<1> USE DEF Inv, TypeOK, StageOK, SkipJustified, SameWindow, LockKey, TakenAccountedFor, Running, Stages
<1>1. CASE Tick
    BY <1>1 DEF Tick, calls, history
<1>2. ASSUME NEW c \in Calls, NEW j \in Jobs, Start(c, j) PROVE SkipJustified'
    BY <1>2 DEF Start, history
<1>3. ASSUME NEW c \in Calls, Acquire(c) PROVE SkipJustified'
    BY <1>3 DEF Acquire
<1>4. ASSUME NEW c \in Calls, Skip(c) PROVE SkipJustified'
    BY <1>4 DEF Skip, history
<1>5. ASSUME NEW c \in Calls, Execute(c) PROVE SkipJustified'
    BY <1>5 DEF Execute
<1>6. ASSUME NEW c \in Calls, Record(c) PROVE SkipJustified'
    BY <1>6 DEF Record, Severity, history
<1>7. ASSUME NEW c \in Calls, Die(c) PROVE SkipJustified'
    BY <1>7 DEF Die, history
<1>8. CASE UNCHANGED vars
    BY <1>8 DEF vars, calls, history
<1>9. QED
    BY <1>1, <1>2, <1>3, <1>4, <1>5, <1>6, <1>7, <1>8 DEF Next, Work

LEMMA TakenStep == Inv /\ [Next]_vars => TakenAccountedFor'
<1> SUFFICES ASSUME Inv, [Next]_vars PROVE TakenAccountedFor'
    OBVIOUS
<1> USE DEF Inv, TypeOK, StageOK, TakenAccountedFor, LockKey, Running, Stages, Results, Severities
<1>1. CASE Tick
    BY <1>1 DEF Tick, calls, history
<1>2. ASSUME NEW c \in Calls, NEW j \in Jobs, Start(c, j) PROVE TakenAccountedFor'
    BY <1>2 DEF Start, history
<1>3. ASSUME NEW c \in Calls, Acquire(c) PROVE TakenAccountedFor'
    BY <1>3 DEF Acquire
<1>4. ASSUME NEW c \in Calls, Skip(c) PROVE TakenAccountedFor'
    BY <1>4 DEF Skip, history
<1>5. ASSUME NEW c \in Calls, Execute(c) PROVE TakenAccountedFor'
    BY <1>5 DEF Execute
<1>6. ASSUME NEW c \in Calls, Record(c) PROVE TakenAccountedFor'
    BY <1>6 DEF Record, Severity, history
<1>7. ASSUME NEW c \in Calls, Die(c) PROVE TakenAccountedFor'
    BY <1>7 DEF Die, history
<1>8. CASE UNCHANGED vars
    BY <1>8 DEF vars, calls, history
<1>9. QED
    BY <1>1, <1>2, <1>3, <1>4, <1>5, <1>6, <1>7, <1>8 DEF Next, Work

LEMMA EvidenceStep == Inv /\ [Next]_vars => EvidenceTruthful'
<1> SUFFICES ASSUME Inv, [Next]_vars PROVE EvidenceTruthful'
    OBVIOUS
<1> USE DEF Inv, TypeOK, StageOK, SkipJustified, SameWindow, EvidenceTruthful, Running, Stages, Results, Severities
<1>1. CASE Tick
    BY <1>1 DEF Tick, calls, history
<1>2. ASSUME NEW c \in Calls, NEW j \in Jobs, Start(c, j) PROVE EvidenceTruthful'
    BY <1>2 DEF Start, history
<1>3. ASSUME NEW c \in Calls, Acquire(c) PROVE EvidenceTruthful'
    BY <1>3 DEF Acquire
<1>4. ASSUME NEW c \in Calls, Skip(c) PROVE EvidenceTruthful'
    BY <1>4 DEF Skip, history
<1>5. ASSUME NEW c \in Calls, Execute(c) PROVE EvidenceTruthful'
    BY <1>5 DEF Execute
<1>6. ASSUME NEW c \in Calls, Record(c) PROVE EvidenceTruthful'
    BY <1>6 DEF Record, Severity, history
<1>7. ASSUME NEW c \in Calls, Die(c) PROVE EvidenceTruthful'
    BY <1>7 DEF Die, history
<1>8. CASE UNCHANGED vars
    BY <1>8 DEF vars, calls, history
<1>9. QED
    BY <1>1, <1>2, <1>3, <1>4, <1>5, <1>6, <1>7, <1>8 DEF Next, Work

LEMMA InvStep == Inv /\ [Next]_vars => Inv'
BY TypeStep, StageStep, OwnerStep, SkipStep, TakenStep, EvidenceStep DEF Inv

THEOREM Invariance == Spec => []Inv
<1>1. QED
  BY InitInv, InvStep, PTL DEF Spec

-----------------------------------------------------------------------------

\* The types of the scheduler's state, for every manifest and any calls.
THEOREM TypeCorrect == Spec => []TypeOK
<1>1. Inv => TypeOK
  BY DEF Inv
<1>2. QED
  BY <1>1, Invariance, PTL

\* No window of a job is ever executed twice.
THEOREM ExecutedOncePerWindow == Spec => []OncePerWindow
<1>1. Inv => OncePerWindow
  BY DEF Inv, OneOwner, StageOK, SameWindow, OncePerWindow, TypeOK
<1>2. QED
  BY <1>1, Invariance, PTL

\* No event says what did not happen.
THEOREM EvidenceIsTruthful == Spec => []EvidenceTruthful
<1>1. Inv => EvidenceTruthful
  BY DEF Inv
<1>2. QED
  BY <1>1, Invariance, PTL

\* A taken window is running, reported, or was in the hands of a call that died.
THEOREM TakenIsAccountedFor == Spec => []TakenAccountedFor
<1>1. Inv => TakenAccountedFor
  BY DEF Inv
<1>2. QED
  BY <1>1, Invariance, PTL

\* At every instant the window and the next time of every job are neighbours.
THEOREM SlotsAreNeighbours == Spec => []SlotsBracketNow
<1>1. Inv => SlotsBracketNow
  <2> SUFFICES ASSUME Inv, NEW j \in Jobs
               PROVE  SlotsBracket(Schedule[j], now,
                        [day : (now.day - 8)..(now.day + 8), time : 0..LastTime])
    BY DEF SlotsBracketNow
  <2>1. now \in Instants /\ Schedule[j] \in Schedules
    BY JobsAssumption DEF Inv, TypeOK
  <2>2. [day : (now.day - 8)..(now.day + 8), time : 0..LastTime] \subseteq Instants
    BY <2>1 DEF Instants
  <2>3. QED
    BY <2>1, <2>2, WindowAndNextAreNeighbours
<1>2. QED
  BY <1>1, Invariance, PTL
=============================================================================
