--------------------------- MODULE ScheduleSlots ---------------------------
(***************************************************************************)
(* The slots of a scheduled job: scheduled_window and next_scheduled_time  *)
(* of src/lmio/scheduler.py.                                               *)
(*                                                                         *)
(* An instant is a UTC day, counted from a Monday, and a time within the   *)
(* day.  Days may be negative; only the order of times within a day        *)
(* matters, so their unit is left open.                                    *)
(***************************************************************************)
EXTENDS Integers

CONSTANT LastTime   \* the last time of a day

ASSUME LastTimeAssumption == LastTime \in Nat

Instants == [day : Int, time : 0..LastTime]

Schedules == [weekdays : (SUBSET (0..6)) \ {{}}, time : 0..LastTime]

At(day, time) == [day |-> day, time |-> time]

\* Comparison of two datetimes.
Before(s, t) == s.day < t.day \/ (s.day = t.day /\ s.time < t.time)
NotAfter(s, t) == Before(s, t) \/ (s.day = t.day /\ s.time = t.time)

\* The slots of a schedule: its time, on each of its weekdays.
Slots(schedule) ==
  {t \in Instants : t.day % 7 \in schedule.weekdays /\ t.time = schedule.time}

-----------------------------------------------------------------------------
(* Both functions try the day of an instant and days up to a week away, the *)
(* nearest first, and raise RuntimeError if none will do.                   *)

NoWindow == At(0, -1)   \* no instant: the error

Offsets == 0..7

Nearest(offsets) == CHOOSE n \in offsets : \A m \in offsets : n <= m

WindowOffsets(schedule, now) ==
  {n \in Offsets :
     /\ (now.day - n) % 7 \in schedule.weekdays
     /\ NotAfter(At(now.day - n, schedule.time), now)}

ScheduledWindow(schedule, now) ==
  LET offsets == WindowOffsets(schedule, now) IN
  IF offsets = {} THEN NoWindow ELSE At(now.day - Nearest(offsets), schedule.time)

NextOffsets(schedule, now) ==
  {n \in Offsets :
     /\ (now.day + n) % 7 \in schedule.weekdays
     /\ Before(now, At(now.day + n, schedule.time))}

NextScheduledTime(schedule, now) ==
  LET offsets == NextOffsets(schedule, now) IN
  IF offsets = {} THEN NoWindow ELSE At(now.day + Nearest(offsets), schedule.time)

-----------------------------------------------------------------------------

\* The window is the last slot that is due and the next scheduled time the
\* first that is not: there is no slot that neither a call before it nor a
\* call after it takes as its own.
SlotsBracket(schedule, now, slots) ==
  LET window == ScheduledWindow(schedule, now)
      next == NextScheduledTime(schedule, now)
  IN  /\ window \in Slots(schedule)
      /\ next \in Slots(schedule)
      /\ NotAfter(window, now)
      /\ Before(now, next)
      /\ \A t \in slots : t \in Slots(schedule) => NotAfter(t, window) \/ NotAfter(next, t)
=============================================================================
