----------------------------- MODULE SchedulerMC -----------------------------
(* A small instance of Scheduler for TLC. *)
EXTENDS Scheduler

CONSTANTS daily, weekly

\* A job of the working days and one of Saturdays, both late in the day.
SmallSchedule ==
  [j \in Jobs |-> IF j = daily THEN [weekdays |-> 0..4, time |-> 1]
                               ELSE [weekdays |-> {5}, time |-> 1]]
=============================================================================
