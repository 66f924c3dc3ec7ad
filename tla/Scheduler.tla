------------------------------ MODULE Scheduler ------------------------------
(***************************************************************************)
(* run_scheduled_job of src/lmio/scheduler.py: the idempotency lock of a   *)
(* job's window, and the evidence each call leaves in system_events.       *)
(*                                                                         *)
(* A call is one invocation: a Vercel cron request, or the CLI's           *)
(* scheduled-job command.  Calls share the store and nothing else, and     *)
(* nothing bounds how late one comes or how long one takes.  A step is     *)
(* one store operation or the execution of the job, which the other        *)
(* modules look into.  The lock is never released.                         *)
(*                                                                         *)
(* Definitions named Faulty... are plausible mistakes in the one that      *)
(* follows them.  No specification uses them: they show what the           *)
(* properties catch.                                                       *)
(***************************************************************************)
EXTENDS ScheduleSlots, FiniteSets

CONSTANTS
  Calls,         \* invocations of run_scheduled_job
  Jobs,          \* the jobs the manifest declares
  Schedule,      \* the schedule of each job
  FirstDay,      \* bound: the day the behaviours begin
  LastDay,       \* bound: the day they end
  NoJob          \* no job

ASSUME JobsAssumption ==
  /\ Schedule \in [Jobs -> Schedules]
  /\ NoJob \notin Jobs
  /\ FirstDay \in Int
  /\ LastDay \in Int

VARIABLES
  now,           \* the time
  locks,         \* the (job, window) fingerprints in ingestion_dedup
  job,           \* the job of each call
  window,        \* the window each call is for
  stage,         \* what each call does next
  result,        \* how the execution of the job ended
  event,         \* severity of the system_events row of each call
  acquired,      \* history: the calls that got their window's lock
  executed       \* history: the calls that executed their job

calls == <<job, window, stage, result>>
history == <<acquired, executed>>
vars == <<now, locks, calls, event, history>>

Running == {"lock", "skip", "execute", "record"}
Stages == {"new", "done", "dead"} \cup Running

\* How a job may end: completed (it returns a status that counts as success, or
\* none at all), another status (partial stands for every one but failed), or
\* an exception.
Results == {"completed", "partial", "failed", "raised"}
Severities == {"succeeded", "partial", "failed", "skipped_duplicate"}

TypeOK ==
  /\ now \in Instants
  /\ locks \subseteq Jobs \X Instants
  /\ job \in [Calls -> Jobs \cup {NoJob}]
  /\ window \in [Calls -> Instants \cup {NoWindow}]
  /\ stage \in [Calls -> Stages]
  /\ result \in [Calls -> Results \cup {"none"}]
  /\ event \in [Calls -> Severities \cup {"none"}]
  /\ acquired \subseteq Calls
  /\ executed \subseteq Calls

Init ==
  /\ now = At(FirstDay, 0)
  /\ locks = {}
  /\ job = [c \in Calls |-> NoJob]
  /\ window = [c \in Calls |-> NoWindow]
  /\ stage = [c \in Calls |-> "new"]
  /\ result = [c \in Calls |-> "none"]
  /\ event = [c \in Calls |-> "none"]
  /\ acquired = {}
  /\ executed = {}

-----------------------------------------------------------------------------

\* Time passes.
Tick ==
  /\ \/ now.time < LastTime /\ now' = At(now.day, now.time + 1)
     \/ now.time = LastTime /\ now.day < LastDay /\ now' = At(now.day + 1, 0)
  /\ UNCHANGED <<locks, calls, event, history>>

\* A call reads the clock and the manifest, and so fixes its window.
Start(c, j) ==
  /\ stage[c] = "new"
  /\ job' = [job EXCEPT ![c] = j]
  /\ window' = [window EXCEPT ![c] = ScheduledWindow(Schedule[j], now)]
  /\ stage' = [stage EXCEPT ![c] =
       IF ScheduledWindow(Schedule[j], now) = NoWindow THEN "dead" ELSE "lock"]
  /\ UNCHANGED <<now, locks, result, event, history>>

FaultyLockKey(c) == <<job[c], now>>   \* the time of the call for its window

LockKey(c) == <<job[c], window[c]>>

FaultyAcquire(c) ==   \* a call waits for a lock that nobody releases
  /\ stage[c] = "lock"
  /\ LockKey(c) \notin locks
  /\ locks' = locks \cup {LockKey(c)}
  /\ stage' = [stage EXCEPT ![c] = "execute"]
  /\ acquired' = acquired \cup {c}
  /\ UNCHANGED <<now, job, window, result, event, executed>>

\* mark_ingestion_fingerprint: inserts the key, or ignores it and says so.
Acquire(c) ==
  /\ stage[c] = "lock"
  /\ locks' = locks \cup {LockKey(c)}
  /\ \/ /\ LockKey(c) \notin locks
        /\ stage' = [stage EXCEPT ![c] = "execute"]
        /\ acquired' = acquired \cup {c}
     \/ /\ LockKey(c) \in locks
        /\ stage' = [stage EXCEPT ![c] = "skip"]
        /\ UNCHANGED acquired
  /\ UNCHANGED <<now, job, window, result, event, executed>>

\* A call that did not get the lock says so and ends.
Skip(c) ==
  /\ stage[c] = "skip"
  /\ event' = [event EXCEPT ![c] = "skipped_duplicate"]
  /\ stage' = [stage EXCEPT ![c] = "done"]
  /\ UNCHANGED <<now, locks, job, window, result, history>>

\* _execute: the job runs, with whatever result.
Execute(c) ==
  /\ stage[c] = "execute"
  /\ executed' = executed \cup {c}
  /\ \E r \in Results : result' = [result EXCEPT ![c] = r]
  /\ stage' = [stage EXCEPT ![c] = "record"]
  /\ UNCHANGED <<now, locks, job, window, event, acquired>>

FaultyFlatSeverity(r) ==   \* whatever does not raise has succeeded
  IF r = "raised" THEN "failed" ELSE "succeeded"

\* A status that is not a success becomes the severity as it is.
Severity(r) ==
  IF r = "raised" THEN "failed"
  ELSE IF r = "completed" THEN "succeeded"
  ELSE r

FaultyRecord(c) ==   \* the exception leaves before the event is written
  /\ stage[c] = "record"
  /\ event' = [event EXCEPT ![c] = IF result[c] = "raised" THEN "none" ELSE Severity(result[c])]
  /\ stage' = [stage EXCEPT ![c] = "done"]
  /\ UNCHANGED <<now, locks, job, window, result, history>>

\* The event of the execution; the lock stays, also when the job has failed.
Record(c) ==
  /\ stage[c] = "record"
  /\ event' = [event EXCEPT ![c] = Severity(result[c])]
  /\ stage' = [stage EXCEPT ![c] = "done"]
  /\ UNCHANGED <<now, locks, job, window, result, history>>

\* The process dies or exceeds its time, or a store operation raises.
Die(c) ==
  /\ stage[c] \in Running
  /\ stage' = [stage EXCEPT ![c] = "dead"]
  /\ UNCHANGED <<now, locks, job, window, result, event, history>>

Work(c) == Acquire(c) \/ Skip(c) \/ Execute(c) \/ Record(c)

Next ==
  \/ Tick
  \/ \E c \in Calls : (\E j \in Jobs : Start(c, j)) \/ Work(c) \/ Die(c)

Spec == Init /\ [][Next]_vars

\* A call that runs goes on.  Nothing makes a call come.
FairSpec == Spec /\ \A c \in Calls : WF_vars(Work(c))

-----------------------------------------------------------------------------
(* Properties.                                                             *)

\* A window of a job is executed once at most, however many calls come for
\* it, when they come, and whether the execution fails or dies: "scheduler
\* exceptions record a failed event and release no duplicate run"
\* (docs/FAILURE_RECOVERY_VERIFICATION.md).
OncePerWindow ==
  \A c, d \in executed : job[c] = job[d] /\ window[c] = window[d] => c = d

\* What the events say is so: success and partial success only of an execution
\* that ended that way, failure only of one that failed or raised, and a
\* duplicate only of a call whose window another call got, and which executed nothing.
EvidenceTruthful ==
  \A c \in Calls :
    /\ event[c] \in {"succeeded", "partial", "failed"} => c \in executed
    /\ event[c] = "succeeded" => result[c] = "completed"
    /\ event[c] = "partial" => result[c] = "partial"
    /\ event[c] = "failed" => result[c] \in {"failed", "raised"}
    /\ event[c] = "skipped_duplicate" =>
         /\ c \notin executed
         /\ \E d \in acquired \ {c} : job[d] = job[c] /\ window[d] = window[c]

\* A window that is taken is being executed, or has its event, or its call
\* died: the lock that is never released hides no other outcome.
TakenAccountedFor ==
  \A key \in locks :
    \E c \in acquired :
      /\ <<job[c], window[c]>> = key
      /\ \/ stage[c] \in Running \cup {"dead"}
         \/ event[c] \in Severities \ {"skipped_duplicate"}

\* At every instant each job has a last due slot and a first one to come, with
\* none between them: no slot is lost between two calls, and the search of a
\* week and a day never fails.
SlotsBracketNow ==
  \A j \in Jobs :
    SlotsBracket(Schedule[j], now, [day : (now.day - 8)..(now.day + 8), time : 0..LastTime])

\* Every call that begins leaves an event or dies: none waits for a lock.
CallsEnd ==
  \A c \in Calls : stage[c] \in Running ~> (event[c] # "none" \/ stage[c] = "dead")
=============================================================================
