----------------------------- MODULE OptionsFlow -----------------------------
(***************************************************************************)
(* _record_options_batch of src/lmio/main.py: batches of option            *)
(* observations become rows of options_flow, and a candidate that an       *)
(* earlier scan of its contract confirms becomes an alert.                 *)
(*                                                                         *)
(* A worker is one request at a time: a post of the IBKR bridge, or an     *)
(* import of a Barchart file.  Requests run concurrently and share only    *)
(* the store, and any of them may come again.  A step is one operation of  *)
(* the store or one call of queue_or_send, which TelegramOutbox models.    *)
(* Times are in minutes.                                                   *)
(*                                                                         *)
(* Definitions named Faulty... are plausible mistakes in the one that      *)
(* follows them.  No specification uses them: they show what the           *)
(* properties catch.                                                       *)
(***************************************************************************)
EXTENDS Integers, Sequences, FiniteSets

CONSTANTS
  Observations,  \* observations, one per fingerprint: contract, source and time
  Contract,      \* contract_key of each observation
  ObservedAt,    \* observed_at of each observation
  Candidates,    \* the observations that classify_option finds unusual
  Batches,       \* what may be posted: a time and observations
  HistoryLimit,  \* rows of history a request reads
  Workers,       \* requests
  Moments,       \* bound: the times the clock shows
  MaxOther,      \* bound: rows of other kinds in options_flow
  MaxDeaths,     \* bound: deaths of requests
  None           \* no observation

ASSUME ObservationsAssumption ==
  /\ ObservedAt \in [Observations -> Int]
  /\ DOMAIN Contract = Observations
  /\ Candidates \subseteq Observations
  /\ Batches \subseteq [at : Int, observations : SUBSET Observations]
  /\ None \notin Observations

ASSUME BoundsAssumption ==
  /\ HistoryLimit \in Nat
  /\ Moments \subseteq Int
  /\ Moments # {}
  /\ MaxOther \in Nat
  /\ MaxDeaths \in Nat

VARIABLES
  now,           \* the time
  table,         \* options_flow: the observation of each row, and whether confirmed
  fingerprints,  \* observations marked in ingestion_dedup
  alerts,        \* calls of queue_or_send with each observation's alert
  reported,      \* provider_health rows that count each observation as stored
  todo,          \* candidates of its batch a request has still to deal with
  read,          \* length of the table when the request read the history
  current,       \* the observation it is dealing with
  stage,         \* what it does next
  stored,        \* the observations it has stored
  others,        \* rows of other kinds in the table
  deaths         \* history: deaths of requests

store == <<table, fingerprints, alerts, reported>>
local == <<todo, read, current, stage, stored>>
vars == <<now, store, local, others, deaths>>

Rows == [of : Candidates \cup {None}, confirmed : BOOLEAN]

TypeOK ==
  /\ now \in Moments
  /\ table \in Seq(Rows)
  /\ fingerprints \in SUBSET Candidates
  /\ alerts \in [Observations -> Nat]
  /\ reported \in [Observations -> Nat]
  /\ todo \in [Workers -> SUBSET Candidates]
  /\ read \in [Workers -> Nat]
  /\ current \in [Workers -> Candidates \cup {None}]
  /\ stage \in [Workers -> {"idle", "next", "append", "alert"}]
  /\ stored \in [Workers -> SUBSET Candidates]
  /\ others \in Nat
  /\ deaths \in Nat

Init ==
  /\ now \in {m \in Moments : \A n \in Moments : m <= n}
  /\ table = <<>>
  /\ fingerprints = {}
  /\ alerts = [o \in Observations |-> 0]
  /\ reported = [o \in Observations |-> 0]
  /\ todo = [w \in Workers |-> {}]
  /\ read = [w \in Workers |-> 0]
  /\ current = [w \in Workers |-> None]
  /\ stage = [w \in Workers |-> "idle"]
  /\ stored = [w \in Workers |-> {}]
  /\ others = 0
  /\ deaths = 0

Tick ==
  /\ \E m \in Moments : m > now /\ now' = m
  /\ UNCHANGED <<store, local, others, deaths>>

-----------------------------------------------------------------------------
(* One request.                                                            *)

\* A batch from another time is refused.
Timely(b) == b.at >= now - 20 /\ b.at <= now + 1

Qualified(b) == b.observations \cap Candidates

\* A request reads the newest rows of the history, once for its whole batch.
Receive(w, b) ==
  /\ stage[w] = "idle"
  /\ Timely(b)
  /\ todo' = [todo EXCEPT ![w] = Qualified(b)]
  /\ read' = [read EXCEPT ![w] = Len(table)]
  /\ stage' = [stage EXCEPT ![w] = "next"]
  /\ UNCHANGED <<now, store, current, stored, others, deaths>>

FaultyMark(w, o) ==   \* what is in the table already is not looked at
  /\ stage[w] = "next"
  /\ o \in todo[w]
  /\ todo' = [todo EXCEPT ![w] = @ \ {o}]
  /\ fingerprints' = fingerprints \cup {o}
  /\ current' = [current EXCEPT ![w] = o]
  /\ stage' = [stage EXCEPT ![w] = "append"]
  /\ UNCHANGED <<now, table, alerts, reported, read, stored, others, deaths>>

FaultyMarkBatch(w, o) ==   \* all fingerprints of the batch are marked at once
  /\ stage[w] = "next"
  /\ o \in todo[w]
  /\ todo' = [todo EXCEPT ![w] = @ \ {o}]
  /\ fingerprints' = fingerprints \cup todo[w]
  /\ current' = [current EXCEPT ![w] = o]
  /\ stage' = [stage EXCEPT ![w] = "append"]
  /\ UNCHANGED <<now, table, alerts, reported, read, stored, others, deaths>>

\* The fingerprint comes before the row; an observation that has one is passed over.
Mark(w, o) ==
  /\ stage[w] = "next"
  /\ o \in todo[w]
  /\ todo' = [todo EXCEPT ![w] = @ \ {o}]
  /\ \/ /\ o \in fingerprints
        /\ UNCHANGED <<fingerprints, current, stage>>
     \/ /\ o \notin fingerprints
        /\ fingerprints' = fingerprints \cup {o}
        /\ current' = [current EXCEPT ![w] = o]
        /\ stage' = [stage EXCEPT ![w] = "append"]
  /\ UNCHANGED <<now, table, alerts, reported, read, stored, others, deaths>>

FaultyConfirms(i, o) ==   \* of whatever contract
  /\ table[i].of # None
  /\ ObservedAt[o] - ObservedAt[table[i].of] \in 2..30

\* Row i is of an earlier scan of o's contract, two to thirty minutes before.
Confirms(i, o) ==
  /\ table[i].of # None
  /\ Contract[table[i].of] = Contract[o]
  /\ ObservedAt[o] - ObservedAt[table[i].of] \in 2..30

\* The rows in the history that was read: the newest ones of that time.
History(w) == {i \in 1..Len(table) : i <= read[w] /\ i > read[w] - HistoryLimit}

IsConfirmed(w, o) == \E i \in History(w) : Confirms(i, o)

FaultyAfterAppend(confirmed) == "next"   \* the alert is forgotten

AfterAppend(confirmed) == IF confirmed THEN "alert" ELSE "next"

Persist(w) ==
  LET o == current[w]
      confirmed == IsConfirmed(w, o)
      following == AfterAppend(confirmed)
  IN
  /\ stage[w] = "append"
  /\ table' = Append(table, [of |-> o, confirmed |-> confirmed])
  /\ stored' = [stored EXCEPT ![w] = @ \cup {o}]
  /\ stage' = [stage EXCEPT ![w] = following]
  /\ current' = [current EXCEPT ![w] = IF following = "alert" THEN o ELSE None]
  /\ UNCHANGED <<now, fingerprints, alerts, reported, todo, read, others, deaths>>

\* The alert is handed to the outbox, which keeps it whatever comes of it.
Alert(w) ==
  /\ stage[w] = "alert"
  /\ alerts' = [alerts EXCEPT ![current[w]] = @ + 1]
  /\ current' = [current EXCEPT ![w] = None]
  /\ stage' = [stage EXCEPT ![w] = "next"]
  /\ UNCHANGED <<now, table, fingerprints, reported, todo, read, stored, others, deaths>>

\* The last row is that of provider_health, with the number of rows stored.
Report(w) ==
  /\ stage[w] = "next"
  /\ todo[w] = {}
  /\ reported' = [o \in Observations |-> IF o \in stored[w] THEN reported[o] + 1 ELSE reported[o]]
  /\ stored' = [stored EXCEPT ![w] = {}]
  /\ read' = [read EXCEPT ![w] = 0]
  /\ stage' = [stage EXCEPT ![w] = "idle"]
  /\ UNCHANGED <<now, table, fingerprints, alerts, todo, current, others, deaths>>

\* The process dies, or an operation of the store raises: nothing catches it.
Die(w) ==
  /\ stage[w] # "idle"
  /\ deaths < MaxDeaths
  /\ deaths' = deaths + 1
  /\ todo' = [todo EXCEPT ![w] = {}]
  /\ read' = [read EXCEPT ![w] = 0]
  /\ current' = [current EXCEPT ![w] = None]
  /\ stored' = [stored EXCEPT ![w] = {}]
  /\ stage' = [stage EXCEPT ![w] = "idle"]
  /\ UNCHANGED <<now, store, others>>

\* An analysed screenshot has its row in the same table.
Screenshot ==
  /\ others < MaxOther
  /\ others' = others + 1
  /\ table' = Append(table, [of |-> None, confirmed |-> FALSE])
  /\ UNCHANGED <<now, fingerprints, alerts, reported, local, deaths>>

-----------------------------------------------------------------------------

Work(w) == (\E o \in Candidates : Mark(w, o)) \/ Persist(w) \/ Alert(w) \/ Report(w)

Next ==
  \/ Tick
  \/ Screenshot
  \/ \E w \in Workers : (\E b \in Batches : Receive(w, b)) \/ Work(w) \/ Die(w)

Spec == Init /\ [][Next]_vars

\* A request that runs goes on.  Nothing makes one come.
FairSpec == Spec /\ \A w \in Workers : WF_vars(Work(w))

-----------------------------------------------------------------------------
(* Properties.                                                             *)

\* The observations that have a row, and those whose row says confirmed_twice.
InTable == {table[i].of : i \in 1..Len(table)}
Confirmed == {table[i].of : i \in {j \in 1..Len(table) : table[j].confirmed}}

\* Row i says confirmed, and an earlier row is why.
TwoScans(i) ==
  \E j \in 1..(i - 1) :
    LET first == table[j].of
        second == table[i].of
    IN /\ {first, second} \subseteq Candidates
       /\ Contract[first] = Contract[second]
       /\ ObservedAt[second] >= ObservedAt[first] + 2
       /\ ObservedAt[second] <= ObservedAt[first] + 30

\* An alert is only ever of a contract that is stored as a candidate twice, two
\* to thirty minutes apart, whatever comes late, again or at the same time:
\* "whether the same contract passed twice within 2-30 minutes"
\* (docs/OPTIONS_TRADING.md).
AlertRestsOnTwoScans ==
  /\ \A i \in 1..Len(table) : table[i].confirmed => TwoScans(i)
  /\ \A o \in Observations : alerts[o] > 0 => o \in Confirmed

\* Repeated and concurrent posts store an observation once, alert of it once and
\* count it once, and none is counted that is not stored.
StoredOnce ==
  /\ \A i, j \in 1..Len(table) : table[i].of = table[j].of /\ table[i].of # None => i = j
  /\ \A o \in Observations :
       alerts[o] <= 1 /\ reported[o] <= 1 /\ (reported[o] = 1 => o \in InTable)

\* Observations that no later post can bring into the table or to an alert.
Lost ==
  {o \in fingerprints :
     /\ \A w \in Workers : current[w] # o
     /\ o \notin InTable \/ (o \in Confirmed /\ alerts[o] = 0)}

\* A death loses one observation or alert at most, however large the batch is.
LossPerDeath == Cardinality(Lost) <= deaths

\* An observation that is marked is stored in the end, counted, and if it is
\* confirmed alerted of, unless a request died.
MarkedIsFinished ==
  \A o \in Candidates :
    o \in fingerprints ~>
      \/ reported[o] = 1 /\ (o \in Confirmed => alerts[o] = 1)
      \/ deaths > 0
=============================================================================
