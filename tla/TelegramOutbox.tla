--------------------------- MODULE TelegramOutbox ---------------------------
(***************************************************************************)
(* The persisted Telegram outbox: queue_or_send and drain_outbox of        *)
(* src/lmio/telegram.py over the telegram_deliveries table of the store.   *)
(*                                                                         *)
(* Every worker is one invocation at a time of the runtime (an HTTP or     *)
(* cron request, or a CLI process).  Workers share nothing but the table,  *)
(* and nothing locks it between two store operations, so a step of this    *)
(* module is one store operation or one network request.  A worker that    *)
(* dies, or whose store operation raises, forgets what it was doing; the   *)
(* table keeps what it held.                                               *)
(*                                                                         *)
(* Time is kept only as far as the code looks at it.  A row's created_at   *)
(* is its rank of insertion, and "created in the last hour" is a rank      *)
(* above the horizon.                                                      *)
(***************************************************************************)
EXTENDS Integers, FiniteSets

CONSTANTS
  Keys,          \* dedupe keys: one per distinct message and context
  Immediate,     \* the keys whose kind is IMMEDIATE_ALERT
  Invalid,       \* the keys whose message is empty or too long
  Resubmitted,   \* the keys that more than one call may submit
  DirectLimit,   \* max_per_hour of the direct call that submits a key
  DrainLimit,    \* max_per_hour of a drain (the default)
  StartCreds,    \* credentials the runtime may be deployed with at first
  Callers,       \* workers that call queue_or_send directly
  Drainers,      \* workers that run drain_outbox
  BatchSize,     \* rows one drain claims at most
  MaxAttempts,   \* DEFAULT_MAX_ATTEMPTS
  MaxCrashes,    \* bound: worker deaths in a behaviour
  NoKey          \* no key

ASSUME SetsAssumption ==
  /\ Immediate \subseteq Keys
  /\ Invalid \subseteq Keys
  /\ Resubmitted \subseteq Keys
  /\ Callers \cap Drainers = {}
  /\ NoKey \notin Keys
  /\ StartCreds \subseteq {"none", "invalid", "valid"}

ASSUME LimitsAssumption ==
  /\ DirectLimit \in [Keys -> Nat]
  /\ DrainLimit \in Nat
  /\ BatchSize \in Nat \ {0}
  /\ MaxAttempts \in Nat \ {0}
  /\ MaxCrashes \in Nat

\* Keys are digests of one length, workers the invocations a host can run; the
\* scheduler drains the outbox.
ASSUME FiniteAssumption ==
  /\ IsFiniteSet(Keys)
  /\ IsFiniteSet(Callers)
  /\ IsFiniteSet(Drainers)
  /\ Drainers # {}

VARIABLES
  status,        \* column status of each key's row, "absent" without one
  attempts,      \* column attempt_count
  created,       \* column created_at, as the row's rank of insertion
  inserted,      \* rows inserted so far
  horizon,       \* rows up to this rank are more than an hour old
  creds,         \* the Telegram credentials the deployment is configured with
  todo,          \* keys each worker has still to deal with
  current,       \* the one of them it is dealing with, NoKey between calls
  stage,         \* what each worker does next
  verdict,       \* the status a worker is about to write
  config,        \* the credentials a worker was called with
  submitted,     \* history: keys some direct call has been made for
  tries,         \* history: network requests made for each key
  delivered,     \* history: keys Telegram has accepted a message for
  crashes        \* history: worker deaths

table == <<status, attempts, created, inserted>>
local == <<todo, current, stage, verdict, config>>
network == <<tries, delivered>>
vars == <<table, local, network, horizon, creds, submitted, crashes>>

Workers == Callers \cup Drainers

Retryable == {"queued_not_configured", "failed", "suppressed_rate_limit"}
Final == {"sent", "failed_validation", "failed_exhausted"}
RowStatuses == Retryable \cup Final \cup {"claimed"}
Stages == {"idle", "lookup", "count", "transmit", "record"}
Credentials == {"none", "invalid", "valid"}

Least(m, n) == IF m < n THEN m ELSE n

TypeOK ==
  /\ status \in [Keys -> RowStatuses \cup {"absent"}]
  /\ attempts \in [Keys -> Nat]
  /\ created \in [Keys -> Nat]
  /\ inserted \in Nat
  /\ horizon \in Nat
  /\ creds \in Credentials
  /\ todo \in [Workers -> SUBSET Keys]
  /\ current \in [Workers -> Keys \cup {NoKey}]
  /\ stage \in [Workers -> Stages]
  /\ verdict \in [Workers -> RowStatuses \cup {"absent"}]
  /\ config \in [Workers -> Credentials]
  /\ submitted \in SUBSET Keys
  /\ tries \in [Keys -> Nat]
  /\ delivered \in SUBSET Keys
  /\ crashes \in Nat

Init ==
  /\ status = [k \in Keys |-> "absent"]
  /\ attempts = [k \in Keys |-> 0]
  /\ created = [k \in Keys |-> 0]
  /\ inserted = 0
  /\ horizon = 0
  /\ creds \in StartCreds
  /\ todo = [w \in Workers |-> {}]
  /\ current = [w \in Workers |-> NoKey]
  /\ stage = [w \in Workers |-> "idle"]
  /\ verdict = [w \in Workers |-> "absent"]
  /\ config = [w \in Workers |-> "none"]
  /\ submitted = {}
  /\ tries = [k \in Keys |-> 0]
  /\ delivered = {}
  /\ crashes = 0

-----------------------------------------------------------------------------
(* Definitions named Faulty... are plausible mistakes in the one that follows *)
(* them.  No specification uses them: they show what the properties catch.   *)

-----------------------------------------------------------------------------
(* The environment: the operator's configuration and the clock.            *)

\* The operator supplies credentials: malformed or half of them first, or
\* valid ones at once.  Running calls keep the ones they were called with.
Configure(c) ==
  /\ <<creds, c>> \in {<<"none", "invalid">>, <<"none", "valid">>, <<"invalid", "valid">>}
  /\ creds' = c
  /\ UNCHANGED <<table, local, network, horizon, submitted, crashes>>

\* An hour passes over every row there is, or over the older ones.
HourPasses ==
  /\ horizon' \in (horizon + 1)..inserted
  /\ UNCHANGED <<table, local, network, creds, submitted, crashes>>

-----------------------------------------------------------------------------
(* Starting an invocation.                                                 *)

\* A direct call of queue_or_send.  Only the keys of Resubmitted are submitted
\* twice: a message whose text and context a later call may repeat.
Submit(w, k) ==
  /\ stage[w] = "idle"
  /\ k \in submitted => k \in Resubmitted
  /\ todo' = [todo EXCEPT ![w] = {k}]
  /\ stage' = [stage EXCEPT ![w] = "lookup"]
  /\ config' = [config EXCEPT ![w] = creds]
  /\ submitted' = submitted \cup {k}
  /\ UNCHANGED <<table, network, current, verdict, horizon, creds, crashes>>

FaultyClaimable(k) ==   \* a drain retries what validation refused
  /\ status[k] \in Retryable \cup {"failed_validation"}
  /\ attempts[k] < MaxAttempts

Claimable(k) ==
  /\ status[k] \in Retryable
  /\ attempts[k] < MaxAttempts

ClaimableKeys == {k \in Keys : Claimable(k)}

FaultyOldestBatches == {ClaimableKeys} \ {{}}   \* no limit to a batch

\* The batches a claim may take: the oldest BatchSize claimable rows.
OldestBatches ==
  {batch \in SUBSET ClaimableKeys :
     /\ batch # {}
     /\ Cardinality(batch) = Least(BatchSize, Cardinality(ClaimableKeys))
     /\ \A k \in batch, older \in ClaimableKeys \ batch : created[k] < created[older]}

FaultyClaim(w, batch) ==   \* the rows are selected and not marked
  /\ stage[w] = "idle"
  /\ todo' = [todo EXCEPT ![w] = batch]
  /\ stage' = [stage EXCEPT ![w] = "lookup"]
  /\ config' = [config EXCEPT ![w] = creds]
  /\ UNCHANGED <<table, network, current, verdict, horizon, creds, submitted, crashes>>

\* A drain claims a batch in one transaction and will deal with its rows.
Claim(w, batch) ==
  /\ stage[w] = "idle"
  /\ status' = [k \in Keys |-> IF k \in batch THEN "claimed" ELSE status[k]]
  /\ todo' = [todo EXCEPT ![w] = batch]
  /\ stage' = [stage EXCEPT ![w] = "lookup"]
  /\ config' = [config EXCEPT ![w] = creds]
  /\ UNCHANGED <<attempts, created, inserted, network, current, verdict,
                 horizon, creds, submitted, crashes>>

-----------------------------------------------------------------------------
(* queue_or_send for one key.                                              *)

\* The worker is through with key k: a drain goes on to its next row.
Finish(w, k) ==
  /\ todo' = [todo EXCEPT ![w] = @ \ {k}]
  /\ current' = [current EXCEPT ![w] = NoKey]
  /\ verdict' = [verdict EXCEPT ![w] = "absent"]
  /\ \/ /\ todo[w] = {k}
        /\ stage' = [stage EXCEPT ![w] = "idle"]
        /\ config' = [config EXCEPT ![w] = "none"]
     \/ /\ todo[w] # {k}
        /\ stage' = [stage EXCEPT ![w] = "lookup"]
        /\ UNCHANGED config

\* Reading the row: a message already sent ends the call, one without an
\* attempt left is to be marked so, any other goes on.
Lookup(w, k) ==
  /\ stage[w] = "lookup"
  /\ k \in todo[w]
  /\ \/ /\ status[k] = "sent"
        /\ Finish(w, k)
     \/ /\ status[k] # "sent"
        /\ current' = [current EXCEPT ![w] = k]
        /\ \/ /\ attempts[k] >= MaxAttempts
              /\ verdict' = [verdict EXCEPT ![w] = "failed_exhausted"]
              /\ stage' = [stage EXCEPT ![w] = "record"]
           \/ /\ attempts[k] < MaxAttempts
              /\ stage' = [stage EXCEPT ![w] = "count"]
              /\ UNCHANGED verdict
        /\ UNCHANGED <<todo, config>>
  /\ UNCHANGED <<table, network, horizon, creds, submitted, crashes>>

FaultySentLastHour == Cardinality({k \in Keys : status[k] = "sent"})   \* ever sent

SentLastHour == Cardinality({k \in Keys : status[k] = "sent" /\ created[k] > horizon})

HourlyLimit(w, k) == IF w \in Drainers THEN DrainLimit ELSE DirectLimit[k]

FaultyOverLimit(w, k) ==   \* one message too many
  /\ SentLastHour > HourlyLimit(w, k)
  /\ k \notin Immediate

OverLimit(w, k) ==
  /\ SentLastHour >= HourlyLimit(w, k)
  /\ k \notin Immediate

\* The status of a message that is not to be sent now, "absent" if it is.
Refusal(w, k) ==
  IF k \in Invalid THEN "failed_validation"
  ELSE IF config[w] = "none" THEN "queued_not_configured"
  ELSE IF config[w] = "invalid" THEN "failed_validation"
  ELSE IF OverLimit(w, k) THEN "suppressed_rate_limit"
  ELSE "absent"

\* Counting the rows sent in the last hour, and every check before sending.
Decide(w) ==
  LET refusal == Refusal(w, current[w]) IN
  /\ stage[w] = "count"
  /\ verdict' = [verdict EXCEPT ![w] = refusal]
  /\ stage' = [stage EXCEPT ![w] = IF refusal = "absent" THEN "transmit" ELSE "record"]
  /\ UNCHANGED <<table, network, todo, current, config, horizon, creds, submitted, crashes>>

FaultyAnswers(accepted) == {"sent", "failed"}   \* an answer is not checked

\* What the sender sees of a request Telegram accepted or did not: a lost or
\* malformed answer is a failure as well.
Answers(accepted) == IF accepted THEN {"sent", "failed"} ELSE {"failed"}

\* The one network request of the call.
Transmit(w) ==
  LET k == current[w] IN
  /\ stage[w] = "transmit"
  /\ tries' = [tries EXCEPT ![k] = @ + 1]
  /\ \E accepted \in BOOLEAN :
       /\ delivered' = IF accepted THEN delivered \cup {k} ELSE delivered
       /\ \E answer \in Answers(accepted) : verdict' = [verdict EXCEPT ![w] = answer]
  /\ stage' = [stage EXCEPT ![w] = "record"]
  /\ UNCHANGED <<table, todo, current, config, horizon, creds, submitted, crashes>>

FaultyIncrementOfSent(outcome) == IF outcome = "sent" THEN 1 ELSE 0

AttemptIncrement(outcome) == IF outcome \in {"sent", "failed"} THEN 1 ELSE 0

\* upsert_telegram_delivery: inserts the row, or overwrites the status it
\* finds whatever that is and adds to the attempts it finds.
Record(w) ==
  LET k == current[w] IN
  /\ stage[w] = "record"
  /\ status' = [status EXCEPT ![k] = verdict[w]]
  /\ attempts' = [attempts EXCEPT ![k] = @ + AttemptIncrement(verdict[w])]
  /\ \/ /\ status[k] = "absent"
        /\ inserted' = inserted + 1
        /\ created' = [created EXCEPT ![k] = inserted']
     \/ /\ status[k] # "absent"
        /\ UNCHANGED <<inserted, created>>
  /\ Finish(w, k)
  /\ UNCHANGED <<network, horizon, creds, submitted, crashes>>

\* The process dies, or a store operation raises and the call is abandoned.
Crash(w) ==
  /\ stage[w] # "idle"
  /\ crashes < MaxCrashes
  /\ crashes' = crashes + 1
  /\ todo' = [todo EXCEPT ![w] = {}]
  /\ current' = [current EXCEPT ![w] = NoKey]
  /\ verdict' = [verdict EXCEPT ![w] = "absent"]
  /\ stage' = [stage EXCEPT ![w] = "idle"]
  /\ config' = [config EXCEPT ![w] = "none"]
  /\ UNCHANGED <<table, network, horizon, creds, submitted>>

-----------------------------------------------------------------------------

Work(w) == (\E k \in Keys : Lookup(w, k)) \/ Decide(w) \/ Transmit(w) \/ Record(w)

Drain(w) == \E batch \in OldestBatches : Claim(w, batch)

Next ==
  \/ \E c \in Credentials : Configure(c)
  \/ HourPasses
  \/ \E w \in Callers, k \in Keys : Submit(w, k)
  \/ \E w \in Drainers : Drain(w)
  \/ \E w \in Workers : Work(w) \/ Crash(w)

Spec == Init /\ [][Next]_vars

(***************************************************************************)
(* Fairness: a call that runs goes on, the scheduler drains the outbox     *)
(* again and again (job telegram-outbox-drain of                           *)
(* config/scheduler_manifest.json), and hours pass.  Nothing makes the     *)
(* operator supply credentials, or a direct call come.                     *)
(***************************************************************************)
Fairness ==
  /\ \A w \in Workers : WF_vars(Work(w))
  /\ \A w \in Drainers : WF_vars(Drain(w))
  /\ WF_vars(HourPasses)

FairSpec == Spec /\ Fairness

-----------------------------------------------------------------------------
(* Safety.                                                                 *)

\* The keys of messages that one call submits and only drains retry.
Unshared == Keys \ Resubmitted

\* No two invocations ever deal with the same unshared message at a time: the
\* claim of a drain is exclusive ("atomic claims",
\* docs/TELEGRAM_VERIFICATION_REPORT.md).
ClaimExclusive ==
  \A k \in Unshared, v, w \in Workers : k \in todo[v] /\ k \in todo[w] => v = w

\* An unshared message is tried "up to three total attempts"
\* (docs/OPERATIONS.md), whatever fails, dies or is claimed when.
BoundedTries == \A k \in Unshared : tries[k] <= MaxAttempts

\* attempt_count of an unshared row that no drain holds is the number of
\* requests made: neither a refusal nor a lost worker distorts the budget.
AttemptsAccountForTries ==
  \A k \in Unshared : status[k] \in Retryable \cup Final => attempts[k] = tries[k]

\* A row never says sent unless Telegram accepted the message.
SentMeansDelivered == \A k \in Keys : status[k] = "sent" => k \in delivered

\* Rows a dead drain leaves claimed: no later drain takes them.
Orphans == {k \in Keys : status[k] = "claimed" /\ \A w \in Workers : k \notin todo[w]}

\* Only a death strands rows, and a death strands one batch at most.
StrandedPerCrash == Cardinality(Orphans) <= BatchSize * crashes

\* Messages created and sent within the hour that the limit applies to.
LimitedSent == {k \in Keys \ Immediate : status[k] = "sent" /\ created[k] > horizon}

\* The hourly limit is read before the send it guards: concurrent workers
\* overrun it, each by one message at most.  A message created in an earlier hour
\* is not counted, whenever it is sent.
HourlyLimitHolds ==
  \E limit \in {DrainLimit} \cup {DirectLimit[k] : k \in Keys} :
    Cardinality(LimitedSent) < limit + Cardinality(Workers)

\* A message more calls submit is tried once more by each further worker and
\* by each death at most: the check of the budget and its use are apart.
TriesBoundedByWorkers ==
  \A k \in Keys : tries[k] < MaxAttempts + Cardinality(Workers) + crashes

-----------------------------------------------------------------------------
(* Liveness.                                                               *)

Settled(k) ==
  \/ status[k] \in Final
  \/ attempts[k] >= MaxAttempts
  \/ k \in Orphans /\ crashes > 0

\* A retryable message of a configured runtime is eventually sent, refused
\* for good or out of attempts, unless the death of its drain strands it: the
\* hourly limit delays it but does not starve it.
QueueSettles ==
  \A k \in Unshared : (status[k] \in Retryable /\ creds # "none") ~> Settled(k)

-----------------------------------------------------------------------------
(* What the documents say and the code does not do.                        *)

\* "Messages queued before credentials are configured become eligible for
\* delivery after valid credentials are supplied" (docs/OPERATIONS.md): then
\* they are sent in the end, or use up their attempts.
QueuedBecomesEligible ==
  \A k \in Unshared \ Invalid :
    <>(status[k] = "queued_not_configured") /\ <>[](creds = "valid")
      => <>(status[k] = "sent" \/ attempts[k] >= MaxAttempts)

-----------------------------------------------------------------------------
(* The outbox implements the delivery ledger for unshared messages.        *)

LedgerOutcome(k) ==
  IF status[k] = "sent" THEN "acknowledged"
  ELSE IF status[k] \in Final THEN "closed"
  ELSE "open"

Ledger == INSTANCE DeliveryLedger
  WITH Messages <- Unshared,
       outcome <- [k \in Unshared |-> LedgerOutcome(k)],
       tries <- [k \in Unshared |-> tries[k]]

LedgerSpec == Ledger!Spec
=============================================================================
