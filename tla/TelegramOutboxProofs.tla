------------------------ MODULE TelegramOutboxProofs ------------------------
(***************************************************************************)
(* Proofs about TelegramOutbox for every number of messages, workers,      *)
(* attempts and deaths.  The messages that one call submits (Unshared)     *)
(* keep their budget of attempts and implement DeliveryLedger; a row that  *)
(* says sent was accepted, whoever submits it.                             *)
(***************************************************************************)
EXTENDS TelegramOutbox, FiniteSetTheorems, TLAPS

(***************************************************************************)
(* The inductive invariant.  A message alone among its workers is in one   *)
(* of three places: in nobody's hands with its attempts accounted for, in  *)
(* the hands of one worker with an attempt left, or stranded by a death.   *)
(***************************************************************************)

\* The result of a network request for k is in the worker's hands.
InFlight(w, k) ==
  /\ stage[w] = "record"
  /\ current[w] = k
  /\ verdict[w] \in {"sent", "failed"}

\* What a worker is dealing with is among what it took on, and what it is
\* about to write is the outcome of a call, never a claim.
WorkerOK ==
  \A w \in Workers :
    /\ stage[w] \in {"count", "transmit", "record"} => current[w] \in todo[w]
    /\ stage[w] = "record" => verdict[w] \in Retryable \cup Final
    /\ stage[w] = "record" /\ verdict[w] = "sent" => current[w] \in delivered

\* A message nobody has submitted leaves no trace.
UnsubmittedUntouched ==
  \A k \in Unshared :
    k \notin submitted => status[k] = "absent" /\ attempts[k] = 0 /\ tries[k] = 0

\* The row of a message in a worker's hands waits for that worker, has an
\* attempt left, and counts every request but the one in flight.
HeldRows ==
  \A k \in Unshared, w \in Workers :
    k \in todo[w] =>
      /\ k \in submitted
      /\ status[k] \in {"absent", "claimed"}
      /\ attempts[k] < MaxAttempts
      /\ tries[k] = IF InFlight(w, k) THEN attempts[k] + 1 ELSE attempts[k]

Inv ==
  /\ TypeOK
  /\ WorkerOK
  /\ ClaimExclusive
  /\ UnsubmittedUntouched
  /\ HeldRows
  /\ AttemptsAccountForTries
  /\ BoundedTries
  /\ SentMeansDelivered

-----------------------------------------------------------------------------

LEMMA RefusalType ==
  ASSUME NEW w, NEW k, config[w] \in Credentials
  PROVE  Refusal(w, k) \in {"absent", "failed_validation", "queued_not_configured",
                            "suppressed_rate_limit"}
BY DEF Refusal, Credentials

LEMMA BatchClaimable ==
  ASSUME NEW batch \in OldestBatches
  PROVE  batch \subseteq {k \in Keys : Claimable(k)}
BY DEF OldestBatches, ClaimableKeys

THEOREM InitInv == Init => Inv
BY SetsAssumption, LimitsAssumption
   DEF Init, Inv, TypeOK, WorkerOK, ClaimExclusive, UnsubmittedUntouched, HeldRows,
       AttemptsAccountForTries, BoundedTries, SentMeansDelivered, Unshared, Workers,
       Stages, Credentials, RowStatuses, Retryable, Final

\* Every step of a system whose workers are in order keeps the types.
LEMMA TypeStep == TypeOK /\ WorkerOK /\ [Next]_vars => TypeOK'
<1> SUFFICES ASSUME TypeOK, WorkerOK, [Next]_vars PROVE TypeOK'
    OBVIOUS
<1> USE SetsAssumption, LimitsAssumption DEF TypeOK, Stages, Credentials, RowStatuses, Retryable, Final
<1>1. ASSUME NEW c \in Credentials, Configure(c) PROVE TypeOK'
    BY <1>1 DEF Configure, table, local, network
<1>2. CASE HourPasses
    BY <1>2 DEF HourPasses, table, local, network
<1>3. ASSUME NEW w \in Callers, NEW k \in Keys, Submit(w, k) PROVE TypeOK'
    BY <1>3 DEF Submit, table, network, Workers
<1>4. ASSUME NEW w \in Drainers, NEW batch \in OldestBatches, Claim(w, batch) PROVE TypeOK'
    BY <1>4, BatchClaimable DEF Claim, network, Workers
<1>5. ASSUME NEW w \in Workers, NEW k \in Keys, Lookup(w, k) PROVE TypeOK'
    BY <1>5 DEF Lookup, Finish, table, network
<1>6. ASSUME NEW w \in Workers, Decide(w) PROVE TypeOK'
    BY <1>6, RefusalType DEF Decide, table, network
<1>7. ASSUME NEW w \in Workers, Transmit(w) PROVE TypeOK'
    BY <1>7 DEF Transmit, Answers, table, WorkerOK
<1>8. ASSUME NEW w \in Workers, Record(w) PROVE TypeOK'
    BY <1>8 DEF Record, Finish, AttemptIncrement, network, WorkerOK
<1>9. ASSUME NEW w \in Workers, Crash(w) PROVE TypeOK'
    BY <1>9 DEF Crash, table, network
<1>10. CASE UNCHANGED vars
    BY <1>10 DEF vars, table, local, network
<1>11. QED
    BY <1>1, <1>2, <1>3, <1>4, <1>5, <1>6, <1>7, <1>8, <1>9, <1>10 DEF Next, Work, Drain

-----------------------------------------------------------------------------
(* The invariant, conjunct by conjunct.  Each lemma covers every action.   *)

LEMMA WorkerStep == Inv /\ [Next]_vars => WorkerOK'
<1> SUFFICES ASSUME Inv, [Next]_vars PROVE WorkerOK'
    OBVIOUS
<1> USE SetsAssumption DEF Inv, TypeOK, WorkerOK, Stages, Retryable, Final
<1>1. ASSUME NEW c \in Credentials, Configure(c) PROVE WorkerOK'
    BY <1>1 DEF Configure, local, network
<1>2. CASE HourPasses
    BY <1>2 DEF HourPasses, local, network
<1>3. ASSUME NEW w \in Callers, NEW k \in Keys, Submit(w, k) PROVE WorkerOK'
    BY <1>3 DEF Submit, network, Workers
<1>4. ASSUME NEW w \in Drainers, NEW batch \in OldestBatches, Claim(w, batch) PROVE WorkerOK'
    BY <1>4 DEF Claim, network, Workers
<1>5. ASSUME NEW w \in Workers, NEW k \in Keys, Lookup(w, k) PROVE WorkerOK'
    BY <1>5 DEF Lookup, Finish, network
<1>6. ASSUME NEW w \in Workers, Decide(w) PROVE WorkerOK'
    BY <1>6, RefusalType DEF Decide, network
<1>7. ASSUME NEW w \in Workers, Transmit(w) PROVE WorkerOK'
    BY <1>7 DEF Transmit, Answers
<1>8. ASSUME NEW w \in Workers, Record(w) PROVE WorkerOK'
    BY <1>8 DEF Record, Finish, network
<1>9. ASSUME NEW w \in Workers, Crash(w) PROVE WorkerOK'
    BY <1>9 DEF Crash, network
<1>10. CASE UNCHANGED vars
    BY <1>10 DEF vars, local, network
<1>11. QED
    BY <1>1, <1>2, <1>3, <1>4, <1>5, <1>6, <1>7, <1>8, <1>9, <1>10 DEF Next, Work, Drain

\* The part of the invariant that is about the unshared messages.
MessageInv ==
  ClaimExclusive /\ UnsubmittedUntouched /\ HeldRows /\ AttemptsAccountForTries /\ BoundedTries

LEMMA MessageStep == Inv /\ [Next]_vars => MessageInv'
<1> SUFFICES ASSUME Inv, [Next]_vars PROVE MessageInv'
    OBVIOUS
<1> USE SetsAssumption, LimitsAssumption
    DEF Inv, TypeOK, WorkerOK, MessageInv, ClaimExclusive, UnsubmittedUntouched, HeldRows, InFlight,
        AttemptsAccountForTries, BoundedTries, Stages, Unshared, RowStatuses, Retryable, Final
<1>1. ASSUME NEW c \in Credentials, Configure(c) PROVE MessageInv'
    BY <1>1 DEF Configure, table, local, network
<1>2. CASE HourPasses
    BY <1>2 DEF HourPasses, table, local, network
<1>3. ASSUME NEW w \in Callers, NEW k \in Keys, Submit(w, k) PROVE MessageInv'
    BY <1>3 DEF Submit, table, network, Workers
<1>4. ASSUME NEW w \in Drainers, NEW batch \in OldestBatches, Claim(w, batch) PROVE MessageInv'
    BY <1>4, BatchClaimable DEF Claim, Claimable, network, Workers
<1>5. ASSUME NEW w \in Workers, NEW k \in Keys, Lookup(w, k) PROVE MessageInv'
    BY <1>5 DEF Lookup, Finish, table, network
<1>6. ASSUME NEW w \in Workers, Decide(w) PROVE MessageInv'
    BY <1>6, RefusalType DEF Decide, table, network
<1>7. ASSUME NEW w \in Workers, Transmit(w) PROVE MessageInv'
    BY <1>7 DEF Transmit, Answers, table
<1>8. ASSUME NEW w \in Workers, Record(w) PROVE MessageInv'
    BY <1>8 DEF Record, Finish, AttemptIncrement, network
<1>9. ASSUME NEW w \in Workers, Crash(w) PROVE MessageInv'
    BY <1>9 DEF Crash, table, network
<1>10. CASE UNCHANGED vars
    BY <1>10 DEF vars, table, local, network
<1>11. QED
    BY <1>1, <1>2, <1>3, <1>4, <1>5, <1>6, <1>7, <1>8, <1>9, <1>10 DEF Next, Work, Drain

LEMMA DeliveredStep == Inv /\ [Next]_vars => SentMeansDelivered'
<1> SUFFICES ASSUME Inv, [Next]_vars PROVE SentMeansDelivered'
    OBVIOUS
<1> USE DEF Inv, TypeOK, WorkerOK, SentMeansDelivered, RowStatuses, Retryable, Final
<1>1. ASSUME NEW w \in Drainers, NEW batch \in OldestBatches, Claim(w, batch)
      PROVE  SentMeansDelivered'
    BY <1>1 DEF Claim, network
<1>2. ASSUME NEW w \in Workers, Transmit(w) PROVE SentMeansDelivered'
    BY <1>2 DEF Transmit, table
<1>3. ASSUME NEW w \in Workers, Record(w) PROVE SentMeansDelivered'
    BY <1>3 DEF Record, network
<1>4. CASE UNCHANGED <<table, network>>
    BY <1>4 DEF table, network
<1>5. QED
    BY <1>1, <1>2, <1>3, <1>4
    DEF Next, Work, Drain, Configure, HourPasses, Submit, Lookup, Decide, Crash, vars

LEMMA InvStep == Inv /\ [Next]_vars => Inv'
BY TypeStep, WorkerStep, MessageStep, DeliveredStep DEF Inv, MessageInv

THEOREM Invariance == Spec => []Inv
<1>1. Init => Inv
    BY InitInv
<1>2. Inv /\ [Next]_vars => Inv'
    BY InvStep
<1>3. QED
    BY <1>1, <1>2, PTL DEF Spec

-----------------------------------------------------------------------------
(* What the runs check on small instances.                                 *)

\* The table, the workers and the history variables keep their types.
THEOREM TypeCorrect == Spec => []TypeOK
<1>1. Inv => TypeOK
    BY DEF Inv
<1>2. QED
    BY <1>1, Invariance, PTL

\* A drain's claim is exclusive: two invocations never work on the same
\* message that one call submitted.
THEOREM ClaimsAreExclusive == Spec => []ClaimExclusive
<1>1. Inv => ClaimExclusive
    BY DEF Inv
<1>2. QED
    BY <1>1, Invariance, PTL

\* Such a message is never sent to Telegram more than MaxAttempts times.
THEOREM TriesAreBounded == Spec => []BoundedTries
<1>1. Inv => BoundedTries
    BY DEF Inv
<1>2. QED
    BY <1>1, Invariance, PTL

\* Its attempt_count is the number of requests made, unless a drain has it.
THEOREM AttemptsAreAccurate == Spec => []AttemptsAccountForTries
<1>1. Inv => AttemptsAccountForTries
    BY DEF Inv
<1>2. QED
    BY <1>1, Invariance, PTL

\* A row that says sent was accepted by Telegram, for every message.
THEOREM SentIsTrue == Spec => []SentMeansDelivered
<1>1. Inv => SentMeansDelivered
    BY DEF Inv
<1>2. QED
    BY <1>1, Invariance, PTL

-----------------------------------------------------------------------------
(* The outbox implements the delivery ledger: a request is the ledger's    *)
(* try, the write of its outcome acknowledges or closes the message, and   *)
(* every other step leaves the ledger alone.                               *)

ledger == <<[k \in Unshared |-> LedgerOutcome(k)], [k \in Unshared |-> tries[k]]>>

LEMMA LedgerStep == Inv /\ [Next]_vars => [Ledger!Next]_ledger
<1> SUFFICES ASSUME Inv, [Next]_vars PROVE [Ledger!Next]_ledger
    OBVIOUS
<1> USE DEF Inv, TypeOK, WorkerOK, HeldRows, Unshared
<1>1. ASSUME NEW w \in Workers, Transmit(w) PROVE [Ledger!Next]_ledger
    <2> DEFINE k == current[w]
    <2>1. CASE k \in Unshared
        <3>1. Ledger!Try(k)
            BY <1>1, <2>1 DEF Transmit, Ledger!Try, LedgerOutcome, InFlight, table, Final
        <3>2. Ledger!Next
            BY <2>1, <3>1 DEF Ledger!Next, Ledger!Try
        <3>3. QED
            BY <3>2
    <2>2. CASE k \notin Unshared
        BY <1>1, <2>2 DEF Transmit, LedgerOutcome, table, ledger
    <2>3. QED
        BY <2>1, <2>2
<1>2. ASSUME NEW w \in Workers, Record(w), current[w] \in Unshared
      PROVE  [Ledger!Next]_ledger
    <2> DEFINE k == current[w]
    <2>1. /\ k \in todo[w] /\ k \in Unshared
          /\ status[k] \in {"absent", "claimed"}
          /\ status' = [status EXCEPT ![k] = verdict[w]]
          /\ tries' = tries
        BY <1>2 DEF Record, network
    <2>2. CASE verdict[w] = "sent"
        <3>1. tries[k] > 0
            BY <1>2, <2>1, <2>2 DEF Record, InFlight
        <3>2. Ledger!Acknowledge(k)
            BY <2>1, <2>2, <3>1 DEF Ledger!Acknowledge, LedgerOutcome, Final
        <3>3. QED
            BY <2>1, <3>2 DEF Ledger!Next
    <2>3. CASE verdict[w] \in Final \ {"sent"}
        <3>1. Ledger!Close(k)
            BY <2>1, <2>3 DEF Ledger!Close, LedgerOutcome, Final
        <3>2. QED
            BY <2>1, <3>1 DEF Ledger!Next
    <2>4. CASE verdict[w] \in Retryable
        BY <2>1, <2>4 DEF LedgerOutcome, Retryable, Final, ledger
    <2>5. QED
        BY <1>2, <2>2, <2>3, <2>4 DEF Record
<1>3. ASSUME NEW w \in Workers, Record(w), current[w] \notin Unshared
      PROVE  UNCHANGED ledger
    BY <1>3 DEF Record, LedgerOutcome, network, ledger
<1>4. ASSUME NEW w \in Drainers, NEW batch \in OldestBatches, Claim(w, batch)
      PROVE  UNCHANGED ledger
    BY <1>4, BatchClaimable
    DEF Claim, Claimable, LedgerOutcome, network, Retryable, Final, ledger
<1>5. CASE UNCHANGED <<table, network>>
    BY <1>5 DEF LedgerOutcome, table, network, ledger
<1>6. QED
    BY <1>1, <1>2, <1>3, <1>4, <1>5
    DEF Next, Work, Drain, Configure, HourPasses, Submit, Lookup, Decide, Crash, vars

\* Spec implements DeliveryLedger for the messages that one call submits.
THEOREM OutboxImplementsLedger == Spec => LedgerSpec
<1>1. Init => Ledger!Init
    BY DEF Init, Ledger!Init, LedgerOutcome, Unshared, Final
<1>2. Inv /\ [Next]_vars => [Ledger!Next]_ledger
    BY LedgerStep
<1>3. QED
    BY <1>1, <1>2, Invariance, PTL DEF Spec, LedgerSpec, Ledger!Spec, ledger
-----------------------------------------------------------------------------
(* What holds of every message, shared or not, is counted: rows against    *)
(* deaths, messages of the hour and requests against workers.              *)

LEMMA WorkersAreFinite ==
  /\ IsFiniteSet(Workers)
  /\ Cardinality(Workers) \in Nat
  /\ Cardinality(Workers) > 0
<1>1. IsFiniteSet(Workers)
    BY FiniteAssumption, FS_Union DEF Workers
<1>2. Cardinality(Workers) \in Nat
    BY <1>1, FS_CardinalityType
<1>3. Workers # {}
    BY FiniteAssumption DEF Workers
<1>4. Cardinality(Workers) # 0
    BY <1>1, <1>3, FS_EmptySet
<1>5. QED
    BY <1>1, <1>2, <1>4

LEMMA SomeWorkers ==
  ASSUME NEW S \in SUBSET Workers
  PROVE  IsFiniteSet(S) /\ Cardinality(S) \in Nat /\ Cardinality(S) <= Cardinality(Workers)
BY WorkersAreFinite, FS_Subset, FS_CardinalityType

LEMMA SomeKeys ==
  ASSUME NEW S \in SUBSET Keys
  PROVE  IsFiniteSet(S) /\ Cardinality(S) \in Nat
BY FiniteAssumption, FS_Subset, FS_CardinalityType

\* A set that gains one element at most, and one that loses one.
LEMMA GainsOne ==
  ASSUME NEW S, IsFiniteSet(S), NEW x, NEW T, T \subseteq S \cup {x}
  PROVE  Cardinality(T) \in Nat /\ Cardinality(S) \in Nat /\ Cardinality(T) <= Cardinality(S) + 1
<1>1. Cardinality(S) \in Nat
    BY FS_CardinalityType
<1>2. IsFiniteSet(S \cup {x}) /\ Cardinality(S \cup {x}) <= Cardinality(S) + 1
    BY <1>1, FS_AddElement
<1>3. Cardinality(T) <= Cardinality(S \cup {x}) /\ IsFiniteSet(T)
    BY <1>2, FS_Subset
<1>4. Cardinality(T) \in Nat /\ Cardinality(S \cup {x}) \in Nat
    BY <1>2, <1>3, FS_CardinalityType
<1>5. QED
    BY <1>1, <1>2, <1>3, <1>4

LEMMA LosesOne ==
  ASSUME NEW S, IsFiniteSet(S), NEW x \in S, NEW T, T \subseteq S \ {x}
  PROVE  Cardinality(T) \in Nat /\ Cardinality(S) \in Nat /\ Cardinality(T) <= Cardinality(S) - 1
<1>1. Cardinality(S) \in Nat
    BY FS_CardinalityType
<1>2. IsFiniteSet(S \ {x}) /\ Cardinality(S \ {x}) = Cardinality(S) - 1
    BY FS_RemoveElement
<1>3. Cardinality(T) <= Cardinality(S \ {x}) /\ IsFiniteSet(T)
    BY <1>2, FS_Subset
<1>4. Cardinality(T) \in Nat
    BY <1>3, FS_CardinalityType
<1>5. QED
    BY <1>1, <1>2, <1>3, <1>4

(***************************************************************************)
(* Stranded rows: a worker has one batch in hand at most, an idle one      *)
(* none, so only its death leaves a claimed row in nobody's hands.         *)
(***************************************************************************)

HandsOK ==
  \A w \in Workers :
    /\ stage[w] = "idle" => todo[w] = {}
    /\ Cardinality(todo[w]) <= BatchSize

LEMMA HandsStep == Inv /\ HandsOK /\ [Next]_vars => HandsOK'
<1> SUFFICES ASSUME Inv, HandsOK, [Next]_vars PROVE HandsOK'
    OBVIOUS
<1>0. TypeOK /\ \A w \in Workers : todo[w] \in SUBSET Keys
    BY DEF Inv, TypeOK
<1> USE DEF TypeOK, HandsOK
<1>1. ASSUME NEW w \in Callers, NEW k \in Keys, Submit(w, k) PROVE HandsOK'
    <2>1. Cardinality({k}) = 1
        BY FS_Singleton
    <2>2. 1 <= BatchSize
        BY LimitsAssumption
    <2>3. QED
        BY <1>0, <1>1, <2>1, <2>2 DEF Submit, Workers
<1>2. ASSUME NEW w \in Drainers, NEW batch \in OldestBatches, Claim(w, batch) PROVE HandsOK'
    <2>1. batch \in SUBSET Keys /\ ClaimableKeys \in SUBSET Keys
        BY DEF OldestBatches, ClaimableKeys
    <2>2. Cardinality(batch) <= BatchSize
        BY <2>1, SomeKeys, LimitsAssumption DEF OldestBatches, Least
    <2>3. QED
        BY <1>0, <1>2, <2>2 DEF Claim, Workers
<1>3. ASSUME NEW w \in Workers, NEW k \in Keys, Finish(w, k), stage[w] # "idle" PROVE HandsOK'
    <2>1. Cardinality(todo[w] \ {k}) <= BatchSize
        <3>1. Cardinality(todo[w] \ {k}) <= Cardinality(todo[w])
            BY <1>0, SomeKeys, FS_Subset
        <3>2. todo[w] \ {k} \in SUBSET Keys
            BY <1>0
        <3>3. QED
            BY <1>0, <3>1, <3>2, SomeKeys, LimitsAssumption
    <2>2. todo[w] = {k} => todo[w] \ {k} = {}
        OBVIOUS
    <2>3. QED
        BY <1>0, <1>3, <2>1, <2>2 DEF Finish
<1>4. ASSUME NEW w \in Workers, NEW k \in Keys, Lookup(w, k) PROVE HandsOK'
    BY <1>0, <1>3, <1>4 DEF Lookup
<1>5. ASSUME NEW w \in Workers, Record(w) PROVE HandsOK'
    <2>1. current[w] \in Keys /\ Finish(w, current[w]) /\ stage[w] # "idle"
        BY <1>0, <1>5 DEF Record, Inv, WorkerOK
    <2>2. QED
        BY <1>3, <2>1
<1>6. ASSUME NEW w \in Workers, Crash(w) PROVE HandsOK'
    <2>1. Cardinality({}) <= BatchSize
        BY FS_EmptySet, LimitsAssumption
    <2>2. QED
        BY <1>0, <1>6, <2>1 DEF Crash
<1>7. ASSUME NEW w \in Workers, Decide(w) \/ Transmit(w) PROVE HandsOK'
    BY <1>0, <1>7 DEF Decide, Transmit
<1>8. CASE UNCHANGED <<todo, stage>>
    BY <1>8
<1>9. QED
    BY <1>1, <1>2, <1>4, <1>5, <1>6, <1>7, <1>8
    DEF Next, Work, Drain, Configure, HourPasses, vars, local

\* Only a death leaves a claimed row in nobody's hands.
LEMMA OrphansStep ==
  ASSUME Inv, HandsOK, [Next]_vars
  PROVE  \/ Orphans' \subseteq Orphans /\ crashes' = crashes
         \/ \E w \in Workers : Orphans' \subseteq Orphans \cup todo[w] /\ crashes' = crashes + 1
<1> USE DEF Inv, TypeOK, WorkerOK, HandsOK
<1>1. ASSUME NEW w \in Callers, NEW k \in Keys, Submit(w, k)
      PROVE  Orphans' \subseteq Orphans /\ crashes' = crashes
    BY <1>1 DEF Submit, Orphans, table, Workers
<1>2. ASSUME NEW w \in Drainers, NEW batch \in OldestBatches, Claim(w, batch)
      PROVE  Orphans' \subseteq Orphans /\ crashes' = crashes
    BY <1>2 DEF Claim, Orphans, Workers
<1>3. ASSUME NEW w \in Workers, NEW k \in Keys, Lookup(w, k)
      PROVE  Orphans' \subseteq Orphans /\ crashes' = crashes
    BY <1>3 DEF Lookup, Finish, Orphans, table
<1>4. ASSUME NEW w \in Workers, Record(w)
      PROVE  Orphans' \subseteq Orphans /\ crashes' = crashes
    BY <1>4 DEF Record, Finish, Orphans, Retryable, Final
<1>5. ASSUME NEW w \in Workers, Crash(w)
      PROVE  Orphans' \subseteq Orphans \cup todo[w] /\ crashes' = crashes + 1
    BY <1>5 DEF Crash, Orphans, table
<1>6. ASSUME UNCHANGED <<status, todo, crashes>>
      PROVE  Orphans' \subseteq Orphans /\ crashes' = crashes
    BY <1>6 DEF Orphans
<1>7. QED
    BY <1>1, <1>2, <1>3, <1>4, <1>5, <1>6
    DEF Next, Work, Drain, Configure, HourPasses, Decide, Transmit, table, local, vars

LEMMA StrandedStep == Inv /\ HandsOK /\ StrandedPerCrash /\ [Next]_vars => StrandedPerCrash'
<1> SUFFICES ASSUME Inv, HandsOK, StrandedPerCrash, [Next]_vars PROVE StrandedPerCrash'
    OBVIOUS
<1>1. Orphans \in SUBSET Keys /\ Cardinality(Orphans) <= BatchSize * crashes /\ crashes \in Nat
    BY DEF Orphans, StrandedPerCrash, Inv, TypeOK
<1>2. BatchSize * crashes \in Nat /\ BatchSize * (crashes + 1) = BatchSize * crashes + BatchSize
    BY <1>1, LimitsAssumption
<1>3. CASE Orphans' \subseteq Orphans /\ crashes' = crashes
    <2>1. Cardinality(Orphans') <= Cardinality(Orphans)
        BY <1>1, <1>3, SomeKeys, FS_Subset
    <2>2. Orphans' \in SUBSET Keys
        BY <1>1, <1>3
    <2>3. Cardinality(Orphans') <= BatchSize * crashes
        BY <1>1, <1>2, <2>1, <2>2, SomeKeys
    <2>4. QED
        BY <1>3, <2>3 DEF StrandedPerCrash
<1>4. ASSUME NEW w \in Workers, Orphans' \subseteq Orphans \cup todo[w], crashes' = crashes + 1
      PROVE  StrandedPerCrash'
    <2>1. /\ todo[w] \in SUBSET Keys /\ Cardinality(todo[w]) <= BatchSize
          /\ Orphans \cup todo[w] \in SUBSET Keys /\ Orphans \cap todo[w] \in SUBSET Keys
        BY <1>1 DEF Inv, TypeOK, HandsOK
    <2>2. /\ Cardinality(Orphans \cup todo[w])
               = Cardinality(Orphans) + Cardinality(todo[w]) - Cardinality(Orphans \cap todo[w])
          /\ Cardinality(Orphans') <= Cardinality(Orphans \cup todo[w])
        BY <1>1, <1>4, <2>1, SomeKeys, FS_Union, FS_Subset
    <2>3. Orphans' \in SUBSET Keys
        BY <1>4, <2>1
    <2>4. /\ Cardinality(Orphans) \in Nat /\ Cardinality(todo[w]) \in Nat
          /\ Cardinality(Orphans') \in Nat /\ Cardinality(Orphans \cap todo[w]) \in Nat
        BY <1>1, <2>1, <2>3, SomeKeys
    <2>5. Cardinality(Orphans') <= BatchSize * crashes + BatchSize
        BY <1>1, <1>2, <2>1, <2>2, <2>4, LimitsAssumption
    <2>6. QED
        BY <1>2, <1>4, <2>5 DEF StrandedPerCrash
<1>5. QED
    BY <1>3, <1>4, OrphansStep

\* However many drains claim, die and overlap with direct calls, the rows that
\* are claimed and in nobody's hands are a batch for each death at most.
THEOREM DeathsStrandBatches == Spec => []StrandedPerCrash
<1>1. Init => HandsOK /\ StrandedPerCrash
    <2> SUFFICES ASSUME Init PROVE HandsOK /\ StrandedPerCrash
        OBVIOUS
    <2>1. Orphans = {}
        BY DEF Init, Orphans
    <2>2. Cardinality({}) = 0 /\ BatchSize * 0 = 0
        BY FS_EmptySet, LimitsAssumption
    <2>3. QED
        BY <2>1, <2>2, LimitsAssumption DEF Init, HandsOK, StrandedPerCrash
<1>2. QED
    BY <1>1, HandsStep, StrandedStep, Invariance, PTL DEF Spec

(***************************************************************************)
(* The hourly limit: a worker that has passed the check and not yet        *)
(* written its outcome holds one of the messages by which the limit is     *)
(* overrun.                                                                *)
(***************************************************************************)

Limits == {DrainLimit} \cup {DirectLimit[k] : k \in Keys}

\* Workers past the check, with a message that the limit applies to.
Past ==
  {w \in Workers :
     /\ stage[w] = "transmit" \/ (stage[w] = "record" /\ verdict[w] = "sent")
     /\ current[w] \notin Immediate}

OverrunIsPast ==
  \E limit \in Limits :
    Cardinality(LimitedSent) + Cardinality(Past) < limit + Cardinality(Workers)

LEMMA LimitsAreNumbers == Limits \subseteq Nat
BY LimitsAssumption DEF Limits

LEMMA HourCounts ==
  /\ IsFiniteSet(LimitedSent) /\ Cardinality(LimitedSent) \in Nat
  /\ IsFiniteSet(Past) /\ Cardinality(Past) \in Nat
  /\ Cardinality(Past) <= Cardinality(Workers) /\ Cardinality(Workers) \in Nat
<1>1. LimitedSent \in SUBSET Keys /\ Past \in SUBSET Workers
    BY DEF LimitedSent, Past
<1>2. QED
    BY <1>1, SomeKeys, SomeWorkers, WorkersAreFinite

\* Neither more messages of the hour nor more workers past the check.
LEMMA NoOverrun ==
  ASSUME OverrunIsPast,
         LimitedSent' \subseteq LimitedSent, Past' \subseteq Past
  PROVE  OverrunIsPast'
<1>1. /\ Cardinality(LimitedSent') <= Cardinality(LimitedSent) /\ Cardinality(LimitedSent') \in Nat
      /\ Cardinality(Past') <= Cardinality(Past) /\ Cardinality(Past') \in Nat
    BY HourCounts, FS_Subset, FS_CardinalityType
<1>2. PICK limit \in Limits :
        Cardinality(LimitedSent) + Cardinality(Past) < limit + Cardinality(Workers)
    BY DEF OverrunIsPast
<1>3. Cardinality(LimitedSent') + Cardinality(Past') < limit + Cardinality(Workers)
    BY <1>1, <1>2, HourCounts, LimitsAreNumbers
<1>4. QED
    BY <1>3 DEF OverrunIsPast, Limits, Workers

LEMMA OverrunStep == Inv /\ OverrunIsPast /\ [Next]_vars => OverrunIsPast'
<1> SUFFICES ASSUME Inv, OverrunIsPast, [Next]_vars PROVE OverrunIsPast'
    OBVIOUS
<1> USE DEF Inv, TypeOK, WorkerOK
<1>1. ASSUME NEW w \in Callers, NEW k \in Keys, Submit(w, k) PROVE OverrunIsPast'
    <2>1. LimitedSent' = LimitedSent /\ Past' \subseteq Past
        BY <1>1 DEF Submit, LimitedSent, Past, table, Workers
    <2>2. QED
        BY <2>1, NoOverrun
<1>2. ASSUME NEW w \in Drainers, NEW batch \in OldestBatches, Claim(w, batch) PROVE OverrunIsPast'
    <2>1. LimitedSent' \subseteq LimitedSent /\ Past' \subseteq Past
        BY <1>2 DEF Claim, LimitedSent, Past, Workers
    <2>2. QED
        BY <2>1, NoOverrun
<1>3. ASSUME NEW w \in Workers, NEW k \in Keys, Lookup(w, k) PROVE OverrunIsPast'
    <2>1. LimitedSent' = LimitedSent /\ Past' \subseteq Past
        BY <1>3 DEF Lookup, Finish, LimitedSent, Past, table
    <2>2. QED
        BY <2>1, NoOverrun
<1>4. ASSUME NEW w \in Workers, Decide(w) PROVE OverrunIsPast'
    <2> DEFINE k == current[w]
    <2>1. LimitedSent' = LimitedSent /\ k \in Keys
        BY <1>4 DEF Decide, LimitedSent, table
    <2>2. CASE Refusal(w, k) # "absent" \/ k \in Immediate
        <3>1. Refusal(w, k) # "sent"
            BY RefusalType
        <3>2. Past' \subseteq Past
            BY <1>4, <2>2, <3>1 DEF Decide, Past
        <3>3. QED
            BY <2>1, <3>2, NoOverrun
    <2>3. CASE Refusal(w, k) = "absent" /\ k \notin Immediate
        <3>1. ~OverLimit(w, k)
            BY <2>3 DEF Refusal
        <3>2. HourlyLimit(w, k) \in Limits /\ HourlyLimit(w, k) \in Nat
            BY <2>1, LimitsAssumption DEF HourlyLimit, Limits
        <3>3. Cardinality(LimitedSent) <= SentLastHour /\ SentLastHour \in Nat
            <4>1. /\ {x \in Keys : status[x] = "sent" /\ created[x] > horizon} \in SUBSET Keys
                  /\ LimitedSent \subseteq {x \in Keys : status[x] = "sent" /\ created[x] > horizon}
                BY DEF LimitedSent
            <4>2. QED
                BY <4>1, SomeKeys, FS_Subset DEF SentLastHour
        <3>4. SentLastHour < HourlyLimit(w, k)
            BY <2>3, <3>1, <3>2, <3>3 DEF OverLimit
        <3>5. Past' \in SUBSET Workers
            BY DEF Past, Workers
        <3>6. Cardinality(Past') \in Nat /\ Cardinality(Past') <= Cardinality(Workers)
            BY <3>5, SomeWorkers
        <3>7. Cardinality(LimitedSent') + Cardinality(Past') < HourlyLimit(w, k) + Cardinality(Workers)
            BY <2>1, <3>2, <3>3, <3>4, <3>6, HourCounts
        <3>8. QED
            BY <3>2, <3>7 DEF OverrunIsPast, Limits, Workers
    <2>4. QED
        BY <2>2, <2>3
<1>5. ASSUME NEW w \in Workers, Transmit(w) PROVE OverrunIsPast'
    <2>1. LimitedSent' = LimitedSent /\ Past' \subseteq Past
        BY <1>5 DEF Transmit, LimitedSent, Past, table
    <2>2. QED
        BY <2>1, NoOverrun
<1>6. ASSUME NEW w \in Workers, Record(w) PROVE OverrunIsPast'
    <2> DEFINE k == current[w]
    <2>1. Past' \subseteq Past \ {w}
        BY <1>6 DEF Record, Finish, Past
    <2>2. CASE verdict[w] # "sent" \/ k \in Immediate \/ k \in LimitedSent
        <3>1. LimitedSent' \subseteq LimitedSent
            BY <1>6, <2>2 DEF Record, Finish, LimitedSent
        <3>2. QED
            BY <2>1, <3>1, NoOverrun
    <2>3. CASE verdict[w] = "sent" /\ k \notin Immediate
        <3>1. w \in Past
            BY <1>6, <2>3 DEF Record, Past
        <3>2. LimitedSent' \subseteq LimitedSent \cup {k}
            BY <1>6 DEF Record, Finish, LimitedSent
        <3>3. /\ Cardinality(Past') \in Nat /\ Cardinality(Past') <= Cardinality(Past) - 1
              /\ Cardinality(LimitedSent') \in Nat
              /\ Cardinality(LimitedSent') <= Cardinality(LimitedSent) + 1
            <4>1. IsFiniteSet(Past) /\ IsFiniteSet(LimitedSent)
                BY HourCounts
            <4>2. Cardinality(Past') \in Nat /\ Cardinality(Past') <= Cardinality(Past) - 1
                BY <2>1, <3>1, <4>1, LosesOne
            <4>3. /\ Cardinality(LimitedSent') \in Nat
                  /\ Cardinality(LimitedSent') <= Cardinality(LimitedSent) + 1
                BY <3>2, <4>1, GainsOne
            <4>4. QED
                BY <4>2, <4>3
        <3>4. PICK limit \in Limits :
                Cardinality(LimitedSent) + Cardinality(Past) < limit + Cardinality(Workers)
            BY DEF OverrunIsPast
        <3>5. Cardinality(LimitedSent') + Cardinality(Past') < limit + Cardinality(Workers)
            BY <3>3, <3>4, HourCounts, LimitsAreNumbers
        <3>6. QED
            BY <3>5 DEF OverrunIsPast, Limits, Workers
    <2>4. QED
        BY <2>2, <2>3
<1>7. ASSUME NEW w \in Workers, Crash(w) PROVE OverrunIsPast'
    <2>1. LimitedSent' = LimitedSent /\ Past' \subseteq Past
        BY <1>7 DEF Crash, LimitedSent, Past, table
    <2>2. QED
        BY <2>1, NoOverrun
<1>8. CASE HourPasses
    <2>1. LimitedSent' \subseteq LimitedSent /\ Past' = Past
        BY <1>8 DEF HourPasses, LimitedSent, Past, table, local
    <2>2. QED
        BY <2>1, NoOverrun
<1>9. CASE UNCHANGED <<table, local, horizon>>
    <2>1. LimitedSent' = LimitedSent /\ Past' = Past
        BY <1>9 DEF LimitedSent, Past, table, local
    <2>2. QED
        BY <2>1, NoOverrun
<1>10. QED
    BY <1>1, <1>2, <1>3, <1>4, <1>5, <1>6, <1>7, <1>8, <1>9 DEF Next, Work, Drain, Configure, vars

\* The count of the hour is read before the send it guards: concurrent workers
\* exceed the largest limit in use by less than one message each.  The messages
\* counted are those created and sent within the hour: one created earlier and
\* sent now is counted neither by the code nor here.
THEOREM LimitIsOverrunByWorkers == Spec => []HourlyLimitHolds
<1>1. Init => OverrunIsPast
    <2> SUFFICES ASSUME Init PROVE OverrunIsPast
        OBVIOUS
    <2>1. LimitedSent = {} /\ Past = {}
        BY DEF Init, LimitedSent, Past
    <2>2. Cardinality({}) = 0
        BY FS_EmptySet
    <2>3. DrainLimit \in Limits /\ 0 + 0 < DrainLimit + Cardinality(Workers)
        BY WorkersAreFinite, LimitsAssumption DEF Limits
    <2>4. QED
        BY <2>1, <2>2, <2>3 DEF OverrunIsPast
<1>2. OverrunIsPast => HourlyLimitHolds
    <2> SUFFICES ASSUME OverrunIsPast PROVE HourlyLimitHolds
        OBVIOUS
    <2>1. PICK limit \in Limits :
            Cardinality(LimitedSent) + Cardinality(Past) < limit + Cardinality(Workers)
        BY DEF OverrunIsPast
    <2>2. Cardinality(LimitedSent) < limit + Cardinality(Workers)
        BY <2>1, HourCounts, LimitsAreNumbers
    <2>3. QED
        BY <2>2 DEF HourlyLimitHolds, Limits
<1>3. QED
    BY <1>1, <1>2, OverrunStep, Invariance, PTL DEF Spec

(***************************************************************************)
(* Requests: attempt_count misses the requests whose outcome is in a       *)
(* worker's hands, and those whose outcome died with one.                  *)
(***************************************************************************)

\* Workers that have the outcome of a request for k, and those that have it
\* or are past the check of the budget.
Reporting(k) == {w \in Workers : InFlight(w, k)}
Trying(k) ==
  {w \in Workers : current[w] = k /\ (stage[w] \in {"count", "transmit"} \/ InFlight(w, k))}

BudgetOK ==
  \A k \in Keys :
    /\ tries[k] <= attempts[k] + Cardinality(Reporting(k)) + crashes
    /\ attempts[k] + Cardinality(Trying(k)) < MaxAttempts + Cardinality(Workers)

LEMMA RequestCounts ==
  ASSUME NEW k
  PROVE  /\ IsFiniteSet(Reporting(k)) /\ Cardinality(Reporting(k)) \in Nat
         /\ IsFiniteSet(Trying(k)) /\ Cardinality(Trying(k)) \in Nat
         /\ Cardinality(Reporting(k)) <= Cardinality(Trying(k))
<1>1. Reporting(k) \in SUBSET Workers /\ Trying(k) \in SUBSET Workers
    BY DEF Reporting, Trying
<1>2. Reporting(k) \subseteq Trying(k)
    BY DEF Reporting, Trying, InFlight
<1>3. QED
    BY <1>1, <1>2, SomeWorkers, FS_Subset

\* A step that changes no count and takes nobody up for k.
LEMMA NobodyTries ==
  ASSUME Inv, BudgetOK, NEW k \in Keys, tries'[k] = tries[k], attempts'[k] = attempts[k],
         crashes' = crashes, Reporting(k)' = Reporting(k), Trying(k)' \subseteq Trying(k)
  PROVE  /\ tries'[k] <= attempts'[k] + Cardinality(Reporting(k)') + crashes'
         /\ attempts'[k] + Cardinality(Trying(k)') < MaxAttempts + Cardinality(Workers)
<1>1. Cardinality(Trying(k)') <= Cardinality(Trying(k)) /\ Cardinality(Trying(k)') \in Nat
    BY RequestCounts, FS_Subset, FS_CardinalityType
<1>2. attempts[k] \in Nat /\ MaxAttempts \in Nat
    BY LimitsAssumption DEF Inv, TypeOK
<1>3. QED
    BY <1>1, <1>2, RequestCounts, WorkersAreFinite DEF BudgetOK

LEMMA BudgetStep == Inv /\ BudgetOK /\ [Next]_vars => BudgetOK'
<1> SUFFICES ASSUME Inv, BudgetOK, [Next]_vars, NEW k \in Keys
             PROVE  /\ tries'[k] <= attempts'[k] + Cardinality(Reporting(k)') + crashes'
                    /\ attempts'[k] + Cardinality(Trying(k)') < MaxAttempts + Cardinality(Workers)
    BY DEF BudgetOK, Workers
<1> DEFINE Kept == /\ tries'[k] <= attempts'[k] + Cardinality(Reporting(k)') + crashes'
                   /\ attempts'[k] + Cardinality(Trying(k)') < MaxAttempts + Cardinality(Workers)
<1>0. /\ tries[k] \in Nat /\ attempts[k] \in Nat /\ crashes \in Nat
      /\ MaxAttempts \in Nat /\ MaxAttempts > 0 /\ Cardinality(Workers) \in Nat
      /\ tries[k] <= attempts[k] + Cardinality(Reporting(k)) + crashes
      /\ attempts[k] + Cardinality(Trying(k)) < MaxAttempts + Cardinality(Workers)
    BY LimitsAssumption, WorkersAreFinite DEF Inv, TypeOK, BudgetOK
<1> USE DEF Inv, TypeOK, WorkerOK
<1>1. ASSUME NEW w \in Callers, NEW x \in Keys, Submit(w, x) PROVE Kept
    <2>1. /\ tries' = tries /\ attempts' = attempts /\ crashes' = crashes
          /\ Reporting(k)' = Reporting(k) /\ Trying(k)' \subseteq Trying(k)
        BY <1>1 DEF Submit, Reporting, Trying, InFlight, table, network, Workers
    <2>2. QED
        BY <2>1, NobodyTries
<1>2. ASSUME NEW w \in Drainers, NEW batch \in OldestBatches, Claim(w, batch) PROVE Kept
    <2>1. /\ tries' = tries /\ attempts' = attempts /\ crashes' = crashes
          /\ Reporting(k)' = Reporting(k) /\ Trying(k)' \subseteq Trying(k)
        BY <1>2 DEF Claim, Reporting, Trying, InFlight, network, Workers
    <2>2. QED
        BY <2>1, NobodyTries
<1>3. ASSUME NEW w \in Workers, NEW x \in Keys, Lookup(w, x) PROVE Kept
    <2>1. /\ tries' = tries /\ attempts' = attempts /\ crashes' = crashes
          /\ Reporting(k)' = Reporting(k)
        BY <1>3 DEF Lookup, Finish, Reporting, InFlight, table, network
    <2>2. CASE x = k /\ status[k] # "sent" /\ attempts[k] < MaxAttempts
        <3>1. Trying(k)' \in SUBSET Workers
            BY DEF Trying, Workers
        <3>2. Cardinality(Trying(k)') \in Nat /\ Cardinality(Trying(k)') <= Cardinality(Workers)
            BY <3>1, SomeWorkers
        <3>3. QED
            BY <1>0, <2>1, <2>2, <3>2
    <2>3. CASE ~(x = k /\ status[k] # "sent" /\ attempts[k] < MaxAttempts)
        <3>1. Trying(k)' \subseteq Trying(k)
            BY <1>3, <2>3, SetsAssumption DEF Lookup, Finish, Trying, InFlight
        <3>2. QED
            BY <2>1, <3>1, NobodyTries
    <2>4. QED
        BY <2>2, <2>3
<1>4. ASSUME NEW w \in Workers, Decide(w) PROVE Kept
    <2>1. Refusal(w, current[w]) \notin {"sent", "failed"}
        BY RefusalType
    <2>2. /\ tries' = tries /\ attempts' = attempts /\ crashes' = crashes
          /\ Reporting(k)' = Reporting(k) /\ Trying(k)' \subseteq Trying(k)
        BY <1>4, <2>1 DEF Decide, Reporting, Trying, InFlight, table, network
    <2>3. QED
        BY <2>2, NobodyTries
<1>5. ASSUME NEW w \in Workers, Transmit(w) PROVE Kept
    <2>1. attempts' = attempts /\ crashes' = crashes
        BY <1>5 DEF Transmit, table
    <2>2. CASE current[w] # k
        <3>1. tries'[k] = tries[k] /\ Reporting(k)' = Reporting(k) /\ Trying(k)' = Trying(k)
            BY <1>5, <2>2 DEF Transmit, Reporting, Trying, InFlight
        <3>2. QED
            BY <2>1, <3>1, NobodyTries
    <2>3. CASE current[w] = k
        <3>1. tries'[k] = tries[k] + 1
            BY <1>5, <2>3 DEF Transmit
        <3>2. Trying(k)' = Trying(k)
            BY <1>5, <2>3 DEF Transmit, Answers, Trying, InFlight
        <3>3. w \notin Reporting(k) /\ Reporting(k)' = Reporting(k) \cup {w}
            BY <1>5, <2>3 DEF Transmit, Answers, Reporting, InFlight
        <3>4. Cardinality(Reporting(k)') = Cardinality(Reporting(k)) + 1
            BY <3>3, RequestCounts, FS_AddElement
        <3>5. QED
            BY <1>0, <2>1, <3>1, <3>2, <3>4, RequestCounts
    <2>4. QED
        BY <2>2, <2>3
<1>6. ASSUME NEW w \in Workers, Record(w) PROVE Kept
    <2>1. tries' = tries /\ crashes' = crashes
        BY <1>6 DEF Record, network
    <2>2. CASE ~InFlight(w, k)
        <3>1. attempts'[k] = attempts[k]
            BY <1>6, <2>2 DEF Record, InFlight, AttemptIncrement
        <3>2. Reporting(k)' = Reporting(k) /\ Trying(k)' \subseteq Trying(k)
            BY <1>6, <2>2, SetsAssumption DEF Record, Finish, Reporting, Trying, InFlight
        <3>3. QED
            BY <2>1, <3>1, <3>2, NobodyTries
    <2>3. CASE InFlight(w, k)
        <3>1. attempts'[k] = attempts[k] + 1
            BY <1>6, <2>3 DEF Record, InFlight, AttemptIncrement
        <3>2. w \in Reporting(k) /\ Reporting(k)' = Reporting(k) \ {w}
            BY <1>6, <2>3, SetsAssumption DEF Record, Finish, Reporting, InFlight
        <3>3. w \in Trying(k) /\ Trying(k)' = Trying(k) \ {w}
            BY <1>6, <2>3, SetsAssumption DEF Record, Finish, Trying, InFlight
        <3>4. /\ Cardinality(Reporting(k)') = Cardinality(Reporting(k)) - 1
              /\ Cardinality(Trying(k)') = Cardinality(Trying(k)) - 1
            BY <3>2, <3>3, RequestCounts, FS_RemoveElement
        <3>5. QED
            BY <1>0, <2>1, <3>1, <3>4, RequestCounts
    <2>4. QED
        BY <2>2, <2>3
<1>7. ASSUME NEW w \in Workers, Crash(w) PROVE Kept
    <2>1. tries' = tries /\ attempts' = attempts /\ crashes' = crashes + 1
        BY <1>7 DEF Crash, table, network
    <2>2. /\ Reporting(k)' \subseteq Reporting(k) /\ Reporting(k) \subseteq Reporting(k)' \cup {w}
          /\ Trying(k)' \subseteq Trying(k)
        BY <1>7, SetsAssumption DEF Crash, Reporting, Trying, InFlight
    <2>3. Cardinality(Reporting(k)) <= Cardinality(Reporting(k)') + 1
          /\ Cardinality(Reporting(k)') \in Nat
        <3>1. IsFiniteSet(Reporting(k)')
            BY <2>2, RequestCounts, FS_Subset
        <3>2. QED
            BY <2>2, <3>1, GainsOne
    <2>4. Cardinality(Trying(k)') <= Cardinality(Trying(k)) /\ Cardinality(Trying(k)') \in Nat
        BY <2>2, RequestCounts, FS_Subset, FS_CardinalityType
    <2>5. QED
        BY <1>0, <2>1, <2>3, <2>4, RequestCounts
<1>8. CASE UNCHANGED <<table, local, network, crashes>>
    <2>1. /\ tries' = tries /\ attempts' = attempts /\ crashes' = crashes
          /\ Reporting(k)' = Reporting(k) /\ Trying(k)' = Trying(k)
        BY <1>8 DEF Reporting, Trying, InFlight, table, local, network
    <2>2. QED
        BY <2>1, NobodyTries
<1>9. QED
    BY <1>1, <1>2, <1>3, <1>4, <1>5, <1>6, <1>7, <1>8
    DEF Next, Work, Drain, Configure, HourPasses, vars

\* A message that any number of calls submit is requested less often than its
\* attempts, the workers and the deaths together: each worker may have passed
\* the check before another's outcome was written.
THEOREM TriesAreBoundedByWorkers == Spec => []TriesBoundedByWorkers
<1>1. Init => BudgetOK
    <2> SUFFICES ASSUME Init, NEW k \in Keys
                 PROVE  /\ tries[k] <= attempts[k] + Cardinality(Reporting(k)) + crashes
                        /\ attempts[k] + Cardinality(Trying(k)) < MaxAttempts + Cardinality(Workers)
        BY DEF BudgetOK
    <2>1. Reporting(k) = {} /\ Trying(k) = {}
        BY SetsAssumption DEF Init, Reporting, Trying, InFlight
    <2>2. Cardinality({}) = 0
        BY FS_EmptySet
    <2>3. QED
        BY <2>1, <2>2, WorkersAreFinite, LimitsAssumption DEF Init
<1>2. Inv /\ BudgetOK => TriesBoundedByWorkers
    <2> SUFFICES ASSUME Inv, BudgetOK, NEW k \in Keys
                 PROVE  tries[k] < MaxAttempts + Cardinality(Workers) + crashes
        BY DEF TriesBoundedByWorkers
    <2>1. tries[k] \in Nat /\ attempts[k] \in Nat /\ crashes \in Nat /\ MaxAttempts \in Nat
        BY LimitsAssumption DEF Inv, TypeOK
    <2>2. QED
        BY <2>1, RequestCounts, WorkersAreFinite DEF BudgetOK
<1>3. QED
    BY <1>1, <1>2, BudgetStep, Invariance, PTL DEF Spec
=============================================================================
