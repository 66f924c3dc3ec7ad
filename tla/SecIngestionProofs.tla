------------------------- MODULE SecIngestionProofs -------------------------
(***************************************************************************)
(* Proofs about SecIngestion for any watchlist, filings, calls, tries and  *)
(* failures: a mark means that all is stored, nothing is stored twice, and *)
(* no filing of a call that returns is unaccounted for.                    *)
(***************************************************************************)
EXTENDS SecIngestion, TLAPS

Active == {"check", "fetch", "store", "mark", "report"}

\* What a worker knows of its filing at each stage.  Storing goes through the
\* records in order, so those before the index are there: fingerprints stay.
WorkerOK ==
  \A w \in Workers :
    /\ queue[w] # {} => symbol[w] \in Symbols
    /\ stage[w] \in Active => filing[w] \in Ownership
    /\ stage[w] \in {"store", "mark"} => filing[w] \notin Unreadable
    /\ stage[w] = "store" =>
         /\ index[w] \in 1..Size[filing[w]]
         /\ \A n \in 1..Size[filing[w]] : n < index[w] => <<filing[w], n>> \in fingerprints
    /\ stage[w] = "mark" => Complete(filing[w])

InHand(w) == IF stage[w] \in Active THEN {filing[w]} ELSE {}

\* Every filing listed so far is counted, in the worker's hands, or queued.
Covered ==
  \A w \in Workers :
    /\ failed[w] \cup unlisted[w] \subseteq events
    /\ stage[w] = "done" => queue[w] = {} /\ symbols[w] = {}
    /\ stage[w] # "idle" =>
         \A s \in Symbols \ (symbols[w] \cup unlisted[w]) :
           Listed[s] \subseteq succeeded[w] \cup skipped[w] \cup failed[w] \cup queue[w] \cup InHand(w)

Inv ==
  /\ TypeOK
  /\ WorkerOK
  /\ MarkedComplete
  /\ RowsOnce
  /\ CountedIsStored
  /\ Covered

LEMMA RecordIn ==
  ASSUME NEW f \in Filings, NEW n \in 1..Size[f]
  PROVE  <<f, n>> \in AllRecords
BY FilingsAssumption DEF AllRecords, RecordsOf

THEOREM InitInv == Init => Inv
BY FilingsAssumption
   DEF Init, Inv, TypeOK, WorkerOK, MarkedComplete, RowsOnce, CountedIsStored, Covered,
       InHand, Stages, Active, Complete

PlaceOK ==
  /\ stage \in [Workers -> Stages]
  /\ symbols \in [Workers -> SUBSET Symbols]
  /\ symbol \in [Workers -> Symbols \cup {NoSymbol}]
  /\ queue \in [Workers -> SUBSET Filings]
  /\ filing \in [Workers -> Filings \cup {NoFiling}]
  /\ tries \in [Workers -> 0..MaxTries]
  /\ index \in [Workers -> Nat]

LEMMA RetryType ==
  ASSUME TypeOK, NEW w \in Workers, Retry(w)
  PROVE  PlaceOK'
BY FilingsAssumption DEF TypeOK, PlaceOK, Retry, TriesLeft, Stages

LEMMA LeaveType ==
  ASSUME TypeOK, NEW w \in Workers, Leave(w)
  PROVE  PlaceOK'
BY FilingsAssumption DEF TypeOK, PlaceOK, Leave, Stages

LEMMA TypeStep == Inv /\ [Next]_vars => TypeOK'
<1> SUFFICES ASSUME Inv, [Next]_vars PROVE TypeOK'
    OBVIOUS
<1> USE FilingsAssumption DEF Inv, TypeOK, WorkerOK, Stages, Active
<1>1. ASSUME NEW w \in Workers, Start(w) PROVE TypeOK'
    BY <1>1 DEF Start, store
<1>2. ASSUME NEW w \in Workers, NEW s \in Symbols, List(w, s) PROVE TypeOK'
    BY <1>2 DEF List, store
<1>3. ASSUME NEW w \in Workers, Return(w) PROVE TypeOK'
    BY <1>3 DEF Return, store, report
<1>4. ASSUME NEW w \in Workers, NEW f \in Filings, PutNews(w, f) PROVE TypeOK'
  <2>1. symbol[w] \in Symbols /\ f \in Filings
    BY <1>4 DEF PutNews
  <2>2. NewsKey[<<symbol[w], f>>] \in Keys
    BY <2>1 DEF Keys
  <2>3. news' \subseteq Keys \X Filings
    BY <1>4, <2>1, <2>2 DEF PutNews
  <2>4. /\ stage' \in [Workers -> Stages]
        /\ filing' \in [Workers -> Filings \cup {NoFiling}]
        /\ queue' \in [Workers -> SUBSET Filings]
        /\ succeeded' \in [Workers -> SUBSET Filings]
    BY <1>4, <2>1, SMTT(30) DEF PutNews
  <2>5. QED
    BY <1>4, <2>3, <2>4 DEF PutNews
<1>5. ASSUME NEW w \in Workers, Check(w) PROVE TypeOK'
  <2>1. PlaceOK'
    <3>1. CASE Leave(w)
      BY <3>1, LeaveType
    <3>2. CASE ~ Leave(w)
      BY <1>5, <3>2 DEF Check, PlaceOK
    <3>3. QED
      BY <3>1, <3>2
  <2>2. skipped' \in [Workers -> SUBSET Filings]
    BY <1>5 DEF Check
  <2>3. QED
    BY <1>5, <2>1, <2>2 DEF Check, PlaceOK, store
<1>6. ASSUME NEW w \in Workers, Fetch(w) PROVE TypeOK'
  <2>1. CASE Retry(w)
    BY <1>6, <2>1, RetryType DEF Fetch, Fault, PlaceOK, store, report
  <2>2. CASE ~ Retry(w)
    BY <1>6, <2>2 DEF Fetch, AfterFetch, store, report
  <2>3. QED
    BY <2>1, <2>2
<1>7. ASSUME NEW w \in Workers, StoreRecord(w) PROVE TypeOK'
  <2>1. <<filing[w], index[w]>> \in AllRecords
    BY <1>7, RecordIn DEF StoreRecord
  <2>2. Inserted(<<filing[w], index[w]>>) \in [AllRecords -> Nat]
    BY <2>1 DEF Inserted
  <2>3. rows' \in [AllRecords -> Nat] /\ fingerprints' \subseteq AllRecords
    BY <1>7, <2>1, <2>2 DEF StoreRecord
  <2>4. UNCHANGED <<news, marked, events, report>>
    BY <1>7 DEF StoreRecord
  <2>5. faults' \in Nat
    BY <1>7 DEF StoreRecord, Fault
  <2>6. PlaceOK'
    <3>1. CASE Retry(w)
      BY <3>1, RetryType
    <3>2. CASE ~ Retry(w)
      <4>1. /\ index' = [index EXCEPT ![w] = @ + 1]
            /\ stage' = [stage EXCEPT ![w] =
                 IF index[w] = Size[filing[w]] THEN "mark" ELSE "store"]
            /\ UNCHANGED <<symbols, symbol, queue, filing, tries>>
        BY <1>7, <3>2 DEF StoreRecord
      <4>2. QED
        BY <4>1 DEF PlaceOK
    <3>3. QED
      BY <3>1, <3>2
  <2>7. QED
    BY <2>3, <2>4, <2>5, <2>6 DEF PlaceOK, report
<1>8. ASSUME NEW w \in Workers, Mark(w) PROVE TypeOK'
  <2>1. filing[w] \in Ownership
    BY <1>8 DEF Mark
  <2>2. PlaceOK'
    BY <1>8, RetryType, LeaveType DEF Mark
  <2>3. marked' \subseteq Ownership /\ succeeded' \in [Workers -> SUBSET Filings]
    BY <1>8, <2>1 DEF Mark
  <2>4. faults' \in Nat
    BY <1>8 DEF Mark, Fault
  <2>5. QED
    BY <1>8, <2>2, <2>3, <2>4 DEF Mark, PlaceOK
<1>9. ASSUME NEW w \in Workers, Report(w) PROVE TypeOK'
    BY <1>9, LeaveType DEF Report, PlaceOK
<1>10. ASSUME NEW w \in Workers, Die(w) PROVE TypeOK'
    BY <1>10 DEF Die, Fault, store, report
<1>11. CASE UNCHANGED vars
    BY <1>11 DEF vars, store, place, report
<1>12. QED
    BY <1>1, <1>2, <1>3, <1>4, <1>5, <1>6, <1>7, <1>8, <1>9, <1>10, <1>11 DEF Next, Work

LEMMA WorkerStep == Inv /\ [Next]_vars => WorkerOK'
<1> SUFFICES ASSUME Inv, [Next]_vars PROVE WorkerOK'
    OBVIOUS
<1> USE FilingsAssumption DEF Inv, TypeOK, WorkerOK, Active, Stages, Complete, RecordsOf
<1>1. ASSUME NEW w \in Workers, Start(w) PROVE WorkerOK'
    BY <1>1, SMTT(30) DEF Start, store
<1>2. ASSUME NEW w \in Workers, NEW s \in Symbols, List(w, s) PROVE WorkerOK'
    BY <1>2 DEF List, store
<1>3. ASSUME NEW w \in Workers, Return(w) PROVE WorkerOK'
    BY <1>3 DEF Return, store, report
<1>4. ASSUME NEW w \in Workers, NEW f \in Filings, PutNews(w, f) PROVE WorkerOK'
    BY <1>4 DEF PutNews
<1>5. ASSUME NEW w \in Workers, Check(w) PROVE WorkerOK'
    BY <1>5 DEF Check, Leave, Seen, store
<1>6. ASSUME NEW w \in Workers, Fetch(w) PROVE WorkerOK'
    BY <1>6 DEF Fetch, AfterFetch, Retry, TriesLeft, Fault, store, report
<1>7. ASSUME NEW w \in Workers, StoreRecord(w) PROVE WorkerOK'
    BY <1>7 DEF StoreRecord, Inserted, Retry, TriesLeft, Fault, report
<1>8. ASSUME NEW w \in Workers, Mark(w) PROVE WorkerOK'
    BY <1>8 DEF Mark, Leave, Retry, TriesLeft, Fault
<1>9. ASSUME NEW w \in Workers, Report(w) PROVE WorkerOK'
    BY <1>9 DEF Report, Leave
<1>10. ASSUME NEW w \in Workers, Die(w) PROVE WorkerOK'
    BY <1>10 DEF Die, Fault, store, report
<1>11. CASE UNCHANGED vars
    BY <1>11 DEF vars, store, place, report
<1>12. QED
    BY <1>1, <1>2, <1>3, <1>4, <1>5, <1>6, <1>7, <1>8, <1>9, <1>10, <1>11 DEF Next, Work

LEMMA MarkedStep == Inv /\ [Next]_vars => MarkedComplete'
<1> SUFFICES ASSUME Inv, [Next]_vars PROVE MarkedComplete'
    OBVIOUS
<1> USE DEF Inv, TypeOK, WorkerOK, MarkedComplete, Complete
<1>1. ASSUME NEW w \in Workers, Start(w) PROVE MarkedComplete'
    BY <1>1 DEF Start, store
<1>2. ASSUME NEW w \in Workers, NEW s \in Symbols, List(w, s) PROVE MarkedComplete'
    BY <1>2 DEF List, store
<1>3. ASSUME NEW w \in Workers, Return(w) PROVE MarkedComplete'
    BY <1>3 DEF Return, store, report
<1>4. ASSUME NEW w \in Workers, NEW f \in Filings, PutNews(w, f) PROVE MarkedComplete'
    BY <1>4 DEF PutNews
<1>5. ASSUME NEW w \in Workers, Check(w) PROVE MarkedComplete'
    BY <1>5 DEF Check, Leave, Seen, store
<1>6. ASSUME NEW w \in Workers, Fetch(w) PROVE MarkedComplete'
    BY <1>6 DEF Fetch, AfterFetch, Retry, TriesLeft, Fault, store, report
<1>7. ASSUME NEW w \in Workers, StoreRecord(w) PROVE MarkedComplete'
    BY <1>7 DEF StoreRecord, Inserted, Retry, TriesLeft, Fault, report
<1>8. ASSUME NEW w \in Workers, Mark(w) PROVE MarkedComplete'
    BY <1>8 DEF Mark, Leave, Retry, TriesLeft, Fault
<1>9. ASSUME NEW w \in Workers, Report(w) PROVE MarkedComplete'
    BY <1>9 DEF Report, Leave
<1>10. ASSUME NEW w \in Workers, Die(w) PROVE MarkedComplete'
    BY <1>10 DEF Die, Fault, store, report
<1>11. CASE UNCHANGED vars
    BY <1>11 DEF vars, store, place, report
<1>12. QED
    BY <1>1, <1>2, <1>3, <1>4, <1>5, <1>6, <1>7, <1>8, <1>9, <1>10, <1>11 DEF Next, Work

LEMMA RowsStep == Inv /\ [Next]_vars => RowsOnce'
<1> SUFFICES ASSUME Inv, [Next]_vars PROVE RowsOnce'
    OBVIOUS
<1> USE DEF Inv, TypeOK, RowsOnce
<1>1. ASSUME NEW w \in Workers, Start(w) PROVE RowsOnce'
    BY <1>1 DEF Start, store
<1>2. ASSUME NEW w \in Workers, NEW s \in Symbols, List(w, s) PROVE RowsOnce'
    BY <1>2 DEF List, store
<1>3. ASSUME NEW w \in Workers, Return(w) PROVE RowsOnce'
    BY <1>3 DEF Return, store, report
<1>4. ASSUME NEW w \in Workers, NEW f \in Filings, PutNews(w, f) PROVE RowsOnce'
    BY <1>4 DEF PutNews
<1>5. ASSUME NEW w \in Workers, Check(w) PROVE RowsOnce'
    BY <1>5 DEF Check, Leave, Seen, store
<1>6. ASSUME NEW w \in Workers, Fetch(w) PROVE RowsOnce'
    BY <1>6 DEF Fetch, AfterFetch, Retry, TriesLeft, Fault, store, report
<1>7. ASSUME NEW w \in Workers, StoreRecord(w) PROVE RowsOnce'
    BY <1>7 DEF StoreRecord, Inserted, Retry, TriesLeft, Fault, report
<1>8. ASSUME NEW w \in Workers, Mark(w) PROVE RowsOnce'
    BY <1>8 DEF Mark, Leave, Retry, TriesLeft, Fault
<1>9. ASSUME NEW w \in Workers, Report(w) PROVE RowsOnce'
    BY <1>9 DEF Report, Leave
<1>10. ASSUME NEW w \in Workers, Die(w) PROVE RowsOnce'
    BY <1>10 DEF Die, Fault, store, report
<1>11. CASE UNCHANGED vars
    BY <1>11 DEF vars, store, place, report
<1>12. QED
    BY <1>1, <1>2, <1>3, <1>4, <1>5, <1>6, <1>7, <1>8, <1>9, <1>10, <1>11 DEF Next, Work

LEMMA CountedStep == Inv /\ [Next]_vars => CountedIsStored'
<1> SUFFICES ASSUME Inv, [Next]_vars PROVE CountedIsStored'
    OBVIOUS
<1> USE DEF Inv, TypeOK, WorkerOK, MarkedComplete, CountedIsStored, Complete, Active
<1>1. ASSUME NEW w \in Workers, Start(w) PROVE CountedIsStored'
    BY <1>1 DEF Start, store
<1>2. ASSUME NEW w \in Workers, NEW s \in Symbols, List(w, s) PROVE CountedIsStored'
    BY <1>2 DEF List, store
<1>3. ASSUME NEW w \in Workers, Return(w) PROVE CountedIsStored'
    BY <1>3 DEF Return, store, report
<1>4. ASSUME NEW w \in Workers, NEW f \in Filings, PutNews(w, f) PROVE CountedIsStored'
    BY <1>4 DEF PutNews
<1>5. ASSUME NEW w \in Workers, Check(w) PROVE CountedIsStored'
    BY <1>5 DEF Check, Leave, Seen, store
<1>6. ASSUME NEW w \in Workers, Fetch(w) PROVE CountedIsStored'
    BY <1>6 DEF Fetch, AfterFetch, Retry, TriesLeft, Fault, store, report
<1>7. ASSUME NEW w \in Workers, StoreRecord(w) PROVE CountedIsStored'
    BY <1>7 DEF StoreRecord, Inserted, Retry, TriesLeft, Fault, report
<1>8. ASSUME NEW w \in Workers, Mark(w) PROVE CountedIsStored'
    BY <1>8 DEF Mark, Leave, Retry, TriesLeft, Fault
<1>9. ASSUME NEW w \in Workers, Report(w) PROVE CountedIsStored'
    BY <1>9 DEF Report, Leave
<1>10. ASSUME NEW w \in Workers, Die(w) PROVE CountedIsStored'
    BY <1>10 DEF Die, Fault, store, report
<1>11. CASE UNCHANGED vars
    BY <1>11 DEF vars, store, place, report
<1>12. QED
    BY <1>1, <1>2, <1>3, <1>4, <1>5, <1>6, <1>7, <1>8, <1>9, <1>10, <1>11 DEF Next, Work

LEMMA CoveredStep == Inv /\ [Next]_vars => Covered'
<1> SUFFICES ASSUME Inv, [Next]_vars PROVE Covered'
    OBVIOUS
<1> USE FilingsAssumption DEF Inv, TypeOK, Covered, InHand, Active, Stages
<1>1. ASSUME NEW w \in Workers, Start(w) PROVE Covered'
    BY <1>1 DEF Start, store
<1>2. ASSUME NEW w \in Workers, NEW s \in Symbols, List(w, s) PROVE Covered'
    BY <1>2 DEF List, store
<1>3. ASSUME NEW w \in Workers, Return(w) PROVE Covered'
    BY <1>3 DEF Return, store, report
<1>4. ASSUME NEW w \in Workers, NEW f \in Filings, PutNews(w, f) PROVE Covered'
    BY <1>4 DEF PutNews
<1>5. ASSUME NEW w \in Workers, Check(w) PROVE Covered'
    BY <1>5 DEF Check, Leave, Seen, store
<1>6. ASSUME NEW w \in Workers, Fetch(w) PROVE Covered'
    BY <1>6 DEF Fetch, AfterFetch, Retry, TriesLeft, Fault, store, report
<1>7. ASSUME NEW w \in Workers, StoreRecord(w) PROVE Covered'
    BY <1>7 DEF StoreRecord, Inserted, Retry, TriesLeft, Fault, report
<1>8. ASSUME NEW w \in Workers, Mark(w) PROVE Covered'
    BY <1>8 DEF Mark, Leave, Retry, TriesLeft, Fault
<1>9. ASSUME NEW w \in Workers, Report(w) PROVE Covered'
    BY <1>9 DEF Report, Leave
<1>10. ASSUME NEW w \in Workers, Die(w) PROVE Covered'
    BY <1>10 DEF Die, Fault, store, report
<1>11. CASE UNCHANGED vars
    BY <1>11 DEF vars, store, place, report
<1>12. QED
    BY <1>1, <1>2, <1>3, <1>4, <1>5, <1>6, <1>7, <1>8, <1>9, <1>10, <1>11 DEF Next, Work

LEMMA InvStep == Inv /\ [Next]_vars => Inv'
BY TypeStep, WorkerStep, MarkedStep, RowsStep, CountedStep, CoveredStep DEF Inv

THEOREM Invariance == Spec => []Inv
<1>1. QED
  BY InitInv, InvStep, PTL DEF Spec

-----------------------------------------------------------------------------

\* The types, with the bound on the tries of a call.
THEOREM TypeCorrect == Spec => []TypeOK
<1>1. Inv => TypeOK
  BY DEF Inv
<1>2. QED
  BY <1>1, Invariance, PTL

\* A marked filing is stored as a whole.
THEOREM MarksAreComplete == Spec => []MarkedComplete
<1>1. Inv => MarkedComplete
  BY DEF Inv
<1>2. QED
  BY <1>1, Invariance, PTL

\* No ownership record has two rows, and none has a fingerprint and no row.
THEOREM RecordsAreStoredOnce == Spec => []RowsOnce
<1>1. Inv => RowsOnce
  BY DEF Inv
<1>2. QED
  BY <1>1, Invariance, PTL

\* What a call counts as succeeded or skipped is stored.
THEOREM CountsAreTrue == Spec => []CountedIsStored
<1>1. Inv => CountedIsStored
  BY DEF Inv
<1>2. QED
  BY <1>1, Invariance, PTL

\* A call that returns leaves no filing out and no failure unrecorded.
THEOREM NothingLeftOut == Spec => []AccountedFor
<1>1. Inv => AccountedFor
  BY DEF Inv, TypeOK, Covered, AccountedFor, InHand, Active
<1>2. QED
  BY <1>1, Invariance, PTL
=============================================================================
