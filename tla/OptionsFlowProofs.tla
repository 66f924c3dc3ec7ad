-------------------------- MODULE OptionsFlowProofs --------------------------
(***************************************************************************)
(* Proofs about the options flow, for any observations, batches, requests  *)
(* and moments.                                                            *)
(***************************************************************************)
EXTENDS OptionsFlow, SequenceTheorems, FiniteSetTheorems, TLAPS

(***************************************************************************)
(* The inductive invariant.  A marked observation is in the hands of one   *)
(* request, or finished, or lost by a death.                               *)
(***************************************************************************)

\* What a request knows of the observation it is dealing with, and of those it
\* has stored and not yet counted.
RequestOK ==
  \A w \in Workers :
    /\ stage[w] = "idle" => stored[w] = {}
    /\ stage[w] \in {"append", "alert"} <=> current[w] # None
    /\ current[w] # None => current[w] \in fingerprints /\ alerts[current[w]] = 0
    /\ stage[w] = "append" => current[w] \notin InTable
    /\ stage[w] = "alert" => current[w] \in Confirmed
    /\ \A o \in stored[w] : o \in InTable /\ reported[o] = 0

\* No two requests deal with one observation, or have stored it.
Apart ==
  \A v, w \in Workers :
    v # w =>
      /\ current[v] = current[w] => current[v] = None
      /\ stored[v] \cap stored[w] = {}

\* No row comes before its fingerprint.
MarkedFirst == InTable \subseteq fingerprints \cup {None}

\* The count of what deaths lose, of a finite set.
LossCounted == IsFiniteSet(Lost) /\ LossPerDeath

Inv ==
  /\ TypeOK
  /\ RequestOK
  /\ Apart
  /\ MarkedFirst
  /\ StoredOnce
  /\ AlertRestsOnTwoScans
  /\ LossCounted

-----------------------------------------------------------------------------
(***************************************************************************)
(* Appending a row.                                                        *)
(***************************************************************************)

\* The rows that were there keep their places.
LEMMA RowAppended ==
  ASSUME table \in Seq(Rows), NEW row \in Rows, table' = Append(table, row)
  PROVE  /\ table' \in Seq(Rows)
         /\ Len(table) \in Nat
         /\ Len(table') = Len(table) + 1
         /\ \A i \in 1..Len(table) : table'[i] = table[i]
         /\ table'[Len(table) + 1] = row
BY AppendProperties, LenProperties

\* The row adds its observation, if it has one, to those that are stored.
LEMMA StoredAfter ==
  ASSUME table \in Seq(Rows), NEW row \in Rows, table' = Append(table, row)
  PROVE  /\ InTable' = InTable \cup {row.of}
         /\ Confirmed' = IF row.confirmed THEN Confirmed \cup {row.of} ELSE Confirmed
<1>1. /\ Len(table) \in Nat
      /\ Len(table') = Len(table) + 1
      /\ \A i \in 1..Len(table) : table'[i] = table[i]
      /\ table'[Len(table) + 1] = row
  BY RowAppended
<1>2. 1..Len(table') = 1..Len(table) \cup {Len(table) + 1}
  BY <1>1
<1>3. InTable' = InTable \cup {row.of}
  BY <1>1, <1>2 DEF InTable
<1>4. Confirmed' = IF row.confirmed THEN Confirmed \cup {row.of} ELSE Confirmed
  BY <1>1, <1>2 DEF Confirmed
<1>5. QED
  BY <1>3, <1>4

\* The row a request appends, and the one of a screenshot.
LEMMA NewRows ==
  ASSUME TypeOK, RequestOK
  PROVE  /\ [of |-> None, confirmed |-> FALSE] \in Rows
         /\ \A w \in Workers :
              stage[w] = "append" =>
                /\ current[w] \in Candidates
                /\ IsConfirmed(w, current[w]) \in BOOLEAN
                /\ [of |-> current[w], confirmed |-> IsConfirmed(w, current[w])] \in Rows
BY DEF TypeOK, RequestOK, Rows, IsConfirmed

-----------------------------------------------------------------------------

THEOREM InitInv == Init => Inv
<1> SUFFICES ASSUME Init PROVE Inv
  OBVIOUS
<1> USE ObservationsAssumption, BoundsAssumption
<1>1. table = <<>> /\ Len(table) = 0 /\ table \in Seq(Rows)
  BY EmptySeq DEF Init
<1>2. TypeOK
  BY <1>1 DEF Init, TypeOK
<1>3. RequestOK /\ Apart /\ MarkedFirst
  BY <1>1 DEF Init, RequestOK, Apart, MarkedFirst, InTable
<1>4. StoredOnce /\ AlertRestsOnTwoScans
  BY <1>1 DEF Init, StoredOnce, AlertRestsOnTwoScans, InTable, Confirmed
<1>5. Lost = {} /\ deaths = 0
  BY DEF Init, Lost
<1>6. LossCounted
  BY <1>5, FS_EmptySet DEF LossCounted, LossPerDeath
<1>7. QED
  BY <1>2, <1>3, <1>4, <1>6 DEF Inv

LEMMA TypeStep == Inv /\ [Next]_vars => TypeOK'
<1> SUFFICES ASSUME Inv, [Next]_vars PROVE TypeOK'
  OBVIOUS
<1> USE ObservationsAssumption, BoundsAssumption DEF Inv, TypeOK
<1>0. Len(table) \in Nat
  BY LenProperties
<1>1. CASE Tick
  BY <1>1 DEF Tick, store, local
<1>2. CASE Screenshot
  <2>1. table' \in Seq(Rows)
    BY <1>2, NewRows, RowAppended DEF Screenshot
  <2>2. QED
    BY <1>2, <2>1 DEF Screenshot, local
<1>3. ASSUME NEW w \in Workers, NEW b \in Batches, Receive(w, b) PROVE TypeOK'
  BY <1>0, <1>3 DEF Receive, Qualified, store
<1>4. ASSUME NEW w \in Workers, NEW o \in Candidates, Mark(w, o) PROVE TypeOK'
  <2>1. CASE o \in fingerprints
    BY <1>4, <2>1 DEF Mark
  <2>2. CASE o \notin fingerprints
    <3>1. fingerprints' \subseteq Candidates /\ todo' \in [Workers -> SUBSET Candidates]
      BY <1>4, <2>2 DEF Mark
    <3>2. current' = [current EXCEPT ![w] = o] /\ stage' = [stage EXCEPT ![w] = "append"]
      BY <1>4, <2>2 DEF Mark
    <3>3. /\ current' \in [Workers -> Candidates \cup {None}]
          /\ stage' \in [Workers -> {"idle", "next", "append", "alert"}]
      BY <3>2
    <3>4. UNCHANGED <<now, table, alerts, reported, read, stored, others, deaths>>
      BY <1>4 DEF Mark
    <3>5. QED
      BY <3>1, <3>3, <3>4
  <2>3. QED
    BY <2>1, <2>2
<1>5. ASSUME NEW w \in Workers, Persist(w) PROVE TypeOK'
  <2>1. table' \in Seq(Rows)
    BY <1>5, NewRows, RowAppended DEF Persist
  <2>2. current[w] \in Candidates
    BY <1>5, NewRows DEF Persist
  <2>3. QED
    BY <1>5, <2>1, <2>2 DEF Persist, AfterAppend
<1>6. ASSUME NEW w \in Workers, Alert(w) PROVE TypeOK'
  BY <1>6 DEF Alert, RequestOK
<1>7. ASSUME NEW w \in Workers, Report(w) PROVE TypeOK'
  BY <1>7 DEF Report
<1>8. ASSUME NEW w \in Workers, Die(w) PROVE TypeOK'
  BY <1>8 DEF Die, store
<1>9. CASE UNCHANGED vars
  BY <1>9 DEF vars, store, local
<1>10. QED
  BY <1>1, <1>2, <1>3, <1>4, <1>5, <1>6, <1>7, <1>8, <1>9 DEF Next, Work

-----------------------------------------------------------------------------

\* Nothing is stored or confirmed by a step that leaves the table alone.
LEMMA SameTable == UNCHANGED table => UNCHANGED <<InTable, Confirmed>>
BY DEF InTable, Confirmed

LEMMA ConfirmedInTable == Confirmed \subseteq InTable
BY DEF InTable, Confirmed

LEMMA RequestStep == Inv /\ [Next]_vars => RequestOK'
<1> SUFFICES ASSUME Inv, [Next]_vars PROVE RequestOK'
  OBVIOUS
<1> DEFINE
      Goal(q) ==
        /\ stage[q] = "idle" => stored[q] = {}
        /\ stage[q] \in {"append", "alert"} <=> current[q] # None
        /\ current[q] # None => current[q] \in fingerprints /\ alerts[current[q]] = 0
        /\ stage[q] = "append" => current[q] \notin InTable
        /\ stage[q] = "alert" => current[q] \in Confirmed
        /\ \A o \in stored[q] : o \in InTable /\ reported[o] = 0
<1> SUFFICES ASSUME NEW q \in Workers PROVE Goal(q)'
  BY DEF RequestOK
<1> USE ObservationsAssumption DEF Inv, TypeOK
<1>0. Goal(q)
  BY DEF RequestOK
<1>1. CASE Tick
  BY <1>0, <1>1, SameTable DEF Tick, store, local
<1>2. CASE Screenshot
  <2>1. InTable' = InTable \cup {None}
    BY <1>2, NewRows, StoredAfter DEF Screenshot
  <2>2. Confirmed' = Confirmed
    BY <1>2, NewRows, StoredAfter DEF Screenshot
  <2>3. None \notin stored[q]
    OBVIOUS
  <2>4. QED
    BY <1>0, <1>2, <2>1, <2>2, <2>3 DEF Screenshot, local
<1>3. ASSUME NEW w \in Workers, NEW b \in Batches, Receive(w, b) PROVE Goal(q)'
  BY <1>0, <1>3, SameTable DEF Receive, store
<1>4. ASSUME NEW w \in Workers, NEW o \in Candidates, Mark(w, o) PROVE Goal(q)'
  <2>1. CASE o \in fingerprints
    BY <1>0, <1>4, <2>1, SameTable DEF Mark
  <2>2. CASE o \notin fingerprints
    <3>1. o # None /\ o \notin InTable /\ alerts[o] = 0
      <4>1. o \notin InTable /\ o \notin Confirmed
        BY <2>2, ConfirmedInTable DEF MarkedFirst
      <4>2. alerts[o] \in Nat /\ (alerts[o] > 0 => o \in Confirmed)
        BY DEF AlertRestsOnTwoScans
      <4>3. QED
        BY <4>1, <4>2
    <3>2. CASE q = w
      BY <1>0, <1>4, <2>2, <3>1, <3>2, SameTable DEF Mark
    <3>3. CASE q # w
      BY <1>0, <1>4, <2>2, <3>3, SameTable DEF Mark
    <3>4. QED
      BY <3>2, <3>3
  <2>3. QED
    BY <2>1, <2>2
<1>5. ASSUME NEW w \in Workers, Persist(w) PROVE Goal(q)'
  <2>1. stage[w] = "append" /\ current[w] \in Candidates /\ current[w] # None
    BY <1>5, NewRows DEF Persist, RequestOK
  <2>2. /\ InTable' = InTable \cup {current[w]}
        /\ Confirmed \subseteq Confirmed'
        /\ IsConfirmed(w, current[w]) => current[w] \in Confirmed'
    <3> DEFINE row == [of |-> current[w], confirmed |-> IsConfirmed(w, current[w])]
    <3>1. row \in Rows /\ table' = Append(table, row)
      BY <1>5, <2>1, NewRows DEF Persist
    <3>2. row.of = current[w] /\ row.confirmed = IsConfirmed(w, current[w])
      OBVIOUS
    <3> HIDE DEF row
    <3>3. QED
      BY <3>1, <3>2, StoredAfter
  <2>3. CASE q = w
    <3>1. current[w] \notin InTable /\ reported[current[w]] = 0
      BY <2>1 DEF RequestOK, StoredOnce
    <3>2. \A o \in stored'[w] : o \in InTable' /\ reported'[o] = 0
      BY <1>0, <1>5, <2>2, <2>3, <3>1 DEF Persist
    <3>3. CASE IsConfirmed(w, current[w])
      <4>1. /\ stage'[w] = "alert" /\ current'[w] = current[w]
            /\ UNCHANGED <<fingerprints, alerts>>
        BY <1>5, <3>3 DEF Persist, AfterAppend
      <4>2. QED
        BY <1>0, <2>1, <2>2, <2>3, <3>2, <3>3, <4>1
    <3>4. CASE ~IsConfirmed(w, current[w])
      <4>1. stage'[w] = "next" /\ current'[w] = None
        BY <1>5, <3>4 DEF Persist, AfterAppend
      <4>2. QED
        BY <2>3, <3>2, <4>1
    <3>5. QED
      BY <3>3, <3>4
  <2>4. CASE q # w
    <3>1. current[q] = current[w] => current[q] = None
      BY <2>4 DEF Apart
    <3>2. /\ stage'[q] = stage[q] /\ current'[q] = current[q] /\ stored'[q] = stored[q]
          /\ UNCHANGED <<fingerprints, alerts, reported>>
      BY <1>5, <2>4 DEF Persist
    <3>3. QED
      BY <1>0, <2>1, <2>2, <3>1, <3>2
  <2>5. QED
    BY <2>3, <2>4
<1>6. ASSUME NEW w \in Workers, Alert(w) PROVE Goal(q)'
  <2>1. current[w] \in Candidates /\ (q # w => current[q] # current[w] \/ current[q] = None)
    BY <1>6 DEF Alert, RequestOK, Apart
  <2>2. QED
    BY <1>0, <1>6, <2>1, SameTable DEF Alert
<1>7. ASSUME NEW w \in Workers, Report(w) PROVE Goal(q)'
  <2>1. CASE q = w
    BY <1>0, <1>7, <2>1, SameTable DEF Report
  <2>2. CASE q # w
    <3>1. \A o \in stored[q] : o \notin stored[w]
      BY <2>2 DEF Apart
    <3>2. QED
      BY <1>0, <1>7, <2>2, <3>1, SameTable DEF Report
  <2>3. QED
    BY <2>1, <2>2
<1>8. ASSUME NEW w \in Workers, Die(w) PROVE Goal(q)'
  BY <1>0, <1>8, SameTable DEF Die, store
<1>9. CASE UNCHANGED vars
  BY <1>0, <1>9, SameTable DEF vars, store, local
<1>10. QED
  BY <1>1, <1>2, <1>3, <1>4, <1>5, <1>6, <1>7, <1>8, <1>9 DEF Next, Work

LEMMA ApartStep == Inv /\ [Next]_vars => Apart'
<1> SUFFICES ASSUME Inv, [Next]_vars,
                    NEW u \in Workers, NEW v \in Workers, u # v
             PROVE  /\ current'[u] = current'[v] => current'[u] = None
                    /\ stored'[u] \cap stored'[v] = {}
  BY DEF Apart
<1> DEFINE Goal == /\ current'[u] = current'[v] => current'[u] = None
                   /\ stored'[u] \cap stored'[v] = {}
<1> USE ObservationsAssumption DEF Inv, TypeOK
<1>0. /\ current[u] = current[v] => current[u] = None
      /\ stored[u] \cap stored[v] = {}
  BY DEF Apart
<1>1. CASE Tick \/ Screenshot \/ UNCHANGED vars
  BY <1>0, <1>1 DEF Tick, Screenshot, vars, local
<1>2. ASSUME NEW w \in Workers, NEW b \in Batches, Receive(w, b) PROVE Goal
  BY <1>0, <1>2 DEF Receive
<1>3. ASSUME NEW w \in Workers, NEW o \in Candidates, Mark(w, o) PROVE Goal
  <2>1. \A x \in Workers : current[x] = o => o \in fingerprints
    BY DEF RequestOK
  <2>2. QED
    BY <1>0, <1>3, <2>1 DEF Mark
<1>4. ASSUME NEW w \in Workers, Persist(w) PROVE Goal
  <2>1. \A x \in Workers : current[w] \notin stored[x]
    BY <1>4 DEF Persist, RequestOK
  <2>2. QED
    BY <1>0, <1>4, <2>1 DEF Persist
<1>5. ASSUME NEW w \in Workers, Alert(w) \/ Report(w) \/ Die(w) PROVE Goal
  BY <1>0, <1>5 DEF Alert, Report, Die
<1>6. QED
  BY <1>1, <1>2, <1>3, <1>4, <1>5 DEF Next, Work

LEMMA MarkedStep == Inv /\ [Next]_vars => MarkedFirst'
<1> SUFFICES ASSUME Inv, [Next]_vars PROVE MarkedFirst'
  OBVIOUS
<1> USE DEF Inv, TypeOK, MarkedFirst
<1>1. CASE Screenshot
  <2>1. InTable' = InTable \cup {None}
    BY <1>1, NewRows, StoredAfter DEF Screenshot
  <2>2. QED
    BY <1>1, <2>1 DEF Screenshot
<1>2. ASSUME NEW w \in Workers, Persist(w) PROVE MarkedFirst'
  <2>1. InTable' = InTable \cup {current[w]}
    BY <1>2, NewRows, StoredAfter DEF Persist
  <2>2. current[w] \in fingerprints
    BY <1>2 DEF Persist, RequestOK
  <2>3. QED
    BY <1>2, <2>1, <2>2 DEF Persist
<1>3. ASSUME NEW w \in Workers, NEW o \in Candidates, Mark(w, o) PROVE MarkedFirst'
  BY <1>3, SameTable DEF Mark
<1>4. ASSUME NEW w \in Workers, NEW b \in Batches, Receive(w, b) PROVE MarkedFirst'
  BY <1>4, SameTable DEF Receive, store
<1>5. ASSUME NEW w \in Workers, Alert(w) \/ Report(w) \/ Die(w) PROVE MarkedFirst'
  BY <1>5, SameTable DEF Alert, Report, Die, store
<1>6. CASE Tick \/ UNCHANGED vars
  BY <1>6, SameTable DEF Tick, vars, store
<1>7. QED
  BY <1>1, <1>2, <1>3, <1>4, <1>5, <1>6 DEF Next, Work

\* What StoredOnce says of the rows, and of each observation.
RowsApart ==
  \A i, j \in 1..Len(table) : table[i].of = table[j].of /\ table[i].of # None => i = j

LEMMA RowsApartAfter ==
  ASSUME table \in Seq(Rows), NEW row \in Rows, table' = Append(table, row), RowsApart,
         row.of = None \/ row.of \notin InTable
  PROVE  RowsApart'
<1>1. /\ Len(table) \in Nat
      /\ Len(table') = Len(table) + 1
      /\ \A i \in 1..Len(table) : table'[i] = table[i]
      /\ table'[Len(table) + 1] = row
  BY RowAppended
<1>2. SUFFICES ASSUME NEW i \in 1..Len(table'), NEW j \in 1..Len(table'),
                      table'[i].of = table'[j].of, table'[i].of # None
               PROVE  i = j
  BY DEF RowsApart
<1>3. \A k \in 1..Len(table') : k \in 1..Len(table) \/ k = Len(table) + 1
  BY <1>1
<1>4. \A k \in 1..Len(table) : table[k].of \in InTable
  BY DEF InTable
<1>5. CASE i \in 1..Len(table) /\ j \in 1..Len(table)
  BY <1>1, <1>2, <1>5 DEF RowsApart
<1>6. CASE i = Len(table) + 1 \/ j = Len(table) + 1
  BY <1>1, <1>2, <1>3, <1>4, <1>6
<1>7. QED
  BY <1>3, <1>5, <1>6

LEMMA StoredOnceStep == Inv /\ [Next]_vars => StoredOnce'
<1> SUFFICES ASSUME Inv, [Next]_vars PROVE StoredOnce'
  OBVIOUS
<1> DEFINE Goal == \A o \in Observations :
                     alerts[o] <= 1 /\ reported[o] <= 1 /\ (reported[o] = 1 => o \in InTable)
<1> USE ObservationsAssumption DEF Inv, TypeOK
<1>0. RowsApart /\ Goal
  BY DEF StoredOnce, RowsApart
<1>1. CASE Screenshot
  <2> DEFINE row == [of |-> None, confirmed |-> FALSE]
  <2>1. row \in Rows /\ table' = Append(table, row) /\ row.of = None
    BY <1>1, NewRows DEF Screenshot
  <2> HIDE DEF row
  <2>2. RowsApart'
    BY <1>0, <2>1, RowsApartAfter
  <2>3. InTable \subseteq InTable'
    BY <2>1, StoredAfter
  <2>4. QED
    BY <1>0, <1>1, <2>2, <2>3 DEF Screenshot, StoredOnce, RowsApart
<1>2. ASSUME NEW w \in Workers, Persist(w) PROVE StoredOnce'
  <2> DEFINE row == [of |-> current[w], confirmed |-> IsConfirmed(w, current[w])]
  <2>1. row \in Rows /\ table' = Append(table, row) /\ row.of = current[w]
    BY <1>2, NewRows DEF Persist
  <2> HIDE DEF row
  <2>2. current[w] \notin InTable
    BY <1>2 DEF Persist, RequestOK
  <2>3. RowsApart'
    BY <1>0, <2>1, <2>2, RowsApartAfter
  <2>4. InTable \subseteq InTable'
    BY <2>1, StoredAfter
  <2>5. QED
    BY <1>0, <1>2, <2>3, <2>4 DEF Persist, StoredOnce, RowsApart
<1>3. ASSUME NEW w \in Workers, Alert(w) PROVE StoredOnce'
  <2>1. alerts[current[w]] = 0 /\ current[w] \in Observations
    BY <1>3 DEF Alert, RequestOK
  <2>2. RowsApart' /\ UNCHANGED InTable
    BY <1>0, <1>3, SameTable DEF Alert, RowsApart
  <2>3. QED
    BY <1>0, <1>3, <2>1, <2>2 DEF Alert, StoredOnce, RowsApart
<1>4. ASSUME NEW w \in Workers, Report(w) PROVE StoredOnce'
  <2>1. \A o \in stored[w] : o \in InTable /\ reported[o] = 0
    BY DEF RequestOK
  <2>2. RowsApart' /\ UNCHANGED InTable
    BY <1>0, <1>4, SameTable DEF Report, RowsApart
  <2>3. QED
    BY <1>0, <1>4, <2>1, <2>2 DEF Report, StoredOnce, RowsApart
<1>5. CASE UNCHANGED <<table, alerts, reported>>
  BY <1>0, <1>5, SameTable DEF StoredOnce
<1>6. QED
  BY <1>1, <1>2, <1>3, <1>4, <1>5 DEF Next, Work, Tick, Receive, Mark, Die, vars, store

\* A gap of two to thirty minutes, as two bounds.
LEMMA Between ==
  ASSUME NEW x \in Int, NEW y \in Int, x - y \in 2..30
  PROVE  x >= y + 2 /\ x <= y + 30
OBVIOUS

LEMMA ScansStep == Inv /\ [Next]_vars => AlertRestsOnTwoScans'
<1> SUFFICES ASSUME Inv, [Next]_vars PROVE AlertRestsOnTwoScans'
  OBVIOUS
<1> USE ObservationsAssumption DEF Inv, TypeOK
<1>0. /\ \A i \in 1..Len(table) : table[i].confirmed => TwoScans(i)
      /\ \A o \in Observations : alerts[o] > 0 => o \in Confirmed
  BY DEF AlertRestsOnTwoScans
<1>1. ASSUME NEW row \in Rows, table' = Append(table, row), UNCHANGED alerts,
             row.confirmed => \E j \in 1..Len(table) : Confirms(j, row.of) /\ row.of # None
      PROVE  AlertRestsOnTwoScans'
  <2>1. /\ Len(table) \in Nat
        /\ Len(table') = Len(table) + 1
        /\ \A i \in 1..Len(table) : table'[i] = table[i]
        /\ table'[Len(table) + 1] = row
    BY <1>1, RowAppended
  <2>2. ASSUME NEW i \in 1..Len(table), table'[i].confirmed PROVE TwoScans(i)'
    <3>1. TwoScans(i)
      BY <1>0, <2>1, <2>2
    <3>2. \A j \in 1..(i - 1) : table'[j] = table[j]
      BY <2>1
    <3>3. table'[i] = table[i]
      BY <2>1
    <3>4. PICK j \in 1..(i - 1) :
            /\ {table[j].of, table[i].of} \subseteq Candidates
            /\ Contract[table[j].of] = Contract[table[i].of]
            /\ ObservedAt[table[i].of] >= ObservedAt[table[j].of] + 2
            /\ ObservedAt[table[i].of] <= ObservedAt[table[j].of] + 30
      BY <3>1 DEF TwoScans
    <3>5. table'[j] = table[j]
      BY <3>2
    <3>6. QED
      BY <3>3, <3>4, <3>5 DEF TwoScans
  <2>3. ASSUME NEW i, i = Len(table) + 1, row.confirmed PROVE TwoScans(i)'
    <3>1. PICK j \in 1..Len(table) : Confirms(j, row.of) /\ row.of # None
      BY <1>1, <2>3
    <3>2. table[j] \in Rows
      BY ElementOfSeq
    <3>3. table[j].of \in Candidates /\ row.of \in Candidates
      BY <3>1, <3>2 DEF Confirms, Rows
    <3>4. ObservedAt[row.of] \in Int /\ ObservedAt[table[j].of] \in Int
      BY <3>3
    <3>5. j \in 1..(i - 1) /\ table'[j] = table[j] /\ table'[i] = row
      BY <2>1, <2>3
    <3>6. /\ Contract[table[j].of] = Contract[row.of]
          /\ ObservedAt[row.of] >= ObservedAt[table[j].of] + 2
          /\ ObservedAt[row.of] <= ObservedAt[table[j].of] + 30
      BY <3>1, <3>4, Between DEF Confirms
    <3>7. /\ {table'[j].of, table'[i].of} \subseteq Candidates
          /\ Contract[table'[j].of] = Contract[table'[i].of]
          /\ ObservedAt[table'[i].of] >= ObservedAt[table'[j].of] + 2
          /\ ObservedAt[table'[i].of] <= ObservedAt[table'[j].of] + 30
      BY <3>3, <3>5, <3>6
    <3>8. QED
      BY <3>5, <3>7 DEF TwoScans
  <2>4. \A i \in 1..Len(table') : i \in 1..Len(table) \/ i = Len(table) + 1
    BY <2>1
  <2>5. ASSUME NEW i \in 1..Len(table'), table'[i].confirmed PROVE TwoScans(i)'
    <3>1. CASE i \in 1..Len(table)
      BY <2>2, <2>5, <3>1
    <3>2. CASE i = Len(table) + 1
      <4>1. row.confirmed
        BY <2>1, <2>5, <3>2
      <4>2. QED
        BY <2>3, <3>2, <4>1
    <3>3. QED
      BY <2>4, <3>1, <3>2
  <2>6. Confirmed \subseteq Confirmed'
    BY <1>1, StoredAfter
  <2>7. QED
    BY <1>0, <1>1, <2>5, <2>6 DEF AlertRestsOnTwoScans
<1>2. CASE Screenshot
  BY <1>1, <1>2, NewRows DEF Screenshot
<1>3. ASSUME NEW w \in Workers, Persist(w) PROVE AlertRestsOnTwoScans'
  <2> DEFINE row == [of |-> current[w], confirmed |-> IsConfirmed(w, current[w])]
  <2>1. /\ row \in Rows /\ table' = Append(table, row) /\ UNCHANGED alerts
        /\ row.of = current[w] /\ row.of # None
        /\ row.confirmed = IsConfirmed(w, current[w])
    BY <1>3, NewRows DEF Persist
  <2> HIDE DEF row
  <2>2. row.confirmed => \E j \in 1..Len(table) : Confirms(j, row.of)
    BY <2>1 DEF IsConfirmed, History
  <2>3. QED
    BY <1>1, <2>1, <2>2
<1>4. ASSUME NEW w \in Workers, Alert(w) PROVE AlertRestsOnTwoScans'
  <2>1. current[w] \in Confirmed /\ current[w] \in Observations
    BY <1>4 DEF Alert, RequestOK
  <2>2. QED
    BY <1>0, <1>4, <2>1, SameTable DEF Alert, AlertRestsOnTwoScans, TwoScans
<1>5. CASE UNCHANGED <<table, alerts>>
  BY <1>0, <1>5, SameTable DEF AlertRestsOnTwoScans, TwoScans
<1>6. QED
  BY <1>2, <1>3, <1>4, <1>5 DEF Next, Work, Tick, Receive, Mark, Report, Die, vars, store

\* A step after which nothing else is lost keeps the count.
LEMMA NoFurtherLoss ==
  ASSUME LossCounted, Lost' \subseteq Lost, deaths \in Nat, deaths' = deaths
  PROVE  LossCounted'
<1>1. IsFiniteSet(Lost') /\ Cardinality(Lost') <= Cardinality(Lost)
  BY FS_Subset DEF LossCounted
<1>2. Cardinality(Lost) \in Nat /\ Cardinality(Lost') \in Nat
  BY <1>1, FS_CardinalityType DEF LossCounted
<1>3. QED
  BY <1>1, <1>2 DEF LossCounted, LossPerDeath

\* One element more counts one more at most.
LEMMA OneMore ==
  ASSUME NEW S, IsFiniteSet(S), NEW x
  PROVE  /\ IsFiniteSet(S \cup {x})
         /\ Cardinality(S \cup {x}) <= Cardinality(S) + 1
         /\ Cardinality(S) \in Nat
<1>1. Cardinality(S) \in Nat
  BY FS_CardinalityType
<1>2. IsFiniteSet(S \cup {x})
  BY FS_AddElement
<1>3. CASE x \in S
  <2>1. Cardinality(S \cup {x}) = Cardinality(S)
    BY <1>3, FS_AddElement
  <2>2. QED
    BY <1>1, <1>2, <2>1
<1>4. CASE x \notin S
  <2>1. Cardinality(S \cup {x}) = Cardinality(S) + 1
    BY <1>4, FS_AddElement
  <2>2. QED
    BY <1>1, <1>2, <2>1
<1>5. QED
  BY <1>3, <1>4

LEMMA LossStep == Inv /\ [Next]_vars => LossCounted'
<1> SUFFICES ASSUME Inv, [Next]_vars PROVE LossCounted'
  OBVIOUS
<1> USE ObservationsAssumption DEF Inv, TypeOK
<1>1. CASE Screenshot
  <2>1. InTable' = InTable \cup {None} /\ Confirmed' = Confirmed
    BY <1>1, NewRows, StoredAfter DEF Screenshot
  <2>2. Lost' \subseteq Lost
    BY <1>1, <2>1 DEF Screenshot, Lost, local
  <2>3. QED
    BY <1>1, <2>2, NoFurtherLoss DEF Screenshot
<1>2. ASSUME NEW w \in Workers, NEW b \in Batches, Receive(w, b) PROVE LossCounted'
  <2>1. Lost' \subseteq Lost
    BY <1>2, SameTable DEF Receive, Lost, store
  <2>2. QED
    BY <1>2, <2>1, NoFurtherLoss DEF Receive
<1>3. ASSUME NEW w \in Workers, NEW o \in Candidates, Mark(w, o) PROVE LossCounted'
  <2>1. CASE o \in fingerprints
    BY <1>3, <2>1, SameTable, NoFurtherLoss DEF Mark, Lost
  <2>2. CASE o \notin fingerprints
    <3>1. current' = [current EXCEPT ![w] = o] /\ fingerprints' = fingerprints \cup {o}
      BY <1>3, <2>2 DEF Mark
    <3>2. current[w] = None
      BY <1>3 DEF Mark, RequestOK
    <3>3. Lost' \subseteq Lost
      BY <1>3, <3>1, <3>2, SameTable DEF Mark, Lost
    <3>4. QED
      BY <1>3, <3>3, NoFurtherLoss DEF Mark
  <2>3. QED
    BY <2>1, <2>2
<1>4. ASSUME NEW w \in Workers, Persist(w) PROVE LossCounted'
  <2>1. /\ current[w] \in Candidates
        /\ current[w] \notin InTable /\ current[w] \notin Confirmed
    BY <1>4, NewRows, ConfirmedInTable DEF Persist, RequestOK
  <2> DEFINE row == [of |-> current[w], confirmed |-> IsConfirmed(w, current[w])]
  <2>2. /\ row \in Rows /\ table' = Append(table, row)
        /\ row.of = current[w] /\ row.confirmed = IsConfirmed(w, current[w])
    BY <1>4, NewRows DEF Persist
  <2> HIDE DEF row
  <2>3. /\ InTable' = InTable \cup {current[w]}
        /\ Confirmed' = IF IsConfirmed(w, current[w]) THEN Confirmed \cup {current[w]}
                        ELSE Confirmed
    BY <2>2, StoredAfter
  <2>4. current' = [current EXCEPT ![w] = IF IsConfirmed(w, current[w]) THEN @ ELSE None]
    BY <1>4 DEF Persist, AfterAppend
  <2>5. UNCHANGED <<fingerprints, alerts, deaths>>
    BY <1>4 DEF Persist
  <2>6. Lost' \subseteq Lost
    BY <2>1, <2>3, <2>4, <2>5 DEF Lost
  <2>7. QED
    BY <2>5, <2>6, NoFurtherLoss
<1>5. ASSUME NEW w \in Workers, Alert(w) PROVE LossCounted'
  <2>1. current[w] \in Candidates /\ current[w] \in InTable /\ alerts[current[w]] = 0
    BY <1>5, ConfirmedInTable DEF Alert, RequestOK
  <2>2. Lost' \subseteq Lost
    BY <1>5, <2>1, SameTable DEF Alert, Lost
  <2>3. QED
    BY <1>5, <2>2, NoFurtherLoss DEF Alert
<1>6. ASSUME NEW w \in Workers, Report(w) PROVE LossCounted'
  BY <1>6, SameTable, NoFurtherLoss DEF Report, Lost
<1>7. ASSUME NEW w \in Workers, Die(w) PROVE LossCounted'
  <2>1. Lost' \subseteq Lost \cup {current[w]}
    BY <1>7, SameTable DEF Die, Lost, store
  <2>2. /\ IsFiniteSet(Lost \cup {current[w]})
        /\ Cardinality(Lost \cup {current[w]}) <= Cardinality(Lost) + 1
        /\ Cardinality(Lost) \in Nat
    <3>1. IsFiniteSet(Lost)
      BY DEF LossCounted
    <3>2. QED
      BY <3>1, OneMore
  <2>3. /\ IsFiniteSet(Lost')
        /\ Cardinality(Lost') <= Cardinality(Lost \cup {current[w]})
        /\ Cardinality(Lost') \in Nat /\ Cardinality(Lost \cup {current[w]}) \in Nat
    BY <2>1, <2>2, FS_Subset, FS_CardinalityType
  <2>4. deaths' = deaths + 1
    BY <1>7 DEF Die
  <2>5. QED
    BY <2>2, <2>3, <2>4 DEF LossCounted, LossPerDeath
<1>8. CASE Tick \/ UNCHANGED vars
  BY <1>8, SameTable, NoFurtherLoss DEF Tick, vars, store, local, Lost
<1>9. QED
  BY <1>1, <1>2, <1>3, <1>4, <1>5, <1>6, <1>7, <1>8 DEF Next, Work

LEMMA InvStep == Inv /\ [Next]_vars => Inv'
BY TypeStep, RequestStep, ApartStep, MarkedStep, StoredOnceStep, ScansStep, LossStep DEF Inv

THEOREM Invariance == Spec => []Inv
<1>1. QED
  BY InitInv, InvStep, PTL DEF Spec

-----------------------------------------------------------------------------

\* Every variable of the options flow keeps to its type.
THEOREM TypeCorrect == Spec => []TypeOK
<1>1. Inv => TypeOK
  BY DEF Inv
<1>2. QED
  BY <1>1, Invariance, PTL

\* No alert, and no row that says confirmed, without two scans of the contract
\* that are stored and two to thirty minutes apart.
THEOREM AlertsRestOnTwoScans == Spec => []AlertRestsOnTwoScans
<1>1. Inv => AlertRestsOnTwoScans
  BY DEF Inv
<1>2. QED
  BY <1>1, Invariance, PTL

\* However often and concurrently it is posted, an observation is stored,
\* alerted of and counted once.
THEOREM ObservationsAreStoredOnce == Spec => []StoredOnce
<1>1. Inv => StoredOnce
  BY DEF Inv
<1>2. QED
  BY <1>1, Invariance, PTL

\* A death costs one observation or alert at most.
THEOREM DeathsLoseOneEach == Spec => []LossPerDeath
<1>1. Inv => LossPerDeath
  BY DEF Inv, LossCounted
<1>2. QED
  BY <1>1, Invariance, PTL
=============================================================================
