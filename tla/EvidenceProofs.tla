----------------------------- MODULE EvidenceProofs -----------------------------
(***************************************************************************)
(* Proofs about the rows of evidence: copies of the store are consistent   *)
(* (Backup), versions of watchlists grow (Watchlists), a completed         *)
(* horizon is final and a sample a signal (Outcomes), reports and packages *)
(* are backed (DailyRun), the Top 10 and its verdicts do not depend on an  *)
(* order (Selection); and the types of all parts of the service.           *)
(*                                                                         *)
(* A property of a part is proved of the part's own specification and      *)
(* carried to that of the service: a step of the service is a step of the  *)
(* part or leaves its variables alone.                                     *)
(***************************************************************************)
EXTENDS ProviderProofs

-----------------------------------------------------------------------------
(* Copies of the store.                                                    *)

\* The store holds whole writes, and so does every copy that has been made; and
\* what was there when a copy was begun is still in the store.
CopyOK(b) ==
  /\ destination[b] # "absent" => \A t \in Tables : before[b][t] \subseteq tables[t]
  /\ destination[b] \in {"copied", "verified"} =>
       /\ \A t \in Tables : before[b][t] \subseteq copied[b][t]
       /\ WholeWrites(copied[b])

BackupInv ==
  /\ BackupTypeOK
  /\ WholeWrites(tables)
  /\ \A b \in Backups : CopyOK(b)

LEMMA BackupInitial == BackupInit => BackupInv
  <1>. SUFFICES ASSUME BackupInit PROVE BackupInv
    OBVIOUS
  <1>1. BackupTypeOK
    BY DEF BackupInit, BackupTypeOK, Contents, Empty, Tables, Progress
  <1>2. WholeWrites(tables)
    BY DEF BackupInit, WholeWrites, Empty, Tables
  <1>3. \A b \in Backups : CopyOK(b)
    BY DEF BackupInit, CopyOK
  <1>. QED  BY <1>1, <1>2, <1>3 DEF BackupInv

\* A write that leaves whole writes adds a row to some tables and leaves the
\* copies alone.
LEMMA WriteKeeps ==
  ASSUME BackupInv, NEW names \in SUBSET Tables, NEW row \in Items \cup Filings \cup NewsItems,
         Add(names, row), UNCHANGED <<backend, copies>>, WholeWrites(tables)'
  PROVE  BackupInv'
  <1>1. tables' \in Contents
    BY DEF BackupInv, BackupTypeOK, Contents, Add
  <1>2. BackupTypeOK'
    BY <1>1 DEF BackupInv, BackupTypeOK, copies
  <1>3. \A t \in Tables : tables[t] \subseteq tables'[t]
    BY DEF Add
  <1>4. ASSUME NEW b \in Backups PROVE CopyOK(b)'
    <2>1. UNCHANGED <<destination, copied, before>>
      BY DEF copies
    <2>2. copied'[b] = copied[b]
      BY <2>1
    <2>3. WholeWrites(copied[b])' <=> WholeWrites(copied[b])
      BY <2>2 DEF WholeWrites, IsOwnershipEvent
    <2>. QED  BY <1>3, <2>1, <2>3 DEF CopyOK, BackupInv
  <1>. QED  BY <1>2, <1>4 DEF BackupInv

\* What a write adds, table by table.
LEMMA Added ==
  ASSUME NEW names \in SUBSET Tables, NEW row, Add(names, row)
  PROVE  \A t \in Tables : tables'[t] = IF t \in names THEN tables[t] \cup {row} ELSE tables[t]
  BY DEF Add

\* A step of one copy leaves the store and the other copies alone.
LEMMA OneCopySteps ==
  ASSUME BackupInv, NEW b \in Backups, BackupTypeOK', UNCHANGED <<backend, tables>>,
         \A c \in Backups : c # b => /\ destination'[c] = destination[c]
                                     /\ copied'[c] = copied[c]
                                     /\ before'[c] = before[c],
         CopyOK(b)'
  PROVE  BackupInv'
  <1>1. WholeWrites(tables)'
    BY DEF BackupInv, WholeWrites, IsOwnershipEvent
  <1>2. ASSUME NEW c \in Backups, c # b PROVE CopyOK(c)'
    <2>1. WholeWrites(copied[c])' <=> WholeWrites(copied[c])
      BY <1>2 DEF WholeWrites, IsOwnershipEvent
    <2>. QED  BY <1>2, <2>1 DEF CopyOK, BackupInv
  <1>. QED  BY <1>1, <1>2 DEF BackupInv

LEMMA BackupStep == BackupInv /\ [BackupNext]_backupVars => BackupInv'
  <1>. SUFFICES ASSUME BackupInv, [BackupNext]_backupVars PROVE BackupInv'
    OBVIOUS
  <1>0. BackupTypeOK /\ WholeWrites(tables) /\ \A b \in Backups : CopyOK(b)
    BY DEF BackupInv
  <1>1. ASSUME NEW i \in Items, PutProviderSnapshot(i) PROVE BackupInv'
    <2>. DEFINE names == {"records", "ingestion_dedup", "symbols"}
    <2>1. names \in SUBSET Tables /\ Add(names, i) /\ ~IsOwnershipEvent(i) /\ i \notin Filings
      BY <1>1, BackupAssumption DEF PutProviderSnapshot, Tables
    <2>2. /\ tables'["records"] = tables["records"] \cup {i}
          /\ tables'["ingestion_dedup"] = tables["ingestion_dedup"] \cup {i}
          /\ tables'["symbols"] = tables["symbols"] \cup {i}
      BY <2>1, Added DEF Tables
    <2>3. WholeWrites(tables)'
      BY <1>0, <2>1, <2>2 DEF WholeWrites, IsOwnershipEvent
    <2>. QED  BY <1>1, <2>1, <2>3, WriteKeeps DEF PutProviderSnapshot
  <1>2. ASSUME NEW i \in Items, PutOwnershipEvent(i) PROVE BackupInv'
    <2>. DEFINE names == {"records", "ingestion_dedup"}
    <2>1. names \in SUBSET Tables /\ Add(names, i) /\ IsOwnershipEvent(i) /\ i \notin Filings
      BY <1>2, BackupAssumption DEF PutOwnershipEvent, Tables
    <2>2. /\ tables'["records"] = tables["records"] \cup {i}
          /\ tables'["ingestion_dedup"] = tables["ingestion_dedup"] \cup {i}
          /\ tables'["symbols"] = tables["symbols"]
      BY <2>1, Added DEF Tables
    <2>3. WholeWrites(tables)'
      BY <1>0, <2>1, <2>2 DEF WholeWrites, IsOwnershipEvent
    <2>. QED  BY <1>2, <2>1, <2>3, WriteKeeps DEF PutOwnershipEvent
  <1>3. ASSUME NEW f \in Filings, MarkIngestionFingerprint(f) PROVE BackupInv'
    <2>. DEFINE names == {"ingestion_dedup"}
    <2>1. names \in SUBSET Tables /\ Add(names, f) /\ EventsOf[f] \subseteq tables["records"]
      BY <1>3 DEF MarkIngestionFingerprint, Tables
    <2>2. /\ tables'["records"] = tables["records"]
          /\ tables'["ingestion_dedup"] = tables["ingestion_dedup"] \cup {f}
          /\ tables'["symbols"] = tables["symbols"]
      BY <2>1, Added DEF Tables
    <2>3. WholeWrites(tables)'
      BY <1>0, <2>1, <2>2 DEF WholeWrites, IsOwnershipEvent
    <2>. QED  BY <1>3, <2>1, <2>3, WriteKeeps DEF MarkIngestionFingerprint
  <1>4. ASSUME NEW n \in NewsItems, PutNewsEvent(n) PROVE BackupInv'
    <2>. DEFINE names == {"news_events"}
    <2>1. names \in SUBSET Tables /\ Add(names, n)
      BY <1>4 DEF PutNewsEvent, Tables
    <2>2. /\ tables'["records"] = tables["records"]
          /\ tables'["ingestion_dedup"] = tables["ingestion_dedup"]
          /\ tables'["symbols"] = tables["symbols"]
      BY <2>1, Added DEF Tables
    <2>3. WholeWrites(tables)'
      BY <1>0, <2>2 DEF WholeWrites, IsOwnershipEvent
    <2>. QED  BY <1>4, <2>1, <2>3, WriteKeeps DEF PutNewsEvent
  <1>5. ASSUME NEW b \in Backups, NEW progress \in {"copying", "exporting"}, Begin(b, progress)
        PROVE  BackupInv'
    <2>1. BackupTypeOK'
      BY <1>0, <1>5 DEF Begin, BackupTypeOK, Progress
    <2>2. destination'[b] = progress /\ before'[b] = tables /\ tables' = tables
      BY <1>0, <1>5 DEF Begin, BackupTypeOK
    <2>3. CopyOK(b)'
      BY <2>2 DEF CopyOK
    <2>. QED  BY <1>0, <1>5, <2>1, <2>3, OneCopySteps DEF Begin, BackupTypeOK
  <1>6. ASSUME NEW b \in Backups, CopyRows(b) PROVE BackupInv'
    <2>1. BackupTypeOK'
      BY <1>0, <1>6 DEF CopyRows, CopyOf, BackupTypeOK, Progress
    <2>2. copied'[b] = tables /\ before'[b] = before[b] /\ tables' = tables
      BY <1>0, <1>6 DEF CopyRows, CopyOf, BackupTypeOK
    <2>3. \A t \in Tables : before[b][t] \subseteq tables[t]
      BY <1>0, <1>6 DEF CopyRows, CopyOK
    <2>4. WholeWrites(copied[b])'
      BY <1>0, <2>2 DEF WholeWrites, IsOwnershipEvent
    <2>5. CopyOK(b)'
      BY <2>2, <2>3, <2>4 DEF CopyOK
    <2>. QED  BY <1>0, <1>6, <2>1, <2>5, OneCopySteps DEF CopyRows, BackupTypeOK
  <1>7. ASSUME NEW b \in Backups, NEW progress \in {"verified", "abandoned", "raised"},
               destination' = [destination EXCEPT ![b] = progress], destination[b] # "absent",
               UNCHANGED <<backend, tables, copied, before>>,
               progress = "verified" => destination[b] = "copied"
        PROVE  BackupInv'
    <2>1. BackupTypeOK'
      BY <1>0, <1>7 DEF BackupTypeOK, Progress
    <2>2. destination'[b] = progress /\ copied'[b] = copied[b]
      BY <1>0, <1>7 DEF BackupTypeOK
    <2>3. WholeWrites(copied[b])' <=> WholeWrites(copied[b])
      BY <2>2 DEF WholeWrites, IsOwnershipEvent
    <2>4. CopyOK(b)'
      BY <1>0, <1>7, <2>2, <2>3 DEF CopyOK
    <2>. QED  BY <1>0, <1>7, <2>1, <2>4, OneCopySteps DEF BackupTypeOK
  <1>8. CASE UNCHANGED backupVars
    <2>1. WholeWrites(tables)' /\ BackupTypeOK'
      BY <1>0, <1>8 DEF backupVars, WholeWrites, IsOwnershipEvent, BackupTypeOK
    <2>2. ASSUME NEW b \in Backups PROVE CopyOK(b)'
      <3>1. WholeWrites(copied[b])' <=> WholeWrites(copied[b])
        BY <1>8 DEF backupVars, WholeWrites, IsOwnershipEvent
      <3>. QED  BY <1>0, <1>8, <3>1 DEF backupVars, CopyOK
    <2>. QED  BY <2>1, <2>2 DEF BackupInv
  <1>9. ASSUME NEW b \in Backups,
               BeginCopy(b) \/ CopyRows(b) \/ VerifyCopy(b) \/ AbandonCopy(b) \/ BeginExport(b)
                 \/ ExportRaises(b)
        PROVE  BackupInv'
    <2>1. CASE BeginCopy(b) \/ BeginExport(b)
      BY <1>5, <2>1 DEF BeginCopy, BeginExport
    <2>2. CASE VerifyCopy(b)
      BY <1>7, <2>2 DEF VerifyCopy
    <2>3. CASE AbandonCopy(b)
      BY <1>7, <2>3 DEF AbandonCopy
    <2>4. CASE ExportRaises(b)
      BY <1>7, <2>4 DEF ExportRaises
    <2>. QED  BY <1>6, <1>9, <2>1, <2>2, <2>3, <2>4
  <1>. QED
    BY <1>1, <1>2, <1>3, <1>4, <1>8, <1>9 DEF BackupNext

LEMMA BackupInvCovers == BackupInv => CopyIsConsistent
  BY DEF BackupInv, CopyOK, CopyIsConsistent

LEMMA ServiceImplementsBackup == Spec => BackupSpec
  <1>1. Init => BackupInit
    BY DEF Init
  <1>2. [Next]_vars => [BackupNext]_backupVars
    BY DEF Next, vars, backupVars
  <1>. QED  BY <1>1, <1>2, PTL DEF Spec, BackupSpec

\* Whatever is written while a copy of SQLite is made, and wherever one dies, a
\* copy that is reported holds all that was stored before it was begun, and
\* whole writes only (store.py, backup_to).
THEOREM CopiesAreConsistent == Spec => []CopyIsConsistent
  <1>1. BackupSpec => []BackupInv
    BY BackupInitial, BackupStep, PTL DEF BackupSpec
  <1>. QED  BY <1>1, BackupInvCovers, ServiceImplementsBackup, PTL

-----------------------------------------------------------------------------
(* Watchlists.                                                             *)

\* A row has the version that its request counted in the rows it had read.
CountedFrom(table) ==
  \A i \in 1..Len(table) :
    /\ table[i].seen < i
    /\ table[i].version = NextVersion(table, table[i].of, table[i].seen)

\* A request has read no more rows than there are.
RequestsOK ==
  \A e \in Editors :
    /\ request[e] \in Names => rowsRead[e] <= Len(lists)
    /\ request[e] \in Nat \X Symbols => rowsRead[e] <= Len(members)

WatchlistsInv ==
  /\ WatchlistsTypeOK
  /\ CountedFrom(lists)
  /\ CountedFrom(members)
  /\ RequestsOK

Rows(keys) == [of : keys, version : Nat, seen : Nat]

LEMMA CountedRowsAreFinite ==
  ASSUME NEW table, NEW of, NEW n \in Nat
  PROVE  /\ IsFiniteSet({i \in ReadRows(n) : table[i].of = of})
         /\ NextVersion(table, of, n) \in Nat
  <1>1. ReadRows(n) \subseteq 1..n
    BY DEF ReadRows
  <1>2. IsFiniteSet(1..n)
    BY FS_Interval
  <1>3. IsFiniteSet({i \in ReadRows(n) : table[i].of = of})
    BY <1>1, <1>2, FS_Subset
  <1>. QED  BY <1>3, FS_CardinalityType DEF NextVersion

\* A row that is appended leaves the count of the others as it was.
LEMMA AppendedRowIsCounted ==
  ASSUME NEW keys, NEW table \in Seq(Rows(keys)), CountedFrom(table),
         NEW of \in keys, NEW n \in Nat, n <= Len(table),
         NEW row, row = [of |-> of, version |-> NextVersion(table, of, n), seen |-> n]
  PROVE  /\ Append(table, row) \in Seq(Rows(keys))
         /\ CountedFrom(Append(table, row))
  <1>. DEFINE longer == Append(table, row)
  <1>1. row \in Rows(keys)
    BY CountedRowsAreFinite DEF Rows
  <1>2. longer \in Seq(Rows(keys)) /\ Len(longer) = Len(table) + 1
    BY <1>1
  <1>3. \A i \in 1..Len(table) : longer[i] = table[i]
    BY <1>1
  <1>4. longer[Len(table) + 1] = row
    BY <1>1
  <1>5. ASSUME NEW m \in Nat, m <= Len(table), NEW x
        PROVE  NextVersion(longer, x, m) = NextVersion(table, x, m)
    <2>1. \A i \in ReadRows(m) : longer[i] = table[i]
      BY <1>3, <1>5 DEF ReadRows
    <2>2. {i \in ReadRows(m) : longer[i].of = x} = {i \in ReadRows(m) : table[i].of = x}
      BY <2>1
    <2>. QED  BY <2>2 DEF NextVersion
  <1>6. ASSUME NEW i \in 1..Len(longer)
        PROVE  /\ longer[i].seen < i
               /\ longer[i].version = NextVersion(longer, longer[i].of, longer[i].seen)
    <2>1. CASE i = Len(table) + 1
      <3>1. NextVersion(longer, of, n) = NextVersion(table, of, n)
        BY <1>5
      <3>. QED  BY <1>4, <2>1, <3>1
    <2>2. CASE i \in 1..Len(table)
      <3>1. table[i] \in Rows(keys) /\ table[i].seen < i
              /\ table[i].version = NextVersion(table, table[i].of, table[i].seen)
        BY <2>2 DEF CountedFrom
      <3>2. table[i].seen \in Nat /\ table[i].seen <= Len(table)
        BY <2>2, <3>1 DEF Rows
      <3>3. NextVersion(longer, table[i].of, table[i].seen) = NextVersion(table, table[i].of, table[i].seen)
        BY <1>5, <3>2
      <3>. QED  BY <1>3, <2>2, <3>1, <3>3
    <2>. QED  BY <1>2, <2>1, <2>2
  <1>. QED  BY <1>2, <1>6 DEF CountedFrom

\* A later row counts what an earlier one counted, and that row too.
LEMMA CountedRowsGrow ==
  ASSUME NEW keys, NEW table \in Seq(Rows(keys)), CountedFrom(table)
  PROVE  VersionsGrow(table)
  <1>. SUFFICES ASSUME NEW j \in 1..Len(table), NEW i \in 1..(j - 1), table[i].of = table[j].of,
                       ~(table[j].seen < i), ~(table[j].seen > ReadLimit)
                PROVE  table[i].version < table[j].version
    BY DEF VersionsGrow
  <1>. DEFINE counted(n) == {k \in ReadRows(n) : table[k].of = table[j].of}
  <1>0. /\ i \in 1..Len(table) /\ Len(table) \in Nat /\ ReadLimit \in Nat
        /\ table[i] \in Rows(keys) /\ table[j] \in Rows(keys)
    BY WatchlistsAssumption
  <1>1. /\ table[i].seen \in Nat /\ table[j].seen \in Nat
        /\ table[i].seen < i /\ i <= table[j].seen /\ table[j].seen <= ReadLimit
    BY <1>0 DEF Rows, CountedFrom
  <1>2. /\ table[i].version = Cardinality(counted(table[i].seen)) + 1
        /\ table[j].version = Cardinality(counted(table[j].seen)) + 1
    <2>1. /\ table[i].version = NextVersion(table, table[i].of, table[i].seen)
          /\ table[j].version = NextVersion(table, table[j].of, table[j].seen)
      BY <1>0 DEF CountedFrom
    <2>. QED  BY <2>1 DEF NextVersion
  <1>3. counted(table[i].seen) \subseteq counted(table[j].seen)
    BY <1>1, WatchlistsAssumption DEF ReadRows
  <1>4. i \in counted(table[j].seen) /\ i \notin counted(table[i].seen)
    BY <1>1, WatchlistsAssumption DEF ReadRows
  <1>5. IsFiniteSet(counted(table[i].seen)) /\ IsFiniteSet(counted(table[j].seen))
    BY <1>1, CountedRowsAreFinite
  <1>6. /\ Cardinality(counted(table[i].seen)) \in Nat
        /\ Cardinality(counted(table[j].seen)) \in Nat
        /\ Cardinality(counted(table[i].seen)) < Cardinality(counted(table[j].seen))
    <2>. HIDE DEF counted
    <2>. QED  BY <1>3, <1>4, <1>5, FS_Subset, FS_CardinalityType
  <1>. QED  BY <1>2, <1>6

LEMMA WatchlistsInitial == WatchlistsInit => WatchlistsInv
  BY WatchlistsAssumption
  DEF WatchlistsInit, WatchlistsInv, WatchlistsTypeOK, CountedFrom, RequestsOK

LEMMA ReadKeeps ==
  ASSUME WatchlistsInv, NEW e \in Editors, NEW of, NEW table,
         Read(e, of, table),
         \/ of \in Names /\ table = lists
         \/ of \in Nat \X Symbols /\ table = members
  PROVE  WatchlistsInv'
  <1>1. Len(lists) \in Nat /\ Len(members) \in Nat
    BY DEF WatchlistsInv, WatchlistsTypeOK
  <1>2. WatchlistsTypeOK'
    BY <1>1 DEF Read, WatchlistsInv, WatchlistsTypeOK
  <1>3. RequestsOK'
    BY <1>1, WatchlistsAssumption DEF Read, WatchlistsInv, WatchlistsTypeOK, RequestsOK
  <1>4. CountedFrom(lists)' /\ CountedFrom(members)'
    BY DEF Read, WatchlistsInv, CountedFrom, NextVersion
  <1>. QED  BY <1>2, <1>3, <1>4 DEF WatchlistsInv

LEMMA WatchlistsStep == WatchlistsInv /\ [WatchlistsNext]_watchlistVars => WatchlistsInv'
  <1>. SUFFICES ASSUME WatchlistsInv, [WatchlistsNext]_watchlistVars PROVE WatchlistsInv'
    OBVIOUS
  <1>1. ASSUME NEW e \in Editors, NEW name \in Names, Read(e, name, lists) PROVE WatchlistsInv'
    BY <1>1, ReadKeeps
  <1>2. ASSUME NEW e \in Editors, NEW list \in 1..Len(lists), NEW symbol \in Symbols,
               ReadMembers(e, list, symbol)
        PROVE  WatchlistsInv'
    <2>1. <<list, symbol>> \in Nat \X Symbols
      BY DEF WatchlistsInv, WatchlistsTypeOK
    <2>. QED  BY <1>2, <2>1, ReadKeeps DEF ReadMembers
  <1>3. ASSUME NEW e \in Editors, CreateWatchlist(e) PROVE WatchlistsInv'
    <2>1. /\ request[e] \in Names /\ rowsRead[e] \in Nat /\ rowsRead[e] <= Len(lists)
          /\ lists \in Seq(Rows(Names)) /\ CountedFrom(lists) /\ Len(lists) \in Nat
      BY <1>3 DEF CreateWatchlist, WatchlistsInv, WatchlistsTypeOK, RequestsOK, Rows, ListRow
    <2>2. /\ lists' \in Seq(Rows(Names)) /\ CountedFrom(lists)'
      BY <1>3, <2>1, AppendedRowIsCounted DEF CreateWatchlist, Row
    <2>3. Len(lists') = Len(lists) + 1
      BY <1>3, <2>1 DEF CreateWatchlist
    <2>4. WatchlistsTypeOK'
      BY <1>3, <2>2 DEF CreateWatchlist, EndRequest, WatchlistsInv, WatchlistsTypeOK, Rows, ListRow
    <2>5. RequestsOK'
      BY <1>3, <2>1, <2>3, WatchlistsAssumption
      DEF CreateWatchlist, EndRequest, WatchlistsInv, WatchlistsTypeOK, RequestsOK
    <2>6. CountedFrom(members)'
      BY <1>3 DEF CreateWatchlist, WatchlistsInv, CountedFrom, NextVersion
    <2>. QED  BY <2>2, <2>4, <2>5, <2>6 DEF WatchlistsInv
  <1>4. ASSUME NEW e \in Editors, ChangeMember(e) PROVE WatchlistsInv'
    <2>1. /\ request[e] \in Nat \X Symbols /\ rowsRead[e] \in Nat /\ rowsRead[e] <= Len(members)
          /\ members \in Seq(Rows(Nat \X Symbols)) /\ CountedFrom(members) /\ Len(members) \in Nat
      BY <1>4 DEF ChangeMember, WatchlistsInv, WatchlistsTypeOK, RequestsOK, Rows, MemberRow
    <2>2. /\ members' \in Seq(Rows(Nat \X Symbols)) /\ CountedFrom(members)'
      BY <1>4, <2>1, AppendedRowIsCounted DEF ChangeMember, Row
    <2>3. Len(members') = Len(members) + 1
      BY <1>4, <2>1 DEF ChangeMember
    <2>4. WatchlistsTypeOK'
      BY <1>4, <2>2 DEF ChangeMember, EndRequest, WatchlistsInv, WatchlistsTypeOK, Rows, MemberRow
    <2>5. RequestsOK'
      BY <1>4, <2>1, <2>3, WatchlistsAssumption
      DEF ChangeMember, EndRequest, WatchlistsInv, WatchlistsTypeOK, RequestsOK
    <2>6. CountedFrom(lists)'
      BY <1>4 DEF ChangeMember, WatchlistsInv, CountedFrom, NextVersion
    <2>. QED  BY <2>2, <2>4, <2>5, <2>6 DEF WatchlistsInv
  <1>5. CASE UNCHANGED watchlistVars
    BY <1>5 DEF watchlistVars, WatchlistsInv, WatchlistsTypeOK, CountedFrom, RequestsOK, NextVersion
  <1>. QED  BY <1>1, <1>2, <1>3, <1>4, <1>5 DEF WatchlistsNext

LEMMA WatchlistsInvGrows == WatchlistsInv => VersionsTrail
  <1>. SUFFICES ASSUME WatchlistsInv PROVE VersionsTrail
    OBVIOUS
  <1>1. lists \in Seq(Rows(Names)) /\ members \in Seq(Rows(Nat \X Symbols))
    BY DEF WatchlistsInv, WatchlistsTypeOK, Rows, ListRow, MemberRow
  <1>. QED  BY <1>1, CountedRowsGrow DEF WatchlistsInv, VersionsTrail

LEMMA ServiceImplementsWatchlists == Spec => WatchlistsSpec
  <1>1. Init => WatchlistsInit
    BY DEF Init
  <1>2. [Next]_vars => [WatchlistsNext]_watchlistVars
    BY DEF Next, vars, watchlistVars
  <1>. QED  BY <1>1, <1>2, PTL DEF Spec, WatchlistsSpec

\* However many requests change a watchlist at a time, versions grow from row
\* to row but where requests overlapped or the table outgrew what they read
\* (main.py, create_watchlist and change_watchlist_member).
THEOREM VersionsGrowAlong == Spec => []VersionsTrail
  <1>1. WatchlistsSpec => []WatchlistsInv
    BY WatchlistsInitial, WatchlistsStep, PTL DEF WatchlistsSpec
  <1>. QED  BY <1>1, WatchlistsInvGrows, ServiceImplementsWatchlists, PTL
-----------------------------------------------------------------------------
(* Sets in an order.                                                       *)

\* A total order puts every element of a set at one place of the sequence.
LEMMA InOrderLists ==
  ASSUME NEW S, IsFiniteSet(S), NEW prior, Total(S, prior)
  PROVE  /\ InOrder(S, prior) \in Seq(S)
         /\ Len(InOrder(S, prior)) = Cardinality(S)
         /\ \A i, j \in 1..Cardinality(S) :
              InOrder(S, prior)[i] = InOrder(S, prior)[j] => i = j
         /\ \A x \in S : \E i \in 1..Cardinality(S) : InOrder(S, prior)[i] = x
  <1>. DEFINE n == Cardinality(S)
              T == 0..(n - 1)
              Before(x) == {y \in S : <<y, x>> \in prior}
              place == [x \in S |-> Cardinality(Before(x))]
  <1>1. n \in Nat
    BY FS_CardinalityType
  <1>2. \A x \in S : IsFiniteSet(Before(x)) /\ Cardinality(Before(x)) \in Nat
    BY FS_Subset, FS_CardinalityType
  <1>3. ASSUME NEW x \in S PROVE place[x] \in T
    <2>1. Before(x) \subseteq S \ {x}
      BY DEF Total
    <2>2. IsFiniteSet(S \ {x}) /\ Cardinality(S \ {x}) = n - 1
      BY FS_RemoveElement
    <2>. DEFINE others == S \ {x}
    <2>3. Cardinality(Before(x)) <= n - 1
      <3>1. Before(x) \subseteq others /\ IsFiniteSet(others) /\ Cardinality(others) = n - 1
        BY <2>1, <2>2
      <3>. HIDE DEF others, Before, n
      <3>2. Cardinality(Before(x)) <= Cardinality(others)
        BY <3>1, FS_Subset
      <3>. QED  BY <3>1, <3>2
    <2>. QED  BY <1>1, <1>2, <2>3
  <1>4. ASSUME NEW x \in S, NEW y \in S, <<x, y>> \in prior PROVE place[x] < place[y]
    <2>1. Before(x) \cup {x} \subseteq Before(y)
      BY <1>4 DEF Total
    <2>2. x \notin Before(x)
      BY DEF Total
    <2>3. IsFiniteSet(Before(x) \cup {x}) /\ Cardinality(Before(x) \cup {x}) = Cardinality(Before(x)) + 1
      BY <1>2, <2>2, FS_AddElement
    <2>4. Cardinality(Before(x) \cup {x}) <= Cardinality(Before(y))
      BY <1>2, <2>1, FS_Subset
    <2>. QED  BY <1>2, <2>3, <2>4
  <1>5. ASSUME NEW x \in S, NEW y \in S, place[x] = place[y] PROVE x = y
    <2>1. place[x] \in Nat /\ place[y] \in Nat
      BY <1>2
    <2>. HIDE DEF place
    <2>2. ~(place[x] < place[y]) /\ ~(place[y] < place[x])
      BY <1>5, <2>1
    <2>. QED  BY <1>4, <2>2 DEF Total
  <1>6. IsFiniteSet(T) /\ Cardinality(T) = n
    <2>. DEFINE zero == 0
                last == n - 1
    <2>1. zero \in Int /\ last \in Int
      BY <1>1
    <2>. HIDE DEF zero, last
    <2>2. IsFiniteSet(zero..last) /\ Cardinality(zero..last) = IF zero > last THEN 0 ELSE last - zero + 1
      BY <2>1, FS_Interval
    <2>3. (IF zero > last THEN 0 ELSE last - zero + 1) = n
      BY <1>1 DEF zero, last
    <2>. QED  BY <2>2, <2>3 DEF zero, last
  <1>7. \A k \in T : \E x \in S : place[x] = k
    <2>0. place \in [S -> T] /\ \A x, y \in S : place[x] = place[y] => x = y
      <3>1. place \in [S -> T]
        BY <1>3
      <3>. QED  BY <1>5, <3>1
    <2>. HIDE DEF place, T
    <2>a. place \in Injection(S, T)
      BY <2>0 DEF Injection, IsInjective
    <2>1. place \in Surjection(S, T)
      BY <1>6, <2>a, FS_Injection
    <2>. QED  BY <2>1 DEF Surjection
  <1>8. \A x \in S : Place(S, prior, x) = place[x]
    BY DEF Place
  <1>. HIDE DEF place
  <1>9. ASSUME NEW i \in 1..n
        PROVE  InOrder(S, prior)[i] \in S /\ place[InOrder(S, prior)[i]] = i - 1
    <2>1. i - 1 \in T
      BY <1>1
    <2>2. \E x \in S : Place(S, prior, x) = i - 1
      BY <1>7, <1>8, <2>1
    <2>3. InOrder(S, prior)[i] = CHOOSE x \in S : Place(S, prior, x) = i - 1
      BY DEF InOrder
    <2>. QED  BY <1>8, <2>2, <2>3
  <1>10. InOrder(S, prior) \in Seq(S) /\ Len(InOrder(S, prior)) = n
    <2>1. InOrder(S, prior) \in [1..n -> S]
      BY <1>9 DEF InOrder
    <2>. QED  BY <1>1, <2>1
  <1>11. \A i, j \in 1..n : InOrder(S, prior)[i] = InOrder(S, prior)[j] => i = j
    <2>. SUFFICES ASSUME NEW i \in 1..n, NEW j \in 1..n,
                         InOrder(S, prior)[i] = InOrder(S, prior)[j]
                  PROVE  i = j
      OBVIOUS
    <2>1. i - 1 = j - 1
      BY <1>9
    <2>. QED  BY <1>1, <2>1
  <1>12. ASSUME NEW x \in S PROVE \E i \in 1..n : InOrder(S, prior)[i] = x
    <2>. DEFINE i == place[x] + 1
    <2>1. i \in 1..n /\ i - 1 = place[x]
      BY <1>1, <1>3
    <2>2. InOrder(S, prior)[i] \in S /\ place[InOrder(S, prior)[i]] = place[x]
      BY <1>9, <2>1
    <2>3. InOrder(S, prior)[i] = x
      BY <1>5, <2>2
    <2>. QED  BY <2>1, <2>3
  <1>. QED  BY <1>10, <1>11, <1>12

-----------------------------------------------------------------------------
(* Outcomes of signals.                                                    *)

\* What a row, stored or still to be appended, says its call had seen.
RowSound(row) == ~Settled(LatestStatus(row.id, row.horizon, row.seen))

StoredOK ==
  \A j \in 1..Len(outcomes) : outcomes[j].seen < j /\ RowSound(outcomes[j])

CallSound(c) ==
  /\ known[c] <= Len(outcomes)
  /\ phase[c] = "append" => pending[c] # <<>>
  /\ \A i \in 1..Len(pending[c]) :
       pending[c][i].seen <= Len(outcomes) /\ RowSound(pending[c][i])

PendingRowsOK == \A c \in Callers : CallSound(c)

\* The rows a summary was made of were completed and among the newest at once.
SummariesOK ==
  \A s \in 1..Len(performance) :
    \E n \in 0..Len(outcomes) : performance[s].of \subseteq Eligible(n)

\* Two rows of one call are never of one row of signals and one horizon.
Apart(one, other) == one.row # other.row \/ one.horizon # other.horizon

\* The rows of a call, stored or still to be appended, are apart from each other.
CallApart(c) ==
  /\ number[c] <= calls
  /\ phase[c] # "idle" => number[c] # 0 /\ \A d \in Callers \ {c} : number[d] # number[c]
  /\ phase[c] # "append" => pending[c] = <<>>
  /\ phase[c] \in {"outcomes", "snapshots"} => \A i \in 1..Len(outcomes) : writers[i] # number[c]
  /\ \A k \in 1..Len(pending[c]) :
       /\ \A l \in 1..Len(pending[c]) : k # l => Apart(pending[c][k], pending[c][l])
       /\ \A i \in 1..Len(outcomes) :
            writers[i] = number[c] => Apart(outcomes[i], pending[c][k])

WritersOK ==
  /\ Len(writers) = Len(outcomes)
  /\ \A i \in 1..Len(outcomes) : writers[i] <= calls
  /\ \A c \in Callers : CallApart(c)

RowsInv == OutcomesTypeOK /\ StoredOK /\ PendingRowsOK /\ CompletedIsFinal /\ SummariesOK

OutcomesInv == RowsInv /\ WritersOK

\* Rows are only added: what was known of the first n stays known.
LEMMA LatestStays ==
  ASSUME OutcomesTypeOK, NEW row \in OutcomeRow, outcomes' = Append(outcomes, row),
         NEW id, NEW horizon, NEW n \in Nat, n <= Len(outcomes)
  PROVE  LatestStatus(id, horizon, n)' = LatestStatus(id, horizon, n)
  <1>1. \A i \in 1..n : outcomes'[i] = outcomes[i]
    BY DEF OutcomesTypeOK
  <1>2. KnownRows(id, horizon, n)' = KnownRows(id, horizon, n)
    BY <1>1 DEF KnownRows
  <1>. DEFINE rows == KnownRows(id, horizon, n)
  <1>3. rows \subseteq 1..n
    BY DEF KnownRows
  <1>4. CASE rows = {}
    BY <1>2, <1>4 DEF LatestStatus
  <1>5. CASE rows # {}
    <2>. DEFINE last == CHOOSE i \in rows : \A j \in rows : j <= i
    <2>1. last \in rows
      <3>. HIDE DEF rows
      <3>. QED  BY <1>3, <1>5, LargestExists
    <2>2. last \in 1..n
      <3>. HIDE DEF rows, last
      <3>. QED  BY <1>3, <2>1
    <2>3. outcomes'[last] = outcomes[last]
      <3>. HIDE DEF last, rows
      <3>. QED  BY <1>1, <2>2
    <2>4. LatestStatus(id, horizon, n) = outcomes[last].status
      BY <1>5 DEF LatestStatus
    <2>5. LatestStatus(id, horizon, n)' = outcomes'[last].status
      BY <1>2, <1>5 DEF LatestStatus
    <2>. QED  BY <2>3, <2>4, <2>5
  <1>. QED  BY <1>4, <1>5

\* The newest row of a horizon is at or after any that is known.
LEMMA LatestIsLater ==
  ASSUME NEW id, NEW horizon, NEW n \in Nat, NEW i \in KnownRows(id, horizon, n)
  PROVE  \E l \in KnownRows(id, horizon, n) :
           /\ i <= l
           /\ LatestStatus(id, horizon, n) = outcomes[l].status
  <1>. DEFINE rows == KnownRows(id, horizon, n)
              last == CHOOSE k \in rows : \A j \in rows : j <= k
  <1>1. rows \subseteq 1..n /\ i \in rows
    BY DEF KnownRows
  <1>2. last \in rows /\ \A j \in rows : j <= last
    <2>. HIDE DEF rows
    <2>. QED  BY <1>1, LargestExists
  <1>3. LatestStatus(id, horizon, n) = outcomes[last].status
    BY <1>1 DEF LatestStatus
  <1>. QED  BY <1>1, <1>2, <1>3

\* A row whose call had not seen its horizon completed comes after one that is
\* only if the row fell out of sight, a call overlapped, or the call has
\* appended the horizon of another row of signals.
LEMMA FinalForNext ==
  ASSUME OutcomesTypeOK, StoredOK, CompletedIsFinal, NEW row \in OutcomeRow,
         row.seen <= Len(outcomes), RowSound(row), outcomes' = Append(outcomes, row),
         NEW w \in Nat, writers' = Append(writers, w), Len(writers) = Len(outcomes),
         \A i \in 1..Len(outcomes) : writers[i] = w => Apart(outcomes[i], row)
  PROVE  CompletedIsFinal'
  <1>. DEFINE m == Len(outcomes)
  <1>a. m \in Nat /\ outcomes \in Seq(OutcomeRow) /\ OutcomeLimit \in Nat
    BY OutcomesAssumption DEF OutcomesTypeOK
  <1>b. /\ Len(outcomes') = m + 1 /\ outcomes'[m + 1] = row
        /\ \A i \in 1..m : outcomes'[i] = outcomes[i] /\ outcomes[i] \in OutcomeRow
    BY <1>a
  <1>c. row.seen \in Nat
    BY DEF OutcomeRow
  <1>d. writers'[m + 1] = w /\ \A i \in 1..m : writers'[i] = writers[i]
    BY <1>a DEF OutcomesTypeOK
  <1>0. /\ m \in Nat /\ Len(outcomes') = m + 1 /\ outcomes'[m + 1] = row
        /\ \A i \in 1..m : outcomes'[i] = outcomes[i] /\ outcomes[i] \in OutcomeRow
        /\ row.seen \in Nat /\ OutcomeLimit \in Nat
    BY <1>a, <1>b, <1>c
  <1>. SUFFICES ASSUME NEW j \in 1..(m + 1), NEW i \in 1..(j - 1),
                       SameHorizon(i, j)', outcomes'[i].status = "completed"
                PROVE  DroppedOut(i, j)' \/ \E k \in (i + 1)..j :
                                           SameHorizon(i, k)' /\ (Overlaps(i, k)' \/ Repeats(i, k)')
    BY <1>0 DEF CompletedIsFinal
  <1>1. CASE j \in 1..m
    <2>1. SameHorizon(i, j) /\ outcomes[i].status = "completed"
      BY <1>0, <1>1 DEF SameHorizon
    <2>2. DroppedOut(i, j) \/ \E k \in (i + 1)..j :
                                SameHorizon(i, k) /\ (Overlaps(i, k) \/ Repeats(i, k))
      BY <1>1, <2>1 DEF CompletedIsFinal
    <2>3. CASE DroppedOut(i, j)
      BY <1>0, <1>1, <2>3 DEF DroppedOut
    <2>4. ASSUME NEW k \in (i + 1)..j, SameHorizon(i, k), Overlaps(i, k) \/ Repeats(i, k)
          PROVE  SameHorizon(i, k)' /\ (Overlaps(i, k)' \/ Repeats(i, k)')
      BY <1>0, <1>d, <1>1, <2>4 DEF SameHorizon, Overlaps, Repeats
    <2>. QED  BY <2>2, <2>3, <2>4
  <1>2. CASE j = m + 1
    <2>0. /\ i \in 1..m /\ outcomes[i].id = row.id /\ outcomes[i].horizon = row.horizon
          /\ outcomes[i].status = "completed"
      BY <1>0, <1>2 DEF SameHorizon
    <2>1. CASE row.seen < i
      <3>1. writers'[i] = writers[i] /\ writers'[j] = w
        BY <1>d, <1>2, <2>0
      <3>2. Overlaps(i, j)' \/ Repeats(i, j)'
        <4>1. CASE writers[i] # w
          BY <1>0, <1>2, <2>1, <3>1, <4>1 DEF Overlaps
        <4>2. CASE writers[i] = w
          <5>1. outcomes[i].row # row.row
            BY <2>0, <4>2 DEF Apart
          <5>. QED  BY <1>0, <1>2, <2>0, <3>1, <4>2, <5>1 DEF Repeats
        <4>. QED  BY <4>1, <4>2
      <3>3. j \in (i + 1)..j
        BY <1>0, <1>2, <2>0
      <3>. QED  BY <3>2, <3>3
    <2>2. CASE row.seen >= i + OutcomeLimit
      BY <1>0, <1>2, <2>2 DEF DroppedOut
    <2>3. CASE i <= row.seen /\ row.seen < i + OutcomeLimit
      <3>1. i \in KnownRows(row.id, row.horizon, row.seen)
        BY <1>0, <2>0, <2>3 DEF KnownRows
      <3>2. PICK l \in KnownRows(row.id, row.horizon, row.seen) :
              i <= l /\ LatestStatus(row.id, row.horizon, row.seen) = outcomes[l].status
        <4>1. PICK n \in Nat : n = row.seen
          BY <1>0
        <4>2. i \in KnownRows(row.id, row.horizon, n)
          BY <3>1, <4>1
        <4>3. \E l \in KnownRows(row.id, row.horizon, n) :
                i <= l /\ LatestStatus(row.id, row.horizon, n) = outcomes[l].status
          BY <4>2, LatestIsLater
        <4>. QED  BY <4>1, <4>3
      <3>3. l \in 1..row.seen /\ outcomes[l].id = row.id /\ outcomes[l].horizon = row.horizon
        BY <3>2 DEF KnownRows
      <3>4. outcomes[l].status # "completed"
        BY <3>2 DEF RowSound, Settled
      <3>5. l \in 1..m /\ i \in 1..(l - 1) /\ SameHorizon(i, l)
        <4>1. l # i
          BY <2>0, <3>4
        <4>. QED  BY <1>0, <2>0, <3>2, <3>3, <4>1 DEF SameHorizon
      <3>6. outcomes[l].seen < l /\ outcomes[l].seen \in Nat
        BY <1>0, <3>5 DEF StoredOK, OutcomeRow
      <3>7. ~DroppedOut(i, l)
        BY <1>0, <2>0, <2>3, <3>3, <3>5, <3>6 DEF DroppedOut
      <3>8. PICK k \in (i + 1)..l : SameHorizon(i, k) /\ (Overlaps(i, k) \/ Repeats(i, k))
        BY <2>0, <3>5, <3>7 DEF CompletedIsFinal
      <3>9. k \in (i + 1)..j /\ k \in 1..m
        BY <1>0, <1>2, <2>0, <3>5, <3>8
      <3>10. SameHorizon(i, k)' /\ (Overlaps(i, k)' \/ Repeats(i, k)')
        BY <1>0, <1>d, <2>0, <3>8, <3>9 DEF SameHorizon, Overlaps, Repeats
      <3>. QED  BY <3>9, <3>10
    <2>. QED  BY <1>0, <2>0, <2>1, <2>2, <2>3
  <1>. QED  BY <1>0, <1>1, <1>2

\* A row that has not been overtaken stays so when another is stored.
LEMMA SoundStays ==
  ASSUME OutcomesTypeOK, NEW row \in OutcomeRow, outcomes' = Append(outcomes, row),
         NEW r \in OutcomeRow, r.seen <= Len(outcomes), RowSound(r)
  PROVE  r.seen <= Len(outcomes') /\ RowSound(r)'
  <1>1. r.seen \in Nat
    BY DEF OutcomeRow
  <1>2. LatestStatus(r.id, r.horizon, r.seen)' = LatestStatus(r.id, r.horizon, r.seen)
    BY <1>1, LatestStays
  <1>3. outcomes \in Seq(OutcomeRow)
    BY DEF OutcomesTypeOK
  <1>4. Len(outcomes') = Len(outcomes) + 1 /\ Len(outcomes) \in Nat
    BY <1>3
  <1>. QED  BY <1>1, <1>2, <1>4 DEF RowSound, Settled

\* Without a new row nothing that is said of the rows changes.
LEMMA RowsUntouched ==
  ASSUME UNCHANGED <<outcomes, writers>>
  PROVE  /\ StoredOK => StoredOK'
         /\ CompletedIsFinal => CompletedIsFinal'
         /\ \A n : Eligible(n)' = Eligible(n)
         /\ \A row : RowSound(row) => RowSound(row)'
  <1>1. \A row : RowSound(row) => RowSound(row)'
    BY DEF RowSound, Settled, LatestStatus, KnownRows
  <1>2. StoredOK => StoredOK'
    BY <1>1 DEF StoredOK
  <1>3. CompletedIsFinal => CompletedIsFinal'
    BY DEF CompletedIsFinal, SameHorizon, DroppedOut, Overlaps, Repeats
  <1>. QED  BY <1>1, <1>2, <1>3 DEF Eligible

LEMMA HorizonsAreNumbered ==
  /\ IsFiniteSet(Horizons)
  /\ \A h \in Horizons : HorizonNumber(h) \in 1..5 /\ HorizonOrder[HorizonNumber(h)] = h
  <1>1. ASSUME NEW h \in Horizons PROVE \E i \in 1..5 : HorizonOrder[i] = h
    <2>1. h \in {"1h", "close", "1d", "5d", "20d"}
      BY OutcomesAssumption
    <2>2. /\ HorizonOrder[1] = "1h" /\ HorizonOrder[2] = "close" /\ HorizonOrder[3] = "1d"
          /\ HorizonOrder[4] = "5d" /\ HorizonOrder[5] = "20d"
      BY DEF HorizonOrder
    <2>3. 1 \in 1..5 /\ 2 \in 1..5 /\ 3 \in 1..5 /\ 4 \in 1..5 /\ 5 \in 1..5
      OBVIOUS
    <2>. QED  BY <2>1, <2>2, <2>3
  <1>2. ASSUME NEW h \in Horizons
        PROVE  HorizonNumber(h) \in 1..5 /\ HorizonOrder[HorizonNumber(h)] = h
    <2>1. \E i \in 1..5 : HorizonOrder[i] = h
      BY <1>1
    <2>. QED  BY <2>1 DEF HorizonNumber
  <1>3. IsFiniteSet(Horizons)
    <2>1. IsFiniteSet({})
      BY FS_EmptySet
    <2>2. IsFiniteSet({} \cup {"1h"})
      BY <2>1, FS_AddElement
    <2>3. IsFiniteSet({"1h"} \cup {"close"})
      BY <2>2, FS_AddElement
    <2>4. IsFiniteSet({"1h", "close"} \cup {"1d"})
      BY <2>3, FS_AddElement
    <2>5. IsFiniteSet({"1h", "close", "1d"} \cup {"5d"})
      BY <2>4, FS_AddElement
    <2>6. IsFiniteSet({"1h", "close", "1d", "5d"} \cup {"20d"})
      BY <2>5, FS_AddElement
    <2>7. Horizons \subseteq ({"1h", "close", "1d", "5d"} \cup {"20d"})
      BY OutcomesAssumption
    <2>. QED  BY <2>6, <2>7, FS_Subset
  <1>. QED  BY <1>2, <1>3

\* The rows of signals are gone through in an order that leaves none out.
LEMMA AppendOrderIsTotal ==
  ASSUME NEW rows \in Seq(SignalRow), NEW S, S \subseteq (1..Len(rows)) \X Horizons
  PROVE  IsFiniteSet(S) /\ Total(S, AppendOrder(S))
  <1>. DEFINE N(p) == HorizonNumber(p[2])
  <1>0. Len(rows) \in Nat
    OBVIOUS
  <1>1. IsFiniteSet(S)
    <2>. DEFINE one == 1
                len == Len(rows)
                I == one..len
    <2>1. one \in Int /\ len \in Int
      BY <1>0
    <2>. HIDE DEF one, len
    <2>2. IsFiniteSet(I)
      BY <2>1, FS_Interval
    <2>. HIDE DEF I
    <2>3. IsFiniteSet(I \X Horizons)
      BY <2>2, HorizonsAreNumbered, FS_Product
    <2>4. S \subseteq I \X Horizons
      BY DEF I, one, len
    <2>. QED  BY <2>3, <2>4, FS_Subset
  <1>2. \A p \in S : /\ p[1] \in Int /\ N(p) \in Int /\ HorizonOrder[N(p)] = p[2]
                     /\ p = <<p[1], p[2]>>
    <2>. SUFFICES ASSUME NEW p \in S
                  PROVE  /\ p[1] \in Int /\ N(p) \in Int /\ HorizonOrder[N(p)] = p[2]
                         /\ p = <<p[1], p[2]>>
      OBVIOUS
    <2>1. p \in (1..Len(rows)) \X Horizons
      OBVIOUS
    <2>2. p[1] \in 1..Len(rows) /\ p[2] \in Horizons /\ p = <<p[1], p[2]>>
      BY <2>1
    <2>3. N(p) \in 1..5 /\ HorizonOrder[N(p)] = p[2]
      BY <2>2, HorizonsAreNumbered
    <2>. HIDE DEF N
    <2>. QED  BY <1>0, <2>2, <2>3
  <1>3. \A p, q \in S : <<p, q>> \in AppendOrder(S) <=>
                           p[1] > q[1] \/ (p[1] = q[1] /\ N(p) < N(q))
    BY DEF AppendOrder
  <1>4. \A p, q \in S : p[1] = q[1] /\ N(p) = N(q) => p = q
    <2>. SUFFICES ASSUME NEW p \in S, NEW q \in S, p[1] = q[1], N(p) = N(q) PROVE p = q
      OBVIOUS
    <2>1. p[2] = q[2]
      BY <1>2
    <2>2. p = <<p[1], p[2]>> /\ q = <<q[1], q[2]>>
      BY <1>2
    <2>. QED  BY <2>1, <2>2
  <1>. HIDE DEF N
  <1>5. \A p \in S : <<p, p>> \notin AppendOrder(S)
    BY <1>2, <1>3
  <1>6. \A p, q \in S : p = q \/ <<p, q>> \in AppendOrder(S) \/ <<q, p>> \in AppendOrder(S)
    <2>. SUFFICES ASSUME NEW p \in S, NEW q \in S, p # q
                  PROVE  <<p, q>> \in AppendOrder(S) \/ <<q, p>> \in AppendOrder(S)
      OBVIOUS
    <2>1. p[1] \in Int /\ q[1] \in Int /\ N(p) \in Int /\ N(q) \in Int
      BY <1>2
    <2>2. p[1] # q[1] \/ N(p) # N(q)
      BY <1>4
    <2>3. \/ p[1] > q[1] \/ (p[1] = q[1] /\ N(p) < N(q))
          \/ q[1] > p[1] \/ (q[1] = p[1] /\ N(q) < N(p))
      BY <2>1, <2>2
    <2>. QED  BY <1>3, <2>3
  <1>7. \A p, q, r \in S : <<p, q>> \in AppendOrder(S) /\ <<q, r>> \in AppendOrder(S)
                             => <<p, r>> \in AppendOrder(S)
    <2>. SUFFICES ASSUME NEW p \in S, NEW q \in S, NEW r \in S,
                         <<p, q>> \in AppendOrder(S), <<q, r>> \in AppendOrder(S)
                  PROVE  <<p, r>> \in AppendOrder(S)
      OBVIOUS
    <2>1. /\ p[1] \in Int /\ q[1] \in Int /\ r[1] \in Int
          /\ N(p) \in Int /\ N(q) \in Int /\ N(r) \in Int
      BY <1>2
    <2>2. /\ p[1] > q[1] \/ (p[1] = q[1] /\ N(p) < N(q))
          /\ q[1] > r[1] \/ (q[1] = r[1] /\ N(q) < N(r))
      BY <1>3
    <2>3. p[1] > r[1] \/ (p[1] = r[1] /\ N(p) < N(r))
      BY <2>1, <2>2
    <2>. QED  BY <1>3, <2>3
  <1>. QED  BY <1>1, <1>5, <1>6, <1>7 DEF Total

LEMMA EvaluationIsStatus ==
  ASSUME NEW horizon, NEW at, NEW current, NEW prices
  PROVE  Evaluation(horizon, at, current, prices) \in Statuses
  BY DEF Evaluation, Statuses

\* What a call has to append: sound rows, that say what it had seen.
LEMMA RowsOfCall ==
  ASSUME NEW rows \in Seq(SignalRow), NEW current, NEW n \in Nat, NEW prices
  PROVE  /\ AllRows(rows, current, n, prices) \in Seq(OutcomeRow)
         /\ \A i \in 1..Len(AllRows(rows, current, n, prices)) :
              LET row == AllRows(rows, current, n, prices)[i]
              IN  row.seen = n /\ RowSound(row)
         /\ \A i, k \in 1..Len(AllRows(rows, current, n, prices)) :
              i # k => Apart(AllRows(rows, current, n, prices)[i], AllRows(rows, current, n, prices)[k])
  <1>. DEFINE S == ChangedOf(rows, current, n, prices)
              order == InOrder(S, AppendOrder(S))
              RowsOf(p) == RowOf(p, rows, current, n, prices)
  <1>1. S \subseteq (1..Len(rows)) \X Horizons
    BY DEF ChangedOf
  <1>2. ASSUME NEW p \in S PROVE RowsOf(p) \in OutcomeRow /\ RowsOf(p).seen = n /\ RowSound(RowsOf(p))
    <2>1. p[1] \in 1..Len(rows) /\ p[2] \in Horizons
      BY <1>1
    <2>2. rows[p[1]] \in SignalRow
      BY <2>1
    <2>3. rows[p[1]].id \in SignalIds
      BY <2>2 DEF SignalRow
    <2>4. RowsOf(p).id = rows[p[1]].id /\ RowsOf(p).horizon = p[2] /\ RowsOf(p).seen = n
      BY DEF RowOf
    <2>5. RowsOf(p).status \in Statuses
      BY EvaluationIsStatus DEF RowOf
    <2>6. RowsOf(p) \in OutcomeRow
      <3>1. p[1] \in Nat
        BY <2>1
      <3>. QED  BY <2>1, <2>3, <3>1, EvaluationIsStatus DEF RowOf, OutcomeRow
    <2>7. ~Settled(LatestStatus(rows[p[1]].id, p[2], n))
      BY DEF ChangedOf
    <2>. QED  BY <2>4, <2>6, <2>7 DEF RowSound
  <1>a. \A p, q \in S : p # q => Apart(RowsOf(p), RowsOf(q))
    <2>. SUFFICES ASSUME NEW p \in S, NEW q \in S, p # q PROVE Apart(RowsOf(p), RowsOf(q))
      OBVIOUS
    <2>1. p = <<p[1], p[2]>> /\ q = <<q[1], q[2]>>
      BY <1>1
    <2>2. p[1] # q[1] \/ p[2] # q[2]
      BY <2>1
    <2>3. RowsOf(p).row = p[1] /\ RowsOf(p).horizon = p[2]
          /\ RowsOf(q).row = q[1] /\ RowsOf(q).horizon = q[2]
      BY DEF RowOf
    <2>. HIDE DEF RowsOf, S
    <2>. QED  BY <2>2, <2>3 DEF Apart
  <1>. HIDE DEF S, RowsOf
  <1>3. /\ order \in Seq(S)
        /\ \A i, k \in 1..Len(order) : order[i] = order[k] => i = k
    <2>1. IsFiniteSet(S) /\ Total(S, AppendOrder(S))
      BY <1>1, AppendOrderIsTotal
    <2>2. order \in Seq(S) /\ Len(order) = Cardinality(S)
      BY <2>1, InOrderLists
    <2>3. \A i, k \in 1..Cardinality(S) : order[i] = order[k] => i = k
      BY <2>1, InOrderLists
    <2>. HIDE DEF order
    <2>. QED  BY <2>2, <2>3
  <1>4. AllRows(rows, current, n, prices) = [i \in 1..Len(order) |-> RowsOf(order[i])]
    BY DEF AllRows, S, RowsOf
  <1>. HIDE DEF order
  <1>5. \A i \in 1..Len(order) : order[i] \in S
    BY <1>3
  <1>6. Len(order) \in Nat
    BY <1>3
  <1>7. AllRows(rows, current, n, prices) \in [1..Len(order) -> OutcomeRow]
    BY <1>2, <1>4, <1>5
  <1>8. AllRows(rows, current, n, prices) \in Seq(OutcomeRow)
        /\ Len(AllRows(rows, current, n, prices)) = Len(order)
    BY <1>6, <1>7
  <1>9. ASSUME NEW i \in 1..Len(order), NEW k \in 1..Len(order), i # k
        PROVE  Apart(AllRows(rows, current, n, prices)[i], AllRows(rows, current, n, prices)[k])
    <2>1. order[i] # order[k] /\ order[i] \in S /\ order[k] \in S
      BY <1>3, <1>5, <1>9
    <2>. QED  BY <1>a, <1>4, <2>1
  <1>. QED  BY <1>2, <1>4, <1>5, <1>8, <1>9

\* The rows counted for one horizon are not those of another, and the newest
\* of them tells which horizon is met first.
LEMMA MetBeforeIsTotal ==
  ASSUME OutcomesTypeOK, NEW S, S \subseteq {h \in Horizons : SamplesOf(h) # {}}
  PROVE  IsFiniteSet(S) /\ Total(S, MetBefore(S))
  <1>. DEFINE m == Len(outcomes)
  <1>0. m \in Nat
    BY DEF OutcomesTypeOK
  <1>1. IsFiniteSet(S)
    BY HorizonsAreNumbered, FS_Subset
  <1>2. \A h : SamplesOf(h) \subseteq 1..m
    BY DEF SamplesOf, Eligible
  <1>3. \A h \in S : \E i \in SamplesOf(h) : i \in Int /\ \A j \in SamplesOf(h) : j \in Int /\ j <= i
    <2>. HIDE DEF m
    <2>1. ASSUME NEW h \in S
          PROVE  \E i \in SamplesOf(h) : i \in Int /\ \A j \in SamplesOf(h) : j \in Int /\ j <= i
      <3>1. SamplesOf(h) \subseteq 1..m /\ SamplesOf(h) # {}
        BY <1>2
      <3>2. \E i \in SamplesOf(h) : \A j \in SamplesOf(h) : j <= i
        BY <1>0, <3>1, LargestExists
      <3>3. \A j \in SamplesOf(h) : j \in Int
        BY <1>0, <3>1
      <3>. QED  BY <3>2, <3>3
    <2>. QED  BY <2>1
  <1>4. \A x, y \in S : <<x, y>> \in MetBefore(S)
                          <=> \E i \in SamplesOf(x) : \A j \in SamplesOf(y) : j < i
    BY DEF MetBefore
  <1>5. \A x, y : x # y => SamplesOf(x) \cap SamplesOf(y) = {}
    BY DEF SamplesOf
  <1>6. \A x \in S : <<x, x>> \notin MetBefore(S)
    <2>. SUFFICES ASSUME NEW x \in S, NEW i \in SamplesOf(x), \A j \in SamplesOf(x) : j < i
                  PROVE  FALSE
      BY <1>4
    <2>. QED  BY <1>3
  <1>7. \A x, y \in S : x = y \/ <<x, y>> \in MetBefore(S) \/ <<y, x>> \in MetBefore(S)
    <2>. SUFFICES ASSUME NEW x \in S, NEW y \in S, x # y
                  PROVE  <<x, y>> \in MetBefore(S) \/ <<y, x>> \in MetBefore(S)
      OBVIOUS
    <2>1. PICK i \in SamplesOf(x) : i \in Int /\ \A j \in SamplesOf(x) : j \in Int /\ j <= i
      BY <1>3
    <2>2. PICK k \in SamplesOf(y) : k \in Int /\ \A j \in SamplesOf(y) : j \in Int /\ j <= k
      BY <1>3
    <2>3. i # k
      BY <1>5, <2>1, <2>2
    <2>4. CASE i < k
      <3>1. \A j \in SamplesOf(x) : j < k
        BY <2>1, <2>2, <2>4
      <3>. QED  BY <1>4, <3>1
    <2>5. CASE k < i
      <3>1. \A j \in SamplesOf(y) : j < i
        BY <2>1, <2>2, <2>5
      <3>. QED  BY <1>4, <3>1
    <2>. QED  BY <2>1, <2>2, <2>3, <2>4, <2>5
  <1>8. \A x, y, z \in S : <<x, y>> \in MetBefore(S) /\ <<y, z>> \in MetBefore(S)
                             => <<x, z>> \in MetBefore(S)
    <2>. SUFFICES ASSUME NEW x \in S, NEW y \in S, NEW z \in S,
                         <<x, y>> \in MetBefore(S), <<y, z>> \in MetBefore(S)
                  PROVE  <<x, z>> \in MetBefore(S)
      OBVIOUS
    <2>1. PICK i \in SamplesOf(x) : \A j \in SamplesOf(y) : j < i
      BY <1>4
    <2>2. PICK k \in SamplesOf(y) : \A j \in SamplesOf(z) : j < k
      BY <1>4
    <2>3. i \in Int /\ k \in Int /\ k < i /\ \A j \in SamplesOf(z) : j \in Int /\ j < k
      BY <1>3, <2>1, <2>2
    <2>4. \A j \in SamplesOf(z) : j < i
      BY <2>3
    <2>. QED  BY <1>4, <2>4
  <1>. QED  BY <1>1, <1>6, <1>7, <1>8 DEF Total

LEMMA SummariesOfRows ==
  ASSUME OutcomesTypeOK
  PROVE  /\ PerformanceRows \in Seq(SummaryRow)
         /\ \A s \in 1..Len(PerformanceRows) : PerformanceRows[s].of \subseteq Eligible(Len(outcomes))
  <1>. DEFINE m == Len(outcomes)
              S == {h \in Horizons : SamplesOf(h) # {}}
              order == InOrder(S, MetBefore(S))
              RowsOf(h) == [horizon |-> h, samples |-> Cardinality(SamplesOf(h)), of |-> SamplesOf(h)]
  <1>0. m \in Nat
    BY DEF OutcomesTypeOK
  <1>1. \A h \in S : RowsOf(h) \in SummaryRow /\ RowsOf(h).of \subseteq Eligible(m)
    <2>. SUFFICES ASSUME NEW h \in S PROVE RowsOf(h) \in SummaryRow /\ RowsOf(h).of \subseteq Eligible(m)
      OBVIOUS
    <2>1. SamplesOf(h) \subseteq Eligible(m) /\ Eligible(m) \subseteq 1..m
      BY DEF SamplesOf, Eligible
    <2>2. IsFiniteSet(1..m)
      <3>. DEFINE one == 1
      <3>1. one \in Int /\ m \in Int
        BY <1>0
      <3>. HIDE DEF one, m
      <3>2. IsFiniteSet(one..m)
        BY <3>1, FS_Interval
      <3>. QED  BY <3>2 DEF one
    <2>. HIDE DEF m
    <2>3. SamplesOf(h) \subseteq 1..m
      BY <2>1
    <2>4. IsFiniteSet(SamplesOf(h))
      BY <2>2, <2>3, FS_Subset
    <2>5. Cardinality(SamplesOf(h)) \in Nat
      BY <2>4, FS_CardinalityType
    <2>6. SamplesOf(h) \subseteq Nat
      BY <1>0, <2>3
    <2>. QED  BY <2>1, <2>5, <2>6 DEF SummaryRow
  <1>2. order \in Seq(S)
    <2>. HIDE DEF S
    <2>1. S \subseteq {h \in Horizons : SamplesOf(h) # {}}
      BY DEF S
    <2>. QED  BY <2>1, MetBeforeIsTotal, InOrderLists
  <1>3. PerformanceRows = [i \in 1..Len(order) |-> RowsOf(order[i])]
    BY DEF PerformanceRows
  <1>. HIDE DEF order, S, RowsOf, m
  <1>4. Len(order) \in Nat /\ \A i \in 1..Len(order) : order[i] \in S
    BY <1>2
  <1>5. PerformanceRows \in [1..Len(order) -> SummaryRow]
    BY <1>1, <1>3, <1>4
  <1>6. PerformanceRows \in Seq(SummaryRow) /\ Len(PerformanceRows) = Len(order)
    BY <1>4, <1>5
  <1>. QED  BY <1>1, <1>3, <1>4, <1>6 DEF m

\* The newest rows of a table are rows of it.
LEMMA NewestAreRows ==
  ASSUME NEW RowsOf, NEW table \in Seq(RowsOf), NEW limit \in Nat
  PROVE  NewestOf(table, limit) \in Seq(RowsOf)
  <1>. DEFINE first == (IF Len(table) > limit THEN Len(table) - limit ELSE 0) + 1
              last == Len(table)
  <1>1. last \in Nat /\ first \in 1..(last + 1)
    OBVIOUS
  <1>2. NewestOf(table, limit) = SubSeq(table, first, last)
    BY DEF NewestOf
  <1>3. \A i \in first..last : table[i] \in RowsOf
    BY <1>1
  <1>. HIDE DEF first, last
  <1>. QED  BY <1>1, <1>2, <1>3

-----------------------------------------------------------------------------
(* The invariant of the outcomes.                                          *)

LEMMA OutcomesInitial == OutcomesInit => OutcomesInv
  <1>. SUFFICES ASSUME OutcomesInit PROVE OutcomesInv
    OBVIOUS
  <1>. USE DEF OutcomesInit
  <1>1. OutcomesTypeOK
    BY OutcomesAssumption DEF OutcomesTypeOK
  <1>2. StoredOK /\ CompletedIsFinal
    BY DEF StoredOK, CompletedIsFinal
  <1>3. PendingRowsOK
    BY DEF PendingRowsOK, CallSound
  <1>4. SummariesOK
    BY DEF SummariesOK
  <1>5. WritersOK
    BY DEF WritersOK, CallApart
  <1>. QED  BY <1>1, <1>2, <1>3, <1>4, <1>5 DEF OutcomesInv, RowsInv

\* A call that ends leaves nothing behind but what it has stored.
LEMMA EndOfType ==
  ASSUME OutcomesTypeOK, NEW c \in Callers, EndCall(c)
  PROVE  /\ phase' \in [Callers -> {"idle", "outcomes", "snapshots", "append"}]
         /\ number' \in [Callers -> Nat]
         /\ asOf' \in [Callers -> Nat]
         /\ asked' \in [Callers -> Seq(SignalRow)]
         /\ known' \in [Callers -> Nat]
         /\ pending' \in [Callers -> Seq(OutcomeRow)]
         /\ \A d \in Callers : IF d = c THEN /\ phase'[d] = "idle" /\ known'[d] = 0
                                             /\ pending'[d] = <<>> /\ number'[d] = 0
                               ELSE /\ phase'[d] = phase[d] /\ known'[d] = known[d]
                                    /\ pending'[d] = pending[d] /\ number'[d] = number[d]
  BY DEF EndCall, OutcomesTypeOK

\* What a call has still to append is sound as long as no row is added and it
\* goes on as it was.
LEMMA CallKeeps ==
  ASSUME OutcomesInv, UNCHANGED <<outcomes, writers>>, NEW d \in Callers,
         phase'[d] = phase[d] \/ phase'[d] # "append",
         known'[d] <= Len(outcomes), pending'[d] = pending[d] \/ pending'[d] = <<>>,
         phase'[d] = "append" => pending'[d] = pending[d]
  PROVE  CallSound(d)'
  <1>1. CallSound(d)
    BY DEF OutcomesInv, RowsInv, PendingRowsOK
  <1>2. ASSUME NEW i \in 1..Len(pending'[d])
        PROVE  pending'[d][i].seen <= Len(outcomes') /\ RowSound(pending[d][i])'
    <2>1. pending'[d] = pending[d]
      BY <1>2
    <2>2. pending[d][i].seen <= Len(outcomes) /\ RowSound(pending[d][i])
      BY <1>1, <2>1 DEF CallSound
    <2>3. RowSound(pending[d][i])'
      <3>1. PICK r : r = pending[d][i]
        OBVIOUS
      <3>2. RowSound(r)'
        BY <2>2, <3>1, RowsUntouched
      <3>. QED  BY <2>1, <3>1, <3>2
    <2>. QED  BY <2>1, <2>2, <2>3
  <1>3. phase'[d] = "append" => pending'[d] # <<>>
    BY <1>1 DEF CallSound
  <1>. QED  BY <1>2, <1>3 DEF CallSound

\* A step that leaves the rows alone keeps all that is said of them.
LEMMA RowsKeep ==
  ASSUME OutcomesInv, UNCHANGED <<outcomes, writers>>, OutcomesTypeOK', PendingRowsOK',
         \/ UNCHANGED performance
         \/ performance' = performance \o PerformanceRows
  PROVE  RowsInv'
  <1>1. StoredOK' /\ CompletedIsFinal'
    BY RowsUntouched DEF OutcomesInv, RowsInv
  <1>2. OutcomesTypeOK /\ SummariesOK
    BY DEF OutcomesInv, RowsInv
  <1>3. SummariesOK'
    <2>. DEFINE m == Len(outcomes)
    <2>0. m \in Nat /\ performance \in Seq(SummaryRow)
      BY <1>2 DEF OutcomesTypeOK
    <2>1. \A n : Eligible(n)' = Eligible(n)
      BY RowsUntouched
    <2>2. CASE UNCHANGED performance
      <3>1. \A s \in 1..Len(performance) : \E n \in 0..m : performance[s].of \subseteq Eligible(n)
        BY <1>2 DEF SummariesOK
      <3>. QED  BY <2>1, <2>2, <3>1 DEF SummariesOK
    <2>3. CASE performance' = performance \o PerformanceRows
      <3>. DEFINE k == Len(performance)
                  l == Len(PerformanceRows)
      <3>1. PerformanceRows \in Seq(SummaryRow) /\ k \in Nat /\ l \in Nat
        BY <1>2, <2>0, SummariesOfRows
      <3>2. Len(performance') = k + l
        BY <2>0, <2>3, <3>1
      <3>3. ASSUME NEW s \in 1..(k + l)
            PROVE  \E n \in 0..m : performance'[s].of \subseteq Eligible(n)
        <4>1. CASE s \in 1..k
          <5>1. performance'[s] = performance[s]
            BY <2>0, <2>3, <3>1, <4>1
          <5>. QED  BY <1>2, <4>1, <5>1 DEF SummariesOK
        <4>2. CASE s \notin 1..k
          <5>1. s - k \in 1..l /\ performance'[s] = PerformanceRows[s - k]
            BY <2>0, <2>3, <3>1, <4>2
          <5>2. PerformanceRows[s - k].of \subseteq Eligible(m)
            BY <1>2, <5>1, SummariesOfRows
          <5>3. m \in 0..m
            BY <2>0
          <5>. QED  BY <5>1, <5>2, <5>3
        <4>. QED  BY <4>1, <4>2
      <3>. QED  BY <2>1, <3>2, <3>3 DEF SummariesOK
    <2>. QED  BY <2>2, <2>3
  <1>. QED  BY <1>1, <1>3 DEF RowsInv

LEMMA EnvironmentKeepsOutcomes ==
  ASSUME OutcomesInv,
         \/ ClockMoves \/ \E id \in SignalIds : CreateSignal(id)
         \/ \E own, positive \in BOOLEAN : StoreSnapshot(own, positive)
         \/ UNCHANGED outcomeVars
  PROVE  RowsInv'
  <1>. USE DEF outcomeVars, outcomeTables, callState
  <1>1. UNCHANGED <<outcomes, writers, performance, callState, calls, lost>>
    BY DEF ClockMoves, CreateSignal, StoreSnapshot
  <1>2. OutcomesTypeOK
    BY DEF OutcomesInv, RowsInv
  <1>3. hour' \in Hours
    BY <1>2 DEF OutcomesTypeOK, ClockMoves, CreateSignal, StoreSnapshot
  <1>4. signalRows' \in Seq(SignalRow)
    <2>1. hour \in Nat /\ signalRows \in Seq(SignalRow)
      BY <1>2, OutcomesAssumption DEF OutcomesTypeOK
    <2>2. ASSUME NEW id \in SignalIds, CreateSignal(id) PROVE signalRows' \in Seq(SignalRow)
      <3>1. [id |-> id, at |-> hour] \in SignalRow
        BY <2>1 DEF SignalRow
      <3>. QED  BY <2>1, <2>2, <3>1 DEF CreateSignal
    <2>. QED  BY <2>1, <2>2 DEF ClockMoves, StoreSnapshot
  <1>5. snapshots' \in Seq(SnapshotRow)
    <2>1. hour \in Nat /\ snapshots \in Seq(SnapshotRow)
      BY <1>2, OutcomesAssumption DEF OutcomesTypeOK
    <2>2. ASSUME NEW own \in BOOLEAN, NEW positive \in BOOLEAN, StoreSnapshot(own, positive)
          PROVE  snapshots' \in Seq(SnapshotRow)
      <3>1. [own |-> own, at |-> hour, positive |-> positive] \in SnapshotRow
        BY <2>1 DEF SnapshotRow
      <3>. QED  BY <2>1, <2>2, <3>1 DEF StoreSnapshot
    <2>. QED  BY <2>1, <2>2 DEF ClockMoves, CreateSignal
  <1>6. OutcomesTypeOK'
    BY <1>1, <1>2, <1>3, <1>4, <1>5 DEF OutcomesTypeOK
  <1>7. PendingRowsOK'
    <2>. SUFFICES ASSUME NEW d \in Callers PROVE CallSound(d)'
      BY DEF PendingRowsOK
    <2>1. known[d] <= Len(outcomes)
      BY DEF OutcomesInv, RowsInv, PendingRowsOK, CallSound
    <2>. QED  BY <1>1, <2>1, CallKeeps
  <1>. QED  BY <1>1, <1>6, <1>7, RowsKeep

\* A call that ends without a row.
LEMMA EndKeepsOutcomes ==
  ASSUME OutcomesInv, NEW c \in Callers, EndCall(c), UNCHANGED <<hour, outcomeTables, calls>>,
         lost' \in Nat
  PROVE  RowsInv'
  <1>1. OutcomesTypeOK
    BY DEF OutcomesInv, RowsInv
  <1>2. OutcomesTypeOK'
    BY <1>1, EndOfType DEF OutcomesTypeOK, outcomeTables
  <1>3. PendingRowsOK'
    <2>. SUFFICES ASSUME NEW d \in Callers PROVE CallSound(d)'
      BY DEF PendingRowsOK
    <2>1. known[d] <= Len(outcomes) /\ 0 <= Len(outcomes)
      BY <1>1 DEF OutcomesInv, RowsInv, PendingRowsOK, CallSound, OutcomesTypeOK
    <2>. QED  BY <1>1, <2>1, CallKeeps, EndOfType DEF outcomeTables
  <1>. QED  BY <1>2, <1>3, RowsKeep DEF outcomeTables

LEMMA ReadsKeepOutcomes ==
  ASSUME OutcomesInv, NEW c \in Callers, BeginCall(c) \/ ReadOutcomes(c) \/ ReadSnapshots(c)
  PROVE  RowsInv'
  <1>. DEFINE m == Len(outcomes)
  <1>1. OutcomesTypeOK /\ PendingRowsOK
    BY DEF OutcomesInv, RowsInv
  <1>2. m \in Nat
    BY <1>1 DEF OutcomesTypeOK
  <1>3. CASE BeginCall(c)
    <2>1. NewestOf(signalRows, SignalLimit) \in Seq(SignalRow)
      BY <1>1, NewestAreRows, OutcomesAssumption DEF OutcomesTypeOK
    <2>2. hour \in Nat
      BY <1>1, OutcomesAssumption DEF OutcomesTypeOK
    <2>3. OutcomesTypeOK'
      BY <1>1, <1>3, <2>1, <2>2 DEF BeginCall, OutcomesTypeOK, outcomeTables
    <2>4. \A d \in Callers : /\ phase'[d] = phase[d] \/ phase'[d] = "outcomes"
                             /\ known'[d] = known[d] /\ pending'[d] = pending[d]
      BY <1>1, <1>3 DEF BeginCall, OutcomesTypeOK
    <2>5. PendingRowsOK'
      <3>. SUFFICES ASSUME NEW d \in Callers PROVE CallSound(d)'
        BY DEF PendingRowsOK
      <3>1. known[d] <= Len(outcomes)
        BY <1>1 DEF PendingRowsOK, CallSound
      <3>2. UNCHANGED <<outcomes, writers>>
        BY <1>3 DEF BeginCall, outcomeTables
      <3>. QED  BY <2>4, <3>1, <3>2, CallKeeps
    <2>. QED  BY <1>3, <2>3, <2>5, RowsKeep DEF BeginCall, outcomeTables
  <1>4. CASE ReadOutcomes(c)
    <2>3. OutcomesTypeOK'
      BY <1>1, <1>2, <1>4 DEF ReadOutcomes, OutcomesTypeOK, outcomeTables
    <2>4. \A d \in Callers : /\ phase'[d] = phase[d] \/ phase'[d] = "snapshots"
                             /\ known'[d] = known[d] \/ known'[d] = m
                             /\ pending'[d] = pending[d]
      BY <1>1, <1>4 DEF ReadOutcomes, OutcomesTypeOK
    <2>5. PendingRowsOK'
      <3>. SUFFICES ASSUME NEW d \in Callers PROVE CallSound(d)'
        BY DEF PendingRowsOK
      <3>1. known[d] <= Len(outcomes) /\ m <= Len(outcomes)
        BY <1>1, <1>2 DEF PendingRowsOK, CallSound
      <3>2. UNCHANGED <<outcomes, writers>>
        BY <1>4 DEF ReadOutcomes, outcomeTables
      <3>. QED  BY <2>4, <3>1, <3>2, CallKeeps
    <2>. QED  BY <1>4, <2>3, <2>5, RowsKeep DEF ReadOutcomes, outcomeTables
  <1>5. CASE ReadSnapshots(c)
    <2>. DEFINE rows == AllRows(asked[c], asOf[c], known[c], NewestOf(snapshots, SnapshotLimit))
    <2>0. /\ rows \in Seq(OutcomeRow)
          /\ \A i \in 1..Len(rows) : rows[i].seen = known[c] /\ RowSound(rows[i])
      <3>1. asked[c] \in Seq(SignalRow) /\ known[c] \in Nat
        BY <1>1 DEF OutcomesTypeOK
      <3>. QED  BY <3>1, RowsOfCall
    <2>1. CASE rows = <<>> /\ EndCall(c)
      <3>1. UNCHANGED <<hour, outcomeTables, calls>> /\ lost' \in Nat
        BY <1>1, <1>5 DEF ReadSnapshots, OutcomesTypeOK
      <3>. QED  BY <2>1, <3>1, EndKeepsOutcomes
    <2>2. CASE rows # <<>>
      <3>0. /\ pending' = [pending EXCEPT ![c] = rows]
            /\ phase' = [phase EXCEPT ![c] = "append"]
            /\ UNCHANGED <<number, asOf, asked, known, hour, outcomeTables, calls, lost>>
        BY <1>5, <2>2 DEF ReadSnapshots
      <3>. HIDE DEF rows
      <3>1. OutcomesTypeOK'
        BY <1>1, <2>0, <3>0 DEF OutcomesTypeOK, outcomeTables
      <3>2. PendingRowsOK'
        <4>. SUFFICES ASSUME NEW d \in Callers PROVE CallSound(d)'
          BY DEF PendingRowsOK
        <4>1. known[d] <= m
          BY <1>1 DEF PendingRowsOK, CallSound
        <4>2. UNCHANGED <<outcomes, writers>>
          BY <3>0 DEF outcomeTables
        <4>3. CASE d # c
          <5>1. UNCHANGED <<phase[d], known[d], pending[d]>>
            BY <1>1, <3>0, <4>3 DEF OutcomesTypeOK
          <5>. QED  BY <4>1, <4>2, <5>1, CallKeeps
        <4>4. CASE d = c
          <5>1. phase'[d] = "append" /\ known'[d] = known[d] /\ pending'[d] = rows
            BY <1>1, <3>0, <4>4 DEF OutcomesTypeOK
          <5>2. \A i \in 1..Len(rows) : RowSound(pending[d][i])'
            <6>. SUFFICES ASSUME NEW i \in 1..Len(rows) PROVE RowSound(pending[d][i])'
              OBVIOUS
            <6>1. RowSound(rows[i])
              BY <2>0
            <6>. QED  BY <4>2, <5>1, <6>1 DEF RowSound, Settled, LatestStatus, KnownRows
          <5>3. \A i \in 1..Len(rows) : pending'[d][i].seen <= Len(outcomes')
            BY <2>0, <4>1, <4>2, <4>4, <5>1
          <5>. QED  BY <2>2, <4>1, <4>2, <5>1, <5>2, <5>3 DEF CallSound
        <4>. QED  BY <4>3, <4>4
      <3>. QED  BY <3>0, <3>1, <3>2, RowsKeep DEF outcomeTables
    <2>. QED  BY <1>5, <2>1, <2>2 DEF ReadSnapshots
  <1>. QED  BY <1>3, <1>4, <1>5

LEMMA TailIsThere ==
  ASSUME NEW RowsOf, NEW p \in Seq(RowsOf), Len(p) > 1
  PROVE  Tail(p) # <<>>
  <1>1. Tail(p) \in Seq(RowsOf) /\ Len(Tail(p)) = Len(p) - 1 /\ Len(p) \in Nat
    OBVIOUS
  <1>2. 1 \in 1..Len(Tail(p))
    BY <1>1
  <1>. QED  BY <1>2

LEMMA AppendKeepsOutcomes ==
  ASSUME OutcomesInv, NEW c \in Callers, AppendOutcome(c)
  PROVE  RowsInv'
  <1>. DEFINE m == Len(outcomes)
  <1>0. PICK row : row = Head(pending[c])
    OBVIOUS
  <1>1. OutcomesTypeOK /\ StoredOK /\ PendingRowsOK /\ CompletedIsFinal /\ SummariesOK
    BY DEF OutcomesInv, RowsInv
  <1>2. m \in Nat /\ outcomes \in Seq(OutcomeRow) /\ pending[c] \in Seq(OutcomeRow)
    BY <1>1 DEF OutcomesTypeOK
  <1>3. pending[c] # <<>>
    BY <1>1 DEF AppendOutcome, PendingRowsOK, CallSound
  <1>4. row = pending[c][1] /\ 1 \in 1..Len(pending[c]) /\ row \in OutcomeRow
    BY <1>0, <1>2, <1>3
  <1>5. row.seen <= m /\ RowSound(row)
    BY <1>1, <1>4 DEF PendingRowsOK, CallSound
  <1>6. outcomes' = Append(outcomes, row) /\ writers' = Append(writers, number[c])
    BY <1>0 DEF AppendOutcome
  <1>a. number[c] \in Nat /\ writers' \in Seq(Nat)
    BY <1>1, <1>6 DEF OutcomesTypeOK
  <1>b. /\ Len(writers) = m
        /\ \A i \in 1..m : writers[i] = number[c] => Apart(outcomes[i], row)
    BY <1>4 DEF OutcomesInv, WritersOK, CallApart
  <1>7. OutcomesTypeOK'
    <2>1. outcomes' \in Seq(OutcomeRow)
      BY <1>2, <1>4, <1>6
    <2>2. CASE EndCall(c)
      BY <1>1, <1>a, <2>1, <2>2, EndOfType DEF OutcomesTypeOK, AppendOutcome
    <2>3. CASE ~EndCall(c)
      <3>1. /\ pending' = [pending EXCEPT ![c] = Tail(@)]
            /\ UNCHANGED <<phase, number, asOf, asked, known>>
        BY <2>3 DEF AppendOutcome
      <3>2. Tail(pending[c]) \in Seq(OutcomeRow)
        BY <1>2, <1>3
      <3>3. pending' \in [Callers -> Seq(OutcomeRow)]
        BY <1>1, <3>1, <3>2 DEF OutcomesTypeOK
      <3>. QED  BY <1>1, <1>a, <2>1, <3>1, <3>3 DEF OutcomesTypeOK, AppendOutcome
    <2>. QED  BY <2>2, <2>3
  <1>8. /\ Len(outcomes') = m + 1 /\ outcomes'[m + 1] = row
        /\ \A i \in 1..m : outcomes'[i] = outcomes[i] /\ outcomes[i] \in OutcomeRow
    BY <1>2, <1>6
  <1>9. StoredOK'
    <2>. SUFFICES ASSUME NEW j \in 1..(m + 1)
                  PROVE  outcomes'[j].seen < j /\ RowSound(outcomes[j])'
      BY <1>8 DEF StoredOK
    <2>1. CASE j \in 1..m
      <3>1. outcomes[j].seen < j /\ RowSound(outcomes[j]) /\ outcomes[j] \in OutcomeRow
        BY <1>1, <1>8, <2>1 DEF StoredOK
      <3>2. outcomes[j].seen \in Nat /\ outcomes[j].seen <= m
        BY <1>2, <2>1, <3>1 DEF OutcomeRow
      <3>3. \A r : r = outcomes[j] => RowSound(r)'
        BY <1>1, <1>4, <1>6, <3>1, <3>2, SoundStays
      <3>. QED  BY <1>8, <2>1, <3>1, <3>3 DEF RowSound, Settled
    <2>2. CASE j = m + 1
      <3>1. RowSound(row)'
        BY <1>1, <1>4, <1>5, <1>6, SoundStays
      <3>2. row.seen \in Nat /\ row.seen < m + 1
        BY <1>2, <1>4, <1>5 DEF OutcomeRow
      <3>. QED  BY <1>8, <2>2, <3>1, <3>2 DEF RowSound, Settled
    <2>. QED  BY <1>2, <2>1, <2>2
  <1>10. CompletedIsFinal'
    BY <1>1, <1>a, <1>b, <1>4, <1>5, <1>6, FinalForNext
  <1>11. SummariesOK'
    <2>1. UNCHANGED performance
      BY DEF AppendOutcome
    <2>2. \A n \in 0..m : Eligible(n)' = Eligible(n) /\ n \in 0..(m + 1)
      BY <1>2, <1>8 DEF Eligible
    <2>. QED  BY <1>1, <1>8, <2>1, <2>2 DEF SummariesOK
  <1>12. PendingRowsOK'
    <2>. SUFFICES ASSUME NEW d \in Callers PROVE CallSound(d)'
      BY DEF PendingRowsOK
    <2>1. CallSound(d) /\ pending[d] \in Seq(OutcomeRow) /\ known[d] \in Nat
      BY <1>1 DEF PendingRowsOK, OutcomesTypeOK
    <2>2. \A i \in 1..Len(pending[d]) :
            pending[d][i].seen <= m + 1 /\ \A r : r = pending[d][i] => RowSound(r)'
      <3>. SUFFICES ASSUME NEW i \in 1..Len(pending[d]), NEW r, r = pending[d][i]
                    PROVE  r.seen <= m + 1 /\ RowSound(r)'
        OBVIOUS
      <3>1. r \in OutcomeRow /\ r.seen <= m /\ RowSound(r)
        BY <2>1 DEF CallSound
      <3>2. r.seen <= Len(outcomes') /\ RowSound(r)'
        BY <1>1, <1>4, <1>6, <3>1, SoundStays
      <3>. QED  BY <1>8, <3>2
    <2>3. known'[d] <= m + 1
      <3>1. known'[d] = known[d] \/ known'[d] = 0
        BY <1>1, EndOfType DEF AppendOutcome
      <3>. QED  BY <1>2, <2>1, <3>1 DEF CallSound
    <2>4. \/ pending'[d] = pending[d] /\ phase'[d] = phase[d]
          \/ pending'[d] = <<>> /\ phase'[d] = "idle"
          \/ d = c /\ Len(pending[c]) > 1 /\ pending'[d] = Tail(pending[c])
      <3>1. CASE EndCall(c)
        BY <1>1, <3>1, EndOfType
      <3>2. CASE ~EndCall(c)
        BY <1>1, <3>2 DEF AppendOutcome, OutcomesTypeOK
      <3>. QED  BY <3>1, <3>2
    <2>5. \A i \in 1..Len(pending'[d]) :
            \E k \in 1..Len(pending[d]) : pending'[d][i] = pending[d][k]
      <3>1. CASE pending'[d] = Tail(pending[d]) /\ Len(pending[d]) > 1
        <4>1. /\ Len(pending'[d]) = Len(pending[d]) - 1
              /\ \A i \in 1..(Len(pending[d]) - 1) : pending'[d][i] = pending[d][i + 1]
          BY <2>1, <3>1
        <4>2. \A i \in 1..(Len(pending[d]) - 1) : i + 1 \in 1..Len(pending[d])
          BY <2>1
        <4>. QED  BY <4>1, <4>2
      <3>. QED  BY <2>4, <3>1
    <2>6. \A i \in 1..Len(pending'[d]) :
            pending'[d][i].seen <= m + 1 /\ RowSound(pending[d][i])'
      <3>. SUFFICES ASSUME NEW i \in 1..Len(pending'[d])
                    PROVE  pending'[d][i].seen <= m + 1 /\ RowSound(pending[d][i])'
        OBVIOUS
      <3>1. PICK k \in 1..Len(pending[d]) : pending'[d][i] = pending[d][k]
        BY <2>5
      <3>2. pending[d][k].seen <= m + 1
        BY <2>2
      <3>3. \A r : r = pending[d][k] => RowSound(r)'
        BY <2>2
      <3>. QED  BY <3>1, <3>2, <3>3 DEF RowSound, Settled
    <2>7. phase'[d] = "append" => pending'[d] # <<>>
      <3>1. Len(pending[c]) > 1 => Tail(pending[c]) # <<>>
        BY <1>2, TailIsThere
      <3>. QED  BY <2>1, <2>4, <3>1 DEF CallSound
    <2>. QED  BY <1>8, <2>3, <2>6, <2>7 DEF CallSound
  <1>. QED  BY <1>7, <1>9, <1>10, <1>11, <1>12 DEF OutcomesInv, RowsInv

\* A call that goes on beside others stays apart.
LEMMA ApartStays ==
  ASSUME OutcomesInv, NEW d \in Callers, UNCHANGED <<outcomes, writers>>,
         calls' \in Nat, calls <= calls',
         UNCHANGED <<number[d], phase[d], pending[d]>>,
         \A e \in Callers \ {d} : number'[e] = number[e] \/ number'[e] = 0 \/ number'[e] > calls
  PROVE  CallApart(d)'
  <1>1. calls \in Nat /\ number[d] \in Nat /\ \A e \in Callers : number[e] \in Nat
    BY DEF OutcomesInv, RowsInv, OutcomesTypeOK
  <1>2. CallApart(d)
    BY DEF OutcomesInv, WritersOK
  <1>3. number[d] <= calls'
    BY <1>1, <1>2 DEF CallApart
  <1>4. phase[d] # "idle" => \A e \in Callers \ {d} : number'[e] # number[d]
    BY <1>1, <1>2 DEF CallApart
  <1>. QED  BY <1>2, <1>3, <1>4 DEF CallApart, Apart

LEMMA EndedIsApart ==
  ASSUME NEW c \in Callers, phase'[c] = "idle", number'[c] = 0, pending'[c] = <<>>, calls' \in Nat
  PROVE  CallApart(c)'
  BY DEF CallApart

\* A step that adds no row, of which one call takes no new number.
LEMMA QuietKeepsWriters ==
  ASSUME OutcomesInv, UNCHANGED <<outcomes, writers>>, calls' \in Nat, calls <= calls',
         \A d \in Callers : CallApart(d)'
  PROVE  WritersOK'
  <1>1. \A i \in 1..Len(outcomes) : writers[i] \in Nat
    BY DEF OutcomesInv, RowsInv, OutcomesTypeOK, WritersOK
  <1>2. calls \in Nat /\ Len(outcomes) \in Nat
    BY DEF OutcomesInv, RowsInv, OutcomesTypeOK
  <1>. QED  BY <1>1, <1>2 DEF OutcomesInv, WritersOK

\* A call that has not appended a row yet.
LEMMA ReadsKeepWriters ==
  ASSUME OutcomesInv, NEW c \in Callers, BeginCall(c) \/ ReadOutcomes(c) \/ ReadSnapshots(c)
  PROVE  WritersOK'
  <1>1. OutcomesTypeOK /\ WritersOK /\ CallApart(c)
    BY DEF OutcomesInv, RowsInv, WritersOK
  <1>2. UNCHANGED <<outcomes, writers>>
    BY DEF BeginCall, ReadOutcomes, ReadSnapshots, outcomeTables
  <1>3. calls \in Nat /\ calls' \in {calls, calls + 1} /\ calls' \in Nat /\ calls <= calls'
    <2>1. calls \in Nat
      BY <1>1 DEF OutcomesTypeOK
    <2>2. calls' \in {calls, calls + 1}
      BY DEF BeginCall, ReadOutcomes, ReadSnapshots
    <2>. QED  BY <2>1, <2>2
  <1>4. ASSUME NEW d \in Callers, d # c PROVE CallApart(d)'
    <2>1. UNCHANGED <<number[d], phase[d], pending[d]>>
      <3>1. CASE EndCall(c)
        BY <1>1, <1>4, <3>1, EndOfType
      <3>2. CASE ~EndCall(c)
        BY <1>1, <1>4, <3>2 DEF BeginCall, ReadOutcomes, ReadSnapshots, OutcomesTypeOK
      <3>. QED  BY <3>1, <3>2
    <2>2. \A e \in Callers : number'[e] = number[e] \/ number'[e] = 0 \/ number'[e] > calls
      <3>1. CASE EndCall(c)
        BY <1>1, <3>1, EndOfType
      <3>2. CASE BeginCall(c)
        <4>1. /\ number' = [number EXCEPT ![c] = calls + 1]
              /\ \A e \in Callers : number'[e] = number[e] \/ number'[e] = calls + 1
          BY <1>1, <3>2 DEF BeginCall, OutcomesTypeOK
        <4>2. calls + 1 > calls
          BY <1>3
        <4>. QED  BY <4>1, <4>2
      <3>3. CASE ~EndCall(c) /\ ~BeginCall(c)
        BY <3>3 DEF ReadOutcomes, ReadSnapshots
      <3>. QED  BY <3>1, <3>2, <3>3
    <2>. QED  BY <1>2, <1>3, <2>1, <2>2, ApartStays
  <1>5. CallApart(c)'
    <2>1. CASE BeginCall(c)
      <3>1. /\ number'[c] = calls + 1 /\ phase'[c] = "outcomes" /\ calls' = calls + 1
            /\ pending'[c] = <<>>
            /\ \A d \in Callers \ {c} : number'[d] = number[d] /\ number[d] <= calls
        BY <1>1, <2>1 DEF BeginCall, OutcomesTypeOK, WritersOK, CallApart
      <3>2. \A i \in 1..Len(outcomes) : writers[i] <= calls /\ writers[i] \in Nat
        BY <1>1 DEF WritersOK, OutcomesTypeOK
      <3>3. \A d \in Callers : number[d] \in Nat
        BY <1>1 DEF OutcomesTypeOK
      <3>. QED  BY <1>2, <1>3, <3>1, <3>2, <3>3 DEF CallApart
    <2>2. CASE ReadOutcomes(c)
      BY <1>1, <1>2, <2>2 DEF ReadOutcomes, OutcomesTypeOK, CallApart
    <2>3. CASE ReadSnapshots(c)
      <3>. DEFINE rows == AllRows(asked[c], asOf[c], known[c], NewestOf(snapshots, SnapshotLimit))
      <3>1. \A i, k \in 1..Len(rows) : i # k => Apart(rows[i], rows[k])
        <4>1. asked[c] \in Seq(SignalRow) /\ known[c] \in Nat
          BY <1>1 DEF OutcomesTypeOK
        <4>. QED  BY <4>1, RowsOfCall
      <3>2. CASE EndCall(c)
        BY <1>1, <1>3, <3>2, EndOfType, EndedIsApart
      <3>3. CASE ~EndCall(c)
        <4>1. /\ phase[c] = "snapshots" /\ pending' = [pending EXCEPT ![c] = rows]
              /\ phase' = [phase EXCEPT ![c] = "append"]
              /\ UNCHANGED <<number, calls>>
          BY <2>3, <3>3 DEF ReadSnapshots
        <4>. HIDE DEF rows
        <4>2. phase'[c] = "append" /\ pending'[c] = rows
          BY <1>1, <4>1 DEF OutcomesTypeOK
        <4>3. \A i \in 1..Len(outcomes) : writers[i] # number[c]
          BY <1>1, <4>1 DEF CallApart
        <4>4. \A k \in 1..Len(rows) : \A l \in 1..Len(rows) :
                k # l => Apart(pending[c][k], pending[c][l])'
          BY <3>1, <4>2 DEF Apart
        <4>. QED  BY <1>1, <1>2, <4>1, <4>2, <4>3, <4>4 DEF CallApart
      <3>. QED  BY <3>2, <3>3
    <2>. QED  BY <2>1, <2>2, <2>3
  <1>. QED  BY <1>2, <1>3, <1>4, <1>5, QuietKeepsWriters

LEMMA AppendKeepsWriters ==
  ASSUME OutcomesInv, NEW c \in Callers, AppendOutcome(c)
  PROVE  WritersOK'
  <1>. DEFINE m == Len(outcomes)
  <1>0. PICK row : row = Head(pending[c])
    OBVIOUS
  <1>1. OutcomesTypeOK /\ WritersOK /\ CallApart(c)
    BY DEF OutcomesInv, RowsInv, WritersOK
  <1>2. /\ m \in Nat /\ outcomes \in Seq(OutcomeRow) /\ pending[c] \in Seq(OutcomeRow)
        /\ number[c] \in Nat /\ writers \in Seq(Nat) /\ Len(writers) = m /\ calls \in Nat
    BY <1>1 DEF OutcomesTypeOK, WritersOK
  <1>3. row = pending[c][1] /\ 1 \in 1..Len(pending[c])
    <2>1. pending[c] # <<>>
      BY DEF AppendOutcome, OutcomesInv, RowsInv, PendingRowsOK, CallSound
    <2>. QED  BY <1>0, <1>2, <2>1
  <1>4. outcomes' = Append(outcomes, row) /\ writers' = Append(writers, number[c]) /\ calls' = calls
    BY <1>0 DEF AppendOutcome
  <1>5. /\ Len(outcomes') = m + 1 /\ Len(writers') = m + 1
        /\ outcomes'[m + 1] = row /\ writers'[m + 1] = number[c]
        /\ \A i \in 1..m : outcomes'[i] = outcomes[i] /\ writers'[i] = writers[i]
    BY <1>2, <1>4
  <1>6. number[c] <= calls /\ number[c] # 0 /\ \A d \in Callers \ {c} : number[d] # number[c]
    BY <1>1 DEF AppendOutcome, CallApart
  <1>7. \A i \in 1..(m + 1) : writers'[i] <= calls
    <2>1. \A i \in 1..m : writers'[i] <= calls
      BY <1>1, <1>5 DEF WritersOK
    <2>2. writers'[m + 1] <= calls
      BY <1>5, <1>6
    <2>3. \A i \in 1..(m + 1) : i \in 1..m \/ i = m + 1
      BY <1>2
    <2>. QED  BY <2>1, <2>2, <2>3
  <1>8. ASSUME NEW d \in Callers PROVE CallApart(d)'
    <2>1. CASE d # c
      <3>1. UNCHANGED <<number[d], phase[d], pending[d]>>
            /\ \A e \in Callers : number'[e] = number[e] \/ number'[e] = 0
        <4>1. CASE EndCall(c)
          BY <1>1, <2>1, <4>1, EndOfType
        <4>2. CASE ~EndCall(c)
          BY <1>1, <2>1, <4>2 DEF AppendOutcome, OutcomesTypeOK
        <4>. QED  BY <4>1, <4>2
      <3>2. CallApart(d) /\ number[d] # number[c]
        BY <1>1, <1>6, <2>1 DEF WritersOK
      <3>3. \A i \in 1..(m + 1) :
              writers'[i] = number[d] => i \in 1..m /\ writers[i] = number[d]
        BY <1>2, <1>5, <3>2
      <3>4. \A k \in 1..Len(pending[d]) : \A i \in 1..(m + 1) :
              writers'[i] = number[d] => Apart(outcomes[i], pending[d][k])'
        <4>. SUFFICES ASSUME NEW k \in 1..Len(pending[d]), NEW i \in 1..(m + 1),
                             writers'[i] = number[d]
                      PROVE  Apart(outcomes[i], pending[d][k])'
          OBVIOUS
        <4>1. i \in 1..m /\ writers[i] = number[d]
          BY <3>3
        <4>2. Apart(outcomes[i], pending[d][k])
          BY <3>2, <4>1 DEF CallApart
        <4>. QED  BY <1>5, <3>1, <4>1, <4>2 DEF Apart
      <3>5. \A k, l \in 1..Len(pending[d]) : k # l => Apart(pending[d][k], pending[d][l])'
        BY <3>1, <3>2 DEF CallApart, Apart
      <3>6. phase[d] # "idle" => number[d] # 0 /\ \A e \in Callers \ {d} : number'[e] # number[d]
        BY <3>1, <3>2 DEF CallApart
      <3>. QED  BY <1>4, <1>5, <3>1, <3>2, <3>3, <3>4, <3>5, <3>6 DEF CallApart
    <2>2. CASE d = c /\ EndCall(c)
      BY <1>1, <1>2, <1>4, <2>2, EndOfType, EndedIsApart
    <2>3. CASE d = c /\ ~EndCall(c)
      <3>. DEFINE n == Len(pending[c])
      <3>1. /\ n > 1 /\ pending' = [pending EXCEPT ![c] = Tail(@)]
            /\ UNCHANGED <<phase, number>> /\ phase[c] = "append"
        BY <2>3 DEF AppendOutcome
      <3>2. pending'[c] = Tail(pending[c])
        BY <1>1, <3>1 DEF OutcomesTypeOK
      <3>3. /\ Len(pending'[c]) = n - 1
            /\ \A k \in 1..(n - 1) : /\ pending'[c][k] = pending[c][k + 1]
                                     /\ k + 1 \in 1..n /\ k + 1 # 1
        <4>1. pending[c] \in Seq(OutcomeRow) /\ n \in Nat /\ n > 1 /\ pending'[c] = Tail(pending[c])
          BY <1>2, <3>1, <3>2
        <4>2. \A k \in 1..(n - 1) : k + 1 \in 1..n /\ k + 1 # 1
          BY <4>1
        <4>3. /\ Len(pending'[c]) = n - 1
              /\ \A k \in 1..(n - 1) : pending'[c][k] = pending[c][k + 1]
          BY <4>1
        <4>. QED  BY <4>2, <4>3
      <3>4. ASSUME NEW k \in 1..(n - 1), NEW l \in 1..(n - 1), k # l
            PROVE  Apart(pending[c][k], pending[c][l])'
        <4>1. Apart(pending[c][k + 1], pending[c][l + 1])
          <5>1. n \in Nat
            BY <1>2
          <5>2. k + 1 \in 1..n /\ l + 1 \in 1..n /\ k + 1 # l + 1
            BY <3>4, <5>1
          <5>. QED  BY <1>1, <5>2 DEF CallApart
        <4>. QED  BY <3>3, <4>1 DEF Apart
      <3>5. ASSUME NEW k \in 1..(n - 1), NEW i \in 1..(m + 1), writers'[i] = number[c]
            PROVE  Apart(outcomes[i], pending[c][k])'
        <4>1. CASE i = m + 1
          <5>1. Apart(pending[c][1], pending[c][k + 1])
            BY <1>1, <1>3, <3>3 DEF CallApart
          <5>. QED  BY <1>3, <1>5, <3>3, <4>1, <5>1 DEF Apart
        <4>2. CASE i # m + 1
          <5>1. i \in 1..m /\ writers[i] = number[c]
            BY <1>2, <1>5, <3>5, <4>2
          <5>2. Apart(outcomes[i], pending[c][k + 1])
            BY <1>1, <3>3, <5>1 DEF CallApart
          <5>. QED  BY <1>5, <3>3, <5>1, <5>2 DEF Apart
        <4>. QED  BY <4>1, <4>2
      <3>6. number'[c] = number[c] /\ phase'[c] = "append" /\ calls' = calls
        BY <1>4, <3>1
      <3>7. \A e \in Callers \ {c} : number'[e] # number[c]
        BY <1>6, <3>1
      <3>. HIDE DEF n
      <3>8. CallApart(c)'
        BY <1>5, <1>6, <3>3, <3>4, <3>5, <3>6, <3>7 DEF CallApart
      <3>. QED  BY <2>3, <3>8
    <2>. QED  BY <2>1, <2>2, <2>3
  <1>. QED  BY <1>4, <1>5, <1>7, <1>8 DEF WritersOK

LEMMA WritersStep ==
  ASSUME OutcomesInv, [OutcomesNext]_outcomeVars
  PROVE  WritersOK'
  <1>. DEFINE Quiet == /\ UNCHANGED <<outcomes, writers, number, phase, pending>>
                       /\ calls' \in {calls, calls + 1}
  <1>0. OutcomesTypeOK /\ calls \in Nat
    BY DEF OutcomesInv, RowsInv, OutcomesTypeOK
  <1>1. CASE Quiet
    <2>1. calls' \in Nat /\ calls <= calls'
      BY <1>0, <1>1
    <2>2. \A d \in Callers : CallApart(d)'
      BY <1>1, <2>1, ApartStays
    <2>. QED  BY <1>1, <2>1, <2>2, QuietKeepsWriters
  <1>2. ASSUME NEW c \in Callers, LoseCall(c) PROVE WritersOK'
    <2>1. EndCall(c) /\ UNCHANGED <<outcomes, writers, calls>>
      BY <1>2 DEF LoseCall, outcomeTables
    <2>2. \A d \in Callers : CallApart(d)'
      <3>. SUFFICES ASSUME NEW d \in Callers PROVE CallApart(d)'
        OBVIOUS
      <3>1. CASE d = c
        BY <1>0, <2>1, <3>1, EndOfType, EndedIsApart
      <3>2. CASE d # c
        <4>1. /\ UNCHANGED <<number[d], phase[d], pending[d]>>
              /\ \A e \in Callers : number'[e] = number[e] \/ number'[e] = 0
          BY <1>0, <2>1, <3>2, EndOfType
        <4>. QED  BY <1>0, <2>1, <4>1, ApartStays
      <3>. QED  BY <3>1, <3>2
    <2>. QED  BY <1>0, <2>1, <2>2, QuietKeepsWriters
  <1>3. CASE \/ ClockMoves \/ Aggregate \/ UNCHANGED outcomeVars
             \/ \E id \in SignalIds : CreateSignal(id)
             \/ \E own, positive \in BOOLEAN : StoreSnapshot(own, positive)
    <2>1. Quiet
      BY <1>3 DEF ClockMoves, Aggregate, CreateSignal, StoreSnapshot, outcomeVars, outcomeTables,
                  callState
    <2>. QED  BY <1>1, <2>1
  <1>. QED  BY <1>2, <1>3, ReadsKeepWriters, AppendKeepsWriters DEF OutcomesNext, CallStep

LEMMA OutcomesStep == OutcomesInv /\ [OutcomesNext]_outcomeVars => OutcomesInv'
  <1>. SUFFICES ASSUME OutcomesInv, [OutcomesNext]_outcomeVars PROVE RowsInv'
    BY WritersStep DEF OutcomesInv
  <1>1. ASSUME NEW c \in Callers, LoseCall(c) PROVE RowsInv'
    <2>1. EndCall(c) /\ UNCHANGED <<hour, outcomeTables, calls>> /\ lost' \in Nat
      BY <1>1 DEF LoseCall, OutcomesInv, RowsInv, OutcomesTypeOK
    <2>. QED  BY <2>1, EndKeepsOutcomes
  <1>2. CASE Aggregate
    <2>1. OutcomesTypeOK
      BY DEF OutcomesInv, RowsInv
    <2>2. performance' = performance \o PerformanceRows /\ calls' = calls + 1
          /\ UNCHANGED <<hour, signalRows, snapshots, outcomes, writers, callState, lost>>
      BY <1>2 DEF Aggregate
    <2>3. performance' \in Seq(SummaryRow)
      BY <2>1, <2>2, SummariesOfRows DEF OutcomesTypeOK
    <2>4. OutcomesTypeOK'
      BY <2>1, <2>2, <2>3 DEF OutcomesTypeOK, callState
    <2>5. PendingRowsOK'
      <3>. SUFFICES ASSUME NEW d \in Callers PROVE CallSound(d)'
        BY DEF PendingRowsOK
      <3>1. known[d] <= Len(outcomes)
        BY DEF OutcomesInv, RowsInv, PendingRowsOK, CallSound
      <3>. QED  BY <2>2, <3>1, CallKeeps DEF callState
    <2>. QED  BY <2>2, <2>4, <2>5, RowsKeep
  <1>. QED  BY <1>1, <1>2, EnvironmentKeepsOutcomes, ReadsKeepOutcomes, AppendKeepsOutcomes
            DEF OutcomesNext, CallStep

\* A summary is of rows that were among the newest at once: had the call of
\* one been after another of its horizon, it would have seen that completed.
LEMMA OutcomesInvSamples == OutcomesInv => SamplesAreSignals
  <1>. SUFFICES ASSUME OutcomesInv, NEW s \in 1..Len(performance)
                PROVE  /\ \A i \in performance[s].of : outcomes[i].status = "completed"
                       /\ \A i, j \in performance[s].of :
                            (i < j /\ SameHorizon(i, j))
                              => \E k \in (i + 1)..j :
                                   SameHorizon(i, k) /\ (Overlaps(i, k) \/ Repeats(i, k))
    BY DEF SamplesAreSignals
  <1>1. OutcomesTypeOK /\ StoredOK /\ CompletedIsFinal /\ SummariesOK
    BY DEF OutcomesInv, RowsInv
  <1>2. PICK n \in 0..Len(outcomes) : performance[s].of \subseteq Eligible(n)
    BY <1>1 DEF SummariesOK
  <1>3. ASSUME NEW i \in performance[s].of, NEW j \in performance[s].of, i < j, SameHorizon(i, j)
        PROVE  \E k \in (i + 1)..j : SameHorizon(i, k) /\ (Overlaps(i, k) \/ Repeats(i, k))
    <2>1. /\ i \in 1..n /\ j \in 1..n /\ i > n - OutcomeLimit
          /\ outcomes[i].status = "completed"
      BY <1>2, <1>3 DEF Eligible
    <2>2. Len(outcomes) \in Nat /\ OutcomeLimit \in Nat
      BY <1>1, OutcomesAssumption DEF OutcomesTypeOK
    <2>3. j \in 1..Len(outcomes) /\ i \in 1..(j - 1)
      BY <1>2, <1>3, <2>1, <2>2
    <2>4. outcomes[j].seen < j /\ outcomes[j].seen \in Nat
      <3>1. outcomes[j] \in OutcomeRow
        BY <1>1, <2>3 DEF OutcomesTypeOK
      <3>. QED  BY <1>1, <2>3, <3>1 DEF StoredOK, OutcomeRow
    <2>5. ~DroppedOut(i, j)
      BY <2>1, <2>2, <2>4 DEF DroppedOut
    <2>. QED  BY <1>1, <1>3, <2>1, <2>3, <2>5 DEF CompletedIsFinal
  <1>. QED  BY <1>2, <1>3 DEF Eligible

LEMMA ServiceImplementsOutcomes == Spec => OutcomesSpec
  <1>1. Init => OutcomesInit
    BY DEF Init
  <1>2. [Next]_vars => [OutcomesNext]_outcomeVars
    BY DEF Next, vars
  <1>. QED  BY <1>1, <1>2, PTL DEF Spec, OutcomesSpec

LEMMA OutcomesInvariant == Spec => []OutcomesInv
  <1>1. OutcomesSpec => []OutcomesInv
    BY OutcomesInitial, OutcomesStep, PTL DEF OutcomesSpec
  <1>. QED  BY <1>1, ServiceImplementsOutcomes, PTL

\* A horizon of a signal that is completed is not taken up again by
\* process_due_outcomes, unless the row fell out of the newest that a call
\* reads, a call that had read the table before appended after it, or the call
\* that completed it does so too for another row of the signal.
THEOREM CompletedStaysFinal == Spec => []CompletedIsFinal
  <1>1. OutcomesInv => CompletedIsFinal
    BY DEF OutcomesInv, RowsInv
  <1>. QED  BY <1>1, OutcomesInvariant, PTL

\* aggregate_strategy_performance counts completed rows alone, and no signal
\* twice for a horizon unless calls overlapped or one call appended the horizon
\* for two rows of the signal, a request for it having been sent again.
THEOREM SamplesCountSignals == Spec => []SamplesAreSignals
  BY OutcomesInvSamples, OutcomesInvariant, PTL

-----------------------------------------------------------------------------
(* The daily run.                                                          *)

\* What is there of a run that has stored its screen row.
Backed(r) == input[r].live /\ ScreenBacked(r)

\* The trail of the candidate that is at place i: whole before the one the run
\* is at, empty after it.
TrailAt(r, i) ==
  LET t == input[r].screened[i]
  IN  CASE i < next[r] -> trail[r][t] = Transitions(r, t)
        [] i = next[r] -> \/ trail[r][t] = <<>>
                          \/ t \in input[r].thin /\ trail[r][t] = <<"filtered">>
        [] i > next[r] -> trail[r][t] = <<>>

\* What a run has stored when it is at a stage.
StageOK(r) ==
  /\ running[r] \in {"universe", "snapshots", "transitions", "screen", "evaluations", "report"}
       => input[r].live
  /\ running[r] \in {"snapshots", "transitions", "screen", "evaluations", "report"}
       => universeRows[r] # 0
  /\ running[r] \in {"transitions", "screen", "evaluations", "report"}
       => input[r].given \subseteq snapshotRows
  /\ running[r] \in {"new", "universe", "snapshots"}
       => next[r] = 1 /\ \A t \in Tickers : trail[r][t] = <<>>
  /\ running[r] = "transitions"
       => /\ next[r] # 0
          /\ \A i \in FirstPlaces(input[r].screened, OperationalLimit) : TrailAt(r, i)
  /\ running[r] \in {"screen", "evaluations", "report"}
       => \A t \in Operational(r) : trail[r][t] = Transitions(r, t)
  /\ running[r] \in {"new", "universe", "snapshots", "transitions", "screen"}
       => screenRows[r] = 0 /\ evaluated[r] = {}
  /\ running[r] \in {"evaluations", "report"} => screenRows[r] # 0
  /\ running[r] = "evaluations"
       => evaluated[r] \subseteq FirstOf(input[r].screened, ReportLimit)
  /\ running[r] = "report" => evaluated[r] = FirstOf(input[r].screened, ReportLimit)

\* What stays of a run, however it ended.
StoredRunOK(r) ==
  /\ screenRows[r] # 0 => Backed(r)
  /\ r \in reportRows =>
       /\ running[r] = "done"
       /\ screenRows[r] # 0
       /\ evaluated[r] = FirstOf(input[r].screened, ReportLimit)

\* A screen row is stored, and a snapshot of a symbol.
Standing(w) ==
  /\ w \in Screeners
  /\ IF w \in DailyRuns THEN screenRows[w] # 0 ELSE w \in pipelineRows

Snapshotted(t) == \E o \in snapshotRows : SymbolOf[o] = t

\* A package may be made of a candidate of a stored screen row.
Packable(w, t) == Standing(w) /\ t \in NamesOf(ScreenedBy(w)) /\ Snapshotted(t)

\* Whatever is packed was read from a stored screen row, whoever appended it.
PacksOK ==
  /\ newestScreen # NoScreen => Standing(newestScreen)
  /\ \A p \in pipelineRows : \A t \in NamesOf(pipelineInput[p]) : Snapshotted(t)
  /\ \A q \in Researches : \A t \in research[q].left : Packable(research[q].of, t)
  /\ \A pack \in packs : Packable(pack[1], pack[2])

DailyInv ==
  /\ DailyTypeOK
  /\ IsFiniteSet({q \in DailyRuns : universeRows[q] # 0})
  /\ \A r \in DailyRuns : StageOK(r) /\ StoredRunOK(r)
  /\ PacksOK

LEMMA DailyInvBacks == DailyInv => ReportBacked
  <1>. SUFFICES ASSUME DailyInv PROVE ReportBacked
    OBVIOUS
  <1>1. ASSUME NEW r \in reportRows
        PROVE  /\ input[r].live /\ ScreenBacked(r)
               /\ evaluated[r] = FirstOf(input[r].screened, ReportLimit)
    <2>1. r \in DailyRuns
      BY DEF DailyInv, DailyTypeOK
    <2>. QED  BY <2>1 DEF DailyInv, StoredRunOK, Backed
  <1>2. ASSUME NEW pack \in packs
        PROVE  /\ pack[2] \in NamesOf(ScreenedBy(pack[1]))
               /\ \E o \in snapshotRows : SymbolOf[o] = pack[2]
               /\ pack[1] \in DailyRuns => input[pack[1]].live /\ ScreenBacked(pack[1])
               /\ pack[1] \in Pipelines => pack[1] \in pipelineRows
    <2>1. Packable(pack[1], pack[2])
      BY DEF DailyInv, PacksOK
    <2>2. pack[1] \in DailyRuns => Backed(pack[1])
      BY <2>1 DEF Packable, Standing, DailyInv, StoredRunOK
    <2>3. pack[1] \in Pipelines => pack[1] \notin DailyRuns
      BY DailyRunAssumption
    <2>. QED  BY <2>1, <2>2, <2>3 DEF Packable, Snapshotted, Standing, Backed
  <1>. QED  BY <1>1, <1>2 DEF ReportBacked

\* The candidates of a screen are at the places from 1, none at two.
LEMMA ScreenFacts ==
  ASSUME NEW i \in DailyInputs
  PROVE  /\ i.live \in BOOLEAN
         /\ i.given \subseteq Observations
         /\ {SymbolOf[o] : o \in i.given} = FirstOf(i.screened, OperationalLimit)
         /\ \E n \in Nat : i.screened \in [1..n -> Tickers]
         /\ \A j, k \in DOMAIN i.screened : j # k => i.screened[j] # i.screened[k]
         /\ \A limit : FirstOf(i.screened, limit) \subseteq Tickers
  <1>1. /\ i.live \in BOOLEAN /\ i.screened \in Screens /\ i.given \subseteq Observations
        /\ {SymbolOf[o] : o \in i.given} = FirstOf(i.screened, OperationalLimit)
    BY DEF DailyInputs
  <1>2. i.screened \in UNION {[1..n -> Tickers] : n \in 0..Cardinality(Tickers)}
    BY <1>1 DEF Screens
  <1>3. Cardinality(Tickers) \in Nat
    BY FS_CardinalityType, DailyRunAssumption
  <1>4. PICK n \in Nat : i.screened \in [1..n -> Tickers]
    BY <1>2, <1>3
  <1>5. \A j, k \in DOMAIN i.screened : j # k => i.screened[j] # i.screened[k]
    BY <1>1 DEF Screens
  <1>6. \A limit : FirstOf(i.screened, limit) \subseteq Tickers
    BY <1>4 DEF FirstOf, FirstPlaces
  <1>. QED  BY <1>1, <1>4, <1>5, <1>6

LEMMA DailyInitial == DailyInit => DailyInv
  <1>. SUFFICES ASSUME DailyInit PROVE DailyInv
    OBVIOUS
  <1>. USE DEF DailyInit
  <1>1. NoInput \in DailyInputs
    <2>. DEFINE none == <<>>
    <2>1. Cardinality(Tickers) \in Nat
      BY FS_CardinalityType, DailyRunAssumption
    <2>2. none \in [1..0 -> Tickers] /\ DOMAIN none = {}
      OBVIOUS
    <2>3. 0 \in 0..Cardinality(Tickers)
      BY <2>1
    <2>4. none \in UNION {[1..n -> Tickers] : n \in 0..Cardinality(Tickers)}
      BY <2>2, <2>3
    <2>5. none \in Screens
      BY <2>2, <2>4 DEF Screens
    <2>6. FirstOf(none, OperationalLimit) = {}
      BY <2>2 DEF FirstOf, FirstPlaces
    <2>. HIDE DEF none
    <2>7. NoInput = [live |-> TRUE, screened |-> none, thin |-> {}, given |-> {}]
      BY DEF NoInput, none
    <2>. QED  BY <2>5, <2>6, <2>7 DEF DailyInputs
  <1>2. DailyTypeOK
    <2>1. 0 \in 0..MaxStopped
      BY DailyRunAssumption
    <2>2. pipelineInput \in [Pipelines -> Screens]
      BY <1>1 DEF DailyInputs, NoInput
    <2>. QED  BY <1>1, <2>1, <2>2 DEF DailyTypeOK, Stages
  <1>3. {q \in DailyRuns : universeRows[q] # 0} = {}
    OBVIOUS
  <1>4. IsFiniteSet({q \in DailyRuns : universeRows[q] # 0})
    BY <1>3, FS_EmptySet
  <1>5. ASSUME NEW r \in DailyRuns PROVE StageOK(r) /\ StoredRunOK(r)
    BY DEF StageOK, StoredRunOK
  <1>6. PacksOK
    BY DEF PacksOK
  <1>. QED  BY <1>2, <1>4, <1>5, <1>6 DEF DailyInv

\* What is said of a run stays true as long as nothing of it changes.
LEMMA OtherRunsKeep ==
  ASSUME NEW q \in DailyRuns, StageOK(q), StoredRunOK(q), snapshotRows \subseteq snapshotRows',
         UNCHANGED <<running[q], input[q], next[q], universeRows[q], trail[q], screenRows[q],
                     evaluated[q]>>,
         q \in reportRows' <=> q \in reportRows
  PROVE  StageOK(q)' /\ StoredRunOK(q)'
  <1>1. /\ Operational(q)' = Operational(q)
        /\ \A t : Transitions(q, t)' = Transitions(q, t)
    BY DEF Operational, Transitions
  <1>2. \A i : TrailAt(q, i)' = TrailAt(q, i)
    BY <1>1 DEF TrailAt
  <1>3. StageOK(q)'
    BY <1>1, <1>2 DEF StageOK
  <1>4. StoredRunOK(q)'
    BY <1>1 DEF StoredRunOK, Backed, ScreenBacked
  <1>. QED  BY <1>3, <1>4

\* Screen rows and snapshots stay, and what a screen row was made of, so what
\* was packed or is read from one stays backed.
LEMMA PacksKeep ==
  ASSUME PacksOK, snapshotRows \subseteq snapshotRows', pipelineRows \subseteq pipelineRows',
         \A r \in DailyRuns : screenRows[r] # 0 => screenRows'[r] # 0 /\ input'[r] = input[r],
         \A p \in pipelineRows : pipelineInput'[p] = pipelineInput[p],
         UNCHANGED newestScreen \/ \A w : w = newestScreen' => Standing(w)',
         \A p \in pipelineRows' \ pipelineRows : \A t \in NamesOf(pipelineInput'[p]) : Snapshotted(t)',
         UNCHANGED <<research, packs>>
  PROVE  PacksOK'
  <1>1. \A t : Snapshotted(t) => Snapshotted(t)'
    BY DEF Snapshotted
  <1>2. \A w : Standing(w) => Standing(w)'
    BY DEF Standing
  <1>3. \A w : Standing(w) => ScreenedBy(w)' = ScreenedBy(w)
    BY DEF Standing, ScreenedBy
  <1>4. \A w, t : Packable(w, t) => Packable(w, t)'
    BY <1>1, <1>2, <1>3 DEF Packable
  <1>5. ASSUME newestScreen' # NoScreen PROVE Standing(newestScreen)'
    <2>1. PICK w : w = newestScreen'
      OBVIOUS
    <2>2. Standing(w)'
      BY <1>2, <1>5, <2>1 DEF PacksOK
    <2>. QED  BY <2>1, <2>2 DEF Standing
  <1>6. \A p \in pipelineRows' : \A t \in NamesOf(pipelineInput'[p]) : Snapshotted(t)'
    BY <1>1 DEF PacksOK
  <1>7. ASSUME NEW q \in Researches, NEW t \in research'[q].left PROVE Packable(research[q].of, t)'
    <2>1. PICK w : w = research[q].of
      OBVIOUS
    <2>2. Packable(w, t)'
      BY <1>4, <2>1 DEF PacksOK
    <2>. QED  BY <2>1, <2>2 DEF Packable, Standing, ScreenedBy
  <1>8. ASSUME NEW pack \in packs PROVE Packable(pack[1], pack[2])'
    BY <1>4 DEF PacksOK
  <1>. QED  BY <1>5, <1>6, <1>7, <1>8 DEF PacksOK

\* A step of one run leaves what is stored of the others alone.
LEMMA OneRunSteps ==
  ASSUME DailyInv, NEW r \in DailyRuns, DailyTypeOK', snapshotRows \subseteq snapshotRows',
         \A q \in DailyRuns \ {r} :
           /\ UNCHANGED <<running[q], input[q], next[q], universeRows[q], trail[q], screenRows[q],
                          evaluated[q]>>
           /\ q \in reportRows' <=> q \in reportRows,
         IsFiniteSet({q \in DailyRuns : universeRows[q] # 0})',
         StageOK(r)', StoredRunOK(r)', PacksOK'
  PROVE  DailyInv'
  <1>1. ASSUME NEW q \in DailyRuns PROVE StageOK(q)' /\ StoredRunOK(q)'
    <2>1. CASE q # r
      <3>1. StageOK(q) /\ StoredRunOK(q)
        BY DEF DailyInv
      <3>. QED  BY <2>1, <3>1, OtherRunsKeep
    <2>. QED  BY <2>1
  <1>. QED  BY <1>1 DEF DailyInv

LEMMA StartKeepsDaily ==
  ASSUME DailyInv, NEW r \in DailyRuns, StartDaily(r)
  PROVE  DailyInv'
  <1>1. DailyTypeOK /\ StageOK(r) /\ StoredRunOK(r) /\ PacksOK
    BY DEF DailyInv
  <1>2. PICK i \in DailyInputs :
          /\ input' = [input EXCEPT ![r] = i]
          /\ \/ i.live /\ running' = [running EXCEPT ![r] = "universe"]
             \/ running' = [running EXCEPT ![r] = "synthetic"]
    <2>1. CASE \E i \in DailyInputs :
                 /\ i.live
                 /\ input' = [input EXCEPT ![r] = i]
                 /\ running' = [running EXCEPT ![r] = "universe"]
      BY <2>1
    <2>2. CASE /\ input' = [input EXCEPT ![r].live = FALSE]
               /\ running' = [running EXCEPT ![r] = "synthetic"]
      <3>1. input \in [DailyRuns -> DailyInputs]
        BY <1>1 DEF DailyTypeOK
      <3>2. PICK i : i = [input[r] EXCEPT !.live = FALSE]
        OBVIOUS
      <3>3. input' = [input EXCEPT ![r] = i]
        BY <2>2, <3>1, <3>2
      <3>4. i \in DailyInputs
        BY <3>1, <3>2 DEF DailyInputs
      <3>. QED  BY <2>2, <3>3, <3>4
    <2>. QED  BY <2>1, <2>2 DEF StartDaily, runTables, pipelineTables
  <1>3. UNCHANGED <<next, universeRows, snapshotRows, trail, screenRows, pipelineRows, pipelineInput, newestScreen, evaluated,
                    reportRows, syntheticRows, stopped, research, packs>>
        /\ running[r] = "new"
    BY DEF StartDaily, runTables, pipelineTables
  <1>4. DailyTypeOK'
    BY <1>1, <1>2, <1>3 DEF DailyTypeOK, Stages
  <1>5. \A q \in DailyRuns \ {r} : UNCHANGED <<running[q], input[q]>>
    BY <1>1, <1>2 DEF DailyTypeOK
  <1>6. /\ running'[r] \in {"universe", "synthetic"}
        /\ running'[r] = "universe" => input'[r].live
    BY <1>1, <1>2 DEF DailyTypeOK
  <1>7. StageOK(r)'
    BY <1>1, <1>3, <1>6 DEF StageOK
  <1>8. StoredRunOK(r)'
    BY <1>1, <1>3 DEF StageOK, StoredRunOK
  <1>9. PacksOK'
    <2>1. screenRows[r] = 0
      BY <1>1, <1>3 DEF StageOK
    <2>. QED  BY <1>1, <1>3, <1>5, <2>1, PacksKeep
  <1>10. IsFiniteSet({q \in DailyRuns : universeRows[q] # 0})'
    BY <1>3 DEF DailyInv
  <1>. QED  BY <1>3, <1>4, <1>5, <1>7, <1>8, <1>9, <1>10, OneRunSteps

\* A run that has ended says nothing of its stage any more.
LEMMA EndedKeepsDaily ==
  ASSUME DailyInv, NEW r \in DailyRuns, AppendSynthetic(r) \/ Stop(r)
  PROVE  DailyInv'
  <1>1. DailyTypeOK /\ StageOK(r) /\ StoredRunOK(r) /\ PacksOK
    BY DEF DailyInv
  <1>2. UNCHANGED <<input, universeRows, snapshotRows, trail, screenRows, pipelineRows, pipelineInput, newestScreen, evaluated,
                    reportRows, research, packs>>
    BY DEF AppendSynthetic, Stop, runTables, pipelineTables
  <1>3. running[r] # "done" /\ running'[r] \in {"done", "stopped"}
    BY <1>1 DEF AppendSynthetic, Stop, GoOn, Following, DailyTypeOK
  <1>4. \A q \in DailyRuns \ {r} : UNCHANGED <<running[q], next[q]>>
    BY <1>1 DEF AppendSynthetic, Stop, GoOn, DailyTypeOK
  <1>5. DailyTypeOK'
    <2>1. CASE AppendSynthetic(r)
      BY <1>1, <1>2, <2>1 DEF AppendSynthetic, GoOn, Following, DailyTypeOK, Stages
    <2>2. CASE Stop(r)
      <3>1. MaxStopped \in Nat
        BY DailyRunAssumption
      <3>2. stopped' \in 0..MaxStopped
        BY <1>1, <2>2, <3>1 DEF Stop, DailyTypeOK
      <3>3. running' \in [DailyRuns -> Stages] /\ UNCHANGED <<next, syntheticRows>>
        BY <1>1, <2>2 DEF Stop, runTables, DailyTypeOK, Stages
      <3>. QED  BY <1>1, <1>2, <3>2, <3>3 DEF DailyTypeOK
    <2>. QED  BY <2>1, <2>2
  <1>6. StageOK(r)'
    BY <1>3 DEF StageOK
  <1>7. StoredRunOK(r)'
    BY <1>1, <1>2, <1>3 DEF StoredRunOK, Backed, ScreenBacked, Operational, Transitions
  <1>8. PacksOK'
    BY <1>1, <1>2, PacksKeep
  <1>9. IsFiniteSet({q \in DailyRuns : universeRows[q] # 0})'
    BY <1>2 DEF DailyInv
  <1>. QED  BY <1>2, <1>4, <1>5, <1>6, <1>7, <1>8, <1>9, OneRunSteps

LEMMA UniverseKeepsDaily ==
  ASSUME DailyInv, NEW r \in DailyRuns, AppendUniverse(r)
  PROVE  DailyInv'
  <1>. DEFINE stored == {q \in DailyRuns : universeRows[q] # 0}
              new == 1 + Cardinality(stored)
  <1>1. DailyTypeOK /\ StageOK(r) /\ StoredRunOK(r) /\ PacksOK /\ IsFiniteSet(stored)
    BY DEF DailyInv
  <1>2. new \in Nat /\ new # 0
    <2>1. Cardinality(stored) \in Nat
      BY <1>1, FS_CardinalityType
    <2>. HIDE DEF stored
    <2>. QED  BY <2>1
  <1>3. /\ universeRows' = [universeRows EXCEPT ![r] = new]
        /\ running[r] = "universe" /\ GoOn(r)
        /\ UNCHANGED <<input, snapshotRows, trail, screenRows, pipelineRows, pipelineInput, newestScreen, evaluated, reportRows,
                       syntheticRows, stopped, research, packs>>
    BY DEF AppendUniverse, runTables, pipelineTables
  <1>. HIDE DEF new
  <1>4. /\ running' = [running EXCEPT ![r] = "snapshots"]
        /\ next' = [next EXCEPT ![r] = 1]
    BY <1>3 DEF GoOn, Following
  <1>5. \A q \in DailyRuns \ {r} : UNCHANGED <<running[q], next[q], universeRows[q]>>
    BY <1>1, <1>3, <1>4 DEF DailyTypeOK
  <1>6. running'[r] = "snapshots" /\ next'[r] = 1 /\ universeRows'[r] = new
    BY <1>1, <1>3, <1>4 DEF DailyTypeOK
  <1>7. DailyTypeOK'
    BY <1>1, <1>2, <1>3, <1>4 DEF DailyTypeOK, Stages
  <1>8. StageOK(r)'
    BY <1>1, <1>2, <1>3, <1>6 DEF StageOK
  <1>9. StoredRunOK(r)'
    BY <1>1, <1>3 DEF StoredRunOK, StageOK
  <1>10. PacksOK'
    BY <1>1, <1>3, PacksKeep
  <1>11. IsFiniteSet({q \in DailyRuns : universeRows[q] # 0})'
    <2>1. {q \in DailyRuns : universeRows'[q] # 0} \subseteq stored \cup {r}
      BY <1>5
    <2>2. IsFiniteSet(stored \cup {r})
      <3>. HIDE DEF stored
      <3>. QED  BY <1>1, FS_AddElement
    <2>. QED  BY <2>1, <2>2, FS_Subset
  <1>. QED  BY <1>3, <1>5, <1>7, <1>8, <1>9, <1>10, <1>11, OneRunSteps

LEMMA SnapshotsKeepDaily ==
  ASSUME DailyInv, NEW r \in DailyRuns, PutSnapshots(r)
  PROVE  DailyInv'
  <1>1. DailyTypeOK /\ StageOK(r) /\ StoredRunOK(r) /\ PacksOK
    BY DEF DailyInv
  <1>2. UNCHANGED <<input, universeRows, trail, screenRows, pipelineRows, pipelineInput, newestScreen, evaluated, reportRows,
                    syntheticRows, stopped, research, packs>>
        /\ running[r] = "snapshots"
    BY DEF PutSnapshots, runTables, pipelineTables
  <1>3. /\ snapshotRows \subseteq snapshotRows' /\ snapshotRows' \subseteq Observations
        /\ \/ UNCHANGED <<running, next>>
           \/ /\ input[r].given \subseteq snapshotRows'
              /\ running' = [running EXCEPT ![r] = "transitions"]
              /\ next' = [next EXCEPT ![r] = 1]
    <2>1. input[r] \in DailyInputs /\ snapshotRows \subseteq Observations
      BY <1>1 DEF DailyTypeOK
    <2>2. input[r].given \subseteq Observations
      BY <2>1, ScreenFacts
    <2>. QED  BY <1>2, <2>1, <2>2 DEF PutSnapshots, GoOn, Following
  <1>4. \A q \in DailyRuns \ {r} : UNCHANGED <<running[q], next[q]>>
    BY <1>1, <1>3 DEF DailyTypeOK
  <1>5. DailyTypeOK'
    <2>1. running \in [DailyRuns -> Stages] /\ next \in [DailyRuns -> Nat]
      BY <1>1 DEF DailyTypeOK
    <2>2. running' \in [DailyRuns -> Stages] /\ next' \in [DailyRuns -> Nat]
      BY <1>3, <2>1 DEF Stages
    <2>3. snapshotRows' \subseteq Observations
      BY <1>3
    <2>. QED  BY <1>1, <1>2, <2>2, <2>3 DEF DailyTypeOK
  <1>6. Operational(r)' = Operational(r)
    BY <1>2 DEF Operational
  <1>7. StageOK(r)'
    <2>1. CASE UNCHANGED <<running, next>>
      BY <1>1, <1>2, <2>1 DEF StageOK
    <2>2. CASE ~UNCHANGED <<running, next>>
      <3>1. running'[r] = "transitions" /\ next'[r] = 1 /\ input'[r].given \subseteq snapshotRows'
        BY <1>1, <1>2, <1>3, <2>2 DEF DailyTypeOK
      <3>2. \A t \in Tickers : trail'[r][t] = <<>>
        BY <1>1, <1>2 DEF StageOK
      <3>3. ASSUME NEW i \in FirstPlaces(input'[r].screened, OperationalLimit) PROVE TrailAt(r, i)'
        <4>1. input[r] \in DailyInputs
          BY <1>1 DEF DailyTypeOK
        <4>2. PICK n \in Nat : input[r].screened \in [1..n -> Tickers]
          BY <4>1, ScreenFacts
        <4>3. i \in 1..n /\ input[r].screened[i] \in Tickers
          BY <1>2, <4>2 DEF FirstPlaces
        <4>4. trail'[r][input'[r].screened[i]] = <<>>
          BY <1>2, <3>2, <4>3
        <4>5. i = 1 \/ i > 1
          BY <4>3
        <4>6. ~(i < 1)
          BY <4>3
        <4>. QED  BY <3>1, <4>4, <4>5, <4>6 DEF TrailAt
      <3>. QED  BY <1>1, <1>2, <1>6, <3>1, <3>3 DEF StageOK
    <2>. QED  BY <2>1, <2>2
  <1>8. StoredRunOK(r)'
    BY <1>1, <1>2 DEF StoredRunOK, StageOK
  <1>9. PacksOK'
    BY <1>1, <1>2, <1>3, PacksKeep
  <1>10. IsFiniteSet({q \in DailyRuns : universeRows[q] # 0})'
    BY <1>2 DEF DailyInv
  <1>. QED  BY <1>2, <1>3, <1>4, <1>5, <1>7, <1>8, <1>9, <1>10, OneRunSteps

LEMMA PairAppended ==
  ASSUME NEW a, NEW b
  PROVE  Append(<<a>>, b) = <<a, b>>
  <1>. DEFINE S == {a, b}
              s == Append(<<a>>, b)
              t == <<a, b>>
  <1>1. <<a>> \in Seq(S) /\ b \in S /\ t \in Seq(S) /\ Len(t) = 2 /\ t[1] = a /\ t[2] = b
    OBVIOUS
  <1>2. s \in Seq(S) /\ Len(s) = 2 /\ s[1] = a /\ s[2] = b
    BY <1>1
  <1>. HIDE DEF S, s, t
  <1>3. s \in [1..2 -> S] /\ t \in [1..2 -> S]
    BY <1>1, <1>2
  <1>4. \A i \in 1..2 : s[i] = t[i]
    BY <1>1, <1>2
  <1>5. s = t
    BY <1>3, <1>4
  <1>. QED  BY <1>5 DEF s, t

\* The two trails there are, and how they are written.
LEMMA TrailWords ==
  /\ Append(<<>>, <<"filtered">>[1]) = <<"filtered">>
  /\ Append(<<>>, <<"filtered", "researching">>[1]) = <<"filtered">>
  /\ Append(<<"filtered">>, <<"filtered", "researching">>[2]) = <<"filtered", "researching">>
  /\ Len(<<"filtered">>) = 1 /\ Len(<<"filtered", "researching">>) = 2 /\ 1 # 2
  /\ <<"filtered">> \in Seq(CandidateStates)
  /\ <<"filtered", "researching">> \in Seq(CandidateStates)
  <1>1. /\ <<"filtered">>[1] = "filtered" /\ <<"filtered", "researching">>[1] = "filtered"
        /\ <<"filtered", "researching">>[2] = "researching"
    OBVIOUS
  <1>2. Append(<<>>, "filtered") = <<"filtered">>
    OBVIOUS
  <1>3. /\ <<"filtered">> \in Seq(CandidateStates)
        /\ <<"filtered", "researching">> \in Seq(CandidateStates)
    BY DEF CandidateStates
  <1>4. Len(<<"filtered">>) = 1 /\ Len(<<"filtered", "researching">>) = 2 /\ 1 # 2
    OBVIOUS
  <1>. QED  BY <1>1, <1>2, <1>3, <1>4, PairAppended

\* The trail of a candidate is written to its end before the next one's.
LEMMA TransitionKeepsDaily ==
  ASSUME DailyInv, NEW r \in DailyRuns, AppendTransition(r)
  PROVE  DailyInv'
  <1>. DEFINE places == FirstPlaces(input[r].screened, OperationalLimit)
              name(i) == input[r].screened[i]
  <1>1. DailyTypeOK /\ StageOK(r) /\ StoredRunOK(r) /\ PacksOK
    BY DEF DailyInv
  <1>2. UNCHANGED <<input, universeRows, snapshotRows, screenRows, pipelineRows, pipelineInput, newestScreen, evaluated,
                    reportRows, syntheticRows, stopped, research, packs>>
        /\ running[r] = "transitions"
    BY DEF AppendTransition, runTables, pipelineTables
  <1>3. /\ running \in [DailyRuns -> Stages] /\ next \in [DailyRuns -> Nat]
        /\ trail \in [DailyRuns -> [Tickers -> Seq(CandidateStates)]]
        /\ input[r] \in DailyInputs
    BY <1>1 DEF DailyTypeOK
  <1>4. PICK n \in Nat : input[r].screened \in [1..n -> Tickers]
    BY <1>3, ScreenFacts
  <1>5. /\ \A i \in places : i \in 1..n /\ i <= OperationalLimit /\ name(i) \in Tickers
        /\ \A i, j \in places : i # j => name(i) # name(j)
        /\ \A i \in 1..n : i <= OperationalLimit => i \in places
        /\ Operational(r) = {name(i) : i \in places}
    BY <1>3, <1>4, ScreenFacts DEF FirstPlaces, Operational, FirstOf
  <1>6. screenRows[r] = 0 /\ next[r] # 0 /\ (\A i \in places : TrailAt(r, i))
    BY <1>1, <1>2 DEF StageOK
  <1>7. PacksOK'
    BY <1>1, <1>2, PacksKeep
  <1>8. IsFiniteSet({q \in DailyRuns : universeRows[q] # 0})'
    BY <1>2 DEF DailyInv
  <1>9. StoredRunOK(r)'
    BY <1>1, <1>2, <1>6 DEF StoredRunOK
  <1>10. \A t : Transitions(r, t)' = Transitions(r, t)
    BY <1>2 DEF Transitions
  <1>11. places' = places /\ (\A i : name(i)' = name(i)) /\ Operational(r)' = Operational(r)
    BY <1>2 DEF Operational
  <1>12. OperationalLimit \in Nat
    BY DailyRunAssumption
  <1>13. CASE next[r] \notin places
    <2>1. /\ running' = [running EXCEPT ![r] = "screen"]
          /\ next' = [next EXCEPT ![r] = 1] /\ UNCHANGED trail
      BY <1>2, <1>13 DEF AppendTransition, GoOn, Following
    <2>2. \A i \in places : i < next[r] /\ ~(i = next[r]) /\ ~(i > next[r])
      <3>. HIDE DEF places
      <3>1. next[r] \in Nat
        BY <1>3
      <3>2. n < next[r] \/ OperationalLimit < next[r]
        BY <1>4, <1>5, <1>6, <1>12, <1>13, <3>1
      <3>. QED  BY <1>4, <1>5, <1>12, <3>1, <3>2
    <2>3. \A t \in Operational(r) : trail[r][t] = Transitions(r, t)
      <3>1. \A i \in places : trail[r][name(i)] = Transitions(r, name(i))
        BY <1>6, <2>2 DEF TrailAt
      <3>. QED  BY <1>5, <3>1
    <2>4. running' \in [DailyRuns -> Stages] /\ next' \in [DailyRuns -> Nat]
      BY <1>3, <2>1 DEF Stages
    <2>5. DailyTypeOK'
      BY <1>1, <1>2, <2>1, <2>4 DEF DailyTypeOK
    <2>6. running'[r] = "screen" /\ \A q \in DailyRuns \ {r} : UNCHANGED <<running[q], next[q]>>
      BY <1>3, <2>1
    <2>7. StageOK(r)'
      <3>1. \A t \in Operational(r)' : trail'[r][t] = Transitions(r, t)'
        BY <1>10, <1>11, <2>1, <2>3
      <3>. QED  BY <1>1, <1>2, <1>11, <2>6, <3>1 DEF StageOK
    <2>. QED  BY <1>2, <1>7, <1>8, <1>9, <2>1, <2>5, <2>6, <2>7, OneRunSteps
  <1>14. CASE next[r] \in places
    <2>. DEFINE at == next[r]
                t == input[r].screened[at]
                done == Len(trail[r][t]) + 1
                new == Append(trail[r][t], Transitions(r, t)[done])
    <2>0. at \in 1..n /\ at \in Nat /\ t \in Tickers /\ TrailAt(r, at) /\ t = name(at)
      BY <1>3, <1>5, <1>6, <1>14
    <2>1. /\ trail' = [trail EXCEPT ![r][t] = new]
          /\ next' = [next EXCEPT ![r] = IF done = Len(Transitions(r, t)) THEN @ + 1 ELSE @]
          /\ UNCHANGED running
      BY <1>14 DEF AppendTransition, runTables, pipelineTables
    <2>2. \/ trail[r][t] = <<>>
          \/ t \in input[r].thin /\ trail[r][t] = <<"filtered">>
      <3>1. ~(at < next[r]) /\ ~(at > next[r])
        BY <2>0
      <3>. QED  BY <2>0, <3>1 DEF TrailAt
    <2>3. /\ new \in Seq(CandidateStates)
          /\ IF done = Len(Transitions(r, t)) THEN new = Transitions(r, t)
             ELSE t \in input[r].thin /\ new = <<"filtered">>
      <3>. HIDE DEF t
      <3>1. CASE trail[r][t] = <<>> /\ t \in input[r].thin
        <4>1. Transitions(r, t) = <<"filtered", "researching">> /\ done = 1
          BY <3>1 DEF Transitions
        <4>2. new = <<"filtered">>
          BY <3>1, <4>1, TrailWords
        <4>. HIDE DEF new, done
        <4>. QED  BY <3>1, <4>1, <4>2, TrailWords
      <3>2. CASE trail[r][t] = <<>> /\ t \notin input[r].thin
        <4>1. Transitions(r, t) = <<"filtered">> /\ done = 1
          BY <3>2 DEF Transitions
        <4>2. new = <<"filtered">>
          BY <3>2, <4>1, TrailWords
        <4>. HIDE DEF new, done
        <4>. QED  BY <4>1, <4>2, TrailWords
      <3>3. CASE trail[r][t] = <<"filtered">> /\ t \in input[r].thin
        <4>1. Transitions(r, t) = <<"filtered", "researching">> /\ done = 2
          BY <3>3 DEF Transitions
        <4>2. new = <<"filtered", "researching">>
          BY <3>3, <4>1, TrailWords
        <4>. HIDE DEF new, done
        <4>. QED  BY <4>1, <4>2, TrailWords
      <3>. QED  BY <2>2, <3>1, <3>2, <3>3
    <2>. DEFINE ended == done = Len(Transitions(r, t))
    <2>. HIDE DEF new, ended
    <2>4. /\ trail' \in [DailyRuns -> [Tickers -> Seq(CandidateStates)]]
          /\ \A q \in DailyRuns \ {r} : trail'[q] = trail[q]
          /\ trail'[r][t] = new
          /\ \A u \in Tickers \ {t} : trail'[r][u] = trail[r][u]
      <3>. HIDE DEF t
      <3>. QED  BY <1>3, <2>0, <2>1, <2>3
    <2>5. /\ next' \in [DailyRuns -> Nat]
          /\ \A q \in DailyRuns \ {r} : next'[q] = next[q]
          /\ next'[r] = IF ended THEN at + 1 ELSE at
      <3>1. next' = [next EXCEPT ![r] = IF ended THEN @ + 1 ELSE @]
        BY <2>1 DEF ended
      <3>. HIDE DEF t
      <3>. QED  BY <1>3, <3>1
    <2>6. IF ended THEN new = Transitions(r, t)
          ELSE t \in input[r].thin /\ new = <<"filtered">>
      BY <2>3 DEF ended
    <2>7. ASSUME NEW i \in places PROVE TrailAt(r, i)'
      <3>0. i \in 1..n /\ name(i) \in Tickers /\ TrailAt(r, i)
        BY <1>5, <1>6
      <3>. HIDE DEF places
      <3>1. CASE i = at
        <4>1. name(i) = t
          BY <2>0, <3>1
        <4>2. CASE ended
          <5>1. i < next'[r]
            BY <2>0, <2>5, <3>1, <4>2
          <5>2. trail'[r][name(i)] = Transitions(r, name(i))
            BY <2>4, <2>6, <4>1, <4>2
          <5>. HIDE DEF t
          <5>3. ~(i = next'[r]) /\ ~(i > next'[r])
            BY <2>0, <2>5, <3>1, <4>2
          <5>. QED  BY <1>2, <1>10, <5>1, <5>2, <5>3 DEF TrailAt
        <4>3. CASE ~ended
          <5>1. i = next'[r] /\ ~(i < next'[r]) /\ ~(i > next'[r])
            BY <2>0, <2>5, <3>1, <4>3
          <5>2. trail'[r][name(i)] = <<"filtered">> /\ name(i) \in input[r].thin
            BY <2>4, <2>6, <4>1, <4>3
          <5>. HIDE DEF t
          <5>. QED  BY <1>2, <5>1, <5>2 DEF TrailAt
        <4>. QED  BY <4>2, <4>3
      <3>2. CASE i # at
        <4>1. name(i) # t
          BY <1>5, <1>14, <2>0, <3>2
        <4>2. trail'[r][name(i)] = trail[r][name(i)]
          BY <2>4, <3>0, <4>1
        <4>. HIDE DEF t
        <4>3. CASE i < at
          <5>1. i < next'[r] /\ ~(i = next'[r]) /\ ~(i > next'[r])
            BY <2>0, <2>5, <3>0, <4>3
          <5>2. trail[r][name(i)] = Transitions(r, name(i))
            <6>1. ~(i = at) /\ ~(i > at)
              BY <2>0, <3>0, <4>3
            <6>. QED  BY <3>0, <4>3, <6>1 DEF TrailAt
          <5>. QED  BY <1>2, <1>10, <4>2, <5>1, <5>2 DEF TrailAt
        <4>4. CASE i > at
          <5>1. trail[r][name(i)] = <<>>
            <6>1. ~(i < at) /\ ~(i = at)
              BY <2>0, <3>0, <4>4
            <6>. QED  BY <3>0, <4>4, <6>1 DEF TrailAt
          <5>2. (i = next'[r] /\ ~(i < next'[r]) /\ ~(i > next'[r]))
                \/ (i > next'[r] /\ ~(i < next'[r]) /\ ~(i = next'[r]))
            BY <2>0, <2>5, <3>0, <4>4
          <5>. QED  BY <1>2, <4>2, <5>1, <5>2 DEF TrailAt
        <4>. QED  BY <2>0, <3>0, <3>2, <4>3, <4>4
      <3>. QED  BY <3>1, <3>2
    <2>8. next'[r] # 0
      BY <2>0, <2>5
    <2>9. DailyTypeOK'
      BY <1>1, <1>2, <2>1, <2>4, <2>5 DEF DailyTypeOK
    <2>10. StageOK(r)'
      <3>1. \A i \in places' : TrailAt(r, i)'
        BY <1>11, <2>7
      <3>2. running'[r] = "transitions"
        BY <1>2, <2>1
      <3>. HIDE DEF t
      <3>. QED  BY <1>1, <1>2, <1>11, <2>8, <3>1, <3>2 DEF StageOK
    <2>. QED  BY <1>2, <1>7, <1>8, <1>9, <2>1, <2>4, <2>5, <2>9, <2>10, OneRunSteps
  <1>. QED  BY <1>13, <1>14

LEMMA ScreenKeepsDaily ==
  ASSUME DailyInv, NEW r \in DailyRuns, AppendScreen(r)
  PROVE  DailyInv'
  <1>1. DailyTypeOK /\ StageOK(r) /\ StoredRunOK(r) /\ PacksOK
    BY DEF DailyInv
  <1>2. /\ UNCHANGED <<input, universeRows, snapshotRows, trail, pipelineRows, pipelineInput, evaluated, reportRows,
                       syntheticRows, stopped, research, packs>>
        /\ running[r] = "screen"
        /\ screenRows' = [screenRows EXCEPT ![r] = universeRows[r]]
        /\ newestScreen' = r
        /\ running' = [running EXCEPT ![r] = "evaluations"]
        /\ next' = [next EXCEPT ![r] = 1]
    BY DEF AppendScreen, GoOn, Following, pipelineTables
  <1>3. /\ running \in [DailyRuns -> Stages] /\ next \in [DailyRuns -> Nat]
        /\ screenRows \in [DailyRuns -> Nat] /\ universeRows \in [DailyRuns -> Nat]
    BY <1>1 DEF DailyTypeOK
  <1>4. /\ running' \in [DailyRuns -> Stages] /\ next' \in [DailyRuns -> Nat]
        /\ screenRows' \in [DailyRuns -> Nat]
        /\ running'[r] = "evaluations" /\ screenRows'[r] = universeRows[r]
        /\ \A q \in DailyRuns \ {r} : UNCHANGED <<running[q], next[q], screenRows[q]>>
    BY <1>2, <1>3 DEF Stages
  <1>5. DailyTypeOK'
    BY <1>1, <1>2, <1>4 DEF DailyTypeOK, Screeners
  <1>6. /\ Operational(r)' = Operational(r)
        /\ \A t : Transitions(r, t)' = Transitions(r, t)
    BY <1>2 DEF Operational, Transitions
  <1>7. StageOK(r)'
    BY <1>1, <1>2, <1>4, <1>6 DEF StageOK
  <1>8. StoredRunOK(r)'
    BY <1>1, <1>2, <1>4, <1>6 DEF StageOK, StoredRunOK, Backed, ScreenBacked
  <1>9. PacksOK'
    <2>1. universeRows[r] # 0
      BY <1>1, <1>2 DEF StageOK
    <2>2. \A q \in DailyRuns : screenRows[q] # 0 => screenRows'[q] # 0
      BY <1>4, <2>1
    <2>3. \A w : w = newestScreen' => Standing(w)'
      BY <1>2, <1>4, <2>1 DEF Standing, Screeners
    <2>. QED  BY <1>1, <1>2, <2>2, <2>3, PacksKeep
  <1>10. IsFiniteSet({q \in DailyRuns : universeRows[q] # 0})'
    BY <1>2 DEF DailyInv
  <1>. QED  BY <1>2, <1>4, <1>5, <1>7, <1>8, <1>9, <1>10, OneRunSteps

LEMMA EvaluationKeepsDaily ==
  ASSUME DailyInv, NEW r \in DailyRuns, AppendEvaluation(r)
  PROVE  DailyInv'
  <1>. DEFINE listed == FirstOf(input[r].screened, ReportLimit)
  <1>1. DailyTypeOK /\ StageOK(r) /\ StoredRunOK(r) /\ PacksOK
    BY DEF DailyInv
  <1>2. /\ UNCHANGED <<input, universeRows, snapshotRows, trail, screenRows, pipelineRows, pipelineInput, newestScreen,
                       reportRows, syntheticRows, stopped, research, packs>>
        /\ running[r] = "evaluations"
    BY DEF AppendEvaluation, pipelineTables
  <1>3. /\ running \in [DailyRuns -> Stages] /\ next \in [DailyRuns -> Nat]
        /\ evaluated \in [DailyRuns -> SUBSET Tickers] /\ input[r] \in DailyInputs
    BY <1>1 DEF DailyTypeOK
  <1>4. listed \subseteq Tickers /\ evaluated[r] \subseteq listed
    BY <1>1, <1>2, <1>3, ScreenFacts DEF StageOK
  <1>5. \/ /\ running' = [running EXCEPT ![r] = "report"] /\ next' = [next EXCEPT ![r] = 1]
           /\ UNCHANGED evaluated /\ listed \ evaluated[r] = {}
        \/ /\ UNCHANGED <<running, next>>
           /\ \E t \in listed : evaluated' = [evaluated EXCEPT ![r] = @ \cup {t}]
    BY <1>2 DEF AppendEvaluation, GoOn, Following
  <1>6. /\ running' \in [DailyRuns -> Stages] /\ next' \in [DailyRuns -> Nat]
        /\ evaluated' \in [DailyRuns -> SUBSET Tickers]
        /\ \A q \in DailyRuns \ {r} : UNCHANGED <<running[q], next[q], evaluated[q]>>
        /\ \/ running'[r] = "report" /\ evaluated'[r] = listed
           \/ running'[r] = "evaluations" /\ evaluated'[r] \subseteq listed
    <2>. HIDE DEF listed
    <2>1. CASE /\ running' = [running EXCEPT ![r] = "report"] /\ next' = [next EXCEPT ![r] = 1]
               /\ UNCHANGED evaluated /\ listed \ evaluated[r] = {}
      BY <1>3, <1>4, <2>1 DEF Stages
    <2>2. ASSUME UNCHANGED <<running, next>>, NEW t \in listed,
                 evaluated' = [evaluated EXCEPT ![r] = @ \cup {t}]
          PROVE  /\ evaluated' \in [DailyRuns -> SUBSET Tickers]
                 /\ \A q \in DailyRuns \ {r} : UNCHANGED <<running[q], next[q], evaluated[q]>>
                 /\ running'[r] = "evaluations" /\ evaluated'[r] \subseteq listed
      BY <1>2, <1>3, <1>4, <2>2
    <2>. QED  BY <1>3, <1>5, <2>1, <2>2
  <1>7. DailyTypeOK'
    BY <1>1, <1>2, <1>6 DEF DailyTypeOK
  <1>8. listed' = listed /\ Operational(r)' = Operational(r)
        /\ \A t : Transitions(r, t)' = Transitions(r, t)
    BY <1>2 DEF Operational, Transitions
  <1>9. StageOK(r)'
    BY <1>1, <1>2, <1>6, <1>8 DEF StageOK
  <1>10. StoredRunOK(r)'
    BY <1>1, <1>2, <1>8 DEF StoredRunOK, Backed, ScreenBacked
  <1>11. PacksOK'
    BY <1>1, <1>2, PacksKeep
  <1>12. IsFiniteSet({q \in DailyRuns : universeRows[q] # 0})'
    BY <1>2 DEF DailyInv
  <1>. QED  BY <1>2, <1>6, <1>7, <1>9, <1>10, <1>11, <1>12, OneRunSteps

LEMMA ReportKeepsDaily ==
  ASSUME DailyInv, NEW r \in DailyRuns, AppendReport(r)
  PROVE  DailyInv'
  <1>1. DailyTypeOK /\ StageOK(r) /\ StoredRunOK(r) /\ PacksOK
    BY DEF DailyInv
  <1>2. /\ UNCHANGED <<input, universeRows, snapshotRows, trail, screenRows, pipelineRows, pipelineInput, newestScreen,
                       evaluated, syntheticRows, stopped, research, packs>>
        /\ running[r] = "report"
        /\ reportRows' = reportRows \cup {r}
        /\ running' = [running EXCEPT ![r] = "done"]
        /\ next' = [next EXCEPT ![r] = 1]
    BY DEF AppendReport, GoOn, Following, pipelineTables
  <1>3. running \in [DailyRuns -> Stages] /\ next \in [DailyRuns -> Nat]
    BY <1>1 DEF DailyTypeOK
  <1>4. /\ running' \in [DailyRuns -> Stages] /\ next' \in [DailyRuns -> Nat]
        /\ running'[r] = "done"
        /\ \A q \in DailyRuns \ {r} : UNCHANGED <<running[q], next[q]>>
    BY <1>2, <1>3 DEF Stages
  <1>5. DailyTypeOK'
    BY <1>1, <1>2, <1>4 DEF DailyTypeOK
  <1>6. StageOK(r)'
    BY <1>4 DEF StageOK
  <1>7. StoredRunOK(r)'
    <2>1. /\ screenRows[r] # 0
          /\ evaluated[r] = FirstOf(input[r].screened, ReportLimit)
      BY <1>1, <1>2 DEF StageOK
    <2>2. Backed(r)'
      BY <1>1, <1>2, <2>1 DEF StoredRunOK, Backed, ScreenBacked, Operational, Transitions
    <2>. QED  BY <1>2, <1>4, <2>1, <2>2 DEF StoredRunOK
  <1>8. PacksOK'
    BY <1>1, <1>2, PacksKeep
  <1>9. IsFiniteSet({q \in DailyRuns : universeRows[q] # 0})'
    BY <1>2 DEF DailyInv
  <1>. QED  BY <1>2, <1>4, <1>5, <1>6, <1>7, <1>8, <1>9, OneRunSteps

\* A row of the pipeline leaves the runs alone, and what is packed as it was.
LEMMA PipelineKeepsDaily ==
  ASSUME DailyInv,
         \/ \E o \in Observations : PutPipelineSnapshot(o)
         \/ \E p \in Pipelines : AppendPipelineScreen(p)
  PROVE  DailyInv'
  <1>1. DailyTypeOK /\ PacksOK
    BY DEF DailyInv
  <1>2. /\ UNCHANGED <<running, input, next, universeRows, trail, screenRows, evaluated, reportRows,
                       syntheticRows, stopped, research, packs>>
        /\ snapshotRows \subseteq snapshotRows'
    BY DEF PutPipelineSnapshot, AppendPipelineScreen, runTables
  <1>3. \A q \in DailyRuns : StageOK(q)' /\ StoredRunOK(q)'
    BY <1>2, OtherRunsKeep DEF DailyInv
  <1>4. IsFiniteSet({q \in DailyRuns : universeRows[q] # 0})'
    BY <1>2 DEF DailyInv
  <1>5. ASSUME NEW o \in Observations, PutPipelineSnapshot(o) PROVE DailyTypeOK' /\ PacksOK'
    <2>1. snapshotRows' \subseteq Observations /\ UNCHANGED <<pipelineRows, pipelineInput, newestScreen>>
      BY <1>1, <1>5 DEF PutPipelineSnapshot, pipelineTables, DailyTypeOK
    <2>. QED  BY <1>1, <1>2, <2>1, PacksKeep DEF DailyTypeOK
  <1>6. ASSUME NEW p \in Pipelines, AppendPipelineScreen(p) PROVE DailyTypeOK' /\ PacksOK'
    <2>1. PICK s \in Screens :
            /\ NamesOf(s) \subseteq {SymbolOf[o] : o \in snapshotRows}
            /\ pipelineInput' = [pipelineInput EXCEPT ![p] = s]
      BY <1>6 DEF AppendPipelineScreen
    <2>2. /\ p \notin pipelineRows /\ pipelineRows' = pipelineRows \cup {p} /\ newestScreen' = p
          /\ UNCHANGED snapshotRows
      BY <1>6 DEF AppendPipelineScreen
    <2>3. pipelineInput'[p] = s /\ \A other \in pipelineRows : pipelineInput'[other] = pipelineInput[other]
      BY <1>1, <2>1, <2>2 DEF DailyTypeOK
    <2>4. \A t \in NamesOf(pipelineInput'[p]) : Snapshotted(t)'
      BY <2>1, <2>2, <2>3 DEF Snapshotted
    <2>5. \A w : w = newestScreen' => Standing(w)'
      BY <2>2, DailyRunAssumption DEF Standing, Screeners
    <2>6. PacksOK'
      BY <1>1, <1>2, <2>2, <2>3, <2>4, <2>5, PacksKeep
    <2>7. DailyTypeOK'
      BY <1>1, <1>2, <2>1, <2>2 DEF DailyTypeOK, Screeners
    <2>. QED  BY <2>6, <2>7
  <1>. QED  BY <1>3, <1>4, <1>5, <1>6 DEF DailyInv

\* A call may pack the first candidates of the newest screen row: of each a
\* snapshot was stored before that row.
LEMMA NewestIsPackable ==
  ASSUME DailyInv, newestScreen # NoScreen, NEW limit \in ResearchLimits,
         NEW t \in FirstOf(ScreenedBy(newestScreen), limit)
  PROVE  Packable(newestScreen, t) /\ t \in Tickers
  <1>1. DailyTypeOK /\ PacksOK /\ Standing(newestScreen)
    BY DEF DailyInv, PacksOK
  <1>2. limit <= OperationalLimit /\ limit \in Nat /\ OperationalLimit \in Nat
    BY DailyRunAssumption
  <1>3. t \in NamesOf(ScreenedBy(newestScreen))
    BY DEF FirstOf, FirstPlaces, NamesOf
  <1>4. CASE newestScreen \in DailyRuns
    <2>1. input[newestScreen] \in DailyInputs /\ Backed(newestScreen)
      BY <1>1, <1>4 DEF DailyInv, DailyTypeOK, StoredRunOK, Standing
    <2>2. ScreenedBy(newestScreen) = input[newestScreen].screened
      BY <1>4 DEF ScreenedBy
    <2>3. PICK n \in Nat : input[newestScreen].screened \in [1..n -> Tickers]
      BY <2>1, ScreenFacts
    <2>4. t \in FirstOf(input[newestScreen].screened, OperationalLimit)
      BY <1>2, <2>2, <2>3 DEF FirstOf, FirstPlaces
    <2>5. t \in {SymbolOf[o] : o \in input[newestScreen].given} /\ t \in Tickers
      BY <2>1, <2>4, ScreenFacts
    <2>6. input[newestScreen].given \subseteq snapshotRows
      BY <2>1 DEF Backed, ScreenBacked
    <2>. QED  BY <1>1, <1>3, <2>5, <2>6 DEF Packable, Snapshotted
  <1>5. CASE newestScreen \notin DailyRuns
    <2>1. newestScreen \in pipelineRows /\ ScreenedBy(newestScreen) = pipelineInput[newestScreen]
      BY <1>1, <1>5 DEF Standing, ScreenedBy
    <2>2. Snapshotted(t)
      BY <1>1, <1>3, <2>1 DEF PacksOK
    <2>3. snapshotRows \subseteq Observations /\ SymbolOf \in [Observations -> Tickers]
      BY <1>1, DailyRunAssumption DEF DailyTypeOK
    <2>. QED  BY <1>1, <1>3, <2>2, <2>3 DEF Packable, Snapshotted
  <1>. QED  BY <1>4, <1>5

LEMMA ResearchKeepsDaily ==
  ASSUME DailyInv, (\E q \in Researches : ReadScreen(q) \/ AppendPack(q)) \/ UNCHANGED dailyVars
  PROVE  DailyInv'
  <1>. DEFINE Calls == [of : Screeners \cup {NoScreen}, left : SUBSET Tickers]
  <1>1. DailyTypeOK /\ PacksOK
    BY DEF DailyInv
  <1>2. UNCHANGED <<running, input, next, universeRows, snapshotRows, trail, screenRows,
                    pipelineRows, pipelineInput, newestScreen, evaluated, reportRows,
                    syntheticRows, stopped>>
    BY DEF ReadScreen, AppendPack, dailyVars, runTables, pipelineTables
  <1>3. \A q \in DailyRuns : StageOK(q)' /\ StoredRunOK(q)'
    BY <1>2, OtherRunsKeep DEF DailyInv
  <1>4. IsFiniteSet({q \in DailyRuns : universeRows[q] # 0})'
    BY <1>2 DEF DailyInv
  <1>5. /\ research \in [Researches -> Calls] /\ packs \subseteq Screeners \X Tickers
        /\ newestScreen \in Screeners \cup {NoScreen}
    BY <1>1 DEF DailyTypeOK
  <1>6. \A w, t : Packable(w, t) <=> Packable(w, t)'
    BY <1>2 DEF Packable, Standing, Snapshotted, ScreenedBy
  <1>7. \A w : Standing(w) <=> Standing(w)'
    BY <1>2 DEF Standing
  <1>8. \A t : Snapshotted(t) <=> Snapshotted(t)'
    BY <1>2 DEF Snapshotted
  <1>9. CASE UNCHANGED dailyVars
    <2>1. UNCHANGED <<research, packs>>
      BY <1>9 DEF dailyVars
    <2>. QED  BY <1>1, <1>2, <1>3, <1>4, <2>1, PacksKeep DEF DailyInv, DailyTypeOK
  <1>10. ASSUME NEW q \in Researches, NEW of, NEW left,
                research' = [research EXCEPT ![q] = [of |-> of, left |-> left]],
                [of |-> of, left |-> left] \in Calls,
                \A t \in left : Packable(of, t),
                packs' \subseteq Screeners \X Tickers, \A pack \in packs' : Packable(pack[1], pack[2])
         PROVE  DailyInv'
    <2>1. DailyTypeOK'
      BY <1>1, <1>2, <1>5, <1>10 DEF DailyTypeOK
    <2>2. ASSUME NEW other \in Researches, NEW t \in research'[other].left
          PROVE  Packable(research[other].of, t)'
      <3>1. PICK w : w = research'[other].of
        OBVIOUS
      <3>2. Packable(w, t)
        <4>1. CASE other = q
          BY <1>5, <1>10, <2>2, <3>1, <4>1
        <4>2. CASE other # q
          BY <1>1, <1>5, <1>10, <2>2, <3>1, <4>2 DEF PacksOK
        <4>. QED  BY <4>1, <4>2
      <3>3. Packable(w, t)'
        BY <1>6, <3>2
      <3>. QED  BY <3>1, <3>3 DEF Packable, Standing, ScreenedBy
    <2>3. ASSUME NEW pack \in packs' PROVE Packable(pack[1], pack[2])'
      BY <1>6, <1>10
    <2>4. PacksOK'
      <3>1. newestScreen' # NoScreen => Standing(newestScreen)'
        BY <1>1, <1>2, <1>7 DEF PacksOK, Standing
      <3>2. \A p \in pipelineRows' : \A t \in NamesOf(pipelineInput'[p]) : Snapshotted(t)'
        BY <1>1, <1>2, <1>8 DEF PacksOK
      <3>. QED  BY <2>2, <2>3, <3>1, <3>2 DEF PacksOK
    <2>. QED  BY <1>3, <1>4, <2>1, <2>4 DEF DailyInv
  <1>11. ASSUME NEW q \in Researches, ReadScreen(q) PROVE DailyInv'
    <2>1. PICK limit \in ResearchLimits :
            research' = [research EXCEPT ![q] =
                           [of |-> newestScreen, left |-> FirstOf(ScreenedBy(newestScreen), limit)]]
      BY <1>11 DEF ReadScreen
    <2>2. PICK left : left = FirstOf(ScreenedBy(newestScreen), limit)
      OBVIOUS
    <2>3. newestScreen # NoScreen /\ packs' = packs
      BY <1>11 DEF ReadScreen
    <2>4. \A t \in left : Packable(newestScreen, t) /\ t \in Tickers
      BY <2>2, <2>3, NewestIsPackable
    <2>5. PICK of : of = newestScreen
      OBVIOUS
    <2>6. [of |-> of, left |-> left] \in Calls
      BY <1>5, <2>4, <2>5
    <2>7. \A pack \in packs' : Packable(pack[1], pack[2])
      BY <1>1, <2>3 DEF PacksOK
    <2>8. research' = [research EXCEPT ![q] = [of |-> of, left |-> left]]
      BY <2>1, <2>2, <2>5
    <2>. QED  BY <1>5, <1>10, <2>3, <2>4, <2>5, <2>6, <2>7, <2>8
  <1>12. ASSUME NEW q \in Researches, AppendPack(q) PROVE DailyInv'
    <2>1. PICK t \in research[q].left :
            /\ packs' = packs \cup {<<research[q].of, t>>}
            /\ research' = [research EXCEPT ![q].left = @ \ {t}]
      BY <1>12 DEF AppendPack
    <2>2. PICK of, left : of = research[q].of /\ left = research[q].left \ {t}
      OBVIOUS
    <2>3. Packable(of, t) /\ t \in Tickers /\ of \in Screeners
      BY <1>1, <1>5, <2>1, <2>2 DEF PacksOK, Packable, Standing
    <2>4. research' = [research EXCEPT ![q] = [of |-> of, left |-> left]]
          /\ [of |-> of, left |-> left] \in Calls
      <3>. DEFINE call == research[q]
      <3>1. call \in Calls
        BY <1>5
      <3>2. research' = [research EXCEPT ![q] = [call EXCEPT !.left = left]]
        BY <1>5, <2>1, <2>2
      <3>3. [call EXCEPT !.left = left] = [of |-> of, left |-> left]
        BY <2>2, <3>1
      <3>4. of \in Screeners \cup {NoScreen} /\ left \subseteq Tickers
        BY <2>2, <3>1
      <3>. HIDE DEF call
      <3>. QED  BY <3>2, <3>3, <3>4
    <2>5. \A u \in left : Packable(of, u)
      BY <1>1, <2>2 DEF PacksOK
    <2>6. packs' \subseteq Screeners \X Tickers /\ \A pack \in packs' : Packable(pack[1], pack[2])
      BY <1>1, <1>5, <2>1, <2>2, <2>3 DEF PacksOK
    <2>. QED  BY <1>10, <2>4, <2>5, <2>6
  <1>. QED  BY <1>9, <1>11, <1>12

LEMMA DailyStep == DailyInv /\ [DailyNext]_dailyVars => DailyInv'
  BY StartKeepsDaily, EndedKeepsDaily, UniverseKeepsDaily, SnapshotsKeepDaily,
     TransitionKeepsDaily, ScreenKeepsDaily, EvaluationKeepsDaily, ReportKeepsDaily,
     PipelineKeepsDaily, ResearchKeepsDaily
  DEF DailyNext

LEMMA ServiceImplementsDaily == Spec => DailySpec
  <1>1. Init => DailyInit
    BY DEF Init
  <1>2. [Next]_vars => [DailyNext]_dailyVars
    BY DEF Next, vars
  <1>. QED  BY <1>1, <1>2, PTL DEF Spec, DailySpec

LEMMA DailyInvariant == Spec => []DailyInv
  <1>1. DailySpec => []DailyInv
    BY DailyInitial, DailyStep, PTL DEF DailySpec
  <1>. QED  BY <1>1, ServiceImplementsDaily, PTL

\* What run_daily reports rests on a screen row with everything the run stores
\* before it, and what research_latest packs on a stored screen row and a stored
\* snapshot, whether a run or a pipeline appended them: however they overlap and
\* wherever they stop.
THEOREM ReportsAreBacked == Spec => []ReportBacked
  BY DailyInvBacks, DailyInvariant, PTL

-----------------------------------------------------------------------------
(* The selection of candidates.                                            *)

LEMMA PlacesAreFinite ==
  ASSUME NEW n \in Nat
  PROVE  IsFiniteSet(1..n) /\ Cardinality(1..n) = n
  <1>. DEFINE one == 1
  <1>1. one \in Int /\ n \in Int
    OBVIOUS
  <1>. HIDE DEF one
  <1>2. IsFiniteSet(one..n) /\ Cardinality(one..n) = IF one > n THEN 0 ELSE n - one + 1
    BY <1>1, FS_Interval
  <1>3. (IF one > n THEN 0 ELSE n - one + 1) = n
    BY DEF one
  <1>. QED  BY <1>2, <1>3 DEF one

\* A strategy is at its position of either order, so positions tell them apart.
LEMMA StrategiesAreNumbered ==
  /\ IsFiniteSet(Strategies)
  /\ \A s \in Strategies :
       /\ Position(StrategyOrder, s) \in 1..11 /\ StrategyOrder[Position(StrategyOrder, s)] = s
       /\ Position(NameOrder, s) \in 1..11 /\ NameOrder[Position(NameOrder, s)] = s
  <1>1. ASSUME NEW s \in Strategies
        PROVE  Position(StrategyOrder, s) \in 1..11 /\ StrategyOrder[Position(StrategyOrder, s)] = s
    <2>1. \E i \in 1..11 : StrategyOrder[i] = s
      BY DEF Strategies
    <2>. QED  BY <2>1 DEF Position
  <1>2. ASSUME NEW s \in Strategies PROVE \E i \in 1..11 : NameOrder[i] = s
    <2>1. s \in {StrategyOrder[i] : i \in 1..11}
      BY DEF Strategies
    <2>2. PICK i \in 1..11 : s = StrategyOrder[i]
      BY <2>1
    <2>3. \/ i = 1 \/ i = 2 \/ i = 3 \/ i = 4 \/ i = 5 \/ i = 6 \/ i = 7 \/ i = 8 \/ i = 9
          \/ i = 10 \/ i = 11
      OBVIOUS
    <2>4. /\ StrategyOrder[1] = NameOrder[10] /\ StrategyOrder[2] = NameOrder[2]
          /\ StrategyOrder[3] = NameOrder[4] /\ StrategyOrder[4] = NameOrder[1]
          /\ StrategyOrder[5] = NameOrder[3] /\ StrategyOrder[6] = NameOrder[9]
          /\ StrategyOrder[7] = NameOrder[8] /\ StrategyOrder[8] = NameOrder[5]
          /\ StrategyOrder[9] = NameOrder[6] /\ StrategyOrder[10] = NameOrder[11]
          /\ StrategyOrder[11] = NameOrder[7]
      BY DEF StrategyOrder, NameOrder
    <2>5. /\ 1 \in 1..11 /\ 2 \in 1..11 /\ 3 \in 1..11 /\ 4 \in 1..11 /\ 5 \in 1..11
          /\ 6 \in 1..11 /\ 7 \in 1..11 /\ 8 \in 1..11 /\ 9 \in 1..11 /\ 10 \in 1..11
          /\ 11 \in 1..11
      OBVIOUS
    <2>. QED  BY <2>2, <2>3, <2>4, <2>5
  <1>3. ASSUME NEW s \in Strategies
        PROVE  Position(NameOrder, s) \in 1..11 /\ NameOrder[Position(NameOrder, s)] = s
    BY <1>2 DEF Position
  <1>4. IsFiniteSet(Strategies)
    <2>. DEFINE eleven == 11
                places == 1..eleven
                name == [i \in places |-> StrategyOrder[i]]
    <2>1. eleven \in Nat
      OBVIOUS
    <2>. HIDE DEF eleven
    <2>2. IsFiniteSet(places)
      BY <2>1, PlacesAreFinite
    <2>. HIDE DEF places
    <2>3. IsFiniteSet({name[i] : i \in places})
      <3>. DEFINE image == {name[i] : i \in places}
      <3>1. name \in Surjection(places, image)
        BY DEF Surjection
      <3>. QED  BY <2>2, <3>1, FS_Surjection
    <2>4. {name[i] : i \in places} = Strategies
      BY DEF Strategies, places, eleven
    <2>. QED  BY <2>3, <2>4
  <1>. QED  BY <1>1, <1>3, <1>4

LEMMA CandidateFacts ==
  ASSUME NEW item \in Snapshot, NEW s \in Strategies
  PROVE  /\ CandidateOf(item, s) \in CandidateRecord
         /\ CandidateOf(item, s).symbol = item.symbol
         /\ CandidateOf(item, s).strategy = s
  <1>1. item.score[s] \in Percent
    BY DEF Snapshot
  <1>. QED  BY <1>1 DEF CandidateOf, CandidateRecord, Snapshot

\* A company has one snapshot in the universe.
LEMMA UniverseHasOne ==
  ASSUME NEW n \in Nat, NEW items \in [1..n -> Snapshots]
  PROVE  /\ IsFiniteSet(Universe(items))
         /\ Universe(items) \subseteq Snapshot
         /\ \A a, b \in Universe(items) : a.symbol = b.symbol => a = b
  <1>. DEFINE admitted == {i \in DOMAIN items : ~items[i].excluded}
              newer(i, j) == items[i].observed > items[j].observed
                               \/ (items[i].observed = items[j].observed /\ i < j)
              chosen == {k \in admitted : \A j \in admitted \ {k} :
                           items[j].symbol = items[k].symbol => newer(k, j)}
  <1>1. Universe(items) = {items[i] : i \in chosen}
    BY DEF Universe
  <1>2. chosen \subseteq 1..n
    OBVIOUS
  <1>3. \A i \in 1..n : items[i] \in Snapshot /\ items[i].observed \in Nat
    <2>1. \A i \in 1..n : items[i] \in Snapshot
      BY SelectionAssumption
    <2>. QED  BY <2>1 DEF Snapshot
  <1>4. \A i, j \in chosen : items[i].symbol = items[j].symbol => i = j
    <2>. SUFFICES ASSUME NEW i \in chosen, NEW j \in chosen, items[i].symbol = items[j].symbol, i # j
                  PROVE  FALSE
      OBVIOUS
    <2>1. newer(i, j) /\ newer(j, i)
      OBVIOUS
    <2>. HIDE DEF chosen
    <2>. QED  BY <1>2, <1>3, <2>1
  <1>5. IsFiniteSet({items[i] : i \in chosen})
    <2>. HIDE DEF chosen
    <2>. DEFINE places == 1..n
                image == {items[i] : i \in places}
    <2>1. IsFiniteSet(places)
      BY PlacesAreFinite
    <2>2. items \in Surjection(places, image)
      BY DEF Surjection
    <2>. HIDE DEF places
    <2>3. IsFiniteSet(image)
      BY <2>1, <2>2, FS_Surjection
    <2>4. {items[i] : i \in chosen} \subseteq image
      BY <1>2 DEF places
    <2>. QED  BY <2>3, <2>4, FS_Subset
  <1>. HIDE DEF chosen
  <1>6. \A a, b \in {items[i] : i \in chosen} : a.symbol = b.symbol => a = b
    BY <1>4
  <1>7. {items[i] : i \in chosen} \subseteq Snapshot
    BY <1>2, <1>3
  <1>. QED  BY <1>1, <1>5, <1>6, <1>7

\* No company is a candidate of a strategy at two places.
DistinctCandidates(cs) ==
  \A i, j \in DOMAIN cs :
    (cs[i].symbol = cs[j].symbol /\ cs[i].strategy = cs[j].strategy) => i = j

LEMMA RecordFacts ==
  ASSUME NEW c \in CandidateRecord
  PROVE  /\ c.symbol \in Nat /\ c.strategy \in Strategies /\ c.score \in Int
         /\ c.confidence \in Int /\ c.completeness \in Int /\ c.observed \in Int
         /\ IsFiniteSet(c.missing) /\ Cardinality(c.missing) \in Nat
  <1>1. c.symbol \in Nat /\ c.strategy \in Strategies /\ c.observed \in Int
    BY DEF CandidateRecord
  <1>2. c.score \in Int /\ c.confidence \in Int /\ c.completeness \in Int
    BY DEF CandidateRecord, Percent
  <1>3. c.missing \subseteq RequiredFields
    BY DEF CandidateRecord
  <1>4. IsFiniteSet(RequiredFields)
    <2>1. IsFiniteSet({})
      BY FS_EmptySet
    <2>2. IsFiniteSet({} \cup {"revenue"})
      BY <2>1, FS_AddElement
    <2>3. IsFiniteSet({"revenue"} \cup {"eps"})
      BY <2>2, FS_AddElement
    <2>4. IsFiniteSet({"revenue", "eps"} \cup {"roic"})
      BY <2>3, FS_AddElement
    <2>5. IsFiniteSet({"revenue", "eps", "roic"} \cup {"debt"})
      BY <2>4, FS_AddElement
    <2>6. IsFiniteSet({"revenue", "eps", "roic", "debt"} \cup {"fcf"})
      BY <2>5, FS_AddElement
    <2>7. IsFiniteSet({"revenue", "eps", "roic", "debt", "fcf"} \cup {"strength"})
      BY <2>6, FS_AddElement
    <2>8. IsFiniteSet({"revenue", "eps", "roic", "debt", "fcf", "strength"} \cup {"revision"})
      BY <2>7, FS_AddElement
    <2>9. RequiredFields
            = ({"revenue", "eps", "roic", "debt", "fcf", "strength"} \cup {"revision"})
      BY DEF RequiredFields
    <2>. QED  BY <2>8, <2>9
  <1>5. IsFiniteSet(c.missing)
    BY <1>3, <1>4, FS_Subset
  <1>. QED  BY <1>1, <1>2, <1>5, FS_CardinalityType

\* Score, symbol and strategy order the candidates of a universe.
LEMMA BetterIsTotal ==
  ASSUME NEW S, S \subseteq CandidateRecord,
         \A a, b \in S : (a.symbol = b.symbol /\ a.strategy = b.strategy) => a = b
  PROVE  Total(S, {p \in S \X S : Better(p[1], p[2])})
  <1>. DEFINE prior == {p \in S \X S : Better(p[1], p[2])}
              P(c) == Position(StrategyOrder, c.strategy)
  <1>1. \A c \in S : c.score \in Int /\ c.symbol \in Int /\ P(c) \in Int
    <2>. SUFFICES ASSUME NEW c \in S PROVE c.score \in Int /\ c.symbol \in Int /\ P(c) \in Int
      OBVIOUS
    <2>1. c.score \in Int /\ c.symbol \in Nat /\ c.strategy \in Strategies
      BY RecordFacts
    <2>2. P(c) \in 1..11
      BY <2>1, StrategiesAreNumbered
    <2>. QED  BY <2>1, <2>2
  <1>2. \A a, b \in S : a.symbol = b.symbol /\ P(a) = P(b) => a = b
    <2>. SUFFICES ASSUME NEW a \in S, NEW b \in S, a.symbol = b.symbol, P(a) = P(b) PROVE a = b
      OBVIOUS
    <2>1. a.strategy \in Strategies /\ b.strategy \in Strategies
      BY RecordFacts
    <2>2. StrategyOrder[P(a)] = a.strategy /\ StrategyOrder[P(b)] = b.strategy
      BY <2>1, StrategiesAreNumbered
    <2>. HIDE DEF P
    <2>. QED  BY <2>2
  <1>3. \A a, b \in S : <<a, b>> \in prior <=>
          \/ a.score > b.score
          \/ a.score = b.score /\ a.symbol < b.symbol
          \/ a.score = b.score /\ a.symbol = b.symbol /\ P(a) < P(b)
    BY DEF Better
  <1>. HIDE DEF prior, P
  <1>4. \A a \in S : <<a, a>> \notin prior
    BY <1>1, <1>3
  <1>5. \A a, b \in S : a = b \/ <<a, b>> \in prior \/ <<b, a>> \in prior
    <2>. SUFFICES ASSUME NEW a \in S, NEW b \in S, a # b
                  PROVE  <<a, b>> \in prior \/ <<b, a>> \in prior
      OBVIOUS
    <2>1. /\ a.score \in Int /\ a.symbol \in Int /\ P(a) \in Int
          /\ b.score \in Int /\ b.symbol \in Int /\ P(b) \in Int
      BY <1>1
    <2>2. a.symbol # b.symbol \/ P(a) # P(b)
      BY <1>2
    <2>3. \/ a.score > b.score
          \/ a.score = b.score /\ a.symbol < b.symbol
          \/ a.score = b.score /\ a.symbol = b.symbol /\ P(a) < P(b)
          \/ b.score > a.score
          \/ b.score = a.score /\ b.symbol < a.symbol
          \/ b.score = a.score /\ b.symbol = a.symbol /\ P(b) < P(a)
      BY <2>1, <2>2
    <2>. QED  BY <1>3, <2>3
  <1>6. \A a, b, c \in S : <<a, b>> \in prior /\ <<b, c>> \in prior => <<a, c>> \in prior
    <2>. SUFFICES ASSUME NEW a \in S, NEW b \in S, NEW c \in S,
                         <<a, b>> \in prior, <<b, c>> \in prior
                  PROVE  <<a, c>> \in prior
      OBVIOUS
    <2>1. /\ a.score \in Int /\ a.symbol \in Int /\ P(a) \in Int
          /\ b.score \in Int /\ b.symbol \in Int /\ P(b) \in Int
          /\ c.score \in Int /\ c.symbol \in Int /\ P(c) \in Int
      BY <1>1
    <2>2. /\ \/ a.score > b.score
             \/ a.score = b.score /\ a.symbol < b.symbol
             \/ a.score = b.score /\ a.symbol = b.symbol /\ P(a) < P(b)
          /\ \/ b.score > c.score
             \/ b.score = c.score /\ b.symbol < c.symbol
             \/ b.score = c.score /\ b.symbol = c.symbol /\ P(b) < P(c)
      BY <1>3
    <2>3. \/ a.score > c.score
          \/ a.score = c.score /\ a.symbol < c.symbol
          \/ a.score = c.score /\ a.symbol = c.symbol /\ P(a) < P(c)
      BY <2>1, <2>2
    <2>. QED  BY <1>3, <2>3
  <1>. QED  BY <1>4, <1>5, <1>6 DEF Total, prior

LEMMA ScreensGiveCandidates ==
  ASSUME NEW U, IsFiniteSet(U), U \subseteq Snapshot,
         \A a, b \in U : a.symbol = b.symbol => a = b
  PROVE  /\ RunCoreScreens(U) \in Seq(CandidateRecord)
         /\ DistinctCandidates(RunCoreScreens(U))
  <1>. DEFINE found == UNION {CandidatesOf(item) : item \in U}
              prior == {p \in found \X found : Better(p[1], p[2])}
  <1>1. ASSUME NEW c \in found
        PROVE  \E item \in U : \E s \in Strategies : c = CandidateOf(item, s)
    BY DEF CandidatesOf
  <1>2. IsFiniteSet(found)
    <2>. DEFINE pairs == U \X Strategies
                image == {CandidateOf(p[1], p[2]) : p \in pairs}
                make == [p \in pairs |-> CandidateOf(p[1], p[2])]
    <2>1. IsFiniteSet(pairs)
      BY StrategiesAreNumbered, FS_Product
    <2>2. make \in Surjection(pairs, image)
      <3>. HIDE DEF pairs
      <3>. QED  BY DEF Surjection
    <2>3. IsFiniteSet(image)
      <3>. HIDE DEF pairs, image, make
      <3>. QED  BY <2>1, <2>2, FS_Surjection
    <2>4. found \subseteq image
      <3>. SUFFICES ASSUME NEW c \in found PROVE c \in image
        OBVIOUS
      <3>1. PICK item \in U, s \in Strategies : c = CandidateOf(item, s)
        BY <1>1
      <3>2. <<item, s>> \in pairs
        OBVIOUS
      <3>. HIDE DEF pairs, found
      <3>. QED  BY <3>1, <3>2
    <2>. HIDE DEF found, image
    <2>. QED  BY <2>3, <2>4, FS_Subset
  <1>3. found \subseteq CandidateRecord
    <2>. SUFFICES ASSUME NEW c \in found PROVE c \in CandidateRecord
      OBVIOUS
    <2>1. PICK item \in U, s \in Strategies : c = CandidateOf(item, s)
      BY <1>1
    <2>. HIDE DEF found
    <2>. QED  BY <2>1, CandidateFacts
  <1>4. \A a, b \in found : (a.symbol = b.symbol /\ a.strategy = b.strategy) => a = b
    <2>. SUFFICES ASSUME NEW a \in found, NEW b \in found,
                         a.symbol = b.symbol, a.strategy = b.strategy
                  PROVE  a = b
      OBVIOUS
    <2>1. PICK item \in U, s \in Strategies : a = CandidateOf(item, s)
      BY <1>1
    <2>2. PICK other \in U, t \in Strategies : b = CandidateOf(other, t)
      BY <1>1
    <2>. HIDE DEF found
    <2>3. item.symbol = other.symbol /\ s = t
      BY <2>1, <2>2, CandidateFacts
    <2>. QED  BY <2>1, <2>2, <2>3
  <1>5. RunCoreScreens(U) = InOrder(found, prior)
    BY DEF RunCoreScreens
  <1>. HIDE DEF found
  <1>6. Total(found, prior)
    BY <1>3, <1>4, BetterIsTotal
  <1>. HIDE DEF prior
  <1>7. /\ InOrder(found, prior) \in Seq(found)
        /\ Len(InOrder(found, prior)) = Cardinality(found)
        /\ \A i, j \in 1..Cardinality(found) :
             InOrder(found, prior)[i] = InOrder(found, prior)[j] => i = j
    BY <1>2, <1>6, InOrderLists
  <1>. DEFINE order == InOrder(found, prior)
  <1>. HIDE DEF order
  <1>8. order \in Seq(found) /\ \A i, j \in 1..Len(order) : order[i] = order[j] => i = j
    BY <1>7 DEF order
  <1>9. DOMAIN order = 1..Len(order) /\ \A i \in 1..Len(order) : order[i] \in found
    BY <1>8
  <1>10. order \in Seq(CandidateRecord)
    BY <1>3, <1>8
  <1>11. DistinctCandidates(order)
    BY <1>4, <1>8, <1>9 DEF DistinctCandidates
  <1>. QED  BY <1>5, <1>10, <1>11 DEF order

LEMMA PenaltyIsNumber ==
  ASSUME NEW c \in CandidateRecord
  PROVE  Adjusted(c) \in Int
  <1>. DEFINE gone == 100 - c.confidence
              open == 100 - c.completeness
              fields == Cardinality(c.missing)
              age == CurrentHour - c.observed
  <1>1. gone \in Int /\ open \in Int /\ fields \in Int /\ age \in Int /\ c.score \in Int
    BY RecordFacts, SelectionAssumption
  <1>2. Penalty(c) = gone \div 5 + open \div 5 + (IF fields < 5 THEN 5 * fields ELSE 25)
                       + (IF age > 24 THEN 15 ELSE 0)
    BY DEF Penalty
  <1>. HIDE DEF gone, open, fields, age
  <1>3. gone \div 5 \in Int /\ open \div 5 \in Int
    BY <1>1
  <1>4. Penalty(c) \in Int
    BY <1>1, <1>2, <1>3
  <1>. QED  BY <1>1, <1>4 DEF Adjusted

\* Of two candidates of a company which one is kept, wherever they stand.
Outranks(a, b) ==
  \/ Adjusted(a) > Adjusted(b)
  \/ /\ Adjusted(a) = Adjusted(b)
     /\ \/ a.score > b.score
        \/ /\ a.score = b.score
           /\ Position(NameOrder, a.strategy) < Position(NameOrder, b.strategy)

\* The candidates that are kept: of each company one of the live ones.
KeptOf(all) ==
  {a \in all : a.live /\ \A b \in all \ {a} : b.live /\ a.symbol = b.symbol => Outranks(a, b)}

LEMMA OutranksOnce ==
  ASSUME NEW a \in CandidateRecord, NEW b \in CandidateRecord, Outranks(a, b), Outranks(b, a)
  PROVE  FALSE
  <1>1. /\ Adjusted(a) \in Int /\ Adjusted(b) \in Int
        /\ a.score \in Int /\ b.score \in Int
        /\ a.strategy \in Strategies /\ b.strategy \in Strategies
    BY PenaltyIsNumber, RecordFacts
  <1>2. Position(NameOrder, a.strategy) \in Int /\ Position(NameOrder, b.strategy) \in Int
    <2>1. Position(NameOrder, a.strategy) \in 1..11 /\ Position(NameOrder, b.strategy) \in 1..11
      BY <1>1, StrategiesAreNumbered
    <2>. QED  BY <2>1
  <1>. QED  BY <1>1, <1>2 DEF Outranks

\* With distinct candidates the place of one is never asked for.
LEMMA PlacesDoNotMatter ==
  ASSUME NEW cs \in Seq(CandidateRecord), DistinctCandidates(cs),
         NEW i \in DOMAIN cs, NEW j \in DOMAIN cs, i # j, cs[i].symbol = cs[j].symbol
  PROVE  Stronger(cs, i, j) <=> Outranks(cs[i], cs[j])
  <1>. DEFINE N(k) == Position(NameOrder, cs[k].strategy)
  <1>0. cs[i] \in CandidateRecord /\ cs[j] \in CandidateRecord
    OBVIOUS
  <1>1. cs[i].strategy # cs[j].strategy
    BY DEF DistinctCandidates
  <1>2. cs[i].strategy \in Strategies /\ cs[j].strategy \in Strategies
    BY <1>0, RecordFacts
  <1>3. NameOrder[N(i)] = cs[i].strategy /\ NameOrder[N(j)] = cs[j].strategy
    BY <1>2, StrategiesAreNumbered
  <1>4. N(i) # N(j)
    <2>. HIDE DEF N
    <2>. QED  BY <1>1, <1>3
  <1>5. Stronger(cs, i, j) <=>
          \/ Adjusted(cs[i]) > Adjusted(cs[j])
          \/ /\ Adjusted(cs[i]) = Adjusted(cs[j])
             /\ \/ cs[i].score > cs[j].score
                \/ cs[i].score = cs[j].score /\ N(i) < N(j)
                \/ cs[i].score = cs[j].score /\ N(i) = N(j) /\ i < j
    BY DEF Stronger
  <1>. QED  BY <1>4, <1>5 DEF Outranks

\* So what is kept, and its order, is a matter of the set of candidates alone.
LEMMA RankingOfSet ==
  ASSUME NEW cs \in Seq(CandidateRecord), DistinctCandidates(cs)
  PROVE  LET one == KeptOf({cs[i] : i \in DOMAIN cs})
             ordered == InOrder(one, {p \in one \X one : Ahead(p[1], p[2])})
         IN  RankTop10(cs)
               = SubSeq(ordered, 1, IF Len(ordered) < RankLimit THEN Len(ordered) ELSE RankLimit)
  <1>. DEFINE all == {cs[i] : i \in DOMAIN cs}
              live == {i \in DOMAIN cs : cs[i].live}
              kept == {i \in live : \A j \in live \ {i} :
                         cs[i].symbol = cs[j].symbol => Stronger(cs, i, j)}
              one == {cs[i] : i \in kept}
  <1>1. \A i, j \in DOMAIN cs : cs[i] = cs[j] => i = j
    BY DEF DistinctCandidates
  <1>2. \A i, j \in DOMAIN cs : i # j /\ cs[i].symbol = cs[j].symbol
          => (Stronger(cs, i, j) <=> Outranks(cs[i], cs[j]))
    BY PlacesDoNotMatter
  <1>3. ASSUME NEW i \in DOMAIN cs PROVE i \in kept <=> cs[i] \in KeptOf(all)
    <2>1. i \in kept <=> cs[i].live /\ \A j \in DOMAIN cs \ {i} :
            cs[j].live /\ cs[i].symbol = cs[j].symbol => Outranks(cs[i], cs[j])
      BY <1>2
    <2>2. cs[i] \in KeptOf(all) <=> cs[i].live /\ \A b \in all \ {cs[i]} :
            b.live /\ cs[i].symbol = b.symbol => Outranks(cs[i], b)
      BY DEF KeptOf
    <2>3. (\A b \in all \ {cs[i]} : b.live /\ cs[i].symbol = b.symbol => Outranks(cs[i], b))
            <=> (\A j \in DOMAIN cs \ {i} :
                   cs[j].live /\ cs[i].symbol = cs[j].symbol => Outranks(cs[i], cs[j]))
      BY <1>1
    <2>. QED  BY <2>1, <2>2, <2>3
  <1>4. one = KeptOf(all)
    <2>1. KeptOf(all) \subseteq all
      BY DEF KeptOf
    <2>2. kept \subseteq DOMAIN cs
      OBVIOUS
    <2>. HIDE DEF kept
    <2>. QED  BY <1>3, <2>1, <2>2
  <1>. QED  BY <1>4 DEF RankTop10

LEMMA AheadIsTotal ==
  ASSUME NEW S, S \subseteq CandidateRecord, \A a, b \in S : a.symbol = b.symbol => a = b
  PROVE  Total(S, {p \in S \X S : Ahead(p[1], p[2])})
  <1>. DEFINE prior == {p \in S \X S : Ahead(p[1], p[2])}
  <1>1. \A c \in S : c.score \in Int /\ c.symbol \in Int /\ Adjusted(c) \in Int
    <2>. SUFFICES ASSUME NEW c \in S PROVE c.score \in Int /\ c.symbol \in Int /\ Adjusted(c) \in Int
      OBVIOUS
    <2>1. c.score \in Int /\ c.symbol \in Nat /\ Adjusted(c) \in Int
      BY RecordFacts, PenaltyIsNumber
    <2>. QED  BY <2>1
  <1>3. \A a, b \in S : <<a, b>> \in prior <=>
          \/ Adjusted(a) > Adjusted(b)
          \/ Adjusted(a) = Adjusted(b) /\ a.score > b.score
          \/ Adjusted(a) = Adjusted(b) /\ a.score = b.score /\ a.symbol < b.symbol
    BY DEF Ahead
  <1>. HIDE DEF prior
  <1>4. \A a \in S : <<a, a>> \notin prior
    BY <1>1, <1>3
  <1>5. \A a, b \in S : a = b \/ <<a, b>> \in prior \/ <<b, a>> \in prior
    <2>. SUFFICES ASSUME NEW a \in S, NEW b \in S, a # b
                  PROVE  <<a, b>> \in prior \/ <<b, a>> \in prior
      OBVIOUS
    <2>1. /\ a.score \in Int /\ a.symbol \in Int /\ Adjusted(a) \in Int
          /\ b.score \in Int /\ b.symbol \in Int /\ Adjusted(b) \in Int
          /\ a.symbol # b.symbol
      BY <1>1
    <2>2. \/ Adjusted(a) > Adjusted(b)
          \/ Adjusted(a) = Adjusted(b) /\ a.score > b.score
          \/ Adjusted(a) = Adjusted(b) /\ a.score = b.score /\ a.symbol < b.symbol
          \/ Adjusted(b) > Adjusted(a)
          \/ Adjusted(b) = Adjusted(a) /\ b.score > a.score
          \/ Adjusted(b) = Adjusted(a) /\ b.score = a.score /\ b.symbol < a.symbol
      BY <2>1
    <2>. QED  BY <1>3, <2>2
  <1>6. \A a, b, c \in S : <<a, b>> \in prior /\ <<b, c>> \in prior => <<a, c>> \in prior
    <2>. SUFFICES ASSUME NEW a \in S, NEW b \in S, NEW c \in S,
                         <<a, b>> \in prior, <<b, c>> \in prior
                  PROVE  <<a, c>> \in prior
      OBVIOUS
    <2>1. /\ a.score \in Int /\ a.symbol \in Int /\ Adjusted(a) \in Int
          /\ b.score \in Int /\ b.symbol \in Int /\ Adjusted(b) \in Int
          /\ c.score \in Int /\ c.symbol \in Int /\ Adjusted(c) \in Int
      BY <1>1
    <2>2. /\ \/ Adjusted(a) > Adjusted(b)
             \/ Adjusted(a) = Adjusted(b) /\ a.score > b.score
             \/ Adjusted(a) = Adjusted(b) /\ a.score = b.score /\ a.symbol < b.symbol
          /\ \/ Adjusted(b) > Adjusted(c)
             \/ Adjusted(b) = Adjusted(c) /\ b.score > c.score
             \/ Adjusted(b) = Adjusted(c) /\ b.score = c.score /\ b.symbol < c.symbol
      BY <1>3
    <2>3. \/ Adjusted(a) > Adjusted(c)
          \/ Adjusted(a) = Adjusted(c) /\ a.score > c.score
          \/ Adjusted(a) = Adjusted(c) /\ a.score = c.score /\ a.symbol < c.symbol
      BY <2>1, <2>2
    <2>. QED  BY <1>3, <2>3
  <1>. QED  BY <1>4, <1>5, <1>6 DEF Total, prior

LEMMA RankingIsSequence ==
  ASSUME NEW cs \in Seq(CandidateRecord), DistinctCandidates(cs)
  PROVE  RankTop10(cs) \in Seq(CandidateRecord)
  <1>. DEFINE all == {cs[i] : i \in DOMAIN cs}
              one == KeptOf(all)
              prior == {p \in one \X one : Ahead(p[1], p[2])}
              ordered == InOrder(one, prior)
              last == IF Len(ordered) < RankLimit THEN Len(ordered) ELSE RankLimit
  <1>1. RankTop10(cs) = SubSeq(ordered, 1, last)
    BY RankingOfSet
  <1>2. all \subseteq CandidateRecord /\ one \subseteq all
    BY DEF KeptOf
  <1>3. IsFiniteSet(one)
    <2>. DEFINE places == DOMAIN cs
    <2>1. IsFiniteSet(places)
      <3>. DEFINE n == Len(cs)
      <3>1. n \in Nat /\ DOMAIN cs = 1..n
        OBVIOUS
      <3>. HIDE DEF n
      <3>. QED  BY <3>1, PlacesAreFinite
    <2>2. cs \in Surjection(places, all)
      BY DEF Surjection
    <2>. HIDE DEF places, all
    <2>3. IsFiniteSet(all)
      BY <2>1, <2>2, FS_Surjection
    <2>. QED  BY <1>2, <2>3, FS_Subset
  <1>4. \A a, b \in one : a.symbol = b.symbol => a = b
    <2>. SUFFICES ASSUME NEW a \in one, NEW b \in one, a.symbol = b.symbol, a # b PROVE FALSE
      OBVIOUS
    <2>1. Outranks(a, b) /\ Outranks(b, a)
      BY DEF KeptOf
    <2>2. a \in CandidateRecord /\ b \in CandidateRecord
      BY <1>2
    <2>. QED  BY <2>1, <2>2, OutranksOnce
  <1>. HIDE DEF one, all
  <1>5. Total(one, prior)
    BY <1>2, <1>4, AheadIsTotal
  <1>. HIDE DEF prior
  <1>6. ordered \in Seq(one)
    BY <1>3, <1>5, InOrderLists
  <1>. HIDE DEF ordered
  <1>7. Len(ordered) \in Nat /\ \A i \in 1..Len(ordered) : ordered[i] \in CandidateRecord
    BY <1>2, <1>6
  <1>8. last \in Nat /\ last <= Len(ordered)
    BY <1>7, SelectionAssumption
  <1>. HIDE DEF last
  <1>9. \A i \in 1..last : ordered[i] \in CandidateRecord
    BY <1>7, <1>8
  <1>10. SubSeq(ordered, 1, last) \in Seq(CandidateRecord)
    BY <1>8, <1>9
  <1>. QED  BY <1>1, <1>10

\* Candidates in another order are the same set, none twice.
LEMMA RankingIsCanonical ==
  ASSUME NEW cs \in Seq(CandidateRecord), DistinctCandidates(cs), NEW p \in Orders(Len(cs))
  PROVE  RankTop10([i \in DOMAIN cs |-> cs[p[i]]]) = RankTop10(cs)
  <1>. DEFINE n == Len(cs)
              places == 1..n
              other == [i \in DOMAIN cs |-> cs[p[i]]]
  <1>1. n \in Nat /\ DOMAIN cs = places /\ \A i \in places : cs[i] \in CandidateRecord
    OBVIOUS
  <1>2. p \in [places -> places] /\ \A i, j \in places : p[i] = p[j] => i = j
    BY DEF Orders
  <1>3. IsFiniteSet(places)
    <2>. HIDE DEF n
    <2>. QED  BY <1>1, PlacesAreFinite
  <1>4. \A k \in places : \E i \in places : p[i] = k
    <2>. HIDE DEF places
    <2>1. p \in Injection(places, places)
      BY <1>2 DEF Injection, IsInjective
    <2>2. p \in Surjection(places, places)
      BY <1>3, <2>1, FS_Injection
    <2>. QED  BY <2>2 DEF Surjection
  <1>5. other = [i \in places |-> cs[p[i]]]
    BY <1>1
  <1>. HIDE DEF other
  <1>6. other \in [places -> CandidateRecord]
    <2>. HIDE DEF places
    <2>. QED  BY <1>1, <1>2, <1>5
  <1>7. other \in Seq(CandidateRecord) /\ DOMAIN other = places
    BY <1>1, <1>6
  <1>8. DistinctCandidates(other)
    <2>. HIDE DEF places
    <2>. SUFFICES ASSUME NEW i \in places, NEW j \in places,
                         other[i].symbol = other[j].symbol, other[i].strategy = other[j].strategy
                  PROVE  i = j
      BY <1>7 DEF DistinctCandidates
    <2>1. other[i] = cs[p[i]] /\ other[j] = cs[p[j]] /\ p[i] \in places /\ p[j] \in places
      BY <1>2, <1>5
    <2>2. p[i] = p[j]
      BY <1>1, <2>1 DEF DistinctCandidates
    <2>. QED  BY <1>2, <2>2
  <1>9. {other[i] : i \in DOMAIN other} = {cs[i] : i \in DOMAIN cs}
    <2>. HIDE DEF places
    <2>1. ASSUME NEW i \in places PROVE other[i] \in {cs[k] : k \in places}
      BY <1>2, <1>5
    <2>2. ASSUME NEW k \in places PROVE cs[k] \in {other[i] : i \in places}
      <3>1. PICK i \in places : p[i] = k
        BY <1>4
      <3>. QED  BY <1>5, <3>1
    <2>. QED  BY <1>1, <1>7, <2>1, <2>2
  <1>10. RankTop10(other) = RankTop10(cs)
    BY <1>7, <1>8, <1>9, RankingOfSet
  <1>. QED  BY <1>10 DEF other

\* What the gates say of a candidate; none is open once there is a package.
LEMMA GatesSay ==
  ASSUME NEW c, NEW v \in BOOLEAN, NEW fields
  PROVE  /\ Gated(c, v, fields) \in Verdicts
         /\ Gated(c, v, fields) = "valuation_pending" <=> AfterValuation(c, v) = "valuation_pending"
         /\ fields \in 0..14 => /\ Gated(c, v, fields) # "screened"
                                /\ Gated(c, v, fields) # "research_pending"
  <1>1. AfterValuation(c, v) \in {"rejected", "valuation_pending", "screened"}
    BY DEF AfterValuation
  <1>. QED  BY <1>1 DEF Gated, Kept, Verdicts

LEMMA VerdictsOfTop ==
  ASSUME NEW top, NEW value, NEW fields
  PROVE  /\ DOMAIN EvaluateTop3(top, value, fields) = DOMAIN top
         /\ \A i \in DOMAIN top :
              LET verdict == EvaluateTop3(top, value, fields)[i]
                  gated == Gated(top[i], top[i].symbol \in value, fields[top[i].symbol])
              IN  /\ verdict \in Verdicts
                  /\ gated # "screened" => verdict = gated
                  /\ verdict = "valuation_pending" <=> gated = "valuation_pending"
  <1>. DEFINE gated(i) == Gated(top[i], top[i].symbol \in value, fields[top[i].symbol])
              open == {i \in DOMAIN top : gated(i) = "screened"}
              count(i) == Cardinality({j \in open : j <= i})
              verdicts3 == EvaluateTop3(top, value, fields)
  <1>1. verdicts3 = [i \in DOMAIN top |->
          CASE i \in open /\ count(i) <= TopLimit -> "top3_selected"
            [] i \in open /\ count(i) > TopLimit -> "top3_eligible"
            [] OTHER -> gated(i)]
    BY DEF EvaluateTop3
  <1>2. ASSUME NEW i PROVE gated(i) \in Verdicts
    <2>. DEFINE v == top[i].symbol \in value
    <2>1. v \in BOOLEAN
      OBVIOUS
    <2>. HIDE DEF v
    <2>2. Gated(top[i], v, fields[top[i].symbol]) \in Verdicts
      BY <2>1, GatesSay
    <2>. QED  BY <2>2 DEF v
  <1>3. \A i \in DOMAIN top : i \in open <=> gated(i) = "screened"
    OBVIOUS
  <1>. HIDE DEF gated, open, count, verdicts3
  <1>4. DOMAIN verdicts3 = DOMAIN top
    BY <1>1
  <1>5. ASSUME NEW i \in DOMAIN top
        PROVE  /\ verdicts3[i] \in Verdicts
               /\ gated(i) # "screened" => verdicts3[i] = gated(i)
               /\ verdicts3[i] = "valuation_pending" <=> gated(i) = "valuation_pending"
    <2>1. verdicts3[i] = CASE i \in open /\ count(i) <= TopLimit -> "top3_selected"
                           [] i \in open /\ count(i) > TopLimit -> "top3_eligible"
                           [] OTHER -> gated(i)
      BY <1>1
    <2>2. CASE i \notin open
      BY <1>2, <1>3, <2>1, <2>2
    <2>3. CASE i \in open
      <3>1. gated(i) = "screened"
        BY <1>3, <2>3
      <3>2. verdicts3[i] \in {"top3_selected", "top3_eligible", "screened"}
        BY <2>1, <3>1
      <3>. QED  BY <3>1, <3>2 DEF Verdicts
    <2>. QED  BY <2>2, <2>3
  <1>. QED  BY <1>4, <1>5 DEF gated, verdicts3

\* The report lists the same candidates.
LEMMA ReportLists ==
  ASSUME NEW top \in Seq(CandidateRecord)
  PROVE  /\ ReportOrder(top) \in Seq(CandidateRecord)
         /\ DOMAIN ReportOrder(top) = DOMAIN top
  <1>. DEFINE n == Len(top)
              places == DOMAIN top
              prior == {p \in places \X places : Sooner(top, p[1], p[2])}
              order == InOrder(places, prior)
  <1>1. n \in Nat /\ places = 1..n
    OBVIOUS
  <1>2. IsFiniteSet(places) /\ Cardinality(places) = n
    <2>. HIDE DEF n, places
    <2>. QED  BY <1>1, PlacesAreFinite
  <1>3. \A i \in places : i \in Int /\ top[i].score \in Int /\ top[i].symbol \in Int
    <2>. SUFFICES ASSUME NEW i \in places
                  PROVE  i \in Int /\ top[i].score \in Int /\ top[i].symbol \in Int
      OBVIOUS
    <2>1. top[i] \in CandidateRecord /\ i \in 1..n
      BY <1>1
    <2>2. top[i].score \in Int /\ top[i].symbol \in Nat
      BY <2>1, RecordFacts
    <2>. QED  BY <1>1, <2>1, <2>2
  <1>4. \A i, j \in places : <<i, j>> \in prior <=>
          \/ top[i].score > top[j].score
          \/ top[i].score = top[j].score /\ top[i].symbol < top[j].symbol
          \/ top[i].score = top[j].score /\ top[i].symbol = top[j].symbol /\ i < j
    BY DEF Sooner
  <1>. HIDE DEF prior, places, n
  <1>5. Total(places, prior)
    <2>1. \A i \in places : <<i, i>> \notin prior
      BY <1>3, <1>4
    <2>2. \A i, j \in places : i = j \/ <<i, j>> \in prior \/ <<j, i>> \in prior
      <3>. SUFFICES ASSUME NEW i \in places, NEW j \in places, i # j
                    PROVE  <<i, j>> \in prior \/ <<j, i>> \in prior
        OBVIOUS
      <3>1. /\ i \in Int /\ top[i].score \in Int /\ top[i].symbol \in Int
            /\ j \in Int /\ top[j].score \in Int /\ top[j].symbol \in Int
        BY <1>3
      <3>2. \/ top[i].score > top[j].score
            \/ top[i].score = top[j].score /\ top[i].symbol < top[j].symbol
            \/ top[i].score = top[j].score /\ top[i].symbol = top[j].symbol /\ i < j
            \/ top[j].score > top[i].score
            \/ top[j].score = top[i].score /\ top[j].symbol < top[i].symbol
            \/ top[j].score = top[i].score /\ top[j].symbol = top[i].symbol /\ j < i
        BY <3>1
      <3>. QED  BY <1>4, <3>2
    <2>3. \A i, j, k \in places : <<i, j>> \in prior /\ <<j, k>> \in prior => <<i, k>> \in prior
      <3>. SUFFICES ASSUME NEW i \in places, NEW j \in places, NEW k \in places,
                           <<i, j>> \in prior, <<j, k>> \in prior
                    PROVE  <<i, k>> \in prior
        OBVIOUS
      <3>1. /\ i \in Int /\ top[i].score \in Int /\ top[i].symbol \in Int
            /\ j \in Int /\ top[j].score \in Int /\ top[j].symbol \in Int
            /\ k \in Int /\ top[k].score \in Int /\ top[k].symbol \in Int
        BY <1>3
      <3>2. /\ \/ top[i].score > top[j].score
               \/ top[i].score = top[j].score /\ top[i].symbol < top[j].symbol
               \/ top[i].score = top[j].score /\ top[i].symbol = top[j].symbol /\ i < j
            /\ \/ top[j].score > top[k].score
               \/ top[j].score = top[k].score /\ top[j].symbol < top[k].symbol
               \/ top[j].score = top[k].score /\ top[j].symbol = top[k].symbol /\ j < k
        BY <1>4
      <3>3. \/ top[i].score > top[k].score
            \/ top[i].score = top[k].score /\ top[i].symbol < top[k].symbol
            \/ top[i].score = top[k].score /\ top[i].symbol = top[k].symbol /\ i < k
        BY <3>1, <3>2
      <3>. QED  BY <1>4, <3>3
    <2>. QED  BY <2>1, <2>2, <2>3 DEF Total
  <1>6. order \in Seq(places) /\ Len(order) = n
    BY <1>2, <1>5, InOrderLists
  <1>7. \A k \in 1..n : order[k] \in places
    <2>. HIDE DEF order
    <2>. QED  BY <1>6
  <1>8. \A k \in places : top[order[k]] \in CandidateRecord
    <2>1. \A i \in places : top[i] \in CandidateRecord
      BY DEF places
    <2>. HIDE DEF order
    <2>. QED  BY <1>1, <1>7, <2>1
  <1>9. ReportOrder(top) = [k \in places |-> top[order[k]]]
    BY DEF ReportOrder, prior, places
  <1>. HIDE DEF order
  <1>10. ReportOrder(top) \in [1..n -> CandidateRecord]
    BY <1>1, <1>8, <1>9
  <1>. QED  BY <1>1, <1>9, <1>10 DEF places

LEMMA VerdictsAreSequence ==
  ASSUME NEW top \in Seq(CandidateRecord), NEW value, NEW fields
  PROVE  EvaluateTop3(top, value, fields) \in Seq(Verdicts)
  <1>. DEFINE verdicts3 == EvaluateTop3(top, value, fields)
              n == Len(top)
  <1>1. n \in Nat /\ DOMAIN top = 1..n
    OBVIOUS
  <1>2. verdicts3 = [i \in DOMAIN top |-> verdicts3[i]]
    BY DEF EvaluateTop3
  <1>3. \A i \in DOMAIN top : verdicts3[i] \in Verdicts
    BY VerdictsOfTop
  <1>. HIDE DEF verdicts3
  <1>4. verdicts3 \in [1..n -> Verdicts]
    BY <1>1, <1>2, <1>3
  <1>5. verdicts3 \in Seq(Verdicts)
    BY <1>1, <1>4
  <1>. QED  BY <1>5 DEF verdicts3

-----------------------------------------------------------------------------
(* The invariant of the selection.                                         *)

SelectionInv ==
  /\ SelectionTypeOK
  /\ DistinctCandidates(batch)
  /\ stage = "research" => preliminary = EvaluateTop3(ranking, valued, NoPackage(ranking))
  /\ RankingCanonical
  /\ VerdictsHold

LEMMA SelectionInitial == SelectionInit => SelectionInv
  <1>. SUFFICES ASSUME SelectionInit PROVE SelectionInv
    OBVIOUS
  <1>. USE DEF SelectionInit
  <1>1. \A S : <<>> \in Seq(S)
    OBVIOUS
  <1>2. SelectionTypeOK
    BY <1>1 DEF SelectionTypeOK
  <1>3. DistinctCandidates(batch)
    BY DEF DistinctCandidates
  <1>. QED  BY <1>2, <1>3 DEF SelectionInv, RankingCanonical, VerdictsHold

LEMMA ScreenKeepsSelection == SelectionInv /\ Screen => SelectionInv'
  <1>. SUFFICES ASSUME SelectionInv, Screen PROVE SelectionInv'
    OBVIOUS
  <1>1. PICK items \in UNION {[1..n -> Snapshots] : n \in 0..MaxItems} :
          batch' = RunCoreScreens(Universe(items))
    BY DEF Screen
  <1>2. PICK n \in Nat : items \in [1..n -> Snapshots]
    BY SelectionAssumption
  <1>3. batch' \in Seq(CandidateRecord) /\ DistinctCandidates(batch')
    BY <1>1, <1>2, UniverseHasOne, ScreensGiveCandidates
  <1>4. stage' = "rank" /\ UNCHANGED <<ranking, valued, preliminary, verdicts, reported>>
    BY DEF Screen
  <1>5. SelectionTypeOK'
    BY <1>3, <1>4 DEF SelectionInv, SelectionTypeOK
  <1>6. DistinctCandidates(batch)'
    BY <1>3 DEF DistinctCandidates
  <1>. QED  BY <1>4, <1>5, <1>6 DEF SelectionInv, RankingCanonical, VerdictsHold

LEMMA RankKeepsSelection == SelectionInv /\ Rank => SelectionInv'
  <1>. SUFFICES ASSUME SelectionInv, Rank PROVE SelectionInv'
    OBVIOUS
  <1>1. SelectionTypeOK /\ DistinctCandidates(batch) /\ batch \in Seq(CandidateRecord)
    BY DEF SelectionInv, SelectionTypeOK
  <1>2. /\ ranking' = RankTop10(batch) /\ stage' = "value"
        /\ UNCHANGED <<batch, valued, preliminary, verdicts, reported>>
    BY DEF Rank
  <1>3. ranking' \in Seq(CandidateRecord)
    BY <1>1, <1>2, RankingIsSequence
  <1>4. SelectionTypeOK'
    BY <1>1, <1>2, <1>3 DEF SelectionTypeOK
  <1>5. DistinctCandidates(batch)'
    BY <1>1, <1>2 DEF DistinctCandidates
  <1>6. RankingCanonical'
    <2>1. \A p \in Orders(Len(batch)) :
            RankTop10([i \in DOMAIN batch |-> batch[p[i]]]) = RankTop10(batch)
      BY <1>1, RankingIsCanonical
    <2>. QED  BY <1>2, <2>1 DEF RankingCanonical
  <1>. QED  BY <1>2, <1>4, <1>5, <1>6 DEF SelectionInv, VerdictsHold

LEMMA ValueKeepsSelection == SelectionInv /\ Value => SelectionInv'
  <1>. SUFFICES ASSUME SelectionInv, Value PROVE SelectionInv'
    OBVIOUS
  <1>1. SelectionTypeOK /\ DistinctCandidates(batch) /\ ranking \in Seq(CandidateRecord)
    BY DEF SelectionInv, SelectionTypeOK
  <1>2. PICK supplied \in SUBSET SymbolsOf(ranking) : \E e \in [supplied -> Evidence] :
          /\ valued' = {s \in supplied : Valuable(e[s])}
          /\ preliminary' = EvaluateTop3(ranking, valued', NoPackage(ranking))
    BY DEF Value
  <1>3. stage' = "research" /\ UNCHANGED <<batch, ranking, verdicts, reported>>
    BY DEF Value
  <1>4. SymbolsOf(ranking) \subseteq Nat
    <2>. SUFFICES ASSUME NEW i \in DOMAIN ranking PROVE ranking[i].symbol \in Nat
      BY DEF SymbolsOf
    <2>1. ranking[i] \in CandidateRecord
      BY <1>1
    <2>. QED  BY <2>1, RecordFacts
  <1>5. valued' \subseteq Nat
    BY <1>2, <1>4
  <1>6. preliminary' \in Seq(Verdicts)
    <2>1. \A value, fields : EvaluateTop3(ranking, value, fields) \in Seq(Verdicts)
      BY <1>1, VerdictsAreSequence
    <2>. QED  BY <1>2, <2>1
  <1>7. SelectionTypeOK'
    BY <1>1, <1>3, <1>5, <1>6 DEF SelectionTypeOK
  <1>8. DistinctCandidates(batch)'
    BY <1>1, <1>3 DEF DistinctCandidates
  <1>9. preliminary' = EvaluateTop3(ranking', valued', NoPackage(ranking'))
    BY <1>2, <1>3
  <1>. QED  BY <1>3, <1>7, <1>8, <1>9 DEF SelectionInv, RankingCanonical, VerdictsHold

\* A package completes at most eight of its fifteen fields.
LEMMA PackagesAreIncomplete ==
  ASSUME NEW c, NEW hasValuation, NEW contrary
  PROVE  Completed(c, hasValuation, contrary) \in 0..14
  BY DEF Completed

LEMMA ResearchKeepsSelection == SelectionInv /\ Research => SelectionInv'
  <1>. SUFFICES ASSUME SelectionInv, Research PROVE SelectionInv'
    OBVIOUS
  <1>1. SelectionTypeOK /\ DistinctCandidates(batch) /\ ranking \in Seq(CandidateRecord)
    BY DEF SelectionInv, SelectionTypeOK
  <1>2. preliminary = EvaluateTop3(ranking, valued, NoPackage(ranking))
    BY DEF SelectionInv, Research
  <1>3. stage' = "done" /\ UNCHANGED <<batch, ranking, valued, preliminary>>
    BY DEF Research
  <1>4. PICK contrary \in SUBSET SymbolsOf(ranking) :
          LET candidate(s) == CHOOSE c \in {ranking[i] : i \in DOMAIN ranking} : c.symbol = s
              fields == [s \in SymbolsOf(ranking) |->
                           Completed(candidate(s), s \in valued, s \in contrary)]
          IN  /\ verdicts' = EvaluateTop3(ranking, valued, fields)
              /\ reported' = [top |-> ReportOrder(ranking),
                              verdicts |-> EvaluateTop3(ReportOrder(ranking), valued, fields)]
    BY DEF Research
  <1>. DEFINE candidate(s) == CHOOSE c \in {ranking[i] : i \in DOMAIN ranking} : c.symbol = s
              complete == [s \in SymbolsOf(ranking) |->
                             Completed(candidate(s), s \in valued, s \in contrary)]
  <1>5. PICK fields : fields = complete
    OBVIOUS
  <1>6. \A s \in SymbolsOf(ranking) : fields[s] \in 0..14
    <2>. SUFFICES ASSUME NEW s \in SymbolsOf(ranking) PROVE fields[s] \in 0..14
      OBVIOUS
    <2>1. fields[s] = Completed(candidate(s), s \in valued, s \in contrary)
      BY <1>5
    <2>. HIDE DEF candidate
    <2>. QED  BY <2>1 DEF Completed
  <1>7. /\ verdicts' = EvaluateTop3(ranking, valued, fields)
        /\ reported' = [top |-> ReportOrder(ranking),
                        verdicts |-> EvaluateTop3(ReportOrder(ranking), valued, fields)]
    BY <1>4, <1>5
  <1>. HIDE DEF candidate, complete
  <1>. DEFINE listed == ReportOrder(ranking)
  <1>8. listed \in Seq(CandidateRecord) /\ DOMAIN listed = DOMAIN ranking
    BY <1>1, ReportLists
  <1>9. reported'.top = listed /\ reported'.verdicts = EvaluateTop3(listed, valued, fields)
    BY <1>7
  <1>10. SelectionTypeOK'
    <2>1. verdicts' \in Seq(Verdicts) /\ EvaluateTop3(listed, valued, fields) \in Seq(Verdicts)
      BY <1>1, <1>7, <1>8, VerdictsAreSequence
    <2>2. reported' \in [top : Seq(CandidateRecord), verdicts : Seq(Verdicts)]
      BY <1>7, <1>8, <2>1
    <2>. QED  BY <1>1, <1>3, <2>1, <2>2 DEF SelectionTypeOK
  <1>11. DistinctCandidates(batch)'
    BY <1>1, <1>3 DEF DistinctCandidates
  <1>. DEFINE G(c, f) == Gated(c, c.symbol \in valued, f[c.symbol])
  <1>12. ASSUME NEW i \in DOMAIN ranking
         PROVE  /\ G(ranking[i], fields) # "screened" /\ G(ranking[i], fields) # "research_pending"
                /\ verdicts'[i] = G(ranking[i], fields)
                /\ preliminary[i] = "valuation_pending" <=> verdicts'[i] = "valuation_pending"
    <2>. DEFINE v == ranking[i].symbol \in valued
    <2>1. fields[ranking[i].symbol] \in 0..14
      BY <1>6 DEF SymbolsOf
    <2>2. v \in BOOLEAN
      OBVIOUS
    <2>. HIDE DEF v
    <2>3. \A f : /\ Gated(ranking[i], v, f) = "valuation_pending"
                      <=> AfterValuation(ranking[i], v) = "valuation_pending"
                 /\ f \in 0..14 => /\ Gated(ranking[i], v, f) # "screened"
                                   /\ Gated(ranking[i], v, f) # "research_pending"
      BY <2>2, GatesSay
    <2>4. /\ G(ranking[i], fields) # "screened" /\ G(ranking[i], fields) # "research_pending"
          /\ G(ranking[i], fields) = "valuation_pending"
               <=> G(ranking[i], NoPackage(ranking)) = "valuation_pending"
      BY <2>1, <2>3 DEF v
    <2>5. verdicts'[i] = G(ranking[i], fields)
      BY <1>7, <2>4, VerdictsOfTop
    <2>6. preliminary[i] = "valuation_pending"
            <=> G(ranking[i], NoPackage(ranking)) = "valuation_pending"
      BY <1>2, VerdictsOfTop
    <2>. QED  BY <2>4, <2>5, <2>6
  <1>13. ASSUME NEW i \in DOMAIN ranking, NEW j \in DOMAIN ranking, ranking[i] = listed[j]
         PROVE  verdicts'[i] = reported'.verdicts[j]
    <2>1. G(listed[j], fields) # "screened"
      BY <1>12, <1>13
    <2>2. reported'.verdicts[j] = G(listed[j], fields)
      BY <1>8, <1>9, <2>1, VerdictsOfTop
    <2>. QED  BY <1>12, <1>13, <2>2
  <1>14. VerdictsHold'
    <2>. HIDE DEF G
    <2>. QED  BY <1>3, <1>9, <1>12, <1>13 DEF VerdictsHold
  <1>. QED  BY <1>3, <1>10, <1>11, <1>14 DEF SelectionInv, RankingCanonical

LEMMA SelectionStep == SelectionInv /\ [SelectionNext]_selectionVars => SelectionInv'
  <1>. SUFFICES ASSUME SelectionInv, RefuseEvidence \/ UNCHANGED selectionVars
                PROVE  SelectionInv'
    BY ScreenKeepsSelection, RankKeepsSelection, ValueKeepsSelection, ResearchKeepsSelection
    DEF SelectionNext
  <1>1. /\ UNCHANGED <<batch, ranking, valued, preliminary, verdicts, reported>>
        /\ stage' = stage \/ stage' = "failed"
    BY DEF RefuseEvidence, selectionVars
  <1>2. SelectionTypeOK'
    BY <1>1 DEF SelectionInv, SelectionTypeOK
  <1>3. DistinctCandidates(batch)'
    BY <1>1 DEF SelectionInv, DistinctCandidates
  <1>4. RankingCanonical' /\ VerdictsHold'
    BY <1>1 DEF SelectionInv, RankingCanonical, VerdictsHold
  <1>. QED  BY <1>1, <1>2, <1>3, <1>4 DEF SelectionInv

LEMMA ServiceImplementsSelection == Spec => SelectionSpec
  <1>1. Init => SelectionInit
    BY DEF Init
  <1>2. [Next]_vars => [SelectionNext]_selectionVars
    BY DEF Next, vars
  <1>. QED  BY <1>1, <1>2, PTL DEF Spec, SelectionSpec

LEMMA SelectionInvariant == Spec => []SelectionInv
  <1>1. SelectionSpec => []SelectionInv
    BY SelectionInitial, SelectionStep, PTL DEF SelectionSpec
  <1>. QED  BY <1>1, ServiceImplementsSelection, PTL

\* rank_top10 gives one Top 10 for a set of candidates, in whatever order the
\* screens found them.
THEOREM RankingIsOfTheSet == Spec => []RankingCanonical
  <1>1. SelectionInv => RankingCanonical
    BY DEF SelectionInv
  <1>. QED  BY <1>1, SelectionInvariant, PTL

\* The three judgements of a run, before research, for the stored evaluations
\* and in the report, agree as far as they may.
THEOREM VerdictsAgree == Spec => []VerdictsHold
  <1>1. SelectionInv => VerdictsHold
    BY DEF SelectionInv
  <1>. QED  BY <1>1, SelectionInvariant, PTL
-----------------------------------------------------------------------------
(* The types of the service.                                               *)

\* What the invariant of the refresh does not say of the types.
NestedStatuses == {"disabled", "unavailable", "failed", "partial", "degraded", "succeeded",
                   "ready", "cap_reached"}

EndedOK ==
  /\ component \in Components
  /\ nested \subseteq NestedStatuses
  /\ systemEvent \in {"none", "partial", "succeeded"}
  /\ refreshes \in Nat
  /\ killed \in Nat

LEMMA EndedInitial == RefreshInit => EndedOK
  BY DEF RefreshInit, EndedOK, Components

LEMMA NextIsComponent == \A c : NextComponent(c) \in Components
  <1>. TAKE c
  <1>. QED  BY DEF NextComponent, Components

\* A component that ends leaves nothing nested and moves on.
LEMMA EndIsTyped ==
  ASSUME EndedOK, NEW mark, EndComponent(mark), UNCHANGED <<systemEvent, refreshes, killed>>
  PROVE  EndedOK'
  BY NextIsComponent DEF EndedOK, EndComponent

LEMMA EndedStep == EndedOK /\ [RefreshNext]_refreshVars => EndedOK'
  <1>. SUFFICES ASSUME EndedOK, [RefreshNext]_refreshVars PROVE EndedOK'
    OBVIOUS
  <1>1. ASSUME Unchanged, NEW found, Returns(found) PROVE EndedOK'
    BY <1>1, EndIsTyped DEF Unchanged, Returns
  <1>2. ASSUME Unchanged, Raises PROVE EndedOK'
    BY <1>2, EndIsTyped DEF Unchanged, Raises
  <1>3. ASSUME Unchanged, UNCHANGED component, nested' \subseteq NestedStatuses PROVE EndedOK'
    BY <1>3 DEF Unchanged, EndedOK
  <1>4. ASSUME Unchanged, NEW to, Goes(to) PROVE EndedOK'
    BY <1>3, <1>4 DEF Goes, EndedOK
  <1>5. CASE StartRefresh
    BY <1>5 DEF StartRefresh, EndedOK, Components
  <1>6. CASE FetchFinviz
    BY <1>2, <1>4, <1>6 DEF FetchFinviz
  <1>7. CASE VerifyRegime
    BY <1>4, <1>7 DEF VerifyRegime
  <1>8. CASE DailyReport \/ AlertCboe \/ RunComponent
    BY <1>1, <1>2, <1>8 DEF DailyReport, AlertCboe, RunComponent
  <1>9. CASE FetchCboe
    BY <1>2, <1>4, <1>9 DEF FetchCboe
  <1>10. CASE FetchMacro
    <2>1. Unchanged /\ (Raises \/ (UNCHANGED component /\ nested' \subseteq NestedStatuses))
      BY <1>10 DEF FetchMacro, NestedStatuses
    <2>. QED  BY <1>2, <1>3, <2>1
  <1>11. CASE FetchSec
    <2>1. Unchanged /\ UNCHANGED component /\ nested' \subseteq NestedStatuses
      BY <1>11 DEF FetchSec, EndedOK, NestedStatuses
    <2>. QED  BY <1>3, <2>1
  <1>12. CASE Summaries
    BY <1>1, <1>2, <1>12 DEF Summaries
  <1>13. CASE RecordRefresh \/ Killed \/ UNCHANGED refreshVars
    BY <1>13 DEF RecordRefresh, Killed, refreshVars, EndedOK
  <1>. QED  BY <1>5, <1>6, <1>7, <1>8, <1>9, <1>10, <1>11, <1>12, <1>13 DEF RefreshNext, RefreshStep

LEMMA RefreshIsTyped == RefreshSpec => []RefreshTypeOK
  <1>1. RefreshInv /\ EndedOK => RefreshTypeOK
    BY DEF RefreshInv, EndedOK, RefreshTypeOK, NestedStatuses, RowsAreKnown, Providers, RowStates
  <1>. QED  BY <1>1, RefreshInitial, RefreshStepKeeps, EndedInitial, EndedStep, PTL DEF RefreshSpec

\* Every part of the service keeps to the values its rows may have, whichever
\* part serves and however its calls interleave, fail and die: the invariants
\* of the parts together.
THEOREM ServiceIsTyped == Spec => []ServiceTypeOK
  <1>1. Spec => [](serving \in Parts)
    <2>1. Init => serving \in Parts
      BY DEF Init
    <2>2. serving \in Parts /\ [Next]_vars => (serving \in Parts)'
      BY DEF Next, vars
    <2>. QED  BY <2>1, <2>2, PTL DEF Spec
  <1>2. BackupSpec => []BackupInv
    BY BackupInitial, BackupStep, PTL DEF BackupSpec
  <1>3. WatchlistsSpec => []WatchlistsInv
    BY WatchlistsInitial, WatchlistsStep, PTL DEF WatchlistsSpec
  <1>4. BridgeSpec => [](BridgeInv /\ ProbeInv)
    BY BridgeInitial, ProbeInitial, BridgeStep, ProbeStep, PTL DEF BridgeSpec
  <1>5. /\ serving \in Parts
        /\ OutcomesInv /\ BudgetInv /\ WatchlistsInv /\ RefreshTypeOK
        /\ SelectionInv /\ DailyInv /\ BackupInv /\ ProbeInv
        => ServiceTypeOK
    BY DEF ServiceTypeOK, OutcomesInv, RowsInv, BudgetInv, WatchlistsInv, SelectionInv, DailyInv,
           BackupInv, ProbeInv
  <1>. QED  BY <1>1, <1>2, <1>3, <1>4, <1>5, OutcomesInvariant, BudgetInvariant, RefreshIsTyped,
               SelectionInvariant, DailyInvariant, ServiceImplementsBackup,
               ServiceImplementsWatchlists, ServiceImplementsBridge, ServiceImplementsRefresh, PTL
=============================================================================
