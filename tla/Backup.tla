-------------------------------- MODULE Backup --------------------------------
(***************************************************************************)
(* Copies of the evidence store: RuntimeStore.backup_to (store.py),        *)
(* SupabaseRuntimeStore.backup_export (src/lmio/supabase_store.py), and    *)
(* the writes that go on meanwhile.                                        *)
(*                                                                         *)
(* SQLite is copied as it is at one moment, and the copy is verified       *)
(* before it is reported.  Supabase is asked for each of its tables in the *)
(* order of a column that two of them do not have.  A copy may die at any  *)
(* moment, and leaves then what is there.                                  *)
(*                                                                         *)
(* Definitions named Faulty... are plausible mistakes in the one that      *)
(* follows them.  No specification uses them: they show what the           *)
(* properties catch.                                                       *)
(***************************************************************************)
EXTENDS Integers, FiniteSets

CONSTANTS
  Backups,     \* destinations a copy may be given
  Items,       \* provider snapshots and ownership events that may be stored
  Filings,     \* filings that may be marked as ingested
  EventsOf,    \* the ownership events of each filing
  NewsItems    \* news events that may be stored

ASSUME BackupAssumption ==
  /\ EventsOf \in [Filings -> SUBSET Items]
  /\ Items \cap Filings = {}

VARIABLES
  backend,     \* the store in use
  tables,      \* its rows
  destination, \* of each destination, how far the copy has come
  copied,      \* what the copy holds
  before       \* the rows when it was begun

backupVars == <<backend, tables, destination, copied, before>>

\* The tables that evidence is written to; of symbols, the writes made to it.
Tables == {"records", "ingestion_dedup", "news_events", "symbols"}

Empty == [t \in Tables |-> {}]

Contents == [Tables -> SUBSET (Items \cup Filings \cup NewsItems)]

\* The tables an export asks for, in its order, and those with a created_at.
TableOrder ==
  <<"schema_versions", "records", "ingestion_dedup", "news_events", "symbols",
    "telegram_deliveries", "synthetic_records">>
Timestamped ==
  {"records", "ingestion_dedup", "news_events", "telegram_deliveries", "synthetic_records"}

Progress ==
  {"absent", "copying", "copied", "verified", "exporting", "raised", "abandoned"}

BackupTypeOK ==
  /\ backend \in {"sqlite", "supabase"}
  /\ tables \in Contents
  /\ destination \in [Backups -> Progress]
  /\ copied \in [Backups -> Contents]
  /\ before \in [Backups -> Contents]

BackupInit ==
  /\ backend \in {"sqlite", "supabase"}
  /\ tables = Empty
  /\ destination = [b \in Backups |-> "absent"]
  /\ copied = [b \in Backups |-> Empty]
  /\ before = [b \in Backups |-> Empty]

-----------------------------------------------------------------------------
(* The writes, each of which is one transaction.                           *)

copies == <<destination, copied, before>>

Add(names, row) ==
  tables' = [t \in Tables |-> IF t \in names THEN tables[t] \cup {row} ELSE tables[t]]

IsOwnershipEvent(i) == \E f \in Filings : i \in EventsOf[f]

\* The mark of an item and the item; a snapshot also updates its symbol.
PutProviderSnapshot(i) ==
  /\ i \notin tables["ingestion_dedup"] /\ ~IsOwnershipEvent(i)
  /\ Add({"records", "ingestion_dedup", "symbols"}, i)
  /\ UNCHANGED <<backend, copies>>

PutOwnershipEvent(i) ==
  /\ i \notin tables["ingestion_dedup"] /\ IsOwnershipEvent(i)
  /\ Add({"records", "ingestion_dedup"}, i)
  /\ UNCHANGED <<backend, copies>>

\* A filing is marked once its events are stored.
MarkIngestionFingerprint(f) ==
  /\ f \notin tables["ingestion_dedup"]
  /\ EventsOf[f] \subseteq tables["records"]
  /\ Add({"ingestion_dedup"}, f)
  /\ UNCHANGED <<backend, copies>>

PutNewsEvent(n) ==
  /\ n \notin tables["news_events"]
  /\ Add({"news_events"}, n)
  /\ UNCHANGED <<backend, copies>>

-----------------------------------------------------------------------------
(* A copy of SQLite.                                                       *)

\* An existing destination is refused.
Begin(b, progress) ==
  /\ destination[b] = "absent"
  /\ destination' = [destination EXCEPT ![b] = progress]
  /\ before' = [before EXCEPT ![b] = tables]
  /\ UNCHANGED <<backend, tables, copied>>

BeginCopy(b) == backend = "sqlite" /\ Begin(b, "copying")

FaultyCopyOf(b) == [tables EXCEPT !["records"] = before[b]["records"]]   \* table by table

\* All pages are copied in one step, under one lock.
CopyOf(b) == tables

CopyRows(b) ==
  /\ destination[b] = "copying"
  /\ copied' = [copied EXCEPT ![b] = CopyOf(b)]
  /\ destination' = [destination EXCEPT ![b] = "copied"]
  /\ UNCHANGED <<backend, tables, before>>

\* The copy is opened and checked, and its digest and counts are returned.
VerifyCopy(b) ==
  /\ destination[b] = "copied"
  /\ destination' = [destination EXCEPT ![b] = "verified"]
  /\ UNCHANGED <<backend, tables, copied, before>>

\* The process dies, or the copy fails its check: the file stays, unreported.
AbandonCopy(b) ==
  /\ destination[b] \in {"copying", "copied", "exporting"}
  /\ destination' = [destination EXCEPT ![b] = "abandoned"]
  /\ UNCHANGED <<backend, tables, copied, before>>

-----------------------------------------------------------------------------
(* An export of Supabase.                                                  *)

BeginExport(b) == backend = "supabase" /\ Begin(b, "exporting")

\* The tables are asked for one after the other, each in the order of
\* created_at.  The server refuses that of a table without one, and the export
\* raises: the first is such a table, so no file has been written by then, and
\* what the later requests would return never matters.
ExportRaises(b) ==
  /\ destination[b] = "exporting"
  /\ TableOrder[1] \notin Timestamped
  /\ destination' = [destination EXCEPT ![b] = "raised"]
  /\ UNCHANGED <<backend, tables, copied, before>>

BackupNext ==
  \/ \E i \in Items : PutProviderSnapshot(i) \/ PutOwnershipEvent(i)
  \/ \E f \in Filings : MarkIngestionFingerprint(f)
  \/ \E n \in NewsItems : PutNewsEvent(n)
  \/ \E b \in Backups :
       BeginCopy(b) \/ CopyRows(b) \/ VerifyCopy(b) \/ AbandonCopy(b) \/ BeginExport(b)
         \/ ExportRaises(b)

BackupSpec == BackupInit /\ [][BackupNext]_backupVars

-----------------------------------------------------------------------------
(* Properties.                                                             *)

\* Rows as the writes leave them: a record or a symbol never without its mark,
\* nor a mark without its record, and of a marked filing every event.
WholeWrites(rows) ==
  /\ rows["records"] = rows["ingestion_dedup"] \ Filings
  /\ rows["symbols"] = {i \in rows["records"] : ~IsOwnershipEvent(i)}
  /\ \A f \in rows["ingestion_dedup"] \cap Filings : EventsOf[f] \subseteq rows["records"]

\* A copy that is reported is consistent, though filings are ingested and
\* snapshots stored while it is made: it holds all there was when it was begun
\* and only whole writes, so that a store restored from it neither ingests
\* anything twice nor takes for ingested what it does not hold.
CopyIsConsistent ==
  \A b \in Backups : destination[b] = "verified" =>
    /\ \A t \in Tables : before[b][t] \subseteq copied[b][t]
    /\ WholeWrites(copied[b])
=============================================================================
