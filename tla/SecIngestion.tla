----------------------------- MODULE SecIngestion -----------------------------
(***************************************************************************)
(* monitor_sec of src/lmio/sec_monitor.py: the filings of the watched      *)
(* symbols become news events, and the ownership forms among them rows of  *)
(* ownership_events, exactly once.                                         *)
(*                                                                         *)
(* A worker is one call at a time (a scheduled job, the daily pipeline, an *)
(* administrator).  Calls run concurrently and share only the store.  A    *)
(* step is one store operation or one request to the SEC.  An operation of *)
(* the store may be applied and still raise: its answer was lost.          *)
(*                                                                         *)
(* Definitions named Faulty... are plausible mistakes in the one that      *)
(* follows them.  No specification uses them: they show what the           *)
(* properties catch.                                                       *)
(***************************************************************************)
EXTENDS Integers, FiniteSets

CONSTANTS
  Symbols,       \* the watchlist
  Filings,       \* filings the SEC lists
  Listed,        \* the recent filings of each symbol (symbols may share a CIK)
  NewsKey,       \* event_fingerprint of a symbol's filing: symbol, form and day
  Ownership,     \* the filings of OWNERSHIP_FORMS
  Size,          \* records in each filing's document
  Unreadable,    \* ownership filings whose document never parses
  Workers,       \* callers of monitor_sec
  MaxTries,      \* tries one call makes for a filing
  MaxFaults,     \* bound: passing failures of an operation, and deaths
  NoFiling,      \* no filing
  NoSymbol       \* no symbol

ASSUME FilingsAssumption ==
  /\ Listed \in [Symbols -> SUBSET Filings]
  /\ Size \in [Filings -> Nat]
  /\ DOMAIN NewsKey = Symbols \X Filings
  /\ Ownership \subseteq Filings
  /\ Unreadable \subseteq Ownership
  /\ MaxTries \in Nat \ {0}
  /\ MaxFaults \in Nat
  /\ NoFiling \notin Filings
  /\ NoSymbol \notin Symbols

VARIABLES
  news,          \* news_events: the key of each event and the filing it tells of
  fingerprints,  \* ownership records in ingestion_dedup
  rows,          \* number of ownership_events rows of each record
  marked,        \* filings in ingestion_dedup
  events,        \* symbols and filings that failure events in system_events name
  stage,         \* what each worker does next
  symbols,       \* symbols it has still to list
  symbol,        \* the symbol it is at
  queue,         \* filings of that symbol it has still to deal with
  filing,        \* the filing it is at
  tries,         \* tries it has begun for that filing
  index,         \* the record it is to store next
  unlisted,      \* symbols whose filings it could not list
  succeeded,     \* filings it has counted as succeeded
  skipped,       \* filings it has counted as skipped
  failed,        \* filings it has counted as failed
  faults         \* history: passing failures and deaths

store == <<news, fingerprints, rows, marked, events>>
place == <<stage, symbols, symbol, queue, filing, tries, index>>
report == <<unlisted, succeeded, skipped, failed>>
vars == <<store, place, report, faults>>

RecordsOf(f) == {<<f, n>> : n \in 1..Size[f]}
AllRecords == UNION {RecordsOf(f) : f \in Filings}
Complete(f) == RecordsOf(f) \subseteq fingerprints

Keys == {NewsKey[p] : p \in Symbols \X Filings}
Stages == {"idle", "next", "check", "fetch", "store", "mark", "report", "done"}

TypeOK ==
  /\ news \subseteq Keys \X Filings
  /\ fingerprints \subseteq AllRecords
  /\ rows \in [AllRecords -> Nat]
  /\ marked \subseteq Ownership
  /\ events \subseteq Filings \cup Symbols
  /\ stage \in [Workers -> Stages]
  /\ symbols \in [Workers -> SUBSET Symbols]
  /\ symbol \in [Workers -> Symbols \cup {NoSymbol}]
  /\ queue \in [Workers -> SUBSET Filings]
  /\ filing \in [Workers -> Filings \cup {NoFiling}]
  /\ tries \in [Workers -> 0..MaxTries]
  /\ index \in [Workers -> Nat]
  /\ unlisted \in [Workers -> SUBSET Symbols]
  /\ succeeded \in [Workers -> SUBSET Filings]
  /\ skipped \in [Workers -> SUBSET Filings]
  /\ failed \in [Workers -> SUBSET Filings]
  /\ faults \in Nat

Init ==
  /\ news = {}
  /\ fingerprints = {}
  /\ rows = [r \in AllRecords |-> 0]
  /\ marked = {}
  /\ events = {}
  /\ stage = [w \in Workers |-> "idle"]
  /\ symbols = [w \in Workers |-> {}]
  /\ symbol = [w \in Workers |-> NoSymbol]
  /\ queue = [w \in Workers |-> {}]
  /\ filing = [w \in Workers |-> NoFiling]
  /\ tries = [w \in Workers |-> 0]
  /\ index = [w \in Workers |-> 0]
  /\ unlisted = [w \in Workers |-> {}]
  /\ succeeded = [w \in Workers |-> {}]
  /\ skipped = [w \in Workers |-> {}]
  /\ failed = [w \in Workers |-> {}]
  /\ faults = 0

-----------------------------------------------------------------------------
(* The symbols of a call.                                                  *)

Start(w) ==
  /\ stage[w] \in {"idle", "done"}
  /\ stage' = [stage EXCEPT ![w] = "next"]
  /\ symbols' = [symbols EXCEPT ![w] = Symbols]
  /\ unlisted' = [unlisted EXCEPT ![w] = {}]
  /\ succeeded' = [succeeded EXCEPT ![w] = {}]
  /\ skipped' = [skipped EXCEPT ![w] = {}]
  /\ failed' = [failed EXCEPT ![w] = {}]
  /\ UNCHANGED <<store, symbol, queue, filing, tries, index, faults>>

\* recent_filings of the next symbol; if it fails, the failure is recorded and
\* the call goes on without.
List(w, s) ==
  /\ stage[w] = "next" /\ queue[w] = {}
  /\ s \in symbols[w]
  /\ symbols' = [symbols EXCEPT ![w] = @ \ {s}]
  /\ symbol' = [symbol EXCEPT ![w] = s]
  /\ \/ /\ queue' = [queue EXCEPT ![w] = Listed[s]]
        /\ UNCHANGED <<unlisted, events, faults>>
     \/ /\ faults < MaxFaults
        /\ faults' = faults + 1
        /\ unlisted' = [unlisted EXCEPT ![w] = @ \cup {s}]
        /\ events' = events \cup {s}
        /\ UNCHANGED queue
  /\ UNCHANGED <<news, fingerprints, rows, marked, stage, filing, tries, index, succeeded, skipped, failed>>

\* The call has dealt with every symbol and returns its counts.
Return(w) ==
  /\ stage[w] = "next" /\ queue[w] = {} /\ symbols[w] = {}
  /\ stage' = [stage EXCEPT ![w] = "done"]
  /\ symbol' = [symbol EXCEPT ![w] = NoSymbol]
  /\ UNCHANGED <<store, symbols, queue, filing, tries, index, report, faults>>

-----------------------------------------------------------------------------
(* One filing.                                                             *)

Taken(key) == \E e \in news : e[1] = key

\* put_news_event: the event of a filing, unless its key is there already.
\* Only an ownership form has more to it.
PutNews(w, f) ==
  LET key == NewsKey[<<symbol[w], f>>] IN
  /\ stage[w] = "next"
  /\ f \in queue[w]
  /\ news' = IF Taken(key) THEN news ELSE news \cup {<<key, f>>}
  /\ queue' = [queue EXCEPT ![w] = @ \ {f}]
  /\ \/ /\ f \in Ownership
        /\ filing' = [filing EXCEPT ![w] = f]
        /\ stage' = [stage EXCEPT ![w] = "check"]
        /\ UNCHANGED succeeded
     \/ /\ f \notin Ownership
        /\ succeeded' = [succeeded EXCEPT ![w] = @ \cup {f}]
        /\ UNCHANGED <<filing, stage>>
  /\ UNCHANGED <<fingerprints, rows, marked, events, symbols, symbol, tries, index,
                 unlisted, skipped, failed, faults>>

\* The worker is through with its filing.
Leave(w) ==
  /\ stage' = [stage EXCEPT ![w] = "next"]
  /\ filing' = [filing EXCEPT ![w] = NoFiling]
  /\ tries' = [tries EXCEPT ![w] = 0]
  /\ index' = [index EXCEPT ![w] = 0]
  /\ UNCHANGED <<symbols, symbol, queue>>

FaultySeenPart(f) == RecordsOf(f) \cap fingerprints # {}   \* a record is there

FaultySeenNews(f) == \E e \in news : e[2] = f   \* the event is there

\* has_ingestion_fingerprint
Seen(f) == f \in marked

Check(w) ==
  LET f == filing[w] IN
  /\ stage[w] = "check"
  /\ \/ /\ Seen(f)
        /\ skipped' = [skipped EXCEPT ![w] = @ \cup {f}]
        /\ Leave(w)
     \/ /\ ~ Seen(f)
        /\ stage' = [stage EXCEPT ![w] = "fetch"]
        /\ tries' = [tries EXCEPT ![w] = 1]
        /\ UNCHANGED <<symbols, symbol, queue, filing, index, skipped>>
  /\ UNCHANGED <<store, unlisted, succeeded, failed, faults>>

TriesLeft(w) == tries[w] < MaxTries

\* Something raised in a try: the next one begins, if there is one.
Retry(w) ==
  /\ index' = [index EXCEPT ![w] = 0]
  /\ \/ /\ TriesLeft(w)
        /\ tries' = [tries EXCEPT ![w] = @ + 1]
        /\ stage' = [stage EXCEPT ![w] = "fetch"]
     \/ /\ ~ TriesLeft(w)
        /\ stage' = [stage EXCEPT ![w] = "report"]
        /\ UNCHANGED tries
  /\ UNCHANGED <<symbols, symbol, queue, filing>>

Fault ==
  /\ faults < MaxFaults
  /\ faults' = faults + 1

FaultyAfterFetch(f) == "mark"   \* marked when it is read

AfterFetch(f) == IF Size[f] = 0 THEN "mark" ELSE "store"

\* Fetching and parsing the document.
Fetch(w) ==
  LET f == filing[w] IN
  /\ stage[w] = "fetch"
  /\ \/ /\ f \notin Unreadable
        /\ stage' = [stage EXCEPT ![w] = AfterFetch(f)]
        /\ index' = [index EXCEPT ![w] = 1]
        /\ UNCHANGED <<symbols, symbol, queue, filing, tries, faults>>
     \/ /\ f \in Unreadable
        /\ Retry(w)
        /\ UNCHANGED faults
     \/ Fault /\ Retry(w)
  /\ UNCHANGED <<store, report>>

\* The rows after put_ownership_event of r: the fingerprint guards the row.
Inserted(r) == IF r \in fingerprints THEN rows ELSE [rows EXCEPT ![r] = @ + 1]

\* put_ownership_event of the next record.
StoreRecord(w) ==
  LET f == filing[w]
      r == <<f, index[w]>>
  IN
  /\ stage[w] = "store"
  /\ \/ /\ rows' = Inserted(r)
        /\ fingerprints' = fingerprints \cup {r}
        /\ \/ /\ index' = [index EXCEPT ![w] = @ + 1]
              /\ stage' = [stage EXCEPT ![w] = IF index[w] = Size[f] THEN "mark" ELSE "store"]
              /\ UNCHANGED <<symbols, symbol, queue, filing, tries, faults>>
           \/ Fault /\ Retry(w)
     \/ /\ Fault /\ Retry(w)
        /\ UNCHANGED <<rows, fingerprints>>
  /\ UNCHANGED <<news, marked, events, report>>

\* mark_ingestion_fingerprint of the filing, whose records are all stored.
Mark(w) ==
  LET f == filing[w] IN
  /\ stage[w] = "mark"
  /\ \/ /\ marked' = marked \cup {f}
        /\ \/ /\ succeeded' = [succeeded EXCEPT ![w] = @ \cup {f}]
              /\ Leave(w)
              /\ UNCHANGED faults
           \/ Fault /\ Retry(w) /\ UNCHANGED succeeded
     \/ Fault /\ Retry(w) /\ UNCHANGED <<marked, succeeded>>
  /\ UNCHANGED <<news, fingerprints, rows, events, unlisted, skipped, failed>>

FaultyReport(w) ==   \* counted and not recorded
  /\ stage[w] = "report"
  /\ failed' = [failed EXCEPT ![w] = @ \cup {filing[w]}]
  /\ Leave(w)
  /\ UNCHANGED <<store, unlisted, succeeded, skipped, faults>>

\* No try is left: the failure is counted and recorded in system_events.
Report(w) ==
  /\ stage[w] = "report"
  /\ failed' = [failed EXCEPT ![w] = @ \cup {filing[w]}]
  /\ events' = events \cup {filing[w]}
  /\ Leave(w)
  /\ UNCHANGED <<news, fingerprints, rows, marked, unlisted, succeeded, skipped, faults>>

\* The process dies, or an operation that no try surrounds raises.
Die(w) ==
  /\ stage[w] \notin {"idle", "done"}
  /\ Fault
  /\ stage' = [stage EXCEPT ![w] = "idle"]
  /\ symbols' = [symbols EXCEPT ![w] = {}]
  /\ symbol' = [symbol EXCEPT ![w] = NoSymbol]
  /\ queue' = [queue EXCEPT ![w] = {}]
  /\ filing' = [filing EXCEPT ![w] = NoFiling]
  /\ tries' = [tries EXCEPT ![w] = 0]
  /\ index' = [index EXCEPT ![w] = 0]
  /\ UNCHANGED <<store, report>>

-----------------------------------------------------------------------------

Work(w) ==
  \/ \E s \in Symbols : List(w, s)
  \/ Return(w)
  \/ \E f \in Filings : PutNews(w, f)
  \/ Check(w) \/ Fetch(w) \/ StoreRecord(w) \/ Mark(w) \/ Report(w)

Next == \E w \in Workers : Start(w) \/ Work(w) \/ Die(w)

Spec == Init /\ [][Next]_vars

\* A call that runs goes on, and the scheduler calls again and again (jobs
\* sec-refresh and official-news-refresh of config/scheduler_manifest.json).
FairSpec == Spec /\ \A w \in Workers : WF_vars(Work(w)) /\ WF_vars(Start(w))

-----------------------------------------------------------------------------
(* Properties.                                                             *)

\* A filing is marked only when all its records are stored, whatever raised or
\* died in between: the mark means "complete after its records are persisted"
\* (src/lmio/store.py, mark_ingestion_fingerprint).
MarkedComplete == \A f \in marked : f \notin Unreadable /\ Complete(f)

\* Retries, restarts and concurrent calls store no record twice ("cannot
\* duplicate the same parsed filing record", docs/ARCHITECTURE.md), and no
\* fingerprint is left without its row.
RowsOnce == \A r \in AllRecords : rows[r] = IF r \in fingerprints THEN 1 ELSE 0

\* An ownership filing that a call counts as succeeded or skipped is stored as
\* a whole, also when another call was storing it at the time.
CountedIsStored ==
  \A w \in Workers, f \in Ownership : f \in succeeded[w] \cup skipped[w] => Complete(f)

\* A call that returns has counted every filing of every symbol it could list,
\* and every failure it counts is recorded, also when a try fails or it dies.
AccountedFor ==
  \A w \in Workers :
    /\ failed[w] \cup unlisted[w] \subseteq events
    /\ stage[w] = "done" =>
         \A s \in Symbols \ unlisted[w] :
           Listed[s] \subseteq succeeded[w] \cup skipped[w] \cup failed[w]

\* Every listed ownership filing that can be read is ingested in the end: what
\* failed or was cut short is taken up again by a later call.
FilingIngested ==
  \A s \in Symbols : \A f \in (Listed[s] \cap Ownership) \ Unreadable : <>(f \in marked)

\* "Convert official SEC filings into versioned LMIO news events"
\* (src/lmio/sec_monitor.py): a call that returns has left an event of every
\* filing it could list.
EveryFilingHasItsEvent ==
  \A w \in Workers :
    stage[w] = "done" =>
      \A s \in Symbols \ unlisted[w] : \A f \in Listed[s] : \E e \in news : e[2] = f

=============================================================================
