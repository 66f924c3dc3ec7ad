------------------------------ MODULE Watchlists ------------------------------
(***************************************************************************)
(* Watchlists and their members: create_watchlist and                      *)
(* change_watchlist_member of src/lmio/main.py.  Both tables only grow.    *)
(* A request reads the newest rows, counts those of its name, or of its    *)
(* list and symbol, and appends a row with the next version.               *)
(*                                                                         *)
(* Definitions named Faulty... are plausible mistakes in the one that      *)
(* follows them.  No specification uses them: they show what the           *)
(* properties catch.                                                       *)
(***************************************************************************)
EXTENDS Integers, Sequences, FiniteSets

CONSTANTS
  Editors,       \* requests
  Names,         \* names of watchlists, up to case
  Symbols,       \* symbols, in upper case
  ReadLimit,     \* rows of a table that a request reads
  NoRequest,     \* no request
  MaxEdits       \* bound: requests that are answered

ASSUME WatchlistsAssumption ==
  /\ ReadLimit \in Nat
  /\ MaxEdits \in Nat
  /\ NoRequest \notin Names \cup (Nat \X Symbols)
  /\ \A name \in Names : name \notin Nat \X Symbols

VARIABLES
  lists,      \* watchlists: name and version; as history, the rows its request had read
  members,    \* watchlist_members: list and symbol, version; the same history
  request,    \* the name, or the list and symbol, each request is about
  rowsRead    \* the length of the table when it read it

watchlistVars == <<lists, members, request, rowsRead>>

ListRow == [of : Names, version : Nat, seen : Nat]
MemberRow == [of : Nat \X Symbols, version : Nat, seen : Nat]

WatchlistsTypeOK ==
  /\ lists \in Seq(ListRow)
  /\ members \in Seq(MemberRow)
  /\ request \in [Editors -> Names \cup (Nat \X Symbols) \cup {NoRequest}]
  /\ rowsRead \in [Editors -> Nat]

WatchlistsInit ==
  /\ lists = <<>>
  /\ members = <<>>
  /\ request = [e \in Editors |-> NoRequest]
  /\ rowsRead = [e \in Editors |-> 0]

Answering == Cardinality({e \in Editors : request[e] # NoRequest})

Read(e, of, table) ==
  /\ request[e] = NoRequest
  /\ Len(lists) + Len(members) + Answering < MaxEdits
  /\ request' = [request EXCEPT ![e] = of]
  /\ rowsRead' = [rowsRead EXCEPT ![e] = Len(table)]
  /\ UNCHANGED <<lists, members>>

FaultyReadRows(n) == 1..(n - 1)   \* the newest row is not counted

\* The newest of the first n rows of a table.
ReadRows(n) == {i \in 1..n : i > n - ReadLimit}

NextVersion(table, of, n) == Cardinality({i \in ReadRows(n) : table[i].of = of}) + 1

EndRequest(e) ==
  /\ request' = [request EXCEPT ![e] = NoRequest]
  /\ rowsRead' = [rowsRead EXCEPT ![e] = 0]

Row(table, e) ==
  [of |-> request[e], version |-> NextVersion(table, request[e], rowsRead[e]), seen |-> rowsRead[e]]

CreateWatchlist(e) ==
  /\ request[e] \in Names
  /\ lists' = Append(lists, Row(lists, e))
  /\ EndRequest(e)
  /\ UNCHANGED members

\* Of a list that is among the newest: of any other the answer is 404.
ReadMembers(e, list, symbol) == list \in ReadRows(Len(lists)) /\ Read(e, <<list, symbol>>, members)

ChangeMember(e) ==
  /\ request[e] \in Nat \X Symbols
  /\ members' = Append(members, Row(members, e))
  /\ EndRequest(e)
  /\ UNCHANGED lists

WatchlistsNext ==
  \E e \in Editors :
    \/ \E name \in Names : Read(e, name, lists)
    \/ \E list \in 1..Len(lists), symbol \in Symbols : ReadMembers(e, list, symbol)
    \/ CreateWatchlist(e)
    \/ ChangeMember(e)

WatchlistsSpec == WatchlistsInit /\ [][WatchlistsNext]_watchlistVars

-----------------------------------------------------------------------------

VersionsGrow(table) ==
  \A j \in 1..Len(table) : \A i \in 1..(j - 1) :
    table[i].of = table[j].of
      => \/ table[i].version < table[j].version
         \/ table[j].seen < i
         \/ table[j].seen > ReadLimit

\* The versions of a list, and of a member of it, grow from row to row: a
\* version appears twice, or goes back, only if the request of the later row
\* had read before the earlier row was there, or if there were more rows than
\* a request reads.
VersionsTrail == VersionsGrow(lists) /\ VersionsGrow(members)
=============================================================================
