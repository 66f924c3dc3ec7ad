------------------------------ MODULE IbkrBridge ------------------------------
(***************************************************************************)
(* The local bridge to paper TWS and what the service shows of it:         *)
(* scripts/ibkr_bridge.py, ibkr_bridge_heartbeat of src/lmio/main.py, the  *)
(* table provider_health and the provider cards of                         *)
(* src/lmio/health_console.py.                                             *)
(*                                                                         *)
(* In the bridge two threads share one probe: the main thread asks TWS for *)
(* a quote, waits, and takes what is there; the reader thread stores what  *)
(* TWS sends, whenever it comes, under the number of the request.  The     *)
(* heartbeat is made before the options are collected and posted after.    *)
(*                                                                         *)
(* Time is counted in minutes of the service's clock; the clock of the     *)
(* laptop is ahead of it by skew.  Prices are left out: a quote is the set *)
(* of the contracts that ticks stored in it are of.                        *)
(*                                                                         *)
(* Definitions named Faulty... are plausible mistakes in the one that      *)
(* follows them.  No specification uses them: they show what the           *)
(* properties catch.                                                       *)
(***************************************************************************)
EXTENDS Integers, Sequences, FiniteSets

CONSTANTS
  WatchedSymbols, \* the symbols of the command line, in the order they are gone through
  Strikes,        \* strikes near the price that a chain has
  ContractLimit,  \* max_contracts_per_symbol
  Skews,          \* minutes the laptop's clock may be ahead
  StaleAfter,     \* minutes after which a heartbeat is stale
  MaxBehind,      \* how old a heartbeat may be that is recorded
  MaxAhead,       \* how far ahead of the service's clock
  HealthLimit,    \* rows of provider_health that the cards are made of
  OtherProviders, \* the providers whose rows share the table
  Minutes,        \* bound: the minutes the clock shows
  MaxHealthRows   \* bound: rows of provider_health

ASSUME BridgeAssumption ==
  /\ "ibkr_tws_paper" \notin OtherProviders
  /\ Skews \subseteq Int
  /\ 0 \in Minutes
  /\ Minutes \subseteq Nat
  /\ {Strikes, StaleAfter, MaxBehind, MaxAhead, HealthLimit, MaxHealthRows} \subseteq Nat
  /\ ContractLimit \in Int

VARIABLES
  minute,         \* the service's clock
  skew,           \* what the laptop's is ahead
  tws,            \* TWS: down, up with a paper account, up with a live account
  lastPaper,      \* history: the last minute it was up with a paper account
  bridge,         \* what the bridge's main thread does next
  beat,           \* its heartbeat
  symbolsLeft,    \* the symbols it has still to go through
  options,        \* the options of the current one it has still to ask for
  nextRequest,    \* the next number of a request
  lastRequest,    \* the number of the last one
  requested,      \* numbers and contracts TWS has been asked for
  quotes,         \* what the reader thread has stored under each number
  underlying,     \* the quote of the stock
  observations,   \* the options observed, in the order they were
  health          \* provider_health; of each row also, as history, its minute

probe == <<symbolsLeft, options, nextRequest, lastRequest, requested, quotes, underlying,
           observations>>
bridgeVars == <<minute, skew, tws, lastPaper, bridge, beat, probe, health>>

Watchlist == {WatchedSymbols[i] : i \in 1..Len(WatchedSymbols)}
ASSUME WatchedAssumption == WatchedSymbols \in Seq(Watchlist)

Stock(symbol) == <<symbol, 0, "S">>
Contracts == Watchlist \X (0..Strikes) \X {"S", "C", "P"}
Requests == 1..(Len(WatchedSymbols) * (2 * Strikes + 1))

Heartbeat == [observed : Int, connected : BOOLEAN, paper : BOOLEAN, news : BOOLEAN]
Observation == [of : Contracts, quote : SUBSET Contracts, stock : SUBSET Contracts]
HealthRow ==
  [provider : OtherProviders \cup {"ibkr_tws_paper"},
   state : {"ready", "degraded", "unavailable"}, observed : Int, recorded : Nat]

NoBeat == [observed |-> 0, connected |-> FALSE, paper |-> FALSE, news |-> FALSE]

BridgeTypeOK ==
  /\ minute \in Minutes
  /\ skew \in Skews
  /\ tws \in {"down", "paper", "live"}
  /\ lastPaper \in Minutes \cup {-1}
  /\ bridge \in {"off", "connect", "symbol", "quote", "option", "tick", "post", "options"}
  /\ beat \in Heartbeat
  /\ symbolsLeft \in Seq(Watchlist)
  /\ options \in Seq(Contracts)
  /\ nextRequest \in Nat \ {0}
  /\ lastRequest \in Requests \cup {0}
  /\ requested \subseteq Requests \X Contracts
  /\ quotes \in [Requests -> SUBSET Contracts]
  /\ underlying \subseteq Contracts
  /\ observations \in Seq(Observation)
  /\ health \in Seq(HealthRow)

FreshProbe ==
  /\ symbolsLeft' = <<>>
  /\ options' = <<>>
  /\ nextRequest' = 1
  /\ lastRequest' = 0
  /\ requested' = {}
  /\ quotes' = [n \in Requests |-> {}]
  /\ underlying' = {}
  /\ observations' = <<>>

BridgeInit ==
  /\ minute = 0
  /\ skew \in Skews
  /\ tws \in {"down", "paper", "live"}
  /\ lastPaper = IF tws = "paper" THEN 0 ELSE -1
  /\ bridge = "off"
  /\ beat = NoBeat
  /\ symbolsLeft = <<>>
  /\ options = <<>>
  /\ nextRequest = 1
  /\ lastRequest = 0
  /\ requested = {}
  /\ quotes = [n \in Requests |-> {}]
  /\ underlying = {}
  /\ observations = <<>>
  /\ health = <<>>

-----------------------------------------------------------------------------
(* The environment.                                                        *)

MinutePasses ==
  /\ \E m \in Minutes :
       /\ m > minute
       /\ minute' = m
       /\ lastPaper' = IF tws = "paper" THEN m ELSE lastPaper
  /\ UNCHANGED <<skew, tws, bridge, beat, probe, health>>

TwsChanges ==
  /\ \E state \in {"down", "paper", "live"} :
       /\ state # tws
       /\ tws' = state
       /\ lastPaper' = IF state = "paper" THEN minute ELSE lastPaper
  /\ UNCHANGED <<minute, skew, bridge, beat, probe, health>>

\* Another provider's row: of a refresh, or of the lookup of a symbol.
OtherRow(provider, state) ==
  /\ Len(health) < MaxHealthRows
  /\ health' = Append(health, [provider |-> provider, state |-> state,
                               observed |-> minute, recorded |-> minute])
  /\ UNCHANGED <<minute, skew, tws, lastPaper, bridge, beat, probe>>

-----------------------------------------------------------------------------
(* The reader thread.                                                      *)

\* A tick of a contract TWS was asked for, under that number: it may come
\* after the main thread has taken the quote and cancelled the request.
Tick ==
  /\ tws # "down"
  /\ \E pair \in requested :
       /\ pair[2] \notin quotes[pair[1]]
       /\ quotes' = [quotes EXCEPT ![pair[1]] = @ \cup {pair[2]}]
  /\ UNCHANGED <<minute, skew, tws, lastPaper, bridge, beat, symbolsLeft, options, nextRequest,
                 lastRequest, requested, underlying, observations, health>>

-----------------------------------------------------------------------------
(* The main thread.                                                        *)

\* The bridge is started, again if it exited, or its pause is over.
StartBridge ==
  /\ bridge = "off"
  /\ Len(health) < MaxHealthRows
  /\ bridge' = "connect"
  /\ beat' = NoBeat
  /\ FreshProbe
  /\ UNCHANGED <<minute, skew, tws, lastPaper, health>>

\* bool(probe.accounts) and all(...): paper is confirmed by the accounts that came.
Paper(accounts) == accounts # {} /\ \A account \in accounts : account = "paper"

\* The probe connects, or does not within its time; the accounts may come
\* later than the list of news providers, which may be empty.
Connect ==
  /\ bridge = "connect"
  /\ \E connected, news \in BOOLEAN, accounts \in SUBSET ({tws} \ {"down"}) :
       /\ connected => tws # "down"
       /\ beat' = [observed |-> minute + skew, connected |-> connected,
                   paper |-> Paper(accounts), news |-> connected /\ news]
       /\ bridge' = IF connected THEN "symbol" ELSE "post"
       /\ symbolsLeft' = IF connected THEN WatchedSymbols ELSE <<>>
  /\ UNCHANGED <<minute, skew, tws, lastPaper, options, nextRequest, lastRequest, requested, quotes,
                 underlying, observations, health>>

FaultyNewRequest == 1   \* every request has the same number

NewRequest == nextRequest

\* The quote of a contract is asked for: its number starts with no ticks.
Ask(contract) ==
  /\ lastRequest' = NewRequest
  /\ nextRequest' = nextRequest + 1
  /\ requested' = requested \cup {<<NewRequest, contract>>}
  /\ quotes' = [quotes EXCEPT ![NewRequest] = {}]

\* The next symbol: its stock is resolved and its quote asked for, or it is passed over.
NextSymbol ==
  /\ bridge = "symbol"
  /\ symbolsLeft # <<>>
  /\ \/ Ask(Stock(Head(symbolsLeft))) /\ bridge' = "quote" /\ UNCHANGED symbolsLeft
     \/ /\ symbolsLeft' = Tail(symbolsLeft)
        /\ UNCHANGED <<bridge, nextRequest, lastRequest, requested, quotes>>
  /\ UNCHANGED <<minute, skew, tws, lastPaper, beat, options, underlying, observations, health>>

AllCollected ==
  /\ bridge = "symbol"
  /\ symbolsLeft = <<>>
  /\ bridge' = "post"
  /\ UNCHANGED <<minute, skew, tws, lastPaper, beat, probe, health>>

\* contract_limit: max(2, min(max_contracts_per_symbol, 20)).
WantedContracts == IF ContractLimit < 2 THEN 2 ELSE IF ContractLimit > 20 THEN 20 ELSE ContractLimit

\* Two contracts of each strike.
PickedStrikes ==
  LET most == WantedContracts \div 2 IN IF Strikes < most THEN Strikes ELSE most

\* Both rights of each strike, the strikes nearest to the price first.
OptionsOf(symbol) ==
  [i \in 1..(2 * PickedStrikes) |-> <<symbol, (i + 1) \div 2, IF i % 2 = 1 THEN "C" ELSE "P">>]

\* The quote of the stock is taken: without a price, a chain, an expiry or a
\* strike the symbol is passed over.
TakeStock ==
  /\ bridge = "quote"
  /\ underlying' = quotes[lastRequest]
  /\ \/ /\ quotes[lastRequest] # {}
        /\ options' = OptionsOf(Head(symbolsLeft))
     \/ options' = <<>>
  /\ symbolsLeft' = Tail(symbolsLeft)
  /\ bridge' = "option"
  /\ UNCHANGED <<minute, skew, tws, lastPaper, beat, nextRequest, lastRequest, requested, quotes,
                 observations, health>>

Observed(symbol) == {i \in 1..Len(observations) : observations[i].of[1] = symbol}

FaultyFull(symbol) == FALSE   \* what an earlier turn of the symbol observed is forgotten

\* The watchlist may name a symbol twice: its contracts count together.
Full(symbol) == Cardinality(Observed(symbol)) >= WantedContracts

NextOption ==
  /\ bridge = "option"
  /\ \/ /\ options # <<>> /\ ~Full(Head(options)[1])
        /\ Ask(Head(options))
        /\ bridge' = "tick"
        /\ UNCHANGED options
     \/ /\ options # <<>> => Full(Head(options)[1])
        /\ options' = <<>>
        /\ bridge' = "symbol"
        /\ UNCHANGED <<nextRequest, lastRequest, requested, quotes>>
  /\ UNCHANGED <<minute, skew, tws, lastPaper, beat, symbolsLeft, underlying, observations, health>>

TakeOption ==
  /\ bridge = "tick"
  /\ observations' = Append(observations,
       [of |-> Head(options), quote |-> quotes[lastRequest], stock |-> underlying])
  /\ options' = Tail(options)
  /\ bridge' = "option"
  /\ UNCHANGED <<minute, skew, tws, lastPaper, beat, symbolsLeft, nextRequest, lastRequest,
                 requested, quotes, underlying, health>>

-----------------------------------------------------------------------------
(* The heartbeat at the service.                                           *)

WithinWindow(observed) == minute - MaxBehind <= observed /\ observed <= minute + MaxAhead

FaultyProviderStateOf(heartbeat) ==   \* what the bridge itself calls it
  IF heartbeat.connected THEN "connected" ELSE "disconnected"

ProviderStateOf(heartbeat) ==
  CASE ~heartbeat.connected -> "unavailable"
    [] heartbeat.connected /\ (~heartbeat.paper \/ ~heartbeat.news) -> "degraded"
    [] OTHER -> "ready"

\* The heartbeat is posted: recorded or refused.  Whatever the bridge takes
\* for an error, the answer it never gets too, ends it.
PostHeartbeat ==
  /\ bridge = "post"
  /\ \/ /\ WithinWindow(beat.observed)
        /\ Len(health) < MaxHealthRows
        /\ health' = Append(health, [provider |-> "ibkr_tws_paper", state |-> ProviderStateOf(beat),
                                     observed |-> beat.observed, recorded |-> minute])
        /\ \/ bridge' = "options" /\ UNCHANGED <<beat, probe>>
           \/ bridge' = "off" /\ beat' = NoBeat /\ FreshProbe
     \/ /\ bridge' = "off" /\ beat' = NoBeat /\ FreshProbe
        /\ UNCHANGED health
  /\ UNCHANGED <<minute, skew, tws, lastPaper>>

\* The options are posted, or that fails; in either case the next round is a
\* start of its own, with a probe of its own.
PostOptions ==
  /\ bridge = "options"
  /\ bridge' = "off"
  /\ beat' = NoBeat
  /\ FreshProbe
  /\ UNCHANGED <<minute, skew, tws, lastPaper, health>>

BridgeNext ==
  \/ MinutePasses \/ TwsChanges
  \/ \E provider \in OtherProviders, state \in {"ready", "unavailable"} : OtherRow(provider, state)
  \/ Tick
  \/ StartBridge \/ Connect \/ NextSymbol \/ AllCollected \/ TakeStock \/ NextOption \/ TakeOption
  \/ PostHeartbeat \/ PostOptions

BridgeSpec == BridgeInit /\ [][BridgeNext]_bridgeVars

-----------------------------------------------------------------------------
(* The cards of the system health.                                         *)

\* The rows of a provider among the newest of all providers.
CardRows(provider) ==
  {i \in 1..Len(health) : i > Len(health) - HealthLimit /\ health[i].provider = provider}

FaultyStale(observed) == FALSE   \* the state recorded is shown whatever its age

Stale(observed) == minute - observed > StaleAfter

\* current_state: that of the newest row, of the bridge only while it is fresh.
CardState(provider) ==
  LET rows == CardRows(provider)
      latest == health[CHOOSE i \in rows : \A j \in rows : j <= i]
  IN  CASE rows = {} -> "not_verified"
        [] rows # {} /\ provider = "ibkr_tws_paper" /\ Stale(latest.observed) -> "degraded"
        [] OTHER -> latest.state

-----------------------------------------------------------------------------
(* Properties.                                                             *)

\* While the card says ready, TWS was up with a paper account in the last
\* three minutes by the clock of the laptop; and whatever that clock says, the
\* service has recorded a heartbeat in the last three, and the one minute that
\* clock may be ahead.
ReadyIsRecent ==
  CardState("ibkr_tws_paper") = "ready"
    => /\ lastPaper >= 0 /\ minute <= lastPaper + StaleAfter + skew
       /\ \E i \in CardRows("ibkr_tws_paper") :
            health[i].state = "ready" /\ minute <= health[i].recorded + StaleAfter + MaxAhead

\* However late its ticks come, an observation has quotes of its own contract
\* and of its own stock only; and of no symbol are there more of them than
\* wanted, however often the watchlist names it.
QuotesAreOwn ==
  /\ \A i \in 1..Len(observations) :
       LET o == observations[i] IN o.quote \subseteq {o.of} /\ o.stock = {Stock(o.of[1])}
  /\ \A symbol \in Watchlist : Cardinality(Observed(symbol)) <= WantedContracts
=============================================================================
