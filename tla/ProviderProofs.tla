----------------------------- MODULE ProviderProofs -----------------------------
(***************************************************************************)
(* Proofs about what the service says of its providers and has of them:    *)
(* the card of the bridge and the quotes it stores (IbkrBridge), the event *)
(* of the operator's refresh (OperatorRefresh), and the spend on AI        *)
(* requests (AiBudget).                                                    *)
(***************************************************************************)
EXTENDS ResearchService, FiniteSetTheorems, WellFoundedInduction, TLAPS

-----------------------------------------------------------------------------
(* The card of the bridge.                                                 *)

ClocksOK ==
  /\ minute \in Nat /\ skew \in Int /\ lastPaper \in Int
  /\ tws \in {"down", "paper", "live"}
  /\ lastPaper <= minute
  /\ tws = "paper" => lastPaper = minute

\* A heartbeat that says ready was made when TWS was up with a paper account.
Confirmed(observed) == lastPaper >= 0 /\ observed <= lastPaper + skew

BeatOK ==
  /\ beat \in Heartbeat
  /\ beat.connected /\ beat.paper => Confirmed(beat.observed)

HealthOK ==
  /\ health \in Seq(HealthRow)
  /\ \A i \in 1..Len(health) :
       (health[i].provider = "ibkr_tws_paper" /\ health[i].state = "ready")
         => Confirmed(health[i].observed) /\ health[i].observed <= health[i].recorded + MaxAhead

BridgeInv == ClocksOK /\ BeatOK /\ HealthOK

LEMMA BridgeInitial == BridgeInit => BridgeInv
  <1>. SUFFICES ASSUME BridgeInit PROVE BridgeInv
    OBVIOUS
  <1>1. ClocksOK
    BY BridgeAssumption DEF BridgeInit, ClocksOK
  <1>2. BeatOK
    BY DEF BridgeInit, BeatOK, NoBeat, Heartbeat
  <1>3. HealthOK
    BY DEF BridgeInit, HealthOK
  <1>. QED  BY <1>1, <1>2, <1>3 DEF BridgeInv

LEMMA LaterStill ==
  ASSUME NEW o \in Int, NEW p \in Int, NEW q \in Int, NEW s \in Int, o <= p + s, p <= q
  PROVE  o <= q + s
  OBVIOUS

\* What was confirmed stays so: the last minute of paper only goes forward.
LEMMA ConfirmedStays ==
  ASSUME BridgeInv, lastPaper' \in Int, lastPaper <= lastPaper', skew' = skew
  PROVE  /\ beat' = beat => BeatOK'
         /\ health' = health => HealthOK'
  <1>1. ASSUME NEW observed \in Int, Confirmed(observed)
        PROVE  lastPaper' >= 0 /\ observed <= lastPaper' + skew'
    <2>1. /\ lastPaper \in Int /\ skew \in Int
          /\ lastPaper >= 0 /\ observed <= lastPaper + skew
      BY <1>1 DEF Confirmed, BridgeInv, ClocksOK
    <2>2. lastPaper' >= 0
      BY <2>1
    <2>3. observed <= lastPaper' + skew
      BY <2>1, LaterStill
    <2>. QED  BY <2>2, <2>3
  <1>2. ASSUME beat' = beat PROVE BeatOK'
    BY <1>1, <1>2 DEF BridgeInv, BeatOK, Heartbeat, Confirmed
  <1>3. ASSUME health' = health PROVE HealthOK'
    <2>1. \A i \in 1..Len(health) : health[i].observed \in Int
      <3>1. health \in Seq(HealthRow)
        BY DEF BridgeInv, HealthOK
      <3>2. ASSUME NEW i \in 1..Len(health) PROVE health[i] \in HealthRow
        BY <3>1
      <3>. QED  BY <3>2 DEF HealthRow
    <2>. QED  BY <1>1, <1>3, <2>1 DEF BridgeInv, HealthOK, Confirmed
  <1>. QED  BY <1>2, <1>3

\* A row of the table is appended: what it must satisfy.
LEMMA RowAppended ==
  ASSUME BridgeInv, NEW row \in HealthRow, health' = Append(health, row),
         UNCHANGED <<lastPaper, skew>>,
         (row.provider = "ibkr_tws_paper" /\ row.state = "ready")
           => Confirmed(row.observed) /\ row.observed <= row.recorded + MaxAhead
  PROVE  HealthOK'
  <1>1. /\ health' \in Seq(HealthRow) /\ Len(health') = Len(health) + 1
        /\ \A i \in 1..Len(health) : health'[i] = health[i]
        /\ health'[Len(health) + 1] = row /\ Len(health) \in Nat
    BY DEF BridgeInv, HealthOK
  <1>2. ASSUME NEW i \in 1..Len(health')
        PROVE  i \in 1..Len(health) \/ i = Len(health) + 1
    BY <1>1
  <1>. QED  BY <1>1, <1>2 DEF BridgeInv, HealthOK, Confirmed

LEMMA BridgeStep == BridgeInv /\ [BridgeNext]_bridgeVars => BridgeInv'
  <1>. SUFFICES ASSUME BridgeInv, [BridgeNext]_bridgeVars PROVE BridgeInv'
    OBVIOUS
  <1>1. ASSUME UNCHANGED <<minute, skew, tws, lastPaper, health>>, beat' = beat \/ beat' = NoBeat
        PROVE  BridgeInv'
    <2>1. ClocksOK'
      BY <1>1 DEF BridgeInv, ClocksOK
    <2>2. CASE beat' = beat
      BY <1>1, <2>1, <2>2, ConfirmedStays DEF BridgeInv, ClocksOK
    <2>3. CASE beat' = NoBeat
      <3>1. BeatOK'
        BY <2>3 DEF BeatOK, NoBeat, Heartbeat
      <3>. QED  BY <1>1, <2>1, <3>1, ConfirmedStays DEF BridgeInv, ClocksOK
    <2>. QED  BY <1>1, <2>2, <2>3
  <1>2. CASE MinutePasses
    <2>1. ClocksOK' /\ lastPaper <= lastPaper'
      BY <1>2, BridgeAssumption DEF MinutePasses, BridgeInv, ClocksOK
    <2>. QED  BY <1>2, <2>1, ConfirmedStays DEF MinutePasses, BridgeInv, ClocksOK
  <1>3. CASE TwsChanges
    <2>1. ClocksOK' /\ lastPaper <= lastPaper'
      BY <1>3 DEF TwsChanges, BridgeInv, ClocksOK
    <2>. QED  BY <1>3, <2>1, ConfirmedStays DEF TwsChanges, BridgeInv, ClocksOK
  <1>4. ASSUME NEW provider \in OtherProviders, NEW state \in {"ready", "unavailable"},
               OtherRow(provider, state)
        PROVE  BridgeInv'
    <2>. DEFINE row == [provider |-> provider, state |-> state, observed |-> minute, recorded |-> minute]
    <2>1. row \in HealthRow /\ row.provider # "ibkr_tws_paper" /\ health' = Append(health, row)
      BY <1>4, BridgeAssumption DEF OtherRow, HealthRow, BridgeInv, ClocksOK
    <2>2. HealthOK'
      <3>. HIDE DEF row
      <3>. QED  BY <1>4, <2>1, RowAppended DEF OtherRow
    <2>. QED  BY <1>4, <2>2, ConfirmedStays DEF OtherRow, BridgeInv, ClocksOK
  <1>5. CASE Tick \/ StartBridge \/ NextSymbol \/ AllCollected \/ TakeStock \/ NextOption
               \/ TakeOption \/ PostOptions
    BY <1>1, <1>5
    DEF Tick, StartBridge, NextSymbol, AllCollected, TakeStock, NextOption, TakeOption, PostOptions
  <1>6. CASE Connect
    <2>1. ClocksOK'
      BY <1>6 DEF Connect, BridgeInv, ClocksOK
    <2>2. PICK connected \in BOOLEAN, news \in BOOLEAN, accounts \in SUBSET ({tws} \ {"down"}) :
            beat' = [observed |-> minute + skew, connected |-> connected,
                     paper |-> Paper(accounts), news |-> connected /\ news]
      BY <1>6 DEF Connect
    <2>3. Paper(accounts) \in BOOLEAN /\ (Paper(accounts) => tws = "paper")
      BY DEF Paper
    <2>4. /\ beat' \in Heartbeat /\ beat'.observed = minute + skew
          /\ beat'.paper => tws = "paper"
      BY <2>2, <2>3 DEF Heartbeat, BridgeInv, ClocksOK
    <2>5. BeatOK'
      BY <1>6, <2>1, <2>4 DEF Connect, BeatOK, Confirmed, ClocksOK, BridgeInv
    <2>. QED  BY <1>6, <2>1, <2>5, ConfirmedStays DEF Connect, BridgeInv, ClocksOK
  <1>7. CASE PostHeartbeat
    <2>1. ClocksOK' /\ UNCHANGED <<minute, skew, tws, lastPaper>>
      BY <1>7 DEF PostHeartbeat, BridgeInv, ClocksOK
    <2>2. BeatOK'
      <3>1. beat' = beat \/ beat' = NoBeat
        BY <1>7 DEF PostHeartbeat
      <3>2. NoBeat \in Heartbeat /\ ~NoBeat.connected
        BY DEF NoBeat, Heartbeat
      <3>. QED  BY <2>1, <3>1, <3>2, ConfirmedStays DEF BeatOK, BridgeInv, ClocksOK
    <2>3. HealthOK'
      <3>1. CASE health' = health
        BY <2>1, <3>1, ConfirmedStays DEF BridgeInv, ClocksOK
      <3>2. CASE health' # health
        <4>. DEFINE row == [provider |-> "ibkr_tws_paper", state |-> ProviderStateOf(beat),
                            observed |-> beat.observed, recorded |-> minute]
        <4>1. WithinWindow(beat.observed) /\ health' = Append(health, row)
          BY <1>7, <3>2 DEF PostHeartbeat
        <4>2. /\ ProviderStateOf(beat) \in {"ready", "degraded", "unavailable"}
              /\ ProviderStateOf(beat) = "ready" => beat.connected /\ beat.paper
          BY DEF ProviderStateOf, BridgeInv, BeatOK, Heartbeat
        <4>3. row \in HealthRow /\ row.state = ProviderStateOf(beat)
                /\ row.observed = beat.observed /\ row.recorded = minute
          BY <4>2 DEF HealthRow, BridgeInv, BeatOK, Heartbeat, ClocksOK
        <4>4. beat.observed <= minute + MaxAhead
          BY <4>1 DEF WithinWindow
        <4>5. row.state = "ready" => Confirmed(row.observed) /\ row.observed <= row.recorded + MaxAhead
          BY <4>2, <4>3, <4>4 DEF BridgeInv, BeatOK
        <4>. HIDE DEF row
        <4>. QED  BY <2>1, <4>1, <4>3, <4>5, RowAppended
      <3>. QED  BY <3>1, <3>2
    <2>. QED  BY <2>1, <2>2, <2>3 DEF BridgeInv
  <1>8. CASE UNCHANGED bridgeVars
    BY <1>1, <1>8 DEF bridgeVars
  <1>. QED
    BY <1>2, <1>3, <1>4, <1>5, <1>6, <1>7, <1>8 DEF BridgeNext

\* A set of numbers that is bounded and not empty has a largest one.
LEMMA LargestExists ==
  ASSUME NEW n \in Nat, NEW T, T \subseteq 1..n, T # {}
  PROVE  \E i \in T : \A j \in T : j <= i
  <1>. DEFINE below == {n - i : i \in T}
  <1>0. \A i \in T : i \in Int /\ i <= n /\ n - i \in Nat
    OBVIOUS
  <1>1. below \subseteq Nat /\ below # {}
    BY <1>0
  <1>2. PICK x \in below : \A y \in below : ~(<<y, x>> \in OpToRel(<, Nat))
    <2>. HIDE DEF below
    <2>. QED  BY <1>1, NatLessThanWellFounded, WFMin
  <1>3. x \in Nat
    BY <1>1, <1>2
  <1>4. ASSUME NEW y \in below PROVE ~(y < x)
    <2>0. y \in Nat
      BY <1>1
    <2>1. ~(<<y, x>> \in OpToRel(<, Nat))
      BY <1>2
    <2>. QED  BY <2>0, <2>1, <1>3, Zenon DEF OpToRel
  <1>5. PICK i \in T : x = n - i
    BY <1>2
  <1>6. ASSUME NEW j \in T PROVE j <= i
    <2>1. ~(n - j < n - i)
      BY <1>4, <1>5
    <2>. QED  BY <2>1, <1>0
  <1>. QED  BY <1>6

LEMMA BridgeInvRecent == BridgeInv => ReadyIsRecent
  <1>. SUFFICES ASSUME BridgeInv, CardState("ibkr_tws_paper") = "ready"
                PROVE  /\ lastPaper >= 0 /\ minute <= lastPaper + StaleAfter + skew
                       /\ \E i \in CardRows("ibkr_tws_paper") :
                            health[i].state = "ready" /\ minute <= health[i].recorded + StaleAfter + MaxAhead
    BY DEF ReadyIsRecent
  <1>. DEFINE rows == CardRows("ibkr_tws_paper")
              last == CHOOSE i \in rows : \A j \in rows : j <= i
  <1>1. rows # {}
    BY DEF CardState
  <1>2. rows \subseteq 1..Len(health) /\ Len(health) \in Nat
    BY DEF CardRows, BridgeInv, HealthOK
  <1>3. last \in rows
    <2>. HIDE DEF rows
    <2>. QED  BY <1>1, <1>2, LargestExists
  <1>4. ~Stale(health[last].observed) /\ health[last].state = "ready"
    BY <1>1 DEF CardState
  <1>5. health[last] \in HealthRow /\ health[last].provider = "ibkr_tws_paper"
    BY <1>2, <1>3 DEF CardRows, BridgeInv, HealthOK
  <1>6. Confirmed(health[last].observed) /\ health[last].observed <= health[last].recorded + MaxAhead
    BY <1>2, <1>3, <1>4, <1>5 DEF BridgeInv, HealthOK
  <1>7. /\ health[last].observed \in Int /\ health[last].recorded \in Nat
        /\ StaleAfter \in Nat /\ MaxAhead \in Nat
    BY <1>5, BridgeAssumption DEF HealthRow
  <1>8. minute <= health[last].observed + StaleAfter
    BY <1>4, <1>7 DEF Stale, BridgeInv, ClocksOK
  <1>9. lastPaper >= 0 /\ minute <= lastPaper + StaleAfter + skew
    BY <1>6, <1>7, <1>8 DEF Confirmed, BridgeInv, ClocksOK
  <1>10. minute <= health[last].recorded + StaleAfter + MaxAhead
    BY <1>6, <1>7, <1>8 DEF BridgeInv, ClocksOK
  <1>. QED  BY <1>3, <1>4, <1>9, <1>10

LEMMA ServiceImplementsBridge == Spec => BridgeSpec
  <1>1. Init => BridgeInit
    BY DEF Init
  <1>2. [Next]_vars => [BridgeNext]_bridgeVars
    BY DEF Next, vars, bridgeVars
  <1>. QED  BY <1>1, <1>2, PTL DEF Spec, BridgeSpec

\* Whatever the laptop's clock says and however late a heartbeat comes, the
\* card says ready only of a TWS that was up with a paper account lately
\* (health_console.py, and ibkr_bridge_heartbeat of main.py).
THEOREM ReadyCardsAreRecent == Spec => []ReadyIsRecent
  <1>1. BridgeSpec => []BridgeInv
    BY BridgeInitial, BridgeStep, PTL DEF BridgeSpec
  <1>. QED  BY <1>1, BridgeInvRecent, ServiceImplementsBridge, PTL

-----------------------------------------------------------------------------
(* The event of the operator's refresh.                                    *)

Providers == {"finviz", "regime", "cboe", "macro", "sec", "ai"}
RowStates == {"ready", "degraded", "unavailable", "no_current_session_data"}

\* The component a step belongs to.
ComponentOf(s) ==
  CASE s \in {"finviz", "regime", "report"} -> "finviz"
    [] s \in {"cboe", "alert"} -> "cboe"
    [] s \in {"macro", "sec", "ai"} -> "news"
    [] s = "outcomes" -> "outcomes"
    [] s = "performance" -> "performance"
    [] OTHER -> "health"

\* The components that have not ended when the call is at one.
Rest(c) ==
  CASE c = "finviz" -> Components
    [] c = "cboe" -> Components \ {"finviz"}
    [] c = "news" -> {"news", "outcomes", "performance", "health"}
    [] c = "outcomes" -> {"outcomes", "performance", "health"}
    [] c = "performance" -> {"performance", "health"}
    [] OTHER -> {"health"}

Pending == IF step = "event" THEN {} ELSE Rest(component)

\* The sources whose rows a component tells of.
SourcesOf(c) ==
  CASE c = "finviz" -> {"finviz"} [] c = "cboe" -> {"cboe"} [] c = "news" -> {"macro", "sec", "ai"}
    [] OTHER -> {}

\* A component that raised, or wrote of a source that it is unavailable.
Trouble(c) == c \in raised \/ \E source \in SourcesOf(c) : <<source, "unavailable">> \in written

\* A status that keeps the refresh from being recorded as succeeded.
Bad(c) == statuses[c] \in {"partial", "unavailable"}

Failing == step \in {"sec", "ai"} /\ nested \cap {"failed", "unavailable"} # {}

\* Trouble is told by the status of its component, and before that has ended
\* by a status nested in the result of the news.
Told == \A c \in Components :
          Trouble(c) => IF c \in Pending THEN c = "news" /\ Failing ELSE Bad(c)

\* The rows are of the providers, and only the news say degraded of one.
RowsAreKnown ==
  /\ written \subseteq Providers \X RowStates
  /\ \A row \in written : row[2] = "degraded" => row[1] \in {"macro", "sec"}

RefreshInv ==
  /\ step \in Steps
  /\ statuses \in [Components -> Marks \cup {"none"}]
  /\ raised \subseteq Components
  /\ RowsAreKnown
  /\ step # "idle" => component = ComponentOf(step) /\ Told /\ systemEvent = "none"
  /\ SuccessIsHonest

LEMMA RefreshInitial == RefreshInit => RefreshInv
  BY DEF RefreshInit, RefreshInv, Steps, Components, RowsAreKnown, SuccessIsHonest

\* The next step after the end of a component is of the next one.
LEMMA EndMovesOn ==
  ASSUME NEW s \in Steps \ {"idle", "event"}
  PROVE  /\ After(ComponentOf(s)) \in Steps \ {"idle"}
         /\ NextComponent(ComponentOf(s)) = ComponentOf(After(ComponentOf(s)))
         /\ ComponentOf(s) \in Components
         /\ After(ComponentOf(s)) # "event" =>
              Rest(NextComponent(ComponentOf(s))) = Rest(ComponentOf(s)) \ {ComponentOf(s)}
         /\ After(ComponentOf(s)) = "event" => Rest(ComponentOf(s)) = {ComponentOf(s)}
         /\ s \in {"sec", "ai"} => ComponentOf(s) = "news"
         /\ ComponentOf(s) \in Rest(ComponentOf(s))
  <1>1. CASE s \in {"finviz", "regime", "report"}
    BY <1>1 DEF After, NextComponent, ComponentOf, Rest, Steps, Components
  <1>2. CASE s \in {"cboe", "alert"}
    BY <1>2 DEF After, NextComponent, ComponentOf, Rest, Steps, Components
  <1>3. CASE s \in {"macro", "sec", "ai"}
    BY <1>3 DEF After, NextComponent, ComponentOf, Rest, Steps, Components
  <1>4. CASE s = "outcomes"
    BY <1>4 DEF After, NextComponent, ComponentOf, Rest, Steps, Components
  <1>5. CASE s = "performance"
    BY <1>5 DEF After, NextComponent, ComponentOf, Rest, Steps, Components
  <1>6. CASE s = "health"
    BY <1>6 DEF After, NextComponent, ComponentOf, Rest, Steps, Components
  <1>. QED  BY <1>1, <1>2, <1>3, <1>4, <1>5, <1>6 DEF Steps

\* A component that ends keeps the invariant, if its mark tells of the trouble
\* it had.
LEMMA EndKeeps ==
  ASSUME RefreshInv, step \notin {"idle", "event"},
         NEW mark \in Marks, EndComponent(mark), NEW ended, ended = component,
         UNCHANGED systemEvent,
         RowsAreKnown', raised' \subseteq Components,
         \A c \in Components \ {ended} : Trouble(c)' => Trouble(c),
         Trouble(ended)' => mark # "completed"
  PROVE  RefreshInv'
  <1>1. component = ComponentOf(step) /\ Told /\ systemEvent' = "none" /\ step \in Steps
    BY DEF RefreshInv
  <1>2. step' = After(component) /\ component' = NextComponent(component)
    BY DEF EndComponent
  <1>3. /\ step' \in Steps \ {"idle"} /\ component' = ComponentOf(step')
        /\ component \in Components
        /\ Pending = Rest(component) /\ Pending' = Rest(component) \ {component}
        /\ Failing => component = "news"
    BY <1>1, <1>2, EndMovesOn DEF Pending, Failing
  <1>4. statuses' = [statuses EXCEPT ![component] = mark]
    BY DEF EndComponent
  <1>5. /\ statuses' \in [Components -> Marks \cup {"none"}]
        /\ statuses'[component] = mark
        /\ \A c \in Components \ {component} : statuses'[c] = statuses[c]
    BY <1>3, <1>4 DEF RefreshInv
  <1>6. ASSUME NEW c \in Components, Trouble(c)'
        PROVE  c \notin Pending' /\ Bad(c)'
    <2>1. CASE c = ended
      BY <1>3, <1>5, <1>6, <2>1 DEF Bad, Marks
    <2>2. CASE c # ended
      <3>1. IF c \in Pending THEN c = "news" /\ Failing ELSE Bad(c)
        BY <1>1, <1>6, <2>2 DEF Told
      <3>. QED  BY <1>3, <1>5, <2>2, <3>1 DEF Bad
    <2>. QED  BY <2>1, <2>2
  <1>7. Told'
    BY <1>6 DEF Told
  <1>8. SuccessIsHonest'
    BY <1>1 DEF SuccessIsHonest
  <1>. QED  BY <1>1, <1>3, <1>5, <1>7, <1>8 DEF RefreshInv

\* So does a step within a component.
LEMMA WithinKeeps ==
  ASSUME RefreshInv, step \notin {"idle", "event"},
         step' \in Steps \ {"idle", "event"}, ComponentOf(step') = ComponentOf(step),
         UNCHANGED <<component, statuses, raised, systemEvent>>,
         RowsAreKnown',
         \A c \in Components : Trouble(c)' =>
            \/ Trouble(c) /\ (Failing => Failing')
            \/ c = "news" /\ component = "news" /\ Failing'
  PROVE  RefreshInv'
  <1>1. component = ComponentOf(step) /\ Told /\ systemEvent' = "none"
    BY DEF RefreshInv
  <1>2. Pending' = Pending /\ Pending = Rest(component)
    BY DEF Pending
  <1>3. component = "news" => "news" \in Rest(component)
    BY DEF Rest
  <1>4. \A c \in Components : Bad(c)' = Bad(c)
    BY DEF Bad
  <1>5. Told'
    BY <1>1, <1>2, <1>3, <1>4 DEF Told
  <1>. QED  BY <1>1, <1>5 DEF RefreshInv, SuccessIsHonest

LEMMA MarkTells ==
  ASSUME NEW found
  PROVE  /\ Mark(found) \in Marks
         /\ found \cap {"failed", "unavailable"} # {} => Mark(found) = "unavailable"
         /\ "partial" \in found => Mark(found) # "completed"
  BY DEF Mark, Marks

\* Before its end only the news have trouble, and then their result tells it.
LEMMA TroubleIsNested ==
  ASSUME RefreshInv, step \notin {"idle", "event"}
  PROVE  component \in Components /\ (Trouble(component) => Failing)
  <1>1. component = ComponentOf(step) /\ Told /\ step \in Steps \ {"idle", "event"}
    BY DEF RefreshInv
  <1>2. component \in Components /\ component \in Pending
    BY <1>1, EndMovesOn DEF Pending
  <1>. QED  BY <1>1, <1>2 DEF Told

\* A component that raises, after it has written no row, or one of its own
\* sources.
LEMMA RaiseKeeps ==
  ASSUME RefreshInv, step \notin {"idle", "event"}, Raises, UNCHANGED systemEvent,
         \/ UNCHANGED written
         \/ \E source \in SourcesOf(component) : Writes(source, "unavailable")
  PROVE  RefreshInv'
  <1>1. component \in Components
    BY TroubleIsNested
  <1>2. EndComponent("unavailable") /\ raised' = raised \cup {component} /\ "unavailable" \in Marks
    BY DEF Raises, Marks
  <1>3. RowsAreKnown' /\ raised' \subseteq Components
    BY <1>1, <1>2 DEF RefreshInv, RowsAreKnown, Writes, SourcesOf, Providers, RowStates, Components
  <1>4. ASSUME NEW c \in Components, c # component, Trouble(c)' PROVE Trouble(c)
    <2>1. SourcesOf(c) \cap SourcesOf(component) = {}
      BY <1>1, <1>4 DEF SourcesOf, Components
    <2>. QED  BY <1>2, <1>4, <2>1 DEF Trouble, Writes
  <1>5. PICK ended : ended = component
    OBVIOUS
  <1>6. \A c \in Components \ {ended} : Trouble(c)' => Trouble(c)
    BY <1>4, <1>5
  <1>. QED  BY <1>2, <1>3, <1>5, <1>6, EndKeeps DEF Marks

\* A component that returns without a row of its own to tell.
LEMMA ReturnKeeps ==
  ASSUME RefreshInv, step \notin {"idle", "event"}, UNCHANGED <<systemEvent, written>>,
         NEW found, Failing => nested \subseteq found, Returns(found)
  PROVE  RefreshInv'
  <1>1. component \in Components /\ (Trouble(component) => Failing)
    BY TroubleIsNested
  <1>2. EndComponent(Mark(found)) /\ raised' = raised /\ Mark(found) \in Marks
    BY MarkTells DEF Returns
  <1>3. Failing => Mark(found) # "completed"
    BY MarkTells DEF Failing
  <1>4. RowsAreKnown' /\ raised' \subseteq Components /\ \A c \in Components : Trouble(c)' = Trouble(c)
    BY <1>2 DEF RefreshInv, RowsAreKnown, Trouble
  <1>5. PICK ended : ended = component
    OBVIOUS
  <1>6. Trouble(ended)' => Mark(found) # "completed"
    BY <1>1, <1>3, <1>4, <1>5
  <1>. QED  BY <1>2, <1>4, <1>5, <1>6, EndKeeps

LEMMA RefreshStepKeeps == RefreshInv /\ [RefreshNext]_refreshVars => RefreshInv'
  <1>. SUFFICES ASSUME RefreshInv, [RefreshNext]_refreshVars PROVE RefreshInv'
    OBVIOUS
  <1>. USE DEF Unchanged
  <1>1. CASE StartRefresh
    BY <1>1 DEF StartRefresh, RefreshInv, Steps, Components, Marks, ComponentOf, Told, Trouble,
                RowsAreKnown, SuccessIsHonest
  <1>2. CASE FetchFinviz
    <2>1. step = "finviz" /\ UNCHANGED systemEvent /\ component = "finviz"
      BY <1>2 DEF FetchFinviz, RefreshInv, ComponentOf
    <2>2. CASE Goes("regime") /\ UNCHANGED written
      BY <2>1, <2>2, WithinKeeps DEF Goes, RefreshInv, RowsAreKnown, Trouble, Failing, Steps, ComponentOf
    <2>3. CASE Raises /\ Writes("finviz", "unavailable")
      BY <2>1, <2>3, RaiseKeeps DEF SourcesOf
    <2>. QED  BY <1>2, <2>2, <2>3 DEF FetchFinviz
  <1>3. CASE VerifyRegime
    <2>1. /\ step = "regime" /\ step' = "report" /\ UNCHANGED <<component, statuses, raised, systemEvent>>
          /\ \/ written' = written \cup {<<"finviz", "ready">>}
             \/ written' = written \cup {<<"finviz", "ready">>, <<"regime", "unavailable">>}
      BY <1>3 DEF VerifyRegime, Goes
    <2>2. RowsAreKnown'
      BY <2>1 DEF RefreshInv, RowsAreKnown, Providers, RowStates
    <2>3. \A c \in Components : Trouble(c)' => Trouble(c)
      BY <2>1 DEF Trouble, SourcesOf, Components
    <2>. QED  BY <2>1, <2>2, <2>3, WithinKeeps DEF Steps, ComponentOf, Failing
  <1>4. CASE DailyReport
    <2>1. /\ step \notin {"idle", "event"} /\ ~Failing /\ UNCHANGED <<systemEvent, written>>
          /\ Returns({}) \/ Raises
      BY <1>4 DEF DailyReport, Failing
    <2>. QED  BY <2>1, ReturnKeeps, RaiseKeeps
  <1>5. CASE FetchCboe
    <2>1. step = "cboe" /\ UNCHANGED systemEvent /\ component = "cboe"
      BY <1>5 DEF FetchCboe, RefreshInv, ComponentOf
    <2>2. CASE Raises /\ Writes("cboe", "unavailable")
      BY <2>1, <2>2, RaiseKeeps DEF SourcesOf
    <2>3. ASSUME NEW state \in {"ready", "no_current_session_data"}, Writes("cboe", state), Goes("alert")
          PROVE  RefreshInv'
      <3>1. RowsAreKnown'
        BY <2>3 DEF RefreshInv, RowsAreKnown, Providers, RowStates, Writes
      <3>2. \A c \in Components : Trouble(c)' => Trouble(c)
        BY <2>3 DEF Trouble, Writes, Goes
      <3>. QED  BY <2>1, <2>3, <3>1, <3>2, WithinKeeps DEF Goes, Steps, ComponentOf, Failing
    <2>. QED  BY <1>5, <2>2, <2>3 DEF FetchCboe
  <1>6. CASE AlertCboe
    <2>1. /\ step \notin {"idle", "event"} /\ ~Failing /\ UNCHANGED <<systemEvent, written>>
          /\ Returns({}) \/ Raises
      BY <1>6 DEF AlertCboe, Failing
    <2>. QED  BY <2>1, ReturnKeeps, RaiseKeeps
  <1>7. CASE FetchMacro
    <2>1. step = "macro" /\ UNCHANGED systemEvent /\ component = "news" /\ ~Trouble("news")
      BY <1>7, TroubleIsNested DEF FetchMacro, RefreshInv, ComponentOf, Failing
    <2>2. ASSUME step' = "sec", UNCHANGED <<component, statuses, raised>>,
                 NEW state \in {"unavailable", "degraded", "ready"}, Writes("macro", state),
                 state = "unavailable" => nested' = {"unavailable"}
          PROVE  RefreshInv'
      <3>1. RowsAreKnown'
        BY <2>2 DEF RefreshInv, RowsAreKnown, Providers, RowStates, Writes
      <3>2. ASSUME NEW c \in Components, Trouble(c)' PROVE Trouble(c) \/ (c = "news" /\ Failing')
        <4>1. "macro" \in SourcesOf(c) => c = "news"
          BY DEF SourcesOf
        <4>2. state = "unavailable" => Failing'
          BY <2>2 DEF Failing
        <4>. QED  BY <2>2, <3>2, <4>1, <4>2 DEF Trouble, Writes
      <3>3. ~Failing
        BY <2>1 DEF Failing
      <3>. QED  BY <2>1, <2>2, <3>1, <3>2, <3>3, WithinKeeps DEF Steps, ComponentOf
    <2>3. CASE Raises /\ UNCHANGED written
      BY <2>1, <2>3, RaiseKeeps
    <2>. QED  BY <1>7, <2>2, <2>3 DEF FetchMacro
  <1>8. CASE FetchSec
    <2>1. /\ step = "sec" /\ step' = "ai" /\ component = "news"
          /\ UNCHANGED <<component, statuses, raised, systemEvent>>
          /\ nested \subseteq nested'
      BY <1>8 DEF FetchSec, RefreshInv, ComponentOf
    <2>2. Failing => Failing'
      BY <2>1 DEF Failing
    <2>3. RowsAreKnown'
      BY <1>8 DEF FetchSec, RefreshInv, RowsAreKnown, Providers, RowStates, Writes
    <2>4. ASSUME NEW c \in Components, Trouble(c)' PROVE Trouble(c) \/ (c = "news" /\ Failing')
      <3>1. CASE UNCHANGED written
        <4>1. raised' = raised /\ written' = written
          BY <2>1, <3>1
        <4>. QED  BY <2>4, <4>1 DEF Trouble
      <3>2. ASSUME NEW status \in {"succeeded", "partial", "failed", "unavailable"}, NEW row,
                   nested' = nested \cup {status}, written' = written \cup {<<"sec", row>>},
                   row = "unavailable" => status \in {"failed", "unavailable"}
            PROVE  Trouble(c) \/ (c = "news" /\ Failing')
        <4>1. "sec" \in SourcesOf(c) => c = "news"
          BY DEF SourcesOf
        <4>2. row = "unavailable" => Failing'
          BY <2>1, <3>2 DEF Failing
        <4>. QED  BY <2>1, <2>4, <3>2, <4>1, <4>2 DEF Trouble
      <3>. QED  BY <1>8, <3>1, <3>2 DEF FetchSec, Writes
    <2>. QED  BY <2>1, <2>2, <2>3, <2>4, WithinKeeps DEF Steps, ComponentOf
  <1>9. CASE Summaries
    <2>1. step = "ai" /\ UNCHANGED systemEvent /\ component = "news"
      BY <1>9 DEF Summaries, RefreshInv, ComponentOf
    <2>2. ASSUME NEW status, Returns(nested \cup {status}), UNCHANGED written
          PROVE  RefreshInv'
      BY <2>1, <2>2, ReturnKeeps
    <2>3. CASE Raises /\ UNCHANGED written
      BY <2>1, <2>3, RaiseKeeps
    <2>4. CASE Raises /\ written' = written \cup {<<"ai", "unavailable">>}
      BY <2>1, <2>4, RaiseKeeps DEF SourcesOf, Writes
    <2>5. CASE Returns(nested \cup {"partial"}) /\ written' = written \cup {<<"ai", "unavailable">>}
      <3>1. EndComponent(Mark(nested \cup {"partial"})) /\ raised' = raised
        BY <2>5 DEF Returns
      <3>2. Mark(nested \cup {"partial"}) \in Marks /\ Mark(nested \cup {"partial"}) # "completed"
        BY MarkTells
      <3>3. RowsAreKnown' /\ raised' \subseteq Components
        BY <2>5, <3>1 DEF RefreshInv, RowsAreKnown, Providers, RowStates
      <3>4. \A c \in Components \ {"news"} : Trouble(c)' => Trouble(c)
        BY <2>1, <2>5, <3>1 DEF Trouble, SourcesOf, Components
      <3>. QED  BY <2>1, <3>1, <3>2, <3>3, <3>4, EndKeeps
    <2>. QED  BY <1>9, <2>2, <2>3, <2>4, <2>5 DEF Summaries, SummaryStatus
  <1>10. CASE RunComponent
    <2>1. /\ step \notin {"idle", "event"} /\ ~Failing /\ UNCHANGED <<systemEvent, written>>
          /\ Returns({}) \/ Raises
      BY <1>10 DEF RunComponent, Failing
    <2>. QED  BY <2>1, ReturnKeeps, RaiseKeeps
  <1>11. CASE RecordRefresh
    <2>1. /\ step = "event" /\ step' = "idle" /\ UNCHANGED <<statuses, written, raised>>
          /\ systemEvent' = IF \E c \in Components : Bad(c) THEN "partial" ELSE "succeeded"
      BY <1>11 DEF RecordRefresh, Bad
    <2>2. ASSUME systemEvent' = "succeeded" PROVE \A c \in Components : ~Trouble(c)
      BY <2>1, <2>2 DEF RefreshInv, Told, Pending
    <2>3. SuccessIsHonest'
      <3>1. ASSUME systemEvent' = "succeeded", NEW row \in written, row[2] = "unavailable"
            PROVE  row[1] = "regime"
        <4>1. row = <<row[1], "unavailable">> /\ row[1] \in Providers
          BY <3>1 DEF RefreshInv, RowsAreKnown
        <4>2. \A c \in Components : row[1] \notin SourcesOf(c)
          BY <2>2, <3>1, <4>1 DEF Trouble
        <4>. QED  BY <4>1, <4>2 DEF SourcesOf, Components, Providers
      <3>2. systemEvent' = "succeeded" => raised = {}
        BY <2>2 DEF RefreshInv, Trouble
      <3>. QED  BY <2>1, <3>1, <3>2 DEF SuccessIsHonest, RefreshInv, RowsAreKnown
    <2>. QED  BY <2>1, <2>3 DEF RefreshInv, Steps, RowsAreKnown
  <1>12. CASE Killed
    BY <1>12 DEF Killed, RefreshInv, Steps, RowsAreKnown, SuccessIsHonest
  <1>13. CASE UNCHANGED refreshVars
    BY <1>13 DEF refreshVars, RefreshInv, RowsAreKnown, SuccessIsHonest, Told, Trouble, Pending, Failing, Bad
  <1>. QED  BY <1>1, <1>2, <1>3, <1>4, <1>5, <1>6, <1>7, <1>8, <1>9, <1>10, <1>11, <1>12, <1>13
            DEF RefreshNext, RefreshStep

LEMMA ServiceImplementsRefresh == Spec => RefreshSpec
  <1>1. Init => RefreshInit
    BY DEF Init
  <1>2. [Next]_vars => [RefreshNext]_refreshVars
    BY DEF Next, vars, refreshVars
  <1>. QED  BY <1>1, <1>2, PTL DEF Spec, RefreshSpec

\* A refresh whose event says succeeded raised nowhere and has written no row
\* that calls one of its sources unavailable, whatever was fetched and whichever
\* process died (operator_full_refresh of main.py).
THEOREM SucceededIsHonest == Spec => []SuccessIsHonest
  <1>1. RefreshSpec => []RefreshInv
    BY RefreshInitial, RefreshStepKeeps, PTL DEF RefreshSpec
  <1>2. RefreshInv => SuccessIsHonest
    BY DEF RefreshInv
  <1>. QED  BY <1>1, <1>2, ServiceImplementsRefresh, PTL
-----------------------------------------------------------------------------
(* The budget of AI requests.                                              *)

\* What a request has in hand: it never goes by more than the cap allows, and
\* the event it is paying for is no longer on its list.
TasksOK ==
  \A a \in Analysts :
    /\ used[a] <= Cap
    /\ task[a] = "charge" => used[a] + cost[a] <= Cap
    /\ task[a] = "reserve" => used[a] + ImageReserve <= Cap
    /\ task[a] \in {"charge", "store"} => event[a] \in News /\ event[a] \notin queue[a]
    /\ task[a] \notin {"charge", "store"} => event[a] = NoNews
    /\ task[a] \notin {"ask", "charge", "store"} => queue[a] = {}

\* Sums over requests are counted as sets of pairs.  What each may still
\* spend, and what each has been charged that is not in the ledger yet.
Room == {p \in Analysts \X (1..Cap) : task[p[1]] # "idle" /\ p[2] > used[p[1]]}
Owed == {p \in Analysts \X (1..Reserve) : task[p[1]] = "charge" /\ p[2] <= cost[p[1]]}

SpendOK == ledger + Cardinality(Room) <= Cap * Cardinality(Analysts)
ChargedOK == charged <= ledger + Cardinality(Owed) + Reserve * (unusable + abandoned)

\* The requests that have an answer for n, and those that have it on their list.
AnsweredFor(n) == {a \in Analysts : event[a] = n}
Asking(n) == {a \in Analysts : n \in queue[a]}

PaidOK ==
  \A n \in News :
    /\ n \notin summarised => paid[n] <= Cardinality(AnsweredFor(n)) + abandoned
    /\ n \in summarised => paid[n] + Cardinality(Asking(n)) <= Cardinality(Analysts) + abandoned

BudgetInv == BudgetTypeOK /\ TasksOK /\ SpendOK /\ ChargedOK /\ PaidOK

LEMMA BudgetCounts ==
  /\ IsFiniteSet(Analysts) /\ Cardinality(Analysts) \in Nat
  /\ IsFiniteSet(Room) /\ Cardinality(Room) \in Nat
  /\ IsFiniteSet(Owed) /\ Cardinality(Owed) \in Nat
  /\ \A n : IsFiniteSet(AnsweredFor(n)) /\ Cardinality(AnsweredFor(n)) \in Nat
  /\ \A n : IsFiniteSet(Asking(n)) /\ Cardinality(Asking(n)) \in Nat
  <1>1. IsFiniteSet(Analysts) /\ Cap \in Nat /\ Reserve \in Nat
    BY BudgetAssumption
  <1>2. IsFiniteSet(1..Cap) /\ IsFiniteSet(1..Reserve)
    BY <1>1, FS_Interval
  <1>3. IsFiniteSet(Analysts \X (1..Cap)) /\ IsFiniteSet(Analysts \X (1..Reserve))
    BY <1>1, <1>2, FS_Product
  <1>4. IsFiniteSet(Room) /\ IsFiniteSet(Owed)
    BY <1>3, FS_Subset DEF Room, Owed
  <1>5. ASSUME NEW n PROVE IsFiniteSet(AnsweredFor(n)) /\ IsFiniteSet(Asking(n))
    BY <1>1, FS_Subset DEF AnsweredFor, Asking
  <1>. QED  BY <1>1, <1>4, <1>5, FS_CardinalityType

LEMMA IntervalCounts ==
  ASSUME NEW i \in Nat, NEW j \in Nat, i <= j
  PROVE  IsFiniteSet((i + 1)..j) /\ Cardinality((i + 1)..j) = j - i
  <1>. DEFINE k == i + 1
  <1>1. k \in Int /\ j \in Int
    OBVIOUS
  <1>. HIDE DEF k
  <1>2. IsFiniteSet(k..j) /\ Cardinality(k..j) = IF k > j THEN 0 ELSE j - k + 1
    BY <1>1, FS_Interval
  <1>3. (IF k > j THEN 0 ELSE j - k + 1) = j - i
    BY DEF k
  <1>. QED  BY <1>2, <1>3 DEF k

LEMMA UpToCounts ==
  ASSUME NEW n \in Nat
  PROVE  IsFiniteSet(1..n) /\ Cardinality(1..n) = n
  <1>. DEFINE one == 1
  <1>1. one \in Int /\ n \in Int
    OBVIOUS
  <1>. HIDE DEF one
  <1>2. IsFiniteSet(one..n) /\ Cardinality(one..n) = IF one > n THEN 0 ELSE n - one + 1
    BY <1>1, FS_Interval
  <1>3. (IF one > n THEN 0 ELSE n - one + 1) = n
    BY DEF one
  <1>. QED  BY <1>2, <1>3 DEF one

\* The pairs of one request.
LEMMA SliceCounts ==
  ASSUME NEW a, NEW i \in Nat, NEW j \in Nat, i <= j
  PROVE  IsFiniteSet({a} \X ((i + 1)..j)) /\ Cardinality({a} \X ((i + 1)..j)) = j - i
  <1>1. /\ IsFiniteSet((i + 1)..j) /\ Cardinality((i + 1)..j) = j - i
        /\ 1 * (j - i) = j - i
    BY IntervalCounts
  <1>2. IsFiniteSet({a}) /\ Cardinality({a}) = 1
    BY FS_Singleton
  <1>3. /\ IsFiniteSet({a} \X ((i + 1)..j))
        /\ Cardinality({a} \X ((i + 1)..j)) = Cardinality({a}) * Cardinality((i + 1)..j)
    <2>. DEFINE interval == (i + 1)..j
    <2>1. IsFiniteSet(interval)
      BY <1>1
    <2>. HIDE DEF interval
    <2>2. /\ IsFiniteSet({a} \X interval)
          /\ Cardinality({a} \X interval) = Cardinality({a}) * Cardinality(interval)
      BY <1>2, <2>1, FS_Product
    <2>. QED  BY <2>2 DEF interval
  <1>. QED  BY <1>1, <1>2, <1>3

LEMMA BudgetInitial == BudgetInit => BudgetInv
  <1>. SUFFICES ASSUME BudgetInit PROVE BudgetInv
    OBVIOUS
  <1>1. BudgetTypeOK
    BY BudgetAssumption DEF BudgetInit, BudgetTypeOK, Tasks
  <1>2. TasksOK
    BY BudgetAssumption DEF BudgetInit, TasksOK
  <1>3. Room = {} /\ Owed = {} /\ Cardinality({}) = 0
    BY FS_EmptySet DEF BudgetInit, Room, Owed
  <1>4. SpendOK /\ ChargedOK
    <2>1. Cap * Cardinality(Analysts) \in Nat /\ Reserve * 0 = 0
      BY BudgetCounts, BudgetAssumption
    <2>. QED  BY <1>3, <2>1 DEF BudgetInit, SpendOK, ChargedOK
  <1>5. PaidOK
    BY BudgetCounts DEF BudgetInit, PaidOK
  <1>. QED  BY <1>1, <1>2, <1>4, <1>5 DEF BudgetInv

LEMMA BudgetTypeStep == BudgetTypeOK /\ TasksOK /\ [BudgetNext]_budgetVars => BudgetTypeOK' /\ TasksOK'
  <1>. SUFFICES ASSUME BudgetTypeOK, TasksOK, [BudgetNext]_budgetVars
                PROVE  BudgetTypeOK' /\ TasksOK'
    OBVIOUS
  <1>0. /\ Cap \in Nat /\ Reserve \in Nat /\ ImageReserve \in Nat /\ NoNews \notin News
        /\ \A amount \in Costs \cup {0} : amount \in Nat /\ amount <= Reserve
    BY BudgetAssumption
  <1>. USE DEF BudgetTypeOK, TasksOK, Tasks, Affords, analysis, spent
  <1>1. CASE NewMonth
    BY <1>0, <1>1 DEF NewMonth
  <1>2. ASSUME NEW a \in Analysts, Summarise(a) PROVE BudgetTypeOK' /\ TasksOK'
    BY <1>0, <1>2 DEF Summarise
  <1>3. ASSUME NEW a \in Analysts, ReadSpend(a) PROVE BudgetTypeOK' /\ TasksOK'
    BY <1>0, <1>3 DEF ReadSpend
  <1>4. ASSUME NEW a \in Analysts, ListNews(a) PROVE BudgetTypeOK' /\ TasksOK'
    BY <1>0, <1>4 DEF ListNews, EndAnalysis
  <1>5. ASSUME NEW a \in Analysts, NEW n \in News, Answered(a, n) PROVE BudgetTypeOK' /\ TasksOK'
    BY <1>0, <1>5 DEF Answered
  <1>6. ASSUME NEW a \in Analysts, NEW n \in News, Unanswered(a, n) PROVE BudgetTypeOK' /\ TasksOK'
    BY <1>0, <1>6 DEF Unanswered
  <1>7. ASSUME NEW a \in Analysts, Charge(a) PROVE BudgetTypeOK' /\ TasksOK'
    BY <1>0, <1>7 DEF Charge, OwnSpend
  <1>8. ASSUME NEW a \in Analysts, StoreSummary(a) PROVE BudgetTypeOK' /\ TasksOK'
    BY <1>0, <1>8 DEF StoreSummary, Stored
  <1>9. ASSUME NEW a \in Analysts, Summarised(a) PROVE BudgetTypeOK' /\ TasksOK'
    BY <1>0, <1>9 DEF Summarised, EndAnalysis
  <1>10. ASSUME NEW a \in Analysts, ReserveImage(a) PROVE BudgetTypeOK' /\ TasksOK'
    BY <1>0, <1>10 DEF ReserveImage, OwnSpend
  <1>11. ASSUME NEW a \in Analysts, SendImage(a) PROVE BudgetTypeOK' /\ TasksOK'
    BY <1>0, <1>11 DEF SendImage, EndAnalysis
  <1>12. ASSUME NEW a \in Analysts, Abandon(a) PROVE BudgetTypeOK' /\ TasksOK'
    BY <1>0, <1>12 DEF Abandon, EndAnalysis
  <1>13. CASE UNCHANGED budgetVars
    BY <1>13 DEF budgetVars
  <1>. QED  BY <1>1, <1>2, <1>3, <1>4, <1>5, <1>6, <1>7, <1>8, <1>9, <1>10, <1>11, <1>12, <1>13
            DEF BudgetNext, AnalysisStep

\* A request reads the ledger: it may spend what is left, every other request
\* the whole cap.
LEMMA StartKeepsSpend ==
  ASSUME BudgetInv, NEW a \in Analysts, ledger <= Cap,
         used' = [used EXCEPT ![a] = ledger], ledger' = ledger,
         \A b \in Analysts \ {a} : task'[b] = task[b]
  PROVE  SpendOK'
  <1>. DEFINE others == (Analysts \ {a}) \X (1..Cap)
              own == {a} \X ((ledger + 1)..Cap)
  <1>0. ledger \in Nat /\ Cap \in Nat /\ used \in [Analysts -> Nat]
    BY BudgetAssumption DEF BudgetInv, BudgetTypeOK
  <1>1. Room' \subseteq others \cup own
    BY <1>0 DEF Room
  <1>2. /\ IsFiniteSet(others)
        /\ Cardinality(others) = (Cardinality(Analysts) - 1) * Cap
    <2>1. IsFiniteSet(Analysts \ {a}) /\ Cardinality(Analysts \ {a}) = Cardinality(Analysts) - 1
      BY BudgetCounts, FS_RemoveElement
    <2>2. IsFiniteSet(1..Cap) /\ Cardinality(1..Cap) = Cap
      BY <1>0, UpToCounts
    <2>3. Cardinality(others) = Cardinality(Analysts \ {a}) * Cardinality(1..Cap)
            /\ IsFiniteSet(others)
      BY <2>1, <2>2, FS_Product
    <2>. QED  BY <2>1, <2>2, <2>3
  <1>3. IsFiniteSet(own) /\ Cardinality(own) = Cap - ledger
    BY <1>0, SliceCounts
  <1>. HIDE DEF others, own
  <1>4. /\ IsFiniteSet(others \cup own)
        /\ Cardinality(others \cup own) = Cardinality(others) + Cardinality(own) - Cardinality(others \cap own)
        /\ Cardinality(others \cap own) \in Nat
    BY <1>2, <1>3, FS_Union, FS_Intersection, FS_CardinalityType
  <1>5. Cardinality(Room') \in Nat /\ Cardinality(Room') <= Cardinality(others \cup own)
    BY <1>1, <1>4, FS_Subset, FS_CardinalityType
  <1>6. (Cardinality(Analysts) - 1) * Cap = Cap * Cardinality(Analysts) - Cap
    BY <1>0, BudgetCounts
  <1>7. Cap * Cardinality(Analysts) \in Nat
    BY <1>0, BudgetCounts
  <1>. QED  BY <1>0, <1>2, <1>3, <1>4, <1>5, <1>6, <1>7 DEF SpendOK

\* A request adds to the ledger and to its own total: it may spend so much less.
LEMMA SpendingKeepsSpend ==
  ASSUME BudgetInv, NEW a \in Analysts, NEW amount \in Nat, task[a] # "idle",
         used[a] + amount <= Cap,
         used' = [used EXCEPT ![a] = used[a] + amount], ledger' = ledger + amount,
         \A b \in Analysts : task'[b] = "idle" <=> task[b] = "idle"
  PROVE  SpendOK'
  <1>. DEFINE own == {a} \X ((used[a] + 1)..(used[a] + amount))
  <1>0. /\ ledger \in Nat /\ Cap \in Nat /\ used \in [Analysts -> Nat] /\ used[a] \in Nat
        /\ ledger + Cardinality(Room) <= Cap * Cardinality(Analysts)
        /\ Cap * Cardinality(Analysts) \in Nat
    BY BudgetCounts, BudgetAssumption DEF BudgetInv, BudgetTypeOK, SpendOK
  <1>1. Room = Room' \cup own /\ Room' \cap own = {}
    BY <1>0 DEF Room
  <1>2. IsFiniteSet(own) /\ Cardinality(own) = amount
    <2>1. /\ used[a] + amount \in Nat /\ used[a] <= used[a] + amount
          /\ (used[a] + amount) - used[a] = amount
      BY <1>0
    <2>2. IsFiniteSet(own) /\ Cardinality(own) = (used[a] + amount) - used[a]
      BY <1>0, <2>1, SliceCounts
    <2>. QED  BY <2>1, <2>2
  <1>. HIDE DEF own
  <1>3. IsFiniteSet(Room')
    BY <1>1, BudgetCounts, FS_Subset
  <1>4. Cardinality(Room) = Cardinality(Room') + Cardinality(own) - Cardinality({})
    BY <1>1, <1>2, <1>3, FS_Union
  <1>5. Cardinality({}) = 0 /\ Cardinality(Room') \in Nat
    BY <1>3, FS_EmptySet, FS_CardinalityType
  <1>. QED  BY <1>0, <1>2, <1>4, <1>5 DEF SpendOK

LEMMA FewerKeepSpend ==
  ASSUME BudgetInv, Room' \subseteq Room, ledger' \in Nat, ledger' <= ledger
  PROVE  SpendOK'
  <1>1. Cardinality(Room') <= Cardinality(Room) /\ Cardinality(Room') \in Nat
    BY BudgetCounts, FS_Subset, FS_CardinalityType
  <1>2. ledger \in Nat /\ Cap * Cardinality(Analysts) \in Nat
    BY BudgetCounts, BudgetAssumption DEF BudgetInv, BudgetTypeOK
  <1>. QED  BY <1>1, <1>2, BudgetCounts DEF BudgetInv, SpendOK

LEMMA SpendStep == BudgetInv /\ [BudgetNext]_budgetVars => SpendOK'
  <1>. SUFFICES ASSUME BudgetInv, [BudgetNext]_budgetVars PROVE SpendOK'
    OBVIOUS
  <1>0. /\ Cap \in Nat /\ Reserve \in Nat /\ ImageReserve \in Nat /\ ledger \in Nat
        /\ \A amount \in Costs \cup {0} : amount \in Nat
    BY BudgetAssumption DEF BudgetInv, BudgetTypeOK
  <1>. USE DEF BudgetInv, BudgetTypeOK, analysis
  <1>1. ASSUME NEW a \in Analysts, Summarise(a) \/ ReadSpend(a) PROVE SpendOK'
    <2>1. ledger <= Cap
      BY <1>0, <1>1 DEF Summarise, ReadSpend, Affords
    <2>. QED  BY <1>1, <2>1, StartKeepsSpend DEF Summarise, ReadSpend
  <1>2. ASSUME NEW a \in Analysts, Charge(a) PROVE SpendOK'
    <2>1. cost[a] \in Nat /\ used[a] + cost[a] <= Cap
      BY <1>0, <1>2 DEF Charge, TasksOK
    <2>. QED  BY <1>2, <2>1, SpendingKeepsSpend DEF Charge, OwnSpend
  <1>3. ASSUME NEW a \in Analysts, ReserveImage(a) PROVE SpendOK'
    <2>1. used[a] + ImageReserve <= Cap
      BY <1>3 DEF ReserveImage, TasksOK
    <2>. QED  BY <1>0, <1>3, <2>1, SpendingKeepsSpend DEF ReserveImage, OwnSpend
  <1>4. ASSUME NEW a \in Analysts, EndAnalysis(a), ledger' = ledger PROVE SpendOK'
    <2>1. Room' \subseteq Room
      BY <1>4 DEF EndAnalysis, Room
    <2>. QED  BY <1>0, <1>4, <2>1, FewerKeepSpend
  <1>5. CASE NewMonth
    <2>1. Room' = Room
      BY <1>5 DEF NewMonth, Room
    <2>. QED  BY <1>0, <1>5, <2>1, FewerKeepSpend DEF NewMonth
  <1>6. ASSUME UNCHANGED <<ledger, used>>, \A b \in Analysts : task'[b] = "idle" <=> task[b] = "idle"
        PROVE  SpendOK'
    <2>1. Room' = Room
      BY <1>6 DEF Room
    <2>. QED  BY <1>0, <1>6, <2>1, FewerKeepSpend
  <1>7. ASSUME NEW a \in Analysts, ListNews(a) PROVE SpendOK'
    <2>1. CASE News = summarised
      BY <1>4, <1>7, <2>1 DEF ListNews
    <2>2. CASE News # summarised
      <3>1. \A b \in Analysts : task'[b] = "idle" <=> task[b] = "idle"
        BY <1>7, <2>2 DEF ListNews
      <3>. QED  BY <1>6, <1>7, <2>2, <3>1 DEF ListNews
    <2>. QED  BY <2>1, <2>2
  <1>8. ASSUME NEW a \in Analysts, NEW n \in News, Answered(a, n) PROVE SpendOK'
    <2>1. \A b \in Analysts : task'[b] = "idle" <=> task[b] = "idle"
      BY <1>8 DEF Answered
    <2>. QED  BY <1>6, <1>8, <2>1 DEF Answered
  <1>9. ASSUME NEW a \in Analysts, NEW n \in News, Unanswered(a, n) PROVE SpendOK'
    BY <1>6, <1>9 DEF Unanswered
  <1>10. ASSUME NEW a \in Analysts, StoreSummary(a) PROVE SpendOK'
    <2>1. \A b \in Analysts : task'[b] = "idle" <=> task[b] = "idle"
      BY <1>10 DEF StoreSummary
    <2>. QED  BY <1>6, <1>10, <2>1 DEF StoreSummary
  <1>11. CASE UNCHANGED budgetVars
    BY <1>6, <1>11 DEF budgetVars
  <1>. QED  BY <1>1, <1>2, <1>3, <1>4, <1>5, <1>7, <1>8, <1>9, <1>10, <1>11
            DEF BudgetNext, AnalysisStep, Summarised, SendImage, Abandon

\* What one request owes is a slice of its own.
LEMMA OwnCounts ==
  ASSUME NEW a, NEW n \in Nat
  PROVE  IsFiniteSet({a} \X (1..n)) /\ Cardinality({a} \X (1..n)) = n
  <1>. DEFINE interval == 1..n
  <1>1. IsFiniteSet(interval) /\ Cardinality(interval) = n /\ 1 * n = n
    BY UpToCounts
  <1>. HIDE DEF interval
  <1>2. IsFiniteSet({a}) /\ Cardinality({a}) = 1
    BY FS_Singleton
  <1>3. /\ IsFiniteSet({a} \X interval)
        /\ Cardinality({a} \X interval) = Cardinality({a}) * Cardinality(interval)
    BY <1>1, <1>2, FS_Product
  <1>. QED  BY <1>1, <1>2, <1>3 DEF interval

LEMMA CostsAreBounded ==
  ASSUME BudgetInv
  PROVE  /\ \A amount \in Costs \cup {0} : amount \in 0..Reserve
         /\ \A a \in Analysts : cost[a] \in 0..Reserve /\ cost[a] \in Nat
  <1>1. Reserve \in Nat /\ Costs \subseteq 0..Reserve
    BY BudgetAssumption
  <1>2. \A amount \in Costs \cup {0} : amount \in 0..Reserve
    BY <1>1
  <1>3. \A amount \in Costs \cup {0} : amount \in Nat
    BY <1>1
  <1>4. ASSUME NEW a \in Analysts PROVE cost[a] \in 0..Reserve /\ cost[a] \in Nat
    <2>1. cost[a] \in Costs \cup {0}
      BY DEF BudgetInv, BudgetTypeOK
    <2>. QED  BY <1>2, <1>3, <2>1
  <1>. QED  BY <1>2, <1>4

\* A request that owed goes on; one that did not has its answer.
LEMMA OwedLess ==
  ASSUME BudgetInv, NEW a \in Analysts, task[a] = "charge",
         \A b \in Analysts \ {a} : task'[b] = task[b] /\ cost'[b] = cost[b],
         task'[a] # "charge"
  PROVE  /\ Cardinality(Owed') \in Nat
         /\ Cardinality(Owed) = Cardinality(Owed') + cost[a]
  <1>. DEFINE own == {a} \X (1..cost[a])
  <1>0. cost[a] \in 0..Reserve /\ Reserve \in Nat /\ cost[a] \in Nat
    BY BudgetAssumption, CostsAreBounded
  <1>1. Owed = Owed' \cup own /\ Owed' \cap own = {}
    <2>1. ASSUME NEW b \in Analysts, NEW i \in 1..Reserve
          PROVE  /\ <<b, i>> \in Owed <=> <<b, i>> \in Owed' \/ <<b, i>> \in own
                 /\ ~(<<b, i>> \in Owed' /\ <<b, i>> \in own)
      <3>1. CASE b = a
        BY <1>0, <3>1 DEF Owed
      <3>2. CASE b # a
        BY <3>2 DEF Owed
      <3>. QED  BY <3>1, <3>2
    <2>2. /\ Owed \subseteq Analysts \X (1..Reserve) /\ Owed' \subseteq Analysts \X (1..Reserve)
          /\ own \subseteq Analysts \X (1..Reserve)
      BY <1>0 DEF Owed
    <2>. QED  BY <2>1, <2>2
  <1>2. IsFiniteSet(own) /\ Cardinality(own) = cost[a]
    BY <1>0, OwnCounts
  <1>. HIDE DEF own
  <1>3. IsFiniteSet(Owed')
    BY <1>1, BudgetCounts, FS_Subset
  <1>4. Cardinality(Owed) = Cardinality(Owed') + Cardinality(own) - Cardinality({})
    BY <1>1, <1>2, <1>3, FS_Union
  <1>5. Cardinality({}) = 0 /\ Cardinality(Owed') \in Nat
    BY <1>3, FS_EmptySet, FS_CardinalityType
  <1>. QED  BY <1>0, <1>2, <1>4, <1>5

LEMMA OwedMore ==
  ASSUME BudgetInv, NEW a \in Analysts, NEW amount \in 0..Reserve, task[a] # "charge",
         cost' = [cost EXCEPT ![a] = amount], task' = [task EXCEPT ![a] = "charge"]
  PROVE  /\ Cardinality(Owed') \in Nat
         /\ Cardinality(Owed') = Cardinality(Owed) + amount
  <1>. DEFINE own == {a} \X (1..amount)
  <1>0. Reserve \in Nat /\ amount \in Nat
    BY BudgetAssumption
  <1>1. Owed' = Owed \cup own /\ Owed \cap own = {}
    BY <1>0 DEF Owed, BudgetInv, BudgetTypeOK
  <1>2. IsFiniteSet(own) /\ Cardinality(own) = amount
    BY <1>0, OwnCounts
  <1>. HIDE DEF own
  <1>3. IsFiniteSet(Owed) /\ IsFiniteSet(Owed')
    BY <1>1, <1>2, BudgetCounts, FS_Union
  <1>4. Cardinality(Owed') = Cardinality(Owed) + Cardinality(own) - Cardinality({})
    BY <1>1, <1>2, <1>3, FS_Union
  <1>5. Cardinality({}) = 0 /\ Cardinality(Owed') \in Nat /\ Cardinality(Owed) \in Nat
    BY <1>3, FS_EmptySet, FS_CardinalityType
  <1>. QED  BY <1>0, <1>2, <1>4, <1>5

LEMMA ChargedStep == BudgetInv /\ [BudgetNext]_budgetVars => ChargedOK'
  <1>. SUFFICES ASSUME BudgetInv, [BudgetNext]_budgetVars PROVE ChargedOK'
    OBVIOUS
  <1>. DEFINE gone == unusable + abandoned
  <1>0. /\ Reserve \in Nat /\ ledger \in Nat /\ charged \in Nat /\ unusable \in Nat /\ abandoned \in Nat
        /\ ImageReserve \in Nat
        /\ \A amount \in Costs \cup {0} : amount \in 0..Reserve
        /\ \A a \in Analysts : cost[a] \in 0..Reserve
        /\ Cardinality(Owed) \in Nat
        /\ charged <= ledger + Cardinality(Owed) + Reserve * gone
        /\ gone \in Nat /\ Reserve * gone \in Nat
        /\ Reserve * (gone + 1) = Reserve * gone + Reserve
    <2>1. /\ Reserve \in Nat /\ ledger \in Nat /\ charged \in Nat /\ unusable \in Nat /\ abandoned \in Nat
          /\ ImageReserve \in Nat
          /\ \A amount \in Costs \cup {0} : amount \in 0..Reserve
          /\ \A a \in Analysts : cost[a] \in 0..Reserve
      BY BudgetAssumption, CostsAreBounded DEF BudgetInv, BudgetTypeOK
    <2>2. gone \in Nat /\ charged <= ledger + Cardinality(Owed) + Reserve * gone
      BY <2>1 DEF BudgetInv, ChargedOK
    <2>. HIDE DEF gone
    <2>3. Reserve * gone \in Nat /\ Reserve * (gone + 1) = Reserve * gone + Reserve
      BY <2>1, <2>2
    <2>. QED  BY <2>1, <2>2, <2>3, BudgetCounts
  <1>. HIDE DEF gone
  <1>a. ASSUME Owed' = Owed, charged' = charged, ledger' \in Nat, ledger' >= ledger,
               UNCHANGED <<unusable, abandoned>>
        PROVE  ChargedOK'
    <2>1. gone' = gone
      BY <1>a DEF gone
    <2>2. charged <= ledger' + Cardinality(Owed) + Reserve * gone
      BY <1>0, <1>a
    <2>. QED  BY <1>a, <2>1, <2>2 DEF ChargedOK, gone
  <1>1. ASSUME NEW a \in Analysts, NEW n \in News, Answered(a, n) PROVE ChargedOK'
    <2>1. PICK amount \in Costs : cost' = [cost EXCEPT ![a] = amount] /\ charged' = charged + amount
      BY <1>1 DEF Answered
    <2>2. amount \in 0..Reserve
      BY <1>0
    <2>3. Cardinality(Owed') = Cardinality(Owed) + amount
      BY <1>1, <2>1, <2>2, OwedMore DEF Answered
    <2>4. charged' <= ledger + Cardinality(Owed') + Reserve * gone
      BY <1>0, <2>1, <2>2, <2>3
    <2>. QED  BY <1>1, <2>4 DEF Answered, ChargedOK, gone
  <1>2. ASSUME NEW a \in Analysts, NEW n \in News, Unanswered(a, n) PROVE ChargedOK'
    <2>1. PICK amount \in Costs \cup {0} : charged' = charged + amount
      BY <1>2 DEF Unanswered
    <2>2. amount \in 0..Reserve
      BY <1>0
    <2>3. Owed' = Owed
      BY <1>2 DEF Unanswered, Owed
    <2>4. charged' <= ledger + Cardinality(Owed) + Reserve * (gone + 1)
      BY <1>0, <2>1, <2>2
    <2>5. unusable' + abandoned' = gone + 1
      BY <1>0, <1>2 DEF Unanswered, gone
    <2>. QED  BY <1>2, <2>3, <2>4, <2>5 DEF Unanswered, ChargedOK
  <1>3. ASSUME NEW a \in Analysts, Charge(a) PROVE ChargedOK'
    <2>1. Cardinality(Owed') \in Nat /\ Cardinality(Owed) = Cardinality(Owed') + cost[a]
      BY <1>3, OwedLess DEF Charge, BudgetInv, BudgetTypeOK
    <2>2. charged <= (ledger + cost[a]) + Cardinality(Owed') + Reserve * gone
      BY <1>0, <2>1
    <2>. QED  BY <1>3, <2>2 DEF Charge, ChargedOK, spent, gone
  <1>4. ASSUME NEW a \in Analysts, Abandon(a) PROVE ChargedOK'
    <2>1. /\ Cardinality(Owed') \in Nat
          /\ Cardinality(Owed) <= Cardinality(Owed') + Reserve
      <3>1. CASE task[a] = "charge"
        <4>1. Cardinality(Owed') \in Nat /\ Cardinality(Owed) = Cardinality(Owed') + cost[a]
          BY <1>4, <3>1, OwedLess DEF Abandon, EndAnalysis, BudgetInv, BudgetTypeOK
        <4>. QED  BY <1>0, <4>1
      <3>2. CASE task[a] # "charge"
        <4>1. Owed' = Owed
          BY <1>4, <3>2 DEF Abandon, EndAnalysis, BudgetInv, BudgetTypeOK, Owed
        <4>. QED  BY <1>0, <4>1
      <3>. QED  BY <3>1, <3>2
    <2>2. charged <= ledger + Cardinality(Owed') + Reserve * (gone + 1)
      BY <1>0, <2>1
    <2>3. unusable' + abandoned' = gone + 1
      BY <1>0, <1>4 DEF Abandon, spent, gone
    <2>. QED  BY <1>4, <2>2, <2>3 DEF Abandon, spent, ChargedOK
  <1>5. CASE NewMonth
    <2>1. Owed' = Owed /\ gone' = gone /\ ledger' = 0 /\ charged' = 0
      BY <1>5 DEF NewMonth, analysis, Owed, gone
    <2>2. 0 <= 0 + Cardinality(Owed) + Reserve * gone
      BY <1>0
    <2>. QED  BY <2>1, <2>2 DEF ChargedOK, gone
  <1>6. ASSUME NEW a \in Analysts, EndAnalysis(a), task[a] # "charge", UNCHANGED <<ledger, spent, abandoned>>
        PROVE  ChargedOK'
    <2>1. Owed' = Owed
      BY <1>6 DEF EndAnalysis, Owed, BudgetInv, BudgetTypeOK
    <2>. QED  BY <1>0, <1>6, <1>a, <2>1 DEF spent
  <1>7. ASSUME NEW a \in Analysts, Summarise(a) \/ ReadSpend(a) PROVE ChargedOK'
    <2>1. Owed' = Owed
      BY <1>7 DEF Summarise, ReadSpend, Owed, BudgetInv, BudgetTypeOK
    <2>. QED  BY <1>0, <1>7, <1>a, <2>1 DEF Summarise, ReadSpend, spent
  <1>8. ASSUME NEW a \in Analysts, ListNews(a) PROVE ChargedOK'
    <2>1. CASE News = summarised
      BY <1>6, <1>8, <2>1 DEF ListNews
    <2>2. CASE News # summarised
      <3>1. Owed' = Owed
        BY <1>8, <2>2 DEF ListNews, Owed, BudgetInv, BudgetTypeOK
      <3>. QED  BY <1>0, <1>8, <1>a, <3>1 DEF ListNews, spent
    <2>. QED  BY <2>1, <2>2
  <1>9. ASSUME NEW a \in Analysts, StoreSummary(a) PROVE ChargedOK'
    <2>1. Owed' = Owed
      BY <1>9 DEF StoreSummary, Owed, BudgetInv, BudgetTypeOK
    <2>. QED  BY <1>0, <1>9, <1>a, <2>1 DEF StoreSummary, spent
  <1>10. ASSUME NEW a \in Analysts, ReserveImage(a) PROVE ChargedOK'
    <2>1. Owed' = Owed
      BY <1>10 DEF ReserveImage, Owed, BudgetInv, BudgetTypeOK
    <2>. QED  BY <1>0, <1>10, <1>a, <2>1 DEF ReserveImage, spent
  <1>11. CASE UNCHANGED budgetVars
    <2>1. Owed' = Owed
      BY <1>11 DEF budgetVars, analysis, Owed
    <2>. QED  BY <1>0, <1>11, <1>a, <2>1 DEF budgetVars, spent
  <1>. QED  BY <1>1, <1>2, <1>3, <1>4, <1>5, <1>6, <1>7, <1>8, <1>9, <1>10, <1>11
            DEF BudgetNext, AnalysisStep, Summarised, SendImage

LEMMA FewerKeepPaid ==
  ASSUME BudgetInv, UNCHANGED <<paid, summarised, abandoned>>,
         \A n \in News \ summarised : AnsweredFor(n)' = AnsweredFor(n),
         \A n \in summarised : Asking(n)' \subseteq Asking(n)
  PROVE  PaidOK'
  <1>. SUFFICES ASSUME NEW n \in News
                PROVE  /\ n \notin summarised => paid[n] <= Cardinality(AnsweredFor(n)') + abandoned
                       /\ n \in summarised =>
                            paid[n] + Cardinality(Asking(n)') <= Cardinality(Analysts) + abandoned
    BY DEF PaidOK
  <1>1. CASE n \notin summarised
    BY <1>1 DEF BudgetInv, PaidOK
  <1>2. CASE n \in summarised
    <2>1. Cardinality(Asking(n)') <= Cardinality(Asking(n)) /\ Cardinality(Asking(n)') \in Nat
      BY <1>2, BudgetCounts, FS_Subset, FS_CardinalityType
    <2>2. /\ paid[n] \in Nat /\ abandoned \in Nat
          /\ paid[n] + Cardinality(Asking(n)) <= Cardinality(Analysts) + abandoned
      BY <1>2 DEF BudgetInv, BudgetTypeOK, PaidOK
    <2>. QED  BY <1>2, <2>1, <2>2, BudgetCounts
  <1>. QED  BY <1>1, <1>2

LEMMA PaidStep == BudgetInv /\ [BudgetNext]_budgetVars => PaidOK'
  <1>. SUFFICES ASSUME BudgetInv, [BudgetNext]_budgetVars PROVE PaidOK'
    OBVIOUS
  <1>0. /\ summarised \subseteq News /\ NoNews \notin News
        /\ paid \in [News -> Nat] /\ abandoned \in Nat
    BY BudgetAssumption DEF BudgetInv, BudgetTypeOK
  <1>1. ASSUME NEW a \in Analysts, NEW n \in News, Answered(a, n) PROVE PaidOK'
    <2>0. event[a] = NoNews /\ paid' = [paid EXCEPT ![n] = @ + 1]
          /\ UNCHANGED <<summarised, abandoned>>
      BY <1>1 DEF Answered, BudgetInv, TasksOK
    <2>1. ASSUME NEW m \in News, m # n
          PROVE  AnsweredFor(m)' = AnsweredFor(m) /\ Asking(m)' = Asking(m) /\ paid'[m] = paid[m]
      BY <1>0, <1>1, <2>0, <2>1 DEF Answered, AnsweredFor, Asking, BudgetInv, BudgetTypeOK
    <2>2. Cardinality(AnsweredFor(n)') = Cardinality(AnsweredFor(n)) + 1
      <3>1. AnsweredFor(n)' = AnsweredFor(n) \cup {a} /\ a \notin AnsweredFor(n)
        BY <1>0, <1>1, <2>0 DEF Answered, AnsweredFor, BudgetInv, BudgetTypeOK
      <3>. QED  BY <3>1, BudgetCounts, FS_AddElement
    <2>3. Cardinality(Asking(n)') = Cardinality(Asking(n)) - 1
      <3>1. Asking(n)' = Asking(n) \ {a} /\ a \in Asking(n)
        BY <1>1 DEF Answered, Asking, BudgetInv, BudgetTypeOK
      <3>. QED  BY <3>1, BudgetCounts, FS_RemoveElement
    <2>4. paid'[n] = paid[n] + 1 /\ paid[n] \in Nat
      BY <1>0, <2>0
    <2>5. /\ n \notin summarised => paid'[n] <= Cardinality(AnsweredFor(n)') + abandoned
          /\ n \in summarised => paid'[n] + Cardinality(Asking(n)') <= Cardinality(Analysts) + abandoned
      <3>1. CASE n \notin summarised
        BY <1>0, <2>2, <2>4, <3>1, BudgetCounts DEF BudgetInv, PaidOK
      <3>2. CASE n \in summarised
        BY <1>0, <2>3, <2>4, <3>2, BudgetCounts DEF BudgetInv, PaidOK
      <3>. QED  BY <3>1, <3>2
    <2>6. ASSUME NEW m \in News, m # n
          PROVE  /\ m \notin summarised => paid'[m] <= Cardinality(AnsweredFor(m)') + abandoned
                 /\ m \in summarised => paid'[m] + Cardinality(Asking(m)') <= Cardinality(Analysts) + abandoned
      BY <2>1, <2>6 DEF BudgetInv, PaidOK
    <2>. QED  BY <2>0, <2>5, <2>6 DEF PaidOK
  <1>2. ASSUME NEW a \in Analysts, StoreSummary(a) PROVE PaidOK'
    <2>. DEFINE n == event[a]
    <2>0. /\ n \in News /\ summarised' = summarised \cup {n} /\ UNCHANGED <<paid, queue, abandoned>>
          /\ \A m : Asking(m)' = Asking(m)
      BY <1>2 DEF StoreSummary, Stored, Asking, spent, BudgetInv, TasksOK
    <2>1. ASSUME NEW m \in News, m # n PROVE AnsweredFor(m)' = AnsweredFor(m)
      BY <1>0, <1>2, <2>1 DEF StoreSummary, AnsweredFor, BudgetInv, BudgetTypeOK
    <2>2. ASSUME n \notin summarised
          PROVE  paid[n] + Cardinality(Asking(n)) <= Cardinality(Analysts) + abandoned
      <3>1. AnsweredFor(n) \cap Asking(n) = {}
        BY <1>0, <2>0 DEF AnsweredFor, Asking, BudgetInv, TasksOK
      <3>2. /\ Cardinality(AnsweredFor(n) \cup Asking(n))
                 = Cardinality(AnsweredFor(n)) + Cardinality(Asking(n)) - Cardinality({})
            /\ Cardinality({}) = 0
        BY <3>1, BudgetCounts, FS_Union, FS_EmptySet
      <3>3. AnsweredFor(n) \cup Asking(n) \subseteq Analysts
        BY DEF AnsweredFor, Asking
      <3>4. Cardinality(AnsweredFor(n) \cup Asking(n)) <= Cardinality(Analysts)
        BY <3>3, BudgetCounts, FS_Subset
      <3>5. paid[n] <= Cardinality(AnsweredFor(n)) + abandoned
        BY <2>0, <2>2 DEF BudgetInv, PaidOK
      <3>6. paid[n] \in Nat
        BY <1>0, <2>0
      <3>. HIDE DEF n
      <3>. QED  BY <1>0, <3>2, <3>4, <3>5, <3>6, BudgetCounts
    <2>. HIDE DEF n
    <2>3. ASSUME NEW m \in News
          PROVE  /\ m \notin summarised' => paid[m] <= Cardinality(AnsweredFor(m)') + abandoned
                 /\ m \in summarised' => paid[m] + Cardinality(Asking(m)) <= Cardinality(Analysts) + abandoned
      BY <2>0, <2>1, <2>2 DEF BudgetInv, PaidOK
    <2>. QED  BY <2>0, <2>3 DEF PaidOK
  <1>3. ASSUME NEW a \in Analysts, Abandon(a) PROVE PaidOK'
    <2>0. abandoned' = abandoned + 1 /\ UNCHANGED <<paid, summarised>>
      BY <1>3 DEF Abandon, spent
    <2>1. ASSUME NEW m \in News PROVE Cardinality(AnsweredFor(m)) <= Cardinality(AnsweredFor(m)') + 1
      <3>1. AnsweredFor(m)' = AnsweredFor(m) \ {a}
        BY <1>0, <1>3 DEF Abandon, EndAnalysis, AnsweredFor, BudgetInv, BudgetTypeOK
      <3>2. CASE a \in AnsweredFor(m)
        <4>1. Cardinality(AnsweredFor(m) \ {a}) = Cardinality(AnsweredFor(m)) - 1
          BY <3>2, BudgetCounts, FS_RemoveElement
        <4>. QED  BY <3>1, <4>1, BudgetCounts
      <3>3. CASE a \notin AnsweredFor(m)
        <4>1. AnsweredFor(m) \ {a} = AnsweredFor(m)
          BY <3>3
        <4>. QED  BY <3>1, <4>1, BudgetCounts
      <3>. QED  BY <3>2, <3>3
    <2>2. ASSUME NEW m \in News
          PROVE  Cardinality(Asking(m)') <= Cardinality(Asking(m)) /\ Cardinality(Asking(m)') \in Nat
      <3>1. Asking(m)' \subseteq Asking(m)
        BY <1>3 DEF Abandon, EndAnalysis, Asking, BudgetInv, BudgetTypeOK
      <3>. QED  BY <3>1, BudgetCounts, FS_Subset, FS_CardinalityType
    <2>3. ASSUME NEW m \in News PROVE Cardinality(AnsweredFor(m)') \in Nat
      <3>1. AnsweredFor(m)' \subseteq Analysts
        BY DEF AnsweredFor
      <3>. QED  BY <3>1, BudgetCounts, FS_Subset, FS_CardinalityType
    <2>4. ASSUME NEW m \in News
          PROVE  /\ m \notin summarised => paid[m] <= Cardinality(AnsweredFor(m)') + (abandoned + 1)
                 /\ m \in summarised => paid[m] + Cardinality(Asking(m)') <= Cardinality(Analysts) + (abandoned + 1)
      <3>1. paid[m] \in Nat
        BY <1>0
      <3>2. CASE m \notin summarised
        BY <1>0, <2>1, <2>3, <3>1, <3>2, BudgetCounts DEF BudgetInv, PaidOK
      <3>3. CASE m \in summarised
        BY <1>0, <2>2, <3>1, <3>3, BudgetCounts DEF BudgetInv, PaidOK
      <3>. QED  BY <3>2, <3>3
    <2>. QED  BY <2>0, <2>4 DEF PaidOK
  <1>4. ASSUME NEW a \in Analysts, EndAnalysis(a), task[a] \notin {"charge", "store"},
               UNCHANGED <<paid, summarised, abandoned>>
        PROVE  PaidOK'
    <2>1. event' = event
      BY <1>4 DEF EndAnalysis, BudgetInv, BudgetTypeOK, TasksOK
    <2>2. \A n \in summarised : Asking(n)' \subseteq Asking(n)
      BY <1>4 DEF EndAnalysis, Asking, BudgetInv, BudgetTypeOK
    <2>. QED  BY <1>4, <2>1, <2>2, FewerKeepPaid DEF AnsweredFor
  <1>5. ASSUME NEW a \in Analysts, ListNews(a) PROVE PaidOK'
    <2>1. CASE News = summarised
      BY <1>4, <1>5, <2>1 DEF ListNews, spent
    <2>2. CASE News # summarised
      <3>1. \A n \in summarised : Asking(n)' \subseteq Asking(n)
        BY <1>5, <2>2 DEF ListNews, Asking, BudgetInv, BudgetTypeOK
      <3>. QED  BY <1>5, <2>2, <3>1, FewerKeepPaid DEF ListNews, spent, AnsweredFor
    <2>. QED  BY <2>1, <2>2
  <1>6. ASSUME NEW a \in Analysts, NEW n \in News, Unanswered(a, n) PROVE PaidOK'
    <2>1. \A m \in summarised : Asking(m)' \subseteq Asking(m)
      BY <1>6 DEF Unanswered, Asking, BudgetInv, BudgetTypeOK
    <2>. QED  BY <1>6, <2>1, FewerKeepPaid DEF Unanswered, AnsweredFor
  <1>7. ASSUME UNCHANGED <<queue, event, paid, summarised, abandoned>> PROVE PaidOK'
    BY <1>7, FewerKeepPaid DEF AnsweredFor, Asking
  <1>. QED
    BY <1>1, <1>2, <1>3, <1>4, <1>5, <1>6, <1>7
    DEF BudgetNext, AnalysisStep, Summarised, SendImage, NewMonth, Summarise, ReadSpend, Charge,
        ReserveImage, budgetVars, analysis, spent

LEMMA BudgetStepKeeps == BudgetInv /\ [BudgetNext]_budgetVars => BudgetInv'
  BY BudgetTypeStep, SpendStep, ChargedStep, PaidStep DEF BudgetInv

LEMMA ServiceImplementsBudget == Spec => BudgetSpec
  <1>1. Init => BudgetInit
    BY DEF Init
  <1>2. [Next]_vars => [BudgetNext]_budgetVars
    BY DEF Next, vars, budgetVars
  <1>. QED  BY <1>1, <1>2, PTL DEF Spec, BudgetSpec

LEMMA BudgetInvariant == Spec => []BudgetInv
  <1>1. BudgetSpec => []BudgetInv
    BY BudgetInitial, BudgetStepKeeps, PTL DEF BudgetSpec
  <1>. QED  BY <1>1, ServiceImplementsBudget, PTL

\* However many requests spend at a time, the month's ledger stays below as many
\* caps as there are requests, and the provider has charged no more for summaries
\* than the ledger says and the requests that are counted as lost may have cost
\* (summarise_latest_news and analyse_options_screenshot of service.py).
THEOREM SpendIsBounded == Spec => []SpendWithinOverrun
  <1>1. BudgetInv => SpendWithinOverrun
    <2>. SUFFICES ASSUME BudgetInv PROVE SpendWithinOverrun
      OBVIOUS
    <2>1. /\ ledger \in Nat /\ Cap * Cardinality(Analysts) \in Nat /\ Cardinality(Room) \in Nat
          /\ ledger + Cardinality(Room) <= Cap * Cardinality(Analysts)
      BY BudgetAssumption, BudgetCounts DEF BudgetInv, BudgetTypeOK, SpendOK
    <2>2. Cardinality(Owed) <= Cardinality(InCharge) * Reserve /\ Cardinality(InCharge) \in Nat
      <3>1. IsFiniteSet(InCharge) /\ Cardinality(InCharge) \in Nat
        BY BudgetCounts, FS_Subset, FS_CardinalityType DEF InCharge
      <3>2. Owed \subseteq InCharge \X (1..Reserve)
        BY DEF Owed, InCharge
      <3>3. Reserve \in Nat
        BY BudgetAssumption
      <3>. DEFINE interval == 1..Reserve
      <3>4. IsFiniteSet(interval) /\ Cardinality(interval) = Reserve
        BY <3>3, UpToCounts
      <3>. HIDE DEF interval
      <3>5. /\ IsFiniteSet(InCharge \X interval)
            /\ Cardinality(InCharge \X interval) = Cardinality(InCharge) * Cardinality(interval)
        BY <3>1, <3>4, FS_Product
      <3>6. Cardinality(Owed) <= Cardinality(InCharge \X interval)
        BY <3>2, <3>5, FS_Subset DEF interval
      <3>. QED  BY <3>1, <3>4, <3>5, <3>6
    <2>3. /\ Reserve \in Nat /\ charged \in Nat /\ unusable \in Nat /\ abandoned \in Nat
          /\ charged <= ledger + Cardinality(Owed) + Reserve * (unusable + abandoned)
      BY BudgetAssumption DEF BudgetInv, BudgetTypeOK, ChargedOK
    <2>4. Reserve * (unusable + abandoned + Cardinality(InCharge))
            = Reserve * (unusable + abandoned) + Cardinality(InCharge) * Reserve
      BY <2>2, <2>3
    <2>5. /\ Reserve * (unusable + abandoned) \in Nat /\ Cardinality(InCharge) * Reserve \in Nat
          /\ Cardinality(Owed) \in Nat
      BY <2>2, <2>3, BudgetCounts
    <2>6. ledger <= Cap * Cardinality(Analysts)
      BY <2>1
    <2>7. charged <= ledger + (Reserve * (unusable + abandoned) + Cardinality(InCharge) * Reserve)
      BY <2>1, <2>2, <2>3, <2>5
    <2>. QED  BY <2>4, <2>6, <2>7 DEF SpendWithinOverrun
  <1>. QED  BY <1>1, BudgetInvariant, PTL

\* The answers paid for of an event are as many as requests may overlap, and one
\* more for each that died (summarise_latest_news of service.py).
THEOREM AnswersArePaidOnce == Spec => []PaidPerOverlap
  <1>1. BudgetInv => PaidPerOverlap
    <2>. SUFFICES ASSUME BudgetInv, NEW n \in News
                  PROVE  paid[n] <= Cardinality(Analysts) + abandoned
      BY DEF PaidPerOverlap
    <2>0. paid[n] \in Nat /\ abandoned \in Nat
      BY DEF BudgetInv, BudgetTypeOK
    <2>1. CASE n \notin summarised
      <3>1. AnsweredFor(n) \subseteq Analysts
        BY DEF AnsweredFor
      <3>2. Cardinality(AnsweredFor(n)) <= Cardinality(Analysts)
        BY <3>1, BudgetCounts, FS_Subset
      <3>. QED  BY <2>0, <2>1, <3>2, BudgetCounts DEF BudgetInv, PaidOK
    <2>2. CASE n \in summarised
      BY <2>0, <2>2, BudgetCounts DEF BudgetInv, PaidOK
    <2>. QED  BY <2>1, <2>2
  <1>. QED  BY <1>1, BudgetInvariant, PTL
-----------------------------------------------------------------------------
(* The quotes of the bridge.                                               *)

PerSymbol == 2 * Strikes + 1

\* The numbers of requests are used once, and a tick is stored under the number
\* its contract was asked for with.
NumbersOK ==
  /\ \A p \in requested : p[1] < nextRequest
  /\ \A p, q \in requested : p[1] = q[1] => p = q
  /\ \A n \in Requests : \A contract \in quotes[n] : <<n, contract>> \in requested

\* Where the main thread is in its round: what it waits for was asked for last,
\* the options left are of the stock whose quote it has, and the numbers left
\* are enough for what it may still ask.
TurnOK ==
  /\ nextRequest + Len(symbolsLeft) * PerSymbol + Len(options)
       <= Len(WatchedSymbols) * PerSymbol + 1 + (IF bridge \in {"quote", "tick"} THEN 1 ELSE 0)
  /\ bridge \in {"off", "connect"} => nextRequest = 1
  /\ bridge \notin {"option", "tick"} => options = <<>>
  /\ bridge = "quote"
       => symbolsLeft # <<>> /\ <<lastRequest, Stock(Head(symbolsLeft))>> \in requested
  /\ bridge = "tick" => options # <<>> /\ <<lastRequest, Head(options)>> \in requested
  /\ \A i \in 1..Len(options) : underlying = {Stock(options[i][1])}

RoomOK == bridge = "tick" => ~Full(Head(options)[1])

ProbeInv == BridgeTypeOK /\ NumbersOK /\ TurnOK /\ RoomOK /\ QuotesAreOwn

LEMMA BridgeFacts ==
  /\ Strikes \in Nat /\ PerSymbol \in Nat /\ PerSymbol >= 1
  /\ Len(WatchedSymbols) \in Nat
  /\ Len(WatchedSymbols) * PerSymbol \in Nat
  /\ Requests = 1..(Len(WatchedSymbols) * PerSymbol)
  /\ WantedContracts \in Nat /\ WantedContracts >= 2
  /\ PickedStrikes \in Nat /\ PickedStrikes <= Strikes
  /\ \A symbol \in Watchlist : Stock(symbol) \in Contracts
  <1>1. Strikes \in Nat /\ ContractLimit \in Int
    BY BridgeAssumption
  <1>2. PerSymbol \in Nat /\ PerSymbol >= 1
    BY <1>1 DEF PerSymbol
  <1>3. Len(WatchedSymbols) \in Nat
    BY WatchedAssumption
  <1>4. Len(WatchedSymbols) * PerSymbol \in Nat
    BY <1>2, <1>3
  <1>5. Requests = 1..(Len(WatchedSymbols) * PerSymbol)
    BY DEF Requests, PerSymbol
  <1>6. WantedContracts \in Nat /\ WantedContracts >= 2
    BY <1>1 DEF WantedContracts
  <1>7. WantedContracts \div 2 \in Nat
    BY <1>6
  <1>8. PickedStrikes \in Nat /\ PickedStrikes <= Strikes
    BY <1>1, <1>7 DEF PickedStrikes
  <1>9. \A symbol \in Watchlist : Stock(symbol) \in Contracts
    BY <1>1 DEF Stock, Contracts
  <1>. QED  BY <1>1, <1>2, <1>3, <1>4, <1>5, <1>6, <1>8, <1>9

LEMMA OptionsOfType ==
  ASSUME NEW symbol \in Watchlist
  PROVE  /\ OptionsOf(symbol) \in Seq(Contracts)
         /\ Len(OptionsOf(symbol)) = 2 * PickedStrikes
         /\ \A i \in 1..Len(OptionsOf(symbol)) : OptionsOf(symbol)[i][1] = symbol
  <1>1. PickedStrikes \in Nat /\ PickedStrikes <= Strikes /\ Strikes \in Nat
    BY BridgeFacts
  <1>2. ASSUME NEW i \in 1..(2 * PickedStrikes)
        PROVE  <<symbol, (i + 1) \div 2, IF i % 2 = 1 THEN "C" ELSE "P">> \in Contracts
    <2>1. (i + 1) \div 2 \in 0..Strikes
      BY <1>1
    <2>. QED  BY <2>1 DEF Contracts
  <1>3. 2 * PickedStrikes \in Nat
    BY <1>1
  <1>. QED  BY <1>2, <1>3 DEF OptionsOf

LEMMA ProbeInitial == BridgeInit => ProbeInv
  <1>. SUFFICES ASSUME BridgeInit PROVE ProbeInv
    OBVIOUS
  <1>1. BridgeTypeOK
    <2>1. \A n \in Requests : {} \in SUBSET Contracts
      OBVIOUS
    <2>. QED  BY <2>1, BridgeAssumption DEF BridgeInit, BridgeTypeOK, NoBeat, Heartbeat
  <1>2. NumbersOK
    BY DEF BridgeInit, NumbersOK
  <1>3. TurnOK
    BY BridgeFacts DEF BridgeInit, TurnOK
  <1>4. RoomOK /\ QuotesAreOwn
    <2>1. observations = <<>> /\ bridge = "off"
      BY DEF BridgeInit
    <2>2. \A symbol : Cardinality(Observed(symbol)) = 0
      BY <2>1, FS_EmptySet DEF Observed
    <2>. QED  BY <2>1, <2>2, BridgeFacts DEF RoomOK, QuotesAreOwn
  <1>. QED  BY <1>1, <1>2, <1>3, <1>4 DEF ProbeInv

\* A probe that starts again has asked for nothing.
LEMMA FreshKeeps ==
  ASSUME ProbeInv, FreshProbe, bridge' \in {"off", "connect"},
         minute' = minute, skew' = skew, tws' = tws, lastPaper' = lastPaper,
         beat' \in Heartbeat, health' \in Seq(HealthRow)
  PROVE  ProbeInv'
  <1>1. BridgeTypeOK'
    <2>1. \A n \in Requests : {} \in SUBSET Contracts
      OBVIOUS
    <2>. QED  BY <2>1 DEF FreshProbe, ProbeInv, BridgeTypeOK
  <1>2. NumbersOK'
    BY DEF FreshProbe, NumbersOK
  <1>3. TurnOK'
    BY BridgeFacts DEF FreshProbe, TurnOK
  <1>4. RoomOK' /\ QuotesAreOwn'
    <2>1. observations' = <<>> /\ bridge' # "tick"
      BY DEF FreshProbe
    <2>2. \A symbol : Cardinality(Observed(symbol)') = 0
      BY <2>1, FS_EmptySet DEF Observed
    <2>. QED  BY <2>1, <2>2, BridgeFacts DEF RoomOK, QuotesAreOwn
  <1>. QED  BY <1>1, <1>2, <1>3, <1>4 DEF ProbeInv

\* A quote is asked for: its number is a new one.
LEMMA AskKeeps ==
  ASSUME ProbeInv, NEW contract \in Contracts, Ask(contract), nextRequest \in Requests
  PROVE  /\ NumbersOK'
         /\ nextRequest' = nextRequest + 1 /\ lastRequest' = nextRequest
         /\ <<lastRequest', contract>> \in requested'
         /\ nextRequest' \in Nat /\ lastRequest' \in Requests
         /\ requested' \subseteq Requests \X Contracts
         /\ quotes' \in [Requests -> SUBSET Contracts]
  <1>1. /\ lastRequest' = nextRequest /\ nextRequest' = nextRequest + 1
        /\ requested' = requested \cup {<<nextRequest, contract>>}
        /\ quotes' = [quotes EXCEPT ![nextRequest] = {}]
        /\ nextRequest \in Nat
        /\ requested \subseteq Requests \X Contracts
        /\ quotes \in [Requests -> SUBSET Contracts]
    BY DEF Ask, NewRequest, ProbeInv, BridgeTypeOK
  <1>2. \A p \in requested : p[1] \in Nat /\ p[1] < nextRequest
    BY <1>1, BridgeFacts DEF ProbeInv, NumbersOK
  <1>3. \A p \in requested' : p[1] < nextRequest'
    BY <1>1, <1>2
  <1>4. \A p, q \in requested' : p[1] = q[1] => p = q
    BY <1>1, <1>2 DEF ProbeInv, NumbersOK
  <1>5. \A n \in Requests : \A c \in quotes'[n] : <<n, c>> \in requested'
    BY <1>1 DEF ProbeInv, NumbersOK
  <1>6. quotes' \in [Requests -> SUBSET Contracts]
    BY <1>1
  <1>7. requested' \subseteq Requests \X Contracts
    BY <1>1
  <1>. QED  BY <1>1, <1>3, <1>4, <1>5, <1>6, <1>7 DEF NumbersOK

\* What was stored under a number is of the contract asked for with it.
LEMMA QuoteIsOfContract ==
  ASSUME ProbeInv, NEW n \in Requests, NEW contract, <<n, contract>> \in requested
  PROVE  quotes[n] \subseteq {contract}
  <1>. SUFFICES ASSUME NEW c \in quotes[n] PROVE c = contract
    OBVIOUS
  <1>1. <<n, c>> \in requested
    BY DEF ProbeInv, NumbersOK
  <1>2. <<n, c>> = <<n, contract>>
    <2>. DEFINE p == <<n, c>>
                q == <<n, contract>>
    <2>1. p \in requested /\ q \in requested /\ p[1] = q[1]
      BY <1>1
    <2>. HIDE DEF p, q
    <2>2. p = q
      BY <2>1 DEF ProbeInv, NumbersOK
    <2>. QED  BY <2>2 DEF p, q
  <1>. QED  BY <1>2

\* The list of symbols is one turn shorter without its head.
LEMMA TurnLess ==
  ASSUME NEW list, list \in Seq(Watchlist), list # <<>>
  PROVE  /\ Len(list) * PerSymbol \in Nat /\ Len(list) * PerSymbol >= PerSymbol
         /\ Tail(list) \in Seq(Watchlist)
         /\ Len(Tail(list)) * PerSymbol = Len(list) * PerSymbol - PerSymbol
         /\ Head(list) \in Watchlist
  <1>1. PerSymbol \in Nat
    BY BridgeFacts
  <1>2. /\ Len(list) \in Nat /\ Len(list) >= 1 /\ Tail(list) \in Seq(Watchlist)
        /\ Len(Tail(list)) = Len(list) - 1 /\ Head(list) \in Watchlist
    OBVIOUS
  <1>3. ASSUME NEW n \in Nat, n >= 1
        PROVE  n * PerSymbol \in Nat /\ n * PerSymbol >= PerSymbol
               /\ (n - 1) * PerSymbol = n * PerSymbol - PerSymbol
    BY <1>1, <1>3
  <1>. QED  BY <1>2, <1>3

LEMMA NextSymbolKeeps == ProbeInv /\ NextSymbol => ProbeInv'
  <1>. SUFFICES ASSUME ProbeInv, NextSymbol PROVE ProbeInv'
    OBVIOUS
  <1>0. /\ symbolsLeft \in Seq(Watchlist) /\ symbolsLeft # <<>>
        /\ bridge = "symbol" /\ options = <<>> /\ nextRequest \in Nat \ {0}
        /\ UNCHANGED <<minute, skew, tws, lastPaper, beat, options, underlying, observations, health>>
    BY DEF NextSymbol, ProbeInv, BridgeTypeOK, TurnOK
  <1>. DEFINE n == Len(symbolsLeft) * PerSymbol
              most == Len(WatchedSymbols) * PerSymbol
  <1>1. n \in Nat /\ n >= PerSymbol /\ PerSymbol \in Nat /\ PerSymbol >= 1 /\ most \in Nat /\ Head(symbolsLeft) \in Watchlist
    BY <1>0, TurnLess, BridgeFacts
  <1>2. nextRequest + n <= most + 1 /\ Len(options) = 0
    <2>1. nextRequest + n + Len(options) <= most + 1 + 0
      BY <1>0 DEF ProbeInv, TurnOK
    <2>2. Len(options) = 0
      BY <1>0
    <2>. HIDE DEF n, most
    <2>. QED  BY <1>0, <1>1, <2>1, <2>2
  <1>3. QuotesAreOwn'
    BY <1>0 DEF ProbeInv, QuotesAreOwn, Observed
  <1>4. CASE Ask(Stock(Head(symbolsLeft))) /\ bridge' = "quote" /\ UNCHANGED symbolsLeft
    <2>. HIDE DEF n, most
    <2>1. nextRequest \in 1..most
      BY <1>0, <1>1, <1>2
    <2>2. nextRequest \in Requests /\ Stock(Head(symbolsLeft)) \in Contracts
      BY <1>1, <2>1, BridgeFacts DEF most
    <2>3. /\ NumbersOK'
          /\ nextRequest' = nextRequest + 1
          /\ <<lastRequest', Stock(Head(symbolsLeft))>> \in requested'
          /\ lastRequest' \in Requests
          /\ requested' \subseteq Requests \X Contracts
          /\ quotes' \in [Requests -> SUBSET Contracts]
      BY <1>4, <2>2, AskKeeps
    <2>4. BridgeTypeOK'
      BY <1>0, <1>4, <2>3 DEF ProbeInv, BridgeTypeOK
    <2>5. nextRequest' + n + Len(options) <= most + 1 + 1
      BY <1>0, <1>1, <1>2, <2>3
    <2>6. TurnOK'
      BY <1>0, <1>4, <2>3, <2>5 DEF TurnOK, n, most
    <2>. QED  BY <1>3, <1>4, <2>3, <2>4, <2>6 DEF ProbeInv, RoomOK
  <1>5. CASE symbolsLeft' = Tail(symbolsLeft) /\ UNCHANGED <<bridge, nextRequest, lastRequest, requested, quotes>>
    <2>1. symbolsLeft' \in Seq(Watchlist) /\ Len(symbolsLeft') * PerSymbol = n - PerSymbol
      BY <1>0, <1>5, TurnLess
    <2>. DEFINE k == Len(symbolsLeft') * PerSymbol
    <2>2. k = n - PerSymbol
      BY <2>1
    <2>. HIDE DEF n, most, k
    <2>3. nextRequest + k + Len(options) <= most + 1 + 0
      BY <1>0, <1>1, <1>2, <2>2, BridgeFacts
    <2>4. TurnOK'
      BY <1>0, <1>5, <2>3 DEF TurnOK, k, most
    <2>5. BridgeTypeOK'
      BY <1>0, <1>5, <2>1 DEF ProbeInv, BridgeTypeOK
    <2>. QED  BY <1>0, <1>3, <1>5, <2>4, <2>5 DEF ProbeInv, NumbersOK, RoomOK
  <1>. QED  BY <1>4, <1>5 DEF NextSymbol

\* The quote of the stock is of the stock: its options are what is left.
LEMMA TakeStockKeeps == ProbeInv /\ TakeStock => ProbeInv'
  <1>. SUFFICES ASSUME ProbeInv, TakeStock PROVE ProbeInv'
    OBVIOUS
  <1>0. /\ symbolsLeft \in Seq(Watchlist) /\ symbolsLeft # <<>>
        /\ bridge = "quote" /\ options = <<>> /\ nextRequest \in Nat \ {0}
        /\ <<lastRequest, Stock(Head(symbolsLeft))>> \in requested
        /\ requested \subseteq Requests \X Contracts
        /\ quotes \in [Requests -> SUBSET Contracts]
        /\ underlying' = quotes[lastRequest] /\ symbolsLeft' = Tail(symbolsLeft) /\ bridge' = "option"
        /\ UNCHANGED <<minute, skew, tws, lastPaper, beat, nextRequest, lastRequest, requested, quotes,
                       observations, health>>
    BY DEF TakeStock, ProbeInv, BridgeTypeOK, TurnOK
  <1>. DEFINE symbol == Head(symbolsLeft)
              n == Len(symbolsLeft) * PerSymbol
              k == Len(symbolsLeft') * PerSymbol
              most == Len(WatchedSymbols) * PerSymbol
  <1>1. /\ n \in Nat /\ n >= PerSymbol /\ k = n - PerSymbol /\ most \in Nat
        /\ symbol \in Watchlist /\ symbolsLeft' \in Seq(Watchlist)
    BY <1>0, TurnLess, BridgeFacts
  <1>2. nextRequest + n <= most + 2
    BY <1>0, <1>1 DEF ProbeInv, TurnOK
  <1>3. lastRequest \in Requests
    BY <1>0
  <1>4. underlying' \subseteq {Stock(symbol)} /\ underlying' \subseteq Contracts
    BY <1>0, <1>3, QuoteIsOfContract
  <1>5. /\ options' \in Seq(Contracts) /\ Len(options') <= 2 * PickedStrikes
        /\ Len(options') \in Nat
        /\ \A i \in 1..Len(options') : underlying' = {Stock(options'[i][1])}
    <2>1. CASE quotes[lastRequest] # {} /\ options' = OptionsOf(symbol)
      <3>1. underlying' = {Stock(symbol)}
        BY <1>0, <1>4, <2>1
      <3>2. options' \in Seq(Contracts) /\ Len(options') = 2 * PickedStrikes
        BY <1>1, <2>1, OptionsOfType
      <3>3. \A i \in 1..Len(options') : options'[i][1] = symbol
        BY <1>1, <2>1, OptionsOfType
      <3>4. 2 * PickedStrikes \in Nat
        BY BridgeFacts
      <3>. QED  BY <3>1, <3>2, <3>3, <3>4
    <2>2. CASE options' = <<>>
      BY <2>2, BridgeFacts
    <2>. QED  BY <2>1, <2>2 DEF TakeStock
  <1>6. TurnOK'
    <2>1. PerSymbol >= 1 + Len(options') /\ PerSymbol \in Nat
      BY <1>5, BridgeFacts DEF PerSymbol
    <2>. HIDE DEF n, k, most
    <2>2. nextRequest + k + Len(options') <= most + 1 + 0
      BY <1>0, <1>1, <1>2, <1>5, <2>1
    <2>. QED  BY <1>0, <1>5, <2>2 DEF TurnOK, k, most
  <1>7. BridgeTypeOK'
    BY <1>0, <1>1, <1>4, <1>5 DEF ProbeInv, BridgeTypeOK
  <1>8. NumbersOK' /\ RoomOK' /\ QuotesAreOwn'
    BY <1>0 DEF ProbeInv, NumbersOK, RoomOK, QuotesAreOwn, Observed
  <1>. QED  BY <1>6, <1>7, <1>8 DEF ProbeInv

LEMMA NextOptionKeeps == ProbeInv /\ NextOption => ProbeInv'
  <1>. SUFFICES ASSUME ProbeInv, NextOption PROVE ProbeInv'
    OBVIOUS
  <1>0. /\ symbolsLeft \in Seq(Watchlist) /\ options \in Seq(Contracts)
        /\ bridge = "option" /\ nextRequest \in Nat \ {0}
        /\ UNCHANGED <<minute, skew, tws, lastPaper, beat, symbolsLeft, underlying, observations, health>>
    BY DEF NextOption, ProbeInv, BridgeTypeOK
  <1>. DEFINE n == Len(symbolsLeft) * PerSymbol
              most == Len(WatchedSymbols) * PerSymbol
  <1>1. n \in Nat /\ most \in Nat /\ Len(options) \in Nat
    BY <1>0, BridgeFacts
  <1>2. nextRequest + n + Len(options) <= most + 1 + 0
    BY <1>0 DEF ProbeInv, TurnOK
  <1>3. QuotesAreOwn'
    BY <1>0 DEF ProbeInv, QuotesAreOwn, Observed
  <1>4. CASE /\ options # <<>> /\ ~Full(Head(options)[1]) /\ Ask(Head(options))
             /\ bridge' = "tick" /\ UNCHANGED options
    <2>1. Len(options) >= 1 /\ Head(options) \in Contracts
      BY <1>0, <1>4
    <2>. HIDE DEF n, most
    <2>2. nextRequest \in 1..most
      BY <1>0, <1>1, <1>2, <2>1
    <2>3. nextRequest \in Requests
      BY <2>2, BridgeFacts DEF most
    <2>4. /\ NumbersOK'
          /\ nextRequest' = nextRequest + 1
          /\ <<lastRequest', Head(options)>> \in requested'
          /\ lastRequest' \in Requests
          /\ requested' \subseteq Requests \X Contracts
          /\ quotes' \in [Requests -> SUBSET Contracts]
      BY <1>4, <2>1, <2>3, AskKeeps
    <2>5. BridgeTypeOK'
      BY <1>0, <1>4, <2>4 DEF ProbeInv, BridgeTypeOK
    <2>6. nextRequest' + n + Len(options) <= most + 1 + 1
      BY <1>0, <1>1, <1>2, <2>4
    <2>7. \A i \in 1..Len(options) : underlying = {Stock(options[i][1])}
      BY DEF ProbeInv, TurnOK
    <2>8. TurnOK'
      BY <1>0, <1>4, <2>4, <2>6, <2>7 DEF TurnOK, n, most
    <2>9. RoomOK'
      BY <1>0, <1>4 DEF RoomOK, Full, Observed
    <2>. QED  BY <1>3, <2>4, <2>5, <2>8, <2>9 DEF ProbeInv
  <1>5. CASE options' = <<>> /\ bridge' = "symbol" /\ UNCHANGED <<nextRequest, lastRequest, requested, quotes>>
    <2>. HIDE DEF n, most
    <2>1. nextRequest + n + 0 <= most + 1 + 0
      BY <1>0, <1>1, <1>2
    <2>2. TurnOK'
      BY <1>0, <1>5, <2>1 DEF TurnOK, n, most
    <2>3. BridgeTypeOK'
      BY <1>0, <1>5 DEF ProbeInv, BridgeTypeOK
    <2>. QED  BY <1>3, <1>5, <2>2, <2>3 DEF ProbeInv, NumbersOK, RoomOK
  <1>. QED  BY <1>4, <1>5 DEF NextOption

\* The observation is of the contract asked for last and of its stock.
LEMMA TakeOptionKeeps == ProbeInv /\ TakeOption => ProbeInv'
  <1>. SUFFICES ASSUME ProbeInv, TakeOption PROVE ProbeInv'
    OBVIOUS
  <1>. DEFINE o == [of |-> Head(options), quote |-> quotes[lastRequest], stock |-> underlying]
              symbol == Head(options)[1]
  <1>0. /\ symbolsLeft \in Seq(Watchlist) /\ options \in Seq(Contracts) /\ options # <<>>
        /\ bridge = "tick" /\ bridge' = "option" /\ nextRequest \in Nat \ {0}
        /\ <<lastRequest, Head(options)>> \in requested
        /\ requested \subseteq Requests \X Contracts
        /\ quotes \in [Requests -> SUBSET Contracts]
        /\ observations \in Seq(Observation)
        /\ observations' = Append(observations, o) /\ options' = Tail(options)
        /\ UNCHANGED <<minute, skew, tws, lastPaper, beat, symbolsLeft, nextRequest, lastRequest,
                       requested, quotes, underlying, health>>
    BY DEF TakeOption, ProbeInv, BridgeTypeOK, TurnOK
  <1>1. /\ Len(options) >= 1 /\ Len(options) \in Nat /\ Tail(options) \in Seq(Contracts)
        /\ Len(Tail(options)) = Len(options) - 1
        /\ Head(options) = options[1] /\ Head(options) \in Contracts
        /\ \A i \in 1..Len(Tail(options)) : Tail(options)[i] = options[i + 1]
    BY <1>0
  <1>2. lastRequest \in Requests
    BY <1>0
  <1>3. quotes[lastRequest] \subseteq {Head(options)} /\ quotes[lastRequest] \subseteq Contracts
    BY <1>0, <1>2, QuoteIsOfContract
  <1>4. underlying = {Stock(symbol)} /\ underlying \subseteq Contracts
    <2>1. 1 \in 1..Len(options)
      BY <1>1
    <2>. QED  BY <1>1, <2>1 DEF ProbeInv, TurnOK, BridgeTypeOK
  <1>5. o \in Observation /\ o.quote \subseteq {o.of} /\ o.stock = {Stock(o.of[1])}
    BY <1>1, <1>3, <1>4 DEF Observation
  <1>6. TurnOK'
    <2>. DEFINE n == Len(symbolsLeft) * PerSymbol
                most == Len(WatchedSymbols) * PerSymbol
    <2>1. n \in Nat /\ most \in Nat
      BY <1>0, BridgeFacts
    <2>2. nextRequest + n + Len(options) <= most + 1 + 1
      BY <1>0 DEF ProbeInv, TurnOK
    <2>. HIDE DEF n, most
    <2>3. nextRequest + n + Len(options') <= most + 1 + 0
      BY <1>0, <1>1, <2>1, <2>2
    <2>4. ASSUME NEW i \in 1..Len(options') PROVE underlying = {Stock(options'[i][1])}
      <3>1. i + 1 \in 1..Len(options) /\ options'[i] = options[i + 1]
        BY <1>0, <1>1
      <3>. QED  BY <3>1 DEF ProbeInv, TurnOK
    <2>. QED  BY <1>0, <2>3, <2>4 DEF TurnOK, n, most
  <1>. HIDE DEF o
  <1>7. BridgeTypeOK'
    <2>1. observations' \in Seq(Observation)
      BY <1>0, <1>5
    <2>. QED  BY <1>0, <1>1, <2>1 DEF ProbeInv, BridgeTypeOK
  <1>8. QuotesAreOwn'
    <2>0. /\ Len(observations) \in Nat /\ Len(observations') = Len(observations) + 1
          /\ \A i \in 1..Len(observations) : observations'[i] = observations[i]
          /\ observations'[Len(observations) + 1] = o
      BY <1>0, <1>5
    <2>1. ASSUME NEW i \in 1..Len(observations')
          PROVE  /\ observations'[i].quote \subseteq {observations'[i].of}
                 /\ observations'[i].stock = {Stock(observations'[i].of[1])}
      <3>1. CASE i = Len(observations) + 1
        BY <1>5, <2>0, <3>1
      <3>2. CASE i \in 1..Len(observations)
        BY <2>0, <3>2 DEF ProbeInv, QuotesAreOwn
      <3>. QED  BY <2>0, <3>1, <3>2
    <2>2. ASSUME NEW s \in Watchlist PROVE Cardinality(Observed(s)') <= WantedContracts
      <3>1. IsFiniteSet(Observed(s)) /\ Cardinality(Observed(s)) \in Nat
        <4>1. Observed(s) \subseteq 1..Len(observations)
          BY DEF Observed
        <4>2. IsFiniteSet(1..Len(observations))
          BY <2>0, FS_Interval
        <4>. QED  BY <4>1, <4>2, FS_Subset, FS_CardinalityType
      <3>2. CASE s = symbol
        <4>1. Observed(s)' = Observed(s) \cup {Len(observations) + 1}
          BY <2>0, <3>2 DEF Observed, o
        <4>2. Len(observations) + 1 \notin Observed(s)
          BY <2>0 DEF Observed
        <4>3. Cardinality(Observed(s)') = Cardinality(Observed(s)) + 1
          BY <3>1, <4>1, <4>2, FS_AddElement
        <4>4. ~(Cardinality(Observed(s)) >= WantedContracts)
          BY <1>0, <3>2 DEF ProbeInv, RoomOK, Full
        <4>. QED  BY <3>1, <4>3, <4>4, BridgeFacts
      <3>3. CASE s # symbol
        <4>1. Observed(s)' = Observed(s)
          BY <2>0, <3>3 DEF Observed, o
        <4>. QED  BY <4>1 DEF ProbeInv, QuotesAreOwn
      <3>. QED  BY <3>2, <3>3
    <2>. QED  BY <2>1, <2>2 DEF QuotesAreOwn
  <1>9. NumbersOK' /\ RoomOK'
    BY <1>0 DEF ProbeInv, NumbersOK, RoomOK
  <1>. QED  BY <1>6, <1>7, <1>8, <1>9 DEF ProbeInv

LEMMA ProbeStep == BridgeInv /\ ProbeInv /\ [BridgeNext]_bridgeVars => ProbeInv'
  <1>. SUFFICES ASSUME BridgeInv, ProbeInv, [BridgeNext]_bridgeVars PROVE ProbeInv'
    OBVIOUS
  <1>1. ASSUME UNCHANGED <<bridge, probe>>, BridgeTypeOK' PROVE ProbeInv'
    BY <1>1 DEF ProbeInv, NumbersOK, TurnOK, RoomOK, QuotesAreOwn, Observed, Full, probe
  <1>2. CASE MinutePasses
    BY <1>1, <1>2, BridgeAssumption DEF MinutePasses, ProbeInv, BridgeTypeOK, probe
  <1>3. CASE TwsChanges
    BY <1>1, <1>3 DEF TwsChanges, ProbeInv, BridgeTypeOK, probe
  <1>4. ASSUME NEW provider \in OtherProviders, NEW state \in {"ready", "unavailable"},
               OtherRow(provider, state)
        PROVE  ProbeInv'
    <2>1. minute \in Nat
      BY BridgeAssumption DEF ProbeInv, BridgeTypeOK
    <2>2. health' \in Seq(HealthRow)
      BY <1>4, <2>1 DEF OtherRow, HealthRow, ProbeInv, BridgeTypeOK
    <2>. QED  BY <1>1, <1>4, <2>2 DEF OtherRow, ProbeInv, BridgeTypeOK, probe
  <1>5. CASE Tick
    <2>1. PICK pair \in requested : quotes' = [quotes EXCEPT ![pair[1]] = @ \cup {pair[2]}]
      BY <1>5 DEF Tick
    <2>2. /\ quotes \in [Requests -> SUBSET Contracts]
          /\ pair[1] \in Requests /\ pair[2] \in Contracts /\ <<pair[1], pair[2]>> \in requested
      BY SMTT(30) DEF ProbeInv, BridgeTypeOK
    <2>3. quotes' \in [Requests -> SUBSET Contracts]
      BY <2>1, <2>2
    <2>4. \A n \in Requests : \A c \in quotes'[n] : <<n, c>> \in requested
      BY <2>1, <2>2 DEF ProbeInv, NumbersOK
    <2>. QED
      BY <1>5, <2>3, <2>4
      DEF Tick, ProbeInv, BridgeTypeOK, NumbersOK, TurnOK, RoomOK, QuotesAreOwn, Observed, Full
  <1>6. CASE StartBridge
    BY <1>6, FreshKeeps DEF StartBridge, NoBeat, Heartbeat, ProbeInv, BridgeTypeOK
  <1>7. CASE Connect
    <2>1. /\ bridge = "connect" /\ nextRequest = 1 /\ options = <<>>
          /\ bridge' \in {"symbol", "post"} /\ symbolsLeft' \in {WatchedSymbols, <<>>}
          /\ UNCHANGED <<minute, skew, tws, lastPaper, options, nextRequest, lastRequest, requested,
                         quotes, underlying, observations, health>>
      BY <1>7 DEF Connect, ProbeInv, TurnOK
    <2>2. beat' \in Heartbeat
      <3>1. BeatOK'
        BY BridgeStep DEF BridgeInv
      <3>. QED  BY <3>1 DEF BeatOK
    <2>3. BridgeTypeOK'
      <3>1. symbolsLeft' \in Seq(Watchlist)
        <4>1. <<>> \in Seq(Watchlist)
          OBVIOUS
        <4>. QED  BY <2>1, <4>1, WatchedAssumption
      <3>. QED  BY <2>1, <2>2, <3>1 DEF ProbeInv, BridgeTypeOK
    <2>4. Len(symbolsLeft') * PerSymbol <= Len(WatchedSymbols) * PerSymbol
          /\ Len(symbolsLeft') * PerSymbol \in Nat
      <3>1. CASE symbolsLeft' = WatchedSymbols
        BY <3>1, BridgeFacts
      <3>2. CASE symbolsLeft' = <<>>
        <4>1. Len(symbolsLeft') * PerSymbol = 0
          BY <3>2, BridgeFacts
        <4>. QED  BY <4>1, BridgeFacts
      <3>. QED  BY <2>1, <3>1, <3>2
    <2>5. TurnOK'
      BY <2>1, <2>4, BridgeFacts DEF ProbeInv, TurnOK
    <2>. QED  BY <2>1, <2>3, <2>5 DEF ProbeInv, NumbersOK, RoomOK, QuotesAreOwn, Observed
  <1>8. CASE AllCollected
    BY <1>8 DEF AllCollected, probe, ProbeInv, BridgeTypeOK, NumbersOK, TurnOK, RoomOK, QuotesAreOwn, Observed
  <1>9. CASE PostHeartbeat
    <2>1. UNCHANGED <<minute, skew, tws, lastPaper>> /\ health' \in Seq(HealthRow)
      <3>1. HealthOK'
        BY BridgeStep DEF BridgeInv
      <3>. QED  BY <1>9, <3>1 DEF PostHeartbeat, HealthOK
    <2>2. CASE bridge' = "off" /\ beat' = NoBeat /\ FreshProbe
      BY <2>1, <2>2, FreshKeeps DEF NoBeat, Heartbeat
    <2>3. CASE bridge = "post" /\ bridge' = "options" /\ UNCHANGED <<beat, probe>>
      BY <2>1, <2>3
      DEF probe, ProbeInv, BridgeTypeOK, NumbersOK, TurnOK, RoomOK, QuotesAreOwn, Observed
    <2>. QED  BY <1>9, <2>2, <2>3 DEF PostHeartbeat
  <1>10. CASE PostOptions
    BY <1>10, FreshKeeps DEF PostOptions, NoBeat, Heartbeat, ProbeInv, BridgeTypeOK
  <1>11. CASE UNCHANGED bridgeVars
    BY <1>1, <1>11 DEF bridgeVars, probe, ProbeInv, BridgeTypeOK
  <1>. QED  BY <1>2, <1>3, <1>4, <1>5, <1>6, <1>7, <1>8, <1>9, <1>10, <1>11,
               NextSymbolKeeps, TakeStockKeeps, NextOptionKeeps, TakeOptionKeeps DEF BridgeNext

\* However late the ticks of TWS come, what the bridge stores of an option is of
\* that option and of its stock, and of no symbol more than max_contracts_per_symbol
\* allows (PaperTWSProbe and collect_options of scripts/ibkr_bridge.py).
THEOREM TicksAreFiledRight == Spec => []QuotesAreOwn
  <1>1. BridgeSpec => [](BridgeInv /\ ProbeInv)
    BY BridgeInitial, ProbeInitial, BridgeStep, ProbeStep, PTL DEF BridgeSpec
  <1>2. ProbeInv => QuotesAreOwn
    BY DEF ProbeInv
  <1>. QED  BY <1>1, <1>2, ServiceImplementsBridge, PTL
=============================================================================
