---------------------------- MODULE OperatorRefresh ----------------------------
(***************************************************************************)
(* operator_full_refresh of src/lmio/main.py and the refreshes it calls:   *)
(* refresh_finviz, refresh_cboe_options and refresh_official_news of       *)
(* src/lmio/service.py with the providers behind them.                     *)
(*                                                                         *)
(* Each refresh writes rows of provider_health as it goes and returns a    *)
(* result, or raises.  The operator's call only sees what it returns or    *)
(* that it raised, never the rows.  A step is one source that is fetched,  *)
(* or one of the later writes of a refresh, which may raise.               *)
(*                                                                         *)
(* Definitions named Faulty... are plausible mistakes in the one that      *)
(* follows them.  No specification uses them: they show what the           *)
(* properties catch.                                                       *)
(***************************************************************************)
EXTENDS Integers, FiniteSets

CONSTANTS
  Tries,         \* requests to Finviz of one refresh
  Feeds,         \* feeds of official macro news
  MaxRefreshes,  \* bound: refreshes
  MaxKilled      \* bound: processes that die

ASSUME RefreshAssumption == {Tries, Feeds, MaxRefreshes, MaxKilled} \subseteq Nat /\ Tries > 0

VARIABLES
  step,      \* what the call does next
  component, \* the component it is at
  nested,    \* the statuses in the result of the component so far
  statuses,  \* component_statuses
  written,   \* history: provider and state of the rows this refresh has written
  raised,    \* history: components that raised
  systemEvent, \* the status of its last system event
  refreshes, \* history: refreshes that began
  killed     \* history: processes that died

refreshVars == <<step, component, nested, statuses, written, raised, systemEvent, refreshes, killed>>

Components == {"finviz", "cboe", "news", "outcomes", "performance", "health"}
Marks == {"completed", "partial", "unavailable"}
Steps == {"idle", "finviz", "regime", "report", "cboe", "alert", "macro", "sec", "ai",
          "outcomes", "performance", "health", "event"}

RefreshTypeOK ==
  /\ step \in Steps
  /\ component \in Components
  /\ nested \subseteq {"disabled", "unavailable", "failed", "partial", "degraded", "succeeded",
                       "ready", "cap_reached"}
  /\ statuses \in [Components -> Marks \cup {"none"}]
  /\ written \subseteq {"finviz", "regime", "cboe", "macro", "sec", "ai"} \X
                       {"ready", "degraded", "unavailable", "no_current_session_data"}
  /\ raised \subseteq Components
  /\ systemEvent \in {"none", "partial", "succeeded"}
  /\ refreshes \in Nat
  /\ killed \in Nat

RefreshInit ==
  /\ step = "idle"
  /\ component = "finviz"
  /\ nested = {}
  /\ statuses = [c \in Components |-> "none"]
  /\ written = {}
  /\ raised = {}
  /\ systemEvent = "none"
  /\ refreshes = 0
  /\ killed = 0

StartRefresh ==
  /\ step = "idle"
  /\ refreshes < MaxRefreshes
  /\ refreshes' = refreshes + 1
  /\ step' = "finviz"
  /\ component' = "finviz"
  /\ nested' = {}
  /\ statuses' = [c \in Components |-> "none"]
  /\ written' = {}
  /\ raised' = {}
  /\ systemEvent' = "none"
  /\ UNCHANGED killed

-----------------------------------------------------------------------------
(* What the operator's call makes of a component.                          *)

\* Where the next component starts.
After(c) ==
  CASE c = "finviz" -> "cboe" [] c = "cboe" -> "macro" [] c = "news" -> "outcomes"
    [] c = "outcomes" -> "performance" [] c = "performance" -> "health" [] c = "health" -> "event"

NextComponent(c) ==
  CASE c = "finviz" -> "cboe" [] c = "cboe" -> "news" [] c = "news" -> "outcomes"
    [] c = "outcomes" -> "performance" [] OTHER -> "health"

\* Only what the result holds as a whole is looked at: none of these
\* refreshes has a status of its own but "completed".
FaultyMark(found) == "completed"

Mark(found) ==
  CASE found \cap {"failed", "unavailable"} # {} -> "unavailable"
    [] found \cap {"failed", "unavailable"} = {} /\ found \cap {"partial", "degraded", "disabled"} # {}
         -> "partial"
    [] OTHER -> "completed"

EndComponent(mark) ==
  /\ statuses' = [statuses EXCEPT ![component] = mark]
  /\ step' = After(component)
  /\ component' = NextComponent(component)
  /\ nested' = {}

\* The refresh returns.
Returns(found) == EndComponent(Mark(found)) /\ UNCHANGED raised

\* It raises: an event says so and the call goes on with the next.
Raises == EndComponent("unavailable") /\ raised' = raised \cup {component}

Goes(to) == step' = to /\ UNCHANGED <<component, nested, statuses, raised>>

Writes(provider, state) == written' = written \cup {<<provider, state>>}

Unchanged == UNCHANGED <<systemEvent, refreshes, killed>>

-----------------------------------------------------------------------------
(* refresh_finviz.                                                         *)

\* FinvizAPIProvider.snapshots: the first answer that is not 429, of three at
\* most, has to be a CSV within its limits.
Accepted(answers) ==
  \E n \in 1..Tries : answers[n] = "csv" /\ \A k \in 1..(n - 1) : answers[k] = "busy"

FetchFinviz ==
  /\ step = "finviz"
  /\ \E answers \in [1..Tries -> {"csv", "busy", "bad"}] :
       \/ Accepted(answers) /\ Goes("regime") /\ UNCHANGED written
       \/ ~Accepted(answers) /\ Raises /\ Writes("finviz", "unavailable")
  /\ Unchanged

\* market_environment: benchmarks, breadth and the last close of the VIX, five
\* days old at most.  Without them the regime is unverified, and the row of
\* market_environment is all that says so: the refresh goes on.
VerifyRegime ==
  /\ step = "regime"
  /\ \E benchmarks, breadth \in BOOLEAN, vixDays \in 4..6 :
       IF benchmarks /\ breadth /\ vixDays <= 5
       THEN written' = written \cup {<<"finviz", "ready">>}
       ELSE written' = written \cup {<<"finviz", "ready">>, <<"regime", "unavailable">>}
  /\ Goes("report")
  /\ Unchanged

\* run_daily and the delivery of its report, which has to be live and
\* authorised: one of them may raise.
DailyReport ==
  /\ step = "report"
  /\ Returns({}) \/ Raises
  /\ UNCHANGED written
  /\ Unchanged

-----------------------------------------------------------------------------
(* refresh_cboe_options.                                                   *)

FetchCboe ==
  /\ step = "cboe"
  /\ \/ Raises /\ Writes("cboe", "unavailable")
     \/ \E state \in {"ready", "no_current_session_data"} : Writes("cboe", state) /\ Goes("alert")
  /\ Unchanged

\* The watchlist is handed to the outbox, if there is one.
AlertCboe ==
  /\ step = "alert"
  /\ Returns({}) \/ Raises
  /\ UNCHANGED written
  /\ Unchanged

-----------------------------------------------------------------------------
(* refresh_official_news.                                                  *)

\* collect_events and monitor_official_news: only if all feeds fail is the
\* refresh of the macro news unavailable; a result that lacks feeds has no
\* status.  Another error than that leaves the function without a row.
FetchMacro ==
  /\ step = "macro"
  /\ \/ \E failed \in 0..Feeds :
          \/ /\ failed = Feeds /\ failed > 0
             /\ nested' = {"unavailable"}
             /\ Writes("macro", "unavailable")
          \/ /\ failed < Feeds \/ failed = 0
             /\ nested' = {}
             /\ Writes("macro", IF failed > 0 THEN "degraded" ELSE "ready")
        /\ step' = "sec"
        /\ UNCHANGED <<component, statuses, raised>>
     \/ Raises /\ UNCHANGED written
  /\ Unchanged

\* monitor_sec, once the symbols of the Top 10 are resolved: if that fails the
\* row is degraded, and the result says nothing of it.
FetchSec ==
  /\ step = "sec"
  /\ \/ nested' = nested \cup {"disabled"} /\ UNCHANGED written
     \/ \E status \in {"succeeded", "partial", "failed", "unavailable"}, resolved \in BOOLEAN :
          /\ nested' = nested \cup {status}
          /\ Writes("sec", CASE status \in {"failed", "unavailable"} -> "unavailable"
                             [] status = "partial" -> "degraded"
                             [] status = "succeeded" -> IF resolved THEN "ready" ELSE "degraded")
  /\ step' = "ai"
  /\ UNCHANGED <<component, statuses, raised>>
  /\ Unchanged

SummaryStatus(failed) == IF failed THEN "partial" ELSE "ready"

\* summarise_latest_news: every summary that fails has a row.
Summaries ==
  /\ step = "ai"
  /\ \/ \E status \in {"disabled", "cap_reached"} : Returns(nested \cup {status}) /\ UNCHANGED written
     \/ \E failed \in BOOLEAN :
          /\ \/ Returns(nested \cup {SummaryStatus(failed)})
             \/ Raises
          /\ written' = written \cup (IF failed THEN {<<"ai", "unavailable">>} ELSE {})
  /\ Unchanged

-----------------------------------------------------------------------------
(* The rest of the call.                                                   *)

\* process_due_outcomes, aggregate_strategy_performance, build_system_health.
RunComponent ==
  /\ step \in {"outcomes", "performance", "health"}
  /\ Returns({}) \/ Raises
  /\ UNCHANGED written
  /\ Unchanged

RecordRefresh ==
  /\ step = "event"
  /\ systemEvent' = IF \E c \in Components : statuses[c] \in {"partial", "unavailable"}
              THEN "partial" ELSE "succeeded"
  /\ step' = "idle"
  /\ UNCHANGED <<component, nested, statuses, written, raised, refreshes, killed>>

Killed ==
  /\ step # "idle"
  /\ killed < MaxKilled
  /\ killed' = killed + 1
  /\ step' = "idle"
  /\ UNCHANGED <<component, nested, statuses, written, raised, systemEvent, refreshes>>

RefreshStep ==
  \/ FetchFinviz \/ VerifyRegime \/ DailyReport
  \/ FetchCboe \/ AlertCboe
  \/ FetchMacro \/ FetchSec \/ Summaries
  \/ RunComponent \/ RecordRefresh

RefreshNext == StartRefresh \/ RefreshStep \/ Killed

RefreshSpec == RefreshInit /\ [][RefreshNext]_refreshVars

-----------------------------------------------------------------------------
(* Properties.                                                             *)

\* A refresh recorded as succeeded raised nowhere, and of its five sources it
\* wrote no row that says unavailable; degraded only of macro feeds that were
\* missing and of symbols that were not resolved, which no result tells.  The
\* market environment is no source it looks at: its regime may be unverified.
SuccessIsHonest ==
  systemEvent = "succeeded"
    => /\ raised = {}
       /\ \A row \in written :
            /\ row[2] = "unavailable" => row[1] = "regime"
            /\ row[2] = "degraded" => row[1] \in {"macro", "sec"}

=============================================================================
