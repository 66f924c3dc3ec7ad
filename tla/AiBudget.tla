------------------------------- MODULE AiBudget -------------------------------
(***************************************************************************)
(* The month's allowance of AI analyses: summarise_latest_news and         *)
(* analyse_options_screenshot of src/lmio/service.py over the table        *)
(* ai_usage and the summaries kept in news_events.                         *)
(*                                                                         *)
(* Requests run at a time and share nothing but the store.  Each reads     *)
(* what the month has cost once, and goes by that and by what it adds      *)
(* itself.  A step is one operation of the store or one request to the     *)
(* provider.  Money is counted in a unit that divides all amounts.         *)
(*                                                                         *)
(* Definitions named Faulty... are plausible mistakes in the one that      *)
(* follows them.  No specification uses them: they show what the           *)
(* properties catch.                                                       *)
(***************************************************************************)
EXTENDS Integers, FiniteSets

CONSTANTS
  Analysts,      \* requests
  News,          \* news events, by fingerprint
  NoNews,        \* no event
  Cap,           \* openai_monthly_cap_usd
  Reserve,       \* what a summary costs at most
  Costs,         \* what a summary may cost
  ImageReserve,  \* what a screenshot is charged, before it is sent
  MaxImages,     \* bound: screenshots that are asked for
  MaxUnusable,   \* bound: requests to the provider that fail
  MaxMonths,     \* bound: months that begin
  MaxAbandoned   \* bound: deaths of requests

ASSUME BudgetAssumption ==
  /\ IsFiniteSet(Analysts)
  /\ NoNews \notin News
  /\ {Cap, Reserve, ImageReserve} \subseteq Nat
  /\ Costs \subseteq 0..Reserve
  /\ {MaxImages, MaxUnusable, MaxMonths, MaxAbandoned} \subseteq Nat

VARIABLES
  ledger,      \* the sum of cost_usd of this month's ai_usage
  summarised,  \* the events stored with an ai_summary
  task,        \* what each request does next
  used,        \* what it takes the month to have cost
  queue,       \* the events it has still to summarise
  event,       \* the one it is dealing with
  cost,        \* what the answer has cost
  charged,     \* history: what the provider has charged for summaries this month
  paid,        \* history: answers paid for of each event
  images,      \* history: screenshots asked for
  unusable,    \* history: requests that were charged and gave no answer
  months,      \* history: months that began
  abandoned    \* history: deaths

analysis == <<task, used, queue, event, cost>>
spent == <<charged, paid, unusable>>
budgetVars == <<ledger, summarised, analysis, spent, images, months, abandoned>>

Tasks == {"idle", "news", "ask", "charge", "store", "reserve", "image"}

BudgetTypeOK ==
  /\ ledger \in Nat
  /\ summarised \subseteq News
  /\ task \in [Analysts -> Tasks]
  /\ used \in [Analysts -> Nat]
  /\ queue \in [Analysts -> SUBSET News]
  /\ event \in [Analysts -> News \cup {NoNews}]
  /\ cost \in [Analysts -> Costs \cup {0}]
  /\ charged \in Nat
  /\ paid \in [News -> Nat]
  /\ images \in Nat
  /\ unusable \in Nat
  /\ months \in Nat
  /\ abandoned \in Nat

BudgetInit ==
  /\ ledger = 0
  /\ summarised = {}
  /\ task = [a \in Analysts |-> "idle"]
  /\ used = [a \in Analysts |-> 0]
  /\ queue = [a \in Analysts |-> {}]
  /\ event = [a \in Analysts |-> NoNews]
  /\ cost = [a \in Analysts |-> 0]
  /\ charged = 0
  /\ paid = [n \in News |-> 0]
  /\ images = 0
  /\ unusable = 0
  /\ months = 0
  /\ abandoned = 0

EndAnalysis(a) ==
  /\ task' = [task EXCEPT ![a] = "idle"]
  /\ used' = [used EXCEPT ![a] = 0]
  /\ queue' = [queue EXCEPT ![a] = {}]
  /\ event' = [event EXCEPT ![a] = NoNews]
  /\ cost' = [cost EXCEPT ![a] = 0]

\* A month begins: ai_usage_total now counts from zero.
NewMonth ==
  /\ months < MaxMonths
  /\ months' = months + 1
  /\ ledger' = 0
  /\ charged' = 0
  /\ UNCHANGED <<summarised, analysis, paid, images, unusable, abandoned>>

-----------------------------------------------------------------------------
(* summarise_latest_news.                                                  *)

Affords(total, reserve) == total + reserve <= Cap

\* A refresh of the news reads what the month has cost.
Summarise(a) ==
  /\ task[a] = "idle"
  /\ Affords(ledger, Reserve)
  /\ used' = [used EXCEPT ![a] = ledger]
  /\ task' = [task EXCEPT ![a] = "news"]
  /\ UNCHANGED <<ledger, summarised, queue, event, cost, spent, images, months, abandoned>>

\* It reads the events: those without a summary are its list, from now on.
ListNews(a) ==
  /\ task[a] = "news"
  /\ \/ News = summarised /\ EndAnalysis(a)
     \/ /\ News # summarised
        /\ queue' = [queue EXCEPT ![a] = News \ summarised]
        /\ task' = [task EXCEPT ![a] = "ask"]
        /\ UNCHANGED <<used, event, cost>>
  /\ UNCHANGED <<ledger, summarised, spent, images, months, abandoned>>

\* The next event, while the allowance lasts: the provider answers ...
Answered(a, n) ==
  /\ task[a] = "ask"
  /\ n \in queue[a]
  /\ Affords(used[a], Reserve)
  /\ \E amount \in Costs :
       /\ cost' = [cost EXCEPT ![a] = amount]
       /\ charged' = charged + amount
  /\ paid' = [paid EXCEPT ![n] = @ + 1]
  /\ event' = [event EXCEPT ![a] = n]
  /\ queue' = [queue EXCEPT ![a] = @ \ {n}]
  /\ task' = [task EXCEPT ![a] = "charge"]
  /\ UNCHANGED <<ledger, summarised, used, images, unusable, months, abandoned>>

\* ... or the worker raises: the request timed out, or what came back is cut
\* off or malformed.  A row of provider_health says so; the call goes on with
\* the next event and keeps no account of the charge there may have been.
Unanswered(a, n) ==
  /\ task[a] = "ask"
  /\ n \in queue[a]
  /\ Affords(used[a], Reserve)
  /\ unusable < MaxUnusable
  /\ unusable' = unusable + 1
  /\ \E amount \in Costs \cup {0} : charged' = charged + amount
  /\ queue' = [queue EXCEPT ![a] = @ \ {n}]
  /\ UNCHANGED <<ledger, summarised, task, used, event, cost, paid, images, months, abandoned>>

OwnSpend(total, amount) == total + amount

FaultyCharge(a) ==   \* the row is written with the summary, or not at all
  /\ task[a] = "charge"
  /\ used' = [used EXCEPT ![a] = OwnSpend(@, cost[a])]
  /\ task' = [task EXCEPT ![a] = "store"]
  /\ UNCHANGED <<ledger, summarised, queue, event, cost, spent, images, months, abandoned>>

\* The cost is added to the call's own total and a row of ai_usage.
Charge(a) ==
  /\ task[a] = "charge"
  /\ used' = [used EXCEPT ![a] = OwnSpend(@, cost[a])]
  /\ ledger' = ledger + cost[a]
  /\ task' = [task EXCEPT ![a] = "store"]
  /\ UNCHANGED <<summarised, queue, event, cost, spent, images, months, abandoned>>

FaultyStored(n) == {}   \* the event is updated without its summary

Stored(n) == {n}

\* update_news_event: the event is stored again, with its summary.
StoreSummary(a) ==
  /\ task[a] = "store"
  /\ summarised' = summarised \cup Stored(event[a])
  /\ event' = [event EXCEPT ![a] = NoNews]
  /\ cost' = [cost EXCEPT ![a] = 0]
  /\ task' = [task EXCEPT ![a] = "ask"]
  /\ UNCHANGED <<ledger, used, queue, spent, images, months, abandoned>>

\* The list or the allowance is at its end.
Summarised(a) ==
  /\ task[a] = "ask"
  /\ queue[a] = {} \/ ~Affords(used[a], Reserve)
  /\ EndAnalysis(a)
  /\ UNCHANGED <<ledger, summarised, spent, images, months, abandoned>>

-----------------------------------------------------------------------------
(* analyse_options_screenshot.                                             *)

ReadSpend(a) ==
  /\ task[a] = "idle"
  /\ images < MaxImages
  /\ images' = images + 1
  /\ Affords(ledger, ImageReserve)
  /\ used' = [used EXCEPT ![a] = ledger]
  /\ task' = [task EXCEPT ![a] = "reserve"]
  /\ UNCHANGED <<ledger, summarised, queue, event, cost, spent, months, abandoned>>

\* The reservation is appended before the image is sent.
ReserveImage(a) ==
  /\ task[a] = "reserve"
  /\ ledger' = ledger + ImageReserve
  /\ used' = [used EXCEPT ![a] = OwnSpend(@, ImageReserve)]
  /\ task' = [task EXCEPT ![a] = "image"]
  /\ UNCHANGED <<summarised, queue, event, cost, spent, images, months, abandoned>>

\* The image is analysed and the answer stored with the option flow, or not:
\* the reservation stays.
SendImage(a) ==
  /\ task[a] = "image"
  /\ EndAnalysis(a)
  /\ UNCHANGED <<ledger, summarised, spent, images, months, abandoned>>

Abandon(a) ==
  /\ task[a] # "idle"
  /\ abandoned < MaxAbandoned
  /\ abandoned' = abandoned + 1
  /\ EndAnalysis(a)
  /\ UNCHANGED <<ledger, summarised, spent, images, months>>

AnalysisStep(a) ==
  \/ ListNews(a)
  \/ \E n \in News : Answered(a, n) \/ Unanswered(a, n)
  \/ Charge(a) \/ StoreSummary(a) \/ Summarised(a)
  \/ ReserveImage(a) \/ SendImage(a)

BudgetNext ==
  \/ NewMonth
  \/ \E a \in Analysts : Summarise(a) \/ ReadSpend(a) \/ AnalysisStep(a) \/ Abandon(a)

BudgetSpec == BudgetInit /\ [][BudgetNext]_budgetVars

-----------------------------------------------------------------------------
(* Properties.                                                             *)

InCharge == {a \in Analysts : task[a] = "charge"}

\* Requests at a time overrun the cap, each by no more than a whole cap: one
\* request after another never does.  Each goes by the total it has read.
\* And the ledger they go by tells what the provider charges for summaries,
\* but for requests that gave no answer, died before the row was appended, or
\* are about to append it.
SpendWithinOverrun ==
  /\ ledger <= Cap * Cardinality(Analysts)
  /\ charged <= ledger + Reserve * (unusable + abandoned + Cardinality(InCharge))

\* An event is paid for once by each request at a time, and once more for
\* each that died before it had stored the summary.
PaidPerOverlap == \A n \in News : paid[n] <= Cardinality(Analysts) + abandoned
=============================================================================
