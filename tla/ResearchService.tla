---------------------------- MODULE ResearchService ----------------------------
(***************************************************************************)
(* Eight parts of the service: outcomes of signals, the budget of AI       *)
(* requests, watchlists, the operator's refresh, the selection of          *)
(* candidates, the daily run, the copies of the store and the              *)
(* paper-trading bridge of the laptop.                                     *)
(*                                                                         *)
(* No part here has a variable of another.  Where one feeds another in the *)
(* code, as the daily run stores the snapshots that outcomes are evaluated *)
(* against, the module of the reader has an action for the writer, which   *)
(* may write whatever it may at any time.  So a step of one part and a     *)
(* step of another commute, and every property is about one part: a        *)
(* behaviour is one of a single part, chosen at the start, with the calls  *)
(* of that part interleaved and the other parts idle.                      *)
(***************************************************************************)
EXTENDS Outcomes, AiBudget, Watchlists, OperatorRefresh, Selection, DailyRun, Backup,
        IbkrBridge

VARIABLE serving  \* the part whose steps are taken

Parts == {"outcomes", "budget", "watchlists", "refresh", "selection", "daily", "backup",
          "bridge"}

ServiceTypeOK ==
  /\ serving \in Parts
  /\ OutcomesTypeOK
  /\ BudgetTypeOK
  /\ WatchlistsTypeOK
  /\ RefreshTypeOK
  /\ SelectionTypeOK
  /\ DailyTypeOK
  /\ BackupTypeOK
  /\ BridgeTypeOK

\* The backend matters to the copies only, the clock of the laptop and what it
\* is connected to, to the bridge.
Init ==
  /\ serving \in Parts
  /\ serving # "backup" => backend = "sqlite"
  /\ serving # "bridge" => skew = 0 /\ tws = "down"
  /\ OutcomesInit
  /\ BudgetInit
  /\ WatchlistsInit
  /\ RefreshInit
  /\ SelectionInit
  /\ DailyInit
  /\ BackupInit
  /\ BridgeInit

vars ==
  <<serving, outcomeVars, budgetVars, watchlistVars, refreshVars, selectionVars, dailyVars,
    backupVars, bridgeVars>>

Next ==
  /\ UNCHANGED serving
  /\ \/ /\ serving = "outcomes" /\ OutcomesNext
        /\ UNCHANGED <<budgetVars, watchlistVars, refreshVars, selectionVars, dailyVars,
                       backupVars, bridgeVars>>
     \/ /\ serving = "budget" /\ BudgetNext
        /\ UNCHANGED <<outcomeVars, watchlistVars, refreshVars, selectionVars, dailyVars,
                       backupVars, bridgeVars>>
     \/ /\ serving = "watchlists" /\ WatchlistsNext
        /\ UNCHANGED <<outcomeVars, budgetVars, refreshVars, selectionVars, dailyVars,
                       backupVars, bridgeVars>>
     \/ /\ serving = "refresh" /\ RefreshNext
        /\ UNCHANGED <<outcomeVars, budgetVars, watchlistVars, selectionVars, dailyVars,
                       backupVars, bridgeVars>>
     \/ /\ serving = "selection" /\ SelectionNext
        /\ UNCHANGED <<outcomeVars, budgetVars, watchlistVars, refreshVars, dailyVars,
                       backupVars, bridgeVars>>
     \/ /\ serving = "daily" /\ DailyNext
        /\ UNCHANGED <<outcomeVars, budgetVars, watchlistVars, refreshVars, selectionVars,
                       backupVars, bridgeVars>>
     \/ /\ serving = "backup" /\ BackupNext
        /\ UNCHANGED <<outcomeVars, budgetVars, watchlistVars, refreshVars, selectionVars,
                       dailyVars, bridgeVars>>
     \/ /\ serving = "bridge" /\ BridgeNext
        /\ UNCHANGED <<outcomeVars, budgetVars, watchlistVars, refreshVars, selectionVars,
                       dailyVars, backupVars>>

Spec == Init /\ [][Next]_vars
=============================================================================
