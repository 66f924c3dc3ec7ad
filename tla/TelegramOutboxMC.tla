-------------------------- MODULE TelegramOutboxMC --------------------------
(* Small instances of TelegramOutbox for TLC. *)
EXTENDS TelegramOutbox

CONSTANTS k1, k2, k3

\* Every direct call of the small instances allows one message an hour.
OnePerHour == [k \in Keys |-> 1]
=============================================================================
