--------------------------- MODULE DeliveryLedger ---------------------------
(***************************************************************************)
(* What the Telegram outbox promises about one message, with no outbox,    *)
(* no workers and no store: a message is open until Telegram acknowledges  *)
(* it or it is closed undelivered; it is tried at most MaxAttempts times,  *)
(* only while it is open; and an acknowledgement follows a try and is      *)
(* never taken back.                                                       *)
(*                                                                         *)
(* TelegramOutbox implements this for every message that only one call     *)
(* submits (docs/OPERATIONS.md, "Provider failure": "up to three total     *)
(* attempts").                                                             *)
(***************************************************************************)
EXTENDS Naturals

CONSTANTS
  Messages,      \* the messages
  MaxAttempts    \* network tries a message may use

VARIABLES
  outcome,       \* what has become of each message
  tries          \* network tries each message has used

Outcomes == {"open", "acknowledged", "closed"}

TypeOK ==
  /\ outcome \in [Messages -> Outcomes]
  /\ tries \in [Messages -> 0..MaxAttempts]

Init ==
  /\ outcome = [m \in Messages |-> "open"]
  /\ tries = [m \in Messages |-> 0]

Try(m) ==
  /\ outcome[m] = "open"
  /\ tries[m] < MaxAttempts
  /\ tries' = [tries EXCEPT ![m] = @ + 1]
  /\ UNCHANGED outcome

Acknowledge(m) ==
  /\ outcome[m] = "open"
  /\ tries[m] > 0
  /\ outcome' = [outcome EXCEPT ![m] = "acknowledged"]
  /\ UNCHANGED tries

Close(m) ==
  /\ outcome[m] = "open"
  /\ outcome' = [outcome EXCEPT ![m] = "closed"]
  /\ UNCHANGED tries

Next == \E m \in Messages : Try(m) \/ Acknowledge(m) \/ Close(m)

Spec == Init /\ [][Next]_<<outcome, tries>>
=============================================================================
