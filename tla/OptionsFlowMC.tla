---------------------------- MODULE OptionsFlowMC ----------------------------
(* A small instance of OptionsFlow for TLC. *)
EXTENDS OptionsFlow

CONSTANTS early, later, again, other, plain

\* Scans of one contract two and thirty minutes apart, and of another one.
SmallTimes ==
  [o \in Observations |-> CASE o = early -> 0 [] o = again -> 32 [] OTHER -> 2]

TwoContracts == [o \in Observations |-> IF o = other THEN "put" ELSE "call"]

SmallBatches ==
  {[at |-> 0, observations |-> {early}],
   [at |-> 2, observations |-> {later, other, plain}],
   [at |-> 32, observations |-> {again}]}
=============================================================================
