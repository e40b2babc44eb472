---------------------------- MODULE MCStepChecker ----------------------------
(* Small instances of StepChecker for TLC. *)
EXTENDS StepChecker

CONSTANTS k1, k2

All == SUBSET {"objectives", "requirements"}

(* Being disabled matters most to a step with objectives: the others stand      *)
(* outside a section, where they never are.                                     *)
MCInSection == {{"objectives"}}

(* A step with objectives is checked on the live tab: no retries. *)
MCMaxRetries == [h \in Guides |-> IF "objectives" \in h THEN 0 ELSE 1]
=============================================================================
