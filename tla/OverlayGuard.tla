------------------------------ MODULE OverlayGuard ------------------------------
(***************************************************************************)
(* The scale guard of the language server's cross-file overlay              *)
(* (crates/rigor-cli/src/lsp.rs, struct OverlayGuard) as operators.  Every  *)
(* project-index rebuild is timed; a sample is abstracted to whether it     *)
(* exceeded the budget.  Strikes consecutive over-budget samples switch the *)
(* overlay off, one under-budget sample switches it back on.                *)
(***************************************************************************)
EXTENDS Naturals

CONSTANT Strikes        \* OVERLAY_GUARD_STRIKES

ASSUME StrikesAssumption == Strikes \in Nat \ {0}

Guards == [enabled : BOOLEAN, over : Nat]

NewGuard == [enabled |-> TRUE, over |-> 0]

\* Fault: an under-budget sample does not clear the streak of an enabled guard.
RecordKeepingStreak(g, overBudget) ==
  IF overBudget
  THEN IF g.enabled /\ g.over + 1 >= Strikes
       THEN [enabled |-> FALSE, over |-> 0]
       ELSE [enabled |-> g.enabled, over |-> g.over + 1]
  ELSE IF g.enabled THEN g ELSE [enabled |-> TRUE, over |-> 0]

\* The guard after one sample; overBudget says whether it exceeded the budget.
Record(g, overBudget) ==
  IF overBudget
  THEN IF g.enabled /\ g.over + 1 >= Strikes
       THEN [enabled |-> FALSE, over |-> 0]
       ELSE [enabled |-> g.enabled, over |-> g.over + 1]
  ELSE [enabled |-> TRUE, over |-> 0]
================================================================================
