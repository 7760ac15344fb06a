--------------------------- MODULE MCAutomationTick ---------------------------
(* A small instance of AutomationTick for TLC.                             *)
EXTENDS AutomationTick, TLC

MCChoices == {[prefs |-> "a", report |-> TRUE, discovery |-> TRUE, hook |-> TRUE]}
MCDefaultChoice == [prefs |-> "b", report |-> FALSE, discovery |-> TRUE, hook |-> FALSE]
Symmetry == Permutations(Procs)
=============================================================================
