------------------------------ MODULE MCJobStore ------------------------------
(***************************************************************************)
(* Instances of JobStore: one posting and one landing page.                *)
(***************************************************************************)
EXTENDS JobStore, TLC

CONSTANTS p1, p2, job, landing, blank, note

MCProcs == {p1, p2}
MCJobs == {job, landing}
MCConcrete == {job}
MCTexts == {blank, note}
MCChoices == {"interested", "ignored"}
Symmetry == Permutations(MCProcs)
=============================================================================
