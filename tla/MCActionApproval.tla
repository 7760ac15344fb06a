-------------------------- MODULE MCActionApproval --------------------------
(* Small instances of ActionApproval. *)
EXTENDS ActionApproval, TLC

CONSTANTS p1, p2

AllDecisions == {"pending", "approved", "dismissed"}
FinalDecisions == {"approved", "dismissed"}

\* Plans of two steps and of one, and one that generates a plan.
RaceTemplates == {<<"refresh_tasks", "review_manual_check">>, <<"generate_daily_plan">>,
                  <<"review_manual_check">>}
\* A crawl, whose observer starts the longest chain of follow-up proposals; a
\* plan that executes generate_daily_plan; and plans that tool may generate.
SerialTemplates ==
    {<<"run_crawl", "inspect_source_health">>, <<"generate_daily_plan", "review_manual_check">>, <<"refresh_tasks">>}

OneCount == {<<3, 1>>}
TwoCounts == {<<0, 1>>, <<3, 1>>}

Symmetry == Permutations(Procs)
=============================================================================
