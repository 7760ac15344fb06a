----------------------------- MODULE CrawlMutex -----------------------------
(* What Runner.tryLock and Runner.unlock promise to every trigger of a      *)
(* crawl: at most one crawl is inside at any time; a crawl leaves by itself *)
(* or with the process.                                                     *)
CONSTANT Callers
VARIABLE inside

Init == inside = {}
Enter(c) == inside = {} /\ inside' = {c}
Leave == inside # {} /\ inside' = {}
Next == Leave \/ \E c \in Callers : Enter(c)
Spec == Init /\ [][Next]_inside
=============================================================================
