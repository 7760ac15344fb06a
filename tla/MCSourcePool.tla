---------------------------- MODULE MCSourcePool ----------------------------
(* Small instances of SourcePool. *)
EXTENDS SourcePool

CONSTANTS cron, u1, u2

\* The titles a page goes by: the rules' one, and the ones search results carry.
TrimmedLabels ==
    [l \in {"Acme Jobs discovery", "Acme discovery", "board"} |->
        CASE l = "Acme Jobs discovery" -> "Acme Jobs"
          [] l = "Acme discovery" -> "Acme"
          [] OTHER -> "board"]
\* The two sources of Acme name one company in two spellings.
CompanyNames ==
    [n \in {"Acme Jobs", "Acme", "board"} |->
        CASE n = "Acme Jobs" -> "acme"
          [] n = "Acme" -> "Acme"
          [] OTHER -> "board"]
LowerCase == [c \in {"Acme", "acme", "board"} |-> IF c = "board" THEN "board" ELSE "acme"]

Found(l, u, n) == [label |-> l, url |-> u, confidence |-> n]
Source(n, u) == [name |-> n, url |-> u, enabled |-> TRUE]

OneRule == <<Found("Acme discovery", "acme.com", 66)>>
NoResults == {<<>>}
\* A page found by two searches under two titles; a page the rules know.
RenamedResults == {<<>>, <<Found("Acme Jobs discovery", "jobs.acme.com", 70)>>,
                   <<Found("board", "jobs.acme.com", 45), Found("board", "acme.com", 45)>>}
SeedAcme == <<Source("Acme Jobs", "acme.com")>>
StartBoard == <<Source("board", "board.com")>>
NoInputs == <<>>
TypedBoard == {Source("board", "jobs.acme.com")}
NoTyped == {}

Seen(f, c, s, l) == [fetched |-> f, cards |-> c, signals |-> s, links |-> l]
SomePages == {Seen("no answer", 0, 0, 0), Seen("read", 1, 0, 0), Seen("read", 0, 2, 1)}

Users == Permutations({u1, u2})
=============================================================================
