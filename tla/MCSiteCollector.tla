--------------------------- MODULE MCSiteCollector ---------------------------
(***************************************************************************)
(* Two APIs with a posting in common, one of which also has postings       *)
(* without an identifier; two pages that lead to each other and to the     *)
(* same postings; an address that cannot be parsed.                        *)
(***************************************************************************)
EXTENDS SiteCollector, TLC

CONSTANTS tencent, meituan, position, pageA, pageB, next, broken, job1, job2, p1

MCUrls == {tencent, meituan, position, pageA, pageB, next, broken, job1, job2}
MCSources == <<tencent, pageA, meituan, broken, pageB>>
MCMalformed == {broken}
MCParserType ==
    [s \in SourceSet |-> CASE s = tencent -> "tencent" [] s = meituan -> "meituan"
                           [] OTHER -> "page"]
MCKeywords == <<"go", "java">>
MCUrlOf ==
    [api \in APIs |-> [p \in {p1, NoId} |->
        IF p = p1 THEN job1 ELSE IF api = "meituan" THEN position ELSE tencent]]

MCSites ==
    {[posts |-> [s \in SourceSet |-> [k \in 1..2 |->
                   IF k = 1 THEN {p1} ELSE IF s = meituan THEN {p1, NoId} ELSE {}]],
      cards |-> (pageA :> {job1, job2}) @@ (next :> {job1}) @@ [u \in MCUrls |-> {}],
      more |-> (pageA :> {next, pageB}) @@ (pageB :> {pageA}) @@ [u \in MCUrls |-> {}],
      links |-> (pageA :> {job2, pageB}) @@ (pageB :> {pageA, job2, next})
                @@ [s \in SourceSet |-> {}],
      concrete |-> c, named |-> n] :
     c \in {{job2}, {job1, job2, pageB}}, n \in {{}, {pageB}}}
=============================================================================
