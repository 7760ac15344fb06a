--------------------------- MODULE MCCrawlRunner ---------------------------
(* Small instances of CrawlRunner. *)
EXTENDS CrawlRunner

CONSTANTS c1, c2, i1

\* A site with an official parser, whose postings carry the parser's name and
\* the source's own URL (ByteDance, Tencent), a second source of that URL, as
\* accepting a renamed candidate again makes one, and a page read by the generic
\* importer, which may lead to postings on another site.
AllOrigins == {"parser", "bytedance", "mirror", "page", "board"}
Addresses ==
    [o \in AllOrigins |->
        CASE o \in {"parser", "bytedance", "mirror"} -> "bytedance.com"
          [] o = "page" -> "page.com"
          [] OTHER -> "g1"]
Post(url, name, from) ==
    [url |-> url, name |-> name, from |-> from,
     manual |-> FALSE, diagnostic |-> FALSE, filtered |-> FALSE]
Filtered(p) == [p EXCEPT !.filtered = TRUE]
Manual(p) == [p EXCEPT !.manual = TRUE]

BytePost == Post("b1", "backend", "parser")
MovedPost == Post("b2", "backend", "parser")  \* the same job under a new URL
PagePost == Post("g1", "backend", "board")   \* the same job on another site
CardPost == Post("b1", "algorithm", "page")  \* another job under a known URL
BlankCard == Post(NoUrl, "golang", "page")
Unreachable == Manual(Post("page.com", "page title", "page"))

AllUrls == {"b1", "b2", "g1", "bytedance.com", "page.com"}
AllNames == {"backend", "algorithm", "golang", "page title", "bytedance", "mirror", "page"}

TwoSources == <<"bytedance", "page">>
TwoApi == {"bytedance"}
TwoYields ==
    [s \in {"bytedance", "page"} |->
        IF s = "bytedance" THEN {<<>>, <<BytePost>>, <<Filtered(BytePost)>>}
        ELSE {<<PagePost, CardPost>>, <<BlankCard>>, <<Unreachable>>}]

Mirrored == <<"bytedance", "mirror">>
MirroredApi == {"bytedance", "mirror"}
RepeatedYields ==
    [s \in {"bytedance", "mirror"} |->
        IF s = "bytedance" THEN {<<>>, <<BytePost>>, <<MovedPost>>} ELSE {<<>>}]
PageImports == {BytePost, PagePost}
=============================================================================
