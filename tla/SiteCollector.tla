----------------------------- MODULE SiteCollector -----------------------------
(***************************************************************************)
(* Collecting postings from the enabled sources: the APIs of four known    *)
(* career sites, one keyword after the other, and public pages, read for   *)
(* cards, further pages and links.  The sites answer, fail, or refuse with *)
(* an error inside an answer; the caller may cancel.  Every HTTP request   *)
(* and every append to a list of jobs is one action.                       *)
(***************************************************************************)
EXTENDS Integers, Sequences, FiniteSets

CONSTANTS
    Sources,    \* the enabled sources in the order they are listed, by URL
    ParserType, \* of each source: a known API, or a page
    Keywords,   \* what an API is asked for, in order
    Malformed,  \* sources whose URL cannot be parsed
    Posts,      \* identifiers of the postings an API has
    NoId,       \* a posting without an identifier
    Urls,       \* the addresses of postings, of pages and of the sources
    UrlOf,      \* where an API's posting is, by the API and its identifier
    Sites,      \* what the sites may have to offer
    Attempts,   \* publicURLImportAttempts
    MaxPages,   \* discoveredPaginationPagesPerSource
    MaxLinks,   \* discoveredLinksPerSource, of cards as of links
    None

APIs == {"tencent", "bytedance", "oppo", "meituan"}
SourceSet == {Sources[i] : i \in 1..Len(Sources)}
Site ==
    [posts : [SourceSet -> [1..Len(Keywords) -> SUBSET (Posts \cup {NoId})]], \* of an API
     cards : [Urls -> SUBSET Urls],       \* the postings a page lists
     more : [Urls -> SUBSET Urls],        \* the pages it continues on
     links : [SourceSet -> SUBSET Urls],  \* what else it links to
     concrete : SUBSET Urls,              \* the pages that are a posting's own
     named : SUBSET Urls]                 \* the addresses that look like a posting's

ASSUME SiteAssumption ==
    /\ Sources \in Seq(Urls) /\ Malformed \subseteq SourceSet
    /\ ParserType \in [SourceSet -> APIs \cup {"page"}]
    /\ UrlOf \in [APIs -> [Posts \cup {NoId} -> Urls]]
    /\ None \notin Urls /\ Sites \subseteq Site
    /\ {Attempts, MaxPages, MaxLinks} \subseteq Nat /\ Attempts > 0
    /\ Keywords \in Seq(STRING) /\ Keywords # <<>>

VARIABLES
    site,      \* what the sites have
    todo,      \* sources still to be looked at
    urls,      \* public pages, which come last
    at,        \* local variables: of a collector, of the source it is at
    found,     \* the jobs of the collector at work
    jobs,      \* the jobs of all sources
    cancelled, \* the caller has gone
    heard,     \* history: sources that answered a request
    answered   \* history: addresses of the postings the answers had

vars == <<site, todo, urls, at, found, jobs, cancelled, heard, answered>>

Job == [url : Urls, kind : {"posting", "failed"}]  \* failed: to be checked by hand
Local ==
    [pc : {"source", "keyword", "flush", "page", "import", "cards", "pages", "page cards",
           "links", "link", "take", "own", "done"},
     source : SourceSet \cup {None},
     keyword : Nat,   \* the one in turn
     tries : Nat,
     own : {"posting", "landing", "failed"}, \* what importing the page gave
     cards : SUBSET Urls, pages : SUBSET Urls, links : SUBSET Urls,
     count : Nat]  \* discoveredConcreteJobs

Rest == [pc |-> "source", source |-> None, keyword |-> 0, tries |-> 0, own |-> "landing",
         cards |-> {}, pages |-> {}, links |-> {}, count |-> 0]
Posting(u) == [url |-> u, kind |-> "posting"]
Failed(u) == [url |-> u, kind |-> "failed"]

Init ==
    /\ site \in Sites
    /\ todo = Sources /\ urls = <<>> /\ at = Rest
    /\ found = <<>> /\ jobs = <<>>
    /\ cancelled = FALSE /\ heard = {} /\ answered = {}

At(pc) == at.pc = pc
UrlsIn(list) == {list[i].url : i \in DOMAIN list}

\* Mutant: only the job before is compared.
AppendChanged(list, job) ==
    IF list # <<>> /\ list[Len(list)].url = job.url THEN list ELSE Append(list, job)
appendUniqueJob(list, job) == IF job.url \in UrlsIn(list) THEN list ELSE Append(list, job)

\* A request is answered or it fails, at any time; a cancelled one fails.
Answers == ~cancelled /\ heard' = heard \cup {at.source}

\* The first few of a set, in the order of the page.
FirstOf(limit, set, few) ==
    few \subseteq set /\ (few = set \/ Cardinality(few) = limit) /\ Cardinality(few) <= limit

-----------------------------------------------------------------------------
(* The known APIs                                                          *)

\* DBSourceCollector.Collect; pages are kept for last.
NextSource ==
    /\ At("source") /\ todo # <<>>
    /\ todo' = Tail(todo)
    /\ IF ParserType[Head(todo)] = "page"
       THEN urls' = Append(urls, Head(todo)) /\ UNCHANGED at
       ELSE /\ at' = [Rest EXCEPT !.pc = "keyword", !.source = Head(todo),
                                  !.keyword = 1]
            /\ UNCHANGED urls
    /\ UNCHANGED <<site, found, jobs, cancelled, heard, answered>>

API == ParserType[at.source]
\* Each collector makes a posting's address of its identifier; without one all
\* have the same.  Tencent answers the address itself.
TencentUrl(post) == UrlOf["tencent"][post]
ByteDanceUrl(post) == UrlOf["bytedance"][post]
OPPOUrl(post) == UrlOf["oppo"][post]
MeituanUrl(post) == UrlOf["meituan"][post]
PostUrl(post) ==
    CASE API = "tencent" -> TencentUrl(post)
      [] API = "bytedance" -> ByteDanceUrl(post)
      [] API = "oppo" -> OPPOUrl(post)
      [] API = "meituan" -> MeituanUrl(post)
\* An answer says inside that it is an error; Meituan's is not looked at.
ChecksCode == API # "meituan"

\* The keyword in turn was answered with these postings; those of a source
\* count when all its keywords were answered.
Keyword(new) ==
    LET last == at.keyword = Len(Keywords)
        cards == at.cards \cup new
    IN  /\ at' = [at EXCEPT !.keyword = @ + 1, !.cards = cards,
                             !.pc = IF last THEN "flush" ELSE "keyword"]
        /\ answered' = IF last THEN answered \cup cards ELSE answered
        /\ heard' = IF last THEN heard \cup {at.source} ELSE heard

\* collectKeyword, and the loop over its postings.
CollectKeyword ==
    /\ At("keyword") /\ ~cancelled
    /\ Keyword({PostUrl(post) : post \in site.posts[at.source][at.keyword]})
    /\ UNCHANGED <<site, todo, urls, found, jobs, cancelled>>

\* One keyword that fails ends the source, and what the others found is lost.
FailSource ==
    /\ jobs' = appendUniqueJob(jobs, Failed(at.source))
    /\ at' = Rest
    /\ UNCHANGED <<heard, answered>>

FailKeyword ==
    /\ At("keyword") /\ FailSource
    /\ UNCHANGED <<site, todo, urls, found, cancelled>>

\* Without a look at the code a refusal is an answer without postings.
RefuseKeyword ==
    /\ At("keyword") /\ ~cancelled
    /\ IF ChecksCode THEN FailSource ELSE Keyword({}) /\ UNCHANGED jobs
    /\ UNCHANGED <<site, todo, urls, found, cancelled>>

\* The postings of a source that answered go to the list of all.
TakePost ==
    /\ At("flush")
    /\ IF at.cards = {} THEN at' = Rest /\ UNCHANGED jobs
       ELSE \E u \in at.cards :
                /\ jobs' = appendUniqueJob(jobs, Posting(u))
                /\ at' = [at EXCEPT !.cards = @ \ {u}]
    /\ UNCHANGED <<site, todo, urls, found, cancelled, heard, answered>>

-----------------------------------------------------------------------------
(* PublicURLCollector                                                      *)

NextPage ==
    /\ At("source") \/ At("page")
    /\ todo = <<>>
    /\ IF urls = <<>> THEN at' = [Rest EXCEPT !.pc = "done"] /\ UNCHANGED urls
       ELSE /\ at' = [Rest EXCEPT !.pc = "import", !.source = Head(urls), !.tries = 1]
            /\ urls' = Tail(urls)
    /\ UNCHANGED <<site, todo, found, jobs, cancelled, heard, answered>>

\* importURLWithRetry: what the page is.
ImportPage ==
    /\ At("import") /\ at.source \notin Malformed /\ Answers
    /\ at' = [at EXCEPT !.own = IF at.source \in site.concrete THEN "posting" ELSE "landing",
                        !.pc = "cards"]
    /\ answered' = answered \cup ({at.source} \cap site.concrete)
    /\ UNCHANGED <<site, todo, urls, found, jobs, cancelled>>

\* Mutant: the last failure counts as an answer.
GiveUpQuietly == [at EXCEPT !.own = "landing", !.pc = "cards"]
GiveUp == [at EXCEPT !.own = "failed", !.pc = "cards"]
\* A failure that may pass, of the server or by a timeout, is tried again.
FailImport ==
    /\ At("import") /\ at.source \notin Malformed
    /\ \/ at' = GiveUp
       \/ ~cancelled /\ at.tries < Attempts /\ at' = [at EXCEPT !.tries = @ + 1]
    /\ UNCHANGED <<site, todo, urls, found, jobs, cancelled, heard, answered>>

\* An error of ImportURL, for its address or because the caller went between
\* two attempts: the source is listed as failed, whatever the list has.
RejectImport ==
    /\ At("import")
    /\ at.source \in Malformed \/ (cancelled /\ at.tries > 1)
    /\ found' = Append(found, Failed(at.source))
    /\ at' = [Rest EXCEPT !.pc = "page"]
    /\ UNCHANGED <<site, todo, urls, jobs, cancelled, heard, answered>>

\* DiscoverJobCards of the page itself.
DiscoverJobCards ==
    /\ At("cards")
    /\ \/ /\ Answers
          /\ \E few \in SUBSET site.cards[at.source] :
                /\ FirstOf(MaxLinks, site.cards[at.source], few)
                /\ at' = [at EXCEPT !.cards = few, !.pc = "pages"]
                /\ answered' = answered \cup few
       \/ at' = [at EXCEPT !.pc = "pages"] /\ UNCHANGED <<heard, answered>>
    /\ UNCHANGED <<site, todo, urls, found, jobs, cancelled>>

DiscoverPaginationLinks ==
    /\ At("pages")
    /\ \/ /\ Answers
          /\ \E few \in SUBSET site.more[at.source] :
                /\ FirstOf(MaxPages, site.more[at.source], few)
                /\ at' = [at EXCEPT !.pages = few,
                                    !.pc = IF few = {} THEN "links" ELSE "page cards"]
       \/ at' = [at EXCEPT !.pc = "links"] /\ UNCHANGED heard
    /\ UNCHANGED <<site, todo, urls, found, jobs, cancelled, answered>>

\* Mutant: further pages are followed to their further pages.
OnwardFollowing(page) == (at.pages \cup site.more[page]) \ {page}
Onward(page) == at.pages \ {page}
\* Further pages are read for cards only, not for further pages.
DiscoverPageCards ==
    /\ At("page cards")
    /\ \E page \in at.pages :
        LET l == [at EXCEPT !.pages = Onward(page),
                            !.pc = IF Onward(page) = {} THEN "links" ELSE "page cards"]
        IN  \/ /\ Answers
               /\ \E few \in SUBSET site.cards[page] :
                    /\ FirstOf(MaxLinks, site.cards[page], few)
                    /\ at' = [l EXCEPT !.cards = @ \cup few]
                    /\ answered' = answered \cup few
            \/ at' = l /\ UNCHANGED <<heard, answered>>
    /\ UNCHANGED <<site, todo, urls, found, jobs, cancelled>>

DiscoverLinks ==
    /\ At("links")
    /\ \/ /\ Answers
          /\ \E few \in SUBSET site.links[at.source] :
                /\ FirstOf(MaxLinks, site.links[at.source], few)
                /\ at' = [at EXCEPT !.links = few, !.pc = IF few = {} THEN "take" ELSE "link"]
       \/ at' = [at EXCEPT !.pc = "take"] /\ UNCHANGED heard
    /\ UNCHANGED <<site, todo, urls, found, jobs, cancelled, answered>>

\* A link is imported once; one that fails is kept for the user to look at,
\* before the card of the same posting.
ImportLink ==
    /\ At("link")
    /\ \E u \in at.links, ok \in BOOLEAN :
        LET l == [at EXCEPT !.links = @ \ {u},
                            !.pc = IF at.links = {u} THEN "take" ELSE "link"]
        IN  /\ ok => ~cancelled
            /\ IF ok /\ u \notin site.concrete
               THEN at' = l /\ UNCHANGED <<found, answered>>
               ELSE /\ found' = appendUniqueJob(found, IF ok THEN Posting(u) ELSE Failed(u))
                    /\ answered' = answered \cup {u}
                    /\ at' = [l EXCEPT !.count = @ + 1]
    /\ UNCHANGED <<site, todo, urls, jobs, cancelled, heard>>

\* Mutant: the cards of a page with postings of its own are left out.
TakeWithoutLinks(u) == IF at.count > 0 /\ found # <<>> THEN found ELSE appendUniqueJob(found, Posting(u))
TakenCard(u) == appendUniqueJob(found, Posting(u))
TakeCard ==
    /\ At("take")
    /\ IF at.cards = {} THEN at' = [at EXCEPT !.pc = "own"] /\ UNCHANGED found
       ELSE \E u \in at.cards :
                /\ found' = TakenCard(u)
                /\ at' = [at EXCEPT !.cards = @ \ {u}, !.count = @ + 1]
    /\ UNCHANGED <<site, todo, urls, jobs, cancelled, heard, answered>>

\* The page itself, if it is a posting, or could not be read and gave nothing;
\* one that could not be read is judged by its address.
TakeOwn ==
    /\ At("own")
    /\ LET unread == at.own = "failed" /\ (at.count = 0 \/ at.source \in site.named)
       IN  found' = IF at.own = "posting" THEN appendUniqueJob(found, Posting(at.source))
                    ELSE IF unread THEN appendUniqueJob(found, Failed(at.source))
                    ELSE found
    /\ at' = [Rest EXCEPT !.pc = "page"]
    /\ UNCHANGED <<site, todo, urls, jobs, cancelled, heard, answered>>

\* At last the jobs of the pages go to the list of all.
TakeFound ==
    /\ At("done") /\ found # <<>>
    /\ jobs' = appendUniqueJob(jobs, Head(found))
    /\ found' = Tail(found)
    /\ UNCHANGED <<site, todo, urls, at, cancelled, heard, answered>>

Cancel ==
    /\ ~cancelled /\ ~At("done") /\ cancelled' = TRUE
    /\ UNCHANGED <<site, todo, urls, at, found, jobs, heard, answered>>

Step ==
    \/ NextSource \/ CollectKeyword \/ FailKeyword \/ RefuseKeyword \/ TakePost
    \/ NextPage \/ ImportPage \/ FailImport \/ RejectImport
    \/ DiscoverJobCards \/ DiscoverPaginationLinks \/ DiscoverPageCards \/ DiscoverLinks
    \/ ImportLink \/ TakeCard \/ TakeOwn \/ TakeFound

Next == Step \/ Cancel

Spec == Init /\ [][Next]_vars
\* Every request of the client has a timeout, so that it is answered or fails.
FairSpec == Spec /\ WF_vars(Step)

-----------------------------------------------------------------------------
Collected == At("done") /\ found = <<>>

\* The variables have their types.
TypeOK ==
    /\ site \in Sites /\ todo \in Seq(SourceSet) /\ urls \in Seq(SourceSet)
    /\ at \in Local /\ found \in Seq(Job) /\ jobs \in Seq(Job)
    /\ cancelled \in BOOLEAN /\ heard \subseteq SourceSet /\ answered \subseteq Urls

\* No posting is handed to the crawl twice, however many sources, keywords,
\* pages and links lead to it and whatever failed on the way.
NoUrlTwice == \A i, k \in DOMAIN jobs : jobs[i].url = jobs[k].url => i = k

\* A posting some answer had is handed over, whatever failed after it: the
\* requests for more of the same page, the other sources, or the caller, who
\* went away.  (Of an API's source, when all its keywords were answered.)
FoundIsKept == Collected => answered \subseteq UrlsIn(jobs)

\* An enabled source that answered none of its requests is seen by the crawl: a
\* job to be checked by hand has its address, and its health follows from that.
\* The one exception is an address at which another source has a posting: the
\* posting of that answer is handed over instead and hides the silence.  (An
\* error inside an answer of Meituan's passes for an answer.)
SilenceShows ==
    Collected => \A s \in SourceSet \ heard : \E i \in DOMAIN jobs :
        jobs[i].url = s /\ (jobs[i].kind = "failed" \/ s \in answered)

\* Collecting comes to an end, with sites whose pages lead to each other too:
\* the crawl waits for it with its lock taken.
CollectEnds == <>Collected
=============================================================================
