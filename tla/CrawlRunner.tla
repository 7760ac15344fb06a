---------------------------- MODULE CrawlRunner ----------------------------
(***************************************************************************)
(* One crawl after another: Runner.Run with its in-memory lock, the run row *)
(* in job_runs, the collectors, the upsert of every posting into jobs, the  *)
(* per-source results in job_run_sources and the health columns of          *)
(* job_sources; next to it POST /jobs/import-url, which upserts into the    *)
(* same table without the lock.                                             *)
(***************************************************************************)
EXTENDS Integers, FiniteSets, SequencesExt

CONSTANTS
    Callers,    \* goroutines that call Run: HTTP handlers and cron jobs
    Importers,  \* goroutines serving POST /jobs/import-url
    Origins,    \* pairs of a SourceName and a SourceURL
    PageOf,     \* PageOf[o]: the SourceURL of an origin
    Sources,    \* names and URLs of the enabled sources, in the order visited
    ApiSources, \* those with an official parser, whose failure is a posting
    Yields,     \* Yields[s]: the posting sequences source s may return
    Imports,    \* the postings a pasted URL may become
    Names,      \* normalised company/title/city triples
    Urls,       \* apply_url and source_url values
    MaxRuns,    \* bound: rows of job_runs
    MaxImports, \* bound: pasted URLs
    Faults      \* which failures happen: subset of FaultKinds

FaultKinds == {"db", "cancel", "crash"}
NoUrl == "no url"
NoRun == 0
RunIds == 1..MaxRuns
Collectors == <<"seed", "db_sources">>

Posting ==
    [url : Urls \cup {NoUrl}, name : Names, from : Origins,
     manual : BOOLEAN,      \* scored as manual_check
     diagnostic : BOOLEAN,  \* "Source parser failed"
     filtered : BOOLEAN]    \* hard-filtered by the settings

ASSUME CrawlAssumption ==
    /\ MaxRuns \in Nat /\ MaxImports \in Nat
    /\ PageOf \in [Origins -> Urls] /\ NoUrl \notin Urls
    /\ Sources \in Seq(Origins) /\ IsInjective(Sources) \* names are UNIQUE, URLs are not
    /\ ApiSources \subseteq Range(Sources)
    /\ Range(Sources) \subseteq Names \* failedSourceJob names itself after the source
    /\ Yields \in [Range(Sources) -> SUBSET Seq(Posting)]
    /\ \A s \in Range(Sources) : Yields[s] # {}
    /\ Imports \subseteq Posting
    /\ Origins \cap ({"none"} \cup Range(Collectors)) = {}
    /\ Faults \subseteq FaultKinds

\* The keys of one collector's sourceStats: the name and the URL the postings
\* say they are from, so that two sources of one URL, or a source and the
\* postings found there, have stats of their own; or the collector itself when
\* it brought none, a stat without a URL.
StatKeys == Origins \cup Range(Collectors)

VARIABLES
    running, \* Runner.running
    jobs,    \* rows of jobs in insertion order
    runs,    \* rows of job_runs
    results, \* rows of job_run_sources, by run and source
    health,  \* health columns of job_sources
    work,    \* the local state of the goroutines inside Run
    imports, \* the local state of the goroutines importing a URL
    pasted,  \* history: how many URLs were pasted
    fetched  \* history: the postings each run got from its sources

vars == <<running, jobs, runs, results, health, work, imports, pasted, fetched>>

Job == [url : Urls \cup {NoUrl}, name : Names, run : RunIds \cup {NoRun}]
Summary == [success : Nat, failed : Nat, found : Nat, created : Nat, dup : Nat, manual : Nat]
Run == [status : {"absent", "running", "success", "partial_success"}, summary : Summary]
Stat ==
    [status : {"absent", "success", "failed", "partial_success"},
     found : Nat, created : Nat, dup : Nat, filtered : Nat, manual : Nat]
Health == [status : {"unknown", "healthy", "warning", "broken"}, failures : Nat]
Work ==
    [pc : {"idle", "create", "load", "collect", "posting", "find_url", "find_name",
           "insert", "results", "health", "unlock"},
     run : RunIds \cup {NoRun},
     next : 1..(Len(Collectors) + 1),  \* the collector at work
     todo : Seq(Posting),              \* its postings not handled yet
     stats : [StatKeys -> Stat],       \* its sourceStats
     flush : SUBSET StatKeys,          \* the stats still to be stored
     key : StatKeys \cup {"none"},     \* the stat whose health comes next
     summary : Summary, errors : BOOLEAN]
Import == [pc : {"idle", "find_url", "find_name", "insert"}, posting : Imports \cup {<<>>}]

ZeroSummary == [success |-> 0, failed |-> 0, found |-> 0, created |-> 0, dup |-> 0, manual |-> 0]
NoStat == [status |-> "absent", found |-> 0, created |-> 0, dup |-> 0, filtered |-> 0, manual |-> 0]
NoStats == [k \in StatKeys |-> NoStat]
Idle ==
    [pc |-> "idle", run |-> NoRun, next |-> 1, todo |-> <<>>, stats |-> NoStats,
     flush |-> {}, key |-> "none", summary |-> ZeroSummary, errors |-> FALSE]
NoImport == [pc |-> "idle", posting |-> <<>>]

Init ==
    /\ running = FALSE
    /\ jobs = <<>>
    /\ runs = [r \in RunIds |-> [status |-> "absent", summary |-> ZeroSummary]]
    /\ results = [r \in RunIds |-> NoStats]
    /\ health = [s \in Range(Sources) |-> [status |-> "unknown", failures |-> 0]]
    /\ work = [c \in Callers |-> Idle]
    /\ imports = [i \in Importers |-> NoImport]
    /\ pasted = 0
    /\ fetched = [r \in RunIds |-> [s \in Range(Sources) |-> <<>>]]

tables == <<jobs, runs, results, health>>
importing == <<imports, pasted>>

-----------------------------------------------------------------------------
(* Pure functions of the code.                                             *)

\* appendUniqueJob: the first posting of an apply URL wins; without one the
\* page it was found on counts.
UniqueKey(p) == IF p.url = NoUrl THEN PageOf[p.from] ELSE p.url
appendUniqueJob(postings, p) ==
    IF \E i \in DOMAIN postings : UniqueKey(postings[i]) = UniqueKey(p) THEN postings
    ELSE Append(postings, p)

failedSourceJob(s) ==
    [url |-> PageOf[s], name |-> s, from |-> s,
     manual |-> TRUE, diagnostic |-> TRUE, filtered |-> FALSE]

\* What fetching source s may return: an official parser turns its failure
\* into a posting that asks for attention.  (The settings could filter that
\* posting too, when the source's own name is an excluded keyword.)
Outcomes(s) == Yields[s] \cup IF s \in ApiSources THEN {<<failedSourceJob(s)>>} ELSE {}

\* One source after the other, and the postings of each in their order.
AppendUnique(postings, more) ==
    LET upTo[n \in 0..Len(more)] ==
            IF n = 0 THEN postings ELSE appendUniqueJob(upTo[n - 1], more[n])
    IN  upTo[Len(more)]
Collected(f) ==
    LET visited[n \in 0..Len(Sources)] ==
            IF n = 0 THEN <<>> ELSE AppendUnique(visited[n - 1], f[Sources[n]])
    IN  visited[Len(Sources)]

\* The stat a posting is counted in is created with status "success".
CountFound(stat, p) ==
    [stat EXCEPT !.found = @ + 1,
                 !.status = IF p.diagnostic THEN "failed"
                            ELSE IF @ = "absent" THEN "success" ELSE @]

\* Mutant: a failed source counts as a success.
SourceHealthForgiving(stat, old) == [status |-> "healthy", failures |-> 0]

\* updateSourceHealth and the UPDATE of UpdateSourceHealthByURL.
SourceHealth(stat, old) ==
    CASE stat.status = "failed" -> [status |-> "broken", failures |-> old.failures + 1]
      [] stat.status = "partial_success" \/ (stat.status = "success" /\ stat.found = 0) ->
            [status |-> "warning", failures |-> 0]
      [] OTHER -> [status |-> "healthy", failures |-> 0]

\* Mutant: only the apply URL tells duplicates.
HasNameNever(name) == FALSE

\* The two SELECTs of FindDuplicate.
HasUrl(url) == url # NoUrl /\ \E i \in DOMAIN jobs : jobs[i].url = url
HasName(name) == \E i \in DOMAIN jobs : jobs[i].name = name

FreshRun(r) ==
    /\ runs[r].status = "absent"
    /\ \A s \in RunIds : s < r => runs[s].status # "absent"

-----------------------------------------------------------------------------
(* Runner.Run.  Every return goes through the deferred unlock.           *)

At(c, pc) == work[c].pc = pc
Goto(c, l) == work' = [work EXCEPT ![c] = l]

\* Mutant: the lock is tested and taken in two critical sections.
LockUntested(c) ==
    /\ At(c, "idle") /\ (\E r \in RunIds : FreshRun(r))
    /\ running' = TRUE
    /\ Goto(c, [Idle EXCEPT !.pc = "create"])
    /\ UNCHANGED <<tables, importing, fetched>>

\* A caller that finds the lock taken gets "crawl run already active" and
\* changes nothing.
tryLock(c) ==
    /\ At(c, "idle") /\ (\E r \in RunIds : FreshRun(r))
    /\ ~running
    /\ running' = TRUE
    /\ Goto(c, [Idle EXCEPT !.pc = "create"])
    /\ UNCHANGED <<tables, importing, fetched>>

CreateRun(c) ==
    /\ At(c, "create")
    /\ \E r \in RunIds :
        /\ FreshRun(r)
        /\ runs' = [runs EXCEPT ![r].status = "running"]
        /\ Goto(c, [work[c] EXCEPT !.pc = "load", !.run = r])
    /\ UNCHANGED <<running, jobs, results, health, importing, fetched>>

\* The settings and the user's decisions are read.
LoadPreferences(c) ==
    /\ At(c, "load")
    /\ Goto(c, [work[c] EXCEPT !.pc = "collect"])
    /\ UNCHANGED <<running, tables, importing, fetched>>

\* Mutant: an error returns without the deferred unlock.
StartFailsLocked(c) ==
    /\ Faults \cap {"db", "cancel"} # {}
    /\ At(c, "create") \/ At(c, "load")
    /\ Goto(c, Idle)
    /\ UNCHANGED <<running, tables, importing, fetched>>

\* CreateRun or one of the reads fails, or the request is gone: Run returns.
\* The run row, once inserted, is left as it is.
StartFails(c) ==
    /\ Faults \cap {"db", "cancel"} # {}
    /\ At(c, "create") \/ At(c, "load")
    /\ Goto(c, [work[c] EXCEPT !.pc = "unlock"])
    /\ UNCHANGED <<running, tables, importing, fetched>>

\* SeedCollector brings nothing, DBSourceCollector what the sources yield.
Collect(c) ==
    LET l == work[c]
        StartStats(postings) ==
            Goto(c, [l EXCEPT !.pc = "posting", !.todo = postings, !.stats = NoStats,
                              !.summary.success = @ + 1,
                              !.summary.found = @ + Len(postings)])
    IN  /\ At(c, "collect") /\ l.next <= Len(Collectors)
        /\ \/ /\ Collectors[l.next] = "seed"
              /\ StartStats(<<>>) /\ UNCHANGED fetched
           \/ /\ Collectors[l.next] = "db_sources"
              /\ \E f \in [Range(Sources) -> UNION {Outcomes(s) : s \in Range(Sources)}] :
                    /\ \A s \in Range(Sources) : f[s] \in Outcomes(s)
                    /\ fetched' = [fetched EXCEPT ![l.run] = f]
                    /\ StartStats(Collected(f))
        /\ UNCHANGED <<running, tables, importing>>

\* Listing the sources fails: the collector's failure is stored, if it can be,
\* and the run goes on with the next collector.
CollectFails(c) ==
    LET l == work[c]
    IN  /\ Faults \cap {"db", "cancel"} # {}
        /\ At(c, "collect") /\ l.next <= Len(Collectors)
        /\ Collectors[l.next] = "db_sources"
        /\ \/ results' = [results EXCEPT ![l.run]["db_sources"].status = "failed"]
           \/ "db" \in Faults /\ UNCHANGED results
        /\ Goto(c, [l EXCEPT !.next = @ + 1, !.errors = TRUE, !.summary.failed = @ + 1])
        /\ UNCHANGED <<running, jobs, runs, health, importing, fetched>>

\* The head of todo is counted; filtered postings end here, the others are
\* upserted.
TakePosting(c) ==
    LET l == work[c]
        p == Head(l.todo)
        counted == [l EXCEPT !.stats[p.from] = CountFound(@, p)]
    IN  /\ At(c, "posting") /\ l.todo # <<>>
        /\ \/ /\ p.filtered
              /\ Goto(c, [counted EXCEPT !.todo = Tail(@), !.stats[p.from].filtered = @ + 1])
           \/ /\ ~p.filtered
              /\ Goto(c, [counted EXCEPT
                    !.pc = "find_url",
                    !.stats[p.from].manual = @ + (IF p.manual THEN 1 ELSE 0),
                    !.summary.manual = @ + (IF p.manual THEN 1 ELSE 0)])
        /\ UNCHANGED <<running, tables, importing, fetched>>

PostingDone(l) == [l EXCEPT !.pc = "posting", !.todo = Tail(@)]
Duplicated(l) ==
    [PostingDone(l) EXCEPT !.summary.dup = @ + 1, !.stats[Head(l.todo).from].dup = @ + 1]
Created(l) ==
    [PostingDone(l) EXCEPT !.summary.created = @ + 1, !.stats[Head(l.todo).from].created = @ + 1]

\* Mutant: an upsert that fails leaves no trace in the summary.
NotStoredSilently(l) == PostingDone(l)
NotStored(l) ==
    [PostingDone(l) EXCEPT !.errors = TRUE, !.stats[Head(l.todo).from].status = "partial_success"]

FindByUrl(c) ==
    LET l == work[c]
    IN  /\ At(c, "find_url")
        /\ Goto(c, IF HasUrl(Head(l.todo).url) THEN Duplicated(l)
                   ELSE [l EXCEPT !.pc = "find_name"])
        /\ UNCHANGED <<running, tables, importing, fetched>>

FindByName(c) ==
    LET l == work[c]
    IN  /\ At(c, "find_name")
        /\ Goto(c, IF HasName(Head(l.todo).name) THEN Duplicated(l)
                   ELSE [l EXCEPT !.pc = "insert"])
        /\ UNCHANGED <<running, tables, importing, fetched>>

InsertJob(p, r) == jobs' = Append(jobs, [url |-> p.url, name |-> p.name, run |-> r])

\* CreateJob inserts the row and synchronises the job's semantic memory.
StorePosting(c) ==
    /\ At(c, "insert")
    /\ InsertJob(Head(work[c].todo), work[c].run)
    /\ Goto(c, Created(work[c]))
    /\ UNCHANGED <<running, runs, results, health, importing, fetched>>

\* A statement of UpsertJob fails, before or after the row is in.
UpsertFails(c) ==
    /\ "db" \in Faults
    /\ \/ (At(c, "find_url") \/ At(c, "find_name") \/ At(c, "insert")) /\ UNCHANGED jobs
       \/ At(c, "insert") /\ InsertJob(Head(work[c].todo), work[c].run)
    /\ Goto(c, NotStored(work[c]))
    /\ UNCHANGED <<running, runs, results, health, importing, fetched>>

\* All postings are handled: the stats are stored one by one, in the order
\* of Go's map iteration; a collector without postings gets a stat of its own.
CloseCollector(c) ==
    LET l == work[c]
        own == Collectors[l.next]
        touched == {k \in StatKeys : l.stats[k].status # "absent"}
    IN  /\ At(c, "posting") /\ l.todo = <<>>
        /\ Goto(c, IF touched # {} THEN [l EXCEPT !.pc = "results", !.flush = touched]
                   ELSE [l EXCEPT !.pc = "results", !.flush = {own},
                                  !.stats[own].status = "success"])
        /\ UNCHANGED <<running, tables, importing, fetched>>

CreateRunSourceResult(c) ==
    LET l == work[c]
    IN  /\ At(c, "results")
        /\ \E k \in l.flush :
            /\ Goto(c, [l EXCEPT !.pc = "health", !.key = k, !.flush = @ \ {k}])
            /\ results' = [results EXCEPT ![l.run][k] = l.stats[k]]
        /\ UNCHANGED <<running, jobs, runs, health, importing, fetched>>

ResultFails(c) ==
    LET l == work[c]
    IN  /\ "db" \in Faults
        /\ At(c, "results")
        /\ \E k \in l.flush :
            /\ Goto(c, [l EXCEPT !.pc = "health", !.key = k, !.flush = @ \ {k}, !.errors = TRUE])
            /\ UNCHANGED results \/ results' = [results EXCEPT ![l.run][k] = l.stats[k]]
        /\ UNCHANGED <<running, jobs, runs, health, importing, fetched>>

\* The UPDATE hits every row whose url is where the postings say they are from,
\* whatever its name: no row when that is another page of the source's site,
\* and none for the stat of the collector itself.
UpdateSourceHealth(c) ==
    LET l == work[c]
    IN  /\ At(c, "health")
        /\ health' = [s \in DOMAIN health |->
                IF l.key \in Origins /\ PageOf[l.key] = PageOf[s]
                THEN SourceHealth(l.stats[l.key], health[s]) ELSE health[s]]
        /\ Goto(c, [l EXCEPT !.pc = "results", !.key = "none"])
        /\ UNCHANGED <<running, jobs, runs, results, importing, fetched>>

HealthFails(c) ==
    /\ "db" \in Faults
    /\ At(c, "health") /\ work[c].key \in Origins
    /\ Goto(c, [work[c] EXCEPT !.pc = "results", !.key = "none", !.errors = TRUE])
    /\ UNCHANGED <<running, tables, importing, fetched>>

NextCollector(c) ==
    /\ At(c, "results") /\ work[c].flush = {}
    /\ Goto(c, [work[c] EXCEPT !.pc = "collect", !.next = @ + 1])
    /\ UNCHANGED <<running, tables, importing, fetched>>

\* Mutants: a run with a failed collector is "failed"; only failed collectors
\* make a run partial.
OutcomeFailed(l) ==
    IF l.summary.failed > 0 THEN "failed"
    ELSE IF l.errors THEN "partial_success" ELSE "success"
OutcomeOfCollectors(l) == IF l.summary.failed > 0 THEN "partial_success" ELSE "success"
Outcome(l) == IF l.summary.failed > 0 \/ l.errors THEN "partial_success" ELSE "success"

StoreRun(l) ==
    runs' = [runs EXCEPT ![l.run] = [status |-> Outcome(l), summary |-> l.summary]]

FinishRun(c) ==
    /\ At(c, "collect") /\ work[c].next > Len(Collectors)
    /\ StoreRun(work[c])
    /\ Goto(c, [work[c] EXCEPT !.pc = "unlock"])
    /\ UNCHANGED <<running, jobs, results, health, importing, fetched>>

FinishFails(c) ==
    /\ "db" \in Faults
    /\ At(c, "collect") /\ work[c].next > Len(Collectors)
    /\ Goto(c, [work[c] EXCEPT !.pc = "unlock"])
    /\ UNCHANGED <<running, tables, importing, fetched>>

unlock(c) ==
    /\ At(c, "unlock")
    /\ running' = FALSE
    /\ Goto(c, Idle)
    /\ UNCHANGED <<tables, importing, fetched>>

-----------------------------------------------------------------------------
(* POST /jobs/import-url: the pasted page becomes a posting, also when it is *)
(* hard-filtered, and is upserted without the runner's lock.               *)

SetImport(i, pc, p) == imports' = [imports EXCEPT ![i] = [pc |-> pc, posting |-> p]]

Paste(i) ==
    /\ imports[i].pc = "idle" /\ pasted < MaxImports
    /\ \E p \in Imports : SetImport(i, "find_url", p)
    /\ pasted' = pasted + 1
    /\ UNCHANGED <<running, tables, work, fetched>>

ImportLooks(i) ==
    LET p == imports[i].posting
    IN  /\ \/ imports[i].pc = "find_url"
              /\ IF HasUrl(p.url) THEN SetImport(i, "idle", <<>>) ELSE SetImport(i, "find_name", p)
           \/ imports[i].pc = "find_name"
              /\ IF HasName(p.name) THEN SetImport(i, "idle", <<>>) ELSE SetImport(i, "insert", p)
        /\ UNCHANGED <<running, tables, work, pasted, fetched>>

ImportStores(i) ==
    /\ imports[i].pc = "insert"
    /\ InsertJob(imports[i].posting, NoRun)
    /\ SetImport(i, "idle", <<>>)
    /\ UNCHANGED <<running, runs, results, health, work, pasted, fetched>>

ImportFails(i) ==
    /\ Faults \cap {"db", "cancel"} # {}
    /\ \/ imports[i].pc # "idle" /\ UNCHANGED jobs
       \/ imports[i].pc = "insert" /\ InsertJob(imports[i].posting, NoRun)
    /\ SetImport(i, "idle", <<>>)
    /\ UNCHANGED <<running, runs, results, health, work, pasted, fetched>>

\* The process stops and is started again: the lock is free, the rows stay.
Crash ==
    /\ "crash" \in Faults
    /\ running
    /\ running' = FALSE
    /\ work' = [c \in Callers |-> Idle]
    /\ imports' = [i \in Importers |-> NoImport]
    /\ UNCHANGED <<tables, pasted, fetched>>

-----------------------------------------------------------------------------

Proceed(c) ==
    \/ CreateRun(c) \/ LoadPreferences(c) \/ Collect(c) \/ TakePosting(c)
    \/ FindByUrl(c) \/ FindByName(c) \/ StorePosting(c) \/ CloseCollector(c)
    \/ CreateRunSourceResult(c) \/ UpdateSourceHealth(c) \/ NextCollector(c)
    \/ FinishRun(c) \/ unlock(c)

Fail(c) ==
    \/ StartFails(c) \/ CollectFails(c) \/ UpsertFails(c) \/ ResultFails(c)
    \/ HealthFails(c) \/ FinishFails(c)

ImportUrl(i) == Paste(i) \/ ImportLooks(i) \/ ImportStores(i) \/ ImportFails(i)

Next ==
    \/ \E c \in Callers : tryLock(c) \/ Proceed(c) \/ Fail(c)
    \/ \E i \in Importers : ImportUrl(i)
    \/ Crash

Spec == Init /\ [][Next]_vars

\* A goroutine inside Run keeps going: SQLite answers and every fetch of a
\* collector ends within the timeout of its HTTP client.
FairSpec == Spec /\ \A c \in Callers : WF_vars(Proceed(c) \/ Fail(c))

-----------------------------------------------------------------------------
(* Properties.                                                             *)

TypeOK ==
    /\ running \in BOOLEAN
    /\ jobs \in Seq(Job)
    /\ runs \in [RunIds -> Run]
    /\ results \in [RunIds -> [StatKeys -> Stat]]
    /\ health \in [Range(Sources) -> Health]
    /\ work \in [Callers -> Work]
    /\ imports \in [Importers -> Import]
    /\ pasted \in Nat
    /\ fetched \in [RunIds -> [Range(Sources) -> Seq(Posting)]]

\* The goroutines inside Run.
Busy == {c \in Callers : ~At(c, "idle")}

\* At most one crawl is inside Run, and none stays inside for ever holding the
\* lock: the runner implements the mutex its callers rely on.
Mutex == INSTANCE CrawlMutex WITH inside <- Busy
AtMostOneCrawl == Mutex!Spec

\* The lock is never leaked: whatever fails inside a crawl, the next trigger
\* can start one.
LockReleased == running ~> ~running

\* Of all the rows that crawls inserted, whatever else was pasted meanwhile, no
\* two are one posting, by apply URL or by normalised company, title and city: of
\* two rows of one posting at least one was pasted.
Crawled == {i \in DOMAIN jobs : jobs[i].run # NoRun}
CrawledOnce ==
    \A i, j \in Crawled : i # j =>
        /\ jobs[i].name # jobs[j].name
        /\ jobs[i].url = jobs[j].url => jobs[i].url = NoUrl

\* A run that reports success lost nothing: every posting its sources yielded
\* was filtered or is in the jobs table, by itself or as the posting it was
\* recognised as a duplicate of.
SamePosting(p, q) == p = q \/ UniqueKey(p) = UniqueKey(q)
Accounted(p) ==
    p.filtered \/ \E i \in DOMAIN jobs :
        jobs[i].name = p.name \/ (p.url # NoUrl /\ jobs[i].url = p.url)
Yielded(r) == UNION {Range(fetched[r][s]) : s \in Range(Sources)}
SuccessMeansStored ==
    \A r \in RunIds : runs[r].status = "success" =>
        \A p \in Yielded(r) : \E q \in Yielded(r) : SamePosting(p, q) /\ Accounted(q)

\* The counters of a finished run agree with the jobs it inserted and with
\* its per-source results: exactly when it reports success; a partial run
\* claims no more than it did.
\* The sum of a function of counts: as many as there are numbered items.
Total(count) == Cardinality(UNION {{k} \X (1..count[k]) : k \in DOMAIN count})
FoundOf(stats) == [k \in StatKeys |-> stats[k].found]
DupOf(stats) == [k \in StatKeys |-> stats[k].dup]
HandledOf(stats) ==
    [k \in StatKeys |-> stats[k].created + stats[k].dup + stats[k].filtered]
InsertedBy(r) == {i \in DOMAIN jobs : jobs[i].run = r}
RunAccounts ==
    \A r \in RunIds :
        /\ runs[r].status \in {"success", "partial_success"} =>
            /\ runs[r].summary.created <= Cardinality(InsertedBy(r))
            /\ runs[r].summary.created + runs[r].summary.dup <= runs[r].summary.found
        /\ runs[r].status = "success" =>
            /\ runs[r].summary.created = Cardinality(InsertedBy(r))
            /\ runs[r].summary.found = Total(FoundOf(results[r]))
            /\ runs[r].summary.dup = Total(DupOf(results[r]))
            /\ runs[r].summary.found = Total(HandledOf(results[r]))

\* What run r stored of the page of source s, under whatever names.
ResultsOf(r, s) == {k \in Origins : PageOf[k] = PageOf[s] /\ results[r][k].status # "absent"}
\* The health of s is that of one of them.
Shows(r, s) ==
    \E k \in ResultsOf(r, s) : health[s].status = "broken" <=> results[r][k].status = "failed"
Silent(r, s) ==
    runs[r].status = "absent" \/ (runs[r].status = "success" /\ ResultsOf(r, s) = {})

\* Between crawls, the health a source shows is that of the last run that had a
\* result for its page, provided that run and those after it succeeded: broken
\* only if such a result is failed, not broken only if one is not, and with
\* failures counted exactly when it is broken.  When a page has two results, of
\* two sources or of a source and of the postings found there, the one written
\* last counts, and that is any of them (updateSourceHealth in the loop over
\* sourceStats).
HealthFollowsRun ==
    \A r \in RunIds, s \in Range(Sources) :
        (/\ ~running /\ runs[r].status = "success" /\ ResultsOf(r, s) # {}
         /\ \A q \in RunIds : q > r => Silent(q, s))
            => Shows(r, s) /\ (health[s].failures > 0 <=> health[s].status = "broken")

-----------------------------------------------------------------------------
(* The invariants behind the two guarantees of the lock.                   *)

\* No run was created after run r.
LastRun(r) == runs[r].status # "absent" /\ \A s \in RunIds : s > r => runs[s].status = "absent"

\* The goroutines' records keep their fields.
WorkShape == DOMAIN work = Callers /\ \A c \in Callers : DOMAIN work[c] = DOMAIN Idle

\* Whoever is inside Run is alone and holds the lock.
Alone ==
    /\ \A c, d \in Busy : c = d
    /\ running <=> Busy # {}

\* What the goroutine inside Run has looked up is still so among the rows of
\* crawls: only an import inserts beside it.
CrawledUrl(url) == url # NoUrl /\ \E i \in Crawled : jobs[i].url = url
CrawledName(name) == \E i \in Crawled : jobs[i].name = name
Looked(c) ==
    /\ At(c, "find_name") \/ At(c, "insert") => ~CrawledUrl(Head(work[c].todo).url)
    /\ At(c, "insert") => ~CrawledName(Head(work[c].todo).name)

LockInv == WorkShape /\ Alone
StoreInv ==
    /\ LockInv /\ CrawledOnce
    /\ jobs \in Seq(Range(jobs))
    /\ \A c \in Callers : Looked(c)
=============================================================================
