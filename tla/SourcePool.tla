----------------------------- MODULE SourcePool -----------------------------
(***************************************************************************)
(* The pool of pages the crawl visits: discovery proposes candidates, the  *)
(* user validates, accepts or rejects them, accepting one, typing one in,  *)
(* seeding the recommended ones and starting the process create sources    *)
(* with their companies, and the user turns sources and companies on and   *)
(* off.  Every SQL statement is one action; the only transaction is the    *)
(* company switch.                                                         *)
(***************************************************************************)
EXTENDS Integers, FiniteSets, SequencesExt

CONSTANTS
    Procs,        \* goroutines: requests, the automation tick, the start-up
    Cron,         \* the one that serves the automation tick
    Urls, Labels, \* pages; titles of candidates
    Names,        \* names of sources
    Companies,    \* spellings of company names
    Trimmed,      \* Trimmed[l]: the title without " discovery"
    CompanyOf,    \* CompanyOf[n]: companyNameFromSource(n)
    Folded,       \* Folded[c]: lower(trim(c)), what the SELECT compares
    Rules,        \* the proposals built from the configured preferences
    WebResults,   \* the sequences of proposals a web search may add, both
                  \* normalized: a malformed URL is not proposed
    Recommended,  \* RecommendedSources()
    Configured,   \* sources named by the environment's URLs
    Typed,        \* sources a user may type in
    Pages,        \* what fetching a candidate's page may show
    ValidateLimit,\* the tool validates at most so many candidates
    MaxChecks,    \* bound: validations started
    MaxSwitches,  \* bound: times the user switches a source or a company
    MaxFaults,    \* bound: failing statements
    MaxCrashes    \* bound: crashes

Proposal == [label : Labels, url : Urls, confidence : 0..100]
SourceInput == [name : Names, url : Urls, enabled : BOOLEAN]
Page ==
    [fetched : {"no answer", "http error", "cut off", "read"},
     cards : Nat, signals : Nat, links : Nat]

ASSUME PoolAssumption ==
    /\ IsFiniteSet(Procs) /\ Cron \in Procs
    /\ Trimmed \in [Labels -> Names]
    /\ CompanyOf \in [Names -> Companies]
    /\ DOMAIN Folded = Companies
    /\ Rules \in Seq(Proposal)
    /\ WebResults \subseteq Seq(Proposal) /\ <<>> \in WebResults
    /\ Recommended \in Seq(SourceInput) /\ Configured \in Seq(SourceInput)
    /\ Typed \subseteq SourceInput
    /\ Pages \subseteq Page
    /\ {ValidateLimit, MaxChecks, MaxSwitches, MaxFaults, MaxCrashes} \subseteq Nat

VARIABLES
    companies,  \* rows of companies, by id
    sources,    \* rows of job_sources, by id
    candidates, \* rows of source_candidates, by id
    procs,      \* local variables of the goroutines
    serving,    \* the start-up is over and the server listens
    spent       \* bounds: validations, switches, faults and crashes so far

vars == <<companies, sources, candidates, procs, serving, spent>>

Verdicts == {"reachable_candidate", "verified_good", "weak_signal", "unreachable"}
CompanyRow == [name : Companies, enabled : BOOLEAN]
SourceRow == [name : Names, url : Urls, company : Nat, enabled : BOOLEAN]
CandidateRow ==
    [label : Labels, url : Urls, confidence : 0..100, verdict : Verdicts,
     status : {"pending", "accepted", "rejected"},
     source : Nat]  \* source_id, 0 when there is none
Ops == {"none", "discover", "accept", "create", "seed", "start", "validate"}
Proc ==
    [op : Ops,
     pc : {"idle", "find", "refresh", "insert", "company", "new_company", "look",
           "refresh_source", "insert_source", "mark", "read", "judge"},
     finds : Seq(Proposal),     \* proposals still to be stored
     inputs : Seq(SourceInput), \* sources still to be stored
     checks : Seq(Nat),         \* candidates still to be validated
     candidate : Nat,           \* the one being accepted
     company : Nat,             \* company.ID
     row : Nat,                 \* existingID, or the id just inserted
     confidence : 0..100]       \* of the candidate read before the fetch

Spent == [checks : 0..MaxChecks, switches : 0..MaxSwitches,
          faults : 0..MaxFaults, crashes : 0..MaxCrashes]

Idle ==
    [op |-> "none", pc |-> "idle", finds |-> <<>>, inputs |-> <<>>, checks |-> <<>>,
     candidate |-> 0, company |-> 0, row |-> 0, confidence |-> 0]

Init ==
    /\ companies = <<>> /\ sources = <<>> /\ candidates = <<>>
    /\ procs = [p \in Procs |-> Idle]
    /\ serving = FALSE
    /\ spent = [checks |-> 0, switches |-> 0, faults |-> 0, crashes |-> 0]

At(p, pc) == procs[p].pc = pc
Goto(p, l) == procs' = [procs EXCEPT ![p] = l]
Free(p) == serving /\ At(p, "idle")
pool == <<companies, sources>>

-----------------------------------------------------------------------------
(* Pure functions of the code.                                             *)

\* dedupeSourceCandidateInputs keeps the proposals whose URL no earlier one
\* has, in their order; the set holds that one list.
Firsts(found) == {i \in DOMAIN found : \A j \in 1..(i - 1) : found[j].url # found[i].url}
Deduped(found) ==
    {[k \in DOMAIN at |-> found[at[k]]] :
        at \in {at \in UNION {[1..n -> Firsts(found)] : n \in 1..Len(found)} :
                  /\ Range(at) = Firsts(found)
                  /\ \A k, m \in DOMAIN at : k < m => at[k] < at[m]}}

clampConfidence(v) == IF v < 0 THEN 0 ELSE IF v > 100 THEN 100 ELSE v

\* validateSourceCandidatePage for a well-formed URL, the only kind that is
\* stored: the verdict and what it adds to the confidence.
Judged(page) ==
    CASE page.fetched = "no answer" -> [verdict |-> "unreachable", delta |-> -25]
      [] page.fetched = "http error" -> [verdict |-> "unreachable", delta |-> -20]
      [] page.fetched = "cut off" -> [verdict |-> "weak_signal", delta |-> -5]
      [] page.fetched = "read" /\ page.cards > 0 ->
            [verdict |-> "verified_good", delta |-> 20]
      [] page.fetched = "read" /\ page.cards = 0 /\ (page.signals >= 3 \/ page.links >= 2) ->
            [verdict |-> "verified_good", delta |-> 18]
      [] page.fetched = "read" /\ page.cards = 0 /\ page.signals < 3 /\ page.links < 2
            /\ (page.signals > 0 \/ page.links > 0) ->
            [verdict |-> "weak_signal", delta |-> 6]
      [] OTHER -> [verdict |-> "weak_signal", delta |-> -10]

-----------------------------------------------------------------------------
(* DiscoverSourceCandidates: by request, by the tool and by the tick.      *)

\* The proposals are built before the first statement.
Discover(p) ==
    /\ Free(p)
    /\ \E web \in WebResults : \E found \in Deduped(Rules \o web) :
        Goto(p, [Idle EXCEPT !.op = "discover", !.pc = "find", !.finds = found])
    /\ UNCHANGED <<pool, candidates, serving, spent>>

FindCandidate(p) ==
    /\ At(p, "find")
    /\ LET url == Head(procs[p].finds).url
           known == {c \in DOMAIN candidates : candidates[c].url = url}
       IN  \/ /\ known = {}
              /\ Goto(p, [procs[p] EXCEPT !.pc = "insert"])
           \/ \E c \in known : Goto(p, [procs[p] EXCEPT !.pc = "refresh", !.row = c])
    /\ UNCHANGED <<pool, candidates, serving, spent>>

NextProposal(p) ==
    LET rest == Tail(procs[p].finds)
    IN  Goto(p, IF rest = <<>> THEN Idle ELSE [procs[p] EXCEPT !.pc = "find", !.finds = rest])

\* Mutant: the refresh does not look at the status any more.
RefreshDecidedToo(p) ==
    /\ At(p, "refresh")
    /\ LET l == procs[p]
           found == Head(l.finds)
       IN  candidates' = [candidates EXCEPT ![l.row].label = found.label,
                                            ![l.row].confidence = found.confidence,
                                            ![l.row].verdict = "reachable_candidate"]
    /\ NextProposal(p)
    /\ UNCHANGED <<pool, serving, spent>>

\* Mutant: the refresh starts the validation over and keeps the better rating.
RefreshKeepsRating(p) ==
    /\ At(p, "refresh")
    /\ LET l == procs[p]
           found == Head(l.finds)
           rating == candidates[l.row].confidence
       IN  candidates' = IF candidates[l.row].status = "pending"
                         THEN [candidates EXCEPT ![l.row].label = found.label,
                                                 ![l.row].confidence =
                                    IF rating > found.confidence THEN rating ELSE found.confidence,
                                                 ![l.row].verdict = "reachable_candidate"]
                         ELSE candidates
    /\ NextProposal(p)
    /\ UNCHANGED <<pool, serving, spent>>

\* UPDATE ... WHERE id = ? AND status = 'pending': the candidate may have been
\* decided since it was found.
RefreshCandidate(p) ==
    /\ At(p, "refresh")
    /\ LET l == procs[p]
           found == Head(l.finds)
           pending == candidates[l.row].status = "pending"
       IN  candidates' = IF pending
                         THEN [candidates EXCEPT ![l.row].label = found.label,
                                                 ![l.row].confidence = found.confidence,
                                                 ![l.row].verdict = "reachable_candidate"]
                         ELSE candidates
    /\ NextProposal(p)
    /\ UNCHANGED <<pool, serving, spent>>

\* The URL is UNIQUE: a proposal another discovery stored meanwhile is an error
\* and ends this discovery.
InsertCandidate(p) ==
    /\ At(p, "insert")
    /\ LET found == Head(procs[p].finds)
           taken == \E c \in DOMAIN candidates : candidates[c].url = found.url
       IN  \/ /\ ~taken
              /\ candidates' = Append(candidates,
                    [label |-> found.label, url |-> found.url,
                     confidence |-> found.confidence, verdict |-> "reachable_candidate",
                     status |-> "pending", source |-> 0])
              /\ NextProposal(p)
           \/ /\ taken
              /\ Goto(p, Idle)
              /\ UNCHANGED candidates
    /\ UNCHANGED <<pool, serving, spent>>

-----------------------------------------------------------------------------
(* CreateSource, createSourceIfMissing and SeedPublicURLSources, each with  *)
(* CreateOrUpdateCompany before it.                                         *)

\* Mutant: the candidate is marked before its source is inserted.
AcceptMarksFirst(p) ==
    /\ Free(p)
    /\ \E c \in DOMAIN candidates :
        LET input == [name |-> Trimmed[candidates[c].label],
                      url |-> candidates[c].url, enabled |-> TRUE]
        IN  /\ candidates' = [candidates EXCEPT ![c].status = "accepted"]
            /\ Goto(p, [Idle EXCEPT !.op = "accept", !.pc = "company",
                                    !.inputs = <<input>>, !.candidate = c])
    /\ UNCHANGED <<pool, serving, spent>>

\* AcceptSourceCandidate reads the candidate, whatever its status.
Accept(p) ==
    /\ Free(p)
    /\ \E c \in DOMAIN candidates :
        LET input == [name |-> Trimmed[candidates[c].label],
                      url |-> candidates[c].url, enabled |-> TRUE]
        IN  Goto(p, [Idle EXCEPT !.op = "accept", !.pc = "company",
                                 !.inputs = <<input>>, !.candidate = c])
    /\ UNCHANGED <<pool, candidates, serving, spent>>

CreateSource(p) ==
    /\ Free(p)
    /\ \E input \in Typed :
        Goto(p, [Idle EXCEPT !.op = "create", !.pc = "company", !.inputs = <<input>>])
    /\ UNCHANGED <<pool, candidates, serving, spent>>

SeedRecommendedSources(p) ==
    /\ Free(p) /\ Recommended # <<>>
    /\ Goto(p, [Idle EXCEPT !.op = "seed", !.pc = "company", !.inputs = Recommended])
    /\ UNCHANGED <<pool, candidates, serving, spent>>

\* The process starts; the server listens when the configured URLs are stored.
Start(p) ==
    /\ ~serving /\ \A q \in Procs : At(q, "idle")
    /\ IF Configured = <<>>
       THEN serving' = TRUE /\ UNCHANGED procs
       ELSE /\ Goto(p, [Idle EXCEPT !.op = "start", !.pc = "company", !.inputs = Configured])
            /\ UNCHANGED serving
    /\ UNCHANGED <<pool, candidates, spent>>

\* Only seeding looks for a source of the same name before it inserts.
AfterCompany(l) == IF l.op = "seed" THEN "look" ELSE "insert_source"

\* The SELECT ignores case.  A known company gets its category back, which
\* nothing here depends on; its switch is left alone.
FindCompany(p) ==
    /\ At(p, "company")
    /\ LET l == procs[p]
           name == CompanyOf[Head(l.inputs).name]
           known == {c \in DOMAIN companies : Folded[companies[c].name] = Folded[name]}
       IN  \/ /\ known = {}
              /\ Goto(p, [l EXCEPT !.pc = "new_company"])
           \/ \E c \in known :
                Goto(p, [l EXCEPT !.pc = AfterCompany(l), !.company = c])
    /\ UNCHANGED <<pool, candidates, serving, spent>>

\* An error ends the operation.  At start-up it ends the process.
Abandon(p) == Goto(p, Idle)

CompanyTaken(p) ==
    \E c \in DOMAIN companies : companies[c].name = CompanyOf[Head(procs[p].inputs).name]
NewCompany(p) ==
    LET l == procs[p]
        input == Head(l.inputs)
    IN  /\ companies' = Append(companies, [name |-> CompanyOf[input.name], enabled |-> input.enabled])
        /\ Goto(p, [l EXCEPT !.pc = AfterCompany(l), !.company = Len(companies) + 1])

\* Mutant: a name taken meanwhile is ignored and the id stays what it was.
InsertCompanyOrIgnore(p) ==
    /\ At(p, "new_company")
    /\ \/ ~CompanyTaken(p) /\ NewCompany(p)
       \/ /\ CompanyTaken(p)
          /\ Goto(p, [procs[p] EXCEPT !.pc = AfterCompany(procs[p])])
          /\ UNCHANGED companies
    /\ UNCHANGED <<sources, candidates, serving, spent>>

\* The exact name is UNIQUE.
InsertCompany(p) ==
    /\ At(p, "new_company")
    /\ \/ ~CompanyTaken(p) /\ NewCompany(p)
       \/ CompanyTaken(p) /\ Abandon(p) /\ UNCHANGED companies
    /\ UNCHANGED <<sources, candidates, serving, spent>>

LookForSource(p) ==
    /\ At(p, "look")
    /\ LET l == procs[p]
           known == {s \in DOMAIN sources : sources[s].name = Head(l.inputs).name}
       IN  \/ known = {} /\ Goto(p, [l EXCEPT !.pc = "insert_source"])
           \/ \E s \in known : Goto(p, [l EXCEPT !.pc = "refresh_source", !.row = s])
    /\ UNCHANGED <<pool, candidates, serving, spent>>

\* The list goes on with its next source; start-up ends by listening.
NextInput(p) ==
    LET l == procs[p]
        rest == Tail(l.inputs)
    IN  /\ Goto(p, IF rest = <<>> THEN Idle ELSE [l EXCEPT !.pc = "company", !.inputs = rest])
        /\ serving' = (serving \/ (l.op = "start" /\ rest = <<>>))

\* Mutant: a refreshed source is switched on again.
RefreshAndEnable(p) ==
    /\ At(p, "refresh_source")
    /\ LET l == procs[p]
           input == Head(l.inputs)
       IN  sources' = [sources EXCEPT ![l.row].url = input.url, ![l.row].company = l.company,
                                      ![l.row].enabled = input.enabled]
    /\ NextInput(p)
    /\ UNCHANGED <<companies, candidates, spent>>

RefreshSource(p) ==
    /\ At(p, "refresh_source")
    /\ LET l == procs[p]
       IN  sources' = [sources EXCEPT ![l.row].url = Head(l.inputs).url,
                                      ![l.row].company = l.company]
    /\ NextInput(p)
    /\ UNCHANGED <<companies, candidates, spent>>

SourceTaken(p) == \E s \in DOMAIN sources : sources[s].name = Head(procs[p].inputs).name
NewSource(p) ==
    LET l == procs[p]
        input == Head(l.inputs)
    IN  /\ sources' = Append(sources,
              [name |-> input.name, url |-> input.url, company |-> l.company,
               enabled |-> input.enabled])
        /\ IF l.op = "accept"
           THEN /\ Goto(p, [l EXCEPT !.pc = "mark", !.row = Len(sources) + 1])
                /\ UNCHANGED serving
           ELSE NextInput(p)

\* Mutant: the name is not UNIQUE.
InsertSourceAnyName(p) ==
    /\ At(p, "insert_source")
    /\ NewSource(p)
    /\ UNCHANGED <<companies, candidates, spent>>

\* Mutant: a taken name is an error at start-up, too.
InsertSourceStrictly(p) ==
    /\ At(p, "insert_source")
    /\ \/ ~SourceTaken(p) /\ NewSource(p)
       \/ SourceTaken(p) /\ Abandon(p) /\ UNCHANGED <<sources, serving>>
    /\ UNCHANGED <<companies, candidates, spent>>

\* The name is UNIQUE: an error, except at start-up (ON CONFLICT DO NOTHING).
InsertSource(p) ==
    /\ At(p, "insert_source")
    /\ \/ ~SourceTaken(p) /\ NewSource(p)
       \/ SourceTaken(p) /\ procs[p].op = "start" /\ NextInput(p) /\ UNCHANGED sources
       \/ SourceTaken(p) /\ procs[p].op # "start" /\ Abandon(p) /\ UNCHANGED <<sources, serving>>
    /\ UNCHANGED <<companies, candidates, spent>>

\* The last statement of AcceptSourceCandidate, whatever the status is now.
MarkAccepted(p) ==
    /\ At(p, "mark")
    /\ candidates' = [candidates EXCEPT ![procs[p].candidate].status = "accepted",
                                        ![procs[p].candidate].source = procs[p].row]
    /\ Goto(p, Idle)
    /\ UNCHANGED <<pool, serving, spent>>

-----------------------------------------------------------------------------
(* Validation, by request or by the tool, which reads its list first.      *)

\* ORDER BY confidence DESC; what decides between equals is left open.
MostPromising(list) ==
    /\ IsInjective(list)
    /\ Range(list) \subseteq {c \in DOMAIN candidates : candidates[c].status = "pending"}
    /\ \A i \in DOMAIN list, c \in DOMAIN candidates :
        /\ candidates[c].status = "pending"
        /\ c \notin {list[j] : j \in 1..i}
        => candidates[c].confidence <= candidates[list[i]].confidence

Pending == {c \in DOMAIN candidates : candidates[c].status = "pending"}
ToolLists ==
    LET n == IF Cardinality(Pending) < ValidateLimit THEN Cardinality(Pending) ELSE ValidateLimit
    IN  {list \in [1..n -> Pending] : MostPromising(list)}

Validate(p) ==
    /\ Free(p) /\ spent.checks < MaxChecks
    /\ \E list \in {<<c>> : c \in DOMAIN candidates} \cup ToolLists :
        /\ list # <<>>
        /\ Goto(p, [Idle EXCEPT !.op = "validate", !.pc = "read", !.checks = list])
    /\ spent' = [spent EXCEPT !.checks = @ + 1]
    /\ UNCHANGED <<pool, candidates, serving>>

ReadCandidate(p) ==
    /\ At(p, "read")
    /\ Goto(p, [procs[p] EXCEPT !.pc = "judge",
                                !.confidence = candidates[Head(procs[p].checks)].confidence])
    /\ UNCHANGED <<pool, candidates, serving, spent>>

\* The page is fetched; the verdict and the confidence go into the row in one
\* UPDATE, the confidence computed from the one read before the fetch.
StoreVerdict(p) ==
    /\ At(p, "judge")
    /\ \E page \in Pages :
        LET l == procs[p]
            c == Head(l.checks)
            j == Judged(page)
            rest == Tail(l.checks)
        IN  /\ candidates' = [candidates EXCEPT
                    ![c].verdict = j.verdict,
                    ![c].confidence = clampConfidence(l.confidence + j.delta)]
            /\ Goto(p, IF rest = <<>> THEN Idle ELSE [l EXCEPT !.pc = "read", !.checks = rest])
    /\ UNCHANGED <<pool, serving, spent>>

-----------------------------------------------------------------------------
(* One-statement requests, failures and crashes.                           *)

\* UpdateSourceCandidateStatus with "rejected": whatever the status is, and
\* the source of an accepted candidate stays in the pool.
RejectSourceCandidate ==
    /\ serving
    /\ \E c \in DOMAIN candidates :
        candidates' = [candidates EXCEPT ![c].status = "rejected"]
    /\ UNCHANGED <<pool, procs, serving, spent>>

Switch ==
    /\ serving /\ spent.switches < MaxSwitches
    /\ spent' = [spent EXCEPT !.switches = @ + 1]

UpdateSourceEnabled ==
    /\ Switch
    /\ \E s \in DOMAIN sources, on \in BOOLEAN :
        sources' = [sources EXCEPT ![s].enabled = on]
    /\ UNCHANGED <<companies, candidates, procs, serving>>

\* One transaction: the company and all its sources.
UpdateCompanyEnabled ==
    /\ Switch
    /\ \E c \in DOMAIN companies, on \in BOOLEAN :
        /\ companies' = [companies EXCEPT ![c].enabled = on]
        /\ sources' = [s \in DOMAIN sources |->
                          IF sources[s].company = c
                          THEN [sources[s] EXCEPT !.enabled = on] ELSE sources[s]]
    /\ UNCHANGED <<candidates, procs, serving>>

\* Any statement may fail (another writer holds the file, the request is
\* gone); the operation ends and what it stored stays.
Fails(p) ==
    /\ ~At(p, "idle") /\ spent.faults < MaxFaults
    /\ Abandon(p)
    /\ spent' = [spent EXCEPT !.faults = @ + 1]
    /\ UNCHANGED <<pool, candidates, serving>>

Crash ==
    /\ spent.crashes < MaxCrashes
    /\ procs' = [p \in Procs |-> Idle]
    /\ serving' = FALSE
    /\ spent' = [spent EXCEPT !.crashes = @ + 1]
    /\ UNCHANGED <<pool, candidates>>

\* The next statement of the operation p is in.
Proceed(p) ==
    \/ FindCandidate(p) \/ RefreshCandidate(p) \/ InsertCandidate(p)
    \/ FindCompany(p) \/ InsertCompany(p) \/ LookForSource(p) \/ RefreshSource(p)
    \/ InsertSource(p) \/ MarkAccepted(p)
    \/ ReadCandidate(p) \/ StoreVerdict(p)

\* A request of the user or of the agent; the tick only discovers.
Request(p) ==
    /\ p # Cron
    /\ \/ Accept(p) \/ CreateSource(p) \/ SeedRecommendedSources(p) \/ Validate(p)

UserSwitches == UpdateSourceEnabled \/ UpdateCompanyEnabled

Next ==
    \/ \E p \in Procs : Discover(p) \/ Request(p) \/ Proceed(p) \/ Start(p) \/ Fails(p)
    \/ RejectSourceCandidate \/ UserSwitches \/ Crash

Spec == Init /\ [][Next]_vars

\* Goroutines are scheduled, the service is started again after a crash, and
\* the tick comes back every minute and discovers until it once succeeded.
FairSpec ==
    /\ Spec
    /\ \A p \in Procs : WF_vars(Proceed(p))
    /\ WF_vars(\E p \in Procs : Start(p))
    /\ WF_vars(Discover(Cron))
-----------------------------------------------------------------------------
(* Properties.                                                             *)

\* Rows and local variables have their types; the UNIQUE columns are unique.
TypeOK ==
    /\ companies \in Seq(CompanyRow)
    /\ sources \in Seq(SourceRow)
    /\ candidates \in Seq(CandidateRow)
    /\ procs \in [Procs -> Proc]
    /\ serving \in BOOLEAN
    /\ spent \in Spent
    /\ \A i, j \in DOMAIN companies : companies[i].name = companies[j].name => i = j
    /\ \A i, j \in DOMAIN sources : sources[i].name = sources[j].name => i = j
    /\ \A i, j \in DOMAIN candidates : candidates[i].url = candidates[j].url => i = j

\* Company c is the one a source named n belongs to.
Linked(c, n) == c \in DOMAIN companies /\ Folded[companies[c].name] = Folded[CompanyOf[n]]

\* Every source belongs to a row of the company its name names, in one of its
\* spellings, whatever other goroutine inserted a company meanwhile
\* (CreateOrUpdateCompany, createSourceIfMissing).
SourcesLinked == \A s \in DOMAIN sources : Linked(sources[s].company, sources[s].name)

\* No other row spells the company of row c.  Two goroutines that both look
\* before either inserts may store it in two spellings.
SpelledOnce(c) ==
    \A d \in DOMAIN companies : Folded[companies[d].name] = Folded[companies[c].name] => d = c

\* Turning a company on or off turns every source named after it, whoever
\* inserted the source and its company and in which overlap, and no source
\* named after another company.  The exception: of a company stored in two
\* spellings, the switch of one row misses the pages held under the other
\* (CreateOrUpdateCompany, createSourceIfMissing, UpdateCompanyEnabled).
SwitchReachesPages ==
    [][\A c \in DOMAIN companies :
        companies'[c].enabled # companies[c].enabled =>
            \A s \in DOMAIN sources :
                IF Linked(c, sources[s].name)
                THEN SpelledOnce(c) => sources'[s].enabled = companies'[c].enabled
                ELSE sources'[s].enabled = sources[s].enabled]_vars

\* Source s visits page u, or the page recommended for a source of its name.
Visits(s, u) ==
    /\ s \in DOMAIN sources
    /\ \/ sources[s].url = u
       \/ \E i \in DOMAIN Recommended :
            Recommended[i].name = sources[s].name /\ Recommended[i].url = sources[s].url

\* A candidate points at a source exactly when it was accepted, also when it is
\* rejected afterwards, and the source visits the candidate's page, unless
\* seeding gave a source of that name its recommended page
\* (AcceptSourceCandidate, setSourceCandidateStatus, createSourceIfMissing).
AcceptedHasSource ==
    \A c \in DOMAIN candidates :
        /\ candidates[c].status = "accepted" => candidates[c].source # 0
        /\ candidates[c].status = "pending" => candidates[c].source = 0
        /\ candidates[c].source # 0 => Visits(candidates[c].source, candidates[c].url)

\* What a goroutine knows in the middle of an operation stays true while the
\* others go on: its list is not used up, its rows exist, the company it holds
\* is the one its source needs, the source it inserted visits the page.
KnowsFinds(l) ==
    /\ l.pc \in {"find", "refresh", "insert"} => l.finds # <<>>
    /\ l.pc = "refresh" => l.row \in DOMAIN candidates
    /\ l.pc \in {"read", "judge"} => l.checks # <<>>
    /\ \A i \in DOMAIN l.checks : l.checks[i] \in DOMAIN candidates
KnowsInputs(l) ==
    /\ l.pc \in {"company", "new_company", "look", "refresh_source", "insert_source"} =>
        l.inputs # <<>>
    /\ l.pc \in {"look", "refresh_source", "insert_source"} =>
        Linked(l.company, l.inputs[1].name)
    /\ l.pc \in {"look", "refresh_source"} => l.op = "seed"
    /\ l.op = "seed" =>
        \A i \in DOMAIN l.inputs : \E j \in DOMAIN Recommended : l.inputs[i] = Recommended[j]
    /\ l.pc = "refresh_source" =>
        l.row \in DOMAIN sources /\ sources[l.row].name = l.inputs[1].name
KnowsCandidate(l) ==
    /\ l.op = "accept" =>
        /\ l.candidate \in DOMAIN candidates
        /\ \A i \in DOMAIN l.inputs : l.inputs[i].url = candidates[l.candidate].url
    /\ l.pc = "mark" => l.op = "accept" /\ Visits(l.row, candidates[l.candidate].url)
Locals ==
    \A p \in Procs :
        KnowsFinds(procs[p]) /\ KnowsInputs(procs[p]) /\ KnowsCandidate(procs[p])

\* The verdict a row shows and its confidence come from one write, also when
\* validations and discoveries of it overlap: a page that is not validated has
\* the rating of one of its proposals, a verified one is never rated below what
\* verification adds, an unreachable one never at the top
\* (ValidateSourceCandidate, createSourceCandidateIfMissing).
Proposals == Range(Rules) \cup UNION {Range(web) : web \in WebResults}
VerdictBacked ==
    \A c \in DOMAIN candidates :
        /\ candidates[c].verdict = "reachable_candidate" =>
            \E found \in Proposals :
                found.url = candidates[c].url /\ found.confidence = candidates[c].confidence
        /\ candidates[c].verdict = "verified_good" => candidates[c].confidence >= 18
        /\ candidates[c].verdict = "unreachable" => candidates[c].confidence <= 80

\* Once the user has decided on a candidate, discovery leaves it alone, also a
\* discovery that found it pending: its title stays, it is never proposed
\* again, and only a validation changes its rating (the WHERE clause of the
\* refresh in createSourceCandidateIfMissing).
DecidedIsKept ==
    [][\A c \in DOMAIN candidates :
        LET row == candidates[c]
            new == candidates'[c]
        IN  row.status # "pending" =>
                /\ new.status # "pending" /\ new.label = row.label
                /\ \/ new.confidence = row.confidence /\ new.verdict = row.verdict
                   \/ \E p \in Procs : At(p, "judge") /\ Head(procs[p].checks) = c]_vars

\* What the user switched off, only the user switches on: no seeding, accepting
\* or restart re-enables a source or a company that exists
\* (createSourceIfMissing, CreateOrUpdateCompany, SeedPublicURLSources).
UserEnables ==
    [][\/ UserSwitches
       \/ /\ \A s \in DOMAIN sources : sources'[s].enabled = sources[s].enabled
          /\ \A c \in DOMAIN companies : companies'[c].enabled = companies[c].enabled]_vars

\* Discovery gets through: every proposal built from the preferences becomes a
\* candidate, although discoveries collide on a URL and abort, statements fail
\* and the process crashes (DiscoverSourceCandidates, Tick).
ProposalsListed ==
    \A i \in DOMAIN Rules :
        <>(\E c \in DOMAIN candidates : candidates[c].url = Rules[i].url)
=============================================================================
