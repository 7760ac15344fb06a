# Formal models of job-hunter-agent

TLA+ modules for the backend of job-hunter-agent (Go, `src/backend`): what its
concurrent handlers, scheduled jobs and SQLite tables do to each other, checked
with TLC on small instances and, for the core results, proved with TLAPS for
every instance.

## 1. The system

One Go process. Gin serves the HTTP API, one goroutine per request; the request's
context is cancelled when the client goes away. A cron scheduler starts a crawl at
09:00, 12:00 and 18:00 and an automation tick every minute; cron starts a job again
even while its previous run is still going. All state is in one SQLite file behind
`sql.DB`. **Only switching a company opens a transaction**; everywhere else each
statement is atomic by itself and any two goroutines interleave between two statements
of one operation. In memory the
process keeps only the crawl lock (`Runner.running`) and the LLM configuration.
Nothing is recovered at start-up.

| Component | State | Operations | Hard part |
|---|---|---|---|
| Approval gate, executor, observer (`handlers.go`, `agent_tool_executor.go`, `agent_action_requests.go`, `multi_agent_runtime.go`) | `agent_action_requests` | propose (chat, review, cycle, observer), PATCH with approve / dismiss / reopen, execute, receipt, observe | read-then-act on a stale row, repeated PATCHes, failures between tool and receipt |
| Work plans (`agent_plans.go`, `agent_runtime.go`, `agent_review.go`) | `agent_plans` (steps in one JSON column) | create, mark a step, derive the status | lost updates of the steps column, steps matched by action type |
| Crawl runner (`crawl/runner.go`) | `running`, `job_runs`, `job_run_sources`, health columns of `job_sources`, `jobs` | Run, import a URL | one in-memory lock, partial failure, cancelled requests, crash in the middle |
| Job store and decisions (`repository.go`, `job_decisions.go`) | `jobs`, `job_decisions` | create, status, notes, landing-page clean-up | read-modify-write of the status with a log beside it, a clean-up that works off a list |
| Importer and collectors (`importer.go`, `crawler.go`, `*_collector.go`) | the list being collected | API keywords, pages, cards, further pages, links | partial failure of a source, one posting reached in many ways |
| Sources, companies and candidates (`sources.go`, `companies.go`, `source_candidates.go`) | `job_sources`, `companies`, `source_candidates` | type in, seed, switch, discover, validate, accept, reject | look first and insert later, accept and reject overlap, a crash between the two rows |
| Task queue, application plans (`agent_tasks.go`, `application_plans.go`) | `agent_tasks`, `application_plans` | sync, escalate, snooze, done | the scheduler overwrites what the user just did |
| Automation (`automation_runner.go`, `agent_automation.go`, `settings.go`) | `settings` (one JSON row) | tick: discovery, daily plan, escalation, duty report | overlapping ticks, whole-record saves of stale copies, at-least-once sending |
| LLM configuration (`llm_config.go`, `handlers.go`) | one `settings` row and a copy in memory | update | row and memory diverge |
| Semantic memory and profile (`semantic_memory.go`, `qdrant_memory.go`, `candidate_profile.go`) | `semantic_memory_items`, points in Qdrant, `candidate_profiles` | sync with a job, reflections, rebuild, search | copies that are not refreshed, a second store that is told last and may not be reached |
| Cycles, chat, reviews, reports, scorer, schema, frontend | read models, parsers and append-only logs | | see `PROJECT.json` |

What makes each component correct: the gate executes only what was approved and its
rows never claim work nobody did; a plan shows the status of its steps and closes
when everything is decided; a crawl is alone, loses nothing silently, accounts for
what it stored and always ends; a job is stored once; a decision log explains every
status, and the memory and its copy in Qdrant say what the job says; nothing a site
listed is lost and a silent site shows; an accepted candidate has its source and what the
user switched off stays off; a user's "done" stays done; a report is sent when due, once
unless something went wrong, and the settings stay what the user chose.

## 2. Modules

| Module | Models | Checked by | Proved in |
|---|---|---|---|
| `ActionApproval` | PATCH `/agent/actions/:id`, proposals, plans, observer | `MCActionApproval` | `ActionApprovalProofs`, `ApprovalGateProofs` |
| `CrawlMutex` | what the runner's lock promises | refinement of `CrawlRunner` | `CrawlRunnerProofs` |
| `CrawlRunner` | `Runner.Run` with collectors, upsert, results, health, and URL imports | `MCCrawlRunner` | `CrawlRunnerProofs` |
| `SourcePool` | candidates, sources and companies: discovery, decisions, seeding, start-up, switches | `MCSourcePool` | `SourcePoolProofs` |
| `TaskQueue` | the daily tasks and the application plans: refresh, escalation, the user's decisions | `MCTaskQueue` | `TaskQueueProofs` |
| `AutomationTick` | the tick of every minute, the settings row, the duty report, the process's life | `MCAutomationTick` | `AutomationTickProofs` |
| `JobStore` | jobs, the log of decisions, the candidate profile, the semantic memory and Qdrant | `MCJobStore` | `JobStoreProofs` |
| `SiteCollector` | what `Collect` does inside one crawl: APIs and pages, request by request | `MCSiteCollector` | `SiteCollectorProofs` |

`CrawlRunner` takes what the collectors yield as a constant; `SiteCollector` is one such
collecting, and its `NoUrlTwice` and `SilenceShows` are what the crawl's accounts and the
sources' health rest on. `AutomationTick` treats a discovery, a plan and an escalation as
one step that succeeds or fails; `SourcePool`, `ActionApproval` and `TaskQueue` say what
happens inside, with the tick as one of their goroutines.

### ActionApproval

A process is a goroutine serving one request; `procs[p]` is what the handler holds
in local variables (the row it read, the receipt, the steps it is about to write
back). Each action is one SQL statement or one call of a tool, so two handlers
interleave exactly where the code lets them.

* `CreatePlan`, `CycleProposes`, `InsertRequest`, `ProposalDone`: `CreateReviewPlan`,
  `CreateChatPlan` and `RunMultiAgentCycle` insert a plan row and then one request
  row per action, or request rows only.
* `ReceivePatch` .. `UpdateAgentActionRequestStatus`: the handler in its order: read the
  row, run the tool, write the receipt, read and write the plan's steps, record the
  observer's proposals, write the status. `ReceivePatch` does not look at the row's
  status because the handler does not.
* A tool is its outcome: success with the numbers its receipt reports, failure, or, for
  `generate_daily_plan`, a plan of its own.
* `InsertFails`, `ToolFails`, `ReceiptFails`, `PlanStepFails`, `ObserverFails`,
  `StatusFails`: every statement may fail, also after its write took effect where a
  SELECT follows; each failure leaves by the code's own error path. `Crash` stops the
  process: rows stay, goroutines are gone.

Left out: wording of messages, timestamps other than "completed_at is set", the event
log, and `draft` plans (`CreateAgentPlan` gives every plan with steps the status
waiting_approval).

### CrawlRunner

`work[c]` is the local state of a goroutine inside `Run`: the collector it is at, the
postings left, its `sourceStats`, the summary, whether an error was noted. The
actions follow `Run`: take the lock, insert the run row, read settings and decisions,
collect, take postings one by one, look for a duplicate by URL and then by
company/title/city, insert, store the stats of the collector in any order (Go's map
order) each followed by its health update, finish, unlock. A caller that finds the
lock taken changes nothing.

A posting is a record of what the code tells apart: its apply URL, its normalised
company/title/city (`name`), the origin it says it is from, and whether scoring makes
it a manual check, a parser diagnostic or filtered. An origin is a pair of SourceName and
SourceURL, the key of `sourceStats`; `PageOf` is its URL, by which the health of every
source of that URL is updated. What sources yield is the
constant `Yields`; an official parser that fails yields `failedSourceJob`. Importers
upsert beside the crawl. Errors: `StartFails` (database, or the request is cancelled:
the only part of Run besides Collect that uses the request's context),
`CollectFails`, `UpsertFails`, `ResultFails`, `HealthFails`, `FinishFails`, `Crash`.

`CrawlMutex` is the abstract specification; `inside` is mapped to the goroutines whose
`pc` is not "idle".

### SourcePool

The pool of pages a crawl visits. `procs[p]` is what a goroutine holds between two
statements: the proposals, sources or validations it has still to work off, the company
and row it looked up, the rating it read before a fetch.

* `Discover`, `FindCandidate`, `RefreshCandidate`, `InsertCandidate`: a request, the tool or
  the minute tick (`Cron`) proposes candidates, one look-then-write per proposal. `Rules` and
  `WebResults` are what the preferences and a search engine yield; `Deduped` drops later
  proposals of a URL.
* `Accept`, `CreateSource`, `SeedRecommendedSources` and `Start` share the statements that
  follow: find or insert the company (`FindCompany`, `InsertCompany`), for seeding look for
  the source (`LookForSource`, `RefreshSource`), insert it (`InsertSource`), and for an
  accepted candidate set its status last (`MarkAccepted`). UNIQUE columns turn a lost race
  into an error that ends the operation, except at start-up, where the insertion ignores it.
* `Validate`, `ReadCandidate`, `StoreVerdict`: the rating is read, the page is fetched, both
  are written. `Judged` is the table of verdicts.
* `RejectSourceCandidate`, `UpdateSourceEnabled`, `UpdateCompanyEnabled`: one step each.
* `Fails` ends any operation at any statement; `Crash` ends all of them, and `Start` has to
  store the configured URLs again before requests are served (`serving`).

A company's name is kept in its spellings: the lookup compares `Folded` names, the UNIQUE
column compares them as they are. Category, parser, priority and timestamps are left out;
the health columns belong to `CrawlRunner`.

### TaskQueue

`tasks` holds the rows of `agent_tasks` by their UNIQUE key (date, kind, subject), `plans`
those of `application_plans` by job; a plan's tasks are named after its job instead of its
id. `procs[p]` is what a goroutine holds: the time it was given, the plans and tasks still
to be upserted, `desiredKeys`, and the rows it has listed and is about to write.

* `Begin`: a request, a tool or a command begins `SyncApplicationPlans` ("plans"),
  `SyncAgentTasks` ("sync") or `RefreshAgentTasks` ("refresh", a sync and then an escalation
  by a later clock); the automation tick begins "escalate".
* `ListJobs`, `upsertApplicationPlan`, `PlansListed`: the plans are prepared first.
* `SelectJobs` .. `SelectApplied`: the five SELECTs of `buildDesiredAgentTasks`, each an action
  with the tasks its rows call for. `upsertAgentTask` stores them by falling priority, one
  statement each; a row of the day keeps its status.
* `ListToClose`, `CloseTask`: `closeStaleOpenAgentTasks` lists the day and marks what is open and
  no longer desired. `ListToEscalate`, `setAgentTaskEscalation`: the day's unfinished rows are
  listed and judged by age, then written one by one.
* `UpdateAgentTask`, `UpdateApplicationPlan`: the user. `JobChanges`, `SourceChanges`,
  `CrawlStarts`: what the other components do to the causes of tasks. `Fails`: a statement
  fails, the client leaves or the process stops; what is written stays.

`lapsed[p]` and `missed[p]` are history, and so is a row's `own` (the user set its status
last): causes that were absent at some moment since `p` began, and tasks the user decided on
since `p` listed them. `Gone(p)` adds the causes that are absent now. Titles, counts, the
texts of plans, `completion_reason` and `completed_at` are left out; a job's score and the
look of a parser gap are constants (`Strong`, `Gaps`).

### AutomationTick

`settings` is the one row, read and written as a whole; `procs[p]` holds a goroutine's copy
of it. A clock of minutes (`now`) and `Offset` make the local day, by which reports are
marked, and the UTC day, by which plans are looked for.

* `Minute`: the clock goes on and cron starts a tick, whatever the ticks before are at. (A
  goroutine must be idle for it: the number of ticks at work together is bounded, not the
  time one may take.) `GetSettings`, `DiscoverSourceCandidates`, `SaveDiscovery`,
  `LookForPlan`, `CreateAgentPlan`, `SendFeishuWebhook`, `MarkReport` are `Tick` in its order.
* `UpdateSettings`: the form replaces the row, and does not send the two dates in it.
* `Begin`, `FindWebhook`, `SendByHand`, `MarkByHand`: `RunAutomationDutyReport`; a report sent
  by a command or by the executor's tool does not mark the day and is left out. `SaveCommand`: a
  command that changes the preferences.
* `Fail`, `LoseAnswer`: a statement or the POST fails, or the report arrives and its answer
  does not. `GetSettings` answers the defaults for every error of the database, so its
  failure does not end the tick. `Signal`: the scheduler and its context stop, the HTTP
  server goes on; `Crash`, `Start`. All of these share the bound `MaxFaults`,
  and with the requests the bound `MaxEvents`.

What follows the mark (a snapshot and a cycle) changes neither the settings nor the plans of
this module; its proposals are `ActionApproval!CycleProposes`. The history variables say why
a property may fail and nothing else: `lapsed` (days whose mark was lost or never made),
`overlaps`, `struck` (the ticks a failure ended, or misled into reading the defaults),
`late` (a report by hand that was delivered before midnight and marked after it),
`excused` (days on which a report was not wanted or not possible at some due minute), `stale`
and `clobbered` (copies out of date, and that one undid a choice).

### JobStore

* `InsertJob`, `WriteNotes`, `SaveCandidateProfile`: the row is written, then read back
  (`Reload`), then stored in the memory (`UpsertSemanticMemoryItem`), read back again (`Reread`)
  and put into Qdrant (`Put`).
* `ReadStatus`, `UpdateStatus`, `RecordJobDecision`: a status is read, written and logged, by
  the user or by the clean-up, which lists the jobs once and then works the list off
  (`ListJobs`, `Turn`). A change of status never reaches the memory.
* A rebuild lists the jobs once, stores each as it was listed, and at last what is learned
  from the decisions (`Learn`).
* `LosePut`: what Qdrant answers is ignored. `Fail`, `Restart`: a statement fails, or all
  goroutines end.

A version of a document is its text and, for a job, its status: what the two stores tell
apart. A reflection is made from the newest 200 decisions on a taste and known by
the number of all of them, which says which these are since the log only grows. A rebuild skips
a job with neither title nor description; the jobs of the model have them. The decision that
`UpdateNotes` logs changes no status and is left out, and with it the memory items of single
decisions; so are embeddings and searches.

### SiteCollector

One goroutine, as inside `Run`, and sites that answer, fail or refuse at every request.
`Sites` is the set of things they may have: postings by keyword, cards, further pages, links,
which pages are a posting of their own and which addresses look like one. `at` holds the
local variables of the collector at work.

* `NextSource`, `CollectKeyword`, `FailKeyword`, `RefuseKeyword`, `TakePost`:
  `DBSourceCollector.Collect` with the four APIs. They differ in how a posting's address is
  made (`TencentUrl` .. `MeituanUrl`, with one address for all postings without an identifier)
  and in whether the code inside an answer is looked at (`ChecksCode`). One failing keyword
  fails the source.
* `NextPage`, `ImportPage`, `FailImport`, `RejectImport`: `PublicURLCollector.Collect` and
  `importURLWithRetry`. `DiscoverJobCards`, `DiscoverPaginationLinks`, `DiscoverPageCards`,
  `DiscoverLinks`, `ImportLink`, `TakeCard`, `TakeOwn`: what a page leads to; the first few of
  each (`FirstOf`). Cards are taken in any order, as from Go's map.
* `Cancel`: the caller goes; every request after it fails, and the appends go on.

Titles, cities, tags, deadlines and the merge of a card into a posting are left out: an
address and whether the job is a posting or to be checked by hand is what the crawl acts on.

## 3. Runs

`MC*.tla` only define values for the constants; the `.cfg` files choose them.
Deadlock checking is off: a server without requests may rest, the bounds on proposals,
patches, runs, requests and the clock end every behaviour, and collecting comes to an end.

| Run | Shows |
|---|---|
| `approval_races` | two handlers, decisions repeated and contradicted, all faults: `ApprovalGate`, `ReceiptEarned`, `PlanStatusDerived`, `StepsEarned` |
| `approval_serial` | one handler at a time, no fault, a tool that inserts a plan of its own: `ResolvedPlanIsDone`, and under fairness `QueueDrains` |
| `crawl_faults` | one crawl of two sources and one import, all faults: `TypeOK`, `SuccessMeansStored`, `RunAccounts`, and under fairness `LockReleased` |
| `crawl_repeat` | two triggers, two crawls of two sources of one URL, two imports, cancellation and crash: `CrawledOnce`, `HealthFollowsRun`, refinement of `CrawlMutex` |
| `pool_races` | three goroutines on one company in two spellings, no faults: `TypeOK`, `AcceptedHasSource`, `SwitchReachesPages`, `UserEnables` |
| `pool_restart` | the tick and one user, one failing statement, one crash: `VerdictBacked`, `DecidedIsKept`, and under fairness `ProposalsListed` |
| `queue_day` | two operations of refresh, plan and escalation that overlap, midnight between them, a cause that comes or goes, one decision of the user, one fault: `TypeOK`, `SyncCovers`, `ObsoleteWhenClosed`, `UserDecides` |
| `queue_overdue` | violation: with the default SLA of 24 hours a task left open is never marked |
| `tick_day` | two goroutines over two days, ticks that overlap each other and a request, two faults or a fault and a request: `TypeOK`, `MarkBacked`, `RepeatHasCause`, `PrefsKept`, `PlanPerDay`, and under fairness `DueIsSent` |
| `tick_resent` | violation: saving the settings form sends the day's report again |
| `jobs_memory` | two goroutines, three requests on a posting and a landing page, one fault: `TypeOK`, `LogExplains`, `MemoryMatches`, `RebuildRepairs`, `UserDecisionKept`, `PointsMatch` |
| `collect_sites` | two APIs and three pages that share postings and lead to each other, every request may fail: `NoUrlTwice`, `FoundIsKept`, `SilenceShows`, and under fairness `CollectEnds` |

The two violations are findings: each contradicts a sentence of the repository, quoted in
`PROJECT.json`. The runs use plans that name each action type once: in a plan that names one
twice the second decision marks the first step again, and the plan never closes.

Five more disagreements are not runs, because the space of questions is better
spent otherwise; each is listed as a hazard at its line:

* `ResolvedPlanIsDone` needs `approval_serial`'s single handler: two overlapping approvals of one
  plan write the steps column from copies, one step is lost, and the plan never closes.
* A dismissed request that is approved later is executed: `ReceivePatch` does not look at the
  row's status.
* An import beside a crawl stores one posting twice. `CrawledOnce` says what is left: of two
  rows of one posting at least one was pasted.
* A company inserted under two spellings has two rows, and the switch of one does not reach the
  pages held under the other; `SwitchReachesPages` is about companies stored once.
* A Meituan or OPPO source stays broken after successful crawls, because the stat of its
  postings has another address than the source.

### Bounds

*ActionApproval*: two processes are enough for every pair of handlers that race; the
rows are shared pairwise (a request, or the steps column of one plan) and no handler
waits for another. Two steps per plan are the least that makes a lost update or a
wrong match visible. In `approval_serial` five request rows hold a plan of two and the
longest chain of proposals the observer makes after it (a crawl, then discovery, then
validation), so that no handler is stopped by the bound, which `QueueDrains` needs. In
`approval_races` two rows are enough; a handler that finds none left can only go on by
the error path, which these safety properties allow. Two PATCHes per row
(`MaxPatches`) cover a decision sent twice (`MaxRepeats` 2) and one that contradicts it.
`CrawlCounts` of `approval_serial` holds a crawl that reads as empty and an ordinary one,
the two cases the observer tells apart. *CrawlRunner*: two sources in
two collectors, among them an official one that may fail and a generic page; the
postings include a second posting with a known URL, one with a known name, a blank
URL, a filtered one and an unreachable page. Two runs are needed for duplicates
across crawls and for health that changes. In `crawl_repeat` the second run may bring nothing,
the two sources share one URL, so that a failure of one and a posting of the other give one
page two stats, and the pasted pages are the crawl's own posting and the same job elsewhere. Its
database does not fail; `crawl_faults` fails every statement, and the theorems hold for all faults. *SourcePool*: three goroutines let a discovery,
a decision and a seeding overlap; two titles and two spellings of one company are the least
that makes the lookups race, and a search result under another title that carries a rule's
URL makes discoveries rename, collide and abort. Users are symmetric; the tick is not.
`pool_restart` gives up the third goroutine for a validation, a failure and a crash.
*TaskQueue*: one job and one source give every operation a cause of its own, and each row is
written by itself, so a second job would only repeat the first. Two operations, in any order
and overlap, are every pair that can disturb each other; "sync" alone is a refresh whose
escalation fails. `queue_day` has days of two units and an SLA of one, so that tasks become
stale within a day and dates change in the middle of an operation; a snooze of one unit, or
without a date, ends within the run. "escalated" would need a task twice as old as the SLA
on its own day; it is written by the same statement as "stale". In `queue_overdue` a unit
is eight hours: the day, the SLA and the clock's two days are the default configuration.
*AutomationTick*: days of three minutes of which two are due, local time one minute off UTC,
so that the two kinds of day end at different minutes; the clock runs through one whole day
and into the next, which `DueIsSent` needs, and an interval of two makes discovery due within
it. Two goroutines are two ticks that overlap, or a tick and a request. A day has two due
minutes, so that two faults can strike both of its ticks and one leaves the report to the
other; one request, alone or with one fault (`MaxEvents` 2), gives the other exceptions the
properties name, and the theorems hold for any number. *JobStore*: one posting and one landing page, because the clean-up
tells these apart; two goroutines and three requests let a job be changed, listed and
changed again; Qdrant is there, and `LosePut` is a time at which it cannot be reached.
*SiteCollector*: Tencent stands for the three APIs that look at the code of an answer and
Meituan for the one that does not; both have one posting in common and Meituan a posting
without an identifier, whose address is the site's list of positions. `MaxPages` 1 and `MaxLinks` 2 cut
lists off; the retries are the code's three.

### Fairness

`ActionApproval!FairSpec`: a started handler keeps running (weak fairness of `Serve`:
goroutines are scheduled, SQLite answers), and a pending suggestion is eventually
decided by the user (strong fairness of `Decide`, an assumption about the user that
only `QueueDrains` uses). `CrawlRunner!FairSpec`: a goroutine inside Run takes its next
step, because SQLite answers and each fetch ends within the collector's HTTP client
timeout of 20 s. Nothing is assumed about triggers. `TaskQueue` and `JobStore` have no liveness
property and assume no fairness. `SiteCollector!FairSpec`: the collector takes its next step,
since each request of its client is answered or fails within 20 s. `AutomationTick!FairSpec`: a
goroutine takes its next step, failing only where a signal cancelled its context; the
database answers, and so does Feishu, whose client has no timeout of its own: this is an
assumption about Feishu. Nothing is assumed about the clock, users or faults: `DueIsSent` only
speaks of days that have passed, and names the ones without a report: a setting, a process
that was not there, a mark of the day before, or failures that struck the tick of every due
minute of the day. A failing webhook or discovery is retried each minute and nothing else
makes up for it, so a day on which it fails every time ends without a report. `SourcePool!FairSpec`: a started
operation takes its next statement; the user starts the service again after a crash; and,
with automatic discovery switched on, the tick comes back every minute and discovers until
a discovery has succeeded, since only then `last_source_discovery_at` moves.

## 4. Proofs

All theorems hold for any values of the constants that satisfy the modules' named
assumptions: any number of goroutines, rows, bounds, templates, sources and any set of
faults.

`ActionApprovalProofs`, from `ApprovalAssumption`:

* `TypeCorrect`: `Spec => []TypeOK`
* `PlanStatusCorrect`: `Spec => []PlanStatusDerived`. Every write to a plan writes its
  steps, status and completion together (lemma `PlanWrites`), so it is inductive.
* `ReceiptsAreEarned`: `Spec => []ReceiptEarned`
* `StepsAreEarned`: `Spec => []StepsEarned`
* `FollowUpsDescend`: `Spec => [][ProposalsDescend]_vars`

`ReceiptsAreEarned` and `StepsAreEarned` are not inductive: a handler writes what it read and did earlier. The
invariant `IInv` adds what each handler's local copy guarantees while others run
(`LocalInv`): its control state fits its decision (`ControlOK`), the row it read still
has that type and plan (`RowKnown`), a handler that says "done" has run its tool and
past the receipt has said so (`RunEarned`), and the steps it is about to write claim
only work that was done (`CopyBacked`). Receipts, run counts and patches only grow
(lemma `RowsGrow`), so a local copy is never falsified by another handler
(`LocalStays`); the rest is one case per action.

`ProposalsDescend` is the part of `QueueDrains` that does not need fairness: `Rank` gives each
action how many further rounds it may lead to, and a row added by `generate_daily_plan` or by
the observer ranks below the request it was added for (`RankInv`, over `IInv`). It is proved for
all overlaps and failures; that the queue therefore drains is left to TLC.

`ApprovalGateProofs`, from `ProcsAssumption` (finitely many goroutines):

* `GateHolds`: `Spec => []ApprovalGate`. The invariant `GateInv` counts, for each
  request, the handlers that were approved and have not finished its tool (`DueFor`):
  finished runs plus these never exceed the approvals. Each step is one of three
  bookings, `Keeps`, `Finishes` or `Approves`.

`CrawlRunnerProofs`, from `CrawlAssumption`:

* `MutexImplemented`: `Spec => AtMostOneCrawl`, the refinement of `CrawlMutex`. Its invariant
  `LockInv` says that the lock is taken exactly while somebody is inside and that nobody
  is inside with another; every step of `Proceed` and `Fail` other than `unlock` stays
  inside (`Moves`), error paths included.
* `CrawlTypes`: `Spec => []TypeOK`
* `SuccessStored`: `Spec => []SuccessMeansStored`
* `HealthIsLastResult`: `Spec => []HealthFollowsRun`. Where a page has several results the source
  shows one of them; a later successful run without a result for the page changes nothing.
* `AccountsAgree`: `Spec => []RunAccounts`
* `CrawlsStoreOnce`: `Spec => []CrawledOnce`. `StoreInv` adds to `LockInv` that what the
  goroutine inside has looked up is still so among the rows of crawls (`Looked`), which holds
  because an import adds none of those (`ImportKeepsStore`).

Each of the four before the last has an inductive invariant. `KeptInv` and `HealthInv` contain `CrawlTyped`, and
`AccountInv` contains `HealthInv`:

* `CrawlTyped`: with the types goes the control of a crawl (`Control`) and that the row of a
  crawl at work is the newest and says "running" (`OwnsRun`): only the holder of the lock
  writes it (`LockInv` is part of it). The types are not inductive without this.
* `KeptInv`: a crawl that has met no error and visited the sources has every posting yielded in
  the table, filtered, or still in `todo` (`Promised`). That the list handed over covers what
  the sources yield is `CollectedCovers`, by induction on both loops of `Collected`. The
  library's induction theorems take an operator as a parameter and cannot be used;
  `UpTo` states induction for a set of numbers instead and rests on `WFMin`, that a non-empty
  set of naturals has a least member, and `Iterates` on it.
* `HealthInv`: of the last run with a result for a page, if that run and all after it have met no
  error (`Current`), the source shows one result, or its row is about to be updated (`Agrees`);
  in such a run the result stored last is the stat the update is about (`Informed`); a run not
  yet created has no results; and failures are counted exactly when the source is broken.
* `AccountInv`: the run row counts what the stats of its collector count, less the postings still in
  `todo`, and what of the stats is stored is what was counted (`Balanced`). The sums of
  `RunAccounts` are not proved by induction over the sources: `Total` counts the numbered
  items of a counter (`Items`), so that a counter raised by one has one more item
  (`TallyRaised`) whatever the other sources count. A crawl with an error keeps only the
  inequalities (`Modest`), which is all a partial success claims.

The proof of `HealthIsLastResult` found an ambiguity in an earlier form of `SourceHealth`: for a result
that is failed with no posting found two arms of its CASE applied, and TLC took the right one
because it came first. In updateSourceHealth a result that is not a success is broken
whatever it found, and the arms now exclude each other.

`SourcePoolProofs`, from `PoolAssumption`:

* `PoolTyped`: `Spec => []TypeOK`, with the uniqueness of names and URLs
* `SourcesStayLinked`: `Spec => []SourcesLinked`
* `SwitchesReachPages`: `Spec => SwitchReachesPages`, which follows from it: a company stored
  once holds every source named after it
* `AcceptedVisited`: `Spec => []AcceptedHasSource`
* `OnlyUserEnables`: `Spec => UserEnables`
* `DecisionsKept`: `Spec => DecidedIsKept`
* `VerdictsBacked`: `Spec => []VerdictBacked`

Every operation looks first and writes later, so none of the state properties is inductive.
`IInv` adds to them `Locals`: what each goroutine knows in the middle of its operation, that
its list is not used up and names rows that exist (`KnowsFinds`), that the company it holds
is the one its source needs and that seeding works off the recommended list
(`KnowsInputs`), and that the source it inserted visits the candidate's page
(`KnowsCandidate`). No row is ever removed or renamed by another goroutine except in ways
these facts allow (`Grow`), so they survive the steps of the others (`KnowsGrows`). The
steps then fall into three kinds, each with one lemma: those that move a goroutine only
(`QuietStep`), those that change a candidate (`CandidateStep`) and those that change
companies or sources (`PoolStep`). `VerdictsBacked` has an invariant of its own on top of it,
`RatingInv`: every row is backed, the finds of a discovery are proposals of the rules or of the web
(`FindsBacked`, through the deduplication, lemma `DedupedAmong`), and the row it is about to
refresh has the page of the find at hand. A validation adds its delta to whatever rating
it read, so its case needs only the bounds of a rating (`JudgedRating`).

`TaskQueueProofs`, from `QueueAssumption`:

* `QueueTyped`: `Spec => []TypeOK`
* `RefreshCovers`: `Spec => []SyncCovers`
* `ClosesObsolete`: `Spec => ObsoleteWhenClosed`
* `DecisionsStand`: `Spec => UserDecides`
* `DefaultSLANeverMarks`: with `SLA >= DayLength` no step but the user's makes a task stale
  or escalated.

`IInv` is `TypeOK` and `Knows(p)` for every goroutine: a plan that was called for all along is
there or still to be upserted (`KnowsPlans`); a cause that stood all along and whose SELECT
is over is among the desired ones (`KnowsCauses`), and once stored it has a row
(`KnowsRows`); what is about to be closed has lost its cause at some moment and was no
decision of the user when it was listed (`KnowsClosed`), and the same for the rows about to
be escalated, none of which becomes "done" (`KnowsLate`). The history variables make these
facts stable: another goroutine's step can only enlarge `Gone` and `missed` (`OthersStay`).
`Written` says which goroutine may change a row, and the two action properties follow from
it. `Quiet` is the invariant of the last theorem: a task is never created before its day
(`DayBounds`), so within its day it is younger than a day.

`AutomationTickProofs`, from `TickAssumption` and `RowAssumption` (a row of settings is not the
mark for a missing row):

* `TypeCorrect`: `Spec => []TypeOK`, together with `Shape`, which ties a goroutine's operation
  to where it is.
* `OnePlanPerDay`: `Spec => []PlanPerDay`. A tick looks for the plan and inserts it later, so
  the property is not inductive. `PlanInv` adds that two ticks at work at once are both among
  `overlaps` (`InFlight`), and that a tick about to insert a plan on a day that has one by now
  overlapped the tick that made it (`Planning`). Histories only grow, so only the step that looks and the
  step that inserts need an argument.
* `MarksBacked`: `Spec => []MarkBacked`. `Backing` adds that the copies goroutines hold are
  backed as well, and that who is to set a mark has delivered (`HoldsBacked`): the whole row is
  written back from copies, so a mark can come from any of them.
* `ChoicesKept`: `Spec => []PrefsKept`. `Keeping` adds that a copy not known to be out of date
  has what was asked for last (`Current`).
* `RepeatsHaveCauses`: `Spec => []RepeatHasCause`. `RepeatInv` adds that a delivered report is
  marked, about to be marked, or its mark was lost on the record (`Remembered`), and that a
  tick on its way to a report knows of the day's report or overlaps whoever delivered it
  (`Knows`).

`JobStoreProofs`, from `StoreAssumption`, `ChoicesAssumption` and `NoneAssumption`:

* `TypeCorrect`: `Spec => []TypeOK`
* `LogCorrect`: `Spec => []LogExplains`
* `MemoryCorrect`: `Spec => []MemoryMatches`
* `RebuildCorrect`: `Spec => []RebuildRepairs`
* `UserRespected`: `Spec => []UserDecisionKept`
* `PointsCorrect`: `Spec => []PointsMatch`

`Shape` says which operation may be where, and on which document (`Fit`): rows and memories are
never removed (`Grows`), so it survives the others' steps. Each property then has an invariant of
its own on top of it, about what goroutines hold between a read and the write that rests on it:

* `LogInv`: on a job whose log is complete one goroutine decides at a time; before it writes the
  status it knows the one the job has, and before it logs the job has the one it is about to
  log. It needs `UserInv` for the insertion, which must be the first on its job.
* `MemoryInv`: of a document that is not `behind`, every copy somebody is about to store (`Holds`)
  has the text of the row. This is what makes it safe to take a document out of `behind`.
* `Repairing`: a rebuild's list, less what others touched, holds nothing out of date, and every
  visible job is remembered as it is or still on the list. `StepTells` shows that every change of
  a row, of the log or of the memory is told to the rebuilds at work.
* `UserInv`: what a clean-up is about to judge is not what the user chose, unless he did so
  after it was listed; two insertions are never on one job, and none is on a job with a row.
* `PointInv`: of a document that is not `unindexed`, every point about to be put is what is
  stored, and without one the index agrees already.

`SiteCollectorProofs`, from `SiteAssumption`:

* `TypeCorrect`: `Spec => []TypeOK`
* `HandedOverOnce`: `Spec => []NoUrlTwice`
* `NothingFoundIsLost`: `Spec => []FoundIsKept`
* `SilenceIsSeen`: `Spec => []SilenceShows`

The last two only speak of the end. `Collects` adds what is so on the way: every address of
an answer is in the list of all, in the list of the pages, among the cards, or is the page at
hand (`Kept`); every source is still to be looked at, at hand, heard, or has a job of its own
in one of the lists (`Seen`); a job that is not to be checked by hand is a posting some answer
had (`Told`), so that a silent source's job is a failed one unless another source showed a
posting at its address; and the local variables are empty where the collector has not
filled them (`Shape`). The lemmas `Appended`, `AppendedAnyway`, `HeadAndTail`, `NextAndRest` and
`PutLast` say what the operations on lists do to the addresses in them; then there is one
lemma per action.

Every safety property of the passing runs is a theorem without further hypotheses, but for
`ResolvedPlanIsDone`: overlapping handlers, failures and repeated action types break it, so it
is checked for one handler without them and not proved. Only model-checked besides are the
liveness properties `QueueDrains`, `LockReleased`, `ProposalsListed`, `DueIsSent` and
`CollectEnds`: they rest on fairness, that is on ENABLED, which the prover does not expand. The
two violation runs are counterexamples and need no proof.

## 5. Plan

1. `ActionApproval` with its proofs. Done.
2. `CrawlRunner` refining `CrawlMutex`, with its proofs. Done.
3. `SourcePool` with its proofs. Done.
4. `TaskQueue` with its proofs. Done.
5. `AutomationTick` with its proofs. Done.
6. `JobStore` with its proofs. Done.
7. `SiteCollector` with its proofs. Done.
8. Proofs of the other safety properties: marks, choices and repeats of the tick, verdicts of the
   pool, the crawl's types, results, health and counters. Done.
9. `LLMConfig`: the row and the copy in memory, which one handler writes one after the other.
10. Pure algorithms against reference definitions: review steps, schedule arithmetic.

New questions take the place of the less important violation runs, as section 3 says. An
abandoned `job_runs` row and a receipt that reads as an empty crawl are two more that were set
aside so.

## 6. Not modelled

Parsing and presentation (HTML and JSON of pages, scorer text matching, reports, Feishu
layout, model prompts, frontend) are pure functions over text or layout whose results enter
the modules as constants. Searching the memory changes nothing and is left out with its embeddings and ranking:
`PointsMatch` says what Qdrant has to answer from, and the local search, which answers when
Qdrant does not, ranks the newest 200 rows only, so that it may miss what is remembered. Schema
migration is idempotent DDL before any goroutine starts, the configuration is read once. The
event log and the snapshots are append-only and nothing reads them back into a decision. The
LLM configuration is one row and one copy that nothing of the other modules reads.
