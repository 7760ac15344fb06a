------------------------- MODULE CrawlRunnerProofs -------------------------
(***************************************************************************)
(* What holds of crawls for every number of triggers, sources and runs and *)
(* for every failure: the lock, the types, the postings a successful run   *)
(* has stored, the health of the sources, and the counters of the runs.    *)
(***************************************************************************)
EXTENDS CrawlRunner, SequenceTheorems, FiniteSetTheorems, WellFoundedInduction, TLAPS

\* A step of the goroutine c that stays inside Run.
Moves(c) ==
    /\ c \in Busy /\ running' = running
    /\ work' = [work EXCEPT ![c] = work'[c]]
    /\ work'[c].pc # "idle" /\ DOMAIN work'[c] = DOMAIN Idle

\* How a step that assigns the record l to c is seen to stay inside.
LEMMA GotoMoves ==
    ASSUME WorkShape, NEW c \in Busy, NEW l, Goto(c, l), running' = running,
           l.pc # "idle", DOMAIN l = DOMAIN Idle
    PROVE  Moves(c)
  BY DEF WorkShape, Busy, Goto, Moves

\* The record of a goroutine has a program counter.
LEMMA IdleFields == "pc" \in DOMAIN Idle
<1>1. DOMAIN Idle = {"pc", "run", "next", "todo", "stats", "flush", "key", "summary", "errors"}
  BY DEF Idle
<1> QED
  BY <1>1

\* Everything Run does between tryLock and unlock stays inside, error paths
\* included.
LEMMA ProceedMoves ==
    ASSUME WorkShape, NEW c \in Callers, Proceed(c), ~unlock(c)
    PROVE  Moves(c)
<1>0. DOMAIN work[c] = DOMAIN Idle
  BY DEF WorkShape
<1>1. CASE CreateRun(c)
  BY <1>0, <1>1, IdleFields, GotoMoves DEF CreateRun, At, Busy
<1>2. CASE LoadPreferences(c)
  BY <1>0, <1>2, IdleFields, GotoMoves DEF LoadPreferences, At, Busy
<1>3. CASE Collect(c)
  BY <1>0, <1>3, IdleFields, GotoMoves DEF Collect, At, Busy
<1>4. CASE TakePosting(c)
  BY <1>0, <1>4, IdleFields, GotoMoves DEF TakePosting, At, Busy
<1>5. CASE FindByUrl(c)
  BY <1>0, <1>5, IdleFields, GotoMoves DEF FindByUrl, Duplicated, PostingDone, At, Busy
<1>6. CASE FindByName(c)
  BY <1>0, <1>6, IdleFields, GotoMoves DEF FindByName, Duplicated, PostingDone, At, Busy
<1>7. CASE StorePosting(c)
  BY <1>0, <1>7, IdleFields, GotoMoves DEF StorePosting, Created, PostingDone, At, Busy
<1>8. CASE CloseCollector(c)
  BY <1>0, <1>8, IdleFields, GotoMoves DEF CloseCollector, At, Busy
<1>9. CASE CreateRunSourceResult(c)
  BY <1>0, <1>9, IdleFields, GotoMoves DEF CreateRunSourceResult, At, Busy
<1>10. CASE UpdateSourceHealth(c)
  BY <1>0, <1>10, IdleFields, GotoMoves DEF UpdateSourceHealth, At, Busy
<1>11. CASE NextCollector(c)
  BY <1>0, <1>11, IdleFields, GotoMoves DEF NextCollector, At, Busy
<1>12. CASE FinishRun(c)
  BY <1>0, <1>12, IdleFields, GotoMoves DEF FinishRun, At, Busy
<1> QED
  BY <1>1, <1>2, <1>3, <1>4, <1>5, <1>6, <1>7, <1>8, <1>9, <1>10, <1>11, <1>12 DEF Proceed

\* Every error path still has the deferred unlock ahead of it.
LEMMA FailMoves ==
    ASSUME WorkShape, NEW c \in Callers, Fail(c)
    PROVE  Moves(c)
<1>0. DOMAIN work[c] = DOMAIN Idle
  BY DEF WorkShape
<1>1. CASE StartFails(c)
  BY <1>0, <1>1, IdleFields, GotoMoves DEF StartFails, At, Busy
<1>2. CASE CollectFails(c)
  BY <1>0, <1>2, IdleFields, GotoMoves DEF CollectFails, At, Busy
<1>3. CASE UpsertFails(c)
  BY <1>0, <1>3, IdleFields, GotoMoves DEF UpsertFails, NotStored, PostingDone, At, Busy
<1>4. CASE ResultFails(c)
  BY <1>0, <1>4, IdleFields, GotoMoves DEF ResultFails, At, Busy
<1>5. CASE HealthFails(c)
  BY <1>0, <1>5, IdleFields, GotoMoves DEF HealthFails, At, Busy
<1>6. CASE FinishFails(c)
  BY <1>0, <1>6, IdleFields, GotoMoves DEF FinishFails, At, Busy
<1> QED
  BY <1>1, <1>2, <1>3, <1>4, <1>5, <1>6 DEF Fail

\* A step inside Run changes nobody else's record, so Busy stays.
LEMMA MovesKeepsInside ==
    ASSUME WorkShape, NEW c \in Callers, Moves(c)
    PROVE  WorkShape' /\ Busy' = Busy
<1>1. work'[c].pc # "idle" /\ DOMAIN work'[c] = DOMAIN Idle
  BY DEF Moves
<1>2. DOMAIN work' = Callers /\ \A d \in Callers \ {c} : work'[d] = work[d]
  BY DEF Moves, WorkShape
<1>3. WorkShape'
  BY <1>1, <1>2 DEF WorkShape, Idle
<1>4. \A d \in Callers : work'[d].pc # "idle" <=> work[d].pc # "idle"
  BY <1>1, <1>2 DEF Moves, Busy, At
<1> QED
  BY <1>3, <1>4 DEF Busy, At

-----------------------------------------------------------------------------
(* The lock: one lemma for each way Busy changes.                          *)

\* The control of a goroutine outside Run, and right after tryLock.
LEMMA IdlePc == Idle.pc = "idle" /\ [Idle EXCEPT !.pc = "create"].pc = "create"
  BY DEF Idle

\* tryLock succeeds only when nobody is inside.
LEMMA TryLockEnters ==
    ASSUME LockInv, NEW c \in Callers, tryLock(c)
    PROVE  LockInv' /\ Busy = {} /\ Busy' = {c}
<1>1. Busy = {} /\ running'
  BY DEF LockInv, Alone, tryLock
<1>2. DOMAIN work' = Callers /\ work'[c] = [Idle EXCEPT !.pc = "create"]
  BY DEF LockInv, WorkShape, tryLock, Goto
<1>3. \A d \in Callers \ {c} : work'[d] = work[d]
  BY DEF LockInv, WorkShape, tryLock, Goto
<1>4. Busy' = {c}
  <2>1. work'[c].pc = "create"
    BY <1>2, IdlePc
  <2>2. \A d \in Callers \ {c} : work'[d].pc = "idle"
    BY <1>1, <1>3 DEF Busy, At
  <2> QED
    BY <2>1, <2>2 DEF Busy, At
<1>5. DOMAIN [Idle EXCEPT !.pc = "create"] = DOMAIN Idle
  OBVIOUS
<1>6. WorkShape'
  BY <1>2, <1>3, <1>5 DEF LockInv, WorkShape
<1> QED
  BY <1>1, <1>4, <1>6 DEF LockInv, Alone

\* The deferred unlock of the goroutine inside leaves Run empty.
LEMMA UnlockLeaves ==
    ASSUME LockInv, NEW c \in Callers, unlock(c)
    PROVE  LockInv' /\ Busy # {} /\ Busy' = {}
<1>1. c \in Busy /\ ~running'
  BY DEF unlock, At, Busy
<1>2. DOMAIN work' = Callers /\ work'[c] = Idle
  BY DEF LockInv, WorkShape, unlock, Goto
<1>3. \A d \in Callers \ {c} : work'[d] = work[d]
  BY DEF LockInv, WorkShape, unlock, Goto
<1>4. Busy' = {}
  BY <1>1, <1>2, <1>3, IdlePc DEF Busy, At, LockInv, Alone
<1>5. WorkShape'
  BY <1>2, <1>3 DEF LockInv, WorkShape
<1> QED
  BY <1>1, <1>4, <1>5 DEF LockInv, Alone

\* A restart empties Run and frees the lock.
LEMMA CrashLeaves ==
    ASSUME LockInv, Crash
    PROVE  LockInv' /\ Busy # {} /\ Busy' = {}
<1>1. Busy # {} /\ ~running'
  BY DEF LockInv, Alone, Crash
<1>2. DOMAIN work' = Callers /\ \A c \in Callers : work'[c] = Idle
  BY DEF Crash
<1>3. Busy' = {}
  BY <1>2, IdlePc DEF Busy, At
<1>4. WorkShape'
  BY <1>2 DEF WorkShape
<1> QED
  BY <1>1, <1>3, <1>4 DEF LockInv, Alone

\* Steps inside Run do not touch the lock.
LEMMA MovesKeepLock ==
    ASSUME LockInv, NEW c \in Callers, Moves(c)
    PROVE  LockInv' /\ Busy' = Busy
<1>1. WorkShape' /\ Busy' = Busy
  BY MovesKeepsInside DEF LockInv
<1>2. running' = running
  BY DEF Moves
<1> QED
  BY <1>1, <1>2 DEF LockInv, Alone

\* A step that leaves the runner alone: an import, or stuttering.
LEMMA OthersKeepLock ==
    ASSUME LockInv, UNCHANGED <<running, work>>
    PROVE  LockInv' /\ Busy' = Busy
  BY DEF LockInv, WorkShape, Alone, Busy, At

\* Importing a URL neither takes nor asks for the lock.
LEMMA ImportBeside ==
    ASSUME NEW i \in Importers, ImportUrl(i)
    PROVE  UNCHANGED <<running, work>>
  BY DEF ImportUrl, Paste, ImportLooks, ImportStores, ImportFails

\* Every step keeps the lock's invariant and is a step of the mutex or a stutter.
LEMMA LockNext ==
    ASSUME LockInv, [Next]_vars
    PROVE  LockInv' /\ [Mutex!Next]_Busy
<1>1. ASSUME NEW c \in Callers, tryLock(c) PROVE LockInv' /\ Mutex!Enter(c)
  BY <1>1, TryLockEnters DEF Mutex!Enter
<1>2. ASSUME NEW c \in Callers, unlock(c) PROVE LockInv' /\ Mutex!Leave
  BY <1>2, UnlockLeaves DEF Mutex!Leave
<1>3. ASSUME NEW c \in Callers, Proceed(c) \/ Fail(c), ~unlock(c)
      PROVE  LockInv' /\ Busy' = Busy
  BY <1>3, ProceedMoves, FailMoves, MovesKeepLock DEF LockInv
<1>4. ASSUME NEW i \in Importers, ImportUrl(i) PROVE LockInv' /\ Busy' = Busy
  BY <1>4, ImportBeside, OthersKeepLock
<1>5. CASE Crash
  BY <1>5, CrashLeaves DEF Mutex!Leave, Mutex!Next
<1>6. CASE UNCHANGED vars
  BY <1>6, OthersKeepLock DEF vars
<1> QED
  BY <1>1, <1>2, <1>3, <1>4, <1>5, <1>6 DEF Next, Mutex!Next

\* At the start Run is empty and the lock is free.
LEMMA LockInit == Init => LockInv /\ Mutex!Init
<1> SUFFICES ASSUME Init PROVE LockInv /\ Mutex!Init
  OBVIOUS
<1>1. DOMAIN work = Callers /\ \A c \in Callers : work[c] = Idle
  BY DEF Init
<1>2. Busy = {} /\ ~running
  BY <1>1, IdlePc DEF Init, Busy, At
<1> QED
  BY <1>1, <1>2 DEF LockInv, WorkShape, Alone, Mutex!Init

\* Between tryLock and the deferred unlock a crawl is alone, for any number of
\* triggers and whatever fails, is cancelled or restarts the process: Runner.Run
\* implements the crawl mutex.
THEOREM MutexImplemented == Spec => AtMostOneCrawl
<1> QED
  BY LockInit, LockNext, PTL DEF Spec, AtMostOneCrawl, Mutex!Spec

-----------------------------------------------------------------------------
(* The jobs table: the look-then-insert of UpsertJob under the lock.       *)

Looking(l) == l.pc = "find_name" \/ l.pc = "insert"

\* A step of c after which no lookup of c is pending.
Rests(c) ==
    /\ DOMAIN work' = Callers /\ ~Looking(work'[c])
    /\ \A d \in Callers \ {c} : work'[d] = work[d]

\* How a step that assigns the record l to c is seen to end its lookup.
LEMMA GotoRests ==
    ASSUME WorkShape, NEW c \in Callers, NEW l, Goto(c, l), ~Looking(l)
    PROVE  Rests(c)
  BY DEF WorkShape, Goto, Rests

\* Only the two lookups leave the crawl with something it has looked up.
LEMMA ProceedRests ==
    ASSUME WorkShape, NEW c \in Callers, Proceed(c), ~FindByUrl(c), ~FindByName(c)
    PROVE  Rests(c)
<1>0. DOMAIN work[c] = DOMAIN Idle
  BY DEF WorkShape
<1>1. CASE CreateRun(c)
  BY <1>0, <1>1, IdleFields, GotoRests DEF CreateRun, Looking
<1>2. CASE LoadPreferences(c)
  BY <1>0, <1>2, IdleFields, GotoRests DEF LoadPreferences, Looking
<1>3. CASE Collect(c)
  BY <1>0, <1>3, IdleFields, GotoRests DEF Collect, Looking
<1>4. CASE TakePosting(c)
  BY <1>0, <1>4, IdleFields, GotoRests DEF TakePosting, Looking, At
<1>5. CASE StorePosting(c)
  BY <1>0, <1>5, IdleFields, GotoRests DEF StorePosting, Created, PostingDone, Looking
<1>6. CASE CloseCollector(c)
  BY <1>0, <1>6, IdleFields, GotoRests DEF CloseCollector, Looking
<1>7. CASE CreateRunSourceResult(c)
  BY <1>0, <1>7, IdleFields, GotoRests DEF CreateRunSourceResult, Looking
<1>8. CASE UpdateSourceHealth(c)
  BY <1>0, <1>8, IdleFields, GotoRests DEF UpdateSourceHealth, Looking
<1>9. CASE NextCollector(c)
  BY <1>0, <1>9, IdleFields, GotoRests DEF NextCollector, Looking
<1>10. CASE FinishRun(c)
  BY <1>0, <1>10, IdleFields, GotoRests DEF FinishRun, Looking
<1>11. CASE unlock(c)
  BY <1>11, IdlePc, GotoRests DEF unlock, Looking
<1> QED
  BY <1>1, <1>2, <1>3, <1>4, <1>5, <1>6, <1>7, <1>8, <1>9, <1>10, <1>11 DEF Proceed

\* No error path goes on with a lookup it has made.
LEMMA FailRests ==
    ASSUME WorkShape, NEW c \in Callers, Fail(c)
    PROVE  Rests(c)
<1>0. DOMAIN work[c] = DOMAIN Idle
  BY DEF WorkShape
<1>1. CASE StartFails(c)
  BY <1>0, <1>1, IdleFields, GotoRests DEF StartFails, Looking
<1>2. CASE CollectFails(c)
  BY <1>0, <1>2, IdleFields, GotoRests DEF CollectFails, Looking, At
<1>3. CASE UpsertFails(c)
  BY <1>0, <1>3, IdleFields, GotoRests DEF UpsertFails, NotStored, PostingDone, Looking
<1>4. CASE ResultFails(c)
  BY <1>0, <1>4, IdleFields, GotoRests DEF ResultFails, Looking
<1>5. CASE HealthFails(c)
  BY <1>0, <1>5, IdleFields, GotoRests DEF HealthFails, Looking
<1>6. CASE FinishFails(c)
  BY <1>0, <1>6, IdleFields, GotoRests DEF FinishFails, Looking
<1> QED
  BY <1>1, <1>2, <1>3, <1>4, <1>5, <1>6 DEF Fail

\* Lookups stay true while the table does not change.
LEMMA LookedStays ==
    ASSUME UNCHANGED jobs, \A c \in Callers : Looked(c),
           NEW d \in Callers, ~Looking(work'[d]) \/ work'[d] = work[d]
    PROVE  Looked(d)'
  BY DEF Looked, Looking, At, CrawledUrl, CrawledName, Crawled

\* The row a crawl inserts has neither the URL nor the name of a row of crawls.
LEMMA InsertKeeps ==
    ASSUME StoreInv, NEW c \in Callers, At(c, "insert"), NEW r,
           InsertJob(Head(work[c].todo), r)
    PROVE  CrawledOnce' /\ (jobs \in Seq(Range(jobs)))'
<1> DEFINE p == Head(work[c].todo)
           e == [url |-> p.url, name |-> p.name, run |-> r]
           S == Range(jobs) \cup {e}
<1>1. ~CrawledUrl(p.url) /\ ~CrawledName(p.name)
  BY DEF StoreInv, Looked
<1>2. e.url = p.url /\ e.name = p.name
  OBVIOUS
<1>3. jobs' = Append(jobs, e)
  BY DEF InsertJob
<1> HIDE DEF e, p
<1>4. jobs \in Seq(S)
  BY SeqMonotonic DEF StoreInv
<1>5. /\ DOMAIN jobs = 1..Len(jobs) /\ Len(jobs) \in Nat
      /\ DOMAIN jobs' = 1..(Len(jobs) + 1)
      /\ \A i \in 1..Len(jobs) : jobs'[i] = jobs[i]
      /\ jobs'[Len(jobs) + 1] = e
  BY <1>3, <1>4, AppendProperties
<1>6. CrawledOnce'
  BY <1>1, <1>2, <1>5 DEF StoreInv, CrawledOnce, Crawled, CrawledUrl, CrawledName
<1>7. jobs' \in Seq(Range(jobs'))
  BY <1>3, <1>4, <1>5, AppendProperties DEF Range
<1> QED
  BY <1>6, <1>7

\* A step after which nobody is in the middle of a lookup, with or without an
\* insert by the goroutine that has looked.
LEMMA RestsKeepsStore ==
    ASSUME StoreInv, LockInv', NEW c \in Callers, Rests(c),
           \/ UNCHANGED jobs
           \/ At(c, "insert") /\ InsertJob(Head(work[c].todo), work[c].run)
    PROVE  StoreInv'
<1>1. CrawledOnce' /\ (jobs \in Seq(Range(jobs)))'
  <2>1. CASE UNCHANGED jobs
    BY <2>1 DEF StoreInv, CrawledOnce, Crawled
  <2>2. CASE At(c, "insert") /\ InsertJob(Head(work[c].todo), work[c].run)
    BY <2>2, InsertKeeps
  <2> QED
    BY <2>1, <2>2
<1>2. ASSUME NEW d \in Callers PROVE Looked(d)'
  <2>1. CASE UNCHANGED jobs
    BY <2>1, LookedStays DEF StoreInv, Rests
  <2>2. CASE At(c, "insert")
    <3>1. ~Looking(work'[d])
      BY <2>2 DEF StoreInv, LockInv, Alone, Busy, At, Rests, Looking
    <3> QED
      BY <3>1 DEF Looked, Looking, At
  <2> QED
    BY <2>1, <2>2
<1> QED
  BY <1>1, <1>2 DEF StoreInv

\* The lookup by URL leaves either nothing pending or a URL that is not there.
LEMMA FindByUrlKeepsStore ==
    ASSUME StoreInv, LockInv', NEW c \in Callers, FindByUrl(c)
    PROVE  StoreInv'
<1> DEFINE m == [work[c] EXCEPT !.pc = "find_name"]
<1>0. DOMAIN work[c] = DOMAIN Idle /\ WorkShape /\ UNCHANGED jobs
  BY DEF StoreInv, LockInv, WorkShape, FindByUrl, tables
<1>1. CASE HasUrl(Head(work[c].todo).url)
  <2>1. Rests(c)
    BY <1>0, <1>1, IdleFields, GotoRests DEF FindByUrl, Duplicated, PostingDone, Looking
  <2> QED
    BY <1>0, <2>1, RestsKeepsStore
<1>2. CASE ~HasUrl(Head(work[c].todo).url)
  <2>1. m.pc = "find_name" /\ m.todo = work[c].todo
    BY <1>0, IdleFields
  <2>2. Goto(c, m)
    BY <1>2 DEF FindByUrl
  <2> HIDE DEF m
  <2>3. work'[c] = m /\ \A d \in Callers \ {c} : work'[d] = work[d]
    BY <1>0, <2>2 DEF Goto, WorkShape
  <2>4. Looked(c)'
    BY <1>0, <1>2, <2>1, <2>3 DEF Looked, At, HasUrl, CrawledUrl, Crawled
  <2>5. \A d \in Callers \ {c} : Looked(d)'
    BY <1>0, <2>3, LookedStays DEF StoreInv
  <2> QED
    BY <1>0, <2>4, <2>5 DEF StoreInv, CrawledOnce, Crawled
<1> QED
  BY <1>1, <1>2

\* The lookup by name adds a name that is not there to the URL.
LEMMA FindByNameKeepsStore ==
    ASSUME StoreInv, LockInv', NEW c \in Callers, FindByName(c)
    PROVE  StoreInv'
<1> DEFINE m == [work[c] EXCEPT !.pc = "insert"]
<1>0. DOMAIN work[c] = DOMAIN Idle /\ WorkShape /\ UNCHANGED jobs
  BY DEF StoreInv, LockInv, WorkShape, FindByName, tables
<1>1. CASE HasName(Head(work[c].todo).name)
  <2>1. Rests(c)
    BY <1>0, <1>1, IdleFields, GotoRests DEF FindByName, Duplicated, PostingDone, Looking
  <2> QED
    BY <1>0, <2>1, RestsKeepsStore
<1>2. CASE ~HasName(Head(work[c].todo).name)
  <2>1. m.pc = "insert" /\ m.todo = work[c].todo
    BY <1>0, IdleFields
  <2>2. Goto(c, m)
    BY <1>2 DEF FindByName
  <2> HIDE DEF m
  <2>3. work'[c] = m /\ \A d \in Callers \ {c} : work'[d] = work[d]
    BY <1>0, <2>2 DEF Goto, WorkShape
  <2>4. ~CrawledUrl(Head(work[c].todo).url)
    BY DEF FindByName, StoreInv, Looked, At
  <2>5. Looked(c)'
    BY <1>0, <1>2, <2>1, <2>3, <2>4
       DEF Looked, At, HasName, CrawledUrl, CrawledName, Crawled
  <2>6. \A d \in Callers \ {c} : Looked(d)'
    BY <1>0, <2>3, LookedStays DEF StoreInv
  <2> QED
    BY <1>0, <2>5, <2>6 DEF StoreInv, CrawledOnce, Crawled
<1> QED
  BY <1>1, <1>2

\* Within Run, only the upsert inserts, and the row it has looked up.
LEMMA ProceedJobs ==
    ASSUME NEW c \in Callers, Proceed(c) \/ Fail(c)
    PROVE  \/ UNCHANGED jobs
           \/ At(c, "insert") /\ InsertJob(Head(work[c].todo), work[c].run)
<1>1. CASE StorePosting(c)
  BY <1>1 DEF StorePosting
<1>2. CASE UpsertFails(c)
  BY <1>2 DEF UpsertFails
<1>3. CASE Proceed(c) /\ ~StorePosting(c)
  BY <1>3 DEF Proceed, tables, CreateRun, LoadPreferences, Collect, TakePosting, FindByUrl,
     FindByName, CloseCollector, CreateRunSourceResult, UpdateSourceHealth, NextCollector,
     FinishRun, unlock
<1>4. CASE Fail(c) /\ ~UpsertFails(c)
  BY <1>4 DEF Fail, tables, StartFails, CollectFails, ResultFails, HealthFails, FinishFails
<1> QED
  BY <1>1, <1>2, <1>3, <1>4

\* The rows an import inserts are not rows of crawls.
LEMMA ImportKeepsStore ==
    ASSUME StoreInv, LockInv', NEW i \in Importers, ImportUrl(i)
    PROVE  StoreInv'
<1>1. work' = work
  BY DEF ImportUrl, Paste, ImportLooks, ImportStores, ImportFails
<1>2. \/ UNCHANGED jobs
      \/ InsertJob(imports[i].posting, NoRun)
  BY DEF ImportUrl, Paste, ImportLooks, ImportStores, ImportFails, tables
<1>3. CASE UNCHANGED jobs
  <2>1. \A c \in Callers : Looked(c)'
    BY <1>1, <1>3, LookedStays DEF StoreInv
  <2> QED
    BY <1>3, <2>1 DEF StoreInv, CrawledOnce, Crawled
<1>4. CASE InsertJob(imports[i].posting, NoRun)
  <2>1. PICK e : e.run = NoRun /\ jobs' = Append(jobs, e)
    BY <1>4 DEF InsertJob
  <2> DEFINE S == Range(jobs) \cup {e}
  <2>2. jobs \in Seq(S)
    BY SeqMonotonic DEF StoreInv
  <2>3. /\ DOMAIN jobs = 1..Len(jobs) /\ Len(jobs) \in Nat
        /\ DOMAIN jobs' = 1..(Len(jobs) + 1)
        /\ \A k \in 1..Len(jobs) : jobs'[k] = jobs[k]
        /\ jobs'[Len(jobs) + 1] = e
    BY <2>1, <2>2, AppendProperties
  <2>4. Crawled' = Crawled /\ \A k \in Crawled : jobs'[k] = jobs[k]
    BY <2>1, <2>3 DEF Crawled
  <2>5. CrawledOnce'
    BY <2>4 DEF StoreInv, CrawledOnce
  <2>6. jobs' \in Seq(Range(jobs'))
    BY <2>1, <2>2, <2>3, AppendProperties DEF Range
  <2>7. \A c \in Callers : Looked(c)'
    BY <1>1, <2>4 DEF StoreInv, Looked, At, CrawledUrl, CrawledName
  <2> QED
    BY <2>5, <2>6, <2>7 DEF StoreInv
<1> QED
  BY <1>2, <1>3, <1>4

\* Every step keeps the rows of crawls without duplicates.
LEMMA StoreNext ==
    ASSUME StoreInv, [Next]_vars
    PROVE  StoreInv'
<1>0. LockInv /\ LockInv' /\ WorkShape
  BY LockNext DEF StoreInv, LockInv
<1>1. ASSUME NEW c \in Callers, Proceed(c) \/ Fail(c) PROVE StoreInv'
  <2>1. CASE FindByUrl(c)
    BY <1>0, <2>1, FindByUrlKeepsStore
  <2>2. CASE FindByName(c)
    BY <1>0, <2>2, FindByNameKeepsStore
  <2>3. CASE ~FindByUrl(c) /\ ~FindByName(c)
    BY <1>0, <1>1, <2>3, ProceedRests, FailRests, ProceedJobs, RestsKeepsStore
  <2> QED
    BY <2>1, <2>2, <2>3
<1>2. ASSUME NEW c \in Callers, tryLock(c) PROVE StoreInv'
  <2>1. Rests(c)
    BY <1>0, <1>2, IdlePc, GotoRests DEF tryLock, Looking
  <2> QED
    BY <1>0, <1>2, <2>1, RestsKeepsStore DEF tryLock, tables
<1>3. CASE Crash
  <2>1. \A c \in Callers : Looked(c)'
    BY <1>3, IdlePc DEF Crash, Looked, At
  <2> QED
    BY <1>0, <1>3, <2>1 DEF Crash, tables, StoreInv, CrawledOnce, Crawled
<1>4. CASE UNCHANGED vars
  <2>1. \A c \in Callers : Looked(c)'
    BY <1>4, LookedStays DEF vars, tables, StoreInv
  <2> QED
    BY <1>0, <1>4, <2>1 DEF vars, tables, StoreInv, CrawledOnce, Crawled
<1>5. ASSUME NEW i \in Importers, ImportUrl(i) PROVE StoreInv'
  BY <1>0, <1>5, ImportKeepsStore
<1> QED
  BY <1>1, <1>2, <1>3, <1>4, <1>5 DEF Next

\* The empty jobs table has no duplicates.
LEMMA StoreInit == Init => StoreInv
<1> SUFFICES ASSUME Init PROVE StoreInv
  OBVIOUS
<1>1. jobs \in Seq(Range(jobs)) /\ CrawledOnce
  BY DEF Init, CrawledOnce, Crawled
<1>2. \A c \in Callers : Looked(c)
  BY IdlePc DEF Init, Looked, At
<1> QED
  BY <1>1, <1>2, LockInit DEF StoreInv

\* Crawls store no posting twice among them, for any number of triggers, sources
\* and importers beside them and whatever fails, is cancelled or is restarted: the
\* lock protects the look-then-insert of UpsertJob, and what an import inserts
\* inside it can only repeat a posting that was pasted.
THEOREM CrawlsStoreOnce == Spec => []CrawledOnce
<1>1. StoreInv /\ [Next]_vars => StoreInv'
  BY StoreNext
<1>2. StoreInv => CrawledOnce
  BY DEF StoreInv
<1> QED
  BY <1>1, <1>2, StoreInit, PTL DEF Spec
-----------------------------------------------------------------------------
(* Induction along an initial segment of the naturals, with the set of the *)
(* numbers a statement holds for in the place of the statement.             *)

LEMMA UpTo ==
    ASSUME NEW n \in Nat, NEW T, 0 \in T, \A m \in 0..n : m \in T /\ m < n => m + 1 \in T
    PROVE  \A m \in 0..n : m \in T
<1> DEFINE D == {m \in 0..n : m \notin T}
<1> SUFFICES ASSUME D # {} PROVE FALSE
  OBVIOUS
<1>1. PICK x \in D : \A y \in D : <<y, x>> \notin OpToRel(<, Nat)
  <2>1. D \subseteq Nat
    OBVIOUS
  <2> HIDE DEF D
  <2> QED
    BY <2>1, NatLessThanWellFounded, WFMin
<1>2. x \in 0..n /\ x # 0 /\ x - 1 \in 0..n /\ x - 1 < n /\ (x - 1) + 1 = x
  OBVIOUS
<1>3. <<x - 1, x>> \in OpToRel(<, Nat)
  BY <1>2 DEF OpToRel
<1> QED
  BY <1>1, <1>2, <1>3

\* g lists the values a passes through in n steps.
Iterated(g, D, a, n, next) ==
    g \in [0..n -> D] /\ g[0] = a /\ \A i \in 1..n : g[i] = next[i][g[i - 1]]

\* Every value can be iterated.
LEMMA Iterates ==
    ASSUME NEW D, NEW a, NEW n, NEW next, a \in D, n \in Nat, next \in [1..n -> [D -> D]]
    PROVE  \E g : Iterated(g, D, a, n, next)
<1> DEFINE Follows(g, m) == g[0] = a /\ \A i \in 1..m : g[i] = next[i][g[i - 1]]
           T == {m \in 0..n : \E g \in [0..m -> D] : Follows(g, m)}
<1>1. 0 \in T
  <2> DEFINE g == [i \in 0..0 |-> a]
  <2>1. g \in [0..0 -> D] /\ g[0] = a /\ 0 \in 0..n
    OBVIOUS
  <2>2. 1..0 = {}
    OBVIOUS
  <2> HIDE DEF g
  <2>3. Follows(g, 0)
    BY <2>1, <2>2
  <2> QED
    BY <2>1, <2>3
<1>2. ASSUME NEW m \in 0..n, m \in T, m < n PROVE m + 1 \in T
  <2>1. PICK g \in [0..m -> D] : Follows(g, m)
    BY <1>2
  <2> DEFINE h == [i \in 0..(m + 1) |-> IF i = m + 1 THEN next[m + 1][g[m]] ELSE g[i]]
  <2>2. next[m + 1][g[m]] \in D
    BY <1>2
  <2>3. h \in [0..(m + 1) -> D]
    BY <2>2
  <2>4. h[0] = a /\ h[m + 1] = next[m + 1][h[m]]
    <3>1. 0 # m + 1 /\ m # m + 1 /\ 0 \in 0..(m + 1) /\ m \in 0..(m + 1) /\ m + 1 \in 0..(m + 1)
      OBVIOUS
    <3> QED
      BY <2>1, <3>1
  <2>5. ASSUME NEW i \in 1..m PROVE h[i] = next[i][h[i - 1]]
    BY <2>1
  <2>6. \A i \in 1..(m + 1) : i \in 1..m \/ (i = m + 1 /\ i - 1 = m)
    OBVIOUS
  <2> HIDE DEF h
  <2>7. Follows(h, m + 1)
    BY <2>4, <2>5, <2>6
  <2>8. m + 1 \in 0..n
    BY <1>2
  <2> QED
    BY <2>3, <2>7, <2>8
<1>3. n \in T
  <2>1. \A m \in 0..n : m \in T /\ m < n => m + 1 \in T
    BY <1>2
  <2> HIDE DEF T
  <2>2. \A m \in 0..n : m \in T
    BY <1>1, <2>1, UpTo
  <2> QED
    BY <2>2
<1> QED
  BY <1>3 DEF Iterated

-----------------------------------------------------------------------------
(* Collected: what the sources yield, once for every page.                  *)

\* appendUniqueJob returns postings: those it had, and one of the key asked for.
LEMMA AppendUniqueJob ==
    ASSUME NEW postings \in Seq(Posting), NEW p \in Posting
    PROVE  /\ appendUniqueJob(postings, p) \in Seq(Posting)
           /\ Range(postings) \subseteq Range(appendUniqueJob(postings, p))
           /\ Range(appendUniqueJob(postings, p)) \subseteq Range(postings) \cup {p}
           /\ \E q \in Range(appendUniqueJob(postings, p)) : UniqueKey(q) = UniqueKey(p)
<1>1. CASE \E i \in DOMAIN postings : UniqueKey(postings[i]) = UniqueKey(p)
  BY <1>1 DEF appendUniqueJob, Range
<1>2. CASE ~\E i \in DOMAIN postings : UniqueKey(postings[i]) = UniqueKey(p)
  <2> DEFINE more == Append(postings, p)
  <2>1. appendUniqueJob(postings, p) = more
    BY <1>2 DEF appendUniqueJob
  <2>2. /\ more \in Seq(Posting) /\ DOMAIN postings = 1..Len(postings)
        /\ DOMAIN more = 1..(Len(postings) + 1) /\ Len(postings) \in Nat
        /\ \A i \in 1..Len(postings) : more[i] = postings[i]
        /\ more[Len(postings) + 1] = p
    BY AppendProperties
  <2> HIDE DEF more
  <2> QED
    BY <2>1, <2>2 DEF Range
<1> QED
  BY <1>1, <1>2

\* The same for a sequence of them.
LEMMA AppendUniqueAll ==
    ASSUME NEW postings \in Seq(Posting), NEW more \in Seq(Posting)
    PROVE  /\ AppendUnique(postings, more) \in Seq(Posting)
           /\ Range(postings) \subseteq Range(AppendUnique(postings, more))
           /\ Range(AppendUnique(postings, more)) \subseteq Range(postings) \cup Range(more)
           /\ \A p \in Range(more) :
                \E q \in Range(AppendUnique(postings, more)) : UniqueKey(q) = UniqueKey(p)
<1> DEFINE upTo[n \in 0..Len(more)] ==
             IF n = 0 THEN postings ELSE appendUniqueJob(upTo[n - 1], more[n])
           next == [i \in 1..Len(more) |-> [x \in Seq(Posting) |-> appendUniqueJob(x, more[i])]]
<1>0. Len(more) \in Nat /\ DOMAIN more = 1..Len(more) /\ \A i \in 1..Len(more) : more[i] \in Posting
  BY LenProperties, ElementOfSeq
<1>1. next \in [1..Len(more) -> [Seq(Posting) -> Seq(Posting)]]
  BY <1>0, AppendUniqueJob
<1>2. PICK g \in [0..Len(more) -> Seq(Posting)] :
        g[0] = postings /\ \A i \in 1..Len(more) : g[i] = next[i][g[i - 1]]
  <2> HIDE DEF next, upTo
  <2>1. \E g : Iterated(g, Seq(Posting), postings, Len(more), next)
    BY <1>0, <1>1, Iterates
  <2> QED
    BY <2>1 DEF Iterated
<1>3. ASSUME NEW i \in 1..Len(more) PROVE g[i] = appendUniqueJob(g[i - 1], more[i])
  <2>1. i - 1 \in 0..Len(more)
    BY <1>0
  <2>2. g[i - 1] \in Seq(Posting)
    BY <2>1
  <2> QED
    BY <1>2, <2>2
<1>4. g = [n \in 0..Len(more) |-> IF n = 0 THEN postings ELSE appendUniqueJob(g[n - 1], more[n])]
  BY <1>0, <1>2, <1>3
<1>5. upTo = [n \in 0..Len(more) |->
                IF n = 0 THEN postings ELSE appendUniqueJob(upTo[n - 1], more[n])]
  <2> HIDE DEF next
  <2> QED
    BY <1>4
<1>6. AppendUnique(postings, more) = upTo[Len(more)]
  BY DEF AppendUnique
<1> HIDE DEF upTo, next
<1> DEFINE Covers(m) ==
             /\ upTo[m] \in Seq(Posting) /\ Range(postings) \subseteq Range(upTo[m])
             /\ Range(upTo[m]) \subseteq Range(postings) \cup Range(more)
             /\ \A i \in 1..m : \E q \in Range(upTo[m]) : UniqueKey(q) = UniqueKey(more[i])
           T == {m \in 0..Len(more) : Covers(m)}
<1>7. 0 \in T
  BY <1>0, <1>5
<1>8. ASSUME NEW m \in 0..Len(more), m \in T, m < Len(more) PROVE m + 1 \in T
  <2>1. m + 1 \in 0..Len(more) /\ m + 1 # 0 /\ (m + 1) - 1 = m /\ m + 1 \in 1..Len(more)
    BY <1>0, <1>8
  <2>2. upTo[m + 1] = appendUniqueJob(upTo[m], more[m + 1])
    BY <1>5, <2>1
  <2>3. Covers(m) /\ more[m + 1] \in Posting /\ more[m + 1] \in Range(more)
    BY <1>0, <1>8, <2>1 DEF Range
  <2>4. /\ upTo[m + 1] \in Seq(Posting)
        /\ Range(upTo[m]) \subseteq Range(upTo[m + 1])
        /\ Range(upTo[m + 1]) \subseteq Range(upTo[m]) \cup {more[m + 1]}
        /\ \E q \in Range(upTo[m + 1]) : UniqueKey(q) = UniqueKey(more[m + 1])
    <3>1. PICK kept, p : kept = upTo[m] /\ p = more[m + 1]
      OBVIOUS
    <3>2. kept \in Seq(Posting) /\ p \in Posting
      BY <2>3, <3>1
    <3>3. /\ appendUniqueJob(kept, p) \in Seq(Posting)
          /\ Range(kept) \subseteq Range(appendUniqueJob(kept, p))
          /\ Range(appendUniqueJob(kept, p)) \subseteq Range(kept) \cup {p}
          /\ \E q \in Range(appendUniqueJob(kept, p)) : UniqueKey(q) = UniqueKey(p)
      BY <3>2, AppendUniqueJob
    <3> HIDE DEF T, Covers
    <3> QED
      BY <2>2, <3>1, <3>3
  <2>5. ASSUME NEW i \in 1..(m + 1)
        PROVE  \E q \in Range(upTo[m + 1]) : UniqueKey(q) = UniqueKey(more[i])
    <3>1. i \in 1..m \/ i = m + 1
      OBVIOUS
    <3> QED
      BY <2>3, <2>4, <3>1
  <2>6. Covers(m + 1)
    BY <2>3, <2>4, <2>5
  <2> QED
    BY <2>1, <2>6
<1>9. Covers(Len(more))
  <2>1. \A m \in 0..Len(more) : m \in T /\ m < Len(more) => m + 1 \in T
    BY <1>8
  <2>2. Len(more) \in T
    <3> HIDE DEF T
    <3>1. \A m \in 0..Len(more) : m \in T
      BY <1>0, <1>7, <2>1, UpTo
    <3> QED
      BY <1>0, <3>1
  <2> QED
    BY <2>2
<1> QED
  BY <1>0, <1>6, <1>9 DEF Range

\* A collector's postings are postings of its sources, and none is left out
\* but for one of the same page.
LEMMA CollectedCovers ==
    ASSUME CrawlAssumption, NEW f \in [Range(Sources) -> Seq(Posting)]
    PROVE  /\ Collected(f) \in Seq(Posting)
           /\ \A q \in Range(Collected(f)) : \E s \in Range(Sources) : q \in Range(f[s])
           /\ \A s \in Range(Sources) : \A p \in Range(f[s]) :
                \E q \in Range(Collected(f)) : UniqueKey(q) = UniqueKey(p)
<1> DEFINE visited[n \in 0..Len(Sources)] ==
             IF n = 0 THEN <<>> ELSE AppendUnique(visited[n - 1], f[Sources[n]])
           next == [i \in 1..Len(Sources) |-> [x \in Seq(Posting) |-> AppendUnique(x, f[Sources[i]])]]
<1>0. /\ Len(Sources) \in Nat /\ DOMAIN Sources = 1..Len(Sources)
      /\ \A i \in 1..Len(Sources) : Sources[i] \in Range(Sources) /\ f[Sources[i]] \in Seq(Posting)
  <2>1. Len(Sources) \in Nat /\ DOMAIN Sources = 1..Len(Sources)
    BY LenProperties DEF CrawlAssumption
  <2> QED
    BY <2>1 DEF Range
<1>1. next \in [1..Len(Sources) -> [Seq(Posting) -> Seq(Posting)]]
  BY <1>0, AppendUniqueAll
<1>2. PICK g \in [0..Len(Sources) -> Seq(Posting)] :
        g[0] = <<>> /\ \A i \in 1..Len(Sources) : g[i] = next[i][g[i - 1]]
  <2>1. <<>> \in Seq(Posting)
    OBVIOUS
  <2> HIDE DEF next, visited
  <2>2. \E g : Iterated(g, Seq(Posting), <<>>, Len(Sources), next)
    BY <1>0, <1>1, <2>1, Iterates
  <2> QED
    BY <2>2 DEF Iterated
<1>3. ASSUME NEW i \in 1..Len(Sources) PROVE g[i] = AppendUnique(g[i - 1], f[Sources[i]])
  <2>1. i - 1 \in 0..Len(Sources)
    BY <1>0
  <2>2. g[i - 1] \in Seq(Posting)
    BY <2>1
  <2> QED
    BY <1>2, <2>2
<1>4. g = [n \in 0..Len(Sources) |-> IF n = 0 THEN <<>> ELSE AppendUnique(g[n - 1], f[Sources[n]])]
  BY <1>0, <1>2, <1>3
<1>5. visited = [n \in 0..Len(Sources) |->
                   IF n = 0 THEN <<>> ELSE AppendUnique(visited[n - 1], f[Sources[n]])]
  <2> HIDE DEF next
  <2> QED
    BY <1>4
<1>6. Collected(f) = visited[Len(Sources)]
  BY DEF Collected
<1> HIDE DEF visited, next
<1> DEFINE Covers(m) ==
             /\ visited[m] \in Seq(Posting)
             /\ \A q \in Range(visited[m]) : \E s \in Range(Sources) : q \in Range(f[s])
             /\ \A i \in 1..m : \A p \in Range(f[Sources[i]]) :
                  \E q \in Range(visited[m]) : UniqueKey(q) = UniqueKey(p)
           T == {m \in 0..Len(Sources) : Covers(m)}
<1>7. 0 \in T
  <2>1. visited[0] = <<>>
    BY <1>0, <1>5
  <2>2. Covers(0)
    BY <2>1 DEF Range
  <2> QED
    BY <1>0, <2>2
<1>8. ASSUME NEW m \in 0..Len(Sources), m \in T, m < Len(Sources) PROVE m + 1 \in T
  <2> DEFINE s == Sources[m + 1]
  <2>1. m + 1 \in 0..Len(Sources) /\ m + 1 # 0 /\ (m + 1) - 1 = m /\ m + 1 \in 1..Len(Sources)
    BY <1>0, <1>8
  <2>2. visited[m + 1] = AppendUnique(visited[m], f[s])
    BY <1>5, <2>1
  <2>3. Covers(m) /\ f[s] \in Seq(Posting) /\ s \in Range(Sources)
    BY <1>0, <1>8, <2>1
  <2>4. /\ visited[m + 1] \in Seq(Posting)
        /\ Range(visited[m]) \subseteq Range(visited[m + 1])
        /\ Range(visited[m + 1]) \subseteq Range(visited[m]) \cup Range(f[s])
        /\ \A p \in Range(f[s]) : \E q \in Range(visited[m + 1]) : UniqueKey(q) = UniqueKey(p)
    BY <2>2, <2>3, AppendUniqueAll
  <2>5. ASSUME NEW i \in 1..(m + 1), NEW p \in Range(f[Sources[i]])
        PROVE  \E q \in Range(visited[m + 1]) : UniqueKey(q) = UniqueKey(p)
    <3>1. i \in 1..m \/ i = m + 1
      OBVIOUS
    <3> QED
      BY <2>3, <2>4, <3>1
  <2>6. \A q \in Range(visited[m + 1]) : \E t \in Range(Sources) : q \in Range(f[t])
    BY <2>3, <2>4
  <2>7. Covers(m + 1)
    BY <2>4, <2>5, <2>6
  <2> QED
    BY <2>1, <2>7
<1>9. Covers(Len(Sources))
  <2>1. \A m \in 0..Len(Sources) : m \in T /\ m < Len(Sources) => m + 1 \in T
    BY <1>8
  <2>2. Len(Sources) \in T
    <3> HIDE DEF T
    <3>1. \A m \in 0..Len(Sources) : m \in T
      BY <1>0, <1>7, <2>1, UpTo
    <3> QED
      BY <1>0, <3>1
  <2> QED
    BY <2>2
<1>10. ASSUME NEW s \in Range(Sources), NEW p \in Range(f[s])
       PROVE  \E q \in Range(visited[Len(Sources)]) : UniqueKey(q) = UniqueKey(p)
  <2>1. PICK i \in 1..Len(Sources) : s = Sources[i]
    BY <1>0 DEF Range
  <2> QED
    BY <1>9, <2>1
<1>11. visited[Len(Sources)] \in Seq(Posting)
       /\ \A q \in Range(visited[Len(Sources)]) : \E s \in Range(Sources) : q \in Range(f[s])
  BY <1>9
<1> HIDE DEF Covers
<1> QED
  BY <1>6, <1>10, <1>11

-----------------------------------------------------------------------------
(* The types, the control of a crawl and the row it owns.                  *)

Upserting == {"find_url", "find_name", "insert"}
Handling == {"posting"} \cup Upserting
Storing == {"results", "health"}
\* From the inserted run row to the stored outcome.
Crawling == {"load", "collect"} \cup Handling \cup Storing

\* What the program counter says of the other fields.
Control(l) ==
    /\ l.pc \in {"idle", "create", "load"} =>
        /\ l.next = 1 /\ l.stats = NoStats /\ l.summary = ZeroSummary
        /\ l.flush = {} /\ l.errors = FALSE
    /\ l.pc \in Crawling => l.run \in RunIds
    /\ l.pc \in Handling \cup Storing => l.next <= Len(Collectors)
    /\ l.pc \in Upserting => l.todo # <<>>
    /\ l.pc \in {"collect"} \cup Storing \/ l.next = 1 => l.todo = <<>>
    /\ l.pc \in {"load", "collect"} => l.flush = {}
    /\ l.pc = "health" => l.key \in StatKeys

ImportControl(i) == i.pc # "idle" => i.posting \in Imports

\* The row of a crawl is the newest, and says that the crawl runs.
OwnsRun(l) == l.pc \in Crawling => LastRun(l.run) /\ runs[l.run].status = "running"

\* Run rows are created in their order.
InOrder ==
    \A r, s \in RunIds : r < s /\ runs[s].status # "absent" => runs[r].status # "absent"

TablesTyped ==
    /\ running \in BOOLEAN
    /\ jobs \in Seq(Job)
    /\ runs \in [RunIds -> Run]
    /\ results \in [RunIds -> [StatKeys -> Stat]]
    /\ health \in [Range(Sources) -> Health]
    /\ fetched \in [RunIds -> [Range(Sources) -> Seq(Posting)]]

CrawlTyped ==
    /\ TypeOK /\ LockInv /\ InOrder
    /\ \A c \in Callers : Control(work[c]) /\ OwnsRun(work[c])
    /\ \A i \in Importers : ImportControl(imports[i])

\* Where the collectors are.
LEMMA CollectorFacts ==
    /\ Len(Collectors) = 2 /\ Collectors[1] = "seed" /\ Collectors[2] = "db_sources"
    /\ "seed" \in StatKeys /\ "db_sources" \in StatKeys /\ Origins \subseteq StatKeys
<1>1. Len(Collectors) = 2 /\ Collectors[1] = "seed" /\ Collectors[2] = "db_sources"
  BY DEF Collectors
<1>2. DOMAIN Collectors = 1..2
  BY DEF Collectors
<1> QED
  BY <1>1, <1>2 DEF StatKeys, Range

\* The record outside Run.
LEMMA IdleTyped ==
    /\ Idle \in Work /\ [Idle EXCEPT !.pc = "create"] \in Work
    /\ Control(Idle) /\ Control([Idle EXCEPT !.pc = "create"])
    /\ NoStats \in [StatKeys -> Stat] /\ ZeroSummary \in Summary
<1>1. NoStats \in [StatKeys -> Stat] /\ ZeroSummary \in Summary
  BY DEF NoStats, NoStat, Stat, ZeroSummary, Summary
<1>2. /\ Idle.pc = "idle" /\ Idle.run = NoRun /\ Idle.next = 1 /\ Idle.todo = <<>>
      /\ Idle.stats = NoStats /\ Idle.flush = {} /\ Idle.key = "none"
      /\ Idle.summary = ZeroSummary /\ Idle.errors = FALSE
  BY DEF Idle
<1>3. Idle \in Work
  <2>1. <<>> \in Seq(Posting) /\ 1 \in 1..(Len(Collectors) + 1)
    BY CollectorFacts
  <2> QED
    BY <1>1, <2>1 DEF Idle, Work, NoRun
<1>4. PICK m : m = [Idle EXCEPT !.pc = "create"]
  OBVIOUS
<1>5. /\ m \in Work /\ m.pc = "create" /\ m.next = 1 /\ m.todo = <<>>
      /\ m.stats = NoStats /\ m.flush = {} /\ m.summary = ZeroSummary /\ m.errors = FALSE
  BY <1>2, <1>3, <1>4 DEF Work
<1>6. Control(Idle) /\ Control(m)
  BY <1>2, <1>5 DEF Control, Crawling, Handling, Upserting, Storing
<1> QED
  BY <1>1, <1>3, <1>4, <1>5, <1>6

\* What a source may return are postings.
LEMMA OutcomesTyped ==
    ASSUME NEW s \in Range(Sources)
    PROVE  Outcomes(s) \subseteq Seq(Posting)
<1>1. s \in Origins /\ PageOf[s] \in Urls /\ s \in Names
  BY CrawlAssumption, ElementOfSeq DEF CrawlAssumption, Range
<1>2. failedSourceJob(s) \in Posting
  BY <1>1 DEF failedSourceJob, Posting
<1>3. <<failedSourceJob(s)>> \in Seq(Posting)
  BY <1>2
<1>4. Yields[s] \subseteq Seq(Posting)
  BY CrawlAssumption DEF CrawlAssumption
<1> QED
  BY <1>3, <1>4 DEF Outcomes

\* The counted stat is a stat.
LEMMA CountFoundTyped ==
    ASSUME NEW stat \in Stat, NEW p \in Posting
    PROVE  CountFound(stat, p) \in Stat
<1>1. PICK x : x = (IF p.diagnostic THEN "failed"
                    ELSE IF stat.status = "absent" THEN "success" ELSE stat.status)
  OBVIOUS
<1>2. x \in {"absent", "success", "failed", "partial_success"}
  BY <1>1 DEF Stat
<1>3. PICK n \in Nat : n = stat.found + 1
  BY DEF Stat
<1>4. CountFound(stat, p) = [stat EXCEPT !.found = n, !.status = x]
  BY <1>1, <1>3 DEF CountFound
<1>5. \A y \in {"absent", "success", "failed", "partial_success"} :
        [stat EXCEPT !.found = n, !.status = y] \in Stat
  BY <1>3 DEF Stat
<1> QED
  BY <1>2, <1>4, <1>5

\* So is one with a counter raised or another verdict.
LEMMA StatTyped ==
    ASSUME NEW stat \in Stat
    PROVE  /\ stat.found \in Nat /\ stat.created \in Nat /\ stat.dup \in Nat
           /\ stat.filtered \in Nat
           /\ [stat EXCEPT !.created = @ + 1] \in Stat /\ [stat EXCEPT !.dup = @ + 1] \in Stat
           /\ [stat EXCEPT !.filtered = @ + 1] \in Stat
           /\ [stat EXCEPT !.status = "partial_success"] \in Stat
           /\ [stat EXCEPT !.status = "success"] \in Stat
           /\ [stat EXCEPT !.status = "failed"] \in Stat
           /\ \A n \in Nat : [stat EXCEPT !.manual = n] \in Stat
  BY DEF Stat

\* The counters of a run.
LEMMA SummaryTyped ==
    ASSUME NEW x \in Summary
    PROVE  /\ x.success \in Nat /\ x.failed \in Nat /\ x.found \in Nat /\ x.created \in Nat
           /\ x.dup \in Nat /\ x.manual \in Nat
           /\ \A n \in Nat : [x EXCEPT !.created = n] \in Summary /\ [x EXCEPT !.dup = n] \in Summary
           /\ \A n \in Nat : [x EXCEPT !.failed = n] \in Summary /\ [x EXCEPT !.manual = n] \in Summary
           /\ \A m, n \in Nat : [x EXCEPT !.success = m, !.found = n] \in Summary
<1>1. \A n \in Nat : [x EXCEPT !.created = n] \in Summary /\ [x EXCEPT !.dup = n] \in Summary
  BY DEF Summary
<1>2. \A n \in Nat : [x EXCEPT !.failed = n] \in Summary /\ [x EXCEPT !.manual = n] \in Summary
  BY DEF Summary
<1>3. \A m, n \in Nat : [x EXCEPT !.success = m, !.found = n] \in Summary
  BY DEF Summary
<1> QED
  BY <1>1, <1>2, <1>3 DEF Summary

\* The head and the rest of postings still to be handled.
LEMMA TodoParts ==
    ASSUME NEW todo \in Seq(Posting), todo # <<>>
    PROVE  /\ Head(todo) \in Posting /\ Tail(todo) \in Seq(Posting)
           /\ Len(Tail(todo)) = Len(todo) - 1 /\ Len(todo) \in Nat /\ Len(todo) > 0
           /\ Head(todo).from \in StatKeys /\ Head(todo).filtered \in BOOLEAN
           /\ \A q \in Range(todo) : q = Head(todo) \/ q \in Range(Tail(todo))
<1>1. Head(todo) \in Posting /\ Tail(todo) \in Seq(Posting) /\ Len(Tail(todo)) = Len(todo) - 1
      /\ Len(todo) \in Nat /\ Len(todo) > 0
  <2>1. Head(todo) \in Posting /\ Tail(todo) \in Seq(Posting) /\ Len(Tail(todo)) = Len(todo) - 1
    BY HeadTailProperties
  <2>2. Len(todo) \in Nat /\ Len(todo) # 0
    BY LenProperties, EmptySeq
  <2> QED
    BY <2>1, <2>2
<1>2. Head(todo).from \in StatKeys /\ Head(todo).filtered \in BOOLEAN
  BY <1>1, CollectorFacts DEF Posting
<1>3. ASSUME NEW q \in Range(todo) PROVE q = Head(todo) \/ q \in Range(Tail(todo))
  <2>1. PICK i \in 1..Len(todo) : q = todo[i]
    BY LenProperties DEF Range
  <2>2. CASE i = 1
    BY <2>1, <2>2
  <2>3. CASE i # 1
    <3>1. i - 1 \in 1..Len(Tail(todo)) /\ (i - 1) + 1 = i
      BY <1>1, <2>3
    <3>2. Tail(todo)[i - 1] = todo[i] /\ DOMAIN Tail(todo) = 1..Len(Tail(todo))
      BY <1>1, <3>1, HeadTailProperties, LenProperties
    <3> QED
      BY <2>1, <3>1, <3>2 DEF Range
  <2> QED
    BY <2>2, <2>3
<1> QED
  BY <1>1, <1>2, <1>3

\* A step that gives c the record m, which keeps the row it has.
Assigns(c, m) ==
    /\ work' = [work EXCEPT ![c] = m]
    /\ m \in Work /\ Control(m)
    /\ m.pc \in Crawling => work[c].pc \in Crawling /\ m.run = work[c].run

\* The three ways a posting ends, in terms of the fields of the record.
LEMMA PostingEnds ==
    ASSUME NEW l \in Work, Control(l), l.pc \in Upserting
    PROVE  /\ Duplicated(l) \in Work /\ Control(Duplicated(l))
           /\ Created(l) \in Work /\ Control(Created(l))
           /\ NotStored(l) \in Work /\ Control(NotStored(l))
           /\ Duplicated(l).pc = "posting" /\ Duplicated(l).run = l.run
           /\ Created(l).pc = "posting" /\ Created(l).run = l.run
           /\ NotStored(l).pc = "posting" /\ NotStored(l).run = l.run
<1> DEFINE k == Head(l.todo).from
<1>1. l.todo \in Seq(Posting) /\ l.todo # <<>> /\ l.run \in RunIds /\ l.next \in 1..3 /\ l.next <= 2
      /\ l.next # 1 /\ l.stats \in [StatKeys -> Stat] /\ l.summary \in Summary
  BY CollectorFacts DEF Work, Control, Crawling, Handling
<1>2. k \in StatKeys /\ Tail(l.todo) \in Seq(Posting)
  BY <1>1, TodoParts
<1>3. PICK t : t = PostingDone(l)
  OBVIOUS
<1>4. /\ t \in Work /\ t.pc = "posting" /\ t.run = l.run /\ t.todo = Tail(l.todo) /\ t.next = l.next
      /\ t.stats = l.stats /\ t.summary = l.summary
  BY <1>2, <1>3 DEF PostingDone, Work
<1>5. PICK m, mx : m = Duplicated(l) /\ mx = [t.stats EXCEPT ![k] = [t.stats[k] EXCEPT !.dup = @ + 1]]
  OBVIOUS
<1>6. mx \in [StatKeys -> Stat]
  BY <1>1, <1>2, <1>4, <1>5, StatTyped
<1>7. m \in Work /\ m.pc = "posting" /\ m.run = l.run /\ m.next = l.next
  <2>1. [t.summary EXCEPT !.dup = @ + 1] \in Summary
    BY <1>1, <1>4, SMTT(30) DEF Summary
  <2>2. m = [t EXCEPT !.summary = [t.summary EXCEPT !.dup = @ + 1], !.stats = mx]
    BY <1>3, <1>4, <1>5 DEF Duplicated, Work
  <2> HIDE DEF k
  <2> QED
    BY <1>4, <1>6, <2>1, <2>2 DEF Work
<1>8. PICK n, nx : n = Created(l) /\ nx = [t.stats EXCEPT ![k] = [t.stats[k] EXCEPT !.created = @ + 1]]
  OBVIOUS
<1>9. nx \in [StatKeys -> Stat]
  BY <1>1, <1>2, <1>4, <1>8, StatTyped
<1>10. n \in Work /\ n.pc = "posting" /\ n.run = l.run /\ n.next = l.next
  <2>1. [t.summary EXCEPT !.created = @ + 1] \in Summary
    BY <1>1, <1>4, SMTT(30) DEF Summary
  <2>2. n = [t EXCEPT !.summary = [t.summary EXCEPT !.created = @ + 1], !.stats = nx]
    BY <1>3, <1>4, <1>8 DEF Created, Work
  <2> HIDE DEF k
  <2> QED
    BY <1>4, <1>9, <2>1, <2>2 DEF Work
<1>11. PICK o, ox : o = NotStored(l) /\ ox = [t.stats EXCEPT ![k] = [t.stats[k] EXCEPT !.status = "partial_success"]]
  OBVIOUS
<1>12. ox \in [StatKeys -> Stat]
  BY <1>1, <1>2, <1>4, <1>11, StatTyped
<1>13. o \in Work /\ o.pc = "posting" /\ o.run = l.run /\ o.next = l.next
  <2>1. o = [t EXCEPT !.errors = TRUE, !.stats = ox]
    BY <1>3, <1>4, <1>11 DEF NotStored, Work
  <2> HIDE DEF k
  <2> QED
    BY <1>4, <1>12, <2>1 DEF Work
<1>14. Control(m) /\ Control(n) /\ Control(o)
  BY <1>1, <1>7, <1>10, <1>13, CollectorFacts DEF Control, Crawling, Handling, Upserting, Storing
<1> QED
  BY <1>5, <1>7, <1>8, <1>10, <1>11, <1>13, <1>14

\* The steps between the lock and the first collector.
LEMMA BeginTyped ==
    ASSUME CrawlTyped, NEW c \in Callers,
           CreateRun(c) \/ LoadPreferences(c) \/ StartFails(c)
    PROVE  TablesTyped' /\ work'[c] \in Work /\ Control(work'[c])
           /\ work' = [work EXCEPT ![c] = work'[c]]
<1> DEFINE l == work[c]
<1>0. l \in Work /\ Control(l) /\ work \in [Callers -> Work] /\ TablesTyped
  BY DEF CrawlTyped, TypeOK, TablesTyped
<1>1. CASE CreateRun(c)
  <2>1. PICK r \in RunIds : /\ runs' = [runs EXCEPT ![r].status = "running"]
                            /\ Goto(c, [l EXCEPT !.pc = "load", !.run = r])
    BY <1>1 DEF CreateRun
  <2>2. PICK m : m = [l EXCEPT !.pc = "load", !.run = r]
    OBVIOUS
  <2>3. /\ m \in Work /\ m.pc = "load" /\ m.run = r /\ m.next = l.next /\ m.todo = l.todo
        /\ m.stats = l.stats /\ m.summary = l.summary /\ m.flush = l.flush /\ m.errors = l.errors
    BY <1>0, <2>2 DEF Work
  <2>4. Control(m)
    BY <1>0, <1>1, <2>3 DEF CreateRun, At, Control, Crawling, Handling, Upserting, Storing
  <2>5. TablesTyped'
    BY <1>0, <1>1, <2>1 DEF CreateRun, TablesTyped, Run
  <2>6. work' = [work EXCEPT ![c] = m] /\ work'[c] = m
    BY <1>0, <2>1, <2>2 DEF Goto
  <2> QED
    BY <2>3, <2>4, <2>5, <2>6
<1>2. CASE LoadPreferences(c)
  <2>1. PICK m : m = [l EXCEPT !.pc = "collect"]
    OBVIOUS
  <2>2. /\ m \in Work /\ m.pc = "collect" /\ m.run = l.run /\ m.next = l.next /\ m.todo = l.todo
        /\ m.flush = l.flush
    BY <1>0, <2>1 DEF Work
  <2>3. Control(m)
    BY <1>0, <1>2, <2>2 DEF LoadPreferences, At, Control, Crawling, Handling, Upserting, Storing
  <2>4. TablesTyped'
    BY <1>0, <1>2 DEF LoadPreferences, TablesTyped, tables
  <2>5. work' = [work EXCEPT ![c] = m] /\ work'[c] = m
    BY <1>0, <1>2, <2>1 DEF LoadPreferences, Goto
  <2> QED
    BY <2>2, <2>3, <2>4, <2>5
<1>3. CASE StartFails(c)
  <2>1. PICK m : m = [l EXCEPT !.pc = "unlock"]
    OBVIOUS
  <2>2. m \in Work /\ m.pc = "unlock" /\ m.next = l.next /\ m.todo = l.todo
    BY <1>0, <2>1 DEF Work
  <2>3. Control(m)
    BY <1>0, <1>3, <2>2 DEF StartFails, At, Control, Crawling, Handling, Upserting, Storing
  <2>4. TablesTyped'
    BY <1>0, <1>3 DEF StartFails, TablesTyped, tables
  <2>5. work' = [work EXCEPT ![c] = m] /\ work'[c] = m
    BY <1>0, <1>3, <2>1 DEF StartFails, Goto
  <2> QED
    BY <2>2, <2>3, <2>4, <2>5
<1> QED
  BY <1>1, <1>2, <1>3

\* A collector brings its postings, or fails.
LEMMA CollectTyped ==
    ASSUME CrawlTyped, NEW c \in Callers, Collect(c) \/ CollectFails(c)
    PROVE  TablesTyped' /\ work'[c] \in Work /\ Control(work'[c])
           /\ work' = [work EXCEPT ![c] = work'[c]]
<1> DEFINE l == work[c]
           Start(postings) == [l EXCEPT !.pc = "posting", !.todo = postings, !.stats = NoStats,
                                        !.summary.success = @ + 1,
                                        !.summary.found = @ + Len(postings)]
<1>0. l \in Work /\ Control(l) /\ work \in [Callers -> Work] /\ TablesTyped /\ l.summary \in Summary
  BY DEF CrawlTyped, TypeOK, TablesTyped, Work
<1>1. ASSUME NEW postings \in Seq(Posting), l.next = 1 => postings = <<>>, l.next <= 2,
             l.pc = "collect", NEW m, m = Start(postings)
      PROVE  m \in Work /\ Control(m)
  <2>1. PICK x : x = [l.summary EXCEPT !.success = @ + 1, !.found = @ + Len(postings)]
    OBVIOUS
  <2>2. x \in Summary
    <3>1. Len(postings) \in Nat
      BY LenProperties
    <3>2. l.summary.success \in Nat /\ l.summary.found \in Nat
      BY <1>0, SummaryTyped
    <3>3. PICK n, k : n = l.summary.success + 1 /\ k = l.summary.found + Len(postings)
      OBVIOUS
    <3>4. n \in Nat /\ k \in Nat
      BY <3>1, <3>2, <3>3
    <3>5. x = [l.summary EXCEPT !.success = n, !.found = k]
      BY <2>1, <3>3
    <3> QED
      BY <1>0, <3>4, <3>5, SummaryTyped
  <2>3. m = [l EXCEPT !.pc = "posting", !.todo = postings, !.stats = NoStats, !.summary = x]
    BY <1>0, <1>1, <2>1 DEF Work
  <2>4. m \in Work /\ m.pc = "posting" /\ m.todo = postings /\ m.run = l.run /\ m.next = l.next
    BY <1>0, <2>2, <2>3, IdleTyped DEF Work
  <2>5. Control(m)
    BY <1>0, <1>1, <2>4, CollectorFacts DEF Control, Crawling, Handling, Upserting, Storing
  <2> QED
    BY <2>4, <2>5
<1>2. CASE Collect(c)
  <2>1. l.pc = "collect" /\ l.next <= 2 /\ l.next \in 1..3
    <3>1. l.pc = "collect" /\ l.next <= Len(Collectors)
      BY <1>2 DEF Collect, At
    <3>2. l.next \in 1..(Len(Collectors) + 1)
      BY <1>0 DEF Work
    <3> QED
      BY <3>1, <3>2, CollectorFacts
  <2>2. CASE Collectors[l.next] = "seed" /\ Goto(c, Start(<<>>)) /\ UNCHANGED fetched
    <3>1. PICK m : m = Start(<<>>)
      OBVIOUS
    <3>2. m \in Work /\ Control(m)
      <4>1. <<>> \in Seq(Posting)
        OBVIOUS
      <4> HIDE DEF Start
      <4> QED
        BY <1>1, <2>1, <3>1, <4>1
    <3>3. TablesTyped'
      BY <1>0, <1>2, <2>2 DEF Collect, TablesTyped, tables
    <3>4. work' = [work EXCEPT ![c] = m] /\ work'[c] = m
      BY <1>0, <2>2, <3>1 DEF Goto
    <3> QED
      BY <3>2, <3>3, <3>4
  <2>3. CASE Collectors[l.next] = "db_sources"
    <3>1. l.next # 1
      BY <2>3, CollectorFacts
    <3>2. PICK f \in [Range(Sources) -> UNION {Outcomes(s) : s \in Range(Sources)}] :
            /\ \A s \in Range(Sources) : f[s] \in Outcomes(s)
            /\ fetched' = [fetched EXCEPT ![l.run] = f]
            /\ Goto(c, Start(Collected(f)))
      BY <1>2, <2>3, CollectorFacts DEF Collect
    <3>3. f \in [Range(Sources) -> Seq(Posting)]
      BY <3>2, OutcomesTyped
    <3>4. Collected(f) \in Seq(Posting)
      BY <3>3, CrawlAssumption, CollectedCovers
    <3>5. PICK m : m = Start(Collected(f))
      OBVIOUS
    <3>6. m \in Work /\ Control(m)
      <4> HIDE DEF Start
      <4> QED
        BY <1>1, <2>1, <3>1, <3>4, <3>5
    <3>7. TablesTyped'
      BY <1>0, <1>2, <3>2, <3>3 DEF Collect, TablesTyped, tables
    <3>8. work' = [work EXCEPT ![c] = m] /\ work'[c] = m
      BY <1>0, <3>2, <3>5 DEF Goto
    <3> QED
      BY <3>6, <3>7, <3>8
  <2> QED
    BY <1>2, <2>2, <2>3 DEF Collect
<1>3. CASE CollectFails(c)
  <2>1. l.pc = "collect" /\ l.next <= 2 /\ l.next \in 1..3 /\ l.todo = <<>> /\ l.flush = {}
        /\ l.run \in RunIds
    BY <1>0, <1>3, CollectorFacts DEF CollectFails, At, Work, Control, Crawling
  <2>2. PICK x \in Summary : x = [l.summary EXCEPT !.failed = @ + 1]
    <3>1. l.summary.failed + 1 \in Nat
      BY <1>0 DEF Summary
    <3> QED
      BY <1>0, <3>1, SummaryTyped
  <2>3. PICK m : m = [l EXCEPT !.next = @ + 1, !.errors = TRUE, !.summary.failed = @ + 1]
    OBVIOUS
  <2>4. m = [l EXCEPT !.next = @ + 1, !.errors = TRUE, !.summary = x]
    BY <1>0, <2>2, <2>3 DEF Work
  <2>5. m \in Work /\ m.pc = "collect" /\ m.todo = <<>> /\ m.run = l.run /\ m.flush = {}
    <3>1. l.next + 1 \in 1..(Len(Collectors) + 1)
      BY <2>1, CollectorFacts
    <3> QED
      BY <1>0, <2>1, <2>2, <2>4, <3>1 DEF Work
  <2>6. Control(m)
    BY <2>1, <2>5, CollectorFacts DEF Control, Crawling, Handling, Upserting, Storing
  <2>7. results' \in [RunIds -> [StatKeys -> Stat]]
    <3>1. PICK row : row = [results[l.run] EXCEPT !["db_sources"].status = "failed"]
      OBVIOUS
    <3>2. results[l.run] \in [StatKeys -> Stat]
      BY <1>0, <2>1 DEF TablesTyped
    <3>3. row \in [StatKeys -> Stat]
      BY <3>1, <3>2, StatTyped
    <3>4. UNCHANGED results \/ results' = [results EXCEPT ![l.run] = row]
      BY <1>3, <3>1 DEF CollectFails
    <3> QED
      BY <1>0, <2>1, <3>3, <3>4 DEF TablesTyped
  <2>8. TablesTyped'
    BY <1>0, <1>3, <2>7 DEF CollectFails, TablesTyped
  <2>9. work' = [work EXCEPT ![c] = m] /\ work'[c] = m
    BY <1>0, <1>3, <2>3 DEF CollectFails, Goto
  <2> QED
    BY <2>5, <2>6, <2>8, <2>9
<1> QED
  BY <1>2, <1>3

\* A posting is counted, looked for, stored or not.
LEMMA HandleTyped ==
    ASSUME CrawlTyped, NEW c \in Callers,
           TakePosting(c) \/ FindByUrl(c) \/ FindByName(c) \/ StorePosting(c) \/ UpsertFails(c)
    PROVE  TablesTyped' /\ work'[c] \in Work /\ Control(work'[c])
           /\ work' = [work EXCEPT ![c] = work'[c]]
<1> DEFINE l == work[c]
           p == Head(l.todo)
<1>0. l \in Work /\ Control(l) /\ work \in [Callers -> Work] /\ TablesTyped /\ l.summary \in Summary
      /\ l.todo \in Seq(Posting) /\ l.stats \in [StatKeys -> Stat]
  BY DEF CrawlTyped, TypeOK, TablesTyped, Work
<1>1. CASE TakePosting(c)
  <2>1. /\ l.pc = "posting" /\ l.todo # <<>> /\ l.run \in RunIds /\ l.next <= Len(Collectors)
        /\ l.next # 1
    BY <1>0, <1>1 DEF TakePosting, At, Control, Crawling, Handling, Upserting
  <2>2. p \in Posting /\ Tail(l.todo) \in Seq(Posting) /\ p.from \in StatKeys /\ p.manual \in BOOLEAN
    BY <1>0, <2>1, TodoParts DEF Posting
  <2>3. PICK counted : counted = [l EXCEPT !.stats[p.from] = CountFound(@, p)]
    OBVIOUS
  <2>4. PICK y \in [StatKeys -> Stat] : y = [l.stats EXCEPT ![p.from] = CountFound(@, p)]
    BY <1>0, <2>2, CountFoundTyped
  <2>5. /\ counted \in Work /\ counted.stats = y /\ counted.pc = "posting" /\ counted.todo = l.todo
        /\ counted.run = l.run /\ counted.next = l.next /\ counted.summary = l.summary
    BY <1>0, <2>1, <2>3, <2>4 DEF Work
  <2>6. TablesTyped'
    BY <1>0, <1>1 DEF TakePosting, TablesTyped, tables
  <2>7. CASE p.filtered
    <3>1. PICK m : m = [counted EXCEPT !.todo = Tail(@), !.stats[p.from].filtered = @ + 1]
      OBVIOUS
    <3>2. PICK z \in [StatKeys -> Stat] : z = [y EXCEPT ![p.from].filtered = @ + 1]
      BY <2>2, <2>4, StatTyped
    <3>3. m = [counted EXCEPT !.todo = Tail(l.todo), !.stats = z]
      BY <2>5, <3>1, <3>2 DEF Work
    <3>4. m \in Work /\ m.pc = "posting" /\ m.run = l.run /\ m.next = l.next
      BY <2>2, <2>5, <3>2, <3>3 DEF Work
    <3>5. Control(m)
      BY <2>1, <3>4 DEF Control, Crawling, Handling, Upserting, Storing
    <3>6. work' = [work EXCEPT ![c] = m] /\ work'[c] = m
      BY <1>0, <1>1, <2>3, <2>7, <3>1 DEF TakePosting, Goto
    <3> QED
      BY <2>6, <3>4, <3>5, <3>6
  <2>8. CASE ~p.filtered
    <3>1. PICK n : n = (IF p.manual THEN 1 ELSE 0)
      OBVIOUS
    <3>2. n \in Nat
      BY <3>1
    <3>3. PICK m : m = [counted EXCEPT !.pc = "find_url", !.stats[p.from].manual = @ + n,
                                       !.summary.manual = @ + n]
      OBVIOUS
    <3>4. PICK z \in [StatKeys -> Stat] : z = [y EXCEPT ![p.from].manual = @ + n]
      <4>1. y[p.from] \in Stat /\ y[p.from].manual + n \in Nat
        <5>1. y[p.from] \in Stat
          BY <2>2, <2>4
        <5>2. y[p.from].manual \in Nat
          BY <5>1 DEF Stat
        <5> QED
          BY <3>2, <5>1, <5>2
      <4> QED
        BY <2>2, <2>4, <4>1, StatTyped
    <3>5. PICK x \in Summary : x = [l.summary EXCEPT !.manual = @ + n]
      <4>1. l.summary.manual + n \in Nat
        BY <1>0, <3>2 DEF Summary
      <4> QED
        BY <1>0, <4>1, SummaryTyped
    <3>6. m = [counted EXCEPT !.pc = "find_url", !.stats = z, !.summary = x]
      BY <2>5, <3>3, <3>4, <3>5 DEF Work
    <3>7. m \in Work /\ m.pc = "find_url" /\ m.run = l.run /\ m.next = l.next /\ m.todo = l.todo
      BY <2>5, <3>4, <3>5, <3>6 DEF Work
    <3>8. Control(m)
      BY <2>1, <3>7 DEF Control, Crawling, Handling, Upserting, Storing
    <3>9. work' = [work EXCEPT ![c] = m] /\ work'[c] = m
      BY <1>0, <1>1, <2>3, <2>8, <3>1, <3>3 DEF TakePosting, Goto
    <3> QED
      BY <2>6, <3>7, <3>8, <3>9
  <2> QED
    BY <2>7, <2>8
<1>2. ASSUME l.pc \in Upserting PROVE p \in Posting /\ l.run \in RunIds /\ l.todo # <<>>
  BY <1>0, <1>2, TodoParts DEF Control, Crawling, Handling
<1>3. ASSUME l.pc \in Upserting, NEW m, m \in {Duplicated(l), Created(l), NotStored(l)}, Goto(c, m)
      PROVE  work'[c] \in Work /\ Control(work'[c]) /\ work' = [work EXCEPT ![c] = work'[c]]
  <2>1. m \in Work /\ Control(m)
    BY <1>0, <1>3, PostingEnds
  <2> QED
    BY <1>0, <1>3, <2>1 DEF Goto
<1>4. ASSUME l.pc \in Upserting, NEW pc \in {"find_name", "insert"}, Goto(c, [l EXCEPT !.pc = pc])
      PROVE  work'[c] \in Work /\ Control(work'[c]) /\ work' = [work EXCEPT ![c] = work'[c]]
  <2>1. PICK m : m = [l EXCEPT !.pc = pc]
    OBVIOUS
  <2>2. m \in Work /\ m.pc = pc /\ m.run = l.run /\ m.next = l.next /\ m.todo = l.todo
    BY <1>0, <2>1 DEF Work
  <2>3. Control(m)
    BY <1>0, <1>4, <2>2 DEF Control, Crawling, Handling, Upserting, Storing
  <2>4. work' = [work EXCEPT ![c] = m] /\ work'[c] = m
    BY <1>0, <1>4, <2>1 DEF Goto
  <2> QED
    BY <2>2, <2>3, <2>4
<1>5. CASE FindByUrl(c)
  <2>1. l.pc \in Upserting
    BY <1>5 DEF FindByUrl, At, Upserting
  <2>2. TablesTyped'
    BY <1>0, <1>5 DEF FindByUrl, TablesTyped, tables
  <2>3. Goto(c, Duplicated(l)) \/ Goto(c, [l EXCEPT !.pc = "find_name"])
    BY <1>5 DEF FindByUrl
  <2> QED
    BY <1>3, <1>4, <2>1, <2>2, <2>3
<1>6. CASE FindByName(c)
  <2>1. l.pc \in Upserting
    BY <1>6 DEF FindByName, At, Upserting
  <2>2. TablesTyped'
    BY <1>0, <1>6 DEF FindByName, TablesTyped, tables
  <2>3. Goto(c, Duplicated(l)) \/ Goto(c, [l EXCEPT !.pc = "insert"])
    BY <1>6 DEF FindByName
  <2> QED
    BY <1>3, <1>4, <2>1, <2>2, <2>3
<1>7. ASSUME l.pc \in Upserting, InsertJob(p, l.run) PROVE jobs' \in Seq(Job)
  <2>1. p.url \in Urls \cup {NoUrl} /\ p.name \in Names /\ l.run \in RunIds
    BY <1>2, <1>7 DEF Posting
  <2>2. [url |-> p.url, name |-> p.name, run |-> l.run] \in Job
    BY <2>1 DEF Job
  <2> QED
    BY <1>0, <1>7, <2>2, AppendProperties DEF InsertJob, TablesTyped
<1>8. CASE StorePosting(c)
  <2>1. l.pc \in Upserting /\ InsertJob(p, l.run) /\ Goto(c, Created(l))
    BY <1>8 DEF StorePosting, At, Upserting
  <2>2. TablesTyped'
    BY <1>0, <1>7, <1>8, <2>1 DEF StorePosting, TablesTyped
  <2> QED
    BY <1>3, <2>1, <2>2
<1>9. CASE UpsertFails(c)
  <2>1. l.pc \in Upserting /\ Goto(c, NotStored(l)) /\ (UNCHANGED jobs \/ InsertJob(p, l.run))
    BY <1>9 DEF UpsertFails, At, Upserting
  <2>2. jobs' \in Seq(Job)
    BY <1>0, <1>7, <2>1 DEF TablesTyped
  <2>3. TablesTyped'
    BY <1>0, <1>9, <2>2 DEF UpsertFails, TablesTyped
  <2> QED
    BY <1>3, <2>1, <2>3
<1> QED
  BY <1>1, <1>5, <1>6, <1>8, <1>9

\* The results and the health of the sources are stored.
LEMMA StoreTyped ==
    ASSUME CrawlTyped, NEW c \in Callers,
           \/ CloseCollector(c) \/ CreateRunSourceResult(c) \/ ResultFails(c)
           \/ UpdateSourceHealth(c) \/ HealthFails(c) \/ NextCollector(c)
    PROVE  TablesTyped' /\ work'[c] \in Work /\ Control(work'[c])
           /\ work' = [work EXCEPT ![c] = work'[c]]
<1> DEFINE l == work[c]
<1>0. l \in Work /\ Control(l) /\ work \in [Callers -> Work] /\ TablesTyped
      /\ l.stats \in [StatKeys -> Stat] /\ l.flush \subseteq StatKeys
  BY DEF CrawlTyped, TypeOK, TablesTyped, Work
<1>1. ASSUME NEW m \in Work, m.pc \in Storing, m.run = l.run, m.next = l.next, m.todo = l.todo,
             l.pc \in Storing \/ (l.pc = "posting" /\ l.todo = <<>>),
             m.pc = "health" => m.key \in StatKeys
      PROVE  Control(m)
  BY <1>0, <1>1 DEF Control, Crawling, Handling, Upserting, Storing
<1>2. CASE CloseCollector(c)
  <2> DEFINE own == Collectors[l.next]
             touched == {k \in StatKeys : l.stats[k].status # "absent"}
  <2>1. l.pc = "posting" /\ l.todo = <<>> /\ own \in StatKeys
    <3>1. l.pc = "posting" /\ l.todo = <<>> /\ l.next \in 1..2
      BY <1>0, <1>2, CollectorFacts DEF CloseCollector, At, Work, Control, Handling
    <3>2. l.next = 1 \/ l.next = 2
      BY <3>1
    <3> QED
      BY <3>1, <3>2, CollectorFacts
  <2>2. PICK m : /\ work' = [work EXCEPT ![c] = m]
                 /\ \/ m = [l EXCEPT !.pc = "results", !.flush = touched]
                    \/ m = [l EXCEPT !.pc = "results", !.flush = {own}, !.stats[own].status = "success"]
    BY <1>2 DEF CloseCollector, Goto
  <2>3. PICK y \in [StatKeys -> Stat] : y = [l.stats EXCEPT ![own].status = "success"]
    BY <1>0, <2>1, StatTyped
  <2>4. \/ m = [l EXCEPT !.pc = "results", !.flush = touched]
        \/ m = [l EXCEPT !.pc = "results", !.flush = {own}, !.stats = y]
    BY <1>0, <2>2, <2>3 DEF Work
  <2>5. touched \subseteq StatKeys
    OBVIOUS
  <2> HIDE DEF own, touched
  <2>6. m \in Work /\ m.pc = "results" /\ m.run = l.run /\ m.next = l.next /\ m.todo = l.todo
    <3>1. CASE m = [l EXCEPT !.pc = "results", !.flush = touched]
      BY <1>0, <2>5, <3>1 DEF Work
    <3>2. CASE m = [l EXCEPT !.pc = "results", !.flush = {own}, !.stats = y]
      BY <1>0, <2>1, <2>3, <3>2 DEF Work
    <3> QED
      BY <2>4, <3>1, <3>2
  <2>7. Control(m)
    BY <1>1, <2>1, <2>6 DEF Storing
  <2>8. TablesTyped'
    BY <1>0, <1>2 DEF CloseCollector, TablesTyped, tables
  <2> QED
    BY <1>0, <2>2, <2>6, <2>7, <2>8
<1>3. CASE CreateRunSourceResult(c) \/ ResultFails(c)
  <2>1. l.pc = "results" /\ l.run \in RunIds
    BY <1>0, <1>3 DEF CreateRunSourceResult, ResultFails, At, Control, Crawling, Storing
  <2>2. PICK k \in l.flush :
          /\ UNCHANGED results \/ results' = [results EXCEPT ![l.run][k] = l.stats[k]]
          /\ \/ work' = [work EXCEPT ![c] = [l EXCEPT !.pc = "health", !.key = k, !.flush = @ \ {k}]]
             \/ work' = [work EXCEPT ![c] = [l EXCEPT !.pc = "health", !.key = k, !.flush = @ \ {k},
                                                      !.errors = TRUE]]
    BY <1>3 DEF CreateRunSourceResult, ResultFails, Goto
  <2>3. PICK m : /\ work' = [work EXCEPT ![c] = m]
                 /\ \/ m = [l EXCEPT !.pc = "health", !.key = k, !.flush = @ \ {k}]
                    \/ m = [l EXCEPT !.pc = "health", !.key = k, !.flush = @ \ {k}, !.errors = TRUE]
    BY <2>2
  <2>4. k \in StatKeys
    BY <1>0
  <2>5. /\ m \in Work /\ m.pc = "health" /\ m.run = l.run /\ m.next = l.next /\ m.todo = l.todo
        /\ m.key = k
    <3>1. PICK rest \in SUBSET StatKeys : rest = l.flush \ {k}
      BY <1>0
    <3>2. CASE m = [l EXCEPT !.pc = "health", !.key = k, !.flush = @ \ {k}]
      <4>1. m = [l EXCEPT !.pc = "health", !.key = k, !.flush = rest]
        BY <1>0, <3>1, <3>2 DEF Work
      <4> QED
        BY <1>0, <2>4, <3>1, <4>1 DEF Work
    <3>3. CASE m = [l EXCEPT !.pc = "health", !.key = k, !.flush = @ \ {k}, !.errors = TRUE]
      <4>1. m = [l EXCEPT !.pc = "health", !.key = k, !.flush = rest, !.errors = TRUE]
        BY <1>0, <3>1, <3>3 DEF Work
      <4> QED
        BY <1>0, <2>4, <3>1, <4>1 DEF Work
    <3> QED
      BY <2>3, <3>2, <3>3
  <2>6. Control(m)
    BY <1>1, <2>1, <2>4, <2>5 DEF Storing
  <2>7. results' \in [RunIds -> [StatKeys -> Stat]]
    <3>1. PICK row : row = [results[l.run] EXCEPT ![k] = l.stats[k]]
      OBVIOUS
    <3>2. row \in [StatKeys -> Stat]
      BY <1>0, <2>1, <2>4, <3>1 DEF TablesTyped
    <3>3. UNCHANGED results \/ results' = [results EXCEPT ![l.run] = row]
      BY <2>2, <3>1
    <3> QED
      BY <1>0, <2>1, <3>2, <3>3 DEF TablesTyped
  <2>8. TablesTyped'
    BY <1>0, <1>3, <2>7 DEF CreateRunSourceResult, ResultFails, TablesTyped
  <2> QED
    BY <1>0, <2>3, <2>5, <2>6, <2>8
<1>4. CASE UpdateSourceHealth(c) \/ HealthFails(c)
  <2>1. l.pc = "health" /\ l.key \in StatKeys
    BY <1>0, <1>4 DEF UpdateSourceHealth, HealthFails, At, Control
  <2>2. PICK m : /\ work' = [work EXCEPT ![c] = m]
                 /\ \/ m = [l EXCEPT !.pc = "results", !.key = "none"]
                    \/ m = [l EXCEPT !.pc = "results", !.key = "none", !.errors = TRUE]
    BY <1>4 DEF UpdateSourceHealth, HealthFails, Goto
  <2>3. m \in Work /\ m.pc = "results" /\ m.run = l.run /\ m.next = l.next /\ m.todo = l.todo
    BY <1>0, <2>2 DEF Work
  <2>4. Control(m)
    BY <1>1, <2>1, <2>3 DEF Storing
  <2>5. health' \in [Range(Sources) -> Health]
    <3>1. ASSUME NEW stat \in Stat, NEW old \in Health PROVE SourceHealth(stat, old) \in Health
      BY DEF SourceHealth, Health, Stat
    <3>2. CASE UpdateSourceHealth(c)
      <4>1. DOMAIN health = Range(Sources)
        BY <1>0 DEF TablesTyped
      <4>2. \A s \in Range(Sources) : SourceHealth(l.stats[l.key], health[s]) \in Health
        BY <1>0, <2>1, <3>1 DEF TablesTyped
      <4> QED
        BY <1>0, <3>2, <4>1, <4>2 DEF UpdateSourceHealth, TablesTyped
    <3>3. CASE HealthFails(c)
      BY <1>0, <3>3 DEF HealthFails, TablesTyped, tables
    <3> QED
      BY <1>4, <3>2, <3>3
  <2>6. TablesTyped'
    BY <1>0, <1>4, <2>5 DEF UpdateSourceHealth, HealthFails, TablesTyped, tables
  <2> QED
    BY <1>0, <2>2, <2>3, <2>4, <2>6
<1>5. CASE NextCollector(c)
  <2>1. l.pc = "results" /\ l.flush = {} /\ l.todo = <<>> /\ l.run \in RunIds /\ l.next \in 1..2
    BY <1>0, <1>5, CollectorFacts DEF NextCollector, At, Control, Storing, Crawling, Work
  <2>2. PICK m : m = [l EXCEPT !.pc = "collect", !.next = @ + 1]
    OBVIOUS
  <2>3. /\ m \in Work /\ m.pc = "collect" /\ m.run = l.run /\ m.todo = <<>> /\ m.flush = {}
    <3>1. l.next + 1 \in 1..(Len(Collectors) + 1)
      BY <2>1, CollectorFacts
    <3> QED
      BY <1>0, <2>1, <2>2, <3>1 DEF Work
  <2>4. Control(m)
    BY <2>1, <2>3 DEF Control, Crawling, Handling, Upserting, Storing
  <2>5. TablesTyped'
    BY <1>0, <1>5 DEF NextCollector, TablesTyped, tables
  <2>6. work' = [work EXCEPT ![c] = m]
    BY <1>5, <2>2 DEF NextCollector, Goto
  <2> QED
    BY <1>0, <2>3, <2>4, <2>5, <2>6
<1> QED
  BY <1>2, <1>3, <1>4, <1>5

\* The outcome is stored, or not.
LEMMA FinishTyped ==
    ASSUME CrawlTyped, NEW c \in Callers, FinishRun(c) \/ FinishFails(c)
    PROVE  TablesTyped' /\ work'[c] \in Work /\ Control(work'[c])
           /\ work' = [work EXCEPT ![c] = work'[c]]
<1> DEFINE l == work[c]
<1>0. l \in Work /\ Control(l) /\ work \in [Callers -> Work] /\ TablesTyped /\ l.summary \in Summary
  BY DEF CrawlTyped, TypeOK, TablesTyped, Work
<1>1. l.pc = "collect" /\ l.run \in RunIds
  BY <1>0 DEF FinishRun, FinishFails, At, Control, Crawling
<1>2. PICK m : m = [l EXCEPT !.pc = "unlock"]
  OBVIOUS
<1>3. m \in Work /\ m.pc = "unlock" /\ m.next = l.next /\ m.todo = l.todo
  BY <1>0, <1>2 DEF Work
<1>4. Control(m)
  BY <1>0, <1>1, <1>3 DEF Control, Crawling, Handling, Upserting, Storing
<1>5. work' = [work EXCEPT ![c] = m] /\ work'[c] = m
  BY <1>0, <1>2 DEF FinishRun, FinishFails, Goto
<1>6. TablesTyped'
  <2>1. CASE FinishRun(c)
    <3>1. Outcome(l) \in {"success", "partial_success"}
      BY DEF Outcome
    <3>2. [status |-> Outcome(l), summary |-> l.summary] \in Run
      BY <1>0, <3>1 DEF Run
    <3> QED
      BY <1>0, <1>1, <2>1, <3>2 DEF FinishRun, StoreRun, TablesTyped
  <2>2. CASE FinishFails(c)
    BY <1>0, <2>2 DEF FinishFails, TablesTyped, tables
  <2> QED
    BY <2>1, <2>2
<1> QED
  BY <1>3, <1>4, <1>5, <1>6

\* Taking and releasing the lock.
LEMMA LockTyped ==
    ASSUME CrawlTyped, NEW c \in Callers, tryLock(c) \/ unlock(c)
    PROVE  TablesTyped' /\ work'[c] \in Work /\ Control(work'[c])
           /\ work' = [work EXCEPT ![c] = work'[c]] /\ work'[c].pc \in {"idle", "create"}
<1>0. work \in [Callers -> Work] /\ TablesTyped
  BY DEF CrawlTyped, TypeOK, TablesTyped
<1>1. TablesTyped'
  BY <1>0 DEF tryLock, unlock, TablesTyped, tables
<1>2. PICK m \in {Idle, [Idle EXCEPT !.pc = "create"]} : work' = [work EXCEPT ![c] = m]
  BY DEF tryLock, unlock, Goto
<1>3. m \in Work /\ Control(m) /\ m.pc \in {"idle", "create"}
  BY <1>2, IdleTyped, IdlePc
<1> QED
  BY <1>0, <1>1, <1>2, <1>3

\* Every step of a crawl keeps the types and the control.
LEMMA StepTyped ==
    ASSUME CrawlTyped, NEW c \in Callers, tryLock(c) \/ Proceed(c) \/ Fail(c)
    PROVE  TablesTyped' /\ work'[c] \in Work /\ Control(work'[c])
           /\ work' = [work EXCEPT ![c] = work'[c]]
  BY BeginTyped, CollectTyped, HandleTyped, StoreTyped, FinishTyped, LockTyped DEF Proceed, Fail

\* The lock protects the run row: everybody else is outside Run.
LEMMA OthersOutside ==
    ASSUME LockInv, [Next]_vars, NEW c \in Callers, tryLock(c) \/ Proceed(c) \/ Fail(c),
           work' = [work EXCEPT ![c] = work'[c]], NEW d \in Callers, d # c
    PROVE  work'[d] = work[d] /\ work[d].pc = "idle" /\ work'[d].pc = "idle"
<1>1. work'[d] = work[d]
  BY DEF LockInv, WorkShape
<1>2. CASE c \in Busy
  BY <1>1, <1>2 DEF LockInv, Alone, Busy, At
<1>3. CASE c \notin Busy
  <2>1. tryLock(c)
    <3>1. Proceed(c) \/ Fail(c) => c \in Busy
      BY ProceedMoves, FailMoves DEF LockInv, Moves, unlock, At, Busy
    <3> QED
      BY <1>3, <3>1
  <2>2. Busy = {}
    BY <2>1, TryLockEnters
  <2> QED
    BY <1>1, <2>2 DEF Busy, At
<1> QED
  BY <1>2, <1>3

\* A step of c between the creation and the end of its run row.
KeepsRow(c) ==
    /\ runs' = runs
    /\ work'[c].pc \in Crawling => work[c].pc \in Crawling /\ work'[c].run = work[c].run

\* All steps but the one that creates the row and the one that stores the outcome.
LEMMA RowKept ==
    ASSUME CrawlTyped, NEW c \in Callers, tryLock(c) \/ Proceed(c) \/ Fail(c),
           ~CreateRun(c), ~FinishRun(c)
    PROVE  KeepsRow(c)
<1> DEFINE l == work[c]
<1>0. DOMAIN l = {"pc", "run", "next", "todo", "stats", "flush", "key", "summary", "errors"}
      /\ l \in Work /\ work \in [Callers -> Work] /\ Control(l)
  BY DEF CrawlTyped, TypeOK, Work
<1>1. CASE LoadPreferences(c)
  BY <1>0, <1>1 DEF LoadPreferences, At, Goto, tables, KeepsRow, Crawling
<1>2. CASE StartFails(c)
  BY <1>0, <1>2 DEF StartFails, At, Goto, tables, KeepsRow, Crawling, Handling, Upserting, Storing
<1>3. CASE Collect(c)
  <2>1. PICK postings :
          Goto(c, [l EXCEPT !.pc = "posting", !.todo = postings, !.stats = NoStats,
                            !.summary.success = @ + 1, !.summary.found = @ + Len(postings)])
    BY <1>3 DEF Collect
  <2>2. work'[c].run = l.run
    BY <1>0, <2>1 DEF Goto
  <2> QED
    BY <1>3, <2>2 DEF Collect, At, tables, KeepsRow, Crawling
<1>4. CASE CollectFails(c)
  BY <1>0, <1>4 DEF CollectFails, At, Goto, KeepsRow, Crawling
<1>5. CASE TakePosting(c)
  <2> DEFINE p == Head(l.todo)
             d == IF p.manual THEN 1 ELSE 0
  <2>1. PICK counted : counted = [l EXCEPT !.stats[p.from] = CountFound(@, p)]
    OBVIOUS
  <2>2. counted.run = l.run /\ DOMAIN counted = DOMAIN l
    BY <1>0, <2>1
  <2>3. \/ Goto(c, [counted EXCEPT !.todo = Tail(@), !.stats[p.from].filtered = @ + 1])
        \/ Goto(c, [counted EXCEPT !.pc = "find_url", !.stats[p.from].manual = @ + d,
                                   !.summary.manual = @ + d])
    BY <1>5, <2>1 DEF TakePosting
  <2> HIDE DEF p, d
  <2>4. work'[c].run = l.run
    BY <1>0, <2>2, <2>3 DEF Goto
  <2> QED
    BY <1>5, <2>4 DEF TakePosting, At, tables, KeepsRow, Crawling, Handling
<1>6. ASSUME l.pc \in Upserting, UNCHANGED runs, NEW m, m \in {Duplicated(l), Created(l), NotStored(l)},
             Goto(c, m)
      PROVE  KeepsRow(c)
  BY <1>0, <1>6, PostingEnds DEF Goto, KeepsRow, Crawling, Handling
<1>7. ASSUME l.pc \in Upserting, UNCHANGED runs, NEW pc, Goto(c, [l EXCEPT !.pc = pc])
      PROVE  KeepsRow(c)
  BY <1>0, <1>7 DEF Goto, KeepsRow, Crawling, Handling
<1>8. CASE FindByUrl(c) \/ FindByName(c)
  BY <1>6, <1>7, <1>8 DEF FindByUrl, FindByName, At, Upserting, tables
<1>9. CASE StorePosting(c) \/ UpsertFails(c)
  BY <1>6, <1>9 DEF StorePosting, UpsertFails, At, Upserting
<1>10. CASE CloseCollector(c)
  BY <1>0, <1>10 DEF CloseCollector, At, Goto, tables, KeepsRow, Crawling, Handling, Storing
<1>11. CASE CreateRunSourceResult(c) \/ ResultFails(c)
  BY <1>0, <1>11, ZenonT(40)
    DEF CreateRunSourceResult, ResultFails, At, Goto, KeepsRow, Crawling, Storing
<1>12. CASE UpdateSourceHealth(c) \/ HealthFails(c)
  BY <1>0, <1>12 DEF UpdateSourceHealth, HealthFails, At, Goto, tables, KeepsRow, Crawling, Storing
<1>13. CASE NextCollector(c)
  BY <1>0, <1>13 DEF NextCollector, At, Goto, tables, KeepsRow, Crawling, Storing
<1>14. CASE FinishFails(c)
  BY <1>0, <1>14 DEF FinishFails, At, Goto, tables, KeepsRow, Crawling, Handling, Upserting, Storing
<1>15. CASE tryLock(c) \/ unlock(c)
  BY <1>15, LockTyped DEF tryLock, unlock, tables, KeepsRow, Crawling, Handling, Upserting, Storing
<1> QED
  BY <1>1, <1>2, <1>3, <1>4, <1>5, <1>8, <1>9, <1>10, <1>11, <1>12, <1>13, <1>14, <1>15
     DEF Proceed, Fail

\* The row a crawl has created is the newest as long as it crawls.
LEMMA OwnsStep ==
    ASSUME CrawlTyped, NEW c \in Callers, tryLock(c) \/ Proceed(c) \/ Fail(c), [Next]_vars
    PROVE  InOrder' /\ \A d \in Callers : OwnsRun(work[d])'
<1>0. /\ work' = [work EXCEPT ![c] = work'[c]] /\ runs \in [RunIds -> Run] /\ LockInv /\ InOrder
      /\ OwnsRun(work[c]) /\ Control(work[c])
  BY StepTyped DEF CrawlTyped, TypeOK
<1>1. ASSUME NEW d \in Callers, d # c PROVE OwnsRun(work[d])'
  <2>1. work'[d].pc = "idle"
    BY <1>0, <1>1, OthersOutside
  <2> QED
    BY <2>1 DEF OwnsRun, Crawling, Handling, Upserting, Storing
<1>2. CASE CreateRun(c)
  <2>1. PICK r \in RunIds : /\ FreshRun(r) /\ runs' = [runs EXCEPT ![r].status = "running"]
                            /\ Goto(c, [work[c] EXCEPT !.pc = "load", !.run = r])
    BY <1>2 DEF CreateRun
  <2>2. work'[c].run = r
    BY <2>1 DEF Goto, CrawlTyped, TypeOK, Work
  <2>3. runs'[r].status = "running" /\ \A s \in RunIds \ {r} : runs'[s] = runs[s]
    BY <1>0, <2>1 DEF Run
  <2>4. \A s \in RunIds : s > r => runs[s].status = "absent"
    BY <1>0, <2>1 DEF FreshRun, InOrder, RunIds
  <2>5. LastRun(r)'
    BY <2>3, <2>4 DEF LastRun, RunIds
  <2>6. OwnsRun(work[c])'
    BY <2>2, <2>3, <2>5 DEF OwnsRun
  <2>7. InOrder'
    BY <1>0, <2>1, <2>3, <2>4 DEF InOrder, FreshRun
  <2> QED
    BY <1>1, <2>6, <2>7
<1>3. CASE FinishRun(c)
  <2>1. work[c].run \in RunIds /\ runs[work[c].run].status = "running"
    BY <1>0, <1>3 DEF FinishRun, At, Control, OwnsRun, Crawling
  <2>2. \A s \in RunIds : runs'[s].status = "absent" <=> runs[s].status = "absent"
    <3>1. Outcome(work[c]) # "absent"
      BY DEF Outcome
    <3> QED
      BY <1>0, <1>3, <2>1, <3>1 DEF FinishRun, StoreRun
  <2>3. work'[c].pc = "unlock"
    BY <1>3 DEF FinishRun, Goto, CrawlTyped, TypeOK, Work
  <2>4. OwnsRun(work[c])'
    BY <2>3 DEF OwnsRun, Crawling, Handling, Upserting, Storing
  <2> QED
    BY <1>0, <1>1, <2>2, <2>4 DEF InOrder
<1>4. CASE ~CreateRun(c) /\ ~FinishRun(c)
  <2>1. KeepsRow(c)
    BY <1>4, RowKept
  <2>2. OwnsRun(work[c])'
    BY <1>0, <2>1 DEF KeepsRow, OwnsRun, LastRun
  <2> QED
    BY <1>0, <1>1, <2>1, <2>2 DEF KeepsRow, InOrder
<1> QED
  BY <1>2, <1>3, <1>4

\* Pasting a URL inserts rows of jobs that belong to no run.
LEMMA ImportTyped ==
    ASSUME CrawlTyped, NEW i \in Importers, ImportUrl(i)
    PROVE  /\ imports' \in [Importers -> Import] /\ (\A j \in Importers : ImportControl(imports'[j]))
           /\ pasted' \in Nat /\ jobs' \in Seq(Job)
           /\ UNCHANGED <<running, runs, results, health, work, fetched>>
           /\ jobs' = jobs \/ \E p \in Imports : InsertJob(p, NoRun)
<1>0. imports \in [Importers -> Import] /\ ImportControl(imports[i]) /\ pasted \in Nat
      /\ jobs \in Seq(Job) /\ \A j \in Importers : ImportControl(imports[j])
  BY DEF CrawlTyped, TypeOK
<1>1. ASSUME NEW pc \in {"idle", "find_url", "find_name", "insert"}, NEW p \in Imports \cup {<<>>},
             pc # "idle" => p \in Imports, SetImport(i, pc, p)
      PROVE  imports' \in [Importers -> Import] /\ \A j \in Importers : ImportControl(imports'[j])
  <2>0. PICK m : m = [pc |-> pc, posting |-> p]
    OBVIOUS
  <2>1. m = [pc |-> pc, posting |-> p] /\ m \in Import /\ m.pc = pc /\ m.posting = p
    BY <2>0 DEF Import
  <2>2. imports' = [imports EXCEPT ![i] = m]
    BY <1>1, <2>1 DEF SetImport
  <2> QED
    BY <1>0, <1>1, <2>1, <2>2 DEF ImportControl
<1>2. imports[i].pc \in {"idle", "find_url", "find_name", "insert"}
      /\ (imports[i].pc # "idle" => imports[i].posting \in Imports)
  BY <1>0 DEF ImportControl, Import
<1>3. ASSUME NEW p \in Imports, InsertJob(p, NoRun) PROVE jobs' \in Seq(Job)
  <2>1. p.url \in Urls \cup {NoUrl} /\ p.name \in Names
    BY CrawlAssumption DEF CrawlAssumption, Posting
  <2>2. [url |-> p.url, name |-> p.name, run |-> NoRun] \in Job
    BY <2>1 DEF Job
  <2> QED
    BY <1>0, <1>3, <2>2, AppendProperties DEF InsertJob
<1>4. CASE Paste(i)
  <2>1. PICK p \in Imports : SetImport(i, "find_url", p)
    BY <1>4 DEF Paste
  <2> QED
    BY <1>0, <1>1, <1>4, <2>1 DEF Paste, tables
<1>5. CASE ImportLooks(i)
  <2>1. PICK pc \in {"idle", "find_name", "insert"}, p \in Imports \cup {<<>>} :
          SetImport(i, pc, p) /\ (pc # "idle" => p \in Imports)
    BY <1>2, <1>5 DEF ImportLooks
  <2> QED
    BY <1>0, <1>1, <1>5, <2>1 DEF ImportLooks, tables
<1>6. CASE ImportStores(i)
  <2>1. SetImport(i, "idle", <<>>) /\ imports[i].posting \in Imports
        /\ InsertJob(imports[i].posting, NoRun)
    BY <1>2, <1>6 DEF ImportStores
  <2> QED
    BY <1>0, <1>1, <1>3, <1>6, <2>1 DEF ImportStores
<1>7. CASE ImportFails(i)
  <2>1. SetImport(i, "idle", <<>>) /\ imports[i].posting \in Imports
        /\ (UNCHANGED jobs \/ InsertJob(imports[i].posting, NoRun))
    BY <1>2, <1>7 DEF ImportFails
  <2> QED
    BY <1>0, <1>1, <1>3, <1>7, <2>1 DEF ImportFails
<1> QED
  BY <1>4, <1>5, <1>6, <1>7 DEF ImportUrl

\* A step of a crawl leaves the imports alone.
LEMMA CrawlBeside ==
    ASSUME NEW c \in Callers, tryLock(c) \/ Proceed(c) \/ Fail(c)
    PROVE  UNCHANGED <<imports, pasted>>
  BY DEF tryLock, Proceed, Fail, importing, CreateRun, LoadPreferences, Collect, TakePosting, FindByUrl,
     FindByName, StorePosting, CloseCollector, CreateRunSourceResult, UpdateSourceHealth, NextCollector,
     FinishRun, unlock, StartFails, CollectFails, UpsertFails, ResultFails, HealthFails, FinishFails

\* The types, the control and the run rows: every step keeps them.
LEMMA TypedNext ==
    ASSUME CrawlTyped, [Next]_vars
    PROVE  CrawlTyped'
<1>0. LockInv' /\ TablesTyped
  BY LockNext DEF CrawlTyped, TypeOK, TablesTyped
<1>1. ASSUME NEW c \in Callers, tryLock(c) \/ Proceed(c) \/ Fail(c) PROVE CrawlTyped'
  <2>1. UNCHANGED <<imports, pasted>>
    BY <1>1, CrawlBeside
  <2>2. /\ TablesTyped' /\ work'[c] \in Work /\ Control(work'[c])
        /\ work' = [work EXCEPT ![c] = work'[c]]
    BY <1>1, StepTyped
  <2>3. InOrder' /\ \A d \in Callers : OwnsRun(work[d])'
    BY <1>1, OwnsStep
  <2>4. work' \in [Callers -> Work] /\ \A d \in Callers : Control(work'[d])
    BY <2>2 DEF CrawlTyped, TypeOK
  <2>5. TypeOK'
    BY <2>1, <2>2, <2>4 DEF CrawlTyped, TypeOK, TablesTyped
  <2> QED
    BY <1>0, <2>1, <2>3, <2>4, <2>5 DEF CrawlTyped
<1>2. ASSUME NEW i \in Importers, ImportUrl(i) PROVE CrawlTyped'
  <2>1. /\ imports' \in [Importers -> Import] /\ (\A j \in Importers : ImportControl(imports'[j]))
        /\ pasted' \in Nat /\ jobs' \in Seq(Job)
        /\ UNCHANGED <<running, runs, results, health, work, fetched>>
    BY <1>2, ImportTyped
  <2>2. TypeOK'
    BY <2>1 DEF CrawlTyped, TypeOK
  <2> QED
    BY <1>0, <2>1, <2>2 DEF CrawlTyped, InOrder, OwnsRun, LastRun
<1>3. CASE Crash
  <2>1. work' \in [Callers -> Work] /\ \A c \in Callers : work'[c] = Idle
    BY <1>3, IdleTyped DEF Crash
  <2>2. \A c \in Callers : Control(work'[c]) /\ work'[c].pc = "idle"
    BY <2>1, IdleTyped, IdlePc
  <2>3. imports' \in [Importers -> Import] /\ \A i \in Importers : ImportControl(imports'[i])
    BY <1>3 DEF Crash, NoImport, Import, ImportControl
  <2>4. TypeOK' /\ InOrder'
    BY <1>3, <2>1, <2>3 DEF Crash, tables, CrawlTyped, TypeOK, InOrder
  <2>5. \A c \in Callers : OwnsRun(work[c])'
    BY <2>2 DEF OwnsRun, Crawling, Handling, Upserting, Storing
  <2> QED
    BY <1>0, <2>2, <2>3, <2>4, <2>5 DEF CrawlTyped
<1>4. CASE UNCHANGED vars
  <2>1. TypeOK' /\ InOrder'
    BY <1>4 DEF vars, CrawlTyped, TypeOK, InOrder
  <2>2. \A c \in Callers : Control(work'[c]) /\ OwnsRun(work[c])'
    BY <1>4 DEF vars, CrawlTyped, OwnsRun, LastRun
  <2> QED
    BY <1>0, <1>4, <2>1, <2>2 DEF vars, CrawlTyped
<1> QED
  BY <1>1, <1>2, <1>3, <1>4 DEF Next

\* They hold of the empty tables.
LEMMA TypedInit == Init => CrawlTyped
<1> SUFFICES ASSUME Init PROVE CrawlTyped
  OBVIOUS
<1>1. work \in [Callers -> Work] /\ \A c \in Callers : work[c] = Idle
  BY IdleTyped DEF Init
<1>2. \A c \in Callers : Control(work[c]) /\ work[c].pc = "idle"
  BY <1>1, IdleTyped, IdlePc
<1>3. runs \in [RunIds -> Run] /\ \A r \in RunIds : runs[r].status = "absent"
  BY IdleTyped DEF Init, Run
<1>4. imports \in [Importers -> Import] /\ \A i \in Importers : ImportControl(imports[i])
  BY DEF Init, NoImport, Import, ImportControl
<1>5. jobs \in Seq(Job) /\ results \in [RunIds -> [StatKeys -> Stat]] /\ running \in BOOLEAN
      /\ pasted \in Nat
  <2>1. <<>> \in Seq(Job)
    OBVIOUS
  <2> QED
    BY <2>1, IdleTyped DEF Init
<1>6. health \in [Range(Sources) -> Health]
  BY DEF Init, Health
<1>7. fetched \in [RunIds -> [Range(Sources) -> Seq(Posting)]]
  <2>1. <<>> \in Seq(Posting)
    OBVIOUS
  <2> QED
    BY <2>1 DEF Init
<1>8. InOrder
  BY <1>3 DEF InOrder
<1>9. \A c \in Callers : OwnsRun(work[c])
  BY <1>2 DEF OwnsRun, Crawling, Handling, Upserting, Storing
<1> QED
  BY <1>1, <1>2, <1>3, <1>4, <1>5, <1>6, <1>7, <1>8, <1>9, LockInit DEF CrawlTyped, TypeOK

\* For any number of triggers, importers, sources and runs the variables of the
\* crawl keep their types: a run ends as a success or a partial success, no
\* counter becomes negative and no result is stored under a key that is neither
\* an origin nor a collector.
THEOREM CrawlTypes == Spec => []TypeOK
<1>1. CrawlTyped /\ [Next]_vars => CrawlTyped'
  BY TypedNext
<1>2. CrawlTyped => TypeOK
  BY DEF CrawlTyped
<1> QED
  BY <1>1, <1>2, TypedInit, PTL DEF Spec

-----------------------------------------------------------------------------
(* A run that says success has stored what its sources yielded.            *)

\* A crawl without an error that has visited the sources.
Clean(l) == l.pc \in Crawling /\ ~l.errors /\ l.summary.failed = 0
Visited(l) == Clean(l) /\ (l.next = 3 \/ (l.next = 2 /\ l.pc # "collect"))

\* Every posting yielded is in the jobs table, filtered, or still to be handled.
Promised(l) ==
    \A p \in Yielded(l.run) : \E q \in Yielded(l.run) :
        SamePosting(p, q) /\ (Accounted(q) \/ q \in Range(l.todo))
KeptInv ==
    /\ CrawlTyped /\ SuccessMeansStored
    /\ \A c \in Callers : Visited(work[c]) => Promised(work[c])

\* Rows of jobs stay.
JobsGrow == \A i \in DOMAIN jobs : i \in DOMAIN jobs' /\ jobs'[i] = jobs[i]

\* What an insertion does.
LEMMA InsertGrows ==
    ASSUME CrawlTyped, NEW p, NEW r, InsertJob(p, r)
    PROVE  /\ JobsGrow /\ DOMAIN jobs = 1..Len(jobs) /\ Len(jobs) \in Nat
           /\ DOMAIN jobs' = 1..(Len(jobs) + 1)
           /\ jobs'[Len(jobs) + 1].url = p.url /\ jobs'[Len(jobs) + 1].name = p.name
           /\ jobs'[Len(jobs) + 1].run = r
<1>1. PICK e : e = [url |-> p.url, name |-> p.name, run |-> r]
  OBVIOUS
<1>2. e.url = p.url /\ e.name = p.name /\ e.run = r
  BY <1>1
<1>3. jobs' = Append(jobs, e) /\ jobs \in Seq(Job)
  BY <1>1 DEF InsertJob, CrawlTyped, TypeOK
<1>4. jobs \in Seq(Job \cup {e})
  BY <1>3, SeqMonotonic
<1> QED
  BY <1>2, <1>3, <1>4, AppendProperties DEF JobsGrow

\* What is accounted for stays so, for every step of the system.
LEMMA NextGrows ==
    ASSUME CrawlTyped, [Next]_vars
    PROVE  JobsGrow
<1>1. ASSUME NEW c \in Callers, Proceed(c) \/ Fail(c) PROVE JobsGrow
  BY <1>1, ProceedJobs, InsertGrows DEF JobsGrow
<1>2. ASSUME NEW i \in Importers, ImportUrl(i) PROVE JobsGrow
  BY <1>2, ImportTyped, InsertGrows DEF JobsGrow
<1>3. ASSUME UNCHANGED jobs PROVE JobsGrow
  BY <1>3 DEF JobsGrow
<1> QED
  BY <1>1, <1>2, <1>3 DEF Next, tryLock, tables, Crash, vars

LEMMA AccountedStays ==
    ASSUME JobsGrow, NEW p, Accounted(p)
    PROVE  Accounted(p)'
  BY DEF JobsGrow, Accounted

\* What is accounted for after the step.
AccountedThen(p) ==
    p.filtered \/ \E i \in DOMAIN jobs' :
        jobs'[i].name = p.name \/ (p.url # NoUrl /\ jobs'[i].url = p.url)

\* A step of c that forgets no posting: what leaves todo is accounted for.
Handles(c) ==
    /\ fetched' = fetched
    /\ Visited(work'[c]) =>
        /\ Visited(work[c]) /\ work'[c].run = work[c].run
        /\ \A q \in Range(work[c].todo) : q \in Range(work'[c].todo) \/ AccountedThen(q)

\* How the end of a posting is seen to forget none.
LEMMA EndHandles ==
    ASSUME CrawlTyped, NEW c \in Callers, work[c].pc \in Upserting, JobsGrow,
           UNCHANGED fetched,
           \/ AccountedThen(Head(work[c].todo)) /\ work'[c] \in {Duplicated(work[c]), Created(work[c])}
           \/ work'[c] = NotStored(work[c])
    PROVE  Handles(c)
<1> DEFINE l == work[c]
<1>0. l \in Work /\ Control(l) /\ l.todo \in Seq(Posting) /\ l.todo # <<>>
      /\ DOMAIN l = {"pc", "run", "next", "todo", "stats", "flush", "key", "summary", "errors"}
      /\ l.summary \in Summary
  BY DEF CrawlTyped, TypeOK, Work, Control
<1>1. PICK t : t = PostingDone(l)
  OBVIOUS
<1>2. /\ t.todo = Tail(l.todo) /\ t.run = l.run /\ t.next = l.next /\ t.errors = l.errors
      /\ t.pc = "posting" /\ t.summary = l.summary /\ DOMAIN t = DOMAIN l
  BY <1>0, <1>1 DEF PostingDone
<1>3. CASE AccountedThen(Head(l.todo)) /\ work'[c] \in {Duplicated(l), Created(l)}
  <2>1. PICK m : m = work'[c]
    OBVIOUS
  <2>2. \/ m = [t EXCEPT !.summary.dup = @ + 1, !.stats[Head(l.todo).from].dup = @ + 1]
        \/ m = [t EXCEPT !.summary.created = @ + 1, !.stats[Head(l.todo).from].created = @ + 1]
    BY <1>1, <1>3, <2>1 DEF Duplicated, Created
  <2>3. m.todo = Tail(l.todo) /\ m.run = l.run /\ m.next = l.next /\ m.errors = l.errors
        /\ m.summary.failed = l.summary.failed
    <3>1. CASE m = [t EXCEPT !.summary.dup = @ + 1, !.stats[Head(l.todo).from].dup = @ + 1]
      BY <1>0, <1>2, <3>1 DEF Summary
    <3>2. CASE m = [t EXCEPT !.summary.created = @ + 1, !.stats[Head(l.todo).from].created = @ + 1]
      BY <1>0, <1>2, <3>2 DEF Summary
    <3> QED
      BY <2>2, <3>1, <3>2
  <2>4. \A q \in Range(l.todo) : q = Head(l.todo) \/ q \in Range(m.todo)
    BY <1>0, <2>3, TodoParts
  <2>5. Visited(m) => Visited(l)
    BY <2>3, <1>0 DEF Visited, Clean, Crawling, Handling, Upserting
  <2> QED
    BY <1>3, <2>1, <2>3, <2>4, <2>5 DEF Handles
<1>4. CASE work'[c] = NotStored(l)
  <2>1. work'[c] = [t EXCEPT !.errors = TRUE, !.stats[Head(l.todo).from].status = "partial_success"]
    BY <1>1, <1>4 DEF NotStored
  <2>2. work'[c].errors = TRUE
    BY <1>0, <1>2, <2>1
  <2> QED
    BY <2>2 DEF Handles, Visited, Clean
<1> QED
  BY <1>3, <1>4

\* A step that keeps todo, or has nothing to do, or has met an error.
LEMMA QuietHandles ==
    ASSUME NEW c \in Callers, UNCHANGED fetched,
           \/ ~Visited(work'[c])
           \/ /\ Visited(work[c]) /\ work'[c].run = work[c].run
              /\ work[c].todo \in {<<>>, work'[c].todo}
    PROVE  Handles(c)
  BY DEF Handles, Range

\* Every step but the fetching of the sources forgets nothing.
LEMMA StepHandles ==
    ASSUME CrawlTyped, NEW c \in Callers, tryLock(c) \/ Proceed(c) \/ Fail(c), JobsGrow,
           ~(Collect(c) /\ work[c].next = 2)
    PROVE  Handles(c)
<1> DEFINE l == work[c]
<1>0. DOMAIN l = {"pc", "run", "next", "todo", "stats", "flush", "key", "summary", "errors"}
      /\ l \in Work /\ work \in [Callers -> Work] /\ Control(l) /\ l.todo \in Seq(Posting)
      /\ l.summary \in Summary /\ Control(work'[c]) /\ l.next \in 1..3
  BY StepTyped, CollectorFacts DEF CrawlTyped, TypeOK, Work
<1>1. CASE CreateRun(c) \/ tryLock(c) \/ unlock(c)
  <2>1. work'[c].pc \in {"load", "create", "idle"} /\ UNCHANGED fetched
    BY <1>0, <1>1, IdlePc DEF CreateRun, tryLock, unlock, Goto, tables
  <2>2. ~Visited(work'[c])
    BY <1>0, <2>1 DEF Visited, Clean, Control
  <2> QED
    BY <2>1, <2>2, QuietHandles
<1>2. CASE LoadPreferences(c) \/ StartFails(c)
  <2>1. l.next = 1
    BY <1>0, <1>2 DEF LoadPreferences, StartFails, At, Control
  <2>2. work'[c].next = l.next /\ UNCHANGED fetched
    BY <1>0, <1>2 DEF LoadPreferences, StartFails, Goto
  <2>3. ~Visited(work'[c])
    BY <2>1, <2>2 DEF Visited
  <2> QED
    BY <2>2, <2>3, QuietHandles
<1>3. CASE Collect(c)
  <2>1. Collectors[l.next] = "seed" /\ l.next = 1
    <3>1. l.next <= 2
      BY <1>3, CollectorFacts DEF Collect
    <3>2. l.next # 2
      BY <1>3
    <3> QED
      BY <1>0, <3>1, <3>2, CollectorFacts
  <2>2. UNCHANGED fetched /\ Goto(c, [l EXCEPT !.pc = "posting", !.todo = <<>>, !.stats = NoStats,
                            !.summary.success = @ + 1, !.summary.found = @ + Len(<<>>)])
    BY <1>3, <2>1 DEF Collect
  <2>3. work'[c].next = 1
    BY <1>0, <2>1, <2>2 DEF Goto
  <2>4. ~Visited(work'[c])
    BY <2>3 DEF Visited
  <2> QED
    BY <2>2, <2>4, QuietHandles
<1>4. CASE CollectFails(c)
  <2>1. work'[c].errors = TRUE /\ UNCHANGED fetched
    BY <1>0, <1>4 DEF CollectFails, Goto
  <2> QED
    BY <2>1, QuietHandles DEF Visited, Clean
<1>5. CASE TakePosting(c)
  <2> DEFINE p == Head(l.todo)
             d == IF p.manual THEN 1 ELSE 0
  <2>1. l.pc = "posting" /\ l.todo # <<>> /\ UNCHANGED fetched
    BY <1>5 DEF TakePosting, At
  <2>2. PICK counted : counted = [l EXCEPT !.stats[p.from] = CountFound(@, p)]
    OBVIOUS
  <2>3. /\ counted.run = l.run /\ counted.todo = l.todo /\ counted.next = l.next /\ counted.pc = l.pc
        /\ counted.errors = l.errors /\ counted.summary = l.summary /\ DOMAIN counted = DOMAIN l
    BY <1>0, <2>2
  <2>4. PICK m : m = work'[c]
    OBVIOUS
  <2>5. CASE p.filtered
    <3>1. m = [counted EXCEPT !.todo = Tail(@), !.stats[p.from].filtered = @ + 1]
      BY <1>0, <1>5, <2>2, <2>4, <2>5, ZenonT(40) DEF TakePosting, Goto
    <3> HIDE DEF p
    <3>2. m.run = l.run /\ m.todo = Tail(l.todo) /\ m.next = l.next /\ m.pc = l.pc
          /\ m.errors = l.errors /\ m.summary = l.summary
      BY <1>0, <2>3, <3>1
    <3>3. AccountedThen(p)
      BY <2>5 DEF AccountedThen, p
    <3>4. \A q \in Range(l.todo) : q = p \/ q \in Range(m.todo)
      BY <1>0, <2>1, <3>2, TodoParts DEF p
    <3> QED
      BY <2>1, <2>4, <3>2, <3>3, <3>4 DEF Handles, Visited, Clean
  <2>6. CASE ~p.filtered
    <3>1. m = [counted EXCEPT !.pc = "find_url", !.stats[p.from].manual = @ + d,
                              !.summary.manual = @ + d]
      BY <1>0, <1>5, <2>2, <2>4, <2>6, ZenonT(40) DEF TakePosting, Goto
    <3> HIDE DEF p, d
    <3>2. m.run = l.run /\ m.todo = l.todo /\ m.next = l.next /\ m.pc = "find_url"
          /\ m.errors = l.errors /\ m.summary.failed = l.summary.failed
      BY <1>0, <2>3, <3>1 DEF Summary
    <3>3. Visited(m) => Visited(l)
      BY <2>1, <3>2 DEF Visited, Clean, Crawling, Handling
    <3> QED
      BY <2>1, <2>4, <3>2, <3>3, QuietHandles
  <2> QED
    BY <2>5, <2>6
<1>6. CASE FindByUrl(c)
  <2>1. l.pc \in Upserting /\ UNCHANGED <<fetched, jobs>>
    BY <1>6 DEF FindByUrl, At, Upserting, tables
  <2>2. CASE HasUrl(Head(l.todo).url)
    <3>1. work'[c] = Duplicated(l)
      BY <1>0, <1>6, <2>2 DEF FindByUrl, Goto
    <3>2. AccountedThen(Head(l.todo))
      BY <2>1, <2>2 DEF HasUrl, AccountedThen
    <3> QED
      BY <2>1, <3>1, <3>2, EndHandles
  <2>3. CASE ~HasUrl(Head(l.todo).url)
    <3>1. work'[c] = [l EXCEPT !.pc = "find_name"]
      BY <1>0, <1>6, <2>3 DEF FindByUrl, Goto
    <3>2. Visited(work'[c]) => Visited(l)
      BY <1>0, <2>1, <3>1 DEF Visited, Clean, Crawling, Handling, Upserting
    <3> QED
      BY <1>0, <2>1, <3>1, <3>2, QuietHandles
  <2> QED
    BY <2>2, <2>3
<1>7. CASE FindByName(c)
  <2>1. l.pc \in Upserting /\ UNCHANGED <<fetched, jobs>>
    BY <1>7 DEF FindByName, At, Upserting, tables
  <2>2. CASE HasName(Head(l.todo).name)
    <3>1. work'[c] = Duplicated(l)
      BY <1>0, <1>7, <2>2 DEF FindByName, Goto
    <3>2. AccountedThen(Head(l.todo))
      BY <2>1, <2>2 DEF HasName, AccountedThen
    <3> QED
      BY <2>1, <3>1, <3>2, EndHandles
  <2>3. CASE ~HasName(Head(l.todo).name)
    <3>1. work'[c] = [l EXCEPT !.pc = "insert"]
      BY <1>0, <1>7, <2>3 DEF FindByName, Goto
    <3>2. Visited(work'[c]) => Visited(l)
      BY <1>0, <2>1, <3>1 DEF Visited, Clean, Crawling, Handling, Upserting
    <3> QED
      BY <1>0, <2>1, <3>1, <3>2, QuietHandles
  <2> QED
    BY <2>2, <2>3
<1>8. CASE StorePosting(c)
  <2>1. l.pc \in Upserting /\ UNCHANGED fetched /\ InsertJob(Head(l.todo), l.run)
        /\ work'[c] = Created(l)
    BY <1>0, <1>8 DEF StorePosting, At, Upserting, Goto
  <2>2. /\ DOMAIN jobs' = 1..(Len(jobs) + 1) /\ Len(jobs) \in Nat
        /\ jobs'[Len(jobs) + 1].name = Head(l.todo).name
    BY <2>1, InsertGrows
  <2>3. AccountedThen(Head(l.todo))
    BY <2>2 DEF AccountedThen
  <2> QED
    BY <2>1, <2>3, EndHandles
<1>9. CASE UpsertFails(c)
  <2>1. l.pc \in Upserting /\ UNCHANGED fetched /\ work'[c] = NotStored(l)
    BY <1>0, <1>9 DEF UpsertFails, At, Upserting, Goto
  <2> QED
    BY <2>1, EndHandles
<1>10. CASE CloseCollector(c)
  <2>1. l.pc = "posting" /\ l.todo = <<>> /\ UNCHANGED fetched
    BY <1>10 DEF CloseCollector, At
  <2>2. work'[c].run = l.run /\ work'[c].next = l.next /\ work'[c].errors = l.errors
        /\ work'[c].summary = l.summary
    BY <1>0, <1>10 DEF CloseCollector, Goto
  <2>3. Visited(work'[c]) => Visited(l)
    BY <2>1, <2>2 DEF Visited, Clean, Crawling, Handling
  <2> QED
    BY <2>1, <2>2, <2>3, QuietHandles
<1>11. CASE CreateRunSourceResult(c) \/ UpdateSourceHealth(c)
  <2>1. l.pc \in Storing /\ l.todo = <<>> /\ UNCHANGED fetched
    BY <1>0, <1>11 DEF CreateRunSourceResult, UpdateSourceHealth, At, Storing, Control
  <2>2. work'[c].run = l.run /\ work'[c].next = l.next /\ work'[c].errors = l.errors
        /\ work'[c].summary = l.summary
    <3>1. CASE CreateRunSourceResult(c)
      BY <1>0, <3>1 DEF CreateRunSourceResult, Goto
    <3>2. CASE UpdateSourceHealth(c)
      BY <1>0, <3>2 DEF UpdateSourceHealth, Goto
    <3> QED
      BY <1>11, <3>1, <3>2
  <2>3. Visited(work'[c]) => Visited(l)
    BY <2>1, <2>2 DEF Visited, Clean, Crawling, Storing
  <2> QED
    BY <2>1, <2>2, <2>3, QuietHandles
<1>12. CASE ResultFails(c) \/ HealthFails(c)
  <2>1. work'[c].errors = TRUE /\ UNCHANGED fetched
    BY <1>0, <1>12, ZenonT(40) DEF ResultFails, HealthFails, Goto
  <2> QED
    BY <2>1, QuietHandles DEF Visited, Clean
<1>13. CASE NextCollector(c)
  <2>1. l.pc = "results" /\ l.todo = <<>> /\ UNCHANGED fetched
    BY <1>0, <1>13 DEF NextCollector, At, Storing, Control
  <2>2. work'[c].run = l.run /\ work'[c].next = l.next + 1 /\ work'[c].errors = l.errors
        /\ work'[c].summary = l.summary /\ work'[c].pc = "collect"
    BY <1>0, <1>13 DEF NextCollector, Goto
  <2>3. Visited(work'[c]) => Visited(l)
    BY <1>0, <2>1, <2>2 DEF Visited, Clean, Crawling, Storing
  <2> QED
    BY <2>1, <2>2, <2>3, QuietHandles
<1>14. CASE FinishRun(c) \/ FinishFails(c)
  <2>1. work'[c].pc = "unlock" /\ UNCHANGED fetched
    BY <1>0, <1>14 DEF FinishRun, FinishFails, Goto
  <2> QED
    BY <2>1, QuietHandles DEF Visited, Clean, Crawling, Handling, Upserting, Storing
<1> QED
  BY <1>1, <1>2, <1>3, <1>4, <1>5, <1>6, <1>7, <1>8, <1>9, <1>10, <1>11, <1>12, <1>13, <1>14
     DEF Proceed, Fail

\* Fetching the sources makes the promise: every posting they yield is in todo,
\* by itself or as one of the same page.
LEMMA FetchPromises ==
    ASSUME CrawlTyped, NEW c \in Callers, Collect(c), work[c].next = 2
    PROVE  /\ Promised(work[c])' /\ work'[c].run = work[c].run
           /\ \A r \in RunIds \ {work[c].run} : fetched'[r] = fetched[r]
<1> DEFINE l == work[c]
<1>0. DOMAIN l = {"pc", "run", "next", "todo", "stats", "flush", "key", "summary", "errors"}
      /\ l \in Work /\ work \in [Callers -> Work] /\ Control(l)
      /\ fetched \in [RunIds -> [Range(Sources) -> Seq(Posting)]]
  BY DEF CrawlTyped, TypeOK, Work
<1>1. l.pc = "collect" /\ l.run \in RunIds
  BY <1>0 DEF Collect, At, Control, Crawling
<1>2. PICK f \in [Range(Sources) -> UNION {Outcomes(s) : s \in Range(Sources)}] :
        /\ \A s \in Range(Sources) : f[s] \in Outcomes(s)
        /\ fetched' = [fetched EXCEPT ![l.run] = f]
        /\ Goto(c, [l EXCEPT !.pc = "posting", !.todo = Collected(f), !.stats = NoStats,
                             !.summary.success = @ + 1,
                             !.summary.found = @ + Len(Collected(f))])
  BY CollectorFacts DEF Collect
<1>3. f \in [Range(Sources) -> Seq(Posting)]
  BY <1>2, OutcomesTyped
<1>4. work'[c].todo = Collected(f) /\ work'[c].run = l.run
  BY <1>0, <1>2 DEF Goto
<1>5. fetched'[l.run] = f /\ \A r \in RunIds \ {l.run} : fetched'[r] = fetched[r]
  BY <1>0, <1>1, <1>2
<1>6. Yielded(work[c].run)' = UNION {Range(f[s]) : s \in Range(Sources)}
  BY <1>4, <1>5 DEF Yielded
<1>7. ASSUME NEW p \in Yielded(work[c].run)'
      PROVE  \E q \in Yielded(work[c].run)' :
                SamePosting(p, q) /\ (Accounted(q)' \/ q \in Range(work'[c].todo))
  <2>1. PICK s \in Range(Sources) : p \in Range(f[s])
    BY <1>6, <1>7
  <2>2. PICK q \in Range(Collected(f)) : UniqueKey(q) = UniqueKey(p)
    BY <1>3, <2>1, CrawlAssumption, CollectedCovers
  <2>3. q \in Yielded(work[c].run)'
    BY <1>3, <1>6, <2>2, CrawlAssumption, CollectedCovers
  <2> QED
    BY <1>4, <2>2, <2>3 DEF SamePosting
<1>8. Promised(work[c])'
  BY <1>7 DEF Promised, SamePosting, UniqueKey
<1> QED
  BY <1>4, <1>5, <1>8

\* A crawl that stores the outcome "success" has handled all its postings.
LEMMA SuccessHandled ==
    ASSUME KeptInv, NEW c \in Callers, FinishRun(c), NEW r \in RunIds,
           runs'[r].status = "success", runs[r].status # "success"
    PROVE  \A p \in Yielded(r) : \E q \in Yielded(r) : SamePosting(p, q) /\ Accounted(q)
<1> DEFINE l == work[c]
<1>1. r = l.run /\ Outcome(l) = "success"
  BY DEF FinishRun, StoreRun, KeptInv, CrawlTyped, TypeOK
<1>2. l.pc = "collect" /\ l.next > 2 /\ l.todo = <<>> /\ l.next \in 1..3 /\ l.summary \in Summary
  BY CollectorFacts DEF FinishRun, At, KeptInv, CrawlTyped, TypeOK, Work, Control
<1>3. Visited(l)
  <2>1. ~l.errors /\ ~(l.summary.failed > 0)
    BY <1>1 DEF Outcome
  <2>2. l.summary.failed \in Nat
    BY <1>2, SummaryTyped
  <2> QED
    BY <1>2, <2>1, <2>2 DEF Visited, Clean, Crawling
<1>4. Range(l.todo) = {}
  BY <1>2 DEF Range
<1> QED
  BY <1>1, <1>3, <1>4 DEF KeptInv, Promised

\* Every step of the system keeps the promise.
LEMMA KeptNext ==
    ASSUME KeptInv, [Next]_vars
    PROVE  KeptInv'
<1>0. CrawlTyped /\ CrawlTyped' /\ JobsGrow /\ LockInv
  BY TypedNext, NextGrows DEF KeptInv, CrawlTyped
<1>1. ASSUME UNCHANGED <<runs, fetched>> PROVE SuccessMeansStored'
  BY <1>0, <1>1, AccountedStays DEF KeptInv, SuccessMeansStored, Yielded
<1>2. ASSUME NEW c \in Callers, tryLock(c) \/ Proceed(c) \/ Fail(c) PROVE KeptInv'
  <2> DEFINE l == work[c]
  <2>0. /\ work' = [work EXCEPT ![c] = work'[c]]
        /\ \A d \in Callers : d # c => work'[d].pc = "idle"
    BY <1>0, <1>2, StepTyped, OthersOutside
  <2>1. \A d \in Callers : d # c => ~Visited(work'[d])
    BY <2>0 DEF Visited, Clean, Crawling, Handling, Upserting, Storing
  <2>2. CASE Collect(c) /\ l.next = 2
    <3>1. /\ Promised(work[c])' /\ \A r \in RunIds \ {l.run} : fetched'[r] = fetched[r]
      BY <1>0, <2>2, FetchPromises
    <3>2. UNCHANGED <<runs, jobs>> /\ runs[l.run].status = "running"
      BY <1>0, <2>2 DEF Collect, tables, CrawlTyped, OwnsRun, At, Crawling
    <3>3. ASSUME NEW r \in RunIds, runs'[r].status = "success",
                 NEW p \in Yielded(r)'
          PROVE  \E q \in Yielded(r)' : SamePosting(p, q) /\ Accounted(q)'
      <4>1. r # l.run /\ fetched'[r] = fetched[r]
        BY <3>1, <3>2, <3>3
      <4>2. Yielded(r)' = Yielded(r)
        BY <4>1 DEF Yielded
      <4> QED
        BY <1>0, <3>2, <3>3, <4>2, AccountedStays DEF KeptInv, SuccessMeansStored
    <3>4. SuccessMeansStored'
      BY <3>3 DEF SuccessMeansStored, SamePosting, UniqueKey
    <3> QED
      BY <1>0, <2>1, <3>1, <3>4 DEF KeptInv
  <2>3. CASE ~(Collect(c) /\ l.next = 2)
    <3>1. Handles(c)
      BY <1>0, <1>2, <2>3, StepHandles
    <3>2. \A r : Yielded(r)' = Yielded(r)
      BY <3>1 DEF Handles, Yielded
    <3>3. Visited(work[c])' => Promised(work[c])'
      <4>1. \A q : AccountedThen(q) => Accounted(q)'
        BY DEF AccountedThen, Accounted
      <4> QED
        BY <1>0, <3>1, <3>2, <4>1, AccountedStays
         DEF KeptInv, Handles, Promised, SamePosting, UniqueKey, Visited, Clean
    <3>4. ASSUME NEW r \in RunIds, runs'[r].status = "success",
                 NEW p \in Yielded(r)'
          PROVE  \E q \in Yielded(r)' : SamePosting(p, q) /\ Accounted(q)'
      <4>1. CASE runs[r].status = "success"
        BY <1>0, <3>2, <3>4, <4>1, AccountedStays DEF KeptInv, SuccessMeansStored
      <4>2. CASE runs[r].status # "success"
        <5>1. FinishRun(c)
          <6>1. CreateRun(c) => runs'[r].status # "success"
            BY <4>2 DEF CreateRun, KeptInv, CrawlTyped, TypeOK
          <6> QED
            BY <1>0, <1>2, <3>4, <4>2, <6>1, RowKept DEF KeepsRow
        <5> QED
          BY <1>0, <3>2, <3>4, <4>2, <5>1, SuccessHandled, AccountedStays
      <4> QED
        BY <4>1, <4>2
    <3>5. SuccessMeansStored'
      BY <3>4 DEF SuccessMeansStored, SamePosting, UniqueKey
    <3> QED
      BY <1>0, <2>1, <3>3, <3>5 DEF KeptInv
  <2> QED
    BY <2>2, <2>3
<1>3. ASSUME UNCHANGED <<runs, fetched, work>> PROVE KeptInv'
  <2>1. ASSUME NEW c \in Callers, Visited(work'[c]) PROVE Promised(work[c])'
    BY <1>0, <1>3, <2>1, AccountedStays DEF KeptInv, Promised, Yielded, SamePosting, UniqueKey
  <2>2. \A c \in Callers : Visited(work[c])' => Promised(work[c])'
    BY <2>1 DEF Visited, Clean
  <2> QED
    BY <1>0, <1>1, <1>3, <2>2 DEF KeptInv
<1>4. ASSUME NEW i \in Importers, ImportUrl(i) PROVE KeptInv'
  BY <1>0, <1>3, <1>4, ImportTyped
<1>5. CASE Crash
  <2>1. UNCHANGED <<runs, fetched>> /\ \A c \in Callers : work'[c].pc = "idle"
    BY <1>5, IdlePc DEF Crash, tables
  <2>2. \A c \in Callers : ~Visited(work[c])'
    BY <2>1 DEF Visited, Clean, Crawling, Handling, Upserting, Storing
  <2> QED
    BY <1>0, <1>1, <2>1, <2>2 DEF KeptInv
<1>6. CASE UNCHANGED vars
  BY <1>3, <1>6 DEF vars
<1> QED
  BY <1>2, <1>4, <1>5, <1>6 DEF Next

\* Nothing is promised before the first run.
LEMMA KeptInit == Init => KeptInv
<1> SUFFICES ASSUME Init PROVE KeptInv
  OBVIOUS
<1>1. \A c \in Callers : work[c].pc = "idle"
  BY IdlePc DEF Init
<1>2. \A c \in Callers : ~Visited(work[c])
  BY <1>1 DEF Visited, Clean, Crawling, Handling, Upserting, Storing
<1>3. SuccessMeansStored
  BY DEF Init, SuccessMeansStored
<1> QED
  BY <1>2, <1>3, TypedInit DEF KeptInv

\* A run that reports success has lost nothing, for any number of sources and
\* postings, any triggers and importers beside it and whatever failed before:
\* every posting its sources yielded was filtered or is in the jobs table, by
\* itself or as the one of the same page.
THEOREM SuccessStored == Spec => []SuccessMeansStored
<1>1. KeptInv /\ [Next]_vars => KeptInv'
  BY KeptNext
<1>2. KeptInv => SuccessMeansStored
  BY DEF KeptInv
<1> QED
  BY <1>1, <1>2, KeptInit, PTL DEF Spec

-----------------------------------------------------------------------------
(* The health of the sources follows the results of the last run.          *)

\* Before its row is inserted a run has no results.
Unreported(r) == runs[r].status = "absent" => results[r] = NoStats

\* A run that reported success, or has met no error so far.
Whole(r) ==
    \/ runs[r].status = "success"
    \/ \E c \in Callers : Clean(work[c]) /\ work[c].run = r
\* Run r and those after it met no error, and those after it say nothing of s.
SaysNothing(r, s) == runs[r].status = "absent" \/ (Whole(r) /\ ResultsOf(r, s) = {})
Current(r, s) == Whole(r) /\ \A q \in RunIds : q > r => SaysNothing(q, s)

\* The row of source s is about to be updated.
Awaited(l, s) == l.pc = "health" /\ l.key \in Origins /\ PageOf[l.key] = PageOf[s]
Agrees(r, s) ==
    Current(r, s) /\ ResultsOf(r, s) # {} =>
        Shows(r, s) \/ \E c \in Callers : Clean(work[c]) /\ Awaited(work[c], s)

\* In a crawl without an error, the stats to be stored are there, and the health
\* update follows the result it is about.
Informed(l) ==
    /\ l.pc \in Storing => \A k \in l.flush : l.stats[k].status # "absent"
    /\ l.pc = "health" =>
        results[l.run][l.key] = l.stats[l.key] /\ l.stats[l.key].status # "absent"
HealthInv ==
    /\ CrawlTyped
    /\ \A r \in RunIds : Unreported(r)
    /\ \A s \in Range(Sources) : health[s].failures > 0 <=> health[s].status = "broken"
    /\ \A r \in RunIds, s \in Range(Sources) : Agrees(r, s)
    /\ \A c \in Callers : Clean(work[c]) => Informed(work[c])

\* A page among the sources is a key of the stats.
LEMMA SourceKeys == Range(Sources) \subseteq Origins /\ Origins \subseteq StatKeys
<1>1. Range(Sources) \subseteq Origins
  BY CrawlAssumption, ElementOfSeq DEF CrawlAssumption, Range
<1> QED
  BY <1>1, CollectorFacts

\* A crawl stores results under its own run only.
LEMMA ResultsOwned ==
    ASSUME CrawlTyped, NEW c \in Callers, tryLock(c) \/ Proceed(c) \/ Fail(c)
    PROVE  \/ results' = results
           \/ /\ work[c].run \in RunIds /\ runs' = runs /\ runs[work[c].run].status = "running"
              /\ \A r \in RunIds \ {work[c].run} : results'[r] = results[r]
<1> DEFINE l == work[c]
<1>0. Control(l) /\ OwnsRun(l) /\ results \in [RunIds -> [StatKeys -> Stat]]
  BY DEF CrawlTyped, TypeOK
<1>1. ASSUME l.pc \in Crawling, UNCHANGED runs, NEW k, NEW x,
             results' = [results EXCEPT ![l.run][k] = x]
             \/ results' = [results EXCEPT ![l.run][k].status = x]
      PROVE  /\ l.run \in RunIds /\ runs' = runs /\ runs[l.run].status = "running"
             /\ \A r \in RunIds \ {l.run} : results'[r] = results[r]
  BY <1>0, <1>1 DEF Control, OwnsRun
<1>2. CASE CollectFails(c)
  BY <1>1, <1>2 DEF CollectFails, At, Crawling
<1>3. CASE CreateRunSourceResult(c) \/ ResultFails(c)
  BY <1>1, <1>3 DEF CreateRunSourceResult, ResultFails, At, Crawling, Storing
<1>4. CASE tryLock(c) \/ (Proceed(c) /\ ~CreateRunSourceResult(c))
  BY <1>4 DEF tryLock, Proceed, tables, CreateRun, LoadPreferences, Collect, TakePosting, FindByUrl,
     FindByName, StorePosting, CloseCollector, UpdateSourceHealth, NextCollector, FinishRun, unlock
<1>5. CASE Fail(c) /\ ~CollectFails(c) /\ ~ResultFails(c)
  BY <1>5 DEF Fail, tables, StartFails, UpsertFails, HealthFails, FinishFails
<1> QED
  BY <1>2, <1>3, <1>4, <1>5

\* Only one step changes the health of sources.
LEMMA HealthOwned ==
    ASSUME NEW c \in Callers, tryLock(c) \/ Proceed(c) \/ Fail(c), ~UpdateSourceHealth(c)
    PROVE  health' = health
<1>1. CASE tryLock(c) \/ Proceed(c)
  BY <1>1 DEF tryLock, Proceed, tables, CreateRun, LoadPreferences, Collect, TakePosting, FindByUrl,
     FindByName, StorePosting, CloseCollector, CreateRunSourceResult, NextCollector, FinishRun, unlock
<1>2. CASE Fail(c)
  BY <1>2 DEF Fail, tables, StartFails, CollectFails, UpsertFails, ResultFails, HealthFails, FinishFails
<1> QED
  BY <1>1, <1>2

\* Every other step leaves the crawl with an error, or with nothing new to tell.
LEMMA QuietInformed ==
    ASSUME CrawlTyped, NEW c \in Callers, Proceed(c) \/ Fail(c) \/ tryLock(c),
           ~CreateRun(c), ~CreateRunSourceResult(c), ~UpdateSourceHealth(c), Clean(work'[c])
    PROVE  /\ Clean(work[c]) /\ work'[c].run = work[c].run /\ results' = results
           /\ work[c].pc # "health" /\ work'[c].pc # "health"
<1> DEFINE l == work[c]
<1>0. DOMAIN l = {"pc", "run", "next", "todo", "stats", "flush", "key", "summary", "errors"}
      /\ l \in Work /\ work \in [Callers -> Work] /\ Control(l) /\ l.summary \in Summary
  BY DEF CrawlTyped, TypeOK, Work
<1>1. CASE LoadPreferences(c)
  BY <1>0, <1>1 DEF LoadPreferences, At, Goto, tables, Clean, Crawling
<1>2. CASE StartFails(c) \/ FinishRun(c) \/ FinishFails(c)
  <2>1. work'[c].pc = "unlock"
    BY <1>0, <1>2 DEF StartFails, FinishRun, FinishFails, Goto
  <2> QED
    BY <2>1 DEF Clean, Crawling, Handling, Upserting, Storing
<1>3. CASE Collect(c)
  <2>1. PICK postings, m :
          /\ m = [l EXCEPT !.pc = "posting", !.todo = postings, !.stats = NoStats,
                           !.summary.success = @ + 1, !.summary.found = @ + Len(postings)]
          /\ Goto(c, m)
    BY <1>3 DEF Collect
  <2>2. PICK n, k : n = l.summary.success + 1 /\ k = l.summary.found + Len(postings)
    OBVIOUS
  <2>3. m = [l EXCEPT !.pc = "posting", !.todo = postings, !.stats = NoStats,
                      !.summary.success = n, !.summary.found = k]
    BY <2>1, <2>2
  <2>4. m.run = l.run /\ m.errors = l.errors /\ m.summary.failed = l.summary.failed
        /\ m.pc = "posting"
    BY <1>0, <2>3 DEF Summary
  <2>5. work'[c] = m
    BY <1>0, <2>1 DEF Goto
  <2> QED
    BY <1>3, <2>4, <2>5 DEF Collect, At, tables, Clean, Crawling
<1>4. CASE CollectFails(c) \/ ResultFails(c) \/ HealthFails(c)
  <2>1. CASE CollectFails(c)
    BY <1>0, <2>1 DEF CollectFails, Goto, Clean
  <2>2. CASE ResultFails(c)
    BY <1>0, <2>2 DEF ResultFails, Goto, Clean
  <2>3. CASE HealthFails(c)
    BY <1>0, <2>3 DEF HealthFails, Goto, Clean
  <2> QED
    BY <1>4, <2>1, <2>2, <2>3
<1>5. CASE TakePosting(c)
  <2> DEFINE p == Head(l.todo)
             d == IF p.manual THEN 1 ELSE 0
  <2>1. l.pc = "posting" /\ UNCHANGED results
    BY <1>5 DEF TakePosting, At, tables
  <2>2. PICK counted : counted = [l EXCEPT !.stats[p.from] = CountFound(@, p)]
    OBVIOUS
  <2>3. /\ counted.run = l.run /\ counted.pc = l.pc /\ counted.errors = l.errors
        /\ counted.summary = l.summary /\ DOMAIN counted = DOMAIN l
    BY <1>0, <2>2
  <2>4. PICK m : m = work'[c]
    OBVIOUS
  <2>5. CASE p.filtered
    <3>1. m = [counted EXCEPT !.todo = Tail(@), !.stats[p.from].filtered = @ + 1]
      BY <1>0, <1>5, <2>2, <2>4, <2>5, ZenonT(40) DEF TakePosting, Goto
    <3> HIDE DEF p
    <3>2. m.run = l.run /\ m.errors = l.errors /\ m.summary = l.summary /\ m.pc = "posting"
      BY <1>0, <2>1, <2>3, <3>1
    <3> QED
      BY <2>1, <2>4, <3>2 DEF Clean, Crawling, Handling
  <2>6. CASE ~p.filtered
    <3>1. m = [counted EXCEPT !.pc = "find_url", !.stats[p.from].manual = @ + d,
                              !.summary.manual = @ + d]
      BY <1>0, <1>5, <2>2, <2>4, <2>6, ZenonT(40) DEF TakePosting, Goto
    <3> HIDE DEF p, d
    <3>2. m.run = l.run /\ m.errors = l.errors /\ m.summary.failed = l.summary.failed
          /\ m.pc = "find_url"
      BY <1>0, <2>3, <3>1 DEF Summary
    <3> QED
      BY <2>1, <2>4, <3>2 DEF Clean, Crawling, Handling
  <2> QED
    BY <2>5, <2>6
<1>6. ASSUME l.pc \in Upserting, UNCHANGED results,
             work'[c] \in {Duplicated(l), Created(l), NotStored(l)}
      PROVE  /\ Clean(l) /\ work'[c].run = l.run /\ results' = results
             /\ l.pc # "health" /\ work'[c].pc # "health"
  <2>1. PICK t : t = PostingDone(l)
    OBVIOUS
  <2>2. /\ t.run = l.run /\ t.errors = l.errors /\ t.pc = "posting" /\ t.summary = l.summary
        /\ DOMAIN t = DOMAIN l
    BY <1>0, <2>1 DEF PostingDone
  <2>3. PICK m, k : m = work'[c] /\ k = Head(l.todo).from
    OBVIOUS
  <2>4. \/ m = [t EXCEPT !.summary.dup = @ + 1, !.stats[k].dup = @ + 1]
        \/ m = [t EXCEPT !.summary.created = @ + 1, !.stats[k].created = @ + 1]
        \/ m = [t EXCEPT !.errors = TRUE, !.stats[k].status = "partial_success"]
    BY <1>6, <2>1, <2>3 DEF Duplicated, Created, NotStored
  <2>5. m.run = l.run /\ m.pc = "posting" /\ (m.errors = l.errors \/ m.errors = TRUE)
        /\ m.summary.failed = l.summary.failed
    <3>1. CASE m = [t EXCEPT !.summary.dup = @ + 1, !.stats[k].dup = @ + 1]
      BY <1>0, <2>2, <3>1 DEF Summary
    <3>2. CASE m = [t EXCEPT !.summary.created = @ + 1, !.stats[k].created = @ + 1]
      BY <1>0, <2>2, <3>2 DEF Summary
    <3>3. CASE m = [t EXCEPT !.errors = TRUE, !.stats[k].status = "partial_success"]
      BY <1>0, <2>2, <3>3 DEF Summary
    <3> QED
      BY <2>4, <3>1, <3>2, <3>3
  <2> QED
    BY <1>6, <2>3, <2>5 DEF Clean, Crawling, Handling, Upserting
<1>7. ASSUME l.pc \in Upserting, UNCHANGED results, NEW pc \in {"find_name", "insert"},
             work'[c] = [l EXCEPT !.pc = pc]
      PROVE  /\ Clean(l) /\ work'[c].run = l.run /\ results' = results
             /\ l.pc # "health" /\ work'[c].pc # "health"
  BY <1>0, <1>7 DEF Clean, Crawling, Handling, Upserting
<1>8. CASE FindByUrl(c) \/ FindByName(c)
  <2>1. l.pc \in Upserting /\ UNCHANGED results
    BY <1>8 DEF FindByUrl, FindByName, At, Upserting, tables
  <2>2. work'[c] = Duplicated(l) \/ \E pc \in {"find_name", "insert"} : work'[c] = [l EXCEPT !.pc = pc]
    BY <1>0, <1>8 DEF FindByUrl, FindByName, Goto
  <2> QED
    BY <1>6, <1>7, <2>1, <2>2
<1>9. CASE StorePosting(c) \/ UpsertFails(c)
  <2>1. l.pc \in Upserting /\ UNCHANGED results /\ work'[c] \in {Created(l), NotStored(l)}
    BY <1>0, <1>9 DEF StorePosting, UpsertFails, At, Upserting, Goto
  <2> QED
    BY <1>6, <2>1
<1>10. CASE CloseCollector(c)
  <2>1. l.pc = "posting" /\ UNCHANGED results
    BY <1>10 DEF CloseCollector, At, tables
  <2>2. work'[c].run = l.run /\ work'[c].errors = l.errors /\ work'[c].summary = l.summary
        /\ work'[c].pc = "results"
    BY <1>0, <1>10 DEF CloseCollector, Goto
  <2> QED
    BY <2>1, <2>2 DEF Clean, Crawling, Handling
<1>11. CASE NextCollector(c)
  BY <1>0, <1>11 DEF NextCollector, At, Goto, tables, Clean, Crawling, Storing
<1>12. CASE tryLock(c) \/ unlock(c)
  BY <1>12, LockTyped DEF Clean, Crawling, Handling, Upserting, Storing
<1> QED
  BY <1>1, <1>2, <1>3, <1>4, <1>5, <1>8, <1>9, <1>10, <1>11, <1>12 DEF Proceed, Fail

\* After a step into an error nothing is said of any source.
LEMMA NothingCurrent ==
    ASSUME CrawlTyped', NEW r \in RunIds, LastRun(r)', (runs[r].status # "success")',
           \A c \in Callers : ~(Clean(work[c]) /\ work[c].run = r)', NEW s
    PROVE  \A q \in RunIds : ~Current(q, s)'
<1>1. ~Whole(r)' /\ (runs[r].status # "absent")'
  BY DEF Whole, LastRun
<1>2. ASSUME NEW q \in RunIds, q > r PROVE ~Whole(q)'
  <2>1. (runs[q].status = "absent")'
    BY <1>2 DEF LastRun
  <2>2. \A c \in Callers : ~(Clean(work[c]) /\ work[c].run = q)'
    BY <2>1 DEF CrawlTyped, OwnsRun, Clean
  <2> QED
    BY <2>1, <2>2 DEF Whole
<1>3. ASSUME NEW q \in RunIds, q < r PROVE ~Current(q, s)'
  BY <1>1, <1>3 DEF Current, SaysNothing, RunIds
<1> QED
  BY <1>1, <1>2, <1>3 DEF Current, RunIds

\* While a crawl goes on without an error its run is the newest.
LEMMA CleanOwns ==
    ASSUME CrawlTyped, NEW c \in Callers, work[c].pc \in Crawling
    PROVE  work[c].run \in RunIds /\ LastRun(work[c].run) /\ runs[work[c].run].status = "running"
  BY DEF CrawlTyped, Control, OwnsRun

\* A stored result waits for its health update and leaves the others alone.
LEMMA ResultInforms ==
    ASSUME HealthInv, NEW c \in Callers, CreateRunSourceResult(c), Clean(work'[c]),
           \A d \in Callers : d # c => ~Clean(work[d]) /\ ~Clean(work'[d])
    PROVE  Informed(work[c])' /\ \A r \in RunIds, s \in Range(Sources) : Agrees(r, s)'
<1> DEFINE l == work[c]
<1>0. /\ l \in Work /\ work \in [Callers -> Work] /\ Control(l)
      /\ results \in [RunIds -> [StatKeys -> Stat]]
      /\ DOMAIN l = {"pc", "run", "next", "todo", "stats", "flush", "key", "summary", "errors"}
  BY DEF HealthInv, CrawlTyped, TypeOK, Work
<1>1. PICK k \in l.flush :
        /\ Goto(c, [l EXCEPT !.pc = "health", !.key = k, !.flush = @ \ {k}])
        /\ results' = [results EXCEPT ![l.run][k] = l.stats[k]]
  BY DEF CreateRunSourceResult
<1>2. /\ l.pc = "results" /\ l.run \in RunIds /\ k \in StatKeys /\ UNCHANGED <<health, runs>>
      /\ l.stats \in [StatKeys -> Stat]
  BY <1>0 DEF CreateRunSourceResult, At, Control, Crawling, Storing, Work
<1>3. /\ work'[c].pc = "health" /\ work'[c].key = k /\ work'[c].run = l.run
      /\ work'[c].stats = l.stats /\ work'[c].errors = l.errors /\ work'[c].summary = l.summary
      /\ work'[c].flush \subseteq l.flush
  BY <1>0, <1>1 DEF Goto
<1>4. /\ results'[l.run][k] = l.stats[k]
      /\ \A j \in StatKeys \ {k} : results'[l.run][j] = results[l.run][j]
      /\ \A r \in RunIds \ {l.run} : results'[r] = results[r]
  BY <1>0, <1>1, <1>2
<1>5. Clean(l)
  BY <1>2, <1>3 DEF Clean, Crawling, Storing
<1>6. Informed(work[c])'
  BY <1>1, <1>2, <1>3, <1>4, <1>5 DEF HealthInv, Informed, Storing
<1>7. ASSUME NEW r \in RunIds, NEW s \in Range(Sources) PROVE Agrees(r, s)'
  <2>1. CASE k \in Origins /\ PageOf[k] = PageOf[s]
    <3>1. Clean(work[c])' /\ Awaited(work[c], s)'
      BY <1>3, <2>1 DEF Awaited, Clean
    <3> QED
      BY <3>1 DEF Agrees
  <2>2. CASE ~(k \in Origins /\ PageOf[k] = PageOf[s])
    <3>1. ASSUME NEW q \in RunIds
          PROVE  /\ ResultsOf(q, s)' = ResultsOf(q, s)
                 /\ \A j \in ResultsOf(q, s) : results'[q][j] = results[q][j]
                 /\ Whole(q)' <=> Whole(q)
      <4>1. \A j \in Origins : PageOf[j] = PageOf[s] => results'[q][j] = results[q][j]
        BY <1>4, <2>2, SourceKeys
      <4>2. ResultsOf(q, s)' = ResultsOf(q, s)
        BY <4>1 DEF ResultsOf
      <4>3. \A j \in ResultsOf(q, s) : results'[q][j] = results[q][j]
        BY <4>1 DEF ResultsOf
      <4>4. Whole(q)' <=> Whole(q)
        BY <1>2, <1>3, <1>5 DEF Whole, Clean
      <4> QED
        BY <4>2, <4>3, <4>4
    <3>2. Current(r, s)' => Current(r, s)
      BY <1>2, <3>1 DEF Current, SaysNothing
    <3>3. Shows(r, s) => Shows(r, s)'
      BY <1>2, <3>1 DEF Shows
    <3>4. \A d \in Callers : ~(Clean(work[d]) /\ Awaited(work[d], s))
      BY <1>2 DEF Awaited
    <3> QED
      BY <3>1, <3>2, <3>3, <3>4 DEF HealthInv, Agrees
  <2> QED
    BY <2>1, <2>2
<1> QED
  BY <1>6, <1>7

\* What an update makes of the health.
LEMMA HealthOfStat ==
    ASSUME NEW stat \in Stat, NEW old \in Health
    PROVE  /\ SourceHealth(stat, old).status = "broken" <=> stat.status = "failed"
           /\ SourceHealth(stat, old).failures > 0 <=> SourceHealth(stat, old).status = "broken"
<1>1. CASE stat.status = "failed"
  <2>1. SourceHealth(stat, old) = [status |-> "broken", failures |-> old.failures + 1]
    BY <1>1 DEF SourceHealth
  <2>2. old.failures \in Nat
    BY DEF Health
  <2> QED
    BY <1>1, <2>1, <2>2
<1>2. CASE stat.status # "failed" /\ (stat.status = "partial_success" \/ stat.found = 0)
  BY <1>2 DEF SourceHealth
<1>3. CASE stat.status # "failed" /\ ~(stat.status = "partial_success" \/ stat.found = 0)
  BY <1>3 DEF SourceHealth
<1> QED
  BY <1>1, <1>2, <1>3

\* The update gives every source of the page the health of the result just stored.
LEMMA UpdateInforms ==
    ASSUME HealthInv, NEW c \in Callers, UpdateSourceHealth(c),
           \A d \in Callers : d # c => ~Clean(work[d]) /\ ~Clean(work'[d])
    PROVE  /\ Clean(work'[c]) =>
                Informed(work[c])' /\ \A r \in RunIds, s \in Range(Sources) : Agrees(r, s)'
           /\ \A s \in Range(Sources) : health'[s].failures > 0 <=> health'[s].status = "broken"
<1> DEFINE l == work[c]
<1>0. /\ l \in Work /\ work \in [Callers -> Work] /\ Control(l) /\ l.stats \in [StatKeys -> Stat]
      /\ results \in [RunIds -> [StatKeys -> Stat]] /\ health \in [Range(Sources) -> Health]
      /\ DOMAIN l = {"pc", "run", "next", "todo", "stats", "flush", "key", "summary", "errors"}
  BY DEF HealthInv, CrawlTyped, TypeOK, Work
<1>1. /\ l.pc = "health" /\ l.key \in StatKeys /\ UNCHANGED <<results, runs>>
      /\ health' = [s \in DOMAIN health |->
            IF l.key \in Origins /\ PageOf[l.key] = PageOf[s]
            THEN SourceHealth(l.stats[l.key], health[s]) ELSE health[s]]
      /\ Goto(c, [l EXCEPT !.pc = "results", !.key = "none"])
  BY <1>0 DEF UpdateSourceHealth, At, Control
<1>2. /\ work'[c].pc = "results" /\ work'[c].run = l.run /\ work'[c].errors = l.errors
      /\ work'[c].summary = l.summary /\ work'[c].flush = l.flush /\ work'[c].stats = l.stats
  BY <1>0, <1>1 DEF Goto
<1>3. ASSUME NEW s \in Range(Sources)
      PROVE  /\ health'[s].failures > 0 <=> health'[s].status = "broken"
             /\ Awaited(l, s) => (health'[s].status = "broken" <=> l.stats[l.key].status = "failed")
             /\ ~Awaited(l, s) => health'[s] = health[s]
  <2>1. l.stats[l.key] \in Stat /\ health[s] \in Health
    BY <1>0, <1>1
  <2>2. CASE Awaited(l, s)
    <3>1. health'[s] = SourceHealth(l.stats[l.key], health[s])
      BY <1>0, <1>1, <2>2 DEF Awaited
    <3> QED
      BY <2>1, <2>2, <3>1, HealthOfStat
  <2>3. CASE ~Awaited(l, s)
    <3>1. health'[s] = health[s]
      BY <1>0, <1>1, <2>3 DEF Awaited
    <3> QED
      BY <2>3, <3>1 DEF HealthInv
  <2> QED
    BY <2>2, <2>3
<1>4. ASSUME Clean(work'[c])
      PROVE  Informed(work[c])' /\ \A r \in RunIds, s \in Range(Sources) : Agrees(r, s)'
  <2>1. Clean(l)
    BY <1>1, <1>2, <1>4 DEF Clean, Crawling, Storing
  <2>2. results[l.run][l.key] = l.stats[l.key] /\ l.stats[l.key].status # "absent"
        /\ \A k \in l.flush : l.stats[k].status # "absent"
    BY <1>1, <2>1 DEF HealthInv, Informed, Storing
  <2>3. Informed(work[c])'
    BY <1>2, <2>2 DEF Informed
  <2>4. l.run \in RunIds /\ LastRun(l.run) /\ runs[l.run].status = "running"
    BY <2>1, CleanOwns DEF HealthInv, Clean
  <2>5. \A q \in RunIds : Whole(q)' <=> Whole(q)
    BY <1>1, <1>2, <1>4, <2>1 DEF Whole, Clean
  <2>6. \A q \in RunIds, s \in Range(Sources) : ResultsOf(q, s)' = ResultsOf(q, s)
    BY <1>1 DEF ResultsOf
  <2>7. ASSUME NEW r \in RunIds, NEW s \in Range(Sources) PROVE Agrees(r, s)'
    <3>1. Current(r, s)' => Current(r, s)
      BY <1>1, <2>5, <2>6 DEF Current, SaysNothing
    <3>2. CASE Awaited(l, s)
      <4>0. PICK n, k : n = l.run /\ k = l.key
        OBVIOUS
      <4>1. n \in RunIds /\ k \in ResultsOf(n, s)
        BY <2>2, <2>4, <3>2, <4>0 DEF Awaited, ResultsOf
      <4>2. Shows(n, s)'
        <5>1. k \in ResultsOf(n, s)'
          BY <2>6, <4>1
        <5>2. health'[s].status = "broken" <=> results'[n][k].status = "failed"
          BY <1>1, <1>3, <2>2, <3>2, <4>0
        <5> QED
          BY <5>1, <5>2 DEF Shows
      <4>3. r < n => ~Current(r, s)
        BY <2>4, <4>0, <4>1 DEF Current, SaysNothing, RunIds
      <4>4. r > n => ~Current(r, s)
        <5>1. ASSUME r > n PROVE ~Whole(r)
          <6>1. runs[r].status = "absent"
            BY <2>4, <4>0, <5>1 DEF LastRun
          <6> QED
            BY <6>1, CleanOwns DEF Whole, HealthInv, Clean
        <5> QED
          BY <5>1 DEF Current
      <4>5. r = n \/ r < n \/ r > n
        BY <4>1 DEF RunIds
      <4> QED
        BY <3>1, <4>2, <4>3, <4>4, <4>5 DEF Agrees
    <3>3. CASE ~Awaited(l, s)
      <4>1. Shows(r, s) => Shows(r, s)'
        BY <1>1, <1>3, <2>6, <3>3 DEF Shows
      <4>2. \A d \in Callers : ~(Clean(work[d]) /\ Awaited(work[d], s))
        BY <3>3
      <4> QED
        BY <2>6, <3>1, <4>1, <4>2 DEF HealthInv, Agrees
    <3> QED
      BY <3>2, <3>3
  <2> QED
    BY <2>3, <2>7
<1> QED
  BY <1>3, <1>4

\* Storing begins with the stats that were touched.
LEMMA CloseInforms ==
    ASSUME CrawlTyped, NEW c \in Callers, CloseCollector(c)
    PROVE  Informed(work[c])'
<1> DEFINE l == work[c]
           own == Collectors[l.next]
           touched == {k \in StatKeys : l.stats[k].status # "absent"}
<1>0. /\ l \in Work /\ work \in [Callers -> Work] /\ Control(l) /\ l.stats \in [StatKeys -> Stat]
      /\ DOMAIN l = {"pc", "run", "next", "todo", "stats", "flush", "key", "summary", "errors"}
  BY DEF CrawlTyped, TypeOK, Work
<1>1. own \in StatKeys
  <2>1. l.next \in 1..2
    BY <1>0, CollectorFacts DEF CloseCollector, At, Control, Handling, Work
  <2> QED
    BY <2>1, CollectorFacts
<1>2. CASE touched # {}
  <2>1. Goto(c, [l EXCEPT !.pc = "results", !.flush = touched])
    BY <1>2 DEF CloseCollector
  <2> HIDE DEF touched
  <2>2. work'[c].pc = "results" /\ work'[c].flush = touched /\ work'[c].stats = l.stats
    BY <1>0, <2>1 DEF Goto
  <2> QED
    BY <2>2 DEF Informed, touched
<1>3. CASE touched = {}
  <2>1. Goto(c, [l EXCEPT !.pc = "results", !.flush = {own}, !.stats[own].status = "success"])
    BY <1>3 DEF CloseCollector
  <2> HIDE DEF own
  <2>2. PICK y : y = [l.stats EXCEPT ![own].status = "success"]
    OBVIOUS
  <2>3. y[own].status = "success"
    BY <1>0, <1>1, <2>2 DEF Stat
  <2>4. work'[c].pc = "results" /\ work'[c].flush = {own} /\ work'[c].stats = y
    BY <1>0, <2>1, <2>2 DEF Goto
  <2> QED
    BY <2>3, <2>4 DEF Informed
<1> QED
  BY <1>2, <1>3

\* Fetching and taking a posting lead to a posting or to its lookup.
LEMMA FetchingGoes ==
    ASSUME work \in [Callers -> Work], NEW c \in Callers, Collect(c) \/ TakePosting(c)
    PROVE  work'[c].pc \in {"posting", "find_url"}
<1> DEFINE l == work[c]
<1>0. DOMAIN l = {"pc", "run", "next", "todo", "stats", "flush", "key", "summary", "errors"}
  BY DEF Work
<1>1. CASE Collect(c)
  <2>1. PICK postings : Goto(c, [l EXCEPT !.pc = "posting", !.todo = postings, !.stats = NoStats,
                                          !.summary.success = @ + 1,
                                          !.summary.found = @ + Len(postings)])
    BY <1>1 DEF Collect
  <2>2. PICK n, k : n = l.summary.success + 1 /\ k = l.summary.found + Len(postings)
    OBVIOUS
  <2>3. Goto(c, [l EXCEPT !.pc = "posting", !.todo = postings, !.stats = NoStats,
                          !.summary.success = n, !.summary.found = k])
    BY <2>1, <2>2
  <2> QED
    BY <1>0, <2>3 DEF Goto
<1>2. CASE TakePosting(c)
  <2> DEFINE p == Head(l.todo)
             d == IF p.manual THEN 1 ELSE 0
  <2>1. l.pc = "posting"
    BY <1>2 DEF TakePosting, At
  <2>2. PICK counted : counted = [l EXCEPT !.stats[p.from] = CountFound(@, p)]
    OBVIOUS
  <2>3. counted.pc = "posting" /\ DOMAIN counted = DOMAIN l
    BY <1>0, <2>1, <2>2
  <2>4. \/ work'[c] = [counted EXCEPT !.todo = Tail(@), !.stats[p.from].filtered = @ + 1]
        \/ work'[c] = [counted EXCEPT !.pc = "find_url", !.stats[p.from].manual = @ + d,
                                      !.summary.manual = @ + d]
    BY <1>0, <1>2, <2>2, ZenonT(40) DEF TakePosting, Goto
  <2> HIDE DEF p, d
  <2> QED
    BY <1>0, <2>3, <2>4
<1> QED
  BY <1>1, <1>2

\* Only closing a collector and a health update lead to the storing of results.
LEMMA StoringBegins ==
    ASSUME CrawlTyped, NEW c \in Callers, Proceed(c) \/ Fail(c) \/ tryLock(c),
           ~CloseCollector(c), ~UpdateSourceHealth(c), Clean(work'[c])
    PROVE  work'[c].pc # "results"
<1> DEFINE l == work[c]
<1>0. /\ DOMAIN l = {"pc", "run", "next", "todo", "stats", "flush", "key", "summary", "errors"}
      /\ work \in [Callers -> Work] /\ l \in Work /\ Control(l)
  BY DEF CrawlTyped, TypeOK, Work
<1>1. CASE CreateRun(c) \/ LoadPreferences(c) \/ NextCollector(c)
  BY <1>0, <1>1 DEF CreateRun, LoadPreferences, NextCollector, Goto
<1>2. CASE CreateRunSourceResult(c)
  BY <1>0, <1>2 DEF CreateRunSourceResult, Goto
<1>3. CASE Collect(c) \/ TakePosting(c)
  BY <1>0, <1>3, FetchingGoes
<1>4. CASE FindByUrl(c) \/ FindByName(c) \/ StorePosting(c) \/ UpsertFails(c)
  <2>1. \/ \E m \in {Duplicated(l), Created(l), NotStored(l)} : Goto(c, m)
        \/ \E pc \in {"find_name", "insert"} : Goto(c, [l EXCEPT !.pc = pc])
    BY <1>4 DEF FindByUrl, FindByName, StorePosting, UpsertFails
  <2>2. l.pc \in Upserting
    BY <1>4 DEF FindByUrl, FindByName, StorePosting, UpsertFails, At, Upserting
  <2>3. ASSUME NEW m \in {Duplicated(l), Created(l), NotStored(l)} PROVE m.pc = "posting"
    BY <1>0, <2>2, <2>3, PostingEnds
  <2> QED
    BY <1>0, <2>1, <2>3 DEF Goto
<1>5. CASE StartFails(c) \/ FinishRun(c) \/ FinishFails(c) \/ unlock(c) \/ tryLock(c)
  <2>1. work'[c].pc \in {"unlock", "idle", "create"}
    BY <1>0, <1>5, IdlePc DEF StartFails, FinishRun, FinishFails, unlock, tryLock, Goto
  <2> QED
    BY <2>1
<1>6. CASE CollectFails(c) \/ ResultFails(c)
  BY <1>0, <1>6 DEF CollectFails, ResultFails, Goto, At
<1>7. CASE HealthFails(c)
  BY <1>0, <1>7 DEF HealthFails, Goto, Clean
<1> QED
  BY <1>1, <1>2, <1>3, <1>4, <1>5, <1>6, <1>7 DEF Proceed, Fail

\* Results are stored by crawls only.
LEMMA OutsideKeepsResults ==
    ASSUME NEW c \in Callers, tryLock(c) \/ Proceed(c) \/ Fail(c), work[c].pc \notin Crawling
    PROVE  results' = results
<1>1. ~CollectFails(c) /\ ~CreateRunSourceResult(c) /\ ~ResultFails(c)
  BY DEF CollectFails, CreateRunSourceResult, ResultFails, At, Crawling, Storing
<1>2. CASE tryLock(c) \/ Proceed(c)
  BY <1>1, <1>2 DEF tryLock, Proceed, tables, CreateRun, LoadPreferences, Collect, TakePosting, FindByUrl,
     FindByName, StorePosting, CloseCollector, UpdateSourceHealth, NextCollector, FinishRun, unlock
<1>3. CASE Fail(c)
  BY <1>1, <1>3 DEF Fail, tables, StartFails, UpsertFails, HealthFails, FinishFails
<1> QED
  BY <1>2, <1>3

\* A step that leaves the tables of runs as they are, and no crawl that was not
\* without an error before or has another result to await.
LEMMA SameAgrees ==
    ASSUME HealthInv, UNCHANGED <<results, health>>, NEW r \in RunIds, NEW s \in Range(Sources),
           \A q \in RunIds : runs'[q].status = "absent" => runs[q].status = "absent",
           \A q \in RunIds : Whole(q)' => Whole(q),
           \A d \in Callers : ~(Clean(work[d]) /\ Awaited(work[d], s))
    PROVE  Agrees(r, s)'
<1>1. \A q \in RunIds : ResultsOf(q, s)' = ResultsOf(q, s)
  BY DEF ResultsOf
<1>2. Shows(r, s) => Shows(r, s)'
  BY <1>1 DEF Shows
<1>3. Current(r, s)' => Current(r, s)
  BY <1>1 DEF Current, SaysNothing
<1> QED
  BY <1>1, <1>2, <1>3 DEF HealthInv, Agrees

\* Every step of a crawl keeps the health in agreement.
LEMMA CrawlKeepsHealth ==
    ASSUME HealthInv, CrawlTyped', [Next]_vars, NEW c \in Callers, tryLock(c) \/ Proceed(c) \/ Fail(c)
    PROVE  HealthInv'
<1> DEFINE l == work[c]
<1>0. /\ CrawlTyped /\ LockInv /\ InOrder /\ runs \in [RunIds -> Run] /\ OwnsRun(l) /\ Control(l)
      /\ l \in Work /\ work \in [Callers -> Work]
  BY DEF HealthInv, CrawlTyped, TypeOK
<1>1. \A d \in Callers : d # c => ~Clean(work[d]) /\ ~Clean(work'[d])
  <2>1. work' = [work EXCEPT ![c] = work'[c]]
    BY <1>0, StepTyped
  <2>2. \A d \in Callers : d # c => work[d].pc = "idle" /\ work'[d].pc = "idle"
    BY <1>0, <2>1, OthersOutside
  <2> QED
    BY <2>2 DEF Clean, Crawling, Handling, Upserting, Storing
<1>2. \A r \in RunIds : Unreported(r)'
  <2>1. \A r \in RunIds : runs'[r].status = "absent" => runs[r].status = "absent"
    <3>1. CASE CreateRun(c)
      BY <1>0, <3>1 DEF CreateRun, Run
    <3>2. CASE FinishRun(c)
      <4>1. Outcome(l) # "absent"
        BY DEF Outcome
      <4> QED
        BY <1>0, <3>2, <4>1 DEF FinishRun, StoreRun, Run
    <3> QED
      BY <1>0, <3>1, <3>2, RowKept DEF KeepsRow
  <2> QED
    BY <1>0, <2>1, ResultsOwned DEF HealthInv, Unreported
<1>3. \A s \in Range(Sources) : health'[s].failures > 0 <=> health'[s].status = "broken"
  BY <1>1, HealthOwned, UpdateInforms DEF HealthInv
<1>4. SUFFICES /\ \A r \in RunIds, s \in Range(Sources) : Agrees(r, s)'
               /\ Clean(work'[c]) => Informed(work[c])'
  BY <1>1, <1>2, <1>3 DEF HealthInv, Clean
<1>5. CASE CreateRun(c)
  <2>1. PICK r \in RunIds : /\ FreshRun(r) /\ runs' = [runs EXCEPT ![r].status = "running"]
                            /\ Goto(c, [l EXCEPT !.pc = "load", !.run = r])
    BY <1>5 DEF CreateRun
  <2>2. UNCHANGED <<results, health>> /\ l.pc = "create"
    BY <1>5 DEF CreateRun, At
  <2>3. PICK m : m = [l EXCEPT !.pc = "load", !.run = r]
    OBVIOUS
  <2>4. m.pc = "load" /\ m.run = r /\ work'[c] = m
    BY <1>0, <2>1, <2>3 DEF Work, Goto
  <2>5. Informed(work[c])'
    BY <2>4 DEF Informed, Storing
  <2>6. \A k \in StatKeys : results[r][k].status = "absent"
    BY <2>1 DEF HealthInv, Unreported, FreshRun, NoStats, NoStat
  <2>7. /\ runs'[r].status = "running" /\ runs[r].status = "absent"
        /\ \A q \in RunIds \ {r} : runs'[q] = runs[q]
    BY <1>0, <2>1 DEF FreshRun, Run
  <2>8. \A d \in Callers : ~Clean(work[d])
    BY <1>1, <2>2 DEF Clean, Crawling, Handling, Upserting, Storing
  <2>9. ASSUME NEW q \in RunIds, NEW s \in Range(Sources) PROVE Agrees(q, s)'
    <3>1. \A j \in RunIds : ResultsOf(j, s)' = ResultsOf(j, s)
      BY <2>2 DEF ResultsOf
    <3>2. ResultsOf(r, s) = {}
      BY <2>6, SourceKeys DEF ResultsOf
    <3>3. \A j \in RunIds \ {r} : Whole(j)' => Whole(j)
      BY <1>1, <2>4, <2>7 DEF Whole, Clean
    <3>4. q # r /\ Current(q, s)' => Current(q, s)
      BY <2>7, <3>1, <3>3 DEF Current, SaysNothing
    <3>5. Shows(q, s) => Shows(q, s)'
      BY <2>2, <3>1 DEF Shows
    <3> QED
      BY <2>8, <3>1, <3>2, <3>4, <3>5 DEF HealthInv, Agrees
  <2> QED
    BY <2>5, <2>9
<1>6. CASE FinishRun(c)
  <2>1. /\ UNCHANGED <<results, health>> /\ l.pc = "collect" /\ l.run \in RunIds
        /\ runs' = [runs EXCEPT ![l.run] = [status |-> Outcome(l), summary |-> l.summary]]
        /\ l.summary.failed \in Nat /\ work'[c].pc = "unlock"
    <3>1. l.pc = "collect" /\ UNCHANGED <<results, health>>
      BY <1>6 DEF FinishRun, At
    <3>2. l.run \in RunIds /\ l.summary \in Summary
      BY <1>0, <3>1 DEF Control, Crawling, Work
    <3>3. runs' = [runs EXCEPT ![l.run] = [status |-> Outcome(l), summary |-> l.summary]]
      BY <1>6 DEF FinishRun, StoreRun
    <3>4. Goto(c, [l EXCEPT !.pc = "unlock"])
      BY <1>6 DEF FinishRun
    <3> HIDE DEF l
    <3>5. work'[c].pc = "unlock"
      BY <1>0, <3>4 DEF Goto, Work, l
    <3>6. l.summary.failed \in Nat
      BY <3>2 DEF Summary
    <3> QED
      BY <3>1, <3>2, <3>3, <3>5, <3>6
  <2>2. ~Clean(work'[c])
    BY <2>1 DEF Clean, Crawling, Handling, Upserting, Storing
  <2>3. /\ runs'[l.run].status = Outcome(l) /\ Outcome(l) \in {"success", "partial_success"}
        /\ \A q \in RunIds \ {l.run} : runs'[q] = runs[q]
    BY <1>0, <2>1 DEF Outcome, Run
  <2>4. CASE Outcome(l) = "success"
    <3>1. Clean(l)
      BY <2>1, <2>4 DEF Outcome, Clean, Crawling
    <3>2. \A q \in RunIds : Whole(q)' => Whole(q)
      BY <1>1, <2>2, <2>3, <3>1 DEF Whole, Clean
    <3>3. \A q \in RunIds : runs'[q].status = "absent" => runs[q].status = "absent"
      BY <2>3
    <3>4. \A d \in Callers, s \in Range(Sources) : ~(Clean(work[d]) /\ Awaited(work[d], s))
      BY <1>1, <2>1 DEF Awaited
    <3> QED
      BY <2>1, <2>2, <3>2, <3>3, <3>4, SameAgrees
  <2>5. CASE Outcome(l) # "success"
    <3>1. PICK n \in RunIds : n = l.run
      BY <2>1
    <3>2. \A d \in Callers : ~Clean(work[d])'
      BY <1>1, <2>2 DEF Clean
    <3>3. LastRun(n)' /\ (runs[n].status # "success")'
      BY <1>0, <2>1, <2>3, <2>5, <3>1 DEF OwnsRun, Crawling, LastRun, RunIds
    <3>4. \A q \in RunIds, s \in Range(Sources) : ~Current(q, s)'
      BY <3>2, <3>3, NothingCurrent
    <3> QED
      BY <2>2, <3>4 DEF Agrees
  <2> QED
    BY <2>4, <2>5
<1>7. CASE ~CreateRun(c) /\ ~FinishRun(c)
  <2>1. KeepsRow(c)
    BY <1>0, <1>7, RowKept
  <2>2. CASE Clean(work'[c]) /\ CreateRunSourceResult(c)
    BY <1>1, <2>2, ResultInforms
  <2>3. CASE Clean(work'[c]) /\ UpdateSourceHealth(c)
    BY <1>1, <2>3, UpdateInforms
  <2>4. CASE Clean(work'[c]) /\ ~CreateRunSourceResult(c) /\ ~UpdateSourceHealth(c)
    <3>1. /\ Clean(l) /\ work'[c].run = l.run /\ results' = results /\ health' = health
          /\ l.pc # "health" /\ work'[c].pc # "health" /\ runs' = runs
      BY <1>0, <1>7, <2>1, <2>4, QuietInformed, HealthOwned DEF KeepsRow
    <3>2. \A q \in RunIds : Whole(q)' => Whole(q)
      BY <1>1, <3>1 DEF Whole, Clean
    <3>3. \A d \in Callers, s \in Range(Sources) : ~(Clean(work[d]) /\ Awaited(work[d], s))
      BY <1>1, <3>1 DEF Awaited
    <3>4. \A r \in RunIds, s \in Range(Sources) : Agrees(r, s)'
      BY <3>1, <3>2, <3>3, SameAgrees
    <3>5. Informed(work[c])'
      <4>1. CASE CloseCollector(c)
        BY <1>0, <4>1, CloseInforms
      <4>2. CASE ~CloseCollector(c)
        <5>1. work'[c].pc # "results"
          BY <1>0, <1>7, <2>4, <3>1, <4>2, StoringBegins
        <5> QED
          BY <3>1, <5>1 DEF Informed, Storing
      <4> QED
        BY <4>1, <4>2
    <3> QED
      BY <3>4, <3>5
  <2>5. CASE ~Clean(work'[c]) /\ l.pc \in Crawling
    <3>1. PICK n \in RunIds : LastRun(n)' /\ (runs[n].status # "success")'
      BY <1>0, <2>1, <2>5 DEF KeepsRow, OwnsRun, Control, LastRun
    <3>2. \A d \in Callers : ~Clean(work[d])'
      BY <1>1, <2>5 DEF Clean
    <3>3. \A q \in RunIds, s \in Range(Sources) : ~Current(q, s)'
      BY <3>1, <3>2, NothingCurrent
    <3> QED
      BY <2>5, <3>3 DEF Agrees
  <2>6. CASE ~Clean(work'[c]) /\ l.pc \notin Crawling
    <3>1. ~UpdateSourceHealth(c)
      BY <2>6 DEF UpdateSourceHealth, At, Crawling, Storing
    <3>2. UNCHANGED <<health, runs>>
      BY <2>1, <3>1, HealthOwned DEF KeepsRow
    <3>3. UNCHANGED results
      BY <2>6, OutsideKeepsResults
    <3>4. \A d \in Callers : ~Clean(work[d]) /\ ~Clean(work[d])'
      BY <1>1, <2>6 DEF Clean
    <3>5. \A q \in RunIds : Whole(q)' => Whole(q)
      BY <3>2, <3>4 DEF Whole
    <3> QED
      BY <2>6, <3>2, <3>3, <3>4, <3>5, SameAgrees
  <2> QED
    BY <2>2, <2>3, <2>4, <2>5, <2>6
<1> QED
  BY <1>5, <1>6, <1>7

\* Every step of the system keeps the health in agreement.
LEMMA HealthNext ==
    ASSUME HealthInv, [Next]_vars
    PROVE  HealthInv'
<1>0. CrawlTyped /\ CrawlTyped'
  BY TypedNext DEF HealthInv
<1>1. ASSUME UNCHANGED <<runs, results, health, work>> PROVE HealthInv'
  BY <1>0, <1>1 DEF HealthInv, Unreported, Agrees, Shows, ResultsOf, Current, SaysNothing, Whole,
     Informed, Clean, Awaited
<1>2. ASSUME NEW c \in Callers, tryLock(c) \/ Proceed(c) \/ Fail(c) PROVE HealthInv'
  BY <1>0, <1>2, CrawlKeepsHealth
<1>3. ASSUME NEW i \in Importers, ImportUrl(i) PROVE HealthInv'
  BY <1>0, <1>1, <1>3, ImportTyped DEF CrawlTyped
<1>4. CASE Crash
  <2>1. UNCHANGED <<runs, results, health>> /\ \A c \in Callers : work'[c].pc = "idle"
    BY <1>4, IdlePc DEF Crash, tables
  <2>2. \A c \in Callers : ~Clean(work[c])'
    BY <2>1 DEF Clean, Crawling, Handling, Upserting, Storing
  <2>3. ASSUME NEW r \in RunIds, NEW s \in Range(Sources) PROVE Agrees(r, s)'
    <3>1. CASE \E c \in Callers : Clean(work[c])
      <4>1. PICK c \in Callers : Clean(work[c])
        BY <3>1
      <4>2. work[c].run \in RunIds /\ LastRun(work[c].run) /\ runs[work[c].run].status = "running"
        BY <1>0, <4>1, CleanOwns DEF Clean
      <4>3. PICK q \in RunIds : LastRun(q)' /\ (runs[q].status # "success")'
        BY <2>1, <4>2 DEF LastRun
      <4>4. \A p \in RunIds : ~Current(p, s)'
        BY <1>0, <2>2, <4>3, NothingCurrent
      <4> QED
        BY <4>4 DEF Agrees
    <3>2. CASE \A c \in Callers : ~Clean(work[c])
      <4>1. \A q \in RunIds : Whole(q)' => Whole(q)
        BY <2>1, <2>2 DEF Whole
      <4> QED
        BY <2>1, <3>2, <4>1, SameAgrees
    <3> QED
      BY <3>1, <3>2
  <2> QED
    BY <1>0, <2>1, <2>2, <2>3 DEF HealthInv, Unreported
<1>5. CASE UNCHANGED vars
  BY <1>1, <1>5 DEF vars, tables
<1> QED
  BY <1>2, <1>3, <1>4, <1>5 DEF Next

\* Before the first run every source's health is unknown.
LEMMA HealthInit == Init => HealthInv
<1> SUFFICES ASSUME Init PROVE HealthInv
  OBVIOUS
<1>1. \A c \in Callers : work[c].pc = "idle"
  BY IdlePc DEF Init
<1>2. \A c \in Callers : ~Clean(work[c])
  BY <1>1 DEF Clean, Crawling, Handling, Upserting, Storing
<1>3. \A r \in RunIds : Unreported(r) /\ runs[r].status # "success"
  BY DEF Init, Unreported
<1>5. \A r \in RunIds, s \in Range(Sources) : Agrees(r, s)
  BY <1>2, <1>3 DEF Agrees, Current, Whole
<1>4. \A s \in Range(Sources) : health[s].failures > 0 <=> health[s].status = "broken"
  BY DEF Init
<1> QED
  BY <1>2, <1>3, <1>4, <1>5, TypedInit DEF HealthInv

\* Between crawls the health of a source is that of a result the last run that
\* had one for its page stored, if that run and those after it succeeded, for any
\* number of sources, of names of one page and of runs, and whatever failed
\* before; failures are counted exactly while it is broken.
THEOREM HealthIsLastResult == Spec => []HealthFollowsRun
<1>1. HealthInv /\ [Next]_vars => HealthInv'
  BY HealthNext
<1>2. ASSUME HealthInv, ~running PROVE \A c \in Callers : ~Clean(work[c])
  <2>1. \A c \in Callers : work[c].pc = "idle"
    BY <1>2 DEF HealthInv, CrawlTyped, LockInv, Alone, Busy, At
  <2> QED
    BY <2>1 DEF Clean, Crawling, Handling, Upserting, Storing
<1>3. HealthInv => HealthFollowsRun
  BY <1>2 DEF HealthInv, HealthFollowsRun, Agrees, Current, Whole, SaysNothing, Silent
<1> QED
  BY <1>1, <1>3, HealthInit, PTL DEF Spec

-----------------------------------------------------------------------------
(* The books of a run: its counters, its results and the jobs it inserted. *)

\* A counter kept by source has n numbered items.
Items(count) == UNION {{k} \X (1..count[k]) : k \in DOMAIN count}
Tallied(count, n) ==
    /\ count \in [StatKeys -> Nat]
    /\ IsFiniteSet(Items(count)) /\ Cardinality(Items(count)) = n

\* The counters of a crawl, whose run has inserted n jobs so far, claim no more
\* than was done.
Modest(l, n) ==
    /\ l.summary.created <= n
    /\ l.summary.created + l.summary.dup + Len(l.todo) <= l.summary.found

\* Those of a crawl without an error add up with the stats of its collector:
\* the posting at work is found and not yet handled.
Begun(l) == IF l.pc \in Upserting THEN 1 ELSE 0
Sums(l, n) ==
    /\ l.summary.created = n
    /\ Tallied(FoundOf(l.stats), l.summary.found + Begun(l) - Len(l.todo))
    /\ Tallied(DupOf(l.stats), l.summary.dup)
    /\ Tallied(HandledOf(l.stats), l.summary.found - Len(l.todo))

\* What of the stats is stored: the seed collector has counted nothing, so the
\* results are blank until the other one stores its stats.
Blank(x) == x.found = 0 /\ x.created = 0 /\ x.dup = 0 /\ x.filtered = 0
SameCounts(x, y) ==
    x.found = y.found /\ x.created = y.created /\ x.dup = y.dup /\ x.filtered = y.filtered
Reported(l, stored) ==
    /\ l.pc \in Upserting => l.stats[Head(l.todo).from].status # "absent"
    /\ \A k \in StatKeys :
        /\ l.stats[k].status = "absent" => Blank(l.stats[k])
        /\ l.next = 1 \/ (l.pc = "collect" /\ l.next = 2) => Blank(l.stats[k])
        /\ l.pc \in Handling => Blank(stored[k])
        /\ l.pc \notin Handling /\ k \notin l.flush => SameCounts(stored[k], l.stats[k])

Balanced(l, n, stored) ==
    /\ l.pc \in Crawling => Modest(l, n)
    /\ Clean(l) => Sums(l, n) /\ Reported(l, stored)

\* The books of a run that is finished.
Settled(r) ==
    /\ runs[r].status \in {"success", "partial_success"} =>
        /\ runs[r].summary.created <= Cardinality(InsertedBy(r))
        /\ runs[r].summary.created + runs[r].summary.dup <= runs[r].summary.found
    /\ runs[r].status = "success" =>
        /\ runs[r].summary.created = Cardinality(InsertedBy(r))
        /\ runs[r].summary.found = Total(FoundOf(results[r]))
        /\ runs[r].summary.dup = Total(DupOf(results[r]))
        /\ runs[r].summary.found = Total(HandledOf(results[r]))

Books(c) == Balanced(work[c], Cardinality(InsertedBy(work[c].run)), results[work[c].run])
AccountInv ==
    /\ HealthInv
    /\ \A r \in RunIds : Settled(r) /\ (runs[r].status = "absent" => InsertedBy(r) = {})
    /\ \A c \in Callers : work[c].pc \in Crawling => Books(c)

\* The items of a counter.
LEMMA ItemsMembers ==
    ASSUME NEW count \in [StatKeys -> Nat]
    PROVE  \A x : x \in Items(count) <=> \E k \in StatKeys : \E n \in 1..count[k] : x = <<k, n>>
  BY DEF Items

\* Nothing counted, no items.
LEMMA TallyZero ==
    ASSUME NEW count \in [StatKeys -> Nat], \A k \in StatKeys : count[k] = 0
    PROVE  Tallied(count, 0) /\ \A n : Tallied(count, n) => n = 0
<1>1. Items(count) = {}
  <2>1. \A k \in StatKeys : 1..count[k] = {}
    OBVIOUS
  <2> QED
    BY <2>1, ItemsMembers
<1> QED
  BY <1>1, FS_EmptySet DEF Tallied

\* A counter raised for one source has one item more.
LEMMA TallyRaised ==
    ASSUME NEW count, NEW n, Tallied(count, n), NEW k \in StatKeys,
           NEW other \in [StatKeys -> Nat], other[k] = count[k] + 1,
           \A j \in StatKeys \ {k} : other[j] = count[j]
    PROVE  Tallied(other, n + 1)
<1>1. count \in [StatKeys -> Nat] /\ IsFiniteSet(Items(count)) /\ n = Cardinality(Items(count))
  BY DEF Tallied
<1>2. PICK e : e = <<k, count[k] + 1>>
  OBVIOUS
<1>3. e \notin Items(count)
  <2>1. ASSUME NEW j \in StatKeys, NEW i \in 1..count[j], e = <<j, i>> PROVE FALSE
    <3>1. j = k /\ i = count[k] + 1
      BY <1>2, <2>1
    <3>2. count[k] \in Nat
      BY <1>1
    <3> QED
      BY <2>1, <3>1, <3>2
  <2> QED
    BY <1>1, <2>1, ItemsMembers
<1>4. ASSUME NEW x PROVE x \in Items(other) <=> x \in Items(count) \cup {e}
  <2>1. ASSUME NEW j \in StatKeys, NEW i \in 1..other[j], x = <<j, i>>
        PROVE  x \in Items(count) \cup {e}
    <3>1. CASE j = k /\ i = count[k] + 1
      BY <1>2, <2>1, <3>1
    <3>2. CASE ~(j = k /\ i = count[k] + 1)
      <4>1. count[j] \in Nat /\ other[j] \in Nat
        BY <1>1
      <4>2. i \in 1..count[j]
        BY <2>1, <3>2, <4>1
      <4> QED
        BY <1>1, <2>1, <4>2, ItemsMembers
    <3> QED
      BY <3>1, <3>2
  <2>2. ASSUME NEW j \in StatKeys, NEW i \in 1..count[j], x = <<j, i>> PROVE x \in Items(other)
    <3>1. count[j] \in Nat /\ other[j] \in Nat /\ count[j] <= other[j]
      BY <1>1
    <3>2. i \in 1..other[j]
      BY <2>2, <3>1
    <3> QED
      BY <2>2, <3>2, ItemsMembers
  <2>3. e \in Items(other)
    <3>1. count[k] \in Nat /\ other[k] = count[k] + 1
      BY <1>1
    <3>2. count[k] + 1 \in 1..other[k]
      BY <3>1
    <3> QED
      BY <1>2, <3>2, ItemsMembers
  <2> QED
    BY <1>1, <2>1, <2>2, <2>3, ItemsMembers
<1>5. Items(other) = Items(count) \cup {e}
  BY <1>4
<1> QED
  BY <1>1, <1>3, <1>5, FS_AddElement DEF Tallied

\* One source's counter is raised or stays.
LEMMA TallyStep ==
    ASSUME NEW f, NEW g, f \in [StatKeys -> Nat], g \in [StatKeys -> Nat], NEW k \in StatKeys,
           \A j \in StatKeys \ {k} : g[j] = f[j]
    PROVE  /\ \A n : Tallied(f, n) /\ g[k] = f[k] + 1 => Tallied(g, n + 1)
           /\ g[k] = f[k] => g = f
<1>1. ASSUME NEW n, Tallied(f, n), g[k] = f[k] + 1 PROVE Tallied(g, n + 1)
  BY <1>1, TallyRaised
<1>2. ASSUME g[k] = f[k] PROVE g = f
  <2>1. \A j \in StatKeys : g[j] = f[j]
    BY <1>2
  <2> QED
    BY <2>1
<1> QED
  BY <1>1, <1>2

\* The counters of the stats are natural numbers.
LEMMA CountsTyped ==
    ASSUME NEW stats \in [StatKeys -> Stat]
    PROVE  /\ FoundOf(stats) \in [StatKeys -> Nat] /\ DupOf(stats) \in [StatKeys -> Nat]
           /\ HandledOf(stats) \in [StatKeys -> Nat]
           /\ \A k \in StatKeys :
                /\ FoundOf(stats)[k] = stats[k].found /\ DupOf(stats)[k] = stats[k].dup
                /\ HandledOf(stats)[k] = stats[k].created + stats[k].dup + stats[k].filtered
                /\ stats[k].created \in Nat /\ stats[k].dup \in Nat /\ stats[k].filtered \in Nat
                /\ stats[k].found \in Nat
<1>1. \A k \in StatKeys : /\ stats[k].found \in Nat /\ stats[k].dup \in Nat
                          /\ stats[k].created \in Nat /\ stats[k].filtered \in Nat
  BY DEF Stat
<1>2. \A k \in StatKeys : stats[k].created + stats[k].dup + stats[k].filtered \in Nat
  BY <1>1
<1> QED
  BY <1>1, <1>2 DEF FoundOf, DupOf, HandledOf

\* Stats with the same counters have the same sums.
LEMMA SameSums ==
    ASSUME NEW stats \in [StatKeys -> Stat], NEW other \in [StatKeys -> Stat],
           \A k \in StatKeys : SameCounts(other[k], stats[k])
    PROVE  FoundOf(other) = FoundOf(stats) /\ DupOf(other) = DupOf(stats)
           /\ HandledOf(other) = HandledOf(stats)
  BY DEF SameCounts, FoundOf, DupOf, HandledOf

\* The sums of blank stats are zero.
LEMMA BlankSums ==
    ASSUME NEW stats \in [StatKeys -> Stat], \A k \in StatKeys : Blank(stats[k])
    PROVE  /\ Tallied(FoundOf(stats), 0) /\ Tallied(DupOf(stats), 0) /\ Tallied(HandledOf(stats), 0)
           /\ \A n : (Tallied(FoundOf(stats), n) => n = 0) /\ (Tallied(DupOf(stats), n) => n = 0)
                     /\ (Tallied(HandledOf(stats), n) => n = 0)
<1>1. \A k \in StatKeys : FoundOf(stats)[k] = 0 /\ DupOf(stats)[k] = 0 /\ HandledOf(stats)[k] = 0
  BY CountsTyped DEF Blank
<1> QED
  BY <1>1, CountsTyped, TallyZero

\* What a stat gone from x to y does to the sums.
LEMMA StatRaised ==
    ASSUME NEW stats \in [StatKeys -> Stat], NEW k \in StatKeys, NEW y \in Stat,
           NEW other, other = [stats EXCEPT ![k] = y]
    PROVE  /\ other \in [StatKeys -> Stat]
           /\ \A n : /\ Tallied(FoundOf(stats), n) =>
                        (y.found = stats[k].found + 1 => Tallied(FoundOf(other), n + 1))
                     /\ Tallied(FoundOf(stats), n) =>
                        (y.found = stats[k].found => Tallied(FoundOf(other), n))
                     /\ Tallied(DupOf(stats), n) =>
                        (y.dup = stats[k].dup + 1 => Tallied(DupOf(other), n + 1))
                     /\ Tallied(DupOf(stats), n) =>
                        (y.dup = stats[k].dup => Tallied(DupOf(other), n))
                     /\ Tallied(HandledOf(stats), n) =>
                        (y.created + y.dup + y.filtered
                            = stats[k].created + stats[k].dup + stats[k].filtered + 1
                         => Tallied(HandledOf(other), n + 1))
                     /\ Tallied(HandledOf(stats), n) =>
                        (y.created + y.dup + y.filtered
                            = stats[k].created + stats[k].dup + stats[k].filtered
                         => Tallied(HandledOf(other), n))
<1>1. other \in [StatKeys -> Stat] /\ other[k] = y /\ \A j \in StatKeys \ {k} : other[j] = stats[j]
  OBVIOUS
<1>2. /\ FoundOf(other)[k] = y.found /\ DupOf(other)[k] = y.dup
      /\ HandledOf(other)[k] = y.created + y.dup + y.filtered
      /\ FoundOf(stats)[k] = stats[k].found /\ DupOf(stats)[k] = stats[k].dup
      /\ HandledOf(stats)[k] = stats[k].created + stats[k].dup + stats[k].filtered
  BY <1>1, CountsTyped
<1>3. \A j \in StatKeys \ {k} :
        /\ FoundOf(other)[j] = FoundOf(stats)[j] /\ DupOf(other)[j] = DupOf(stats)[j]
        /\ HandledOf(other)[j] = HandledOf(stats)[j]
  BY <1>1, CountsTyped, ZenonT(40)
<1>4. /\ FoundOf(other) \in [StatKeys -> Nat] /\ DupOf(other) \in [StatKeys -> Nat]
      /\ HandledOf(other) \in [StatKeys -> Nat] /\ FoundOf(stats) \in [StatKeys -> Nat]
      /\ DupOf(stats) \in [StatKeys -> Nat] /\ HandledOf(stats) \in [StatKeys -> Nat]
  BY <1>1, CountsTyped
<1>5. PICK f, g : f = FoundOf(stats) /\ g = FoundOf(other)
  OBVIOUS
<1>6. PICK d, e : d = DupOf(stats) /\ e = DupOf(other)
  OBVIOUS
<1>7. PICK h, i : h = HandledOf(stats) /\ i = HandledOf(other)
  OBVIOUS
<1>8. (\A n : Tallied(f, n) /\ g[k] = f[k] + 1 => Tallied(g, n + 1)) /\ (g[k] = f[k] => g = f)
  BY <1>3, <1>4, <1>5, TallyStep, ZenonT(40)
<1>9. (\A n : Tallied(d, n) /\ e[k] = d[k] + 1 => Tallied(e, n + 1)) /\ (e[k] = d[k] => e = d)
  BY <1>3, <1>4, <1>6, TallyStep, ZenonT(40)
<1>10. (\A n : Tallied(h, n) /\ i[k] = h[k] + 1 => Tallied(i, n + 1)) /\ (i[k] = h[k] => i = h)
  BY <1>3, <1>4, <1>7, TallyStep, ZenonT(40)
<1> QED
  BY <1>1, <1>2, <1>5, <1>6, <1>7, <1>8, <1>9, <1>10

\* The part of it about the postings found.
LEMMA FoundRaised ==
    ASSUME NEW stats \in [StatKeys -> Stat], NEW k \in StatKeys, NEW y \in Stat,
           NEW x, x = stats[k], NEW other, other = [stats EXCEPT ![k] = y],
           NEW d, Tallied(FoundOf(stats), d)
    PROVE  /\ (y.found = x.found + 1) => Tallied(FoundOf(other), d + 1)
           /\ (y.found = x.found) => Tallied(FoundOf(other), d)
  BY StatRaised

\* The part of it about the postings found to be duplicates.
LEMMA DupRaised ==
    ASSUME NEW stats \in [StatKeys -> Stat], NEW k \in StatKeys, NEW y \in Stat,
           NEW x, x = stats[k], NEW other, other = [stats EXCEPT ![k] = y],
           NEW d, Tallied(DupOf(stats), d)
    PROVE  /\ (y.dup = x.dup + 1) => Tallied(DupOf(other), d + 1)
           /\ (y.dup = x.dup) => Tallied(DupOf(other), d)
  BY StatRaised

\* The postings of a stat that are handled.
Dealt(x) == x.created + x.dup + x.filtered

\* The part of it about the postings handled.
LEMMA HandledRaised ==
    ASSUME NEW stats \in [StatKeys -> Stat], NEW k \in StatKeys, NEW y \in Stat,
           NEW x, x = stats[k], NEW other, other = [stats EXCEPT ![k] = y],
           NEW d, Tallied(HandledOf(stats), d)
    PROVE  /\ (Dealt(y) = Dealt(x) + 1) => Tallied(HandledOf(other), d + 1)
           /\ (Dealt(y) = Dealt(x)) => Tallied(HandledOf(other), d)
  BY StatRaised DEF Dealt

\* The jobs of a run, before and after an insertion.
LEMMA InsertedBooks ==
    ASSUME CrawlTyped
    PROVE  /\ \A q : IsFiniteSet(InsertedBy(q)) /\ Cardinality(InsertedBy(q)) \in Nat
           /\ \A p, r : InsertJob(p, r) =>
                /\ \A q : q # r => InsertedBy(q)' = InsertedBy(q)
                /\ Cardinality(InsertedBy(r)') = Cardinality(InsertedBy(r)) + 1
<1>1. ASSUME NEW q PROVE IsFiniteSet(InsertedBy(q)) /\ Cardinality(InsertedBy(q)) \in Nat
  <2>1. DOMAIN jobs = 1..Len(jobs) /\ Len(jobs) \in Nat
    BY LenProperties DEF CrawlTyped, TypeOK
  <2>2. InsertedBy(q) \in SUBSET (1..Len(jobs))
    BY <2>1 DEF InsertedBy
  <2>3. IsFiniteSet(1..Len(jobs))
    BY <2>1, FS_Interval
  <2> QED
    BY <2>2, <2>3, FS_Subset, FS_CardinalityType
<1>2. ASSUME NEW p, NEW r, InsertJob(p, r)
      PROVE  /\ \A q : q # r => InsertedBy(q)' = InsertedBy(q)
             /\ Cardinality(InsertedBy(r)') = Cardinality(InsertedBy(r)) + 1
  <2>1. PICK n \in Nat : n = Len(jobs)
    BY <1>2, InsertGrows
  <2>2. /\ DOMAIN jobs = 1..n /\ DOMAIN jobs' = 1..(n + 1) /\ jobs'[n + 1].run = r
        /\ \A i \in 1..n : jobs'[i] = jobs[i]
    BY <1>2, <2>1, InsertGrows DEF JobsGrow
  <2>3. n + 1 \notin 1..n /\ 1..(n + 1) = (1..n) \cup {n + 1}
    BY <2>1
  <2>4. \A q : q # r => InsertedBy(q)' = InsertedBy(q)
    BY <2>2, <2>3 DEF InsertedBy
  <2>5. InsertedBy(r)' = InsertedBy(r) \cup {n + 1} /\ n + 1 \notin InsertedBy(r)
    BY <2>2, <2>3 DEF InsertedBy
  <2> QED
    BY <1>1, <2>4, <2>5, FS_AddElement
<1> QED
  BY <1>1, <1>2

-----------------------------------------------------------------------------
(* What each step does to the books of its crawl.                          *)

\* A step that meets an error only has to stay modest.
LEMMA ErrorBalanced ==
    ASSUME NEW l \in Work, l.pc \in Crawling, NEW n \in Nat, NEW stored, Balanced(l, n, stored),
           NEW m \in Work, m.errors \/ ~Clean(m), NEW k \in Nat, n <= k, NEW other,
           m.summary.created = l.summary.created, m.summary.dup = l.summary.dup,
           m.summary.found = l.summary.found, Len(m.todo) <= Len(l.todo)
    PROVE  Balanced(m, k, other)
<1>1. Modest(l, n) /\ ~Clean(m)
  BY DEF Balanced, Clean
<1>2. /\ l.summary.created \in Nat /\ l.summary.dup \in Nat /\ l.summary.found \in Nat
      /\ Len(l.todo) \in Nat /\ Len(m.todo) \in Nat
  BY LenProperties DEF Work, Summary
<1>3. PICK a, b, f, t, u \in Nat :
        /\ a = l.summary.created /\ b = l.summary.dup /\ f = l.summary.found
        /\ t = Len(l.todo) /\ u = Len(m.todo) /\ u <= t
  BY <1>2
<1>4. a <= n /\ a + b + t <= f
  BY <1>1, <1>3 DEF Modest
<1>5. a <= k /\ a + b + u <= f
  <2> SUFFICES ASSUME a <= n, n <= k, a + b + t <= f, u <= t PROVE a <= k /\ a + b + u <= f
    BY <1>3, <1>4
  <2> QED
    OBVIOUS
<1>6. Modest(m, k)
  BY <1>3, <1>5 DEF Modest
<1> QED
  BY <1>1, <1>6 DEF Balanced

\* The record of a crawl that has only been moved on.
LEMMA MovedBalanced ==
    ASSUME NEW l \in Work, l.pc \in Crawling, NEW n \in Nat, NEW stored, Balanced(l, n, stored),
           NEW m \in Work, NEW other, Clean(m) => Clean(l) /\ Reported(m, other),
           m.pc \in Upserting <=> l.pc \in Upserting,
           m.summary = l.summary, m.todo = l.todo, m.stats = l.stats
    PROVE  Balanced(m, n, other)
<1>1. Modest(m, n)
  BY DEF Balanced, Modest
<1>2. Clean(m) => Sums(m, n)
  BY DEF Balanced, Sums, Begun
<1> QED
  BY <1>1, <1>2 DEF Balanced

\* The first record of a run.
LEMMA FirstBalanced ==
    ASSUME NEW m \in Work, m.pc = "load", Control(m)
    PROVE  Balanced(m, 0, NoStats)
<1>1. /\ m.next = 1 /\ m.stats = NoStats /\ m.summary = ZeroSummary /\ m.flush = {} /\ m.todo = <<>>
  BY DEF Control
<1>2. \A k \in StatKeys : NoStats[k] = NoStat /\ Blank(NoStats[k])
  BY DEF NoStats, NoStat, Blank
<1>3. Len(m.todo) = 0 /\ m.summary.created = 0 /\ m.summary.dup = 0 /\ m.summary.found = 0
  BY <1>1 DEF ZeroSummary
<1>4. Begun(m) = 0
  BY DEF Begun, Upserting
<1>5. Modest(m, 0)
  BY <1>3 DEF Modest
<1>6. Sums(m, 0)
  BY <1>1, <1>2, <1>3, <1>4, IdleTyped, BlankSums DEF Sums
<1>7. Reported(m, NoStats)
  BY <1>1, <1>2 DEF Reported, Upserting, Handling, SameCounts
<1> QED
  BY <1>5, <1>6, <1>7 DEF Balanced

\* A collector's postings are found, and none is counted in its stats yet.
LEMMA CollectedBalanced ==
    ASSUME NEW l \in Work, Control(l), l.pc = "collect", l.next <= 2, NEW n \in Nat, NEW stored,
           Balanced(l, n, stored), NEW m \in Work, m.pc = "posting", Clean(m) => Clean(l),
           m.stats = NoStats, m.summary.created = l.summary.created,
           m.summary.dup = l.summary.dup, m.summary.found = l.summary.found + Len(m.todo)
    PROVE  Balanced(m, n, stored)
<1>1. /\ l.summary.created \in Nat /\ l.summary.dup \in Nat /\ l.summary.found \in Nat
      /\ Len(m.todo) \in Nat /\ l.todo = <<>> /\ Len(l.todo) = 0 /\ l.flush = {}
      /\ l.stats \in [StatKeys -> Stat] /\ l.next \in 1..3
  BY LenProperties, CollectorFacts DEF Work, Summary, Control
<1>2. Modest(m, n)
  BY <1>1 DEF Balanced, Modest, Crawling
<1>3. ASSUME Clean(m) PROVE Sums(m, n) /\ Reported(m, stored)
  <2>1. Clean(l) /\ Sums(l, n) /\ Reported(l, stored)
    BY <1>3 DEF Balanced
  <2>2. \A k \in StatKeys : Blank(l.stats[k]) /\ SameCounts(stored[k], l.stats[k])
    BY <1>1, <2>1 DEF Reported, Handling, Upserting
  <2>3. \A k \in StatKeys : Blank(stored[k]) /\ NoStats[k] = NoStat /\ Blank(NoStats[k])
    BY <2>2 DEF Blank, SameCounts, NoStats, NoStat
  <2>4. Begun(l) = 0 /\ Begun(m) = 0
    BY DEF Begun, Upserting
  <2>5. l.summary.found + Begun(l) - Len(l.todo) = 0 /\ l.summary.dup = 0
    BY <1>1, <2>1, <2>2, BlankSums DEF Sums
  <2>6. l.summary.found = 0
    BY <1>1, <2>4, <2>5
  <2>7. m.summary.found + Begun(m) - Len(m.todo) = 0 /\ m.summary.found - Len(m.todo) = 0
    BY <1>1, <2>4, <2>6
  <2>8. Sums(m, n)
    BY <2>1, <2>3, <2>5, <2>7, IdleTyped, BlankSums DEF Sums
  <2>9. Reported(m, stored)
    BY <2>3 DEF Reported, Upserting, Handling
  <2> QED
    BY <2>8, <2>9
<1> QED
  BY <1>2, <1>3 DEF Balanced

\* A posting is counted where it is from: a filtered one is handled with that,
\* any other is at work from now on.
Counts(l, m, y) ==
    /\ l.pc = "posting" /\ l.todo # <<>> /\ (Clean(m) => Clean(l)) /\ y \in Stat
    /\ m.stats = [l.stats EXCEPT ![Head(l.todo).from] = y] /\ m.next = l.next
    /\ y.found = l.stats[Head(l.todo).from].found + 1
    /\ y.created = l.stats[Head(l.todo).from].created
    /\ y.dup = l.stats[Head(l.todo).from].dup /\ y.status # "absent"
    /\ m.summary.created = l.summary.created /\ m.summary.dup = l.summary.dup
    /\ m.summary.found = l.summary.found
    /\ \/ /\ m.pc = "posting" /\ m.todo = Tail(l.todo)
          /\ y.filtered = l.stats[Head(l.todo).from].filtered + 1
       \/ /\ m.pc = "find_url" /\ m.todo = l.todo
          /\ y.filtered = l.stats[Head(l.todo).from].filtered
LEMMA CountedBalanced ==
    ASSUME NEW l \in Work, Control(l), NEW n \in Nat, NEW stored, Balanced(l, n, stored),
           NEW m \in Work, NEW y, Counts(l, m, y)
    PROVE  Balanced(m, n, stored)
<1>1. PICK k : k = Head(l.todo).from
  OBVIOUS
<1>2. /\ l.todo \in Seq(Posting) /\ k \in StatKeys /\ Len(l.todo) \in Nat /\ Len(l.todo) > 0
      /\ Len(Tail(l.todo)) = Len(l.todo) - 1 /\ y \in Stat /\ l.pc = "posting" /\ l.todo # <<>>
  BY <1>1, TodoParts DEF Work, Counts
<1>3. PICK x : x = l.stats[k]
  OBVIOUS
<1>4. /\ l.summary.created \in Nat /\ l.summary.dup \in Nat /\ l.summary.found \in Nat
      /\ l.stats \in [StatKeys -> Stat] /\ x.filtered \in Nat /\ x.created \in Nat /\ x.dup \in Nat
      /\ y.filtered \in Nat
  BY <1>2, <1>3, StatTyped DEF Work, Summary
<1>5. PICK a, b, f, t \in Nat :
        /\ a = l.summary.created /\ b = l.summary.dup /\ f = l.summary.found /\ t = Len(l.todo)
        /\ t > 0
  BY <1>2, <1>4
<1>6. m.summary.created = a /\ m.summary.dup = b /\ m.summary.found = f
      /\ \/ m.pc = "posting" /\ Len(m.todo) = t - 1 /\ y.filtered = x.filtered + 1
         \/ m.pc = "find_url" /\ m.todo = l.todo /\ Len(m.todo) = t /\ y.filtered = x.filtered
  BY <1>1, <1>2, <1>3, <1>5 DEF Counts
<1>7. Modest(m, n)
  <2>1. a <= n /\ a + b + t <= f /\ t > 0
    BY <1>2, <1>5 DEF Balanced, Modest, Crawling, Handling
  <2>2. a + b + (t - 1) <= f
    BY <2>1
  <2> QED
    BY <1>6, <2>1, <2>2 DEF Modest
<1>8. ASSUME Clean(m) PROVE Sums(m, n) /\ Reported(m, stored)
  <2>1. Clean(l) /\ Sums(l, n) /\ Reported(l, stored)
    BY <1>8 DEF Balanced, Counts
  <2>2. Begun(l) = 0
    BY <1>2 DEF Begun, Upserting
  <2>3. PICK d \in Int : d = f - t
    BY <1>5
  <2>4. f + 0 - t = d /\ f + 1 - t = d + 1 /\ f + 0 - (t - 1) = d + 1 /\ f - (t - 1) = d + 1
    BY <2>3
  <2>5. /\ Tallied(FoundOf(l.stats), d) /\ Tallied(HandledOf(l.stats), d)
        /\ Tallied(DupOf(l.stats), b) /\ a = n
    BY <1>5, <2>1, <2>2, <2>3, <2>4 DEF Sums
  <2>6. m.stats = [l.stats EXCEPT ![k] = y] /\ y.found = l.stats[k].found + 1
        /\ y.dup = l.stats[k].dup /\ y.created = x.created /\ y.dup = x.dup
    BY <1>1, <1>3 DEF Counts
  <2>7. PICK stats, other : stats = l.stats /\ other = m.stats
    OBVIOUS
  <2>8. /\ stats \in [StatKeys -> Stat] /\ k \in StatKeys /\ y \in Stat
        /\ x = stats[k] /\ other = [stats EXCEPT ![k] = y]
        /\ Tallied(FoundOf(stats), d) /\ Tallied(HandledOf(stats), d) /\ Tallied(DupOf(stats), b)
    BY <1>2, <1>3, <1>4, <2>5, <2>6, <2>7
  <2>9. Tallied(FoundOf(m.stats), d + 1) /\ Tallied(DupOf(m.stats), b)
    <3>1. (y.found = x.found + 1) => Tallied(FoundOf(other), d + 1)
      BY <2>8, FoundRaised
    <3>2. (y.dup = x.dup) => Tallied(DupOf(other), b)
      BY <2>8, DupRaised
    <3> QED
      BY <1>3, <2>6, <2>7, <3>1, <3>2
  <2>10. /\ (Dealt(y) = Dealt(x) + 1)
            => Tallied(HandledOf(m.stats), d + 1)
         /\ (Dealt(y) = Dealt(x))
            => Tallied(HandledOf(m.stats), d)
    <3>1. /\ (Dealt(y) = Dealt(x) + 1)
                => Tallied(HandledOf(other), d + 1)
          /\ (Dealt(y) = Dealt(x))
                => Tallied(HandledOf(other), d)
      BY <2>8, HandledRaised
    <3> QED
      BY <2>7, <3>1
  <2>11. ASSUME m.pc = "posting", Len(m.todo) = t - 1, y.filtered = x.filtered + 1 PROVE Sums(m, n)
    <3>1. Dealt(y) = Dealt(x) + 1
      <4>1. y.created = x.created /\ y.dup = x.dup /\ y.filtered = x.filtered + 1
        BY <2>6, <2>11
      <4>2. x.created \in Nat /\ x.dup \in Nat /\ x.filtered \in Nat
        BY <1>4
      <4> QED
        BY <4>1, <4>2 DEF Dealt
    <3>2. Tallied(HandledOf(m.stats), d + 1)
      BY <2>10, <3>1
    <3>3. Begun(m) = 0
      BY <2>11 DEF Begun, Upserting
    <3> QED
      <4>1. m.summary.created = n /\ m.summary.dup = b
        BY <1>6, <2>5
      <4>2. m.summary.found + Begun(m) - Len(m.todo) = d + 1 /\ m.summary.found - Len(m.todo) = d + 1
        <5>1. m.summary.found = f /\ Len(m.todo) = t - 1
          BY <1>6, <2>11
        <5> QED
          BY <2>4, <3>3, <5>1
      <4> QED
        BY <2>9, <3>2, <4>1, <4>2 DEF Sums
  <2>12. ASSUME m.pc = "find_url", Len(m.todo) = t, y.filtered = x.filtered PROVE Sums(m, n)
    <3>1. Dealt(y) = Dealt(x)
      BY <2>6, <2>12 DEF Dealt
    <3>2. Tallied(HandledOf(m.stats), d)
      BY <2>10, <3>1
    <3>3. Begun(m) = 1
      BY <2>12 DEF Begun, Upserting
    <3> QED
      <4>1. m.summary.created = n /\ m.summary.dup = b
        BY <1>6, <2>5
      <4>2. m.summary.found + Begun(m) - Len(m.todo) = d + 1 /\ m.summary.found - Len(m.todo) = d
        <5>1. m.summary.found = f /\ Len(m.todo) = t
          BY <1>6, <2>12
        <5> QED
          BY <2>3, <2>4, <3>3, <5>1
      <4> QED
        BY <2>9, <3>2, <4>1, <4>2 DEF Sums
  <2>13. Sums(m, n)
    BY <1>6, <2>11, <2>12
  <2>14. Reported(m, stored)
    <3>1. l.next # 1
      BY <1>2 DEF Control
    <3>2. m.pc \in Handling /\ l.pc \in Handling /\ m.pc # "collect"
      BY <1>2, <1>6 DEF Handling, Upserting
    <3>3. \A j \in StatKeys : m.stats[j] = (IF j = k THEN y ELSE l.stats[j])
      BY <1>4, <2>6
    <3>4. m.pc \in Upserting => m.stats[Head(m.todo).from].status # "absent"
      BY <1>1, <1>2, <1>6, <3>3 DEF Upserting, Counts
    <3> QED
      BY <2>1, <3>1, <3>2, <3>3, <3>4 DEF Reported, Counts
  <2> QED
    BY <2>13, <2>14
<1> QED
  BY <1>7, <1>8 DEF Balanced

\* The posting at work is found to be a duplicate, or its row is in.
Ends(l, m, y, n, k) ==
    /\ l.pc \in Upserting /\ (Clean(m) => Clean(l)) /\ y \in Stat /\ k \in Nat
    /\ m.stats = [l.stats EXCEPT ![Head(l.todo).from] = y] /\ m.next = l.next
    /\ m.pc = "posting" /\ m.todo = Tail(l.todo) /\ m.summary.found = l.summary.found
    /\ y.found = l.stats[Head(l.todo).from].found
    /\ y.filtered = l.stats[Head(l.todo).from].filtered
    /\ y.status = l.stats[Head(l.todo).from].status
    /\ \/ /\ y.dup = l.stats[Head(l.todo).from].dup + 1
          /\ y.created = l.stats[Head(l.todo).from].created
          /\ m.summary.dup = l.summary.dup + 1 /\ m.summary.created = l.summary.created
          /\ k = n
       \/ /\ y.dup = l.stats[Head(l.todo).from].dup
          /\ y.created = l.stats[Head(l.todo).from].created + 1
          /\ m.summary.dup = l.summary.dup /\ m.summary.created = l.summary.created + 1
          /\ k = n + 1
LEMMA EndedBalanced ==
    ASSUME NEW l \in Work, Control(l), NEW n \in Nat, NEW stored, Balanced(l, n, stored),
           NEW m \in Work, NEW y, NEW k, Ends(l, m, y, n, k)
    PROVE  Balanced(m, k, stored)
<1>1. PICK s : s = Head(l.todo).from
  OBVIOUS
<1>2. /\ l.todo \in Seq(Posting) /\ l.todo # <<>> /\ s \in StatKeys /\ Len(l.todo) \in Nat
      /\ Len(l.todo) > 0 /\ Len(Tail(l.todo)) = Len(l.todo) - 1 /\ y \in Stat /\ k \in Nat
      /\ l.pc \in Upserting /\ m.pc = "posting"
  BY <1>1, TodoParts DEF Work, Control, Ends
<1>3. PICK x : x = l.stats[s]
  OBVIOUS
<1>4. /\ l.summary.created \in Nat /\ l.summary.dup \in Nat /\ l.summary.found \in Nat
      /\ l.stats \in [StatKeys -> Stat] /\ x.filtered \in Nat /\ x.created \in Nat /\ x.dup \in Nat
  BY <1>2, <1>3, StatTyped DEF Work, Summary
<1>5. PICK a, b, f, t \in Nat :
        /\ a = l.summary.created /\ b = l.summary.dup /\ f = l.summary.found /\ t = Len(l.todo)
        /\ t > 0
  BY <1>2, <1>4
<1>6. PICK i, j \in {0, 1} :
        /\ m.summary.created = a + i /\ m.summary.dup = b + j /\ k = n + i /\ i + j = 1
        /\ y.created = x.created + i /\ y.dup = x.dup + j
  <2>1. \/ m.summary.created = a /\ m.summary.dup = b + 1 /\ k = n
           /\ y.created = x.created /\ y.dup = x.dup + 1
        \/ m.summary.created = a + 1 /\ m.summary.dup = b /\ k = n + 1
           /\ y.created = x.created + 1 /\ y.dup = x.dup
    BY <1>1, <1>3, <1>5 DEF Ends
  <2>2. a + 0 = a /\ b + 0 = b /\ n + 0 = n /\ x.created + 0 = x.created /\ x.dup + 0 = x.dup
    BY <1>4
  <2> QED
    BY <2>1, <2>2
<1>7. m.summary.found = f /\ Len(m.todo) = t - 1
  BY <1>2, <1>5 DEF Ends
<1>8. Modest(m, k)
  <2>1. a <= n /\ a + b + t <= f
    BY <1>2, <1>5 DEF Balanced, Modest, Crawling, Handling
  <2>2. a + i <= k /\ (a + i) + (b + j) + (t - 1) <= f
    <3>1. k = n + i /\ i + j = 1
      BY <1>6
    <3> QED
      BY <2>1, <3>1
  <2> QED
    BY <1>6, <1>7, <2>2 DEF Modest
<1>9. ASSUME Clean(m) PROVE Sums(m, k) /\ Reported(m, stored)
  <2>1. Clean(l) /\ Sums(l, n) /\ Reported(l, stored)
    BY <1>9 DEF Balanced, Ends
  <2>2. Begun(l) = 1 /\ Begun(m) = 0
    BY <1>2 DEF Begun, Upserting
  <2>3. PICK d \in Int : d = f - t
    BY <1>5
  <2>4. f + 1 - t = d + 1 /\ f + 0 - (t - 1) = d + 1 /\ f - (t - 1) = d + 1
    BY <2>3
  <2>5. /\ Tallied(FoundOf(l.stats), d + 1) /\ Tallied(HandledOf(l.stats), d)
        /\ Tallied(DupOf(l.stats), b) /\ a = n
    BY <1>5, <2>1, <2>2, <2>3, <2>4 DEF Sums
  <2>6. m.stats = [l.stats EXCEPT ![s] = y] /\ y.found = x.found /\ y.filtered = x.filtered
    BY <1>1, <1>3 DEF Ends
  <2>7. Dealt(y) = Dealt(x) + 1
    <3>1. y.created = x.created + i /\ y.dup = x.dup + j /\ y.filtered = x.filtered /\ i + j = 1
      BY <1>6, <2>6
    <3>2. x.created \in Nat /\ x.dup \in Nat /\ x.filtered \in Nat
      BY <1>4
    <3> QED
      BY <3>1, <3>2 DEF Dealt
  <2>8. PICK stats, other, e : stats = l.stats /\ other = m.stats /\ e = d + 1
    OBVIOUS
  <2>9. /\ stats \in [StatKeys -> Stat] /\ s \in StatKeys /\ y \in Stat
        /\ x = stats[s] /\ other = [stats EXCEPT ![s] = y]
        /\ Tallied(FoundOf(stats), e) /\ Tallied(HandledOf(stats), d) /\ Tallied(DupOf(stats), b)
    BY <1>2, <1>3, <1>4, <2>5, <2>6, <2>8
  <2>10. Tallied(FoundOf(m.stats), d + 1) /\ Tallied(HandledOf(m.stats), d + 1)
    <3>1. (y.found = x.found) => Tallied(FoundOf(other), e)
      BY <2>9, FoundRaised
    <3>2. (Dealt(y) = Dealt(x) + 1)
            => Tallied(HandledOf(other), d + 1)
      BY <2>9, HandledRaised
    <3> QED
      BY <2>6, <2>7, <2>8, <3>1, <3>2
  <2>11. Tallied(DupOf(m.stats), b + j)
    <3>1. /\ (y.dup = x.dup + 1) => Tallied(DupOf(m.stats), b + 1)
          /\ (y.dup = x.dup) => Tallied(DupOf(m.stats), b)
      <4>1. /\ (y.dup = x.dup + 1) => Tallied(DupOf(other), b + 1)
            /\ (y.dup = x.dup) => Tallied(DupOf(other), b)
        BY <2>9, DupRaised
      <4> QED
        BY <2>8, <4>1
    <3>2. CASE j = 0
      <4>1. y.dup = x.dup /\ b + j = b
        BY <1>4, <1>5, <1>6, <3>2
      <4> QED
        BY <3>1, <4>1
    <3>3. CASE j = 1
      BY <1>6, <3>1, <3>3
    <3> QED
      BY <3>2, <3>3
  <2>12. Sums(m, k)
    BY <1>6, <1>7, <2>2, <2>4, <2>5, <2>10, <2>11 DEF Sums
  <2>13. Reported(m, stored)
    <3>1. l.next # 1
      BY <1>2 DEF Control
    <3>2. m.pc \in Handling /\ l.pc \in Handling /\ m.pc # "collect" /\ m.pc \notin Upserting
      BY <1>2 DEF Handling, Upserting
    <3>3. \A q \in StatKeys : m.stats[q] = (IF q = s THEN y ELSE l.stats[q])
      BY <1>4, <2>6
    <3>4. y.status # "absent"
      BY <1>1, <1>2, <2>1 DEF Reported, Ends
    <3> QED
      BY <2>1, <3>1, <3>2, <3>3, <3>4 DEF Reported, Ends
  <2> QED
    BY <2>12, <2>13
<1> QED
  BY <1>8, <1>9 DEF Balanced

\* The stats that were counted in wait to be stored.
LEMMA ClosedBalanced ==
    ASSUME NEW l \in Work, Control(l), l.pc = "posting", l.todo = <<>>, NEW n \in Nat, NEW stored,
           Balanced(l, n, stored), NEW m \in Work, Clean(m) => Clean(l),
           m.pc = "results", m.todo = l.todo, m.summary = l.summary, m.next = l.next,
           NEW own \in StatKeys,
           IF {k \in StatKeys : l.stats[k].status # "absent"} # {}
           THEN m.flush = {k \in StatKeys : l.stats[k].status # "absent"} /\ m.stats = l.stats
           ELSE m.flush = {own} /\ m.stats = [l.stats EXCEPT ![own].status = "success"]
    PROVE  Balanced(m, n, stored)
<1>1. l.stats \in [StatKeys -> Stat] /\ m.stats \in [StatKeys -> Stat]
  BY DEF Work
<1>2. Modest(m, n)
  BY DEF Balanced, Modest, Crawling, Handling
<1>3. Begun(l) = 0 /\ Begun(m) = 0
  BY DEF Begun, Upserting
<1>4. \A k \in StatKeys : SameCounts(m.stats[k], l.stats[k])
  <2>1. CASE m.stats = l.stats
    BY <2>1 DEF SameCounts
  <2>2. CASE m.stats = [l.stats EXCEPT ![own].status = "success"]
    <3>1. PICK y : y = [l.stats[own] EXCEPT !.status = "success"]
      OBVIOUS
    <3>2. SameCounts(y, l.stats[own])
      BY <1>1, <3>1 DEF SameCounts, Stat
    <3>3. \A k \in StatKeys : m.stats[k] = (IF k = own THEN y ELSE l.stats[k])
      BY <1>1, <2>2, <3>1
    <3> QED
      BY <3>2, <3>3 DEF SameCounts
  <2> QED
    BY <2>1, <2>2
<1>5. FoundOf(m.stats) = FoundOf(l.stats) /\ DupOf(m.stats) = DupOf(l.stats)
      /\ HandledOf(m.stats) = HandledOf(l.stats)
  BY <1>1, <1>4, SameSums
<1>6. ASSUME Clean(m) PROVE Sums(m, n) /\ Reported(m, stored)
  <2>1. Clean(l) /\ Sums(l, n) /\ Reported(l, stored)
    BY <1>6 DEF Balanced
  <2>2. Sums(m, n)
    BY <1>3, <1>5, <2>1 DEF Sums
  <2>3. \A k \in StatKeys : Blank(stored[k]) /\ (l.next = 1 => Blank(l.stats[k]))
    BY <2>1 DEF Reported, Handling
  <2>4. ASSUME NEW k \in StatKeys, k \notin m.flush PROVE Blank(l.stats[k])
    <3>1. l.stats[k].status = "absent" \/ k = own
      BY <2>4
    <3>2. l.stats[k].status = "absent"
      BY <2>4, <3>1
    <3> QED
      BY <2>1, <3>2 DEF Reported
  <2>5. ASSUME NEW k \in StatKeys, m.stats[k].status = "absent" PROVE Blank(m.stats[k])
    <3>1. l.stats[k].status = "absent"
      <4>1. CASE m.stats = l.stats
        BY <2>5, <4>1
      <4>2. CASE m.stats = [l.stats EXCEPT ![own].status = "success"]
        BY <1>1, <2>5, <4>2 DEF Stat
      <4> QED
        BY <4>1, <4>2
    <3> QED
      BY <1>4, <2>1, <3>1 DEF Reported, Blank, SameCounts
  <2>6. \A k \in StatKeys :
            /\ m.next = 1 => Blank(m.stats[k])
            /\ k \notin m.flush => SameCounts(stored[k], m.stats[k])
    BY <1>4, <2>3, <2>4 DEF Blank, SameCounts
  <2>7. Reported(m, stored)
    BY <2>5, <2>6 DEF Reported, Upserting, Handling
  <2> QED
    BY <2>2, <2>7
<1> QED
  BY <1>2, <1>6 DEF Balanced

\* The stat a posting is counted in.
LEMMA CountFoundFields ==
    ASSUME NEW x \in Stat, NEW p \in Posting, NEW z, z = CountFound(x, p)
    PROVE  /\ z \in Stat /\ z.found = x.found + 1 /\ z.created = x.created /\ z.dup = x.dup
           /\ z.filtered = x.filtered /\ z.status # "absent"
<1>1. PICK v : v = (IF p.diagnostic THEN "failed"
                    ELSE IF x.status = "absent" THEN "success" ELSE x.status)
  OBVIOUS
<1>2. v # "absent"
  BY <1>1
<1>3. PICK n \in Nat : n = x.found + 1
  BY DEF Stat
<1>4. z = [x EXCEPT !.found = n, !.status = v]
  BY <1>1, <1>3 DEF CountFound
<1>5. z \in Stat
  BY CountFoundTyped
<1>6. z.found = n /\ z.created = x.created /\ z.dup = x.dup /\ z.filtered = x.filtered /\ z.status = v
  BY <1>4 DEF Stat
<1> QED
  BY <1>2, <1>3, <1>5, <1>6

\* TakePosting as the books see it.
Takes(l, m, p, d) ==
    \E counted :
        /\ counted = [l EXCEPT !.stats[p.from] = CountFound(@, p)]
        /\ \/ m = [counted EXCEPT !.todo = Tail(@), !.stats[p.from].filtered = @ + 1]
           \/ m = [counted EXCEPT !.pc = "find_url", !.stats[p.from].manual = @ + d,
                                  !.summary.manual = @ + d]
LEMMA TakenBalanced ==
    ASSUME NEW l \in Work, Control(l), l.pc = "posting", l.todo # <<>>, NEW n \in Nat, NEW stored,
           Balanced(l, n, stored), NEW m \in Work, NEW p, p = Head(l.todo),
           NEW d \in Nat, Takes(l, m, p, d)
    PROVE  Balanced(m, n, stored)
<1>0. PICK counted :
        /\ counted = [l EXCEPT !.stats[p.from] = CountFound(@, p)]
        /\ \/ m = [counted EXCEPT !.todo = Tail(@), !.stats[p.from].filtered = @ + 1]
           \/ m = [counted EXCEPT !.pc = "find_url", !.stats[p.from].manual = @ + d,
                                  !.summary.manual = @ + d]
  BY DEF Takes
<1>1. PICK k : k = p.from
  OBVIOUS
<1>2. p \in Posting /\ k \in StatKeys /\ l.stats \in [StatKeys -> Stat] /\ l.summary \in Summary
      /\ m.stats \in [StatKeys -> Stat]
  BY <1>1, TodoParts DEF Work
<1>3. PICK x : x = l.stats[k]
  OBVIOUS
<1>4. PICK z : z = CountFound(x, p)
  OBVIOUS
<1>5. /\ x \in Stat /\ z \in Stat /\ z.found = x.found + 1 /\ z.created = x.created
      /\ z.dup = x.dup /\ z.filtered = x.filtered /\ z.status # "absent"
  BY <1>2, <1>3, <1>4, CountFoundFields
<1>6. counted = [l EXCEPT !.stats = [l.stats EXCEPT ![k] = z]]
  BY <1>0, <1>1, <1>3, <1>4 DEF Work
<1>7. /\ counted.stats = [l.stats EXCEPT ![k] = z] /\ counted.pc = l.pc /\ counted.run = l.run
      /\ counted.todo = l.todo /\ counted.next = l.next /\ counted.errors = l.errors
      /\ counted.summary = l.summary /\ DOMAIN counted = DOMAIN l
      /\ DOMAIN l = {"pc", "run", "next", "todo", "stats", "flush", "key", "summary", "errors"}
  BY <1>6 DEF Work
<1>8. PICK y : y = m.stats[k]
  OBVIOUS
<1>9. y \in Stat
  BY <1>2, <1>8
<1>10. counted.stats \in [StatKeys -> Stat] /\ counted.stats[k] = z
  <2>1. PICK s : s = [l.stats EXCEPT ![k] = z]
    OBVIOUS
  <2>2. s \in [StatKeys -> Stat] /\ s[k] = z
    <3>1. l.stats \in [StatKeys -> Stat] /\ k \in StatKeys /\ z \in Stat
      BY <1>2, <1>5
    <3> QED
      BY <2>1, <3>1
  <2> QED
    BY <1>7, <2>1, <2>2
<1>11. CASE m = [counted EXCEPT !.todo = Tail(@), !.stats[p.from].filtered = @ + 1]
  <2>1. PICK w : w = [z EXCEPT !.filtered = @ + 1]
    OBVIOUS
  <2>2. m = [counted EXCEPT !.todo = Tail(l.todo), !.stats = [counted.stats EXCEPT ![k] = w]]
    BY <1>1, <1>7, <1>10, <1>11, <2>1
  <2>3. /\ m.stats = [counted.stats EXCEPT ![k] = w] /\ m.todo = Tail(l.todo) /\ m.pc = "posting"
        /\ m.next = l.next /\ m.errors = l.errors /\ m.summary = l.summary
    BY <1>7, <2>2
  <2>4. y = w
    BY <1>2, <1>8, <1>10, <2>3
  <2>5. m.stats = [l.stats EXCEPT ![k] = y]
    BY <1>2, <1>7, <2>3, <2>4
  <2>6. /\ w.found = z.found /\ w.created = z.created /\ w.dup = z.dup
        /\ w.filtered = z.filtered + 1 /\ w.status = z.status
    BY <1>5, <2>1 DEF Stat
  <2>7. y.found = x.found + 1 /\ y.created = x.created /\ y.dup = x.dup
        /\ y.filtered = x.filtered + 1 /\ y.status # "absent"
    BY <1>5, <2>4, <2>6
  <2>8. Clean(m) => Clean(l)
    BY <2>3 DEF Clean, Crawling, Handling
  <2>9. Counts(l, m, y)
    BY <1>1, <1>3, <1>9, <2>3, <2>5, <2>7, <2>8 DEF Counts
  <2> QED
    BY <2>9, CountedBalanced
<1>12. CASE m = [counted EXCEPT !.pc = "find_url", !.stats[p.from].manual = @ + d,
                                !.summary.manual = @ + d]
  <2>1. PICK w, v : w = [z EXCEPT !.manual = @ + d] /\ v = [l.summary EXCEPT !.manual = @ + d]
    OBVIOUS
  <2>2. m = [counted EXCEPT !.pc = "find_url", !.stats = [counted.stats EXCEPT ![k] = w],
                            !.summary = v]
    BY <1>1, <1>7, <1>10, <1>12, <2>1
  <2>3. /\ m.stats = [counted.stats EXCEPT ![k] = w] /\ m.todo = l.todo /\ m.pc = "find_url"
        /\ m.next = l.next /\ m.errors = l.errors /\ m.summary = v
    BY <1>7, <2>2
  <2>4. y = w
    BY <1>2, <1>8, <1>10, <2>3
  <2>5. m.stats = [l.stats EXCEPT ![k] = y]
    BY <1>2, <1>7, <2>3, <2>4
  <2>6. /\ w.found = z.found /\ w.created = z.created /\ w.dup = z.dup
        /\ w.filtered = z.filtered /\ w.status = z.status
    BY <1>5, <2>1 DEF Stat
  <2>7. y.found = x.found + 1 /\ y.created = x.created /\ y.dup = x.dup
        /\ y.filtered = x.filtered /\ y.status # "absent"
    BY <1>5, <2>4, <2>6
  <2>8. /\ v.created = l.summary.created /\ v.dup = l.summary.dup /\ v.found = l.summary.found
        /\ v.failed = l.summary.failed
    BY <1>2, <2>1 DEF Summary
  <2>9. Clean(m) => Clean(l)
    BY <2>3, <2>8 DEF Clean, Crawling, Handling
  <2>10. Counts(l, m, y)
    BY <1>1, <1>3, <1>9, <2>3, <2>5, <2>7, <2>8, <2>9 DEF Counts
  <2> QED
    BY <2>10, CountedBalanced
<1> QED
  BY <1>0, <1>11, <1>12

\* The three ends of a posting as the books see them.
LEMMA EndingsBalanced ==
    ASSUME NEW l \in Work, Control(l), l.pc \in Upserting, NEW n \in Nat, NEW stored,
           Balanced(l, n, stored), NEW m \in Work
    PROVE  /\ m = Duplicated(l) => Balanced(m, n, stored)
           /\ m = Created(l) => Balanced(m, n + 1, stored)
           /\ m = NotStored(l) => \A k \in Nat : n <= k => Balanced(m, k, stored)
<1>1. PICK k : k = Head(l.todo).from
  OBVIOUS
<1>2. /\ k \in StatKeys /\ l.stats \in [StatKeys -> Stat] /\ l.summary \in Summary
      /\ l.todo \in Seq(Posting) /\ l.todo # <<>> /\ m.stats \in [StatKeys -> Stat]
      /\ DOMAIN l = {"pc", "run", "next", "todo", "stats", "flush", "key", "summary", "errors"}
  BY <1>1, TodoParts DEF Work, Control
<1>3. PICK t : t = PostingDone(l)
  OBVIOUS
<1>4. /\ t.pc = "posting" /\ t.todo = Tail(l.todo) /\ t.run = l.run /\ t.next = l.next
      /\ t.stats = l.stats /\ t.summary = l.summary /\ t.errors = l.errors /\ DOMAIN t = DOMAIN l
  BY <1>2, <1>3 DEF PostingDone
<1>5. PICK x, y : x = l.stats[k] /\ y = m.stats[k]
  OBVIOUS
<1>6. x \in Stat /\ y \in Stat
  BY <1>2, <1>5
<1>7. ASSUME m = Duplicated(l) PROVE Balanced(m, n, stored)
  <2>1. PICK w, v : w = [x EXCEPT !.dup = @ + 1] /\ v = [l.summary EXCEPT !.dup = @ + 1]
    OBVIOUS
  <2>2. m = [t EXCEPT !.summary = v, !.stats = [l.stats EXCEPT ![k] = w]]
    BY <1>1, <1>2, <1>3, <1>4, <1>5, <1>7, <2>1 DEF Duplicated
  <2>3. /\ m.stats = [l.stats EXCEPT ![k] = w] /\ m.todo = Tail(l.todo) /\ m.pc = "posting"
        /\ m.next = l.next /\ m.errors = l.errors /\ m.summary = v
    BY <1>2, <1>4, <2>2
  <2>4. y = w
    BY <1>2, <1>5, <2>3
  <2>5. /\ w.found = x.found /\ w.created = x.created /\ w.dup = x.dup + 1
        /\ w.filtered = x.filtered /\ w.status = x.status
    BY <1>6, <2>1 DEF Stat
  <2>6. /\ v.created = l.summary.created /\ v.dup = l.summary.dup + 1 /\ v.found = l.summary.found
        /\ v.failed = l.summary.failed
    BY <1>2, <2>1 DEF Summary
  <2>7. Clean(m) => Clean(l)
    BY <2>3, <2>6 DEF Clean, Crawling, Handling
  <2>8. Ends(l, m, y, n, n)
    BY <1>1, <1>5, <1>6, <2>3, <2>4, <2>5, <2>6, <2>7 DEF Ends
  <2> QED
    BY <2>8, EndedBalanced
<1>8. ASSUME m = Created(l) PROVE Balanced(m, n + 1, stored)
  <2>1. PICK w, v : w = [x EXCEPT !.created = @ + 1] /\ v = [l.summary EXCEPT !.created = @ + 1]
    OBVIOUS
  <2>2. m = [t EXCEPT !.summary = v, !.stats = [l.stats EXCEPT ![k] = w]]
    BY <1>1, <1>2, <1>3, <1>4, <1>5, <1>8, <2>1 DEF Created
  <2>3. /\ m.stats = [l.stats EXCEPT ![k] = w] /\ m.todo = Tail(l.todo) /\ m.pc = "posting"
        /\ m.next = l.next /\ m.errors = l.errors /\ m.summary = v
    BY <1>2, <1>4, <2>2
  <2>4. y = w
    BY <1>2, <1>5, <2>3
  <2>5. /\ w.found = x.found /\ w.created = x.created + 1 /\ w.dup = x.dup
        /\ w.filtered = x.filtered /\ w.status = x.status
    BY <1>6, <2>1 DEF Stat
  <2>6. /\ v.created = l.summary.created + 1 /\ v.dup = l.summary.dup /\ v.found = l.summary.found
        /\ v.failed = l.summary.failed
    BY <1>2, <2>1 DEF Summary
  <2>7. Clean(m) => Clean(l)
    BY <2>3, <2>6 DEF Clean, Crawling, Handling
  <2>8. PICK j \in Nat : j = n + 1
    OBVIOUS
  <2>9. Ends(l, m, y, n, j)
    BY <1>1, <1>5, <1>6, <2>3, <2>4, <2>5, <2>6, <2>7, <2>8 DEF Ends
  <2> QED
    BY <2>8, <2>9, EndedBalanced
<1>9. ASSUME m = NotStored(l), NEW j \in Nat, n <= j PROVE Balanced(m, j, stored)
  <2>1. m = [t EXCEPT !.errors = TRUE, !.stats[k].status = "partial_success"]
    BY <1>1, <1>3, <1>9 DEF NotStored
  <2>2. m.errors = TRUE /\ m.summary = l.summary /\ m.todo = Tail(l.todo)
    BY <1>2, <1>4, <2>1
  <2>3. Len(m.todo) <= Len(l.todo)
    <3>1. Len(Tail(l.todo)) = Len(l.todo) - 1 /\ Len(l.todo) \in Nat
      BY <1>2, TodoParts
    <3> QED
      BY <2>2, <3>1
  <2>4. l.pc \in Crawling
    BY DEF Crawling, Handling
  <2> QED
    BY <1>9, <2>2, <2>3, <2>4, ErrorBalanced
<1> QED
  BY <1>7, <1>8, <1>9

\* The books after a step, from those of its record.
LEMMA BooksThen ==
    ASSUME NEW c \in Callers, work'[c].run = work[c].run, NEW r, r = work[c].run,
           Balanced(work'[c], Cardinality(InsertedBy(r)'), results'[r])
    PROVE  Books(c)'
  BY DEF Books, InsertedBy

\* The steps before a collector brings its postings and after it is done.
LEMMA QuietBooks ==
    ASSUME AccountInv, NEW c \in Callers, work'[c].pc \in Crawling,
           LoadPreferences(c) \/ Collect(c) \/ CollectFails(c) \/ CloseCollector(c)
           \/ NextCollector(c)
    PROVE  Books(c)'
<1> DEFINE l == work[c]
<1>0. /\ l \in Work /\ Control(l) /\ work \in [Callers -> Work] /\ CrawlTyped /\ work'[c] \in Work
      /\ Control(work'[c]) /\ l.stats \in [StatKeys -> Stat] /\ l.summary \in Summary
      /\ DOMAIN l = {"pc", "run", "next", "todo", "stats", "flush", "key", "summary", "errors"}
      /\ l.next \in 1..3
  BY StepTyped, CollectorFacts DEF AccountInv, HealthInv, CrawlTyped, TypeOK, Proceed, Fail, Work
<1>1. KeepsRow(c)
  <2>1. ~CreateRun(c) /\ ~FinishRun(c)
    <3>1. CreateRun(c) => work[c].pc = "create"
      BY DEF CreateRun, At
    <3>2. FinishRun(c) => work[c].pc = "collect" /\ work[c].next > Len(Collectors)
      BY DEF FinishRun, At
    <3>3. LoadPreferences(c) \/ CloseCollector(c) \/ NextCollector(c) =>
            work[c].pc \in {"load", "posting", "results"}
      BY DEF LoadPreferences, CloseCollector, NextCollector, At
    <3>4. Collect(c) \/ CollectFails(c) => work[c].pc = "collect" /\ work[c].next <= Len(Collectors)
      BY DEF Collect, CollectFails, At
    <3> QED
      BY <1>0, <3>1, <3>2, <3>3, <3>4, CollectorFacts
  <2> QED
    BY <1>0, <2>1, RowKept DEF Proceed, Fail
<1>2. l.pc \in Crawling /\ work'[c].run = l.run
  BY <1>1 DEF KeepsRow
<1>3. PICK r, m : r = l.run /\ m = work'[c]
  OBVIOUS
<1>4. PICK n, stored : n = Cardinality(InsertedBy(r)) /\ stored = results[r]
  OBVIOUS
<1>5. n \in Nat /\ Balanced(l, n, stored)
  BY <1>0, <1>2, <1>3, <1>4, InsertedBooks DEF AccountInv, Books
<1>6. Cardinality(InsertedBy(r)') = n
  <2>1. UNCHANGED jobs
    BY DEF LoadPreferences, Collect, CollectFails, CloseCollector, NextCollector, tables
  <2> QED
    BY <1>4, <2>1 DEF InsertedBy
<1>7. ~CollectFails(c) => results'[r] = stored
  BY <1>4 DEF LoadPreferences, Collect, CloseCollector, NextCollector, tables
<1>8. CASE LoadPreferences(c)
  <2>1. m = [l EXCEPT !.pc = "collect"] /\ l.pc = "load"
    BY <1>0, <1>3, <1>8 DEF LoadPreferences, Goto, At
  <2>2. /\ m.pc = "collect" /\ m.todo = l.todo /\ m.stats = l.stats /\ m.next = l.next
        /\ m.errors = l.errors /\ m.summary = l.summary /\ m.flush = l.flush
    BY <1>0, <2>1
  <2>3. l.next = 1 /\ l.flush = {}
    BY <1>0, <2>1 DEF Control
  <2>4. Clean(m) => Clean(l)
    BY <2>1, <2>2 DEF Clean, Crawling
  <2>5. Clean(m) => Reported(m, stored)
    BY <1>5, <2>1, <2>2, <2>3, <2>4 DEF Balanced, Reported, Upserting, Handling
  <2>6. m.pc \notin Upserting /\ l.pc \notin Upserting
    BY <2>1, <2>2 DEF Upserting
  <2>7. Balanced(m, n, stored)
    BY <1>0, <1>2, <1>3, <1>5, <2>2, <2>4, <2>5, <2>6, MovedBalanced
  <2>8. results'[r] = stored
    BY <1>4, <1>8 DEF LoadPreferences, tables
  <2> QED
    BY <1>2, <1>3, <1>6, <2>7, <2>8, BooksThen
<1>9. CASE Collect(c)
  <2>1. PICK postings, v :
          /\ v = [l.summary EXCEPT !.success = @ + 1, !.found = @ + Len(postings)]
          /\ Goto(c, [l EXCEPT !.pc = "posting", !.todo = postings, !.stats = NoStats,
                               !.summary.success = @ + 1, !.summary.found = @ + Len(postings)])
    BY <1>9 DEF Collect
  <2>2. m = [l EXCEPT !.pc = "posting", !.todo = postings, !.stats = NoStats, !.summary = v]
    BY <1>0, <1>3, <2>1 DEF Goto
  <2>3. /\ m.pc = "posting" /\ m.todo = postings /\ m.stats = NoStats /\ m.errors = l.errors
        /\ m.summary = v
    BY <1>0, <2>2
  <2>4. /\ v.created = l.summary.created /\ v.dup = l.summary.dup /\ v.failed = l.summary.failed
        /\ v.found = l.summary.found + Len(postings)
    BY <1>0, <2>1 DEF Summary
  <2>5. l.pc = "collect" /\ l.next <= 2 /\ results'[r] = stored
    BY <1>4, <1>9, CollectorFacts DEF Collect, At, tables
  <2>6. Clean(m) => Clean(l)
    BY <2>3, <2>4, <2>5 DEF Clean, Crawling
  <2>7. Balanced(m, n, stored)
    BY <1>0, <1>3, <1>5, <2>3, <2>4, <2>5, <2>6, CollectedBalanced
  <2> QED
    BY <1>2, <1>3, <1>6, <2>5, <2>7, BooksThen
<1>10. CASE CollectFails(c)
  <2>1. m = [l EXCEPT !.next = @ + 1, !.errors = TRUE, !.summary.failed = @ + 1]
    BY <1>0, <1>3, <1>10 DEF CollectFails, Goto
  <2>2. PICK v : v = [l.summary EXCEPT !.failed = @ + 1]
    OBVIOUS
  <2>3. m = [l EXCEPT !.next = l.next + 1, !.errors = TRUE, !.summary = v]
    BY <1>0, <2>1, <2>2
  <2>4. m.errors = TRUE /\ m.todo = l.todo /\ m.summary = v
    BY <1>0, <2>3
  <2>5. v.created = l.summary.created /\ v.dup = l.summary.dup /\ v.found = l.summary.found
    BY <1>0, <2>2 DEF Summary
  <2>6. Len(m.todo) <= Len(l.todo)
    BY <1>0, <2>4, LenProperties DEF Work
  <2>7. Balanced(m, n, results'[r])
    BY <1>0, <1>2, <1>3, <1>5, <2>4, <2>5, <2>6, ErrorBalanced
  <2> QED
    BY <1>2, <1>3, <1>6, <2>7, BooksThen
<1>11. CASE CloseCollector(c)
  <2>1. PICK own, touched : own = Collectors[l.next] /\ touched = {k \in StatKeys : l.stats[k].status # "absent"}
    OBVIOUS
  <2>2. l.pc = "posting" /\ l.todo = <<>> /\ results'[r] = stored
    BY <1>4, <1>11 DEF CloseCollector, At, tables
  <2>3. m = IF touched # {} THEN [l EXCEPT !.pc = "results", !.flush = touched]
            ELSE [l EXCEPT !.pc = "results", !.flush = {own}, !.stats[own].status = "success"]
    BY <1>0, <1>3, <1>11, <2>1 DEF CloseCollector, Goto
  <2>4. own \in StatKeys
    <3>1. l.next = 1 \/ l.next = 2
      BY <1>0, <2>2, CollectorFacts DEF Control, Handling
    <3> QED
      BY <2>1, <3>1, CollectorFacts
  <2>5. /\ m.pc = "results" /\ m.todo = l.todo /\ m.summary = l.summary /\ m.next = l.next
        /\ m.errors = l.errors
        /\ IF touched # {} THEN m.flush = touched /\ m.stats = l.stats
           ELSE m.flush = {own} /\ m.stats = [l.stats EXCEPT ![own].status = "success"]
    BY <1>0, <2>3
  <2>6. Clean(m) => Clean(l)
    BY <2>2, <2>5 DEF Clean, Crawling, Handling
  <2>7. Balanced(m, n, stored)
    BY <1>0, <1>3, <1>5, <2>1, <2>2, <2>4, <2>5, <2>6, ClosedBalanced
  <2> QED
    BY <1>2, <1>3, <1>6, <2>2, <2>7, BooksThen
<1>12. CASE NextCollector(c)
  <2>1. m = [l EXCEPT !.pc = "collect", !.next = @ + 1] /\ l.pc = "results" /\ l.flush = {}
    BY <1>0, <1>3, <1>12 DEF NextCollector, Goto, At
  <2>2. /\ m.pc = "collect" /\ m.todo = l.todo /\ m.stats = l.stats /\ m.next = l.next + 1
        /\ m.errors = l.errors /\ m.summary = l.summary /\ m.flush = l.flush
    BY <1>0, <2>1
  <2>3. m.next # 1 /\ (m.next = 2 => l.next = 1)
    BY <1>0, <2>2
  <2>4. Clean(m) => Clean(l)
    BY <2>1, <2>2 DEF Clean, Crawling, Storing
  <2>5. Clean(m) => Reported(m, stored)
    BY <1>5, <2>1, <2>2, <2>3, <2>4 DEF Balanced, Reported, Upserting, Handling
  <2>6. m.pc \notin Upserting /\ l.pc \notin Upserting
    BY <2>1, <2>2 DEF Upserting
  <2>7. Balanced(m, n, stored)
    BY <1>0, <1>2, <1>3, <1>5, <2>2, <2>4, <2>5, <2>6, MovedBalanced
  <2>8. results'[r] = stored
    BY <1>4, <1>12 DEF NextCollector, tables
  <2> QED
    BY <1>2, <1>3, <1>6, <2>7, <2>8, BooksThen
<1> QED
  BY <1>8, <1>9, <1>10, <1>11, <1>12

\* The steps of a posting.
LEMMA PostingBooks ==
    ASSUME AccountInv, NEW c \in Callers, work'[c].pc \in Crawling,
           TakePosting(c) \/ FindByUrl(c) \/ FindByName(c) \/ StorePosting(c) \/ UpsertFails(c)
    PROVE  Books(c)'
<1> DEFINE l == work[c]
<1>0. /\ l \in Work /\ Control(l) /\ work \in [Callers -> Work] /\ CrawlTyped /\ work'[c] \in Work
      /\ DOMAIN l = {"pc", "run", "next", "todo", "stats", "flush", "key", "summary", "errors"}
  BY StepTyped DEF AccountInv, HealthInv, CrawlTyped, TypeOK, Proceed, Fail, Work
<1>1. l.pc \in Handling
  BY DEF TakePosting, FindByUrl, FindByName, StorePosting, UpsertFails, At, Handling, Upserting
<1>2. l.pc \in Crawling /\ work'[c].run = l.run
  <2>1. ~CreateRun(c) /\ ~FinishRun(c)
    BY <1>1 DEF CreateRun, FinishRun, At, Handling, Upserting
  <2> QED
    BY <1>0, <1>1, <2>1, RowKept DEF Proceed, Fail, KeepsRow, Crawling
<1>3. PICK r, m : r = l.run /\ m = work'[c]
  OBVIOUS
<1>4. PICK n, stored : n = Cardinality(InsertedBy(r)) /\ stored = results[r]
  OBVIOUS
<1>5. n \in Nat /\ Balanced(l, n, stored)
  BY <1>0, <1>2, <1>3, <1>4, InsertedBooks DEF AccountInv, Books
<1>6. results'[r] = stored
  BY <1>4 DEF TakePosting, FindByUrl, FindByName, StorePosting, UpsertFails, tables
<1>7. UNCHANGED jobs => Cardinality(InsertedBy(r)') = n
  BY <1>4 DEF InsertedBy
<1>8. \A p : InsertJob(p, r) => Cardinality(InsertedBy(r)') = n + 1
  BY <1>0, <1>4, InsertedBooks
<1>9. CASE TakePosting(c)
  <2>1. PICK p, d : p = Head(l.todo) /\ d = (IF p.manual THEN 1 ELSE 0)
    OBVIOUS
  <2>2. PICK counted : counted = [l EXCEPT !.stats[p.from] = CountFound(@, p)]
    OBVIOUS
  <2>3. d \in Nat
    BY <2>1
  <2>4. l.pc = "posting" /\ l.todo # <<>> /\ UNCHANGED jobs
    BY <1>9 DEF TakePosting, At, tables
  <2>5. Takes(l, m, p, d)
    <3>1. \/ Goto(c, [counted EXCEPT !.todo = Tail(@), !.stats[p.from].filtered = @ + 1])
          \/ Goto(c, [counted EXCEPT !.pc = "find_url", !.stats[p.from].manual = @ + d,
                                     !.summary.manual = @ + d])
      BY <1>9, <2>1, <2>2 DEF TakePosting
    <3>2. \A x : Goto(c, x) => m = x
      BY <1>0, <1>3 DEF Goto
    <3> QED
      BY <2>2, <3>1, <3>2 DEF Takes
  <2>6. m \in Work
    BY <1>0, <1>3
  <2>7. Balanced(m, n, stored)
    BY <1>0, <1>5, <2>1, <2>2, <2>3, <2>4, <2>5, <2>6, TakenBalanced
  <2> QED
    BY <1>2, <1>3, <1>6, <1>7, <2>4, <2>7, BooksThen
<1>10. CASE FindByUrl(c) \/ FindByName(c)
  <2>1. l.pc \in Upserting /\ UNCHANGED jobs
    BY <1>10 DEF FindByUrl, FindByName, At, Upserting, tables
  <2>2. m = Duplicated(l) \/ \E pc \in {"find_name", "insert"} : m = [l EXCEPT !.pc = pc]
    BY <1>0, <1>3, <1>10 DEF FindByUrl, FindByName, Goto
  <2>3. CASE m = Duplicated(l)
    <3>1. Balanced(m, n, stored)
      BY <1>0, <1>3, <1>5, <2>1, <2>3, EndingsBalanced
    <3> QED
      BY <1>2, <1>3, <1>6, <1>7, <2>1, <3>1, BooksThen
  <2>4. ASSUME NEW pc \in {"find_name", "insert"}, m = [l EXCEPT !.pc = pc] PROVE Books(c)'
    <3>1. /\ m.pc = pc /\ m.todo = l.todo /\ m.stats = l.stats /\ m.next = l.next
          /\ m.errors = l.errors /\ m.summary = l.summary /\ m.flush = l.flush
      BY <1>0, <2>4
    <3>2. m.pc \in Upserting
      BY <3>1 DEF Upserting
    <3>3. Clean(m) => Clean(l)
      BY <1>2, <3>1 DEF Clean
    <3>4. Clean(m) => Reported(m, stored)
      BY <1>5, <2>1, <3>1, <3>2, <3>3 DEF Balanced, Reported, Upserting, Handling
    <3>5. Balanced(m, n, stored)
      BY <1>0, <1>2, <1>3, <1>5, <2>1, <3>1, <3>2, <3>3, <3>4, MovedBalanced
    <3> QED
      BY <1>2, <1>3, <1>6, <1>7, <2>1, <3>5, BooksThen
  <2> QED
    BY <2>2, <2>3, <2>4
<1>11. CASE StorePosting(c)
  <2>1. l.pc \in Upserting /\ m = Created(l) /\ InsertJob(Head(l.todo), r)
    BY <1>0, <1>3, <1>11 DEF StorePosting, At, Upserting, Goto
  <2>2. Balanced(m, n + 1, stored)
    BY <1>0, <1>3, <1>5, <2>1, EndingsBalanced
  <2>3. Cardinality(InsertedBy(r)') = n + 1
    BY <1>8, <2>1
  <2> QED
    BY <1>2, <1>3, <1>6, <2>2, <2>3, BooksThen
<1>12. CASE UpsertFails(c)
  <2>1. /\ l.pc \in Upserting /\ m = NotStored(l)
        /\ UNCHANGED jobs \/ InsertJob(Head(l.todo), r)
    BY <1>0, <1>3, <1>12 DEF UpsertFails, At, Upserting, Goto
  <2>2. PICK k \in {n, n + 1} : Cardinality(InsertedBy(r)') = k
    BY <1>7, <1>8, <2>1
  <2>3. k \in Nat /\ n <= k
    BY <1>5, <2>2
  <2>4. Balanced(m, k, stored)
    BY <1>0, <1>3, <1>5, <2>1, <2>3, EndingsBalanced
  <2> QED
    BY <1>2, <1>3, <1>6, <2>2, <2>4, BooksThen
<1> QED
  BY <1>9, <1>10, <1>11, <1>12

\* The steps that store the results and the health.
LEMMA StoringBooks ==
    ASSUME AccountInv, NEW c \in Callers, work'[c].pc \in Crawling,
           CreateRunSourceResult(c) \/ ResultFails(c) \/ UpdateSourceHealth(c) \/ HealthFails(c)
    PROVE  Books(c)'
<1> DEFINE l == work[c]
<1>0. /\ l \in Work /\ Control(l) /\ work \in [Callers -> Work] /\ CrawlTyped /\ work'[c] \in Work
      /\ l.stats \in [StatKeys -> Stat] /\ results \in [RunIds -> [StatKeys -> Stat]]
      /\ DOMAIN l = {"pc", "run", "next", "todo", "stats", "flush", "key", "summary", "errors"}
  BY StepTyped DEF AccountInv, HealthInv, CrawlTyped, TypeOK, Proceed, Fail, Work
<1>1. l.pc \in Storing
  BY DEF CreateRunSourceResult, ResultFails, UpdateSourceHealth, HealthFails, At, Storing
<1>2. l.pc \in Crawling /\ work'[c].run = l.run /\ l.run \in RunIds
  <2>1. ~CreateRun(c) /\ ~FinishRun(c)
    BY <1>1 DEF CreateRun, FinishRun, At, Storing
  <2> QED
    BY <1>0, <1>1, <2>1, RowKept DEF Proceed, Fail, KeepsRow, Crawling, Control
<1>3. PICK r, m : r = l.run /\ m = work'[c]
  OBVIOUS
<1>4. PICK n, stored : n = Cardinality(InsertedBy(r)) /\ stored = results[r]
  OBVIOUS
<1>5. n \in Nat /\ Balanced(l, n, stored)
  BY <1>0, <1>2, <1>3, <1>4, InsertedBooks DEF AccountInv, Books
<1>6. Cardinality(InsertedBy(r)') = n
  <2>1. UNCHANGED jobs
    BY DEF CreateRunSourceResult, ResultFails, UpdateSourceHealth, HealthFails, tables
  <2> QED
    BY <1>4, <2>1 DEF InsertedBy
<1>7. l.pc \notin Upserting /\ l.pc \notin Handling
  BY <1>1 DEF Storing, Handling, Upserting
<1>8. CASE CreateRunSourceResult(c)
  <2>1. PICK k \in l.flush :
          /\ m = [l EXCEPT !.pc = "health", !.key = k, !.flush = @ \ {k}]
          /\ results' = [results EXCEPT ![l.run][k] = l.stats[k]]
    BY <1>0, <1>3, <1>8 DEF CreateRunSourceResult, Goto
  <2>2. /\ m.pc = "health" /\ m.todo = l.todo /\ m.stats = l.stats /\ m.next = l.next
        /\ m.errors = l.errors /\ m.summary = l.summary /\ m.flush = l.flush \ {k}
    BY <1>0, <2>1
  <2>3. PICK other : other = results'[r]
    OBVIOUS
  <2>4. \A j \in StatKeys : other[j] = (IF j = k THEN l.stats[k] ELSE stored[j])
    BY <1>0, <1>2, <1>3, <1>4, <2>1, <2>3 DEF Work
  <2>5. m.pc \notin Upserting /\ m.pc \notin Handling /\ m.pc # "collect" /\ l.pc # "collect"
    BY <1>1, <2>2 DEF Upserting, Handling, Storing
  <2>6. Clean(m) => Clean(l)
    BY <1>2, <2>2 DEF Clean
  <2>7. ASSUME Clean(m) PROVE Reported(m, other)
    <3>1. Reported(l, stored)
      BY <1>5, <2>6, <2>7 DEF Balanced
    <3>2. \A j \in StatKeys : j \notin m.flush => SameCounts(other[j], m.stats[j])
      <4>1. \A j \in StatKeys : j \notin m.flush => j = k \/ j \notin l.flush
        BY <2>2
      <4>2. \A j \in StatKeys : j \notin l.flush => SameCounts(stored[j], l.stats[j])
        BY <1>7, <3>1 DEF Reported
      <4> QED
        BY <2>2, <2>4, <4>1, <4>2 DEF SameCounts
    <3> QED
      BY <2>2, <2>5, <3>1, <3>2 DEF Reported
  <2>8. Balanced(m, n, other)
    BY <1>0, <1>2, <1>3, <1>5, <1>7, <2>2, <2>5, <2>6, <2>7, MovedBalanced
  <2> QED
    BY <1>2, <1>3, <1>6, <2>3, <2>8, BooksThen
<1>9. CASE ResultFails(c) \/ HealthFails(c)
  <2>1. m.errors = TRUE /\ m.todo = l.todo /\ m.summary = l.summary
    <3>1. CASE ResultFails(c)
      <4>1. PICK k \in l.flush :
              m = [l EXCEPT !.pc = "health", !.key = k, !.flush = @ \ {k}, !.errors = TRUE]
        BY <1>0, <1>3, <3>1 DEF ResultFails, Goto
      <4> QED
        BY <1>0, <4>1
    <3>2. CASE HealthFails(c)
      BY <1>0, <1>3, <3>2 DEF HealthFails, Goto
    <3> QED
      BY <1>9, <3>1, <3>2
  <2>2. Len(m.todo) <= Len(l.todo)
    BY <1>0, <2>1, LenProperties DEF Work
  <2>3. Balanced(m, n, results'[r])
    BY <1>0, <1>2, <1>3, <1>5, <2>1, <2>2, ErrorBalanced
  <2> QED
    BY <1>2, <1>3, <1>6, <2>3, BooksThen
<1>10. CASE UpdateSourceHealth(c)
  <2>1. m = [l EXCEPT !.pc = "results", !.key = "none"] /\ results'[r] = stored
    BY <1>0, <1>3, <1>4, <1>10 DEF UpdateSourceHealth, Goto
  <2>2. /\ m.pc = "results" /\ m.todo = l.todo /\ m.stats = l.stats /\ m.next = l.next
        /\ m.errors = l.errors /\ m.summary = l.summary /\ m.flush = l.flush
    BY <1>0, <2>1
  <2>3. m.pc \notin Upserting /\ m.pc \notin Handling /\ m.pc # "collect" /\ l.pc # "collect"
    BY <1>1, <2>2 DEF Upserting, Handling, Storing
  <2>4. Clean(m) => Clean(l)
    BY <1>2, <2>2 DEF Clean
  <2>5. Clean(m) => Reported(m, stored)
    BY <1>5, <1>7, <2>2, <2>3, <2>4 DEF Balanced, Reported
  <2>6. Balanced(m, n, stored)
    BY <1>0, <1>2, <1>3, <1>5, <1>7, <2>2, <2>3, <2>4, <2>5, MovedBalanced
  <2> QED
    BY <1>2, <1>3, <1>6, <2>1, <2>6, BooksThen
<1> QED
  BY <1>8, <1>9, <1>10

\* A step inserts jobs of its own crawl only.
LEMMA InsertedOwned ==
    ASSUME CrawlTyped, NEW c \in Callers, tryLock(c) \/ Proceed(c) \/ Fail(c), NEW r \in RunIds
    PROVE  \/ InsertedBy(r)' = InsertedBy(r)
           \/ work[c].pc \in Crawling /\ r = work[c].run
<1>1. CASE UNCHANGED jobs
  BY <1>1 DEF InsertedBy
<1>2. CASE At(c, "insert") /\ InsertJob(Head(work[c].todo), work[c].run)
  <2>1. \A q : q # work[c].run => InsertedBy(q)' = InsertedBy(q)
    BY <1>2, InsertedBooks
  <2> QED
    BY <1>2, <2>1 DEF At, Crawling, Handling, Upserting
<1>3. CASE tryLock(c)
  BY <1>1, <1>3 DEF tryLock, tables
<1> QED
  BY <1>1, <1>2, <1>3, ProceedJobs

\* Every step keeps the books of a crawl.
LEMMA StepBooks ==
    ASSUME AccountInv, NEW c \in Callers, tryLock(c) \/ Proceed(c) \/ Fail(c), ~CreateRun(c),
           work'[c].pc \in Crawling
    PROVE  Books(c)'
<1>0. CrawlTyped /\ work \in [Callers -> Work]
      /\ DOMAIN work[c] = {"pc", "run", "next", "todo", "stats", "flush", "key", "summary", "errors"}
  BY DEF AccountInv, HealthInv, CrawlTyped, TypeOK, Work
<1>1. ~tryLock(c) /\ ~unlock(c)
  BY <1>0, LockTyped DEF Crawling, Handling, Upserting, Storing
<1>2. ~StartFails(c) /\ ~FinishRun(c) /\ ~FinishFails(c)
  <2>1. StartFails(c) \/ FinishRun(c) \/ FinishFails(c) => work'[c].pc = "unlock"
    BY <1>0 DEF StartFails, FinishRun, FinishFails, Goto
  <2> QED
    BY <2>1 DEF Crawling, Handling, Upserting, Storing
<1> QED
  BY <1>1, <1>2, QuietBooks, PostingBooks, StoringBooks DEF Proceed, Fail

\* A new run starts with empty books.
LEMMA NewBooks ==
    ASSUME AccountInv, NEW c \in Callers, CreateRun(c)
    PROVE  Books(c)'
<1> DEFINE l == work[c]
<1>0. /\ l \in Work /\ work \in [Callers -> Work] /\ CrawlTyped /\ work'[c] \in Work
      /\ Control(work'[c])
  BY StepTyped DEF AccountInv, HealthInv, CrawlTyped, TypeOK, Proceed
<1>1. PICK r \in RunIds : FreshRun(r) /\ Goto(c, [l EXCEPT !.pc = "load", !.run = r])
  BY DEF CreateRun
<1>2. UNCHANGED <<jobs, results>>
  BY DEF CreateRun
<1>3. PICK m : m = [l EXCEPT !.pc = "load", !.run = r]
  OBVIOUS
<1>4. m.pc = "load" /\ m.run = r /\ work'[c] = m
  BY <1>0, <1>1, <1>3 DEF Work, Goto
<1>5. results'[r] = NoStats /\ InsertedBy(r) = {}
  BY <1>1, <1>2 DEF AccountInv, HealthInv, Unreported, FreshRun
<1>6. Cardinality(InsertedBy(r)') = 0
  <2>1. InsertedBy(r)' = InsertedBy(r)
    BY <1>2 DEF InsertedBy
  <2> QED
    BY <1>5, <2>1, FS_EmptySet
<1>7. Balanced(m, 0, NoStats)
  BY <1>0, <1>4, FirstBalanced
<1> QED
  BY <1>4, <1>5, <1>6, <1>7 DEF Books, InsertedBy

\* The outcome a crawl stores is what its books say.
LEMMA FinishSettles ==
    ASSUME AccountInv, NEW c \in Callers, FinishRun(c), NEW r \in RunIds, r = work[c].run
    PROVE  Settled(r)'
<1> DEFINE l == work[c]
<1>0. /\ l \in Work /\ Control(l) /\ CrawlTyped /\ runs \in [RunIds -> Run]
      /\ l.stats \in [StatKeys -> Stat] /\ l.summary \in Summary
      /\ results \in [RunIds -> [StatKeys -> Stat]]
  BY DEF AccountInv, HealthInv, CrawlTyped, TypeOK, Work
<1>1. l.pc = "collect" /\ l.run \in RunIds /\ l.todo = <<>> /\ l.flush = {}
  BY <1>0 DEF FinishRun, At, Control, Crawling
<1>2. PICK n, stored : n = Cardinality(InsertedBy(r)) /\ stored = results[r]
  OBVIOUS
<1>3. n \in Nat /\ Balanced(l, n, stored)
  BY <1>0, <1>1, <1>2, InsertedBooks DEF AccountInv, Books, Crawling
<1>4. UNCHANGED <<jobs, results>> /\ runs' = [runs EXCEPT ![r] = [status |-> Outcome(l), summary |-> l.summary]]
  BY DEF FinishRun, StoreRun
<1>5. PICK x : x = l.summary
  OBVIOUS
<1>6. runs'[r].status = Outcome(l) /\ runs'[r].summary = x
  BY <1>0, <1>1, <1>2, <1>4, <1>5
<1>7. Cardinality(InsertedBy(r)') = n
  <2>1. InsertedBy(r)' = InsertedBy(r)
    BY <1>4 DEF InsertedBy
  <2> QED
    BY <1>2, <2>1
<1>8. results'[r] = stored /\ stored \in [StatKeys -> Stat]
  BY <1>0, <1>1, <1>2, <1>4
<1>9. x.created <= n /\ x.created + x.dup <= x.found
  <2>1. x.created \in Nat /\ x.dup \in Nat /\ x.found \in Nat /\ Len(l.todo) = 0
    BY <1>0, <1>1, <1>5 DEF Summary
  <2>2. x.created <= n /\ x.created + x.dup + Len(l.todo) <= x.found
    BY <1>1, <1>3, <1>5 DEF Balanced, Modest, Crawling
  <2> QED
    BY <2>1, <2>2
<1>10. ASSUME Outcome(l) = "success"
       PROVE  /\ x.created = n /\ x.found = Total(FoundOf(stored)) /\ x.dup = Total(DupOf(stored))
              /\ x.found = Total(HandledOf(stored))
  <2>1. Clean(l)
    <3>1. ~l.errors /\ ~(l.summary.failed > 0) /\ l.summary.failed \in Nat
      BY <1>0, <1>10, SummaryTyped DEF Outcome
    <3> QED
      BY <1>1, <3>1 DEF Clean, Crawling
  <2>2. Sums(l, n) /\ Reported(l, stored)
    BY <1>3, <2>1 DEF Balanced
  <2>3. \A k \in StatKeys : SameCounts(stored[k], l.stats[k])
    BY <1>1, <2>2 DEF Reported, Handling, Upserting
  <2>4. /\ FoundOf(stored) = FoundOf(l.stats) /\ DupOf(stored) = DupOf(l.stats)
        /\ HandledOf(stored) = HandledOf(l.stats)
    BY <1>0, <1>8, <2>3, SameSums
  <2>5. /\ x.found \in Nat /\ x.found + Begun(l) - Len(l.todo) = x.found
        /\ x.found - Len(l.todo) = x.found
    <3>1. x.found \in Nat /\ Len(l.todo) = 0
      BY <1>0, <1>1, <1>5 DEF Summary
    <3>2. Begun(l) = 0
      BY <1>1 DEF Begun, Upserting
    <3> QED
      BY <3>1, <3>2
  <2>6. /\ x.created = n /\ Tallied(FoundOf(l.stats), x.found) /\ Tallied(DupOf(l.stats), x.dup)
        /\ Tallied(HandledOf(l.stats), x.found)
    BY <1>5, <2>2, <2>5 DEF Sums
  <2>7. \A count, i : Tallied(count, i) => Total(count) = i
    BY DEF Tallied, Total, Items
  <2> QED
    BY <2>4, <2>6, <2>7
<1> QED
  BY <1>6, <1>7, <1>8, <1>9, <1>10 DEF Settled

\* Every step of the system keeps the books.
LEMMA AccountNext ==
    ASSUME AccountInv, [Next]_vars
    PROVE  AccountInv'
<1>0. HealthInv /\ HealthInv' /\ CrawlTyped /\ CrawlTyped' /\ LockInv
      /\ runs \in [RunIds -> Run] /\ \A c \in Callers : OwnsRun(work[c]) /\ Control(work[c])
  BY HealthNext DEF AccountInv, HealthInv, CrawlTyped, TypeOK
<1>1. ASSUME UNCHANGED <<runs, results>>, \A r \in RunIds : InsertedBy(r)' = InsertedBy(r),
             \A c \in Callers : work'[c] = work[c] \/ work'[c].pc \notin Crawling
      PROVE  AccountInv'
  <2>1. ASSUME NEW r \in RunIds
        PROVE  Settled(r)' /\ (runs'[r].status = "absent" => InsertedBy(r)' = {})
    BY <1>1, <2>1 DEF AccountInv, Settled
  <2>2. ASSUME NEW c \in Callers, work'[c].pc \in Crawling PROVE Books(c)'
    <3>1. work'[c] = work[c] /\ work[c].pc \in Crawling /\ work[c].run \in RunIds
      BY <1>0, <1>1, <2>2 DEF Control
    <3>2. PICK r : r = work[c].run
      OBVIOUS
    <3>3. InsertedBy(r)' = InsertedBy(r) /\ results'[r] = results[r]
      BY <1>1, <3>1, <3>2
    <3>4. Balanced(work[c], Cardinality(InsertedBy(r)), results[r])
      BY <3>1, <3>2 DEF AccountInv, Books
    <3> QED
      BY <3>1, <3>2, <3>3, <3>4, BooksThen
  <2> QED
    BY <1>0, <2>1, <2>2 DEF AccountInv
<1>2. ASSUME NEW c \in Callers, tryLock(c) \/ Proceed(c) \/ Fail(c) PROVE AccountInv'
  <2> DEFINE l == work[c]
  <2>0. \A d \in Callers : d # c => work'[d].pc = "idle"
    BY <1>0, <1>2, StepTyped, OthersOutside
  <2>1. ASSUME NEW d \in Callers, work'[d].pc \in Crawling PROVE Books(d)'
    <3>1. d = c
      BY <2>0, <2>1 DEF Crawling, Handling, Upserting, Storing
    <3> QED
      BY <1>2, <2>1, <3>1, NewBooks, StepBooks
  <2>2. ASSUME NEW r \in RunIds, runs'[r] = runs[r], runs[r].status # "running"
        PROVE  Settled(r)' /\ (runs'[r].status = "absent" => InsertedBy(r)' = {})
    <3>1. ~(l.pc \in Crawling /\ r = l.run)
      BY <1>0, <2>2 DEF OwnsRun
    <3>2. InsertedBy(r)' = InsertedBy(r)
      BY <1>0, <1>2, <3>1, InsertedOwned
    <3>3. results'[r] = results[r]
      BY <1>0, <1>2, <2>2, ResultsOwned
    <3> QED
      BY <2>2, <3>2, <3>3 DEF AccountInv, Settled
  <2>3. ASSUME NEW r \in RunIds, runs'[r].status = "running"
        PROVE  Settled(r)' /\ (runs'[r].status = "absent" => InsertedBy(r)' = {})
    BY <2>3 DEF Settled
  <2>4. ASSUME NEW r \in RunIds
        PROVE  \/ runs'[r].status = "running" \/ (runs'[r] = runs[r] /\ runs[r].status # "running")
               \/ FinishRun(c) /\ r = l.run
    <3>1. CASE CreateRun(c)
      BY <1>0, <3>1 DEF CreateRun, Run
    <3>2. CASE FinishRun(c)
      BY <1>0, <3>2 DEF FinishRun, StoreRun
    <3>3. CASE ~CreateRun(c) /\ ~FinishRun(c)
      BY <1>0, <1>2, <3>3, RowKept DEF KeepsRow
    <3> QED
      BY <3>1, <3>2, <3>3
  <2>5. ASSUME NEW r \in RunIds, FinishRun(c), r = l.run
        PROVE  Settled(r)' /\ (runs'[r].status = "absent" => InsertedBy(r)' = {})
    <3>1. Settled(r)'
      BY <2>5, FinishSettles
    <3>2. runs'[r].status # "absent"
      BY <1>0, <2>5 DEF FinishRun, StoreRun, Outcome, Run
    <3> QED
      BY <3>1, <3>2
  <2> QED
    BY <1>0, <2>1, <2>2, <2>3, <2>4, <2>5 DEF AccountInv
<1>3. ASSUME NEW i \in Importers, ImportUrl(i) PROVE AccountInv'
  <2>1. UNCHANGED <<runs, results, work>> /\ (jobs' = jobs \/ \E p \in Imports : InsertJob(p, NoRun))
    BY <1>0, <1>3, ImportTyped
  <2>2. \A r \in RunIds : r # NoRun
    BY CrawlAssumption DEF RunIds, NoRun
  <2>3. \A r \in RunIds : InsertedBy(r)' = InsertedBy(r)
    <3>1. CASE jobs' = jobs
      BY <3>1 DEF InsertedBy
    <3>2. CASE \E p \in Imports : InsertJob(p, NoRun)
      BY <1>0, <2>2, <3>2, InsertedBooks
    <3> QED
      BY <2>1, <3>1, <3>2
  <2> QED
    BY <1>1, <2>1, <2>3
<1>4. CASE Crash
  <2>1. UNCHANGED <<runs, results, jobs>> /\ \A c \in Callers : work'[c].pc = "idle"
    BY <1>4, IdlePc DEF Crash, tables
  <2>2. \A r \in RunIds : InsertedBy(r)' = InsertedBy(r)
    BY <2>1 DEF InsertedBy
  <2>3. \A c \in Callers : work'[c].pc \notin Crawling
    BY <2>1 DEF Crawling, Handling, Upserting, Storing
  <2> QED
    BY <1>1, <2>1, <2>2, <2>3
<1>5. CASE UNCHANGED vars
  <2>1. UNCHANGED <<runs, results, jobs, work>>
    BY <1>5 DEF vars
  <2>2. \A r \in RunIds : InsertedBy(r)' = InsertedBy(r)
    BY <2>1 DEF InsertedBy
  <2> QED
    BY <1>1, <2>1, <2>2
<1> QED
  BY <1>2, <1>3, <1>4, <1>5 DEF Next

\* Before the first run the books are empty.
LEMMA AccountInit == Init => AccountInv
<1> SUFFICES ASSUME Init PROVE AccountInv
  OBVIOUS
<1>1. \A c \in Callers : work[c].pc = "idle"
  BY IdlePc DEF Init
<1>2. \A c \in Callers : work[c].pc \notin Crawling
  BY <1>1 DEF Crawling, Handling, Upserting, Storing
<1>3. \A r \in RunIds : InsertedBy(r) = {}
  BY DEF Init, InsertedBy
<1>4. \A r \in RunIds : Settled(r)
  BY DEF Init, Settled
<1> QED
  BY <1>2, <1>3, <1>4, HealthInit DEF AccountInv

\* The counters of a run agree with what it did, for any number of sources,
\* postings and runs, with importers beside it: a finished run claims no more
\* jobs than it inserted and no more postings than it found, and the counters
\* of a successful one are the sums of its per-source results.
THEOREM AccountsAgree == Spec => []RunAccounts
<1>1. AccountInv /\ [Next]_vars => AccountInv'
  BY AccountNext
<1>2. AccountInv => RunAccounts
  BY DEF AccountInv, Settled, RunAccounts
<1> QED
  BY <1>1, <1>2, AccountInit, PTL DEF Spec

=============================================================================
