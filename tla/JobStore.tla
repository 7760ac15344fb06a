------------------------------- MODULE JobStore -------------------------------
(***************************************************************************)
(* The jobs, the log of decisions on them and the semantic memory made     *)
(* from them: requests store, judge and annotate jobs, clean landing pages *)
(* away and rebuild the memory, at the same time.  The memory is a table   *)
(* beside the rows, and Qdrant, where it is configured, a copy of the      *)
(* table.  Every statement and every PUT is one action.                    *)
(***************************************************************************)
EXTENDS Integers, Sequences, FiniteSets

CONSTANTS
    Procs,       \* goroutines: requests and crawls at work at the same time
    Jobs,        \* identifiers of jobs
    Profile,     \* the one candidate profile
    Reflection,  \* what is learned from the decisions
    Concrete,    \* jobs that look like a posting, the others are landing pages
    Texts,       \* notes and profiles
    Blank,       \* the notes of a new job, the default profile
    Choices,     \* statuses a user sets
    None,        \* no row
    Qdrant,      \* the external store is configured
    MaxRequests, \* bound: requests
    MaxFaults    \* bound: failing statements and PUTs, and restarts

Statuses == {"new", "interested", "applied", "ignored", "manual_check", "expired"}

ASSUME StoreAssumption ==
    /\ Profile \notin Jobs /\ Reflection \notin Jobs \cup {Profile}
    /\ Blank \in Texts /\ Texts \cap Nat = {}
    /\ None \notin Texts \cup Nat \cup Jobs \cup {Profile, Reflection} \cup Statuses
    /\ Concrete \subseteq Jobs /\ Qdrant \in BOOLEAN
    /\ {MaxRequests, MaxFaults} \subseteq Nat

ASSUME ChoicesAssumption == Choices \subseteq Statuses

VARIABLES
    jobs,       \* table jobs
    profile,    \* the row of candidate_profiles, or the defaults
    decisions,  \* table job_decisions, those that change a status
    memory,     \* table semantic_memory_items
    index,      \* the points of Qdrant
    procs,      \* local variables of the goroutines
    decided,    \* history: the status the user set last
    exposed,    \* history: jobs decided on while a cleanup was about to judge them
    unlogged,   \* history: jobs with a lost decision or with two at a time
    behind,     \* history: documents whose memory missed a change
    unindexed,  \* history: documents whose point missed a change
    touched,    \* history: what others changed since a goroutine listed the jobs
    spent       \* bounds: requests and faults so far

tables == <<jobs, profile, decisions, memory, index>>
marks == <<decided, exposed, unlogged, behind, unindexed, touched>>
vars == <<tables, procs, marks, spent>>

Docs == Jobs \cup {Profile, Reflection}
Row == [status : Statuses, notes : Texts]
\* What is remembered of a document: its text and, of a job, its status.
Version == [text : Texts \cup Nat, status : Statuses \cup {None}]
ASSUME NoneAssumption == None \notin Row /\ None \notin Version
Decision == [job : Jobs, from : Statuses, to : Statuses]
Listed == [doc : Jobs, copy : Version]
Proc ==
    [op : {"none", "import", "status", "notes", "profile", "cleanup", "rebuild"},
     pc : {"idle", "write", "read", "update", "log", "reload", "upsert", "reread", "put",
           "list", "learn"},
     doc : Docs \cup {None},
     status : Statuses,   \* what a job becomes
     from : Statuses,     \* what UpdateStatus found
     text : Texts,        \* what the user writes
     copy : Version,      \* what is about to be stored in the memory or in Qdrant
     todo : SUBSET Listed]  \* of the list, what is still to be done
Spent == [requests : 0..MaxRequests, faults : 0..MaxFaults]

NoVersion == [text |-> Blank, status |-> None]
Idle == [op |-> "none", pc |-> "idle", doc |-> None, status |-> "new", from |-> "new",
         text |-> Blank, copy |-> NoVersion, todo |-> {}]

Stored == {j \in Jobs : jobs[j] # None}
Visible == {j \in Stored : jobs[j].status # "ignored"}

\* SemanticMemoryItemFromJob and SemanticMemoryItemFromProfile.  A reflection is
\* made from the newest 200 decisions that tell of a taste; the log only grows,
\* so that their number so far says which these are.
Scanned ==
    Cardinality({i \in DOMAIN decisions : decisions[i].to \in {"interested", "applied", "ignored"}})
Current(doc) ==
    IF doc \in Jobs THEN [text |-> jobs[doc].notes, status |-> jobs[doc].status]
    ELSE [text |-> IF doc = Profile THEN profile ELSE Scanned, status |-> None]

Init ==
    /\ jobs \in [Jobs -> {None, [status |-> "new", notes |-> Blank]}]
    /\ profile = Blank /\ decisions = <<>>
    /\ memory = [d \in Docs |-> IF d \in Stored THEN Current(d) ELSE None]
    /\ index = IF Qdrant THEN memory ELSE [d \in Docs |-> None]
    /\ procs = [p \in Procs |-> Idle]
    /\ decided = [j \in Jobs |-> None] /\ exposed = {} /\ unlogged = {}
    /\ behind = {Profile} /\ unindexed = {}
    /\ touched = [p \in Procs |-> {}]
    /\ spent = [requests |-> 0, faults |-> 0]

At(p, pc) == procs[p].pc = pc
Runs(p, op, pc) == procs[p].op = op /\ At(p, pc)
Doc(p) == procs[p].doc
Others(p) == Procs \ {p}
Goto(p, l) == procs' = [procs EXCEPT ![p] = IF l.pc = "idle" THEN Idle ELSE l]
Fails == spent.faults < MaxFaults /\ spent' = [spent EXCEPT !.faults = @ + 1]

\* A request goes on with the next job of its list, the rebuild at last with
\* what is learned.
Turn(p, l) ==
    \/ \E x \in l.todo :
        Goto(p, [l EXCEPT !.doc = x.doc, !.copy = x.copy, !.todo = @ \ {x},
                          !.pc = IF l.op = "rebuild" THEN "upsert" ELSE "read"])
    \/ /\ l.todo = {}
       /\ Goto(p, [l EXCEPT !.pc = IF l.op = "rebuild" /\ l.doc # Reflection
                                   THEN "learn" ELSE "idle"])

-----------------------------------------------------------------------------
(* History                                                                 *)

\* A rebuild is told what others change of a document.
Touch(p, ds) ==
    touched' = [q \in Procs |-> IF q # p /\ procs[q].op = "rebuild" THEN touched[q] \cup ds
                                ELSE touched[q]]

\* What is about to be stored in the memory of a document.
Copies(q, doc) ==
    {procs[q].copy : r \in {r \in {q} : At(r, "upsert") /\ Doc(r) = doc}} \cup
    {x.copy : x \in {x \in procs[q].todo : procs[q].op = "rebuild" /\ x.doc = doc}}
\* What is about to be stored in its point.
Points(q, doc) == {procs[q].copy : r \in {r \in {q} : At(r, "put") /\ Doc(r) = doc}}

\* A text is written: what others hold of it is out of date.
Outdates(p, doc) ==
    behind' = IF \E q \in Others(p) : Copies(q, doc) # {} THEN behind \cup {doc} ELSE behind

\* The cleanups that go by a status they have listed.
Judging(q, j) ==
    /\ procs[q].op = "cleanup"
    /\ (Doc(q) = j /\ procs[q].pc \in {"read", "update"}) \/ j \in {x.doc : x \in procs[q].todo}

Add(set, doc, cond) == IF cond THEN set \cup {doc} ELSE set \ {doc}

-----------------------------------------------------------------------------
(* Requests                                                                *)

Begin(p, l) ==
    /\ At(p, "idle") /\ spent.requests < MaxRequests
    /\ Goto(p, l)
    /\ spent' = [spent EXCEPT !.requests = @ + 1]
    /\ UNCHANGED <<tables, marks>>

\* UpsertJob after it has found no duplicate; UpdateJobStatus, UpdateJobNotes,
\* UpdateCandidateProfile, CleanupLandingPages and RebuildSemanticMemory.
Request(p) ==
    \/ \E j \in Jobs \ (Stored \cup {Doc(q) : q \in Procs}), s \in {"new", "manual_check"} :
        Begin(p, [Idle EXCEPT !.op = "import", !.pc = "write", !.doc = j, !.status = s])
    \/ \E j \in Stored, s \in Choices :
        Begin(p, [Idle EXCEPT !.op = "status", !.pc = "read", !.doc = j, !.status = s])
    \/ \E j \in Stored, t \in Texts :
        Begin(p, [Idle EXCEPT !.op = "notes", !.pc = "write", !.doc = j, !.text = t])
    \/ \E t \in Texts :
        Begin(p, [Idle EXCEPT !.op = "profile", !.pc = "write", !.doc = Profile, !.text = t])
    \/ Begin(p, [Idle EXCEPT !.op = "cleanup", !.pc = "list", !.status = "ignored"])
    \/ Begin(p, [Idle EXCEPT !.op = "rebuild", !.pc = "list"])

\* Mutant: a job is stored without a status.
NoStatus(p) == ""
StatusOf(p) == procs[p].status
InsertJob(p) ==
    /\ Runs(p, "import", "write")
    /\ jobs' = [jobs EXCEPT ![Doc(p)] = [status |-> StatusOf(p), notes |-> Blank]]
    /\ Goto(p, [procs[p] EXCEPT !.pc = "reload"])
    /\ Touch(p, {Doc(p)}) /\ Outdates(p, Doc(p))
    /\ UNCHANGED <<profile, decisions, memory, index, decided, exposed, unlogged, unindexed,
                   spent>>

\* UpdateNotes; the decision it records then changes no status.
WriteNotes(p) ==
    /\ Runs(p, "notes", "write")
    /\ jobs' = [jobs EXCEPT ![Doc(p)].notes = procs[p].text]
    /\ Goto(p, [procs[p] EXCEPT !.pc = "reload"])
    /\ Touch(p, {Doc(p)}) /\ Outdates(p, Doc(p))
    /\ UNCHANGED <<profile, decisions, memory, index, decided, exposed, unlogged, unindexed,
                   spent>>

SaveCandidateProfile(p) ==
    /\ Runs(p, "profile", "write")
    /\ profile' = procs[p].text
    /\ Goto(p, [procs[p] EXCEPT !.pc = "reload"])
    /\ Touch(p, {Profile}) /\ Outdates(p, Profile)
    /\ UNCHANGED <<jobs, decisions, memory, index, decided, exposed, unlogged, unindexed,
                   spent>>

-----------------------------------------------------------------------------
(* UpdateStatus                                                            *)

\* GetJob.  Two that change one job at a time may log in another order.
ReadStatus(p) ==
    /\ At(p, "read")
    /\ Goto(p, [procs[p] EXCEPT !.from = jobs[Doc(p)].status, !.pc = "update"])
    /\ unlogged' = IF \E q \in Others(p) : procs[q].pc \in {"update", "log"} /\ Doc(q) = Doc(p)
                   THEN unlogged \cup {Doc(p)} ELSE unlogged
    /\ UNCHANGED <<tables, decided, exposed, behind, unindexed, touched, spent>>

\* The memory is not told, its status stays as it is.
UpdateStatus(p) ==
    /\ At(p, "update")
    /\ LET l == procs[p]
       IN  /\ jobs' = [jobs EXCEPT ![l.doc].status = l.status]
           /\ IF l.from # l.status THEN Goto(p, [l EXCEPT !.pc = "log"]) ELSE Turn(p, l)
           /\ IF l.op = "status"
              THEN /\ decided' = [decided EXCEPT ![l.doc] = l.status]
                   /\ exposed' = Add(exposed, l.doc, \E q \in Procs : Judging(q, l.doc))
              ELSE UNCHANGED <<decided, exposed>>
           /\ Touch(p, {l.doc})
    /\ UNCHANGED <<profile, decisions, memory, index, unlogged, behind, unindexed, spent>>

\* Mutant: from and to are swapped.
SwapDecision(l) == [job |-> l.doc, from |-> l.status, to |-> l.from]
DecisionOf(l) == [job |-> l.doc, from |-> l.from, to |-> l.status]
RecordJobDecision(p) ==
    /\ At(p, "log")
    /\ decisions' = Append(decisions, DecisionOf(procs[p]))
    /\ Turn(p, procs[p])
    /\ unlogged' = IF /\ jobs[Doc(p)].status = procs[p].status
                      /\ ~\E q \in Others(p) :
                            procs[q].pc \in {"update", "log"} /\ Doc(q) = Doc(p)
                   THEN unlogged \ {Doc(p)} ELSE unlogged
    /\ Touch(p, {Reflection})
    /\ UNCHANGED <<jobs, profile, memory, index, decided, exposed, behind, unindexed, spent>>

-----------------------------------------------------------------------------
(* The memory                                                              *)

\* Mutant: the cleanup judges every listed job.
JudgesAll(j) == j \notin Concrete
Judges(j) == j \notin Concrete /\ jobs[j].status \notin {"ignored", "applied", "interested"}
\* Mutant: the rebuild selects as the cleanup does.
SelectedAlike(op) == {j \in Visible : Judges(j)}
\* ListJobs hides what is ignored.  (A rebuild skips a job with neither title
\* nor description; those here have them.)
Selected(op) == {j \in Visible : op = "cleanup" => Judges(j)}
ListJobs(p) ==
    /\ At(p, "list")
    /\ Turn(p, [procs[p] EXCEPT !.todo =
            {[doc |-> j, copy |-> Current(j)] : j \in Selected(procs[p].op)}])
    /\ touched' = [touched EXCEPT ![p] = {}]
    /\ UNCHANGED <<tables, decided, exposed, unlogged, behind, unindexed, spent>>

\* Mutant: the memory is made from what the request knows.
FromRequest(p) == [text |-> procs[p].text, status |-> procs[p].status]
Reloaded(p) == Current(Doc(p))
Reload(p) ==
    /\ At(p, "reload")
    /\ Goto(p, [procs[p] EXCEPT !.copy = Reloaded(p), !.pc = "upsert"])
    /\ UNCHANGED <<tables, marks, spent>>

\* UpsertSemanticMemoryItem, its first statement.
UpsertSemanticMemoryItem(p) ==
    /\ At(p, "upsert")
    /\ LET l == procs[p] IN
        /\ memory' = [memory EXCEPT ![l.doc] = l.copy]
        /\ IF Qdrant THEN Goto(p, [l EXCEPT !.pc = "reread"]) ELSE Turn(p, l)
        /\ behind' = IF /\ l.copy.text = Current(l.doc).text
                        /\ \A q \in Procs : \A c \in Copies(q, l.doc) : c.text = l.copy.text
                     THEN behind \ {l.doc} ELSE behind
        /\ unindexed' = IF \E q \in Others(p) : Points(q, l.doc) # {}
                        THEN unindexed \cup {l.doc} ELSE unindexed
        /\ Touch(p, {l.doc})
    /\ UNCHANGED <<jobs, profile, decisions, index, decided, exposed, unlogged, spent>>

\* GetSemanticMemoryItemByReference: the point is made from what is stored.
Reread(p) ==
    /\ At(p, "reread")
    /\ Goto(p, [procs[p] EXCEPT !.copy = memory[Doc(p)], !.pc = "put"])
    /\ UNCHANGED <<tables, marks, spent>>

\* Mutant: a point that is there is left alone.
PutNew(p) == IF index[Doc(p)] = None THEN procs[p].copy ELSE index[Doc(p)]
PutPoint(p) == procs[p].copy
Put(p) ==
    /\ At(p, "put")
    /\ index' = [index EXCEPT ![Doc(p)] = PutPoint(p)]
    /\ Turn(p, procs[p])
    /\ unindexed' = IF /\ procs[p].copy = memory[Doc(p)]
                       /\ \A q \in Others(p) : Points(q, Doc(p)) \subseteq {procs[p].copy}
                    THEN unindexed \ {Doc(p)} ELSE unindexed
    /\ UNCHANGED <<jobs, profile, decisions, memory, decided, exposed, unlogged, behind,
                   touched, spent>>

\* What Qdrant answers is ignored, an error too.
LosePut(p) ==
    /\ At(p, "put") /\ Fails
    /\ Turn(p, procs[p])
    /\ unindexed' = unindexed \cup {Doc(p)}
    /\ UNCHANGED <<tables, decided, exposed, unlogged, behind, touched>>

\* RefreshMemoryReflections
Learn(p) ==
    /\ At(p, "learn")
    /\ IF Scanned = 0 THEN Goto(p, Idle)
       ELSE Goto(p, [procs[p] EXCEPT !.doc = Reflection, !.copy = Current(Reflection),
                                     !.pc = "upsert"])
    /\ touched' = [touched EXCEPT ![p] = @ \ {Reflection}]
    /\ UNCHANGED <<tables, decided, exposed, unlogged, behind, unindexed, spent>>

-----------------------------------------------------------------------------
\* A statement fails, and with it the request, or all of them stop with the
\* process.
Stop(ps) ==
    /\ Fails
    /\ procs' = [p \in Procs |-> IF p \in ps THEN Idle ELSE procs[p]]
    /\ unlogged' = unlogged \cup {Doc(p) : p \in {p \in ps : At(p, "log")}}
    /\ behind' = behind \cup
        {Doc(p) : p \in {p \in ps : procs[p].op # "rebuild" /\ procs[p].pc \in {"reload", "upsert"}}}
    /\ unindexed' = unindexed \cup {Doc(p) : p \in {p \in ps : procs[p].pc \in {"reread", "put"}}}
    /\ UNCHANGED <<tables, decided, exposed, touched>>
Fail(p) == procs[p].pc \notin {"idle", "put"} /\ Stop({p})
Restart == (\E p \in Procs : ~At(p, "idle")) /\ Stop(Procs)

Step(p) ==
    \/ InsertJob(p) \/ WriteNotes(p) \/ SaveCandidateProfile(p)
    \/ ReadStatus(p) \/ UpdateStatus(p) \/ RecordJobDecision(p)
    \/ ListJobs(p) \/ Reload(p) \/ UpsertSemanticMemoryItem(p) \/ Reread(p) \/ Put(p)
    \/ Learn(p)

Next == (\E p \in Procs : Request(p) \/ Step(p) \/ LosePut(p) \/ Fail(p)) \/ Restart

Spec == Init /\ [][Next]_vars

-----------------------------------------------------------------------------
DecisionsOn(j) == {i \in DOMAIN decisions : decisions[i].job = j}

\* The variables have their types.
TypeOK ==
    /\ jobs \in [Jobs -> Row \cup {None}] /\ profile \in Texts
    /\ decisions \in Seq(Decision)
    /\ memory \in [Docs -> Version \cup {None}] /\ index \in [Docs -> Version \cup {None}]
    /\ procs \in [Procs -> Proc]
    /\ decided \in [Jobs -> Statuses \cup {None}]
    /\ exposed \subseteq Jobs /\ unlogged \subseteq Jobs
    /\ behind \subseteq Docs /\ unindexed \subseteq Docs
    /\ touched \in [Procs -> SUBSET Docs]
    /\ spent \in Spent

\* The log says how a job came to its status: the last decision on it is the
\* one in force, unless two changed it at a time or the statement that logs one
\* failed.
LogExplains ==
    \A j \in Stored \ unlogged :
        (~\E p \in Procs : At(p, "log") /\ Doc(p) = j) =>
            IF DecisionsOn(j) = {} THEN jobs[j].status \in {"new", "manual_check"}
            ELSE \E i \in DecisionsOn(j) : /\ \A k \in DecisionsOn(j) : k <= i
                                          /\ jobs[j].status = decisions[i].to

\* What is remembered of a job or of the profile is what its row says, when
\* nobody is about to store it and no change was lost to a failure or to a copy
\* someone read before it.
MemoryMatches ==
    \A d \in Stored \cup {Profile} :
        \/ d \in behind
        \/ \E p \in Procs : Doc(p) = d /\ procs[p].op # "rebuild"
                            /\ procs[p].pc \in {"reload", "upsert"}
        \/ memory[d] # None /\ memory[d].text = Current(d).text

\* A rebuild repairs what was lost: when it is through with the jobs, each
\* visible one that nobody else touched meanwhile is remembered as it is, with
\* its status, and in the end so is what was learned.
RebuildRepairs ==
    \A p \in Procs :
        /\ Runs(p, "rebuild", "learn") \/ (procs[p].op = "rebuild" /\ Doc(p) = Reflection) =>
            \A j \in Visible \ touched[p] :
                memory[j] = [text |-> jobs[j].notes, status |-> jobs[j].status]
        /\ Doc(p) = Reflection /\ procs[p].pc \in {"reread", "put"}
           /\ Reflection \notin touched[p] =>
            memory[Reflection].text = Scanned

\* A cleanup overrules the user only on a job he judged while the cleanup was
\* about to.
UserDecisionKept ==
    \A j \in Jobs \ exposed :
        decided[j] # None /\ (j \in Concrete \/ decided[j] \in {"interested", "applied"}) =>
            jobs[j].status = decided[j]

\* Qdrant, which answers a search before the table does, has of every document
\* what the table has, when nobody is about to put its point and none was lost
\* or overtaken by another.
PointsMatch ==
    Qdrant => \A d \in Docs \ unindexed :
        \/ \E p \in Procs : Doc(p) = d /\ procs[p].pc \in {"reread", "put"}
        \/ index[d] = memory[d]
=============================================================================
