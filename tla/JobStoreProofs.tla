----------------------------- MODULE JobStoreProofs -----------------------------
(***************************************************************************)
(* For any number of goroutines, jobs, requests and faults: the log        *)
(* explains the statuses, the memory follows the rows up to named losses   *)
(* and a rebuild repairs them, the user's decision is overruled only in    *)
(* the window of a cleanup, and a search finds what is remembered.         *)
(***************************************************************************)
EXTENDS JobStore, FiniteSetTheorems, TLAPS

\* Which operation is where, and what it may be about.
Fit(l) ==
    /\ l.pc = "idle" => l = Idle
    /\ l.op = "none" => l.pc = "idle"
    /\ l.pc = "write" => \/ l.op = "import" /\ l.doc \in Jobs
                         \/ l.op = "notes" /\ l.doc \in Stored
                         \/ l.op = "profile" /\ l.doc = Profile
    /\ l.pc \in {"read", "update", "log"} => l.op \in {"status", "cleanup"} /\ l.doc \in Stored
    /\ l.pc = "list" => l.op \in {"cleanup", "rebuild"} /\ l.doc = None
    /\ l.pc = "reload" => l.op \in {"import", "notes", "profile"}
                          /\ l.doc \in Stored \cup {Profile}
    /\ l.pc \in {"upsert", "reread", "put"} =>
          /\ l.op \in {"import", "notes", "profile", "rebuild"}
          /\ l.doc \in Stored \cup {Profile, Reflection}
          /\ l.op # "rebuild" => l.doc # Reflection
    /\ l.pc \in {"reread", "put"} => memory[l.doc] # None
    /\ l.pc = "learn" => l.op = "rebuild"
    /\ l.op \notin {"cleanup", "rebuild"} => l.todo = {}
    /\ l.pc = "learn" \/ l.doc = Reflection => l.todo = {}
    /\ \A x \in l.todo : x.doc \in Stored
    /\ l.op = "cleanup" => l.status = "ignored"
Shape == \A q \in Procs : Fit(procs[q])

\* What has a row keeps it, what is remembered stays remembered.
Grows == Stored \subseteq Stored' /\ \A d \in Docs : memory[d] # None => memory'[d] # None

\* Where Turn goes.
Turned(l, m) ==
    \/ \E x \in l.todo :
        m = [l EXCEPT !.doc = x.doc, !.copy = x.copy, !.todo = @ \ {x},
                      !.pc = IF l.op = "rebuild" THEN "upsert" ELSE "read"]
    \/ /\ l.todo = {} /\ l.op = "rebuild" /\ l.doc # Reflection
       /\ m = [l EXCEPT !.pc = "learn"]
    \/ /\ l.todo = {} /\ ~(l.op = "rebuild" /\ l.doc # Reflection)
       /\ m = Idle

-----------------------------------------------------------------------------
(* Types                                                                   *)

LEMMA IdleTyped == Idle \in Proc /\ NoVersion \in Version /\ Fit(Idle)
  BY StoreAssumption DEF Idle, Proc, NoVersion, Version, Statuses, Fit

LEMMA TurnMoves ==
    ASSUME NEW p \in Procs, NEW l \in Proc, Turn(p, l)
    PROVE  \E m : Turned(l, m) /\ procs' = [procs EXCEPT ![p] = m]
<1>1. CASE \E x \in l.todo :
             Goto(p, [l EXCEPT !.doc = x.doc, !.copy = x.copy, !.todo = @ \ {x},
                               !.pc = IF l.op = "rebuild" THEN "upsert" ELSE "read"])
  <2>1. PICK x \in l.todo :
             Goto(p, [l EXCEPT !.doc = x.doc, !.copy = x.copy, !.todo = @ \ {x},
                               !.pc = IF l.op = "rebuild" THEN "upsert" ELSE "read"])
    BY <1>1
  <2> DEFINE m == [l EXCEPT !.doc = x.doc, !.copy = x.copy, !.todo = @ \ {x},
                            !.pc = IF l.op = "rebuild" THEN "upsert" ELSE "read"]
  <2>2. m.pc # "idle"
    BY DEF Proc
  <2>3. procs' = [procs EXCEPT ![p] = m]
    BY <2>1, <2>2 DEF Goto
  <2>4. Turned(l, m)
    BY DEF Turned
  <2> QED
    BY <2>3, <2>4
<1>2. CASE /\ l.todo = {}
           /\ Goto(p, [l EXCEPT !.pc = IF l.op = "rebuild" /\ l.doc # Reflection
                                       THEN "learn" ELSE "idle"])
  <2>1. CASE l.op = "rebuild" /\ l.doc # Reflection
    <3>1. [l EXCEPT !.pc = "learn"].pc # "idle"
      BY DEF Proc
    <3>2. procs' = [procs EXCEPT ![p] = [l EXCEPT !.pc = "learn"]]
      BY <1>2, <2>1, <3>1 DEF Goto
    <3> QED
      BY <1>2, <2>1, <3>2 DEF Turned
  <2>2. CASE ~(l.op = "rebuild" /\ l.doc # Reflection)
    <3>1. [l EXCEPT !.pc = "idle"].pc = "idle"
      BY DEF Proc
    <3>2. procs' = [procs EXCEPT ![p] = Idle]
      BY <1>2, <2>2, <3>1 DEF Goto
    <3> QED
      BY <1>2, <2>2, <3>2 DEF Turned
  <2> QED
    BY <2>1, <2>2
<1> QED
  BY <1>1, <1>2 DEF Turn

LEMMA TurnedFits ==
    ASSUME NEW l \in Proc, NEW m, Turned(l, m),
           \A x \in l.todo : x.doc \in Stored,
           l.op \notin {"cleanup", "rebuild"} => l.todo = {},
           l.doc = Reflection => l.todo = {},
           l.op = "cleanup" => l.status = "ignored",
           l.op # "none"
    PROVE  m \in Proc /\ Fit(m)
<1>1. CASE \E x \in l.todo :
        m = [l EXCEPT !.doc = x.doc, !.copy = x.copy, !.todo = @ \ {x},
                      !.pc = IF l.op = "rebuild" THEN "upsert" ELSE "read"]
  <2>1. PICK x \in l.todo :
        m = [l EXCEPT !.doc = x.doc, !.copy = x.copy, !.todo = @ \ {x},
                      !.pc = IF l.op = "rebuild" THEN "upsert" ELSE "read"]
    BY <1>1
  <2>2. x \in Listed /\ x.doc \in Stored /\ x.copy \in Version /\ x.doc \in Jobs
    BY DEF Proc, Listed
  <2>3. x.doc \in Docs /\ x.doc # Reflection
    BY <2>2, StoreAssumption DEF Docs
  <2>4. m \in Proc
    BY <2>1, <2>2, <2>3 DEF Proc
  <2>5. /\ m.doc = x.doc /\ m.op = l.op /\ m.todo = l.todo \ {x} /\ m.status = l.status
        /\ m.pc = IF l.op = "rebuild" THEN "upsert" ELSE "read"
    BY <2>1 DEF Proc
  <2>6. l.op \in {"cleanup", "rebuild"}
    BY <2>1
  <2> QED
    BY <2>2, <2>3, <2>4, <2>5, <2>6 DEF Fit
<1>2. CASE /\ l.todo = {} /\ l.op = "rebuild" /\ l.doc # Reflection
           /\ m = [l EXCEPT !.pc = "learn"]
  <2>1. m \in Proc
    BY <1>2 DEF Proc
  <2>2. m.pc = "learn" /\ m.op = "rebuild" /\ m.todo = {} /\ m.doc = l.doc
    BY <1>2 DEF Proc
  <2> QED
    BY <2>1, <2>2 DEF Fit
<1>3. CASE m = Idle
  BY <1>3, IdleTyped
<1> QED
  BY <1>1, <1>2, <1>3 DEF Turned

\* What is remembered of a document is a version.
LEMMA CurrentTyped ==
    ASSUME TypeOK
    PROVE  /\ \A d \in Stored \cup {Profile, Reflection} : Current(d) \in Version
           /\ Scanned \in Nat
<1>1. Scanned \in Nat
  <2>1. DOMAIN decisions = 1..Len(decisions) /\ Len(decisions) \in Nat
    BY DEF TypeOK
  <2>2. IsFiniteSet(1..Len(decisions))
    BY <2>1, FS_Interval
  <2> DEFINE few == {i \in DOMAIN decisions :
                        decisions[i].to \in {"interested", "applied", "ignored"}}
  <2>3. few \in SUBSET (1..Len(decisions))
    BY <2>1
  <2>4. IsFiniteSet(few)
    BY <2>2, <2>3, FS_Subset
  <2> QED
    BY <2>4, FS_CardinalityType DEF Scanned
<1>2. ASSUME NEW d \in Stored
      PROVE  Current(d) \in Version
  <2>1. d \in Jobs /\ jobs[d] \in Row
    BY DEF Stored, TypeOK
  <2> QED
    BY <2>1 DEF Current, Version, Row
<1>3. Current(Profile) \in Version /\ Current(Reflection) \in Version
  BY <1>1, StoreAssumption DEF Current, Version, TypeOK
<1> QED
  BY <1>1, <1>2, <1>3

\* A goroutine stays in shape while the others fill the tables.
LEMMA FitGrows ==
    ASSUME NEW l \in Proc, Fit(l), Grows
    PROVE  Fit(l)'
<1>1. l.pc \in {"reread", "put"} => l.doc \in Docs
  BY DEF Fit, Docs, Stored
<1>2. l.pc \in {"reread", "put"} => memory'[l.doc] # None
  BY <1>1 DEF Fit, Grows
<1>3. Stored \subseteq Stored'
  BY DEF Grows
<1> QED
  BY <1>2, <1>3 DEF Fit

\* What a step does to the local variables and the tables of rows.
Moves ==
    /\ \E p \in Procs : \E m \in Proc : Fit(m)' /\ procs' = [procs EXCEPT ![p] = m]
    /\ Grows

LEMMA GrowsIfSame ==
    ASSUME UNCHANGED <<jobs, memory>>
    PROVE  Grows
  BY DEF Grows, Stored

\* A new request is in shape.
LEMMA RequestMoves ==
    ASSUME TypeOK, Shape, NEW p \in Procs, Request(p)
    PROVE  Moves
<1>a. ASSUME NEW l, l \in Proc, Fit(l), l.pc # "idle", Begin(p, l)
      PROVE  Moves
  <2>1. procs' = [procs EXCEPT ![p] = l] /\ Grows
    BY <1>a, GrowsIfSame DEF Begin, Goto, tables
  <2> QED
    BY <1>a, <2>1, FitGrows DEF Moves
<1>b. Idle \in Proc /\ Stored \subseteq Jobs /\ Choices \subseteq Statuses
  BY IdleTyped, ChoicesAssumption DEF Stored
<1>1. CASE \E j \in Jobs \ (Stored \cup {Doc(q) : q \in Procs}), s \in {"new", "manual_check"} :
             Begin(p, [Idle EXCEPT !.op = "import", !.pc = "write", !.doc = j, !.status = s])
  <2>1. PICK j \in Jobs, s \in {"new", "manual_check"} :
             Begin(p, [Idle EXCEPT !.op = "import", !.pc = "write", !.doc = j, !.status = s])
    BY <1>1
  <2>2. PICK l : l = [Idle EXCEPT !.op = "import", !.pc = "write", !.doc = j, !.status = s]
    OBVIOUS
  <2>3. l \in Proc /\ Fit(l) /\ l.pc # "idle"
    BY <1>b, <2>2, StoreAssumption DEF Proc, Idle, Fit, Docs, Statuses
  <2> QED
    BY <1>a, <2>1, <2>2, <2>3
<1>2. CASE \E j \in Stored, s \in Choices :
             Begin(p, [Idle EXCEPT !.op = "status", !.pc = "read", !.doc = j, !.status = s])
  <2>1. PICK j \in Stored, s \in Choices :
             Begin(p, [Idle EXCEPT !.op = "status", !.pc = "read", !.doc = j, !.status = s])
    BY <1>2
  <2>2. PICK l : l = [Idle EXCEPT !.op = "status", !.pc = "read", !.doc = j, !.status = s]
    OBVIOUS
  <2>3. l \in Proc /\ Fit(l) /\ l.pc # "idle"
    BY <1>b, <2>2, StoreAssumption DEF Proc, Idle, Fit, Docs
  <2> QED
    BY <1>a, <2>1, <2>2, <2>3
<1>3. CASE \E j \in Stored, t \in Texts :
             Begin(p, [Idle EXCEPT !.op = "notes", !.pc = "write", !.doc = j, !.text = t])
  <2>1. PICK j \in Stored, t \in Texts :
             Begin(p, [Idle EXCEPT !.op = "notes", !.pc = "write", !.doc = j, !.text = t])
    BY <1>3
  <2>2. PICK l : l = [Idle EXCEPT !.op = "notes", !.pc = "write", !.doc = j, !.text = t]
    OBVIOUS
  <2>3. l \in Proc /\ Fit(l) /\ l.pc # "idle"
    BY <1>b, <2>2, StoreAssumption DEF Proc, Idle, Fit, Docs
  <2> QED
    BY <1>a, <2>1, <2>2, <2>3
<1>4. CASE \E t \in Texts :
             Begin(p, [Idle EXCEPT !.op = "profile", !.pc = "write", !.doc = Profile, !.text = t])
  <2>1. PICK t \in Texts :
             Begin(p, [Idle EXCEPT !.op = "profile", !.pc = "write", !.doc = Profile, !.text = t])
    BY <1>4
  <2>2. PICK l : l = [Idle EXCEPT !.op = "profile", !.pc = "write", !.doc = Profile, !.text = t]
    OBVIOUS
  <2>3. l \in Proc /\ Fit(l) /\ l.pc # "idle"
    BY <1>b, <2>2, StoreAssumption DEF Proc, Idle, Fit, Docs
  <2> QED
    BY <1>a, <2>1, <2>2, <2>3
<1>5. CASE Begin(p, [Idle EXCEPT !.op = "cleanup", !.pc = "list", !.status = "ignored"])
  <2>1. PICK l : l = [Idle EXCEPT !.op = "cleanup", !.pc = "list", !.status = "ignored"]
    OBVIOUS
  <2>2. l \in Proc /\ Fit(l) /\ l.pc # "idle"
    BY <1>b, <2>1, StoreAssumption DEF Proc, Idle, Fit, Docs, Statuses
  <2> QED
    BY <1>a, <1>5, <2>1, <2>2
<1>6. CASE Begin(p, [Idle EXCEPT !.op = "rebuild", !.pc = "list"])
  <2>1. PICK l : l = [Idle EXCEPT !.op = "rebuild", !.pc = "list"]
    OBVIOUS
  <2>2. l \in Proc /\ Fit(l) /\ l.pc # "idle"
    BY <1>b, <2>1, StoreAssumption DEF Proc, Idle, Fit, Docs
  <2> QED
    BY <1>a, <1>6, <2>1, <2>2
<1> QED
  BY <1>1, <1>2, <1>3, <1>4, <1>5, <1>6 DEF Request

\* After its row is written a request goes on to read it back.
LEMMA WriteMoves ==
    ASSUME TypeOK, Shape, NEW p \in Procs,
           InsertJob(p) \/ WriteNotes(p) \/ SaveCandidateProfile(p)
    PROVE  Moves
<1> PICK m : m = [procs[p] EXCEPT !.pc = "reload"]
  OBVIOUS
<1>1. procs[p] \in Proc /\ Fit(procs[p]) /\ procs[p].pc = "write"
  BY DEF TypeOK, Shape, InsertJob, WriteNotes, SaveCandidateProfile, Runs, At
<1>2. m \in Proc /\ m.pc = "reload" /\ m.op = procs[p].op /\ m.doc = procs[p].doc
      /\ m.todo = procs[p].todo /\ m.status = procs[p].status
  BY <1>1 DEF Proc
<1>3. procs' = [procs EXCEPT ![p] = m]
  BY <1>2 DEF InsertJob, WriteNotes, SaveCandidateProfile, Goto
<1>4. Stored \subseteq Stored' /\ (procs[p].op # "profile" => procs[p].doc \in Stored')
  <2>1. CASE InsertJob(p)
    <3>1. procs[p].doc \in Jobs /\ procs[p].op = "import"
      BY <1>1, <2>1 DEF Fit, InsertJob, Runs, At
    <3>2. [status |-> StatusOf(p), notes |-> Blank] # None
      <4>1. [status |-> StatusOf(p), notes |-> Blank] \in Row
        BY <1>1, StoreAssumption DEF Row, StatusOf, Proc
      <4> QED
        BY <4>1, NoneAssumption
    <3> QED
      BY <2>1, <3>1, <3>2 DEF InsertJob, Stored, Doc, TypeOK
  <2>2. CASE WriteNotes(p)
    <3>1. procs[p].doc \in Stored /\ procs[p].text \in Texts
      BY <1>1, <2>2, StoreAssumption DEF Fit, WriteNotes, Runs, At, Proc
    <3>2. jobs[procs[p].doc] \in Row
      BY <3>1 DEF TypeOK, Stored
    <3>3. [jobs[procs[p].doc] EXCEPT !.notes = procs[p].text] \in Row
      BY <3>1, <3>2 DEF Row
    <3> QED
      BY <2>2, <3>1, <3>3, NoneAssumption DEF WriteNotes, Stored, Doc, TypeOK
  <2>3. CASE SaveCandidateProfile(p)
    BY <2>3 DEF SaveCandidateProfile, Stored, Runs
  <2> QED
    BY <2>1, <2>2, <2>3
<1>5. Grows
  BY <1>4 DEF Grows, InsertJob, WriteNotes, SaveCandidateProfile
<1>6. Fit(m)'
  BY <1>1, <1>2, <1>4 DEF Fit
<1> QED
  BY <1>2, <1>3, <1>5, <1>6 DEF Moves

\* A status is read, written and logged; the next job of a list has its turn.
LEMMA StatusMoves ==
    ASSUME TypeOK, Shape, NEW p \in Procs,
           ReadStatus(p) \/ UpdateStatus(p) \/ RecordJobDecision(p)
    PROVE  Moves
<1>1. procs[p] \in Proc /\ Fit(procs[p]) /\ procs[p].pc \in {"read", "update", "log"}
  BY DEF TypeOK, Shape, ReadStatus, UpdateStatus, RecordJobDecision, At
<1>2. procs[p].op \in {"status", "cleanup"} /\ procs[p].doc \in Stored
  BY <1>1 DEF Fit
<1>3. jobs[procs[p].doc] \in Row /\ procs[p].doc \in Jobs
  BY <1>2 DEF TypeOK, Stored
<1>4. Grows
  <2>1. CASE UpdateStatus(p)
    <3>1. [jobs[procs[p].doc] EXCEPT !.status = procs[p].status] \in Row
      BY <1>1, <1>3 DEF Row, Proc
    <3> QED
      BY <1>3, <2>1, <3>1, NoneAssumption DEF UpdateStatus, Grows, Stored, TypeOK
  <2>2. CASE ~UpdateStatus(p)
    BY <2>2, GrowsIfSame DEF ReadStatus, RecordJobDecision, tables
  <2> QED
    BY <2>1, <2>2
<1>5. ASSUME NEW m \in Proc, Fit(m), procs' = [procs EXCEPT ![p] = m]
      PROVE  Moves
  BY <1>4, <1>5, FitGrows DEF Moves
<1>6. ASSUME Turn(p, procs[p])
      PROVE  Moves
  <2>1. PICK m : Turned(procs[p], m) /\ procs' = [procs EXCEPT ![p] = m]
    BY <1>1, <1>6, TurnMoves
  <2>2. m \in Proc /\ Fit(m)
    BY <1>1, <1>2, <2>1, TurnedFits DEF Fit
  <2> QED
    BY <1>5, <2>1, <2>2
<1>7. CASE ReadStatus(p)
  <2>1. PICK m : m = [procs[p] EXCEPT !.from = jobs[Doc(p)].status, !.pc = "update"]
    OBVIOUS
  <2>2. m \in Proc /\ m.pc = "update" /\ m.op = procs[p].op /\ m.doc = procs[p].doc
        /\ m.todo = procs[p].todo /\ m.status = procs[p].status
    BY <1>1, <1>3, <2>1 DEF Proc, Row, Doc
  <2>3. Fit(m) /\ procs' = [procs EXCEPT ![p] = m]
    BY <1>1, <1>2, <1>7, <2>1, <2>2 DEF ReadStatus, Goto, Fit
  <2> QED
    BY <1>5, <2>2, <2>3
<1>8. CASE UpdateStatus(p)
  <2>1. CASE procs[p].from # procs[p].status
    <3>1. PICK m : m = [procs[p] EXCEPT !.pc = "log"]
      OBVIOUS
    <3>2. m \in Proc /\ m.pc = "log" /\ m.op = procs[p].op /\ m.doc = procs[p].doc
          /\ m.todo = procs[p].todo /\ m.status = procs[p].status
      BY <1>1, <3>1 DEF Proc
    <3>3. Fit(m) /\ procs' = [procs EXCEPT ![p] = m]
      BY <1>1, <1>2, <1>8, <2>1, <3>1, <3>2 DEF UpdateStatus, Goto, Fit
    <3> QED
      BY <1>5, <3>2, <3>3
  <2>2. CASE procs[p].from = procs[p].status
    BY <1>6, <1>8, <2>2 DEF UpdateStatus
  <2> QED
    BY <2>1, <2>2
<1>9. CASE RecordJobDecision(p)
  BY <1>6, <1>9 DEF RecordJobDecision
<1> QED
  BY <1>7, <1>8, <1>9

\* The jobs are listed.
LEMMA ListMoves ==
    ASSUME TypeOK, Shape, NEW p \in Procs, ListJobs(p)
    PROVE  Moves
<1>1. procs[p] \in Proc /\ Fit(procs[p]) /\ procs[p].pc = "list"
  BY DEF TypeOK, Shape, ListJobs, At
<1>2. PICK l : l = [procs[p] EXCEPT !.todo =
            {[doc |-> j, copy |-> Current(j)] : j \in Selected(procs[p].op)}]
  OBVIOUS
<1>3. \A x \in l.todo : x \in Listed /\ x.doc \in Stored
  <2>1. Selected(procs[p].op) \subseteq Stored /\ Stored \subseteq Jobs
    BY DEF Selected, Visible, Stored
  <2>2. \A j \in Stored : Current(j) \in Version
    BY CurrentTyped
  <2>3. l.todo = {[doc |-> j, copy |-> Current(j)] : j \in Selected(procs[p].op)}
    BY <1>1, <1>2 DEF Proc
  <2> QED
    BY <2>1, <2>2, <2>3 DEF Listed
<1>4. l \in Proc /\ l.op = procs[p].op /\ l.status = procs[p].status /\ l.doc = procs[p].doc
  BY <1>1, <1>2, <1>3 DEF Proc
<1>5. l.op \in {"cleanup", "rebuild"} /\ l.doc # Reflection
  BY <1>1, <1>4, StoreAssumption DEF Fit
<1>6. PICK m : Turned(l, m) /\ procs' = [procs EXCEPT ![p] = m]
  BY <1>2, <1>4, TurnMoves DEF ListJobs
<1>7. m \in Proc /\ Fit(m)
  BY <1>1, <1>3, <1>4, <1>5, <1>6, TurnedFits DEF Fit
<1>8. Grows
  BY GrowsIfSame DEF ListJobs, tables
<1> QED
  BY <1>6, <1>7, <1>8, FitGrows DEF Moves

\* The two stores are told.
LEMMA MemoryMoves ==
    ASSUME TypeOK, Shape, NEW p \in Procs,
           \/ Reload(p) \/ UpsertSemanticMemoryItem(p) \/ Reread(p)
           \/ Put(p) \/ LosePut(p) \/ Learn(p)
    PROVE  Moves
<1>1. procs[p] \in Proc /\ Fit(procs[p])
  BY DEF TypeOK, Shape
<1>2. ASSUME NEW m \in Proc, Fit(m), procs' = [procs EXCEPT ![p] = m], UNCHANGED <<jobs, memory>>
      PROVE  Moves
  BY <1>2, FitGrows, GrowsIfSame DEF Moves
<1>3. CASE Reload(p)
  <2>1. procs[p].doc \in Stored \cup {Profile} /\ procs[p].pc = "reload"
        /\ procs[p].op \in {"import", "notes", "profile"}
    BY <1>1, <1>3 DEF Fit, Reload, At
  <2>2. PICK m : m = [procs[p] EXCEPT !.copy = Reloaded(p), !.pc = "upsert"]
    OBVIOUS
  <2>3. Reloaded(p) \in Version
    BY <2>1, CurrentTyped DEF Reloaded, Doc
  <2>4. m \in Proc /\ m.pc = "upsert" /\ m.op = procs[p].op /\ m.doc = procs[p].doc
        /\ m.todo = procs[p].todo /\ m.status = procs[p].status
    BY <1>1, <2>2, <2>3 DEF Proc
  <2>5. procs[p].doc # Reflection
    BY <2>1, StoreAssumption DEF Stored
  <2>6. Fit(m)
    BY <1>1, <2>1, <2>4, <2>5 DEF Fit
  <2>7. procs' = [procs EXCEPT ![p] = m]
    BY <1>3, <2>2, <2>4 DEF Reload, Goto
  <2> QED
    BY <1>2, <1>3, <2>4, <2>6, <2>7 DEF Reload, tables
<1>4. CASE UpsertSemanticMemoryItem(p)
  <2>1. procs[p].pc = "upsert" /\ procs[p].doc \in Stored \cup {Profile, Reflection}
        /\ procs[p].op \in {"import", "notes", "profile", "rebuild"}
    BY <1>1, <1>4 DEF Fit, UpsertSemanticMemoryItem, At
  <2>2. procs[p].doc \in Docs /\ procs[p].copy \in Version /\ procs[p].copy # None
    BY <1>1, <2>1, NoneAssumption DEF Docs, Stored, Proc
  <2>3. memory' = [memory EXCEPT ![procs[p].doc] = procs[p].copy] /\ UNCHANGED jobs
    BY <1>4 DEF UpsertSemanticMemoryItem
  <2>4. Grows /\ memory'[procs[p].doc] # None
    BY <2>2, <2>3 DEF Grows, Stored, TypeOK
  <2>5. CASE Qdrant
    <3>1. PICK m : m = [procs[p] EXCEPT !.pc = "reread"]
      OBVIOUS
    <3>2. m \in Proc /\ m.pc = "reread" /\ m.op = procs[p].op /\ m.doc = procs[p].doc
          /\ m.todo = procs[p].todo /\ m.status = procs[p].status
      BY <1>1, <3>1 DEF Proc
    <3>3. procs' = [procs EXCEPT ![p] = m]
      BY <1>4, <2>5, <3>1, <3>2 DEF UpsertSemanticMemoryItem, Goto
    <3>4. Stored \subseteq Stored'
      BY <2>4 DEF Grows
    <3>5. Fit(m)'
      BY <1>1, <2>1, <2>4, <3>2, <3>4 DEF Fit
    <3> QED
      BY <2>4, <3>2, <3>3, <3>5 DEF Moves
  <2>6. CASE ~Qdrant
    <3>1. PICK m : Turned(procs[p], m) /\ procs' = [procs EXCEPT ![p] = m]
      BY <1>1, <1>4, <2>6, TurnMoves DEF UpsertSemanticMemoryItem
    <3>2. m \in Proc /\ Fit(m)
      BY <1>1, <2>1, <3>1, TurnedFits DEF Fit
    <3> QED
      BY <2>4, <3>1, <3>2, FitGrows DEF Moves
  <2> QED
    BY <2>5, <2>6
<1>5. CASE Reread(p)
  <2>1. procs[p].pc = "reread" /\ procs[p].doc \in Stored \cup {Profile, Reflection}
        /\ memory[procs[p].doc] # None
    BY <1>1, <1>5 DEF Fit, Reread, At
  <2>2. memory[procs[p].doc] \in Version
    BY <2>1 DEF TypeOK, Docs, Stored
  <2>3. PICK m : m = [procs[p] EXCEPT !.copy = memory[Doc(p)], !.pc = "put"]
    OBVIOUS
  <2>4. m \in Proc /\ m.pc = "put" /\ m.op = procs[p].op /\ m.doc = procs[p].doc
        /\ m.todo = procs[p].todo /\ m.status = procs[p].status
    BY <1>1, <2>2, <2>3 DEF Proc, Doc
  <2>5. Fit(m)
    BY <1>1, <2>1, <2>4 DEF Fit
  <2>6. procs' = [procs EXCEPT ![p] = m]
    BY <1>5, <2>3, <2>4 DEF Reread, Goto
  <2> QED
    BY <1>2, <1>5, <2>4, <2>5, <2>6 DEF Reread, tables
<1>6. CASE Put(p) \/ LosePut(p)
  <2>1. procs[p].pc = "put" /\ procs[p].op \in {"import", "notes", "profile", "rebuild"}
    BY <1>1, <1>6 DEF Fit, Put, LosePut, At
  <2>2. PICK m : Turned(procs[p], m) /\ procs' = [procs EXCEPT ![p] = m]
    BY <1>1, <1>6, TurnMoves DEF Put, LosePut
  <2>3. m \in Proc /\ Fit(m)
    BY <1>1, <2>1, <2>2, TurnedFits DEF Fit
  <2> QED
    BY <1>2, <1>6, <2>2, <2>3 DEF Put, LosePut, tables
<1>7. CASE Learn(p)
  <2>1. procs[p].pc = "learn" /\ procs[p].op = "rebuild" /\ procs[p].todo = {}
    BY <1>1, <1>7 DEF Fit, Learn, At
  <2>2. CASE Scanned = 0
    BY <1>2, <1>7, <2>2, IdleTyped DEF Learn, Goto, tables
  <2>3. CASE Scanned # 0
    <3>1. PICK m : m = [procs[p] EXCEPT !.doc = Reflection, !.copy = Current(Reflection),
                                        !.pc = "upsert"]
      OBVIOUS
    <3>2. Current(Reflection) \in Version
      BY CurrentTyped
    <3>3. m \in Proc /\ m.pc = "upsert" /\ m.op = "rebuild" /\ m.doc = Reflection
          /\ m.todo = {} /\ m.status = procs[p].status
      BY <1>1, <2>1, <3>1, <3>2 DEF Proc, Docs
    <3>4. Fit(m)
      BY <3>3 DEF Fit
    <3>5. procs' = [procs EXCEPT ![p] = m]
      BY <1>7, <2>3, <3>1, <3>3 DEF Learn, Goto
    <3> QED
      BY <1>2, <1>7, <3>3, <3>4, <3>5 DEF Learn, tables
  <2> QED
    BY <2>2, <2>3
<1> QED
  BY <1>3, <1>4, <1>5, <1>6, <1>7

\* Everyone stays in shape.
LEMMA LocalsKept ==
    ASSUME TypeOK, Shape, [Next]_vars
    PROVE  procs' \in [Procs -> Proc] /\ Shape' /\ Grows
<1>a. procs \in [Procs -> Proc] /\ \A q \in Procs : procs[q] \in Proc /\ Fit(procs[q])
  BY DEF TypeOK, Shape
<1>1. ASSUME Moves
      PROVE  procs' \in [Procs -> Proc] /\ Shape' /\ Grows
  <2>1. PICK p \in Procs, m \in Proc : Fit(m)' /\ procs' = [procs EXCEPT ![p] = m]
    BY <1>1 DEF Moves
  <2>2. procs'[p] = m /\ \A q \in Procs \ {p} : procs'[q] = procs[q]
    BY <1>a, <2>1
  <2>3. \A l \in Proc : Fit(l) => Fit(l)'
    BY <1>1, FitGrows DEF Moves
  <2>4. \A l : l = m => Fit(l)'
    BY <2>1
  <2>5. ASSUME NEW q \in Procs
        PROVE  Fit(procs[q])'
    <3>1. PICK l : l = procs'[q]
      OBVIOUS
    <3>2. Fit(l)'
      BY <1>a, <2>2, <2>3, <2>4, <3>1
    <3> QED
      BY <3>1, <3>2 DEF Fit
  <2> QED
    BY <1>1, <1>a, <2>1, <2>5 DEF Moves, Shape
<1>2. ASSUME NEW ps \in SUBSET Procs, Stop(ps)
      PROVE  procs' \in [Procs -> Proc] /\ Shape' /\ Grows
  <2>1. Grows /\ procs' = [p \in Procs |-> IF p \in ps THEN Idle ELSE procs[p]]
    BY <1>2, GrowsIfSame DEF Stop, tables
  <2>2. procs' \in [Procs -> Proc]
    BY <1>a, <2>1, IdleTyped
  <2>3. \A l \in Proc : Fit(l) => Fit(l)'
    BY <2>1, FitGrows
  <2>4. ASSUME NEW q \in Procs
        PROVE  Fit(procs[q])'
    <3>1. PICK l : l = procs'[q]
      OBVIOUS
    <3>2. l \in Proc /\ Fit(l)
      BY <1>a, <2>1, <3>1, IdleTyped
    <3>3. Fit(l)'
      BY <2>3, <3>2
    <3> QED
      BY <3>1, <3>3 DEF Fit
  <2> QED
    BY <2>1, <2>2, <2>4 DEF Shape
<1>3. ASSUME UNCHANGED vars
      PROVE  procs' \in [Procs -> Proc] /\ Shape' /\ Grows
  <2>1. procs' = procs /\ jobs' = jobs /\ memory' = memory
    BY <1>3 DEF vars, tables
  <2>2. Shape'
    BY <2>1 DEF Shape, Fit, Stored
  <2> QED
    BY <1>a, <2>1, <2>2, GrowsIfSame
<1>4. ASSUME NEW p \in Procs, Request(p) \/ Step(p) \/ LosePut(p) \/ Fail(p)
      PROVE  procs' \in [Procs -> Proc] /\ Shape' /\ Grows
  <2>1. CASE Request(p)
    BY <1>1, <2>1, RequestMoves
  <2>2. CASE Step(p)
    BY <1>1, <2>2, WriteMoves, StatusMoves, ListMoves, MemoryMoves DEF Step
  <2>3. CASE LosePut(p)
    BY <1>1, <2>3, MemoryMoves
  <2>4. CASE Fail(p)
    BY <1>2, <2>4 DEF Fail
  <2> QED
    BY <1>4, <2>1, <2>2, <2>3, <2>4
<1>5. CASE Restart
  BY <1>2, <1>5 DEF Restart
<1> QED
  BY <1>3, <1>4, <1>5 DEF Next

\* The tables and the histories keep their types.
LEMMA TypeStep ==
    ASSUME TypeOK, Shape, [Next]_vars
    PROVE  TypeOK'
<1>a. procs' \in [Procs -> Proc]
  BY LocalsKept
<1>b. \A q \in Procs : procs[q] \in Proc /\ Fit(procs[q])
  BY DEF TypeOK, Shape
<1>c. Stored \subseteq Jobs /\ Jobs \subseteq Docs /\ Profile \in Docs /\ Reflection \in Docs
  BY DEF Stored, Docs
<1>d. ASSUME NEW p, NEW ds \in SUBSET Docs, Touch(p, ds)
      PROVE  touched' \in [Procs -> SUBSET Docs]
  BY <1>d DEF Touch, TypeOK
<1>e. ASSUME spent' = [spent EXCEPT !.faults = @ + 1], spent.faults < MaxFaults
      PROVE  spent' \in Spent
  BY <1>e, StoreAssumption DEF TypeOK, Spent
<1>1. ASSUME NEW p \in Procs, Request(p)
      PROVE  TypeOK'
  <2>1. UNCHANGED <<tables, marks>> /\ spent.requests < MaxRequests
        /\ spent' = [spent EXCEPT !.requests = @ + 1]
    BY <1>1 DEF Request, Begin
  <2>2. spent' \in Spent
    BY <2>1, StoreAssumption DEF TypeOK, Spent
  <2> QED
    BY <1>a, <2>1, <2>2 DEF TypeOK, tables, marks
<1>2. ASSUME NEW p \in Procs, InsertJob(p)
      PROVE  TypeOK'
  <2>1. procs[p].doc \in Jobs /\ procs[p].status \in Statuses
    BY <1>2, <1>b DEF InsertJob, Runs, At, Fit, Proc
  <2>2. jobs' \in [Jobs -> Row \cup {None}]
    BY <1>2, <2>1, StoreAssumption DEF InsertJob, TypeOK, Row, StatusOf, Doc
  <2>3. touched' \in [Procs -> SUBSET Docs] /\ behind' \subseteq Docs
    BY <1>2, <1>c, <1>d, <2>1 DEF InsertJob, Outdates, TypeOK, Doc
  <2> QED
    BY <1>2, <1>a, <2>2, <2>3 DEF TypeOK, InsertJob
<1>3. ASSUME NEW p \in Procs, WriteNotes(p)
      PROVE  TypeOK'
  <2>1. procs[p].doc \in Stored /\ procs[p].text \in Texts
    BY <1>3, <1>b, StoreAssumption DEF WriteNotes, Runs, At, Fit, Proc
  <2>2. jobs[procs[p].doc] \in Row /\ procs[p].doc \in Jobs
    BY <2>1 DEF TypeOK, Stored
  <2>3. [jobs[procs[p].doc] EXCEPT !.notes = procs[p].text] \in Row
    BY <2>1, <2>2 DEF Row
  <2>4. jobs' \in [Jobs -> Row \cup {None}]
    BY <1>3, <2>2, <2>3 DEF WriteNotes, TypeOK, Doc
  <2>5. touched' \in [Procs -> SUBSET Docs] /\ behind' \subseteq Docs
    BY <1>3, <1>c, <1>d, <2>2 DEF WriteNotes, Outdates, TypeOK, Doc
  <2> QED
    BY <1>3, <1>a, <2>4, <2>5 DEF TypeOK, WriteNotes
<1>4. ASSUME NEW p \in Procs, SaveCandidateProfile(p)
      PROVE  TypeOK'
  <2>1. procs[p].text \in Texts
    BY <1>b DEF Proc
  <2>2. touched' \in [Procs -> SUBSET Docs] /\ behind' \subseteq Docs
    BY <1>4, <1>c, <1>d DEF SaveCandidateProfile, Outdates, TypeOK
  <2> QED
    BY <1>4, <1>a, <2>1, <2>2 DEF TypeOK, SaveCandidateProfile
<1>5. ASSUME NEW p \in Procs, ReadStatus(p)
      PROVE  TypeOK'
  <2>1. procs[p].doc \in Jobs
    BY <1>5, <1>b, <1>c DEF ReadStatus, At, Fit
  <2>2. unlogged' \subseteq Jobs
    BY <1>5, <2>1 DEF ReadStatus, TypeOK, Doc
  <2> QED
    BY <1>5, <1>a, <2>2 DEF TypeOK, ReadStatus, tables
<1>6. ASSUME NEW p \in Procs, UpdateStatus(p)
      PROVE  TypeOK'
  <2>1. procs[p].doc \in Stored /\ procs[p].status \in Statuses
    BY <1>6, <1>b DEF UpdateStatus, At, Fit, Proc
  <2>2. jobs[procs[p].doc] \in Row /\ procs[p].doc \in Jobs
    BY <2>1 DEF TypeOK, Stored
  <2>3. [jobs[procs[p].doc] EXCEPT !.status = procs[p].status] \in Row
    BY <2>1, <2>2 DEF Row
  <2>4. jobs' \in [Jobs -> Row \cup {None}]
    BY <1>6, <2>2, <2>3 DEF UpdateStatus, TypeOK
  <2>5. touched' \in [Procs -> SUBSET Docs]
    BY <1>6, <1>c, <1>d, <2>2 DEF UpdateStatus
  <2>6. decided' \in [Jobs -> Statuses \cup {None}] /\ exposed' \subseteq Jobs
    BY <1>6, <2>1, <2>2 DEF UpdateStatus, TypeOK, Add
  <2> QED
    BY <1>6, <1>a, <2>4, <2>5, <2>6 DEF TypeOK, UpdateStatus
<1>7. ASSUME NEW p \in Procs, RecordJobDecision(p)
      PROVE  TypeOK'
  <2>1. procs[p].doc \in Jobs /\ procs[p].status \in Statuses /\ procs[p].from \in Statuses
    BY <1>7, <1>b, <1>c DEF RecordJobDecision, At, Fit, Proc
  <2>2. DecisionOf(procs[p]) \in Decision
    BY <2>1 DEF DecisionOf, Decision
  <2>3. decisions' \in Seq(Decision)
    BY <1>7, <2>2 DEF RecordJobDecision, TypeOK
  <2>4. unlogged' \subseteq Jobs
    BY <1>7 DEF RecordJobDecision, TypeOK
  <2>5. touched' \in [Procs -> SUBSET Docs]
    BY <1>7, <1>c, <1>d DEF RecordJobDecision
  <2> QED
    BY <1>7, <1>a, <2>3, <2>4, <2>5 DEF TypeOK, RecordJobDecision
<1>8. ASSUME NEW p \in Procs, ListJobs(p)
      PROVE  TypeOK'
  <2>1. touched' \in [Procs -> SUBSET Docs]
    BY <1>8 DEF ListJobs, TypeOK
  <2> QED
    BY <1>8, <1>a, <2>1 DEF TypeOK, ListJobs, tables
<1>9. ASSUME NEW p \in Procs, Reload(p) \/ Reread(p)
      PROVE  TypeOK'
  BY <1>9, <1>a DEF TypeOK, Reload, Reread, tables, marks
<1>10. ASSUME NEW p \in Procs, UpsertSemanticMemoryItem(p)
       PROVE  TypeOK'
  <2>1. procs[p].doc \in Docs /\ procs[p].copy \in Version
    BY <1>10, <1>b, <1>c DEF UpsertSemanticMemoryItem, At, Fit, Proc
  <2>2. memory' \in [Docs -> Version \cup {None}]
    BY <1>10, <2>1 DEF UpsertSemanticMemoryItem, TypeOK
  <2>3. behind' \subseteq Docs /\ unindexed' \subseteq Docs
    BY <1>10, <2>1 DEF UpsertSemanticMemoryItem, TypeOK
  <2>4. touched' \in [Procs -> SUBSET Docs]
    BY <1>10, <1>d, <2>1 DEF UpsertSemanticMemoryItem
  <2> QED
    BY <1>10, <1>a, <2>2, <2>3, <2>4 DEF TypeOK, UpsertSemanticMemoryItem
<1>11. ASSUME NEW p \in Procs, Put(p)
       PROVE  TypeOK'
  <2>1. procs[p].doc \in Docs /\ procs[p].copy \in Version
    BY <1>11, <1>b, <1>c DEF Put, At, Fit, Proc
  <2>2. index' \in [Docs -> Version \cup {None}] /\ unindexed' \subseteq Docs
    BY <1>11, <2>1 DEF Put, PutPoint, Doc, TypeOK
  <2> QED
    BY <1>11, <1>a, <2>2 DEF TypeOK, Put
<1>12. ASSUME NEW p \in Procs, LosePut(p)
       PROVE  TypeOK'
  <2>1. procs[p].doc \in Docs
    BY <1>12, <1>b, <1>c DEF LosePut, At, Fit
  <2>2. unindexed' \subseteq Docs /\ spent' \in Spent
    BY <1>12, <1>e, <2>1 DEF LosePut, Doc, TypeOK, Fails
  <2> QED
    BY <1>12, <1>a, <2>2 DEF TypeOK, LosePut, tables
<1>13. ASSUME NEW p \in Procs, Learn(p)
       PROVE  TypeOK'
  <2>1. touched' \in [Procs -> SUBSET Docs]
    BY <1>13 DEF Learn, TypeOK
  <2> QED
    BY <1>13, <1>a, <2>1 DEF TypeOK, Learn, tables
<1>14. ASSUME NEW ps \in SUBSET Procs, Stop(ps)
       PROVE  TypeOK'
  <2>1. \A q \in ps : At(q, "log") => Doc(q) \in Jobs
    BY <1>b, <1>c DEF At, Doc, Fit
  <2>2. \A q \in ps : procs[q].pc \in {"reload", "upsert", "reread", "put"} => Doc(q) \in Docs
    BY <1>b, <1>c DEF Doc, Fit
  <2>3. unlogged' \subseteq Jobs /\ behind' \subseteq Docs /\ unindexed' \subseteq Docs
    BY <1>14, <2>1, <2>2 DEF Stop, TypeOK
  <2>4. spent' \in Spent
    BY <1>14, <1>e DEF Stop, Fails
  <2> QED
    BY <1>14, <1>a, <2>3, <2>4 DEF TypeOK, Stop, tables
<1>15. CASE UNCHANGED vars
  BY <1>15 DEF TypeOK, vars, tables, marks
<1> QED
  BY <1>1, <1>2, <1>3, <1>4, <1>5, <1>6, <1>7, <1>8, <1>9, <1>10, <1>11, <1>12, <1>13,
     <1>14, <1>15 DEF Next, Step, Fail, Restart

LEMMA TypeInit == Init => TypeOK /\ Shape
<1> SUFFICES ASSUME Init
             PROVE  TypeOK /\ Shape
  OBVIOUS
<1>1. jobs \in [Jobs -> Row \cup {None}] /\ profile \in Texts
  BY StoreAssumption DEF Init, Row, Statuses
<1>2. memory \in [Docs -> Version \cup {None}]
  <2>1. \A d \in Stored : Current(d) \in Version
    BY <1>1 DEF Current, Stored, Version, Row
  <2> QED
    BY <2>1 DEF Init
<1>3. index \in [Docs -> Version \cup {None}]
  BY <1>2 DEF Init
<1>4. procs \in [Procs -> Proc] /\ Shape
  BY IdleTyped DEF Init, Shape
<1>5. decisions \in Seq(Decision) /\ decided \in [Jobs -> Statuses \cup {None}]
      /\ exposed \subseteq Jobs /\ unlogged \subseteq Jobs /\ behind \subseteq Docs
      /\ unindexed \subseteq Docs /\ touched \in [Procs -> SUBSET Docs]
  BY DEF Init, Docs
<1>6. spent \in Spent
  BY StoreAssumption DEF Init, Spent
<1> QED
  BY <1>1, <1>2, <1>3, <1>4, <1>5, <1>6 DEF TypeOK

LEMMA ShapeInvariant == Spec => [](TypeOK /\ Shape)
<1>1. TypeOK /\ Shape /\ [Next]_vars => (TypeOK /\ Shape)'
  BY LocalsKept, TypeStep
<1> QED
  BY <1>1, TypeInit, PTL DEF Spec

\* The variables have their types, whatever is requested and fails.
THEOREM TypeCorrect == Spec => []TypeOK
  BY ShapeInvariant, PTL

-----------------------------------------------------------------------------
(* A cleanup overrules the user only on what he judged meanwhile.          *)

Judged(l, j) ==
    /\ l.op = "cleanup"
    /\ (l.doc = j /\ l.pc \in {"read", "update"}) \/ j \in {x.doc : x \in l.todo}
Importing(l) == l.op = "import" /\ l.pc = "write"

\* A job that is about to be inserted has no row and is inserted by one; what a
\* cleanup has listed was not the user's choice then.
UserInv ==
    /\ UserDecisionKept
    /\ \A q \in Procs : Importing(procs[q]) =>
          /\ procs[q].doc \notin Stored
          /\ \A r \in Procs \ {q} : Importing(procs[r]) => procs[r].doc # procs[q].doc
    /\ \A j \in Jobs : decided[j] # None => j \in Stored
    /\ \A q \in Procs, j \in Jobs \ exposed : Judged(procs[q], j) =>
          j \notin Concrete /\ decided[j] \notin {"interested", "applied"}

\* Steps after which nobody judges or imports what he did not before.
Quiet ==
    /\ Stored' = Stored /\ \A j \in Stored : jobs'[j].status = jobs[j].status
    /\ UNCHANGED <<decided, exposed>>
    /\ \A q \in Procs, j \in Jobs : Judged(procs'[q], j) => Judged(procs[q], j)
    /\ \A q \in Procs : Importing(procs'[q]) => procs'[q] = procs[q]

LEMMA QuietKeeps ==
    ASSUME UserInv, Quiet
    PROVE  UserInv'
<1>1. UserDecisionKept'
  BY DEF UserInv, UserDecisionKept, Quiet
<1>2. \A q \in Procs : Importing(procs'[q]) =>
          /\ procs'[q].doc \notin Stored'
          /\ \A r \in Procs \ {q} : Importing(procs'[r]) => procs'[r].doc # procs'[q].doc
  BY DEF UserInv, Quiet
<1>3. \A j \in Jobs : decided'[j] # None => j \in Stored'
  BY DEF UserInv, Quiet
<1>4. \A q \in Procs, j \in Jobs \ exposed' : Judged(procs'[q], j) =>
          j \notin Concrete /\ decided'[j] \notin {"interested", "applied"}
  BY DEF UserInv, Quiet
<1> QED
  BY <1>1, <1>2, <1>3, <1>4 DEF UserInv, Importing, Judged

LEMMA TurnedJudges ==
    ASSUME NEW l \in Proc, NEW m, Turned(l, m)
    PROVE  /\ ~Importing(m)
           /\ \A j : Judged(m, j) => l.op = "cleanup" /\ j \in {x.doc : x \in l.todo}
<1>1. CASE \E x \in l.todo :
        m = [l EXCEPT !.doc = x.doc, !.copy = x.copy, !.todo = @ \ {x},
                      !.pc = IF l.op = "rebuild" THEN "upsert" ELSE "read"]
  <2>1. PICK x \in l.todo :
        /\ m.doc = x.doc /\ m.todo = l.todo \ {x} /\ m.op = l.op
        /\ m.pc = IF l.op = "rebuild" THEN "upsert" ELSE "read"
    BY <1>1 DEF Proc
  <2> QED
    BY <2>1 DEF Judged, Importing
<1>2. CASE l.op = "rebuild" /\ m = [l EXCEPT !.pc = "learn"]
  BY <1>2 DEF Judged, Importing, Proc
<1>3. CASE m = Idle
  BY <1>3 DEF Judged, Importing, Idle
<1> QED
  BY <1>1, <1>2, <1>3 DEF Turned

\* The one that moves is quiet: all are.
LEMMA MovesQuietly ==
    ASSUME TypeOK, NEW p \in Procs, NEW m, procs' = [procs EXCEPT ![p] = m],
           ~Importing(m), \A j : Judged(m, j) => Judged(procs[p], j),
           UNCHANGED <<decided, exposed>>,
           Stored' = Stored, \A j \in Stored : jobs'[j].status = jobs[j].status
    PROVE  Quiet
  BY DEF Quiet, TypeOK

LEMMA UserStep ==
    ASSUME TypeOK, Shape, UserInv, [Next]_vars
    PROVE  UserInv'
<1>a. \A q \in Procs : procs[q] \in Proc /\ Fit(procs[q])
  BY DEF TypeOK, Shape
<1>b. Stored \subseteq Jobs /\ \A j \in Stored : jobs[j] \in Row
  BY DEF Stored, TypeOK
<1>c. ASSUME UNCHANGED jobs
      PROVE  Stored' = Stored /\ \A j \in Stored : jobs'[j].status = jobs[j].status
  BY <1>c DEF Stored
<1>d. ASSUME NEW p \in Procs, NEW m, \E pc \in {"reload", "log", "reread"} :
                 m = [procs[p] EXCEPT !.pc = pc]
      PROVE  ~Importing(m) /\ \A j : Judged(m, j) => Judged(procs[p], j)
  <2>1. /\ m.pc \in {"reload", "log", "reread"}
        /\ m.op = procs[p].op /\ m.todo = procs[p].todo
    BY <1>a, <1>d DEF Proc
  <2> QED
    BY <2>1 DEF Importing, Judged
<1>e. ASSUME NEW p \in Procs, Turn(p, procs[p]), UNCHANGED <<jobs, decided, exposed>>
      PROVE  Quiet
  <2>1. PICK m : Turned(procs[p], m) /\ procs' = [procs EXCEPT ![p] = m]
    BY <1>a, <1>e, TurnMoves
  <2>2. ~Importing(m) /\ \A j : Judged(m, j) => Judged(procs[p], j)
    BY <1>a, <2>1, TurnedJudges DEF Judged
  <2> QED
    BY <1>c, <1>e, <2>1, <2>2, MovesQuietly
<1>1. ASSUME NEW p \in Procs, Request(p)
      PROVE  UserInv'
  <2> DEFINE Fresh(l) ==
        /\ l.pc \notin {"idle", "update"} /\ l.todo = {}
        /\ (Importing(l) => l.doc \in Jobs \ (Stored \cup {Doc(q) : q \in Procs}))
        /\ (l.op = "cleanup" => l.pc = "list")
  <2>1. PICK l : Begin(p, l) /\ Fresh(l)
    <3>1. CASE \E j \in Jobs \ (Stored \cup {Doc(q) : q \in Procs}), s \in {"new", "manual_check"} :
            Begin(p, [Idle EXCEPT !.op = "import", !.pc = "write", !.doc = j, !.status = s])
      <4>1. PICK j \in Jobs \ (Stored \cup {Doc(q) : q \in Procs}), s \in {"new", "manual_check"} :
              Begin(p, [Idle EXCEPT !.op = "import", !.pc = "write", !.doc = j, !.status = s])
        BY <3>1
      <4>2. PICK l : l = [Idle EXCEPT !.op = "import", !.pc = "write", !.doc = j, !.status = s]
        OBVIOUS
      <4>3. l.op = "import" /\ l.pc = "write" /\ l.todo = {} /\ l.doc = j
        BY <4>2 DEF Idle
      <4>4. Fresh(l)
        BY <4>1, <4>3 DEF Importing
      <4> HIDE DEF Fresh
      <4> QED
        BY <4>1, <4>2, <4>4
    <3>2. CASE \E j \in Stored, s \in Choices :
            Begin(p, [Idle EXCEPT !.op = "status", !.pc = "read", !.doc = j, !.status = s])
      <4>1. PICK j \in Stored, s \in Choices :
              Begin(p, [Idle EXCEPT !.op = "status", !.pc = "read", !.doc = j, !.status = s])
        BY <3>2
      <4>2. PICK l : l = [Idle EXCEPT !.op = "status", !.pc = "read", !.doc = j, !.status = s]
        OBVIOUS
      <4>3. l.op = "status" /\ l.pc = "read" /\ l.todo = {}
        BY <4>2 DEF Idle
      <4>4. Fresh(l)
        BY <4>3 DEF Importing
      <4> HIDE DEF Fresh
      <4> QED
        BY <4>1, <4>2, <4>4
    <3>3. CASE \E j \in Stored, t \in Texts :
            Begin(p, [Idle EXCEPT !.op = "notes", !.pc = "write", !.doc = j, !.text = t])
      <4>1. PICK j \in Stored, t \in Texts :
              Begin(p, [Idle EXCEPT !.op = "notes", !.pc = "write", !.doc = j, !.text = t])
        BY <3>3
      <4>2. PICK l : l = [Idle EXCEPT !.op = "notes", !.pc = "write", !.doc = j, !.text = t]
        OBVIOUS
      <4>3. l.op = "notes" /\ l.pc = "write" /\ l.todo = {}
        BY <4>2 DEF Idle
      <4>4. Fresh(l)
        BY <4>3 DEF Importing
      <4> HIDE DEF Fresh
      <4> QED
        BY <4>1, <4>2, <4>4
    <3>4. CASE \E t \in Texts :
            Begin(p, [Idle EXCEPT !.op = "profile", !.pc = "write", !.doc = Profile, !.text = t])
      <4>1. PICK t \in Texts :
              Begin(p, [Idle EXCEPT !.op = "profile", !.pc = "write", !.doc = Profile, !.text = t])
        BY <3>4
      <4>2. PICK l : l = [Idle EXCEPT !.op = "profile", !.pc = "write", !.doc = Profile, !.text = t]
        OBVIOUS
      <4>3. l.op = "profile" /\ l.pc = "write" /\ l.todo = {}
        BY <4>2 DEF Idle
      <4>4. Fresh(l)
        BY <4>3 DEF Importing
      <4> HIDE DEF Fresh
      <4> QED
        BY <4>1, <4>2, <4>4
    <3>5. CASE Begin(p, [Idle EXCEPT !.op = "cleanup", !.pc = "list", !.status = "ignored"])
      <4>2. PICK l : l = [Idle EXCEPT !.op = "cleanup", !.pc = "list", !.status = "ignored"]
        OBVIOUS
      <4>3. l.op = "cleanup" /\ l.pc = "list" /\ l.todo = {}
        BY <4>2 DEF Idle
      <4>4. Fresh(l)
        BY <4>3 DEF Importing
      <4> HIDE DEF Fresh
      <4> QED
        BY <3>5, <4>2, <4>4
    <3>6. CASE Begin(p, [Idle EXCEPT !.op = "rebuild", !.pc = "list"])
      <4>2. PICK l : l = [Idle EXCEPT !.op = "rebuild", !.pc = "list"]
        OBVIOUS
      <4>3. l.op = "rebuild" /\ l.pc = "list" /\ l.todo = {}
        BY <4>2 DEF Idle
      <4>4. Fresh(l)
        BY <4>3 DEF Importing
      <4> HIDE DEF Fresh
      <4> QED
        BY <3>6, <4>2, <4>4
    <3> QED
      BY <1>1, <3>1, <3>2, <3>3, <3>4, <3>5, <3>6 DEF Request
  <2>2. procs' = [procs EXCEPT ![p] = l] /\ UNCHANGED <<jobs, decided, exposed>>
    BY <2>1 DEF Begin, Goto, tables, marks
  <2>3. \A j : ~Judged(l, j)
    BY <2>1 DEF Judged
  <2>4. CASE ~Importing(l)
    BY <1>c, <2>2, <2>3, <2>4, MovesQuietly, QuietKeeps
  <2>5. CASE Importing(l)
    <3>1. procs'[p] = l /\ \A q \in Procs \ {p} : procs'[q] = procs[q]
      BY <2>2 DEF TypeOK
    <3>2. Stored' = Stored /\ l.doc \notin Stored /\ \A q \in Procs : procs[q].doc # l.doc
      BY <1>c, <2>1, <2>2, <2>5 DEF Doc
    <3>3. UserDecisionKept'
      BY <2>2 DEF UserInv, UserDecisionKept
    <3> QED
      BY <2>2, <2>3, <3>1, <3>2, <3>3 DEF UserInv
  <2> QED
    BY <2>4, <2>5
<1>2. ASSUME NEW p \in Procs, InsertJob(p)
      PROVE  UserInv'
  <2>1. procs[p].pc = "write" /\ procs[p].op = "import" /\ procs[p].doc \in Jobs
    BY <1>a, <1>2 DEF InsertJob, Runs, At, Fit
  <2>2. procs[p].doc \notin Stored /\ decided[procs[p].doc] = None
    BY <2>1 DEF UserInv, Importing
  <2>3. PICK m : m = [procs[p] EXCEPT !.pc = "reload"]
    OBVIOUS
  <2>4. m.pc = "reload" /\ m.op = "import"
    BY <1>a, <2>1, <2>3 DEF Proc
  <2>5. procs'[p] = m /\ \A q \in Procs \ {p} : procs'[q] = procs[q]
    BY <1>2, <2>3, <2>4 DEF InsertJob, Goto, TypeOK
  <2>6. [status |-> StatusOf(p), notes |-> Blank] # None
    <3>1. [status |-> StatusOf(p), notes |-> Blank] \in Row
      BY <1>a, StoreAssumption DEF Row, StatusOf, Proc
    <3> QED
      BY <3>1, NoneAssumption
  <2>7. Stored' = Stored \cup {procs[p].doc}
        /\ \A j \in Stored : jobs'[j] = jobs[j]
    BY <1>2, <2>1, <2>2, <2>6 DEF InsertJob, Stored, Doc, TypeOK
  <2>8. UNCHANGED <<decided, exposed>>
    BY <1>2 DEF InsertJob
  <2>9. UserDecisionKept'
    BY <2>2, <2>7, <2>8 DEF UserInv, UserDecisionKept
  <2>10. \A q \in Procs : Importing(procs'[q]) =>
           /\ procs'[q].doc \notin Stored'
           /\ \A r \in Procs \ {q} : Importing(procs'[r]) => procs'[r].doc # procs'[q].doc
    BY <2>1, <2>4, <2>5, <2>7 DEF UserInv, Importing
  <2>11. \A q \in Procs, j \in Jobs : Judged(procs'[q], j) => Judged(procs[q], j)
    <3>1. \A j : ~Judged(m, j)
      BY <2>4 DEF Judged
    <3> QED
      BY <2>5, <3>1
  <2> QED
    BY <2>7, <2>8, <2>9, <2>10, <2>11 DEF UserInv, Importing, Judged
<1>3. ASSUME NEW p \in Procs, WriteNotes(p)
      PROVE  UserInv'
  <2>1. procs[p].doc \in Stored /\ procs[p].pc = "write" /\ procs[p].op = "notes"
    BY <1>a, <1>3, StoreAssumption DEF WriteNotes, Runs, At, Fit
  <2>2. PICK m : m = [procs[p] EXCEPT !.pc = "reload"]
    OBVIOUS
  <2>3. m.pc = "reload" /\ procs' = [procs EXCEPT ![p] = m]
    BY <1>a, <1>3, <2>2 DEF WriteNotes, Goto, Proc
  <2>4. [jobs[procs[p].doc] EXCEPT !.notes = procs[p].text] \in Row
        /\ [jobs[procs[p].doc] EXCEPT !.notes = procs[p].text].status = jobs[procs[p].doc].status
    BY <1>a, <1>b, <2>1 DEF Row, Proc
  <2>5. Stored' = Stored /\ \A j \in Stored : jobs'[j].status = jobs[j].status
    BY <1>3, <1>b, <2>1, <2>4, NoneAssumption DEF WriteNotes, Stored, Doc, TypeOK
  <2>6. UNCHANGED <<decided, exposed>>
    BY <1>3 DEF WriteNotes
  <2> QED
    BY <1>d, <2>2, <2>3, <2>5, <2>6, MovesQuietly, QuietKeeps
<1>4. ASSUME NEW p \in Procs, SaveCandidateProfile(p)
      PROVE  UserInv'
  <2>1. PICK m : m = [procs[p] EXCEPT !.pc = "reload"]
    OBVIOUS
  <2>2. procs' = [procs EXCEPT ![p] = m] /\ UNCHANGED <<jobs, decided, exposed>>
    BY <1>a, <1>4, <2>1 DEF SaveCandidateProfile, Goto, Proc
  <2> QED
    BY <1>c, <1>d, <2>1, <2>2, MovesQuietly, QuietKeeps
<1>5. ASSUME NEW p \in Procs, ReadStatus(p)
      PROVE  UserInv'
  <2>1. PICK m : m = [procs[p] EXCEPT !.from = jobs[Doc(p)].status, !.pc = "update"]
    OBVIOUS
  <2>2. m.pc = "update" /\ m.op = procs[p].op /\ m.doc = procs[p].doc /\ m.todo = procs[p].todo
    BY <1>a, <2>1 DEF Proc
  <2>3. procs' = [procs EXCEPT ![p] = m] /\ UNCHANGED <<jobs, decided, exposed>>
    BY <1>5, <2>1, <2>2 DEF ReadStatus, Goto, tables
  <2>4. ~Importing(m) /\ \A j : Judged(m, j) => Judged(procs[p], j)
    BY <1>5, <2>2 DEF Importing, Judged, ReadStatus, At
  <2> QED
    BY <1>c, <2>3, <2>4, MovesQuietly, QuietKeeps
<1>6. ASSUME NEW p \in Procs, UpdateStatus(p)
      PROVE  UserInv'
  <2>1. procs[p].doc \in Stored /\ procs[p].op \in {"status", "cleanup"}
        /\ procs[p].pc = "update" /\ procs[p].status \in Statuses
    BY <1>a, <1>6 DEF UpdateStatus, At, Fit, Proc
  <2> DEFINE d == procs[p].doc
  <2>2. /\ Stored' = Stored
        /\ jobs'[d].status = procs[p].status
        /\ \A j \in Stored \ {d} : jobs'[j].status = jobs[j].status
    <3>1. [jobs[d] EXCEPT !.status = procs[p].status] \in Row
          /\ [jobs[d] EXCEPT !.status = procs[p].status].status = procs[p].status
      BY <1>b, <2>1 DEF Row
    <3> QED
      BY <1>6, <1>b, <2>1, <3>1, NoneAssumption DEF UpdateStatus, Stored, TypeOK
  <2>3. \E m : /\ procs' = [procs EXCEPT ![p] = m] /\ ~Importing(m)
               /\ \A j : Judged(m, j) => Judged(procs[p], j)
    <3>1. CASE procs[p].from # procs[p].status
      <4>1. PICK m : m = [procs[p] EXCEPT !.pc = "log"]
        OBVIOUS
      <4>2. procs' = [procs EXCEPT ![p] = m]
        BY <1>6, <1>a, <3>1, <4>1 DEF UpdateStatus, Goto, Proc
      <4> QED
        BY <1>d, <4>1, <4>2
    <3>2. CASE procs[p].from = procs[p].status
      <4>1. Turn(p, procs[p])
        BY <1>6, <3>2 DEF UpdateStatus
      <4> QED
        BY <1>a, <4>1, TurnMoves, TurnedJudges DEF Judged
    <3> QED
      BY <3>1, <3>2
  <2>4. \A q \in Procs, j \in Jobs : Judged(procs'[q], j) => Judged(procs[q], j)
    BY <2>3 DEF TypeOK
  <2>5. \A q \in Procs : Importing(procs'[q]) => procs'[q] = procs[q]
    BY <2>3 DEF TypeOK
  <2>6. CASE procs[p].op = "status"
    <3>1. /\ decided' = [decided EXCEPT ![d] = procs[p].status]
          /\ exposed' = Add(exposed, d, \E q \in Procs : Judging(q, d))
      BY <1>6, <2>6 DEF UpdateStatus
    <3>2. decided'[d] = procs[p].status /\ \A j \in Jobs \ {d} : decided'[j] = decided[j]
      BY <1>b, <2>1, <3>1 DEF TypeOK
    <3>3. /\ \A j \in Jobs \ {d} : j \in exposed' <=> j \in exposed
          /\ d \notin exposed' => \A q \in Procs : ~Judged(procs[q], d)
      BY <3>1 DEF Add, Judging, Judged, Doc
    <3>4. UserDecisionKept'
      BY <2>1, <2>2, <3>2, <3>3 DEF UserInv, UserDecisionKept
    <3>5. \A j \in Jobs : decided'[j] # None => j \in Stored'
      BY <2>1, <2>2, <3>2 DEF UserInv
    <3>6. \A q \in Procs, j \in Jobs \ exposed' : Judged(procs'[q], j) =>
              j \notin Concrete /\ decided'[j] \notin {"interested", "applied"}
      BY <2>4, <3>2, <3>3 DEF UserInv
    <3>7. \A q \in Procs : Importing(procs'[q]) =>
              /\ procs'[q].doc \notin Stored'
              /\ \A r \in Procs \ {q} : Importing(procs'[r]) => procs'[r].doc # procs'[q].doc
      BY <2>2, <2>5 DEF UserInv
    <3> QED
      BY <3>4, <3>5, <3>6, <3>7 DEF UserInv, Importing, Judged
  <2>7. CASE procs[p].op = "cleanup"
    <3>1. UNCHANGED <<decided, exposed>>
      BY <1>6, <2>7 DEF UpdateStatus
    <3>2. Judged(procs[p], d)
      BY <2>1, <2>7 DEF Judged
    <3>3. d \in exposed \/ (d \notin Concrete /\ decided[d] \notin {"interested", "applied"})
      BY <1>b, <2>1, <3>2 DEF UserInv
    <3>4. UserDecisionKept'
      <4>1. ASSUME NEW j \in Jobs \ exposed, decided[j] # None,
                   j \in Concrete \/ decided[j] \in {"interested", "applied"}
            PROVE  jobs'[j].status = decided[j]
        <5>1. j # d /\ j \in Stored /\ jobs[j].status = decided[j]
          BY <3>3, <4>1 DEF UserInv, UserDecisionKept
        <5> QED
          BY <2>2, <5>1
      <4> QED
        BY <3>1, <4>1 DEF UserDecisionKept
    <3> QED
      BY <2>2, <2>4, <2>5, <3>1, <3>4 DEF UserInv, Importing, Judged
  <2> QED
    BY <2>1, <2>6, <2>7
<1>7. ASSUME NEW p \in Procs, RecordJobDecision(p)
      PROVE  UserInv'
  BY <1>7, <1>e, QuietKeeps DEF RecordJobDecision
<1>8. ASSUME NEW p \in Procs, ListJobs(p)
      PROVE  UserInv'
  <2>1. PICK l : l = [procs[p] EXCEPT !.todo =
              {[doc |-> j, copy |-> Current(j)] : j \in Selected(procs[p].op)}]
    OBVIOUS
  <2>2. /\ l \in Proc /\ l.op = procs[p].op /\ l.doc = procs[p].doc
        /\ {x.doc : x \in l.todo} = Selected(procs[p].op)
    <3>1. \A j \in Stored : Current(j) \in Version
      BY CurrentTyped
    <3>2. Selected(procs[p].op) \subseteq Stored
      BY DEF Selected, Visible
    <3> DEFINE list == {[doc |-> j, copy |-> Current(j)] : j \in Selected(procs[p].op)}
    <3>3. list \subseteq Listed
      BY <1>b, <3>1, <3>2 DEF Listed
    <3>4. {x.doc : x \in list} = Selected(procs[p].op)
      <4>1. \A x \in list : x.doc \in Selected(procs[p].op)
        OBVIOUS
      <4>2. \A j \in Selected(procs[p].op) :
              [doc |-> j, copy |-> Current(j)] \in list /\ [doc |-> j, copy |-> Current(j)].doc = j
        OBVIOUS
      <4> HIDE DEF list
      <4> QED
        BY <4>1, <4>2
    <3> HIDE DEF list
    <3>5. l = [procs[p] EXCEPT !.todo = list]
      BY <2>1 DEF list
    <3>6. /\ l \in Proc /\ l.op = procs[p].op /\ l.doc = procs[p].doc /\ l.todo = list
      BY <1>a, <3>3, <3>5 DEF Proc
    <3> QED
      BY <3>4, <3>6
  <2>3. PICK m : Turned(l, m) /\ procs' = [procs EXCEPT ![p] = m]
    BY <1>8, <2>1, <2>2, TurnMoves DEF ListJobs
  <2>4. /\ ~Importing(m)
        /\ \A j : Judged(m, j) => j \in Selected("cleanup")
    BY <2>2, <2>3, TurnedJudges
  <2>5. UNCHANGED <<jobs, decided, exposed>>
    BY <1>8 DEF ListJobs, tables
  <2>6. Stored' = Stored
    BY <1>c, <2>5
  <2>7. procs'[p] = m /\ \A q \in Procs \ {p} : procs'[q] = procs[q]
    BY <2>3 DEF TypeOK
  <2>8. ASSUME NEW j \in Jobs \ exposed, Judged(m, j)
        PROVE  j \notin Concrete /\ decided[j] \notin {"interested", "applied"}
    <3>1. j \notin Concrete /\ jobs[j].status \notin {"applied", "interested"}
      BY <2>4, <2>8 DEF Selected, Judges
    <3>2. decided[j] \in {"interested", "applied"} => jobs[j].status = decided[j]
      BY StoreAssumption DEF UserInv, UserDecisionKept, Statuses
    <3> QED
      BY <3>1, <3>2
  <2>9. UserDecisionKept'
    BY <2>5 DEF UserInv, UserDecisionKept
  <2>10. \A q \in Procs, j \in Jobs \ exposed' : Judged(procs'[q], j) =>
              j \notin Concrete /\ decided'[j] \notin {"interested", "applied"}
    BY <2>5, <2>7, <2>8 DEF UserInv
  <2>11. \A q \in Procs : Importing(procs'[q]) => procs'[q] = procs[q]
    BY <2>4, <2>7
  <2> QED
    BY <2>5, <2>6, <2>9, <2>10, <2>11 DEF UserInv, Importing, Judged
<1>9. ASSUME NEW p \in Procs, Reload(p) \/ Reread(p)
      PROVE  UserInv'
  <2>1. PICK m : \/ Reload(p) /\ m = [procs[p] EXCEPT !.copy = Reloaded(p), !.pc = "upsert"]
                 \/ Reread(p) /\ m = [procs[p] EXCEPT !.copy = memory[Doc(p)], !.pc = "put"]
    BY <1>9
  <2>2. m.pc \in {"upsert", "put"} /\ m.op = procs[p].op /\ m.todo = procs[p].todo
    BY <1>a, <2>1 DEF Proc
  <2>3. procs' = [procs EXCEPT ![p] = m] /\ UNCHANGED <<jobs, decided, exposed>>
    BY <2>1, <2>2 DEF Reload, Reread, Goto, tables, marks
  <2>4. ~Importing(m) /\ \A j : Judged(m, j) => Judged(procs[p], j)
    BY <2>2 DEF Importing, Judged
  <2> QED
    BY <1>c, <2>3, <2>4, MovesQuietly, QuietKeeps
<1>10. ASSUME NEW p \in Procs, UpsertSemanticMemoryItem(p)
       PROVE  UserInv'
  <2>1. UNCHANGED <<jobs, decided, exposed>>
    BY <1>10 DEF UpsertSemanticMemoryItem
  <2>2. CASE Qdrant
    <3>1. PICK m : m = [procs[p] EXCEPT !.pc = "reread"]
      OBVIOUS
    <3>2. procs' = [procs EXCEPT ![p] = m]
      BY <1>10, <1>a, <2>2, <3>1 DEF UpsertSemanticMemoryItem, Goto, Proc
    <3> QED
      BY <1>c, <1>d, <2>1, <3>1, <3>2, MovesQuietly, QuietKeeps
  <2>3. CASE ~Qdrant
    BY <1>10, <1>e, <2>1, <2>3, QuietKeeps DEF UpsertSemanticMemoryItem
  <2> QED
    BY <2>2, <2>3
<1>11. ASSUME NEW p \in Procs, Put(p) \/ LosePut(p)
       PROVE  UserInv'
  BY <1>11, <1>e, QuietKeeps DEF Put, LosePut, tables
<1>12. ASSUME NEW p \in Procs, Learn(p)
       PROVE  UserInv'
  <2>1. PICK m : procs' = [procs EXCEPT ![p] = m] /\ (m = Idle \/ m.op = "rebuild")
    <3>1. procs[p].op = "rebuild"
      BY <1>12, <1>a DEF Learn, At, Fit
    <3>2. CASE Scanned = 0
      BY <1>12, <3>2 DEF Learn, Goto
    <3>3. CASE Scanned # 0
      <4>1. PICK m : m = [procs[p] EXCEPT !.doc = Reflection, !.copy = Current(Reflection),
                                          !.pc = "upsert"]
        OBVIOUS
      <4>2. m.pc = "upsert" /\ m.op = "rebuild"
        BY <1>a, <3>1, <4>1 DEF Proc
      <4> QED
        BY <1>12, <3>3, <4>1, <4>2 DEF Learn, Goto
    <3> QED
      BY <3>2, <3>3
  <2>2. ~Importing(m) /\ \A j : ~Judged(m, j)
    BY <2>1 DEF Importing, Judged, Idle
  <2>3. UNCHANGED <<jobs, decided, exposed>>
    BY <1>12 DEF Learn, tables
  <2> QED
    BY <1>c, <2>1, <2>2, <2>3, MovesQuietly, QuietKeeps
<1>13. ASSUME NEW ps \in SUBSET Procs, Stop(ps)
       PROVE  UserInv'
  <2>1. \A q \in Procs : procs'[q] = Idle \/ procs'[q] = procs[q]
    BY <1>13 DEF Stop
  <2>2. ~Importing(Idle) /\ \A j : ~Judged(Idle, j)
    BY DEF Importing, Judged, Idle
  <2>3. UNCHANGED <<jobs, decided, exposed>>
    BY <1>13 DEF Stop, tables
  <2>4. Quiet
    BY <1>c, <2>1, <2>2, <2>3 DEF Quiet
  <2> QED
    BY <2>4, QuietKeeps
<1>14. CASE UNCHANGED vars
  <2>1. UNCHANGED <<jobs, procs, decided, exposed>>
    BY <1>14 DEF vars, tables, marks
  <2>2. Quiet
    BY <1>c, <2>1 DEF Quiet
  <2> QED
    BY <2>2, QuietKeeps
<1> QED
  BY <1>1, <1>2, <1>3, <1>4, <1>5, <1>6, <1>7, <1>8, <1>9, <1>10, <1>11, <1>12, <1>13,
     <1>14 DEF Next, Step, Fail, Restart

LEMMA UserInit == Init => UserInv
  BY DEF Init, UserInv, UserDecisionKept, Importing, Judged, Idle

\* A cleanup overrules the user only on a job he judged while the cleanup was
\* about to.
THEOREM UserRespected == Spec => []UserDecisionKept
<1>1. TypeOK /\ Shape /\ UserInv /\ [Next]_vars => UserInv'
  BY UserStep
<1>2. UserInv => UserDecisionKept
  BY DEF UserInv
<1> QED
  BY <1>1, <1>2, UserInit, ShapeInvariant, PTL DEF Spec
-----------------------------------------------------------------------------
(* Where each step leaves the goroutine that takes it.                     *)

Same(l, m) ==
    m.op = l.op /\ m.doc = l.doc /\ m.status = l.status /\ m.todo = l.todo

LEMMA Ready ==
    ASSUME TypeOK, Shape, NEW p \in Procs
    PROVE  /\ procs[p] \in Proc /\ Fit(procs[p])
           /\ \A m : procs' = [procs EXCEPT ![p] = m] =>
                  procs'[p] = m /\ \A q \in Procs \ {p} : procs'[q] = procs[q]
  BY DEF TypeOK, Shape

LEMMA RequestGoes ==
    ASSUME TypeOK, Shape, NEW p \in Procs, Request(p)
    PROVE  /\ UNCHANGED <<tables, marks>>
           /\ procs'[p].pc \in {"write", "read", "list"} /\ procs'[p].todo = {}
           /\ procs'[p].doc # Reflection
           /\ procs'[p].op = "import" => procs'[p].status \in {"new", "manual_check"}
           /\ \A q \in Procs \ {p} : procs'[q] = procs[q]
<1>a. ASSUME NEW l, Begin(p, l), l.pc \in {"write", "read", "list"}, l.todo = {},
             l.doc # Reflection, l.op = "import" => l.status \in {"new", "manual_check"}
      PROVE  /\ UNCHANGED <<tables, marks>>
             /\ procs'[p].pc \in {"write", "read", "list"} /\ procs'[p].todo = {}
             /\ procs'[p].doc # Reflection
             /\ procs'[p].op = "import" => procs'[p].status \in {"new", "manual_check"}
             /\ \A q \in Procs \ {p} : procs'[q] = procs[q]
  <2>1. procs' = [procs EXCEPT ![p] = l] /\ UNCHANGED <<tables, marks>>
    BY <1>a DEF Begin, Goto
  <2>2. procs'[p] = l /\ \A q \in Procs \ {p} : procs'[q] = procs[q]
    BY <2>1, Ready
  <2> QED
    BY <1>a, <2>1, <2>2
<1>1. CASE \E j \in Jobs \ (Stored \cup {Doc(q) : q \in Procs}), s \in {"new", "manual_check"} :
             Begin(p, [Idle EXCEPT !.op = "import", !.pc = "write", !.doc = j, !.status = s])
  <2>1. PICK j \in Jobs, s \in {"new", "manual_check"} :
             Begin(p, [Idle EXCEPT !.op = "import", !.pc = "write", !.doc = j, !.status = s])
    BY <1>1
  <2>2. PICK l : l = [Idle EXCEPT !.op = "import", !.pc = "write", !.doc = j, !.status = s]
    OBVIOUS
  <2>3. l.pc = "write" /\ l.todo = {} /\ l.doc # Reflection
        /\ (l.op = "import" => l.status \in {"new", "manual_check"})
    BY <2>2, StoreAssumption DEF Idle
  <2> QED
    BY <1>a, <2>1, <2>2, <2>3
<1>2. CASE \E j \in Stored, s \in Choices :
             Begin(p, [Idle EXCEPT !.op = "status", !.pc = "read", !.doc = j, !.status = s])
  <2>1. PICK j \in Stored, s \in Choices :
             Begin(p, [Idle EXCEPT !.op = "status", !.pc = "read", !.doc = j, !.status = s])
    BY <1>2
  <2>2. PICK l : l = [Idle EXCEPT !.op = "status", !.pc = "read", !.doc = j, !.status = s]
    OBVIOUS
  <2>3. l.pc = "read" /\ l.todo = {} /\ l.doc # Reflection
        /\ (l.op = "import" => l.status \in {"new", "manual_check"})
    BY <2>2, StoreAssumption DEF Idle, Stored
  <2> QED
    BY <1>a, <2>1, <2>2, <2>3
<1>3. CASE \E j \in Stored, t \in Texts :
             Begin(p, [Idle EXCEPT !.op = "notes", !.pc = "write", !.doc = j, !.text = t])
  <2>1. PICK j \in Stored, t \in Texts :
             Begin(p, [Idle EXCEPT !.op = "notes", !.pc = "write", !.doc = j, !.text = t])
    BY <1>3
  <2>2. PICK l : l = [Idle EXCEPT !.op = "notes", !.pc = "write", !.doc = j, !.text = t]
    OBVIOUS
  <2>3. l.pc = "write" /\ l.todo = {} /\ l.doc # Reflection
        /\ (l.op = "import" => l.status \in {"new", "manual_check"})
    BY <2>2, StoreAssumption DEF Idle, Stored
  <2> QED
    BY <1>a, <2>1, <2>2, <2>3
<1>4. CASE \E t \in Texts :
             Begin(p, [Idle EXCEPT !.op = "profile", !.pc = "write", !.doc = Profile, !.text = t])
  <2>1. PICK t \in Texts :
             Begin(p, [Idle EXCEPT !.op = "profile", !.pc = "write", !.doc = Profile, !.text = t])
    BY <1>4
  <2>2. PICK l : l = [Idle EXCEPT !.op = "profile", !.pc = "write", !.doc = Profile, !.text = t]
    OBVIOUS
  <2>3. l.pc = "write" /\ l.todo = {} /\ l.doc # Reflection
        /\ (l.op = "import" => l.status \in {"new", "manual_check"})
    BY <2>2, StoreAssumption DEF Idle
  <2> QED
    BY <1>a, <2>1, <2>2, <2>3
<1>5. CASE Begin(p, [Idle EXCEPT !.op = "cleanup", !.pc = "list", !.status = "ignored"])
  <2>1. PICK l : l = [Idle EXCEPT !.op = "cleanup", !.pc = "list", !.status = "ignored"]
    OBVIOUS
  <2>2. l.pc = "list" /\ l.todo = {} /\ l.doc # Reflection
        /\ (l.op = "import" => l.status \in {"new", "manual_check"})
    BY <2>1, StoreAssumption DEF Idle
  <2> QED
    BY <1>a, <1>5, <2>1, <2>2
<1>6. CASE Begin(p, [Idle EXCEPT !.op = "rebuild", !.pc = "list"])
  <2>1. PICK l : l = [Idle EXCEPT !.op = "rebuild", !.pc = "list"]
    OBVIOUS
  <2>2. l.pc = "list" /\ l.todo = {} /\ l.doc # Reflection
        /\ (l.op = "import" => l.status \in {"new", "manual_check"})
    BY <2>1, StoreAssumption DEF Idle
  <2> QED
    BY <1>a, <1>6, <2>1, <2>2
<1> QED
  BY <1>1, <1>2, <1>3, <1>4, <1>5, <1>6 DEF Request

LEMMA WriteGoes ==
    ASSUME TypeOK, Shape, NEW p \in Procs,
           InsertJob(p) \/ WriteNotes(p) \/ SaveCandidateProfile(p)
    PROVE  /\ procs[p].pc = "write" /\ procs[p].op \in {"import", "notes", "profile"}
           /\ Same(procs[p], procs'[p]) /\ procs'[p].pc = "reload"
           /\ \A q \in Procs \ {p} : procs'[q] = procs[q]
<1>1. procs[p].pc = "write" /\ procs[p].op \in {"import", "notes", "profile"}
  BY DEF InsertJob, WriteNotes, SaveCandidateProfile, Runs, At
<1>2. PICK m : m = [procs[p] EXCEPT !.pc = "reload"]
  OBVIOUS
<1>3. Same(procs[p], m) /\ m.pc = "reload"
  BY <1>2, Ready DEF Same, Proc
<1>4. procs' = [procs EXCEPT ![p] = m]
  BY <1>2, <1>3 DEF InsertJob, WriteNotes, SaveCandidateProfile, Goto
<1> QED
  BY <1>1, <1>3, <1>4, Ready

LEMMA ReadGoes ==
    ASSUME TypeOK, Shape, NEW p \in Procs, ReadStatus(p)
    PROVE  /\ procs[p].pc = "read"
           /\ Same(procs[p], procs'[p]) /\ procs'[p].pc = "update"
           /\ procs'[p].from = jobs[procs[p].doc].status
           /\ \A q \in Procs \ {p} : procs'[q] = procs[q]
<1>1. procs[p].pc = "read"
  BY DEF ReadStatus, At
<1>2. PICK m : m = [procs[p] EXCEPT !.from = jobs[Doc(p)].status, !.pc = "update"]
  OBVIOUS
<1>3. Same(procs[p], m) /\ m.pc = "update" /\ m.from = jobs[procs[p].doc].status
  BY <1>2, Ready DEF Same, Proc, Doc
<1>4. procs' = [procs EXCEPT ![p] = m]
  BY <1>2, <1>3 DEF ReadStatus, Goto
<1> QED
  BY <1>1, <1>3, <1>4, Ready

LEMMA UpdateGoes ==
    ASSUME TypeOK, Shape, NEW p \in Procs, UpdateStatus(p), procs[p].from # procs[p].status
    PROVE  /\ procs[p].pc = "update"
           /\ Same(procs[p], procs'[p]) /\ procs'[p].pc = "log"
           /\ procs'[p].from = procs[p].from
           /\ \A q \in Procs \ {p} : procs'[q] = procs[q]
<1>1. procs[p].pc = "update"
  BY DEF UpdateStatus, At
<1>2. PICK m : m = [procs[p] EXCEPT !.pc = "log"]
  OBVIOUS
<1>3. Same(procs[p], m) /\ m.pc = "log" /\ m.from = procs[p].from
  BY <1>2, Ready DEF Same, Proc
<1>4. procs' = [procs EXCEPT ![p] = m]
  BY <1>2, <1>3 DEF UpdateStatus, Goto
<1> QED
  BY <1>1, <1>3, <1>4, Ready

\* What it does next, and what it holds then, is of its list.
OfList(l, m) ==
    /\ m.op \in {l.op, "none"} /\ m.pc \in {"idle", "learn", "upsert", "read"}
    /\ m.todo \subseteq l.todo
    /\ m.pc \in {"upsert", "read"} =>
          m.op = l.op /\ \E x \in l.todo : m.doc = x.doc /\ m.copy = x.copy /\ m.todo = l.todo \ {x}
    /\ m.pc = "upsert" <=> (l.op = "rebuild" /\ l.todo # {})
    /\ m.pc = "learn" => l.op = "rebuild" /\ l.todo = {}
    /\ m.pc = "learn" => m.op = l.op /\ m.doc = l.doc
    /\ m.pc = "idle" => m = Idle

LEMMA TurnedOfList ==
    ASSUME NEW l \in Proc, NEW m, Turned(l, m)
    PROVE  OfList(l, m)
<1>1. CASE \E x \in l.todo :
        m = [l EXCEPT !.doc = x.doc, !.copy = x.copy, !.todo = @ \ {x},
                      !.pc = IF l.op = "rebuild" THEN "upsert" ELSE "read"]
  <2>1. PICK x \in l.todo :
        /\ m.doc = x.doc /\ m.copy = x.copy /\ m.todo = l.todo \ {x} /\ m.op = l.op
        /\ m.pc = IF l.op = "rebuild" THEN "upsert" ELSE "read"
    BY <1>1 DEF Proc
  <2> QED
    BY <2>1 DEF OfList
<1>2. CASE l.todo = {} /\ l.op = "rebuild" /\ m = [l EXCEPT !.pc = "learn"]
  <2>1. m.pc = "learn" /\ m.op = l.op /\ m.todo = l.todo /\ m.doc = l.doc
    BY <1>2 DEF Proc
  <2> QED
    BY <1>2, <2>1 DEF OfList
<1>3. CASE l.todo = {} /\ m = Idle
  <2>1. m.pc = "idle" /\ m.op = "none" /\ m.todo = {}
    BY <1>3 DEF Idle
  <2> QED
    BY <1>3, <2>1 DEF OfList
<1> QED
  BY <1>1, <1>2, <1>3 DEF Turned

LEMMA TurnGoes ==
    ASSUME TypeOK, Shape, NEW p \in Procs, Turn(p, procs[p])
    PROVE  /\ OfList(procs[p], procs'[p])
           /\ \A q \in Procs \ {p} : procs'[q] = procs[q]
<1>1. PICK m : Turned(procs[p], m) /\ procs' = [procs EXCEPT ![p] = m]
  BY TurnMoves, Ready
<1> QED
  BY <1>1, TurnedOfList, Ready

LEMMA ListGoes ==
    ASSUME TypeOK, Shape, NEW p \in Procs, ListJobs(p)
    PROVE  /\ procs[p].pc = "list" /\ procs[p].op \in {"cleanup", "rebuild"}
           /\ \E l \in Proc :
                /\ OfList(l, procs'[p]) /\ l.op = procs[p].op /\ l.doc = None
                /\ \A x \in l.todo : x.doc \in Selected(l.op) /\ x.copy = Current(x.doc)
                /\ \A j \in Selected(l.op) :
                      \E x \in l.todo : x.doc = j /\ x.copy = Current(j)
           /\ \A q \in Procs \ {p} : procs'[q] = procs[q]
<1>1. procs[p] \in Proc /\ procs[p].pc = "list"
      /\ procs[p].op \in {"cleanup", "rebuild"} /\ procs[p].doc = None
  BY Ready DEF ListJobs, At, Fit
<1> DEFINE list == {[doc |-> j, copy |-> Current(j)] : j \in Selected(procs[p].op)}
<1>2. list \subseteq Listed
  <2>1. Selected(procs[p].op) \subseteq Stored /\ Stored \subseteq Jobs
    BY DEF Selected, Visible, Stored
  <2>2. \A j \in Stored : Current(j) \in Version
    BY CurrentTyped
  <2> QED
    BY <2>1, <2>2 DEF Listed
<1>3. \A x \in list : x.doc \in Selected(procs[p].op) /\ x.copy = Current(x.doc)
  OBVIOUS
<1>4. \A j \in Selected(procs[p].op) : \E x \in list : x.doc = j /\ x.copy = Current(j)
  <2>1. ASSUME NEW j \in Selected(procs[p].op)
        PROVE  \E x \in list : x.doc = j /\ x.copy = Current(j)
    <3>1. PICK x : x = [doc |-> j, copy |-> Current(j)]
      OBVIOUS
    <3>2. x \in list /\ x.doc = j /\ x.copy = Current(j)
      BY <3>1
    <3> QED
      BY <3>2
  <2> QED
    BY <2>1
<1>5. PICK l : l = [procs[p] EXCEPT !.todo = list]
  OBVIOUS
<1>6. Turn(p, l)
  BY <1>5 DEF ListJobs
<1> HIDE DEF list
<1>7. l \in Proc /\ l.op = procs[p].op /\ l.doc = None /\ l.todo = list
  BY <1>1, <1>2, <1>5 DEF Proc
<1>8. PICK m : Turned(l, m) /\ procs' = [procs EXCEPT ![p] = m]
  BY <1>6, <1>7, TurnMoves
<1>9. procs'[p] = m /\ OfList(l, m) /\ \A q \in Procs \ {p} : procs'[q] = procs[q]
  BY <1>7, <1>8, TurnedOfList, Ready
<1> QED
  BY <1>1, <1>3, <1>4, <1>7, <1>9

LEMMA StoreGoes ==
    ASSUME TypeOK, Shape, NEW p \in Procs
    PROVE  /\ Reload(p) =>
                /\ procs[p].pc = "reload" /\ procs[p].op \in {"import", "notes", "profile"}
                /\ Same(procs[p], procs'[p]) /\ procs'[p].pc = "upsert"
                /\ procs'[p].copy = Current(procs[p].doc)
           /\ UpsertSemanticMemoryItem(p) /\ Qdrant =>
                /\ procs[p].pc = "upsert"
                /\ Same(procs[p], procs'[p]) /\ procs'[p].pc = "reread"
           /\ Reread(p) =>
                /\ procs[p].pc = "reread"
                /\ Same(procs[p], procs'[p]) /\ procs'[p].pc = "put"
                /\ procs'[p].copy = memory[procs[p].doc]
           /\ Learn(p) =>
                /\ procs[p].pc = "learn" /\ procs[p].op = "rebuild" /\ procs[p].todo = {}
                /\ \/ procs'[p] = Idle
                   \/ /\ procs'[p].pc = "upsert" /\ procs'[p].doc = Reflection
                      /\ procs'[p].op = "rebuild" /\ procs'[p].todo = {}
                      /\ procs'[p].copy = Current(Reflection)
           /\ Reload(p) \/ (UpsertSemanticMemoryItem(p) /\ Qdrant) \/ Reread(p) \/ Learn(p) =>
                \A q \in Procs \ {p} : procs'[q] = procs[q]
<1>a. procs[p] \in Proc /\ Fit(procs[p])
  BY Ready
<1>1. ASSUME Reload(p)
      PROVE  /\ procs[p].pc = "reload" /\ procs[p].op \in {"import", "notes", "profile"}
             /\ Same(procs[p], procs'[p]) /\ procs'[p].pc = "upsert"
             /\ procs'[p].copy = Current(procs[p].doc)
             /\ \A q \in Procs \ {p} : procs'[q] = procs[q]
  <2>1. procs[p].pc = "reload" /\ procs[p].op \in {"import", "notes", "profile"}
    BY <1>a, <1>1 DEF Reload, At, Fit
  <2>2. PICK m : m = [procs[p] EXCEPT !.copy = Reloaded(p), !.pc = "upsert"]
    OBVIOUS
  <2>3. Same(procs[p], m) /\ m.pc = "upsert" /\ m.copy = Reloaded(p)
    BY <1>a, <2>2 DEF Same, Proc
  <2>4. procs' = [procs EXCEPT ![p] = m]
    BY <1>1, <2>2, <2>3 DEF Reload, Goto
  <2> QED
    BY <2>1, <2>3, <2>4, Ready DEF Reloaded, Doc
<1>2. ASSUME UpsertSemanticMemoryItem(p), Qdrant
      PROVE  /\ procs[p].pc = "upsert"
             /\ Same(procs[p], procs'[p]) /\ procs'[p].pc = "reread"
             /\ \A q \in Procs \ {p} : procs'[q] = procs[q]
  <2>1. procs[p].pc = "upsert"
    BY <1>2 DEF UpsertSemanticMemoryItem, At
  <2>2. PICK m : m = [procs[p] EXCEPT !.pc = "reread"]
    OBVIOUS
  <2>3. Same(procs[p], m) /\ m.pc = "reread"
    BY <1>a, <2>2 DEF Same, Proc
  <2>4. procs' = [procs EXCEPT ![p] = m]
    BY <1>2, <2>2, <2>3 DEF UpsertSemanticMemoryItem, Goto
  <2> QED
    BY <2>1, <2>3, <2>4, Ready
<1>3. ASSUME Reread(p)
      PROVE  /\ procs[p].pc = "reread"
             /\ Same(procs[p], procs'[p]) /\ procs'[p].pc = "put"
             /\ procs'[p].copy = memory[procs[p].doc]
             /\ \A q \in Procs \ {p} : procs'[q] = procs[q]
  <2>1. procs[p].pc = "reread"
    BY <1>3 DEF Reread, At
  <2>2. PICK m : m = [procs[p] EXCEPT !.copy = memory[Doc(p)], !.pc = "put"]
    OBVIOUS
  <2>3. Same(procs[p], m) /\ m.pc = "put" /\ m.copy = memory[procs[p].doc]
    BY <1>a, <2>2 DEF Same, Proc, Doc
  <2>4. procs' = [procs EXCEPT ![p] = m]
    BY <1>3, <2>2, <2>3 DEF Reread, Goto
  <2> QED
    BY <2>1, <2>3, <2>4, Ready
<1>4. ASSUME Learn(p)
      PROVE  /\ procs[p].pc = "learn" /\ procs[p].op = "rebuild" /\ procs[p].todo = {}
             /\ \/ procs'[p] = Idle
                \/ /\ procs'[p].pc = "upsert" /\ procs'[p].doc = Reflection
                   /\ procs'[p].op = "rebuild" /\ procs'[p].todo = {}
                   /\ procs'[p].copy = Current(Reflection)
             /\ \A q \in Procs \ {p} : procs'[q] = procs[q]
  <2>1. procs[p].pc = "learn" /\ procs[p].op = "rebuild" /\ procs[p].todo = {}
    BY <1>a, <1>4 DEF Learn, At, Fit
  <2>2. CASE Scanned = 0
    <3>1. procs' = [procs EXCEPT ![p] = Idle]
      BY <1>4, <2>2 DEF Learn, Goto
    <3> QED
      BY <2>1, <3>1, Ready
  <2>3. CASE Scanned # 0
    <3>1. PICK m : m = [procs[p] EXCEPT !.doc = Reflection, !.copy = Current(Reflection),
                                        !.pc = "upsert"]
      OBVIOUS
    <3>2. /\ m.pc = "upsert" /\ m.doc = Reflection /\ m.op = "rebuild" /\ m.todo = {}
          /\ m.copy = Current(Reflection)
      BY <1>a, <2>1, <3>1 DEF Proc
    <3>3. procs' = [procs EXCEPT ![p] = m]
      BY <1>4, <2>3, <3>1, <3>2 DEF Learn, Goto
    <3> QED
      BY <2>1, <3>2, <3>3, Ready
  <2> QED
    BY <2>2, <2>3
<1> QED
  BY <1>1, <1>2, <1>3, <1>4

-----------------------------------------------------------------------------
(* A search finds what is remembered.                                      *)

Telling(l, d) == l.doc = d /\ l.pc \in {"reread", "put"}

\* A document whose points are in order is about to be told what is stored.
PointInv ==
    Qdrant => \A d \in Docs \ unindexed :
        /\ \A q \in Procs : procs[q].doc = d /\ procs[q].pc = "put" => procs[q].copy = memory[d]
        /\ (~\E q \in Procs : Telling(procs[q], d)) => index[d] = memory[d]

\* Steps after which who told Qdrant of a document still does, and nobody new
\* has a point of it.
LEMMA SearchQuiet ==
    ASSUME PointInv, UNCHANGED <<memory, index>>, unindexed \subseteq unindexed',
           \A q \in Procs, d \in Docs \ unindexed' :
               Telling(procs[q], d) => Telling(procs'[q], d),
           \A q \in Procs : procs'[q].pc = "put" => procs'[q] = procs[q]
    PROVE  PointInv'
  BY DEF PointInv, Telling

LEMMA PointStep ==
    ASSUME TypeOK, Shape, PointInv, [Next]_vars
    PROVE  PointInv'
<1>a. \A q \in Procs : procs[q] \in Proc /\ Fit(procs[q])
  BY Ready
<1>b. ASSUME NEW p \in Procs, procs[p].pc \notin {"reread", "put"}, procs'[p].pc # "put",
             \A q \in Procs \ {p} : procs'[q] = procs[q],
             UNCHANGED <<memory, index, unindexed>>
      PROVE  PointInv'
  BY <1>b, SearchQuiet DEF Telling
<1>1. ASSUME NEW p \in Procs, Request(p)
      PROVE  PointInv'
  BY <1>1, <1>a, <1>b, RequestGoes DEF Request, Begin, At, tables, marks
<1>2. ASSUME NEW p \in Procs, InsertJob(p) \/ WriteNotes(p) \/ SaveCandidateProfile(p)
      PROVE  PointInv'
  <2>1. UNCHANGED <<memory, index, unindexed>>
    BY <1>2 DEF InsertJob, WriteNotes, SaveCandidateProfile
  <2> QED
    BY <1>2, <1>b, <2>1, WriteGoes
<1>3. ASSUME NEW p \in Procs, ReadStatus(p)
      PROVE  PointInv'
  <2>1. UNCHANGED <<memory, index, unindexed>>
    BY <1>3 DEF ReadStatus, tables
  <2> QED
    BY <1>3, <1>b, <2>1, ReadGoes
<1>4. ASSUME NEW p \in Procs, UpdateStatus(p) \/ RecordJobDecision(p)
      PROVE  PointInv'
  <2>1. UNCHANGED <<memory, index, unindexed>>
    BY <1>4 DEF UpdateStatus, RecordJobDecision
  <2>2. procs[p].pc \in {"update", "log"}
    BY <1>4 DEF UpdateStatus, RecordJobDecision, At
  <2>3. CASE UpdateStatus(p) /\ procs[p].from # procs[p].status
    BY <1>b, <2>1, <2>2, <2>3, UpdateGoes
  <2>4. CASE Turn(p, procs[p])
    BY <1>b, <2>1, <2>2, <2>4, TurnGoes DEF OfList
  <2> QED
    BY <1>4, <2>3, <2>4 DEF UpdateStatus, RecordJobDecision
<1>5. ASSUME NEW p \in Procs, ListJobs(p)
      PROVE  PointInv'
  <2>1. UNCHANGED <<memory, index, unindexed>>
    BY <1>5 DEF ListJobs, tables
  <2> QED
    BY <1>5, <1>b, <2>1, ListGoes DEF OfList
<1>6. ASSUME NEW p \in Procs, Reload(p) \/ Learn(p)
      PROVE  PointInv'
  <2>1. UNCHANGED <<memory, index, unindexed>>
    BY <1>6 DEF Reload, Learn, tables, marks
  <2>2. procs[p].pc \in {"reload", "learn"} /\ procs'[p].pc \in {"upsert", "idle"}
    BY <1>6, StoreGoes DEF Idle
  <2> QED
    BY <1>6, <1>b, <2>1, <2>2, StoreGoes
<1>7. ASSUME NEW p \in Procs, UpsertSemanticMemoryItem(p)
      PROVE  PointInv'
  <2>1. SUFFICES ASSUME Qdrant
                 PROVE  PointInv'
    BY DEF PointInv
  <2> DEFINE d == procs[p].doc
  <2>2. /\ procs[p].pc = "upsert" /\ procs'[p].pc = "reread" /\ procs'[p].doc = d
        /\ \A q \in Procs \ {p} : procs'[q] = procs[q]
    BY <1>7, <2>1, StoreGoes DEF Same
  <2>3. UNCHANGED index /\ \A e \in Docs \ {d} : memory'[e] = memory[e]
    BY <1>7 DEF UpsertSemanticMemoryItem, TypeOK
  <2>4. unindexed \subseteq unindexed'
        /\ (d \in unindexed' \/ ~\E q \in Procs \ {p} : Points(q, d) # {})
    BY <1>7 DEF UpsertSemanticMemoryItem, Others
  <2>5. \A q \in Procs \ {p} : procs[q].pc = "put" /\ procs[q].doc = d => Points(q, d) # {}
    BY DEF Points, At, Doc
  <2> QED
    BY <2>2, <2>3, <2>4, <2>5 DEF PointInv, Telling
<1>8. ASSUME NEW p \in Procs, Reread(p)
      PROVE  PointInv'
  <2>1. UNCHANGED <<memory, index, unindexed>>
    BY <1>8 DEF Reread, tables, marks
  <2>2. /\ procs[p].pc = "reread" /\ procs'[p].pc = "put" /\ procs'[p].doc = procs[p].doc
        /\ procs'[p].copy = memory[procs[p].doc]
        /\ \A q \in Procs \ {p} : procs'[q] = procs[q]
    BY <1>8, StoreGoes DEF Same
  <2> QED
    BY <2>1, <2>2 DEF PointInv, Telling
<1>9. ASSUME NEW p \in Procs, Put(p)
      PROVE  PointInv'
  <2> DEFINE d == procs[p].doc
  <2>1. procs[p].pc = "put" /\ procs'[p].pc \notin {"reread", "put"}
        /\ \A q \in Procs \ {p} : procs'[q] = procs[q]
    BY <1>9, TurnGoes DEF Put, At, OfList
  <2>2. d \in Docs
    BY <1>a, <2>1 DEF Fit, Docs, Stored
  <2>3. UNCHANGED memory /\ index'[d] = procs[p].copy /\ \A e \in Docs \ {d} : index'[e] = index[e]
    BY <1>9, <2>2 DEF Put, PutPoint, Doc, TypeOK
  <2>4. /\ unindexed \ {d} \subseteq unindexed'
        /\ d \in unindexed /\ d \notin unindexed' =>
              /\ procs[p].copy = memory[d]
              /\ \A q \in Procs \ {p} : Points(q, d) \subseteq {procs[p].copy}
    BY <1>9 DEF Put, Doc, Others
  <2>5. \A q \in Procs : procs[q].pc = "put" /\ procs[q].doc = d => procs[q].copy \in Points(q, d)
    BY DEF Points, At, Doc
  <2>6. ASSUME Qdrant, d \notin unindexed'
        PROVE  procs[p].copy = memory[d]
               /\ \A q \in Procs : procs[q].pc = "put" /\ procs[q].doc = d => procs[q].copy = memory[d]
    BY <2>1, <2>2, <2>4, <2>5, <2>6 DEF PointInv
  <2>7. ASSUME Qdrant, NEW e \in Docs \ unindexed'
        PROVE  /\ \A q \in Procs : procs'[q].doc = e /\ procs'[q].pc = "put" =>
                      procs'[q].copy = memory'[e]
               /\ (~\E q \in Procs : Telling(procs'[q], e)) => index'[e] = memory'[e]
    <3>1. CASE e = d
      BY <2>1, <2>3, <2>6, <2>7, <3>1
    <3>2. CASE e # d
      <4>1. e \notin unindexed /\ index'[e] = index[e] /\ memory'[e] = memory[e]
        BY <2>3, <2>4, <2>7, <3>2
      <4>2. (\E q \in Procs : Telling(procs[q], e)) => \E q \in Procs : Telling(procs'[q], e)
        BY <2>1, <3>2 DEF Telling
      <4> QED
        BY <2>1, <2>7, <4>1, <4>2 DEF PointInv
    <3> QED
      BY <3>1, <3>2
  <2> QED
    BY <2>7 DEF PointInv, Telling
<1>10. ASSUME NEW p \in Procs, LosePut(p)
       PROVE  PointInv'
  <2>1. procs[p].pc = "put" /\ procs'[p].pc \notin {"reread", "put"}
        /\ \A q \in Procs \ {p} : procs'[q] = procs[q]
    BY <1>10, TurnGoes DEF LosePut, At, OfList
  <2>2. UNCHANGED <<memory, index>> /\ unindexed' = unindexed \cup {procs[p].doc}
    BY <1>10 DEF LosePut, tables, Doc
  <2> QED
    BY <2>1, <2>2, SearchQuiet DEF Telling
<1>11. ASSUME NEW ps \in SUBSET Procs, Stop(ps)
       PROVE  PointInv'
  <2>1. /\ \A q \in Procs : procs'[q] = Idle \/ (q \notin ps /\ procs'[q] = procs[q])
        /\ UNCHANGED <<memory, index>>
    BY <1>11 DEF Stop, tables
  <2>2. \A q \in ps : procs[q].pc \in {"reread", "put"} => procs[q].doc \in unindexed'
    BY <1>11 DEF Stop, Doc
  <2>3. unindexed \subseteq unindexed' /\ Idle.pc # "put"
        /\ \A q \in Procs \ ps : procs'[q] = procs[q]
    BY <1>11 DEF Stop, Idle
  <2> QED
    BY <2>1, <2>2, <2>3, SearchQuiet DEF Telling
<1>12. CASE UNCHANGED vars
  <2>1. UNCHANGED <<memory, index, unindexed, procs>>
    BY <1>12 DEF vars, tables, marks
  <2> QED
    BY <2>1, SearchQuiet DEF Telling
<1> QED
  BY <1>1, <1>2, <1>3, <1>4, <1>5, <1>6, <1>7, <1>8, <1>9, <1>10, <1>11, <1>12
     DEF Next, Step, Fail, Restart

LEMMA PointInit == Init => PointInv
<1> SUFFICES ASSUME Init
             PROVE  PointInv
  OBVIOUS
<1>1. Qdrant => index = memory
  BY DEF Init
<1>2. \A q \in Procs : procs[q].pc = "idle"
  BY DEF Init, Idle
<1> QED
  BY <1>1, <1>2 DEF PointInv

\* Qdrant has of every document what the table has, when no point is about to be
\* put and none was lost or overtaken by another.
THEOREM PointsCorrect == Spec => []PointsMatch
<1>1. TypeOK /\ Shape /\ PointInv /\ [Next]_vars => PointInv'
  BY PointStep
<1>2. PointInv => PointsMatch
  BY DEF PointInv, PointsMatch, Telling, Doc
<1> QED
  BY <1>1, <1>2, PointInit, ShapeInvariant, PTL DEF Spec

-----------------------------------------------------------------------------
(* What is remembered is what the rows say.                                *)

Told == Stored \cup {Profile}
TextOf(d) == IF d = Profile THEN profile ELSE jobs[d].notes
Holds(l, d, c) ==
    \/ l.pc = "upsert" /\ l.doc = d /\ l.copy = c
    \/ l.op = "rebuild" /\ \E x \in l.todo : x.doc = d /\ x.copy = c
Writing(l, d) == l.doc = d /\ l.op # "rebuild" /\ l.pc \in {"reload", "upsert"}

\* Of a document no change was lost of, every copy is up to date.
MemoryInv ==
    \A d \in Told \ behind :
        /\ \A q \in Procs : \A c : Holds(procs[q], d, c) => c.text = TextOf(d)
        /\ \/ \E q \in Procs : Writing(procs[q], d)
           \/ memory[d] # None /\ memory[d].text = TextOf(d)

LEMMA CurrentText ==
    /\ \A d \in Told : Current(d).text = TextOf(d)
    /\ Told \subseteq Docs /\ Reflection \notin Told /\ None \notin Told
  BY StoreAssumption DEF Told, TextOf, Current, Stored, Docs

LEMMA HoldsCopies ==
    ASSUME NEW q \in Procs, NEW d, NEW c
    PROVE  c \in Copies(q, d) <=> Holds(procs[q], d, c)
<1>1. c \in {procs[q].copy : r \in {r \in {q} : At(r, "upsert") /\ Doc(r) = d}} <=>
        procs[q].pc = "upsert" /\ procs[q].doc = d /\ procs[q].copy = c
  BY DEF At, Doc
<1>2. c \in {x.copy : x \in {x \in procs[q].todo : procs[q].op = "rebuild" /\ x.doc = d}} <=>
        procs[q].op = "rebuild" /\ \E x \in procs[q].todo : x.doc = d /\ x.copy = c
  OBVIOUS
<1> QED
  BY <1>1, <1>2 DEF Copies, Holds

LEMMA OfListHolds ==
    ASSUME NEW l, NEW m, OfList(l, m), NEW d, NEW c, Holds(m, d, c)
    PROVE  l.op = "rebuild" /\ \E x \in l.todo : x.doc = d /\ x.copy = c
  BY DEF OfList, Holds

\* Steps after which nobody holds a copy he did not hold before.
LEMMA MemoryQuiet ==
    ASSUME MemoryInv, Stored' = Stored, UNCHANGED <<profile, memory>>,
           \A j \in Stored : jobs'[j].notes = jobs[j].notes, behind \subseteq behind',
           \A q \in Procs : \A d \in Told : \A c :
               Holds(procs'[q], d, c) => Holds(procs[q], d, c),
           \A q \in Procs : \A d \in Told \ behind' :
               Writing(procs[q], d) => Writing(procs'[q], d)
    PROVE  MemoryInv'
<1>1. Told' = Told /\ \A d \in Told : TextOf(d)' = TextOf(d)
  BY DEF Told, TextOf
<1>2. ASSUME NEW d \in Told \ behind'
      PROVE  /\ \A q \in Procs : \A c : Holds(procs'[q], d, c) => c.text = TextOf(d)
             /\ \/ \E q \in Procs : Writing(procs'[q], d)
                \/ memory'[d] # None /\ memory'[d].text = TextOf(d)
  BY <1>2 DEF MemoryInv
<1> QED
  BY <1>1, <1>2 DEF MemoryInv, Holds, Writing

\* One changes a text: what others hold of it is behind.
LEMMA MemoryWrite ==
    ASSUME TypeOK, Shape, MemoryInv, NEW p \in Procs,
           InsertJob(p) \/ WriteNotes(p) \/ SaveCandidateProfile(p)
    PROVE  MemoryInv'
<1> DEFINE d == procs[p].doc
<1>1. /\ procs[p].pc = "write" /\ procs'[p].op \in {"import", "notes", "profile"}
      /\ procs'[p].doc = d /\ procs'[p].pc = "reload" /\ procs'[p].todo = procs[p].todo
      /\ \A q \in Procs \ {p} : procs'[q] = procs[q]
  BY WriteGoes DEF Same
<1>2. Writing(procs'[p], d)
  BY <1>1 DEF Writing
<1>3. \A e : \A c : ~Holds(procs'[p], e, c)
  BY <1>1 DEF Holds
<1>4. memory' = memory /\ behind \subseteq behind'
      /\ (d \in behind' \/ ~\E q \in Procs \ {p} : Copies(q, d) # {})
  <2>1. SaveCandidateProfile(p) => d = Profile
    BY Ready DEF SaveCandidateProfile, Runs, At, Fit
  <2>2. memory' = memory /\ Outdates(p, d)
    BY <2>1 DEF InsertJob, WriteNotes, SaveCandidateProfile, Doc
  <2> QED
    BY <2>2 DEF Outdates, Others
<1>5. \A q \in Procs \ {p} : \A c : Holds(procs'[q], d, c) => d \in behind'
  BY <1>1, <1>4, HoldsCopies
<1>6. \A e \in Told' \ {d} : e \in Told /\ TextOf(e)' = TextOf(e)
  <2>1. CASE InsertJob(p) \/ WriteNotes(p)
    <3>1. profile' = profile /\ d \in Jobs /\ \A j \in Jobs \ {d} : jobs'[j] = jobs[j]
      BY <2>1, Ready, StoreAssumption DEF InsertJob, WriteNotes, Runs, At, Fit, TypeOK, Doc, Stored
    <3> QED
      BY <3>1, StoreAssumption DEF Told, TextOf, Stored
  <2>2. CASE SaveCandidateProfile(p)
    <3>1. jobs' = jobs /\ d = Profile
      BY <2>2, Ready DEF SaveCandidateProfile, Runs, At, Fit
    <3> QED
      BY <3>1 DEF Told, TextOf, Stored
  <2> QED
    BY <2>1, <2>2
<1>7. ASSUME NEW e \in Told' \ behind'
      PROVE  /\ \A q \in Procs : \A c : Holds(procs'[q], e, c) => c.text = TextOf(e)'
             /\ \/ \E q \in Procs : Writing(procs'[q], e)
                \/ memory'[e] # None /\ memory'[e].text = TextOf(e)'
  <2>1. CASE e = d
    BY <1>1, <1>2, <1>3, <1>5, <1>7, <2>1
  <2>2. CASE e # d
    <3>1. e \in Told \ behind /\ TextOf(e)' = TextOf(e) /\ memory'[e] = memory[e]
      BY <1>4, <1>6, <1>7, <2>2
    <3>2. \A q \in Procs : Writing(procs[q], e) => Writing(procs'[q], e)
      BY <1>1, <2>2 DEF Writing
    <3>3. \A q \in Procs : \A c : Holds(procs'[q], e, c) => Holds(procs[q], e, c)
      BY <1>1, <1>3
    <3> QED
      BY <3>1, <3>2, <3>3 DEF MemoryInv
  <2> QED
    BY <2>1, <2>2
<1> QED
  BY <1>7 DEF MemoryInv, Holds, Writing

\* One stores a copy: it is up to date, or what it is a copy of stays behind.
LEMMA MemoryUpsert ==
    ASSUME TypeOK, Shape, MemoryInv, NEW p \in Procs, UpsertSemanticMemoryItem(p)
    PROVE  MemoryInv'
<1> DEFINE d == procs[p].doc
<1>1. /\ procs[p] \in Proc /\ procs[p].pc = "upsert" /\ d \in Docs
      /\ procs[p].copy \in Version
  BY Ready DEF UpsertSemanticMemoryItem, At, Fit, Docs, Stored, Proc
<1>2. /\ \A e : \A c : Holds(procs'[p], e, c) => Holds(procs[p], e, c)
      /\ \A q \in Procs \ {p} : procs'[q] = procs[q]
  <2>1. CASE Qdrant
    <3>1. /\ procs'[p].pc = "reread" /\ procs'[p].op = procs[p].op
          /\ procs'[p].todo = procs[p].todo /\ \A q \in Procs \ {p} : procs'[q] = procs[q]
      BY <2>1, StoreGoes DEF Same
    <3> QED
      BY <3>1 DEF Holds
  <2>2. CASE ~Qdrant
    <3>1. OfList(procs[p], procs'[p]) /\ \A q \in Procs \ {p} : procs'[q] = procs[q]
      BY <2>2, TurnGoes DEF UpsertSemanticMemoryItem
    <3> QED
      BY <3>1, OfListHolds DEF Holds
  <2> QED
    BY <2>1, <2>2
<1>3. /\ memory'[d] = procs[p].copy /\ \A e \in Docs \ {d} : memory'[e] = memory[e]
      /\ UNCHANGED <<jobs, profile>>
  BY <1>1 DEF UpsertSemanticMemoryItem, TypeOK
<1>4. Told' = Told /\ \A e \in Told : TextOf(e)' = TextOf(e)
  BY <1>3 DEF Told, TextOf, Stored
<1>5. /\ behind \ {d} \subseteq behind'
      /\ d \in behind /\ d \notin behind' =>
            /\ procs[p].copy.text = Current(d).text
            /\ \A q \in Procs : \A c \in Copies(q, d) : c.text = procs[p].copy.text
  BY DEF UpsertSemanticMemoryItem
<1>6. ASSUME d \in Told, d \notin behind'
      PROVE  /\ procs[p].copy.text = TextOf(d)
             /\ \A q \in Procs : \A c : Holds(procs[q], d, c) => c.text = TextOf(d)
  <2>1. CASE d \notin behind
    <3>1. Holds(procs[p], d, procs[p].copy)
      BY <1>1 DEF Holds
    <3> QED
      BY <1>6, <2>1, <3>1 DEF MemoryInv
  <2>2. CASE d \in behind
    BY <1>5, <1>6, <2>2, CurrentText, HoldsCopies
  <2> QED
    BY <2>1, <2>2
<1>7. ASSUME NEW e \in Told \ behind'
      PROVE  /\ \A q \in Procs : \A c : Holds(procs'[q], e, c) => c.text = TextOf(e)
             /\ \/ \E q \in Procs : Writing(procs'[q], e)
                \/ memory'[e] # None /\ memory'[e].text = TextOf(e)
  <2>1. CASE e = d
    BY <1>1, <1>2, <1>3, <1>6, <1>7, <2>1, NoneAssumption
  <2>2. CASE e # d
    <3>1. e \notin behind /\ memory'[e] = memory[e]
      BY <1>3, <1>5, <1>7, <2>2, CurrentText
    <3>2. \A q \in Procs : Writing(procs[q], e) => Writing(procs'[q], e)
      BY <1>2, <2>2 DEF Writing
    <3> QED
      BY <1>2, <1>7, <3>1, <3>2 DEF MemoryInv
  <2> QED
    BY <2>1, <2>2
<1> QED
  BY <1>4, <1>7 DEF MemoryInv, Holds, Writing

LEMMA MemoryStep ==
    ASSUME TypeOK, Shape, MemoryInv, [Next]_vars
    PROVE  MemoryInv'
<1>b. ASSUME NEW p \in Procs, procs[p].pc \notin {"reload", "upsert"},
             \A d \in Told : \A c : Holds(procs'[p], d, c) => Holds(procs[p], d, c),
             \A q \in Procs \ {p} : procs'[q] = procs[q],
             UNCHANGED <<profile, memory, behind>>, Stored' = Stored,
             \A j \in Stored : jobs'[j].notes = jobs[j].notes
      PROVE  MemoryInv'
  BY <1>b, MemoryQuiet DEF Writing
<1>c. jobs' = jobs => Stored' = Stored /\ \A j \in Stored : jobs'[j].notes = jobs[j].notes
  BY DEF Stored
<1>1. ASSUME NEW p \in Procs, Request(p)
      PROVE  MemoryInv'
  <2>1. UNCHANGED <<jobs, profile, memory, behind>> /\ procs[p].pc = "idle"
    BY <1>1, RequestGoes DEF tables, marks, Request, Begin, At
  <2>2. \A d : \A c : ~Holds(procs'[p], d, c)
    BY <1>1, RequestGoes DEF Holds
  <2> QED
    BY <1>1, <1>b, <1>c, <2>1, <2>2, RequestGoes
<1>2. ASSUME NEW p \in Procs, InsertJob(p) \/ WriteNotes(p) \/ SaveCandidateProfile(p)
      PROVE  MemoryInv'
  BY <1>2, MemoryWrite
<1>3. ASSUME NEW p \in Procs, ReadStatus(p)
      PROVE  MemoryInv'
  <2>1. UNCHANGED <<jobs, profile, memory, behind>>
    BY <1>3 DEF tables, ReadStatus
  <2> QED
    BY <1>3, <1>b, <1>c, <2>1, ReadGoes DEF Holds, Same
<1>4. ASSUME NEW p \in Procs, UpdateStatus(p)
      PROVE  MemoryInv'
  <2>1. UNCHANGED <<profile, memory, behind>> /\ procs[p].pc = "update"
    BY <1>4 DEF UpdateStatus, At
  <2>2. procs[p].doc \in Stored /\ jobs[procs[p].doc] \in Row /\ procs[p].status \in Statuses
    BY <2>1, Ready DEF Fit, Stored, TypeOK, Proc
  <2>3. Stored' = Stored /\ \A j \in Stored : jobs'[j].notes = jobs[j].notes
    <3>1. [jobs[procs[p].doc] EXCEPT !.status = procs[p].status] \in Row
          /\ [jobs[procs[p].doc] EXCEPT !.status = procs[p].status].notes = jobs[procs[p].doc].notes
      BY <2>2 DEF Row
    <3> QED
      BY <1>4, <2>2, <3>1, NoneAssumption DEF UpdateStatus, Stored, TypeOK
  <2>4. CASE procs[p].from # procs[p].status
    BY <1>4, <1>b, <2>1, <2>3, <2>4, UpdateGoes DEF Holds, Same
  <2>5. CASE procs[p].from = procs[p].status
    <3>1. Turn(p, procs[p])
      BY <1>4, <2>5 DEF UpdateStatus
    <3>2. \A d : \A c : Holds(procs'[p], d, c) => Holds(procs[p], d, c)
      BY <3>1, TurnGoes, OfListHolds DEF Holds
    <3> QED
      BY <1>b, <2>1, <2>3, <3>1, <3>2, TurnGoes
  <2> QED
    BY <2>4, <2>5
<1>5. ASSUME NEW p \in Procs, RecordJobDecision(p) \/ Put(p) \/ LosePut(p)
      PROVE  MemoryInv'
  <2>1. /\ UNCHANGED <<jobs, profile, memory, behind>> /\ procs[p].pc \in {"log", "put"}
        /\ Turn(p, procs[p])
    BY <1>5 DEF RecordJobDecision, Put, LosePut, At, tables
  <2>2. \A d : \A c : Holds(procs'[p], d, c) => Holds(procs[p], d, c)
    BY <2>1, TurnGoes, OfListHolds DEF Holds
  <2> QED
    BY <1>b, <1>c, <2>1, <2>2, TurnGoes
<1>6. ASSUME NEW p \in Procs, ListJobs(p)
      PROVE  MemoryInv'
  <2>1. UNCHANGED <<jobs, profile, memory, behind>>
    BY <1>6 DEF ListJobs, tables
  <2>2. /\ procs[p].pc = "list" /\ \A q \in Procs \ {p} : procs'[q] = procs[q]
    BY <1>6, ListGoes
  <2>3. ASSUME NEW d, NEW c, Holds(procs'[p], d, c)
        PROVE  c = Current(d)
    BY <1>6, <2>3, ListGoes, OfListHolds
  <2>4. Told' = Told /\ \A d \in Told : TextOf(d)' = TextOf(d)
    BY <2>1 DEF Told, TextOf, Stored
  <2>5. ASSUME NEW d \in Told \ behind
        PROVE  /\ \A q \in Procs : \A c : Holds(procs'[q], d, c) => c.text = TextOf(d)
               /\ \/ \E q \in Procs : Writing(procs'[q], d)
                  \/ memory[d] # None /\ memory[d].text = TextOf(d)
    <3>1. \A q \in Procs : Writing(procs[q], d) => Writing(procs'[q], d)
      BY <2>2 DEF Writing
    <3>2. \A q \in Procs : \A c : Holds(procs'[q], d, c) => c.text = TextOf(d)
      BY <2>2, <2>3, CurrentText DEF MemoryInv
    <3> QED
      BY <3>1, <3>2 DEF MemoryInv
  <2> QED
    BY <2>1, <2>4, <2>5 DEF MemoryInv, Holds, Writing
<1>7. ASSUME NEW p \in Procs, Reload(p)
      PROVE  MemoryInv'
  <2>1. UNCHANGED <<jobs, profile, memory, behind>>
    BY <1>7 DEF Reload, tables, marks
  <2>2. /\ procs[p].pc = "reload" /\ procs'[p].pc = "upsert" /\ procs'[p].doc = procs[p].doc
        /\ procs'[p].op = procs[p].op /\ procs'[p].todo = procs[p].todo
        /\ procs'[p].copy = Current(procs[p].doc) /\ \A q \in Procs \ {p} : procs'[q] = procs[q]
    BY <1>7, StoreGoes DEF Same
  <2>3. Told' = Told /\ \A d \in Told : TextOf(d)' = TextOf(d)
    BY <2>1 DEF Told, TextOf, Stored
  <2>4. ASSUME NEW d \in Told \ behind
        PROVE  /\ \A q \in Procs : \A c : Holds(procs'[q], d, c) => c.text = TextOf(d)
               /\ \/ \E q \in Procs : Writing(procs'[q], d)
                  \/ memory[d] # None /\ memory[d].text = TextOf(d)
    <3>1. \A q \in Procs : Writing(procs[q], d) => Writing(procs'[q], d)
      BY <2>2 DEF Writing
    <3>2. \A c : Holds(procs'[p], d, c) => c = Current(d) \/ Holds(procs[p], d, c)
      BY <2>2 DEF Holds
    <3>3. \A q \in Procs : \A c : Holds(procs'[q], d, c) => c.text = TextOf(d)
      BY <2>2, <3>2, CurrentText DEF MemoryInv
    <3> QED
      BY <3>1, <3>3 DEF MemoryInv
  <2> QED
    BY <2>1, <2>3, <2>4 DEF MemoryInv, Holds, Writing
<1>8. ASSUME NEW p \in Procs, UpsertSemanticMemoryItem(p)
      PROVE  MemoryInv'
  BY <1>8, MemoryUpsert
<1>9. ASSUME NEW p \in Procs, Reread(p)
      PROVE  MemoryInv'
  <2>1. UNCHANGED <<jobs, profile, memory, behind>>
    BY <1>9 DEF Reread, tables, marks
  <2> QED
    BY <1>9, <1>b, <1>c, <2>1, StoreGoes DEF Holds, Same
<1>10. ASSUME NEW p \in Procs, Learn(p)
       PROVE  MemoryInv'
  <2>1. UNCHANGED <<jobs, profile, memory, behind>>
    BY <1>10 DEF Learn, tables
  <2>2. procs[p].pc = "learn" /\ \A q \in Procs \ {p} : procs'[q] = procs[q]
    BY <1>10, StoreGoes
  <2>3. \A d \in Told : \A c : ~Holds(procs'[p], d, c)
    BY <1>10, StoreGoes, CurrentText DEF Holds, Idle
  <2> QED
    BY <1>b, <1>c, <2>1, <2>2, <2>3
<1>11. ASSUME NEW ps \in SUBSET Procs, Stop(ps)
       PROVE  MemoryInv'
  <2>1. /\ \A q \in Procs \ ps : procs'[q] = procs[q]
        /\ \A q \in ps : procs'[q] = Idle
        /\ UNCHANGED <<jobs, profile, memory>> /\ behind \subseteq behind'
        /\ \A q \in ps : procs[q].op # "rebuild" /\ procs[q].pc \in {"reload", "upsert"} =>
              procs[q].doc \in behind'
    BY <1>11 DEF Stop, tables, Doc
  <2>2. \A d : \A c : ~Holds(Idle, d, c)
    BY DEF Holds, Idle
  <2>3. \A q \in Procs : \A d : \A c : Holds(procs'[q], d, c) => Holds(procs[q], d, c)
    BY <2>1, <2>2
  <2>4. \A q \in Procs : \A d \in Told \ behind' : Writing(procs[q], d) => Writing(procs'[q], d)
    BY <2>1 DEF Writing
  <2> QED
    BY <1>c, <2>1, <2>3, <2>4, MemoryQuiet
<1>12. CASE UNCHANGED vars
  <2>1. UNCHANGED <<jobs, profile, memory, behind, procs>>
    BY <1>12 DEF vars, tables, marks
  <2> QED
    BY <1>c, <2>1, MemoryQuiet
<1> QED
  BY <1>1, <1>2, <1>3, <1>4, <1>5, <1>6, <1>7, <1>8, <1>9, <1>10, <1>11, <1>12
     DEF Next, Step, Fail, Restart

LEMMA MemoryInit == Init => MemoryInv
<1> SUFFICES ASSUME Init
             PROVE  MemoryInv
  OBVIOUS
<1>1. \A q \in Procs : \A d : \A c : ~Holds(procs[q], d, c)
  BY DEF Init, Idle, Holds
<1>2. \A d \in Stored : memory[d] = Current(d) /\ Current(d) \in Version /\ d \in Told
  BY TypeInit, CurrentTyped DEF Init, Docs, Stored, Told
<1>3. Told \ behind \subseteq Stored
  BY DEF Init, Told
<1> QED
  BY <1>1, <1>2, <1>3, CurrentText, NoneAssumption DEF MemoryInv

\* What is remembered of a job or of the profile is what its row says, when
\* nobody is about to store it and no change was lost.
THEOREM MemoryCorrect == Spec => []MemoryMatches
<1>1. TypeOK /\ Shape /\ MemoryInv /\ [Next]_vars => MemoryInv'
  BY MemoryStep
<1>2. MemoryInv => MemoryMatches
  BY CurrentText DEF MemoryInv, MemoryMatches, Writing, Told, Doc
<1> QED
  BY <1>1, <1>2, MemoryInit, ShapeInvariant, PTL DEF Spec

-----------------------------------------------------------------------------
(* The log says how a job came to its status.                              *)

Logging(l, j) == l.doc = j /\ l.pc = "log"
Deciding(l, j) == l.doc = j /\ l.pc \in {"update", "log"}
On(log, j) == {i \in DOMAIN log : log[i].job = j}
LastIs(log, j, s) ==
    IF On(log, j) = {} THEN s \in {"new", "manual_check"}
    ELSE \E i \in On(log, j) : (\A k \in On(log, j) : k <= i) /\ s = log[i].to

\* On a job whose log is complete one goroutine decides at a time, and it knows
\* the status the job has.
LogInv ==
    /\ \A i \in DOMAIN decisions : decisions[i].job \in Stored
    /\ \A q \in Procs : Importing(procs[q]) => procs[q].status \in {"new", "manual_check"}
    /\ \A j \in Stored \ unlogged :
          /\ \A q \in Procs, r \in Procs :
                Deciding(procs[q], j) /\ Deciding(procs[r], j) => q = r
          /\ \A q \in Procs : Deciding(procs[q], j) =>
                jobs[j].status = IF procs[q].pc = "update" THEN procs[q].from
                                 ELSE procs[q].status
          /\ (~\E q \in Procs : Logging(procs[q], j)) => LastIs(decisions, j, jobs[j].status)

LEMMA LastAppended ==
    ASSUME NEW log \in Seq(Decision), NEW d \in Decision
    PROVE  /\ LastIs(Append(log, d), d.job, d.to)
           /\ \A j : j # d.job => \A s : LastIs(Append(log, d), j, s) <=> LastIs(log, j, s)
<1> DEFINE new == Append(log, d)
<1>1. /\ Len(log) \in Nat /\ DOMAIN log = 1..Len(log) /\ DOMAIN new = 1..(Len(log) + 1)
      /\ new[Len(log) + 1] = d /\ \A i \in 1..Len(log) : new[i] = log[i]
  OBVIOUS
<1> HIDE DEF new
<1>2. Len(log) + 1 \in On(new, d.job) /\ \A k \in On(new, d.job) : k <= Len(log) + 1
  BY <1>1 DEF On
<1>3. LastIs(new, d.job, d.to)
  BY <1>1, <1>2 DEF LastIs
<1>4. ASSUME NEW j, j # d.job
      PROVE  On(new, j) = On(log, j) /\ \A i \in On(log, j) : new[i] = log[i]
  BY <1>1, <1>4 DEF On
<1>5. ASSUME NEW j, j # d.job, NEW s
      PROVE  LastIs(new, j, s) <=> LastIs(log, j, s)
  BY <1>4, <1>5 DEF LastIs
<1> QED
  BY <1>3, <1>5 DEF new

\* Steps that decide nothing.
LEMMA LogQuiet ==
    ASSUME LogInv, UNCHANGED decisions, Stored' = Stored, unlogged \subseteq unlogged',
           \A j \in Stored : jobs'[j].status = jobs[j].status,
           \A q \in Procs : procs'[q].pc \in {"update", "log"} => procs'[q] = procs[q],
           \A q \in Procs : Importing(procs'[q]) => procs'[q].status \in {"new", "manual_check"},
           \A q \in Procs : \A j \in Stored \ unlogged' :
               Logging(procs[q], j) => Logging(procs'[q], j)
    PROVE  LogInv'
<1>1. ASSUME NEW j \in Stored \ unlogged'
      PROVE  /\ \A q \in Procs, r \in Procs :
                  Deciding(procs'[q], j) /\ Deciding(procs'[r], j) => q = r
             /\ \A q \in Procs : Deciding(procs'[q], j) =>
                  jobs'[j].status = IF procs'[q].pc = "update" THEN procs'[q].from
                                    ELSE procs'[q].status
             /\ (~\E q \in Procs : Logging(procs'[q], j)) => LastIs(decisions, j, jobs'[j].status)
  <2>1. j \in Stored \ unlogged /\ jobs'[j].status = jobs[j].status
    BY <1>1
  <2>2. \A q \in Procs : Deciding(procs'[q], j) => Deciding(procs[q], j) /\ procs'[q] = procs[q]
    BY DEF Deciding
  <2> QED
    BY <1>1, <2>1, <2>2 DEF LogInv
<1> QED
  BY <1>1 DEF LogInv, Deciding, Logging, Importing, LastIs, On

LEMMA LogInsert ==
    ASSUME TypeOK, Shape, UserInv, LogInv, NEW p \in Procs, InsertJob(p)
    PROVE  LogInv'
<1> DEFINE d == procs[p].doc
<1>1. /\ Importing(procs[p]) /\ d \in Jobs \ Stored /\ procs[p].status \in {"new", "manual_check"}
      /\ procs'[p].pc = "reload" /\ \A q \in Procs \ {p} : procs'[q] = procs[q]
  BY Ready, WriteGoes DEF InsertJob, Runs, At, Fit, Importing, UserInv, LogInv
<1>2. [status |-> procs[p].status, notes |-> Blank] \in Row
  BY Ready, StoreAssumption DEF Row, Proc
<1>3. /\ jobs'[d].status = procs[p].status /\ \A j \in Jobs \ {d} : jobs'[j] = jobs[j]
      /\ Stored' = Stored \cup {d} /\ UNCHANGED <<decisions, unlogged>>
  BY <1>1, <1>2, NoneAssumption DEF InsertJob, Stored, StatusOf, Doc, TypeOK
<1>4. \A q \in Procs : ~Deciding(procs[q], d)
  BY <1>1, Ready DEF Deciding, Fit
<1>5. ASSUME NEW j \in Stored' \ unlogged'
      PROVE  /\ \A q \in Procs, r \in Procs :
                  Deciding(procs'[q], j) /\ Deciding(procs'[r], j) => q = r
             /\ \A q \in Procs : Deciding(procs'[q], j) =>
                  jobs'[j].status = IF procs'[q].pc = "update" THEN procs'[q].from
                                    ELSE procs'[q].status
             /\ (~\E q \in Procs : Logging(procs'[q], j)) => LastIs(decisions, j, jobs'[j].status)
  <2>1. \A q \in Procs : Deciding(procs'[q], j) => q # p /\ Deciding(procs[q], j)
    BY <1>1 DEF Deciding
  <2>2. CASE j = d
    <3>1. On(decisions, d) = {}
      BY <1>1 DEF On, LogInv
    <3> QED
      BY <1>1, <1>3, <1>4, <2>1, <2>2, <3>1 DEF LastIs
  <2>3. CASE j # d
    <3>1. j \in Stored \ unlogged /\ jobs'[j].status = jobs[j].status
      BY <1>3, <1>5, <2>3 DEF Stored
    <3>2. \A q \in Procs : Logging(procs[q], j) => Logging(procs'[q], j)
      BY <1>1 DEF Logging, Importing
    <3> QED
      BY <1>1, <2>1, <3>1, <3>2 DEF LogInv
  <2> QED
    BY <2>2, <2>3
<1>6. /\ \A i \in DOMAIN decisions : decisions[i].job \in Stored'
      /\ \A q \in Procs : Importing(procs'[q]) => procs'[q].status \in {"new", "manual_check"}
  BY <1>1, <1>3 DEF LogInv, Importing
<1> QED
  BY <1>3, <1>5, <1>6 DEF LogInv, Deciding, Logging, Importing, LastIs, On

LEMMA LogRead ==
    ASSUME TypeOK, Shape, LogInv, NEW p \in Procs, ReadStatus(p)
    PROVE  LogInv'
<1> DEFINE d == procs[p].doc
<1>1. /\ procs[p].pc = "read" /\ procs'[p].pc = "update" /\ procs'[p].doc = d
      /\ procs'[p].from = jobs[d].status /\ \A q \in Procs \ {p} : procs'[q] = procs[q]
  BY ReadGoes DEF Same
<1>2. UNCHANGED <<jobs, decisions>> /\ unlogged \subseteq unlogged'
      /\ (d \in unlogged' \/ ~\E q \in Procs \ {p} : Deciding(procs[q], d))
  BY DEF ReadStatus, tables, Others, Doc, Deciding
<1>3. Stored' = Stored
  BY <1>2 DEF Stored
<1>4. ASSUME NEW j \in Stored \ unlogged'
      PROVE  /\ \A q \in Procs, r \in Procs :
                  Deciding(procs'[q], j) /\ Deciding(procs'[r], j) => q = r
             /\ \A q \in Procs : Deciding(procs'[q], j) =>
                  jobs[j].status = IF procs'[q].pc = "update" THEN procs'[q].from
                                   ELSE procs'[q].status
             /\ (~\E q \in Procs : Logging(procs'[q], j)) => LastIs(decisions, j, jobs[j].status)
  <2>1. j \in Stored \ unlogged
    BY <1>2, <1>4
  <2>2. \A q \in Procs : Logging(procs[q], j) => Logging(procs'[q], j)
    BY <1>1 DEF Logging
  <2>3. CASE j = d
    <3>1. \A q \in Procs : Deciding(procs'[q], d) => q = p
      BY <1>1, <1>2, <1>4, <2>3
    <3> QED
      BY <1>1, <2>1, <2>2, <2>3, <3>1 DEF LogInv
  <2>4. CASE j # d
    <3>1. \A q \in Procs : Deciding(procs'[q], j) => q # p /\ procs'[q] = procs[q]
      BY <1>1, <2>4 DEF Deciding
    <3> QED
      BY <2>1, <2>2, <3>1 DEF LogInv
  <2> QED
    BY <2>3, <2>4
<1> QED
  BY <1>1, <1>2, <1>3, <1>4 DEF LogInv, Deciding, Logging, Importing, LastIs, On

LEMMA LogUpdate ==
    ASSUME TypeOK, Shape, LogInv, NEW p \in Procs, UpdateStatus(p)
    PROVE  LogInv'
<1> DEFINE d == procs[p].doc
<1>1. /\ procs[p].pc = "update" /\ d \in Stored /\ jobs[d] \in Row /\ procs[p].status \in Statuses
      /\ Deciding(procs[p], d)
  BY Ready DEF UpdateStatus, At, Fit, Stored, TypeOK, Proc, Deciding
<1>2. /\ Stored' = Stored /\ jobs'[d].status = procs[p].status
      /\ \A j \in Stored \ {d} : jobs'[j] = jobs[j]
      /\ UNCHANGED <<decisions, unlogged>>
  <2>1. [jobs[d] EXCEPT !.status = procs[p].status] \in Row
        /\ [jobs[d] EXCEPT !.status = procs[p].status].status = procs[p].status
    BY <1>1 DEF Row
  <2> QED
    BY <1>1, <2>1, NoneAssumption DEF UpdateStatus, Stored, TypeOK
<1>3. /\ \A q \in Procs \ {p} : procs'[q] = procs[q]
      /\ ~Importing(procs'[p]) /\ \A j \in Jobs \ {d} : ~Deciding(procs'[p], j)
      /\ \/ /\ Logging(procs'[p], d) /\ procs'[p].status = procs[p].status
            /\ procs[p].from # procs[p].status
         \/ ~Deciding(procs'[p], d) /\ procs[p].from = procs[p].status
  <2>1. CASE procs[p].from # procs[p].status
    BY <2>1, UpdateGoes DEF Same, Importing, Deciding, Logging
  <2>2. CASE procs[p].from = procs[p].status
    <3>1. Turn(p, procs[p])
      BY <2>2 DEF UpdateStatus
    <3> QED
      BY <2>2, <3>1, TurnGoes DEF OfList, Importing, Deciding
  <2> QED
    BY <2>1, <2>2
<1>4. ASSUME NEW j \in Stored \ unlogged
      PROVE  /\ \A q \in Procs, r \in Procs :
                  Deciding(procs'[q], j) /\ Deciding(procs'[r], j) => q = r
             /\ \A q \in Procs : Deciding(procs'[q], j) =>
                  jobs'[j].status = IF procs'[q].pc = "update" THEN procs'[q].from
                                    ELSE procs'[q].status
             /\ (~\E q \in Procs : Logging(procs'[q], j)) => LastIs(decisions, j, jobs'[j].status)
  <2>1. CASE j = d
    <3>1. procs[p].from = jobs[d].status
      BY <1>1, <1>4, <2>1 DEF LogInv
    <3>2. \A q \in Procs : Deciding(procs'[q], d) => q = p
      BY <1>1, <1>3, <1>4, <2>1 DEF LogInv
    <3>3. (~\E q \in Procs : Logging(procs[q], d)) => LastIs(decisions, d, jobs[d].status)
      BY <1>4, <2>1 DEF LogInv
    <3>4. ~\E q \in Procs : Logging(procs[q], d)
      BY <1>1, <1>4, <2>1 DEF LogInv, Logging, Deciding
    <3> QED
      BY <1>2, <1>3, <2>1, <3>1, <3>2, <3>3, <3>4 DEF Logging
  <2>2. CASE j # d
    <3>1. jobs'[j] = jobs[j] /\ j \in Jobs
      BY <1>2, <1>4, <2>2 DEF Stored
    <3>2. \A q \in Procs : Deciding(procs'[q], j) => q # p /\ procs'[q] = procs[q]
      BY <1>3, <2>2, <3>1
    <3>3. \A q \in Procs : Logging(procs[q], j) => Logging(procs'[q], j)
      BY <1>1, <1>3 DEF Logging
    <3> QED
      BY <1>4, <3>1, <3>2, <3>3 DEF LogInv
  <2> QED
    BY <2>1, <2>2
<1>5. \A q \in Procs : Importing(procs'[q]) => procs'[q].status \in {"new", "manual_check"}
  BY <1>3 DEF LogInv
<1> QED
  BY <1>2, <1>4, <1>5 DEF LogInv, Deciding, Logging, Importing, LastIs, On

LEMMA LogRecord ==
    ASSUME TypeOK, Shape, LogInv, NEW p \in Procs, RecordJobDecision(p)
    PROVE  LogInv'
<1> DEFINE d == procs[p].doc
           new == DecisionOf(procs[p])
<1>1. /\ Logging(procs[p], d) /\ d \in Stored /\ new \in Decision
      /\ new.job = d /\ new.to = procs[p].status
  <2>1. procs[p].pc = "log" /\ d \in Stored /\ d \in Jobs /\ procs[p] \in Proc
    BY Ready DEF RecordJobDecision, At, Fit, Stored
  <2> QED
    BY <2>1 DEF DecisionOf, Decision, Proc, Logging
<1>2. /\ OfList(procs[p], procs'[p]) /\ \A q \in Procs \ {p} : procs'[q] = procs[q]
  BY TurnGoes DEF RecordJobDecision
<1>3. ~Importing(procs'[p]) /\ \A j : ~Deciding(procs'[p], j)
  BY <1>2 DEF OfList, Importing, Deciding
<1>4. UNCHANGED jobs /\ Stored' = Stored /\ decisions' = Append(decisions, new)
  BY DEF RecordJobDecision, Stored
<1>5. /\ unlogged \ {d} \subseteq unlogged'
      /\ d \in unlogged /\ d \notin unlogged' =>
            /\ jobs[d].status = procs[p].status
            /\ ~\E q \in Procs \ {p} : Deciding(procs[q], d)
  BY DEF RecordJobDecision, Others, Doc, Deciding
<1>6. ASSUME d \notin unlogged'
      PROVE  jobs[d].status = procs[p].status /\ ~\E q \in Procs \ {p} : Deciding(procs[q], d)
  <2>1. CASE d \in unlogged
    BY <1>5, <1>6, <2>1
  <2>2. CASE d \notin unlogged
    BY <1>1, <2>2 DEF LogInv, Deciding, Logging
  <2> QED
    BY <2>1, <2>2
<1>7. /\ LastIs(decisions', d, procs[p].status)
      /\ \A j : j # d => \A s : LastIs(decisions', j, s) <=> LastIs(decisions, j, s)
  BY <1>1, <1>4, LastAppended DEF TypeOK
<1>8. \A i \in DOMAIN decisions' : decisions'[i].job \in Stored
  <2>1. /\ Len(decisions) \in Nat /\ DOMAIN decisions = 1..Len(decisions)
        /\ DOMAIN decisions' = 1..(Len(decisions) + 1)
        /\ decisions'[Len(decisions) + 1] = new
        /\ \A i \in 1..Len(decisions) : decisions'[i] = decisions[i]
    BY <1>1, <1>4 DEF TypeOK
  <2> QED
    BY <1>1, <2>1 DEF LogInv
<1>9. ASSUME NEW j \in Stored \ unlogged'
      PROVE  /\ \A q \in Procs, r \in Procs :
                  Deciding(procs'[q], j) /\ Deciding(procs'[r], j) => q = r
             /\ \A q \in Procs : Deciding(procs'[q], j) =>
                  jobs[j].status = IF procs'[q].pc = "update" THEN procs'[q].from
                                   ELSE procs'[q].status
             /\ (~\E q \in Procs : Logging(procs'[q], j)) => LastIs(decisions', j, jobs[j].status)
  <2>1. \A q \in Procs : Deciding(procs'[q], j) => q # p /\ procs'[q] = procs[q]
    BY <1>2, <1>3
  <2>2. CASE j = d
    BY <1>6, <1>7, <1>9, <2>1, <2>2
  <2>3. CASE j # d
    <3>1. j \in Stored \ unlogged
      BY <1>5, <1>9, <2>3
    <3>2. \A q \in Procs : Logging(procs[q], j) => Logging(procs'[q], j)
      BY <1>1, <1>2, <2>3 DEF Logging
    <3> QED
      BY <1>7, <2>1, <2>3, <3>1, <3>2 DEF LogInv
  <2> QED
    BY <2>2, <2>3
<1>10. \A q \in Procs : Importing(procs'[q]) => procs'[q].status \in {"new", "manual_check"}
  BY <1>2, <1>3 DEF LogInv
<1> QED
  BY <1>4, <1>8, <1>9, <1>10 DEF LogInv, Deciding, Logging, Importing, LastIs, On

LEMMA LogStep ==
    ASSUME TypeOK, Shape, UserInv, LogInv, [Next]_vars
    PROVE  LogInv'
<1>a. jobs' = jobs => Stored' = Stored /\ \A j \in Stored : jobs'[j].status = jobs[j].status
  BY DEF Stored
<1>b. ASSUME NEW p \in Procs, procs[p].pc # "log", procs'[p].pc \notin {"update", "log"},
             Importing(procs'[p]) => procs'[p].status \in {"new", "manual_check"},
             \A q \in Procs \ {p} : procs'[q] = procs[q],
             UNCHANGED <<decisions, unlogged>>, Stored' = Stored,
             \A j \in Stored : jobs'[j].status = jobs[j].status
      PROVE  LogInv'
  <2>1. \A q \in Procs : Importing(procs'[q]) => procs'[q].status \in {"new", "manual_check"}
    BY <1>b DEF LogInv
  <2> QED
    BY <1>b, <2>1, LogQuiet DEF Logging
<1>1. ASSUME NEW p \in Procs, Request(p)
      PROVE  LogInv'
  <2>1. UNCHANGED <<jobs, decisions, unlogged>> /\ procs[p].pc = "idle"
    BY <1>1, RequestGoes DEF tables, marks, Request, Begin, At
  <2> QED
    BY <1>1, <1>a, <1>b, <2>1, RequestGoes DEF Importing
<1>2. ASSUME NEW p \in Procs, InsertJob(p)
      PROVE  LogInv'
  BY <1>2, LogInsert
<1>3. ASSUME NEW p \in Procs, WriteNotes(p) \/ SaveCandidateProfile(p)
      PROVE  LogInv'
  <2>1. UNCHANGED <<decisions, unlogged>>
    BY <1>3 DEF WriteNotes, SaveCandidateProfile
  <2>2. Stored' = Stored /\ \A j \in Stored : jobs'[j].status = jobs[j].status
    <3>1. CASE WriteNotes(p)
      <4>1. procs[p].doc \in Stored /\ jobs[procs[p].doc] \in Row /\ procs[p].text \in Texts
        BY <3>1, Ready, StoreAssumption DEF WriteNotes, Runs, At, Fit, Stored, TypeOK, Proc
      <4>2. [jobs[procs[p].doc] EXCEPT !.notes = procs[p].text] \in Row
            /\ [jobs[procs[p].doc] EXCEPT !.notes = procs[p].text].status = jobs[procs[p].doc].status
        BY <4>1 DEF Row
      <4> QED
        BY <3>1, <4>1, <4>2, NoneAssumption DEF WriteNotes, Stored, Doc, TypeOK
    <3>2. CASE SaveCandidateProfile(p)
      BY <1>a, <3>2 DEF SaveCandidateProfile
    <3> QED
      BY <1>3, <3>1, <3>2
  <2> QED
    BY <1>3, <1>b, <2>1, <2>2, WriteGoes DEF Importing
<1>4. ASSUME NEW p \in Procs, ReadStatus(p)
      PROVE  LogInv'
  BY <1>4, LogRead
<1>5. ASSUME NEW p \in Procs, UpdateStatus(p)
      PROVE  LogInv'
  BY <1>5, LogUpdate
<1>6. ASSUME NEW p \in Procs, RecordJobDecision(p)
      PROVE  LogInv'
  BY <1>6, LogRecord
<1>7. ASSUME NEW p \in Procs, ListJobs(p)
      PROVE  LogInv'
  <2>1. UNCHANGED <<jobs, decisions, unlogged>>
    BY <1>7 DEF ListJobs, tables
  <2> QED
    BY <1>7, <1>a, <1>b, <2>1, ListGoes DEF OfList, Importing
<1>8. ASSUME NEW p \in Procs, Reload(p) \/ Reread(p) \/ Learn(p)
      PROVE  LogInv'
  <2>1. UNCHANGED <<jobs, decisions, unlogged>>
    BY <1>8 DEF Reload, Reread, Learn, tables, marks
  <2>2. procs[p].pc \in {"reload", "reread", "learn"} /\ procs'[p].pc \in {"upsert", "put", "idle"}
        /\ \A q \in Procs \ {p} : procs'[q] = procs[q]
    BY <1>8, StoreGoes DEF Idle
  <2> QED
    BY <1>a, <1>b, <2>1, <2>2 DEF Importing
<1>9. ASSUME NEW p \in Procs, UpsertSemanticMemoryItem(p) \/ Put(p) \/ LosePut(p)
      PROVE  LogInv'
  <2>1. UNCHANGED <<jobs, decisions, unlogged>> /\ procs[p].pc \in {"upsert", "put"}
    BY <1>9 DEF UpsertSemanticMemoryItem, Put, LosePut, tables, At
  <2>2. /\ procs'[p].pc \notin {"update", "log", "write"}
        /\ \A q \in Procs \ {p} : procs'[q] = procs[q]
    <3>1. CASE UpsertSemanticMemoryItem(p) /\ Qdrant
      BY <3>1, StoreGoes
    <3>2. CASE Turn(p, procs[p])
      BY <3>2, TurnGoes DEF OfList
    <3> QED
      BY <1>9, <3>1, <3>2 DEF UpsertSemanticMemoryItem, Put, LosePut
  <2> QED
    BY <1>a, <1>b, <2>1, <2>2 DEF Importing
<1>10. ASSUME NEW ps \in SUBSET Procs, Stop(ps)
       PROVE  LogInv'
  <2>1. /\ \A q \in Procs \ ps : procs'[q] = procs[q]
        /\ \A q \in ps : procs'[q] = Idle
        /\ UNCHANGED <<jobs, decisions>> /\ unlogged \subseteq unlogged'
        /\ \A q \in ps : procs[q].pc = "log" => procs[q].doc \in unlogged'
    BY <1>10 DEF Stop, tables, Doc, At
  <2>2. Idle.pc = "idle" /\ ~Importing(Idle)
    BY DEF Idle, Importing
  <2>3. \A q \in Procs : \A j \in Stored \ unlogged' :
            Logging(procs[q], j) => Logging(procs'[q], j)
    BY <2>1 DEF Logging
  <2>4. \A q \in Procs : Importing(procs'[q]) => procs'[q].status \in {"new", "manual_check"}
    BY <2>1, <2>2 DEF LogInv
  <2> QED
    BY <1>a, <2>1, <2>2, <2>3, <2>4, LogQuiet
<1>11. CASE UNCHANGED vars
  <2>1. UNCHANGED <<jobs, decisions, unlogged, procs>>
    BY <1>11 DEF vars, tables, marks
  <2> QED
    BY <1>a, <2>1, LogQuiet DEF LogInv
<1> QED
  BY <1>1, <1>2, <1>3, <1>4, <1>5, <1>6, <1>7, <1>8, <1>9, <1>10, <1>11
     DEF Next, Step, Fail, Restart

LEMMA LogInit == Init => LogInv
<1> SUFFICES ASSUME Init
             PROVE  LogInv
  OBVIOUS
<1>1. \A q \in Procs : procs[q].pc = "idle"
  BY DEF Init, Idle
<1>2. \A j \in Stored : jobs[j].status = "new"
  BY DEF Init, Stored
<1>3. DOMAIN decisions = {}
  BY DEF Init
<1> QED
  BY <1>1, <1>2, <1>3 DEF LogInv, Importing, Deciding, LastIs, On

\* The last decision logged on a job is the one in force, unless two changed it
\* at a time or the statement that logs one failed.
THEOREM LogCorrect == Spec => []LogExplains
<1>1. TypeOK /\ Shape /\ UserInv /\ [Next]_vars => UserInv'
  BY UserStep
<1>2. TypeOK /\ Shape /\ UserInv /\ LogInv /\ [Next]_vars => LogInv'
  BY LogStep
<1>3. LogInv => LogExplains
  BY DEF LogInv, LogExplains, LastIs, On, DecisionsOn, Logging, At, Doc
<1> QED
  BY <1>1, <1>2, <1>3, UserInit, LogInit, ShapeInvariant, PTL DEF Spec

-----------------------------------------------------------------------------
(* A rebuild repairs what was lost.                                        *)

\* What nobody else touched since the list was made is remembered, or still held
\* as it is.
Repairing(p) ==
    procs[p].op = "rebuild" /\ procs[p].pc # "list" =>
        /\ \A j \in Stored \ touched[p] : \A c : Holds(procs[p], j, c) => c = Current(j)
        /\ \A j \in Visible \ touched[p] :
              memory[j] = Current(j) \/ Holds(procs[p], j, Current(j))
        /\ procs[p].doc = Reflection /\ Reflection \notin touched[p] =>
              /\ procs[p].pc = "upsert" => procs[p].copy.text = Scanned
              /\ procs[p].pc \in {"reread", "put"} => memory[Reflection].text = Scanned
RebuildInv == \A p \in Procs : Repairing(p)

LEMMA Unchanged ==
    ASSUME NEW j \in Jobs, jobs'[j] = jobs[j]
    PROVE  /\ Current(j)' = Current(j)
           /\ j \in Stored' <=> j \in Stored
           /\ j \in Visible' <=> j \in Visible
  BY DEF Current, Stored, Visible

\* What the others do is told to those that rebuild.
LEMMA OthersTell ==
    ASSUME TypeOK, RebuildInv, NEW p \in Procs, procs'[p] = procs[p],
           procs[p].op = "rebuild" =>
               /\ touched[p] \subseteq touched'[p]
               /\ \A j \in Jobs \ touched'[p] : jobs'[j] = jobs[j] /\ memory'[j] = memory[j]
               /\ Reflection \notin touched'[p] =>
                      decisions' = decisions /\ memory'[Reflection] = memory[Reflection]
    PROVE  Repairing(p)'
<1>1. SUFFICES ASSUME procs[p].op = "rebuild" /\ procs[p].pc # "list"
               PROVE  Repairing(p)'
  BY DEF Repairing
<1>2. Stored \subseteq Jobs /\ Stored' \subseteq Jobs /\ Visible \subseteq Stored
      /\ Visible' \subseteq Stored'
  BY DEF Stored, Visible
<1>3. ASSUME NEW j \in Stored' \ touched'[p]
      PROVE  /\ Current(j)' = Current(j) /\ memory'[j] = memory[j]
             /\ j \in Stored \ touched[p] /\ (j \in Visible' => j \in Visible)
  BY <1>1, <1>2, <1>3, Unchanged
<1>4. \A j \in Stored' \ touched'[p] : \A c : Holds(procs[p], j, c) => c = Current(j)'
  BY <1>1, <1>3 DEF RebuildInv, Repairing
<1>5. \A j \in Visible' \ touched'[p] :
          memory'[j] = Current(j)' \/ Holds(procs[p], j, Current(j)')
  <2>1. ASSUME NEW j \in Visible' \ touched'[p]
        PROVE  memory'[j] = Current(j)' \/ Holds(procs[p], j, Current(j)')
    <3>1. /\ Current(j)' = Current(j) /\ memory'[j] = memory[j] /\ j \in Visible \ touched[p]
      BY <1>2, <1>3, <2>1
    <3>2. memory[j] = Current(j) \/ Holds(procs[p], j, Current(j))
      BY <1>1, <3>1 DEF RebuildInv, Repairing
    <3> QED
      BY <3>1, <3>2
  <2> QED
    BY <2>1
<1>6. ASSUME procs[p].doc = Reflection, Reflection \notin touched'[p]
      PROVE  /\ procs[p].pc = "upsert" => procs[p].copy.text = Scanned'
             /\ procs[p].pc \in {"reread", "put"} => memory'[Reflection].text = Scanned'
  <2>1. Scanned' = Scanned /\ memory'[Reflection] = memory[Reflection]
        /\ Reflection \notin touched[p]
    BY <1>1, <1>6 DEF Scanned
  <2> QED
    BY <1>1, <1>6, <2>1 DEF RebuildInv, Repairing
<1>7. procs'[p] = procs[p]
  OBVIOUS
<1> QED
  BY <1>4, <1>5, <1>6, <1>7 DEF Repairing, Holds

\* Every change of a row, of the log or of the memory is told.
LEMMA StepTells ==
    ASSUME TypeOK, Shape, NEW r \in Procs, Step(r), NEW p \in Procs \ {r},
           procs[p].op = "rebuild"
    PROVE  /\ touched[p] \subseteq touched'[p]
           /\ \A j \in Jobs \ touched'[p] : jobs'[j] = jobs[j] /\ memory'[j] = memory[j]
           /\ Reflection \notin touched'[p] =>
                  decisions' = decisions /\ memory'[Reflection] = memory[Reflection]
<1> DEFINE d == procs[r].doc
<1>a. ASSUME NEW ds, Touch(r, ds)
      PROVE  touched'[p] = touched[p] \cup ds
  BY <1>a DEF Touch
<1>b. Jobs \subseteq Docs /\ Reflection \in Docs /\ Reflection \notin Jobs
  BY StoreAssumption DEF Docs
<1>1. CASE InsertJob(r) \/ WriteNotes(r)
  <2>1. touched'[p] = touched[p] \cup {d} /\ UNCHANGED <<memory, decisions>>
        /\ \A j \in Jobs \ {d} : jobs'[j] = jobs[j]
    BY <1>1, <1>a DEF InsertJob, WriteNotes, Doc, TypeOK
  <2> QED
    BY <2>1
<1>2. CASE SaveCandidateProfile(r)
  <2>1. touched'[p] = touched[p] \cup {Profile} /\ UNCHANGED <<memory, decisions, jobs>>
    BY <1>2, <1>a DEF SaveCandidateProfile
  <2> QED
    BY <2>1
<1>3. CASE UpdateStatus(r)
  <2>1. touched'[p] = touched[p] \cup {d} /\ UNCHANGED <<memory, decisions>>
        /\ \A j \in Jobs \ {d} : jobs'[j] = jobs[j]
    BY <1>3, <1>a DEF UpdateStatus, TypeOK
  <2> QED
    BY <2>1
<1>4. CASE RecordJobDecision(r)
  <2>1. touched'[p] = touched[p] \cup {Reflection} /\ UNCHANGED <<memory, jobs>>
    BY <1>4, <1>a DEF RecordJobDecision
  <2> QED
    BY <2>1
<1>5. CASE UpsertSemanticMemoryItem(r)
  <2>1. touched'[p] = touched[p] \cup {d} /\ UNCHANGED <<jobs, decisions>>
        /\ \A e \in Docs \ {d} : memory'[e] = memory[e]
    BY <1>5, <1>a DEF UpsertSemanticMemoryItem, TypeOK
  <2> QED
    BY <1>b, <2>1
<1>6. CASE ListJobs(r) \/ Learn(r)
  <2>1. touched'[p] = touched[p] /\ UNCHANGED <<memory, decisions, jobs>>
    BY <1>6 DEF ListJobs, Learn, tables, TypeOK
  <2> QED
    BY <2>1
<1>7. CASE ReadStatus(r) \/ Reload(r) \/ Reread(r) \/ Put(r)
  <2>1. UNCHANGED <<memory, decisions, jobs, touched>>
    BY <1>7 DEF ReadStatus, Reload, Reread, Put, tables, marks
  <2> QED
    BY <2>1
<1> QED
  BY <1>1, <1>2, <1>3, <1>4, <1>5, <1>6, <1>7 DEF Step

\* The list is made: all that is visible is held as it is.
LEMMA RepairList ==
    ASSUME TypeOK, Shape, NEW p \in Procs, ListJobs(p)
    PROVE  Repairing(p)'
<1>1. SUFFICES ASSUME procs'[p].op = "rebuild"
               PROVE  Repairing(p)'
  BY DEF Repairing
<1>2. PICK l \in Proc :
        /\ OfList(l, procs'[p]) /\ l.doc = None /\ l.op = procs[p].op
        /\ \A x \in l.todo : x.doc \in Selected(l.op) /\ x.copy = Current(x.doc)
        /\ \A j \in Selected(l.op) : \E x \in l.todo : x.doc = j /\ x.copy = Current(j)
  BY ListGoes
<1>3. l.op = "rebuild" /\ Selected(l.op) = Visible
  BY <1>1, <1>2, ListGoes DEF OfList, Selected
<1>4. \A j : \A c : Holds(procs'[p], j, c) => c = Current(j)
  BY <1>2, OfListHolds
<1>5. \A j \in Visible : Holds(procs'[p], j, Current(j))
  BY <1>1, <1>2, <1>3 DEF OfList, Holds
<1>6. procs'[p].doc # Reflection
  BY <1>2, <1>3, StoreAssumption DEF OfList, Visible, Stored, Idle
<1>7. Stored' = Stored /\ Visible' = Visible /\ \A j \in Stored : Current(j)' = Current(j)
  BY DEF ListJobs, tables, Stored, Visible, Current
<1>8. Visible \subseteq Stored
  BY DEF Visible
<1>9. \A j \in Stored' : \A c : Holds(procs'[p], j, c) => c = Current(j)'
  BY <1>4, <1>7
<1>10. \A j \in Visible' : Holds(procs'[p], j, Current(j)')
  BY <1>5, <1>7, <1>8
<1> QED
  BY <1>6, <1>9, <1>10 DEF Repairing, Holds

\* One goes on: what it held it holds, or has stored.
LEMMA RepairGoesOn ==
    ASSUME TypeOK, Shape, RebuildInv, NEW p \in Procs,
           procs[p].op = "rebuild", procs[p].pc # "list", UNCHANGED <<jobs, decisions>>,
           touched'[p] \cup {Reflection} = touched[p] \cup {Reflection},
           \A j \in Stored : \A c :
               Holds(procs'[p], j, c) => Holds(procs[p], j, c),
           \A j \in Stored : memory'[j] = memory[j] \/ Holds(procs[p], j, memory'[j]),
           \A j \in Stored : \A c : Holds(procs[p], j, c) =>
               Holds(procs'[p], j, c) \/ memory'[j] = c,
           procs'[p].doc = Reflection /\ Reflection \notin touched'[p] =>
               /\ procs'[p].pc = "upsert" => procs'[p].copy.text = Scanned
               /\ procs'[p].pc \in {"reread", "put"} => memory'[Reflection].text = Scanned
    PROVE  Repairing(p)'
<1>1. Stored' = Stored /\ Visible' = Visible /\ Scanned' = Scanned
      /\ \A j \in Stored : Current(j)' = Current(j)
  BY DEF Stored, Visible, Current, Scanned
<1>2. Visible \subseteq Stored /\ Reflection \notin Stored
  BY StoreAssumption DEF Visible, Stored
<1>3. \A j \in Stored : j \in touched'[p] <=> j \in touched[p]
  BY <1>2
<1>4. ASSUME NEW j \in Stored \ touched'[p]
      PROVE  /\ \A c : Holds(procs'[p], j, c) => c = Current(j)
             /\ j \in Visible => memory'[j] = Current(j) \/ Holds(procs'[p], j, Current(j))
  <2>1. /\ \A c : Holds(procs[p], j, c) => c = Current(j)
        /\ j \in Visible => memory[j] = Current(j) \/ Holds(procs[p], j, Current(j))
    BY <1>3, <1>4 DEF RebuildInv, Repairing
  <2> QED
    BY <1>4, <2>1
<1>5. \A j \in Stored' \ touched'[p] : \A c : Holds(procs'[p], j, c) => c = Current(j)'
  BY <1>1, <1>4
<1>6. \A j \in Visible' \ touched'[p] :
          memory'[j] = Current(j)' \/ Holds(procs'[p], j, Current(j)')
  <2>1. ASSUME NEW j \in Visible' \ touched'[p]
        PROVE  memory'[j] = Current(j)' \/ Holds(procs'[p], j, Current(j)')
    <3>1. j \in Stored \ touched'[p] /\ j \in Visible /\ Current(j)' = Current(j)
      BY <1>1, <1>2, <2>1
    <3> QED
      BY <1>4, <3>1
  <2> QED
    BY <2>1
<1> QED
  BY <1>1, <1>5, <1>6 DEF Repairing, Holds

LEMMA RepairUpsert ==
    ASSUME TypeOK, Shape, RebuildInv, NEW p \in Procs, UpsertSemanticMemoryItem(p)
    PROVE  Repairing(p)'
<1> DEFINE d == procs[p].doc
<1>1. /\ procs[p].pc = "upsert" /\ d \in Docs /\ Fit(procs[p])
      /\ d \in Stored \cup {Profile, Reflection}
  BY Ready DEF UpsertSemanticMemoryItem, At, Fit, Docs, Stored
<1>2. /\ memory'[d] = procs[p].copy /\ \A e \in Docs \ {d} : memory'[e] = memory[e]
      /\ UNCHANGED <<jobs, decisions>> /\ touched'[p] = touched[p]
  BY <1>1 DEF UpsertSemanticMemoryItem, Touch, TypeOK
<1>3. procs'[p].op \in {procs[p].op, "none"}
  <2>1. CASE Qdrant
    BY <2>1, StoreGoes DEF Same
  <2>2. CASE ~Qdrant
    BY <2>2, TurnGoes DEF UpsertSemanticMemoryItem, OfList
  <2> QED
    BY <2>1, <2>2
<1>4. SUFFICES ASSUME procs[p].op = "rebuild"
               PROVE  Repairing(p)'
  BY <1>3 DEF Repairing
<1>5. Holds(procs[p], d, procs[p].copy)
  BY <1>1 DEF Holds
<1>6. Stored \subseteq Docs /\ Reflection \notin Stored
  BY StoreAssumption DEF Stored, Docs
<1>7. \A j \in Stored : memory'[j] = memory[j] \/ Holds(procs[p], j, memory'[j])
  BY <1>2, <1>5, <1>6
<1>8. d = Reflection /\ Reflection \notin touched[p] => procs[p].copy.text = Scanned
  BY <1>1, <1>4 DEF RebuildInv, Repairing
<1>9. CASE Qdrant
  <2>1. procs'[p].pc = "reread" /\ procs'[p].op = "rebuild" /\ procs'[p].doc = d
        /\ procs'[p].todo = procs[p].todo
    BY <1>4, <1>9, StoreGoes DEF Same
  <2>2. \A j \in Stored : \A c : Holds(procs'[p], j, c) => Holds(procs[p], j, c)
    BY <1>4, <2>1 DEF Holds
  <2>3. \A j \in Stored : \A c : Holds(procs[p], j, c) =>
            Holds(procs'[p], j, c) \/ memory'[j] = c
    BY <1>2, <2>1 DEF Holds
  <2> QED
    BY <1>1, <1>2, <1>4, <1>7, <1>8, <2>1, <2>2, <2>3, RepairGoesOn
<1>10. CASE ~Qdrant
  <2>1. OfList(procs[p], procs'[p])
    BY <1>10, TurnGoes DEF UpsertSemanticMemoryItem
  <2>2. \A j \in Stored : \A c : Holds(procs'[p], j, c) => Holds(procs[p], j, c)
    BY <2>1, OfListHolds DEF Holds
  <2>3. \A j \in Stored : \A c : Holds(procs[p], j, c) =>
            Holds(procs'[p], j, c) \/ memory'[j] = c
    BY <1>2, <1>4, <2>1 DEF Holds, OfList
  <2>4. procs'[p].doc = Reflection => procs'[p].pc \notin {"upsert", "reread", "put"}
    BY <1>1, <1>6, <2>1 DEF OfList, Fit
  <2> QED
    BY <1>1, <1>2, <1>4, <1>7, <2>2, <2>3, <2>4, RepairGoesOn
<1> QED
  BY <1>9, <1>10

\* What the one that steps holds afterwards.
LEMMA RepairOwn ==
    ASSUME TypeOK, Shape, Shape', RebuildInv, NEW p \in Procs,
           Request(p) \/ Step(p) \/ LosePut(p)
    PROVE  Repairing(p)'
<1>a. Reflection \notin Stored
  BY StoreAssumption DEF Stored
<1>1. CASE Request(p)
  <2>1. procs'[p].pc \in {"write", "read", "list"}
    BY <1>1, RequestGoes
  <2>2. procs'[p].op = "rebuild" => procs'[p].pc = "list"
    BY <2>1 DEF Shape, Fit
  <2> QED
    BY <2>2 DEF Repairing
<1>2. CASE InsertJob(p) \/ WriteNotes(p) \/ SaveCandidateProfile(p)
  BY <1>2, WriteGoes DEF Same, Repairing
<1>3. CASE ReadStatus(p) \/ UpdateStatus(p) \/ RecordJobDecision(p)
  <2>1. procs[p].op \in {"status", "cleanup"}
    BY <1>3, Ready DEF ReadStatus, UpdateStatus, RecordJobDecision, At, Fit
  <2>2. procs'[p].op # "rebuild"
    <3>1. CASE ReadStatus(p)
      BY <2>1, <3>1, ReadGoes DEF Same
    <3>2. CASE UpdateStatus(p) /\ procs[p].from # procs[p].status
      BY <2>1, <3>2, UpdateGoes DEF Same
    <3>3. CASE Turn(p, procs[p])
      BY <2>1, <3>3, TurnGoes DEF OfList
    <3> QED
      BY <1>3, <3>1, <3>2, <3>3 DEF UpdateStatus, RecordJobDecision
  <2> QED
    BY <2>2 DEF Repairing
<1>4. CASE ListJobs(p)
  BY <1>4, RepairList
<1>5. CASE Reload(p)
  BY <1>5, StoreGoes DEF Same, Repairing
<1>6. CASE UpsertSemanticMemoryItem(p)
  BY <1>6, RepairUpsert
<1>7. CASE Reread(p)
  <2>1. /\ procs[p].pc = "reread" /\ procs'[p].pc = "put" /\ procs'[p].op = procs[p].op
        /\ procs'[p].doc = procs[p].doc /\ procs'[p].todo = procs[p].todo
    BY <1>7, StoreGoes DEF Same
  <2>2. SUFFICES ASSUME procs[p].op = "rebuild"
                 PROVE  Repairing(p)'
    BY <2>1 DEF Repairing
  <2>3. UNCHANGED <<jobs, decisions, memory, touched>>
    BY <1>7 DEF Reread, tables, marks
  <2>4. \A j \in Stored : \A c : Holds(procs'[p], j, c) <=> Holds(procs[p], j, c)
    BY <2>1 DEF Holds
  <2>5. procs[p].doc = Reflection /\ Reflection \notin touched[p] =>
            memory[Reflection].text = Scanned
    BY <2>1, <2>2 DEF RebuildInv, Repairing
  <2> QED
    BY <2>1, <2>2, <2>3, <2>4, <2>5, RepairGoesOn
<1>8. CASE Put(p) \/ LosePut(p)
  <2>1. /\ OfList(procs[p], procs'[p]) /\ procs[p].pc = "put" /\ Fit(procs[p])
    BY <1>8, TurnGoes, Ready DEF Put, LosePut, At
  <2>2. SUFFICES ASSUME procs[p].op = "rebuild"
                 PROVE  Repairing(p)'
    BY <2>1 DEF Repairing, OfList
  <2>3. UNCHANGED <<jobs, decisions, memory, touched>>
    BY <1>8 DEF Put, LosePut, tables
  <2>4. \A j \in Stored : \A c : Holds(procs'[p], j, c) <=> Holds(procs[p], j, c)
    BY <2>1, <2>2, OfListHolds DEF Holds, OfList
  <2>5. procs'[p].doc = Reflection => procs'[p].pc \notin {"upsert", "reread", "put"}
    BY <1>a, <2>1 DEF OfList, Fit
  <2> QED
    BY <2>1, <2>2, <2>3, <2>4, <2>5, RepairGoesOn
<1>9. CASE Learn(p)
  <2>1. /\ procs[p].pc = "learn" /\ procs[p].op = "rebuild" /\ procs[p].todo = {}
        /\ \/ procs'[p] = Idle
           \/ /\ procs'[p].pc = "upsert" /\ procs'[p].doc = Reflection
              /\ procs'[p].op = "rebuild" /\ procs'[p].todo = {}
              /\ procs'[p].copy = Current(Reflection)
    BY <1>9, StoreGoes
  <2>2. UNCHANGED <<jobs, decisions, memory>> /\ touched'[p] = touched[p] \ {Reflection}
    BY <1>9 DEF Learn, tables, TypeOK
  <2>3. \A j \in Stored : \A c : ~Holds(procs'[p], j, c) /\ ~Holds(procs[p], j, c)
    BY <1>a, <2>1 DEF Holds, Idle
  <2>4. Current(Reflection).text = Scanned
    BY StoreAssumption DEF Current
  <2>5. procs'[p].doc = Reflection /\ Reflection \notin touched'[p] =>
          /\ procs'[p].pc = "upsert" => procs'[p].copy.text = Scanned
          /\ procs'[p].pc \in {"reread", "put"} => memory'[Reflection].text = Scanned
    BY <2>1, <2>4, StoreAssumption DEF Idle
  <2> QED
    BY <2>1, <2>2, <2>3, <2>5, RepairGoesOn
<1> QED
  BY <1>1, <1>2, <1>3, <1>4, <1>5, <1>6, <1>7, <1>8, <1>9 DEF Step

LEMMA RebuildStep ==
    ASSUME TypeOK, Shape, RebuildInv, [Next]_vars
    PROVE  RebuildInv'
<1>a. Shape'
  BY LocalsKept
<1>1. ASSUME NEW r \in Procs, Request(r) \/ Step(r) \/ LosePut(r)
      PROVE  RebuildInv'
  <2>1. Repairing(r)'
    BY <1>1, <1>a, RepairOwn
  <2>2. ASSUME NEW p \in Procs \ {r}
        PROVE  Repairing(p)'
    <3>1. procs'[p] = procs[p]
      <4>1. CASE Request(r)
        BY <4>1, RequestGoes
      <4>2. CASE Turn(r, procs[r])
        BY <4>2, TurnGoes
      <4>3. CASE InsertJob(r) \/ WriteNotes(r) \/ SaveCandidateProfile(r)
        BY <4>3, WriteGoes
      <4>4. CASE ReadStatus(r)
        BY <4>4, ReadGoes
      <4>5. CASE UpdateStatus(r)
        BY <4>2, <4>5, UpdateGoes DEF UpdateStatus
      <4>6. CASE ListJobs(r)
        BY <4>6, ListGoes
      <4>7. CASE Reload(r) \/ Reread(r) \/ Learn(r)
        BY <4>7, StoreGoes
      <4>8. CASE UpsertSemanticMemoryItem(r)
        BY <4>2, <4>8, StoreGoes DEF UpsertSemanticMemoryItem
      <4>9. CASE RecordJobDecision(r) \/ Put(r) \/ LosePut(r)
        BY <4>2, <4>9 DEF RecordJobDecision, Put, LosePut
      <4> QED
        BY <1>1, <4>1, <4>3, <4>4, <4>5, <4>6, <4>7, <4>8, <4>9 DEF Step
    <3>2. CASE Step(r)
      BY <3>1, <3>2, StepTells, OthersTell
    <3>3. CASE Request(r) \/ LosePut(r)
      <4>1. UNCHANGED <<jobs, decisions, memory, touched>>
        BY <3>3, RequestGoes DEF LosePut, tables, marks
      <4> QED
        BY <3>1, <4>1, OthersTell
    <3> QED
      BY <1>1, <3>2, <3>3
  <2>3. \A p \in Procs : Repairing(p)'
    BY <2>1, <2>2
  <2> QED
    BY <2>3 DEF RebuildInv
<1>2. ASSUME NEW ps \in SUBSET Procs, Stop(ps)
      PROVE  RebuildInv'
  <2>1. UNCHANGED <<jobs, decisions, memory, touched>>
        /\ \A p \in Procs : procs'[p] = Idle \/ procs'[p] = procs[p]
    BY <1>2 DEF Stop, tables
  <2>2. ASSUME NEW p \in Procs
        PROVE  Repairing(p)'
    <3>1. CASE procs'[p] = Idle
      BY <3>1 DEF Repairing, Idle
    <3>2. CASE procs'[p] = procs[p]
      BY <2>1, <3>2, OthersTell
    <3> QED
      BY <2>1, <3>1, <3>2
  <2> QED
    BY <2>2 DEF RebuildInv
<1>3. CASE UNCHANGED vars
  <2>1. UNCHANGED <<jobs, decisions, memory, touched, procs>>
    BY <1>3 DEF vars, tables, marks
  <2>2. \A p \in Procs : Repairing(p)'
    BY <2>1, OthersTell
  <2> QED
    BY <2>2 DEF RebuildInv
<1> QED
  BY <1>1, <1>2, <1>3 DEF Next, Fail, Restart

LEMMA RebuildInit == Init => RebuildInv
  BY DEF Init, RebuildInv, Repairing, Idle

\* When a rebuild is through with the jobs, each visible one that nobody else
\* touched is remembered as it is, and in the end so is what was learned.
THEOREM RebuildCorrect == Spec => []RebuildRepairs
<1>1. TypeOK /\ Shape /\ RebuildInv /\ [Next]_vars => RebuildInv'
  BY RebuildStep
<1>2. TypeOK /\ Shape /\ RebuildInv => RebuildRepairs
  <2>1. SUFFICES ASSUME TypeOK, Shape, RebuildInv, NEW p \in Procs
                 PROVE  /\ Runs(p, "rebuild", "learn")
                           \/ (procs[p].op = "rebuild" /\ Doc(p) = Reflection) =>
                              \A j \in Visible \ touched[p] :
                                 memory[j] = [text |-> jobs[j].notes, status |-> jobs[j].status]
                        /\ Doc(p) = Reflection /\ procs[p].pc \in {"reread", "put"}
                           /\ Reflection \notin touched[p] =>
                              memory[Reflection].text = Scanned
    BY DEF RebuildRepairs
  <2>2. Fit(procs[p]) /\ Repairing(p)
    BY <2>1, Ready DEF RebuildInv
  <2>3. ASSUME procs[p].op = "rebuild", procs[p].pc = "learn" \/ procs[p].doc = Reflection,
               NEW j \in Visible \ touched[p]
        PROVE  memory[j] = [text |-> jobs[j].notes, status |-> jobs[j].status]
    <3>1. j \in Jobs /\ j # Reflection
      BY <2>3, StoreAssumption DEF Visible, Stored
    <3>2. procs[p].todo = {} /\ procs[p].pc # "list"
      BY <2>2, <2>3, StoreAssumption DEF Fit
    <3>3. \A c : ~Holds(procs[p], j, c)
      BY <2>3, <3>1, <3>2 DEF Holds
    <3> QED
      BY <2>2, <2>3, <3>1, <3>2, <3>3 DEF Repairing, Current
  <2>4. procs[p].doc = Reflection /\ procs[p].pc \in {"reread", "put"} => procs[p].op = "rebuild"
    BY <2>2 DEF Fit
  <2> QED
    BY <2>2, <2>3, <2>4 DEF Runs, At, Doc, Repairing
<1> QED
  BY <1>1, <1>2, RebuildInit, ShapeInvariant, PTL DEF Spec


=============================================================================
