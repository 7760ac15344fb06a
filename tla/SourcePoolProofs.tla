-------------------------- MODULE SourcePoolProofs --------------------------
(***************************************************************************)
(* For every number of goroutines, pages and names: the rows of the pool   *)
(* stay typed and linked, an accepted candidate has its source, what the   *)
(* user decided or switched off is left alone, and a candidate's verdict   *)
(* and confidence come from one write.                                     *)
(***************************************************************************)
EXTENDS SourcePool, SequenceTheorems, FiniteSetTheorems, TLAPS

Knows(l) == KnowsFinds(l) /\ KnowsInputs(l) /\ KnowsCandidate(l)
IInv == TypeOK /\ SourcesLinked /\ AcceptedHasSource /\ Locals

\* What every step does to the rows that exist: names and a candidate's page
\* stay, a source's page changes to the recommended one only.
CompaniesGrow ==
    \A c \in DOMAIN companies :
        c \in DOMAIN companies' /\ companies'[c].name = companies[c].name
SourcesGrow ==
    \A s \in DOMAIN sources :
        /\ s \in DOMAIN sources' /\ sources'[s].name = sources[s].name
        /\ \/ sources'[s].url = sources[s].url
           \/ \E i \in DOMAIN Recommended :
                Recommended[i].name = sources[s].name /\ Recommended[i].url = sources'[s].url
CandidatesGrow ==
    \A c \in DOMAIN candidates :
        c \in DOMAIN candidates' /\ candidates'[c].url = candidates[c].url
Grow == CompaniesGrow /\ SourcesGrow /\ CandidatesGrow

\* Rows that do not change grow.
LEMMA QuietGrows ==
    ASSUME UNCHANGED <<companies, sources, candidates>>
    PROVE  Grow
  BY DEF Grow, CompaniesGrow, SourcesGrow, CandidatesGrow

\* The company of a source stays the right one.
LEMMA LinkedGrows ==
    ASSUME CompaniesGrow, NEW c, NEW n, Linked(c, n)
    PROVE  Linked(c, n)'
  BY DEF CompaniesGrow, Linked

\* A source goes on visiting the page it was inserted for.
LEMMA VisitsGrows ==
    ASSUME SourcesGrow, NEW s, NEW u, Visits(s, u)
    PROVE  Visits(s, u)'
  BY DEF SourcesGrow, Visits

\* What a goroutine knows survives the steps of the others.
LEMMA KnowsGrows ==
    ASSUME Grow, NEW l, Knows(l)
    PROVE  Knows(l)'
<1>1. KnowsFinds(l)'
  BY DEF Grow, CandidatesGrow, Knows, KnowsFinds
<1>2. KnowsInputs(l)'
  <2>1. l.pc \in {"look", "refresh_source", "insert_source"} =>
            Linked(l.company, l.inputs[1].name)'
    BY LinkedGrows DEF Grow, Knows, KnowsInputs
  <2>2. l.pc = "refresh_source" =>
            l.row \in DOMAIN sources' /\ sources'[l.row].name = l.inputs[1].name
    BY DEF Grow, SourcesGrow, Knows, KnowsInputs
  <2> QED
    BY <2>1, <2>2 DEF Knows, KnowsInputs
<1>3. KnowsCandidate(l)'
  <2>1. l.op = "accept" =>
            /\ l.candidate \in DOMAIN candidates'
            /\ candidates'[l.candidate].url = candidates[l.candidate].url
    BY DEF Grow, CandidatesGrow, Knows, KnowsCandidate
  <2>2. l.pc = "mark" => Visits(l.row, candidates[l.candidate].url)
    BY DEF Knows, KnowsCandidate
  <2>3. ASSUME NEW u, Visits(l.row, u)
        PROVE  Visits(l.row, u)'
    BY <2>3, VisitsGrows DEF Grow
  <2>4. PICK u : u = candidates[l.candidate].url
    OBVIOUS
  <2>5. l.pc = "mark" => Visits(l.row, u)'
    BY <2>2, <2>3, <2>4
  <2>6. l.pc = "mark" => u = candidates'[l.candidate].url
    BY <2>1, <2>4 DEF Knows, KnowsCandidate
  <2>7. l.pc = "mark" => Visits(l.row, candidates[l.candidate].url)'
    BY <2>5, <2>6 DEF Visits
  <2> QED
    BY <2>1, <2>7 DEF Knows, KnowsCandidate
<1> QED
  BY <1>1, <1>2, <1>3 DEF Knows

\* A step of p that leaves it with the record m.
LEMMA LocalStep ==
    ASSUME IInv, Grow, NEW p \in Procs, NEW m \in Proc,
           procs' = [procs EXCEPT ![p] = m], Knows(m)'
    PROVE  procs' \in [Procs -> Proc] /\ Locals'
<1>1. procs' \in [Procs -> Proc]
  BY DEF IInv, TypeOK
<1>2. ASSUME NEW q \in Procs
      PROVE  Knows(procs[q])'
  <2>1. CASE q = p
    BY <2>1 DEF IInv, TypeOK, Knows, KnowsFinds, KnowsInputs, KnowsCandidate, Linked, Visits
  <2>2. CASE q # p
    <3>1. PICK l : l = procs[q]
      OBVIOUS
    <3>2. Knows(l)
      BY <3>1 DEF IInv, Locals, Knows
    <3>3. Knows(l)'
      BY <3>2, KnowsGrows
    <3>4. procs'[q] = l
      BY <2>2, <3>1 DEF IInv, TypeOK
    <3> QED
      BY <3>3, <3>4, ZenonT(40) DEF Knows, KnowsFinds, KnowsInputs, KnowsCandidate, Linked, Visits
  <2> QED
    BY <2>1, <2>2
<1> QED
  BY <1>1, <1>2 DEF Locals, Knows

\* A step that only moves p.
LEMMA QuietStep ==
    ASSUME IInv, NEW p \in Procs, NEW m \in Proc,
           procs' = [procs EXCEPT ![p] = m], Knows(m),
           UNCHANGED <<companies, sources, candidates>>,
           serving' \in BOOLEAN,
           spent' \in Spent
    PROVE  IInv'
<1>1. Grow
  BY QuietGrows
<1>2. Knows(m)'
  BY <1>1, KnowsGrows
<1>3. procs' \in [Procs -> Proc] /\ Locals'
  BY <1>1, <1>2, LocalStep
<1>4. TypeOK'
  BY <1>3 DEF IInv, TypeOK
<1>5. SourcesLinked' /\ AcceptedHasSource'
  BY DEF IInv, SourcesLinked, AcceptedHasSource, Linked, Visits
<1> QED
  BY <1>3, <1>4, <1>5 DEF IInv

\* A goroutine that has returned knows nothing.
LEMMA IdleKnows == Idle \in Proc /\ Knows(Idle)
<1>1. Idle \in Proc
  BY DEF Idle, Proc, Ops
<1>2. Knows(Idle)
  BY DEF Idle, Knows, KnowsFinds, KnowsInputs, KnowsCandidate
<1> QED
  BY <1>1, <1>2

\* The bounds are numbers.
LEMMA Bounds ==
    /\ ValidateLimit \in Nat /\ MaxChecks \in Nat /\ MaxSwitches \in Nat
    /\ MaxFaults \in Nat /\ MaxCrashes \in Nat
  BY PoolAssumption

\* What is known of the goroutine that takes the step.
LEMMA MyLocals ==
    ASSUME IInv, NEW p \in Procs
    PROVE  procs[p] \in Proc /\ Knows(procs[p])
  BY DEF IInv, TypeOK, Locals, Knows

-----------------------------------------------------------------------------
(* Steps that change no row.                                               *)

\* The list a discovery works off is a non-empty list of proposals.
LEMMA DedupedIsList ==
    ASSUME NEW found \in Seq(Proposal), NEW d \in Deduped(found)
    PROVE  d \in Seq(Proposal) /\ d # <<>>
<1>1. PICK n \in 1..Len(found) : \E at \in [1..n -> Firsts(found)] :
            d = [k \in DOMAIN at |-> found[at[k]]]
  <2>1. PICK at \in UNION {[1..n -> Firsts(found)] : n \in 1..Len(found)} :
            d = [k \in DOMAIN at |-> found[at[k]]]
    BY DEF Deduped
  <2> QED
    BY <2>1
<1>0. PICK at \in [1..n -> Firsts(found)] : d = [k \in DOMAIN at |-> found[at[k]]]
  BY <1>1
<1>2. n \in Nat \ {0} /\ DOMAIN at = 1..n
  BY <1>0
<1>3. \A k \in 1..n : found[at[k]] \in Proposal
  BY <1>0 DEF Firsts
<1>4. d \in [1..n -> Proposal]
  BY <1>0, <1>2, <1>3
<1>5. d \in Seq(Proposal) /\ Len(d) = n
  BY <1>2, <1>4
<1> QED
  BY <1>2, <1>5

\* A discovery begins with its list of proposals.
LEMMA DiscoverKeeps ==
    ASSUME IInv, NEW p \in Procs, Discover(p)
    PROVE  IInv'
<1>0. PICK web \in WebResults : \E found \in Deduped(Rules \o web) :
            Goto(p, [Idle EXCEPT !.op = "discover", !.pc = "find", !.finds = found])
  BY DEF Discover
<1>1. PICK found \in Deduped(Rules \o web) :
            Goto(p, [Idle EXCEPT !.op = "discover", !.pc = "find", !.finds = found])
  BY <1>0
<1>2. Rules \o web \in Seq(Proposal)
  BY <1>0, PoolAssumption, ConcatProperties
<1>3. found \in Seq(Proposal) /\ found # <<>>
  BY <1>2, DedupedIsList
<1>4. PICK m : m = [Idle EXCEPT !.op = "discover", !.pc = "find", !.finds = found]
  OBVIOUS
<1>5. m \in Proc
  BY <1>3, <1>4, IdleKnows DEF Proc, Ops
<1>6. Knows(m)
  BY <1>3, <1>4 DEF Idle, Knows, KnowsFinds, KnowsInputs, KnowsCandidate
<1> QED
  BY <1>1, <1>4, <1>5, <1>6, QuietStep DEF Goto, Discover, pool, IInv, TypeOK

\* A proposal is looked up.
LEMMA FindCandidateKeeps ==
    ASSUME IInv, NEW p \in Procs, FindCandidate(p)
    PROVE  IInv'
<1>1. PICK l : l = procs[p]
  OBVIOUS
<1>2. l \in Proc /\ Knows(l) /\ l.pc = "find"
  BY <1>1, MyLocals DEF FindCandidate, At
<1>3. \/ Goto(p, [l EXCEPT !.pc = "insert"])
      \/ \E c \in DOMAIN candidates : Goto(p, [l EXCEPT !.pc = "refresh", !.row = c])
  BY <1>1 DEF FindCandidate
<1>4. CASE Goto(p, [l EXCEPT !.pc = "insert"])
  <2>1. PICK m : m = [l EXCEPT !.pc = "insert"]
    OBVIOUS
  <2>2. m \in Proc
    BY <1>2, <2>1 DEF Proc
  <2>3. Knows(m)
    BY <1>2, <2>1 DEF Proc, Knows, KnowsFinds, KnowsInputs, KnowsCandidate
  <2> QED
    BY <1>4, <2>1, <2>2, <2>3, QuietStep DEF Goto, FindCandidate, pool, IInv, TypeOK
<1>5. ASSUME NEW c \in DOMAIN candidates, Goto(p, [l EXCEPT !.pc = "refresh", !.row = c])
      PROVE  IInv'
  <2>1. PICK m : m = [l EXCEPT !.pc = "refresh", !.row = c]
    OBVIOUS
  <2>2. c \in Nat
    BY DEF IInv, TypeOK
  <2>3. m \in Proc
    BY <1>2, <2>1, <2>2 DEF Proc
  <2>4. Knows(m)
    BY <1>2, <2>1 DEF Proc, Knows, KnowsFinds, KnowsInputs, KnowsCandidate
  <2> QED
    BY <1>5, <2>1, <2>3, <2>4, QuietStep DEF Goto, FindCandidate, pool, IInv, TypeOK
<1> QED
  BY <1>3, <1>4, <1>5

\* The user accepts a candidate.
LEMMA AcceptKeeps ==
    ASSUME IInv, NEW p \in Procs, Accept(p)
    PROVE  IInv'
<1>0. PICK c \in DOMAIN candidates :
        LET input == [name |-> Trimmed[candidates[c].label], url |-> candidates[c].url,
                      enabled |-> TRUE]
        IN  Goto(p, [Idle EXCEPT !.op = "accept", !.pc = "company",
                                 !.inputs = <<input>>, !.candidate = c])
  BY DEF Accept
<1>8. PICK input : input = [name |-> Trimmed[candidates[c].label], url |-> candidates[c].url,
                            enabled |-> TRUE]
  OBVIOUS
<1>1. /\ input = [name |-> Trimmed[candidates[c].label], url |-> candidates[c].url,
                  enabled |-> TRUE]
      /\ Goto(p, [Idle EXCEPT !.op = "accept", !.pc = "company",
                              !.inputs = <<input>>, !.candidate = c])
  BY <1>0, <1>8
<1>2. c \in Nat /\ candidates[c] \in CandidateRow
  BY DEF IInv, TypeOK
<1>3. input \in SourceInput
  BY <1>1, <1>2, PoolAssumption DEF CandidateRow, SourceInput
<1>4. PICK m : m = [Idle EXCEPT !.op = "accept", !.pc = "company",
                                !.inputs = <<input>>, !.candidate = c]
  OBVIOUS
<1>7. <<input>> \in Seq(SourceInput)
  BY <1>3
<1>5. m \in Proc
  BY <1>2, <1>4, <1>7, IdleKnows DEF Proc, Ops
<1>6. Knows(m)
  BY <1>1, <1>4 DEF Idle, Knows, KnowsFinds, KnowsInputs, KnowsCandidate
<1> QED
  BY <1>1, <1>4, <1>5, <1>6, QuietStep DEF Goto, Accept, pool, IInv, TypeOK

\* An operation that begins with a list of sources.
LEMMA ListKeeps ==
    ASSUME IInv, NEW p \in Procs, NEW op \in {"create", "seed", "start"},
           NEW list \in Seq(SourceInput), list # <<>>,
           op = "seed" => list = Recommended,
           Goto(p, [Idle EXCEPT !.op = op, !.pc = "company", !.inputs = list]),
           UNCHANGED <<companies, sources, candidates, serving, spent>>
    PROVE  IInv'
<1>1. PICK m : m = [Idle EXCEPT !.op = op, !.pc = "company", !.inputs = list]
  OBVIOUS
<1>2. m \in Proc
  BY <1>1, IdleKnows DEF Proc, Ops
<1>3. Knows(m)
  BY <1>1 DEF Idle, Knows, KnowsFinds, KnowsInputs, KnowsCandidate
<1> QED
  BY <1>1, <1>2, <1>3, QuietStep DEF Goto, IInv, TypeOK

\* The user types in a source.
LEMMA CreateSourceKeeps ==
    ASSUME IInv, NEW p \in Procs, CreateSource(p)
    PROVE  IInv'
<1>1. PICK input \in Typed :
        Goto(p, [Idle EXCEPT !.op = "create", !.pc = "company", !.inputs = <<input>>])
  BY DEF CreateSource
<1>2. <<input>> \in Seq(SourceInput) /\ <<input>> # <<>>
  BY PoolAssumption
<1> QED
  BY <1>1, <1>2, ListKeeps DEF CreateSource, pool

\* The recommended sources are seeded.
LEMMA SeedKeeps ==
    ASSUME IInv, NEW p \in Procs, SeedRecommendedSources(p)
    PROVE  IInv'
  BY ListKeeps, PoolAssumption DEF SeedRecommendedSources, pool

\* The process starts.
LEMMA StartKeeps ==
    ASSUME IInv, NEW p \in Procs, Start(p)
    PROVE  IInv'
<1>1. CASE Configured = <<>>
  <2>1. PICK m : m = procs[p]
    OBVIOUS
  <2>2. procs' = [procs EXCEPT ![p] = m]
    BY <1>1, <2>1 DEF Start, IInv, TypeOK
  <2> QED
    BY <1>1, <2>1, <2>2, MyLocals, QuietStep DEF Start, pool, IInv, TypeOK
<1>2. CASE Configured # <<>>
  BY <1>2, ListKeeps, PoolAssumption DEF Start, pool
<1> QED
  BY <1>1, <1>2

\* A company is looked up.
LEMMA FindCompanyKeeps ==
    ASSUME IInv, NEW p \in Procs, FindCompany(p)
    PROVE  IInv'
<1>1. PICK l : l = procs[p]
  OBVIOUS
<1>2. l \in Proc /\ Knows(l) /\ l.pc = "company"
  BY <1>1, MyLocals DEF FindCompany, At
<1>3. l.inputs # <<>> /\ Head(l.inputs) = l.inputs[1]
  BY <1>2 DEF Proc, Knows, KnowsInputs
<1>4. \/ Goto(p, [l EXCEPT !.pc = "new_company"])
      \/ \E c \in DOMAIN companies :
            /\ Linked(c, l.inputs[1].name)
            /\ Goto(p, [l EXCEPT !.pc = AfterCompany(l), !.company = c])
  BY <1>1, <1>3 DEF FindCompany, Linked
<1>5. CASE Goto(p, [l EXCEPT !.pc = "new_company"])
  <2>1. PICK m : m = [l EXCEPT !.pc = "new_company"]
    OBVIOUS
  <2>2. m \in Proc
    BY <1>2, <2>1 DEF Proc
  <2>3. Knows(m)
    BY <1>2, <1>3, <2>1 DEF Proc, Knows, KnowsFinds, KnowsInputs, KnowsCandidate
  <2> QED
    BY <1>5, <2>1, <2>2, <2>3, QuietStep DEF Goto, FindCompany, pool, IInv, TypeOK
<1>6. ASSUME NEW c \in DOMAIN companies, Linked(c, l.inputs[1].name),
             Goto(p, [l EXCEPT !.pc = AfterCompany(l), !.company = c])
      PROVE  IInv'
  <2>1. PICK m : m = [l EXCEPT !.pc = AfterCompany(l), !.company = c]
    OBVIOUS
  <2>2. c \in Nat
    BY DEF IInv, TypeOK
  <2>3. m \in Proc
    BY <1>2, <2>1, <2>2 DEF Proc, AfterCompany
  <2>4. Knows(m)
    BY <1>2, <1>3, <1>6, <2>1
    DEF Proc, AfterCompany, Knows, KnowsFinds, KnowsInputs, KnowsCandidate
  <2> QED
    BY <1>6, <2>1, <2>3, <2>4, QuietStep DEF Goto, FindCompany, pool, IInv, TypeOK
<1> QED
  BY <1>4, <1>5, <1>6

\* A source is looked up.
LEMMA LookForSourceKeeps ==
    ASSUME IInv, NEW p \in Procs, LookForSource(p)
    PROVE  IInv'
<1>1. PICK l : l = procs[p]
  OBVIOUS
<1>2. l \in Proc /\ Knows(l) /\ l.pc = "look"
  BY <1>1, MyLocals DEF LookForSource, At
<1>3. l.inputs # <<>> /\ Head(l.inputs) = l.inputs[1]
  BY <1>2 DEF Proc, Knows, KnowsInputs
<1>4. \/ Goto(p, [l EXCEPT !.pc = "insert_source"])
      \/ \E s \in DOMAIN sources :
            /\ sources[s].name = l.inputs[1].name
            /\ Goto(p, [l EXCEPT !.pc = "refresh_source", !.row = s])
  BY <1>1, <1>3 DEF LookForSource
<1>5. CASE Goto(p, [l EXCEPT !.pc = "insert_source"])
  <2>1. PICK m : m = [l EXCEPT !.pc = "insert_source"]
    OBVIOUS
  <2>2. m \in Proc
    BY <1>2, <2>1 DEF Proc
  <2>3. Knows(m)
    BY <1>2, <1>3, <2>1 DEF Proc, Knows, KnowsFinds, KnowsInputs, KnowsCandidate
  <2> QED
    BY <1>5, <2>1, <2>2, <2>3, QuietStep DEF Goto, LookForSource, pool, IInv, TypeOK
<1>6. ASSUME NEW s \in DOMAIN sources, sources[s].name = l.inputs[1].name,
             Goto(p, [l EXCEPT !.pc = "refresh_source", !.row = s])
      PROVE  IInv'
  <2>1. PICK m : m = [l EXCEPT !.pc = "refresh_source", !.row = s]
    OBVIOUS
  <2>2. s \in Nat
    BY DEF IInv, TypeOK
  <2>3. m \in Proc
    BY <1>2, <2>1, <2>2 DEF Proc
  <2>4. Knows(m)
    BY <1>2, <1>3, <1>6, <2>1 DEF Proc, Knows, KnowsFinds, KnowsInputs, KnowsCandidate
  <2> QED
    BY <1>6, <2>1, <2>3, <2>4, QuietStep DEF Goto, LookForSource, pool, IInv, TypeOK
<1> QED
  BY <1>4, <1>5, <1>6

\* A list of validations names candidates.
LEMMA ListsNameCandidates ==
    ASSUME IInv, NEW list \in {<<c>> : c \in DOMAIN candidates} \cup ToolLists
    PROVE  list \in Seq(Nat) /\ \A i \in DOMAIN list : list[i] \in DOMAIN candidates
<1>1. DOMAIN candidates = 1..Len(candidates) /\ Len(candidates) \in Nat
  BY DEF IInv, TypeOK
<1>2. ASSUME NEW c \in DOMAIN candidates, list = <<c>>
      PROVE  list \in Seq(Nat) /\ \A i \in DOMAIN list : list[i] \in DOMAIN candidates
  <2>1. c \in Nat
    BY <1>1
  <2> QED
    BY <1>2, <2>1
<1>3. CASE list \in ToolLists
  <2>1. IsFiniteSet(Pending)
    <3>1. Pending \subseteq 1..Len(candidates)
      BY <1>1 DEF Pending
    <3>2. IsFiniteSet(1..Len(candidates))
      BY <1>1, FS_Interval
    <3> QED
      BY <3>1, <3>2, FS_Subset
  <2>2. Cardinality(Pending) \in Nat
    BY <2>1, FS_CardinalityType
  <2>3. PICK n \in Nat : list \in [1..n -> Pending]
    <3>1. PICK n : /\ n = IF Cardinality(Pending) < ValidateLimit THEN Cardinality(Pending)
                          ELSE ValidateLimit
                   /\ list \in [1..n -> Pending]
      BY <1>3 DEF ToolLists
    <3> QED
      BY <2>2, <3>1, Bounds
  <2>4. list \in Seq(Pending)
    BY <2>3
  <2> QED
    BY <1>1, <2>3, <2>4 DEF Pending
<1> QED
  BY <1>2, <1>3

\* A validation begins.
LEMMA ValidateKeeps ==
    ASSUME IInv, NEW p \in Procs, Validate(p)
    PROVE  IInv'
<1>1. PICK list \in {<<c>> : c \in DOMAIN candidates} \cup ToolLists :
        /\ list # <<>>
        /\ Goto(p, [Idle EXCEPT !.op = "validate", !.pc = "read", !.checks = list])
  BY DEF Validate
<1>2. list \in Seq(Nat) /\ \A i \in DOMAIN list : list[i] \in DOMAIN candidates
  BY <1>1, ListsNameCandidates
<1>3. PICK m : m = [Idle EXCEPT !.op = "validate", !.pc = "read", !.checks = list]
  OBVIOUS
<1>4. m \in Proc
  BY <1>2, <1>3, IdleKnows DEF Proc, Ops
<1>5. Knows(m)
  BY <1>1, <1>2, <1>3 DEF Idle, Knows, KnowsFinds, KnowsInputs, KnowsCandidate
<1>6. spent' \in Spent
  BY Bounds, SMTT(30) DEF Validate, IInv, TypeOK, Spent
<1> QED
  BY <1>1, <1>3, <1>4, <1>5, <1>6, QuietStep DEF Goto, Validate, pool, IInv, TypeOK

\* A candidate is read before its page is fetched.
LEMMA ReadCandidateKeeps ==
    ASSUME IInv, NEW p \in Procs, ReadCandidate(p)
    PROVE  IInv'
<1>1. PICK l : l = procs[p]
  OBVIOUS
<1>2. l \in Proc /\ Knows(l) /\ l.pc = "read"
  BY <1>1, MyLocals DEF ReadCandidate, At
<1>3. l.checks # <<>> /\ Head(l.checks) \in DOMAIN candidates
  BY <1>2 DEF Proc, Knows, KnowsFinds
<1>4. PICK v : v = candidates[Head(l.checks)].confidence
  OBVIOUS
<1>10. candidates[Head(l.checks)] \in CandidateRow
  BY <1>3 DEF IInv, TypeOK
<1>5. v \in 0..100
  BY <1>4, <1>10 DEF IInv, TypeOK, CandidateRow
<1>6. PICK m : m = [l EXCEPT !.pc = "judge", !.confidence = v]
  OBVIOUS
<1>7. m \in Proc
  BY <1>2, <1>5, <1>6 DEF Proc
<1>8. Knows(m)
  BY <1>2, <1>3, <1>6 DEF Proc, Knows, KnowsFinds, KnowsInputs, KnowsCandidate
<1>9. procs' = [procs EXCEPT ![p] = m]
  BY <1>1, <1>4, <1>6 DEF ReadCandidate, Goto
<1> QED
  BY <1>7, <1>8, <1>9, QuietStep DEF ReadCandidate, pool, IInv, TypeOK

\* A statement fails.
LEMMA FailsKeeps ==
    ASSUME IInv, NEW p \in Procs, Fails(p)
    PROVE  IInv'
<1>1. procs' = [procs EXCEPT ![p] = Idle]
  BY DEF Fails, Abandon, Goto
<1>2. spent' \in Spent
  <2>1. spent \in Spent /\ spent.faults < MaxFaults /\ spent' = [spent EXCEPT !.faults = spent.faults + 1]
    BY DEF Fails, IInv, TypeOK
  <2>2. spent.faults + 1 \in 0..MaxFaults
    BY <2>1, Bounds DEF Spent
  <2> QED
    BY <2>1, <2>2 DEF Spent
<1> QED
  BY <1>1, <1>2, IdleKnows, QuietStep DEF Fails, pool, IInv, TypeOK

\* The process stops.
LEMMA CrashKeeps ==
    ASSUME IInv, Crash
    PROVE  IInv'
<1>1. procs' \in [Procs -> Proc] /\ \A p \in Procs : procs'[p] = Idle
  BY IdleKnows DEF Crash
<1>2. Knows(Idle)'
  BY IdleKnows, KnowsGrows, QuietGrows DEF Crash, pool
<1>3. Locals'
  BY <1>1, <1>2 DEF Locals, Knows, KnowsFinds, KnowsInputs, KnowsCandidate
<1>6. spent' \in Spent
  <2>1. spent \in Spent /\ spent.crashes < MaxCrashes /\ spent' = [spent EXCEPT !.crashes = spent.crashes + 1]
    BY DEF Crash, IInv, TypeOK
  <2>2. spent.crashes + 1 \in 0..MaxCrashes
    BY <2>1, Bounds DEF Spent
  <2> QED
    BY <2>1, <2>2 DEF Spent
<1>4. TypeOK'
  BY <1>1, <1>6 DEF Crash, pool, IInv, TypeOK
<1>5. SourcesLinked' /\ AcceptedHasSource'
  BY DEF Crash, pool, IInv, SourcesLinked, AcceptedHasSource, Linked, Visits
<1> QED
  BY <1>3, <1>4, <1>5 DEF IInv

-----------------------------------------------------------------------------
(* Steps that change a candidate.                                          *)

Unique(rows) == \A i, j \in DOMAIN rows : rows[i].url = rows[j].url => i = j

\* What AcceptedHasSource says of one row.
Backed(row) ==
    /\ row.status = "accepted" => row.source # 0
    /\ row.status = "pending" => row.source = 0
    /\ row.source # 0 => Visits(row.source, row.url)

\* A step of p that changes candidates only.
LEMMA CandidateStep ==
    ASSUME IInv, NEW p \in Procs, NEW m \in Proc,
           procs' = [procs EXCEPT ![p] = m], Knows(m),
           UNCHANGED <<companies, sources>>,
           serving' \in BOOLEAN, spent' \in Spent,
           candidates' \in Seq(CandidateRow), Unique(candidates'), CandidatesGrow,
           \A c \in DOMAIN candidates' : Backed(candidates'[c])
    PROVE  IInv'
<1>1. Grow
  BY DEF Grow, CompaniesGrow, SourcesGrow
<1>2. Knows(m)'
  BY <1>1, KnowsGrows
<1>3. procs' \in [Procs -> Proc] /\ Locals'
  BY <1>1, <1>2, LocalStep
<1>4. TypeOK'
  BY <1>3 DEF IInv, TypeOK, Unique
<1>5. SourcesLinked'
  BY DEF IInv, SourcesLinked, Linked
<1>6. AcceptedHasSource'
  BY DEF AcceptedHasSource, Backed, Visits
<1> QED
  BY <1>3, <1>4, <1>5, <1>6 DEF IInv

\* A row that is replaced by one of the same URL.
LEMMA ReplaceCandidate ==
    ASSUME IInv, NEW c \in DOMAIN candidates, NEW row \in CandidateRow,
           row.url = candidates[c].url, Backed(row),
           candidates' = [candidates EXCEPT ![c] = row]
    PROVE  /\ candidates' \in Seq(CandidateRow) /\ Unique(candidates') /\ CandidatesGrow
           /\ \A d \in DOMAIN candidates' : Backed(candidates'[d])
<1>1. candidates \in Seq(CandidateRow) /\ Unique(candidates)
  BY DEF IInv, TypeOK, Unique
<1>2. candidates' \in Seq(CandidateRow) /\ DOMAIN candidates' = DOMAIN candidates
  BY <1>1
<1>3. \A d \in DOMAIN candidates : candidates'[d].url = candidates[d].url
  BY <1>1
<1>4. CandidatesGrow /\ Unique(candidates')
  BY <1>1, <1>2, <1>3 DEF CandidatesGrow, Unique
<1>5. \A d \in DOMAIN candidates : Backed(candidates[d])
  BY DEF IInv, AcceptedHasSource, Backed
<1> QED
  BY <1>2, <1>4, <1>5

\* The rest of a discovery's list.
LEMMA NextProposalKnows ==
    ASSUME NEW l \in Proc, Knows(l), l.pc \in {"refresh", "insert"}, NEW m,
           m = IF Tail(l.finds) = <<>> THEN Idle
               ELSE [l EXCEPT !.pc = "find", !.finds = Tail(l.finds)]
    PROVE  m \in Proc /\ Knows(m)
<1>1. CASE Tail(l.finds) = <<>>
  BY <1>1, IdleKnows
<1>2. CASE Tail(l.finds) # <<>>
  <2>1. Tail(l.finds) \in Seq(Proposal)
    BY DEF Proc, Knows, KnowsFinds
  <2>2. m = [l EXCEPT !.pc = "find", !.finds = Tail(l.finds)]
    BY <1>2
  <2>3. m \in Proc
    BY <2>1, <2>2 DEF Proc
  <2>4. Knows(m)
    BY <1>2, <2>2 DEF Proc, Knows, KnowsFinds, KnowsInputs, KnowsCandidate
  <2> QED
    BY <2>3, <2>4
<1> QED
  BY <1>1, <1>2

\* A pending candidate is refreshed.
LEMMA RefreshCandidateKeeps ==
    ASSUME IInv, NEW p \in Procs, RefreshCandidate(p)
    PROVE  IInv'
<1>1. PICK l : l = procs[p]
  OBVIOUS
<1>2. l \in Proc /\ Knows(l) /\ l.pc = "refresh"
  BY <1>1, MyLocals DEF RefreshCandidate, At
<1>3. PICK m : m = IF Tail(l.finds) = <<>> THEN Idle
                   ELSE [l EXCEPT !.pc = "find", !.finds = Tail(l.finds)]
  OBVIOUS
<1>4. m \in Proc /\ Knows(m)
  BY <1>2, <1>3, NextProposalKnows
<1>5. procs' = [procs EXCEPT ![p] = m]
  BY <1>1, <1>3 DEF RefreshCandidate, NextProposal, Goto
<1>6. l.row \in DOMAIN candidates
  BY <1>2 DEF Knows, KnowsFinds
<1>7. CASE candidates' = candidates
  BY <1>4, <1>5, <1>7, QuietStep DEF RefreshCandidate, pool, IInv, TypeOK
<1>8. CASE candidates' # candidates
  <2>1. PICK found : found = Head(l.finds)
    OBVIOUS
  <2>2. found \in Proposal
    BY <1>2, <2>1 DEF Proc, Knows, KnowsFinds
  <2>3. candidates' = [candidates EXCEPT ![l.row].label = found.label,
                                         ![l.row].confidence = found.confidence,
                                         ![l.row].verdict = "reachable_candidate"]
    BY <1>1, <1>8, <2>1 DEF RefreshCandidate
  <2>4. candidates[l.row] \in CandidateRow /\ candidates \in Seq(CandidateRow)
    BY <1>6 DEF IInv, TypeOK
  <2>5. PICK row : row = [candidates[l.row] EXCEPT !.label = found.label,
                            !.confidence = found.confidence,
                            !.verdict = "reachable_candidate"]
    OBVIOUS
  <2>6. /\ row \in CandidateRow
        /\ row.url = candidates[l.row].url /\ row.status = candidates[l.row].status
        /\ row.source = candidates[l.row].source
    BY <2>2, <2>4, <2>5 DEF CandidateRow, Proposal, Verdicts
  <2>7. Backed(row)
    BY <1>6, <2>6 DEF IInv, AcceptedHasSource, Backed
  <2>8. candidates' = [candidates EXCEPT ![l.row] = row]
    BY <1>6, <2>3, <2>4, <2>5
  <2> QED
    BY <1>4, <1>5, <1>6, <2>6, <2>7, <2>8, ReplaceCandidate, CandidateStep
    DEF RefreshCandidate, pool, IInv, TypeOK
<1> QED
  BY <1>7, <1>8

\* A candidate is inserted, or its URL is taken.
LEMMA InsertCandidateKeeps ==
    ASSUME IInv, NEW p \in Procs, InsertCandidate(p)
    PROVE  IInv'
<1>1. PICK l : l = procs[p]
  OBVIOUS
<1>2. l \in Proc /\ Knows(l) /\ l.pc = "insert"
  BY <1>1, MyLocals DEF InsertCandidate, At
<1>3. PICK found : found = Head(l.finds)
  OBVIOUS
<1>4. found \in Proposal
  BY <1>2, <1>3 DEF Proc, Knows, KnowsFinds
<1>5. CASE candidates' = candidates
  <2>1. \/ procs' = [procs EXCEPT ![p] = Idle]
        \/ NextProposal(p)
    BY DEF InsertCandidate, Goto
  <2>2. CASE NextProposal(p)
    <3>1. PICK m : m = IF Tail(l.finds) = <<>> THEN Idle
                       ELSE [l EXCEPT !.pc = "find", !.finds = Tail(l.finds)]
      OBVIOUS
    <3>2. m \in Proc /\ Knows(m)
      BY <1>2, <3>1, NextProposalKnows
    <3> QED
      BY <1>1, <1>5, <2>2, <3>1, <3>2, QuietStep
      DEF InsertCandidate, NextProposal, Goto, pool, IInv, TypeOK
  <2> QED
    BY <1>5, <2>1, <2>2, IdleKnows, QuietStep DEF InsertCandidate, pool, IInv, TypeOK
<1>6. CASE candidates' # candidates
  <2>1. PICK row : row = [label |-> found.label, url |-> found.url,
                          confidence |-> found.confidence,
                          verdict |-> "reachable_candidate",
                          status |-> "pending", source |-> 0]
    OBVIOUS
  <2>2. /\ \A c \in DOMAIN candidates : candidates[c].url # found.url
        /\ candidates' = Append(candidates, row) /\ NextProposal(p)
    BY <1>1, <1>3, <1>6, <2>1 DEF InsertCandidate
  <2>3. row \in CandidateRow
    BY <1>4, <2>1 DEF CandidateRow, Proposal, Verdicts
  <2>4. candidates \in Seq(CandidateRow) /\ Unique(candidates)
    BY DEF IInv, TypeOK, Unique
  <2>5. /\ candidates' \in Seq(CandidateRow) /\ Len(candidates') = Len(candidates) + 1
        /\ DOMAIN candidates' = DOMAIN candidates \cup {Len(candidates) + 1}
        /\ \A c \in DOMAIN candidates : candidates'[c] = candidates[c]
        /\ candidates'[Len(candidates) + 1] = row
    BY <2>2, <2>3, <2>4
  <2>6. CandidatesGrow /\ Unique(candidates')
    BY <2>1, <2>2, <2>4, <2>5 DEF CandidatesGrow, Unique
  <2>7. \A c \in DOMAIN candidates' : Backed(candidates'[c])
    <3>1. Backed(row)
      BY <2>1 DEF Backed
    <3>2. \A c \in DOMAIN candidates : Backed(candidates[c])
      BY DEF IInv, AcceptedHasSource, Backed
    <3> QED
      BY <2>5, <3>1, <3>2
  <2>8. PICK m : m = IF Tail(l.finds) = <<>> THEN Idle
                     ELSE [l EXCEPT !.pc = "find", !.finds = Tail(l.finds)]
    OBVIOUS
  <2>9. m \in Proc /\ Knows(m)
    BY <1>2, <2>8, NextProposalKnows
  <2>10. procs' = [procs EXCEPT ![p] = m]
    BY <1>1, <2>2, <2>8 DEF NextProposal, Goto
  <2> QED
    BY <2>5, <2>6, <2>7, <2>9, <2>10, CandidateStep DEF InsertCandidate, pool, IInv, TypeOK
<1> QED
  BY <1>5, <1>6

\* A candidate is marked with the source inserted for it.
LEMMA MarkAcceptedKeeps ==
    ASSUME IInv, NEW p \in Procs, MarkAccepted(p)
    PROVE  IInv'
<1>1. PICK l : l = procs[p]
  OBVIOUS
<1>2. l \in Proc /\ Knows(l) /\ l.pc = "mark"
  BY <1>1, MyLocals DEF MarkAccepted, At
<1>3. l.candidate \in DOMAIN candidates /\ Visits(l.row, candidates[l.candidate].url)
  BY <1>2 DEF Knows, KnowsCandidate
<1>4. candidates \in Seq(CandidateRow) /\ candidates[l.candidate] \in CandidateRow
  BY <1>3 DEF IInv, TypeOK
<1>5. l.row \in Nat /\ l.row # 0
  <2>1. sources \in Seq(SourceRow)
    BY DEF IInv, TypeOK
  <2> QED
    BY <1>3, <2>1 DEF Visits
<1>6. PICK row : row = [candidates[l.candidate] EXCEPT !.status = "accepted", !.source = l.row]
  OBVIOUS
<1>7. /\ row \in CandidateRow /\ row.url = candidates[l.candidate].url
      /\ row.status = "accepted" /\ row.source = l.row
  BY <1>4, <1>5, <1>6 DEF CandidateRow
<1>8. Backed(row)
  BY <1>3, <1>5, <1>7 DEF Backed
<1>9. candidates' = [candidates EXCEPT ![l.candidate] = row]
  BY <1>1, <1>3, <1>4, <1>6 DEF MarkAccepted
<1>10. procs' = [procs EXCEPT ![p] = Idle]
  BY DEF MarkAccepted, Goto
<1> QED
  BY <1>3, <1>7, <1>8, <1>9, <1>10, IdleKnows, ReplaceCandidate, CandidateStep
  DEF MarkAccepted, pool, IInv, TypeOK

\* What a page adds is a number.
LEMMA JudgedType ==
    ASSUME NEW page
    PROVE  Judged(page).verdict \in Verdicts /\ Judged(page).delta \in Int
  BY DEF Judged, Verdicts

\* A verdict is stored.
LEMMA StoreVerdictKeeps ==
    ASSUME IInv, NEW p \in Procs, StoreVerdict(p)
    PROVE  IInv'
<1>1. PICK l : l = procs[p]
  OBVIOUS
<1>2. l \in Proc /\ Knows(l) /\ l.pc = "judge"
  BY <1>1, MyLocals DEF StoreVerdict, At
<1>0. PICK page \in Pages :
        LET c == Head(procs[p].checks)
            j == Judged(page)
        IN  /\ candidates' = [candidates EXCEPT
                ![c].verdict = j.verdict,
                ![c].confidence = clampConfidence(procs[p].confidence + j.delta)]
            /\ Goto(p, IF Tail(procs[p].checks) = <<>> THEN Idle
                       ELSE [procs[p] EXCEPT !.pc = "read", !.checks = Tail(procs[p].checks)])
  BY DEF StoreVerdict
<1>16. PICK c : c = Head(l.checks)
  OBVIOUS
<1>17. PICK j : j = Judged(page)
  OBVIOUS
<1>3. /\ c = Head(l.checks)
      /\ candidates' = [candidates EXCEPT
                ![c].verdict = j.verdict,
                ![c].confidence = clampConfidence(l.confidence + j.delta)]
      /\ Goto(p, IF Tail(l.checks) = <<>> THEN Idle
                 ELSE [l EXCEPT !.pc = "read", !.checks = Tail(l.checks)])
  BY <1>0, <1>1, <1>16, <1>17
<1>4. j.verdict \in Verdicts /\ j.delta \in Int
  BY <1>17, JudgedType
<1>5. c \in DOMAIN candidates /\ l.checks # <<>>
  BY <1>2, <1>3 DEF Proc, Knows, KnowsFinds
<1>6. candidates \in Seq(CandidateRow) /\ candidates[c] \in CandidateRow
  BY <1>5 DEF IInv, TypeOK
<1>7. PICK v : v = clampConfidence(l.confidence + j.delta)
  OBVIOUS
<1>8. v \in 0..100
  <2>1. l.confidence \in 0..100
    BY <1>2 DEF Proc
  <2>2. PICK w : w = l.confidence + j.delta
    OBVIOUS
  <2>3. w \in Int
    BY <1>4, <2>1, <2>2
  <2>4. v = clampConfidence(w)
    BY <1>7, <2>2
  <2> QED
    BY <2>3, <2>4 DEF clampConfidence
<1>9. PICK row : row = [candidates[c] EXCEPT !.verdict = j.verdict, !.confidence = v]
  OBVIOUS
<1>10. /\ row \in CandidateRow /\ row.url = candidates[c].url
       /\ row.status = candidates[c].status /\ row.source = candidates[c].source
  BY <1>4, <1>6, <1>8, <1>9 DEF CandidateRow
<1>11. Backed(row)
  BY <1>5, <1>10 DEF IInv, AcceptedHasSource, Backed
<1>12. candidates' = [candidates EXCEPT ![c] = row]
  BY <1>3, <1>5, <1>6, <1>7, <1>9
<1>13. PICK m : m = IF Tail(l.checks) = <<>> THEN Idle
                    ELSE [l EXCEPT !.pc = "read", !.checks = Tail(l.checks)]
  OBVIOUS
<1>14. m \in Proc /\ Knows(m)
  <2>1. CASE Tail(l.checks) = <<>>
    BY <1>13, <2>1, IdleKnows
  <2>2. CASE Tail(l.checks) # <<>>
    <3>1. /\ l.checks \in Seq(Nat) /\ Tail(l.checks) \in Seq(Nat)
          /\ \A i \in DOMAIN Tail(l.checks) : Tail(l.checks)[i] \in DOMAIN candidates
      BY <1>2, <1>5, HeadTailProperties DEF Proc, Knows, KnowsFinds
    <3>2. m \in Proc
      BY <1>2, <1>13, <2>2, <3>1 DEF Proc
    <3>3. Knows(m)
      BY <1>2, <1>13, <2>2, <3>1 DEF Proc, Knows, KnowsFinds, KnowsInputs, KnowsCandidate
    <3> QED
      BY <3>2, <3>3
  <2> QED
    BY <2>1, <2>2
<1>15. procs' = [procs EXCEPT ![p] = m]
  BY <1>3, <1>13 DEF Goto
<1> QED
  BY <1>5, <1>10, <1>11, <1>12, <1>14, <1>15, ReplaceCandidate, CandidateStep
  DEF StoreVerdict, pool, IInv, TypeOK

\* A step of the user moves no goroutine.
LEMMA NobodyMoves ==
    ASSUME IInv, procs' = procs
    PROVE  Cron \in Procs /\ procs' = [procs EXCEPT ![Cron] = procs[Cron]]
  BY PoolAssumption DEF IInv, TypeOK

\* The user rejects a candidate.
LEMMA RejectKeeps ==
    ASSUME IInv, RejectSourceCandidate
    PROVE  IInv'
<1>1. PICK c \in DOMAIN candidates :
        candidates' = [candidates EXCEPT ![c].status = "rejected"]
  BY DEF RejectSourceCandidate
<1>2. candidates \in Seq(CandidateRow) /\ candidates[c] \in CandidateRow
  BY DEF IInv, TypeOK
<1>3. PICK row : row = [candidates[c] EXCEPT !.status = "rejected"]
  OBVIOUS
<1>4. /\ row \in CandidateRow /\ row.url = candidates[c].url
      /\ row.status = "rejected" /\ row.source = candidates[c].source
  BY <1>2, <1>3 DEF CandidateRow
<1>5. Backed(row)
  BY <1>4 DEF IInv, AcceptedHasSource, Backed
<1>6. candidates' = [candidates EXCEPT ![c] = row]
  BY <1>1, <1>2, <1>3
<1>7. PICK m : m = procs[Cron]
  OBVIOUS
<1>8. m \in Proc /\ Knows(m) /\ procs' = [procs EXCEPT ![Cron] = m]
  BY <1>7, NobodyMoves, MyLocals DEF RejectSourceCandidate
<1> QED
  BY <1>4, <1>5, <1>6, <1>8, NobodyMoves, ReplaceCandidate, CandidateStep
  DEF RejectSourceCandidate, pool, IInv, TypeOK

-----------------------------------------------------------------------------
(* Steps that change companies or sources.                                 *)

\* A step of p that changes companies or sources.
LEMMA PoolStep ==
    ASSUME IInv, NEW p \in Procs, NEW m \in Proc,
           procs' = [procs EXCEPT ![p] = m], Knows(m)',
           candidates' = candidates,
           serving' \in BOOLEAN, spent' \in Spent,
           companies' \in Seq(CompanyRow), sources' \in Seq(SourceRow),
           \A i, j \in DOMAIN companies' : companies'[i].name = companies'[j].name => i = j,
           \A i, j \in DOMAIN sources' : sources'[i].name = sources'[j].name => i = j,
           CompaniesGrow, SourcesGrow, SourcesLinked'
    PROVE  IInv'
<1>1. Grow
  BY DEF Grow, CandidatesGrow
<1>2. procs' \in [Procs -> Proc] /\ Locals'
  BY <1>1, LocalStep
<1>3. TypeOK'
  BY <1>2 DEF IInv, TypeOK
<1>4. AcceptedHasSource'
  <2>1. ASSUME NEW c \in DOMAIN candidates, candidates[c].source # 0
        PROVE  Visits(candidates[c].source, candidates[c].url)'
    <3>1. PICK s, u : s = candidates[c].source /\ u = candidates[c].url
      OBVIOUS
    <3>2. Visits(s, u)
      BY <2>1, <3>1 DEF IInv, AcceptedHasSource
    <3>3. Visits(s, u)'
      BY <3>2, VisitsGrows
    <3> QED
      BY <3>1, <3>3 DEF Visits
  <2> QED
    BY <2>1 DEF IInv, AcceptedHasSource
<1> QED
  BY <1>2, <1>3, <1>4 DEF IInv

\* What is left of a list of sources.
LEMMA NextInputKnows ==
    ASSUME NEW l \in Proc, Knows(l), l.inputs # <<>>, l.pc \in {"refresh_source", "insert_source"},
           NEW m,
           m = IF Tail(l.inputs) = <<>> THEN Idle
               ELSE [l EXCEPT !.pc = "company", !.inputs = Tail(l.inputs)]
    PROVE  m \in Proc /\ Knows(m)
<1>1. CASE Tail(l.inputs) = <<>>
  BY <1>1, IdleKnows
<1>2. CASE Tail(l.inputs) # <<>>
  <2>1. /\ l.inputs \in Seq(SourceInput) /\ Tail(l.inputs) \in Seq(SourceInput)
        /\ \A i \in DOMAIN Tail(l.inputs) :
             i + 1 \in DOMAIN l.inputs /\ Tail(l.inputs)[i] = l.inputs[i + 1]
    BY HeadTailProperties DEF Proc
  <2>2. m = [l EXCEPT !.pc = "company", !.inputs = Tail(l.inputs)]
    BY <1>2
  <2>3. m \in Proc
    BY <2>1, <2>2 DEF Proc
  <2>4. KnowsFinds(m)
    BY <2>2 DEF Proc, Knows, KnowsFinds
  <2>5. KnowsInputs(m)
    BY <1>2, <2>1, <2>2 DEF Proc, Knows, KnowsInputs
  <2>6. KnowsCandidate(m)
    <3>1. /\ m.op = l.op /\ m.pc = "company" /\ m.candidate = l.candidate
          /\ m.inputs = Tail(l.inputs)
      BY <2>2 DEF Proc
    <3>2. m.op = "accept" => m.candidate \in DOMAIN candidates
      BY <3>1 DEF Knows, KnowsCandidate
    <3>3. ASSUME m.op = "accept", NEW i \in DOMAIN m.inputs
          PROVE  m.inputs[i].url = candidates[m.candidate].url
      <4>1. i + 1 \in DOMAIN l.inputs /\ m.inputs[i] = l.inputs[i + 1]
        BY <2>1, <3>1, <3>3
      <4>2. \A k \in DOMAIN l.inputs : l.inputs[k].url = candidates[l.candidate].url
        BY <3>1, <3>3 DEF Knows, KnowsCandidate
      <4> QED
        BY <3>1, <4>1, <4>2
    <3> QED
      BY <3>1, <3>2, <3>3 DEF KnowsCandidate
  <2> QED
    BY <2>3, <2>4, <2>5, <2>6 DEF Knows
<1> QED
  BY <1>1, <1>2

\* A company is inserted under a name nobody has, or the operation ends.
LEMMA InsertCompanyKeeps ==
    ASSUME IInv, NEW p \in Procs, InsertCompany(p)
    PROVE  IInv'
<1>1. PICK l : l = procs[p]
  OBVIOUS
<1>2. l \in Proc /\ Knows(l) /\ l.pc = "new_company"
  BY <1>1, MyLocals DEF InsertCompany, At
<1>3. CASE CompanyTaken(p) /\ Abandon(p) /\ UNCHANGED companies
  BY <1>3, IdleKnows, QuietStep DEF InsertCompany, Abandon, Goto, IInv, TypeOK
<1>4. CASE ~CompanyTaken(p) /\ NewCompany(p)
  <2>1. PICK input : input = Head(l.inputs)
    OBVIOUS
  <2>2. input \in SourceInput /\ input = l.inputs[1]
    BY <1>2, <2>1 DEF Proc, Knows, KnowsInputs
  <2>3. PICK row : row = [name |-> CompanyOf[input.name], enabled |-> input.enabled]
    OBVIOUS
  <2>4. row \in CompanyRow
    BY <2>2, <2>3, PoolAssumption DEF SourceInput, CompanyRow
  <2>5. companies \in Seq(CompanyRow)
    BY DEF IInv, TypeOK
  <2>6. companies' = Append(companies, row)
    BY <1>1, <1>4, <2>1, <2>3 DEF NewCompany
  <2>7. /\ companies' \in Seq(CompanyRow)
        /\ DOMAIN companies' = DOMAIN companies \cup {Len(companies) + 1}
        /\ \A c \in DOMAIN companies : companies'[c] = companies[c]
        /\ companies'[Len(companies) + 1] = row
    BY <2>4, <2>5, <2>6
  <2>8. \A c \in DOMAIN companies : companies[c].name # row.name
    BY <1>1, <1>4, <2>1, <2>3 DEF CompanyTaken
  <2>9. \A i, j \in DOMAIN companies' : companies'[i].name = companies'[j].name => i = j
    BY <2>7, <2>8 DEF IInv, TypeOK
  <2>10. CompaniesGrow /\ SourcesGrow
    BY <2>7 DEF InsertCompany, CompaniesGrow, SourcesGrow
  <2>11. SourcesLinked'
    <3>1. ASSUME NEW s \in DOMAIN sources
          PROVE  Linked(sources[s].company, sources[s].name)'
      <4>1. PICK c, n : c = sources[s].company /\ n = sources[s].name
        OBVIOUS
      <4>2. Linked(c, n)
        BY <4>1 DEF IInv, SourcesLinked
      <4>3. Linked(c, n)'
        BY <2>10, <4>2, LinkedGrows
      <4> QED
        BY <4>1, <4>3 DEF InsertCompany, Linked
    <3> QED
      BY <3>1 DEF InsertCompany, SourcesLinked
  <2>12. PICK m : m = [l EXCEPT !.pc = AfterCompany(l), !.company = Len(companies) + 1]
    OBVIOUS
  <2>13. procs' = [procs EXCEPT ![p] = m]
    BY <1>1, <1>4, <2>12 DEF NewCompany, Goto
  <2>14. Len(companies) + 1 \in Nat
    BY <2>5
  <2>15. m \in Proc
    BY <1>2, <2>12, <2>14 DEF Proc, AfterCompany
  <2>16. PICK c, n : c = Len(companies) + 1 /\ n = input.name
    OBVIOUS
  <2>22. Linked(c, n)'
    BY <2>3, <2>7, <2>16 DEF Linked
  <2>17. Grow
    BY <2>10 DEF Grow, CandidatesGrow, InsertCompany
  <2>18. Knows(l)'
    BY <1>2, <2>17, KnowsGrows
  <2>19. KnowsFinds(m)' /\ KnowsCandidate(m)'
    BY <1>2, <2>12, <2>18 DEF Proc, AfterCompany, Knows, KnowsFinds, KnowsCandidate, Visits
  <2>20. KnowsInputs(m)'
    <3>1. /\ m.company = Len(companies) + 1 /\ m.inputs = l.inputs /\ m.op = l.op
          /\ m.pc = AfterCompany(l)
      BY <1>2, <2>12 DEF Proc
    <3>2. m.company = c /\ m.inputs[1].name = n
      BY <2>2, <2>16, <3>1
    <3>5. Linked(m.company, m.inputs[1].name)'
      BY <2>22, <3>2 DEF Linked
    <3>3. m.inputs # <<>>
      BY <1>2, <3>1 DEF Knows, KnowsInputs
    <3>4. m.op = "seed" =>
            \A i \in DOMAIN m.inputs : \E j \in DOMAIN Recommended : m.inputs[i] = Recommended[j]
      BY <1>2, <3>1 DEF Knows, KnowsInputs
    <3> QED
      BY <3>1, <3>3, <3>4, <3>5 DEF AfterCompany, KnowsInputs
  <2>21. Knows(m)'
    BY <2>19, <2>20 DEF Knows
  <2> QED
    BY <2>7, <2>9, <2>10, <2>11, <2>13, <2>15, <2>21, PoolStep DEF InsertCompany, IInv, TypeOK
<1> QED
  BY <1>3, <1>4 DEF InsertCompany

\* Seeding gives a source its recommended page and its company.
LEMMA RefreshSourceKeeps ==
    ASSUME IInv, NEW p \in Procs, RefreshSource(p)
    PROVE  IInv'
<1>1. PICK l : l = procs[p]
  OBVIOUS
<1>2. l \in Proc /\ Knows(l) /\ l.pc = "refresh_source"
  BY <1>1, MyLocals DEF RefreshSource, At
<1>3. PICK input, s : input = l.inputs[1] /\ s = l.row
  OBVIOUS
<1>4. /\ input \in SourceInput /\ input = Head(l.inputs) /\ l.inputs # <<>>
      /\ s \in DOMAIN sources /\ sources[s].name = input.name
      /\ \E j \in DOMAIN Recommended : input = Recommended[j]
      /\ Linked(l.company, input.name)
  BY <1>2, <1>3 DEF Proc, Knows, KnowsInputs
<1>5. sources \in Seq(SourceRow) /\ sources[s] \in SourceRow
  BY <1>4 DEF IInv, TypeOK
<1>6. PICK row : row = [sources[s] EXCEPT !.url = input.url, !.company = l.company]
  OBVIOUS
<1>7. /\ row \in SourceRow /\ row.name = sources[s].name /\ row.url = input.url
      /\ row.company = l.company
  <2>1. input.url \in Urls /\ l.company \in Nat
    BY <1>2, <1>4 DEF SourceInput, Proc
  <2> QED
    BY <1>5, <1>6, <2>1 DEF SourceRow
<1>8. sources' = [sources EXCEPT ![s] = row]
  BY <1>1, <1>3, <1>4, <1>5, <1>6 DEF RefreshSource
<1>9. /\ sources' \in Seq(SourceRow) /\ DOMAIN sources' = DOMAIN sources
      /\ sources'[s] = row
      /\ \A t \in DOMAIN sources : t # s => sources'[t] = sources[t]
  BY <1>4, <1>5, <1>7, <1>8
<1>10. \A t \in DOMAIN sources : sources'[t].name = sources[t].name
  BY <1>7, <1>9
<1>11. \A i, j \in DOMAIN sources' : sources'[i].name = sources'[j].name => i = j
  BY <1>9, <1>10 DEF IInv, TypeOK
<1>12. CompaniesGrow
  BY DEF RefreshSource, CompaniesGrow
<1>13. SourcesGrow
  <2>1. \E i \in DOMAIN Recommended :
            Recommended[i].name = sources[s].name /\ Recommended[i].url = sources'[s].url
    BY <1>4, <1>7, <1>9
  <2> QED
    BY <1>9, <1>10, <2>1 DEF SourcesGrow
<1>14. SourcesLinked'
  <2>1. ASSUME NEW t \in DOMAIN sources
        PROVE  Linked(sources'[t].company, sources'[t].name)
    <3>1. CASE t = s
      BY <1>4, <1>7, <1>9, <3>1
    <3>2. CASE t # s
      BY <1>9, <3>2 DEF IInv, SourcesLinked
    <3> QED
      BY <3>1, <3>2
  <2> QED
    BY <1>9, <2>1 DEF RefreshSource, SourcesLinked, Linked
<1>15. PICK m : m = IF Tail(l.inputs) = <<>> THEN Idle
                    ELSE [l EXCEPT !.pc = "company", !.inputs = Tail(l.inputs)]
  OBVIOUS
<1>16. m \in Proc /\ Knows(m)
  BY <1>2, <1>4, <1>15, NextInputKnows
<1>17. procs' = [procs EXCEPT ![p] = m] /\ serving' \in BOOLEAN
  BY <1>1, <1>15 DEF RefreshSource, NextInput, Goto, IInv, TypeOK
<1>18. Grow
  BY <1>12, <1>13 DEF Grow, CandidatesGrow, RefreshSource
<1>19. Knows(m)'
  BY <1>16, <1>18, KnowsGrows
<1> QED
  BY <1>9, <1>11, <1>12, <1>13, <1>14, <1>16, <1>17, <1>19, PoolStep
  DEF RefreshSource, IInv, TypeOK

\* A source is inserted under a name nobody has, or none is.
LEMMA InsertSourceKeeps ==
    ASSUME IInv, NEW p \in Procs, InsertSource(p)
    PROVE  IInv'
<1>1. PICK l : l = procs[p]
  OBVIOUS
<1>2. l \in Proc /\ Knows(l) /\ l.pc = "insert_source"
  BY <1>1, MyLocals DEF InsertSource, At
<1>3. PICK rest : rest = IF Tail(l.inputs) = <<>> THEN Idle
                         ELSE [l EXCEPT !.pc = "company", !.inputs = Tail(l.inputs)]
  OBVIOUS
<1>4. l.inputs # <<>>
  BY <1>2 DEF Knows, KnowsInputs
<1>5. rest \in Proc /\ Knows(rest)
  BY <1>2, <1>3, <1>4, NextInputKnows
<1>6. CASE UNCHANGED sources /\ NextInput(p)
  BY <1>1, <1>3, <1>5, <1>6, QuietStep DEF InsertSource, NextInput, Goto, IInv, TypeOK
<1>7. CASE UNCHANGED <<sources, serving>> /\ Abandon(p)
  BY <1>7, IdleKnows, QuietStep DEF InsertSource, Abandon, Goto, IInv, TypeOK
<1>8. CASE ~SourceTaken(p) /\ NewSource(p)
  <2>1. PICK input : input = Head(l.inputs)
    OBVIOUS
  <2>2. input \in SourceInput /\ input = l.inputs[1] /\ Linked(l.company, input.name)
    BY <1>2, <2>1 DEF Proc, Knows, KnowsInputs
  <2>3. PICK row : row = [name |-> input.name, url |-> input.url, company |-> l.company,
                          enabled |-> input.enabled]
    OBVIOUS
  <2>4. row \in SourceRow
    BY <1>2, <2>2, <2>3 DEF Proc, SourceInput, SourceRow
  <2>5. sources \in Seq(SourceRow)
    BY DEF IInv, TypeOK
  <2>6. PICK s : s = Len(sources) + 1
    OBVIOUS
  <2>7. /\ sources' = Append(sources, row)
        /\ \/ l.op = "accept" /\ Goto(p, [l EXCEPT !.pc = "mark", !.row = s]) /\ UNCHANGED serving
           \/ l.op # "accept" /\ NextInput(p)
    BY <1>1, <1>8, <2>1, <2>3, <2>6 DEF NewSource
  <2>8. /\ sources' \in Seq(SourceRow)
        /\ DOMAIN sources' = DOMAIN sources \cup {s} /\ s \notin DOMAIN sources
        /\ \A t \in DOMAIN sources : sources'[t] = sources[t]
        /\ sources'[s] = row /\ s \in Nat
    BY <2>4, <2>5, <2>6, <2>7
  <2>9. \A t \in DOMAIN sources : sources[t].name # row.name
    BY <1>1, <1>8, <2>1, <2>3 DEF SourceTaken
  <2>10. \A i, j \in DOMAIN sources' : sources'[i].name = sources'[j].name => i = j
    BY <2>8, <2>9 DEF IInv, TypeOK
  <2>11. CompaniesGrow /\ SourcesGrow /\ Grow
    BY <2>8 DEF InsertSource, CompaniesGrow, SourcesGrow, CandidatesGrow, Grow
  <2>12. SourcesLinked'
    BY <2>2, <2>3, <2>8 DEF InsertSource, IInv, SourcesLinked, Linked
  <2>13. CASE l.op # "accept"
    <3>1. procs' = [procs EXCEPT ![p] = rest] /\ serving' \in BOOLEAN
      BY <1>1, <1>3, <2>7, <2>13 DEF NextInput, Goto, IInv, TypeOK
    <3>2. Knows(rest)'
      BY <1>5, <2>11, KnowsGrows
    <3> QED
      BY <1>5, <2>8, <2>10, <2>11, <2>12, <3>1, <3>2, PoolStep DEF InsertSource, IInv, TypeOK
  <2>14. CASE l.op = "accept"
    <3>1. PICK m : m = [l EXCEPT !.pc = "mark", !.row = s]
      OBVIOUS
    <3>2. procs' = [procs EXCEPT ![p] = m] /\ serving' \in BOOLEAN
      BY <2>7, <2>14, <3>1 DEF Goto, IInv, TypeOK
    <3>3. m \in Proc
      BY <1>2, <2>8, <3>1 DEF Proc
    <3>4. Knows(l)'
      BY <1>2, <2>11, KnowsGrows
    <3>5. /\ m.op = l.op /\ m.pc = "mark" /\ m.candidate = l.candidate /\ m.row = s
          /\ m.inputs = l.inputs /\ m.checks = l.checks
      BY <1>2, <3>1 DEF Proc
    <3>6. KnowsFinds(m)'
      BY <3>4, <3>5 DEF Knows, KnowsFinds
    <3>7. KnowsInputs(m)'
      BY <2>14, <3>5 DEF KnowsInputs
    <3>8. input.url = candidates[l.candidate].url
      BY <1>2, <1>4, <2>2, <2>14 DEF Proc, Knows, KnowsCandidate
    <3>9. s \in DOMAIN sources' /\ sources'[s].url = candidates'[m.candidate].url
      BY <2>3, <2>8, <3>5, <3>8 DEF InsertSource
    <3>10. KnowsCandidate(m)'
      BY <2>14, <3>4, <3>5, <3>9 DEF Knows, KnowsCandidate, Visits
    <3>11. Knows(m)'
      BY <3>6, <3>7, <3>10 DEF Knows
    <3> QED
      BY <2>8, <2>10, <2>11, <2>12, <3>2, <3>3, <3>11, PoolStep DEF InsertSource, IInv, TypeOK
  <2> QED
    BY <2>13, <2>14
<1> QED
  BY <1>6, <1>7, <1>8 DEF InsertSource

\* A switch is counted.
LEMMA SwitchSpent ==
    ASSUME IInv, Switch
    PROVE  spent' \in Spent
<1>1. /\ spent \in Spent /\ spent.switches < MaxSwitches
      /\ spent' = [spent EXCEPT !.switches = spent.switches + 1]
  BY DEF Switch, IInv, TypeOK
<1>2. spent.switches + 1 \in 0..MaxSwitches
  BY <1>1, Bounds DEF Spent
<1> QED
  BY <1>1, <1>2 DEF Spent

\* A step of the user that changes no name, no page and no company of a source.
LEMMA SwitchStep ==
    ASSUME IInv, procs' = procs, candidates' = candidates, serving' = serving,
           spent' \in Spent,
           companies' \in Seq(CompanyRow), sources' \in Seq(SourceRow),
           DOMAIN companies' = DOMAIN companies, DOMAIN sources' = DOMAIN sources,
           \A c \in DOMAIN companies : companies'[c].name = companies[c].name,
           \A s \in DOMAIN sources :
                /\ sources'[s].name = sources[s].name /\ sources'[s].url = sources[s].url
                /\ sources'[s].company = sources[s].company
    PROVE  IInv'
<1>1. PICK m : m = procs[Cron]
  OBVIOUS
<1>2. m \in Proc /\ Knows(m) /\ procs' = [procs EXCEPT ![Cron] = m]
  BY <1>1, NobodyMoves, MyLocals
<1>3. CompaniesGrow /\ SourcesGrow /\ Grow
  BY DEF CompaniesGrow, SourcesGrow, CandidatesGrow, Grow
<1>4. Knows(m)'
  BY <1>2, <1>3, KnowsGrows
<1>5. SourcesLinked'
  BY DEF IInv, SourcesLinked, Linked
<1>6. /\ \A i, j \in DOMAIN companies' : companies'[i].name = companies'[j].name => i = j
      /\ \A i, j \in DOMAIN sources' : sources'[i].name = sources'[j].name => i = j
  BY DEF IInv, TypeOK
<1>7. serving' \in BOOLEAN
  BY DEF IInv, TypeOK
<1> QED
  BY <1>2, <1>3, <1>4, <1>5, <1>6, <1>7, NobodyMoves, PoolStep

\* The user switches one source.
LEMMA UpdateSourceKeeps ==
    ASSUME IInv, UpdateSourceEnabled
    PROVE  IInv'
<1>1. PICK s \in DOMAIN sources, on \in BOOLEAN :
        sources' = [sources EXCEPT ![s].enabled = on]
  BY DEF UpdateSourceEnabled
<1>2. sources \in Seq(SourceRow) /\ sources[s] \in SourceRow
  BY DEF IInv, TypeOK
<1>3. PICK row : row = [sources[s] EXCEPT !.enabled = on]
  OBVIOUS
<1>4. /\ row \in SourceRow /\ row.name = sources[s].name /\ row.url = sources[s].url
      /\ row.company = sources[s].company
  BY <1>1, <1>2, <1>3 DEF SourceRow
<1>5. sources' = [sources EXCEPT ![s] = row]
  BY <1>1, <1>2, <1>3
<1>6. /\ sources' \in Seq(SourceRow) /\ DOMAIN sources' = DOMAIN sources
      /\ \A t \in DOMAIN sources :
            /\ sources'[t].name = sources[t].name /\ sources'[t].url = sources[t].url
            /\ sources'[t].company = sources[t].company
  BY <1>2, <1>4, <1>5
<1> QED
  BY <1>6, SwitchSpent, SwitchStep DEF UpdateSourceEnabled, IInv, TypeOK

\* The user switches a company and all its sources.
LEMMA UpdateCompanyKeeps ==
    ASSUME IInv, UpdateCompanyEnabled
    PROVE  IInv'
<1>1. PICK c \in DOMAIN companies, on \in BOOLEAN :
        /\ companies' = [companies EXCEPT ![c].enabled = on]
        /\ sources' = [s \in DOMAIN sources |->
                          IF sources[s].company = c
                          THEN [sources[s] EXCEPT !.enabled = on] ELSE sources[s]]
  BY DEF UpdateCompanyEnabled
<1>2. /\ companies \in Seq(CompanyRow) /\ companies[c] \in CompanyRow
      /\ sources \in Seq(SourceRow)
  BY DEF IInv, TypeOK
<1>3. /\ companies' \in Seq(CompanyRow) /\ DOMAIN companies' = DOMAIN companies
      /\ \A d \in DOMAIN companies : companies'[d].name = companies[d].name
  <2>1. PICK row : row = [companies[c] EXCEPT !.enabled = on]
    OBVIOUS
  <2>2. row \in CompanyRow /\ row.name = companies[c].name
    BY <1>1, <1>2, <2>1 DEF CompanyRow
  <2>3. companies' = [companies EXCEPT ![c] = row]
    BY <1>1, <1>2, <2>1
  <2> QED
    BY <1>2, <2>2, <2>3
<1>4. /\ DOMAIN sources' = DOMAIN sources
      /\ \A t \in DOMAIN sources :
            /\ sources'[t] \in SourceRow
            /\ sources'[t].name = sources[t].name /\ sources'[t].url = sources[t].url
            /\ sources'[t].company = sources[t].company
  <2>1. DOMAIN sources' = DOMAIN sources
    BY <1>1
  <2>2. ASSUME NEW t \in DOMAIN sources
        PROVE  /\ sources'[t] \in SourceRow
               /\ sources'[t].name = sources[t].name /\ sources'[t].url = sources[t].url
               /\ sources'[t].company = sources[t].company
    <3>1. sources[t] \in SourceRow
      BY <1>2
    <3>2. sources'[t] = sources[t] \/ sources'[t] = [sources[t] EXCEPT !.enabled = on]
      BY <1>1
    <3> QED
      BY <1>1, <3>1, <3>2 DEF SourceRow
  <2> QED
    BY <2>1, <2>2
<1>5. sources' \in Seq(SourceRow)
  <2>1. /\ Len(sources) \in Nat /\ DOMAIN sources = 1..Len(sources)
    BY <1>2
  <2>2. sources' \in [1..Len(sources) -> SourceRow]
    BY <1>1, <1>4, <2>1
  <2> QED
    BY <2>1, <2>2
<1> QED
  BY <1>3, <1>4, <1>5, SwitchSpent, SwitchStep DEF UpdateCompanyEnabled, IInv, TypeOK

-----------------------------------------------------------------------------
(* The theorems.                                                           *)

\* Before the first start there is no row and nobody works.
LEMMA InitHolds == Init => IInv
<1> SUFFICES ASSUME Init PROVE IInv
  OBVIOUS
<1>1. spent \in Spent
  BY Bounds DEF Init, Spent
<1>2. TypeOK
  <2>1. procs \in [Procs -> Proc]
    BY IdleKnows DEF Init
  <2>2. <<>> \in Seq(CompanyRow) /\ <<>> \in Seq(SourceRow) /\ <<>> \in Seq(CandidateRow)
    OBVIOUS
  <2>3. \A r : r = <<>> => DOMAIN r = {}
    OBVIOUS
  <2> QED
    BY <1>1, <2>1, <2>2, <2>3 DEF Init, TypeOK
<1>3. SourcesLinked /\ AcceptedHasSource
  BY DEF Init, SourcesLinked, AcceptedHasSource
<1>4. \A p \in Procs : Knows(procs[p])
  BY IdleKnows DEF Init
<1> QED
  BY <1>2, <1>3, <1>4 DEF IInv, Locals, Knows

\* Every step keeps the invariant.
LEMMA NextKeeps == IInv /\ [Next]_vars => IInv'
<1> SUFFICES ASSUME IInv, [Next]_vars PROVE IInv'
  OBVIOUS
<1>1. ASSUME NEW p \in Procs,
             Discover(p) \/ Request(p) \/ Proceed(p) \/ Start(p) \/ Fails(p)
      PROVE  IInv'
  <2>1. CASE Request(p)
    BY <2>1, AcceptKeeps, CreateSourceKeeps, SeedKeeps, ValidateKeeps DEF Request
  <2>2. CASE Proceed(p)
    BY <2>2, FindCandidateKeeps, RefreshCandidateKeeps, InsertCandidateKeeps,
       FindCompanyKeeps, InsertCompanyKeeps, LookForSourceKeeps, RefreshSourceKeeps,
       InsertSourceKeeps, MarkAcceptedKeeps, ReadCandidateKeeps, StoreVerdictKeeps
    DEF Proceed
  <2> QED
    BY <1>1, <2>1, <2>2, DiscoverKeeps, StartKeeps, FailsKeeps
<1>2. CASE UNCHANGED vars
  <2>1. Cron \in Procs /\ procs' = [procs EXCEPT ![Cron] = procs[Cron]]
    BY <1>2, NobodyMoves DEF vars
  <2>2. PICK m : m = procs[Cron]
    OBVIOUS
  <2> QED
    BY <1>2, <2>1, <2>2, MyLocals, QuietStep DEF vars, IInv, TypeOK
<1> QED
  BY <1>1, <1>2, RejectKeeps, UpdateSourceKeeps, UpdateCompanyKeeps, CrashKeeps
  DEF Next, UserSwitches

\* The strengthened invariant holds in every state.
THEOREM PoolInvariant == Spec => []IInv
  BY InitHolds, NextKeeps, PTL DEF Spec

\* However many requests and ticks overlap: rows have their types, and no
\* company name, source name or candidate URL is stored twice
\* (the UNIQUE columns of schema.sql).
THEOREM PoolTyped == Spec => []TypeOK
<1>1. IInv => TypeOK
  BY DEF IInv
<1> QED
  BY <1>1, PoolInvariant, PTL

\* Every source belongs to a row of the company its name names
\* (CreateOrUpdateCompany, createSourceIfMissing).
THEOREM SourcesStayLinked == Spec => []SourcesLinked
<1>1. IInv => SourcesLinked
  BY DEF IInv
<1> QED
  BY <1>1, PoolInvariant, PTL

\* Turning a company that is stored once on or off turns every source named
\* after it, and never one named after another (UpdateCompanyEnabled).
THEOREM SwitchesReachPages == Spec => SwitchReachesPages
<1> DEFINE Reaches ==
    \A c \in DOMAIN companies :
        companies'[c].enabled # companies[c].enabled =>
            \A s \in DOMAIN sources :
                IF Linked(c, sources[s].name)
                THEN SpelledOnce(c) => sources'[s].enabled = companies'[c].enabled
                ELSE sources'[s].enabled = sources[s].enabled
<1>1. ASSUME IInv, [Next]_vars
      PROVE  Reaches
  <2> SUFFICES ASSUME NEW c \in DOMAIN companies,
                      companies'[c].enabled # companies[c].enabled
               PROVE  \A s \in DOMAIN sources :
                          IF Linked(c, sources[s].name)
                          THEN SpelledOnce(c) => sources'[s].enabled = companies'[c].enabled
                          ELSE sources'[s].enabled = sources[s].enabled
    OBVIOUS
  <2>1. companies \in Seq(CompanyRow) /\ sources \in Seq(SourceRow) /\ SourcesLinked
    BY <1>1 DEF IInv, TypeOK
  <2>2. UpdateCompanyEnabled
    <3>1. \/ UNCHANGED companies
          \/ \E row : companies' = Append(companies, row)
          \/ UpdateCompanyEnabled
      BY <1>1 DEF Next, vars, pool, Request, Proceed, Discover, FindCandidate, RefreshCandidate,
         InsertCandidate, Accept, CreateSource, SeedRecommendedSources, Start, FindCompany,
         InsertCompany, NewCompany, LookForSource, RefreshSource, InsertSource, MarkAccepted,
         Validate, ReadCandidate, StoreVerdict, RejectSourceCandidate, UserSwitches,
         UpdateSourceEnabled, Fails, Crash
    <3> QED
      BY <2>1, <3>1
  <2>3. PICK d \in DOMAIN companies, on \in BOOLEAN :
           /\ companies' = [companies EXCEPT ![d].enabled = on]
           /\ sources' = [s \in DOMAIN sources |->
                             IF sources[s].company = d
                             THEN [sources[s] EXCEPT !.enabled = on] ELSE sources[s]]
    BY <2>2 DEF UpdateCompanyEnabled
  <2>4. companies[c] \in CompanyRow
    BY <2>1
  <2>5. d = c /\ companies'[c].enabled = on
    BY <2>3, <2>4 DEF CompanyRow
  <2>6. ASSUME NEW s \in DOMAIN sources, Linked(c, sources[s].name), SpelledOnce(c)
        PROVE  sources'[s].enabled = on
    <3>1. sources[s] \in SourceRow /\ Linked(sources[s].company, sources[s].name)
      BY <2>1, <2>6 DEF SourcesLinked
    <3>2. sources[s].company = c
      BY <2>6, <3>1 DEF Linked, SpelledOnce
    <3> QED
      BY <2>3, <2>5, <3>1, <3>2 DEF SourceRow
  <2>7. ASSUME NEW s \in DOMAIN sources, ~Linked(c, sources[s].name)
        PROVE  sources'[s].enabled = sources[s].enabled
    <3>1. sources[s].company # c
      BY <2>1, <2>7 DEF SourcesLinked
    <3> QED
      BY <2>3, <2>5, <3>1
  <2> QED
    BY <2>5, <2>6, <2>7
<1> QED
  BY <1>1, PoolInvariant, PTL DEF Spec, SwitchReachesPages

\* An accepted candidate has a source that visits its page, whatever is
\* accepted, rejected, seeded, cancelled or restarted meanwhile
\* (AcceptSourceCandidate).
THEOREM AcceptedVisited == Spec => []AcceptedHasSource
<1>1. IInv => AcceptedHasSource
  BY DEF IInv
<1> QED
  BY <1>1, PoolInvariant, PTL

\* Only the user's own switches change what is enabled
\* (createSourceIfMissing, CreateOrUpdateCompany, SeedPublicURLSources).
THEOREM OnlyUserEnables == Spec => UserEnables
<1>1. ASSUME IInv, [Next]_vars, ~UserSwitches
      PROVE  /\ \A s \in DOMAIN sources : sources'[s].enabled = sources[s].enabled
             /\ \A c \in DOMAIN companies : companies'[c].enabled = companies[c].enabled
  <2>1. companies \in Seq(CompanyRow) /\ sources \in Seq(SourceRow)
    BY <1>1 DEF IInv, TypeOK
  <2>2. \/ UNCHANGED companies
        \/ \E row : companies' = Append(companies, row)
    BY <1>1 DEF Next, vars, pool, Request, Proceed, Discover, FindCandidate, RefreshCandidate,
       InsertCandidate, Accept, CreateSource, SeedRecommendedSources, Start, FindCompany,
       InsertCompany, NewCompany, LookForSource, RefreshSource, InsertSource, MarkAccepted,
       Validate, ReadCandidate, StoreVerdict, RejectSourceCandidate, Fails, Crash
  <2>3. \/ UNCHANGED sources
        \/ \E row : sources' = Append(sources, row)
        \/ \E s, u, c : sources' = [sources EXCEPT ![s].url = u, ![s].company = c]
    BY <1>1 DEF Next, vars, pool, Request, Proceed, Discover, FindCandidate, RefreshCandidate,
       InsertCandidate, Accept, CreateSource, SeedRecommendedSources, Start, FindCompany,
       InsertCompany, NewSource, LookForSource, RefreshSource, InsertSource, MarkAccepted,
       Validate, ReadCandidate, StoreVerdict, RejectSourceCandidate, Fails, Crash
  <2>4. \A c \in DOMAIN companies : companies'[c].enabled = companies[c].enabled
    BY <2>1, <2>2
  <2>5. \A s \in DOMAIN sources : sources'[s].enabled = sources[s].enabled
    <3>1. ASSUME NEW s, NEW u, NEW c,
                 sources' = [sources EXCEPT ![s].url = u, ![s].company = c],
                 NEW t \in DOMAIN sources
          PROVE  sources'[t].enabled = sources[t].enabled
      <4>1. sources[t] \in SourceRow
        BY <2>1
      <4> QED
        BY <3>1, <4>1 DEF SourceRow
    <3>2. ASSUME NEW row, sources' = Append(sources, row), NEW t \in DOMAIN sources
          PROVE  sources'[t].enabled = sources[t].enabled
      BY <2>1, <3>2
    <3> QED
      BY <2>3, <3>1, <3>2
  <2> QED
    BY <2>4, <2>5
<1> QED
  BY <1>1, PoolInvariant, PTL DEF Spec, UserEnables

\* Discovery leaves alone what the user decided, also a discovery that found
\* it pending (createSourceCandidateIfMissing).
THEOREM DecisionsKept == Spec => DecidedIsKept
<1> DEFINE Kept ==
    \A c \in DOMAIN candidates :
        LET row == candidates[c]
            new == candidates'[c]
        IN  row.status # "pending" =>
                /\ new.status # "pending" /\ new.label = row.label
                /\ \/ new.confidence = row.confidence /\ new.verdict = row.verdict
                   \/ \E p \in Procs : At(p, "judge") /\ Head(procs[p].checks) = c
<1>1. ASSUME IInv, [Next]_vars
      PROVE  Kept
  <2>1. \A c \in DOMAIN candidates : candidates[c] \in CandidateRow
    BY <1>1 DEF IInv, TypeOK
  <2>2. \/ UNCHANGED candidates
        \/ \E p \in Procs : RefreshCandidate(p) \/ InsertCandidate(p) \/ MarkAccepted(p) \/ StoreVerdict(p)
        \/ RejectSourceCandidate
    BY <1>1 DEF Next, vars, Request, Proceed, Discover, FindCandidate, Accept, CreateSource,
       SeedRecommendedSources, Start, FindCompany, InsertCompany, LookForSource, RefreshSource,
       InsertSource, Validate, ReadCandidate, UserSwitches, UpdateSourceEnabled,
       UpdateCompanyEnabled, Fails, Crash
  <2>3. CASE UNCHANGED candidates
    BY <2>3
  <2>4. ASSUME NEW p \in Procs, RefreshCandidate(p)
        PROVE  Kept
    BY <2>1, <2>4 DEF RefreshCandidate, CandidateRow
  <2>5. ASSUME NEW p \in Procs, InsertCandidate(p)
        PROVE  Kept
    <3>1. UNCHANGED candidates \/ \E row : candidates' = Append(candidates, row)
      BY <2>5 DEF InsertCandidate
    <3>2. ASSUME NEW row, candidates' = Append(candidates, row), NEW c \in DOMAIN candidates
          PROVE  candidates'[c] = candidates[c]
      BY <1>1, <3>2 DEF IInv, TypeOK
    <3> QED
      BY <3>1, <3>2
  <2>6. ASSUME NEW p \in Procs, MarkAccepted(p)
        PROVE  Kept
    BY <2>1, <2>6 DEF MarkAccepted, CandidateRow
  <2>7. ASSUME NEW p \in Procs, StoreVerdict(p)
        PROVE  Kept
    BY <2>1, <2>7, SMTT(30) DEF StoreVerdict, CandidateRow, At
  <2>8. CASE RejectSourceCandidate
    BY <2>1, <2>8 DEF RejectSourceCandidate, CandidateRow
  <2> QED
    BY <2>2, <2>3, <2>4, <2>5, <2>6, <2>7, <2>8
<1> QED
  BY <1>1, PoolInvariant, PTL DEF Spec, DecidedIsKept
-----------------------------------------------------------------------------
(* The verdict and the rating of a row come from one write.                *)

\* What VerdictBacked says of one row.
RowBacked(row) ==
    /\ row.verdict = "reachable_candidate" =>
        \E found \in Proposals : found.url = row.url /\ found.confidence = row.confidence
    /\ row.verdict = "verified_good" => row.confidence >= 18
    /\ row.verdict = "unreachable" => row.confidence <= 80
\* A discovery stores proposals, and refreshes a row of the same page.
FindsBacked(l) ==
    /\ \A i \in DOMAIN l.finds : l.finds[i] \in Proposals
    /\ l.pc = "refresh" =>
        l.row \in DOMAIN candidates /\ candidates[l.row].url = Head(l.finds).url
RatingInv ==
    /\ \A c \in DOMAIN candidates : RowBacked(candidates[c])
    /\ \A p \in Procs : FindsBacked(procs[p])

\* What a step may do to the list of a discovery.
FindsFrom(l, m) ==
    \/ m = l
    \/ m.pc # "refresh" /\ m.finds \in {<<>>, l.finds, Tail(l.finds)}
    \/ /\ m.pc = "refresh" /\ m.finds = l.finds /\ m.row \in DOMAIN candidates
       /\ candidates[m.row].url = Head(l.finds).url
    \/ m.pc # "refresh" /\ \E web \in WebResults : m.finds \in Deduped(Rules \o web)
AllFinds == \A q \in Procs : FindsFrom(procs[q], procs'[q])

\* The proposals of a list are among those it was made of.
LEMMA DedupedAmong ==
    ASSUME NEW found \in Seq(Proposal), NEW d \in Deduped(found), NEW k \in DOMAIN d
    PROVE  d[k] \in Range(found)
<1>1. PICK at \in UNION {[1..n -> Firsts(found)] : n \in 1..Len(found)} :
          d = [i \in DOMAIN at |-> found[at[i]]]
  BY DEF Deduped
<1>2. at[k] \in DOMAIN found /\ d[k] = found[at[k]]
  BY <1>1 DEF Firsts
<1> QED
  BY <1>2 DEF Range

\* What the rules and a web search propose are proposals.
LEMMA FoundAmong ==
    ASSUME NEW web \in WebResults
    PROVE  Rules \o web \in Seq(Proposal) /\ Range(Rules \o web) \subseteq Proposals
<1>1. Rules \in Seq(Proposal) /\ web \in Seq(Proposal)
  BY PoolAssumption
<1>2. Rules \o web \in Seq(Proposal)
  BY <1>1, ConcatProperties
<1>3. ASSUME NEW i \in DOMAIN (Rules \o web)
      PROVE  (Rules \o web)[i] \in Proposals
  <2>1. i \in 1..(Len(Rules) + Len(web))
    BY <1>1, <1>3, ConcatProperties
  <2>2. CASE i <= Len(Rules)
    <3>1. (Rules \o web)[i] = Rules[i] /\ i \in DOMAIN Rules
      BY <1>1, <2>1, <2>2, ConcatProperties
    <3> QED
      BY <3>1 DEF Proposals, Range
  <2>3. CASE i > Len(Rules)
    <3>1. (Rules \o web)[i] = web[i - Len(Rules)] /\ i - Len(Rules) \in DOMAIN web
      BY <1>1, <2>1, <2>3, ConcatProperties
    <3> QED
      BY <3>1 DEF Proposals, Range
  <2> QED
    BY <1>1, <2>1, <2>2, <2>3
<1> QED
  BY <1>2, <1>3 DEF Range

LEMMA FindsGoto ==
    ASSUME IInv, NEW p \in Procs, NEW m, procs' = [procs EXCEPT ![p] = m],
           FindsFrom(procs[p], m)
    PROVE  AllFinds
<1>1. procs'[p] = m /\ \A q \in Procs \ {p} : procs'[q] = procs[q]
  BY DEF IInv, TypeOK
<1> QED
  BY <1>1 DEF AllFinds, FindsFrom

\* Every step goes on with the list, ends it or begins one of proposals.
LEMMA FindsStep ==
    ASSUME IInv, [Next]_vars
    PROVE  AllFinds
<1>a. \A q \in Procs : procs[q] \in Proc
  BY DEF IInv, TypeOK
<1>b. \A l : FindsFrom(l, Idle) /\ FindsFrom(l, l)
  BY DEF FindsFrom, Idle
<1>c. ASSUME NEW p \in Procs, NEW m, procs' = [procs EXCEPT ![p] = m],
             m.pc # "refresh", m.finds \in {<<>>, procs[p].finds, Tail(procs[p].finds)}
      PROVE  AllFinds
  BY <1>c, FindsGoto DEF FindsFrom
<1>d. ASSUME NEW p \in Procs, procs' = [procs EXCEPT ![p] = Idle]
      PROVE  AllFinds
  BY <1>b, <1>d, FindsGoto
<1>e. CASE UNCHANGED procs
  BY <1>b, <1>e DEF AllFinds
<1>f. ASSUME NEW p \in Procs, NextProposal(p)
      PROVE  AllFinds
  <2>1. PICK m : /\ m = IF Tail(procs[p].finds) = <<>> THEN Idle
                        ELSE [procs[p] EXCEPT !.pc = "find", !.finds = Tail(procs[p].finds)]
                 /\ procs' = [procs EXCEPT ![p] = m]
    BY <1>f DEF NextProposal, Goto
  <2>2. m.pc # "refresh" /\ m.finds \in {<<>>, Tail(procs[p].finds)}
    BY <1>a, <2>1 DEF Proc, Idle
  <2> QED
    BY <1>c, <2>1, <2>2
<1>g. ASSUME NEW p \in Procs, NextInput(p)
      PROVE  AllFinds
  <2>1. PICK m : /\ m = IF Tail(procs[p].inputs) = <<>> THEN Idle
                        ELSE [procs[p] EXCEPT !.pc = "company", !.inputs = Tail(procs[p].inputs)]
                 /\ procs' = [procs EXCEPT ![p] = m]
    BY <1>g DEF NextInput, Goto
  <2>2. m.pc # "refresh" /\ m.finds \in {<<>>, procs[p].finds}
    BY <1>a, <2>1 DEF Proc, Idle
  <2> QED
    BY <1>c, <2>1, <2>2
<1>h. \A l : AfterCompany(l) # "refresh"
  BY DEF AfterCompany
<1>i. ASSUME NEW p \in Procs, NEW pc, NEW co, pc # "refresh",
             Goto(p, [procs[p] EXCEPT !.pc = pc, !.company = co])
      PROVE  AllFinds
  <2>1. PICK m : m = [procs[p] EXCEPT !.pc = pc, !.company = co]
    OBVIOUS
  <2>2. m.pc # "refresh" /\ m.finds = procs[p].finds
    BY <1>a, <1>i, <2>1 DEF Proc
  <2> QED
    BY <1>c, <1>i, <2>1, <2>2 DEF Goto
<1>j. ASSUME NEW p \in Procs, NEW pc, pc # "refresh", Goto(p, [procs[p] EXCEPT !.pc = pc])
      PROVE  AllFinds
  <2>1. PICK m : m = [procs[p] EXCEPT !.pc = pc]
    OBVIOUS
  <2>2. m.pc # "refresh" /\ m.finds = procs[p].finds
    BY <1>a, <1>j, <2>1 DEF Proc
  <2> QED
    BY <1>c, <1>j, <2>1, <2>2 DEF Goto
<1>k. ASSUME NEW p \in Procs, NEW pc, NEW s, pc # "refresh",
             Goto(p, [procs[p] EXCEPT !.pc = pc, !.row = s])
      PROVE  AllFinds
  <2>1. PICK m : m = [procs[p] EXCEPT !.pc = pc, !.row = s]
    OBVIOUS
  <2>2. m.pc # "refresh" /\ m.finds = procs[p].finds
    BY <1>a, <1>k, <2>1 DEF Proc
  <2> QED
    BY <1>c, <1>k, <2>1, <2>2 DEF Goto
<1>1. ASSUME NEW p \in Procs, Discover(p)
      PROVE  AllFinds
  <2>1. PICK web \in WebResults : \E found \in Deduped(Rules \o web) :
            Goto(p, [Idle EXCEPT !.op = "discover", !.pc = "find", !.finds = found])
    BY <1>1 DEF Discover
  <2>2. PICK found \in Deduped(Rules \o web) :
            Goto(p, [Idle EXCEPT !.op = "discover", !.pc = "find", !.finds = found])
    BY <2>1
  <2>3. PICK m : m = [Idle EXCEPT !.op = "discover", !.pc = "find", !.finds = found]
    OBVIOUS
  <2>4. m.pc # "refresh" /\ m.finds \in Deduped(Rules \o web)
    BY <2>2, <2>3 DEF Idle
  <2>5. FindsFrom(procs[p], m)
    BY <2>4 DEF FindsFrom
  <2> QED
    BY <2>2, <2>3, <2>5, FindsGoto DEF Goto
<1>2. ASSUME NEW p \in Procs, FindCandidate(p)
      PROVE  AllFinds
  <2>1. PICK l : l = procs[p]
    OBVIOUS
  <2>2. ASSUME NEW c \in DOMAIN candidates, candidates[c].url = Head(l.finds).url,
               Goto(p, [l EXCEPT !.pc = "refresh", !.row = c])
        PROVE  AllFinds
    <3>1. PICK m : m = [l EXCEPT !.pc = "refresh", !.row = c]
      OBVIOUS
    <3>2. m.pc = "refresh" /\ m.finds = l.finds /\ m.row = c
      BY <1>a, <2>1, <3>1 DEF Proc
    <3>3. FindsFrom(l, m)
      BY <2>2, <3>2 DEF FindsFrom
    <3> QED
      BY <2>1, <2>2, <3>1, <3>3, FindsGoto DEF Goto
  <2>3. CASE Goto(p, [procs[p] EXCEPT !.pc = "insert"])
    BY <1>j, <2>3
  <2> QED
    BY <1>2, <2>1, <2>2, <2>3 DEF FindCandidate
<1>3. ASSUME NEW p \in Procs, RefreshCandidate(p)
      PROVE  AllFinds
  BY <1>3, <1>f DEF RefreshCandidate
<1>4. ASSUME NEW p \in Procs, InsertCandidate(p)
      PROVE  AllFinds
  BY <1>4, <1>d, <1>f DEF InsertCandidate, Goto
<1>5. ASSUME NEW p \in Procs, Request(p)
      PROVE  AllFinds
  <2>1. CASE Accept(p)
    <3>1. PICK c \in DOMAIN candidates :
            Goto(p, [Idle EXCEPT !.op = "accept", !.pc = "company",
                        !.inputs = <<[name |-> Trimmed[candidates[c].label],
                                      url |-> candidates[c].url, enabled |-> TRUE]>>,
                        !.candidate = c])
      BY <2>1 DEF Accept
    <3>2. PICK m : m = [Idle EXCEPT !.op = "accept", !.pc = "company",
                        !.inputs = <<[name |-> Trimmed[candidates[c].label],
                                      url |-> candidates[c].url, enabled |-> TRUE]>>,
                        !.candidate = c]
      OBVIOUS
    <3>3. m.pc # "refresh" /\ m.finds = <<>>
      BY <3>2 DEF Idle
    <3> QED
      BY <1>c, <3>1, <3>2, <3>3 DEF Goto
  <2>2. CASE CreateSource(p)
    <3>1. PICK input \in Typed :
            Goto(p, [Idle EXCEPT !.op = "create", !.pc = "company", !.inputs = <<input>>])
      BY <2>2 DEF CreateSource
    <3>2. PICK m : m = [Idle EXCEPT !.op = "create", !.pc = "company", !.inputs = <<input>>]
      OBVIOUS
    <3>3. m.pc # "refresh" /\ m.finds = <<>>
      BY <3>2 DEF Idle
    <3> QED
      BY <1>c, <3>1, <3>2, <3>3 DEF Goto
  <2>3. CASE SeedRecommendedSources(p)
    <3>1. PICK m : m = [Idle EXCEPT !.op = "seed", !.pc = "company", !.inputs = Recommended]
      OBVIOUS
    <3>2. m.pc # "refresh" /\ m.finds = <<>>
      BY <3>1 DEF Idle
    <3> QED
      BY <1>c, <2>3, <3>1, <3>2 DEF Goto, SeedRecommendedSources
  <2>4. CASE Validate(p)
    <3>1. PICK list \in {<<c>> : c \in DOMAIN candidates} \cup ToolLists :
            Goto(p, [Idle EXCEPT !.op = "validate", !.pc = "read", !.checks = list])
      BY <2>4 DEF Validate
    <3>2. PICK m : m = [Idle EXCEPT !.op = "validate", !.pc = "read", !.checks = list]
      OBVIOUS
    <3>3. m.pc # "refresh" /\ m.finds = <<>>
      BY <3>2 DEF Idle
    <3> QED
      BY <1>c, <3>1, <3>2, <3>3 DEF Goto
  <2> QED
    BY <1>5, <2>1, <2>2, <2>3, <2>4 DEF Request
<1>6. ASSUME NEW p \in Procs, Start(p)
      PROVE  AllFinds
  <2>1. PICK m : m = [Idle EXCEPT !.op = "start", !.pc = "company", !.inputs = Configured]
    OBVIOUS
  <2>2. m.pc # "refresh" /\ m.finds = <<>>
    BY <2>1 DEF Idle
  <2>3. UNCHANGED procs \/ Goto(p, m)
    BY <1>6, <2>1 DEF Start
  <2> QED
    BY <1>c, <1>e, <2>2, <2>3 DEF Goto
<1>7. ASSUME NEW p \in Procs, FindCompany(p)
      PROVE  AllFinds
  BY <1>7, <1>h, <1>i, <1>j DEF FindCompany
<1>8. ASSUME NEW p \in Procs, InsertCompany(p)
      PROVE  AllFinds
  BY <1>8, <1>d, <1>h, <1>i DEF InsertCompany, NewCompany, Abandon, Goto
<1>9. ASSUME NEW p \in Procs, LookForSource(p)
      PROVE  AllFinds
  BY <1>9, <1>j, <1>k DEF LookForSource
<1>10. ASSUME NEW p \in Procs, RefreshSource(p)
       PROVE  AllFinds
  BY <1>10, <1>g DEF RefreshSource
<1>11. ASSUME NEW p \in Procs, InsertSource(p)
       PROVE  AllFinds
  BY <1>11, <1>d, <1>g, <1>k DEF InsertSource, NewSource, Abandon, Goto
<1>12. ASSUME NEW p \in Procs, MarkAccepted(p) \/ Fails(p)
       PROVE  AllFinds
  BY <1>12, <1>d DEF MarkAccepted, Fails, Abandon, Goto
<1>13. ASSUME NEW p \in Procs, ReadCandidate(p)
       PROVE  AllFinds
  <2>1. PICK m : m = [procs[p] EXCEPT !.pc = "judge",
                        !.confidence = candidates[Head(procs[p].checks)].confidence]
    OBVIOUS
  <2>2. m.pc # "refresh" /\ m.finds = procs[p].finds
    BY <1>a, <2>1 DEF Proc
  <2> QED
    BY <1>13, <1>c, <2>1, <2>2 DEF ReadCandidate, Goto
<1>14. ASSUME NEW p \in Procs, StoreVerdict(p)
       PROVE  AllFinds
  <2>1. PICK m : /\ m = IF Tail(procs[p].checks) = <<>> THEN Idle
                        ELSE [procs[p] EXCEPT !.pc = "read", !.checks = Tail(procs[p].checks)]
                 /\ procs' = [procs EXCEPT ![p] = m]
    BY <1>14 DEF StoreVerdict, Goto
  <2>2. m.pc # "refresh" /\ m.finds \in {<<>>, procs[p].finds}
    BY <1>a, <2>1 DEF Proc, Idle
  <2> QED
    BY <1>c, <2>1, <2>2
<1>15. CASE RejectSourceCandidate \/ UserSwitches
  BY <1>15, <1>e DEF RejectSourceCandidate, UserSwitches, UpdateSourceEnabled,
                     UpdateCompanyEnabled
<1>16. CASE Crash
  BY <1>16, <1>b DEF Crash, AllFinds
<1>17. CASE UNCHANGED vars
  BY <1>17, <1>e DEF vars
<1> QED
  BY <1>1, <1>2, <1>3, <1>4, <1>5, <1>6, <1>7, <1>8, <1>9, <1>10, <1>11, <1>12, <1>13,
     <1>14, <1>15, <1>16, <1>17 DEF Next, Proceed

\* What a validation adds to any rating.
LEMMA JudgedRating ==
    ASSUME NEW page, NEW v \in 0..100
    PROVE  LET rating == clampConfidence(v + Judged(page).delta)
           IN  /\ Judged(page).verdict # "reachable_candidate"
               /\ Judged(page).verdict = "verified_good" => rating >= 18
               /\ Judged(page).verdict = "unreachable" => rating <= 80
<1>1. Judged(page) \in
        {[verdict |-> "unreachable", delta |-> -25], [verdict |-> "unreachable", delta |-> -20],
         [verdict |-> "weak_signal", delta |-> -5], [verdict |-> "verified_good", delta |-> 20],
         [verdict |-> "verified_good", delta |-> 18], [verdict |-> "weak_signal", delta |-> 6],
         [verdict |-> "weak_signal", delta |-> -10]}
  BY DEF Judged
<1>2. PICK j : j = Judged(page)
  OBVIOUS
<1>3. /\ j.verdict = "verified_good" => j.delta \in {18, 20}
      /\ j.verdict = "unreachable" => j.delta \in {-25, -20}
      /\ j.verdict # "reachable_candidate"
  BY <1>1, <1>2
<1>4. \A d \in {18, 20} : clampConfidence(v + d) >= 18
  BY DEF clampConfidence
<1>5. \A d \in {-25, -20} : clampConfidence(v + d) <= 80
  BY DEF clampConfidence
<1> QED
  BY <1>2, <1>3, <1>4, <1>5

\* Every step writes rows that are backed, and keeps the page of a row.
LEMMA RatingStep ==
    ASSUME IInv, RatingInv, [Next]_vars
    PROVE  /\ \A c \in DOMAIN candidates' : RowBacked(candidates'[c])
           /\ CandidatesGrow
<1> DEFINE Fine == (\A c \in DOMAIN candidates' : RowBacked(candidates'[c])) /\ CandidatesGrow
<1>a. candidates \in Seq(CandidateRow) /\ \A c \in DOMAIN candidates : RowBacked(candidates[c])
  BY DEF IInv, TypeOK, RatingInv
<1>b. ASSUME NEW c \in DOMAIN candidates, NEW row, candidates' = [candidates EXCEPT ![c] = row],
             row.url = candidates[c].url, RowBacked(row)
      PROVE  Fine
  BY <1>a, <1>b DEF CandidatesGrow
<1>1. CASE UNCHANGED candidates
  BY <1>1, <1>a DEF CandidatesGrow
<1>2. ASSUME NEW p \in Procs, RefreshCandidate(p), candidates' # candidates
      PROVE  Fine
  <2>1. PICK l : l = procs[p]
    OBVIOUS
  <2>2. l \in Proc /\ Knows(l) /\ l.pc = "refresh" /\ FindsBacked(l)
    BY <1>2, <2>1, MyLocals DEF RefreshCandidate, At, RatingInv
  <2>3. PICK found : found = Head(l.finds)
    OBVIOUS
  <2>4. /\ found \in Proposals /\ l.row \in DOMAIN candidates
        /\ candidates[l.row].url = found.url
    BY <2>2, <2>3 DEF Proc, Knows, KnowsFinds, FindsBacked
  <2>5. candidates' = [candidates EXCEPT ![l.row].label = found.label,
                                         ![l.row].confidence = found.confidence,
                                         ![l.row].verdict = "reachable_candidate"]
    BY <1>2, <2>1, <2>3 DEF RefreshCandidate
  <2>6. candidates[l.row] \in CandidateRow
    BY <1>a, <2>4
  <2>7. PICK row : row = [candidates[l.row] EXCEPT !.label = found.label,
                            !.confidence = found.confidence,
                            !.verdict = "reachable_candidate"]
    OBVIOUS
  <2>8. /\ row.url = found.url /\ row.confidence = found.confidence
        /\ row.verdict = "reachable_candidate"
    BY <2>4, <2>6, <2>7 DEF CandidateRow
  <2>9. RowBacked(row)
    BY <2>4, <2>8 DEF RowBacked
  <2>10. candidates' = [candidates EXCEPT ![l.row] = row]
    BY <1>a, <2>4, <2>5, <2>7
  <2> QED
    BY <1>b, <2>4, <2>8, <2>9, <2>10
<1>3. ASSUME NEW p \in Procs, InsertCandidate(p), candidates' # candidates
      PROVE  Fine
  <2>1. PICK found : found = Head(procs[p].finds)
    OBVIOUS
  <2>2. found \in Proposals
    <3>1. /\ procs[p] \in Proc /\ Knows(procs[p]) /\ procs[p].pc = "insert"
          /\ FindsBacked(procs[p])
      BY <1>3, MyLocals DEF InsertCandidate, At, RatingInv
    <3> QED
      BY <2>1, <3>1 DEF Proc, Knows, KnowsFinds, FindsBacked
  <2>3. PICK row : row = [label |-> found.label, url |-> found.url,
                          confidence |-> found.confidence,
                          verdict |-> "reachable_candidate",
                          status |-> "pending", source |-> 0]
    OBVIOUS
  <2>4. candidates' = Append(candidates, row)
    BY <1>3, <2>1, <2>3 DEF InsertCandidate
  <2>5. RowBacked(row)
    BY <2>2, <2>3 DEF RowBacked
  <2>6. /\ DOMAIN candidates' = DOMAIN candidates \cup {Len(candidates) + 1}
        /\ \A c \in DOMAIN candidates : candidates'[c] = candidates[c]
        /\ candidates'[Len(candidates) + 1] = row
    BY <1>a, <2>4
  <2> QED
    BY <1>a, <2>5, <2>6 DEF CandidatesGrow
<1>4. ASSUME NEW p \in Procs, MarkAccepted(p)
      PROVE  Fine
  <2>1. PICK c : c = procs[p].candidate
    OBVIOUS
  <2>2. c \in DOMAIN candidates
    BY <1>4, <2>1, MyLocals DEF MarkAccepted, At, Knows, KnowsCandidate
  <2>3. PICK row : row = [candidates[c] EXCEPT !.status = "accepted", !.source = procs[p].row]
    OBVIOUS
  <2>4. candidates' = [candidates EXCEPT ![c] = row]
    BY <1>4, <1>a, <2>1, <2>2, <2>3 DEF MarkAccepted
  <2>5. /\ row.url = candidates[c].url /\ row.verdict = candidates[c].verdict
        /\ row.confidence = candidates[c].confidence
    BY <1>a, <2>2, <2>3 DEF CandidateRow
  <2>6. RowBacked(row)
    BY <1>a, <2>2, <2>5 DEF RowBacked
  <2> QED
    BY <1>b, <2>2, <2>4, <2>5, <2>6
<1>5. ASSUME NEW p \in Procs, StoreVerdict(p)
      PROVE  Fine
  <2>1. PICK l : l = procs[p]
    OBVIOUS
  <2>2. l \in Proc /\ Knows(l) /\ l.pc = "judge"
    BY <1>5, <2>1, MyLocals DEF StoreVerdict, At
  <2>3. PICK c : c = Head(l.checks)
    OBVIOUS
  <2>4. c \in DOMAIN candidates
    BY <2>2, <2>3 DEF Proc, Knows, KnowsFinds
  <2>5. PICK page \in Pages :
            candidates' = [candidates EXCEPT ![c].verdict = Judged(page).verdict,
                ![c].confidence = clampConfidence(l.confidence + Judged(page).delta)]
    BY <1>5, <2>1, <2>3 DEF StoreVerdict
  <2>6. PICK row : row = [candidates[c] EXCEPT !.verdict = Judged(page).verdict,
                !.confidence = clampConfidence(l.confidence + Judged(page).delta)]
    OBVIOUS
  <2>7. candidates' = [candidates EXCEPT ![c] = row]
    BY <1>a, <2>4, <2>5, <2>6
  <2>8. /\ row.url = candidates[c].url /\ row.verdict = Judged(page).verdict
        /\ row.confidence = clampConfidence(l.confidence + Judged(page).delta)
    BY <1>a, <2>4, <2>6 DEF CandidateRow
  <2>9. l.confidence \in 0..100
    BY <2>2 DEF Proc
  <2>10. RowBacked(row)
    BY <2>8, <2>9, JudgedRating DEF RowBacked
  <2> QED
    BY <1>b, <2>4, <2>7, <2>8, <2>10
<1>6. CASE RejectSourceCandidate
  <2>1. PICK c \in DOMAIN candidates :
            candidates' = [candidates EXCEPT ![c].status = "rejected"]
    BY <1>6 DEF RejectSourceCandidate
  <2>2. PICK row : row = [candidates[c] EXCEPT !.status = "rejected"]
    OBVIOUS
  <2>3. /\ row.url = candidates[c].url /\ row.verdict = candidates[c].verdict
        /\ row.confidence = candidates[c].confidence
    BY <1>a, <2>2 DEF CandidateRow
  <2>4. RowBacked(row) /\ candidates' = [candidates EXCEPT ![c] = row]
    BY <1>a, <2>1, <2>2, <2>3 DEF RowBacked
  <2> QED
    BY <1>b, <2>3, <2>4
<1>7. \/ UNCHANGED candidates
      \/ \E p \in Procs : RefreshCandidate(p) \/ InsertCandidate(p) \/ MarkAccepted(p) \/ StoreVerdict(p)
      \/ RejectSourceCandidate
  BY DEF Next, vars, Request, Proceed, Discover, FindCandidate, Accept, CreateSource,
     SeedRecommendedSources, Start, FindCompany, InsertCompany, LookForSource, RefreshSource,
     InsertSource, Validate, ReadCandidate, UserSwitches, UpdateSourceEnabled,
     UpdateCompanyEnabled, Fails, Crash
<1> QED
  BY <1>1, <1>2, <1>3, <1>4, <1>5, <1>6, <1>7

\* A list that is gone on with holds proposals, and its row keeps its page.
LEMMA BackedStep ==
    ASSUME IInv, RatingInv, [Next]_vars
    PROVE  RatingInv'
<1>1. AllFinds /\ CandidatesGrow /\ \A c \in DOMAIN candidates' : RowBacked(candidates'[c])
  BY FindsStep, RatingStep
<1>2. ASSUME NEW q \in Procs
      PROVE  FindsBacked(procs[q])'
  <2>1. PICK l : l = procs[q]
    OBVIOUS
  <2>2. PICK m : m = procs'[q]
    OBVIOUS
  <2>3. l \in Proc /\ FindsBacked(l) /\ FindsFrom(l, m)
    BY <1>1, <2>1, <2>2 DEF AllFinds, RatingInv, IInv, TypeOK
  <2>4. l.finds \in Seq(Proposal)
    BY <2>3 DEF Proc
  <2>5. \A i \in DOMAIN m.finds : m.finds[i] \in Proposals
    <3>1. CASE m = l \/ m.finds \in {<<>>, l.finds}
      BY <2>3, <3>1 DEF FindsBacked
    <3>2. CASE m.finds = Tail(l.finds) /\ l.finds # <<>>
      <4>1. /\ Len(Tail(l.finds)) = Len(l.finds) - 1 /\ Tail(l.finds) \in Seq(Proposal)
            /\ \A i \in 1..(Len(l.finds) - 1) : Tail(l.finds)[i] = l.finds[i + 1]
        BY <2>4, <3>2, HeadTailProperties
      <4>2. \A i \in 1..(Len(l.finds) - 1) : i + 1 \in DOMAIN l.finds
        BY <2>4
      <4>3. DOMAIN m.finds = 1..(Len(l.finds) - 1)
        BY <2>4, <3>2, <4>1
      <4> QED
        BY <2>3, <3>2, <4>1, <4>2, <4>3 DEF FindsBacked
    <3>3. CASE m.finds = Tail(l.finds) /\ l.finds = <<>>
      BY <3>3
    <3>4. ASSUME NEW web \in WebResults, m.finds \in Deduped(Rules \o web),
                 NEW i \in DOMAIN m.finds
          PROVE  m.finds[i] \in Proposals
      BY <3>4, FoundAmong, DedupedAmong
    <3> QED
      BY <2>3, <3>1, <3>2, <3>3, <3>4 DEF FindsFrom
  <2>6. m.pc = "refresh" =>
            m.row \in DOMAIN candidates' /\ candidates'[m.row].url = Head(m.finds).url
    BY <1>1, <2>3 DEF FindsFrom, FindsBacked, CandidatesGrow
  <2> QED
    BY <2>2, <2>5, <2>6 DEF FindsBacked
<1> QED
  BY <1>1, <1>2 DEF RatingInv

\* However validations and discoveries of a page overlap, the verdict a row
\* shows and its confidence come from one write: a page that is not validated
\* has the rating of one of its proposals, a verified one at least what
\* verification adds, an unreachable one is never at the top
\* (ValidateSourceCandidate, createSourceCandidateIfMissing).
THEOREM VerdictsBacked == Spec => []VerdictBacked
<1>1. Init => RatingInv
  BY DEF Init, RatingInv, FindsBacked, Idle
<1>2. IInv /\ RatingInv /\ [Next]_vars => RatingInv'
  BY BackedStep
<1>3. RatingInv => VerdictBacked
  BY DEF RatingInv, RowBacked, VerdictBacked
<1> QED
  BY <1>1, <1>2, <1>3, PoolInvariant, PTL DEF Spec

=============================================================================
