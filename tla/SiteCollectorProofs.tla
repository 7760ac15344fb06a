------------------------- MODULE SiteCollectorProofs -------------------------
(***************************************************************************)
(* For all sources, sites and bounds: no address is handed over twice, no  *)
(* posting some answer had is lost, and no silent source goes unseen.      *)
(***************************************************************************)
EXTENDS SiteCollector, TLAPS

PageSteps ==
    {"cards", "pages", "page cards", "links", "link", "take", "own"}
Working == {"keyword", "flush", "import"} \cup PageSteps
Members(s) == {s[i] : i \in DOMAIN s}

\* Which locals are in use where.
Shape ==
    /\ at.pc \in {"source", "page", "done"} =>
          at.source = None /\ at.own = "landing" /\ at.cards = {}
    /\ at.pc \in Working => at.source \in SourceSet
    /\ at.pc \in {"keyword", "flush"} => at.own = "landing" /\ ParserType[at.source] \in APIs
    /\ at.pc = "import" => at.own = "landing" /\ at.count = 0
                           /\ at.cards = {} /\ at.pages = {} /\ at.links = {}
    /\ at.pc = "keyword" => at.keyword \in 1..Len(Keywords)
    /\ at.pc \in {"cards", "own"} => at.cards = {}
    /\ at.pc \notin {"source", "keyword", "flush"} => todo = <<>>
    /\ at.pc = "done" => urls = <<>>

\* Postings that were found and are in no list yet.
Pending ==
    (IF at.pc = "keyword" THEN {} ELSE at.cards)
        \cup (IF at.own = "posting" THEN {at.source} ELSE {})
Kept == answered \subseteq UrlsIn(jobs) \cup UrlsIn(found) \cup Pending

\* What a source has shown it has answered.
Shown ==
    \/ at.pc = "flush"
    \/ at.pc \in PageSteps /\ (at.own # "failed" \/ at.count > 0 \/ at.cards # {}
                               \/ at.pages # {} \/ at.links # {})
Open == IF at.pc \in Working THEN {at.source} ELSE {}
Seen ==
    /\ Shown => at.source \in heard
    /\ SourceSet \subseteq heard \cup UrlsIn(jobs) \cup UrlsIn(found)
                               \cup Members(todo) \cup Members(urls) \cup Open

\* A job is appended when its address is new, and the list has it then.
LEMMA Appended ==
    ASSUME NEW list \in Seq(Job), NEW job \in Job
    PROVE  /\ appendUniqueJob(list, job) \in Seq(Job)
           /\ UrlsIn(appendUniqueJob(list, job)) = UrlsIn(list) \cup {job.url}
           /\ (\A i, k \in DOMAIN list : list[i].url = list[k].url => i = k) =>
                \A i, k \in DOMAIN appendUniqueJob(list, job) :
                    appendUniqueJob(list, job)[i].url = appendUniqueJob(list, job)[k].url
                        => i = k
<1>1. CASE job.url \in UrlsIn(list)
  BY <1>1 DEF appendUniqueJob
<1>2. CASE job.url \notin UrlsIn(list)
  <2> DEFINE new == Append(list, job)
  <2>1. /\ new \in Seq(Job) /\ DOMAIN new = 1..(Len(list) + 1)
        /\ \A i \in 1..Len(list) : new[i] = list[i]
        /\ new[Len(list) + 1] = job /\ DOMAIN list = 1..Len(list) /\ Len(list) \in Nat
    OBVIOUS
  <2>2. appendUniqueJob(list, job) = new
    BY <1>2 DEF appendUniqueJob
  <2> HIDE DEF new
  <2>3. UrlsIn(new) = UrlsIn(list) \cup {job.url}
    BY <2>1 DEF UrlsIn
  <2>4. \A i \in DOMAIN list : list[i].url # job.url
    BY <1>2 DEF UrlsIn
  <2>5. (\A i, k \in DOMAIN list : list[i].url = list[k].url => i = k) =>
            \A i, k \in DOMAIN new : new[i].url = new[k].url => i = k
    BY <2>1, <2>4
  <2> QED
    BY <2>1, <2>2, <2>3, <2>5
<1> QED
  BY <1>1, <1>2

\* A failed source is appended whether its address is new or not.
LEMMA AppendedAnyway ==
    ASSUME NEW list \in Seq(Job), NEW job \in Job
    PROVE  Append(list, job) \in Seq(Job)
           /\ UrlsIn(Append(list, job)) = UrlsIn(list) \cup {job.url}
<1> DEFINE new == Append(list, job)
<1>1. /\ new \in Seq(Job) /\ DOMAIN new = 1..(Len(list) + 1)
      /\ \A i \in 1..Len(list) : new[i] = list[i]
      /\ new[Len(list) + 1] = job /\ DOMAIN list = 1..Len(list) /\ Len(list) \in Nat
  OBVIOUS
<1> HIDE DEF new
<1>2. UrlsIn(new) = UrlsIn(list) \cup {job.url}
  BY <1>1 DEF UrlsIn
<1> QED
  BY <1>1, <1>2 DEF new

\* The head and the rest of a list have its addresses.
LEMMA HeadAndTail ==
    ASSUME NEW list \in Seq(Job), list # <<>>
    PROVE  Head(list) \in Job /\ Tail(list) \in Seq(Job)
           /\ UrlsIn(list) = UrlsIn(Tail(list)) \cup {Head(list).url}
<1> DEFINE rest == Tail(list)
<1>1. /\ rest \in Seq(Job) /\ Len(list) \in Nat \ {0}
      /\ DOMAIN rest = 1..(Len(list) - 1) /\ DOMAIN list = 1..Len(list)
      /\ \A i \in 1..(Len(list) - 1) : rest[i] = list[i + 1]
      /\ Head(list) = list[1] /\ Head(list) \in Job
  OBVIOUS
<1> HIDE DEF rest
<1>2. UrlsIn(rest) \cup {Head(list).url} \subseteq UrlsIn(list)
  BY <1>1 DEF UrlsIn
<1>3. ASSUME NEW i \in DOMAIN list
      PROVE  list[i].url \in UrlsIn(rest) \cup {Head(list).url}
  <2>1. CASE i = 1
    BY <1>1, <2>1
  <2>2. CASE i # 1
    <3>1. i - 1 \in 1..(Len(list) - 1) /\ rest[i - 1] = list[i]
      BY <1>1, <1>3, <2>2
    <3> QED
      BY <1>1, <3>1 DEF UrlsIn
  <2> QED
    BY <2>1, <2>2
<1> QED
  BY <1>1, <1>2, <1>3 DEF UrlsIn, rest

\* The same of the sources still to be looked at.
LEMMA NextAndRest ==
    ASSUME NEW s \in Seq(SourceSet), s # <<>>
    PROVE  Head(s) \in SourceSet /\ Tail(s) \in Seq(SourceSet)
           /\ Members(s) = Members(Tail(s)) \cup {Head(s)}
<1> DEFINE rest == Tail(s)
<1>1. /\ rest \in Seq(SourceSet) /\ Len(s) \in Nat \ {0}
      /\ DOMAIN rest = 1..(Len(s) - 1) /\ DOMAIN s = 1..Len(s)
      /\ \A i \in 1..(Len(s) - 1) : rest[i] = s[i + 1]
      /\ Head(s) = s[1] /\ Head(s) \in SourceSet
  OBVIOUS
<1> HIDE DEF rest
<1>2. Members(rest) \cup {Head(s)} \subseteq Members(s)
  BY <1>1 DEF Members
<1>3. ASSUME NEW i \in DOMAIN s
      PROVE  s[i] \in Members(rest) \cup {Head(s)}
  <2>1. CASE i = 1
    BY <1>1, <2>1
  <2>2. CASE i # 1
    <3>1. i - 1 \in 1..(Len(s) - 1) /\ rest[i - 1] = s[i]
      BY <1>1, <1>3, <2>2
    <3> QED
      BY <1>1, <3>1 DEF Members
  <2> QED
    BY <2>1, <2>2
<1> QED
  BY <1>1, <1>2, <1>3 DEF Members, rest

\* A page is put behind the others.
LEMMA PutLast ==
    ASSUME NEW s \in Seq(SourceSet), NEW x \in SourceSet
    PROVE  Append(s, x) \in Seq(SourceSet) /\ Members(Append(s, x)) = Members(s) \cup {x}
<1> DEFINE new == Append(s, x)
<1>1. /\ new \in Seq(SourceSet) /\ DOMAIN new = 1..(Len(s) + 1)
      /\ \A i \in 1..Len(s) : new[i] = s[i]
      /\ new[Len(s) + 1] = x /\ DOMAIN s = 1..Len(s) /\ Len(s) \in Nat
  OBVIOUS
<1> HIDE DEF new
<1>2. Members(new) = Members(s) \cup {x}
  BY <1>1 DEF Members
<1> QED
  BY <1>1, <1>2 DEF new

\* What the constants and the sites consist of.
LEMMA Constants ==
    /\ SourceSet \subseteq Urls /\ None \notin SourceSet
    /\ Sources \in Seq(SourceSet) /\ Members(Sources) = SourceSet
    /\ Len(Keywords) \in Nat \ {0}
<1>1. Sources \in Seq(Urls) /\ None \notin Urls /\ Keywords \in Seq(STRING) /\ Keywords # <<>>
  BY SiteAssumption
<1>2. SourceSet \subseteq Urls
  BY <1>1 DEF SourceSet
<1>3. Sources \in Seq(SourceSet) /\ Members(Sources) = SourceSet
  BY <1>1 DEF SourceSet, Members
<1>4. Len(Keywords) \in Nat \ {0}
  BY <1>1
<1> QED
  BY <1>1, <1>2, <1>3, <1>4

LEMMA SiteTyped ==
    ASSUME TypeOK
    PROVE  /\ \A u \in Urls : site.cards[u] \subseteq Urls /\ site.more[u] \subseteq Urls
           /\ \A s \in SourceSet : site.links[s] \subseteq Urls
           /\ \A s \in SourceSet, k \in 1..Len(Keywords) :
                site.posts[s][k] \subseteq Posts \cup {NoId}
<1>1. site \in Site
  BY SiteAssumption DEF TypeOK
<1> QED
  BY <1>1 DEF Site

\* Every posting of a known API has an address.
LEMMA PostUrlTyped ==
    ASSUME API \in APIs, NEW post \in Posts \cup {NoId}
    PROVE  PostUrl(post) \in Urls
<1>1. \A api \in APIs : UrlOf[api][post] \in Urls
  BY SiteAssumption
<1>2. API = "tencent" \/ API = "bytedance" \/ API = "oppo" \/ API = "meituan"
  BY DEF APIs
<1> QED
  BY <1>1, <1>2 DEF PostUrl, TencentUrl, ByteDanceUrl, OPPOUrl, MeituanUrl, APIs

\* The fields of the locals.
LEMMA LocalTyped ==
    ASSUME TypeOK
    PROVE  /\ at \in Local /\ at.source \in SourceSet \cup {None} /\ at.keyword \in Nat
           /\ at.tries \in Nat /\ at.count \in Nat
           /\ at.cards \subseteq Urls /\ at.pages \subseteq Urls /\ at.links \subseteq Urls
           /\ at.own \in {"posting", "landing", "failed"}
           /\ Rest \in Local
BY DEF TypeOK, Local, Rest

\* Where a collector can be.
Places ==
    {"source", "keyword", "flush", "page", "import", "cards", "pages", "page cards",
     "links", "link", "take", "own", "done"}

LEMMA JobsTyped ==
    /\ \A u \in Urls : Posting(u) \in Job /\ Failed(u) \in Job
    /\ \A u : Posting(u).url = u /\ Failed(u).url = u
BY DEF Posting, Failed, Job

Collects == TypeOK /\ Shape /\ NoUrlTwice /\ Kept /\ Seen

LEMMA InitCollects == Init => Collects
<1> SUFFICES ASSUME Init
             PROVE  Collects
  OBVIOUS
<1>1. TypeOK
  <2>1. Rest \in Local
    BY DEF Local, Rest
  <2>2. cancelled \in BOOLEAN
    BY DEF Init
  <2>3. todo \in Seq(SourceSet)
    BY Constants DEF Init
  <2>4. urls \in Seq(SourceSet) /\ found \in Seq(Job) /\ jobs \in Seq(Job)
    BY DEF Init
  <2> QED
    BY <2>1, <2>2, <2>3, <2>4 DEF Init, TypeOK
<1>2. Shape
  BY DEF Init, Shape, Rest, Working, PageSteps
<1>3. NoUrlTwice
  BY DEF Init, NoUrlTwice
<1>4. Kept
  BY DEF Init, Kept
<1>5. Seen
  BY Constants DEF Init, Seen, Shown, Rest, PageSteps
<1> QED
  BY <1>1, <1>2, <1>3, <1>4, <1>5 DEF Collects

\* Reading the page itself.
LEMMA ImportPageKeeps == Collects /\ ImportPage => Collects'
<1> SUFFICES ASSUME Collects, ImportPage
             PROVE  Collects'
  OBVIOUS
<1> USE DEF Collects
<1>1. TypeOK'
  BY LocalTyped, SiteTyped, Constants, JobsTyped, ZenonT(40)
    DEF TypeOK, Shape, Working, PageSteps, Local, At, Answers, ImportPage
<1>2. Shape'
  BY LocalTyped DEF Shape, Working, PageSteps, Local, At, ImportPage
<1>3. NoUrlTwice'
  BY DEF Collects, NoUrlTwice, ImportPage
<1>4. Kept'
  BY LocalTyped, ZenonT(40) DEF Kept, Pending, Shape, Local, At, ImportPage
<1>5. Seen'
  BY LocalTyped DEF Seen, Shown, Open, Shape, Working, PageSteps, Local, At, Answers, ImportPage
<1> QED
  BY <1>1, <1>2, <1>3, <1>4, <1>5

\* A failure leaves the lists as they are.
LEMMA FailImportKeeps == Collects /\ FailImport => Collects'
<1> SUFFICES ASSUME Collects, FailImport
             PROVE  Collects'
  OBVIOUS
<1> USE DEF Collects
<1>0. /\ at.pc = "import" /\ at.source \in SourceSet /\ at' \in Local
      /\ at'.source = at.source /\ at'.count = 0 /\ at'.cards = {} /\ at'.pages = {}
      /\ at'.links = {}
      /\ (at'.pc = "import" /\ at'.own = "landing") \/ (at'.pc = "cards" /\ at'.own = "failed")
      /\ at.cards = {} /\ at.own = "landing" /\ todo = <<>>
  <2>1. /\ at.pc = "import" /\ at.source \in SourceSet /\ at.count = 0 /\ at.cards = {}
        /\ at.pages = {} /\ at.links = {} /\ at.own = "landing" /\ todo = <<>> /\ at \in Local
    BY LocalTyped DEF FailImport, At, Shape, Working, PageSteps
  <2>2. CASE at' = GiveUp
    BY <2>1, <2>2 DEF GiveUp, Local
  <2>3. CASE at' = [at EXCEPT !.tries = @ + 1]
    <3> DEFINE n == at.tries + 1
    <3>1. n \in Nat /\ at' = [at EXCEPT !.tries = n]
      BY <2>3, LocalTyped
    <3> HIDE DEF n
    <3> QED
      BY <2>1, <3>1, LocalTyped DEF Local
  <2> QED
    BY <2>1, <2>2, <2>3 DEF FailImport
<1>1. TypeOK'
  BY <1>0, Constants DEF TypeOK, FailImport
<1>2. Shape'
  BY <1>0, LocalTyped DEF Shape, Working, PageSteps, FailImport
<1>3. NoUrlTwice'
  BY DEF Collects, NoUrlTwice, FailImport
<1>4. Kept'
  BY <1>0, LocalTyped DEF Kept, Pending, Shape, FailImport
<1>5. Seen'
  <2>1. ~Shown'
    <3>1. ~(at'.count > 0) /\ at'.cards = {} /\ at'.pages = {} /\ at'.links = {}
      BY <1>0
    <3>2. at'.pc # "flush" /\ (at'.pc \in PageSteps => at'.own = "failed")
      BY <1>0 DEF PageSteps
    <3> QED
      BY <3>1, <3>2 DEF Shown
  <2>2. Open' = Open /\ UNCHANGED <<heard, jobs, found, todo, urls>>
    BY <1>0 DEF Open, Working, PageSteps, FailImport
  <2> QED
    BY <2>1, <2>2 DEF Seen
<1> QED
  BY <1>1, <1>2, <1>3, <1>4, <1>5

\* Reading cards.
LEMMA DiscoverJobCardsKeeps == Collects /\ DiscoverJobCards => Collects'
<1> SUFFICES ASSUME Collects, DiscoverJobCards
             PROVE  Collects'
  OBVIOUS
<1> USE DEF Collects
<1>0. \E few \in SUBSET Urls :
        /\ at' \in Local /\ at'.pc = "pages" /\ at'.cards = few
        /\ at.pc = "cards" /\ at.cards = {}
        /\ at'.source = at.source /\ at'.own = at.own /\ at'.count = at.count
        /\ at'.pages = at.pages /\ at'.links = at.links
        /\ at.source \in SourceSet /\ todo = <<>>
        /\ \/ heard' = heard \cup {at.source} /\ answered' = answered \cup few
           \/ few = {} /\ heard' = heard /\ answered' = answered
  <2>1. at.pc = "cards" /\ at.source \in SourceSet /\ at.source \in Urls /\ todo = <<>>
        /\ at \in Local /\ at.cards = {}
    BY Constants, LocalTyped DEF At, Shape, Working, PageSteps, DiscoverJobCards
  <2>2. CASE Answers /\ \E few \in SUBSET site.cards[at.source] :
                /\ at' = [at EXCEPT !.cards = few, !.pc = "pages"]
                /\ answered' = answered \cup few
    <3>1. PICK few \in SUBSET site.cards[at.source] :
              at' = [at EXCEPT !.cards = few, !.pc = "pages"] /\ answered' = answered \cup few
      BY <2>2
    <3>2. few \in SUBSET Urls
      BY <2>1, SiteTyped
    <3>3. heard' = heard \cup {at.source}
      BY <2>2 DEF Answers
    <3>4. /\ at' \in Local /\ at'.pc = "pages" /\ at'.cards = few
          /\ at'.source = at.source /\ at'.own = at.own /\ at'.count = at.count
          /\ at'.pages = at.pages /\ at'.links = at.links
      BY <2>1, <3>1, <3>2, LocalTyped DEF Local
    <3> QED
      BY <2>1, <3>1, <3>2, <3>3, <3>4
  <2>3. CASE at' = [at EXCEPT !.pc = "pages"] /\ UNCHANGED <<heard, answered>>
    <3>1. /\ at' \in Local /\ at'.pc = "pages" /\ at'.cards = {}
          /\ at'.source = at.source /\ at'.own = at.own /\ at'.count = at.count
          /\ at'.pages = at.pages /\ at'.links = at.links
      BY <2>1, <2>3, LocalTyped DEF Local
    <3> QED
      BY <2>1, <2>3, <3>1
  <2> QED
    BY <2>1, <2>2, <2>3 DEF DiscoverJobCards
<1>1. TypeOK'
  BY <1>0, Constants DEF TypeOK, DiscoverJobCards
<1>2. Shape'
  BY <1>0, LocalTyped DEF Shape, Working, PageSteps, DiscoverJobCards
<1>3. NoUrlTwice'
  BY DEF Collects, NoUrlTwice, DiscoverJobCards
<1>4. Kept'
  BY <1>0, LocalTyped DEF Kept, Pending, Shape, DiscoverJobCards
<1>5. Seen'
  BY <1>0, LocalTyped DEF Seen, Shown, Open, Shape, Working, PageSteps, DiscoverJobCards
<1> QED
  BY <1>1, <1>2, <1>3, <1>4, <1>5

\* Looking for further pages.
LEMMA DiscoverPaginationLinksKeeps == Collects /\ DiscoverPaginationLinks => Collects'
<1> SUFFICES ASSUME Collects, DiscoverPaginationLinks
             PROVE  Collects'
  OBVIOUS
<1> USE DEF Collects
<1>0. \E few \in SUBSET Urls :
        /\ at' \in Local /\ at'.pc \in {"links", "page cards"} /\ at'.pages = few
        /\ at.pc = "pages" /\ at'.cards = at.cards
        /\ at'.source = at.source /\ at'.own = at.own /\ at'.count = at.count
        /\ at'.links = at.links /\ at.source \in SourceSet /\ todo = <<>>
        /\ heard' = heard \cup {at.source} \/ (few = at.pages /\ heard' = heard)
  <2>1. at.pc = "pages" /\ at.source \in SourceSet /\ at.source \in Urls /\ todo = <<>>
        /\ at \in Local
    BY Constants, LocalTyped DEF At, Shape, Working, PageSteps, DiscoverPaginationLinks
  <2>2. CASE Answers /\ \E few \in SUBSET site.more[at.source] :
                at' = [at EXCEPT !.pages = few,
                                 !.pc = IF few = {} THEN "links" ELSE "page cards"]
    <3>1. PICK few \in SUBSET site.more[at.source] :
              at' = [at EXCEPT !.pages = few,
                               !.pc = IF few = {} THEN "links" ELSE "page cards"]
      BY <2>2
    <3>2. few \in SUBSET Urls
      BY <2>1, SiteTyped
    <3>3. heard' = heard \cup {at.source}
      BY <2>2 DEF Answers
    <3> DEFINE place == IF few = {} THEN "links" ELSE "page cards"
    <3>4. place \in {"links", "page cards"} /\ at' = [at EXCEPT !.pages = few, !.pc = place]
      BY <3>1
    <3> HIDE DEF place
    <3>5. /\ at' \in Local /\ at'.pc \in {"links", "page cards"} /\ at'.pages = few
          /\ at'.source = at.source /\ at'.own = at.own /\ at'.count = at.count
          /\ at'.cards = at.cards /\ at'.links = at.links
      BY <2>1, <3>2, <3>4, LocalTyped DEF Local
    <3> QED
      BY <2>1, <3>2, <3>3, <3>5
  <2>3. CASE at' = [at EXCEPT !.pc = "links"] /\ UNCHANGED heard
    <3>1. /\ at' \in Local /\ at'.pc = "links" /\ at'.pages = at.pages
          /\ at'.source = at.source /\ at'.own = at.own /\ at'.count = at.count
          /\ at'.cards = at.cards /\ at'.links = at.links
      BY <2>1, <2>3, LocalTyped DEF Local
    <3> QED
      BY <2>1, <2>3, <3>1, LocalTyped
  <2> QED
    BY <2>1, <2>2, <2>3 DEF DiscoverPaginationLinks
<1>1. TypeOK'
  BY <1>0, Constants DEF TypeOK, DiscoverPaginationLinks
<1>2. Shape'
  BY <1>0, LocalTyped DEF Shape, Working, PageSteps, DiscoverPaginationLinks
<1>3. NoUrlTwice'
  BY DEF Collects, NoUrlTwice, DiscoverPaginationLinks
<1>4. Kept'
  BY <1>0, LocalTyped DEF Kept, Pending, Shape, DiscoverPaginationLinks
<1>5. Seen'
  BY <1>0, LocalTyped DEF Seen, Shown, Open, Shape, Working, PageSteps, DiscoverPaginationLinks
<1> QED
  BY <1>1, <1>2, <1>3, <1>4, <1>5

\* Reading a further page.
LEMMA DiscoverPageCardsKeeps == Collects /\ DiscoverPageCards => Collects'
<1> SUFFICES ASSUME Collects, DiscoverPageCards
             PROVE  Collects'
  OBVIOUS
<1> USE DEF Collects
<1>0. \E few, left \in SUBSET Urls :
        /\ at' \in Local /\ at'.pc \in {"links", "page cards"} /\ at'.pages = left
        /\ at.pc = "page cards" /\ at.pages # {} /\ at'.cards = at.cards \cup few
        /\ at'.source = at.source /\ at'.own = at.own /\ at'.count = at.count
        /\ at'.links = at.links /\ at.source \in SourceSet /\ todo = <<>>
        /\ \/ heard' = heard \cup {at.source} /\ answered' = answered \cup few
           \/ few = {} /\ heard' = heard /\ answered' = answered
  <2>1. at.pc = "page cards" /\ at.source \in SourceSet /\ at.source \in Urls /\ todo = <<>>
        /\ at \in Local
    BY Constants, LocalTyped DEF At, Shape, Working, PageSteps, DiscoverPageCards
  <2>2. PICK page \in at.pages :
          LET l == [at EXCEPT !.pages = Onward(page),
                              !.pc = IF Onward(page) = {} THEN "links" ELSE "page cards"]
          IN  \/ /\ Answers
                 /\ \E few \in SUBSET site.cards[page] :
                      /\ at' = [l EXCEPT !.cards = @ \cup few]
                      /\ answered' = answered \cup few
              \/ at' = l /\ UNCHANGED <<heard, answered>>
    BY DEF DiscoverPageCards
  <2> DEFINE left == Onward(page)
             place == IF left = {} THEN "links" ELSE "page cards"
             l == [at EXCEPT !.pages = left, !.pc = place]
  <2>3. left \in SUBSET Urls /\ place \in {"links", "page cards"} /\ place \in Places
        /\ page \in Urls
    BY LocalTyped DEF Onward, Places
  <2>4. /\ l \in Local /\ l.pc = place /\ l.pages = left /\ l.cards = at.cards
        /\ l.source = at.source /\ l.own = at.own /\ l.count = at.count /\ l.links = at.links
    <3> HIDE DEF left, place
    <3> QED
      BY <2>1, <2>3, LocalTyped DEF Local
  <2>5. \/ /\ Answers
           /\ \E few \in SUBSET site.cards[page] :
                at' = [l EXCEPT !.cards = @ \cup few] /\ answered' = answered \cup few
        \/ at' = l /\ UNCHANGED <<heard, answered>>
    BY <2>2
  <2> HIDE DEF l, left, place
  <2>6. CASE Answers /\ \E few \in SUBSET site.cards[page] :
                at' = [l EXCEPT !.cards = @ \cup few] /\ answered' = answered \cup few
    <3>1. PICK few \in SUBSET site.cards[page] :
              at' = [l EXCEPT !.cards = @ \cup few] /\ answered' = answered \cup few
      BY <2>6
    <3>2. few \in SUBSET Urls
      BY <2>3, SiteTyped
    <3>3. heard' = heard \cup {at.source}
      BY <2>6 DEF Answers
    <3>4. /\ at' \in Local /\ at'.pc = l.pc /\ at'.pages = l.pages
          /\ at'.cards = l.cards \cup few /\ at'.source = l.source /\ at'.own = l.own
          /\ at'.count = l.count /\ at'.links = l.links
      BY <2>4, <3>1, <3>2, LocalTyped DEF Local
    <3> QED
      BY <2>1, <2>3, <2>4, <3>1, <3>2, <3>3, <3>4
  <2>7. CASE at' = l /\ UNCHANGED <<heard, answered>>
    BY <2>1, <2>3, <2>4, <2>7
  <2> QED
    BY <2>5, <2>6, <2>7
<1>1. TypeOK'
  BY <1>0, Constants DEF TypeOK, DiscoverPageCards
<1>2. Shape'
  BY <1>0, LocalTyped DEF Shape, Working, PageSteps, DiscoverPageCards
<1>3. NoUrlTwice'
  BY DEF Collects, NoUrlTwice, DiscoverPageCards
<1>4. Kept'
  BY <1>0, LocalTyped DEF Kept, Pending, Shape, DiscoverPageCards
<1>5. Seen'
  BY <1>0, LocalTyped DEF Seen, Shown, Open, Shape, Working, PageSteps, DiscoverPageCards
<1> QED
  BY <1>1, <1>2, <1>3, <1>4, <1>5

\* Looking for links.
LEMMA DiscoverLinksKeeps == Collects /\ DiscoverLinks => Collects'
<1> SUFFICES ASSUME Collects, DiscoverLinks
             PROVE  Collects'
  OBVIOUS
<1> USE DEF Collects
<1>0. \E few \in SUBSET Urls :
        /\ at' \in Local /\ at'.pc \in {"take", "link"} /\ at'.links = few
        /\ at.pc = "links" /\ at'.cards = at.cards
        /\ at'.source = at.source /\ at'.own = at.own /\ at'.count = at.count
        /\ at'.pages = at.pages /\ at.source \in SourceSet /\ todo = <<>>
        /\ heard' = heard \cup {at.source} \/ (few = at.links /\ heard' = heard)
  <2>1. at.pc = "links" /\ at.source \in SourceSet /\ at.source \in Urls /\ todo = <<>>
        /\ at \in Local
    BY Constants, LocalTyped DEF At, Shape, Working, PageSteps, DiscoverLinks
  <2>2. CASE Answers /\ \E few \in SUBSET site.links[at.source] :
                at' = [at EXCEPT !.links = few, !.pc = IF few = {} THEN "take" ELSE "link"]
    <3>1. PICK few \in SUBSET site.links[at.source] :
              at' = [at EXCEPT !.links = few, !.pc = IF few = {} THEN "take" ELSE "link"]
      BY <2>2
    <3>2. few \in SUBSET Urls
      BY <2>1, SiteTyped
    <3>3. heard' = heard \cup {at.source}
      BY <2>2 DEF Answers
    <3> DEFINE place == IF few = {} THEN "take" ELSE "link"
    <3>4. place \in {"take", "link"} /\ at' = [at EXCEPT !.links = few, !.pc = place]
      BY <3>1
    <3> HIDE DEF place
    <3>5. /\ at' \in Local /\ at'.pc \in {"take", "link"} /\ at'.links = few
          /\ at'.source = at.source /\ at'.own = at.own /\ at'.count = at.count
          /\ at'.cards = at.cards /\ at'.pages = at.pages
      BY <2>1, <3>2, <3>4, LocalTyped DEF Local
    <3> QED
      BY <2>1, <3>2, <3>3, <3>5
  <2>3. CASE at' = [at EXCEPT !.pc = "take"] /\ UNCHANGED heard
    <3>1. /\ at' \in Local /\ at'.pc = "take" /\ at'.links = at.links
          /\ at'.source = at.source /\ at'.own = at.own /\ at'.count = at.count
          /\ at'.cards = at.cards /\ at'.pages = at.pages
      BY <2>1, <2>3, LocalTyped DEF Local
    <3> QED
      BY <2>1, <2>3, <3>1, LocalTyped
  <2> QED
    BY <2>1, <2>2, <2>3 DEF DiscoverLinks
<1>1. TypeOK'
  BY <1>0, Constants DEF TypeOK, DiscoverLinks
<1>2. Shape'
  BY <1>0, LocalTyped DEF Shape, Working, PageSteps, DiscoverLinks
<1>3. NoUrlTwice'
  BY DEF Collects, NoUrlTwice, DiscoverLinks
<1>4. Kept'
  BY <1>0, LocalTyped DEF Kept, Pending, Shape, DiscoverLinks
<1>5. Seen'
  BY <1>0, LocalTyped DEF Seen, Shown, Open, Shape, Working, PageSteps, DiscoverLinks
<1> QED
  BY <1>1, <1>2, <1>3, <1>4, <1>5

\* Going away.
LEMMA CancelKeeps == Collects /\ Cancel => Collects'
<1> SUFFICES ASSUME Collects, Cancel
             PROVE  Collects'
  OBVIOUS
<1> USE DEF Collects
<1>1. TypeOK'
  BY LocalTyped, SiteTyped, Constants, JobsTyped DEF TypeOK, Shape, Working, PageSteps, Local, At, Answers, Cancel
<1>2. Shape'
  BY LocalTyped DEF Shape, Working, PageSteps, Local, At, Cancel
<1>3. NoUrlTwice'
  BY DEF Collects, NoUrlTwice, Cancel
<1>4. Kept'
  BY LocalTyped DEF Kept, Pending, Shape, Local, At, Cancel
<1>5. Seen'
  BY LocalTyped DEF Seen, Shown, Open, Shape, Working, PageSteps, Local, At, Answers, Cancel
<1> QED
  BY <1>1, <1>2, <1>3, <1>4, <1>5

\* A page with a bad address, or none to wait for.
LEMMA RejectImportKeeps == Collects /\ RejectImport => Collects'
<1> SUFFICES ASSUME Collects, RejectImport
             PROVE  Collects'
  OBVIOUS
<1> USE DEF Collects
<1>0. /\ at.pc = "import" /\ at.source \in SourceSet /\ at' \in Local /\ at.cards = {}
      /\ at.own = "landing" /\ at.count = 0 /\ todo = <<>>
      /\ at'.pc = "page" /\ at'.source = None /\ at'.own = "landing" /\ at'.cards = {}
      /\ found' \in Seq(Job) /\ UrlsIn(found') = UrlsIn(found) \cup {at.source}
  <2>1. at.pc = "import" /\ at.source \in SourceSet /\ at.source \in Urls
        /\ at.cards = {} /\ at.own = "landing" /\ at.count = 0 /\ todo = <<>>
    BY Constants DEF RejectImport, At, Shape, Working
  <2>2. at' = [Rest EXCEPT !.pc = "page"] /\ found' = Append(found, Failed(at.source))
    BY DEF RejectImport
  <2>3. at' \in Local /\ at'.pc = "page" /\ at'.source = None /\ at'.own = "landing"
        /\ at'.cards = {}
    BY <2>2 DEF Rest, Local
  <2>4. found' \in Seq(Job) /\ UrlsIn(found') = UrlsIn(found) \cup {at.source}
    BY <2>1, <2>2, JobsTyped, AppendedAnyway DEF TypeOK
  <2> QED
    BY <2>1, <2>3, <2>4
<1>1. TypeOK'
  BY <1>0, Constants DEF TypeOK, RejectImport
<1>2. Shape'
  BY <1>0, LocalTyped DEF Shape, Working, PageSteps, RejectImport
<1>3. NoUrlTwice'
  BY DEF Collects, NoUrlTwice, RejectImport
<1>4. Kept'
  BY <1>0, LocalTyped DEF Kept, Pending, Shape, RejectImport
<1>5. Seen'
  BY <1>0, LocalTyped DEF Seen, Shown, Open, Shape, Working, PageSteps, RejectImport
<1> QED
  BY <1>1, <1>2, <1>3, <1>4, <1>5

\* The next page, or the end.
LEMMA NextPageKeeps == Collects /\ NextPage => Collects'
<1> SUFFICES ASSUME Collects, NextPage
             PROVE  Collects'
  OBVIOUS
<1> USE DEF Collects
<1>0. /\ at' \in Local /\ at'.own = "landing" /\ at'.cards = {} /\ at'.pages = {}
      /\ at'.links = {} /\ at'.count = 0 /\ todo = <<>> /\ at.pc \in {"source", "page"}
      /\ at.cards = {} /\ at.own = "landing" /\ urls' \in Seq(SourceSet)
      /\ \/ urls = <<>> /\ at'.pc = "done" /\ at'.source = None /\ urls' = urls
         \/ /\ at'.pc = "import" /\ at'.source \in SourceSet
            /\ Members(urls) = Members(urls') \cup {at'.source}
  <2>1. todo = <<>> /\ at.pc \in {"source", "page"} /\ at.cards = {} /\ at.own = "landing"
        /\ urls \in Seq(SourceSet)
    BY DEF NextPage, At, Shape, TypeOK
  <2>2. CASE urls = <<>>
    <3>1. at' = [Rest EXCEPT !.pc = "done"] /\ urls' = urls
      BY <2>2 DEF NextPage
    <3>2. /\ at' \in Local /\ at'.pc = "done" /\ at'.source = None /\ at'.own = "landing"
          /\ at'.cards = {} /\ at'.pages = {} /\ at'.links = {} /\ at'.count = 0
      BY <3>1 DEF Rest, Local
    <3> QED
      BY <2>1, <2>2, <3>1, <3>2
  <2>3. CASE urls # <<>>
    <3> DEFINE s == Head(urls)
    <3>1. at' = [Rest EXCEPT !.pc = "import", !.source = s, !.tries = 1]
          /\ urls' = Tail(urls)
      BY <2>3 DEF NextPage
    <3>2. s \in SourceSet /\ urls' \in Seq(SourceSet) /\ Members(urls) = Members(urls') \cup {s}
      BY <2>1, <2>3, <3>1, NextAndRest
    <3> HIDE DEF s
    <3>3. /\ at' \in Local /\ at'.pc = "import" /\ at'.source = s /\ at'.own = "landing"
          /\ at'.cards = {} /\ at'.pages = {} /\ at'.links = {} /\ at'.count = 0
      BY <3>1, <3>2 DEF Rest, Local
    <3> QED
      BY <2>1, <3>2, <3>3
  <2> QED
    BY <2>2, <2>3
<1>1. TypeOK'
  BY <1>0, Constants DEF TypeOK, NextPage
<1>2. Shape'
  BY <1>0, LocalTyped DEF Shape, Working, PageSteps, NextPage
<1>3. NoUrlTwice'
  BY DEF Collects, NoUrlTwice, NextPage
<1>4. Kept'
  BY <1>0, LocalTyped DEF Kept, Pending, Shape, NextPage
<1>5. Seen'
  BY <1>0, LocalTyped DEF Seen, Shown, Open, Shape, Working, PageSteps, NextPage
<1> QED
  BY <1>1, <1>2, <1>3, <1>4, <1>5

\* The next source; a page waits until the APIs were asked.
LEMMA NextSourceKeeps == Collects /\ NextSource => Collects'
<1> SUFFICES ASSUME Collects, NextSource
             PROVE  Collects'
  OBVIOUS
<1> USE DEF Collects
<1>0. /\ at.pc = "source" /\ at.cards = {} /\ at.own = "landing" /\ at.source = None
      /\ todo' \in Seq(SourceSet) /\ urls' \in Seq(SourceSet) /\ at' \in Local
      /\ \/ at' = at /\ Members(todo) \cup Members(urls) = Members(todo') \cup Members(urls')
         \/ /\ at'.pc = "keyword" /\ at'.source \in SourceSet /\ at'.own = "landing"
            /\ at'.cards = {} /\ ParserType[at'.source] \in APIs
            /\ at'.keyword \in 1..Len(Keywords) /\ urls' = urls
            /\ Members(todo) = Members(todo') \cup {at'.source}
  <2> DEFINE s == Head(todo)
  <2>1. at.pc = "source" /\ at.cards = {} /\ at.own = "landing" /\ at.source = None
        /\ at \in Local /\ todo # <<>>
    BY LocalTyped DEF NextSource, At, Shape
  <2>2. todo' = Tail(todo) /\ todo \in Seq(SourceSet) /\ urls \in Seq(SourceSet)
    BY DEF NextSource, TypeOK
  <2>3. s \in SourceSet /\ todo' \in Seq(SourceSet) /\ Members(todo) = Members(todo') \cup {s}
    BY <2>1, <2>2, NextAndRest
  <2>4. CASE ParserType[s] = "page"
    <3>1. urls' = Append(urls, s) /\ at' = at
      BY <2>4 DEF NextSource
    <3>2. urls' \in Seq(SourceSet) /\ Members(urls') = Members(urls) \cup {s}
      BY <2>2, <2>3, <3>1, PutLast
    <3> QED
      BY <2>1, <2>3, <3>1, <3>2
  <2>5. CASE ParserType[s] # "page"
    <3>1. at' = [Rest EXCEPT !.pc = "keyword", !.source = s, !.keyword = 1] /\ urls' = urls
      BY <2>5 DEF NextSource
    <3>2. ParserType[s] \in APIs
      BY <2>3, <2>5, SiteAssumption
    <3> HIDE DEF s
    <3>3. /\ at' \in Local /\ at'.pc = "keyword" /\ at'.source = s /\ at'.own = "landing"
          /\ at'.cards = {} /\ at'.keyword = 1
      BY <2>3, <3>1 DEF Rest, Local
    <3>4. 1 \in 1..Len(Keywords)
      BY Constants
    <3> QED
      BY <2>1, <2>2, <2>3, <3>1, <3>2, <3>3, <3>4
  <2> QED
    BY <2>4, <2>5
<1>1. TypeOK'
  BY <1>0, Constants DEF TypeOK, NextSource
<1>2. Shape'
  BY <1>0, LocalTyped DEF Shape, Working, PageSteps, NextSource
<1>3. NoUrlTwice'
  BY DEF Collects, NoUrlTwice, NextSource
<1>4. Kept'
  BY <1>0, LocalTyped DEF Kept, Pending, Shape, NextSource
<1>5. Seen'
  BY <1>0, LocalTyped DEF Seen, Shown, Open, Shape, Working, PageSteps, NextSource
<1> QED
  BY <1>1, <1>2, <1>3, <1>4, <1>5

\* A source that failed is among the jobs.
LEMMA FailSourceKeeps ==
    Collects /\ At("keyword") /\ FailSource
        /\ UNCHANGED <<site, todo, urls, found, cancelled>> => Collects'
<1> SUFFICES ASSUME Collects, At("keyword"), FailSource,
                    UNCHANGED <<site, todo, urls, found, cancelled>>
             PROVE  Collects'
  OBVIOUS
<1> USE DEF Collects
<1>0. /\ at.pc = "keyword" /\ at.source \in SourceSet /\ at.own = "landing"
      /\ jobs' \in Seq(Job) /\ UrlsIn(jobs') = UrlsIn(jobs) \cup {at.source} /\ NoUrlTwice'
      /\ at' \in Local /\ at'.pc = "source" /\ at'.source = None /\ at'.own = "landing"
      /\ at'.cards = {} /\ UNCHANGED <<heard, answered>>
  <2>1. at.pc = "keyword" /\ at.source \in SourceSet /\ at.source \in Urls
        /\ at.own = "landing" /\ jobs \in Seq(Job)
    BY Constants DEF At, Shape, Working, TypeOK
  <2>2. jobs' = appendUniqueJob(jobs, Failed(at.source)) /\ at' = Rest
        /\ UNCHANGED <<heard, answered>>
    BY DEF FailSource
  <2>3. jobs' \in Seq(Job) /\ UrlsIn(jobs') = UrlsIn(jobs) \cup {at.source} /\ NoUrlTwice'
    BY <2>1, <2>2, JobsTyped, Appended, ZenonT(40) DEF NoUrlTwice
  <2>4. at' \in Local /\ at'.pc = "source" /\ at'.source = None /\ at'.own = "landing"
        /\ at'.cards = {}
    BY <2>2 DEF Rest, Local
  <2> QED
    BY <2>1, <2>2, <2>3, <2>4
<1>1. TypeOK'
  BY <1>0 DEF TypeOK
<1>2. Shape'
  BY <1>0 DEF Shape, Working, PageSteps
<1>4. Kept'
  BY <1>0 DEF Kept, Pending
<1>5. Seen'
  BY <1>0 DEF Seen, Shown, Open, Working, PageSteps
<1> QED
  BY <1>0, <1>1, <1>2, <1>4, <1>5

\* A keyword that was answered is counted when it was the last.
LEMMA KeywordKeeps ==
    ASSUME Collects, At("keyword"), NEW new \in SUBSET Urls, Keyword(new),
           UNCHANGED <<site, todo, urls, found, jobs, cancelled>>
    PROVE  Collects'
<1> USE DEF Collects
<1> DEFINE last == at.keyword = Len(Keywords)
           n == at.keyword + 1
           cards == at.cards \cup new
           place == IF last THEN "flush" ELSE "keyword"
<1>a. /\ at.pc = "keyword" /\ at.source \in SourceSet /\ at.own = "landing" /\ at \in Local
      /\ ParserType[at.source] \in APIs /\ at.keyword \in 1..Len(Keywords)
      /\ at.cards \subseteq Urls
  BY LocalTyped DEF At, Shape, Working
<1>b. n \in Nat /\ cards \in SUBSET Urls /\ place \in {"flush", "keyword"}
      /\ (place = "keyword" => n \in 1..Len(Keywords)) /\ (last <=> place = "flush")
  BY <1>a, Constants
<1>c. /\ at' = [at EXCEPT !.keyword = n, !.cards = cards, !.pc = place]
      /\ answered' = IF last THEN answered \cup cards ELSE answered
      /\ heard' = IF last THEN heard \cup {at.source} ELSE heard
  BY DEF Keyword
<1> HIDE DEF last, n, cards, place
<1>0. /\ at' \in Local /\ at'.pc = place /\ at'.keyword = n /\ at'.cards = cards
      /\ at'.source = at.source /\ at'.own = "landing"
  BY <1>a, <1>b, <1>c, LocalTyped DEF Local
<1>1. TypeOK'
  <2>1. answered' \subseteq Urls /\ heard' \subseteq SourceSet
    BY <1>a, <1>b, <1>c DEF TypeOK
  <2> QED
    BY <1>0, <2>1 DEF TypeOK
<1>2. Shape'
  BY <1>0, <1>a, <1>b DEF Shape, Working, PageSteps
<1>3. NoUrlTwice'
  BY DEF NoUrlTwice
<1>4. Kept'
  BY <1>0, <1>a, <1>b, <1>c DEF Kept, Pending
<1>5. Seen'
  BY <1>0, <1>a, <1>b, <1>c DEF Seen, Shown, Open, Working, PageSteps
<1> QED
  BY <1>1, <1>2, <1>3, <1>4, <1>5

\* The keyword in turn is answered.
LEMMA CollectKeywordKeeps == Collects /\ CollectKeyword => Collects'
<1> SUFFICES ASSUME Collects, CollectKeyword
             PROVE  Collects'
  OBVIOUS
<1> DEFINE new == {PostUrl(post) : post \in site.posts[at.source][at.keyword]}
<1>1. API \in APIs /\ at.source \in SourceSet /\ at.keyword \in 1..Len(Keywords)
  BY DEF Collects, CollectKeyword, At, Shape, Working, API
<1>2. \A post \in site.posts[at.source][at.keyword] : post \in Posts \cup {NoId}
  BY <1>1, SiteTyped DEF Collects
<1>3. new \in SUBSET Urls
  BY <1>1, <1>2, PostUrlTyped
<1>4. /\ At("keyword") /\ Keyword(new)
      /\ UNCHANGED <<site, todo, urls, found, jobs, cancelled>>
  BY DEF CollectKeyword
<1> HIDE DEF new
<1> QED
  BY <1>3, <1>4, KeywordKeeps

LEMMA FailKeywordKeeps == Collects /\ FailKeyword => Collects'
BY FailSourceKeeps DEF FailKeyword

\* A refusal is a failure, or passes for an answer.
LEMMA RefuseKeywordKeeps == Collects /\ RefuseKeyword => Collects'
<1> SUFFICES ASSUME Collects, RefuseKeyword
             PROVE  Collects'
  OBVIOUS
<1>1. CASE ChecksCode
  <2>1. At("keyword") /\ FailSource /\ UNCHANGED <<site, todo, urls, found, cancelled>>
    BY <1>1 DEF RefuseKeyword
  <2> QED
    BY <2>1, FailSourceKeeps
<1>2. CASE ~ChecksCode
  <2>1. At("keyword") /\ Keyword({}) /\ UNCHANGED <<site, todo, urls, found, jobs, cancelled>>
    BY <1>2 DEF RefuseKeyword
  <2>2. {} \in SUBSET Urls
    OBVIOUS
  <2> QED
    BY <2>1, <2>2, KeywordKeeps
<1> QED
  BY <1>1, <1>2

\* A posting goes from the collector's list to that of all.
LEMMA TakePostKeeps == Collects /\ TakePost => Collects'
<1> SUFFICES ASSUME Collects, TakePost
             PROVE  Collects'
  OBVIOUS
<1> USE DEF Collects
<1>0. /\ at.pc = "flush" /\ at.source \in SourceSet /\ at.own = "landing"
      /\ at.source \in heard /\ at' \in Local /\ at'.own = "landing"
      /\ jobs' \in Seq(Job) /\ NoUrlTwice' /\ UNCHANGED <<heard, answered>>
      /\ \/ /\ at.cards = {} /\ jobs' = jobs /\ at'.pc = "source" /\ at'.source = None
            /\ at'.cards = {}
         \/ /\ at'.pc = "flush" /\ at'.source = at.source /\ ParserType[at.source] \in APIs
            /\ \E u \in Urls : /\ at'.cards = at.cards \ {u}
                               /\ UrlsIn(jobs') = UrlsIn(jobs) \cup {u}
  <2>1. /\ at.pc = "flush" /\ at.source \in SourceSet /\ at.own = "landing" /\ at \in Local
        /\ ParserType[at.source] \in APIs /\ at.source \in heard /\ jobs \in Seq(Job)
        /\ at.cards \subseteq Urls /\ NoUrlTwice
    BY LocalTyped DEF TakePost, At, Shape, Seen, Shown, Working, TypeOK
  <2>2. CASE at.cards = {}
    <3>1. at' = Rest /\ jobs' = jobs
      BY <2>2 DEF TakePost
    <3>2. at' \in Local /\ at'.own = "landing" /\ at'.pc = "source" /\ at'.source = None
          /\ at'.cards = {}
      BY <3>1 DEF Rest, Local
    <3> QED
      BY <2>1, <2>2, <3>1, <3>2 DEF TakePost, NoUrlTwice
  <2>3. CASE at.cards # {}
    <3>1. PICK u \in at.cards : jobs' = appendUniqueJob(jobs, Posting(u))
                                /\ at' = [at EXCEPT !.cards = @ \ {u}]
      BY <2>3 DEF TakePost
    <3>2. /\ at' \in Local /\ at'.pc = "flush" /\ at'.source = at.source
          /\ at'.own = "landing" /\ at'.cards = at.cards \ {u}
      BY <2>1, <3>1, LocalTyped DEF Local
    <3>3. u \in Urls /\ Posting(u) \in Job /\ Posting(u).url = u
      BY <2>1, JobsTyped
    <3>4. jobs' \in Seq(Job) /\ UrlsIn(jobs') = UrlsIn(jobs) \cup {u} /\ NoUrlTwice'
      BY <2>1, <3>1, <3>3, Appended DEF NoUrlTwice
    <3> QED
      BY <2>1, <3>2, <3>3, <3>4 DEF TakePost
  <2> QED
    BY <2>2, <2>3
<1>1. TypeOK'
  BY <1>0, Constants DEF TypeOK, TakePost
<1>2. Shape'
  BY <1>0, LocalTyped DEF Shape, Working, PageSteps, TakePost
<1>3. NoUrlTwice'
  BY <1>0
<1>4. Kept'
  BY <1>0, LocalTyped DEF Kept, Pending, Shape, TakePost
<1>5. Seen'
  BY <1>0, LocalTyped DEF Seen, Shown, Open, Shape, Working, PageSteps, TakePost
<1> QED
  BY <1>1, <1>2, <1>3, <1>4, <1>5

\* A page's job goes to the list of all.
LEMMA TakeFoundKeeps == Collects /\ TakeFound => Collects'
<1> SUFFICES ASSUME Collects, TakeFound
             PROVE  Collects'
  OBVIOUS
<1> USE DEF Collects
<1>0. /\ at.pc = "done" /\ found' \in Seq(Job) /\ jobs' \in Seq(Job) /\ NoUrlTwice'
      /\ UrlsIn(jobs) \cup UrlsIn(found) = UrlsIn(jobs') \cup UrlsIn(found')
  <2>1. at.pc = "done" /\ found # <<>> /\ found \in Seq(Job) /\ jobs \in Seq(Job)
    BY DEF TakeFound, At, TypeOK
  <2>2. found' = Tail(found) /\ jobs' = appendUniqueJob(jobs, Head(found))
    BY DEF TakeFound
  <2>3. Head(found) \in Job /\ found' \in Seq(Job)
        /\ UrlsIn(found) = UrlsIn(found') \cup {Head(found).url}
    BY <2>1, <2>2, HeadAndTail
  <2>4. /\ jobs' \in Seq(Job) /\ NoUrlTwice'
        /\ UrlsIn(jobs') = UrlsIn(jobs) \cup {Head(found).url}
    BY <2>1, <2>2, <2>3, Appended DEF NoUrlTwice
  <2> QED
    BY <2>1, <2>3, <2>4
<1>1. TypeOK'
  BY <1>0, Constants DEF TypeOK, TakeFound
<1>2. Shape'
  BY <1>0, LocalTyped DEF Shape, Working, PageSteps, TakeFound
<1>3. NoUrlTwice'
  BY <1>0
<1>4. Kept'
  BY <1>0, LocalTyped DEF Kept, Pending, Shape, TakeFound
<1>5. Seen'
  BY <1>0, LocalTyped DEF Seen, Shown, Open, Shape, Working, PageSteps, TakeFound
<1> QED
  BY <1>1, <1>2, <1>3, <1>4, <1>5

\* A link that is a posting, or failed, is among the jobs.
LEMMA ImportLinkKeeps == Collects /\ ImportLink => Collects'
<1> SUFFICES ASSUME Collects, ImportLink
             PROVE  Collects'
  OBVIOUS
<1> USE DEF Collects
<1>0. /\ at.pc = "link" /\ at.source \in SourceSet /\ todo = <<>> /\ at.links # {}
      /\ at.source \in heard /\ at' \in Local /\ at'.pc \in {"take", "link"}
      /\ at'.source = at.source /\ at'.cards = at.cards /\ at'.own = at.own
      /\ found' \in Seq(Job) /\ heard' = heard
      /\ \/ UrlsIn(found') = UrlsIn(found) /\ answered' = answered
         \/ \E u \in Urls : UrlsIn(found') = UrlsIn(found) \cup {u}
                            /\ answered' = answered \cup {u}
  <2>1. /\ at.pc = "link" /\ at.source \in SourceSet /\ todo = <<>> /\ found \in Seq(Job)
        /\ at \in Local /\ at.links \subseteq Urls
    BY LocalTyped DEF ImportLink, At, Shape, Working, PageSteps, TypeOK
  <2>2. PICK u \in at.links, ok \in BOOLEAN :
            LET l == [at EXCEPT !.links = @ \ {u},
                                !.pc = IF at.links = {u} THEN "take" ELSE "link"]
            IN  IF ok /\ u \notin site.concrete
                THEN at' = l /\ UNCHANGED <<found, answered>>
                ELSE /\ found' = appendUniqueJob(found, IF ok THEN Posting(u) ELSE Failed(u))
                     /\ answered' = answered \cup {u}
                     /\ at' = [l EXCEPT !.count = @ + 1]
    BY DEF ImportLink
  <2> DEFINE left == at.links \ {u}
             place == IF at.links = {u} THEN "take" ELSE "link"
             l == [at EXCEPT !.links = left, !.pc = place]
             job == IF ok THEN Posting(u) ELSE Failed(u)
  <2>3. left \in SUBSET Urls /\ place \in {"take", "link"} /\ u \in Urls
        /\ job \in Job /\ job.url = u
    BY <2>1, JobsTyped
  <2>4. /\ l \in Local /\ l.pc = place /\ l.source = at.source /\ l.cards = at.cards
        /\ l.own = at.own /\ l.count \in Nat
    <3> HIDE DEF left, place
    <3> QED
      BY <2>1, <2>3, LocalTyped DEF Local
  <2>5. IF ok /\ u \notin site.concrete
        THEN at' = l /\ UNCHANGED <<found, answered>>
        ELSE /\ found' = appendUniqueJob(found, job) /\ answered' = answered \cup {u}
             /\ at' = [l EXCEPT !.count = @ + 1]
    BY <2>2
  <2>6. at.source \in heard /\ heard' = heard
    BY <2>1 DEF Seen, Shown, PageSteps, ImportLink
  <2> HIDE DEF l, left, place, job
  <2>7. CASE ok /\ u \notin site.concrete
    BY <2>1, <2>2, <2>3, <2>4, <2>5, <2>6, <2>7
  <2>8. CASE ~(ok /\ u \notin site.concrete)
    <3> DEFINE n == l.count + 1
    <3>1. n \in Nat /\ at' = [l EXCEPT !.count = n]
      BY <2>4, <2>5, <2>8
    <3> HIDE DEF n
    <3>2. /\ at' \in Local /\ at'.pc = l.pc /\ at'.source = l.source /\ at'.cards = l.cards
          /\ at'.own = l.own
      BY <2>4, <3>1 DEF Local
    <3>3. found' \in Seq(Job) /\ UrlsIn(found') = UrlsIn(found) \cup {u}
      BY <2>1, <2>3, <2>5, <2>8, Appended
    <3> QED
      BY <2>1, <2>2, <2>3, <2>4, <2>5, <2>6, <2>8, <3>2, <3>3
  <2> QED
    BY <2>7, <2>8
<1>1. TypeOK'
  BY <1>0, Constants DEF TypeOK, ImportLink
<1>2. Shape'
  BY <1>0, LocalTyped DEF Shape, Working, PageSteps, ImportLink
<1>3. NoUrlTwice'
  BY DEF Collects, NoUrlTwice, ImportLink
<1>4. Kept'
  BY <1>0, LocalTyped DEF Kept, Pending, Shape, ImportLink
<1>5. Seen'
  BY <1>0, LocalTyped DEF Seen, Shown, Open, Shape, Working, PageSteps, ImportLink
<1> QED
  BY <1>1, <1>2, <1>3, <1>4, <1>5

\* A card is among the jobs.
LEMMA TakeCardKeeps == Collects /\ TakeCard => Collects'
<1> SUFFICES ASSUME Collects, TakeCard
             PROVE  Collects'
  OBVIOUS
<1> USE DEF Collects
<1>0. /\ at.pc = "take" /\ at.source \in SourceSet /\ todo = <<>> /\ at' \in Local
      /\ at'.source = at.source /\ at'.own = at.own /\ found' \in Seq(Job)
      /\ at'.pages = at.pages /\ at'.links = at.links
      /\ \/ /\ at.cards = {} /\ at'.pc = "own" /\ at'.cards = {} /\ found' = found
            /\ at'.count = at.count
         \/ /\ at'.pc = "take" /\ at.source \in heard
            /\ \E u \in Urls : /\ at'.cards = at.cards \ {u}
                               /\ UrlsIn(found') = UrlsIn(found) \cup {u}
  <2>1. /\ at.pc = "take" /\ at.source \in SourceSet /\ todo = <<>> /\ found \in Seq(Job)
        /\ at \in Local /\ at.cards \subseteq Urls
    BY LocalTyped DEF TakeCard, At, Shape, Working, PageSteps, TypeOK
  <2>2. CASE at.cards = {}
    <3>1. at' = [at EXCEPT !.pc = "own"] /\ found' = found
      BY <2>2 DEF TakeCard
    <3>2. /\ at' \in Local /\ at'.pc = "own" /\ at'.source = at.source /\ at'.own = at.own
          /\ at'.cards = at.cards /\ at'.count = at.count
          /\ at'.pages = at.pages /\ at'.links = at.links
      BY <2>1, <3>1, LocalTyped DEF Local
    <3> QED
      BY <2>1, <2>2, <3>1, <3>2
  <2>3. CASE at.cards # {}
    <3>1. PICK u \in at.cards : found' = TakenCard(u)
                                /\ at' = [at EXCEPT !.cards = @ \ {u}, !.count = @ + 1]
      BY <2>3 DEF TakeCard
    <3> DEFINE n == at.count + 1
    <3>2. n \in Nat /\ at' = [at EXCEPT !.cards = @ \ {u}, !.count = n]
      BY <3>1, LocalTyped
    <3> HIDE DEF n
    <3>3. /\ at' \in Local /\ at'.pc = "take" /\ at'.source = at.source
          /\ at'.own = at.own /\ at'.cards = at.cards \ {u}
          /\ at'.pages = at.pages /\ at'.links = at.links
      BY <2>1, <3>2, LocalTyped DEF Local
    <3>4. u \in Urls /\ Posting(u) \in Job /\ Posting(u).url = u
      BY <2>1, JobsTyped
    <3>5. found' \in Seq(Job) /\ UrlsIn(found') = UrlsIn(found) \cup {u}
      BY <2>1, <3>1, <3>4, Appended DEF TakenCard
    <3>6. at.source \in heard
      BY <2>1, <2>3 DEF Seen, Shown, PageSteps
    <3> QED
      BY <2>1, <3>3, <3>4, <3>5, <3>6
  <2> QED
    BY <2>2, <2>3
<1>1. TypeOK'
  BY <1>0, Constants DEF TypeOK, TakeCard
<1>2. Shape'
  BY <1>0, LocalTyped DEF Shape, Working, PageSteps, TakeCard
<1>3. NoUrlTwice'
  BY DEF Collects, NoUrlTwice, TakeCard
<1>4. Kept'
  BY <1>0, LocalTyped DEF Kept, Pending, Shape, TakeCard
<1>5. Seen'
  BY <1>0, LocalTyped DEF Seen, Shown, Open, Shape, Working, PageSteps, TakeCard
<1> QED
  BY <1>1, <1>2, <1>3, <1>4, <1>5

\* The page itself, when it is a posting or was not read.
LEMMA TakeOwnKeeps == Collects /\ TakeOwn => Collects'
<1> SUFFICES ASSUME Collects, TakeOwn
             PROVE  Collects'
  OBVIOUS
<1> USE DEF Collects
<1>0. /\ at.pc = "own" /\ at.source \in SourceSet /\ todo = <<>> /\ at.cards = {}
      /\ at' \in Local /\ at'.pc = "page" /\ at'.source = None /\ at'.own = "landing"
      /\ at'.cards = {} /\ found' \in Seq(Job) /\ heard' = heard /\ answered' = answered
      /\ \/ UrlsIn(found') = UrlsIn(found) \cup {at.source}
         \/ found' = found /\ at.source \in heard /\ at.own # "posting"
  <2>1. /\ at.pc = "own" /\ at.source \in SourceSet /\ todo = <<>> /\ at.cards = {}
        /\ found \in Seq(Job) /\ at.source \in Urls /\ at.count \in Nat
        /\ at.own \in {"posting", "landing", "failed"}
    BY Constants, LocalTyped DEF TakeOwn, At, Shape, Working, PageSteps, TypeOK
  <2>2. at' = [Rest EXCEPT !.pc = "page"] /\ heard' = heard /\ answered' = answered
    BY DEF TakeOwn
  <2>3. at' \in Local /\ at'.pc = "page" /\ at'.source = None /\ at'.own = "landing"
        /\ at'.cards = {}
    BY <2>2 DEF Rest, Local
  <2> DEFINE unread == at.own = "failed" /\ (at.count = 0 \/ at.source \in site.named)
  <2>4. found' = IF at.own = "posting" THEN appendUniqueJob(found, Posting(at.source))
                 ELSE IF unread THEN appendUniqueJob(found, Failed(at.source))
                 ELSE found
    BY DEF TakeOwn
  <2>5. ~unread /\ at.own # "posting" => at.source \in heard
    BY <2>1 DEF Seen, Shown, PageSteps
  <2> HIDE DEF unread
  <2>6. \A job \in Job : /\ appendUniqueJob(found, job) \in Seq(Job)
                         /\ UrlsIn(appendUniqueJob(found, job)) = UrlsIn(found) \cup {job.url}
    BY <2>1, Appended
  <2>7. /\ Posting(at.source) \in Job /\ Posting(at.source).url = at.source
        /\ Failed(at.source) \in Job /\ Failed(at.source).url = at.source
    BY <2>1, JobsTyped
  <2>8. found' \in Seq(Job)
        /\ \/ UrlsIn(found') = UrlsIn(found) \cup {at.source}
           \/ found' = found /\ at.source \in heard /\ at.own # "posting"
    BY <2>1, <2>4, <2>5, <2>6, <2>7
  <2> QED
    BY <2>1, <2>2, <2>3, <2>8
<1>1. TypeOK'
  BY <1>0, Constants DEF TypeOK, TakeOwn
<1>2. Shape'
  BY <1>0, LocalTyped DEF Shape, Working, PageSteps, TakeOwn
<1>3. NoUrlTwice'
  BY DEF Collects, NoUrlTwice, TakeOwn
<1>4. Kept'
  BY <1>0, LocalTyped DEF Kept, Pending, Shape, TakeOwn
<1>5. Seen'
  BY <1>0, LocalTyped DEF Seen, Shown, Open, Shape, Working, PageSteps, TakeOwn
<1> QED
  BY <1>1, <1>2, <1>3, <1>4, <1>5

LEMMA NextCollects == Collects /\ [Next]_vars => Collects'
<1> SUFFICES ASSUME Collects, [Next]_vars
             PROVE  Collects'
  OBVIOUS
<1>1. CASE NextSource
  BY <1>1, NextSourceKeeps
<1>2. CASE CollectKeyword
  BY <1>2, CollectKeywordKeeps
<1>3. CASE FailKeyword
  BY <1>3, FailKeywordKeeps
<1>4. CASE RefuseKeyword
  BY <1>4, RefuseKeywordKeeps
<1>5. CASE TakePost
  BY <1>5, TakePostKeeps
<1>6. CASE NextPage
  BY <1>6, NextPageKeeps
<1>7. CASE ImportPage
  BY <1>7, ImportPageKeeps
<1>8. CASE FailImport
  BY <1>8, FailImportKeeps
<1>9. CASE RejectImport
  BY <1>9, RejectImportKeeps
<1>10. CASE DiscoverJobCards
  BY <1>10, DiscoverJobCardsKeeps
<1>11. CASE DiscoverPaginationLinks
  BY <1>11, DiscoverPaginationLinksKeeps
<1>12. CASE DiscoverPageCards
  BY <1>12, DiscoverPageCardsKeeps
<1>13. CASE DiscoverLinks
  BY <1>13, DiscoverLinksKeeps
<1>14. CASE ImportLink
  BY <1>14, ImportLinkKeeps
<1>15. CASE TakeCard
  BY <1>15, TakeCardKeeps
<1>16. CASE TakeOwn
  BY <1>16, TakeOwnKeeps
<1>17. CASE TakeFound
  BY <1>17, TakeFoundKeeps
<1>18. CASE Cancel
  BY <1>18, CancelKeeps
<1>19. CASE UNCHANGED vars
  <2>1. TypeOK'
    BY <1>19 DEF vars, Collects, TypeOK
  <2>2. Shape'
    BY <1>19 DEF vars, Collects, Shape
  <2>3. NoUrlTwice'
    BY <1>19 DEF vars, Collects, NoUrlTwice
  <2>4. Kept'
    BY <1>19 DEF vars, Collects, Kept, Pending
  <2>5. Seen'
    BY <1>19 DEF vars, Collects, Seen, Shown, Open
  <2> QED
    BY <2>1, <2>2, <2>3, <2>4, <2>5 DEF Collects
<1> QED
  BY <1>1, <1>2, <1>3, <1>4, <1>5, <1>6, <1>7, <1>8, <1>9,
     <1>10, <1>11, <1>12, <1>13, <1>14, <1>15, <1>16, <1>17, <1>18, <1>19 DEF Next, Step

LEMMA AlwaysCollects == Spec => []Collects
BY InitCollects, NextCollects, PTL DEF Spec

\* The variables have their types.
THEOREM TypeCorrect == Spec => []TypeOK
<1>1. Collects => TypeOK
  BY DEF Collects
<1> QED
  BY <1>1, AlwaysCollects, PTL

\* DBSourceCollector.Collect hands no address over twice.
THEOREM HandedOverOnce == Spec => []NoUrlTwice
<1>1. Collects => NoUrlTwice
  BY DEF Collects
<1> QED
  BY <1>1, AlwaysCollects, PTL

\* Nothing an answer had is lost on its way through the collectors' lists, for
\* the sources and the caller may fail at any point.
THEOREM NothingFoundIsLost == Spec => []FoundIsKept
<1>1. Collects => FoundIsKept
  <2> SUFFICES ASSUME Collects, Collected
               PROVE  answered \subseteq UrlsIn(jobs)
    BY DEF FoundIsKept
  <2>1. at.pc = "done" /\ found = <<>> /\ at.cards = {} /\ at.own = "landing"
    BY DEF Collected, At, Collects, Shape
  <2>2. UrlsIn(found) = {}
    BY <2>1 DEF UrlsIn
  <2> QED
    BY <2>1, <2>2 DEF Collects, Kept, Pending
<1> QED
  BY <1>1, AlwaysCollects, PTL

-----------------------------------------------------------------------------
(* What a job says of its address.                                         *)

\* A job that is not to be checked by hand is a posting some answer had.
Honest(list) == \A i \in DOMAIN list : list[i].kind = "failed" \/ list[i].url \in answered
Told ==
    /\ Honest(jobs) /\ Honest(found)
    /\ at.pc # "keyword" => at.cards \subseteq answered
    /\ at.own = "posting" => at.source \in answered

LEMMA HonestAppend ==
    ASSUME NEW list \in Seq(Job), NEW job \in Job, NEW known,
           \A i \in DOMAIN list : list[i].kind = "failed" \/ list[i].url \in known,
           job.kind = "failed" \/ job.url \in known
    PROVE  /\ \A i \in DOMAIN Append(list, job) :
                  \/ Append(list, job)[i].kind = "failed"
                  \/ Append(list, job)[i].url \in known
           /\ \A i \in DOMAIN appendUniqueJob(list, job) :
                  \/ appendUniqueJob(list, job)[i].kind = "failed"
                  \/ appendUniqueJob(list, job)[i].url \in known
<1> DEFINE new == Append(list, job)
<1>1. /\ DOMAIN new = 1..(Len(list) + 1) /\ DOMAIN list = 1..Len(list) /\ Len(list) \in Nat
      /\ \A i \in 1..Len(list) : new[i] = list[i]
      /\ new[Len(list) + 1] = job
  OBVIOUS
<1>2. appendUniqueJob(list, job) \in {list, new}
  BY DEF appendUniqueJob
<1> HIDE DEF new
<1>3. \A i \in DOMAIN new : new[i].kind = "failed" \/ new[i].url \in known
  BY <1>1
<1> QED
  BY <1>2, <1>3 DEF new

LEMMA HonestHead ==
    ASSUME NEW list \in Seq(Job), list # <<>>, Honest(list)
    PROVE  /\ Head(list) \in Job /\ (Head(list).kind = "failed" \/ Head(list).url \in answered)
           /\ Honest(Tail(list))
<1>1. /\ DOMAIN list = 1..Len(list) /\ Len(list) \in Nat \ {0} /\ Head(list) = list[1]
      /\ 1 \in 1..Len(list) /\ Len(Tail(list)) = Len(list) - 1
      /\ DOMAIN Tail(list) = 1..(Len(list) - 1)
      /\ \A i \in 1..(Len(list) - 1) : Tail(list)[i] = list[i + 1]
  OBVIOUS
<1>2. Head(list) \in Job
  BY <1>1
<1>3. Honest(Tail(list))
  BY <1>1 DEF Honest
<1> QED
  BY <1>1, <1>2, <1>3 DEF Honest

LEMMA ToldStep ==
    ASSUME Collects, Told, [Next]_vars
    PROVE  Told'
<1>a. /\ jobs \in Seq(Job) /\ found \in Seq(Job) /\ Honest(jobs) /\ Honest(found)
      /\ at.pc # "keyword" => at.cards \subseteq answered
      /\ at.own = "posting" => at.source \in answered
      /\ at \in Local /\ at.cards \subseteq Urls /\ at.links \subseteq Urls
  BY LocalTyped DEF Collects, TypeOK, Told
<1>b. /\ at.source \in Urls => Posting(at.source) \in Job /\ Failed(at.source) \in Job
      /\ \A u : Posting(u).url = u /\ Failed(u).url = u
               /\ Posting(u).kind = "posting" /\ Failed(u).kind = "failed"
      /\ \A u \in Urls : Posting(u) \in Job /\ Failed(u) \in Job
  BY DEF Posting, Failed, Job
<1>c. /\ at.pc \in Working => at.source \in Urls
      /\ at.pc = "keyword" => at.own = "landing"
      /\ at.pc \in {"source", "page", "done", "import", "cards"} => at.cards = {}
      /\ at.pc \in {"source", "page", "done", "import"} => at.own = "landing"
  BY Constants DEF Collects, Shape, Working
<1>d. Rest.own = "landing" /\ Rest.cards = {}
  BY DEF Rest
\* The lists stay and more is answered.
<1>e. ASSUME UNCHANGED <<jobs, found>>, answered \subseteq answered'
      PROVE  Honest(jobs)' /\ Honest(found)'
  BY <1>a, <1>e DEF Honest
<1>1. CASE NextSource
  <2>1. at.pc = "source" /\ UNCHANGED <<jobs, found, answered>>
        /\ at'.own = "landing" /\ at'.cards = {}
    BY <1>1, <1>c DEF NextSource, At, Rest
  <2> QED
    BY <2>1, <1>e DEF Told
<1>2. CASE CollectKeyword \/ RefuseKeyword \/ FailKeyword
  <2>1. at.pc = "keyword" /\ at.own = "landing" /\ found' = found
    BY <1>2, <1>c DEF CollectKeyword, RefuseKeyword, FailKeyword, At
  <2>2. CASE FailSource
    <3>1. jobs' = appendUniqueJob(jobs, Failed(at.source)) /\ at' = Rest /\ answered' = answered
      BY <2>2 DEF FailSource
    <3>2. Honest(jobs)'
      BY <3>1, <2>1, <1>a, <1>b, <1>c, HonestAppend DEF Honest, Working
    <3> QED
      BY <2>1, <3>1, <3>2, <1>a, <1>d DEF Told, Honest
  <2>3. ASSUME NEW new, Keyword(new), jobs' = jobs
        PROVE  Told'
    <3>1. /\ answered \subseteq answered' /\ at'.own = "landing"
          /\ at'.pc # "keyword" => at'.cards \subseteq answered'
      BY <2>1, <2>3, <1>a DEF Keyword, Local
    <3> QED
      BY <2>1, <2>3, <3>1, <1>e DEF Told
  <2> QED
    BY <1>2, <2>2, <2>3 DEF CollectKeyword, RefuseKeyword, FailKeyword
<1>3. CASE TakePost
  <2>1. at.pc = "flush" /\ UNCHANGED <<found, answered>>
    BY <1>3 DEF TakePost, At
  <2>2. CASE at.cards = {}
    BY <1>3, <2>1, <2>2, <1>d, <1>e DEF TakePost, Told
  <2>3. CASE at.cards # {}
    <3>1. PICK u \in at.cards : jobs' = appendUniqueJob(jobs, Posting(u))
                                /\ at' = [at EXCEPT !.cards = @ \ {u}]
      BY <1>3, <2>3 DEF TakePost
    <3>2. u \in answered /\ Posting(u) \in Job
      BY <2>1, <1>a, <1>b
    <3>3. Honest(jobs)'
      BY <2>1, <3>1, <3>2, <1>a, <1>b, HonestAppend DEF Honest
    <3>4. at'.pc = at.pc /\ at'.cards \subseteq at.cards /\ at'.own = at.own
          /\ at'.source = at.source
      BY <3>1, <1>a DEF Local
    <3> QED
      BY <2>1, <3>3, <3>4, <1>a DEF Told, Honest
  <2> QED
    BY <2>2, <2>3
<1>4. CASE NextPage
  <2>1. UNCHANGED <<jobs, found, answered>> /\ at'.own = "landing" /\ at'.cards = {}
    BY <1>4 DEF NextPage, Rest
  <2> QED
    BY <2>1, <1>e DEF Told
<1>5. CASE ImportPage
  <2>1. /\ at.pc = "import" /\ UNCHANGED <<jobs, found>> /\ answered \subseteq answered'
        /\ at'.cards = at.cards /\ at'.source = at.source
        /\ at'.own = "posting" => at.source \in answered'
    BY <1>5, <1>a DEF ImportPage, At, Local
  <2> QED
    BY <2>1, <1>a, <1>e DEF Told
<1>6. CASE FailImport
  <2>1. at.pc = "import" /\ UNCHANGED <<jobs, found, answered>> /\ at'.cards = at.cards
        /\ at'.own \in {"failed", "landing"}
    BY <1>6, <1>a, <1>c DEF FailImport, GiveUp, At, Local
  <2> QED
    BY <2>1, <1>a, <1>e DEF Told
<1>7. CASE RejectImport
  <2>1. at.pc = "import" /\ found' = Append(found, Failed(at.source))
        /\ UNCHANGED <<jobs, answered>> /\ at'.own = "landing" /\ at'.cards = {}
    BY <1>7 DEF RejectImport, At, Rest
  <2>2. Honest(found)'
    BY <2>1, <1>a, <1>b, <1>c, HonestAppend DEF Honest, Working
  <2> QED
    BY <2>1, <2>2, <1>a DEF Told, Honest
<1>8. CASE DiscoverJobCards
  <2>1. /\ at.pc = "cards" /\ UNCHANGED <<jobs, found>> /\ answered \subseteq answered'
        /\ at'.own = at.own /\ at'.source = at.source /\ at'.cards \subseteq answered'
    BY <1>8, <1>a, <1>c DEF DiscoverJobCards, At, Local
  <2> QED
    BY <2>1, <1>a, <1>e DEF Told
<1>9. CASE DiscoverPaginationLinks \/ DiscoverLinks
  <2>1. /\ at.pc # "keyword" /\ UNCHANGED <<jobs, found, answered>>
        /\ at'.own = at.own /\ at'.source = at.source /\ at'.cards = at.cards
    BY <1>9, <1>a DEF DiscoverPaginationLinks, DiscoverLinks, At, Local
  <2> QED
    BY <2>1, <1>a, <1>e DEF Told
<1>10. CASE DiscoverPageCards
  <2>1. /\ at.pc = "page cards" /\ UNCHANGED <<jobs, found>> /\ answered \subseteq answered'
        /\ at'.own = at.own /\ at'.source = at.source
        /\ at'.cards \subseteq at.cards \cup answered'
    <3>1. PICK page \in at.pages :
            LET l == [at EXCEPT !.pages = Onward(page),
                                !.pc = IF Onward(page) = {} THEN "links" ELSE "page cards"]
            IN  \/ /\ Answers
                   /\ \E few \in SUBSET site.cards[page] :
                        /\ FirstOf(MaxLinks, site.cards[page], few)
                        /\ at' = [l EXCEPT !.cards = @ \cup few]
                        /\ answered' = answered \cup few
                \/ at' = l /\ UNCHANGED <<heard, answered>>
      BY <1>10 DEF DiscoverPageCards
    <3> DEFINE rest == Onward(page)
               place == IF Onward(page) = {} THEN "links" ELSE "page cards"
               l == [at EXCEPT !.pages = rest, !.pc = place]
    <3>2. l.own = at.own /\ l.source = at.source /\ l.cards = at.cards /\ l = [l EXCEPT !.cards = @]
          /\ \A few : LET m == [l EXCEPT !.cards = @ \cup few]
                     IN  m.own = at.own /\ m.source = at.source /\ m.cards = at.cards \cup few
      <4> HIDE DEF rest, place
      <4> QED
        BY <1>a DEF Local
    <3>3. \/ at' = l /\ UNCHANGED answered
          \/ \E few : at' = [l EXCEPT !.cards = @ \cup few] /\ answered' = answered \cup few
      BY <3>1
    <3> HIDE DEF l, rest, place
    <3>4. /\ answered \subseteq answered' /\ at'.own = at.own /\ at'.source = at.source
          /\ at'.cards \subseteq at.cards \cup answered'
      BY <3>2, <3>3
    <3> QED
      BY <1>10, <3>4 DEF DiscoverPageCards, At
  <2> QED
    BY <2>1, <1>a, <1>e DEF Told
<1>11. CASE ImportLink
  <2>1. at.pc = "link" /\ jobs' = jobs
    BY <1>11 DEF ImportLink, At
  <2>2. PICK u \in at.links, ok \in BOOLEAN :
            LET l == [at EXCEPT !.links = @ \ {u},
                                !.pc = IF at.links = {u} THEN "take" ELSE "link"]
            IN  IF ok /\ u \notin site.concrete
                THEN at' = l /\ UNCHANGED <<found, answered>>
                ELSE /\ found' = appendUniqueJob(found, IF ok THEN Posting(u) ELSE Failed(u))
                     /\ answered' = answered \cup {u}
                     /\ at' = [l EXCEPT !.count = @ + 1]
    BY <1>11 DEF ImportLink
  <2>3. answered \subseteq answered' /\ at'.own = at.own /\ at'.source = at.source
        /\ at'.cards = at.cards
    BY <2>2, <1>a DEF Local
  <2>4. Honest(found)'
    <3>1. CASE found' = found
      BY <2>3, <3>1, <1>a DEF Honest
    <3>2. CASE /\ found' = appendUniqueJob(found, IF ok THEN Posting(u) ELSE Failed(u))
               /\ answered' = answered \cup {u}
      <4> DEFINE job == IF ok THEN Posting(u) ELSE Failed(u)
      <4>1. job \in Job /\ job.url \in answered'
        BY <2>2, <3>2, <1>a, <1>b
      <4>2. \A i \in DOMAIN found : found[i].kind = "failed" \/ found[i].url \in answered'
        BY <2>3, <1>a DEF Honest
      <4> HIDE DEF job
      <4>3. \A i \in DOMAIN appendUniqueJob(found, job) :
                \/ appendUniqueJob(found, job)[i].kind = "failed"
                \/ appendUniqueJob(found, job)[i].url \in answered'
        BY <4>1, <4>2, <1>a, HonestAppend
      <4> QED
        BY <3>2, <4>3 DEF Honest, job
    <3> QED
      BY <2>2, <3>1, <3>2
  <2>5. Honest(jobs)'
    BY <2>1, <2>3, <1>a DEF Honest
  <2> QED
    BY <2>1, <2>3, <2>4, <2>5, <1>a DEF Told
<1>12. CASE TakeCard
  <2>1. at.pc = "take" /\ UNCHANGED <<jobs, answered>>
    BY <1>12 DEF TakeCard, At
  <2>2. at'.own = at.own /\ at'.source = at.source /\ at'.cards \subseteq at.cards
    BY <1>12, <1>a DEF TakeCard, Local
  <2>3. Honest(found)'
    <3>1. CASE found' = found
      BY <2>1, <3>1, <1>a DEF Honest
    <3>2. CASE \E u \in at.cards : found' = appendUniqueJob(found, Posting(u))
      <4>1. PICK u \in at.cards : found' = appendUniqueJob(found, Posting(u))
        BY <3>2
      <4>2. u \in answered /\ Posting(u) \in Job
        BY <2>1, <1>a, <1>b
      <4> QED
        BY <2>1, <4>1, <4>2, <1>a, <1>b, HonestAppend DEF Honest
    <3> QED
      BY <1>12, <3>1, <3>2 DEF TakeCard, TakenCard
  <2> QED
    BY <2>1, <2>2, <2>3, <1>a DEF Told, Honest
<1>13. CASE TakeOwn
  <2>1. at.pc = "own" /\ at.source \in Urls /\ UNCHANGED <<jobs, answered>>
        /\ at'.own = "landing" /\ at'.cards = {}
    BY <1>13, <1>c DEF TakeOwn, At, Rest, Working, PageSteps
  <2>2. \/ found' = found
        \/ at.own = "posting" /\ found' = appendUniqueJob(found, Posting(at.source))
        \/ found' = appendUniqueJob(found, Failed(at.source))
    BY <1>13 DEF TakeOwn
  <2>3. Honest(found)'
    <3>1. CASE found' = found
      BY <2>1, <3>1, <1>a DEF Honest
    <3>2. CASE at.own = "posting" /\ found' = appendUniqueJob(found, Posting(at.source))
      <4>1. Posting(at.source) \in Job /\ Posting(at.source).url \in answered
        BY <2>1, <3>2, <1>a, <1>b
      <4> QED
        BY <2>1, <3>2, <4>1, <1>a, HonestAppend DEF Honest
    <3>3. CASE found' = appendUniqueJob(found, Failed(at.source))
      <4>1. Failed(at.source) \in Job /\ Failed(at.source).kind = "failed"
        BY <2>1, <1>b
      <4> QED
        BY <2>1, <3>3, <4>1, <1>a, HonestAppend DEF Honest
    <3> QED
      BY <2>2, <3>1, <3>2, <3>3
  <2> QED
    BY <2>1, <2>3, <1>a DEF Told, Honest
<1>14. CASE TakeFound
  <2>1. at.pc = "done" /\ found # <<>> /\ found' = Tail(found) /\ UNCHANGED <<at, answered>>
        /\ jobs' = appendUniqueJob(jobs, Head(found))
    BY <1>14 DEF TakeFound, At
  <2>2. /\ Head(found) \in Job /\ Honest(Tail(found))
        /\ Head(found).kind = "failed" \/ Head(found).url \in answered
    BY <2>1, <1>a, HonestHead
  <2>3. Honest(jobs)'
    BY <2>1, <2>2, <1>a, HonestAppend DEF Honest
  <2>4. Honest(found)'
    BY <2>1, <2>2 DEF Honest
  <2> QED
    BY <2>1, <2>3, <2>4, <1>a DEF Told
<1>15. CASE Cancel \/ UNCHANGED vars
  <2>1. UNCHANGED <<jobs, found, answered, at>>
    BY <1>15 DEF Cancel, vars
  <2> QED
    BY <2>1, <1>a, <1>e DEF Told
<1> QED
  BY <1>1, <1>2, <1>3, <1>4, <1>5, <1>6, <1>7, <1>8, <1>9,
     <1>10, <1>11, <1>12, <1>13, <1>14, <1>15 DEF Next, Step

\* A source that answered nothing has a job to be checked by hand at the end, or
\* some answer had a posting at its address.
THEOREM SilenceIsSeen == Spec => []SilenceShows
<1>1. Init => Told
  BY DEF Init, Told, Honest, Rest
<1>2. Collects /\ Told => SilenceShows
  <2> SUFFICES ASSUME Collects, Told, Collected, NEW s \in SourceSet \ heard
               PROVE  \E i \in DOMAIN jobs :
                          jobs[i].url = s /\ (jobs[i].kind = "failed" \/ s \in answered)
    BY DEF SilenceShows
  <2>1. at.pc = "done" /\ found = <<>> /\ todo = <<>> /\ urls = <<>>
    BY DEF Collected, At, Collects, Shape
  <2>2. UrlsIn(found) = {} /\ Members(todo) = {} /\ Members(urls) = {} /\ Open = {}
    BY <2>1 DEF UrlsIn, Members, Open, Working, PageSteps
  <2>3. s \in UrlsIn(jobs)
    BY <2>2 DEF Collects, Seen
  <2> QED
    BY <2>3 DEF UrlsIn, Told, Honest
<1>3. Collects /\ Told /\ [Next]_vars => Told'
  BY ToldStep
<1> QED
  BY <1>1, <1>2, <1>3, AlwaysCollects, PTL DEF Spec
=============================================================================
