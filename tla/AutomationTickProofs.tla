------------------------- MODULE AutomationTickProofs -------------------------
(***************************************************************************)
(* For every number of goroutines and every length of the day: the         *)
(* variables have their types, a day gets a second automatic plan only     *)
(* from ticks that overlapped and a second report only with a cause on     *)
(* record, marks come from deliveries, and the row says what the user      *)
(* asked for unless an old copy was saved over it.                         *)
(***************************************************************************)
EXTENDS AutomationTick, TLAPS

\* Which operation is where.
ShapeOf(l) ==
    /\ l.pc = "idle" => l = Idle
    /\ l.op = "none" => l.pc = "idle"
    /\ l.pc \in {"discover", "discovered", "plan", "insert"} => l.op = "tick"
    /\ l.pc = "webhook" => l.op = "report"
    /\ l.pc = "save" => l.op = "command"
    /\ l.pc \in {"send", "mark"} => l.op \in {"tick", "report"}
Sound(l) == l \in Proc /\ (l.pc = "idle" \/ ShapeOf(l))
Held(p) == procs[p].pc \notin {"idle", "read"}
Shape == \A p \in Procs : ShapeOf(procs[p]) /\ (stale[p] => Held(p))

\* Days are natural numbers.
LEMMA DayIsNat ==
    ASSUME NEW t \in Nat
    PROVE  Day(t) \in Nat
<1>1. DayLength \in Nat \ {0} /\ Offset \in Nat
  BY TickAssumption
<1> QED
  BY <1>1 DEF Day

\* The records of a goroutine have their fields.
LEMMA Fields ==
    ASSUME TypeOK, NEW p \in Procs
    PROVE  /\ procs[p] \in Proc /\ procs[p].at \in Nat /\ procs[p].day \in Nat
           /\ procs[p].prefs \in Prefs /\ procs[p].copy \in Settings
           /\ procs[p].copy.choice \in Choice /\ procs[p].copy.reported \in Nat \cup {None}
           /\ Row \in Settings /\ Row.choice \in Choice /\ Row.reported \in Nat \cup {None}
  BY TickAssumption DEF TypeOK, Proc, Settings, Row, DefaultSettings

\* What saving, excusing and failing add to the history are days.
LEMMA AddedDays ==
    ASSUME TypeOK
    PROVE  /\ DueDays(now) \subseteq Nat /\ DueDays(now + 1) \subseteq Nat
           /\ \A new : {d \in {Day(t) : t \in {Row.reported} \ {None}} : ~Marked(new, d)}
                            \subseteq Nat
           /\ \A ps : Unmarked(ps) \subseteq Nat
           /\ \A p \in Procs : Day(procs[p].at) \in Nat
           /\ Day(now) \in Nat
<1>1. \A p \in Procs : procs[p].at \in Nat
  BY Fields
<1>2. Row.reported \in Nat \cup {None}
  BY TickAssumption DEF TypeOK, Settings, Row, DefaultSettings
<1>3. now \in Nat /\ now + 1 \in Nat
  BY DEF TypeOK
<1> QED
  BY <1>1, <1>2, <1>3, DayIsNat DEF DueDays, Unmarked, Ticks

\* The initial values and what a copy may become have their types.
LEMMA Values ==
    /\ Idle \in Proc /\ DefaultSettings \in Settings
    /\ \A c \in Choices : Form(c) \in Settings
    /\ \A s \in Settings, t \in Nat :
        [s EXCEPT !.reported = t] \in Settings /\ [s EXCEPT !.discovered = t] \in Settings
    /\ \A s \in Settings, x \in Prefs : [s EXCEPT !.choice.prefs = x] \in Settings
    /\ \A c \in Choice, x \in Prefs : [c EXCEPT !.prefs = x] \in Choice
  BY TickAssumption DEF Idle, Proc, DefaultSettings, Settings, Form, Choice

TickPcs == {"discover", "discovered", "plan", "insert", "send", "mark", "idle"}

LEMMA TypeInit == Init => TypeOK /\ Shape
<1> SUFFICES ASSUME Init
             PROVE  TypeOK /\ Shape
  OBVIOUS
<1>1. settings \in Settings \cup {None}
  BY Values DEF Init
<1>2. Row.choice \in Choice
  BY <1>1, TickAssumption DEF Row, DefaultSettings, Settings
<1> QED
  <2>1. procs \in [Procs -> Proc] /\ stale \in [Procs -> BOOLEAN]
    BY Values DEF Init
  <2>2. now \in Nat /\ spent \in Spent
    BY TickAssumption DEF Init, Spent
  <2>3. /\ life \in {"running", "stopped", "down"} /\ chosen \in Choice
        /\ plans = {} /\ sent = {} /\ byHand = {} /\ late = {} /\ lapsed = {}
        /\ overlaps = {} /\ excused = {} /\ struck = {} /\ clobbered = FALSE
    BY <1>2 DEF Init
  <2>4. TypeOK
    BY <1>1, <2>1, <2>2, <2>3 DEF TypeOK
  <2>5. Shape
    BY DEF Init, Shape, ShapeOf, Idle
  <2> QED
    BY <2>4, <2>5

\* The row and the next steps have their types.
LEMMA Reads ==
    ASSUME TypeOK
    PROVE  /\ Row \in Settings /\ DefaultChoice.prefs \in Prefs
           /\ \A l : Delivery(l) \in TickPcs /\ Report(l) \in TickPcs /\ Discovery(l) \in TickPcs
<1>1. Row \in Settings
  BY Values DEF TypeOK, Row
<1>2. DefaultChoice.prefs \in Prefs
  BY TickAssumption DEF Choice
<1>3. \A l : Delivery(l) \in TickPcs /\ Report(l) \in TickPcs /\ Discovery(l) \in TickPcs
  BY DEF Delivery, Report, Discovery, TickPcs
<1> QED
  BY <1>1, <1>2, <1>3

\* A goroutine goes on in shape: everyone is.
LEMMA GotoSound ==
    ASSUME TypeOK, Shape, NEW p \in Procs, NEW l, Sound(l), Goto(p, l)
    PROVE  procs' \in [Procs -> Proc] /\ \A q \in Procs : ShapeOf(procs'[q])
<1>1. ShapeOf(Idle)
  BY DEF ShapeOf, Idle
<1>2. /\ procs'[p] = IF l.pc = "idle" THEN Idle ELSE l
      /\ \A q \in Procs \ {p} : procs'[q] = procs[q]
      /\ procs' \in [Procs -> Proc]
  BY Values DEF Goto, TypeOK, Sound
<1> QED
  BY <1>1, <1>2 DEF Shape, Sound

\* What local variables become.
LEMMA MovedSound ==
    ASSUME NEW l \in Proc
    PROVE  /\ l.op = "tick" => \A x \in TickPcs : Sound([l EXCEPT !.pc = x])
           /\ l.op = "report" => \A x \in {"webhook", "send", "idle"} : Sound([l EXCEPT !.pc = x])
           /\ l.op = "report" => \A x \in Nat : Sound([l EXCEPT !.pc = "mark", !.day = x])
           /\ l.op = "command" => \A x \in {"save", "idle"} : Sound([l EXCEPT !.pc = x])
           /\ \A x \in Settings : [l EXCEPT !.copy = x] \in Proc
           /\ [l EXCEPT !.copy.discovered = l.at] \in Proc
  BY ZenonT(40) DEF Proc, TickPcs, Settings, Sound, ShapeOf

\* What local variables begin with.
LEMMA BegunSound ==
    ASSUME NEW op \in {"tick", "report", "command"}, NEW t \in Nat, NEW x \in Prefs
    PROVE  /\ Sound([Idle EXCEPT !.op = op, !.pc = "read", !.at = t])
           /\ Sound([Idle EXCEPT !.op = op, !.pc = "read", !.prefs = x])
           /\ Sound(Idle)
  BY Values DEF Proc, Idle, Sound, ShapeOf

\* Every step keeps the types and the shape of the local variables.
LEMMA ProcsStep ==
    ASSUME TypeOK, Shape, [Next]_vars
    PROVE  procs' \in [Procs -> Proc] /\ \A q \in Procs : ShapeOf(procs'[q])
<1>a. procs \in [Procs -> Proc]
  BY DEF TypeOK
<1>b. \A q \in Procs : ShapeOf(procs[q])
  BY DEF Shape
<1>c. Sound(Idle) /\ ShapeOf(Idle)
  BY Values DEF Sound, ShapeOf, Idle
<1>1. ASSUME NEW p \in Procs, GetSettings(p)
      PROVE  procs' \in [Procs -> Proc] /\ \A q \in Procs : ShapeOf(procs'[q])
  <2>1. PICK fails \in BOOLEAN :
            LET l == [procs[p] EXCEPT !.copy = IF fails THEN DefaultSettings ELSE Row]
            IN  Goto(p, [l EXCEPT !.pc = Onward(l)])
    BY <1>1 DEF GetSettings
  <2> DEFINE l == [procs[p] EXCEPT !.copy = IF fails THEN DefaultSettings ELSE Row]
  <2>2. (IF fails THEN DefaultSettings ELSE Row) \in Settings
    BY Values, Reads
  <2>3. procs[p] \in Proc /\ procs[p].op \in {"tick", "report", "command"}
    BY <1>1, <1>a, <1>b DEF Proc, ShapeOf, At, GetSettings
  <2>4. l \in Proc /\ l.op = procs[p].op
    BY <2>2, <2>3 DEF Proc
  <2>5. Sound([l EXCEPT !.pc = Onward(l)])
    <3>1. CASE l.op = "tick"
      BY <2>4, <3>1, Reads, MovedSound DEF Onward
    <3>2. CASE l.op = "report"
      BY <2>4, <3>2, MovedSound DEF Onward
    <3>3. CASE l.op = "command"
      BY <2>4, <3>3, MovedSound DEF Onward
    <3> QED
      BY <2>3, <2>4, <3>1, <3>2, <3>3
  <2> QED
    BY <2>1, <2>5, GotoSound
<1>2. ASSUME NEW p \in Procs, DiscoverSourceCandidates(p)
      PROVE  procs' \in [Procs -> Proc] /\ \A q \in Procs : ShapeOf(procs'[q])
  <2>1. Goto(p, [procs[p] EXCEPT !.pc = "discovered"]) /\ procs[p].op \in {"tick"}
    BY <1>2, <1>b DEF DiscoverSourceCandidates, At, Runs, ShapeOf
  <2>2. Sound([procs[p] EXCEPT !.pc = "discovered"])
    BY <1>a, <2>1, MovedSound DEF TickPcs
  <2> QED
    BY <2>1, <2>2, GotoSound
<1>3. ASSUME NEW p \in Procs, SaveDiscovery(p)
      PROVE  procs' \in [Procs -> Proc] /\ \A q \in Procs : ShapeOf(procs'[q])
  <2> DEFINE l == [procs[p] EXCEPT !.copy.discovered = procs[p].at]
  <2>1. Goto(p, [l EXCEPT !.pc = Report(l)]) /\ procs[p].op = "tick"
    BY <1>3, <1>b DEF SaveDiscovery, At, ShapeOf
  <2>2. l \in Proc /\ l.op = procs[p].op
    BY <1>a, MovedSound, ZenonT(40) DEF Proc
  <2>3. Sound([l EXCEPT !.pc = Report(l)])
    BY <2>1, <2>2, Reads, MovedSound
  <2> QED
    BY <2>1, <2>3, GotoSound
<1>4. ASSUME NEW p \in Procs, LookForPlan(p)
      PROVE  procs' \in [Procs -> Proc] /\ \A q \in Procs : ShapeOf(procs'[q])
  <2>1. PICK pc \in TickPcs : Goto(p, [procs[p] EXCEPT !.pc = pc])
    BY <1>4, Reads DEF LookForPlan, Continue, TickPcs
  <2>2. procs[p].op = "tick"
    BY <1>4, <1>b DEF LookForPlan, At, ShapeOf
  <2>3. Sound([procs[p] EXCEPT !.pc = pc])
    BY <1>a, <2>2, MovedSound
  <2> QED
    BY <2>1, <2>3, GotoSound
<1>5. ASSUME NEW p \in Procs, CreateAgentPlan(p)
      PROVE  procs' \in [Procs -> Proc] /\ \A q \in Procs : ShapeOf(procs'[q])
  <2>1. Goto(p, [procs[p] EXCEPT !.pc = Delivery(procs[p])]) \/ Goto(p, Idle)
    BY <1>5 DEF CreateAgentPlan, Continue
  <2>2. procs[p].op = "tick"
    BY <1>5, <1>b DEF CreateAgentPlan, At, ShapeOf
  <2>3. Sound([procs[p] EXCEPT !.pc = Delivery(procs[p])])
    BY <1>a, <2>2, MovedSound, Reads
  <2> QED
    BY <1>c, <2>1, <2>3, GotoSound
<1>6. ASSUME NEW p \in Procs, SendFeishuWebhook(p)
      PROVE  procs' \in [Procs -> Proc] /\ \A q \in Procs : ShapeOf(procs'[q])
  <2>1. Goto(p, [procs[p] EXCEPT !.pc = "mark"]) /\ procs[p].op \in {"tick"}
    BY <1>6, <1>b DEF SendFeishuWebhook, At, Runs, ShapeOf
  <2>2. Sound([procs[p] EXCEPT !.pc = "mark"])
    BY <1>a, <2>1, MovedSound DEF TickPcs
  <2> QED
    BY <2>1, <2>2, GotoSound
<1>7. ASSUME NEW p \in Procs, MarkReport(p)
      PROVE  procs' \in [Procs -> Proc] /\ \A q \in Procs : ShapeOf(procs'[q])
  BY <1>7, <1>c, GotoSound DEF MarkReport, Save
<1>8. ASSUME NEW p \in Procs, FindWebhook(p)
      PROVE  procs' \in [Procs -> Proc] /\ \A q \in Procs : ShapeOf(procs'[q])
  <2>1. PICK pc \in {"send", "idle"} : Goto(p, [procs[p] EXCEPT !.pc = pc])
    BY <1>8 DEF FindWebhook, Continue
  <2>2. procs[p].op = "report"
    BY <1>8, <1>b DEF FindWebhook, At, ShapeOf
  <2>3. Sound([procs[p] EXCEPT !.pc = pc])
    BY <1>a, <2>2, MovedSound
  <2> QED
    BY <2>1, <2>3, GotoSound
<1>9. ASSUME NEW p \in Procs, SendByHand(p)
      PROVE  procs' \in [Procs -> Proc] /\ \A q \in Procs : ShapeOf(procs'[q])
  <2>1. Goto(p, [procs[p] EXCEPT !.pc = "mark", !.day = Day(now)]) /\ procs[p].op \in
      {"report"}
    BY <1>9, <1>b DEF SendByHand, At, Runs, ShapeOf
  <2>2. Sound([procs[p] EXCEPT !.pc = "mark", !.day = Day(now)])
    BY <1>a, <2>1, MovedSound, AddedDays DEF TickPcs
  <2> QED
    BY <2>1, <2>2, GotoSound
<1>10. ASSUME NEW p \in Procs, MarkByHand(p)
      PROVE  procs' \in [Procs -> Proc] /\ \A q \in Procs : ShapeOf(procs'[q])
  BY <1>10, <1>c, GotoSound DEF MarkByHand, Save
<1>11. ASSUME NEW p \in Procs, SaveCommand(p)
      PROVE  procs' \in [Procs -> Proc] /\ \A q \in Procs : ShapeOf(procs'[q])
  BY <1>11, <1>c, GotoSound DEF SaveCommand, Save
<1>12. ASSUME NEW p \in Procs, Cancelled(p)
      PROVE  procs' \in [Procs -> Proc] /\ \A q \in Procs : ShapeOf(procs'[q])
  BY <1>12, <1>c, GotoSound DEF Cancelled
<1>13. ASSUME NEW p \in Procs, LoseAnswer(p)
      PROVE  procs' \in [Procs -> Proc] /\ \A q \in Procs : ShapeOf(procs'[q])
  BY <1>13, <1>c, GotoSound DEF LoseAnswer, Continue
<1>14. ASSUME NEW p \in Procs, Fail(p)
      PROVE  procs' \in [Procs -> Proc] /\ \A q \in Procs : ShapeOf(procs'[q])
  BY <1>14, <1>c, GotoSound DEF Fail, Continue
<1>15. ASSUME NEW p \in Procs, Request(p)
      PROVE  procs' \in [Procs -> Proc] /\ \A q \in Procs : ShapeOf(procs'[q])
  <2>1. PICK op \in {"report", "command"}, x \in Prefs : Begin(p, op, x)
    BY <1>15, Reads DEF Request
  <2>2. Sound([Idle EXCEPT !.op = op, !.pc = "read", !.prefs = x])
    BY BegunSound
  <2> QED
    BY <2>1, <2>2, GotoSound DEF Begin
<1>16. CASE UpdateSettings
  BY <1>16, <1>a, <1>b DEF UpdateSettings, Save
<1>17. CASE Minute
  <2>1. CASE life = "running"
    <3>1. PICK p \in Procs : Goto(p, [Idle EXCEPT !.op = "tick", !.pc = "read", !.at =
        now + 1])
      BY <1>17, <2>1 DEF Minute
    <3>2. now + 1 \in Nat
      BY DEF TypeOK
    <3>3. Sound([Idle EXCEPT !.op = "tick", !.pc = "read", !.at = now + 1])
      BY <3>2, Reads, BegunSound
    <3> QED
      BY <3>1, <3>3, GotoSound
  <2>2. CASE life # "running"
    BY <1>17, <1>a, <1>b, <2>2 DEF Minute
  <2> QED
    BY <2>1, <2>2
<1>18. CASE Signal
  BY <1>18, <1>a, <1>b DEF Signal, Stop
<1>19. CASE Crash
  BY <1>19, <1>c DEF Crash, Stop, Sound
<1>20. CASE Start
  BY <1>20, <1>a, <1>b DEF Start
<1>21. CASE UNCHANGED vars
  BY <1>21, <1>a, <1>b DEF vars
<1> QED
  BY <1>1, <1>2, <1>3, <1>4, <1>5, <1>6, <1>7, <1>8, <1>9, <1>10, <1>11, <1>12, <1>13,
         <1>14, <1>15, <1>16, <1>17, <1>18, <1>19, <1>20, <1>21 DEF Next, Step

\* What is spent stays within its bounds.
LEMMA SpentType ==
    ASSUME TypeOK
    PROVE  /\ Fails => spent' \in Spent
           /\ Asks => spent' \in Spent
  BY TickAssumption DEF TypeOK, Fails, Asks, Spent

\* The history of failures holds times.
LEMMA StrikeType ==
    ASSUME TypeOK, NEW p \in Procs, Strike(p)
    PROVE  struck' \subseteq Nat
<1>1. \A q \in Procs : procs[q].at \in Nat
  BY DEF TypeOK, Proc
<1> QED
  BY <1>1 DEF TypeOK, Strike, Ticks

\* Every step keeps the types.
LEMMA TypeStep ==
    ASSUME TypeOK, Shape, [Next]_vars
    PROVE  TypeOK'
<1>a. procs' \in [Procs -> Proc]
  BY ProcsStep
<1>b. \A p \in Procs :
          procs[p].at \in Nat /\ procs[p].copy \in Settings /\ procs[p].prefs \in Prefs
  BY DEF TypeOK, Proc
<1>c. Day(now) \in Nat /\ now + 1 \in Nat
  BY AddedDays DEF TypeOK
<1> USE <1>a DEF TypeOK, deliveries
<1>1. ASSUME NEW p \in Procs, GetSettings(p)
      PROVE  TypeOK'
  BY <1>1, <1>b, SpentType, StrikeType DEF GetSettings
<1>2. ASSUME NEW p \in Procs, DiscoverSourceCandidates(p)
      PROVE  TypeOK'
  BY <1>2 DEF DiscoverSourceCandidates
<1>3. ASSUME NEW p \in Procs, SaveDiscovery(p)
      PROVE  TypeOK'
  <2>0. [procs[p] EXCEPT !.copy.discovered = procs[p].at].copy \in Settings
    BY MovedSound DEF Proc
  <2>1. settings' \in Settings /\ chosen' \in Choice
    BY <1>3, <2>0 DEF SaveDiscovery, Save
  <2>2. lapsed' \subseteq Nat
    BY <1>3, AddedDays DEF SaveDiscovery, Save
  <2>3. excused' \subseteq Nat
    BY <1>3, AddedDays DEF SaveDiscovery, Save, Excuse
  <2> QED
    BY <1>3, <1>c, <2>1, <2>2, <2>3 DEF SaveDiscovery, Save
<1>4. ASSUME NEW p \in Procs, LookForPlan(p)
      PROVE  TypeOK'
  BY <1>4 DEF LookForPlan, Continue
<1>5. ASSUME NEW p \in Procs, CreateAgentPlan(p)
      PROVE  TypeOK'
  BY <1>5, <1>b, SpentType, StrikeType DEF CreateAgentPlan, Continue
<1>6. ASSUME NEW p \in Procs, SendFeishuWebhook(p)
      PROVE  TypeOK'
  BY <1>6, <1>b DEF SendFeishuWebhook
<1>7. ASSUME NEW p \in Procs, MarkReport(p)
      PROVE  TypeOK'
  <2>1. settings' \in Settings /\ chosen' \in Choice
    BY <1>7, <1>b, <1>c, Values DEF MarkReport, Save
  <2>2. lapsed' \subseteq Nat
    BY <1>7, AddedDays DEF MarkReport, Save
  <2>3. excused' \subseteq Nat
    BY <1>7, AddedDays DEF MarkReport, Save, Excuse
  <2> QED
    BY <1>7, <1>c, <2>1, <2>2, <2>3 DEF MarkReport, Save
<1>8. ASSUME NEW p \in Procs, FindWebhook(p)
      PROVE  TypeOK'
  BY <1>8 DEF FindWebhook, Continue
<1>9. ASSUME NEW p \in Procs, SendByHand(p)
      PROVE  TypeOK'
  BY <1>9, <1>c DEF SendByHand
<1>10. ASSUME NEW p \in Procs, MarkByHand(p)
      PROVE  TypeOK'
  <2>1. settings' \in Settings /\ chosen' \in Choice
    BY <1>10, <1>b, <1>c, Values DEF MarkByHand, Save
  <2>2. lapsed' \subseteq Nat
    BY <1>10, AddedDays DEF MarkByHand, Save
  <2>3. excused' \subseteq Nat
    BY <1>10, AddedDays DEF MarkByHand, Save, Excuse
  <2> QED
    BY <1>10, <1>c, <2>1, <2>2, <2>3 DEF MarkByHand, Save
<1>11. ASSUME NEW p \in Procs, SaveCommand(p)
      PROVE  TypeOK'
  <2>1. settings' \in Settings /\ chosen' \in Choice
    BY <1>11, <1>b, <1>c, Values DEF SaveCommand, Save
  <2>2. lapsed' \subseteq Nat
    BY <1>11, AddedDays DEF SaveCommand, Save
  <2>3. excused' \subseteq Nat
    BY <1>11, AddedDays DEF SaveCommand, Save, Excuse
  <2> QED
    BY <1>11, <1>c, <2>1, <2>2, <2>3 DEF SaveCommand, Save
<1>12. ASSUME NEW p \in Procs, Cancelled(p)
      PROVE  TypeOK'
  BY <1>12 DEF Cancelled
<1>13. ASSUME NEW p \in Procs, LoseAnswer(p)
      PROVE  TypeOK'
  BY <1>13, <1>b, AddedDays, SpentType DEF LoseAnswer, Continue
<1>14. ASSUME NEW p \in Procs, Fail(p)
      PROVE  TypeOK'
  BY <1>14, <1>b, AddedDays, SpentType, StrikeType DEF Fail, Continue
<1>15. ASSUME NEW p \in Procs, Request(p)
      PROVE  TypeOK'
  BY <1>15, <1>b, SpentType DEF Request, Begin
<1>16. CASE UpdateSettings
  <2>1. settings' \in Settings /\ chosen' \in Choice
    BY <1>16, TickAssumption, Values DEF UpdateSettings, Save
  <2>2. lapsed' \subseteq Nat
    BY <1>16, AddedDays DEF UpdateSettings, Save
  <2>3. excused' \subseteq Nat
    BY <1>16, AddedDays DEF UpdateSettings, Save, Excuse
  <2> QED
    BY <1>16, SpentType, <2>1, <2>2, <2>3 DEF UpdateSettings, Save
<1>17. CASE Minute
  <2>1. excused' \subseteq Nat
    BY <1>17, AddedDays DEF Minute, Excuse
  <2>2. overlaps' \subseteq Nat
    BY <1>17, <1>b, <1>c DEF Minute, Ticks
  <2> QED
    BY <1>17, <1>c, <2>1, <2>2 DEF Minute
<1>18. CASE Signal
  <2>1. excused' \subseteq Nat
    BY <1>18, AddedDays DEF Signal, Stop, Excuse
  <2> QED
    BY <1>18, <2>1, SpentType DEF Signal, Stop
<1>19. CASE Crash
  <2>1. excused' \subseteq Nat /\ lapsed' \subseteq Nat
    BY <1>19, AddedDays DEF Crash, Stop, Excuse
  <2> QED
    BY <1>19, <2>1, SpentType DEF Crash, Stop
<1>20. CASE Start
  BY <1>20 DEF Start
<1>21. CASE UNCHANGED vars
  BY <1>21 DEF vars
<1> QED
  BY <1>1, <1>2, <1>3, <1>4, <1>5, <1>6, <1>7, <1>8, <1>9, <1>10, <1>11, <1>12, <1>13,
         <1>14, <1>15, <1>16, <1>17, <1>18, <1>19, <1>20, <1>21 DEF Next, Step

\* A goroutine whose copy is out of date holds one.
LEMMA StaleGoto ==
    ASSUME TypeOK, Shape, NEW p \in Procs, NEW l, NEW b \in BOOLEAN, Goto(p, l),
           stale' = [stale EXCEPT ![p] = b], b => l.pc \notin {"idle", "read"}
    PROVE  \A q \in Procs : stale'[q] => Held(q)'
<1>1. /\ procs'[p] = IF l.pc = "idle" THEN Idle ELSE l
      /\ \A q \in Procs \ {p} : procs'[q] = procs[q]
  BY DEF Goto, TypeOK
<1>2. stale'[p] = b /\ \A q \in Procs \ {p} : stale'[q] = stale[q]
  BY DEF TypeOK
<1> QED
  BY <1>1, <1>2 DEF Shape, Held

LEMMA StaleContinue ==
    ASSUME TypeOK, Shape, NEW p \in Procs, NEW l, Continue(p, l), l.pc # "read"
    PROVE  \A q \in Procs : stale'[q] => Held(q)'
<1> DEFINE b == l.pc # "idle" /\ stale[p]
<1>1. stale' = [stale EXCEPT ![p] = b] /\ Goto(p, l)
  BY DEF Continue, TypeOK
<1>2. b \in BOOLEAN /\ (b => l.pc \notin {"idle", "read"})
  OBVIOUS
<1> QED
  BY <1>1, <1>2, StaleGoto

\* Every step keeps the shape.
LEMMA ShapeStep ==
    ASSUME TypeOK, Shape, [Next]_vars
    PROVE  Shape'
<1>a. procs \in [Procs -> Proc] /\ stale \in [Procs -> BOOLEAN]
  BY DEF TypeOK
<1>b. \A q \in Procs : ShapeOf(procs'[q])
  BY ProcsStep
<1>c. \A q \in Procs : stale[q] => Held(q)
  BY DEF Shape
<1>d. SUFFICES \A q \in Procs : stale'[q] => Held(q)'
  BY <1>b DEF Shape
<1>e. \A q \in Procs : \A x : [procs[q] EXCEPT !.pc = x].pc = x
  BY DEF TypeOK, Proc
<1>f. Idle.pc = "idle"
  BY DEF Idle
<1>g. \A q \in Procs : \A x : x # "read" /\ Continue(q, [procs[q] EXCEPT !.pc = x]) =>
          \A r \in Procs : stale'[r] => Held(r)'
  BY <1>e, StaleContinue
<1>1. ASSUME NEW p \in Procs, GetSettings(p)
      PROVE  \A q \in Procs : stale'[q] => Held(q)'
  <2>1. PICK fails \in BOOLEAN :
            LET l == [procs[p] EXCEPT !.copy = IF fails THEN DefaultSettings ELSE Row]
            IN  /\ Goto(p, [l EXCEPT !.pc = Onward(l)])
                /\ stale' = [stale EXCEPT ![p] = fails /\ Onward(l) # "idle"]
    BY <1>1 DEF GetSettings
  <2> DEFINE l == [procs[p] EXCEPT !.copy = IF fails THEN DefaultSettings ELSE Row]
             b == fails /\ Onward(l) # "idle"
  <2>2. procs[p].op \in {"tick", "report", "command"} /\ l.op = procs[p].op
    BY <1>1, <1>a DEF Proc, Shape, ShapeOf, At, GetSettings
  <2>3. Onward(l) # "read"
    BY <2>2 DEF Onward, Discovery, Report
  <2>4. [l EXCEPT !.pc = Onward(l)].pc = Onward(l)
    BY <1>a DEF Proc
  <2>5. b \in BOOLEAN
    OBVIOUS
  <2> HIDE DEF l
  <2> QED
    BY <2>1, <2>3, <2>4, <2>5, StaleGoto DEF l
<1>2. ASSUME NEW p \in Procs, DiscoverSourceCandidates(p)
      PROVE  \A q \in Procs : stale'[q] => Held(q)'
  BY <1>2, <1>a, <1>c, <1>e, <1>f DEF DiscoverSourceCandidates, Held, Goto, At
<1>3. ASSUME NEW p \in Procs, SaveDiscovery(p)
      PROVE  \A q \in Procs : stale'[q] => Held(q)'
  BY <1>3, <1>a, <1>c, <1>e, <1>f DEF SaveDiscovery, Save, Held, Goto, At
<1>4. ASSUME NEW p \in Procs, LookForPlan(p)
      PROVE  \A q \in Procs : stale'[q] => Held(q)'
  <2>1. Delivery(procs[p]) # "read"
    BY DEF Delivery
  <2> QED
    BY <1>4, <2>1, <1>f, <1>g, StaleContinue DEF LookForPlan
<1>5. ASSUME NEW p \in Procs, CreateAgentPlan(p)
      PROVE  \A q \in Procs : stale'[q] => Held(q)'
  <2>1. Delivery(procs[p]) # "read"
    BY DEF Delivery
  <2> QED
    BY <1>5, <2>1, <1>f, <1>g, StaleContinue DEF CreateAgentPlan
<1>6. ASSUME NEW p \in Procs, SendFeishuWebhook(p)
      PROVE  \A q \in Procs : stale'[q] => Held(q)'
  BY <1>6, <1>a, <1>c, <1>e, <1>f DEF SendFeishuWebhook, Held, Goto, At
<1>7. ASSUME NEW p \in Procs, MarkReport(p)
      PROVE  \A q \in Procs : stale'[q] => Held(q)'
  BY <1>7, <1>a, <1>c, <1>e, <1>f DEF MarkReport, Save, Held, Goto, At
<1>8. ASSUME NEW p \in Procs, FindWebhook(p)
      PROVE  \A q \in Procs : stale'[q] => Held(q)'
  <2>1. Delivery(procs[p]) # "read"
    BY DEF Delivery
  <2> QED
    BY <1>8, <2>1, <1>f, <1>g, StaleContinue DEF FindWebhook
<1>9. ASSUME NEW p \in Procs, SendByHand(p)
      PROVE  \A q \in Procs : stale'[q] => Held(q)'
  BY <1>9, <1>a, <1>c, <1>e, <1>f DEF SendByHand, Held, Goto, At
<1>10. ASSUME NEW p \in Procs, MarkByHand(p)
      PROVE  \A q \in Procs : stale'[q] => Held(q)'
  BY <1>10, <1>a, <1>c, <1>e, <1>f DEF MarkByHand, Save, Held, Goto, At
<1>11. ASSUME NEW p \in Procs, SaveCommand(p)
      PROVE  \A q \in Procs : stale'[q] => Held(q)'
  BY <1>11, <1>a, <1>c, <1>e, <1>f DEF SaveCommand, Save, Held, Goto, At
<1>12. ASSUME NEW p \in Procs, Cancelled(p)
      PROVE  \A q \in Procs : stale'[q] => Held(q)'
  BY <1>12, <1>a, <1>c, <1>e, <1>f DEF Cancelled, Held, Goto, At
<1>13. ASSUME NEW p \in Procs, LoseAnswer(p)
      PROVE  \A q \in Procs : stale'[q] => Held(q)'
  <2>1. PICK l : Continue(p, l) /\ l.pc # "read"
    BY <1>13, <1>e, <1>f DEF LoseAnswer, Delivery
  <2> QED
    BY <2>1, StaleContinue
<1>14. ASSUME NEW p \in Procs, Fail(p)
      PROVE  \A q \in Procs : stale'[q] => Held(q)'
  <2>1. PICK l : Continue(p, l) /\ l.pc # "read"
    BY <1>14, <1>e, <1>f DEF Fail, Delivery
  <2> QED
    BY <2>1, StaleContinue
<1>15. ASSUME NEW p \in Procs, Request(p)
      PROVE  \A q \in Procs : stale'[q] => Held(q)'
  BY <1>15, <1>a, <1>c, <1>e, <1>f DEF Request, Begin, Held, Goto, At
<1>16. CASE UpdateSettings
  BY <1>16, <1>a, <1>c, <1>e, <1>f DEF UpdateSettings, Save, Held, Goto, At
<1>17. CASE Minute
  BY <1>17, <1>a, <1>c, <1>e, <1>f DEF Minute, Held, Goto, At
<1>18. CASE Signal
  BY <1>18, <1>a, <1>c, <1>e, <1>f DEF Signal, Stop, Held, Goto, At
<1>19. CASE Crash
  BY <1>19, <1>a, <1>c, <1>e, <1>f DEF Crash, Stop, Held, Goto, At
<1>20. CASE Start
  BY <1>20, <1>a, <1>c, <1>e, <1>f DEF Start, Held, Goto, At
<1>21. CASE UNCHANGED vars
  BY <1>21, <1>a, <1>c, <1>e, <1>f DEF vars, Held, Goto, At
<1> QED
  BY <1>1, <1>2, <1>3, <1>4, <1>5, <1>6, <1>7, <1>8, <1>9, <1>10, <1>11, <1>12, <1>13,
         <1>14, <1>15, <1>16, <1>17, <1>18, <1>19, <1>20, <1>21 DEF Next, Step

-----------------------------------------------------------------------------
(* A UTC day gets a second plan only from ticks that overlapped.           *)

InFlight ==
    \A p, q \in Procs : p # q /\ procs[p].op = "tick" /\ procs[q].op = "tick" =>
        {procs[p].at, procs[q].at} \subseteq overlaps
\* A tick that found no plan and has not inserted its own.
Planning ==
    \A p \in Procs, t \in plans : At(p, "insert") /\ PlanDay(t) = PlanDay(procs[p].at) =>
        {t, procs[p].at} \subseteq overlaps
PlanInv == InFlight /\ Planning /\ PlanPerDay

\* What a step may do to the operation and the time of a goroutine.
TickMoves ==
    /\ overlaps \subseteq overlaps'
    /\ \A q \in Procs : procs'[q].op = "tick" =>
        \/ procs[q].op = "tick" /\ procs'[q].at = procs[q].at
        \/ /\ procs'[q].at = now + 1 /\ procs'[q].pc = "read"
           /\ \A r \in Procs \ {q} : procs'[r] = procs[r]
           /\ \A r \in Ticks : {now + 1, procs[r].at} \subseteq overlaps'

LEMMA GotoMoves ==
    ASSUME TypeOK, NEW p \in Procs, NEW l, Goto(p, l), overlaps' = overlaps,
           l.pc = "idle" \/ (l.op = procs[p].op /\ l.at = procs[p].at)
    PROVE  TickMoves
<1>1. /\ procs'[p] = IF l.pc = "idle" THEN Idle ELSE l
      /\ \A q \in Procs \ {p} : procs'[q] = procs[q]
  BY DEF Goto, TypeOK
<1> QED
  BY <1>1 DEF TickMoves, Idle

\* A tick keeps its time; the ticks it finds at work are overlapped.
LEMMA MovesStep ==
    ASSUME TypeOK, Shape, [Next]_vars
    PROVE  TickMoves
<1>a. procs \in [Procs -> Proc]
  BY DEF TypeOK
<1>b. Idle.pc = "idle" /\ Idle.op = "none"
  BY DEF Idle
<1>c. \A q \in Procs : \A x : /\ [procs[q] EXCEPT !.pc = x].op = procs[q].op
                              /\ [procs[q] EXCEPT !.pc = x].at = procs[q].at
  BY <1>a DEF Proc
<1>1. ASSUME NEW p \in Procs, GetSettings(p)
      PROVE  TickMoves
  <2>1. PICK fails \in BOOLEAN :
            LET l == [procs[p] EXCEPT !.copy = IF fails THEN DefaultSettings ELSE Row]
            IN  Goto(p, [l EXCEPT !.pc = Onward(l)])
    BY <1>1 DEF GetSettings
  <2> DEFINE l == [procs[p] EXCEPT !.copy = IF fails THEN DefaultSettings ELSE Row]
             m == [l EXCEPT !.pc = Onward(l)]
  <2>2. m.op = procs[p].op /\ m.at = procs[p].at
    BY <1>a DEF Proc
  <2>3. overlaps' = overlaps
    BY <1>1 DEF GetSettings
  <2> HIDE DEF m
  <2> QED
    BY <2>1, <2>2, <2>3, GotoMoves DEF m
<1>2. ASSUME NEW p \in Procs, DiscoverSourceCandidates(p)
      PROVE  TickMoves
  BY <1>2, <1>b, <1>c, GotoMoves DEF DiscoverSourceCandidates
<1>3. ASSUME NEW p \in Procs, SaveDiscovery(p)
      PROVE  TickMoves
  <2> DEFINE l == [procs[p] EXCEPT !.copy.discovered = procs[p].at]
             m == [l EXCEPT !.pc = Report(l)]
  <2>1. Goto(p, m) /\ overlaps' = overlaps
    BY <1>3 DEF SaveDiscovery
  <2>2. m.op = procs[p].op /\ m.at = procs[p].at
    BY <1>a DEF Proc
  <2> HIDE DEF m
  <2> QED
    BY <2>1, <2>2, GotoMoves
<1>4. ASSUME NEW p \in Procs, LookForPlan(p)
      PROVE  TickMoves
  BY <1>4, <1>b, <1>c, GotoMoves DEF LookForPlan, Continue
<1>5. ASSUME NEW p \in Procs, CreateAgentPlan(p)
      PROVE  TickMoves
  BY <1>5, <1>b, <1>c, GotoMoves DEF CreateAgentPlan, Continue
<1>6. ASSUME NEW p \in Procs, SendFeishuWebhook(p)
      PROVE  TickMoves
  BY <1>6, <1>b, <1>c, GotoMoves DEF SendFeishuWebhook
<1>7. ASSUME NEW p \in Procs, MarkReport(p)
      PROVE  TickMoves
  BY <1>7, <1>b, <1>c, GotoMoves DEF MarkReport, Save
<1>8. ASSUME NEW p \in Procs, FindWebhook(p)
      PROVE  TickMoves
  BY <1>8, <1>b, <1>c, GotoMoves DEF FindWebhook, Continue
<1>9. ASSUME NEW p \in Procs, SendByHand(p)
      PROVE  TickMoves
  <2> DEFINE m == [procs[p] EXCEPT !.pc = "mark", !.day = Day(now)]
  <2>1. Goto(p, m) /\ overlaps' = overlaps
    BY <1>9 DEF SendByHand
  <2>2. m.op = procs[p].op /\ m.at = procs[p].at
    BY <1>a DEF Proc
  <2> HIDE DEF m
  <2> QED
    BY <2>1, <2>2, GotoMoves
<1>10. ASSUME NEW p \in Procs, MarkByHand(p)
      PROVE  TickMoves
  BY <1>10, <1>b, <1>c, GotoMoves DEF MarkByHand, Save
<1>11. ASSUME NEW p \in Procs, SaveCommand(p)
      PROVE  TickMoves
  BY <1>11, <1>b, <1>c, GotoMoves DEF SaveCommand, Save
<1>12. ASSUME NEW p \in Procs, Cancelled(p)
      PROVE  TickMoves
  BY <1>12, <1>b, <1>c, GotoMoves DEF Cancelled
<1>13. ASSUME NEW p \in Procs, LoseAnswer(p)
      PROVE  TickMoves
  BY <1>13, <1>b, <1>c, GotoMoves DEF LoseAnswer, Continue
<1>14. ASSUME NEW p \in Procs, Fail(p)
      PROVE  TickMoves
  BY <1>14, <1>b, <1>c, GotoMoves DEF Fail, Continue
<1>15. ASSUME NEW p \in Procs, Request(p)
      PROVE  TickMoves
  <2>1. PICK op \in {"report", "command"}, x \in Prefs : Begin(p, op, x)
    BY <1>15, Reads DEF Request
  <2>2. [Idle EXCEPT !.op = op, !.pc = "read", !.prefs = x].op = op
    BY Values DEF Proc
  <2> QED
    BY <1>a, <1>b, <2>1, <2>2 DEF Begin, Goto, TickMoves
<1>16. CASE UpdateSettings
  BY <1>16 DEF UpdateSettings, Save, TickMoves
<1>17. CASE Minute
  <2>1. CASE life = "running"
    <3> DEFINE l == [Idle EXCEPT !.op = "tick", !.pc = "read", !.at = now + 1]
    <3>1. PICK p \in Procs : Goto(p, l)
      BY <1>17, <2>1 DEF Minute
    <3>2. l.at = now + 1 /\ l.pc = "read"
      BY Values DEF Proc
    <3>3. overlaps \subseteq overlaps' /\ \A r \in Ticks : {now + 1, procs[r].at}
        \subseteq overlaps'
      BY <1>17 DEF Minute
    <3> HIDE DEF l
    <3> QED
      BY <1>a, <3>1, <3>2, <3>3 DEF TickMoves, Goto
  <2>2. CASE life # "running"
    BY <1>17, <2>2 DEF Minute, TickMoves
  <2> QED
    BY <2>1, <2>2
<1>18. CASE Signal
  BY <1>18 DEF Signal, Stop, TickMoves
<1>19. CASE Crash
  BY <1>19, <1>b DEF Crash, Stop, TickMoves
<1>20. CASE Start
  BY <1>20 DEF Start, TickMoves
<1>21. CASE UNCHANGED vars
  BY <1>21 DEF vars, TickMoves
<1> QED
  BY <1>1, <1>2, <1>3, <1>4, <1>5, <1>6, <1>7, <1>8, <1>9, <1>10, <1>11, <1>12, <1>13,
         <1>14, <1>15, <1>16, <1>17, <1>18, <1>19, <1>20, <1>21 DEF Next, Step

\* Two ticks at work at the same time are overlapped.
LEMMA InFlightStep ==
    ASSUME TypeOK, Shape, InFlight, [Next]_vars
    PROVE  InFlight'
<1>1. TickMoves
  BY MovesStep
<1>2. SUFFICES ASSUME NEW p \in Procs, NEW q \in Procs, p # q,
                      procs'[p].op = "tick", procs'[q].op = "tick"
               PROVE  {procs'[p].at, procs'[q].at} \subseteq overlaps'
  BY DEF InFlight
<1>3. \A r \in Procs : r \in Ticks <=> procs[r].op = "tick"
  BY DEF Ticks
<1> QED
  BY <1>1, <1>2, <1>3 DEF InFlight, TickMoves

LEMMA GotoPlanning ==
    ASSUME TypeOK, Planning, NEW p \in Procs, NEW l, Goto(p, l), l.pc # "insert",
           plans' = plans, overlaps \subseteq overlaps'
    PROVE  Planning'
<1>1. procs'[p].pc # "insert" /\ \A q \in Procs \ {p} : procs'[q] = procs[q]
  BY DEF Goto, TypeOK, Idle
<1> QED
  BY <1>1 DEF Planning, At

\* Who is about to insert a plan overlapped with whoever inserted one since.
LEMMA PlanningStep ==
    ASSUME TypeOK, Shape, InFlight, Planning, [Next]_vars
    PROVE  Planning'
<1>a. procs \in [Procs -> Proc]
  BY DEF TypeOK
<1>b. Idle.pc = "idle"
  BY DEF Idle
<1>c. \A q \in Procs : \A x : [procs[q] EXCEPT !.pc = x].pc = x
  BY <1>a DEF Proc
<1>d. overlaps \subseteq overlaps'
  BY MovesStep DEF TickMoves
<1>e. \A l : Report(l) # "insert" /\ Delivery(l) # "insert" /\ Discovery(l) # "insert"
  BY DEF Report, Delivery, Discovery
<1>1. ASSUME NEW p \in Procs, GetSettings(p)
      PROVE  Planning'
  <2>1. PICK fails \in BOOLEAN :
            LET l == [procs[p] EXCEPT !.copy = IF fails THEN DefaultSettings ELSE Row]
            IN  Goto(p, [l EXCEPT !.pc = Onward(l)])
    BY <1>1 DEF GetSettings
  <2> DEFINE l == [procs[p] EXCEPT !.copy = IF fails THEN DefaultSettings ELSE Row]
             m == [l EXCEPT !.pc = Onward(l)]
  <2>2. procs[p].op \in {"tick", "report", "command"} /\ l.op = procs[p].op
    BY <1>1, <1>a DEF Proc, Shape, ShapeOf, At, GetSettings
  <2>3. Onward(l) # "insert"
    BY <2>2, <1>e DEF Onward
  <2>4. m.pc = Onward(l)
    BY <1>a DEF Proc
  <2>5. plans' = plans
    BY <1>1 DEF GetSettings
  <2> HIDE DEF l, m
  <2> QED
    BY <2>1, <2>3, <2>4, <2>5, <1>d, GotoPlanning DEF l, m
<1>2. ASSUME NEW p \in Procs, DiscoverSourceCandidates(p)
      PROVE  Planning'
  BY <1>2, <1>b, <1>c, <1>d, <1>e, GotoPlanning DEF DiscoverSourceCandidates
<1>3. ASSUME NEW p \in Procs, SaveDiscovery(p)
      PROVE  Planning'
  <2> DEFINE m == LET l == [procs[p] EXCEPT !.copy.discovered = procs[p].at] IN [l EXCEPT
      !.pc = Report(l)]
  <2>1. Goto(p, m) /\ plans' = plans
    BY <1>3 DEF SaveDiscovery
  <2>2. m.pc # "insert"
    BY <1>a, <1>e DEF Proc
  <2> HIDE DEF m
  <2> QED
    BY <2>1, <2>2, <1>d, GotoPlanning
<1>4. ASSUME NEW p \in Procs, LookForPlan(p)
      PROVE  Planning'
  <2>1. CASE Goto(p, [procs[p] EXCEPT !.pc = Delivery(procs[p])])
    BY <1>4, <2>1, <1>c, <1>d, <1>e, GotoPlanning DEF LookForPlan
  <2>2. CASE ~HasAgentPlanForDay(procs[p].at) /\ Goto(p, [procs[p] EXCEPT !.pc =
      "insert"])
    <3>1. procs'[p].at = procs[p].at /\ \A q \in Procs \ {p} : procs'[q] = procs[q]
      BY <2>2, <1>a DEF Goto, Proc
    <3>2. plans' = plans
      BY <1>4 DEF LookForPlan
    <3>3. \A t \in plans : PlanDay(t) # PlanDay(procs[p].at)
      BY <2>2 DEF HasAgentPlanForDay
    <3> QED
      BY <3>1, <3>2, <3>3, <1>d DEF Planning, At
  <2> QED
    BY <1>4, <2>1, <2>2 DEF LookForPlan, Continue
<1>5. ASSUME NEW p \in Procs, CreateAgentPlan(p)
      PROVE  Planning'
  <2>1. Goto(p, [procs[p] EXCEPT !.pc = Delivery(procs[p])]) \/ Goto(p, Idle)
    BY <1>5 DEF CreateAgentPlan, Continue
  <2>2. procs'[p].pc # "insert" /\ \A q \in Procs \ {p} : procs'[q] = procs[q]
    <3>1. CASE Goto(p, Idle)
      BY <3>1, <1>a, <1>b DEF Goto
    <3>2. CASE Goto(p, [procs[p] EXCEPT !.pc = Delivery(procs[p])])
      <4> DEFINE m == [procs[p] EXCEPT !.pc = Delivery(procs[p])]
      <4>1. m.pc # "insert"
        BY <1>c, <1>e
      <4>2. Goto(p, m)
        BY <3>2
      <4> HIDE DEF m
      <4> QED
        BY <4>1, <4>2, <1>a, <1>b DEF Goto
    <3> QED
      BY <2>1, <3>1, <3>2
  <2>3. plans' = plans \cup {procs[p].at} /\ procs[p].op = "tick"
    BY <1>5 DEF CreateAgentPlan, Shape, ShapeOf, At
  <2>4. \A q \in Procs \ {p} : At(q, "insert") => {procs[p].at, procs[q].at} \subseteq
      overlaps
    BY <2>3 DEF InFlight, Shape, ShapeOf, At
  <2> QED
    BY <2>2, <2>3, <2>4, <1>d DEF Planning, At
<1>6. ASSUME NEW p \in Procs, SendFeishuWebhook(p)
      PROVE  Planning'
  BY <1>6, <1>b, <1>c, <1>d, <1>e, GotoPlanning DEF SendFeishuWebhook
<1>7. ASSUME NEW p \in Procs, MarkReport(p)
      PROVE  Planning'
  BY <1>7, <1>b, <1>c, <1>d, <1>e, GotoPlanning DEF MarkReport, Save
<1>8. ASSUME NEW p \in Procs, FindWebhook(p)
      PROVE  Planning'
  BY <1>8, <1>b, <1>c, <1>d, <1>e, GotoPlanning DEF FindWebhook, Continue
<1>9. ASSUME NEW p \in Procs, SendByHand(p)
      PROVE  Planning'
  <2> DEFINE m == [procs[p] EXCEPT !.pc = "mark", !.day = Day(now)]
  <2>1. Goto(p, m) /\ plans' = plans
    BY <1>9 DEF SendByHand
  <2>2. m.pc # "insert"
    BY <1>a, <1>e DEF Proc
  <2> HIDE DEF m
  <2> QED
    BY <2>1, <2>2, <1>d, GotoPlanning
<1>10. ASSUME NEW p \in Procs, MarkByHand(p)
      PROVE  Planning'
  BY <1>10, <1>b, <1>c, <1>d, <1>e, GotoPlanning DEF MarkByHand, Save
<1>11. ASSUME NEW p \in Procs, SaveCommand(p)
      PROVE  Planning'
  BY <1>11, <1>b, <1>c, <1>d, <1>e, GotoPlanning DEF SaveCommand, Save
<1>12. ASSUME NEW p \in Procs, Cancelled(p)
      PROVE  Planning'
  BY <1>12, <1>b, <1>c, <1>d, <1>e, GotoPlanning DEF Cancelled
<1>13. ASSUME NEW p \in Procs, LoseAnswer(p)
      PROVE  Planning'
  BY <1>13, <1>b, <1>c, <1>d, <1>e, GotoPlanning DEF LoseAnswer, Continue
<1>14. ASSUME NEW p \in Procs, Fail(p)
      PROVE  Planning'
  BY <1>14, <1>b, <1>c, <1>d, <1>e, GotoPlanning DEF Fail, Continue
<1>15. ASSUME NEW p \in Procs, Request(p)
      PROVE  Planning'
  <2>1. PICK op \in {"report", "command"}, x \in Prefs : Begin(p, op, x)
    BY <1>15, Reads DEF Request
  <2>2. [Idle EXCEPT !.op = op, !.pc = "read", !.prefs = x].pc = "read"
    BY Values DEF Proc
  <2> QED
    BY <2>1, <2>2, <1>d, GotoPlanning DEF Begin
<1>16. CASE UpdateSettings
  BY <1>16, <1>d DEF UpdateSettings, Save, Planning, At
<1>17. CASE Minute
  <2>1. CASE life = "running"
    <3> DEFINE l == [Idle EXCEPT !.op = "tick", !.pc = "read", !.at = now + 1]
    <3>1. PICK p \in Procs : Goto(p, l)
      BY <1>17, <2>1 DEF Minute
    <3>2. l.pc = "read" /\ plans' = plans
      BY <1>17, Values DEF Proc, Minute
    <3> HIDE DEF l
    <3> QED
      BY <3>1, <3>2, <1>d, GotoPlanning
  <2>2. CASE life # "running"
    BY <1>17, <2>2, <1>d DEF Minute, Planning, At
  <2> QED
    BY <2>1, <2>2
<1>18. CASE Signal
  BY <1>18, <1>d DEF Signal, Stop, Planning, At
<1>19. CASE Crash
  BY <1>19, <1>b, <1>d DEF Crash, Stop, Planning, At
<1>20. CASE Start
  BY <1>20, <1>d DEF Start, Planning, At
<1>21. CASE UNCHANGED vars
  BY <1>21, <1>d DEF vars, Planning, At
<1> QED
  BY <1>1, <1>2, <1>3, <1>4, <1>5, <1>6, <1>7, <1>8, <1>9, <1>10, <1>11, <1>12, <1>13,
         <1>14, <1>15, <1>16, <1>17, <1>18, <1>19, <1>20, <1>21 DEF Next, Step

\* Only CreateAgentPlan adds a plan, and its tick was about to.
LEMMA PlanStep ==
    ASSUME TypeOK, Shape, PlanInv, [Next]_vars
    PROVE  PlanInv'
<1>1. InFlight' /\ Planning'
  BY InFlightStep, PlanningStep DEF PlanInv
<1>2. overlaps \subseteq overlaps'
  BY MovesStep DEF TickMoves
<1>3. plans' = plans \/ \E p \in Procs : At(p, "insert") /\ plans' = plans \cup {procs[p].at}
  BY DEF Next, vars, deliveries, Step, GetSettings, DiscoverSourceCandidates, SaveDiscovery, LookForPlan,
         CreateAgentPlan, SendFeishuWebhook, MarkReport, FindWebhook, SendByHand, MarkByHand,
         SaveCommand, Cancelled, LoseAnswer, Fail, Request, Begin, UpdateSettings, Minute,
         Signal, Crash, Start, Stop
<1>4. PlanPerDay'
  BY <1>2, <1>3 DEF PlanInv, Planning, PlanPerDay
<1> QED
  BY <1>1, <1>4 DEF PlanInv

-----------------------------------------------------------------------------
\* The types and the shape of the local variables are inductive.
LEMMA ShapeInvariant == Spec => [](TypeOK /\ Shape)
<1>1. Init => TypeOK /\ Shape
  BY TypeInit
<1>2. TypeOK /\ Shape /\ [Next]_vars => (TypeOK /\ Shape)'
  BY TypeStep, ShapeStep
<1> QED
  BY <1>1, <1>2, PTL DEF Spec

\* The variables have their types, for every number of goroutines.
THEOREM TypeCorrect == Spec => []TypeOK
  BY ShapeInvariant, PTL

\* A UTC day gets a second automatic plan only from ticks that overlapped,
\* however many goroutines there are: whoever is about to insert a plan has
\* looked for one, and overlapped with whoever inserted one since.
THEOREM OnePlanPerDay == Spec => []PlanPerDay
<1>1. Init => PlanInv
  BY DEF Init, PlanInv, InFlight, Planning, PlanPerDay, Idle, At
<1>2. TypeOK /\ Shape /\ PlanInv /\ [Next]_vars => PlanInv'
  BY PlanStep
<1>3. PlanInv => PlanPerDay
  BY DEF PlanInv
<1> QED
  BY <1>1, <1>2, <1>3, ShapeInvariant, PTL DEF Spec

-----------------------------------------------------------------------------
(* A mark is of a day on which a report was delivered.                     *)

\* What a step of one goroutine leaves of the others.
LEMMA Gone ==
    ASSUME TypeOK, NEW p \in Procs, NEW l, Goto(p, l)
    PROVE  /\ procs'[p] = IF l.pc = "idle" THEN Idle ELSE l
           /\ \A q \in Procs \ {p} : procs'[q] = procs[q]
  BY DEF Goto, TypeOK

\* What an edit leaves of the other fields.
LEMMA Edits ==
    ASSUME NEW l \in Proc
    PROVE  /\ \A x : LET m == [l EXCEPT !.pc = x]
                     IN  /\ m.pc = x /\ m.op = l.op /\ m.at = l.at /\ m.day = l.day
                         /\ m.copy = l.copy /\ m.prefs = l.prefs
           /\ \A x : \A d : LET m == [l EXCEPT !.pc = x, !.day = d]
                     IN  /\ m.pc = x /\ m.op = l.op /\ m.at = l.at /\ m.day = d
                         /\ m.copy = l.copy
           /\ \A x : \A c : LET m == [[l EXCEPT !.copy = c] EXCEPT !.pc = x]
                     IN  /\ m.pc = x /\ m.op = l.op /\ m.at = l.at /\ m.day = l.day
                         /\ m.copy = c
           /\ \A x : \A t : LET m == [[l EXCEPT !.copy.discovered = t] EXCEPT !.pc = x]
                     IN  /\ m.pc = x /\ m.op = l.op /\ m.at = l.at /\ m.day = l.day
                         /\ m.copy = [l.copy EXCEPT !.discovered = t]
  BY DEF Proc

LEMMA CopyEdits ==
    ASSUME NEW s \in Settings
    PROVE  /\ \A t : /\ [s EXCEPT !.discovered = t].reported = s.reported
                     /\ [s EXCEPT !.discovered = t].choice = s.choice
                     /\ [s EXCEPT !.reported = t].reported = t
                     /\ [s EXCEPT !.reported = t].choice = s.choice
           /\ \A x : /\ [s EXCEPT !.choice.prefs = x].reported = s.reported
                     /\ [s EXCEPT !.choice.prefs = x].choice = [s.choice EXCEPT !.prefs = x]
  BY DEF Settings

Backed(t) == Day(t) \in Days \/ t \in late
BackedIn(s) == s.reported # None => Backed(s.reported)
\* What a goroutine holds is backed, and who is to set a mark has delivered.
HoldsBacked(l) ==
    /\ BackedIn(l.copy)
    /\ l.op = "tick" /\ l.pc = "mark" => l.at \in sent
    /\ l.op = "report" /\ l.pc = "mark" => l.day \in byHand
Backing == BackedIn(Row) /\ \A p \in Procs : HoldsBacked(procs[p])

\* A goroutine goes on with a backed copy; the row is what it was.
LEMMA BackingGoto ==
    ASSUME TypeOK, Backing, NEW p \in Procs, NEW l, Goto(p, l), BackedIn(l.copy),
           settings' = settings, sent \subseteq sent', byHand \subseteq byHand', late' = late,
           l.pc = "mark" => /\ l.op = "tick" => l.at \in sent'
                            /\ l.op = "report" => l.day \in byHand'
    PROVE  Backing'
<1>1. /\ procs'[p] = IF l.pc = "idle" THEN Idle ELSE l
      /\ \A q \in Procs \ {p} : procs'[q] = procs[q]
  BY Gone
<1>2. Days \subseteq Days' /\ Row' = Row
  BY DEF Days, Row
<1>3. Idle.copy.reported = None /\ Idle.op = "none"
  BY DEF Idle, DefaultSettings
<1>4. \A t : Backed(t) => Day(t) \in Days' \/ t \in late'
  BY <1>2 DEF Backed
<1>5. BackedIn(Row)'
  BY <1>2, <1>4 DEF Backing, BackedIn, Backed
<1>6. ASSUME NEW q \in Procs
      PROVE  HoldsBacked(procs[q])'
  <2>1. CASE q = p /\ l.pc # "idle"
    <3>1. procs'[q] = l
      BY <1>1, <2>1
    <3> QED
      BY <3>1, <1>4 DEF HoldsBacked, BackedIn, Backed
  <2>2. CASE q = p /\ l.pc = "idle"
    <3>1. procs'[q] = Idle
      BY <1>1, <2>2
    <3> QED
      BY <3>1, <1>3 DEF HoldsBacked, BackedIn, Backed
  <2>3. CASE q # p
    <3>1. procs'[q] = procs[q] /\ HoldsBacked(procs[q])
      BY <1>1, <2>3 DEF Backing
    <3> QED
      BY <3>1, <1>4 DEF HoldsBacked, BackedIn, Backed
  <2> QED
    BY <2>1, <2>2, <2>3
<1> QED
  BY <1>5, <1>6 DEF Backing

\* A goroutine saves a row with a backed mark and holds nothing else.
LEMMA BackingSave ==
    ASSUME TypeOK, Backing, NEW p \in Procs, NEW l, Goto(p, l), BackedIn(l.copy), l.pc # "mark",
           NEW s \in Settings, settings' = s, UNCHANGED <<sent, byHand>>, late \subseteq late',
           s.reported # None => Backed(s.reported) \/ s.reported \in late'
    PROVE  Backing'
<1>1. /\ procs'[p] = IF l.pc = "idle" THEN Idle ELSE l
      /\ \A q \in Procs \ {p} : procs'[q] = procs[q]
  BY Gone
<1>2. Days' = Days /\ (Row' = s \/ Row' = DefaultSettings)
  BY DEF Days, Row
<1>3. Idle.copy.reported = None /\ Idle.op = "none" /\ DefaultSettings.reported = None
  BY DEF Idle, DefaultSettings
<1>4. \A t : Backed(t) => Day(t) \in Days' \/ t \in late'
  BY <1>2 DEF Backed
<1>5. BackedIn(Row)'
  BY <1>2, <1>3, <1>4 DEF BackedIn, Backed
<1>6. ASSUME NEW q \in Procs
      PROVE  HoldsBacked(procs[q])'
  <2>1. CASE q = p /\ l.pc # "idle"
    <3>1. procs'[q] = l
      BY <1>1, <2>1
    <3> QED
      BY <3>1, <1>4 DEF HoldsBacked, BackedIn, Backed
  <2>2. CASE q = p /\ l.pc = "idle"
    <3>1. procs'[q] = Idle
      BY <1>1, <2>2
    <3> QED
      BY <3>1, <1>3 DEF HoldsBacked, BackedIn, Backed
  <2>3. CASE q # p
    <3>1. procs'[q] = procs[q] /\ HoldsBacked(procs[q])
      BY <1>1, <2>3 DEF Backing
    <3> QED
      BY <3>1, <1>4 DEF HoldsBacked, BackedIn, Backed
  <2> QED
    BY <2>1, <2>2, <2>3
<1> QED
  BY <1>5, <1>6 DEF Backing

\* Every step keeps what is held and saved backed.
LEMMA BackingStep ==
    ASSUME TypeOK, Shape, Backing, [Next]_vars
    PROVE  Backing'
<1>a. \A q \in Procs : procs[q] \in Proc /\ procs[q].copy \in Settings
  BY Fields
<1>b. /\ Idle.pc = "idle" /\ Idle.op = "none" /\ BackedIn(Idle.copy)
      /\ BackedIn(DefaultSettings) /\ BackedIn(Row)
  BY DEF Idle, DefaultSettings, BackedIn, Backing
<1>c. \A q \in Procs : BackedIn(procs[q].copy)
  BY DEF Backing, HoldsBacked
<1>d. \A l : Report(l) # "mark" /\ Delivery(l) # "mark" /\ Discovery(l) # "mark"
  BY DEF Report, Delivery, Discovery
<1>e. ASSUME NEW p \in Procs, NEW x, x # "mark", Goto(p, [procs[p] EXCEPT !.pc = x]),
             UNCHANGED <<settings, sent, byHand, late>>
      PROVE  Backing'
  <2> DEFINE m == [procs[p] EXCEPT !.pc = x]
  <2>1. m.pc = x /\ m.copy = procs[p].copy
    BY <1>a, Edits
  <2>2. BackedIn(m.copy)
    BY <1>c, <2>1
  <2>3. Goto(p, m)
    BY <1>e
  <2> HIDE DEF m
  <2> QED
    BY <1>e, <2>1, <2>2, <2>3, BackingGoto
<1>f. ASSUME NEW p \in Procs, Goto(p, Idle), UNCHANGED <<settings, byHand, late>>,
             sent \subseteq sent'
      PROVE  Backing'
  BY <1>b, <1>f, BackingGoto
<1>g. ASSUME NEW p \in Procs, NEW s \in Settings, settings' = s, Goto(p, Idle),
             UNCHANGED <<sent, byHand>>, late \subseteq late',
             s.reported # None => Backed(s.reported) \/ s.reported \in late'
      PROVE  Backing'
  BY <1>b, <1>g, BackingSave
<1>1. ASSUME NEW p \in Procs, GetSettings(p)
      PROVE  Backing'
  <2>1. PICK fails \in BOOLEAN :
            LET l == [procs[p] EXCEPT !.copy = IF fails THEN DefaultSettings ELSE Row]
            IN  Goto(p, [l EXCEPT !.pc = Onward(l)])
    BY <1>1 DEF GetSettings
  <2> DEFINE c == IF fails THEN DefaultSettings ELSE Row
             l == [procs[p] EXCEPT !.copy = c]
             m == [l EXCEPT !.pc = Onward(l)]
  <2>2. procs[p].op \in {"tick", "report", "command"} /\ l.op = procs[p].op
    BY <1>1, <1>a DEF Proc, Shape, ShapeOf, At, GetSettings
  <2>3. Onward(l) # "mark"
    BY <2>2, <1>d DEF Onward
  <2>4. m.pc = Onward(l) /\ m.copy = c
    BY <1>a, Edits
  <2>5. BackedIn(m.copy)
    BY <2>4, <1>b
  <2>6. UNCHANGED <<settings, sent, byHand, late>>
    BY <1>1 DEF GetSettings, deliveries
  <2> HIDE DEF l, m
  <2> QED
    BY <2>1, <2>3, <2>4, <2>5, <2>6, BackingGoto DEF l, m
<1>2. ASSUME NEW p \in Procs, DiscoverSourceCandidates(p)
      PROVE  Backing'
  BY <1>2, <1>e DEF DiscoverSourceCandidates, deliveries
<1>3. ASSUME NEW p \in Procs, SaveDiscovery(p)
      PROVE  Backing'
  <2> DEFINE l == [procs[p] EXCEPT !.copy.discovered = procs[p].at]
             m == [l EXCEPT !.pc = Report(l)]
  <2>1. Goto(p, m) /\ settings' = l.copy /\ UNCHANGED <<sent, byHand, late>>
    BY <1>3 DEF SaveDiscovery, Save, deliveries
  <2>2. m.pc = Report(l) /\ m.copy = [procs[p].copy EXCEPT !.discovered = procs[p].at]
    BY <1>a, Edits
  <2>3. l.copy = [procs[p].copy EXCEPT !.discovered = procs[p].at]
    BY <1>a DEF Proc
  <2>4. l.copy.reported = procs[p].copy.reported /\ m.copy.reported = procs[p].copy.reported
    <3>1. [procs[p].copy EXCEPT !.discovered = procs[p].at].reported = procs[p].copy.reported
      BY <1>a, CopyEdits
    <3> QED
      BY <2>2, <2>3, <3>1
  <2>5. BackedIn(l.copy) /\ BackedIn(m.copy) /\ m.pc # "mark"
    BY <1>c, <1>d, <2>2, <2>4 DEF BackedIn
  <2>6. l.copy \in Settings
    BY <1>a, MovedSound DEF Proc
  <2> HIDE DEF l, m
  <2> QED
    BY <2>1, <2>5, <2>6, BackingSave DEF BackedIn
<1>4. ASSUME NEW p \in Procs, LookForPlan(p)
      PROVE  Backing'
  BY <1>4, <1>d, <1>e DEF LookForPlan, Continue, deliveries
<1>5. ASSUME NEW p \in Procs, CreateAgentPlan(p)
      PROVE  Backing'
  BY <1>5, <1>d, <1>e, <1>f DEF CreateAgentPlan, Continue, deliveries
<1>6. ASSUME NEW p \in Procs, SendFeishuWebhook(p)
      PROVE  Backing'
  <2>1. /\ Goto(p, [procs[p] EXCEPT !.pc = "mark"]) /\ procs[p].op = "tick"
        /\ sent' = sent \cup {procs[p].at} /\ UNCHANGED <<settings, byHand, late>>
    BY <1>6 DEF SendFeishuWebhook, Runs, deliveries
  <2> DEFINE m == [procs[p] EXCEPT !.pc = "mark"]
  <2>2. /\ m.pc = "mark" /\ m.copy = procs[p].copy /\ m.op = procs[p].op
        /\ m.at = procs[p].at
    BY <1>a, Edits
  <2>3. BackedIn(m.copy) /\ m.op # "report" /\ m.at \in sent' /\ Goto(p, m)
    BY <1>c, <2>1, <2>2
  <2> HIDE DEF m
  <2> QED
    BY <2>1, <2>3, BackingGoto
<1>7. ASSUME NEW p \in Procs, MarkReport(p)
      PROVE  Backing'
  <2> DEFINE s == [procs[p].copy EXCEPT !.reported = procs[p].at]
  <2>1. procs[p].at \in sent
    BY <1>7 DEF MarkReport, Runs, At, Backing, HoldsBacked
  <2>2. s.reported = procs[p].at /\ s \in Settings
    <3>1. s.reported = procs[p].at
      BY <1>a, CopyEdits
    <3>2. s \in Settings
      BY <1>a, Values, Fields
    <3> QED
      BY <3>1, <3>2
  <2>3. Backed(s.reported)
    BY <2>1, <2>2 DEF Backed, Days
  <2>4. settings' = s /\ Goto(p, Idle) /\ UNCHANGED <<sent, byHand, late>>
    BY <1>7 DEF MarkReport, Save, deliveries
  <2> HIDE DEF s
  <2> QED
    BY <2>2, <2>3, <2>4, <1>g
<1>8. ASSUME NEW p \in Procs, FindWebhook(p)
      PROVE  Backing'
  BY <1>8, <1>e DEF FindWebhook, Continue, deliveries
<1>9. ASSUME NEW p \in Procs, SendByHand(p)
      PROVE  Backing'
  <2>1. /\ Goto(p, [procs[p] EXCEPT !.pc = "mark", !.day = Day(now)])
        /\ procs[p].op = "report" /\ byHand' = byHand \cup {Day(now)}
        /\ UNCHANGED <<settings, sent, late>>
    BY <1>9 DEF SendByHand, Runs
  <2> DEFINE m == [procs[p] EXCEPT !.pc = "mark", !.day = Day(now)]
  <2>2. /\ m.pc = "mark" /\ m.copy = procs[p].copy /\ m.op = procs[p].op
        /\ m.day = Day(now)
    BY <1>a, Edits
  <2>3. BackedIn(m.copy) /\ m.op # "tick" /\ m.day \in byHand' /\ Goto(p, m)
    BY <1>c, <2>1, <2>2
  <2> HIDE DEF m
  <2> QED
    BY <2>1, <2>3, BackingGoto
<1>10. ASSUME NEW p \in Procs, MarkByHand(p)
      PROVE  Backing'
  <2> DEFINE s == [procs[p].copy EXCEPT !.reported = now]
  <2>1. procs[p].day \in byHand
    BY <1>10 DEF MarkByHand, Runs, At, Backing, HoldsBacked
  <2>2. s.reported = now /\ s \in Settings
    BY <1>a, CopyEdits, Values DEF TypeOK
  <2>3. /\ settings' = s /\ Goto(p, Idle) /\ UNCHANGED <<sent, byHand>>
        /\ late' = late \cup (IF procs[p].day = Day(now) THEN {} ELSE {now})
    BY <1>10 DEF MarkByHand, Save
  <2>4. Backed(s.reported) \/ s.reported \in late'
    BY <2>1, <2>2, <2>3 DEF Backed, Days
  <2> HIDE DEF s
  <2> QED
    BY <2>2, <2>3, <2>4, <1>g
<1>11. ASSUME NEW p \in Procs, SaveCommand(p)
      PROVE  Backing'
  <2> DEFINE s == [procs[p].copy EXCEPT !.choice.prefs = procs[p].prefs]
  <2>1. s.reported = procs[p].copy.reported /\ s \in Settings
    BY <1>a, CopyEdits, Values, Fields
  <2>2. s.reported # None => Backed(s.reported)
    BY <1>c, <2>1 DEF BackedIn
  <2>3. settings' = s /\ Goto(p, Idle) /\ UNCHANGED <<sent, byHand, late>>
    BY <1>11 DEF SaveCommand, Save, deliveries
  <2> HIDE DEF s
  <2> QED
    BY <2>1, <2>2, <2>3, <1>g
<1>12. ASSUME NEW p \in Procs, Cancelled(p)
      PROVE  Backing'
  BY <1>12, <1>f DEF Cancelled, deliveries
<1>13. ASSUME NEW p \in Procs, LoseAnswer(p)
      PROVE  Backing'
  BY <1>13, <1>f DEF LoseAnswer, Continue
<1>14. ASSUME NEW p \in Procs, Fail(p)
      PROVE  Backing'
  BY <1>14, <1>f DEF Fail, Continue, deliveries
<1>15. ASSUME NEW p \in Procs, Request(p)
      PROVE  Backing'
  <2>1. PICK op \in {"report", "command"}, x \in Prefs : Begin(p, op, x)
    BY <1>15, Reads DEF Request
  <2> DEFINE m == [Idle EXCEPT !.op = op, !.pc = "read", !.prefs = x]
  <2>2. m.pc = "read" /\ m.copy = Idle.copy
    BY Values DEF Proc
  <2>3. Goto(p, m) /\ UNCHANGED <<settings, sent, byHand, late>>
    BY <2>1 DEF Begin, deliveries
  <2> HIDE DEF m
  <2> QED
    BY <1>b, <2>2, <2>3, BackingGoto
<1>16. CASE UpdateSettings
  <2>1. PICK c \in Choices : settings' = Form(c)
    BY <1>16 DEF UpdateSettings, Save
  <2>2. UNCHANGED <<procs, sent, byHand, late>> /\ Row'.reported = None
    BY <1>16, <2>1 DEF UpdateSettings, deliveries, Row, Form, DefaultSettings
  <2> QED
    BY <2>2 DEF Backing, BackedIn, HoldsBacked, Backed, Days
<1>17. CASE Minute
  <2>1. CASE life = "running"
    <3> DEFINE l == [Idle EXCEPT !.op = "tick", !.pc = "read", !.at = now + 1]
    <3>1. PICK p \in Procs : Goto(p, l)
      BY <1>17, <2>1 DEF Minute
    <3>2. l.pc = "read" /\ l.copy = Idle.copy
      BY Values DEF Proc
    <3>3. UNCHANGED <<settings, sent, byHand, late>>
      BY <1>17 DEF Minute, deliveries
    <3> HIDE DEF l
    <3> QED
      BY <1>b, <3>1, <3>2, <3>3, BackingGoto
  <2>2. CASE life # "running"
    BY <1>17, <2>2 DEF Minute, deliveries, Backing, Row, BackedIn, HoldsBacked, Backed, Days
  <2> QED
    BY <2>1, <2>2
<1>18. CASE Signal
  BY <1>18 DEF Signal, Stop, deliveries, Backing, Row, BackedIn, HoldsBacked, Backed, Days
<1>19. CASE Crash
  <2>1. UNCHANGED <<settings, sent, byHand, late>> /\ \A q \in Procs : procs'[q] = Idle
    BY <1>19 DEF Crash, Stop, deliveries
  <2> QED
    BY <1>b, <2>1 DEF Backing, Row, BackedIn, HoldsBacked, Backed, Days
<1>20. CASE Start
  BY <1>20 DEF Start, deliveries, Backing, Row, BackedIn, HoldsBacked, Backed, Days
<1>21. CASE UNCHANGED vars
  BY <1>21 DEF vars, Backing, Row, BackedIn, HoldsBacked, Backed, Days
<1> QED
  BY <1>1, <1>2, <1>3, <1>4, <1>5, <1>6, <1>7, <1>8, <1>9, <1>10, <1>11, <1>12, <1>13,
         <1>14, <1>15, <1>16, <1>17, <1>18, <1>19, <1>20, <1>21 DEF Next, Step

\* Nothing says that a day's report was sent when none was, however many
\* goroutines save the row over each other: a mark was made of a delivery, and
\* copies only carry marks that were in the row.
THEOREM MarksBacked == Spec => []MarkBacked
<1>1. Init => Backing
  BY DEF Init, Backing, BackedIn, HoldsBacked, Row, Form, Idle, DefaultSettings
<1>2. TypeOK /\ Shape /\ Backing /\ [Next]_vars => Backing'
  BY BackingStep
<1>3. Backing => MarkBacked
  BY DEF Backing, BackedIn, Backed, MarkBacked, Row
<1> QED
  BY <1>1, <1>2, <1>3, ShapeInvariant, PTL DEF Spec

-----------------------------------------------------------------------------
(* A copy that is up to date says what the user asked for last.            *)

Current(p) == Held(p) /\ ~stale[p] => procs[p].copy.choice = chosen
Keeping == clobbered \/ (Row.choice = chosen /\ \A p \in Procs : Current(p))

\* A goroutine goes on with a current copy, or with one known to be out of date.
LEMMA KeepingGoto ==
    ASSUME TypeOK, Keeping, NEW p \in Procs, NEW l, NEW b \in BOOLEAN, Goto(p, l),
           stale' = [stale EXCEPT ![p] = b], UNCHANGED <<settings, chosen, clobbered>>,
           l.pc \in {"idle", "read"} \/ b \/ l.copy.choice = chosen \/ clobbered
    PROVE  Keeping'
<1>1. /\ procs'[p] = IF l.pc = "idle" THEN Idle ELSE l
      /\ \A q \in Procs \ {p} : procs'[q] = procs[q]
  BY Gone
<1>2. stale'[p] = b /\ \A q \in Procs \ {p} : stale'[q] = stale[q]
  BY DEF TypeOK
<1>3. CASE clobbered
  BY <1>3 DEF Keeping
<1>4. CASE ~clobbered
  <2>1. Row' = Row /\ Idle.pc = "idle"
    BY DEF Row, Idle
  <2>2. ASSUME NEW q \in Procs
        PROVE  Current(q)'
    <3>1. CASE q = p
      BY <1>1, <1>2, <1>4, <2>1, <3>1 DEF Current, Held
    <3>2. CASE q # p
      BY <1>1, <1>2, <1>4, <3>2 DEF Current, Held, Keeping
    <3> QED
      BY <3>1, <3>2
  <2> QED
    BY <1>4, <2>1, <2>2 DEF Keeping
<1> QED
  BY <1>3, <1>4

\* A goroutine goes on with the copy it had.
LEMMA KeepingContinue ==
    ASSUME TypeOK, Shape, Keeping, NEW p \in Procs, NEW l, Continue(p, l), Held(p),
           UNCHANGED <<settings, chosen, clobbered>>,
           l.pc = "idle" \/ l.copy = procs[p].copy
    PROVE  Keeping'
<1> DEFINE b == l.pc # "idle" /\ stale[p]
<1>1. stale' = [stale EXCEPT ![p] = b] /\ Goto(p, l) /\ b \in BOOLEAN
  BY DEF Continue, TypeOK
<1>2. l.pc \in {"idle", "read"} \/ b \/ l.copy.choice = chosen \/ clobbered
  BY DEF Keeping, Current
<1> QED
  BY <1>1, <1>2, KeepingGoto

LEMMA KeepingStay ==
    ASSUME TypeOK, Keeping, NEW p \in Procs, NEW l, Goto(p, l), UNCHANGED stale,
           UNCHANGED <<settings, chosen, clobbered>>,
           l.pc \in {"idle", "read"} \/ (Held(p) /\ l.copy = procs[p].copy)
    PROVE  Keeping'
<1>1. stale[p] \in BOOLEAN /\ stale' = [stale EXCEPT ![p] = stale[p]]
  BY DEF TypeOK
<1>2. l.pc \in {"idle", "read"} \/ stale[p] \/ l.copy.choice = chosen \/ clobbered
  BY DEF Keeping, Current
<1> QED
  BY <1>1, <1>2, KeepingGoto

\* A save puts every other copy out of date; made from a copy that is up to
\* date, it says what was asked for.
LEMMA KeepingSave ==
    ASSUME TypeOK, Keeping, NEW p \in Procs, NEW l, NEW s \in Settings, NEW asked,
           Save({p}, s, asked), Goto(p, l), Held(p),
           l.pc = "idle" \/ l.copy.choice = s.choice,
           s.choice = asked \/ procs[p].copy.choice # chosen
    PROVE  Keeping'
<1>1. /\ procs'[p] = IF l.pc = "idle" THEN Idle ELSE l
      /\ \A q \in Procs \ {p} : procs'[q] = procs[q]
  BY Gone
<1>2. /\ settings' = s /\ chosen' = asked
      /\ clobbered' = (clobbered \/ (s.choice # asked /\ stale[p]))
      /\ stale' = [q \in Procs |-> q \notin {p} /\ procs[q].pc \notin {"idle", "read"}]
  BY DEF Save
<1>3. CASE clobbered'
  BY <1>3 DEF Keeping
<1>4. CASE ~clobbered'
  <2>1. s.choice = asked
    BY <1>2, <1>4 DEF Keeping, Current
  <2>2. Row' = s
    BY <1>2, RowAssumption DEF Row
  <2>3. ASSUME NEW q \in Procs
        PROVE  Current(q)'
    <3>1. CASE q = p
      BY <1>1, <1>2, <2>1, <3>1 DEF Current, Held, Idle
    <3>2. CASE q # p
      BY <1>1, <1>2, <3>2 DEF Current, Held
    <3> QED
      BY <3>1, <3>2
  <2> QED
    BY <1>2, <2>1, <2>2, <2>3 DEF Keeping
<1> QED
  BY <1>3, <1>4

\* Every step keeps the current copies current.
LEMMA KeepingStep ==
    ASSUME TypeOK, Shape, Keeping, [Next]_vars
    PROVE  Keeping'
<1>a. \A q \in Procs : procs[q] \in Proc /\ procs[q].copy \in Settings
  BY Fields
<1>b. Idle.pc = "idle"
  BY DEF Idle
<1>c. ASSUME NEW p \in Procs, NEW x, Continue(p, [procs[p] EXCEPT !.pc = x]), Held(p),
             UNCHANGED <<settings, chosen, clobbered>>
      PROVE  Keeping'
  <2> DEFINE m == [procs[p] EXCEPT !.pc = x]
  <2>1. m.copy = procs[p].copy /\ Continue(p, m)
    BY <1>a, <1>c, Edits
  <2> HIDE DEF m
  <2> QED
    BY <1>c, <2>1, KeepingContinue
<1>d. ASSUME NEW p \in Procs, Continue(p, Idle), Held(p),
             UNCHANGED <<settings, chosen, clobbered>>
      PROVE  Keeping'
  BY <1>b, <1>d, KeepingContinue
<1>e. ASSUME NEW p \in Procs, NEW x, Goto(p, [procs[p] EXCEPT !.pc = x]), Held(p),
             UNCHANGED <<settings, chosen, stale, clobbered>>
      PROVE  Keeping'
  <2> DEFINE m == [procs[p] EXCEPT !.pc = x]
  <2>1. m.copy = procs[p].copy /\ Goto(p, m)
    BY <1>a, <1>e, Edits
  <2> HIDE DEF m
  <2> QED
    BY <1>e, <2>1, KeepingStay
<1>1. ASSUME NEW p \in Procs, GetSettings(p)
      PROVE  Keeping'
  <2>1. PICK fails \in BOOLEAN :
            LET l == [procs[p] EXCEPT !.copy = IF fails THEN DefaultSettings ELSE Row]
            IN  /\ Goto(p, [l EXCEPT !.pc = Onward(l)])
                /\ stale' = [stale EXCEPT ![p] = fails /\ Onward(l) # "idle"]
    BY <1>1 DEF GetSettings
  <2> DEFINE c == IF fails THEN DefaultSettings ELSE Row
             l == [procs[p] EXCEPT !.copy = c]
             m == [l EXCEPT !.pc = Onward(l)]
             b == fails /\ Onward(l) # "idle"
  <2>2. m.pc = Onward(l) /\ m.copy = c
    BY <1>a, Edits
  <2>3. m.pc = "idle" \/ b \/ m.copy.choice = chosen \/ clobbered
    BY <2>2 DEF Keeping
  <2>4. b \in BOOLEAN
    OBVIOUS
  <2>5. UNCHANGED <<settings, chosen, clobbered>>
    BY <1>1 DEF GetSettings
  <2>6. Goto(p, m) /\ stale' = [stale EXCEPT ![p] = b]
    BY <2>1
  <2> HIDE DEF m, b
  <2> QED
    BY <2>3, <2>4, <2>5, <2>6, KeepingGoto
<1>2. ASSUME NEW p \in Procs, DiscoverSourceCandidates(p)
      PROVE  Keeping'
  BY <1>2, <1>e DEF DiscoverSourceCandidates, Held, At
<1>3. ASSUME NEW p \in Procs, SaveDiscovery(p)
      PROVE  Keeping'
  <2> DEFINE l == [procs[p] EXCEPT !.copy.discovered = procs[p].at]
             m == [l EXCEPT !.pc = Report(l)]
  <2>1. Goto(p, m) /\ Save({p}, l.copy, chosen) /\ Held(p)
    BY <1>3 DEF SaveDiscovery, Held, At
  <2>2. m.pc = Report(l) /\ m.copy = [procs[p].copy EXCEPT !.discovered = procs[p].at]
    BY <1>a, Edits
  <2>3. l.copy = [procs[p].copy EXCEPT !.discovered = procs[p].at]
    BY <1>a DEF Proc
  <2>4. [procs[p].copy EXCEPT !.discovered = procs[p].at].choice = procs[p].copy.choice
    BY <1>a, CopyEdits
  <2>5. l.copy \in Settings
    BY <1>a, MovedSound DEF Proc
  <2>6. m.copy = l.copy /\ l.copy.choice = procs[p].copy.choice
    BY <2>2, <2>3, <2>4
  <2> HIDE DEF l, m
  <2> QED
    BY <2>1, <2>5, <2>6, KeepingSave
<1>4. ASSUME NEW p \in Procs, LookForPlan(p)
      PROVE  Keeping'
  BY <1>4, <1>c DEF LookForPlan, Held, At
<1>5. ASSUME NEW p \in Procs, CreateAgentPlan(p)
      PROVE  Keeping'
  BY <1>5, <1>c, <1>d DEF CreateAgentPlan, Held, At
<1>6. ASSUME NEW p \in Procs, SendFeishuWebhook(p)
      PROVE  Keeping'
  BY <1>6, <1>e DEF SendFeishuWebhook, Held, At, Runs
<1>7. ASSUME NEW p \in Procs, MarkReport(p)
      PROVE  Keeping'
  <2> DEFINE s == [procs[p].copy EXCEPT !.reported = procs[p].at]
  <2>1. s.choice = procs[p].copy.choice
    BY <1>a, CopyEdits
  <2>2. s \in Settings
    BY <1>a, Values, Fields
  <2>3. Save({p}, s, chosen) /\ Goto(p, Idle) /\ Held(p)
    BY <1>7 DEF MarkReport, Runs, At, Held
  <2> HIDE DEF s
  <2> QED
    BY <1>b, <2>1, <2>2, <2>3, KeepingSave
<1>8. ASSUME NEW p \in Procs, FindWebhook(p)
      PROVE  Keeping'
  BY <1>8, <1>c DEF FindWebhook, Held, At
<1>9. ASSUME NEW p \in Procs, SendByHand(p)
      PROVE  Keeping'
  <2> DEFINE m == [procs[p] EXCEPT !.pc = "mark", !.day = Day(now)]
  <2>1. m.copy = procs[p].copy
    BY <1>a, Edits
  <2>2. Goto(p, m) /\ Held(p) /\ UNCHANGED <<settings, chosen, stale, clobbered>>
    BY <1>9 DEF SendByHand, Runs, At, Held
  <2> HIDE DEF m
  <2> QED
    BY <2>1, <2>2, KeepingStay
<1>10. ASSUME NEW p \in Procs, MarkByHand(p)
      PROVE  Keeping'
  <2> DEFINE s == [procs[p].copy EXCEPT !.reported = now]
  <2>1. s.choice = procs[p].copy.choice
    BY <1>a, CopyEdits
  <2>2. s \in Settings
    BY <1>a, Values DEF TypeOK
  <2>3. Save({p}, s, chosen) /\ Goto(p, Idle) /\ Held(p)
    BY <1>10 DEF MarkByHand, Runs, At, Held
  <2> HIDE DEF s
  <2> QED
    BY <1>b, <2>1, <2>2, <2>3, KeepingSave
<1>11. ASSUME NEW p \in Procs, SaveCommand(p)
      PROVE  Keeping'
  <2> DEFINE s == [procs[p].copy EXCEPT !.choice.prefs = procs[p].prefs]
             asked == [chosen EXCEPT !.prefs = procs[p].prefs]
  <2>1. s.choice = [procs[p].copy.choice EXCEPT !.prefs = procs[p].prefs]
    BY <1>a, CopyEdits
  <2>2. s \in Settings
    BY <1>a, Values, Fields
  <2>3. Save({p}, s, asked) /\ Goto(p, Idle) /\ Held(p)
    BY <1>11 DEF SaveCommand, At, Held
  <2>4. s.choice = asked \/ procs[p].copy.choice # chosen
    BY <2>1
  <2> HIDE DEF s, asked
  <2> QED
    BY <1>b, <2>2, <2>3, <2>4, KeepingSave
<1>12. ASSUME NEW p \in Procs, Cancelled(p)
      PROVE  Keeping'
  BY <1>12, <1>b, KeepingStay DEF Cancelled
<1>13. ASSUME NEW p \in Procs, LoseAnswer(p)
      PROVE  Keeping'
  BY <1>13, <1>d DEF LoseAnswer, Held, At, Runs
<1>14. ASSUME NEW p \in Procs, Fail(p)
      PROVE  Keeping'
  BY <1>14, <1>d DEF Fail, Held
<1>15. ASSUME NEW p \in Procs, Request(p)
      PROVE  Keeping'
  <2>1. PICK op \in {"report", "command"}, x \in Prefs : Begin(p, op, x)
    BY <1>15, Reads DEF Request
  <2> DEFINE m == [Idle EXCEPT !.op = op, !.pc = "read", !.prefs = x]
  <2>2. m.pc = "read"
    BY Values DEF Proc
  <2>3. Goto(p, m) /\ UNCHANGED <<settings, chosen, stale, clobbered>>
    BY <2>1 DEF Begin
  <2> HIDE DEF m
  <2> QED
    BY <2>2, <2>3, KeepingStay
<1>16. CASE UpdateSettings
  <2>1. PICK c \in Choices : Save({}, Form(c), c)
    BY <1>16 DEF UpdateSettings
  <2>2. Form(c) \in Settings /\ Form(c).choice = c
    BY Values DEF Form
  <2>3. Row' = Form(c) /\ chosen' = c
    BY <2>1, <2>2, RowAssumption DEF Save, Row
  <2>4. procs' = procs /\ \A q \in Procs : stale'[q] = (procs[q].pc \notin {"idle", "read"})
    BY <1>16, <2>1 DEF UpdateSettings, Save
  <2> QED
    BY <2>2, <2>3, <2>4 DEF Keeping, Current, Held
<1>17. CASE Minute
  <2>1. CASE life = "running"
    <3> DEFINE l == [Idle EXCEPT !.op = "tick", !.pc = "read", !.at = now + 1]
    <3>1. PICK p \in Procs : Goto(p, l)
      BY <1>17, <2>1 DEF Minute
    <3>2. l.pc = "read"
      BY Values DEF Proc
    <3>3. UNCHANGED <<settings, chosen, stale, clobbered>>
      BY <1>17 DEF Minute
    <3> HIDE DEF l
    <3> QED
      BY <3>1, <3>2, <3>3, KeepingStay
  <2>2. CASE life # "running"
    BY <1>17, <2>2 DEF Minute, Keeping, Row, Current, Held
  <2> QED
    BY <2>1, <2>2
<1>18. CASE Signal
  BY <1>18 DEF Signal, Stop, Keeping, Row, Current, Held
<1>19. CASE Crash
  <2>1. UNCHANGED <<settings, chosen, clobbered>> /\ \A q \in Procs : procs'[q] = Idle
    BY <1>19 DEF Crash, Stop
  <2> QED
    BY <1>b, <2>1 DEF Keeping, Row, Current, Held
<1>20. CASE Start
  BY <1>20 DEF Start, Keeping, Row, Current, Held
<1>21. CASE UNCHANGED vars
  BY <1>21 DEF vars, Keeping, Row, Current, Held
<1> QED
  BY <1>1, <1>2, <1>3, <1>4, <1>5, <1>6, <1>7, <1>8, <1>9, <1>10, <1>11, <1>12, <1>13,
         <1>14, <1>15, <1>16, <1>17, <1>18, <1>19, <1>20, <1>21 DEF Next, Step

\* As long as no copy that was out of date was saved over a choice, the row says
\* what the user asked for last, though every tick, report and command writes
\* the whole row back from the copy it read.
THEOREM ChoicesKept == Spec => []PrefsKept
<1>1. Init => Keeping
  BY DEF Init, Keeping, Current, Held, Idle
<1>2. TypeOK /\ Shape /\ Keeping /\ [Next]_vars => Keeping'
  BY KeepingStep
<1>3. Keeping => PrefsKept
  BY DEF Keeping, PrefsKept
<1> QED
  BY <1>1, <1>2, <1>3, ShapeInvariant, PTL DEF Spec

-----------------------------------------------------------------------------
(* A second report of a day has a cause.                                   *)

\* A delivered report is marked, or about to be, or its mark was lost.
Remembered(s) ==
    \/ Day(s) \in lapsed \/ Marked(Row, Day(s))
    \/ \E p \in Procs : Runs(p, "tick", "mark") /\ procs[p].at = s
\* Two reports of a day that need no other cause.
Caused(s, t) == Day(s) \in lapsed \/ s \in overlaps \/ t \in overlaps
ToReport == {"plan", "insert", "send"}
Ahead == {"discover", "discovered"} \cup ToReport
\* A tick that may come to send a report knows of the day's report before.
Knows(l) ==
    /\ l.op = "tick" /\ l.pc \in ToReport =>
        ~Marked(l.copy, Day(l.at)) /\ l.copy.choice.report
    /\ l.op = "tick" /\ l.pc \in Ahead =>
        \A s \in sent : s # l.at /\ Day(s) = Day(l.at) =>
            Caused(s, l.at) \/ Marked(l.copy, Day(l.at)) \/ ~l.copy.choice.report
RepeatInv ==
    /\ \A s \in sent : Remembered(s)
    /\ \A p \in Procs : Knows(procs[p])
    /\ RepeatHasCause

\* What a step may do to deliveries and marks.
ReportMoves ==
    /\ lapsed \subseteq lapsed'
    /\ \A d : Marked(Row, d) => Marked(Row', d) \/ d \in lapsed'
    /\ \A p \in Procs : Runs(p, "tick", "mark") =>
        \/ procs'[p] = procs[p]
        \/ Day(procs[p].at) \in lapsed' \/ Marked(Row', Day(procs[p].at))
    /\ \/ sent' = sent
       \/ \E p \in Procs :
            /\ Runs(p, "tick", "send") /\ sent' = sent \cup {procs[p].at}
            /\ \/ Day(procs[p].at) \in lapsed'
               \/ /\ procs'[p].op = "tick" /\ procs'[p].pc = "mark"
                  /\ procs'[p].at = procs[p].at

\* What a step may do to a tick on its way to a report: it goes on with the mark
\* and the choice it holds, or it has read the row or the defaults.
Follows(l, m) ==
    m.op = "tick" /\ m.pc \in Ahead =>
        /\ l.op = "tick" /\ m.at = l.at
        /\ \/ l.pc \in Ahead /\ m.copy.reported = l.copy.reported
              /\ m.copy.choice = l.copy.choice
           \/ l.pc = "read" /\ m.copy \in {Row, DefaultSettings}
        /\ m.pc \in ToReport => l.pc \in ToReport \/ ShouldSendDutyReport(m.copy, m.at)
AllFollow == \A q \in Procs : Follows(procs[q], procs'[q])

LEMMA ReportGoto ==
    ASSUME TypeOK, NEW p \in Procs, NEW l, Goto(p, l), ~Runs(p, "tick", "mark"),
           UNCHANGED <<settings, sent>>, lapsed \subseteq lapsed'
    PROVE  ReportMoves
<1>1. \A q \in Procs \ {p} : procs'[q] = procs[q]
  BY Gone
<1>2. Row' = Row
  BY DEF Row
<1> QED
  BY <1>1, <1>2 DEF ReportMoves

LEMMA ReportStill ==
    ASSUME UNCHANGED <<settings, sent, procs, lapsed>>
    PROVE  ReportMoves
<1>1. Row' = Row
  BY DEF Row
<1> QED
  BY <1>1 DEF ReportMoves

\* A save loses a mark on the record.
LEMMA ReportSave ==
    ASSUME TypeOK, NEW by, NEW s \in Settings, NEW asked, Save(by, s, asked)
    PROVE  /\ lapsed \subseteq lapsed' /\ Row' = s
           /\ \A d : Marked(Row, d) => Marked(Row', d) \/ d \in lapsed'
<1>1. /\ settings' = s
      /\ lapsed' = lapsed \cup {d \in {Day(t) : t \in {Row.reported} \ {None}} : ~Marked(s, d)}
  BY DEF Save
<1>2. Row' = s
  BY <1>1, RowAssumption DEF Row
<1> QED
  BY <1>1, <1>2 DEF Marked

\* A delivery is remembered until its mark is lost on the record.
LEMMA ReportStep ==
    ASSUME TypeOK, Shape, [Next]_vars
    PROVE  ReportMoves
<1>a. \A q \in Procs : procs[q] \in Proc /\ procs[q].copy \in Settings
  BY Fields
<1>1. ASSUME NEW p \in Procs, GetSettings(p)
      PROVE  ReportMoves
  <2>1. PICK l : Goto(p, l)
    BY <1>1 DEF GetSettings
  <2> QED
    BY <1>1, <2>1, ReportGoto DEF GetSettings, Runs, At, deliveries
<1>2. ASSUME NEW p \in Procs, DiscoverSourceCandidates(p)
      PROVE  ReportMoves
  BY <1>2, ReportGoto DEF DiscoverSourceCandidates, Runs, At, deliveries
<1>3. ASSUME NEW p \in Procs, SaveDiscovery(p)
      PROVE  ReportMoves
  <2> DEFINE l == [procs[p] EXCEPT !.copy.discovered = procs[p].at]
  <2>1. /\ Goto(p, [l EXCEPT !.pc = Report(l)]) /\ Save({p}, l.copy, chosen)
        /\ ~Runs(p, "tick", "mark") /\ sent' = sent
    BY <1>3 DEF SaveDiscovery, Runs, At, deliveries
  <2>2. l.copy \in Settings
    BY <1>a, MovedSound DEF Proc
  <2>3. \A q \in Procs \ {p} : procs'[q] = procs[q]
    BY <2>1, Gone
  <2> HIDE DEF l
  <2> QED
    BY <2>1, <2>2, <2>3, ReportSave DEF ReportMoves
<1>4. ASSUME NEW p \in Procs, LookForPlan(p)
      PROVE  ReportMoves
  BY <1>4, ReportGoto DEF LookForPlan, Continue, Runs, At, deliveries
<1>5. ASSUME NEW p \in Procs, CreateAgentPlan(p)
      PROVE  ReportMoves
  BY <1>5, ReportGoto DEF CreateAgentPlan, Continue, Runs, At, deliveries
<1>6. ASSUME NEW p \in Procs, SendFeishuWebhook(p)
      PROVE  ReportMoves
  <2> DEFINE m == [procs[p] EXCEPT !.pc = "mark"]
  <2>1. /\ Goto(p, m) /\ Runs(p, "tick", "send") /\ sent' = sent \cup {procs[p].at}
        /\ UNCHANGED <<settings, lapsed>>
    BY <1>6 DEF SendFeishuWebhook
  <2>2. m.pc = "mark" /\ m.op = procs[p].op /\ m.at = procs[p].at
    BY <1>a, Edits
  <2> HIDE DEF m
  <2>3. procs'[p] = m /\ \A q \in Procs \ {p} : procs'[q] = procs[q]
    BY <2>1, <2>2, Gone
  <2>4. Row' = Row
    BY <2>1 DEF Row
  <2>5. procs'[p].op = "tick" /\ procs'[p].pc = "mark" /\ procs'[p].at = procs[p].at
    BY <2>1, <2>2, <2>3 DEF Runs
  <2> QED
    BY <2>1, <2>3, <2>4, <2>5 DEF ReportMoves, Runs, At
<1>7. ASSUME NEW p \in Procs, MarkReport(p)
      PROVE  ReportMoves
  <2> DEFINE s == [procs[p].copy EXCEPT !.reported = procs[p].at]
  <2>1. s.reported = procs[p].at
    BY <1>a, CopyEdits
  <2>2. s \in Settings
    BY <1>a, Values, Fields
  <2>3. Save({p}, s, chosen) /\ Goto(p, Idle) /\ sent' = sent
    BY <1>7 DEF MarkReport, deliveries
  <2> HIDE DEF s
  <2>4. Row' = s /\ procs[p].at # None
    BY <2>2, <2>3, ReportSave, Fields, TickAssumption
  <2>5. Marked(Row', Day(procs[p].at))
    BY <2>1, <2>4 DEF Marked
  <2>6. \A q \in Procs \ {p} : procs'[q] = procs[q]
    BY <2>3, Gone
  <2> QED
    BY <2>2, <2>3, <2>5, <2>6, ReportSave DEF ReportMoves
<1>8. ASSUME NEW p \in Procs, FindWebhook(p)
      PROVE  ReportMoves
  BY <1>8, ReportGoto DEF FindWebhook, Continue, Runs, At, deliveries
<1>9. ASSUME NEW p \in Procs, SendByHand(p)
      PROVE  ReportMoves
  BY <1>9, ReportGoto DEF SendByHand, Runs, At
<1>10. ASSUME NEW p \in Procs, MarkByHand(p)
      PROVE  ReportMoves
  <2> DEFINE s == [procs[p].copy EXCEPT !.reported = now]
  <2>1. s \in Settings
    BY <1>a, Values DEF TypeOK
  <2>2. /\ Save({p}, s, chosen) /\ Goto(p, Idle) /\ ~Runs(p, "tick", "mark")
        /\ sent' = sent
    BY <1>10 DEF MarkByHand, Runs
  <2>3. \A q \in Procs \ {p} : procs'[q] = procs[q]
    BY <2>2, Gone
  <2> HIDE DEF s
  <2> QED
    BY <2>1, <2>2, <2>3, ReportSave DEF ReportMoves
<1>11. ASSUME NEW p \in Procs, SaveCommand(p)
      PROVE  ReportMoves
  <2> DEFINE s == [procs[p].copy EXCEPT !.choice.prefs = procs[p].prefs]
  <2>1. s \in Settings
    BY <1>a, Values, Fields
  <2>2. /\ Save({p}, s, [chosen EXCEPT !.prefs = procs[p].prefs]) /\ Goto(p, Idle)
        /\ ~Runs(p, "tick", "mark") /\ sent' = sent
    BY <1>11 DEF SaveCommand, Runs, At, deliveries
  <2>3. \A q \in Procs \ {p} : procs'[q] = procs[q]
    BY <2>2, Gone
  <2> HIDE DEF s
  <2> QED
    BY <2>1, <2>2, <2>3, ReportSave DEF ReportMoves
<1>12. ASSUME NEW p \in Procs, Cancelled(p)
      PROVE  ReportMoves
  BY <1>12, ReportGoto DEF Cancelled, Runs, At, deliveries
<1>13. ASSUME NEW p \in Procs, LoseAnswer(p)
      PROVE  ReportMoves
  <2>1. /\ Goto(p, Idle) /\ Runs(p, "tick", "send") /\ sent' = sent \cup {procs[p].at}
        /\ settings' = settings /\ lapsed' = lapsed \cup {Day(procs[p].at)}
    BY <1>13 DEF LoseAnswer, Continue
  <2>2. Row' = Row /\ \A q \in Procs \ {p} : procs'[q] = procs[q]
    BY <2>1, Gone DEF Row
  <2> QED
    BY <2>1, <2>2 DEF ReportMoves, Runs, At
<1>14. ASSUME NEW p \in Procs, Fail(p)
      PROVE  ReportMoves
  <2>1. /\ Goto(p, Idle) /\ sent' = sent /\ settings' = settings
        /\ lapsed' = lapsed \cup Unmarked({p})
    BY <1>14 DEF Fail, Continue, deliveries
  <2>2. Row' = Row /\ \A q \in Procs \ {p} : procs'[q] = procs[q]
    BY <2>1, Gone DEF Row
  <2>3. Runs(p, "tick", "mark") => Day(procs[p].at) \in Unmarked({p})
    BY DEF Runs, Unmarked, Ticks
  <2> QED
    BY <2>1, <2>2, <2>3 DEF ReportMoves
<1>15. ASSUME NEW p \in Procs, Request(p)
      PROVE  ReportMoves
  BY <1>15, ReportGoto DEF Request, Begin, Runs, At, deliveries
<1>16. CASE UpdateSettings
  <2>1. PICK c \in Choices : Save({}, Form(c), c)
    BY <1>16 DEF UpdateSettings
  <2>2. Form(c) \in Settings /\ UNCHANGED <<procs, sent>>
    BY <1>16, Values DEF UpdateSettings, deliveries
  <2> QED
    BY <2>1, <2>2, ReportSave DEF ReportMoves
<1>17. CASE Minute
  <2>1. CASE life = "running"
    <3>1. PICK p \in Procs : \E l : Goto(p, l) /\ At(p, "idle")
      BY <1>17, <2>1 DEF Minute
    <3> QED
      BY <1>17, <3>1, ReportGoto DEF Minute, Runs, At, deliveries
  <2>2. CASE life # "running"
    BY <1>17, <2>2, ReportStill DEF Minute, deliveries
  <2> QED
    BY <2>1, <2>2
<1>18. CASE Signal
  BY <1>18, ReportStill DEF Signal, Stop, deliveries
<1>19. CASE Crash
  <2>1. /\ sent' = sent /\ settings' = settings /\ lapsed' = lapsed \cup Unmarked(Procs)
    BY <1>19 DEF Crash, Stop, deliveries
  <2>2. Row' = Row
    BY <2>1 DEF Row
  <2>3. \A p \in Procs : Runs(p, "tick", "mark") => Day(procs[p].at) \in Unmarked(Procs)
    BY DEF Runs, Unmarked, Ticks
  <2> QED
    BY <2>1, <2>2, <2>3 DEF ReportMoves
<1>20. CASE Start
  BY <1>20, ReportStill DEF Start, deliveries
<1>21. CASE UNCHANGED vars
  BY <1>21, ReportStill DEF vars
<1> QED
  BY <1>1, <1>2, <1>3, <1>4, <1>5, <1>6, <1>7, <1>8, <1>9, <1>10, <1>11, <1>12, <1>13,
         <1>14, <1>15, <1>16, <1>17, <1>18, <1>19, <1>20, <1>21 DEF Next, Step

LEMMA FollowGoto ==
    ASSUME TypeOK, NEW p \in Procs, NEW l, Goto(p, l), Follows(procs[p], l)
    PROVE  AllFollow
<1>1. /\ procs'[p] = IF l.pc = "idle" THEN Idle ELSE l
      /\ \A q \in Procs \ {p} : procs'[q] = procs[q]
  BY Gone
<1>2. \A q \in Procs : Follows(procs[q], procs[q]) /\ Follows(procs[q], Idle)
  BY DEF Follows, Idle
<1> QED
  BY <1>1, <1>2 DEF AllFollow

LEMMA FollowStill ==
    ASSUME procs' = procs
    PROVE  AllFollow
  BY DEF AllFollow, Follows

\* A tick comes to a report only by way of the settings it has read.
LEMMA FollowStep ==
    ASSUME TypeOK, Shape, [Next]_vars
    PROVE  AllFollow
<1>a. \A q \in Procs : procs[q] \in Proc /\ procs[q].copy \in Settings
  BY Fields
<1>b. Idle.pc = "idle" /\ \A q \in Procs : Follows(procs[q], Idle)
  BY DEF Idle, Follows
<1>c. ASSUME NEW p \in Procs, NEW x, Goto(p, [procs[p] EXCEPT !.pc = x]),
             procs[p].op = "tick" /\ x \in Ahead => procs[p].pc \in Ahead,
             x \in ToReport => procs[p].pc \in ToReport
      PROVE  AllFollow
  <2> DEFINE m == [procs[p] EXCEPT !.pc = x]
  <2>1. m.copy = procs[p].copy /\ m.op = procs[p].op /\ m.pc = x /\ m.at = procs[p].at
    BY <1>a, Edits
  <2>2. Follows(procs[p], m) /\ Goto(p, m)
    BY <1>c, <2>1 DEF Follows
  <2> HIDE DEF m
  <2> QED
    BY <2>2, FollowGoto
<1>1. ASSUME NEW p \in Procs, GetSettings(p)
      PROVE  AllFollow
  <2>1. PICK fails \in BOOLEAN :
            LET l == [procs[p] EXCEPT !.copy = IF fails THEN DefaultSettings ELSE Row]
            IN  Goto(p, [l EXCEPT !.pc = Onward(l)])
    BY <1>1 DEF GetSettings
  <2> DEFINE c == IF fails THEN DefaultSettings ELSE Row
             l == [procs[p] EXCEPT !.copy = c]
             m == [l EXCEPT !.pc = Onward(l)]
  <2>2. /\ m.pc = Onward(l) /\ m.copy = c /\ m.op = procs[p].op /\ m.at = procs[p].at
        /\ l.op = procs[p].op /\ l.copy = c /\ l.at = procs[p].at
    BY <1>a, Edits DEF Proc
  <2>3. procs[p].pc = "read" /\ c \in {Row, DefaultSettings}
    BY <1>1 DEF GetSettings, At
  <2>4. m.op = "tick" /\ m.pc \in ToReport => ShouldSendDutyReport(m.copy, m.at)
    BY <2>2 DEF Onward, Discovery, Report, ToReport
  <2>5. Follows(procs[p], m)
    BY <2>2, <2>3, <2>4 DEF Follows
  <2> HIDE DEF m
  <2> QED
    BY <2>1, <2>5, FollowGoto DEF m
<1>2. ASSUME NEW p \in Procs, DiscoverSourceCandidates(p)
      PROVE  AllFollow
  BY <1>2, <1>c DEF DiscoverSourceCandidates, At, Ahead, ToReport
<1>3. ASSUME NEW p \in Procs, SaveDiscovery(p)
      PROVE  AllFollow
  <2> DEFINE l == [procs[p] EXCEPT !.copy.discovered = procs[p].at]
             m == [l EXCEPT !.pc = Report(l)]
  <2>1. Goto(p, m) /\ procs[p].pc = "discovered"
    BY <1>3 DEF SaveDiscovery, At
  <2>2. /\ m.pc = Report(l) /\ m.op = procs[p].op /\ m.at = procs[p].at
        /\ m.copy = [procs[p].copy EXCEPT !.discovered = procs[p].at]
    BY <1>a, Edits
  <2>3. l.copy = m.copy /\ l.at = procs[p].at
    BY <1>a, <2>2 DEF Proc
  <2>4. /\ m.copy.reported = procs[p].copy.reported
        /\ m.copy.choice = procs[p].copy.choice
    <3>1. /\ [procs[p].copy EXCEPT !.discovered = procs[p].at].reported =
                procs[p].copy.reported
          /\ [procs[p].copy EXCEPT !.discovered = procs[p].at].choice =
                procs[p].copy.choice
      BY <1>a, CopyEdits
    <3> QED
      BY <2>2, <3>1
  <2>5. m.pc \in ToReport => ShouldSendDutyReport(m.copy, m.at)
    BY <2>2, <2>3 DEF Report, ToReport
  <2>6. Follows(procs[p], m)
    BY <2>1, <2>2, <2>4, <2>5 DEF Follows, Ahead
  <2> HIDE DEF m
  <2> QED
    BY <2>1, <2>6, FollowGoto
<1>4. ASSUME NEW p \in Procs, LookForPlan(p)
      PROVE  AllFollow
  BY <1>4, <1>c DEF LookForPlan, Continue, At, Ahead, ToReport
<1>5. ASSUME NEW p \in Procs, CreateAgentPlan(p)
      PROVE  AllFollow
  BY <1>5, <1>b, <1>c, FollowGoto DEF CreateAgentPlan, Continue, At, Ahead, ToReport
<1>6. ASSUME NEW p \in Procs, SendFeishuWebhook(p)
      PROVE  AllFollow
  BY <1>6, <1>c DEF SendFeishuWebhook, Ahead, ToReport
<1>7. ASSUME NEW p \in Procs, MarkReport(p)
      PROVE  AllFollow
  BY <1>7, <1>b, FollowGoto DEF MarkReport
<1>8. ASSUME NEW p \in Procs, FindWebhook(p)
      PROVE  AllFollow
  <2>1. PICK x \in {"send", "idle"} : Goto(p, [procs[p] EXCEPT !.pc = x])
    BY <1>8 DEF FindWebhook, Continue
  <2> DEFINE m == [procs[p] EXCEPT !.pc = x]
  <2>2. m.op = procs[p].op /\ procs[p].op = "report"
    BY <1>8, <1>a, Edits DEF FindWebhook, At, Shape, ShapeOf
  <2>3. Follows(procs[p], m) /\ Goto(p, m)
    BY <2>1, <2>2 DEF Follows
  <2> HIDE DEF m
  <2> QED
    BY <2>3, FollowGoto
<1>9. ASSUME NEW p \in Procs, SendByHand(p)
      PROVE  AllFollow
  <2> DEFINE m == [procs[p] EXCEPT !.pc = "mark", !.day = Day(now)]
  <2>1. m.pc = "mark" /\ Goto(p, m)
    BY <1>9, <1>a, Edits DEF SendByHand
  <2>2. Follows(procs[p], m)
    BY <2>1 DEF Follows, Ahead, ToReport
  <2> HIDE DEF m
  <2> QED
    BY <2>1, <2>2, FollowGoto
<1>10. ASSUME NEW p \in Procs, MarkByHand(p)
      PROVE  AllFollow
  BY <1>10, <1>b, FollowGoto DEF MarkByHand
<1>11. ASSUME NEW p \in Procs, SaveCommand(p)
      PROVE  AllFollow
  BY <1>11, <1>b, FollowGoto DEF SaveCommand
<1>12. ASSUME NEW p \in Procs, Cancelled(p)
      PROVE  AllFollow
  BY <1>12, <1>b, FollowGoto DEF Cancelled
<1>13. ASSUME NEW p \in Procs, LoseAnswer(p)
      PROVE  AllFollow
  BY <1>13, <1>b, FollowGoto DEF LoseAnswer, Continue
<1>14. ASSUME NEW p \in Procs, Fail(p)
      PROVE  AllFollow
  BY <1>14, <1>b, FollowGoto DEF Fail, Continue
<1>15. ASSUME NEW p \in Procs, Request(p)
      PROVE  AllFollow
  <2>1. PICK op \in {"report", "command"}, x \in Prefs : Begin(p, op, x)
    BY <1>15, Reads DEF Request
  <2> DEFINE m == [Idle EXCEPT !.op = op, !.pc = "read", !.prefs = x]
  <2>2. m.pc = "read" /\ Goto(p, m)
    BY <2>1, Values DEF Proc, Begin
  <2>3. Follows(procs[p], m)
    BY <2>2 DEF Follows, Ahead, ToReport
  <2> HIDE DEF m
  <2> QED
    BY <2>2, <2>3, FollowGoto
<1>16. CASE UpdateSettings
  BY <1>16, FollowStill DEF UpdateSettings
<1>17. CASE Minute
  <2>1. CASE life = "running"
    <3> DEFINE m == [Idle EXCEPT !.op = "tick", !.pc = "read", !.at = now + 1]
    <3>1. PICK p \in Procs : Goto(p, m)
      BY <1>17, <2>1 DEF Minute
    <3>2. m.pc = "read"
      BY Values DEF Proc
    <3>3. Follows(procs[p], m)
      BY <3>2 DEF Follows, Ahead, ToReport
    <3> HIDE DEF m
    <3> QED
      BY <3>1, <3>3, FollowGoto
  <2>2. CASE life # "running"
    BY <1>17, <2>2, FollowStill DEF Minute
  <2> QED
    BY <2>1, <2>2
<1>18. CASE Signal
  BY <1>18, FollowStill DEF Signal
<1>19. CASE Crash
  BY <1>19, <1>b DEF Crash, AllFollow
<1>20. CASE Start
  BY <1>20, FollowStill DEF Start
<1>21. CASE UNCHANGED vars
  BY <1>21, FollowStill DEF vars
<1> QED
  BY <1>1, <1>2, <1>3, <1>4, <1>5, <1>6, <1>7, <1>8, <1>9, <1>10, <1>11, <1>12, <1>13,
         <1>14, <1>15, <1>16, <1>17, <1>18, <1>19, <1>20, <1>21 DEF Next, Step

\* What was delivered before a step, and what a step delivers.
LEMMA RememberedStep ==
    ASSUME TypeOK, ReportMoves, \A s \in sent : Remembered(s)
    PROVE  \A s \in sent' : Remembered(s)'
<1>1. ASSUME NEW s \in sent
      PROVE  Remembered(s)'
  <2>1. CASE Day(s) \in lapsed
    BY <2>1 DEF ReportMoves, Remembered
  <2>2. CASE Marked(Row, Day(s))
    <3>1. Marked(Row', Day(s)) \/ Day(s) \in lapsed'
      BY <2>2 DEF ReportMoves
    <3> QED
      BY <3>1 DEF Remembered, Marked
  <2>3. ASSUME NEW p \in Procs, Runs(p, "tick", "mark"), procs[p].at = s
        PROVE  Remembered(s)'
    <3>1. procs'[p] = procs[p] \/ Day(s) \in lapsed' \/ Marked(Row', Day(s))
      BY <2>3 DEF ReportMoves
    <3> QED
      BY <2>3, <3>1 DEF Remembered, Marked, Runs, At
  <2> QED
    BY <1>1, <2>1, <2>2, <2>3 DEF Remembered
<1>2. ASSUME NEW p \in Procs, sent' = sent \cup {procs[p].at},
             \/ Day(procs[p].at) \in lapsed'
             \/ /\ procs'[p].op = "tick" /\ procs'[p].pc = "mark"
                /\ procs'[p].at = procs[p].at
      PROVE  \A s \in sent' : Remembered(s)'
  <2>1. ASSUME NEW s, s = procs[p].at
        PROVE  Remembered(s)'
    BY <1>2, <2>1 DEF Remembered, Runs, At
  <2> QED
    BY <1>1, <1>2, <2>1
<1> QED
  BY <1>1, <1>2 DEF ReportMoves

\* Every step keeps what is remembered and known.
LEMMA RepeatStep ==
    ASSUME TypeOK, Shape, InFlight, RepeatInv, [Next]_vars
    PROVE  RepeatInv'
<1>1. ReportMoves /\ AllFollow /\ TickMoves
  BY ReportStep, FollowStep, MovesStep
<1>2. /\ lapsed \subseteq lapsed' /\ overlaps \subseteq overlaps'
      /\ \A s \in sent' : s \in sent \/ \E p \in Procs :
            Runs(p, "tick", "send") /\ s = procs[p].at /\ sent' = sent \cup {procs[p].at}
  BY <1>1 DEF ReportMoves, TickMoves
<1>3. \A s \in sent' : Remembered(s)'
  BY <1>1, RememberedStep DEF RepeatInv
<1>4. ASSUME NEW q \in Procs
      PROVE  Knows(procs[q])'
  <2>1. SUFFICES ASSUME procs'[q].op = "tick", procs'[q].pc \in Ahead
                 PROVE  Knows(procs[q])'
    BY DEF Knows, Ahead
  <2> DEFINE l == procs[q]
             m == procs'[q]
  <2>2. /\ l.op = "tick" /\ m.at = l.at
        /\ \/ l.pc \in Ahead /\ m.copy.reported = l.copy.reported
              /\ m.copy.choice = l.copy.choice
           \/ l.pc = "read" /\ m.copy \in {Row, DefaultSettings}
        /\ m.pc \in ToReport => l.pc \in ToReport \/ ShouldSendDutyReport(m.copy, m.at)
    BY <1>1, <2>1 DEF AllFollow, Follows
  <2>3. Knows(l)
    BY DEF RepeatInv
  <2>4. m.pc \in ToReport => ~Marked(m.copy, Day(m.at)) /\ m.copy.choice.report
    BY <2>2, <2>3 DEF Knows, ShouldSendDutyReport, Marked, ToReport
  <2>5. ASSUME NEW s \in sent', s # m.at, Day(s) = Day(m.at)
        PROVE  \/ Day(s) \in lapsed' \/ s \in overlaps' \/ m.at \in overlaps'
               \/ Marked(m.copy, Day(m.at)) \/ ~m.copy.choice.report
    <3>1. CASE s \in sent /\ l.pc \in Ahead
      <4>1. Caused(s, l.at) \/ Marked(l.copy, Day(l.at)) \/ ~l.copy.choice.report
        BY <2>2, <2>3, <2>5, <3>1 DEF Knows
      <4>2. m.copy.reported = l.copy.reported /\ m.copy.choice = l.copy.choice
        BY <2>2, <3>1 DEF Ahead, ToReport
      <4> QED
        BY <1>2, <2>2, <4>1, <4>2 DEF Caused, Marked
    <3>2. CASE s \in sent /\ l.pc = "read" /\ m.copy = DefaultSettings
      BY <3>2, TickAssumption DEF DefaultSettings
    <3>3. CASE s \in sent /\ l.pc = "read" /\ m.copy = Row
      <4>1. Remembered(s)
        BY <3>3 DEF RepeatInv
      <4>2. ASSUME NEW p \in Procs, Runs(p, "tick", "mark"), procs[p].at = s
            PROVE  l.at \in overlaps
        BY <2>2, <3>3, <4>2 DEF InFlight, Runs, At
      <4> QED
        BY <1>2, <2>2, <2>5, <3>3, <4>1, <4>2 DEF Remembered
    <3>4. CASE s \notin sent
      <4>1. PICK p \in Procs : Runs(p, "tick", "send") /\ s = procs[p].at
        BY <1>2, <3>4
      <4> QED
        BY <1>2, <2>2, <2>5, <4>1 DEF InFlight, Runs
    <3> QED
      BY <2>2, <3>1, <3>2, <3>3, <3>4
  <2> QED
    BY <2>4, <2>5 DEF Knows, Caused
<1>5. RepeatHasCause'
  <2>1. ASSUME NEW s \in sent, NEW p \in Procs, Runs(p, "tick", "send"),
               s # procs[p].at, Day(s) = Day(procs[p].at)
        PROVE  Caused(s, procs[p].at)
    BY <2>1 DEF RepeatInv, Knows, Runs, At, ToReport, Ahead
  <2>2. ASSUME NEW s \in sent', NEW t \in sent', s < t, Day(s) = Day(t)
        PROVE  Day(s) \in lapsed' \/ s \in overlaps' \/ t \in overlaps'
    <3>1. s # t
      <4>1. s \in Nat /\ t \in Nat
        BY TypeStep DEF TypeOK
      <4> QED
        BY <2>2, <4>1
    <3>2. CASE s \in sent /\ t \in sent
      BY <1>2, <2>2, <3>2 DEF RepeatInv, RepeatHasCause
    <3>3. CASE s \notin sent
      <4>1. PICK p \in Procs : /\ Runs(p, "tick", "send") /\ s = procs[p].at
                               /\ sent' = sent \cup {procs[p].at}
        BY <1>2, <3>3
      <4>2. t \in sent
        BY <3>1, <4>1
      <4> QED
        BY <1>2, <2>1, <2>2, <3>1, <4>1, <4>2 DEF Caused
    <3>4. CASE t \notin sent
      <4>1. PICK p \in Procs : /\ Runs(p, "tick", "send") /\ t = procs[p].at
                               /\ sent' = sent \cup {procs[p].at}
        BY <1>2, <3>4
      <4>2. s \in sent
        BY <3>1, <4>1
      <4> QED
        BY <1>2, <2>1, <2>2, <3>1, <4>1, <4>2 DEF Caused
    <3> QED
      BY <3>2, <3>3, <3>4
  <2> QED
    BY <2>2 DEF RepeatHasCause
<1> QED
  BY <1>3, <1>4, <1>5 DEF RepeatInv

\* A day gets a second automatic report only after its mark was lost or never
\* made, or from a tick that overlapped another, however many goroutines there
\* are: a tick that comes to send has read a row that would have told it of the
\* day's report, and whoever delivered one since is at work with it.
THEOREM RepeatsHaveCauses == Spec => []RepeatHasCause
<1>1. Init => InFlight /\ RepeatInv
  BY DEF Init, InFlight, RepeatInv, Knows, RepeatHasCause, Idle
<1>2. TypeOK /\ Shape /\ InFlight /\ RepeatInv /\ [Next]_vars => InFlight' /\ RepeatInv'
  BY InFlightStep, RepeatStep
<1>3. RepeatInv => RepeatHasCause
  BY DEF RepeatInv
<1> QED
  BY <1>1, <1>2, <1>3, ShapeInvariant, PTL DEF Spec

=============================================================================
