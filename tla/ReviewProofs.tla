---------------------------- MODULE ReviewProofs ----------------------------
(***************************************************************************)
(* Proofs about TicketReview for every set of tickets and items and every  *)
(* bound: marks land where they were drawn, reports of routines are true,  *)
(* and panel and index end up with what the store holds, whatever calls    *)
(* are under way together.                                                 *)
(***************************************************************************)
EXTENDS TicketReview, TLAPS

Pending(q) == {q[n] : n \in 1..Len(q)}

\* A routine past the point where its ticket has a scaffold, as far as it knows.
Past(c) ==
  /\ c.by # "page"
  /\ c.cmd = "checkpoint" \/ (c.cmd = "list" /\ c.step \in {"inner", "index"})

\* What holds of a call under way, with s the scaffolds of the backend.
Good(c, s) ==
  /\ c.cmd \in {"load", "create", "mark"} => c.key \in Keys
  /\ c.cmd = "checkpoint" => c.by # "page"
  /\ (c.cmd = "list" /\ c.by # "page") => c.step # "none"
  /\ (Past(c) /\ c.res \notin {"permission_denied", "error"} /\ c.loaded) =>
       c.key \in Keys /\ s[c.key] # Absent

PendingOK == \A c \in Pending(queue) : Good(c, store)

ReportsBacked ==
  \A r \in Routines :
    report[r].status \in {"success", "degraded"} /\ report[r].loaded =>
      report[r].key \in Keys /\ store[report[r].key] # Absent

ReviewInv == TypeOK /\ PendingOK /\ ReportsBacked

\* No scaffold is ever dropped.
Kept == store' \in [Keys -> Scaffold] /\ \A k \in Keys : store[k] # Absent => store'[k] # Absent
-----------------------------------------------------------------------------
LEMMA Appended ==
  ASSUME NEW S, NEW q \in Seq(S), NEW c \in S
  PROVE  Append(q, c) \in Seq(S) /\ \A d \in Pending(Append(q, c)) : d \in Pending(q) \/ d = c
<1>1. Append(q, c) \in Seq(S) /\ Len(Append(q, c)) = Len(q) + 1 /\ Len(q) \in Nat
  OBVIOUS
<1>2. \A n \in 1..(Len(q) + 1) : Append(q, c)[n] = IF n <= Len(q) THEN q[n] ELSE c
  OBVIOUS
<1>3. \A n \in 1..(Len(q) + 1) : n \in 1..Len(q) \/ ~(n <= Len(q))
  BY <1>1
<1> QED BY <1>1, <1>2, <1>3 DEF Pending

LEMMA Served ==
  ASSUME NEW S, NEW q \in Seq(S), q # <<>>
  PROVE  /\ Head(q) \in S /\ Head(q) \in Pending(q)
         /\ Tail(q) \in Seq(S) /\ Pending(Tail(q)) \subseteq Pending(q)
<1>1. Len(q) \in Nat /\ Len(q) >= 1
  OBVIOUS
<1>2. Head(q) \in S /\ Head(q) = q[1] /\ Tail(q) \in Seq(S) /\ Len(Tail(q)) = Len(q) - 1
  OBVIOUS
<1>3. \A n \in 1..(Len(q) - 1) : Tail(q)[n] = q[n + 1] /\ n + 1 \in 1..Len(q)
  BY <1>1
<1> QED BY <1>1, <1>2, <1>3 DEF Pending

\* A step takes the first call out of the queue or leaves it, and adds one or none.
LEMMA QueueGoesOn ==
  ASSUME TypeOK, PendingOK, Kept, NEW q, q = queue \/ (queue # <<>> /\ q = rest),
         NEW c \in Calls, Good(c, store'), queue' = q \/ queue' = Append(q, c)
  PROVE  queue' \in Seq(Calls) /\ PendingOK'
<1>1. q \in Seq(Calls) /\ Pending(q) \subseteq Pending(queue)
  <2>1. queue \in Seq(Calls)
    BY DEF TypeOK
  <2>2. CASE q = queue
    BY <2>1, <2>2
  <2>3. CASE queue # <<>> /\ q = Tail(queue)
    BY <2>1, <2>3, Served
  <2> QED BY <2>2, <2>3 DEF rest
<1>2. queue' \in Seq(Calls) /\ \A d \in Pending(queue') : d \in Pending(queue) \/ d = c
  <2>1. CASE queue' = q
    BY <1>1, <2>1
  <2>2. CASE queue' = Append(q, c)
    <3>1. Append(q, c) \in Seq(Calls) /\ \A d \in Pending(Append(q, c)) : d \in Pending(q) \/ d = c
      BY <1>1, Appended
    <3> QED BY <1>1, <2>2, <3>1
  <2> QED BY <2>1, <2>2
<1>3. ASSUME NEW d, Good(d, store) PROVE Good(d, store')
  BY <1>3 DEF Good, Kept
<1> QED BY <1>2, <1>3 DEF PendingOK

LEMMA NoScaffoldDropped ==
  ASSUME TypeOK, UNCHANGED store
  PROVE  Kept
BY DEF TypeOK, Kept

LEMMA CallTyped ==
  ASSUME NEW cmd \in {"load", "list", "create", "mark", "checkpoint", "surfaces"},
         NEW key \in Keys \cup {NoKey}, NEW by \in Runners \cup {"page"}
  PROVE  /\ Call(cmd, key, by) \in Calls /\ Call(cmd, key, by).cmd = cmd
         /\ Call(cmd, key, by).key = key /\ Call(cmd, key, by).by = by
         /\ Call(cmd, key, by).step = "none"
<1>1. anyMark \in Marks
  BY DEF anyMark, Marks, Fields
<1> QED BY <1>1 DEF Call, Calls, Outcomes

\* Head of the queue: what is served.
LEMMA ServedCall ==
  ASSUME TypeOK, PendingOK, queue # <<>>
  PROVE  call \in Calls /\ Good(call, store)
BY Served DEF TypeOK, PendingOK, call

LEMMA ReviewInit == Init => ReviewInv
<1> SUFFICES ASSUME Init PROVE ReviewInv OBVIOUS
<1> DEFINE a == Call("list", NoKey, "page")
           b == Call("load", FirstKey, "page")
<1>1. a \in Calls /\ b \in Calls /\ queue = <<a, b>>
  BY CallTyped, ReviewAssumption DEF Init
<1>2. Good(a, store) /\ Good(b, store)
  BY CallTyped, ReviewAssumption DEF Good, Past
<1> HIDE DEF a, b
<1>3. queue \in Seq(Calls) /\ Pending(queue) = {a, b}
  BY <1>1 DEF Pending
<1>4. TypeOK
  <2>1. store \in [Keys -> Scaffold] /\ activeKey \in Keys
    BY ReviewAssumption DEF Init, Scaffold
  <2>2. panel \in {Loading, Failed, Empty} \cup {ToScaffoldView(k, m) : k \in Keys, m \in SUBSET Marks}
    BY DEF Init
  <2>3. scaffolds \in [status: {"loading", "empty", "success", "failed"}, of: [Keys -> Scaffold]]
    BY DEF Init, NoIndex, Scaffold
  <2>4. report \in [Routines -> [key: Keys \cup {NoKey}, status: Outcomes \cup {"none"},
                                 loaded: BOOLEAN]]
    BY DEF Init, NoReport
  <2>5. actions \in 0..MaxActions /\ faults \in 0..MaxFaults
    BY ReviewAssumption DEF Init
  <2>6. /\ activeRoutine \in Routines \cup {"none"} /\ verifying \in BOOLEAN
        /\ unaudited \in BOOLEAN /\ strayed \in BOOLEAN
    BY DEF Init
  <2> QED BY <1>3, <2>1, <2>2, <2>3, <2>4, <2>5, <2>6 DEF TypeOK
<1>5. PendingOK /\ ReportsBacked
  BY <1>2, <1>3 DEF Init, PendingOK, ReportsBacked, NoReport
<1> QED BY <1>4, <1>5 DEF ReviewInv
-----------------------------------------------------------------------------
\* The views a step may leave behind.
PanelTyped ==
  panel \in {Loading, Failed, Empty} \cup {ToScaffoldView(k, m) : k \in Keys, m \in SUBSET Marks}
IndexTyped == scaffolds \in [status: {"loading", "empty", "success", "failed"}, of: [Keys -> Scaffold]]
ReportsTyped ==
  report \in [Routines -> [key: Keys \cup {NoKey}, status: Outcomes \cup {"none"}, loaded: BOOLEAN]]
FlagsTyped ==
  /\ activeRoutine \in Routines \cup {"none"} /\ verifying \in BOOLEAN
  /\ unaudited \in BOOLEAN /\ strayed \in BOOLEAN /\ activeKey \in Keys
BoundsTyped == actions \in 0..MaxActions /\ faults \in 0..MaxFaults

LEMMA TypeParts ==
  TypeOK <=> /\ store \in [Keys -> Scaffold] /\ queue \in Seq(Calls)
             /\ PanelTyped /\ IndexTyped /\ ReportsTyped /\ FlagsTyped /\ BoundsTyped
BY DEF TypeOK, PanelTyped, IndexTyped, ReportsTyped, FlagsTyped, BoundsTyped

\* What most steps have in common; ReportIsTrue follows from the last two parts.
Quietly ==
  /\ Kept /\ queue' \in Seq(Calls) /\ PendingOK'
  /\ PanelTyped' /\ IndexTyped' /\ FlagsTyped' /\ BoundsTyped'

LEMMA QuietlyKeeps ==
  ASSUME ReviewInv, Quietly, report' = report
  PROVE  ReviewInv'
<1>1. ReportsTyped'
  BY TypeParts DEF ReviewInv, ReportsTyped
<1>2. TypeOK'
  BY <1>1, TypeParts DEF Quietly, Kept, TypeOK, PanelTyped, IndexTyped, ReportsTyped, FlagsTyped,
     BoundsTyped
<1>3. ReportsBacked'
  BY <1>1 DEF ReviewInv, ReportsBacked, Quietly, Kept
<1> QED BY <1>2, <1>3 DEF ReviewInv, Quietly

LEMMA EnsuredShape ==
  ASSUME ReviewInv, queue # <<>>, Kept, NEW c \in Calls, ScaffoldEnsured(c), c.by # "page",
         c.key \in Keys,
         c.res \notin {"permission_denied", "error"} /\ c.loaded => store'[c.key] # Absent
  PROVE  /\ queue' \in Seq(Calls) /\ PendingOK'
         /\ scaffolds' = scaffolds \/ scaffolds' = NoIndex("loading")
<1>1. TypeOK /\ PendingOK
  BY DEF ReviewInv
<1>2. CASE IsDaily(c.by)
  <2> DEFINE d == [c EXCEPT !.cmd = "list", !.step = "index"]
  <2>1. d \in Calls /\ d.by = c.by /\ d.key = c.key /\ d.res = c.res /\ d.loaded = c.loaded
        /\ d.cmd = "list" /\ d.step = "index"
    BY DEF Calls
  <2>2. queue' = Append(rest, d) /\ scaffolds' = NoIndex("loading")
    BY <1>2 DEF ScaffoldEnsured
  <2> HIDE DEF d
  <2>3. Good(d, store')
    BY <2>1 DEF Good
  <2> QED BY <1>1, <2>1, <2>2, <2>3, QueueGoesOn
<1>3. CASE ~IsDaily(c.by)
  <2> DEFINE d == [c EXCEPT !.cmd = "checkpoint"]
  <2>1. d \in Calls /\ d.by = c.by /\ d.key = c.key /\ d.res = c.res /\ d.loaded = c.loaded
        /\ d.cmd = "checkpoint"
    BY DEF Calls
  <2>2. queue' = Append(rest, d) /\ scaffolds' = scaffolds
    BY <1>3 DEF ScaffoldEnsured
  <2> HIDE DEF d
  <2>3. Good(d, store')
    BY <2>1 DEF Good
  <2> QED BY <1>1, <2>1, <2>2, <2>3, QueueGoesOn
<1> QED BY <1>2, <1>3

\* The scaffold store lists after each success.
LEMMA ListAfterShape ==
  ASSUME ReviewInv, queue # <<>>, Kept, ListAfter(call), call.cmd \in {"create", "mark"},
         store'[call.key] # Absent
  PROVE  queue' \in Seq(Calls) /\ PendingOK' /\ scaffolds' = NoIndex("loading")
<1> DEFINE d == [call EXCEPT !.cmd = "list", !.step = "inner"]
<1>1. TypeOK /\ PendingOK
  BY DEF ReviewInv
<1>2. call \in Calls /\ call.key \in Keys
  BY <1>1, ServedCall DEF Good
<1>3. d \in Calls /\ d.by = call.by /\ d.key = call.key /\ d.cmd = "list" /\ d.step = "inner"
  BY <1>2 DEF Calls
<1>4. queue' = Append(rest, d) /\ scaffolds' = NoIndex("loading")
  BY DEF ListAfter
<1> HIDE DEF d
<1>5. Good(d, store')
  BY <1>2, <1>3 DEF Good
<1> QED BY <1>1, <1>3, <1>4, <1>5, QueueGoesOn

LEMMA BeginShape ==
  ASSUME ReviewInv, UNCHANGED <<store, activeKey>>, NEW q, q = queue \/ (queue # <<>> /\ q = rest),
         NEW by \in Runners, BeginRoutine(q, by)
  PROVE  /\ Kept /\ queue' \in Seq(Calls) /\ PendingOK' /\ activeRoutine' \in Routines
         /\ panel' \in {panel, Loading} /\ scaffolds' \in {scaffolds, NoIndex("loading")}
<1>1. TypeOK /\ PendingOK /\ Kept
  BY NoScaffoldDropped DEF ReviewInv
<1>2. activeKey \in Keys
  BY <1>1, TypeParts DEF FlagsTyped
<1>3. CASE IsDaily(by)
  <2> DEFINE d == Call("load", activeKey, by)
  <2>1. d \in Calls /\ d.cmd = "load" /\ d.key = activeKey
    BY <1>2, CallTyped
  <2>2. Good(d, store')
    BY <1>2, <2>1 DEF Good, Past
  <2>3. queue' = Append(q, d)
    BY <1>3 DEF BeginRoutine
  <2> HIDE DEF d
  <2>4. queue' \in Seq(Calls) /\ PendingOK'
    BY <1>1, <2>1, <2>2, <2>3, QueueGoesOn
  <2> QED BY <1>1, <1>3, <2>4 DEF BeginRoutine, Routines
<1>4. CASE ~IsDaily(by)
  <2> DEFINE l == Call("list", NoKey, by)
             d == [l EXCEPT !.step = "first"]
  <2>1. l \in Calls /\ l.cmd = "list"
    BY CallTyped
  <2>2. queue' = Append(q, d)
    BY <1>4 DEF BeginRoutine
  <2> HIDE DEF l
  <2>3. d \in Calls /\ d.cmd = "list" /\ d.step = "first"
    BY <2>1 DEF Calls
  <2> HIDE DEF d
  <2>4. Good(d, store')
    BY <2>3 DEF Good, Past
  <2>5. queue' \in Seq(Calls) /\ PendingOK'
    BY <1>1, <2>2, <2>3, <2>4, QueueGoesOn
  <2> QED BY <1>1, <1>4, <2>5 DEF BeginRoutine, Routines
<1> QED BY <1>3, <1>4
-----------------------------------------------------------------------------
LEMMA IndexesTyped ==
  ASSUME store \in [Keys -> Scaffold]
  PROVE  /\ Index(store) \in [status: {"loading", "empty", "success", "failed"}, of: [Keys -> Scaffold]]
         /\ \A status \in {"loading", "failed"} :
              NoIndex(status) \in [status: {"loading", "empty", "success", "failed"},
                                   of: [Keys -> Scaffold]]
BY DEF Index, NoIndex, Scaffold

LEMMA ActBounds ==
  ASSUME TypeOK, Act PROVE actions' \in 0..MaxActions
BY ReviewAssumption DEF TypeOK, Act

LEMMA FaultBounds ==
  ASSUME TypeOK, Fault PROVE faults' \in 0..MaxFaults
BY ReviewAssumption DEF TypeOK, Fault

\* What the user starts.
LEMMA SendKeeps ==
  ASSUME ReviewInv, NEW c \in Calls, Good(c, store), SendFromPage(c), IndexTyped'
  PROVE  ReviewInv'
<1>1. TypeOK /\ PendingOK
  BY DEF ReviewInv
<1>2. UNCHANGED <<store, faults, unaudited, activeKey, panel, activeRoutine, verifying, report, strayed>>
      /\ queue' = Append(queue, c) /\ Act
  BY DEF SendFromPage, backendVars
<1>3. Kept
  BY <1>1, <1>2, NoScaffoldDropped
<1>4. queue' \in Seq(Calls) /\ PendingOK'
  BY <1>1, <1>2, <1>3, QueueGoesOn
<1>5. actions' \in 0..MaxActions
  BY <1>1, <1>2, ActBounds
<1>6. PanelTyped' /\ FlagsTyped' /\ BoundsTyped'
  BY <1>1, <1>2, <1>5, TypeParts DEF PanelTyped, FlagsTyped, BoundsTyped
<1> QED BY <1>2, <1>3, <1>4, <1>6, QuietlyKeeps DEF Quietly

LEMMA UserKeeps ==
  ASSUME ReviewInv,
         \/ \E k \in Keys : Select(k)
         \/ \E i \in Items : Toggle(i)
         \/ \E f \in Fields, filled \in BOOLEAN : SaveField(f, filled)
         \/ CreateScaffold \/ RefreshIndex
  PROVE  ReviewInv'
<1>1. TypeOK /\ PendingOK
  BY DEF ReviewInv
<1>2. activeKey \in Keys /\ IndexTyped /\ store \in [Keys -> Scaffold]
  BY <1>1, TypeParts DEF FlagsTyped
<1>3. UNCHANGED scaffolds => IndexTyped'
  BY <1>2 DEF IndexTyped
<1>4. scaffolds' = NoIndex("loading") => IndexTyped'
  BY <1>2, IndexesTyped DEF IndexTyped
<1>5. ASSUME NEW k \in Keys, Select(k) PROVE ReviewInv'
  <2> DEFINE c == Call("load", k, "page")
  <2>1. c \in Calls /\ c.cmd = "load" /\ c.key = k
    BY CallTyped
  <2>2. Good(c, store)
    BY <2>1 DEF Good, Past
  <2>3. /\ UNCHANGED <<store, faults, unaudited, scaffolds, activeRoutine, verifying, report, strayed>>
        /\ queue' = Append(queue, c) /\ Act /\ activeKey' = k /\ panel' = Loading
    BY <1>5 DEF Select, backendVars
  <2> HIDE DEF c
  <2>4. Kept
    BY <1>1, <2>3, NoScaffoldDropped
  <2>5. queue' \in Seq(Calls) /\ PendingOK'
    BY <1>1, <2>1, <2>2, <2>3, <2>4, QueueGoesOn
  <2>6. actions' \in 0..MaxActions
    BY <1>1, <2>3, ActBounds
  <2>7. PanelTyped' /\ FlagsTyped' /\ BoundsTyped'
    BY <1>1, <2>3, <2>6, TypeParts DEF PanelTyped, FlagsTyped, BoundsTyped
  <2> QED BY <1>3, <2>3, <2>4, <2>5, <2>7, QuietlyKeeps DEF Quietly
<1>6. ASSUME NEW c \in Calls, c.cmd = "mark", c.key = activeKey, SendFromPage(c), UNCHANGED scaffolds
      PROVE  ReviewInv'
  <2>1. Good(c, store)
    BY <1>2, <1>6 DEF Good, Past
  <2> QED BY <1>3, <1>6, <2>1, SendKeeps
<1>7. Call("mark", activeKey, "page") \in Calls
  BY <1>2, CallTyped
<1>8. ASSUME NEW i \in Items, Toggle(i) PROVE ReviewInv'
  <2> DEFINE m == Call("mark", activeKey, "page")
             on == i \notin panel.marks
             c == [m EXCEPT !.drawn = panel.key, !.mark = i, !.on = on]
  <2>1. panel.key \in Keys
    <3>1. PanelTyped /\ panel.status = "success"
      BY <1>1, <1>8, TypeParts DEF Toggle
    <3>2. Loading.status # "success" /\ Failed.status # "success" /\ Empty.status # "success"
      BY DEF Loading, Failed, Empty, Shown
    <3>3. PICK k \in Keys, marks \in SUBSET Marks : panel = ToScaffoldView(k, marks)
      BY <3>1, <3>2 DEF PanelTyped
    <3> QED BY <3>3 DEF ToScaffoldView, Shown
  <2>2. m.cmd = "mark" /\ m.key = activeKey
    BY <1>2, CallTyped
  <2>3. on \in BOOLEAN
    OBVIOUS
  <2> HIDE DEF m, on
  <2>4. c \in Calls /\ c.cmd = "mark" /\ c.key = activeKey
    BY <1>7, <2>1, <2>2, <2>3 DEF Calls, Marks, m
  <2>5. SendFromPage(c) /\ UNCHANGED scaffolds
    BY <1>8 DEF Toggle, m, on
  <2> HIDE DEF c
  <2> QED BY <1>6, <2>4, <2>5
<1>9. ASSUME NEW f \in Fields, NEW filled \in BOOLEAN, SaveField(f, filled) PROVE ReviewInv'
  <2> DEFINE m == Call("mark", activeKey, "page")
             c == [m EXCEPT !.mark = f, !.on = filled]
  <2>1. m.cmd = "mark" /\ m.key = activeKey
    BY <1>2, CallTyped
  <2>2. SendFromPage(c) /\ UNCHANGED scaffolds
    BY <1>9 DEF SaveField
  <2> HIDE DEF m
  <2>3. c \in Calls /\ c.cmd = "mark" /\ c.key = activeKey
    BY <1>7, <2>1 DEF Calls, Marks, m
  <2> HIDE DEF c
  <2> QED BY <1>6, <2>2, <2>3
<1>10. CASE CreateScaffold
  <2>1. Good(Call("create", activeKey, "page"), store)
    BY <1>2, CallTyped DEF Good, Past
  <2>2. Call("create", activeKey, "page") \in Calls
    BY <1>2, CallTyped
  <2> QED BY <1>3, <1>10, <2>1, <2>2, SendKeeps DEF CreateScaffold
<1>11. CASE RefreshIndex
  <2>1. Good(Call("list", NoKey, "page"), store)
    BY CallTyped DEF Good, Past
  <2>2. Call("list", NoKey, "page") \in Calls
    BY CallTyped
  <2> QED BY <1>4, <1>11, <2>1, <2>2, SendKeeps DEF RefreshIndex
<1> QED BY <1>5, <1>8, <1>9, <1>10, <1>11

\* What starts or goes on with a routine.
LEMMA RunnersKeep ==
  ASSUME ReviewInv,
         (\E r \in Routines : RunRoutine(r)) \/ RunVerification \/ AnswerSurfaces
  PROVE  ReviewInv'
<1>1. TypeOK /\ PendingOK
  BY DEF ReviewInv
<1>2. /\ IndexTyped /\ PanelTyped /\ FlagsTyped /\ BoundsTyped /\ store \in [Keys -> Scaffold]
  BY <1>1, TypeParts
<1>3. ASSUME scaffolds' \in {scaffolds, NoIndex("loading")}, panel' \in {panel, Loading}
      PROVE  IndexTyped' /\ PanelTyped'
  BY <1>2, <1>3, IndexesTyped DEF IndexTyped, PanelTyped
<1>4. ASSUME NEW r \in Routines, RunRoutine(r) PROVE ReviewInv'
  <2>1. BeginRoutine(queue, r) /\ Act
        /\ UNCHANGED <<store, faults, unaudited, activeKey, verifying, report, strayed>>
    BY <1>4 DEF RunRoutine, backendVars
  <2>2. /\ Kept /\ queue' \in Seq(Calls) /\ PendingOK' /\ activeRoutine' \in Routines
        /\ panel' \in {panel, Loading} /\ scaffolds' \in {scaffolds, NoIndex("loading")}
    BY <2>1, BeginShape DEF Runners
  <2>3. actions' \in 0..MaxActions
    BY <1>1, <2>1, ActBounds
  <2>4. FlagsTyped' /\ BoundsTyped'
    BY <1>2, <2>1, <2>2, <2>3 DEF FlagsTyped, BoundsTyped
  <2> QED BY <1>3, <2>1, <2>2, <2>4, QuietlyKeeps DEF Quietly
<1>5. CASE RunVerification
  <2> DEFINE c == Call("surfaces", NoKey, "vdaily")
  <2>1. c \in Calls /\ c.cmd = "surfaces"
    BY CallTyped DEF Runners
  <2>2. Good(c, store)
    BY <2>1 DEF Good, Past
  <2>3. /\ queue' = Append(queue, c) /\ Act /\ verifying' = TRUE
        /\ UNCHANGED <<store, faults, unaudited, activeKey, panel, scaffolds, activeRoutine, report, strayed>>
    BY <1>5 DEF RunVerification, backendVars
  <2> HIDE DEF c
  <2>4. Kept
    BY <1>1, <2>3, NoScaffoldDropped
  <2>5. queue' \in Seq(Calls) /\ PendingOK'
    BY <1>1, <2>1, <2>2, <2>3, <2>4, QueueGoesOn
  <2>6. actions' \in 0..MaxActions
    BY <1>1, <2>3, ActBounds
  <2>7. FlagsTyped' /\ BoundsTyped'
    BY <1>2, <2>3, <2>6 DEF FlagsTyped, BoundsTyped
  <2> QED BY <1>3, <2>3, <2>4, <2>5, <2>7, QuietlyKeeps DEF Quietly
<1>6. CASE AnswerSurfaces
  <2>1. /\ queue # <<>> /\ BeginRoutine(rest, "vdaily")
        /\ UNCHANGED <<store, faults, unaudited, activeKey, verifying, report, strayed, actions>>
    BY <1>6 DEF AnswerSurfaces, Serving
  <2>2. /\ Kept /\ queue' \in Seq(Calls) /\ PendingOK' /\ activeRoutine' \in Routines
        /\ panel' \in {panel, Loading} /\ scaffolds' \in {scaffolds, NoIndex("loading")}
    BY <2>1, BeginShape DEF Runners
  <2>3. FlagsTyped' /\ BoundsTyped'
    BY <1>2, <2>1, <2>2 DEF FlagsTyped, BoundsTyped
  <2> QED BY <1>3, <2>1, <2>2, <2>3, QuietlyKeeps DEF Quietly
<1> QED BY <1>4, <1>5, <1>6
-----------------------------------------------------------------------------
\* Scaffolds after a change: those of the other tickets, and the marks of the call.
LEMMA ChangeShape ==
  ASSUME ReviewInv, queue # <<>>, Change, Effect(call), ApplyChange(call)
  PROVE  /\ call \in Calls /\ call.key \in Keys /\ Kept
         /\ Marked(call) \in SUBSET Marks /\ store'[call.key] = Marked(call)
         /\ store'[call.key] # Absent
         /\ \A k \in Keys : k # call.key => store'[k] = store[k]
<1>1. call \in Calls /\ Good(call, store) /\ call.cmd \in {"create", "mark"}
  BY ServedCall DEF ReviewInv, Change
<1>2. call.key \in Keys
  BY <1>1 DEF Good
<1>3. store \in [Keys -> Scaffold]
  BY DEF ReviewInv, TypeOK
<1>4. call.mark \in Marks
  BY <1>1 DEF Calls
<1>5. store[call.key] # Absent => store[call.key] \in SUBSET Marks
  BY <1>2, <1>3 DEF Scaffold
<1>6. Marked(call) \in SUBSET Marks
  <2>1. CASE call.cmd = "create"
    BY <2>1 DEF Marked
  <2>2. CASE call.cmd # "create"
    <3>1. store[call.key] \in SUBSET Marks
      BY <1>5, <2>2 DEF Effect
    <3> QED BY <1>4, <2>2, <3>1 DEF Marked
  <2> QED BY <2>1, <2>2
<1>7. Marked(call) # Absent
  BY <1>6, AbsentAssumption
<1>8. store' = [store EXCEPT ![call.key] = Marked(call)]
  BY DEF ApplyChange
<1>9. /\ store' \in [Keys -> Scaffold] /\ store'[call.key] = Marked(call)
      /\ \A k \in Keys : k # call.key => store'[k] = store[k]
  BY <1>2, <1>3, <1>6, <1>8 DEF Scaffold
<1> QED BY <1>1, <1>2, <1>6, <1>7, <1>9 DEF Kept

\* The page's flow ends, a routine goes on.
LEMMA NotChangedShape ==
  ASSUME ReviewInv, queue # <<>>, Kept, Change, NotChanged(call)
  PROVE  /\ queue' \in Seq(Calls) /\ PendingOK'
         /\ scaffolds' = scaffolds \/ scaffolds' = NoIndex("loading")
<1>1. TypeOK /\ PendingOK
  BY DEF ReviewInv
<1>2. call \in Calls /\ Good(call, store) /\ call.cmd \in {"create", "mark"}
  BY <1>1, ServedCall DEF Change
<1>3. call.key \in Keys
  BY <1>2 DEF Good
<1>4. CASE call.by = "page"
  <2>1. queue' = rest /\ UNCHANGED scaffolds
    BY <1>4 DEF NotChanged
  <2>2. Good(call, store')
    BY <1>2 DEF Good, Past
  <2> QED BY <1>1, <1>2, <2>1, <2>2, QueueGoesOn
<1>5. CASE call.by # "page"
  <2>1. PICK res \in {"permission_denied", "error"} : ScaffoldEnsured([call EXCEPT !.res = res])
    BY <1>5 DEF NotChanged
  <2> DEFINE d == [call EXCEPT !.res = res]
  <2>2. d \in Calls /\ d.by = call.by /\ d.key = call.key /\ d.res = res
    BY <1>2 DEF Calls, Outcomes
  <2>3. ScaffoldEnsured(d)
    BY <2>1
  <2> HIDE DEF d
  <2> QED BY <1>3, <1>5, <2>2, <2>3, EnsuredShape
<1> QED BY <1>4, <1>5

LEMMA ChangesKeep ==
  ASSUME ReviewInv, AnswerChange \/ RefuseChange \/ AnswerUnaudited
  PROVE  ReviewInv'
<1>1. TypeOK /\ PendingOK
  BY DEF ReviewInv
<1>2. /\ IndexTyped /\ PanelTyped /\ FlagsTyped /\ BoundsTyped /\ store \in [Keys -> Scaffold]
  BY <1>1, TypeParts
<1>3. ASSUME scaffolds' = scaffolds \/ scaffolds' = NoIndex("loading") PROVE IndexTyped'
  BY <1>2, <1>3, IndexesTyped DEF IndexTyped
<1>4. UNCHANGED panel => PanelTyped'
  BY <1>2 DEF PanelTyped
<1>5. UNCHANGED faults \/ Fault => faults' \in 0..MaxFaults
  BY <1>1, <1>2, FaultBounds DEF BoundsTyped
<1>6. CASE AnswerChange
  <2>1. /\ queue # <<>> /\ Change /\ Effect(call) /\ ApplyChange(call) /\ ListAfter(call)
        /\ panel' = ToScaffoldView(call.key, Marked(call))
        /\ strayed' = (call.by # "page" /\ call.key # activeKey)
        /\ UNCHANGED <<activeKey, activeRoutine, verifying, report, actions, faults, unaudited>>
    BY <1>6 DEF AnswerChange
  <2>2. /\ call.key \in Keys /\ Kept /\ Marked(call) \in SUBSET Marks /\ store'[call.key] # Absent
    BY <2>1, ChangeShape
  <2>3. queue' \in Seq(Calls) /\ PendingOK' /\ scaffolds' = NoIndex("loading")
    BY <2>1, <2>2, ListAfterShape DEF Change
  <2>4. PanelTyped'
    BY <2>1, <2>2 DEF PanelTyped
  <2>5. strayed' \in BOOLEAN
    BY <2>1
  <2>6. FlagsTyped' /\ BoundsTyped'
    BY <1>2, <2>1, <2>5 DEF FlagsTyped, BoundsTyped
  <2> QED BY <1>3, <2>1, <2>2, <2>3, <2>4, <2>6, QuietlyKeeps DEF Quietly
<1>7. CASE RefuseChange
  <2>1. /\ queue # <<>> /\ Change /\ NotChanged(call) /\ (UNCHANGED faults \/ Fault)
        /\ UNCHANGED <<store, activeKey, panel, activeRoutine, verifying, report, actions,
                       unaudited, strayed>>
    BY <1>7 DEF RefuseChange
  <2>2. Kept
    BY <1>1, <2>1, NoScaffoldDropped
  <2>3. /\ queue' \in Seq(Calls) /\ PendingOK'
        /\ scaffolds' = scaffolds \/ scaffolds' = NoIndex("loading")
    BY <2>1, <2>2, NotChangedShape
  <2>4. FlagsTyped' /\ BoundsTyped'
    BY <1>2, <1>5, <2>1 DEF FlagsTyped, BoundsTyped
  <2> QED BY <1>3, <1>4, <2>1, <2>2, <2>3, <2>4, QuietlyKeeps DEF Quietly
<1>8. CASE AnswerUnaudited
  <2>1. /\ queue # <<>> /\ Change /\ Effect(call) /\ ApplyChange(call) /\ NotChanged(call) /\ Fault
        /\ unaudited' = TRUE
        /\ UNCHANGED <<activeKey, panel, activeRoutine, verifying, report, actions, strayed>>
    BY <1>8 DEF AnswerUnaudited
  <2>2. Kept
    BY <2>1, ChangeShape
  <2>3. /\ queue' \in Seq(Calls) /\ PendingOK'
        /\ scaffolds' = scaffolds \/ scaffolds' = NoIndex("loading")
    BY <2>1, <2>2, NotChangedShape
  <2>4. FlagsTyped' /\ BoundsTyped'
    BY <1>2, <1>5, <2>1 DEF FlagsTyped, BoundsTyped
  <2> QED BY <1>3, <1>4, <2>1, <2>2, <2>3, <2>4, QuietlyKeeps DEF Quietly
<1> QED BY <1>6, <1>7, <1>8

LEMMA LoadKeeps ==
  ASSUME ReviewInv, AnswerLoad
  PROVE  ReviewInv'
<1>1. TypeOK /\ PendingOK
  BY DEF ReviewInv
<1>2. /\ IndexTyped /\ PanelTyped /\ FlagsTyped /\ BoundsTyped /\ store \in [Keys -> Scaffold]
  BY <1>1, TypeParts
<1>3. /\ queue # <<>> /\ call.cmd = "load" /\ strayed' = FALSE
      /\ (panel' = Loaded(call.key) /\ UNCHANGED faults) \/ (panel' = Failed /\ Fault)
      /\ UNCHANGED <<store, activeKey, activeRoutine, verifying, report, actions, unaudited>>
  BY DEF AnswerLoad, Serving
<1>4. call \in Calls /\ Good(call, store)
  BY <1>1, <1>3, ServedCall
<1>5. call.key \in Keys
  BY <1>3, <1>4 DEF Good
<1>6. Kept
  BY <1>1, <1>3, NoScaffoldDropped
<1>7. panel' = Failed \/ panel' = Empty \/ (store[call.key] # Absent /\ PanelTyped')
  <2>1. store[call.key] # Absent => store[call.key] \in SUBSET Marks
    BY <1>2, <1>5 DEF Scaffold
  <2> QED BY <1>3, <1>5, <2>1 DEF Loaded, PanelTyped
<1>8. PanelTyped'
  BY <1>7 DEF PanelTyped
<1>9. /\ queue' \in Seq(Calls) /\ PendingOK'
      /\ scaffolds' = scaffolds \/ scaffolds' = NoIndex("loading")
  <2>1. CASE call.by = "page"
    <3>1. queue' = rest /\ UNCHANGED scaffolds
      BY <2>1 DEF AnswerLoad
    <3>2. Good(call, store')
      BY <1>3, <1>4
    <3> QED BY <1>1, <1>3, <1>4, <1>6, <3>1, <3>2, QueueGoesOn
  <2>2. CASE call.by # "page" /\ panel' = Empty
    <3> DEFINE d == [call EXCEPT !.cmd = "create"]
    <3>1. d \in Calls /\ d.cmd = "create" /\ d.key = call.key
      BY <1>4 DEF Calls
    <3>2. queue' = Append(rest, d) /\ UNCHANGED scaffolds
      BY <2>2 DEF AnswerLoad
    <3> HIDE DEF d
    <3>3. Good(d, store')
      BY <1>5, <3>1 DEF Good, Past
    <3> QED BY <1>1, <1>3, <1>6, <3>1, <3>2, <3>3, QueueGoesOn
  <2>3. CASE call.by # "page" /\ panel' # Empty
    <3> DEFINE found == panel' # Failed
               d == [call EXCEPT !.loaded = found]
    <3>1. found \in BOOLEAN
      OBVIOUS
    <3>2. found => store'[call.key] # Absent
      BY <1>3, <1>7, <2>3
    <3>3. ScaffoldEnsured(d)
      BY <2>3 DEF AnswerLoad
    <3> HIDE DEF found
    <3>4. d \in Calls /\ d.by = call.by /\ d.key = call.key /\ d.loaded = found
      BY <1>4, <3>1 DEF Calls
    <3> HIDE DEF d
    <3> QED BY <1>3, <1>5, <1>6, <2>3, <3>2, <3>3, <3>4, EnsuredShape
  <2> QED BY <2>1, <2>2, <2>3
<1>10. IndexTyped'
  BY <1>2, <1>9, IndexesTyped DEF IndexTyped
<1>11. faults' \in 0..MaxFaults
  BY <1>1, <1>2, <1>3, FaultBounds DEF BoundsTyped
<1>12. FlagsTyped' /\ BoundsTyped'
  BY <1>2, <1>3, <1>11 DEF FlagsTyped, BoundsTyped
<1> QED BY <1>3, <1>6, <1>8, <1>9, <1>10, <1>12, QuietlyKeeps DEF Quietly

LEMMA ListKeeps ==
  ASSUME ReviewInv, AnswerList
  PROVE  ReviewInv'
<1>1. TypeOK /\ PendingOK
  BY DEF ReviewInv
<1>2. /\ IndexTyped /\ PanelTyped /\ FlagsTyped /\ BoundsTyped /\ store \in [Keys -> Scaffold]
  BY <1>1, TypeParts
<1>3. /\ queue # <<>> /\ call.cmd = "list"
      /\ UNCHANGED <<store, activeKey, activeRoutine, verifying, report, actions, unaudited, strayed>>
  BY DEF AnswerList, Serving
<1>4. call \in Calls /\ Good(call, store)
  BY <1>1, <1>3, ServedCall
<1>5. Kept
  BY <1>1, <1>3, NoScaffoldDropped
<1>6. faults' \in 0..MaxFaults
  BY <1>1, <1>2, FaultBounds DEF AnswerList, BoundsTyped
<1>7. FlagsTyped' /\ BoundsTyped'
  BY <1>2, <1>3, <1>6 DEF FlagsTyped, BoundsTyped
<1>8. PICK answer \in {Index(store), NoIndex("failed")} : AfterList(answer)
  BY DEF AnswerList
<1>9. \A s \in {answer, scaffolds, NoIndex("loading")} :
        s \in [status: {"loading", "empty", "success", "failed"}, of: [Keys -> Scaffold]]
  BY <1>2, <1>8, IndexesTyped DEF IndexTyped
<1>10. CASE call.step = "first"
  <2> DEFINE d == Call("load", activeKey, call.by)
  <2>1. activeKey \in Keys /\ call.by \in Runners \cup {"page"}
    BY <1>2, <1>4 DEF FlagsTyped, Calls
  <2>2. d \in Calls /\ d.cmd = "load" /\ d.key = activeKey
    BY <2>1, CallTyped
  <2>3. queue' = Append(rest, d) /\ scaffolds' = answer /\ panel' = Loading
    BY <1>8, <1>10 DEF AfterList
  <2> HIDE DEF d
  <2>4. Good(d, store')
    BY <2>1, <2>2 DEF Good, Past
  <2>5. queue' \in Seq(Calls) /\ PendingOK'
    BY <1>1, <1>3, <1>5, <2>2, <2>3, <2>4, QueueGoesOn
  <2>6. IndexTyped' /\ PanelTyped'
    BY <1>9, <2>3 DEF IndexTyped, PanelTyped
  <2> QED BY <1>3, <1>5, <1>7, <2>5, <2>6, QuietlyKeeps DEF Quietly
<1>11. CASE call.step = "inner" /\ IsDaily(call.by)
  <2> DEFINE d == [call EXCEPT !.step = "index"]
  <2>1. /\ d \in Calls /\ d.cmd = "list" /\ d.by = call.by /\ d.key = call.key /\ d.res = call.res
        /\ d.loaded = call.loaded /\ d.step = "index"
    BY <1>3, <1>4 DEF Calls
  <2>2. queue' = Append(rest, d) /\ scaffolds' = NoIndex("loading") /\ UNCHANGED panel
    BY <1>8, <1>11 DEF AfterList
  <2> HIDE DEF d
  <2>3. call.by # "page"
    BY <1>11 DEF IsDaily
  <2>4. Good(d, store')
    BY <1>3, <1>4, <1>11, <2>1, <2>3 DEF Good, Past
  <2>5. queue' \in Seq(Calls) /\ PendingOK'
    BY <1>1, <1>3, <1>5, <2>1, <2>2, <2>4, QueueGoesOn
  <2>6. IndexTyped' /\ PanelTyped'
    BY <1>2, <1>9, <2>2 DEF IndexTyped, PanelTyped
  <2> QED BY <1>3, <1>5, <1>7, <2>5, <2>6, QuietlyKeeps DEF Quietly
<1>12. CASE call.step # "first" /\ ~(call.step = "inner" /\ IsDaily(call.by))
  <2> DEFINE d == [call EXCEPT !.cmd = "checkpoint", !.step = "none"]
  <2>1. /\ d \in Calls /\ d.cmd = "checkpoint" /\ d.by = call.by /\ d.key = call.key
        /\ d.res = call.res /\ d.loaded = call.loaded
    BY <1>4 DEF Calls
  <2>2. /\ queue' = IF call.by = "page" THEN rest ELSE Append(rest, d)
        /\ scaffolds' = answer /\ UNCHANGED panel
    BY <1>8, <1>12 DEF AfterList
  <2> HIDE DEF d
  <2>3. queue' \in Seq(Calls) /\ PendingOK'
    <3>1. CASE call.by = "page"
      <4>1. Good(call, store')
        BY <1>3, <1>4
      <4> QED BY <1>1, <1>3, <1>4, <1>5, <2>2, <3>1, <4>1, QueueGoesOn
    <3>2. CASE call.by # "page"
      <4>1. call.step \in {"none", "first", "inner", "index"}
        BY <1>4 DEF Calls
      <4>2. call.step \in {"inner", "index"}
        BY <1>3, <1>4, <1>12, <3>2, <4>1 DEF Good
      <4>3. Good(d, store')
        BY <1>3, <1>4, <2>1, <3>2, <4>2 DEF Good, Past
      <4> QED BY <1>1, <1>3, <1>5, <2>1, <2>2, <3>2, <4>3, QueueGoesOn
    <3> QED BY <3>1, <3>2
  <2>4. IndexTyped' /\ PanelTyped'
    BY <1>2, <1>9, <2>2 DEF IndexTyped, PanelTyped
  <2> QED BY <1>3, <1>5, <1>7, <2>3, <2>4, QuietlyKeeps DEF Quietly
<1> QED BY <1>10, <1>11, <1>12

LEMMA CheckpointKeeps ==
  ASSUME ReviewInv, AnswerCheckpoint
  PROVE  ReviewInv'
<1>1. TypeOK /\ PendingOK /\ ReportsBacked
  BY DEF ReviewInv
<1>2. /\ IndexTyped /\ PanelTyped /\ FlagsTyped /\ BoundsTyped /\ ReportsTyped
      /\ store \in [Keys -> Scaffold]
  BY <1>1, TypeParts
<1>3. /\ queue # <<>> /\ call.cmd = "checkpoint" /\ verifying' = VerificationGoesOn(call.by)
      /\ UNCHANGED <<store, activeKey, actions, faults, unaudited, strayed>>
  BY DEF AnswerCheckpoint, Serving
<1>4. call \in Calls /\ Good(call, store)
  BY <1>1, <1>3, ServedCall
<1>5. Kept
  BY <1>1, <1>3, NoScaffoldDropped
<1>6. call.by # "page" /\ Past(call)
  BY <1>3, <1>4 DEF Good, Past
<1>7. /\ queue' \in Seq(Calls) /\ PendingOK' /\ activeRoutine' \in Routines \cup {"none"}
      /\ panel' \in {panel, Loading} /\ scaffolds' \in {scaffolds, NoIndex("loading")}
  <2>1. CASE call.by = "vdaily"
    <3>1. BeginRoutine(rest, "vplanning")
      BY <2>1 DEF AnswerCheckpoint
    <3> QED BY <1>3, <3>1, BeginShape DEF Runners
  <2>2. CASE call.by # "vdaily"
    <3>1. queue' = rest /\ activeRoutine' = "none" /\ UNCHANGED <<panel, scaffolds>>
      BY <2>2 DEF AnswerCheckpoint
    <3>2. Good(call, store')
      BY <1>3, <1>4
    <3> QED BY <1>1, <1>3, <1>4, <1>5, <3>1, <3>2, QueueGoesOn
  <2> QED BY <2>1, <2>2
<1>8. IndexTyped' /\ PanelTyped'
  BY <1>2, <1>7, IndexesTyped DEF IndexTyped, PanelTyped
<1>9. verifying' \in BOOLEAN
  BY <1>3 DEF VerificationGoesOn
<1>10. FlagsTyped' /\ BoundsTyped'
  BY <1>2, <1>3, <1>7, <1>9 DEF FlagsTyped, BoundsTyped
<1> DEFINE routine == IF IsDaily(call.by) THEN "daily" ELSE "planning"
<1>11. PICK res \in Outcomes :
         report' = [report EXCEPT ![routine] =
           [key |-> call.key, status |-> FinalStatus({call.res, res}), loaded |-> call.loaded]]
  BY DEF AnswerCheckpoint, Outcomes
<1> DEFINE status == FinalStatus({call.res, res})
           new == [key |-> call.key, status |-> status, loaded |-> call.loaded]
<1>12. status \in Outcomes
  BY DEF FinalStatus, Outcomes
<1>13. status \in {"success", "degraded"} => call.res \notin {"permission_denied", "error"}
  BY DEF FinalStatus
<1>14. routine \in Routines
  BY DEF Routines
<1> HIDE DEF status, routine
<1>15. new \in [key: Keys \cup {NoKey}, status: Outcomes \cup {"none"}, loaded: BOOLEAN]
  BY <1>4, <1>12 DEF Calls
<1>16. new.status \in {"success", "degraded"} /\ new.loaded =>
         new.key \in Keys /\ store'[new.key] # Absent
  BY <1>3, <1>4, <1>6, <1>13 DEF Good
<1>17. report' = [report EXCEPT ![routine] = new]
  BY <1>11 DEF status
<1> HIDE DEF new
<1>18. ReportsTyped'
  BY <1>2, <1>14, <1>15, <1>17 DEF ReportsTyped
<1>19. ReportsBacked'
  <2>1. \A r \in Routines : report'[r] = IF r = routine THEN new ELSE report[r]
    BY <1>2, <1>17 DEF ReportsTyped
  <2> QED BY <1>1, <1>3, <1>16, <2>1 DEF ReportsBacked
<1>20. TypeOK'
  BY <1>5, <1>7, <1>8, <1>10, <1>18
     DEF Kept, TypeOK, PanelTyped, IndexTyped, ReportsTyped, FlagsTyped, BoundsTyped
<1> QED BY <1>7, <1>19, <1>20 DEF ReviewInv
-----------------------------------------------------------------------------
LEMMA ReviewPreserved == ReviewInv /\ [Next]_vars => ReviewInv'
<1> SUFFICES ASSUME ReviewInv, [Next]_vars PROVE ReviewInv' OBVIOUS
<1>1. CASE UNCHANGED vars
  BY <1>1 DEF vars, ReviewInv, TypeOK, PendingOK, ReportsBacked
<1> QED BY <1>1, UserKeeps, RunnersKeep, LoadKeeps, ChangesKeep, ListKeeps, CheckpointKeeps
        DEF Next, Answer

LEMMA ReviewInvariant == Spec => []ReviewInv
BY ReviewInit, ReviewPreserved, PTL DEF Spec

\* Every variable of the ticket review keeps its type.
THEOREM ReviewTypes == Spec => []TypeOK
<1>1. ReviewInv => TypeOK
  BY DEF ReviewInv
<1> QED BY <1>1, ReviewInvariant, PTL

\* A routine that reports no error for a ticket it could load leaves it with a scaffold:
\* no scaffold is dropped, and a failed create is noted by the routine.
THEOREM ReportsAreTrue == Spec => []ReportIsTrue
<1>1. ReviewInv => ReportIsTrue
  BY DEF ReviewInv, ReportsBacked, ReportIsTrue
<1> QED BY <1>1, ReviewInvariant, PTL

\* An item changes only in the scaffold it was drawn from: the store finds it by its
\* id, whatever ticket the toggle names.
THEOREM MarksStayWithScaffold == Spec => MarksLandWhereDrawn
<1>1. ReviewInv /\ [Next]_vars =>
        [\A k \in Keys :
           store[k] # Absent /\ store'[k] \cap Items # store[k] \cap Items => call.drawn = k]_vars
  <2> SUFFICES ASSUME ReviewInv, [Next]_vars, NEW k \in Keys, store[k] # Absent,
                      store'[k] \cap Items # store[k] \cap Items
               PROVE  call.drawn = k
    OBVIOUS
  <2>1. store' # store
    OBVIOUS
  <2>2. queue # <<>> /\ Change /\ Effect(call) /\ ApplyChange(call)
    BY <2>1 DEF Next, Answer, Select, Toggle, SaveField, CreateScaffold, RefreshIndex, SendFromPage,
       RunRoutine, RunVerification, AnswerLoad, AnswerChange, RefuseChange, AnswerUnaudited,
       AnswerList, AnswerCheckpoint, AnswerSurfaces, backendVars, vars
  <2>3. /\ store'[call.key] = Marked(call)
        /\ \A l \in Keys : l # call.key => store'[l] = store[l]
    BY <2>2, ChangeShape
  <2>4. k = call.key
    BY <2>3
  <2>5. call.cmd = "mark"
    BY <2>2, <2>4 DEF Change, Effect
  <2>6. call.mark \in Items
    BY <2>3, <2>4, <2>5 DEF Marked
  <2> QED BY <2>2, <2>4, <2>5, <2>6 DEF Effect, ItemIsOfTicket
<1> QED BY <1>1, ReviewInvariant, PTL DEF Spec, MarksLandWhereDrawn

-----------------------------------------------------------------------------
(***************************************************************************)
(* The views.  A call whose answer the panel shows is followed, in the     *)
(* order of the calls, by a load of the ticket that is active by then; so  *)
(* either the panel shows what it should or that load is under way.        *)
(***************************************************************************)
Shows(c) == c.cmd = "load" \/ (c.cmd \in {"create", "mark"} /\ c.by = "page")

LoadFollows ==
  \A i \in 1..Len(queue) : Shows(queue[i]) /\ queue[i].key # activeKey =>
    \E j \in (i + 1)..Len(queue) : queue[j].cmd = "load" /\ queue[j].key = activeKey

PanelCurrent ==
  /\ panel.status # "loading"
  /\ panel.status = "success" => /\ panel.marks = store[panel.key]
                                 /\ panel.key = activeKey \/ strayed
  /\ panel.status = "empty" => store[activeKey] = Absent
LoadPending == \E c \in Pending(queue) : c.cmd = "load" /\ c.key = activeKey
PanelRight == unaudited \/ PanelCurrent \/ LoadPending

IndexCurrent == scaffolds.status = "failed" \/ scaffolds = Index(store)
ListPending == \E c \in Pending(queue) : c.cmd = "list"
IndexRight == unaudited \/ IndexCurrent \/ ListPending

ViewInv == LoadFollows /\ PanelRight /\ IndexRight

LEMMA PendingOf ==
  ASSUME NEW q \in Seq(Calls)
  PROVE  /\ \A c \in Calls : Pending(Append(q, c)) = Pending(q) \cup {c}
         /\ q # <<>> => Pending(q) = {Head(q)} \cup Pending(Tail(q))
<1>0. Len(q) \in Nat
  OBVIOUS
<1>1. ASSUME NEW c \in Calls
      PROVE  Pending(Append(q, c)) = Pending(q) \cup {c}
  <2>1. /\ Len(Append(q, c)) = Len(q) + 1
        /\ \A n \in 1..Len(q) : Append(q, c)[n] = q[n] /\ n \in 1..Len(q) + 1
        /\ Append(q, c)[Len(q) + 1] = c /\ Len(q) + 1 \in 1..Len(q) + 1
        /\ \A n \in 1..Len(q) + 1 : n \in 1..Len(q) \/ n = Len(q) + 1
    OBVIOUS
  <2>2. Pending(Append(q, c)) \subseteq Pending(q) \cup {c}
    BY <2>1 DEF Pending
  <2>3. Pending(q) \subseteq Pending(Append(q, c)) /\ c \in Pending(Append(q, c))
    BY <2>1 DEF Pending
  <2> QED BY <2>2, <2>3
<1>2. ASSUME q # <<>>
      PROVE  Pending(q) \subseteq {Head(q)} \cup Pending(Tail(q))
  <2> SUFFICES ASSUME NEW n \in 1..Len(q), n # 1
               PROVE  q[n] \in Pending(Tail(q))
    BY <1>2 DEF Pending
  <2>1. n - 1 \in 1..Len(Tail(q)) /\ Tail(q)[n - 1] = q[n]
    BY <1>2
  <2> QED BY <2>1 DEF Pending
<1>3. q # <<>> => Head(q) \in Pending(q) /\ Pending(Tail(q)) \subseteq Pending(q)
  BY Served
<1> QED BY <1>1, <1>2, <1>3

LEMMA LoadsAtTheEnd ==
  ASSUME queue \in Seq(Calls), NEW c \in Calls, c.cmd = "load", c.key = activeKey',
         NEW q \in Seq(Calls), queue' = Append(q, c)
  PROVE  LoadFollows' /\ LoadPending'
<1>1. /\ Len(queue') = Len(q) + 1 /\ Len(q) \in Nat /\ queue'[Len(q) + 1] = c
  OBVIOUS
<1>2. ASSUME NEW i \in 1..Len(queue'), queue'[i].key # activeKey'
      PROVE  Len(q) + 1 \in (i + 1)..Len(queue')
  <2>1. i # Len(q) + 1
    BY <1>1, <1>2
  <2> QED BY <1>1, <2>1
<1>3. LoadFollows'
  BY <1>1, <1>2 DEF LoadFollows
<1>4. LoadPending'
  BY PendingOf DEF LoadPending, Pending
<1> QED BY <1>3, <1>4

\* What is left of the queue when its first call is served.
LEMMA FollowsInRest ==
  ASSUME queue \in Seq(Calls), LoadFollows, queue # <<>>
  PROVE  /\ \A i \in 1..Len(rest) : Shows(rest[i]) /\ rest[i].key # activeKey =>
              \E j \in (i + 1)..Len(rest) : rest[j].cmd = "load" /\ rest[j].key = activeKey
         /\ Shows(call) /\ call.key # activeKey =>
              \E c \in Pending(rest) : c.cmd = "load" /\ c.key = activeKey
<1>1. /\ rest \in Seq(Calls) /\ Len(queue) \in Nat \ {0} /\ Len(rest) = Len(queue) - 1
      /\ call = queue[1] /\ \A n \in 1..Len(rest) : rest[n] = queue[n + 1]
  BY DEF rest, call
<1>2. ASSUME NEW i \in 1..Len(queue), Shows(queue[i]), queue[i].key # activeKey
      PROVE  \E j \in i..Len(rest) : rest[j].cmd = "load" /\ rest[j].key = activeKey
  <2>1. PICK j \in (i + 1)..Len(queue) : queue[j].cmd = "load" /\ queue[j].key = activeKey
    BY <1>2 DEF LoadFollows
  <2>2. j - 1 \in i..Len(rest) /\ j - 1 \in 1..Len(rest) /\ (j - 1) + 1 = j
    BY <1>1
  <2>3. rest[j - 1] = queue[j]
    BY <1>1, <2>2
  <2> QED BY <2>1, <2>2, <2>3
<1>3. ASSUME NEW i \in 1..Len(rest), Shows(rest[i]), rest[i].key # activeKey
      PROVE  \E j \in (i + 1)..Len(rest) : rest[j].cmd = "load" /\ rest[j].key = activeKey
  <2>1. i + 1 \in 1..Len(queue) /\ rest[i] = queue[i + 1]
    BY <1>1
  <2> QED BY <1>2, <1>3, <2>1
<1>4. ASSUME Shows(call), call.key # activeKey
      PROVE  \E c \in Pending(rest) : c.cmd = "load" /\ c.key = activeKey
  <2>1. 1 \in 1..Len(queue)
    BY <1>1
  <2>2. PICK j \in 1..Len(rest) : rest[j].cmd = "load" /\ rest[j].key = activeKey
    BY <1>1, <1>2, <1>4, <2>1
  <2> QED BY <2>2 DEF Pending
<1> QED BY <1>3, <1>4

\* The call that follows is about the active ticket, or the panel does not show it.
LEMMA FollowsOn ==
  ASSUME queue \in Seq(Calls), LoadFollows, activeKey' = activeKey,
         NEW q, q = queue \/ (queue # <<>> /\ q = rest), NEW c \in Calls,
         queue' = q \/ (queue' = Append(q, c) /\ (Shows(c) => c.key = activeKey))
  PROVE  LoadFollows'
<1>1. /\ q \in Seq(Calls)
      /\ \A i \in 1..Len(q) : Shows(q[i]) /\ q[i].key # activeKey =>
           \E j \in (i + 1)..Len(q) : q[j].cmd = "load" /\ q[j].key = activeKey
  <2>1. CASE q = queue
    BY <2>1 DEF LoadFollows
  <2>2. CASE queue # <<>> /\ q = rest
    <3>1. rest \in Seq(Calls)
      BY <2>2 DEF rest
    <3> QED BY <2>2, <3>1, FollowsInRest
  <2> QED BY <2>1, <2>2
<1>2. CASE queue' = q
  BY <1>1, <1>2 DEF LoadFollows
<1>3. CASE queue' = Append(q, c) /\ (Shows(c) => c.key = activeKey)
  <2>1. /\ Len(queue') = Len(q) + 1 /\ Len(q) \in Nat /\ queue'[Len(q) + 1] = c
        /\ \A n \in 1..Len(q) : queue'[n] = q[n]
    BY <1>1, <1>3
  <2>2. ASSUME NEW i \in 1..Len(queue'), Shows(queue'[i]), queue'[i].key # activeKey
        PROVE  \E j \in (i + 1)..Len(queue') : queue'[j].cmd = "load" /\ queue'[j].key = activeKey
    <3>1. i # Len(q) + 1
      BY <1>3, <2>1, <2>2
    <3>2. i \in 1..Len(q) /\ queue'[i] = q[i]
      BY <2>1, <3>1
    <3>3. PICK j \in (i + 1)..Len(q) : q[j].cmd = "load" /\ q[j].key = activeKey
      BY <1>1, <2>2, <3>2
    <3>4. j \in (i + 1)..Len(queue') /\ j \in 1..Len(q)
      BY <2>1, <3>2
    <3> QED BY <2>1, <3>3, <3>4
  <2> QED BY <2>2 DEF LoadFollows
<1> QED BY <1>2, <1>3

\* A step that changes no scaffold, and neither view without a call that sets it.
LEMMA GoesOn ==
  ASSUME TypeOK, ViewInv, UNCHANGED <<store, activeKey, strayed, unaudited>>,
         NEW q, q = queue \/ (queue # <<>> /\ q = rest /\ call.cmd \notin {"load", "list"}),
         NEW c \in Calls,
         \/ queue' = q /\ UNCHANGED <<panel, scaffolds>>
         \/ /\ queue' = Append(q, c)
            /\ Shows(c) => c.key = activeKey
            /\ panel' = panel \/ (c.cmd = "load" /\ c.key = activeKey)
            /\ scaffolds' = scaffolds \/ c.cmd = "list"
  PROVE  ViewInv'
<1>1. queue \in Seq(Calls)
  BY DEF TypeOK
<1>2. /\ q \in Seq(Calls)
      /\ \A d \in Pending(queue) : d.cmd \in {"load", "list"} => d \in Pending(q)
  <2>1. CASE q = queue
    BY <1>1, <2>1
  <2>2. CASE queue # <<>> /\ q = rest /\ call.cmd \notin {"load", "list"}
    BY <1>1, <2>2, PendingOf DEF rest, call
  <2> QED BY <2>1, <2>2
<1>3. LoadFollows'
  BY <1>1, FollowsOn DEF ViewInv
<1>4. /\ Pending(queue)' = Pending(queue')
      /\ Pending(queue') = Pending(q) \/ Pending(queue') = Pending(q) \cup {c}
      /\ queue' = q \/ c \in Pending(queue')
  <2>1. Pending(queue)' = Pending(queue')
    BY DEF Pending
  <2>2. Pending(Append(q, c)) = Pending(q) \cup {c}
    BY <1>2, PendingOf
  <2>3. queue' = q \/ queue' = Append(q, c)
    OBVIOUS
  <2>4. CASE queue' = q
    BY <2>1, <2>4
  <2>5. CASE queue' = Append(q, c)
    BY <2>1, <2>2, <2>5
  <2> QED BY <2>3, <2>4, <2>5
<1>5. LoadPending => LoadPending'
  BY <1>2, <1>4 DEF LoadPending
<1>6. ListPending => ListPending'
  BY <1>2, <1>4 DEF ListPending
<1>7. panel' = panel \/ LoadPending'
  <2>1. CASE queue' = q /\ UNCHANGED <<panel, scaffolds>>
    BY <2>1
  <2>2. CASE queue' = Append(q, c) /\ c.cmd = "load" /\ c.key = activeKey
    <3>1. c \in Pending(queue')
      BY <1>2, <2>2, PendingOf
    <3> QED BY <1>4, <2>2, <3>1 DEF LoadPending
  <2> QED BY <2>1, <2>2
<1>8. scaffolds' = scaffolds \/ ListPending'
  <2>1. CASE queue' = q /\ UNCHANGED <<panel, scaffolds>>
    BY <2>1
  <2>2. CASE queue' = Append(q, c) /\ c.cmd = "list"
    <3>1. c \in Pending(queue')
      BY <1>2, <2>2, PendingOf
    <3> QED BY <1>4, <2>2, <3>1 DEF ListPending
  <2> QED BY <2>1, <2>2
<1>9. PanelRight'
  BY <1>5, <1>7 DEF ViewInv, PanelRight, PanelCurrent
<1>10. IndexRight'
  BY <1>6, <1>8 DEF ViewInv, IndexRight, IndexCurrent, Index, Present
<1> QED BY <1>3, <1>9, <1>10 DEF ViewInv

\* What a routine sends next.
LEMMA EnsuredSends ==
  ASSUME NEW c \in Calls, ScaffoldEnsured(c)
  PROVE  \E d \in Calls : /\ queue' = Append(rest, d) /\ ~Shows(d)
                          /\ scaffolds' = scaffolds \/ d.cmd = "list"
                          /\ d.cmd # "load"
<1>1. CASE IsDaily(c.by)
  <2> DEFINE d == [c EXCEPT !.cmd = "list", !.step = "index"]
  <2>1. d \in Calls /\ d.cmd = "list"
    BY DEF Calls
  <2>2. queue' = Append(rest, d)
    BY <1>1 DEF ScaffoldEnsured
  <2> HIDE DEF d
  <2> QED BY <2>1, <2>2 DEF Shows
<1>2. CASE ~IsDaily(c.by)
  <2> DEFINE d == [c EXCEPT !.cmd = "checkpoint"]
  <2>1. d \in Calls /\ d.cmd = "checkpoint"
    BY DEF Calls
  <2>2. queue' = Append(rest, d) /\ scaffolds' = scaffolds
    BY <1>2 DEF ScaffoldEnsured
  <2> HIDE DEF d
  <2> QED BY <2>1, <2>2 DEF Shows
<1> QED BY <1>1, <1>2

LEMMA BeginSends ==
  ASSUME TypeOK, NEW q, NEW by \in Runners, BeginRoutine(q, by)
  PROVE  \E d \in Calls : /\ queue' = Append(q, d)
                          /\ Shows(d) => d.key = activeKey
                          /\ panel' = panel \/ (d.cmd = "load" /\ d.key = activeKey)
                          /\ scaffolds' = scaffolds \/ d.cmd = "list"
<1>1. CASE IsDaily(by)
  <2> DEFINE d == Call("load", activeKey, by)
  <2>1. activeKey \in Keys \cup {NoKey}
    BY DEF TypeOK
  <2>2. d \in Calls /\ d.cmd = "load" /\ d.key = activeKey
    BY <2>1, CallTyped
  <2>3. queue' = Append(q, d) /\ scaffolds' = scaffolds
    BY <1>1 DEF BeginRoutine
  <2> HIDE DEF d
  <2> QED BY <2>2, <2>3
<1>2. CASE ~IsDaily(by)
  <2> DEFINE l == Call("list", NoKey, by)
             d == [l EXCEPT !.step = "first"]
  <2>1. l \in Calls /\ l.cmd = "list"
    BY CallTyped
  <2>2. queue' = Append(q, d) /\ panel' = panel
    BY <1>2 DEF BeginRoutine
  <2> HIDE DEF l
  <2>3. d \in Calls /\ d.cmd = "list"
    BY <2>1 DEF Calls
  <2> HIDE DEF d
  <2> QED BY <2>2, <2>3 DEF Shows
<1> QED BY <1>1, <1>2

LEMMA InitViews == Init => ViewInv
<1> SUFFICES ASSUME Init PROVE ViewInv OBVIOUS
<1> DEFINE a == Call("list", NoKey, "page")
           b == Call("load", FirstKey, "page")
<1>1. /\ a \in Calls /\ a.cmd = "list" /\ b \in Calls /\ b.cmd = "load" /\ b.key = FirstKey
      /\ queue = <<a, b>> /\ activeKey = FirstKey
  BY CallTyped, ReviewAssumption DEF Init
<1> HIDE DEF a, b
<1>2. LoadFollows
  <2>1. \A i \in 1..Len(queue) : queue[i] = a \/ queue[i] = b
    BY <1>1
  <2> QED BY <1>1, <2>1 DEF LoadFollows, Shows
<1>3. a \in Pending(queue) /\ b \in Pending(queue)
  BY <1>1 DEF Pending
<1> QED BY <1>1, <1>2, <1>3 DEF ViewInv, PanelRight, IndexRight, LoadPending, ListPending

LEMMA SelectViews ==
  ASSUME ReviewInv, ViewInv, NEW k \in Keys, Select(k)
  PROVE  ViewInv'
<1> DEFINE c == Call("load", k, "page")
<1>1. /\ queue' = Append(queue, c) /\ activeKey' = k /\ UNCHANGED <<store, scaffolds, unaudited>>
  BY DEF Select, backendVars
<1>2. c \in Calls /\ c.cmd = "load" /\ c.key = k
  BY CallTyped
<1> HIDE DEF c
<1>3. queue \in Seq(Calls)
  BY DEF ReviewInv, TypeOK
<1>4. LoadFollows' /\ LoadPending'
  BY <1>1, <1>2, <1>3, LoadsAtTheEnd
<1>5. Pending(queue') = Pending(queue) \cup {c}
  BY <1>1, <1>2, <1>3, PendingOf
<1>6. ListPending => ListPending'
  <2>1. Pending(queue)' = Pending(queue')
    BY DEF Pending
  <2> QED BY <1>5, <2>1 DEF ListPending
<1> QED BY <1>1, <1>4, <1>6 DEF ViewInv, PanelRight, IndexRight, IndexCurrent, Index, Present

LEMMA UserViews ==
  ASSUME ReviewInv, ViewInv,
         \/ \E i \in Items : Toggle(i)
         \/ \E f \in Fields, filled \in BOOLEAN : SaveField(f, filled)
         \/ CreateScaffold \/ RefreshIndex
         \/ \E r \in Routines : RunRoutine(r)
         \/ RunVerification \/ AnswerSurfaces
  PROVE  ViewInv'
<1>1. TypeOK
  BY DEF ReviewInv
<1>2. activeKey \in Keys \cup {NoKey}
  BY <1>1 DEF TypeOK
<1>3. ASSUME NEW c \in Calls, SendFromPage(c), Shows(c) => c.key = activeKey,
             UNCHANGED scaffolds \/ c.cmd = "list"
      PROVE  ViewInv'
  <2>1. /\ queue' = Append(queue, c) /\ panel' = panel
        /\ UNCHANGED <<store, activeKey, strayed, unaudited>>
    BY <1>3 DEF SendFromPage, backendVars
  <2> QED BY <1>1, <1>3, <2>1, GoesOn
<1>4. ASSUME NEW i \in Items, Toggle(i) PROVE ViewInv'
  <2> DEFINE m == Call("mark", activeKey, "page")
             on == i \notin panel.marks
             c == [m EXCEPT !.drawn = panel.key, !.mark = i, !.on = on]
  <2>1. m \in Calls /\ m.key = activeKey
    BY <1>2, CallTyped
  <2>2. panel.key \in Keys /\ on \in BOOLEAN
    <3>1. PanelTyped /\ panel.status = "success"
      BY <1>1, <1>4, TypeParts DEF Toggle
    <3>2. Loading.status # "success" /\ Failed.status # "success" /\ Empty.status # "success"
      BY DEF Loading, Failed, Empty, Shown
    <3>3. PICK k \in Keys, marks \in SUBSET Marks : panel = ToScaffoldView(k, marks)
      BY <3>1, <3>2 DEF PanelTyped
    <3> QED BY <3>3 DEF ToScaffoldView, Shown
  <2>3. SendFromPage(c) /\ UNCHANGED scaffolds
    BY <1>4 DEF Toggle
  <2> HIDE DEF m, on
  <2>4. c \in Calls /\ c.key = activeKey
    BY <2>1, <2>2 DEF Calls, Marks
  <2> HIDE DEF c
  <2> QED BY <1>3, <2>3, <2>4
<1>5. ASSUME NEW f \in Fields, NEW filled \in BOOLEAN, SaveField(f, filled) PROVE ViewInv'
  <2> DEFINE m == Call("mark", activeKey, "page")
             c == [m EXCEPT !.mark = f, !.on = filled]
  <2>1. m \in Calls /\ m.key = activeKey
    BY <1>2, CallTyped
  <2>2. SendFromPage(c) /\ UNCHANGED scaffolds
    BY <1>5 DEF SaveField
  <2> HIDE DEF m
  <2>3. c \in Calls /\ c.key = activeKey
    BY <2>1 DEF Calls, Marks
  <2> HIDE DEF c
  <2> QED BY <1>3, <2>2, <2>3
<1>6. CASE CreateScaffold
  <2>1. Call("create", activeKey, "page") \in Calls /\ Call("create", activeKey, "page").key = activeKey
    BY <1>2, CallTyped
  <2> QED BY <1>3, <1>6, <2>1 DEF CreateScaffold
<1>7. CASE RefreshIndex
  <2>1. Call("list", NoKey, "page") \in Calls /\ Call("list", NoKey, "page").cmd = "list"
    BY CallTyped
  <2> QED BY <1>3, <1>7, <2>1 DEF RefreshIndex, Shows
<1>8. ASSUME NEW r \in Routines, RunRoutine(r) PROVE ViewInv'
  <2>1. BeginRoutine(queue, r) /\ UNCHANGED <<store, activeKey, strayed, unaudited>> /\ r \in Runners
    BY <1>8 DEF RunRoutine, backendVars, Runners
  <2>2. PICK d \in Calls : /\ queue' = Append(queue, d)
                           /\ Shows(d) => d.key = activeKey
                           /\ panel' = panel \/ (d.cmd = "load" /\ d.key = activeKey)
                           /\ scaffolds' = scaffolds \/ d.cmd = "list"
    BY <1>1, <2>1, BeginSends
  <2> QED BY <1>1, <2>1, <2>2, GoesOn
<1>9. CASE RunVerification
  <2> DEFINE c == Call("surfaces", NoKey, "vdaily")
  <2>1. c \in Calls /\ c.cmd = "surfaces"
    BY CallTyped DEF Runners
  <2>2. /\ queue' = Append(queue, c)
        /\ UNCHANGED <<store, activeKey, strayed, unaudited, panel, scaffolds>>
    BY <1>9 DEF RunVerification, backendVars
  <2> HIDE DEF c
  <2>3. ~Shows(c)
    BY <2>1 DEF Shows
  <2> QED BY <1>1, <2>1, <2>2, <2>3, GoesOn
<1>10. CASE AnswerSurfaces
  <2>1. /\ queue # <<>> /\ call.cmd = "surfaces" /\ BeginRoutine(rest, "vdaily") /\ "vdaily" \in Runners
        /\ UNCHANGED <<store, activeKey, strayed, unaudited>>
    BY <1>10 DEF AnswerSurfaces, Serving, Runners
  <2>2. PICK d \in Calls : /\ queue' = Append(rest, d)
                           /\ Shows(d) => d.key = activeKey
                           /\ panel' = panel \/ (d.cmd = "load" /\ d.key = activeKey)
                           /\ scaffolds' = scaffolds \/ d.cmd = "list"
    BY <1>1, <2>1, BeginSends
  <2> QED BY <1>1, <2>1, <2>2, GoesOn
<1> QED BY <1>4, <1>5, <1>6, <1>7, <1>8, <1>9, <1>10

\* A refused or unaudited change: the page's flow ends, a routine goes on.
LEMMA NotChangedSends ==
  ASSUME ReviewInv, queue # <<>>, Change, NotChanged(call)
  PROVE  \/ queue' = rest /\ UNCHANGED scaffolds
         \/ \E d \in Calls : /\ queue' = Append(rest, d) /\ ~Shows(d)
                             /\ scaffolds' = scaffolds \/ d.cmd = "list"
<1>1. call \in Calls
  BY ServedCall DEF ReviewInv
<1>2. CASE call.by = "page"
  BY <1>2 DEF NotChanged
<1>3. CASE call.by # "page"
  <2>1. PICK res \in {"permission_denied", "error"} : ScaffoldEnsured([call EXCEPT !.res = res])
    BY <1>3 DEF NotChanged
  <2> DEFINE d == [call EXCEPT !.res = res]
  <2>2. d \in Calls
    BY <1>1 DEF Calls, Outcomes
  <2>3. ScaffoldEnsured(d)
    BY <2>1
  <2> HIDE DEF d
  <2> QED BY <2>2, <2>3, EnsuredSends
<1> QED BY <1>2, <1>3

LEMMA UnchangedViews ==
  ASSUME ReviewInv, ViewInv, RefuseChange \/ AnswerUnaudited
  PROVE  ViewInv'
<1>1. TypeOK /\ queue \in Seq(Calls)
  BY DEF ReviewInv, TypeOK
<1>2. queue # <<>> /\ Change /\ NotChanged(call) /\ UNCHANGED <<activeKey, panel, strayed>>
  BY DEF RefuseChange, AnswerUnaudited
<1>3. call \in Calls
  BY <1>1, <1>2, ServedCall DEF ReviewInv
<1>4. call.cmd \notin {"load", "list"}
  BY <1>2 DEF Change
<1>5. \/ queue' = rest /\ UNCHANGED scaffolds
      \/ \E d \in Calls : /\ queue' = Append(rest, d) /\ ~Shows(d)
                          /\ scaffolds' = scaffolds \/ d.cmd = "list"
  BY <1>2, NotChangedSends
<1>6. CASE RefuseChange
  <2>1. UNCHANGED <<store, unaudited>>
    BY <1>6 DEF RefuseChange
  <2>2. CASE queue' = rest /\ UNCHANGED scaffolds
    BY <1>1, <1>2, <1>3, <1>4, <2>1, <2>2, GoesOn
  <2>3. ASSUME NEW d \in Calls, queue' = Append(rest, d), ~Shows(d), scaffolds' = scaffolds \/ d.cmd = "list"
        PROVE  ViewInv'
    BY <1>1, <1>2, <1>4, <2>1, <2>3, GoesOn
  <2> QED BY <1>5, <2>2, <2>3
<1>7. CASE AnswerUnaudited
  <2>1. unaudited'
    BY <1>7 DEF AnswerUnaudited
  <2>2. LoadFollows'
    <3>1. CASE queue' = rest
      BY <1>1, <1>2, <1>3, <3>1, FollowsOn DEF ViewInv
    <3>2. ASSUME NEW d \in Calls, queue' = Append(rest, d), ~Shows(d)
          PROVE  LoadFollows'
      BY <1>1, <1>2, <3>2, FollowsOn DEF ViewInv
    <3> QED BY <1>5, <3>1, <3>2
  <2> QED BY <2>1, <2>2 DEF ViewInv, PanelRight, IndexRight
<1> QED BY <1>6, <1>7

\* The panel is given the scaffold of the call's ticket; if that is not the active
\* one, a load of the active one follows or a routine has strayed.
LEMMA ChangeViews ==
  ASSUME ReviewInv, ViewInv, AnswerChange
  PROVE  ViewInv'
<1> DEFINE d == [call EXCEPT !.cmd = "list", !.step = "inner"]
<1>1. /\ queue # <<>> /\ Change /\ Effect(call) /\ ApplyChange(call) /\ ListAfter(call)
      /\ panel' = ToScaffoldView(call.key, Marked(call))
      /\ strayed' = (call.by # "page" /\ call.key # activeKey)
      /\ UNCHANGED <<activeKey, unaudited>>
  BY DEF AnswerChange
<1>2. call \in Calls /\ call.key \in Keys /\ store'[call.key] = Marked(call)
  BY <1>1, ChangeShape
<1>3. queue' = Append(rest, d)
  BY <1>1 DEF ListAfter
<1>4. d \in Calls /\ d.cmd = "list"
  BY <1>2 DEF Calls
<1> HIDE DEF d
<1>5. queue \in Seq(Calls) /\ rest \in Seq(Calls)
  BY <1>1 DEF ReviewInv, TypeOK, rest
<1>6. LoadFollows'
  <2>1. ~Shows(d)
    BY <1>4 DEF Shows
  <2> QED BY <1>1, <1>3, <1>4, <1>5, <2>1, FollowsOn DEF ViewInv
<1>7. Pending(queue)' = Pending(rest) \cup {d}
  <2>1. Pending(queue)' = Pending(queue')
    BY DEF Pending
  <2> QED BY <1>3, <1>4, <1>5, <2>1, PendingOf
<1>8. ListPending'
  BY <1>4, <1>7 DEF ListPending
<1>9. PanelCurrent' \/ LoadPending'
  <2>1. panel'.status = "success" /\ panel'.key = call.key /\ panel'.marks = Marked(call)
    BY <1>1 DEF ToScaffoldView, Shown
  <2>2. CASE call.key = activeKey \/ call.by # "page"
    BY <1>1, <1>2, <2>1, <2>2 DEF PanelCurrent
  <2>3. CASE call.key # activeKey /\ call.by = "page"
    <3>1. Shows(call)
      BY <1>1, <2>3 DEF Shows, Change
    <3>2. \E c \in Pending(rest) : c.cmd = "load" /\ c.key = activeKey
      BY <1>1, <1>5, <2>3, <3>1, FollowsInRest DEF ViewInv
    <3> QED BY <1>1, <1>7, <3>2 DEF LoadPending
  <2> QED BY <2>2, <2>3
<1> QED BY <1>6, <1>8, <1>9 DEF ViewInv, PanelRight, IndexRight

LEMMA LoadViews ==
  ASSUME ReviewInv, ViewInv, AnswerLoad
  PROVE  ViewInv'
<1>1. /\ queue # <<>> /\ call.cmd = "load"
      /\ panel' = Loaded(call.key) \/ panel' = Failed
      /\ UNCHANGED <<store, activeKey, unaudited>>
  BY DEF AnswerLoad, Serving
<1>2. TypeOK /\ queue \in Seq(Calls) /\ rest \in Seq(Calls) /\ call \in Calls
  BY <1>1, ServedCall DEF ReviewInv, TypeOK, rest
<1>3. \/ queue' = rest /\ UNCHANGED scaffolds
      \/ \E d \in Calls : /\ queue' = Append(rest, d) /\ ~Shows(d)
                          /\ scaffolds' = scaffolds \/ d.cmd = "list"
  <2>1. CASE call.by = "page"
    BY <2>1 DEF AnswerLoad
  <2>2. CASE call.by # "page" /\ panel' = Empty
    <3> DEFINE d == [call EXCEPT !.cmd = "create"]
    <3>1. d \in Calls /\ d.cmd = "create" /\ d.by = call.by
      BY <1>2 DEF Calls
    <3>2. queue' = Append(rest, d) /\ UNCHANGED scaffolds
      BY <2>2 DEF AnswerLoad
    <3> HIDE DEF d
    <3> QED BY <2>2, <3>1, <3>2 DEF Shows
  <2>3. CASE call.by # "page" /\ panel' # Empty
    <3> DEFINE found == panel' # Failed
               d == [call EXCEPT !.loaded = found]
    <3>1. found \in BOOLEAN /\ ScaffoldEnsured(d)
      BY <2>3 DEF AnswerLoad
    <3> HIDE DEF found
    <3>2. d \in Calls
      BY <1>2, <3>1 DEF Calls
    <3> HIDE DEF d
    <3> QED BY <3>1, <3>2, EnsuredSends
  <2> QED BY <2>1, <2>2, <2>3
<1>4. LoadFollows'
  <2>1. CASE queue' = rest
    BY <1>1, <1>2, <2>1, FollowsOn DEF ViewInv
  <2>2. ASSUME NEW d \in Calls, queue' = Append(rest, d), ~Shows(d)
        PROVE  LoadFollows'
    BY <1>1, <1>2, <2>2, FollowsOn DEF ViewInv
  <2> QED BY <1>3, <2>1, <2>2
<1>5. /\ Pending(queue) = {call} \cup Pending(rest) /\ Pending(rest) \subseteq Pending(queue)'
      /\ scaffolds' = scaffolds \/ ListPending'
  <2>1. Pending(queue)' = Pending(queue')
    BY DEF Pending
  <2>2. Pending(queue) = {call} \cup Pending(rest)
    BY <1>1, <1>2, PendingOf DEF call, rest
  <2>3. CASE queue' = rest /\ UNCHANGED scaffolds
    BY <2>1, <2>2, <2>3
  <2>4. ASSUME NEW d \in Calls, queue' = Append(rest, d), scaffolds' = scaffolds \/ d.cmd = "list"
        PROVE  Pending(rest) \subseteq Pending(queue)' /\ (scaffolds' = scaffolds \/ ListPending')
    <3>1. Pending(queue)' = Pending(rest) \cup {d}
      BY <1>2, <2>1, <2>4, PendingOf
    <3> QED BY <2>4, <3>1 DEF ListPending
  <2> QED BY <1>3, <2>2, <2>3, <2>4
<1>6. IndexRight'
  <2>1. ListPending => ListPending'
    BY <1>1, <1>5 DEF ListPending
  <2> QED BY <1>1, <1>5, <2>1 DEF ViewInv, IndexRight, IndexCurrent, Index, Present
<1>7. PanelCurrent' \/ LoadPending'
  <2>1. CASE call.key = activeKey
    <3>1. panel' = Failed => panel'.status = "failed"
      BY DEF Failed, Shown
    <3>2. panel' = Loaded(call.key) /\ store[call.key] = Absent => panel'.status = "empty"
      BY DEF Loaded, Empty, Shown
    <3>3. panel' = Loaded(call.key) /\ store[call.key] # Absent =>
            panel'.status = "success" /\ panel'.key = call.key /\ panel'.marks = store[call.key]
      BY DEF Loaded, ToScaffoldView, Shown
    <3> QED BY <1>1, <2>1, <3>1, <3>2, <3>3 DEF PanelCurrent
  <2>2. CASE call.key # activeKey
    <3>1. \E c \in Pending(rest) : c.cmd = "load" /\ c.key = activeKey
      BY <1>1, <1>2, <2>2, FollowsInRest DEF ViewInv, Shows
    <3> QED BY <1>1, <1>5, <3>1 DEF LoadPending
  <2> QED BY <2>1, <2>2
<1> QED BY <1>4, <1>6, <1>7 DEF ViewInv, PanelRight

LEMMA ListViews ==
  ASSUME ReviewInv, ViewInv, AnswerList
  PROVE  ViewInv'
<1>1. /\ queue # <<>> /\ call.cmd = "list" /\ UNCHANGED <<store, activeKey, strayed, unaudited>>
  BY DEF AnswerList, Serving
<1>2. TypeOK /\ queue \in Seq(Calls) /\ rest \in Seq(Calls) /\ call \in Calls /\ activeKey \in Keys
  BY <1>1, ServedCall DEF ReviewInv, TypeOK, rest
<1>3. PICK answer \in {Index(store), NoIndex("failed")} : AfterList(answer)
  BY DEF AnswerList
<1>4. \/ queue' = rest /\ scaffolds' = answer /\ UNCHANGED panel
      \/ \E d \in Calls : /\ queue' = Append(rest, d)
                          /\ Shows(d) => d.cmd = "load" /\ d.key = activeKey
                          /\ panel' = panel \/ (d.cmd = "load" /\ d.key = activeKey)
                          /\ scaffolds' = answer \/ d.cmd = "list"
  <2>1. CASE call.step = "first"
    <3> DEFINE d == Call("load", activeKey, call.by)
    <3>1. call.by \in Runners \cup {"page"}
      BY <1>2 DEF Calls
    <3>2. d \in Calls /\ d.cmd = "load" /\ d.key = activeKey
      BY <1>2, <3>1, CallTyped
    <3>3. queue' = Append(rest, d) /\ scaffolds' = answer
      BY <1>3, <2>1 DEF AfterList
    <3> HIDE DEF d
    <3> QED BY <3>2, <3>3
  <2>2. CASE call.step = "inner" /\ IsDaily(call.by)
    <3> DEFINE d == [call EXCEPT !.step = "index"]
    <3>1. d \in Calls /\ d.cmd = "list"
      BY <1>1, <1>2 DEF Calls
    <3>2. queue' = Append(rest, d) /\ UNCHANGED panel
      BY <1>3, <2>2 DEF AfterList
    <3> HIDE DEF d
    <3> QED BY <3>1, <3>2 DEF Shows
  <2>3. CASE call.step # "first" /\ ~(call.step = "inner" /\ IsDaily(call.by))
    <3> DEFINE d == [call EXCEPT !.cmd = "checkpoint", !.step = "none"]
    <3>1. d \in Calls /\ d.cmd = "checkpoint"
      BY <1>2 DEF Calls
    <3>2. /\ queue' = IF call.by = "page" THEN rest ELSE Append(rest, d)
          /\ scaffolds' = answer /\ UNCHANGED panel
      BY <1>3, <2>3 DEF AfterList
    <3> HIDE DEF d
    <3> QED BY <3>1, <3>2 DEF Shows
  <2> QED BY <2>1, <2>2, <2>3
<1>5. answer.status = "failed" \/ answer = Index(store)
  BY <1>3 DEF NoIndex
<1>6. Pending(queue) = {call} \cup Pending(rest) /\ Pending(queue)' = Pending(queue')
  BY <1>1, <1>2, PendingOf DEF call, rest, Pending
<1>7. IndexCurrent' <=> scaffolds'.status = "failed" \/ scaffolds' = Index(store)
  BY <1>1 DEF IndexCurrent, Index, Present
<1>8. UNCHANGED panel => PanelCurrent' = PanelCurrent
  BY <1>1 DEF PanelCurrent
<1>9. CASE queue' = rest /\ scaffolds' = answer /\ UNCHANGED panel
  <2>1. LoadFollows'
    BY <1>1, <1>2, <1>9, FollowsOn DEF ViewInv
  <2>2. LoadPending => LoadPending'
    BY <1>1, <1>6, <1>9 DEF LoadPending
  <2>3. IndexRight'
    BY <1>5, <1>7, <1>9 DEF IndexRight
  <2>4. PanelRight'
    BY <1>1, <1>8, <1>9, <2>2 DEF ViewInv, PanelRight
  <2> QED BY <2>1, <2>3, <2>4 DEF ViewInv
<1>10. ASSUME NEW d \in Calls, queue' = Append(rest, d),
              Shows(d) => d.cmd = "load" /\ d.key = activeKey,
              panel' = panel \/ (d.cmd = "load" /\ d.key = activeKey),
              scaffolds' = answer \/ d.cmd = "list"
       PROVE  ViewInv'
  <2>1. LoadFollows'
    BY <1>1, <1>2, <1>10, FollowsOn DEF ViewInv
  <2>2. Pending(queue)' = Pending(rest) \cup {d}
    BY <1>2, <1>6, <1>10, PendingOf
  <2>3. LoadPending => LoadPending'
    BY <1>1, <1>6, <2>2 DEF LoadPending
  <2>4. d.cmd = "list" => ListPending'
    BY <2>2 DEF ListPending
  <2>5. d.cmd = "load" /\ d.key = activeKey => LoadPending'
    BY <1>1, <2>2 DEF LoadPending
  <2>6. IndexRight'
    BY <1>5, <1>7, <1>10, <2>4 DEF IndexRight
  <2>7. PanelRight'
    BY <1>1, <1>8, <1>10, <2>3, <2>5 DEF ViewInv, PanelRight
  <2> QED BY <2>1, <2>6, <2>7 DEF ViewInv
<1> QED BY <1>4, <1>9, <1>10

LEMMA CheckpointViews ==
  ASSUME ReviewInv, ViewInv, AnswerCheckpoint
  PROVE  ViewInv'
<1>1. TypeOK
  BY DEF ReviewInv
<1>2. queue # <<>> /\ call.cmd = "checkpoint" /\ UNCHANGED <<store, activeKey, strayed, unaudited>>
  BY DEF AnswerCheckpoint, Serving
<1>3. call \in Calls
  BY <1>2, ServedCall DEF ReviewInv
<1>4. CASE call.by = "vdaily"
  <2>1. BeginRoutine(rest, "vplanning") /\ "vplanning" \in Runners
    BY <1>4 DEF AnswerCheckpoint, Runners
  <2>2. PICK d \in Calls : /\ queue' = Append(rest, d)
                           /\ Shows(d) => d.key = activeKey
                           /\ panel' = panel \/ (d.cmd = "load" /\ d.key = activeKey)
                           /\ scaffolds' = scaffolds \/ d.cmd = "list"
    BY <1>1, <2>1, BeginSends
  <2> QED BY <1>1, <1>2, <2>2, GoesOn
<1>5. CASE call.by # "vdaily"
  <2>1. queue' = rest /\ UNCHANGED <<panel, scaffolds>>
    BY <1>5 DEF AnswerCheckpoint
  <2> QED BY <1>1, <1>2, <1>3, <2>1, GoesOn
<1> QED BY <1>4, <1>5

LEMMA ViewsPreserved == ReviewInv /\ ViewInv /\ [Next]_vars => ViewInv'
<1> SUFFICES ASSUME ReviewInv, ViewInv, [Next]_vars PROVE ViewInv' OBVIOUS
<1>1. CASE UNCHANGED vars
  BY <1>1 DEF vars, ViewInv, LoadFollows, PanelRight, PanelCurrent, LoadPending, IndexRight, IndexCurrent,
              ListPending, Pending, Index, Present
<1> QED BY <1>1, SelectViews, UserViews, LoadViews, ChangeViews, UnchangedViews, ListViews, CheckpointViews
        DEF Next, Answer

\* However the user's choices of a ticket, the routines, the verifier and their late
\* answers overlap, once no call is under way the panel shows the store's scaffold of
\* the ticket it names and the index lists every scaffold (dor.ts, +page.svelte,
\* routines.ts); with any number of tickets, items and calls under way.
THEOREM ViewsFollowStore == Spec => []ViewsMatchStore
<1>1. Init => ViewInv
  BY InitViews
<1>2. ReviewInv /\ ViewInv /\ [Next]_vars => ViewInv'
  BY ViewsPreserved
<1>3. ViewInv => ViewsMatchStore
  <2> SUFFICES ASSUME ViewInv, queue = <<>>, ~unaudited
               PROVE  /\ panel.status # "loading" /\ scaffolds.status # "loading"
                      /\ panel.status = "success" => /\ panel.marks = store[panel.key]
                                                     /\ panel.key = activeKey \/ strayed
                      /\ panel.status = "empty" => store[activeKey] = Absent
                      /\ scaffolds.status # "failed" => scaffolds = Index(store)
    BY DEF ViewsMatchStore, Quiet
  <2>1. Pending(queue) = {}
    BY DEF Pending
  <2>2. PanelCurrent /\ IndexCurrent
    BY <2>1 DEF ViewInv, PanelRight, IndexRight, LoadPending, ListPending
  <2>3. Index(store).status # "loading"
    BY DEF Index
  <2> QED BY <2>2, <2>3 DEF PanelCurrent, IndexCurrent
<1> QED BY <1>1, <1>2, <1>3, ReviewInvariant, PTL DEF Spec
=============================================================================
