----------------------------- MODULE ViewProofs -----------------------------
(***************************************************************************)
(* Proofs about SessionView, the session store of the interface composed   *)
(* with the backend's session, for every bound: whatever requests and      *)
(* answers are under way and whenever the page is reloaded, the store ends *)
(* up showing the role the backend grants.                                 *)
(***************************************************************************)
EXTENDS SessionView, SessionProofs

Statuses == [unlocked: BOOLEAN, role: Roles \cup {NoRole}, expires: Nat, expired: BOOLEAN]
SentAnswers ==
  [kind: {"refresh", "unlock"}, status: Statuses]
    \cup [kind: {"lock"}, status: {status \in Statuses : ~status.unlocked}]
    \cup [kind: {"protected"}, res: {"none", "ok", "denied", "auditError"}, lapsed: BOOLEAN]

\* The interface sends no change of role.
NoRoleChange == call[Main].cmd # "set_role"

\* A status tells the truth about the session s at time t, or will once its
\* ticker has run.
FitsAt(status, s, t) ==
  IF status.unlocked
    THEN /\ s.unlocked
         /\ status.role = s.role /\ status.expires = s.expires
         /\ status.expired => t >= s.expires
    ELSE ~s.unlocked \/ t >= s.expires
Fits(status) == FitsAt(status, session, now)

IsStatus(a) == a.kind \in {"refresh", "lock", "unlock"}

\* What the store holds once the answers under way are delivered fits the session.
Synced ==
  \/ /\ \A n \in 1..Len(outbox) : ~IsStatus(outbox[n])
     /\ Fits(view)
  \/ \E n \in 1..Len(outbox) :
       /\ IsStatus(outbox[n]) /\ Fits(outbox[n].status)
       /\ \A m \in 1..Len(outbox) : m > n => ~IsStatus(outbox[m])

\* A refresh is under way whose answer the present page gets: no more answers are
\* dropped than are sent before it.
Busy == IF MainFree THEN 0 ELSE 1
RefreshAwaited ==
  \E i \in 1..Len(inbox) : inbox[i].kind = "refresh" /\ orphans <= Busy + (i - 1)

\* The inductive invariant: the store fits the session, or a refresh that will
\* make it fit is under way.
ViewInv ==
  /\ SessionInv
  /\ TypeOKView
  /\ outbox \in Seq(SentAnswers)
  /\ NoRoleChange
  /\ ShownSessionIsWatched
  /\ Synced \/ RefreshAwaited
  /\ orphans > 0 => RefreshAwaited

ViewTypes == SessionInv /\ TypeOKView /\ outbox \in Seq(SentAnswers) /\ NoRoleChange
-----------------------------------------------------------------------------
LEMMA MainIsThread == Main \in Threads
BY MainAssumption

LEMMA InitEstablishesView == InitView => ViewInv
<1> SUFFICES ASSUME InitView PROVE ViewInv
  OBVIOUS
<1>1. SessionInv /\ TypeOK /\ call[Main] = NoCall
  BY InitEstablishes, MainIsThread DEF InitView, Init, SessionInv
<1>2. /\ view = LOCKED_STATUS /\ ticker = FALSE /\ inbox = <<[kind |-> "refresh"]>>
      /\ outbox = <<>> /\ orphans = 0 /\ sent = 1
  BY DEF InitView
<1>3. Len(inbox) = 1 /\ inbox[1].kind = "refresh" /\ inbox \in Seq(Requests)
  BY <1>2 DEF Requests
<1>4. TypeOKView /\ outbox \in Seq(SentAnswers)
  <2>1. LOCKED_STATUS \in Statuses
    BY DEF LOCKED_STATUS, Statuses
  <2>2. orphans \in 0..(Len(inbox) + (IF MainFree THEN 0 ELSE 1))
    BY <1>1, <1>2, <1>3 DEF MainFree
  <2>3. sent \in 0..MaxRequests /\ outbox \in Seq(SentAnswers)
    BY <1>2, MainAssumption
  <2> QED BY <1>1, <1>2, <1>3, <2>1, <2>2, <2>3 DEF TypeOKView, Statuses
<1>5. ShownSessionIsWatched /\ NoRoleChange
  BY <1>1, <1>2 DEF ShownSessionIsWatched, SessionShown, LOCKED_STATUS, NoRoleChange, NoCall
<1>6. RefreshAwaited
  BY <1>2, <1>3, <1>1 DEF RefreshAwaited, Busy, MainFree
<1> QED BY <1>1, <1>2, <1>4, <1>5, <1>6 DEF ViewInv

\* Every step of the composition is a step of the backend's session, or none.
LEMMA ViewStepIsSessionStep ==
  ASSUME ViewTypes, [NextView]_allVars
  PROVE  [Next]_vars
<1>0. Main \in Threads
  BY MainIsThread
<1>1. CASE Tick /\ UNCHANGED ui
  BY <1>1 DEF Next
<1>2. ASSUME NEW r \in Requests, Send(r) PROVE [Next]_vars
  BY <1>2 DEF Send
<1>3. CASE ServeSession
  <2>1. CASE UNCHANGED vars
    BY <2>1
  <2>2. CASE LockSession
    BY <2>2 DEF Next
  <2>3. CASE Head(inbox).kind = "unlock" /\ UnlockSession(Head(inbox).role, Head(inbox).ttl)
    <3>1. Head(inbox) \in Requests
      BY <1>3 DEF ServeSession, ViewTypes, TypeOKView
    <3>2. Head(inbox).role \in Roles /\ Head(inbox).ttl \in TTLs
      BY <2>3, <3>1 DEF Requests
    <3> QED BY <2>3, <3>2 DEF Next
  <2> QED BY <1>3, <2>1, <2>2, <2>3 DEF ServeSession
<1>4. CASE ServeProtected
  <2>1. Head(inbox) \in Requests
    BY <1>4 DEF ServeProtected, ViewTypes, TypeOKView
  <2>2. Head(inbox).perm \in Requested
    BY <1>4, <2>1 DEF ServeProtected, Requests
  <2> QED BY <1>0, <1>4, <2>2 DEF ServeProtected, Next
<1>5. CASE CallStep
  BY <1>0, <1>5 DEF CallStep, Next
<1>6. CASE DeliverAnswer \/ Ticker \/ Reload \/ UNCHANGED allVars
  BY <1>6 DEF DeliverAnswer, Ticker, Reload, allVars
<1> QED BY <1>1, <1>2, <1>3, <1>4, <1>5, <1>6 DEF NextView

\* What the backend keeps true it keeps true in the composition.
LEMMA SessionInvInView ==
  ASSUME ViewTypes, [NextView]_allVars
  PROVE  SessionInv'
BY ViewStepIsSessionStep, TypePreserved, CallsPreserved, SessionPreserved, AnswersPreserved
   DEF SessionInv, ViewTypes

\* A protected call leaves the session alone, and is one that was under way.
LEMMA CallLeavesSession ==
  ASSUME ViewTypes, Step(Main)
  PROVE  /\ UNCHANGED <<session, now>>
         /\ ~MainFree
         /\ NoRoleChange'
<1>0. /\ Main \in Threads /\ call[Main] \in Calls /\ call[Main].cmd # "set_role"
      /\ call[Main].at \notin {"previous", "set"} /\ call \in [Threads -> Calls]
  BY MainIsThread DEF ViewTypes, NoRoleChange, SessionInv, StepsOK, TypeOK
<1>a. ASSUME NEW res, NEW audited, Return(Main, res, audited) PROVE NoRoleChange'
  BY <1>0, <1>a DEF Return, NoRoleChange, NoCall
<1>1. CASE Deny(Main)
  BY <1>0, <1>1, <1>a DEF Deny, Audit, MainFree, NoCall
<1>2. CASE Effect(Main)
  BY <1>0, <1>2 DEF Effect, NoRoleChange, MainFree, NoCall, Calls
<1>3. CASE ReadPrevious(Main) \/ SetRole(Main)
  BY <1>0, <1>3 DEF ReadPrevious, SetRole
<1>4. CASE AuditDone(Main)
  BY <1>0, <1>4, <1>a DEF AuditDone, Audit, MainFree, NoCall
<1> QED BY <1>1, <1>2, <1>3, <1>4 DEF Step

\* A status that the session answers with has its type, and fits the session.
LEMMA StatusIsStatus ==
  ASSUME TypeOK
  PROVE  Status(session) \in Statuses /\ Fits(Status(session))
BY DEF TypeOK, Status, Statuses, Fits, FitsAt, IsExpired

\* An answer is appended to the outbox, or dropped when its page is gone.
LEMMA AnswerTyped ==
  ASSUME outbox \in Seq(SentAnswers), NEW a \in SentAnswers, Answer(a), orphans \in Nat
  PROVE  /\ outbox' \in Seq(SentAnswers)
         /\ orphans > 0 => orphans' = orphans - 1 /\ outbox' = outbox
         /\ ~(orphans > 0) => orphans' = 0 /\ orphans = 0 /\ outbox' = Append(outbox, a)
BY DEF Answer

\* The types of the composition, but for those of the session.
LEMMA ViewTypesPreserved ==
  ASSUME ViewTypes, [NextView]_allVars
  PROVE  ViewTypes'
<1> DEFINE Pending == IF MainFree THEN 0 ELSE 1
<1> DEFINE Rest == /\ view \in Statuses /\ ticker \in BOOLEAN /\ inbox \in Seq(Requests)
                   /\ orphans \in 0..(Len(inbox) + Pending) /\ sent \in 0..MaxRequests
                   /\ outbox \in Seq(SentAnswers) /\ NoRoleChange
<1>0. SessionInv' /\ TypeOK' /\ TypeOK /\ SessionInv
  BY SessionInvInView DEF SessionInv, ViewTypes
<1>a. Rest
  BY DEF ViewTypes, TypeOKView, Statuses
<1>b. Pending \in {0, 1} /\ Pending' \in {0, 1} /\ Len(inbox) \in Nat
  BY <1>a
<1>m. MainFree <=> Pending = 0
  OBVIOUS
<1>c. ASSUME UNCHANGED call PROVE Pending' = Pending /\ (NoRoleChange' <=> NoRoleChange)
  BY <1>c DEF MainFree, NoRoleChange
<1>d. LOCKED_STATUS \in Statuses
  BY DEF LOCKED_STATUS, Statuses
<1>e. SUFFICES Rest'
  BY <1>0 DEF ViewTypes, TypeOKView, Statuses
<1>1. CASE Tick /\ UNCHANGED ui
  BY <1>1, <1>a, <1>c DEF Tick, ui
<1>2. ASSUME NEW r \in Requests, Send(r) PROVE Rest'
  <2>1. Pending' = Pending /\ NoRoleChange'
    BY <1>2, <1>a, <1>c DEF Send, vars
  <2>2. inbox' \in Seq(Requests) /\ Len(inbox') = Len(inbox) + 1
    BY <1>2, <1>a DEF Send
  <2>3. sent' \in 0..MaxRequests
    BY <1>2, <1>a, MainAssumption DEF Send
  <2>4. orphans' \in 0..(Len(inbox') + Pending')
    <3> HIDE DEF Pending
    <3> QED BY <1>2, <1>a, <1>b, <2>1, <2>2 DEF Send
  <2> QED BY <1>2, <1>a, <2>1, <2>2, <2>3, <2>4 DEF Send
<1>3. CASE ServeSession
  <2>1. UNCHANGED call
    BY <1>3 DEF ServeSession, vars, LockSession, UnlockSession
  <2>2. MainFree /\ inbox # <<>> /\ Head(inbox) \in Requests
    BY <1>3, <1>a DEF ServeSession
  <2>3. inbox' \in Seq(Requests) /\ Len(inbox') = Len(inbox) - 1
    BY <1>3, <1>a DEF ServeSession
  <2> DEFINE a == [kind |-> Head(inbox).kind, status |-> Status(session')]
  <2>4. a \in SentAnswers
    <3>1. Status(session') \in Statuses
      BY <1>0 DEF TypeOK, Status, Statuses, IsExpired
    <3>2. Head(inbox).kind \in {"refresh", "unlock"} => a \in SentAnswers
      BY <3>1 DEF SentAnswers
    <3>3. ASSUME Head(inbox).kind = "lock" PROVE a \in SentAnswers
      <4>1. session' = LockedState
        BY <1>3, <3>3 DEF ServeSession, LockSession
      <4>2. ~Status(session').unlocked
        BY <4>1 DEF Status, LockedState
      <4> QED BY <3>1, <3>3, <4>2 DEF SentAnswers
    <3> QED BY <1>3, <3>2, <3>3 DEF ServeSession
  <2>5. Answer(a)
    BY <1>3 DEF ServeSession
  <2>6. orphans \in Nat
    BY <1>a, <1>b
  <2>7. /\ outbox' \in Seq(SentAnswers)
        /\ orphans > 0 => orphans' = orphans - 1
        /\ ~(orphans > 0) => orphans' = 0
    <3> HIDE DEF a
    <3> QED BY <2>4, <2>5, <2>6, <1>a, AnswerTyped
  <2>8. Pending = 0 /\ Pending' = 0 /\ NoRoleChange'
    BY <1>a, <1>c, <2>1, <2>2
  <2>9. orphans' \in 0..(Len(inbox') + Pending')
    <3>1. Len(inbox) \in Nat \ {0}
      BY <1>a, <2>2
    <3> HIDE DEF Pending
    <3> QED BY <3>1, <1>a, <2>3, <2>7, <2>8
  <2> QED BY <1>3, <1>a, <2>3, <2>7, <2>8, <2>9 DEF ServeSession
<1>4. CASE ServeProtected
  <2>1. /\ MainFree /\ inbox # <<>>
        /\ inbox' \in Seq(Requests) /\ Len(inbox') = Len(inbox) - 1
    BY <1>4, <1>a DEF ServeProtected, BeginProtected, Require, MainFree
  <2>2. ~MainFree' /\ NoRoleChange'
    BY <1>4, <1>0, MainIsThread
       DEF ServeProtected, BeginProtected, Require, MainFree, NoRoleChange, NoCall, TypeOK
  <2>3. Pending = 0 /\ Pending' = 1
    BY <2>1, <2>2
  <2>4. orphans' \in 0..(Len(inbox') + Pending')
    <3> HIDE DEF Pending
    <3> QED BY <1>4, <1>a, <1>b, <2>1, <2>3 DEF ServeProtected
  <2> QED BY <1>4, <1>a, <2>1, <2>2, <2>4 DEF ServeProtected
<1>5. CASE CallStep
  <2>1. ~MainFree /\ NoRoleChange' /\ Pending = 1
    BY <1>5, CallLeavesSession DEF CallStep
  <2>2. CASE call'[Main] = NoCall
    <3> DEFINE a == [kind |-> "protected", res |-> answer'[Main].res,
                     lapsed |-> EffectiveRole = NoRole]
    <3>1. answer'[Main].res \in {"none", "ok", "denied", "auditError"}
      BY <1>0, MainIsThread DEF TypeOK, Answers
    <3>2. (EffectiveRole = NoRole) \in BOOLEAN
      OBVIOUS
    <3>3. a \in SentAnswers
      BY <3>1, <3>2 DEF SentAnswers
    <3>4. Answer(a)
      BY <1>5, <2>2 DEF CallStep
    <3>5. orphans \in Nat
      BY <1>a, <1>b
    <3>6. /\ outbox' \in Seq(SentAnswers)
          /\ orphans > 0 => orphans' = orphans - 1
          /\ ~(orphans > 0) => orphans' = 0
      <4> HIDE DEF a
      <4> QED BY <3>3, <3>4, <3>5, <1>a, AnswerTyped
    <3>7. Pending' = 0
      BY <2>2 DEF MainFree
    <3>8. orphans' \in 0..(Len(inbox) + Pending')
      <4> HIDE DEF Pending
      <4> QED BY <3>6, <3>7, <2>1, <1>a, <1>b
    <3> QED BY <1>5, <1>a, <2>1, <3>6, <3>8 DEF CallStep
  <2>3. CASE call'[Main] # NoCall
    <3>1. Pending' = 1
      BY <2>3 DEF MainFree
    <3> QED BY <1>5, <1>a, <2>1, <2>3, <3>1 DEF CallStep
  <2> QED BY <2>2, <2>3
<1>6. CASE DeliverAnswer
  <2>1. UNCHANGED <<call, orphans, sent, inbox>> /\ outbox # <<>> /\ outbox' = Tail(outbox)
    BY <1>6 DEF DeliverAnswer, vars, MentionsSession
  <2>2. outbox' \in Seq(SentAnswers) /\ Head(outbox) \in SentAnswers
    BY <1>a, <2>1
  <2>3. view' \in Statuses /\ ticker' \in BOOLEAN
    BY <1>6, <1>a, <1>d, <2>2 DEF DeliverAnswer, TakeStatus, TakeLock, SentAnswers
  <2> QED BY <1>a, <1>c, <2>1, <2>2, <2>3
<1>7. CASE Ticker
  <2>1. UNCHANGED <<call, orphans, sent, inbox, outbox>>
    BY <1>7 DEF Ticker, vars
  <2> QED BY <1>7, <1>a, <1>c, <1>d, <2>1 DEF Ticker
<1>8. CASE Reload
  <2>1. UNCHANGED call /\ Pending' = Pending /\ NoRoleChange'
    BY <1>8, <1>a, <1>c DEF Reload, vars
  <2>2. [kind |-> "refresh"] \in Requests
    BY DEF Requests
  <2>3. inbox' \in Seq(Requests) /\ Len(inbox') = Len(inbox) + 1
    BY <1>8, <1>a, <2>2 DEF Reload
  <2>4. orphans' = Len(inbox) + Pending
    BY <1>8 DEF Reload
  <2>5. orphans' \in 0..(Len(inbox') + Pending')
    <3> HIDE DEF Pending
    <3> QED BY <1>b, <2>1, <2>3, <2>4
  <2>6. sent' \in 0..MaxRequests
    BY <1>8, <1>a, MainAssumption DEF Reload
  <2>7. outbox' \in Seq(SentAnswers)
    BY <1>8 DEF Reload
  <2>8. view' \in Statuses /\ ticker' \in BOOLEAN
    BY <1>8, <1>d DEF Reload
  <2> HIDE DEF Pending
  <2> QED BY <2>1, <2>3, <2>5, <2>6, <2>7, <2>8
<1>9. CASE UNCHANGED allVars
  BY <1>9, <1>a, <1>c DEF allVars, vars, ui
<1> QED BY <1>1, <1>2, <1>3, <1>4, <1>5, <1>6, <1>7, <1>8, <1>9 DEF NextView

\* A status that fits the session goes on fitting it as time passes.
LEMMA FitsAsTimePasses ==
  ASSUME TypeOK, TypeOK', session' = session, now' >= now, NEW status, Fits(status)
  PROVE  FitsAt(status, session', now')
<1> USE DEF TypeOK
<1>1. session.expires \in Nat /\ now \in Nat /\ now' \in Nat
  BY BoundsAssumption
<1>2. now >= session.expires => now' >= session'.expires
  BY <1>1
<1> QED BY <1>2 DEF Fits, FitsAt

\* An answer without a status, or none, leaves the store in step with the session.
LEMMA SyncedKept ==
  ASSUME TypeOK, TypeOK', session' = session, now' >= now, Synced, view' = view,
         outbox \in Seq(SentAnswers), NEW a \in SentAnswers, ~IsStatus(a),
         outbox' \in {outbox, Append(outbox, a)}
  PROVE  Synced'
<1>1. \A status : Fits(status) => Fits(status)'
  BY FitsAsTimePasses DEF Fits
<1>2. /\ Len(outbox) \in Nat /\ Len(outbox') \in Nat /\ Len(outbox') >= Len(outbox)
      /\ \A n \in 1..Len(outbox) : outbox'[n] = outbox[n]
      /\ \A n \in 1..Len(outbox') : n > Len(outbox) => outbox'[n] = a
  OBVIOUS
<1>3. CASE (\A n \in 1..Len(outbox) : ~IsStatus(outbox[n])) /\ Fits(view)
  <2>1. Fits(view)'
    BY <1>1, <1>3 DEF Fits
  <2>2. \A n \in 1..Len(outbox') : ~IsStatus(outbox'[n])
    BY <1>2, <1>3
  <2> QED BY <2>1, <2>2 DEF Synced, IsStatus
<1>4. ASSUME NEW n \in 1..Len(outbox), IsStatus(outbox[n]), Fits(outbox[n].status),
             \A m \in 1..Len(outbox) : m > n => ~IsStatus(outbox[m])
      PROVE  Synced'
  <2>1. n \in 1..Len(outbox') /\ outbox'[n] = outbox[n]
    BY <1>2
  <2>2. IsStatus(outbox'[n]) /\ FitsAt(outbox'[n].status, session', now')
    BY <1>1, <1>4, <2>1 DEF Fits
  <2>3. \A m \in 1..Len(outbox') : m > n => ~IsStatus(outbox'[m])
    BY <1>2, <1>4
  <2> QED BY <2>1, <2>2, <2>3 DEF Synced, Fits, IsStatus
<1> QED BY <1>3, <1>4 DEF Synced

\* A session command's answer brings the store in step with the session.
LEMMA SyncedByAnswer ==
  ASSUME TypeOK, TypeOK', outbox \in Seq(SentAnswers), ServeSession, orphans = 0,
         Head(inbox) \in Requests
  PROVE  Synced'
<1> DEFINE a == [kind |-> Head(inbox).kind, status |-> Status(session')]
           n == Len(outbox) + 1
<1>1. outbox' = Append(outbox, a)
  BY DEF ServeSession, Answer
<1>2. FitsAt(a.status, session', now')
  <2>1. now' = now
    BY DEF ServeSession, vars, LockSession, UnlockSession
  <2> QED BY <2>1 DEF Status, FitsAt, IsExpired
<1>3. IsStatus(a)
  BY DEF IsStatus, ServeSession
<1>4. n \in 1..Len(outbox') /\ outbox'[n] = a /\ Len(outbox') = n
  <2> HIDE DEF a
  <2> QED BY <1>1
<1> HIDE DEF a, n
<1>5. \A m \in 1..Len(outbox') : m > n => ~IsStatus(outbox'[m])
  BY <1>4
<1> QED BY <1>2, <1>3, <1>4, <1>5 DEF Synced, Fits, IsStatus

\* A delivered answer moves its status into the store.
LEMMA SyncedByDelivery ==
  ASSUME TypeOK, TypeOK', outbox \in Seq(SentAnswers), Synced, DeliverAnswer
  PROVE  Synced'
<1>0. /\ UNCHANGED <<session, now>> /\ outbox # <<>> /\ outbox' = Tail(outbox)
      /\ Head(outbox) = outbox[1] /\ outbox[1] \in SentAnswers
  BY DEF DeliverAnswer, vars
<1>1. \A status : Fits(status) => Fits(status)'
  BY <1>0 DEF Fits
<1>2. /\ Len(outbox) \in Nat \ {0} /\ Len(outbox') = Len(outbox) - 1
      /\ \A n \in 1..Len(outbox') : outbox'[n] = outbox[n + 1] /\ n + 1 \in 1..Len(outbox)
  BY <1>0
<1>3. CASE (\A n \in 1..Len(outbox) : ~IsStatus(outbox[n])) /\ Fits(view)
  <2>1. ~IsStatus(outbox[1])
    BY <1>2, <1>3
  <2>2. view' = view
    BY <1>0, <2>1 DEF DeliverAnswer, IsStatus
  <2>3. \A n \in 1..Len(outbox') : ~IsStatus(outbox'[n])
    BY <1>2, <1>3
  <2> QED BY <1>1, <1>3, <2>2, <2>3 DEF Synced, IsStatus, Fits
<1>4. ASSUME NEW n \in 1..Len(outbox), IsStatus(outbox[n]), Fits(outbox[n].status),
             \A m \in 1..Len(outbox) : m > n => ~IsStatus(outbox[m])
      PROVE  Synced'
  <2>1. CASE n = 1
    <3>1. FitsAt(view', session', now')
      <4>1. outbox[1].kind = "lock" => ~outbox[1].status.unlocked
        BY <1>0 DEF SentAnswers
      <4>2. CASE outbox[1].kind = "lock"
        <5>1. view' = LOCKED_STATUS
          BY <1>0, <4>2 DEF DeliverAnswer, TakeLock
        <5>2. ~session.unlocked \/ now >= session.expires
          BY <1>4, <2>1, <4>1, <4>2 DEF Fits, FitsAt
        <5> QED BY <1>0, <5>1, <5>2 DEF FitsAt, LOCKED_STATUS
      <4>3. CASE outbox[1].kind # "lock"
        <5>1. view' = outbox[1].status
          BY <1>0, <1>4, <2>1, <4>3 DEF DeliverAnswer, TakeStatus, IsStatus
        <5> QED BY <1>0, <1>4, <2>1, <5>1 DEF Fits
      <4> QED BY <4>2, <4>3
    <3>2. \A m \in 1..Len(outbox') : ~IsStatus(outbox'[m])
      BY <1>2, <1>4, <2>1
    <3> QED BY <3>1, <3>2 DEF Synced, Fits, IsStatus
  <2>2. CASE n # 1
    <3> DEFINE k == n - 1
    <3>1. k \in 1..Len(outbox') /\ outbox'[k] = outbox[n]
      BY <1>2, <2>2
    <3>2. \A m \in 1..Len(outbox') : m > k => ~IsStatus(outbox'[m])
      BY <1>2, <1>4, <2>2
    <3>3. IsStatus(outbox'[k]) /\ FitsAt(outbox'[k].status, session', now')
      BY <1>0, <1>4, <3>1 DEF Fits
    <3> HIDE DEF k
    <3> QED BY <3>1, <3>2, <3>3 DEF Synced, Fits, IsStatus
  <2> QED BY <2>1, <2>2
<1> QED BY <1>3, <1>4 DEF Synced

\* The ticker takes away only a session that is over.
LEMMA SyncedByTicker ==
  ASSUME Synced, Ticker
  PROVE  Synced'
<1>0. UNCHANGED <<session, now, outbox>>
  BY DEF Ticker, vars
<1>1. Fits(view) => FitsAt(view', session', now')
  BY <1>0 DEF Ticker, Fits, FitsAt, LOCKED_STATUS
<1>2. \A status : Fits(status) => FitsAt(status, session', now')
  BY <1>0 DEF Fits
<1>3. CASE (\A n \in 1..Len(outbox) : ~IsStatus(outbox[n])) /\ Fits(view)
  BY <1>0, <1>1, <1>3 DEF Synced, Fits, IsStatus
<1>4. CASE \E n \in 1..Len(outbox) :
             /\ IsStatus(outbox[n]) /\ Fits(outbox[n].status)
             /\ \A m \in 1..Len(outbox) : m > n => ~IsStatus(outbox[m])
  BY <1>0, <1>2, <1>4 DEF Synced, Fits, IsStatus
<1> QED BY <1>3, <1>4 DEF Synced

\* A shown role is watched, before and after every step.
LEMMA WatchPreserved ==
  ASSUME ViewTypes, ShownSessionIsWatched, [NextView]_allVars
  PROVE  ShownSessionIsWatched'
<1>0. TypeOKView /\ outbox \in Seq(SentAnswers)
  BY DEF ViewTypes
<1> USE DEF ShownSessionIsWatched, SessionShown
<1>1. ASSUME UNCHANGED <<view, ticker>> PROVE ShownSessionIsWatched'
  BY <1>1
<1>2. CASE DeliverAnswer
  <2>1. outbox # <<>> /\ Head(outbox) \in SentAnswers
    BY <1>0, <1>2 DEF DeliverAnswer
  <2>2. CASE Head(outbox).kind \in {"refresh", "unlock"} /\ TakeStatus(Head(outbox))
    BY <1>0, <2>2 DEF TakeStatus, TypeOKView
  <2>3. CASE TakeLock
    BY <2>3 DEF TakeLock, LOCKED_STATUS
  <2>4. CASE UNCHANGED <<view, ticker>>
    BY <1>1, <2>4
  <2> QED BY <1>2, <2>2, <2>3, <2>4 DEF DeliverAnswer
<1>3. CASE Ticker
  BY <1>3 DEF Ticker, LOCKED_STATUS
<1>4. CASE Reload
  BY <1>4 DEF Reload, LOCKED_STATUS
<1>5. CASE \/ Tick /\ UNCHANGED ui
           \/ \E r \in Requests : Send(r)
           \/ ServeSession \/ ServeProtected \/ CallStep
           \/ UNCHANGED allVars
  BY <1>1, <1>5 DEF ui, Send, ServeSession, ServeProtected, CallStep, allVars
<1> QED BY <1>2, <1>3, <1>4, <1>5 DEF NextView

\* The refresh stays awaited when the requests before it are served: for each
\* request served, or call ended, one answer fewer is to be dropped.
LEMMA AwaitedShifts ==
  ASSUME NEW i \in 2..Len(inbox), inbox \in Seq(Requests), inbox[i].kind = "refresh",
         inbox' = Tail(inbox), Busy' \in Int, orphans' \in Int,
         orphans' <= Busy' + (i - 2)
  PROVE  RefreshAwaited'
<1> DEFINE j == i - 1
<1>1. j \in 1..Len(inbox') /\ inbox'[j] = inbox[i]
  BY Len(inbox) \in Nat, inbox # <<>>
<1>2. j - 1 = i - 2
  OBVIOUS
<1> HIDE DEF j
<1> QED BY <1>1, <1>2 DEF RefreshAwaited

\* The two halves of the invariant: in step, or about to be.
LEMMA SyncPreserved ==
  ASSUME ViewTypes, ViewTypes', Synced \/ RefreshAwaited, orphans > 0 => RefreshAwaited,
         [NextView]_allVars
  PROVE  (Synced \/ RefreshAwaited)' /\ (orphans' > 0 => RefreshAwaited')
<1>0. /\ TypeOK /\ TypeOK' /\ outbox \in Seq(SentAnswers) /\ inbox \in Seq(Requests)
      /\ orphans \in Nat /\ orphans' \in Nat /\ Busy \in {0, 1} /\ Busy' \in {0, 1}
      /\ Len(inbox) \in Nat /\ now \in Nat /\ now' \in Nat
  <2>1. Busy \in {0, 1} /\ Busy' \in {0, 1}
    BY DEF Busy
  <2>2. inbox \in Seq(Requests) /\ inbox' \in Seq(Requests)
    BY DEF ViewTypes, TypeOKView
  <2>3. Len(inbox) \in Nat /\ Len(inbox') \in Nat
    BY <2>2
  <2>4. orphans \in 0..(Len(inbox) + Busy) /\ orphans' \in 0..(Len(inbox') + Busy')
    BY DEF ViewTypes, TypeOKView, Busy
  <2>5. orphans \in Nat /\ orphans' \in Nat
    BY <2>1, <2>3, <2>4
  <2> QED BY <2>1, <2>2, <2>3, <2>5, BoundsAssumption DEF ViewTypes, SessionInv, TypeOK
<1>p. \E b \in SentAnswers : ~IsStatus(b)
  <2>1. [kind |-> "protected", res |-> "none", lapsed |-> FALSE] \in SentAnswers
    BY DEF SentAnswers
  <2> QED BY <2>1 DEF IsStatus
<1>a. ASSUME UNCHANGED <<call, inbox, orphans>> PROVE RefreshAwaited => RefreshAwaited'
  BY <1>a DEF RefreshAwaited, Busy, MainFree
<1>b. ASSUME UNCHANGED <<session, view, outbox>>, now' >= now PROVE Synced => Synced'
  <2>1. PICK b \in SentAnswers : ~IsStatus(b)
    BY <1>p
  <2>2. outbox' \in {outbox, Append(outbox, b)}
    BY <1>b
  <2> QED BY <1>0, <1>b, <2>1, <2>2, SyncedKept
<1>1. CASE Tick /\ UNCHANGED ui
  <2>1. UNCHANGED <<session, view, outbox, call, inbox, orphans>> /\ now' >= now
    BY <1>0, <1>1 DEF Tick, ui
  <2> QED BY <1>a, <1>b, <2>1
<1>2. ASSUME NEW r \in Requests, Send(r)
      PROVE  (Synced \/ RefreshAwaited)' /\ (orphans' > 0 => RefreshAwaited')
  <2>1. UNCHANGED <<session, view, outbox, call, orphans>> /\ now' >= now
    BY <1>0, <1>2 DEF Send, vars
  <2>2. RefreshAwaited => RefreshAwaited'
    <3>1. /\ Len(inbox') = Len(inbox) + 1
          /\ \A i \in 1..Len(inbox) : inbox'[i] = inbox[i]
      BY <1>0, <1>2 DEF Send
    <3>2. \A i \in 1..Len(inbox) : i \in 1..Len(inbox')
      BY <1>0, <3>1
    <3> QED BY <2>1, <3>1, <3>2 DEF RefreshAwaited, Busy, MainFree
  <2> QED BY <1>b, <2>1, <2>2
<1>3. CASE ServeSession
  <2>1. /\ MainFree /\ inbox # <<>> /\ Head(inbox) \in Requests /\ inbox' = Tail(inbox)
        /\ UNCHANGED call /\ Busy = 0 /\ Busy' = 0
    BY <1>0, <1>3 DEF ServeSession, vars, LockSession, UnlockSession, Busy, MainFree
  <2>2. CASE orphans = 0
    <3>1. orphans' = 0
      BY <1>3, <2>2 DEF ServeSession, Answer
    <3> QED BY <1>0, <1>3, <2>1, <2>2, <3>1, SyncedByAnswer
  <2>3. CASE orphans > 0
    <3>1. orphans' = orphans - 1
      BY <1>3, <2>3 DEF ServeSession, Answer
    <3>2. PICK i \in 1..Len(inbox) : inbox[i].kind = "refresh" /\ orphans <= Busy + (i - 1)
      BY <2>3 DEF RefreshAwaited
    <3>3. i \in 2..Len(inbox) /\ orphans' <= Busy' + (i - 2)
      BY <1>0, <2>1, <2>3, <3>1, <3>2
    <3> QED BY <1>0, <2>1, <3>2, <3>3, AwaitedShifts
  <2> QED BY <1>0, <2>2, <2>3
<1>4. CASE ServeProtected
  <2>1. /\ MainFree /\ inbox # <<>> /\ Head(inbox).kind = "protected" /\ inbox' = Tail(inbox)
        /\ UNCHANGED <<session, now, view, outbox, orphans>> /\ Head(inbox) = inbox[1]
    BY <1>0, <1>4 DEF ServeProtected, BeginProtected, Require, MainFree
  <2>2. Busy = 0 /\ Busy' = 1
    BY <1>0, <1>4, <2>1, MainIsThread
       DEF ServeProtected, BeginProtected, Require, MainFree, NoCall, TypeOK, Busy
  <2>3. RefreshAwaited => RefreshAwaited'
    <3> SUFFICES ASSUME NEW i \in 1..Len(inbox), inbox[i].kind = "refresh",
                        orphans <= Busy + (i - 1)
                 PROVE  RefreshAwaited'
      BY DEF RefreshAwaited
    <3>1. i # 1
      BY <2>1
    <3>2. i \in 2..Len(inbox) /\ orphans' <= Busy' + (i - 2)
      BY <1>0, <2>1, <2>2, <3>1
    <3>3. inbox \in Seq(Requests) /\ inbox' = Tail(inbox) /\ inbox[i].kind = "refresh"
      BY <1>0, <2>1
    <3>4. Busy' \in Int /\ orphans' \in Int
      BY <1>0
    <3> QED BY <3>2, <3>3, <3>4, AwaitedShifts
  <2> QED BY <1>0, <1>b, <2>1, <2>3
<1>5. CASE CallStep
  <2>1. UNCHANGED <<session, now, view, inbox>> /\ ~MainFree /\ Busy = 1
    BY <1>5, CallLeavesSession DEF CallStep, Busy
  <2>2. CASE call'[Main] = NoCall
    <3> DEFINE a == [kind |-> "protected", res |-> answer'[Main].res,
                     lapsed |-> EffectiveRole = NoRole]
    <3>1. a \in SentAnswers /\ ~IsStatus(a)
      <4>1. answer'[Main].res \in {"none", "ok", "denied", "auditError"}
        BY <1>0, MainIsThread DEF TypeOK, Answers
      <4>2. (EffectiveRole = NoRole) \in BOOLEAN
        OBVIOUS
      <4> QED BY <4>1, <4>2 DEF SentAnswers, IsStatus
    <3>2. Answer(a)
      BY <1>5, <2>2 DEF CallStep
    <3>3. /\ outbox' \in {outbox, Append(outbox, a)}
          /\ orphans' = IF orphans > 0 THEN orphans - 1 ELSE orphans
      <4> HIDE DEF a
      <4> QED BY <3>2 DEF Answer
    <3>4. Synced => Synced'
      <4>1. now' >= now
        BY <1>0, <2>1
      <4> HIDE DEF a
      <4> QED BY <1>0, <2>1, <3>1, <3>3, <4>1, SyncedKept
    <3>5. RefreshAwaited => RefreshAwaited'
      <4> SUFFICES ASSUME NEW i \in 1..Len(inbox), inbox[i].kind = "refresh",
                          orphans <= Busy + (i - 1)
                   PROVE  RefreshAwaited'
        BY DEF RefreshAwaited
      <4>1. Busy' = 0
        BY <2>2 DEF Busy, MainFree
      <4>2. orphans' <= Busy' + (i - 1)
        BY <1>0, <2>1, <3>3, <4>1
      <4> QED BY <2>1, <4>2 DEF RefreshAwaited
    <3> QED BY <1>0, <3>3, <3>4, <3>5
  <2>3. CASE call'[Main] # NoCall
    <3>1. UNCHANGED <<outbox, orphans>> /\ Busy' = Busy /\ now' >= now
      BY <1>0, <1>5, <2>1, <2>3 DEF CallStep, Busy, MainFree
    <3>2. RefreshAwaited => RefreshAwaited'
      BY <2>1, <3>1 DEF RefreshAwaited
    <3> QED BY <1>b, <2>1, <3>1, <3>2
  <2> QED BY <2>2, <2>3
<1>6. CASE DeliverAnswer
  <2>1. UNCHANGED <<call, inbox, orphans>>
    BY <1>6 DEF DeliverAnswer, vars, MentionsSession
  <2> QED BY <1>0, <1>6, <1>a, <2>1, SyncedByDelivery
<1>7. CASE Ticker
  <2>1. UNCHANGED <<call, inbox, orphans>>
    BY <1>7 DEF Ticker, vars
  <2> QED BY <1>7, <1>a, <2>1, SyncedByTicker
<1>8. CASE Reload
  <2> DEFINE i == Len(inbox) + 1
  <2>1. Len(inbox') = i /\ inbox'[i] = [kind |-> "refresh"] /\ i \in 1..i
    BY <1>0, <1>8 DEF Reload
  <2>2. Busy' = Busy
    BY <1>8 DEF Reload, vars, Busy, MainFree
  <2>3. orphans' = Len(inbox) + Busy
    BY <1>8 DEF Reload, Busy
  <2>4. orphans' <= Busy' + (i - 1)
    BY <1>0, <2>2, <2>3
  <2> HIDE DEF i
  <2> QED BY <2>1, <2>4 DEF RefreshAwaited
<1>9. CASE UNCHANGED allVars
  <2>1. UNCHANGED <<session, view, outbox, call, inbox, orphans>> /\ now' >= now
    BY <1>0, <1>9 DEF allVars, vars, ui
  <2> QED BY <1>a, <1>b, <2>1
<1> QED BY <1>1, <1>2, <1>3, <1>4, <1>5, <1>6, <1>7, <1>8, <1>9 DEF NextView

\* The inductive invariant holds in every reachable state.
LEMMA ViewInvariant == SpecView => []ViewInv
<1>1. InitView => ViewInv
  BY InitEstablishesView
<1>2. ViewInv /\ [NextView]_allVars => ViewInv'
  <2> SUFFICES ASSUME ViewInv, [NextView]_allVars PROVE ViewInv'
    OBVIOUS
  <2>1. ViewTypes
    BY DEF ViewInv, ViewTypes
  <2>2. ViewTypes'
    BY <2>1, ViewTypesPreserved
  <2>3. ShownSessionIsWatched'
    BY <2>1, WatchPreserved DEF ViewInv
  <2>4. (Synced \/ RefreshAwaited)' /\ (orphans' > 0 => RefreshAwaited')
    BY <2>1, <2>2, SyncPreserved DEF ViewInv
  <2> QED BY <2>2, <2>3, <2>4 DEF ViewInv, ViewTypes
<1> QED BY <1>1, <1>2, PTL DEF SpecView

\* Every variable of the composition keeps its type.
THEOREM ViewTypesHold == SpecView => []TypeOKView
<1>1. ViewInv => TypeOKView
  BY DEF ViewInv
<1> QED BY <1>1, ViewInvariant, PTL

\* A session is never shown without the ticker that will take it away.
THEOREM ShownSessionsAreWatched == SpecView => []ShownSessionIsWatched
<1>1. ViewInv => ShownSessionIsWatched
  BY DEF ViewInv
<1> QED BY <1>1, ViewInvariant, PTL

\* Once all that is under way has landed, the interface shows a session exactly when
\* the backend grants a role, and enables its controls by that role, or by ReadOnly.
THEOREM ShownRolesAreGranted == SpecView => []ShownRoleIsGranted
<1>1. ViewInv => ShownRoleIsGranted
  <2> SUFFICES ASSUME ViewInv, Quiet
               PROVE  /\ SessionShown <=> EffectiveRole # NoRole
                      /\ SessionShown => view.role = EffectiveRole
    BY DEF ShownRoleIsGranted, ShownRole
  <2>1. Fits(view)
    BY DEF ViewInv, Quiet, RefreshAwaited, Synced
  <2>2. session.unlocked => session.role # NoRole
    BY DEF ViewInv, SessionInv, LifetimeWithinPolicy, Roles, NoRole
  <2>3. CASE SessionShown
    BY <2>1, <2>2, <2>3
       DEF ViewInv, Quiet, Fits, FitsAt, ShownSessionIsWatched, SessionShown, EffectiveRole, IsExpired
  <2>4. CASE ~SessionShown
    BY <2>1, <2>4 DEF ViewInv, TypeOKView, Fits, FitsAt, SessionShown, EffectiveRole, IsExpired
  <2> QED BY <2>3, <2>4
<1> QED BY <1>1, ViewInvariant, PTL
=============================================================================
