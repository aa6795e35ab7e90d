----------------------------- MODULE SessionView ----------------------------
(***************************************************************************)
(* The session store of the user interface (stores/session.ts), its        *)
(* one-second ticker and the invoke wrapper (tauri/invoke.ts), composed    *)
(* with the backend's Session.  Requests are served one at a time in the   *)
(* order they were sent, answers come back in order; any number of either  *)
(* may be under way while the store changes.                               *)
(***************************************************************************)
EXTENDS Session, Sequences

CONSTANTS
  Main,           \* the thread that serves the interface
  MaxRequests     \* bound: requests ever sent

ASSUME MainAssumption == Threads = {Main} /\ MaxRequests \in Nat \ {0}

VARIABLES
  view,      \* SessionStatus held by the store
  ticker,    \* whether the interval of the store runs
  inbox,     \* requests sent and not served, oldest first
  outbox,    \* answers not yet delivered, oldest first
  orphans,   \* requests under way whose page is gone: the next answers are dropped
  sent

ui == <<view, ticker, inbox, outbox, orphans, sent>>
allVars == <<vars, ui>>

LOCKED_STATUS == [unlocked |-> FALSE, role |-> NoRole, expires |-> 0, expired |-> TRUE]

\* SessionManager::status
Status(s) == [unlocked |-> s.unlocked, role |-> s.role, expires |-> s.expires,
              expired |-> IsExpired(s)]

Requests == [kind: {"refresh", "lock"}] \cup [kind: {"unlock"}, role: Roles, ttl: TTLs]
              \cup [kind: {"protected"}, perm: Requested]

\* What the audit button asks for first, and effectiveRole.
SessionShown == view.unlocked /\ ~view.expired

\* effectiveRole: the role of the pill, by which the controls are enabled.  Without
\* a session it is the least of the roles.
ShownRole == IF SessionShown /\ view.role # NoRole THEN view.role ELSE "ReadOnly"
-----------------------------------------------------------------------------
InitView ==
  /\ Init
  /\ view = LOCKED_STATUS
  /\ ticker = FALSE
  /\ inbox = <<[kind |-> "refresh"]>>   \* onMount
  /\ outbox = <<>>
  /\ orphans = 0
  /\ sent = 1

Send(r) ==
  /\ sent < MaxRequests
  /\ sent' = sent + 1
  /\ inbox' = Append(inbox, r)
  /\ UNCHANGED <<vars, view, ticker, outbox, orphans>>

\* Mutant: answers to the requests of a page that is gone reach the new one.
AnswerAnyPage(a) == outbox' = Append(outbox, a) /\ UNCHANGED orphans

Answer(a) ==
  IF orphans > 0 THEN orphans' = orphans - 1 /\ UNCHANGED outbox
                 ELSE outbox' = Append(outbox, a) /\ UNCHANGED orphans

MainFree == call[Main] = NoCall

\* A session command is one critical section, and answers with the status after it.
ServeSession ==
  /\ MainFree
  /\ inbox # <<>>
  /\ \/ /\ Head(inbox).kind = "refresh"
        /\ UNCHANGED vars
     \/ /\ Head(inbox).kind = "lock"
        /\ LockSession
     \/ /\ Head(inbox).kind = "unlock"
        /\ UnlockSession(Head(inbox).role, Head(inbox).ttl)
  /\ inbox' = Tail(inbox)
  /\ Answer([kind |-> Head(inbox).kind, status |-> Status(session')])
  /\ UNCHANGED <<view, ticker, sent>>

ServeProtected ==
  /\ inbox # <<>>
  /\ Head(inbox).kind = "protected"
  /\ BeginProtected(Main, Head(inbox).perm)
  /\ inbox' = Tail(inbox)
  /\ UNCHANGED <<view, ticker, outbox, orphans, sent>>

\* lapsed is history: whether the refusal was for a locked or expired session.
CallStep ==
  /\ Step(Main)
  /\ IF call'[Main] = NoCall
       THEN Answer([kind |-> "protected", res |-> answer'[Main].res,
                    lapsed |-> EffectiveRole = NoRole])
       ELSE UNCHANGED <<outbox, orphans>>
  /\ UNCHANGED <<view, ticker, inbox, sent>>

\* Mutant: a refreshed session starts no ticker.
TakeStatusIdle(a) ==
  /\ view' = a.status
  /\ ticker' = IF a.kind = "unlock" THEN TRUE ELSE ticker

TakeStatus(a) ==
  /\ view' = a.status
  /\ ticker' = IF a.kind = "unlock" \/ (a.status.unlocked /\ ~a.status.expired)
                 THEN TRUE ELSE ticker

\* Mutant: the lock only stops the ticker.
TakeLockQuiet == ticker' = FALSE /\ UNCHANGED view

TakeLock == ticker' = FALSE /\ view' = LOCKED_STATUS

\* invoke looks for "session" and "expired" or "locked" in the message; the
\* messages of errors.rs for a refusal and for a failed audit hold neither.
MentionsSession(res) == FALSE

DeliverAnswer ==
  /\ outbox # <<>>
  /\ outbox' = Tail(outbox)
  /\ LET a == Head(outbox) IN
       \/ /\ a.kind \in {"refresh", "unlock"}
          /\ TakeStatus(a)
          /\ UNCHANGED inbox
       \/ /\ a.kind = "lock"
          /\ TakeLock
          /\ UNCHANGED inbox
       \/ /\ a.kind = "protected"
          /\ inbox' = IF MentionsSession(a.res) THEN Append(inbox, [kind |-> "lock"]) ELSE inbox
          /\ UNCHANGED <<view, ticker>>
  /\ UNCHANGED <<vars, orphans, sent>>

\* Mutant: the ticker stops without locking the store.
TickerQuiet ==
  /\ ticker
  /\ ~view.unlocked \/ now >= view.expires
  /\ ticker' = FALSE
  /\ UNCHANGED <<vars, view, inbox, outbox, orphans, sent>>

\* The interval does something only once the session in the store is over.
Ticker ==
  /\ ticker
  /\ ~view.unlocked \/ now >= view.expires
  /\ ticker' = FALSE
  /\ view' = IF view.unlocked THEN LOCKED_STATUS ELSE view
  /\ UNCHANGED <<vars, inbox, outbox, orphans, sent>>

\* The page is reloaded: the answers to its requests are lost, the requests are
\* still served, and the new page asks for the status.
Reload ==
  /\ sent < MaxRequests
  /\ sent' = sent + 1
  /\ view' = LOCKED_STATUS
  /\ ticker' = FALSE
  /\ outbox' = <<>>
  /\ orphans' = Len(inbox) + (IF MainFree THEN 0 ELSE 1)
  /\ inbox' = Append(inbox, [kind |-> "refresh"])
  /\ UNCHANGED vars

NextView ==
  \/ Tick /\ UNCHANGED ui
  \/ \E r \in Requests : Send(r)
  \/ ServeSession \/ ServeProtected \/ CallStep
  \/ DeliverAnswer \/ Ticker \/ Reload

SpecView == InitView /\ [][NextView]_allVars

FairSpecView ==
  SpecView /\ WF_allVars(ServeSession \/ ServeProtected \/ CallStep)
           /\ WF_allVars(DeliverAnswer) /\ WF_allVars(Ticker)
-----------------------------------------------------------------------------
\* Every variable keeps its type.
TypeOKView ==
  /\ TypeOK
  /\ view \in [unlocked: BOOLEAN, role: Roles \cup {NoRole}, expires: Nat, expired: BOOLEAN]
  /\ ticker \in BOOLEAN
  /\ inbox \in Seq(Requests)
  /\ orphans \in 0..(Len(inbox) + (IF MainFree THEN 0 ELSE 1))
  /\ sent \in 0..MaxRequests

Quiet ==
  /\ inbox = <<>> /\ outbox = <<>> /\ MainFree
  /\ ~(ticker /\ (~view.unlocked \/ now >= view.expires))

\* When nothing is under way the store shows a session exactly when the backend
\* grants a role, and the controls are enabled by that role, or by ReadOnly when
\* there is none; through every mix of refreshes, unlocks, locks, expiries and page
\* reloads.
ShownRoleIsGranted ==
  Quiet => /\ SessionShown <=> EffectiveRole # NoRole
           /\ ShownRole = (IF EffectiveRole = NoRole THEN "ReadOnly" ELSE EffectiveRole)

\* A shown session is watched: the store never shows one without the ticker that
\* will take it away.
ShownSessionIsWatched == SessionShown => ticker

\* Once the backend grants no role, the store stops showing a session, or the user
\* has unlocked again.
LapseIsShown == EffectiveRole = NoRole ~> (~SessionShown \/ EffectiveRole # NoRole)

\* session.ts: "Force lock state into the store when backend signals expiry": a
\* refusal for a lapsed session makes a store that still shows it lock.
RefusalLocksStore ==
  [][(DeliverAnswer /\ Head(outbox).kind = "protected" /\ Head(outbox).res = "denied"
        /\ Head(outbox).lapsed /\ SessionShown) => inbox' # inbox]_allVars
=============================================================================
