---------------------------- MODULE TicketReview ----------------------------
(***************************************************************************)
(* Ticket review: the scaffold store of the backend (scaffold_store.rs),   *)
(* the panel and the index that show it (stores/dor.ts, ticketQueue.ts,    *)
(* +page.svelte), and the routines and the verifier that work on both      *)
(* (routines.ts, opsVerifier.ts, navigation.ts).                           *)
(*                                                                         *)
(* As in the hub, a call is served and answered in one step, in the order  *)
(* of the calls, and the flow that awaited it runs on to its next call.    *)
(***************************************************************************)
EXTENDS Naturals, Sequences, FiniteSets

CONSTANTS
  Keys, FirstKey,   \* tickets of the provider, and the one it lists first
  Items,            \* checklist items of a scaffold; their ids differ from scaffold to scaffold
  NoKey, Absent,
  MaxActions,       \* bound: what the user starts
  MaxFaults         \* bound: calls refused or whose audit entry fails

ASSUME ReviewAssumption ==
  FirstKey \in Keys /\ NoKey \notin Keys /\ MaxActions \in Nat /\ MaxFaults \in Nat

VARIABLES
  store,       \* backend: store[k] is Absent or the marks of k's scaffold
  activeKey,   \* ticketQueue.activeKey
  panel,       \* dorStore.scaffold
  scaffolds,   \* dorStore.scaffolds
  activeRoutine, verifying,
  report,      \* the last report of each routine
  queue,       \* calls sent and not answered, each with its flow's continuation
  actions, faults,
  unaudited,   \* history: an effect was kept although its call answered an error
  strayed      \* history: the panel was given a routine's scaffold of a ticket left meanwhile

vars == <<store, activeKey, panel, scaffolds, activeRoutine, verifying, report, queue, actions,
          faults, unaudited, strayed>>

(***************************************************************************)
(* A scaffold is the set of its marks: the items that are done, and which  *)
(* of the criteria and the estimate are filled in.                         *)
(***************************************************************************)
Fields == {"criteria", "estimate"}
Marks == Items \cup Fields
ASSUME AbsentAssumption == \A marks \in SUBSET Marks : marks # Absent

Routines == {"daily", "planning"}
Runners == Routines \cup {"vdaily", "vplanning"}   \* started by a button, by the verifier
Outcomes == {"success", "degraded", "permission_denied", "error"}

\* drawn: the ticket whose scaffold the panel showed when an item was toggled;
\* res, loaded: what a routine found so far; step: which of its lists is awaited.
Calls == [cmd: {"load", "list", "create", "mark", "checkpoint", "surfaces"}, key: Keys \cup {NoKey},
          by: Runners \cup {"page"}, drawn: Keys \cup {NoKey}, mark: Marks, on: BOOLEAN,
          step: {"none", "first", "inner", "index"}, res: Outcomes, loaded: BOOLEAN]
anyMark == CHOOSE m \in Marks : TRUE
Call(cmd, key, by) ==
  [cmd |-> cmd, key |-> key, by |-> by, drawn |-> NoKey, mark |-> anyMark, on |-> FALSE,
   step |-> "none", res |-> "success", loaded |-> TRUE]

IsDaily(by) == by \in {"daily", "vdaily"}
Shown(status, key, marks) == [status |-> status, key |-> key, marks |-> marks]
Loading == Shown("loading", NoKey, {})
Failed == Shown("failed", NoKey, {})
Empty == Shown("empty", NoKey, {})
ToScaffoldView(k, marks) == Shown("success", k, marks)

Present(s) == {k \in Keys : s[k] # Absent}
Index(s) == [status |-> IF Present(s) = {} THEN "empty" ELSE "success", of |-> s]
NoIndex(status) == [status |-> status, of |-> [k \in Keys |-> Absent]]

NoReport == [key |-> NoKey, status |-> "none", loaded |-> FALSE]

\* finalStatus
FinalStatus(steps) ==
  IF "error" \in steps THEN "error"
  ELSE IF "permission_denied" \in steps THEN "permission_denied"
  ELSE IF "degraded" \in steps THEN "degraded" ELSE "success"
-----------------------------------------------------------------------------
\* The page was mounted: the provider's first ticket is selected, its scaffold and
\* the index are being loaded.
Init ==
  /\ store = [k \in Keys |-> Absent]
  /\ activeKey = FirstKey
  /\ panel = Loading
  /\ scaffolds = NoIndex("loading")
  /\ activeRoutine = "none" /\ verifying = FALSE
  /\ report = [r \in Routines |-> NoReport]
  /\ queue = <<Call("list", NoKey, "page"), Call("load", FirstKey, "page")>>
  /\ actions = 0 /\ faults = 0
  /\ unaudited = FALSE /\ strayed = FALSE

Act == actions < MaxActions /\ actions' = actions + 1
backendVars == <<store, faults, unaudited>>

\* The panel's auto-load follows the key; a ticket that is selected already stays.
Select(k) ==
  /\ Act
  /\ activeKey # k
  /\ activeKey' = k
  /\ panel' = Loading
  /\ queue' = Append(queue, Call("load", k, "page"))
  /\ UNCHANGED <<backendVars, scaffolds, activeRoutine, verifying, report, strayed>>

SendFromPage(call) ==
  /\ Act
  /\ queue' = Append(queue, call)
  /\ UNCHANGED <<backendVars, activeKey, panel, activeRoutine, verifying, report, strayed>>

\* toggleDorItem: the item is one that is drawn, the ticket the one active now.
Toggle(i) ==
  /\ panel.status = "success"
  /\ SendFromPage([Call("mark", activeKey, "page") EXCEPT
                     !.drawn = panel.key, !.mark = i, !.on = i \notin panel.marks])
  /\ UNCHANGED scaffolds

\* saveAcceptanceCriteria (no lines: none), saveEffortEstimate.
SaveField(f, filled) ==
  /\ panel.status = "success"
  /\ f = "estimate" => filled
  /\ SendFromPage([Call("mark", activeKey, "page") EXCEPT !.mark = f, !.on = filled])
  /\ UNCHANGED scaffolds

CreateScaffold == SendFromPage(Call("create", activeKey, "page")) /\ UNCHANGED scaffolds

RefreshIndex ==
  /\ SendFromPage(Call("list", NoKey, "page"))
  /\ scaffolds' = NoIndex("loading")

(***************************************************************************)
(* Routines.  Opening the tickets only refreshes the queue, which keeps    *)
(* the selected ticket; daily loads its scaffold at once, planning lists   *)
(* first.                                                                  *)
(***************************************************************************)
BeginRoutine(q, by) ==
  IF IsDaily(by)
    THEN /\ activeRoutine' = "daily"
         /\ panel' = Loading
         /\ queue' = Append(q, Call("load", activeKey, by))
         /\ UNCHANGED scaffolds
    ELSE /\ activeRoutine' = "planning"
         /\ scaffolds' = NoIndex("loading")
         /\ queue' = Append(q, [Call("list", NoKey, by) EXCEPT !.step = "first"])
         /\ UNCHANGED panel

RunRoutine(r) ==
  /\ activeRoutine = "none"
  /\ Act
  /\ BeginRoutine(queue, r)
  /\ UNCHANGED <<backendVars, activeKey, verifying, report, strayed>>

\* The verifier looks at its own flag only, not at activeRoutine.
RunVerification ==
  /\ ~verifying
  /\ verifying' = TRUE
  /\ Act
  /\ queue' = Append(queue, Call("surfaces", NoKey, "vdaily"))
  /\ UNCHANGED <<backendVars, activeKey, panel, scaffolds, activeRoutine, report, strayed>>
-----------------------------------------------------------------------------
call == Head(queue)
rest == Tail(queue)
Serving(cmd) == queue # <<>> /\ call.cmd = cmd
Fault == faults < MaxFaults /\ faults' = faults + 1

\* The scaffold is ensured: daily lists, planning goes on to the audit checkpoint.
ScaffoldEnsured(c) ==
  IF IsDaily(c.by)
    THEN /\ queue' = Append(rest, [c EXCEPT !.cmd = "list", !.step = "index"])
         /\ scaffolds' = NoIndex("loading")
    ELSE /\ queue' = Append(rest, [c EXCEPT !.cmd = "checkpoint"])
         /\ UNCHANGED scaffolds

\* Mutant: a missing scaffold is not told from one.
LoadedUnchecked(k) == ToScaffoldView(k, store[k])

Loaded(k) == IF store[k] = Absent THEN Empty ELSE ToScaffoldView(k, store[k])

\* A load of the page ends here; a routine creates a scaffold only when there is none,
\* and takes any other answer for a scaffold that exists.
AnswerLoad ==
  /\ Serving("load")
  /\ \/ panel' = Loaded(call.key) /\ UNCHANGED faults
     \/ panel' = Failed /\ Fault
  /\ IF call.by = "page" THEN queue' = rest /\ UNCHANGED scaffolds
     ELSE IF panel' = Empty
       THEN queue' = Append(rest, [call EXCEPT !.cmd = "create"]) /\ UNCHANGED scaffolds
       ELSE ScaffoldEnsured([call EXCEPT !.loaded = panel' # Failed])
  /\ strayed' = FALSE
  /\ UNCHANGED <<store, activeKey, activeRoutine, verifying, report, actions, unaudited>>

\* Mutant: an item is found by its title, which all scaffolds share.
ItemByTitle(c) == TRUE

\* set_dor_item_status finds the item by its id among those of the ticket's scaffold.
ItemIsOfTicket(c) == c.mark \in Items => c.drawn = c.key

Effect(c) ==
  IF c.cmd = "create" THEN store[c.key] = Absent ELSE store[c.key] # Absent /\ ItemIsOfTicket(c)

Marked(c) ==
  IF c.cmd = "create" THEN {}
  ELSE IF c.on THEN store[c.key] \cup {c.mark} ELSE store[c.key] \ {c.mark}

ApplyChange(c) == store' = [store EXCEPT ![c.key] = Marked(c)]

\* Mutant: the index is not listed again.
ListAfterForgotten(c) ==
  IF c.by = "page" THEN queue' = rest /\ UNCHANGED scaffolds ELSE ScaffoldEnsured(c)

\* After each success the store lists, whoever called it.
ListAfter(c) ==
  /\ queue' = Append(rest, [c EXCEPT !.cmd = "list", !.step = "inner"])
  /\ scaffolds' = NoIndex("loading")

Change == call.cmd \in {"create", "mark"}

AnswerChange ==
  /\ queue # <<>> /\ Change
  /\ Effect(call)
  /\ ApplyChange(call)
  /\ panel' = ToScaffoldView(call.key, Marked(call))
  /\ strayed' = (call.by # "page" /\ call.key # activeKey)
  /\ ListAfter(call)
  /\ UNCHANGED <<activeKey, activeRoutine, verifying, report, actions, faults, unaudited>>

\* Mutant: a routine does not look at the answer to its create.
NotChangedUnseen(c) ==
  IF c.by = "page" THEN queue' = rest /\ UNCHANGED scaffolds ELSE ScaffoldEnsured(c)

\* Mutant: a refusal ends the routine as it ends a flow of the page.
NotChangedStops(c) == queue' = rest /\ UNCHANGED scaffolds

\* An error leaves the panel as it is; a routine notes it and goes on.
NotChanged(c) ==
  IF c.by = "page" THEN queue' = rest /\ UNCHANGED scaffolds
  ELSE \E res \in {"permission_denied", "error"} : ScaffoldEnsured([c EXCEPT !.res = res])

\* Refused by the store, by require_permission, or for its arguments.
RefuseChange ==
  /\ queue # <<>> /\ Change
  /\ \/ ~Effect(call) /\ UNCHANGED faults
     \/ Fault
  /\ NotChanged(call)
  /\ UNCHANGED <<store, activeKey, panel, activeRoutine, verifying, report, actions, unaudited,
                 strayed>>

\* The change is kept, its audit entry is not written, an error is answered.
AnswerUnaudited ==
  /\ queue # <<>> /\ Change
  /\ Effect(call)
  /\ Fault
  /\ ApplyChange(call)
  /\ unaudited' = TRUE
  /\ NotChanged(call)
  /\ UNCHANGED <<activeKey, panel, activeRoutine, verifying, report, actions, strayed>>

\* A list is answered; what awaited it goes on.  Planning reads the ticket only now.
AfterList(answer) ==
  CASE call.step = "first" ->
         /\ scaffolds' = answer
         /\ panel' = Loading
         /\ queue' = Append(rest, Call("load", activeKey, call.by))
    [] call.step = "inner" /\ IsDaily(call.by) ->
         /\ scaffolds' = NoIndex("loading")
         /\ queue' = Append(rest, [call EXCEPT !.step = "index"])
         /\ UNCHANGED panel
    [] OTHER ->
         /\ scaffolds' = answer
         /\ queue' = IF call.by = "page" THEN rest
                     ELSE Append(rest, [call EXCEPT !.cmd = "checkpoint", !.step = "none"])
         /\ UNCHANGED panel

AnswerList ==
  /\ Serving("list")
  /\ \/ AfterList(Index(store)) /\ UNCHANGED faults
     \/ AfterList(NoIndex("failed")) /\ Fault
  /\ UNCHANGED <<store, activeKey, activeRoutine, verifying, report, actions, unaudited, strayed>>

VerificationGoesOn(by) == verifying /\ by # "vplanning"

\* Credentials and their health, or the audit checkpoint, and the command deck: nothing
\* here depends on them but the status of their step.
AnswerCheckpoint ==
  /\ Serving("checkpoint")
  /\ \E res \in (IF IsDaily(call.by) THEN {"success", "degraded", "permission_denied"}
                                     ELSE {"success", "error", "permission_denied"}) :
       report' = [report EXCEPT ![IF IsDaily(call.by) THEN "daily" ELSE "planning"] =
         [key |-> call.key, status |-> FinalStatus({call.res, res}), loaded |-> call.loaded]]
  /\ IF call.by = "vdaily"
       THEN BeginRoutine(rest, "vplanning")
       ELSE queue' = rest /\ activeRoutine' = "none" /\ UNCHANGED <<panel, scaffolds>>
  /\ verifying' = VerificationGoesOn(call.by)
  /\ UNCHANGED <<store, activeKey, actions, faults, unaudited, strayed>>

\* The verifier has activated every surface and runs the daily review.
AnswerSurfaces ==
  /\ Serving("surfaces")
  /\ BeginRoutine(rest, "vdaily")
  /\ UNCHANGED <<store, activeKey, verifying, report, actions, faults, unaudited, strayed>>

Answer ==
  AnswerLoad \/ AnswerChange \/ RefuseChange \/ AnswerUnaudited \/ AnswerList \/ AnswerCheckpoint
    \/ AnswerSurfaces

Next ==
  \/ \E k \in Keys : Select(k)
  \/ \E i \in Items : Toggle(i)
  \/ \E f \in Fields, filled \in BOOLEAN : SaveField(f, filled)
  \/ CreateScaffold \/ RefreshIndex
  \/ \E r \in Routines : RunRoutine(r)
  \/ RunVerification
  \/ Answer

\* A call that was sent is answered: the commands are synchronous and return.
Spec == Init /\ [][Next]_vars /\ WF_vars(Answer)
-----------------------------------------------------------------------------
Scaffold == {Absent} \cup SUBSET Marks

\* Every variable is of its type.
TypeOK ==
  /\ store \in [Keys -> Scaffold]
  /\ activeKey \in Keys
  /\ panel \in {Loading, Failed, Empty} \cup {ToScaffoldView(k, m) : k \in Keys, m \in SUBSET Marks}
  /\ scaffolds \in [status: {"loading", "empty", "success", "failed"}, of: [Keys -> Scaffold]]
  /\ activeRoutine \in Routines \cup {"none"} /\ verifying \in BOOLEAN
  /\ report \in [Routines -> [key: Keys \cup {NoKey}, status: Outcomes \cup {"none"},
                              loaded: BOOLEAN]]
  /\ queue \in Seq(Calls)
  /\ actions \in 0..MaxActions /\ faults \in 0..MaxFaults
  /\ unaudited \in BOOLEAN /\ strayed \in BOOLEAN

Quiet == queue = <<>>

\* An item changes only in the scaffold it was drawn from.  The toggle names the
\* ticket active when it runs, and the panel may show another one's scaffold by
\* then (a routine created it for a ticket the user left): the id decides.
MarksLandWhereDrawn ==
  [][\A k \in Keys :
       store[k] # Absent /\ store'[k] \cap Items # store[k] \cap Items => call.drawn = k]_vars

\* Once nothing is under way the panel shows the store's scaffold of the ticket it
\* names, and that is the active ticket unless a routine strayed; an empty panel
\* means the active ticket has none; the index lists every scaffold.  Unless an
\* effect was kept under an error, or the answer was one.
ViewsMatchStore ==
  Quiet /\ ~unaudited =>
    /\ panel.status # "loading" /\ scaffolds.status # "loading"
    /\ panel.status = "success" => /\ panel.marks = store[panel.key]
                                   /\ panel.key = activeKey \/ strayed
    /\ panel.status = "empty" => store[activeKey] = Absent
    /\ scaffolds.status # "failed" => scaffolds = Index(store)

\* A routine that reports no error for a ticket whose scaffold it could load
\* leaves that ticket with a scaffold, whoever creates scaffolds meanwhile.
ReportIsTrue ==
  \A r \in Routines :
    report[r].status \in {"success", "degraded"} /\ report[r].loaded =>
      store[report[r].key] # Absent

\* A routine, and the verifier that runs both, come to their end whatever their calls
\* answer, so their buttons are enabled again.
RoutinesEnd ==
  /\ (activeRoutine # "none") ~> (activeRoutine = "none")
  /\ verifying ~> ~verifying
=============================================================================
