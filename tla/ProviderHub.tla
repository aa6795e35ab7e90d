----------------------------- MODULE ProviderHub ----------------------------
(***************************************************************************)
(* The integration hub: the credentials store (stores/credentials.ts), the *)
(* flows of IntegrationHub.svelte, the health poll of +layout.svelte and   *)
(* the LLM gateway (llm/mod.rs, commands/llm.rs) they talk to.             *)
(*                                                                         *)
(* Every flow is a line of awaited calls over state all flows share.       *)
(* Synchronous commands are served one at a time in the order they were    *)
(* sent and nothing else touches their state, so a call is served and      *)
(* answered in one step, in which its flow runs on to its next await.      *)
(***************************************************************************)
EXTENDS Naturals, Sequences, FiniteSets

CONSTANTS
  Providers, Keyless,  \* LLM providers; those that need no credential (ollama)
  Creds,               \* credential ids, each given out once (uuid)
  NoCred, NoProvider, Repo,
  MaxFlows,            \* bound: flows the user or a timer starts
  MaxFaults            \* bound: calls that fail, and secrets lost outside the application

ASSUME HubAssumption ==
  /\ Keyless \subseteq Providers
  /\ NoCred \notin Creds
  /\ {NoProvider, Repo} \cap Providers = {} /\ NoProvider # Repo
  /\ MaxFlows \in Nat /\ MaxFaults \in Nat

VARIABLES
  owner, stored, secrets,  \* backend: provider an id was added for; ids with metadata; with a secret
  config,                  \* backend: the gateway's configs
  view,                    \* the credentials store
  shown,                   \* llmConfigs of the hub
  form,                    \* llmProvider and llmCredentialId
  console,                 \* status of llmConsole.result
  tray,                    \* status the tray shows
  queue,                   \* calls sent and not answered, each with its flow's continuation
  started, faults,
  unseen,                  \* history: views that miss an effect whose call answered an error
  calm                     \* history: nothing has happened beside the latest poll

backend == <<owner, stored, secrets, config>>
vars == <<backend, view, shown, form, console, tray, queue, started, faults, unseen, calm>>

Health == {"unchecked", "healthy", "invalid"}
Config == [on: BOOLEAN, cred: Creds \cup {NoCred}]
Partial(S, T) == UNION {[D -> T] : D \in SUBSET S}
Flows == {"open", "poll", "surface", "health", "configs", "provider", "credential", "remove",
          "repo", "forget", "preview"}
Commands == {"url", "add", "delete", "check", "list", "configure", "configs", "invoke", "tray"}
Calls == [cmd: Commands, flow: Flows, p: Providers \cup {NoProvider, Repo},
          arg: Creds \cup {NoCred, "ok", "degraded", "error"}, todo: SUBSET Creds]

Call(cmd, flow, p, arg) == [cmd |-> cmd, flow |-> flow, p |-> p, arg |-> arg, todo |-> {}]
Answered(status, list) == [status |-> status, list |-> list]
Nothing == [x \in {} |-> x]
Loading == Answered("loading", Nothing)
Failed == Answered("failed", Nothing)     \* error and permission_denied are handled alike
Listed(f) == Answered(IF DOMAIN f = {} THEN "empty" ELSE "success", f)

\* Functions that keep their other values: an entry written, an entry dropped.
Put(f, x, v) == [y \in DOMAIN f \cup {x} |-> IF y = x THEN v ELSE f[y]]
Drop(f, x) == [y \in DOMAIN f \ {x} |-> f[y]]

Healthy(list) == {id \in DOMAIN list : list[id] = "healthy"}

\* Mutant: no healthy credential is tested before no credential.
VerdictNoneFirst(total, healthy) ==
  IF healthy = {} THEN "error" ELSE IF healthy = total THEN "ok" ELSE "degraded"

\* pollHealth: the status of the tray.
Verdict(total, healthy) ==
  IF healthy = total THEN "ok" ELSE IF healthy = {} THEN "error" ELSE "degraded"

LlmIds == {id \in DOMAIN view.list : owner[id] # Repo}   \* llmCredentials

\* Mutant: a linked credential that is not listed is not noticed.
ConnectionStatusUnlisted(cfg) ==
  IF cfg.cred \in LlmIds /\ view.list[cfg.cred] = "invalid" THEN "unreachable"
  ELSE IF cfg.on THEN "configured" ELSE "disabled"

\* llmConnectionStatus; "missing credential" is the caller's: p is keyless or linked.
ConnectionStatus(cfg) ==
  IF cfg.cred # NoCred /\ (cfg.cred \notin LlmIds \/ view.list[cfg.cred] = "invalid")
    THEN "unreachable" ELSE IF cfg.on THEN "configured" ELSE "disabled"

Configured(p) ==
  /\ p \in DOMAIN shown.list
  /\ p \in Keyless \/ shown.list[p].cred # NoCred
  /\ ConnectionStatus(shown.list[p]) = "configured"
-----------------------------------------------------------------------------
\* Layout and hub are mounted together: three refreshes are under way at the start.
Init ==
  /\ owner = [id \in Creds |-> NoProvider]
  /\ stored = {} /\ secrets = {}
  /\ config = Nothing
  /\ view = Loading
  /\ shown = Answered("empty", Nothing)
  /\ form \in [p: Providers, cred: {NoCred}]
  /\ console = "empty"
  /\ tray = "unset"
  /\ queue = <<Call("list", "open", NoProvider, NoCred),
               Call("list", "surface", NoProvider, NoCred),
               Call("list", "poll", NoProvider, NoCred)>>
  /\ started = 0 /\ faults = 0
  /\ unseen = {}
  /\ calm = FALSE

(***************************************************************************)
(* The health loops take the ids listed when they begin and check one      *)
(* after the other; then the poll sets the tray and most flows reload the  *)
(* configs.  q: the calls under way; list: what the store lists now.       *)
(***************************************************************************)
ReloadConfigs == {"open", "configs", "provider", "remove"}

CheckNext(q, flow, todo, list) ==
  IF todo # {}
    THEN /\ \E id \in todo :
              queue' = Append(q, [Call("check", flow, NoProvider, id) EXCEPT !.todo = todo \ {id}])
         /\ UNCHANGED shown
    ELSE /\ queue' = q \o CASE flow = "poll" ->
                                 <<Call("tray", flow, NoProvider,
                                        Verdict(DOMAIN list, Healthy(list)))>>
                            [] flow \in ReloadConfigs -> <<Call("configs", flow, NoProvider, NoCred)>>
                            [] OTHER -> <<>>
         /\ shown' = IF flow \in ReloadConfigs THEN Loading ELSE shown

Start == started < MaxFlows /\ started' = started + 1

\* credentials.refresh, from a surface or as the first step of the poll.
StartRefresh(flow) ==
  /\ Start
  /\ view' = Loading
  /\ queue' = Append(queue, Call("list", flow, NoProvider, NoCred))
  /\ calm' = (flow = "poll" /\ queue = <<>>)
  /\ UNCHANGED <<backend, shown, form, console, tray, faults, unseen>>

\* The Refresh and Refresh Health buttons.
StartChecks(flow) ==
  /\ Start
  /\ CheckNext(queue, flow, IF flow = "health" THEN DOMAIN view.list ELSE {}, view.list)
  /\ calm' = FALSE
  /\ UNCHANGED <<backend, view, form, console, tray, faults, unseen>>

StartCall(new) ==
  /\ Start
  /\ queue' = Append(queue, new)
  /\ calm' = FALSE
  /\ UNCHANGED <<backend, view, shown, form, tray, faults, unseen>>

\* A base URL is validated first; without one the call is sent at once, with
\* the fields of the form at that moment.
SendSave(flow) == Call("configure", flow, form.p, form.cred)
SendAdd(flow) == Call("add", flow, IF flow = "repo" THEN Repo ELSE form.p, NoCred)

\* Bound: an addition is started only while an id is left for it.
IdsLeft ==
  LET adding == {i \in DOMAIN queue : queue[i].cmd = "add" \/
                   (queue[i].cmd = "url" /\ queue[i].flow # "provider")}
  IN Cardinality(adding) < Cardinality({id \in Creds : owner[id] = NoProvider})

SaveProvider ==     \* addLlmProvider
  /\ \/ StartCall(Call("url", "provider", NoProvider, NoCred))
     \/ StartCall(SendSave("provider"))
  /\ UNCHANGED console

SaveCredential ==   \* addLlmCredential
  /\ form.p \notin Keyless
  /\ IdsLeft
  /\ \/ StartCall(Call("url", "credential", NoProvider, NoCred))
     \/ StartCall(SendAdd("credential"))
  /\ UNCHANGED console

SaveRepo ==         \* addGithubRepo, addJiraCredential
  /\ IdsLeft
  /\ StartCall(Call("url", "repo", NoProvider, NoCred))
  /\ UNCHANGED console

\* removeLlmProvider: the config is the one drawn when the button is pressed.
RemoveProvider(p) ==
  /\ p \in DOMAIN shown.list /\ shown.list[p].on
  /\ StartCall(IF shown.list[p].cred # NoCred
                 THEN Call("delete", "remove", p, shown.list[p].cred)
                 ELSE Call("configure", "remove", p, NoCred))
  /\ UNCHANGED console

ForgetRepo(id) ==   \* removeGithubRepo
  /\ id \in DOMAIN view.list /\ owner[id] = Repo
  /\ StartCall(Call("delete", "forget", NoProvider, id))
  /\ UNCHANGED console

Preview(p) ==       \* llmConsole.invoke_llm
  /\ StartCall(Call("invoke", "preview", p, NoCred))
  /\ console' = "loading"

\* The selects: another provider leaves the chosen id where it is.
EditForm ==
  /\ form' \in [p: Providers, cred: {NoCred, form.cred} \cup LlmIds]
  /\ UNCHANGED <<backend, view, shown, console, tray, queue, started, faults, unseen, calm>>

Fault == faults < MaxFaults /\ faults' = faults + 1 /\ calm' = FALSE
NoFault == UNCHANGED <<faults, calm>>

LoseSecret(id) ==
  /\ id \in secrets
  /\ Fault
  /\ secrets' = secrets \ {id}
  /\ UNCHANGED <<owner, stored, config, view, shown, form, console, tray, queue, started, unseen>>
-----------------------------------------------------------------------------
call == Head(queue)
rest == Tail(queue)
Serving(cmd) == queue # <<>> /\ call.cmd = cmd

\* cmd_validate_base_url accepts or refuses the text.
AnswerUrl ==
  /\ Serving("url")
  /\ \/ queue' = rest
     \/ queue' = Append(rest, IF call.flow = "provider" THEN SendSave(call.flow) ELSE SendAdd(call.flow))
  /\ UNCHANGED <<backend, view, shown, form, console, tray, started, faults, unseen, calm>>

\* A call is refused (no session, a keychain error) and ends its flow.
AnswerRefused ==
  /\ queue # <<>> /\ call.cmd \in {"add", "delete", "configure"}
  /\ \/ Fault
     \/ call.cmd = "delete" /\ call.arg \notin stored \cap secrets /\ NoFault
  /\ queue' = rest
  /\ UNCHANGED <<backend, view, shown, form, console, tray, started, unseen>>

\* The effect is kept but the audit entry cannot be written: an error is answered.
AnswerUnaudited(view_, cmd) ==
  /\ Serving(cmd)
  /\ Fault
  /\ queue' = rest
  /\ unseen' = unseen \cup {view_}
  /\ UNCHANGED <<view, shown, form, console, tray, started>>

DoAdd(id) ==
  /\ owner[id] = NoProvider
  /\ owner' = [owner EXCEPT ![id] = call.p]
  /\ stored' = stored \cup {id}
  /\ secrets' = secrets \cup {id}
  /\ UNCHANGED config

\* The store appends the new credential, or lists it alone when it has no list.
AnswerAdd(id) ==
  /\ Serving("add")
  /\ DoAdd(id)
  /\ NoFault
  /\ LET added == Listed(Put(view.list, id, "unchecked"))
     IN IF call.flow = "repo"
          THEN /\ view' = Loading
               /\ queue' = Append(rest, Call("list", "repo", NoProvider, NoCred))
               /\ UNCHANGED <<shown, form>>
          ELSE /\ view' = added
               /\ form' = [form EXCEPT !.cred = id]
               /\ CheckNext(rest, call.flow, DOMAIN added.list, added.list)
  /\ UNCHANGED <<console, tray, started, unseen>>

DoDelete ==
  /\ call.arg \in stored \cap secrets
  /\ stored' = stored \ {call.arg}
  /\ secrets' = secrets \ {call.arg}
  /\ UNCHANGED <<owner, config>>

\* Mutant: the deleted credential stays in the list.
UnlistKept(id) == view

\* Mutant: the list may become empty and stay a success.
UnlistToNothing(id) == IF view.status = "success" THEN Answered("success", Drop(view.list, id)) ELSE view

Unlist(id) == IF view.status = "success" THEN Listed(Drop(view.list, id)) ELSE view

AnswerDelete ==
  /\ Serving("delete")
  /\ DoDelete
  /\ NoFault
  /\ view' = Unlist(call.arg)
  /\ queue' = rest \o IF call.flow = "remove" THEN <<Call("configure", "remove", call.p, NoCred)>> ELSE <<>>
  /\ UNCHANGED <<shown, form, console, tray, started, unseen>>

\* configure_provider stores whatever it is sent; it does not ask for the credential.
DoConfigure ==
  /\ config' = Put(config, call.p, [on |-> call.flow = "provider", cred |-> call.arg])
  /\ UNCHANGED <<owner, stored, secrets>>

AnswerConfigure ==
  /\ Serving("configure")
  /\ DoConfigure
  /\ NoFault
  /\ form' = IF call.flow = "provider" THEN [form EXCEPT !.cred = NoCred] ELSE form
  /\ CheckNext(rest, call.flow, DOMAIN view.list, view.list)
  /\ UNCHANGED <<view, console, tray, started, unseen>>

Mark(id, health) ==
  IF id \in DOMAIN view.list THEN [view EXCEPT !.list[id] = health] ELSE view

\* checkHealth: only a success changes the store; the loop goes on in any case.
AnswerCheck ==
  /\ Serving("check")
  /\ \/ /\ call.arg \in stored
        /\ NoFault
        /\ view' = Mark(call.arg, IF call.arg \in secrets THEN "healthy" ELSE "invalid")
     \/ call.arg \in stored /\ Fault /\ view' = Mark(call.arg, "invalid")   \* keychain out of reach
     \/ call.arg \notin stored /\ NoFault /\ UNCHANGED view
     \/ Fault /\ UNCHANGED view
  /\ CheckNext(rest, call.flow, call.todo, view'.list)
  /\ UNCHANGED <<backend, form, console, tray, started, unseen>>

ListCredentials == Listed([id \in stored |-> "unchecked"])

\* credentials.refresh, answered; its flow goes on to the checks, also after an error.
AnswerList ==
  /\ Serving("list")
  /\ \/ /\ view' = ListCredentials
        /\ unseen' = unseen \ {"credentials"}
        /\ NoFault
     \/ /\ view' = Failed
        /\ Fault
        /\ UNCHANGED unseen
  /\ IF call.flow = "surface"
       THEN queue' = rest /\ UNCHANGED shown
       ELSE CheckNext(rest, call.flow, DOMAIN view'.list, view'.list)
  /\ UNCHANGED <<backend, form, console, tray, started>>

ListProviderConfigs == Listed(config)

\* Mutant: a refused reload leaves the list loading.
AnswerConfigsStuck ==
  /\ Serving("configs")
  /\ \/ /\ shown' = ListProviderConfigs
        /\ unseen' = unseen \ {"configs"}
        /\ NoFault
     \/ Fault /\ UNCHANGED <<shown, unseen>>
  /\ queue' = rest
  /\ UNCHANGED <<backend, view, form, console, tray, started>>

\* refreshLlmConfigs, answered.
AnswerConfigs ==
  /\ Serving("configs")
  /\ \/ /\ shown' = ListProviderConfigs
        /\ unseen' = unseen \ {"configs"}
        /\ NoFault
     \/ /\ shown' = Failed
        /\ Fault
        /\ UNCHANGED unseen
  /\ queue' = rest
  /\ UNCHANGED <<backend, view, form, console, tray, started>>

\* The stub answers when its provider is enabled, the gateway has one per provider.
StubInvoke(cfg) == cfg.on
GatewayInvoke(p) == p \in DOMAIN config /\ StubInvoke(config[p])

AnswerInvoke ==
  /\ Serving("invoke")
  /\ \/ /\ console' = IF GatewayInvoke(call.p) THEN "success" ELSE "failed"
        /\ NoFault
     \/ console' = "failed" /\ Fault
  /\ queue' = rest
  /\ UNCHANGED <<backend, view, shown, form, tray, started, unseen>>

AnswerTray ==
  /\ Serving("tray")
  /\ tray' = call.arg
  /\ queue' = rest
  /\ UNCHANGED <<backend, view, shown, form, console, started, faults, unseen, calm>>

Answer ==
  \/ AnswerUrl \/ AnswerRefused
  \/ (\E id \in Creds : AnswerAdd(id)) \/ AnswerDelete \/ AnswerConfigure
  \/ (AnswerUnaudited("credentials", "add") /\ \E id \in Creds : DoAdd(id))
  \/ (AnswerUnaudited("credentials", "delete") /\ DoDelete)
  \/ (AnswerUnaudited("configs", "configure") /\ DoConfigure)
  \/ AnswerCheck \/ AnswerList \/ AnswerConfigs \/ AnswerInvoke \/ AnswerTray

Next ==
  \/ \E flow \in {"poll", "surface"} : StartRefresh(flow)
  \/ \E flow \in {"health", "configs"} : StartChecks(flow)
  \/ SaveProvider \/ SaveCredential \/ SaveRepo
  \/ \E p \in Providers : RemoveProvider(p) \/ Preview(p)
  \/ \E id \in Creds : ForgetRepo(id) \/ LoseSecret(id)
  \/ EditForm
  \/ Answer

Spec == Init /\ [][Next]_vars

\* A call that was sent is answered: the commands are synchronous and return.
FairSpec == Spec /\ WF_vars(Answer)
-----------------------------------------------------------------------------
Lists(S, T) == {Loading, Failed, Answered("empty", Nothing)}
                 \cup {Answered("success", f) : f \in {g \in Partial(S, T) : DOMAIN g # {}}}

\* Every variable is of its type; a list that claims success is not empty.
TypeOK ==
  /\ owner \in [Creds -> Providers \cup {NoProvider, Repo}]
  /\ secrets \subseteq stored /\ stored \subseteq {id \in Creds : owner[id] # NoProvider}
  /\ config \in Partial(Providers, Config)
  /\ view \in Lists(Creds, Health)
  /\ shown \in Lists(Providers, Config)
  /\ form \in [p: Providers, cred: Creds \cup {NoCred}]
  /\ console \in {"empty", "loading", "success", "failed"}
  /\ tray \in {"unset", "ok", "degraded", "error"}
  /\ queue \in Seq(Calls)
  /\ started \in 0..MaxFlows /\ faults \in 0..MaxFaults
  /\ unseen \subseteq {"credentials", "configs"}
  /\ calm \in BOOLEAN

Quiet == queue = <<>>

ConfiguredIsUsable ==
  \A p \in Providers : Configured(p) =>
    /\ p \in DOMAIN config /\ config[p].on
    /\ config[p].cred = NoCred \/ config[p].cred \in stored

ListedIsStored == DOMAIN view.list \subseteq stored

\* Once nothing is under way, a provider the hub calls "configured" is enabled in
\* the gateway and the credential the gateway holds for it exists, and so does each
\* credential that is listed: whatever saves, removals, polls and reloads overlapped
\* before (llmConnectionStatus, removeLlmProvider, addLlmProvider, deleteCredential);
\* unless an effect was kept under an error and not seen since.
HubMatchesBackend ==
  Quiet =>
    /\ unseen = {} => ConfiguredIsUsable
    /\ "credentials" \notin unseen => ListedIsStored

\* A poll that ran alone and without a failed call leaves the verdict of the
\* keychain in the tray, although its calls are answered one by one.
TrayIsTrue ==
  calm /\ Quiet =>
    /\ tray = "ok" <=> secrets = stored
    /\ tray = "error" <=> secrets = {} /\ stored # {}

\* Nothing is shown as loading that no answer will end: while a list of
\* credentials or configs or a preview is loading, a call that sets it is under
\* way, and under FairSpec is answered.  The code has no timeout to fall back on.
LoadingIsAnswered ==
  LET underWay == {queue[i].cmd : i \in DOMAIN queue}
  IN /\ view.status = "loading" => "list" \in underWay
     /\ shown.status = "loading" => "configs" \in underWay
     /\ console = "loading" => "invoke" \in underWay
=============================================================================
