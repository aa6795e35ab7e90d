------------------------------- MODULE Commands -----------------------------
(***************************************************************************)
(* The command surface: the policy table of security/command_policy.rs,    *)
(* the permission each handler asks for, the capabilities the interface    *)
(* enables its controls by (stores/capabilities.ts), and the validation of *)
(* arguments behind it.  The three tables are kept by hand.                *)
(***************************************************************************)
EXTENDS Permissions, Validators

CONSTANTS
  Inputs,         \* Inputs[kind]: texts a caller may pass as an argument of that kind
  NoRole, NoArg

ASSUME RoleAssumption == NoRole \notin Roles
ASSUME CronAssumption == NoStep \notin Nat \cup {Junk} /\ Junk \notin Nat

Texts ==
  [cron |-> CronTexts, url |-> UrlTexts, key |-> KeyTexts, jql |-> JqlTexts,
   estimate |-> EstimateTexts, criteria |-> CriteriaTexts, prompt |-> PromptTexts]

ASSUME InputsAssumption == \A kind \in DOMAIN Texts : Inputs[kind] \subseteq Texts[kind]

VARIABLES
  role,    \* effective_role: NoRole while the session is locked or lapsed
  reply    \* the last command: who called it with what, and its answer

vars == <<role, reply>>

Public == "public"

\* COMMAND_POLICIES; its tests keep it equal to EXPORTED_COMMANDS.
Exposure == [
  greet |-> Public,
  cmd_add_credential |-> "AddCredential",
  cmd_delete_credential |-> "DeleteCredential",
  cmd_check_credential_health |-> "CheckCredentialHealth",
  cmd_list_credentials |-> "ViewCredentialList",
  cmd_initialize_index_store |-> "TriggerRepositoryIndex",
  cmd_get_index_store_health |-> "ViewRepositoryIndex",
  cmd_check_index_store_health |-> "ViewRepositoryIndex",
  cmd_get_current_role |-> "ViewSystemConfig",
  cmd_set_current_role |-> "AssignRoles",
  cmd_unlock_session |-> Public, cmd_lock_session |-> Public, cmd_get_session_status |-> Public,
  cmd_configure_llm_provider |-> "ConfigureLlmProvider",
  cmd_list_llm_provider_configs |-> "ConfigureLlmProvider",
  cmd_invoke_llm |-> "InvokeLlm",
  cmd_create_ticket_scaffold |-> "RequestTicketReview",
  cmd_get_ticket_scaffold |-> "ViewJiraTickets",
  cmd_list_ticket_scaffolds |-> "ViewJiraTickets",
  cmd_set_dor_item_status |-> "RequestTicketReview",
  cmd_set_acceptance_criteria |-> "RequestTicketReview",
  cmd_set_effort_estimate |-> "RequestTicketReview",
  cmd_validate_jql |-> Public, cmd_validate_cron |-> Public, cmd_validate_base_url |-> Public,
  cmd_verify_audit_integrity |-> "ViewAuditLog"]

ExportedCommands == DOMAIN Exposure

\* generate_handler! also registers the command that sets the tray, which is in
\* neither list of the policy and asks for nothing.
RegisteredCommands == ExportedCommands \cup {"cmd_set_tray_status"}

Protected(cmd) == cmd \in ExportedCommands /\ Exposure[cmd] # Public

\* The permission of the require_permission call at the head of each handler, by
\* file; Public where there is none (validation, session, greet).
CredentialHandlers(cmd) ==
  CASE cmd = "cmd_add_credential"          -> "AddCredential"
    [] cmd = "cmd_delete_credential"       -> "DeleteCredential"
    [] cmd = "cmd_check_credential_health" -> "CheckCredentialHealth"
    [] cmd = "cmd_list_credentials"        -> "ViewCredentialList"
    [] OTHER -> Public

IndexHandlers(cmd) ==
  IF cmd = "cmd_initialize_index_store" THEN "TriggerRepositoryIndex"
  ELSE IF cmd \in {"cmd_get_index_store_health", "cmd_check_index_store_health"}
    THEN "ViewRepositoryIndex" ELSE Public

\* cmd_get_current_role asks for nothing and answers ReadOnly without a session.
RoleHandlers(cmd) == IF cmd = "cmd_set_current_role" THEN "AssignRoles" ELSE Public

LlmHandlers(cmd) ==
  IF cmd = "cmd_invoke_llm" THEN "InvokeLlm"
  ELSE IF cmd \in {"cmd_configure_llm_provider", "cmd_list_llm_provider_configs"}
    THEN "ConfigureLlmProvider" ELSE Public

\* Mutant: a handler that reads asks for the permission to write.
ScaffoldHandlersOwn(cmd) ==
  IF cmd = "cmd_list_ticket_scaffolds" THEN "ViewJiraTickets"
  ELSE IF cmd \in {"cmd_create_ticket_scaffold", "cmd_get_ticket_scaffold",
                   "cmd_set_dor_item_status", "cmd_set_acceptance_criteria",
                   "cmd_set_effort_estimate"}
    THEN "RequestTicketReview" ELSE Public

ScaffoldHandlers(cmd) ==
  IF cmd \in {"cmd_get_ticket_scaffold", "cmd_list_ticket_scaffolds"} THEN "ViewJiraTickets"
  ELSE IF cmd \in {"cmd_create_ticket_scaffold", "cmd_set_dor_item_status",
                   "cmd_set_acceptance_criteria", "cmd_set_effort_estimate"}
    THEN "RequestTicketReview" ELSE Public

AuditHandlers(cmd) == IF cmd = "cmd_verify_audit_integrity" THEN "ViewAuditLog" ELSE Public

RequiredPermissions(cmd) ==
  {CredentialHandlers(cmd), IndexHandlers(cmd), RoleHandlers(cmd), LlmHandlers(cmd),
   ScaffoldHandlers(cmd), AuditHandlers(cmd)} \ {Public}

\* ROLE_CAPABILITIES of the interface, with the names of the backend.
ReadOnlyCapabilities ==
  {"ViewCredentialList", "ViewNotificationRules", "ViewRepositoryIndex", "ViewJiraTickets",
   "ViewAuditLog", "ViewSystemConfig"}
OperatorCapabilities == ReadOnlyCapabilities \cup
  {"AddCredential", "DeleteCredential", "CheckCredentialHealth", "ManageNotificationRules",
   "TriggerRepositoryIndex", "RequestTicketReview", "ConfigureLlmProvider", "InvokeLlm",
   "ExportAuditLog", "ChangeSystemConfig"}
RoleCapabilities ==
  [ReadOnly |-> ReadOnlyCapabilities, Operator |-> OperatorCapabilities,
   Admin |-> OperatorCapabilities \cup {"AssignRoles"}]

(***************************************************************************)
(* The argument each command validates.  A key travels with an estimate or *)
(* criteria; the base URL of a credential or a config may be left out.     *)
(***************************************************************************)
ArgKind(cmd) ==
  CASE cmd \in {"cmd_validate_base_url", "cmd_add_credential", "cmd_configure_llm_provider"} -> "url"
    [] cmd \in {"cmd_create_ticket_scaffold", "cmd_get_ticket_scaffold", "cmd_set_dor_item_status"}
         -> "key"
    [] cmd = "cmd_validate_cron" -> "cron"
    [] cmd = "cmd_validate_jql" -> "jql"
    [] cmd = "cmd_set_effort_estimate" -> "estimate"
    [] cmd = "cmd_set_acceptance_criteria" -> "criteria"
    [] cmd = "cmd_invoke_llm" -> "prompt"
    [] OTHER -> "none"

Validate(kind, arg) ==
  CASE kind = "url" -> ValidateBaseUrl(arg)
    [] kind = "key" -> NormalizeTicketKey(arg)
    [] kind = "cron" -> ValidateCron(arg)
    [] kind = "jql" -> ValidateJql(arg)
    [] kind = "estimate" -> ValidateEstimate(arg)
    [] kind = "criteria" -> ValidateCriteria(arg)
    [] kind = "prompt" -> ValidatePrompt(arg)
    [] OTHER -> Verdict(TRUE, arg)

Permitted(r, cmd) == \A p \in RequiredPermissions(cmd) : r # NoRole /\ RoleHasPermission(r, p)

\* The permission is asked for before anything is looked at.
Answer(r, cmd, arg) ==
  LET verdict == Validate(ArgKind(cmd), arg)
  IN IF ~Permitted(r, cmd) THEN [status |-> "denied", kept |-> NoArg]
     ELSE IF verdict.ok THEN [status |-> "ok", kept |-> verdict.kept]
     ELSE [status |-> "invalid", kept |-> NoArg]
-----------------------------------------------------------------------------
NoReply == [cmd |-> "none", by |-> NoRole, arg |-> NoArg, again |-> FALSE, status |-> "none",
            kept |-> NoArg]

Init == role = NoRole /\ reply = NoReply

Dispatch(cmd, arg, again) ==
  /\ LET a == Answer(role, cmd, arg)
     IN reply' = [cmd |-> cmd, by |-> role, arg |-> arg, again |-> again,
                  status |-> a.status, kept |-> a.kept]
  /\ UNCHANGED role

Arguments(kind) == IF kind = "none" THEN {NoArg} ELSE Inputs[kind]

Call(cmd) ==
  /\ reply = NoReply
  /\ \E arg \in Arguments(ArgKind(cmd)) : Dispatch(cmd, arg, FALSE)

\* The caller is done with the answer; the next command may be any.
Forget == reply' = NoReply /\ UNCHANGED role

\* What a command kept is passed to the next: the hub validates a URL, then saves
\* what that answered; the panel names a ticket by the key its scaffold came with.
CallAgain(cmd) ==
  /\ reply.status = "ok"
  /\ ArgKind(cmd) = ArgKind(reply.cmd) /\ ArgKind(cmd) # "none"
  /\ Dispatch(cmd, reply.kept, TRUE)

\* The session is unlocked, locked or lapses, or its role is changed (module Session).
ChangeRole(r) == role' = r /\ UNCHANGED reply

Next ==
  \/ \E cmd \in RegisteredCommands : Call(cmd) \/ CallAgain(cmd)
  \/ Forget
  \/ \E r \in Roles \cup {NoRole} : ChangeRole(r)

Spec == Init /\ [][Next]_vars
-----------------------------------------------------------------------------
\* Whether the interface's capabilities hold what the policy asks for a command.
Offered(r, cmd) == Protected(cmd) => Exposure[cmd] \in RoleCapabilities[r]

\* Policy table, handlers, roles and capabilities.ts are one policy.  With a session,
\* a registered command is denied exactly when the interface does not offer it to
\* the role of the session.  Without one, nothing is answered that is not offered to
\* the least role, and nothing is denied that is not protected.
DenialsMatchOffers ==
  reply.cmd \in RegisteredCommands =>
    LET denied == reply.status = "denied"
    IN IF reply.by # NoRole THEN denied <=> ~Offered(reply.by, reply.cmd)
       ELSE /\ ~Offered("ReadOnly", reply.cmd) => denied
            /\ denied => Protected(reply.cmd)

BlankInside(kind, arg) == kind = "url" /\ "blank" \in {arg.tail[n] : n \in DOMAIN arg.tail}

\* What one command accepted and kept is accepted by every command that validates
\* the same kind of argument, and kept as it is.  Except for a URL with a blank among
\* its last slashes: the slash after it is cut and the blank is left at the end.
NormalFormsHold ==
  reply.again /\ ~BlankInside(ArgKind(reply.cmd), reply.arg) =>
    /\ reply.status # "invalid"
    /\ reply.status = "ok" => reply.kept = reply.arg

\* The values a part of a cron field spans, and those its step leaves, by what the
\* syntax means.
Span(part, i) ==
  LET from == ResolveToken(part.from, i)
      to == IF part.kind = "value" THEN from ELSE ResolveToken(part.to, i)
  IN IF part.kind = "star" THEN FieldMin[i] .. FieldMax[i]
     ELSE IF part.kind = "blank" \/ Junk \in {from, to} THEN {} ELSE from .. to

Stepped(span, step) ==
  IF step = NoStep THEN span
  ELSE IF step \in {Junk, 0} THEN {}
  ELSE {v \in span : \E n \in 0..60 : v - n * step \in span /\ v - n * step - 1 \notin span}

\* A schedule is accepted exactly when it has five fields and each part of a field
\* spans only values of the field and its step leaves some of them.
SchedulesAreMeant ==
  reply.cmd = "cmd_validate_cron" =>
    LET text == reply.arg
    IN reply.status = "ok" <=>
         /\ text.fields = 5
         /\ \A n \in DOMAIN text.parts :
              LET span == Span(text.parts[n], text.at)
              IN /\ \A v \in span : InField(v, text.at)
                 /\ Stepped(span, text.parts[n].step) # {}
=============================================================================
