---------------------------- MODULE MCProviderHub ---------------------------
(* Instances of ProviderHub for TLC. *)
EXTENDS ProviderHub

CONSTANTS openai, ollama, c1

(***************************************************************************)
(* A hub that was used before: a credential of openai was saved and linked *)
(* and a repository's may be beside it; every call is answered.  Spec      *)
(* reaches this state from Init with saves alone; starting from it spends  *)
(* the bounded flows on what comes after.                                  *)
(***************************************************************************)
InitUsed ==
  /\ \E repos \in SUBSET (Creds \ {c1}) :
       owner = [id \in Creds |-> IF id = c1 THEN openai ELSE IF id \in repos THEN Repo ELSE NoProvider]
  /\ stored = {id \in Creds : owner[id] # NoProvider}
  /\ secrets = stored
  /\ config = [p \in {openai} |-> [on |-> TRUE, cred |-> c1]]
  /\ view = Listed([id \in stored |-> "unchecked"])
  /\ shown = Listed(config)
  /\ form = [p |-> openai, cred |-> NoCred]
  /\ console = "empty"
  /\ tray = "ok"
  /\ queue = <<>>
  /\ started = 0 /\ faults = 0
  /\ unseen = {}
  /\ calm = FALSE

MCSpec == (Init \/ InitUsed) /\ [][Next]_vars /\ WF_vars(Answer)
=============================================================================
