--------------------------- MODULE CredentialStore --------------------------
(***************************************************************************)
(* The credential commands (commands/credential.rs) over                   *)
(* storage/credential_store.rs: metadata in a map of the process, secrets  *)
(* in the OS keychain, one audit entry per completed operation.  A call is *)
(* a sequence of steps, because the map's mutex is released around every   *)
(* keychain call; the keychain survives the process, the map does not.     *)
(***************************************************************************)
EXTENDS Naturals, FiniteSets

CONSTANTS
  Threads,       \* command threads
  MaxCreds,      \* bound: credentials ever prepared
  MaxFaults,     \* bound: keychain and audit calls that fail
  MaxRestarts,   \* bound: crashes or quits
  MaxRemovals    \* bound: secrets removed outside the application

ASSUME BoundsAssumption ==
  MaxCreds \in Nat /\ MaxFaults \in Nat /\ MaxRestarts \in Nat /\ MaxRemovals \in Nat

VARIABLES
  meta,       \* ids in the credentials map
  keychain,   \* accounts that hold a secret
  job,        \* job[t]: the call a thread is in
  outcome,    \* outcome[t]: the call it returned from last, until its next call
  nextId,     \* next fresh id (uuid)
  trail,      \* audit entries <<action, id>> on disk
  lost,       \* ids whose metadata a restart dropped
  removed,    \* ids whose secret something else removed
  faults, restarts

vars == <<meta, keychain, job, outcome, nextId, trail, lost, removed, faults, restarts>>
data == <<meta, keychain, trail>>
env == <<lost, removed, restarts>>

Ids == 1..MaxCreds
NoId == 0
Ops == {"add", "delete", "health"}
Idle == [op |-> "none", id |-> NoId, at |-> "idle"]
Jobs == {Idle} \cup
        [op: Ops, id: Ids, at: {"store", "insert", "check", "keychain", "remove", "audit"}]
Results == {"none", "ok", "denied", "notFound", "keychainError", "auditError"}
Outcomes == [op: Ops \cup {"none"}, id: Ids \cup {NoId}, res: Results, fault: BOOLEAN,
             known: BOOLEAN]
NoOutcome == [op |-> "none", id |-> NoId, res |-> "none", fault |-> FALSE, known |-> FALSE]
-----------------------------------------------------------------------------
Init ==
  /\ meta = {}
  /\ keychain = {}
  /\ job = [t \in Threads |-> Idle]
  /\ outcome = [t \in Threads |-> NoOutcome]
  /\ nextId = 1
  /\ trail = {}
  /\ lost = {}
  /\ removed = {}
  /\ faults = 0
  /\ restarts = 0

Goto(t, at) == job' = [job EXCEPT ![t].at = at]

\* Mutant: the call that returned is not cleared.
FinishOpen(t, res, fault) ==
  /\ job' = [job EXCEPT ![t].at = "idle"]
  /\ outcome' = [outcome EXCEPT ![t] =
       [op |-> job[t].op, id |-> job[t].id, res |-> res, fault |-> fault,
        known |-> job[t].id \in meta]]

\* The handler returns; known and fault are history: whether the id is in the
\* map at that moment (no such step changes the map), and whether the keychain
\* or the audit log failed.
Finish(t, res, fault) ==
  /\ job' = [job EXCEPT ![t] = Idle]
  /\ outcome' = [outcome EXCEPT ![t] =
       [op |-> job[t].op, id |-> job[t].id, res |-> res, fault |-> fault,
        known |-> job[t].id \in meta]]

Fault == faults < MaxFaults /\ faults' = faults + 1

\* require_permission lets the call through and its arguments validate.
BeginAdd(t) ==
  /\ job[t] = Idle
  /\ nextId <= MaxCreds
  /\ job' = [job EXCEPT ![t] = [op |-> "add", id |-> nextId, at |-> "store"]]
  /\ outcome' = [outcome EXCEPT ![t] = NoOutcome]
  /\ nextId' = nextId + 1
  /\ UNCHANGED <<data, env, faults>>

\* Delete and health name any id a user interface may hold, also a stale one.
Begin(t, op, id) ==
  /\ job[t] = Idle
  /\ id < nextId
  /\ job' = [job EXCEPT ![t] = [op |-> op, id |-> id, at |-> "check"]]
  /\ outcome' = [outcome EXCEPT ![t] = NoOutcome]
  /\ UNCHANGED <<data, nextId, env, faults>>

\* require_permission or validation refuses the call before it touches anything.
Refuse(t) ==
  /\ job[t] = Idle
  /\ outcome' = [outcome EXCEPT ![t] = [NoOutcome EXCEPT !.res = "denied"]]
  /\ UNCHANGED <<data, job, nextId, env, faults>>

\* Mutant: the map is filled before the keychain has accepted the secret.
StoreSecretLate(t) ==
  /\ job[t].at = "store"
  /\ meta' = meta \cup {job[t].id}
  /\ \/ /\ keychain' = keychain \cup {job[t].id}
        /\ Goto(t, "insert")
        /\ UNCHANGED <<outcome, faults>>
     \/ /\ Fault
        /\ Finish(t, "keychainError", TRUE)
        /\ UNCHANGED keychain
  /\ UNCHANGED <<nextId, trail, env>>

StoreSecret(t) ==
  /\ job[t].at = "store"
  /\ \/ /\ keychain' = keychain \cup {job[t].id}
        /\ Goto(t, "insert")
        /\ UNCHANGED <<outcome, faults, meta>>
     \/ /\ UNCHANGED <<keychain, meta>>
        /\ Fault
        /\ Finish(t, "keychainError", TRUE)
  /\ UNCHANGED <<nextId, trail, env>>

InsertMeta(t) ==
  /\ job[t].at = "insert"
  /\ meta' = meta \cup {job[t].id}
  /\ Goto(t, "audit")
  /\ UNCHANGED <<keychain, trail, outcome, nextId, env, faults>>

CheckKnown(t) ==
  /\ job[t].at = "check"
  /\ IF job[t].id \in meta
       THEN Goto(t, "keychain") /\ UNCHANGED outcome
       ELSE Finish(t, "notFound", FALSE)
  /\ UNCHANGED <<data, nextId, env, faults>>

\* Mutant: a keychain error does not stop the removal of the metadata.
DeleteSecretAnyway(t) ==
  /\ job[t].op = "delete" /\ job[t].at = "keychain"
  /\ \/ keychain' = keychain \ {job[t].id} /\ UNCHANGED faults
     \/ Fault /\ UNCHANGED keychain
  /\ Goto(t, "remove")
  /\ UNCHANGED <<meta, trail, outcome, nextId, env>>

\* Mutant: an account that has no entry counts as deleted.
DeleteSecretIdempotent(t) ==
  /\ job[t].op = "delete" /\ job[t].at = "keychain"
  /\ UNCHANGED meta
  /\ \/ /\ keychain' = keychain \ {job[t].id}
        /\ Goto(t, "remove")
        /\ UNCHANGED <<outcome, faults>>
     \/ /\ Fault
        /\ Finish(t, "keychainError", TRUE)
        /\ UNCHANGED keychain
  /\ UNCHANGED <<trail, nextId, env>>

\* delete_credential of the keychain fails on an account that has no entry.
DeleteSecret(t) ==
  /\ job[t].op = "delete" /\ job[t].at = "keychain"
  /\ UNCHANGED meta
  /\ \/ /\ job[t].id \in keychain
        /\ keychain' = keychain \ {job[t].id}
        /\ Goto(t, "remove")
        /\ UNCHANGED <<outcome, faults>>
     \/ /\ job[t].id \notin keychain
        /\ Finish(t, "keychainError", FALSE)
        /\ UNCHANGED <<keychain, faults>>
     \/ /\ Fault
        /\ Finish(t, "keychainError", TRUE)
        /\ UNCHANGED keychain
  /\ UNCHANGED <<trail, nextId, env>>

\* Mutant: the metadata is left in the map.
RemoveMetaForgotten(t) ==
  /\ job[t].at = "remove"
  /\ Goto(t, "audit")
  /\ UNCHANGED <<meta, keychain, trail, outcome, nextId, env, faults>>

RemoveMeta(t) ==
  /\ job[t].at = "remove"
  /\ meta' = meta \ {job[t].id}
  /\ Goto(t, "audit")
  /\ UNCHANGED <<keychain, trail, outcome, nextId, env, faults>>

\* health_check changes nothing: absent, corrupted and unreachable secrets all
\* read as unhealthy, and the answer is audited either way.
RetrieveSecret(t) ==
  /\ job[t].op = "health" /\ job[t].at = "keychain"
  /\ Goto(t, "audit")
  /\ UNCHANGED <<data, outcome, nextId, env, faults>>

\* Mutant: the audit failure is ignored.
AppendAuditIgnoring(t) ==
  /\ job[t].at = "audit"
  /\ UNCHANGED <<meta, keychain>>
  /\ \/ trail' = trail \cup {<<job[t].op, job[t].id>>} /\ UNCHANGED faults
     \/ Fault /\ UNCHANGED trail
  /\ Finish(t, "ok", FALSE)
  /\ UNCHANGED <<nextId, env>>

AppendAudit(t) ==
  /\ job[t].at = "audit"
  /\ UNCHANGED <<meta, keychain>>
  /\ \/ /\ trail' = trail \cup {<<job[t].op, job[t].id>>}
        /\ Finish(t, "ok", FALSE)
        /\ UNCHANGED faults
     \/ /\ Fault
        /\ Finish(t, "auditError", TRUE)
        /\ UNCHANGED trail
  /\ UNCHANGED <<nextId, env>>

\* Crash or quit: the map and every call under way are gone.
Restart ==
  /\ restarts < MaxRestarts
  /\ restarts' = restarts + 1
  /\ lost' = lost \cup (1..(nextId - 1))
  /\ meta' = {}
  /\ job' = [t \in Threads |-> Idle]
  /\ UNCHANGED <<keychain, outcome, nextId, trail, removed, faults>>

\* The user or the OS removes an entry from the keychain.
RemoveSecret(id) ==
  /\ Cardinality(removed) < MaxRemovals
  /\ id \in keychain
  /\ keychain' = keychain \ {id}
  /\ removed' = removed \cup {id}
  /\ UNCHANGED <<meta, job, outcome, nextId, trail, lost, faults, restarts>>

Step(t) ==
  StoreSecret(t) \/ InsertMeta(t) \/ CheckKnown(t) \/ DeleteSecret(t) \/ RemoveMeta(t)
    \/ RetrieveSecret(t) \/ AppendAudit(t)

Next ==
  \/ \E t \in Threads : BeginAdd(t) \/ Refuse(t) \/ Step(t)
  \/ \E t \in Threads, op \in {"delete", "health"}, id \in Ids : Begin(t, op, id)
  \/ Restart
  \/ \E id \in Ids : RemoveSecret(id)

Spec == Init /\ [][Next]_vars
-----------------------------------------------------------------------------
\* Every variable keeps its type.
TypeOK ==
  /\ meta \subseteq Ids
  /\ keychain \subseteq Ids
  /\ job \in [Threads -> Jobs]
  /\ outcome \in [Threads -> Outcomes]
  /\ nextId \in 1..(MaxCreds + 1)
  /\ trail \subseteq Ops \X Ids
  /\ lost \subseteq Ids
  /\ removed \subseteq Ids
  /\ faults \in 0..MaxFaults
  /\ restarts \in 0..MaxRestarts

Working(op, at, id) == \E t \in Threads : job[t].op = op /\ job[t].at = at /\ job[t].id = id

\* add stores before it registers, delete erases before it forgets: registered
\* metadata has its secret, unless a delete is between its two steps or
\* something else removed the secret.
MetadataHasSecret ==
  \A id \in meta : id \in keychain \/ id \in removed \/ Working("delete", "remove", id)

\* A secret in the keychain can be reached from its metadata, unless an add is
\* between its two steps or a restart dropped the map: a failed delete leaves
\* no orphaned entry behind.
NoOrphanedSecret ==
  \A id \in keychain : id \in meta \/ id \in lost \/ Working("add", "insert", id)

\* An add or delete reported as done is in the audit trail; one that changed the
\* store and could not be audited is reported as failed.
DoneIsAudited ==
  \A t \in Threads : outcome[t].res = "ok" => <<outcome[t].op, outcome[t].id>> \in trail

\* Two deletes of one credential never both report success: the keychain
\* decides, although both may have passed the check of the map.
OneDeleteWins ==
  \A t, u \in Threads :
    (t # u /\ outcome[t].op = "delete" /\ outcome[u].op = "delete" /\ outcome[t].id = outcome[u].id)
       => ~(outcome[t].res = "ok" /\ outcome[u].res = "ok")

\* A deleted credential does not come back.
DeletedStaysDeleted ==
  [][\A id \in Ids : <<"delete", id>> \in trail => id \notin meta' /\ id \notin keychain']_vars

\* Doc comment of delete: an error means that the id is not found; its inner
\* comment adds a keychain failure, after which the operator can retry.
DeleteFailsOnlyIfNotFound ==
  \A t \in Threads :
    (outcome[t].op = "delete" /\ outcome[t].res = "keychainError" /\ ~outcome[t].fault)
       => ~outcome[t].known
=============================================================================
