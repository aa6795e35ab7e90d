------------------------------- MODULE Session ------------------------------
(***************************************************************************)
(* The runtime session (session/mod.rs), its commands                      *)
(* (commands/session.rs), the permission check of every protected command  *)
(* (commands/authz.rs) and the change of role (commands/permission.rs).    *)
(* The mutex of the session is held only inside each read or write of it,  *)
(* so a command is a sequence of steps between which other command threads *)
(* and the clock move.                                                     *)
(***************************************************************************)
EXTENDS Naturals, Integers, Permissions

CONSTANTS
  Threads,        \* command threads
  Requested,      \* permissions the modelled protected commands ask for
  TTLs,           \* ttl_minutes arguments, of any sign
  MinTTL, MaxTTL, \* the clamp of cmd_unlock_session
  MaxTime,        \* bound: the clock
  MaxUnlocks,     \* bound: unlocks
  MaxFaults       \* bound: audit appends that fail

NoRole == "none"

ASSUME RequestedAssumption == Requested \subseteq Permissions
ASSUME TTLAssumption == TTLs \subseteq Int /\ MinTTL \in Nat \ {0} /\ MaxTTL \in Nat /\ MinTTL <= MaxTTL
ASSUME BoundsAssumption == MaxTime \in Nat /\ MaxUnlocks \in Nat /\ MaxFaults \in Nat

VARIABLES
  session,   \* SessionState
  now,       \* the wall clock, in minutes
  epoch,     \* number of unlocks so far: names the present session
  call,      \* call[t]: the command thread t is in
  answer,    \* answer[t]: what its last command returned
  faults

vars == <<session, now, epoch, call, answer, faults>>

Cmds == {"none", "protected", "set_role"}
Steps == {"idle", "deny", "effect", "previous", "set", "audit"}
Calls == [cmd: Cmds, at: Steps, role: Roles \cup {NoRole}, prev: Roles \cup {NoRole}]
NoCall == [cmd |-> "none", at |-> "idle", role |-> NoRole, prev |-> NoRole]
Actions == {"PermissionDenied", "RoleAssigned", "Done"}
Answers == [cmd: Cmds, res: {"none", "ok", "denied", "auditError"}, audited: SUBSET Actions]
NoAnswer == [cmd |-> "none", res |-> "none", audited |-> {}]
-----------------------------------------------------------------------------
(* SessionState *)

LockedState == [unlocked |-> FALSE, role |-> NoRole, issued |-> 0, expires |-> 0]

\* Mutant: the requested lifetime is taken as it is.
ClampNot(ttl) == ttl

Clamp(ttl) == IF ttl < MinTTL THEN MinTTL ELSE IF ttl > MaxTTL THEN MaxTTL ELSE ttl

\* Mutant: the requested lifetime reaches the session unclamped, negative ones too.
UnlockedStateRaw(r, ttl) == [unlocked |-> TRUE, role |-> r, issued |-> now, expires |-> now + ttl]

UnlockedState(r, ttl) ==
  [unlocked |-> TRUE, role |-> r, issued |-> now,
   expires |-> now + (IF Clamp(ttl) < 1 THEN 1 ELSE Clamp(ttl))]

IsExpired(s) == ~s.unlocked \/ now >= s.expires

\* effective_role: None for a locked or expired session.
EffectiveRole == IF session.unlocked /\ ~IsExpired(session) THEN session.role ELSE NoRole

\* cmd_get_current_role, which makes no permission check.
CurrentRole == IF EffectiveRole = NoRole THEN "ReadOnly" ELSE EffectiveRole
-----------------------------------------------------------------------------
Init ==
  /\ session = LockedState
  /\ now = 0
  /\ epoch = 0
  /\ call = [t \in Threads |-> NoCall]
  /\ answer = [t \in Threads |-> NoAnswer]
  /\ faults = 0

Tick ==
  /\ now < MaxTime
  /\ now' = now + 1
  /\ UNCHANGED <<session, epoch, call, answer, faults>>

\* A blank principal is refused and changes nothing; any other one replaces
\* whatever session there is.
UnlockSession(r, ttl) ==
  /\ epoch < MaxUnlocks
  /\ session' = UnlockedState(r, ttl)
  /\ epoch' = epoch + 1
  /\ UNCHANGED <<now, call, answer, faults>>

LockSession ==
  /\ session' = LockedState
  /\ UNCHANGED <<now, epoch, call, answer, faults>>

\* require_permission reads the role once, under the mutex, and decides.
Require(t, cmd, p, r, first) ==
  /\ call[t] = NoCall
  /\ call' = [call EXCEPT ![t] =
       [cmd |-> cmd, role |-> r, prev |-> NoRole,
        at |-> IF EffectiveRole # NoRole /\ RoleHasPermission(EffectiveRole, p)
                 THEN first ELSE "deny"]]
  /\ answer' = [answer EXCEPT ![t] = NoAnswer]
  /\ UNCHANGED <<session, now, epoch, faults>>

BeginProtected(t, p) == Require(t, "protected", p, NoRole, "effect")
BeginSetRole(t, r) == Require(t, "set_role", "AssignRoles", r, "previous")

Return(t, res, audited) ==
  /\ call' = [call EXCEPT ![t] = NoCall]
  /\ answer' = [answer EXCEPT ![t] = [cmd |-> call[t].cmd, res |-> res, audited |-> audited]]

\* Mutant: a failed append is ignored.
AuditIgnoring(t, action, res) ==
  \/ Return(t, res, {action}) /\ UNCHANGED faults
  \/ /\ faults < MaxFaults
     /\ faults' = faults + 1
     /\ Return(t, res, {})

\* append_user_audit: a failed append replaces the command's own result.
Audit(t, action, res) ==
  \/ Return(t, res, {action}) /\ UNCHANGED faults
  \/ /\ faults < MaxFaults
     /\ faults' = faults + 1
     /\ Return(t, "auditError", {})

Deny(t) ==
  /\ call[t].at = "deny"
  /\ Audit(t, "PermissionDenied", "denied")
  /\ UNCHANGED <<session, now, epoch>>

\* The body of the protected command; its own state is modelled elsewhere.
Effect(t) ==
  /\ call[t].at = "effect"
  /\ call' = [call EXCEPT ![t].at = "audit"]
  /\ UNCHANGED <<session, now, epoch, answer, faults>>

ReadPrevious(t) ==
  /\ call[t].at = "previous"
  /\ call' = [call EXCEPT ![t].at = "set", ![t].prev = CurrentRole]
  /\ UNCHANGED <<session, now, epoch, answer, faults>>

\* Mutant: the new role is written to a locked session too.
SetRoleUnguarded(t) ==
  /\ call[t].at = "set"
  /\ session' = [session EXCEPT !.role = call[t].role]
  /\ call' = [call EXCEPT ![t].at = "audit"]
  /\ UNCHANGED <<now, epoch, answer, faults>>

\* Mutant: changing the role starts the lifetime anew.
SetRoleRenewing(t) ==
  /\ call[t].at = "set"
  /\ session' = IF session.unlocked THEN UnlockedState(call[t].role, MaxTTL) ELSE session
  /\ call' = [call EXCEPT ![t].at = "audit"]
  /\ UNCHANGED <<now, epoch, answer, faults>>

\* set_role: no effect on a locked session, but on an expired one it has.
SetRole(t) ==
  /\ call[t].at = "set"
  /\ session' = IF session.unlocked THEN [session EXCEPT !.role = call[t].role] ELSE session
  /\ call' = [call EXCEPT ![t].at = "audit"]
  /\ UNCHANGED <<now, epoch, answer, faults>>

AuditDone(t) ==
  /\ call[t].at = "audit"
  /\ Audit(t, IF call[t].cmd = "set_role" THEN "RoleAssigned" ELSE "Done", "ok")
  /\ UNCHANGED <<session, now, epoch>>

Step(t) == Deny(t) \/ Effect(t) \/ ReadPrevious(t) \/ SetRole(t) \/ AuditDone(t)

Next ==
  \/ Tick
  \/ \E r \in Roles, ttl \in TTLs : UnlockSession(r, ttl)
  \/ LockSession
  \/ \E t \in Threads, p \in Requested : BeginProtected(t, p)
  \/ \E t \in Threads, r \in Roles : BeginSetRole(t, r)
  \/ \E t \in Threads : Step(t)

Spec == Init /\ [][Next]_vars
-----------------------------------------------------------------------------
\* Every variable keeps its type.
TypeOK ==
  /\ session \in [unlocked: BOOLEAN, role: Roles \cup {NoRole}, issued: Nat, expires: Nat]
  /\ now \in 0..MaxTime
  /\ epoch \in 0..MaxUnlocks
  /\ call \in [Threads -> Calls]
  /\ answer \in [Threads -> Answers]
  /\ faults \in 0..MaxFaults

\* A change of role that was checked before a lock and lands after it leaves the
\* locked session without role or lifetime (set_role).
LockedSessionIsEmpty == ~session.unlocked => session = LockedState

\* Whatever ttl is asked for and however often the role changes, a session lives
\* between one minute and the maximum from its unlock (cmd_unlock_session).
LifetimeWithinPolicy ==
  session.unlocked =>
    /\ session.issued <= now
    /\ session.role \in Roles
    /\ session.expires - session.issued \in MinTTL..MaxTTL

\* A session whose role has lapsed grants none again before the next unlock,
\* also when a change of role that was under way lands on it.
LapsedUntilUnlock ==
  [][EffectiveRole = NoRole /\ epoch' = epoch => EffectiveRole' = NoRole]_vars

\* The role in force is refused exactly what ranks above it: the role that a
\* refusal names would have been enough, and no other permission needed it
\* (permissions_for_role against minimum_role_for_permission).
RefusalsNameTheRole ==
  EffectiveRole # NoRole =>
    \A p \in Permissions :
      RoleHasPermission(EffectiveRole, p) <=> Rank(EffectiveRole) >= Rank(MinimumRole(p))

\* A refusal is returned only once it is in the audit log, and a role change is
\* reported as done only once it is (require_permission, cmd_set_current_role).
AnswersAreAudited ==
  \A t \in Threads :
    /\ answer[t].res = "denied" => "PermissionDenied" \in answer[t].audited
    /\ answer[t].res = "ok" /\ answer[t].cmd = "set_role" => "RoleAssigned" \in answer[t].audited
=============================================================================
