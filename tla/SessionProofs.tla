--------------------------- MODULE SessionProofs ----------------------------
(***************************************************************************)
(* Proofs about Session for every set of threads, every set of requested   *)
(* lifetimes and every bound.                                              *)
(***************************************************************************)
EXTENDS Session, TLAPS

\* The table that decides a check and the table that words its refusal agree
\* for every role and permission (domain/permission.rs).
THEOREM TablesAgreement == TablesAgree
<1> SUFFICES ASSUME NEW r \in Roles, NEW p \in Permissions
             PROVE  RoleHasPermission(r, p) <=> Rank(r) >= Rank(MinimumRole(p))
  BY DEF TablesAgree
<1>1. CASE p \in ViewPermissions
  <2>1. MinimumRole(p) = "ReadOnly"
    BY <1>1 DEF MinimumRole, ViewPermissions, OperatePermissions
  <2> QED BY <1>1, <2>1 DEF Roles, Rank, RoleHasPermission, PermissionsForRole
<1>2. CASE p \in OperatePermissions
  <2>1. MinimumRole(p) = "Operator" /\ p \notin ViewPermissions
    BY <1>2 DEF MinimumRole, ViewPermissions, OperatePermissions
  <2> QED BY <1>2, <2>1 DEF Roles, Rank, RoleHasPermission, PermissionsForRole
<1>3. CASE p = "AssignRoles"
  <2>1. MinimumRole(p) = "Admin"
    BY <1>3 DEF MinimumRole, ViewPermissions, OperatePermissions
  <2>2. p \notin ViewPermissions /\ p \notin OperatePermissions
    BY <1>3 DEF ViewPermissions, OperatePermissions
  <2> QED BY <1>3, <2>1, <2>2 DEF Roles, Rank, RoleHasPermission, PermissionsForRole
<1> QED BY <1>1, <1>2, <1>3 DEF Permissions

\* The clamp keeps every requested lifetime within the policy.
LEMMA ClampInPolicy ==
  ASSUME NEW ttl \in TTLs
  PROVE  Clamp(ttl) \in MinTTL..MaxTTL /\ Clamp(ttl) >= 1 /\ Clamp(ttl) \in Nat
BY TTLAssumption DEF Clamp

\* What a change of role that passed its check leaves of the session: all but
\* the role, and all of a locked one.
LEMMA SetRoleKeepsLifetime ==
  ASSUME NEW t \in Threads, TypeOK, SetRole(t)
  PROVE  /\ session'.unlocked = session.unlocked
         /\ session'.issued = session.issued
         /\ session'.expires = session.expires
         /\ ~session.unlocked => session' = session
BY DEF SetRole, TypeOK

\* What a call under way carries: a change of role has a role to write, and only
\* a change of role gets to the steps that read and write the session.
PendingRolesOK == \A t \in Threads : call[t].cmd = "set_role" => call[t].role \in Roles
StepsOK == \A t \in Threads : call[t].at \in {"previous", "set"} => call[t].cmd = "set_role"

\* The inductive invariant: types, what a call under way carries, and the three
\* safety invariants.
SessionInv ==
  /\ TypeOK
  /\ PendingRolesOK
  /\ StepsOK
  /\ LockedSessionIsEmpty
  /\ LifetimeWithinPolicy
  /\ AnswersAreAudited

LEMMA InitEstablishes == Init => SessionInv
BY BoundsAssumption
   DEF Init, SessionInv, TypeOK, PendingRolesOK, StepsOK, LockedSessionIsEmpty,
       LifetimeWithinPolicy, AnswersAreAudited, LockedState, NoCall, NoAnswer, Calls,
       Answers, Cmds, Steps, Actions, NoRole

\* Types are preserved by every step.
LEMMA TypePreserved ==
  ASSUME TypeOK, PendingRolesOK, StepsOK, [Next]_vars
  PROVE  TypeOK'
<1> USE DEF TypeOK
<1>1. CASE Tick
  BY <1>1, BoundsAssumption DEF Tick
<1>2. ASSUME NEW r \in Roles, NEW ttl \in TTLs, UnlockSession(r, ttl) PROVE TypeOK'
  <2>1. UnlockedState(r, ttl) \in
          [unlocked: BOOLEAN, role: Roles \cup {NoRole}, issued: Nat, expires: Nat]
    BY ClampInPolicy DEF UnlockedState
  <2> QED BY <1>2, <2>1, BoundsAssumption DEF UnlockSession
<1>3. CASE LockSession
  BY <1>3 DEF LockSession, LockedState
<1>4. ASSUME NEW t \in Threads, NEW p \in Requested, BeginProtected(t, p) PROVE TypeOK'
  BY <1>4 DEF BeginProtected, Require, Calls, Cmds, Steps, NoAnswer, Answers
<1>5. ASSUME NEW t \in Threads, NEW r \in Roles, BeginSetRole(t, r) PROVE TypeOK'
  BY <1>5 DEF BeginSetRole, Require, Calls, Cmds, Steps, NoAnswer, Answers
<1>6. ASSUME NEW t \in Threads, Step(t) PROVE TypeOK'
  <2>0. /\ NoCall \in Calls
        /\ call[t] \in Calls
    BY DEF NoCall, Calls, Cmds, Steps
  <2>a. ASSUME NEW res \in {"ok", "denied", "auditError"}, NEW audited \in SUBSET Actions,
               Return(t, res, audited)
        PROVE  call' \in [Threads -> Calls] /\ answer' \in [Threads -> Answers]
    <3>1. [cmd |-> call[t].cmd, res |-> res, audited |-> audited] \in Answers
      BY <2>0 DEF Answers, Calls
    <3> QED BY <2>0, <2>a, <3>1 DEF Return
  <2>b. ASSUME NEW res \in {"ok", "denied"}, NEW a \in Actions, Audit(t, a, res)
        PROVE  /\ call' \in [Threads -> Calls]
               /\ answer' \in [Threads -> Answers]
               /\ faults' \in 0..MaxFaults
    <3>1. CASE Return(t, res, {a}) /\ UNCHANGED faults
      BY <2>a, <3>1
    <3>2. CASE faults < MaxFaults /\ faults' = faults + 1 /\ Return(t, "auditError", {})
      BY <2>a, <3>2, BoundsAssumption
    <3> QED BY <2>b, <3>1, <3>2 DEF Audit
  <2>1. CASE Deny(t)
    BY <2>b, <2>1 DEF Deny, Actions
  <2>2. CASE Effect(t)
    BY <2>0, <2>2 DEF Effect, Calls, Steps
  <2>3. CASE ReadPrevious(t)
    <3>1. CurrentRole \in Roles \cup {NoRole}
      BY DEF CurrentRole, EffectiveRole, Roles
    <3> QED BY <2>0, <2>3, <3>1 DEF ReadPrevious, Calls, Steps
  <2>4. CASE SetRole(t)
    BY <2>0, <2>4 DEF SetRole, Calls, Steps
  <2>5. CASE AuditDone(t)
    BY <2>b, <2>5 DEF AuditDone, Actions
  <2> QED BY <1>6, <2>1, <2>2, <2>3, <2>4, <2>5 DEF Step
<1>7. CASE UNCHANGED vars
  BY <1>7 DEF vars
<1> QED BY <1>1, <1>2, <1>3, <1>4, <1>5, <1>6, <1>7 DEF Next

\* What a call under way carries is preserved by every step.
LEMMA CallsPreserved ==
  ASSUME TypeOK, PendingRolesOK, StepsOK, [Next]_vars
  PROVE  PendingRolesOK' /\ StepsOK'
<1> USE DEF TypeOK, PendingRolesOK, StepsOK
<1>0. ASSUME UNCHANGED call PROVE PendingRolesOK' /\ StepsOK'
  BY <1>0
<1>1. CASE Tick
  BY <1>0, <1>1 DEF Tick
<1>2. ASSUME NEW r \in Roles, NEW ttl \in TTLs, UnlockSession(r, ttl)
      PROVE  PendingRolesOK' /\ StepsOK'
  BY <1>0, <1>2 DEF UnlockSession
<1>3. CASE LockSession
  BY <1>0, <1>3 DEF LockSession
<1>4. ASSUME NEW t \in Threads, NEW p \in Requested, BeginProtected(t, p)
      PROVE  PendingRolesOK' /\ StepsOK'
  BY <1>4 DEF BeginProtected, Require
<1>5. ASSUME NEW t \in Threads, NEW r \in Roles, BeginSetRole(t, r)
      PROVE  PendingRolesOK' /\ StepsOK'
  BY <1>5 DEF BeginSetRole, Require
<1>6. ASSUME NEW t \in Threads, Step(t) PROVE PendingRolesOK' /\ StepsOK'
  <2>a. ASSUME NEW res, NEW audited, Return(t, res, audited)
        PROVE  PendingRolesOK' /\ StepsOK'
    BY <2>a DEF Return, NoCall
  <2>1. CASE Deny(t)
    BY <2>a, <2>1 DEF Deny, Audit
  <2>2. CASE Effect(t)
    BY <2>2 DEF Effect, Calls
  <2>3. CASE ReadPrevious(t)
    BY <2>3 DEF ReadPrevious, Calls
  <2>4. CASE SetRole(t)
    BY <2>4 DEF SetRole, Calls
  <2>5. CASE AuditDone(t)
    BY <2>a, <2>5 DEF AuditDone, Audit
  <2> QED BY <1>6, <2>1, <2>2, <2>3, <2>4, <2>5 DEF Step
<1>7. CASE UNCHANGED vars
  BY <1>0, <1>7 DEF vars
<1> QED BY <1>1, <1>2, <1>3, <1>4, <1>5, <1>6, <1>7 DEF Next

\* The session stays empty while locked and within the policy while unlocked.
LEMMA SessionPreserved ==
  ASSUME TypeOK, PendingRolesOK, StepsOK, LockedSessionIsEmpty, LifetimeWithinPolicy,
         [Next]_vars
  PROVE  LockedSessionIsEmpty' /\ LifetimeWithinPolicy'
<1> USE DEF LockedSessionIsEmpty, LifetimeWithinPolicy, TypeOK
<1>0. ASSUME UNCHANGED <<session, now>> PROVE LockedSessionIsEmpty' /\ LifetimeWithinPolicy'
  BY <1>0 DEF LockedState
<1>1. CASE Tick
  BY <1>1, BoundsAssumption DEF Tick, LockedState
<1>2. ASSUME NEW r \in Roles, NEW ttl \in TTLs, UnlockSession(r, ttl)
      PROVE  LockedSessionIsEmpty' /\ LifetimeWithinPolicy'
  BY <1>2, ClampInPolicy, TTLAssumption DEF UnlockSession, UnlockedState
<1>3. CASE LockSession
  BY <1>3 DEF LockSession, LockedState
<1>4. ASSUME NEW t \in Threads, NEW p \in Requested, BeginProtected(t, p)
      PROVE  LockedSessionIsEmpty' /\ LifetimeWithinPolicy'
  BY <1>0, <1>4 DEF BeginProtected, Require
<1>5. ASSUME NEW t \in Threads, NEW r \in Roles, BeginSetRole(t, r)
      PROVE  LockedSessionIsEmpty' /\ LifetimeWithinPolicy'
  BY <1>0, <1>5 DEF BeginSetRole, Require
<1>6. ASSUME NEW t \in Threads, Step(t) PROVE LockedSessionIsEmpty' /\ LifetimeWithinPolicy'
  <2>1. CASE Deny(t)
    BY <1>0, <2>1 DEF Deny
  <2>2. CASE Effect(t)
    BY <1>0, <2>2 DEF Effect
  <2>3. CASE ReadPrevious(t)
    BY <1>0, <2>3 DEF ReadPrevious
  <2>4. CASE SetRole(t)
    <3>1. call[t].role \in Roles
      BY <2>4 DEF SetRole, StepsOK, PendingRolesOK
    <3>2. now' = now /\ (session.unlocked => session'.role = call[t].role)
      BY <2>4 DEF SetRole
    <3> QED BY <2>4, <3>1, <3>2, SetRoleKeepsLifetime DEF LockedState
  <2>5. CASE AuditDone(t)
    BY <1>0, <2>5 DEF AuditDone
  <2> QED BY <1>6, <2>1, <2>2, <2>3, <2>4, <2>5 DEF Step
<1>7. CASE UNCHANGED vars
  BY <1>0, <1>7 DEF vars
<1> QED BY <1>1, <1>2, <1>3, <1>4, <1>5, <1>6, <1>7 DEF Next

\* A command that ends answers only what is in the audit log.
LEMMA AnswersPreserved ==
  ASSUME TypeOK, AnswersAreAudited, [Next]_vars
  PROVE  AnswersAreAudited'
<1> USE DEF TypeOK, AnswersAreAudited
<1>0. ASSUME UNCHANGED answer PROVE AnswersAreAudited'
  BY <1>0
<1>1. CASE Tick
  BY <1>0, <1>1 DEF Tick
<1>2. ASSUME NEW r \in Roles, NEW ttl \in TTLs, UnlockSession(r, ttl) PROVE AnswersAreAudited'
  BY <1>0, <1>2 DEF UnlockSession
<1>3. CASE LockSession
  BY <1>0, <1>3 DEF LockSession
<1>4. ASSUME NEW t \in Threads, NEW p \in Requested, BeginProtected(t, p)
      PROVE  AnswersAreAudited'
  BY <1>4 DEF BeginProtected, Require, NoAnswer
<1>5. ASSUME NEW t \in Threads, NEW r \in Roles, BeginSetRole(t, r) PROVE AnswersAreAudited'
  BY <1>5 DEF BeginSetRole, Require, NoAnswer
<1>6. ASSUME NEW t \in Threads, Step(t) PROVE AnswersAreAudited'
  <2>a. ASSUME NEW res, NEW audited, Return(t, res, audited),
               res = "denied" => "PermissionDenied" \in audited,
               res = "ok" /\ call[t].cmd = "set_role" => "RoleAssigned" \in audited
        PROVE  AnswersAreAudited'
    BY <2>a DEF Return
  <2>1. CASE Deny(t)
    BY <2>a, <2>1 DEF Deny, Audit
  <2>2. CASE Effect(t)
    BY <1>0, <2>2 DEF Effect
  <2>3. CASE ReadPrevious(t)
    BY <1>0, <2>3 DEF ReadPrevious
  <2>4. CASE SetRole(t)
    BY <1>0, <2>4 DEF SetRole
  <2>5. CASE AuditDone(t)
    BY <2>a, <2>5 DEF AuditDone, Audit
  <2> QED BY <1>6, <2>1, <2>2, <2>3, <2>4, <2>5 DEF Step
<1>7. CASE UNCHANGED vars
  BY <1>0, <1>7 DEF vars
<1> QED BY <1>1, <1>2, <1>3, <1>4, <1>5, <1>6, <1>7 DEF Next

\* The inductive invariant holds in every reachable state.
LEMMA SessionInvariant == Spec => []SessionInv
<1>1. Init => SessionInv
  BY InitEstablishes
<1>2. SessionInv /\ [Next]_vars => SessionInv'
  BY TypePreserved, CallsPreserved, SessionPreserved, AnswersPreserved DEF SessionInv
<1> QED BY <1>1, <1>2, PTL DEF Spec

\* Every variable keeps its type, whatever the threads, lifetimes and bounds.
THEOREM SessionTypes == Spec => []TypeOK
<1>1. SessionInv => TypeOK
  BY DEF SessionInv
<1> QED BY <1>1, SessionInvariant, PTL

\* No change of role that raced a lock leaves anything in the locked session.
THEOREM LockedSessionStaysEmpty == Spec => []LockedSessionIsEmpty
<1>1. SessionInv => LockedSessionIsEmpty
  BY DEF SessionInv
<1> QED BY <1>1, SessionInvariant, PTL

\* Every unlocked session lives between the two ends of the clamp.
THEOREM LifetimeStaysWithinPolicy == Spec => []LifetimeWithinPolicy
<1>1. SessionInv => LifetimeWithinPolicy
  BY DEF SessionInv
<1> QED BY <1>1, SessionInvariant, PTL

\* Every refusal and every role change that was answered is in the audit log.
THEOREM AnswersStayAudited == Spec => []AnswersAreAudited
<1>1. SessionInv => AnswersAreAudited
  BY DEF SessionInv
<1> QED BY <1>1, SessionInvariant, PTL

\* Whatever role is in force, the two tables agree on what it may do.
THEOREM RefusalsStayTrue == Spec => []RefusalsNameTheRole
<1>1. SessionInv => RefusalsNameTheRole
  <2> SUFFICES ASSUME SessionInv, EffectiveRole # NoRole, NEW p \in Permissions
               PROVE  RoleHasPermission(EffectiveRole, p)
                        <=> Rank(EffectiveRole) >= Rank(MinimumRole(p))
    BY DEF RefusalsNameTheRole
  <2>1. EffectiveRole \in Roles
    BY DEF SessionInv, TypeOK, EffectiveRole
  <2> QED BY <2>1, TablesAgreement DEF TablesAgree
<1> QED BY <1>1, SessionInvariant, PTL

\* A session that grants no role grants none again before the next unlock: the
\* clock only moves on, and a late change of role leaves the lifetime alone.
THEOREM LapseIsFinal == Spec => LapsedUntilUnlock
<1>1. SessionInv /\ [Next]_vars
        => [EffectiveRole = NoRole /\ epoch' = epoch => EffectiveRole' = NoRole]_vars
  <2> SUFFICES ASSUME SessionInv, Next, EffectiveRole = NoRole, epoch' = epoch
               PROVE  EffectiveRole' = NoRole
    BY DEF vars
  <2> USE DEF SessionInv, TypeOK
  <2>1. ~session.unlocked \/ now >= session.expires
    BY DEF EffectiveRole, IsExpired, LifetimeWithinPolicy, Roles, NoRole
  <2>0. ASSUME ~session'.unlocked \/ now' >= session'.expires PROVE EffectiveRole' = NoRole
    BY <2>0 DEF EffectiveRole, IsExpired
  <2>2. CASE Tick
    BY <2>0, <2>1, <2>2 DEF Tick
  <2>3. ASSUME NEW r \in Roles, NEW ttl \in TTLs, UnlockSession(r, ttl) PROVE FALSE
    BY <2>3 DEF UnlockSession
  <2>4. CASE LockSession
    BY <2>0, <2>4 DEF LockSession, LockedState
  <2>5. ASSUME NEW t \in Threads, NEW p \in Requested, BeginProtected(t, p)
        PROVE  EffectiveRole' = NoRole
    BY <2>0, <2>1, <2>5 DEF BeginProtected, Require
  <2>6. ASSUME NEW t \in Threads, NEW r \in Roles, BeginSetRole(t, r)
        PROVE  EffectiveRole' = NoRole
    BY <2>0, <2>1, <2>6 DEF BeginSetRole, Require
  <2>7. ASSUME NEW t \in Threads, Step(t) PROVE EffectiveRole' = NoRole
    <3>1. CASE SetRole(t)
      <4>1. now' = now
        BY <3>1 DEF SetRole
      <4> QED BY <2>0, <2>1, <3>1, <4>1, SetRoleKeepsLifetime
    <3>2. CASE Deny(t) \/ Effect(t) \/ ReadPrevious(t) \/ AuditDone(t)
      BY <2>0, <2>1, <3>2 DEF Deny, Effect, ReadPrevious, AuditDone
    <3> QED BY <2>7, <3>1, <3>2 DEF Step
  <2> QED BY <2>2, <2>3, <2>4, <2>5, <2>6, <2>7 DEF Next
<1> QED BY <1>1, SessionInvariant, PTL DEF Spec, LapsedUntilUnlock
=============================================================================
