---------------------------- MODULE CommandsProofs --------------------------
(***************************************************************************)
(* Proofs about Commands for every set of argument texts: the three tables *)
(* are one policy, what is accepted stays accepted and unchanged, and      *)
(* schedules are accepted for what they mean.                              *)
(***************************************************************************)
EXTENDS Commands, TLAPS, WellFoundedInduction

LEMMA MinExists ==
  ASSUME NEW S, S \subseteq Nat, S # {}
  PROVE  \E x \in S : \A y \in S : x <= y
<1>1. PICK x \in S : \A y \in S : ~ (<<y, x>> \in OpToRel(<, Nat))
  BY NatLessThanWellFounded, WFMin, Zenon
<1>2. \A y \in S : ~ (y < x)
  BY <1>1 DEF OpToRel
<1> QED BY <1>2

\* Policy table and handlers, command by command.
LEMMA HandlersFollowTable ==
  ASSUME NEW cmd \in ExportedCommands \ {"cmd_get_current_role"}
  PROVE  RequiredPermissions(cmd) = {Exposure[cmd]} \ {Public}
<1> DEFINE C == CredentialHandlers(cmd)
           I == IndexHandlers(cmd)
           R == RoleHandlers(cmd)
           L == LlmHandlers(cmd)
           S == ScaffoldHandlers(cmd)
           A == AuditHandlers(cmd)
<1>1. {Exposure[cmd], Public} = {C, I, R, L, S, A} \cup {Public}
  BY DEF ExportedCommands, Exposure, Public, CredentialHandlers, IndexHandlers, RoleHandlers,
         LlmHandlers, ScaffoldHandlers, AuditHandlers
<1>2. {C, I, R, L, S, A} \ {Public} = {Exposure[cmd]} \ {Public}
  BY <1>1
<1> QED BY <1>2 DEF RequiredPermissions

\* The capabilities of the interface and the permissions of the backend.
LEMMA CapabilitiesFollowRoles ==
  ASSUME NEW r \in Roles, NEW cmd \in ExportedCommands, Exposure[cmd] # Public
  PROVE  Exposure[cmd] \in RoleCapabilities[r] <=> RoleHasPermission(r, Exposure[cmd])
<1>1. Exposure[cmd] \in Permissions
  BY DEF ExportedCommands, Exposure, Public, Permissions, ViewPermissions, OperatePermissions
<1>2. RoleCapabilities[r] = PermissionsForRole(r)
  <2>1. ReadOnlyCapabilities = ViewPermissions
    BY DEF ReadOnlyCapabilities, ViewPermissions
  <2>2. OperatorCapabilities = ViewPermissions \cup OperatePermissions
    BY <2>1 DEF OperatorCapabilities, OperatePermissions
  <2> QED BY <2>1, <2>2 DEF Roles, RoleCapabilities, PermissionsForRole
<1> QED BY <1>2 DEF RoleHasPermission

-----------------------------------------------------------------------------
(* What is kept of a text *)

LEMMA KindsHaveTexts ==
  /\ DOMAIN Texts = {"cron", "url", "key", "jql", "estimate", "criteria", "prompt"}
  /\ Texts["cron"] = CronTexts /\ Texts["url"] = UrlTexts /\ Texts["key"] = KeyTexts
  /\ Texts["jql"] = JqlTexts /\ Texts["estimate"] = EstimateTexts
  /\ Texts["criteria"] = CriteriaTexts /\ Texts["prompt"] = PromptTexts
  /\ \A cmd : ArgKind(cmd) \in DOMAIN Texts \cup {"none"}
BY DEF Texts, ArgKind

\* What is left of the end of a URL is its longest part that does not end in c.
LEMMA CutEnds ==
  ASSUME NEW A, NEW s \in Seq(A), NEW c
  PROVE  /\ CutAtEnd(s, c) \in Seq(A)
         /\ Len(CutAtEnd(s, c)) <= Len(s)
         /\ \A i \in 1..Len(CutAtEnd(s, c)) : CutAtEnd(s, c)[i] = s[i]
         /\ Len(CutAtEnd(s, c)) > 0 => s[Len(CutAtEnd(s, c))] # c
         /\ \A m \in (Len(CutAtEnd(s, c)) + 1)..Len(s) : s[m] = c
<1> DEFINE Left(n) == /\ n > 0 => s[n] # c
                      /\ \A m \in n + 1 .. Len(s) : s[m] = c
           S == {n \in 0..Len(s) : \A m \in n + 1 .. Len(s) : s[m] = c}
           kept == CHOOSE n \in 0..Len(s) : Left(n)
<1>1. \E n \in 0..Len(s) : Left(n)
  <2>1. Len(s) \in S /\ S \subseteq Nat
    OBVIOUS
  <2>2. PICK n \in S : \A y \in S : n <= y
    BY <2>1, MinExists
  <2>3. ASSUME n > 0, s[n] = c PROVE FALSE
    <3>1. n - 1 \in 0..Len(s) /\ (n - 1) + 1 = n
      BY <2>3
    <3>2. \A m \in n .. Len(s) : m = n \/ m \in n + 1 .. Len(s)
      OBVIOUS
    <3>3. n - 1 \in S
      BY <2>3, <3>1, <3>2
    <3> QED BY <2>2, <3>1, <3>3
  <2> QED BY <2>2, <2>3
<1>2. kept \in 0..Len(s) /\ Left(kept)
  <2> HIDE DEF Left
  <2> QED BY <1>1
<1>3. CutAtEnd(s, c) = SubSeq(s, 1, kept)
  BY DEF CutAtEnd
<1> HIDE DEF kept
<1>4. /\ SubSeq(s, 1, kept) \in Seq(A) /\ Len(SubSeq(s, 1, kept)) = kept
      /\ \A i \in 1..kept : SubSeq(s, 1, kept)[i] = s[i]
  BY <1>2
<1> QED BY <1>2, <1>3, <1>4

\* A URL without a blank among its last slashes is kept without any end.
LEMMA UrlsAreNormal ==
  ASSUME NEW t \in UrlTexts, ValidateBaseUrl(t).ok,
         NEW k, k = ValidateBaseUrl(t).kept, ~BlankInside("url", k)
  PROVE  ValidateBaseUrl(k).ok /\ ValidateBaseUrl(k).kept = k
<1> DEFINE T == CutAtEnd(t.tail, "blank")
           K == CutAtEnd(T, "slash")
           u == Trim(t)
<1>1. /\ t.tail \in Seq({"slash", "blank"}) /\ T \in Seq({"slash", "blank"})
      /\ K \in Seq({"slash", "blank"})
  BY CutEnds DEF UrlTexts
<1>2. /\ u \in UrlTexts /\ u.tail = T /\ ~u.padded
      /\ u.scheme = t.scheme /\ u.host = t.host /\ u.at = t.at /\ u.dots = t.dots /\ u.long = t.long
  <2> HIDE DEF T
  <2>1. u = [t EXCEPT !.tail = T, !.padded = FALSE]
    BY DEF T, Trim
  <2> QED BY <1>1, <2>1 DEF UrlTexts
<1>3. k = [u EXCEPT !.tail = K]
  BY <1>2 DEF ValidateBaseUrl, Verdict
<1> HIDE DEF T, K, u
<1>4. /\ k \in UrlTexts /\ k.tail = K /\ ~k.padded
      /\ k.scheme = u.scheme /\ k.host = u.host /\ k.at = u.at /\ k.dots = u.dots /\ k.long = u.long
  BY <1>1, <1>2, <1>3 DEF UrlTexts
<1>5. \A n \in 1..Len(K) : K[n] = "slash"
  <2>1. \A n \in DOMAIN K : K[n] # "blank"
    BY <1>4 DEF BlankInside
  <2>2. \A n \in 1..Len(K) : n \in DOMAIN K /\ K[n] \in {"slash", "blank"}
    BY <1>1
  <2> QED BY <2>1, <2>2
<1>6. /\ Len(K) <= Len(T) /\ \A i \in 1..Len(K) : K[i] = T[i]
      /\ Len(K) > 0 => T[Len(K)] # "slash"
      /\ \A m \in (Len(K) + 1)..Len(T) : T[m] = "slash"
  BY <1>1, CutEnds DEF K
<1>7. K = <<>> /\ Len(K) = 0
  <2>1. ASSUME Len(K) > 0 PROVE FALSE
    <3>1. Len(K) \in 1..Len(K)
      BY <1>1, <2>1
    <3> QED BY <1>5, <1>6, <2>1, <3>1
  <2> QED BY <1>1, <2>1
<1>8. Host(u) = u.host
  <2>1. ASSUME T # <<>> PROVE Head(T) = "slash"
    <3>1. 1 \in (Len(K) + 1)..Len(T) /\ Head(T) = T[1]
      BY <1>1, <1>7, <2>1
    <3> QED BY <1>6, <3>1
  <2> QED BY <1>2, <2>1 DEF Host
<1>9. CutAtEnd(<<>>, "blank") = <<>> /\ CutAtEnd(<<>>, "slash") = <<>>
  <2> SUFFICES ASSUME NEW c PROVE CutAtEnd(<<>>, c) = <<>>
    OBVIOUS
  <2> DEFINE r == CutAtEnd(<<>>, c)
  <2>1. <<>> \in Seq({"slash", "blank"}) /\ Len(<<>>) = 0
    OBVIOUS
  <2>2. r \in Seq({"slash", "blank"}) /\ Len(r) <= Len(<<>>)
    BY <2>1, CutEnds
  <2> HIDE DEF r
  <2>3. Len(r) = 0
    BY <2>1, <2>2
  <2>4. r = <<>>
    BY <2>2, <2>3
  <2> QED BY <2>4 DEF r
<1>10. Trim(k) = k
  <2>1. Trim(k) = [k EXCEPT !.tail = <<>>, !.padded = FALSE]
    BY <1>4, <1>7, <1>9 DEF Trim
  <2>2. k.tail = <<>> /\ k.padded = FALSE
    BY <1>4, <1>7
  <2>3. [k EXCEPT !.tail = <<>>, !.padded = FALSE] = k
    BY <1>4, <2>2 DEF UrlTexts
  <2> QED BY <2>1, <2>3
<1>11. Host(k) = k.host
  BY <1>4, <1>7 DEF Host
<1>12. [k EXCEPT !.tail = CutAtEnd(k.tail, "slash")] = k
  BY <1>4, <1>7, <1>9 DEF UrlTexts
<1>13. /\ ~u.long /\ u.scheme \in {"https", "http"} /\ HostIsValid(u)
       /\ (u.scheme = "http" => Host(u) \in LocalHosts) /\ ~u.at /\ ~u.dots
  BY DEF ValidateBaseUrl, Verdict, u
<1>14. HostIsValid(k)
  BY <1>4, <1>8, <1>11, <1>13 DEF HostIsValid
<1>15. /\ ~k.long /\ k.scheme \in {"https", "http"} /\ ~k.at /\ ~k.dots
       /\ k.scheme = "http" => Host(k) \in LocalHosts
  BY <1>4, <1>8, <1>11, <1>13
<1>16. ValidateBaseUrl(k).kept = k
  BY <1>10, <1>12 DEF ValidateBaseUrl, Verdict
<1>17. ValidateBaseUrl(k).ok
  BY <1>10, <1>14, <1>15 DEF ValidateBaseUrl, Verdict
<1> QED BY <1>16, <1>17

\* Accepted texts are kept as texts of their kind.
LEMMA KeptIsText ==
  ASSUME NEW kind \in DOMAIN Texts, NEW t \in Texts[kind]
  PROVE  Validate(kind, t).kept \in Texts[kind]
<1>1. CASE kind = "url"
  <2>1. t.tail \in Seq({"slash", "blank"}) /\ t \in UrlTexts
    BY <1>1, KindsHaveTexts DEF UrlTexts
  <2> DEFINE T == CutAtEnd(t.tail, "blank")
             K == CutAtEnd(T, "slash")
  <2>2. T \in Seq({"slash", "blank"}) /\ K \in Seq({"slash", "blank"})
    BY <2>1, CutEnds
  <2>3. Trim(t) = [t EXCEPT !.tail = T, !.padded = FALSE]
    BY DEF Trim
  <2> HIDE DEF T
  <2>4. Trim(t) \in UrlTexts /\ Trim(t).tail = T
    BY <2>1, <2>2, <2>3 DEF UrlTexts
  <2>5. ValidateBaseUrl(t).kept = [Trim(t) EXCEPT !.tail = K]
    BY <2>4 DEF ValidateBaseUrl, Verdict
  <2> HIDE DEF K
  <2>6. ValidateBaseUrl(t).kept \in UrlTexts
    BY <2>2, <2>4, <2>5 DEF UrlTexts
  <2> QED BY <1>1, <2>6, KindsHaveTexts DEF Validate
<1>2. CASE kind = "key"
  <2>1. t \in KeyTexts /\ Validate(kind, t).kept = [t EXCEPT !.capitals = TRUE, !.padded = FALSE]
    BY <1>2, KindsHaveTexts DEF Validate, NormalizeTicketKey, Verdict
  <2>2. [t EXCEPT !.capitals = TRUE, !.padded = FALSE] \in KeyTexts
    BY <2>1 DEF KeyTexts
  <2> QED BY <1>2, <2>1, <2>2, KindsHaveTexts
<1>3. CASE kind = "jql"
  <2>1. t \in JqlTexts /\ Validate(kind, t).kept = [t EXCEPT !.padded = FALSE]
    BY <1>3, KindsHaveTexts DEF Validate, ValidateJql, Verdict
  <2>2. [t EXCEPT !.padded = FALSE] \in JqlTexts
    BY <2>1 DEF JqlTexts
  <2> QED BY <1>3, <2>1, <2>2, KindsHaveTexts
<1>4. CASE kind = "criteria"
  BY <1>4, KindsHaveTexts DEF Validate, ValidateCriteria, Verdict, CriteriaTexts
<1>5. CASE kind \in {"cron", "estimate", "prompt"}
  BY <1>5 DEF Validate, ValidateCron, ValidateEstimate, ValidatePrompt, Verdict
<1> QED BY <1>1, <1>2, <1>3, <1>4, <1>5, KindsHaveTexts

\* What a validator kept of a text it accepted, it accepts and keeps as it is.
LEMMA KeptIsNormal ==
  ASSUME NEW kind \in DOMAIN Texts, NEW t \in Texts[kind], Validate(kind, t).ok,
         NEW k, k = Validate(kind, t).kept, ~BlankInside(kind, k)
  PROVE  Validate(kind, k).ok /\ Validate(kind, k).kept = k
<1>1. CASE kind = "url"
  BY <1>1, KindsHaveTexts, UrlsAreNormal DEF Validate
<1>2. CASE kind = "key"
  <2>1. t \in KeyTexts /\ ~t.long /\ t.shape = "key"
        /\ k = [t EXCEPT !.capitals = TRUE, !.padded = FALSE]
    BY <1>2, KindsHaveTexts DEF Validate, NormalizeTicketKey, Verdict
  <2>2. k \in KeyTexts /\ ~k.long /\ k.shape = "key" /\ k.capitals = TRUE /\ k.padded = FALSE
    BY <2>1 DEF KeyTexts
  <2>3. [k EXCEPT !.capitals = TRUE, !.padded = FALSE] = k
    BY <2>2 DEF KeyTexts
  <2> QED BY <1>2, <2>2, <2>3 DEF Validate, NormalizeTicketKey, Verdict
<1>3. CASE kind = "jql"
  <2>1. t \in JqlTexts /\ k = [t EXCEPT !.padded = FALSE] /\ ValidateJql(t).ok
    BY <1>3, KindsHaveTexts DEF Validate, ValidateJql, Verdict
  <2>2. /\ k \in JqlTexts /\ k.long = t.long /\ k.forbidden = t.forbidden /\ k.words = t.words
        /\ k.opened = t.opened /\ k.closed = t.closed /\ k.padded = FALSE
    BY <2>1 DEF JqlTexts
  <2>3. [k EXCEPT !.padded = FALSE] = k
    BY <2>2 DEF JqlTexts
  <2>4. ValidateJql(k).ok
    BY <2>1, <2>2 DEF ValidateJql, Verdict
  <2> QED BY <1>3, <2>3, <2>4 DEF Validate, ValidateJql, Verdict
<1>4. CASE kind = "criteria"
  <2>1. t \in CriteriaTexts /\ k = [t EXCEPT !.blank = 0]
        /\ t.filled + t.blank <= CriteriaMax /\ ~t.long
    BY <1>4, KindsHaveTexts DEF Validate, ValidateCriteria, Verdict
  <2>2. k \in CriteriaTexts /\ k.filled = t.filled /\ k.blank = 0 /\ k.long = t.long
    BY <2>1 DEF CriteriaTexts
  <2>3. [k EXCEPT !.blank = 0] = k
    BY <2>2 DEF CriteriaTexts
  <2>4. k.filled + k.blank <= CriteriaMax /\ ~k.long
    BY <2>1, <2>2 DEF CriteriaTexts, CriteriaMax
  <2> QED BY <1>4, <2>3, <2>4 DEF Validate, ValidateCriteria, Verdict
<1>5. CASE kind \in {"cron", "estimate", "prompt"}
  BY <1>5 DEF Validate, ValidateCron, ValidateEstimate, ValidatePrompt, Verdict
<1> QED BY <1>1, <1>2, <1>3, <1>4, <1>5, KindsHaveTexts
-----------------------------------------------------------------------------
(* The invariant of the last answer *)

\* An accepted text of this kind of which arg was kept.
IsKept(kind, arg) ==
  \E t \in Texts[kind] : Validate(kind, t).ok /\ arg = Validate(kind, t).kept

\* The last command was answered by what its handler asks for and validates, with an
\* argument that is one of the texts of its kind or what was kept of one.
ReplyIsAnswer ==
  reply.cmd \in RegisteredCommands =>
    /\ reply.by \in Roles \cup {NoRole}
    /\ reply.status = Answer(reply.by, reply.cmd, reply.arg).status
    /\ reply.kept = Answer(reply.by, reply.cmd, reply.arg).kept
    /\ ArgKind(reply.cmd) # "none" => reply.arg \in Texts[ArgKind(reply.cmd)]
    /\ reply.again => ArgKind(reply.cmd) # "none" /\ IsKept(ArgKind(reply.cmd), reply.arg)

\* A text is passed again only when a command has answered.
AgainIsAnswer == reply.again => reply.cmd \in RegisteredCommands

ReplyInv == role \in Roles \cup {NoRole} /\ ReplyIsAnswer /\ AgainIsAnswer

LEMMA DispatchAnswers ==
  ASSUME ReplyInv, NEW cmd \in RegisteredCommands, NEW arg, NEW again \in BOOLEAN,
         ArgKind(cmd) # "none" => arg \in Texts[ArgKind(cmd)],
         again => ArgKind(cmd) # "none" /\ IsKept(ArgKind(cmd), arg),
         Dispatch(cmd, arg, again)
  PROVE  ReplyInv'
<1> DEFINE a == Answer(role, cmd, arg)
<1>1. reply' = [cmd |-> cmd, by |-> role, arg |-> arg, again |-> again,
                status |-> a.status, kept |-> a.kept]
  BY DEF Dispatch
<1>2. role' = role
  BY DEF Dispatch
<1>3. /\ reply'.cmd = cmd /\ reply'.by = role /\ reply'.arg = arg /\ reply'.again = again
      /\ reply'.status = a.status /\ reply'.kept = a.kept
  <2> HIDE DEF a
  <2> QED BY <1>1
<1>4. /\ reply'.status = Answer(reply'.by, reply'.cmd, reply'.arg).status
      /\ reply'.kept = Answer(reply'.by, reply'.cmd, reply'.arg).kept
  BY <1>3
<1> HIDE DEF a
<1> QED BY <1>2, <1>3, <1>4 DEF ReplyInv, ReplyIsAnswer, AgainIsAnswer

LEMMA ReplyInvariant == Spec => []ReplyInv
<1>1. NoReply.cmd \notin RegisteredCommands /\ NoReply.again = FALSE
  BY DEF RegisteredCommands, NoReply, ExportedCommands, Exposure
<1>2. Init => ReplyInv
  BY <1>1 DEF Init, ReplyInv, ReplyIsAnswer, AgainIsAnswer
<1>3. ReplyInv /\ [Next]_vars => ReplyInv'
  <2> SUFFICES ASSUME ReplyInv, [Next]_vars PROVE ReplyInv' OBVIOUS
  <2>1. ASSUME NEW cmd \in RegisteredCommands, Call(cmd) PROVE ReplyInv'
    <3>1. PICK arg \in Arguments(ArgKind(cmd)) : Dispatch(cmd, arg, FALSE)
      BY <2>1 DEF Call
    <3>2. ASSUME ArgKind(cmd) # "none" PROVE arg \in Texts[ArgKind(cmd)]
      <4>1. ArgKind(cmd) \in DOMAIN Texts
        BY <3>2, KindsHaveTexts
      <4> QED BY <3>1, <3>2, <4>1, InputsAssumption DEF Arguments
    <3> QED BY <3>1, <3>2, DispatchAnswers
  <2>2. ASSUME NEW cmd \in RegisteredCommands, CallAgain(cmd) PROVE ReplyInv'
    <3> DEFINE kind == ArgKind(cmd)
    <3>1. /\ reply.status = "ok" /\ kind = ArgKind(reply.cmd) /\ kind # "none"
          /\ Dispatch(cmd, reply.kept, TRUE) /\ kind \in DOMAIN Texts
      BY <2>2, KindsHaveTexts DEF CallAgain
    <3>2. reply.cmd \in RegisteredCommands
      BY <3>1 DEF ArgKind, RegisteredCommands, ExportedCommands, Exposure
    <3>3. /\ reply.arg \in Texts[kind]
          /\ Answer(reply.by, reply.cmd, reply.arg).status = "ok"
          /\ reply.kept = Answer(reply.by, reply.cmd, reply.arg).kept
      BY <3>1, <3>2 DEF ReplyInv, ReplyIsAnswer
    <3>4. Validate(kind, reply.arg).ok /\ reply.kept = Validate(kind, reply.arg).kept
      BY <3>1, <3>3 DEF Answer
    <3>5. reply.kept \in Texts[kind] /\ IsKept(kind, reply.kept)
      BY <3>1, <3>3, <3>4, KeptIsText DEF IsKept
    <3> QED BY <3>1, <3>5, DispatchAnswers
  <2>3. CASE Forget
    BY <1>1, <2>3 DEF Forget, ReplyInv, ReplyIsAnswer, AgainIsAnswer
  <2>4. ASSUME NEW r \in Roles \cup {NoRole}, ChangeRole(r) PROVE ReplyInv'
    BY <2>4 DEF ChangeRole, ReplyInv, ReplyIsAnswer, AgainIsAnswer
  <2>5. CASE UNCHANGED vars
    BY <2>5 DEF vars, ReplyInv, ReplyIsAnswer, AgainIsAnswer
  <2> QED BY <2>1, <2>2, <2>3, <2>4, <2>5 DEF Next
<1> QED BY <1>2, <1>3, PTL DEF Spec

\* What one command accepted and kept, every command that validates that kind of
\* argument accepts, and keeps as it is; for every text, but for a URL with a blank
\* among its last slashes.
THEOREM KeptTextsAreNormal == Spec => []NormalFormsHold
<1>1. ReplyInv => NormalFormsHold
  <2> DEFINE kind == ArgKind(reply.cmd)
  <2> SUFFICES ASSUME ReplyInv, reply.again, ~BlankInside(kind, reply.arg)
               PROVE  /\ reply.status # "invalid"
                      /\ reply.status = "ok" => reply.kept = reply.arg
    BY DEF NormalFormsHold
  <2>1. reply.cmd \in RegisteredCommands /\ kind # "none" /\ kind \in DOMAIN Texts
    BY KindsHaveTexts DEF ReplyInv, ReplyIsAnswer, AgainIsAnswer
  <2>2. PICK t \in Texts[kind] : Validate(kind, t).ok /\ reply.arg = Validate(kind, t).kept
    BY <2>1 DEF ReplyInv, ReplyIsAnswer, IsKept
  <2>3. Validate(kind, reply.arg).ok /\ Validate(kind, reply.arg).kept = reply.arg
    BY <2>1, <2>2, KeptIsNormal
  <2>4. /\ reply.status = Answer(reply.by, reply.cmd, reply.arg).status
        /\ reply.kept = Answer(reply.by, reply.cmd, reply.arg).kept
    BY <2>1 DEF ReplyInv, ReplyIsAnswer
  <2> QED BY <2>3, <2>4 DEF Answer
<1> QED BY <1>1, ReplyInvariant, PTL

\* The two registered commands that ask for no permission the table names: one is
\* protected by a permission every role has, one is not in the table.
LEMMA UnaskedCommands ==
  /\ RequiredPermissions("cmd_get_current_role") = {}
  /\ RequiredPermissions("cmd_set_tray_status") = {}
  /\ \A r \in Roles : Offered(r, "cmd_get_current_role")
  /\ ~Protected("cmd_set_tray_status")
<1>1. \A cmd \in {"cmd_get_current_role", "cmd_set_tray_status"} : RequiredPermissions(cmd) = {}
  BY DEF RequiredPermissions, Public, CredentialHandlers, IndexHandlers, RoleHandlers,
         LlmHandlers, ScaffoldHandlers, AuditHandlers
<1>2. ASSUME NEW r \in Roles PROVE Offered(r, "cmd_get_current_role")
  <2>1. Exposure["cmd_get_current_role"] = "ViewSystemConfig"
    BY DEF Exposure
  <2>2. "ViewSystemConfig" \in RoleCapabilities[r]
    BY DEF Roles, RoleCapabilities, OperatorCapabilities, ReadOnlyCapabilities
  <2> QED BY <2>1, <2>2 DEF Offered
<1>3. ~Protected("cmd_set_tray_status")
  BY DEF Protected, ExportedCommands, Exposure
<1> QED BY <1>1, <1>2, <1>3

\* For every registered command, role and argument: with a session, a command is
\* denied exactly when the interface does not offer it to the role; without one,
\* whatever is answered is offered to the least role, and whatever is denied is
\* protected by the table.  Permissions are asked for before arguments are validated.
THEOREM DenialsAreTheOffers == Spec => []DenialsMatchOffers
<1>1. ReplyInv => DenialsMatchOffers
  <2> DEFINE c == reply.cmd
             by == reply.by
             denied == reply.status = "denied"
  <2> SUFFICES ASSUME ReplyIsAnswer, c \in RegisteredCommands
               PROVE  /\ by # NoRole => (denied <=> ~Offered(by, c))
                      /\ by = NoRole => /\ ~Offered("ReadOnly", c) => denied
                                        /\ denied => Protected(c)
    BY DEF ReplyInv, DenialsMatchOffers
  <2>1. by \in Roles \cup {NoRole}
    BY DEF ReplyIsAnswer
  <2>2. denied <=> ~Permitted(by, c)
    BY DEF ReplyIsAnswer, Answer
  <2> HIDE DEF c, by, denied
  <2>3. CASE c \in ExportedCommands \ {"cmd_get_current_role"}
    <3>1. Permitted(by, c) <=>
            (Protected(c) => by # NoRole /\ RoleHasPermission(by, Exposure[c]))
      BY <2>3, HandlersFollowTable DEF Permitted, Protected
    <3>2. Protected(c) => Exposure[c] # Public /\ c \in ExportedCommands
      BY DEF Protected
    <3>3. by # NoRole => (Offered(by, c) <=> (Protected(c) => RoleHasPermission(by, Exposure[c])))
      BY <2>1, <3>2, CapabilitiesFollowRoles DEF Offered
    <3>4. ~Offered("ReadOnly", c) => Protected(c)
      BY DEF Offered
    <3> QED BY <2>2, <3>1, <3>3, <3>4
  <2>4. CASE c \in {"cmd_get_current_role", "cmd_set_tray_status"}
    <3>1. ~denied
      BY <2>2, <2>4, UnaskedCommands DEF Permitted
    <3>2. \A r \in Roles : Offered(r, c)
      BY <2>4, UnaskedCommands DEF Offered
    <3> QED BY <2>1, <3>1, <3>2 DEF Roles
  <2> QED BY <2>3, <2>4 DEF RegisteredCommands
<1> QED BY <1>1, ReplyInvariant, PTL
-----------------------------------------------------------------------------
\* A token names a value of its field exactly when it resolves to one.
LEMMA ResolvedToken ==
  ASSUME NEW token \in CronTokens, NEW i \in 1..5
  PROVE  ResolveToken(token, i) \in Nat \cup {Junk}
BY DEF ResolveToken, CronTokens

LEMMA FieldBounds ==
  ASSUME NEW i \in 1..5
  PROVE  /\ FieldMin[i] \in Nat /\ FieldMax[i] \in Nat /\ FieldMin[i] <= FieldMax[i]
         /\ \A v : InField(v, i) <=> v \in Nat /\ FieldMin[i] <= v /\ v <= FieldMax[i]
<1>1. /\ FieldMin[i] \in Nat /\ FieldMax[i] \in Nat /\ FieldMin[i] <= FieldMax[i]
  BY DEF FieldMin, FieldMax
<1>2. ASSUME NEW v PROVE InField(v, i) <=> v \in Nat /\ FieldMin[i] <= v /\ v <= FieldMax[i]
  BY <1>1 DEF InField
<1> QED BY <1>1, <1>2

\* The step of a part leaves the first value of its span, unless it is no step.
LEMMA SteppedSpan ==
  ASSUME NEW a \in Nat, NEW b \in Nat, NEW step \in Nat \cup {NoStep, Junk}
  PROVE  Stepped(a..b, step) # {} <=> a <= b /\ StepIsValid(step)
<1>1. Junk # 0 /\ NoStep \notin {Junk, 0}
  BY CronAssumption
<1>2. CASE step = NoStep
  BY <1>1, <1>2 DEF Stepped, StepIsValid
<1>3. CASE step # NoStep /\ step \in {Junk, 0}
  BY <1>3 DEF Stepped, StepIsValid
<1>4. CASE step # NoStep /\ step \notin {Junk, 0}
  <2>1. Stepped(a..b, step) \subseteq a..b
    BY <1>4 DEF Stepped
  <2>2. ASSUME a <= b PROVE a \in Stepped(a..b, step)
    <3>1. a - 0 * step = a /\ 0 \in 0..60 /\ a \in a..b /\ a - 1 \notin a..b
      BY <1>4, <2>2
    <3> QED BY <1>4, <3>1 DEF Stepped
  <2>3. a <= b \/ a..b = {}
    OBVIOUS
  <2> QED BY <1>4, <2>1, <2>2, <2>3 DEF StepIsValid
<1> QED BY <1>2, <1>3, <1>4

LEMMA SteppedNothing ==
  ASSUME NEW step PROVE Stepped({}, step) = {}
BY DEF Stepped

\* A part is accepted exactly when it means some values, all of its field.
LEMMA PartsAreMeant ==
  ASSUME NEW part \in CronParts, NEW i \in 1..5
  PROVE  PartIsValid(part, i) <=>
           /\ \A v \in Span(part, i) : InField(v, i)
           /\ Stepped(Span(part, i), part.step) # {}
<1> DEFINE from == ResolveToken(part.from, i)
           last == IF part.kind = "value" THEN from ELSE ResolveToken(part.to, i)
<1>1. part.step \in Nat \cup {NoStep, Junk} /\ part.kind \in {"star", "blank", "value", "range"}
  BY DEF CronParts
<1>2. from \in Nat \cup {Junk} /\ last \in Nat \cup {Junk}
  BY ResolvedToken DEF CronParts
<1>3. CASE part.kind = "star"
  <2>1. Span(part, i) = FieldMin[i] .. FieldMax[i]
    BY <1>3 DEF Span
  <2>2. \A v \in Span(part, i) : InField(v, i)
    BY <2>1, FieldBounds
  <2>3. Stepped(Span(part, i), part.step) # {} <=> StepIsValid(part.step)
    BY <1>1, <2>1, FieldBounds, SteppedSpan
  <2> QED BY <1>3, <2>2, <2>3 DEF PartIsValid
<1>4. CASE part.kind = "blank"
  <2>1. Span(part, i) = {}
    BY <1>4 DEF Span
  <2> QED BY <1>4, <2>1, SteppedNothing DEF PartIsValid
<1>5. CASE part.kind \in {"value", "range"} /\ Junk \in {from, last}
  <2>1. Span(part, i) = {}
    BY <1>5 DEF Span
  <2>2. ~InField(Junk, i)
    BY FieldBounds, CronAssumption
  <2>3. ~PartIsValid(part, i)
    BY <1>5, <2>2 DEF PartIsValid, RangeIsValid
  <2> QED BY <2>1, <2>3, SteppedNothing
<1>6. CASE part.kind \in {"value", "range"} /\ Junk \notin {from, last}
  <2>1. Span(part, i) = from .. last
    BY <1>6 DEF Span
  <2>2. PartIsValid(part, i) <=>
          StepIsValid(part.step) /\ RangeIsValid(from, last, i)
    <3>1. from \in Nat
      BY <1>2, <1>6
    <3>2. part.kind = "value" => last = from
      OBVIOUS
    <3>3. part.kind = "range" => last = ResolveToken(part.to, i)
      OBVIOUS
    <3>4. part.kind = "value" => (RangeIsValid(from, last, i) <=> InField(from, i))
      <4> HIDE DEF from, last
      <4> QED BY <3>1, <3>2 DEF RangeIsValid
    <3> QED BY <1>6, <3>3, <3>4 DEF PartIsValid
  <2> HIDE DEF from, last
  <2>3. from \in Nat /\ last \in Nat
    BY <1>2, <1>6
  <2>4. Stepped(Span(part, i), part.step) # {} <=> from <= last /\ StepIsValid(part.step)
    BY <1>1, <2>1, <2>3, SteppedSpan
  <2>5. from <= last =>
          ((\A v \in from .. last : InField(v, i)) <=> InField(from, i) /\ InField(last, i))
    <3> SUFFICES ASSUME from <= last
                 PROVE  (\A v \in from .. last : InField(v, i)) <=>
                          InField(from, i) /\ InField(last, i)
      OBVIOUS
    <3>1. from \in from .. last /\ last \in from .. last
      BY <2>3
    <3>2. \A v \in from .. last : v \in Nat /\ from <= v /\ v <= last
      BY <2>3
    <3>3. ASSUME InField(from, i), InField(last, i), NEW v \in from .. last
          PROVE  InField(v, i)
      <4>1. FieldMin[i] <= from /\ last <= FieldMax[i]
        BY <3>3, FieldBounds
      <4>2. v \in Nat /\ from <= v /\ v <= last
        BY <3>2
      <4>3. FieldMin[i] \in Nat /\ FieldMax[i] \in Nat
        BY FieldBounds
      <4>4. FieldMin[i] <= v /\ v <= FieldMax[i]
        BY <2>3, <4>1, <4>2, <4>3
      <4> QED BY <4>2, <4>4, FieldBounds
    <3> QED BY <3>1, <3>3
  <2> QED BY <2>1, <2>2, <2>4, <2>5 DEF RangeIsValid
<1> QED BY <1>1, <1>3, <1>4, <1>5, <1>6

\* A schedule is accepted exactly when it has five fields and every part of a field
\* means some values, all of the field: for every list of parts, every number and
\* every name in them.
THEOREM SchedulesMeanWhatIsAccepted == Spec => []SchedulesAreMeant
<1>1. ReplyInv => SchedulesAreMeant
  <2> SUFFICES ASSUME ReplyIsAnswer, reply.cmd = "cmd_validate_cron"
               PROVE  SchedulesAreMeant
    BY DEF ReplyInv, SchedulesAreMeant
  <2> DEFINE text == reply.arg
  <2>1. /\ reply.cmd \in RegisteredCommands /\ Exposure[reply.cmd] = Public
        /\ reply.cmd \in ExportedCommands \ {"cmd_get_current_role"}
    BY DEF RegisteredCommands, ExportedCommands, Exposure
  <2>2. ArgKind(reply.cmd) = "cron"
    BY DEF ArgKind
  <2>3. text \in CronTexts
    BY <2>1, <2>2, KindsHaveTexts DEF ReplyIsAnswer
  <2>4. Permitted(reply.by, reply.cmd)
    BY <2>1, HandlersFollowTable DEF Permitted
  <2>5. reply.status = "ok" <=> ValidateCron(text).ok
    <3>1. reply.status = Answer(reply.by, reply.cmd, text).status
      BY <2>1 DEF ReplyIsAnswer
    <3>2. Validate("cron", text) = ValidateCron(text)
      BY DEF Validate
    <3> QED BY <2>2, <2>4, <3>1, <3>2 DEF Answer
  <2>6. ValidateCron(text).ok <=> text.fields = 5 /\ ValidateField(text.parts, text.at)
    BY DEF ValidateCron, Verdict
  <2>7. \A n \in DOMAIN text.parts : text.parts[n] \in CronParts
    BY <2>3 DEF CronTexts
  <2>8. text.at \in 1..5
    BY <2>3 DEF CronTexts
  <2>9. ValidateField(text.parts, text.at) <=>
          \A n \in DOMAIN text.parts :
            /\ \A v \in Span(text.parts[n], text.at) : InField(v, text.at)
            /\ Stepped(Span(text.parts[n], text.at), text.parts[n].step) # {}
    BY <2>7, <2>8, PartsAreMeant DEF ValidateField
  <2> QED BY <2>5, <2>6, <2>9 DEF SchedulesAreMeant
<1> QED BY <1>1, ReplyInvariant, PTL
=============================================================================
