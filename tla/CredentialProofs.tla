-------------------------- MODULE CredentialProofs --------------------------
(***************************************************************************)
(* Proofs about CredentialStore for every set of threads and every bound.  *)
(* Removal is the hard case: two deletes of one credential may both have   *)
(* passed the check of the map, and only the keychain decides between      *)
(* them.                                                                   *)
(***************************************************************************)
EXTENDS CredentialStore, TLAPS

\* Which command is at which step; the ids at work were handed out.
StepsOK ==
  \A t \in Threads :
    /\ job[t].at \in {"store", "insert"} => job[t].op = "add"
    /\ job[t].at = "remove" => job[t].op = "delete"
    /\ job[t].at \in {"check", "keychain"} => job[t].op \in {"delete", "health"}
    /\ job[t].id < nextId

\* So were the ids that are in the stores, in the trail and in an answer.
IdsUsed ==
  /\ \A id \in meta \cup keychain : id < nextId
  /\ \A e \in trail : e[2] < nextId
  /\ \A t \in Threads : outcome[t].id < nextId

\* Until add has registered its id, no other call gets past the check of the map
\* with it and none has deleted it.
FreshIsAlone ==
  \A t \in Threads :
    job[t].at \in {"store", "insert"} =>
      /\ job[t].id \notin meta
      /\ <<"delete", job[t].id>> \notin trail
      /\ \A u \in Threads : (u # t /\ job[u].id = job[t].id) => job[u].at = "check"

InsertHasSecret ==
  \A t \in Threads : job[t].at = "insert" => job[t].id \in keychain \cup removed

\* A delete that has erased the secret, or has told so.
Erased(t, id) ==
  job[t].op = "delete" /\ job[t].at \in {"remove", "audit"} /\ job[t].id = id

Took(t, id) ==
  \/ Erased(t, id)
  \/ outcome[t].op = "delete" /\ outcome[t].res = "ok" /\ outcome[t].id = id

\* An erased secret stays erased, its metadata from the next step on.
ErasedIsGone ==
  /\ \A t \in Threads :
       (job[t].op = "delete" /\ job[t].at \in {"remove", "audit"}) => job[t].id \notin keychain
  /\ \A t \in Threads :
       (job[t].op = "delete" /\ job[t].at = "audit") => job[t].id \notin meta
  /\ \A id \in Ids : <<"delete", id>> \in trail => id \notin meta /\ id \notin keychain

OneTaker ==
  \A t, u \in Threads : \A id \in Ids : Took(t, id) /\ Took(u, id) => t = u

CredInv ==
  /\ TypeOK /\ StepsOK /\ IdsUsed
  /\ FreshIsAlone /\ InsertHasSecret /\ ErasedIsGone /\ OneTaker
  /\ MetadataHasSecret /\ NoOrphanedSecret /\ DoneIsAudited
-----------------------------------------------------------------------------
LEMMA InitEstablishes == Init => CredInv
<1> SUFFICES ASSUME Init PROVE CredInv OBVIOUS
<1>1. \A t \in Threads : job[t] = Idle /\ outcome[t] = NoOutcome
  BY DEF Init
<1>2. TypeOK
  <2>1. Idle \in Jobs /\ NoOutcome \in Outcomes
    BY DEF Idle, Jobs, NoOutcome, Outcomes, Results
  <2>2. nextId \in 1..(MaxCreds + 1) /\ faults \in 0..MaxFaults /\ restarts \in 0..MaxRestarts
    BY BoundsAssumption DEF Init
  <2> QED BY <2>1, <2>2 DEF Init, TypeOK
<1>3. StepsOK /\ IdsUsed
  BY <1>1 DEF Init, StepsOK, IdsUsed, Idle, NoOutcome, NoId
<1>4. FreshIsAlone /\ InsertHasSecret /\ ErasedIsGone
  BY <1>1 DEF Init, FreshIsAlone, InsertHasSecret, ErasedIsGone, Idle
<1>5. OneTaker
  BY <1>1 DEF OneTaker, Took, Erased, Idle, NoOutcome
<1>6. MetadataHasSecret /\ NoOrphanedSecret /\ DoneIsAudited
  BY <1>1 DEF Init, MetadataHasSecret, NoOrphanedSecret, DoneIsAudited, NoOutcome
<1> QED BY <1>2, <1>3, <1>4, <1>5, <1>6 DEF CredInv

\* What each step of a call makes of the call and of the answer.
LEMMA GotoShape ==
  ASSUME TypeOK, NEW t \in Threads, NEW at, job[t] # Idle, Goto(t, at),
         at \in {"store", "insert", "check", "keychain", "remove", "audit"}
  PROVE  /\ job' \in [Threads -> Jobs]
         /\ job'[t] = [op |-> job[t].op, id |-> job[t].id, at |-> at]
         /\ \A u \in Threads : u # t => job'[u] = job[u]
<1>1. job[t] \in [op: Ops, id: Ids, at: {"store", "insert", "check", "keychain", "remove", "audit"}]
  BY DEF TypeOK, Jobs
<1>2. [job[t] EXCEPT !.at = at] = [op |-> job[t].op, id |-> job[t].id, at |-> at]
  BY <1>1
<1>3. [op |-> job[t].op, id |-> job[t].id, at |-> at] \in Jobs
  BY <1>1 DEF Jobs
<1>4. job' = [job EXCEPT ![t] = [op |-> job[t].op, id |-> job[t].id, at |-> at]]
  BY <1>2 DEF Goto
<1> QED BY <1>3, <1>4 DEF TypeOK

LEMMA FinishShape ==
  ASSUME TypeOK, NEW t \in Threads, NEW res \in Results, NEW fault \in BOOLEAN, job[t] # Idle,
         Finish(t, res, fault)
  PROVE  /\ job' \in [Threads -> Jobs] /\ outcome' \in [Threads -> Outcomes]
         /\ job'[t] = Idle
         /\ outcome'[t].op = job[t].op /\ outcome'[t].id = job[t].id /\ outcome'[t].res = res
         /\ \A u \in Threads : u # t => job'[u] = job[u] /\ outcome'[u] = outcome[u]
<1> DEFINE known == job[t].id \in meta
           o == [op |-> job[t].op, id |-> job[t].id, res |-> res, fault |-> fault, known |-> known]
<1>1. job[t].op \in Ops /\ job[t].id \in Ids
  BY DEF TypeOK, Jobs
<1>2. known \in BOOLEAN
  OBVIOUS
<1>3. o \in Outcomes /\ o.op = job[t].op /\ o.id = job[t].id /\ o.res = res
  <2> HIDE DEF known
  <2> QED BY <1>1, <1>2 DEF Outcomes
<1>4. job' = [job EXCEPT ![t] = Idle] /\ outcome' = [outcome EXCEPT ![t] = o]
  BY DEF Finish
<1>5. Idle \in Jobs
  BY DEF Jobs
<1> HIDE DEF o
<1> QED BY <1>3, <1>4, <1>5 DEF TypeOK

LEMMA BeginShape ==
  ASSUME TypeOK, NEW t \in Threads, NEW op \in Ops, NEW id \in Ids, NEW at \in {"store", "check"},
         job' = [job EXCEPT ![t] = [op |-> op, id |-> id, at |-> at]],
         outcome' = [outcome EXCEPT ![t] = NoOutcome]
  PROVE  /\ job' \in [Threads -> Jobs] /\ outcome' \in [Threads -> Outcomes]
         /\ job'[t] = [op |-> op, id |-> id, at |-> at] /\ outcome'[t] = NoOutcome
         /\ \A u \in Threads : u # t => job'[u] = job[u] /\ outcome'[u] = outcome[u]
<1>1. [op |-> op, id |-> id, at |-> at] \in Jobs
  BY DEF Jobs
<1>2. NoOutcome \in Outcomes
  BY DEF NoOutcome, Outcomes, Results
<1> QED BY <1>1, <1>2 DEF TypeOK

\* What a step of a call does to the call, its answer and the four pieces of data.
Moved(t, at) ==
  /\ job'[t] = [op |-> job[t].op, id |-> job[t].id, at |-> at]
  /\ UNCHANGED outcome

Returned(t, res) ==
  /\ job'[t] = Idle
  /\ outcome'[t].op = job[t].op /\ outcome'[t].id = job[t].id /\ outcome'[t].res = res

Started(t, op, id, at) ==
  /\ job[t] = Idle
  /\ job'[t] = [op |-> op, id |-> id, at |-> at]
  /\ outcome'[t] = NoOutcome

StartsAdd(t) ==
  /\ Started(t, "add", nextId, "store") /\ nextId' = nextId + 1 /\ nextId \in Ids
  /\ UNCHANGED data

Starts(t) ==
  /\ \E op \in {"delete", "health"}, id \in Ids : id < nextId /\ Started(t, op, id, "check")
  /\ UNCHANGED <<data, nextId>>

Refused(t) ==
  /\ job'[t] = job[t] /\ job[t] = Idle /\ outcome'[t] = [NoOutcome EXCEPT !.res = "denied"]
  /\ UNCHANGED <<data, nextId>>

Stores(t) ==
  /\ job[t].at = "store" /\ Moved(t, "insert") /\ keychain' = keychain \cup {job[t].id}
  /\ UNCHANGED <<meta, trail, nextId>>

Inserts(t) ==
  /\ job[t].at = "insert" /\ Moved(t, "audit") /\ meta' = meta \cup {job[t].id}
  /\ UNCHANGED <<keychain, trail, nextId>>

Finds(t) ==
  /\ job[t].at = "check" /\ job[t].id \in meta /\ Moved(t, "keychain")
  /\ UNCHANGED <<data, nextId>>

Erases(t) ==
  /\ job[t].op = "delete" /\ job[t].at = "keychain" /\ job[t].id \in keychain
  /\ Moved(t, "remove") /\ keychain' = keychain \ {job[t].id}
  /\ UNCHANGED <<meta, trail, nextId>>

Forgets(t) ==
  /\ job[t].at = "remove" /\ Moved(t, "audit") /\ meta' = meta \ {job[t].id}
  /\ UNCHANGED <<keychain, trail, nextId>>

Looks(t) ==
  /\ job[t].op = "health" /\ job[t].at = "keychain" /\ Moved(t, "audit")
  /\ UNCHANGED <<data, nextId>>

Audits(t) ==
  /\ job[t].at = "audit" /\ Returned(t, "ok")
  /\ trail' = trail \cup {<<job[t].op, job[t].id>>}
  /\ UNCHANGED <<meta, keychain, nextId>>

Fails(t) ==
  /\ \E res \in Results \ {"ok"} : Returned(t, res)
  /\ job[t].at \in {"store", "check", "keychain", "audit"}
  /\ UNCHANGED <<data, nextId>>

CallSteps(t) ==
  \/ StartsAdd(t) \/ Starts(t) \/ Refused(t) \/ Stores(t) \/ Inserts(t) \/ Finds(t)
  \/ Erases(t) \/ Forgets(t) \/ Looks(t) \/ Audits(t) \/ Fails(t)

\* Only the call at hand changes.
OnlyCall(t) ==
  /\ job' \in [Threads -> Jobs] /\ outcome' \in [Threads -> Outcomes]
  /\ \A u \in Threads : u # t => job'[u] = job[u] /\ outcome'[u] = outcome[u]
  /\ UNCHANGED <<env>> /\ faults' \in 0..MaxFaults

LEMMA FaultCounts ==
  ASSUME TypeOK, Fault
  PROVE  faults' \in 0..MaxFaults
BY BoundsAssumption DEF TypeOK, Fault

LEMMA CallShape ==
  ASSUME TypeOK, NEW t \in Threads,
         \/ BeginAdd(t) \/ Refuse(t) \/ Step(t)
         \/ \E op \in {"delete", "health"}, id \in Ids : Begin(t, op, id)
  PROVE  OnlyCall(t) /\ CallSteps(t)
<1>1. job \in [Threads -> Jobs] /\ outcome \in [Threads -> Outcomes] /\ faults \in 0..MaxFaults
  BY DEF TypeOK
<1>2. CASE BeginAdd(t)
  <2>1. nextId \in Ids
    BY <1>2, BoundsAssumption DEF BeginAdd, TypeOK, Ids
  <2> QED BY <1>1, <1>2, <2>1, BeginShape
           DEF BeginAdd, OnlyCall, CallSteps, StartsAdd, Started, Ops
<1>3. ASSUME NEW op \in {"delete", "health"}, NEW id \in Ids, Begin(t, op, id)
      PROVE  OnlyCall(t) /\ CallSteps(t)
  BY <1>1, <1>3, BeginShape DEF Begin, data, OnlyCall, CallSteps, Starts, Started, Ops
<1>4. CASE Refuse(t)
  <2>1. [NoOutcome EXCEPT !.res = "denied"] \in Outcomes
    BY DEF NoOutcome, Outcomes, Results
  <2> QED BY <1>1, <1>4, <2>1 DEF Refuse, data, OnlyCall, CallSteps, Refused
<1>5. job[t] = Idle => job[t].at = "idle" /\ job[t].op = "none"
  BY DEF Idle
<1>6. CASE StoreSecret(t)
  BY <1>1, <1>5, <1>6, GotoShape, FinishShape, FaultCounts
     DEF StoreSecret, data, OnlyCall, CallSteps, Stores, Fails, Moved, Returned, Results
<1>7. CASE InsertMeta(t)
  BY <1>1, <1>5, <1>7, GotoShape DEF InsertMeta, data, OnlyCall, CallSteps, Inserts, Moved
<1>8. CASE CheckKnown(t)
  BY <1>1, <1>5, <1>8, GotoShape, FinishShape
     DEF CheckKnown, data, OnlyCall, CallSteps, Finds, Fails, Moved, Returned, Results
<1>9. CASE DeleteSecret(t)
  BY <1>1, <1>5, <1>9, GotoShape, FinishShape, FaultCounts
     DEF DeleteSecret, data, OnlyCall, CallSteps, Erases, Fails, Moved, Returned, Results
<1>10. CASE RemoveMeta(t)
  BY <1>1, <1>5, <1>10, GotoShape DEF RemoveMeta, data, OnlyCall, CallSteps, Forgets, Moved
<1>11. CASE RetrieveSecret(t)
  BY <1>1, <1>5, <1>11, GotoShape DEF RetrieveSecret, data, OnlyCall, CallSteps, Looks, Moved
<1>12. CASE AppendAudit(t)
  BY <1>1, <1>5, <1>12, FinishShape, FaultCounts
     DEF AppendAudit, data, OnlyCall, CallSteps, Audits, Fails, Returned, Results
<1> QED BY <1>2, <1>3, <1>4, <1>6, <1>7, <1>8, <1>9, <1>10, <1>11, <1>12 DEF Step
-----------------------------------------------------------------------------
\* The inductive invariant, part by part, over the steps of a call.
LEMMA TypesPreserved ==
  ASSUME CredInv, NEW t \in Threads, OnlyCall(t), CallSteps(t)
  PROVE  TypeOK' /\ StepsOK' /\ IdsUsed'
<1> USE DEF CredInv
<1>1. job[t] # Idle => job[t].op \in Ops /\ job[t].id \in Ids
  BY DEF TypeOK, Jobs
<1>2. job[t] = Idle => job[t].at = "idle" /\ job[t].op = "none" /\ job[t].id = 0
  BY DEF Idle, NoId
<1>3. TypeOK'
  <2>1. nextId' \in 1..(MaxCreds + 1)
    BY BoundsAssumption
       DEF TypeOK, CallSteps, StartsAdd, Starts, Refused, Stores, Inserts, Finds, Erases, Forgets,
           Looks, Audits, Fails, Ids, data
  <2>2. meta' \subseteq Ids /\ keychain' \subseteq Ids
    BY <1>1, <1>2
       DEF TypeOK, CallSteps, StartsAdd, Starts, Refused, Stores, Inserts, Finds, Erases, Forgets,
           Looks, Audits, Fails, data
  <2>3. trail' \subseteq Ops \X Ids
    BY <1>1, <1>2
       DEF TypeOK, CallSteps, StartsAdd, Starts, Refused, Stores, Inserts, Finds, Erases, Forgets,
           Looks, Audits, Fails, data
  <2> QED BY <2>1, <2>2, <2>3 DEF OnlyCall, env, TypeOK
<1>4. nextId \in Nat /\ nextId' \in Nat /\ nextId <= nextId'
  BY <1>3, BoundsAssumption
     DEF TypeOK, CallSteps, StartsAdd, Starts, Refused, Stores, Inserts, Finds, Erases, Forgets,
         Looks, Audits, Fails, data
<1>5. \A u \in Threads : job[u].id \in Nat /\ outcome[u].id \in Nat
  BY BoundsAssumption DEF TypeOK, Jobs, Idle, NoId, Ids, Outcomes
<1>6. StepsOK'
  <2>1. \A u \in Threads : u # t =>
          /\ job'[u].at \in {"store", "insert"} => job'[u].op = "add"
          /\ job'[u].at = "remove" => job'[u].op = "delete"
          /\ job'[u].at \in {"check", "keychain"} => job'[u].op \in {"delete", "health"}
          /\ job'[u].id < nextId'
    BY <1>4, <1>5 DEF StepsOK, OnlyCall
  <2>2. job'[t].id < nextId'
    BY <1>2, <1>4, <1>5, <1>3
       DEF TypeOK, StepsOK, Moved, Started, Returned, Idle, NoId, Ids,
           CallSteps, StartsAdd, Starts, Refused, Stores, Inserts, Finds, Erases, Forgets,
           Looks, Audits, Fails
  <2>3. /\ job'[t].at \in {"store", "insert"} => job'[t].op = "add"
        /\ job'[t].at = "remove" => job'[t].op = "delete"
        /\ job'[t].at \in {"check", "keychain"} => job'[t].op \in {"delete", "health"}
    <3>1. CASE StartsAdd(t)
      BY <3>1 DEF StartsAdd, Started
    <3>4. CASE Starts(t)
      <4>1. PICK op \in {"delete", "health"}, id \in Ids : Started(t, op, id, "check")
        BY <3>4 DEF Starts
      <4> QED BY <4>1 DEF Started
    <3>2. CASE Refused(t) \/ Audits(t) \/ Fails(t)
      BY <1>2, <3>2 DEF Refused, Audits, Fails, Returned, Idle
    <3>3. CASE Stores(t) \/ Inserts(t) \/ Forgets(t) \/ Looks(t) \/ Erases(t) \/ Finds(t)
      BY <3>3 DEF StepsOK, Moved, Stores, Inserts, Forgets, Looks, Erases, Finds
    <3> QED BY <3>1, <3>2, <3>3, <3>4 DEF CallSteps
  <2> QED BY <2>1, <2>2, <2>3 DEF StepsOK
<1>7. IdsUsed'
  <2>1. job[t].id < nextId /\ meta \subseteq Nat /\ keychain \subseteq Nat
    BY BoundsAssumption DEF StepsOK, TypeOK, Ids
  <2>2. \A id \in meta' \cup keychain' : id \in meta \cup keychain \/ id = job[t].id
    BY DEF CallSteps, StartsAdd, Starts, Refused, Stores, Inserts, Finds, Erases, Forgets,
           Looks, Audits, Fails, data
  <2>3. \A id \in meta' \cup keychain' : id < nextId'
    <3> SUFFICES ASSUME NEW id \in meta' \cup keychain' PROVE id < nextId'
      OBVIOUS
    <3>1. id \in Nat /\ id < nextId
      BY <1>5, <2>1, <2>2 DEF IdsUsed
    <3> QED BY <1>4, <3>1
  <2>4. \A e \in trail' : e \in trail \/ e[2] = job[t].id
    BY DEF CallSteps, StartsAdd, Starts, Refused, Stores, Inserts, Finds, Erases, Forgets,
           Looks, Audits, Fails, data
  <2>5. \A e \in trail : e[2] \in Nat
    BY BoundsAssumption DEF TypeOK, Ids
  <2>6. \A e \in trail' : e[2] < nextId'
    BY <1>4, <1>5, <2>1, <2>4, <2>5 DEF IdsUsed
  <2>7. \A u \in Threads : u # t => outcome'[u].id < nextId'
    BY <1>4, <1>5 DEF IdsUsed, OnlyCall
  <2>8. outcome'[t] = outcome[t] \/ outcome'[t].id = 0 \/ outcome'[t].id = job[t].id
    <3>1. CASE StartsAdd(t) \/ Starts(t) \/ Refused(t)
      <4>1. outcome'[t] = NoOutcome \/ outcome'[t] = [NoOutcome EXCEPT !.res = "denied"]
        BY <3>1 DEF StartsAdd, Starts, Started, Refused
      <4> QED BY <4>1 DEF NoOutcome, NoId
    <3>2. CASE Audits(t) \/ Fails(t)
      BY <3>2 DEF Audits, Fails, Returned
    <3>3. CASE Stores(t) \/ Inserts(t) \/ Forgets(t) \/ Looks(t) \/ Erases(t) \/ Finds(t)
      BY <3>3 DEF Moved, Stores, Inserts, Forgets, Looks, Erases, Finds
    <3> QED BY <3>1, <3>2, <3>3 DEF CallSteps
  <2>9. outcome'[t].id < nextId' /\ 0 < nextId'
    BY <1>3, <1>4, <1>5, <2>1, <2>8 DEF IdsUsed, TypeOK
  <2> QED BY <2>3, <2>6, <2>7, <2>9 DEF IdsUsed
<1> QED BY <1>3, <1>6, <1>7

\* A call that is at work on a fresh id meets no other that is.
LEMMA FreshMeets ==
  ASSUME CredInv, NEW t \in Threads, NEW u \in Threads, t # u,
         job[t].at \in {"store", "insert"}, job[u].id = job[t].id
  PROVE  job[u].at = "check"
BY DEF CredInv, FreshIsAlone

\* How the data changes in a step of a call.
LEMMA DataSteps ==
  ASSUME NEW t \in Threads, CallSteps(t)
  PROVE  /\ meta' \subseteq meta \/ (Inserts(t) /\ meta' = meta \cup {job[t].id})
         /\ keychain' \subseteq keychain \/ (Stores(t) /\ keychain' = keychain \cup {job[t].id})
         /\ meta \subseteq meta' \/ (Forgets(t) /\ meta' = meta \ {job[t].id})
         /\ keychain \subseteq keychain' \/ (Erases(t) /\ keychain' = keychain \ {job[t].id})
         /\ trail \subseteq trail'
         /\ trail' = trail \/ (Audits(t) /\ trail' = trail \cup {<<job[t].op, job[t].id>>})
BY DEF CallSteps, StartsAdd, Starts, Refused, Stores, Inserts, Finds, Erases, Forgets,
       Looks, Audits, Fails, data

\* Where the call stands afterwards.
LEMMA Arrives ==
  ASSUME NEW t \in Threads, CallSteps(t)
  PROVE  /\ job'[t].at = "store" => StartsAdd(t)
         /\ job'[t].at = "insert" => Stores(t)
         /\ job'[t].at = "check" => Starts(t)
         /\ job'[t].at = "remove" => Erases(t)
         /\ job'[t].at = "audit" => Inserts(t) \/ Forgets(t) \/ Looks(t)
         /\ job'[t].at \notin {"store", "insert", "check", "keychain", "remove", "audit"} =>
              job'[t] = Idle
         /\ job'[t].at = "keychain" => Finds(t)
<1>1. CASE StartsAdd(t)
  BY <1>1 DEF StartsAdd, Started
<1>2. CASE Starts(t)
  <2>1. PICK op \in {"delete", "health"}, id \in Ids : Started(t, op, id, "check")
    BY <1>2 DEF Starts
  <2> QED BY <1>2, <2>1 DEF Started
<1>3. CASE Refused(t) \/ Audits(t) \/ Fails(t)
  BY <1>3 DEF Refused, Audits, Fails, Returned, Idle
<1>4. CASE Stores(t)
  BY <1>4 DEF Stores, Moved
<1>5. CASE Inserts(t)
  BY <1>5 DEF Inserts, Moved
<1>6. CASE Finds(t)
  BY <1>6 DEF Finds, Moved
<1>7. CASE Erases(t)
  BY <1>7 DEF Erases, Moved
<1>8. CASE Forgets(t)
  BY <1>8 DEF Forgets, Moved
<1>9. CASE Looks(t)
  BY <1>9 DEF Looks, Moved
<1> QED BY <1>1, <1>2, <1>3, <1>4, <1>5, <1>6, <1>7, <1>8, <1>9 DEF CallSteps

\* A call that is in a step takes it; only an idle one starts another.
LEMMA AtWork ==
  ASSUME NEW t \in Threads, CallSteps(t)
  PROVE  /\ job[t].at = "remove" => Forgets(t)
         /\ job[t].at = "insert" => Inserts(t)
<1>1. StartsAdd(t) \/ Starts(t) \/ Refused(t) => job[t].at = "idle"
  <2>1. StartsAdd(t) \/ Starts(t) \/ Refused(t) => job[t] = Idle
    BY DEF StartsAdd, Starts, Started, Refused
  <2> QED BY <2>1 DEF Idle
<1>2. Stores(t) \/ Finds(t) \/ Erases(t) \/ Looks(t) \/ Audits(t) \/ Fails(t) =>
        job[t].at \notin {"remove", "insert"}
  BY DEF Stores, Finds, Erases, Looks, Audits, Fails
<1>3. (Forgets(t) => job[t].at = "remove") /\ (Inserts(t) => job[t].at = "insert")
  BY DEF Forgets, Inserts
<1> QED BY <1>1, <1>2, <1>3 DEF CallSteps

LEMMA FreshPreserved ==
  ASSUME CredInv, NEW t \in Threads, OnlyCall(t), CallSteps(t)
  PROVE  FreshIsAlone' /\ InsertHasSecret'
<1> USE DEF CredInv
<1>1. nextId \in Nat /\ \A u \in Threads : job[u].id \in Nat /\ job[u].id < nextId
  BY BoundsAssumption DEF TypeOK, StepsOK, Jobs, Idle, NoId, Ids
<1>2. \A u \in Threads : job[u] # Idle => job[u].id \in Ids /\ job[u].id # 0
  BY BoundsAssumption DEF TypeOK, Jobs, Ids
<1>3. \A u \in Threads : u # t => job'[u] = job[u]
  BY DEF OnlyCall
<1>4. ASSUME NEW x \in Threads, job'[x].at \in {"store", "insert"}
      PROVE  /\ job'[x].id \notin meta'
             /\ <<"delete", job'[x].id>> \notin trail'
             /\ \A u \in Threads : (u # x /\ job'[u].id = job'[x].id) => job'[u].at = "check"
  <2>1. CASE x = t /\ StartsAdd(t)
    <3>1. job'[t].id = nextId /\ meta' = meta /\ trail' = trail
      BY <2>1 DEF StartsAdd, Started, data
    <3>2. nextId \notin meta /\ <<"delete", nextId>> \notin trail
      BY <1>1 DEF IdsUsed
    <3> QED BY <1>1, <1>3, <2>1, <3>1, <3>2
  <2>2. CASE x = t /\ Stores(t)
    BY <1>3, <2>2 DEF Stores, Moved, FreshIsAlone
  <2>3. CASE x # t
    <3>1. job'[x] = job[x] /\ job[x].id \in Ids /\ job[x].id # 0
      BY <1>2, <1>3, <1>4, <2>3 DEF Idle
    <3>2. job[t].id = job[x].id => job[t].at = "check"
      BY <1>4, <2>3, <3>1, FreshMeets
    <3>3. job[x].id \notin meta /\ <<"delete", job[x].id>> \notin trail
      BY <1>4, <3>1 DEF FreshIsAlone
    <3>4. job[x].id \notin meta' /\ <<"delete", job[x].id>> \notin trail'
      BY <3>2, <3>3, DataSteps DEF Inserts, Audits
    <3>5. job'[t].id = job[x].id => job'[t].at = "check"
      <4>1. CASE StartsAdd(t)
        BY <1>1, <4>1 DEF StartsAdd, Started
      <4>2. CASE Starts(t)
        <5>1. PICK op \in {"delete", "health"}, id \in Ids : Started(t, op, id, "check")
          BY <4>2 DEF Starts
        <5> QED BY <5>1 DEF Started
      <4>3. CASE Refused(t) \/ Audits(t) \/ Fails(t)
        BY <3>1, <4>3 DEF Refused, Audits, Fails, Returned, Idle, NoId
      <4>4. CASE Stores(t) \/ Inserts(t) \/ Finds(t) \/ Erases(t) \/ Forgets(t) \/ Looks(t)
        BY <3>2, <3>3, <4>4 DEF Stores, Inserts, Finds, Erases, Forgets, Looks, Moved
      <4> QED BY <4>1, <4>2, <4>3, <4>4 DEF CallSteps
    <3>6. \A u \in Threads : (u # x /\ job[u].id = job[x].id) => job[u].at = "check"
      BY <1>4, <3>1 DEF FreshIsAlone
    <3> QED BY <1>3, <3>1, <3>4, <3>5, <3>6
  <2> QED BY <1>4, <2>1, <2>2, <2>3, Arrives
<1>5. FreshIsAlone'
  BY <1>4 DEF FreshIsAlone
<1>6. ASSUME NEW x \in Threads, job'[x].at = "insert"
      PROVE  job'[x].id \in keychain' \cup removed'
  <2>1. CASE x = t
    <3>1. Stores(t)
      BY <1>6, <2>1, Arrives
    <3> QED BY <2>1, <3>1 DEF Stores, Moved
  <2>2. CASE x # t
    <3>1. job'[x] = job[x] /\ job[x].id \in keychain \cup removed
      BY <1>3, <1>6, <2>2 DEF InsertHasSecret
    <3>2. job[t].id = job[x].id => job[t].at = "check"
      BY <1>6, <2>2, <3>1, FreshMeets
    <3>3. removed' = removed
      BY DEF OnlyCall, env
    <3> QED BY <3>1, <3>2, <3>3, DataSteps DEF Erases
  <2> QED BY <2>1, <2>2
<1> QED BY <1>5, <1>6 DEF InsertHasSecret

LEMMA ErasedPreserved ==
  ASSUME CredInv, NEW t \in Threads, OnlyCall(t), CallSteps(t)
  PROVE  ErasedIsGone' /\ OneTaker'
<1> USE DEF CredInv
<1>1. \A u \in Threads : u # t => job'[u] = job[u] /\ outcome'[u] = outcome[u]
  BY DEF OnlyCall
<1>2. ASSUME NEW x \in Threads, job'[x].op = "delete", job'[x].at \in {"remove", "audit"}
      PROVE  job'[x].id \notin keychain'
  <2>1. CASE x # t
    <3>1. job'[x] = job[x] /\ job[x].id \notin keychain
      BY <1>1, <1>2, <2>1 DEF ErasedIsGone
    <3>2. Stores(t) => job[t].id # job[x].id
      BY <1>2, <2>1, <3>1, FreshMeets DEF Stores
    <3> QED BY <3>1, <3>2, DataSteps
  <2>2. CASE x = t /\ Erases(t)
    BY <2>2 DEF Erases, Moved
  <2>3. CASE x = t /\ Forgets(t)
    BY <2>3 DEF Forgets, Moved, StepsOK, ErasedIsGone
  <2>4. CASE x = t /\ (Inserts(t) \/ Looks(t))
    BY <1>2, <2>4 DEF Inserts, Looks, Moved, StepsOK
  <2> QED BY <1>2, <2>1, <2>2, <2>3, <2>4, Arrives
<1>3. ASSUME NEW x \in Threads, job'[x].op = "delete", job'[x].at = "audit"
      PROVE  job'[x].id \notin meta'
  <2>1. CASE x # t
    <3>1. job'[x] = job[x] /\ job[x].id \notin meta
      BY <1>1, <1>3, <2>1 DEF ErasedIsGone
    <3>2. Inserts(t) => job[t].id # job[x].id
      BY <1>3, <2>1, <3>1, FreshMeets DEF Inserts
    <3> QED BY <3>1, <3>2, DataSteps
  <2>2. CASE x = t /\ Forgets(t)
    BY <2>2 DEF Forgets, Moved
  <2>3. CASE x = t /\ (Inserts(t) \/ Looks(t))
    BY <1>3, <2>3 DEF Inserts, Looks, Moved, StepsOK
  <2> QED BY <1>3, <2>1, <2>2, <2>3, Arrives
<1>4. ASSUME NEW id \in Ids, <<"delete", id>> \in trail'
      PROVE  id \notin meta' /\ id \notin keychain'
  <2>1. id \notin meta /\ id \notin keychain
    BY <1>4, DataSteps DEF ErasedIsGone, Audits
  <2>2. Stores(t) \/ Inserts(t) => <<"delete", job[t].id>> \notin trail /\ trail' = trail
    BY DEF Stores, Inserts, FreshIsAlone
  <2> QED BY <1>4, <2>1, <2>2, DataSteps
<1>5. ErasedIsGone'
  BY <1>2, <1>3, <1>4 DEF ErasedIsGone
<1>6. ASSUME NEW x \in Threads, NEW id, Took(x, id)'
      PROVE  Took(x, id) \/ (x = t /\ Erases(t) /\ job[t].id = id)
  <2>1. CASE x # t
    BY <1>1, <1>6, <2>1 DEF Took, Erased
  <2>2. CASE x = t /\ Erased(t, id)'
    <3>1. CASE Erases(t)
      BY <2>2, <3>1 DEF Erased, Erases, Moved
    <3>2. CASE Forgets(t)
      BY <2>2, <3>2 DEF Erased, Took, Forgets, Moved
    <3>3. CASE Inserts(t) \/ Looks(t)
      BY <2>2, <3>3 DEF Erased, Inserts, Looks, Moved, StepsOK
    <3> QED BY <2>2, <3>1, <3>2, <3>3, Arrives DEF Erased
  <2>3. CASE x = t /\ outcome'[t].op = "delete" /\ outcome'[t].res = "ok" /\ outcome'[t].id = id
    <3>1. CASE StartsAdd(t) \/ Starts(t) \/ Refused(t)
      <4>1. outcome'[t] = NoOutcome \/ outcome'[t] = [NoOutcome EXCEPT !.res = "denied"]
        BY <3>1 DEF StartsAdd, Starts, Started, Refused
      <4> QED BY <2>3, <4>1 DEF NoOutcome
    <3>2. CASE Audits(t)
      BY <2>3, <3>2 DEF Audits, Returned, Took, Erased
    <3>3. CASE Fails(t)
      BY <2>3, <3>3 DEF Fails, Returned
    <3>4. CASE Stores(t) \/ Inserts(t) \/ Finds(t) \/ Erases(t) \/ Forgets(t) \/ Looks(t)
      BY <2>3, <3>4 DEF Stores, Inserts, Finds, Erases, Forgets, Looks, Moved, Took
    <3> QED BY <3>1, <3>2, <3>3, <3>4 DEF CallSteps
  <2> QED BY <1>6, <2>1, <2>2, <2>3 DEF Took
<1>7. ASSUME NEW x \in Threads, Took(x, job[t].id), Erases(t) PROVE FALSE
  <2>1. job[t].id \in keychain /\ job[t].id \in Ids
    BY <1>7 DEF Erases, TypeOK
  <2>2. ~Erased(x, job[t].id)
    BY <2>1 DEF ErasedIsGone, Erased
  <2> QED BY <1>7, <2>1, <2>2 DEF Took, DoneIsAudited, ErasedIsGone
<1>8. OneTaker'
  BY <1>6, <1>7 DEF OneTaker
<1> QED BY <1>5, <1>8

LEMMA PromisesPreserved ==
  ASSUME CredInv, NEW t \in Threads, OnlyCall(t), CallSteps(t)
  PROVE  MetadataHasSecret' /\ NoOrphanedSecret' /\ DoneIsAudited'
<1> USE DEF CredInv
<1>1. \A u \in Threads : u # t => job'[u] = job[u] /\ outcome'[u] = outcome[u]
  BY DEF OnlyCall
<1>2. lost' = lost /\ removed' = removed
  BY DEF OnlyCall, env
<1>3. ASSUME NEW id \in meta'
      PROVE  id \in keychain' \/ id \in removed' \/ Working("delete", "remove", id)'
  <2>1. CASE id \notin meta
    <3>1. Inserts(t) /\ id = job[t].id /\ keychain' = keychain
      BY <1>3, <2>1, DataSteps DEF Inserts
    <3> QED BY <1>2, <3>1 DEF Inserts, InsertHasSecret
  <2>2. CASE id \in keychain
    <3>1. CASE id \notin keychain'
      <4>1. Erases(t) /\ id = job[t].id
        BY <2>2, <3>1, DataSteps
      <4> QED BY <4>1 DEF Erases, Moved, Working
    <3> QED BY <3>1
  <2>3. CASE id \in removed
    BY <1>2, <2>3
  <2>4. ASSUME NEW u \in Threads, job[u].op = "delete", job[u].at = "remove", job[u].id = id
        PROVE  Working("delete", "remove", id)'
    <3>1. u # t
      <4>1. SUFFICES ASSUME u = t PROVE FALSE
        OBVIOUS
      <4>2. Forgets(t)
        BY <2>4, <4>1, AtWork
      <4> QED BY <1>3, <2>4, <4>1, <4>2 DEF Forgets
    <3> QED BY <1>1, <2>4, <3>1 DEF Working
  <2> QED BY <2>1, <2>2, <2>3, <2>4 DEF MetadataHasSecret, Working
<1>4. ASSUME NEW id \in keychain'
      PROVE  id \in meta' \/ id \in lost' \/ Working("add", "insert", id)'
  <2>1. CASE id \notin keychain
    <3>1. Stores(t) /\ id = job[t].id
      BY <1>4, <2>1, DataSteps
    <3>2. job[t].op = "add"
      BY <3>1 DEF Stores, StepsOK
    <3> QED BY <3>1, <3>2 DEF Stores, Moved, Working
  <2>2. CASE id \in meta
    <3>1. CASE id \notin meta'
      <4>1. Forgets(t) /\ id = job[t].id /\ keychain' = keychain
        BY <2>2, <3>1, DataSteps DEF Forgets
      <4> QED BY <1>4, <4>1 DEF Forgets, StepsOK, ErasedIsGone
    <3> QED BY <3>1
  <2>3. CASE id \in lost
    BY <1>2, <2>3
  <2>4. ASSUME NEW u \in Threads, job[u].op = "add", job[u].at = "insert", job[u].id = id
        PROVE  id \in meta' \/ Working("add", "insert", id)'
    <3>1. CASE u = t
      BY <2>4, <3>1, AtWork DEF Inserts
    <3>2. CASE u # t
      BY <1>1, <2>4, <3>2 DEF Working
    <3> QED BY <3>1, <3>2
  <2> QED BY <2>1, <2>2, <2>3, <2>4 DEF NoOrphanedSecret, Working
<1>5. ASSUME NEW u \in Threads, outcome'[u].res = "ok"
      PROVE  <<outcome'[u].op, outcome'[u].id>> \in trail'
  <2>1. CASE outcome'[u] = outcome[u]
    BY <1>5, <2>1, DataSteps DEF DoneIsAudited
  <2>2. CASE u = t /\ Audits(t)
    BY <2>2 DEF Audits, Returned
  <2>3. CASE u = t /\ Fails(t)
    BY <1>5, <2>3 DEF Fails, Returned
  <2>4. CASE u = t /\ (StartsAdd(t) \/ Starts(t) \/ Refused(t))
    <3>1. outcome'[t] = NoOutcome \/ outcome'[t] = [NoOutcome EXCEPT !.res = "denied"]
      BY <2>4 DEF StartsAdd, Starts, Started, Refused
    <3> QED BY <1>5, <2>4, <3>1 DEF NoOutcome
  <2>5. CASE u = t /\ (Stores(t) \/ Inserts(t) \/ Finds(t) \/ Erases(t) \/ Forgets(t) \/ Looks(t))
    BY <2>1, <2>5 DEF Stores, Inserts, Finds, Erases, Forgets, Looks, Moved
  <2> QED BY <1>1, <2>1, <2>2, <2>3, <2>4, <2>5 DEF CallSteps
<1> QED BY <1>3, <1>4, <1>5 DEF MetadataHasSecret, NoOrphanedSecret, DoneIsAudited
-----------------------------------------------------------------------------
\* A crash ends every call; ids stay handed out, secrets and the trail stay.
LEMMA RestartPreserves ==
  ASSUME CredInv, Restart
  PROVE  CredInv'
<1> USE DEF CredInv
<1>1. \A t \in Threads : job'[t] = Idle /\ outcome'[t] = outcome[t]
  BY DEF Restart
<1>2. TypeOK'
  <2>1. Idle \in Jobs
    BY DEF Jobs
  <2>2. restarts' \in 0..MaxRestarts
    BY BoundsAssumption DEF Restart, TypeOK
  <2>3. 1..(nextId - 1) \subseteq Ids
    BY BoundsAssumption DEF TypeOK, Ids
  <2> QED BY <2>1, <2>2, <2>3 DEF Restart, TypeOK
<1>3. StepsOK' /\ IdsUsed'
  <2>1. nextId' = nextId /\ 0 < nextId
    BY BoundsAssumption DEF Restart, TypeOK
  <2> QED BY <1>1, <2>1 DEF Restart, StepsOK, IdsUsed, Idle, NoId
<1>4. FreshIsAlone' /\ InsertHasSecret'
  BY <1>1 DEF FreshIsAlone, InsertHasSecret, Idle
<1>5. ErasedIsGone' /\ OneTaker'
  BY <1>1 DEF Restart, ErasedIsGone, OneTaker, Took, Erased, Idle
<1>6. MetadataHasSecret' /\ DoneIsAudited'
  BY <1>1 DEF Restart, MetadataHasSecret, DoneIsAudited
<1>7. ASSUME NEW id \in keychain' PROVE id \in lost'
  <2>1. id \in Ids /\ id < nextId /\ nextId \in Nat
    BY <1>7, BoundsAssumption DEF Restart, TypeOK, IdsUsed
  <2>2. id \in 1..(nextId - 1)
    BY <2>1, BoundsAssumption DEF Ids
  <2> QED BY <2>2 DEF Restart
<1> QED BY <1>2, <1>3, <1>4, <1>5, <1>6, <1>7 DEF NoOrphanedSecret

LEMMA RemovalPreserves ==
  ASSUME CredInv, NEW gone \in Ids, RemoveSecret(gone)
  PROVE  CredInv'
<1> USE DEF CredInv
<1>1. TypeOK'
  BY DEF RemoveSecret, TypeOK
<1>2. StepsOK' /\ IdsUsed' /\ FreshIsAlone' /\ InsertHasSecret' /\ OneTaker'
  BY DEF RemoveSecret, StepsOK, IdsUsed, FreshIsAlone, InsertHasSecret, OneTaker, Took, Erased
<1>3. ErasedIsGone'
  BY DEF RemoveSecret, ErasedIsGone
<1>4. MetadataHasSecret' /\ NoOrphanedSecret' /\ DoneIsAudited'
  BY DEF RemoveSecret, MetadataHasSecret, NoOrphanedSecret, DoneIsAudited, Working
<1> QED BY <1>1, <1>2, <1>3, <1>4

LEMMA StutterPreserves ==
  ASSUME CredInv, UNCHANGED vars
  PROVE  CredInv'
BY DEF vars, CredInv, TypeOK, StepsOK, IdsUsed, FreshIsAlone, InsertHasSecret, ErasedIsGone,
       OneTaker, Took, Erased, MetadataHasSecret, NoOrphanedSecret, DoneIsAudited, Working

LEMMA NextPreserves == CredInv /\ [Next]_vars => CredInv'
<1> SUFFICES ASSUME CredInv, [Next]_vars PROVE CredInv' OBVIOUS
<1>1. ASSUME NEW t \in Threads, OnlyCall(t), CallSteps(t) PROVE CredInv'
  BY <1>1, TypesPreserved, FreshPreserved, ErasedPreserved, PromisesPreserved DEF CredInv
<1>2. TypeOK
  BY DEF CredInv
<1>3. ASSUME NEW t \in Threads, BeginAdd(t) \/ Refuse(t) \/ Step(t) PROVE CredInv'
  BY <1>1, <1>2, <1>3, CallShape
<1>4. ASSUME NEW t \in Threads, \E op \in {"delete", "health"}, id \in Ids : Begin(t, op, id)
      PROVE  CredInv'
  BY <1>1, <1>2, <1>4, CallShape
<1> QED BY <1>3, <1>4, RestartPreserves, RemovalPreserves, StutterPreserves DEF Next

LEMMA CredInvariant == Spec => []CredInv
<1>1. Init => CredInv
  BY InitEstablishes
<1>2. CredInv /\ [Next]_vars => CredInv'
  BY NextPreserves
<1> QED BY <1>1, <1>2, PTL DEF Spec
-----------------------------------------------------------------------------
\* Every variable of the credential store keeps its type.
THEOREM StoreTypes == Spec => []TypeOK
<1>1. CredInv => TypeOK
  BY DEF CredInv
<1> QED BY <1>1, CredInvariant, PTL

\* Registered metadata has its secret: add writes the keychain first, delete erases
\* it first, and no delete reaches an id that add has not registered.
THEOREM MetadataIsBacked == Spec => []MetadataHasSecret
<1>1. CredInv => MetadataHasSecret
  BY DEF CredInv
<1> QED BY <1>1, CredInvariant, PTL

\* A secret in the keychain can be reached from its metadata: RemoveMeta runs only
\* after the secret is erased, and nothing stores it again.
THEOREM SecretsAreReachable == Spec => []NoOrphanedSecret
<1>1. CredInv => NoOrphanedSecret
  BY DEF CredInv
<1> QED BY <1>1, CredInvariant, PTL

\* What is reported as done is audited: AppendAudit is the last step of each command.
THEOREM ReportsAreAudited == Spec => []DoneIsAudited
<1>1. CredInv => DoneIsAudited
  BY DEF CredInv
<1> QED BY <1>1, CredInvariant, PTL

\* Of two deletes that passed the check of the map together, DeleteSecret lets only
\* one through, so only one reports success, in whatever order they run.
THEOREM DeletesAreExclusive == Spec => []OneDeleteWins
<1>1. CredInv => OneDeleteWins
  <2>1. ASSUME OneTaker, TypeOK, NEW t \in Threads, NEW u \in Threads, t # u,
               outcome[t].op = "delete", outcome[u].op = "delete",
               outcome[t].id = outcome[u].id, outcome[t].res = "ok", outcome[u].res = "ok",
               outcome[t].id \in Ids
        PROVE  FALSE
    BY <2>1 DEF OneTaker, Took
  <2>2. ASSUME DoneIsAudited, TypeOK, NEW t \in Threads, outcome[t].res = "ok"
        PROVE  outcome[t].id \in Ids
    BY <2>2 DEF DoneIsAudited, TypeOK
  <2> QED BY <2>1, <2>2 DEF CredInv, OneDeleteWins
<1> QED BY <1>1, CredInvariant, PTL

\* A deleted credential does not come back: an id whose delete is in the trail is in
\* neither store after any later step.
THEOREM DeletionsLast == Spec => DeletedStaysDeleted
<1>1. CredInv /\ CredInv' /\ [Next]_vars =>
        [\A id \in Ids : <<"delete", id>> \in trail => id \notin meta' /\ id \notin keychain']_vars
  <2> SUFFICES ASSUME CredInv, CredInv', [Next]_vars, NEW id \in Ids, <<"delete", id>> \in trail
               PROVE  id \notin meta' /\ id \notin keychain'
    OBVIOUS
  <2>1. trail \subseteq trail'
    <3>1. ASSUME NEW t \in Threads, CallSteps(t) PROVE trail \subseteq trail'
      BY <3>1, DataSteps
    <3>2. TypeOK
      BY DEF CredInv
    <3> QED BY <3>1, <3>2, CallShape DEF Next, Restart, RemoveSecret, vars
  <2> QED BY <2>1 DEF CredInv, ErasedIsGone
<1> QED BY <1>1, CredInvariant, PTL DEF Spec, DeletedStaysDeleted
=============================================================================
