-------------------------- MODULE IndexStoreProofs --------------------------
(***************************************************************************)
(* Proofs about IndexStore for every set of threads and locations, every   *)
(* policy and every bound.                                                 *)
(***************************************************************************)
EXTENDS IndexStore, TLAPS
-----------------------------------------------------------------------------
(* The limits: what a token bucket guarantees for every policy *)


\* What is left in a bucket and what was let through since any earlier call
\* are together within the burst and what the rate has earned since.
Budget ==
  \A c \in Limited : \A i \in DOMAIN grants[c] :
    bucket[c].tokens + (Len(grants[c]) - i + 1) * Token
      <= Capacity(c) + PerMinute[c] * (bucket[c].last - grants[c][i])

LimitsInv == LimitsTypeOK /\ Budget /\ RateHolds

LEMMA LimitsInitHolds == LimitsInit => LimitsInv
<1> SUFFICES ASSUME LimitsInit PROVE LimitsInv OBVIOUS
<1>1. ASSUME NEW c \in Limited PROVE Capacity(c) \in Nat
  BY PolicyAssumption DEF Capacity, Token
<1>2. bucket \in [Limited -> [tokens: Nat, last: Nat]]
  BY <1>1 DEF LimitsInit
<1>3. grants \in [Limited -> Seq(Nat)] /\ \A c \in Limited : grants[c] = <<>>
  BY DEF LimitsInit
<1>4. ASSUME NEW c \in Limited PROVE DOMAIN grants[c] = {}
  <2>1. grants[c] \in Seq(Nat) /\ Len(grants[c]) = 0
    BY <1>3
  <2>2. DOMAIN grants[c] = 1..Len(grants[c])
    BY <2>1
  <2> QED BY <2>1, <2>2
<1>5. LimitsTypeOK
  <2>1. \A c \in Limited : bucket[c].tokens <= Capacity(c) /\ bucket[c].last <= now
    <3> SUFFICES ASSUME NEW c \in Limited
                 PROVE  bucket[c].tokens <= Capacity(c) /\ bucket[c].last <= now
      OBVIOUS
    <3>1. bucket[c] = [tokens |-> Capacity(c), last |-> 0] /\ now = 0
      BY DEF LimitsInit
    <3> QED BY <1>1, <3>1
  <2>2. now \in 0..MaxTime
    BY ClockAssumption DEF LimitsInit
  <2>3. inFlight \in BOOLEAN
    BY DEF LimitsInit
  <2> QED BY <1>2, <1>3, <2>1, <2>2, <2>3 DEF LimitsTypeOK
<1> QED BY <1>4, <1>5 DEF LimitsInv, Budget, RateHolds

\* The refill takes the time since the last one into account and never goes
\* above the burst.
LEMMA RefillBounds ==
  ASSUME LimitsTypeOK, NEW c \in Limited
  PROVE  /\ Refilled(c) \in Nat
         /\ Refilled(c) <= Capacity(c)
         /\ Refilled(c) <= bucket[c].tokens + PerMinute[c] * (now - bucket[c].last)
         /\ Capacity(c) \in Nat
<1>1. PerMinute[c] \in Nat /\ Capacity(c) \in Nat
  BY PolicyAssumption DEF Capacity, Token
<1>2. bucket[c].tokens \in Nat /\ bucket[c].last \in Nat /\ now \in Nat /\ bucket[c].last <= now
  BY ClockAssumption DEF LimitsTypeOK
<1>3. now - bucket[c].last \in Nat
  BY <1>2
<1>4. PerMinute[c] * (now - bucket[c].last) \in Nat
  BY <1>1, <1>3
<1> QED BY <1>1, <1>2, <1>4 DEF Refilled, Lesser

\* The budget at the time of a refill, before a token is taken.
LEMMA RefillKeepsBudget ==
  ASSUME LimitsTypeOK, Budget, NEW c \in Limited, NEW i \in DOMAIN grants[c]
  PROVE  Refilled(c) + (Len(grants[c]) - i + 1) * Token
           <= Capacity(c) + PerMinute[c] * (now - grants[c][i])
<1> DEFINE tokens == bucket[c].tokens
           last == bucket[c].last
           rate == PerMinute[c]
           n == Len(grants[c])
           g == grants[c][i]
<1>1. rate \in Nat /\ tokens \in Nat /\ last \in Nat /\ now \in Nat
  BY PolicyAssumption, ClockAssumption DEF LimitsTypeOK
<1>2. grants[c] \in Seq(Nat) /\ n \in Nat /\ i \in Nat /\ g \in Nat
  BY DEF LimitsTypeOK
<1>3. tokens + (n - i + 1) * Token <= Capacity(c) + rate * (last - g)
  BY DEF Budget
<1>4. Refilled(c) <= tokens + rate * (now - last) /\ Refilled(c) \in Nat /\ Capacity(c) \in Nat
  BY RefillBounds
<1>5. rate * (now - last) + rate * (last - g) = rate * (now - g)
  <2> HIDE DEF rate, last, g
  <2> QED BY <1>1, <1>2
<1> DEFINE earned == rate * (now - last)
           before == rate * (last - g)
           whole == rate * (now - g)
           used == (n - i + 1) * Token
<1>6. earned \in Int /\ before \in Int /\ whole \in Int
  <2> HIDE DEF rate, last, g
  <2> QED BY <1>1, <1>2
<1>7. used \in Int
  BY <1>2 DEF Token
<1>8. tokens + used <= Capacity(c) + before /\ Refilled(c) <= tokens + earned
      /\ earned + before = whole
  BY <1>3, <1>4, <1>5
<1>9. Refilled(c) + used <= Capacity(c) + whole
  <2> HIDE DEF tokens, earned, before, whole, used
  <2> QED BY <1>1, <1>4, <1>6, <1>7, <1>8
<1> QED BY <1>9

\* A call that is let through.
LEMMA AllowKeeps ==
  ASSUME LimitsInv, NEW c \in Limited, Allow(c), UNCHANGED now, inFlight' \in BOOLEAN
  PROVE  LimitsInv'
<1> USE DEF LimitsInv
<1>1. Refilled(c) \in Nat /\ Refilled(c) <= Capacity(c) /\ Refilled(c) >= Token /\ Capacity(c) \in Nat
  BY RefillBounds DEF Allow
<1>2. now \in Nat /\ now' = now
  BY ClockAssumption DEF LimitsTypeOK
<1>3. /\ bucket' = [bucket EXCEPT ![c] = [tokens |-> Refilled(c) - Token, last |-> now]]
      /\ grants' = [grants EXCEPT ![c] = Append(@, now)]
  BY DEF Allow
<1>4. Refilled(c) - Token \in Nat /\ Refilled(c) - Token <= Capacity(c)
  BY <1>1 DEF Token
<1>5. bucket'[c] = [tokens |-> Refilled(c) - Token, last |-> now]
  BY <1>3 DEF LimitsTypeOK
<1>6. grants'[c] = Append(grants[c], now) /\ grants[c] \in Seq(Nat)
  BY <1>3 DEF LimitsTypeOK
<1>7. \A d \in Limited : d # c => bucket'[d] = bucket[d] /\ grants'[d] = grants[d]
  BY <1>3 DEF LimitsTypeOK
<1>8. LimitsTypeOK'
  <2>1. bucket' \in [Limited -> [tokens: Nat, last: Nat]]
    BY <1>2, <1>3, <1>4 DEF LimitsTypeOK
  <2>2. grants' \in [Limited -> Seq(Nat)]
    BY <1>2, <1>3, <1>6 DEF LimitsTypeOK
  <2>3. \A d \in Limited : bucket'[d].tokens <= Capacity(d) /\ bucket'[d].last <= now
    <3> SUFFICES ASSUME NEW d \in Limited
                 PROVE  bucket'[d].tokens <= Capacity(d) /\ bucket'[d].last <= now
      OBVIOUS
    <3>1. CASE d = c
      BY <1>2, <1>4, <1>5, <3>1
    <3>2. CASE d # c
      BY <1>7, <3>2 DEF LimitsTypeOK
    <3> QED BY <3>1, <3>2
  <2> QED BY <1>2, <2>1, <2>2, <2>3 DEF LimitsTypeOK, Capacity
<1>9. Len(grants'[c]) = Len(grants[c]) + 1 /\ Len(grants[c]) \in Nat
      /\ DOMAIN grants'[c] = 1..(Len(grants[c]) + 1) /\ DOMAIN grants[c] = 1..Len(grants[c])
      /\ grants'[c][Len(grants[c]) + 1] = now
      /\ \A i \in DOMAIN grants[c] : grants'[c][i] = grants[c][i] /\ grants[c][i] \in Nat
  BY <1>2, <1>6
<1>10. \A i \in DOMAIN grants'[c] :
         Refilled(c) + (Len(grants[c]) - i + 1) * Token
           <= Capacity(c) + PerMinute[c] * (now - grants'[c][i])
  <2> SUFFICES ASSUME NEW i \in DOMAIN grants'[c]
               PROVE  Refilled(c) + (Len(grants[c]) - i + 1) * Token
                        <= Capacity(c) + PerMinute[c] * (now - grants'[c][i])
    OBVIOUS
  <2>1. CASE i \in DOMAIN grants[c]
    BY <1>9, <2>1, RefillKeepsBudget
  <2>2. CASE i = Len(grants[c]) + 1
    <3>1. PerMinute[c] \in Nat
      BY PolicyAssumption
    <3>2. PerMinute[c] * (now - grants'[c][i]) = 0
      BY <1>2, <1>9, <2>2, <3>1
    <3>3. (Len(grants[c]) - i + 1) * Token = 0
      BY <1>9, <2>2 DEF Token
    <3> QED BY <1>1, <3>2, <3>3
  <2> QED BY <1>9, <2>1, <2>2
<1>11. Budget'
  <2> SUFFICES ASSUME NEW d \in Limited, NEW i \in DOMAIN grants'[d]
               PROVE  bucket'[d].tokens + (Len(grants'[d]) - i + 1) * Token
                        <= Capacity(d) + PerMinute[d] * (bucket'[d].last - grants'[d][i])
    BY DEF Budget, Capacity, Token
  <2>1. CASE d = c
    <3>1. (Len(grants'[c]) - i + 1) * Token = (Len(grants[c]) - i + 1) * Token + Token
      BY <1>9, <2>1 DEF Token
    <3>2. (Len(grants[c]) - i + 1) * Token \in Int
      BY <1>9, <2>1 DEF Token
    <3>3. bucket'[c].tokens + (Len(grants'[c]) - i + 1) * Token
            = Refilled(c) + (Len(grants[c]) - i + 1) * Token
      BY <1>1, <1>5, <3>1, <3>2 DEF Token
    <3> QED BY <1>5, <1>10, <2>1, <3>3
  <2>2. CASE d # c
    BY <1>7, <2>2 DEF Budget
  <2> QED BY <2>1, <2>2
<1>12. RateHolds'
  <2> SUFFICES ASSUME NEW d \in Limited, NEW i \in DOMAIN grants'[d], NEW j \in DOMAIN grants'[d],
                      i <= j
               PROVE  (j - i + 1) * Token
                        <= Capacity(d) + PerMinute[d] * (grants'[d][j] - grants'[d][i])
    BY DEF RateHolds, Capacity, Token
  <2>1. CASE d # c
    BY <1>7, <2>1 DEF RateHolds
  <2>2. CASE d = c /\ j \in DOMAIN grants[c]
    <3>1. i \in DOMAIN grants[c]
      BY <1>9, <2>2
    <3> QED BY <1>9, <2>2, <3>1 DEF RateHolds
  <2>3. CASE d = c /\ j = Len(grants[c]) + 1
    <3>1. Refilled(c) + (Len(grants[c]) - i + 1) * Token
            <= Capacity(c) + PerMinute[c] * (now - grants'[c][i])
      BY <1>10, <2>3
    <3>2. (j - i + 1) * Token = (Len(grants[c]) - i + 1) * Token + Token
      BY <1>9, <2>3 DEF Token
    <3>3. (Len(grants[c]) - i + 1) * Token \in Int
      BY <1>9, <2>3 DEF Token
    <3>4. PerMinute[c] * (now - grants'[c][i]) \in Int
      <4>1. grants'[c][i] \in Nat
        BY <1>2, <1>9, <2>3
      <4>2. PerMinute[c] \in Nat
        BY PolicyAssumption
      <4> HIDE DEF LimitsInv
      <4> QED BY <1>2, <4>1, <4>2
    <3>5. (j - i + 1) * Token <= Capacity(c) + PerMinute[c] * (now - grants'[c][i])
      <4> HIDE DEF LimitsInv
      <4> QED BY <1>1, <3>1, <3>2, <3>3, <3>4 DEF Token
    <3> QED BY <1>9, <2>3, <3>5
  <2> QED BY <1>9, <2>1, <2>2, <2>3
<1> QED BY <1>8, <1>11, <1>12

\* A call that is throttled.
LEMMA ThrottleKeeps ==
  ASSUME LimitsInv, NEW c \in Limited, Throttle(c), UNCHANGED now, inFlight' \in BOOLEAN
  PROVE  LimitsInv'
<1> USE DEF LimitsInv
<1>1. Refilled(c) \in Nat /\ Refilled(c) <= Capacity(c) /\ Capacity(c) \in Nat
  BY RefillBounds
<1>2. now \in Nat /\ now' = now
  BY ClockAssumption DEF LimitsTypeOK
<1>3. /\ bucket' = [bucket EXCEPT ![c] = [tokens |-> Refilled(c), last |-> now]]
      /\ grants' = grants
  BY DEF Throttle
<1>4. bucket'[c] = [tokens |-> Refilled(c), last |-> now]
      /\ \A d \in Limited : d # c => bucket'[d] = bucket[d]
  BY <1>3 DEF LimitsTypeOK
<1>5. LimitsTypeOK'
  BY <1>1, <1>2, <1>3, <1>4 DEF LimitsTypeOK, Capacity
<1>6. Budget'
  <2> SUFFICES ASSUME NEW d \in Limited, NEW i \in DOMAIN grants[d]
               PROVE  bucket'[d].tokens + (Len(grants[d]) - i + 1) * Token
                        <= Capacity(d) + PerMinute[d] * (bucket'[d].last - grants[d][i])
    BY <1>3 DEF Budget, Capacity, Token
  <2>1. CASE d = c
    BY <1>4, <2>1, RefillKeepsBudget
  <2>2. CASE d # c
    BY <1>4, <2>2 DEF Budget
  <2> QED BY <2>1, <2>2
<1>7. RateHolds'
  BY <1>3 DEF RateHolds, Capacity, Token
<1> QED BY <1>5, <1>6, <1>7

\* The clock, and steps that leave the buckets alone.
LEMMA IdleKeeps ==
  ASSUME LimitsInv, UNCHANGED <<bucket, grants>>, now' \in 0..MaxTime, now' >= now,
         inFlight' \in BOOLEAN
  PROVE  LimitsInv'
<1>1. LimitsTypeOK'
  <2>1. \A c \in Limited : bucket[c].last \in Nat /\ bucket[c].last <= now'
    BY ClockAssumption DEF LimitsInv, LimitsTypeOK
  <2> QED BY <2>1 DEF LimitsInv, LimitsTypeOK, Capacity, Token
<1>2. Budget' /\ RateHolds'
  BY DEF LimitsInv, Budget, RateHolds, Capacity, Token
<1> QED BY <1>1, <1>2 DEF LimitsInv
-----------------------------------------------------------------------------
(* The index store *)

\* Which command is at which step, and where its location is already chosen.
JobsOK ==
  \A t \in Threads :
    /\ job[t].at \in {"flight", "target", "directory", "audit"} => job[t].cmd = "initialize"
    /\ job[t].at = "read" => job[t].cmd = "check"
    /\ job[t].at \in {"rate", "probe", "record"} => job[t].cmd \in {"initialize", "check"}
    /\ job[t].at \in {"probe", "record", "directory"} => job[t].uri \in Uris

TypesOK ==
  /\ store \in Stores
  /\ dirs \subseteq Locations
  /\ job \in [Threads -> Jobs]
  /\ verdict \in [uri: Uris, overtaken: BOOLEAN]
  /\ faults \in 0..MaxFaults

\* The inductive invariant; the part about the limits is proved above.
StoreInv == TypesOK /\ JobsOK /\ OneInitialization /\ ResultStands
IndexInv == LimitsInv /\ StoreInv

LEMMA InitEstablishes == Init => IndexInv
<1> SUFFICES ASSUME Init PROVE IndexInv OBVIOUS
<1>1. LimitsInv
  BY LimitsInitHolds DEF Init
<1>2. TypesOK
  <2>1. Idle \in Jobs
    BY DEF Idle, Jobs, Requests
  <2>2. faults \in 0..MaxFaults
    BY FaultsAssumption DEF Init
  <2>3. store \in Stores /\ dirs \subseteq Locations /\ verdict \in [uri: Uris, overtaken: BOOLEAN]
    BY LocationAssumption DEF Init, Stores, Uris, Errors
  <2> QED BY <2>1, <2>2, <2>3 DEF Init, TypesOK
<1>3. \A t \in Threads : job[t].at = "idle" /\ ~Initializing(t)
  BY DEF Init, Idle, Initializing
<1>4. JobsOK /\ ResultStands
  BY <1>3 DEF JobsOK, ResultStands
<1>5. OneInitialization
  BY <1>3 DEF Init, OneInitialization, LimitsInit
<1> QED BY <1>1, <1>2, <1>4, <1>5 DEF IndexInv, StoreInv

\* The limits, step by step.
LEMMA LimitsPreserved ==
  ASSUME IndexInv, [Next]_vars
  PROVE  LimitsInv'
<1> USE DEF IndexInv
<1>1. inFlight \in BOOLEAN /\ now \in 0..MaxTime /\ now \in Nat
  BY ClockAssumption DEF LimitsInv, LimitsTypeOK
<1>2. ASSUME UNCHANGED <<now, bucket, grants>>, inFlight' \in BOOLEAN PROVE LimitsInv'
  BY <1>1, <1>2, IdleKeeps
<1>3. ASSUME UNCHANGED limits PROVE LimitsInv'
  BY <1>1, <1>2, <1>3 DEF limits
<1>4. ASSUME NEW t \in Threads, CheckRate(t) PROVE LimitsInv'
  <2>1. job[t].cmd \in Limited
    BY <1>4, CommandAssumption DEF CheckRate, StoreInv, JobsOK
  <2>2. inFlight' \in BOOLEAN /\ now' = now
    BY <1>1, <1>4 DEF CheckRate
  <2>3. Allow(job[t].cmd) \/ Throttle(job[t].cmd)
    BY <1>4 DEF CheckRate
  <2> QED BY <2>1, <2>2, <2>3, AllowKeeps, ThrottleKeeps
<1>5. ASSUME NEW t \in Threads, TryAcquire(t) \/ FinishInitialize(t) PROVE LimitsInv'
  BY <1>1, <1>2, <1>5 DEF TryAcquire, FinishInitialize
<1>6. ASSUME NEW s \in Ticks, Advance(s) PROVE LimitsInv'
  <2>1. now + s <= MaxTime /\ now' = now + s /\ UNCHANGED <<bucket, grants, inFlight>>
    BY <1>6 DEF Advance, Elapse
  <2>2. s \in Nat /\ MaxTime \in Nat
    BY ClockAssumption
  <2>3. now' \in 0..MaxTime /\ now' >= now
    BY <1>1, <2>1, <2>2
  <2> QED BY <1>1, <2>1, <2>3, IdleKeeps
<1>7. ASSUME NEW t \in Threads,
             ChooseTarget(t) \/ CreateDirectory(t) \/ Probe(t) \/ RecordInitialize(t)
               \/ ReadStore(t) \/ RecordCheck(t)
      PROVE  LimitsInv'
  BY <1>3, <1>7 DEF ChooseTarget, CreateDirectory, Probe, RecordInitialize, ReadStore, RecordCheck
<1>8. ASSUME NEW t \in Threads, NEW cmd, NEW at, NEW r, Begin(t, cmd, at, r) PROVE LimitsInv'
  BY <1>3, <1>8 DEF Begin
<1>9. CASE GetHealth \/ \E l \in Locations : RemoveDirectory(l)
  BY <1>3, <1>9 DEF GetHealth, RemoveDirectory
<1>10. CASE UNCHANGED vars
  BY <1>3, <1>10 DEF vars, limits
<1> QED BY <1>4, <1>5, <1>6, <1>7, <1>8, <1>9, <1>10 DEF Next, Step

\* A step that leaves the flag and the store alone and changes one call, neither
\* into nor out of initialization and not to a result.
LEMMA QuietStep ==
  ASSUME OneInitialization, ResultStands, job \in [Threads -> Jobs], NEW t \in Threads,
         NEW j \in Jobs, job' = [job EXCEPT ![t] = j], UNCHANGED <<inFlight>>,
         store'.uri = store.uri, store'.initialized = store.initialized,
         (j.cmd = "initialize" /\ j.at \notin {"idle", "flight"}) <=> Initializing(t),
         ~(j.cmd = "initialize" /\ j.at = "audit" /\ j.res = "ok")
  PROVE  OneInitialization' /\ ResultStands'
<1>1. \A u \in Threads : job'[u] = IF u = t THEN j ELSE job[u]
  OBVIOUS
<1>2. \A u \in Threads : Initializing(u)' <=> Initializing(u)
  BY <1>1 DEF Initializing
<1>3. OneInitialization'
  BY <1>2 DEF OneInitialization
<1>4. ResultStands'
  BY <1>1 DEF ResultStands
<1> QED BY <1>3, <1>4

\* Types and positions, step by step.
LEMMA TypesPreserved ==
  ASSUME IndexInv, [Next]_vars
  PROVE  TypesOK' /\ JobsOK'
<1> USE DEF IndexInv, StoreInv
<1>1. Idle \in Jobs /\ Idle.at = "idle"
  BY DEF Idle, Jobs, Requests
<1>2. ASSUME NEW t \in Threads, NEW j \in Jobs, job' = [job EXCEPT ![t] = j],
             /\ j.at \in {"flight", "target", "directory", "audit"} => j.cmd = "initialize"
             /\ j.at = "read" => j.cmd = "check"
             /\ j.at \in {"rate", "probe", "record"} => j.cmd \in {"initialize", "check"}
             /\ j.at \in {"probe", "record", "directory"} => j.uri \in Uris
      PROVE  job' \in [Threads -> Jobs] /\ JobsOK'
  BY <1>2 DEF TypesOK, JobsOK
<1>3. ASSUME NEW t \in Threads, Return(t) PROVE job' \in [Threads -> Jobs] /\ JobsOK'
  BY <1>1, <1>2, <1>3 DEF Return
<1>4. \A t \in Threads : job[t] \in Jobs
  BY DEF TypesOK
<1>5. ASSUME NEW t \in Threads, NEW cmd \in {"initialize", "check"}, NEW at \in {"flight", "rate"},
             NEW r \in Requests, at = "flight" => cmd = "initialize", Begin(t, cmd, at, r)
      PROVE  TypesOK' /\ JobsOK'
  <2> DEFINE j == [Idle EXCEPT !.cmd = cmd, !.at = at, !.uri = r]
  <2>1. j \in Jobs /\ j.cmd = cmd /\ j.at = at
    BY DEF Idle, Jobs
  <2>2. job' = [job EXCEPT ![t] = j]
    BY <1>5 DEF Begin
  <2>3. job' \in [Threads -> Jobs] /\ JobsOK'
    <3> HIDE DEF j
    <3> QED BY <1>2, <1>5, <2>1, <2>2
  <2> QED BY <1>5, <2>3 DEF Begin, TypesOK
<1>6. ASSUME NEW t \in Threads, TryAcquire(t) PROVE TypesOK' /\ JobsOK'
  <2>1. CASE Move(t, "rate")
    <3>1. job' = [job EXCEPT ![t] = [job[t] EXCEPT !.at = "rate"]]
      BY <2>1, <1>4 DEF Move, TypesOK
    <3>2. [job[t] EXCEPT !.at = "rate"] \in Jobs /\ job[t].cmd = "initialize"
      BY <1>4, <1>6 DEF Jobs, TryAcquire, JobsOK
    <3>3. job' \in [Threads -> Jobs] /\ JobsOK'
      BY <1>2, <1>4, <3>1, <3>2 DEF Jobs
    <3> QED BY <1>6, <3>3 DEF TryAcquire, TypesOK
  <2>2. CASE Return(t)
    BY <1>3, <1>6, <2>2 DEF TryAcquire, TypesOK
  <2> QED BY <1>6, <2>1, <2>2 DEF TryAcquire
<1>7. ASSUME NEW t \in Threads, CheckRate(t) PROVE TypesOK' /\ JobsOK'
  <2> DEFINE at == IF job[t].cmd = "check" THEN "read" ELSE "target"
  <2>1. CASE Move(t, at)
    <3>1. job' = [job EXCEPT ![t] = [job[t] EXCEPT !.at = at]]
      BY <2>1, <1>4 DEF Move, TypesOK
    <3>2. job[t].cmd \in {"initialize", "check"}
      BY <1>7 DEF CheckRate, JobsOK
    <3>3. [job[t] EXCEPT !.at = at] \in Jobs
      BY <1>4 DEF Jobs
    <3>4. job' \in [Threads -> Jobs] /\ JobsOK'
      BY <1>2, <1>4, <3>1, <3>2, <3>3 DEF Jobs
    <3> QED BY <1>7, <3>4 DEF CheckRate, TypesOK
  <2>2. CASE Return(t)
    BY <1>3, <1>7, <2>2 DEF CheckRate, TypesOK
  <2> QED BY <1>7, <2>1, <2>2 DEF CheckRate
<1>8. ASSUME NEW t \in Threads, ChooseTarget(t) PROVE TypesOK' /\ JobsOK'
  <2>1. job[t].cmd = "initialize"
    BY <1>8 DEF ChooseTarget, JobsOK
  <2>2. CASE job[t].uri = "refused"
    <3>1. job' = [job EXCEPT ![t] = [job[t] EXCEPT !.at = "audit", !.res = "invalid"]]
      BY <1>8, <2>2 DEF ChooseTarget
    <3>2. [job[t] EXCEPT !.at = "audit", !.res = "invalid"] \in Jobs
      BY <1>4 DEF Jobs
    <3>3. job' \in [Threads -> Jobs] /\ JobsOK'
      BY <1>2, <1>4, <2>1, <3>1, <3>2 DEF Jobs
    <3> QED BY <1>8, <3>3 DEF ChooseTarget, TypesOK
  <2>3. CASE job[t].uri # "refused"
    <3>1. job' = [job EXCEPT ![t] = [job[t] EXCEPT !.at = "directory", !.uri = Target(job[t].uri)]]
      BY <1>8, <2>3 DEF ChooseTarget
    <3>2. Target(job[t].uri) \in Uris
      <4>1. job[t].uri \in Requests \cup Uris /\ store.uri \in Uris
        BY <1>4 DEF Jobs, TypesOK, Stores
      <4> QED BY <2>3, <4>1 DEF Target, Uris, Requests
    <3>3. [job[t] EXCEPT !.at = "directory", !.uri = Target(job[t].uri)] \in Jobs
      BY <1>4, <3>2 DEF Jobs
    <3>4. job' \in [Threads -> Jobs] /\ JobsOK'
      BY <1>2, <1>4, <2>1, <3>1, <3>2, <3>3 DEF Jobs
    <3> QED BY <1>8, <3>4 DEF ChooseTarget, TypesOK
  <2> QED BY <2>2, <2>3
<1>9. ASSUME NEW t \in Threads, CreateDirectory(t) PROVE TypesOK' /\ JobsOK'
  <2>1. job[t].cmd = "initialize" /\ job[t].uri \in Uris
    BY <1>9 DEF CreateDirectory, JobsOK
  <2>2. CASE Move(t, "probe") /\ dirs' = dirs \cup ({job[t].uri} \ {Empty}) /\ UNCHANGED faults
    <3>1. job' = [job EXCEPT ![t] = [job[t] EXCEPT !.at = "probe"]]
      BY <2>2 DEF Move
    <3>2. [job[t] EXCEPT !.at = "probe"] \in Jobs
      BY <1>4 DEF Jobs
    <3>3. job' \in [Threads -> Jobs] /\ JobsOK'
      BY <1>2, <1>4, <2>1, <3>1, <3>2 DEF Jobs
    <3>4. dirs' \subseteq Locations
      BY <2>1, <2>2 DEF TypesOK, Uris
    <3> QED BY <1>9, <2>2, <3>3, <3>4 DEF CreateDirectory, TypesOK
  <2>3. CASE Fault /\ job' = [job EXCEPT ![t].at = "audit", ![t].res = "storage"] /\ UNCHANGED dirs
    <3>1. job' = [job EXCEPT ![t] = [job[t] EXCEPT !.at = "audit", !.res = "storage"]]
      BY <1>4, <2>3 DEF TypesOK, Jobs
    <3>2. [job[t] EXCEPT !.at = "audit", !.res = "storage"] \in Jobs
      BY <1>4 DEF Jobs
    <3>3. job' \in [Threads -> Jobs] /\ JobsOK'
      BY <1>2, <1>4, <2>1, <3>1, <3>2 DEF Jobs
    <3>4. faults' \in 0..MaxFaults
      BY <2>3, FaultsAssumption DEF Fault, TypesOK
    <3> QED BY <1>9, <2>3, <3>3, <3>4 DEF CreateDirectory, TypesOK
  <2> QED BY <1>9, <2>2, <2>3 DEF CreateDirectory
<1>10. ASSUME NEW t \in Threads, Probe(t) PROVE TypesOK' /\ JobsOK'
  <2> DEFINE res == IF job[t].uri \in dirs THEN "ok" ELSE "storage"
  <2>1. job' = [job EXCEPT ![t] = [job[t] EXCEPT !.at = "record", !.res = res]]
    BY <1>4, <1>10 DEF Probe, TypesOK, Jobs
  <2>2. [job[t] EXCEPT !.at = "record", !.res = res] \in Jobs
    BY <1>4 DEF Jobs
  <2>3. job[t].cmd \in {"initialize", "check"} /\ job[t].uri \in Uris
    BY <1>10 DEF Probe, JobsOK
  <2>4. job' \in [Threads -> Jobs] /\ JobsOK'
    BY <1>2, <1>4, <2>1, <2>2, <2>3 DEF Jobs
  <2> QED BY <1>10, <2>4 DEF Probe, TypesOK
<1>11. ASSUME NEW t \in Threads, RecordInitialize(t) PROVE TypesOK' /\ JobsOK'
  <2>1. job[t].cmd = "initialize" /\ job[t].uri \in Uris
    BY <1>11 DEF RecordInitialize, JobsOK
  <2>2. Overtaken \in [Threads -> Jobs]
        /\ \A u \in Threads : /\ Overtaken[u].cmd = job[u].cmd
                              /\ Overtaken[u].at = job[u].at
                              /\ Overtaken[u].uri = job[u].uri
                              /\ Overtaken[u].res = job[u].res
    <3> SUFFICES ASSUME NEW u \in Threads
                 PROVE  /\ Overtaken[u] \in Jobs
                        /\ Overtaken[u].cmd = job[u].cmd /\ Overtaken[u].at = job[u].at
                        /\ Overtaken[u].uri = job[u].uri /\ Overtaken[u].res = job[u].res
      BY DEF Overtaken
    <3> QED BY <1>4 DEF Overtaken, Jobs
  <2>3. job' = [Overtaken EXCEPT ![t].at = "audit"]
    BY <1>11 DEF RecordInitialize
  <2>4. job' \in [Threads -> Jobs]
    BY <2>2, <2>3 DEF Jobs
  <2>5. JobsOK'
    BY <2>1, <2>2, <2>3 DEF JobsOK, Jobs
  <2>6. store' \in Stores
    BY <1>11, <2>1 DEF RecordInitialize, Stores, Errors
  <2>7. verdict' \in [uri: Uris, overtaken: BOOLEAN]
    BY <1>11, <2>1 DEF RecordInitialize
  <2> QED BY <1>11, <2>4, <2>5, <2>6, <2>7 DEF RecordInitialize, TypesOK
<1>12. ASSUME NEW t \in Threads, FinishInitialize(t) PROVE TypesOK' /\ JobsOK'
  BY <1>3, <1>12 DEF FinishInitialize, TypesOK
<1>13. ASSUME NEW t \in Threads, ReadStore(t) PROVE TypesOK' /\ JobsOK'
  <2> DEFINE j == [job[t] EXCEPT !.at = "probe", !.uri = store.uri, !.initialized = store.initialized]
  <2>1. job' = [job EXCEPT ![t] = j]
    BY <1>4, <1>13 DEF ReadStore, TypesOK, Jobs
  <2>2. j \in Jobs /\ j.at = "probe" /\ j.uri = store.uri /\ j.cmd = job[t].cmd /\ store.uri \in Uris
    BY <1>4 DEF Jobs, TypesOK, Stores
  <2>3. job[t].cmd = "check"
    BY <1>13 DEF ReadStore, JobsOK
  <2>4. job' \in [Threads -> Jobs] /\ JobsOK'
    <3> HIDE DEF j
    <3> QED BY <1>2, <2>1, <2>2, <2>3
  <2> QED BY <1>13, <2>4 DEF ReadStore, TypesOK
<1>14. ASSUME NEW t \in Threads, RecordCheck(t) PROVE TypesOK' /\ JobsOK'
  <2>1. job' \in [Threads -> Jobs] /\ JobsOK'
    BY <1>3, <1>14 DEF RecordCheck
  <2>2. store' \in Stores
    BY <1>14 DEF RecordCheck, TypesOK, Stores, Errors, CheckError
  <2>3. verdict' \in [uri: Uris, overtaken: BOOLEAN]
    BY <1>4, <1>14 DEF RecordCheck, JobsOK, Jobs
  <2> QED BY <1>14, <2>1, <2>2, <2>3 DEF RecordCheck, TypesOK
<1>15. CASE GetHealth
  BY <1>15 DEF GetHealth, TypesOK, JobsOK, Stores
<1>16. ASSUME NEW l \in Locations, RemoveDirectory(l) PROVE TypesOK' /\ JobsOK'
  BY <1>16, FaultsAssumption DEF RemoveDirectory, Fault, TypesOK, JobsOK
<1>17. ASSUME NEW s \in Ticks, Advance(s) PROVE TypesOK' /\ JobsOK'
  BY <1>17 DEF Advance, TypesOK, JobsOK
<1>18. CASE UNCHANGED vars
  BY <1>18 DEF vars, TypesOK, JobsOK
<1>19. "none" \in Requests
  BY DEF Requests
<1> QED
  BY <1>5, <1>6, <1>7, <1>8, <1>9, <1>10, <1>11, <1>12, <1>13, <1>14, <1>15, <1>16, <1>17, <1>18,
     <1>19 DEF Next, Step

\* The flag and the results, step by step: only the call that finds the flag
\* down starts an initialization, and only an initialization lowers it.
LEMMA FlightPreserved ==
  ASSUME IndexInv, [Next]_vars
  PROVE  OneInitialization' /\ ResultStands'
<1> USE DEF IndexInv, StoreInv
<1>1. /\ Idle \in Jobs
      /\ Idle.at = "idle"
      /\ job \in [Threads -> Jobs]
      /\ \A t \in Threads : job[t] \in Jobs
      /\ inFlight \in BOOLEAN
  BY DEF Idle, Jobs, Requests, TypesOK, LimitsInv, LimitsTypeOK
\* A call that changes its place within or outside initialization, no result yet.
<1>2. ASSUME NEW t \in Threads, NEW j \in Jobs, job' = [job EXCEPT ![t] = j], UNCHANGED inFlight,
             store'.uri = store.uri, store'.initialized = store.initialized,
             (j.cmd = "initialize" /\ j.at \notin {"idle", "flight"}) <=> Initializing(t),
             ~(j.cmd = "initialize" /\ j.at = "audit" /\ j.res = "ok")
      PROVE  OneInitialization' /\ ResultStands'
  BY <1>1, <1>2, QuietStep
<1>3. ASSUME NEW t \in Threads, Return(t), ~Initializing(t), UNCHANGED inFlight,
             store'.uri = store.uri, store'.initialized = store.initialized
      PROVE  OneInitialization' /\ ResultStands'
  BY <1>1, <1>2, <1>3 DEF Return
\* The only initialization returns and the flag comes down.
<1>4. ASSUME NEW t \in Threads, Return(t), Initializing(t), inFlight' = FALSE
      PROVE  OneInitialization' /\ ResultStands'
  <2>1. \A u \in Threads : u # t => ~Initializing(u) /\ job'[u] = job[u]
    BY <1>4 DEF OneInitialization, Return
  <2>2. job'[t].at = "idle"
    BY <1>1, <1>4 DEF Return
  <2>3. \A u \in Threads : ~Initializing(u)'
    BY <2>1, <2>2 DEF Initializing
  <2>4. ResultStands'
    BY <2>3 DEF ResultStands, Initializing
  <2> QED BY <1>4, <2>3, <2>4 DEF OneInitialization
<1>5. ASSUME NEW t \in Threads, NEW cmd \in {"initialize", "check"}, NEW at \in {"flight", "rate"},
             NEW r \in Requests, cmd = "initialize" => at = "flight", Begin(t, cmd, at, r)
      PROVE  OneInitialization' /\ ResultStands'
  <2> DEFINE j == [Idle EXCEPT !.cmd = cmd, !.at = at, !.uri = r]
  <2>1. j \in Jobs /\ j.cmd = cmd /\ j.at = at
    BY DEF Idle, Jobs
  <2>2. job' = [job EXCEPT ![t] = j] /\ UNCHANGED <<inFlight, store>> /\ ~Initializing(t)
    BY <1>1, <1>5 DEF Begin, limits, Initializing
  <2> HIDE DEF j
  <2> QED BY <1>2, <1>5, <2>1, <2>2
<1>6. ASSUME NEW t \in Threads, TryAcquire(t) PROVE OneInitialization' /\ ResultStands'
  <2>1. CASE ~inFlight /\ inFlight' = TRUE /\ Move(t, "rate")
    <3>1. \A u \in Threads : ~Initializing(u)
      BY <2>1 DEF OneInitialization
    <3>2. job[t].cmd = "initialize"
      BY <1>6 DEF TryAcquire, JobsOK
    <3>3. /\ job'[t].cmd = "initialize" /\ job'[t].at = "rate"
          /\ \A u \in Threads : u # t => job'[u] = job[u]
      BY <1>1, <2>1, <3>2 DEF Move, Jobs
    <3>4. \A u \in Threads : Initializing(u)' <=> u = t
      BY <3>1, <3>3 DEF Initializing
    <3>5. ResultStands'
      BY <3>3, <3>4 DEF ResultStands, Initializing
    <3> QED BY <2>1, <3>4, <3>5 DEF OneInitialization
  <2>2. CASE Return(t) /\ UNCHANGED inFlight
    BY <1>3, <1>6, <2>2 DEF TryAcquire, Initializing
  <2> QED BY <1>6, <2>1, <2>2 DEF TryAcquire
<1>7. ASSUME NEW t \in Threads, CheckRate(t) PROVE OneInitialization' /\ ResultStands'
  <2> DEFINE at == IF job[t].cmd = "check" THEN "read" ELSE "target"
  <2>1. job[t].cmd \in {"initialize", "check"} /\ job[t].at = "rate" /\ UNCHANGED store
    BY <1>7 DEF CheckRate, JobsOK
  <2>2. CASE Move(t, at) /\ UNCHANGED inFlight
    <3>1. job' = [job EXCEPT ![t] = [job[t] EXCEPT !.at = at]]
      BY <2>2 DEF Move
    <3>2. [job[t] EXCEPT !.at = at] \in Jobs
      BY <1>1 DEF Jobs
    <3> QED BY <1>1, <1>2, <2>1, <2>2, <3>1, <3>2 DEF Jobs, Initializing
  <2>3. CASE Return(t) /\ inFlight' = (inFlight /\ job[t].cmd # "initialize")
    <3>1. CASE job[t].cmd = "initialize"
      <4>1. Initializing(t) /\ inFlight' = FALSE
        BY <2>1, <2>3, <3>1 DEF Initializing
      <4> QED BY <1>4, <2>3, <4>1
    <3>2. CASE job[t].cmd # "initialize"
      <4>1. ~Initializing(t) /\ UNCHANGED inFlight
        BY <1>1, <2>3, <3>2 DEF Initializing
      <4> QED BY <1>3, <2>1, <2>3, <4>1
    <3> QED BY <3>1, <3>2
  <2> QED BY <1>7, <2>2, <2>3 DEF CheckRate
<1>8. ASSUME NEW t \in Threads, NEW j \in Jobs, job' = [job EXCEPT ![t] = j],
             UNCHANGED <<inFlight, store>>, j.cmd = job[t].cmd,
             job[t].at \notin {"idle", "flight"}, j.at \notin {"idle", "flight"},
             ~(j.at = "audit" /\ j.res = "ok")
      PROVE  OneInitialization' /\ ResultStands'
  BY <1>2, <1>8 DEF Initializing
<1>9. ASSUME NEW t \in Threads, ChooseTarget(t) PROVE OneInitialization' /\ ResultStands'
  <2>1. \A j \in Jobs : (/\ job' = [job EXCEPT ![t] = j] /\ j.cmd = job[t].cmd
                         /\ ((j.at = "audit" /\ j.res = "invalid") \/ j.at = "directory"))
                        => OneInitialization' /\ ResultStands'
    BY <1>8, <1>9 DEF ChooseTarget, limits
  <2>2. CASE job[t].uri = "refused"
    <3>1. job' = [job EXCEPT ![t] = [job[t] EXCEPT !.at = "audit", !.res = "invalid"]]
      BY <1>9, <2>2 DEF ChooseTarget
    <3>2. [job[t] EXCEPT !.at = "audit", !.res = "invalid"] \in Jobs
      BY <1>1 DEF Jobs
    <3> QED BY <1>1, <2>1, <3>1, <3>2 DEF Jobs
  <2>3. CASE job[t].uri # "refused"
    <3>1. job' = [job EXCEPT ![t] = [job[t] EXCEPT !.at = "directory", !.uri = Target(job[t].uri)]]
      BY <1>9, <2>3 DEF ChooseTarget
    <3>2. Target(job[t].uri) \in Uris
      <4>1. job[t].uri \in Requests \cup Uris /\ store.uri \in Uris
        BY <1>1 DEF Jobs, TypesOK, Stores
      <4> QED BY <2>3, <4>1 DEF Target, Uris, Requests
    <3>3. [job[t] EXCEPT !.at = "directory", !.uri = Target(job[t].uri)] \in Jobs
      BY <1>1, <3>2 DEF Jobs
    <3> QED BY <1>1, <2>1, <3>1, <3>3 DEF Jobs
  <2> QED BY <2>2, <2>3
<1>10. ASSUME NEW t \in Threads, CreateDirectory(t) PROVE OneInitialization' /\ ResultStands'
  <2>1. UNCHANGED <<inFlight, store>> /\ job[t].at = "directory"
    BY <1>10 DEF CreateDirectory, limits
  <2>2. CASE Move(t, "probe")
    <3>1. job' = [job EXCEPT ![t] = [job[t] EXCEPT !.at = "probe"]]
      BY <2>2 DEF Move
    <3>2. [job[t] EXCEPT !.at = "probe"] \in Jobs
      BY <1>1 DEF Jobs
    <3> QED BY <1>1, <1>8, <2>1, <3>1, <3>2 DEF Jobs
  <2>3. CASE job' = [job EXCEPT ![t].at = "audit", ![t].res = "storage"]
    <3>1. job' = [job EXCEPT ![t] = [job[t] EXCEPT !.at = "audit", !.res = "storage"]]
      BY <1>1, <2>3 DEF Jobs
    <3>2. [job[t] EXCEPT !.at = "audit", !.res = "storage"] \in Jobs
      BY <1>1 DEF Jobs
    <3> QED BY <1>1, <1>8, <2>1, <3>1, <3>2 DEF Jobs
  <2> QED BY <1>10, <2>2, <2>3 DEF CreateDirectory
<1>11. ASSUME NEW t \in Threads, Probe(t) PROVE OneInitialization' /\ ResultStands'
  <2> DEFINE res == IF job[t].uri \in dirs THEN "ok" ELSE "storage"
  <2>1. job' = [job EXCEPT ![t] = [job[t] EXCEPT !.at = "record", !.res = res]]
    BY <1>1, <1>11 DEF Probe, Jobs
  <2>2. [job[t] EXCEPT !.at = "record", !.res = res] \in Jobs
    BY <1>1 DEF Jobs
  <2>3. UNCHANGED <<inFlight, store>> /\ job[t].at = "probe"
    BY <1>11 DEF Probe, limits
  <2>4. [job[t] EXCEPT !.at = "record", !.res = res].cmd = job[t].cmd
        /\ [job[t] EXCEPT !.at = "record", !.res = res].at = "record"
    BY <1>1 DEF Jobs
  <2> HIDE DEF res
  <2> QED BY <1>8, <2>1, <2>2, <2>3, <2>4
<1>12. ASSUME NEW t \in Threads, RecordInitialize(t) PROVE OneInitialization' /\ ResultStands'
  <2>1. \A u \in Threads : /\ Overtaken[u].cmd = job[u].cmd /\ Overtaken[u].at = job[u].at
                           /\ Overtaken[u].uri = job[u].uri /\ Overtaken[u].res = job[u].res
    BY <1>1 DEF Overtaken, Jobs
  <2>2. Overtaken \in [Threads -> Jobs]
    BY <1>1 DEF Overtaken, Jobs
  <2>3. /\ \A u \in Threads : job'[u].cmd = job[u].cmd /\ job'[u].uri = job[u].uri
                              /\ job'[u].res = job[u].res
        /\ \A u \in Threads : u # t => job'[u].at = job[u].at
        /\ job'[t].at = "audit"
    BY <1>12, <2>1, <2>2 DEF RecordInitialize, Jobs
  <2>4. job[t].cmd = "initialize" /\ job[t].at = "record" /\ UNCHANGED inFlight
    BY <1>12 DEF RecordInitialize, limits
  <2>5. \A u \in Threads : Initializing(u)' <=> Initializing(u)
    BY <2>3, <2>4 DEF Initializing
  <2>6. OneInitialization'
    BY <2>4, <2>5 DEF OneInitialization
  <2>7. \A u \in Threads : Initializing(u) => u = t
    BY <2>4 DEF OneInitialization, Initializing
  <2>8. store'.uri = job[t].uri /\ (job[t].res = "ok" => store'.initialized)
    BY <1>12 DEF RecordInitialize
  <2>9. ResultStands'
    BY <2>3, <2>5, <2>7, <2>8 DEF ResultStands, Initializing
  <2> QED BY <2>6, <2>9
<1>13. ASSUME NEW t \in Threads, FinishInitialize(t) PROVE OneInitialization' /\ ResultStands'
  <2>1. Initializing(t)
    BY <1>13 DEF FinishInitialize, Initializing, JobsOK
  <2> QED BY <1>4, <1>13, <2>1 DEF FinishInitialize
<1>14. ASSUME NEW t \in Threads, ReadStore(t) PROVE OneInitialization' /\ ResultStands'
  <2> DEFINE j == [job[t] EXCEPT !.at = "probe", !.uri = store.uri, !.initialized = store.initialized]
  <2>1. job' = [job EXCEPT ![t] = j]
    BY <1>1, <1>14 DEF ReadStore, Jobs
  <2>2. j \in Jobs /\ j.at = "probe" /\ j.cmd = job[t].cmd
    BY <1>1 DEF Jobs, TypesOK, Stores
  <2>3. UNCHANGED <<inFlight, store>> /\ job[t].at = "read"
    BY <1>14 DEF ReadStore, limits
  <2> HIDE DEF j
  <2> QED BY <1>8, <2>1, <2>2, <2>3
<1>15. ASSUME NEW t \in Threads, RecordCheck(t) PROVE OneInitialization' /\ ResultStands'
  <2>1. ~Initializing(t) /\ Return(t) /\ UNCHANGED inFlight
    BY <1>15 DEF RecordCheck, Initializing, limits
  <2>2. store'.uri = store.uri /\ store'.initialized = store.initialized
    BY <1>15 DEF RecordCheck, TypesOK, Stores
  <2> QED BY <1>3, <2>1, <2>2
<1>16. ASSUME UNCHANGED <<inFlight, job>>, store'.uri = store.uri,
              store'.initialized = store.initialized
       PROVE  OneInitialization' /\ ResultStands'
  BY <1>16 DEF OneInitialization, ResultStands, Initializing
<1>17. CASE GetHealth
  BY <1>16, <1>17 DEF GetHealth, TypesOK, Stores, limits
<1>18. ASSUME NEW l \in Locations, RemoveDirectory(l) PROVE OneInitialization' /\ ResultStands'
  BY <1>16, <1>18 DEF RemoveDirectory, limits
<1>19. ASSUME NEW s \in Ticks, Advance(s) PROVE OneInitialization' /\ ResultStands'
  BY <1>16, <1>19 DEF Advance, Elapse
<1>20. CASE UNCHANGED vars
  BY <1>16, <1>20 DEF vars
<1>21. "none" \in Requests
  BY DEF Requests
<1> QED
  BY <1>5, <1>6, <1>7, <1>9, <1>10, <1>11, <1>12, <1>13, <1>14, <1>15, <1>17, <1>18, <1>19, <1>20,
     <1>21 DEF Next, Step

LEMMA IndexInvariant == Spec => []IndexInv
<1>1. IndexInv /\ [Next]_vars => IndexInv'
  BY LimitsPreserved, TypesPreserved, FlightPreserved DEF IndexInv, StoreInv
<1> QED BY <1>1, InitEstablishes, PTL DEF Spec

\* Types, for every policy and every bound.
THEOREM IndexTypes == Spec => []TypeOK
<1>1. IndexInv => TypeOK
  BY DEF IndexInv, StoreInv, LimitsInv, TypesOK, TypeOK
<1> QED BY <1>1, IndexInvariant, PTL

\* The single-flight guard of index initialization (rate_limit.rs, index.rs)
\* admits one initialization at a time and is up exactly while it runs.
THEOREM SingleFlightExcludes == Spec => []OneInitialization
<1>1. IndexInv => OneInitialization
  BY DEF IndexInv, StoreInv
<1> QED BY <1>1, IndexInvariant, PTL

\* No window of calls to a limited command exceeds its policy (rate_limit.rs).
THEOREM RateIsKept == Spec => []RateHolds
<1>1. IndexInv => RateHolds
  BY DEF IndexInv, LimitsInv
<1> QED BY <1>1, IndexInvariant, PTL

\* A successful initialization reports what the store still says when it
\* returns, whatever health checks ran beside it (index_store.rs).
THEOREM InitializationStands == Spec => []ResultStands
<1>1. IndexInv => ResultStands
  BY DEF IndexInv, StoreInv
<1> QED BY <1>1, IndexInvariant, PTL
-----------------------------------------------------------------------------
\* A check between its read of the store and its write knows the location the store
\* is at, or an initialization has overtaken it.
ChecksKnow ==
  \A t \in Threads :
    job[t].cmd = "check" /\ job[t].at \in {"probe", "record"} =>
      job[t].moved \/ job[t].uri = store.uri

LocationInv == ErrorIsOfLocation /\ ChecksKnow

\* A step that leaves the location and the verdict alone and moves one call.
LEMMA QuietCheck ==
  ASSUME LocationInv, job \in [Threads -> Jobs], NEW t \in Threads, NEW j,
         job' = [job EXCEPT ![t] = j], store'.uri = store.uri, verdict' = verdict,
         j.cmd = "check" /\ j.at \in {"probe", "record"} => j.moved \/ j.uri = store.uri
  PROVE  LocationInv'
<1>1. \A u \in Threads : job'[u] = IF u = t THEN j ELSE job[u]
  OBVIOUS
<1> QED BY <1>1 DEF LocationInv, ErrorIsOfLocation, ChecksKnow

LEMMA LocationPreserved ==
  ASSUME IndexInv, LocationInv, [Next]_vars
  PROVE  LocationInv'
<1> USE DEF IndexInv, StoreInv
<1>1. job \in [Threads -> Jobs] /\ \A t \in Threads : job[t] \in Jobs
  BY DEF TypesOK
<1>2. ASSUME NEW t \in Threads, Return(t), store'.uri = store.uri, verdict' = verdict
      PROVE  LocationInv'
  <2>1. Idle.at = "idle"
    BY DEF Idle
  <2> QED BY <1>1, <1>2, <2>1, QuietCheck DEF Return
<1>3. ASSUME NEW t \in Threads, NEW at \in {"rate", "read", "target", "probe"}, Move(t, at),
             UNCHANGED <<store, verdict>>, at = "probe" => job[t].cmd = "initialize"
      PROVE  LocationInv'
  <2>1. job' = [job EXCEPT ![t] = [job[t] EXCEPT !.at = at]]
    BY <1>3 DEF Move
  <2>2. [job[t] EXCEPT !.at = at].at = at /\ [job[t] EXCEPT !.at = at].cmd = job[t].cmd
    BY <1>1 DEF Jobs
  <2> QED BY <1>1, <1>3, <2>1, <2>2, QuietCheck
<1>4. ASSUME NEW t \in Threads, NEW cmd, NEW at \in {"flight", "rate"}, NEW r,
             Begin(t, cmd, at, r)
      PROVE  LocationInv'
  <2> DEFINE j == [Idle EXCEPT !.cmd = cmd, !.at = at, !.uri = r]
  <2>1. j.at = at /\ job' = [job EXCEPT ![t] = j] /\ UNCHANGED <<store, verdict>>
    BY <1>4 DEF Idle, Begin
  <2> HIDE DEF j
  <2> QED BY <1>1, <2>1, QuietCheck
<1>5. ASSUME NEW t \in Threads, TryAcquire(t) PROVE LocationInv'
  BY <1>2, <1>3, <1>5 DEF TryAcquire
<1>6. ASSUME NEW t \in Threads, CheckRate(t) PROVE LocationInv'
  <2> DEFINE at == IF job[t].cmd = "check" THEN "read" ELSE "target"
  <2>1. at \in {"read", "target"}
    OBVIOUS
  <2>2. Move(t, at) \/ Return(t)
    BY <1>6 DEF CheckRate
  <2>3. UNCHANGED <<store, verdict>>
    BY <1>6 DEF CheckRate
  <2> HIDE DEF at
  <2> QED BY <1>2, <1>3, <2>1, <2>2, <2>3
<1>7. ASSUME NEW t \in Threads, NEW j, job' = [job EXCEPT ![t] = j], UNCHANGED <<store, verdict>>,
             j.cmd = "initialize"
      PROVE  LocationInv'
  BY <1>1, <1>7, QuietCheck
<1>8. ASSUME NEW t \in Threads, ChooseTarget(t) PROVE LocationInv'
  <2>1. job[t].cmd = "initialize"
    BY <1>8 DEF ChooseTarget, JobsOK
  <2>2. \A f, g : [job[t] EXCEPT !.at = f, !.res = g].cmd = "initialize"
                  /\ [job[t] EXCEPT !.at = f, !.uri = g].cmd = "initialize"
    BY <1>1, <2>1 DEF Jobs
  <2> QED BY <1>7, <1>8, <2>2 DEF ChooseTarget
<1>9. ASSUME NEW t \in Threads, CreateDirectory(t) PROVE LocationInv'
  <2>1. job[t].cmd = "initialize" /\ UNCHANGED <<store, verdict>>
    BY <1>9 DEF CreateDirectory, JobsOK
  <2>2. CASE Move(t, "probe")
    BY <1>3, <2>1, <2>2
  <2>3. CASE job' = [job EXCEPT ![t].at = "audit", ![t].res = "storage"]
    <3>1. job' = [job EXCEPT ![t] = [job[t] EXCEPT !.at = "audit", !.res = "storage"]]
      BY <1>1, <2>3 DEF Jobs
    <3>2. [job[t] EXCEPT !.at = "audit", !.res = "storage"].cmd = "initialize"
      BY <1>1, <2>1 DEF Jobs
    <3> QED BY <1>7, <2>1, <3>1, <3>2
  <2> QED BY <1>9, <2>2, <2>3 DEF CreateDirectory
<1>10. ASSUME NEW t \in Threads, Probe(t) PROVE LocationInv'
  <2> DEFINE res == IF job[t].uri \in dirs THEN "ok" ELSE "storage"
             j == [job[t] EXCEPT !.at = "record", !.res = res]
  <2>1. job' = [job EXCEPT ![t] = j]
    BY <1>1, <1>10 DEF Probe, Jobs
  <2>2. j.cmd = job[t].cmd /\ j.moved = job[t].moved /\ j.uri = job[t].uri
    BY <1>1 DEF Jobs
  <2>3. job[t].at = "probe" /\ UNCHANGED <<store, verdict>>
    BY <1>10 DEF Probe
  <2>4. j.cmd = "check" => j.moved \/ j.uri = store.uri
    BY <2>2, <2>3 DEF LocationInv, ChecksKnow
  <2> HIDE DEF j
  <2> QED BY <1>1, <2>1, <2>3, <2>4, QuietCheck
<1>11. ASSUME NEW t \in Threads, RecordInitialize(t) PROVE LocationInv'
  <2>1. job[t].cmd = "initialize" /\ job' = [Overtaken EXCEPT ![t].at = "audit"]
    BY <1>11 DEF RecordInitialize
  <2>2. \A u \in Threads :
          /\ Overtaken[u].cmd = job[u].cmd /\ Overtaken[u].at = job[u].at
          /\ job[u].cmd = "check" /\ job[u].at \in {"probe", "record"} => Overtaken[u].moved
    BY <1>1 DEF Overtaken, Jobs
  <2>3. Overtaken \in [Threads -> Jobs]
    BY <1>1 DEF Overtaken, Jobs
  <2>4. \A u \in Threads : /\ u # t => job'[u] = Overtaken[u]
                           /\ job'[t].cmd = "initialize"
    BY <2>1, <2>2, <2>3 DEF Jobs
  <2>5. ChecksKnow'
    BY <2>2, <2>4 DEF ChecksKnow
  <2>6. ErrorIsOfLocation'
    BY <1>11 DEF RecordInitialize, ErrorIsOfLocation
  <2> QED BY <2>5, <2>6 DEF LocationInv
<1>12. ASSUME NEW t \in Threads, FinishInitialize(t) PROVE LocationInv'
  BY <1>2, <1>12 DEF FinishInitialize
<1>13. ASSUME NEW t \in Threads, ReadStore(t) PROVE LocationInv'
  <2> DEFINE j == [job[t] EXCEPT !.at = "probe", !.uri = store.uri, !.initialized = store.initialized]
  <2>1. job' = [job EXCEPT ![t] = j]
    BY <1>1, <1>13 DEF ReadStore, Jobs
  <2>2. j.uri = store.uri
    BY <1>1 DEF Jobs
  <2>3. UNCHANGED <<store, verdict>>
    BY <1>13 DEF ReadStore
  <2> HIDE DEF j
  <2> QED BY <1>1, <2>1, <2>2, <2>3, QuietCheck
<1>14. ASSUME NEW t \in Threads, RecordCheck(t) PROVE LocationInv'
  <2>1. /\ job[t].cmd = "check" /\ job[t].at = "record" /\ store'.uri = store.uri
        /\ verdict' = [uri |-> job[t].uri, overtaken |-> job[t].moved]
    BY <1>14 DEF RecordCheck, TypesOK, Stores
  <2>2. job[t].moved \/ job[t].uri = store.uri
    BY <2>1 DEF LocationInv, ChecksKnow
  <2>3. ErrorIsOfLocation'
    BY <2>1, <2>2 DEF ErrorIsOfLocation
  <2>4. \A u \in Threads : job'[u] = IF u = t THEN Idle ELSE job[u]
    BY <1>1, <1>14 DEF RecordCheck, Return
  <2>5. ChecksKnow'
    BY <2>1, <2>4 DEF ChecksKnow, LocationInv, Idle
  <2> QED BY <2>3, <2>5 DEF LocationInv
<1>15. ASSUME UNCHANGED <<job, verdict>>, store'.uri = store.uri PROVE LocationInv'
  BY <1>15 DEF LocationInv, ErrorIsOfLocation, ChecksKnow
<1>16. CASE GetHealth
  BY <1>15, <1>16 DEF GetHealth, TypesOK, Stores
<1>17. ASSUME NEW l \in Locations, RemoveDirectory(l) PROVE LocationInv'
  BY <1>15, <1>17 DEF RemoveDirectory
<1>18. ASSUME NEW s \in Ticks, Advance(s) PROVE LocationInv'
  BY <1>15, <1>18 DEF Advance
<1>19. CASE UNCHANGED vars
  BY <1>15, <1>19 DEF vars
<1> QED
  BY <1>4, <1>5, <1>6, <1>8, <1>9, <1>10, <1>11, <1>12, <1>13, <1>14, <1>16, <1>17, <1>18, <1>19
     DEF Next, Step

\* last_error speaks of the location the store is at, unless the health check that
\* wrote it was overtaken by an initialization (index_store.rs).
THEOREM ErrorsAreOfLocation == Spec => []ErrorIsOfLocation
<1>1. Init => LocationInv
  <2> SUFFICES ASSUME Init PROVE LocationInv OBVIOUS
  <2>1. \A t \in Threads : job[t].at = "idle"
    BY DEF Init, Idle
  <2> QED BY <2>1 DEF Init, LocationInv, ErrorIsOfLocation, ChecksKnow
<1>2. IndexInv /\ LocationInv /\ [Next]_vars => LocationInv'
  BY LocationPreserved
<1>3. LocationInv => ErrorIsOfLocation
  BY DEF LocationInv
<1> QED BY <1>1, <1>2, <1>3, IndexInvariant, PTL DEF Spec
=============================================================================
