----------------------------- MODULE IndexStore -----------------------------
(***************************************************************************)
(* commands/index.rs over storage/index_store.rs, behind Limits: to        *)
(* initialise and to check health as the steps between which other         *)
(* commands run, because the mutex of the store is not held while a        *)
(* directory is created or probed.  Calls start where require_permission,  *)
(* modelled in Session, has let them through.  The probe is that of the    *)
(* default build: the directory exists.  The time of the last check is     *)
(* reduced to whether there is one.                                        *)
(***************************************************************************)
EXTENDS Limits

CONSTANTS
  Threads,       \* command threads
  Locations,     \* paths inside the storage root
  DefaultUri,    \* the path a new store is configured with
  MaxFaults      \* bound: directories that cannot be created or that
                 \* something else removes

ASSUME LocationAssumption == DefaultUri \in Locations
ASSUME CommandAssumption == {"initialize", "check"} \subseteq Limited
ASSUME FaultsAssumption == MaxFaults \in Nat

VARIABLES
  store,      \* the IndexStoreState
  dirs,       \* directories that exist
  job,        \* job[t]: the call a thread is in
  verdict,    \* history: where the last_error in the store comes from, and
              \* whether an initialization overtook the check that wrote it
  faults      \* directories not created or removed

limits == <<now, bucket, grants, inFlight>>
vars == <<now, bucket, grants, inFlight, store, dirs, job, verdict, faults>>

Empty == ""               \* what normalise_uri makes of a request of slashes
Uris == Locations \cup {Empty}
Requests == Locations \cup {"none", "slashes", "refused"}
Errors == {"none", "initFailed", "probeFailed"}
Stores == [uri: Uris, initialized: BOOLEAN, checked: BOOLEAN, error: Errors]

Idle == [cmd |-> "none", at |-> "idle", uri |-> "none", initialized |-> FALSE,
         res |-> "ok", moved |-> FALSE]
Jobs == [cmd: {"none", "initialize", "check"},
         at: {"idle", "flight", "rate", "target", "directory", "probe", "record", "audit", "read"},
         uri: Requests \cup Uris, initialized: BOOLEAN,
         res: {"ok", "invalid", "storage"}, moved: BOOLEAN]
-----------------------------------------------------------------------------
Init ==
  /\ LimitsInit
  /\ store = [uri |-> DefaultUri, initialized |-> FALSE, checked |-> FALSE, error |-> "none"]
  /\ dirs \in {{}, {DefaultUri}}
  /\ job = [t \in Threads |-> Idle]
  /\ verdict = [uri |-> DefaultUri, overtaken |-> FALSE]
  /\ faults = 0

Fault == faults < MaxFaults /\ faults' = faults + 1

Move(t, at) == job' = [job EXCEPT ![t].at = at]

Begin(t, cmd, at, request) ==
  /\ job[t] = Idle
  /\ job' = [job EXCEPT ![t] = [Idle EXCEPT !.cmd = cmd, !.at = at, !.uri = request]]
  /\ UNCHANGED <<limits, store, dirs, verdict, faults>>

Return(t) == job' = [job EXCEPT ![t] = Idle]

\* Mutant: the guard is built before the exchange, so a refused call drops it.
TryAcquireEagerly(t) ==
  /\ job[t].at = "flight"
  /\ \/ ~inFlight /\ inFlight' = TRUE /\ Move(t, "rate")
     \/ inFlight /\ inFlight' = FALSE /\ Return(t)
  /\ UNCHANGED <<now, bucket, grants, store, dirs, verdict, faults>>

TryAcquire(t) ==
  /\ job[t].at = "flight"
  /\ \/ ~inFlight /\ inFlight' = TRUE /\ Move(t, "rate")
     \/ inFlight /\ Return(t) /\ UNCHANGED inFlight
  /\ UNCHANGED <<now, bucket, grants, store, dirs, verdict, faults>>

\* Mutant: the flag is released only where initialization has been tried.
CheckRateLeaking(t) ==
  /\ job[t].at = "rate"
  /\ \/ Allow(job[t].cmd) /\ Move(t, IF job[t].cmd = "check" THEN "read" ELSE "target")
        /\ UNCHANGED inFlight
     \/ Throttle(job[t].cmd) /\ Return(t) /\ UNCHANGED inFlight
  /\ UNCHANGED <<now, store, dirs, verdict, faults>>

\* RateLimiter::check; the early return of an initialization drops its guard.
CheckRate(t) ==
  /\ job[t].at = "rate"
  /\ \/ /\ Allow(job[t].cmd)
        /\ Move(t, IF job[t].cmd = "check" THEN "read" ELSE "target")
        /\ UNCHANGED inFlight
     \/ /\ Throttle(job[t].cmd)
        /\ Return(t)
        /\ inFlight' = (inFlight /\ job[t].cmd # "initialize")
  /\ UNCHANGED <<now, store, dirs, verdict, faults>>

\* The location a request names: the configured one, an empty one for a request
\* of slashes (they are trimmed after the test for emptiness), or its path.
Target(request) ==
  CASE request = "none"    -> store.uri
    [] request = "slashes" -> Empty
    [] OTHER               -> request

\* normalise_uri and the path policy: a refused request goes to its audit entry.
ChooseTarget(t) ==
  /\ job[t].at = "target"
  /\ job' = [job EXCEPT ![t] =
       IF job[t].uri = "refused"
         THEN [@ EXCEPT !.at = "audit", !.res = "invalid"]
         ELSE [@ EXCEPT !.at = "directory", !.uri = Target(job[t].uri)]]
  /\ UNCHANGED <<limits, store, dirs, verdict, faults>>

\* create_dir_all; the empty path needs no directory and gets none.
CreateDirectory(t) ==
  /\ job[t].at = "directory"
  /\ \/ /\ dirs' = dirs \cup ({job[t].uri} \ {Empty})
        /\ Move(t, "probe")
        /\ UNCHANGED faults
     \/ /\ Fault
        /\ job' = [job EXCEPT ![t].at = "audit", ![t].res = "storage"]
        /\ UNCHANGED dirs
  /\ UNCHANGED <<limits, store, verdict>>

\* probe_lancedb, without the mutex.
Probe(t) ==
  /\ job[t].at = "probe"
  /\ job' = [job EXCEPT ![t].at = "record",
                        ![t].res = IF job[t].uri \in dirs THEN "ok" ELSE "storage"]
  /\ UNCHANGED <<limits, store, dirs, verdict, faults>>

\* History: the checks that have read the store and not yet written to it.
Overtaken == [u \in Threads |->
  [job[u] EXCEPT !.moved = @ \/ (job[u].cmd = "check" /\ job[u].at \in {"probe", "record"})]]

\* Mutant: a failed probe moves the store and leaves last_error alone.
RecordInitializeKeepingError(t) ==
  /\ job[t].cmd = "initialize" /\ job[t].at = "record"
  /\ job' = [Overtaken EXCEPT ![t].at = "audit"]
  /\ \/ /\ job[t].res = "ok"
        /\ store' = [uri |-> job[t].uri, initialized |-> TRUE, checked |-> TRUE, error |-> "none"]
        /\ verdict' = [uri |-> job[t].uri, overtaken |-> FALSE]
     \/ /\ job[t].res # "ok"
        /\ store' = [store EXCEPT !.uri = job[t].uri, !.initialized = FALSE, !.checked = TRUE]
        /\ UNCHANGED verdict
  /\ UNCHANGED <<limits, dirs, faults>>

\* Either outcome of the probe moves the store to the location.
RecordInitialize(t) ==
  /\ job[t].cmd = "initialize" /\ job[t].at = "record"
  /\ job' = [Overtaken EXCEPT ![t].at = "audit"]
  /\ store' = [uri |-> job[t].uri, initialized |-> job[t].res = "ok", checked |-> TRUE,
               error |-> IF job[t].res = "ok" THEN "none" ELSE "initFailed"]
  /\ verdict' = [uri |-> job[t].uri, overtaken |-> FALSE]
  /\ UNCHANGED <<limits, dirs, faults>>

\* The audit entry, whose failure only changes the answer, then the return,
\* which drops the guard.
FinishInitialize(t) ==
  /\ job[t].at = "audit"
  /\ Return(t)
  /\ inFlight' = FALSE
  /\ UNCHANGED <<now, bucket, grants, store, dirs, verdict, faults>>

ReadStore(t) ==
  /\ job[t].at = "read"
  /\ job' = [job EXCEPT ![t].at = "probe", ![t].uri = store.uri,
                        ![t].initialized = store.initialized]
  /\ UNCHANGED <<limits, store, dirs, verdict, faults>>

CheckError(t) == IF job[t].res = "ok" THEN "none" ELSE "probeFailed"

\* Mutant: the whole snapshot is written back with the verdict.
RecordCheckSnapshot(t) ==
  /\ job[t].cmd = "check" /\ job[t].at = "record"
  /\ store' = [uri |-> job[t].uri, initialized |-> job[t].initialized, checked |-> TRUE,
               error |-> CheckError(t)]
  /\ verdict' = [uri |-> job[t].uri, overtaken |-> job[t].moved]
  /\ Return(t)
  /\ UNCHANGED <<limits, dirs, faults>>

\* health_check writes its verdict into whatever the store is by now.
RecordCheck(t) ==
  /\ job[t].cmd = "check" /\ job[t].at = "record"
  /\ store' = [store EXCEPT !.checked = TRUE, !.error = CheckError(t)]
  /\ verdict' = [uri |-> job[t].uri, overtaken |-> job[t].moved]
  /\ Return(t)
  /\ UNCHANGED <<limits, dirs, faults>>

\* current_health, which notes a time of check if there is none.
GetHealth ==
  /\ store' = [store EXCEPT !.checked = TRUE]
  /\ UNCHANGED <<limits, dirs, job, verdict, faults>>

\* What cmd_get_index_store_health answers: it probes nothing.
CurrentHealth == [uri |-> store.uri, initialized |-> store.initialized, reachable |-> FALSE]

\* What indexHealth shows of an answer (toView).
Reachability(health) ==
  CASE health.uri = Empty   -> "not_configured"
    [] ~health.initialized  -> "not_initialized"
    [] health.reachable     -> "reachable"
    [] OTHER                -> "not_reachable"

\* The user or another program removes an index directory.
RemoveDirectory(l) ==
  /\ Fault
  /\ l \in dirs
  /\ dirs' = dirs \ {l}
  /\ UNCHANGED <<limits, store, job, verdict>>

Advance(seconds) ==
  /\ Elapse(seconds)
  /\ UNCHANGED <<store, dirs, job, verdict, faults>>

Step(t) ==
  TryAcquire(t) \/ CheckRate(t) \/ ChooseTarget(t) \/ CreateDirectory(t) \/ Probe(t)
    \/ RecordInitialize(t) \/ FinishInitialize(t) \/ ReadStore(t) \/ RecordCheck(t)

Next ==
  \/ \E t \in Threads : Step(t) \/ Begin(t, "check", "rate", "none")
  \/ \E t \in Threads, r \in Requests : Begin(t, "initialize", "flight", r)
  \/ GetHealth
  \/ \E l \in Locations : RemoveDirectory(l)
  \/ \E s \in Ticks : Advance(s)

Spec == Init /\ [][Next]_vars

\* A command that has begun runs to its end: it waits for nothing but mutexes
\* held for a read or a write.
FairSpec == Spec /\ \A t \in Threads : WF_vars(Step(t))
-----------------------------------------------------------------------------
\* Every variable keeps its type.
TypeOK ==
  /\ LimitsTypeOK
  /\ store \in Stores
  /\ dirs \subseteq Locations
  /\ job \in [Threads -> Jobs]
  /\ verdict \in [uri: Uris, overtaken: BOOLEAN]
  /\ faults \in 0..MaxFaults

\* Between try_acquire and the return that drops its guard.
Initializing(t) == job[t].cmd = "initialize" /\ job[t].at \notin {"idle", "flight"}

\* At most one initialization is under way, and the flag is up exactly while it
\* is: a refused or throttled call neither opens the way for a second one nor
\* leaves it shut.
OneInitialization ==
  /\ \A t, u \in Threads : Initializing(t) /\ Initializing(u) => t = u
  /\ inFlight <=> \E t \in Threads : Initializing(t)

\* The flag comes down again, whichever way the call that raised it returns.
FlightEnds == inFlight ~> ~inFlight

\* What an initialization is about to report is still what the store says:
\* until it returns nobody else has moved the store.
ResultStands ==
  \A t \in Threads : (job[t].cmd = "initialize" /\ job[t].at = "audit" /\ job[t].res = "ok")
    => store.uri = job[t].uri /\ store.initialized

\* last_error speaks of the location the store is at, unless a health check
\* that an initialization overtook wrote it.
ErrorIsOfLocation == verdict.overtaken \/ verdict.uri = store.uri

\* README, "Understand repositories": the Command surface, which refreshes
\* indexHealth, shows an initialized store whose directory is there as reachable.
ReachableIsShown ==
  (store.initialized /\ store.uri \in dirs) => Reachability(CurrentHealth) = "reachable"
=============================================================================
