# Verification of product-overlord

TLA+ models of product-overlord, a desktop application (Tauri: a Rust backend in
`src-tauri/src`, a Svelte interface in `src`), with TLC configurations that check
them on small instances and TLAPS proofs of what holds for every instance.

`PROJECT.json` lists the components, the runs, the mutants that show that each
checked property can fail, the source lines each definition stands for, the
findings, the hazards and the theorems.

    tlc -config MCAuditReader.cfg MCAuditReader   # a run
    tlapm AuditLogProofs.tla                      # a proof module

## 1. The system

### Backend (`src-tauri/src`)

All commands share one `AppState` (`state.rs:19-43`). Each part has a mutex of its
own, held for a single read or write, never across a call to another part.

| Component | State | Operations | Survives a restart |
|---|---|---|---|
| Audit log (`storage/audit_store.rs`, `commands/audit.rs`) | one JSONL file, `write_lock` | `append`, `verify_integrity`, `read_all`, `last_entry_hash_unlocked` | the file |
| Session (`session/mod.rs`, `commands/session.rs`, `commands/authz.rs`, `commands/permission.rs`) | role, issue and expiry time, unlocked | unlock, lock, status, `require_permission`, change of role | no |
| Permissions (`domain/permission.rs`) | none: two tables | `role_has_permission`, `minimum_role_for_permission` | - |
| Credential store (`storage/credential_store.rs`, `commands/credential.rs`) | map of metadata; secrets in the OS keychain | add, delete, health, list, get | the keychain only |
| Rate limiter, single flight (`security/rate_limit.rs`) | a token bucket per command, one flag | `check`, `try_acquire` | no |
| Index store (`storage/index_store.rs`, `commands/index.rs`) | location, initialised, last check | initialise, health | the directory |
| Scaffold store (`storage/scaffold_store.rs`, `commands/scaffolding.rs`) | scaffolds by ticket key | create, get, list, set item, criteria, estimate | no |
| LLM gateway (`llm/mod.rs`, `commands/llm.rs`) | per provider: model, endpoint, credential, whether it is on | configure, list, invoke | no |
| Validators, path policy, command policy | none | pure functions and a static table | - |
| Shell (`lib.rs`) | window, tray | quit, hide on close, tray status | - |

Every protected command runs the same sequence: `require_permission` (which audits
a refusal), validation, the effect, `append_user_audit`. The audit append comes last
and its failure replaces the command's result.

### Interface (`src`)

Stores are single-threaded JavaScript; every `await` of `invoke` is a point where
other handlers, timers and answers run.

| Component | State | Behaviour |
|---|---|---|
| Session store (`lib/stores/session.ts`, `lib/tauri/invoke.ts`) | last status, one-second ticker | refresh, unlock, lock, expiry listeners, error classification |
| Credentials store and health polling (`lib/stores/credentials.ts`, `routes/+layout.svelte`) | list with health | refresh, check, add, delete, a poll every minute that sets the tray |
| Definition-of-ready store (`lib/stores/dor.ts`, `routes/+page.svelte`) | scaffold and active key | list, load, toggle an item, create |
| Integration hub (`IntegrationHub.svelte`) | provider configurations, form | add, remove: sequences of awaited calls; making one active, whose button is never enabled |
| Routines, operations verifier (`lib/stores/routines.ts`, `opsVerifier.ts`) | active routine, outcomes | run, review, export; the verifier runs both routines |
| Display stores and components | view state | rendering, navigation |

### What is hard here

* **Crashes and partial writes** of the audit file: the object and its newline are two
  writes; readers treat torn and shared lines differently, and read in several calls
  while the file grows.
* **Check, then act**: a permission or a map is checked in one critical section and used
  in another (change of role, delete, index health).
* **Two stores without a transaction**: metadata in memory and secrets in the keychain;
  provider configuration and credential; effect and audit entry.
* **Answers that arrive late** at a store that has moved on: ticker, reload, poll.
* **Flows of awaited calls** that overlap over shared state: the hub's buttons, the
  minute's poll, routines beside the user and beside the verifier.
* **Tables kept by hand** in two languages, and values that one command accepts and the
  next must accept again.
* **Limits and edges**: the clamp of the lifetime, token buckets, single flight.

The full list, with the line where each one bites, is `PROJECT.json` "hazards".

## 2. Modules

| Module | Models |
|---|---|
| `AuditTrail` | abstract: an append-only trail, every new entry linked to the newest chained one |
| `AuditLog`, `MCAuditLog` | `append` write by write, both readers, failed writes, crashes, edits by others |
| `AuditReader`, `MCAuditReader` | a verification that reads the log, call by call, beside the appends of `AuditLog` |
| `Permissions` | the two tables |
| `Session`, `MCSession` | session, permission check, change of role, lock by lock |
| `SessionView`, `MCSessionView` | session store, ticker, `invoke` and reloads composed with `Session` |
| `CredentialStore`, `MCCredentialStore` | credential commands over map and keychain |
| `Limits` | token buckets and the single-flight flag, without a next-state relation of their own |
| `IndexStore`, `MCIndexStore` | extends `Limits`: initialise and check the index store, behind the limits |
| `ProviderHub`, `MCProviderHub` | credentials store, hub flows, health poll and tray, preview, composed with the LLM gateway |
| `TicketReview`, `MCTicketReview` | scaffold store, panel and index, ticket selection, routines and verifier |
| `Validators` | the validators and argument checks, as operators |
| `Commands`, `MCCommands` | policy table, handlers, capabilities and `Validators` behind one dispatch |
| `SessionProofs`, `ViewProofs`, `AuditLogProofs`, `IndexStoreProofs`, `CredentialProofs`, `HubProofs`, `ReviewProofs`, `CommandsProofs` | theorems and lemmas, see 5 |

### AuditLog

The file is a sequence of fragments: a whole object, or the part of one that reached
the disk (`cut`, or `split` inside a multi-byte character), with a flag for the newline.
A hash is named by the id of its entry (SHA-256 is taken as collision free); `prev` is
the stored `prev_hash`, `intact` tells whether the content still hashes to
`entry_hash`. A thread goes `idle`, `read`, `write`, `body`, `newline`, `idle`, or to `spin` for good; `StartBody`
puts the torn object in the file and `FinishBody` completes it, so that a reader, a
crash or a failure can come between. `Parsed` and `ReadAllFails` are what the streaming
deserializer of `read_all` makes of such a file, `HashLines` what the line-by-line parse
of `last_entry_hash_unlocked` makes of it. `ReadForever` is the loop over lines when
reads keep failing. `Crash` kills one copy of the application with its appends.
`lock` is per copy, `FileFree` is the kernel's inode lock.

What stands on the line of a torn object is mostly an error, but not always. `AuditActor`
is internally tagged (`domain/audit.rs:6-15`), so serde buffers whatever JSON value stands
behind `"actor":` or behind the `"name":` in it. An object torn there takes the next
object as that value (`taken`), is still open when the line ends, and the end of input
that follows is passed over (`audit_store.rs:204`) with everything on the line. Where an
object was cut is not in the model, so `StartBody` chooses whether a value is due
(`ValueIsDue`), and `FinishBody` whether the value is accepted once it is whole: behind
`"actor":` it is not, since an entry is no actor.

### AuditReader

`read_all` takes no lock. `Begin` opens the file and reads to its end, where
`BufReader::lines` returns an unterminated object as a line; asked for the next line it
reads on, and what has been written since is a line of its own. `ReadNext` is the case
where that is a newline or another object, `ReadRest` the case where it is the rest of the
object met half written: an error (`pieces`), unless that rest is the last `"}`, an
unterminated string and so an end of input like the first piece (`skipped`). Each
object is then in the view as it was read. Reading to the end is one step because the file
only grows while it is appended to: whatever lies between two reads lies before the end.
A verification may stop after any step, and the properties hold of what it has by then.
`known` is history: the entries acknowledged when it began. The edits of `AuditLog` are
made to a closed log (`EditClosed`), and no verification is followed that begins after one
(a bound): `EditsStayDetected` says of the file itself what an edited log shows. `ReadLast`, the read inside `append`, stays one
step: what it could see of another copy's append in between is a hash that was the last
one at some moment of it.

### Session and Permissions

One action per critical section: a protected command is `BeginProtected` (the role is
read and decided on), `Effect`, `AuditDone`, or `Deny`; a change of role is
`BeginSetRole`, `ReadPrevious`, `SetRole`, `AuditDone`. Unlock and lock are one critical
section each. Time is in minutes and moves on at any point.

### SessionView

Extends `Session` with the store. Requests are served in the order they were sent and
answered in that order: synchronous Tauri commands run on the main thread. `Reload`
drops the answers under way (`orphans`) while the backend still serves the requests.
`lapsed` in an answer is history used by one property. `SessionShown` is what the page
asks before it offers the audit check; `ShownRole` is `effectiveRole`, which enables the
other controls and fills the role pill, and is ReadOnly when no session is shown.

### CredentialStore

A call is a record with its position; the map's mutex is released around each keychain
call, as in the code. Keychain and audit calls can fail, the process can restart (the
map is lost, the keychain is not), something else can remove a secret. `lost`,
`removed` and the fields of `outcome` are history variables that only properties read.

### Limits and IndexStore

A token is 60 units and time is in seconds, so a policy of p calls per minute earns p
units a second and no fraction appears; the rounding of the code's f64 is left out.
The policies are a parameter. `grants` is the history `RateHolds` reads. A call of
`IndexStore` is a record with its position: `flight`, `rate`, `target`, `directory`,
`probe`, `record`, `audit` for an initialization, `rate`, `read`, `probe`, `record`
for a check. The mutex of the store is held in `target`, `record` and `read` only.
A request names a location, none (the configured one), slashes (which
`normalise_uri` turns into the empty location) or one that is refused. The probe is
that of the default build, which asks whether the directory exists. `moved` and
`verdict` are history: whether an initialization overtook a check, and where the
error in the store comes from. A failed audit entry changes only the answer, so
`FinishInitialize` has one outcome.

### ProviderHub

A flow of the hub is a line of awaited calls; a call in `queue` carries the continuation
of its flow. Commands that are not `async` are served one at a time and in order, and
nothing else touches their state, so a call is served and answered in one step, in which
its flow runs on to its next await (the steps inside a credential command are those of
`CredentialStore`). Between two awaits of one flow any other may run: save a provider
(`SaveProvider`), save a credential, add a repository, remove either, refresh, reload,
poll. `AnswerRefused` ends a flow without effect, `AnswerUnaudited` ends it with its
effect kept. `CheckNext` is the loop of health checks: it goes on over the ids listed when
it began, also when a check is refused. `unseen` (a view misses an effect answered with
an error) and `calm` (nothing has happened beside the latest poll) are history.

### TicketReview

The same kind of queue. A scaffold is the set of its marks: items done, criteria and
estimate filled in. `drawn` in a call is history: the ticket whose scaffold the panel
showed when an item was toggled; it stands for the item's id, which is unique.
`Select` follows the key as the panel's auto-load does. A routine carries what it found
(`res`, `loaded`) from call to call and reports at its checkpoint; the verifier's
routines are runners of their own, since it looks at its own flag only.

### Validators and Commands

A text is the record of what a validator looks at in it. `Commands` holds the policy
table, the permission of each handler's `require_permission` and the interface's
capabilities as three tables; `Dispatch` runs the check and the validation of any
registered command, and `CallAgain` passes what one command kept to another of the same
argument. `RegisteredCommands` is the list of `generate_handler!`; it has one command,
`cmd_set_tray_status`, more than the table (the tray is not part of the state, and its
errors are left out).

## 3. Runs

| Run | Bounds | Shows |
|---|---|---|
| `audit_log` | 2 threads, one verification after another, 4 entries (one may be legacy), 2 faults, 2 edits | a verification beside appends, failures and crashes passes until an append lands behind an unterminated line, but where it met the end of the file inside a character or read on inside an object; one that passes has read every entry acknowledged before it began, and lost none but one taken by a torn object; changes, and deletions before the newest line, stay detected through later appends and edits; the lock is released; the file implements `AuditTrail` up to the first shared line |
| `audit_last_hash` (violation) | 3 entries, 1 fault | finding 1 |
| `credentials` | 2 threads, 2 credentials, 1 fault, 1 restart, 1 removal | metadata and secrets agree except in the windows the properties name; answers of success are audited; one of two deletes wins; nothing deleted returns |
| `credential_delete` (violation) | 1 thread, 1 credential, 1 removal | finding 2 |
| `limits_index` | 2 threads, 2 locations, 1 fault, 3 instants ten seconds apart; bursts 1 and 2, 3 a minute | one initialization at a time, its flag always released; no window of calls above its policy; a result stands until it is returned; `last_error` belongs to the location unless an initialization overtook the check |
| `index_reachable` (violation) | 1 thread, 1 location | finding 4 |
| `session` | 2 threads, lifetimes -1, 2, 9 clamped to 1..3, 5 instants, 2 unlocks, 1 failed audit | a role change that races a lock or an expiry leaves no role behind (of one that races another unlock no property speaks: it writes its role into the new session) |
| `session_view` | 4 requests, 2 unlocks, 4 instants, 1 failed audit | after every mix of requests, ticks and reloads the store agrees with the backend; a lapse is shown |
| `session_refusal` (violation) | 3 requests | finding 3 |
| `hub` | 2 providers (one without key), 2 credentials, 3 flows beside the 3 of the start, 1 failed call or lost secret; from an empty hub and from a used one | whatever flows overlapped, a provider shown as configured is enabled in the gateway and its credential exists, and so does every listed credential; the tray tells the truth after a poll that ran alone; nothing shows "loading" without a call that ends it |
| `review` | 2 tickets, 1 item, 4 actions of the user, 1 failed call | items change only in the scaffold they were drawn from; panel and index agree with the store; a routine's success leaves a scaffold; routines and verifier end |
| `commands` | every command and role, every text of bounded sets | with a session a command is denied exactly when the interface does not offer it to the role, without one nothing beyond the least role is answered; what was kept is accepted again and kept; a cron text is accepted exactly when it names values of its fields |

Why the bounds are enough: the races are between two threads, or one thread and one
fault. Two faults of the audit file tear one object, and then the one it took or is glued
to; an append goes on behind both while the reader, which may stand at any of these
places, reads on. After a fault or an edit two good entries follow; the second edit shows
whether one can hide what the first left. Lifetimes below, inside
and above the clamp are each present. One request may be under way while two others
wait and a reload happens. In `limits_index` a refill takes two instants, so that calls
come before, at half and at the full token; the policy of initialise is the code's, that
of check is scaled down from 5 and 20 so that a few calls exhaust it. Three flows of
the hub make a save, a removal and a poll overlap; the two initial states spend them on
what comes first and on what comes after (`MCProviderHub` says why). Four actions let a
user start a routine, leave its ticket, come back and toggle while the routine creates.
The texts of `commands` have the values at, inside and outside every bound, and every
pair of tokens in a range. Deadlock is not checked where the model ends at its bounds
(`audit_log`, `audit_last_hash`, `session_view`, `credential_delete`, `hub`, `review`); the system itself then
waits for input.

### Fairness

`AuditReader`: weak fairness of an appending thread's own steps, since `append` is straight-line code
and the file's inode lock is held for one write. Nothing is assumed of acquiring the
lock, of readers, of faults or of crashes. `SessionView`: weak fairness of serving requests, of
delivering answers and of the one-second interval, which run as long as the application
does. Nothing is assumed of the user or of the clock. `IndexStore`: weak fairness of a
call's own steps, which wait only for mutexes held for a read or a write.
`ProviderHub`, `TicketReview`: weak fairness of answering the oldest call, since the
commands are synchronous and return; nothing is assumed of the user, timers or faults.

## 4. Findings

1. `audit_last_hash`: after a crash or a failed write between an object and its newline
   the next append shares the line. `read_all` accepts two objects on a line,
   `last_entry_hash_unlocked` (`audit_store.rs:244`) skips the line, so the append
   after it links to an older entry and `verify_integrity` reports a broken chain.
2. `credential_delete`: when the keychain entry is gone, `delete`
   (`credential_store.rs:134`) fails on every retry and the metadata stays.
3. `session_refusal`: `invoke` looks for "session" and "expired" or "locked" in a message
   (`invoke.ts:98`); no message of `errors.rs` for a lapsed session has them.
4. `index_reachable`: the interface asks only `cmd_get_index_store_health`, whose answer
   has `reachable` false whatever the state (`index_store.rs:150`), so the `Reachable`
   of `README.md:113` is never shown.

Disagreements met without a run. Paths are those of the repository.

Audit log, all in the model, and each the reason of an exemption in a property:

* `audit_store.rs:197-199` says that the objects of a line are "each parsed individually",
  `README.md:19` that the log has every privileged action. An object torn where the actor's
  value is due takes the next appended object as that value (`taken`): `read_all` meets an
  end of input (`audit_store.rs:204`) and lists neither, `last_entry_hash_unlocked` skips
  the line, and the log is reported as intact without an entry whose append returned Ok.
  `IntactReportListsAcked` names this as the only way to lose one.
* `SECURITY_PHASE2_PLAN.md:152,159` says that the normal append path produces a valid chain
  and that append then verify passes. A verification that met a half-written object at the
  end of the file reads on when its writer has finished it, takes the rest for a line
  (`audit_store.rs:188`) and reports an error, although nothing failed (`pieces`).
  `UngluedReadVerifies` names this, a cut inside a character at the end of the file, and
  shared lines as the only ways to fail. It needs a second thread (see `state.rs:13` below)
  or a second copy of the application.
* `SECURITY_PHASE2_PLAN.md:141,153` says that a deleted line makes the check fail; a log
  without its newest lines verifies as intact (`audit_store.rs:165`).
  `EditsStayDetected` is about the other deletions.
* `Err(_) => continue` (`audit_store.rs:237`) skips a read error that does not go away for
  ever, with `write_lock` held (`ReadForever` in the model).

Sessions and policy:

* `SECURITY_PHASE2_PLAN.md:82` says that throttle events appear in the audit log;
  `index.rs:24` returns without an entry.
* `command_policy.rs:171-172` says that a ReadOnly user cannot verify the log; the table of
  `permission.rs:71` and `capabilities.ts:29` both grant it. `DenialsMatchOffers` compares
  the tables, and on this they agree against the comment.
* `command_policy.rs:14-18,85-90` has every protected command, `cmd_get_current_role` among
  them, ask for a session; its handler answers ReadOnly without one, and its own comment
  (`commands/permission.rs:12-13`) says so. `DenialsMatchOffers` has it: without a session
  nothing beyond the least role is answered, and this command is not beyond it.
* `command_policy.rs:35,212-221` and `README.md:319` have an entry of the table for every
  registered command; the table has 26, `lib.rs:69-97` has 27. `cmd_set_tray_status` asks for
  nothing and is never denied.
* `state.rs:13` says that commands run on several threads, while commands that are not
  `async` are dispatched one at a time by Tauri 2. The models of the backend stores
  follow `state.rs`: what they show is what the locks guarantee, under either dispatch.
  The models of the interface (`SessionView`, `ProviderHub`, `TicketReview`) follow Tauri.

Validators:

* `index_store.rs:169` rejects an empty location, a request of slashes becomes one after
  that test and is stored.
* `url.rs:11,18,22` allows plain http for `::1`; the host is cut at its first ":", so
  `http://[::1]` is refused.
* `url.rs:92` cuts slashes from a text that was trimmed before: of `https://x/ /` a blank
  is left at the end, and the text that was kept changes when it is kept again; of
  `https:// /` what is kept is refused when it is saved. `NormalFormsHold` leaves blanks
  among the last slashes out.
* `jql.rs` promises balanced parentheses and counts them: `)(` is accepted.
* The named range `fri-sun` of a cron field is refused, since `sun` is 0.

Interface:

* `README.md:46,100,103` says that scaffold changes are persisted; the store is in memory.
* `lib.rs:41-51`: the tray says that all connections are healthy when the list was refused
  or is being loaded when the poll takes its verdict. `TrayIsTrue` speaks of polls that
  ran alone.
* A routine's `create` for a ticket the user has left puts that ticket's scaffold in the
  panel of another (`strayed`); criteria and estimate then saved go to the active ticket,
  while items do not, because their ids are unique (`MarksLandWhereDrawn`).
* A routine reports success when its load failed, and an error when the user created the
  scaffold before it did. The first routine to end clears `activeRoutine` while the
  verifier's is still running.
* A provider whose removal stopped between its two calls cannot be removed: each try stops
  at the credential that is not found. A credential linked to two providers goes with the
  first. An addition during a refresh makes other providers look unreachable until the
  next one.
* `credentials.ts:92` sends `base_url` where Tauri's default naming expects `baseUrl`;
  `+page.svelte:95-96` calls `trim` on a value that Svelte binds as a number. Both depend
  on the libraries, which are not modelled.

## 5. Proofs

`SessionProofs` (for every set of threads, every set of requested permissions and
lifetimes, every clamp with `1 <= MinTTL <= MaxTTL`, every bound): the tables agree, hence `RefusalsNameTheRole`; types;
`LockedSessionIsEmpty`; `LifetimeWithinPolicy`; `AnswersAreAudited`; and the action property
`LapsedUntilUnlock`. The inductive invariant `SessionInv` adds to these what a call under
way carries (`PendingRolesOK`: a change of role has a role to write; `StepsOK`: only a
change of role reaches the step that writes it), without which `SetRole` could write
no role at all. `LapseIsFinal` then needs only that the clock moves on and that
`SetRole` leaves the lifetime alone.

`ViewProofs` (every bound on requests, unlocks and time): types, `ShownSessionIsWatched`,
`ShownRoleIsGranted`. `ViewStepIsSessionStep` shows that the composition takes only steps of
`Session`, so that `SessionInv` carries over. `ShownRoleIsGranted` speaks of quiet states
only and says both that a session is shown exactly when a role is granted and which role
enables the controls; `ViewInv` says of every state that the store is `Synced` (the latest status among
the answers under way, or the store's own when there is none, fits the session) or that
a refresh is on its way whose answer the present page will get (`RefreshAwaited`). The
second half is what a reload needs: it drops one answer for each request sent before
its own refresh, never the refresh's. A status fits also when its session has run out
since; the ticker, which `ShownSessionIsWatched` keeps running, takes care of the rest.

`AuditLogProofs`:

* `AuditTypes` and `WriteLockExcludes`, for any number of copies: `HoldsLock` (a thread
  inside `append` holds the lock of its copy) is inductive across failures and crashes.
* `ReaderTypes`, for any number of copies and of verifications beside them.
* `UngluedReadsVerify`, for one running copy. First the log itself: that it verifies says
  nothing of the link a thread has read and not yet written, so it is not inductive.
  `ChainInv` adds `SeenIsCurrent` (that link is the one the verifier will expect),
  `ChainHolds` (torn fragments have their links too) and `TornIsOpen` (what is not whole
  is not terminated). The step that writes rests on `AppendKeepsLinks`, the one that reads
  on `UngluedLastHash`: without shared lines the two readers of the log agree. Then what a
  reader has of it: `FollowInv` says that, while no line is shared and the reader has not
  read on inside an object, its view is the beginning of the file, but for a last object
  that was torn and may be whole by now, so that the links of the file are links of the
  view.
* `AckedAreListed`, for any number of copies. `AckInv` follows an entry from the write of
  its last byte: it is whole in the file (`AckedAreWhole`, and `WrittenIsWhole` before its
  append returns), and the one place where a fragment is completed is the end of the file
  (`BodyIsLast`), which needs the kernel's lock. `KnownInv` carries it into every view: what
  was whole when the reader began is whole in what it has, and the object it met half
  written is none of these (`LiveIsTorn`). That it is whole is not yet that it is listed: by
  `ParsedOrTaken` a view without an error on any line lists each whole object or has given
  it to a torn one.
* `AppendImplementsTrail`, for one running copy: the file read as a list of entries takes
  only steps of `AuditTrail`, up to the first shared line. `TrailInv` adds to `ChainInv`
  what the trail gets at the moment an object becomes whole: `BodyIsPrepared` (the object
  at the end is the one its thread prepared, linked to what the verifier expects there)
  and `FreshIds` (its id is no other entry's). The theorem is proved step by step:
  `InitImplements`, `StepImplements`.
* `EditsAreDetected`, for one running copy and any number of edits. `VerifyOk` being false
  is not inductive: an append may restore it if nothing says where the break is. `GapInv`
  names the break, `Evidence`: a link to an entry that is gone, or content that no longer
  hashes. `EvidenceStays` survives further edits because a deletion leaves a gap behind
  itself (`LinksOrGaps`), and appends because no link points to an entry still to be
  written (`NoLinkAhead`), which could fill the gap.

`IndexStoreProofs` (for every set of threads and locations, every policy with a burst of
at least one, every bound): `RateIsKept`, `SingleFlightExcludes`, `InitializationStands`,
`ErrorsAreOfLocation` and types. `RateHolds` speaks of calls only and is not inductive;
`Budget` adds what is left in the bucket: tokens and calls since any
earlier call are together within the burst and what was earned since. `AllowKeeps` spends
one of the former for one of the latter, `RefillKeepsBudget` earns no more than the time
since the last refill. `ResultStands` holds because of `OneInitialization`: whoever else
could move the store would be a second initialization; `JobsOK` says which command is at
which step. `ErrorIsOfLocation` needs in addition that a check whose location is no
longer the store's is marked as overtaken.

`CredentialProofs` (any threads, credentials and bounds): types and the four invariants of
`CredentialStore`, and `DeletedStaysDeleted`. `CredInv` adds whom a call may meet:
`FreshIsAlone` (an id that is being added is in no other call), `InsertHasSecret` (an
addition that reaches the map has its secret stored), `ErasedIsGone` (what a delete
erased from the keychain stays out) and `OneTaker` (one delete erased it).

`ReviewProofs` (any tickets, items and bounds): types, `ReportIsTrue`, `MarksLandWhereDrawn`.
A report is made long after the scaffold was seen, so `ReviewInv` carries the claim along
the queue: a routine's call whose ticket is ensured names a ticket with a scaffold, and
no step drops one. `ViewsFollowStore` speaks of quiet states; `ViewInv` says of every
state that the panel shows the active ticket's scaffold or a load of it is under way
(`PanelRight`), the same for the index (`IndexRight`), and why late answers do no harm:
`LoadFollows`, every call whose answer the panel shows for another ticket is followed, in
the order of the calls, by a load of the ticket that is active now.

`HubProofs` (any providers, credentials and bounds): types, `LoadingIsAnswered`,
`HubMatchesBackend`, `TrayIsTrue`. `HubInv` says of every state, with calls under way or
not, what waits for whom: whatever shows "loading" has its call in the queue (`Loads`); the
configs shown are the gateway's or a call is under way after which its flow reloads them
(`ConfigsFollow`); the credentials listed exist (`ListFollows`: a deletion takes its
credential off the list in the step that answers it). The queue holds calls of the shapes in
`GoodCalls` only. `TrayIsTrue` needs one more: `PollIsOn` describes each place a poll can be
at that has met nothing else, with the ids it has marked by then telling the truth about
their secrets. The run also starts from a used hub; the theorems start from `Init`, from
which that state is reached.

`CommandsProofs` (any texts, every registered command): `DenialsMatchOffers`, by comparing the
three tables (`HandlersFollowTable`, `CapabilitiesFollowRoles`) and, for the two commands that
ask for nothing, by what they are (`UnaskedCommands`: one is offered to every role, the
other is not in the table); and
`SchedulesAreMeant`, by `PartsAreMeant`: for one part of a field, what the checks accept is
what spans values of the field and keeps some of them after its step. `NormalFormsHold`, by
`KeptIsNormal`: what a validator keeps of any text it accepts is a text of the same kind, is
accepted, and is kept as it is, but for URLs with blanks among their last slashes (section
4). For locations and URLs, `CutEnds` says where the cut of a tail stops:
the cut is defined by the last position it keeps, so the argument is over that
position and not an induction. `ReplyInv`
says that the text a command is called with again is one that was kept.

Assumptions are the `ASSUME`s of the modules, which TLC evaluates in every run, and
`SingleInstance` where stated: nothing keeps a second copy of the application from
starting, each copy has its own `write_lock`, and two of them can link two entries to
one predecessor.

Every invariant and every action property of the passing runs is stated by a theorem, and
so is the refinement. Only model-checked: liveness (`LockIsReleased`, `LapseIsShown`,
`FlightEnds`, `RoutinesEnd`), which is beyond the prover.

## 6. Not modelled

Assumed: the wall clock does not go back (a session would become valid again,
`session/mod.rs:39`); mutexes are not poisoned; ids are fresh; text of details and
labels plays no role (`sanitize_audit_details` can panic on a multi-byte character at
byte 1024, `commands/audit.rs:48`); the timestamps of the log need not be in its order
(`domain/audit.rs:139` takes them before `write_lock`), which nothing relies on.

Left out:

* The path policy (`storage/path_policy.rs`): its outcome depends on canonical paths and
  links of the file system, of which the program keeps no state; `IndexStore` has its two
  outcomes.
* The probe of the `lancedb` feature, which the default build does not contain.
* `setActiveProvider` of the hub: the list shows enabled providers only and the button is
  disabled for those; `testJiraConnection`, whose answer is shown and kept nowhere.
* In `TicketReview`: the completion ratio, texts and timestamps of a scaffold; the steps of
  a routine that touch neither tickets nor scaffolds are one call with their outcome.
* Rendering, navigation, display stores (`policy.ts`, `audit.ts`, `hub.ts`) and domain
  records no command uses.
* The shell, whose exits are the crash and restart actions.
