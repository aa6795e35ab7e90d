------------------------------ MODULE AuditLog ------------------------------
(***************************************************************************)
(* The audit log of storage/audit_store.rs: one JSONL file, appended to by *)
(* command threads under write_lock, surviving crashes of the application. *)
(* What a verification sees that reads while they append is AuditReader's. *)
(*                                                                         *)
(* writeln! on an unbuffered File issues one write for the JSON object and *)
(* one for the newline.  The file is therefore a sequence of fragments,    *)
(* each a whole object, or the part of one that reached the disk, with a   *)
(* flag telling whether a newline follows.  A hash is named by the id of   *)
(* the entry it was computed from (SHA-256 is taken as collision free).    *)
(***************************************************************************)
EXTENDS Naturals, Sequences, FiniteSets, SequencesExt

CONSTANTS
  Writers,        \* command threads that append
  Instances,      \* running copies of the application, each with its own write_lock
  InstanceOf,     \* the copy a thread belongs to
  NoWriter,       \* a free write_lock
  InitialFiles,   \* contents the file may have when the model starts
  MaxEntries,     \* bound: entries ever prepared
  MaxFaults,      \* bound: failed reads and writes, and crashes
  MaxEdits        \* bound: lines edited or deleted by something else

ASSUME WritersAssumption == NoWriter \notin Writers /\ InstanceOf \in [Writers -> Instances]
ASSUME BoundsAssumption == MaxEntries \in Nat /\ MaxFaults \in Nat /\ MaxEdits \in Nat

Genesis == 0
Ids == 1..MaxEntries
Kinds == {"whole", "cut", "split"}  \* "split": cut inside a multi-byte character

\* "taken": the object stands behind an unterminated torn one, where a value was
\* due, and the parser takes it as that value.  AuditActor is internally tagged: serde
\* buffers any value behind "actor": or "name": before it looks at its type.
FragmentsOf(kinds) == [id: Ids, kind: kinds, chained: BOOLEAN, prev: Ids \cup {Genesis},
                       intact: BOOLEAN, nl: BOOLEAN, taken: BOOLEAN]
Fragments == FragmentsOf(Kinds)

\* A file another version of the program left: whole unchained objects.
LegacyFile(f) ==
  /\ f \in Seq(Fragments)
  /\ Len(f) <= MaxEntries
  /\ \A i \in DOMAIN f : f[i].id = i /\ f[i].kind = "whole" /\ ~f[i].chained /\ f[i].nl /\ ~f[i].taken

ASSUME FilesAssumption == \A f \in InitialFiles : LegacyFile(f)

VARIABLES
  file,      \* the fragments of audit-log.jsonl
  lock,      \* lock[n]: holder of write_lock in instance n
  pc,        \* where each thread is in append
  entry,     \* id of the entry a thread appends
  seen,      \* prev_hash it read
  nextId,    \* next fresh id (uuid)
  acked,     \* entries whose append returned Ok
  faults,    \* crashes and failed reads and writes so far
  edits      \* edits so far: the kind of each, newest last

vars == <<file, lock, pc, entry, seen, nextId, acked, faults, edits>>

PCs == {"idle", "read", "spin", "write", "body", "newline"}
EditKinds == {"modified", "deleted", "deletedLast"}
-----------------------------------------------------------------------------
(* Reading the file *)

\* serde_json::from_str of a line succeeds only for one whole object alone on it.
AloneOnLine(f, i) ==
  /\ i = 1 \/ f[i-1].nl
  /\ i = Len(f) \/ f[i].nl

\* Lines last_entry_hash_unlocked takes a hash from; the others are skipped.
HashLines(f) ==
  {i \in DOMAIN f : f[i].kind = "whole" /\ f[i].chained /\ AloneOnLine(f, i)}

LastEntryHash(f) == IF HashLines(f) = {} THEN Genesis ELSE f[Max(HashLines(f))].id

\* The parser reaches the end of fragment j inside an object: j is torn, or was
\* taken as a value of a torn object, which is still open.
Open(e) == e.kind \in {"cut", "skipped"} \/ e.taken

\* Text follows on the line of j that the open object has no place for.
Overwritten(f, j) == j < Len(f) /\ ~f[j].nl /\ Open(f[j]) /\ ~f[j+1].taken

\* The text of the fragment is an error by itself: invalid UTF-8, or the rest of an
\* object whose beginning was read as a line of its own (AuditReader).
Unreadable(e) == e.kind \in {"split", "pieces"}

\* Mutant: the tolerance for torn objects extended to any error.
ReadAllFailsOnlyIfUnreadable(f) == \E j \in DOMAIN f : Unreadable(f[j])

\* read_all returns Err.  An object still open where its line ends is an end of
\* input, and is passed over with what it has taken.
ReadAllFails(f) == \E j \in DOMAIN f : Unreadable(f[j]) \/ Overwritten(f, j)

\* Entries the streaming deserializer yields before it meets an error on their line.
Parsed(f) ==
  {i \in DOMAIN f : /\ f[i].kind = "whole"
                    /\ \A j \in 1..(i-1) : f[j].kind # "whole" => \E k \in j..(i-1) : f[k].nl}

ChainedBefore(f, i) == {j \in Parsed(f) : j < i /\ f[j].chained}

ExpectedPrev(f, i) ==
  IF ChainedBefore(f, i) = {} THEN Genesis ELSE f[Max(ChainedBefore(f, i))].id

\* Mutant: entry_hash is not recomputed.
BrokenLinkOnly(f, i) == f[i].chained /\ f[i].prev # ExpectedPrev(f, i)

\* verify_integrity stops at such an entry: wrong link, or content that does
\* not hash to entry_hash.
Broken(f, i) == f[i].chained /\ (f[i].prev # ExpectedPrev(f, i) \/ ~f[i].intact)

VerifyOk(f) == ~ReadAllFails(f) /\ \A i \in Parsed(f) : ~Broken(f, i)
-----------------------------------------------------------------------------
(* append *)

Init ==
  /\ file \in InitialFiles
  /\ lock = [n \in Instances |-> NoWriter]
  /\ pc = [w \in Writers |-> "idle"]
  /\ entry = [w \in Writers |-> Genesis]
  /\ seen = [w \in Writers |-> Genesis]
  /\ nextId = Len(file) + 1
  /\ acked = {}
  /\ faults = 0
  /\ edits = <<>>

\* Mutant: a way out of append that keeps write_lock.
ReturnLocked(w) == pc' = [pc EXCEPT ![w] = "idle"] /\ UNCHANGED lock

\* The guard of write_lock is dropped on every way out of append.
Return(w) ==
  /\ pc' = [pc EXCEPT ![w] = "idle"]
  /\ lock' = [lock EXCEPT ![InstanceOf[w]] = NoWriter]

\* The kernel's inode lock: no write starts while another one is in progress.
FileFree == \A v \in Writers : pc[v] # "body"

\* Mutant: append without write_lock.
AcquireUnlocked(w) ==
  /\ pc[w] = "idle"
  /\ nextId <= MaxEntries
  /\ pc' = [pc EXCEPT ![w] = "read"]
  /\ entry' = [entry EXCEPT ![w] = nextId]
  /\ nextId' = nextId + 1
  /\ UNCHANGED <<file, lock, seen, acked, faults, edits>>

Acquire(w) ==
  /\ pc[w] = "idle"
  /\ lock[InstanceOf[w]] = NoWriter
  /\ nextId <= MaxEntries
  /\ lock' = [lock EXCEPT ![InstanceOf[w]] = w]
  /\ pc' = [pc EXCEPT ![w] = "read"]
  /\ entry' = [entry EXCEPT ![w] = nextId]
  /\ nextId' = nextId + 1
  /\ UNCHANGED <<file, seen, acked, faults, edits>>

\* One step although it is many reads: nothing that is written meanwhile, by another
\* copy, makes it return a hash that was not the last one at some moment between.
ReadLast(w) ==
  /\ pc[w] = "read"
  /\ seen' = [seen EXCEPT ![w] = LastEntryHash(file)]
  /\ pc' = [pc EXCEPT ![w] = "write"]
  /\ UNCHANGED <<file, lock, entry, nextId, acked, faults, edits>>

\* An error of the file that does not go away: every line read fails, the loop
\* skips the failure and never meets the end of the file.
ReadForever(w) ==
  /\ pc[w] = "read"
  /\ file # <<>>
  /\ faults < MaxFaults
  /\ faults' = faults + 1
  /\ pc' = [pc EXCEPT ![w] = "spin"]
  /\ UNCHANGED <<file, lock, entry, seen, nextId, acked, edits>>

\* Mutant: the link is not read from the file.
NewFragmentUnlinked(w, k, t) ==
  [id |-> entry[w], kind |-> k, chained |-> TRUE, prev |-> Genesis, intact |-> TRUE,
   nl |-> FALSE, taken |-> t]

\* Mutant: prev_hash is not set on the chained entry.
NewFragmentUnset(w, k, t) ==
  [id |-> entry[w], kind |-> k, chained |-> TRUE, intact |-> TRUE, nl |-> FALSE,
   taken |-> t]

NewFragment(w, k, t) ==
  [id |-> entry[w], kind |-> k, chained |-> TRUE, prev |-> seen[w], intact |-> TRUE,
   nl |-> FALSE, taken |-> t]

\* Behind an unterminated torn object a value may be due, or not: it depends on
\* where that one was cut.
ValueIsDue == file # <<>> /\ Last(file).kind = "cut" /\ ~Last(file).nl

\* The first bytes of the object are in the file, the last ones are not.
StartBody(w) ==
  /\ pc[w] = "write"
  /\ FileFree
  /\ \E k \in {"cut", "split"}, t \in BOOLEAN :
       (t => ValueIsDue) /\ file' = Append(file, NewFragment(w, k, t))
  /\ pc' = [pc EXCEPT ![w] = "body"]
  /\ UNCHANGED <<lock, entry, seen, nextId, acked, faults, edits>>

\* A value buffered while it was torn may be a type error once it is whole: the
\* tag of the actor is missing.
FinishBody(w) ==
  /\ pc[w] = "body"
  /\ \E t \in BOOLEAN :
       /\ t => Last(file).taken
       /\ file' = [file EXCEPT ![Len(file)] = [@ EXCEPT !.kind = "whole", !.taken = t]]
  /\ pc' = [pc EXCEPT ![w] = "newline"]
  /\ UNCHANGED <<lock, entry, seen, nextId, acked, faults, edits>>

Newline(w) ==
  /\ pc[w] = "newline"
  /\ FileFree
  /\ file' = [file EXCEPT ![Len(file)].nl = TRUE]
  /\ acked' = acked \cup {entry[w]}
  /\ Return(w)
  /\ UNCHANGED <<entry, seen, nextId, faults, edits>>

\* append returns Err: the path check, the directory, the open, or either
\* write fails.  What has reached the disk stays there.
Fail(w) ==
  /\ pc[w] \notin {"idle", "spin"}
  /\ faults < MaxFaults
  /\ faults' = faults + 1
  /\ Return(w)
  /\ UNCHANGED <<file, entry, seen, nextId, acked, edits>>

\* The process dies, or is quit from the tray, with appends under way.
Crash(n) ==
  /\ faults < MaxFaults
  /\ faults' = faults + 1
  /\ pc' = [w \in Writers |-> IF InstanceOf[w] = n THEN "idle" ELSE pc[w]]
  /\ lock' = [lock EXCEPT ![n] = NoWriter]
  /\ UNCHANGED <<file, entry, seen, nextId, acked, edits>>

\* Something else rewrites one line of the closed log: the two edits that
\* verify_integrity's tests make.
Quiet == \A w \in Writers : pc[w] = "idle"

Modify(i) ==
  /\ Quiet
  /\ Len(edits) < MaxEdits
  /\ i \in HashLines(file)
  /\ file' = [file EXCEPT ![i].intact = FALSE]
  /\ edits' = Append(edits, "modified")
  /\ UNCHANGED <<lock, pc, entry, seen, nextId, acked, faults>>

Delete(i) ==
  /\ Quiet
  /\ Len(edits) < MaxEdits
  /\ i \in HashLines(file)
  /\ file' = RemoveAt(file, i)
  /\ edits' = Append(edits, IF i = Max(HashLines(file)) THEN "deletedLast" ELSE "deleted")
  /\ UNCHANGED <<lock, pc, entry, seen, nextId, acked, faults>>

Step(w) == ReadLast(w) \/ StartBody(w) \/ FinishBody(w) \/ Newline(w)

Appending ==
  \/ \E w \in Writers : Acquire(w) \/ Step(w) \/ ReadForever(w) \/ Fail(w)
  \/ \E n \in Instances : Crash(n)

Editing == \E i \in DOMAIN file : Modify(i) \/ Delete(i)

Next == Appending \/ Editing

Spec == Init /\ [][Next]_vars
-----------------------------------------------------------------------------
(* Properties *)

\* Every variable keeps its type.
TypeOK ==
  /\ file \in Seq(Fragments)
  /\ lock \in [Instances -> Writers \cup {NoWriter}]
  /\ pc \in [Writers -> PCs]
  /\ entry \in [Writers -> Ids \cup {Genesis}]
  /\ seen \in [Writers -> Ids \cup {Genesis}]
  /\ nextId \in 1..(MaxEntries + 1)
  /\ acked \subseteq Ids
  /\ faults \in 0..MaxFaults
  /\ edits \in Seq(EditKinds)

Glued(f) == \E i \in 1..(Len(f)-1) : ~f[i].nl
Split(f) == \E i \in DOMAIN f : f[i].kind = "split"

\* Changed lines, and deleted lines that were not the newest, are reported ever
\* after: neither later appends nor further edits of this kind repair the chain
\* (verify_integrity).
EditsStayDetected ==
  edits # <<>> /\ (\A k \in DOMAIN edits : edits[k] # "deletedLast") /\ ~Glued(file)
    => ~VerifyOk(file)

\* Doc comment of last_entry_hash_unlocked: the hash it returns is that of the
\* last entry in the log, the newest one the verifier sees.
LastHashIsLastEntry ==
  (\E w \in Writers : pc[w] = "read") /\ ~ReadAllFails(file)
     => LastEntryHash(file) = ExpectedPrev(file, Len(file) + 1)

\* No append holds write_lock for ever, whichever step of it fails, but one whose
\* reads of the file keep failing.
LockIsReleased ==
  \A n \in Instances :
    []<>(lock[n] = NoWriter \/ \E w \in Writers : InstanceOf[w] = n /\ pc[w] = "spin")

\* The trail: the entries in front of the first unterminated line, and the one
\* on that line once it is whole.
FirstOpen(f) == Min({i \in DOMAIN f : ~f[i].nl} \cup {Len(f) + 1})

TrailLength(f) ==
  IF FirstOpen(f) <= Len(f) /\ f[FirstOpen(f)].kind = "whole"
    THEN FirstOpen(f) ELSE FirstOpen(f) - 1

Trail ==
  [i \in 1..TrailLength(file) |->
     [id |-> file[i].id, chained |-> file[i].chained, prev |-> file[i].prev,
      intact |-> file[i].intact]]

Promise == INSTANCE AuditTrail WITH trail <- Trail

\* With one running copy, whatever fails, append implements the atomic, chained
\* append that the trail promises, up to the first append behind a torn line.
ImplementsTrail == Promise!TrailSpec
=============================================================================
