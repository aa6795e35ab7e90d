--------------------------- MODULE AuditLogProofs ---------------------------
(***************************************************************************)
(* Proofs about AuditLog and AuditReader.  For any number of copies of the *)
(* application: types, the exclusion that write_lock gives, and that a     *)
(* verification lists acknowledged entries.  For one copy with any number  *)
(* of threads, readers, faults and edits: the chain of the log and what a  *)
(* reader sees of it, the refinement of AuditTrail, and that edits stay    *)
(* detected.                                                               *)
(***************************************************************************)
EXTENDS AuditReader, TLAPS, WellFoundedInduction

LEMMA MinExists ==
  ASSUME NEW S, S \subseteq Nat, S # {}
  PROVE  \E x \in S : \A y \in S : x <= y
<1>1. PICK x \in S : \A y \in S : ~ (<<y, x>> \in OpToRel(<, Nat))
  BY NatLessThanWellFounded, WFMin, Zenon
<1>2. \A y \in S : ~ (y < x)
  BY <1>1 DEF OpToRel
<1> QED BY <1>2

\* Max of a bounded set of naturals is one of its members.
LEMMA MaxExists ==
  ASSUME NEW n \in Nat, NEW S, S \subseteq 0..n, S # {}
  PROVE  Max(S) \in S /\ \A y \in S : y <= Max(S)
<1> DEFINE T == {n - i : i \in S}
<1>1. T \subseteq Nat
  OBVIOUS
<1>2. T # {}
  <2>1. PICK z \in S : TRUE
    OBVIOUS
  <2>2. n - z \in T
    BY <2>1
  <2> QED BY <2>2
<1>3. PICK x \in T : \A y \in T : x <= y
  BY <1>1, <1>2, MinExists
<1>4. PICK m \in S : x = n - m
  OBVIOUS
<1>5. \A y \in S : n - m <= n - y
  BY <1>3, <1>4
<1>6. \A y \in S : m >= y
  BY <1>5
<1> QED BY <1>6 DEF Max

\* Removing an element moves the later ones up and changes nothing else.
LEMMA RemovalKeepsTheRest ==
  ASSUME NEW S, NEW f \in Seq(S), NEW i \in 1..Len(f)
  PROVE  /\ RemoveAt(f, i) \in Seq(S)
         /\ Len(RemoveAt(f, i)) = Len(f) - 1
         /\ \A k \in 1..(Len(f) - 1) : RemoveAt(f, i)[k] = IF k < i THEN f[k] ELSE f[k + 1]
         /\ \A k \in DOMAIN RemoveAt(f, i) : \E j \in DOMAIN f : RemoveAt(f, i)[k] = f[j]
<1> DEFINE a == SubSeq(f, 1, i - 1)
           b == SubSeq(f, i + 1, Len(f))
<1>1. a \in Seq(S) /\ Len(a) = i - 1 /\ \A k \in 1..(i-1) : a[k] = f[k]
  OBVIOUS
<1>2. b \in Seq(S) /\ Len(b) = Len(f) - i /\ \A k \in 1..(Len(f)-i) : b[k] = f[i + k]
  OBVIOUS
<1>3. RemoveAt(f, i) = a \o b
  BY DEF RemoveAt
<1> HIDE DEF a, b
<1>4. RemoveAt(f, i) \in Seq(S) /\ Len(RemoveAt(f, i)) = Len(f) - 1
  BY <1>1, <1>2, <1>3
<1>5. ASSUME NEW k \in 1..(Len(f) - 1)
      PROVE  RemoveAt(f, i)[k] = IF k < i THEN f[k] ELSE f[k + 1]
  <2>1. CASE k < i
    <3>1. k \in 1..(i - 1)
      BY <2>1
    <3> QED BY <1>1, <1>2, <1>3, <3>1
  <2>2. CASE k >= i
    <3>1. k - (i - 1) \in 1..(Len(f) - i) /\ i + (k - (i - 1)) = k + 1
      BY <2>2
    <3>2. (a \o b)[k] = b[k - (i - 1)]
      BY <1>1, <1>2, <2>2
    <3> QED BY <1>2, <1>3, <2>2, <3>1, <3>2
  <2> QED BY <2>1, <2>2
<1>6. ASSUME NEW k \in DOMAIN RemoveAt(f, i)
      PROVE  \E j \in DOMAIN f : RemoveAt(f, i)[k] = f[j]
  <2>1. k \in 1..(Len(f) - 1)
    BY <1>4
  <2>2. k \in DOMAIN f /\ k + 1 \in DOMAIN f
    BY <2>1
  <2> QED BY <1>5, <2>1, <2>2
<1> QED BY <1>4, <1>5, <1>6

\* The hash a thread links to is that of an entry, or Genesis.
LEMMA LastEntryHashType ==
  ASSUME NEW f \in Seq(Fragments)
  PROVE  LastEntryHash(f) \in Ids \cup {Genesis}
<1>1. HashLines(f) \subseteq 0..Len(f)
  BY DEF HashLines
<1>2. CASE HashLines(f) # {}
  <2>1. Max(HashLines(f)) \in HashLines(f)
    BY <1>1, <1>2, MaxExists
  <2>2. Max(HashLines(f)) \in 1..Len(f)
    BY <2>1 DEF HashLines
  <2>3. f[Max(HashLines(f))] \in Fragments
    BY <2>2
  <2> QED BY <1>2, <2>3 DEF LastEntryHash, Fragments, FragmentsOf
<1> QED BY <1>2 DEF LastEntryHash

\* The object at the end of the file is whole and otherwise as it was.
LEMMA FinishedBody ==
  ASSUME file \in Seq(Fragments), file # <<>>, NEW w \in Writers, FinishBody(w)
  PROVE  /\ file' \in Seq(Fragments) /\ Len(file') = Len(file) /\ Len(file) \in DOMAIN file
         /\ \A i \in DOMAIN file : i # Len(file) => file'[i] = file[i]
         /\ LET e == file[Len(file)]
                n == file'[Len(file)]
            IN  /\ n.id = e.id /\ n.chained = e.chained /\ n.prev = e.prev
                /\ n.intact = e.intact /\ n.nl = e.nl /\ n.kind = "whole"
<1>1. PICK t \in BOOLEAN :
        file' = [file EXCEPT ![Len(file)] = [file[Len(file)] EXCEPT !.kind = "whole", !.taken = t]]
  BY DEF FinishBody
<1>2. Len(file) \in DOMAIN file /\ file[Len(file)] \in Fragments
  OBVIOUS
<1> DEFINE n == [file[Len(file)] EXCEPT !.kind = "whole", !.taken = t]
<1>3. n \in Fragments
  BY <1>2 DEF Fragments, FragmentsOf, Kinds
<1>4. LET e == file[Len(file)]
      IN  /\ n.id = e.id /\ n.chained = e.chained /\ n.prev = e.prev
          /\ n.intact = e.intact /\ n.nl = e.nl /\ n.kind = "whole"
  BY <1>2 DEF Fragments, FragmentsOf
<1>5. file' = [file EXCEPT ![Len(file)] = n]
  BY <1>1
<1> HIDE DEF n
<1>6. file' \in Seq(Fragments) /\ Len(file') = Len(file) /\ file'[Len(file)] = n
      /\ \A i \in DOMAIN file : i # Len(file) => file'[i] = file[i]
  BY <1>2, <1>3, <1>5
<1> QED BY <1>2, <1>4, <1>6

\* A thread inside append holds the lock of its copy and has an entry to write.
HoldsLock == \A w \in Writers : pc[w] # "idle" => lock[InstanceOf[w]] = w
HasEntry == \A w \in Writers : pc[w] # "idle" => entry[w] \in Ids
\* A thread that has started on the object has a fragment in the file.
HasFragment == \A w \in Writers : pc[w] \in {"body", "newline"} => file # <<>>

TypeInv == TypeOK /\ HoldsLock /\ HasEntry /\ HasFragment

\* Finishing an object or its line touches the last fragment alone.
LEMMA TailStep ==
  ASSUME TypeInv, NEW w \in Writers, FinishBody(w) \/ Newline(w)
  PROVE  /\ Len(file') = Len(file) /\ Len(file) \in DOMAIN file
         /\ \A i \in DOMAIN file : i # Len(file) => file'[i] = file[i]
         /\ LET e == file[Len(file)]
                n == file'[Len(file)]
            IN  /\ n.id = e.id /\ n.chained = e.chained /\ n.prev = e.prev
                /\ n.intact = e.intact /\ (e.kind = "whole" => n.kind = "whole")
         /\ UNCHANGED <<entry, seen, nextId, edits>>
         /\ pc[w] \in {"body", "newline"} /\ pc'[w] \in {"newline", "idle"}
         /\ \A v \in Writers : v # w => pc'[v] = pc[v]
<1> USE DEF TypeInv, TypeOK
<1>1. CASE FinishBody(w)
  <2>1. file # <<>> /\ pc[w] = "body" /\ pc' = [pc EXCEPT ![w] = "newline"]
        /\ UNCHANGED <<entry, seen, nextId, edits>>
    BY <1>1 DEF FinishBody, HasFragment
  <2> QED BY <1>1, <2>1, FinishedBody
<1>2. CASE Newline(w)
  <2>1. file # <<>> /\ pc[w] = "newline" /\ pc' = [pc EXCEPT ![w] = "idle"]
        /\ UNCHANGED <<entry, seen, nextId, edits>>
    BY <1>2 DEF Newline, Return, HasFragment
  <2>2. Len(file) \in DOMAIN file /\ file[Len(file)] \in Fragments
    BY <2>1
  <2> DEFINE n == [file[Len(file)] EXCEPT !.nl = TRUE]
  <2>3. LET e == file[Len(file)]
        IN  /\ n.id = e.id /\ n.chained = e.chained /\ n.prev = e.prev
            /\ n.intact = e.intact /\ n.kind = e.kind
    BY <2>2 DEF Fragments, FragmentsOf
  <2>4. file' = [file EXCEPT ![Len(file)] = n]
    BY <1>2 DEF Newline
  <2> HIDE DEF n
  <2>5. Len(file') = Len(file) /\ file'[Len(file)] = n
        /\ \A i \in DOMAIN file : i # Len(file) => file'[i] = file[i]
    BY <2>2, <2>4
  <2> QED BY <2>1, <2>2, <2>3, <2>5
<1> QED BY <1>1, <1>2

LEMMA InitTypes == Init => TypeInv
<1> SUFFICES ASSUME Init PROVE TypeInv
  OBVIOUS
<1>1. LegacyFile(file)
  BY FilesAssumption DEF Init
<1>2. file \in Seq(Fragments) /\ nextId \in 1..(MaxEntries + 1)
  BY <1>1, BoundsAssumption DEF Init, LegacyFile
<1> QED BY <1>2, WritersAssumption, BoundsAssumption
        DEF Init, TypeInv, TypeOK, HoldsLock, HasEntry, HasFragment, PCs, Genesis

LEMMA StepTypes == TypeInv /\ [Next]_vars => TypeInv'
<1> SUFFICES ASSUME TypeInv, [Next]_vars PROVE TypeInv'
  OBVIOUS
<1> USE DEF TypeInv, TypeOK, HoldsLock, HasEntry, HasFragment
<1>1. ASSUME NEW w \in Writers, Acquire(w) PROVE TypeInv'
  <2>1. InstanceOf[w] \in Instances
    BY WritersAssumption
  <2>2. HoldsLock'
    BY <1>1, <2>1, WritersAssumption DEF Acquire
  <2>3. HasEntry' /\ HasFragment'
    BY <1>1, BoundsAssumption DEF Acquire, Ids
  <2> QED BY <1>1, <2>1, <2>2, <2>3, BoundsAssumption DEF Acquire, PCs, Ids
<1>2. ASSUME NEW w \in Writers, ReadLast(w) PROVE TypeInv'
  BY <1>2, LastEntryHashType DEF ReadLast, PCs
<1>3. ASSUME NEW w \in Writers, StartBody(w) PROVE TypeInv'
  <2>1. PICK k \in {"cut", "split"}, t \in BOOLEAN : file' = Append(file, NewFragment(w, k, t))
    BY <1>3 DEF StartBody
  <2>2. NewFragment(w, k, t) \in Fragments
    BY <1>3 DEF StartBody, NewFragment, Fragments, FragmentsOf, Kinds
  <2>3. file' \in Seq(Fragments) /\ file' # <<>>
    BY <2>1, <2>2
  <2> QED BY <1>3, <2>3 DEF StartBody, PCs
<1>4. ASSUME NEW w \in Writers, FinishBody(w) PROVE TypeInv'
  <2>1. file # <<>>
    BY <1>4 DEF FinishBody
  <2>3. file' \in Seq(Fragments) /\ file' # <<>>
    BY <1>4, <2>1, FinishedBody
  <2> QED BY <1>4, <2>3 DEF FinishBody, PCs
<1>5. ASSUME NEW w \in Writers, pc[w] # "idle", Return(w), UNCHANGED <<file, entry>>
      PROVE  /\ pc' \in [Writers -> PCs]
             /\ lock' \in [Instances -> Writers \cup {NoWriter}]
             /\ HoldsLock' /\ HasEntry' /\ HasFragment'
  <2>1. InstanceOf[w] \in Instances
    BY WritersAssumption
  <2>2. HoldsLock'
    BY <1>5, <2>1, WritersAssumption DEF Return
  <2>3. HasEntry' /\ HasFragment'
    BY <1>5 DEF Return
  <2> QED BY <1>5, <2>1, <2>2, <2>3 DEF Return, PCs
<1>6. ASSUME NEW w \in Writers, Newline(w) PROVE TypeInv'
  <2>1. Len(file) \in 1..Len(file) /\ file[Len(file)] \in Fragments
    BY <1>6 DEF Newline
  <2>2. [file[Len(file)] EXCEPT !.nl = TRUE] \in Fragments
    BY <2>1 DEF Fragments, FragmentsOf
  <2>3. file' \in Seq(Fragments) /\ file' # <<>>
    BY <1>6, <2>1, <2>2 DEF Newline
  <2>4. acked' \subseteq Ids
    BY <1>6 DEF Newline
  <2> QED BY <1>6, <2>3, <2>4, WritersAssumption DEF Newline, Return, PCs
<1>7. ASSUME NEW w \in Writers, Fail(w) PROVE TypeInv'
  BY <1>5, <1>7, BoundsAssumption DEF Fail
<1>8. ASSUME NEW n \in Instances, Crash(n) PROVE TypeInv'
  BY <1>8, WritersAssumption, BoundsAssumption DEF Crash, PCs
<1>9. ASSUME NEW i \in DOMAIN file, Modify(i) PROVE TypeInv'
  <2>1. file[i] \in Fragments
    OBVIOUS
  <2>2. [file[i] EXCEPT !.intact = FALSE] \in Fragments
    BY <2>1 DEF Fragments, FragmentsOf
  <2>3. file' \in Seq(Fragments)
    BY <1>9, <2>2 DEF Modify
  <2> QED BY <1>9, <2>3 DEF Modify, Quiet, EditKinds
<1>10. ASSUME NEW i \in DOMAIN file, Delete(i) PROVE TypeInv'
  <2>1. file' \in Seq(Fragments)
    BY <1>10, RemovalKeepsTheRest DEF Delete
  <2> QED BY <1>10, <2>1 DEF Delete, Quiet, EditKinds
<1>11. CASE UNCHANGED vars
  BY <1>11 DEF vars
<1>12. ASSUME NEW w \in Writers, ReadForever(w) PROVE TypeInv'
  BY <1>12, BoundsAssumption DEF ReadForever, PCs
<1> QED BY <1>1, <1>2, <1>3, <1>4, <1>6, <1>7, <1>8, <1>9, <1>10, <1>11, <1>12 DEF Next, Appending, Editing, Step

\* Every variable keeps its type, whatever runs, fails and is edited.
THEOREM AuditTypes == Spec => []TypeOK
<1>1. TypeInv => TypeOK
  BY DEF TypeInv
<1> QED BY <1>1, InitTypes, StepTypes, PTL DEF Spec

\* write_lock: no two threads of one copy are inside append.
OneWriterPerCopy ==
  \A v, w \in Writers :
    pc[v] # "idle" /\ pc[w] # "idle" /\ InstanceOf[v] = InstanceOf[w] => v = w

\* The lock of each copy is exclusive, across failures and crashes.
THEOREM WriteLockExcludes == Spec => []OneWriterPerCopy
<1>1. TypeInv => OneWriterPerCopy
  BY DEF TypeInv, HoldsLock, OneWriterPerCopy
<1> QED BY <1>1, InitTypes, StepTypes, PTL DEF Spec
-----------------------------------------------------------------------------
(* The chain of one running copy *)

SingleInstance == \A v, w \in Writers : InstanceOf[v] = InstanceOf[w]

\* Only the object being written, or torn while it was, is not whole, and no
\* newline follows it.
TornIsOpen == \A i \in DOMAIN file : file[i].kind # "whole" => ~file[i].nl

\* What the writing thread left at the end of the file.
TailMatchesWriter ==
  \A w \in Writers : pc[w] = "newline" => file[Len(file)].kind = "whole"

\* Every chained fragment, the torn ones too, has its content and its link.
ChainHolds ==
  edits = <<>> /\ ~Glued(file) =>
    \A i \in DOMAIN file :
      file[i].chained => file[i].intact /\ file[i].prev = ExpectedPrev(file, i)

\* The link a thread is about to write is the one the verifier will expect.
SeenIsCurrent ==
  \A w \in Writers :
    pc[w] = "write" /\ ~Glued(file) =>
      seen[w] = ExpectedPrev(file, Len(file) + 1)

ChainInv == TypeInv /\ TornIsOpen /\ TailMatchesWriter /\ ChainHolds /\ SeenIsCurrent

\* Without glued lines the verifier yields every whole fragment.
LEMMA UngluedParsed ==
  ASSUME NEW f \in Seq(Fragments), ~Glued(f),
         \A i \in DOMAIN f : f[i].kind # "whole" => ~f[i].nl
  PROVE  /\ \A i \in 1..(Len(f) - 1) : f[i].kind = "whole" /\ f[i].nl
         /\ Parsed(f) = {i \in DOMAIN f : f[i].kind = "whole"}
<1>1. \A i \in 1..(Len(f) - 1) : f[i].kind = "whole" /\ f[i].nl
  BY DEF Glued
<1>2. \A i \in DOMAIN f : \A j \in 1..(i-1) : f[j].kind = "whole"
  BY <1>1
<1> QED BY <1>1, <1>2 DEF Parsed

\* The link expected at i depends only on the chained fragments before i: two
\* files that agree on them expect the same.
LEMMA SamePrefixSamePrev ==
  ASSUME NEW S, NEW T, NEW f \in Seq(S), NEW g \in Seq(T), NEW i \in Nat,
         ChainedBefore(f, i) = ChainedBefore(g, i),
         \A j \in ChainedBefore(f, i) : f[j].id = g[j].id
  PROVE  ExpectedPrev(f, i) = ExpectedPrev(g, i)
<1>1. CASE ChainedBefore(f, i) = {}
  BY <1>1 DEF ExpectedPrev
<1>2. CASE ChainedBefore(f, i) # {}
  <2>1. ChainedBefore(f, i) \subseteq 0..Len(f)
    BY DEF ChainedBefore, Parsed
  <2>2. Max(ChainedBefore(f, i)) \in ChainedBefore(f, i)
    BY <1>2, <2>1, MaxExists
  <2> QED BY <1>2, <2>2 DEF ExpectedPrev
<1> QED BY <1>1, <1>2

\* Without glued lines the thread reads the hash that the verifier expects next.
LEMMA UngluedLastHash ==
  ASSUME NEW f \in Seq(Fragments), ~Glued(f),
         \A i \in DOMAIN f : f[i].kind # "whole" => ~f[i].nl
  PROVE  LastEntryHash(f) = ExpectedPrev(f, Len(f) + 1)
<1>1. \A i \in DOMAIN f : AloneOnLine(f, i)
  BY DEF AloneOnLine, Glued
<1>2. Parsed(f) = {i \in DOMAIN f : f[i].kind = "whole"}
  BY UngluedParsed
<1>3. HashLines(f) = ChainedBefore(f, Len(f) + 1)
  BY <1>1, <1>2 DEF HashLines, ChainedBefore
<1> QED BY <1>3 DEF LastEntryHash, ExpectedPrev

\* A fragment put behind terminated lines changes no link before it and is
\* expected to link where the verifier then stands.
LEMMA AppendKeepsLinks ==
  ASSUME NEW f \in Seq(Fragments), NEW e \in Fragments, ~Glued(Append(f, e)),
         \A i \in DOMAIN f : f[i].kind # "whole" => ~f[i].nl,
         e.kind # "whole", ~e.nl
  PROVE  /\ ~Glued(f)
         /\ \A i \in 1..(Len(f) + 1) : ExpectedPrev(Append(f, e), i) = ExpectedPrev(f, i)
<1> DEFINE g == Append(f, e)
<1>1. g \in Seq(Fragments) /\ Len(g) = Len(f) + 1 /\ g[Len(f) + 1] = e
      /\ \A i \in DOMAIN f : g[i] = f[i]
  OBVIOUS
<1>2. \A i \in DOMAIN f : f[i].nl
  BY <1>1 DEF Glued
<1>3. ~Glued(f)
  BY <1>2 DEF Glued
<1>4. \A i \in DOMAIN g : g[i].kind # "whole" => ~g[i].nl
  BY <1>1
<1> HIDE DEF g
<1>5. Parsed(g) = {i \in DOMAIN g : g[i].kind = "whole"}
      /\ Parsed(f) = {i \in DOMAIN f : f[i].kind = "whole"}
  BY <1>1, <1>3, <1>4, UngluedParsed DEF g
<1>6. ASSUME NEW i \in 1..(Len(f) + 1) PROVE ExpectedPrev(g, i) = ExpectedPrev(f, i)
  <2>1. ChainedBefore(g, i) = ChainedBefore(f, i)
    BY <1>1, <1>5 DEF ChainedBefore
  <2>2. \A j \in ChainedBefore(f, i) : j \in DOMAIN f
    BY DEF ChainedBefore, Parsed
  <2> QED BY <1>1, <2>1, <2>2, SamePrefixSamePrev
<1> QED BY <1>3, <1>6 DEF g

\* Completing the last fragment, or its line, changes no link up to it.
LEMMA TailKeepsLinks ==
  ASSUME NEW f \in Seq(Fragments), NEW g \in Seq(Fragments), Len(g) = Len(f), ~Glued(f),
         \A i \in 1..(Len(f) - 1) : g[i] = f[i],
         \A i \in DOMAIN f : f[i].kind # "whole" => ~f[i].nl,
         \A i \in DOMAIN g : g[i].kind # "whole" => ~g[i].nl
  PROVE  \A i \in DOMAIN f : ExpectedPrev(g, i) = ExpectedPrev(f, i)
<1>1. ~Glued(g)
  BY DEF Glued
<1>2. Parsed(g) = {i \in DOMAIN g : g[i].kind = "whole"}
      /\ Parsed(f) = {i \in DOMAIN f : f[i].kind = "whole"}
  BY <1>1, UngluedParsed
<1> SUFFICES ASSUME NEW i \in DOMAIN f PROVE ExpectedPrev(g, i) = ExpectedPrev(f, i)
  OBVIOUS
<1>3. ChainedBefore(g, i) = ChainedBefore(f, i)
  BY <1>2 DEF ChainedBefore
<1>4. \A j \in ChainedBefore(f, i) : j \in 1..(Len(f) - 1)
  BY DEF ChainedBefore, Parsed
<1> QED BY <1>3, <1>4, SamePrefixSamePrev

LEMMA InitChain == Init => ChainInv
<1> SUFFICES ASSUME Init PROVE ChainInv
  OBVIOUS
<1>1. LegacyFile(file)
  BY FilesAssumption DEF Init
<1>2. TypeInv
  BY InitTypes
<1> QED BY <1>1, <1>2
        DEF Init, ChainInv, TornIsOpen, TailMatchesWriter, ChainHolds, SeenIsCurrent, LegacyFile

LEMMA StepChain == SingleInstance /\ ChainInv /\ [Next]_vars => ChainInv'
<1> SUFFICES ASSUME SingleInstance, ChainInv, [Next]_vars PROVE ChainInv'
  OBVIOUS
<1>0. TypeInv /\ TypeInv' /\ OneWriterPerCopy
  BY StepTypes DEF ChainInv, TypeInv, HoldsLock, OneWriterPerCopy
<1> DEFINE NewInv == TornIsOpen /\ TailMatchesWriter /\ ChainHolds /\ SeenIsCurrent
<1>a. \A v, w \in Writers : pc[v] # "idle" /\ pc[w] # "idle" => v = w
  BY <1>0 DEF OneWriterPerCopy, SingleInstance
<1>b. file \in Seq(Fragments) /\ file' \in Seq(Fragments) /\ edits \in Seq(EditKinds)
      /\ pc \in [Writers -> PCs] /\ seen \in [Writers -> Ids \cup {Genesis}]
  BY <1>0 DEF TypeInv, TypeOK
<1>c. TornIsOpen /\ TailMatchesWriter /\ ChainHolds /\ SeenIsCurrent
  BY DEF ChainInv
\* A step that leaves the file alone and lets no thread start to write.
<1>d. ASSUME UNCHANGED <<file, edits, seen>>,
             \A w \in Writers : pc'[w] \in {"write", "newline"} => pc'[w] = pc[w]
      PROVE  NewInv'
  BY <1>c, <1>d DEF TornIsOpen, TailMatchesWriter, ChainHolds, SeenIsCurrent
\* After an edit of the file the chain is no longer claimed.
<1>e. ASSUME Quiet, UNCHANGED pc, edits' # <<>>, TornIsOpen' PROVE NewInv'
  BY <1>e DEF Quiet, TailMatchesWriter, ChainHolds, SeenIsCurrent
<1>1. ASSUME NEW w \in Writers, Acquire(w) PROVE NewInv'
  BY <1>b, <1>d, <1>1 DEF Acquire
<1>2. ASSUME NEW w \in Writers, ReadLast(w) PROVE NewInv'
  <2>1. TornIsOpen' /\ TailMatchesWriter' /\ ChainHolds'
    BY <1>b, <1>c, <1>2 DEF ReadLast, TornIsOpen, TailMatchesWriter, ChainHolds
  <2>2. ASSUME NEW v \in Writers, pc'[v] = "write", ~Glued(file')
        PROVE  seen'[v] = ExpectedPrev(file', Len(file') + 1)
    <3>1. v = w
      BY <1>a, <1>b, <1>2, <2>2 DEF ReadLast
    <3>2. LastEntryHash(file) = ExpectedPrev(file, Len(file) + 1)
      BY <1>b, <1>c, <1>2, <2>2, UngluedLastHash DEF ReadLast, TornIsOpen
    <3> QED BY <1>b, <1>2, <3>1, <3>2 DEF ReadLast
  <2> QED BY <2>1, <2>2 DEF SeenIsCurrent
<1>3. ASSUME NEW w \in Writers, StartBody(w) PROVE NewInv'
  <2>1. PICK k \in {"cut", "split"}, t \in BOOLEAN : file' = Append(file, NewFragment(w, k, t))
    BY <1>3 DEF StartBody
  <2> DEFINE e == NewFragment(w, k, t)
  <2>2. e \in Fragments /\ e.kind # "whole" /\ ~e.nl /\ e.chained /\ e.intact /\ e.prev = seen[w]
    BY <1>0, <1>b, <1>3 DEF StartBody, NewFragment, Fragments, FragmentsOf, Kinds, TypeInv, HasEntry
  <2> HIDE DEF e
  <2>3. Len(file') = Len(file) + 1 /\ file'[Len(file) + 1] = e /\ \A i \in DOMAIN file : file'[i] = file[i]
    BY <1>b, <2>1, <2>2 DEF e
  <2>4. TornIsOpen'
    BY <1>b, <1>c, <2>2, <2>3 DEF TornIsOpen
  <2>5. TailMatchesWriter' /\ SeenIsCurrent'
    BY <1>a, <1>b, <1>3 DEF StartBody, TailMatchesWriter, SeenIsCurrent
  <2>6. ASSUME edits' = <<>>, ~Glued(file'), NEW i \in DOMAIN file'
        PROVE  file'[i].chained => file'[i].intact /\ file'[i].prev = ExpectedPrev(file', i)
    <3>0. file' = Append(file, e)
      BY <2>1 DEF e
    <3>1. /\ ~Glued(file)
          /\ \A j \in 1..(Len(file) + 1) : ExpectedPrev(file', j) = ExpectedPrev(file, j)
      BY <1>b, <1>c, <2>2, <2>6, <3>0, AppendKeepsLinks DEF TornIsOpen
    <3>2. edits = <<>> /\ seen[w] = ExpectedPrev(file, Len(file) + 1)
      BY <1>c, <1>3, <2>6, <3>1 DEF StartBody, SeenIsCurrent
    <3>3. CASE i \in DOMAIN file
      BY <1>b, <1>c, <2>3, <3>1, <3>2, <3>3 DEF ChainHolds
    <3>4. CASE i = Len(file) + 1
      BY <2>2, <2>3, <3>1, <3>2, <3>4
    <3> QED BY <1>b, <2>3, <3>3, <3>4
  <2> QED BY <2>4, <2>5, <2>6 DEF ChainHolds
<1>4. ASSUME NEW w \in Writers, FinishBody(w) \/ Newline(w) PROVE NewInv'
  <2>1. /\ Len(file) \in 1..Len(file)
        /\ edits' = edits
        /\ pc[w] \in {"body", "newline"}
        /\ \A v \in Writers : v # w => pc[v] = "idle" /\ pc'[v] = "idle"
    BY <1>0, <1>a, <1>b, <1>4, TailStep
  <2>2. /\ Len(file') = Len(file)
        /\ \A i \in 1..(Len(file) - 1) : file'[i] = file[i]
        /\ file'[Len(file)].chained = file[Len(file)].chained
        /\ file'[Len(file)].intact = file[Len(file)].intact
        /\ file'[Len(file)].prev = file[Len(file)].prev
        /\ file'[Len(file)].kind = "whole"
    <3>1. file[Len(file)] \in Fragments
      BY <1>b, <2>1
    <3>2. CASE FinishBody(w)
      BY <1>b, <2>1, <3>2, FinishedBody
    <3>3. CASE Newline(w)
      <4>1. file[Len(file)].kind = "whole"
        BY <1>c, <3>3 DEF Newline, TailMatchesWriter
      <4> QED BY <1>b, <2>1, <3>1, <3>3, <4>1 DEF Newline, Fragments, FragmentsOf
    <3> QED BY <1>4, <3>2, <3>3
  <2>3. TornIsOpen'
    <3>1. DOMAIN file' = DOMAIN file /\ DOMAIN file = 1..Len(file)
      BY <1>b, <2>2
    <3>2. ASSUME NEW i \in DOMAIN file, file'[i].kind # "whole" PROVE ~file'[i].nl
      <4>1. i \in 1..(Len(file) - 1)
        BY <1>b, <2>2, <3>1, <3>2
      <4> QED BY <1>c, <2>2, <3>1, <3>2, <4>1 DEF TornIsOpen
    <3> QED BY <3>1, <3>2 DEF TornIsOpen
  <2>4. TailMatchesWriter'
    BY <2>1, <2>2 DEF TailMatchesWriter
  <2>5. SeenIsCurrent'
    <3>1. pc'[w] # "write"
      BY <1>b, <1>4 DEF FinishBody, Newline, Return
    <3> QED BY <2>1, <3>1 DEF SeenIsCurrent
  <2>6. ASSUME edits' = <<>>, ~Glued(file'), NEW i \in DOMAIN file'
        PROVE  file'[i].chained => file'[i].intact /\ file'[i].prev = ExpectedPrev(file', i)
    <3>1. ~Glued(file)
      BY <2>2, <2>6 DEF Glued
    <3>2. \A j \in DOMAIN file : ExpectedPrev(file', j) = ExpectedPrev(file, j)
      BY <1>b, <1>c, <2>2, <2>3, <3>1, TailKeepsLinks DEF TornIsOpen
    <3>3. DOMAIN file' = DOMAIN file
      BY <1>b, <2>2
    <3>4. file[i].chained => file[i].intact /\ file[i].prev = ExpectedPrev(file, i)
      BY <1>c, <2>1, <2>6, <3>1, <3>3 DEF ChainHolds
    <3>5. CASE i = Len(file)
      BY <2>2, <3>2, <3>3, <3>4, <3>5
    <3>6. CASE i # Len(file)
      <4>1. file'[i] = file[i]
        BY <1>b, <2>2, <3>3, <3>6
      <4> QED BY <3>2, <3>3, <3>4, <4>1
    <3> QED BY <3>5, <3>6
  <2> QED BY <2>3, <2>4, <2>5, <2>6 DEF ChainHolds
<1>5. ASSUME NEW w \in Writers, Fail(w) PROVE NewInv'
  BY <1>b, <1>d, <1>5 DEF Fail, Return
<1>6. ASSUME NEW n \in Instances, Crash(n) PROVE NewInv'
  BY <1>b, <1>d, <1>6 DEF Crash
<1>7. ASSUME NEW i \in DOMAIN file, Modify(i) PROVE NewInv'
  <2>1. TornIsOpen'
    <3>1. file[i] \in Fragments
      BY <1>b
    <3>2. \A j \in DOMAIN file : file'[j].kind = file[j].kind /\ file'[j].nl = file[j].nl
      BY <1>b, <1>7, <3>1 DEF Modify, Fragments, FragmentsOf
    <3>3. DOMAIN file' = DOMAIN file
      BY <1>7 DEF Modify
    <3> QED BY <1>c, <3>2, <3>3 DEF TornIsOpen
  <2> QED BY <1>b, <1>e, <1>7, <2>1 DEF Modify
<1>8. ASSUME NEW i \in DOMAIN file, Delete(i) PROVE NewInv'
  <2>1. TornIsOpen'
    <3>1. \A k \in DOMAIN file' : \E j \in DOMAIN file : file'[k] = file[j]
      <4>1. i \in 1..Len(file) /\ file' = RemoveAt(file, i)
        BY <1>b, <1>8 DEF Delete
      <4> QED BY <1>b, <4>1, RemovalKeepsTheRest
    <3> QED BY <1>c, <3>1 DEF TornIsOpen
  <2> QED BY <1>b, <1>e, <1>8, <2>1 DEF Delete
<1>9. ASSUME UNCHANGED vars PROVE NewInv'
  BY <1>d, <1>9 DEF vars
<1>10. ASSUME NEW w \in Writers, ReadForever(w) PROVE NewInv'
  BY <1>b, <1>d, <1>10 DEF ReadForever
<1>11. NewInv'
  BY <1>1, <1>2, <1>3, <1>4, <1>5, <1>6, <1>7, <1>8, <1>9, <1>10 DEF Next, Appending, Editing, Step
<1> QED BY <1>0, <1>11 DEF ChainInv
-----------------------------------------------------------------------------
(* Acknowledged entries, any number of copies *)

\* A whole object with this id is somewhere in the file.
Holds(f, e) == \E i \in DOMAIN f : f[i].id = e /\ f[i].kind = "whole"

AckedAreWhole == edits = <<>> => \A a \in acked : Holds(file, a)

\* A thread that owes the newline has its whole object in the file.
WrittenIsWhole ==
  edits = <<>> => \A w \in Writers : pc[w] = "newline" => Holds(file, entry[w])

\* The inode lock: one thread at a time is inside a write, and the fragment it
\* is writing is the last one.
BodyIsLast ==
  /\ \A v, w \in Writers : pc[v] = "body" /\ pc[w] = "body" => v = w
  /\ \A w \in Writers : pc[w] = "body" =>
       LET e == file[Len(file)] IN e.id = entry[w] /\ e.kind # "whole" /\ ~e.nl

AckInv == TypeInv /\ AckedAreWhole /\ WrittenIsWhole /\ BodyIsLast

\* Whole objects stay where fragments only gain their rest, or a successor.
LEMMA HoldsGrows ==
  ASSUME NEW f \in Seq(Fragments), NEW g \in Seq(Fragments), Len(f) <= Len(g),
         \A i \in DOMAIN f : g[i].id = f[i].id /\ (f[i].kind = "whole" => g[i].kind = "whole"),
         NEW e, Holds(f, e)
  PROVE  Holds(g, e)
<1>1. PICK i \in DOMAIN f : f[i].id = e /\ f[i].kind = "whole"
  BY DEF Holds
<1>2. i \in DOMAIN g
  OBVIOUS
<1> QED BY <1>1, <1>2 DEF Holds

LEMMA StepAcked == AckInv /\ [Next]_vars => AckInv'
<1> SUFFICES ASSUME AckInv, [Next]_vars PROVE AckInv'
  OBVIOUS
<1>0. TypeInv /\ TypeInv'
  BY StepTypes DEF AckInv
<1> DEFINE NewInv == AckedAreWhole /\ WrittenIsWhole /\ BodyIsLast
<1>a. NewInv
  BY DEF AckInv
<1>b. file \in Seq(Fragments) /\ file' \in Seq(Fragments) /\ edits \in Seq(EditKinds)
      /\ pc \in [Writers -> PCs] /\ entry \in [Writers -> Ids \cup {Genesis}]
  BY <1>0 DEF TypeInv, TypeOK
\* A step that leaves the file alone and starts no write.
<1>c. ASSUME UNCHANGED <<file, edits, acked>>,
             \A w \in Writers : pc'[w] \in {"body", "newline"} => pc'[w] = pc[w] /\ entry'[w] = entry[w]
      PROVE  NewInv'
  BY <1>a, <1>c DEF AckedAreWhole, WrittenIsWhole, BodyIsLast
\* After an edit nothing is claimed of the file.
<1>d. ASSUME Quiet, UNCHANGED pc, edits' # <<>> PROVE NewInv'
  BY <1>d DEF Quiet, AckedAreWhole, WrittenIsWhole, BodyIsLast
<1>1. ASSUME NEW w \in Writers, Acquire(w) PROVE NewInv'
  BY <1>b, <1>c, <1>1 DEF Acquire
<1>2. ASSUME NEW w \in Writers, ReadLast(w) PROVE NewInv'
  BY <1>b, <1>c, <1>2 DEF ReadLast
<1>3. ASSUME NEW w \in Writers, ReadForever(w) PROVE NewInv'
  BY <1>b, <1>c, <1>3 DEF ReadForever
<1>4. ASSUME NEW w \in Writers, StartBody(w) PROVE NewInv'
  <2>1. PICK k \in {"cut", "split"}, t \in BOOLEAN : file' = Append(file, NewFragment(w, k, t))
    BY <1>4 DEF StartBody
  <2>2. /\ Len(file') = Len(file) + 1
        /\ file'[Len(file) + 1] = NewFragment(w, k, t)
        /\ \A i \in DOMAIN file : file'[i] = file[i]
    BY <1>b, <2>1
  <2>3. \A e : Holds(file, e) => Holds(file', e)
    <3>1. \A i \in DOMAIN file : /\ file'[i].id = file[i].id
                                 /\ file[i].kind = "whole" => file'[i].kind = "whole"
      BY <2>2
    <3>2. Len(file) <= Len(file')
      BY <1>b, <2>2
    <3> QED BY <1>b, <3>1, <3>2, HoldsGrows
  <2>4. /\ edits' = edits /\ acked' = acked /\ entry' = entry
        /\ \A v \in Writers : pc'[v] = IF v = w THEN "body" ELSE pc[v]
        /\ \A v \in Writers : pc[v] # "body"
    BY <1>b, <1>4 DEF StartBody, FileFree
  <2>5. AckedAreWhole' /\ WrittenIsWhole'
    BY <1>a, <2>3, <2>4 DEF AckedAreWhole, WrittenIsWhole
  <2>6. BodyIsLast'
    BY <2>2, <2>4 DEF BodyIsLast, NewFragment
  <2> QED BY <2>5, <2>6
<1>5. ASSUME NEW w \in Writers, FinishBody(w) PROVE NewInv'
  <2>1. Len(file) \in DOMAIN file /\ file[Len(file)] \in Fragments /\ file[Len(file)].id = entry[w]
    BY <1>0, <1>a, <1>b, <1>5 DEF FinishBody, TypeInv, HasFragment, BodyIsLast
  <2>2. /\ Len(file') = Len(file)
        /\ \A i \in DOMAIN file : file'[i].id = file[i].id
        /\ \A i \in DOMAIN file : i # Len(file) => file'[i] = file[i]
        /\ file'[Len(file)].kind = "whole"
    BY <1>0, <1>b, <1>5, <2>1, FinishedBody
  <2>3. \A e : Holds(file, e) => Holds(file', e)
    <3>1. \A i \in DOMAIN file : /\ file'[i].id = file[i].id
                                 /\ file[i].kind = "whole" => file'[i].kind = "whole"
      BY <2>2
    <3>2. Len(file) <= Len(file')
      BY <1>b, <2>2
    <3> QED BY <1>b, <3>1, <3>2, HoldsGrows
  <2>4. Holds(file', entry[w])
    BY <1>b, <2>1, <2>2 DEF Holds
  <2>5. /\ edits' = edits /\ acked' = acked /\ entry' = entry
        /\ \A v \in Writers : pc'[v] = IF v = w THEN "newline" ELSE pc[v]
        /\ \A v \in Writers : pc'[v] # "body"
    BY <1>a, <1>b, <1>5 DEF FinishBody, BodyIsLast
  <2>6. AckedAreWhole' /\ WrittenIsWhole'
    BY <1>a, <2>3, <2>4, <2>5 DEF AckedAreWhole, WrittenIsWhole
  <2> QED BY <2>5, <2>6 DEF BodyIsLast
<1>6. ASSUME NEW w \in Writers, Newline(w) PROVE NewInv'
  <2>1. Len(file) \in DOMAIN file /\ file[Len(file)] \in Fragments
    BY <1>0, <1>b, <1>6 DEF Newline, TypeInv, HasFragment
  <2>2. /\ Len(file') = Len(file)
        /\ \A i \in DOMAIN file : file'[i].id = file[i].id /\ file'[i].kind = file[i].kind
    BY <1>b, <1>6, <2>1 DEF Newline, Fragments, FragmentsOf
  <2>3. \A e : Holds(file, e) => Holds(file', e)
    <3>1. \A i \in DOMAIN file : /\ file'[i].id = file[i].id
                                 /\ file[i].kind = "whole" => file'[i].kind = "whole"
      BY <2>2
    <3>2. Len(file) <= Len(file')
      BY <1>b, <2>2
    <3> QED BY <1>b, <3>1, <3>2, HoldsGrows
  <2>4. /\ edits' = edits /\ acked' = acked \cup {entry[w]} /\ entry' = entry
        /\ \A v \in Writers : pc'[v] = IF v = w THEN "idle" ELSE pc[v]
        /\ pc[w] = "newline" /\ \A v \in Writers : pc[v] # "body"
    BY <1>b, <1>6 DEF Newline, Return, FileFree
  <2>5. AckedAreWhole' /\ WrittenIsWhole'
    BY <1>a, <2>3, <2>4 DEF AckedAreWhole, WrittenIsWhole
  <2> QED BY <2>4, <2>5 DEF BodyIsLast
<1>7. ASSUME NEW w \in Writers, Fail(w) PROVE NewInv'
  BY <1>b, <1>c, <1>7 DEF Fail, Return
<1>8. ASSUME NEW n \in Instances, Crash(n) PROVE NewInv'
  BY <1>b, <1>c, <1>8 DEF Crash
<1>9. ASSUME NEW i \in DOMAIN file, Modify(i) \/ Delete(i) PROVE NewInv'
  BY <1>b, <1>d, <1>9 DEF Modify, Delete
<1>10. ASSUME UNCHANGED vars PROVE NewInv'
  BY <1>c, <1>10 DEF vars
<1>11. NewInv'
  BY <1>1, <1>2, <1>3, <1>4, <1>5, <1>6, <1>7, <1>8, <1>9, <1>10 DEF Next, Appending, Editing, Step
<1> QED BY <1>0, <1>11 DEF AckInv

LEMMA InitAcked == Init => AckInv
  BY InitTypes DEF Init, AckInv, AckedAreWhole, WrittenIsWhole, BodyIsLast
-----------------------------------------------------------------------------
(* One running copy implements the audit trail *)

\* The object under way at the end of the file is the one its thread prepared,
\* linked to what the verifier expects in front of it.
BodyIsPrepared ==
  \A w \in Writers : pc[w] = "body" =>
    LET e == file[Len(file)] IN
      /\ e.id = entry[w] /\ e.chained /\ e.intact /\ e.kind # "whole"
      /\ ~Glued(file) => e.prev = ExpectedPrev(file, Len(file))

\* No entry of the file has the id of one still to be written.
FreshIds ==
  /\ \A i \in DOMAIN file : file[i].id < nextId
  /\ \A w \in Writers : pc[w] \in {"read", "write"} =>
       entry[w] < nextId /\ \A i \in DOMAIN file : file[i].id # entry[w]
  /\ \A w \in Writers : pc[w] = "body" => \A i \in 1..(Len(file) - 1) : file[i].id # entry[w]

TrailInv == ChainInv /\ BodyIsPrepared /\ FreshIds

LEMMA StepTrailInv == SingleInstance /\ TrailInv /\ [Next]_vars => TrailInv'
<1> SUFFICES ASSUME SingleInstance, TrailInv, [Next]_vars PROVE TrailInv'
  OBVIOUS
<1>0. TypeInv /\ TypeInv' /\ OneWriterPerCopy /\ ChainInv /\ ChainInv'
  BY StepChain, StepTypes DEF TrailInv, ChainInv, TypeInv, HoldsLock, OneWriterPerCopy
<1> DEFINE NewInv == BodyIsPrepared /\ FreshIds
<1>a. \A v, w \in Writers : pc[v] # "idle" /\ pc[w] # "idle" => v = w
  BY <1>0 DEF OneWriterPerCopy, SingleInstance
<1>b. /\ file \in Seq(Fragments) /\ file' \in Seq(Fragments)
      /\ pc \in [Writers -> PCs] /\ entry \in [Writers -> Ids \cup {Genesis}]
      /\ nextId \in Nat
      /\ \A i \in DOMAIN file : file[i].id \in Nat
      /\ \A w \in Writers : entry[w] \in Nat
  <2>1. \A i \in DOMAIN file : file[i] \in Fragments
    BY <1>0 DEF TypeInv, TypeOK
  <2> QED BY <1>0, <2>1, BoundsAssumption DEF TypeInv, TypeOK, Fragments, FragmentsOf, Ids, Genesis
<1>c. BodyIsPrepared /\ FreshIds /\ SeenIsCurrent
  BY DEF TrailInv, ChainInv
\* A step that leaves the file alone and lets no thread go on.
<1>d. ASSUME UNCHANGED <<file, nextId, entry>>,
             \A w \in Writers : pc'[w] # pc[w] => pc'[w] \notin {"read", "write", "body"}
      PROVE  NewInv'
  BY <1>c, <1>d DEF BodyIsPrepared, FreshIds
\* A step that keeps the ids of the file, or some of them, and leaves no thread
\* in front of its write.
<1>e. ASSUME UNCHANGED nextId, \A w \in Writers : pc'[w] \notin {"read", "write", "body"},
             \A k \in DOMAIN file' : \E j \in DOMAIN file : file'[k].id = file[j].id
      PROVE  NewInv'
  BY <1>c, <1>e DEF BodyIsPrepared, FreshIds
<1>1. ASSUME NEW w \in Writers, Acquire(w) PROVE NewInv'
  <2>1. \A v \in Writers : pc'[v] = IF v = w THEN "read" ELSE pc[v]
    BY <1>b, <1>1 DEF Acquire
  <2>2. \A v \in Writers : entry'[v] = IF v = w THEN nextId ELSE entry[v]
    BY <1>b, <1>1 DEF Acquire
  <2>3. file' = file /\ nextId' = nextId + 1
    BY <1>1 DEF Acquire
  <2>4. BodyIsPrepared'
    BY <1>c, <2>1, <2>2, <2>3 DEF BodyIsPrepared
  <2>5. \A i \in DOMAIN file' : file'[i].id < nextId'
    BY <1>b, <1>c, <2>3 DEF FreshIds
  <2>6. ASSUME NEW v \in Writers, pc'[v] \in {"read", "write"}
        PROVE  entry'[v] < nextId' /\ \A i \in DOMAIN file' : file'[i].id # entry'[v]
    <3>1. CASE v = w
      BY <1>b, <1>c, <2>2, <2>3, <3>1 DEF FreshIds
    <3>2. CASE v # w
      BY <1>b, <1>c, <2>1, <2>2, <2>3, <2>6, <3>2 DEF FreshIds
    <3> QED BY <3>1, <3>2
  <2>7. ASSUME NEW v \in Writers, pc'[v] = "body", NEW i \in 1..(Len(file') - 1)
        PROVE  file'[i].id # entry'[v]
    BY <1>c, <2>1, <2>2, <2>3, <2>7 DEF FreshIds
  <2> QED BY <2>4, <2>5, <2>6, <2>7 DEF FreshIds
<1>2. ASSUME NEW w \in Writers, ReadLast(w) PROVE NewInv'
  <2>1. \A v \in Writers : pc'[v] = IF v = w THEN "write" ELSE pc[v]
    BY <1>b, <1>2 DEF ReadLast
  <2>2. pc[w] = "read" /\ UNCHANGED <<file, entry, nextId>>
    BY <1>2 DEF ReadLast
  <2> QED BY <1>c, <2>1, <2>2 DEF BodyIsPrepared, FreshIds
<1>3. ASSUME NEW w \in Writers, StartBody(w) PROVE NewInv'
  <2>1. PICK k \in {"cut", "split"}, t \in BOOLEAN : file' = Append(file, NewFragment(w, k, t))
    BY <1>3 DEF StartBody
  <2> DEFINE e == NewFragment(w, k, t)
  <2>2. /\ e \in Fragments /\ e.kind # "whole" /\ ~e.nl /\ e.chained /\ e.intact
        /\ e.prev = seen[w] /\ e.id = entry[w]
    BY <1>0, <1>b, <1>3 DEF StartBody, NewFragment, Fragments, FragmentsOf, Kinds, TypeInv, TypeOK, HasEntry
  <2>3. file' = Append(file, e)
    BY <2>1
  <2> HIDE DEF e
  <2>4. Len(file') = Len(file) + 1 /\ file'[Len(file) + 1] = e /\ \A i \in DOMAIN file : file'[i] = file[i]
    BY <1>b, <2>2, <2>3
  <2>5. /\ pc[w] = "write" /\ pc'[w] = "body" /\ UNCHANGED <<entry, nextId>>
        /\ \A v \in Writers : v # w => pc'[v] = "idle"
    BY <1>a, <1>b, <1>3 DEF StartBody
  <2>6. ASSUME ~Glued(file') PROVE e.prev = ExpectedPrev(file', Len(file'))
    <3>1. /\ ~Glued(file)
          /\ \A j \in 1..(Len(file) + 1) : ExpectedPrev(file', j) = ExpectedPrev(file, j)
      BY <1>0, <1>b, <2>2, <2>3, <2>6, AppendKeepsLinks DEF ChainInv, TornIsOpen
    <3> QED BY <1>b, <1>c, <2>2, <2>4, <2>5, <3>1 DEF SeenIsCurrent
  <2>7. BodyIsPrepared'
    BY <1>b, <2>2, <2>4, <2>5, <2>6 DEF BodyIsPrepared
  <2>8. FreshIds'
    <3>1. entry[w] < nextId /\ \A i \in DOMAIN file : file[i].id # entry[w]
      BY <1>c, <2>5 DEF FreshIds
    <3>2. \A i \in DOMAIN file' : i \in DOMAIN file \/ i = Len(file) + 1
      BY <1>b, <2>4
    <3>3. \A i \in DOMAIN file' : file'[i].id < nextId'
      BY <1>c, <2>2, <2>4, <2>5, <3>1, <3>2 DEF FreshIds
    <3>4. \A i \in 1..(Len(file') - 1) : file'[i].id # entry'[w]
      BY <1>b, <2>4, <2>5, <3>1
    <3> QED BY <2>5, <3>3, <3>4 DEF FreshIds
  <2> QED BY <2>7, <2>8
<1>4. ASSUME NEW w \in Writers, FinishBody(w) \/ Newline(w) PROVE NewInv'
  <2>1. Len(file) \in DOMAIN file /\ file[Len(file)] \in Fragments
    BY <1>0, <1>b, <1>4, TailStep
  <2>2. Len(file') = Len(file) /\ \A k \in DOMAIN file : file'[k].id = file[k].id
    BY <1>0, <1>4, TailStep
  <2>3. \A v \in Writers : pc'[v] \notin {"read", "write", "body"}
    BY <1>0, <1>a, <1>4, TailStep
  <2>4. UNCHANGED nextId
    BY <1>0, <1>4, TailStep
  <2>5. \A k \in DOMAIN file' : \E j \in DOMAIN file : file'[k].id = file[j].id
    <3>1. DOMAIN file' = DOMAIN file
      BY <1>b, <2>2
    <3> QED BY <2>2, <3>1
  <2> QED BY <1>e, <2>3, <2>4, <2>5
<1>5. ASSUME NEW w \in Writers, ReadForever(w) \/ Fail(w) PROVE NewInv'
  BY <1>b, <1>d, <1>5 DEF ReadForever, Fail, Return
<1>6. ASSUME NEW n \in Instances, Crash(n) PROVE NewInv'
  BY <1>b, <1>d, <1>6 DEF Crash
<1>7. ASSUME NEW i \in DOMAIN file, Modify(i) PROVE NewInv'
  <2>1. file[i] \in Fragments
    BY <1>b
  <2>2. Len(file') = Len(file) /\ \A k \in DOMAIN file : file'[k].id = file[k].id
    BY <1>b, <1>7, <2>1 DEF Modify, Fragments, FragmentsOf
  <2> QED BY <1>b, <1>e, <1>7, <2>2 DEF Modify, Quiet
<1>8. ASSUME NEW i \in DOMAIN file, Delete(i) PROVE NewInv'
  <2>1. \A k \in DOMAIN file' : \E j \in DOMAIN file : file'[k] = file[j]
    <3>1. i \in 1..Len(file) /\ file' = RemoveAt(file, i)
      BY <1>b, <1>8 DEF Delete
    <3> QED BY <1>b, <3>1, RemovalKeepsTheRest
  <2> QED BY <1>b, <1>e, <1>8, <2>1 DEF Delete, Quiet
<1>9. ASSUME UNCHANGED vars PROVE NewInv'
  BY <1>d, <1>9 DEF vars
<1>10. NewInv'
  BY <1>1, <1>2, <1>3, <1>4, <1>5, <1>6, <1>7, <1>8, <1>9 DEF Next, Appending, Editing, Step
<1> QED BY <1>0, <1>10 DEF TrailInv

\* k is the first line without a newline, or the place behind the last line.
OpensAt(f, k) ==
  /\ k \in 1..(Len(f) + 1)
  /\ \A i \in 1..(k - 1) : f[i].nl
  /\ k <= Len(f) => ~f[k].nl

LEMMA FirstOpenIs ==
  ASSUME NEW f \in Seq(Fragments)
  PROVE  /\ OpensAt(f, FirstOpen(f))
         /\ \A k : OpensAt(f, k) => FirstOpen(f) = k
<1> DEFINE S == {i \in DOMAIN f : ~f[i].nl} \cup {Len(f) + 1}
<1>1. S \subseteq Nat /\ S # {}
  OBVIOUS
<1>2. PICK m \in S : \A y \in S : m <= y
  BY <1>1, MinExists
<1>3. FirstOpen(f) = Min(S)
  BY DEF FirstOpen
<1>4. Min(S) \in S /\ \A y \in S : Min(S) <= y
  BY <1>2 DEF Min
<1>5. \A i \in 1..Len(f) : ~f[i].nl => i \in S
  OBVIOUS
<1>6. FirstOpen(f) \in 1..(Len(f) + 1) /\ (FirstOpen(f) <= Len(f) => ~f[FirstOpen(f)].nl)
  BY <1>3, <1>4
<1>7. Len(f) + 1 \in S
  OBVIOUS
<1> HIDE DEF S
<1>8. OpensAt(f, FirstOpen(f))
  <2>1. ASSUME NEW i \in 1..(FirstOpen(f) - 1) PROVE f[i].nl
    <3>1. i \in 1..Len(f) /\ ~(FirstOpen(f) <= i)
      BY <1>6
    <3> QED BY <1>3, <1>4, <1>5, <3>1
  <2> QED BY <1>6, <2>1 DEF OpensAt
<1>9. ASSUME NEW k, OpensAt(f, k) PROVE FirstOpen(f) = k
  <2>1. k \in 1..(Len(f) + 1) /\ k \in S
    BY <1>5, <1>7, <1>9 DEF OpensAt
  <2>2. ~(k < FirstOpen(f))
    BY <1>3, <1>4, <1>6, <2>1
  <2>3. ~(FirstOpen(f) < k)
    BY <1>6, <1>9, <2>1 DEF OpensAt
  <2> QED BY <1>6, <2>1, <2>2, <2>3
<1> QED BY <1>8, <1>9

\* What an entry of the trail keeps of its fragment.
TrailEntry(e) == [id |-> e.id, chained |-> e.chained, prev |-> e.prev, intact |-> e.intact]
TrailOf(f) == [i \in 1..TrailLength(f) |-> TrailEntry(f[i])]

LEMMA TrailIsTrailOf == Trail = TrailOf(file) /\ Trail' = TrailOf(file')
BY DEF Trail, TrailOf, TrailEntry, TrailLength, FirstOpen

\* The trail is a sequence of entries no longer than the file.
LEMMA TrailType ==
  ASSUME NEW f \in Seq(Fragments)
  PROVE  /\ TrailLength(f) \in 0..Len(f)
         /\ FirstOpen(f) - 1 <= TrailLength(f) /\ TrailLength(f) <= FirstOpen(f)
         /\ TrailOf(f) \in Seq(Promise!Entries)
         /\ Len(TrailOf(f)) = TrailLength(f)
         /\ \A i \in 1..TrailLength(f) : TrailOf(f)[i] = TrailEntry(f[i])
<1>1. FirstOpen(f) \in 1..(Len(f) + 1)
  BY FirstOpenIs DEF OpensAt
<1>2. /\ TrailLength(f) \in 0..Len(f)
      /\ FirstOpen(f) - 1 <= TrailLength(f) /\ TrailLength(f) <= FirstOpen(f)
  BY <1>1 DEF TrailLength
<1>3. \A i \in 1..TrailLength(f) : TrailEntry(f[i]) \in Promise!Entries
  <2>1. \A i \in 1..TrailLength(f) : f[i] \in Fragments
    BY <1>2
  <2> QED BY <2>1 DEF TrailEntry, Fragments, FragmentsOf, Promise!Entries, Promise!Ids, Promise!Genesis, Ids, Genesis
<1> HIDE DEF TrailEntry, TrailLength
<1>4. TrailOf(f) \in Seq(Promise!Entries) /\ Len(TrailOf(f)) = TrailLength(f)
  BY <1>2, <1>3 DEF TrailOf
<1> QED BY <1>2, <1>4 DEF TrailOf

\* Files that open at the same line, agree up to it and on what kind of object
\* stands there, have the same trail.
LEMMA SameTrail ==
  ASSUME NEW f \in Seq(Fragments), NEW g \in Seq(Fragments),
         TrailLength(f) = TrailLength(g),
         \A i \in 1..TrailLength(f) : TrailEntry(f[i]) = TrailEntry(g[i])
  PROVE  TrailOf(f) = TrailOf(g)
BY DEF TrailOf

\* A file that ends in its first open line: the trail's newest chained entry in
\* front of that line is the one the verifier expects there.
LEMMA TailHashIsExpected ==
  ASSUME NEW f \in Seq(Fragments), ~Glued(f), f # <<>>, TrailLength(f) = Len(f) - 1,
         \A i \in DOMAIN f : f[i].kind # "whole" => ~f[i].nl
  PROVE  Promise!TailHash(TrailOf(f)) = ExpectedPrev(f, Len(f))
<1> DEFINE C == ChainedBefore(f, Len(f))
<1>1. /\ Len(TrailOf(f)) = Len(f) - 1
      /\ \A i \in 1..(Len(f) - 1) : TrailOf(f)[i] = TrailEntry(f[i])
      /\ TrailOf(f) \in Seq(Promise!Entries)
  BY TrailType
<1>2. Parsed(f) = {i \in DOMAIN f : f[i].kind = "whole"}
      /\ \A i \in 1..(Len(f) - 1) : f[i].kind = "whole"
  BY UngluedParsed
<1>3. C = {i \in 1..(Len(f) - 1) : f[i].chained}
  BY <1>2 DEF ChainedBefore
<1>4. \A i \in 1..(Len(f) - 1) : TrailOf(f)[i].chained = f[i].chained /\ TrailOf(f)[i].id = f[i].id
  <2>1. \A e : TrailEntry(e).chained = e.chained /\ TrailEntry(e).id = e.id
    BY DEF TrailEntry
  <2> QED BY <1>1, <2>1
<1>5. Promise!ChainedIn(TrailOf(f)) = C
  BY <1>1, <1>3, <1>4 DEF Promise!ChainedIn
<1>6. CASE C = {}
  BY <1>5, <1>6 DEF Promise!TailHash, ExpectedPrev, Promise!Genesis, Genesis
<1>7. CASE C # {}
  <2>1. Promise!Max(C) = Max(C)
    BY DEF Promise!Max, Max
  <2>2. C \subseteq 0..Len(f)
    BY <1>3
  <2>3. Max(C) \in C
    BY <1>7, <2>2, MaxExists
  <2>4. Max(C) \in 1..(Len(f) - 1)
    BY <1>3, <2>3
  <2>5. Promise!TailHash(TrailOf(f)) = TrailOf(f)[Max(C)].id
    BY <1>5, <1>7, <2>1 DEF Promise!TailHash
  <2> QED BY <1>4, <1>7, <2>4, <2>5 DEF ExpectedPrev
<1> QED BY <1>6, <1>7

\* A record that differs from r in one field only.
LEMMA UnsettingIntact ==
  ASSUME NEW A, NEW B, NEW C,
         NEW r \in [id: A, chained: B, prev: C, intact: BOOLEAN],
         NEW q \in [id: A, chained: B, prev: C, intact: BOOLEAN],
         q.id = r.id, q.chained = r.chained, q.prev = r.prev, q.intact = FALSE
  PROVE  q = [r EXCEPT !.intact = FALSE]
<1> DEFINE s == [r EXCEPT !.intact = FALSE]
<1>1. s \in [id: A, chained: B, prev: C, intact: BOOLEAN]
  OBVIOUS
<1>2. s.id = r.id /\ s.chained = r.chained /\ s.prev = r.prev /\ s.intact = FALSE
  OBVIOUS
<1> HIDE DEF s
<1>3. s = q
  BY <1>1, <1>2
<1> QED BY <1>3 DEF s

\* Every step of one copy is a step of the trail, or leaves it as it is.
LEMMA StepImplements == SingleInstance /\ TrailInv /\ [Next]_vars => [Promise!TrailNext]_Trail
<1> SUFFICES ASSUME SingleInstance, TrailInv, [Next]_vars PROVE [Promise!TrailNext]_Trail
  OBVIOUS
<1>0. TypeInv /\ TypeInv' /\ TornIsOpen /\ TailMatchesWriter /\ BodyIsPrepared /\ FreshIds
  BY StepTypes DEF TrailInv, ChainInv
<1> DEFINE k == FirstOpen(file)
           n == TrailLength(file)
<1>a. file \in Seq(Fragments) /\ file' \in Seq(Fragments) /\ \A i \in DOMAIN file : file[i] \in Fragments
  BY <1>0 DEF TypeInv, TypeOK
<1>b. k \in 1..(Len(file) + 1) /\ OpensAt(file, k)
  BY <1>a, FirstOpenIs DEF OpensAt
<1>c. n \in 0..Len(file) /\ k - 1 <= n /\ n <= k /\ Len(TrailOf(file)) = n
      /\ \A i \in 1..n : TrailOf(file)[i] = TrailEntry(file[i])
  BY <1>a, TrailType
<1>d. n = IF k <= Len(file) /\ file[k].kind = "whole" THEN k ELSE k - 1
  BY DEF TrailLength
\* The file after the step opens at its own first open line.
<1>e. ASSUME NEW l, OpensAt(file', l)
      PROVE  TrailLength(file') = IF l <= Len(file') /\ file'[l].kind = "whole" THEN l ELSE l - 1
  BY <1>a, <1>e, FirstOpenIs DEF TrailLength
<1>f. ASSUME TrailOf(file') = TrailOf(file) PROVE [Promise!TrailNext]_Trail
  BY <1>f, TrailIsTrailOf
<1> HIDE DEF k, n
<1>1. ASSUME NEW w \in Writers, StartBody(w) PROVE TrailOf(file') = TrailOf(file)
  <2>1. PICK c \in {"cut", "split"}, t \in BOOLEAN : file' = Append(file, NewFragment(w, c, t))
    BY <1>1 DEF StartBody
  <2>2. /\ Len(file') = Len(file) + 1
        /\ file'[Len(file) + 1] = NewFragment(w, c, t)
        /\ \A i \in DOMAIN file : file'[i] = file[i]
    BY <1>a, <2>1
  <2>3. ~file'[Len(file) + 1].nl /\ file'[Len(file) + 1].kind # "whole"
    BY <2>2 DEF NewFragment
  <2>4. \A i \in 1..(k - 1) : i \in DOMAIN file
    BY <1>a, <1>b
  <2>5. OpensAt(file', k)
    <3>1. \A i \in 1..(k - 1) : file'[i].nl
      BY <1>b, <2>2, <2>4 DEF OpensAt
    <3>2. ~file'[k].nl
      <4>1. CASE k = Len(file) + 1
        BY <2>3, <4>1
      <4>2. CASE k # Len(file) + 1
        <5>1. k \in DOMAIN file /\ k <= Len(file)
          BY <1>a, <1>b, <4>2
        <5> QED BY <1>b, <2>2, <5>1 DEF OpensAt
      <4> QED BY <4>1, <4>2
    <3>3. k \in 1..(Len(file') + 1)
      BY <1>a, <1>b, <2>2
    <3> QED BY <3>1, <3>2, <3>3 DEF OpensAt
  <2>6. TrailLength(file') = n
    BY <1>a, <1>b, <1>d, <1>e, <2>2, <2>3, <2>5
  <2>7. \A i \in 1..n : TrailEntry(file'[i]) = TrailEntry(file[i])
    BY <1>a, <1>c, <2>2
  <2> QED BY <1>a, <2>6, <2>7, SameTrail DEF n
<1>2. ASSUME NEW w \in Writers, FinishBody(w) PROVE [Promise!TrailNext]_Trail
  <2> DEFINE z == Len(file)
             e == file[z]
  <2>1. z \in DOMAIN file /\ z \in 1..Len(file) /\ e \in Fragments
    BY <1>0, <1>a, <1>2 DEF FinishBody, TypeInv, HasFragment
  <2>2. /\ Len(file') = z
        /\ \A i \in DOMAIN file : i # z => file'[i] = file[i]
        /\ file'[z].kind = "whole" /\ file'[z].nl = e.nl
        /\ file'[z].id = e.id /\ file'[z].chained = e.chained
        /\ file'[z].prev = e.prev /\ file'[z].intact = e.intact
    BY <1>a, <1>b, <1>2, <2>1, FinishedBody
  <2>3. /\ e.id = entry[w] /\ e.chained /\ e.intact /\ e.kind # "whole" /\ ~e.nl
        /\ ~Glued(file) => e.prev = ExpectedPrev(file, z)
        /\ \A i \in 1..(z - 1) : file[i].id # e.id
    BY <1>0, <1>2, <2>1 DEF FinishBody, BodyIsPrepared, FreshIds, TornIsOpen
  <2>4. \A i \in DOMAIN file : file'[i].nl = file[i].nl /\ TrailEntry(file'[i]) = TrailEntry(file[i])
    BY <2>2 DEF TrailEntry
  <2> HIDE DEF z, e
  <2>5. k <= z
    BY <1>b, <2>1, <2>3 DEF OpensAt, e, z
  <2>6. OpensAt(file', k)
    BY <1>b, <2>1, <2>2, <2>4, <2>5 DEF OpensAt, z
  <2>7. CASE k < z
    <3>1. k \in DOMAIN file /\ k # z
      BY <1>a, <1>b, <2>7 DEF z
    <3>2. TrailLength(file') = n
      BY <1>d, <1>e, <2>2, <2>6, <2>5, <3>1 DEF z
    <3>3. \A i \in 1..n : TrailEntry(file'[i]) = TrailEntry(file[i])
      BY <1>a, <1>c, <2>4
    <3> QED BY <1>a, <1>f, <3>2, <3>3, SameTrail DEF n
  <2>8. CASE k = z
    <3>1. n = z - 1 /\ TrailLength(file') = z
      BY <1>d, <1>e, <2>1, <2>2, <2>3, <2>6, <2>8 DEF e, z
    <3>2. ~Glued(file)
      BY <1>a, <1>b, <2>8 DEF Glued, OpensAt, z
    <3>3. Promise!TailHash(TrailOf(file)) = e.prev
      BY <1>0, <1>a, <2>1, <2>3, <3>1, <3>2, TailHashIsExpected DEF TornIsOpen, n, z
    <3>4. /\ TrailOf(file') \in Seq(Promise!Entries) /\ TrailOf(file) \in Seq(Promise!Entries)
          /\ Len(TrailOf(file')) = z /\ Len(TrailOf(file)) = z - 1
          /\ \A i \in 1..z : TrailOf(file')[i] = TrailEntry(file'[i])
          /\ \A i \in 1..(z - 1) : TrailOf(file)[i] = TrailEntry(file[i])
      BY <1>a, <3>1, TrailType DEF n
    <3>5. TrailEntry(file'[z]) =
            [id |-> entry[w], chained |-> TRUE, prev |-> e.prev, intact |-> TRUE]
      BY <2>2, <2>3 DEF TrailEntry
    <3>6. \A i \in 1..(z - 1) : TrailOf(file')[i] = TrailOf(file)[i]
      <4> SUFFICES ASSUME NEW i \in 1..(z - 1) PROVE TrailOf(file')[i] = TrailOf(file)[i]
        OBVIOUS
      <4>1. i \in DOMAIN file /\ i \in 1..z
        BY <1>a, <2>1 DEF z
      <4> QED BY <2>4, <3>4, <4>1
    <3> DEFINE new == [id |-> entry[w], chained |-> TRUE, prev |-> e.prev, intact |-> TRUE]
    <3>7. TrailOf(file')[z] = new /\ z \in Nat \ {0}
      BY <2>1, <3>4, <3>5 DEF z
    <3>8. new \in Promise!Entries
      BY <3>4, <3>7
    <3> HIDE DEF new
    <3>9. TrailOf(file') = Append(TrailOf(file), new)
      <4>1. Append(TrailOf(file), new) \in Seq(Promise!Entries)
            /\ Len(Append(TrailOf(file), new)) = z
        BY <3>4, <3>7, <3>8
      <4>2. \A i \in 1..z : TrailOf(file')[i] = Append(TrailOf(file), new)[i]
        BY <3>4, <3>6, <3>7, <3>8
      <4> QED BY <3>4, <4>1, <4>2
    <3>10. entry[w] \in Promise!Ids
      BY <1>0, <1>2 DEF FinishBody, TypeInv, HasEntry, Ids, Promise!Ids
    <3>11. \A i \in DOMAIN TrailOf(file) : TrailOf(file)[i].id # entry[w]
      BY <2>3, <3>4 DEF TrailEntry
    <3>12. Promise!AppendEntry(entry[w])
      BY <3>3, <3>9, <3>11, TrailIsTrailOf DEF Promise!AppendEntry, new
    <3> QED BY <3>10, <3>12 DEF Promise!TrailNext
  <2> QED BY <1>b, <2>1, <2>5, <2>7, <2>8 DEF z
<1>3. ASSUME NEW w \in Writers, Newline(w) PROVE TrailOf(file') = TrailOf(file)
  <2> DEFINE z == Len(file)
  <2>1. z \in DOMAIN file /\ z \in 1..Len(file) /\ file[z] \in Fragments /\ file[z].kind = "whole"
    BY <1>0, <1>a, <1>3 DEF Newline, TypeInv, HasFragment, TailMatchesWriter
  <2>2. /\ Len(file') = z /\ file'[z].nl
        /\ \A i \in DOMAIN file : i # z => file'[i] = file[i]
        /\ file'[z].kind = file[z].kind
        /\ file'[z].id = file[z].id /\ file'[z].chained = file[z].chained
        /\ file'[z].prev = file[z].prev /\ file'[z].intact = file[z].intact
    BY <1>a, <1>3, <2>1 DEF Newline, Fragments, FragmentsOf
  <2>3. \A i \in DOMAIN file : TrailEntry(file'[i]) = TrailEntry(file[i])
    BY <2>2 DEF TrailEntry
  <2> HIDE DEF z
  <2>4. \A i \in 1..(k - 1) : i \in DOMAIN file /\ file'[i].nl
    <3> SUFFICES ASSUME NEW i \in 1..(k - 1) PROVE i \in DOMAIN file /\ file'[i].nl
      OBVIOUS
    <3>1. i \in DOMAIN file /\ file[i].nl
      BY <1>a, <1>b DEF OpensAt
    <3> QED BY <2>2, <3>1
  <2>5. TrailLength(file') = n
    <3>1. CASE k < z
      <4>1. k \in DOMAIN file /\ k # z /\ k <= Len(file) /\ k <= Len(file')
        BY <1>a, <1>b, <2>2, <3>1 DEF z
      <4>2. file'[k] = file[k] /\ ~file[k].nl
        BY <1>b, <2>2, <4>1 DEF OpensAt
      <4>3. OpensAt(file', k)
        BY <1>b, <2>2, <2>4, <4>2 DEF OpensAt, z
      <4> QED BY <1>d, <1>e, <4>1, <4>2, <4>3
    <3>2. CASE k >= z
      <4>1. \A i \in 1..z : file'[i].nl
        <5> SUFFICES ASSUME NEW i \in 1..z PROVE file'[i].nl
          OBVIOUS
        <5>1. i = z \/ i \in 1..(k - 1)
          BY <1>b, <2>1, <3>2
        <5> QED BY <2>2, <2>4, <5>1
      <4>2. OpensAt(file', z + 1)
        BY <2>1, <2>2, <4>1 DEF OpensAt
      <4>3. TrailLength(file') = z
        BY <1>e, <2>1, <2>2, <4>2
      <4> QED BY <1>b, <1>d, <2>1, <3>2, <4>3 DEF z
    <3> QED BY <1>b, <2>1, <3>1, <3>2
  <2>6. \A i \in 1..n : TrailEntry(file'[i]) = TrailEntry(file[i])
    BY <1>a, <1>c, <2>3
  <2> QED BY <1>a, <2>5, <2>6, SameTrail DEF n
<1>4. ASSUME NEW i \in DOMAIN file, Modify(i) PROVE [Promise!TrailNext]_Trail
  <2>1. /\ Len(file') = Len(file)
        /\ file' = [file EXCEPT ![i] = [file[i] EXCEPT !.intact = FALSE]]
        /\ \A j \in DOMAIN file : j # i => file'[j] = file[j]
        /\ \A j \in DOMAIN file : file'[j].nl = file[j].nl /\ file'[j].kind = file[j].kind
    BY <1>a, <1>4 DEF Modify, Fragments, FragmentsOf
  <2>2. OpensAt(file', k)
    <3>1. \A j \in 1..(k - 1) : j \in DOMAIN file
      BY <1>a, <1>b
    <3>2. k <= Len(file) => k \in DOMAIN file
      BY <1>a, <1>b
    <3> QED BY <1>b, <2>1, <3>1, <3>2 DEF OpensAt
  <2>3. TrailLength(file') = n
    <3>1. k <= Len(file) => k \in DOMAIN file
      BY <1>a, <1>b
    <3> QED BY <1>d, <1>e, <2>1, <2>2, <3>1
  <2>4. CASE i \notin 1..n
    <3>1. \A j \in 1..n : TrailEntry(file'[j]) = TrailEntry(file[j])
      BY <1>a, <1>c, <2>1, <2>4
    <3> QED BY <1>a, <1>f, <2>3, <3>1, SameTrail DEF n
  <2>5. CASE i \in 1..n
    <3> DEFINE T == TrailOf(file)
    <3>1. /\ T \in Seq(Promise!Entries) /\ TrailOf(file') \in Seq(Promise!Entries)
          /\ Len(T) = n /\ Len(TrailOf(file')) = n
          /\ \A j \in 1..n : T[j] = TrailEntry(file[j])
          /\ \A j \in 1..n : TrailOf(file')[j] = TrailEntry(file'[j])
      BY <1>a, <2>3, TrailType DEF n
    <3> HIDE DEF T
    <3>3. \A j \in 1..n : j # i => TrailOf(file')[j] = T[j]
      <4> SUFFICES ASSUME NEW j \in 1..n, j # i PROVE TrailOf(file')[j] = T[j]
        OBVIOUS
      <4>1. j \in DOMAIN file
        BY <1>a, <1>c
      <4> QED BY <2>1, <3>1, <4>1
    <3>4. TrailOf(file')[i] = [T[i] EXCEPT !.intact = FALSE]
      <4>1. \A e : /\ TrailEntry(e).id = e.id /\ TrailEntry(e).chained = e.chained
                   /\ TrailEntry(e).prev = e.prev /\ TrailEntry(e).intact = e.intact
        BY DEF TrailEntry
      <4>2. file[i] \in Fragments /\ file'[i] = [file[i] EXCEPT !.intact = FALSE]
        BY <1>a, <2>1
      <4>3. /\ file'[i].id = file[i].id /\ file'[i].chained = file[i].chained
            /\ file'[i].prev = file[i].prev /\ file'[i].intact = FALSE
        BY <4>2 DEF Fragments, FragmentsOf
      <4> DEFINE q == TrailOf(file')[i]
                 r == T[i]
      <4>4. q \in Promise!Entries /\ r \in Promise!Entries
        BY <2>5, <3>1
      <4>5. q.id = r.id /\ q.chained = r.chained /\ q.prev = r.prev /\ q.intact = FALSE
        BY <2>5, <3>1, <4>1, <4>3
      <4> HIDE DEF q, r
      <4>6. q = [r EXCEPT !.intact = FALSE]
        BY <4>4, <4>5, UnsettingIntact DEF Promise!Entries
      <4> QED BY <4>6 DEF q, r
    <3>5. TrailOf(file') = [T EXCEPT ![i] = [T[i] EXCEPT !.intact = FALSE]]
      BY <2>5, <3>1, <3>3, <3>4
    <3>6. i \in DOMAIN T
      BY <2>5, <3>1
    <3>7. Promise!Rewrite(i)
      BY <3>5, TrailIsTrailOf DEF Promise!Rewrite, T
    <3> QED BY <3>6, <3>7, TrailIsTrailOf DEF Promise!TrailNext, T
  <2> QED BY <2>4, <2>5
<1>5. ASSUME NEW i \in DOMAIN file, Delete(i) PROVE [Promise!TrailNext]_Trail
  <2>1. /\ i \in 1..Len(file) /\ file' = RemoveAt(file, i)
        /\ file[i].kind = "whole" /\ (i = Len(file) \/ file[i].nl)
    BY <1>a, <1>5 DEF Delete, HashLines, AloneOnLine
  <2>2. /\ Len(file') = Len(file) - 1
        /\ \A j \in 1..(Len(file) - 1) : file'[j] = IF j < i THEN file[j] ELSE file[j + 1]
    BY <1>a, <2>1, RemovalKeepsTheRest
  <2>3. ASSUME i > k PROVE [Promise!TrailNext]_Trail
    <3>1. k <= Len(file) - 1 /\ \A j \in 1..k : j \in 1..(Len(file) - 1) /\ j < i
      BY <1>b, <2>1, <2>3
    <3>2. \A j \in 1..k : file'[j] = file[j]
      BY <2>2, <3>1
    <3>3. ~file[k].nl /\ \A j \in 1..(k - 1) : file[j].nl
      BY <1>b, <3>1 DEF OpensAt
    <3>4. OpensAt(file', k)
      BY <1>b, <2>2, <3>1, <3>2, <3>3 DEF OpensAt
    <3>5. TrailLength(file') = n
      BY <1>b, <1>d, <1>e, <2>2, <3>1, <3>2, <3>4
    <3>6. \A j \in 1..n : TrailEntry(file'[j]) = TrailEntry(file[j])
      BY <1>b, <1>c, <3>2
    <3> QED BY <1>a, <1>f, <3>5, <3>6, SameTrail DEF n
  <2>4. ASSUME i <= k PROVE i <= n /\ TrailLength(file') = n - 1
    <3>1. CASE i < k
      <4>1. OpensAt(file', k - 1)
        <5>1. ASSUME NEW j \in 1..(k - 2) PROVE file'[j].nl
          <6>1. j \in 1..(Len(file) - 1) /\ j \in 1..(k - 1) /\ j + 1 \in 1..(k - 1)
            BY <1>b
          <6> QED BY <1>b, <2>2, <6>1 DEF OpensAt
        <5>2. ASSUME k - 1 <= Len(file') PROVE ~file'[k - 1].nl
          <6>1. k - 1 \in 1..(Len(file) - 1) /\ ~(k - 1 < i) /\ k <= Len(file)
            BY <1>b, <2>1, <2>2, <3>1, <5>2
          <6> QED BY <1>b, <2>2, <6>1 DEF OpensAt
        <5>3. k - 1 \in 1..(Len(file') + 1) /\ (k - 1) - 1 = k - 2
          BY <1>b, <2>1, <2>2, <3>1
        <5> QED BY <5>1, <5>2, <5>3 DEF OpensAt
      <4>2. ASSUME k <= Len(file) PROVE file'[k - 1] = file[k]
        <5>1. k - 1 \in 1..(Len(file) - 1) /\ ~(k - 1 < i)
          BY <1>b, <2>1, <3>1, <4>2
        <5> QED BY <1>b, <2>2, <5>1
      <4>3. k - 1 <= Len(file') <=> k <= Len(file)
        BY <1>b, <2>1, <2>2
      <4>4. TrailLength(file') = IF k <= Len(file) /\ file[k].kind = "whole" THEN k - 1 ELSE k - 2
        BY <1>b, <1>e, <4>1, <4>2, <4>3
      <4> QED BY <1>b, <1>d, <2>1, <3>1, <4>4
    <3>2. CASE i = k
      <4>1. k = Len(file) /\ n = k
        BY <1>b, <1>d, <2>1, <3>2 DEF OpensAt
      <4>2. \A j \in 1..(k - 1) : file'[j].nl
        BY <1>b, <2>2, <3>2, <4>1 DEF OpensAt
      <4>3. OpensAt(file', k)
        BY <1>b, <2>2, <4>1, <4>2 DEF OpensAt
      <4>4. TrailLength(file') = k - 1
        BY <1>b, <1>e, <2>2, <4>1, <4>3
      <4> QED BY <3>2, <4>1, <4>4
    <3> QED BY <1>b, <2>1, <2>4, <3>1, <3>2
  <2>5. ASSUME i <= k PROVE [Promise!TrailNext]_Trail
    <3> DEFINE T == TrailOf(file)
    <3>1. /\ T \in Seq(Promise!Entries) /\ TrailOf(file') \in Seq(Promise!Entries)
          /\ Len(T) = n /\ Len(TrailOf(file')) = n - 1
          /\ \A j \in 1..n : T[j] = TrailEntry(file[j])
          /\ \A j \in 1..(n - 1) : TrailOf(file')[j] = TrailEntry(file'[j])
      BY <1>a, <2>4, <2>5, TrailType DEF n
    <3> HIDE DEF T
    <3>2. i \in 1..Len(T)
      BY <1>c, <2>1, <2>4, <2>5, <3>1
    <3>3. /\ RemoveAt(T, i) \in Seq(Promise!Entries) /\ Len(RemoveAt(T, i)) = n - 1
          /\ \A j \in 1..(n - 1) : RemoveAt(T, i)[j] = IF j < i THEN T[j] ELSE T[j + 1]
      BY <3>1, <3>2, RemovalKeepsTheRest
    <3>4. ASSUME NEW j \in 1..(n - 1) PROVE TrailOf(file')[j] = RemoveAt(T, i)[j]
      <4>1. j \in 1..(Len(file) - 1) /\ j \in 1..n /\ j + 1 \in 1..n
        BY <1>c
      <4>2. CASE j < i
        BY <2>2, <3>1, <3>3, <4>1, <4>2
      <4>3. CASE ~(j < i)
        BY <2>2, <3>1, <3>3, <4>1, <4>3
      <4> QED BY <4>2, <4>3
    <3>5. TrailOf(file') = RemoveAt(T, i)
      BY <3>1, <3>3, <3>4
    <3>6. Promise!RemoveAt(T, i) = RemoveAt(T, i)
      BY DEF Promise!RemoveAt, RemoveAt
    <3>7. i \in DOMAIN T
      BY <3>1, <3>2
    <3>8. Promise!Rewrite(i)
      BY <3>5, <3>6, TrailIsTrailOf DEF Promise!Rewrite, T
    <3> QED BY <3>7, <3>8, TrailIsTrailOf DEF Promise!TrailNext, T
  <2> QED BY <1>b, <2>1, <2>3, <2>5
<1>6. ASSUME UNCHANGED file PROVE [Promise!TrailNext]_Trail
  BY <1>f, <1>6
<1>7. ASSUME NEW w \in Writers, Acquire(w) \/ ReadLast(w) \/ ReadForever(w) \/ Fail(w) PROVE UNCHANGED file
  BY <1>7 DEF Acquire, ReadLast, ReadForever, Fail
<1>8. ASSUME NEW m \in Instances, Crash(m) PROVE UNCHANGED file
  BY <1>8 DEF Crash
<1> QED BY <1>1, <1>2, <1>3, <1>4, <1>5, <1>6, <1>7, <1>8, <1>f DEF Next, Appending, Editing, Step, vars

LEMMA InitImplements == Init => Promise!TrailInit
<1> SUFFICES ASSUME Init PROVE Promise!TrailInit
  OBVIOUS
<1>1. LegacyFile(file)
  BY FilesAssumption DEF Init
<1>2. file \in Seq(Fragments)
  BY <1>1 DEF LegacyFile
<1>3. TrailOf(file) \in Seq(Promise!Entries) /\ Len(TrailOf(file)) = TrailLength(file)
      /\ \A i \in 1..TrailLength(file) : i \in DOMAIN file /\ TrailOf(file)[i] = TrailEntry(file[i])
  BY <1>2, TrailType
<1>4. \A i \in DOMAIN TrailOf(file) : ~TrailOf(file)[i].chained
  BY <1>1, <1>3 DEF LegacyFile, TrailEntry
<1> QED BY <1>3, <1>4, TrailIsTrailOf DEF Promise!TrailInit, Promise!ChainedIn

\* With one running copy, append, its failures and crashes included, implements
\* the atomic and chained append of the audit trail.
THEOREM AppendImplementsTrail == SingleInstance => (Spec => ImplementsTrail)
<1> SUFFICES ASSUME SingleInstance PROVE Spec => ImplementsTrail
  OBVIOUS
<1>1. Init => TrailInv
  <2> SUFFICES ASSUME Init PROVE TrailInv
    OBVIOUS
  <2>1. LegacyFile(file)
    BY FilesAssumption DEF Init
  <2> QED BY <2>1, InitChain DEF Init, TrailInv, BodyIsPrepared, FreshIds, LegacyFile
<1>2. TrailInv /\ [Next]_vars => TrailInv'
  BY StepTrailInv
<1>3. TrailInv /\ [Next]_vars => [Promise!TrailNext]_Trail
  BY StepImplements
<1> QED BY <1>1, <1>2, <1>3, InitImplements, PTL DEF Spec, ImplementsTrail, Promise!TrailSpec
-----------------------------------------------------------------------------
(* Edits of the closed log *)

\* A link to an entry that is not in the file.
Dangling(f, i) ==
  f[i].chained /\ f[i].prev # Genesis /\ \A j \in DOMAIN f : f[j].id # f[i].prev

UniqueIds == \A i, j \in DOMAIN file : file[i].id = file[j].id => i = j

\* Deleted lines are the only way a link gets lost, and they leave a gap behind.
LinksOrGaps ==
  ~Glued(file) => \A i \in DOMAIN file : file[i].chained =>
    file[i].prev = ExpectedPrev(file, i) \/ Dangling(file, i)

\* No link points to an entry still to be written, which could close a gap.
NoLinkAhead ==
  ~Glued(file) =>
    \A i \in DOMAIN file : file[i].chained =>
      /\ file[i].prev < nextId
      /\ \A w \in Writers : pc[w] \in {"read", "write"} => file[i].prev # entry[w]

\* What the verifier trips over: a gap in front of a whole entry, or its content.
Evidence(f, m) == f[m].kind = "whole" /\ (Dangling(f, m) \/ (f[m].chained /\ ~f[m].intact))

EvidenceStays ==
  edits # <<>> /\ (\A k \in DOMAIN edits : edits[k] # "deletedLast") /\ ~Glued(file)
    => \E m \in DOMAIN file : Evidence(file, m)

GapInv == TrailInv /\ UniqueIds /\ LinksOrGaps /\ NoLinkAhead /\ EvidenceStays

\* The verifier expects Genesis, or the id of an entry in front of the place.
LEMMA ExpectedIsThere ==
  ASSUME NEW f \in Seq(Fragments), NEW i \in Nat
  PROVE  ExpectedPrev(f, i) = Genesis \/ \E j \in DOMAIN f : j < i /\ ExpectedPrev(f, i) = f[j].id
<1>1. ChainedBefore(f, i) \subseteq 0..Len(f)
  BY DEF ChainedBefore, Parsed
<1>2. CASE ChainedBefore(f, i) # {}
  <2>1. Max(ChainedBefore(f, i)) \in ChainedBefore(f, i)
    BY <1>1, <1>2, MaxExists
  <2> QED BY <1>2, <2>1 DEF ChainedBefore, Parsed, ExpectedPrev
<1> QED BY <1>2 DEF ExpectedPrev

\* What is expected behind the newest chained entry.
LEMMA ExpectedIsNewest ==
  ASSUME NEW f \in Seq(Fragments), NEW i \in Nat, NEW m \in ChainedBefore(f, i),
         \A y \in ChainedBefore(f, i) : y <= m
  PROVE  ExpectedPrev(f, i) = f[m].id
<1>1. ChainedBefore(f, i) \subseteq 0..Len(f)
  BY DEF ChainedBefore, Parsed
<1> DEFINE M == Max(ChainedBefore(f, i))
<1>2. M \in ChainedBefore(f, i) /\ \A y \in ChainedBefore(f, i) : y <= M
  BY <1>1, MaxExists
<1>3. M <= m /\ m <= M
  BY <1>2
<1>4. M \in Nat /\ m \in Nat
  BY <1>1, <1>2
<1>5. M = m
  BY <1>3, <1>4
<1> QED BY <1>5 DEF ExpectedPrev

\* Deleting an entry that is alone on its line glues nothing, and every entry
\* expects the link it expected before, or expected the deleted one.
LEMMA DeletionKeepsLinks ==
  ASSUME NEW f \in Seq(Fragments), NEW d \in HashLines(f), ~Glued(RemoveAt(f, d)),
         \A i \in DOMAIN f : f[i].kind # "whole" => ~f[i].nl
  PROVE  /\ ~Glued(f)
         /\ \A i \in DOMAIN RemoveAt(f, d) :
              LET i0 == IF i < d THEN i ELSE i + 1 IN
                \/ ExpectedPrev(f, i0) = f[d].id
                \/ ExpectedPrev(RemoveAt(f, d), i) = ExpectedPrev(f, i0)
<1> DEFINE g == RemoveAt(f, d)
<1>1. /\ d \in 1..Len(f) /\ f[d].kind = "whole" /\ f[d].chained
      /\ d = 1 \/ f[d - 1].nl
      /\ d = Len(f) \/ f[d].nl
  BY DEF HashLines, AloneOnLine
<1>2. /\ g \in Seq(Fragments) /\ Len(g) = Len(f) - 1
      /\ \A k \in 1..(Len(f) - 1) : g[k] = IF k < d THEN f[k] ELSE f[k + 1]
      /\ \A k \in DOMAIN g : \E j \in DOMAIN f : g[k] = f[j]
  BY <1>1, RemovalKeepsTheRest
<1> HIDE DEF g
<1>3. ~Glued(f)
  <2> SUFFICES ASSUME NEW i \in 1..(Len(f) - 1), ~f[i].nl PROVE FALSE
    BY DEF Glued
  <2>1. i # d /\ i # d - 1
    BY <1>1
  <2>2. CASE i < d
    <3>1. i \in 1..(Len(g) - 1) /\ i \in 1..(Len(f) - 1)
      BY <1>1, <1>2, <2>1, <2>2
    <3>2. ~g[i].nl
      BY <1>2, <2>2, <3>1
    <3> QED BY <3>1, <3>2 DEF Glued, g
  <2>3. CASE i > d
    <3>1. i - 1 \in 1..(Len(g) - 1) /\ i - 1 \in 1..(Len(f) - 1) /\ ~(i - 1 < d) /\ (i - 1) + 1 = i
      BY <1>1, <1>2, <2>3
    <3>2. ~g[i - 1].nl
      BY <1>2, <3>1
    <3> QED BY <3>1, <3>2 DEF Glued, g
  <2> QED BY <1>1, <2>1, <2>2, <2>3
<1>4. \A i \in DOMAIN g : g[i].kind # "whole" => ~g[i].nl
  BY <1>2
<1>5. Parsed(f) = {i \in DOMAIN f : f[i].kind = "whole"}
      /\ Parsed(g) = {i \in DOMAIN g : g[i].kind = "whole"}
  BY <1>2, <1>3, <1>4, UngluedParsed DEF g
<1>6. ASSUME NEW i \in DOMAIN g, i < d PROVE ExpectedPrev(g, i) = ExpectedPrev(f, i)
  <2>1. \A j \in 1..(i - 1) : j \in DOMAIN f /\ j \in DOMAIN g /\ g[j] = f[j]
    BY <1>1, <1>2, <1>6
  <2>2. ChainedBefore(g, i) = ChainedBefore(f, i)
    <3>1. i \in 1..(Len(f) - 1)
      BY <1>2
    <3>2. ChainedBefore(g, i) = {j \in 1..(i - 1) : g[j].kind = "whole" /\ g[j].chained}
      BY <1>2, <1>5, <3>1 DEF ChainedBefore
    <3>3. ChainedBefore(f, i) = {j \in 1..(i - 1) : f[j].kind = "whole" /\ f[j].chained}
      BY <1>5, <3>1 DEF ChainedBefore
    <3> QED BY <2>1, <3>2, <3>3
  <2>3. \A j \in ChainedBefore(f, i) : j \in 1..(i - 1)
    BY <1>2 DEF ChainedBefore, Parsed
  <2> QED BY <1>2, <2>1, <2>2, <2>3, SamePrefixSamePrev
<1>7. ASSUME NEW i \in DOMAIN g, ~(i < d), ExpectedPrev(f, i + 1) # f[d].id
      PROVE  ExpectedPrev(g, i) = ExpectedPrev(f, i + 1)
  <2> DEFINE C == ChainedBefore(f, i + 1)
             M == Max(C)
  <2>1. i \in 1..(Len(f) - 1) /\ i + 1 \in 1..Len(f)
    BY <1>1, <1>2
  <2>2. C = {j \in DOMAIN f : f[j].kind = "whole" /\ j < i + 1 /\ f[j].chained}
    BY <1>5 DEF ChainedBefore
  <2>3. d \in C /\ C \subseteq 0..Len(f)
    BY <1>1, <1>7, <2>1, <2>2
  <2>4. M \in C /\ \A y \in C : y <= M
    BY <2>3, MaxExists
  <2>5. ExpectedPrev(f, i + 1) = f[M].id
    BY <2>3 DEF ExpectedPrev
  <2> HIDE DEF C, M
  <2>6. M > d /\ M \in 1..Len(f) /\ M < i + 1
    BY <1>1, <1>7, <2>2, <2>3, <2>4, <2>5
  <2>7. M - 1 \in 1..(Len(f) - 1) /\ ~(M - 1 < d) /\ (M - 1) + 1 = M /\ M - 1 < i
    BY <1>1, <2>1, <2>6
  <2>8. g[M - 1] = f[M] /\ M - 1 \in DOMAIN g
    BY <1>2, <2>7
  <2>9. M - 1 \in ChainedBefore(g, i)
    BY <1>5, <2>2, <2>4, <2>7, <2>8 DEF ChainedBefore
  <2>10. ASSUME NEW y \in ChainedBefore(g, i) PROVE y <= M - 1
    <3>1. y \in 1..(Len(f) - 1) /\ y < i /\ g[y].chained /\ g[y].kind = "whole"
      BY <1>2, <1>5 DEF ChainedBefore
    <3>2. CASE y < d
      BY <1>1, <2>6, <3>1, <3>2
    <3>3. CASE ~(y < d)
      <4>1. g[y] = f[y + 1] /\ y + 1 \in DOMAIN f /\ y + 1 < i + 1
        BY <1>2, <2>1, <3>1, <3>3
      <4>2. y + 1 \in C
        BY <2>2, <3>1, <4>1
      <4> QED BY <2>4, <2>6, <3>1, <4>2
    <3> QED BY <3>2, <3>3
  <2>11. ExpectedPrev(g, i) = g[M - 1].id
    BY <1>2, <2>1, <2>9, <2>10, ExpectedIsNewest
  <2> QED BY <2>5, <2>8, <2>11
<1> QED BY <1>3, <1>6, <1>7 DEF g

LEMMA StepGap == SingleInstance /\ GapInv /\ [Next]_vars => GapInv'
<1> SUFFICES ASSUME SingleInstance, GapInv, [Next]_vars PROVE GapInv'
  OBVIOUS
<1>0. TrailInv /\ TrailInv' /\ TypeInv /\ TypeInv' /\ OneWriterPerCopy
  BY StepTrailInv, StepTypes DEF GapInv, TrailInv, ChainInv, TypeInv, HoldsLock, OneWriterPerCopy
<1> DEFINE NewInv == UniqueIds /\ LinksOrGaps /\ NoLinkAhead /\ EvidenceStays
<1>a. \A v, w \in Writers : pc[v] # "idle" /\ pc[w] # "idle" => v = w
  BY <1>0 DEF OneWriterPerCopy, SingleInstance
<1>b. /\ file \in Seq(Fragments) /\ file' \in Seq(Fragments) /\ edits \in Seq(EditKinds)
      /\ pc \in [Writers -> PCs] /\ entry \in [Writers -> Ids \cup {Genesis}]
      /\ nextId \in Nat \ {0} /\ Genesis = 0
      /\ \A i \in DOMAIN file : file[i].id \in Nat \ {0} /\ file[i].prev \in Nat
  <2>1. \A i \in DOMAIN file : file[i] \in Fragments
    BY <1>0 DEF TypeInv, TypeOK
  <2> QED BY <1>0, <2>1, BoundsAssumption DEF TypeInv, TypeOK, Fragments, FragmentsOf, Ids, Genesis
<1>c. NewInv /\ FreshIds /\ SeenIsCurrent /\ TornIsOpen /\ TornIsOpen'
  BY <1>0 DEF GapInv, TrailInv, ChainInv
<1>d. FreshIds' /\ BodyIsPrepared /\ TailMatchesWriter
  BY <1>0 DEF TrailInv, ChainInv
\* A step that leaves the file alone and lets no thread prepare an entry.
<1>e. ASSUME UNCHANGED <<file, edits, entry, nextId>>,
             \A w \in Writers : pc'[w] \in {"read", "write"} => pc[w] \in {"read", "write"}
      PROVE  NewInv'
  BY <1>c, <1>e DEF UniqueIds, LinksOrGaps, NoLinkAhead, EvidenceStays
\* A step that keeps ids, links and line ends, and what stands in front of each.
<1>f. ASSUME UNCHANGED nextId, Len(file') = Len(file), ~Glued(file') => ~Glued(file),
             \A w \in Writers : pc'[w] \notin {"read", "write"},
             \A i \in DOMAIN file : /\ file'[i].id = file[i].id
                                    /\ file'[i].prev = file[i].prev
                                    /\ file'[i].chained = file[i].chained,
             ~Glued(file') => \A i \in DOMAIN file : ExpectedPrev(file', i) = ExpectedPrev(file, i)
      PROVE  /\ UniqueIds' /\ LinksOrGaps' /\ NoLinkAhead'
             /\ \A i \in DOMAIN file : Dangling(file, i) => Dangling(file', i)
  <2>1. DOMAIN file' = DOMAIN file
    BY <1>b, <1>f
  <2>2. \A i \in DOMAIN file : Dangling(file, i) => Dangling(file', i)
    BY <1>f, <2>1 DEF Dangling
  <2>3. UniqueIds' /\ NoLinkAhead'
    BY <1>c, <1>f, <2>1 DEF UniqueIds, NoLinkAhead
  <2>4. LinksOrGaps'
    BY <1>c, <1>f, <2>1, <2>2 DEF LinksOrGaps
  <2> QED BY <2>2, <2>3, <2>4
<1>1. ASSUME NEW w \in Writers, Acquire(w) PROVE NewInv'
  <2>1. \A v \in Writers : pc'[v] = IF v = w THEN "read" ELSE pc[v]
    BY <1>b, <1>1 DEF Acquire
  <2>2. \A v \in Writers : entry'[v] = IF v = w THEN nextId ELSE entry[v]
    BY <1>b, <1>1 DEF Acquire
  <2>3. file' = file /\ nextId' = nextId + 1 /\ edits' = edits
    BY <1>1 DEF Acquire
  <2>4. UniqueIds' /\ LinksOrGaps' /\ EvidenceStays'
    BY <1>c, <2>3 DEF UniqueIds, LinksOrGaps, EvidenceStays
  <2>5. ASSUME ~Glued(file'), NEW i \in DOMAIN file', file'[i].chained
        PROVE  file'[i].prev < nextId'
    BY <1>b, <1>c, <2>3, <2>5 DEF NoLinkAhead
  <2>6. ASSUME ~Glued(file'), NEW v \in Writers, pc'[v] \in {"read", "write"},
               NEW i \in DOMAIN file', file'[i].chained
        PROVE  file'[i].prev # entry'[v]
    <3>1. file[i].prev < nextId /\ (pc[v] \in {"read", "write"} => file[i].prev # entry[v])
      BY <1>c, <2>3, <2>6 DEF NoLinkAhead
    <3> QED BY <1>b, <2>1, <2>2, <2>3, <2>6, <3>1
  <2> QED BY <2>4, <2>5, <2>6 DEF NoLinkAhead
<1>2. ASSUME NEW w \in Writers, ReadLast(w) \/ ReadForever(w) \/ Fail(w) PROVE NewInv'
  BY <1>b, <1>e, <1>2 DEF ReadLast, ReadForever, Fail, Return
<1>3. ASSUME NEW m \in Instances, Crash(m) PROVE NewInv'
  BY <1>b, <1>e, <1>3 DEF Crash
<1>4. ASSUME UNCHANGED vars PROVE NewInv'
  BY <1>e, <1>4 DEF vars
<1>5. ASSUME NEW w \in Writers, StartBody(w) PROVE NewInv'
  <2>1. PICK k \in {"cut", "split"}, t \in BOOLEAN : file' = Append(file, NewFragment(w, k, t))
    BY <1>5 DEF StartBody
  <2> DEFINE e == NewFragment(w, k, t)
             z == Len(file) + 1
  <2>2. /\ e \in Fragments /\ e.kind # "whole" /\ ~e.nl /\ e.prev = seen[w] /\ e.id = entry[w]
    BY <1>0, <1>b, <1>5 DEF StartBody, NewFragment, Fragments, FragmentsOf, Kinds, TypeInv, TypeOK, HasEntry
  <2>3. file' = Append(file, e)
    BY <2>1
  <2> HIDE DEF e
  <2>4. /\ Len(file') = z /\ file'[z] = e /\ \A i \in DOMAIN file : file'[i] = file[i]
        /\ \A i \in DOMAIN file' : i \in DOMAIN file \/ i = z
        /\ z \in DOMAIN file' /\ z \in Nat
    BY <1>b, <2>2, <2>3
  <2>5. /\ pc[w] = "write" /\ UNCHANGED <<entry, nextId, edits>>
        /\ \A v \in Writers : pc'[v] \notin {"read", "write"}
    BY <1>a, <1>b, <1>5 DEF StartBody
  <2> HIDE DEF z
  <2>6. \A i \in DOMAIN file : file[i].id # e.id
    BY <1>c, <2>2, <2>5 DEF FreshIds
  <2>7. UniqueIds'
    BY <1>c, <2>4, <2>6 DEF UniqueIds
  <2>8. ASSUME ~Glued(file')
        PROVE  /\ ~Glued(file) /\ e.prev = ExpectedPrev(file', z) /\ e.prev < nextId
               /\ \A i \in DOMAIN file : file[i].chained =>
                    file[i].prev # e.id /\ file[i].prev < nextId
               /\ \A i \in DOMAIN file : ExpectedPrev(file', i) = ExpectedPrev(file, i)
    <3>1. /\ ~Glued(file)
          /\ \A j \in 1..(Len(file) + 1) : ExpectedPrev(file', j) = ExpectedPrev(file, j)
      BY <1>b, <1>c, <2>2, <2>3, <2>8, AppendKeepsLinks DEF TornIsOpen
    <3>2. e.prev = ExpectedPrev(file, z) /\ ExpectedPrev(file', z) = ExpectedPrev(file, z)
      BY <1>b, <1>c, <2>2, <2>5, <3>1 DEF SeenIsCurrent, z
    <3>3. e.prev < nextId
      BY <1>b, <1>c, <2>4, <3>2, ExpectedIsThere DEF FreshIds
    <3>4. \A i \in DOMAIN file : file[i].chained =>
            file[i].prev # e.id /\ file[i].prev < nextId
      BY <1>c, <2>2, <2>5, <3>1 DEF NoLinkAhead
    <3>5. \A i \in DOMAIN file : i \in 1..(Len(file) + 1)
      BY <1>b
    <3> QED BY <3>1, <3>2, <3>3, <3>4, <3>5
  <2>9. ASSUME ~Glued(file'), NEW i \in DOMAIN file, Dangling(file, i) PROVE Dangling(file', i)
    BY <2>4, <2>8, <2>9 DEF Dangling
  <2>10. LinksOrGaps'
    <3> SUFFICES ASSUME ~Glued(file'), NEW i \in DOMAIN file', file'[i].chained
                 PROVE  file'[i].prev = ExpectedPrev(file', i) \/ Dangling(file', i)
      BY DEF LinksOrGaps
    <3> QED BY <1>c, <2>4, <2>8, <2>9 DEF LinksOrGaps
  <2>11. NoLinkAhead'
    BY <2>4, <2>5, <2>8 DEF NoLinkAhead
  <2>12. EvidenceStays'
    <3> SUFFICES ASSUME edits # <<>>, \A j \in DOMAIN edits : edits[j] # "deletedLast", ~Glued(file')
                 PROVE  \E m \in DOMAIN file' : Evidence(file', m)
      BY <2>5 DEF EvidenceStays
    <3>1. PICK m \in DOMAIN file : Evidence(file, m)
      BY <1>c, <2>8 DEF EvidenceStays
    <3>2. m \in DOMAIN file'
      BY <1>b, <2>4 DEF z
    <3> QED BY <2>4, <2>9, <3>1, <3>2 DEF Evidence
  <2> QED BY <2>7, <2>10, <2>11, <2>12
<1>6. ASSUME NEW w \in Writers, FinishBody(w) \/ Newline(w) PROVE NewInv'
  <2> DEFINE z == Len(file)
  <2>1. z \in DOMAIN file /\ file[z] \in Fragments
    BY <1>0, <1>b, <1>6, TailStep
  <2>2. /\ Len(file') = Len(file) /\ \A i \in DOMAIN file : i # z => file'[i] = file[i]
        /\ file'[z].id = file[z].id /\ file'[z].prev = file[z].prev
        /\ file'[z].chained = file[z].chained /\ file'[z].intact = file[z].intact
        /\ file[z].kind = "whole" => file'[z].kind = "whole"
    BY <1>0, <1>6, TailStep
  <2>3. UNCHANGED <<nextId, edits>> /\ \A v \in Writers : pc'[v] \notin {"read", "write"}
    BY <1>0, <1>a, <1>6, TailStep
  <2>4. \A i \in 1..(Len(file) - 1) : file'[i] = file[i]
    BY <1>b, <2>2
  <2>5. ~Glued(file') => ~Glued(file)
    BY <2>2, <2>4 DEF Glued
  <2>6. ~Glued(file') => \A i \in DOMAIN file : ExpectedPrev(file', i) = ExpectedPrev(file, i)
    BY <1>b, <1>c, <2>2, <2>4, <2>5, TailKeepsLinks DEF TornIsOpen
  <2> HIDE DEF z
  <2>7. \A i \in DOMAIN file : /\ file'[i].id = file[i].id
                               /\ file'[i].prev = file[i].prev
                               /\ file'[i].chained = file[i].chained
                               /\ file'[i].intact = file[i].intact
                               /\ file[i].kind = "whole" => file'[i].kind = "whole"
    BY <2>2
  <2>8. /\ UniqueIds' /\ LinksOrGaps' /\ NoLinkAhead'
        /\ \A i \in DOMAIN file : Dangling(file, i) => Dangling(file', i)
    BY <1>f, <2>2, <2>3, <2>5, <2>6, <2>7
  <2>9. DOMAIN file' = DOMAIN file
    BY <1>b, <2>2
  <2>10. \A i \in DOMAIN file : Evidence(file, i) => Evidence(file', i)
    BY <2>7, <2>8 DEF Evidence
  <2>11. EvidenceStays'
    BY <1>c, <2>3, <2>5, <2>9, <2>10 DEF EvidenceStays
  <2> QED BY <2>8, <2>11
<1>7. ASSUME NEW i \in DOMAIN file, Modify(i) PROVE NewInv'
  <2>1. /\ Len(file') = Len(file) /\ DOMAIN file' = DOMAIN file
        /\ file'[i] = [file[i] EXCEPT !.intact = FALSE]
        /\ \A j \in DOMAIN file : j # i => file'[j] = file[j]
        /\ file[i] \in Fragments /\ file[i].kind = "whole" /\ file[i].chained
    BY <1>b, <1>7 DEF Modify, HashLines
  <2>2. \A j \in DOMAIN file : /\ file'[j].id = file[j].id
                               /\ file'[j].prev = file[j].prev
                               /\ file'[j].chained = file[j].chained
                               /\ file'[j].kind = file[j].kind
                               /\ file'[j].nl = file[j].nl
    BY <2>1 DEF Fragments, FragmentsOf
  <2>3. ~Glued(file') => ~Glued(file)
    <3>1. \A j \in 1..(Len(file) - 1) : j \in DOMAIN file
      BY <1>b
    <3> QED BY <2>1, <2>2, <3>1 DEF Glued
  <2>4. ASSUME ~Glued(file'), NEW j \in DOMAIN file
        PROVE  ExpectedPrev(file', j) = ExpectedPrev(file, j)
    <3>1. Parsed(file) = {m \in DOMAIN file : file[m].kind = "whole"}
          /\ Parsed(file') = {m \in DOMAIN file' : file'[m].kind = "whole"}
      BY <1>b, <1>c, <2>3, <2>4, UngluedParsed DEF TornIsOpen
    <3>2. ChainedBefore(file', j) = ChainedBefore(file, j)
      BY <2>1, <2>2, <3>1 DEF ChainedBefore
    <3>3. \A m \in ChainedBefore(file, j) : m \in DOMAIN file
      BY <3>1 DEF ChainedBefore
    <3>4. j \in Nat
      BY <1>b
    <3> QED BY <1>b, <2>2, <3>2, <3>3, <3>4, SamePrefixSamePrev
  <2>5. \A v \in Writers : pc'[v] \notin {"read", "write"}
    BY <1>7 DEF Modify, Quiet
  <2>6. nextId' = nextId
    BY <1>7 DEF Modify
  <2>7. UniqueIds' /\ LinksOrGaps' /\ NoLinkAhead'
    BY <1>f, <2>1, <2>2, <2>3, <2>4, <2>5, <2>6
  <2>8. Evidence(file', i)
    BY <2>1, <2>2 DEF Evidence, Fragments, FragmentsOf
  <2> QED BY <2>1, <2>7, <2>8 DEF EvidenceStays
<1>8. ASSUME NEW d \in DOMAIN file, Delete(d) PROVE NewInv'
  <2> DEFINE At(i) == IF i < d THEN i ELSE i + 1
  <2>1. /\ d \in 1..Len(file) /\ d \in HashLines(file) /\ file' = RemoveAt(file, d)
        /\ nextId' = nextId
        /\ \A v \in Writers : pc'[v] \notin {"read", "write"}
    BY <1>b, <1>8 DEF Delete, Quiet
  <2>2. /\ Len(file') = Len(file) - 1
        /\ \A i \in 1..(Len(file) - 1) : file'[i] = IF i < d THEN file[i] ELSE file[i + 1]
    BY <1>b, <2>1, RemovalKeepsTheRest
  <2>3. \A i \in DOMAIN file' : /\ i \in 1..(Len(file) - 1) /\ At(i) \in DOMAIN file
                                /\ At(i) # d /\ file'[i] = file[At(i)]
    BY <1>b, <2>1, <2>2
  <2>4. ASSUME NEW i \in DOMAIN file', NEW j \in DOMAIN file', At(i) = At(j) PROVE i = j
    <3>1. i \in Nat /\ j \in Nat /\ d \in Nat
      BY <2>1, <2>3
    <3>2. (IF i < d THEN i ELSE i + 1) = (IF j < d THEN j ELSE j + 1)
      BY <2>4
    <3> QED BY <3>1, <3>2
  <2>5. ASSUME ~Glued(file')
        PROVE  /\ ~Glued(file)
               /\ \A i \in DOMAIN file' : \/ ExpectedPrev(file, At(i)) = file[d].id
                                          \/ ExpectedPrev(file', i) = ExpectedPrev(file, At(i))
    BY <1>b, <1>c, <2>1, <2>5, DeletionKeepsLinks DEF TornIsOpen
  <2> HIDE DEF At
  <2>6. UniqueIds'
    BY <1>c, <2>3, <2>4 DEF UniqueIds
  <2>7. NoLinkAhead'
    BY <1>c, <2>1, <2>3, <2>5 DEF NoLinkAhead
  <2>8. \A i \in DOMAIN file' : file'[i].id # file[d].id /\ file[d].id # Genesis
    BY <1>b, <1>c, <2>3 DEF UniqueIds
  <2>9. ASSUME NEW i \in DOMAIN file', file[At(i)].chained,
               file[At(i)].prev = file[d].id \/ Dangling(file, At(i))
        PROVE  Dangling(file', i)
    BY <2>3, <2>8, <2>9 DEF Dangling
  <2>10. LinksOrGaps'
    <3> SUFFICES ASSUME ~Glued(file'), NEW i \in DOMAIN file', file'[i].chained
                 PROVE  file'[i].prev = ExpectedPrev(file', i) \/ Dangling(file', i)
      BY DEF LinksOrGaps
    <3>1. file[At(i)].chained /\ file'[i].prev = file[At(i)].prev
      BY <2>3
    <3>2. file[At(i)].prev = ExpectedPrev(file, At(i)) \/ Dangling(file, At(i))
      BY <1>c, <2>3, <2>5, <3>1 DEF LinksOrGaps
    <3> QED BY <2>5, <2>9, <3>1, <3>2
  <2>11. EvidenceStays'
    <3> SUFFICES ASSUME \A j \in DOMAIN edits' : edits'[j] # "deletedLast", ~Glued(file')
                 PROVE  \E m \in DOMAIN file' : Evidence(file', m)
      BY DEF EvidenceStays
    <3> DEFINE H == {j \in HashLines(file) : j > d}
    <3>1. HashLines(file) \subseteq 0..Len(file)
      BY <1>b DEF HashLines
    <3>2. d # Max(HashLines(file))
      <4>1. edits' = Append(edits, IF d = Max(HashLines(file)) THEN "deletedLast" ELSE "deleted")
        BY <1>8 DEF Delete
      <4>2. Len(edits) + 1 \in DOMAIN edits'
            /\ edits'[Len(edits) + 1] = IF d = Max(HashLines(file)) THEN "deletedLast" ELSE "deleted"
        BY <1>b, <4>1
      <4> QED BY <4>2
    <3>3. H # {} /\ H \subseteq Nat
      <4>1. Max(HashLines(file)) \in HashLines(file) /\ d <= Max(HashLines(file))
        BY <2>1, <3>1, MaxExists
      <4>2. Max(HashLines(file)) \in Nat /\ d \in Nat
        BY <2>1, <3>1, <4>1
      <4>3. Max(HashLines(file)) > d
        BY <3>2, <4>1, <4>2
      <4> QED BY <3>1, <4>1, <4>3
    <3>4. PICK s \in H : \A y \in H : s <= y
      BY <3>3, MinExists
    <3>5. /\ s \in 1..Len(file) /\ s > d /\ file[s].kind = "whole" /\ file[s].chained
      BY <1>b, <3>4 DEF HashLines
    <3>6. ~Glued(file)
      BY <2>5
    <3>7. ExpectedPrev(file, s) = file[d].id
      <4>1. Parsed(file) = {m \in DOMAIN file : file[m].kind = "whole"}
        BY <1>b, <1>c, <3>6, UngluedParsed DEF TornIsOpen
      <4>2. \A j \in DOMAIN file : AloneOnLine(file, j)
        BY <1>b, <3>6 DEF AloneOnLine, Glued
      <4>3. ChainedBefore(file, s) = {j \in HashLines(file) : j < s}
        BY <4>1, <4>2 DEF ChainedBefore, HashLines
      <4>4. ASSUME NEW y \in ChainedBefore(file, s) PROVE y <= d
        BY <2>1, <3>1, <3>4, <3>5, <4>3
      <4>5. d \in ChainedBefore(file, s)
        BY <2>1, <3>5, <4>3
      <4> QED BY <1>b, <3>5, <4>4, <4>5, ExpectedIsNewest
    <3>8. s - 1 \in DOMAIN file' /\ At(s - 1) = s
      BY <1>b, <2>1, <2>2, <3>5 DEF At
    <3>9. file[s].prev = file[d].id \/ Dangling(file, s)
      BY <1>b, <1>c, <3>5, <3>6, <3>7 DEF LinksOrGaps
    <3>10. Dangling(file', s - 1)
      BY <2>9, <3>5, <3>8, <3>9
    <3> QED BY <2>3, <3>5, <3>8, <3>10 DEF Evidence
  <2> QED BY <2>6, <2>7, <2>10, <2>11
<1>9. NewInv'
  BY <1>1, <1>2, <1>3, <1>4, <1>5, <1>6, <1>7, <1>8 DEF Next, Appending, Editing, Step
<1> QED BY <1>0, <1>9 DEF GapInv

\* Changed lines, and deleted lines that were not the newest, stay detected in
\* the log of one copy, however many edits and appends follow.
THEOREM EditsAreDetected == SingleInstance => (Spec => []EditsStayDetected)
<1> SUFFICES ASSUME SingleInstance PROVE Spec => []EditsStayDetected
  OBVIOUS
<1>1. Init => GapInv
  <2> SUFFICES ASSUME Init PROVE GapInv
    OBVIOUS
  <2>1. LegacyFile(file)
    BY FilesAssumption DEF Init
  <2>2. \A w \in Writers : pc[w] = "idle"
    BY DEF Init
  <2>3. TrailInv
    BY <2>1, <2>2, InitChain DEF Init, TrailInv, BodyIsPrepared, FreshIds, LegacyFile
  <2>4. UniqueIds /\ LinksOrGaps /\ NoLinkAhead /\ EvidenceStays
    BY <2>1 DEF Init, LegacyFile, UniqueIds, LinksOrGaps, NoLinkAhead, EvidenceStays
  <2> QED BY <2>3, <2>4 DEF GapInv
<1>2. GapInv /\ [Next]_vars => GapInv'
  BY StepGap
<1>3. GapInv => EditsStayDetected
  <2> SUFFICES ASSUME GapInv, edits # <<>>, \A j \in DOMAIN edits : edits[j] # "deletedLast",
                      ~Glued(file)
               PROVE  ~VerifyOk(file)
    BY DEF EditsStayDetected
  <2>1. file \in Seq(Fragments) /\ TornIsOpen
    BY DEF GapInv, TrailInv, ChainInv, TypeInv, TypeOK
  <2>2. PICK m \in DOMAIN file : Evidence(file, m)
    BY DEF GapInv, EvidenceStays
  <2>3. m \in Parsed(file)
    BY <2>1, <2>2, UngluedParsed DEF Evidence, TornIsOpen
  <2>4. Dangling(file, m) => file[m].chained /\ file[m].prev # ExpectedPrev(file, m)
    BY <2>1, ExpectedIsThere DEF Dangling
  <2> QED BY <2>2, <2>3, <2>4 DEF Evidence, Broken, VerifyOk
<1> QED BY <1>1, <1>2, <1>3, PTL DEF Spec
-----------------------------------------------------------------------------
(* A verification beside the appends *)

ReadFragments == FragmentsOf(ReadKinds)

ReaderTypeInv ==
  /\ TypeInv
  /\ ReaderTypeOK
  /\ \A v \in Readers : Len(view[v]) <= Len(file)

\* Readers only watch.
LEMMA ReaderStepIsStep == [ReaderNext]_<<vars, readVars>> => [Next]_vars
  BY DEF ReaderNext, EditClosed, Next, Begin, ReadRest, ReadNext, ReadOn, vars, readVars

\* A step of append adds a fragment, or adds to the last one.
LEMMA AppendingGrows ==
  ASSUME TypeInv, Appending
  PROVE  /\ Len(file) <= Len(file') /\ UNCHANGED edits
         /\ \A i \in 1..(Len(file) - 1) : file'[i] = file[i]
         /\ \A i \in DOMAIN file :
              /\ file'[i].id = file[i].id /\ file'[i].chained = file[i].chained
              /\ file'[i].prev = file[i].prev /\ file'[i].intact = file[i].intact
              /\ file[i].kind = "whole" => file'[i].kind = "whole"
         /\ FileFree /\ Len(file') = Len(file) =>
              FileFree' /\ \A i \in DOMAIN file : file'[i].kind = file[i].kind
         /\ Len(file') > Len(file) => \A i \in DOMAIN file : file'[i].kind = file[i].kind
<1> USE DEF TypeInv, TypeOK
<1>1. ASSUME NEW w \in Writers, StartBody(w)
      PROVE  /\ Len(file') = Len(file) + 1 /\ UNCHANGED edits
             /\ \A i \in DOMAIN file : file'[i] = file[i]
  <2>1. PICK k \in {"cut", "split"}, t \in BOOLEAN : file' = Append(file, NewFragment(w, k, t))
    BY <1>1 DEF StartBody
  <2> HIDE DEF NewFragment
  <2> QED BY <1>1, <2>1 DEF StartBody
<1>2. ASSUME NEW w \in Writers, FinishBody(w) PROVE ~FileFree
  BY <1>2 DEF FinishBody, FileFree
<1>3. ASSUME NEW w \in Writers, Newline(w)
      PROVE  FileFree' /\ \A i \in DOMAIN file : file'[i].kind = file[i].kind
  <2>1. Len(file) \in DOMAIN file /\ file[Len(file)] \in Fragments
    BY <1>3 DEF Newline, HasFragment
  <2>2. file'[Len(file)].kind = file[Len(file)].kind
    BY <1>3, <2>1 DEF Newline, Fragments, FragmentsOf
  <2>3. FileFree'
    BY <1>3 DEF Newline, Return, FileFree
  <2> QED BY <1>3, <2>2, <2>3, TailStep
<1>4. ASSUME NEW w \in Writers, FinishBody(w) \/ Newline(w)
      PROVE  /\ Len(file') = Len(file) /\ UNCHANGED edits
             /\ \A i \in 1..(Len(file) - 1) : file'[i] = file[i]
             /\ \A i \in DOMAIN file :
                  /\ file'[i].id = file[i].id /\ file'[i].chained = file[i].chained
                  /\ file'[i].prev = file[i].prev /\ file'[i].intact = file[i].intact
                  /\ file[i].kind = "whole" => file'[i].kind = "whole"
  BY <1>4, TailStep
<1>5. ASSUME NEW w \in Writers, Acquire(w) \/ ReadLast(w) \/ ReadForever(w) \/ Fail(w)
      PROVE  UNCHANGED <<file, edits>> /\ (FileFree => FileFree')
  BY <1>5 DEF Acquire, ReadLast, ReadForever, Fail, Return, FileFree
<1>6. ASSUME NEW n \in Instances, Crash(n)
      PROVE  UNCHANGED <<file, edits>> /\ (FileFree => FileFree')
  BY <1>6 DEF Crash, FileFree
<1> QED BY <1>1, <1>2, <1>3, <1>4, <1>5, <1>6 DEF Appending, Step

\* What a reader has read when it reads on.
LEMMA ReadOnReads ==
  ASSUME ReaderTypeInv, NEW v \in Readers, view[v] # <<>>,
         NEW e \in ReadFragments, ReadOn(v, e)
  PROVE  LET n == Len(view[v]) IN
         /\ n \in 1..Len(file) /\ Last(view[v]) = view[v][n]
         /\ view[v] \in Seq(ReadFragments) /\ view[v][n] \in ReadFragments
         /\ view' \in [Readers -> Seq(ReadFragments)] /\ Len(view'[v]) = Len(file)
         /\ \A u \in Readers : u # v => view'[u] = view[u]
         /\ \A i \in 1..(n - 1) : view'[v][i] = view[v][i]
         /\ view'[v][n] = e
         /\ n + 1 \in DOMAIN file => view'[v][n + 1] = [file[n + 1] EXCEPT !.taken = FALSE]
         /\ \A i \in DOMAIN file : i > n + 1 => view'[v][i] = file[i]
         /\ \A i \in DOMAIN file : i > n =>
              /\ view'[v][i].id = file[i].id /\ view'[v][i].chained = file[i].chained
              /\ view'[v][i].prev = file[i].prev /\ view'[v][i].intact = file[i].intact
              /\ view'[v][i].kind = file[i].kind /\ view'[v][i].nl = file[i].nl
<1> DEFINE n == Len(view[v])
           g == [i \in DOMAIN file |->
                   CASE i < n -> view[v][i]
                     [] i = n -> e
                     [] i = n + 1 -> [file[i] EXCEPT !.taken = FALSE]
                     [] OTHER -> file[i]]
<1>1. view[v] \in Seq(ReadFragments) /\ file \in Seq(Fragments) /\ n <= Len(file)
      /\ view \in [Readers -> Seq(ReadFragments)]
  BY DEF ReaderTypeInv, ReaderTypeOK, TypeOK, ReadFragments
<1>2. n \in 1..Len(file) /\ view[v][n] \in ReadFragments
  BY <1>1
<1>3. view' = [view EXCEPT ![v] = g]
  BY DEF ReadOn
<1>4. ASSUME NEW i \in DOMAIN file
      PROVE  file[i] \in ReadFragments /\ [file[i] EXCEPT !.taken = FALSE] \in ReadFragments
  <2>1. file[i] \in Fragments
    BY <1>1
  <2> QED BY <2>1 DEF Fragments, ReadFragments, FragmentsOf, ReadKinds
<1>5. ASSUME NEW i \in DOMAIN file PROVE g[i] \in ReadFragments
  <2>1. i \in Nat
    BY <1>1
  <2>2. CASE i < n
    <3>1. i \in 1..Len(view[v])
      BY <1>1, <1>2, <2>2
    <3> QED BY <1>1, <2>2, <3>1
  <2>3. CASE i >= n
    BY <1>1, <1>2, <1>4, <2>1, <2>3
  <2> QED BY <1>1, <1>2, <2>1, <2>2, <2>3
<1>6. g \in Seq(ReadFragments) /\ Len(g) = Len(file)
  <2>1. DOMAIN file = 1..Len(file) /\ Len(file) \in Nat
    BY <1>1
  <2>2. g \in [1..Len(file) -> ReadFragments]
    BY <1>5, <2>1
  <2> QED BY <2>1, <2>2
<1>7. view'[v] = g /\ \A u \in Readers : u # v => view'[u] = view[u]
  BY <1>1, <1>3
<1>8. view' \in [Readers -> Seq(ReadFragments)]
  <2> HIDE DEF g
  <2> QED BY <1>1, <1>3, <1>6
<1>9. ASSUME NEW i \in DOMAIN file, i > n
      PROVE  /\ g[i].id = file[i].id /\ g[i].chained = file[i].chained
             /\ g[i].prev = file[i].prev /\ g[i].intact = file[i].intact
             /\ g[i].kind = file[i].kind /\ g[i].nl = file[i].nl
  <2>1. file[i] \in Fragments /\ i \in Nat
    BY <1>1
  <2>2. g[i] = [file[i] EXCEPT !.taken = FALSE] \/ g[i] = file[i]
    BY <1>2, <1>9, <2>1
  <2> HIDE DEF g
  <2> QED BY <2>1, <2>2 DEF Fragments, FragmentsOf
<1>10. /\ \A i \in 1..(n - 1) : g[i] = view[v][i]
       /\ g[n] = e
       /\ n + 1 \in DOMAIN file => g[n + 1] = [file[n + 1] EXCEPT !.taken = FALSE]
       /\ \A i \in DOMAIN file : i > n + 1 => g[i] = file[i]
  <2>1. DOMAIN file = 1..Len(file) /\ Len(file) \in Nat /\ n \in Nat
    BY <1>1
  <2>2. \A i \in 1..(n - 1) : i \in DOMAIN file /\ i < n
    BY <1>1, <2>1
  <2>3. \A i \in 1..(n - 1) : g[i] = view[v][i]
    BY <2>2
  <2>4. n + 1 \in DOMAIN file => g[n + 1] = [file[n + 1] EXCEPT !.taken = FALSE]
    BY <2>1
  <2>5. g[n] = e
    BY <1>2, <2>1
  <2>6. \A i \in DOMAIN file : i > n + 1 => g[i] = file[i]
    BY <2>1
  <2> QED BY <2>3, <2>4, <2>5, <2>6
<1> HIDE DEF g
<1> QED BY <1>1, <1>2, <1>6, <1>7, <1>8, <1>9, <1>10 DEF Last

LEMMA RestIsFragment ==
  ASSUME ReaderTypeInv, NEW v \in Readers, view[v] # <<>>, NEW k \in ReadKinds, NEW b \in BOOLEAN
  PROVE  /\ [Last(view[v]) EXCEPT !.nl = b] \in ReadFragments
         /\ [Last(view[v]) EXCEPT !.kind = k, !.nl = b] \in ReadFragments
<1>1. Last(view[v]) \in ReadFragments
  <2>1. view[v] \in Seq(ReadFragments)
    BY DEF ReaderTypeInv, ReaderTypeOK, ReadFragments
  <2> QED BY <2>1 DEF Last
<1> QED BY <1>1 DEF ReadFragments, FragmentsOf

\* The fragment a reader reads on with.
LEMMA ReadingOn ==
  ASSUME ReaderTypeInv, NEW v \in Readers, ReadRest(v) \/ ReadNext(v)
  PROVE  /\ view[v] # <<>>
         /\ \E e \in ReadFragments :
              /\ ReadOn(v, e)
              /\ e.id = Last(view[v]).id /\ e.chained = Last(view[v]).chained
              /\ e.prev = Last(view[v]).prev /\ e.intact = Last(view[v]).intact
              /\ ReadRest(v) => e.kind \in {"pieces", "skipped"} /\ live[v]
              /\ ~ReadRest(v) => e.kind = Last(view[v]).kind /\ e.nl
<1>1. view[v] # <<>>
  BY DEF ReadRest, ReadNext, MayReadOn
<1>2. Last(view[v]) \in ReadFragments
  <2>1. view[v] \in Seq(ReadFragments)
    BY DEF ReaderTypeInv, ReaderTypeOK, ReadFragments
  <2> QED BY <1>1, <2>1 DEF Last
<1>3. CASE ReadRest(v)
  <2>1. PICK k \in {"pieces", "skipped"} :
          ReadOn(v, [Last(view[v]) EXCEPT !.kind = k, !.nl = file[Len(view[v])].nl])
    BY <1>3 DEF ReadRest
  <2> DEFINE b == file[Len(view[v])].nl
             e == [Last(view[v]) EXCEPT !.kind = k, !.nl = b]
  <2>2. b \in BOOLEAN
    <3>1. file \in Seq(Fragments) /\ view[v] \in Seq(ReadFragments) /\ Len(view[v]) <= Len(file)
      BY DEF ReaderTypeInv, ReaderTypeOK, TypeOK, ReadFragments
    <3>2. Len(view[v]) \in DOMAIN file
      BY <1>1, <3>1
    <3>3. file[Len(view[v])] \in Fragments
      BY <3>1, <3>2
    <3> QED BY <3>3 DEF Fragments, FragmentsOf
  <2>3. e \in ReadFragments
    BY <1>1, <2>2, RestIsFragment DEF ReadKinds
  <2> HIDE DEF b
  <2>4. /\ e.id = Last(view[v]).id /\ e.chained = Last(view[v]).chained
        /\ e.prev = Last(view[v]).prev /\ e.intact = Last(view[v]).intact /\ e.kind = k
    BY <1>2 DEF ReadFragments, FragmentsOf
  <2>5. ReadOn(v, e) /\ live[v]
    BY <1>3, <2>1 DEF ReadRest, b
  <2> QED BY <1>1, <1>3, <2>3, <2>4, <2>5
<1>4. CASE ~ReadRest(v)
  <2> DEFINE e == [Last(view[v]) EXCEPT !.nl = TRUE]
  <2>1. ReadOn(v, e)
    BY <1>4 DEF ReadNext
  <2>2. e \in ReadFragments
    BY <1>1, RestIsFragment DEF ReadKinds
  <2>3. /\ e.id = Last(view[v]).id /\ e.chained = Last(view[v]).chained
        /\ e.prev = Last(view[v]).prev /\ e.intact = Last(view[v]).intact
        /\ e.kind = Last(view[v]).kind /\ e.nl
    BY <1>2 DEF ReadFragments, FragmentsOf
  <2> QED BY <1>1, <1>4, <2>1, <2>2, <2>3
<1> QED BY <1>3, <1>4

LEMMA InitReaderTypes == ReaderInit => ReaderTypeInv
<1> SUFFICES ASSUME ReaderInit PROVE ReaderTypeInv
  OBVIOUS
<1>1. TypeInv
  BY InitTypes DEF ReaderInit
<1>2. file \in Seq(Fragments) /\ \A v \in Readers : view[v] = <<>>
  BY <1>1 DEF ReaderInit, TypeInv, TypeOK
<1> QED BY <1>1, <1>2 DEF ReaderInit, ReaderTypeInv, ReaderTypeOK, TypeInv

LEMMA StepReaderTypes == ReaderTypeInv /\ [ReaderNext]_<<vars, readVars>> => ReaderTypeInv'
<1> SUFFICES ASSUME ReaderTypeInv, [ReaderNext]_<<vars, readVars>> PROVE ReaderTypeInv'
  OBVIOUS
<1>0. TypeInv /\ TypeInv'
  BY ReaderStepIsStep, StepTypes DEF ReaderTypeInv
<1>a. file \in Seq(Fragments) /\ file' \in Seq(Fragments) /\ acked \subseteq Ids
  BY <1>0 DEF TypeInv, TypeOK
<1>b. /\ view \in [Readers -> Seq(ReadFragments)]
      /\ live \in [Readers -> BOOLEAN] /\ known \in [Readers -> SUBSET Ids]
      /\ \A v \in Readers : Len(view[v]) <= Len(file)
  BY DEF ReaderTypeInv, ReaderTypeOK, ReadFragments
<1> DEFINE Reads == /\ view \in [Readers -> Seq(ReadFragments)]
                    /\ live \in [Readers -> BOOLEAN]
                    /\ known \in [Readers -> SUBSET Ids]
                    /\ \A v \in Readers : Len(view[v]) <= Len(file)
<1>1. ASSUME Appending, UNCHANGED readVars PROVE Reads'
  <2>1. Len(file) <= Len(file')
    BY <1>0, <1>1, AppendingGrows
  <2>2. \A v \in Readers : Len(view[v]) \in Nat
    BY <1>b
  <2> QED BY <1>a, <1>b, <1>1, <2>1, <2>2 DEF readVars
<1>2. ASSUME NEW v \in Readers, Begin(v) PROVE Reads'
  <2>1. file' = file /\ view' = [view EXCEPT ![v] = file]
    BY <1>2 DEF Begin, vars
  <2>2. file \in Seq(ReadFragments)
    <3>1. Fragments \subseteq ReadFragments
      BY DEF Fragments, ReadFragments, FragmentsOf, ReadKinds
    <3> QED BY <1>a, <3>1
  <2>3. live' \in [Readers -> BOOLEAN] /\ known' \in [Readers -> SUBSET Ids]
    BY <1>a, <1>b, <1>2 DEF Begin
  <2>4. Len(file) <= Len(file)
    BY <1>a
  <2> QED BY <1>b, <2>1, <2>2, <2>3, <2>4
<1>3. ASSUME NEW v \in Readers, ReadRest(v) \/ ReadNext(v) PROVE Reads'
  <2>1. PICK e \in ReadFragments : ReadOn(v, e)
    BY <1>3, ReadingOn
  <2>2. view[v] # <<>>
    BY <1>3, ReadingOn
  <2>3. /\ view' \in [Readers -> Seq(ReadFragments)] /\ Len(view'[v]) = Len(file)
        /\ \A u \in Readers : u # v => view'[u] = view[u]
    BY <2>1, <2>2, ReadOnReads
  <2>4. file' = file /\ known' = known /\ live' \in [Readers -> BOOLEAN]
    BY <1>b, <2>1 DEF ReadOn, vars
  <2>5. Len(file) <= Len(file)
    BY <1>a
  <2> QED BY <1>b, <2>3, <2>4, <2>5
<1>4. ASSUME UNCHANGED <<vars, readVars>> PROVE Reads'
  BY <1>b, <1>4 DEF vars, readVars
<1>5. ASSUME EditClosed PROVE Reads'
  <2>1. \A v \in Readers : view'[v] = <<>>
    BY <1>5 DEF EditClosed
  <2>2. Len(<<>>) <= Len(file') /\ <<>> \in Seq(ReadFragments)
    BY <1>a
  <2>3. view' \in [Readers -> Seq(ReadFragments)] /\ live' \in [Readers -> BOOLEAN]
        /\ known' \in [Readers -> SUBSET Ids]
    BY <1>5, <2>2 DEF EditClosed
  <2> QED BY <2>1, <2>2, <2>3
<1>6. Reads'
  BY <1>1, <1>2, <1>3, <1>4, <1>5 DEF ReaderNext
<1> QED BY <1>0, <1>6 DEF ReaderTypeInv, ReaderTypeOK, ReadFragments, TypeInv

\* Every variable keeps its type, with any number of readers beside the appends.
THEOREM ReaderTypes == ReaderSpec => []ReaderTypeOK
<1>1. ReaderTypeInv => ReaderTypeOK
  BY DEF ReaderTypeInv
<1> QED BY <1>1, InitReaderTypes, StepReaderTypes, PTL DEF ReaderSpec

\* A log without errors yields every whole object but those taken as values: behind
\* an open object comes, on the same line, only what it takes.
LEMMA ParsedOrTaken ==
  ASSUME NEW f \in Seq(ReadFragments), ~ReadAllFails(f),
         NEW i \in DOMAIN f, f[i].kind = "whole", ~f[i].taken
  PROVE  i \in Parsed(f)
<1> SUFFICES ASSUME NEW j \in 1..(i - 1), f[j].kind # "whole", \A k \in j..(i - 1) : ~f[k].nl
             PROVE  FALSE
  BY DEF Parsed
<1> DEFINE S == {k \in j..(i - 1) : Open(f[k])}
<1>1. Len(f) \in Nat /\ DOMAIN f = 1..Len(f) /\ i \in 1..Len(f) /\ j \in Nat /\ 1 <= j /\ j < i
  OBVIOUS
<1>2. j \in S
  <2>1. f[j] \in ReadFragments
    BY <1>1
  <2>2. ~Unreadable(f[j])
    BY <1>1 DEF ReadAllFails
  <2>3. f[j].kind \in {"cut", "skipped"}
    BY <2>1, <2>2 DEF Unreadable, ReadFragments, FragmentsOf, ReadKinds, Kinds
  <2> QED BY <1>1, <2>3 DEF Open
<1>3. S \subseteq 0..Len(f)
  BY <1>1
<1>4. PICK m \in S : \A y \in S : y <= m
  BY <1>1, <1>2, <1>3, MaxExists
<1>5. m \in j..(i - 1) /\ Open(f[m]) /\ m \in DOMAIN f /\ m < Len(f) /\ ~f[m].nl
  BY <1>1, <1>4
<1>6. f[m + 1].taken
  BY <1>5 DEF ReadAllFails, Overwritten
<1>7. CASE m + 1 = i
  BY <1>6, <1>7
<1>8. CASE m + 1 # i
  <2>1. m + 1 \in j..(i - 1)
    BY <1>1, <1>5, <1>8
  <2>2. m + 1 \in S
    BY <1>6, <2>1 DEF Open
  <2> QED BY <1>4, <1>5, <2>2
<1> QED BY <1>7, <1>8

\* What was acknowledged when a reader began is whole in what it has read, and only
\* a torn object is left to be read on.
KnownAreRead == \A v \in Readers : \A a \in known[v] : Holds(view[v], a)
LiveIsTorn == \A v \in Readers : live[v] /\ view[v] # <<>> => Last(view[v]).kind # "whole"
Unedited == edits = <<>>

\* A log that was edited stays so.
LEMMA UneditedBefore ==
  ASSUME ReaderTypeInv, [ReaderNext]_<<vars, readVars>>, Unedited'
  PROVE  Unedited /\ ~EditClosed
<1>0. TypeInv /\ edits \in Seq(EditKinds)
  BY DEF ReaderTypeInv, TypeInv, TypeOK
<1>1. ASSUME EditClosed PROVE edits' # <<>>
  BY <1>0, <1>1 DEF EditClosed, Editing, Modify, Delete, EditKinds
<1>2. ASSUME ~EditClosed PROVE edits' = edits
  BY <1>0, <1>2, AppendingGrows DEF ReaderNext, Begin, ReadRest, ReadNext, ReadOn, vars
<1> QED BY <1>1, <1>2 DEF Unedited

KnownInv == ReaderTypeInv /\ AckInv /\ (Unedited => KnownAreRead /\ LiveIsTorn)

LEMMA InitKnown == ReaderInit => KnownInv
  BY InitReaderTypes, InitAcked
     DEF ReaderInit, Init, KnownInv, KnownAreRead, LiveIsTorn

LEMMA StepKnown == KnownInv /\ [ReaderNext]_<<vars, readVars>> => KnownInv'
<1> SUFFICES ASSUME KnownInv, [ReaderNext]_<<vars, readVars>> PROVE KnownInv'
  OBVIOUS
<1>0. ReaderTypeInv /\ ReaderTypeInv' /\ AckInv /\ AckInv' /\ TypeInv
  BY ReaderStepIsStep, StepReaderTypes, StepAcked DEF KnownInv, ReaderTypeInv
<1> SUFFICES ASSUME Unedited' PROVE KnownAreRead' /\ LiveIsTorn'
  BY <1>0 DEF KnownInv
<1>u. Unedited /\ ~EditClosed
  BY <1>0, UneditedBefore
<1>a. /\ file \in Seq(Fragments) /\ view \in [Readers -> Seq(ReadFragments)]
      /\ known \in [Readers -> SUBSET Ids] /\ live \in [Readers -> BOOLEAN]
  BY <1>0 DEF ReaderTypeInv, ReaderTypeOK, TypeInv, TypeOK, ReadFragments
<1>b. Unedited /\ KnownAreRead /\ LiveIsTorn
  BY <1>u DEF KnownInv
\* Somebody is writing: the last fragment is torn and its line open.
<1>c. ~FileFree => file # <<>> /\ file[Len(file)].kind # "whole" /\ ~file[Len(file)].nl
  BY <1>0 DEF FileFree, AckInv, BodyIsLast, TypeInv, HasFragment
<1> DEFINE NewInv == KnownAreRead /\ LiveIsTorn
<1>1. ASSUME Appending, UNCHANGED readVars PROVE NewInv'
  BY <1>b, <1>1 DEF readVars, KnownAreRead, LiveIsTorn
<1>2. ASSUME NEW v \in Readers, Begin(v) PROVE NewInv'
  <2>1. /\ \A u \in Readers : view'[u] = IF u = v THEN file ELSE view[u]
        /\ \A u \in Readers : known'[u] = IF u = v THEN acked ELSE known[u]
        /\ \A u \in Readers : live'[u] = IF u = v THEN ~FileFree ELSE live[u]
        /\ edits' = edits
    BY <1>a, <1>2 DEF Begin, vars
  <2>2. \A a \in acked : Holds(file, a)
    BY <1>0, <1>b DEF AckInv, AckedAreWhole, Unedited
  <2>3. KnownAreRead'
    BY <1>b, <2>1, <2>2 DEF KnownAreRead
  <2>4. LiveIsTorn'
    BY <1>b, <1>c, <2>1 DEF LiveIsTorn, Last
  <2> QED BY <2>3, <2>4
<1>3. ASSUME NEW v \in Readers, ReadRest(v) \/ ReadNext(v) PROVE NewInv'
  <2> DEFINE n == Len(view[v])
  <2>1. PICK e \in ReadFragments :
          /\ ReadOn(v, e) /\ e.id = Last(view[v]).id
          /\ ReadRest(v) => e.kind \in {"pieces", "skipped"} /\ live[v]
          /\ ~ReadRest(v) => e.kind = Last(view[v]).kind /\ e.nl
    BY <1>0, <1>3, ReadingOn
  <2>2. view[v] # <<>>
    BY <1>0, <1>3, ReadingOn
  <2>3. /\ n \in 1..Len(file) /\ Last(view[v]) = view[v][n]
        /\ view' \in [Readers -> Seq(ReadFragments)] /\ Len(view'[v]) = Len(file)
        /\ \A u \in Readers : u # v => view'[u] = view[u]
        /\ \A i \in 1..(n - 1) : view'[v][i] = view[v][i]
        /\ view'[v][n] = e
        /\ \A i \in DOMAIN file : i > n => view'[v][i].kind = file[i].kind
    BY <1>0, <2>1, <2>2, ReadOnReads
  <2>4. /\ known' = known /\ edits' = edits
        /\ \A u \in Readers : live'[u] = IF u = v THEN ~FileFree ELSE live[u]
    BY <1>a, <2>1 DEF ReadOn, vars
  <2>5. ASSUME NEW a \in known[v] PROVE Holds(view'[v], a)
    <3>1. PICK i \in DOMAIN view[v] : view[v][i].id = a /\ view[v][i].kind = "whole"
      BY <1>b DEF KnownAreRead, Holds
    <3>2. i \in 1..n /\ i \in DOMAIN view'[v]
      BY <1>a, <2>3, <3>1
    <3>3. view'[v][i].id = a /\ view'[v][i].kind = "whole"
      <4>1. CASE i = n
        <5>1. ~live[v]
          BY <1>b, <2>2, <2>3, <3>1, <4>1 DEF LiveIsTorn
        <5> QED BY <2>1, <2>3, <3>1, <4>1, <5>1
      <4>2. CASE i # n
        BY <2>3, <3>1, <3>2, <4>2
      <4> QED BY <4>1, <4>2
    <3> QED BY <3>2, <3>3 DEF Holds
  <2>6. KnownAreRead'
    BY <1>b, <2>3, <2>4, <2>5 DEF KnownAreRead
  <2>7. ASSUME live'[v] PROVE Last(view'[v]).kind # "whole"
    <3>1. file # <<>> /\ file[Len(file)].kind # "whole" /\ ~file[Len(file)].nl
      BY <1>c, <2>4, <2>7
    <3>2. Last(view'[v]) = view'[v][Len(file)]
      BY <2>3 DEF Last
    <3>3. CASE n = Len(file)
      <4>1. ReadRest(v)
        BY <1>3, <3>1, <3>3 DEF ReadNext
      <4> QED BY <2>1, <2>3, <3>2, <3>3, <4>1
    <3>4. CASE n # Len(file)
      <4>1. Len(file) \in DOMAIN file /\ Len(file) > n
        BY <1>a, <2>3, <3>4
      <4> QED BY <2>3, <3>1, <3>2, <4>1
    <3> QED BY <3>3, <3>4
  <2>8. LiveIsTorn'
    BY <1>b, <2>3, <2>4, <2>7 DEF LiveIsTorn
  <2> QED BY <2>6, <2>8
<1>4. ASSUME UNCHANGED <<vars, readVars>> PROVE NewInv'
  BY <1>b, <1>4 DEF vars, readVars, KnownAreRead, LiveIsTorn
<1> QED BY <1>u, <1>1, <1>2, <1>3, <1>4 DEF ReaderNext

\* A verification that reports the log as intact lists every entry whose append had
\* returned Ok when it began, but one that was written into a torn object as its
\* value: for any number of copies, threads and readers, whatever fails and crashes.
THEOREM AckedAreListed == ReaderSpec => []IntactReportListsAcked
<1>1. KnownInv => IntactReportListsAcked
  <2> SUFFICES ASSUME KnownInv, edits = <<>>,
                      NEW v \in Readers, VerifyOk(view[v]), NEW a \in known[v]
               PROVE  \E i \in DOMAIN view[v] :
                        /\ view[v][i].id = a /\ view[v][i].kind = "whole"
                        /\ i \in Parsed(view[v]) \/ view[v][i].taken
    BY DEF IntactReportListsAcked
  <2>1. PICK i \in DOMAIN view[v] : view[v][i].id = a /\ view[v][i].kind = "whole"
    BY DEF KnownInv, KnownAreRead, Holds, Unedited
  <2>2. view[v] \in Seq(ReadFragments)
    BY DEF KnownInv, ReaderTypeInv, ReaderTypeOK, ReadFragments
  <2>3. i \in Parsed(view[v]) \/ view[v][i].taken
    BY <2>1, <2>2, ParsedOrTaken DEF VerifyOk
  <2> QED BY <2>1, <2>3
<1> QED BY <1>1, InitKnown, StepKnown, PTL DEF ReaderSpec

SameEntry(e, d) == e.id = d.id /\ e.chained = d.chained /\ e.prev = d.prev /\ e.intact = d.intact

\* What a reader has read of an unglued log without reading on inside an object: the
\* lines of the file, and at the end what was there of the last one.  An object whose
\* writer had gone when it was met is never finished.
FollowsFile(v) ==
  LET f == view[v]
      n == Len(view[v])
  IN  /\ \A i \in 1..(n - 1) : SameEntry(f[i], file[i]) /\ f[i].kind = file[i].kind /\ f[i].nl
      /\ n > 0 =>
           /\ SameEntry(f[n], file[n])
           /\ f[n].kind = "whole" => file[n].kind = "whole"
           /\ f[n].kind # "whole" /\ ~live[v] =>
                file[n].kind # "whole" /\ ~(n = Len(file) /\ ~FileFree)

ReadersFollow == ~Glued(file) => \A v \in Readers : ~InPieces(view[v]) => FollowsFile(v)

FollowInv == ReaderTypeInv /\ ChainInv /\ (Unedited => ReadersFollow)

LEMMA InitFollow == ReaderInit => FollowInv
<1> SUFFICES ASSUME ReaderInit PROVE FollowInv
  OBVIOUS
<1>1. \A v \in Readers : view[v] = <<>>
  BY DEF ReaderInit
<1>2. ReadersFollow
  BY <1>1 DEF ReadersFollow, FollowsFile
<1> QED BY <1>2, InitReaderTypes, InitChain DEF ReaderInit, FollowInv

LEMMA StepFollow ==
  SingleInstance /\ FollowInv /\ [ReaderNext]_<<vars, readVars>> => FollowInv'
<1> SUFFICES ASSUME SingleInstance, FollowInv, [ReaderNext]_<<vars, readVars>> PROVE FollowInv'
  OBVIOUS
<1>0. ReaderTypeInv /\ ReaderTypeInv' /\ ChainInv /\ ChainInv' /\ TypeInv
  BY ReaderStepIsStep, StepReaderTypes, StepChain DEF FollowInv, ReaderTypeInv
<1> SUFFICES ASSUME Unedited' PROVE ReadersFollow'
  BY <1>0 DEF FollowInv
<1>u. Unedited /\ ~EditClosed
  BY <1>0, UneditedBefore
<1>a. /\ file \in Seq(Fragments) /\ file' \in Seq(Fragments)
      /\ view \in [Readers -> Seq(ReadFragments)] /\ live \in [Readers -> BOOLEAN]
      /\ \A v \in Readers : Len(view[v]) <= Len(file) /\ Len(view[v]) \in Nat
  BY <1>0 DEF ReaderTypeInv, ReaderTypeOK, TypeInv, TypeOK, ReadFragments
<1>b. ReadersFollow /\ TornIsOpen
  BY <1>0, <1>u DEF FollowInv, ChainInv
<1>1. ASSUME Appending, UNCHANGED readVars, ~Glued(file'),
             NEW v \in Readers, ~InPieces(view'[v])
      PROVE  FollowsFile(v)'
  <2> DEFINE n == Len(view[v])
             f == view[v]
  <2>1. /\ Len(file) <= Len(file') /\ \A i \in 1..(Len(file) - 1) : file'[i] = file[i]
        /\ \A i \in DOMAIN file : SameEntry(file'[i], file[i])
                                 /\ (file[i].kind = "whole" => file'[i].kind = "whole")
        /\ FileFree /\ Len(file') = Len(file) =>
             FileFree' /\ \A i \in DOMAIN file : file'[i].kind = file[i].kind
    BY <1>0, <1>1, AppendingGrows DEF SameEntry
  <2>2. view' = view /\ live' = live
    BY <1>1 DEF readVars
  <2>3. Len(file) \in Nat /\ Len(file') \in Nat /\ n \in Nat /\ n <= Len(file)
        /\ DOMAIN file = 1..Len(file)
    BY <1>a
  <2>4. ~Glued(file)
    <3>1. ASSUME NEW i \in 1..(Len(file) - 1), ~file[i].nl PROVE FALSE
      <4>1. file'[i] = file[i] /\ i \in 1..(Len(file') - 1)
        BY <2>1, <2>3
      <4> QED BY <1>1, <3>1, <4>1 DEF Glued
    <3> QED BY <3>1 DEF Glued
  <2>5. FollowsFile(v)
    BY <1>1, <1>b, <2>2, <2>4 DEF ReadersFollow
  <2>6. \A i \in 1..(n - 1) : SameEntry(f[i], file[i]) /\ f[i].kind = file[i].kind /\ f[i].nl
    BY <2>5 DEF FollowsFile
  <2>7. \A i \in 1..(n - 1) : file'[i] = file[i]
    BY <2>1, <2>3
  <2>8. ASSUME n > 0
        PROVE  /\ SameEntry(f[n], file'[n])
               /\ f[n].kind = "whole" => file'[n].kind = "whole"
               /\ f[n].kind # "whole" /\ ~live[v] =>
                    file'[n].kind # "whole" /\ ~(n = Len(file') /\ ~FileFree')
    <3>1. n \in DOMAIN file
      BY <2>3, <2>8
    <3>2. /\ SameEntry(f[n], file[n])
          /\ f[n].kind = "whole" => file[n].kind = "whole"
          /\ f[n].kind # "whole" /\ ~live[v] =>
               file[n].kind # "whole" /\ ~(n = Len(file) /\ ~FileFree)
      BY <2>5, <2>8 DEF FollowsFile
    <3>3. SameEntry(f[n], file'[n]) /\ (f[n].kind = "whole" => file'[n].kind = "whole")
      BY <2>1, <3>1, <3>2 DEF SameEntry
    <3>4. ASSUME f[n].kind # "whole", ~live[v]
          PROVE  file'[n].kind # "whole" /\ ~(n = Len(file') /\ ~FileFree')
      <4>1. CASE n < Len(file)
        <5>1. file'[n] = file[n]
          BY <2>1, <2>3, <2>8, <4>1
        <5> QED BY <2>1, <2>3, <3>2, <3>4, <4>1, <5>1
      <4>2. CASE n = Len(file)
        <5>1. file[n].kind # "whole" /\ FileFree
          BY <3>2, <3>4, <4>2
        <5>2. CASE Len(file') = Len(file)
          BY <2>1, <3>1, <5>1, <5>2
        \* An append behind the torn object would share its line.
        <5>3. CASE Len(file') > Len(file)
          <6>1. n \in 1..(Len(file') - 1) /\ n \in DOMAIN file'
            BY <1>a, <2>3, <2>8, <4>2, <5>3
          <6>2. file'[n].nl
            BY <1>1, <6>1 DEF Glued
          <6>3. file'[n].kind = "whole"
            BY <1>0, <6>1, <6>2 DEF ChainInv, TornIsOpen
          <6>4. file'[n].kind = file[n].kind
            BY <1>0, <1>1, <3>1, <5>3, AppendingGrows
          <6> QED BY <5>1, <6>3, <6>4
        <5> QED BY <2>1, <2>3, <5>2, <5>3
      <4> QED BY <2>3, <4>1, <4>2
    <3> QED BY <3>3, <3>4
  <2> QED BY <2>2, <2>6, <2>7, <2>8 DEF FollowsFile
<1>2. ASSUME NEW w \in Readers, Begin(w), ~Glued(file'),
             NEW v \in Readers, ~InPieces(view'[v])
      PROVE  FollowsFile(v)'
  <2>1. /\ file' = file /\ pc' = pc
        /\ \A u \in Readers : view'[u] = IF u = w THEN file ELSE view[u]
        /\ \A u \in Readers : live'[u] = IF u = w THEN ~FileFree ELSE live[u]
    BY <1>a, <1>2 DEF Begin, vars
  <2>2. FileFree' <=> FileFree
    BY <2>1 DEF FileFree
  <2>3. CASE v = w
    <3>1. \A i \in 1..(Len(file) - 1) : file[i].nl
      BY <1>2, <2>1 DEF Glued
    <3> QED BY <2>1, <2>2, <2>3, <3>1 DEF FollowsFile, SameEntry
  <2>4. CASE v # w
    <3>1. FollowsFile(v)
      BY <1>2, <1>b, <2>1, <2>4 DEF ReadersFollow
    <3> QED BY <2>1, <2>2, <2>4, <3>1 DEF FollowsFile
  <2> QED BY <2>3, <2>4
<1>3. ASSUME NEW w \in Readers, ReadRest(w) \/ ReadNext(w), ~Glued(file'),
             NEW v \in Readers, ~InPieces(view'[v])
      PROVE  FollowsFile(v)'
  <2> DEFINE n == Len(view[w])
             f == view[w]
  <2>1. PICK e \in ReadFragments :
          /\ ReadOn(w, e) /\ SameEntry(e, Last(view[w]))
          /\ ReadRest(w) => e.kind \in {"pieces", "skipped"}
          /\ ~ReadRest(w) => e.kind = Last(view[w]).kind /\ e.nl
    BY <1>0, <1>3, ReadingOn DEF SameEntry
  <2>2. view[w] # <<>>
    BY <1>0, <1>3, ReadingOn
  <2>3. /\ n \in 1..Len(file) /\ Last(view[w]) = f[n]
        /\ view' \in [Readers -> Seq(ReadFragments)] /\ Len(view'[w]) = Len(file)
        /\ \A u \in Readers : u # w => view'[u] = view[u]
        /\ \A i \in 1..(n - 1) : view'[w][i] = f[i]
        /\ view'[w][n] = e
        /\ \A i \in DOMAIN file : i > n =>
             /\ view'[w][i].id = file[i].id /\ view'[w][i].chained = file[i].chained
             /\ view'[w][i].prev = file[i].prev /\ view'[w][i].intact = file[i].intact
             /\ view'[w][i].kind = file[i].kind /\ view'[w][i].nl = file[i].nl
    BY <1>0, <2>1, <2>2, ReadOnReads
  <2>4. /\ file' = file /\ pc' = pc
        /\ \A u \in Readers : live'[u] = IF u = w THEN ~FileFree ELSE live[u]
    BY <1>a, <2>1 DEF ReadOn, vars
  <2>5. FileFree' <=> FileFree
    BY <2>4 DEF FileFree
  <2>6. CASE v # w
    <3>1. view'[v] = view[v] /\ live'[v] = live[v]
      BY <2>3, <2>4, <2>6
    <3>2. FollowsFile(v)
      BY <1>3, <1>b, <2>4, <3>1 DEF ReadersFollow
    <3> QED BY <2>4, <2>5, <3>1, <3>2 DEF FollowsFile
  <2>7. CASE v = w
    <3>1. n \in DOMAIN view'[w] /\ DOMAIN view'[w] = 1..Len(file) /\ DOMAIN file = 1..Len(file)
          /\ Len(file) \in Nat /\ n \in Nat /\ DOMAIN f = 1..n
      BY <1>a, <2>3
    <3>2. ~ReadRest(w) /\ e.kind = f[n].kind /\ e.nl
      BY <1>3, <2>1, <2>3, <2>7, <3>1 DEF InPieces
    <3>3. ~InPieces(f)
      <4> SUFFICES ASSUME NEW i \in 1..n, f[i].kind \in {"pieces", "skipped"} PROVE FALSE
        BY <3>1 DEF InPieces
      <4>1. i \in DOMAIN view'[w] /\ view'[w][i].kind = f[i].kind
        <5>1. CASE i = n
          BY <2>3, <3>1, <3>2, <5>1
        <5>2. CASE i # n
          BY <2>3, <3>1, <5>2
        <5> QED BY <5>1, <5>2
      <4> QED BY <1>3, <2>7, <4>1 DEF InPieces
    <3>4. FollowsFile(w)
      BY <1>3, <1>b, <2>4, <3>3 DEF ReadersFollow
    <3>5. /\ \A i \in 1..(n - 1) : SameEntry(f[i], file[i]) /\ f[i].kind = file[i].kind /\ f[i].nl
          /\ SameEntry(f[n], file[n])
          /\ f[n].kind = "whole" => file[n].kind = "whole"
          /\ f[n].kind # "whole" /\ ~live[w] => file[n].kind # "whole"
      BY <2>3, <3>1, <3>4 DEF FollowsFile
    <3>6. file[n].nl \/ n < Len(file)
      BY <1>3, <3>2 DEF ReadNext
    <3>7. \A i \in 1..(Len(file) - 1) : file[i].nl
      BY <1>3, <2>4 DEF Glued
    <3>8. file[n].nl
      BY <3>1, <3>6, <3>7, <2>3
    <3>9. file[n].kind = "whole"
      BY <1>b, <2>3, <3>1, <3>8 DEF TornIsOpen
    <3>10. f[n].kind = "whole"
      <4>1. live[w] => file[n].kind # "whole"
        BY <1>3, <3>2 DEF ReadNext
      <4> QED BY <3>5, <3>9, <4>1
    <3>11. SameEntry(e, file[n]) /\ e.kind = file[n].kind
      BY <2>1, <2>3, <3>2, <3>5, <3>9, <3>10 DEF SameEntry
    <3>12. ASSUME NEW i \in 1..Len(file)
           PROVE  /\ SameEntry(view'[w][i], file[i]) /\ view'[w][i].kind = file[i].kind
                  /\ i < Len(file) => view'[w][i].nl
      <4>1. CASE i < n
        BY <2>3, <3>1, <3>5, <4>1
      <4>2. CASE i = n
        BY <2>3, <3>2, <3>11, <4>2
      <4>3. CASE i > n
        <5>1. i \in DOMAIN file
          BY <3>1
        <5>2. i < Len(file) => file[i].nl
          BY <3>1, <3>7
        <5> QED BY <2>3, <4>3, <5>1, <5>2 DEF SameEntry
      <4> QED BY <3>1, <4>1, <4>2, <4>3
    <3>13. live'[w] = ~FileFree
      BY <2>4
    <3> DEFINE g == view'[w]
               z == Len(file)
    <3>14. /\ \A i \in 1..(z - 1) : SameEntry(g[i], file[i]) /\ g[i].kind = file[i].kind /\ g[i].nl
           /\ SameEntry(g[z], file[z]) /\ g[z].kind = file[z].kind
      <4>1. z \in 1..z /\ \A i \in 1..(z - 1) : i \in 1..z /\ i < z
        BY <2>3, <3>1
      <4> QED BY <3>12, <4>1
    <3>15. /\ file' = file /\ Len(view'[w]) = z /\ live'[w] = ~FileFree' /\ live[w] \in BOOLEAN
      BY <1>a, <2>3, <2>4, <2>5, <3>13
    <3> HIDE DEF g
    <3>16. FollowsFile(w)'
      BY <3>14, <3>15 DEF FollowsFile, g
    <3> QED BY <2>7, <3>16
  <2> QED BY <2>6, <2>7
<1>4. ASSUME UNCHANGED <<vars, readVars>>, ~Glued(file'),
             NEW v \in Readers, ~InPieces(view'[v])
      PROVE  FollowsFile(v)'
  <2>1. UNCHANGED <<file, pc, view, live>>
    BY <1>4 DEF vars, readVars
  <2>2. FollowsFile(v)
    BY <1>4, <1>b, <2>1 DEF ReadersFollow
  <2> QED BY <2>1, <2>2 DEF FollowsFile, FileFree
<1> QED BY <1>u, <1>1, <1>2, <1>3, <1>4 DEF ReadersFollow, ReaderNext

\* Whatever is appended to the log of one copy, fails or crashes while any number of
\* readers verify it, a verification passes that met no glued line and no split
\* character and did not read on inside an object.
THEOREM UngluedReadsVerify == SingleInstance => (ReaderSpec => []UngluedReadVerifies)
<1> SUFFICES ASSUME SingleInstance PROVE ReaderSpec => []UngluedReadVerifies
  OBVIOUS
<1>1. FollowInv => UngluedReadVerifies
  <2> SUFFICES ASSUME FollowInv, edits = <<>>, NEW v \in Readers,
                      ~Glued(file), ~Split(view[v]), ~InPieces(view[v])
               PROVE  VerifyOk(view[v])
    BY DEF UngluedReadVerifies
  <2> DEFINE f == view[v]
             n == Len(view[v])
  <2>1. /\ f \in Seq(ReadFragments) /\ file \in Seq(Fragments) /\ n <= Len(file) /\ n \in Nat
        /\ DOMAIN f = 1..n /\ DOMAIN file = 1..Len(file) /\ Len(file) \in Nat
    BY DEF FollowInv, ReaderTypeInv, ReaderTypeOK, TypeOK, ReadFragments
  <2>2. FollowsFile(v)
    BY DEF FollowInv, ReadersFollow, Unedited
  <2> HIDE DEF f, n
  <2>3. /\ \A i \in 1..(n - 1) : SameEntry(f[i], file[i]) /\ f[i].kind = file[i].kind /\ f[i].nl
        /\ n > 0 => SameEntry(f[n], file[n]) /\ (f[n].kind = "whole" => file[n].kind = "whole")
    BY <2>2 DEF FollowsFile, f, n
  <2>4. ~ReadAllFails(f)
    <3>1. \A j \in DOMAIN f : ~Unreadable(f[j])
      BY DEF Unreadable, Split, InPieces, f
    <3>2. ASSUME NEW j \in DOMAIN f, Overwritten(f, j) PROVE FALSE
      <4>1. j \in 1..(n - 1)
        BY <2>1, <3>2 DEF Overwritten, n, f
      <4> QED BY <2>3, <3>2, <4>1 DEF Overwritten
    <3> QED BY <3>1, <3>2 DEF ReadAllFails
  <2>5. /\ \A i \in 1..(Len(file) - 1) : file[i].kind = "whole" /\ file[i].nl
        /\ Parsed(file) = {i \in DOMAIN file : file[i].kind = "whole"}
    BY <2>1, UngluedParsed DEF FollowInv, ChainInv, TornIsOpen
  <2>6. \A i \in 1..(n - 1) : f[i].kind = "whole"
    BY <2>1, <2>3, <2>5
  <2>7. Parsed(f) = {i \in DOMAIN f : f[i].kind = "whole"}
    <3>1. \A i \in DOMAIN f : \A j \in 1..(i - 1) : f[j].kind = "whole"
      BY <2>1, <2>6
    <3> QED BY <3>1 DEF Parsed
  <2>8. ASSUME NEW i \in Parsed(f) PROVE ~Broken(f, i)
    <3>1. i \in 1..n /\ f[i].kind = "whole" /\ i \in DOMAIN file
      BY <2>1, <2>7
    <3>2. SameEntry(f[i], file[i]) /\ file[i].kind = "whole"
      <4>1. CASE i = n
        BY <2>1, <2>3, <3>1, <4>1
      <4>2. CASE i # n
        BY <2>1, <2>3, <3>1, <4>2
      <4> QED BY <4>1, <4>2
    <3>3. file[i].chained => file[i].intact /\ file[i].prev = ExpectedPrev(file, i)
      BY <3>1 DEF FollowInv, ChainInv, ChainHolds, Unedited
    <3>4. ASSUME NEW j \in Nat, j < i
          PROVE  j \in ChainedBefore(f, i) <=> j \in ChainedBefore(file, i)
      <4>1. CASE j \in 1..(n - 1)
        BY <2>1, <2>3, <2>5, <2>7, <3>4, <4>1 DEF ChainedBefore, SameEntry
      <4>2. CASE j \notin 1..(n - 1)
        BY <2>1, <3>1, <3>4, <4>2 DEF ChainedBefore, Parsed
      <4> QED BY <4>1, <4>2
    <3>5. ChainedBefore(f, i) = ChainedBefore(file, i)
      <4>1. \A j \in ChainedBefore(f, i) : j \in Nat /\ j < i
        BY <2>1 DEF ChainedBefore, Parsed
      <4>2. \A j \in ChainedBefore(file, i) : j \in Nat /\ j < i
        BY <2>1 DEF ChainedBefore, Parsed
      <4> QED BY <3>4, <4>1, <4>2
    <3>6. \A j \in ChainedBefore(f, i) : f[j].id = file[j].id
      <4>1. \A j \in ChainedBefore(f, i) : j \in 1..(n - 1)
        BY <2>1, <3>1 DEF ChainedBefore, Parsed
      <4> QED BY <2>3, <4>1 DEF SameEntry
    <3>7. ExpectedPrev(f, i) = ExpectedPrev(file, i)
      BY <2>1, <3>1, <3>5, <3>6, SamePrefixSamePrev
    <3> QED BY <3>2, <3>3, <3>7 DEF Broken, SameEntry
  <2> QED BY <2>4, <2>8 DEF VerifyOk, f
<1>2. FollowInv /\ [ReaderNext]_<<vars, readVars>> => FollowInv'
  BY StepFollow
<1> QED BY <1>1, <1>2, InitFollow, PTL DEF ReaderSpec
=============================================================================
