----------------------------- MODULE AuditReader -----------------------------
(***************************************************************************)
(* verify_integrity beside the appends of AuditLog: read_all takes no      *)
(* lock and reads the file in several calls.  BufReader::lines returns an  *)
(* unterminated last line at the end of the file and, when it is asked for *)
(* the next line, reads on behind it: what has been written meanwhile is   *)
(* taken for a line of its own.                                            *)
(*                                                                         *)
(* The file only grows while it is appended to, so that reading up to the  *)
(* end is one step.  A reader may stop after any step, because the next    *)
(* read returns nothing or its process is gone, and may begin anew.  The   *)
(* edits of AuditLog are made to a closed log, which nothing is reading;   *)
(* of an edited log no property here speaks but EditsStayDetected, which   *)
(* needs no reader, and none is followed (bound).                          *)
(***************************************************************************)
EXTENDS AuditLog

CONSTANT Readers  \* verifications, of whichever copy of the application

\* An object read on in mid-write is in pieces on lines of their own: an error, or
\* skipped when each of them happens to be an end of input.
ReadKinds == Kinds \cup {"pieces", "skipped"}

VARIABLES
  view,    \* the fragments a reader has read, lines broken as it took them
  live,    \* the last of them was being written when it was read
  known    \* entries acknowledged when it began (history)

readVars == <<view, live, known>>
-----------------------------------------------------------------------------
ReaderInit ==
  /\ Init
  /\ view = [v \in Readers |-> <<>>]
  /\ live = [v \in Readers |-> FALSE]
  /\ known = [v \in Readers |-> {}]

\* Open the file and read to its end.
Begin(v) ==
  /\ edits = <<>>
  /\ view' = [view EXCEPT ![v] = file]
  /\ live' = [live EXCEPT ![v] = ~FileFree]
  /\ known' = [known EXCEPT ![v] = acked]
  /\ UNCHANGED vars

\* The last line had no newline, and its text was no error: lines reads again.
MayReadOn(v) == view[v] # <<>> /\ ~Last(view[v]).nl /\ ~ReadAllFails(view[v])

\* The last fragment now reads as e; what stands behind it in the file follows.
ReadOn(v, e) ==
  LET n == Len(view[v]) IN
    /\ view' = [view EXCEPT ![v] =
         [i \in DOMAIN file |->
            CASE i < n -> view[v][i]
              [] i = n -> e
              [] i = n + 1 -> [file[i] EXCEPT !.taken = FALSE]
              [] OTHER -> file[i]]]
    /\ live' = [live EXCEPT ![v] = ~FileFree]
    /\ UNCHANGED <<known, vars>>

\* What follows begins with the rest of the object met at the end, or a part of it.
\* The rest is an error but when it is the object's last quote and brace.
ReadRest(v) ==
  /\ MayReadOn(v)
  /\ live[v]
  /\ \E k \in {"pieces", "skipped"} :
       ReadOn(v, [Last(view[v]) EXCEPT !.kind = k, !.nl = file[Len(view[v])].nl])

\* What follows is a newline, or another object.
ReadNext(v) ==
  /\ MayReadOn(v)
  /\ live[v] => file[Len(view[v])].kind # "whole"
  /\ file[Len(view[v])].nl \/ Len(view[v]) < Len(file)
  /\ ReadOn(v, [Last(view[v]) EXCEPT !.nl = TRUE])

\* No verification is under way.
EditClosed ==
  /\ Editing
  /\ view' = [v \in Readers |-> <<>>]
  /\ live' = [v \in Readers |-> FALSE]
  /\ known' = [v \in Readers |-> {}]

ReaderNext ==
  \/ Appending /\ UNCHANGED readVars
  \/ EditClosed
  \/ \E v \in Readers : Begin(v) \/ ReadRest(v) \/ ReadNext(v)

ReaderSpec == ReaderInit /\ [][ReaderNext]_<<vars, readVars>>

\* A thread that holds the lock is in straight-line code; nothing is assumed of readers.
FairReaderSpec == ReaderSpec /\ \A w \in Writers : WF_vars(Step(w))
-----------------------------------------------------------------------------
(* Properties *)

\* Every variable keeps its type.
ReaderTypeOK ==
  /\ TypeOK
  /\ view \in [Readers -> Seq(FragmentsOf(ReadKinds))]
  /\ live \in [Readers -> BOOLEAN]
  /\ known \in [Readers -> SUBSET Ids]

InPieces(f) == \E i \in DOMAIN f : f[i].kind \in {"pieces", "skipped"}

\* Whatever is appended, fails or crashes while it reads, a verification of one
\* copy's log that nothing has edited passes, unless an append landed behind an
\* unterminated line, or the reader met the end of the file inside a character, or
\* read on inside an object (append, read_all, verify_integrity).
UngluedReadVerifies ==
  edits = <<>> => \A v \in Readers :
    ~Glued(file) /\ ~Split(view[v]) /\ ~InPieces(view[v]) => VerifyOk(view[v])

\* A verification that reports the log as intact has read every entry whose append
\* had returned Ok when it began, and has lost none of them but one written into
\* a torn object where a value was due, if nothing has edited the log (read_all).
IntactReportListsAcked ==
  edits = <<>> => \A v \in Readers : VerifyOk(view[v]) =>
    \A a \in known[v] : \E i \in DOMAIN view[v] :
      /\ view[v][i].id = a /\ view[v][i].kind = "whole"
      /\ i \in Parsed(view[v]) \/ view[v][i].taken
=============================================================================
