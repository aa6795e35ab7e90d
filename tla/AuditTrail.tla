----------------------------- MODULE AuditTrail -----------------------------
(***************************************************************************)
(* What storage/audit_store.rs promises: an audit trail that only grows,   *)
(* one whole entry at a time, every new entry chained to the newest        *)
(* chained entry before it.  Entries written before the chain existed      *)
(* ("legacy") stay in the trail and carry no link.  Other programs may     *)
(* rewrite the file; the trail then follows it.                            *)
(***************************************************************************)
EXTENDS Naturals, Sequences, SequencesExt

CONSTANT MaxEntries      \* bound: ids of entries are 1..MaxEntries

VARIABLE trail           \* sequence of entries, oldest first

Genesis == 0             \* the empty prev_hash in front of the first entry
Ids == 1..MaxEntries
Entries == [id: Ids, chained: BOOLEAN, prev: Ids \cup {Genesis}, intact: BOOLEAN]

ChainedIn(t) == {i \in DOMAIN t : t[i].chained}

\* entry_hash of the newest chained entry; a hash is named by the id of its entry.
TailHash(t) == IF ChainedIn(t) = {} THEN Genesis ELSE t[Max(ChainedIn(t))].id

TrailInit == trail \in Seq(Entries) /\ ChainedIn(trail) = {}

AppendEntry(e) ==
  /\ \A i \in DOMAIN trail : trail[i].id # e
  /\ trail' = Append(trail,
       [id |-> e, chained |-> TRUE, prev |-> TailHash(trail), intact |-> TRUE])

\* Something else changes or deletes an entry.
Rewrite(i) ==
  \/ trail' = RemoveAt(trail, i)
  \/ trail' = [trail EXCEPT ![i].intact = FALSE]

TrailNext ==
  \/ \E e \in Ids : AppendEntry(e)
  \/ \E i \in DOMAIN trail : Rewrite(i)

TrailSpec == TrailInit /\ [][TrailNext]_trail
=============================================================================
