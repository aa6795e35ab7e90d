------------------------------ MODULE MCSession -----------------------------
(* Instances of Session for TLC: threads are interchangeable. *)
EXTENDS Session, TLC

ThreadSymmetry == Permutations(Threads)
MCTTLs == {-1, 2, 9}
=============================================================================
