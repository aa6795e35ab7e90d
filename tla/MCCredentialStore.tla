-------------------------- MODULE MCCredentialStore -------------------------
(* Instances of CredentialStore for TLC: threads are interchangeable. *)
EXTENDS CredentialStore, TLC

ThreadSymmetry == Permutations(Threads)
=============================================================================
