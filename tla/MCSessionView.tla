---------------------------- MODULE MCSessionView ---------------------------
(* Instances of SessionView for TLC. *)
EXTENDS SessionView

MCTTLs == {1, 2}
=============================================================================
