---------------------------- MODULE MCIndexStore ----------------------------
(* Instances of IndexStore for TLC.  The policy of initialize is the code's;  *)
(* that of check has 2 and 3 for 5 and 20, so that it throttles in few calls. *)
EXTENDS IndexStore

MCLimited == {"initialize", "check"}
MCBurst == [c \in MCLimited |-> IF c = "initialize" THEN 1 ELSE 2]
MCPerMinute == [c \in MCLimited |-> 3]
=============================================================================
