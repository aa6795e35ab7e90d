---------------------------- MODULE MCAuditReader ----------------------------
(* Instances of AuditReader for TLC. *)
EXTENDS AuditReader

CONSTANTS w1, w2, app

MCOneCopy == [w \in Writers |-> app]

MCLegacyEntry == [id |-> 1, kind |-> "whole", chained |-> FALSE, prev |-> Genesis,
                  intact |-> TRUE, nl |-> TRUE, taken |-> FALSE]
MCFiles == {<<>>, <<MCLegacyEntry>>}
=============================================================================
