--------------------------- MODULE MCTicketReview ---------------------------
(* Instances of TicketReview for TLC. *)
EXTENDS TicketReview
=============================================================================
