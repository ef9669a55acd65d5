--------------------------- MODULE MCTicketGateway ---------------------------
(* Instance of TicketGateway for TLC. *)
EXTENDS TicketGateway

\* A date that is past, a time within the cap and one beyond it.
MCHeaders == {None, -2, 5, 7200}
=============================================================================
