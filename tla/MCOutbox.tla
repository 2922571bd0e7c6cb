------------------------------ MODULE MCOutbox ------------------------------
(* Instances of Outbox for TLC. *)
EXTENDS Outbox

CONSTANTS e1, e2, p1, p2

MCEvents == {e1, e2}
MCConnectorEvents == {e1}
MCPublishers == {p1, p2}
=============================================================================
