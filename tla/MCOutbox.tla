------------------------------ MODULE MCOutbox ------------------------------
(* TLC instance of Outbox: one critical event, one row that may raise.      *)
EXTENDS Outbox

CONSTANTS CriticalEvent, RaisingEvent

MCCritical == {CriticalEvent}
MCRaising == {Compose(RaisingEvent)}
=============================================================================
