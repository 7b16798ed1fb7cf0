----------------------------- MODULE MCGateway -----------------------------
(* An instance of Gateway for TLC. *)
EXTENDS Gateway

\* Node 1 is the gateway.
MCNear == {[src |-> 2, id |-> 1]}

MCFar == {[src |-> 3, id |-> 2]}

MCOwn == {[src |-> 1, id |-> 1]}
=============================================================================
