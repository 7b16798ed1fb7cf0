------------------------------ MODULE MCRadio -------------------------------
(* Instances of Radio.tla for TLC. *)
EXTENDS Radio

CONSTANT a1

\* A direct message that wants a response: the acknowledgement, which waits,
\* and then the reply of a module, which does not.
Reactions == {<<"forever", "no_wait">>}

Waits == {"forever", "timeout"}
=============================================================================
