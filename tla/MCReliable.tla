----------------------------- MODULE MCReliable -----------------------------
(* Instances of Reliable for TLC. *)
EXTENDS Reliable, TLC

CONSTANTS p1, p2, p3

App(id) == [id |-> id, to |-> "peer", port |-> "app", want_ack |-> TRUE]

\* p1 and p3 carry the same packet ID, as after a restart or when the caller
\* chooses IDs.
SharedIds == p1 :> App(1) @@ p2 :> App(2) @@ p3 :> App(1)

TwoIds == p1 :> App(1) @@ p2 :> App(2)
=============================================================================
