------------------------------- MODULE MCMesh -------------------------------
(* Instances of Mesh.tla for TLC. *)
EXTENDS Mesh, TLC

CONSTANTS a, b, r, m1, m2

\* a and b are out of range of each other and use r as a relay.
Line == (a :> {r}) @@ (b :> {r}) @@ (r :> {a, b})

Pair == (a :> {b}) @@ (b :> {a})

FromA == [m \in Msg |-> a]
ToB == [m \in Msg |-> b]

\* A direct message to the relay, and a broadcast of the relay.
FromAR == (m1 :> a) @@ (m2 :> r)
ToNext == (m1 :> r) @@ (m2 :> Broadcast)

OneHop == [n \in Node |-> 1]
=============================================================================
