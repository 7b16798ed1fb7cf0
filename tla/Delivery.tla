------------------------------ MODULE Delivery ------------------------------
(***************************************************************************)
(* What the stack promises an application about a packet it sends with     *)
(* want_ack: the packet is either never tracked, or it is pending until    *)
(* exactly one outcome is reported, unless a re-initialisation of the      *)
(* stack drops it.  An outcome, once reported, is final.  This is the      *)
(* contract documented for want_ack and for the events TX_ACKED and        *)
(* TX_NO_ACK; Reliable.tla is shown to implement it within a node, and     *)
(* Mesh.tla to keep it between nodes that lose, relay and repeat frames.   *)
(***************************************************************************)
CONSTANT Packet          \* the packets an application may hand to the stack

VARIABLE status          \* status[p]: what the application knows of p

Status == {"idle", "untracked", "pending", "acked", "no_ack", "dropped"}

(* The type invariant: a packet has one of the outcomes the API reports. *)
TypeOK == status \in [Packet -> Status]

Init == status = [p \in Packet |-> "idle"]

Accept(p) ==
  /\ status[p] = "idle"
  /\ status' = [status EXCEPT ![p] = "pending"]

Decline(p) ==
  /\ status[p] = "idle"
  /\ status' = [status EXCEPT ![p] = "untracked"]

Report(p, outcome) ==
  /\ status[p] = "pending"
  /\ status' = [status EXCEPT ![p] = outcome]

\* Re-initialisation: any of the packets still pending may be forgotten.
Drop(S) ==
  /\ \A p \in S : status[p] = "pending"
  /\ status' = [p \in Packet |-> IF p \in S THEN "dropped" ELSE status[p]]

Next ==
  \/ \E p \in Packet : Accept(p) \/ Decline(p)
  \/ \E p \in Packet, outcome \in {"acked", "no_ack"} : Report(p, outcome)
  \/ \E S \in SUBSET Packet : Drop(S)

Spec == Init /\ [][Next]_status
=============================================================================
