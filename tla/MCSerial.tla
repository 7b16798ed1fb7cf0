------------------------------ MODULE MCSerial ------------------------------
(* A small instance of Serial for TLC. *)
EXTENDS Serial

CONSTANT lora

\* The first packet is too long for the transmit ring.
TooLong == {Packet(1)}
=============================================================================
