------------------------------- MODULE MCBle -------------------------------
(* A small instance of Ble for TLC. *)
EXTENDS Ble

CONSTANT lora
=============================================================================
