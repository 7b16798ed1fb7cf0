------------------------------ MODULE MCSettings ------------------------------
(* Small instances of Settings for TLC. *)
EXTENDS Settings

CONSTANTS client, mute

Names == {"", "Default", "LongFast"}

\* Index byte 1 (the default key) and a full key of another owner.
One == [size |-> 1, value |-> 1]
Own == [size |-> 16, value |-> 7]
Psks == {ZeroPsk, One, Own}

Built == [role |-> "PRIMARY", has_settings |-> TRUE, name |-> "LongFast", psk |-> Own]

Ch(role, name, psk) ==
  [role |-> role, has_settings |-> TRUE, name |-> name, psk |-> psk]

\* A new primary channel with a legacy name, and a secondary one without a key.
Edits == {Ch("PRIMARY", "Default", One), Ch("SECONDARY", "", ZeroPsk)}
=============================================================================
