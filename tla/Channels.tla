------------------------------- MODULE Channels -------------------------------
(*****************************************************************************)
(* The channel table of meshtastic_channels.c: MaxChannels slots, a cached   *)
(* wire hash per slot, the index of the primary slot and the copy of its     *)
(* hash kept in the transmit context (mt.ch_hash).                           *)
(*                                                                           *)
(* A PSK is its size and an identity of its contents (the index byte when    *)
(* the size is 1).  The XOR hash of a name and a key is the pair of them:    *)
(* two slots have one hash exactly when they have one name and one key, so   *)
(* collisions of the 8-bit XOR are left out.                                 *)
(*****************************************************************************)
EXTENDS Integers

CONSTANTS
  MaxChannels,      \* MESHTASTIC_MAX_CHANNELS
  Name, Psk,        \* channel names and pre-shared keys
  ConfigChannel     \* name and PSK the application passes to meshtastic_init()

Slot == 0 .. MaxChannels - 1

Role == {"DISABLED", "PRIMARY", "SECONDARY"}

Channel == [role : Role, has_settings : BOOLEAN, name : Name, psk : Psk]

ZeroPsk == [size |-> 0, value |-> 0]

DisabledSlot ==
  [role |-> "DISABLED", has_settings |-> TRUE, name |-> "", psk |-> ZeroPsk]

ASSUME ChannelsAssumption ==
  /\ MaxChannels \in Nat \ {0}
  /\ Psk \subseteq [size : 0 .. 32, value : Nat]
  /\ ZeroPsk \in Psk
  /\ {"", "Default", "LongFast"} \subseteq Name
  /\ ConfigChannel \in Channel
  /\ ConfigChannel.role = "PRIMARY" /\ ConfigChannel.has_settings

VARIABLES
  slots,            \* channel_slots
  hashes,           \* channel_hashes
  primary_index,    \* primary_index
  ch_hash           \* mt.ch_hash

channelVars == <<slots, hashes, primary_index, ch_hash>>

-----------------------------------------------------------------------------
\* expand_short_psk() and the size rules of channel_get_key(): no bytes, or the
\* index byte 0, is cleartext; another index byte selects a variant of the
\* default key; any other key is padded up to an AES key size.
Cleartext == [len |-> 0, bytes |-> <<"none", 0>>]

ExpandPsk(psk) ==
  IF psk.size = 0 \/ (psk.size = 1 /\ psk.value = 0) THEN Cleartext
  ELSE IF psk.size = 1 THEN [len |-> 16, bytes |-> <<"default", psk.value - 1>>]
  ELSE [len |-> IF psk.size <= 16 THEN 16 ELSE 32, bytes |-> <<"raw", psk.value>>]

Usable(ch) == ch.has_settings /\ ch.role # "DISABLED"

\* A secondary channel without a PSK takes the key of the primary slot.
Inherits(ch) == Usable(ch) /\ ch.role = "SECONDARY" /\ ch.psk.size = 0

\* channel_get_key(): -ENOENT, a key, or a call that never returns, because the
\* primary slot is itself a secondary channel without a PSK.
NoKey == [len |-> 0, bytes |-> <<"ENOENT", 0>>]

Diverges == [len |-> 0, bytes |-> <<"no return", 0>>]

GetKey(table, primary, i) ==
  LET j == IF Inherits(table[i]) THEN primary ELSE i
  IN  IF ~Usable(table[i]) \/ ~Usable(table[j]) THEN NoKey
      ELSE IF Inherits(table[j]) THEN Diverges
      ELSE ExpandPsk(table[j].psk)

\* meshtastic_channels_get_name(): an unset name reads as the default one.
GetName(ch) == IF ~ch.has_settings \/ ch.name = "" THEN "LongFast" ELSE ch.name

NoHash == <<"none">>

GenerateHash(table, primary, i) ==
  LET key == GetKey(table, primary, i)
  IN  IF key = NoKey THEN NoHash ELSE <<GetName(table[i]), key>>

\* channel_fixup(), without the hash: a slot without settings is disabled and
\* the legacy name "Default" is dropped.
Fixed(ch) ==
  LET c == IF ch.has_settings THEN ch ELSE DisabledSlot
  IN  [c EXCEPT !.name = IF @ = "Default" THEN "" ELSE @]

-----------------------------------------------------------------------------
\* Mutant: the previous primary keeps its role.
DemotedMutant(table, i, ch) == table

\* demote_other_primary(): writing a PRIMARY channel to slot i makes every other
\* PRIMARY slot a SECONDARY one, fixed up.
Demoted(table, i, ch) ==
  [j \in Slot |->
     IF ch.role = "PRIMARY" /\ j # i /\ table[j].role = "PRIMARY"
       THEN Fixed([table[j] EXCEPT !.role = "SECONDARY"])
       ELSE table[j]]

\* The table and the primary index that meshtastic_channels_set_slot() leaves.
NewPrimary(i, ch) == IF ch.role = "PRIMARY" THEN i ELSE primary_index

NewTable(i, ch) == [Demoted(slots, i, ch) EXCEPT ![i] = Fixed(ch)]

\* The hash of slot i cannot be computed: set_slot() does not return.
SetSlotDiverges(i, ch) == GetKey(NewTable(i, ch), NewPrimary(i, ch), i) = Diverges

\* Mutant: the hash is taken before the name is normalised.
RehashMutant(i, ch) ==
  hashes' = [hashes EXCEPT ![i] =
               GenerateHash([slots EXCEPT ![i] = ch], NewPrimary(i, ch), i)]

\* Hashes are recomputed for slot i and for the slots it demotes, and those are
\* computed while slot i still holds the channel as it was passed.
Rehash(i, ch) ==
  hashes' = [j \in Slot |->
               IF j = i THEN GenerateHash(NewTable(i, ch), NewPrimary(i, ch), i)
               ELSE IF slots[j] # Demoted(slots, i, ch)[j]
                 THEN GenerateHash([Demoted(slots, i, ch) EXCEPT ![i] = ch],
                                   NewPrimary(i, ch), j)
               ELSE hashes[j]]

\* meshtastic_channels_set_slot()
SetSlot(i, ch) ==
  /\ ~SetSlotDiverges(i, ch)
  /\ slots' = NewTable(i, ch)
  /\ primary_index' = NewPrimary(i, ch)
  /\ Rehash(i, ch)
  /\ ch_hash' = IF i = primary_index' THEN hashes'[i] ELSE ch_hash

-----------------------------------------------------------------------------
\* meshtastic_channels_init_defaults() and _init_from_config()
DefaultTable == [i \in Slot |-> IF i = 0 THEN Fixed(ConfigChannel) ELSE DisabledSlot]

DefaultHashes == [i \in Slot |-> GenerateHash(DefaultTable, 0, i)]

InitFromConfig ==
  /\ slots' = DefaultTable
  /\ hashes' = DefaultHashes
  /\ primary_index' = 0
  /\ ch_hash' = DefaultHashes[0]

ChannelsInit ==
  /\ slots = DefaultTable
  /\ hashes = DefaultHashes
  /\ primary_index = 0
  /\ ch_hash = DefaultHashes[0]

-----------------------------------------------------------------------------
ChannelsTypeOK ==
  /\ slots \in [Slot -> Channel]
  /\ DOMAIN hashes = Slot
  /\ primary_index \in Slot

(* demote_other_primary() and set_slot() together keep at most one PRIMARY
   slot, and it is the one primary_index names: whatever sequence of edits and
   reloads is made, two channels never both act as the default one. *)
OnePrimary == \A i \in Slot : slots[i].role = "PRIMARY" => i = primary_index

(* channel_fixup() refreshes the cached wire hash of every slot whose own name,
   role or PSK changed, demotions included, and the transmit context follows
   the primary slot.  Slots that inherit the primary key are left out: their
   hashes are not refreshed when that key changes. *)
OwnHashCurrent ==
  /\ \A i \in Slot :
       ~Inherits(slots[i]) => hashes[i] = GenerateHash(slots, primary_index, i)
  /\ ch_hash = hashes[primary_index]
=============================================================================
