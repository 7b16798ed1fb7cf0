--------------------------- MODULE SettingsProofs ---------------------------
(***************************************************************************)
(* The safety of the configuration's life for every number of channels,    *)
(* every set of edits and every number of resets: the types, the channel   *)
(* table's invariants, that no change is forgotten by the save, that the   *)
(* live table follows the stored one, and that a saved table survives a    *)
(* reboot.                                                                 *)
(***************************************************************************)
EXTENDS Settings, TLAPS

(* The channel table *)

\* channel_fixup() returns a channel that has settings, and its role is the one
\* it was given or, for a channel without settings, DISABLED.
LEMMA FixedFacts ==
  ASSUME NEW ch \in Channel
  PROVE  /\ Fixed(ch) \in Channel /\ Fixed(ch).has_settings
         /\ Fixed(ch).role \in {ch.role, "DISABLED"}
<1> USE ChannelsAssumption DEF ChannelsAssumption
<1>1. DisabledSlot \in Channel /\ DisabledSlot.role = "DISABLED" /\ DisabledSlot.has_settings
  BY Zenon DEF DisabledSlot, Channel, Role
<1>2. PICK c \in Channel : /\ c = IF ch.has_settings THEN ch ELSE DisabledSlot
                           /\ c.has_settings /\ c.role \in {ch.role, "DISABLED"}
  BY <1>1, Zenon
<1>3. Fixed(ch) = [c EXCEPT !.name = IF c.name = "Default" THEN "" ELSE c.name]
  BY <1>2, Zenon DEF Fixed
<1>4. c.name \in Name /\ "" \in Name
  BY Zenon DEF Channel
<1> QED
  BY <1>2, <1>3, <1>4, Zenon DEF Channel

\* The key, and so the hash, of a slot that inherits nothing depends on that
\* slot alone.
LEMMA OwnKey ==
  ASSUME NEW s, NEW t, NEW p, NEW q, NEW j \in Slot, s[j] = t[j], ~Inherits(t[j])
  PROVE  GenerateHash(s, p, j) = GenerateHash(t, q, j)
<1>1. GetKey(s, p, j) = GetKey(t, q, j)
  BY DEF GetKey
<1> QED
  BY <1>1 DEF GenerateHash

\* meshtastic_channels_set_slot() keeps a well-formed table, at most one PRIMARY
\* slot at primary_index, and the hashes of the slots that inherit nothing.
LEMMA SetSlotKeeps ==
  ASSUME ChannelsTypeOK, OnePrimary, OwnHashCurrent, NEW i \in Slot, NEW ch \in Channel,
         SetSlot(i, ch)
  PROVE  ChannelsTypeOK' /\ OnePrimary' /\ OwnHashCurrent'
<1>0. PICK T, D, E, p : /\ T = NewTable(i, ch) /\ D = Demoted(slots, i, ch)
                        /\ E = [D EXCEPT ![i] = ch] /\ p = NewPrimary(i, ch)
  BY Zenon
<1>1. /\ T \in [Slot -> Channel] /\ D \in [Slot -> Channel]
      /\ T[i] = Fixed(ch) /\ \A j \in Slot \ {i} : T[j] = D[j]
      /\ \A j \in Slot \ {i} : D[j].role = "PRIMARY" =>
           ch.role # "PRIMARY" /\ slots[j].role = "PRIMARY"
      /\ ch.role # "PRIMARY" => \A j \in Slot : D[j] = slots[j]
  <2>1. slots \in [Slot -> Channel] /\ Fixed(ch) \in Channel
    BY FixedFacts DEF ChannelsTypeOK
  <2>2. ASSUME NEW j \in Slot
        PROVE  /\ Fixed([slots[j] EXCEPT !.role = "SECONDARY"]) \in Channel
               /\ Fixed([slots[j] EXCEPT !.role = "SECONDARY"]).role # "PRIMARY"
    <3>1. PICK c : c = [slots[j] EXCEPT !.role = "SECONDARY"]
      BY Zenon
    <3>2. c \in Channel /\ c.role = "SECONDARY"
      BY <2>1, <3>1 DEF Channel, Role
    <3> QED
      BY <3>1, <3>2, FixedFacts, Zenon
  <2>3. /\ D \in [Slot -> Channel]
        /\ \A j \in Slot : D[j] =
             IF ch.role = "PRIMARY" /\ j # i /\ slots[j].role = "PRIMARY"
               THEN Fixed([slots[j] EXCEPT !.role = "SECONDARY"]) ELSE slots[j]
    BY <1>0, <2>1, <2>2 DEF Demoted
  <2>4. /\ T \in [Slot -> Channel] /\ T[i] = Fixed(ch)
        /\ \A j \in Slot \ {i} : T[j] = D[j]
    BY <1>0, <2>1, <2>3 DEF NewTable
  <2> QED
    BY <2>2, <2>3, <2>4, Zenon
<1>2. /\ slots' = T /\ primary_index' = p /\ p = IF ch.role = "PRIMARY" THEN i ELSE primary_index
      /\ ch_hash' = IF i = p THEN hashes'[i] ELSE ch_hash
  BY <1>0 DEF SetSlot, NewPrimary
<1>3. /\ hashes'[i] = GenerateHash(T, p, i) /\ DOMAIN hashes' = Slot
      /\ \A j \in Slot \ {i} :
           hashes'[j] = IF slots[j] # D[j] THEN GenerateHash(E, p, j) ELSE hashes[j]
  <2>1. hashes' = [j \in Slot |-> IF j = i THEN GenerateHash(T, p, i)
                                  ELSE IF slots[j] # D[j] THEN GenerateHash(E, p, j)
                                  ELSE hashes[j]]
    BY <1>0 DEF SetSlot, Rehash
  <2> QED
    BY <2>1
<1>4. ChannelsTypeOK'
  BY <1>1, <1>2, <1>3 DEF ChannelsTypeOK
<1>5. OnePrimary'
  <2> SUFFICES ASSUME NEW j \in Slot, T[j].role = "PRIMARY" PROVE j = p
    BY <1>2 DEF OnePrimary
  <2>1. CASE j = i
    BY <2>1, <1>1, <1>2, FixedFacts
  <2>2. CASE j # i
    BY <2>2, <1>1, <1>2 DEF OnePrimary
  <2> QED
    BY <2>1, <2>2
<1>6. ASSUME NEW j \in Slot, ~Inherits(T[j]) PROVE hashes'[j] = GenerateHash(T, p, j)
  <2>1. CASE j = i
    BY <2>1, <1>3
  <2>2. CASE j # i /\ slots[j] # D[j]
    <3>1. E[j] = T[j]
      BY <2>2, <1>0, <1>1
    <3>2. GenerateHash(E, p, j) = GenerateHash(T, p, j)
      BY <3>1, <1>6, OwnKey
    <3> QED
      BY <3>2, <2>2, <1>3
  <2>3. CASE j # i /\ slots[j] = D[j]
    <3>1. slots[j] = T[j] /\ hashes'[j] = hashes[j]
      BY <2>3, <1>1, <1>3
    <3>2. GenerateHash(slots, primary_index, j) = GenerateHash(T, p, j)
      BY <3>1, <1>6, OwnKey
    <3>3. hashes[j] = GenerateHash(slots, primary_index, j)
      BY <3>1, <1>6 DEF OwnHashCurrent
    <3> QED
      BY <3>1, <3>2, <3>3
  <2> QED
    BY <2>1, <2>2, <2>3
<1>7. ch_hash' = hashes'[p]
  <2>1. CASE i = p
    BY <2>1, <1>2, Zenon
  <2>2. CASE i # p
    <3>1. ch.role # "PRIMARY" /\ p = primary_index /\ p \in Slot
      BY <2>2, <1>2 DEF ChannelsTypeOK
    <3>2. hashes'[p] = hashes[p]
      BY <3>1, <2>2, <1>1, <1>3
    <3> QED
      BY <3>1, <3>2, <2>2, <1>2 DEF OwnHashCurrent
  <2> QED
    BY <2>1, <2>2
<1>8. OwnHashCurrent'
  BY <1>2, <1>6, <1>7 DEF OwnHashCurrent
<1> QED
  BY <1>4, <1>5, <1>8

\* There is a slot 0: MESHTASTIC_MAX_CHANNELS is positive.
LEMMA SlotZero == 0 \in Slot
<1>1. MaxChannels \in Nat \ {0}
  BY ChannelsAssumption, Zenon DEF ChannelsAssumption
<1> QED
  BY <1>1 DEF Slot

\* meshtastic_channels_init_from_config() starts with one PRIMARY slot, slot 0.
LEMMA DefaultsGood ==
  /\ DefaultTable \in [Slot -> Channel] /\ DOMAIN DefaultHashes = Slot /\ 0 \in Slot
  /\ \A i \in Slot : DefaultTable[i].role = "PRIMARY" => i = 0
  /\ \A i \in Slot : DefaultHashes[i] = GenerateHash(DefaultTable, 0, i)
<1> USE ChannelsAssumption DEF ChannelsAssumption
<1>1. DisabledSlot \in Channel /\ DisabledSlot.role = "DISABLED"
  BY Zenon DEF DisabledSlot, Channel, Role
<1>2. Fixed(ConfigChannel) \in Channel /\ 0 \in Slot
  <2>1. ConfigChannel \in Channel
    BY Zenon
  <2>2. 0 \in Slot
    BY SlotZero, Zenon
  <2> QED
    BY <2>1, <2>2, FixedFacts, Zenon
<1>3. /\ DefaultTable \in [Slot -> Channel]
      /\ \A i \in Slot : DefaultTable[i].role = "PRIMARY" => i = 0
  BY <1>1, <1>2, Zenon DEF DefaultTable
<1>4. /\ DOMAIN DefaultHashes = Slot
      /\ \A i \in Slot : DefaultHashes[i] = GenerateHash(DefaultTable, 0, i)
  BY Zenon DEF DefaultHashes
<1> QED
  BY <1>2, <1>3, <1>4, Zenon

-----------------------------------------------------------------------------
(* The life of the configuration *)

\* The records are the slots and, after them, the device configuration.
LEMMA RecordFacts ==
  /\ DeviceKey \in Record /\ DeviceKey \notin Slot /\ Idle \notin Record
  /\ Slot \subseteq Record /\ \A k \in Record : k = DeviceKey \/ k \in Slot
  /\ \A k \in Record : k # DeviceKey => k + 1 \in Record
  /\ \A k \in Record, s \in Record : s < k => s # DeviceKey /\ (s + 1 < k \/ s + 1 = k)
  /\ \A k \in Record : 0 < k \/ 0 = k
  /\ 0 \in Record
<1>1. MaxChannels \in Nat \ {0}
  BY ChannelsAssumption, Zenon DEF ChannelsAssumption
<1> QED
  BY <1>1 DEF DeviceKey, Record, Slot, Idle

\* encode_record() loses nothing, and an encoded record is there.
LEMMA EncodedFacts ==
  ASSUME NEW x
  PROVE  /\ Encoded(x).message = x /\ Encoded(x).version = Version
         /\ \A S : x \in S => Encoded(x) \in RecordOf(S)
         /\ x \in Channel \/ x \in Device => Encoded(x) # NoRecord
<1>1. Encoded(x).message = x /\ Encoded(x).version = Version /\ Version \in Nat
  BY DEF Encoded, Version
<1>2. \A S : x \in S => Encoded(x) \in RecordOf(S)
  BY DEF Encoded, RecordOf
<1>3. x \in Channel \cup Device => Encoded(x) \in [version : Nat, message : Channel \cup Device]
  BY DEF Encoded, Version
<1>4. NoRecord \notin [version : Nat, message : Channel \cup Device]
  BY SettingsAssumption DEF SettingsAssumption
<1> QED
  BY <1>1, <1>2, <1>3, <1>4

\* The parts of the type invariant that do not concern the channel table.
StoreType ==
  /\ DOMAIN store = Record /\ DOMAIN flash = Record
  /\ \A i \in Slot : store[i] \in Channel /\ flash[i] \in RecordOf(Channel) \cup {NoRecord}
  /\ store[DeviceKey] \in Device /\ flash[DeviceKey] \in RecordOf(Device) \cup {NoRecord}
  /\ device \in Device

ControlType ==
  /\ alive \in {"off", "booting", "up", "hung"}
  /\ editor \in [step : {"rest", "set_slot", "set_device", "apply", "schedule"},
                 at : 0 .. MaxChannels]
  /\ timer \in BOOLEAN /\ failed \in BOOLEAN
  /\ saving \in Record \cup {Idle}
  /\ buf \in RecordOf(Channel) \cup RecordOf(Device) \cup {NoRecord}
  /\ expected \in [Slot -> Channel] \cup {NoTable}
  /\ edits \in 0 .. MaxEdits /\ resets \in 0 .. MaxResets

\* The type invariant is the sum of its parts, now and in the next state.
LEMMA TypeParts ==
  /\ TypeOK <=> ChannelsTypeOK /\ StoreType /\ ControlType
  /\ TypeOK' <=> ChannelsTypeOK' /\ StoreType' /\ ControlType'
<1>1. TypeOK <=> ChannelsTypeOK /\ StoreType /\ ControlType
  BY DEF TypeOK, StoreType, ControlType
<1>2. TypeOK' <=> ChannelsTypeOK' /\ StoreType' /\ ControlType'
  BY DEF TypeOK, StoreType, ControlType
<1> QED
  BY <1>1, <1>2

\* What seed and load put in the store has the store's types.
LEMMA SeedAndLoad ==
  ASSUME StoreType
  PROVE  /\ \A i \in Slot : Seed(i) \in Channel /\ Loaded(i) \in Channel
         /\ Seed(DeviceKey) \in Device /\ Loaded(DeviceKey) \in Device
<1>1. /\ \A i \in Slot : Seed(i) = DefaultTable[i] /\ DefaultTable[i] \in Channel
      /\ Seed(DeviceKey) = Device0 /\ Device0 \in Device
  BY RecordFacts, DefaultsGood, SettingsAssumption DEF Seed, SettingsAssumption
<1>2. \A i \in Slot : Loaded(i) \in Channel
  BY <1>1 DEF Loaded, Decodable, StoreType, RecordOf
<1>3. Loaded(DeviceKey) \in Device
  BY <1>1 DEF Loaded, Decodable, StoreType, RecordOf
<1> QED
  BY <1>1, <1>2, <1>3

\* meshtastic_init() on a blank flash establishes the invariant.
LEMMA InitIInv == Init => IInv
<1> SUFFICES ASSUME Init PROVE IInv
  OBVIOUS
<1>1. ChannelsTypeOK /\ OnePrimary /\ OwnHashCurrent
  BY DefaultsGood DEF Init, ChannelsInit, ChannelsTypeOK, OnePrimary, OwnHashCurrent
<1>2. StoreType
  <2>1. \A i \in Slot : i \in Record /\ Seed(i) \in Channel
    BY RecordFacts, DefaultsGood DEF Seed
  <2>2. DeviceKey \in Record /\ Seed(DeviceKey) \in Device /\ Device0 \in Device
    BY RecordFacts, SettingsAssumption DEF Seed, SettingsAssumption
  <2> QED
    BY <2>1, <2>2 DEF Init, StoreType
<1>3. ControlType
  <2>1. MaxChannels \in Nat /\ MaxEdits \in Nat /\ MaxResets \in Nat
    BY ChannelsAssumption, SettingsAssumption, Zenon DEF ChannelsAssumption, SettingsAssumption
  <2>2. editor \in [step : {"rest", "set_slot", "set_device", "apply", "schedule"},
                    at : 0 .. MaxChannels]
    BY <2>1 DEF Init, Rest
  <2>3. timer \in BOOLEAN /\ failed \in BOOLEAN
    BY Zenon DEF Init
  <2>4. edits \in 0 .. MaxEdits /\ resets \in 0 .. MaxResets
    BY <2>1 DEF Init
  <2> QED
    BY <2>2, <2>3, <2>4 DEF Init, ControlType
<1>4. \A k \in Record : ~Dirty(k)
  BY DEF Init, Dirty, Loaded, Decodable
<1>5. SaveState
  BY DEF Init, SaveState, Rest
<1>6. DirtyIsScheduled
  BY <1>4 DEF DirtyIsScheduled
<1> QED
  BY <1>1, <1>2, <1>3, <1>5, <1>6, TypeParts DEF IInv
-----------------------------------------------------------------------------
(* The steps.  Whole is all of the invariant but the channel table's part. *)

Table == ChannelsTypeOK /\ OnePrimary /\ OwnHashCurrent

Whole == StoreType /\ ControlType /\ SaveState /\ DirtyIsScheduled

\* The invariant is the channel table's part and the rest.
LEMMA InvParts == (IInv <=> Table /\ Whole) /\ (IInv' <=> Table' /\ Whole')
<1>1. IInv <=> Table /\ Whole
  BY TypeParts DEF IInv, Table, Whole
<1>2. IInv' <=> Table' /\ Whole'
  BY TypeParts DEF IInv, Table, Whole
<1> QED
  BY <1>1, <1>2

\* The channel table changes by set_slot() and by a reset only, and both keep it.
LEMMA TableStep == IInv /\ [Next]_vars => Table'
<1> SUFFICES ASSUME IInv, [Next]_vars PROVE Table'
  OBVIOUS
<1>1. Table /\ StoreType /\ ControlType /\ SaveState
  BY InvParts DEF Whole
<1>2. CASE UNCHANGED channelVars
  BY <1>1, <1>2 DEF Table, channelVars, ChannelsTypeOK, OnePrimary, OwnHashCurrent
<1>3. ASSUME NEW i \in Slot, NEW ch \in Channel, SetSlot(i, ch) PROVE Table'
  BY <1>1, <1>3, SetSlotKeeps DEF Table
<1>4. CASE EditSetSlot
  <2>1. editor.at \in Slot /\ store[editor.at] \in Channel
    BY <1>1, <1>4 DEF EditSetSlot, SaveState, StoreType
  <2> QED
    BY <2>1, <1>3, <1>4 DEF EditSetSlot
<1>5. CASE ApplySlot
  <2>1. editor.at \in 0 .. MaxChannels /\ MaxChannels \in Nat
    BY <1>1, ChannelsAssumption, Zenon DEF ControlType, ChannelsAssumption
  <2>2. editor.at \in Slot
    BY <2>1, <1>5 DEF ApplySlot, Slot
  <2>3. store[editor.at] \in Channel
    BY <2>2, <1>1 DEF StoreType
  <2> QED
    BY <2>2, <2>3, <1>3, <1>5 DEF ApplySlot
<1>6. CASE Reset
  BY <1>6, DefaultsGood
     DEF Reset, InitFromConfig, Table, ChannelsTypeOK, OnePrimary, OwnHashCurrent
<1>7. CASE Next /\ ~EditSetSlot /\ ~ApplySlot /\ ~Reset
  <2>1. UNCHANGED channelVars
    BY <1>7, Zenon DEF Next, EditStep, SaveStep, CmdChannelSet, CmdChannelDisable, SetDevice,
       SetConfig, EditSetDevice, ApplyDevice, Hang, ScheduleSave, SaveStart, SaveRead,
       SaveWrite, SaveFail, Boot
  <2> QED
    BY <2>1, <1>2, SMTT(30), ZenonT(30)
<1>8. CASE UNCHANGED vars
  BY <1>2, <1>8 DEF vars, channelVars
<1> QED
  BY <1>4, <1>5, <1>6, <1>7, <1>8

\* An editing call has written record k and is about to apply it: the edit in
\* progress stands for the save that will follow.
LEMMA EditBegins ==
  ASSUME Whole, CanEdit, NEW k \in Record, NEW v, k \in Slot => v \in Channel,
         k = DeviceKey => v \in Device, store' = [store EXCEPT ![k] = v],
         NEW e \in [step : {"set_slot", "set_device", "apply"}, at : 0 .. MaxChannels],
         e.step = "set_slot" => e.at \in Slot, editor' = e,
         UNCHANGED <<device, flash, alive, saveVars, resets>>
  PROVE  Whole'
<1>1. StoreType /\ ControlType /\ SaveState
  BY DEF Whole
<1>2. alive = "up" /\ e # Rest
  BY DEF CanEdit, Rest
<1>3. StoreType'
  BY <1>1, RecordFacts DEF StoreType
<1>4. ControlType'
  <2>1. edits' \in 0 .. MaxEdits
    <3>1. edits \in 0 .. MaxEdits /\ edits < MaxEdits /\ edits' = edits + 1 /\ MaxEdits \in Nat
      BY <1>1, SettingsAssumption DEF ControlType, CanEdit, SettingsAssumption
    <3> QED
      BY <3>1
  <2>2. editor' \in [step : {"rest", "set_slot", "set_device", "apply", "schedule"},
                     at : 0 .. MaxChannels]
    OBVIOUS
  <2>3. expected' = NoTable
    BY DEF CanEdit
  <2> QED
    BY <1>1, <2>1, <2>2, <2>3 DEF ControlType, saveVars
<1>5. SaveState'
  BY <1>1, <1>2 DEF SaveState, saveVars
<1>6. DirtyIsScheduled'
  BY <1>2 DEF DirtyIsScheduled
<1> QED
  BY <1>3, <1>4, <1>5, <1>6 DEF Whole

\* The four editing calls begin as EditBegins says.
LEMMA BeginStep ==
  ASSUME Table, Whole,
         \/ \E i \in Slot, ch \in Edit : CmdChannelSet(i, ch)
         \/ \E i \in Slot : CmdChannelDisable(i)
         \/ \E d \in Device : SetDevice(d) \/ SetConfig(d)
  PROVE  Whole'
<1>0. MaxChannels \in Nat \ {0}
  BY ChannelsAssumption, Zenon DEF ChannelsAssumption
<1>1. ASSUME NEW i \in Slot, NEW ch \in Channel, CanEdit, StoreChannel(i, ch),
             UNCHANGED <<channelVars, device, flash, alive, saveVars, resets>>
      PROVE  Whole'
  <2>1. PICK e : e = Step("set_slot", i)
    OBVIOUS
  <2>2. /\ e \in [step : {"set_slot", "set_device", "apply"}, at : 0 .. MaxChannels]
        /\ e.at \in Slot
    BY <1>0, <2>1 DEF Step, Slot
  <2>3. i \in Record /\ i # DeviceKey
    BY RecordFacts
  <2>4. store' = [store EXCEPT ![i] = ch] /\ editor' = e
    BY <1>1, <2>1 DEF StoreChannel
  <2> QED
    BY <1>1, <2>2, <2>3, <2>4, EditBegins, Zenon
<1>2. ASSUME NEW i \in Slot, NEW ch \in Edit, CmdChannelSet(i, ch) PROVE Whole'
  <2>1. ch \in Channel
    BY SettingsAssumption DEF SettingsAssumption
  <2> QED
    BY <1>1, <1>2, <2>1 DEF CmdChannelSet
<1>3. ASSUME NEW i \in Slot, CmdChannelDisable(i) PROVE Whole'
  <2>1. PICK ch : ch = [slots[i] EXCEPT !.role = "DISABLED", !.has_settings = TRUE]
    OBVIOUS
  <2>2. slots[i] \in Channel
    BY DEF Table, ChannelsTypeOK
  <2>3. ch \in Channel
    BY <2>1, <2>2, Zenon DEF Channel, Role
  <2> QED
    BY <1>1, <1>3, <2>1, <2>3, Zenon DEF CmdChannelDisable
<1>4. ASSUME NEW d \in Device, SetDevice(d) \/ SetConfig(d) PROVE Whole'
  <2>1. PICK e : /\ e = Step("set_device", 0) \/ e = Step("apply", 0)
                 /\ editor' = e
    BY <1>4 DEF SetDevice, SetConfig
  <2>2. /\ e \in [step : {"set_slot", "set_device", "apply"}, at : 0 .. MaxChannels]
        /\ e.step # "set_slot"
    BY <1>0, <2>1 DEF Step
  <2>3. DeviceKey \in Record /\ DeviceKey \notin Slot
    BY RecordFacts
  <2>4. /\ CanEdit /\ store' = [store EXCEPT ![DeviceKey] = d]
        /\ UNCHANGED <<device, flash, alive, saveVars, resets>>
    BY <1>4 DEF SetDevice, SetConfig
  <2> QED
    BY <2>1, <2>2, <2>3, <2>4, EditBegins, Zenon
<1> QED
  BY <1>2, <1>3, <1>4

\* The editing thread goes on: it applies what it stored and asks for the save
\* last, and a boot ends with nothing to save.
LEMMA EditStepKeeps ==
  ASSUME Whole, EditStep
  PROVE  Whole'
<1>0. StoreType /\ ControlType /\ SaveState /\ DirtyIsScheduled /\ MaxChannels \in Nat
  BY ChannelsAssumption, Zenon DEF Whole, ChannelsAssumption
<1>1. /\ store' = store /\ flash' = flash /\ saving' = saving /\ buf' = buf /\ failed' = failed
      /\ expected' = expected /\ edits' = edits /\ resets' = resets
      /\ device' = device \/ device' = store[DeviceKey]
      /\ timer' = timer \/ timer' = TRUE
      /\ alive \in {"up", "booting"}
  BY DEF EditStep, EditSetSlot, EditSetDevice, ApplySlot, ApplyDevice, Hang, ScheduleSave,
     storeVars, saveVars
<1>2. \A k \in Record : Dirty(k)' <=> Dirty(k)
  BY <1>1, Zenon DEF Dirty, Loaded, Decodable, Seed, DeviceKey, DefaultTable
<1>3. StoreType'
  BY <1>0, <1>1 DEF StoreType
<1>4. timer' \in BOOLEAN
  BY <1>0, <1>1, Zenon DEF ControlType
<1>5. ASSUME alive' \in {"up", "booting", "hung"},
             editor' \in [step : {"set_slot", "set_device", "apply", "schedule", "rest"},
                          at : 0 .. MaxChannels]
      PROVE  ControlType'
  BY <1>0, <1>1, <1>4, <1>5 DEF ControlType
<1>6. CASE EditSetSlot \/ EditSetDevice
  <2>1. alive' = "up" /\ editor' = Step("schedule", 0) /\ alive = "up" /\ timer' = timer
    BY <1>6 DEF EditSetSlot, EditSetDevice, saveVars
  <2>2. editor' # Rest /\ editor'.step = "schedule" /\ editor'.at = 0
    BY <2>1 DEF Step, Rest
  <2>3. ControlType'
    BY <1>0, <1>5, <2>1 DEF Step
  <2>4. SaveState'
    BY <1>0, <1>1, <2>1, <2>2 DEF SaveState
  <2>5. DirtyIsScheduled'
    BY <2>2 DEF DirtyIsScheduled
  <2> QED
    BY <1>3, <2>3, <2>4, <2>5, Zenon DEF Whole
<1>7. CASE ApplySlot
  <2>1. /\ alive' = alive /\ editor' = Step("apply", editor.at + 1) /\ timer' = timer
        /\ editor.at < MaxChannels /\ editor.at \in 0 .. MaxChannels
    BY <1>0, <1>7 DEF ApplySlot, saveVars, ControlType
  <2>2. editor' # Rest /\ editor'.step = "apply" /\ editor.at + 1 \in 0 .. MaxChannels
    BY <1>0, <2>1 DEF Step, Rest
  <2>3. ControlType'
    BY <1>1, <1>5, <2>1, <2>2 DEF Step
  <2>4. SaveState'
    BY <1>0, <1>1, <1>2, <2>1, <2>2 DEF SaveState
  <2>5. DirtyIsScheduled'
    BY <2>2 DEF DirtyIsScheduled
  <2> QED
    BY <1>3, <2>3, <2>4, <2>5 DEF Whole
<1>8. CASE ApplyDevice /\ alive = "up"
  <2>1. alive' = "up" /\ editor' = Step("schedule", 0) /\ timer' = timer
    BY <1>8 DEF ApplyDevice, saveVars
  <2>2. editor' # Rest /\ editor'.step = "schedule"
    BY <2>1 DEF Step, Rest
  <2>3. ControlType'
    BY <1>0, <1>5, <2>1 DEF Step
  <2>4. SaveState'
    BY <1>0, <1>1, <2>1, <2>2 DEF SaveState
  <2>5. DirtyIsScheduled'
    BY <2>2 DEF DirtyIsScheduled
  <2> QED
    BY <1>3, <2>3, <2>4, <2>5 DEF Whole
<1>9. CASE ApplyDevice /\ alive # "up"
  <2>1. alive = "booting" /\ alive' = "up" /\ editor' = Rest /\ timer' = timer
    BY <1>1, <1>9 DEF ApplyDevice, saveVars
  <2>2. ControlType'
    BY <1>0, <1>5, <2>1 DEF Rest
  <2>3. saving = Idle /\ buf = NoRecord /\ \A k \in Record : ~Dirty(k)
    BY <1>0, <2>1 DEF SaveState
  <2>4. editor'.step = "rest"
    BY <2>1 DEF Rest
  <2>5. SaveState'
    BY <1>1, <2>1, <2>3, <2>4 DEF SaveState
  <2>6. DirtyIsScheduled'
    BY <1>2, <2>3 DEF DirtyIsScheduled
  <2> QED
    BY <1>3, <2>2, <2>5, <2>6 DEF Whole
<1>10. CASE Hang
  <2>1. alive' = "hung" /\ editor' = editor /\ timer' = timer
    BY <1>10 DEF Hang, saveVars
  <2>2. ControlType'
    BY <1>0, <1>5, <2>1 DEF ControlType
  <2>3. SaveState'
    BY <1>0, <1>1, <2>1 DEF SaveState
  <2>4. DirtyIsScheduled'
    BY <2>1 DEF DirtyIsScheduled
  <2> QED
    BY <1>3, <2>2, <2>3, <2>4 DEF Whole
<1>11. CASE ScheduleSave
  <2>1. alive = "up" /\ alive' = "up" /\ editor' = Rest /\ timer' = TRUE
    BY <1>11 DEF ScheduleSave
  <2>2. ControlType' /\ editor'.step = "rest"
    BY <1>0, <1>5, <2>1 DEF Rest
  <2>3. SaveState'
    BY <1>0, <1>1, <2>1, <2>2 DEF SaveState
  <2>4. DirtyIsScheduled'
    BY <2>1 DEF DirtyIsScheduled
  <2> QED
    BY <1>3, <2>2, <2>3, <2>4 DEF Whole
<1> QED
  BY <1>6, <1>7, <1>8, <1>9, <1>10, <1>11 DEF EditStep

\* The save goes through the records: what it has read is written, or another
\* save was asked for meanwhile; an error is remembered as one.
LEMMA SaveStepKeeps ==
  ASSUME Whole, SaveStep \/ SaveFail
  PROVE  Whole'
<1>0. StoreType /\ ControlType /\ SaveState /\ DirtyIsScheduled
  BY DEF Whole
<1>1. /\ store' = store /\ device' = device /\ alive' = "up" /\ alive = "up" /\ editor' = editor
      /\ expected' = expected /\ edits' = edits /\ resets' = resets
  BY DEF SaveStep, SaveStart, SaveRead, SaveWrite, SaveFail, storeVars
<1>2. ASSUME NEW k \in Record, flash'[k] = flash[k] PROVE Dirty(k)' <=> Dirty(k)
  BY <1>1, <1>2 DEF Dirty, Loaded, Decodable, Seed, DeviceKey, DefaultTable
<1>3. ASSUME timer' \in BOOLEAN, failed' \in BOOLEAN, saving' \in Record \cup {Idle},
             buf' \in RecordOf(Channel) \cup RecordOf(Device) \cup {NoRecord}
      PROVE  ControlType'
  BY <1>0, <1>1, <1>3 DEF ControlType
<1>4. CASE SaveStart
  <2>1. /\ timer' = FALSE /\ saving' = 0 /\ failed' = FALSE /\ buf' = buf /\ flash' = flash
        /\ saving = Idle /\ buf = NoRecord
    BY <1>0, <1>4 DEF SaveStart, SaveState
  <2>2. timer' \in BOOLEAN /\ failed' \in BOOLEAN
    BY <2>1, Zenon
  <2>3. StoreType' /\ ControlType'
    BY <1>0, <1>1, <1>3, <2>1, <2>2, RecordFacts DEF StoreType
  <2>4. SaveState'
    BY <1>0, <1>1, <2>1, RecordFacts DEF SaveState
  <2>5. DirtyIsScheduled'
    BY <2>1, RecordFacts DEF DirtyIsScheduled
  <2> QED
    BY <2>3, <2>4, <2>5 DEF Whole
<1>5. CASE SaveRead
  <2>1. /\ timer' = timer /\ saving' = saving /\ failed' = failed /\ flash' = flash
        /\ saving # Idle /\ buf' = Encoded(store[saving]) /\ buf = NoRecord
    BY <1>5 DEF SaveRead
  <2>2. saving \in Record
    BY <1>0, <2>1 DEF ControlType
  <2>3. store[saving] \in (IF saving = DeviceKey THEN Device ELSE Channel)
    BY <1>0, <2>2, RecordFacts DEF StoreType
  <2>4. /\ buf' \in RecordOf(IF saving = DeviceKey THEN Device ELSE Channel)
        /\ buf' \in RecordOf(Channel) \cup RecordOf(Device)
    BY <2>1, <2>3, EncodedFacts
  <2>5. StoreType' /\ ControlType'
    BY <1>0, <1>1, <1>3, <2>1, <2>2, <2>4 DEF StoreType, ControlType
  <2>6. Encoded(store[saving])' = Encoded(store[saving])
    BY <1>1, <2>1 DEF Encoded, Version
  <2>7. SaveState'
    BY <1>0, <1>1, <2>1, <2>4, <2>6 DEF SaveState, RecordOf, DeviceKey, Version
  <2>8. DirtyIsScheduled'
    <3> SUFFICES ASSUME NEW k \in Record, ~failed, Dirty(k), editor = Rest, ~timer
                 PROVE  saving < k \/ saving = k
      BY <1>1, <1>2, <2>1, <2>6 DEF DirtyIsScheduled, Encoded, Version
    <3> QED
      BY <1>0, <1>1 DEF DirtyIsScheduled
  <2> QED
    BY <2>5, <2>7, <2>8 DEF Whole
<1>6. CASE SaveWrite
  <2>1. /\ timer' = timer /\ failed' = failed /\ flash' = [flash EXCEPT ![saving] = buf]
        /\ saving # Idle /\ buf # NoRecord /\ buf' = NoRecord /\ saving' = NextRecord(saving)
    BY <1>6 DEF SaveWrite
  <2>2. saving \in Record /\ saving' \in Record \cup {Idle}
    BY <1>0, <2>1, RecordFacts DEF ControlType, NextRecord
  <2>3. buf \in RecordOf(IF saving = DeviceKey THEN Device ELSE Channel)
    BY <1>0, <2>1 DEF SaveState
  <2>4. DOMAIN flash' = Record /\ \A k \in Record : flash'[k] = IF k = saving THEN buf ELSE flash[k]
    BY <1>0, <2>1, <2>2 DEF StoreType
  <2>5. StoreType'
    BY <1>0, <1>1, <2>3, <2>4, RecordFacts DEF StoreType
  <2>6. ControlType'
    BY <1>0, <1>3, <2>1, <2>2 DEF ControlType
  <2>7. SaveState'
    BY <1>0, <1>1, <2>1 DEF SaveState
  <2>8. DirtyIsScheduled'
    <3> SUFFICES ASSUME NEW k \in Record, ~failed, Dirty(k)', editor = Rest, ~timer
                 PROVE  saving' # Idle /\ (saving' < k \/ saving' = k)
      BY <1>1, <2>1 DEF DirtyIsScheduled
    <3>1. buf = Encoded(store[saving])
      BY <1>0, <1>1, <2>1 DEF SaveState
    <3>2. k # saving
      <4> SUFFICES ASSUME k = saving PROVE FALSE
        OBVIOUS
      <4>1. flash'[k] # NoRecord /\ flash'[k].version = Version /\ flash'[k].message = store'[k]
        BY <1>1, <2>1, <2>4, <3>1, EncodedFacts
      <4> QED
        BY <4>1 DEF Dirty, Loaded, Decodable, Version
    <3>3. saving < k
      BY <1>0, <1>1, <1>2, <2>4, <3>2 DEF DirtyIsScheduled
    <3> QED
      BY <2>1, <2>2, <3>3, RecordFacts DEF NextRecord
  <2> QED
    BY <2>5, <2>6, <2>7, <2>8 DEF Whole
<1>7. CASE SaveFail
  <2>1. /\ timer' = timer /\ failed' = TRUE /\ flash' = flash /\ buf' = NoRecord /\ saving' = Idle
    BY <1>7 DEF SaveFail
  <2>2. failed' \in BOOLEAN
    BY <2>1, Zenon
  <2>3. StoreType' /\ ControlType'
    BY <1>0, <1>1, <1>3, <2>1, <2>2 DEF StoreType, ControlType
  <2>4. SaveState'
    BY <1>0, <1>1, <2>1 DEF SaveState
  <2>5. DirtyIsScheduled'
    BY <2>1 DEF DirtyIsScheduled
  <2> QED
    BY <2>3, <2>4, <2>5 DEF Whole
<1> QED
  BY <1>4, <1>5, <1>6, <1>7 DEF SaveStep

\* A reset leaves the flash and defaults; a boot starts from the flash.
LEMMA PowerKeeps ==
  ASSUME Table, Whole, Reset \/ Boot
  PROVE  Whole'
<1>0. StoreType /\ ControlType /\ SaveState /\ MaxChannels \in Nat /\ MaxResets \in Nat
  BY Zenon, ChannelsAssumption, SettingsAssumption
     DEF Whole, ChannelsAssumption, SettingsAssumption
<1>1. CASE Reset
  <2>1. /\ resets < MaxResets /\ resets' = resets + 1 /\ alive' = "off" /\ editor' = Rest
        /\ store' = [k \in Record |-> Seed(k)] /\ device' = Device0 /\ timer' = FALSE
        /\ saving' = Idle /\ buf' = NoRecord /\ failed' = FALSE /\ flash' = flash /\ edits' = edits
        /\ expected' \in {slots, NoTable, expected}
    BY <1>1 DEF Reset
  <2>2. timer' \in BOOLEAN /\ failed' \in BOOLEAN
    BY <2>1, Zenon
  <2>3. resets' \in 0 .. MaxResets
    BY <1>0, <2>1 DEF ControlType
  <2>4. slots \in [Slot -> Channel] /\ Device0 \in Device
    BY SettingsAssumption DEF Table, ChannelsTypeOK, SettingsAssumption
  <2>5. editor' \in [step : {"rest", "set_slot", "set_device", "apply", "schedule"},
                     at : 0 .. MaxChannels] /\ editor'.step = "rest"
    BY <1>0, <2>1 DEF Rest
  <2>6. ControlType'
    BY <1>0, <2>1, <2>2, <2>3, <2>4, <2>5 DEF ControlType
  <2>7. StoreType'
    BY <1>0, <2>1, <2>4, SeedAndLoad, RecordFacts DEF StoreType
  <2>8. SaveState' /\ DirtyIsScheduled'
    BY <2>1, <2>5 DEF SaveState, DirtyIsScheduled
  <2> QED
    BY <2>6, <2>7, <2>8 DEF Whole
<1>2. CASE Boot
  <2>1. /\ alive = "off" /\ store' = [k \in Record |-> Loaded(k)] /\ alive' = "booting"
        /\ editor' = Step("apply", 0) /\ device' = device /\ flash' = flash /\ timer' = timer
        /\ saving' = saving /\ buf' = buf /\ failed' = failed /\ expected' = expected
        /\ edits' = edits /\ resets' = resets
    BY <1>2 DEF Boot, LoadSubtree, saveVars
  <2>2. /\ editor' \in [step : {"rest", "set_slot", "set_device", "apply", "schedule"},
                        at : 0 .. MaxChannels]
        /\ editor'.step = "apply"
    BY <1>0, <2>1 DEF Step
  <2>3. ControlType'
    BY <1>0, <2>1, <2>2 DEF ControlType
  <2>4. StoreType'
    BY <1>0, <2>1, SeedAndLoad, RecordFacts DEF StoreType
  <2>5. \A k \in Record : ~Dirty(k)'
    BY <2>1 DEF Dirty, Loaded, Decodable, Seed, DeviceKey, DefaultTable
  <2>6. saving = Idle /\ buf = NoRecord
    BY <1>0, <2>1 DEF SaveState
  <2>7. SaveState' /\ DirtyIsScheduled'
    BY <2>1, <2>2, <2>5, <2>6 DEF SaveState, DirtyIsScheduled
  <2> QED
    BY <2>3, <2>4, <2>7 DEF Whole
<1> QED
  BY <1>1, <1>2

\* Steps that change nothing keep everything.
LEMMA StutterKeeps ==
  ASSUME Whole, UNCHANGED vars
  PROVE  Whole'
<1>1. StoreType'
  BY DEF Whole, vars, StoreType
<1>2. ControlType'
  BY DEF Whole, vars, ControlType
<1>3. \A k \in Record : Dirty(k)' <=> Dirty(k)
  BY DEF vars, Dirty, Loaded, Decodable, Seed, DeviceKey, DefaultTable
<1>4. SaveState' /\ DirtyIsScheduled'
  BY <1>3 DEF Whole, vars, SaveState, DirtyIsScheduled, Encoded, Version
<1> QED
  BY <1>1, <1>2, <1>4 DEF Whole
-----------------------------------------------------------------------------
\* The invariant holds through edits, saves, failures, resets and boots.
THEOREM Inductive == Spec => []IInv
<1>1. IInv /\ [Next]_vars => IInv'
  <2> SUFFICES ASSUME IInv, [Next]_vars PROVE Whole'
    BY TableStep, InvParts
  <2>1. Table /\ Whole
    BY InvParts
  <2>2. CASE \/ \E i \in Slot, ch \in Edit : CmdChannelSet(i, ch)
             \/ \E i \in Slot : CmdChannelDisable(i)
             \/ \E d \in Device : SetDevice(d) \/ SetConfig(d)
    BY <2>1, <2>2, BeginStep
  <2>3. CASE EditStep
    BY <2>1, <2>3, EditStepKeeps
  <2>4. CASE SaveStep \/ SaveFail
    BY <2>1, <2>4, SaveStepKeeps
  <2>5. CASE Reset \/ Boot
    BY <2>1, <2>5, PowerKeeps
  <2>6. CASE UNCHANGED vars
    BY <2>1, <2>6, StutterKeeps
  <2> QED
    BY <2>2, <2>3, <2>4, <2>5, <2>6 DEF Next
<1> QED
  BY <1>1, InitIInv, PTL DEF Spec

\* The configuration keeps its types, in RAM, in flash and in the save's buffer.
THEOREM TypeCorrect == Spec => []TypeOK
<1>1. IInv => TypeOK
  BY DEF IInv
<1> QED
  BY <1>1, Inductive, PTL

\* demote_other_primary(): there are never two PRIMARY channels, and the one there
\* is has primary_index, whatever is edited, saved and reloaded.
THEOREM AtMostOnePrimary == Spec => []OnePrimary
<1>1. IInv => OnePrimary
  BY DEF IInv
<1> QED
  BY <1>1, Inductive, PTL

\* channel_fixup(): the cached hash of a slot with a key of its own is current,
\* and the transmit context has the hash of the primary slot.
THEOREM HashesFollowSlots == Spec => []OwnHashCurrent
<1>1. IInv => OwnHashCurrent
  BY DEF IInv
<1> QED
  BY <1>1, Inductive, PTL

\* save_work_handler(): a changed record is never left behind without a save that
\* will reach it, unless a save failed.
THEOREM NoForgottenChange == Spec => []DirtyIsScheduled
<1>1. IInv => DirtyIsScheduled
  BY DEF IInv
<1> QED
  BY <1>1, Inductive, PTL
-----------------------------------------------------------------------------
(* The live table follows the stored one. *)

\* channel_fixup() with the empty name and the disabled slot named, as the only
\* things that matter about them.
LEMMA FixedShape ==
  \E e \in Name, z \in Channel :
    /\ e # "Default" /\ z.role = "DISABLED" /\ z.has_settings
    /\ \A x \in Channel :
         Fixed(x) = [(IF x.has_settings THEN x ELSE z) EXCEPT
                       !.name = IF @ = "Default" THEN e ELSE @]
<1>1. /\ "" \in Name /\ "" # "Default"
      /\ DisabledSlot \in Channel /\ DisabledSlot.role = "DISABLED" /\ DisabledSlot.has_settings
  BY ChannelsAssumption, Zenon DEF ChannelsAssumption, DisabledSlot, Channel, Role
<1>2. \A x \in Channel :
        Fixed(x) = [(IF x.has_settings THEN x ELSE DisabledSlot) EXCEPT
                      !.name = IF @ = "Default" THEN "" ELSE @]
  BY Zenon DEF Fixed
<1> QED
  BY <1>1, <1>2, Zenon

\* channel_fixup() is idempotent, and demoting a slot that was fixed up gives
\* what fixing up the demoted channel gives.
LEMMA FixedTwice ==
  ASSUME NEW ch \in Channel
  PROVE  /\ Fixed(Fixed(ch)) = Fixed(ch)
         /\ Fixed(ch).role = "PRIMARY" =>
              /\ ch.role = "PRIMARY"
              /\ Fixed([Fixed(ch) EXCEPT !.role = "SECONDARY"])
                   = Fixed([ch EXCEPT !.role = "SECONDARY"])
              /\ Fixed([ch EXCEPT !.role = "SECONDARY"]).role = "SECONDARY"
<1>1. PICK e \in Name, z \in Channel :
        /\ e # "Default" /\ z.role = "DISABLED" /\ z.has_settings
        /\ \A x \in Channel :
             Fixed(x) = [(IF x.has_settings THEN x ELSE z) EXCEPT
                           !.name = IF @ = "Default" THEN e ELSE @]
  BY FixedShape
<1>2. PICK c \in Channel : /\ c = IF ch.has_settings THEN ch ELSE z
                           /\ c.has_settings
  BY <1>1
<1>3. PICK n \in Name : /\ n = IF c.name = "Default" THEN e ELSE c.name
                        /\ n # "Default"
  BY <1>1 DEF Channel
<1>4. Fixed(ch) = [c EXCEPT !.name = n]
  BY <1>1, <1>2, <1>3
<1> PICK f : f = [c EXCEPT !.name = n]
  BY Zenon
<1>5. f \in Channel /\ f.name = n /\ f.has_settings /\ f.role = c.role
  BY <1>2 DEF Channel
<1>6. ASSUME NEW x \in Channel, x.has_settings, x.name = n PROVE Fixed(x) = x
  <2>1. Fixed(x) = [x EXCEPT !.name = IF @ = "Default" THEN e ELSE @]
    BY <1>1, <1>6
  <2>2. Fixed(x) = [x EXCEPT !.name = n]
    BY <1>3, <1>6, <2>1
  <2> QED
    BY <1>6, <2>2 DEF Channel
<1>7. ASSUME f.role = "PRIMARY"
      PROVE  /\ ch.role = "PRIMARY"
             /\ Fixed([f EXCEPT !.role = "SECONDARY"]) = Fixed([ch EXCEPT !.role = "SECONDARY"])
             /\ Fixed([ch EXCEPT !.role = "SECONDARY"]).role = "SECONDARY"
  <2>1. c = ch /\ ch.has_settings
    BY <1>1, <1>2, <1>5, <1>7
  <2> PICK d : d = [ch EXCEPT !.role = "SECONDARY"]
    BY Zenon
  <2>2. d \in Channel /\ d.name = ch.name /\ d.has_settings /\ d.role = "SECONDARY"
    BY <2>1 DEF Channel, Role
  <2>3. Fixed(d) = [d EXCEPT !.name = n] /\ [d EXCEPT !.name = n].role = "SECONDARY"
    <3>1. Fixed(d) = [d EXCEPT !.name = IF @ = "Default" THEN e ELSE @]
      BY <1>1, <2>2, Zenon
    <3>2. n = IF d.name = "Default" THEN e ELSE d.name
      BY <1>3, <2>1, <2>2
    <3>3. [d EXCEPT !.name = n].role = "SECONDARY"
      BY <2>2 DEF Channel
    <3> QED
      BY <3>1, <3>2, <3>3
  <2> PICK g : g = [f EXCEPT !.role = "SECONDARY"]
    OBVIOUS
  <2>4. g \in Channel /\ g.name = n /\ g.has_settings
    BY <1>5, Zenon DEF Channel, Role
  <2>5. Fixed(g) = g
    BY <1>6, <2>4, Zenon
  <2>6. g = [d EXCEPT !.name = n]
    BY <1>5, <2>1, <2>2, <2>4, Zenon DEF Channel
  <2>7. Fixed(g) = Fixed(d) /\ Fixed(d).role = "SECONDARY" /\ ch.role = "PRIMARY"
    BY <1>5, <1>7, <2>1, <2>3, <2>5, <2>6, Zenon
  <2> QED
    BY <2>2, <2>4, <2>7, Zenon
<1>8. Fixed(f) = f
  BY <1>5, <1>6, Zenon
<1> QED
  BY <1>4, <1>5, <1>7, <1>8

\* meshtastic_channels_set_slot() with the stored channel brings its slot up to
\* date, and the slots it demotes still follow the store.
LEMMA SetSlotFollows ==
  ASSUME ChannelsTypeOK, StoreType, store' = store, NEW i \in Slot, SetSlot(i, store[i])
  PROVE  Follows(i)' /\ \A j \in Slot : Follows(j) => Follows(j)'
<1>1. /\ slots \in [Slot -> Channel] /\ \A j \in Slot : store[j] \in Channel
  BY DEF ChannelsTypeOK, StoreType
<1>2. /\ slots'[i] = Fixed(store[i])
      /\ \A j \in Slot \ {i} : slots'[j] =
           IF store[i].role = "PRIMARY" /\ slots[j].role = "PRIMARY"
             THEN Fixed([slots[j] EXCEPT !.role = "SECONDARY"]) ELSE slots[j]
  BY <1>1 DEF SetSlot, NewTable, Demoted
<1>3. Follows(i)'
  <2>1. slots'[i] = Fixed(store'[i])
    BY <1>2, Zenon
  <2> QED
    BY <2>1, Zenon DEF Follows, Fixed, DisabledSlot, ZeroPsk
<1>4. ASSUME NEW j \in Slot, j # i, Follows(j) PROVE Follows(j)'
  <2>1. CASE slots'[j] = slots[j]
    BY <1>4, <2>1, Zenon DEF Follows, Fixed, DisabledSlot, ZeroPsk
  <2>2. CASE slots'[j] # slots[j]
    <3>1. /\ slots[j].role = "PRIMARY"
          /\ slots'[j] = Fixed([slots[j] EXCEPT !.role = "SECONDARY"])
      BY <1>2, <1>4, <2>2
    <3>2. slots[j] = Fixed(store[j])
      BY <1>4, <3>1 DEF Follows
    <3>3. /\ store[j].role = "PRIMARY" /\ slots'[j].role = "SECONDARY"
          /\ slots'[j] = Fixed([store[j] EXCEPT !.role = "SECONDARY"])
      BY <1>1, <3>1, <3>2, FixedTwice
    <3> QED
      BY <3>3, Zenon DEF Follows, Fixed, DisabledSlot, ZeroPsk
  <2> QED
    BY <2>1, <2>2
<1> QED
  BY <1>3, <1>4

\* meshtastic_config_store_seed() takes the live table as it is.
LEMMA InitLiveState == Init => LiveState
<1> SUFFICES ASSUME Init PROVE LiveState
  OBVIOUS
<1>1. ASSUME NEW i \in Slot PROVE Fixed(DefaultTable[i]) = DefaultTable[i]
  <2>1. DisabledSlot \in Channel /\ Fixed(DisabledSlot) = DisabledSlot
    BY ChannelsAssumption, Zenon DEF Fixed, DisabledSlot, Channel, Role, ChannelsAssumption
  <2>2. Fixed(Fixed(ConfigChannel)) = Fixed(ConfigChannel)
    BY FixedTwice, ChannelsAssumption, Zenon DEF ChannelsAssumption
  <2> QED
    BY <2>1, <2>2 DEF DefaultTable
<1>2. \A i \in Slot : Follows(i)
  BY <1>1, RecordFacts DEF Init, ChannelsInit, Seed, Follows
<1>3. device = store[DeviceKey] /\ alive = "up"
  BY RecordFacts DEF Init, Seed
<1> QED
  BY <1>2, <1>3 DEF LiveState

\* The live table and the store stay as they are, and so does what follows what.
LEMMA FollowsUnchanged ==
  ASSUME NEW i, slots'[i] = slots[i], store'[i] = store[i]
  PROVE  Follows(i)' <=> Follows(i)
  BY DEF Follows, Fixed, DisabledSlot, ZeroPsk

\* The call that applies a stored slot, from an edit or from apply_core().
LEMMA LiveSetSlot ==
  ASSUME IInv, LiveState, EditSetSlot \/ ApplySlot
  PROVE  LiveState'
<1>1. Table /\ StoreType /\ ControlType /\ SaveState /\ MaxChannels \in Nat
  BY InvParts, ChannelsAssumption, Zenon DEF Whole, ChannelsAssumption
<1> PICK a : a = editor.at
  OBVIOUS
<1>2. /\ store' = store /\ device' = device /\ alive' = alive
      /\ SetSlot(a, store[a]) /\ alive \in {"up", "booting"} /\ a \in 0 .. MaxChannels
  BY <1>1 DEF EditSetSlot, ApplySlot, storeVars, ControlType
<1>3. a \in Slot
  BY <1>1, <1>2 DEF EditSetSlot, ApplySlot, SaveState, Slot
<1>4. Follows(a)' /\ \A j \in Slot : Follows(j) => Follows(j)'
  BY <1>1, <1>2, <1>3, SetSlotFollows DEF Table
<1>5. \A i \in Slot : editor = Step("set_slot", i) => i = a
  BY DEF Step
<1>6. alive = "up" => \A i \in Slot : Follows(i)'
  BY <1>4, <1>5 DEF LiveState
<1>7. alive = "booting" => \A i \in Slot : i < editor'.at => Follows(i)'
  <2> SUFFICES ASSUME alive = "booting", NEW i \in Slot, i < editor'.at PROVE Follows(i)'
    OBVIOUS
  <2>1. editor' = Step("apply", a + 1)
    BY DEF EditSetSlot, ApplySlot
  <2>2. i < a \/ i = a
    BY <1>1, <1>2, <2>1 DEF Step, Slot
  <2> QED
    BY <1>4, <2>2 DEF LiveState
<1>8. alive = "up" /\ editor'.step \notin {"set_device", "apply"} => device = store[DeviceKey]
  BY DEF EditSetSlot, ApplySlot, Step, LiveState
<1> QED
  BY <1>2, <1>6, <1>7, <1>8 DEF LiveState, DeviceKey

\* The steps of the editing thread that leave the channel table alone.
LEMMA LiveEdit ==
  ASSUME IInv, LiveState, EditSetDevice \/ ApplyDevice \/ ScheduleSave
  PROVE  LiveState'
<1>1. ControlType /\ SaveState /\ MaxChannels \in Nat
  BY InvParts, ChannelsAssumption, Zenon DEF Whole, ChannelsAssumption
<1>2. /\ store' = store /\ slots' = slots /\ alive' = "up"
      /\ editor'.step \in {"schedule", "rest"}
  BY DEF EditSetDevice, ApplyDevice, ScheduleSave, channelVars, storeVars, Step, Rest
<1>3. \A i \in Slot : Follows(i)
  <2>1. CASE EditSetDevice \/ ScheduleSave
    BY <2>1 DEF EditSetDevice, ScheduleSave, LiveState, Step
  <2>2. CASE ApplyDevice
    <3>1. /\ alive \in {"up", "booting"} /\ editor.at = MaxChannels /\ editor.step = "apply"
      BY <2>2 DEF ApplyDevice, Step
    <3>2. \A i \in Slot : i < editor.at /\ editor # Step("set_slot", i)
      BY <1>1, <3>1 DEF Slot, Step
    <3> QED
      BY <3>1, <3>2 DEF LiveState
  <2> QED
    BY <2>1, <2>2
<1>4. device' = store[DeviceKey]
  BY SMTT(30), ZenonT(30) DEF EditSetDevice, ApplyDevice, ScheduleSave, storeVars, LiveState
<1> QED
  BY <1>2, <1>3, <1>4, FollowsUnchanged DEF LiveState, DeviceKey

\* An editing call leaves behind what it has stored and not applied yet.
LEMMA LiveBegin ==
  ASSUME IInv, LiveState,
         \/ \E i \in Slot, ch \in Edit : CmdChannelSet(i, ch)
         \/ \E i \in Slot : CmdChannelDisable(i)
         \/ \E d \in Device : SetDevice(d) \/ SetConfig(d)
  PROVE  LiveState'
<1>1. /\ alive = "up" /\ alive' = "up" /\ editor = Rest /\ slots' = slots /\ device' = device
  BY Zenon DEF CmdChannelSet, CmdChannelDisable, SetDevice, SetConfig, CanEdit, channelVars
<1>2. (\A i \in Slot : Follows(i)) /\ device = store[DeviceKey]
  BY <1>1, Zenon DEF LiveState, Rest, Step
<1>3. DOMAIN store = Record
  BY InvParts DEF Whole, StoreType
<1>4. ASSUME NEW i \in Slot, NEW ch, StoreChannel(i, ch) PROVE LiveState'
  <2>1. editor' = Step("set_slot", i) /\ store' = [store EXCEPT ![i] = ch]
    BY <1>4 DEF StoreChannel
  <2>2. \A j \in Slot \ {i} : store'[j] = store[j]
    BY <1>3, <2>1, RecordFacts
  <2>3. store'[DeviceKey] = store[DeviceKey]
    BY <1>3, <2>1, RecordFacts
  <2>4. \A j \in Slot : Follows(j)' \/ editor' = Step("set_slot", j)
    BY <1>1, <1>2, <2>1, <2>2, FollowsUnchanged
  <2> QED
    BY <1>1, <1>2, <2>3, <2>4 DEF LiveState, DeviceKey, Step
<1>5. ASSUME NEW d \in Device, SetDevice(d) \/ SetConfig(d) PROVE LiveState'
  <2>1. store' = [store EXCEPT ![DeviceKey] = d] /\ editor'.step \in {"set_device", "apply"}
    BY <1>5 DEF SetDevice, SetConfig, Step
  <2>2. \A j \in Slot : store'[j] = store[j]
    BY <1>3, <2>1, RecordFacts, SMTT(30), ZenonT(30)
  <2>3. \A j \in Slot : Follows(j)'
    BY <1>1, <1>2, <2>2, FollowsUnchanged
  <2> QED
    BY <1>1, <2>1, <2>3 DEF LiveState
<1> QED
  BY <1>4, <1>5, ZenonT(30), SMTT(30) DEF CmdChannelSet, CmdChannelDisable

\* Every step keeps the live table as close to the store as LiveState says.
LEMMA LiveStep == IInv /\ LiveState /\ [Next]_vars => LiveState'
<1> SUFFICES ASSUME IInv, LiveState, [Next]_vars PROVE LiveState'
  OBVIOUS
<1>1. CASE EditSetSlot \/ ApplySlot
  BY <1>1, LiveSetSlot
<1>2. CASE EditSetDevice \/ ApplyDevice \/ ScheduleSave
  BY <1>2, LiveEdit
<1>3. CASE \/ \E i \in Slot, ch \in Edit : CmdChannelSet(i, ch)
           \/ \E i \in Slot : CmdChannelDisable(i)
           \/ \E d \in Device : SetDevice(d) \/ SetConfig(d)
  BY <1>3, LiveBegin
<1>4. CASE Hang \/ Reset
  BY <1>4, Zenon DEF Hang, Reset, LiveState
<1>5. CASE Boot
  <2>1. alive' = "booting" /\ editor' = Step("apply", 0)
    BY <1>5 DEF Boot
  <2>2. \A i \in Slot : ~(i < 0)
    BY DEF Slot
  <2> QED
    BY <2>1, <2>2 DEF LiveState, Step
<1>6. CASE UNCHANGED <<slots, store, device, alive, editor>>
  BY <1>6, FollowsUnchanged DEF LiveState, DeviceKey, Step
<1>7. CASE SaveStep \/ SaveFail
  BY <1>6, <1>7 DEF SaveStep, SaveStart, SaveRead, SaveWrite, SaveFail, channelVars, storeVars
<1>8. CASE UNCHANGED vars
  BY <1>6, <1>8 DEF vars
<1> QED
  BY <1>1, <1>2, <1>3, <1>4, <1>5, <1>7, <1>8 DEF Next, EditStep

\* meshtastic_config_store_apply_core() and the editing calls: whenever no edit is
\* in progress, the channels and the device role in use are the stored ones, up
\* to the demotion of a stored PRIMARY, whatever was edited, saved and reloaded.
THEOREM LiveIsStored == Spec => []LiveFollowsStore
<1>1. LiveState => LiveFollowsStore
  <2>1. editor = Rest => editor.step = "rest" /\ \A i \in Slot : editor # Step("set_slot", i)
    BY DEF Rest, Step
  <2> QED
    BY <2>1, Zenon DEF LiveState, LiveFollowsStore
<1>2. Spec => []LiveState
  BY Inductive, InitLiveState, LiveStep, PTL DEF Spec
<1> QED
  BY <1>1, <1>2, PTL
-----------------------------------------------------------------------------
(* A reboot restores the table. *)

HasSettings ==
  /\ \A i \in Slot : /\ store[i].has_settings
                     /\ flash[i] # NoRecord => flash[i].message.has_settings
  /\ saving \in Slot /\ buf # NoRecord => buf.message.has_settings

Remembered ==
  expected # NoTable =>
    /\ \A i, j \in Slot :
         expected[i].role = "PRIMARY" /\ expected[j].role = "PRIMARY" => i = j
    /\ alive = "up" => editor = Rest /\ \A i \in Slot : Restored(i)
    /\ alive = "booting" => \A i \in Slot : i < editor.at => Restored(i)

\* The two halves of the strengthening, now and in the next state.
LEMMA RestoreParts ==
  /\ RestoreState <=> HasSettings /\ Remembered
  /\ RestoreState' <=> HasSettings' /\ Remembered'
<1>1. RestoreState <=> HasSettings /\ Remembered
  BY SMTT(30), ZenonT(30) DEF RestoreState, HasSettings, Remembered
<1>2. RestoreState' <=> HasSettings' /\ Remembered'
  BY SMTT(30), ZenonT(30) DEF RestoreState, HasSettings, Remembered
<1> QED
  BY <1>1, <1>2, SMTT(30), ZenonT(30)

\* channel_fixup() keeps the role of a channel that has settings, and the default
\* table consists of such channels.
LEMMA SettingsFacts ==
  /\ \A ch \in Channel : ch.has_settings => Fixed(ch).role = ch.role
  /\ \A i \in Slot : Seed(i).has_settings
<1>1. ASSUME NEW ch \in Channel, ch.has_settings PROVE Fixed(ch).role = ch.role
  <2>1. PICK n \in Name : Fixed(ch) = [ch EXCEPT !.name = n]
    <3>1. PICK e \in Name, z \in Channel :
            Fixed(ch) = [(IF ch.has_settings THEN ch ELSE z) EXCEPT
                           !.name = IF @ = "Default" THEN e ELSE @]
      BY FixedShape
    <3> PICK n : n = IF ch.name = "Default" THEN e ELSE ch.name
      OBVIOUS
    <3>2. n \in Name
      BY DEF Channel
    <3>3. Fixed(ch) = [ch EXCEPT !.name = n]
      BY <1>1, <3>1
    <3> QED
      BY <3>2, <3>3
  <2> QED
    BY <2>1 DEF Channel
<1>2. ASSUME NEW i \in Slot PROVE Seed(i).has_settings
  <2>1. Seed(i) = DefaultTable[i]
    BY RecordFacts DEF Seed
  <2>2. Fixed(ConfigChannel).has_settings /\ DisabledSlot.has_settings
    BY FixedFacts, ChannelsAssumption, Zenon DEF ChannelsAssumption, DisabledSlot
  <2> QED
    BY <2>1, <2>2 DEF DefaultTable
<1> QED
  BY <1>1, <1>2

\* A freshly initialised node has nothing to restore.
LEMMA InitRestoreState == Init => RestoreState
<1> SUFFICES ASSUME Init PROVE RestoreState
  OBVIOUS
<1>1. \A i \in Slot : store[i] = Seed(i) /\ flash[i] = NoRecord
  BY RecordFacts DEF Init
<1>2. buf = NoRecord /\ expected = NoTable
  BY DEF Init
<1> QED
  BY <1>1, <1>2, SettingsFacts DEF RestoreState

\* Every channel on its way from the shell to flash and back has settings.
LEMMA HasSettingsStep ==
  ASSUME IInv, HasSettings, [Next]_vars
  PROVE  HasSettings'
<1>1. Table /\ StoreType /\ ControlType
  BY InvParts DEF Whole
<1>2. CASE UNCHANGED <<store, flash, saving, buf>>
  BY <1>2 DEF HasSettings, Slot
<1>3. ASSUME NEW i \in Slot, NEW ch \in Channel, ch.has_settings, StoreChannel(i, ch),
             UNCHANGED <<flash, saving, buf>>
      PROVE  HasSettings'
  <2>1. \A j \in Slot : store'[j] = IF j = i THEN ch ELSE store[j]
    BY <1>1, <1>3, RecordFacts DEF StoreChannel, StoreType
  <2> QED
    BY <1>3, <2>1 DEF HasSettings, Slot
<1>4. ASSUME NEW i \in Slot, NEW ch \in Edit, CmdChannelSet(i, ch) PROVE HasSettings'
  <2>1. ch \in Channel /\ ch.has_settings
    BY SettingsAssumption DEF SettingsAssumption
  <2> QED
    BY <1>3, <1>4, <2>1 DEF CmdChannelSet, saveVars
<1>5. ASSUME NEW i \in Slot, CmdChannelDisable(i) PROVE HasSettings'
  <2> PICK ch : ch = [slots[i] EXCEPT !.role = "DISABLED", !.has_settings = TRUE]
    OBVIOUS
  <2>1. slots[i] \in Channel
    BY <1>1 DEF Table, ChannelsTypeOK
  <2>2. ch \in Channel /\ ch.has_settings
    BY <2>1, Zenon DEF Channel, Role
  <2> QED
    BY <1>3, <1>5, <2>2, Zenon DEF CmdChannelDisable, saveVars
<1>6. ASSUME NEW d \in Device, SetDevice(d) \/ SetConfig(d) PROVE HasSettings'
  <2>1. store' = [store EXCEPT ![DeviceKey] = d] /\ UNCHANGED <<flash, saving, buf>>
    BY <1>6 DEF SetDevice, SetConfig, saveVars
  <2>2. \A j \in Slot : store'[j] = store[j]
    BY <1>1, <2>1, RecordFacts, Zenon DEF StoreType
  <2> QED
    BY <2>1, <2>2 DEF HasSettings, Slot
<1>7. CASE EditStep
  BY <1>2, <1>7 DEF EditStep, EditSetSlot, EditSetDevice, ApplySlot, ApplyDevice, Hang,
     ScheduleSave, storeVars, saveVars
<1>8. CASE SaveStart \/ SaveFail
  <2>1. store' = store /\ flash' = flash /\ buf' = NoRecord
    BY <1>8, InvParts, Zenon DEF SaveStart, SaveFail, storeVars, Whole, SaveState
  <2> QED
    BY <2>1, Zenon DEF HasSettings, Slot
<1>9. CASE SaveRead
  <2>1. /\ store' = store /\ flash' = flash /\ saving' = saving
        /\ buf'.message = store[saving]
    BY <1>9, EncodedFacts, Zenon DEF SaveRead, storeVars
  <2> QED
    BY <2>1, SMTT(30), ZenonT(30) DEF HasSettings, Slot
<1>10. CASE SaveWrite
  <2>1. /\ store' = store /\ buf # NoRecord /\ buf' = NoRecord /\ saving \in Record
        /\ flash' = [flash EXCEPT ![saving] = buf]
    BY <1>1, <1>10 DEF SaveWrite, storeVars, ControlType
  <2>2. \A j \in Slot : flash'[j] = IF j = saving THEN buf ELSE flash[j]
    BY <1>1, <2>1, RecordFacts DEF StoreType
  <2> QED
    BY <2>1, <2>2 DEF HasSettings, Slot
<1>11. CASE Reset \/ Boot
  <2>1. flash' = flash /\ buf' = NoRecord
    BY <1>11, InvParts DEF Reset, Boot, saveVars, Whole, SaveState
  <2>2. \A j \in Slot : store'[j] = Seed(j) \/ store'[j] = Loaded(j)
    BY <1>11, RecordFacts DEF Reset, Boot, LoadSubtree
  <2>3. \A j \in Slot : Seed(j).has_settings /\ Loaded(j).has_settings
    BY SettingsFacts DEF HasSettings, Loaded, Decodable
  <2> QED
    BY <2>1, <2>2, <2>3, Zenon DEF HasSettings, Slot
<1>12. CASE UNCHANGED vars
  BY <1>2, <1>12 DEF vars
<1> QED
  BY <1>4, <1>5, <1>6, <1>7, <1>8, <1>9, <1>10, <1>11, <1>12 DEF Next, SaveStep

\* apply_core() restores the slot it has reached, and undoes no earlier one
\* unless two PRIMARY channels are stored.
LEMMA SetSlotRestores ==
  ASSUME ChannelsTypeOK, StoreType, store' = store, NEW i \in Slot, SetSlot(i, store[i])
  PROVE  Restored(i)' /\ \A j \in Slot : Restored(j) => Restored(j)'
<1>1. /\ slots \in [Slot -> Channel] /\ \A j \in Slot : store[j] \in Channel
  BY DEF ChannelsTypeOK, StoreType
<1>2. /\ slots'[i] = Fixed(store[i])
      /\ \A j \in Slot \ {i} :
           slots'[j] # slots[j] => store[i].role = "PRIMARY" /\ slots[j].role = "PRIMARY"
  BY <1>1, Zenon DEF SetSlot, NewTable, Demoted
<1>3. Restored(i)'
  BY <1>2, Zenon DEF Restored, Fixed, DisabledSlot, ZeroPsk
<1>4. ASSUME NEW j \in Slot, j # i, Restored(j) PROVE Restored(j)'
  <2>1. CASE slots'[j] = slots[j]
    BY <1>4, <2>1, Zenon DEF Restored, Fixed, DisabledSlot, ZeroPsk, Slot
  <2>2. CASE slots'[j] # slots[j]
    <3>1. store[i].role = "PRIMARY" /\ slots[j].role = "PRIMARY"
      BY <1>2, <1>4, <2>2
    <3>2. store[j].role = "PRIMARY"
      BY <1>1, <1>4, <3>1, FixedTwice, Zenon DEF Restored
    <3> QED
      BY <1>4, <3>1, <3>2 DEF Restored, Slot
  <2> QED
    BY <2>1, <2>2
<1> QED
  BY <1>3, <1>4

\* From a clean power-off to the next edit, boots bring the slots back in order.
LEMMA RememberedStep ==
  ASSUME IInv, Remembered, [Next]_vars
  PROVE  Remembered'
<1>1. Table /\ StoreType /\ ControlType /\ SaveState /\ MaxChannels \in Nat
  BY InvParts, ChannelsAssumption, Zenon DEF Whole, ChannelsAssumption
<1>2. CASE UNCHANGED <<slots, store, expected, alive, editor>>
  <2>1. \A i \in Slot : Restored(i)' <=> Restored(i)
    BY <1>2 DEF Restored, Fixed, DisabledSlot, ZeroPsk, Slot
  <2> QED
    BY <1>2, <2>1 DEF Remembered, Rest, Slot
<1>3. CASE CanEdit
  BY <1>3 DEF CanEdit, Remembered
<1>4. CASE alive = "up" /\ editor # Rest /\ expected' = expected
  BY <1>4, SMTT(30), ZenonT(30) DEF Remembered
<1>5. CASE ApplySlot /\ alive # "up"
  <2> PICK a : a = editor.at
    OBVIOUS
  <2>1. /\ alive = "booting" /\ alive' = "booting" /\ store' = store /\ expected' = expected
        /\ SetSlot(a, store[a]) /\ editor' = Step("apply", a + 1)
        /\ a \in 0 .. MaxChannels /\ a < MaxChannels
    BY <1>1, <1>5 DEF ApplySlot, storeVars, ControlType
  <2>2. a \in Slot
    BY <1>1, <2>1 DEF Slot
  <2>3. Restored(a)' /\ \A j \in Slot : Restored(j) => Restored(j)'
    BY <1>1, <2>1, <2>2, SetSlotRestores DEF Table
  <2>4. \A i \in Slot : i < editor'.at => i < a \/ i = a
    BY <2>1, <2>2 DEF Step, Slot
  <2> QED
    BY <2>1, <2>3, <2>4 DEF Remembered, Slot
<1>6. CASE ApplyDevice /\ alive # "up"
  <2>1. /\ alive = "booting" /\ alive' = "up" /\ editor' = Rest /\ expected' = expected
        /\ slots' = slots /\ store' = store /\ editor.at = MaxChannels
    BY <1>6 DEF ApplyDevice, channelVars, Step
  <2>2. \A i \in Slot : i < editor.at
    BY <1>1, <2>1 DEF Slot
  <2>3. \A i \in Slot : Restored(i)' <=> Restored(i)
    BY <2>1, Zenon DEF Restored, Fixed, DisabledSlot, ZeroPsk, Slot
  <2> QED
    BY <2>1, <2>2, <2>3 DEF Remembered, Rest, Slot
<1>7. CASE Hang
  BY <1>7 DEF Hang, Remembered, Slot
<1>8. CASE Reset
  <2>1. alive' = "off" /\ expected' \in {slots, NoTable, expected}
    BY <1>8 DEF Reset
  <2>2. \A i, j \in Slot : slots[i].role = "PRIMARY" /\ slots[j].role = "PRIMARY" => i = j
    BY <1>1 DEF Table, OnePrimary
  <2> QED
    BY <2>1, <2>2 DEF Remembered, Slot
<1>9. CASE Boot
  <2>1. alive' = "booting" /\ expected' = expected /\ editor'.at = 0
    BY <1>9, Zenon DEF Boot, Step
  <2>2. \A i \in Slot : ~(i < 0)
    BY DEF Slot
  <2> QED
    BY <2>1, <2>2 DEF Remembered, Slot
<1>10. CASE SaveStep \/ SaveFail
  BY <1>2, <1>10 DEF SaveStep, SaveStart, SaveRead, SaveWrite, SaveFail, channelVars, storeVars
<1>11. CASE EditSetSlot \/ EditSetDevice \/ ScheduleSave
  <2>1. alive = "up" /\ editor.step # "rest" /\ expected' = expected
    BY <1>11, Zenon DEF EditSetSlot, EditSetDevice, ScheduleSave
  <2> QED
    BY <1>4, <2>1 DEF Rest
<1>12. CASE (ApplySlot \/ ApplyDevice) /\ alive = "up"
  <2>1. editor.step # "rest" /\ expected' = expected
    BY <1>12, SMTT(30), ZenonT(30) DEF ApplySlot, ApplyDevice, Step
  <2> QED
    BY <1>4, <1>12, <2>1 DEF Rest
<1>13. CASE \/ \E i \in Slot, ch \in Edit : CmdChannelSet(i, ch)
            \/ \E i \in Slot : CmdChannelDisable(i)
            \/ \E d \in Device : SetDevice(d) \/ SetConfig(d)
  BY <1>3, <1>13, Zenon DEF CmdChannelSet, CmdChannelDisable, SetDevice, SetConfig
<1>14. CASE UNCHANGED vars
  BY <1>2, <1>14 DEF vars
<1> QED
  BY <1>5, <1>6, <1>7, <1>8, <1>9, <1>10, <1>11, <1>12, <1>13, <1>14 DEF Next, EditStep

\* meshtastic_settings_load() and apply_core(): a table that was in flash in full
\* when the power went is the live table again after the boot, however many
\* resets interrupt it, unless two PRIMARY channels had been stored.
THEOREM RebootRestoresTable == Spec => []RebootRestores
<1>1. IInv /\ RestoreState => RebootRestores
  <2> SUFFICES ASSUME IInv, HasSettings, Remembered, alive = "up", expected # NoTable,
                      \A i \in Slot : expected[i] = Fixed(store[i])
               PROVE  slots = expected
    BY RestoreParts, SMTT(30), ZenonT(30) DEF RebootRestores
  <2>1. /\ slots \in [Slot -> Channel] /\ expected \in [Slot -> Channel]
        /\ \A i \in Slot : store[i] \in Channel
    BY InvParts, Zenon DEF Whole, Table, ChannelsTypeOK, ControlType, StoreType
  <2>2. \A i \in Slot : expected[i].role = store[i].role
    BY <2>1, SettingsFacts DEF HasSettings
  <2>3. ASSUME NEW i \in Slot PROVE slots[i] = expected[i]
    BY <2>2 DEF Remembered, Restored
  <2> QED
    BY <2>1, <2>3
<1>2. Spec => []RestoreState
  <2>1. IInv /\ RestoreState /\ [Next]_vars => RestoreState'
    BY RestoreParts, HasSettingsStep, RememberedStep
  <2> QED
    BY <2>1, Inductive, InitRestoreState, PTL DEF Spec
<1> QED
  BY <1>1, <1>2, Inductive, PTL
-----------------------------------------------------------------------------
(* What a reboot makes of a table with demoted slots. *)

\* channel_fixup() leaves the settings of a channel alone but for the legacy name,
\* whatever its role.
LEMMA FixedSettings ==
  ASSUME NEW ch \in Channel, ch.has_settings
  PROVE  /\ SameSettings(Fixed(ch), Fixed(ch))
         /\ SameSettings(Fixed([ch EXCEPT !.role = "SECONDARY"]), Fixed(ch))
<1>1. PICK e \in Name, z \in Channel :
        \A x \in Channel :
          Fixed(x) = [(IF x.has_settings THEN x ELSE z) EXCEPT
                        !.name = IF @ = "Default" THEN e ELSE @]
  BY FixedShape
<1> PICK n : n = IF ch.name = "Default" THEN e ELSE ch.name
  OBVIOUS
<1>2. ASSUME NEW x \in Channel, x.has_settings, x.name = ch.name, x.psk = ch.psk
      PROVE  Fixed(x).has_settings /\ Fixed(x).name = n /\ Fixed(x).psk = ch.psk
  <2>1. Fixed(x) = [x EXCEPT !.name = n]
    BY <1>1, <1>2
  <2> QED
    BY <1>2, <2>1 DEF Channel
<1> PICK d : d = [ch EXCEPT !.role = "SECONDARY"]
  BY Zenon
<1>3. d \in Channel /\ d.has_settings /\ d.name = ch.name /\ d.psk = ch.psk
  BY DEF Channel, Role
<1> QED
  BY <1>2, <1>3, Zenon DEF SameSettings

\* A live slot differs from the stored one, fixed up, by its role at most.
LEMMA FollowsSame ==
  ASSUME StoreType, NEW i \in Slot, store[i].has_settings, Follows(i)
  PROVE  SameSettings(slots[i], Fixed(store[i]))
<1>1. store[i] \in Channel
  BY DEF StoreType
<1> QED
  BY <1>1, FixedSettings, Zenon DEF Follows

\* What a boot would load is given by the flash.
LEMMA LoadedKept ==
  ASSUME flash' = flash
  PROVE  \A i \in Slot : Loaded(i)' = Loaded(i) /\ Fixed(Loaded(i))' = Fixed(Loaded(i))
<1>1. ASSUME NEW i \in Slot PROVE Loaded(i)' = Loaded(i)
  BY <1>1, Zenon DEF Loaded, Decodable, Seed, DefaultTable, Version
<1>2. ASSUME NEW i \in Slot PROVE Fixed(Loaded(i))' = Fixed(Loaded(i))
  <2>1. Fixed(Loaded(i))' = Fixed(Loaded(i)')
    BY Zenon DEF Fixed, DisabledSlot, ZeroPsk
  <2> QED
    BY <1>1, <2>1, Zenon
<1> QED
  BY <1>1, <1>2

\* Which slot is the last one stored as primary is a matter of the two tables.
LEMMA LastBelowKept ==
  ASSUME slots' = slots, store' = store
  PROVE  \A n \in Nat, i \in Slot : LastBelow(n, i)' <=> LastBelow(n, i)
  BY Zenon DEF LastBelow, Slot

\* apply_core() makes the slot it has reached primary if it is stored as such,
\* and takes the role from the slot before it that had it.
LEMMA SetSlotTakesOver ==
  ASSUME ChannelsTypeOK, StoreType, HasSettings, MaxChannels \in Nat, store' = store,
         NEW a \in Slot, SetSlot(a, store[a]),
         \A i \in Slot : i < a => LastBelow(a, i)
  PROVE  \A i \in Slot : i < a + 1 => LastBelow(a + 1, i)'
<1>1. /\ slots \in [Slot -> Channel] /\ \A j \in Slot : store[j] \in Channel
      /\ Slot \subseteq Nat
  BY DEF ChannelsTypeOK, StoreType, Slot
<1>2. /\ slots'[a] = Fixed(store[a])
      /\ \A j \in Slot \ {a} :
           slots'[j] = IF store[a].role = "PRIMARY" /\ slots[j].role = "PRIMARY"
                         THEN Fixed([slots[j] EXCEPT !.role = "SECONDARY"])
                         ELSE slots[j]
  BY <1>1, Zenon DEF SetSlot, NewTable, Demoted
<1>3. slots'[a].role = store[a].role
  BY <1>1, <1>2, SettingsFacts DEF HasSettings
<1>4. ASSUME NEW i \in Slot, i < a PROVE LastBelow(a + 1, i)'
  <2>1. i # a /\ \A j \in Slot : i < j /\ j < a + 1 <=> (i < j /\ j < a) \/ j = a
    BY <1>1, <1>4
  <2>2. CASE store[a].role = "PRIMARY"
    <3>1. slots'[i].role # "PRIMARY"
      <4>1. CASE slots[i].role = "PRIMARY"
        <5>1. PICK d : d = [slots[i] EXCEPT !.role = "SECONDARY"]
          BY Zenon
        <5>2. d \in Channel /\ d.role = "SECONDARY"
          BY <1>1, <5>1 DEF Channel, Role
        <5>3. slots'[i] = Fixed(d)
          BY <1>2, <2>1, <2>2, <4>1, <5>1, Zenon
        <5>4. Fixed(d).role # "PRIMARY"
          BY <5>2, FixedTwice
        <5> QED BY <5>3, <5>4
      <4>2. CASE slots[i].role # "PRIMARY"
        BY <1>2, <2>1, <4>2, Zenon
      <4> QED BY <4>1, <4>2
    <3> QED BY <2>1, <2>2, <3>1 DEF LastBelow
  <2>3. CASE store[a].role # "PRIMARY"
    <3>1. slots'[i] = slots[i]
      BY <1>2, <2>1, <2>3, Zenon
    <3> QED BY <1>4, <2>1, <2>3, <3>1 DEF LastBelow
  <2> QED BY <2>2, <2>3
<1>5. LastBelow(a + 1, a)'
  <2>1. \A j \in Slot : ~(a < j /\ j < a + 1)
    BY <1>1
  <2> QED BY <1>3, <2>1 DEF LastBelow
<1>6. \A i \in Slot : i < a + 1 => i < a \/ i = a
  BY <1>1
<1> QED BY <1>4, <1>5, <1>6

\* From a clean power-off to the next edit nothing is saved, and boots give the
\* slots the roles of the store.
LEMMA ResumeStep ==
  ASSUME IInv, LiveState, HasSettings, Remembered, ResumeState, [Next]_vars
  PROVE  ResumeState'
<1>1. Table /\ StoreType /\ ControlType /\ SaveState /\ MaxChannels \in Nat
  BY InvParts, ChannelsAssumption, Zenon DEF Whole, ChannelsAssumption
<1>2. CASE UNCHANGED <<slots, store, flash, expected, alive, editor, timer, saving>>
  <2>1. editor.at \in Nat
    BY <1>1 DEF ControlType
  <2> QED
    BY <1>1, <1>2, <2>1, LoadedKept, LastBelowKept DEF ResumeState, SameSettings
<1>3. CASE CanEdit
  BY <1>3 DEF CanEdit, ResumeState
<1>4. CASE alive = "up" /\ editor # Rest /\ expected' = expected
  BY <1>4 DEF Remembered, ResumeState
<1>5. CASE ApplySlot /\ alive # "up"
  <2> PICK a : a = editor.at
    OBVIOUS
  <2>1. /\ alive = "booting" /\ alive' = "booting" /\ UNCHANGED <<store, flash, expected>>
        /\ SetSlot(a, store[a]) /\ editor' = Step("apply", a + 1) /\ UNCHANGED <<timer, saving>>
        /\ a \in 0 .. MaxChannels /\ a < MaxChannels
    BY <1>1, <1>5 DEF ApplySlot, storeVars, saveVars, ControlType
  <2>2. a \in Slot /\ editor'.at = a + 1
    BY <1>1, <2>1 DEF Slot, Step
  <2>3. ASSUME expected # NoTable
        PROVE  \A i \in Slot : i < a + 1 => LastBelow(a + 1, i)'
    BY <1>1, <2>1, <2>2, <2>3, SetSlotTakesOver DEF Table, ResumeState
  <2> QED
    BY <2>1, <2>2, <2>3, LoadedKept DEF ResumeState, SameSettings
<1>6. CASE ApplyDevice /\ alive # "up"
  <2>1. /\ alive = "booting" /\ alive' = "up" /\ UNCHANGED <<expected, flash, timer, saving>>
        /\ slots' = slots /\ store'= store /\ editor.at = MaxChannels
    BY <1>6 DEF ApplyDevice, channelVars, saveVars, Step
  <2>2. \A i \in Slot : i < MaxChannels
    BY <1>1 DEF Slot
  <2> QED
    BY <1>1, <2>1, <2>2, LoadedKept, LastBelowKept DEF ResumeState, SameSettings
<1>7. CASE Hang
  <2>1. alive' = "hung" /\ UNCHANGED <<expected, flash, timer, saving>>
    BY <1>7 DEF Hang, saveVars
  <2> QED
    BY <2>1, LoadedKept DEF ResumeState, SameSettings
<1>8. CASE Reset
  <2>1. /\ alive' = "off" /\ ~timer' /\ saving' = Idle /\ flash' = flash
        /\ (expected' = slots /\ Clean) \/ expected' \in {NoTable, expected}
    BY <1>8, Zenon DEF Reset
  <2>2. ASSUME Clean, NEW i \in Slot PROVE SameSettings(slots[i], Fixed(Loaded(i)))
    <3>1. Follows(i) /\ store[i] = Loaded(i)
      BY <2>2, RecordFacts DEF Clean, LiveState, Rest, Step, Dirty
    <3>2. SameSettings(slots[i], Fixed(store[i]))
      BY <1>1, <3>1, FollowsSame DEF HasSettings
    <3> QED
      BY <3>1, <3>2
  <2> QED
    BY <2>1, <2>2, LoadedKept DEF ResumeState, SameSettings
<1>9. CASE Boot
  <2>1. /\ alive' = "booting" /\ editor'.at = 0 /\ UNCHANGED <<expected, flash, timer, saving>>
        /\ store' = LoadSubtree
    BY <1>9, Zenon DEF Boot, Step, saveVars
  <2>2. \A i \in Slot : ~(i < 0) /\ store'[i] = Loaded(i)
    BY <2>1, RecordFacts DEF Slot, LoadSubtree
  <2> QED
    BY <2>1, <2>2, LoadedKept DEF ResumeState, SameSettings
<1>10. CASE SaveStart
  BY <1>10 DEF SaveStart, ResumeState
<1>11. CASE SaveRead \/ SaveWrite \/ SaveFail
  BY <1>11 DEF SaveRead, SaveWrite, SaveFail, ResumeState
<1>12. CASE EditSetSlot \/ EditSetDevice \/ ScheduleSave
  <2>1. alive = "up" /\ editor.step # "rest" /\ expected' = expected
    BY <1>12, Zenon DEF EditSetSlot, EditSetDevice, ScheduleSave
  <2> QED
    BY <1>4, <2>1 DEF Rest
<1>13. CASE (ApplySlot \/ ApplyDevice) /\ alive = "up"
  <2>1. editor.step # "rest" /\ expected' = expected
    BY <1>13, SMTT(30), ZenonT(30) DEF ApplySlot, ApplyDevice, Step
  <2> QED
    BY <1>4, <1>13, <2>1 DEF Rest
<1>14. CASE \/ \E i \in Slot, ch \in Edit : CmdChannelSet(i, ch)
            \/ \E i \in Slot : CmdChannelDisable(i)
            \/ \E d \in Device : SetDevice(d) \/ SetConfig(d)
  BY <1>3, <1>14, Zenon DEF CmdChannelSet, CmdChannelDisable, SetDevice, SetConfig
<1>15. CASE UNCHANGED vars
  BY <1>2, <1>15 DEF vars, saveVars, channelVars, storeVars
<1> QED
  BY <1>5, <1>6, <1>7, <1>8, <1>9, <1>10, <1>11, <1>12, <1>13, <1>14, <1>15
     DEF Next, EditStep, SaveStep

\* meshtastic_config_store_apply_core() after a reset: the channels come back as
\* they were saved, and the role PRIMARY goes to the last slot that has it in the
\* store, for every number of channels and sequence of edits.
THEOREM LastPrimaryComesBack == Spec => []LastPrimaryWins
<1>1. IInv /\ LiveState /\ HasSettings /\ ResumeState /\ Remembered => LastPrimaryWins
  <2> SUFFICES ASSUME IInv, LiveState, HasSettings, ResumeState, Remembered,
                      alive = "up", expected # NoTable, NEW i \in Slot
               PROVE  /\ slots[i] = [expected[i] EXCEPT !.role = slots[i].role]
                      /\ slots[i].role = "PRIMARY" <=>
                           /\ store[i].role = "PRIMARY"
                           /\ \A j \in Slot : j > i => store[j].role # "PRIMARY"
    BY DEF LastPrimaryWins
  <2>1. /\ slots[i] \in Channel /\ expected[i] \in Channel /\ StoreType
        /\ editor = Rest /\ store[i].has_settings
    BY InvParts, Zenon DEF Whole, Table, ChannelsTypeOK, ControlType, Remembered, HasSettings
  <2>2. Follows(i)
    BY <2>1 DEF LiveState, Rest, Step
  <2>3. SameSettings(slots[i], Fixed(store[i]))
    BY <2>1, <2>2, FollowsSame
  <2>4. SameSettings(expected[i], Fixed(store[i]))
    BY Zenon DEF ResumeState
  <2>5. slots[i] = [expected[i] EXCEPT !.role = slots[i].role]
    BY <2>1, <2>3, <2>4 DEF SameSettings, Channel
  <2>6. LastBelow(MaxChannels, i)
    BY DEF ResumeState
  <2>7. MaxChannels \in Nat
    BY ChannelsAssumption, Zenon DEF ChannelsAssumption
  <2>8. \A j \in Slot : j > i <=> i < j /\ j < MaxChannels
    BY <2>7 DEF Slot
  <2> QED
    BY <2>5, <2>6, <2>8 DEF LastBelow
<1>2. Init => ResumeState
  BY DEF Init, ResumeState
<1>3. Spec => [](IInv /\ LiveState /\ HasSettings /\ Remembered /\ ResumeState)
  BY <1>2, Inductive, InitLiveState, LiveStep, InitRestoreState, RestoreParts,
     HasSettingsStep, RememberedStep, ResumeStep, PTL DEF Spec
<1> QED
  BY <1>1, <1>3, PTL
=============================================================================
