------------------------------- MODULE Settings -------------------------------
(*****************************************************************************)
(* The life of a configuration: the shell edits it, meshtastic_config_store.c*)
(* keeps it in RAM, meshtastic_settings.c saves it to flash one record at a  *)
(* time from a delayed work item, and meshtastic_init() reads it back.       *)
(*                                                                           *)
(* Three activities interleave: the one thread that edits (the shell), the   *)
(* system work queue that saves, and power failures.  The records are the    *)
(* channel slots 0 .. MaxChannels - 1 followed by the device configuration;  *)
(* the owner record and the other configuration records behave like the      *)
(* latter.  No code in the repository writes the store from two threads.     *)
(*****************************************************************************)
EXTENDS Channels

CONSTANTS
  Edit,             \* channels the shell user asks for
  Device, Device0,  \* device configurations, and the built-in one
  NoRecord,         \* a record that is not in flash
  NoTable,
  MaxEdits, MaxResets   \* bounds of the model

VARIABLES
  store,            \* store.channels and store.configs
  device,           \* device_role and rebroadcast_mode in use
  flash,            \* the records under "meshtastic" in flash
  alive,            \* "off", "booting", "up", "hung" (a call that never returns)
  editor,           \* where the editing thread is
  timer,            \* save_work is scheduled or queued
  saving,           \* the record the save has reached, or Idle
  buf,              \* the record read by export_one(), or NoRecord
  failed,           \* history: a save was cut short by an error
  expected,         \* history: the table at the last clean power-off
  edits, resets     \* counters of the bounds

storeVars == <<store, device>>
saveVars == <<timer, saving, buf, failed>>
vars == <<slots, hashes, primary_index, ch_hash, store, device, flash, alive, editor,
          timer, saving, buf, failed, expected, edits, resets>>

DeviceKey == MaxChannels
Record == 0 .. MaxChannels
Idle == -1

ASSUME SettingsAssumption ==
  /\ Edit \subseteq Channel
  /\ \A ch \in Edit : ch.has_settings
  /\ Device0 \in Device
  /\ NoRecord \notin [version : Nat, message : Channel \cup Device]
  /\ NoTable \notin [Slot -> Channel]
  /\ MaxEdits \in Nat /\ MaxResets \in Nat

Rest == [step |-> "rest", at |-> 0]
Step(s, i) == [step |-> s, at |-> i]

-----------------------------------------------------------------------------
\* meshtastic_config_store_seed(): the store mirrors the default table.
Seed(k) == IF k = DeviceKey THEN Device0 ELSE DefaultTable[k]

\* encode_record(): the message with a header that names the format.
Version == 1

Encoded(message) == [version |-> Version, message |-> message]

\* decode_record() refuses records of another format.
Decodable(record) == record # NoRecord /\ record.version = Version

\* meshtastic_config_store_setting_set(): a record that can be decoded replaces
\* the seeded one; settings_set_cb() ignores any other.
Loaded(k) == IF Decodable(flash[k]) THEN flash[k].message ELSE Seed(k)

\* settings_load_subtree() passes every record in flash to settings_set_cb().
LoadSubtree == [k \in Record |-> Loaded(k)]

Init ==
  /\ ChannelsInit
  /\ store = [k \in Record |-> Seed(k)]
  /\ device = Device0
  /\ flash = [k \in Record |-> NoRecord]
  /\ alive = "up"
  /\ editor = Rest
  /\ timer = FALSE /\ saving = Idle /\ buf = NoRecord /\ failed = FALSE
  /\ expected = NoTable
  /\ edits = 0 /\ resets = 0

-----------------------------------------------------------------------------
(* Editing *)

CanEdit ==
  /\ alive = "up" /\ editor = Rest /\ edits < MaxEdits
  /\ edits' = edits + 1
  /\ expected' = NoTable

\* meshtastic_config_store_set_channel(), under the store's lock
StoreChannel(i, ch) ==
  /\ store' = [store EXCEPT ![i] = ch]
  /\ editor' = Step("set_slot", i)

\* "meshtastic channel set" and "... disable"
CmdChannelSet(i, ch) ==
  /\ CanEdit
  /\ StoreChannel(i, ch)
  /\ UNCHANGED <<channelVars, device, flash, alive, saveVars, resets>>

CmdChannelDisable(i) ==
  /\ CanEdit
  /\ StoreChannel(i, [slots[i] EXCEPT !.role = "DISABLED", !.has_settings = TRUE])
  /\ UNCHANGED <<channelVars, device, flash, alive, saveVars, resets>>

\* ... then meshtastic_channels_set_slot(), outside the lock
EditSetSlot ==
  /\ alive = "up" /\ editor.step = "set_slot"
  /\ SetSlot(editor.at, store[editor.at])
  /\ editor' = Step("schedule", 0)
  /\ UNCHANGED <<storeVars, flash, alive, saveVars, expected, edits, resets>>

\* meshtastic_config_store_set_device_role() and _set_rebroadcast_mode()
SetDevice(d) ==
  /\ CanEdit
  /\ store' = [store EXCEPT ![DeviceKey] = d]
  /\ editor' = Step("set_device", 0)
  /\ UNCHANGED <<channelVars, device, flash, alive, saveVars, resets>>

EditSetDevice ==
  /\ alive = "up" /\ editor.step = "set_device"
  /\ device' = store[DeviceKey]
  /\ editor' = Step("schedule", 0)
  /\ UNCHANGED <<channelVars, store, flash, alive, saveVars, expected, edits, resets>>

\* Mutant: the stored configuration is not applied.
SetConfigMutant(d) ==
  /\ CanEdit
  /\ store' = [store EXCEPT ![DeviceKey] = d]
  /\ editor' = Step("schedule", 0)
  /\ UNCHANGED <<channelVars, device, flash, alive, saveVars, resets>>

\* meshtastic_config_store_set_config(): the whole store is applied again
SetConfig(d) ==
  /\ CanEdit
  /\ store' = [store EXCEPT ![DeviceKey] = d]
  /\ editor' = Step("apply", 0)
  /\ UNCHANGED <<channelVars, device, flash, alive, saveVars, resets>>

\* Mutant: the slots are applied from the last to the first.
ApplySlotMutant ==
  /\ alive \in {"up", "booting"} /\ editor.step = "apply" /\ editor.at < MaxChannels
  /\ SetSlot(MaxChannels - 1 - editor.at, store[MaxChannels - 1 - editor.at])
  /\ editor' = Step("apply", editor.at + 1)
  /\ UNCHANGED <<storeVars, flash, alive, saveVars, expected, edits, resets>>

\* meshtastic_config_store_apply_core(): every slot in order, ...
ApplySlot ==
  /\ alive \in {"up", "booting"} /\ editor.step = "apply" /\ editor.at < MaxChannels
  /\ SetSlot(editor.at, store[editor.at])
  /\ editor' = Step("apply", editor.at + 1)
  /\ UNCHANGED <<storeVars, flash, alive, saveVars, expected, edits, resets>>

\* ... then the device configuration.  At boot nothing needs saving.
ApplyDevice ==
  /\ alive \in {"up", "booting"} /\ editor = Step("apply", MaxChannels)
  /\ device' = store[DeviceKey]
  /\ editor' = IF alive = "up" THEN Step("schedule", 0) ELSE Rest
  /\ alive' = "up"
  /\ UNCHANGED <<channelVars, store, flash, saveVars, expected, edits, resets>>

\* The thread is lost in channel_get_key().
Hang ==
  /\ \/ alive = "up" /\ editor.step = "set_slot"
     \/ alive \in {"up", "booting"} /\ editor.step = "apply" /\ editor.at < MaxChannels
  /\ SetSlotDiverges(editor.at, store[editor.at])
  /\ alive' = "hung"
  /\ UNCHANGED <<channelVars, storeVars, flash, editor, saveVars, expected, edits, resets>>

\* Mutant: the save is not rescheduled while one is running.
ScheduleSaveMutant ==
  /\ alive = "up" /\ editor.step = "schedule"
  /\ timer' = (timer \/ saving = Idle)
  /\ editor' = Rest
  /\ UNCHANGED <<channelVars, storeVars, flash, alive, saving, buf, failed,
                 expected, edits, resets>>

\* meshtastic_settings_schedule_save()
ScheduleSave ==
  /\ alive = "up" /\ editor.step = "schedule"
  /\ timer' = TRUE
  /\ editor' = Rest
  /\ UNCHANGED <<channelVars, storeVars, flash, alive, saving, buf, failed,
                 expected, edits, resets>>

-----------------------------------------------------------------------------
(* Saving: save_work_handler(), settings_export_cb() and
   meshtastic_config_store_export() on the system work queue. *)

SaveStart ==
  /\ alive = "up" /\ timer /\ saving = Idle
  /\ timer' = FALSE /\ saving' = 0 /\ failed' = FALSE
  /\ UNCHANGED <<channelVars, storeVars, flash, alive, editor, buf, expected, edits, resets>>

\* export_one(): meshtastic_config_store_setting_get() under the lock ...
SaveRead ==
  /\ alive = "up" /\ saving # Idle /\ buf = NoRecord
  /\ buf' = Encoded(store[saving])
  /\ UNCHANGED <<channelVars, storeVars, flash, alive, editor, timer, saving, failed,
                 expected, edits, resets>>

\* Mutant: the export loop does not end.
NextRecordNoEnd(k) == k + 1

\* Mutant: the export loop stops one record early.
NextRecordMutant(k) == IF k + 1 >= DeviceKey THEN Idle ELSE k + 1

NextRecord(k) == IF k = DeviceKey THEN Idle ELSE k + 1

\* ... and the write of the encoded record, outside it.
SaveWrite ==
  /\ alive = "up" /\ saving # Idle /\ buf # NoRecord
  /\ flash' = [flash EXCEPT ![saving] = buf]
  /\ buf' = NoRecord
  /\ saving' = NextRecord(saving)
  /\ UNCHANGED <<channelVars, storeVars, alive, editor, timer, failed, expected, edits, resets>>

\* An error stops the export and is only logged: nothing is tried again.
SaveFail ==
  /\ alive = "up" /\ saving # Idle /\ buf # NoRecord
  /\ saving' = Idle /\ buf' = NoRecord /\ failed' = TRUE
  /\ UNCHANGED <<channelVars, storeVars, flash, alive, editor, timer, expected, edits, resets>>

-----------------------------------------------------------------------------
(* Power *)

Dirty(k) == store[k] # Loaded(k)

Clean == alive = "up" /\ editor = Rest /\ \A k \in Record : ~Dirty(k)

\* A reset loses everything but the flash.
Reset ==
  /\ alive # "off" /\ resets < MaxResets
  /\ resets' = resets + 1
  /\ expected' = IF Clean /\ expected = NoTable THEN slots
                 ELSE IF alive = "up" /\ ~Clean THEN NoTable ELSE expected
  /\ alive' = "off"
  /\ InitFromConfig
  /\ store' = [k \in Record |-> Seed(k)] /\ device' = Device0
  /\ editor' = Rest
  /\ timer' = FALSE /\ saving' = Idle /\ buf' = NoRecord /\ failed' = FALSE
  /\ UNCHANGED <<flash, edits>>

\* Mutant: the records are loaded and not applied.
BootMutant ==
  /\ alive = "off"
  /\ store' = LoadSubtree
  /\ alive' = "booting" /\ editor' = Step("apply", MaxChannels)
  /\ UNCHANGED <<channelVars, device, flash, saveVars, expected, edits, resets>>

\* meshtastic_init(): defaults, seed and load; applying them follows.
Boot ==
  /\ alive = "off"
  /\ store' = LoadSubtree
  /\ alive' = "booting" /\ editor' = Step("apply", 0)
  /\ UNCHANGED <<channelVars, device, flash, saveVars, expected, edits, resets>>

\* The steps of the editing thread and of the work queue.
EditStep ==
  EditSetSlot \/ EditSetDevice \/ ApplySlot \/ ApplyDevice \/ Hang \/ ScheduleSave

SaveStep == SaveStart \/ SaveRead \/ SaveWrite

Next ==
  \/ \E i \in Slot, ch \in Edit : CmdChannelSet(i, ch)
  \/ \E i \in Slot : CmdChannelDisable(i)
  \/ \E d \in Device : SetDevice(d) \/ SetConfig(d)
  \/ EditStep \/ SaveStep \/ SaveFail
  \/ Reset \/ Boot

Spec == Init /\ [][Next]_vars

\* The shell thread and the work queue run on; resets and errors need not come.
Fairness == WF_vars(EditStep) /\ WF_vars(SaveStep) /\ WF_vars(Boot)

FairSpec == Spec /\ Fairness

-----------------------------------------------------------------------------
RecordOf(S) == [version : {Version}, message : S]

(* The type invariant of the live table, the store, the flash and the record
   that is being saved. *)
TypeOK ==
  /\ ChannelsTypeOK
  /\ DOMAIN store = Record /\ DOMAIN flash = Record
  /\ \A i \in Slot : store[i] \in Channel /\ flash[i] \in RecordOf(Channel) \cup {NoRecord}
  /\ store[DeviceKey] \in Device /\ flash[DeviceKey] \in RecordOf(Device) \cup {NoRecord}
  /\ device \in Device
  /\ alive \in {"off", "booting", "up", "hung"}
  /\ editor \in [step : {"rest", "set_slot", "set_device", "apply", "schedule"},
                 at : 0 .. MaxChannels]
  /\ timer \in BOOLEAN /\ failed \in BOOLEAN
  /\ saving \in Record \cup {Idle}
  /\ buf \in RecordOf(Channel) \cup RecordOf(Device) \cup {NoRecord}
  /\ expected \in [Slot -> Channel] \cup {NoTable}
  /\ edits \in 0 .. MaxEdits /\ resets \in 0 .. MaxResets

(* Every change made by an editing call is on its way to flash: a record that
   differs from what a reload would give is about to be scheduled, is
   scheduled, or lies ahead of the save in progress with its present value.
   Edits that land between the read and the write of export_one(), or behind
   a running save, are the cases that could be forgotten. *)
DirtyIsScheduled ==
  \A k \in Record :
    alive = "up" /\ ~failed /\ Dirty(k) =>
      \/ editor # Rest
      \/ timer
      \/ saving # Idle /\ (saving < k \/ (saving = k /\ buf \in {NoRecord, Encoded(store[k])}))

\* The live slot is the stored one, fixed up, or the stored PRIMARY demoted.
Follows(i) ==
  \/ slots[i] = Fixed(store[i])
  \/ /\ store[i].role = "PRIMARY" /\ slots[i].role = "SECONDARY"
     /\ slots[i] = Fixed([store[i] EXCEPT !.role = "SECONDARY"])

(* Outside an edit the live table is the stored one, fixed up, except that a
   stored PRIMARY may have been demoted in the live table. *)
LiveFollowsStore ==
  alive = "up" /\ editor = Rest =>
    /\ \A i \in Slot : Follows(i)
    /\ device = store[DeviceKey]

(* A table that was saved in full, and in which no slot was demoted behind the
   store's back, comes back unchanged after a reset, however often the reset
   interrupts the boot itself. *)
RebootRestores ==
  alive = "up" /\ expected # NoTable /\ (\A i \in Slot : expected[i] = Fixed(store[i]))
    => slots = expected

(* A demotion changes the live table and not the store.  What comes back is then
   not the table at the power-off, but only roles differ: the last slot that is
   PRIMARY in the store is primary again, whichever slot was. *)
LastPrimaryWins ==
  alive = "up" /\ expected # NoTable =>
    \A i \in Slot :
      /\ slots[i] = [expected[i] EXCEPT !.role = slots[i].role]
      /\ slots[i].role = "PRIMARY" <=>
           store[i].role = "PRIMARY" /\ \A j \in Slot : j > i => store[j].role # "PRIMARY"

(* "Channels survive a reboot" without that restriction: after channels were set
   by the shell and saved in full, a node starts up again, with the same table. *)
ChannelsSurviveReboot ==
  expected # NoTable => alive # "hung" /\ (alive = "up" => slots = expected)

(* Once the edits stop, everything changed is eventually in flash, unless a save
   fails or the node hangs: neither a save that runs while an edit is made nor
   an edit that pushes the save back leaves a record behind for good. *)
EditsReachFlash ==
  (\E k \in Record : Dirty(k))
    ~> ((\A k \in Record : ~Dirty(k)) \/ failed \/ alive = "hung")
-----------------------------------------------------------------------------
(* What makes the safety properties inductive: the save in progress holds the
   present value of its record unless another save will follow, and a boot
   starts from what is in flash. *)
SaveState ==
  /\ editor.step = "set_slot" => editor.at \in Slot
  /\ saving = Idle => buf = NoRecord
  /\ saving # Idle => ~failed /\ alive \in {"up", "hung"}
  /\ alive = "booting" => editor.step = "apply" /\ \A k \in Record : ~Dirty(k)
  /\ buf # NoRecord =>
       /\ buf \in RecordOf(IF saving = DeviceKey THEN Device ELSE Channel)
       /\ buf # Encoded(store[saving]) => editor # Rest \/ timer \/ alive = "hung"

IInv == TypeOK /\ SaveState /\ OnePrimary /\ OwnHashCurrent /\ DirtyIsScheduled

(* What makes LiveFollowsStore inductive: an edit leaves at most its own slot
   behind, apply_core() at boot has brought the slots before editor.at up to
   date, and only an edit or an apply in progress leaves the device behind. *)
LiveState ==
  /\ alive = "up" => \A i \in Slot : Follows(i) \/ editor = Step("set_slot", i)
  /\ alive = "booting" => \A i \in Slot : i < editor.at => Follows(i)
  /\ alive = "up" /\ editor.step \notin {"set_device", "apply"} =>
       device = store[DeviceKey]

\* The live slot is the stored one, fixed up, unless two PRIMARY are stored.
Restored(i) ==
  \/ slots[i] = Fixed(store[i])
  \/ store[i].role = "PRIMARY" /\ \E j \in Slot \ {i} : store[j].role = "PRIMARY"

(* What makes RebootRestores inductive: every channel that is stored, saved or
   being saved has settings, the remembered table has at most one PRIMARY, and
   no edit has come between the power-off and now. *)
RestoreState ==
  /\ \A i \in Slot : /\ store[i].has_settings
                     /\ flash[i] # NoRecord => flash[i].message.has_settings
  /\ saving \in Slot /\ buf # NoRecord => buf.message.has_settings
  /\ expected # NoTable =>
       /\ \A i, j \in Slot :
            expected[i].role = "PRIMARY" /\ expected[j].role = "PRIMARY" => i = j
       /\ alive = "up" => editor = Rest /\ \A i \in Slot : Restored(i)
       /\ alive = "booting" => \A i \in Slot : i < editor.at => Restored(i)

SameSettings(x, y) == x.has_settings /\ y.has_settings /\ x.name = y.name /\ x.psk = y.psk

\* Of the slots below n, slot i is primary if it is the last one stored as such.
LastBelow(n, i) ==
  slots[i].role = "PRIMARY" <=>
    store[i].role = "PRIMARY" /\ \A j \in Slot : i < j /\ j < n => store[j].role # "PRIMARY"

(* What makes LastPrimaryWins inductive: until the next edit nothing is saved, so
   that the remembered table is the one in flash but for the roles, the store is
   what the boot has loaded, and the slots that were applied have their roles. *)
ResumeState ==
  expected # NoTable =>
    /\ ~timer /\ saving = Idle
    /\ \A i \in Slot : SameSettings(expected[i], Fixed(Loaded(i)))
    /\ alive \in {"booting", "up"} => \A i \in Slot : store[i] = Loaded(i)
    /\ alive = "booting" => \A i \in Slot : i < editor.at => LastBelow(editor.at, i)
    /\ alive = "up" => \A i \in Slot : LastBelow(MaxChannels, i)
=============================================================================
