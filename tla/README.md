# A TLA+ model of the Meshtastic stack for Zephyr

This directory holds a formal model of the stack in `src/`: TLA+ modules
translated from the C code, configurations that check them with TLC on small
instances, and proofs, checked by TLAPS, of the most important safety
properties for every value of the constants. `PROJECT.json` is the index: which
definition models which lines, which run checks which property, the mutants
that show each property can fail, the hazards the properties aim at, the
findings and the theorems.

## The system and its parts

A node receives LoRa frames, suppresses duplicates, decrypts and delivers them,
acknowledges them and relays them (flooding with a hop limit). Applications,
modules and a phone send packets; a packet with `want_ack` is retransmitted
until it is acknowledged. Channels and configuration live in RAM, are edited by
the shell and are saved to flash. A phone is served over a serial port or
Bluetooth LE, and a node with a network may bridge its mesh to an MQTT broker.

| Part | Source under `src/src` | Threads involved | Model |
|---|---|---|---|
| Acknowledgement table | `meshtastic_reliable.c` | senders, receive thread, system work queue | `Reliable`, `Delivery` |
| Outbound queue and worker | `meshtastic_outbound.c` | callers, worker | `Radio` |
| Radio front end | `meshtastic_radio.c` | worker, processing thread, driver callback, init | `Radio` |
| Router, duplicate ring | `meshtastic_router.c` | processing thread, MQTT thread | `Mesh`, `Gateway` |
| Acknowledgements | `meshtastic_routing.c` | processing thread | `Mesh` |
| Sending, packet IDs, start-up | `meshtastic.c` | any | `Mesh`, `Reliable`, `Settings`, `Gateway` |
| Packet codec | `meshtastic_packet.c` | any | `Mesh` (header fields, decodable or not), `Gateway` |
| Channel table | `meshtastic_channels.c` | shell, start-up | `Channels` |
| Configuration store | `meshtastic_config_store.c` | shell, start-up, system work queue | `Settings` |
| Persistence | `meshtastic_settings.c` | system work queue | `Settings` |
| Shell commands that edit | `meshtastic_shell.c` | shell | `Settings` |
| PhoneAPI | `meshtastic_phoneapi.c`, `meshtastic_phoneapi_config.c` | transports, receive thread | `Frames`, `PhoneApi`, `FromRadio` |
| Serial transport | `meshtastic_serial.c` | its work queue, UART interrupt | `Serial` |
| Bluetooth LE | `meshtastic_ble.c` | BT callbacks, its work queue | `Ble` |
| MQTT gateway | `meshtastic_mqtt.c` | its thread, senders, processing thread | `Mqtt`, `Gateway` |
| Node database | `meshtastic_nodedb.c` | processing thread, MQTT thread | `NodeDb`, `Gateway` |
| NodeInfo, telemetry, GNSS | `meshtastic_nodeinfo.c`, `meshtastic_metrics.c`, `meshtastic_environment.c`, `meshtastic_gnss.c` | system work queue, processing thread | no |
| Airtime | `meshtastic_airtime.c` | worker, processing thread | no |
| Module dispatch, text messages | `meshtastic_modules.c`, `meshtastic_message.c` | processing thread | a stateless loop, inside `Mesh` |

## The modules

**`Delivery`** is what the stack promises an application about one packet:
never tracked, or pending until exactly one outcome, unless a
re-initialisation drops it.

**`Reliable`** is `meshtastic_reliable.c`. `table` is `reliable_entries` (a
deadline is kept as the time left until it), `timer` and `queued` are the one
delayable work item, `captured` holds the outcomes a thread has taken out of the
table and not reported yet, because `reliable_emit()` runs after the unlock.
Actions: `Send`/`Track` (the two sides of the window in
`meshtastic_send_packet()` in which the frame is on the air and not tracked),
`OnRouting`/`RxEmit`, `WorkStart`/`WorkRun`/`WorkEmit` (`reliable_work_fn()`
before, under and after the lock), `ResetClear`/`ResetCancel`, and the kernel's
`Tick`/`TimerExpires`. `Contract` is `Delivery` under the refinement mapping
`statusBar`.

**`Radio`** composes the outbound queue, its worker, the processing thread, the
driver's receive callback and `meshtastic_radio_init()`. `frame[c]` is the
semaphore and the result in caller `c`'s stack frame, through which the worker
answers. The worker's steps follow `meshtastic_radio_send_wire_now()`: take the
semaphore, stop reception, configure, send with busy retries, configure for
reception, arm, give. Each driver call may fail. `refused` is history: the calls
whose failure the code discards (stopping reception, and the configuration for
reception after a transmission) and that have not succeeded since.

**`Mesh`** is several nodes: the duplicate ring, delivery, relay,
acknowledgement (also of duplicates), packet IDs and a power cycle that starts
them again at 1. A transmission puts one copy per neighbour in the air; copies
are received in any order or lost. `forgot`, `got`, `relays` and `restarts` are
history. The acknowledgement table appears as the contract that `Reliable`
implements, with room for every packet. `Contract` is `Delivery` again, under
this module's own `statusBar`: a direct message is pending from its send on, and
of a broadcast the contract knows only that it is not tracked.

**`Channels`** is the channel table as operators: keys, hashes, demotion of the
previous primary slot, `SetSlot`. **`Settings`** adds the store, the shell's
edits in the steps the lock divides them into, the delayed save record by
record (`SaveRead` under the lock, `SaveWrite` outside), save errors, power
failure at any point and the boot that loads, then applies the slots in order.
`Hang` is a call of `channel_get_key()` that never returns. `expected`, the live
table when power failed after everything was saved, is history.

**`Frames`** has the FromRadio frames, and the reference for the configuration
handshake: the set of its frames (`Handshake`), their order (`Before`), and what
it means to have heard it from its beginning without a gap (`Begins`).
**`PhoneApi`** is the FromRadio queue, which drops its oldest frame when full
and takes deferred frames back at its front, and the iterator that makes the
frames of the handshake one by one. **`FromRadio`** is what a transport promises
its phone: one line of frames, heard in the order they joined it, from which
frames may be lost; a handshake that loses a frame ahead of others of its own
counts as broken, and a new request or the end of a connection drops the rear of
the line. Both transports implement it (`StreamSpec`). **`Serial`** puts the serial
transport around it: the
work items on one thread, the two rings counted in frames (`Oversize` are the frames
longer than the whole transmit ring), the interrupt that
drains the transmit ring and resubmits `tx_cont_work` when it is empty, threads that queue
packets, and a phone that asks for the configuration and writes commands.

**`Ble`** puts the Bluetooth transport around `PhoneApi`. `current`, `staged` and
`buf` are the three copies of a frame on its way to the phone: taken off the
queue, staged by the work item, being read. Bluetooth callbacks have a
cooperative priority and are one action each (`ReadFromRadio`, `ReadRest` for the
further pieces of a long frame, `WriteToRadio`, `Connected`, `Subscribe`,
`Disconnected`); the work queue thread is split wherever a callback can come in:
`FromRadioWork`/`FrameReady`/`NotifyFromNum` are the one handler
`fromradio_work_handler()`, `Cancel` is the kernel's `k_work_cancel()`, and `ToRadioWork`
is followed by
`InvalidateReady`/`InvalidateLen`, or `Sent` and `Status`, and `ToRadioReady`.
`canceling` is the kernel's flag on a work item that was cancelled while its handler
ran: until the handler returns, `Submit` is refused. `missed` (a refused submission or
a failed notification that nothing has made up for), `heard` and `base` are history.

**`NodeDb`** is the node database: `Find`, `Oldest` and `PutEntry` are its three
locked helpers, `NodeDbOnPacket` its packet handler on the LoRa thread, and
`NodeDbReadsClock`/`NodeDbRecords` the same handler on a thread that may be
interrupted between reading the clock and taking the lock. **`Mqtt`** is the MQTT
thread: `at` is where it is in `mqtt_thread_fn()` or in the functions it calls,
`pubq` the publish queue (`MakeRoom` drops its oldest message when it is full, also
when the new one then cannot be encoded), `entry` the message `mqtt_drain_queue()` has taken off
it, and `NetAdd`/`NetDel` the network events. **`Gateway`** composes both with the
router. `LoRaRx` is `meshtastic_router_process_lora_rx()` as one action, because
the LoRa thread has the higher priority and blocks only in its last step, the
relay. `Downlink`, `DupSrc`, `DupId`, `DupHead`, `Relay`, `DeliverClock` and
`DeliverRecord` are `meshtastic_inject_downlink_mesh_packet()` in the MQTT thread,
divided at every point where a LoRa packet can come in. `dup_add()` takes no
lock, and the compiler may load `dup_head` once or for each of its three writes:
`inject.heads` holds the values such a load may have seen, and each write picks
one. `recent` and `clean` are history.

`MC*` modules hold the constants of the instances below. `*Proofs` modules hold
the invariants, lemmas and theorems of the proofs only.

## What TLC checks

| Run | Instance | States | Checks |
|---|---|---|---|
| `reliable` | 3 packets, 2 of them with one ID, 2 slots, 1 retransmission, 1 receive thread, work up to 1 tick late | 190 k | `TypeOK`, `Accounted`, `TimerCovers`, `TimeoutMeansExhausted`, `NoStaleRetransmission`, `Contract`, `TrackedIsReported` |
| `reliable_full` | 2 packets, 1 slot | | violates `AckableSendIsReported` |
| `radio` | 1 application thread and the processing thread, queues of 1, 2 calls, 1 frame received | 279 k | `TypeOK`, `RadioQuietDuringTx`, `DeafIsKnown`, `OwnResult`, `BlockingCallReturns`, `HearsAgain` |
| `radio_timeout` | the same | | violates `OwnResultAlways` |
| `mesh` | 3 nodes in a line, one without the key, ring of 2, hop limit 1, 2 messages, the middle node restarts | 907 k | `AckedImpliesDelivered`, `DeliveredOnce`, `RelayedOnce`, `AcksComeToAnEnd` |
| `mesh_restart` | 2 nodes, the sender restarts | | violates `AckMeansDelivered` |
| `settings` | 2 channels and the device record, 3 edits, 2 resets | 110 k | `TypeOK`, `OnePrimary`, `OwnHashCurrent`, `DirtyIsScheduled`, `LiveFollowsStore`, `RebootRestores`, `LastPrimaryWins`, `EditsReachFlash` |
| `settings_reboot` | the same | | violates `ChannelsSurviveReboot` |
| `serial` | queue of 2, transmit ring of 1 frame, 2 ToRadio frames, 3 packets, one of them too long for the ring, 2 channels, lists with absent entries | 879 k | `TypeOK`, `PacketsInOrder`, `HandshakeInOrder`, `NoLostWakeup`, `PhoneIsServed` |
| `ble` | queue of 1, 2 connections, 2 commands, 2 packets | 936 k | `ReadInOrder`, `NoLostWakeup`, `ConnectionsApart`, `PhoneIsServed` |
| `gateway` | 3 nodes, table of 2, ring of 2, publish queue of 1, 4 packets from the air, the broker and the node itself, 1 failure of the session | 1.05 M | `TypeOK`, `NoEcho`, `CacheHeals`, `NodeDbKeepsRecent`, `QueueDrains` |
| `gateway_retry` | the same, 2 packets | | violates `PublishesRetained` |

The properties are stated, with the code they are about, in the modules. For
each property of a passing run `PROJECT.json` names a mutant: a definition
changed as a plausible bug would change it, under which TLC finds the property
violated.

### Why the bounds are enough

* `reliable`: two slots let one entry be due, acknowledged or freed while the
  other waits; the shared ID makes an acknowledgement ambiguous; a third packet
  fills the table. `MaxLag` lets the work handler run late. The jitter of the
  retry delay is 0 here, and every packet is one that is tracked; the theorems
  below cover any jitter and the packets that are not.
* `radio`: with one place in the queue and two callers, one waits in the queue,
  one waits for room and the worker is at any of its steps; two calls per thread
  let a late answer meet a later call.
* `mesh`: the ring of two forgets within the run; a retransmission, its relay
  and its acknowledgement are in the air together (three copies). Five packet
  IDs per node are more than any node needs (`AcksComeToAnEnd`), so that bound
  cuts nothing off. Only one message asks for an acknowledgement, so the run says
  nothing of two that are pending at once; an instance with two is out of TLC's reach,
  and that one acknowledgement settles one message is left to the theorem
  `MeshHonoursDelivery`.
* `settings`: two slots are enough for a demotion in either order, three edits
  for an edit on each side of a running save, two resets for a reset during the
  boot that follows a reset.
* `serial`: a ring of one frame makes every second frame go back to the queue; a
  queue of two overflows with a frame put back in it, and a packet that is too long
  for the ring blocks the packets and the handshake behind it.
* `ble`: two connections let the state of one meet the phone of the next, two
  commands let one overwrite the other before it is handled; the queue of one
  overflows with the second packet.
* `gateway`: in a ring of two a torn entry, a lost one and a repeated `dup_head`
  all occur, and two further packets heal it; a table of two holds one node
  besides the local one, so that every new node evicts (which of several entries
  goes is left to the theorem). One failure ends one session; the network may
  come and go without bound.

Deadlock is not checked: every model may stop when its bounded inputs are used
up and nothing is left to do. Where the code must not stop short, a liveness
property says so.

### Fairness

* `reliable`: time passes, the kernel queues and runs due work, a thread
  that has sent goes on to track, and a thread that took an outcome goes on to
  report it. All are unconditional in the code: no step waits for anything but
  a mutex that is held for a bounded time.
* `radio`: the worker, the processing thread and start-up run when they can.
  Strong fairness for taking `mt_radio_sem`, because a Zephyr semaphore wakes
  its longest waiter of highest priority; and for a successful arm, because a
  driver that refuses for ever leaves nothing to recover. Callers' requests and
  received frames need not come.
* `settings`: the editing thread and the work queue go on and a node that is off
  is started. Neither resets nor errors nor edits need come.
* `serial`: the work queue thread and the UART go on, and a thread that queued a
  frame goes on to announce it.
* `ble`: the same, and a phone that is connected subscribes, and reads until it
  reads nothing whenever it is notified, which is what the protocol asks of it.
* `gateway`: the MQTT thread runs when nothing of a higher priority does, and a
  broker that is asked again and again answers in time in the end. Neither
  packets nor network events need come.

## What is proved

TLAPS checks the following for every value of the constants that satisfies the
`ASSUME`s, which only state what the build guarantees (positive sizes, default
values of the right type, absent tags that are tags). Each rests on an inductive
invariant (`IInv`, `Inv`), stated in the component's module or beside the
proofs.

* `ReliableProofs`: `TypeCorrect`, `ExactlyOneOutcome`, `TimerNeverForgotten`,
  `GivesUpLast`, `NeverResendsSettled`, `ImplementsDelivery`. `Accounted` alone
  says too little of an entry to bound its retransmissions; `Bookkeeping` adds
  that attempts made and left add up, that only the running handler holds
  expired outcomes, and that the table is empty inside reset.
* `RadioProofs`: `DriverQuiet`, `DeafNeverHidden`, `TypeCorrect`,
  `CallersGetTheirResult`. `DriverQuiet` is that no other
  thread arms the receiver during a transmission; it excepts a driver that refused to
  stop, or to take the configuration for reception, because the worker goes on then.
  For the first two the invariant says which thread
  holds the semaphore at which of its steps, and what the flag and the driver's
  mode are there. The last one follows the frames: the frame of a blocking call
  carries the caller's semaphore (`Carries`), its caller waits for it as long as
  it is queued or with the worker (`Awaited`), there is one such frame per caller
  (`Single`), and the semaphore is given with that frame's outcome (`Answered`).
  All four are for callers none of whose calls has timed out: after a timeout
  they fail, which is the finding of `radio_timeout`.
* `MeshProofs`: `TypeCorrect`, `AckIsProof`, `NeverDeliveredTwice`,
  `NeverRelayedTwice`, for every topology. An acknowledgement names a packet ID
  only, so the invariant follows IDs: those of a node that was never restarted
  are handed out before they are used and never twice (`IdsUsed`,
  `IdsDistinct`); a frame with the header of a message carries that message, and
  one that acknowledges it exists only after its delivery (`FrameTrue`); a
  destination that remembers the message has delivered it
  (`RememberedIsDelivered`), which covers the acknowledgement of duplicates.
  Restarts of every node but the sender are allowed.
  Three more theorems hold across restarts of any node, the sender included, from
  `RestartInv` (`HoldsAcrossRestarts`): the messages a sender still waits for bear
  IDs of its current start, each its own (`LiveIdsDistinct`), a broadcast has no
  outcome (`BroadcastsUntracked`), an acknowledgement that asks to be acknowledged
  answers a text message (`AckChainEnds`), and a frame's hop limit never exceeds
  the one it started with (`HopsFall`). Hence `AcksOfAcksEnd`;
  `AcksReachTheirSenders`: the hop limit of a reply covers the hops the packet it
  answers has taken; and `MeshHonoursDelivery`: every step is a step of `Delivery`
  or a stutter. One acknowledgement settles one message at most, because of
  `LiveIdsDistinct`; whether it is the right one after the sender's restart is what
  the contract leaves open and `mesh_restart` refutes.
* `SettingsProofs`: `TypeCorrect`, `AtMostOnePrimary`, `HashesFollowSlots`,
  `NoForgottenChange`, `LiveIsStored`, `RebootRestoresTable`, `LastPrimaryComesBack`.
  `NoForgottenChange`
  needs `SaveState`: the record a save has read and not written yet is the
  present one, or another save will follow; and a boot has nothing to save.
  `LiveIsStored` needs `LiveState`: an edit leaves at most its own slot behind,
  and the boot has brought the slots before its position up to date.
  `RebootRestoresTable` needs `RestoreState`: every channel stored, saved or being
  saved has settings (a slot without them is reset to the disabled default when
  fixed up), and the remembered table has one PRIMARY, so that the boot demotes
  none of its slots. `LastPrimaryComesBack` drops that condition and needs
  `ResumeState`: the remembered table and the stored one differ in roles only, and the
  boot has made primary the last PRIMARY slot below its position. The lemmas on
  the channel table come first: `SetSlotKeeps`
  (one primary slot, current hashes) and `OwnKey` (the hash of a slot that inherits
  nothing depends on that slot alone).
* `GatewayProofs`: `NodeDbConsistent`, for the node database alone, and
  `GatewayImplementsNodeDb`: the gateway's steps are steps of `NodeDbSpec`, so that
  `GatewayKeepsRecent` follows. `IInv` adds to the guarantee the types, which say
  that recorded times lie in the past. `GatewayNoEcho` needs that every frame in
  the air of a far sender carries `via_mqtt` and that a packet being injected is
  another node's (`PInv`); nothing need be known of the duplicate ring.
  `GatewayTypeCorrect` needs where the MQTT thread is at every moment, and that a
  message is only held while there is a session (`LInv`). `CacheRecovers`
  needs what the ring looks like in the middle of an
  addition: the packets added since the last interrupted one are in the slots
  just behind `dup_head`, newest first (`Back`), and an addition that was not
  interrupted has written what it has written so far to the slot at `dup_head`
  (`Writing`).
* `FromRadioProofs`: `StreamPacketsInOrder`, `StreamHandshakeInOrder` and
  `StreamNewerFollows`, for the abstract stream. The invariant `StreamInv` is about
  the whole line and not only about what was heard: the packets heard and in line
  are numbered in increasing order up to the last one received; the frames of a
  handshake heard, in line and still to be made are in its order, and, unless it
  is broken, without a gap. It is kept when frames are taken out anywhere in the
  line (`Thinned`), which covers every way to lose one. The module also has the
  lemmas about the iterator of `PhoneApi` (what it passes over is absent, and the
  frame it makes is the first of those in `Todo`), because both transports'
  proofs need them.
* `SerialProofs`: `SerialTypeCorrect`, `SerialAwake`, `SerialIsStream`,
  `SerialPacketsInOrder`, `SerialHandshakeInOrder`. `Inv` says where frames can be
  (at most one in the thread's hand, and only while it is there), and that
  requests in the receive ring are newer than the one being answered, in order.
  `SerialIsStream` maps the transmit ring, the frame in hand and the queue to the
  stream's line and `cut` to its broken handshakes: a frame that goes back to the
  front of the queue leaves the line as it is, unless the queue is full. The last
  two theorems are the stream's, for that line.
* `BleProofs`: `BleAwake`, `BleIsStream`, `BleReadInOrder`, `BleConnectionsApart`.
  The line is the frame at its front, wherever its copies are, followed by the
  queue. `Inv` says what the three copies `current`, `staged` and `buf` can be at
  each point of the work thread and of the phone (`StageInv`), that only the frame
  at the front can be older than the connection and only as long as the phone has
  read nothing (`AgeInv`), and that requests come in order (`RequestInv`). The
  broken handshakes are those asked for before the connection: Bluetooth puts
  nothing back, so the queue holds no frame of a handshake that it could drop
  (`ApiInv`).

Every invariant and action property that a passing run checks is proved as well, but for
one: `AcksComeToAnEnd` says that five packet IDs per node are enough in the
instance of `mesh`, which is a number of that instance and false of a smaller
`MaxId`. It is only model-checked; the reason it holds, that an acknowledgement of
an acknowledgement asks for nothing, is proved for every instance as
`AcksOfAcksEnd`. All liveness properties are only model-checked too, because
temporal reasoning under fairness is outside the prover's reach.

## Findings

Each is a run that TLC finds violated, with the quoted document in
`PROJECT.json`.

1. `reliable_full`: with the table full a `want_ack` unicast is sent untracked:
   neither a retransmission nor an event follows.
2. `radio_timeout`: a blocking send that times out leaves its item queued; the
   worker answers later through a stack frame that is gone, and a later call of
   the same thread can take that answer for its own.
3. `mesh_restart`: packet IDs restart at 1, so an acknowledgement of a packet from
   before a restart settles a new packet that was never delivered.
4. `settings_reboot`: channels saved in full need not survive a reboot. A saved table
   whose slot 0 is a secondary channel without a PSK recurses without end in
   `channel_get_key()` at the next boot, which is TLC's counterexample. A slot demoted
   in the live table keeps its role PRIMARY in the store, so that another slot may be
   primary after the reboot: `LastPrimaryWins` says which.
5. `gateway_retry`: an envelope whose publish fails is gone. `mqtt_drain_queue()` has
   taken it off the queue, and nothing puts it back or tries again.

## Abstractions to know about

* `Mesh`: payloads are model values and a node either has the channel's key or
  not. The rebroadcast modes and roles are the constant set `Rebroadcaster`; text
  and routing packets are core ports, which the port-based modes let through.
  Packets with ID 0, packets from MQTT and `IGNORE_MQTT` are left out. A packet ID
  is taken in one step.
* `Channels`: a hash is the pair of name and key, so collisions of the 8-bit XOR
  are left out. Uplink, downlink and position precision are data.
* `Settings`: the device record stands for the owner and the other configuration
  records, which are stored, saved and applied the same way.
* `Radio`: modem parameters, timing and airtime are left out.
* `Ble`: a long frame is read in two pieces, which stand for any number, and a
  ToRadio frame is written in one; `from_num` is left out, because a notification
  only asks the phone to read. Pairing, advertising and the MTU exchange are
  calls into the Bluetooth stack.
* `NodeDb`: of an entry the node number and the time of the last packet are kept;
  time is a clock that may advance before any packet, up to `MaxUptime`.
* `Mqtt`: sleeps and `mqtt_work_sem` are left out, since every wait ends by a
  timeout. Topics and envelopes are data, and the primary channel has uplink and
  downlink. When `mqtt_publish()` fails the MQTT library closes the session.
* `Gateway`: the packets are broadcasts with hops left that the node can decrypt and
  that ask for no acknowledgement; `IGNORE_MQTT` is off; the scan of `dup_check()`
  is one step.
* `PhoneApi`: encoding a frame cannot fail, since its buffer
  (`MESHTASTIC_API_FRAME_MAX`) holds the longest FromRadio message.
* `Serial`: bytes are counted in frames; the search for a frame's start bytes is
  left out, a lost frame stands for its effect.

## Behaviour worth knowing

The properties are stated so that the code has them; where they had to leave
something out, this is what the code does.

* `Reliable`: `meshtastic_reliable_reset()` empties the table and then cancels the
  work. An entry added between the two would have no timer. No property sees that
  case: `ResetClear` waits until no send is in progress, because `meshtastic_init()` is
  to be called before any other function (`meshtastic.h:344`). The code does not check
  it. What the properties cover is the handler that already runs.
* `Radio`: the results of stopping reception before a transmission and of configuring
  the driver for reception after it are discarded. A radio that refused the first is
  reconfigured while it listens, and one that refused the second listens with the
  configuration of a transmission. `RadioQuietDuringTx` excludes these two (`refused`).
* `Settings`: a save that fails ends there, and what it had not written stays unsaved
  until the next edit. `DirtyIsScheduled` and `EditsReachFlash` exclude that time
  (`failed`).
* `Serial`: a full queue that takes back a frame may drop one of a handshake, which the
  phone then hears with a gap. `HandshakeInOrder` excludes the handshakes this happened
  to (`cut`).
* `Serial`: a frame longer than the transmit ring goes back to the front of the queue
  every time, and what is behind it is not sent until the queue overflows.
  `NoLostWakeup` and `PhoneIsServed` exclude it (`Blocked`). The default ring holds
  every frame; the option that sets its size allows smaller ones.
* `Ble`: `disconnected()` cancels the work item, and while its handler is still running
  the kernel refuses to queue it again. `schedule_fromradio_prepare()` ignores that, so
  the next phone may not be told of a frame until another one comes. A notification
  that `bt_gatt_notify()` refuses is not repeated either. `NoLostWakeup` excludes the
  first and `PhoneIsServed` both (`missed`).

* `Ble`: `disconnected()` cannot stop a work item between staging a frame and
  setting `fromradio_ready`, so the next phone may read one packet of the
  connection that ended as its first frame. `to_radio_buf` is not cleared either,
  so a `want_config` of that connection may be answered to the next phone.
  `ConnectionsApart` bounds both.
* `Ble`: `write_toradio()` overwrites a command that was not handled yet, and a
  frame staged while nobody is subscribed is notified to nobody: a phone must
  read once after it subscribes.
* `Gateway`: an injected packet whose relay fails is not delivered locally, and is
  already in the duplicate ring. The node's own packets sent without waiting are
  never uplinked.
* `Gateway`: a `dup_add()` that is interrupted may lose the packet it adds or the
  one that interrupts it, or keep neither; copies of these are handled again.
  `CacheHeals` bounds for how long.

## Not modelled

* **NodeInfo, telemetry and position**: periodic sends and suppression windows,
  each a time compared and updated in one critical section of its module. The
  interaction with other components is a send, which `Mesh` and `Radio` have.
* **Module dispatch and text messages**: a loop without state over the registered
  handlers; what it calls is part of `Mesh` and `Gateway`.
* **Airtime**: counters that are only read to report a percentage, in floating
  point.
* **Protocol buffers and AES** are conversions without control state.
* **Packet IDs taken by two threads at once** (`next_pkt_id` has no lock) and the
  **shared encoding workspace**, read once after its lock is released in
  `meshtastic_send_mesh_pb()`: both need a second sending thread per node, which
  puts the instances of `Mesh` and `Gateway` out of TLC's reach. They are listed as
  hazards without a property.
* **A callback that sends**: an application that sends and waits inside
  `TX_FAILED` waits for its own thread; the models' callbacks do not send.
