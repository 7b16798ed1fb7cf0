-------------------------------- MODULE Serial --------------------------------
(***************************************************************************)
(* The serial transport, meshtastic_serial.c, around PhoneApi: one work    *)
(* queue thread runs rx_work, tx_work and tx_cont_work, the UART interrupt *)
(* fills the receive ring and drains the transmit ring, and other threads  *)
(* queue received packets.                                                 *)
(*                                                                         *)
(* The rings are counted in frames: a FromRadio frame has reached the      *)
(* phone when its last byte left the transmit ring.  Frames differ in      *)
(* length: any of them may not fit a transmit ring that is not empty, and  *)
(* those in Oversize do not fit an empty one.  Bytes that do not fit the   *)
(* receive ring are lost, and what is left of their frame may swallow a    *)
(* later one; the byte-level search for the start of a frame is left out.  *)
(***************************************************************************)
EXTENDS PhoneApi

CONSTANTS
  Producer,         \* threads that call meshtastic_phoneapi_on_packet()
  TxSize, RxSize,   \* frames that fit the rings
  Oversize,         \* frames longer than CONFIG_MESHTASTIC_SERIAL_TX_BUF_SIZE, if any
  MaxPackets,       \* bound: packets received from the mesh
  MaxCommands       \* bound: ToRadio frames the phone writes

ASSUME SerialAssumption ==
  /\ TxSize \in Nat \ {0} /\ RxSize \in Nat \ {0} /\ Oversize \subseteq Frame
  /\ MaxPackets \in Nat /\ MaxCommands \in Nat

VARIABLES
  work,             \* serial.work_q: the work items submitted, in order
  running,          \* where the work queue thread is
  held,             \* the frame tx_work_handler() has popped
  tx, tx_irq,       \* serial_tx_rb, and whether the transmit interrupt is enabled
  rx,               \* serial_rx_rb
  notify,           \* producers between queueing a frame and data_ready()
  heard,            \* history: packets and configuration frames the phone has
  packets, commands, requests   \* counters

txVars == <<tx, tx_irq, heard>>
rxVars == <<rx, commands, requests>>
threadVars == <<running, held>>
vars == <<queue, config, cut, work, running, held, tx, tx_irq, rx, notify,
          heard, packets, commands, requests>>

Work == {"tx_work", "tx_cont", "rx_work"}

Running ==
  {"idle", "tx_work", "tx_put", "tx_cont", "rx_work", "rx_send", "rx_status", "rx_ready"}

Command == {"heartbeat", "packet", "disconnect"}

ToRadio == [type : Command \cup {"want_config"}, request : Request]

\* meshtastic_serial_init() ends by queueing a frame that says "rebooted".
Init ==
  /\ queue = <<Rebooted>>
  /\ config = [at |-> At("IDLE", 0), request |-> 0]
  /\ cut = {}
  /\ work = <<"tx_work">> /\ running = "idle" /\ held = Rebooted
  /\ tx = <<>> /\ tx_irq = FALSE
  /\ rx = <<>>
  /\ notify = {}
  /\ heard = Nothing
  /\ packets = 0 /\ commands = 0 /\ requests = 0

\* k_work_submit_to_queue(): no effect on an item that is queued already.
Submit(w) ==
  work' = IF \E i \in 1 .. Len(work) : work[i] = w THEN work ELSE Append(work, w)

-----------------------------------------------------------------------------
(* Packets from the mesh: meshtastic_phoneapi_on_packet() *)

OnPacket(t) ==
  /\ t \notin notify
  /\ packets < MaxPackets
  /\ packets' = packets + 1
  /\ Enqueue(Packet(packets + 1))
  /\ notify' = notify \cup {t}
  /\ UNCHANGED <<config, work, threadVars, txVars, rxVars>>

\* serial_data_ready(), with the lock released
DataReady(t) ==
  /\ t \in notify
  /\ notify' = notify \ {t}
  /\ Submit("tx_work")
  /\ UNCHANGED <<apiVars, threadVars, txVars, rxVars, packets>>

-----------------------------------------------------------------------------
(* The UART interrupt *)

\* serial_isr_rx(): a frame of the phone is stored, or lost in an overrun or
\* behind the remains of one.
Arrives(frame) ==
  \/ /\ Len(rx) < RxSize
     /\ rx' = Append(rx, frame)
     /\ Submit("rx_work")
  \/ UNCHANGED <<rx, work>>

PhoneAsks ==
  /\ commands < MaxCommands /\ requests < MaxRequests
  /\ commands' = commands + 1 /\ requests' = requests + 1
  /\ Arrives([type |-> "want_config", request |-> requests + 1])
  /\ UNCHANGED <<apiVars, threadVars, txVars, notify, packets>>

PhoneWrites(c) ==
  /\ commands < MaxCommands
  /\ commands' = commands + 1
  /\ Arrives([type |-> c, request |-> 0])
  /\ UNCHANGED <<apiVars, threadVars, txVars, notify, packets, requests>>

\* serial_isr_tx() drains the ring ...
IsrTx ==
  /\ tx_irq /\ tx # <<>>
  /\ heard' = Hearing(heard, Head(tx))
  /\ tx' = Tail(tx)
  /\ UNCHANGED <<apiVars, work, threadVars, tx_irq, rxVars, notify, packets>>

\* Mutant: nobody is told that the ring has room again.
IsrTxFinishMutant ==
  /\ tx_irq /\ tx = <<>>
  /\ tx_irq' = FALSE
  /\ UNCHANGED <<apiVars, work, threadVars, tx, heard, rxVars, notify, packets>>

\* ... and serial_tx_finish() turns the interrupt off and asks for more.
IsrTxFinish ==
  /\ tx_irq /\ tx = <<>>
  /\ tx_irq' = FALSE
  /\ Submit("tx_cont")
  /\ UNCHANGED <<apiVars, threadVars, tx, heard, rxVars, notify, packets>>

-----------------------------------------------------------------------------
(* The work queue thread *)

WorkNext ==
  /\ running = "idle" /\ work # <<>>
  /\ running' = Head(work)
  /\ work' = Tail(work)
  /\ UNCHANGED <<apiVars, held, txVars, rxVars, notify, packets>>

\* tx_work_handler(): pop a frame, or stop.
TxPop ==
  /\ running = "tx_work"
  /\ \/ /\ PopFrame(held')
        /\ running' = "tx_put"
     \/ /\ NothingToPop
        /\ running' = "idle"
        /\ UNCHANGED <<apiVars, held>>
  /\ UNCHANGED <<work, txVars, rxVars, notify, packets>>

\* serial_tx_queue(), or back to the front of the queue if the ring has no room
\* for it
TxPut ==
  /\ running = "tx_put"
  /\ \/ /\ Len(tx) < TxSize /\ held \notin Oversize
        /\ tx' = Append(tx, held) /\ tx_irq' = TRUE
        /\ running' = "tx_work"
        /\ UNCHANGED apiVars
     \/ /\ tx # <<>> \/ held \in Oversize
        /\ PushFront(held)
        /\ running' = "idle"
        /\ UNCHANGED <<config, tx, tx_irq>>
  /\ UNCHANGED <<work, held, heard, rxVars, notify, packets>>

TxCont ==
  /\ running = "tx_cont"
  /\ Submit("tx_work")
  /\ running' = "idle"
  /\ UNCHANGED <<apiVars, held, txVars, rxVars, notify, packets>>

\* meshtastic_phoneapi_handle_toradio(), up to the first call that waits
HandleToRadio(frame) ==
  \/ /\ frame.type = "want_config"
     /\ WantConfig(frame.request)
     /\ running' = "rx_ready"
  \/ /\ frame.type = "packet"
     /\ running' = "rx_send"
     /\ UNCHANGED apiVars
  \/ /\ frame.type = "heartbeat"
     /\ running' = "rx_status"
     /\ UNCHANGED apiVars
  \/ /\ frame.type = "disconnect"
     /\ UNCHANGED <<running, apiVars>>

\* rx_work_handler(): one frame after the other until the ring is empty
RxPop ==
  /\ running = "rx_work" /\ rx # <<>>
  /\ rx' = Tail(rx)
  /\ HandleToRadio(Head(rx))
  /\ UNCHANGED <<work, held, txVars, notify, packets, commands, requests>>

RxEnd ==
  /\ running = "rx_work" /\ rx = <<>>
  /\ running' = "idle"
  /\ UNCHANGED <<apiVars, work, held, txVars, rxVars, notify, packets>>

\* meshtastic_send_mesh_pb() has waited for the radio.
RxSent ==
  /\ running = "rx_send"
  /\ running' = "rx_status"
  /\ UNCHANGED <<apiVars, work, held, txVars, rxVars, notify, packets>>

\* meshtastic_phoneapi_enqueue_queue_status()
RxStatus ==
  /\ running = "rx_status"
  /\ Enqueue(QueueStatus)
  /\ running' = "rx_ready"
  /\ UNCHANGED <<config, work, held, txVars, rxVars, notify, packets>>

\* Mutant: the handshake starts without data_ready().
RxReadyMutant ==
  /\ running = "rx_ready"
  /\ running' = "rx_work"
  /\ UNCHANGED <<apiVars, work, held, txVars, rxVars, notify, packets>>

RxReady ==
  /\ running = "rx_ready"
  /\ Submit("tx_work")
  /\ running' = "rx_work"
  /\ UNCHANGED <<apiVars, held, txVars, rxVars, notify, packets>>

-----------------------------------------------------------------------------
Thread ==
  WorkNext \/ TxPop \/ TxPut \/ TxCont \/ RxPop \/ RxEnd \/ RxSent \/ RxStatus \/ RxReady

Uart == IsrTx \/ IsrTxFinish

Next ==
  \/ \E t \in Producer : OnPacket(t) \/ DataReady(t)
  \/ PhoneAsks
  \/ \E c \in Command : PhoneWrites(c)
  \/ Uart \/ Thread

Spec == Init /\ [][Next]_vars

\* Threads go on, the radio answers, and the UART drains what it is given.
Fairness ==
  /\ WF_vars(Thread) /\ WF_vars(Uart)
  /\ \A t \in Producer : WF_vars(DataReady(t))

FairSpec == Spec /\ Fairness

-----------------------------------------------------------------------------
(* Properties *)

(* The type invariant: among it the bounds that the FromRadio queue, the
   transmit ring and the work queue keep. *)
TypeOK ==
  /\ ApiTypeOK
  /\ work \in Seq(Work) /\ Len(work) <= 3
  /\ running \in Running /\ held \in Frame
  /\ tx \in Seq(Frame) /\ Len(tx) <= TxSize /\ tx_irq \in BOOLEAN
  /\ rx \in Seq(ToRadio) /\ Len(rx) <= RxSize
  /\ notify \subseteq Producer
  /\ packets \in 0 .. MaxPackets /\ commands \in 0 .. MaxCommands
  /\ requests \in 0 .. MaxRequests

(* A frame that does not fit the transmit ring goes back to the front while
   other threads queue, and may push one out: packets still reach the phone in
   the order they were received in, none of them twice. *)
PacketsInOrder ==
  \A i, j \in 1 .. Len(heard.packets) : i < j => heard.packets[i] < heard.packets[j]

(* The frames of a handshake reach the phone in order and without a gap, unless
   one that had been put back was pushed out of a full queue; so "config
   complete" comes after everything else.  A new request starts a new list, and
   nothing of an older one follows it. *)
HandshakeInOrder ==
  LET c == heard.config
  IN  c # <<>> /\ c[1].request \notin cut =>
        Begins(c, c[1].request)

Awake ==
  \/ \E i \in 1 .. Len(work) : work[i] \in {"tx_work", "tx_cont"}
  \/ running \in {"tx_work", "tx_put", "tx_cont", "rx_ready"}
  \/ tx_irq
  \/ notify # {}

\* The next frame is one that the transmit ring can never take.
Blocked == queue # <<>> /\ Head(queue) \in Oversize

(* No wake-up is lost between the threads, the work items and the interrupt:
   while a frame waits or the handshake has frames to make, something is
   under way that will run tx_work_handler() again.  Only behind a frame that is
   longer than the transmit ring does it stop, until someone else queues a frame:
   tx_work_handler() puts it back and waits for a ring that is empty already. *)
NoLostWakeup == ~NothingToPop => Awake \/ Blocked

(* Everything queued is eventually sent and the handshake comes to its end, or
   to a frame that is longer than the transmit ring: a ring that is only full
   defers it. *)
PhoneIsServed == ~NothingToPop ~> NothingToPop \/ Blocked

-----------------------------------------------------------------------------
(* The frames on their way to the phone: those in the transmit ring, the one
   tx_work_handler() holds, and those in the queue. *)
Held == IF running = "tx_put" THEN <<held>> ELSE <<>>

Line == tx \o Held \o queue

Stream == INSTANCE FromRadio
          WITH line <- Line, todo <- Todo, told <- heard, broken <- cut, count <- packets

(* The serial transport is a FromRadio stream. *)
StreamSpec == Stream!LineSpec
=============================================================================
