------------------------------ MODULE PhoneApi ------------------------------
(***************************************************************************)
(* The FromRadio side of meshtastic_phoneapi.c and _phoneapi_config.c for  *)
(* one transport: a bounded queue of encoded frames, and the configuration *)
(* handshake, an iterator that makes its next frame only when the queue is *)
(* empty.  Every operation is one critical section of the transport's      *)
(* lock; the transports' modules say who calls which one when.             *)
(*                                                                         *)
(* The ring of frames is the sequence of the frames in it.                 *)
(***************************************************************************)
EXTENDS Frames

CONSTANT QueueSize      \* api->queue_size

ASSUME PhoneApiAssumption == QueueSize \in Nat \ {0}

VARIABLES
  queue,                \* the frames waiting, the oldest first
  config,               \* config_state, config_index and config_request_id
  cut                   \* history: requests that lost a frame in a full queue

apiVars == <<queue, config, cut>>

ConfigState == Stage \cup {"IDLE"}

Position == [state : ConfigState, index : Nat]

At(state, index) == [state |-> state, index |-> index]

ConfigFrame(p, r) == [type |-> p.state, at |-> p.index, request |-> r]

config_active == config.at.state # "IDLE"

-----------------------------------------------------------------------------
(* The handshake: meshtastic_phoneapi_next_config_frame() *)

\* The loops over config_tags and module_tags pass over tags the store lacks.
Present(absent, n, i) == {j \in i .. n - 1 : j \notin absent}

First(S) == CHOOSE j \in S : \A k \in S : j <= k

FromModule(i) ==
  IF Present(NoModule, NModules, i) = {} THEN At("QUEUE_STATUS", 0)
  ELSE At("MODULES", First(Present(NoModule, NModules, i)))

\* The position whose frame is made next, once absent tags are passed over.
Reached(p) ==
  IF p.state = "MODULES" THEN FromModule(p.index)
  ELSE IF p.state # "CONFIGS" THEN p
  ELSE IF Present(NoConfig, NConfigs, p.index) = {} THEN FromModule(0)
  ELSE At("CONFIGS", First(Present(NoConfig, NConfigs, p.index)))

\* Mutant: the last entry of every list is left out.
NextInListMutant(p, n, next) ==
  IF p.index + 2 >= n THEN At(next, 0) ELSE At(p.state, p.index + 1)

NextInList(p, n, next) ==
  IF p.index + 1 >= n THEN At(next, 0) ELSE At(p.state, p.index + 1)

\* The next_state and next_index that the frame of position p is emitted with.
After(p) ==
  CASE p.state = "MY_INFO" -> At("DEVICE_UI", 0)
    [] p.state = "DEVICE_UI" -> At("NODE_INFO", 0)
    [] p.state = "NODE_INFO" -> At("METADATA", 0)
    [] p.state = "METADATA" -> At("CHANNELS", 0)
    [] p.state = "CHANNELS" -> NextInList(p, MaxChannels, "CONFIGS")
    [] p.state = "CONFIGS" -> NextInList(p, NConfigs, "MODULES")
    [] p.state = "MODULES" -> NextInList(p, NModules, "QUEUE_STATUS")
    [] p.state = "QUEUE_STATUS" -> At("COMPLETE", 0)
    [] p.state = "COMPLETE" -> At("IDLE", 0)

\* emit_frame().  A frame's buffer holds the longest FromRadio message, so that
\* encoding it cannot fail.
NextConfigFrame(f) ==
  /\ config_active
  /\ f = ConfigFrame(Reached(config.at), config.request)
  /\ config' = [config EXCEPT !.at = After(Reached(config.at))]

-----------------------------------------------------------------------------
(* The queue *)

Cutting(f) == IF IsConfig(f) THEN cut \cup {f.request} ELSE cut

\* Mutant: a full queue is not detected.
EnqueueMutant(f) == queue' = Append(queue, f) /\ UNCHANGED cut

\* meshtastic_phoneapi_enqueue_fromradio(), under the lock: a full queue loses
\* its oldest frame.
Enqueue(f) ==
  IF Len(queue) = QueueSize
    THEN queue' = Append(Tail(queue), f) /\ cut' = Cutting(Head(queue))
    ELSE queue' = Append(queue, f) /\ UNCHANGED cut

\* Mutant: the frame goes to the end of the queue.
PushFrontMutant(f) == Enqueue(f)

\* meshtastic_phoneapi_push_frame_front(): a full queue loses its newest frame.
PushFront(f) ==
  IF Len(queue) = QueueSize
    THEN /\ queue' = <<f>> \o SubSeq(queue, 1, QueueSize - 1)
         /\ cut' = Cutting(queue[QueueSize])
    ELSE queue' = <<f>> \o queue /\ UNCHANGED cut

\* meshtastic_phoneapi_pop_frame()
PopFrame(f) ==
  \/ /\ queue # <<>>
     /\ f = Head(queue)
     /\ queue' = Tail(queue)
     /\ UNCHANGED <<config, cut>>
  \/ /\ queue = <<>>
     /\ NextConfigFrame(f)
     /\ UNCHANGED <<queue, cut>>

NothingToPop == queue = <<>> /\ ~config_active

\* meshtastic_phoneapi_enqueue_phone_config(), under the lock
WantConfig(r) ==
  /\ queue' = <<>>
  /\ config' = [at |-> At("MY_INFO", 0), request |-> r]
  /\ UNCHANGED cut

\* A registered transport after meshtastic_phoneapi_init()
ApiInit ==
  /\ queue = <<>>
  /\ config = [at |-> At("IDLE", 0), request |-> 0]
  /\ cut = {}

ApiTypeOK ==
  /\ queue \in Seq(Frame) /\ Len(queue) <= QueueSize
  /\ config \in [at : Position, request : Request]
  /\ cut \subseteq Request

\* The frames of the handshake that the iterator has still to make
Todo ==
  IF config_active
    THEN {f \in Handshake(config.request) :
            ~Before(f, ConfigFrame(config.at, config.request))}
    ELSE {}
=============================================================================
