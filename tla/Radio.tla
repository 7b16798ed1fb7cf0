------------------------------- MODULE Radio --------------------------------
(***************************************************************************)
(* The radio of one node: meshtastic_outbound.c (the transmit queue and    *)
(* its worker thread) and meshtastic_radio.c (the driver-level transmit,   *)
(* the driver's receive callback and the processing thread).               *)
(*                                                                         *)
(* Four kinds of threads meet here.  Callers queue frames, and those that  *)
(* wait do so on a semaphore in their own stack frame.  The worker stops   *)
(* continuous reception, transmits, and arms reception again, all under    *)
(* mt_radio_sem.  The processing thread handles received frames, is a      *)
(* caller itself when a frame needs an answer, and recovers a radio that   *)
(* could not be armed.  meshtastic_radio_init() arms reception for the     *)
(* first time when the other threads already run.                          *)
(***************************************************************************)
EXTENDS Naturals, Sequences

CONSTANTS
  App,            \* threads other than the processing thread that send
  Rx,             \* the processing thread (mt_thread)
  Wait,           \* the values of k_timeout_t applications pass
  Reaction,       \* the sends a received frame can cause, in order
  QueueDepth,     \* CONFIG_MESHTASTIC_OUTBOUND_QUEUE_DEPTH
  RxDepth,        \* CONFIG_MESHTASTIC_RX_QUEUE_DEPTH
  BusyRetries,    \* CONFIG_MESHTASTIC_TX_BUSY_RETRIES
  MaxCalls,       \* bound: sends per thread
  MaxFrames       \* bound: frames received

Caller == App \cup {Rx}

WaitType == {"no_wait", "forever", "timeout"}

ASSUME ConstantsAssumption ==
  /\ Rx \notin App
  /\ Wait \subseteq WaitType
  /\ Reaction \subseteq Seq({"no_wait", "forever"})
  /\ QueueDepth \in Nat \ {0} /\ RxDepth \in Nat \ {0}
  /\ BusyRetries \in Nat /\ MaxCalls \in Nat /\ MaxFrames \in Nat

VARIABLES
  queue,      \* mt_outbound_msgq
  worker,     \* where the outbound worker is
  item,       \* the frame the worker is sending
  left,       \* busy retries left
  sem,        \* who holds mt_radio_sem
  listening,  \* the driver is in continuous asynchronous receive
  txmode,     \* the driver was last configured for transmission
  rx_armed,   \* mt.radio_rx_armed
  refused,    \* history of the two calls whose result the worker discards: "stop"
              \* failed in this transmission, "off" failed and none succeeded since
  rxq,        \* mt_rx_msgq
  frames,     \* frames the driver has received
  rx,         \* where the processing thread is
  todo,       \* sends the processing thread still owes to its frame
  boot,       \* where meshtastic_radio_init() is, from its thread creations on
  pc,         \* pc[c]: where caller c is in outbound_enqueue()
  call,       \* call[c]: the number of c's calls so far
  mode,       \* mode[c]: the timeout of c's latest call
  frame,      \* frame[c]: the semaphore and the result in c's stack frame
  ret,        \* ret[c]: what c's latest call returned
  patient,    \* patient[c]: no call of c has timed out so far
  outcome     \* outcome[c][n]: what became of the frame of c's n-th call

radioVars == <<sem, listening, txmode, rx_armed, refused>>
workVars == <<worker, item, left>>
callVars == <<pc, call, mode, frame, ret, patient>>
rxVars == <<rxq, frames, rx, todo>>
vars == <<queue, workVars, radioVars, rxVars, boot, callVars, outcome>>

Result == {"ok", "failed"}

Item == [from : Caller, call : 1 .. MaxCalls, done : BOOLEAN]

WorkerStep == {"get", "take", "stop", "config", "send", "off", "arm", "give", "reply"}

NoItem == [from |-> Rx, call |-> 0, done |-> FALSE]

NoFrame == [given |-> FALSE, result |-> "ok"]

Init ==
  /\ queue = <<>>
  /\ worker = "get" /\ item = NoItem /\ left = 0
  /\ sem = "free" /\ listening = FALSE /\ txmode = FALSE /\ rx_armed = FALSE /\ refused = {}
  /\ rxq = <<>> /\ frames = 0 /\ rx = "get" /\ todo = <<>>
  /\ boot = "take"
  /\ pc = [c \in Caller |-> "idle"]
  /\ call = [c \in Caller |-> 0]
  /\ mode = [c \in Caller |-> "no_wait"]
  /\ frame = [c \in Caller |-> NoFrame]
  /\ ret = [c \in Caller |-> "none"]
  /\ patient = [c \in Caller |-> TRUE]
  /\ outcome = [c \in Caller |-> [n \in 1 .. MaxCalls |-> "none"]]
-----------------------------------------------------------------------------
(* Callers: outbound_enqueue() *)

ItemOf(c, n, done) == [from |-> c, call |-> n, done |-> done]

\* K_NO_WAIT: the frame is queued without semaphore or result, or refused.
EnqueueNoWait(c) ==
  /\ IF Len(queue) < QueueDepth
       THEN /\ queue' = Append(queue, ItemOf(c, call'[c], FALSE))
            /\ ret' = [ret EXCEPT ![c] = "queued"]
            /\ outcome' = [outcome EXCEPT ![c][call'[c]] = "queued"]
       ELSE /\ ret' = [ret EXCEPT ![c] = "full"]
            /\ UNCHANGED <<queue, outcome>>
  /\ UNCHANGED <<pc, frame>>

\* Otherwise the caller waits, first for room in the queue.
EnqueueWait(c) ==
  /\ frame' = [frame EXCEPT ![c] = NoFrame]
  /\ outcome' = [outcome EXCEPT ![c][call'[c]] = "queued"]
  /\ IF Len(queue) < QueueDepth
       THEN /\ queue' = Append(queue, ItemOf(c, call'[c], TRUE))
            /\ pc' = [pc EXCEPT ![c] = "wait"]
       ELSE /\ pc' = [pc EXCEPT ![c] = "put"]
            /\ UNCHANGED queue
  /\ UNCHANGED ret

Enqueue(c, wait) ==
  /\ pc[c] = "idle"
  /\ call[c] < MaxCalls
  /\ call' = [call EXCEPT ![c] = @ + 1]
  /\ mode' = [mode EXCEPT ![c] = wait]
  /\ \/ wait = "no_wait" /\ EnqueueNoWait(c)
     \/ wait # "no_wait" /\ EnqueueWait(c)
  /\ UNCHANGED patient

Send(c, wait) ==
  /\ Enqueue(c, wait)
  /\ UNCHANGED <<workVars, radioVars, rxVars, boot>>

\* k_sem_take() returns 0 and the caller reads its result.
Return(c) ==
  /\ pc[c] = "wait"
  /\ frame[c].given
  /\ pc' = [pc EXCEPT ![c] = "idle"]
  /\ ret' = [ret EXCEPT ![c] = frame[c].result]
  /\ frame' = [frame EXCEPT ![c] = NoFrame]
  /\ UNCHANGED <<queue, workVars, radioVars, rxVars, boot, call, mode, patient, outcome>>

\* k_sem_take() returns -EAGAIN: the frame stays queued.
GiveUp(c) ==
  /\ pc[c] = "wait"
  /\ mode[c] = "timeout"
  /\ ~frame[c].given
  /\ pc' = [pc EXCEPT ![c] = "idle"]
  /\ ret' = [ret EXCEPT ![c] = "again"]
  /\ patient' = [patient EXCEPT ![c] = FALSE]
  /\ UNCHANGED <<queue, workVars, radioVars, rxVars, boot, call, mode, frame, outcome>>
-----------------------------------------------------------------------------
(* The LoRa driver, as the radio code uses it. *)

\* Mutant: the flag is set although the driver refused.
ArmRxMutant ==
  /\ rx_armed' = TRUE
  /\ listening' = TRUE \/ UNCHANGED listening

\* mt_radio_arm_rx(): lora_recv_async() with a callback.
ArmRx ==
  \/ listening' = TRUE /\ rx_armed' = TRUE
  \/ UNCHANGED listening /\ rx_armed' = FALSE

\* The receive callback queues the frame or counts it as dropped.
Receive(reaction) ==
  /\ listening
  /\ frames < MaxFrames
  /\ frames' = frames + 1
  /\ rxq' = IF Len(rxq) < RxDepth THEN Append(rxq, reaction) ELSE rxq
  /\ UNCHANGED <<queue, workVars, radioVars, rx, todo, boot, callVars, outcome>>
-----------------------------------------------------------------------------
(* The outbound worker and meshtastic_radio_send_wire_now() *)

\* A caller blocked on the full queue gets the room that becomes free.
Admit(rest) ==
  \/ /\ \A c \in Caller : pc[c] # "put"
     /\ queue' = rest
     /\ UNCHANGED pc
  \/ \E c \in Caller :
       /\ pc[c] = "put"
       /\ queue' = Append(rest, ItemOf(c, call[c], TRUE))
       /\ pc' = [pc EXCEPT ![c] = "wait"]

WorkerGet ==
  /\ worker = "get"
  /\ queue # <<>>
  /\ item' = Head(queue)
  /\ Admit(Tail(queue))
  /\ worker' = "take"
  /\ UNCHANGED <<left, radioVars, rxVars, boot, call, mode, frame, ret, patient, outcome>>

WorkerTake ==
  /\ worker = "take"
  /\ sem = "free"
  /\ sem' = "worker"
  /\ worker' = "stop"
  /\ UNCHANGED <<queue, item, left, listening, txmode, rx_armed, refused, rxVars, boot,
                 callVars, outcome>>

\* lora_recv_async() without a callback.  Its result is discarded, and the flag is
\* cleared whatever it was.
WorkerStop ==
  /\ worker = "stop"
  /\ \/ listening' = FALSE /\ refused' = refused \ {"stop"}
     \/ listening /\ UNCHANGED listening /\ refused' = refused \cup {"stop"}
  /\ rx_armed' = FALSE
  /\ worker' = "config"
  /\ UNCHANGED <<queue, item, left, sem, txmode, rxVars, boot, callVars, outcome>>

\* What became of the worker's frame.
Settle(result) == outcome' = [outcome EXCEPT ![item.from][item.call] = result]

\* The driver refuses to be configured while it listens.
WorkerConfig ==
  /\ worker = "config"
  /\ \/ /\ ~listening
        /\ txmode' = TRUE
        /\ left' = BusyRetries
        /\ worker' = "send"
        /\ UNCHANGED outcome
     \/ /\ Settle("failed")
        /\ worker' = "off"
        /\ UNCHANGED <<txmode, left>>
  /\ UNCHANGED <<queue, item, sem, listening, rx_armed, refused, rxVars, boot, callVars>>

\* Mutant: the retry counter is not tested.
WorkerSendMutant ==
  /\ worker = "send"
  /\ \/ left' = left - 1 /\ UNCHANGED <<worker, outcome>>
     \/ Settle("ok") /\ worker' = "off" /\ left' = 0
  /\ UNCHANGED <<queue, item, radioVars, rxVars, boot, callVars>>

\* One lora_send(); a busy channel is tried again after a back-off.
WorkerSend ==
  /\ worker = "send"
  /\ \/ /\ left > 0
        /\ left' = left - 1
        /\ UNCHANGED <<worker, outcome>>
     \/ /\ \/ ~listening /\ Settle("ok")
           \/ Settle("failed")
        /\ worker' = "off"
        /\ left' = 0
  /\ UNCHANGED <<queue, item, radioVars, rxVars, boot, callVars>>

\* lora_config() for reception.  Its result is discarded: when it fails the radio
\* is armed as it is configured.
WorkerOff ==
  /\ worker = "off"
  /\ \/ ~listening /\ txmode' = FALSE /\ refused' = refused \ {"off"}
     \/ UNCHANGED txmode /\ refused' = IF txmode THEN refused \cup {"off"} ELSE refused
  /\ worker' = "arm"
  /\ UNCHANGED <<queue, item, left, sem, listening, rx_armed, rxVars, boot,
                 callVars, outcome>>

WorkerArm ==
  /\ worker = "arm"
  /\ ArmRx
  /\ refused' = refused \ {"stop"}
  /\ worker' = "give"
  /\ UNCHANGED <<queue, item, left, sem, txmode, rxVars, boot, callVars, outcome>>

WorkerGive ==
  /\ worker = "give"
  /\ sem' = "free"
  /\ worker' = "reply"
  /\ UNCHANGED <<queue, item, left, listening, txmode, rx_armed, refused, rxVars, boot,
                 callVars, outcome>>

\* Mutant: the result is not stored before the semaphore is given.
WorkerReplyNoResult ==
  /\ worker = "reply"
  /\ frame' = IF item.done THEN [frame EXCEPT ![item.from].given = TRUE] ELSE frame
  /\ worker' = "get"
  /\ item' = NoItem
  /\ UNCHANGED <<queue, left, radioVars, rxVars, boot, pc, call, mode, ret, patient,
                 outcome>>

\* Mutant: only successful transmissions give the semaphore.
WorkerReplyNoGive ==
  /\ worker = "reply"
  /\ frame' = IF item.done /\ outcome[item.from][item.call] = "ok"
                THEN [frame EXCEPT ![item.from].given = TRUE] ELSE frame
  /\ worker' = "get"
  /\ item' = NoItem
  /\ UNCHANGED <<queue, left, radioVars, rxVars, boot, pc, call, mode, ret, patient,
                 outcome>>

\* The worker writes through the pointers of the item.  They lead to the stack
\* frame of the call that queued it while that call waits.  Once it has given
\* up they may lead to the frame of a later call of the same thread, or to
\* memory nobody waits on.
WorkerReply ==
  /\ worker = "reply"
  /\ LET c == item.from
         Own == pc[c] = "wait" /\ call[c] = item.call
         Reused == pc[c] # "idle" /\ call[c] # item.call
     IN  \/ /\ item.done /\ (Own \/ Reused)
            /\ frame' = [frame EXCEPT ![c] = [given |-> TRUE,
                                              result |-> outcome[c][item.call]]]
         \/ /\ ~item.done \/ ~Own
            /\ UNCHANGED frame
  /\ worker' = "get"
  /\ item' = NoItem
  /\ UNCHANGED <<queue, left, radioVars, rxVars, boot, pc, call, mode, ret, patient,
                 outcome>>
-----------------------------------------------------------------------------
(* The processing thread: mt_thread_fn() *)

RxGet ==
  /\ rx = "get"
  /\ rxq # <<>>
  /\ todo' = Head(rxq)
  /\ rxq' = Tail(rxq)
  /\ rx' = "process"
  /\ UNCHANGED <<queue, workVars, radioVars, frames, boot, callVars, outcome>>

\* The sends of meshtastic_router_process_lora_rx(): acknowledgements wait,
\* replies of modules and relays do not.
RxSend ==
  /\ rx = "process"
  /\ todo # <<>>
  /\ Enqueue(Rx, Head(todo))
  /\ todo' = Tail(todo)
  /\ UNCHANGED <<workVars, radioVars, rxq, frames, rx, boot>>

RxDone ==
  /\ rx = "process"
  /\ todo = <<>> \/ call[Rx] = MaxCalls
  /\ pc[Rx] = "idle"
  /\ rx' = "get"
  /\ todo' = <<>>
  /\ UNCHANGED <<queue, workVars, radioVars, rxq, frames, boot, callVars, outcome>>

\* No frame within the retry window and the flag says the radio is deaf.
RxTimeout ==
  /\ rx = "get"
  /\ rxq = <<>>
  /\ ~rx_armed
  /\ rx' = "take"
  /\ UNCHANGED <<queue, workVars, radioVars, rxq, frames, todo, boot, callVars, outcome>>

\* Mutant: the recovery does not take mt_radio_sem.
RxTakeMutant ==
  /\ rx = "take"
  /\ rx' = "arm"
  /\ UNCHANGED <<queue, workVars, radioVars, rxq, frames, todo, boot, callVars, outcome>>

RxTake ==
  /\ rx = "take"
  /\ sem = "free"
  /\ sem' = "rx"
  /\ rx' = "arm"
  /\ UNCHANGED <<queue, workVars, listening, txmode, rx_armed, refused, rxq, frames, todo,
                 boot, callVars, outcome>>

\* Mutant: the second test of the flag is inverted.
RxArmMutant ==
  /\ rx = "arm"
  /\ \/ rx_armed /\ ArmRx
     \/ ~rx_armed /\ UNCHANGED <<listening, rx_armed>>
  /\ rx' = "give"
  /\ UNCHANGED <<queue, workVars, sem, txmode, refused, rxq, frames, todo, boot, callVars,
                 outcome>>

\* The flag is read again, now under the semaphore.
RxArm ==
  /\ rx = "arm"
  /\ \/ ~rx_armed /\ ArmRx
     \/ rx_armed /\ UNCHANGED <<listening, rx_armed>>
  /\ rx' = "give"
  /\ UNCHANGED <<queue, workVars, sem, txmode, refused, rxq, frames, todo, boot, callVars,
                 outcome>>

RxGive ==
  /\ rx = "give"
  /\ sem' = "free"
  /\ rx' = "get"
  /\ UNCHANGED <<queue, workVars, listening, txmode, rx_armed, refused, rxq, frames, todo,
                 boot, callVars, outcome>>
-----------------------------------------------------------------------------
(* The end of meshtastic_radio_init(), with both threads running. *)

BootTake ==
  /\ boot = "take"
  /\ sem = "free"
  /\ sem' = "boot"
  /\ boot' = "arm"
  /\ UNCHANGED <<queue, workVars, listening, txmode, rx_armed, refused, rxVars, callVars,
                 outcome>>

BootArm ==
  /\ boot = "arm"
  /\ ArmRx
  /\ boot' = "give"
  /\ UNCHANGED <<queue, workVars, sem, txmode, refused, rxVars, callVars, outcome>>

BootGive ==
  /\ boot = "give"
  /\ sem' = "free"
  /\ boot' = "done"
  /\ UNCHANGED <<queue, workVars, listening, txmode, rx_armed, refused, rxVars, callVars,
                 outcome>>
-----------------------------------------------------------------------------
Worker ==
  \/ WorkerGet \/ WorkerTake \/ WorkerStop \/ WorkerConfig \/ WorkerSend
  \/ WorkerOff \/ WorkerArm \/ WorkerGive \/ WorkerReply

Processing ==
  RxGet \/ RxSend \/ RxDone \/ RxTimeout \/ RxTake \/ RxArm \/ RxGive

Boot == BootTake \/ BootArm \/ BootGive

Next ==
  \/ \E c \in App, wait \in Wait : Send(c, wait)
  \/ \E c \in Caller : Return(c) \/ GiveUp(c)
  \/ \E reaction \in Reaction : Receive(reaction)
  \/ Worker \/ Processing \/ Boot

Spec == Init /\ [][Next]_vars

\* The threads run when they can, the semaphore is handed to its waiters, and
\* the driver does not refuse to listen for ever.
Fairness ==
  /\ WF_vars(Worker) /\ SF_vars(WorkerTake)
  /\ WF_vars(Processing) /\ SF_vars(RxTake)
  /\ SF_vars(RxArm /\ rx_armed')
  /\ WF_vars(Boot) /\ SF_vars(BootTake)
  /\ \A c \in Caller : WF_vars(Return(c))

FairSpec == Spec /\ Fairness
-----------------------------------------------------------------------------
(* Properties *)

(* The type invariant: the queues keep their depths, and the worker and the
   receive thread are at a step of their loops. *)
TypeOK ==
  /\ queue \in Seq(Item) /\ Len(queue) <= QueueDepth
  /\ worker \in WorkerStep
  /\ item \in Item \cup {NoItem}
  /\ left \in 0 .. BusyRetries
  /\ sem \in {"free", "worker", "rx", "boot"}
  /\ listening \in BOOLEAN /\ txmode \in BOOLEAN /\ rx_armed \in BOOLEAN
  /\ refused \subseteq {"stop", "off"}
  /\ rxq \in Seq(Reaction) /\ Len(rxq) <= RxDepth
  /\ frames \in 0 .. MaxFrames
  /\ rx \in {"get", "process", "take", "arm", "give"}
  /\ todo \in Seq({"no_wait", "forever"})
  /\ boot \in {"take", "arm", "give", "done"}
  /\ pc \in [Caller -> {"idle", "put", "wait"}]
  /\ call \in [Caller -> 0 .. MaxCalls]
  /\ mode \in [Caller -> WaitType]
  /\ frame \in [Caller -> [given : BOOLEAN, result : Result]]
  /\ ret \in [Caller -> Result \cup {"none", "queued", "full", "again"}]
  /\ patient \in [Caller -> BOOLEAN]
  /\ outcome \in [Caller -> [1 .. MaxCalls -> Result \cup {"none", "queued"}]]

\* "Only TX and the surrounding stop/re-arm of async RX touch radio state and must
\* not race each other": once the driver has stopped, the radio does not listen
\* until the re-arm, whatever the processing thread and meshtastic_radio_init() do
\* meanwhile.  It listens while configured for transmission only if the driver
\* refused the latest restoring lora_config(), whose result the worker discards;
\* the next one that is accepted makes up for it.
RadioQuietDuringTx ==
  /\ worker \in {"config", "send", "off", "arm"} /\ "stop" \notin refused => ~listening
  /\ listening /\ txmode => "off" \in refused

\* Outside the critical sections of mt_radio_sem the flag never claims that a
\* deaf radio is armed, so the unlocked test of mt_thread_fn() cannot miss it.
DeafIsKnown == sem = "free" /\ ~listening => ~rx_armed

ReturnsOwnResult(c) ==
  pc[c] = "idle" /\ call[c] > 0 /\ mode[c] # "no_wait" /\ ret[c] # "again"
    => ret[c] = outcome[c][call[c]]

\* The worker answers through pointers into the caller's stack.  A thread whose
\* calls never timed out gets, from each blocking call, the result of the very
\* frame it queued, and gets it after that frame was handled.
OwnResult == \A c \in Caller : patient[c] => ReturnsOwnResult(c)

\* "Queue a wire frame and block until the outbound worker completes the
\* transmission or timeout expires": so for every thread, also after a call
\* that returned -EAGAIN.  It does not hold then.
OwnResultAlways == \A c \in Caller : ReturnsOwnResult(c)

\* Every blocking send returns.
BlockingCallReturns == \A c \in Caller : pc[c] # "idle" ~> pc[c] = "idle"

\* "If a TX left async RX un-armed, the radio is deaf - recover it."
HearsAgain == ~listening ~> listening
=============================================================================
