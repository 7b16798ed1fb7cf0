---------------------------- MODULE RadioProofs -----------------------------
(* Proofs about Radio.tla: the critical sections of mt_radio_sem keep the   *)
(* driver quiet during a transmission, and every blocking caller gets the   *)
(* result of its own frame, for any number of callers, queue depths and     *)
(* frames.                                                                  *)
EXTENDS Radio, TLAPS

\* Each holder of mt_radio_sem is between its take and its give, and what the
\* holder has done to the driver so far.
Holds ==
  /\ sem = "worker" <=> worker \in {"stop", "config", "send", "off", "arm", "give"}
  /\ sem = "rx" <=> rx \in {"arm", "give"}
  /\ sem = "boot" <=> boot \in {"arm", "give"}

Driver ==
  /\ txmode => worker \in {"send", "off"} \/ "off" \in refused
  /\ worker = "stop" \/ sem # "worker" => (~listening => ~rx_armed)
  /\ worker = "give" => (~listening => ~rx_armed)

IInv == Holds /\ RadioQuietDuringTx /\ Driver

\* The radio starts silent, with the semaphore free and the flag clear.
LEMMA InitIInv == Init => IInv
  BY DEF Init, IInv, Holds, RadioQuietDuringTx, Driver

\* Steps that touch neither the driver nor the positions of its users.
LEMMA Elsewhere ==
  ASSUME IInv, UNCHANGED <<worker, sem, listening, txmode, rx_armed, refused, rx, boot>>
  PROVE  IInv'
  BY DEF IInv, Holds, RadioQuietDuringTx, Driver

\* meshtastic_radio_send_wire_now() on the worker keeps the driver to itself.
LEMMA WorkerStepIInv == IInv /\ Worker => IInv'
  <1> SUFFICES ASSUME IInv, Worker PROVE IInv'
    OBVIOUS
  <1> USE DEF IInv, Holds, RadioQuietDuringTx, Driver, radioVars, rxVars, workVars
  <1>1. CASE WorkerGet
    BY <1>1 DEF WorkerGet
  <1>2. CASE WorkerTake
    BY <1>2 DEF WorkerTake
  <1>3. CASE WorkerStop
    BY <1>3 DEF WorkerStop
  <1>4. CASE WorkerConfig
    BY <1>4 DEF WorkerConfig
  <1>5. CASE WorkerSend
    BY <1>5 DEF WorkerSend
  <1>6. CASE WorkerOff
    <2>1. CASE ~listening /\ txmode' = FALSE /\ refused' = refused \ {"off"}
      BY <1>6, <2>1 DEF WorkerOff
    <2>2. CASE UNCHANGED txmode /\ refused' = IF txmode THEN refused \cup {"off"} ELSE refused
      BY <1>6, <2>2 DEF WorkerOff
    <2>3. QED
      BY <1>6, <2>1, <2>2 DEF WorkerOff
  <1>7. CASE WorkerArm
    BY <1>7 DEF WorkerArm, ArmRx
  <1>8. CASE WorkerGive
    BY <1>8 DEF WorkerGive
  <1>9. CASE WorkerReply
    BY <1>9 DEF WorkerReply
  <1>10. QED
    BY <1>1, <1>2, <1>3, <1>4, <1>5, <1>6, <1>7, <1>8, <1>9 DEF Worker

\* mt_thread_fn() re-arms only while it holds the semaphore.
LEMMA ProcessingStepIInv == IInv /\ Processing => IInv'
  <1> SUFFICES ASSUME IInv, Processing PROVE IInv'
    OBVIOUS
  <1> USE DEF IInv, Holds, RadioQuietDuringTx, Driver, radioVars, rxVars, workVars
  <1>1. CASE RxGet
    BY <1>1 DEF RxGet
  <1>2. CASE RxSend
    BY <1>2 DEF RxSend
  <1>3. CASE RxDone
    BY <1>3 DEF RxDone
  <1>4. CASE RxTimeout
    BY <1>4 DEF RxTimeout
  <1>5. CASE RxTake
    BY <1>5 DEF RxTake
  <1>6. CASE RxArm
    BY <1>6 DEF RxArm, ArmRx
  <1>7. CASE RxGive
    BY <1>7 DEF RxGive
  <1>8. QED
    BY <1>1, <1>2, <1>3, <1>4, <1>5, <1>6, <1>7 DEF Processing

\* meshtastic_radio_init() arms the receiver under the semaphore as well.
LEMMA BootStepIInv == IInv /\ Boot => IInv'
  <1> USE DEF IInv, Holds, RadioQuietDuringTx, Driver, radioVars, rxVars, workVars
  <1>1. IInv /\ BootTake => IInv'
    BY DEF BootTake
  <1>2. IInv /\ BootArm => IInv'
    BY DEF BootArm, ArmRx
  <1>3. IInv /\ BootGive => IInv'
    BY DEF BootGive
  <1>4. QED
    BY <1>1, <1>2, <1>3 DEF Boot

\* Every step of every thread preserves the inductive invariant.
LEMMA NextIInv == IInv /\ [Next]_vars => IInv'
  <1> SUFFICES ASSUME IInv, [Next]_vars PROVE IInv'
    OBVIOUS
  <1> USE DEF vars, workVars, radioVars, rxVars, callVars
  <1>1. ASSUME NEW c \in App, NEW wait \in Wait, Send(c, wait) PROVE IInv'
    BY <1>1, Elsewhere DEF Send
  <1>2. ASSUME NEW c \in Caller, Return(c) \/ GiveUp(c) PROVE IInv'
    BY <1>2, Elsewhere DEF Return, GiveUp
  <1>3. ASSUME NEW reaction \in Reaction, Receive(reaction) PROVE IInv'
    BY <1>3, Elsewhere DEF Receive
  <1>4. CASE Worker \/ Processing \/ Boot
    BY <1>4, WorkerStepIInv, ProcessingStepIInv, BootStepIInv
  <1>5. CASE UNCHANGED vars
    BY <1>5, Elsewhere
  <1>6. QED
    BY <1>1, <1>2, <1>3, <1>4, <1>5 DEF Next

\* The inductive invariant holds in every reachable state.
THEOREM Inductive == Spec => []IInv
  BY InitIInv, NextIInv, PTL DEF Spec

\* mt_radio_sem keeps the other threads from arming the driver between the stop
\* and the re-arm of meshtastic_radio_send_wire_now(): a radio that listens there
\* was not stopped, and one that listens with the configuration of a transmission
\* was not restored, in calls whose failure the code does not look at.
THEOREM DriverQuiet == Spec => []RadioQuietDuringTx
  <1>1. IInv => RadioQuietDuringTx
    BY DEF IInv
  <1>2. QED
    BY <1>1, Inductive, PTL

\* mt.radio_rx_armed never hides a deaf radio from mt_thread_fn().
THEOREM DeafNeverHidden == Spec => []DeafIsKnown
  <1>1. IInv => DeafIsKnown
    BY DEF IInv, Holds, Driver, DeafIsKnown
  <1>2. QED
    BY <1>1, Inductive, PTL
-----------------------------------------------------------------------------
(* The types, and the frames on their way through the worker. *)

ThreadType ==
  /\ worker \in WorkerStep /\ left \in 0 .. BusyRetries
  /\ sem \in {"free", "worker", "rx", "boot"}
  /\ listening \in BOOLEAN /\ txmode \in BOOLEAN /\ rx_armed \in BOOLEAN
  /\ refused \subseteq {"stop", "off"}
  /\ rxq \in Seq(Reaction) /\ Len(rxq) <= RxDepth
  /\ frames \in 0 .. MaxFrames
  /\ rx \in {"get", "process", "take", "arm", "give"}
  /\ todo \in Seq({"no_wait", "forever"})
  /\ boot \in {"take", "arm", "give", "done"}

CallType ==
  /\ queue \in Seq(Item) /\ Len(queue) <= QueueDepth
  /\ item \in Item \cup {NoItem}
  /\ pc \in [Caller -> {"idle", "put", "wait"}]
  /\ call \in [Caller -> 0 .. MaxCalls]
  /\ mode \in [Caller -> WaitType]
  /\ frame \in [Caller -> [given : BOOLEAN, result : Result]]
  /\ ret \in [Caller -> Result \cup {"none", "queued", "full", "again"}]
  /\ patient \in [Caller -> BOOLEAN]
  /\ outcome \in [Caller -> [1 .. MaxCalls -> Result \cup {"none", "queued"}]]

\* The frames on their way: the worker's at position 0, then the queue.
Positions == 0 .. Len(queue)

At(k) == IF k = 0 THEN item ELSE queue[k]

\* The worker has a frame outside k_msgq_get(), the frame's result is known once
\* it was sent, no frame is newer than its caller's latest call, and whoever is
\* inside outbound_enqueue() has called it.
Handled ==
  /\ worker # "get" => item \in Item
  /\ worker \in {"off", "arm", "give", "reply"} => outcome[item.from][item.call] \in Result
  /\ \A k \in Positions : At(k).call <= call[At(k).from]
  /\ \A c \in Caller : pc[c] # "idle" => call[c] > 0

\* The type invariant is the sum of its parts.
LEMMA TypeParts ==
  /\ TypeOK <=> ThreadType /\ CallType
  /\ TypeOK' <=> ThreadType' /\ CallType'
  <1>1. TypeOK <=> ThreadType /\ CallType
    BY DEF TypeOK, ThreadType, CallType
  <1>2. TypeOK' <=> ThreadType' /\ CallType'
    BY DEF TypeOK, ThreadType, CallType
  <1>3. QED
    BY <1>1, <1>2

\* Facts about constants used throughout.
LEMMA Constants ==
  /\ QueueDepth \in Nat /\ QueueDepth > 0 /\ RxDepth \in Nat /\ BusyRetries \in Nat
  /\ MaxCalls \in Nat /\ MaxFrames \in Nat
  /\ Rx \in Caller /\ App \subseteq Caller
  /\ Wait \subseteq WaitType /\ {"no_wait", "forever"} \subseteq WaitType
  /\ Reaction \subseteq Seq({"no_wait", "forever"})
  BY ConstantsAssumption DEF ConstantsAssumption, Caller, WaitType

\* Nothing is queued and nobody has called when the threads start.
LEMMA InitTypes == Init => ThreadType /\ CallType /\ Handled
  <1> SUFFICES ASSUME Init PROVE ThreadType /\ CallType /\ Handled
    OBVIOUS
  <1>1. listening \in BOOLEAN /\ txmode \in BOOLEAN /\ rx_armed \in BOOLEAN
    BY Zenon DEF Init
  <1>2. ThreadType
    BY <1>1, Constants DEF Init, ThreadType, WorkerStep
  <1>3. NoFrame \in [given : BOOLEAN, result : Result] /\ TRUE \in BOOLEAN
    BY DEF NoFrame, Result
  <1>4. CallType
    BY <1>3, Constants DEF Init, CallType, WaitType, Result
  <1>5. Handled
    BY Constants DEF Init, Handled, Positions, At, NoItem
  <1>6. QED
    BY <1>2, <1>4, <1>5

\* The threads stay at the steps of their loops and the receive queue at its depth.
LEMMA ThreadTypeStep ==
  ASSUME ThreadType, [Next]_vars
  PROVE  ThreadType'
  <1> USE DEF vars, workVars, radioVars, rxVars, callVars
  <1>0. ASSUME UNCHANGED <<worker, left, sem, listening, txmode, rx_armed, refused, rxVars, boot>>
        PROVE  ThreadType'
    BY <1>0 DEF ThreadType
  <1>1. ASSUME NEW c, NEW wait, Send(c, wait) PROVE ThreadType'
    BY <1>0, <1>1 DEF Send
  <1>2. ASSUME NEW c, Return(c) \/ GiveUp(c) PROVE ThreadType'
    BY <1>0, <1>2 DEF Return, GiveUp
  <1>3. ASSUME NEW reaction \in Reaction, Receive(reaction) PROVE ThreadType'
    BY <1>3, Constants, SMTT(30), ZenonT(30) DEF Receive, ThreadType
  <1>4. /\ listening' \in BOOLEAN /\ txmode' \in BOOLEAN /\ rx_armed' \in BOOLEAN
        /\ refused' \subseteq {"stop", "off"}
    <2>1. CASE UNCHANGED <<listening, txmode, rx_armed, refused>>
      BY <2>1, Zenon DEF ThreadType
    <2>2. CASE UNCHANGED txmode /\ ArmRx /\ (UNCHANGED refused \/ refused' = refused \ {"stop"})
      BY <2>2, Zenon DEF ThreadType, ArmRx
    <2>3. CASE WorkerStop
      BY <2>3, Zenon DEF ThreadType, WorkerStop
    <2>4. CASE WorkerConfig
      BY <2>4, Zenon DEF ThreadType, WorkerConfig
    <2>5. CASE WorkerOff
      BY <2>5, Zenon DEF ThreadType, WorkerOff
    <2>6. QED
      BY Zenon, <2>1, <2>2, <2>3, <2>4, <2>5
         DEF Next, Send, Return, GiveUp, Receive, Worker, WorkerGet, WorkerTake, WorkerSend,
             WorkerArm, WorkerGive, WorkerReply, Processing, RxGet, RxSend, RxDone, RxTimeout,
             RxTake, RxArm, RxGive, Boot, BootTake, BootArm, BootGive
  <1>5. CASE Worker
    <2>1. worker' \in WorkerStep
      BY <1>5 DEF Worker, WorkerGet, WorkerTake, WorkerStop, WorkerConfig, WorkerSend, WorkerOff,
         WorkerArm, WorkerGive, WorkerReply, WorkerStep, ThreadType
    <2>2. left' \in 0 .. BusyRetries
      BY <1>5, Constants DEF Worker, WorkerGet, WorkerTake, WorkerStop, WorkerConfig, WorkerSend,
         WorkerOff, WorkerArm, WorkerGive, WorkerReply, ThreadType
    <2>3. sem' \in {sem, "free", "worker"} /\ UNCHANGED <<rxVars, boot>>
      BY <1>5 DEF Worker, WorkerGet, WorkerTake, WorkerStop, WorkerConfig, WorkerSend, WorkerOff,
         WorkerArm, WorkerGive, WorkerReply
    <2>4. QED
      BY <1>4, <2>1, <2>2, <2>3 DEF ThreadType
  <1>6. CASE Processing
    <2>1. /\ UNCHANGED <<worker, left, frames, boot>> /\ sem' \in {sem, "free", "rx"}
          /\ rx' \in {"get", "process", "take", "arm", "give"}
      BY <1>6 DEF Processing, RxGet, RxSend, RxDone, RxTimeout, RxTake, RxArm, RxGive, ThreadType
    <2>2. CASE RxGet
      <3>1. rxq # <<>> /\ rxq' = Tail(rxq) /\ todo' = Head(rxq) /\ Head(rxq) \in Reaction
        BY <2>2 DEF RxGet, ThreadType
      <3>2. rxq' \in Seq(Reaction) /\ Len(rxq') <= RxDepth
        BY <3>1, Constants DEF ThreadType
      <3>3. todo' \in Seq({"no_wait", "forever"})
        BY <3>1, Constants
      <3>4. QED
        BY <1>4, <2>1, <3>2, <3>3 DEF ThreadType
    <2>3. CASE RxSend
      <3>1. rxq' = rxq /\ todo # <<>> /\ todo' = Tail(todo)
        BY <2>3 DEF RxSend
      <3>2. todo' \in Seq({"no_wait", "forever"})
        BY <3>1 DEF ThreadType
      <3>3. QED
        BY <1>4, <2>1, <3>1, <3>2 DEF ThreadType
    <2>4. CASE RxDone \/ RxTimeout \/ RxTake \/ RxArm \/ RxGive
      <3>1. rxq' = rxq /\ (todo' = todo \/ todo' = <<>>)
        BY <2>4 DEF RxDone, RxTimeout, RxTake, RxArm, RxGive
      <3>2. <<>> \in Seq({"no_wait", "forever"}) /\ todo \in Seq({"no_wait", "forever"})
        BY DEF ThreadType
      <3>3. todo' \in Seq({"no_wait", "forever"})
        BY <3>1, <3>2, Zenon
      <3>4. QED
        BY <1>4, <2>1, <3>1, <3>3 DEF ThreadType
    <2>5. QED
      BY <1>6, <2>2, <2>3, <2>4, Zenon DEF Processing
  <1>7. CASE Boot
    BY <1>4, <1>7 DEF Boot, BootTake, BootArm, BootGive, ThreadType
  <1>8. CASE UNCHANGED vars
    BY <1>0, <1>8
  <1>9. QED
    BY <1>1, <1>2, <1>3, <1>5, <1>6, <1>7, <1>8 DEF Next

\* Every position holds a frame, or nothing in the worker's case.
LEMMA PositionType ==
  ASSUME CallType, NEW k \in Positions
  PROVE  /\ At(k) \in Item \cup {NoItem} /\ (k # 0 => At(k) \in Item)
         /\ At(k).from \in Caller /\ At(k).call \in 0 .. MaxCalls
  <1>1. At(k) \in Item \cup {NoItem} /\ (k # 0 => At(k) \in Item)
    BY DEF CallType, Positions, At
  <1>2. NoItem.from \in Caller /\ NoItem.call \in 0 .. MaxCalls
    BY Constants DEF NoItem
  <1>3. \A x \in Item : x.from \in Caller /\ x.call \in 0 .. MaxCalls
    BY Constants DEF Item
  <1>4. QED
    BY <1>1, <1>2, <1>3

\* A frame appended to a queue comes last.
LEMMA AppendFacts ==
  ASSUME NEW q \in Seq(Item), NEW x \in Item
  PROVE  /\ Append(q, x) \in Seq(Item) /\ Len(Append(q, x)) = Len(q) + 1
         /\ Append(q, x)[Len(q) + 1] = x
         /\ \A k \in 1 .. Len(q) : Append(q, x)[k] = q[k]
  OBVIOUS

\* k_msgq_put() leaves the older frames where they are.
LEMMA Appended ==
  ASSUME CallType, NEW x \in Item, queue' = Append(queue, x), Len(queue) < QueueDepth
  PROVE  /\ queue' \in Seq(Item) /\ Len(queue') <= QueueDepth /\ Len(queue') = Len(queue) + 1
         /\ \A k \in 1 .. Len(queue) : queue'[k] = queue[k]
         /\ queue'[Len(queue')] = x
  BY Constants DEF CallType

\* outbound_enqueue() as its effect: call n, whose frame is queued or not.
Called(c, wait, n) ==
  /\ n = call[c] + 1 /\ pc[c] = "idle"
  /\ call' = [call EXCEPT ![c] = n] /\ mode' = [mode EXCEPT ![c] = wait]
  /\ patient' = patient
  /\ \/ queue' = queue
     \/ /\ Len(queue) < QueueDepth /\ wait = "no_wait"
        /\ queue' = Append(queue, ItemOf(c, n, FALSE))
     \/ /\ Len(queue) < QueueDepth /\ wait # "no_wait" /\ pc'[c] = "wait"
        /\ queue' = Append(queue, ItemOf(c, n, TRUE))
  /\ outcome' = outcome \/ outcome' = [outcome EXCEPT ![c][n] = "queued"]
  /\ \/ /\ wait = "no_wait" /\ pc' = pc /\ frame' = frame
        /\ ret' = [ret EXCEPT ![c] = "queued"] \/ ret' = [ret EXCEPT ![c] = "full"]
     \/ /\ wait # "no_wait" /\ frame' = [frame EXCEPT ![c] = NoFrame] /\ ret' = ret
        /\ pc' = [pc EXCEPT ![c] = "wait"] \/ pc' = [pc EXCEPT ![c] = "put"]

\* Every call has that effect, blocking or not, and with the queue full or not.
LEMMA EnqueueShape ==
  ASSUME CallType, NEW c \in Caller, NEW wait \in WaitType, Enqueue(c, wait)
  PROVE  \E n \in 1 .. MaxCalls : Called(c, wait, n)
  <1> PICK n : n = call[c] + 1
    OBVIOUS
  <1>1. n \in 1 .. MaxCalls /\ call' = [call EXCEPT ![c] = n] /\ call'[c] = n
    BY Constants DEF Enqueue, CallType
  <1>2. CASE wait = "no_wait"
    BY <1>1, <1>2, Zenon DEF Enqueue, EnqueueNoWait, Called
  <1>3. CASE wait # "no_wait"
    <2>1. pc' = [pc EXCEPT ![c] = "wait"] => pc'[c] = "wait"
      BY DEF CallType
    <2>2. QED
      BY <1>1, <1>3, <2>1, Zenon DEF Enqueue, EnqueueWait, Called
  <1>4. QED
    BY <1>2, <1>3

\* A call keeps the types and leaves the worker's frame alone.
LEMMA EnqueueTypes ==
  ASSUME CallType, Handled, NEW c \in Caller, NEW wait \in WaitType, Enqueue(c, wait),
         UNCHANGED <<worker, item>>
  PROVE  CallType' /\ Handled'
  <1>1. PICK n \in 1 .. MaxCalls : Called(c, wait, n)
    BY EnqueueShape
  <1>2. ItemOf(c, n, TRUE) \in Item /\ ItemOf(c, n, FALSE) \in Item
    BY DEF ItemOf, Item
  <1>3. /\ queue' \in Seq(Item) /\ Len(queue') <= QueueDepth
        /\ \A k \in Positions' :
             \/ k \in Positions /\ At(k)' = At(k)
             \/ At(k)'.from = c /\ At(k)'.call = n
    <2>0. queue \in Seq(Item) /\ Len(queue) \in Nat /\ Len(queue) <= QueueDepth /\ item' = item
      BY DEF CallType
    <2>1. CASE queue' = queue
      <3>1. Positions' = Positions /\ \A k \in Positions : At(k)' = At(k)
        BY <2>0, <2>1, Zenon DEF Positions, At
      <3>2. QED
        BY <2>0, <2>1, <3>1, Zenon
    <2>2. ASSUME NEW x \in Item, x.from = c, x.call = n, queue' = Append(queue, x),
                 Len(queue) < QueueDepth
          PROVE  /\ queue' \in Seq(Item) /\ Len(queue') <= QueueDepth
                 /\ \A k \in Positions' :
                      \/ k \in Positions /\ At(k)' = At(k)
                      \/ At(k)'.from = c /\ At(k)'.call = n
      <3>1. /\ queue' \in Seq(Item) /\ Len(queue') <= QueueDepth /\ Len(queue') = Len(queue) + 1
            /\ \A k \in 1 .. Len(queue) : queue'[k] = queue[k]
            /\ queue'[Len(queue')] = x
        BY <2>2, Appended
      <3>2. ASSUME NEW k \in Positions'
            PROVE  \/ k \in Positions /\ At(k)' = At(k)
                   \/ At(k)'.from = c /\ At(k)'.call = n
        <4>1. k \in 0 .. Len(queue) + 1
          BY <3>1, <3>2 DEF Positions
        <4>2. CASE k \in 0 .. Len(queue)
          BY <2>0, <3>1, <4>2 DEF Positions, At
        <4>3. CASE k = Len(queue) + 1
          BY <2>0, <2>2, <3>1, <4>3 DEF At
        <4>4. QED
          BY <2>0, <4>1, <4>2, <4>3
      <3>3. QED
        BY <3>1, <3>2
    <2>3. ItemOf(c, n, TRUE).from = c /\ ItemOf(c, n, TRUE).call = n
      BY DEF ItemOf
    <2>4. ItemOf(c, n, FALSE).from = c /\ ItemOf(c, n, FALSE).call = n
      BY DEF ItemOf
    <2>5. QED
      BY <1>1, <1>2, <2>1, <2>2, <2>3, <2>4, Zenon DEF Called
  <1>4. NoFrame \in [given : BOOLEAN, result : Result]
    BY DEF NoFrame, Result
  <1>5. /\ outcome' \in [Caller -> [1 .. MaxCalls -> Result \cup {"none", "queued"}]]
        /\ \A d \in Caller, m \in 1 .. MaxCalls :
             outcome'[d][m] = outcome[d][m] \/ (d = c /\ m = n)
    <2>1. outcome \in [Caller -> [1 .. MaxCalls -> Result \cup {"none", "queued"}]]
      BY DEF CallType
    <2>2. outcome' = outcome \/ outcome' = [outcome EXCEPT ![c][n] = "queued"]
      BY <1>1 DEF Called
    <2>3. [outcome[c] EXCEPT ![n] = "queued"] \in [1 .. MaxCalls -> Result \cup {"none", "queued"}]
      BY <2>1
    <2>4. CASE outcome' = outcome
      BY <2>1, <2>4
    <2>5. CASE outcome' = [outcome EXCEPT ![c][n] = "queued"]
      <3>1. outcome' = [outcome EXCEPT ![c] = [outcome[c] EXCEPT ![n] = "queued"]]
        BY <2>5
      <3>2. outcome' \in [Caller -> [1 .. MaxCalls -> Result \cup {"none", "queued"}]]
        BY <2>1, <2>3, <3>1
      <3>3. QED
        BY <2>1, <3>1, <3>2, Zenon
    <2>6. QED
      BY <2>2, <2>4, <2>5
  <1>6. patient' \in [Caller -> BOOLEAN]
    BY <1>1 DEF Called, CallType
  <1>7. frame' \in [Caller -> [given : BOOLEAN, result : Result]]
    BY <1>1, <1>4, Zenon DEF Called, CallType
  <1>8. CallType'
    <2>1. pc' \in [Caller -> {"idle", "put", "wait"}]
      BY <1>1, Zenon DEF Called, CallType
    <2>2. call' \in [Caller -> 0 .. MaxCalls] /\ mode' \in [Caller -> WaitType]
      BY <1>1, Constants DEF Called, CallType
    <2>3. ret' \in [Caller -> Result \cup {"none", "queued", "full", "again"}]
      BY <1>1, Zenon DEF Called, CallType
    <2>4. item' \in Item \cup {NoItem}
      BY Zenon DEF CallType
    <2>5. QED
      BY <1>3, <1>5, <1>6, <1>7, <2>1, <2>2, <2>3, <2>4 DEF CallType
  <1>9. Handled'
    <2>1. worker \in {"off", "arm", "give", "reply"} =>
            outcome'[item.from][item.call] = outcome[item.from][item.call]
      <3>0. /\ item = At(0) /\ 0 \in Positions
            /\ call \in [Caller -> 0 .. MaxCalls]
        BY DEF At, Positions, CallType
      <3>1. worker \in {"off", "arm", "give", "reply"} =>
              /\ item.from \in Caller /\ item.call \in 1 .. MaxCalls
              /\ item.call <= call[item.from] /\ call[item.from] \in 0 .. MaxCalls
        BY <3>0 DEF Handled, Item
      <3>2. n > call[c] /\ n \in Nat
        BY <1>1, <3>0, Constants DEF Called
      <3>3. worker \in {"off", "arm", "give", "reply"} => ~(item.from = c /\ item.call = n)
        BY <3>0, <3>1, <3>2, Constants
      <3>4. QED
        BY <1>5, <3>1, <3>3
    <2>2. \A d \in Caller : call[d] <= call'[d] /\ call'[c] = n /\ call[d] \in Nat /\ call'[d] \in Nat
      BY <1>1, Constants DEF Called, CallType
    <2>3. \A k \in Positions' : At(k)'.call <= call'[At(k)'.from]
      BY <1>1, <1>3, <2>2, PositionType DEF Called, Handled
    <2>4. \A d \in Caller : pc'[d] # "idle" => call'[d] > 0
      BY <1>1, <2>2 DEF Called, Handled, CallType
    <2>5. QED
      BY <2>1, <2>3, <2>4, Zenon DEF Handled, Result
  <1>10. QED
    BY <1>8, <1>9

\* k_msgq_get(): every frame moves up by one, and the frame of one caller that was
\* blocked on the full queue takes the last position.
Admitted(c) ==
  /\ pc[c] = "put" /\ pc' = [pc EXCEPT ![c] = "wait"]
  /\ Len(queue') = Len(queue) /\ At(Len(queue))' = ItemOf(c, call[c], TRUE)

MovedUp(k) == k + 1 \in Positions /\ At(k)' = At(k + 1)

\* WorkerGet is such a move, with or without an admitted caller.
LEMMA GetShape ==
  ASSUME CallType, Handled, WorkerGet
  PROVE  /\ item' \in Item /\ queue' \in Seq(Item) /\ Len(queue') <= QueueDepth
         /\ \/ pc' = pc /\ \A k \in Positions' : MovedUp(k)
            \/ \E c \in Caller :
                 /\ Admitted(c) /\ call[c] \in 1 .. MaxCalls
                 /\ \A k \in Positions' : k # Len(queue) => MovedUp(k)
  <1>1. /\ queue \in Seq(Item) /\ Len(queue) \in Nat /\ Len(queue) > 0 /\ Len(queue) <= QueueDepth
        /\ item' = Head(queue) /\ queue # <<>>
    BY DEF CallType, WorkerGet
  <1> PICK rest : rest = Tail(queue)
    BY Zenon
  <1>2. /\ rest \in Seq(Item) /\ Len(rest) = Len(queue) - 1 /\ item' = queue[1] /\ item' \in Item
        /\ \A k \in 1 .. Len(rest) : rest[k] = queue[k + 1]
    BY <1>1
  <1>3. CASE queue' = rest /\ UNCHANGED pc
    <2>1. ASSUME NEW k \in Positions' PROVE MovedUp(k)
      <3>1. k \in 0 .. Len(queue) - 1
        BY <1>2, <1>3, <2>1 DEF Positions
      <3>2. k + 1 \in Positions /\ k + 1 # 0
        BY <1>1, <3>1 DEF Positions
      <3>3. (IF k = 0 THEN item' ELSE queue'[k]) = queue[k + 1]
        BY <1>1, <1>2, <1>3, <3>1
      <3>4. QED
        BY <3>2, <3>3 DEF MovedUp, At
    <2>2. QED
      BY <1>1, <1>2, <1>3, <2>1, Constants
  <1>4. ASSUME NEW c \in Caller, pc[c] = "put", queue' = Append(rest, ItemOf(c, call[c], TRUE)),
               pc' = [pc EXCEPT ![c] = "wait"]
        PROVE  /\ Admitted(c) /\ call[c] \in 1 .. MaxCalls
               /\ queue' \in Seq(Item) /\ Len(queue') <= QueueDepth
               /\ \A k \in Positions' : k # Len(queue) => MovedUp(k)
    <2>1. call[c] \in 1 .. MaxCalls
      <3>1. call[c] \in 0 .. MaxCalls
        BY DEF CallType
      <3>2. call[c] > 0
        BY <1>4 DEF Handled
      <3>3. QED
        BY <3>1, <3>2, Constants
    <2>2. ItemOf(c, call[c], TRUE) \in Item
      BY <2>1 DEF ItemOf, Item
    <2>3. /\ queue' \in Seq(Item) /\ Len(queue') = Len(queue)
          /\ queue'[Len(queue)] = ItemOf(c, call[c], TRUE)
          /\ \A k \in 1 .. Len(rest) : queue'[k] = rest[k]
      <3> PICK x \in Item : x = ItemOf(c, call[c], TRUE)
        BY <2>2, Zenon
      <3>1. queue' = Append(rest, x)
        BY <1>4
      <3>2. /\ queue' \in Seq(Item) /\ Len(queue') = Len(rest) + 1 /\ queue'[Len(rest) + 1] = x
            /\ \A k \in 1 .. Len(rest) : queue'[k] = rest[k]
        BY <1>2, <3>1, AppendFacts, Zenon
      <3>3. Len(rest) + 1 = Len(queue)
        BY <1>1, <1>2
      <3>4. QED
        BY <3>2, <3>3, Zenon
    <2>4. (IF Len(queue) = 0 THEN item' ELSE queue'[Len(queue)]) = ItemOf(c, call[c], TRUE)
      BY <1>1, <2>3
    <2>5. ASSUME NEW k \in Positions', k # Len(queue) PROVE MovedUp(k)
      <3>1. k \in 0 .. Len(queue) - 1
        BY <1>1, <2>3, <2>5 DEF Positions
      <3>2. k + 1 \in Positions /\ k + 1 # 0
        BY <1>1, <3>1 DEF Positions
      <3>3. (IF k = 0 THEN item' ELSE queue'[k]) = queue[k + 1]
        BY <1>1, <1>2, <2>3, <3>1
      <3>4. QED
        BY <3>2, <3>3 DEF MovedUp, At
    <2>6. Admitted(c)
      BY <1>1, <1>4, <2>3, <2>4, Zenon DEF Admitted, At
    <2>7. QED
      BY <1>1, <2>1, <2>3, <2>5, <2>6, Constants
  <1>5. QED
    BY <1>2, <1>3, <1>4, Zenon DEF WorkerGet, Admit

\* The worker takes a frame.
LEMMA GetTypes ==
  ASSUME CallType, Handled, WorkerGet
  PROVE  CallType' /\ Handled'
  <1>1. /\ item' \in Item /\ queue' \in Seq(Item) /\ Len(queue') <= QueueDepth
        /\ \/ pc' = pc /\ \A k \in Positions' : MovedUp(k)
           \/ \E c \in Caller :
                /\ Admitted(c) /\ call[c] \in 1 .. MaxCalls
                /\ \A k \in Positions' : k # Len(queue) => MovedUp(k)
    BY GetShape
  <1>2. worker' = "take" /\ UNCHANGED <<call, mode, frame, ret, patient, outcome>>
    BY DEF WorkerGet
  <1>3. pc' \in [Caller -> {"idle", "put", "wait"}]
    BY <1>1, Zenon DEF Admitted, CallType
  <1>4. CallType'
    BY <1>1, <1>2, <1>3 DEF CallType
  <1>5. ASSUME NEW k \in Positions' PROVE At(k)'.call <= call'[At(k)'.from]
    <2>1. CASE MovedUp(k)
      BY <1>2, <2>1 DEF MovedUp, Handled
    <2>2. ASSUME NEW c \in Caller, Admitted(c), call[c] \in 1 .. MaxCalls, k = Len(queue)
          PROVE  At(k)'.call <= call'[At(k)'.from]
      <3>1. k = Len(queue') /\ At(k)' = ItemOf(c, call[c], TRUE)
        BY <2>2, Zenon DEF Admitted, At
      <3>2. At(k)'.call = call[c] /\ At(k)'.from = c
        BY <3>1 DEF ItemOf
      <3>3. QED
        BY <1>2, <2>2, <3>2, Constants
    <2>3. QED
      BY <1>1, <2>1, <2>2
  <1>6. \A c \in Caller : pc'[c] # "idle" => call'[c] > 0
    BY <1>1, <1>2, Constants, Zenon DEF Admitted, Handled, CallType
  <1>7. QED
    BY <1>1, <1>2, <1>4, <1>5, <1>6 DEF Handled

\* What Settle() writes down is the result of the worker's frame and of no other.
LEMMA SettleFacts ==
  ASSUME CallType, item \in Item, NEW result \in Result, Settle(result)
  PROVE  /\ item.from \in Caller /\ item.call \in 1 .. MaxCalls
         /\ outcome' \in [Caller -> [1 .. MaxCalls -> Result \cup {"none", "queued"}]]
         /\ outcome'[item.from][item.call] = result
         /\ \A c \in Caller, n \in 1 .. MaxCalls :
              outcome'[c][n] = outcome[c][n] \/ (c = item.from /\ n = item.call)
  <1> PICK d, m : d = item.from /\ m = item.call
    OBVIOUS
  <1>1. d \in Caller /\ m \in 1 .. MaxCalls
    BY DEF Item
  <1>2. outcome \in [Caller -> [1 .. MaxCalls -> Result \cup {"none", "queued"}]]
    BY DEF CallType
  <1>3. outcome' = [outcome EXCEPT ![d] = [outcome[d] EXCEPT ![m] = result]]
    BY DEF Settle
  <1>4. [outcome[d] EXCEPT ![m] = result] \in [1 .. MaxCalls -> Result \cup {"none", "queued"}]
    BY <1>1, <1>2
  <1>5. outcome' \in [Caller -> [1 .. MaxCalls -> Result \cup {"none", "queued"}]]
    BY <1>1, <1>2, <1>3, <1>4
  <1>6. QED
    BY <1>1, <1>2, <1>3, <1>5, Zenon

\* lora_config() and lora_send(): the outcome of the worker's frame is settled.
LEMMA SendTypes ==
  ASSUME CallType, Handled, WorkerConfig \/ WorkerSend
  PROVE  CallType' /\ Handled'
  <1>1. /\ item \in Item /\ UNCHANGED <<queue, item, pc, call, mode, frame, ret, patient>>
        /\ \/ worker' = "send" /\ outcome' = outcome
           \/ worker' = "off" /\ \E result \in Result : Settle(result)
    BY DEF WorkerConfig, WorkerSend, Handled, callVars, Result
  <1>2. Positions' = Positions /\ \A k \in Positions : At(k)' = At(k)
    BY <1>1 DEF Positions, At
  <1>3. CASE worker' = "send" /\ outcome' = outcome
    BY <1>1, <1>2, <1>3, SMTT(30), ZenonT(30) DEF CallType, Handled
  <1>4. ASSUME NEW result \in Result, Settle(result), worker' = "off" PROVE CallType' /\ Handled'
    <2>1. /\ outcome' \in [Caller -> [1 .. MaxCalls -> Result \cup {"none", "queued"}]]
          /\ outcome'[item.from][item.call] = result
      BY <1>1, <1>4, SettleFacts
    <2>2. CallType'
      BY <1>1, <2>1 DEF CallType
    <2>3. QED
      BY <1>1, <1>2, <1>4, <2>1, <2>2 DEF Handled, Result
  <1>5. QED
    BY <1>1, <1>3, <1>4

\* The worker answers and lets go of its frame.
LEMMA ReplyTypes ==
  ASSUME CallType, Handled, WorkerReply
  PROVE  CallType' /\ Handled'
  <1>1. /\ item \in Item /\ outcome[item.from][item.call] \in Result
        /\ UNCHANGED <<queue, pc, call, mode, ret, patient, outcome>>
        /\ worker' = "get" /\ item' = NoItem
    BY DEF WorkerReply, Handled
  <1>2. frame' \in [Caller -> [given : BOOLEAN, result : Result]]
    <2> PICK f : f = [given |-> TRUE, result |-> outcome[item.from][item.call]]
      BY Zenon
    <2>1. f \in [given : BOOLEAN, result : Result]
      BY <1>1, SMTT(30), ZenonT(30)
    <2>2. frame' = frame \/ frame' = [frame EXCEPT ![item.from] = f]
      BY DEF WorkerReply
    <2>3. QED
      BY <2>1, <2>2, Zenon DEF CallType
  <1>3. CallType'
    BY <1>1, <1>2 DEF CallType
  <1>4. \A k \in Positions' : At(k)'.call <= call'[At(k)'.from]
    <2>1. ASSUME NEW k \in Positions', k # 0 PROVE At(k)'.call <= call'[At(k)'.from]
      BY <1>1, <2>1 DEF Positions, At, Handled
    <2>2. At(0)'.call <= call'[At(0)'.from]
      <3>1. At(0)' = NoItem /\ call[Rx] \in 0 .. MaxCalls
        BY <1>1, Constants, SMTT(30), ZenonT(30) DEF At, CallType
      <3>2. QED
        BY <1>1, <3>1, Constants DEF NoItem
    <2>3. QED
      BY <2>1, <2>2
  <1>5. QED
    BY <1>1, <1>3, <1>4 DEF Handled

\* k_sem_take() returns, with the semaphore given or at the timeout.
LEMMA ReturnTypes ==
  ASSUME CallType, Handled, NEW c \in Caller, Return(c) \/ GiveUp(c)
  PROVE  CallType' /\ Handled'
  <1>1. /\ UNCHANGED <<queue, item, worker, call, mode, outcome>>
        /\ pc' = [pc EXCEPT ![c] = "idle"]
    BY DEF Return, GiveUp, workVars
  <1>2. frame[c].result \in Result /\ NoFrame \in [given : BOOLEAN, result : Result]
    BY DEF CallType, NoFrame, Result
  <1>3. ret' \in [Caller -> Result \cup {"none", "queued", "full", "again"}]
    BY <1>2, Zenon DEF Return, GiveUp, CallType
  <1>4. frame' \in [Caller -> [given : BOOLEAN, result : Result]]
    BY <1>2, ZenonT(30), SMTT(30) DEF Return, GiveUp, CallType
  <1>5. patient' \in [Caller -> BOOLEAN]
    BY Zenon DEF Return, GiveUp, CallType
  <1>6. CallType'
    BY <1>1, <1>3, <1>4, <1>5, Zenon DEF CallType
  <1>7. Positions' = Positions /\ \A k \in Positions : At(k)' = At(k)
    BY <1>1 DEF Positions, At
  <1>8. QED
    BY <1>1, <1>6, <1>7, Zenon DEF Handled, CallType

\* Steps that touch no call and no frame.
LEMMA NoCallTypes ==
  ASSUME CallType, Handled, UNCHANGED <<queue, item, callVars, outcome>>,
         worker' # "get" => worker # "get",
         worker' \in {"off", "arm", "give", "reply"} => worker \in {"off", "arm", "give", "reply"}
  PROVE  CallType' /\ Handled'
  <1>1. CallType'
    BY DEF CallType, callVars
  <1>2. Positions' = Positions /\ \A k \in Positions : At(k)' = At(k)
    BY SMTT(30), ZenonT(30) DEF Positions, At
  <1>3. QED
    BY <1>1, <1>2 DEF Handled, callVars

\* The steps that only concern the radio, reception and the start-up.
Quiet ==
  \/ \E reaction \in Reaction : Receive(reaction)
  \/ WorkerTake \/ WorkerStop \/ WorkerOff \/ WorkerArm \/ WorkerGive
  \/ RxGet \/ RxDone \/ RxTimeout \/ RxTake \/ RxArm \/ RxGive \/ Boot
  \/ UNCHANGED vars

\* They touch no call, and the worker's frame stays with it.
LEMMA QuietFacts ==
  ASSUME Quiet
  PROVE  /\ UNCHANGED <<queue, item, callVars, outcome>>
         /\ worker' # "get" => worker # "get"
         /\ worker' \in {"off", "arm", "give", "reply"} =>
              worker \in {"off", "arm", "give", "reply"}
  BY DEF Quiet, Receive, WorkerTake, WorkerStop, WorkerOff, WorkerArm, WorkerGive, RxGet, RxDone,
     RxTimeout, RxTake, RxArm, RxGive, Boot, BootTake, BootArm, BootGive, vars, workVars, callVars

\* The steps that concern calls, one by one.
LEMMA StepCases ==
  ASSUME ThreadType, [Next]_vars
  PROVE  \/ \E c \in Caller, wait \in WaitType : Enqueue(c, wait) /\ UNCHANGED <<worker, item>>
         \/ \E c \in Caller : Return(c) \/ GiveUp(c)
         \/ WorkerGet \/ WorkerConfig \/ WorkerSend \/ WorkerReply \/ Quiet
  <1>1. ASSUME NEW c \in App, NEW wait \in Wait, Send(c, wait)
        PROVE  c \in Caller /\ wait \in WaitType /\ Enqueue(c, wait) /\ UNCHANGED <<worker, item>>
    BY <1>1, Constants DEF Send, workVars
  <1>2. CASE RxSend
    <2>1. Head(todo) \in {"no_wait", "forever"}
      BY <1>2 DEF RxSend, ThreadType
    <2>2. QED
      BY <1>2, <2>1, Constants DEF RxSend, workVars
  <1>3. QED
    BY <1>1, <1>2 DEF Next, Worker, Processing, Quiet

\* The types, and what the worker knows of its frame, are kept by every step.
LEMMA TypesInductive == Spec => [](ThreadType /\ CallType /\ Handled)
  <1>1. ThreadType /\ CallType /\ Handled /\ [Next]_vars => (ThreadType /\ CallType /\ Handled)'
    <2> SUFFICES ASSUME ThreadType, CallType, Handled, [Next]_vars PROVE CallType' /\ Handled'
      BY ThreadTypeStep
    <2>1. ASSUME NEW c \in Caller, NEW wait \in WaitType, Enqueue(c, wait),
                 UNCHANGED <<worker, item>>
          PROVE  CallType' /\ Handled'
      BY <2>1, EnqueueTypes
    <2>2. ASSUME NEW c \in Caller, Return(c) \/ GiveUp(c) PROVE CallType' /\ Handled'
      BY <2>2, ReturnTypes
    <2>3. CASE WorkerGet
      BY <2>3, GetTypes
    <2>4. CASE WorkerConfig \/ WorkerSend
      BY <2>4, SendTypes
    <2>5. CASE WorkerReply
      BY <2>5, ReplyTypes
    <2>6. CASE Quiet
      BY <2>6, QuietFacts, NoCallTypes
    <2>7. QED
      BY <2>1, <2>2, <2>3, <2>4, <2>5, <2>6, StepCases
  <1>2. QED
    BY <1>1, InitTypes, PTL DEF Spec

\* meshtastic_outbound.c and meshtastic_radio.c: the queues keep their depths, the
\* retries their limit, and every waiting caller a result of its type.
THEOREM TypeCorrect == Spec => []TypeOK
  <1>1. ThreadType /\ CallType /\ Handled => TypeOK
    BY TypeParts, Zenon
  <1>2. QED
    BY <1>1, TypesInductive, PTL
-----------------------------------------------------------------------------
(* The answers.  A caller that never gave up has at most one frame with a
   semaphore on its way, the one of the call it waits in; that frame is gone
   once the semaphore is given, and so nothing changes its outcome any more. *)

\* The frame of a blocking call carries the semaphore.
Carries ==
  /\ \A c \in Caller : pc[c] # "idle" => mode[c] # "no_wait"
  /\ \A k \in Positions :
       /\ At(k).call = call[At(k).from] /\ At(k).call > 0 /\ mode[At(k).from] # "no_wait"
       => At(k).done

\* Whose frame with a semaphore is on its way waits for it.
Awaited ==
  \A k \in Positions :
    At(k).done /\ patient[At(k).from] =>
      /\ At(k).call = call[At(k).from] /\ pc[At(k).from] = "wait"
      /\ ~frame[At(k).from].given

Single ==
  \A k, l \in Positions :
    /\ At(k).done /\ At(l).done /\ At(k).from = At(l).from /\ patient[At(k).from]
    => k = l

\* The semaphore of the stack frame is given with the result of the call's frame.
Answered ==
  \A c \in Caller : patient[c] /\ frame[c].given =>
    /\ pc[c] # "put"
    /\ pc[c] = "wait" => frame[c].result = outcome[c][call[c]]

Answers == Carries /\ Awaited /\ Single /\ Answered /\ OwnResult

\* Nothing is on its way when the threads start.
LEMMA InitAnswers == Init => Answers
  <1> SUFFICES ASSUME Init PROVE Answers
    OBVIOUS
  <1>1. Positions = {0} /\ At(0) = NoItem /\ ~NoItem.done /\ NoItem.call = 0
    BY DEF Init, Positions, At, NoItem
  <1>2. Carries /\ Awaited /\ Single
    BY <1>1 DEF Init, Carries, Awaited, Single
  <1>3. \A c \in Caller : ~frame[c].given /\ call[c] = 0
    BY Zenon DEF Init, NoFrame
  <1>4. QED
    BY <1>2, <1>3 DEF Answers, Answered, OwnResult, ReturnsOwnResult

\* A new call adds at most one position, behind the others.
LEMMA EnqueuePositions ==
  ASSUME CallType, NEW c \in Caller, NEW wait, NEW n \in 1 .. MaxCalls, Called(c, wait, n),
         item' = item, NEW k \in Positions'
  PROVE  \/ k \in Positions /\ At(k)' = At(k)
         \/ /\ k = Len(queue) + 1 /\ At(k)'.from = c /\ At(k)'.call = n
            /\ wait = "no_wait" => ~At(k)'.done
            /\ wait # "no_wait" => At(k)'.done /\ pc'[c] = "wait"
  <1>1. queue \in Seq(Item) /\ Len(queue) \in Nat
    BY DEF CallType
  <1>2. CASE queue' = queue
    <2>1. k \in Positions
      BY <1>2 DEF Positions
    <2>2. QED
      BY <1>2, <2>1 DEF At
  <1>3. ASSUME NEW x \in Item, queue' = Append(queue, x), x.from = c, x.call = n,
               wait = "no_wait" => ~x.done,
               wait # "no_wait" => x.done /\ pc'[c] = "wait"
        PROVE  \/ k \in Positions /\ At(k)' = At(k)
               \/ /\ k = Len(queue) + 1 /\ At(k)'.from = c /\ At(k)'.call = n
                  /\ wait = "no_wait" => ~At(k)'.done
                  /\ wait # "no_wait" => At(k)'.done /\ pc'[c] = "wait"
    <2>1. /\ Len(queue') = Len(queue) + 1 /\ queue'[Len(queue) + 1] = x
          /\ \A i \in 1 .. Len(queue) : queue'[i] = queue[i]
      BY <1>1, <1>3, AppendFacts
    <2>2. k \in 0 .. Len(queue) + 1
      BY <2>1 DEF Positions
    <2>3. CASE k \in 0 .. Len(queue)
      BY <1>1, <2>1, <2>3 DEF Positions, At
    <2>4. CASE k = Len(queue) + 1
      <3>1. (IF k = 0 THEN item' ELSE queue'[k]) = x
        BY <1>1, <2>1, <2>4
      <3>2. QED
        BY <1>3, <2>4, <3>1 DEF At
    <2>5. QED
      BY <1>1, <2>2, <2>3, <2>4
  <1>4. /\ ItemOf(c, n, TRUE) \in Item /\ ItemOf(c, n, TRUE).from = c
        /\ ItemOf(c, n, TRUE).call = n /\ ItemOf(c, n, TRUE).done
    BY DEF ItemOf, Item
  <1>5. /\ ItemOf(c, n, FALSE) \in Item /\ ItemOf(c, n, FALSE).from = c
        /\ ItemOf(c, n, FALSE).call = n /\ ~ItemOf(c, n, FALSE).done
    BY DEF ItemOf, Item
  <1>6. QED
    BY <1>2, <1>3, <1>4, <1>5, Zenon DEF Called

\* A caller that is not inside outbound_enqueue() awaits nothing, so the frame of
\* its new call is the only one it awaits.
LEMMA EnqueueAnswers ==
  ASSUME CallType, Handled, Answers, NEW c \in Caller, NEW wait \in WaitType, Enqueue(c, wait),
         UNCHANGED <<worker, item>>
  PROVE  Answers'
  <1>1. PICK n \in 1 .. MaxCalls : Called(c, wait, n)
    BY EnqueueShape
  <1>2. /\ call \in [Caller -> 0 .. MaxCalls] /\ pc \in [Caller -> {"idle", "put", "wait"}]
        /\ mode \in [Caller -> WaitType] /\ DOMAIN frame = Caller /\ DOMAIN ret = Caller
        /\ outcome \in [Caller -> [1 .. MaxCalls -> Result \cup {"none", "queued"}]]
    BY Zenon DEF CallType
  <1>3. /\ pc[c] = "idle" /\ n = call[c] + 1 /\ call'[c] = n /\ mode'[c] = wait
        /\ patient' = patient
        /\ wait = "no_wait" => pc'[c] = "idle" /\ frame' = frame
        /\ wait # "no_wait" => pc'[c] # "idle" /\ frame'[c] = NoFrame
        /\ \A d \in Caller \ {c} : /\ call'[d] = call[d] /\ mode'[d] = mode[d] /\ pc'[d] = pc[d]
                                   /\ frame'[d] = frame[d] /\ ret'[d] = ret[d]
                                   /\ outcome'[d] = outcome[d]
    BY <1>1, <1>2, SMTT(30), ZenonT(30) DEF Called
  <1>4. ASSUME NEW k \in Positions PROVE patient[At(k).from] /\ At(k).done => At(k).from # c
    BY <1>3, Zenon DEF Answers, Awaited
  <1>5. ASSUME NEW k \in Positions'
        PROVE  \/ k \in Positions /\ At(k)' = At(k)
               \/ /\ k = Len(queue) + 1 /\ At(k)'.from = c /\ At(k)'.call = n
                  /\ wait = "no_wait" => ~At(k)'.done
                  /\ wait # "no_wait" => At(k)'.done /\ pc'[c] = "wait"
    BY <1>1, EnqueuePositions
  <1>6. ~NoFrame.given
    BY DEF NoFrame
  <1>7. Carries'
    <2>1. \A d \in Caller : pc'[d] # "idle" => mode'[d] # "no_wait"
      BY <1>3, Zenon DEF Answers, Carries
    <2>2. ASSUME NEW k \in Positions', At(k)'.call = call'[At(k)'.from], At(k)'.call > 0,
                 mode'[At(k)'.from] # "no_wait"
          PROVE  At(k)'.done
      <3>1. CASE k \in Positions /\ At(k)' = At(k)
        <4>1. At(k).from \in Caller /\ At(k).call \in 0 .. MaxCalls /\ At(k).call <= call[At(k).from]
          BY <3>1, PositionType, SMTT(30), ZenonT(30) DEF Handled
        <4>2. At(k).from # c
          BY <1>2, <1>3, <2>2, <3>1, <4>1, Constants, SMTT(30), ZenonT(30)
        <4>3. /\ call'[At(k).from] = call[At(k).from]
              /\ mode'[At(k).from] = mode[At(k).from]
          BY <1>3, <4>1, <4>2
        <4>4. QED
          BY <2>2, <3>1, <4>3, Zenon DEF Answers, Carries
      <3>2. CASE ~(k \in Positions /\ At(k)' = At(k))
        <4>1. At(k)'.from = c /\ (wait # "no_wait" => At(k)'.done)
          BY <1>5, <3>2
        <4>2. wait # "no_wait"
          BY <1>3, <2>2, <4>1, Zenon
        <4>3. QED
          BY <4>1, <4>2, Zenon
      <3>3. QED
        BY <3>1, <3>2, ZenonT(30), SMTT(30)
    <2>3. QED
      BY <2>1, <2>2, Zenon DEF Carries
  <1>8. Awaited'
    <2> SUFFICES ASSUME NEW k \in Positions', At(k)'.done, patient[At(k)'.from]
                 PROVE  /\ At(k)'.call = call'[At(k)'.from] /\ pc'[At(k)'.from] = "wait"
                        /\ ~frame'[At(k)'.from].given
      BY <1>3, SMTT(30), ZenonT(30) DEF Awaited
    <2>1. CASE k \in Positions /\ At(k)' = At(k)
      <3>1. At(k).from \in Caller \ {c}
        BY <1>4, <2>1, PositionType, Zenon
      <3>2. QED
        BY <1>3, <2>1, <3>1 DEF Answers, Awaited
    <2>2. CASE ~(k \in Positions /\ At(k)' = At(k))
      BY <1>3, <1>5, <1>6, <2>2, Zenon
    <2>3. QED
      BY <2>1, <2>2, Zenon
  <1>9. Single'
    <2> SUFFICES ASSUME NEW k \in Positions', NEW l \in Positions', At(k)'.done, At(l)'.done,
                        At(k)'.from = At(l)'.from, patient[At(k)'.from]
                 PROVE  k = l
      BY <1>3, Zenon DEF Single
    <2>1. CASE k \in Positions /\ At(k)' = At(k) /\ l \in Positions /\ At(l)' = At(l)
      BY <2>1, Zenon DEF Answers, Single
    <2>2. CASE ~(k \in Positions /\ At(k)' = At(k)) /\ ~(l \in Positions /\ At(l)' = At(l))
      BY <1>5, <2>2, Zenon
    <2>3. CASE k \in Positions /\ At(k)' = At(k) /\ ~(l \in Positions /\ At(l)' = At(l))
      BY <1>4, <1>5, <2>3, Zenon
    <2>4. CASE ~(k \in Positions /\ At(k)' = At(k)) /\ l \in Positions /\ At(l)' = At(l)
      BY <1>4, <1>5, <2>4, SMTT(30), ZenonT(30)
    <2>5. QED
      BY <2>1, <2>2, <2>3, <2>4, Zenon
  <1>10. Answered'
    <2> SUFFICES ASSUME NEW d \in Caller, patient[d], frame'[d].given
                 PROVE  /\ pc'[d] # "put"
                        /\ pc'[d] = "wait" => frame'[d].result = outcome'[d][call'[d]]
      BY <1>3, Zenon DEF Answered
    <2>1. CASE d = c
      BY <1>3, <1>6, <2>1, Zenon
    <2>2. CASE d # c
      BY <1>3, <2>2, Zenon DEF Answers, Answered
    <2>3. QED
      BY <2>1, <2>2, ZenonT(30), SMTT(30)
  <1>11. OwnResult'
    <2> SUFFICES ASSUME NEW d \in Caller, patient[d], pc'[d] = "idle", call'[d] > 0,
                        mode'[d] # "no_wait", ret'[d] # "again"
                 PROVE  ret'[d] = outcome'[d][call'[d]]
      BY <1>3, ZenonT(30) DEF OwnResult, ReturnsOwnResult
    <2>1. d # c
      BY <1>3
    <2>2. QED
      BY <1>3, <2>1, Zenon DEF Answers, OwnResult, ReturnsOwnResult
  <1>12. QED
    BY <1>7, <1>8, <1>9, <1>10, <1>11 DEF Answers

\* A caller whose semaphore was given reads its own result; one that gives up is
\* no longer patient.
LEMMA ReturnAnswers ==
  ASSUME CallType, Answers, NEW c \in Caller, Return(c) \/ GiveUp(c)
  PROVE  Answers'
  <1>1. /\ UNCHANGED <<queue, item, call, mode, outcome>>
        /\ pc[c] = "wait" /\ pc' = [pc EXCEPT ![c] = "idle"]
        /\ Return(c) => /\ frame[c].given /\ patient' = patient
                        /\ frame' = [frame EXCEPT ![c] = NoFrame]
                        /\ ret' = [ret EXCEPT ![c] = frame[c].result]
        /\ ~Return(c) => /\ patient' = [patient EXCEPT ![c] = FALSE] /\ frame' = frame
                         /\ ret' = [ret EXCEPT ![c] = "again"]
    BY Zenon DEF Return, GiveUp, workVars
  <1>2. /\ pc'[c] = "idle"
        /\ Return(c) => frame[c].given /\ ret'[c] = frame[c].result
        /\ ~frame'[c].given \/ ~patient'[c]
        /\ patient'[c] => patient[c] /\ Return(c)
        /\ \A d \in Caller \ {c} : /\ pc'[d] = pc[d] /\ frame'[d] = frame[d]
                                   /\ ret'[d] = ret[d] /\ patient'[d] = patient[d]
    BY <1>1 DEF CallType, NoFrame
  <1>3. Positions' = Positions /\ \A k \in Positions : At(k)' = At(k)
    BY <1>1, SMTT(30), ZenonT(30) DEF Positions, At
  <1>4. ASSUME NEW k \in Positions, At(k).done, patient'[At(k).from]
        PROVE  At(k).from \in Caller \ {c}
    <2>1. At(k).from \in Caller
      BY PositionType, SMTT(30), ZenonT(30)
    <2>2. QED
      BY <1>2, <1>4, <2>1 DEF Answers, Awaited
  <1>5. Carries'
    BY <1>1, <1>2, <1>3, SMTT(30), ZenonT(30) DEF Answers, Carries
  <1>6. Awaited'
    <2> SUFFICES ASSUME NEW k \in Positions, At(k).done, patient'[At(k).from]
                 PROVE  /\ At(k).call = call[At(k).from] /\ pc'[At(k).from] = "wait"
                        /\ ~frame'[At(k).from].given
      BY <1>1, <1>3 DEF Awaited
    <2> PICK d \in Caller \ {c} : d = At(k).from
      BY <1>4, SMTT(30), ZenonT(30)
    <2>1. pc'[d] = pc[d] /\ frame'[d] = frame[d] /\ patient'[d] = patient[d]
      BY <1>2, ZenonT(30), SMTT(30)
    <2>2. QED
      BY <2>1, Zenon DEF Answers, Awaited
  <1>7. Single'
    <2> SUFFICES ASSUME NEW k \in Positions, NEW l \in Positions, At(k).done, At(l).done,
                        At(k).from = At(l).from, patient'[At(k).from]
                 PROVE  k = l
      BY <1>3 DEF Single
    <2> PICK d \in Caller \ {c} : d = At(k).from
      BY <1>4, SMTT(30), ZenonT(30)
    <2>1. patient'[d] = patient[d]
      BY <1>2, Zenon
    <2>2. QED
      BY <2>1, Zenon DEF Answers, Single
  <1>8. Answered'
    <2> SUFFICES ASSUME NEW d \in Caller, patient'[d], frame'[d].given
                 PROVE  /\ pc'[d] # "put"
                        /\ pc'[d] = "wait" => frame'[d].result = outcome[d][call[d]]
      BY <1>1, Zenon DEF Answered
    <2>1. d # c
      BY <1>2, Zenon
    <2>2. pc'[d] = pc[d] /\ frame'[d] = frame[d] /\ patient'[d] = patient[d]
      BY <1>2, <2>1, Zenon
    <2>3. QED
      BY <2>2, Zenon DEF Answers, Answered
  <1>9. OwnResult'
    <2> SUFFICES ASSUME NEW d \in Caller, patient'[d], pc'[d] = "idle", call[d] > 0,
                        mode[d] # "no_wait", ret'[d] # "again"
                 PROVE  ret'[d] = outcome[d][call[d]]
      BY <1>1, SMTT(30), ZenonT(30) DEF OwnResult, ReturnsOwnResult
    <2>1. CASE d = c
      BY <1>1, <1>2, <2>1, SMTT(30), ZenonT(30) DEF Answers, Answered
    <2>2. CASE d # c
      BY <1>2, <2>2 DEF Answers, OwnResult, ReturnsOwnResult
    <2>3. QED
      BY <2>1, <2>2, Zenon
  <1>10. QED
    BY <1>5, <1>6, <1>7, <1>8, <1>9, SMTT(30), ZenonT(30) DEF Answers

\* The move of the queue keeps what is true of its frames, and a caller that is
\* let in waits for the frame it has put there.
LEMMA GetAnswers ==
  ASSUME CallType, Handled, Answers, WorkerGet
  PROVE  Answers'
  <1>1. UNCHANGED <<call, mode, frame, ret, patient, outcome>>
    BY SMTT(30), ZenonT(30) DEF WorkerGet
  <1>2. CASE pc' = pc /\ \A k \in Positions' : MovedUp(k)
    <2>1. Carries' /\ Awaited'
      BY <1>1, <1>2 DEF MovedUp, Answers, Carries, Awaited
    <2>2. Single'
      <3> SUFFICES ASSUME NEW k \in Positions', NEW l \in Positions', At(k)'.done, At(l)'.done,
                          At(k)'.from = At(l)'.from, patient[At(k)'.from]
                   PROVE  k = l
        BY <1>1 DEF Single
      <3>1. k + 1 = l + 1
        BY <1>2 DEF MovedUp, Answers, Single
      <3>2. QED
        BY <3>1, SMTT(30), ZenonT(30) DEF Positions
    <2>3. QED
      BY <1>1, <1>2, <2>1, <2>2, SMTT(30), ZenonT(30) DEF Answers, Answered, OwnResult, ReturnsOwnResult
  <1>3. ASSUME NEW c \in Caller, Admitted(c), \A k \in Positions' : k # Len(queue) => MovedUp(k)
        PROVE  Answers'
    <2>1. /\ pc[c] = "put" /\ pc'[c] = "wait" /\ \A d \in Caller \ {c} : pc'[d] = pc[d]
      BY <1>3 DEF Admitted, CallType
    <2>2. ASSUME NEW k \in Positions', ~MovedUp(k)
          PROVE  k = Len(queue) /\ At(k)'.from = c /\ At(k)'.call = call[c] /\ At(k)'.done
      <3>1. k = Len(queue) /\ k = Len(queue') /\ At(k)' = ItemOf(c, call[c], TRUE)
        BY <1>3, <2>2, Zenon DEF Admitted, At
      <3>2. QED
        BY <3>1 DEF ItemOf
    <2>3. ASSUME NEW k \in Positions', MovedUp(k), At(k)'.done, patient[At(k)'.from]
          PROVE  At(k)'.from \in Caller \ {c}
      <3>1. At(k)'.from \in Caller
        BY <2>3, PositionType, Zenon DEF MovedUp
      <3>2. QED
        BY <2>1, <2>3, <3>1 DEF MovedUp, Answers, Awaited
    <2>4. Carries'
      <3>1. \A d \in Caller : pc'[d] # "idle" => mode[d] # "no_wait"
        BY <2>1, Zenon DEF Answers, Carries
      <3>2. QED
        BY <1>1, <2>2, <3>1 DEF MovedUp, Answers, Carries
    <2>5. Awaited'
      <3> SUFFICES ASSUME NEW k \in Positions', At(k)'.done, patient[At(k)'.from]
                   PROVE  /\ At(k)'.call = call[At(k)'.from] /\ pc'[At(k)'.from] = "wait"
                          /\ ~frame[At(k)'.from].given
        BY <1>1, SMTT(30), ZenonT(30) DEF Awaited
      <3>1. CASE MovedUp(k)
        BY <2>1, <2>3, <3>1, Zenon DEF MovedUp, Answers, Awaited
      <3>2. CASE ~MovedUp(k)
        BY <2>1, <2>2, <3>2, Zenon DEF Answers, Answered
      <3>3. QED
        BY <3>1, <3>2
    <2>6. Single'
      <3> SUFFICES ASSUME NEW k \in Positions', NEW l \in Positions', At(k)'.done, At(l)'.done,
                          At(k)'.from = At(l)'.from, patient[At(k)'.from]
                   PROVE  k = l
        BY <1>1 DEF Single
      <3>1. CASE MovedUp(k) /\ MovedUp(l)
        <4>1. k + 1 = l + 1
          BY <3>1, Zenon DEF MovedUp, Answers, Single
        <4>2. QED
          BY <4>1 DEF Positions
      <3>2. CASE ~MovedUp(k) \/ ~MovedUp(l)
        BY <2>2, <2>3, <3>2, Zenon
      <3>3. QED
        BY <3>1, <3>2, Zenon
    <2>7. Answered' /\ OwnResult'
      BY <1>1, <2>1 DEF Answers, Answered, OwnResult, ReturnsOwnResult
    <2>8. QED
      BY <2>4, <2>5, <2>6, <2>7 DEF Answers
  <1>4. QED
    BY <1>2, <1>3, GetShape

\* The outcome of the worker's frame is settled before its caller is answered, and
\* a caller that was answered, or that has returned, has no frame in the worker.
LEMMA SendAnswers ==
  ASSUME CallType, Handled, Answers, WorkerConfig \/ WorkerSend
  PROVE  Answers'
  <1>1. /\ item \in Item /\ UNCHANGED <<queue, item, pc, call, mode, frame, ret, patient>>
        /\ outcome' = outcome \/ \E result \in Result : Settle(result)
    BY DEF WorkerConfig, WorkerSend, Handled, callVars, Result
  <1>2. Positions' = Positions /\ \A k \in Positions : At(k)' = At(k)
    BY <1>1, SMTT(30), ZenonT(30) DEF Positions, At
  <1>3. Carries' /\ Awaited' /\ Single'
    BY <1>1, <1>2 DEF Answers, Carries, Awaited, Single
  <1>4. /\ item.from \in Caller /\ item.call \in 1 .. MaxCalls
        /\ \A d \in Caller, n \in 1 .. MaxCalls :
             outcome'[d][n] = outcome[d][n] \/ (d = item.from /\ n = item.call)
    BY <1>1, SettleFacts DEF Item
  <1>5. ASSUME NEW d \in Caller, patient[d], mode[d] # "no_wait", call[d] > 0,
               pc[d] # "wait" \/ frame[d].given
        PROVE  outcome'[d][call[d]] = outcome[d][call[d]]
    <2>1. call[d] \in 1 .. MaxCalls
      <3>1. call[d] \in 0 .. MaxCalls
        BY DEF CallType
      <3>2. QED
        BY <1>5, <3>1, Constants
    <2>2. 0 \in Positions /\ At(0) = item
      BY DEF Positions, At, CallType
    <2>3. ~(d = item.from /\ call[d] = item.call)
      BY <1>5, <2>2 DEF Answers, Carries, Awaited
    <2>4. QED
      BY <1>4, <2>1, <2>3
  <1>6. Answered'
    <2> SUFFICES ASSUME NEW d \in Caller, patient[d], frame[d].given
                 PROVE  /\ pc[d] # "put"
                        /\ pc[d] = "wait" => frame[d].result = outcome'[d][call[d]]
      BY <1>1, Zenon DEF Answered
    <2>1. pc[d] = "wait" => mode[d] # "no_wait" /\ call[d] > 0
      BY DEF Answers, Carries, Handled
    <2>2. QED
      BY <1>5, <2>1, Zenon DEF Answers, Answered
  <1>7. OwnResult'
    <2> SUFFICES ASSUME NEW d \in Caller, patient[d], pc[d] = "idle", call[d] > 0,
                        mode[d] # "no_wait", ret[d] # "again"
                 PROVE  ret[d] = outcome'[d][call[d]]
      BY <1>1 DEF OwnResult, ReturnsOwnResult
    <2>1. QED
      BY <1>5, Zenon DEF Answers, OwnResult, ReturnsOwnResult
  <1>8. QED
    BY <1>3, <1>6, <1>7, Zenon DEF Answers

\* The worker's pointers lead to the stack frame of a caller that still waits in
\* the call that queued the frame, if that caller never gave up.
LEMMA ReplyAnswers ==
  ASSUME CallType, Handled, Answers, WorkerReply
  PROVE  Answers'
  <1>1. /\ item \in Item /\ item.from \in Caller
        /\ UNCHANGED <<queue, pc, call, mode, ret, patient, outcome>>
        /\ item' = NoItem
    BY Zenon DEF WorkerReply, Handled, Item
  <1>2. 0 \in Positions /\ At(0) = item /\ At(0)' = NoItem /\ ~NoItem.done /\ NoItem.call = 0
    BY <1>1 DEF Positions, At, CallType, NoItem
  <1>3. Positions' = Positions /\ \A k \in Positions : k # 0 => At(k)' = At(k)
    BY <1>1, Zenon DEF Positions, At
  <1>4. \A d \in Caller : frame'[d] = frame[d] \/ (d = item.from /\ item.done)
    BY Zenon DEF WorkerReply, CallType
  <1>5. item.done /\ patient[item.from] =>
          /\ pc[item.from] = "wait" /\ call[item.from] = item.call
          /\ frame'[item.from].result = outcome[item.from][call[item.from]]
    <2> SUFFICES ASSUME item.done, patient[item.from]
                 PROVE  /\ pc[item.from] = "wait" /\ call[item.from] = item.call
                        /\ frame'[item.from].result = outcome[item.from][call[item.from]]
      BY Zenon
    <2>1. pc[item.from] = "wait" /\ call[item.from] = item.call
      BY <1>2, ZenonT(30), SMTT(30) DEF Answers, Awaited
    <2>2. frame' = [frame EXCEPT ![item.from] = [given |-> TRUE,
                                                 result |-> outcome[item.from][item.call]]]
      BY <2>1, Zenon DEF WorkerReply
    <2>3. QED
      BY <1>1, <2>1, <2>2, SMTT(30), ZenonT(30) DEF CallType
  <1>6. Carries'
    BY <1>1, <1>2, <1>3 DEF Answers, Carries
  <1>7. Awaited'
    <2> SUFFICES ASSUME NEW k \in Positions, k # 0, At(k).done, patient[At(k).from]
                 PROVE  /\ At(k).call = call[At(k).from] /\ pc[At(k).from] = "wait"
                        /\ ~frame'[At(k).from].given
      BY <1>1, <1>2, <1>3, Zenon DEF Awaited
    <2>1. At(k).from \in Caller /\ ~(At(k).from = item.from /\ item.done)
      BY <1>2, PositionType, SMTT(30), ZenonT(30) DEF Answers, Single
    <2>2. QED
      BY <1>4, <2>1, Zenon DEF Answers, Awaited
  <1>8. Single'
    BY <1>1, <1>2, <1>3 DEF Answers, Single
  <1>9. Answered'
    BY <1>1, <1>4, <1>5 DEF Answers, Answered
  <1>10. OwnResult'
    BY <1>1 DEF Answers, OwnResult, ReturnsOwnResult
  <1>11. QED
    BY <1>6, <1>7, <1>8, <1>9, <1>10, SMTT(30), ZenonT(30) DEF Answers

\* outbound_enqueue() and the worker: a thread none of whose calls has timed out
\* gets from each blocking call the result of the very frame it queued, for any
\* number of threads, any queue depth and any interleaving.
THEOREM CallersGetTheirResult == Spec => []OwnResult
  <1>1. (ThreadType /\ CallType /\ Handled) /\ Answers /\ [Next]_vars => Answers'
    <2> SUFFICES ASSUME ThreadType, CallType, Handled, Answers, [Next]_vars PROVE Answers'
      OBVIOUS
    <2>1. ASSUME NEW c \in Caller, NEW wait \in WaitType, Enqueue(c, wait),
                 UNCHANGED <<worker, item>>
          PROVE  Answers'
      BY <2>1, EnqueueAnswers
    <2>2. ASSUME NEW c \in Caller, Return(c) \/ GiveUp(c) PROVE Answers'
      BY <2>2, ReturnAnswers
    <2>3. CASE WorkerGet
      BY <2>3, GetAnswers
    <2>4. CASE WorkerConfig \/ WorkerSend
      BY <2>4, SendAnswers
    <2>5. CASE WorkerReply
      BY <2>5, ReplyAnswers
    <2>6. CASE Quiet
      <3>1. UNCHANGED <<queue, item, callVars, outcome>>
        BY <2>6, QuietFacts
      <3>2. Positions' = Positions /\ \A k \in Positions : At(k)' = At(k)
        BY <3>1, SMTT(30), ZenonT(30) DEF Positions, At
      <3>3. pc' = pc /\ call' = call /\ mode' = mode /\ frame' = frame /\ patient' = patient
        BY <3>1 DEF callVars
      <3>4. Carries /\ Awaited /\ Single
        BY DEF Answers
      <3>5. Carries'
        BY <3>2, <3>3, <3>4, Zenon DEF Carries
      <3>6. Awaited'
        BY <3>2, <3>3, <3>4, Zenon DEF Awaited
      <3>7. Single'
        BY <3>2, <3>3, <3>4 DEF Single
      <3>8. Answered' /\ OwnResult'
        BY <3>1 DEF Answers, Answered, OwnResult, ReturnsOwnResult, callVars
      <3>9. QED
        BY <3>5, <3>6, <3>7, <3>8 DEF Answers
    <2>7. QED
      BY <2>1, <2>2, <2>3, <2>4, <2>5, <2>6, StepCases
  <1>2. Answers => OwnResult
    BY DEF Answers
  <1>3. QED
    BY <1>1, <1>2, TypesInductive, InitAnswers, PTL DEF Spec
=============================================================================
