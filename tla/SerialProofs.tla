---------------------------- MODULE SerialProofs ----------------------------
(***************************************************************************)
(* Proofs about Serial: the types and bounds, that no wake-up is lost, and *)
(* that the transport is a FromRadio stream, so that packets and handshake *)
(* frames reach the phone in order.                                        *)
(***************************************************************************)
EXTENDS Serial, FromRadioProofs

-----------------------------------------------------------------------------
(* The operations on the work queue and on the queue of frames *)

Distinct(s) == \A i, j \in 1 .. Len(s) : s[i] = s[j] => i = j

(* k_work_submit_to_queue() queues its item, once, and keeps the others. *)
LEMMA SubmitFacts ==
  ASSUME work \in Seq(Work), Distinct(work), NEW w \in Work, Submit(w)
  PROVE  /\ work' \in Seq(Work) /\ Distinct(work')
         /\ \E i \in 1 .. Len(work') : work'[i] = w
         /\ \A i \in 1 .. Len(work) : \E j \in 1 .. Len(work') : work'[j] = work[i]
<1>1. CASE \E i \in 1 .. Len(work) : work[i] = w
  BY <1>1 DEF Submit
<1>2. CASE ~\E i \in 1 .. Len(work) : work[i] = w
  <2>1. work' = Append(work, w)
    BY <1>2 DEF Submit
  <2>2. /\ work' \in Seq(Work) /\ Len(work') = Len(work) + 1 /\ Len(work) \in Nat
        /\ \A i \in 1 .. Len(work) : work'[i] = work[i]
        /\ work'[Len(work) + 1] = w
    BY <2>1, AppendAdds
  <2>3. Distinct(work')
    BY <1>2, <2>2 DEF Distinct
  <2> QED BY <2>2, <2>3
<1> QED BY <1>1, <1>2

(* Three different items are all that the work queue can hold. *)
LEMMA WorkBound ==
  ASSUME work \in Seq(Work), Distinct(work)
  PROVE  Len(work) <= 3
<1>1. SUFFICES ASSUME Len(work) > 3 PROVE FALSE
  BY DEF Distinct
<1>2. Len(work) \in Nat /\ \A i \in {1, 2, 3, 4} : i \in 1 .. Len(work) /\ work[i] \in Work
  BY <1>1
<1> QED BY <1>2 DEF Distinct, Work

-----------------------------------------------------------------------------
(* The inductive invariant *)

(* Frames: no frame on its way is of a newer request than the handshake's, and
   the transmit interrupt is enabled while the ring has frames. *)
FrameInv ==
  /\ QueueInv /\ ConfigType /\ Upto(queue, config.request)
  /\ held \in Frame /\ (IsConfig(held) => held.request <= config.request)
  /\ tx \in Seq(Frame) /\ Len(tx) <= TxSize /\ Upto(tx, config.request)
  /\ tx_irq \in BOOLEAN /\ (tx # <<>> => tx_irq)
  /\ heard = [packets |-> heard.packets, config |-> heard.config]
  /\ heard.config \in Seq(Frame)
  /\ \A i \in 1 .. Len(heard.config) : heard.config[i].request <= config.request

(* Threads: every work item is queued at most once. *)
ThreadInv ==
  /\ work \in Seq(Work) /\ Distinct(work)
  /\ running \in Running /\ notify \subseteq Producer

(* The requests in the receive ring are new ones, each newer than those before. *)
RxInv ==
  /\ rx \in Seq(ToRadio) /\ Len(rx) <= RxSize
  /\ packets \in 0 .. MaxPackets /\ commands \in 0 .. MaxCommands
  /\ requests \in 0 .. MaxRequests /\ config.request <= requests
  /\ \A i \in 1 .. Len(rx) : rx[i].type = "want_config" =>
       config.request < rx[i].request /\ rx[i].request <= requests
  /\ \A i, j \in 1 .. Len(rx) :
       i < j /\ rx[i].type = "want_config" /\ rx[j].type = "want_config" =>
         rx[i].request < rx[j].request

Inv == FrameInv /\ ThreadInv /\ RxInv

frameVars == <<apiVars, held, tx, tx_irq, heard>>

(* The three parts of the invariant depend on no other variables than these: the
   frames and what the phone heard of them, ... *)
LEMMA FrameKept == ASSUME FrameInv, UNCHANGED frameVars PROVE FrameInv'
<1>1. /\ queue' = queue /\ config' = config /\ cut' = cut /\ held' = held /\ tx' = tx
      /\ tx_irq' = tx_irq /\ heard' = heard
  BY DEF frameVars, apiVars
<1>2. QueueInv'
  BY <1>1 DEF FrameInv, QueueInv
<1>3. ConfigType'
  BY <1>1 DEF FrameInv, ConfigType
<1> QED BY <1>1, <1>2, <1>3 DEF FrameInv

(* ... the bytes from the phone, ... *)
LEMMA RxKept ==
  ASSUME RxInv, UNCHANGED <<rxVars, packets>>, config'.request = config.request
  PROVE  RxInv'
BY Zenon DEF RxInv, rxVars

(* ... and the work item and its thread. *)
LEMMA ThreadKept ==
  ASSUME ThreadInv, UNCHANGED <<work, notify>>, running' \in Running
  PROVE  ThreadInv'
BY DEF ThreadInv

(* The invariant holds when the transport has started. *)
LEMMA InitInv == Init => Inv
<1> SUFFICES ASSUME Init PROVE Inv
  OBVIOUS
<1>1. FrameInv
  <2>1. QueueInv
    BY FrameFacts, PhoneApiAssumption DEF Init, QueueInv
  <2>2. ConfigType
    BY IdleHandshake DEF Init
  <2>3. Upto(queue, config.request) /\ Upto(tx, config.request)
    BY FrameFacts DEF Init, Upto
  <2>4. held \in Frame /\ ~IsConfig(held)
    BY FrameFacts DEF Init
  <2>5. tx = <<>> /\ tx \in Seq(Frame) /\ Len(tx) <= TxSize /\ tx_irq \in BOOLEAN
    <3>1. tx = <<>> /\ tx_irq = FALSE
      BY DEF Init
    <3>2. <<>> \in Seq(Frame) /\ Len(<<>>) = 0
      OBVIOUS
    <3>3. 0 <= TxSize
      BY SerialAssumption
    <3> QED BY <3>1, <3>2, <3>3, Zenon
  <2>6. /\ heard = [packets |-> heard.packets, config |-> heard.config]
        /\ heard.config = <<>> /\ heard.config \in Seq(Frame) /\ Len(heard.config) = 0
    BY DEF Init, Nothing
  <2> QED BY <2>1, <2>2, <2>3, <2>4, <2>5, <2>6 DEF FrameInv
<1>2. ThreadInv
  BY DEF Init, ThreadInv, Work, Running, Distinct
<1>3. RxInv
  BY FramesAssumption, SerialAssumption DEF Init, RxInv
<1> QED BY <1>1, <1>2, <1>3 DEF Inv

(* A packet or a report is queued. *)
LEMMA EnqueueFrame ==
  ASSUME FrameInv, NEW f \in Frame, ~IsConfig(f), Enqueue(f),
         UNCHANGED <<config, held, txVars>>
  PROVE  FrameInv'
<1>1. QueueInv' /\ Upto(queue', config.request)
  BY EnqueueFacts DEF FrameInv
<1>2. config' = config /\ held' = held /\ tx' = tx /\ tx_irq' = tx_irq /\ heard' = heard
  BY DEF txVars
<1>3. ConfigType'
  BY <1>2 DEF FrameInv, ConfigType
<1> QED BY <1>1, <1>2, <1>3 DEF FrameInv

(* The interrupt sends a frame. *)
LEMMA IsrTxFrame ==
  ASSUME FrameInv, IsrTx
  PROVE  FrameInv'
<1>1. /\ tx # <<>> /\ tx_irq /\ tx' = Tail(tx) /\ heard' = Hearing(heard, Head(tx))
      /\ queue' = queue /\ config' = config /\ cut' = cut /\ held' = held /\ tx_irq' = tx_irq
  BY DEF IsrTx, apiVars, threadVars
<1>2. PICK f : f = Head(tx)
  OBVIOUS
<1>3. /\ Len(tx) \in Nat \ {0} /\ tx' \in Seq(Frame) /\ Len(tx') = Len(tx) - 1
      /\ f \in Frame
  <2>1. tx \in Seq(Frame) /\ Upto(tx, config.request)
    BY DEF FrameInv
  <2> QED BY <1>1, <1>2, <2>1, PopFacts
<1>4. Upto(tx', config.request) /\ (IsConfig(f) => f.request <= config.request)
  <2>1. tx \in Seq(Frame) /\ Upto(tx, config.request)
    BY DEF FrameInv
  <2> QED BY <1>1, <1>2, <2>1, PopFacts
<1>5. QueueInv'
  BY <1>1 DEF FrameInv, QueueInv
<1>6. ConfigType'
  BY <1>1 DEF FrameInv, ConfigType
<1>7. PICK hp, hc, n : hp = heard.packets /\ hc = heard.config /\ n = config.request
  BY Zenon
<1>8. /\ heard = [packets |-> hp, config |-> hc] /\ hc \in Seq(Frame)
      /\ \A i \in 1 .. Len(hc) : hc[i].request <= n
  BY <1>7 DEF FrameInv
<1>9. /\ heard' = [packets |-> heard'.packets, config |-> heard'.config]
      /\ heard'.config \in Seq(Frame)
      /\ \A i \in 1 .. Len(heard'.config) : heard'.config[i].request <= n
  <2>1. CASE heard'.config = hc /\ heard' = [packets |-> heard'.packets, config |-> hc]
    BY <1>8, <2>1
  <2>2. CASE IsConfig(f) /\ heard' = [packets |-> hp, config |-> Append(hc, f)]
    <3>1. /\ Append(hc, f) \in Seq(Frame) /\ Len(Append(hc, f)) = Len(hc) + 1 /\ Len(hc) \in Nat
          /\ \A i \in 1 .. Len(hc) : Append(hc, f)[i] = hc[i]
          /\ Append(hc, f)[Len(hc) + 1] = f
          /\ \A i \in 1 .. Len(hc) + 1 : i \in 1 .. Len(hc) \/ i = Len(hc) + 1
      BY <1>3, <1>8, AppendAdds
    <3>2. ASSUME NEW i \in 1 .. Len(hc) + 1 PROVE Append(hc, f)[i].request <= n
      BY <1>4, <1>7, <1>8, <2>2, <3>1, Zenon
    <3> QED BY <2>2, <3>1, <3>2
  <2>3. CASE IsConfig(f) /\ heard' = [packets |-> hp, config |-> <<f>>]
    <3>1. <<f>> \in Seq(Frame) /\ Len(<<f>>) = 1 /\ <<f>>[1] = f
      BY <1>3
    <3>2. \A i \in 1 .. Len(<<f>>) : <<f>>[i].request <= n
      BY <1>4, <1>7, <2>3, <3>1
    <3> QED BY <2>3, <3>1, <3>2
  <2>4. \/ heard' = [packets |-> Append(hp, f.at), config |-> hc]
        \/ heard' = heard
        \/ IsConfig(f) /\ heard' = [packets |-> hp, config |-> Append(hc, f)]
        \/ IsConfig(f) /\ heard' = [packets |-> hp, config |-> <<f>>]
    BY <1>1, <1>2, <1>8, Zenon DEF Hearing
  <2> QED BY <1>8, <2>1, <2>2, <2>3, <2>4
<1>10. config'.request = n
  BY <1>1, <1>7
<1>11. tx_irq' \in BOOLEAN /\ (tx' # <<>> => tx_irq') /\ Len(tx') <= TxSize
  BY <1>1, <1>3, SerialAssumption DEF FrameInv
<1>12. Upto(queue, n) /\ Upto(tx', n) /\ held \in Frame /\ (IsConfig(held) => held.request <= n)
  BY <1>4, <1>7 DEF FrameInv
<1> QED BY <1>1, <1>3, <1>5, <1>6, <1>9, <1>10, <1>11, <1>12, Zenon DEF FrameInv

(* tx_work_handler() takes a frame from the queue or from the handshake. *)
LEMMA TxPopFrame ==
  ASSUME FrameInv, PopFrame(held'), UNCHANGED txVars
  PROVE  FrameInv' /\ config'.request = config.request
<1>1. tx' = tx /\ tx_irq' = tx_irq /\ heard' = heard
  BY DEF txVars
<1>2. CASE /\ queue # <<>> /\ held' = Head(queue) /\ queue' = Tail(queue)
           /\ config' = config /\ cut' = cut
  <2>1. queue \in Seq(Frame) /\ Upto(queue, config.request)
    BY DEF FrameInv, QueueInv
  <2>2. /\ Len(queue) \in Nat \ {0} /\ queue' \in Seq(Frame)
        /\ Len(queue') = Len(queue) - 1 /\ held' \in Frame
        /\ Upto(queue', config.request) /\ (IsConfig(held') => held'.request <= config.request)
    BY <1>2, <2>1, PopFacts
  <2>3. QueueInv'
    BY <1>2, <2>2, PhoneApiAssumption DEF FrameInv, QueueInv
  <2>4. ConfigType'
    BY <1>2 DEF FrameInv, ConfigType
  <2> QED BY <1>1, <1>2, <2>1, <2>2, <2>3, <2>4, Zenon DEF FrameInv
<1>3. CASE queue = <<>> /\ NextConfigFrame(held') /\ queue' = queue /\ cut' = cut
  <2>1. PICK f : f = held'
    BY Zenon
  <2>2. NextConfigFrame(f)
    BY <1>3, <2>1
  <2>3. /\ ConfigType' /\ config'.request = config.request
        /\ f \in Frame /\ f.request = config.request /\ config.request \in Nat
    BY <2>2, MakesNext, ConfigFacts DEF FrameInv
  <2>4. QueueInv'
    BY <1>3 DEF FrameInv, QueueInv
  <2> QED BY <1>1, <1>3, <2>1, <2>3, <2>4 DEF FrameInv
<1> QED BY <1>2, <1>3, Zenon DEF PopFrame

(* The frame held goes to the ring, or back to the front of the queue. *)
LEMMA TxPutFrame ==
  ASSUME FrameInv, TxPut
  PROVE  FrameInv' /\ config' = config
<1>1. held' = held /\ heard' = heard
  BY DEF TxPut
<1>2. CASE /\ Len(tx) < TxSize /\ tx' = Append(tx, held) /\ tx_irq' = TRUE /\ UNCHANGED apiVars
  <2>1. queue' = queue /\ config' = config /\ cut' = cut
    BY <1>2 DEF apiVars
  <2>2. /\ tx \in Seq(Frame) /\ held \in Frame /\ Upto(tx, config.request)
        /\ (IsConfig(held) => held.request <= config.request)
    BY DEF FrameInv
  <2>3. /\ tx' \in Seq(Frame) /\ Len(tx') = Len(tx) + 1 /\ Len(tx) \in Nat
        /\ \A i \in 1 .. Len(tx) : tx'[i] = tx[i]
        /\ tx'[Len(tx) + 1] = held
        /\ \A i \in 1 .. Len(tx') : i \in 1 .. Len(tx) \/ i = Len(tx) + 1
    BY <1>2, <2>2, AppendAdds
  <2>4. Upto(tx', config.request)
    BY <2>2, <2>3 DEF Upto
  <2>5. Len(tx') <= TxSize /\ tx_irq' \in BOOLEAN /\ tx_irq'
    BY <1>2, <2>3, SerialAssumption
  <2>6. QueueInv' /\ ConfigType'
    BY <2>1 DEF FrameInv, QueueInv, ConfigType
  <2> QED BY <1>1, <2>1, <2>3, <2>4, <2>5, <2>6 DEF FrameInv
<1>3. CASE PushFront(held) /\ UNCHANGED <<config, tx, tx_irq>>
  <2>1. QueueInv' /\ Upto(queue', config.request)
    BY <1>3, PushFrontFacts DEF FrameInv
  <2>2. ConfigType'
    BY <1>3 DEF FrameInv, ConfigType
  <2> QED BY <1>1, <1>3, <2>1, <2>2 DEF FrameInv
<1> QED BY <1>2, <1>3, Zenon DEF TxPut

(* want_config: the queue is emptied, the frames in the ring are older ones. *)
LEMMA WantConfigFrame ==
  ASSUME FrameInv, NEW r \in Request, config.request < r, WantConfig(r), UNCHANGED <<held, txVars>>
  PROVE  FrameInv' /\ config'.request = r
<1>1. held' = held /\ tx' = tx /\ tx_irq' = tx_irq /\ heard' = heard /\ queue' = <<>> /\ cut' = cut
  BY DEF txVars, WantConfig
<1>2. ConfigType' /\ config'.request = r
  BY StartsHandshake DEF WantConfig
<1>3. QueueInv' /\ Upto(queue', r)
  <2>1. <<>> \in Seq(Frame) /\ Len(<<>>) = 0
    OBVIOUS
  <2> QED BY <1>1, <2>1, PhoneApiAssumption DEF FrameInv, QueueInv, Upto
<1>4. r \in Nat /\ config.request \in Nat
  BY FramesAssumption, ConfigFacts DEF Request, FrameInv
<1>5. ASSUME NEW f \in Frame PROVE f.request <= config.request => f.request <= r
  BY <1>4, FrameFacts
<1>6. Upto(tx', r)
  <2>1. tx \in Seq(Frame) /\ Upto(tx, config.request)
    BY DEF FrameInv
  <2>2. \A i \in 1 .. Len(tx) : tx[i] \in Frame
    BY <2>1
  <2> QED BY <1>1, <1>5, <2>1, <2>2 DEF Upto
<1>7. held \in Frame /\ (IsConfig(held) => held.request <= r)
  BY <1>5 DEF FrameInv
<1>8. \A i \in 1 .. Len(heard.config) : heard.config[i].request <= r
  <2>1. PICK c : c = heard.config
    BY Zenon
  <2>2. c \in Seq(Frame) /\ \A i \in 1 .. Len(c) : c[i].request <= config.request
    BY <2>1 DEF FrameInv
  <2>3. \A i \in 1 .. Len(c) : c[i] \in Frame
    BY <2>2
  <2> QED BY <1>5, <2>1, <2>2, <2>3
<1> QED BY <1>1, <1>2, <1>3, <1>6, <1>7, <1>8 DEF FrameInv

(* A frame of the phone arrives in the receive ring. *)
LEMMA ArrivesRx ==
  ASSUME RxInv, ThreadInv, config.request \in Nat, NEW frame \in ToRadio, Arrives(frame),
         UNCHANGED <<config, running, notify, packets>>,
         commands < MaxCommands, commands' = commands + 1,
         \/ requests' = requests /\ frame.type # "want_config"
         \/ /\ requests < MaxRequests /\ requests' = requests + 1
            /\ frame.request = requests + 1
  PROVE  RxInv' /\ ThreadInv'
<1>1. /\ config'.request = config.request
      /\ requests \in Nat /\ requests' \in 0 .. MaxRequests /\ requests' \in Nat
      /\ requests <= requests'
      /\ packets' \in 0 .. MaxPackets /\ commands' \in 0 .. MaxCommands
  BY FramesAssumption, SerialAssumption DEF RxInv
<1>2. config.request <= requests'
  BY <1>1 DEF RxInv
<1>3. ASSUME NEW i \in 1 .. Len(rx)
      PROVE  /\ rx[i].request \in Nat
             /\ rx[i].type = "want_config" =>
                  /\ config.request < rx[i].request /\ rx[i].request <= requests
                  /\ rx[i].request <= requests'
  <2>1. rx[i] \in ToRadio
    BY DEF RxInv
  <2>2. rx[i].request \in Nat
    BY <2>1, FramesAssumption DEF ToRadio, Request
  <2> QED BY <1>1, <2>2 DEF RxInv
<1>4. CASE UNCHANGED <<rx, work>>
  <2>1. ThreadInv'
    BY <1>4, Zenon DEF ThreadInv
  <2> QED BY <1>1, <1>2, <1>3, <1>4, <2>1, Zenon DEF RxInv
<1>5. CASE Len(rx) < RxSize /\ rx' = Append(rx, frame) /\ Submit("rx_work")
  <2>1. /\ rx' \in Seq(ToRadio) /\ Len(rx') = Len(rx) + 1 /\ Len(rx) \in Nat
        /\ \A i \in 1 .. Len(rx) : rx'[i] = rx[i]
        /\ rx'[Len(rx) + 1] = frame
        /\ \A i \in 1 .. Len(rx') : i \in 1 .. Len(rx) \/ i = Len(rx) + 1
    BY <1>5, AppendAdds DEF RxInv
  <2>2. ThreadInv'
    BY <1>5, SubmitFacts DEF ThreadInv, Work
  <2>3. Len(rx') <= RxSize
    BY <1>5, <2>1, SerialAssumption
  <2>4. frame.type = "want_config" => frame.request = requests + 1 /\ requests' = requests + 1
    OBVIOUS
  <2>5. ASSUME NEW i \in 1 .. Len(rx'), rx'[i].type = "want_config"
        PROVE  config.request < rx'[i].request /\ rx'[i].request <= requests'
    <3>1. CASE i \in 1 .. Len(rx)
      BY <1>3, <2>1, <2>5, <3>1, Zenon
    <3>2. CASE i = Len(rx) + 1
      <4>1. config.request <= requests
        BY DEF RxInv
      <4> QED BY <1>1, <2>1, <2>4, <2>5, <3>2, <4>1
    <3> QED BY <2>1, <3>1, <3>2, Zenon
  <2>6. ASSUME NEW i \in 1 .. Len(rx'), NEW j \in 1 .. Len(rx'), i < j,
               rx'[i].type = "want_config", rx'[j].type = "want_config"
        PROVE  rx'[i].request < rx'[j].request
    <3>1. i \in 1 .. Len(rx)
      BY <2>1, <2>6
    <3>2. CASE j \in 1 .. Len(rx)
      <4>1. rx[i].type = "want_config" /\ rx[j].type = "want_config"
        BY <2>1, <2>6, <3>1, <3>2
      <4>2. rx[i].request < rx[j].request
        BY <2>6, <3>1, <3>2, <4>1 DEF RxInv
      <4> QED BY <2>1, <3>1, <3>2, <4>2
    <3>3. CASE j = Len(rx) + 1
      BY <1>1, <1>3, <2>1, <2>4, <2>6, <3>1, <3>3, SMTT(30)
    <3> QED BY <2>1, <3>2, <3>3
  <2> QED BY <1>1, <1>2, <2>1, <2>2, <2>3, <2>5, <2>6, Zenon DEF RxInv
<1> QED BY <1>4, <1>5 DEF Arrives

(* rx_work_handler() takes a frame. *)
LEMMA RxPopRx ==
  ASSUME RxInv, config.request \in Nat, rx # <<>>, rx' = Tail(rx),
         UNCHANGED <<packets, commands, requests>>,
         \/ config'.request = config.request
         \/ Head(rx).type = "want_config" /\ config'.request = Head(rx).request
  PROVE  RxInv' /\ Head(rx) \in ToRadio
<1>1. /\ Len(rx) \in Nat \ {0} /\ rx' \in Seq(ToRadio) /\ Len(rx') = Len(rx) - 1
      /\ \A i \in 1 .. Len(rx') : rx'[i] = rx[i + 1] /\ i + 1 \in 1 .. Len(rx)
      /\ Head(rx) = rx[1] /\ 1 \in 1 .. Len(rx) /\ Head(rx) \in ToRadio
  BY DEF RxInv
<1>2. Len(rx') <= RxSize
  BY <1>1, SerialAssumption DEF RxInv
<1>3. ASSUME NEW i \in 1 .. Len(rx), NEW j \in 1 .. Len(rx), i < j,
             rx[i].type = "want_config", rx[j].type = "want_config"
      PROVE  rx[i].request < rx[j].request
  BY <1>3 DEF RxInv
<1>4. ASSUME NEW i \in 1 .. Len(rx), rx[i].type = "want_config"
      PROVE  config.request < rx[i].request /\ rx[i].request <= requests
  BY <1>4 DEF RxInv
<1>5. config'.request <= requests
  BY <1>1, <1>4 DEF RxInv
<1>6. ASSUME NEW i \in 1 .. Len(rx'), rx'[i].type = "want_config"
      PROVE  config'.request < rx'[i].request /\ rx'[i].request <= requests
  <2>1. rx'[i] = rx[i + 1] /\ i + 1 \in 1 .. Len(rx) /\ 1 < i + 1
    BY <1>1
  <2>2. config.request < rx[i + 1].request /\ rx[i + 1].request <= requests
    BY <1>4, <1>6, <2>1
  <2>3. Head(rx).type = "want_config" => Head(rx).request < rx[i + 1].request
    BY <1>1, <1>3, <1>6, <2>1
  <2> QED BY <2>1, <2>2, <2>3
<1>7. ASSUME NEW i \in 1 .. Len(rx'), NEW j \in 1 .. Len(rx'), i < j,
             rx'[i].type = "want_config", rx'[j].type = "want_config"
      PROVE  rx'[i].request < rx'[j].request
  <2>1. rx'[i] = rx[i + 1] /\ i + 1 \in 1 .. Len(rx)
    BY <1>1
  <2>2. rx'[j] = rx[j + 1] /\ j + 1 \in 1 .. Len(rx) /\ i + 1 < j + 1
    BY <1>1, <1>7
  <2> QED BY <1>3, <1>7, <2>1, <2>2
<1> QED BY <1>1, <1>2, <1>5, <1>6, <1>7 DEF RxInv

(* rx_work_handler() handles a frame of the phone. *)
LEMMA RxPopInv == ASSUME Inv, RxPop PROVE Inv'
<1>1. /\ rx # <<>> /\ rx' = Tail(rx) /\ HandleToRadio(Head(rx)) /\ UNCHANGED <<held, txVars>>
      /\ UNCHANGED <<packets, commands, requests>> /\ UNCHANGED <<work, notify>>
  BY DEF RxPop
<1>2. running' \in Running
  BY DEF RxPop, HandleToRadio, Running
<1>3. ThreadInv'
  BY <1>1, <1>2, ThreadKept DEF Inv
<1>4. config.request \in Nat /\ FrameInv /\ RxInv
  BY ConfigFacts DEF Inv, FrameInv
<1>5. PICK f : f = Head(rx)
  BY Zenon
<1>6. CASE f.type = "want_config" /\ WantConfig(f.request)
  <2>1. config'.request = f.request
    BY <1>6 DEF WantConfig
  <2>2. RxInv' /\ f \in ToRadio
    BY <1>1, <1>4, <1>5, <1>6, <2>1, RxPopRx
  <2>3. f.request \in Request
    BY <2>2 DEF ToRadio
  <2>4. config.request < f.request
    <3>1. 1 \in 1 .. Len(rx) /\ f = rx[1]
      BY <1>1, <1>4, <1>5 DEF RxInv
    <3> QED BY <1>4, <1>6, <3>1 DEF RxInv
  <2>5. FrameInv'
    BY <1>1, <1>4, <1>6, <2>3, <2>4, WantConfigFrame
  <2> QED BY <1>3, <2>2, <2>5 DEF Inv
<1>7. CASE UNCHANGED apiVars
  <2>1. UNCHANGED frameVars /\ config' = config
    BY <1>1, <1>7 DEF frameVars, apiVars, txVars
  <2>2. FrameInv'
    BY <1>4, <2>1, FrameKept
  <2>3. RxInv'
    BY <1>1, <1>4, <2>1, RxPopRx
  <2> QED BY <1>3, <2>2, <2>3 DEF Inv
<1> QED BY <1>1, <1>5, <1>6, <1>7 DEF HandleToRadio

(* Every step keeps the invariant. *)
LEMMA NextInv == Inv /\ [Next]_vars => Inv'
<1> SUFFICES ASSUME Inv, [Next]_vars PROVE Inv'
  OBVIOUS
<1>1. FrameInv /\ ThreadInv /\ RxInv /\ config.request \in Nat
  BY ConfigFacts DEF Inv, FrameInv
<1>2. ASSUME NEW t \in Producer, OnPacket(t) PROVE Inv'
  <2>1. packets \in Nat /\ packets' \in 0 .. MaxPackets
    BY <1>1, <1>2, SerialAssumption DEF OnPacket, RxInv
  <2>2. Packet(packets + 1) \in Frame /\ ~IsConfig(Packet(packets + 1))
    BY <2>1, FrameFacts
  <2>3. FrameInv'
    BY <1>1, <1>2, <2>2, EnqueueFrame, Zenon DEF OnPacket, threadVars
  <2>4. ThreadInv'
    BY <1>1, <1>2 DEF OnPacket, ThreadInv, threadVars
  <2>5. RxInv'
    BY <1>1, <1>2, <2>1 DEF OnPacket, RxInv, rxVars
  <2> QED BY <2>3, <2>4, <2>5 DEF Inv
<1>3. ASSUME UNCHANGED frameVars, UNCHANGED <<rxVars, packets>>, ThreadInv' PROVE Inv'
  <2>1. FrameInv'
    BY <1>1, <1>3, FrameKept
  <2>2. config' = config
    BY <1>3 DEF frameVars, apiVars
  <2>3. RxInv'
    BY <1>1, <1>3, <2>2, RxKept
  <2> QED BY <1>3, <2>1, <2>3 DEF Inv
<1>4. ASSUME NEW t \in Producer, DataReady(t) PROVE Inv'
  <2>1. ThreadInv'
    BY <1>1, <1>4, SubmitFacts DEF DataReady, threadVars, ThreadInv, Work
  <2>2. UNCHANGED frameVars /\ UNCHANGED <<rxVars, packets>>
    BY <1>4 DEF DataReady, frameVars, txVars, threadVars
  <2> QED BY <1>3, <2>1, <2>2
<1>5. CASE PhoneAsks
  <2>1. PICK f : f = [type |-> "want_config", request |-> requests + 1]
    BY Zenon
  <2>2. f \in ToRadio /\ f.request = requests + 1
    BY <1>1, <1>5, <2>1, FramesAssumption, SMTT(30) DEF RxInv, PhoneAsks, ToRadio, Request
  <2>3. RxInv' /\ ThreadInv'
    BY <1>1, <1>5, <2>1, <2>2, ArrivesRx, Zenon DEF PhoneAsks, apiVars, threadVars
  <2>4. UNCHANGED frameVars
    BY <1>5 DEF PhoneAsks, frameVars, txVars, threadVars
  <2> QED BY <1>1, <2>3, <2>4, FrameKept DEF Inv
<1>6. ASSUME NEW c \in Command, PhoneWrites(c) PROVE Inv'
  <2>1. PICK f : f = [type |-> c, request |-> 0]
    BY Zenon
  <2>2. f \in ToRadio /\ f.type # "want_config"
    BY <2>1, FramesAssumption DEF ToRadio, Request, Command
  <2>3. RxInv' /\ ThreadInv'
    BY <1>1, <1>6, <2>1, <2>2, ArrivesRx DEF PhoneWrites, apiVars, threadVars
  <2>4. UNCHANGED frameVars
    BY <1>6 DEF PhoneWrites, frameVars, txVars, threadVars
  <2> QED BY <1>1, <2>3, <2>4, FrameKept DEF Inv
<1>7. CASE IsrTx
  <2>1. FrameInv'
    BY <1>1, <1>7, IsrTxFrame
  <2>2. ThreadInv' /\ RxInv'
    BY <1>1, <1>7, RxKept, ThreadKept DEF IsrTx, threadVars, apiVars, ThreadInv
  <2> QED BY <2>1, <2>2 DEF Inv
<1>8. CASE IsrTxFinish
  <2>1. ThreadInv'
    BY <1>1, <1>8, SubmitFacts DEF IsrTxFinish, threadVars, ThreadInv, Work
  <2>2. /\ queue' = queue /\ config' = config /\ cut' = cut /\ held' = held /\ tx' = tx
        /\ heard' = heard /\ tx_irq' = FALSE /\ tx = <<>> /\ UNCHANGED <<rxVars, packets>>
    BY <1>8 DEF IsrTxFinish, apiVars, threadVars
  <2>3. QueueInv' /\ ConfigType'
    BY <1>1, <2>2 DEF FrameInv, QueueInv, ConfigType
  <2>4. FrameInv'
    BY <1>1, <2>2, <2>3, Zenon DEF FrameInv
  <2>5. RxInv'
    BY <1>1, <2>2, RxKept
  <2> QED BY <2>1, <2>4, <2>5 DEF Inv
<1>9. CASE WorkNext
  <2>1. /\ Head(work) \in Work /\ Tail(work) \in Seq(Work) /\ Len(Tail(work)) = Len(work) - 1
        /\ \A i \in 1 .. Len(Tail(work)) : Tail(work)[i] = work[i + 1] /\ i + 1 \in 1 .. Len(work)
    BY <1>1, <1>9 DEF WorkNext, ThreadInv
  <2>2. Distinct(Tail(work))
    BY <1>1, <2>1 DEF ThreadInv, Distinct
  <2>3. ThreadInv'
    BY <1>1, <1>9, <2>1, <2>2 DEF WorkNext, ThreadInv, Work, Running
  <2>4. UNCHANGED frameVars /\ UNCHANGED <<rxVars, packets>>
    BY <1>9 DEF WorkNext, frameVars, txVars
  <2> QED BY <1>3, <2>3, <2>4
<1>10. CASE TxPop
  <2>1. ThreadInv'
    BY <1>1, <1>10, ThreadKept DEF TxPop, Running
  <2>2. CASE PopFrame(held')
    <3>1. FrameInv' /\ config'.request = config.request
      BY <1>1, <1>10, <2>2, TxPopFrame, Zenon DEF TxPop
    <3>2. RxInv'
      BY <1>1, <1>10, <3>1, RxKept, Zenon DEF TxPop
    <3> QED BY <2>1, <3>1, <3>2 DEF Inv
  <2>3. CASE UNCHANGED <<apiVars, held>>
    <3>1. UNCHANGED frameVars /\ UNCHANGED <<rxVars, packets>>
      BY <1>10, <2>3 DEF TxPop, frameVars, txVars
    <3> QED BY <1>3, <2>1, <3>1
  <2> QED BY <1>10, <2>2, <2>3 DEF TxPop
<1>11. CASE TxPut
  <2>1. ThreadInv'
    BY <1>1, <1>11, ThreadKept DEF TxPut, Running
  <2>2. FrameInv' /\ config' = config
    BY <1>1, <1>11, TxPutFrame
  <2>3. RxInv'
    BY <1>1, <1>11, <2>2, RxKept, Zenon DEF TxPut
  <2> QED BY <2>1, <2>2, <2>3 DEF Inv
<1>12. CASE TxCont
  <2>1. ThreadInv'
    BY <1>1, <1>12, SubmitFacts DEF TxCont, ThreadInv, Work, Running
  <2>2. UNCHANGED frameVars /\ UNCHANGED <<rxVars, packets>>
    BY <1>12 DEF TxCont, frameVars, txVars
  <2> QED BY <1>3, <2>1, <2>2
<1>13. CASE RxPop
  BY <1>13, RxPopInv
<1>14. CASE RxEnd \/ RxSent
  <2>1. ThreadInv'
    BY <1>1, <1>14, ThreadKept DEF RxEnd, RxSent, Running
  <2>2. UNCHANGED frameVars /\ UNCHANGED <<rxVars, packets>>
    BY <1>14 DEF RxEnd, RxSent, frameVars, txVars
  <2> QED BY <1>3, <2>1, <2>2
<1>15. CASE RxStatus
  <2>1. ThreadInv'
    BY <1>1, <1>15, ThreadKept DEF RxStatus, Running
  <2>2. FrameInv'
    BY <1>1, <1>15, FrameFacts, EnqueueFrame, Zenon DEF RxStatus
  <2>3. RxInv'
    BY <1>1, <1>15, RxKept, Zenon DEF RxStatus
  <2> QED BY <2>1, <2>2, <2>3 DEF Inv
<1>16. CASE RxReady
  <2>1. ThreadInv'
    BY <1>1, <1>16, SubmitFacts DEF RxReady, ThreadInv, Work, Running
  <2>2. UNCHANGED frameVars /\ UNCHANGED <<rxVars, packets>>
    BY <1>16 DEF RxReady, frameVars, txVars
  <2> QED BY <1>3, <2>1, <2>2
<1>17. CASE UNCHANGED vars
  <2>1. UNCHANGED frameVars /\ UNCHANGED <<rxVars, packets>> /\ UNCHANGED <<work, running, notify>>
    BY <1>17 DEF vars, frameVars, apiVars, rxVars
  <2>2. ThreadInv'
    BY <1>1, <2>1, ThreadKept, Zenon DEF ThreadInv
  <2> QED BY <1>3, <2>1, <2>2
<1> QED BY <1>2, <1>4, <1>5, <1>6, <1>7, <1>8, <1>9, <1>10, <1>11, <1>12, <1>13, <1>14, <1>15,
           <1>16, <1>17, Zenon DEF Next, Uart, Thread

(* No step of a thread, of the interrupt or of a producer loses a wake-up. *)
LEMMA NextAwake == Inv /\ NoLostWakeup /\ [Next]_vars => NoLostWakeup'
<1> SUFFICES ASSUME Inv, NoLostWakeup, [Next]_vars, ~NothingToPop', ~Blocked' PROVE Awake'
  BY DEF NoLostWakeup
<1>1. FrameInv /\ ThreadInv
  BY DEF Inv
<1>2. ASSUME UNCHANGED apiVars PROVE Awake
  BY <1>2 DEF NoLostWakeup, NothingToPop, config_active, apiVars, Blocked
<1>3. ASSUME NEW w \in {"tx_work", "tx_cont"}, Submit(w) PROVE Awake'
  <2>1. \E i \in 1 .. Len(work') : work'[i] = w
    BY <1>1, <1>3, SubmitFacts DEF ThreadInv, Work
  <2> QED BY <2>1 DEF Awake
<1>4. ASSUME NEW t \in Producer, OnPacket(t) PROVE Awake'
  BY <1>4 DEF OnPacket, Awake
<1>5. ASSUME NEW t \in Producer, DataReady(t) PROVE Awake'
  BY <1>3, <1>5 DEF DataReady
<1>6. ASSUME NEW f, Arrives(f), UNCHANGED <<apiVars, running, tx_irq, notify>> PROVE Awake'
  <2>1. \A i \in 1 .. Len(work) : \E j \in 1 .. Len(work') : work'[j] = work[i]
    BY <1>1, <1>6, SubmitFacts DEF Arrives, ThreadInv, Work
  <2> QED BY <1>2, <1>6, <2>1 DEF Awake
<1>7. CASE PhoneAsks
  BY <1>6, <1>7 DEF PhoneAsks, threadVars, txVars
<1>8. ASSUME NEW c \in Command, PhoneWrites(c) PROVE Awake'
  BY <1>6, <1>8 DEF PhoneWrites, threadVars, txVars
<1>9. CASE IsrTx
  BY <1>9 DEF IsrTx, Awake
<1>10. CASE IsrTxFinish
  BY <1>3, <1>10, Zenon DEF IsrTxFinish
<1>11. CASE WorkNext
  <2>1. Awake /\ running = "idle" /\ UNCHANGED <<tx_irq, notify>> /\ running' = Head(work)
        /\ work' = Tail(work) /\ work # <<>>
    BY <1>2, <1>11 DEF WorkNext, txVars
  <2>2. CASE tx_irq \/ notify # {}
    BY <2>1, <2>2 DEF Awake
  <2>3. ASSUME NEW i \in 1 .. Len(work), work[i] \in {"tx_work", "tx_cont"} PROVE Awake'
    <3>1. CASE i = 1
      <4>1. Head(work) = work[1]
        BY <1>1, <2>1 DEF ThreadInv
      <4> QED BY <2>1, <2>3, <3>1, <4>1 DEF Awake
    <3>2. CASE i # 1
      <4>1. i - 1 \in 1 .. Len(work') /\ work'[i - 1] = work[i]
        BY <1>1, <2>1, <3>2 DEF ThreadInv
      <4> QED BY <2>3, <4>1 DEF Awake
    <3> QED BY <3>1, <3>2
  <2> QED BY <2>1, <2>2, <2>3 DEF Awake
<1>12. CASE TxPop
  <2>1. CASE running' = "tx_put"
    BY <2>1 DEF Awake
  <2>2. CASE NothingToPop /\ UNCHANGED apiVars
    BY <2>2 DEF NothingToPop, config_active, apiVars
  <2> QED BY <1>12, <2>1, <2>2 DEF TxPop
<1>13. CASE TxPut
  <2>1. CASE running' = "tx_work"
    BY <2>1 DEF Awake
  <2>2. CASE tx # <<>> /\ tx_irq' = tx_irq
    BY <1>1, <2>2 DEF FrameInv, Awake
  <2>3. CASE held \in Oversize /\ PushFront(held)
    <3>1. queue' # <<>> /\ Head(queue') = held
      BY <1>1, <2>3 DEF PushFront, FrameInv, QueueInv
    <3> QED BY <2>3, <3>1 DEF Blocked
  <2> QED BY <1>13, <2>1, <2>2, <2>3 DEF TxPut
<1>14. CASE TxCont
  BY <1>3, <1>14 DEF TxCont
<1>15. ASSUME running \in {"rx_work", "rx_send"},
              UNCHANGED <<apiVars, work, tx_irq, notify>>
       PROVE  Awake'
  BY <1>2, <1>15 DEF Awake
<1>16. CASE RxPop
  <2>1. CASE running' = "rx_ready"
    BY <2>1 DEF Awake
  <2>2. CASE UNCHANGED apiVars
    BY <1>15, <1>16, <2>2 DEF RxPop, txVars
  <2> QED BY <1>16, <2>1, <2>2 DEF RxPop, HandleToRadio
<1>17. CASE RxEnd \/ RxSent
  BY <1>15, <1>17 DEF RxEnd, RxSent, txVars
<1>18. CASE RxStatus
  BY <1>18 DEF RxStatus, Awake
<1>19. CASE RxReady
  BY <1>3, <1>19 DEF RxReady
<1>20. CASE UNCHANGED vars
  <2>1. UNCHANGED <<apiVars, work, running, tx_irq, notify>>
    BY <1>20 DEF vars, apiVars
  <2> QED BY <1>2, <2>1, Zenon DEF Awake
<1> QED BY <1>4, <1>5, <1>7, <1>8, <1>9, <1>10, <1>11, <1>12, <1>13, <1>14, <1>16, <1>17, <1>18,
           <1>19, <1>20, Zenon DEF Next, Uart, Thread

(* The invariant is one of the specification. *)
LEMMA SpecInv == Spec => []Inv
BY InitInv, NextInv, PTL DEF Spec

(* The types and the bounds: the FromRadio queue never exceeds its size, the
   rings theirs, and the work queue never holds an item twice. *)
THEOREM SerialTypeCorrect == Spec => []TypeOK
<1>1. Inv => TypeOK
  <2> SUFFICES ASSUME Inv PROVE TypeOK
    OBVIOUS
  <2>1. ApiTypeOK
    BY ConfigFacts DEF Inv, FrameInv, QueueInv, ApiTypeOK
  <2>2. Len(work) <= 3
    BY WorkBound DEF Inv, ThreadInv
  <2> QED BY <2>1, <2>2 DEF Inv, FrameInv, ThreadInv, RxInv, TypeOK
<1> QED BY <1>1, SpecInv, PTL

(* While a frame waits, or the handshake has frames to make, something is under
   way that runs tx_work_handler() again: a work item, the handler itself, the
   transmit interrupt, or a producer that has not called data_ready() yet.  The one
   exception is a frame longer than the transmit ring, which stays at the front. *)
THEOREM SerialAwake == Spec => []NoLostWakeup
<1>1. Init => NoLostWakeup
  BY DEF Init, NoLostWakeup, Awake
<1> QED BY <1>1, NextAwake, SpecInv, PTL DEF Spec

-----------------------------------------------------------------------------
(* The refinement: tx and Held come before the queue in the line. *)

(* The types of the line's parts *)
LEMMA LineFacts ==
  ASSUME Inv
  PROVE  /\ Held \in Seq(Frame) /\ tx \in Seq(Frame) /\ queue \in Seq(Frame)
         /\ tx \o Held \in Seq(Frame) /\ Line \in Seq(Frame)
         /\ running # "tx_put" => Held = <<>> /\ tx \o Held = tx
<1>1. tx \in Seq(Frame) /\ queue \in Seq(Frame) /\ held \in Frame
  BY DEF Inv, FrameInv, QueueInv
<1>2. Held \in Seq(Frame)
  BY <1>1 DEF Held
<1>3. tx \o Held \in Seq(Frame)
  BY <1>1, <1>2, CatFacts
<1>4. Line \in Seq(Frame)
  BY <1>1, <1>3, CatFacts DEF Line
<1>5. ASSUME running # "tx_put" PROVE Held = <<>> /\ tx \o Held = tx
  BY <1>1, <1>5 DEF Held
<1> QED BY <1>1, <1>2, <1>3, <1>4, <1>5, Zenon

(* A step that moves no frame is no step of the stream. *)
LEMMA Stutters ==
  ASSUME UNCHANGED <<apiVars, tx, heard, packets>>,
         \/ UNCHANGED <<running, held>>
         \/ running # "tx_put" /\ running' # "tx_put"
  PROVE  UNCHANGED Stream!lineVars
<1>1. Held' = Held
  BY DEF Held
<1>2. Line' = Line
  BY <1>1, Zenon DEF Line, apiVars
<1>3. Todo' = Todo
  BY DEF Todo, apiVars, config_active
<1> QED BY <1>2, <1>3 DEF Stream!lineVars, apiVars

(* A frame that is lost from the queue is a loss of the stream. *)
LEMMA CuttingLoses ==
  ASSUME NEW k, cut' = Cutting(Line[k])
  PROVE  Stream!Loses(k)
BY DEF Cutting, Stream!Loses, Stream!IsConfig, IsConfig, Stream!Stage, Stage

(* What is queued joins the stream. *)
LEMMA QueuedJoins ==
  ASSUME Inv, NEW f \in Frame, Enqueue(f), UNCHANGED tx, Held' = Held
  PROVE  Stream!Join(f)
<1>1. PICK a : a = tx \o Held
  BY Zenon
<1>2. /\ Line = a \o queue /\ Line' = a \o queue' /\ a \in Seq(Frame)
  BY <1>1, LineFacts DEF Line
<1>3. QueueInv /\ f \in Frame /\ Enqueue(f) /\ a \in Seq(Frame)
  <2>1. QueueInv
    BY DEF Inv, FrameInv
  <2> QED BY <1>2, <2>1, Zenon
<1>4. \/ a \o queue' = Append(a \o queue, f) /\ cut' = cut
      \/ \E k \in 1 .. Len(a \o queue) : /\ a \o queue' = Append(Out(a \o queue, k), f)
                                         /\ cut' = Cutting((a \o queue)[k])
  BY <1>3, EnqueueJoins, Zenon
<1>5. CASE Line' = Append(Line, f) /\ cut' = cut
  BY <1>5 DEF Stream!Join
<1>6. ASSUME NEW k \in 1 .. Len(Line), Line' = Append(Out(Line, k), f), cut' = Cutting(Line[k])
      PROVE  Stream!Join(f)
  <2>1. cut' = Cutting(Line[k])
    BY <1>6, Zenon
  <2>2. Stream!Loses(k)
    BY <2>1, CuttingLoses
  <2>3. Out(Line, k) = Stream!Without(k)
    BY DEF Out, Stream!Without
  <2> QED BY <1>6, <2>2, <2>3 DEF Stream!Join
<1> QED BY <1>2, <1>4, <1>5, <1>6, Zenon

(* A packet is queued: the stream receives it. *)
LEMMA OnPacketStep ==
  ASSUME Inv, NEW t, OnPacket(t)
  PROVE  Stream!Receive
<1>1. packets \in Nat /\ Packet(packets + 1) \in Frame
  BY FrameFacts, SerialAssumption DEF Inv, RxInv
<1>2. Held' = Held /\ tx' = tx /\ Todo' = Todo /\ heard' = heard
  BY DEF OnPacket, Held, Todo, config_active, threadVars, txVars
<1>3. Stream!Join(Packet(packets + 1))
  BY <1>1, <1>2, QueuedJoins DEF OnPacket
<1>4. Stream!Packet(packets + 1) = Packet(packets + 1)
  BY DEF Stream!Packet, Packet
<1> QED BY <1>2, <1>3, <1>4, Zenon DEF Stream!Receive, OnPacket

(* A report is queued. *)
LEMMA RxStatusStep ==
  ASSUME Inv, RxStatus
  PROVE  Stream!Report
<1>1. Held' = Held /\ tx' = tx /\ Todo' = Todo /\ heard' = heard /\ packets' = packets
  BY DEF RxStatus, Held, Todo, config_active, txVars
<1>2. Stream!Join(QueueStatus)
  BY <1>1, FrameFacts, QueuedJoins DEF RxStatus
<1>3. Stream!QueueStatus = QueueStatus
  BY DEF Stream!QueueStatus, QueueStatus
<1> QED BY <1>1, <1>2, <1>3, Zenon DEF Stream!Report

(* The interrupt sends the first frame of the line. *)
LEMMA IsrTxStep ==
  ASSUME Inv, IsrTx
  PROVE  Stream!Hear
<1>1. /\ tx # <<>> /\ tx' = Tail(tx) /\ heard' = Hearing(heard, Head(tx)) /\ queue' = queue
      /\ cut' = cut /\ packets' = packets
  BY DEF IsrTx, apiVars
<1>2. Held' = Held /\ Todo' = Todo
  BY DEF IsrTx, Held, threadVars, apiVars, Todo, config_active
<1>3. PICK a : a = tx \o Held
  BY Zenon
<1>4. Tail(tx) \o Held = Tail(a) /\ Head(tx) = Head(a) /\ a # <<>> /\ a \in Seq(Frame)
  BY <1>1, <1>3, LineFacts, CatTail, Zenon
<1>5. Tail(a) \o queue = Tail(Line) /\ Head(a) = Head(Line) /\ Line # <<>>
  BY <1>3, <1>4, LineFacts, CatTail, Zenon DEF Line
<1>6. Line' = Tail(Line)
  BY <1>1, <1>2, <1>4, <1>5, Zenon DEF Line
<1>7. Stream!Hearing(heard, Head(Line)) = Hearing(heard, Head(Line))
  BY DEF Stream!Hearing, Hearing, Stream!IsConfig, IsConfig, Stream!Stage, Stage
<1> QED BY <1>1, <1>2, <1>4, <1>5, <1>6, <1>7, Zenon DEF Stream!Hear

(* tx_work_handler() takes the first frame of the queue, where it stays in the line,
   or has the handshake make one. *)
LEMMA TxPopStep ==
  ASSUME Inv, TxPop
  PROVE  UNCHANGED Stream!lineVars \/ \E f \in Todo : Stream!Make(f)
<1>1. /\ running = "tx_work" /\ tx' = tx /\ heard' = heard /\ packets' = packets
      /\ tx \in Seq(Frame) /\ queue \in Seq(Frame) /\ Line = tx \o queue
  BY LineFacts DEF TxPop, txVars, Line
<1>2. CASE UNCHANGED apiVars /\ running' = "idle"
  BY <1>1, <1>2, Stutters
<1>3. ASSUME running' = "tx_put" PROVE Line' = (tx \o <<held'>>) \o queue'
  BY <1>1, <1>3 DEF Line, Held
<1>4. CASE /\ running' = "tx_put" /\ queue # <<>> /\ held' = Head(queue) /\ queue' = Tail(queue)
           /\ config' = config /\ cut' = cut
  <2>1. tx \o queue = (tx \o <<Head(queue)>>) \o Tail(queue)
    BY <1>1, <1>4, CatPop
  <2>2. Line' = Line
    BY <1>1, <1>3, <1>4, <2>1, Zenon
  <2>3. Todo' = Todo
    BY <1>4 DEF Todo, config_active
  <2> QED BY <1>1, <1>4, <2>2, <2>3 DEF Stream!lineVars
<1>5. CASE /\ running' = "tx_put" /\ queue = <<>> /\ NextConfigFrame(held')
           /\ queue' = queue /\ cut' = cut
  <2>1. PICK f : f = held'
    BY Zenon
  <2>2. /\ f \in Todo /\ (\A g \in Todo \ {f} : Before(f, g)) /\ Todo' = Todo \ {f} /\ f \in Frame
    <3>1. NextConfigFrame(f)
      BY <1>5, <2>1
    <3>2. ConfigType
      BY DEF Inv, FrameInv
    <3> QED BY <3>1, <3>2, MakesNext
  <2>3. Line = tx /\ Line' = tx \o <<f>>
    <3>1. PICK u : u = tx \o <<f>>
      BY Zenon
    <3>2. u \in Seq(Frame)
      BY <1>1, <2>2, <3>1
    <3>3. tx \o <<>> = tx /\ u \o <<>> = u
      BY <1>1, <3>2, CatEmpty
    <3>4. Line = tx \o <<>> /\ Line' = u \o <<>>
      BY <1>1, <1>3, <1>5, <2>1, <3>1, Zenon
    <3> QED BY <3>1, <3>3, <3>4, Zenon
  <2>4. Line' = Append(Line, f)
    BY <1>1, <2>2, <2>3, SMTT(30)
  <2>5. \A g \in Todo \ {f} : Stream!Before(f, g)
    BY <2>2 DEF Stream!Before, Before, Stream!Rank, Rank
  <2>6. Stream!Make(f)
    BY <1>1, <1>5, <2>2, <2>4, <2>5, Zenon DEF Stream!Make
  <2> QED BY <2>2, <2>6
<1> QED BY <1>2, <1>4, <1>5, Zenon DEF TxPop, PopFrame

(* The frame held stays where it is in the line, in the ring or back in the queue. *)
LEMMA TxPutStep ==
  ASSUME Inv, TxPut
  PROVE  UNCHANGED Stream!lineVars \/ \E k \in 1 .. Len(Line) : Stream!Lose(k)
<1>1. /\ running = "tx_put" /\ running' # "tx_put" /\ heard' = heard /\ packets' = packets
      /\ tx \in Seq(Frame) /\ queue \in Seq(Frame) /\ held \in Frame
      /\ Line = (tx \o <<held>>) \o queue
  BY LineFacts DEF TxPut, Held, Line, Inv, FrameInv
<1>2. ASSUME tx' \in Seq(Frame) PROVE Line' = tx' \o queue'
  <2>1. Held' = <<>> /\ tx' \o <<>> = tx'
    BY <1>1, <1>2 DEF Held
  <2> QED BY <2>1 DEF Line
<1>3. CASE tx' = Append(tx, held) /\ UNCHANGED apiVars
  <2>1. tx' = tx \o <<held>> /\ tx' \in Seq(Frame)
    BY <1>1, <1>3
  <2>2. Line' = Line /\ Todo' = Todo
    BY <1>1, <1>2, <1>3, <2>1, Zenon DEF apiVars, Todo, config_active
  <2> QED BY <1>1, <1>3, <2>2, Zenon DEF Stream!lineVars, apiVars
<1>4. CASE PushFront(held) /\ UNCHANGED <<config, tx>>
  <2>1. QueueInv /\ held \in Frame /\ PushFront(held) /\ tx \in Seq(Frame)
    <3>1. QueueInv
      BY DEF Inv, FrameInv
    <3> QED BY <1>1, <1>4, <3>1, Zenon
  <2>2. \/ tx \o queue' = Line /\ cut' = cut
        \/ \E k \in 1 .. Len(Line) : tx \o queue' = Out(Line, k) /\ cut' = Cutting(Line[k])
    BY <1>1, <2>1, PushFrontLoses, Zenon
  <2>3. Line' = tx \o queue' /\ Todo' = Todo
    BY <1>1, <1>2, <1>4, Zenon DEF Todo, config_active
  <2>4. CASE tx \o queue' = Line /\ cut' = cut
    BY <1>1, <2>3, <2>4, Zenon DEF Stream!lineVars
  <2>5. ASSUME NEW k \in 1 .. Len(Line), tx \o queue' = Out(Line, k), cut' = Cutting(Line[k])
        PROVE  Stream!Lose(k)
    <3>1. Stream!Loses(k)
      BY <2>5, CuttingLoses
    <3>2. Out(Line, k) = Stream!Without(k)
      BY DEF Out, Stream!Without
    <3> QED BY <1>1, <2>3, <2>5, <3>1, <3>2, Zenon DEF Stream!Lose
  <2> QED BY <2>2, <2>4, <2>5
<1> QED BY <1>3, <1>4, Zenon DEF TxPut

(* want_config: every frame the phone has heard or may still hear is older. *)
LEMMA RxPopStep ==
  ASSUME Inv, RxPop
  PROVE  UNCHANGED Stream!lineVars \/ \E r \in Request : Stream!Ask(r)
<1>1. /\ running = "rx_work" /\ running' # "tx_put" /\ tx' = tx /\ heard' = heard
      /\ packets' = packets /\ HandleToRadio(Head(rx)) /\ rx # <<>>
  BY DEF RxPop, HandleToRadio, txVars
<1>2. CASE UNCHANGED apiVars
  BY <1>1, <1>2, Stutters
<1>3. CASE Head(rx).type = "want_config" /\ WantConfig(Head(rx).request)
  <2>1. PICK r : r = Head(rx).request
    BY Zenon
  <2>2. r \in Request /\ config.request < r
    <3>1. 1 \in 1 .. Len(rx) /\ Head(rx) = rx[1] /\ Head(rx) \in ToRadio
      BY <1>1 DEF Inv, RxInv
    <3> QED BY <1>3, <2>1, <3>1, Zenon DEF Inv, RxInv, ToRadio
  <2>3. Todo' = Handshake(r) /\ queue' = <<>> /\ cut' = cut
    BY <1>3, <2>1, <2>2, StartsHandshake DEF WantConfig
  <2>4. Line = tx \o queue /\ Line' = tx /\ tx \in Seq(Frame) /\ queue \in Seq(Frame)
    <3>1. Held = <<>> /\ Held' = <<>> /\ tx \o <<>> = tx /\ tx \in Seq(Frame) /\ queue \in Seq(Frame)
      BY <1>1, LineFacts DEF Held
    <3> QED BY <1>1, <2>3, <3>1 DEF Line
  <2>5. \E n \in 0 .. Len(Line) : Line' = SubSeq(Line, 1, n)
    <3>1. Len(tx) \in 0 .. Len(Line) /\ tx = SubSeq(Line, 1, Len(tx))
      BY <2>4, CatPrefix
    <3> QED BY <2>4, <3>1, Zenon
  <2>6. r \in Nat /\ config.request \in Nat
    BY <2>2, FramesAssumption, ConfigFacts DEF Request, Inv, FrameInv
  <2>7. ASSUME NEW f \in Frame, f.request <= config.request PROVE f.request < r
    BY <2>2, <2>6, <2>7, FrameFacts
  <2>8. ASSUME NEW i \in 1 .. Len(Line), IsConfig(Line[i]) PROVE Line[i].request < r
    <3>1. Upto(tx, config.request) /\ Upto(queue, config.request)
      BY Zenon DEF Inv, FrameInv
    <3>2. /\ \A j \in 1 .. Len(tx) : Line[j] = tx[j] /\ tx[j] \in Frame
          /\ \A j \in 1 .. Len(queue) : Line[Len(tx) + j] = queue[j] /\ queue[j] \in Frame
          /\ i \in 1 .. Len(tx) \/ i - Len(tx) \in 1 .. Len(queue)
          /\ Len(tx) \in Nat /\ Len(queue) \in Nat
      BY <2>4, CatFacts
    <3>3. CASE i \in 1 .. Len(tx)
      BY <2>7, <2>8, <3>1, <3>2, <3>3, Zenon DEF Upto
    <3>4. CASE i - Len(tx) \in 1 .. Len(queue)
      <4>1. PICK j \in 1 .. Len(queue) : j = i - Len(tx)
        BY <3>4, Zenon
      <4>2. Len(tx) \in Nat
        BY <3>2, Zenon
      <4>3. i = Len(tx) + j
        BY <4>1, <4>2
      <4> QED BY <2>7, <2>8, <3>1, <3>2, <4>3, Zenon DEF Upto
    <3> QED BY <3>2, <3>3, <3>4, Zenon
  <2>9. ASSUME NEW i \in 1 .. Len(heard.config) PROVE heard.config[i].request < r
    <3>1. heard.config[i] \in Frame /\ heard.config[i].request <= config.request
      BY DEF Inv, FrameInv
    <3> QED BY <2>7, <3>1, Zenon
  <2>10. \A i \in 1 .. Len(Line) : Stream!IsConfig(Line[i]) => Line[i].request < r
    BY <2>8 DEF Stream!IsConfig, IsConfig, Stream!Stage, Stage
  <2>11. Stream!Handshake(r) = Handshake(r)
    BY DEF Stream!Handshake, Handshake, Stream!Entries, Entries, Stream!Stage, Stage
  <2>12. Stream!Ask(r)
    BY <1>1, <2>3, <2>5, <2>9, <2>10, <2>11, Zenon DEF Stream!Ask
  <2> QED BY <2>2, <2>12
<1> QED BY <1>1, <1>2, <1>3, Zenon DEF HandleToRadio

(* Every step is a step of the stream or none. *)
LEMMA StreamStep == Inv /\ [Next]_vars => [Stream!LineNext]_(Stream!lineVars)
<1> SUFFICES ASSUME Inv, [Next]_vars PROVE Stream!LineNext \/ UNCHANGED Stream!lineVars
  OBVIOUS
<1>1. ASSUME NEW t \in Producer, OnPacket(t) PROVE Stream!LineNext
  BY <1>1, OnPacketStep DEF Stream!LineNext
<1>2. ASSUME UNCHANGED <<apiVars, tx, heard, packets>>, UNCHANGED <<running, held>>
      PROVE  UNCHANGED Stream!lineVars
  BY <1>2, Stutters
<1>3. ASSUME NEW t \in Producer, DataReady(t) PROVE UNCHANGED Stream!lineVars
  BY <1>2, <1>3, Zenon DEF DataReady, threadVars, txVars
<1>4. CASE PhoneAsks
  BY <1>2, <1>4, Zenon DEF PhoneAsks, threadVars, txVars
<1>5. ASSUME NEW c \in Command, PhoneWrites(c) PROVE UNCHANGED Stream!lineVars
  BY <1>2, <1>5 DEF PhoneWrites, threadVars, txVars
<1>6. CASE IsrTx
  BY <1>6, IsrTxStep DEF Stream!LineNext
<1>7. CASE IsrTxFinish
  BY <1>2, <1>7 DEF IsrTxFinish, threadVars
<1>8. ASSUME UNCHANGED <<apiVars, tx, heard, packets>>, running # "tx_put", running' # "tx_put"
      PROVE  UNCHANGED Stream!lineVars
  BY <1>8, Stutters
<1>9. CASE WorkNext
  <2>1. Head(work) \in Work
    BY <1>9 DEF WorkNext, Inv, ThreadInv
  <2> QED BY <1>8, <1>9, <2>1, Zenon DEF WorkNext, Work, txVars
<1>10. CASE TxPop
  BY <1>10, TxPopStep DEF Stream!LineNext
<1>11. CASE TxPut
  BY <1>11, TxPutStep DEF Stream!LineNext
<1>12. CASE TxCont \/ RxEnd \/ RxSent \/ RxReady
  BY <1>8, <1>12 DEF TxCont, RxEnd, RxSent, RxReady, txVars
<1>13. CASE RxPop
  <2>1. Stream!Request = Request
    BY DEF Stream!Request, Request
  <2> QED BY <1>13, <2>1, RxPopStep DEF Stream!LineNext
<1>14. CASE RxStatus
  BY <1>14, RxStatusStep DEF Stream!LineNext
<1>15. CASE UNCHANGED vars
  BY <1>2, <1>15, Zenon DEF vars, apiVars
<1> QED BY <1>1, <1>3, <1>4, <1>5, <1>6, <1>7, <1>9, <1>10, <1>11, <1>12, <1>13, <1>14, <1>15,
        SMTT(30) DEF Next, Uart, Thread

(* The transport starts as an empty stream, but for the "rebooted" frame. *)
LEMMA StreamInit == Init => Stream!LineInit
<1> SUFFICES ASSUME Init PROVE Stream!LineInit
  OBVIOUS
<1>1. tx = <<>> /\ queue = <<Rebooted>> /\ Held = <<>>
  BY DEF Init, Held
<1>2. Line \in Seq({Stream!QueueStatus, Stream!Rebooted})
  <2>1. <<Rebooted>> \in Seq({Stream!QueueStatus, Stream!Rebooted})
    BY DEF Stream!Rebooted, Rebooted
  <2>2. (<<>> \o <<>>) \o <<Rebooted>> = <<Rebooted>>
    BY <2>1
  <2> QED BY <1>1, <2>1, <2>2 DEF Line
<1>3. Todo = {}
  BY IdleHandshake DEF Init
<1> QED BY <1>2, <1>3 DEF Init, Stream!LineInit, Stream!Nothing, Nothing

(* The serial transport is a FromRadio stream: the order of the transmit ring,
   of the frame tx_work_handler() holds and of the queue is one line, from
   which an overflow takes single frames. *)
THEOREM SerialIsStream == Spec => StreamSpec
BY SpecInv, StreamInit, StreamStep, PTL DEF Spec, StreamSpec, Stream!LineSpec

-----------------------------------------------------------------------------
(* FromRadio's theorems, for this transport's line *)

P == INSTANCE FromRadioProofs
     WITH line <- Line, todo <- Todo, told <- heard, broken <- cut, count <- packets

(* The two copies of the stream's specification are the same. *)
LEMMA SameStream == Stream!LineSpec => P!LineSpec
<1>1. Stream!LineInit => P!LineInit
  BY DEF Stream!LineInit, P!LineInit, Stream!QueueStatus, P!QueueStatus, Stream!Rebooted, P!Rebooted,
         Stream!Nothing, P!Nothing
<1>2. Stream!LineNext => P!LineNext
  BY Zenon
     DEF Stream!LineNext, P!LineNext, Stream!Receive, P!Receive, Stream!Report, P!Report,
         Stream!Hear, P!Hear, Stream!Reset, P!Reset, Stream!Make, P!Make, Stream!Lose, P!Lose,
         Stream!Ask, P!Ask, Stream!Join, P!Join, Stream!Loses, P!Loses, Stream!Behind, P!Behind,
         Stream!Without, P!Without, Stream!Packet, P!Packet, Stream!QueueStatus,
         P!QueueStatus, Stream!Nothing, P!Nothing, Stream!Hearing, P!Hearing, Stream!IsConfig,
         P!IsConfig, Stream!Stage, P!Stage, Stream!Handshake, P!Handshake, Stream!Entries,
         P!Entries, Stream!Before, P!Before, Stream!Rank, P!Rank, Stream!Request, P!Request
<1>3. [Stream!LineNext]_(Stream!lineVars) => [P!LineNext]_(P!lineVars)
  BY <1>2, Zenon DEF Stream!lineVars, P!lineVars
<1> QED BY <1>1, <1>2, <1>3, PTL DEF Stream!LineSpec, P!LineSpec

(* The packets reach the phone in the order they were received in, none of them
   twice, although a frame that does not fit the transmit ring goes back. *)
THEOREM SerialPacketsInOrder == Spec => []PacketsInOrder
<1>1. P!LineSpec => []P!PacketsHeardInOrder
  BY FramesAssumption, PhoneApiAssumption, P!StreamPacketsInOrder, SMTT(30)
<1>2. P!PacketsHeardInOrder => PacketsInOrder
  BY SMTT(30) DEF P!PacketsHeardInOrder, PacketsInOrder
<1> QED BY <1>1, <1>2, SerialIsStream, SameStream, PTL DEF StreamSpec

(* The frames of a handshake reach the phone from the first one on, in order and
   without a gap, unless one of them was pushed out of a full queue. *)
THEOREM SerialHandshakeInOrder == Spec => []HandshakeInOrder
<1>1. P!LineSpec => []P!HandshakeHeardInOrder
  BY FramesAssumption, PhoneApiAssumption, P!StreamHandshakeInOrder
<1>2. P!HandshakeHeardInOrder => HandshakeInOrder
  BY Zenon
     DEF P!HandshakeHeardInOrder, HandshakeInOrder, P!Begins, Begins, P!Handshake, Handshake,
         P!Entries, Entries, P!Stage, Stage, P!Before, Before, P!Rank, Rank
<1> QED BY <1>1, <1>2, SerialIsStream, SameStream, PTL DEF StreamSpec

=============================================================================
