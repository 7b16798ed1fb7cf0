----------------------------- MODULE BleProofs ------------------------------
(***************************************************************************)
(* Proofs about Ble: no wake-up is lost, the transport is a FromRadio      *)
(* stream, so that the phone reads packets and handshake frames in order,  *)
(* and what a connection may still read of the one before it.              *)
(***************************************************************************)
EXTENDS Ble, FromRadioProofs

-----------------------------------------------------------------------------
(* The counters of packets and of requests *)

(* A count is followed by a count, and what exceeds it is not among what it counts. *)
LEMMA Counts ==
  ASSUME NEW n \in Nat
  PROVE  n + 1 \in Nat /\ \A r : r > n => r \notin 1 .. n
OBVIOUS

(* A bound below a request number is a count. *)
LEMMA RequestCounts ==
  ASSUME NEW n \in Request, NEW m \in 0 .. n
  PROVE  m \in Nat
BY FramesAssumption DEF Request

-----------------------------------------------------------------------------
(* The work queue *)

Item == {"fromradio", "toradio"}

(* k_work_submit_to_queue() queues its item and keeps the others, or refuses it. *)
LEMMA SubmitFacts ==
  ASSUME work \in Seq(Item), NEW w \in Item, Submit(w)
  PROVE  /\ work' \in Seq(Item)
         /\ \A v \in Item : Queued(v) => Queued(v)'
         /\ w = "toradio" => Queued(w)' /\ missed' = missed
         /\ w = "fromradio" => Queued(w)' \/ "submit" \in missed'
<1>1. CASE w = "fromradio" /\ canceling
  BY <1>1 DEF Submit, Queued
<1>2. CASE ~(w = "fromradio" /\ canceling)
  <2>1. w = "toradio" => missed' = missed
    BY <1>2 DEF Submit
  <2>2. CASE Queued(w)
    BY <1>2, <2>1, <2>2 DEF Submit, Queued
  <2>3. CASE ~Queued(w)
    <3>1. work' = Append(work, w)
      BY <1>2, <2>3 DEF Submit
    <3>2. /\ work' \in Seq(Item) /\ Len(work') = Len(work) + 1 /\ Len(work) \in Nat
          /\ \A i \in 1 .. Len(work) : work'[i] = work[i]
          /\ work'[Len(work) + 1] = w
      BY <3>1, AppendAdds
    <3> QED BY <2>1, <3>2 DEF Queued
  <2> QED BY <2>2, <2>3
<1> QED BY <1>1, <1>2

(* k_work_cancel() keeps the other items. *)
LEMMA CancelFacts ==
  ASSUME work \in Seq(Item), Cancel("fromradio")
  PROVE  work' \in Seq(Item) /\ (Queued("toradio") => Queued("toradio")')
<1>1. CASE UNCHANGED work
  BY <1>1 DEF Queued
<1>2. CASE \E i \in 1 .. Len(work) :
             /\ work[i] = "fromradio"
             /\ work' = [j \in 1 .. Len(work) - 1 |-> IF j < i THEN work[j] ELSE work[j + 1]]
  <2>1. PICK i \in 1 .. Len(work) :
          /\ work[i] = "fromradio"
          /\ work' = [j \in 1 .. Len(work) - 1 |-> IF j < i THEN work[j] ELSE work[j + 1]]
    BY <1>2, Zenon
  <2>2. PICK n \in Nat : n = Len(work) - 1
    <3>1. Len(work) \in Nat /\ Len(work) # 0
      BY <2>1
    <3> QED BY <3>1
  <2>3. \A j \in 1 .. n : j \in 1 .. Len(work) /\ j + 1 \in 1 .. Len(work)
    BY <2>2
  <2>4. \A j \in 1 .. n : work[j] \in Item /\ work[j + 1] \in Item
    BY <2>3
  <2>5. work' \in [1 .. n -> Item]
        /\ \A j \in 1 .. n : work'[j] = IF j < i THEN work[j] ELSE work[j + 1]
    BY <2>1, <2>2, <2>4
  <2>6. work' \in Seq(Item) /\ Len(work') = n
    BY <2>5
  <2>7. ASSUME NEW k \in 1 .. Len(work), work[k] = "toradio"
        PROVE  \E j \in 1 .. Len(work') : work'[j] = "toradio"
    <3>1. k # i
      BY <2>1, <2>7
    <3>2. CASE k < i
      BY <2>2, <2>5, <2>6, <2>7, <3>2
    <3>3. CASE k > i
      <4>1. k - 1 \in 1 .. n /\ ~(k - 1 < i) /\ (k - 1) + 1 = k
        BY <2>1, <2>2, <3>3
      <4> QED BY <2>5, <2>6, <2>7, <4>1, Zenon
    <3> QED BY <3>1, <3>2, <3>3
  <2> QED BY <2>6, <2>7 DEF Queued
<1> QED BY <1>1, <1>2 DEF Cancel

-----------------------------------------------------------------------------
(* The inductive invariant *)

(* A frame is staged for the phone, or will be. *)
Holding == Half \/ ready \/ running = "ready"

(* A request newer than every frame that is about or was heard *)
Older(r) ==
  /\ config.request < r
  /\ IsConfig(staged) => staged.request < r
  /\ \A i \in 1 .. Len(heard.config) : heard.config[i].request < r

Invalidating == running \in {"invalidate", "invalidate_len"}

LinkInv == (phone # "asleep" => notify_enabled) /\ work \in Seq(Item)

(* The queue holds no frame of a handshake. *)
ApiInv == QueueInv /\ ConfigType /\ \A i \in 1 .. Len(queue) : ~IsConfig(queue[i])

(* What the callbacks find: the current frame is the one that is staged, a frame is
   half read only while it is staged, and fromradio_work_handler() stages no other
   one while it is. *)
StageInv ==
  /\ ready \in BOOLEAN
  /\ staged \in Frame \cup {None}
  /\ Holding => staged \in Frame
  /\ current # None => staged = current /\ (ready \/ running = "ready")
  /\ running = "ready" => ~ready /\ ~Half
  /\ Half => buf = staged /\ (ready \/ running = "invalidate_len")
  /\ running = "invalidate_len" => ~ready
  /\ Invalidating => current = None

HeardInv == heard \in [packets : Seq(Nat), config : Seq(Frame)]

(* A request that is waiting is newer than every frame, and once it is handled it is
   newer than a frame that was staged before. *)
RequestInv ==
  /\ requests \in Request /\ base.requests \in 0 .. requests
  /\ config_active => config.request # 0
  /\ IsConfig(staged) => staged.request # 0
  /\ Older(requests + 1)
  /\ to_radio.type = "want_config" => to_radio.request \in 1 .. requests /\ Older(to_radio.request)
  /\ Invalidating /\ config_active /\ IsConfig(staged) => staged.request < config.request

(* A packet of the last connection is not queued, and if it is staged it is the first
   thing to be read. *)
AgeInv ==
  /\ packets \in Nat /\ base.packets \in 0 .. packets
  /\ \A i \in 1 .. Len(queue) : queue[i].type = "packet" => queue[i].at > base.packets
  /\ Holding /\ staged.type = "packet" /\ staged.at <= base.packets => heard = Nothing

Inv == LinkInv /\ ApiInv /\ StageInv /\ HeardInv /\ RequestInv /\ AgeInv

-----------------------------------------------------------------------------
(* The operations that move frames *)

(* None is no frame. *)
LEMMA NoFrame == None \notin Frame /\ ~IsConfig(None) /\ None.type # "packet"
BY DEF None, Frame, FrameType, Stage, IsConfig

(* A frame of the handshake is no packet. *)
LEMMA ConfigNoPacket == \A f : IsConfig(f) => f.type # "packet"
BY DEF IsConfig, Stage

(* meshtastic_phoneapi_enqueue_fromradio() adds its frame and no other one. *)
LEMMA Enqueued ==
  ASSUME ApiInv, NEW f \in Frame, ~IsConfig(f), Enqueue(f), UNCHANGED config
  PROVE  /\ ApiInv'
         /\ \A i \in 1 .. Len(queue') :
              queue'[i] = f \/ \E j \in 1 .. Len(queue) : queue'[i] = queue[j]
<1>1. QueueInv /\ ConfigType /\ queue \in Seq(Frame) /\ QueueSize \in Nat \ {0}
  BY PhoneApiAssumption DEF ApiInv, QueueInv
<1>2. QueueInv'
  <2>1. Upto(queue, 0)
    BY DEF Upto, ApiInv
  <2> QED BY <1>1, <2>1, EnqueueFacts
<1>3. ConfigType'
  BY <1>1 DEF ConfigType
<1>4. PICK s \in Seq(Frame) : /\ queue' = Append(s, f)
                              /\ \A i \in 1 .. Len(s) : \E j \in 1 .. Len(queue) : s[i] = queue[j]
  <2>1. CASE Len(queue) = QueueSize
    <3>1. queue # <<>> /\ queue' = Append(Tail(queue), f)
      BY <1>1, <2>1 DEF Enqueue
    <3>2. PICK s : s = Tail(queue)
      BY Zenon
    <3>3. s \in Seq(Frame) /\ \A i \in 1 .. Len(s) : i + 1 \in 1 .. Len(queue) /\ s[i] = queue[i + 1]
      BY <1>1, <3>1, <3>2
    <3> QED BY <3>1, <3>2, <3>3, Zenon
  <2>2. CASE Len(queue) # QueueSize
    BY <1>1, <2>2 DEF Enqueue
  <2> QED BY <2>1, <2>2
<1>5. \A i \in 1 .. Len(queue') :
        queue'[i] = f \/ \E j \in 1 .. Len(queue) : queue'[i] = queue[j]
  BY <1>4, AppendAdds
<1>6. \A i \in 1 .. Len(queue') : ~IsConfig(queue'[i])
  BY <1>5 DEF ApiInv
<1> QED BY <1>2, <1>3, <1>5, <1>6 DEF ApiInv

(* meshtastic_phoneapi_pop_frame() takes a frame of the queue, or has one made for
   the request that is being answered. *)
LEMMA Popped ==
  ASSUME ApiInv, NEW f, PopFrame(f)
  PROVE  /\ ApiInv' /\ f \in Frame
         /\ config'.request = config.request /\ (config_active' => config_active)
         /\ IsConfig(f) => f.request = config.request /\ config_active
         /\ IsConfig(f) \/ \E j \in 1 .. Len(queue) : f = queue[j]
         /\ \A i \in 1 .. Len(queue') : \E j \in 1 .. Len(queue) : queue'[i] = queue[j]
<1>1. QueueInv /\ ConfigType /\ queue \in Seq(Frame)
  BY DEF ApiInv, QueueInv
<1>2. CASE queue # <<>> /\ f = Head(queue) /\ queue' = Tail(queue) /\ UNCHANGED <<config, cut>>
  <2>1. 1 \in 1 .. Len(queue) /\ f = queue[1] /\ f \in Frame
    BY <1>1, <1>2
  <2>2. PICK t : t = Tail(queue)
    BY Zenon
  <2>3. /\ t \in Seq(Frame) /\ Len(t) <= Len(queue)
        /\ \A i \in 1 .. Len(t) : i + 1 \in 1 .. Len(queue) /\ t[i] = queue[i + 1]
    BY <1>1, <1>2, <2>2
  <2>4. \A i \in 1 .. Len(queue') : \E j \in 1 .. Len(queue) : queue'[i] = queue[j]
    BY <1>2, <2>2, <2>3
  <2>5. QueueInv'
    <3>1. Len(queue) \in Nat /\ Len(t) \in Nat /\ Len(queue) <= QueueSize
      BY <1>1, <2>3 DEF QueueInv
    <3> QED BY <1>1, <1>2, <2>2, <2>3, <3>1, PhoneApiAssumption DEF QueueInv
  <2>6. ConfigType' /\ config_active' = config_active /\ config'.request = config.request
    BY <1>1, <1>2 DEF ConfigType, config_active
  <2>7. \A i \in 1 .. Len(queue') : ~IsConfig(queue'[i])
    BY <2>4 DEF ApiInv
  <2>8. ~IsConfig(f)
    BY <2>1 DEF ApiInv
  <2> QED BY <2>1, <2>4, <2>5, <2>6, <2>7, <2>8 DEF ApiInv
<1>3. CASE queue = <<>> /\ NextConfigFrame(f) /\ UNCHANGED <<queue, cut>>
  <2>1. /\ ConfigType' /\ config'.request = config.request
        /\ f \in Frame /\ IsConfig(f) /\ f.request = config.request
    BY <1>1, <1>3, MakesNext
  <2>2. config_active
    BY <1>3 DEF NextConfigFrame
  <2>3. QueueInv' /\ (\A i \in 1 .. Len(queue') : ~IsConfig(queue'[i])) /\ Len(queue') = 0
    BY <1>1, <1>3 DEF QueueInv, ApiInv
  <2> QED BY <2>1, <2>2, <2>3 DEF ApiInv
<1> QED BY <1>2, <1>3 DEF PopFrame

(* What the phone remembers of a frame it reads *)
LEMMA HeardFacts ==
  ASSUME HeardInv, NEW f \in Frame, heard' = Hearing(heard, f)
  PROVE  /\ HeardInv'
         /\ \A i \in 1 .. Len(heard'.config) :
              \/ IsConfig(f) /\ heard'.config[i] = f
              \/ \E j \in 1 .. Len(heard.config) : heard'.config[i] = heard.config[j]
         /\ heard.config # <<>> => heard'.config # <<>>
         /\ heard'.packets # heard.packets =>
              f.type = "packet" /\ heard'.packets[Len(heard'.packets)] = f.at
<1>1. /\ heard.packets \in Seq(Nat) /\ heard.config \in Seq(Frame) /\ f.at \in Nat
      /\ heard \in [packets : Seq(Nat), config : Seq(Frame)]
  BY FrameFields DEF HeardInv
<1>2. CASE f.type = "packet"
  <2>1. heard' = [heard EXCEPT !.packets = Append(heard.packets, f.at)]
    BY <1>2 DEF Hearing
  <2>2. PICK p \in Seq(Nat) : p = Append(heard.packets, f.at) /\ p[Len(p)] = f.at
    <3>1. PICK h \in Seq(Nat) : h = heard.packets
      BY <1>1
    <3>2. Append(h, f.at) \in Seq(Nat) /\ Append(h, f.at)[Len(Append(h, f.at))] = f.at
      BY <1>1, <3>1, AppendAdds
    <3> QED BY <3>1, <3>2, Zenon
  <2>3. heard'.packets = p /\ heard'.config = heard.config
    BY <1>1, <2>1, <2>2
  <2>4. HeardInv'
    BY <1>1, <2>1, <2>2, Zenon DEF HeardInv
  <2> QED BY <1>2, <2>2, <2>3, <2>4
<1>3. CASE f.type # "packet" /\ ~IsConfig(f)
  BY <1>3 DEF Hearing, HeardInv
<1>4. CASE f.type # "packet" /\ IsConfig(f)
  <2>1. PICK d : d = IF heard.config # <<>> /\ heard.config[1].request = f.request
                       THEN Append(heard.config, f) ELSE <<f>>
    BY Zenon
  <2>2. heard' = [heard EXCEPT !.config = d]
    BY <1>4, <2>1, Zenon DEF Hearing
  <2>3. d \in Seq(Frame) /\ d # <<>>
    BY <1>1, <2>1
  <2>4. \A i \in 1 .. Len(d) : d[i] = f \/ \E j \in 1 .. Len(heard.config) : d[i] = heard.config[j]
    <3>1. CASE d = Append(heard.config, f)
      BY <1>1, <3>1, AppendAdds
    <3>2. CASE d = <<f>>
      BY <3>2
    <3> QED BY <2>1, <3>1, <3>2
  <2>5. heard'.config = d /\ heard'.packets = heard.packets
    BY <1>1, <2>2
  <2>6. HeardInv'
    BY <1>1, <2>2, <2>3 DEF HeardInv
  <2> QED BY <1>4, <2>3, <2>4, <2>5, <2>6
<1> QED BY <1>2, <1>3, <1>4

-----------------------------------------------------------------------------
(* The steps that move no frame *)

Plain(r) == r \notin {"ready", "invalidate", "invalidate_len"}

(* A step keeps the invariant that touches no frame, and neither begins nor ends the
   staging or the invalidation of one. *)
LEMMA KeptInv ==
  ASSUME Inv, LinkInv', UNCHANGED <<apiVars, deliveryVars, heard, base, packets, requests>>,
         Half' = Half, running' = running \/ (Plain(running) /\ Plain(running')),
         to_radio' = to_radio \/ to_radio'.type # "want_config"
  PROVE  Inv'
<1>1. ApiInv'
  BY DEF Inv, ApiInv, QueueInv, ConfigType, apiVars
<1>2. Holding' = Holding /\ Invalidating' = Invalidating
  BY DEF Holding, Invalidating, Plain, deliveryVars
<1>3. StageInv'
  BY <1>2 DEF Inv, StageInv, Plain, deliveryVars
<1>4. HeardInv'
  BY DEF Inv, HeardInv
<1>5. config_active' = config_active /\ \A r : Older(r)' = Older(r)
  BY DEF config_active, Older, apiVars, deliveryVars
<1>6. RequestInv'
  BY <1>2, <1>5, Zenon DEF Inv, RequestInv, apiVars, deliveryVars
<1>7. AgeInv'
  BY <1>2 DEF Inv, AgeInv, apiVars, deliveryVars
<1> QED BY <1>1, <1>3, <1>4, <1>6, <1>7 DEF Inv

(* The callbacks and handlers that only submit, wait or notify *)
LEMMA QuietInv ==
  ASSUME Inv, \/ \E t \in Producer : DataReady(t)
              \/ Connected \/ Subscribe \/ (\E c \in Command : PhoneWrites(c))
              \/ WorkNext \/ NotifyFromNum \/ Sent \/ ToRadioReady
  PROVE  Inv'
<1> USE DEF deliveryVars, linkVars, countVars, workVars
<1>1. work \in Seq(Item) /\ (phone # "asleep" => notify_enabled)
  BY DEF Inv, LinkInv
<1>2. ASSUME NEW t \in Producer, DataReady(t) PROVE Inv'
  <2>1. LinkInv'
    BY <1>1, <1>2, SubmitFacts DEF DataReady, LinkInv, Item
  <2> QED BY <1>2, <2>1, KeptInv DEF DataReady, Half
<1>3. CASE Connected
  <2>1. LinkInv'
    BY <1>1, <1>3 DEF Connected, LinkInv
  <2> QED BY <1>3, <2>1, KeptInv DEF Connected, Half
<1>4. CASE Subscribe
  <2>1. LinkInv' /\ phone = "asleep"
    BY <1>1, <1>4 DEF Subscribe, LinkInv
  <2> QED BY <1>4, <2>1, KeptInv DEF Subscribe, Half
<1>5. ASSUME NEW c \in Command, PhoneWrites(c) PROVE Inv'
  <2>1. LinkInv'
    BY <1>1, <1>5, SubmitFacts DEF PhoneWrites, WriteToRadio, LinkInv, Item
  <2>2. to_radio'.type # "want_config"
    BY <1>5 DEF PhoneWrites, WriteToRadio, ToRadioFrame, Command
  <2> QED BY <1>5, <2>1, <2>2, KeptInv DEF PhoneWrites, Half
<1>6. CASE WorkNext
  <2>1. Head(work) \in Item /\ Tail(work) \in Seq(Item)
    BY <1>1, <1>6 DEF WorkNext
  <2>2. LinkInv'
    BY <1>1, <1>6, <2>1 DEF WorkNext, LinkInv
  <2>3. Plain(running) /\ Plain(running')
    BY <1>6, <2>1 DEF WorkNext, Plain, Item
  <2> QED BY <1>6, <2>2, <2>3, KeptInv DEF WorkNext, Half
<1>7. CASE NotifyFromNum
  <2>1. LinkInv'
    BY <1>1, <1>7 DEF NotifyFromNum, LinkInv
  <2> QED BY <1>7, <2>1, KeptInv DEF NotifyFromNum, Half, Plain
<1>8. CASE Sent
  <2>1. LinkInv'
    BY <1>1, <1>8 DEF Sent, LinkInv
  <2> QED BY <1>8, <2>1, KeptInv DEF Sent, Half, Plain
<1>9. CASE ToRadioReady
  <2>1. LinkInv'
    BY <1>1, <1>9, SubmitFacts DEF ToRadioReady, LinkInv, Item
  <2> QED BY <1>9, <2>1, KeptInv DEF ToRadioReady, Half, Plain
<1> QED BY <1>2, <1>3, <1>4, <1>5, <1>6, <1>7, <1>8, <1>9, Zenon

(* to_radio_work_handler() with anything but a want_config *)
LEMMA OtherToRadioInv ==
  ASSUME Inv, ToRadioWork, to_radio.type # "want_config"
  PROVE  Inv'
<1>1. /\ UNCHANGED <<apiVars, deliveryVars, linkVars, work>> /\ UNCHANGED countVars
      /\ to_radio' = None /\ Plain(running) /\ Plain(running')
  BY DEF ToRadioWork, deliveryVars, workVars, Plain
<1>2. LinkInv'
  BY <1>1 DEF Inv, LinkInv, linkVars
<1>3. None.type # "want_config"
  BY DEF None
<1> QED BY <1>1, <1>2, <1>3, KeptInv, Zenon DEF linkVars, countVars, deliveryVars, Half

-----------------------------------------------------------------------------
(* The steps that move frames *)

(* A packet or a report is queued. *)
LEMMA QueuedInv ==
  ASSUME Inv, NEW f \in Frame, ~IsConfig(f), Enqueue(f), packets' \in Nat, packets' >= packets,
         f.type = "packet" => f.at > base.packets,
         UNCHANGED <<config, deliveryVars, to_radio, linkVars, workVars, requests>>,
         running' = running \/ (Plain(running) /\ Plain(running'))
  PROVE  Inv'
<1> USE DEF deliveryVars, linkVars, workVars
<1>1. /\ ApiInv'
      /\ \A i \in 1 .. Len(queue') :
           queue'[i] = f \/ \E j \in 1 .. Len(queue) : queue'[i] = queue[j]
  BY Enqueued DEF Inv
<1>2. LinkInv' /\ HeardInv'
  BY DEF Inv, LinkInv, HeardInv
<1>3. Half' = Half /\ Holding' = Holding /\ Invalidating' = Invalidating
  BY DEF Half, Holding, Invalidating, Plain
<1>4. StageInv'
  BY <1>3 DEF Inv, StageInv, Plain
<1>5. config_active' = config_active /\ \A r : Older(r)' = Older(r)
  BY DEF config_active, Older
<1>6. RequestInv'
  BY <1>3, <1>5, Zenon DEF Inv, RequestInv
<1>7. AgeInv'
  <2>1. \A i \in 1 .. Len(queue') : queue'[i].type = "packet" => queue'[i].at > base.packets
    BY <1>1 DEF Inv, AgeInv
  <2> QED BY <1>3, <2>1 DEF Inv, AgeInv
<1> QED BY <1>1, <1>2, <1>4, <1>6, <1>7, Zenon DEF Inv

(* A packet is received. *)
LEMMA OnPacketInv ==
  ASSUME Inv, NEW t, OnPacket(t)
  PROVE  Inv'
<1>1. packets \in Nat /\ base.packets \in 0 .. packets
  BY DEF Inv, AgeInv
<1>2. PICK f : f = Packet(packets + 1)
  BY Zenon
<1>3. f \in Frame /\ ~IsConfig(f) /\ f.at = packets + 1
  BY <1>1, <1>2, FrameFacts DEF Packet
<1>4. packets' \in Nat /\ packets' >= packets /\ f.at > base.packets
  BY <1>1, <1>3 DEF OnPacket
<1> QED BY <1>2, <1>3, <1>4, QueuedInv DEF OnPacket

(* The status of the queue is reported. *)
LEMMA StatusInv ==
  ASSUME Inv, Status
  PROVE  Inv'
<1>1. packets \in Nat
  BY DEF Inv, AgeInv
<1>2. QueueStatus \in Frame /\ ~IsConfig(QueueStatus) /\ QueueStatus.type # "packet"
  BY FrameFacts DEF QueueStatus
<1>3. packets' = packets /\ Plain(running) /\ Plain(running')
  BY DEF Status, countVars, Plain
<1> QED BY <1>1, <1>2, <1>3, QueuedInv DEF Status, countVars

(* A connection ends: what is staged may be left. *)
LEMMA DisconnectedInv ==
  ASSUME Inv, Disconnected
  PROVE  Inv'
<1>1. /\ UNCHANGED <<staged, to_radio, running>> /\ UNCHANGED <<packets, requests, cut>>
      /\ heard' = Nothing /\ base' = [packets |-> packets, requests |-> requests]
      /\ queue' = <<>> /\ config' = [at |-> At("IDLE", 0), request |-> 0]
      /\ ready' = FALSE /\ current' = None /\ phone' = "asleep"
  BY DEF Disconnected, countVars
<1>2. LinkInv'
  BY <1>1, CancelFacts DEF Inv, LinkInv, Disconnected
<1>3. ConfigType' /\ ~config_active'
  BY <1>1, FramesAssumption DEF ConfigType, ValidAt, At, Position, ConfigState, Request, config_active
<1>4. ApiInv'
  <2>1. QueueInv' /\ Len(queue') = 0
    BY <1>1, PhoneApiAssumption DEF Inv, ApiInv, QueueInv
  <2> QED BY <1>3, <2>1 DEF ApiInv
<1>5. ~Half' /\ Holding' = (running = "ready") /\ Invalidating' = Invalidating
  BY <1>1 DEF Half, Holding, Invalidating
<1>6. StageInv'
  BY <1>1, <1>5, Zenon DEF Inv, StageInv, Holding
<1>7. HeardInv' /\ Len(heard'.config) = 0
  BY <1>1 DEF HeardInv, Nothing
<1>8. requests \in Nat /\ config.request \in Nat /\ packets \in Nat
  BY ConfigFacts, FramesAssumption DEF Inv, RequestInv, AgeInv, ApiInv, Request
<1>9. ASSUME NEW r \in Nat \ {0} PROVE (IsConfig(staged) => staged.request < r) => Older(r)'
  BY <1>1, <1>7 DEF Older
<1>10. RequestInv'
  <2>1. base'.requests = requests /\ base'.requests \in 0 .. requests
    BY <1>1, <1>8
  <2>2. PICK n, r : n = requests + 1 /\ r = to_radio.request
    BY Zenon
  <2>3. Older(n)'
    <3>1. n \in Nat \ {0} /\ (IsConfig(staged) => staged.request < n)
      BY <1>8, <2>2 DEF Inv, RequestInv, Older
    <3> QED BY <1>9, <3>1, Zenon
  <2>4. to_radio.type = "want_config" => r \in 1 .. requests /\ Older(r)'
    <3> SUFFICES ASSUME to_radio.type = "want_config" PROVE r \in 1 .. requests /\ Older(r)'
      BY Zenon
    <3>1. r \in 1 .. requests /\ (IsConfig(staged) => staged.request < r)
      BY <2>2 DEF Inv, RequestInv, Older
    <3>2. r \in Nat \ {0}
      BY <1>8, <3>1
    <3> QED BY <1>9, <3>1, <3>2
  <2> QED BY <1>1, <1>3, <2>1, <2>2, <2>3, <2>4, Zenon DEF Inv, RequestInv
<1>11. AgeInv'
  BY <1>1, <1>8, <1>4 DEF AgeInv
<1> QED BY <1>2, <1>4, <1>6, <1>7, <1>10, <1>11, Zenon DEF Inv

(* A want_config is written. *)
LEMMA PhoneAsksInv ==
  ASSUME Inv, PhoneAsks
  PROVE  Inv'
<1> USE DEF deliveryVars, linkVars, workVars
<1>1. /\ UNCHANGED <<apiVars, deliveryVars, linkVars, running>> /\ packets' = packets
      /\ requests < MaxRequests /\ requests' = requests + 1
      /\ to_radio' = ToRadioFrame("want_config", requests + 1)
  BY DEF PhoneAsks, WriteToRadio
<1>2. LinkInv'
  BY SubmitFacts DEF Inv, LinkInv, PhoneAsks, WriteToRadio, Item
<1>3. ApiInv' /\ HeardInv'
  BY <1>1 DEF Inv, ApiInv, QueueInv, ConfigType, HeardInv, apiVars
<1>4. Half' = Half /\ Holding' = Holding /\ Invalidating' = Invalidating
  BY <1>1 DEF Half, Holding, Invalidating
<1>5. StageInv'
  BY <1>1, <1>4, Zenon DEF Inv, StageInv
<1>6. config_active' = config_active /\ \A r : Older(r)' = Older(r)
  BY <1>1 DEF config_active, Older, apiVars
<1>7. requests \in Nat /\ requests' \in Request /\ requests' \in Nat
  BY <1>1, FramesAssumption DEF Inv, RequestInv, Request
<1>8. Older(requests + 1) /\ to_radio'.request = requests + 1
  BY <1>1 DEF Inv, RequestInv, ToRadioFrame
<1>9. Older(requests' + 1)
  <2>1. config.request \in Nat
    BY ConfigFacts DEF Inv, ApiInv
  <2>2. IsConfig(staged) => staged.request \in Nat
    BY NoFrame, FrameFields DEF Inv, StageInv
  <2>3. \A i \in 1 .. Len(heard.config) : heard.config[i].request \in Nat
    BY Elements, FrameFields, Zenon DEF Inv, HeardInv
  <2> QED BY <1>1, <1>7, <1>8, <2>1, <2>2, <2>3 DEF Older
<1>10. RequestInv'
  <2>1. base' = base /\ config' = config /\ staged' = staged
    BY <1>1 DEF apiVars
  <2>2. base.requests \in 0 .. requests'
    BY <1>1, <1>7 DEF Inv, RequestInv
  <2>3. to_radio'.request \in 1 .. requests'
    BY <1>1, <1>7, <1>8
  <2> QED
    BY <1>1, <1>4, <1>6, <1>7, <1>8, <1>9, <2>1, <2>2, <2>3, Zenon DEF Inv, RequestInv
<1>11. AgeInv'
  BY <1>1, <1>4 DEF Inv, AgeInv, apiVars
<1> QED BY <1>2, <1>3, <1>5, <1>10, <1>11, Zenon DEF Inv

(* A read finds nothing, or a first piece, or ends the frame that is staged. *)
LEMMA ReadCases ==
  ASSUME Inv, ReadFromRadio \/ ReadRest
  PROVE  /\ UNCHANGED <<apiVars, staged, to_radio, notify_enabled, base, running, packets, requests>>
         /\ UNCHANGED notify /\ phone # "asleep"
         /\ \/ /\ UNCHANGED <<current, ready, work, missed, heard>> /\ ~Half
               /\ Half' => ready /\ buf' = staged
            \/ /\ Holding /\ staged \in Frame /\ running # "ready" /\ ~Half'
               /\ Front = <<staged>>
               /\ current' = None /\ ready' = FALSE /\ Submit("fromradio")
               /\ heard' = Hearing(heard, staged)
<1> USE DEF Half, Holding, Front
<1>1. StageInv
  BY DEF Inv
<1>2. CASE ReadFromRadio
  <2>1. /\ UNCHANGED <<apiVars, staged, to_radio, notify_enabled, base, running, packets, requests>>
        /\ UNCHANGED notify /\ phone = "awake"
    BY <1>2 DEF ReadFromRadio, countVars
  <2>2. CASE /\ ~ready /\ buf' = None /\ phone' = "asleep"
             /\ UNCHANGED <<current, ready, work, missed, heard>>
    BY <2>1, <2>2
  <2>3. CASE ready /\ buf' = staged /\ ReadEnds(staged)
    BY <1>1, <2>1, <2>3, Zenon DEF ReadEnds, StageInv
  <2>4. CASE /\ ready /\ buf' = staged /\ phone' = "reading"
             /\ UNCHANGED <<current, ready, work, missed, heard>>
    BY <2>1, <2>4
  <2> QED BY <1>2, <2>2, <2>3, <2>4, Zenon DEF ReadFromRadio
<1>3. CASE ReadRest
  <2>1. /\ UNCHANGED <<apiVars, staged, to_radio, notify_enabled, base, running, packets, requests>>
        /\ UNCHANGED notify /\ phone = "reading"
    BY <1>3 DEF ReadRest, countVars
  <2>2. CASE buf # None /\ ReadEnds(buf)
    BY <1>1, <2>1, <2>2, Zenon DEF ReadEnds, StageInv
  <2>3. CASE buf = None /\ phone' = "awake" /\ UNCHANGED <<current, ready, work, missed, heard>>
    BY <2>1, <2>3
  <2> QED BY <1>3, <2>2, <2>3, Zenon DEF ReadRest
<1> QED BY <1>2, <1>3, Zenon

(* The phone reads. *)
LEMMA ReadInv ==
  ASSUME Inv, ReadFromRadio \/ ReadRest
  PROVE  Inv'
<1>1. /\ UNCHANGED <<apiVars, staged, to_radio, notify_enabled, base, running, packets, requests>>
      /\ phone # "asleep" /\ Invalidating' = Invalidating /\ config_active' = config_active
  BY ReadCases, Zenon DEF Invalidating, config_active, apiVars
<1>2. ApiInv'
  BY <1>1 DEF Inv, ApiInv, QueueInv, ConfigType, apiVars
<1>3. notify_enabled'
  BY <1>1 DEF Inv, LinkInv
<1>4. CASE /\ UNCHANGED <<current, ready, work, missed, heard>>
           /\ ~Half /\ (Half' => ready /\ buf' = staged)
  <2>1. LinkInv' /\ HeardInv'
    BY <1>3, <1>4 DEF Inv, LinkInv, HeardInv
  <2>2. Holding' = Holding
    BY <1>1, <1>4 DEF Holding
  <2>3. StageInv'
    BY <1>1, <1>4, <2>2, Zenon DEF Inv, StageInv
  <2>4. \A r : Older(r)' = Older(r)
    BY <1>1, <1>4 DEF Older, apiVars
  <2>5. RequestInv'
    BY <1>1, <2>4, Zenon DEF Inv, RequestInv, apiVars
  <2>6. AgeInv'
    BY <1>1, <1>4, <2>2, Zenon DEF Inv, AgeInv, apiVars
  <2> QED BY <1>2, <2>1, <2>3, <2>5, <2>6, Zenon DEF Inv
<1>5. CASE /\ Holding /\ staged \in Frame /\ running # "ready" /\ ~Half'
           /\ current' = None /\ ready' = FALSE /\ Submit("fromradio")
           /\ heard' = Hearing(heard, staged)
  <2>1. LinkInv'
    BY <1>3, <1>5, SubmitFacts, Zenon DEF Inv, LinkInv, Item
  <2>2. /\ HeardInv'
        /\ \A i \in 1 .. Len(heard'.config) :
             \/ IsConfig(staged) /\ heard'.config[i] = staged
             \/ \E j \in 1 .. Len(heard.config) : heard'.config[i] = heard.config[j]
    BY <1>5, HeardFacts DEF Inv
  <2>3. ~Holding'
    BY <1>1, <1>5 DEF Holding
  <2>4. StageInv'
    BY <1>1, <1>5, <2>3, Zenon DEF Inv, StageInv
  <2>5. \A r : Older(r) => Older(r)'
    BY <1>1, <2>2 DEF Older, apiVars
  <2>6. RequestInv'
    BY <1>1, <2>5, Zenon DEF Inv, RequestInv, apiVars
  <2>7. AgeInv'
    BY <1>1, <2>3 DEF Inv, AgeInv, apiVars
  <2> QED BY <1>2, <2>1, <2>2, <2>4, <2>6, <2>7, Zenon DEF Inv
<1> QED BY <1>4, <1>5, ReadCases, Zenon

(* fromradio_work_handler() does nothing, or stages the next frame. *)
LEMMA StageCases ==
  ASSUME Inv, FromRadioWork
  PROVE  /\ UNCHANGED <<ready, buf, to_radio, linkVars, work, missed, notify, countVars>>
         /\ running = "fromradio" /\ Half' = Half
         /\ \/ running' = "idle" /\ UNCHANGED <<apiVars, current, staged>>
            \/ /\ running' = "ready" /\ staged' = current' /\ ~Half /\ ~ready /\ PopFrame(current')
               /\ ~Holding
<1>1. /\ UNCHANGED <<ready, buf, to_radio, linkVars, work, missed, notify, countVars>>
      /\ running = "fromradio" /\ Half' = Half
  BY DEF FromRadioWork, Half, linkVars
<1>2. CASE ~ready /\ CurrentFrame /\ staged' = current' /\ running' = "ready"
  <2>1. ~Half /\ current = None
    BY <1>1, <1>2 DEF Inv, StageInv
  <2> QED BY <1>1, <1>2, <2>1 DEF CurrentFrame, Holding
<1> QED BY <1>1, <1>2 DEF FromRadioWork

(* A frame is staged. *)
LEMMA FromRadioWorkInv ==
  ASSUME Inv, FromRadioWork
  PROVE  Inv'
<1> USE DEF linkVars, countVars, workVars
<1>1. /\ UNCHANGED <<ready, buf, to_radio, linkVars, work, missed, notify, countVars>>
      /\ running = "fromradio" /\ Half' = Half
  BY StageCases
<1>2. LinkInv' /\ HeardInv'
  BY <1>1 DEF Inv, LinkInv, HeardInv
<1>3. CASE running' = "idle" /\ UNCHANGED <<apiVars, current, staged>>
  BY <1>1, <1>2, <1>3, KeptInv, Zenon DEF deliveryVars, Plain
<1>4. CASE running' = "ready" /\ staged' = current' /\ ~Half /\ ~ready /\ PopFrame(current')
  <2>1. PICK f : f = current'
    BY Zenon
  <2>2. /\ ApiInv' /\ f \in Frame
        /\ config'.request = config.request /\ (config_active' => config_active)
        /\ IsConfig(f) => f.request = config.request /\ config_active
        /\ IsConfig(f) \/ \E j \in 1 .. Len(queue) : f = queue[j]
        /\ \A i \in 1 .. Len(queue') : \E j \in 1 .. Len(queue) : queue'[i] = queue[j]
    <3>1. PopFrame(f)
      BY <1>4, <2>1
    <3> QED BY <3>1, Popped DEF Inv
  <2>3. Holding' /\ ~Invalidating'
    BY <1>4, Zenon DEF Holding, Invalidating
  <2>4. StageInv'
    BY <1>1, <1>4, <2>1, <2>2, <2>3, Zenon DEF Inv, StageInv
  <2>5. \A r : Older(r) => Older(r)'
    BY <1>1, <1>4, <2>1, <2>2, Zenon DEF Older
  <2>6. RequestInv'
    BY <1>1, <1>4, <2>1, <2>2, <2>3, <2>5, Zenon DEF Inv, RequestInv
  <2>7. f.type = "packet" => f.at > base.packets /\ f.at \in Nat
    BY <2>2, FrameFields, ConfigNoPacket, Zenon DEF Inv, AgeInv
  <2>8. AgeInv'
    BY <1>1, <1>4, <2>1, <2>2, <2>7 DEF Inv, AgeInv
  <2> QED BY <1>2, <2>2, <2>4, <2>6, <2>8, Zenon DEF Inv
<1> QED BY <1>3, <1>4, StageCases

(* The phone may read the frame that is staged. *)
LEMMA FrameReadyInv ==
  ASSUME Inv, FrameReady
  PROVE  Inv'
<1> USE DEF linkVars, countVars, workVars
<1>1. /\ UNCHANGED <<apiVars, current, staged, buf, to_radio, linkVars, work, countVars>>
      /\ running = "ready" /\ ready' = TRUE /\ running' = "notify" /\ Half' = Half
  BY DEF FrameReady, Half
<1>2. ApiInv' /\ LinkInv' /\ HeardInv'
  BY <1>1 DEF Inv, ApiInv, QueueInv, ConfigType, LinkInv, HeardInv, apiVars
<1>3. Holding /\ Holding' /\ ~Invalidating'
  BY <1>1 DEF Holding, Invalidating
<1>4. StageInv'
  BY <1>1, <1>3, Zenon DEF Inv, StageInv
<1>5. config_active' = config_active /\ \A r : Older(r)' = Older(r)
  BY <1>1 DEF config_active, Older, apiVars
<1>6. RequestInv'
  BY <1>1, <1>3, <1>5, Zenon DEF Inv, RequestInv, apiVars
<1>7. AgeInv'
  BY <1>1, <1>3 DEF Inv, AgeInv, apiVars
<1> QED BY <1>2, <1>4, <1>6, <1>7, Zenon DEF Inv

(* want_config begins a handshake, newer than the frame that is staged. *)
LEMMA WantConfigInv ==
  ASSUME Inv, ToRadioWork, to_radio.type = "want_config"
  PROVE  Inv'
<1> USE DEF linkVars, countVars, workVars
<1>1. PICK r : r = to_radio.request
  BY Zenon
<1>2. /\ UNCHANGED <<staged, ready, buf, linkVars, work, countVars>>
      /\ running = "toradio" /\ running' = "invalidate" /\ current' = None /\ to_radio' = None
      /\ WantConfig(r) /\ Half' = Half
  BY <1>1 DEF ToRadioWork, Half
<1>3. r \in 1 .. requests /\ Older(r) /\ requests \in Nat /\ r \in Request /\ r # 0
  BY <1>1, FramesAssumption DEF Inv, RequestInv, Request
<1>4. /\ queue' = <<>> /\ config'.request = r /\ cut' = cut
      /\ config' = [at |-> At("MY_INFO", 0), request |-> r]
  BY <1>2 DEF WantConfig
<1>5. ApiInv'
  <2>1. ConfigType'
    BY <1>3, <1>4, StartsHandshake, Zenon
  <2>2. QueueInv' /\ Len(queue') = 0
    <3>1. queue' \in Seq(Frame) /\ Len(queue') = 0 /\ 0 <= QueueSize
      BY <1>4, PhoneApiAssumption
    <3>2. cut' \subseteq Request
      BY <1>4, Zenon DEF Inv, ApiInv, QueueInv
    <3> QED BY <3>1, <3>2, Zenon DEF QueueInv
  <2> QED BY <2>1, <2>2 DEF ApiInv
<1>6. LinkInv' /\ HeardInv'
  BY <1>2 DEF Inv, LinkInv, HeardInv
<1>7. Holding' = Holding
  BY <1>2 DEF Holding
<1>8. StageInv'
  BY <1>2, <1>7, Zenon DEF Inv, StageInv, Invalidating
<1>9. RequestInv'
  <2>1. Older(requests + 1)'
    <3>1. r < requests + 1
      BY <1>3
    <3> QED BY <1>2, <1>4, <3>1 DEF Inv, RequestInv, Older
  <2>2. None.type # "want_config"
    BY DEF None
  <2>3. IsConfig(staged) => staged.request < r
    BY <1>3, Zenon DEF Older
  <2> QED BY <1>2, <1>3, <1>4, <2>1, <2>2, <2>3, Zenon DEF Inv, RequestInv
<1>10. AgeInv'
  <2>1. 1 .. Len(queue') = {}
    BY <1>4
  <2> QED BY <1>2, <1>7, <2>1, Zenon DEF Inv, AgeInv
<1> QED BY <1>5, <1>6, <1>8, <1>9, <1>10 DEF Inv

(* ble_invalidate_delivery() *)
LEMMA InvalidateInv ==
  ASSUME Inv, InvalidateReady \/ InvalidateLen
  PROVE  Inv'
<1> USE DEF linkVars, countVars, workVars
<1>1. /\ UNCHANGED <<apiVars, staged, to_radio, linkVars, work, countVars>>
      /\ Invalidating /\ current' = None /\ running' # "invalidate" /\ running' # "ready"
      /\ ready' \in BOOLEAN /\ ~ready'
      /\ Half' => Half /\ buf' = buf /\ running' = "invalidate_len"
  <2>1. StageInv
    BY DEF Inv
  <2>2. CASE InvalidateReady
    BY <2>1, <2>2, Zenon DEF InvalidateReady, Invalidating, Half, StageInv
  <2>3. CASE InvalidateLen
    BY <2>1, <2>3, Zenon DEF InvalidateLen, Invalidating, Half, StageInv
  <2> QED BY <2>2, <2>3
<1>2. ApiInv' /\ LinkInv' /\ HeardInv'
  BY <1>1 DEF Inv, ApiInv, QueueInv, ConfigType, LinkInv, HeardInv, apiVars
<1>3. Holding' => Holding
  BY <1>1 DEF Holding
<1>4. StageInv'
  BY <1>1, <1>3, Zenon DEF Inv, StageInv, Invalidating
<1>5. config_active' = config_active /\ \A r : Older(r)' = Older(r)
  BY <1>1, Zenon DEF config_active, Older, apiVars
<1>6. RequestInv'
  BY <1>1, <1>5, Zenon DEF Inv, RequestInv, apiVars
<1>7. AgeInv'
  BY <1>1, <1>3 DEF Inv, AgeInv, apiVars
<1> QED BY <1>2, <1>4, <1>6, <1>7, Zenon DEF Inv

(* The invariant holds at first. *)
LEMMA InitInv == Init => Inv
<1> SUFFICES ASSUME Init PROVE Inv
  OBVIOUS
<1>1. ConfigType
  BY IdleHandshake DEF Init, ApiInit
<1>2. ApiInv
  BY <1>1, PhoneApiAssumption DEF Init, ApiInit, ApiInv, QueueInv
<1>3. LinkInv /\ HeardInv
  BY DEF Init, LinkInv, HeardInv, Nothing
<1>4. ~Half /\ ~Holding /\ ~Invalidating
  BY DEF Init, Half, Holding, Invalidating
<1>5. StageInv
  BY <1>4, Zenon DEF Init, StageInv
<1>6. RequestInv
  <2>1. ~IsConfig(None) /\ None.type # "want_config" /\ ~config_active /\ Len(heard.config) = 0
    BY NoFrame DEF Init, ApiInit, config_active, At, None, Nothing
  <2>2. /\ requests = 0 /\ base.requests = 0 /\ config.request = 0 /\ staged = None
        /\ to_radio = None
    BY DEF Init, ApiInit
  <2>3. requests \in Request /\ base.requests \in 0 .. requests
    BY <2>2, FramesAssumption DEF Request
  <2>4. Older(requests + 1)
    BY <2>1, <2>2 DEF Older
  <2> QED BY <1>4, <2>1, <2>2, <2>3, <2>4, Zenon DEF RequestInv
<1>7. AgeInv
  BY <1>4 DEF Init, ApiInit, AgeInv
<1> QED BY <1>2, <1>3, <1>5, <1>6, <1>7, Zenon DEF Inv

(* Every step keeps the invariant. *)
LEMMA NextInv == Inv /\ [Next]_vars => Inv'
<1> SUFFICES ASSUME Inv, [Next]_vars PROVE Inv'
  OBVIOUS
<1>1. ASSUME NEW t \in Producer, OnPacket(t) PROVE Inv'
  BY <1>1, OnPacketInv
<1>2. CASE \/ \E t \in Producer : DataReady(t)
           \/ Connected \/ Subscribe \/ (\E c \in Command : PhoneWrites(c))
           \/ WorkNext \/ NotifyFromNum \/ Sent \/ ToRadioReady
  BY <1>2, QuietInv, Zenon
<1>3. CASE Disconnected
  BY <1>3, DisconnectedInv
<1>4. CASE ReadFromRadio \/ ReadRest
  BY <1>4, ReadInv
<1>5. CASE PhoneAsks
  BY <1>5, PhoneAsksInv
<1>6. CASE FromRadioWork \/ FrameReady
  BY <1>6, FromRadioWorkInv, FrameReadyInv
<1>7. CASE ToRadioWork
  BY <1>7, OtherToRadioInv, WantConfigInv, Zenon
<1>8. CASE InvalidateReady \/ InvalidateLen
  BY <1>8, InvalidateInv
<1>9. CASE Status
  BY <1>9, StatusInv
<1>10. CASE UNCHANGED vars
  <2>1. LinkInv' /\ Half' = Half
    BY <1>10 DEF vars, Inv, LinkInv, Half
  <2> QED BY <1>10, <2>1, KeptInv, Zenon DEF vars, apiVars, deliveryVars
<1> QED BY <1>1, <1>2, <1>3, <1>4, <1>5, <1>6, <1>7, <1>8, <1>9, <1>10, Zenon
        DEF Next, PhoneReads, Thread

(* The invariant is one of the specification. *)
LEMMA SpecInv == Spec => []Inv
BY InitInv, NextInv, PTL DEF Spec

-----------------------------------------------------------------------------
(* No wake-up is lost *)

(* fromradio_work_handler() will run, unless the kernel refused to. *)
Awake ==
  \/ Queued("fromradio") \/ notify # {}
  \/ running \in {"fromradio", "ready", "invalidate", "invalidate_len", "data_ready"}
  \/ "submit" \in missed

(* A command that is waiting will be handled. *)
Commanded == to_radio # None => Queued("toradio") \/ running = "toradio"

(* Every step either leaves fromradio_work_handler() to run, or leaves a frame ready
   or none waiting. *)
LEMMA NextAwake ==
  ASSUME Inv, NoLostWakeup, [Next]_vars
  PROVE  NoLostWakeup'
<1> USE DEF linkVars, countVars, workVars
<1>1. work \in Seq(Item) /\ (Pending /\ ~ready => Awake) /\ Commanded
  BY DEF Inv, LinkInv, NoLostWakeup, Awake, Commanded
<1>2. SUFFICES (Pending' /\ ~ready' => Awake') /\ Commanded'
  BY DEF NoLostWakeup, Awake, Commanded
<1>3. ASSUME NEW w \in Item, Submit(w)
      PROVE  /\ w = "toradio" => Queued(w)' /\ missed' = missed
             /\ w = "fromradio" => Queued(w)' \/ "submit" \in missed'
             /\ Queued("fromradio") => Queued("fromradio")'
             /\ Queued("toradio") => Queued("toradio")'
  BY <1>1, <1>3, SubmitFacts DEF Item
<1>4. "fromradio" \in Item /\ "toradio" \in Item
  BY DEF Item
<1>5. ASSUME UNCHANGED work PROVE \A w : Queued(w)' = Queued(w)
  BY <1>5 DEF Queued
<1>6. ASSUME UNCHANGED <<apiVars, current>> PROVE Pending' = Pending
  BY <1>6 DEF Pending, NothingToPop, config_active, apiVars
<1>7. ASSUME NEW t \in Producer, OnPacket(t) PROVE Awake' /\ Commanded'
  BY <1>1, <1>5, <1>7 DEF OnPacket, Awake, Commanded
<1>8. ASSUME NEW t \in Producer, DataReady(t) PROVE Awake' /\ Commanded'
  BY <1>1, <1>3, <1>4, <1>8, Zenon DEF DataReady, Awake, Commanded
<1>9. CASE Connected \/ Subscribe
  BY <1>1, <1>5, <1>6, <1>9 DEF Connected, Subscribe, Awake, Commanded, deliveryVars
<1>10. CASE Disconnected
  <2>1. ~Pending'
    BY <1>10, Zenon DEF Disconnected, Pending, NothingToPop, config_active, At
  <2>2. Commanded'
    BY <1>1, <1>10, CancelFacts DEF Disconnected, Commanded
  <2> QED BY <2>1, <2>2, Zenon
<1>11. CASE ReadFromRadio \/ ReadRest
  <2>1. /\ UNCHANGED <<apiVars, to_radio, running, notify>>
        /\ UNCHANGED <<current, ready, work, missed>> \/ Submit("fromradio")
    BY <1>11, ReadCases, Zenon
  <2>2. CASE UNCHANGED <<current, ready, work, missed>>
    BY <1>1, <1>5, <1>6, <2>1, <2>2 DEF Awake, Commanded
  <2>3. CASE Submit("fromradio")
    BY <1>1, <1>3, <1>4, <2>1, <2>3, Zenon DEF Awake, Commanded
  <2> QED BY <2>1, <2>2, <2>3
<1>12. CASE PhoneAsks \/ \E c \in Command : PhoneWrites(c)
  <2>1. Submit("toradio") /\ UNCHANGED <<apiVars, deliveryVars, running, notify>>
    BY <1>12 DEF PhoneAsks, PhoneWrites, WriteToRadio
  <2> QED BY <1>1, <1>3, <1>4, <1>6, <2>1 DEF Awake, Commanded, deliveryVars
<1>13. CASE WorkNext
  <2>1. \A w \in Item : Queued(w) => Queued(w)' \/ running' = w
    <3> SUFFICES ASSUME NEW w \in Item, NEW i \in 1 .. Len(work), work[i] = w
                 PROVE  (\E j \in 1 .. Len(work') : work'[j] = w) \/ running' = w
      BY DEF Queued
    <3>1. work # <<>> /\ work' = Tail(work) /\ running' = work[1]
      BY <1>1, <1>13 DEF WorkNext
    <3>2. CASE i = 1
      BY <3>1, <3>2
    <3>3. CASE i # 1
      <4>1. i - 1 \in 1 .. Len(work') /\ work'[i - 1] = work[i]
        BY <1>1, <3>1, <3>3
      <4> QED BY <4>1
    <3> QED BY <3>2, <3>3, Zenon
  <2> QED BY <1>1, <1>4, <1>6, <1>13, <2>1 DEF WorkNext, Awake, Commanded, deliveryVars
<1>14. CASE FromRadioWork
  <2>1. UNCHANGED <<ready, to_radio, work, missed, notify>> /\ running = "fromradio"
    BY <1>14 DEF FromRadioWork
  <2>2. Commanded'
    BY <1>1, <1>5, <2>1, Zenon DEF Commanded
  <2>3. CASE running' = "ready"
    BY <2>2, <2>3 DEF Awake
  <2>4. CASE (ready \/ (current = None /\ NothingToPop)) /\ UNCHANGED <<apiVars, current>>
    BY <1>6, <2>1, <2>2, <2>4, Zenon DEF Pending
  <2> QED BY <1>14, <2>3, <2>4, Zenon DEF FromRadioWork
<1>15. CASE FrameReady
  BY <1>1, <1>5, <1>15, Zenon DEF FrameReady, Commanded
<1>16. CASE NotifyFromNum \/ Sent
  BY <1>1, <1>5, <1>6, <1>16 DEF NotifyFromNum, Sent, Awake, Commanded, deliveryVars
<1>17. CASE ToRadioWork
  <2>1. UNCHANGED <<ready, work, missed, notify>> /\ to_radio' = None /\ running = "toradio"
    BY <1>17 DEF ToRadioWork
  <2>2. running' = "invalidate" \/ UNCHANGED <<apiVars, current>>
    BY <1>17, Zenon DEF ToRadioWork
  <2> QED BY <1>1, <1>5, <1>6, <2>1, <2>2 DEF Awake, Commanded
<1>18. CASE InvalidateReady \/ InvalidateLen \/ Status
  BY <1>1, <1>5, <1>18 DEF InvalidateReady, InvalidateLen, Status, Awake, Commanded
<1>19. CASE ToRadioReady
  BY <1>1, <1>3, <1>4, <1>19, Zenon DEF ToRadioReady, Awake, Commanded
<1>20. CASE UNCHANGED vars
  BY <1>1, <1>5, <1>6, <1>20 DEF vars, apiVars, Awake, Commanded
<1> QED BY <1>7, <1>8, <1>9, <1>10, <1>11, <1>12, <1>13, <1>14, <1>15, <1>16, <1>17, <1>18,
           <1>19, <1>20, Zenon DEF Next, PhoneReads, Thread

(* While a frame waits and none is ready, something is under way that runs
   fromradio_work_handler(), although disconnected() takes its work item off the
   queue and ble_invalidate_delivery() makes a frame unready, or else the latest
   submission met a handler that a disconnect had cancelled and was refused; and a
   command in the buffer will be handled. *)
THEOREM BleAwake == Spec => []NoLostWakeup
<1>1. Init => NoLostWakeup
  BY DEF Init, ApiInit, NoLostWakeup, Pending, NothingToPop, config_active, At
<1> QED BY <1>1, NextAwake, SpecInv, PTL DEF Spec

-----------------------------------------------------------------------------
(* The refinement: the frame that is staged comes before the queue in the line. *)

(* The first part of the line is the frame that is staged, if any. *)
LEMMA FrontIs == Inv => Front = IF Holding THEN <<staged>> ELSE <<>>
BY DEF Inv, StageInv, Holding, Front

(* The same after a step *)
LEMMA FrontWillBe == Inv' => Front' = IF Holding' THEN <<staged'>> ELSE <<>>
BY DEF Inv, StageInv, Holding, Front

(* The types of the line's parts *)
LEMMA LineFacts ==
  ASSUME Inv
  PROVE  /\ Front \in Seq(Frame) /\ queue \in Seq(Frame) /\ Line \in Seq(Frame)
         /\ Line = Front \o queue
         /\ Holding => staged \in Frame /\ Front = <<staged>>
         /\ ~Holding => Front = <<>> /\ Line = queue
<1>1. queue \in Seq(Frame) /\ (Holding => staged \in Frame)
  BY DEF Inv, ApiInv, QueueInv, StageInv
<1>2. Front \in Seq(Frame) /\ (Holding => Front = <<staged>>) /\ (~Holding => Front = <<>>)
  <2>1. CASE Holding
    <3>1. PICK f \in Frame : f = staged
      BY <1>1, <2>1
    <3>2. <<f>> \in Seq(Frame)
      OBVIOUS
    <3> QED BY <2>1, <3>1, <3>2, FrontIs, Zenon
  <2>2. CASE ~Holding
    <3>1. <<>> \in Seq(Frame)
      OBVIOUS
    <3> QED BY <2>2, <3>1, FrontIs, Zenon
  <2> QED BY <2>1, <2>2
<1>3. Line = Front \o queue /\ Line \in Seq(Frame)
  BY <1>1, <1>2, CatFacts, Zenon DEF Line
<1>4. <<>> \o queue = queue
  BY <1>1, CatEmpty
<1> QED BY <1>1, <1>2, <1>3, <1>4, Zenon

(* A step that moves no frame is no step of the stream. *)
LEMMA Stutters ==
  ASSUME Inv, Inv', UNCHANGED <<queue, config, heard, packets, base>>, Holding' = Holding,
         Holding => staged' = staged
  PROVE  UNCHANGED Stream!lineVars
<1>1. Front' = Front
  BY FrontIs, FrontWillBe
<1>2. Line' = Line
  BY <1>1, Zenon DEF Line
<1>3. Todo' = Todo
  BY DEF Todo, config_active
<1> QED BY <1>2, <1>3 DEF Stream!lineVars

(* What is queued joins the stream; what a full queue loses for it is no frame of a
   handshake. *)
LEMMA QueuedJoins ==
  ASSUME Inv, NEW f \in Frame, Enqueue(f), Front' = Front, UNCHANGED base
  PROVE  Stream!Join(f)
<1>1. PICK a : a = Front
  BY Zenon
<1>2. a \in Seq(Frame) /\ queue \in Seq(Frame) /\ Line = a \o queue /\ Line' = a \o queue'
  BY <1>1, LineFacts DEF Line
<1>3. CASE Len(queue) # QueueSize
  <2>1. queue' = Append(queue, f)
    BY <1>3 DEF Enqueue
  <2>2. Line' = Append(Line, f)
    BY <1>2, <2>1, CatAppend
  <2> QED BY <2>2 DEF Stream!Join
<1>4. CASE Len(queue) = QueueSize
  <2>1. queue' = Append(Tail(queue), f) /\ queue # <<>>
    <3>1. Len(queue) # 0 /\ Len(<<>>) = 0
      BY <1>4, PhoneApiAssumption
    <3>2. queue' = Append(Tail(queue), f)
      BY <1>4, Zenon DEF Enqueue
    <3> QED BY <3>1, <3>2, Zenon
  <2>2. PICK t \in Seq(Frame) : t = Tail(queue)
    <3>1. Tail(queue) \in Seq(Frame)
      BY <1>2, <2>1
    <3> QED BY <3>1, Zenon
  <2>3. Line' = Append(a \o t, f)
    BY <1>2, <2>1, <2>2, CatAppend
  <2>4. PICK k : k = Len(a) + 1
    BY Zenon
  <2>5. k \in 1 .. Len(Line) /\ Line[k] = Head(queue) /\ a \o t = Out(Line, k)
    BY <1>2, <2>1, <2>2, <2>4, CatLosesFirst, Zenon
  <2>6. ~IsConfig(Line[k])
    <3>1. Head(queue) = queue[1] /\ 1 \in 1 .. Len(queue)
      BY <1>2, <2>1
    <3> QED BY <2>5, <3>1 DEF Inv, ApiInv
  <2>7. Stream!Loses(k)
    BY <2>6 DEF Stream!Loses, Stream!IsConfig, IsConfig, Stream!Stage, Stage
  <2>8. Out(Line, k) = Stream!Without(k)
    BY DEF Out, Stream!Without
  <2> QED BY <2>3, <2>5, <2>7, <2>8, Zenon DEF Stream!Join
<1> QED BY <1>3, <1>4

(* A packet is queued: the stream receives it. *)
LEMMA OnPacketStep ==
  ASSUME Inv, NEW t, OnPacket(t)
  PROVE  Stream!Receive
<1>1. packets \in Nat /\ Packet(packets + 1) \in Frame
  <2>1. packets \in Nat
    BY Zenon DEF Inv, AgeInv
  <2>2. packets + 1 \in Nat
    BY <2>1, Counts, Zenon
  <2> QED BY <2>1, <2>2, FrameFacts, Zenon
<1>2. Front' = Front /\ Todo' = Todo /\ heard' = heard /\ base' = base
  BY Zenon DEF OnPacket, Front, Half, Todo, config_active, deliveryVars, linkVars
<1>3. Stream!Join(Packet(packets + 1))
  BY <1>1, <1>2, QueuedJoins DEF OnPacket
<1>4. Stream!Packet(packets + 1) = Packet(packets + 1)
  BY DEF Stream!Packet, Packet
<1> QED BY <1>2, <1>3, <1>4, Zenon DEF Stream!Receive, OnPacket

(* A report is queued. *)
LEMMA StatusStep ==
  ASSUME Inv, Status
  PROVE  Stream!Report
<1>1. Front' = Front /\ Todo' = Todo /\ heard' = heard /\ base' = base /\ packets' = packets
  BY Zenon DEF Status, Front, Half, Todo, config_active, deliveryVars, linkVars, countVars
<1>2. Stream!Join(QueueStatus)
  BY <1>1, FrameFacts, QueuedJoins, Zenon DEF Status
<1>3. Stream!QueueStatus = QueueStatus
  BY DEF Stream!QueueStatus, QueueStatus
<1> QED BY <1>1, <1>2, <1>3, Zenon DEF Stream!Report

(* A read that reaches the end of the frame: the phone hears it. *)
LEMMA ReadStep ==
  ASSUME Inv, Inv', ReadFromRadio \/ ReadRest
  PROVE  UNCHANGED Stream!lineVars \/ Stream!Hear
<1>1. UNCHANGED <<apiVars, staged, base, running, packets>>
  BY ReadCases, Zenon
<1>2. CASE UNCHANGED <<ready, heard>> /\ ~Half /\ (Half' => ready /\ buf' = staged)
  <2>1. Holding' = Holding
    BY <1>1, <1>2, Zenon DEF Holding
  <2> QED BY <1>1, <1>2, <2>1, Stutters, Zenon DEF apiVars
<1>3. CASE /\ Holding /\ staged \in Frame /\ running # "ready" /\ ~Half' /\ ready' = FALSE
           /\ heard' = Hearing(heard, staged)
  <2>1. Line = <<staged>> \o queue /\ queue \in Seq(Frame)
    BY <1>3, LineFacts, Zenon
  <2>2. PICK a \in Seq(Frame) : a = <<staged>>
    <3>1. \A f \in Frame : <<f>> \in Seq(Frame)
      OBVIOUS
    <3> QED BY <1>3, <3>1, Zenon
  <2>3. Tail(a) = <<>> /\ Head(a) = staged /\ a # <<>> /\ Line = a \o queue
    <3>1. \A f \in Frame : Tail(<<f>>) = <<>> /\ Head(<<f>>) = f /\ <<f>> # <<>>
      OBVIOUS
    <3> QED BY <1>3, <2>1, <2>2, <3>1, Zenon
  <2>4. Tail(Line) = <<>> \o queue /\ Head(Line) = staged /\ Line # <<>>
    BY <2>1, <2>2, <2>3, CatTail, Zenon
  <2>5. Line' = <<>> \o queue
    <3>1. ~Holding'
      BY <1>1, <1>3 DEF Holding
    <3>2. Front' = <<>>
      BY <3>1, FrontWillBe, Zenon
    <3> QED BY <1>1, <3>2 DEF Line, apiVars
  <2>6. Todo' = Todo
    BY <1>1 DEF Todo, config_active, apiVars
  <2>7. Stream!Hearing(heard, staged) = Hearing(heard, staged)
    BY DEF Stream!Hearing, Hearing, Stream!IsConfig, IsConfig, Stream!Stage, Stage
  <2> QED BY <1>1, <1>3, <2>4, <2>5, <2>6, <2>7, Zenon DEF Stream!Hear
<1> QED BY <1>2, <1>3, ReadCases, Zenon

(* fromradio_work_handler() stages the first frame of the queue, which stays where it
   is in the line, or has the handshake make one. *)
LEMMA FromRadioWorkStep ==
  ASSUME Inv, Inv', FromRadioWork
  PROVE  UNCHANGED Stream!lineVars \/ \E f \in Todo : Stream!Make(f)
<1>1. heard' = heard /\ base' = base /\ packets' = packets /\ ready' = ready /\ Half' = Half
      /\ running = "fromradio"
  BY StageCases DEF linkVars, countVars
<1>2. CASE running' = "idle" /\ UNCHANGED <<apiVars, current, staged>>
  <2>1. Holding' = Holding
    BY <1>1, <1>2 DEF Holding
  <2> QED BY <1>1, <1>2, <2>1, Stutters, Zenon DEF apiVars
<1>3. CASE running' = "ready" /\ staged' = current' /\ PopFrame(current') /\ ~Holding
  <2>1. PICK f : f = current'
    BY Zenon
  <2>2. PopFrame(f) /\ staged' = f
    BY <1>3, <2>1, Zenon
  <2>3. f \in Frame
    BY <2>2, Popped DEF Inv
  <2>4. Front' = <<f>> /\ Line = queue /\ queue \in Seq(Frame) /\ Line' = <<f>> \o queue'
    <3>1. Holding'
      BY <1>3 DEF Holding
    <3>2. Front' = <<f>>
      BY <2>2, <3>1, FrontWillBe, Zenon
    <3>3. Line = queue /\ queue \in Seq(Frame)
      BY <1>3, LineFacts, Zenon
    <3> QED BY <3>2, <3>3 DEF Line
  <2>5. CASE queue # <<>> /\ f = Head(queue) /\ queue' = Tail(queue) /\ config' = config
    <3>1. queue = <<Head(queue)>> \o Tail(queue)
      <4>1. <<>> \o queue = queue /\ <<>> \in Seq(Frame) /\ <<>> \o <<Head(queue)>> = <<Head(queue)>>
        <5>1. \A g \in Frame : <<>> \o <<g>> = <<g>>
          BY CatSingle, Zenon
        <5> QED BY <2>3, <2>4, <2>5, <5>1, CatEmpty
      <4>2. <<>> \o queue = (<<>> \o <<Head(queue)>>) \o Tail(queue)
        BY <2>4, <2>5, <4>1, CatPop, Zenon
      <4> QED BY <4>1, <4>2, Zenon
    <3>2. Line' = Line
      BY <2>4, <2>5, <3>1, Zenon
    <3>3. Todo' = Todo
      BY <2>5 DEF Todo, config_active
    <3> QED BY <1>1, <3>2, <3>3 DEF Stream!lineVars
  <2>6. CASE queue = <<>> /\ NextConfigFrame(f) /\ queue' = queue
    <3>1. f \in Todo /\ (\A g \in Todo \ {f} : Before(f, g)) /\ Todo' = Todo \ {f}
      <4>1. ConfigType
        BY DEF Inv, ApiInv
      <4> QED BY <2>6, <4>1, MakesNext, Zenon
    <3>2. Line = <<>> /\ Line' = Append(Line, f)
      <4>1. <<f>> \o <<>> = <<f>> /\ Append(<<>>, f) = <<f>>
        BY <2>3, CatSingle, Zenon
      <4> QED BY <2>4, <2>6, <4>1, Zenon
    <3>3. \A g \in Todo \ {f} : Stream!Before(f, g)
      BY <3>1 DEF Stream!Before, Before, Stream!Rank, Rank
    <3>4. Stream!Make(f)
      BY <1>1, <3>1, <3>2, <3>3, Zenon DEF Stream!Make
    <3> QED BY <3>1, <3>4, Zenon
  <2> QED BY <2>2, <2>5, <2>6, Zenon DEF PopFrame
<1> QED BY <1>2, <1>3, StageCases, Zenon

(* want_config: the frame that is staged, and every frame the phone has heard, is
   older. *)
LEMMA WantConfigStep ==
  ASSUME Inv, Inv', ToRadioWork, to_radio.type = "want_config"
  PROVE  \E r \in Request : Stream!Ask(r)
<1>1. PICK r : r = to_radio.request
  BY Zenon
<1>2. /\ UNCHANGED <<staged, ready, buf, heard, base, packets, phone>>
      /\ running = "toradio" /\ running' = "invalidate" /\ WantConfig(r)
  BY <1>1, Zenon DEF ToRadioWork, linkVars, countVars
<1>3. r \in Request /\ Older(r)
  BY <1>1, FramesAssumption DEF Inv, RequestInv, Request
<1>4. Todo' = Handshake(r) /\ queue' = <<>>
  BY <1>2, <1>3, StartsHandshake DEF WantConfig
<1>5. PICK a : a = Front
  BY Zenon
<1>6. a \in Seq(Frame) /\ queue \in Seq(Frame) /\ Line = a \o queue /\ Line' = a \o <<>>
  <2>1. Front' = Front
    BY <1>2 DEF Front, Half
  <2>2. Line' = a \o <<>>
    BY <1>4, <1>5, <2>1 DEF Line
  <2> QED BY <1>5, <2>2, LineFacts, Zenon
<1>7. \E n \in 0 .. Len(Line) : Line' = SubSeq(Line, 1, n)
  <2>1. Len(a) \in 0 .. Len(Line) /\ a = SubSeq(Line, 1, Len(a))
    BY <1>6, CatPrefix
  <2>2. a \o <<>> = a
    BY <1>6, CatEmpty, Zenon
  <2> QED BY <1>6, <2>1, <2>2, Zenon
<1>8. \A i \in 1 .. Len(Line) : IsConfig(Line[i]) => Line[i].request < r
  <2> SUFFICES ASSUME NEW i \in 1 .. Len(Line), IsConfig(Line[i]) PROVE Line[i].request < r
    OBVIOUS
  <2>1. CASE i \in 1 .. Len(a)
    <3>1. Line[i] = a[i] /\ a # <<>>
      BY <1>6, <2>1, CatFacts
    <3>2. Holding /\ a = <<staged>> /\ staged \in Frame
      BY <1>5, <3>1, LineFacts, Zenon
    <3>3. Line[i] = staged
      <4>1. 1 .. Len(<<staged>>) = {1} /\ <<staged>>[1] = staged
        BY <3>2, CatSingle, Zenon
      <4> QED BY <2>1, <3>1, <3>2, <4>1, Zenon
    <3> QED BY <1>3, <3>3, Zenon DEF Older
  <2>2. CASE i - Len(a) \in 1 .. Len(queue)
    <3>1. Len(a) \in Nat /\ i \in Int
      BY <1>6
    <3>2. PICK j \in 1 .. Len(queue) : i = Len(a) + j
      <4>1. PICK j : j = i - Len(a)
        BY Zenon
      <4>2. j \in 1 .. Len(queue) /\ i = Len(a) + j
        BY <2>2, <3>1, <4>1
      <4> QED BY <4>2, Zenon
    <3>3. Line[i] = queue[j]
      BY <1>6, <3>2, CatFacts
    <3> QED BY <3>3 DEF Inv, ApiInv
  <2> QED BY <1>6, <2>1, <2>2, CatFacts, Zenon
<1>9. \A i \in 1 .. Len(heard.config) : heard.config[i].request < r
  BY <1>3, Zenon DEF Older
<1>10. \A i \in 1 .. Len(Line) : Stream!IsConfig(Line[i]) => Line[i].request < r
  BY <1>8 DEF Stream!IsConfig, IsConfig, Stream!Stage, Stage
<1>11. Stream!Handshake(r) = Handshake(r)
  BY Zenon DEF Stream!Handshake, Handshake, Stream!Entries, Entries, Stream!Stage, Stage
<1>12. Stream!Ask(r)
  BY <1>2, <1>4, <1>7, <1>9, <1>10, <1>11, Zenon DEF Stream!Ask
<1> QED BY <1>3, <1>12

(* The frames to be made are of the request that is being answered. *)
LEMMA TodoFacts == \A f \in Todo : config_active /\ f.request = config.request
BY DEF Todo, Handshake

(* ble_invalidate_delivery() may drop the frame that is staged, which is older than
   those of the handshake that begins. *)
LEMMA InvalidateStep ==
  ASSUME Inv, Inv', InvalidateReady \/ InvalidateLen
  PROVE  UNCHANGED Stream!lineVars \/ \E k \in 1 .. Len(Line) : Stream!Lose(k)
<1>1. /\ UNCHANGED <<apiVars, staged, heard, base, packets>> /\ Invalidating
      /\ Holding' => Holding
  <2>1. CASE InvalidateReady
    BY <2>1, Zenon DEF InvalidateReady, Invalidating, Holding, Half, linkVars, countVars
  <2>2. CASE InvalidateLen
    BY <2>2, Zenon DEF InvalidateLen, Invalidating, Holding, Half, linkVars, countVars
  <2> QED BY <2>1, <2>2, Zenon
<1>2. CASE Holding' <=> Holding
  <2>1. Holding' = Holding
    BY <1>2, Zenon DEF Holding
  <2> QED BY <1>1, <2>1, Stutters, Zenon DEF apiVars
<1>3. CASE Holding /\ ~Holding'
  <2>1. PICK a \in Seq(Frame) : a = <<staged>> /\ Len(a) = 1 /\ a[1] = staged
    <3>1. \A f \in Frame : <<f>> \in Seq(Frame) /\ Len(<<f>>) = 1 /\ <<f>>[1] = f
      OBVIOUS
    <3> QED BY <1>3, <3>1, LineFacts, Zenon
  <2>2. Line = a \o queue /\ queue \in Seq(Frame) /\ Line \in Seq(Frame)
    BY <1>3, <2>1, LineFacts, Zenon
  <2>3. Line' = queue
    <3>1. Front' = <<>> /\ <<>> \o queue = queue
      BY <1>3, <2>2, FrontWillBe, CatEmpty, Zenon
    <3> QED BY <1>1, <3>1 DEF Line, apiVars
  <2>4. /\ Len(Line) = Len(queue) + 1 /\ Len(queue) \in Nat /\ 1 \in 1 .. Len(Line)
        /\ Line[1] = staged /\ \A i \in 1 .. Len(queue) : queue[i] = Line[i + 1]
    <3>1. /\ Len(Line) = Len(a) + Len(queue) /\ Len(queue) \in Nat
          /\ \A i \in 1 .. Len(a) : Line[i] = a[i]
          /\ \A i \in 1 .. Len(queue) : Line[Len(a) + i] = queue[i]
      BY <2>2, CatFacts
    <3> QED BY <2>1, <3>1
  <2>5. queue = Out(Line, 1)
    <3>1. \A i \in 1 .. Len(queue) : queue[i] = IF i < 1 THEN Line[i] ELSE Line[i + 1]
      BY <2>4
    <3>2. Len(queue) = Len(Line) - 1
      BY <2>4
    <3> QED BY <2>2, <2>4, <3>1, <3>2, OutEqual, Zenon
  <2>6. ASSUME IsConfig(staged), NEW f \in Todo \cup {Line[j] : j \in 2 .. Len(Line)}, IsConfig(f)
        PROVE  f.request # staged.request
    <3>1. CASE f \in Todo
      <4>1. staged.request < config.request /\ f.request = config.request
        BY <1>1, <2>6, <3>1, TodoFacts, Zenon DEF Inv, RequestInv
      <4>2. config.request \in Nat
        BY ConfigFacts, Zenon DEF Inv, ApiInv
      <4> QED BY <4>1, <4>2
    <3>2. CASE f \in {Line[j] : j \in 2 .. Len(Line)}
      <4>1. PICK j \in 2 .. Len(Line) : f = Line[j]
        BY <3>2, Zenon
      <4>2. j - 1 \in 1 .. Len(queue) /\ (j - 1) + 1 = j
        BY <2>4
      <4>3. f = queue[j - 1]
        BY <2>4, <4>1, <4>2, Zenon
      <4> QED BY <2>6, <4>2, <4>3, Zenon DEF Inv, ApiInv
    <3> QED BY <3>1, <3>2
  <2>7. Stream!Loses(1)
    <3>1. Stream!Behind(1) = Todo \cup {Line[j] : j \in 2 .. Len(Line)}
      BY DEF Stream!Behind
    <3>2. \A f : Stream!IsConfig(f) = IsConfig(f)
      BY DEF Stream!IsConfig, IsConfig, Stream!Stage, Stage
    <3> QED BY <1>1, <2>4, <2>6, <3>1, <3>2, Zenon DEF Stream!Loses
  <2>8. Out(Line, 1) = Stream!Without(1)
    BY Zenon DEF Out, Stream!Without
  <2>9. Todo' = Todo
    BY <1>1 DEF Todo, config_active, apiVars
  <2>10. Stream!Lose(1)
    BY <1>1, <2>3, <2>5, <2>7, <2>8, <2>9, Zenon DEF Stream!Lose
  <2> QED BY <2>4, <2>10
<1> QED BY <1>1, <1>2, <1>3, Zenon

(* disconnected(): another phone will read, and of the line at most the frame is left
   that fromradio_work_handler() is about to let it read. *)
LEMMA DisconnectedStep ==
  ASSUME Inv, Inv', Disconnected
  PROVE  Stream!Reset
<1>1. /\ UNCHANGED <<staged, running>> /\ packets' = packets /\ requests' = requests
      /\ heard' = Nothing /\ base' = [packets |-> packets, requests |-> requests]
      /\ queue' = <<>> /\ config' = [at |-> At("IDLE", 0), request |-> 0]
      /\ ready' = FALSE /\ phone' = "asleep"
  BY Zenon DEF Disconnected, countVars
<1>2. Todo' = {}
  BY <1>1, Zenon DEF Todo, config_active, At
<1>3. Holding' = (running = "ready") /\ (Holding' => Holding)
  BY <1>1, Zenon DEF Holding, Half
<1>4. Front' \in Seq(Frame) /\ Line' = Front'
  <2>1. Front' \in Seq(Frame)
    <3>1. CASE Holding'
      <4>1. Front' = Front
        BY <1>1, <1>3, <3>1, LineFacts, FrontWillBe, Zenon
      <4> QED BY <4>1, LineFacts, Zenon
    <3>2. CASE ~Holding'
      <4>1. Front' = <<>> /\ <<>> \in Seq(Frame)
        BY <3>2, FrontWillBe
      <4> QED BY <4>1, Zenon
    <3> QED BY <3>1, <3>2
  <2>2. Front' \o <<>> = Front'
    BY <2>1, CatEmpty, Zenon
  <2> QED BY <1>1, <2>1, <2>2 DEF Line
<1>5. requests \in Nat /\ base.requests \in 0 .. requests /\ base'.requests = requests
  BY <1>1, FramesAssumption DEF Inv, RequestInv, Request
<1>6. CASE Holding'
  <2>1. PICK a : a = Front
    BY Zenon
  <2>2. Line' = a /\ a = <<staged>> /\ staged \in Frame
    BY <1>1, <1>3, <1>4, <1>6, <2>1, LineFacts, FrontWillBe, Zenon
  <2>3. Len(a) \in 0 .. Len(Line) /\ a = SubSeq(Line, 1, Len(a))
    BY <2>1, LineFacts, CatPrefix
  <2>4. \A i \in 1 .. Len(Line') : Line'[i] = staged
    <3>1. 1 .. Len(<<staged>>) = {1} /\ <<staged>>[1] = staged
      BY <2>2, CatSingle, Zenon
    <3> QED BY <2>2, <3>1, Zenon
  <2>5. IsConfig(staged) => staged.request \in 1 .. requests
    <3>1. staged.request \in Nat
      BY <2>2, FrameFields, Zenon
    <3>2. IsConfig(staged) => staged.request # 0 /\ staged.request < requests + 1
      BY Zenon DEF Inv, RequestInv, Older
    <3> QED BY <1>5, <3>1, <3>2
  <2>6. \A i \in 1 .. Len(Line') : Stream!IsConfig(Line'[i]) => Line'[i].request \in 1 .. base'.requests
    BY <1>5, <2>4, <2>5, Zenon DEF Stream!IsConfig, IsConfig, Stream!Stage, Stage
  <2>7. 1 .. base.requests \subseteq 1 .. base'.requests
    BY <1>5
  <2> QED BY <1>1, <1>2, <2>2, <2>3, <2>6, <2>7, Zenon DEF Stream!Reset, Stream!Nothing, Nothing
<1>7. CASE ~Holding'
  <2>1. Line' = <<>>
    BY <1>4, <1>7, FrontWillBe, Zenon
  <2>2. Len(Line) \in Nat /\ SubSeq(Line, 1, 0) = <<>> /\ Len(Line') = 0
    BY <2>1, LineFacts
  <2>3. 0 \in 0 .. Len(Line) /\ 1 .. base.requests \subseteq 1 .. base'.requests
    BY <1>5, <2>2
  <2> QED BY <1>1, <1>2, <2>1, <2>2, <2>3 DEF Stream!Reset, Stream!Nothing, Nothing
<1> QED BY <1>6, <1>7, Zenon

(* Every step is a step of the stream or none. *)
LEMMA StreamStep == Inv /\ [Next]_vars => [Stream!LineNext]_(Stream!lineVars)
<1> SUFFICES ASSUME Inv, [Next]_vars PROVE Stream!LineNext \/ UNCHANGED Stream!lineVars
  OBVIOUS
<1> USE DEF linkVars, countVars, workVars
<1>1. Inv'
  BY NextInv
<1>2. ASSUME NEW t \in Producer, OnPacket(t) PROVE Stream!LineNext
  BY <1>2, OnPacketStep, Zenon DEF Stream!LineNext
<1>3. ASSUME UNCHANGED <<apiVars, deliveryVars, heard, base, packets>>, Half' = Half,
             (running' = "ready") <=> (running = "ready")
      PROVE  UNCHANGED Stream!lineVars
  <2>1. Holding' = Holding
    BY <1>3 DEF Holding, deliveryVars
  <2> QED BY <1>1, <1>3, <2>1, Stutters, Zenon DEF apiVars, deliveryVars
<1>4. ASSUME NEW t \in Producer, DataReady(t) PROVE UNCHANGED Stream!lineVars
  BY <1>3, <1>4, Zenon DEF DataReady, Half, deliveryVars
<1>5. CASE Connected
  BY <1>3, <1>5, Zenon DEF Connected, Half, deliveryVars
<1>6. CASE Subscribe
  <2>1. phone = "asleep" /\ phone' = "awake"
    BY <1>6, Zenon DEF Subscribe, Inv, LinkInv
  <2> QED BY <1>3, <1>6, <2>1, Zenon DEF Subscribe, Half, deliveryVars
<1>7. CASE PhoneAsks \/ \E c \in Command : PhoneWrites(c)
  BY <1>3, <1>7 DEF PhoneAsks, PhoneWrites, Half, deliveryVars
<1>8. CASE Disconnected
  BY <1>1, <1>8, DisconnectedStep DEF Stream!LineNext
<1>9. CASE ReadFromRadio \/ ReadRest
  BY <1>1, <1>9, ReadStep, Zenon DEF Stream!LineNext
<1>10. CASE WorkNext
  <2>1. Head(work) \in Item
    BY <1>10 DEF WorkNext, Inv, LinkInv
  <2>2. running # "ready" /\ running' # "ready"
    BY <1>10, <2>1 DEF WorkNext, Item
  <2> QED BY <1>3, <1>10, <2>2, Zenon DEF WorkNext, Half, deliveryVars
<1>11. CASE FromRadioWork
  BY <1>1, <1>11, FromRadioWorkStep, Zenon DEF Stream!LineNext
<1>12. CASE FrameReady
  <2>1. Holding /\ Holding'
    BY <1>12 DEF FrameReady, Holding
  <2>2. Holding' = Holding
    BY <2>1 DEF Holding
  <2> QED BY <1>1, <1>12, <2>2, Stutters, Zenon DEF FrameReady, apiVars
<1>13. CASE NotifyFromNum
  BY <1>3, <1>13 DEF NotifyFromNum, Half, deliveryVars
<1>14. CASE ToRadioWork
  <2>1. CASE to_radio.type = "want_config"
    <3>1. Stream!Request = Request
      BY Zenon DEF Stream!Request, Request
    <3> QED BY <1>1, <1>14, <2>1, <3>1, WantConfigStep, Zenon DEF Stream!LineNext
  <2>2. CASE to_radio.type # "want_config"
    BY <1>3, <1>14, <2>2, Zenon DEF ToRadioWork, Half, deliveryVars
  <2> QED BY <2>1, <2>2
<1>15. CASE InvalidateReady \/ InvalidateLen
  BY <1>1, <1>15, InvalidateStep, Zenon DEF Stream!LineNext
<1>16. CASE Sent \/ ToRadioReady
  BY <1>3, <1>16 DEF Sent, ToRadioReady, Half, deliveryVars
<1>17. CASE Status
  BY <1>17, StatusStep, Zenon DEF Stream!LineNext
<1>18. CASE UNCHANGED vars
  BY <1>3, <1>18, Zenon DEF vars, apiVars, Half, deliveryVars
<1> QED BY <1>2, <1>4, <1>5, <1>6, <1>7, <1>8, <1>9, <1>10, <1>11, <1>12, <1>13, <1>14, <1>15,
           <1>16, <1>17, <1>18, Zenon DEF Next, PhoneReads, Thread

(* The transport starts as an empty stream. *)
LEMMA StreamInit == Init => Stream!LineInit
<1> SUFFICES ASSUME Init PROVE Stream!LineInit
  OBVIOUS
<1>1. Front = <<>> /\ queue = <<>>
  BY DEF Init, ApiInit, Front, Half
<1>2. Line \in Seq({Stream!QueueStatus, Stream!Rebooted})
  <2>1. <<>> \o <<>> \in Seq({Stream!QueueStatus, Stream!Rebooted})
    OBVIOUS
  <2> QED BY <1>1, <2>1 DEF Line
<1>3. Todo = {}
  BY IdleHandshake DEF Init, ApiInit
<1>4. 1 .. base.requests = {}
  BY DEF Init
<1> QED BY <1>2, <1>3, <1>4, Zenon DEF Init, Stream!LineInit, Stream!Nothing, Nothing

(* The Bluetooth transport is a FromRadio stream: the frame that is staged, that the
   phone reads in pieces while handlers run and connections end, and the queue behind
   it are one line. *)
THEOREM BleIsStream == Spec => StreamSpec
BY SpecInv, StreamInit, StreamStep, PTL DEF Spec, StreamSpec, Stream!LineSpec

(* What the phone has heard changes only by a frame that was staged, or is forgotten
   when the connection ends. *)
LEMMA HeardCases ==
  ASSUME Inv, [Next]_vars
  PROVE  \/ heard' = heard \/ heard' = Nothing
         \/ Holding /\ staged \in Frame /\ heard' = Hearing(heard, staged)
<1> USE DEF linkVars, countVars, workVars
<1>1. CASE ReadFromRadio \/ ReadRest
  BY <1>1, ReadCases, Zenon
<1>2. CASE Disconnected
  BY <1>2, Zenon DEF Disconnected
<1>3. CASE \/ \E t \in Producer : OnPacket(t) \/ DataReady(t)
           \/ Connected \/ Subscribe \/ PhoneAsks \/ (\E c \in Command : PhoneWrites(c))
  BY <1>3, Zenon DEF OnPacket, DataReady, Connected, Subscribe, PhoneAsks, PhoneWrites
<1>4. CASE WorkNext \/ FromRadioWork \/ FrameReady \/ NotifyFromNum \/ ToRadioWork
  BY <1>4, Zenon DEF WorkNext, FromRadioWork, FrameReady, NotifyFromNum, ToRadioWork
<1>5. CASE InvalidateReady \/ InvalidateLen \/ Sent \/ Status \/ ToRadioReady
  BY <1>5, Zenon DEF InvalidateReady, InvalidateLen, Sent, Status, ToRadioReady
<1>6. CASE UNCHANGED vars
  BY <1>6, Zenon DEF vars
<1> QED BY <1>1, <1>2, <1>3, <1>4, <1>5, <1>6, Zenon DEF Next, PhoneReads, Thread

-----------------------------------------------------------------------------
(* FromRadio's theorems, for this transport's line *)

P == INSTANCE FromRadioProofs
     WITH line <- Line, todo <- Todo, told <- heard, broken <- 1 .. base.requests, count <- packets

(* The two copies of the stream's specification are the same. *)
LEMMA SameStream == Stream!LineSpec => P!LineSpec
<1>1. Stream!LineInit => P!LineInit
  BY Zenon
  DEF Stream!LineInit, P!LineInit, Stream!QueueStatus, P!QueueStatus, Stream!Rebooted, P!Rebooted,
         Stream!Nothing, P!Nothing
<1>2. Stream!LineNext => P!LineNext
  BY Zenon
     DEF Stream!LineNext, P!LineNext, Stream!Receive, P!Receive, Stream!Report, P!Report,
         Stream!Hear, P!Hear, Stream!Reset, P!Reset, Stream!Make, P!Make, Stream!Lose, P!Lose,
         Stream!Ask, P!Ask, Stream!Join, P!Join, Stream!Loses, P!Loses, Stream!Behind, P!Behind,
         Stream!Without, P!Without, Stream!Packet, P!Packet, Stream!QueueStatus,
         P!QueueStatus, Stream!Nothing, P!Nothing, Stream!Hearing, P!Hearing, Stream!IsConfig,
         P!IsConfig, Stream!Stage, P!Stage, Stream!Handshake, P!Handshake, Stream!Entries,
         P!Entries, Stream!Before, P!Before, Stream!Rank, P!Rank, Stream!Request, P!Request
<1>3. [Stream!LineNext]_(Stream!lineVars) => [P!LineNext]_(P!lineVars)
  BY <1>2, Zenon DEF Stream!lineVars, P!lineVars
<1> QED BY <1>1, <1>2, <1>3, PTL DEF Stream!LineSpec, P!LineSpec

(* Within a connection the packets are read in the order they were received in, none
   of them twice, and the answer to each of the phone's own requests from its first
   frame on, in order and without a gap. *)
THEOREM BleReadInOrder == Spec => []ReadInOrder
<1>1. P!LineSpec => []P!PacketsHeardInOrder
  BY FramesAssumption, PhoneApiAssumption, P!StreamPacketsInOrder, Zenon
<1>2. P!LineSpec => []P!HandshakeHeardInOrder
  BY FramesAssumption, PhoneApiAssumption, P!StreamHandshakeInOrder, Zenon
<1>3. Inv /\ P!PacketsHeardInOrder /\ P!HandshakeHeardInOrder => ReadInOrder
  <2> SUFFICES ASSUME Inv, P!PacketsHeardInOrder, P!HandshakeHeardInOrder PROVE ReadInOrder
    BY Zenon
  <2>1. \A i, j \in 1 .. Len(heard.packets) : i < j => heard.packets[i] < heard.packets[j]
    BY Zenon DEF P!PacketsHeardInOrder
  <2>2. PICK c, r : c = heard.config /\ r = c[1].request
    BY Zenon
  <2>3. heard.config # <<>> /\ heard.config[1].request \notin 1 .. base.requests =>
          Begins(heard.config, heard.config[1].request)
    BY Zenon
       DEF P!HandshakeHeardInOrder, P!Begins, Begins, P!Handshake, Handshake,
           P!Entries, Entries, P!Stage, Stage, P!Before, Before, P!Rank, Rank
  <2>4. base.requests \in Nat
    <3>1. requests \in Request /\ base.requests \in 0 .. requests
      BY Zenon DEF Inv, RequestInv
    <3> QED BY <3>1, RequestCounts, Zenon
  <2>5. r > base.requests => r \notin 1 .. base.requests
    BY <2>4, Counts, Zenon
  <2>6. c # <<>> /\ r > base.requests => Begins(c, r)
    BY <2>2, <2>3, <2>5, Zenon
  <2> QED BY <2>1, <2>2, <2>6, Zenon DEF ReadInOrder
<1> QED BY <1>1, <1>2, <1>3, SpecInv, BleIsStream, SameStream, PTL DEF StreamSpec

(* A frame that the next phone finds staged is the first thing it reads, and nothing
   of an older answer is read after a newer one. *)
THEOREM BleConnectionsApart == Spec => ConnectionsApart
<1>1. P!LineSpec => P!NewerFollows
  BY FramesAssumption, PhoneApiAssumption, P!StreamNewerFollows, Zenon
<1>2. Inv /\ [Next]_vars
      /\ [heard'.config # <<>> /\ heard.config # <<>> =>
            heard'.config[1].request >= heard.config[1].request]_(P!lineVars)
      => [Apart]_vars
  <2> SUFFICES ASSUME Inv, [Next]_vars,
                      [heard'.config # <<>> /\ heard.config # <<>> =>
                         heard'.config[1].request >= heard.config[1].request]_(P!lineVars)
               PROVE  Apart
    BY Zenon
  <2>1. CASE heard' = heard \/ heard' = Nothing
    BY <2>1, Zenon DEF Apart, NewPacket, NewConfig
  <2>2. CASE heard' # heard /\ Holding /\ staged \in Frame /\ heard' = Hearing(heard, staged)
    <3>1. /\ heard.config # <<>> => heard'.config # <<>>
          /\ heard'.packets # heard.packets =>
               staged.type = "packet" /\ heard'.packets[Len(heard'.packets)] = staged.at
      BY <2>2, HeardFacts, Zenon DEF Inv
    <3>2. heard'.config # <<>> /\ heard.config # <<>> =>
            heard'.config[1].request >= heard.config[1].request
      BY <2>2, Zenon DEF P!lineVars
    <3>3. NewPacket /\ heard'.packets[Len(heard'.packets)] <= base.packets => heard = Nothing
      BY <2>2, <3>1, Zenon DEF NewPacket, Inv, AgeInv
    <3> QED BY <3>1, <3>2, <3>3, Zenon DEF Apart
  <2> QED BY <2>1, <2>2, HeardCases, Zenon
<1> QED BY <1>1, <1>2, SpecInv, BleIsStream, SameStream, PTL
        DEF Spec, StreamSpec, ConnectionsApart, P!NewerFollows
=============================================================================
