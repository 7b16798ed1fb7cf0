------------------------------ MODULE Gateway ------------------------------
(***************************************************************************)
(* A node that bridges its LoRa mesh and an MQTT broker: the LoRa thread   *)
(* (meshtastic_router_process_lora_rx), the MQTT thread, which injects     *)
(* what the broker sends (meshtastic_inject_downlink_mesh_packet), and the *)
(* state they share: the duplicate cache, the publish queue and the node   *)
(* database.                                                               *)
(*                                                                         *)
(* The LoRa thread has the higher priority, so its handling of a packet is *)
(* one action, which may come between any two steps of the MQTT thread.    *)
(* The packets are broadcasts with hops left that the node can decrypt and *)
(* that ask for no acknowledgement; Mesh is about the others.              *)
(***************************************************************************)
EXTENDS Mqtt, NodeDb

CONSTANTS
  Near,             \* packets whose senders are in the mesh, as keys [src, id]
  Far,              \* packets whose senders only reach the broker
  Own,              \* packets of the local node
  CacheSize,        \* CONFIG_MESHTASTIC_DUP_CACHE_SIZE
  MaxPackets        \* bound: packets sent, and received by LoRa or from the broker

Key == Near \cup Far \cup Own

ASSUME GatewayAssumption ==
  /\ CacheSize \in Nat \ {0} /\ MaxPackets \in Nat
  /\ Key \subseteq [src : Node, id : Nat] /\ \A k \in Key : k.src = Local <=> k \in Own
  /\ Near \cap Far = {} /\ Own \cap Far = {} /\ MapReport \notin Far

VARIABLES
  dup_cache, dup_head,
  inject,           \* the packet being injected, the values of dup_head its dup_add()
                    \* may have loaded, and whether another dup_add() interrupted it
  air,              \* frames neighbours may send on: [key, via_mqtt]
  recent,           \* history: the last packets added to the cache, the newest first
  clean,            \* history: additions since one was interrupted, up to CacheSize
  packets, sent     \* counters

cacheVars == <<dup_cache, dup_head, recent, clean>>
countVars == <<packets, sent>>
vars == <<mqttVars, nodeDbVars, cacheVars, inject, air, countVars>>

Index == 0 .. CacheSize - 1

\* what a slot of the cache holds before it is used
NoKey == [src |-> 0, id |-> 0]

NoInject == [key |-> NoKey, heads |-> {}, interrupted |-> FALSE]

Init ==
  /\ MqttInit /\ NodeDbInit
  /\ dup_cache = [i \in Index |-> NoKey] /\ dup_head = 0
  /\ inject = NoInject
  /\ air = {} /\ recent = <<>> /\ clean = CacheSize
  /\ packets = 0 /\ sent = {}

-----------------------------------------------------------------------------
(* The duplicate cache *)

\* dup_check()
DupCheck(k) == \E i \in Index : dup_cache[i] = k

Next1(h) == (h + 1) % CacheSize

Least(a, b) == IF a < b THEN a ELSE b

\* Bookkeeping: k has been added.
Added(k, interrupted) ==
  /\ recent' = SubSeq(<<k>> \o recent, 1, Least(CacheSize, Len(recent) + 1))
  /\ clean' = IF interrupted THEN 0 ELSE Least(CacheSize, clean + 1)

Adding == at \in {"dup_src", "dup_id", "dup_head"}

\* Mutant: dup_head is not advanced.
DupAddMutant(k) ==
  /\ dup_cache' = [dup_cache EXCEPT ![dup_head] = k]
  /\ Added(k, Adding)
  /\ UNCHANGED dup_head

\* dup_add(), undisturbed
DupAdd(k) ==
  /\ dup_cache' = [dup_cache EXCEPT ![dup_head] = k]
  /\ dup_head' = Next1(dup_head)
  /\ Added(k, Adding)

-----------------------------------------------------------------------------
(* The LoRa thread *)

\* mqtt_queue_uplink(), on a channel with uplink: what came from the broker does
\* not go back.  Room is made before the envelope is encoded, which may fail.
QueueUplink(k, via) ==
  IF via THEN UNCHANGED pubq ELSE Put(k) \/ pubq' = MakeRoom

\* meshtastic_mqtt_on_rx(): our own packets were uplinked when they were sent.
Uplink(k, via) == IF k \in Own THEN UNCHANGED pubq ELSE QueueUplink(k, via)

\* meshtastic_routing_sniff_rebroadcast(): not our own packets.  The flags other
\* than the hop limit are kept.
Rebroadcast(k, via) ==
  air' = IF k \in Own THEN air ELSE air \cup {[key |-> k, via_mqtt |-> via]}

\* Bookkeeping: the injection, when another packet has been added meanwhile
Interrupted ==
  [key |-> inject.key, heads |-> inject.heads \cup {dup_head'}, interrupted |-> TRUE]

\* meshtastic_router_process_lora_rx() and meshtastic_handle_inbound_packet()
LoRaRx(k, via) ==
  /\ packets < MaxPackets
  /\ packets' = packets + 1
  /\ \/ /\ DupCheck(k)
        /\ UNCHANGED <<pubq, nodeDbVars, cacheVars, inject, air>>
     \/ /\ ~DupCheck(k)
        /\ DupAdd(k)
        /\ inject' = IF Adding THEN Interrupted ELSE inject
        /\ Uplink(k, via)
        /\ NodeDbOnPacket(k.src)
        /\ Rebroadcast(k, via)
  /\ UNCHANGED <<sessionVars, threadVars, sent>>

\* A frame arrives from its sender, or from a neighbour that sends it on.
Receive ==
  \/ \E k \in Near : LoRaRx(k, FALSE)
  \/ \E f \in air : LoRaRx(f.key, f.via_mqtt)

\* send_packet_complete() of a packet of our own: only a sender that waits for
\* the transmission has it uplinked, by meshtastic_mqtt_on_tx().
SendOwn(k) ==
  /\ k \notin sent /\ packets < MaxPackets
  /\ sent' = sent \cup {k} /\ packets' = packets + 1
  /\ air' = air \cup {[key |-> k, via_mqtt |-> FALSE]}
  /\ \/ QueueUplink(k, FALSE)
     \/ UNCHANGED pubq
  /\ UNCHANGED <<sessionVars, threadVars, nodeDbVars, cacheVars, inject>>

-----------------------------------------------------------------------------
(* The MQTT thread: meshtastic_inject_downlink_mesh_packet() *)

restVars == <<sessionVars, entry, pubq, sent>>

\* mqtt_process_once() returns.
InjectDone == DrainThen("map", BudgetPerLoop) /\ inject' = NoInject

Goto(step) == at' = step /\ UNCHANGED <<ret, budget>>

\* mqtt_handle_publish(): a message of another gateway about a packet of another
\* node (our own are ignored), and dup_check().
Downlink(k) ==
  /\ at = "process" /\ connected
  /\ packets < MaxPackets
  /\ packets' = packets + 1
  /\ \/ DupCheck(k) /\ InjectDone
     \/ /\ ~DupCheck(k)
        /\ inject' = [key |-> k, heads |-> {dup_head}, interrupted |-> FALSE]
        /\ Goto("dup_src")
  /\ UNCHANGED <<restVars, nodeDbVars, cacheVars, air>>

\* dup_add() in the MQTT thread: three writes, with no lock.  dup_head may be
\* loaded once, at any time since dup_check(), or again for each of them.
Torn(slot, k, part) ==
  [src |-> IF part = "src" THEN k.src ELSE slot.src, id |-> IF part = "id" THEN k.id ELSE slot.id]

DupWrite(part, next) ==
  /\ \E h \in inject.heads :
       dup_cache' = [dup_cache EXCEPT ![h] = Torn(@, inject.key, part)]
  /\ Goto(next)
  /\ UNCHANGED <<dup_head, recent, clean, inject, restVars, packets, nodeDbVars, air>>

DupSrc == at = "dup_src" /\ DupWrite("src", "dup_id")

DupId == at = "dup_id" /\ DupWrite("id", "dup_head")

DupHead ==
  /\ at = "dup_head"
  /\ \E h \in inject.heads : dup_head' = Next1(h)
  /\ Added(inject.key, inject.interrupted)
  /\ Goto("relay")
  /\ UNCHANGED <<dup_cache, inject, restVars, packets, nodeDbVars, air>>

\* Mutant: the packet is relayed as if it had been heard.
RelayMutant ==
  /\ at = "relay"
  /\ air' = air \cup {[key |-> inject.key, via_mqtt |-> FALSE]} /\ Goto("clock")
  /\ UNCHANGED <<cacheVars, inject, restVars, packets, nodeDbVars>>

\* meshtastic_send_mesh_pb(): when it fails the packet is not delivered locally
\* either.
Relay ==
  /\ at = "relay"
  /\ \/ /\ air' = air \cup {[key |-> inject.key, via_mqtt |-> TRUE]}
        /\ Goto("clock") /\ UNCHANGED inject
     \/ /\ InjectDone
        /\ UNCHANGED air
  /\ UNCHANGED <<cacheVars, restVars, packets, nodeDbVars>>

\* meshtastic_handle_inbound_packet() without a frame: no uplink, no rebroadcast,
\* and the node database's handler
DeliverClock ==
  /\ at = "clock"
  /\ NodeDbReadsClock
  /\ Goto("record")
  /\ UNCHANGED <<cacheVars, inject, air, restVars, packets>>

DeliverRecord ==
  /\ at = "record"
  /\ NodeDbRecords(inject.key.src)
  /\ InjectDone
  /\ UNCHANGED <<cacheVars, air, restVars, packets>>

Inject ==
  \/ \E k \in Near \cup Far : Downlink(k)
  \/ DupSrc \/ DupId \/ DupHead \/ Relay \/ DeliverClock \/ DeliverRecord

-----------------------------------------------------------------------------
gatewayVars == <<nodeDbVars, cacheVars, inject, air, countVars>>

Session == MqttThread /\ UNCHANGED gatewayVars

Network == (NetAdd \/ NetDel) /\ UNCHANGED gatewayVars

Next == Session \/ Network \/ Inject \/ Receive \/ \E k \in Own : SendOwn(k)

Spec == Init /\ [][Next]_vars

\* The MQTT thread runs when nothing of a higher priority does, and a broker that
\* is asked again and again answers in time in the end.
FairSpec ==
  /\ Spec
  /\ WF_vars(Session \/ Inject)
  /\ SF_vars(ConnAck /\ UNCHANGED gatewayVars)

-----------------------------------------------------------------------------
(* Properties *)

(* The type invariant, with the bound of the publish queue that
   mqtt_queue_publish() keeps, and what the MQTT thread holds where: an entry
   while it publishes, in a session; the clock between its reading and the
   lock. *)
TypeOK ==
  /\ NodeDbTypeOK
  /\ at \in At \cup {"dup_src", "dup_id", "dup_head", "relay", "clock", "record"}
  /\ ret \in Ret /\ budget \in 0 .. BudgetOnConnect + BudgetPerLoop
  /\ Len(pubq) <= PublishQueueSize
  /\ entry # <<>> <=> at = "publish"
  /\ at = "publish" => connected
  /\ dup_head \in Index /\ dup_cache \in [Index -> [src : Node \cup {0}, id : Nat]]
  /\ now_sec # -1 <=> at = "record"

(* A packet whose sender only reaches the broker is never published again by
   this gateway, however often the mesh sends it on and however much the
   duplicate cache has forgotten: the via_mqtt flag stays with the packet. *)
NoEcho == \A i \in 1 .. Len(pubq \o entry) : (pubq \o entry)[i] \notin Far

(* Two threads add to the duplicate cache without a lock.  A dup_add() that the
   other thread interrupts may lose packets and leave an entry of no packet,
   but every packet added since is in the cache, and after CacheSize more the
   cache is again exactly the packets added last. *)
CacheHeals ==
  ~Adding =>
    /\ \A j \in 1 .. Least(clean, Len(recent)) : DupCheck(recent[j])
    /\ clean = CacheSize =>
         \A i \in Index : dup_cache[i] = NoKey \/ \E j \in 1 .. Len(recent) : recent[j] = dup_cache[i]

(* Once the network stays up, what is queued is published or dropped for newer
   packets: the queue becomes empty again and again. *)
QueueDrains == <>[]net => []<>(pubq = <<>>)
-----------------------------------------------------------------------------
(* What makes CacheHeals inductive *)

\* The slot that was written j additions ago
Back(j) == IF j <= dup_head THEN dup_head - j ELSE dup_head - j + CacheSize

(* A dup_add() that was not interrupted is about to complete the slot at
   dup_head. *)
Writing ==
  Adding =>
    IF inject.interrupted THEN clean = 0
    ELSE /\ inject.heads = {dup_head}
         /\ at # "dup_src" => dup_cache[dup_head].src = inject.key.src
         /\ at = "dup_head" => dup_cache[dup_head].id = inject.key.id

(* The packets added since the last interruption lie behind dup_head in the
   order they were added in, except that the slot being written is in no order;
   and if there was no interruption yet, the slots behind them are unused. *)
InRing ==
  \A j \in 1 .. CacheSize : j < CacheSize \/ ~Adding =>
    /\ j <= clean /\ j <= Len(recent) => dup_cache[Back(j)] = recent[j]
    /\ clean = CacheSize /\ j > Len(recent) => dup_cache[Back(j)] = NoKey

CacheState ==
  /\ recent \in Seq(Key) /\ Len(recent) <= CacheSize
  /\ clean \in 0 .. CacheSize /\ (clean < CacheSize => clean <= Len(recent))
  /\ Writing /\ InRing
=============================================================================
