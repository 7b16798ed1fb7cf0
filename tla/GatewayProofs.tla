--------------------------- MODULE GatewayProofs ---------------------------
(***************************************************************************)
(* Proofs about NodeDb and Gateway, for every set of nodes and packets and *)
(* all sizes of the node table, the publish queue and the duplicate cache. *)
(***************************************************************************)
EXTENDS Gateway, TLAPS

(* The inductive invariant: NodeDbKeepsRecent, and the types, which say that the
   times that were recorded lie in the past. *)
IInv ==
  /\ NodeDbTypeOK
  /\ NodeDbKeepsRecent

(* The first entries are the local node's, and there are no others. *)
LEMMA InitIInv == NodeDbInit => IInv
  BY NodeDbAssumption DEF NodeDbInit, IInv, NodeDbTypeOK, NodeDbKeepsRecent, Slot, Entry, Used,
     Find

(* get_or_create_entry_locked() touches one entry that is not the local node's,
   which it gives to the node: its own, the first unused one, or the oldest. *)
LEMMA PutEntryEffect ==
  ASSUME IInv, NEW n \in Node \ {Local}, NEW t \in 0 .. MaxUptime, PutEntry(n, t)
  PROVE  \/ \E i \in Slot \ {0} :
              /\ entries' = [entries EXCEPT ![i] = [num |-> n, last_heard |-> t]]
              /\ i \in 0 .. entry_count' - 1
              /\ \/ i \in Used /\ entries[i].num = n /\ entry_count' = entry_count
                 \/ Find(n) = {} /\ i = entry_count /\ entry_count' = entry_count + 1
                 \/ Find(n) = {} /\ Oldest(i) /\ entry_count' = entry_count
         \/ entries' = entries /\ entry_count' = entry_count /\ entry_count = 1 /\ Find(n) = {}
<1> DEFINE e == [num |-> n, last_heard |-> t]
<1>0. /\ entries \in [Slot -> Entry] /\ entry_count \in 1 .. MaxNodes /\ MaxNodes \in Nat
      /\ entries[0].num = Local
      /\ \A i, j \in Used : entries[i].num = entries[j].num => i = j
  BY NodeDbAssumption DEF IInv, NodeDbTypeOK, NodeDbKeepsRecent
<1>1. ASSUME NEW i \in Find(n), entries' = [entries EXCEPT ![i] = e], entry_count' = entry_count
      PROVE  \E k \in Slot \ {0} :
               /\ entries' = [entries EXCEPT ![k] = e]
               /\ k \in 0 .. entry_count' - 1
               /\ k \in Used /\ entries[k].num = n /\ entry_count' = entry_count
  <2>1. i \in Used /\ entries[i].num = n
    BY DEF Find
  <2>2. i \in Slot \ {0} /\ i \in 0 .. entry_count' - 1
    BY <1>0, <1>1, <2>1 DEF Used, Slot
  <2> QED BY <1>1, <2>1, <2>2, Zenon
<1>2. ASSUME Find(n) = {}, entry_count < MaxNodes,
             entries' = [entries EXCEPT ![entry_count] = e], entry_count' = entry_count + 1
      PROVE  \E k \in Slot \ {0} :
               /\ entries' = [entries EXCEPT ![k] = e]
               /\ k \in 0 .. entry_count' - 1
               /\ Find(n) = {} /\ k = entry_count /\ entry_count' = entry_count + 1
  <2>1. entry_count \in Slot \ {0} /\ entry_count \in 0 .. entry_count' - 1
    BY <1>0, <1>2 DEF Slot
  <2> QED BY <2>1, <1>2, Zenon
<1>3. ASSUME NEW i \in Evictable, Find(n) = {}, Oldest(i),
             entries' = [entries EXCEPT ![i] = e], entry_count' = entry_count
      PROVE  \E k \in Slot \ {0} :
               /\ entries' = [entries EXCEPT ![k] = e]
               /\ k \in 0 .. entry_count' - 1
               /\ Find(n) = {} /\ Oldest(k) /\ entry_count' = entry_count
  <2>1. i \in Slot \ {0} /\ i \in 0 .. entry_count' - 1
    BY <1>0, <1>3 DEF Slot, Evictable, Used
  <2> QED BY <2>1, <1>3, Zenon
<1>4. ASSUME Evictable = {}
      PROVE  entry_count = 1
  <2>1. SUFFICES ASSUME entry_count # 1 PROVE FALSE
    OBVIOUS
  <2>2. 1 \in Used /\ 0 \in Used /\ 1 \in Slot
    BY <1>0, <2>1 DEF Used, Slot
  <2>3. entries[1].num # Local
    BY <1>0, <2>2
  <2> QED BY <1>4, <2>2, <2>3 DEF Evictable
<1> QED BY <1>1, <1>2, <1>3, <1>4 DEF PutEntry

\* A packet of n is recorded with the time t, which lies no further back than lag.
Recorded(n, t) ==
  /\ PutEntry(n, t)
  /\ last' = [last EXCEPT ![n] = t]
  /\ uptime' \in uptime .. MaxUptime /\ t <= uptime' /\ now_sec' \in -1 .. uptime'
  /\ lag' \in lag .. MaxUptime /\ uptime' - t <= lag'

(* Whichever entry the node gets, the table stays consistent. *)
LEMMA PutEntryKeeps ==
  ASSUME IInv, NEW n \in Node \ {Local}, NEW t \in 0 .. MaxUptime, Recorded(n, t)
  PROVE  IInv'
<1> DEFINE e == [num |-> n, last_heard |-> t]
<1>0. /\ entries \in [Slot -> Entry] /\ entry_count \in 1 .. MaxNodes /\ MaxNodes \in Nat
      /\ uptime \in 0 .. MaxUptime /\ MaxUptime \in Nat /\ lag \in 0 .. MaxUptime
      /\ last \in [Node -> -1 .. uptime]
  BY NodeDbAssumption DEF IInv, NodeDbTypeOK
<1>r. /\ last' = [last EXCEPT ![n] = t]
      /\ uptime' \in uptime .. MaxUptime /\ t <= uptime' /\ now_sec' \in -1 .. uptime'
      /\ lag' \in lag .. MaxUptime /\ uptime' - t <= lag'
  BY Zenon DEF Recorded
<1>1. /\ entries[0].num = Local
      /\ \A i, j \in Used : entries[i].num = entries[j].num => i = j
      /\ \A i \in Used \ {0} : entries[i].last_heard = last[entries[i].num]
      /\ \A i \in Used \ {0}, m \in Node \ {Local} :
           last[m] # -1 /\ Find(m) = {} => last[m] <= entries[i].last_heard + lag
  BY DEF IInv, NodeDbKeepsRecent
<1>2. e \in Entry
  BY DEF Entry
<1>3. /\ uptime' \in 0 .. MaxUptime /\ now_sec' \in -1 .. uptime' /\ lag' \in 0 .. MaxUptime
      /\ last' \in [Node -> -1 .. uptime']
  <2>1. uptime' \in 0 .. MaxUptime /\ lag' \in 0 .. MaxUptime
    BY <1>0, <1>r
  <2>2. \A m \in Node : last'[m] \in -1 .. uptime'
    BY <1>0, <1>r, <2>1
  <2>3. last' \in [Node -> -1 .. uptime']
    BY <1>0, <1>r, <2>2
  <2> QED BY <1>r, <2>1, <2>3
<1>4. CASE entries' = entries /\ entry_count' = entry_count /\ entry_count = 1
  <2>1. Used' = {0}
    BY <1>4 DEF Used
  <2> QED BY <1>0, <1>1, <1>3, <1>4, <2>1 DEF IInv, NodeDbTypeOK, NodeDbKeepsRecent
<1>5. ASSUME NEW i \in Slot \ {0},
             entries' = [entries EXCEPT ![i] = e],
             i \in 0 .. entry_count' - 1,
             \/ i \in Used /\ entries[i].num = n /\ entry_count' = entry_count
             \/ Find(n) = {} /\ i = entry_count /\ entry_count' = entry_count + 1
             \/ Find(n) = {} /\ Oldest(i) /\ entry_count' = entry_count
      PROVE  IInv'
  <2>1. entries' \in [Slot -> Entry] /\ entry_count' \in 1 .. MaxNodes
    <3>1. entries' \in [Slot -> Entry]
      BY <1>0, <1>2, <1>5
    <3>2. entry_count' \in 1 .. MaxNodes
      BY <1>0, <1>5 DEF Slot
    <3> QED BY <3>1, <3>2
  <2>2. i \in Used' /\ entries'[i] = e /\ Used' \subseteq Slot
    <3>1. i \in Used'
      BY <1>5 DEF Used
    <3>2. entries'[i] = e
      BY <1>0, <1>5
    <3>3. entry_count' \in 1 .. MaxNodes /\ MaxNodes \in Nat
      BY <1>0, <2>1
    <3>4. \A c \in 1 .. MaxNodes : 0 .. c - 1 \subseteq Slot
      BY <3>3 DEF Slot
    <3>5. Used' \subseteq Slot
      BY <3>3, <3>4, Zenon DEF Used
    <3> QED BY <3>1, <3>2, <3>5
  <2>3. \A j \in Used' : j # i => j \in Used /\ entries'[j] = entries[j]
    BY <1>0, <1>5, <2>2 DEF Used
  <2>4. \A j \in Used' : j # i => entries[j].num # n
    <3>1. SUFFICES ASSUME NEW j \in Used', j # i PROVE entries[j].num # n
      OBVIOUS
    <3>2. j \in Used
      BY <2>3, <3>1
    <3>3. CASE i \in Used /\ entries[i].num = n
      BY <1>1, <3>1, <3>2, <3>3
    <3>4. CASE Find(n) = {}
      BY <3>2, <3>4 DEF Find
    <3> QED BY <1>5, <3>3, <3>4
  <2>5. 0 \in Used' /\ 0 \in Used
    <3>1. /\ entry_count \in 1 .. MaxNodes /\ entry_count' \in 1 .. MaxNodes
          /\ MaxNodes \in Nat
      BY <1>0, <2>1
    <3>2. \A c \in 1 .. MaxNodes : 0 \in 0 .. c - 1
      BY <3>1
    <3> QED BY <3>1, <3>2, Zenon DEF Used
  <2>6. entries'[0].num = Local
    BY <1>1, <1>5, <2>3, <2>5
  <2>7. \A j, k \in Used' : entries'[j].num = entries'[k].num => j = k
    BY <1>1, <2>2, <2>3, <2>4
  <2>8. \A j \in Used' \ {0} : entries'[j].last_heard = last'[entries'[j].num]
    <3>1. SUFFICES ASSUME NEW j \in Used' \ {0}
                   PROVE  entries'[j].last_heard = last'[entries'[j].num]
      OBVIOUS
    <3>2. CASE j = i
      BY <1>0, <1>r, <2>2, <3>2
    <3>3. CASE j # i
      <4>1. j \in Used \ {0} /\ entries'[j] = entries[j] /\ entries[j].num # n
        BY <2>3, <2>4, <3>1, <3>3
      <4>2. j \in Slot
        BY <2>2, <3>1
      <4>3. entries[j].num \in Node
        BY <1>0, <4>2 DEF Entry
      <4> QED BY <1>0, <1>r, <1>1, <4>1, <4>3
    <3> QED BY <3>2, <3>3
  <2>9. ASSUME NEW k \in Used' \ {0}, NEW m \in Node \ {Local},
               last'[m] # -1, Find(m)' = {}
        PROVE  last'[m] <= entries'[k].last_heard + lag'
    <3>1. m # n /\ last'[m] = last[m]
      <4>1. m # n
        BY <2>2, <2>9 DEF Find
      <4> QED BY <1>0, <1>r, <4>1
    <3>2. last[m] \in -1 .. uptime
      BY <1>0
    <3>3. CASE k = i
      <4>1. entries'[k].last_heard = t
        BY <2>2, <3>3
      <4>2. \A u \in uptime .. MaxUptime, l \in lag .. MaxUptime :
              u - t <= l => last[m] <= t + l
        BY <1>0, <3>2
      <4>3. last[m] <= t + lag'
        BY <1>r, <4>2, Zenon
      <4> QED BY <3>1, <4>1, <4>3
    <3>4. CASE k # i
      <4>1. k \in Used \ {0} /\ entries'[k] = entries[k] /\ k \in Slot
        BY <2>2, <2>3, <3>4
      <4>2. entries[k].last_heard \in 0 .. MaxUptime
        BY <1>0, <4>1 DEF Entry
      <4>3. CASE Find(m) = {}
        <5>1. last[m] <= entries[k].last_heard + lag
          BY <1>1, <2>9, <3>1, <4>1, <4>3
        <5>2. lag \in Nat /\ lag' \in Nat /\ lag <= lag'
          BY <1>0, <1>r
        <5> QED BY <3>1, <3>2, <4>1, <4>2, <5>1, <5>2
      <4>4. CASE Find(m) # {}
        <5>1. PICK j \in Used : entries[j].num = m
          BY <4>4 DEF Find
        <5>2. j = i /\ Oldest(i)
          <6>1. j \in Used'
            BY <1>0, <1>5, <5>1 DEF Used
          <6>2. j = i
            BY <2>3, <2>9, <5>1, <6>1 DEF Find
          <6>3. entries[i].num # n /\ i # entry_count
            BY <1>0, <3>1, <5>1, <6>2 DEF Used
          <6> QED BY <1>5, <6>2, <6>3
        <5>3. entries[i].last_heard = last[m]
          BY <1>1, <5>1, <5>2
        <5>4. k \in Evictable
          BY <1>1, <2>5, <4>1 DEF Evictable
        <5>5. entries[i].last_heard <= entries[k].last_heard
          <6>1. entries[i].last_heard \in 0 .. MaxUptime
            BY <1>0 DEF Entry
          <6>2. \/ entries[i].last_heard < entries[k].last_heard
                \/ entries[i].last_heard = entries[k].last_heard
            BY <5>2, <5>4 DEF Oldest
          <6> QED BY <4>2, <6>1, <6>2
        <5>6. lag' \in Nat
          BY <1>0, <1>r
        <5> QED BY <3>1, <3>2, <4>1, <4>2, <5>3, <5>5, <5>6
      <4> QED BY <4>3, <4>4
    <3> QED BY <3>3, <3>4
  <2>10. NodeDbTypeOK'
    BY <1>3, <2>1 DEF NodeDbTypeOK, Slot, Entry
  <2>11. NodeDbKeepsRecent'
    BY <2>6, <2>7, <2>8, <2>9 DEF NodeDbKeepsRecent
  <2> QED BY <2>10, <2>11 DEF IInv
<1>6. PutEntry(n, t)
  BY DEF Recorded
<1> QED BY <1>4, <1>5, <1>6, PutEntryEffect

(* Every step of the handler keeps the table consistent. *)
LEMMA NextIInv == IInv /\ [NodeDbNext]_nodeDbVars => IInv'
<1> SUFFICES ASSUME IInv, [NodeDbNext]_nodeDbVars PROVE IInv'
  OBVIOUS
<1>0. /\ uptime \in 0 .. MaxUptime /\ now_sec \in -1 .. uptime /\ MaxUptime \in Nat
      /\ last \in [Node -> -1 .. uptime] /\ lag \in 0 .. MaxUptime
  BY NodeDbAssumption DEF IInv, NodeDbTypeOK
<1>1. CASE NodeDbReadsClock
  <2>1. PICK t \in uptime .. MaxUptime : uptime' = t /\ now_sec' = t
    BY <1>1 DEF NodeDbReadsClock
  <2>2. /\ entries' = entries /\ entry_count' = entry_count /\ last' = last /\ lag' = lag
        /\ Used' = Used /\ \A n : Find(n)' = Find(n)
    BY <1>1 DEF NodeDbReadsClock, Used, Find
  <2>3. uptime' \in 0 .. MaxUptime /\ now_sec' \in -1 .. uptime'
    BY <1>0, <2>1
  <2>4. last' \in [Node -> -1 .. uptime']
    BY <1>0, <2>1, <2>2
  <2>5. NodeDbTypeOK'
    BY <2>2, <2>3, <2>4 DEF IInv, NodeDbTypeOK
  <2>6. NodeDbKeepsRecent'
    BY <2>2 DEF IInv, NodeDbKeepsRecent
  <2> QED BY <2>5, <2>6 DEF IInv
<1>2. ASSUME NEW n \in Node, NodeDbOnPacket(n)
      PROVE  IInv'
  <2>1. CASE n = Local /\ UNCHANGED nodeDbVars
    BY <2>1 DEF IInv, NodeDbTypeOK, NodeDbKeepsRecent, nodeDbVars, Used, Find
  <2>2. CASE n # Local /\ ~(n = Local /\ UNCHANGED nodeDbVars)
    <3>1. PICK t \in uptime .. MaxUptime :
            PutEntry(n, t) /\ uptime' = t /\ last' = [last EXCEPT ![n] = t]
      BY <1>2, <2>2 DEF NodeDbOnPacket
    <3>2. now_sec' = now_sec /\ lag' = lag
      BY <1>2, <2>2 DEF NodeDbOnPacket
    <3>3. /\ t \in 0 .. MaxUptime /\ uptime' \in uptime .. MaxUptime /\ t <= uptime'
          /\ now_sec' \in -1 .. uptime' /\ lag' \in lag .. MaxUptime /\ uptime' - t <= lag'
      BY <1>0, <3>1, <3>2
    <3>4. Recorded(n, t)
      BY <3>1, <3>3 DEF Recorded
    <3> QED BY <2>2, <3>3, <3>4, PutEntryKeeps
  <2> QED BY <1>2, <2>1, <2>2 DEF NodeDbOnPacket
<1>3. ASSUME NEW n \in Node, NodeDbRecords(n)
      PROVE  IInv'
  <2>1. /\ n # Local /\ now_sec # -1 /\ PutEntry(n, now_sec) /\ uptime' = uptime
        /\ last' = [last EXCEPT ![n] = now_sec] /\ now_sec' = -1
        /\ lag' = IF uptime - now_sec > lag THEN uptime - now_sec ELSE lag
    BY <1>3 DEF NodeDbRecords, Lateness
  <2>2. /\ now_sec \in 0 .. MaxUptime /\ uptime' \in uptime .. MaxUptime /\ now_sec <= uptime'
        /\ now_sec' \in -1 .. uptime' /\ lag' \in lag .. MaxUptime
        /\ uptime' - now_sec <= lag'
    BY <1>0, <2>1
  <2>3. Recorded(n, now_sec)
    BY <2>1, <2>2, Zenon DEF Recorded
  <2> QED BY <2>1, <2>2, <2>3, PutEntryKeeps
<1>4. CASE UNCHANGED nodeDbVars
  BY <1>4 DEF IInv, NodeDbTypeOK, NodeDbKeepsRecent, nodeDbVars, Used, Find
<1> QED BY <1>1, <1>2, <1>3, <1>4 DEF NodeDbNext

(* The node database keeps the local node and the nodes heard last, whichever
   threads handle the packets (meshtastic_module_nodedb_on_packet). *)
THEOREM NodeDbConsistent == NodeDbSpec => []NodeDbKeepsRecent
<1>1. IInv => NodeDbKeepsRecent
  BY DEF IInv
<1> QED BY <1>1, InitIInv, NextIInv, PTL DEF NodeDbSpec

-----------------------------------------------------------------------------
(* The gateway *)

InjectAt == {"dup_src", "dup_id", "dup_head", "relay", "clock", "record"}

Uplinked == Near \cup Own \cup {MapReport}

(* The inductive invariants of the gateway.  Of the packets: one being injected
   is another node's, frames of packets that came from the broker carry
   via_mqtt, and only what may be uplinked is in the queue or in hand ... *)
PInv ==
  /\ ret \in Ret
  /\ at \in InjectAt => inject.key \in Near \cup Far
  /\ air \subseteq [key : Key, via_mqtt : BOOLEAN]
  /\ \A f \in air : f.key \in Far => f.via_mqtt
  /\ pubq \in Seq(Uplinked) /\ entry \in Seq(Uplinked)

(* ... and of the session: an entry is in hand only while it is up. *)
LInv ==
  /\ at = "publish" => connected
  /\ ret # "publish"

(* At first nothing is queued, in the air or in hand. *)
LEMMA InitPInv == Init => PInv
<1> SUFFICES ASSUME Init PROVE PInv
  OBVIOUS
<1>1. at = "top" /\ ret = "map" /\ air = {} /\ pubq = <<>> /\ entry = <<>>
  BY DEF Init, MqttInit
<1>2. ret \in Ret /\ at \notin InjectAt
  BY <1>1 DEF Ret, InjectAt
<1>3. pubq \in Seq(Uplinked) /\ entry \in Seq(Uplinked)
  BY <1>1
<1> QED BY <1>1, <1>2, <1>3 DEF PInv

(* At first there is no session. *)
LEMMA InitLInv == Init => LInv
  BY DEF Init, MqttInit, LInv

(* Making room drops the oldest entry of a full queue and leaves a free place. *)
LEMMA RoomIsMade ==
  ASSUME pubq \in Seq(Uplinked)
  PROVE  /\ MakeRoom \in Seq(Uplinked)
         /\ Len(pubq) <= PublishQueueSize => Len(MakeRoom) < PublishQueueSize
<1>1. PublishQueueSize \in Nat \ {0} /\ Len(pubq) \in Nat
  BY MqttAssumption
<1>2. CASE Len(pubq) >= PublishQueueSize
  <2>1. pubq # <<>>
    BY <1>1, <1>2
  <2>2. Tail(pubq) \in Seq(Uplinked) /\ Len(Tail(pubq)) = Len(pubq) - 1
    BY <2>1
  <2> QED BY <1>1, <1>2, <2>2 DEF MakeRoom
<1>3. CASE ~(Len(pubq) >= PublishQueueSize)
  BY <1>1, <1>3 DEF MakeRoom
<1> QED BY <1>2, <1>3

(* mqtt_queue_uplink() keeps the queue a queue of what may be uplinked. *)
LEMMA PutKeeps ==
  ASSUME pubq \in Seq(Uplinked), NEW e \in Uplinked, Put(e) \/ pubq' = MakeRoom
  PROVE  pubq' \in Seq(Uplinked)
<1>1. MakeRoom \in Seq(Uplinked)
  BY RoomIsMade
<1> QED BY <1>1 DEF Put

(* A step of the MQTT thread outside an injection queues nothing but map
   reports. *)
LEMMA SessionPInv == PInv /\ Session => PInv'
<1> SUFFICES ASSUME PInv, MqttThread, UNCHANGED gatewayVars PROVE PInv'
  BY DEF Session
<1>a. inject' = inject /\ air' = air
  BY DEF gatewayVars
<1>b. SUFFICES /\ ret' \in Ret /\ at' \notin InjectAt
               /\ pubq' \in Seq(Uplinked) /\ entry' \in Seq(Uplinked)
  BY <1>a DEF PInv
<1>c. ret \in Ret /\ pubq \in Seq(Uplinked) /\ entry \in Seq(Uplinked)
  BY DEF PInv
<1>1. CASE HandleDisconnectPending
  BY <1>c, <1>1 DEF HandleDisconnectPending, InjectAt
<1>2. CASE Choose
  BY <1>c, <1>2 DEF Choose, DrainThen, InjectAt, Ret
<1>3. CASE ConnAck
  BY <1>c, <1>3 DEF ConnAck, DrainThen, InjectAt, Ret
<1>4. CASE ConnectFails
  BY <1>c, <1>4 DEF ConnectFails, InjectAt
<1>5. CASE Subscribe
  BY <1>c, <1>5 DEF Subscribe, InjectAt
<1>6. CASE Drain
  <2>1. CASE connected /\ budget > 0 /\ pubq # <<>>
    <3>1. Head(pubq) \in Uplinked /\ Tail(pubq) \in Seq(Uplinked)
      BY <1>c, <2>1
    <3>2. entry' = <<Head(pubq)>> /\ pubq' = Tail(pubq) /\ at' = "publish" /\ ret' = ret
      BY <1>6, <2>1 DEF Drain
    <3>3. entry' \in Seq(Uplinked) /\ pubq' \in Seq(Uplinked)
      BY <3>1, <3>2
    <3> QED BY <1>c, <3>2, <3>3 DEF InjectAt
  <2>2. CASE ~(connected /\ budget > 0 /\ pubq # <<>>)
    <3>1. at' = ret /\ ret' = ret /\ entry' = entry /\ pubq' = pubq
      BY <1>6, <2>2 DEF Drain
    <3> QED BY <1>c, <3>1 DEF InjectAt, Ret
  <2> QED BY <2>1, <2>2
<1>7. CASE Publish
  <2>1. entry' = <<>> /\ at' = "drain" /\ ret' = ret /\ pubq' = pubq
    BY <1>7 DEF Publish
  <2> QED BY <1>c, <2>1 DEF InjectAt
<1>8. CASE ProcessNothing
  BY <1>c, <1>8 DEF ProcessNothing, DrainThen, InjectAt, Ret
<1>9. CASE ProcessFails
  BY <1>c, <1>9 DEF ProcessFails, InjectAt
<1>10. CASE PerhapsReportToMap
  <2>1. MapReport \in Uplinked
    BY DEF Uplinked
  <2>2. pubq' = pubq \/ Put(MapReport)
    BY <1>10 DEF PerhapsReportToMap
  <2>3. pubq' \in Seq(Uplinked)
    BY <1>c, <2>1, <2>2, PutKeeps
  <2>4. at' = "top" /\ ret' = ret /\ entry' = entry
    BY <1>10 DEF PerhapsReportToMap
  <2> QED BY <1>c, <2>3, <2>4 DEF InjectAt
<1> QED BY <1>1, <1>2, <1>3, <1>4, <1>5, <1>6, <1>7, <1>8, <1>9, <1>10 DEF MqttThread

(* A step of the MQTT thread outside an injection has an entry in hand only in a
   session. *)
LEMMA SessionLInv == LInv /\ MqttThread => LInv'
<1> SUFFICES ASSUME LInv, MqttThread PROVE LInv'
  OBVIOUS
<1> USE DEF LInv
<1>1. CASE HandleDisconnectPending
  BY <1>1, Zenon DEF HandleDisconnectPending
<1>2. CASE Choose
  BY <1>2 DEF Choose, DrainThen
<1>3. CASE ConnAck
  BY <1>3 DEF ConnAck, DrainThen
<1>4. CASE ConnectFails
  BY <1>4 DEF ConnectFails, sessionVars
<1>5. CASE Subscribe
  BY <1>5 DEF Subscribe
<1>6. CASE Drain
  BY <1>6 DEF Drain, sessionVars
<1>7. CASE Publish
  BY <1>7 DEF Publish
<1>8. CASE ProcessNothing
  BY <1>8 DEF ProcessNothing, DrainThen, sessionVars
<1>9. CASE ProcessFails
  BY <1>9 DEF ProcessFails
<1>10. CASE PerhapsReportToMap
  BY <1>10 DEF PerhapsReportToMap
<1> QED BY <1>1, <1>2, <1>3, <1>4, <1>5, <1>6, <1>7, <1>8, <1>9, <1>10 DEF MqttThread

(* An injected packet is another node's and is relayed with via_mqtt set
   (meshtastic_inject_downlink_mesh_packet). *)
LEMMA InjectPInv == PInv /\ Inject => PInv'
<1> SUFFICES ASSUME PInv, Inject PROVE PInv'
  OBVIOUS
<1>a. /\ ret \in Ret /\ pubq \in Seq(Uplinked) /\ entry \in Seq(Uplinked)
      /\ at \in InjectAt => inject.key \in Near \cup Far
      /\ air \subseteq [key : Key, via_mqtt : BOOLEAN]
      /\ \A f \in air : f.key \in Far => f.via_mqtt
  BY DEF PInv
<1>b. ASSUME UNCHANGED restVars, ret' \in Ret, air' = air,
             at' \in InjectAt => inject'.key \in Near \cup Far
      PROVE  PInv'
  BY <1>a, <1>b DEF PInv, restVars
<1>c. ASSUME UNCHANGED restVars, InjectDone, air' = air PROVE PInv'
  <2>1. ret' \in Ret /\ at' \notin InjectAt
    BY <1>c DEF InjectDone, DrainThen, Ret, InjectAt
  <2> QED BY <1>b, <1>c, <2>1
<1>d. ASSUME UNCHANGED restVars, at \in InjectAt, UNCHANGED <<ret, inject, air>> PROVE PInv'
  BY <1>a, <1>b, <1>d
<1>1. ASSUME NEW k \in Near \cup Far, Downlink(k) PROVE PInv'
  <2>1. UNCHANGED restVars /\ air' = air
    BY <1>1 DEF Downlink
  <2>2. CASE InjectDone
    BY <1>c, <2>1, <2>2
  <2>3. CASE inject' = [key |-> k, heads |-> {dup_head}, interrupted |-> FALSE] /\ Goto("dup_src")
    <3>1. inject'.key = k /\ ret' = ret
      BY <2>3 DEF Goto
    <3> QED BY <1>a, <1>b, <2>1, <3>1
  <2> QED BY <1>1, <2>2, <2>3 DEF Downlink
<1>2. CASE DupSrc
  BY <1>2, <1>d DEF DupSrc, DupWrite, Goto, InjectAt
<1>3. CASE DupId
  BY <1>3, <1>d DEF DupId, DupWrite, Goto, InjectAt
<1>4. CASE DupHead
  BY <1>4, <1>d DEF DupHead, Goto, InjectAt
<1>5. CASE Relay
  <2>1. at \in InjectAt /\ UNCHANGED restVars
    BY <1>5 DEF Relay, InjectAt
  <2>2. CASE InjectDone /\ UNCHANGED air
    BY <1>c, <2>1, <2>2
  <2>3. CASE /\ air' = air \cup {[key |-> inject.key, via_mqtt |-> TRUE]}
             /\ Goto("clock") /\ UNCHANGED inject
    <3>1. inject.key \in Key
      BY <1>a, <2>1 DEF Key
    <3>2. air' \subseteq [key : Key, via_mqtt : BOOLEAN]
      <4>1. [key |-> inject.key, via_mqtt |-> TRUE] \in [key : Key, via_mqtt : BOOLEAN]
        BY <3>1
      <4> QED BY <1>a, <2>3, <4>1, Zenon
    <3>3. \A f \in air' : f.key \in Far => f.via_mqtt
      BY <1>a, <2>3
    <3>4. UNCHANGED <<pubq, entry, ret, inject>>
      BY <2>1, <2>3 DEF restVars, Goto
    <3> QED BY <1>a, <2>1, <3>2, <3>3, <3>4 DEF PInv
  <2> QED BY <1>5, <2>2, <2>3 DEF Relay
<1>6. CASE DeliverClock
  BY <1>6, <1>d DEF DeliverClock, Goto, InjectAt
<1>7. CASE DeliverRecord
  BY <1>7, <1>c DEF DeliverRecord
<1> QED BY <1>1, <1>2, <1>3, <1>4, <1>5, <1>6, <1>7 DEF Inject

(* A frame without via_mqtt is of a packet that did not come from the broker, so
   that what meshtastic_mqtt_on_rx() uplinks was heard in the mesh first. *)
LEMMA LoRaRxPInv ==
  ASSUME PInv, NEW k \in Key, NEW via \in BOOLEAN, k \in Far => via, LoRaRx(k, via)
  PROVE  PInv'
<1>a. /\ pubq \in Seq(Uplinked)
      /\ air \subseteq [key : Key, via_mqtt : BOOLEAN]
      /\ \A f \in air : f.key \in Far => f.via_mqtt
  BY DEF PInv
<1>b. /\ UNCHANGED <<at, ret, entry>>
      /\ inject'.key = inject.key
  <2>1. UNCHANGED <<at, ret, entry>>
    BY DEF LoRaRx, threadVars
  <2>2. inject' = inject \/ inject' = Interrupted
    BY DEF LoRaRx
  <2>3. inject'.key = inject.key
    BY <2>2 DEF Interrupted
  <2> QED BY <2>1, <2>3
<1>1. CASE UNCHANGED <<pubq, air>>
  BY <1>b, <1>1 DEF PInv
<1>2. CASE Uplink(k, via) /\ Rebroadcast(k, via)
  <2>1. pubq' \in Seq(Uplinked)
    <3>1. CASE k \in Own \/ via
      BY <1>a, <1>2, <3>1 DEF Uplink, QueueUplink
    <3>2. CASE ~(k \in Own \/ via)
      <4>1. k \in Uplinked
        BY <3>2 DEF Key, Uplinked
      <4> QED BY <1>a, <1>2, <3>2, <4>1, PutKeeps DEF Uplink, QueueUplink
    <3> QED BY <3>1, <3>2
  <2>2. air' \subseteq air \cup {[key |-> k, via_mqtt |-> via]}
    BY <1>2 DEF Rebroadcast
  <2>3. air' \subseteq [key : Key, via_mqtt : BOOLEAN]
    BY <1>a, <2>2
  <2>4. \A f \in air' : f.key \in Far => f.via_mqtt
    BY <1>a, <2>2
  <2> QED BY <1>b, <2>1, <2>3, <2>4 DEF PInv
<1> QED BY <1>1, <1>2 DEF LoRaRx

(* Every step keeps the invariant of the packets. *)
LEMMA NextPInv == PInv /\ [Next]_vars => PInv'
<1> SUFFICES ASSUME PInv, [Next]_vars PROVE PInv'
  OBVIOUS
<1>1. CASE Session
  BY <1>1, SessionPInv
<1>2. CASE Network
  BY <1>2 DEF Network, NetAdd, NetDel, threadVars, gatewayVars, PInv
<1>3. CASE Inject
  BY <1>3, InjectPInv
<1>4. CASE Receive
  <2>1. ASSUME NEW k \in Near, LoRaRx(k, FALSE) PROVE PInv'
    <3>1. k \in Key /\ k \notin Far
      BY GatewayAssumption DEF Key
    <3> QED BY <2>1, <3>1, LoRaRxPInv, Zenon
  <2>2. ASSUME NEW f \in air, LoRaRx(f.key, f.via_mqtt) PROVE PInv'
    <3>1. f.key \in Key /\ f.via_mqtt \in BOOLEAN /\ (f.key \in Far => f.via_mqtt)
      BY DEF PInv
    <3> QED BY <2>2, <3>1, LoRaRxPInv
  <2> QED BY <1>4, <2>1, <2>2, Zenon DEF Receive
<1>5. ASSUME NEW k \in Own, SendOwn(k) PROVE PInv'
  <2>1. k \in Key /\ k \notin Far /\ k \in Uplinked
    BY GatewayAssumption DEF Key, Uplinked
  <2>2. air' = air \cup {[key |-> k, via_mqtt |-> FALSE]} /\ (pubq' = pubq \/ Put(k) \/ pubq' = MakeRoom)
    BY <1>5 DEF SendOwn, QueueUplink
  <2>3. pubq' \in Seq(Uplinked)
    BY <2>1, <2>2, PutKeeps DEF PInv
  <2>4. /\ air' \subseteq [key : Key, via_mqtt : BOOLEAN]
        /\ \A f \in air' : f.key \in Far => f.via_mqtt
    <3>1. [key |-> k, via_mqtt |-> FALSE] \in [key : Key, via_mqtt : BOOLEAN]
      BY <2>1
    <3>2. air' \subseteq [key : Key, via_mqtt : BOOLEAN]
      BY <2>2, <3>1, Zenon DEF PInv
    <3>3. \A f \in air' : f.key \in Far => f.via_mqtt
      BY <2>1, <2>2 DEF PInv
    <3> QED BY <3>2, <3>3
  <2>5. UNCHANGED <<at, ret, entry, inject>>
    BY <1>5 DEF SendOwn, threadVars
  <2> QED BY <2>3, <2>4, <2>5 DEF PInv
<1>6. CASE UNCHANGED vars
  BY <1>6 DEF vars, mqttVars, PInv
<1> QED BY <1>1, <1>2, <1>3, <1>4, <1>5, <1>6 DEF Next

(* Every step keeps the invariant of the session: only the MQTT thread, outside
   an injection, changes connected. *)
LEMMA NextLInv == LInv /\ [Next]_vars => LInv'
<1> SUFFICES ASSUME LInv, [Next]_vars PROVE LInv'
  OBVIOUS
<1>1. CASE Session
  BY <1>1, SessionLInv DEF Session
<1>2. CASE Network
  BY <1>2 DEF Network, NetAdd, NetDel, threadVars, LInv
<1>3. CASE Inject
  <2>1. connected' = connected /\ at' # "publish" /\ ret' # "publish"
    <3>1. ASSUME NEW k \in Near \cup Far, Downlink(k)
          PROVE  connected' = connected /\ at' # "publish" /\ ret' # "publish"
      BY <3>1, Zenon DEF Downlink, InjectDone, DrainThen, Goto, restVars, sessionVars, LInv
    <3>2. CASE DupSrc \/ DupId \/ DupHead
      BY <3>2 DEF DupSrc, DupId, DupHead, DupWrite, Goto, restVars, sessionVars, LInv
    <3>3. CASE Relay
      BY <3>3 DEF Relay, InjectDone, DrainThen, Goto, restVars, sessionVars, LInv
    <3>4. CASE DeliverClock \/ DeliverRecord
      BY <3>4 DEF DeliverClock, DeliverRecord, InjectDone, DrainThen, Goto, restVars, sessionVars,
         LInv
    <3> QED BY <1>3, <3>1, <3>2, <3>3, <3>4 DEF Inject
  <2> QED BY <2>1 DEF LInv
<1>4. CASE Receive
  <2>1. UNCHANGED <<connected, at, ret>>
    BY <1>4, Zenon DEF Receive, LoRaRx, sessionVars, threadVars
  <2> QED BY <2>1 DEF LInv
<1>5. ASSUME NEW k \in Own, SendOwn(k) PROVE LInv'
  <2>1. UNCHANGED <<connected, at, ret>>
    BY <1>5 DEF SendOwn, sessionVars, threadVars
  <2> QED BY <2>1 DEF LInv
<1>6. CASE UNCHANGED vars
  BY <1>6 DEF vars, mqttVars, LInv
<1> QED BY <1>1, <1>2, <1>3, <1>4, <1>5, <1>6 DEF Next

(* What came from the broker is never queued for it again: the guard on via_mqtt
   in mqtt_queue_uplink(), with the flag that the injection sets and relaying
   keeps, holds whatever the duplicate cache remembers. *)
THEOREM GatewayNoEcho == Spec => []NoEcho
<1>1. PInv => NoEcho
  <2> SUFFICES ASSUME PInv PROVE NoEcho
    OBVIOUS
  <2>1. pubq \o entry \in Seq(Uplinked)
    BY DEF PInv
  <2>2. \A i \in 1 .. Len(pubq \o entry) : (pubq \o entry)[i] \in Uplinked
    BY <2>1
  <2>3. Uplinked \cap Far = {}
    BY GatewayAssumption DEF Uplinked
  <2> QED BY <2>2, <2>3 DEF NoEcho
<1> QED BY <1>1, InitPInv, NextPInv, PTL DEF Spec

(* Every step of the gateway is a step of the node database, or none. *)
LEMMA NextNodeDb == PInv /\ [Next]_vars => [NodeDbNext]_nodeDbVars
<1> SUFFICES ASSUME PInv, [Next]_vars PROVE [NodeDbNext]_nodeDbVars
  OBVIOUS
<1>1. CASE Session \/ Network
  BY <1>1 DEF Session, Network, gatewayVars
<1>2. CASE Inject
  <2>1. ASSUME NEW k \in Near \cup Far, Downlink(k) PROVE UNCHANGED nodeDbVars
    BY <2>1, Zenon DEF Downlink
  <2>2. CASE DupSrc \/ DupId \/ DupHead \/ Relay
    BY <2>2 DEF DupSrc, DupId, DupHead, Relay, DupWrite
  <2>3. CASE DeliverClock
    BY <2>3 DEF DeliverClock, NodeDbNext
  <2>4. CASE DeliverRecord
    <3>1. inject.key \in Key
      BY <2>4 DEF DeliverRecord, PInv, InjectAt, Key
    <3>2. inject.key.src \in Node
      BY <3>1, GatewayAssumption
    <3> QED BY <2>4, <3>2 DEF DeliverRecord, NodeDbNext
  <2> QED BY <1>2, <2>1, <2>2, <2>3, <2>4 DEF Inject
<1>3. ASSUME NEW k \in Key, NEW via, LoRaRx(k, via) PROVE [NodeDbNext]_nodeDbVars
  <2>1. k.src \in Node
    BY GatewayAssumption
  <2> QED BY <1>3, <2>1 DEF LoRaRx, NodeDbNext
<1>4. CASE Receive
  <2>1. ASSUME NEW k \in Near, LoRaRx(k, FALSE) PROVE [NodeDbNext]_nodeDbVars
    BY <1>3, <2>1, Zenon DEF Key
  <2>2. ASSUME NEW f \in air, LoRaRx(f.key, f.via_mqtt) PROVE [NodeDbNext]_nodeDbVars
    <3>1. f.key \in Key
      BY DEF PInv
    <3> QED BY <1>3, <2>2, <3>1
  <2> QED BY <1>4, <2>1, <2>2, Zenon DEF Receive
<1>5. ASSUME NEW k \in Own, SendOwn(k) PROVE [NodeDbNext]_nodeDbVars
  BY <1>5 DEF SendOwn
<1>6. CASE UNCHANGED vars
  BY <1>6 DEF vars
<1> QED BY <1>1, <1>2, <1>4, <1>5, <1>6 DEF Next

(* The gateway implements the node database: what its two threads do to the
   table are steps of NodeDb, for which the table was shown to stay consistent. *)
THEOREM GatewayImplementsNodeDb == Spec => NodeDbSpec
<1>1. Init => NodeDbInit
  BY DEF Init
<1> QED BY <1>1, InitPInv, NextPInv, NextNodeDb, PTL DEF Spec, NodeDbSpec

(* The node table of the gateway keeps the local node and the nodes heard last. *)
THEOREM GatewayKeepsRecent == Spec => []NodeDbKeepsRecent
  BY GatewayImplementsNodeDb, NodeDbConsistent, PTL
-----------------------------------------------------------------------------
(* The types *)

(* mqtt_queue_publish() keeps the publish queue within its size. *)
LEMMA PutBound ==
  ASSUME pubq \in Seq(Uplinked), Len(pubq) <= PublishQueueSize,
         NEW e \in Uplinked, Put(e) \/ pubq' = MakeRoom
  PROVE  Len(pubq') <= PublishQueueSize
<1>1. PublishQueueSize \in Nat
  BY MqttAssumption
<1>2. MakeRoom \in Seq(Uplinked) /\ Len(MakeRoom) < PublishQueueSize
  BY RoomIsMade
<1>3. Len(pubq') \in {Len(MakeRoom), Len(MakeRoom) + 1}
  BY <1>2 DEF Put
<1> QED BY <1>1, <1>2, <1>3

(* dup_head stays inside the ring. *)
LEMMA NextInRing ==
  ASSUME NEW h \in Index
  PROVE  /\ Next1(h) = (IF h + 1 = CacheSize THEN 0 ELSE h + 1)
         /\ Next1(h) \in Index
<1>1. CacheSize \in Nat \ {0} /\ h \in Nat /\ h < CacheSize
  BY GatewayAssumption DEF Index
<1>2. CASE h + 1 = CacheSize
  BY <1>1, <1>2 DEF Next1, Index
<1>3. CASE h + 1 < CacheSize
  BY <1>1, <1>3 DEF Next1, Index
<1> QED BY <1>1, <1>2, <1>3

(* The slots behind dup_head are those of the ring, each once. *)
LEMMA BackInRing ==
  ASSUME dup_head \in Index
  PROVE  /\ \A j \in 1 .. CacheSize : Back(j) \in Index /\ (Back(j) = dup_head <=> j = CacheSize)
         /\ \A i \in Index : \E j \in 1 .. CacheSize : Back(j) = i
<1>1. CacheSize \in Nat \ {0} /\ dup_head \in Nat /\ dup_head < CacheSize
  BY GatewayAssumption DEF Index
<1>2. \A j \in 1 .. CacheSize : Back(j) \in Index /\ (Back(j) = dup_head <=> j = CacheSize)
  BY <1>1 DEF Back, Index
<1>3. ASSUME NEW i \in Index PROVE \E j \in 1 .. CacheSize : Back(j) = i
  <2>1. CASE i < dup_head
    <3>1. dup_head - i \in 1 .. CacheSize /\ Back(dup_head - i) = i
      BY <1>1, <2>1 DEF Back, Index
    <3> QED BY <3>1
  <2>2. CASE ~(i < dup_head)
    <3>1. dup_head - i + CacheSize \in 1 .. CacheSize /\ Back(dup_head - i + CacheSize) = i
      BY <1>1, <2>2 DEF Back, Index
    <3> QED BY <3>1
  <2> QED BY <2>1, <2>2
<1> QED BY <1>2, <1>3

(* Advancing dup_head puts every slot one addition further back. *)
LEMMA BackShifts ==
  ASSUME dup_head \in Index, dup_head' = Next1(dup_head)
  PROVE  /\ Back(1)' = dup_head
         /\ \A j \in 2 .. CacheSize : Back(j)' = Back(j - 1)
<1>1. CacheSize \in Nat \ {0} /\ dup_head \in Nat /\ dup_head < CacheSize
  BY GatewayAssumption DEF Index
<1>2. dup_head' = IF dup_head + 1 = CacheSize THEN 0 ELSE dup_head + 1
  BY NextInRing
<1> QED BY <1>1, <1>2 DEF Back

(* Where the MQTT thread is, and what it holds there. *)
ThreadType ==
  /\ at \in At \cup InjectAt
  /\ budget \in 0 .. BudgetOnConnect + BudgetPerLoop
  /\ Len(pubq) <= PublishQueueSize
  /\ entry # <<>> <=> at = "publish"
  /\ at = "publish" => budget > 0
  /\ now_sec # -1 <=> at = "record"

(* The thread starts with nothing in hand. *)
LEMMA InitThreadType == Init => ThreadType
<1> SUFFICES ASSUME Init PROVE ThreadType
  OBVIOUS
<1>1. /\ at = "top" /\ budget = 0 /\ pubq = <<>> /\ entry = <<>> /\ now_sec = -1
      /\ PublishQueueSize \in Nat /\ BudgetOnConnect \in Nat /\ BudgetPerLoop \in Nat
  BY MqttAssumption DEF Init, MqttInit, NodeDbInit
<1> QED BY <1>1 DEF ThreadType, At

(* The steps of mqtt_thread_fn() outside an injection *)
LEMMA SessionThreadType == PInv /\ LInv /\ ThreadType /\ Session => ThreadType'
<1> SUFFICES ASSUME PInv, LInv, ThreadType, MqttThread, UNCHANGED gatewayVars PROVE ThreadType'
  BY DEF Session
<1>a. /\ now_sec' = now_sec /\ pubq \in Seq(Uplinked) /\ ret \in Ret
      /\ BudgetOnConnect \in Nat /\ BudgetPerLoop \in Nat /\ budget \in Nat
      /\ BudgetOnConnect \in 0 .. BudgetOnConnect + BudgetPerLoop
      /\ BudgetPerLoop \in 0 .. BudgetOnConnect + BudgetPerLoop
  BY MqttAssumption DEF gatewayVars, nodeDbVars, PInv, ThreadType
<1>b. /\ at \in At \cup InjectAt /\ budget \in 0 .. BudgetOnConnect + BudgetPerLoop
      /\ Len(pubq) <= PublishQueueSize /\ (entry # <<>> <=> at = "publish")
      /\ at = "publish" => budget > 0
      /\ now_sec # -1 <=> at = "record"
  BY DEF ThreadType
<1>c. \A r \in Ret : r \in At /\ r # "publish" /\ r # "record"
  BY DEF Ret, At
<1>d. ASSUME at # "publish", at # "record", at' \in At, at' # "publish", at' # "record",
             entry' = entry, pubq' = pubq,
             budget' \in {budget, BudgetOnConnect, BudgetPerLoop}
      PROVE  ThreadType'
  BY <1>a, <1>b, <1>d DEF ThreadType
<1>1. CASE HandleDisconnectPending
  BY <1>d, <1>1 DEF HandleDisconnectPending, At
<1>2. CASE Choose
  BY <1>d, <1>2 DEF Choose, DrainThen, At
<1>3. CASE ConnAck
  BY <1>d, <1>3 DEF ConnAck, DrainThen, At
<1>4. CASE ConnectFails
  BY <1>d, <1>4 DEF ConnectFails, At
<1>5. CASE Subscribe
  BY <1>d, <1>5 DEF Subscribe, At
<1>6. CASE Drain
  <2>1. CASE connected /\ budget > 0 /\ pubq # <<>>
    <3>1. /\ entry' = <<Head(pubq)>> /\ pubq' = Tail(pubq) /\ at' = "publish" /\ budget' = budget
          /\ at = "drain"
      BY <1>6, <2>1 DEF Drain
    <3>2. Len(pubq') <= PublishQueueSize /\ entry' # <<>>
      <4>1. Len(Tail(pubq)) = Len(pubq) - 1 /\ Len(pubq) \in Nat /\ PublishQueueSize \in Nat
        BY <1>a, <2>1, MqttAssumption
      <4> QED BY <1>b, <3>1, <4>1
    <3> QED BY <1>a, <1>b, <2>1, <3>1, <3>2 DEF ThreadType, At
  <2>2. CASE ~(connected /\ budget > 0 /\ pubq # <<>>)
    BY <1>a, <1>c, <1>d, <1>6, <2>2 DEF Drain
  <2> QED BY <2>1, <2>2
<1>7. CASE Publish
  <2>1. /\ entry' = <<>> /\ at' = "drain" /\ at = "publish" /\ pubq' = pubq
        /\ budget' = budget - 1
    BY <1>7 DEF Publish
  <2>2. budget' \in 0 .. BudgetOnConnect + BudgetPerLoop
    BY <1>a, <1>b, <2>1
  <2> QED BY <1>a, <1>b, <2>1, <2>2 DEF ThreadType, At
<1>8. CASE ProcessNothing
  BY <1>d, <1>8 DEF ProcessNothing, DrainThen, At
<1>9. CASE ProcessFails
  BY <1>d, <1>9 DEF ProcessFails, At
<1>10. CASE PerhapsReportToMap
  <2>1. at = "map" /\ at' = "top" /\ UNCHANGED <<budget, entry>> /\ (pubq' = pubq \/ Put(MapReport))
    BY <1>10 DEF PerhapsReportToMap
  <2>2. Len(pubq') <= PublishQueueSize
    BY <1>a, <1>b, <2>1, PutBound DEF Uplinked
  <2> QED BY <1>a, <1>b, <2>1, <2>2 DEF ThreadType, At
<1> QED BY <1>1, <1>2, <1>3, <1>4, <1>5, <1>6, <1>7, <1>8, <1>9, <1>10 DEF MqttThread

(* The steps of an injection: the clock is held from its reading to the record. *)
LEMMA InjectThreadType == IInv /\ ThreadType /\ Inject => ThreadType'
<1> SUFFICES ASSUME IInv, ThreadType, Inject PROVE ThreadType'
  OBVIOUS
<1>a. BudgetOnConnect \in Nat /\ BudgetPerLoop \in Nat
  BY MqttAssumption
<1>b. ASSUME UNCHANGED restVars, at # "publish", at' \in At \cup InjectAt, at' # "publish",
             budget' \in {budget, BudgetPerLoop}, now_sec' # -1 <=> at' = "record"
      PROVE  ThreadType'
  BY <1>a, <1>b DEF ThreadType, restVars
<1>1. ASSUME NEW k \in Near \cup Far, Downlink(k) PROVE ThreadType'
  <2>1. UNCHANGED restVars /\ at = "process" /\ now_sec' = now_sec
    BY <1>1 DEF Downlink, nodeDbVars
  <2>2. at' \in {"drain", "dup_src"} /\ budget' \in {budget, BudgetPerLoop}
    BY <1>1 DEF Downlink, InjectDone, DrainThen, Goto
  <2> QED BY <1>b, <2>1, <2>2 DEF ThreadType, At, InjectAt
<1>2. CASE DupSrc \/ DupId \/ DupHead
  <2>1. /\ UNCHANGED restVars /\ at \in {"dup_src", "dup_id", "dup_head"} /\ now_sec' = now_sec
        /\ at' \in {"dup_id", "dup_head", "relay"} /\ budget' = budget
    BY <1>2 DEF DupSrc, DupId, DupHead, DupWrite, Goto, nodeDbVars
  <2> QED BY <1>b, <2>1, Zenon DEF ThreadType, InjectAt
<1>3. CASE Relay
  <2>1. /\ UNCHANGED restVars /\ at = "relay" /\ now_sec' = now_sec
        /\ at' \in {"drain", "clock"} /\ budget' \in {budget, BudgetPerLoop}
    BY <1>3 DEF Relay, InjectDone, DrainThen, Goto, nodeDbVars
  <2> QED BY <1>b, <2>1 DEF ThreadType, At, InjectAt
<1>4. CASE DeliverClock
  <2>1. UNCHANGED restVars /\ at = "clock" /\ at' = "record" /\ budget' = budget
    BY <1>4 DEF DeliverClock, Goto
  <2>2. now_sec' # -1
    <3>1. PICK t \in uptime .. MaxUptime : now_sec' = t /\ uptime' = t
      BY <1>4 DEF DeliverClock, NodeDbReadsClock
    <3>2. uptime \in Nat /\ MaxUptime \in Nat
      BY NodeDbAssumption DEF IInv, NodeDbTypeOK
    <3> QED BY <3>1, <3>2
  <2> QED BY <1>b, <2>1, <2>2 DEF InjectAt
<1>5. CASE DeliverRecord
  <2>1. /\ UNCHANGED restVars /\ at = "record" /\ at' = "drain" /\ budget' = BudgetPerLoop
        /\ now_sec' = -1
    BY <1>5 DEF DeliverRecord, InjectDone, DrainThen, NodeDbRecords
  <2> QED BY <1>b, <2>1 DEF At
<1> QED BY <1>1, <1>2, <1>3, <1>4, <1>5 DEF Inject

(* What meshtastic_router_process_lora_rx() leaves alone, and what it does to the
   publish queue *)
LEMMA LoRaRxThread ==
  ASSUME NEW k \in Key, NEW via \in BOOLEAN, k \in Far => via, LoRaRx(k, via)
  PROVE  /\ UNCHANGED <<at, ret, budget, entry, now_sec>>
         /\ pubq' = pubq \/ (k \in Uplinked /\ (Put(k) \/ pubq' = MakeRoom))
<1>1. UNCHANGED <<at, ret, budget, entry>>
  BY DEF LoRaRx, threadVars
<1>2. now_sec' = now_sec
  BY DEF LoRaRx, NodeDbOnPacket, nodeDbVars
<1>3. pubq' = pubq \/ (k \in Uplinked /\ (Put(k) \/ pubq' = MakeRoom))
  <2>1. pubq' = pubq \/ Uplink(k, via)
    BY DEF LoRaRx
  <2> QED BY <2>1 DEF Uplink, QueueUplink, Uplinked, Key
<1> QED BY <1>1, <1>2, <1>3

(* Every step keeps where the MQTT thread is and what it holds there. *)
LEMMA NextThreadType == IInv /\ PInv /\ LInv /\ ThreadType /\ [Next]_vars => ThreadType'
<1> SUFFICES ASSUME IInv, PInv, LInv, ThreadType, [Next]_vars PROVE ThreadType'
  OBVIOUS
<1>a. ASSUME UNCHANGED <<at, budget, entry, now_sec>>,
             pubq' = pubq \/ \E e \in Uplinked : Put(e) \/ pubq' = MakeRoom
      PROVE  ThreadType'
  <2>1. Len(pubq') <= PublishQueueSize
    BY <1>a, PutBound DEF ThreadType, PInv
  <2> QED BY <1>a, <2>1 DEF ThreadType
<1>1. CASE Session
  BY <1>1, SessionThreadType
<1>2. CASE Network
  BY <1>2 DEF Network, NetAdd, NetDel, threadVars, gatewayVars, nodeDbVars, ThreadType
<1>3. CASE Inject
  BY <1>3, InjectThreadType
<1>4. CASE Receive
  <2>1. ASSUME NEW k \in Near, LoRaRx(k, FALSE) PROVE ThreadType'
    <3>1. k \in Key /\ k \notin Far
      BY GatewayAssumption DEF Key
    <3> QED BY <1>a, <2>1, <3>1, LoRaRxThread, Zenon
  <2>2. ASSUME NEW f \in air, LoRaRx(f.key, f.via_mqtt) PROVE ThreadType'
    <3>1. f.key \in Key /\ f.via_mqtt \in BOOLEAN /\ (f.key \in Far => f.via_mqtt)
      BY DEF PInv
    <3> QED BY <1>a, <2>2, <3>1, LoRaRxThread
  <2> QED BY <1>4, <2>1, <2>2, Zenon DEF Receive
<1>5. ASSUME NEW k \in Own, SendOwn(k) PROVE ThreadType'
  <2>1. k \in Uplinked
    BY DEF Uplinked
  <2>2. pubq' = pubq \/ Put(k) \/ pubq' = MakeRoom
    BY <1>5 DEF SendOwn, QueueUplink
  <2>3. UNCHANGED <<at, budget, entry, now_sec>>
    BY <1>5 DEF SendOwn, threadVars, nodeDbVars
  <2> QED BY <1>a, <2>1, <2>2, <2>3
<1>6. CASE UNCHANGED vars
  BY <1>6 DEF vars, mqttVars, nodeDbVars, ThreadType
<1> QED BY <1>1, <1>2, <1>3, <1>4, <1>5, <1>6 DEF Next

-----------------------------------------------------------------------------
(* The duplicate cache *)

SlotType == [src : Node \cup {0}, id : Nat]

CacheType ==
  /\ dup_head \in Index /\ dup_cache \in [Index -> SlotType]
  /\ Adding => inject.heads \subseteq Index

(* An empty cache is a cache, and nothing was added to it. *)
LEMMA InitCache == Init => CacheType /\ CacheState
<1> SUFFICES ASSUME Init PROVE CacheType /\ CacheState
  OBVIOUS
<1>1. /\ dup_cache = [i \in Index |-> NoKey] /\ dup_head = 0 /\ recent = <<>>
      /\ clean = CacheSize /\ at = "top" /\ CacheSize \in Nat \ {0}
  BY GatewayAssumption DEF Init, MqttInit
<1>2. 0 \in Index /\ NoKey \in SlotType /\ ~Adding
  BY <1>1 DEF Index, NoKey, SlotType, Adding
<1>3. CacheType
  BY <1>1, <1>2 DEF CacheType
<1>4. Writing /\ recent \in Seq(Key) /\ Len(recent) = 0
  BY <1>1, <1>2 DEF Writing
<1>5. InRing
  <2>1. \A j \in 1 .. CacheSize : Back(j) \in Index
    BY <1>1, <1>2, BackInRing
  <2> QED BY <1>1, <1>4, <2>1 DEF InRing
<1> QED BY <1>1, <1>3, <1>4, <1>5 DEF CacheState

(* The sizes, wherever the ring is in an addition *)
LEMMA CacheSizes ==
  ASSUME CacheState
  PROVE  /\ CacheSize \in Nat \ {0} /\ CacheSize \in Nat
         /\ recent \in Seq(Key) /\ Len(recent) <= CacheSize /\ Len(recent) \in Nat
         /\ clean \in 0 .. CacheSize /\ (clean < CacheSize => clean <= Len(recent))
<1>1. CacheSize \in Nat \ {0} /\ CacheSize \in Nat
  BY GatewayAssumption
<1>2. /\ recent \in Seq(Key) /\ Len(recent) <= CacheSize
      /\ clean \in 0 .. CacheSize /\ (clean < CacheSize => clean <= Len(recent))
  BY Zenon DEF CacheState
<1>3. Len(recent) \in Nat
  BY <1>2
<1> QED BY <1>1, <1>2, <1>3, Zenon

(* What the bookkeeping of an addition records *)
LEMMA AddedFacts ==
  ASSUME NEW k \in Key, NEW b \in BOOLEAN, Added(k, b),
         recent \in Seq(Key), Len(recent) <= CacheSize, clean \in 0 .. CacheSize,
         clean < CacheSize => clean <= Len(recent)
  PROVE  /\ recent' \in Seq(Key) /\ Len(recent') = Least(CacheSize, Len(recent) + 1)
         /\ recent'[1] = k
         /\ \A j \in 2 .. Len(recent') : recent'[j] = recent[j - 1]
         /\ clean' = (IF b THEN 0 ELSE Least(CacheSize, clean + 1))
         /\ clean' \in 0 .. CacheSize /\ (clean' < CacheSize => clean' <= Len(recent'))
<1>1. CacheSize \in Nat \ {0} /\ Len(recent) \in Nat
  BY GatewayAssumption
<1> DEFINE s == <<k>> \o recent
           n == Least(CacheSize, Len(recent) + 1)
<1>2. /\ s \in Seq(Key) /\ Len(s) = Len(recent) + 1 /\ s[1] = k
      /\ \A j \in 2 .. Len(s) : s[j] = recent[j - 1]
  OBVIOUS
<1>3. n \in 1 .. Len(s) /\ n \in Nat
  BY <1>1, <1>2 DEF Least
<1>4. recent' = SubSeq(s, 1, n)
  BY DEF Added
<1> HIDE DEF s, n
<1>5. /\ recent' \in Seq(Key) /\ Len(recent') = n
      /\ \A j \in 1 .. n : recent'[j] = s[j]
  BY <1>2, <1>3, <1>4
<1>6. recent'[1] = k /\ \A j \in 2 .. n : recent'[j] = recent[j - 1]
  BY <1>2, <1>3, <1>5
<1>7. clean' = IF b THEN 0 ELSE Least(CacheSize, clean + 1)
  BY DEF Added
<1>8. clean' \in 0 .. CacheSize /\ (clean' < CacheSize => clean' <= n)
  BY <1>1, <1>7 DEF n, Least
<1> QED BY <1>5, <1>6, <1>7, <1>8 DEF n

(* A dup_add() that nothing interrupted: k is in the slot behind dup_head, and
   every other packet one slot further back. *)
LEMMA AdditionInRing ==
  ASSUME CacheType, CacheState, NEW k \in Key, Added(k, FALSE),
         dup_head' = Next1(dup_head), dup_cache'[dup_head] = k,
         \A i \in Index : i # dup_head => dup_cache'[i] = dup_cache[i]
  PROVE  InRing'
<1>1. /\ CacheSize \in Nat \ {0} /\ dup_head \in Index
      /\ recent \in Seq(Key) /\ Len(recent) <= CacheSize /\ Len(recent) \in Nat
      /\ clean \in 0 .. CacheSize /\ (clean < CacheSize => clean <= Len(recent))
  BY CacheSizes, Zenon DEF CacheType
<1>2. /\ Len(recent') = Least(CacheSize, Len(recent) + 1) /\ recent'[1] = k
      /\ \A j \in 2 .. Len(recent') : recent'[j] = recent[j - 1]
      /\ clean' = Least(CacheSize, clean + 1)
  BY <1>1, AddedFacts, Zenon
<1>3. /\ Back(1)' = dup_head /\ \A j \in 2 .. CacheSize : Back(j)' = Back(j - 1)
      /\ \A j \in 1 .. CacheSize : Back(j) \in Index /\ (Back(j) = dup_head <=> j = CacheSize)
  BY <1>1, BackShifts, BackInRing, Zenon
<1> SUFFICES ASSUME NEW j \in 1 .. CacheSize
             PROVE  /\ j <= clean' /\ j <= Len(recent') => dup_cache'[Back(j)'] = recent'[j]
                    /\ clean' = CacheSize /\ j > Len(recent') => dup_cache'[Back(j)'] = NoKey
  BY DEF InRing
<1>4. CASE j = 1
  <2>1. Len(recent') >= 1
    BY <1>1, <1>2 DEF Least
  <2> QED BY <1>1, <1>2, <1>3, <1>4, <2>1
<1>5. CASE j # 1
  <2>1. j - 1 \in 1 .. CacheSize /\ j - 1 < CacheSize /\ j \in 2 .. CacheSize
    BY <1>1, <1>5
  <2>2. dup_cache'[Back(j)'] = dup_cache[Back(j - 1)]
    BY <1>3, <2>1
  <2>3. /\ j - 1 <= clean /\ j - 1 <= Len(recent) => dup_cache[Back(j - 1)] = recent[j - 1]
        /\ clean = CacheSize /\ j - 1 > Len(recent) => dup_cache[Back(j - 1)] = NoKey
    BY <2>1, Zenon DEF CacheState, InRing
  <2>4. ASSUME j <= clean', j <= Len(recent') PROVE dup_cache'[Back(j)'] = recent'[j]
    <3>1. j - 1 <= clean /\ j - 1 <= Len(recent) /\ recent'[j] = recent[j - 1]
      BY <1>1, <1>2, <2>1, <2>4 DEF Least
    <3> QED BY <2>2, <2>3, <3>1, Zenon
  <2>5. ASSUME clean' = CacheSize, j > Len(recent') PROVE dup_cache'[Back(j)'] = NoKey
    <3>1. Len(recent') = Len(recent) + 1 /\ Len(recent) + 1 < CacheSize
      BY <1>1, <1>2, <2>1, <2>5 DEF Least
    <3>2. clean = CacheSize
      BY <1>1, <1>2, <2>5, <3>1 DEF Least
    <3>3. j - 1 > Len(recent)
      BY <1>1, <2>1, <2>5, <3>1
    <3> QED BY <2>2, <2>3, <3>2, <3>3, Zenon
  <2> QED BY <2>4, <2>5
<1> QED BY <1>4, <1>5, Zenon

(* An interrupted addition leaves nothing to say about the ring. *)
LEMMA InterruptedInRing ==
  ASSUME NEW k, Added(k, TRUE)
  PROVE  InRing' /\ clean' = 0
<1>1. clean' = 0 /\ CacheSize \in Nat \ {0}
  BY GatewayAssumption DEF Added
<1> QED BY <1>1 DEF InRing

(* A step that adds nothing *)
LEMMA NoAddition ==
  ASSUME CacheState, UNCHANGED <<recent, clean>>, Writing', InRing'
  PROVE  CacheState'
  BY DEF CacheState

(* meshtastic_router_process_lora_rx(): dup_add() in one go, possibly in the middle
   of another one *)
LEMMA LoRaRxCache ==
  ASSUME CacheType, CacheState, NEW k \in Key, NEW via, LoRaRx(k, via)
  PROVE  CacheType' /\ CacheState'
<1>0. UNCHANGED threadVars
  BY Zenon DEF LoRaRx
<1>1. at' = at /\ Adding' = Adding
  BY <1>0, Zenon DEF threadVars, Adding
<1>2. CASE UNCHANGED <<pubq, nodeDbVars, cacheVars, inject, air>>
  <2>1. UNCHANGED <<cacheVars, inject>>
    BY <1>2
  <2> QED BY <1>1, <2>1 DEF cacheVars, CacheType, CacheState, Writing, InRing, Back
<1>3. CASE DupAdd(k) /\ inject' = IF Adding THEN Interrupted ELSE inject
  <2>1. /\ dup_cache \in [Index -> SlotType] /\ dup_head \in Index
        /\ dup_cache' = [dup_cache EXCEPT ![dup_head] = k] /\ dup_head' = Next1(dup_head)
        /\ Added(k, Adding) /\ Adding \in BOOLEAN
    <3>1. dup_cache \in [Index -> SlotType] /\ dup_head \in Index
      BY Zenon DEF CacheType
    <3>2. Adding \in BOOLEAN
      BY DEF Adding
    <3> QED BY <1>3, <3>1, <3>2, Zenon DEF DupAdd
  <2>2. k \in SlotType
    BY GatewayAssumption DEF SlotType
  <2>3. dup_cache' \in [Index -> SlotType] /\ dup_head' \in Index
    BY <2>1, <2>2, NextInRing
  <2>4. Adding' => inject'.heads \subseteq Index
    BY <1>1, <1>3, <2>3 DEF Interrupted, CacheType
  <2>5. /\ recent' \in Seq(Key) /\ Len(recent') <= CacheSize
        /\ clean' \in 0 .. CacheSize /\ (clean' < CacheSize => clean' <= Len(recent'))
    <3>1. /\ recent' \in Seq(Key) /\ Len(recent') = Least(CacheSize, Len(recent) + 1)
          /\ clean' \in 0 .. CacheSize /\ (clean' < CacheSize => clean' <= Len(recent'))
      BY <2>1, CacheSizes, AddedFacts, Zenon
    <3>2. CacheSize \in Nat /\ Len(recent) \in Nat
      BY CacheSizes, Zenon
    <3> QED BY <3>1, <3>2 DEF Least
  <2>6. CASE Adding
    <3>1. inject'.interrupted /\ clean' = 0 /\ InRing'
      BY <1>3, <2>1, <2>6, InterruptedInRing, Zenon DEF Interrupted
    <3> QED BY <2>3, <2>4, <2>5, <3>1 DEF CacheType, CacheState, Writing
  <2>7. CASE ~Adding
    <3>1. Added(k, FALSE)
      BY <2>1, <2>7, Zenon
    <3>2. InRing'
      BY <2>1, <3>1, AdditionInRing, Zenon
    <3> QED BY <1>1, <2>3, <2>4, <2>5, <2>7, <3>2 DEF CacheType, CacheState, Writing
  <2> QED BY <2>6, <2>7, Zenon
<1> QED BY <1>2, <1>3, Zenon DEF LoRaRx

(* One of the writes of a dup_add() that may be interrupted *)
LEMMA DupWriteCache ==
  ASSUME CacheType, CacheState, Adding, inject.key \in Key,
         NEW part \in {"src", "id"}, NEW next \in {"dup_id", "dup_head"}, DupWrite(part, next),
         part = "src" => next = "dup_id",
         part = "id" => at = "dup_id"
  PROVE  CacheType' /\ CacheState'
<1>1. PICK h \in inject.heads : dup_cache' = [dup_cache EXCEPT ![h] = Torn(@, inject.key, part)]
  BY Zenon DEF DupWrite
<1>2. /\ UNCHANGED <<dup_head, recent, clean, inject>> /\ at' = next
  BY Zenon DEF DupWrite, Goto
<1>3. /\ h \in Index /\ dup_cache[h] \in SlotType /\ inject.key \in SlotType
      /\ dup_cache \in [Index -> SlotType] /\ dup_head \in Index
  BY GatewayAssumption, Zenon DEF CacheType, SlotType
<1>4. Torn(dup_cache[h], inject.key, part) \in SlotType
  BY <1>3, Zenon DEF Torn, SlotType
<1>5. CacheType'
  BY <1>2, <1>1, <1>3, <1>4 DEF CacheType, Adding
<1>6. CASE inject.interrupted
  <2>1. clean = 0 /\ CacheSize \in Nat \ {0}
    BY <1>6, CacheSizes DEF CacheState, Writing
  <2>2. Writing' /\ InRing'
    <3>1. Writing'
      BY <1>2, <1>6, <2>1, Zenon DEF Writing
    <3>2. InRing'
      BY <1>2, <2>1 DEF InRing
    <3> QED BY <3>1, <3>2
  <2> QED BY <1>2, <1>5, <2>2, NoAddition, Zenon
<1>7. CASE ~inject.interrupted
  <2>1. /\ inject.heads = {dup_head}
        /\ at # "dup_src" => dup_cache[dup_head].src = inject.key.src
    <3>1. Writing
      BY Zenon DEF CacheState
    <3> QED BY <1>7, <3>1, Zenon DEF Writing
  <2>2. /\ h = dup_head /\ dup_cache'[dup_head] = Torn(dup_cache[dup_head], inject.key, part)
        /\ \A i \in Index : i # dup_head => dup_cache'[i] = dup_cache[i]
    BY <1>1, <1>3, <2>1, Zenon
  <2>3. /\ dup_cache'[dup_head].src = inject.key.src
        /\ next = "dup_head" => dup_cache'[dup_head].id = inject.key.id
    BY <2>1, <2>2 DEF Torn
  <2>4. Writing'
    BY <1>2, <1>7, <2>1, <2>3, Zenon DEF Writing
  <2>5. InRing'
    <3> SUFFICES ASSUME NEW j \in 1 .. CacheSize, j < CacheSize \/ ~Adding'
                 PROVE  /\ j <= clean' /\ j <= Len(recent)' => dup_cache'[Back(j)'] = recent'[j]
                        /\ clean' = CacheSize /\ j > Len(recent)' => dup_cache'[Back(j)'] = NoKey
      BY Zenon DEF InRing
    <3>1. Adding'
      BY <1>2, Zenon DEF Adding
    <3>2. Back(j)' = Back(j)
      BY <1>2, Zenon DEF Back
    <3>3. Back(j) \in Index /\ (Back(j) = dup_head <=> j = CacheSize) /\ CacheSize \in Nat
      BY <1>3, BackInRing, CacheSizes, Zenon
    <3>4. j < CacheSize /\ j # CacheSize
      BY <3>1, <3>3
    <3>5. dup_cache'[Back(j)] = dup_cache[Back(j)]
      BY <2>2, <3>3, <3>4, Zenon
    <3>6. InRing
      BY Zenon DEF CacheState
    <3>7. /\ j <= clean /\ j <= Len(recent) => dup_cache[Back(j)] = recent[j]
          /\ clean = CacheSize /\ j > Len(recent) => dup_cache[Back(j)] = NoKey
      BY <3>4, <3>6, Zenon DEF InRing
    <3> QED BY <1>2, <3>2, <3>5, <3>7, Zenon
  <2> QED BY <1>2, <1>5, <2>4, <2>5, NoAddition, Zenon
<1> QED BY <1>6, <1>7

(* The last write of a dup_add() that may be interrupted *)
LEMMA DupHeadCache ==
  ASSUME CacheType, CacheState, inject.key \in Key, DupHead
  PROVE  CacheType' /\ CacheState'
<1>1. PICK h \in inject.heads : dup_head' = Next1(h)
  BY Zenon DEF DupHead
<1>2. /\ at = "dup_head" /\ at' = "relay" /\ dup_cache' = dup_cache
      /\ Added(inject.key, inject.interrupted)
  BY DEF DupHead, Goto
<1>3. Adding /\ ~Adding'
  BY <1>2, Zenon DEF Adding
<1>4. CacheType'
  BY <1>1, <1>2, <1>3, NextInRing DEF CacheType
<1>5. Writing'
  BY <1>3 DEF Writing
<1>6. /\ CacheSize \in Nat /\ Len(recent) \in Nat /\ recent \in Seq(Key)
      /\ Len(recent) <= CacheSize /\ clean \in 0 .. CacheSize
      /\ clean < CacheSize => clean <= Len(recent)
  BY CacheSizes, Zenon
<1>7. ASSUME NEW b \in BOOLEAN, Added(inject.key, b)
      PROVE  /\ recent' \in Seq(Key) /\ Len(recent') <= CacheSize
             /\ clean' \in 0 .. CacheSize /\ (clean' < CacheSize => clean' <= Len(recent'))
  <2>1. /\ recent' \in Seq(Key) /\ Len(recent') = Least(CacheSize, Len(recent) + 1)
        /\ clean' \in 0 .. CacheSize /\ (clean' < CacheSize => clean' <= Len(recent'))
    BY <1>6, <1>7, AddedFacts
  <2> QED BY <1>6, <2>1 DEF Least
<1>8. CASE inject.interrupted
  <2>1. Added(inject.key, TRUE)
    BY <1>2, <1>8 DEF Added
  <2> QED BY <1>4, <1>5, <1>7, <2>1, InterruptedInRing, Zenon DEF CacheState
<1>9. CASE ~inject.interrupted
  <2>1. Added(inject.key, FALSE)
    BY <1>2, <1>9 DEF Added
  <2>2. /\ inject.heads = {dup_head} /\ dup_head \in Index
        /\ dup_cache[dup_head].src = inject.key.src /\ dup_cache[dup_head].id = inject.key.id
    <3>1. Writing /\ dup_head \in Index
      BY Zenon DEF CacheState, CacheType
    <3> QED BY <1>2, <1>3, <1>9, <3>1, Zenon DEF Writing
  <2>3. dup_cache[dup_head] = inject.key
    <3>1. dup_cache[dup_head] \in SlotType /\ inject.key \in [src : Node, id : Nat]
      BY <2>2, GatewayAssumption DEF CacheType
    <3> QED BY <2>2, <3>1 DEF SlotType
  <2>4. InRing'
    BY <1>1, <1>2, <2>1, <2>2, <2>3, AdditionInRing, Zenon
  <2> QED BY <1>4, <1>5, <1>7, <2>1, <2>4, Zenon DEF CacheState
<1> QED BY <1>8, <1>9

(* A step that leaves the cache alone, and the dup_add() in progress *)
LEMMA OutsideCache ==
  ASSUME CacheType, CacheState, UNCHANGED cacheVars,
         \/ UNCHANGED <<at, inject>>
         \/ at \notin {"dup_src", "dup_id", "dup_head"} /\ ~Adding'
  PROVE  CacheType' /\ CacheState'
<1>1. UNCHANGED <<dup_cache, dup_head, recent, clean>> /\ \A j : Back(j)' = Back(j)
  BY DEF cacheVars, Back
<1>2. Adding' = Adding /\ (Adding => UNCHANGED <<at, inject>>)
  BY DEF Adding
<1>3. CacheType'
  BY <1>1, <1>2 DEF CacheType
<1>4. Writing'
  <2>1. Writing
    BY Zenon DEF CacheState
  <2> QED BY <1>1, <1>2, <2>1, Zenon DEF Writing
<1>5. InRing'
  BY <1>1, <1>2 DEF CacheState, InRing
<1> QED BY <1>1, <1>3, <1>4, <1>5, NoAddition

(* mqtt_handle_publish() finds a packet that is not in the cache: dup_add() begins
   at the present dup_head. *)
LEMMA DownlinkCache ==
  ASSUME CacheType, CacheState, NEW k, Downlink(k)
  PROVE  CacheType' /\ CacheState'
<1>1. UNCHANGED cacheVars /\ at = "process" /\ ~Adding
  BY DEF Downlink, Adding
<1>2. CASE InjectDone
  <2>1. ~Adding'
    BY <1>2 DEF InjectDone, DrainThen, Adding
  <2> QED BY <1>1, <2>1, OutsideCache DEF Adding
<1>3. CASE inject' = [key |-> k, heads |-> {dup_head}, interrupted |-> FALSE] /\ Goto("dup_src")
  <2>1. UNCHANGED <<dup_cache, dup_head, recent, clean>> /\ \A j : Back(j)' = Back(j)
    BY <1>1 DEF cacheVars, Back
  <2>2. at' = "dup_src" /\ inject'.heads = {dup_head} /\ ~inject'.interrupted
    BY <1>3, Zenon DEF Goto
  <2>3. CacheType'
    BY <2>1, <2>2 DEF CacheType
  <2>4. Writing'
    BY <2>1, <2>2 DEF Writing
  <2>5. InRing'
    BY <1>1, <2>1 DEF CacheState, InRing
  <2> QED BY <2>1, <2>3, <2>4, <2>5, NoAddition
<1> QED BY <1>2, <1>3 DEF Downlink

(* Every step keeps the order of the cache. *)
LEMMA NextCache == PInv /\ CacheType /\ CacheState /\ [Next]_vars => CacheType' /\ CacheState'
<1> SUFFICES ASSUME PInv, CacheType, CacheState, [Next]_vars PROVE CacheType' /\ CacheState'
  OBVIOUS
<1>1. CASE Session
  <2>1. UNCHANGED <<cacheVars, inject>>
    BY <1>1 DEF Session, gatewayVars
  <2>2. /\ at \notin {"dup_src", "dup_id", "dup_head"}
        /\ at' \notin {"dup_src", "dup_id", "dup_head"}
    <3>1. at \in At /\ at' \notin InjectAt
      <4>1. ret \in Ret
        BY DEF PInv
      <4> QED BY <1>1, <4>1 DEF Session, MqttThread, HandleDisconnectPending, Choose, ConnAck,
                 ConnectFails, Subscribe, Drain, Publish, ProcessNothing, ProcessFails,
                 PerhapsReportToMap, DrainThen, At, InjectAt, Ret
    <3> QED BY <3>1, Zenon DEF At, InjectAt
  <2> QED BY <2>1, <2>2, OutsideCache DEF Adding
<1>2. CASE Network
  <2>1. UNCHANGED <<cacheVars, inject, at>>
    BY <1>2 DEF Network, NetAdd, NetDel, threadVars, gatewayVars
  <2> QED BY <2>1, OutsideCache
<1>3. CASE Inject
  <2>1. ASSUME NEW k \in Near \cup Far, Downlink(k) PROVE CacheType' /\ CacheState'
    BY <2>1, DownlinkCache
  <2>2. at \in InjectAt => inject.key \in Key
    BY DEF PInv, Key
  <2>3. CASE DupSrc
    BY <2>2, <2>3, DupWriteCache DEF DupSrc, Adding, InjectAt
  <2>4. CASE DupId
    BY <2>2, <2>4, DupWriteCache, Zenon DEF DupId, Adding, InjectAt
  <2>5. CASE DupHead
    BY <2>2, <2>5, DupHeadCache, Zenon DEF DupHead, InjectAt
  <2>6. CASE Relay \/ DeliverClock \/ DeliverRecord
    <3>1. /\ UNCHANGED cacheVars /\ at \in {"relay", "clock", "record"}
          /\ at' \in {"clock", "record", "drain"}
      BY <2>6 DEF Relay, DeliverClock, DeliverRecord, Goto, InjectDone, DrainThen
    <3> QED BY <3>1, OutsideCache, Zenon DEF Adding
  <2> QED BY <1>3, <2>1, <2>3, <2>4, <2>5, <2>6 DEF Inject
<1>4. CASE Receive
  <2>1. ASSUME NEW k \in Near, LoRaRx(k, FALSE) PROVE CacheType' /\ CacheState'
    BY <2>1, LoRaRxCache, Zenon DEF Key
  <2>2. ASSUME NEW f \in air, LoRaRx(f.key, f.via_mqtt) PROVE CacheType' /\ CacheState'
    <3>1. f.key \in Key
      BY DEF PInv
    <3> QED BY <2>2, <3>1, LoRaRxCache
  <2> QED BY <1>4, <2>1, <2>2, Zenon DEF Receive
<1>5. ASSUME NEW k \in Own, SendOwn(k) PROVE CacheType' /\ CacheState'
  <2>1. UNCHANGED <<cacheVars, inject, at>>
    BY <1>5 DEF SendOwn, threadVars
  <2> QED BY <2>1, OutsideCache
<1>6. CASE UNCHANGED vars
  <2>1. UNCHANGED <<cacheVars, inject, at>>
    BY <1>6 DEF vars, mqttVars
  <2> QED BY <2>1, OutsideCache
<1> QED BY <1>1, <1>2, <1>3, <1>4, <1>5, <1>6 DEF Next

(* dup_add() without a lock (meshtastic_router.c): whatever an interrupted one has
   done to the cache, what is added afterwards is found by dup_check(), for
   every size of the cache, until it is CacheSize additions old. *)
THEOREM CacheRecovers == Spec => []CacheHeals
<1>1. CacheType /\ CacheState => CacheHeals
  <2> SUFFICES ASSUME CacheType, CacheState, ~Adding PROVE CacheHeals
    BY DEF CacheHeals
  <2>1. /\ dup_head \in Index /\ CacheSize \in Nat \ {0} /\ Len(recent) \in Nat
        /\ clean \in 0 .. CacheSize /\ Len(recent) <= CacheSize
    BY CacheSizes, Zenon DEF CacheType
  <2>2. \A j \in 1 .. CacheSize :
          /\ j <= clean /\ j <= Len(recent) => dup_cache[Back(j)] = recent[j]
          /\ clean = CacheSize /\ j > Len(recent) => dup_cache[Back(j)] = NoKey
    BY DEF CacheState, InRing
  <2>3. ASSUME NEW j \in 1 .. Least(clean, Len(recent)) PROVE DupCheck(recent[j])
    <3>1. j \in 1 .. CacheSize /\ j <= clean /\ j <= Len(recent)
      BY <2>1 DEF Least
    <3>2. Back(j) \in Index /\ dup_cache[Back(j)] = recent[j]
      BY <2>1, <2>2, <3>1, BackInRing
    <3> QED BY <3>2 DEF DupCheck
  <2>4. ASSUME clean = CacheSize, NEW i \in Index
        PROVE  dup_cache[i] = NoKey \/ \E j \in 1 .. Len(recent) : recent[j] = dup_cache[i]
    <3>1. PICK j \in 1 .. CacheSize : Back(j) = i
      BY <2>1, BackInRing, Zenon
    <3>2. CASE j <= Len(recent)
      BY <2>1, <2>2, <2>4, <3>1, <3>2
    <3>3. CASE j > Len(recent)
      BY <2>1, <2>2, <2>4, <3>1, <3>3
    <3> QED BY <2>1, <3>2, <3>3
  <2> QED BY <2>3, <2>4 DEF CacheHeals
<1> QED BY <1>1, InitPInv, NextPInv, InitCache, NextCache, PTL DEF Spec

(* The types of the gateway, its node database included *)
THEOREM GatewayTypeCorrect == Spec => []TypeOK
<1>1. NodeDbSpec => []IInv
  BY InitIInv, NextIInv, PTL DEF NodeDbSpec
<1>2. IInv /\ PInv /\ LInv /\ ThreadType /\ CacheType => TypeOK
  BY DEF IInv, PInv, LInv, ThreadType, CacheType, SlotType, InjectAt, TypeOK
<1> QED BY <1>1, <1>2, GatewayImplementsNodeDb, InitPInv, NextPInv, InitLInv, NextLInv,
           InitThreadType, NextThreadType, InitCache, NextCache, PTL DEF Spec
=============================================================================
