----------------------------- MODULE MeshProofs -----------------------------
(***************************************************************************)
(* The safety of Mesh.tla for every topology, set of messages, cache size, *)
(* number of retransmissions and of restarts.                              *)
(***************************************************************************)
EXTENDS Mesh, TLAPS

\* The broadcast address is no node, NoMsg is no message, and a node sends every message.
LEMMA Addresses == Broadcast \notin Node /\ NoMsg \notin Msg /\ \A x \in Msg : From[x] \in Node
  BY ConstantsAssumption DEF ConstantsAssumption

\* A transmission puts well-formed copies of its frame in the air.
LEMMA CopiesFacts ==
  ASSUME NEW n \in Node, NEW f \in Frame
  PROVE  /\ Copies(n, f) \subseteq [frame : Frame, at : Node]
         /\ \A c \in Copies(n, f) : c.frame = f
<1>1. Neighbour[n] \subseteq Node
  BY ConstantsAssumption DEF ConstantsAssumption
<1> QED
  BY <1>1 DEF Copies

\* The frame of a text message is well-formed.
LEMMA TextFrameType ==
  ASSUME NEW m \in Msg, NEW i \in Id
  PROVE  TextFrame(m, From[m], i) \in Frame
<1>1. From[m] \in Node /\ To[m] \in Node \cup {Broadcast} /\ HopLimit[From[m]] \in 0 .. 7
  BY ConstantsAssumption DEF ConstantsAssumption
<1>2. 0 \in 0 .. MaxId /\ (To[m] # Broadcast) \in BOOLEAN
  BY ConstantsAssumption DEF ConstantsAssumption
<1> QED
  BY <1>1, <1>2 DEF TextFrame, Frame

\* Replies have a hop limit of at most 7, so an acknowledgement is well-formed.
LEMMA AckFrameType ==
  ASSUME TypeOK, NEW n \in Node, NEW f \in Frame, next_id[n] <= MaxId
  PROVE  AckFrame(n, f) \in Frame
<1>1. /\ f.hop \in 0 .. 7 /\ f.start \in 0 .. 7 /\ f.id \in Id /\ f.src \in Node
      /\ HopLimit[n] \in 1 .. 7 /\ next_id[n] \in Id
  BY ConstantsAssumption DEF Frame, TypeOK, Id, ConstantsAssumption
<1>2. HopLimitForReply(HopLimit[n], f.hop, f.start) \in 0 .. 7
  BY <1>1 DEF HopLimitForReply
<1>3. SendHops(n, HopLimitForReply(HopLimit[n], f.hop, f.start)) \in 0 .. 7
  BY <1>1, <1>2 DEF SendHops
<1>4. AckWantsAck(n, f) \in BOOLEAN /\ f.id \in 0 .. MaxId
  BY <1>1 DEF AckWantsAck, Frame, Id
<1> QED
  BY <1>1, <1>3, <1>4 DEF AckFrame, Frame

\* What dup_add() does: the new key is remembered, every old one is remembered
\* or forgotten, and the ring keeps its size.
LEMMA DupAddFacts ==
  ASSUME TypeOK, NEW n \in Node, NEW k \in Key, DupAdd(n, k)
  PROVE  /\ dup' \in [Node -> Seq(Key)] /\ \A j \in Node : Len(dup'[j]) <= DupCacheSize
         /\ forgot' \in [Node -> SUBSET Key] /\ \A j \in Node : forgot[j] \subseteq forgot'[j]
         /\ Remembers(n, k)'
         /\ \A j \in Node : \A x : Remembers(j, x)' => Remembers(j, x) \/ (j = n /\ x = k)
         /\ \A j \in Node : \A x : Remembers(j, x) => Remembers(j, x)' \/ x \in forgot'[j]
<1>0. /\ dup \in [Node -> Seq(Key)] /\ \A j \in Node : Len(dup[j]) <= DupCacheSize
      /\ forgot \in [Node -> SUBSET Key]
  BY DEF TypeOK
<1>1. CASE Len(dup[n]) < DupCacheSize
  <2>1. dup' = [dup EXCEPT ![n] = Append(dup[n], k)] /\ forgot' = forgot
    BY <1>1 DEF DupAdd
  <2>2. /\ Append(dup[n], k) \in Seq(Key) /\ Len(Append(dup[n], k)) = Len(dup[n]) + 1
        /\ \A i \in 1 .. Len(dup[n]) : Append(dup[n], k)[i] = dup[n][i]
        /\ Append(dup[n], k)[Len(dup[n]) + 1] = k /\ Len(dup[n]) \in Nat
    BY <1>0
  <2>3. dup'[n] = Append(dup[n], k) /\ \A j \in Node \ {n} : dup'[j] = dup[j]
    BY <2>1, <1>0
  <2> QED
    BY <2>1, <2>2, <2>3, <1>0, <1>1, ConstantsAssumption DEF Remembers, ConstantsAssumption
<1>2. CASE ~(Len(dup[n]) < DupCacheSize)
  <2>0. Len(dup[n]) = DupCacheSize /\ dup[n] # <<>>
    BY <1>0, <1>2, ConstantsAssumption DEF ConstantsAssumption
  <2>1. /\ dup' = [dup EXCEPT ![n] = Append(Tail(dup[n]), k)]
        /\ forgot' = [forgot EXCEPT ![n] = forgot[n] \cup {Head(dup[n])}]
    BY <1>2 DEF DupAdd
  <2>2. /\ Tail(dup[n]) \in Seq(Key) /\ Len(Tail(dup[n])) = Len(dup[n]) - 1
        /\ \A i \in 1 .. Len(Tail(dup[n])) : Tail(dup[n])[i] = dup[n][i + 1]
        /\ Head(dup[n]) = dup[n][1] /\ Head(dup[n]) \in Key
    BY <1>0, <2>0
  <2>3. /\ Append(Tail(dup[n]), k) \in Seq(Key)
        /\ Len(Append(Tail(dup[n]), k)) = Len(dup[n])
        /\ \A i \in 1 .. Len(dup[n]) - 1 : Append(Tail(dup[n]), k)[i] = dup[n][i + 1]
        /\ Append(Tail(dup[n]), k)[Len(dup[n])] = k
    BY <2>2, <2>0
  <2>4. dup'[n] = Append(Tail(dup[n]), k) /\ \A j \in Node \ {n} : dup'[j] = dup[j]
    BY <2>1, <1>0
  <2>5. ASSUME NEW x, Remembers(n, x) PROVE Remembers(n, x)' \/ x \in forgot'[n]
    <3>1. PICK i \in 1 .. Len(dup[n]) : dup[n][i] = x
      BY <2>5 DEF Remembers
    <3>2. CASE i = 1
      BY <3>1, <3>2, <2>1, <2>2, <1>0
    <3>3. CASE i # 1
      <4>1. i - 1 \in 1 .. Len(dup[n]) - 1 /\ (i - 1) + 1 = i
        BY <3>3, <2>0
      <4>2. dup'[n][i - 1] = x
        BY <4>1, <2>3, <2>4, <3>1
      <4>3. i - 1 \in 1 .. Len(dup'[n])
        BY <4>1, <2>3, <2>4, <2>0
      <4> QED
        BY <4>2, <4>3, Zenon DEF Remembers
    <3> QED
      BY <3>2, <3>3
  <2>6. ASSUME NEW x, Remembers(n, x)' PROVE Remembers(n, x) \/ x = k
    <3>1. PICK i \in 1 .. Len(dup[n]) : dup'[n][i] = x
      BY <2>6, <2>3, <2>4 DEF Remembers
    <3> QED
      BY <3>1, <2>3, <2>4, <2>0 DEF Remembers
  <2>7. Remembers(n, k)'
    BY <2>3, <2>4, <2>0 DEF Remembers
  <2>8. ASSUME NEW j \in Node \ {n}, NEW x PROVE Remembers(j, x)' <=> Remembers(j, x)
    BY <2>4 DEF Remembers
  <2>9. /\ dup' \in [Node -> Seq(Key)] /\ \A j \in Node : Len(dup'[j]) <= DupCacheSize
        /\ forgot' \in [Node -> SUBSET Key] /\ \A j \in Node : forgot[j] \subseteq forgot'[j]
    BY <2>1, <2>2, <2>3, <2>4, <2>0, <1>0
  <2> QED
    BY <2>5, <2>6, <2>7, <2>8, <2>9, Zenon
<1> QED
  BY <1>1, <1>2
-----------------------------------------------------------------------------
(* Receiving *)

\* A copy of f is processed at n, as in Receive.
Arrives(n, f) ==
  /\ NeedsAck(n, f) => next_id[n] <= MaxId
  /\ ReceiveDuplicate(n, f) \/ ReceiveNew(n, f)
  /\ UNCHANGED <<id, left, restarts>>

\* The duplicate ring after a reception: only the key of a new packet enters it.
LEMMA ArrivesRing ==
  ASSUME TypeOK, NEW n \in Node, NEW f \in Frame, Arrives(n, f)
  PROVE  /\ dup' \in [Node -> Seq(Key)] /\ \A j \in Node : Len(dup'[j]) <= DupCacheSize
         /\ forgot' \in [Node -> SUBSET Key] /\ \A j \in Node : forgot[j] \subseteq forgot'[j]
         /\ \A j \in Node : \A x : Remembers(j, x)' =>
              Remembers(j, x) \/ (j = n /\ x = KeyOf(f) /\ ReceiveNew(n, f))
         /\ \A j \in Node : \A x : Remembers(j, x) => Remembers(j, x)' \/ x \in forgot'[j]
         /\ ReceiveNew(n, f) => Remembers(n, KeyOf(f))'
<1>1. KeyOf(f) \in Key
  BY DEF KeyOf, Key, Frame
<1>2. CASE ReceiveNew(n, f)
  <2>1. DupAdd(n, KeyOf(f))
    BY <1>2 DEF ReceiveNew
  <2>2. PICK k \in Key : k = KeyOf(f)
    BY <1>1
  <2>3. DupAdd(n, k)
    BY <2>1, <2>2
  <2>4. /\ dup' \in [Node -> Seq(Key)] /\ \A j \in Node : Len(dup'[j]) <= DupCacheSize
        /\ forgot' \in [Node -> SUBSET Key] /\ \A j \in Node : forgot[j] \subseteq forgot'[j]
        /\ Remembers(n, k)'
        /\ \A j \in Node : \A x : Remembers(j, x)' => Remembers(j, x) \/ (j = n /\ x = k)
        /\ \A j \in Node : \A x : Remembers(j, x) => Remembers(j, x)' \/ x \in forgot'[j]
    BY <2>3, DupAddFacts
  <2> QED
    BY <1>2, <2>2, <2>4
<1>3. CASE ReceiveDuplicate(n, f) /\ ~ReceiveNew(n, f)
  <2>1. dup' = dup /\ forgot' = forgot
    BY <1>3 DEF ReceiveDuplicate
  <2>2. \A j \in Node : \A x : Remembers(j, x)' <=> Remembers(j, x)
    BY <2>1 DEF Remembers
  <2> QED
    BY <1>3, <2>1, <2>2 DEF TypeOK
<1> QED
  BY <1>2, <1>3 DEF Arrives

\* The delivery counts: a reception delivers at most its message, and only as new.
LEMMA ArrivesGot ==
  ASSUME TypeOK, NEW n \in Node, NEW f \in Frame, Arrives(n, f)
  PROVE  /\ got' \in [Node -> [Msg -> Nat]]
         /\ \A j \in Node, x \in Msg :
              \/ got'[j][x] = got[j][x]
              \/ /\ j = n /\ x = f.msg /\ f.msg # NoMsg /\ ReceiveNew(n, f)
                 /\ got'[j][x] = got[j][x] + 1
         /\ ReceiveNew(n, f) /\ n \notin Keyless /\ DeliversTo(n, f) /\ f.msg # NoMsg =>
              got'[n][f.msg] > 0
<1>1. got \in [Node -> [Msg -> Nat]] /\ (f.msg # NoMsg => f.msg \in Msg)
  BY DEF TypeOK, Frame
<1>2. CASE /\ got' = got
           /\ ~(ReceiveNew(n, f) /\ n \notin Keyless /\ DeliversTo(n, f) /\ f.msg # NoMsg)
  BY <1>1, <1>2
<1>3. CASE /\ f.msg # NoMsg /\ ReceiveNew(n, f)
           /\ got' = [got EXCEPT ![n][f.msg] = got[n][f.msg] + 1]
  <2>1. got[n][f.msg] \in Nat
    BY <1>1, <1>3
  <2>2. got' \in [Node -> [Msg -> Nat]]
    BY <1>1, <1>3, <2>1
  <2>3. \A j \in Node, x \in Msg :
          got'[j][x] = IF j = n /\ x = f.msg THEN got[n][f.msg] + 1 ELSE got[j][x]
    BY <1>1, <1>3
  <2> QED
    BY <1>1, <1>3, <2>1, <2>2, <2>3
<1>4. CASE ReceiveDuplicate(n, f)
  BY <1>2, <1>4, Zenon DEF ReceiveDuplicate, ReceiveNew
<1>5. CASE ReceiveNew(n, f)
  BY <1>2, <1>3, <1>5 DEF ReceiveNew, Decodes
<1> QED
  BY <1>4, <1>5 DEF Arrives

\* The relay counts: a reception relays at most its packet, and only as new.
LEMMA ArrivesRelays ==
  ASSUME TypeOK, NEW n \in Node, NEW f \in Frame, Arrives(n, f)
  PROVE  /\ relays' \in [Node -> [Key -> Nat]]
         /\ \A j \in Node, k \in Key :
              \/ relays'[j][k] = relays[j][k]
              \/ /\ j = n /\ k = KeyOf(f) /\ ReceiveNew(n, f)
                 /\ relays'[j][k] = relays[j][k] + 1
<1>1. relays \in [Node -> [Key -> Nat]]
  BY DEF TypeOK
<1>2. PICK y \in Key : y = KeyOf(f)
  BY Zenon DEF KeyOf, Key, Frame
<1>3. CASE relays' = relays
  BY <1>1, <1>3
<1>4. CASE ReceiveNew(n, f) /\ relays' = [relays EXCEPT ![n][y] = relays[n][y] + 1]
  <2>1. relays[n][y] \in Nat
    BY <1>1
  <2>2. relays' \in [Node -> [Key -> Nat]]
    BY <1>1, <1>4, <2>1
  <2>3. \A j \in Node, k \in Key :
          relays'[j][k] = IF j = n /\ k = y THEN relays[n][y] + 1 ELSE relays[j][k]
    BY <1>1, <1>4
  <2> QED
    BY <1>2, <1>4, <2>2, <2>3
<1>5. CASE ReceiveDuplicate(n, f)
  BY <1>3, <1>5, Zenon DEF ReceiveDuplicate
<1>6. CASE ReceiveNew(n, f)
  BY <1>2, <1>3, <1>4, <1>6 DEF ReceiveNew
<1> QED
  BY <1>5, <1>6 DEF Arrives

\* Statuses and packet IDs: a reception settles entries of n and takes at most
\* one ID, for the acknowledgement.
LEMMA ArrivesStatus ==
  ASSUME TypeOK, NEW n \in Node, NEW f \in Frame, Arrives(n, f)
  PROVE  /\ status' \in [Msg -> Status] /\ next_id' \in [Node -> 1 .. MaxId + 1]
         /\ \A x \in Msg : \/ status'[x] = status[x]
                           \/ status'[x] = "acked" /\ x \in Settled(n, f) /\ IsToUs(n, f)
         /\ \A k \in Node : next_id[k] <= next_id'[k]
<1>1. status \in [Msg -> Status] /\ next_id \in [Node -> 1 .. MaxId + 1]
  BY DEF TypeOK
<1>2. CASE status' = status /\ next_id' = next_id
  BY <1>1, <1>2
<1>3. CASE OnDecoded(n, f)
  <2>1. /\ status' \in [Msg -> Status]
        /\ \A x \in Msg : \/ status'[x] = status[x]
                          \/ status'[x] = "acked" /\ x \in Settled(n, f) /\ IsToUs(n, f)
    BY <1>1, <1>3 DEF OnDecoded, Status
  <2>2. CASE NeedsAck(n, f)
    <3>1. next_id[n] + 1 \in 1 .. MaxId + 1
      BY <1>1, <2>2, ConstantsAssumption DEF Arrives, ConstantsAssumption
    <3>2. next_id' = [next_id EXCEPT ![n] = next_id[n] + 1]
      BY <1>3, <2>2 DEF OnDecoded
    <3> QED
      BY <1>1, <2>1, <3>1, <3>2
  <2>3. CASE ~NeedsAck(n, f)
    BY <1>1, <1>3, <2>1, <2>3 DEF OnDecoded
  <2> QED
    BY <2>2, <2>3
<1> QED
  BY <1>2, <1>3 DEF Arrives, ReceiveDuplicate, ReceiveNew

\* The air: a reception adds a relay of its frame and an acknowledgement, the
\* latter only for a packet that is or was delivered.
LEMMA ArrivesAir ==
  ASSUME TypeOK, NEW n \in Node, NEW f \in Frame, Arrives(n, f), NEW d \in air'
  PROVE  \/ d \in air
         \/ /\ d \in Copies(n, AckFrame(n, f)) /\ NeedsAck(n, f) /\ n \notin Keyless
            /\ next_id'[n] = next_id[n] + 1 /\ next_id[n] <= MaxId
            /\ Remembers(n, KeyOf(f)) \/ ReceiveNew(n, f)
         \/ d \in Copies(n, [f EXCEPT !.hop = f.hop - 1]) /\ f.hop > 0
<1>1. OnDecoded(n, f) /\ NeedsAck(n, f) => next_id'[n] = next_id[n] + 1
  BY DEF OnDecoded, TypeOK
<1>2. d \in Relays(n, f) => d \in Copies(n, [f EXCEPT !.hop = f.hop - 1]) /\ f.hop > 0
  BY DEF Relays, MayRelay
<1>3. d \in Acks(n, f) => d \in Copies(n, AckFrame(n, f)) /\ NeedsAck(n, f)
  BY DEF Acks
<1>4. CASE ReceiveDuplicate(n, f)
  BY <1>1, <1>3, <1>4 DEF ReceiveDuplicate, Decodes, Arrives
<1>5. CASE ReceiveNew(n, f)
  BY <1>1, <1>2, <1>3, <1>5 DEF ReceiveNew, Decodes, Arrives
<1> QED
  BY <1>4, <1>5 DEF Arrives

\* meshtastic_router_process_lora_rx() keeps the invariant: an acknowledgement
\* is sent for a delivered message only, and settles no other.
LEMMA ReceiveIInv ==
  ASSUME IInv, NEW c \in air, Receive(c)
  PROVE  IInv'
<1>0. PICK n \in Node, f \in Frame : n = c.at /\ f = c.frame
  BY DEF IInv, TypeOK
<1>1. TypeOK /\ FrameTrue(f) /\ Arrives(n, f) /\ KeyOf(f) \in Key
  BY <1>0 DEF IInv, AirIsTrue, Receive, Arrives, KeyOf, Key, Frame
<1>2. id' = id /\ left' = left /\ restarts' = restarts
  BY <1>1 DEF Arrives
<1>3. /\ dup' \in [Node -> Seq(Key)] /\ \A j \in Node : Len(dup'[j]) <= DupCacheSize
      /\ forgot' \in [Node -> SUBSET Key] /\ \A j \in Node : forgot[j] \subseteq forgot'[j]
      /\ \A j \in Node : \A x : Remembers(j, x)' =>
           Remembers(j, x) \/ (j = n /\ x = KeyOf(f) /\ ReceiveNew(n, f))
      /\ \A j \in Node : \A x : Remembers(j, x) => Remembers(j, x)' \/ x \in forgot'[j]
      /\ ReceiveNew(n, f) => Remembers(n, KeyOf(f))'
  BY <1>1, ArrivesRing
<1>4. /\ got' \in [Node -> [Msg -> Nat]]
      /\ \A j \in Node, x \in Msg :
           \/ got'[j][x] = got[j][x]
           \/ /\ j = n /\ x = f.msg /\ f.msg # NoMsg /\ ReceiveNew(n, f)
              /\ got'[j][x] = got[j][x] + 1
      /\ ReceiveNew(n, f) /\ n \notin Keyless /\ DeliversTo(n, f) /\ f.msg # NoMsg =>
           got'[n][f.msg] > 0
  BY <1>1, ArrivesGot
<1>5. /\ relays' \in [Node -> [Key -> Nat]]
      /\ \A j \in Node, k \in Key :
           \/ relays'[j][k] = relays[j][k]
           \/ /\ j = n /\ k = KeyOf(f) /\ ReceiveNew(n, f)
              /\ relays'[j][k] = relays[j][k] + 1
  BY <1>1, ArrivesRelays
<1>6. /\ status' \in [Msg -> Status] /\ next_id' \in [Node -> 1 .. MaxId + 1]
      /\ \A x \in Msg : \/ status'[x] = status[x]
                        \/ status'[x] = "acked" /\ x \in Settled(n, f) /\ IsToUs(n, f)
      /\ \A k \in Node : next_id[k] <= next_id'[k]
  BY <1>1, ArrivesStatus
<1>7. /\ \A x \in Msg : id[x] \in 0 .. MaxId /\ From[x] \in Node
      /\ \A k \in Node : next_id[k] \in Nat /\ next_id'[k] \in Nat
      /\ \A j \in Node, x \in Msg : got[j][x] \in Nat /\ got'[j][x] \in Nat
      /\ \A j \in Node, k \in Key : relays[j][k] \in Nat /\ relays'[j][k] \in Nat
      /\ \A j \in Node, x \in Msg : got[j][x] > 0 => got'[j][x] > 0
  <2>1. \A x \in Msg : id[x] \in 0 .. MaxId /\ From[x] \in Node
    BY <1>1, ConstantsAssumption DEF TypeOK, ConstantsAssumption
  <2>2. next_id \in [Node -> 1 .. MaxId + 1]
    BY <1>1 DEF TypeOK
  <2>3. \A k \in Node : next_id[k] \in Nat /\ next_id'[k] \in Nat
    BY <2>2, <1>6
  <2>4. got \in [Node -> [Msg -> Nat]] /\ relays \in [Node -> [Key -> Nat]]
    BY <1>1 DEF TypeOK
  <2>5. \A j \in Node, x \in Msg : got[j][x] \in Nat /\ got'[j][x] \in Nat
    BY <2>4, <1>4
  <2>6. \A j \in Node, k \in Key : relays[j][k] \in Nat /\ relays'[j][k] \in Nat
    BY <2>4, <1>5
  <2>7. \A j \in Node, x \in Msg : got[j][x] > 0 => got'[j][x] > 0
    BY <2>5, <1>4
  <2> QED
    BY <2>1, <2>3, <2>5, <2>6, <2>7
<1>8. /\ f.src \in Node /\ f.id \in Id /\ f.id # 0 /\ f.request_id \in 0 .. MaxId
      /\ f.msg # NoMsg => f.msg \in Msg
  BY DEF Frame, Id
<1>h. Fresh(f.src) => f.id < next_id'[f.src]
  <2>1. Fresh(f.src) => f.id < next_id[f.src]
    BY <1>1 DEF FrameTrue
  <2> QED
    BY <2>1, <1>6, <1>7, <1>8 DEF Id
<1>9. ReceiveNew(n, f) => ~Remembers(n, KeyOf(f))
  BY Zenon DEF ReceiveNew
<1>10. f.msg # NoMsg => KeyOf(f) = <<From[f.msg], id[f.msg]>>
  BY <1>1 DEF FrameTrue, KeyOf
<1>11. ASSUME NEW g \in Frame, FrameTrue(g) PROVE FrameTrue(g)'
  <2>1. g.src \in Node /\ g.id \in Nat /\ g.request_id \in Nat
    BY DEF Frame, Id
  <2>0. /\ Fresh(g.src) => g.id < next_id[g.src]
        /\ g.request_id # 0 =>
             g.dest \in Node /\ (Fresh(g.dest) => g.request_id < next_id[g.dest])
    BY <1>11, Zenon DEF FrameTrue
  <2>2. Fresh(g.src) => g.id < next_id'[g.src]
    BY <2>0, <2>1, <1>6, <1>7
  <2>3. g.request_id # 0 => g.dest \in Node /\ (Fresh(g.dest) => g.request_id < next_id'[g.dest])
    BY <2>0, <2>1, <1>6, <1>7
  <2>4. ASSUME NEW x \in Msg, g.request_id # 0, id[x] = g.request_id, From[x] = g.dest,
               Fresh(g.dest)
        PROVE  To[x] \in Node /\ got'[To[x]][x] > 0
    BY <2>4, <1>11, <1>7, Zenon DEF FrameTrue, Delivered
  <2> QED
    BY <1>2, <1>11, <2>2, <2>3, <2>4 DEF FrameTrue, Fresh, Delivered
<1>12. ASSUME NEW x \in Msg, Fresh(f.src), From[x] = f.src, id[x] = f.id, f.dest = n,
              n \notin Keyless, Remembers(n, KeyOf(f)) \/ ReceiveNew(n, f)
       PROVE  To[x] \in Node /\ got'[To[x]][x] > 0
  <2>1. f.msg = x /\ x # NoMsg /\ To[x] = n
    BY <1>1, <1>12, Addresses DEF FrameTrue
  <2>2. CASE ReceiveNew(n, f)
    BY <2>1, <2>2, <1>4, <1>12 DEF DeliversTo
  <2>3. CASE Remembers(n, KeyOf(f))
    <3>1. KeyOf(f) = <<From[x], id[x]>> /\ id[x] # 0
      BY <1>8, <1>12 DEF KeyOf
    <3>2. got[n][x] > 0
      BY <2>1, <2>3, <3>1, <1>12, SMTT(60) DEF IInv, RememberedIsDelivered
    <3> QED
      BY <3>2, <2>1, <1>7
  <2> QED
    BY <1>12, <2>2, <2>3
<1>13. ASSUME NeedsAck(n, f), n \notin Keyless, next_id'[n] = next_id[n] + 1, next_id[n] <= MaxId,
              Remembers(n, KeyOf(f)) \/ ReceiveNew(n, f)
       PROVE  AckFrame(n, f) \in Frame /\ \A g : g = AckFrame(n, f) => FrameTrue(g)'
  <2>1. AckFrame(n, f) \in Frame
    BY <1>1, <1>13, AckFrameType
  <2>2. PICK g : g = AckFrame(n, f)
    BY Zenon
  <2>3. /\ g.src = n /\ g.dest = f.src /\ g.id = next_id[n] /\ g.request_id = f.id
        /\ g.msg = NoMsg
    BY <2>2 DEF AckFrame
  <2>4. g.id < next_id'[g.src]
    <3>1. next_id[n] \in Nat
      BY <1>7, Zenon
    <3> QED
      BY <3>1, <2>3, <1>13
  <2>5. Fresh(g.dest) => g.request_id < next_id'[g.dest]
    BY <2>3, <1>h, Zenon
  <2>6. ASSUME NEW x \in Msg, Fresh(g.src), From[x] = g.src, id[x] = g.id PROVE g.msg = x
    <3>1. id[x] < next_id[n]
      BY <2>3, <2>6 DEF IInv, IdsUsed
    <3>2. id[x] = next_id[n] /\ next_id[n] \in Nat
      BY <2>3, <2>6, <1>7, Zenon
    <3> QED
      BY <3>1, <3>2
  <2>7. ASSUME NEW x \in Msg, id[x] = g.request_id, From[x] = g.dest, Fresh(g.dest)
        PROVE  To[x] \in Node /\ got'[To[x]][x] > 0
    BY <2>3, <2>7, <1>12, <1>13 DEF NeedsAck
  <2>8. FrameTrue(g)'
    BY <2>3, <2>4, <2>5, <2>6, <2>7, <1>2, <1>8 DEF FrameTrue, Fresh, Delivered
  <2> QED
    BY <2>1, <2>2, <2>8
<1>14. ASSUME f.hop > 0
       PROVE  /\ [f EXCEPT !.hop = f.hop - 1] \in Frame
              /\ FrameTrue([f EXCEPT !.hop = f.hop - 1])
  <2>1. PICK g : g = [f EXCEPT !.hop = f.hop - 1]
    BY Zenon
  <2>2. g \in Frame
    BY <2>1, <1>14 DEF Frame
  <2>3. /\ g.src = f.src /\ g.dest = f.dest /\ g.id = f.id /\ g.request_id = f.request_id
        /\ g.msg = f.msg
    BY <2>1, Zenon DEF Frame
  <2>4. FrameTrue(g)
    BY <2>3, <1>1 DEF FrameTrue
  <2> QED
    BY <2>1, <2>2, <2>4
<1>15. ASSUME NEW d \in air' PROVE d \in [frame : Frame, at : Node] /\ FrameTrue(d.frame)'
  <2>1. CASE d \in air
    BY <2>1, <1>1, <1>11, Zenon DEF IInv, AirIsTrue, TypeOK
  <2>2. CASE /\ d \in Copies(n, AckFrame(n, f)) /\ NeedsAck(n, f) /\ n \notin Keyless
             /\ next_id'[n] = next_id[n] + 1 /\ next_id[n] <= MaxId
             /\ Remembers(n, KeyOf(f)) \/ ReceiveNew(n, f)
    BY <2>2, <1>13, CopiesFacts
  <2>3. CASE d \in Copies(n, [f EXCEPT !.hop = f.hop - 1]) /\ f.hop > 0
    <3>1. PICK g \in Frame : g = [f EXCEPT !.hop = f.hop - 1] /\ FrameTrue(g)
      BY <2>3, <1>14
    <3>2. FrameTrue(g)'
      BY <3>1, <1>11
    <3> QED
      BY <3>1, <3>2, <2>3, CopiesFacts
  <2> QED
    BY <2>1, <2>2, <2>3, <1>1, <1>15, ArrivesAir
<1>16. TypeOK'
  BY <1>1, <1>2, <1>3, <1>4, <1>5, <1>6, <1>15, ZenonT(60) DEF TypeOK
<1>17. IdsUsed' /\ IdsDistinct'
  <2>1. ASSUME NEW x \in Msg, Fresh(From[x]) PROVE id[x] < next_id'[From[x]]
    BY <2>1, <1>6, <1>7 DEF IInv, IdsUsed
  <2>2. ASSUME NEW k \in Node, NEW s \in Node, NEW i \in Id, Fresh(s), Remembers(k, <<s, i>>)'
        PROVE  i < next_id'[s]
    <3>1. CASE Remembers(k, <<s, i>>)
      <4>1. i < next_id[s]
        BY <2>2, <3>1, Zenon DEF IInv, IdsUsed
      <4> QED
        BY <4>1, <1>6, <1>7 DEF Id
    <3>2. CASE <<s, i>> = KeyOf(f)
      <4>1. s = f.src /\ i = f.id
        BY <3>2 DEF KeyOf
      <4>2. i < next_id[s]
        BY <2>2, <4>1, <1>1, Zenon DEF FrameTrue
      <4> QED
        BY <4>2, <1>6, <1>7 DEF Id
    <3> QED
      BY <2>2, <3>1, <3>2, <1>3
  <2> QED
    BY <2>1, <2>2, <1>2, Zenon DEF IInv, IdsUsed, IdsDistinct, Fresh
<1>18. SentFirst'
  <2>1. ASSUME NEW x \in Msg PROVE status'[x] = "idle" <=> id[x] = 0
    BY <1>6 DEF IInv, SentFirst, Settled
  <2>2. ASSUME NEW x \in Msg, NEW j \in Node, got'[j][x] > 0 PROVE id[x] # 0
    BY <2>2, <1>1, <1>4, <1>8, ZenonT(60) DEF IInv, SentFirst, FrameTrue
  <2> QED
    BY <2>1, <2>2, <1>2 DEF SentFirst
<1>19. RememberedIsDelivered'
  <2> SUFFICES ASSUME NEW x \in Msg, Fresh(From[x]), To[x] \in Node, To[x] \notin Keyless,
                      id[x] # 0, Remembers(To[x], <<From[x], id[x]>>)'
               PROVE  got'[To[x]][x] > 0
    BY <1>2 DEF RememberedIsDelivered, Fresh
  <2>1. PICK y : y = <<From[x], id[x]>>
    BY Zenon
  <2>2. Remembers(To[x], y)'
    BY <2>1, <1>2
  <2>3. CASE Remembers(To[x], y)
    BY <2>1, <2>3, <1>7, ZenonT(60) DEF IInv, RememberedIsDelivered
  <2>4. CASE To[x] = n /\ y = KeyOf(f) /\ ReceiveNew(n, f)
    <3>1. From[x] = f.src /\ id[x] = f.id
      BY <2>1, <2>4 DEF KeyOf
    <3>2. f.msg = x /\ x # NoMsg
      BY <3>1, <1>1, Addresses, Zenon DEF FrameTrue
    <3>3. f.dest = n
      BY <3>2, <2>4, <1>1, Zenon DEF FrameTrue
    <3> QED
      BY <3>2, <3>3, <2>4, <1>4 DEF DeliversTo
  <2> QED
    BY <2>2, <2>3, <2>4, <1>3
<1>20. SeenIsKept'
  <2>1. ASSUME NEW j \in Node, NEW x \in Msg, got'[j][x] > 0, NEW y, y = <<From[x], id[x]>>
        PROVE  Remembers(j, y)' \/ y \in forgot'[j]
    <3>1. CASE got'[j][x] = got[j][x]
      BY <2>1, <3>1, <1>3, Zenon DEF IInv, SeenIsKept
    <3>2. CASE j = n /\ x = f.msg /\ f.msg # NoMsg /\ ReceiveNew(n, f)
      <4>1. y = KeyOf(f)
        BY <2>1, <3>2, <1>10
      <4>2. PICK z : z = KeyOf(f)
        OBVIOUS
      <4>3. Remembers(n, z)'
        BY <4>2, <3>2, <1>3, Zenon
      <4> QED
        BY <4>1, <4>2, <4>3, <3>2
    <3> QED
      BY <3>1, <3>2, <1>4
  <2>2. ASSUME NEW j \in Node, NEW k \in Key, relays'[j][k] > 0
        PROVE  Remembers(j, k)' \/ k \in forgot'[j]
    <3>1. CASE relays'[j][k] = relays[j][k]
      BY <2>2, <3>1, <1>3 DEF IInv, SeenIsKept
    <3>2. CASE j = n /\ k = KeyOf(f) /\ ReceiveNew(n, f)
      BY <3>2, <1>3
    <3> QED
      BY <3>1, <3>2, <1>5, Zenon
  <2> QED
    BY <2>1, <2>2, <1>2, Zenon DEF SeenIsKept
<1>21. AckedImpliesDelivered'
  <2> SUFFICES ASSUME NEW x \in Msg, status'[x] = "acked", Fresh(From[x])
               PROVE  To[x] \in Node /\ got'[To[x]][x] > 0
    BY <1>2, Zenon DEF AckedImpliesDelivered, Delivered, Fresh
  <2>1. CASE status'[x] = status[x]
    <3>1. Delivered(x)
      BY <2>1 DEF IInv, AckedImpliesDelivered, Fresh
    <3> QED
      BY <3>1, <1>7 DEF Delivered
  <2>2. CASE x \in Settled(n, f) /\ IsToUs(n, f)
    <3>1. f.request_id # 0 /\ From[x] = n /\ id[x] = f.request_id
      BY <2>2 DEF Settled
    <3>2. f.dest = n
      <4>1. f.dest \in Node
        BY <3>1, <1>1 DEF FrameTrue
      <4> QED
        BY <4>1, <2>2, Addresses DEF IsToUs
    <3>3. Delivered(x)
      BY <3>1, <3>2, <1>1 DEF FrameTrue
    <3> QED
      BY <3>3, <1>7 DEF Delivered
  <2> QED
    BY <2>1, <2>2, <1>6
<1>22. DeliveredOnce'
  <2> SUFFICES ASSUME NEW j \in Node, NEW x \in Msg, got'[j][x] > 1
               PROVE  <<From[x], id[x]>> \in forgot'[j]
    BY <1>2 DEF DeliveredOnce
  <2>1. CASE got'[j][x] = got[j][x]
    BY <2>1, <1>3, Zenon DEF IInv, DeliveredOnce
  <2>2. CASE /\ j = n /\ x = f.msg /\ f.msg # NoMsg /\ ReceiveNew(n, f)
             /\ got'[j][x] = got[j][x] + 1
    <3>1. got[j][x] > 0
      BY <2>2, <1>7
    <3>2. ~Remembers(j, <<From[x], id[x]>>)
      BY <2>2, <1>9, <1>10
    <3> QED
      BY <3>1, <3>2, <1>3, Zenon DEF IInv, SeenIsKept
  <2> QED
    BY <2>1, <2>2, <1>4
<1>23. RelayedOnce'
  <2> SUFFICES ASSUME NEW j \in Node, NEW k \in Key, relays'[j][k] > 1
               PROVE  k \in forgot'[j]
    BY DEF RelayedOnce
  <2>1. CASE relays'[j][k] = relays[j][k]
    BY <2>1, <1>3, Zenon DEF IInv, RelayedOnce
  <2>2. CASE j = n /\ k = KeyOf(f) /\ ReceiveNew(n, f) /\ relays'[j][k] = relays[j][k] + 1
    <3>1. relays[j][k] > 0
      BY <2>2, <1>7
    <3> QED
      BY <3>1, <2>2, <1>3, <1>9 DEF IInv, SeenIsKept
  <2> QED
    BY <2>1, <2>2, <1>5
<1> QED
  BY <1>15, <1>16, <1>17, <1>18, <1>19, <1>20, <1>21, <1>22, <1>23 DEF IInv, AirIsTrue
-----------------------------------------------------------------------------
\* meshtastic_init() establishes the invariant: nothing was sent or seen.
LEMMA InitIInv == Init => IInv
<1> SUFFICES ASSUME Init PROVE IInv
  OBVIOUS
<1>1. \A n \in Node : dup[n] = <<>> /\ Len(dup[n]) = 0
  BY DEF Init
<1>2. \A n \in Node : \A k : ~Remembers(n, k)
  BY <1>1 DEF Remembers
<1>3. TypeOK
  <2>1. <<>> \in Seq(Key)
    OBVIOUS
  <2> QED
    BY <1>1, <2>1, ConstantsAssumption DEF Init, TypeOK, Status, ConstantsAssumption
<1>4. IdsUsed /\ IdsDistinct /\ SentFirst /\ AirIsTrue
  BY <1>2, Addresses DEF Init, IdsUsed, IdsDistinct, SentFirst, AirIsTrue
<1>5. RememberedIsDelivered /\ SeenIsKept
  BY <1>2 DEF Init, RememberedIsDelivered, SeenIsKept
<1>6. AckedImpliesDelivered /\ DeliveredOnce /\ RelayedOnce
  BY DEF Init, AckedImpliesDelivered, DeliveredOnce, RelayedOnce
<1> QED
  BY <1>3, <1>4, <1>5, <1>6 DEF IInv

\* meshtastic_send_packet() uses a packet ID that occurs nowhere yet.
LEMMA SendIInv ==
  ASSUME IInv, NEW m \in Msg, Send(m)
  PROVE  IInv'
<1>0. PICK n, i : n = From[m] /\ i = next_id[n]
  OBVIOUS
<1>1. /\ TypeOK /\ n \in Node /\ i \in Id /\ i # 0 /\ id[m] = 0 /\ status[m] = "idle"
      /\ \A x \in Msg : id[x] \in 0 .. MaxId /\ From[x] \in Node
      /\ \A k \in Node : next_id[k] \in 1 .. MaxId + 1
  <2>1. TypeOK /\ SentFirst
    BY DEF IInv
  <2>2. /\ \A x \in Msg : id[x] \in 0 .. MaxId /\ From[x] \in Node
        /\ \A k \in Node : next_id[k] \in 1 .. MaxId + 1
    BY <2>1, ConstantsAssumption DEF TypeOK, ConstantsAssumption
  <2>3. status[m] = "idle" /\ next_id[From[m]] <= MaxId
    BY DEF Send
  <2>4. id[m] = 0
    BY <2>1, <2>3 DEF SentFirst
  <2> QED
    BY <1>0, <2>1, <2>2, <2>3, <2>4 DEF Id
<1>2. /\ next_id' = [next_id EXCEPT ![n] = i + 1] /\ id' = [id EXCEPT ![m] = i]
      /\ status' = [status EXCEPT ![m] = "sending"]
      /\ air' = air \cup Copies(n, TextFrame(m, n, i))
      /\ dup' = dup /\ forgot' = forgot /\ left' = left /\ got' = got
      /\ relays' = relays /\ restarts' = restarts
  BY <1>0 DEF Send
<1>3. /\ next_id'[n] = i + 1 /\ \A k \in Node \ {n} : next_id'[k] = next_id[k]
      /\ id'[m] = i /\ \A x \in Msg \ {m} : id'[x] = id[x]
      /\ status'[m] = "sending" /\ \A x \in Msg \ {m} : status'[x] = status[x]
      /\ \A k \in Node : next_id[k] <= next_id'[k]
  BY <1>0, <1>1, <1>2, SMTT(60) DEF TypeOK
<1>n. \A k \in Node : next_id[k] \in Nat /\ next_id'[k] \in Nat /\ next_id[k] <= next_id'[k]
  BY <1>1, <1>3, ConstantsAssumption DEF Id, ConstantsAssumption
<1>a. /\ From[m] = n /\ next_id[n] = i /\ next_id'[n] = i + 1 /\ id'[m] = i /\ i # 0
      /\ i \in Nat /\ i < next_id'[n]
  <2>1. From[m] = n /\ next_id[n] = i /\ next_id'[n] = i + 1 /\ id'[m] = i /\ i # 0
    BY <1>0, <1>1, <1>3, Zenon
  <2>2. i \in Nat
    BY <2>1, <1>1, <1>n, Zenon
  <2> QED
    BY <2>1, <2>2
<1>4. \A k \in Node : \A x : Remembers(k, x)' <=> Remembers(k, x)
  BY <1>2, Zenon DEF Remembers
<1>5. /\ TextFrame(m, n, i) \in Frame
      /\ Copies(n, TextFrame(m, n, i)) \subseteq [frame : Frame, at : Node]
      /\ \A c \in Copies(n, TextFrame(m, n, i)) : c.frame = TextFrame(m, n, i)
  BY <1>0, <1>1, TextFrameType, CopiesFacts
<1>6. TypeOK'
  <2>1. next_id' \in [Node -> 1 .. MaxId + 1]
    BY <1>1, <1>2, ConstantsAssumption DEF TypeOK, Id, ConstantsAssumption
  <2>2. id' \in [Msg -> 0 .. MaxId] /\ status' \in [Msg -> Status]
    BY <1>1, <1>2, SMTT(60) DEF TypeOK, Id, Status
  <2>3. air' \subseteq [frame : Frame, at : Node]
    BY <1>1, <1>2, <1>5, Zenon DEF TypeOK
  <2> QED
    BY <1>1, <1>2, <2>1, <2>2, <2>3, Zenon DEF TypeOK
<1>7. \A x \in Msg : Fresh(From[x]) => id[x] < next_id[From[x]]
  BY Zenon DEF IInv, IdsUsed
<1>d. ASSUME NEW y \in Msg, y # m, Fresh(From[y]), From[y] = n PROVE id'[y] # i
  <2>1. id'[y] = id[y] /\ id[y] < i
    BY <1>d, <1>a, <1>3, <1>7, Zenon
  <2> QED
    BY <2>1, <1>a
<1>8. IdsUsed'
  <2>1. ASSUME NEW x \in Msg, Fresh(From[x])' PROVE id'[x] < next_id'[From[x]]
    <3>1. CASE x = m
      BY <3>1, <1>a, Zenon
    <3>2. CASE x # m
      BY <3>2, <2>1, <1>1, <1>2, <1>3, <1>7, <1>n DEF Fresh
    <3> QED
      BY <3>1, <3>2, Zenon
  <2>2. ASSUME NEW k \in Node, NEW s \in Node, NEW j \in Id, Fresh(s)', Remembers(k, <<s, j>>)'
        PROVE  j < next_id'[s]
    <3>1. j < next_id[s]
      BY <2>2, <1>2, <1>4, Zenon DEF IInv, IdsUsed, Fresh
    <3> QED
      BY <3>1, <1>n DEF Id
  <2> QED
    BY <2>1, <2>2 DEF IdsUsed
<1>9. IdsDistinct'
  <2> SUFFICES ASSUME NEW x \in Msg, NEW o \in Msg, Fresh(From[x]), From[x] = From[o],
                      id'[x] = id'[o], id'[x] # 0
               PROVE  x = o
    BY <1>2, Zenon DEF IdsDistinct, Fresh
  <2>1. CASE x # m /\ o # m
    BY <2>1, <1>3 DEF IInv, IdsDistinct
  <2>2. CASE x = m \/ o = m
    BY <2>2, <1>a, <1>d, Zenon
  <2> QED
    BY <2>1, <2>2
<1>10. SentFirst'
  <2>1. ASSUME NEW x \in Msg PROVE status'[x] = "idle" <=> id'[x] = 0
    <3>1. CASE x = m
      BY <3>1, <1>3, <1>a
    <3>2. CASE x # m
      BY <3>2, <1>3, Zenon DEF IInv, SentFirst
    <3> QED
      BY <3>1, <3>2
  <2>2. ASSUME NEW x \in Msg, NEW k \in Node, got[k][x] > 0 PROVE id'[x] # 0
    BY <2>2, <1>3, <1>a, Zenon DEF IInv, SentFirst
  <2> QED
    BY <2>1, <2>2, <1>2, Zenon DEF SentFirst
<1>11. ASSUME NEW f \in Frame, FrameTrue(f) PROVE FrameTrue(f)'
  <2>1. f.src \in Node /\ f.id \in Id /\ f.id # 0 /\ f.request_id \in Nat
    BY DEF Frame, Id
  <2>2. f.msg # m
    BY <1>11, <1>1, <2>1, ConstantsAssumption, Zenon DEF FrameTrue, ConstantsAssumption
  <2>0. /\ Fresh(f.src) => f.id < next_id[f.src]
        /\ f.request_id # 0 =>
             f.dest \in Node /\ (Fresh(f.dest) => f.request_id < next_id[f.dest])
    BY <1>11, Zenon DEF FrameTrue
  <2>3. (Fresh(f.src) => f.id < next_id'[f.src])
    BY <2>0, <2>1, <1>n DEF Id
  <2>4. f.request_id # 0 => f.dest \in Node /\ (Fresh(f.dest) => f.request_id < next_id'[f.dest])
    BY <2>0, <2>1, <1>n
  <2>5. f.msg # NoMsg => /\ f.src = From[f.msg] /\ f.dest = To[f.msg]
                         /\ f.id = id'[f.msg] /\ f.request_id = 0
    BY <1>11, <2>2, <1>3, Zenon DEF FrameTrue, Frame
  <2>6. ASSUME NEW x \in Msg, Fresh(f.src), From[x] = f.src, id'[x] = f.id PROVE f.msg = x
    <3>1. x # m
      <4>1. f.id < next_id[f.src]
        BY <2>0, <2>6, Zenon
      <4>2. x = m => f.id = i /\ next_id[f.src] = i
        BY <2>6, <1>a, Zenon
      <4> QED
        BY <4>1, <4>2, <1>a
    <3> QED
      BY <3>1, <2>6, <1>11, <1>3 DEF FrameTrue
  <2>7. ASSUME NEW x \in Msg, f.request_id # 0, id'[x] = f.request_id, From[x] = f.dest,
               Fresh(f.dest)
        PROVE  To[x] \in Node /\ got[To[x]][x] > 0
    <3>1. x # m
      <4>1. f.request_id < next_id[f.dest]
        BY <2>0, <2>7, Zenon
      <4>2. x = m => f.request_id = i /\ next_id[f.dest] = i
        BY <2>7, <1>a, Zenon
      <4> QED
        BY <4>1, <4>2, <1>a
    <3> QED
      BY <3>1, <2>7, <1>11, <1>3, Zenon DEF FrameTrue, Delivered
  <2> QED
    BY <1>2, <2>3, <2>4, <2>5, <2>6, <2>7 DEF FrameTrue, Fresh, Delivered
<1>12. FrameTrue(TextFrame(m, n, i))'
  <2>1. PICK f : f = TextFrame(m, n, i)
    OBVIOUS
  <2>2. f.src = n /\ f.id = i /\ f.request_id = 0 /\ f.msg = m /\ f.dest = To[m]
    BY <2>1, Zenon DEF TextFrame
  <2>3. ASSUME NEW x \in Msg, Fresh(n), From[x] = n, id'[x] = i PROVE x = m
    BY <2>3, <1>d, Zenon
  <2>4. i < next_id'[n] /\ n = From[m] /\ id'[m] = i
    BY <1>a, Zenon
  <2>5. FrameTrue(f)'
    BY <2>2, <2>3, <2>4, <1>2 DEF FrameTrue, Fresh
  <2> QED
    BY <2>1, <2>5
<1>13. AirIsTrue'
  <2> SUFFICES ASSUME NEW c \in air' PROVE FrameTrue(c.frame)'
    BY Zenon DEF AirIsTrue
  <2>1. CASE c \in air
    BY <2>1, <1>1, <1>11 DEF IInv, AirIsTrue, TypeOK
  <2>2. CASE c \notin air
    BY <2>2, <1>2, <1>5, <1>12
  <2> QED
    BY <2>1, <2>2
<1>14. RememberedIsDelivered'
  <2> SUFFICES ASSUME NEW k \in Node, NEW x \in Msg, Fresh(From[x]), To[x] = k, k \notin Keyless,
                      id'[x] # 0, Remembers(k, <<From[x], id'[x]>>)
               PROVE  got[k][x] > 0
    BY <1>2, <1>4 DEF RememberedIsDelivered, Fresh
  <2>1. x # m
    <3>1. i \in Id /\ (Remembers(k, <<n, i>>) /\ Fresh(n) => i < next_id[n])
      BY <1>1 DEF IInv, IdsUsed
    <3>2. ~(i < next_id[n])
      BY <1>a
    <3> QED
      BY <3>1, <3>2, <1>a, Zenon
  <2> QED
    BY <2>1, <1>3, Zenon DEF IInv, RememberedIsDelivered
<1>15. \A k \in Node : ~(got[k][m] > 0) /\ ~(got[k][m] > 1)
  BY <1>1, SMTT(60) DEF IInv, SentFirst, TypeOK
<1>16. SeenIsKept'
  BY <1>2, <1>3, <1>4, <1>15, Zenon DEF IInv, SeenIsKept
<1>17. AckedImpliesDelivered'
  BY <1>1, <1>2, <1>3, Zenon DEF IInv, AckedImpliesDelivered, Delivered
<1>18. DeliveredOnce' /\ RelayedOnce'
  BY <1>2, <1>3, <1>15, Zenon DEF IInv, DeliveredOnce, RelayedOnce
<1> QED
  BY <1>6, <1>8, <1>9, <1>10, <1>13, <1>14, <1>16, <1>17, <1>18, Zenon DEF IInv

\* A step that hands out no ID, receives nothing and settles nothing keeps the
\* invariant, if the frames it puts in the air are true.
LEMMA QuietStep ==
  ASSUME IInv, TypeOK', UNCHANGED <<next_id, dup, forgot, id, got, relays, restarts>>,
         \A c \in air' : FrameTrue(c.frame),
         \A x \in Msg : status'[x] = "idle" <=> status[x] = "idle",
         \A x \in Msg : status'[x] = "acked" => status[x] = "acked"
  PROVE  IInv'
<1>1. \A k \in Node : \A x : Remembers(k, x)' <=> Remembers(k, x)
  BY Zenon DEF Remembers
<1>2. IdsUsed' /\ IdsDistinct'
  BY <1>1, Zenon DEF IInv, IdsUsed, IdsDistinct, Fresh
<1>3. SentFirst'
  BY DEF IInv, SentFirst
<1>4. AirIsTrue'
  BY Zenon DEF AirIsTrue, FrameTrue, Fresh, Delivered
<1>5. RememberedIsDelivered' /\ SeenIsKept'
  BY <1>1 DEF IInv, RememberedIsDelivered, SeenIsKept, Fresh
<1>6. AckedImpliesDelivered' /\ DeliveredOnce' /\ RelayedOnce'
  BY Zenon DEF IInv, AckedImpliesDelivered, DeliveredOnce, RelayedOnce, Delivered
<1> QED
  BY <1>2, <1>3, <1>4, <1>5, <1>6, Zenon DEF IInv

\* meshtastic_reliable_track() and the end of the wait only change the status.
LEMMA TrackIInv ==
  ASSUME IInv, NEW m \in Msg, Track(m) \/ GiveUp(m)
  PROVE  IInv'
<1>1. /\ UNCHANGED <<next_id, dup, forgot, air, id, got, relays, restarts>>
      /\ status[m] \in {"sending", "pending"}
      /\ left' = left \/ left' = [left EXCEPT ![m] = Retransmissions]
      /\ \E s \in {"pending", "untracked", "no_ack"} : status' = [status EXCEPT ![m] = s]
  BY DEF Track, GiveUp
<1>2. TypeOK
  BY DEF IInv
<1>3. PICK s \in {"pending", "untracked", "no_ack"} : status' = [status EXCEPT ![m] = s]
  BY <1>1, Zenon
<1>4. status' \in [Msg -> Status] /\ left' \in [Msg -> 0 .. Retransmissions]
  <2>1. status \in [Msg -> Status] /\ left \in [Msg -> 0 .. Retransmissions]
    BY <1>2 DEF TypeOK
  <2>2. s \in Status /\ Retransmissions \in 0 .. Retransmissions
    <3>1. s \in Status
      BY Zenon DEF Status
    <3>2. Retransmissions \in Nat
      BY ConstantsAssumption, Zenon DEF ConstantsAssumption
    <3> QED
      BY <3>1, <3>2
  <2> QED
    BY <2>1, <2>2, <1>1, <1>3
<1>5. TypeOK'
  BY <1>1, <1>2, <1>4, SMTT(60) DEF TypeOK
<1>6. \A x \in Msg : status'[x] = IF x = m THEN s ELSE status[x]
  BY <1>2, <1>3 DEF TypeOK
<1>7. /\ \A x \in Msg : status'[x] = "idle" <=> status[x] = "idle"
      /\ \A x \in Msg : status'[x] = "acked" => status[x] = "acked"
  BY <1>1, <1>6
<1>8. \A c \in air' : FrameTrue(c.frame)
  BY <1>1 DEF IInv, AirIsTrue
<1> QED
  BY <1>1, <1>5, <1>7, <1>8, QuietStep

\* A retransmission by reliable_work_fn() is the frame of the first one.
LEMMA RetransmitIInv ==
  ASSUME IInv, NEW m \in Msg, Retransmit(m)
  PROVE  IInv'
<1>0. PICK f, n : n = From[m] /\ f = TextFrame(m, n, id[m])
  OBVIOUS
<1>1. TypeOK /\ SentFirst /\ IdsUsed /\ IdsDistinct
  BY Zenon DEF IInv
<1>2. /\ status[m] = "pending" /\ left[m] > 0
      /\ left' = [left EXCEPT ![m] = left[m] - 1] /\ air' = air \cup Copies(n, f)
      /\ UNCHANGED <<next_id, dup, forgot, status, id, got, relays, restarts>>
  BY <1>0 DEF Retransmit
<1>3. id[m] \in Id /\ id[m] # 0 /\ n \in Node
  <2>1. id[m] \in 0 .. MaxId /\ From[m] \in Node /\ MaxId \in Nat
    BY <1>1, ConstantsAssumption DEF TypeOK, ConstantsAssumption
  <2>2. id[m] # 0
    BY <1>1, <1>2, Zenon DEF SentFirst
  <2> QED
    BY <1>0, <2>1, <2>2 DEF Id
<1>4. /\ f \in Frame /\ Copies(n, f) \subseteq [frame : Frame, at : Node]
      /\ \A c \in Copies(n, f) : c.frame = f
  BY <1>0, <1>3, TextFrameType, CopiesFacts, Zenon
<1>5. left' \in [Msg -> 0 .. Retransmissions] /\ air' \subseteq [frame : Frame, at : Node]
  <2>1. left \in [Msg -> 0 .. Retransmissions] /\ air \subseteq [frame : Frame, at : Node]
    BY <1>1 DEF TypeOK
  <2>2. left[m] - 1 \in 0 .. Retransmissions
    BY <2>1, <1>2, ConstantsAssumption DEF ConstantsAssumption
  <2> QED
    BY <2>1, <2>2, <1>2, <1>4
<1>6. TypeOK'
  BY <1>1, <1>2, <1>5, SMTT(60) DEF TypeOK
<1>7. f.src = n /\ f.id = id[m] /\ f.request_id = 0 /\ f.msg = m /\ f.dest = To[m]
  BY <1>0, Zenon DEF TextFrame
<1>8. FrameTrue(f)
  BY <1>0, <1>1, <1>3, <1>7, Zenon DEF FrameTrue, IdsUsed, IdsDistinct
<1>9. \A c \in air' : FrameTrue(c.frame)
  BY <1>2, <1>4, <1>8 DEF IInv, AirIsTrue
<1> QED
  BY <1>2, <1>6, <1>9, QuietStep, Zenon

\* A lost copy takes nothing with it.
LEMMA LoseIInv ==
  ASSUME IInv, NEW c \in air, Lose(c)
  PROVE  IInv'
<1>1. TypeOK'
  BY DEF IInv, TypeOK, Lose
<1>2. \A d \in air' : FrameTrue(d.frame)
  BY DEF Lose, IInv, AirIsTrue
<1> QED
  BY <1>1, <1>2, QuietStep DEF Lose

\* A power cycle ends every promise about the node's own packet IDs; what other
\* nodes know of it, and what it forgets itself, stays true.
LEMMA RestartIInv ==
  ASSUME IInv, NEW n \in Node, Restart(n)
  PROVE  IInv'
<1>1. TypeOK
  BY DEF IInv
<1>2. /\ restarts[n] < MaxRestarts /\ restarts' = [restarts EXCEPT ![n] = restarts[n] + 1]
      /\ next_id' = [next_id EXCEPT ![n] = 1] /\ dup' = [dup EXCEPT ![n] = <<>>]
      /\ forgot' = [forgot EXCEPT ![n] = Key]
      /\ air' = air /\ id' = id /\ left' = left /\ got' = got /\ relays' = relays
      /\ status' = [x \in Msg |-> IF From[x] = n /\ status[x] \in {"sending", "pending"}
                                    THEN "dropped" ELSE status[x]]
  BY DEF Restart
<1>3. /\ ~Fresh(n)' /\ \A k \in Node \ {n} : restarts'[k] = restarts[k]
      /\ \A k \in Node \ {n} : next_id'[k] = next_id[k]
      /\ \A k \in Node : Fresh(k)' => k # n /\ Fresh(k)
  BY <1>1, <1>2 DEF Fresh, TypeOK
<1>4. /\ dup'[n] = <<>> /\ Len(dup'[n]) = 0 /\ \A k \in Node \ {n} : dup'[k] = dup[k]
      /\ forgot'[n] = Key /\ \A k \in Node \ {n} : forgot'[k] = forgot[k]
  BY <1>1, <1>2, Zenon DEF TypeOK
<1>5. /\ \A k \in Node : \A x : Remembers(k, x)' => k # n /\ Remembers(k, x)
      /\ \A k \in Node \ {n} : \A x : Remembers(k, x)' <=> Remembers(k, x)
  BY <1>4 DEF Remembers
<1>6. TypeOK'
  <2>1. /\ restarts' \in [Node -> 0 .. MaxRestarts] /\ next_id' \in [Node -> 1 .. MaxId + 1]
        /\ status' \in [Msg -> Status]
    BY <1>1, <1>2, ConstantsAssumption DEF TypeOK, Status, ConstantsAssumption
  <2>2. dup' \in [Node -> Seq(Key)] /\ forgot' \in [Node -> SUBSET Key]
    BY <1>1, <1>2 DEF TypeOK
  <2>3. ASSUME NEW k \in Node PROVE Len(dup'[k]) <= DupCacheSize
    <3>1. Len(dup[k]) <= DupCacheSize /\ 0 <= DupCacheSize
      BY <1>1, ConstantsAssumption DEF TypeOK, ConstantsAssumption
    <3> QED
      BY <3>1, <1>4
  <2> QED
    BY <1>1, <1>2, <2>1, <2>2, <2>3, Zenon DEF TypeOK
<1>7. \A x \in Msg : From[x] \in Node /\ id[x] \in 0 .. MaxId
  BY <1>1, ConstantsAssumption DEF TypeOK, ConstantsAssumption
<1>8. IdsUsed' /\ IdsDistinct'
  BY <1>2, <1>3, <1>5, <1>7, Zenon DEF IInv, IdsUsed, IdsDistinct
<1>9. \A x \in Msg : /\ status'[x] = "idle" <=> status[x] = "idle"
                     /\ status'[x] = "acked" => status[x] = "acked"
  BY <1>2, Zenon
<1>10. SentFirst'
  BY <1>2, <1>9 DEF IInv, SentFirst
<1>11. ASSUME NEW f \in Frame, FrameTrue(f) PROVE FrameTrue(f)'
  BY <1>11, <1>2, <1>3, <1>7, Zenon DEF FrameTrue, Delivered, Frame
<1>12. AirIsTrue'
  BY <1>1, <1>2, <1>11 DEF IInv, AirIsTrue, TypeOK
<1>13. RememberedIsDelivered'
  BY <1>2, <1>3, <1>5, <1>7, Zenon DEF IInv, RememberedIsDelivered
<1>14. \A x \in Msg : id[x] # 0 => <<From[x], id[x]>> \in Key
  BY <1>7 DEF Key, Id
<1>15. SeenIsKept'
  <2>1. ASSUME NEW k \in Node, NEW x \in Msg, got[k][x] > 0
        PROVE  Remembers(k, <<From[x], id[x]>>)' \/ <<From[x], id[x]>> \in forgot'[k]
    <3>1. PICK y : y = <<From[x], id[x]>>
      BY Zenon
    <3>2. (Remembers(k, y) \/ y \in forgot[k]) /\ y \in Key
      BY <2>1, <3>1, <1>14, Zenon DEF IInv, SeenIsKept, SentFirst
    <3>3. Remembers(k, y)' \/ y \in forgot'[k]
      BY <3>2, <1>4, <1>5, Zenon
    <3> QED
      BY <3>1, <3>3, <1>2, Zenon
  <2>2. ASSUME NEW k \in Node, NEW x \in Key, relays[k][x] > 0
        PROVE  Remembers(k, x)' \/ x \in forgot'[k]
    BY <2>2, <1>4, <1>5, Zenon DEF IInv, SeenIsKept
  <2> QED
    BY <2>1, <2>2, <1>2, Zenon DEF SeenIsKept
<1>16. AckedImpliesDelivered'
  BY <1>2, <1>3, <1>7, <1>9, Zenon DEF IInv, AckedImpliesDelivered, Delivered, Fresh
<1>17. DeliveredOnce'
  <2> SUFFICES ASSUME NEW k \in Node, NEW x \in Msg, got[k][x] > 1
               PROVE  <<From[x], id[x]>> \in forgot'[k]
    BY <1>2 DEF DeliveredOnce
  <2>1. got \in [Node -> [Msg -> Nat]]
    BY <1>1, Zenon DEF TypeOK
  <2>2. got[k][x] \in Nat
    BY <2>1
  <2>3. got[k][x] > 0
    BY <2>2
  <2> QED
    BY <2>3, <1>4, <1>14, Zenon DEF IInv, DeliveredOnce, SentFirst
<1>18. RelayedOnce'
  BY <1>2, <1>4 DEF IInv, RelayedOnce
<1> QED
  BY <1>6, <1>8, <1>10, <1>12, <1>13, <1>15, <1>16, <1>17, <1>18 DEF IInv

-----------------------------------------------------------------------------
\* The conjunction of the facts in Mesh.tla is an invariant of the mesh.
THEOREM Inductive == Spec => []IInv
<1>1. IInv /\ [Next]_vars => IInv'
  <2> SUFFICES ASSUME IInv, [Next]_vars PROVE IInv'
    OBVIOUS
  <2>1. ASSUME NEW m \in Msg, Send(m) PROVE IInv'
    BY <2>1, SendIInv
  <2>2. ASSUME NEW m \in Msg, Track(m) \/ GiveUp(m) PROVE IInv'
    BY <2>2, TrackIInv
  <2>3. ASSUME NEW m \in Msg, Retransmit(m) PROVE IInv'
    BY <2>3, RetransmitIInv
  <2>4. ASSUME NEW c \in air, Receive(c) PROVE IInv'
    BY <2>4, ReceiveIInv
  <2>5. ASSUME NEW c \in air, Lose(c) PROVE IInv'
    BY <2>5, LoseIInv
  <2>6. ASSUME NEW n \in Restartable, Restart(n) PROVE IInv'
    BY <2>6, RestartIInv, ConstantsAssumption DEF ConstantsAssumption
  <2>7. CASE UNCHANGED vars
    <3>1. TypeOK /\ \A c \in air : FrameTrue(c.frame)
      BY DEF IInv, AirIsTrue
    <3>2. TypeOK'
      BY <2>7, <3>1 DEF TypeOK, vars
    <3> QED
      BY <2>7, <3>1, <3>2, QuietStep DEF vars
  <2> QED
    BY <2>1, <2>2, <2>3, <2>4, <2>5, <2>6, <2>7 DEF Next
<1> QED
  BY <1>1, InitIInv, PTL DEF Spec

\* The mesh stays within its types, for every topology and every bound.
THEOREM TypeCorrect == Spec => []TypeOK
<1>1. IInv => TypeOK
  BY DEF IInv
<1> QED
  BY <1>1, Inductive, PTL

\* TX_ACKED for a message of a sender that never restarted means that the
\* destination's application got the message.
THEOREM AckIsProof == Spec => []AckedImpliesDelivered
<1>1. IInv => AckedImpliesDelivered
  BY DEF IInv
<1> QED
  BY <1>1, Inductive, PTL

\* No application gets a message twice, unless its duplicate ring has forgotten
\* the packet.
THEOREM NeverDeliveredTwice == Spec => []DeliveredOnce
<1>1. IInv => DeliveredOnce
  BY DEF IInv
<1> QED
  BY <1>1, Inductive, PTL

\* No node relays a packet twice, unless its duplicate ring has forgotten it.
THEOREM NeverRelayedTwice == Spec => []RelayedOnce
<1>1. IInv => RelayedOnce
  BY DEF IInv
<1> QED
  BY <1>1, Inductive, PTL
-----------------------------------------------------------------------------
(* What holds across restarts *)

\* routing_hop_limit_for_reply() allows for the way the packet came.
LEMMA ReplyHops ==
  ASSUME NEW own \in 1 .. 7, NEW hop \in 0 .. 7, NEW start \in 1 .. 7, hop <= start
  PROVE  /\ HopLimitForReply(own, hop, start) \in 1 .. 7
         /\ HopLimitForReply(own, hop, start) >= start - hop
  BY DEF HopLimitForReply

\* The header of an acknowledgement: as many hops as it starts with, at least one,
\* and enough for the way back.
LEMMA AckHops ==
  ASSUME NEW n \in Node, NEW f \in Frame, f.start > 0, f.hop <= f.start
  PROVE  /\ AckFrame(n, f).start > 0 /\ AckFrame(n, f).hop <= AckFrame(n, f).start
         /\ AckFrame(n, f).hop >= f.start - f.hop
<1>1. HopLimit[n] \in 1 .. 7
  BY ConstantsAssumption, Zenon DEF ConstantsAssumption
<1>2. f.hop \in 0 .. 7 /\ f.start \in 1 .. 7
  BY DEF Frame
<1>3. PICK h : h = HopLimitForReply(HopLimit[n], f.hop, f.start)
  BY Zenon
<1>4. h \in 1 .. 7 /\ h >= f.start - f.hop
  BY <1>1, <1>2, <1>3, ReplyHops
<1>5. SendHops(n, h) = h
  BY <1>4 DEF SendHops
<1>6. AckFrame(n, f).hop = h /\ AckFrame(n, f).start = h
  BY <1>3, <1>5, Zenon DEF AckFrame
<1> QED
  BY <1>4, <1>6

\* A message starts with hops and its own payload.
LEMMA TextSane ==
  ASSUME NEW m \in Msg, NEW i
  PROVE  LET f == TextFrame(m, From[m], i)
         IN  f.start > 0 /\ f.hop <= f.start /\ AsksForMessage(f)'
<1>1. HopLimit[From[m]] \in 1 .. 7 /\ m # NoMsg
  BY ConstantsAssumption, Zenon DEF ConstantsAssumption
<1>2. PICK f : f = TextFrame(m, From[m], i)
  BY Zenon
<1>3. /\ f.start = HopLimit[From[m]] /\ f.hop = HopLimit[From[m]]
      /\ f.port = "text" /\ f.msg = m
  BY <1>2, Zenon DEF TextFrame
<1>4. f.start > 0 /\ f.hop <= f.start
  BY <1>1, <1>3
<1>5. AsksForMessage(f)'
  BY <1>1, <1>3 DEF AsksForMessage
<1> QED
  BY <1>2, <1>4, <1>5, Zenon

\* An acknowledgement asks for another one only when it answers a message.
LEMMA AckSane ==
  ASSUME NEW n \in Node, NEW f \in Frame, FrameTrue(f), AsksForMessage(f), NeedsAck(n, f)
  PROVE  AsksForMessage(AckFrame(n, f))
<1>1. PICK g : g = AckFrame(n, f)
  BY Zenon
<1>2. /\ g.port = "routing" /\ g.msg = NoMsg /\ g.want_ack = AckWantsAck(n, f)
      /\ g.dest = f.src /\ g.src = n /\ g.request_id = f.id
  BY <1>1, Zenon DEF AckFrame
<1>3. f.id # 0 /\ f.msg \in Msg \cup {NoMsg} /\ f.dest = n
  BY DEF Frame, Id, NeedsAck
<1>4. ASSUME g.want_ack
      PROVE  /\ f.msg \in Msg /\ From[f.msg] = g.dest /\ To[f.msg] = g.src
             /\ id[f.msg] = g.request_id
  <2>1. f.msg # NoMsg
    BY <1>2, <1>4, Zenon DEF AckWantsAck, AsksForMessage
  <2> QED
    BY <1>2, <1>3, <2>1, Zenon DEF FrameTrue
<1>5. AsksForMessage(g)
  BY <1>2, <1>3, <1>4, Zenon DEF AsksForMessage
<1> QED
  BY <1>1, <1>5, Zenon

\* Frames say what they said while messages keep their IDs.
LEMMA AsksKept ==
  ASSUME NEW f, AsksForMessage(f), \A m \in Msg : id[m] # 0 => id'[m] = id[m]
  PROVE  AsksForMessage(f)'
  BY Zenon DEF AsksForMessage

\* A step that begins no wait keeps the IDs of the messages waited for apart.
LEMMA LiveIdsKept ==
  ASSUME TypeOK, TypeOK', LiveIdsDistinct, id' = id,
         \A m \in Msg : Live(m)' =>
           Live(m) /\ next_id[From[m]] <= next_id'[From[m]]
  PROVE  LiveIdsDistinct'
<1>1. ASSUME NEW m \in Msg, Live(m)' PROVE id'[m] < next_id'[From[m]]
  <2>1. id[m] < next_id[From[m]] /\ next_id[From[m]] <= next_id'[From[m]] /\ id'[m] = id[m]
    BY <1>1, Zenon DEF LiveIdsDistinct
  <2>2. id[m] \in Nat /\ next_id[From[m]] \in Nat /\ next_id'[From[m]] \in Nat
    <3>1. /\ id \in [Msg -> 0 .. MaxId] /\ From[m] \in Node
          /\ next_id \in [Node -> 1 .. MaxId + 1] /\ next_id' \in [Node -> 1 .. MaxId + 1]
      BY Addresses, Zenon DEF TypeOK
    <3>2. MaxId \in Nat
      BY ConstantsAssumption, Zenon DEF ConstantsAssumption
    <3> QED
      BY <3>1, <3>2
  <2> QED
    BY <2>1, <2>2
<1>2. ASSUME NEW m \in Msg, NEW o \in Msg, Live(m)', Live(o)', From[m] = From[o], id'[m] = id'[o]
      PROVE  m = o
  BY <1>2, Zenon DEF LiveIdsDistinct
<1> QED
  BY <1>1, <1>2, Zenon DEF LiveIdsDistinct

\* A step whose new frames have sane headers keeps those of all frames.
LEMMA FramesKept ==
  ASSUME HopsFall, AckChainEnds, \A m \in Msg : id[m] # 0 => id'[m] = id[m],
         \A c \in air' : \/ c \in air
                         \/ /\ c.frame.start > 0 /\ c.frame.hop <= c.frame.start
                            /\ AsksForMessage(c.frame)'
  PROVE  HopsFall' /\ AckChainEnds'
<1>1. \A c \in air : AsksForMessage(c.frame)'
  BY AsksKept, Zenon DEF AckChainEnds
<1> QED
  BY <1>1, Zenon DEF HopsFall, AckChainEnds

\* meshtastic_send_packet(): the new ID is above those of the messages waited for.
LEMMA SendRestartInv ==
  ASSUME IInv, IInv', RestartInv, NEW m \in Msg, Send(m)
  PROVE  RestartInv'
<1>0. PICK n, i : n = From[m] /\ i = next_id[n]
  BY Zenon
<1>1. TypeOK /\ TypeOK' /\ SentFirst
  BY Zenon DEF IInv
<1>2. /\ n \in Node /\ i \in Nat /\ i # 0 /\ next_id'[n] = i + 1 /\ id'[m] = i
      /\ \A k \in Node \ {n} : next_id'[k] = next_id[k]
      /\ \A x \in Msg \ {m} : id'[x] = id[x] /\ status'[x] = status[x]
      /\ status'[m] = "sending" /\ status[m] = "idle"
  <2>1. /\ next_id \in [Node -> 1 .. MaxId + 1] /\ id \in [Msg -> 0 .. MaxId]
        /\ status \in [Msg -> Status]
    BY <1>1, Zenon DEF TypeOK
  <2>2. n \in Node /\ i \in Nat /\ i # 0
    BY <1>0, <2>1, Addresses, ConstantsAssumption DEF ConstantsAssumption
  <2>3. /\ next_id' = [next_id EXCEPT ![n] = i + 1] /\ id' = [id EXCEPT ![m] = i]
        /\ status' = [status EXCEPT ![m] = "sending"] /\ status[m] = "idle"
    BY <1>0, Zenon DEF Send
  <2> QED
    BY <2>1, <2>2, <2>3, Zenon
<1>3. \A x \in Msg : id[x] \in Nat /\ From[x] \in Node
  BY <1>1, Addresses, ConstantsAssumption DEF TypeOK, ConstantsAssumption
<1>4. \A x \in Msg : id[x] # 0 => id'[x] = id[x]
  BY <1>1, <1>2, Zenon DEF SentFirst
<1>5. HopsFall' /\ AckChainEnds'
  <2>1. air' = air \cup Copies(n, TextFrame(m, From[m], i))
    BY <1>0, Zenon DEF Send
  <2>2. i \in Id
    <3>1. i <= MaxId
      BY <1>0, Zenon DEF Send
    <3> QED
      BY <1>2, <3>1, ConstantsAssumption DEF ConstantsAssumption, Id
  <2>3. TextFrame(m, From[m], i) \in Frame
    BY <2>2, TextFrameType, Zenon
  <2>4. \A c \in Copies(n, TextFrame(m, From[m], i)) : c.frame = TextFrame(m, From[m], i)
    BY <1>2, <2>3, CopiesFacts, Zenon
  <2> QED
    BY <1>4, <2>1, <2>4, TextSane, FramesKept, Zenon DEF RestartInv
<1>6. LiveIdsDistinct'
  <2>1. \A x \in Msg \ {m} : (Live(x)' <=> Live(x)) /\ id'[x] = id[x]
    BY <1>2, Zenon DEF Live
  <2>2. ASSUME NEW x \in Msg, x # m, Live(x)
        PROVE  id[x] < next_id'[From[x]] /\ (From[x] = n => id[x] < i)
    <3>1. id[x] < next_id[From[x]]
      BY <2>2, Zenon DEF RestartInv, LiveIdsDistinct
    <3>2. CASE From[x] = n
      BY <1>0, <1>2, <1>3, <3>1, <3>2
    <3>3. CASE From[x] # n
      BY <1>2, <1>3, <3>1, <3>3, Zenon
    <3> QED
      BY <3>2, <3>3, Zenon
  <2>3. id'[m] < next_id'[From[m]]
    BY <1>0, <1>2
  <2>4. ASSUME NEW x \in Msg, x # m, Live(x), From[x] = n PROVE id[x] # id'[m]
    <3>1. id[x] < i
      BY <2>2, <2>4, Zenon
    <3> QED
      BY <3>1, <1>2, <1>3
  <2>5. \A x, y \in Msg : Live(x) /\ Live(y) /\ From[x] = From[y] /\ id[x] = id[y] => x = y
    BY Zenon DEF RestartInv, LiveIdsDistinct
  <2>6. ASSUME NEW x \in Msg, NEW y \in Msg, Live(x)', Live(y)', From[x] = From[y], id'[x] = id'[y]
        PROVE  x = y
    BY <1>0, <2>1, <2>4, <2>5, <2>6, Zenon
  <2> QED
    BY <2>1, <2>2, <2>3, <2>6, Zenon DEF LiveIdsDistinct
<1>7. BroadcastsUntracked'
  BY <1>2 DEF RestartInv, BroadcastsUntracked
<1> QED
  BY <1>5, <1>6, <1>7, Zenon DEF RestartInv

\* Every other step of a sender, and a lost copy: no message is waited for that
\* was not, and a frame in the air is an old one or a message again.
LEMMA QuietRestartInv ==
  ASSUME IInv, IInv', RestartInv, UNCHANGED <<next_id, id>>,
         \A x \in Msg : Live(x)' => Live(x),
         BroadcastsUntracked',
         \A c \in air' : c \in air \/ \E m \in Msg : c.frame = TextFrame(m, From[m], id[m])
  PROVE  RestartInv'
<1>1. TypeOK /\ TypeOK' /\ id' = id /\ next_id' = next_id
  BY Zenon DEF IInv
<1>2. \A x \in Msg : next_id[From[x]] \in Nat
  BY <1>1, Addresses, ConstantsAssumption DEF TypeOK, ConstantsAssumption
<1>3. \A x \in Msg : next_id[From[x]] <= next_id'[From[x]]
  BY <1>1, <1>2
<1>4. LiveIdsDistinct'
  BY <1>1, <1>3, LiveIdsKept, Zenon DEF RestartInv
<1>5. HopsFall' /\ AckChainEnds'
  BY <1>1, TextSane, FramesKept, Zenon DEF RestartInv
<1> QED
  BY <1>4, <1>5, Zenon DEF RestartInv

\* meshtastic_reliable_track() and reliable_work_fn()
LEMMA SenderRestartInv ==
  ASSUME IInv, IInv', RestartInv, NEW m \in Msg, Track(m) \/ Retransmit(m) \/ GiveUp(m)
  PROVE  RestartInv'
<1>1. /\ UNCHANGED <<next_id, id>> /\ Live(m)
      /\ \/ status' = status
         \/ status' = [status EXCEPT ![m] = "pending"] /\ To[m] # Broadcast
         \/ status' = [status EXCEPT ![m] = "untracked"]
         \/ status' = [status EXCEPT ![m] = "no_ack"] /\ status[m] = "pending"
      /\ \/ air' = air
         \/ air' = air \cup Copies(From[m], TextFrame(m, From[m], id[m])) /\ status[m] = "pending"
  BY DEF Track, Retransmit, GiveUp, Live
<1>2. status \in [Msg -> Status] /\ TypeOK /\ SentFirst
  BY Zenon DEF IInv, TypeOK
<1>3. /\ \A x \in Msg : Live(x)' => Live(x)
      /\ \A x \in Msg : status'[x] \in {"pending", "acked", "no_ack"} =>
           \/ status[x] \in {"pending", "acked", "no_ack"}
           \/ To[x] # Broadcast
  BY <1>1, <1>2, Zenon DEF Live
<1>4. BroadcastsUntracked'
  BY <1>3, Zenon DEF RestartInv, BroadcastsUntracked
<1>5. ASSUME NEW c \in air', c \notin air PROVE c.frame = TextFrame(m, From[m], id[m])
  <2>1. status[m] = "pending" /\ c \in Copies(From[m], TextFrame(m, From[m], id[m]))
    BY <1>1, <1>5, Zenon
  <2>2. id[m] \in Id
    <3>1. status[m] # "idle"
      BY <2>1
    <3>2. id[m] # 0
      BY <1>2, <3>1, Zenon DEF SentFirst
    <3>3. id \in [Msg -> 0 .. MaxId]
      BY <1>2, Zenon DEF TypeOK
    <3> QED BY <3>2, <3>3 DEF Id
  <2>3. TextFrame(m, From[m], id[m]) \in Frame /\ From[m] \in Node
    BY <2>2, TextFrameType, Addresses, Zenon
  <2> QED
    BY <2>1, <2>3, CopiesFacts, Zenon
<1> QED
  BY <1>1, <1>3, <1>4, <1>5, QuietRestartInv, Zenon

\* meshtastic_router_process_lora_rx(): what it sends answers the frame or
\* relays it, and it ends waits only.
LEMMA ReceiveRestartInv ==
  ASSUME IInv, IInv', RestartInv, NEW c \in air, Receive(c)
  PROVE  RestartInv'
<1>0. PICK n \in Node, f \in Frame : n = c.at /\ f = c.frame
  BY DEF IInv, TypeOK
<1>1. TypeOK /\ TypeOK' /\ FrameTrue(f) /\ Arrives(n, f) /\ id' = id
  BY <1>0, Zenon DEF IInv, AirIsTrue, Receive, Arrives
<1>2. f.start > 0 /\ f.hop <= f.start /\ AsksForMessage(f)
  BY <1>0, Zenon DEF RestartInv, HopsFall, AckChainEnds
<1>3. /\ \A x \in Msg : \/ status'[x] = status[x]
                        \/ status'[x] = "acked" /\ status[x] = "pending"
      /\ \A k \in Node : next_id[k] <= next_id'[k]
  BY <1>1, ArrivesStatus, Zenon DEF Settled
<1>4. LiveIdsDistinct'
  <2>1. \A x \in Msg : Live(x)' => Live(x) /\ next_id[From[x]] <= next_id'[From[x]]
    BY <1>3, Addresses, Zenon DEF Live
  <2> QED
    BY <1>1, <2>1, LiveIdsKept, Zenon DEF RestartInv
<1>5. BroadcastsUntracked'
  BY <1>3 DEF RestartInv, BroadcastsUntracked
<1>6. ASSUME NEW g \in Frame, AsksForMessage(g) PROVE AsksForMessage(g)'
  BY <1>1, <1>6, AsksKept, Zenon
<1>7. ASSUME NEW d \in air', d \notin air
      PROVE  /\ d.frame.start > 0 /\ d.frame.hop <= d.frame.start
             /\ AsksForMessage(d.frame)'
  <2>1. CASE d \in Copies(n, AckFrame(n, f)) /\ NeedsAck(n, f) /\ next_id[n] <= MaxId
    <3>1. AckFrame(n, f) \in Frame
      BY <1>1, <2>1, AckFrameType, Zenon
    <3>2. d.frame = AckFrame(n, f)
      BY <2>1, <3>1, CopiesFacts, Zenon
    <3>3. AsksForMessage(AckFrame(n, f))
      BY <1>1, <1>2, <2>1, AckSane, Zenon
    <3>4. AckFrame(n, f).start > 0 /\ AckFrame(n, f).hop <= AckFrame(n, f).start
      BY <1>2, AckHops, Zenon
    <3> QED
      BY <1>6, <3>1, <3>2, <3>3, <3>4, Zenon
  <2>2. CASE d \in Copies(n, [f EXCEPT !.hop = f.hop - 1]) /\ f.hop > 0
    <3>1. PICK g : g = [f EXCEPT !.hop = f.hop - 1]
      BY Zenon
    <3>2. /\ g \in Frame /\ g.hop = f.hop - 1 /\ g.start = f.start /\ g.port = f.port
          /\ g.msg = f.msg /\ g.want_ack = f.want_ack /\ g.request_id = f.request_id
          /\ g.dest = f.dest /\ g.src = f.src /\ g.hop <= g.start
      BY <1>2, <2>2, <3>1 DEF Frame
    <3>3. AsksForMessage(g)
      BY <1>2, <3>2, Zenon DEF AsksForMessage
    <3>4. d.frame = g
      BY <2>2, <3>1, <3>2, CopiesFacts, Zenon
    <3> QED
      BY <1>2, <1>6, <3>2, <3>3, <3>4, Zenon
  <2> QED
    BY <1>1, <1>7, <2>1, <2>2, ArrivesAir, Zenon
<1>8. HopsFall' /\ AckChainEnds'
  BY <1>1, <1>7, FramesKept, Zenon DEF RestartInv
<1> QED
  BY <1>4, <1>5, <1>8, Zenon DEF RestartInv

\* meshtastic_init(): the node starts its IDs again and waits for none of its
\* messages any more.
LEMMA PowerCycleRestartInv ==
  ASSUME IInv, IInv', RestartInv, NEW n \in Node, Restart(n)
  PROVE  RestartInv'
<1>1. /\ TypeOK /\ TypeOK' /\ id' = id /\ air' = air
      /\ next_id' = [next_id EXCEPT ![n] = 1]
      /\ status' = [m \in Msg |-> IF From[m] = n /\ status[m] \in {"sending", "pending"}
                                    THEN "dropped" ELSE status[m]]
  BY Zenon DEF IInv, Restart
<1>2. \A m \in Msg : Live(m)' => Live(m) /\ From[m] # n
  BY <1>1 DEF Live
<1>3. ASSUME NEW m \in Msg, From[m] # n PROVE next_id[From[m]] <= next_id'[From[m]]
  <2>1. next_id \in [Node -> 1 .. MaxId + 1] /\ From[m] \in Node /\ MaxId \in Nat
    BY <1>1, Addresses, ConstantsAssumption, Zenon DEF TypeOK, ConstantsAssumption
  <2>2. next_id'[From[m]] = next_id[From[m]] /\ next_id[From[m]] \in Nat
    BY <1>1, <1>3, <2>1
  <2> QED
    BY <2>2
<1>4. LiveIdsDistinct'
  BY <1>1, <1>2, <1>3, LiveIdsKept, Zenon DEF RestartInv
<1>5. BroadcastsUntracked'
  BY <1>1 DEF RestartInv, BroadcastsUntracked
<1>6. HopsFall' /\ AckChainEnds'
  BY <1>1, FramesKept, Zenon DEF RestartInv
<1> QED
  BY <1>4, <1>5, <1>6, Zenon DEF RestartInv

\* What the acknowledgements rely on holds across restarts, for every topology,
\* cache size and number of restarts.
THEOREM HoldsAcrossRestarts == Spec => []RestartInv
<1>1. Init => RestartInv
  BY DEF Init, RestartInv, LiveIdsDistinct, Live, BroadcastsUntracked, AckChainEnds, HopsFall
<1>2. ASSUME IInv, IInv', RestartInv, [Next]_vars PROVE RestartInv'
  <2>1. ASSUME NEW m \in Msg, Send(m) PROVE RestartInv'
    BY <1>2, <2>1, SendRestartInv, Zenon
  <2>2. ASSUME NEW m \in Msg, Track(m) \/ Retransmit(m) \/ GiveUp(m) PROVE RestartInv'
    BY <1>2, <2>2, SenderRestartInv, Zenon
  <2>3. ASSUME NEW c \in air, Receive(c) PROVE RestartInv'
    BY <1>2, <2>3, ReceiveRestartInv, Zenon
  <2>4. ASSUME NEW n \in Restartable, Restart(n) PROVE RestartInv'
    <3>1. n \in Node
      BY ConstantsAssumption, Zenon DEF ConstantsAssumption
    <3> QED
      BY <1>2, <2>4, <3>1, PowerCycleRestartInv, Zenon
  <2>5. CASE UNCHANGED vars \/ \E c \in air : Lose(c)
    <3>1. UNCHANGED <<next_id, id, status>> /\ air' \subseteq air
      BY <2>5 DEF vars, Lose
    <3>2. BroadcastsUntracked' /\ \A x \in Msg : Live(x)' => Live(x)
      BY <1>2, <3>1 DEF RestartInv, BroadcastsUntracked, Live
    <3> QED
      BY <1>2, <3>1, <3>2, QuietRestartInv
  <2> QED
    BY <1>2, <2>1, <2>2, <2>3, <2>4, <2>5, Zenon DEF Next
<1> QED
  BY <1>1, <1>2, Inductive, PTL DEF Spec

\* An acknowledgement may travel as far as the packet it answers came: the hop
\* limit of routing_hop_limit_for_reply() is never too small for the way back.
THEOREM AcksReachTheirSenders == Spec => []AckReachesSender
<1>1. TypeOK /\ HopsFall => AckReachesSender
  <2> SUFFICES ASSUME TypeOK, HopsFall, NEW c \in air
               PROVE  AckFrame(c.at, c.frame).hop >= c.frame.start - c.frame.hop
    BY Zenon DEF AckReachesSender
  <2>1. PICK n \in Node, f \in Frame : n = c.at /\ f = c.frame
    BY DEF TypeOK
  <2>2. f.start > 0 /\ f.hop <= f.start
    BY <2>1, Zenon DEF HopsFall
  <2>3. AckFrame(n, f).hop >= f.start - f.hop
    BY <2>2, AckHops, Zenon
  <2> QED
    BY <2>1, <2>3, Zenon
<1>2. RestartInv => HopsFall
  BY Zenon DEF RestartInv
<1> QED
  BY <1>1, <1>2, HoldsAcrossRestarts, TypeCorrect, PTL

\* An acknowledgement asks for another one only if it answers a message.
THEOREM AcksOfAcksEnd == Spec => []AckChainEnds
<1>1. RestartInv => AckChainEnds
  BY Zenon DEF RestartInv
<1> QED
  BY <1>1, HoldsAcrossRestarts, PTL
-----------------------------------------------------------------------------
(* The mesh keeps the contract *)

\* A step that changes what the contract knows of one message
LEMMA BarUpdate ==
  ASSUME NEW m \in Msg, NEW v, StatusOf(m)' = v,
         \A x \in Msg \ {m} : status'[x] = status[x]
  PROVE  statusBar' = [statusBar EXCEPT ![m] = v] /\ statusBar[m] = StatusOf(m)
<1>1. \A x \in Msg \ {m} : StatusOf(x)' = StatusOf(x)
  BY Zenon DEF StatusOf
<1> QED
  BY <1>1, Zenon DEF statusBar

\* A step that changes nothing the contract knows
LEMMA BarSame ==
  ASSUME \A x \in Msg : StatusOf(x)' = StatusOf(x)
  PROVE  statusBar' = statusBar
  BY Zenon DEF statusBar

\* A step of the sender: a direct message is accepted when it is sent, a broadcast
\* is declined when it is not tracked, and giving up is an outcome.
LEMMA SenderKeepsContract ==
  ASSUME IInv, RestartInv, NEW m \in Msg, Send(m) \/ Track(m) \/ GiveUp(m)
  PROVE  D!Next \/ UNCHANGED statusBar
<1>1. status \in [Msg -> Status]
  BY Zenon DEF IInv, TypeOK
<1>2. PICK s \in Status : /\ status' = [status EXCEPT ![m] = s]
                          /\ \/ status[m] = "idle" /\ s = "sending"
                             \/ status[m] = "sending" /\ s = "pending" /\ To[m] # Broadcast
                             \/ status[m] = "sending" /\ s = "untracked" /\ To[m] = Broadcast
                             \/ status[m] = "pending" /\ s = "no_ack"
  BY DEF Send, Track, GiveUp, Status
<1>3. status'[m] = s /\ \A x \in Msg \ {m} : status'[x] = status[x]
  BY <1>1, <1>2, Zenon
<1>4. status[m] = "pending" => To[m] # Broadcast
  BY Zenon DEF RestartInv, BroadcastsUntracked
<1>5. \/ StatusOf(m)' = StatusOf(m)
      \/ StatusOf(m) = "idle" /\ StatusOf(m)' = "pending"
      \/ StatusOf(m) = "idle" /\ StatusOf(m)' = "untracked"
      \/ StatusOf(m) = "pending" /\ StatusOf(m)' = "no_ack"
  BY <1>2, <1>3, <1>4 DEF StatusOf
<1>6. CASE StatusOf(m)' = StatusOf(m)
  <2>1. \A x \in Msg \ {m} : StatusOf(x)' = StatusOf(x)
    BY <1>3, Zenon DEF StatusOf
  <2> QED
    BY <1>6, <2>1, BarSame, Zenon
<1>7. CASE StatusOf(m) = "idle" /\ StatusOf(m)' = "pending"
  <2>1. D!Accept(m)
    BY <1>3, <1>7, BarUpdate, Zenon DEF D!Accept
  <2> QED
    BY <2>1, Zenon DEF D!Next
<1>8. CASE StatusOf(m) = "idle" /\ StatusOf(m)' = "untracked"
  <2>1. D!Decline(m)
    BY <1>3, <1>8, BarUpdate, Zenon DEF D!Decline
  <2> QED
    BY <2>1, Zenon DEF D!Next
<1>9. CASE StatusOf(m) = "pending" /\ StatusOf(m)' = "no_ack"
  <2>1. D!Report(m, "no_ack")
    BY <1>3, <1>9, BarUpdate, Zenon DEF D!Report
  <2> QED
    BY <2>1, Zenon DEF D!Next
<1> QED
  BY <1>5, <1>6, <1>7, <1>8, <1>9, Zenon

\* An acknowledgement reports an outcome of one message at most: the messages its
\* receiver waits for have IDs of their own.
LEMMA ReceiveKeepsContract ==
  ASSUME IInv, RestartInv, NEW c \in air, Receive(c)
  PROVE  D!Next \/ UNCHANGED statusBar
<1>0. PICK n \in Node, f \in Frame : n = c.at /\ f = c.frame
  BY DEF IInv, TypeOK
<1>1. TypeOK /\ Arrives(n, f)
  BY <1>0, Zenon DEF IInv, Receive, Arrives
<1>2. \A x \in Msg : \/ status'[x] = status[x]
                     \/ status'[x] = "acked" /\ x \in Settled(n, f)
  BY <1>1, ArrivesStatus, Zenon
<1>3. \A x, y \in Settled(n, f) : x = y
  BY Zenon DEF Settled, RestartInv, LiveIdsDistinct, Live
<1>4. CASE \A x \in Msg : status'[x] = status[x]
  <2>1. \A x \in Msg : StatusOf(x)' = StatusOf(x)
    BY <1>4, Zenon DEF StatusOf
  <2> QED
    BY <2>1, BarSame, Zenon
<1>5. CASE \E x \in Msg : status'[x] # status[x]
  <2>1. PICK x \in Msg : status'[x] # status[x]
    BY <1>5, Zenon
  <2>2. status'[x] = "acked" /\ x \in Settled(n, f)
    BY <1>2, <2>1, Zenon
  <2>3. \A y \in Msg \ {x} : status'[y] = status[y]
    BY <1>2, <1>3, <2>2, Zenon
  <2>4. status[x] = "pending" /\ To[x] # Broadcast
    BY <2>2, Zenon DEF Settled, RestartInv, BroadcastsUntracked
  <2>5. StatusOf(x) = "pending" /\ StatusOf(x)' = "acked"
    BY <2>2, <2>4, Zenon DEF StatusOf
  <2>6. D!Report(x, "acked")
    BY <2>3, <2>5, BarUpdate, Zenon DEF D!Report
  <2> QED
    BY <2>6, Zenon DEF D!Next
<1> QED
  BY <1>4, <1>5, Zenon

\* A power cycle drops the direct messages the node waits for, and no others.
LEMMA PowerCycleKeepsContract ==
  ASSUME IInv, RestartInv, NEW n \in Node, Restart(n)
  PROVE  D!Next
<1> DEFINE S == {m \in Msg : From[m] = n /\ Live(m) /\ To[m] # Broadcast}
<1>1. \A m \in Msg : status'[m] = IF From[m] = n /\ Live(m) THEN "dropped" ELSE status[m]
  BY Zenon DEF Restart, Live
<1>2. ASSUME NEW m \in S PROVE StatusOf(m) = "pending" /\ StatusOf(m)' = "dropped"
  BY <1>1 DEF StatusOf, Live
<1>3. ASSUME NEW m \in Msg \ S PROVE StatusOf(m)' = StatusOf(m)
  <2>1. CASE From[m] = n /\ Live(m)
    <3>1. To[m] = Broadcast /\ status[m] = "sending" /\ status'[m] = "dropped"
      BY <1>1, <2>1 DEF Live, RestartInv, BroadcastsUntracked
    <3> QED
      BY <3>1, Zenon DEF StatusOf
  <2>2. CASE ~(From[m] = n /\ Live(m))
    BY <1>1, <2>2, Zenon DEF StatusOf
  <2> QED
    BY <2>1, <2>2, Zenon
<1>4. /\ \A m \in S : statusBar[m] = "pending"
      /\ statusBar' = [m \in Msg |-> IF m \in S THEN "dropped" ELSE statusBar[m]]
  BY <1>2, <1>3, Zenon DEF statusBar
<1>5. S \in SUBSET Msg /\ D!Drop(S)
  BY <1>4 DEF D!Drop
<1> QED
  BY <1>5, Zenon DEF D!Next

\* The mesh keeps the contract that the table of one node implements (Reliable):
\* between the nodes too, a direct message gets one final outcome at most, and
\* an acknowledgement with an ID that was used again settles no second message.
THEOREM MeshHonoursDelivery == Spec => Contract
<1>1. Init => D!Init
  BY DEF Init, D!Init, statusBar, StatusOf
<1>2. ASSUME IInv, RestartInv, [Next]_vars PROVE [D!Next]_statusBar
  <2>1. ASSUME NEW m \in Msg, Send(m) \/ Track(m) \/ GiveUp(m) PROVE [D!Next]_statusBar
    BY <1>2, <2>1, SenderKeepsContract, Zenon
  <2>2. ASSUME NEW c \in air, Receive(c) PROVE [D!Next]_statusBar
    BY <1>2, <2>2, ReceiveKeepsContract, Zenon
  <2>3. ASSUME NEW n \in Restartable, Restart(n) PROVE [D!Next]_statusBar
    <3>1. n \in Node
      BY ConstantsAssumption, Zenon DEF ConstantsAssumption
    <3> QED
      BY <1>2, <2>3, <3>1, PowerCycleKeepsContract, Zenon
  <2>4. CASE UNCHANGED vars \/ (\E c \in air : Lose(c)) \/ \E m \in Msg : Retransmit(m)
    <3>1. status' = status
      BY <2>4 DEF vars, Lose, Retransmit
    <3>2. \A x \in Msg : StatusOf(x)' = StatusOf(x)
      BY <3>1, Zenon DEF StatusOf
    <3> QED
      BY <3>2, BarSame, Zenon
  <2> QED
    BY <1>2, <2>1, <2>2, <2>3, <2>4, Zenon DEF Next
<1> QED
  BY <1>1, <1>2, Inductive, HoldsAcrossRestarts, PTL DEF Spec, Contract, D!Spec
=============================================================================
