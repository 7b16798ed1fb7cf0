-------------------------------- MODULE Mesh --------------------------------
(***************************************************************************)
(* Several nodes on one channel: the router (meshtastic_router.c), the     *)
(* acknowledgements (meshtastic_routing.c), packet IDs and sending         *)
(* (meshtastic.c), and the acknowledgement table as the contract that      *)
(* Reliable.tla implements.  A transmission puts one copy of the frame in  *)
(* the air for every neighbour.  Each copy is received at some later time, *)
(* in any order, or lost: by the channel, by a full receive queue or by a  *)
(* full transmit queue.                                                    *)
(***************************************************************************)
EXTENDS Naturals, Sequences, FiniteSets

CONSTANTS
  Node,
  Broadcast,        \* MESHTASTIC_NODE_BROADCAST
  Neighbour,        \* Neighbour[n]: the nodes that hear n
  Keyless,          \* nodes without the channel's key: they relay, undecoded
  Rebroadcaster,    \* nodes whose role and rebroadcast mode let them relay
  Msg,              \* text messages the applications send, once each
  NoMsg,            \* the payload of a ROUTING packet
  From, To,         \* From[m], To[m]: sender and destination of a message
  HopLimit,         \* HopLimit[n]: mt.hop_limit
  Retransmissions,  \* CONFIG_MESHTASTIC_RELIABLE_RETRANSMISSIONS
  DupCacheSize,     \* CONFIG_MESHTASTIC_DUP_CACHE_SIZE
  MaxAir,           \* bound: copies in the air at one time
  MaxId,            \* bound: packet IDs a node hands out between restarts
  Restartable,      \* nodes that may be power-cycled
  MaxRestarts       \* bound: restarts of each of them

ASSUME ConstantsAssumption ==
  /\ Broadcast \notin Node /\ NoMsg \notin Msg
  /\ Neighbour \in [Node -> SUBSET Node]
  /\ Keyless \subseteq Node /\ Rebroadcaster \subseteq Node
  /\ From \in [Msg -> Node] /\ To \in [Msg -> Node \cup {Broadcast}]
  /\ \A m \in Msg : From[m] # To[m]
  /\ HopLimit \in [Node -> 1 .. 7]
  /\ Retransmissions \in Nat /\ DupCacheSize \in Nat \ {0}
  /\ Restartable \subseteq Node
  /\ MaxAir \in Nat /\ MaxId \in Nat /\ MaxRestarts \in Nat

VARIABLES
  next_id,    \* next_id[n]: mt.next_pkt_id
  dup,        \* dup[n]: mt.dup_cache, the oldest key first
  forgot,     \* forgot[n]: keys that left n's cache
  air,        \* copies of frames on their way to a neighbour
  status,     \* status[m]: what m's sender knows of it
  id,         \* id[m]: the packet ID m was sent under
  left,       \* left[m]: retransmissions m may still get
  got,        \* got[n][m]: how often n's application was given m
  relays,     \* relays[n][k]: how often n relayed the packet with key k
  restarts    \* restarts[n]: power cycles of n

vars == <<next_id, dup, forgot, air, status, id, left, got, relays, restarts>>

Id == 1 .. MaxId

Key == Node \X Id           \* (source, packet ID), what the cache stores

Frame ==
  [src : Node, dest : Node \cup {Broadcast}, id : Id, hop : 0 .. 7, start : 0 .. 7,
   port : {"text", "routing"}, want_ack : BOOLEAN, request_id : 0 .. MaxId,
   msg : Msg \cup {NoMsg}]

Status == {"idle", "sending", "untracked", "pending", "acked", "no_ack", "dropped"}

KeyOf(f) == <<f.src, f.id>>

Init ==
  /\ next_id = [n \in Node |-> 1]
  /\ dup = [n \in Node |-> <<>>]
  /\ forgot = [n \in Node |-> {}]
  /\ air = {}
  /\ status = [m \in Msg |-> "idle"]
  /\ id = [m \in Msg |-> 0]
  /\ left = [m \in Msg |-> 0]
  /\ got = [n \in Node |-> [m \in Msg |-> 0]]
  /\ relays = [n \in Node |-> [k \in Key |-> 0]]
  /\ restarts = [n \in Node |-> 0]
-----------------------------------------------------------------------------
(* Sending *)

Copies(n, f) == {[frame |-> f, at |-> k] : k \in Neighbour[n]}

\* send_packet_prepare(): hop limit 0 means the configured one.
SendHops(n, hops) == IF hops = 0 THEN HopLimit[n] ELSE hops

TextFrame(m, n, i) ==
  [src |-> n, dest |-> To[m], id |-> i, hop |-> HopLimit[n], start |-> HopLimit[n],
   port |-> "text", want_ack |-> To[m] # Broadcast, request_id |-> 0, msg |-> m]

\* meshtastic_send_packet() up to the end of the transmission.
Send(m) ==
  LET n == From[m]
  IN  /\ status[m] = "idle"
      /\ next_id[n] <= MaxId
      /\ next_id' = [next_id EXCEPT ![n] = @ + 1]
      /\ id' = [id EXCEPT ![m] = next_id[n]]
      /\ air' = air \cup Copies(n, TextFrame(m, n, next_id[n]))
      /\ Cardinality(air') <= MaxAir
      /\ status' = [status EXCEPT ![m] = "sending"]
      /\ UNCHANGED <<dup, forgot, left, got, relays, restarts>>

\* meshtastic_reliable_track(), with a table that has room.
Track(m) ==
  /\ status[m] = "sending"
  /\ \/ /\ To[m] # Broadcast
        /\ status' = [status EXCEPT ![m] = "pending"]
        /\ left' = [left EXCEPT ![m] = Retransmissions]
     \/ /\ To[m] = Broadcast
        /\ status' = [status EXCEPT ![m] = "untracked"]
        /\ UNCHANGED left
  /\ UNCHANGED <<next_id, dup, forgot, air, id, got, relays, restarts>>

\* reliable_work_fn(): the stored frame again, or the end of the wait.
Retransmit(m) ==
  /\ status[m] = "pending"
  /\ left[m] > 0
  /\ left' = [left EXCEPT ![m] = @ - 1]
  /\ air' = air \cup Copies(From[m], TextFrame(m, From[m], id[m]))
  /\ Cardinality(air') <= MaxAir
  /\ UNCHANGED <<next_id, dup, forgot, status, id, got, relays, restarts>>

GiveUp(m) ==
  /\ status[m] = "pending"
  /\ left[m] = 0
  /\ status' = [status EXCEPT ![m] = "no_ack"]
  /\ UNCHANGED <<next_id, dup, forgot, air, id, left, got, relays, restarts>>
-----------------------------------------------------------------------------
(* Receiving *)

\* Mutant: the loop stops one slot early.
RemembersMutant(n, k) == \E i \in 1 .. (Len(dup[n]) - 1) : dup[n][i] = k

Remembers(n, k) == \E i \in 1 .. Len(dup[n]) : dup[n][i] = k       \* dup_check

\* Mutant: the head does not advance.
DupAddStuck(n, k) ==
  /\ dup' = [dup EXCEPT ![n] = <<k>>]
  /\ UNCHANGED forgot

\* dup_add(): the ring overwrites its oldest key.
DupAdd(n, k) ==
  IF Len(dup[n]) < DupCacheSize
    THEN /\ dup' = [dup EXCEPT ![n] = Append(@, k)]
         /\ UNCHANGED forgot
    ELSE /\ dup' = [dup EXCEPT ![n] = Append(Tail(@), k)]
         /\ forgot' = [forgot EXCEPT ![n] = @ \cup {Head(dup[n])}]

IsToUs(n, f) == f.dest = n \/ f.dest = Broadcast

\* meshtastic_reliable_on_routing(): the entries a ROUTING packet settles.
Settled(n, f) ==
  {m \in Msg : /\ f.port = "routing" /\ f.dest = n /\ f.request_id # 0
               /\ From[m] = n /\ status[m] = "pending" /\ id[m] = f.request_id}

\* routing_hop_limit_for_reply(): the way the request came, and two more.
HopLimitForReply(own, hop, start) ==
  IF start = 0 THEN 0
  ELSE IF start < hop THEN own
  ELSE IF start - hop > own THEN start - hop
  ELSE IF start - hop + 2 < own THEN start - hop + 2
  ELSE own

\* Mutant: every acknowledgement of a direct packet asks for another.
AckWantsAckMutant(n, f) == f.want_ack /\ f.dest = n

\* routing_ack_should_request_ack(): only for direct text messages.
AckWantsAck(n, f) == f.want_ack /\ f.dest = n /\ f.port = "text"

AckFrame(n, f) ==
  LET hops == SendHops(n, HopLimitForReply(HopLimit[n], f.hop, f.start))
  IN  [src |-> n, dest |-> f.src, id |-> next_id[n], hop |-> hops, start |-> hops,
       port |-> "routing", want_ack |-> AckWantsAck(n, f), request_id |-> f.id,
       msg |-> NoMsg]

NeedsAck(n, f) == f.src # n /\ f.want_ack /\ f.dest = n

\* meshtastic_routing_on_decoded(): settle, then acknowledge.
OnDecoded(n, f) ==
  /\ status' = IF IsToUs(n, f) /\ f.src # n
                 THEN [m \in Msg |-> IF m \in Settled(n, f) THEN "acked" ELSE status[m]]
                 ELSE status
  /\ next_id' = IF NeedsAck(n, f) THEN [next_id EXCEPT ![n] = @ + 1] ELSE next_id

Acks(n, f) == IF NeedsAck(n, f) THEN Copies(n, AckFrame(n, f)) ELSE {}

\* meshtastic_routing_sniff_rebroadcast() and relay_packet().
MayRelay(n, f) == n \in Rebroadcaster /\ f.src # n /\ f.dest # n /\ f.hop > 0

Relays(n, f) ==
  IF MayRelay(n, f) THEN Copies(n, [f EXCEPT !.hop = @ - 1]) ELSE {}

\* meshtastic_try_decode_wire_packet(): needs the key of the packet's channel.
Decodes(n, f) == n \notin Keyless

\* reack_duplicate()
ReceiveDuplicate(n, f) ==
  /\ Remembers(n, KeyOf(f))
  /\ IF f.want_ack /\ f.dest = n /\ Decodes(n, f)
       THEN OnDecoded(n, f) /\ air' = (air \ {[frame |-> f, at |-> n]}) \cup Acks(n, f)
       ELSE air' = air \ {[frame |-> f, at |-> n]} /\ UNCHANGED <<status, next_id>>
  /\ UNCHANGED <<dup, forgot, got, relays>>

\* Mutant: only broadcasts reach the application.
DeliversToMutant(n, f) == f.dest = Broadcast

DeliversTo(n, f) == f.dest = n \/ f.dest = Broadcast

\* meshtastic_handle_inbound_packet(): deliver, acknowledge, relay.
ReceiveNew(n, f) ==
  /\ ~Remembers(n, KeyOf(f))
  /\ DupAdd(n, KeyOf(f))
  /\ IF ~Decodes(n, f)
       THEN /\ air' = (air \ {[frame |-> f, at |-> n]}) \cup Relays(n, f)
            /\ UNCHANGED <<status, next_id, got>>
       ELSE /\ air' = (air \ {[frame |-> f, at |-> n]}) \cup Acks(n, f) \cup Relays(n, f)
            /\ OnDecoded(n, f)
            /\ got' = IF DeliversTo(n, f) /\ f.msg # NoMsg
                        THEN [got EXCEPT ![n][f.msg] = @ + 1] ELSE got
  /\ relays' = IF MayRelay(n, f) THEN [relays EXCEPT ![n][KeyOf(f)] = @ + 1] ELSE relays

\* meshtastic_router_process_lora_rx()
Receive(copy) ==
  LET n == copy.at f == copy.frame
  IN  /\ NeedsAck(n, f) => next_id[n] <= MaxId
      /\ ReceiveDuplicate(n, f) \/ ReceiveNew(n, f)
      /\ Cardinality(air') <= MaxAir
      /\ UNCHANGED <<id, left, restarts>>
-----------------------------------------------------------------------------
(* Power cycle: meshtastic_init() starts from nothing, packet IDs included. *)

Restart(n) ==
  /\ restarts[n] < MaxRestarts
  /\ restarts' = [restarts EXCEPT ![n] = @ + 1]
  /\ next_id' = [next_id EXCEPT ![n] = 1]
  /\ dup' = [dup EXCEPT ![n] = <<>>]
  /\ forgot' = [forgot EXCEPT ![n] = Key]
  /\ status' = [m \in Msg |-> IF From[m] = n /\ status[m] \in {"sending", "pending"}
                                THEN "dropped" ELSE status[m]]
  /\ UNCHANGED <<air, id, left, got, relays>>
-----------------------------------------------------------------------------
Lose(copy) ==
  /\ air' = air \ {copy}
  /\ UNCHANGED <<next_id, dup, forgot, status, id, left, got, relays, restarts>>

Next ==
  \/ \E m \in Msg : Send(m) \/ Track(m) \/ Retransmit(m) \/ GiveUp(m)
  \/ \E copy \in air : Receive(copy) \/ Lose(copy)
  \/ \E n \in Restartable : Restart(n)

Spec == Init /\ [][Next]_vars
-----------------------------------------------------------------------------
(* Properties *)

(* The type invariant: the duplicate ring keeps its size, hop limits and packet
   IDs their range. *)
TypeOK ==
  /\ next_id \in [Node -> 1 .. MaxId + 1]
  /\ dup \in [Node -> Seq(Key)] /\ \A n \in Node : Len(dup[n]) <= DupCacheSize
  /\ forgot \in [Node -> SUBSET Key]
  /\ air \subseteq [frame : Frame, at : Node]
  /\ status \in [Msg -> Status]
  /\ id \in [Msg -> 0 .. MaxId]
  /\ left \in [Msg -> 0 .. Retransmissions]
  /\ got \in [Node -> [Msg -> Nat]]
  /\ relays \in [Node -> [Key -> Nat]]
  /\ restarts \in [Node -> 0 .. MaxRestarts]

Delivered(m) == To[m] \in Node /\ got[To[m]][m] > 0

\* TX_ACKED: the acknowledgement names a packet ID only, travels over relays,
\* may answer a duplicate, may arrive before its packet is tracked and may come
\* from a node that was restarted meanwhile.  It still means that the message
\* was delivered, if its sender was never restarted.
AckedImpliesDelivered ==
  \A m \in Msg : status[m] = "acked" /\ restarts[From[m]] = 0 => Delivered(m)

\* The same without the proviso, as documented: "A packet sent with want_ack
\* reached its destination."  It does not hold: packet IDs restart at 1.
AckMeansDelivered == \A m \in Msg : status[m] = "acked" => Delivered(m)

\* A message reaches each application once, however many paths, relays and
\* retransmissions bring it, as long as the cache still holds its key.
DeliveredOnce ==
  \A n \in Node, m \in Msg : got[n][m] > 1 => <<From[m], id[m]>> \in forgot[n]

\* The flood dies out: a node relays a packet once while it remembers it.
RelayedOnce ==
  \A n \in Node, k \in Key : relays[n][k] > 1 => k \in forgot[n]

\* Acknowledgements that ask to be acknowledged, answers to duplicates and
\* relays of them come to an end: no node needs more than MaxId packet IDs.
AcksComeToAnEnd == \A n \in Node : next_id[n] <= MaxId
-----------------------------------------------------------------------------
(* The facts that make the properties above inductive *)

\* n still counts its packet IDs from its first start.
Fresh(n) == restarts[n] = 0

\* Every packet ID of such a node was handed out before it was used.
IdsUsed ==
  /\ \A m \in Msg : Fresh(From[m]) => id[m] < next_id[From[m]]
  /\ \A n, s \in Node, i \in Id :
       Fresh(s) /\ Remembers(n, <<s, i>>) => i < next_id[s]

IdsDistinct ==
  \A m, o \in Msg :
    Fresh(From[m]) /\ From[m] = From[o] /\ id[m] = id[o] /\ id[m] # 0 => m = o

\* A message has an ID exactly from its send on, and is received after it.
SentFirst ==
  /\ \A m \in Msg : status[m] = "idle" <=> id[m] = 0
  /\ \A m \in Msg, n \in Node : got[n][m] > 0 => id[m] # 0

\* A frame bears IDs that were handed out; it carries the header of its message
\* and not that of another one; the message it acknowledges was delivered.
FrameTrue(f) ==
  /\ Fresh(f.src) => f.id < next_id[f.src]
  /\ f.request_id # 0 =>
       f.dest \in Node /\ (Fresh(f.dest) => f.request_id < next_id[f.dest])
  /\ f.msg # NoMsg =>
       f.src = From[f.msg] /\ f.dest = To[f.msg] /\ f.id = id[f.msg] /\ f.request_id = 0
  /\ \A m \in Msg : Fresh(f.src) /\ From[m] = f.src /\ id[m] = f.id => f.msg = m
  /\ \A m \in Msg :
       f.request_id # 0 /\ id[m] = f.request_id /\ From[m] = f.dest /\ Fresh(f.dest)
         => Delivered(m)

AirIsTrue == \A c \in air : FrameTrue(c.frame)

\* A destination that remembers a message has delivered it.
RememberedIsDelivered ==
  \A n \in Node, m \in Msg :
    Fresh(From[m]) /\ To[m] = n /\ n \notin Keyless /\ id[m] # 0
      /\ Remembers(n, <<From[m], id[m]>>) => got[n][m] > 0

\* What was delivered or relayed is remembered until it is forgotten.
SeenIsKept ==
  /\ \A n \in Node, m \in Msg :
       got[n][m] > 0 =>
         Remembers(n, <<From[m], id[m]>>) \/ <<From[m], id[m]>> \in forgot[n]
  /\ \A n \in Node, k \in Key :
       relays[n][k] > 0 => Remembers(n, k) \/ k \in forgot[n]

IInv ==
  /\ TypeOK /\ IdsUsed /\ IdsDistinct /\ SentFirst /\ AirIsTrue
  /\ RememberedIsDelivered /\ SeenIsKept
  /\ AckedImpliesDelivered /\ DeliveredOnce /\ RelayedOnce
-----------------------------------------------------------------------------
(* What the acknowledgements of the mesh keep true across restarts *)

\* The sender still waits for an outcome of m.
Live(m) == status[m] \in {"sending", "pending"}

\* The messages a sender waits for bear IDs of its current start, each its own:
\* an acknowledgement, which names an ID only, settles one of them at most.
LiveIdsDistinct ==
  /\ \A m \in Msg : Live(m) => id[m] < next_id[From[m]]
  /\ \A m, o \in Msg : Live(m) /\ Live(o) /\ From[m] = From[o] /\ id[m] = id[o] => m = o

\* A broadcast has no outcome: nobody acknowledges it.
BroadcastsUntracked ==
  \A m \in Msg : To[m] = Broadcast => status[m] \notin {"pending", "acked", "no_ack"}

\* routing_ack_should_request_ack(): an acknowledgement asks to be acknowledged
\* only if it answers a message, one that its destination sent to its source.
AsksForMessage(f) ==
  /\ f.port = "text" <=> f.msg # NoMsg
  /\ f.port = "routing" /\ f.want_ack =>
       /\ f.request_id # 0
       /\ \E m \in Msg : From[m] = f.dest /\ To[m] = f.src /\ id[m] = f.request_id

\* So every exchange ends: the acknowledgement of an acknowledgement asks for
\* nothing, whatever is repeated or restarted.
AckChainEnds == \A c \in air : AsksForMessage(c.frame)

\* Relays only lower the hop limit a packet started with, and no packet starts
\* with none.
HopsFall == \A c \in air : c.frame.start > 0 /\ c.frame.hop <= c.frame.start

\* routing_hop_limit_for_reply(): an acknowledgement may travel at least as many
\* hops as the packet it answers took to come.
AckReachesSender ==
  \A c \in air : AckFrame(c.at, c.frame).hop >= c.frame.start - c.frame.hop

RestartInv ==
  /\ LiveIdsDistinct /\ BroadcastsUntracked /\ AckChainEnds /\ HopsFall
-----------------------------------------------------------------------------
(* The contract of Delivery.tla, which Reliable.tla implements within a node,
   kept between the nodes *)

\* What the contract knows of m: a direct message is pending from its send on;
\* of a broadcast there is nothing to know but that it is not tracked.
StatusOf(m) ==
  IF To[m] = Broadcast /\ status[m] \in {"sending", "dropped"} THEN "idle"
  ELSE IF status[m] = "sending" THEN "pending"
  ELSE status[m]

statusBar == [m \in Msg |-> StatusOf(m)]

D == INSTANCE Delivery WITH Packet <- Msg, status <- statusBar

\* Every step of the mesh is a step of the contract: a message gets one outcome
\* at most, and it is final, whatever is lost, relayed, repeated or restarted.
Contract == D!Spec
=============================================================================
