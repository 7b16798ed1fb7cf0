------------------------------- MODULE Frames -------------------------------
(***************************************************************************)
(* The FromRadio frames a transport sends its phone, and the handshake the *)
(* phone expects in answer to want_config: which frames it has and in      *)
(* which order they come.  A frame is its variant and, for what the        *)
(* properties compare, its number and the request it belongs to.           *)
(***************************************************************************)
EXTENDS Integers, Sequences

CONSTANTS
  MaxChannels,          \* MESHTASTIC_MAX_CHANNELS
  NConfigs, NModules,   \* entries of config_tags and module_tags
  NoConfig, NoModule,   \* indices of the tags the configuration store lacks
  MaxRequests           \* bound: want_config requests of the phone

ASSUME FramesAssumption ==
  /\ MaxChannels \in Nat \ {0}
  /\ NConfigs \in Nat /\ NModules \in Nat
  /\ NoConfig \subseteq 0 .. NConfigs - 1 /\ NoModule \subseteq 0 .. NModules - 1
  /\ MaxRequests \in Nat

Stage ==
  {"MY_INFO", "DEVICE_UI", "NODE_INFO", "METADATA", "CHANNELS", "CONFIGS", "MODULES",
   "QUEUE_STATUS", "COMPLETE"}

Request == 0 .. MaxRequests          \* 0: no request yet

FrameType == Stage \cup {"packet", "queueStatus", "rebooted"}

Frame == [type : FrameType, at : Nat, request : Request]

Packet(n) == [type |-> "packet", at |-> n, request |-> 0]
QueueStatus == [type |-> "queueStatus", at |-> 0, request |-> 0]
Rebooted == [type |-> "rebooted", at |-> 0, request |-> 0]

IsConfig(f) == f.type \in Stage

-----------------------------------------------------------------------------
(* The handshake *)

Rank ==
  [MY_INFO |-> 1, DEVICE_UI |-> 2, NODE_INFO |-> 3, METADATA |-> 4, CHANNELS |-> 5,
   CONFIGS |-> 6, MODULES |-> 7, QUEUE_STATUS |-> 8, COMPLETE |-> 9]

Entries(stage) ==
  CASE stage = "CHANNELS" -> 0 .. MaxChannels - 1
    [] stage = "CONFIGS" -> (0 .. NConfigs - 1) \ NoConfig
    [] stage = "MODULES" -> (0 .. NModules - 1) \ NoModule
    [] OTHER -> {0}

Handshake(r) ==
  UNION {{[type |-> s, at |-> i, request |-> r] : i \in Entries(s)} : s \in Stage}

Before(f, g) == Rank[f.type] < Rank[g.type] \/ (f.type = g.type /\ f.at < g.at)

\* The frames of c are the first ones of handshake r, in order and without a gap.
Begins(c, r) ==
  /\ \A i \in 1 .. Len(c) : c[i] \in Handshake(r)
  /\ \A i, j \in 1 .. Len(c) : i < j => Before(c[i], c[j])
  /\ \A e \in Handshake(r), i \in 1 .. Len(c) :
       Before(e, c[i]) => \E j \in 1 .. Len(c) : c[j] = e

-----------------------------------------------------------------------------
(* What a phone remembers: the numbers of the packets, and the frames of the
   latest handshake it heard from. *)

Nothing == [packets |-> <<>>, config |-> <<>>]

Hearing(h, f) ==
  IF f.type = "packet" THEN [h EXCEPT !.packets = Append(@, f.at)]
  ELSE IF ~IsConfig(f) THEN h
  ELSE IF h.config # <<>> /\ h.config[1].request = f.request
    THEN [h EXCEPT !.config = Append(@, f)]
  ELSE [h EXCEPT !.config = <<f>>]
=============================================================================
