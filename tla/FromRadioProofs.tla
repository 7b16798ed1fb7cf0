--------------------------- MODULE FromRadioProofs ---------------------------
(***************************************************************************)
(* Proofs about FromRadio: whatever joins the line and whatever is lost,   *)
(* packets are heard in order, and a handshake that is not broken is heard *)
(* from its first frame on, in order and without a gap.                    *)
(*                                                                         *)
(* The inductive invariant has a part for the packets, a part for the      *)
(* order of the handshake frames heard, in the line and still to be made,  *)
(* and a part that says that nothing is missing among them.  Each part is  *)
(* an operator on the line, so that a step that loses a frame and adds     *)
(* another one is two applications of it.                                  *)
(***************************************************************************)
EXTENDS FromRadio, PhoneApi, WellFoundedInduction, TLAPS

(* The frames of a handshake *)
LEMMA HandshakeFrame ==
  ASSUME NEW r, NEW f \in Handshake(r)
  PROVE  /\ f.type \in Stage /\ f.at \in Entries(f.type) /\ f.at \in Nat /\ f.request = r
         /\ f = [type |-> f.type, at |-> f.at, request |-> r]
         /\ r \in Request => f \in Frame
<1>1. PICK s \in Stage : f \in {[type |-> s, at |-> i, request |-> r] : i \in Entries(s)}
  BY DEF Handshake
<1>2. PICK i \in Entries(s) : f = [type |-> s, at |-> i, request |-> r]
  BY <1>1
<1>3. i \in Nat
  BY FramesAssumption DEF Entries
<1> QED BY <1>2, <1>3 DEF Frame, FrameType

(* Every entry of every stage has its frame in the handshake. *)
LEMMA HandshakeHas ==
  ASSUME NEW r, NEW s \in Stage, NEW i \in Entries(s)
  PROVE  [type |-> s, at |-> i, request |-> r] \in Handshake(r)
BY DEF Handshake

(* No two stages of the handshake have the same place. *)
LEMMA RankFacts ==
  /\ \A s \in Stage : Rank[s] \in Nat
  /\ \A s, t \in Stage : Rank[s] = Rank[t] => s = t
BY DEF Rank, Stage

(* Before orders the frames of a handshake: it is irreflexive, transitive and
   total. *)
LEMMA BeforeOrder ==
  ASSUME NEW f, NEW g, NEW h, f.type \in Stage, g.type \in Stage, h.type \in Stage,
         f.at \in Nat, g.at \in Nat, h.at \in Nat
  PROVE  /\ ~Before(f, f)
         /\ Before(f, g) => ~Before(g, f)
         /\ Before(f, g) /\ Before(g, h) => Before(f, h)
         /\ Before(f, g) \/ Before(g, f) \/ (f.type = g.type /\ f.at = g.at)
BY RankFacts DEF Before

(* Of two frames of one handshake, one is sent before the other. *)
LEMMA HandshakeTotal ==
  ASSUME NEW r, NEW f \in Handshake(r), NEW g \in Handshake(r)
  PROVE  f = g \/ Before(f, g) \/ Before(g, f)
BY HandshakeFrame, BeforeOrder

-----------------------------------------------------------------------------
(* What the steps do to the line *)

(* The elements of a sequence over S are in S. *)
LEMMA Elements ==
  ASSUME NEW S, NEW s \in Seq(S)
  PROVE  Len(s) \in Nat /\ \A i \in 1 .. Len(s) : s[i] \in S
OBVIOUS

(* The fields of a frame *)
LEMMA FrameFields ==
  \A f \in Frame : f.type \in FrameType /\ f.at \in Nat /\ f.request \in Nat
BY FramesAssumption DEF Frame, Request

(* t has some of the frames of s, in the same order. *)
Thinned(s, t) ==
  \E m \in [1 .. Len(t) -> 1 .. Len(s)] :
    /\ \A i, j \in 1 .. Len(t) : i < j => m[i] < m[j]
    /\ \A i \in 1 .. Len(t) : t[i] = s[m[i]]

(* A frame is taken out of the line. *)
LEMMA WithoutThins ==
  ASSUME line \in Seq(Frame), NEW k \in 1 .. Len(line)
  PROVE  Without(k) \in Seq(Frame) /\ Thinned(line, Without(k))
<1> DEFINE t == Without(k)
           m == [i \in 1 .. Len(line) - 1 |-> IF i < k THEN i ELSE i + 1]
<1>1. /\ Len(line) - 1 \in Nat
      /\ \A i \in 1 .. Len(line) - 1 : t[i] \in Frame /\ t[i] = line[m[i]]
  BY DEF Without
<1>2. t \in Seq(Frame) /\ Len(t) = Len(line) - 1
  BY <1>1 DEF Without
<1>3. m \in [1 .. Len(t) -> 1 .. Len(line)]
  BY <1>2
<1>4. \A i, j \in 1 .. Len(t) : i < j => m[i] < m[j]
  BY <1>2
<1> QED BY <1>1, <1>2, <1>3, <1>4, Zenon DEF Thinned

(* The rear of the line is dropped. *)
LEMMA PrefixThins ==
  ASSUME NEW s \in Seq(Frame), NEW n \in 0 .. Len(s)
  PROVE  /\ SubSeq(s, 1, n) \in Seq(Frame) /\ Len(SubSeq(s, 1, n)) = n
         /\ \A i \in 1 .. n : SubSeq(s, 1, n)[i] = s[i]
         /\ Thinned(s, SubSeq(s, 1, n))
<1> DEFINE t == SubSeq(s, 1, n)
           m == [i \in 1 .. n |-> i]
<1>1. t \in Seq(Frame) /\ Len(t) = n /\ \A i \in 1 .. n : t[i] = s[i]
  OBVIOUS
<1>2. m \in [1 .. Len(t) -> 1 .. Len(s)]
  BY <1>1
<1>3. Thinned(s, t)
  BY <1>1, <1>2, Zenon DEF Thinned
<1> QED BY <1>1, <1>3

(* The first frame leaves the line. *)
LEMMA TailThins ==
  ASSUME NEW s \in Seq(Frame), s # <<>>
  PROVE  /\ Tail(s) \in Seq(Frame) /\ Len(Tail(s)) = Len(s) - 1
         /\ \A i \in 1 .. Len(s) - 1 : Tail(s)[i] = s[i + 1]
         /\ Head(s) = s[1] /\ 1 \in 1 .. Len(s) /\ s[1] \in Frame
         /\ Thinned(s, Tail(s))
<1> DEFINE t == Tail(s)
           m == [i \in 1 .. Len(s) - 1 |-> i + 1]
<1>1. /\ t \in Seq(Frame) /\ Len(t) = Len(s) - 1 /\ \A i \in 1 .. Len(s) - 1 : t[i] = s[i + 1]
      /\ Head(s) = s[1] /\ 1 \in 1 .. Len(s) /\ s[1] \in Frame /\ Len(s) \in Nat
  OBVIOUS
<1>2. m \in [1 .. Len(t) -> 1 .. Len(s)] /\ \A i \in 1 .. Len(t) : m[i] = i + 1
  BY <1>1
<1>3. Thinned(s, t)
  <2> HIDE DEF m, t
  <2> QED BY <1>1, <1>2 DEF Thinned, t
<1> QED BY <1>1, <1>3

(* A frame, or the number of a packet, joins a sequence. *)
LEMMA AppendAdds ==
  ASSUME NEW S, NEW s \in Seq(S), NEW f \in S
  PROVE  /\ Append(s, f) \in Seq(S) /\ Len(Append(s, f)) = Len(s) + 1 /\ Len(s) \in Nat
         /\ \A i \in 1 .. Len(s) : Append(s, f)[i] = s[i]
         /\ Append(s, f)[Len(s) + 1] = f
         /\ \A i \in 1 .. Len(s) + 1 : i \in 1 .. Len(s) \/ i = Len(s) + 1
OBVIOUS

-----------------------------------------------------------------------------
(* The packets: p are the numbers of those heard, n that of the latest one. *)

PacketInv(s, p, n) ==
  /\ \A i \in 1 .. Len(s) : s[i].type = "packet" =>
       s[i].at <= n /\ \A k \in 1 .. Len(p) : p[k] < s[i].at
  /\ \A i, j \in 1 .. Len(s) :
       i < j /\ s[i].type = "packet" /\ s[j].type = "packet" => s[i].at < s[j].at
  /\ \A k \in 1 .. Len(p) : p[k] <= n
  /\ \A k, l \in 1 .. Len(p) : k < l => p[k] < p[l]

(* What holds of the packets in a line holds when frames are taken out of it. *)
LEMMA PacketThinned ==
  ASSUME NEW s \in Seq(Frame), NEW t \in Seq(Frame), NEW p, NEW n,
         PacketInv(s, p, n), Thinned(s, t)
  PROVE  PacketInv(t, p, n)
<1>1. PICK m \in [1 .. Len(t) -> 1 .. Len(s)] :
        /\ \A i, j \in 1 .. Len(t) : i < j => m[i] < m[j]
        /\ \A i \in 1 .. Len(t) : t[i] = s[m[i]]
  BY DEF Thinned
<1>2. \A i \in 1 .. Len(t) : m[i] \in 1 .. Len(s)
  BY <1>1
<1>3. ASSUME NEW i \in 1 .. Len(t), t[i].type = "packet"
      PROVE  t[i].at <= n /\ \A k \in 1 .. Len(p) : p[k] < t[i].at
  BY <1>1, <1>2, <1>3 DEF PacketInv
<1>4. ASSUME NEW i \in 1 .. Len(t), NEW j \in 1 .. Len(t), i < j,
             t[i].type = "packet", t[j].type = "packet"
      PROVE  t[i].at < t[j].at
  BY <1>1, <1>2, <1>4 DEF PacketInv
<1> QED BY <1>3, <1>4, Zenon DEF PacketInv

(* It holds when the next packet joins the end of the line, ... *)
LEMMA PacketJoins ==
  ASSUME NEW s \in Seq(Frame), NEW p \in Seq(Nat), NEW n \in Nat, PacketInv(s, p, n)
  PROVE  PacketInv(Append(s, Packet(n + 1)), p, n + 1)
<1>1. PICK f : f = Packet(n + 1)
  OBVIOUS
<1>2. f \in Frame /\ f.type = "packet" /\ f.at = n + 1
  BY <1>1, FramesAssumption DEF Packet, Frame, FrameType, Request
<1>3. \A i \in 1 .. Len(s) : s[i].at \in Nat
  BY Elements, FrameFields
<1>4. \A k \in 1 .. Len(p) : p[k] \in Nat
  BY Elements
<1>5. PICK t : t = Append(s, f)
  BY Zenon
<1>6. /\ Len(s) \in Nat /\ Len(t) = Len(s) + 1
      /\ \A i \in 1 .. Len(s) : t[i] = s[i]
      /\ t[Len(s) + 1] = f
      /\ \A i \in 1 .. Len(t) : i \in 1 .. Len(s) \/ i = Len(s) + 1
  BY <1>2, <1>5, AppendAdds
<1>7. PacketInv(t, p, n + 1)
  <2>1. ASSUME NEW i \in 1 .. Len(t), t[i].type = "packet"
        PROVE  t[i].at <= n + 1 /\ \A k \in 1 .. Len(p) : p[k] < t[i].at
    <3>1. CASE i = Len(s) + 1
      BY <1>2, <1>4, <1>6, <3>1 DEF PacketInv
    <3>2. CASE i \in 1 .. Len(s)
      BY <1>3, <1>6, <2>1, <3>2 DEF PacketInv
    <3> QED BY <1>6, <3>1, <3>2, Zenon
  <2>2. ASSUME NEW i \in 1 .. Len(t), NEW j \in 1 .. Len(t), i < j,
               t[i].type = "packet", t[j].type = "packet"
        PROVE  t[i].at < t[j].at
    <3>1. i \in 1 .. Len(s)
      BY <1>6, <2>2
    <3>2. CASE j = Len(s) + 1
      <4>1. t[i] = s[i] /\ t[j].at = n + 1
        BY <1>2, <1>6, <3>1, <3>2
      <4>2. s[i].at <= n /\ s[i].at \in Nat
        BY <1>3, <2>2, <3>1, <4>1 DEF PacketInv
      <4> QED BY <4>1, <4>2
    <3>3. CASE j \in 1 .. Len(s)
      BY <1>6, <2>2, <3>1, <3>3, SMTT(30) DEF PacketInv
    <3> QED BY <1>6, <3>2, <3>3
  <2>3. \A k \in 1 .. Len(p) : p[k] <= n + 1
    BY <1>4 DEF PacketInv
  <2> QED BY <2>1, <2>2, <2>3 DEF PacketInv
<1> QED BY <1>1, <1>5, <1>7

(* ... and when a frame that is no packet does. *)
LEMMA OtherJoins ==
  ASSUME NEW s \in Seq(Frame), NEW p, NEW n, PacketInv(s, p, n),
         NEW f \in Frame, f.type # "packet"
  PROVE  PacketInv(Append(s, f), p, n)
<1>1. PICK t : t = Append(s, f)
  BY Zenon
<1>2. /\ Len(s) \in Nat /\ Len(t) = Len(s) + 1
      /\ \A i \in 1 .. Len(s) : t[i] = s[i]
      /\ t[Len(s) + 1] = f
  BY <1>1, AppendAdds
<1>3. PacketInv(t, p, n)
  BY <1>2 DEF PacketInv
<1> QED BY <1>1, <1>3

(* The phone hears the first frame of the line. *)
LEMMA PacketHeard ==
  ASSUME NEW s \in Seq(Frame), s # <<>>, NEW p \in Seq(Nat), NEW n \in Nat, PacketInv(s, p, n),
         s[1].type = "packet"
  PROVE  PacketInv(Tail(s), Append(p, s[1].at), n)
<1>1. PICK q, t, a : q = Append(p, s[1].at) /\ t = Tail(s) /\ a = s[1].at
  BY Zenon
<1>2. /\ Len(s) \in Nat /\ Len(t) = Len(s) - 1 /\ 1 \in 1 .. Len(s)
      /\ \A i \in 1 .. Len(s) - 1 : t[i] = s[i + 1]
  BY <1>1, TailThins, Elements
<1>3. a \in Nat /\ \A i \in 1 .. Len(s) : s[i].at \in Nat
  BY <1>1, <1>2, Elements, FrameFields
<1>4. /\ Len(p) \in Nat /\ Len(q) = Len(p) + 1
      /\ \A k \in 1 .. Len(p) : q[k] = p[k]
      /\ q[Len(p) + 1] = a
  BY <1>1, <1>3, AppendAdds
<1>5. \A k \in 1 .. Len(p) : p[k] \in Nat
  BY Elements
<1>6. /\ a <= n
      /\ \A k \in 1 .. Len(p) : p[k] < a
      /\ \A i \in 1 .. Len(t) : t[i].type = "packet" => a < t[i].at
  BY <1>1, <1>2 DEF PacketInv
<1>7. PacketInv(t, q, n)
  <2>1. PacketInv(t, p, n)
    BY <1>1, TailThins, PacketThinned, Zenon
  <2>2. ASSUME NEW k \in 1 .. Len(q)
        PROVE  (k \in 1 .. Len(p) /\ q[k] = p[k]) \/ (k = Len(p) + 1 /\ q[k] = a)
    <3>1. k \in 1 .. Len(p) \/ k = Len(p) + 1
      BY <1>4
    <3> QED BY <1>4, <3>1
  <2>3. ASSUME NEW i \in 1 .. Len(t), t[i].type = "packet", NEW k \in 1 .. Len(q)
        PROVE  q[k] < t[i].at
    BY <1>6, <2>1, <2>2, <2>3, SMTT(30) DEF PacketInv
  <2>4. \A k \in 1 .. Len(q) : q[k] <= n
    BY <1>6, <2>1, <2>2 DEF PacketInv
  <2>5. ASSUME NEW k \in 1 .. Len(q), NEW l \in 1 .. Len(q), k < l PROVE q[k] < q[l]
    <3>1. k \in 1 .. Len(p) /\ q[k] = p[k]
      <4>1. Len(p) \in Nat /\ Len(q) = Len(p) + 1
        BY <1>4
      <4>2. k \in 1 .. Len(p)
        BY <2>5, <4>1
      <4> QED BY <1>4, <4>2, Zenon
    <3>2. CASE l = Len(p) + 1 /\ q[l] = a
      BY <1>6, <3>1, <3>2
    <3>3. CASE l \in 1 .. Len(p) /\ q[l] = p[l]
      BY <2>1, <2>5, <3>1, <3>3 DEF PacketInv
    <3> QED BY <2>2, <3>2, <3>3
  <2> QED BY <2>1, <2>3, <2>4, <2>5 DEF PacketInv
<1> QED BY <1>1, <1>7

-----------------------------------------------------------------------------
(* The order of the handshake frames: T is what is still to be made, c what was
   heard of the latest handshake. *)

Follows(f, g) ==
  IsConfig(f) /\ IsConfig(g) =>
    f.request < g.request \/ (f.request = g.request /\ Before(f, g))

ConfigInv(s, T, c) ==
  /\ \A i \in 1 .. Len(s) : IsConfig(s[i]) => s[i] \in Handshake(s[i].request)
  /\ \A i, j \in 1 .. Len(s) : i < j => Follows(s[i], s[j])
  /\ \A i \in 1 .. Len(s) : \A g \in T : Follows(s[i], g)
  /\ \A k \in 1 .. Len(c), i \in 1 .. Len(s) : Follows(c[k], s[i])
  /\ \A k \in 1 .. Len(c) : \A g \in T : Follows(c[k], g)
  /\ \A k \in 1 .. Len(c) : c[k] \in Handshake(c[1].request)
  /\ \A k, l \in 1 .. Len(c) : k < l => Before(c[k], c[l])
  /\ \E r \in Request : T \subseteq Handshake(r)

(* What holds of the handshakes in a line holds when frames are taken out of it. *)
LEMMA ConfigThinned ==
  ASSUME NEW s \in Seq(Frame), NEW t \in Seq(Frame), NEW T, NEW c,
         ConfigInv(s, T, c), Thinned(s, t)
  PROVE  ConfigInv(t, T, c)
<1>1. PICK m \in [1 .. Len(t) -> 1 .. Len(s)] :
        /\ \A i, j \in 1 .. Len(t) : i < j => m[i] < m[j]
        /\ \A i \in 1 .. Len(t) : t[i] = s[m[i]]
  BY DEF Thinned
<1>2. \A i \in 1 .. Len(t) : m[i] \in 1 .. Len(s)
  BY <1>1
<1>3. ASSUME NEW i \in 1 .. Len(t)
      PROVE  /\ IsConfig(t[i]) => t[i] \in Handshake(t[i].request)
             /\ \A g \in T : Follows(t[i], g)
             /\ \A k \in 1 .. Len(c) : Follows(c[k], t[i])
  BY <1>1, <1>2 DEF ConfigInv
<1>4. ASSUME NEW i \in 1 .. Len(t), NEW j \in 1 .. Len(t), i < j
      PROVE  Follows(t[i], t[j])
  BY <1>1, <1>2, <1>4, Zenon DEF ConfigInv
<1> QED BY <1>3, <1>4 DEF ConfigInv

(* The end of a handshake, and of a connection *)
LEMMA ConfigDone ==
  ASSUME NEW s \in Seq(Frame), NEW T, NEW c, ConfigInv(s, T, c)
  PROVE  ConfigInv(s, {}, c) /\ ConfigInv(s, {}, <<>>)
<1>1. 0 \in Request
  BY FramesAssumption DEF Request
<1> QED BY <1>1 DEF ConfigInv

(* A request newer than all frames *)
LEMMA ConfigAsked ==
  ASSUME NEW s \in Seq(Frame), NEW T, NEW c, ConfigInv(s, T, c), NEW r \in Request,
         \A i \in 1 .. Len(s) : IsConfig(s[i]) => s[i].request < r,
         \A k \in 1 .. Len(c) : c[k].request < r
  PROVE  ConfigInv(s, Handshake(r), c)
<1>1. ASSUME NEW g \in Handshake(r)
      PROVE  /\ \A i \in 1 .. Len(s) : Follows(s[i], g)
             /\ \A k \in 1 .. Len(c) : Follows(c[k], g)
  BY <1>1, HandshakeFrame DEF Follows
<1> QED BY <1>1 DEF ConfigInv

(* A frame of no handshake joins the line. *)
LEMMA ConfigJoins ==
  ASSUME NEW s \in Seq(Frame), NEW T, NEW c, ConfigInv(s, T, c), NEW f \in Frame, ~IsConfig(f)
  PROVE  ConfigInv(Append(s, f), T, c)
<1>1. PICK t : t = Append(s, f)
  BY Zenon
<1>2. /\ Len(s) \in Nat /\ Len(t) = Len(s) + 1
      /\ \A i \in 1 .. Len(s) : t[i] = s[i]
      /\ t[Len(s) + 1] = f
  BY <1>1, AppendAdds
<1>3. \A g : Follows(f, g) /\ Follows(g, f)
  BY DEF Follows
<1>4. ASSUME NEW i \in 1 .. Len(t)
      PROVE  /\ IsConfig(t[i]) => t[i] \in Handshake(t[i].request)
             /\ \A g \in T : Follows(t[i], g)
             /\ \A k \in 1 .. Len(c) : Follows(c[k], t[i])
  <2>1. i \in 1 .. Len(s) \/ i = Len(s) + 1
    BY <1>2
  <2> QED BY <1>2, <1>3, <2>1 DEF ConfigInv
<1>5. ASSUME NEW i \in 1 .. Len(t), NEW j \in 1 .. Len(t), i < j
      PROVE  Follows(t[i], t[j])
  <2>1. i \in 1 .. Len(s) /\ (j \in 1 .. Len(s) \/ j = Len(s) + 1)
    BY <1>2, <1>5
  <2> QED BY <1>2, <1>3, <1>5, <2>1 DEF ConfigInv
<1>6. ConfigInv(t, T, c)
  BY <1>4, <1>5, SMTT(30) DEF ConfigInv
<1> QED BY <1>1, <1>6

(* The first of the frames that are to be made joins the line. *)
LEMMA ConfigMade ==
  ASSUME NEW s \in Seq(Frame), NEW T, NEW c, ConfigInv(s, T, c),
         NEW f \in T, \A g \in T \ {f} : Before(f, g)
  PROVE  ConfigInv(Append(s, f), T \ {f}, c) /\ f \in Frame
<1>1. PICK r \in Request : T \subseteq Handshake(r)
  BY DEF ConfigInv
<1>2. f \in Frame /\ f \in Handshake(f.request) /\ \A g \in T : g.request = f.request
  BY <1>1, HandshakeFrame
<1>3. PICK t : t = Append(s, f)
  BY Zenon
<1>4. /\ Len(s) \in Nat /\ Len(t) = Len(s) + 1
      /\ \A i \in 1 .. Len(s) : t[i] = s[i]
      /\ t[Len(s) + 1] = f
  BY <1>2, <1>3, AppendAdds
<1>5. ASSUME NEW i \in 1 .. Len(t)
      PROVE  /\ IsConfig(t[i]) => t[i] \in Handshake(t[i].request)
             /\ \A g \in T \ {f} : Follows(t[i], g)
             /\ \A k \in 1 .. Len(c) : Follows(c[k], t[i])
  <2>1. CASE i \in 1 .. Len(s)
    BY <1>4, <2>1 DEF ConfigInv
  <2>2. CASE i = Len(s) + 1
    BY <1>2, <1>4, <2>2 DEF ConfigInv, Follows
  <2> QED BY <1>4, <2>1, <2>2
<1>6. ASSUME NEW i \in 1 .. Len(t), NEW j \in 1 .. Len(t), i < j
      PROVE  Follows(t[i], t[j])
  <2>1. i \in 1 .. Len(s) /\ (j \in 1 .. Len(s) \/ j = Len(s) + 1)
    BY <1>4, <1>6
  <2> QED BY <1>4, <1>6, <2>1 DEF ConfigInv
<1>7. \E q \in Request : T \ {f} \subseteq Handshake(q)
  BY <1>1
<1>8. ConfigInv(t, T \ {f}, c)
  BY <1>5, <1>6, <1>7 DEF ConfigInv
<1> QED BY <1>2, <1>3, <1>8

(* The phone hears a frame of a handshake: the next one of the handshake it heard
   from, or the first one of a newer handshake. *)
LEMMA ConfigHeard ==
  ASSUME NEW s \in Seq(Frame), s # <<>>, NEW T, NEW c \in Seq(Frame), ConfigInv(s, T, c),
         IsConfig(s[1])
  PROVE  /\ c # <<>> /\ c[1].request = s[1].request => ConfigInv(Tail(s), T, Append(c, s[1]))
         /\ ConfigInv(Tail(s), T, <<s[1]>>)
         /\ c # <<>> => c[1].request <= s[1].request
<1>1. PICK t, f : t = Tail(s) /\ f = s[1]
  BY Zenon
<1>2. /\ Len(s) \in Nat /\ Len(t) = Len(s) - 1 /\ 1 \in 1 .. Len(s) /\ f \in Frame
      /\ \A i \in 1 .. Len(s) - 1 : t[i] = s[i + 1]
  BY <1>1, TailThins, Elements
<1>3. ConfigInv(t, T, c)
  BY <1>1, TailThins, ConfigThinned, Zenon
<1>4. /\ \A i \in 1 .. Len(t) : Follows(f, t[i])
      /\ \A g \in T : Follows(f, g)
      /\ \A k \in 1 .. Len(c) : Follows(c[k], f)
      /\ f \in Handshake(f.request)
  BY <1>1, <1>2 DEF ConfigInv
<1>5. f.request \in Nat /\ \A k \in 1 .. Len(c) : IsConfig(c[k]) /\ c[k].request = c[1].request
  BY <1>2, FrameFields, HandshakeFrame DEF ConfigInv, IsConfig
<1>6. ASSUME c # <<>>, c[1].request = f.request PROVE ConfigInv(t, T, Append(c, f))
  <2>1. PICK d : d = Append(c, f)
    BY Zenon
  <2>2. /\ Len(c) \in Nat /\ Len(d) = Len(c) + 1 /\ 1 \in 1 .. Len(c)
        /\ \A k \in 1 .. Len(c) : d[k] = c[k]
        /\ d[Len(c) + 1] = f
    BY <1>2, <1>6, <2>1, AppendAdds
  <2>3. ASSUME NEW k \in 1 .. Len(d)
        PROVE  /\ \A i \in 1 .. Len(t) : Follows(d[k], t[i])
               /\ \A g \in T : Follows(d[k], g)
               /\ d[k] \in Handshake(d[1].request)
    <3>1. CASE k \in 1 .. Len(c)
      BY <1>3, <2>2, <3>1 DEF ConfigInv
    <3>2. CASE k = Len(c) + 1
      BY <1>4, <1>6, <2>2, <3>2
    <3> QED BY <2>2, <3>1, <3>2
  <2>4. ASSUME NEW k \in 1 .. Len(d), NEW l \in 1 .. Len(d), k < l PROVE Before(d[k], d[l])
    <3>1. k \in 1 .. Len(c) /\ (l \in 1 .. Len(c) \/ l = Len(c) + 1)
      BY <2>2, <2>4
    <3>2. CASE l \in 1 .. Len(c)
      BY <1>3, <2>2, <2>4, <3>1, <3>2 DEF ConfigInv
    <3>3. CASE l = Len(c) + 1
      <4>1. Follows(c[k], f) /\ IsConfig(c[k]) /\ IsConfig(f) /\ c[k].request = f.request
        BY <1>1, <1>4, <1>5, <1>6, <3>1
      <4>2. Before(c[k], f)
        BY <1>5, <4>1 DEF Follows
      <4> QED BY <2>2, <3>1, <3>3, <4>2
    <3> QED BY <3>1, <3>2, <3>3
  <2>5. ConfigInv(t, T, d)
    BY <1>3, <2>3, <2>4 DEF ConfigInv
  <2> QED BY <2>1, <2>5
<1>7. ConfigInv(t, T, <<f>>)
  <2>1. PICK d : d = <<f>>
    BY Zenon
  <2>2. Len(d) = 1 /\ d[1] = f
    BY <2>1
  <2>3. ASSUME NEW k \in 1 .. Len(d)
        PROVE  /\ \A i \in 1 .. Len(t) : Follows(d[k], t[i])
               /\ \A g \in T : Follows(d[k], g)
               /\ d[k] \in Handshake(d[1].request)
    BY <1>4, <2>2
  <2>4. ASSUME NEW k \in 1 .. Len(d), NEW l \in 1 .. Len(d), k < l PROVE Before(d[k], d[l])
    BY <2>2, <2>4
  <2>5. ConfigInv(t, T, d)
    BY <1>3, <2>3, <2>4 DEF ConfigInv
  <2> QED BY <2>1, <2>5
<1>8. ASSUME c # <<>> PROVE c[1].request <= f.request
  <2>1. 1 \in 1 .. Len(c) /\ c[1] \in Frame
    BY <1>8
  <2>2. Follows(c[1], f) /\ IsConfig(c[1]) /\ IsConfig(f) /\ c[1].request \in Nat
    BY <1>1, <1>4, <1>5, <2>1, FrameFields
  <2> QED BY <1>5, <2>2 DEF Follows
<1> QED BY <1>1, <1>6, <1>7, <1>8

-----------------------------------------------------------------------------
(* Nothing is missing: before a frame of a handshake that is not broken, all the
   frames of that handshake were heard, are in the line or will be made. *)

Known(f, s, T, c) ==
  f \in T \/ (\E i \in 1 .. Len(s) : s[i] = f) \/ (\E k \in 1 .. Len(c) : c[k] = f)

GapInv(s, T, c, b) ==
  \A f : Known(f, s, T, c) /\ IsConfig(f) /\ f.request \notin b =>
    \A e \in Handshake(f.request) : Before(e, f) => Known(e, s, T, c)

(* A frame of no handshake joins the line. *)
LEMMA GapJoins ==
  ASSUME NEW s \in Seq(Frame), NEW T, NEW c, NEW b, GapInv(s, T, c, b),
         NEW f \in Frame, ~IsConfig(f)
  PROVE  GapInv(Append(s, f), T, c, b)
<1>1. PICK t : t = Append(s, f)
  BY Zenon
<1>2. /\ Len(s) \in Nat /\ Len(t) = Len(s) + 1
      /\ \A i \in 1 .. Len(s) : t[i] = s[i]
      /\ t[Len(s) + 1] = f
  BY <1>1, AppendAdds
<1>3. \A g : Known(g, t, T, c) => g = f \/ Known(g, s, T, c)
  BY <1>2 DEF Known
<1>4. \A g : Known(g, s, T, c) => Known(g, t, T, c)
  BY <1>2 DEF Known
<1>5. GapInv(t, T, c, b)
  BY <1>3, <1>4, Zenon DEF GapInv
<1> QED BY <1>1, <1>5

(* The first of the frames that are to be made joins the line. *)
LEMMA GapMade ==
  ASSUME NEW s \in Seq(Frame), NEW T, NEW c, NEW b, GapInv(s, T, c, b),
         NEW f \in T, f \in Frame
  PROVE  GapInv(Append(s, f), T \ {f}, c, b)
<1>1. PICK t : t = Append(s, f)
  BY Zenon
<1>2. /\ Len(s) \in Nat /\ Len(t) = Len(s) + 1
      /\ \A i \in 1 .. Len(s) : t[i] = s[i]
      /\ t[Len(s) + 1] = f
  BY <1>1, AppendAdds
<1>3. \A g : Known(g, t, T \ {f}, c) <=> Known(g, s, T, c)
  BY <1>2 DEF Known
<1>4. GapInv(t, T \ {f}, c, b)
  BY <1>3, Zenon DEF GapInv
<1> QED BY <1>1, <1>4

(* More requests count as broken. *)
LEMMA GapWeaker ==
  ASSUME NEW s, NEW T, NEW c, NEW b, NEW d, GapInv(s, T, c, b), b \subseteq d
  PROVE  GapInv(s, T, c, d)
BY DEF GapInv

(* After the end of a connection *)
LEMMA GapReset ==
  ASSUME NEW s \in Seq(Frame), NEW b,
         \A i \in 1 .. Len(s) : IsConfig(s[i]) => s[i].request \in b
  PROVE  GapInv(s, {}, <<>>, b)
<1>1. ASSUME NEW f, Known(f, s, {}, <<>>), IsConfig(f) PROVE f.request \in b
  BY <1>1 DEF Known
<1> QED BY <1>1 DEF GapInv

(* Two frames of one handshake that follow each other *)
LEMMA FollowsBefore ==
  ASSUME NEW r \in Nat, NEW f \in Handshake(r), NEW g \in Handshake(r), Follows(f, g)
  PROVE  ~Before(g, f)
BY HandshakeFrame, BeforeOrder DEF Follows, IsConfig

(* The k-th frame is lost. *)
LEMMA GapLost ==
  ASSUME line \in Seq(Frame), NEW k \in 1 .. Len(line), NEW T, NEW c \in Seq(Frame), NEW b, NEW d,
         ConfigInv(line, T, c), GapInv(line, T, c, b), b \subseteq d,
         IsConfig(line[k]) =>
           /\ \A g \in T : IsConfig(g) /\ g.request = line[k].request => line[k].request \in d
           /\ \A j \in k + 1 .. Len(line) :
                IsConfig(line[j]) /\ line[j].request = line[k].request => line[k].request \in d
  PROVE  GapInv(Without(k), T, c, d)
<1>1. PICK t : t = Without(k)
  OBVIOUS
<1>2. /\ Len(line) \in Nat /\ Len(t) = Len(line) - 1
      /\ \A i \in 1 .. Len(t) : t[i] = IF i < k THEN line[i] ELSE line[i + 1]
  BY <1>1, WithoutThins DEF Without
<1>3. ASSUME NEW g, Known(g, t, T, c) PROVE Known(g, line, T, c)
  <2>1. \A i \in 1 .. Len(t) : \E j \in 1 .. Len(line) : t[i] = line[j]
    BY <1>2
  <2> QED BY <1>3, <2>1 DEF Known
<1>4. ASSUME NEW g, Known(g, line, T, c), g # line[k] PROVE Known(g, t, T, c)
  <2>1. ASSUME NEW i \in 1 .. Len(line), line[i] = g PROVE \E j \in 1 .. Len(t) : t[j] = g
    <3>1. CASE i < k
      <4>1. i \in 1 .. Len(t) /\ t[i] = g
        BY <1>2, <2>1, <3>1
      <4> QED BY <4>1
    <3>2. CASE i > k
      <4>1. i - 1 \in 1 .. Len(t) /\ t[i - 1] = g
        BY <1>2, <2>1, <3>2
      <4> QED BY <4>1
    <3> QED BY <1>4, <2>1, <3>1, <3>2
  <2> QED BY <1>4, <2>1 DEF Known
<1>5. ASSUME NEW f, Known(f, t, T, c), IsConfig(f), f.request \notin d,
             line[k] \in Handshake(f.request), Before(line[k], f)
      PROVE  FALSE
  <2>1. /\ IsConfig(line[k]) /\ line[k].request = f.request /\ line[k] \in Frame
        /\ line[k].request \in Nat
    BY <1>5, HandshakeFrame, Elements, FrameFields DEF IsConfig
  <2>2. f \notin T
    BY <1>5, <2>1
  <2>3. ASSUME NEW i \in 1 .. Len(t), t[i] = f PROVE FALSE
    <3>1. CASE i < k
      <4>1. i \in 1 .. Len(line) /\ line[i] = f
        BY <1>2, <2>3, <3>1
      <4>2. Follows(f, line[k]) /\ f \in Handshake(f.request)
        BY <1>5, <3>1, <4>1 DEF ConfigInv
      <4> QED BY <1>5, <2>1, <4>2, FollowsBefore
    <3>2. CASE ~(i < k)
      <4>1. i + 1 \in k + 1 .. Len(line) /\ line[i + 1] = f
        BY <1>2, <2>3, <3>2
      <4> QED BY <1>5, <2>1, <4>1
    <3> QED BY <3>1, <3>2
  <2>4. ASSUME NEW l \in 1 .. Len(c), c[l] = f PROVE FALSE
    <3>1. Follows(f, line[k]) /\ f \in Handshake(c[1].request)
      BY <2>4 DEF ConfigInv
    <3>2. f \in Handshake(f.request)
      BY <3>1, HandshakeFrame
    <3> QED BY <1>5, <2>1, <3>1, <3>2, FollowsBefore
  <2> QED BY <1>5, <2>2, <2>3, <2>4 DEF Known
<1>6. ASSUME NEW f, Known(f, t, T, c), IsConfig(f), f.request \notin d,
             NEW e \in Handshake(f.request), Before(e, f)
      PROVE  Known(e, t, T, c)
  <2>1. Known(e, line, T, c)
    BY <1>3, <1>6 DEF GapInv
  <2> QED BY <1>4, <1>5, <1>6, <2>1
<1>7. GapInv(t, T, c, d)
  BY <1>6 DEF GapInv
<1> QED BY <1>1, <1>7

(* A new request drops the rear of the line, and what was to be made. *)
LEMMA GapAsked ==
  ASSUME NEW s \in Seq(Frame), NEW T, NEW c \in Seq(Frame), NEW b, NEW r, NEW n \in 0 .. Len(s),
         ConfigInv(s, T, c), GapInv(s, T, c, b)
  PROVE  GapInv(SubSeq(s, 1, n), Handshake(r), c, b)
<1>1. PICK t : t = SubSeq(s, 1, n)
  BY Zenon
<1>2. Len(s) \in Nat /\ Len(t) = n /\ \A i \in 1 .. n : t[i] = s[i]
  BY <1>1, PrefixThins
<1>3. ASSUME NEW f, Known(f, t, Handshake(r), c), IsConfig(f), f.request \notin b,
             NEW e \in Handshake(f.request), Before(e, f)
      PROVE  Known(e, t, Handshake(r), c)
  <2>1. CASE f \in Handshake(r)
    BY <1>3, <2>1, HandshakeFrame DEF Known
  <2>2. ASSUME NEW i \in 1 .. n, s[i] = f PROVE Known(e, t, Handshake(r), c)
    <3>1. i \in 1 .. Len(s) /\ f \in Handshake(f.request) /\ f.request \in Nat
      BY <1>2, <1>3, <2>2, Elements, FrameFields DEF ConfigInv
    <3>2. Known(e, s, T, c)
      BY <1>3, <2>2, <3>1 DEF GapInv, Known
    <3>3. e \notin T
      BY <1>3, <2>2, <3>1, FollowsBefore DEF ConfigInv
    <3>4. ASSUME NEW j \in 1 .. Len(s), s[j] = e PROVE j \in 1 .. n
      <4>1. ~(i < j)
        BY <1>3, <2>2, <3>1, <3>4, FollowsBefore DEF ConfigInv
      <4> QED BY <1>2, <4>1
    <3> QED BY <1>2, <3>2, <3>3, <3>4 DEF Known
  <2>3. ASSUME NEW k \in 1 .. Len(c), c[k] = f PROVE Known(e, t, Handshake(r), c)
    <3>1. f \in Handshake(f.request) /\ f.request \in Nat
      BY <2>3, HandshakeFrame, Elements, FrameFields DEF ConfigInv
    <3>2. Known(e, s, T, c)
      BY <1>3, <2>3 DEF GapInv, Known
    <3>3. e \notin T
      BY <1>3, <2>3, <3>1, FollowsBefore DEF ConfigInv
    <3>4. \A j \in 1 .. Len(s) : s[j] # e
      BY <1>3, <2>3, <3>1, FollowsBefore DEF ConfigInv
    <3> QED BY <3>2, <3>3, <3>4 DEF Known
  <2> QED BY <1>2, <1>3, <2>1, <2>2, <2>3 DEF Known
<1>4. GapInv(t, Handshake(r), c, b)
  BY <1>3 DEF GapInv
<1> QED BY <1>1, <1>4

(* The phone hears the first frame of the line. *)
LEMMA GapHeard ==
  ASSUME NEW s \in Seq(Frame), s # <<>>, NEW T, NEW c \in Seq(Frame), NEW b,
         ConfigInv(s, T, c), GapInv(s, T, c, b)
  PROVE  /\ ~IsConfig(s[1]) => GapInv(Tail(s), T, c, b)
         /\ IsConfig(s[1]) /\ c # <<>> /\ c[1].request = s[1].request =>
              GapInv(Tail(s), T, Append(c, s[1]), b)
         /\ IsConfig(s[1]) /\ ~(c # <<>> /\ c[1].request = s[1].request) =>
              GapInv(Tail(s), T, <<s[1]>>, b)
<1>1. PICK t, h : t = Tail(s) /\ h = s[1]
  BY Zenon
<1>2. /\ Len(s) \in Nat /\ Len(t) = Len(s) - 1 /\ 1 \in 1 .. Len(s) /\ h \in Frame
      /\ \A i \in 1 .. Len(t) : i + 1 \in 1 .. Len(s) /\ t[i] = s[i + 1]
      /\ \A i \in 1 .. Len(s) : i = 1 \/ (i - 1 \in 1 .. Len(t) /\ t[i - 1] = s[i])
  BY <1>1, TailThins, Elements
<1>3. \A g : (\E i \in 1 .. Len(s) : s[i] = g) <=> g = h \/ \E i \in 1 .. Len(t) : t[i] = g
  BY <1>1, <1>2
<1>4. ASSUME ~IsConfig(h) PROVE GapInv(t, T, c, b)
  <2>1. \A g : Known(g, s, T, c) <=> g = h \/ Known(g, t, T, c)
    BY <1>3, Zenon DEF Known
  <2>2. \A r : \A e \in Handshake(r) : e # h
    BY <1>4, HandshakeFrame DEF IsConfig
  <2> QED BY <2>1, <2>2 DEF GapInv
<1>5. ASSUME IsConfig(h) PROVE GapInv(t, T, Append(c, h), b)
  <2>1. PICK d : d = Append(c, h)
    BY Zenon
  <2>2. /\ Len(c) \in Nat /\ Len(d) = Len(c) + 1
        /\ \A k \in 1 .. Len(c) : d[k] = c[k]
        /\ d[Len(c) + 1] = h
    BY <1>2, <2>1, AppendAdds
  <2>3. \A g : (\E k \in 1 .. Len(d) : d[k] = g) <=> g = h \/ \E k \in 1 .. Len(c) : c[k] = g
    BY <2>2
  <2>4. \A g : Known(g, t, T, d) <=> Known(g, s, T, c)
    BY <1>3, <2>3, Zenon DEF Known
  <2>5. GapInv(t, T, d, b)
    BY <2>4 DEF GapInv
  <2> QED BY <2>1, <2>5
<1>6. ASSUME IsConfig(h), ~(c # <<>> /\ c[1].request = h.request) PROVE GapInv(t, T, <<h>>, b)
  <2>1. PICK d : d = <<h>>
    BY Zenon
  <2>2. \A g : (\E k \in 1 .. Len(d) : d[k] = g) <=> g = h
    BY <2>1
  <2>3. \A g : Known(g, s, T, c) <=> Known(g, t, T, d) \/ \E k \in 1 .. Len(c) : c[k] = g
    BY <1>3, <2>2, Zenon DEF Known
  <2>4. ASSUME NEW f, Known(f, t, T, d), IsConfig(f), NEW k \in 1 .. Len(c),
               c[k] \in Handshake(f.request)
        PROVE  FALSE
    <3>1. /\ c[k].request = f.request /\ c[k] \in Handshake(c[1].request) /\ IsConfig(c[k])
          /\ c[k].request \in Nat /\ h.request \in Nat
      BY <1>2, <2>4, HandshakeFrame, Elements, FrameFields DEF ConfigInv, IsConfig
    <3>2. c[1].request = f.request /\ c # <<>>
      BY <3>1, HandshakeFrame
    <3>3. c[k].request < h.request
      <4>1. Follows(c[k], h)
        BY <1>1, <1>2 DEF ConfigInv
      <4> QED BY <1>6, <3>1, <3>2, <4>1 DEF Follows
    <3>4. f # h => Follows(h, f)
      <4>1. ASSUME NEW i \in 1 .. Len(t), t[i] = f PROVE Follows(h, f)
        <5>1. i + 1 \in 1 .. Len(s) /\ 1 < i + 1 /\ s[i + 1] = f
          BY <1>2, <4>1
        <5> QED BY <1>1, <1>2, <5>1 DEF ConfigInv
      <4>2. ASSUME f \in T PROVE Follows(h, f)
        BY <1>1, <1>2, <4>2 DEF ConfigInv
      <4> QED BY <2>2, <2>4, <4>1, <4>2, Zenon DEF Known
    <3> QED BY <1>6, <2>4, <3>1, <3>3, <3>4 DEF Follows
  <2>5. ASSUME NEW f, Known(f, t, T, d), IsConfig(f), f.request \notin b,
               NEW e \in Handshake(f.request), Before(e, f)
        PROVE  Known(e, t, T, d)
    <3>1. Known(e, s, T, c)
      BY <2>3, <2>5 DEF GapInv
    <3> QED BY <2>3, <2>4, <2>5, <3>1
  <2>6. GapInv(t, T, d, b)
    BY <2>5 DEF GapInv
  <2> QED BY <2>1, <2>6
<1> QED BY <1>1, <1>4, <1>5, <1>6

-----------------------------------------------------------------------------
(* The invariant *)

LineType ==
  /\ line \in Seq(Frame) /\ count \in Nat
  /\ told \in [packets : Seq(Nat), config : Seq(Frame)]

StreamInv ==
  /\ LineType
  /\ PacketInv(line, told.packets, count)
  /\ ConfigInv(line, todo, told.config)
  /\ GapInv(line, todo, told.config, broken)

(* The frames that are not part of a handshake *)
LEMMA ReportFrames ==
  /\ QueueStatus \in Frame /\ ~IsConfig(QueueStatus) /\ QueueStatus.type # "packet"
  /\ Rebooted \in Frame /\ ~IsConfig(Rebooted) /\ Rebooted.type # "packet"
  /\ \A n \in Nat : Packet(n) \in Frame /\ ~IsConfig(Packet(n))
BY FramesAssumption DEF QueueStatus, Rebooted, Packet, Frame, FrameType, Stage, Request, IsConfig

(* The empty line satisfies the invariant. *)
LEMMA InitStreamInv == LineInit => StreamInv
<1> SUFFICES ASSUME LineInit PROVE StreamInv
  OBVIOUS
<1>1. /\ line \in Seq(Frame)
      /\ \A i \in 1 .. Len(line) : ~IsConfig(line[i]) /\ line[i].type # "packet"
  <2>1. \A f \in {QueueStatus, Rebooted} : f \in Frame /\ ~IsConfig(f) /\ f.type # "packet"
    BY ReportFrames
  <2>2. line \in Seq({QueueStatus, Rebooted})
    BY DEF LineInit
  <2> QED BY <2>1, <2>2, Elements
<1>2. told.packets = <<>> /\ told.config = <<>> /\ todo = {} /\ count = 0
  BY DEF LineInit, Nothing
<1>3. LineType
  BY <1>1 DEF LineType, LineInit, Nothing
<1>4. PacketInv(line, told.packets, count)
  BY <1>1, <1>2 DEF PacketInv
<1>5. ConfigInv(line, todo, told.config)
  <2>1. 0 \in Request
    BY FramesAssumption DEF Request
  <2> QED BY <1>1, <1>2, <2>1 DEF ConfigInv, Follows
<1>6. GapInv(line, todo, told.config, broken)
  BY <1>1, <1>2, GapReset
<1> QED BY <1>3, <1>4, <1>5, <1>6 DEF StreamInv

(* A frame of the line is lost. *)
LEMMA LossInv ==
  ASSUME StreamInv, NEW k \in 1 .. Len(line), Loses(k)
  PROVE  /\ Without(k) \in Seq(Frame)
         /\ PacketInv(Without(k), told.packets, count)
         /\ ConfigInv(Without(k), todo, told.config)
         /\ GapInv(Without(k), todo, told.config, broken')
<1>1. line \in Seq(Frame) /\ told.config \in Seq(Frame)
  BY DEF StreamInv, LineType
<1>2. Without(k) \in Seq(Frame) /\ Thinned(line, Without(k))
  BY <1>1, WithoutThins
<1>3. PacketInv(Without(k), told.packets, count)
  BY <1>1, <1>2, PacketThinned DEF StreamInv
<1>4. ConfigInv(Without(k), todo, told.config)
  BY <1>1, <1>2, ConfigThinned DEF StreamInv
<1>5. GapInv(Without(k), todo, told.config, broken')
  <2>1. IsConfig(line[k]) =>
          /\ \A g \in todo : IsConfig(g) /\ g.request = line[k].request => line[k].request \in broken'
          /\ \A j \in k + 1 .. Len(line) :
               IsConfig(line[j]) /\ line[j].request = line[k].request => line[k].request \in broken'
    BY DEF Loses, Behind
  <2>2. broken \subseteq broken'
    BY DEF Loses
  <2> QED BY <1>1, <2>1, <2>2, GapLost DEF StreamInv
<1> QED BY <1>2, <1>3, <1>4, <1>5

(* A packet or a report joins the line. *)
LEMMA JoinInv ==
  ASSUME StreamInv, NEW f \in Frame, ~IsConfig(f), Join(f), UNCHANGED <<todo, told>>,
         \/ f.type # "packet" /\ count' = count
         \/ f = Packet(count + 1) /\ count' = count + 1
  PROVE  StreamInv'
<1>1. count \in Nat /\ told.packets \in Seq(Nat) /\ told.config \in Seq(Frame)
  BY DEF StreamInv, LineType
<1>2. PICK s \in Seq(Frame) :
        /\ line' = Append(s, f)
        /\ PacketInv(s, told.packets, count)
        /\ ConfigInv(s, todo, told.config)
        /\ GapInv(s, todo, told.config, broken')
  <2>1. CASE line' = Append(line, f) /\ UNCHANGED broken
    BY <2>1 DEF StreamInv, LineType
  <2>2. ASSUME NEW k \in 1 .. Len(line), Loses(k), line' = Append(Without(k), f)
        PROVE  \E s \in Seq(Frame) :
                 /\ line' = Append(s, f)
                 /\ PacketInv(s, told.packets, count)
                 /\ ConfigInv(s, todo, told.config)
                 /\ GapInv(s, todo, told.config, broken')
    BY <2>2, LossInv
  <2> QED BY <2>1, <2>2 DEF Join
<1>3. PacketInv(Append(s, f), told.packets, count')
  BY <1>1, <1>2, PacketJoins, OtherJoins
<1>4. ConfigInv(Append(s, f), todo, told.config)
  BY <1>2, ConfigJoins
<1>5. GapInv(Append(s, f), todo, told.config, broken')
  BY <1>2, GapJoins
<1>6. LineType'
  <2>1. line' \in Seq(Frame) /\ count' \in Nat
    BY <1>1, <1>2, AppendAdds
  <2> QED BY <2>1 DEF StreamInv, LineType
<1>7. UNCHANGED <<told.packets, told.config>>
  OBVIOUS
<1> QED BY <1>2, <1>3, <1>4, <1>5, <1>6, <1>7 DEF StreamInv

(* The phone hears a frame. *)
LEMMA HearInv ==
  ASSUME StreamInv, Hear
  PROVE  /\ StreamInv'
         /\ told.config # <<>> =>
              told'.config # <<>> /\ told'.config[1].request >= told.config[1].request
<1>1. /\ line \in Seq(Frame) /\ line # <<>> /\ count \in Nat
      /\ told \in [packets : Seq(Nat), config : Seq(Frame)]
      /\ told.packets \in Seq(Nat) /\ told.config \in Seq(Frame)
      /\ UNCHANGED <<todo, broken, count>>
  BY DEF StreamInv, LineType, Hear
<1>2. PICK f : f = line[1]
  OBVIOUS
<1>3. f \in Frame /\ f.at \in Nat /\ Head(line) = f /\ line' = Tail(line) /\ line' \in Seq(Frame)
  BY <1>1, <1>2, TailThins, FrameFields DEF Hear
<1>4. told' = Hearing(told, f)
  BY <1>3 DEF Hear
<1>5. Thinned(line, line')
  BY <1>1, <1>3, TailThins
<1>6. PacketInv(line', told.packets, count) /\ ConfigInv(line', todo, told.config)
  BY <1>1, <1>3, <1>5, PacketThinned, ConfigThinned, Zenon DEF StreamInv
<1>7. CASE f.type = "packet"
  <2>1. told' = [told EXCEPT !.packets = Append(told.packets, f.at)]
    BY <1>4, <1>7 DEF Hearing
  <2>2. told'.packets = Append(told.packets, f.at) /\ told'.config = told.config
    BY <1>1, <2>1
  <2>3. told' \in [packets : Seq(Nat), config : Seq(Frame)]
    BY <1>1, <1>3, <2>1, AppendAdds, Zenon
  <2>4. ~IsConfig(f)
    BY <1>7 DEF IsConfig, Stage
  <2>5. PacketInv(line', told'.packets, count)
    BY <1>1, <1>2, <1>3, <1>7, <2>2, PacketHeard DEF StreamInv
  <2>6. GapInv(line', todo, told.config, broken)
    BY <1>1, <1>2, <1>3, <2>4, GapHeard, Zenon DEF StreamInv
  <2>7. told.config # <<>> => told.config[1].request \in Nat
    BY <1>1, Elements, FrameFields
  <2> QED BY <1>1, <1>3, <1>6, <2>2, <2>3, <2>5, <2>6, <2>7 DEF StreamInv, LineType
<1>8. CASE f.type # "packet" /\ ~IsConfig(f)
  <2>1. told' = told
    BY <1>4, <1>8 DEF Hearing
  <2>2. GapInv(line', todo, told.config, broken)
    BY <1>1, <1>2, <1>3, <1>8, GapHeard, Zenon DEF StreamInv
  <2>3. told.config # <<>> => told.config[1].request \in Nat
    BY <1>1, Elements, FrameFields
  <2> QED BY <1>1, <1>3, <1>6, <2>1, <2>2, <2>3 DEF StreamInv, LineType
<1>9. CASE f.type # "packet" /\ IsConfig(f)
  <2>1. PICK d : d = IF told.config # <<>> /\ told.config[1].request = f.request
                       THEN Append(told.config, f) ELSE <<f>>
    BY Zenon
  <2>2. told' = [told EXCEPT !.config = d]
    BY <1>4, <1>9, <2>1, Zenon DEF Hearing
  <2>3. d \in Seq(Frame)
    BY <1>1, <1>3, <2>1, AppendAdds
  <2>4. /\ told'.packets = told.packets /\ told'.config = d
        /\ told' \in [packets : Seq(Nat), config : Seq(Frame)]
    BY <1>1, <2>2, <2>3, Zenon
  <2>5. ConfigInv(line', todo, d)
    BY <1>1, <1>2, <1>3, <1>9, <2>1, ConfigHeard, SMTT(30) DEF StreamInv
  <2>6. GapInv(line', todo, d, broken)
    BY <1>1, <1>2, <1>3, <1>9, <2>1, GapHeard DEF StreamInv
  <2>7. ASSUME told.config # <<>> PROVE d # <<>> /\ d[1].request >= told.config[1].request
    <3>1. told.config[1].request <= f.request /\ f.request \in Nat
          /\ told.config[1].request \in Nat /\ 1 \in 1 .. Len(told.config)
      <4>1. 1 \in 1 .. Len(told.config) /\ told.config[1] \in Frame
        BY <1>1, <2>7
      <4>2. told.config[1].request <= f.request
        BY <1>1, <1>2, <1>9, <2>7, ConfigHeard, Zenon DEF StreamInv
      <4> QED BY <1>3, <4>1, <4>2, FrameFields
    <3>2. CASE told.config[1].request = f.request
      <4>1. d = Append(told.config, f)
        BY <2>1, <2>7, <3>2
      <4>2. d[1] = told.config[1] /\ Len(d) = Len(told.config) + 1 /\ Len(told.config) \in Nat
        BY <1>1, <1>3, <3>1, <4>1, AppendAdds
      <4> QED BY <3>1, <4>2
    <3>3. CASE told.config[1].request # f.request
      <4>1. d = <<f>>
        BY <2>1, <3>3
      <4> QED BY <3>1, <4>1
    <3> QED BY <3>2, <3>3
  <2> QED BY <1>1, <1>3, <1>6, <2>4, <2>5, <2>6, <2>7 DEF StreamInv, LineType
<1> QED BY <1>7, <1>8, <1>9

(* Every step of the stream preserves the invariant. *)
LEMMA NextStreamInv == StreamInv /\ [LineNext]_lineVars => StreamInv'
<1> SUFFICES ASSUME StreamInv, [LineNext]_lineVars PROVE StreamInv'
  OBVIOUS
<1>1. /\ line \in Seq(Frame) /\ count \in Nat
      /\ told \in [packets : Seq(Nat), config : Seq(Frame)] /\ told.config \in Seq(Frame)
  BY DEF StreamInv, LineType
<1>2. CASE Receive
  <2>1. Packet(count + 1) \in Frame /\ ~IsConfig(Packet(count + 1))
    BY <1>1, ReportFrames
  <2> QED BY <1>2, <2>1, JoinInv DEF Receive
<1>3. CASE Report
  BY <1>3, ReportFrames, JoinInv DEF Report
<1>4. CASE Hear
  BY <1>4, HearInv
<1>5. CASE Reset
  <2>1. PICK n \in 0 .. Len(line) : line' = SubSeq(line, 1, n)
    BY <1>5 DEF Reset
  <2>2. line' \in Seq(Frame) /\ Thinned(line, line')
    BY <1>1, <2>1, PrefixThins
  <2>3. /\ todo' = {} /\ told' = Nothing /\ told'.packets = <<>> /\ told'.config = <<>>
        /\ count' = count
        /\ told' \in [packets : Seq(Nat), config : Seq(Frame)]
    BY <1>5 DEF Reset, Nothing
  <2>4. PacketInv(line', <<>>, count)
    <3>1. PacketInv(line', told.packets, count)
      BY <1>1, <2>2, PacketThinned DEF StreamInv
    <3> QED BY <3>1 DEF PacketInv
  <2>5. ConfigInv(line', {}, <<>>)
    BY <1>1, <2>2, ConfigThinned, ConfigDone DEF StreamInv
  <2>6. GapInv(line', {}, <<>>, broken')
    BY <1>5, <2>2, GapReset, Zenon DEF Reset
  <2> QED BY <1>1, <2>2, <2>3, <2>4, <2>5, <2>6 DEF StreamInv, LineType
<1>6. ASSUME NEW f \in todo, Make(f) PROVE StreamInv'
  <2>1. /\ line' = Append(line, f) /\ todo' = todo \ {f} /\ \A g \in todo \ {f} : Before(f, g)
        /\ UNCHANGED <<told, broken, count>>
    BY <1>6 DEF Make
  <2>2. f \in Frame /\ ConfigInv(line', todo', told.config)
    BY <1>1, <2>1, ConfigMade, Zenon DEF StreamInv
  <2>3. line' \in Seq(Frame)
    BY <1>1, <2>1, <2>2, AppendAdds
  <2>4. GapInv(line', todo', told.config, broken)
    BY <1>1, <2>1, <2>2, GapMade DEF StreamInv
  <2>5. f.type # "packet"
    <3>1. PICK r \in Request : todo \subseteq Handshake(r)
      BY DEF StreamInv, ConfigInv
    <3> QED BY <3>1, HandshakeFrame DEF Stage
  <2>6. PacketInv(line', told.packets, count)
    BY <1>1, <2>1, <2>2, <2>5, OtherJoins DEF StreamInv
  <2> QED BY <1>1, <2>1, <2>2, <2>3, <2>4, <2>6 DEF StreamInv, LineType
<1>7. ASSUME NEW k \in 1 .. Len(line), Lose(k) PROVE StreamInv'
  <2>1. Loses(k) /\ line' = Without(k) /\ UNCHANGED <<todo, told, count>>
    BY <1>7 DEF Lose
  <2>2. /\ line' \in Seq(Frame)
        /\ PacketInv(line', told.packets, count)
        /\ ConfigInv(line', todo, told.config)
        /\ GapInv(line', todo, told.config, broken')
    BY <2>1, LossInv
  <2> QED BY <1>1, <2>1, <2>2 DEF StreamInv, LineType
<1>8. ASSUME NEW r \in Request, Ask(r) PROVE StreamInv'
  <2>1. PICK n \in 0 .. Len(line) : line' = SubSeq(line, 1, n)
    BY <1>8 DEF Ask
  <2>2. /\ line' \in Seq(Frame) /\ Thinned(line, line') /\ Len(line') = n /\ Len(line) \in Nat
        /\ \A i \in 1 .. n : line'[i] = line[i]
    BY <1>1, <2>1, PrefixThins, Elements
  <2>3. todo' = Handshake(r) /\ UNCHANGED <<told, broken, count>>
    BY <1>8 DEF Ask
  <2>4. PacketInv(line', told.packets, count)
    BY <1>1, <2>2, PacketThinned, SMTT(30) DEF StreamInv
  <2>5. ConfigInv(line', Handshake(r), told.config)
    <3>1. ConfigInv(line', todo, told.config)
      BY <1>1, <2>2, ConfigThinned DEF StreamInv
    <3>2. \A i \in 1 .. Len(line') : IsConfig(line'[i]) => line'[i].request < r
      BY <1>8, <2>2 DEF Ask
    <3>3. \A i \in 1 .. Len(told.config) : told.config[i].request < r
      BY <1>8 DEF Ask
    <3> QED BY <2>2, <3>1, <3>2, <3>3, ConfigAsked
  <2>6. GapInv(line', Handshake(r), told.config, broken)
    BY <1>1, <2>1, GapAsked DEF StreamInv
  <2> QED BY <1>1, <2>2, <2>3, <2>4, <2>5, <2>6 DEF StreamInv, LineType
<1>9. CASE UNCHANGED lineVars
  BY <1>9 DEF lineVars, StreamInv, LineType
<1> QED BY <1>2, <1>3, <1>4, <1>5, <1>6, <1>7, <1>8, <1>9 DEF LineNext

(* Whatever joins a FromRadio stream and whatever it loses, the phone hears the
   packets in the order they were received in. *)
THEOREM StreamPacketsInOrder == LineSpec => []PacketsHeardInOrder
<1>1. StreamInv => PacketsHeardInOrder
  BY DEF StreamInv, PacketInv, PacketsHeardInOrder
<1> QED BY <1>1, InitStreamInv, NextStreamInv, PTL DEF LineSpec

(* ... and of a handshake that is not broken its first frames, in order and
   without a gap. *)
THEOREM StreamHandshakeInOrder == LineSpec => []HandshakeHeardInOrder
<1>1. StreamInv => HandshakeHeardInOrder
  <2> SUFFICES ASSUME StreamInv, NEW c, c = told.config, c # <<>>, NEW r, r = c[1].request,
                      r \notin broken
               PROVE  Begins(c, r)
    BY DEF HandshakeHeardInOrder
  <2>1. /\ c \in Seq(Frame) /\ ConfigInv(line, todo, c) /\ GapInv(line, todo, c, broken)
    BY DEF StreamInv, LineType
  <2>2. /\ \A i \in 1 .. Len(c) : c[i] \in Handshake(r)
        /\ \A i, j \in 1 .. Len(c) : i < j => Before(c[i], c[j])
    BY <2>1 DEF ConfigInv
  <2>3. ASSUME NEW e \in Handshake(r), NEW i \in 1 .. Len(c), Before(e, c[i])
        PROVE  \E j \in 1 .. Len(c) : c[j] = e
    <3>1. IsConfig(c[i]) /\ c[i].request = r /\ r \in Nat
      BY <2>1, <2>2, HandshakeFrame, Elements, FrameFields DEF IsConfig
    <3>2. Known(e, line, todo, c)
      BY <2>1, <2>3, <3>1, SMTT(30) DEF GapInv, Known
    <3>3. e \notin todo
      BY <2>1, <2>2, <2>3, <3>1, FollowsBefore, SMTT(30) DEF ConfigInv
    <3>4. \A j \in 1 .. Len(line) : line[j] # e
      BY <2>1, <2>2, <2>3, <3>1, FollowsBefore DEF ConfigInv
    <3> QED BY <3>2, <3>3, <3>4 DEF Known
  <2> QED BY <2>2, <2>3 DEF Begins
<1> QED BY <1>1, InitStreamInv, NextStreamInv, PTL DEF LineSpec

(* ... and nothing of an older handshake after a newer one. *)
THEOREM StreamNewerFollows == LineSpec => NewerFollows
<1>1. StreamInv /\ [LineNext]_lineVars =>
        [told'.config # <<>> /\ told.config # <<>> =>
           told'.config[1].request >= told.config[1].request]_lineVars
  <2> SUFFICES ASSUME StreamInv, LineNext, told'.config # <<>>, told.config # <<>>
               PROVE  told'.config[1].request >= told.config[1].request
    OBVIOUS
  <2>1. told.config[1].request \in Nat
    BY Elements, FrameFields DEF StreamInv, LineType
  <2>2. CASE Hear
    BY <2>2, HearInv
  <2>3. CASE Reset
    BY <2>3 DEF Reset, Nothing
  <2>4. CASE UNCHANGED told
    BY <2>1, <2>4
  <2> QED BY <2>2, <2>3, <2>4 DEF LineNext, Receive, Report, Make, Lose, Ask
<1> QED BY <1>1, InitStreamInv, NextStreamInv, PTL DEF LineSpec, NewerFollows
-----------------------------------------------------------------------------
(* The iterator of meshtastic_phoneapi_next_config_frame() *)

(* A set of numbers that is not empty has a least one. *)
LEMMA FirstFacts ==
  ASSUME NEW S, S \subseteq Nat, S # {}
  PROVE  First(S) \in S /\ \A k \in S : First(S) <= k
<1> DEFINE R == OpToRel(<, Nat)
<1>1. \A k, j \in Nat : k < j => <<k, j>> \in R
  BY DEF OpToRel
<1>2. IsWellFoundedOn(R, Nat)
  BY NatLessThanWellFounded, Zenon
<1> HIDE DEF R
<1>3. PICK j \in S : \A k \in S : <<k, j>> \notin R
  BY <1>2, WFMin, Zenon
<1>4. \A k \in S : ~(k < j)
  BY <1>1, <1>3, Zenon
<1>5. \E i \in S : \A k \in S : i <= k
  BY <1>4
<1> QED BY <1>5, Zenon DEF First

(* The positions the iterator takes *)
ValidAt(p) ==
  /\ p \in Position
  /\ p.state = "CHANNELS" => p.index < MaxChannels
  /\ p.state \notin {"CHANNELS", "CONFIGS", "MODULES"} => p.index = 0

(* The entries of a list that the loop passes over are the absent ones. *)
LEMMA PresentFacts ==
  ASSUME NEW absent, NEW n \in Nat, NEW i \in Nat
  PROVE  LET S == Present(absent, n, i)
             E == (0 .. n - 1) \ absent
         IN  /\ S = {} => \A k \in E : k < i
             /\ S # {} => First(S) \in E /\ First(S) >= i /\ \A k \in E : k >= i => First(S) <= k
<1> DEFINE S == Present(absent, n, i)
           E == (0 .. n - 1) \ absent
<1>1. S = {k \in E : k >= i} /\ S \subseteq Nat
  BY DEF Present
<1>2. S # {} => First(S) \in S /\ \A k \in S : First(S) <= k
  BY <1>1, FirstFacts
<1> HIDE DEF S
<1>3. S = {} => \A k \in E : k < i
  BY <1>1
<1>4. S # {} => First(S) \in E /\ First(S) >= i /\ \A k \in E : k >= i => First(S) <= k
  BY <1>1, <1>2
<1> QED BY <1>3, <1>4 DEF S

(* The search through the modules stops at the first one from i on that is present, or
   at their end. *)
LEMMA FromModuleFacts ==
  ASSUME NEW i \in Nat
  PROVE  LET q == FromModule(i)
         IN  \/ /\ q = At("QUEUE_STATUS", 0)
                /\ \A k \in Entries("MODULES") : k < i
             \/ /\ q = At("MODULES", q.index) /\ q.index \in Entries("MODULES") /\ q.index >= i
                /\ \A k \in Entries("MODULES") : k >= i => q.index <= k
<1>1. Entries("MODULES") = (0 .. NModules - 1) \ NoModule
  BY DEF Entries
<1>2. CASE Present(NoModule, NModules, i) = {}
  BY <1>1, <1>2, PresentFacts, FramesAssumption, Zenon DEF FromModule
<1>3. CASE Present(NoModule, NModules, i) # {}
  <2>1. PICK j : j = First(Present(NoModule, NModules, i))
    OBVIOUS
  <2>2. j \in Entries("MODULES") /\ j >= i /\ \A k \in Entries("MODULES") : k >= i => j <= k
    BY <1>1, <1>3, <2>1, PresentFacts, FramesAssumption
  <2>3. FromModule(i) = At("MODULES", j) /\ FromModule(i).index = j
    BY <1>3, <2>1 DEF FromModule, At
  <2> QED BY <2>2, <2>3
<1> QED BY <1>2, <1>3

(* The position reached from p: that of the first entry that is not before p *)
LEMMA ReachedFacts ==
  ASSUME NEW r, NEW p, ValidAt(p), p.state # "IDLE"
  PROVE  LET q == Reached(p)
         IN  /\ ValidAt(q) /\ q.state \in Stage
             /\ ConfigFrame(q, r) \in Handshake(r)
             /\ ~Before(ConfigFrame(q, r), ConfigFrame(p, r))
             /\ \A f \in Handshake(r) : ~Before(f, ConfigFrame(p, r)) =>
                  f = ConfigFrame(q, r) \/ Before(ConfigFrame(q, r), f)
<1>1. p.state \in Stage /\ p.index \in Nat /\ p = At(p.state, p.index)
  BY DEF ValidAt, Position, ConfigState, At
<1>2. PICK q : q = Reached(p)
  OBVIOUS
<1>3. /\ q.state \in Stage /\ q.index \in Entries(q.state) /\ q = At(q.state, q.index)
      /\ \/ q = p
         \/ /\ p.state \in {"CONFIGS", "MODULES"}
            /\ q.state \in {"CONFIGS", "MODULES", "QUEUE_STATUS"}
            /\ Rank[q.state] > Rank[p.state] \/ (q.state = p.state /\ q.index >= p.index)
            /\ \A k \in Entries(p.state) : k >= p.index => q.state = p.state /\ q.index <= k
            /\ p.state = "CONFIGS" =>
                 /\ q.state = "MODULES" => \A k \in Entries("MODULES") : q.index <= k
                 /\ q.state = "QUEUE_STATUS" => Entries("MODULES") = {}
  <2>1. CASE p.state \notin {"CONFIGS", "MODULES"}
    <3>1. q = p
      BY <1>2, <2>1 DEF Reached
    <3>2. p.index \in Entries(p.state)
      BY <1>1, <2>1, FramesAssumption DEF ValidAt, Entries
    <3> QED BY <1>1, <3>1, <3>2
  <2>2. CASE p.state = "MODULES"
    <3>1. q = FromModule(p.index)
      BY <1>2, <2>2 DEF Reached
    <3> QED BY <1>1, <2>2, <3>1, FromModuleFacts DEF At, Stage, Entries, Rank
  <2>3. CASE p.state = "CONFIGS"
    <3>1. Entries("CONFIGS") = (0 .. NConfigs - 1) \ NoConfig
      BY DEF Entries
    <3>2. CASE Present(NoConfig, NConfigs, p.index) = {}
      <4>1. q = FromModule(0) /\ \A k \in Entries("CONFIGS") : k < p.index /\ k \in Nat
        <5>1. q = FromModule(0)
          BY <1>2, <2>3, <3>2 DEF Reached
        <5>2. \A k \in Entries("CONFIGS") : k < p.index
          BY <1>1, <3>1, <3>2, PresentFacts, FramesAssumption, Zenon
        <5>3. \A k \in Entries("CONFIGS") : k \in Nat
          BY <3>1, FramesAssumption
        <5> QED BY <5>1, <5>2, <5>3
      <4>2. Entries("MODULES") \subseteq Nat
        BY FramesAssumption DEF Entries
      <4> QED BY <1>1, <2>3, <4>1, <4>2, FromModuleFacts DEF At, Stage, Entries, Rank
    <3>3. CASE Present(NoConfig, NConfigs, p.index) # {}
      <4>1. PICK j : j = First(Present(NoConfig, NConfigs, p.index))
        OBVIOUS
      <4>2. /\ q = At("CONFIGS", j) /\ j \in Entries("CONFIGS") /\ j >= p.index
            /\ \A k \in Entries("CONFIGS") : k >= p.index => j <= k
        <5>1. j \in Entries("CONFIGS") /\ j >= p.index
              /\ \A k \in Entries("CONFIGS") : k >= p.index => j <= k
          BY <1>1, <3>1, <3>3, <4>1, PresentFacts, FramesAssumption, Zenon
        <5>2. q = At("CONFIGS", j)
          BY <1>2, <2>3, <3>3, <4>1 DEF Reached
        <5> QED BY <5>1, <5>2
      <4> QED BY <1>1, <2>3, <4>2 DEF At, Stage
    <3> QED BY <3>2, <3>3
  <2> QED BY <2>1, <2>2, <2>3
<1>4. q.index \in Nat /\ ValidAt(q)
  BY <1>3, FramesAssumption DEF ValidAt, Position, ConfigState, At, Entries
<1>5. ConfigFrame(q, r) \in Handshake(r)
  BY <1>3, HandshakeHas DEF ConfigFrame
<1>6. ~Before(ConfigFrame(q, r), ConfigFrame(p, r))
  BY <1>1, <1>3, <1>4, RankFacts DEF Before, ConfigFrame
<1>7. ASSUME NEW f \in Handshake(r), ~Before(f, ConfigFrame(p, r))
      PROVE  f = ConfigFrame(q, r) \/ Before(ConfigFrame(q, r), f)
  <2>1. /\ f.type \in Stage /\ f.at \in Entries(f.type) /\ f.at \in Nat
        /\ f = [type |-> f.type, at |-> f.at, request |-> r]
    BY HandshakeFrame
  <2>2. Rank[f.type] > Rank[p.state] \/ (f.type = p.state /\ f.at >= p.index)
    BY <1>1, <1>7, <2>1, RankFacts DEF Before, ConfigFrame
  <2>3. Rank[f.type] > Rank[q.state] \/ (f.type = q.state /\ f.at >= q.index)
    <3>1. CASE q = p
      BY <2>2, <3>1
    <3>2. CASE f.type = p.state /\ f.at >= p.index /\ q # p
      BY <1>3, <2>1, <3>2
    <3>3. CASE Rank[f.type] > Rank[p.state] /\ q # p
      BY <1>3, <1>4, <2>1, <3>3 DEF Rank, Stage, Entries
    <3> QED BY <2>2, <3>1, <3>2, <3>3
  <2> QED BY <1>3, <1>4, <2>1, <2>3 DEF Before, ConfigFrame
<1> QED BY <1>2, <1>3, <1>4, <1>5, <1>6, <1>7

(* The position after the one whose frame was made: what is not before it is
   what was to be made but for that frame. *)
LEMMA AfterFacts ==
  ASSUME NEW r, NEW q, ValidAt(q), q.state \in Stage, NEW f \in Handshake(r)
  PROVE  LET n == After(q)
         IN  /\ ValidAt(n)
             /\ n.state = "IDLE" => ~Before(ConfigFrame(q, r), f)
             /\ n.state # "IDLE" =>
                  (~Before(f, ConfigFrame(n, r)) <=> Before(ConfigFrame(q, r), f))
<1>1. q.index \in Nat
  BY DEF ValidAt, Position
<1>2. PICK n : n = After(q)
  OBVIOUS
<1>3. f.type \in Stage /\ f.at \in Entries(f.type) /\ f.at \in Nat
  BY HandshakeFrame, SMTT(30)
<1>4. /\ ValidAt(n)
      /\ n.state = "IDLE" => q.state = "COMPLETE" /\ q.index = 0
      /\ n.state # "IDLE" =>
           /\ n.state \in Stage
           /\ \/ n.state = q.state /\ n.index = q.index + 1
              \/ /\ Rank[n.state] = Rank[q.state] + 1 /\ n.index = 0
                 /\ \A k \in Entries(q.state) : k <= q.index
  <2>1. CASE q.state \in {"MY_INFO", "DEVICE_UI", "NODE_INFO", "METADATA", "QUEUE_STATUS"}
    <3>1. n = At(n.state, 0) /\ n.state \in Stage /\ Rank[n.state] = Rank[q.state] + 1
      <4>1. \/ q.state = "MY_INFO" /\ n = At("DEVICE_UI", 0)
            \/ q.state = "DEVICE_UI" /\ n = At("NODE_INFO", 0)
            \/ q.state = "NODE_INFO" /\ n = At("METADATA", 0)
            \/ q.state = "METADATA" /\ n = At("CHANNELS", 0)
            \/ q.state = "QUEUE_STATUS" /\ n = At("COMPLETE", 0)
        BY <1>2, <2>1 DEF After
      <4> QED BY <4>1 DEF At, Stage, Rank
    <3>2. \A k \in Entries(q.state) : k <= q.index
      BY <1>1, <2>1 DEF Entries
    <3>3. ValidAt(n)
      BY <3>1, FramesAssumption DEF ValidAt, At, Position, ConfigState
    <3>4. n.state # "IDLE" /\ n.index = 0
      BY <3>1, SMTT(30) DEF At, Stage
    <3> QED BY <3>1, <3>2, <3>3, <3>4
  <2>2. CASE q.state = "CHANNELS"
    <3>1. n = IF q.index + 1 >= MaxChannels THEN At("CONFIGS", 0) ELSE At("CHANNELS", q.index + 1)
      BY <1>2, <2>2 DEF After, NextInList
    <3>2. Entries("CHANNELS") = 0 .. MaxChannels - 1
      BY DEF Entries
    <3> QED BY <1>1, <2>2, <3>1, <3>2, FramesAssumption
            DEF At, ValidAt, Position, ConfigState, Stage, Rank
  <2>3. CASE q.state = "CONFIGS"
    <3>1. n = IF q.index + 1 >= NConfigs THEN At("MODULES", 0) ELSE At("CONFIGS", q.index + 1)
      BY <1>2, <2>3 DEF After, NextInList
    <3>2. Entries("CONFIGS") \subseteq 0 .. NConfigs - 1
      BY DEF Entries
    <3> QED BY <1>1, <2>3, <3>1, <3>2, FramesAssumption
            DEF At, ValidAt, Position, ConfigState, Stage, Rank
  <2>4. CASE q.state = "MODULES"
    <3>1. n = IF q.index + 1 >= NModules THEN At("QUEUE_STATUS", 0) ELSE At("MODULES", q.index + 1)
      BY <1>2, <2>4 DEF After, NextInList
    <3>2. Entries("MODULES") \subseteq 0 .. NModules - 1
      BY DEF Entries
    <3> QED BY <1>1, <2>4, <3>1, <3>2, FramesAssumption
            DEF At, ValidAt, Position, ConfigState, Stage, Rank
  <2>5. CASE q.state = "COMPLETE"
    <3>1. n = At("IDLE", 0) /\ q.index = 0
      BY <1>2, <2>5 DEF After, ValidAt
    <3> QED BY <2>5, <3>1 DEF At, ValidAt, Position, ConfigState
  <2> QED BY <2>1, <2>2, <2>3, <2>4, <2>5 DEF Stage
<1>5. ASSUME n.state = "IDLE" PROVE ~Before(ConfigFrame(q, r), f)
  <2>1. q.state = "COMPLETE" /\ q.index = 0
    BY <1>4, <1>5
  <2> QED BY <1>3, <2>1 DEF Before, ConfigFrame, Rank, Stage, Entries
<1>6. ASSUME n.state # "IDLE"
      PROVE  ~Before(f, ConfigFrame(n, r)) <=> Before(ConfigFrame(q, r), f)
  <2>1. CASE n.state = q.state /\ n.index = q.index + 1
    BY <1>1, <1>3, <2>1, RankFacts DEF Before, ConfigFrame
  <2>2. CASE Rank[n.state] = Rank[q.state] + 1 /\ n.index = 0
             /\ \A k \in Entries(q.state) : k <= q.index
    <3>1. n.state \in Stage
      BY <1>4, <1>6, SMTT(30)
    <3> QED BY <1>1, <1>3, <2>2, <3>1, RankFacts DEF Before, ConfigFrame
  <2> QED BY <1>4, <1>6, <2>1, <2>2
<1> QED BY <1>2, <1>4, <1>5, <1>6

ConfigType == config = [at |-> config.at, request |-> config.request]
              /\ ValidAt(config.at) /\ config.request \in Request

(* meshtastic_phoneapi_next_config_frame() makes the first frame of the handshake
   that was not made yet. *)
LEMMA MakesNext ==
  ASSUME ConfigType, NEW f, NextConfigFrame(f)
  PROVE  /\ f \in Todo /\ (\A g \in Todo \ {f} : Before(f, g)) /\ Todo' = Todo \ {f}
         /\ ConfigType' /\ config'.request = config.request
         /\ f \in Frame /\ IsConfig(f) /\ f.request = config.request
<1>1. PICK p, r, q : p = config.at /\ r = config.request /\ q = Reached(p)
  OBVIOUS
<1>2. /\ p.state # "IDLE" /\ ValidAt(p) /\ r \in Request /\ f = ConfigFrame(q, r)
      /\ config' = [at |-> After(q), request |-> r]
  BY <1>1, SMTT(30) DEF NextConfigFrame, config_active, ConfigType
<1>3. /\ ValidAt(q) /\ q.state \in Stage /\ f \in Handshake(r)
      /\ ~Before(f, ConfigFrame(p, r))
      /\ \A g \in Handshake(r) : ~Before(g, ConfigFrame(p, r)) => g = f \/ Before(f, g)
  BY <1>1, <1>2, ReachedFacts
<1>4. Todo = {g \in Handshake(r) : ~Before(g, ConfigFrame(p, r))}
  BY <1>1, <1>2 DEF Todo, config_active
<1>5. PICK n : n = After(q)
  OBVIOUS
<1>6. Todo' = IF n.state # "IDLE" THEN {g \in Handshake(r) : ~Before(g, ConfigFrame(n, r))} ELSE {}
  BY <1>2, <1>5 DEF Todo, config_active
<1>7. /\ ValidAt(n)
      /\ \A g \in Handshake(r) :
           /\ n.state = "IDLE" => ~Before(f, g)
           /\ n.state # "IDLE" => (~Before(g, ConfigFrame(n, r)) <=> Before(f, g))
  BY <1>2, <1>3, <1>5, AfterFacts
<1>8. \A g \in Handshake(r) : g # f /\ ~Before(g, ConfigFrame(p, r)) <=> Before(f, g)
  <2>1. ASSUME NEW g \in Handshake(r), Before(f, g) PROVE g # f /\ ~Before(g, ConfigFrame(p, r))
    <3>1. p.state \in Stage /\ p.index \in Nat
      BY <1>2 DEF ValidAt, Position, ConfigState
    <3>2. ConfigFrame(p, r).type \in Stage /\ ConfigFrame(p, r).at \in Nat
      BY <3>1 DEF ConfigFrame
    <3>3. f.type \in Stage /\ g.type \in Stage /\ f.at \in Nat /\ g.at \in Nat
      BY <1>3, HandshakeFrame
    <3> QED BY <1>3, <2>1, <3>2, <3>3, BeforeOrder
  <2> QED BY <1>3, <2>1
<1>9. f \in Todo /\ (\A g \in Todo \ {f} : Before(f, g)) /\ Todo' = Todo \ {f}
  <2>1. f \in Todo /\ \A g \in Todo \ {f} : Before(f, g)
    BY <1>3, <1>4, <1>8
  <2>2. Todo \ {f} = {g \in Handshake(r) : Before(f, g)}
    BY <1>4, <1>8
  <2>3. Todo' = {g \in Handshake(r) : Before(f, g)}
    BY <1>6, <1>7
  <2> QED BY <2>1, <2>2, <2>3
<1>10. f \in Frame /\ IsConfig(f) /\ f.request = r
  BY <1>2, <1>3, HandshakeFrame DEF IsConfig
<1>11. ConfigType' /\ config'.request = r
  BY <1>2, <1>5, <1>7 DEF ConfigType
<1> QED BY <1>1, <1>9, <1>10, <1>11

(* want_config starts with the first frame. *)
LEMMA StartsHandshake ==
  ASSUME NEW r \in Request, config' = [at |-> At("MY_INFO", 0), request |-> r]
  PROVE  ConfigType' /\ Todo' = Handshake(r)
<1>1. ValidAt(At("MY_INFO", 0))
  BY FramesAssumption DEF ValidAt, At, Position, ConfigState, Stage
<1>2. ConfigType'
  BY <1>1 DEF ConfigType
<1>3. ASSUME NEW f \in Handshake(r) PROVE ~Before(f, ConfigFrame(At("MY_INFO", 0), r))
  BY HandshakeFrame DEF Before, ConfigFrame, At, Rank, Stage
<1>4. Todo' = {f \in Handshake(r) : ~Before(f, ConfigFrame(At("MY_INFO", 0), r))}
  BY DEF Todo, config_active, At
<1> QED BY <1>2, <1>3, <1>4

(* When no handshake is under way, none of its frames is still to come. *)
LEMMA IdleHandshake ==
  ASSUME config = [at |-> At("IDLE", 0), request |-> 0]
  PROVE  ConfigType /\ Todo = {}
BY FramesAssumption DEF ConfigType, ValidAt, At, Position, ConfigState, Request, Todo, config_active
-----------------------------------------------------------------------------
(* A line that is the frames a of a transport's own followed by its queue q *)

(* The places of the two parts in the line *)
LEMMA CatFacts ==
  ASSUME NEW S, NEW a \in Seq(S), NEW q \in Seq(S)
  PROVE  /\ a \o q \in Seq(S) /\ Len(a \o q) = Len(a) + Len(q)
         /\ Len(a) \in Nat /\ Len(q) \in Nat
         /\ \A i \in 1 .. Len(a) : (a \o q)[i] = a[i]
         /\ \A i \in 1 .. Len(q) : (a \o q)[Len(a) + i] = q[i]
         /\ \A i \in 1 .. Len(a \o q) : i \in 1 .. Len(a) \/ i - Len(a) \in 1 .. Len(q)
<1>1. /\ a \o q \in Seq(S) /\ Len(a \o q) = Len(a) + Len(q)
      /\ Len(a) \in Nat /\ Len(q) \in Nat
  OBVIOUS
<1>2. \A i \in 1 .. Len(a) + Len(q) : (a \o q)[i] = IF i <= Len(a) THEN a[i] ELSE q[i - Len(a)]
  OBVIOUS
<1>3. ASSUME NEW i \in 1 .. Len(q) PROVE (a \o q)[Len(a) + i] = q[i]
  <2>1. Len(a) + i \in 1 .. Len(a) + Len(q) /\ ~(Len(a) + i <= Len(a)) /\ (Len(a) + i) - Len(a) = i
    BY <1>1
  <2> QED BY <1>2, <2>1
<1> QED BY <1>1, <1>2, <1>3

(* A transport that holds no frame adds none. *)
LEMMA CatEmpty ==
  ASSUME NEW S, NEW a \in Seq(S)
  PROVE  a \o <<>> = a /\ <<>> \o a = a
OBVIOUS

(* A transport that holds one frame *)
LEMMA CatSingle ==
  ASSUME NEW S, NEW f \in S
  PROVE  /\ Len(<<f>>) = 1 /\ 1 .. Len(<<f>>) = {1} /\ <<f>>[1] = f /\ <<f>> \in Seq(S)
         /\ <<f>> \o <<>> = <<f>> /\ <<>> \o <<f>> = <<f>> /\ Append(<<>>, f) = <<f>>
OBVIOUS

(* A frame joins the queue. *)
LEMMA CatAppend ==
  ASSUME NEW S, NEW a \in Seq(S), NEW q \in Seq(S), NEW f \in S
  PROVE  a \o Append(q, f) = Append(a \o q, f)
<1>1. <<f>> \in Seq(S) /\ a \o q \in Seq(S)
  OBVIOUS
<1>2. Append(q, f) = q \o <<f>> /\ Append(a \o q, f) = (a \o q) \o <<f>>
  BY <1>1
<1>3. (a \o q) \o <<f>> = a \o (q \o <<f>>)
  BY <1>1
<1> QED BY <1>2, <1>3

(* The first frame of the queue is popped, or put back. *)
LEMMA CatFront ==
  ASSUME NEW S, NEW a \in Seq(S), NEW q \in Seq(S), NEW f \in S
  PROVE  /\ a \o (<<f>> \o q) = (a \o <<f>>) \o q
         /\ <<f>> \o q \in Seq(S) /\ Len(<<f>> \o q) = Len(q) + 1
OBVIOUS

(* The frame at the head of the queue becomes the last of the transport's own. *)
LEMMA CatPop ==
  ASSUME NEW S, NEW a \in Seq(S), NEW q \in Seq(S), q # <<>>
  PROVE  Head(q) \in S /\ Tail(q) \in Seq(S) /\ a \o q = (a \o <<Head(q)>>) \o Tail(q)
<1>1. Head(q) \in S /\ Tail(q) \in Seq(S) /\ Head(q) = q[1] /\ 1 \in 1 .. Len(q) /\ Len(q) \in Nat
  OBVIOUS
<1>2. q = <<Head(q)>> \o Tail(q)
  OBVIOUS
<1>3. a \o (<<Head(q)>> \o Tail(q)) = (a \o <<Head(q)>>) \o Tail(q)
  BY <1>1, CatFront
<1> QED BY <1>1, <1>2, <1>3

(* The first of the transport's own frames leaves. *)
LEMMA CatTail ==
  ASSUME NEW S, NEW a \in Seq(S), a # <<>>, NEW q \in Seq(S)
  PROVE  /\ Tail(a) \o q = Tail(a \o q) /\ Head(a) = Head(a \o q) /\ a \o q # <<>>
         /\ Head(a) \in S
<1>1. /\ Head(a) \in S /\ Tail(a) \in Seq(S) /\ <<Head(a)>> \in Seq(S)
      /\ a = <<Head(a)>> \o Tail(a)
  <2>1. <<>> \in Seq(S)
    OBVIOUS
  <2>2. /\ Head(a) \in S /\ Tail(a) \in Seq(S) /\ <<Head(a)>> \in Seq(S)
        /\ <<>> \o a = (<<>> \o <<Head(a)>>) \o Tail(a)
    BY <2>1, CatPop
  <2> QED BY <2>2, CatEmpty
<1>2. a \o q = <<Head(a)>> \o (Tail(a) \o q)
  BY <1>1
<1>3. Tail(a) \o q \in Seq(S)
  BY <1>1
<1>4. ASSUME NEW h \in S, NEW t \in Seq(S)
      PROVE  Head(<<h>> \o t) = h /\ Tail(<<h>> \o t) = t /\ <<h>> \o t # <<>>
  <2>1. PICK u : u = <<h>> \o t
    BY Zenon
  <2>2. u \in Seq(S) /\ Len(u) = Len(t) + 1 /\ Len(t) \in Nat /\ u # <<>>
    BY <2>1
  <2>3. u[1] = h /\ \A i \in 1 .. Len(t) : u[i + 1] = t[i]
    BY <2>1
  <2>4. Tail(u) \in Seq(S) /\ Len(Tail(u)) = Len(t) /\ \A i \in 1 .. Len(t) : Tail(u)[i] = t[i]
    BY <2>2, <2>3
  <2>5. Tail(u) = t
    BY <2>2, <2>4
  <2> QED BY <2>1, <2>2, <2>3, <2>5
<1> QED BY <1>1, <1>2, <1>3, <1>4

(* The queue is emptied. *)
LEMMA CatPrefix ==
  ASSUME NEW S, NEW a \in Seq(S), NEW q \in Seq(S)
  PROVE  Len(a) \in 0 .. Len(a \o q) /\ a = SubSeq(a \o q, 1, Len(a))
<1>1. PICK u : u = SubSeq(a \o q, 1, Len(a))
  OBVIOUS
<1>2. Len(a) \in 0 .. Len(a \o q)
  BY CatFacts
<1>3. u \in Seq(S) /\ Len(u) = Len(a) /\ \A i \in 1 .. Len(a) : u[i] = (a \o q)[i]
  BY <1>1, <1>2, CatFacts
<1>4. \A i \in 1 .. Len(a) : u[i] = a[i]
  BY <1>3, CatFacts
<1> QED BY <1>1, <1>2, <1>3, <1>4

(* Sequence s with its k-th element taken out *)
Out(s, k) == [i \in 1 .. Len(s) - 1 |-> IF i < k THEN s[i] ELSE s[i + 1]]

(* A sequence with the elements of s but the k-th is Out(s, k). *)
LEMMA OutEqual ==
  ASSUME NEW S, NEW s \in Seq(S), NEW k \in 1 .. Len(s), NEW u \in Seq(S),
         Len(u) = Len(s) - 1,
         \A i \in 1 .. Len(u) : u[i] = IF i < k THEN s[i] ELSE s[i + 1]
  PROVE  u = Out(s, k)
<1>1. u = [i \in 1 .. Len(u) |-> u[i]]
  OBVIOUS
<1> QED BY <1>1 DEF Out

(* The queue loses its first frame. *)
LEMMA CatLosesFirst ==
  ASSUME NEW S, NEW a \in Seq(S), NEW q \in Seq(S), q # <<>>
  PROVE  /\ Len(a) + 1 \in 1 .. Len(a \o q) /\ (a \o q)[Len(a) + 1] = Head(q)
         /\ a \o Tail(q) = Out(a \o q, Len(a) + 1)
<1>1. PICK s, u : s = a \o q /\ u = a \o Tail(q)
  BY Zenon
<1>2. /\ Len(q) \in Nat \ {0} /\ Tail(q) \in Seq(S) /\ Len(Tail(q)) = Len(q) - 1
      /\ \A i \in 1 .. Len(q) - 1 : Tail(q)[i] = q[i + 1]
      /\ Head(q) = q[1]
  OBVIOUS
<1>3. /\ s \in Seq(S) /\ u \in Seq(S) /\ Len(u) = Len(s) - 1 /\ Len(s) = Len(a) + Len(q)
      /\ Len(a) \in Nat
  BY <1>1, <1>2, CatFacts
<1>4. ASSUME NEW i \in 1 .. Len(u) PROVE u[i] = IF i < Len(a) + 1 THEN s[i] ELSE s[i + 1]
  <2>1. CASE i \in 1 .. Len(a)
    BY <1>1, <1>2, <1>3, <2>1, CatFacts
  <2>2. CASE i \notin 1 .. Len(a)
    <3>1. PICK j : j = i - Len(a)
      OBVIOUS
    <3>2. j \in 1 .. Len(q) - 1 /\ i = Len(a) + j /\ i + 1 = Len(a) + (j + 1) /\ ~(i < Len(a) + 1)
          /\ j + 1 \in 1 .. Len(q)
      BY <1>2, <1>3, <2>2, <3>1
    <3>3. u[i] = Tail(q)[j] /\ s[i + 1] = q[j + 1]
      BY <1>1, <1>2, <3>2, CatFacts
    <3> QED BY <1>2, <3>2, <3>3
  <2> QED BY <2>1, <2>2
<1>5. Len(a) + 1 \in 1 .. Len(s) /\ s[Len(a) + 1] = Head(q)
  <2>1. 1 \in 1 .. Len(q)
    BY <1>2
  <2> QED BY <1>1, <1>2, <1>3, <2>1, CatFacts
<1>6. u = Out(s, Len(a) + 1)
  BY <1>3, <1>4, <1>5, OutEqual, Zenon
<1> QED BY <1>1, <1>5, <1>6, Zenon

(* The queue loses its last frame. *)
LEMMA CatLosesLast ==
  ASSUME NEW S, NEW a \in Seq(S), NEW q \in Seq(S), q # <<>>
  PROVE  LET s == a \o q
             t == SubSeq(q, 1, Len(q) - 1)
         IN  /\ t \in Seq(S) /\ Len(t) = Len(q) - 1
             /\ Len(s) \in 1 .. Len(s) /\ s[Len(s)] = q[Len(q)]
             /\ a \o t = Out(s, Len(s))
<1>1. PICK s, t, u : s = a \o q /\ t = SubSeq(q, 1, Len(q) - 1) /\ u = a \o t
  BY Zenon
<1>2. /\ Len(q) \in Nat \ {0} /\ t \in Seq(S) /\ Len(t) = Len(q) - 1
      /\ \A i \in 1 .. Len(q) - 1 : t[i] = q[i]
  <2>1. Len(q) \in Nat \ {0}
    OBVIOUS
  <2>2. PICK n : n = Len(q) - 1
    BY Zenon
  <2>3. n \in 0 .. Len(q) /\ t = SubSeq(q, 1, n)
    BY <1>1, <2>1, <2>2
  <2>4. t \in Seq(S) /\ Len(t) = n /\ \A i \in 1 .. n : t[i] = q[i]
    BY <2>3
  <2> QED BY <2>1, <2>2, <2>4
<1>3. /\ s \in Seq(S) /\ u \in Seq(S) /\ Len(u) = Len(s) - 1 /\ Len(s) = Len(a) + Len(q)
      /\ Len(a) \in Nat
  BY <1>1, <1>2, CatFacts
<1>4. ASSUME NEW i \in 1 .. Len(u) PROVE u[i] = IF i < Len(s) THEN s[i] ELSE s[i + 1]
  <2>1. CASE i \in 1 .. Len(a)
    BY <1>1, <1>2, <1>3, <2>1, CatFacts
  <2>2. CASE i \notin 1 .. Len(a)
    <3>1. PICK j : j = i - Len(a)
      OBVIOUS
    <3>2. j \in 1 .. Len(q) - 1 /\ i = Len(a) + j /\ i < Len(s) /\ j \in 1 .. Len(q)
      BY <1>2, <1>3, <2>2, <3>1
    <3>3. u[i] = t[j] /\ s[i] = q[j]
      BY <1>1, <1>2, <3>2, CatFacts
    <3> QED BY <1>2, <3>2, <3>3
  <2> QED BY <2>1, <2>2
<1>5. Len(s) \in 1 .. Len(s) /\ s[Len(s)] = q[Len(q)]
  <2>1. Len(q) \in 1 .. Len(q) /\ Len(s) = Len(a) + Len(q)
    BY <1>2, <1>3
  <2>2. s[Len(a) + Len(q)] = q[Len(q)]
    BY <1>1, <2>1, CatFacts
  <2> QED BY <1>2, <1>3, <2>1, <2>2
<1>6. u = Out(s, Len(s))
  BY <1>3, <1>4, <1>5, OutEqual, Zenon
<1> QED BY <1>1, <1>2, <1>5, <1>6, Zenon
-----------------------------------------------------------------------------
(* The operations on the queue of frames *)

(* The iterator's state is of its types. *)
LEMMA ConfigFacts ==
  ASSUME ConfigType
  PROVE  /\ config \in [at : Position, request : Request]
         /\ config.request \in Request /\ config.request \in Nat
<1>1. config.at \in Position
  BY DEF ConfigType, ValidAt
<1>2. config = [at |-> config.at, request |-> config.request] /\ config.request \in Request
  BY DEF ConfigType
<1> QED BY <1>1, <1>2, FramesAssumption DEF Request

(* The types of frames, and which are not of the handshake *)
LEMMA FrameFacts ==
  /\ \A f \in Frame : f.at \in Nat /\ f.request \in Nat
  /\ QueueStatus \in Frame /\ ~IsConfig(QueueStatus)
  /\ Rebooted \in Frame /\ ~IsConfig(Rebooted)
  /\ \A n \in Nat : Packet(n) \in Frame /\ ~IsConfig(Packet(n))
BY FramesAssumption
   DEF Frame, FrameType, Stage, Request, QueueStatus, Rebooted, Packet, IsConfig

(* The frames of s are of requests up to n. *)
Upto(s, n) == \A i \in 1 .. Len(s) : IsConfig(s[i]) => s[i].request <= n

QueueInv == queue \in Seq(Frame) /\ Len(queue) <= QueueSize /\ cut \subseteq Request

(* The first frame of a sequence is taken. *)
LEMMA PopFacts ==
  ASSUME NEW s \in Seq(Frame), s # <<>>, NEW n, Upto(s, n)
  PROVE  /\ Len(s) \in Nat \ {0} /\ Tail(s) \in Seq(Frame) /\ Len(Tail(s)) = Len(s) - 1
         /\ Head(s) \in Frame
         /\ Upto(Tail(s), n) /\ (IsConfig(Head(s)) => Head(s).request <= n)
<1>1. /\ Len(s) \in Nat \ {0} /\ Tail(s) \in Seq(Frame) /\ Len(Tail(s)) = Len(s) - 1
      /\ \A i \in 1 .. Len(Tail(s)) : Tail(s)[i] = s[i + 1]
      /\ Head(s) \in Frame /\ Head(s) = s[1]
  OBVIOUS
<1>2. PICK t, h : t = Tail(s) /\ h = Head(s)
  BY Zenon
<1>3. Upto(t, n) /\ (IsConfig(h) => h.request <= n)
  BY <1>1, <1>2 DEF Upto
<1> QED BY <1>1, <1>2, <1>3

(* A frame pushed out of a full queue is one of its frames. *)
LEMMA CuttingFacts ==
  ASSUME cut \subseteq Request, NEW f \in Frame
  PROVE  Cutting(f) \subseteq Request
BY DEF Cutting, Frame

(* meshtastic_phoneapi_enqueue_fromradio() keeps the queue within its bound. *)
LEMMA EnqueueFacts ==
  ASSUME QueueInv, NEW f \in Frame, Enqueue(f), NEW n, Upto(queue, n), ~IsConfig(f)
  PROVE  QueueInv' /\ queue' # <<>> /\ Upto(queue', n)
<1>1. Len(queue) \in Nat /\ QueueSize \in Nat \ {0}
  BY PhoneApiAssumption DEF QueueInv
<1>2. CASE Len(queue) = QueueSize
  <2>1. queue # <<>> /\ queue' = Append(Tail(queue), f) /\ cut' = Cutting(Head(queue))
    BY <1>1, <1>2 DEF Enqueue
  <2>2. /\ Tail(queue) \in Seq(Frame) /\ Len(Tail(queue)) = Len(queue) - 1
        /\ Head(queue) \in Frame
        /\ \A i \in 1 .. Len(Tail(queue)) : Tail(queue)[i] = queue[i + 1]
    BY <2>1 DEF QueueInv
  <2>3. /\ queue' \in Seq(Frame) /\ Len(queue') = Len(queue) /\ queue' # <<>>
        /\ \A i \in 1 .. Len(queue) - 1 : queue'[i] = Tail(queue)[i]
        /\ queue'[Len(queue)] = f
    BY <1>1, <2>1, <2>2, AppendAdds
  <2>4. Upto(queue', n)
    BY <1>1, <2>2, <2>3 DEF Upto
  <2>5. cut' \subseteq Request
    BY <2>1, <2>2, CuttingFacts DEF QueueInv
  <2> QED BY <2>3, <2>4, <2>5 DEF QueueInv
<1>3. CASE Len(queue) # QueueSize
  <2>1. queue' = Append(queue, f) /\ cut' = cut
    BY <1>3 DEF Enqueue
  <2>2. /\ queue' \in Seq(Frame) /\ Len(queue') = Len(queue) + 1 /\ queue' # <<>>
        /\ \A i \in 1 .. Len(queue) : queue'[i] = queue[i]
        /\ queue'[Len(queue) + 1] = f
    BY <1>1, <2>1, AppendAdds DEF QueueInv
  <2>3. Upto(queue', n)
    BY <1>1, <2>2 DEF Upto
  <2> QED BY <1>1, <1>3, <2>1, <2>2, <2>3 DEF QueueInv
<1> QED BY <1>2, <1>3

(* meshtastic_phoneapi_push_frame_front() keeps the queue within its bound, too. *)
LEMMA PushFrontFacts ==
  ASSUME QueueInv, NEW f \in Frame, PushFront(f), NEW n, Upto(queue, n),
         IsConfig(f) => f.request <= n
  PROVE  QueueInv' /\ Upto(queue', n)
<1>1. Len(queue) \in Nat /\ QueueSize \in Nat \ {0} /\ <<f>> \in Seq(Frame)
      /\ Len(<<f>>) = 1 /\ <<f>>[1] = f
  BY PhoneApiAssumption DEF QueueInv
<1>2. ASSUME NEW t \in Seq(Frame), queue' = <<f>> \o t, Upto(t, n)
      PROVE  queue' \in Seq(Frame) /\ Len(queue') = Len(t) + 1 /\ Upto(queue', n)
  <2>1. /\ queue' \in Seq(Frame) /\ Len(queue') = 1 + Len(t) /\ Len(t) \in Nat
        /\ queue'[1] = f
        /\ \A i \in 1 .. Len(t) : queue'[1 + i] = t[i]
        /\ \A i \in 1 .. Len(queue') : i \in 1 .. 1 \/ i - 1 \in 1 .. Len(t)
    BY <1>1, <1>2
  <2>2. ASSUME NEW i \in 1 .. Len(queue'), IsConfig(queue'[i]) PROVE queue'[i].request <= n
    <3>1. CASE i = 1
      BY <2>1, <2>2, <3>1
    <3>2. CASE i - 1 \in 1 .. Len(t)
      <4>1. PICK j \in 1 .. Len(t) : i = 1 + j
        BY <3>2
      <4> QED BY <1>2, <2>1, <2>2, <4>1 DEF Upto
    <3> QED BY <2>1, <3>1, <3>2
  <2> QED BY <2>1, <2>2 DEF Upto
<1>3. CASE Len(queue) = QueueSize
  <2>1. PICK t : t = SubSeq(queue, 1, Len(queue) - 1)
    BY Zenon
  <2>2. queue # <<>> /\ queue' = <<f>> \o t /\ cut' = Cutting(queue[Len(queue)])
    BY <1>1, <1>3, <2>1 DEF PushFront
  <2>3. /\ t \in Seq(Frame) /\ Len(t) = Len(queue) - 1
        /\ \A i \in 1 .. Len(t) : t[i] = queue[i]
    BY <1>1, <2>1, <2>2 DEF QueueInv
  <2>4. Upto(t, n)
    BY <1>1, <2>3 DEF Upto
  <2>5. queue[Len(queue)] \in Frame
    BY <1>1, <1>3 DEF QueueInv
  <2>6. cut' \subseteq Request
    BY <2>2, <2>5, CuttingFacts DEF QueueInv
  <2>7. queue' \in Seq(Frame) /\ Len(queue') = Len(t) + 1 /\ Upto(queue', n)
    BY <1>2, <2>2, <2>3, <2>4, Zenon
  <2> QED BY <1>1, <1>3, <2>3, <2>6, <2>7 DEF QueueInv
<1>4. CASE Len(queue) # QueueSize
  <2>1. queue' = <<f>> \o queue /\ cut' = cut
    BY <1>4 DEF PushFront
  <2>2. queue' \in Seq(Frame) /\ Len(queue') = Len(queue) + 1 /\ Upto(queue', n)
    BY <1>2, <2>1 DEF QueueInv
  <2> QED BY <1>1, <1>4, <2>1, <2>2 DEF QueueInv
<1> QED BY <1>3, <1>4

(* What queueing a frame does to a line that ends with the queue *)
LEMMA EnqueueJoins ==
  ASSUME QueueInv, NEW f \in Frame, Enqueue(f), NEW a \in Seq(Frame)
  PROVE  \/ a \o queue' = Append(a \o queue, f) /\ cut' = cut
         \/ \E k \in 1 .. Len(a \o queue) : /\ a \o queue' = Append(Out(a \o queue, k), f)
                                            /\ cut' = Cutting((a \o queue)[k])
<1>1. Len(queue) \in Nat /\ QueueSize \in Nat \ {0} /\ queue \in Seq(Frame)
  BY PhoneApiAssumption DEF QueueInv
<1>2. CASE Len(queue) = QueueSize
  <2>1. queue # <<>> /\ queue' = Append(Tail(queue), f) /\ cut' = Cutting(Head(queue))
    BY <1>1, <1>2 DEF Enqueue
  <2>2. /\ Len(a) + 1 \in 1 .. Len(a \o queue) /\ (a \o queue)[Len(a) + 1] = Head(queue)
        /\ a \o Tail(queue) = Out(a \o queue, Len(a) + 1)
    BY <1>1, <2>1, CatLosesFirst
  <2>3. Tail(queue) \in Seq(Frame)
    BY <1>1, <2>1
  <2>4. a \o queue' = Append(a \o Tail(queue), f)
    BY <2>1, <2>3, CatAppend
  <2> QED BY <2>1, <2>2, <2>4, Zenon
<1>3. CASE Len(queue) # QueueSize
  <2>1. queue' = Append(queue, f) /\ cut' = cut
    BY <1>3 DEF Enqueue
  <2> QED BY <1>1, <2>1, CatAppend
<1> QED BY <1>2, <1>3, Zenon

(* A frame put back is in the line where it was; a full queue loses the last. *)
LEMMA PushFrontLoses ==
  ASSUME QueueInv, NEW f \in Frame, PushFront(f), NEW a \in Seq(Frame)
  PROVE  LET s == (a \o <<f>>) \o queue
         IN  \/ a \o queue' = s /\ cut' = cut
             \/ \E k \in 1 .. Len(s) : a \o queue' = Out(s, k) /\ cut' = Cutting(s[k])
<1>1. PICK b, s : b = a \o <<f>> /\ s = b \o queue
  BY Zenon
<1>2. Len(queue) \in Nat /\ QueueSize \in Nat \ {0} /\ queue \in Seq(Frame)
      /\ <<f>> \in Seq(Frame)
  BY PhoneApiAssumption DEF QueueInv
<1>3. b \in Seq(Frame)
  BY <1>1, <1>2, CatFacts
<1>4. ASSUME NEW t \in Seq(Frame) PROVE (a \o <<f>>) \o t = a \o (<<f>> \o t)
  BY CatFront
<1>5. CASE Len(queue) = QueueSize
  <2>1. PICK t : t = SubSeq(queue, 1, Len(queue) - 1)
    BY Zenon
  <2>2. queue # <<>> /\ queue' = <<f>> \o t /\ cut' = Cutting(queue[Len(queue)])
    BY <1>2, <1>5, <2>1 DEF PushFront
  <2>3. /\ SubSeq(queue, 1, Len(queue) - 1) \in Seq(Frame)
        /\ Len(b \o queue) \in 1 .. Len(b \o queue)
        /\ (b \o queue)[Len(b \o queue)] = queue[Len(queue)]
        /\ b \o SubSeq(queue, 1, Len(queue) - 1) = Out(b \o queue, Len(b \o queue))
    BY <1>2, <1>3, <2>2, CatLosesLast, ZenonT(30)
  <2>4. /\ t \in Seq(Frame) /\ Len(s) \in 1 .. Len(s) /\ s[Len(s)] = queue[Len(queue)]
        /\ b \o t = Out(s, Len(s))
    BY <1>1, <2>1, <2>3, Zenon
  <2>5. (a \o <<f>>) \o t = a \o (<<f>> \o t)
    BY <1>4, <2>4
  <2>6. a \o queue' = b \o t
    BY <1>1, <2>2, <2>5, Zenon
  <2> QED BY <1>1, <2>2, <2>4, <2>6, Zenon
<1>6. CASE Len(queue) # QueueSize
  <2>1. queue' = <<f>> \o queue /\ cut' = cut
    BY <1>6 DEF PushFront
  <2>2. a \o queue' = s
    BY <1>1, <1>2, <1>4, <2>1
  <2> QED BY <1>1, <2>1, <2>2, Zenon
<1> QED BY <1>5, <1>6, Zenon

=============================================================================
