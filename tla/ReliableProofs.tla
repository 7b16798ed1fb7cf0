--------------------------- MODULE ReliableProofs ---------------------------
(* Proofs about Reliable.tla, for every table size, set of packets, number  *)
(* of retransmissions and assignment of packet IDs.                         *)
EXTENDS Reliable, TLAPS

\* Init establishes the inductive invariant.
LEMMA InitIInv == Init => IInv
  <1> SUFFICES ASSUME Init PROVE IInv
    OBVIOUS
  <1> USE ConstantsAssumption DEF Init, ConstantsAssumption
  <1>1. TypeOK
    <2>1. table \in [Slot -> Entry] /\ \A s \in Slot : table[s].wait >= -MaxLag
      BY DEF Entry, Free
    <2>2. captured \in [Holder -> Captured]
      BY DEF Captured
    <2>3. reports \in [Packet -> Seq(Outcome)] /\ resends \in [Packet -> Nat]
      OBVIOUS
    <2>4. fate \in [Packet -> Fate]
      BY DEF Fate
    <2>5. QED
      BY <2>1, <2>2, <2>3, <2>4, Zenon DEF TypeOK
  <1>2. Accounted
    BY DEF Accounted, SingleCopy, InTable, IsCaptured, Free, Nothing
  <1>3. TimerCovers
    BY DEF TimerCovers, Occupied, Free
  <1>4. TimeoutMeansExhausted
    BY DEF TimeoutMeansExhausted, Nothing
  <1>5. Bookkeeping
    BY DEF Bookkeeping, Occupied, Free, Holder, Fate
  <1>6. QED
    BY <1>1, <1>2, <1>3, <1>4, <1>5 DEF IInv

\* reliable_reschedule() leaves the work queued, or the timer no later than
\* any entry is due plus the time spent waiting for the lock.
LEMMA RescheduleCovers ==
  ASSUME NEW tab \in [Slot -> Entry], NEW lag \in Lag,
         timer \in Nat \cup {Off}, queued \in BOOLEAN, Reschedule(tab, lag)
  PROVE  /\ timer' \in Nat \cup {Off}
         /\ queued' \in BOOLEAN
         /\ \A s \in Occupied(tab) :
              queued' \/ (timer' # Off /\ timer' <= tab[s].wait + MaxLag)
  <1> USE ConstantsAssumption DEF ConstantsAssumption, Lag, Off, Occupied, Entry
  <1>1. CASE Occupied(tab) = {} /\ UNCHANGED <<timer, queued>>
    BY <1>1
  <1>2. ASSUME NEW s \in Occupied(tab),
               \A o \in Occupied(tab) : tab[s].wait <= tab[o].wait,
               WorkReschedule(tab[s].wait + lag)
        PROVE  /\ timer' \in Nat \cup {Off}
               /\ queued' \in BOOLEAN
               /\ \A o \in Occupied(tab) :
                    queued' \/ (timer' # Off /\ timer' <= tab[o].wait + MaxLag)
    <2>1. /\ s \in Slot /\ tab[s].wait \in Int /\ tab[s].wait + lag \in Int
          /\ \A o \in Occupied(tab) : tab[o].wait \in Int
      OBVIOUS
    <2>2. CASE tab[s].wait + lag > 0
      <3>1. timer' = tab[s].wait + lag /\ queued' = queued
        BY <1>2, <2>1, <2>2 DEF WorkReschedule
      <3>2. \A o \in Occupied(tab) : timer' <= tab[o].wait + MaxLag
        BY <1>2, <2>1, <3>1
      <3>3. QED
        BY <2>1, <2>2, <3>1, <3>2
    <2>3. CASE ~(tab[s].wait + lag > 0)
      BY <1>2, <2>3, Zenon DEF WorkReschedule
    <2>4. QED
      BY <2>2, <2>3
  <1>3. QED
    BY <1>1, <1>2 DEF Reschedule

\* The clock moves on: deadlines come closer and no timer is passed by.
LEMMA TickStep == IInv /\ Tick => IInv'
  <1> SUFFICES ASSUME IInv, Tick PROVE IInv'
    OBVIOUS
  <1> USE ConstantsAssumption DEF ConstantsAssumption
  <1>1. /\ table' \in [Slot -> Entry]
        /\ \A s \in Slot : /\ table'[s].pkt = table[s].pkt
                           /\ table'[s].left = table[s].left
                           /\ table'[s].wait >= -MaxLag
                           /\ table'[s].wait >= table[s].wait - 1
    <2>1. ASSUME NEW s \in Slot
          PROVE  /\ table'[s] \in Entry
                 /\ table'[s].pkt = table[s].pkt
                 /\ table'[s].left = table[s].left
                 /\ table'[s].wait >= -MaxLag
                 /\ table'[s].wait >= table[s].wait - 1
      <3>1. table[s] \in Entry /\ table[s].wait \in Int /\ table[s].wait >= -MaxLag
        BY DEF IInv, TypeOK, Entry
      <3>2. CASE table[s].pkt # None /\ table[s].wait > -MaxLag
        BY <3>1, <3>2 DEF Tick, Entry
      <3>3. CASE ~(table[s].pkt # None /\ table[s].wait > -MaxLag)
        BY <3>1, <3>3 DEF Tick, Entry
      <3>4. QED
        BY <3>2, <3>3
    <2>2. table' = [s \in Slot |-> table'[s]]
      BY DEF Tick
    <2>3. QED
      BY <2>1, <2>2
  <1>2. /\ timer' \in Nat \cup {Off}
        /\ timer # Off => timer' # Off
        /\ timer > 0 => timer' = timer - 1
        /\ timer = 0 => timer' = 0
    BY DEF IInv, TypeOK, Tick, Off
  <1>3. UNCHANGED <<queued, handler, captured, fate, reports, resends, resetting>>
    BY DEF Tick
  <1>4. TypeOK'
    BY <1>1, <1>2, <1>3 DEF IInv, TypeOK
  <1>5. Accounted'
    BY <1>1, <1>3 DEF IInv, Accounted, SingleCopy, InTable, IsCaptured
  <1>6. TimerCovers'
    BY <1>1, <1>2, <1>3 DEF IInv, TypeOK, TimerCovers, Occupied, Entry, Off
  <1>7. TimeoutMeansExhausted'
    BY <1>3 DEF IInv, TimeoutMeansExhausted
  <1>8. Bookkeeping'
    BY <1>1, <1>3 DEF IInv, Bookkeeping, Occupied
  <1>9. QED
    BY <1>4, <1>5, <1>6, <1>7, <1>8 DEF IInv

\* The timeout of the work item expires and queues it.
LEMMA TimerExpiresStep == IInv /\ TimerExpires => IInv'
  BY DEF IInv, TypeOK, TimerExpires, Accounted, SingleCopy, InTable, IsCaptured,
         TimerCovers, TimeoutMeansExhausted, Bookkeeping, Occupied

\* The system work queue takes the work item.
LEMMA WorkStartStep == IInv /\ WorkStart => IInv'
  <1> SUFFICES ASSUME IInv, WorkStart PROVE IInv'
    OBVIOUS
  <1>1. /\ queued' = FALSE /\ handler = "idle" /\ handler' = "start"
        /\ UNCHANGED <<table, timer, captured, fate, reports, resends, resetting>>
    BY DEF WorkStart
  <1>2. TypeOK' /\ TimerCovers'
    BY <1>1, Zenon DEF IInv, TypeOK, TimerCovers, Occupied
  <1>3. Accounted' /\ TimeoutMeansExhausted'
    BY <1>1 DEF IInv, Accounted, SingleCopy, InTable, IsCaptured, TimeoutMeansExhausted
  <1>4. Bookkeeping'
    BY <1>1 DEF IInv, Bookkeeping, Occupied
  <1>5. QED
    BY <1>2, <1>3, <1>4 DEF IInv

\* meshtastic_send_packet() up to the return of the radio tracks nothing yet.
LEMMA SendStep == ASSUME NEW p \in Packet PROVE IInv /\ Send(p) => IInv'
  <1> SUFFICES ASSUME IInv, Send(p) PROVE IInv'
    OBVIOUS
  <1>1. /\ fate' \in [Packet -> Fate]
        /\ \A q \in Packet : q # p => fate'[q] = fate[q]
        /\ fate[p] = "idle" /\ fate'[p] \in {"sending", "failed"} /\ ~resetting
    BY Zenon DEF IInv, TypeOK, Send, Fate
  <1>2. UNCHANGED <<table, timer, queued, handler, captured, reports, resends, resetting>>
    BY DEF Send
  <1>3. TypeOK'
    BY <1>1, <1>2 DEF IInv, TypeOK
  <1>4. Accounted'
    BY <1>1, <1>2 DEF IInv, Accounted, SingleCopy, InTable, IsCaptured
  <1>5. TimerCovers' /\ TimeoutMeansExhausted'
    BY <1>2 DEF IInv, TimerCovers, TimeoutMeansExhausted, Occupied
  <1>6. Bookkeeping'
    BY <1>1, <1>2 DEF IInv, Bookkeeping, Occupied
  <1>7. QED
    BY <1>3, <1>4, <1>5, <1>6 DEF IInv

\* meshtastic_reliable_track() fills a free slot and restarts the timer.
LEMMA TrackStep == ASSUME NEW p \in Packet PROVE IInv /\ Track(p) => IInv'
  <1> SUFFICES ASSUME IInv, Track(p) PROVE IInv'
    OBVIOUS
  <1> USE ConstantsAssumption DEF ConstantsAssumption
  <1>1. /\ UNCHANGED <<handler, captured, reports, resends, resetting>>
        /\ fate[p] = "sending" /\ ~resetting
    BY DEF Track, IInv, Bookkeeping
  <1>2. ~InTable(p) /\ ~IsCaptured(p) /\ reports[p] = <<>> /\ resends[p] = 0
    BY <1>1 DEF IInv, TypeOK, Accounted, Bookkeeping
  <1>3. CASE TrackEntry(p)
    <2>1. PICK s \in Slot, delay \in Delay, lag \in Lag :
            /\ FirstFree(s)
            /\ table' = [table EXCEPT ![s] = NewEntry(p, delay, lag)]
            /\ Reschedule(table', lag)
            /\ fate' = [fate EXCEPT ![p] = "tracked"]
      BY <1>3, Zenon DEF TrackEntry
    <2>2. /\ NewEntry(p, delay, lag) \in Entry
          /\ NewEntry(p, delay, lag).pkt = p
          /\ NewEntry(p, delay, lag).left = Retransmissions
          /\ NewEntry(p, delay, lag).wait >= -MaxLag
      BY DEF NewEntry, Entry, Delay, Lag
    <2>3. /\ table' \in [Slot -> Entry]
          /\ table'[s] = NewEntry(p, delay, lag)
          /\ table[s].pkt = None
          /\ \A o \in Slot : o # s => table'[o] = table[o]
      BY <2>1, <2>2 DEF IInv, TypeOK, FirstFree
    <2>4. /\ fate' \in [Packet -> Fate] /\ fate'[p] = "tracked"
          /\ \A q \in Packet : q # p => fate'[q] = fate[q]
      BY <2>1 DEF IInv, TypeOK, Fate
    <2>5. /\ timer' \in Nat \cup {Off}
          /\ queued' \in BOOLEAN
          /\ \A o \in Occupied(table') :
               queued' \/ (timer' # Off /\ timer' <= table'[o].wait + MaxLag)
      BY <2>1, <2>3, RescheduleCovers, Zenon DEF IInv, TypeOK
    <2>6. TypeOK'
      BY <1>1, <2>2, <2>3, <2>4, <2>5, Zenon DEF IInv, TypeOK
    <2>7. /\ InTable(p)'
          /\ \A q \in Packet : q # p => (InTable(q)' <=> InTable(q))
          /\ \A q \in Packet : IsCaptured(q)' <=> IsCaptured(q)
      BY <1>1, <2>2, <2>3 DEF InTable, IsCaptured
    <2>8. SingleCopy'
      <3>1. \A a, b \in Slot :
              table'[a].pkt = table'[b].pkt /\ a # b => table'[a].pkt = None
        BY <1>2, <2>2, <2>3 DEF IInv, Accounted, SingleCopy, InTable
      <3>2. QED
        BY <1>1, <1>2, <2>7, <3>1 DEF IInv, Accounted, SingleCopy
    <2>9. Accounted'
      BY <1>1, <1>2, <2>4, <2>7, <2>8 DEF IInv, Accounted
    <2>10. TimerCovers' /\ TimeoutMeansExhausted'
      BY <1>1, <2>5 DEF IInv, TimerCovers, TimeoutMeansExhausted
    <2>11. Bookkeeping'
      <3>1. \A o \in Occupied(table') :
              resends'[table'[o].pkt] + table'[o].left = Retransmissions
        BY <1>1, <1>2, <2>2, <2>3 DEF IInv, Bookkeeping, Occupied
      <3>2. \A q \in Packet :
              fate'[q] # "tracked" /\ fate'[q] # "dropped" => resends'[q] = 0
        BY <1>1, <2>4 DEF IInv, Bookkeeping
      <3>3. QED
        BY <1>1, <3>1, <3>2 DEF IInv, Bookkeeping
    <2>12. QED
      BY <2>6, <2>9, <2>10, <2>11 DEF IInv
  <1>4. CASE /\ fate' = [fate EXCEPT ![p] = "ignored"]
             /\ UNCHANGED <<table, timer, queued>>
    BY <1>1, <1>2, <1>4, ZenonT(60)
    DEF IInv, TypeOK, Fate, Accounted, SingleCopy, InTable, IsCaptured,
         TimerCovers, TimeoutMeansExhausted, Bookkeeping, Occupied
  <1>5. CASE /\ fate' = [fate EXCEPT ![p] = "full"]
             /\ UNCHANGED <<table, timer, queued>>
    BY <1>1, <1>2, <1>5, ZenonT(60)
    DEF IInv, TypeOK, Fate, Accounted, SingleCopy, InTable, IsCaptured,
         TimerCovers, TimeoutMeansExhausted, Bookkeeping, Occupied
  <1>6. QED
    BY <1>3, <1>4, <1>5 DEF Track

\* meshtastic_reliable_on_routing() moves one entry from the table to the thread
\* that will report it.
LEMMA OnRoutingStep ==
  ASSUME NEW t \in RxThread, NEW id \in Ids, NEW payload \in RoutingPayload
  PROVE  IInv /\ OnRouting(t, id, payload) => IInv'
  <1> SUFFICES ASSUME IInv, OnRouting(t, id, payload) PROVE IInv'
    OBVIOUS
  <1> USE ConstantsAssumption DEF ConstantsAssumption
  <1>1. PICK s \in Slot :
          /\ FirstWithId(s, id)
          /\ captured' = [captured EXCEPT ![t] = [pkt |-> table[s].pkt,
                                                  type |-> RoutingOutcome(payload)]]
          /\ table' = [table EXCEPT ![s] = Free]
    BY Zenon DEF OnRouting
  <1>2. /\ UNCHANGED <<timer, queued, handler, fate, reports, resends, resetting>>
        /\ captured[t] = Nothing /\ t \in Holder /\ t \notin Slot
    BY DEF OnRouting, Holder
  <1>p. PICK p \in Packet : p = table[s].pkt
    BY <1>1 DEF FirstWithId, IInv, TypeOK, Entry
  <1> DEFINE c == [pkt |-> p, type |-> RoutingOutcome(payload)]
  <1>3. p # None /\ c \in Captured /\ c.type # "timed_out" /\ c # Nothing
    BY <1>p DEF Captured, RoutingOutcome, Outcome, Nothing
  <1>4. /\ Free \in Entry /\ Free.pkt = None /\ Free.wait >= -MaxLag
        /\ table' \in [Slot -> Entry] /\ table'[s] = Free
        /\ \A o \in Slot : o # s => table'[o] = table[o]
    BY <1>1 DEF IInv, TypeOK, Entry, Free
  <1>5. /\ captured' \in [Holder -> Captured] /\ captured'[t] = c
        /\ \A h \in Holder : h # t => captured'[h] = captured[h]
    BY <1>1, <1>2, <1>3, <1>p DEF IInv, TypeOK
  <1>6. TypeOK'
    BY <1>2, <1>4, <1>5, Zenon DEF IInv, TypeOK
  <1>7. /\ InTable(p) /\ ~InTable(p)' /\ IsCaptured(p)' /\ ~IsCaptured(p)
        /\ reports[p] = <<>>
        /\ \A q \in Packet : q # p => /\ InTable(q)' <=> InTable(q)
                                      /\ IsCaptured(q)' <=> IsCaptured(q)
    <2>1. InTable(p) /\ ~IsCaptured(p) /\ reports[p] = <<>>
      BY <1>3, <1>p DEF InTable, IInv, Accounted, SingleCopy
    <2>2. ~InTable(p)'
      BY <1>3, <1>4, <1>p DEF InTable, IInv, Accounted, SingleCopy
    <2>3. IsCaptured(p)'
      BY <1>2, <1>5 DEF IsCaptured
    <2>4. ASSUME NEW q \in Packet, q # p
          PROVE  /\ InTable(q)' <=> InTable(q)
                 /\ IsCaptured(q)' <=> IsCaptured(q)
      <3>1. captured[t].pkt = None /\ captured'[t].pkt = p
        BY <1>2, <1>5 DEF Nothing
      <3>2. IsCaptured(q)' <=> IsCaptured(q)
        BY <1>2, <1>5, <2>4, <3>1 DEF IsCaptured
      <3>3. InTable(q)' <=> InTable(q)
        BY <1>3, <1>4, <1>p, <2>4 DEF InTable
      <3>4. QED
        BY <3>2, <3>3
    <2>5. QED
      BY <2>1, <2>2, <2>3, <2>4
  <1>8. SingleCopy'
    <2>1. \A a, b \in Slot :
            table'[a].pkt = table'[b].pkt /\ a # b => table'[a].pkt = None
      BY <1>4 DEF IInv, Accounted, SingleCopy
    <2>2. \A g, h \in Holder :
            captured'[g].pkt = captured'[h].pkt /\ g # h => captured'[g].pkt = None
      BY <1>5, <1>7 DEF IInv, Accounted, SingleCopy, IsCaptured
    <2>3. QED
      BY <1>2, <1>7, <2>1, <2>2 DEF IInv, Accounted, SingleCopy
  <1>9. Accounted'
    BY <1>2, <1>7, <1>8 DEF IInv, Accounted
  <1>10. TimerCovers'
    BY <1>2, <1>4 DEF IInv, TimerCovers, Occupied
  <1>11. TimeoutMeansExhausted'
    BY <1>2, <1>3, <1>5 DEF IInv, TimeoutMeansExhausted
  <1>12. Bookkeeping'
    BY <1>2, <1>4, <1>5 DEF IInv, Bookkeeping, Occupied, Holder
  <1>13. QED
    BY <1>6, <1>9, <1>10, <1>11, <1>12 DEF IInv

\* Emitting a captured outcome moves its packet from captured to reported and
\* touches nothing else the invariant speaks of.
LEMMA EmitStep ==
  ASSUME NEW h \in Holder, IInv, Emit(h), h \in Slot => handler = "emit",
         UNCHANGED <<table, timer, queued, handler, fate, resends, resetting>>
  PROVE  IInv'
  <1> USE ConstantsAssumption DEF ConstantsAssumption
  <1>p. PICK p \in Packet, type \in Outcome : captured[h] = [pkt |-> p, type |-> type]
    BY DEF Emit, IInv, TypeOK, Captured
  <1>1. /\ captured[h].pkt = p /\ captured[h].type = type /\ p # None
        /\ Nothing \in Captured /\ Nothing.pkt = None /\ Nothing.type = "none"
    BY <1>p DEF Captured, Nothing
  <1>2. /\ captured' \in [Holder -> Captured] /\ captured'[h] = Nothing
        /\ \A g \in Holder : g # h => captured'[g] = captured[g]
    BY <1>1 DEF Emit, IInv, TypeOK
  <1>3. IsCaptured(p) /\ ~InTable(p) /\ reports[p] = <<>> /\ fate[p] = "tracked"
    BY <1>1 DEF IsCaptured, IInv, Accounted, SingleCopy
  <1>4. /\ reports' \in [Packet -> Seq(Outcome)]
        /\ reports'[p] = Append(<<>>, type)
        /\ \A q \in Packet : q # p => reports'[q] = reports[q]
    BY <1>1, <1>3 DEF Emit, IInv, TypeOK
  <1>5. Len(reports'[p]) <= 1 /\ reports'[p] # <<>> /\ reports'[p][1] = type
    BY <1>4
  <1>6. TypeOK'
    BY <1>2, <1>4 DEF IInv, TypeOK
  <1>7. /\ ~IsCaptured(p)' /\ ~InTable(p)'
        /\ \A q \in Packet : q # p => /\ InTable(q)' <=> InTable(q)
                                      /\ IsCaptured(q)' <=> IsCaptured(q)
    <2>1. ~IsCaptured(p)'
      BY <1>1, <1>2 DEF IsCaptured, IInv, Accounted, SingleCopy
    <2>2. \A q \in Packet : InTable(q)' <=> InTable(q)
      BY DEF InTable
    <2>3. ASSUME NEW q \in Packet, q # p PROVE IsCaptured(q)' <=> IsCaptured(q)
      BY <1>1, <1>2, <2>3, Zenon DEF IsCaptured
    <2>4. QED
      BY <1>3, <2>1, <2>2, <2>3
  <1>8. SingleCopy'
    <2>1. \A f, g \in Holder :
            captured'[f].pkt = captured'[g].pkt /\ f # g => captured'[f].pkt = None
      BY <1>1, <1>2 DEF IInv, Accounted, SingleCopy
    <2>2. \A q \in Packet : ~(InTable(q)' /\ IsCaptured(q)')
      BY <1>7 DEF IInv, Accounted, SingleCopy
    <2>3. \A q \in Packet : reports'[q] # <<>> => ~InTable(q)' /\ ~IsCaptured(q)'
      BY <1>4, <1>7, Zenon DEF IInv, Accounted, SingleCopy
    <2>4. QED
      BY <2>1, <2>2, <2>3, Zenon DEF IInv, Accounted, SingleCopy
  <1>9. Accounted'
    <2>1. ASSUME NEW q \in Packet
          PROVE  /\ Len(reports'[q]) <= 1
                 /\ fate'[q] = "tracked"
                      <=> InTable(q)' \/ IsCaptured(q)' \/ reports'[q] # <<>>
      <3>1. CASE q = p
        <4>1. fate'[p] = "tracked"
          BY <1>3
        <4>2. QED
          BY <1>5, <3>1, <4>1
      <3>2. CASE q # p
        BY <1>4, <1>7, <3>2 DEF IInv, Accounted
      <3>3. QED
        BY <3>1, <3>2
    <2>2. QED
      BY <1>8, <2>1 DEF Accounted
  <1>10. TimerCovers'
    BY DEF IInv, TimerCovers, Occupied
  <1>11. TimeoutMeansExhausted'
    <2>1. type = "timed_out" => resends[p] = Retransmissions
      BY <1>1 DEF IInv, TimeoutMeansExhausted
    <2>2. \A g \in Holder :
            captured'[g].type = "timed_out" => resends'[captured'[g].pkt] = Retransmissions
      BY <1>1, <1>2 DEF IInv, TimeoutMeansExhausted
    <2>3. \A q \in Packet : reports'[q] # <<>> /\ reports'[q][1] = "timed_out"
                              => resends'[q] = Retransmissions
      BY <1>4, <1>5, <2>1 DEF IInv, TimeoutMeansExhausted
    <2>4. QED
      BY <2>2, <2>3 DEF IInv, TimeoutMeansExhausted
  <1>12. Bookkeeping'
    BY <1>2 DEF IInv, Bookkeeping, Occupied, Holder
  <1>13. QED
    BY <1>6, <1>9, <1>10, <1>11, <1>12 DEF IInv

\* The receive thread reports the entry it took out.
LEMMA RxEmitStep == ASSUME NEW t \in RxThread PROVE IInv /\ RxEmit(t) => IInv'
  BY EmitStep, ConstantsAssumption DEF ConstantsAssumption, RxEmit, Holder

\* The work handler reports the next of the entries it gave up.
LEMMA WorkEmitStep == IInv /\ WorkEmit => IInv'
  <1> SUFFICES ASSUME IInv, WorkEmit PROVE IInv'
    OBVIOUS
  <1>1. CASE \E s \in Slot : Emit(s) /\ UNCHANGED handler
    BY <1>1, EmitStep DEF WorkEmit, Holder
  <1>2. CASE /\ \A s \in Slot : captured[s] = Nothing
             /\ handler' = "idle" /\ UNCHANGED <<captured, reports>>
    <2>1. /\ handler = "emit"
          /\ UNCHANGED <<table, timer, queued, fate, resends, resetting>>
      BY DEF WorkEmit
    <2>2. TypeOK' /\ TimerCovers'
      BY <1>2, <2>1 DEF IInv, TypeOK, TimerCovers, Occupied
    <2>3. Accounted' /\ TimeoutMeansExhausted'
      BY <1>2, <2>1
         DEF IInv, Accounted, SingleCopy, InTable, IsCaptured, TimeoutMeansExhausted
    <2>4. Bookkeeping'
      BY <1>2, <2>1 DEF IInv, Bookkeeping, Occupied
    <2>5. QED
      BY <2>2, <2>3, <2>4 DEF IInv
  <1>3. QED
    BY <1>1, <1>2 DEF WorkEmit

\* meshtastic_reliable_reset() empties the table, ...
LEMMA ResetClearStep == IInv /\ ResetClear => IInv'
  <1> SUFFICES ASSUME IInv, ResetClear PROVE IInv'
    OBVIOUS
  <1> USE ConstantsAssumption DEF ConstantsAssumption
  <1>1. /\ UNCHANGED <<timer, queued, handler, captured, reports, resends>>
        /\ resetting' = TRUE /\ \A p \in Packet : fate[p] # "sending"
        /\ table' = [s \in Slot |-> Free] /\ Free.pkt = None
        /\ Free \in Entry /\ Free.wait >= -MaxLag
    BY DEF ResetClear, Free, Entry
  <1>2. /\ fate' \in [Packet -> Fate]
        /\ \A p \in Packet : InTable(p) => fate'[p] = "dropped"
        /\ \A p \in Packet : ~InTable(p) => fate'[p] = fate[p]
    BY DEF ResetClear, IInv, TypeOK, Fate, InTable
  <1>3. \A p \in Packet : ~InTable(p)' /\ (IsCaptured(p)' <=> IsCaptured(p))
    BY <1>1 DEF InTable, IsCaptured
  <1>4. TypeOK'
    BY <1>1, <1>2 DEF IInv, TypeOK
  <1>5. Accounted'
    BY <1>1, <1>2, <1>3 DEF IInv, Accounted, SingleCopy
  <1>6. TimerCovers' /\ TimeoutMeansExhausted'
    BY <1>1 DEF IInv, TimerCovers, TimeoutMeansExhausted, Occupied
  <1>7. Bookkeeping'
    BY <1>1, <1>2 DEF IInv, Bookkeeping, Occupied
  <1>8. QED
    BY <1>4, <1>5, <1>6, <1>7 DEF IInv

\* ... and cancels the timer after it, which no entry needs any more.
LEMMA ResetCancelStep == IInv /\ ResetCancel => IInv'
  <1> SUFFICES ASSUME IInv, ResetCancel PROVE IInv'
    OBVIOUS
  <1>1. /\ timer' = Off /\ queued' = FALSE /\ resetting /\ resetting' = FALSE
        /\ UNCHANGED <<table, handler, captured, fate, reports, resends>>
    BY DEF ResetCancel
  <1>2. TypeOK'
    BY <1>1, Zenon DEF IInv, TypeOK
  <1>3. Accounted' /\ TimeoutMeansExhausted'
    BY <1>1 DEF IInv, Accounted, SingleCopy, InTable, IsCaptured, TimeoutMeansExhausted
  <1>4. TimerCovers' /\ Bookkeeping'
    BY <1>1 DEF IInv, Bookkeeping, TimerCovers, Occupied
  <1>5. QED
    BY <1>2, <1>3, <1>4 DEF IInv

-----------------------------------------------------------------------------
\* reliable_work_fn() under the lock: every due entry is retransmitted or given up
\* and the timer is set for the rest.
LEMMA WorkRunStep == IInv /\ WorkRun => IInv'
  <1> SUFFICES ASSUME IInv, WorkRun PROVE IInv'
    OBVIOUS
  <1> USE ConstantsAssumption DEF ConstantsAssumption
  <1>1. PICK lag \in Lag, delay \in [Slot -> Delay] :
          /\ table' = [s \in Slot |->
                         IF Expired(s, lag) THEN Free
                         ELSE IF Retried(s, lag)
                           THEN [table[s] EXCEPT !.left = @ - 1,
                                                 !.wait = delay[s] - lag]
                         ELSE table[s]]
          /\ captured' = [h \in Holder |->
                            IF h \in Slot /\ Expired(h, lag)
                              THEN [pkt |-> table[h].pkt, type |-> "timed_out"]
                              ELSE captured[h]]
          /\ resends' = [p \in Packet |->
                           IF \E s \in Slot : table[s].pkt = p /\ Retried(s, lag)
                             THEN resends[p] + 1 ELSE resends[p]]
          /\ Reschedule(table', lag)
    BY Zenon DEF WorkRun, WorkPass, TakeExpired
  <1>2. /\ handler = "start" /\ handler' = "emit"
        /\ UNCHANGED <<fate, reports, resetting>>
        /\ \A s \in Slot : captured[s] = Nothing
    BY Zenon DEF WorkRun, IInv, Bookkeeping
  <1>3. ASSUME NEW s \in Slot
        PROVE  /\ table'[s] \in Entry /\ table'[s].wait >= -MaxLag
               /\ Expired(s, lag) => table[s].pkt # None /\ table[s].left = 0
                                     /\ table'[s].pkt = None
               /\ ~Expired(s, lag) => table'[s].pkt = table[s].pkt
               /\ Retried(s, lag) => table[s].pkt # None /\ ~Expired(s, lag)
                                     /\ table'[s].left = table[s].left - 1
               /\ ~Expired(s, lag) /\ ~Retried(s, lag) => table'[s].left = table[s].left
    <2>1. /\ table[s] \in Entry /\ table[s].left \in 0 .. Retransmissions
          /\ table[s].wait \in Int /\ table[s].wait >= -MaxLag
          /\ delay[s] \in Delay
      BY DEF IInv, TypeOK, Entry
    <2>2. CASE Expired(s, lag)
      <3>1. table'[s] = Free
        BY <1>1, <2>2, Zenon
      <3>2. Free \in Entry /\ Free.wait = 0 /\ Free.pkt = None
        BY DEF Free, Entry
      <3>3. table[s].pkt # None /\ table[s].left = 0 /\ ~Retried(s, lag)
        BY <2>1, <2>2 DEF Expired, Retried, Due
      <3>4. QED
        BY <2>2, <3>1, <3>2, <3>3
    <2>3. CASE ~Expired(s, lag) /\ Retried(s, lag)
      <3>1. table'[s] = [table[s] EXCEPT !.left = @ - 1, !.wait = delay[s] - lag]
        BY <1>1, <2>3, Zenon
      <3>2. /\ table[s].left - 1 \in 0 .. Retransmissions
            /\ delay[s] - lag \in Int /\ delay[s] - lag >= -MaxLag
            /\ table[s].pkt # None
        BY <2>1, <2>3 DEF Retried, Due, Delay, Lag
      <3>3. QED
        BY <2>1, <2>3, <3>1, <3>2, Zenon DEF Entry
    <2>4. CASE ~Expired(s, lag) /\ ~Retried(s, lag)
      BY <1>1, <2>1, <2>4, Zenon
    <2>5. QED
      BY <2>2, <2>3, <2>4
  <1>4. table' \in [Slot -> Entry]
    BY <1>1, <1>3, Zenon
  <1>5. ASSUME NEW h \in Holder
        PROVE  /\ captured'[h] \in Captured
               /\ h \in Slot /\ Expired(h, lag) =>
                    captured'[h].pkt = table[h].pkt /\ captured'[h].type = "timed_out"
               /\ ~(h \in Slot /\ Expired(h, lag)) => captured'[h] = captured[h]
    <2>1. CASE h \in Slot /\ Expired(h, lag)
      <3>1. table[h].pkt \in Packet
        BY <1>3, <2>1, Zenon DEF IInv, TypeOK, Entry
      <3>2. captured'[h] = [pkt |-> table[h].pkt, type |-> "timed_out"]
        BY <1>1, <2>1, Zenon
      <3>3. QED
        BY <2>1, <3>1, <3>2 DEF Captured, Outcome
    <2>2. CASE ~(h \in Slot /\ Expired(h, lag))
      BY <1>1, <2>2, Zenon DEF IInv, TypeOK
    <2>3. QED
      BY <2>1, <2>2
  <1>6. captured' \in [Holder -> Captured]
    BY <1>1, <1>5, Zenon
  <1>7. /\ resends' \in [Packet -> Nat]
        /\ \A s \in Slot : Retried(s, lag) =>
             table[s].pkt \in Packet /\ resends'[table[s].pkt] = resends[table[s].pkt] + 1
        /\ \A p \in Packet : (\A s \in Slot : table[s].pkt = p => ~Retried(s, lag))
             => resends'[p] = resends[p]
    <2>1. resends' \in [Packet -> Nat]
      <3> DEFINE Hit(p) == \E s \in Slot : table[s].pkt = p /\ Retried(s, lag)
      <3>1. resends' = [p \in Packet |-> IF Hit(p) THEN resends[p] + 1 ELSE resends[p]]
        BY <1>1, Zenon
      <3>2. resends \in [Packet -> Nat]
        BY Zenon DEF IInv, TypeOK
      <3> HIDE DEF Hit
      <3>3. QED
        BY <3>1, <3>2
    <2>2. ASSUME NEW s \in Slot, Retried(s, lag)
          PROVE  table[s].pkt \in Packet /\ resends'[table[s].pkt] = resends[table[s].pkt] + 1
      <3>1. table[s].pkt \in Packet
        BY <1>3, <2>2, Zenon DEF IInv, TypeOK, Entry
      <3>2. QED
        BY <1>1, <2>2, <3>1, Zenon
    <2>3. ASSUME NEW p \in Packet, \A s \in Slot : table[s].pkt = p => ~Retried(s, lag)
          PROVE  resends'[p] = resends[p]
      BY <1>1, <2>3, Zenon
    <2>4. QED
      BY <2>1, <2>2, <2>3
  <1>8. /\ timer' \in Nat \cup {Off}
        /\ queued' \in BOOLEAN
        /\ \A o \in Occupied(table') :
             queued' \/ (timer' # Off /\ timer' <= table'[o].wait + MaxLag)
    BY <1>1, <1>4, RescheduleCovers, Zenon DEF IInv, TypeOK
  <1>9. TypeOK'
    BY <1>2, <1>3, <1>4, <1>6, <1>7, <1>8 DEF IInv, TypeOK
  <1>10. TimerCovers'
    BY <1>8 DEF TimerCovers
  <1>11. ASSUME NEW p \in Packet
         PROVE  /\ InTable(p)' => InTable(p)
                /\ IsCaptured(p) => IsCaptured(p)'
                /\ IsCaptured(p)' => InTable(p) \/ IsCaptured(p)
                /\ InTable(p) => InTable(p)' \/ IsCaptured(p)'
                /\ ~(InTable(p)' /\ IsCaptured(p)')
    <2>1. InTable(p)' => InTable(p)
      BY <1>3 DEF InTable
    <2>2. IsCaptured(p) => IsCaptured(p)'
      BY <1>2, <1>5 DEF IsCaptured, Nothing
    <2>3. IsCaptured(p)' => InTable(p) \/ IsCaptured(p)
      BY <1>5 DEF InTable, IsCaptured
    <2>4. InTable(p) => InTable(p)' \/ IsCaptured(p)'
      BY <1>3, <1>5 DEF InTable, IsCaptured, Holder
    <2>5. ASSUME NEW s \in Slot, table'[s].pkt = p, NEW h \in Holder, captured'[h].pkt = p
          PROVE  FALSE
      <3>1. table[s].pkt = p /\ ~Expired(s, lag)
        BY <1>3, <2>5
      <3>2. CASE h \in Slot /\ Expired(h, lag)
        <4>1. table[h].pkt = p /\ h # s
          BY <1>5, <2>5, <3>1, <3>2
        <4>2. QED
          BY <3>1, <3>2, <4>1 DEF IInv, Accounted, SingleCopy
      <3>3. CASE ~(h \in Slot /\ Expired(h, lag))
        <4>1. captured[h].pkt = p
          BY <1>5, <2>5, <3>3
        <4>2. InTable(p) /\ IsCaptured(p)
          BY <3>1, <4>1 DEF InTable, IsCaptured
        <4>3. QED
          BY <4>2 DEF IInv, Accounted, SingleCopy
      <3>4. QED
        BY <3>2, <3>3
    <2>6. ~(InTable(p)' /\ IsCaptured(p)')
      BY <2>5 DEF InTable, IsCaptured
    <2>7. QED
      BY <2>1, <2>2, <2>3, <2>4, <2>6
  <1>12. Accounted'
    <2>1. \A s, o \in Slot : table'[s].pkt = table'[o].pkt /\ s # o => table'[s].pkt = None
      BY <1>3 DEF IInv, Accounted, SingleCopy
    <2>2. ASSUME NEW g \in Holder, NEW h \in Holder,
                 captured'[g].pkt = captured'[h].pkt, g # h, captured'[g].pkt # None
          PROVE  FALSE
      <3> DEFINE Took(x) == x \in Slot /\ Expired(x, lag)
      <3>1. \A x \in Holder : /\ Took(x) => captured'[x].pkt = table[x].pkt /\ x \in Slot
                              /\ ~Took(x) => captured'[x].pkt = captured[x].pkt
        BY <1>5, Zenon
      <3> HIDE DEF Took
      <3>2. CASE Took(g) /\ Took(h)
        BY <2>2, <3>1, <3>2 DEF IInv, Accounted, SingleCopy
      <3>3. CASE ~Took(g) /\ ~Took(h)
        BY <2>2, <3>1, <3>3 DEF IInv, Accounted, SingleCopy
      <3>4. CASE Took(g) /\ ~Took(h)
        <4>1. PICK p \in Packet : table[g].pkt = p /\ captured[h].pkt = p
          BY <2>2, <3>1, <3>4 DEF IInv, TypeOK, Entry
        <4>2. QED
          BY <3>1, <3>4, <4>1 DEF InTable, IsCaptured, IInv, Accounted, SingleCopy
      <3>5. CASE ~Took(g) /\ Took(h)
        <4>1. PICK p \in Packet : table[h].pkt = p /\ captured[g].pkt = p
          BY <2>2, <3>1, <3>5, Zenon DEF IInv, TypeOK, Entry
        <4>2. QED
          BY <3>1, <3>5, <4>1, Zenon DEF InTable, IsCaptured, IInv, Accounted, SingleCopy
      <3>6. QED
        BY <3>2, <3>3, <3>4, <3>5
    <2>3. SingleCopy'
      BY <1>2, <1>11, <2>1, <2>2, Zenon DEF IInv, Accounted, SingleCopy
    <2>4. ASSUME NEW p \in Packet
          PROVE  fate'[p] = "tracked"
                   <=> InTable(p)' \/ IsCaptured(p)' \/ reports'[p] # <<>>
      BY <1>2, <1>11 DEF IInv, Accounted
    <2>5. \A p \in Packet : Len(reports'[p]) <= 1
      BY <1>2 DEF IInv, Accounted
    <2>6. QED
      BY <2>3, <2>4, <2>5 DEF Accounted
  <1>13. Bookkeeping'
    <2>1. ASSUME NEW s \in Occupied(table')
          PROVE  resends'[table'[s].pkt] + table'[s].left = Retransmissions
      <3>1. PICK p \in Packet : table[s].pkt = p /\ table'[s].pkt = p /\ ~Expired(s, lag)
        BY <1>3, Zenon DEF Occupied, IInv, TypeOK, Entry
      <3>2. resends[p] + table[s].left = Retransmissions /\ s \in Slot
        BY <3>1 DEF Occupied, IInv, Bookkeeping
      <3>3. resends[p] \in Nat /\ table[s].left \in 0 .. Retransmissions
        BY <3>2 DEF IInv, TypeOK, Entry
      <3>4. CASE Retried(s, lag)
        <4>1. table'[s].left = table[s].left - 1
          BY <1>3, <3>2, <3>4, Zenon
        <4>2. resends'[p] = resends[p] + 1
          BY <1>7, <3>1, <3>2, <3>4, Zenon
        <4>3. PICK a \in Nat, b \in Int : a = resends[p] /\ b = table[s].left
          BY <3>3
        <4>4. a + b = Retransmissions /\ resends'[p] = a + 1 /\ table'[s].left = b - 1
          BY <3>2, <4>1, <4>2, <4>3, Zenon
        <4>5. resends'[p] + table'[s].left = Retransmissions
          BY <4>4
        <4>6. QED
          BY <3>1, <4>5, Zenon
      <3>5. CASE ~Retried(s, lag)
        <4>1. \A o \in Slot : table[o].pkt = p => o = s
          BY <3>1, <3>2, Zenon DEF IInv, Accounted, SingleCopy
        <4>2. resends'[p] = resends[p]
          BY <1>7, <3>5, <4>1
        <4>3. QED
          BY <1>3, <3>1, <3>2, <3>5, <4>2, Zenon
      <3>6. QED
        BY <3>4, <3>5, Zenon
    <2>2. ASSUME NEW p \in Packet, fate[p] # "tracked", fate[p] # "dropped"
          PROVE  resends'[p] = 0
      <3>1. ~InTable(p) /\ resends[p] = 0
        BY <2>2 DEF IInv, Accounted, Bookkeeping
      <3>2. QED
        BY <1>7, <3>1 DEF InTable
    <2>3. resetting' => Occupied(table') = {} /\ \A p \in Packet : fate'[p] # "sending"
      BY <1>2, <1>3 DEF IInv, Bookkeeping, Occupied
    <2>4. QED
      BY <1>2, <2>1, <2>2, <2>3 DEF Bookkeeping
  <1>14. TimeoutMeansExhausted'
    <2>1. \A p \in Packet : ~InTable(p) => resends'[p] = resends[p]
      BY <1>7 DEF InTable
    <2>2. ASSUME NEW p \in Packet PROVE resends'[p] <= Retransmissions
      <3>1. CASE ~InTable(p)
        BY <2>1, <3>1 DEF IInv, TimeoutMeansExhausted
      <3>2. CASE InTable(p) /\ InTable(p)'
        <4>1. PICK s \in Slot : table'[s].pkt = p
          BY <3>2 DEF InTable
        <4>2. resends'[p] + table'[s].left = Retransmissions
          BY <1>13, <4>1 DEF Bookkeeping, Occupied
        <4>3. resends'[p] \in Nat /\ table'[s].left \in Nat
          BY <1>4, <1>7 DEF Entry
        <4>4. QED
          BY <4>2, <4>3
      <3>3. CASE InTable(p) /\ ~InTable(p)'
        <4>1. PICK s \in Slot : table[s].pkt = p /\ Expired(s, lag)
          BY <1>3, <3>3, Zenon DEF InTable
        <4>2. \A o \in Slot : table[o].pkt = p => ~Retried(o, lag)
          BY <1>3, <4>1 DEF IInv, Accounted, SingleCopy
        <4>3. QED
          BY <1>7, <4>2 DEF IInv, TimeoutMeansExhausted
      <3>4. QED
        BY <3>1, <3>2, <3>3
    <2>3. ASSUME NEW h \in Holder, captured'[h].type = "timed_out"
          PROVE  resends'[captured'[h].pkt] = Retransmissions
      <3>1. CASE h \in Slot /\ Expired(h, lag)
        <4>1. PICK p \in Packet : table[h].pkt = p /\ captured'[h].pkt = p
          BY <1>3, <1>5, <3>1, Zenon DEF IInv, TypeOK, Entry
        <4>2. \A o \in Slot : table[o].pkt = p => ~Retried(o, lag)
          <5>1. \A o \in Slot : table[o].pkt = p => o = h
            BY <3>1, <4>1 DEF IInv, Accounted, SingleCopy
          <5>2. ~Retried(h, lag)
            BY <1>3, <3>1, Zenon
          <5>3. QED
            BY <5>1, <5>2, Zenon
        <4>3. resends[p] + 0 = Retransmissions /\ resends[p] \in Nat
          BY <1>3, <3>1, <4>1, Zenon DEF IInv, Bookkeeping, Occupied, TypeOK
        <4>4. resends'[p] = resends[p]
          BY <1>7, <4>2, Zenon
        <4>5. resends[p] = Retransmissions
          BY <4>3
        <4>6. QED
          BY <4>1, <4>4, <4>5, Zenon
      <3>2. CASE ~(h \in Slot /\ Expired(h, lag))
        <4>1. captured'[h] = captured[h]
          BY <1>5, <3>2
        <4>2. PICK p \in Packet : captured[h].pkt = p
          BY <2>3, <4>1 DEF IInv, TypeOK, Captured, Nothing
        <4>3. ~InTable(p) /\ resends[p] = Retransmissions
          BY <2>3, <4>1, <4>2 DEF IInv, Accounted, SingleCopy, IsCaptured,
                                  TimeoutMeansExhausted
        <4>4. QED
          BY <2>1, <4>1, <4>2, <4>3
      <3>3. QED
        BY <3>1, <3>2
    <2>4. ASSUME NEW p \in Packet, reports[p] # <<>>, reports[p][1] = "timed_out"
          PROVE  resends'[p] = Retransmissions
      BY <2>1, <2>4 DEF IInv, Accounted, SingleCopy, TimeoutMeansExhausted
    <2>5. QED
      BY <1>2, <2>2, <2>3, <2>4 DEF TimeoutMeansExhausted
  <1>15. QED
    BY <1>9, <1>10, <1>12, <1>13, <1>14, Zenon DEF IInv

\* Every step of the table, the timer, the work handler, the senders, the
\* receive threads and reset preserves the inductive invariant.
LEMMA NextIInv == IInv /\ [Next]_vars => IInv'
  <1> SUFFICES ASSUME IInv, [Next]_vars PROVE IInv'
    OBVIOUS
  <1>1. CASE Tick
    BY <1>1, TickStep
  <1>2. CASE TimerExpires
    BY <1>2, TimerExpiresStep
  <1>3. CASE WorkStart
    BY <1>3, WorkStartStep
  <1>4. CASE WorkRun
    BY <1>4, WorkRunStep
  <1>5. CASE WorkEmit
    BY <1>5, WorkEmitStep
  <1>6. ASSUME NEW p \in Packet, Send(p) \/ Track(p) PROVE IInv'
    BY <1>6, SendStep, TrackStep
  <1>7. ASSUME NEW t \in RxThread, NEW id \in Ids, NEW payload \in RoutingPayload,
               OnRouting(t, id, payload)
        PROVE  IInv'
    BY <1>7, OnRoutingStep
  <1>8. ASSUME NEW t \in RxThread, RxEmit(t) PROVE IInv'
    BY <1>8, RxEmitStep, Zenon
  <1>9. CASE ResetClear
    BY <1>9, ResetClearStep
  <1>10. CASE ResetCancel
    BY <1>10, ResetCancelStep
  <1>11. CASE UNCHANGED vars
    BY <1>11, Zenon DEF vars, IInv, TypeOK, Accounted, SingleCopy, InTable, IsCaptured,
                 TimerCovers, TimeoutMeansExhausted, Bookkeeping, Occupied
  <1>12. QED
    BY <1>1, <1>2, <1>3, <1>4, <1>5, <1>6, <1>7, <1>8, <1>9, <1>10, <1>11 DEF Next

\* The inductive invariant holds in every reachable state.
THEOREM Inductive == Spec => []IInv
  BY InitIInv, NextIInv, PTL DEF Spec

\* The fields of the acknowledgement table stay in their ranges.
THEOREM TypeCorrect == Spec => []TypeOK
  <1>1. IInv => TypeOK
    BY DEF IInv
  <1>2. QED
    BY <1>1, Inductive, PTL

\* For every table size, every number of receive threads and any reuse of
\* packet IDs: a tracked packet is in one place until its one event.
THEOREM ExactlyOneOutcome == Spec => []Accounted
  <1>1. IInv => Accounted
    BY DEF IInv
  <1>2. QED
    BY <1>1, Inductive, PTL

\* An entry never waits without a timeout or a work item that will visit it.
THEOREM TimerNeverForgotten == Spec => []TimerCovers
  <1>1. IInv => TimerCovers
    BY DEF IInv
  <1>2. QED
    BY <1>1, Inductive, PTL

\* A packet is given up only after all of its retransmissions.
THEOREM GivesUpLast == Spec => []TimeoutMeansExhausted
  <1>1. IInv => TimeoutMeansExhausted
    BY DEF IInv
  <1>2. QED
    BY <1>1, Inductive, PTL

\* reliable_work_fn() is the only writer of the retransmission count, and it
\* only touches packets that still wait in the table.
LEMMA ResendsOnlyTracked ==
  ASSUME IInv, [Next]_vars, NEW p \in Packet, resends'[p] # resends[p]
  PROVE  fate[p] = "tracked" /\ ~IsCaptured(p) /\ reports[p] = <<>>
  <1>1. WorkRun
    BY Zenon DEF Next, vars, Tick, TimerExpires, WorkStart, WorkEmit, Send, Track,
           OnRouting, RxEmit, ResetClear, ResetCancel
  <1>2. InTable(p)
    BY <1>1, Zenon DEF WorkRun, WorkPass, InTable, IInv, TypeOK
  <1>3. QED
    BY <1>2, Zenon DEF IInv, Accounted, SingleCopy

\* No frame is retransmitted once its packet was acknowledged, reported or
\* dropped by reset.
THEOREM NeverResendsSettled == Spec => NoStaleRetransmission
  <1>1. IInv /\ [Next]_vars =>
          [\A p \in Packet :
             resends'[p] # resends[p] =>
               fate[p] = "tracked" /\ ~IsCaptured(p) /\ reports[p] = <<>>]_vars
    BY ResendsOnlyTracked
  <1>2. QED
    BY <1>1, Inductive, PTL DEF Spec, NoStaleRetransmission
-----------------------------------------------------------------------------
(* The table implements the contract of Delivery.tla. *)

\* A step that leaves the fate and the events of every packet alone is not
\* visible to the application.
LEMMA Invisible == UNCHANGED <<fate, reports>> => UNCHANGED statusBar
  BY DEF statusBar, StatusOf, Reported

\* A step that changes what the application knows of one packet only.
LEMMA OneVisible ==
  ASSUME NEW p \in Packet,
         \A q \in Packet : q # p => fate'[q] = fate[q] /\ reports'[q] = reports[q]
  PROVE  statusBar' = [statusBar EXCEPT ![p] = StatusOf(p)']
  <1>1. \A q \in Packet : q # p => StatusOf(q)' = StatusOf(q)
    BY DEF StatusOf, Reported
  <1>2. QED
    BY <1>1, Zenon DEF statusBar

\* meshtastic_send_packet() up to the return of the radio.
LEMMA SendRefines ==
  ASSUME NEW p \in Packet, IInv, Send(p) PROVE D!Next \/ UNCHANGED statusBar
  <1>1. /\ fate \in [Packet -> Fate] /\ reports' = reports /\ fate[p] = "idle"
        /\ fate'[p] \in {"sending", "failed"}
        /\ \A q \in Packet : q # p => fate'[q] = fate[q]
    BY DEF IInv, TypeOK, Send
  <1>2. statusBar' = [statusBar EXCEPT ![p] = StatusOf(p)'] /\ statusBar[p] = "idle"
    BY <1>1, OneVisible DEF statusBar, StatusOf
  <1>3. CASE fate'[p] = "sending"
    <2>1. StatusOf(p)' = statusBar[p]
      BY <1>2, <1>3 DEF StatusOf
    <2>2. QED
      BY <1>2, <2>1, Zenon DEF statusBar
  <1>4. CASE fate'[p] = "failed"
    <2>1. StatusOf(p)' = "untracked"
      BY <1>4 DEF StatusOf
    <2>2. QED
      BY <1>2, <2>1, Zenon DEF D!Next, D!Decline
  <1>5. QED
    BY <1>1, <1>3, <1>4

\* meshtastic_reliable_track(): the packet is accepted or stays untracked.
LEMMA TrackRefines ==
  ASSUME NEW p \in Packet, IInv, Track(p) PROVE D!Next
  <1>1. /\ fate \in [Packet -> Fate] /\ reports' = reports /\ fate[p] = "sending"
        /\ fate'[p] \in {"tracked", "ignored", "full"}
        /\ \A q \in Packet : q # p => fate'[q] = fate[q]
    BY DEF IInv, TypeOK, Track, TrackEntry
  <1>2. reports[p] = <<>>
    BY <1>1 DEF IInv, Accounted
  <1>3. statusBar' = [statusBar EXCEPT ![p] = StatusOf(p)'] /\ statusBar[p] = "idle"
    BY <1>1, OneVisible DEF statusBar, StatusOf
  <1>4. CASE fate'[p] = "tracked"
    <2>1. StatusOf(p)' = "pending"
      BY <1>1, <1>2, <1>4 DEF StatusOf, Reported
    <2>2. QED
      BY <1>3, <2>1, Zenon DEF D!Next, D!Accept
  <1>5. CASE fate'[p] \in {"ignored", "full"}
    <2>1. StatusOf(p)' = "untracked"
      BY <1>5 DEF StatusOf
    <2>2. QED
      BY <1>3, <2>1, Zenon DEF D!Next, D!Decline
  <1>6. QED
    BY <1>1, <1>4, <1>5

\* reliable_emit() reports one outcome of one pending packet.
LEMMA EmitRefines ==
  ASSUME NEW h \in Holder, IInv, Emit(h), fate' = fate PROVE D!Next
  <1>p. PICK p \in Packet, type \in Outcome : captured[h] = [pkt |-> p, type |-> type]
    BY DEF Emit, IInv, TypeOK, Captured
  <1>1. captured[h].pkt = p /\ captured[h].type = type
    BY <1>p
  <1>2. IsCaptured(p) /\ reports[p] = <<>> /\ fate[p] = "tracked"
    BY <1>1 DEF IsCaptured, IInv, Accounted, SingleCopy
  <1>3. /\ reports'[p] = Append(<<>>, type)
        /\ \A q \in Packet : q # p => reports'[q] = reports[q]
    BY <1>1, <1>2 DEF Emit, IInv, TypeOK
  <1>4. reports'[p] # <<>> /\ reports'[p][Len(reports'[p])] = type
    BY <1>3
  <1>5. statusBar' = [statusBar EXCEPT ![p] = StatusOf(p)'] /\ statusBar[p] = "pending"
    BY <1>2, <1>3, OneVisible, SMTT(60) DEF statusBar, StatusOf, Reported
  <1>6. StatusOf(p)' \in {"acked", "no_ack"}
    BY <1>2, <1>4 DEF StatusOf, Reported
  <1>7. QED
    BY <1>5, <1>6, Zenon DEF D!Next, D!Report

\* meshtastic_reliable_reset() drops the packets that are still pending.
LEMMA ResetRefines ==
  ASSUME IInv, ResetClear PROVE D!Next
  <1> DEFINE Dropped == {p \in Packet : InTable(p)}
  <1>1. ASSUME NEW p \in Packet
        PROVE  /\ p \in Dropped => statusBar[p] = "pending" /\ StatusOf(p)' = "dropped"
               /\ p \notin Dropped => StatusOf(p)' = statusBar[p]
    <2>1. /\ reports' = reports
          /\ fate'[p] = IF InTable(p) THEN "dropped" ELSE fate[p]
      BY DEF ResetClear, InTable
    <2>2. CASE InTable(p)
      <3>1. fate[p] = "tracked" /\ reports[p] = <<>>
        BY <2>2 DEF IInv, Accounted, SingleCopy
      <3>2. QED
        BY <2>1, <2>2, <3>1 DEF statusBar, StatusOf, Reported
    <2>3. CASE ~InTable(p)
      BY <2>1, <2>3 DEF statusBar, StatusOf, Reported
    <2>4. QED
      BY <2>2, <2>3
  <1>2. statusBar' = [p \in Packet |-> IF p \in Dropped THEN "dropped" ELSE statusBar[p]]
    BY <1>1 DEF statusBar
  <1>3. Dropped \in SUBSET Packet /\ \A p \in Dropped : statusBar[p] = "pending"
    BY <1>1
  <1>4. D!Drop(Dropped)
    BY <1>2, <1>3 DEF D!Drop
  <1>5. QED
    BY <1>3, <1>4 DEF D!Next

\* The acknowledgement table implements the abstract contract: a packet is
\* pending from the moment it is tracked until its one, final outcome, and
\* only reset may end that wait without an event.
THEOREM ImplementsDelivery == Spec => Contract
  <1>1. Init => D!Init
    BY DEF Init, D!Init, statusBar, StatusOf
  <1>2. ASSUME IInv, [Next]_vars PROVE [D!Next]_statusBar
    <2>1. ASSUME UNCHANGED <<fate, reports>> PROVE [D!Next]_statusBar
      BY <2>1, Invisible
    <2>2. CASE Tick \/ TimerExpires \/ WorkStart \/ WorkRun \/ ResetCancel \/ UNCHANGED vars
      BY <2>1, <2>2 DEF Tick, TimerExpires, WorkStart, WorkRun, ResetCancel, vars
    <2>3. CASE WorkEmit
      <3>1. fate' = fate
        BY <2>3 DEF WorkEmit
      <3>2. CASE UNCHANGED reports
        BY <2>1, <3>1, <3>2
      <3>3. CASE \E s \in Slot : Emit(s)
        BY <1>2, <3>1, <3>3, EmitRefines DEF Holder
      <3>4. QED
        BY <2>3, <3>2, <3>3 DEF WorkEmit
    <2>4. ASSUME NEW p \in Packet, Send(p) \/ Track(p) PROVE [D!Next]_statusBar
      BY <1>2, <2>4, SendRefines, TrackRefines
    <2>5. ASSUME NEW t \in RxThread, NEW id \in Ids, NEW payload \in RoutingPayload,
                 OnRouting(t, id, payload)
          PROVE  [D!Next]_statusBar
      BY <2>1, <2>5 DEF OnRouting
    <2>6. ASSUME NEW t \in RxThread, RxEmit(t) PROVE [D!Next]_statusBar
      BY <1>2, <2>6, EmitRefines DEF RxEmit, Holder
    <2>7. CASE ResetClear
      BY <1>2, <2>7, ResetRefines
    <2>8. QED
      BY <1>2, <2>2, <2>3, <2>4, <2>5, <2>6, <2>7 DEF Next
  <1>3. QED
    BY <1>1, <1>2, Inductive, PTL DEF Spec, Contract, D!Spec
=============================================================================
