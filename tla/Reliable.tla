------------------------------ MODULE Reliable ------------------------------
(***************************************************************************)
(* The acknowledgement table of meshtastic_reliable.c: packets sent with   *)
(* want_ack wait in a fixed table for a ROUTING acknowledgement, are       *)
(* retransmitted by a delayable work item, and end in exactly one event.   *)
(*                                                                         *)
(* Every access to the table is one critical section of reliable_lock and  *)
(* is one action here.  What happens outside the lock is a step of its     *)
(* own: the window between handing a frame to the radio and tracking it,   *)
(* the start of the work handler, the reports made after the lock is       *)
(* released, and the two halves of meshtastic_reliable_reset().            *)
(*                                                                         *)
(* Time is relative: an entry stores how long it still has to wait, the    *)
(* timer how long until it expires, and Tick lets one unit pass.  The      *)
(* code reads the clock before it takes the lock; lag is the time that     *)
(* passes in between, so an entry due at "now" has wait + lag <= 0.        *)
(***************************************************************************)
EXTENDS Integers, Sequences, FiniteSets

CONSTANTS
  Packet,           \* packets the application sends (one send each)
  None,             \* no packet
  Info,             \* Info[p]: the header fields the table looks at
  MaxPending,       \* CONFIG_MESHTASTIC_RELIABLE_MAX_PENDING
  Retransmissions,  \* CONFIG_MESHTASTIC_RELIABLE_RETRANSMISSIONS
  Interval,         \* CONFIG_MESHTASTIC_RELIABLE_RETRY_INTERVAL_MS, in ticks
  Jitter,           \* CONFIG_MESHTASTIC_RELIABLE_RETRY_JITTER_MS, in ticks
  MaxLag,           \* bound on the time a thread waits for reliable_lock
  RxThread          \* threads that process inbound packets (LoRa RX, MQTT)

Slot == 1 .. MaxPending

Off == -1           \* the delayable work has no timeout pending

InfoType ==
  [id : Nat, to : {"peer", "us", "broadcast"}, port : {"app", "routing"},
   want_ack : BOOLEAN]

ASSUME ConstantsAssumption ==
  /\ None \notin Packet
  /\ Info \in [Packet -> InfoType]
  /\ MaxPending \in Nat \ {0}
  /\ Retransmissions \in Nat
  /\ Interval \in Nat /\ Jitter \in Nat /\ MaxLag \in Nat
  /\ RxThread \cap Slot = {}

VARIABLES
  table,        \* reliable_entries: [pkt, left, wait] per slot
  timer,        \* ticks until the delayable work is submitted, or Off
  queued,       \* the work item waits in the system work queue
  handler,      \* where the system work queue thread is in reliable_work_fn
  captured,     \* outcomes taken under the lock and not reported yet
  fate,         \* fate[p]: how far the send of p got
  reports,      \* reports[p]: the outcome events emitted for p
  resends,      \* resends[p]: retransmissions handed to the radio
  resetting     \* meshtastic_reliable_reset() is between its two halves

vars == <<table, timer, queued, handler, captured, fate, reports, resends,
          resetting>>

Outcome == {"acked", "nak", "timed_out"}

Fate == {"idle", "failed", "sending", "ignored", "full", "tracked", "dropped"}

Holder == Slot \cup RxThread

Free == [pkt |-> None, left |-> 0, wait |-> 0]

Entry == [pkt : Packet \cup {None}, left : 0 .. Retransmissions, wait : Int]

Nothing == [pkt |-> None, type |-> "none"]

Captured == [pkt : Packet, type : Outcome] \cup {Nothing}

Delay == Interval .. (Interval + Jitter)      \* reliable_retry_delay_ms

Lag == 0 .. MaxLag

Occupied(tab) == {s \in Slot : tab[s].pkt # None}

\* meshtastic_reliable_pending()
Pending == Cardinality(Occupied(table))

Init ==
  /\ table = [s \in Slot |-> Free]
  /\ timer = Off
  /\ queued = FALSE
  /\ handler = "idle"
  /\ captured = [h \in Holder |-> Nothing]
  /\ fate = [p \in Packet |-> "idle"]
  /\ reports = [p \in Packet |-> <<>>]
  /\ resends = [p \in Packet |-> 0]
  /\ resetting = FALSE
-----------------------------------------------------------------------------
(* The delayable work item, as the kernel runs it. *)

\* Mutant: k_work_schedule(), which keeps a timeout that is already pending.
WorkScheduleMutant(delay) ==
  IF timer # Off
    THEN UNCHANGED <<timer, queued>>
    ELSE IF delay > 0 THEN timer' = delay /\ UNCHANGED queued
                      ELSE timer' = Off /\ queued' = TRUE

\* k_work_reschedule(): a zero delay submits the work at once.
WorkReschedule(delay) ==
  IF delay > 0
    THEN timer' = delay /\ UNCHANGED queued
    ELSE timer' = Off /\ queued' = TRUE

\* Mutant: entries that used up their attempts are not waited for.
RescheduleMutant(tab, lag) ==
  LET Waiting == {s \in Occupied(tab) : tab[s].left > 0}
  IN  \/ Waiting = {} /\ UNCHANGED <<timer, queued>>
      \/ \E s \in Waiting :
           /\ \A o \in Waiting : tab[s].wait <= tab[o].wait
           /\ WorkReschedule(tab[s].wait + lag)

\* reliable_reschedule(): the timer follows the entry that is due first, and
\* is left alone when the table is empty.
Reschedule(tab, lag) ==
  \/ /\ Occupied(tab) = {}
     /\ UNCHANGED <<timer, queued>>
  \/ \E s \in Occupied(tab) :
       /\ \A o \in Occupied(tab) : tab[s].wait <= tab[o].wait
       /\ WorkReschedule(tab[s].wait + lag)

\* An entry more than MaxLag overdue is due for every reader of the clock,
\* so the wait stops there.
Tick ==
  /\ table' = [s \in Slot |->
                 IF table[s].pkt # None /\ table[s].wait > -MaxLag
                   THEN [table[s] EXCEPT !.wait = @ - 1] ELSE table[s]]
  /\ timer' = IF timer > 0 THEN timer - 1 ELSE timer
  /\ <<table, timer>>' # <<table, timer>>
  /\ UNCHANGED <<queued, handler, captured, fate, reports, resends, resetting>>

TimerExpires ==
  /\ timer = 0
  /\ timer' = Off
  /\ queued' = TRUE
  /\ UNCHANGED <<table, handler, captured, fate, reports, resends, resetting>>

\* The system work queue is one thread: the handler never overlaps itself.
WorkStart ==
  /\ queued
  /\ handler = "idle"
  /\ queued' = FALSE
  /\ handler' = "start"
  /\ UNCHANGED <<table, timer, captured, fate, reports, resends, resetting>>
-----------------------------------------------------------------------------
(* Sending: meshtastic_send_packet() hands the frame to the radio first and *)
(* calls meshtastic_reliable_track() when that has returned 0.              *)

Send(p) ==
  /\ fate[p] = "idle"
  /\ ~resetting
  /\ fate' \in {[fate EXCEPT ![p] = "sending"], [fate EXCEPT ![p] = "failed"]}
  /\ UNCHANGED <<table, timer, queued, handler, captured, reports, resends,
                 resetting>>

\* Only unicast application traffic that asked for it is tracked.
Trackable(p) ==
  /\ Info[p].want_ack
  /\ Info[p].id # 0
  /\ Info[p].to = "peer"
  /\ Info[p].port # "routing"

\* Mutant: the first transmission is counted as an attempt of its own.
NewEntryMutant(p, delay, lag) ==
  [pkt |-> p, left |-> Retransmissions + 1, wait |-> delay - lag]

NewEntry(p, delay, lag) ==
  [pkt |-> p, left |-> Retransmissions, wait |-> delay - lag]

FirstFree(s) ==
  /\ table[s].pkt = None
  /\ \A o \in 1 .. (s - 1) : table[o].pkt # None

TrackEntry(p) ==
  \E s \in Slot, delay \in Delay, lag \in Lag :
    /\ FirstFree(s)
    /\ table' = [table EXCEPT ![s] = NewEntry(p, delay, lag)]
    /\ Reschedule(table', lag)
    /\ fate' = [fate EXCEPT ![p] = "tracked"]

Track(p) ==
  /\ fate[p] = "sending"
  /\ \/ Trackable(p) /\ TrackEntry(p)
     \/ /\ ~Trackable(p)
        /\ fate' = [fate EXCEPT ![p] = "ignored"]
        /\ UNCHANGED <<table, timer, queued>>
     \/ /\ Trackable(p) /\ \A s \in Slot : table[s].pkt # None
        /\ fate' = [fate EXCEPT ![p] = "full"]
        /\ UNCHANGED <<table, timer, queued>>
  /\ UNCHANGED <<handler, captured, reports, resends, resetting>>
-----------------------------------------------------------------------------
(* Acknowledgements. *)

\* reliable_routing_is_ack(): only a payload that decodes to an explicit
\* error is a NAK.
RoutingPayload == {"empty", "undecodable", "no_error", "error"}

RoutingOutcome(payload) == IF payload = "error" THEN "nak" ELSE "acked"

FirstWithId(s, id) ==
  /\ table[s].pkt # None /\ Info[table[s].pkt].id = id
  /\ \A o \in 1 .. (s - 1) : table[o].pkt # None => Info[table[o].pkt].id # id

\* Mutant: the matched entry stays in use.
OnRoutingMutant(t, request_id, payload) ==
  /\ captured[t] = Nothing
  /\ request_id # 0
  /\ \E s \in Slot :
       /\ FirstWithId(s, request_id)
       /\ captured' = [captured EXCEPT
                         ![t] = [pkt |-> table[s].pkt,
                                 type |-> RoutingOutcome(payload)]]
  /\ UNCHANGED <<table, timer, queued, handler, fate, reports, resends, resetting>>

\* meshtastic_reliable_on_routing() up to the unlock, for a ROUTING packet
\* addressed to this node.  A request_id no entry waits for changes nothing.
OnRouting(t, request_id, payload) ==
  /\ captured[t] = Nothing
  /\ request_id # 0
  /\ \E s \in Slot :
       /\ FirstWithId(s, request_id)
       /\ captured' = [captured EXCEPT
                         ![t] = [pkt |-> table[s].pkt,
                                 type |-> RoutingOutcome(payload)]]
       /\ table' = [table EXCEPT ![s] = Free]
  /\ UNCHANGED <<timer, queued, handler, fate, reports, resends, resetting>>

\* reliable_emit(), with the lock released.
Emit(h) ==
  /\ captured[h] # Nothing
  /\ reports' = [reports EXCEPT ![captured[h].pkt] = Append(@, captured[h].type)]
  /\ captured' = [captured EXCEPT ![h] = Nothing]

RxEmit(t) ==
  /\ Emit(t)
  /\ UNCHANGED <<table, timer, queued, handler, fate, resends, resetting>>
-----------------------------------------------------------------------------
(* reliable_work_fn() *)

Due(s, lag) == table[s].pkt # None /\ table[s].wait + lag <= 0

Expired(s, lag) == Due(s, lag) /\ table[s].left = 0

\* Mutant: an entry that is given up is sent once more.
RetriedMutant(s, lag) == Due(s, lag)

Retried(s, lag) == Due(s, lag) /\ table[s].left > 0

\* Mutant: one variable for the outcome instead of one per expired entry.
TakeExpiredMutant(lag) ==
  captured' = [h \in Holder |->
                 IF h \in Slot /\ Expired(h, lag)
                    /\ \A o \in 1 .. (h - 1) : ~Expired(o, lag)
                   THEN [pkt |-> table[h].pkt, type |-> "timed_out"]
                   ELSE captured[h]]

TakeExpired(lag) ==
  captured' = [h \in Holder |->
                 IF h \in Slot /\ Expired(h, lag)
                   THEN [pkt |-> table[h].pkt, type |-> "timed_out"]
                   ELSE captured[h]]

\* The pass over the table, under the lock.  A retransmission the outbound
\* queue refuses is only logged: it uses up an attempt all the same.
WorkPass ==
  \E lag \in Lag, delay \in [Slot -> Delay] :
    /\ table' = [s \in Slot |->
                   IF Expired(s, lag) THEN Free
                   ELSE IF Retried(s, lag)
                     THEN [table[s] EXCEPT !.left = @ - 1,
                                           !.wait = delay[s] - lag]
                   ELSE table[s]]
    /\ TakeExpired(lag)
    /\ resends' = [p \in Packet |->
                     IF \E s \in Slot : table[s].pkt = p /\ Retried(s, lag)
                       THEN resends[p] + 1 ELSE resends[p]]
    /\ Reschedule(table', lag)

WorkRun ==
  /\ handler = "start"
  /\ WorkPass
  /\ handler' = "emit"
  /\ UNCHANGED <<fate, reports, resetting>>

WorkEmit ==
  /\ handler = "emit"
  /\ \/ \E s \in Slot :
          /\ \A o \in 1 .. (s - 1) : captured[o] = Nothing
          /\ Emit(s)
          /\ UNCHANGED handler
     \/ /\ \A s \in Slot : captured[s] = Nothing
        /\ handler' = "idle"
        /\ UNCHANGED <<captured, reports>>
  /\ UNCHANGED <<table, timer, queued, fate, resends, resetting>>
-----------------------------------------------------------------------------
(* meshtastic_reliable_reset(), called by meshtastic_init(), which is to be *)
(* called before any other function (meshtastic.h): no send is in progress  *)
(* then, and none adds an entry between the two steps.  The code does not   *)
(* check it.  The handler and the receive threads of the previous run may   *)
(* be anywhere.                                                             *)

\* Mutant: the entries of the previous run are left in the table.
ResetClearMutant ==
  /\ ~resetting
  /\ \A p \in Packet : fate[p] # "sending"
  /\ fate' = [p \in Packet |->
                IF \E s \in Slot : table[s].pkt = p THEN "dropped" ELSE fate[p]]
  /\ resetting' = TRUE
  /\ UNCHANGED <<table, timer, queued, handler, captured, reports, resends>>

ResetClear ==
  /\ ~resetting
  /\ \A p \in Packet : fate[p] # "sending"
  /\ table' = [s \in Slot |-> Free]
  /\ fate' = [p \in Packet |->
                IF \E s \in Slot : table[s].pkt = p THEN "dropped" ELSE fate[p]]
  /\ resetting' = TRUE
  /\ UNCHANGED <<timer, queued, handler, captured, reports, resends>>

\* k_work_cancel_delayable(): drops the timeout and the queued work, not a
\* handler that already runs.
ResetCancel ==
  /\ resetting
  /\ timer' = Off
  /\ queued' = FALSE
  /\ resetting' = FALSE
  /\ UNCHANGED <<table, handler, captured, fate, reports, resends>>
-----------------------------------------------------------------------------
Ids == {Info[p].id : p \in Packet}

Next ==
  \/ Tick \/ TimerExpires \/ WorkStart \/ WorkRun \/ WorkEmit
  \/ \E p \in Packet : Send(p) \/ Track(p)
  \/ \E t \in RxThread :
       \/ \E id \in Ids, payload \in RoutingPayload : OnRouting(t, id, payload)
       \/ RxEmit(t)
  \/ ResetClear \/ ResetCancel

Spec == Init /\ [][Next]_vars

\* Time passes, the kernel submits and runs due work, and threads that
\* captured an outcome or started a send go on to their next step.
Fairness ==
  /\ WF_vars(Tick) /\ WF_vars(TimerExpires) /\ WF_vars(WorkStart)
  /\ WF_vars(WorkRun) /\ WF_vars(WorkEmit) /\ WF_vars(ResetCancel)
  /\ \A p \in Packet : WF_vars(Track(p))
  /\ \A t \in RxThread : WF_vars(RxEmit(t))

FairSpec == Spec /\ Fairness
-----------------------------------------------------------------------------
(* Properties *)

(* The type invariant: an entry has no more attempts left than configured, and
   reliable_work_fn() handles it at most MaxLag after its deadline. *)
TypeOK ==
  /\ table \in [Slot -> Entry]
  /\ \A s \in Slot : table[s].wait >= -MaxLag
  /\ timer \in Nat \cup {Off}
  /\ queued \in BOOLEAN
  /\ handler \in {"idle", "start", "emit"}
  /\ captured \in [Holder -> Captured]
  /\ fate \in [Packet -> Fate]
  /\ reports \in [Packet -> Seq(Outcome)]
  /\ resends \in [Packet -> Nat]
  /\ resetting \in BOOLEAN

InTable(p) == \E s \in Slot : table[s].pkt = p

IsCaptured(p) == \E h \in Holder : captured[h].pkt = p

\* No packet is in two places: a slot, an outcome on its way to the
\* application, or reported.
SingleCopy ==
  /\ \A s, o \in Slot : table[s].pkt = table[o].pkt /\ s # o => table[s].pkt = None
  /\ \A g, h \in Holder :
       captured[g].pkt = captured[h].pkt /\ g # h => captured[g].pkt = None
  /\ \A p \in Packet : ~(InTable(p) /\ IsCaptured(p))
  /\ \A p \in Packet : reports[p] # <<>> => ~InTable(p) /\ ~IsCaptured(p)

\* The table, the handler of the system work queue, the receive threads and
\* reset race for every tracked packet.  However they interleave, a tracked
\* packet is held in exactly one place until its one event TX_ACKED or
\* TX_NO_ACK is emitted: no outcome is lost, none is reported twice, and a
\* packet that was never tracked or was dropped by reset is never reported.
Accounted ==
  /\ SingleCopy
  /\ \A p \in Packet :
       /\ Len(reports[p]) <= 1
       /\ fate[p] = "tracked" <=> InTable(p) \/ IsCaptured(p) \/ reports[p] # <<>>

\* meshtastic_reliable_reset() and every path that frees or fills a slot leave
\* the timer covering the table: while an entry waits, the delayable work is
\* queued, is about to take the lock, or expires no later than that entry is
\* due (up to the time a thread waited for the lock).
TimerCovers ==
  \A s \in Occupied(table) :
    \/ queued
    \/ handler = "start"
    \/ timer # Off /\ timer <= table[s].wait + MaxLag

\* TX_NO_ACK with -ETIMEDOUT means "every retransmission went unanswered":
\* it is taken only after the configured number of retransmissions, and no
\* packet is ever retransmitted more often.
TimeoutMeansExhausted ==
  /\ \A p \in Packet : resends[p] <= Retransmissions
  /\ \A h \in Holder :
       captured[h].type = "timed_out" => resends[captured[h].pkt] = Retransmissions
  /\ \A p \in Packet :
       reports[p] # <<>> /\ reports[p][1] = "timed_out" => resends[p] = Retransmissions

\* reliable_work_fn() retransmits a frame only while its packet still waits in
\* the table: never after an acknowledgement was matched, never after its
\* outcome was reported, and never after reset dropped it ("a re-initialised
\* stack does not retransmit packets belonging to a previous run").
NoStaleRetransmission ==
  [][\A p \in Packet :
       resends'[p] # resends[p] =>
         fate[p] = "tracked" /\ ~IsCaptured(p) /\ reports[p] = <<>>]_vars

\* Every tracked packet gets its event, unless reset drops it.
TrackedIsReported ==
  \A p \in Packet :
    fate[p] = "tracked" ~> reports[p] # <<>> \/ fate[p] = "dropped"

\* What meshtastic.h says of want_ack: a unicast send is retransmitted until
\* acknowledged and then reported.  It does not hold when the table is full.
AckableSendIsReported ==
  \A p \in Packet :
    fate[p] = "sending" /\ Trackable(p) ~> reports[p] # <<>> \/ fate[p] = "dropped"

\* The facts that make the invariants above inductive: each entry's attempts
\* and retransmissions add up, only the running handler holds expired
\* outcomes, and the window inside reset has an empty table and no send.
Bookkeeping ==
  /\ \A s \in Occupied(table) :
       resends[table[s].pkt] + table[s].left = Retransmissions
  /\ \A p \in Packet : fate[p] # "tracked" /\ fate[p] # "dropped" => resends[p] = 0
  /\ handler # "emit" => \A s \in Slot : captured[s] = Nothing
  /\ resetting => Occupied(table) = {} /\ \A p \in Packet : fate[p] # "sending"

IInv ==
  TypeOK /\ Accounted /\ TimerCovers /\ TimeoutMeansExhausted /\ Bookkeeping
-----------------------------------------------------------------------------
(* The table implements the contract of Delivery.tla. *)

Reported(p) ==
  IF reports[p] = <<>> THEN "pending"
  ELSE IF reports[p][Len(reports[p])] = "acked" THEN "acked" ELSE "no_ack"

StatusOf(p) ==
  IF fate[p] \in {"idle", "sending"} THEN "idle"
  ELSE IF fate[p] \in {"failed", "ignored", "full"} THEN "untracked"
  ELSE IF fate[p] = "dropped" THEN "dropped"
  ELSE Reported(p)

statusBar == [p \in Packet |-> StatusOf(p)]

D == INSTANCE Delivery WITH status <- statusBar

\* Reliable implements the application's view: idle, pending, one outcome.
Contract == D!Spec
=============================================================================
