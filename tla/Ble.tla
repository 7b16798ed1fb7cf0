--------------------------------- MODULE Ble ---------------------------------
(***************************************************************************)
(* The Bluetooth transport, meshtastic_ble.c, around PhoneApi.  The work   *)
(* queue thread stages one FromRadio frame at a time and handles what the  *)
(* phone writes; the callbacks of the Bluetooth stack serve the phone's    *)
(* reads and writes and end connections.  They run at a cooperative        *)
(* priority: the work queue thread may be interrupted anywhere, a callback *)
(* is one action.                                                          *)
(*                                                                         *)
(* A frame longer than the MTU is read in two pieces, which stand for any  *)
(* number; a ToRadio frame is written in one.  from_num is left out: it is *)
(* the value of a notification, which only asks the phone to read.         *)
(***************************************************************************)
EXTENDS PhoneApi

CONSTANTS
  Producer,         \* threads that call meshtastic_phoneapi_on_packet()
  MaxPackets,       \* bound: packets received from the mesh
  MaxCommands,      \* bound: ToRadio frames written
  MaxLinks          \* bound: connections

ASSUME BleAssumption == MaxPackets \in Nat /\ MaxCommands \in Nat /\ MaxLinks \in Nat

VARIABLES
  current,                  \* api->current, if current_valid
  staged, ready,            \* fromradio_staged, fromradio_ready
  buf,                      \* fromradio_buf, if fromradio_len > 0
  to_radio,                 \* to_radio_buf, if to_radio_len > 0
  linked, notify_enabled,   \* ble.conn # NULL, fromnum_notify_enabled
  work, running,            \* ble.work_q ("fromradio", "toradio"), and where its thread is
  canceling,                \* fromradio_work was cancelled while its handler runs
  missed,                   \* history: the latest submission of fromradio_work was refused
                            \* ("submit"), the phone sleeps through a frame ("notify")
  notify,                   \* producers between queueing a frame and data_ready()
  phone,                    \* what the phone is doing: "asleep", "awake", "reading"
  heard,                    \* history: packets and configuration frames read in this connection
  base,                     \* history: the counters when the last connection ended
  packets, commands, requests, links   \* counters

deliveryVars == <<current, staged, ready, buf>>
linkVars == <<linked, notify_enabled, phone, heard, base, links>>
countVars == <<packets, commands, requests>>
workVars == <<work, canceling, missed>>
vars == <<queue, config, cut, current, staged, ready, buf, to_radio, linked, notify_enabled,
          work, canceling, missed, running, notify, phone, heard, base, packets, commands,
          requests, links>>

None == [type |-> "none", at |-> 0, request |-> 0]

Command == {"heartbeat", "packet", "disconnect"}

ToRadioFrame(c, r) == [type |-> c, at |-> 0, request |-> r]

\* meshtastic_ble_init()
Init ==
  /\ ApiInit
  /\ current = None /\ staged = None /\ ready = FALSE /\ buf = None
  /\ to_radio = None
  /\ linked = FALSE /\ notify_enabled = FALSE
  /\ work = <<>> /\ canceling = FALSE /\ missed = {} /\ running = "idle" /\ notify = {}
  /\ phone = "asleep" /\ heard = Nothing /\ base = [packets |-> 0, requests |-> 0]
  /\ packets = 0 /\ commands = 0 /\ requests = 0 /\ links = 0

Queued(w) == \E i \in 1 .. Len(work) : work[i] = w

\* k_work_submit_to_queue(): no effect on an item that is queued already.  The
\* kernel refuses an item that was cancelled until its handler has returned, and
\* the code does not look at the result.
Submit(w) ==
  LET Refused == w = "fromradio" /\ canceling
  IN  /\ work' = IF Queued(w) \/ Refused THEN work ELSE Append(work, w)
      /\ missed' = IF Refused THEN missed \cup {"submit"}
                   ELSE IF w = "fromradio" THEN missed \ {"submit"}
                   ELSE missed

\* fromradio_work_handler() is under way.
Handling == running \in {"fromradio", "ready", "notify"}

\* k_work_cancel(): takes an item that is queued off the queue; if its handler
\* runs, the item stays marked as cancelled until the handler returns.
Cancel(w) ==
  /\ \/ /\ ~Queued(w)
        /\ UNCHANGED work
     \/ \E i \in 1 .. Len(work) :
          /\ work[i] = w
          /\ work' = [j \in 1 .. Len(work) - 1 |-> IF j < i THEN work[j] ELSE work[j + 1]]
  /\ canceling' = Handling

-----------------------------------------------------------------------------
(* Packets from the mesh: meshtastic_phoneapi_on_packet() *)

OnPacket(t) ==
  /\ t \notin notify
  /\ packets < MaxPackets
  /\ packets' = packets + 1
  /\ Enqueue(Packet(packets + 1))
  /\ notify' = notify \cup {t}
  /\ UNCHANGED <<config, deliveryVars, to_radio, linkVars, workVars, running, commands, requests>>

\* ble_data_ready(), with the lock released
DataReady(t) ==
  /\ t \in notify
  /\ notify' = notify \ {t}
  /\ Submit("fromradio")
  /\ UNCHANGED <<apiVars, deliveryVars, to_radio, linkVars, canceling, running, countVars>>

-----------------------------------------------------------------------------
(* The callbacks of the Bluetooth stack *)

Connected ==
  /\ ~linked /\ links < MaxLinks
  /\ linked' = TRUE /\ links' = links + 1
  /\ UNCHANGED <<apiVars, deliveryVars, to_radio, notify_enabled, phone, heard, base, workVars,
                 running, notify, countVars>>

\* fromnum_ccc_changed().  A phone reads once it has subscribed: what was staged
\* before was notified to nobody.
Subscribe ==
  /\ linked /\ ~notify_enabled
  /\ notify_enabled' = TRUE
  /\ phone' = "awake" /\ missed' = missed \ {"notify"}
  /\ UNCHANGED <<apiVars, deliveryVars, to_radio, linked, heard, base, links, work, canceling,
                 running, notify, countVars>>

\* Mutant: the queue and the handshake are left as they are.
DisconnectedMutant ==
  /\ linked
  /\ linked' = FALSE /\ notify_enabled' = FALSE /\ phone' = "asleep"
  /\ ready' = FALSE /\ buf' = None /\ current' = None
  /\ heard' = Nothing /\ base' = [packets |-> packets, requests |-> requests]
  /\ UNCHANGED <<apiVars, staged, to_radio, links, workVars, running, notify, countVars>>

\* disconnected(): ble_invalidate_delivery(), meshtastic_phoneapi_reset() and
\* k_work_cancel(), which takes the item off the queue but does not stop a
\* handler that runs.  The stack drops the subscription.
Disconnected ==
  /\ linked
  /\ linked' = FALSE /\ notify_enabled' = FALSE /\ phone' = "asleep"
  /\ ready' = FALSE /\ buf' = None /\ current' = None
  /\ queue' = <<>> /\ config' = [at |-> At("IDLE", 0), request |-> 0]
  /\ Cancel("fromradio") /\ missed' = missed \ {"notify"}
  /\ heard' = Nothing /\ base' = [packets |-> packets, requests |-> requests]
  /\ UNCHANGED <<cut, staged, to_radio, links, running, notify, countVars>>

\* Mutant: the frame is not released.
ReadEndsMutant(f) ==
  /\ ready' = FALSE
  /\ Submit("fromradio")
  /\ phone' = "awake" /\ heard' = Hearing(heard, f)
  /\ UNCHANGED current

\* Mutant: nobody is asked to stage the next frame.
ReadEndsQuietly(f) ==
  /\ current' = None /\ ready' = FALSE
  /\ phone' = "awake" /\ heard' = Hearing(heard, f)
  /\ UNCHANGED <<work, missed>>

\* read_fromradio() reaches the end of the frame.
ReadEnds(f) ==
  /\ current' = None /\ ready' = FALSE
  /\ Submit("fromradio")
  /\ phone' = "awake" /\ heard' = Hearing(heard, f)

\* read_fromradio() at offset 0: no frame, a whole one, or the first piece.
ReadFromRadio ==
  /\ linked /\ phone = "awake"
  /\ \/ /\ ~ready
        /\ buf' = None /\ phone' = "asleep"
        /\ UNCHANGED <<current, ready, work, missed, heard>>
     \/ /\ ready
        /\ buf' = staged
        /\ ReadEnds(staged)
     \/ /\ ready
        /\ buf' = staged /\ phone' = "reading"
        /\ UNCHANGED <<current, ready, work, missed, heard>>
  /\ UNCHANGED <<apiVars, staged, to_radio, linked, notify_enabled, base, links, canceling,
                 running, notify, countVars>>

\* ... and past it: an error if the frame was invalidated in between.
ReadRest ==
  /\ linked /\ phone = "reading"
  /\ \/ /\ buf # None
        /\ ReadEnds(buf)
     \/ /\ buf = None
        /\ phone' = "awake"
        /\ UNCHANGED <<current, ready, work, missed, heard>>
  /\ UNCHANGED <<apiVars, staged, buf, to_radio, linked, notify_enabled, base, links, canceling,
                 running, notify, countVars>>

\* write_toradio() overwrites a frame that was not handled yet.
WriteToRadio(frame) ==
  /\ to_radio' = frame
  /\ Submit("toradio")

PhoneAsks ==
  /\ linked /\ commands < MaxCommands /\ requests < MaxRequests
  /\ commands' = commands + 1 /\ requests' = requests + 1
  /\ WriteToRadio(ToRadioFrame("want_config", requests + 1))
  /\ UNCHANGED <<apiVars, deliveryVars, linkVars, canceling, running, notify, packets>>

PhoneWrites(c) ==
  /\ linked /\ commands < MaxCommands
  /\ commands' = commands + 1
  /\ WriteToRadio(ToRadioFrame(c, 0))
  /\ UNCHANGED <<apiVars, deliveryVars, linkVars, canceling, running, notify, packets, requests>>

-----------------------------------------------------------------------------
(* The work queue thread *)

WorkNext ==
  /\ running = "idle" /\ work # <<>>
  /\ running' = Head(work)
  /\ work' = Tail(work)
  /\ UNCHANGED <<apiVars, deliveryVars, to_radio, linkVars, canceling, missed, notify, countVars>>

\* meshtastic_phoneapi_current_frame(): the current frame, or the next one
CurrentFrame ==
  \/ /\ current # None
     /\ UNCHANGED <<apiVars, current>>
  \/ /\ current = None
     /\ PopFrame(current')

\* fromradio_work_handler(): stage a frame unless one is ready ...
FromRadioWork ==
  /\ running = "fromradio"
  /\ \/ /\ ready \/ (current = None /\ NothingToPop)
        /\ running' = "idle" /\ canceling' = FALSE
        /\ UNCHANGED <<apiVars, current, staged>>
     \/ /\ ~ready
        /\ CurrentFrame
        /\ staged' = current'
        /\ running' = "ready" /\ UNCHANGED canceling
  /\ UNCHANGED <<ready, buf, to_radio, linkVars, work, missed, notify, countVars>>

\* ... let the phone read it, whatever happened since ...
FrameReady ==
  /\ running = "ready"
  /\ ready' = TRUE
  /\ running' = "notify"
  /\ UNCHANGED <<apiVars, current, staged, buf, to_radio, linkVars, workVars, notify, countVars>>

\* Mutant: the phone is not told.
NotifyFromNumMutant ==
  /\ running = "notify"
  /\ running' = "idle" /\ canceling' = FALSE
  /\ UNCHANGED <<apiVars, deliveryVars, to_radio, linkVars, work, missed, notify, countVars>>

\* ... and tell it: notify_fromnum(), which does not look at the result of
\* bt_gatt_notify().
NotifyFromNum ==
  LET Sleeps == notify_enabled /\ linked /\ phone = "asleep"
  IN  /\ running = "notify"
      /\ running' = "idle" /\ canceling' = FALSE
      /\ \/ /\ phone' = IF Sleeps THEN "awake" ELSE phone
            /\ missed' = missed \ {"notify"}
         \/ /\ Sleeps
            /\ missed' = missed \cup {"notify"}
            /\ UNCHANGED phone
      /\ UNCHANGED <<apiVars, deliveryVars, to_radio, linked, notify_enabled, heard, base, links,
                     work, notify, countVars>>

\* to_radio_work_handler(), and meshtastic_phoneapi_handle_toradio() up to the
\* first step that others may see.  ble_disconnect() only asks the stack to end
\* the connection; an empty frame has no variant.
ToRadioWork ==
  /\ running = "toradio"
  /\ to_radio' = None
  /\ \/ /\ to_radio.type = "want_config"
        /\ WantConfig(to_radio.request) /\ current' = None
        /\ running' = "invalidate"
     \/ /\ to_radio.type = "packet"
        /\ running' = "send"
        /\ UNCHANGED <<apiVars, current>>
     \/ /\ to_radio.type = "heartbeat"
        /\ running' = "status"
        /\ UNCHANGED <<apiVars, current>>
     \/ /\ to_radio.type \in {"disconnect", "none"}
        /\ running' = "idle"
        /\ UNCHANGED <<apiVars, current>>
  /\ UNCHANGED <<staged, ready, buf, linkVars, workVars, notify, countVars>>

\* ble_invalidate_delivery(), called by meshtastic_phoneapi_enqueue_phone_config()
\* with the lock released
InvalidateReady ==
  /\ running = "invalidate"
  /\ ready' = FALSE
  /\ running' = "invalidate_len"
  /\ UNCHANGED <<apiVars, current, staged, buf, to_radio, linkVars, workVars, notify, countVars>>

InvalidateLen ==
  /\ running = "invalidate_len"
  /\ buf' = None /\ current' = None
  /\ running' = "data_ready"
  /\ UNCHANGED <<apiVars, staged, ready, to_radio, linkVars, workVars, notify, countVars>>

\* meshtastic_send_mesh_pb() has waited for the radio.
Sent ==
  /\ running = "send"
  /\ running' = "status"
  /\ UNCHANGED <<apiVars, deliveryVars, to_radio, linkVars, workVars, notify, countVars>>

\* meshtastic_phoneapi_enqueue_queue_status()
Status ==
  /\ running = "status"
  /\ Enqueue(QueueStatus)
  /\ running' = "data_ready"
  /\ UNCHANGED <<config, deliveryVars, to_radio, linkVars, workVars, notify, countVars>>

ToRadioReady ==
  /\ running = "data_ready"
  /\ Submit("fromradio")
  /\ running' = "idle"
  /\ UNCHANGED <<apiVars, deliveryVars, to_radio, linkVars, canceling, notify, countVars>>

-----------------------------------------------------------------------------
Thread ==
  \/ WorkNext \/ FromRadioWork \/ FrameReady \/ NotifyFromNum
  \/ ToRadioWork \/ InvalidateReady \/ InvalidateLen \/ Sent \/ Status \/ ToRadioReady

PhoneReads == Subscribe \/ ReadFromRadio \/ ReadRest

Next ==
  \/ \E t \in Producer : OnPacket(t) \/ DataReady(t)
  \/ Connected \/ Disconnected
  \/ PhoneReads \/ PhoneAsks
  \/ \E c \in Command : PhoneWrites(c)
  \/ Thread

Spec == Init /\ [][Next]_vars

\* Threads go on, the radio answers, and a phone that is connected subscribes,
\* and reads until it reads nothing.
Fairness ==
  /\ WF_vars(Thread) /\ WF_vars(PhoneReads)
  /\ \A t \in Producer : WF_vars(DataReady(t))

FairSpec == Spec /\ Fairness

-----------------------------------------------------------------------------
(* Properties *)

(* read_fromradio() releases a frame only when its last piece was read, and a
   want_config may throw a half-read one away: within a connection the packets
   are read in the order they were queued in, none of them twice, and the
   answer to each of the phone's own requests in order, without a gap, from its
   first frame. *)
ReadInOrder ==
  LET p == heard.packets
      c == heard.config
  IN  /\ \A i, j \in 1 .. Len(p) : i < j => p[i] < p[j]
      /\ c # <<>> /\ c[1].request > base.requests =>
           Begins(c, c[1].request)

NewPacket == heard'.packets # heard.packets /\ heard' # Nothing
NewConfig == heard'.config # heard.config /\ heard' # Nothing

Apart ==
  /\ NewPacket /\ heard'.packets[Len(heard'.packets)] <= base.packets => heard = Nothing
  /\ NewConfig /\ heard.config # <<>> => heard'.config[1].request >= heard.config[1].request

(* disconnected() cannot stop a handler that is between staging a frame and
   letting the phone read it, and does not drop a command that was not handled
   yet.  So the next phone may read one packet of the connection that ended, if
   it is the first thing it reads, and the answer to a want_config of that
   connection; but nothing of that connection comes after the first frame of
   the answer to a request of its own, and nothing of an older answer after a
   newer one. *)
ConnectionsApart == [][Apart]_vars

Pending == current # None \/ ~NothingToPop

(* While a frame waits and none is ready, something is under way that will run
   fromradio_work_handler(), whatever the callbacks, the work items and
   k_work_cancel() do to each other; and a command in the buffer will be handled.
   One wake-up can be lost: one that meets the handler after a disconnect has
   cancelled it, because the kernel then refuses the work item.  The next one that
   is accepted makes up for it. *)
NoLostWakeup ==
  /\ Pending /\ ~ready =>
       \/ Queued("fromradio") \/ notify # {}
       \/ running \in {"fromradio", "ready", "invalidate", "invalidate_len", "data_ready"}
       \/ "submit" \in missed
  /\ to_radio # None => Queued("toradio") \/ running = "toradio"

(* A phone that subscribes, and reads until it reads nothing whenever it is
   notified, gets everything that waits for it, unless the connection ends: a
   read that finds nothing because a frame is only being staged is made up for
   by the notification.  It can wait in vain only for a frame whose work item the
   kernel refused or whose notification failed, neither of which the code tries
   again. *)
PhoneIsServed ==
  (Pending \/ ready) /\ linked ~> ~linked \/ ~(Pending \/ ready) \/ missed # {}

-----------------------------------------------------------------------------
(* The frames on their way to the phone: the one the phone is reading, may read
   or will be able to read, and those in the queue. *)
Half == phone = "reading" /\ buf # None

Front ==
  IF Half THEN <<buf>>
  ELSE IF ready \/ running = "ready" THEN <<staged>>
  ELSE <<>>

Line == Front \o queue

Stream == INSTANCE FromRadio
          WITH line <- Line, todo <- Todo, told <- heard, broken <- 1 .. base.requests, count <- packets

(* The Bluetooth transport is a FromRadio stream. *)
StreamSpec == Stream!LineSpec
=============================================================================
