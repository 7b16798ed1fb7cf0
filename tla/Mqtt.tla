-------------------------------- MODULE Mqtt --------------------------------
(***************************************************************************)
(* The MQTT bridge, meshtastic_mqtt.c: its thread keeps a session with the *)
(* broker, publishes what other threads have queued, and takes what the    *)
(* broker sends.  Each action is a step of that thread between two points  *)
(* where other threads may run; the callbacks of the MQTT library run in   *)
(* it too, so connected is its own.                                        *)
(*                                                                         *)
(* The thread sleeps and waits with timeouts, so it may always go on:      *)
(* the delays and the semaphore that ends them early are left out.  That   *)
(* mqtt_publish() closes the session when it fails is the library's doing. *)
(***************************************************************************)
EXTENDS Integers, Sequences

CONSTANTS
  PublishQueueSize,     \* CONFIG_MESHTASTIC_MQTT_PUBLISH_QUEUE_SIZE
  BudgetOnConnect,      \* MQTT_PUBLISH_BUDGET_ON_CONNECT
  BudgetPerLoop,        \* MQTT_PUBLISH_BUDGET_PER_LOOP
  MaxFailures,          \* bound: times the session fails
  MapReport             \* the queue entry of a map report

ASSUME MqttAssumption ==
  /\ PublishQueueSize \in Nat \ {0}
  /\ BudgetOnConnect \in Nat \ {0} /\ BudgetPerLoop \in Nat \ {0}
  /\ MaxFailures \in Nat

VARIABLES
  net,                  \* mqtt_net_has_ipv4
  disconnect_pending, connected,
  at,                   \* where the thread is
  ret, budget,          \* of mqtt_drain_queue(): where it returns to, publishes left
  pubq,                 \* the publish queue, the oldest first
  entry,                \* the entry mqtt_drain_queue() has taken off it, if any
  failures              \* counter

sessionVars == <<net, disconnect_pending, connected, failures>>
threadVars == <<at, ret, budget, entry>>
mqttVars == <<net, disconnect_pending, connected, at, ret, budget, pubq, entry, failures>>

At == {"top", "choose", "connect", "subscribe", "drain", "publish", "process", "map"}

Ret == {"subscribe", "process", "map"}

MqttInit ==
  /\ net \in BOOLEAN /\ disconnect_pending = FALSE /\ connected = FALSE
  /\ at = "top" /\ ret = "map" /\ budget = 0
  /\ pubq = <<>> /\ entry = <<>>
  /\ failures = 0

-----------------------------------------------------------------------------
(* mqtt_net_event_handler() *)

NetAdd ==
  /\ ~net
  /\ net' = TRUE
  /\ UNCHANGED <<disconnect_pending, connected, failures, threadVars, pubq>>

NetDel ==
  /\ net
  /\ net' = FALSE /\ disconnect_pending' = TRUE
  /\ UNCHANGED <<connected, failures, threadVars, pubq>>

-----------------------------------------------------------------------------
(* The publish queue *)

\* Mutant: a full queue is not noticed.
PutMutant(e) == pubq' = Append(pubq, e)

\* mqtt_queue_uplink() and mqtt_queue_publish(), under the lock: a full queue
\* loses its oldest entry.
MakeRoom == IF Len(pubq) >= PublishQueueSize THEN Tail(pubq) ELSE pubq

Put(e) == pubq' = Append(MakeRoom, e)

\* Mutant: the last publish of the budget is not made.
DrainMutant ==
  /\ at = "drain"
  /\ \/ /\ connected /\ budget > 1 /\ pubq # <<>>
        /\ entry' = <<Head(pubq)>> /\ pubq' = Tail(pubq)
        /\ at' = "publish"
     \/ /\ ~(connected /\ budget > 1 /\ pubq # <<>>)
        /\ at' = ret
        /\ UNCHANGED <<pubq, entry>>
  /\ UNCHANGED <<sessionVars, ret, budget>>

\* mqtt_drain_queue(): take an entry off the queue, or return.
Drain ==
  /\ at = "drain"
  /\ \/ /\ connected /\ budget > 0 /\ pubq # <<>>
        /\ entry' = <<Head(pubq)>> /\ pubq' = Tail(pubq)
        /\ at' = "publish"
     \/ /\ ~(connected /\ budget > 0 /\ pubq # <<>>)
        /\ at' = ret
        /\ UNCHANGED <<pubq, entry>>
  /\ UNCHANGED <<sessionVars, ret, budget>>

Fails == failures < MaxFailures /\ failures' = failures + 1

\* mqtt_do_publish().  An entry that cannot be published is gone; the library
\* ends the session and MQTT_EVT_DISCONNECT clears connected.
Publish ==
  /\ at = "publish"
  /\ \/ UNCHANGED <<connected, failures>>
     \/ Fails /\ connected' = FALSE
  /\ entry' = <<>>
  /\ budget' = budget - 1
  /\ at' = "drain"
  /\ UNCHANGED <<net, disconnect_pending, ret, pubq>>

-----------------------------------------------------------------------------
(* mqtt_thread_fn() *)

\* mqtt_handle_disconnect_pending()
HandleDisconnectPending ==
  /\ at = "top"
  /\ disconnect_pending' = FALSE
  /\ connected' = (connected /\ ~disconnect_pending)
  /\ at' = "choose"
  /\ UNCHANGED <<net, failures, ret, budget, entry, pubq>>

DrainThen(r, n) == at' = "drain" /\ ret' = r /\ budget' = n

\* Connect if there is no session, give it up if the network is gone, or
\* publish.
Choose ==
  /\ at = "choose"
  /\ \/ /\ ~net
        /\ disconnect_pending' = (disconnect_pending /\ ~connected)
        /\ connected' = FALSE
        /\ at' = "top"
        /\ UNCHANGED <<ret, budget>>
     \/ /\ net /\ ~connected
        /\ at' = "connect"
        /\ UNCHANGED <<disconnect_pending, connected, ret, budget>>
     \/ /\ net /\ connected
        /\ DrainThen("process", BudgetPerLoop)
        /\ UNCHANGED <<disconnect_pending, connected>>
  /\ UNCHANGED <<net, failures, entry, pubq>>

\* mqtt_resolve_broker() and mqtt_try_connect(): the broker answers in time and
\* MQTT_EVT_CONNACK drains the queue ...
ConnAck ==
  /\ at = "connect"
  /\ connected' = TRUE
  /\ DrainThen("subscribe", BudgetOnConnect)
  /\ UNCHANGED <<net, disconnect_pending, failures, entry, pubq>>

\* ... or it does not.
ConnectFails ==
  /\ at = "connect"
  /\ at' = "top"
  /\ UNCHANGED <<sessionVars, ret, budget, entry, pubq>>

\* The rest of mqtt_try_connect(): the session may be over already.
Subscribe ==
  /\ at = "subscribe"
  /\ \/ connected /\ at' = "choose" /\ UNCHANGED <<connected, failures>>
     \/ connected /\ Fails /\ connected' = FALSE /\ at' = "top"
     \/ ~connected /\ at' = "top" /\ UNCHANGED <<connected, failures>>
  /\ UNCHANGED <<net, disconnect_pending, ret, budget, entry, pubq>>

\* mqtt_process_once(): nothing to read, or a message that is ignored ...
ProcessNothing ==
  /\ at = "process" /\ connected
  /\ DrainThen("map", BudgetPerLoop)
  /\ UNCHANGED <<sessionVars, entry, pubq>>

\* ... or an error.
ProcessFails ==
  /\ at = "process"
  /\ \/ connected /\ Fails
     \/ ~connected /\ UNCHANGED failures
  /\ connected' = FALSE
  /\ at' = "top"
  /\ UNCHANGED <<net, disconnect_pending, ret, budget, entry, pubq>>

\* mqtt_perhaps_report_to_map(): a report that cannot be published is queued.
PerhapsReportToMap ==
  /\ at = "map"
  /\ \/ UNCHANGED <<connected, failures, pubq>>
     \/ connected /\ Fails /\ connected' = FALSE /\ Put(MapReport)
  /\ at' = "top"
  /\ UNCHANGED <<net, disconnect_pending, ret, budget, entry>>

MqttThread ==
  \/ HandleDisconnectPending \/ Choose \/ ConnAck \/ ConnectFails \/ Subscribe
  \/ Drain \/ Publish \/ ProcessNothing \/ ProcessFails \/ PerhapsReportToMap

-----------------------------------------------------------------------------
(* Properties *)

(* Publishes "that cannot be written to the broker immediately are retained here
   and retried on the MQTT worker thread": an entry whose publish fails, which
   ends the session, is in the queue again. *)
PublishesRetained ==
  [][at = "publish" /\ at' # "publish" /\ ~connected' =>
       \E i \in 1 .. Len(pubq') : pubq'[i] = entry[1]]_mqttVars
=============================================================================
