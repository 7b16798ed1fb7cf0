------------------------------- MODULE NodeDb -------------------------------
(***************************************************************************)
(* The node database, meshtastic_nodedb.c: a table of the nodes heard of,  *)
(* the local node in its first entry.  The thread that handles a packet    *)
(* reads the clock, takes nodedb_lock and updates the table.  The LoRa     *)
(* thread does so undisturbed; the MQTT thread, of a lower priority, may   *)
(* be interrupted between the clock and the lock.                          *)
(*                                                                         *)
(* Of an entry the model keeps the node number and the time of its last    *)
(* packet, in seconds; what the packets say about the node is copied into  *)
(* the entry and decides nothing.                                          *)
(***************************************************************************)
EXTENDS Integers

CONSTANTS
  Node,             \* node numbers
  Local,            \* meshtastic_get_node_id()
  MaxNodes,         \* CONFIG_MESHTASTIC_NODEDB_MAX_NODES
  MaxUptime         \* bound: the largest uptime, in seconds

ASSUME NodeDbAssumption ==
  Local \in Node /\ MaxNodes \in Nat \ {0} /\ MaxUptime \in Nat

VARIABLES
  entries,          \* nodedb_entries
  entry_count,      \* nodedb_entry_count
  uptime,           \* uptime_seconds()
  now_sec,          \* the time the interruptible thread has read, or -1
  last,             \* history: the time of each node's last packet, or -1
  lag               \* history: how late a packet was ever recorded

nodeDbVars == <<entries, entry_count, uptime, now_sec, last, lag>>

Slot == 0 .. MaxNodes - 1

Entry == [num : Node, last_heard : 0 .. MaxUptime]

Used == 0 .. entry_count - 1

\* meshtastic_nodedb_init() makes the local node's entry.  Entries that are
\* not used yet have no meaning.
NodeDbInit ==
  /\ entries = [i \in Slot |-> [num |-> Local, last_heard |-> 0]]
  /\ entry_count = 1
  /\ uptime = 0 /\ now_sec = -1
  /\ last = [n \in Node |-> -1] /\ lag = 0

\* find_entry_locked()
Find(n) == {i \in Used : entries[i].num = n}

\* Mutant: the local node's entry may be evicted.
EvictableMutant == Used

Evictable == {i \in Used : entries[i].num # Local}

\* oldest_evictable_index_locked(): of entries heard at the same time the first
Oldest(i) ==
  /\ i \in Evictable
  /\ \A j \in Evictable : \/ entries[i].last_heard < entries[j].last_heard
                          \/ entries[i].last_heard = entries[j].last_heard /\ i <= j

\* get_or_create_entry_locked() and apply_basic_packet()
PutEntry(n, t) ==
  LET e == [num |-> n, last_heard |-> t]
  IN  \/ \E i \in Find(n) : entries' = [entries EXCEPT ![i] = e] /\ UNCHANGED entry_count
      \/ /\ Find(n) = {} /\ entry_count < MaxNodes
         /\ entries' = [entries EXCEPT ![entry_count] = e]
         /\ entry_count' = entry_count + 1
      \/ /\ Find(n) = {} /\ entry_count = MaxNodes
         /\ \E i \in Evictable : Oldest(i) /\ entries' = [entries EXCEPT ![i] = e]
         /\ UNCHANGED entry_count
      \/ /\ Find(n) = {} /\ entry_count = MaxNodes /\ Evictable = {}
         /\ UNCHANGED <<entries, entry_count>>

\* meshtastic_module_nodedb_on_packet() in a thread that nothing interrupts.  A
\* packet of the local node is ignored.  Time may have passed since the last one.
NodeDbOnPacket(n) ==
  \/ /\ n # Local
     /\ \E t \in uptime .. MaxUptime :
          /\ PutEntry(n, t)
          /\ uptime' = t
          /\ last' = [last EXCEPT ![n] = t]
     /\ UNCHANGED <<now_sec, lag>>
  \/ /\ n = Local
     /\ UNCHANGED nodeDbVars

\* The same handler in a thread that may be interrupted: the clock is read ...
NodeDbReadsClock ==
  /\ now_sec = -1
  /\ \E t \in uptime .. MaxUptime : uptime' = t /\ now_sec' = t
  /\ UNCHANGED <<entries, entry_count, last, lag>>

Lateness == uptime - now_sec

\* ... and the entry of a node other than the local one is updated.
NodeDbRecords(n) ==
  /\ now_sec # -1 /\ n # Local
  /\ PutEntry(n, now_sec)
  /\ last' = [last EXCEPT ![n] = now_sec]
  /\ lag' = IF Lateness > lag THEN Lateness ELSE lag
  /\ now_sec' = -1
  /\ UNCHANGED uptime

NodeDbNext ==
  \/ NodeDbReadsClock
  \/ \E n \in Node : NodeDbOnPacket(n) \/ NodeDbRecords(n)

NodeDbSpec == NodeDbInit /\ [][NodeDbNext]_nodeDbVars

-----------------------------------------------------------------------------
(* Properties *)

\* The types of the table, the clock and the history.
NodeDbTypeOK ==
  /\ entries \in [Slot -> Entry] /\ entry_count \in 1 .. MaxNodes
  /\ uptime \in 0 .. MaxUptime /\ now_sec \in -1 .. uptime
  /\ last \in [Node -> -1 .. uptime] /\ lag \in 0 .. MaxUptime

(* Packets of more nodes than there are entries, handled by two threads, leave
   the table consistent: the local node is never evicted, no node has two
   entries, an entry holds the time recorded for the node's last packet, and a
   node that was heard but has no entry was heard no later than any node that
   has one, but for the time that a packet waited for the lock. *)
NodeDbKeepsRecent ==
  /\ entries[0].num = Local
  /\ \A i, j \in Used : entries[i].num = entries[j].num => i = j
  /\ \A i \in Used \ {0} :
       /\ entries[i].last_heard = last[entries[i].num]
       /\ \A n \in Node \ {Local} :
            last[n] # -1 /\ Find(n) = {} => last[n] <= entries[i].last_heard + lag
=============================================================================
