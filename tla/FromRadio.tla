------------------------------ MODULE FromRadio ------------------------------
(***************************************************************************)
(* What a transport promises its phone about the FromRadio stream: one     *)
(* line of frames that are heard in the order they joined it.  Packets and *)
(* reports join it as they come, the frames of a handshake one by one in   *)
(* the handshake's order.  A frame may be lost anywhere in the line, but a *)
(* handshake that loses a frame before others of its own counts as broken. *)
(* A new request, or the end of a connection, drops the rear of the line.  *)
(* Serial.tla and Ble.tla implement it; its names are ones neither of them *)
(* has, so that their proofs can extend the ones about it.                 *)
(***************************************************************************)
EXTENDS Frames

VARIABLES
  line,       \* the frames on their way to the phone, the next one first
  todo,       \* the frames of the handshake that are still to be made
  told,       \* what the phone has heard
  broken,     \* requests whose handshake may have gaps
  count       \* the packets received so far

lineVars == <<line, todo, told, broken, count>>

LineInit ==
  /\ line \in Seq({QueueStatus, Rebooted})
  /\ todo = {} /\ told = Nothing /\ broken = {} /\ count = 0

\* The line with its k-th frame taken out
Without(k) == [i \in 1 .. Len(line) - 1 |-> IF i < k THEN line[i] ELSE line[i + 1]]

Behind(k) == todo \cup {line[j] : j \in k + 1 .. Len(line)}

\* The k-th frame is lost: its handshake is broken if more of it is to come.
Loses(k) ==
  /\ broken \subseteq broken'
  /\ IsConfig(line[k]) /\ (\E f \in Behind(k) : IsConfig(f) /\ f.request = line[k].request)
       => line[k].request \in broken'

\* A frame joins the line; a full queue loses another one for it.
Join(f) ==
  \/ line' = Append(line, f) /\ UNCHANGED broken
  \/ \E k \in 1 .. Len(line) : Loses(k) /\ line' = Append(Without(k), f)

Receive ==
  /\ count' = count + 1
  /\ Join(Packet(count + 1))
  /\ UNCHANGED <<todo, told>>

Report == Join(QueueStatus) /\ UNCHANGED <<todo, told, count>>

Make(f) ==
  /\ \A g \in todo \ {f} : Before(f, g)
  /\ line' = Append(line, f)
  /\ todo' = todo \ {f}
  /\ UNCHANGED <<told, broken, count>>

Lose(k) == Loses(k) /\ line' = Without(k) /\ UNCHANGED <<todo, told, count>>

Hear ==
  /\ line # <<>>
  /\ told' = Hearing(told, Head(line))
  /\ line' = Tail(line)
  /\ UNCHANGED <<todo, broken, count>>

\* want_config: a request newer than any whose frames are still about
Ask(r) ==
  /\ \A i \in 1 .. Len(line) : IsConfig(line[i]) => line[i].request < r
  /\ \A i \in 1 .. Len(told.config) : told.config[i].request < r
  /\ \E n \in 0 .. Len(line) : line' = SubSeq(line, 1, n)
  /\ todo' = Handshake(r)
  /\ UNCHANGED <<told, broken, count>>

\* Another phone: what it finds in the line is what is left of a handshake.
Reset ==
  /\ \E n \in 0 .. Len(line) : line' = SubSeq(line, 1, n)
  /\ todo' = {} /\ told' = Nothing
  /\ broken \subseteq broken'
  /\ \A i \in 1 .. Len(line') : IsConfig(line'[i]) => line'[i].request \in broken'
  /\ UNCHANGED count

LineNext ==
  \/ Receive \/ Report \/ Hear \/ Reset
  \/ \E f \in todo : Make(f)
  \/ \E k \in 1 .. Len(line) : Lose(k)
  \/ \E r \in Request : Ask(r)

LineSpec == LineInit /\ [][LineNext]_lineVars

-----------------------------------------------------------------------------
(* The packets are heard in the order they were received in, none twice. *)
PacketsHeardInOrder ==
  \A i, j \in 1 .. Len(told.packets) : i < j => told.packets[i] < told.packets[j]

(* A handshake is heard from its first frame on, in order and without a gap,
   unless it is a broken one. *)
HandshakeHeardInOrder ==
  LET c == told.config
  IN  c # <<>> /\ c[1].request \notin broken => Begins(c, c[1].request)

(* Within a connection, nothing of an older handshake follows a newer one. *)
NewerFollows ==
  [][told'.config # <<>> /\ told.config # <<>> =>
       told'.config[1].request >= told.config[1].request]_lineVars
=============================================================================
