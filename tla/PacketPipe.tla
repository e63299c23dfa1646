------------------------------ MODULE PacketPipe ------------------------------
(***************************************************************************)
(* What the packet exchange of SyncLink amounts to for its users: the two  *)
(* ends send in turns that may overlap by one payload, none is lost or     *)
(* duplicated while the link holds, and a poll that finds two of them      *)
(* takes the newer one first.  When the link fails, the payloads that did  *)
(* not arrive are lost, the latest ones first.                             *)
(***************************************************************************)
EXTENDS Integers, Sequences, SequencesExt

CONSTANT Payload

VARIABLES
  linked, \* the link holds and the node has opened its end
  open,   \* which ends exchange packets
  ahead,  \* the end that has sent one payload more than its peer, if the link holds
  pipe    \* the payloads under way to each end, oldest first

vars == <<linked, open, ahead, pipe>>

End == {"ap", "node"}
Peer(e) == IF e = "ap" THEN "node" ELSE "ap"

Init ==
  /\ linked = FALSE
  /\ open = [e \in End |-> FALSE]
  /\ ahead = "none"
  /\ pipe = [e \in End |-> <<>>]

\* The node opens its end, and then the AP its own.
Open ==
  /\ ~linked
  /\ \A e \in End : ~open[e]
  /\ linked' = TRUE
  /\ open' = [open EXCEPT !["node"] = TRUE]
  /\ UNCHANGED <<ahead, pipe>>

Join ==
  /\ linked /\ ~open["ap"]
  /\ open' = [open EXCEPT !["ap"] = TRUE]
  /\ UNCHANGED <<linked, ahead, pipe>>

\* What a poll of e that finds n payloads sees, in the order it sees them.
Batch(e, n) == Reverse(SubSeq(pipe[e], 1, n))

\* An end that is not ahead may send, once it has taken all of the peer's payloads but
\* the one by which the peer is ahead.
MaySend(e, left) == ahead # e /\ left <= (IF ahead = Peer(e) THEN 1 ELSE 0)

\* One poll: take n payloads and send at most one, which is lost without a link.
Poll(e, n, sent) ==
  /\ open[e]
  /\ Len(sent) <= 1
  /\ linked /\ sent # <<>> => MaySend(e, Len(pipe[e]) - n)
  /\ ahead' = IF ~linked \/ sent = <<>> THEN ahead
              ELSE IF ahead = "none" THEN e ELSE "none"
  /\ pipe' = [f \in End |->
       IF f = e THEN SubSeq(pipe[e], n + 1, Len(pipe[e]))
       ELSE IF linked THEN pipe[f] \o sent ELSE pipe[f]]
  /\ UNCHANGED <<linked, open>>

\* The payloads that have arrived when the link fails: none at an end that is not open.
Arrived(e) == {SubSeq(pipe[e], 1, n) : n \in 0 .. (IF open[e] THEN Len(pipe[e]) ELSE 0)}

Lose ==
  /\ linked
  /\ linked' = FALSE
  /\ ahead' = "none"
  /\ \E a \in Arrived("ap"), b \in Arrived("node") :
       pipe' = [e \in End |-> IF e = "ap" THEN a ELSE b]
  /\ UNCHANGED open

\* An end notices that the link is gone.
Leave(e) ==
  /\ ~linked /\ open[e]
  /\ open' = [open EXCEPT ![e] = FALSE]
  /\ pipe' = [pipe EXCEPT ![e] = <<>>]
  /\ UNCHANGED <<linked, ahead>>

Reboot(e) ==
  /\ linked' = FALSE
  /\ ahead' = "none"
  /\ open' = [open EXCEPT ![e] = FALSE]
  /\ \E a \in Arrived(Peer(e)) :
       pipe' = [f \in End |-> IF f = e THEN <<>> ELSE a]

Next ==
  \/ Open
  \/ Join
  \/ \E e \in End : \E n \in 0 .. Len(pipe[e]) :
       \E sent \in {<<>>} \cup {<<p>> : p \in Payload} : Poll(e, n, sent)
  \/ Lose
  \/ \E e \in End : Leave(e)
  \/ \E e \in End : Reboot(e)

Spec == Init /\ [][Next]_vars

=============================================================================
