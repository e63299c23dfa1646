-------------------------- MODULE SyncLinkRefinement --------------------------
(***************************************************************************)
(* SyncLink implements PacketPipe: what is under way to an end is what its *)
(* peer has produced and it has not yet consumed, wherever it is.          *)
(***************************************************************************)
EXTENDS SyncLink

DataOf(packets) == [i \in DOMAIN packets |-> packets[i].data]

UnderWay(e) ==
  DataOf((IF state[e] = "DATA" THEN comm[e].recv ELSE <<>>)
         \o chan[e]
         \o (IF up /\ state[Peer(e)] = "DATA" THEN comm[Peer(e)].send ELSE <<>>))

\* The end whose sequence number is ahead; an end out of DATA has sent nothing yet.
Number(e) == IF state[e] = "DATA" THEN comm[e].x ELSE 0
Ahead ==
  IF ~(up /\ state["node"] = "DATA") \/ Number("ap") = Number("node") THEN "none"
  ELSE IF Number("ap") = Succ(Number("node")) THEN "ap" ELSE "node"

Pipe == INSTANCE PacketPipe WITH
  linked <- up /\ state["node"] = "DATA",
  open   <- [e \in End |-> state[e] = "DATA"],
  ahead  <- Ahead,
  pipe   <- [e \in End |-> UnderWay(e)]

\* Numbering, queueing and the can-send events of the BLE stack add up to the
\* pipe: nothing lost, duplicated or reordered within a connection.
ImplementsPipe == Pipe!Spec

=============================================================================
