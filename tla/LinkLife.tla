------------------------------- MODULE LinkLife -------------------------------
(***************************************************************************)
(* The life of the link between the AP and one node, as far as the packet  *)
(* exchange of SyncLink depends on it: the radio connection, what each end *)
(* knows of it, and which ends may exchange packets.  Connections, with    *)
(* scanning, discovery and their failures, implements it for each node.    *)
(***************************************************************************)

VARIABLES
  up,    \* the radio connection exists
  conn,  \* con_handle is valid, at each end
  state  \* comm.state: "DATA", or "IDLE" for every state before it

vars == <<up, conn, state>>

End == {"ap", "node"}

Init ==
  /\ up = FALSE
  /\ conn  = [e \in End |-> FALSE]
  /\ state = [e \in End |-> "IDLE"]

\* The AP found the advertising node: ATT_EVENT_CONNECTED at the node, and the
\* connection complete event at the AP, which then looks for the service.
Connect ==
  /\ ~up /\ ~conn["ap"] /\ ~conn["node"]
  /\ up' = TRUE
  /\ conn' = [e \in End |-> TRUE]
  /\ UNCHANGED state

\* The AP's write to the node's characteristic configuration.
Subscribe ==
  /\ up /\ conn["node"] /\ conn["ap"]
  /\ state["node"] = "IDLE" /\ state["ap"] = "IDLE"
  /\ state' = [state EXCEPT !["node"] = "DATA"]
  /\ UNCHANGED <<up, conn>>

\* The response to it reaches the AP.
Subscribed ==
  /\ up /\ conn["ap"]
  /\ state["ap"] = "IDLE" /\ state["node"] = "DATA"
  /\ state' = [state EXCEPT !["ap"] = "DATA"]
  /\ UNCHANGED <<up, conn>>

LinkLoss ==
  /\ up
  /\ up' = FALSE
  /\ UNCHANGED <<conn, state>>

\* The disconnection event, at each end in its own time: init_client, init_server.
Disconnected(e) ==
  /\ conn[e] /\ ~up
  /\ conn' = [conn EXCEPT ![e] = FALSE]
  /\ state' = [state EXCEPT ![e] = "IDLE"]
  /\ UNCHANGED up

\* One end restarts, or is switched off; the other one notices when its
\* connection times out.
Reboot(e) ==
  /\ up' = FALSE
  /\ conn' = [conn EXCEPT ![e] = FALSE]
  /\ state' = [state EXCEPT ![e] = "IDLE"]

Next ==
  \/ Connect
  \/ Subscribe
  \/ Subscribed
  \/ LinkLoss
  \/ \E e \in End : Disconnected(e) \/ Reboot(e)

Spec == Init /\ [][Next]_vars

=============================================================================
