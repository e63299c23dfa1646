----------------------------- MODULE Connections -----------------------------
(***************************************************************************)
(* How the AP and its nodes find each other and part again: the client of  *)
(* ble_client.c, which scans, connects and discovers the service of two    *)
(* nodes; the server of ble_server.c, which advertises until connected;    *)
(* and what starts and stops the units: the poll timer of core0.c, the     *)
(* firmware download of tcp_server.c, and a node that gives up without AP. *)
(*                                                                         *)
(* An event of the stack is a step of the end that handles it.  What is on *)
(* its way when the radio connection drops is lost, as in SyncLink; that   *)
(* a connection was made, and is gone, always reaches both ends.  Times    *)
(* (1 s, 30 s, 10 min) are choices: a step that needs an amount of time    *)
(* may come as soon as what it measures holds.                             *)
(***************************************************************************)
EXTENDS Naturals

CONSTANTS Node  \* ble_client_ids

ASSUME NodeAssumption == "ap" \notin Node

VARIABLES
  mode,     \* of each unit, see Modes
  scanning, \* hci_event_handler's static flag, at the AP
  client,   \* ble_clients, at the AP
  made,     \* the AP has not yet handled the connection complete event
  up,       \* the radio connection to each node exists
  server,   \* ble_server, at each node
  ap_connected \* kbd_system.ap_connected, at each node

vars == <<mode, scanning, client, made, up, server, ap_connected>>

Unit == {"ap"} \cup Node

\* A unit with "wifi" takes firmware; with firmware_downloading set neither its
\* poll timer nor core1 runs, but the stacks do.
Modes == {"off", "on", "wifi", "download"}
Polls(u) == mode[u] \in {"on", "wifi"}
Alive(u) == mode[u] # "off"

Discovering == {"SERVICE", "RX", "TX", "NOTIFY"}

\* ble_client_t: con_handle is invalid, valid, or what a failed connection left there.
Client ==
       [con : {"none"},  state : {"IDLE", "CONNECT"}]
  \cup [con : {"valid"}, state : {"IDLE", "DATA"} \cup Discovering]
  \cup [con : {"wrong"}, state : {"SERVICE"}]

\* init_client, init_server
InitClient == [con |-> "none", state |-> "IDLE"]
InitServer == [con |-> FALSE, state |-> "IDLE"]

Init ==
  /\ mode = [u \in Unit |-> "off"]
  /\ scanning = FALSE
  /\ client = [n \in Node |-> InitClient]
  /\ made = [n \in Node |-> FALSE]
  /\ up = [n \in Node |-> FALSE]
  /\ server = [n \in Node |-> InitServer]
  /\ ap_connected = [n \in Node |-> FALSE]

-----------------------------------------------------------------------------
(* The AP: hci_event_handler and gatt_event_handler of ble_client.c *)

Advertising(n) == Alive(n) /\ ~server[n].con

AllConnected == \A n \in Node : client[n].con # "none"

\* GAP_EVENT_ADVERTISING_REPORT with the name and the id of a node.
AdvReport(n) ==
  /\ Alive("ap") /\ scanning /\ Advertising(n)
  /\ client[n].con = "none"
  /\ client' = [client EXCEPT ![n].state = "CONNECT"]
  /\ UNCHANGED <<mode, scanning, made, up, server, ap_connected>>

\* The controllers connect.  The node hears of it first: ATT_EVENT_CONNECTED.
Connect(n) ==
  /\ client[n] = [con |-> "none", state |-> "CONNECT"]
  /\ Advertising(n)
  /\ ~made[n]
  /\ made' = [made EXCEPT ![n] = TRUE]
  /\ up' = [up EXCEPT ![n] = TRUE]
  /\ server' = [server EXCEPT ![n].con = TRUE]
  /\ UNCHANGED <<mode, scanning, client, ap_connected>>

\* The connection complete event, with the handle it carries.
Complete(n, handle) ==
  IF client[n].state = "CONNECT"
  THEN /\ scanning' = (scanning /\ ~AllConnected)
       /\ client' = [client EXCEPT ![n] = [con |-> handle, state |-> "SERVICE"]]
  ELSE UNCHANGED <<scanning, client>>

Connected(n) ==
  /\ made[n]
  /\ made' = [made EXCEPT ![n] = FALSE]
  /\ Complete(n, "valid")
  /\ UNCHANGED <<mode, up, server, ap_connected>>

\* The same event says that connecting failed; its status is not looked at.
ConnectFails(n) ==
  /\ client[n] = [con |-> "none", state |-> "CONNECT"]
  /\ ~made[n]
  /\ Complete(n, "wrong")
  /\ UNCHANGED <<mode, made, up, server, ap_connected>>

\* What follows a successful query, up to the write that enables notifications.
NextQuery == [SERVICE |-> "RX", RX |-> "TX", TX |-> "NOTIFY", NOTIFY |-> "DATA"]

\* GATT_EVENT_QUERY_COMPLETE.  The last one answers the write, so it comes after it.
QueryComplete(n) ==
  /\ up[n] /\ client[n].con = "valid" /\ client[n].state \in Discovering
  /\ client[n].state = "NOTIFY" => server[n].state = "DATA"
  /\ client' = [client EXCEPT ![n].state = NextQuery[@]]
  /\ UNCHANGED <<mode, scanning, made, up, server, ap_connected>>

\* The same with an error, also because the connection is gone: gap_disconnect.
QueryFails(n) ==
  /\ client[n].con = "valid" /\ client[n].state \in Discovering
  /\ client' = [client EXCEPT ![n].state = "IDLE"]
  /\ UNCHANGED <<mode, scanning, made, up, server, ap_connected>>

\* The connection ends that the AP asked to end.
HangUp(n) ==
  /\ up[n] /\ client[n] = [con |-> "valid", state |-> "IDLE"]
  /\ up' = [up EXCEPT ![n] = FALSE]
  /\ UNCHANGED <<mode, scanning, client, made, server, ap_connected>>

\* Faulty variants: the handle is kept, or the state.
ApDisconnectedHandle(n) ==
  /\ ~up[n] /\ ~made[n] /\ client[n].con = "valid" /\ client[n].state # "IDLE"
  /\ client' = [client EXCEPT ![n].state = "IDLE"]
  /\ scanning' = TRUE
  /\ UNCHANGED <<mode, made, up, server, ap_connected>>
ApDisconnectedState(n) ==
  /\ ~up[n] /\ ~made[n] /\ client[n].con = "valid"
  /\ client' = [client EXCEPT ![n].con = "none"]
  /\ scanning' = TRUE
  /\ UNCHANGED <<mode, made, up, server, ap_connected>>

\* HCI_EVENT_DISCONNECTION_COMPLETE finds the client by its handle.
ApDisconnected(n) ==
  /\ ~up[n] /\ ~made[n] /\ client[n].con = "valid"
  /\ client' = [client EXCEPT ![n] = InitClient]
  /\ scanning' = TRUE
  /\ UNCHANGED <<mode, made, up, server, ap_connected>>

-----------------------------------------------------------------------------
(* The node: att_write_callback and att_packet_handler of ble_server.c *)

\* The AP's write to the characteristic configuration.
Subscribe(n) ==
  /\ up[n] /\ client[n] = [con |-> "valid", state |-> "NOTIFY"]
  /\ server[n] = [con |-> TRUE, state |-> "IDLE"]
  /\ server' = [server EXCEPT ![n].state = "DATA"]
  /\ UNCHANGED <<mode, scanning, client, made, up, ap_connected>>

\* Faulty variant: the state is kept.
NodeDisconnectedKeeping(n) ==
  /\ ~up[n] /\ server[n].con
  /\ server' = [server EXCEPT ![n].con = FALSE]
  /\ UNCHANGED <<mode, scanning, client, made, up, ap_connected>>

\* ATT_EVENT_DISCONNECTED: advertise again.
NodeDisconnected(n) ==
  /\ ~up[n] /\ server[n].con
  /\ server' = [server EXCEPT ![n] = InitServer]
  /\ UNCHANGED <<mode, scanning, client, made, up, ap_connected>>

\* System state can come from the AP: the packet exchange runs at both ends.
InContact(n) ==
  up[n] /\ client[n].state = "DATA" /\ server[n].state = "DATA"
  /\ Polls("ap") /\ Polls(n)

\* core1: state came within the last second, or did not.
SeeAp(n) ==
  /\ Polls(n)
  /\ ~ap_connected[n] /\ InContact(n)
  /\ ap_connected' = [ap_connected EXCEPT ![n] = TRUE]
  /\ UNCHANGED <<mode, scanning, client, made, up, server>>

MissAp(n) ==
  /\ Polls(n)
  /\ ap_connected[n] /\ ~InContact(n)
  /\ ap_connected' = [ap_connected EXCEPT ![n] = FALSE]
  /\ UNCHANGED <<mode, scanning, client, made, up, server>>

-----------------------------------------------------------------------------
(* Starting and stopping *)

\* From one moment to the next everything a unit knows of the others is gone.
Forget(u) ==
  /\ up' = [n \in Node |-> up[n] /\ u \notin {"ap", n}]
  /\ made' = [n \in Node |-> made[n] /\ u # "ap"]
  /\ client' = IF u = "ap" THEN [n \in Node |-> InitClient] ELSE client
  /\ server' = [n \in Node |-> IF n = u THEN InitServer ELSE server[n]]
  /\ ap_connected' = [n \in Node |-> ap_connected[n] /\ n # u]

AccessPoint == mode["ap"] \in {"wifi", "download"}

\* A node with a key pressed at startup joins the AP's network, or stops.
Started(n, key) ==
  IF ~key THEN "on" ELSE IF AccessPoint THEN "wifi" ELSE "off"

\* The AP always opens its network; its stack starts scanning.
StartAp ==
  /\ Forget("ap")
  /\ mode' = [mode EXCEPT !["ap"] = "wifi"]
  /\ scanning' = TRUE

StartNode(n) ==
  /\ Forget(n)
  /\ \E key \in BOOLEAN : mode' = [mode EXCEPT ![n] = Started(n, key)]
  /\ UNCHANGED scanning

Start(u) == IF u = "ap" THEN StartAp ELSE StartNode(u)

\* stop_system, or the user's switch.
Stop(u) ==
  /\ Forget(u)
  /\ mode' = [mode EXCEPT ![u] = "off"]
  /\ scanning' = (scanning /\ u # "ap")

\* The user switches a unit on, off, or off and on.
Switch(u) == Start(u) \/ (Alive(u) /\ Stop(u))

\* Faulty variant: a node that has a connection does not give up.
LongLostUnconnected(n) == ~ap_connected[n] /\ ~server[n].con

\* is_ap_long_lost, after 30 s.
LongLost(n) == ~ap_connected[n]

\* The poll handler of a node ends the run loop.
GiveUp(n) == Polls(n) /\ LongLost(n) /\ Stop(n)

\* wifi_task, after ten minutes.
WifiEnds(u) ==
  /\ mode[u] = "wifi"
  /\ mode' = [mode EXCEPT ![u] = "on"]
  /\ UNCHANGED <<scanning, client, made, up, server, ap_connected>>

\* tcp_server_recv, 0x01: the poll timer is not added again, core1 returns.
StartDownload(u) ==
  /\ mode[u] = "wifi" /\ AccessPoint
  /\ mode' = [mode EXCEPT ![u] = "download"]
  /\ UNCHANGED <<scanning, client, made, up, server, ap_connected>>

\* 0x03 and the answer to it: pfb_perform_update restarts the unit.
FinishDownload(u) == mode[u] = "download" /\ AccessPoint /\ Start(u)

LinkLoss(n) ==
  /\ up[n]
  /\ up' = [up EXCEPT ![n] = FALSE]
  /\ UNCHANGED <<mode, scanning, client, made, server, ap_connected>>

-----------------------------------------------------------------------------
Event(n) ==
  \/ AdvReport(n) \/ Connect(n) \/ Connected(n)
  \/ QueryComplete(n) \/ HangUp(n) \/ ApDisconnected(n)
  \/ Subscribe(n) \/ NodeDisconnected(n)

Next ==
  \/ \E n \in Node :
       \/ Event(n) \/ ConnectFails(n) \/ QueryFails(n) \/ LinkLoss(n)
       \/ SeeAp(n) \/ MissAp(n) \/ GiveUp(n)
  \/ \E u \in Unit :
       Switch(u) \/ WifiEnds(u) \/ StartDownload(u) \/ FinishDownload(u)

Spec == Init /\ [][Next]_vars

\* The stacks deliver their events, and an advertising node is found while the AP
\* scans; the loops of both cores run.  Nothing makes a connection fail or hold,
\* a user act, or a download proceed.  When a node loses its patience is left open.
Fairness ==
  \A n \in Node :
    /\ WF_vars(AdvReport(n)) /\ WF_vars(Connect(n)) /\ WF_vars(Connected(n))
    /\ WF_vars(QueryComplete(n)) /\ WF_vars(HangUp(n)) /\ WF_vars(ApDisconnected(n))
    /\ WF_vars(Subscribe(n)) /\ WF_vars(NodeDisconnected(n))
    /\ WF_vars(SeeAp(n)) /\ WF_vars(MissAp(n))

FairSpec == Spec /\ Fairness

-----------------------------------------------------------------------------
\* The values the variables range over.
TypeOK ==
  /\ mode \in [Unit -> Modes]
  /\ scanning \in BOOLEAN
  /\ client \in [Node -> Client]
  /\ made \in [Node -> BOOLEAN]
  /\ up \in [Node -> BOOLEAN]
  /\ server \in [Node -> [con : BOOLEAN, state : {"IDLE", "DATA"}]]
  /\ ap_connected \in [Node -> BOOLEAN]

LifeOf(n) == INSTANCE LinkLife WITH
  up    <- up[n],
  conn  <- [e \in {"ap", "node"} |->
              IF e = "node" THEN server[n].con
              ELSE made[n] \/ client[n].con = "valid"],
  state <- [e \in {"ap", "node"} |->
              IF e = "node" THEN server[n].state
              ELSE IF client[n].state = "DATA" THEN "DATA" ELSE "IDLE"]

\* Scanning, discovery and their failures, for two nodes at once and through
\* restarts, downloads and power-downs of any unit, add up to the life of a link
\* that SyncLink takes for granted: the AP exchanges packets only with a node that
\* does, within one connection, and no end connects before both have let go.
ImplementsLink ==
  /\ \A n \in Node : LifeOf(n)!Init
  /\ [][\A n \in Node : [LifeOf(n)!Next]_(LifeOf(n)!vars)]_vars

\* What sets the procedure back; ConnectFails is not among it.
Interrupted(n) == LinkLoss(n) \/ QueryFails(n) \/ Start("ap") \/ Start(n)

\* While its patience lasts, a node is connected and served in the end, whatever state
\* an interruption found either end in, be the AP stuck in a download or not.  Only when
\* the connection could not be made, which ble_client.c:297 does not notice, it is not.
Served ==
  \A n \in Node :
    <>[](Alive("ap") /\ Polls(n) /\ client[n].con # "wrong") =>
      \/ <>[](client[n].state = "DATA" /\ server[n].state = "DATA")
      \/ []<><<Interrupted(n)>>_vars

\* core0.c:301: with its patience of 30 s, no node stays on without hearing of the AP,
\* be the AP off, stuck in a download with its links up, or deaf to this node.
PowersDown ==
  \A n \in Node : WF_vars(GiveUp(n)) => []<>(~Polls(n) \/ InContact(n))

=============================================================================
