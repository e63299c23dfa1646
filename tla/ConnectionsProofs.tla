--------------------------- MODULE ConnectionsProofs ---------------------------
(***************************************************************************)
(* The connection procedure keeps to the life of a link, for any nodes.    *)
(***************************************************************************)
EXTENDS Connections, TLAPS

-----------------------------------------------------------------------------
(* Types *)

ServerState == [con : BOOLEAN, state : {"IDLE", "DATA"}]

LEMMA ClientTyped ==
  ASSUME NEW c \in Client
  PROVE  /\ c = [con |-> c.con, state |-> c.state]
         /\ \/ c.con = "none"  /\ c.state \in {"IDLE", "CONNECT"}
            \/ c.con = "valid" /\ c.state \in {"IDLE", "DATA"} \cup Discovering
            \/ c.con = "wrong" /\ c.state = "SERVICE"
BY DEF Client

LEMMA ClientSet ==
  ASSUME NEW c \in Client, NEW s
  PROVE  [c EXCEPT !.state = s] = [con |-> c.con, state |-> s]
<1>1. PICK a, b : c = [con |-> a, state |-> b]
  BY ClientTyped
<1> QED
  BY <1>1

LEMMA ClientMade ==
  /\ InitClient \in Client /\ InitClient.con = "none" /\ InitClient.state = "IDLE"
  /\ [con |-> "none", state |-> "CONNECT"] \in Client
  /\ \A s \in {"IDLE", "DATA"} \cup Discovering : [con |-> "valid", state |-> s] \in Client
  /\ [con |-> "wrong", state |-> "SERVICE"] \in Client
BY DEF Client, InitClient

LEMMA NextQueries ==
  \A s \in Discovering :
    /\ NextQuery[s] \in {"DATA"} \cup Discovering
    /\ NextQuery[s] = "DATA" <=> s = "NOTIFY"
BY DEF NextQuery, Discovering

LEMMA TypeStep ==
  ASSUME TypeOK, [Next]_vars
  PROVE  TypeOK'
<1> USE NodeAssumption DEF TypeOK
<1>1. ASSUME NEW n \in Node, NEW c \in Client, client' = [client EXCEPT ![n] = c],
             scanning' \in BOOLEAN, UNCHANGED <<mode, made, up, server, ap_connected>>
      PROVE  TypeOK'
  BY <1>1
<1>2. ASSUME NEW n \in Node, AdvReport(n)
      PROVE  TypeOK'
  <2> DEFINE c == [con |-> "none", state |-> "CONNECT"]
  <2>1. c \in Client
    BY ClientMade
  <2>2. [client[n] EXCEPT !.state = "CONNECT"] = c
    BY <1>2, ClientSet DEF AdvReport
  <2>3. client' = [client EXCEPT ![n] = c]
    BY <1>2, <2>2 DEF AdvReport
  <2> HIDE DEF c
  <2> QED
    BY <1>1, <1>2, <2>1, <2>3 DEF AdvReport
<1>3. ASSUME NEW n \in Node, Connect(n)
      PROVE  TypeOK'
  BY <1>3 DEF Connect
<1>4. ASSUME NEW n \in Node, NEW handle \in {"valid", "wrong"}, Complete(n, handle),
             made' \in [Node -> BOOLEAN], UNCHANGED <<mode, up, server, ap_connected>>
      PROVE  TypeOK'
  <2>1. [con |-> handle, state |-> "SERVICE"] \in Client
    BY ClientMade DEF Discovering
  <2> QED
    BY <1>4, <2>1 DEF Complete
<1>5. ASSUME NEW n \in Node, Connected(n) \/ ConnectFails(n)
      PROVE  TypeOK'
  BY <1>4, <1>5 DEF Connected, ConnectFails
<1>6. ASSUME NEW n \in Node, NEW s \in {"IDLE", "DATA"} \cup Discovering,
             client[n].con = "valid", client' = [client EXCEPT ![n].state = s],
             UNCHANGED <<mode, scanning, made, up, server, ap_connected>>
      PROVE  TypeOK'
  <2> DEFINE c == [con |-> "valid", state |-> s]
  <2>1. c \in Client
    BY ClientMade
  <2>2. [client[n] EXCEPT !.state = s] = c
    BY <1>6, ClientSet
  <2>3. client' = [client EXCEPT ![n] = c]
    BY <1>6, <2>2
  <2> HIDE DEF c
  <2> QED
    BY <1>1, <1>6, <2>1, <2>3
<1>7. ASSUME NEW n \in Node, QueryComplete(n)
      PROVE  TypeOK'
  <2>1. NextQuery[client[n].state] \in {"IDLE", "DATA"} \cup Discovering
    BY <1>7, NextQueries DEF QueryComplete
  <2>2. /\ client[n].con = "valid"
        /\ client' = [client EXCEPT ![n].state = NextQuery[client[n].state]]
        /\ UNCHANGED <<mode, scanning, made, up, server, ap_connected>>
    BY <1>7 DEF QueryComplete
  <2> QED
    BY <1>6, <2>1, <2>2
<1>8. ASSUME NEW n \in Node, QueryFails(n)
      PROVE  TypeOK'
  BY <1>6, <1>8 DEF QueryFails
<1>9. ASSUME NEW n \in Node, HangUp(n) \/ LinkLoss(n) \/ SeeAp(n) \/ MissAp(n)
      PROVE  TypeOK'
  BY <1>9 DEF HangUp, LinkLoss, SeeAp, MissAp
<1>10. ASSUME NEW n \in Node, ApDisconnected(n)
       PROVE  TypeOK'
  BY <1>1, <1>10, ClientMade DEF ApDisconnected
<1>11. ASSUME NEW n \in Node, Subscribe(n) \/ NodeDisconnected(n)
       PROVE  TypeOK'
  <2>1. CASE Subscribe(n)
    BY <2>1 DEF Subscribe
  <2>2. CASE NodeDisconnected(n)
    <3>1. InitServer \in [con : BOOLEAN, state : {"IDLE", "DATA"}]
      BY DEF InitServer
    <3> QED
      BY <2>2, <3>1 DEF NodeDisconnected
  <2> QED
    BY <1>11, <2>1, <2>2
<1>12. ASSUME NEW u \in Unit, Forget(u), mode' \in [Unit -> Modes], scanning' \in BOOLEAN
       PROVE  TypeOK'
  <2>1. client' \in [Node -> Client]
    BY <1>12, ClientMade DEF Forget
  <2>2. server' \in [Node -> [con : BOOLEAN, state : {"IDLE", "DATA"}]]
    BY <1>12 DEF Forget, InitServer
  <2>3. /\ up' \in [Node -> BOOLEAN] /\ made' \in [Node -> BOOLEAN]
        /\ ap_connected' \in [Node -> BOOLEAN]
    BY <1>12 DEF Forget
  <2> QED
    BY <1>12, <2>1, <2>2, <2>3
<1>13. ASSUME NEW u \in Unit, Start(u)
       PROVE  TypeOK'
  BY <1>12, <1>13 DEF Start, StartAp, StartNode, Started, Modes
<1>14. ASSUME NEW u \in Unit, Stop(u)
       PROVE  TypeOK'
  BY <1>12, <1>14 DEF Stop, Modes
<1>15. ASSUME NEW u \in Unit, WifiEnds(u) \/ StartDownload(u)
       PROVE  TypeOK'
  BY <1>15 DEF WifiEnds, StartDownload, Modes
<1>16. CASE UNCHANGED vars
  BY <1>16 DEF vars
<1>17. Node \subseteq Unit
  BY DEF Unit
<1>18. ASSUME NEW n \in Node, Event(n)
       PROVE  TypeOK'
  BY <1>2, <1>3, <1>5, <1>7, <1>9, <1>10, <1>11, <1>18 DEF Event
<1>19. ASSUME NEW n \in Node, GiveUp(n)
       PROVE  TypeOK'
  BY <1>14, <1>17, <1>19 DEF GiveUp
<1>20. ASSUME NEW u \in Unit, Switch(u) \/ FinishDownload(u)
       PROVE  TypeOK'
  BY <1>13, <1>14, <1>20 DEF Switch, FinishDownload
<1> QED
  BY <1>5, <1>8, <1>9, <1>15, <1>16, <1>18, <1>19, <1>20 DEF Next

LEMMA TypeInit == Init => TypeOK
<1> SUFFICES ASSUME Init PROVE TypeOK
  OBVIOUS
<1>1. "off" \in Modes /\ InitClient \in Client
  BY ClientMade DEF Modes
<1>2. InitServer \in [con : BOOLEAN, state : {"IDLE", "DATA"}]
  BY DEF InitServer
<1> QED
  BY <1>1, <1>2 DEF Init, TypeOK

\* Every unit, client and server keeps to the states it has.
THEOREM TypeCorrect == Spec => []TypeOK
BY TypeInit, TypeStep, PTL DEF Spec

-----------------------------------------------------------------------------
(* The life of a link *)

\* What the AP has of a connection, and that it exchanges packets over it.
ApConn(n) == made[n] \/ client[n].con = "valid"
ApData(n) == client[n].state = "DATA"

\* A connection is at both ends until they hear that it is gone, the AP's handle
\* waiting in its event; and data at the AP was answered by data at the node.
Linked(n) ==
  /\ made[n] => (client[n].con = "none" /\ client[n].state = "CONNECT")
  /\ up[n] => (server[n].con /\ ApConn(n))
  /\ (up[n] /\ ApData(n)) => server[n].state = "DATA"

Inv == TypeOK /\ (\A n \in Node : Linked(n))

\* A step of the link of n, or none.
LifeStep(n) == [LifeOf(n)!Next]_(LifeOf(n)!vars)

\* What the link of n is made of stays.
Still(n) ==
  /\ up'[n] = up[n] /\ server'[n] = server[n]
  /\ made'[n] = made[n] /\ client'[n] = client[n]

LEMMA StillStutters ==
  ASSUME NEW n \in Node, Linked(n), Still(n)
  PROVE  LifeStep(n) /\ Linked(n)'
BY DEF Still, LifeStep, Linked, ApConn, ApData, LifeOf!vars

\* A step of the procedure with another node leaves the link alone.
LEMMA Elsewhere ==
  ASSUME TypeOK, NEW m \in Node, NEW n \in Node \ {m},
         \/ Event(m) \/ ConnectFails(m) \/ QueryFails(m) \/ LinkLoss(m)
         \/ SeeAp(m) \/ MissAp(m)
  PROVE  Still(n)
<1> USE DEF TypeOK, Still
<1>1. CASE AdvReport(m) \/ QueryComplete(m) \/ QueryFails(m) \/ ApDisconnected(m)
  BY <1>1 DEF AdvReport, QueryComplete, QueryFails, ApDisconnected
<1>2. CASE Connect(m) \/ HangUp(m) \/ LinkLoss(m)
  BY <1>2 DEF Connect, HangUp, LinkLoss
<1>3. CASE Connected(m) \/ ConnectFails(m)
  BY <1>3 DEF Connected, ConnectFails, Complete
<1>4. CASE Subscribe(m) \/ NodeDisconnected(m)
  BY <1>4 DEF Subscribe, NodeDisconnected
<1>5. CASE SeeAp(m) \/ MissAp(m)
  BY <1>5 DEF SeeAp, MissAp
<1> QED
  BY <1>1, <1>2, <1>3, <1>4, <1>5 DEF Event

\* One step of the procedure with n is one of its link: what each does to it.
LEMMA Here ==
  ASSUME TypeOK, NEW n \in Node, Linked(n),
         \/ Event(n) \/ ConnectFails(n) \/ QueryFails(n) \/ LinkLoss(n)
         \/ SeeAp(n) \/ MissAp(n)
  PROVE  LifeStep(n) /\ Linked(n)'
<1> USE DEF TypeOK, Linked, ApConn, ApData
<1>s. ASSUME up'[n] = up[n], server'[n] = server[n],
             ApConn(n)' <=> ApConn(n), ApData(n)' <=> ApData(n)
      PROVE  LifeStep(n)
  BY <1>s DEF LifeStep, LifeOf!vars
<1>1. CASE AdvReport(n)
  <2>1. client'[n].con = client[n].con /\ client'[n].state = "CONNECT"
    BY <1>1, ClientSet DEF AdvReport
  <2>2. ~up[n] /\ client[n].con = "none" /\ ~ApData(n)
    BY <1>1, ClientTyped DEF AdvReport, Advertising
  <2> QED
    BY <1>1, <1>s, <2>1, <2>2 DEF AdvReport
<1>2. CASE Connect(n)
  <2>1. ~up[n] /\ ~server[n].con /\ client[n].con = "none" /\ ~made[n]
    BY <1>2 DEF Connect, Advertising
  <2>2. /\ up'[n] = TRUE /\ made'[n] = TRUE /\ client'[n] = client[n]
        /\ server'[n].con = TRUE /\ server'[n].state = server[n].state
    BY <1>2 DEF Connect
  <2>3. LifeOf(n)!Connect
    BY <2>1, <2>2 DEF LifeOf!Connect, LifeOf!End
  <2>4. client[n].state = "CONNECT"
    BY <1>2 DEF Connect
  <2> QED
    BY <2>1, <2>2, <2>3, <2>4 DEF LifeStep, LifeOf!Next
<1>3. CASE Connected(n)
  <2>1. client[n].con = "none" /\ client[n].state = "CONNECT" /\ made[n]
    BY <1>3 DEF Connected
  <2>2. client'[n] = [con |-> "valid", state |-> "SERVICE"] /\ made'[n] = FALSE
    BY <1>3, <2>1 DEF Connected, Complete
  <2> QED
    BY <1>3, <1>s, <2>1, <2>2 DEF Connected
<1>4. CASE ConnectFails(n)
  <2>1. client[n].con = "none" /\ client[n].state = "CONNECT" /\ ~made[n]
    BY <1>4 DEF ConnectFails
  <2>2. client'[n] = [con |-> "wrong", state |-> "SERVICE"] /\ made'[n] = made[n]
    BY <1>4, <2>1 DEF ConnectFails, Complete
  <2> QED
    BY <1>4, <1>s, <2>1, <2>2 DEF ConnectFails
<1>5. CASE QueryComplete(n)
  <2> DEFINE s == NextQuery[client[n].state]
  <2>1. client'[n].con = "valid" /\ client'[n].state = s
    BY <1>5, ClientSet DEF QueryComplete
  <2>2. /\ up[n] /\ client[n].con = "valid" /\ ~ApData(n)
        /\ (s = "DATA" <=> client[n].state = "NOTIFY")
    BY <1>5, NextQueries DEF QueryComplete, Discovering
  <2>3. /\ up'[n] = up[n] /\ server'[n] = server[n] /\ made'[n] = made[n]
        /\ client[n].state = "NOTIFY" => server[n].state = "DATA"
    BY <1>5 DEF QueryComplete
  <2> HIDE DEF s
  <2>4. CASE s = "DATA"
    <3>1. LifeOf(n)!Subscribed
      BY <2>1, <2>2, <2>3, <2>4 DEF LifeOf!Subscribed
    <3> QED
      BY <2>1, <2>2, <2>3, <2>4, <3>1 DEF LifeStep, LifeOf!Next
  <2>5. CASE s # "DATA"
    BY <1>s, <2>1, <2>2, <2>3, <2>5
  <2> QED
    BY <2>4, <2>5
<1>6. CASE QueryFails(n)
  <2>1. client'[n].con = "valid" /\ client'[n].state = "IDLE"
    BY <1>6, ClientSet DEF QueryFails
  <2>2. client[n].con = "valid" /\ ~ApData(n)
    BY <1>6 DEF QueryFails, Discovering
  <2> QED
    BY <1>6, <1>s, <2>1, <2>2 DEF QueryFails
<1>7. CASE HangUp(n) \/ LinkLoss(n)
  <2>1. /\ up[n] /\ up'[n] = FALSE
        /\ server'[n] = server[n] /\ made'[n] = made[n] /\ client'[n] = client[n]
    BY <1>7 DEF HangUp, LinkLoss
  <2>2. LifeOf(n)!LinkLoss
    BY <2>1 DEF LifeOf!LinkLoss
  <2> QED
    BY <2>1, <2>2 DEF LifeStep, LifeOf!Next
<1>8. CASE ApDisconnected(n)
  <2>1. /\ ~up[n] /\ ~made[n] /\ client[n].con = "valid" /\ client'[n] = InitClient
        /\ up'[n] = up[n] /\ server'[n] = server[n] /\ made'[n] = made[n]
    BY <1>8 DEF ApDisconnected
  <2>2. LifeOf(n)!Disconnected("ap")
    BY <2>1, ClientMade DEF LifeOf!Disconnected
  <2> QED
    BY <2>1, <2>2, ClientMade DEF LifeStep, LifeOf!Next, LifeOf!End
<1>9. CASE Subscribe(n)
  <2>1. /\ up[n] /\ client[n].con = "valid" /\ client[n].state = "NOTIFY"
        /\ server[n].con /\ server[n].state = "IDLE"
    BY <1>9 DEF Subscribe
  <2>2. /\ up'[n] = up[n] /\ made'[n] = made[n] /\ client'[n] = client[n]
        /\ server'[n].con = server[n].con /\ server'[n].state = "DATA"
    BY <1>9 DEF Subscribe
  <2>3. LifeOf(n)!Subscribe
    BY <2>1, <2>2 DEF LifeOf!Subscribe
  <2> QED
    BY <2>1, <2>2, <2>3 DEF LifeStep, LifeOf!Next
<1>10. CASE NodeDisconnected(n)
  <2>1. /\ ~up[n] /\ server[n].con /\ server'[n].con = FALSE /\ server'[n].state = "IDLE"
        /\ up'[n] = up[n] /\ made'[n] = made[n] /\ client'[n] = client[n]
    BY <1>10 DEF NodeDisconnected, InitServer
  <2>2. LifeOf(n)!Disconnected("node")
    BY <2>1 DEF LifeOf!Disconnected
  <2> QED
    BY <2>1, <2>2 DEF LifeStep, LifeOf!Next, LifeOf!End
<1>11. CASE SeeAp(n) \/ MissAp(n)
  BY <1>11, StillStutters DEF SeeAp, MissAp, Still
<1> QED
  BY <1>1, <1>2, <1>3, <1>4, <1>5, <1>6, <1>7, <1>8, <1>9, <1>10, <1>11 DEF Event

\* A unit that forgets cuts its links; the links it has no part in stay.
LEMMA Forgotten ==
  ASSUME TypeOK, NEW n \in Node, Linked(n), NEW u \in Unit, Forget(u)
  PROVE  LifeStep(n) /\ Linked(n)'
<1> USE NodeAssumption DEF TypeOK, Linked, ApConn, ApData
<1>1. CASE u = "ap"
  <2>1. /\ up'[n] = FALSE /\ made'[n] = FALSE
        /\ client'[n] = InitClient /\ server'[n] = server[n]
    BY <1>1 DEF Forget
  <2>2. LifeOf(n)!Reboot("ap")
    BY <2>1, ClientMade DEF LifeOf!Reboot
  <2> QED
    BY <2>1, <2>2, ClientMade DEF LifeStep, LifeOf!Next, LifeOf!End
<1>2. CASE u = n
  <2>1. /\ up'[n] = FALSE /\ made'[n] = made[n] /\ client'[n] = client[n]
        /\ server'[n].con = FALSE /\ server'[n].state = "IDLE"
    BY <1>2 DEF Forget, InitServer
  <2>2. LifeOf(n)!Reboot("node")
    BY <2>1 DEF LifeOf!Reboot
  <2> QED
    BY <2>1, <2>2 DEF LifeStep, LifeOf!Next, LifeOf!End
<1>3. CASE u # "ap" /\ u # n
  BY <1>3, StillStutters DEF Forget, Still
<1> QED
  BY <1>1, <1>2, <1>3

-----------------------------------------------------------------------------
(* What every state and every step have *)

LEMMA LifeNext ==
  ASSUME Inv, [Next]_vars, NEW n \in Node
  PROVE  LifeStep(n) /\ Linked(n)'
<1> USE DEF Inv
<1>1. ASSUME NEW m \in Node,
             \/ Event(m) \/ ConnectFails(m) \/ QueryFails(m) \/ LinkLoss(m)
             \/ SeeAp(m) \/ MissAp(m)
      PROVE  LifeStep(n) /\ Linked(n)'
  <2>1. CASE m = n
    BY <1>1, <2>1, Here
  <2>2. CASE m # n
    BY <1>1, <2>2, Elsewhere, StillStutters
  <2> QED
    BY <2>1, <2>2
<1>2. ASSUME NEW u \in Unit, Switch(u) \/ FinishDownload(u) \/ Stop(u)
      PROVE  LifeStep(n) /\ Linked(n)'
  <2>1. Forget(u)
    BY <1>2 DEF Switch, FinishDownload, Start, StartAp, StartNode, Stop
  <2> QED
    BY <2>1, Forgotten
<1>3. ASSUME NEW u \in Unit, WifiEnds(u) \/ StartDownload(u)
      PROVE  LifeStep(n) /\ Linked(n)'
  BY <1>3, StillStutters DEF WifiEnds, StartDownload, Still
<1>4. ASSUME NEW m \in Node, GiveUp(m)
      PROVE  LifeStep(n) /\ Linked(n)'
  BY <1>2, <1>4 DEF GiveUp, Unit
<1>5. CASE UNCHANGED vars
  BY <1>5, StillStutters DEF vars, Still
<1> QED
  BY <1>1, <1>2, <1>3, <1>4, <1>5 DEF Next

LEMMA LifeInit ==
  ASSUME Init
  PROVE  Inv /\ \A n \in Node : LifeOf(n)!Init
<1>1. Inv
  BY TypeInit, ClientMade DEF Init, Inv, Linked, ApConn, ApData
<1>2. ASSUME NEW n \in Node
      PROVE  LifeOf(n)!Init
  <2>1. /\ up[n] = FALSE /\ made[n] = FALSE /\ client[n] = InitClient
        /\ server[n].con = FALSE /\ server[n].state = "IDLE"
    BY DEF Init, InitServer
  <2> QED
    BY <2>1, ClientMade DEF LifeOf!Init, LifeOf!End
<1> QED
  BY <1>1, <1>2

LEMMA InvAlways == Spec => []Inv
<1>1. Init => Inv
  BY LifeInit
<1>2. Inv /\ [Next]_vars => Inv'
  BY TypeStep, LifeNext DEF Inv
<1> QED
  BY <1>1, <1>2, PTL DEF Spec

\* Scanning, connecting, discovering and parting, with all their failures and with
\* restarts and downloads of any unit in between, is for each node the life of one link.
THEOREM KeepsToLink == Spec => ImplementsLink
<1>1. Init => \A n \in Node : LifeOf(n)!Init
  BY LifeInit
<1>2. Inv /\ [Next]_vars => [\A n \in Node : [LifeOf(n)!Next]_(LifeOf(n)!vars)]_vars
  BY LifeNext DEF LifeStep
<1> QED
  BY <1>1, <1>2, InvAlways, PTL DEF Spec, ImplementsLink

\* While the radio connection lasts, the AP exchanges packets only with a node that does:
\* the write that enabled notifications belongs to this connection, not to an earlier one.
Mutual ==
  \A n \in Node :
    (up[n] /\ client[n].state = "DATA") => server[n] = [con |-> TRUE, state |-> "DATA"]

THEOREM ExchangeIsMutual == Spec => []Mutual
<1>1. Inv => Mutual
  BY DEF Inv, TypeOK, Linked, ApData, Mutual
<1> QED
  BY <1>1, InvAlways, PTL

=============================================================================
