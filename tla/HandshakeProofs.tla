---------------------------- MODULE HandshakeProofs ----------------------------
(***************************************************************************)
(* The link of the handshake: no packet is dropped, with any number of     *)
(* sequence numbers from four on and a queue of two or more.  This follows *)
(* from LinkInv, which says of each direction which packets are under way. *)
(* With it the link implements PacketPipe: a poll takes what was received  *)
(* and adds what it produces, and what the stacks do in between only moves *)
(* packets along.                                                          *)
(*                                                                         *)
(* The handshake uses its link as SyncLink says a link is used, so this    *)
(* holds for it; it keeps to its types; and no data is exchanged while an  *)
(* end keeps some of an old session.                                       *)
(***************************************************************************)
EXTENDS Handshake, SequenceTheorems, TLAPS

-----------------------------------------------------------------------------
(* The invariant *)

\* The sequence number k before n.
Back(n, k) == IF n >= k THEN n - k ELSE n - k + SEQ_SIZE

\* What an end starts a session with, until it has one.
LinkSession(e) == IF state[e] = "DATA" THEN comm[e] ELSE Link!InitComm

\* The packets under way to an end: received, on the radio link, and yet to be sent.
Into(e) == (LinkSession(e).recv \o chan[e]) \o LinkSession(Link!Peer(e)).send

\* One direction: the sender's number x, the receiver's y and x, and the packets under way.
\* The sender is at most one ahead, the packets are the last ones it made, and y is
\* the one before them, or one less when the last poll found two.
Lane(x, y, other, flow) ==
  /\ \/ x = other /\ Len(flow) <= 1
     \/ other = Back(x, 1) /\ Len(flow) <= 2
     \/ x = Back(other, 1) /\ Len(flow) = 0
  /\ \A i \in 1 .. Len(flow) : flow[i].seq = Back(x, Len(flow) - i)
  /\ y \in {Back(x, Len(flow)), Back(x, Len(flow) + 1)}

LaneInto(e) == Lane(LinkSession(Link!Peer(e)).x, LinkSession(e).y, LinkSession(e).x, Into(e))

\* What the events of the connection keep.
LifeInv ==
  /\ \A e \in Link!End : ~conn[e] => state[e] = "IDLE"
  /\ up => /\ conn["ap"] /\ conn["node"]
           /\ state["ap"] = "DATA" => state["node"] = "DATA"
           /\ state["node"] = "IDLE" => comm["node"] = Link!InitComm
  /\ ~up => \A e \in Link!End : chan[e] = <<>>

LinkInv ==
  /\ Link!TypeOK
  /\ LifeInv
  /\ \A e \in Link!End : up => LaneInto(e)
  /\ \A e \in Link!End : state[e] = "DATA" => Len(comm[e].recv) <= 2

-----------------------------------------------------------------------------
(* One direction *)

\* The parts of a flow.
LEMMA FlowParts ==
  ASSUME NEW r \in Seq(Link!Packet), NEW t \in Seq(Link!Packet)
  PROVE  /\ r \o t \in Seq(Link!Packet)
         /\ Len(r \o t) = Len(r) + Len(t)
         /\ \A i \in 1 .. Len(r) : (r \o t)[i] = r[i]
         /\ \A i \in 1 .. Len(t) : (r \o t)[Len(r) + i] = t[i]
<1>1. Len(r) \in Nat /\ Len(t) \in Nat
  OBVIOUS
<1>2. \A i \in 1 .. Len(t) : Len(r) + i \in (Len(r) + 1) .. (Len(r) + Len(t))
        /\ (Len(r) + i) - Len(r) = i
  BY <1>1
<1> QED
  BY <1>1, <1>2, ConcatProperties

\* Arithmetic that the provers take better without lengths in it.
LEMMA UpToTwo ==
  ASSUME NEW n \in Nat, n <= 2
  PROVE  n \in {0, 1, 2}
OBVIOUS

\* See UpToTwo.
LEMMA SharedTwo ==
  ASSUME NEW a \in Nat, NEW b \in Nat, NEW c \in Nat, a + b + c \in {0, 1, 2}
  PROVE  a + b <= 2
OBVIOUS

\* See UpToTwo.
LEMMA OneLeft ==
  ASSUME NEW a \in Nat, NEW b \in Nat, b # 0, a + b <= 2
  PROVE  a <= 1
OBVIOUS

\* The parts of a flow, regrouped.
LEMMA Regroup ==
  ASSUME NEW r \in Seq(Link!Packet), NEW c \in Seq(Link!Packet), NEW s \in Seq(Link!Packet)
  PROVE  (r \o c) \o s = r \o (c \o s)
BY ConcatAssociative, SMTT(60)

\* No more than two packets are under way.
LEMMA LaneLength ==
  ASSUME Link!Sizes, NEW x \in Link!Seqno, NEW y \in Link!Seqno, NEW other \in Link!Seqno,
         NEW flow \in Seq(Link!Packet), Lane(x, y, other, flow)
  PROVE  Len(flow) \in {0, 1, 2}
<1>1. Len(flow) \in Nat
  BY LenProperties
<1>2. \/ x = other /\ Len(flow) <= 1
      \/ other = Back(x, 1) /\ Len(flow) <= 2
      \/ x = Back(other, 1) /\ Len(flow) = 0
  BY DEF Lane
<1>3. Len(flow) <= 2
  BY <1>1, <1>2
<1> QED
  BY <1>1, <1>3, UpToTwo

\* The receiver polls: y becomes the number of the packet consumed last, the oldest one.
LEMMA LaneDrain ==
  ASSUME Link!Sizes, NEW x \in Link!Seqno, NEW y \in Link!Seqno, NEW other \in Link!Seqno,
         NEW r \in Seq(Link!Packet), NEW t \in Seq(Link!Packet),
         Lane(x, y, other, r \o t)
  PROVE  Lane(x, IF r = <<>> THEN y ELSE r[1].seq, other, t)
<1> DEFINE flow == r \o t
<1>1. /\ flow \in Seq(Link!Packet)
      /\ Len(r) \in Nat /\ Len(t) \in Nat
      /\ Len(flow) = Len(r) + Len(t)
      /\ \A i \in 1 .. Len(r) : flow[i] = r[i]
      /\ \A i \in 1 .. Len(t) : flow[Len(r) + i] = t[i]
  BY FlowParts
<1>2. Lane(x, y, other, flow)
  OBVIOUS
<1> HIDE DEF flow
<1>3. \A i \in 1 .. Len(t) : t[i].seq = Back(x, Len(t) - i)
  <2> TAKE i \in 1 .. Len(t)
  <2>1. Len(r) + i \in 1 .. Len(flow) /\ Len(flow) - (Len(r) + i) = Len(t) - i
    BY <1>1
  <2> QED
    BY <1>1, <1>2, <2>1 DEF Lane
<1>4. CASE r = <<>>
  <2>1. Len(r) = 0 /\ Len(t) = Len(flow)
    BY <1>1, <1>4
  <2> QED
    BY <1>2, <1>3, <1>4, <2>1 DEF Lane
<1>5. CASE r # <<>>
  <2>1. Len(r) \in {1, 2} /\ Len(t) <= 2 - Len(r) /\ Len(r) + Len(t) <= 2
    <3>1. Len(r) # 0
      BY <1>5, EmptySeq
    <3>2. Len(flow) \in {0, 1, 2}
      BY <1>1, <1>2, LaneLength
    <3>3. Len(r) + Len(t) <= 2 /\ Len(r) >= 1
      BY <1>1, <3>1, <3>2
    <3>4. Len(r) <= 2 /\ Len(r) # 0
      BY <1>1, <3>3
    <3>5. Len(r) \in {0, 1, 2}
      BY <1>1, <3>4, UpToTwo
    <3> QED
      BY <1>1, <3>3, <3>4, <3>5
  <2>2. r[1].seq = Back(x, Len(flow) - 1)
    BY <1>1, <1>2, <2>1 DEF Lane
  <2>3. r[1].seq \in {Back(x, Len(t)), Back(x, Len(t) + 1)}
    BY <1>1, <2>1, <2>2
  <2>4. \/ x = other /\ Len(t) <= 1
        \/ other = Back(x, 1) /\ Len(t) <= 2
        \/ x = Back(other, 1) /\ Len(t) = 0
    BY <1>1, <1>2, <2>1 DEF Lane
  <2> QED
    BY <1>3, <1>5, <2>3, <2>4 DEF Lane
<1> QED
  BY <1>4, <1>5

\* The receiver, in step, makes a packet of its own.
LEMMA LaneAhead ==
  ASSUME Link!Sizes, NEW x \in Link!Seqno, NEW y \in Link!Seqno, NEW other \in Link!Seqno,
         NEW flow \in Seq(Link!Packet), Lane(x, y, other, flow),
         y \in {other, Link!Succ(other)}
  PROVE  /\ Lane(x, y, Link!Succ(other), flow)
         /\ x \in {other, Link!Succ(other)}
<1>1. Len(flow) \in {0, 1, 2}
  BY LaneLength
<1>2. \/ x = other /\ Len(flow) = 0
      \/ other = Back(x, 1) /\ Len(flow) <= 1
  BY <1>1 DEF Lane, Back, Link!Succ, Link!Seqno, Link!Sizes
<1>3. \/ x = Back(Link!Succ(other), 1) /\ Len(flow) = 0
      \/ x = Link!Succ(other) /\ Len(flow) <= 1
  BY <1>1, <1>2 DEF Back, Link!Succ, Link!Seqno, Link!Sizes
<1>4. x \in {other, Link!Succ(other)}
  BY <1>2 DEF Back, Link!Succ, Link!Seqno, Link!Sizes
<1> QED
  BY <1>3, <1>4 DEF Lane

\* The sender makes a packet, when the other end has caught up.
LEMMA LaneSend ==
  ASSUME Link!Sizes, NEW x \in Link!Seqno, NEW y \in Link!Seqno, NEW other \in Link!Seqno,
         NEW flow \in Seq(Link!Packet), Lane(x, y, other, flow),
         other \in {x, Link!Succ(x)}, NEW data \in Report
  PROVE  Lane(Link!Succ(x), y, other, Append(flow, [seq |-> Link!Succ(x), data |-> data]))
<1> DEFINE packet == [seq |-> Link!Succ(x), data |-> data]
           flowp == Append(flow, packet)
<1>1. Len(flow) \in {0, 1, 2}
  BY LaneLength
<1>2. \/ x = other /\ Len(flow) <= 1
      \/ x = Back(other, 1) /\ Len(flow) = 0
  BY <1>1 DEF Lane, Back, Link!Succ, Link!Seqno, Link!Sizes
<1>3. /\ Len(flowp) = Len(flow) + 1
      /\ \A i \in 1 .. Len(flow) : flowp[i] = flow[i]
      /\ flowp[Len(flow) + 1] = packet
  BY AppendProperties
<1>4. packet.seq = Link!Succ(x)
  OBVIOUS
<1> HIDE DEF flowp, packet
<1>5. \/ Link!Succ(x) = other /\ Len(flowp) <= 1
      \/ other = Back(Link!Succ(x), 1) /\ Len(flowp) <= 2
  BY <1>1, <1>2, <1>3 DEF Back, Link!Succ, Link!Seqno, Link!Sizes
<1>6. y \in {Back(Link!Succ(x), Len(flowp)), Back(Link!Succ(x), Len(flowp) + 1)}
  BY <1>1, <1>3 DEF Lane, Back, Link!Succ, Link!Seqno, Link!Sizes
<1>7. \A i \in 1 .. Len(flowp) : flowp[i].seq = Back(Link!Succ(x), Len(flowp) - i)
  <2> TAKE i \in 1 .. Len(flowp)
  <2>1. CASE i = Len(flow) + 1
    BY <1>1, <1>3, <1>4, <2>1 DEF Back, Link!Succ, Link!Seqno, Link!Sizes
  <2>2. CASE i \in 1 .. Len(flow)
    <3>1. flowp[i].seq = Back(x, Len(flow) - i) /\ Len(flow) - i \in {0, 1}
      BY <1>1, <1>3, <2>2 DEF Lane
    <3> QED
      BY <1>1, <1>3, <2>2, <3>1 DEF Back, Link!Succ, Link!Seqno, Link!Sizes
  <2> QED
    BY <1>1, <1>3, <2>1, <2>2
<1> QED
  BY <1>5, <1>6, <1>7 DEF Lane, packet, flowp

\* After an end has made a packet, what is left of the other one's is at most the one by
\* which that was ahead.
LEMMA LaneTurn ==
  ASSUME Link!Sizes, NEW x \in Link!Seqno, NEW n \in Link!Seqno,
         NEW y \in Link!Seqno, NEW z \in Link!Seqno,
         NEW left \in Seq(Link!Packet), NEW made \in Seq(Link!Packet),
         Lane(x, y, Link!Succ(n), left), Lane(Link!Succ(n), z, x, made), Len(made) # 0
  PROVE  (x = n /\ Len(left) = 0) \/ (x = Link!Succ(n) /\ Len(left) <= 1)
<1>1. Link!Succ(n) \in Link!Seqno
  BY DEF Link!Sizes, Link!Seqno, Link!Succ
<1>2. Len(left) \in {0, 1, 2} /\ Len(made) \in {0, 1, 2}
  BY <1>1, LaneLength
<1>3. x = Link!Succ(n) \/ x = Back(Link!Succ(n), 1)
  BY <1>2 DEF Lane
<1>4. x = n \/ x = Link!Succ(n)
  BY <1>3 DEF Back, Link!Succ, Link!Seqno, Link!Sizes
<1>5. \/ x = Link!Succ(n) /\ Len(left) <= 1
      \/ Link!Succ(n) = Back(x, 1)
      \/ x = Back(Link!Succ(n), 1) /\ Len(left) = 0
  BY DEF Lane
<1>6. Link!Succ(n) # Back(x, 1)
  BY <1>4 DEF Back, Link!Succ, Link!Seqno, Link!Sizes
<1>7. Back(Link!Succ(n), 1) = n
  BY DEF Back, Link!Succ, Link!Seqno, Link!Sizes
<1> QED
  BY <1>5, <1>6, <1>7

\* A packet moves from the head of one part to the end of the part before it.
LEMMA FlowMoves ==
  ASSUME NEW r \in Seq(Link!Packet), NEW c \in Seq(Link!Packet), c # <<>>
  PROVE  /\ Append(r, Head(c)) \in Seq(Link!Packet)
         /\ Tail(c) \in Seq(Link!Packet)
         /\ Append(r, Head(c)) \o Tail(c) = r \o c
<1> DEFINE h == Head(c)
           t == Tail(c)
<1>1. /\ h \in Link!Packet /\ t \in Seq(Link!Packet) /\ Len(t) = Len(c) - 1
      /\ \A i \in 1 .. Len(t) : t[i] = c[i + 1]
  BY HeadTailProperties
<1>2. c = <<h>> \o t
  <2>1. <<h>> \in Seq(Link!Packet) /\ Len(<<h>>) = 1 /\ <<h>>[1] = h /\ h = c[1]
    BY <1>1
  <2>2. /\ <<h>> \o t \in Seq(Link!Packet)
        /\ Len(<<h>> \o t) = Len(c)
        /\ (<<h>> \o t)[1] = h
        /\ \A i \in 1 .. Len(t) : (<<h>> \o t)[1 + i] = t[i]
    BY <1>1, <2>1, FlowParts
  <2>3. \A i \in 1 .. Len(c) : c[i] = (<<h>> \o t)[i]
    <3> TAKE i \in 1 .. Len(c)
    <3>1. CASE i = 1
      BY <2>1, <2>2, <3>1
    <3>2. CASE i # 1
      <4>1. i - 1 \in 1 .. Len(t) /\ 1 + (i - 1) = i /\ (i - 1) + 1 = i
        BY <1>1, <3>2
      <4> QED
        BY <1>1, <2>2, <4>1
    <3> QED
      BY <3>1, <3>2
  <2> QED
    BY <2>2, <2>3, SeqEqual
<1>3. Append(r, h) = r \o <<h>> /\ Append(r, h) \in Seq(Link!Packet)
      /\ <<h>> \in Seq(Link!Packet)
  BY <1>1, AppendIsConcat, AppendProperties
<1>4. (r \o <<h>>) \o t = r \o (<<h>> \o t)
  BY <1>1, <1>3, ConcatAssociative
<1> QED
  BY <1>1, <1>2, <1>3, <1>4

-----------------------------------------------------------------------------
(* The ends and their types *)

\* There are two ends, each the peer of the other.
LEMMA LinkEnds ==
  ASSUME NEW e \in Link!End
  PROVE  /\ Link!Peer(e) \in Link!End /\ Link!Peer(e) # e /\ Link!Peer(Link!Peer(e)) = e
         /\ \A f \in Link!End : f = e \/ f = Link!Peer(e)
         /\ "ap" \in Link!End /\ "node" \in Link!End
BY DEF Link!End, Link!Life!End, Link!Peer

\* The type of ble_comm_t.
Comm == [x : Link!Seqno, y : Link!Seqno, recv : Seq(Link!Packet), send : Seq(Link!Packet),
         auto_send : BOOLEAN]

\* The sequence numbers, and ble_init_comm_data.
LEMMA NumbersTyped ==
  ASSUME Link!Sizes
  PROVE  0 \in Link!Seqno /\ (\A n \in Link!Seqno : Link!Succ(n) \in Link!Seqno)
         /\ Link!InitComm \in Comm
BY DEF Link!Sizes, Link!Seqno, Link!Succ, Link!InitComm, Comm

\* The types of what an end keeps.
LEMMA SessionsTyped ==
  ASSUME Link!Sizes, Link!TypeOK, NEW e \in Link!End
  PROVE  /\ comm[e] \in Comm /\ chan[e] \in Seq(Link!Packet)
         /\ LinkSession(e) \in Comm
         /\ LinkSession(e).x \in Link!Seqno /\ LinkSession(e).y \in Link!Seqno
         /\ LinkSession(e).recv \in Seq(Link!Packet) /\ LinkSession(e).send \in Seq(Link!Packet)
<1>1. comm[e] \in Comm /\ chan[e] \in Seq(Link!Packet)
  BY DEF Link!TypeOK, Comm
<1>2. LinkSession(e) \in Comm
  BY <1>1, NumbersTyped DEF LinkSession
<1> QED
  BY <1>1, <1>2 DEF Comm

\* The packets under way to an end are those of its three parts.
LEMMA IntoTyped ==
  ASSUME Link!Sizes, Link!TypeOK, NEW e \in Link!End
  PROVE  /\ Into(e) \in Seq(Link!Packet)
         /\ Len(Into(e))
              = Len(LinkSession(e).recv) + Len(chan[e]) + Len(LinkSession(Link!Peer(e)).send)
<1>1. Link!Peer(e) \in Link!End
  BY LinkEnds
<1>2. LinkSession(e).recv \o chan[e] \in Seq(Link!Packet)
      /\ Len(LinkSession(e).recv \o chan[e]) = Len(LinkSession(e).recv) + Len(chan[e])
  BY SessionsTyped, FlowParts
<1>3. LinkSession(Link!Peer(e)).send \in Seq(Link!Packet)
  BY <1>1, SessionsTyped
<1> QED
  BY <1>2, <1>3, FlowParts DEF Into

\* The oldest packet, whose number a poll keeps.
LEMMA DrainedTyped ==
  ASSUME Link!Sizes, Link!TypeOK, NEW e \in Link!End
  PROVE  Link!DrainedY(e) \in Link!Seqno
<1>1. comm[e] \in Comm
  BY SessionsTyped
<1>2. comm[e].y \in Link!Seqno /\ comm[e].recv \in Seq(Link!Packet)
  BY <1>1 DEF Comm
<1>3. CASE comm[e].recv # <<>>
  <2>1. Len(comm[e].recv) >= 1
    BY <1>2, <1>3, EmptySeq
  <2>2. comm[e].recv[1] \in Link!Packet
    BY <1>2, <2>1, ElementOfSeq
  <2> QED
    BY <1>3, <2>2 DEF Link!DrainedY, Link!Packet
<1> QED
  BY <1>2, <1>3 DEF Link!DrainedY

-----------------------------------------------------------------------------
(* The exchange keeps both directions in order *)

\* A poll drains what came in, and may make a packet.
LEMMA PollLanes ==
  ASSUME Link!Sizes, Link!TypeOK, NEW e \in Link!End, LaneInto(e), LaneInto(Link!Peer(e)),
         NEW data \in Report, Link!Process(e, data)
  PROVE  LaneInto(e)' /\ LaneInto(Link!Peer(e))'
<1> DEFINE f == Link!Peer(e)
           next == Link!Succ(comm[e].x)
           packet == [seq |-> next, data |-> data]
           r == comm[e].recv
           t == chan[e] \o LinkSession(f).send
           flow == LinkSession(f).recv \o chan[f]
<1>1. f \in Link!End /\ f # e /\ Link!Peer(f) = e
  BY LinkEnds
<1>2. /\ comm[e] \in Comm /\ LinkSession(e) = comm[e]
      /\ comm[e].x \in Link!Seqno /\ comm[e].y \in Link!Seqno /\ next \in Link!Seqno
      /\ r \in Seq(Link!Packet) /\ comm[e].send \in Seq(Link!Packet)
      /\ Link!DrainedY(e) \in Link!Seqno
  BY SessionsTyped, NumbersTyped, DrainedTyped DEF Link!Process, LinkSession, Comm
<1>3. /\ chan' = chan /\ state' = state
      /\ LinkSession(f)' = LinkSession(f) /\ LinkSession(e)' = comm'[e]
      /\ comm'[e] = IF Link!Produces(e)
                    THEN [x |-> next, y |-> Link!DrainedY(e), recv |-> <<>>,
                          send |-> <<packet>>, auto_send |-> TRUE]
                    ELSE [comm[e] EXCEPT !.y = Link!DrainedY(e), !.recv = <<>>]
  BY <1>1 DEF Link!Process, LinkSession, Link!TypeOK
<1>4. /\ t \in Seq(Link!Packet) /\ chan[e] \in Seq(Link!Packet)
      /\ LinkSession(f).send \in Seq(Link!Packet)
      /\ flow \in Seq(Link!Packet) /\ packet \in Link!Packet
      /\ LinkSession(f).x \in Link!Seqno /\ LinkSession(f).y \in Link!Seqno
  BY <1>1, <1>2, SessionsTyped, FlowParts DEF Link!Packet
<1>5. Into(e) = r \o t
  <2>1. (r \o chan[e]) \o LinkSession(f).send = r \o t
    BY <1>2, <1>4, Regroup
  <2> QED
    BY <1>2, <2>1 DEF Into
<1>6. Into(f) = flow \o comm[e].send
  BY <1>1, <1>2 DEF Into
<1>7. /\ Lane(LinkSession(f).x, comm[e].y, comm[e].x, r \o t)
      /\ Lane(comm[e].x, LinkSession(f).y, LinkSession(f).x, flow \o comm[e].send)
  BY <1>1, <1>2, <1>5, <1>6 DEF LaneInto
<1>8. /\ comm'[e].y = Link!DrainedY(e) /\ comm'[e].recv = <<>>
      /\ Into(e)' = (<<>> \o chan[e]) \o LinkSession(f).send
      /\ Into(f)' = flow \o comm'[e].send
  <2>1. comm'[e].y = Link!DrainedY(e) /\ comm'[e].recv = <<>>
    BY <1>2, <1>3 DEF Comm
  <2> QED
    BY <1>1, <1>3, <2>1 DEF Into
<1>9. Into(e)' = t
  BY <1>4, <1>8, ConcatEmptySeq
<1>10. Link!DrainedY(e) = IF r = <<>> THEN comm[e].y ELSE r[1].seq
  BY DEF Link!DrainedY
<1> HIDE DEF t, r, flow, next, f, packet
<1>11. Lane(LinkSession(f).x, Link!DrainedY(e), comm[e].x, t)
  BY <1>2, <1>4, <1>7, <1>10, LaneDrain
<1>12. CASE ~Link!Produces(e)
  <2>1. comm'[e].x = comm[e].x /\ comm'[e].send = comm[e].send
    BY <1>2, <1>3, <1>12 DEF Comm
  <2>2. LaneInto(e)'
    BY <1>1, <1>3, <1>8, <1>9, <1>11, <2>1 DEF LaneInto, f
  <2>3. LaneInto(f)'
    BY <1>1, <1>3, <1>7, <1>8, <2>1 DEF LaneInto
  <2> QED
    BY <2>2, <2>3 DEF f
<1>13. CASE Link!Produces(e)
  <2>1. comm'[e].x = next /\ comm'[e].send = <<packet>>
    BY <1>3, <1>13
  <2>2. Link!DrainedY(e) \in {comm[e].x, next} /\ comm[e].send = <<>>
    BY <1>13 DEF Link!Produces, Link!InSync, next
  <2>3. /\ Lane(LinkSession(f).x, Link!DrainedY(e), next, t)
        /\ LinkSession(f).x \in {comm[e].x, next}
    BY <1>2, <1>4, <1>11, <2>2, LaneAhead DEF next
  <2>4. flow \o comm[e].send = flow
    BY <1>4, <2>2, ConcatEmptySeq
  <2>5. Lane(next, LinkSession(f).y, LinkSession(f).x, Append(flow, packet))
    BY <1>2, <1>4, <1>7, <2>3, <2>4, LaneSend DEF next, packet
  <2>6. flow \o <<packet>> = Append(flow, packet)
    BY <1>4, AppendIsConcat
  <2>7. LaneInto(e)'
    BY <1>1, <1>3, <1>8, <1>9, <2>1, <2>3 DEF LaneInto, f
  <2>8. LaneInto(f)'
    BY <1>1, <1>3, <1>8, <2>1, <2>5, <2>6 DEF LaneInto
  <2> QED
    BY <2>7, <2>8 DEF f
<1> QED
  BY <1>12, <1>13

\* A packet that is sent, or received, stays in the same direction at the same place.
LEMMA SendLanes ==
  ASSUME Link!Sizes, Link!TypeOK, up, NEW e \in Link!End, LaneInto(e), LaneInto(Link!Peer(e)),
         Link!SendData(e)
  PROVE  LaneInto(e)' /\ LaneInto(Link!Peer(e))'
<1> DEFINE f == Link!Peer(e)
<1>1. f \in Link!End /\ f # e /\ Link!Peer(f) = e
  BY LinkEnds
<1>2. state' = state /\ comm'[f] = comm[f] /\ chan'[e] = chan[e]
      /\ LinkSession(f)' = LinkSession(f)
  BY <1>1 DEF Link!SendData, LinkSession, Link!TypeOK
<1>3. CASE chan' = chan /\ LinkSession(e)' = LinkSession(e)
  BY <1>1, <1>2, <1>3 DEF LaneInto, Into
<1>4. CASE /\ state[e] = "DATA"
           /\ comm' = [comm EXCEPT ![e].auto_send = FALSE] /\ chan' = chan
  <2>1. /\ comm'[e].x = comm[e].x /\ comm'[e].y = comm[e].y
        /\ comm'[e].recv = comm[e].recv /\ comm'[e].send = comm[e].send
    BY <1>4 DEF Link!TypeOK
  <2>2. LinkSession(e) = comm[e] /\ LinkSession(e)' = comm'[e]
    BY <1>2, <1>4 DEF LinkSession
  <2> QED
    BY <1>1, <1>2, <1>4, <2>1, <2>2 DEF LaneInto, Into
<1>5. CASE /\ state[e] = "DATA"
           /\ chan' = [chan EXCEPT ![f] = @ \o comm[e].send]
           /\ comm' = [comm EXCEPT ![e].send = <<>>]
  <2>1. /\ comm'[e].x = comm[e].x /\ comm'[e].y = comm[e].y
        /\ comm'[e].recv = comm[e].recv /\ comm'[e].send = <<>>
        /\ chan'[f] = chan[f] \o comm[e].send
    BY <1>1, <1>5 DEF Link!TypeOK
  <2>2. LinkSession(e) = comm[e] /\ LinkSession(e)' = comm'[e]
    BY <1>2, <1>5 DEF LinkSession
  <2>3. /\ LinkSession(f).recv \in Seq(Link!Packet) /\ chan[f] \in Seq(Link!Packet)
        /\ comm[e].send \in Seq(Link!Packet)
    BY <1>1, <2>2, SessionsTyped
  <2>4. Into(f)' = (LinkSession(f).recv \o (chan[f] \o comm[e].send)) \o <<>>
    BY <1>1, <1>2, <2>1, <2>2 DEF Into
  <2>5. LinkSession(f).recv \o (chan[f] \o comm[e].send) = Into(f)
    <3>1. (LinkSession(f).recv \o chan[f]) \o comm[e].send
            = LinkSession(f).recv \o (chan[f] \o comm[e].send)
      BY <2>3, Regroup
    <3> QED
      BY <1>1, <2>2, <3>1 DEF Into
  <2>6. Into(f) \in Seq(Link!Packet)
    BY <1>1, IntoTyped
  <2>7. Into(f)' = Into(f)
    BY <2>4, <2>5, <2>6, ConcatEmptySeq
  <2>8. Into(e)' = Into(e)
    BY <1>2, <2>1, <2>2 DEF Into
  <2>9. LaneInto(f)'
    BY <1>1, <1>2, <2>1, <2>2, <2>7 DEF LaneInto
  <2>10. LaneInto(e)'
    BY <1>2, <2>1, <2>2, <2>8 DEF LaneInto
  <2> QED
    BY <2>9, <2>10
<1>6. \/ chan' = chan /\ comm' = comm
      \/ /\ state[e] = "DATA"
         /\ comm' = [comm EXCEPT ![e].auto_send = FALSE] /\ chan' = chan
      \/ /\ state[e] = "DATA"
         /\ chan' = [chan EXCEPT ![f] = @ \o comm[e].send]
         /\ comm' = [comm EXCEPT ![e].send = <<>>]
  BY DEF Link!SendData
<1> QED
  BY <1>2, <1>3, <1>4, <1>5, <1>6 DEF LinkSession

\* There is room for what is received: what is under way, and in the queue, is two packets.
LEMMA RoomInQueue ==
  ASSUME Link!Sizes, Link!TypeOK, NEW e \in Link!End, LaneInto(e)
  PROVE  Len(LinkSession(e).recv) + Len(chan[e]) <= 2
<1>1. /\ Len(Into(e))
           = Len(LinkSession(e).recv) + Len(chan[e]) + Len(LinkSession(Link!Peer(e)).send)
      /\ Into(e) \in Seq(Link!Packet)
  BY IntoTyped
<1>2. /\ Len(LinkSession(e).recv) \in Nat /\ Len(chan[e]) \in Nat
      /\ Len(LinkSession(Link!Peer(e)).send) \in Nat
  BY LinkEnds, SessionsTyped, LenProperties
<1>3. Len(Into(e)) \in {0, 1, 2}
  BY <1>1, LinkEnds, SessionsTyped, LaneLength DEF LaneInto
<1> QED
  BY <1>1, <1>2, <1>3, SharedTwo

\* A packet that is received finds room, and stays in its direction at its place.
LEMMA ReceiveLanes ==
  ASSUME Link!Sizes, Link!TypeOK, NEW e \in Link!End, LaneInto(e), LaneInto(Link!Peer(e)),
         Link!Receive(e)
  PROVE  /\ LaneInto(e)' /\ LaneInto(Link!Peer(e))'
         /\ comm'[e].recv = Append(comm[e].recv, Head(chan[e]))
         /\ Len(comm'[e].recv) <= 2
<1> DEFINE f == Link!Peer(e)
<1>1. f \in Link!End /\ f # e /\ Link!Peer(f) = e
  BY LinkEnds
<1>2. /\ LinkSession(e) = comm[e] /\ LinkSession(e)' = comm'[e]
      /\ LinkSession(f)' = LinkSession(f)
      /\ chan[e] # <<>> /\ chan'[e] = Tail(chan[e]) /\ chan'[f] = chan[f]
      /\ comm'[e].x = comm[e].x /\ comm'[e].y = comm[e].y /\ comm'[e].send = comm[e].send
      /\ comm'[e].recv = Link!Enqueue(comm[e].recv, Head(chan[e]))
  BY <1>1 DEF Link!Receive, LinkSession, Link!TypeOK
<1>3. /\ comm[e].recv \in Seq(Link!Packet) /\ chan[e] \in Seq(Link!Packet)
      /\ Len(comm[e].recv) \in Nat /\ Len(chan[e]) \in Nat /\ Len(chan[e]) # 0
  BY <1>2, SessionsTyped, LenProperties, EmptySeq
<1>4. Len(comm[e].recv) <= 1
  <2>1. Len(comm[e].recv) + Len(chan[e]) <= 2
    BY <1>2, RoomInQueue
  <2> QED
    BY <1>3, <2>1, OneLeft
<1>5. comm'[e].recv = Append(comm[e].recv, Head(chan[e]))
  BY <1>2, <1>3, <1>4 DEF Link!Enqueue, Link!Sizes
<1>6. /\ comm'[e].recv \in Seq(Link!Packet) /\ Tail(chan[e]) \in Seq(Link!Packet)
      /\ comm'[e].recv \o Tail(chan[e]) = comm[e].recv \o chan[e]
  BY <1>2, <1>3, <1>5, FlowMoves
<1>7. Into(e)' = Into(e)
  BY <1>2, <1>6 DEF Into
<1>8. Into(f)' = Into(f)
  BY <1>1, <1>2 DEF Into
<1>9. Len(comm'[e].recv) <= 2
  <2>1. Head(chan[e]) \in Link!Packet
    BY <1>2, <1>3, HeadTailProperties
  <2>2. Len(comm'[e].recv) = Len(comm[e].recv) + 1
    BY <1>3, <1>5, <2>1, AppendProperties
  <2> QED
    BY <1>3, <1>4, <2>2
<1>10. LaneInto(e)' /\ LaneInto(f)'
  BY <1>1, <1>2, <1>7, <1>8 DEF LaneInto
<1> QED
  BY <1>5, <1>9, <1>10


-----------------------------------------------------------------------------
(* Every step keeps the invariant *)

\* The invariant holds at the start.
LEMMA InitInv ==
  ASSUME Link!Sizes, Link!Init
  PROVE  LinkInv
<1>1. Link!TypeOK
  <2>1. <<>> \in Seq(Link!Packet)
    OBVIOUS
  <2>2. comm \in [Link!End -> Comm]
    BY NumbersTyped DEF Link!Init
  <2> QED
    BY <2>1, <2>2 DEF Link!Init, Link!Life!Init, Link!End, Link!Life!End, Link!TypeOK, Comm
<1>2. LifeInv
  BY DEF Link!Init, Link!Life!Init, LifeInv, Link!End
<1> QED
  BY <1>1, <1>2 DEF LinkInv, Link!Init, Link!Life!Init, Link!End

\* The queue of an end, with one more packet or as it was.
LEMMA EnqueueTyped ==
  ASSUME NEW r \in Seq(Link!Packet), NEW c \in Seq(Link!Packet), c # <<>>
  PROVE  Link!Enqueue(r, Head(c)) \in Seq(Link!Packet)
BY FlowMoves DEF Link!Enqueue

\* Every action keeps the types.
LEMMA TypeStep ==
  ASSUME Link!Sizes, Link!TypeOK, [Link!Next]_(Link!vars)
  PROVE  Link!TypeOK'
<1>1. comm \in [Link!End -> Comm] /\ chan \in [Link!End -> Seq(Link!Packet)]
  BY DEF Link!TypeOK, Comm
<1>2. up' \in BOOLEAN /\ conn' \in [Link!End -> BOOLEAN]
      /\ state' \in [Link!End -> {"IDLE", "DATA"}]
  <2>1. \/ UNCHANGED <<up, conn, state>>
        \/ Link!Life!Connect \/ Link!Life!Subscribe \/ Link!Life!Subscribed \/ Link!Life!LinkLoss
        \/ \E e \in Link!End : Link!Life!Disconnected(e) \/ Link!Life!Reboot(e)
    BY DEF Link!Next, Link!vars, Link!Step, Link!Connect, Link!Subscribe, Link!Subscribed,
       Link!Process, Link!SendData,
           Link!Receive, Link!LinkLoss, Link!Disconnected, Link!Reboot
  <2>2. up' \in BOOLEAN
    BY <2>1 DEF Link!TypeOK, Link!Life!Connect, Link!Life!Subscribe, Link!Life!Subscribed,
       Link!Life!LinkLoss,
                Link!Life!Disconnected, Link!Life!Reboot
  <2>3. conn' \in [Link!End -> BOOLEAN]
    BY <2>1 DEF Link!TypeOK, Link!Life!Connect, Link!Life!Subscribe, Link!Life!Subscribed,
       Link!Life!LinkLoss,
                Link!Life!Disconnected, Link!Life!Reboot, Link!End
  <2>4. state' \in [Link!End -> {"IDLE", "DATA"}]
    BY <2>1 DEF Link!TypeOK, Link!Life!Connect, Link!Life!Subscribe, Link!Life!Subscribed,
       Link!Life!LinkLoss,
                Link!Life!Disconnected, Link!Life!Reboot
  <2> QED
    BY <2>2, <2>3, <2>4
<1>3. canSend' \in [Link!End -> BOOLEAN]
  BY DEF Link!TypeOK, Link!Next, Link!vars, Link!Step, Link!Connect, Link!Subscribe,
     Link!Subscribed, Link!Process, Link!SendData,
         Link!Receive, Link!LinkLoss, Link!Disconnected, Link!Reboot
<1>4. comm' \in [Link!End -> Comm] /\ chan' \in [Link!End -> Seq(Link!Packet)]
  <2>1. CASE Link!Connect
    BY <1>1, <2>1, NumbersTyped DEF Link!Connect
  <2>2. CASE Link!Subscribe \/ UNCHANGED Link!vars
    BY <1>1, <2>2 DEF Link!Subscribe, Link!vars
  <2>3. CASE Link!Subscribed
    BY <1>1, <2>3, NumbersTyped DEF Link!Subscribed
  <2>4. ASSUME NEW e \in Link!End, NEW data \in Report, Link!Process(e, data)
        PROVE  comm' \in [Link!End -> Comm] /\ chan' \in [Link!End -> Seq(Link!Packet)]
    <3> DEFINE packet == [seq |-> Link!Succ(comm[e].x), data |-> data]
    <3>1. /\ comm[e] \in Comm /\ comm[e].x \in Link!Seqno /\ Link!DrainedY(e) \in Link!Seqno
          /\ Link!Succ(comm[e].x) \in Link!Seqno
      BY SessionsTyped, DrainedTyped, NumbersTyped DEF Comm
    <3>2. packet \in Link!Packet /\ <<packet>> \in Seq(Link!Packet) /\ <<>> \in Seq(Link!Packet)
      BY <3>1 DEF Link!Packet
    <3> HIDE DEF packet
    <3>3. [x |-> Link!Succ(comm[e].x), y |-> Link!DrainedY(e), recv |-> <<>>,
           send |-> <<packet>>, auto_send |-> TRUE] \in Comm
      BY <3>1, <3>2 DEF Comm
    <3>4. [comm[e] EXCEPT !.y = Link!DrainedY(e), !.recv = <<>>] \in Comm
      BY <3>1, <3>2 DEF Comm
    <3> QED
      BY <1>1, <2>4, <3>3, <3>4 DEF Link!Process, packet
  <2>5. ASSUME NEW e \in Link!End, Link!SendData(e)
        PROVE  comm' \in [Link!End -> Comm] /\ chan' \in [Link!End -> Seq(Link!Packet)]
    <3>1. comm[e] \in Comm /\ comm[e].send \in Seq(Link!Packet) /\ <<>> \in Seq(Link!Packet)
      BY SessionsTyped DEF Comm
    <3>2. [comm[e] EXCEPT !.send = <<>>] \in Comm
          /\ [comm[e] EXCEPT !.auto_send = FALSE] \in Comm
      BY <3>1 DEF Comm
    <3>3. chan[Link!Peer(e)] \o comm[e].send \in Seq(Link!Packet)
      BY <1>1, <3>1, LinkEnds, FlowParts
    <3> QED
      BY <1>1, <2>5, <3>2, <3>3 DEF Link!SendData
  <2>6. ASSUME NEW e \in Link!End, Link!Receive(e)
        PROVE  comm' \in [Link!End -> Comm] /\ chan' \in [Link!End -> Seq(Link!Packet)]
    <3>1. comm[e] \in Comm /\ comm[e].recv \in Seq(Link!Packet) /\ chan[e] \in Seq(Link!Packet)
          /\ chan[e] # <<>>
      BY <2>6, SessionsTyped DEF Comm, Link!Receive
    <3>2. Link!Enqueue(comm[e].recv, Head(chan[e])) \in Seq(Link!Packet)
          /\ Tail(chan[e]) \in Seq(Link!Packet)
      BY <3>1, EnqueueTyped, FlowMoves
    <3>3. [comm[e] EXCEPT !.recv = Link!Enqueue(@, Head(chan[e]))] \in Comm
      BY <3>1, <3>2 DEF Comm
    <3> QED
      BY <1>1, <2>6, <3>2, <3>3 DEF Link!Receive
  <2>7. ASSUME NEW e \in Link!End, Link!Disconnected(e)
        PROVE  comm' \in [Link!End -> Comm] /\ chan' \in [Link!End -> Seq(Link!Packet)]
    BY <1>1, <2>7 DEF Link!Disconnected
  <2>8. CASE Link!LinkLoss
    BY <1>1, <2>8 DEF Link!LinkLoss
  <2>9. ASSUME NEW e \in Link!End, Link!Reboot(e)
        PROVE  comm' \in [Link!End -> Comm] /\ chan' \in [Link!End -> Seq(Link!Packet)]
    BY <1>1, <2>9, NumbersTyped DEF Link!Reboot
  <2> QED
    BY <2>1, <2>2, <2>3, <2>4, <2>5, <2>6, <2>7, <2>8, <2>9 DEF Link!Next, Link!Step
<1> QED
  BY <1>2, <1>3, <1>4 DEF Link!TypeOK, Comm

\* Every action keeps what the events of the connection say.
LEMMA LifeStep ==
  ASSUME Link!TypeOK, LifeInv, [Link!Next]_(Link!vars)
  PROVE  LifeInv'
<1> USE DEF Link!TypeOK, LifeInv, Link!End, Link!Life!End
<1>1. CASE Link!Connect
  BY <1>1 DEF Link!Connect, Link!Life!Connect
<1>2. CASE Link!Subscribe
  BY <1>2 DEF Link!Subscribe, Link!Life!Subscribe
<1>3. CASE Link!Subscribed
  BY <1>3 DEF Link!Subscribed, Link!Life!Subscribed
<1>4. ASSUME NEW e \in Link!End, NEW data \in Report, Link!Process(e, data)
      PROVE  LifeInv'
  BY <1>4 DEF Link!Process
<1>5. ASSUME NEW e \in Link!End, Link!SendData(e)
      PROVE  LifeInv'
  BY <1>5 DEF Link!SendData, Link!Peer
<1>6. ASSUME NEW e \in Link!End, Link!Receive(e)
      PROVE  LifeInv'
  BY <1>6 DEF Link!Receive
<1>7. ASSUME NEW e \in Link!End, Link!Disconnected(e)
      PROVE  LifeInv'
  BY <1>7 DEF Link!Disconnected, Link!Life!Disconnected
<1>8. CASE Link!LinkLoss
  BY <1>8 DEF Link!LinkLoss, Link!Life!LinkLoss
<1>9. ASSUME NEW e \in Link!End, Link!Reboot(e)
      PROVE  LifeInv'
  BY <1>9 DEF Link!Reboot, Link!Life!Reboot
<1>10. CASE UNCHANGED Link!vars
  BY <1>10 DEF Link!vars
<1> QED
  BY <1>1, <1>2, <1>3, <1>4, <1>5, <1>6, <1>7, <1>8, <1>9, <1>10 DEF Link!Next, Link!Step

\* A new connection has no packet under way, and both ends are at number 0.
LEMMA NewLane ==
  ASSUME Link!Sizes
  PROVE  Lane(0, 0, 0, (<<>> \o <<>>) \o <<>>)
<1>1. (<<>> \o <<>>) \o <<>> = <<>> /\ Len(<<>>) = 0
  <2>1. <<>> \in Seq(Link!Packet)
    OBVIOUS
  <2> QED
    BY <2>1, ConcatEmptySeq, EmptySeq
<1>2. 1 .. 0 = {} /\ Back(0, 0) = 0
  BY DEF Back
<1>3. Lane(0, 0, 0, <<>>)
  BY <1>1, <1>2 DEF Lane
<1> QED
  BY <1>1, <1>3

\* A step that no session and no packet under way takes part in.
LEMMA SameLanes ==
  ASSUME chan' = chan, \A e \in Link!End : LinkSession(e)' = LinkSession(e)
  PROVE  \A e \in Link!End : LaneInto(e) => LaneInto(e)'
BY LinkEnds DEF LaneInto, Into

\* Every action keeps both directions in order while the link is up.
LEMMA LanesStep ==
  ASSUME Link!Sizes, LinkInv, LifeInv', [Link!Next]_(Link!vars), up'
  PROVE  \A e \in Link!End : LaneInto(e)'
<1>1. Link!TypeOK /\ LifeInv /\ (up => \A e \in Link!End : LaneInto(e))
  BY DEF LinkInv
<1>2. CASE Link!Connect
  <2>1. \A e \in Link!End : state[e] = "IDLE" /\ chan[e] = <<>>
    BY <1>1, <1>2 DEF Link!Connect, Link!Life!Connect, LifeInv, Link!End, Link!Life!End
  <2>2. \A e \in Link!End : LinkSession(e)' = Link!InitComm /\ chan'[e] = <<>>
    BY <1>2, <2>1 DEF Link!Connect, Link!Life!Connect, LinkSession
  <2> TAKE e \in Link!End
  <2>3. /\ Into(e)' = (<<>> \o <<>>) \o <<>>
        /\ LinkSession(e)'.x = 0 /\ LinkSession(e)'.y = 0 /\ LinkSession(Link!Peer(e))'.x = 0
    BY <2>2, LinkEnds DEF Into, Link!InitComm
  <2> QED
    BY <2>3, NewLane DEF LaneInto
<1>3. CASE Link!Subscribe
  <2>1. up /\ chan' = chan /\ comm["node"] = Link!InitComm /\ comm' = comm
    BY <1>1, <1>3 DEF Link!Subscribe, Link!Life!Subscribe, LifeInv
  <2>2. \A e \in Link!End : LinkSession(e)' = LinkSession(e)
    BY <1>1, <1>3, <2>1 DEF Link!Subscribe, Link!Life!Subscribe, Link!TypeOK, LinkSession,
       Link!End, Link!Life!End
  <2> QED
    BY <1>1, <2>1, <2>2, SameLanes
<1>4. CASE Link!Subscribed
  <2>1. up /\ chan' = chan /\ comm' = [comm EXCEPT !["ap"] = Link!InitComm]
    BY <1>4 DEF Link!Subscribed, Link!Life!Subscribed
  <2>2. \A e \in Link!End : LinkSession(e)' = LinkSession(e)
    BY <1>1, <1>4, <2>1 DEF Link!Life!Subscribed, Link!Subscribed, Link!TypeOK, LinkSession,
       Link!End, Link!Life!End
  <2> QED
    BY <1>1, <2>1, <2>2, SameLanes
<1>5. ASSUME NEW e \in Link!End, NEW data \in Report, Link!Process(e, data)
      PROVE  \A f \in Link!End : LaneInto(f)'
  <2>1. up /\ LaneInto(e) /\ LaneInto(Link!Peer(e))
    BY <1>1, <1>5, LinkEnds DEF Link!Process
  <2> QED
    BY <1>1, <1>5, <2>1, PollLanes, LinkEnds
<1>6. ASSUME NEW e \in Link!End, Link!SendData(e)
      PROVE  \A f \in Link!End : LaneInto(f)'
  <2>1. up /\ LaneInto(e) /\ LaneInto(Link!Peer(e))
    BY <1>1, <1>6, LinkEnds DEF Link!SendData
  <2> QED
    BY <1>1, <1>6, <2>1, SendLanes, LinkEnds
<1>7. ASSUME NEW e \in Link!End, Link!Receive(e)
      PROVE  \A f \in Link!End : LaneInto(f)'
  <2>1. up /\ LaneInto(e) /\ LaneInto(Link!Peer(e))
    BY <1>1, <1>7, LinkEnds DEF Link!Receive
  <2> QED
    BY <1>1, <1>7, <2>1, ReceiveLanes, LinkEnds
<1>8. CASE UNCHANGED Link!vars
  <2>1. chan' = chan /\ up /\ \A e \in Link!End : LinkSession(e)' = LinkSession(e)
    BY <1>8 DEF Link!vars, LinkSession
  <2> QED
    BY <1>1, <2>1, SameLanes
<1>9. ~Link!LinkLoss /\ \A e \in Link!End : ~Link!Disconnected(e) /\ ~Link!Reboot(e)
  BY DEF Link!LinkLoss, Link!Life!LinkLoss, Link!Disconnected, Link!Life!Disconnected,
     Link!Reboot, Link!Life!Reboot
<1> QED
  BY <1>2, <1>3, <1>4, <1>5, <1>6, <1>7, <1>8, <1>9 DEF Link!Next, Link!Step

\* The queue of an end that exchanges data never holds more than two packets.
LEMMA QueueStep ==
  ASSUME Link!Sizes, LinkInv, [Link!Next]_(Link!vars), NEW e \in Link!End, state'[e] = "DATA"
  PROVE  Len(comm'[e].recv) <= 2
<1>1. Link!TypeOK /\ LifeInv /\ (up => \A f \in Link!End : LaneInto(f))
      /\ (state[e] = "DATA" => Len(comm[e].recv) <= 2)
  BY DEF LinkInv
<1>2. Len(<<>>) = 0
  BY EmptySeq
<1>3. CASE comm'[e].recv = <<>>
  BY <1>2, <1>3
<1>4. CASE comm'[e].recv = comm[e].recv /\ state[e] = "DATA"
  BY <1>1, <1>4
<1>5. CASE Link!Receive(e)
  <2>1. up
    BY <1>1, <1>5 DEF LifeInv, Link!Receive
  <2> QED
    BY <1>1, <1>5, <2>1, ReceiveLanes, LinkEnds
<1>6. \/ Link!Receive(e)
      \/ comm'[e].recv = <<>>
      \/ comm'[e].recv = comm[e].recv /\ state[e] = "DATA"
  <2>1. CASE Link!Connect
    BY <1>1, <2>1 DEF Link!Connect, Link!Life!Connect, LifeInv, Link!InitComm, Link!TypeOK,
       Link!End, Link!Life!End
  <2>2. CASE Link!Subscribe
    BY <1>1, <2>2 DEF Link!Subscribe, Link!Life!Subscribe, LifeInv, Link!InitComm, Link!TypeOK,
       Link!End, Link!Life!End
  <2>3. CASE Link!Subscribed
    BY <1>1, <2>3 DEF Link!Subscribed, Link!Life!Subscribed, Link!InitComm, Link!TypeOK,
       Link!End, Link!Life!End
  <2>4. CASE \E f \in Link!End : \E data \in Report : Link!Process(f, data)
    BY <1>1, <2>4 DEF Link!Process, Link!TypeOK
  <2>5. CASE \E f \in Link!End : Link!SendData(f)
    <3> PICK f \in Link!End : Link!SendData(f)
      BY <2>5
    <3>1. /\ state' = state
          /\ \/ comm' = comm
             \/ comm' = [comm EXCEPT ![f].send = <<>>]
             \/ comm' = [comm EXCEPT ![f].auto_send = FALSE]
      BY DEF Link!SendData
    <3>2. \/ comm'[e] = comm[e]
          \/ comm'[e] = [comm[e] EXCEPT !.send = <<>>]
          \/ comm'[e] = [comm[e] EXCEPT !.auto_send = FALSE]
      BY <1>1, <3>1 DEF Link!TypeOK
    <3>3. comm'[e].recv = comm[e].recv
      BY <1>1, <3>2, SessionsTyped DEF Comm
    <3> QED
      BY <3>1, <3>3
  <2>6. CASE \E f \in Link!End : Link!Receive(f)
    BY <1>1, <2>6 DEF Link!Receive, Link!TypeOK
  <2>7. CASE \E f \in Link!End : Link!Disconnected(f)
    BY <1>1, <2>7 DEF Link!Disconnected, Link!Life!Disconnected, Link!TypeOK
  <2>8. CASE Link!LinkLoss \/ UNCHANGED Link!vars
    BY <2>8 DEF Link!LinkLoss, Link!Life!LinkLoss, Link!vars
  <2>9. CASE \E f \in Link!End : Link!Reboot(f)
    BY <1>1, <2>9 DEF Link!Reboot, Link!Life!Reboot, Link!TypeOK
  <2> QED
    BY <2>1, <2>2, <2>3, <2>4, <2>5, <2>6, <2>7, <2>8, <2>9 DEF Link!Next, Link!Step
<1> QED
  BY <1>3, <1>4, <1>5, <1>6

\* The invariant is inductive.
LEMMA StepInv ==
  ASSUME Link!Sizes, LinkInv, [Link!Next]_(Link!vars)
  PROVE  LinkInv'
<1>1. Link!TypeOK'
  BY TypeStep DEF LinkInv
<1>2. LifeInv'
  BY LifeStep DEF LinkInv
<1>3. \A e \in Link!End : up' => LaneInto(e)'
  BY <1>2, LanesStep
<1>4. \A e \in Link!End : state'[e] = "DATA" => Len(comm'[e].recv) <= 2
  BY QueueStep
<1> QED
  BY <1>1, <1>2, <1>3, <1>4 DEF LinkInv

-----------------------------------------------------------------------------
(* What follows from it *)

\* Two packets fit in the queue.
LEMMA TwoFit ==
  ASSUME Link!Sizes, NEW a \in Nat, NEW b \in Nat, a + b <= 2
  PROVE  a + b <= QUEUE_SIZE
BY DEF Link!Sizes

\* With the invariant, whatever is on its way finds room.
LEMMA InvNeverDropped ==
  ASSUME Link!Sizes, LinkInv
  PROVE  Link!NeverDropped
<1> SUFFICES ASSUME NEW e \in Link!End, state[e] = "DATA"
             PROVE  Len(comm[e].recv) + Len(chan[e]) <= QUEUE_SIZE
  BY DEF Link!NeverDropped
<1>1. Link!TypeOK /\ LinkSession(e) = comm[e]
  BY DEF LinkInv, LinkSession
<1>2. /\ comm[e].recv \in Seq(Link!Packet) /\ chan[e] \in Seq(Link!Packet)
      /\ Len(comm[e].recv) \in Nat /\ Len(chan[e]) \in Nat
  BY <1>1, SessionsTyped, LenProperties
<1>3. CASE up
  <2>1. Len(comm[e].recv) + Len(chan[e]) <= 2
    BY <1>1, <1>3, RoomInQueue DEF LinkInv
  <2> QED
    BY <1>2, <2>1, TwoFit
<1>4. CASE ~up
  <2>1. Len(chan[e]) = 0 /\ Len(comm[e].recv) <= 2
    BY <1>4, EmptySeq DEF LinkInv, LifeInv
  <2> QED
    BY <1>2, <2>1 DEF Link!Sizes
<1> QED
  BY <1>3, <1>4

\* The invariant holds in every state of the link (ble_comm.c, ble_client.c, ble_server.c).
THEOREM Invariance ==
  ASSUME Link!Sizes
  PROVE  Link!Spec => []LinkInv
<1>1. Link!Init => LinkInv
  BY InitInv
<1>2. LinkInv /\ [Link!Next]_(Link!vars) => LinkInv'
  BY StepInv
<1> QED
  BY <1>1, <1>2, PTL DEF Link!Spec

\* The link keeps to its types, whatever the sizes.
THEOREM TypeSafety ==
  ASSUME Link!Sizes
  PROVE  Link!Spec => []Link!TypeOK
<1>1. LinkInv => Link!TypeOK
  BY DEF LinkInv
<1> QED
  BY <1>1, Invariance, PTL

\* A packet that reaches an end which exchanges data finds room in its queue
\* (ble_receive_data), for four sequence numbers or more and a queue of two or more.
THEOREM LinkNothingDropped ==
  ASSUME Link!Sizes
  PROVE  Link!Spec => []Link!NeverDropped
<1>1. LinkInv => Link!NeverDropped
  BY InvNeverDropped
<1> QED
  BY <1>1, Invariance, PTL

-----------------------------------------------------------------------------
(* The payloads of packets *)

LEMMA DataProperties ==
  ASSUME NEW s \in Seq(Link!Packet)
  PROVE  /\ Link!DataOf(s) \in Seq(Report)
         /\ Len(Link!DataOf(s)) = Len(s)
         /\ \A i \in 1 .. Len(s) : Link!DataOf(s)[i] = s[i].data
<1>1. Len(s) \in Nat /\ DOMAIN s = 1 .. Len(s)
  BY LenProperties
<1>2. \A i \in 1 .. Len(s) : s[i].data \in Report
  <2> TAKE i \in 1 .. Len(s)
  <2>1. s[i] \in Link!Packet
    BY ElementOfSeq
  <2> QED
    BY <2>1 DEF Link!Packet
<1>3. Link!DataOf(s) = [i \in 1 .. Len(s) |-> s[i].data]
  BY <1>1 DEF Link!DataOf
<1>4. Link!DataOf(s) \in Seq(Report)
  BY <1>1, <1>2, <1>3, IsASeq
<1>5. Len(Link!DataOf(s)) = Len(s)
  BY <1>1, <1>3
<1> QED
  BY <1>3, <1>4, <1>5

LEMMA DataOfNone == Link!DataOf(<<>>) = <<>>
<1>1. <<>> \in Seq(Link!Packet) /\ Len(<<>>) = 0
  BY EmptySeq
<1>2. Link!DataOf(<<>>) \in Seq(Report) /\ Len(Link!DataOf(<<>>)) = 0
  BY <1>1, DataProperties
<1> QED
  BY <1>2, EmptySeq

LEMMA DataOfOne ==
  ASSUME NEW p \in Link!Packet
  PROVE  Link!DataOf(<<p>>) = <<p.data>>
<1> DEFINE s == <<p>>
<1>1. s \in Seq(Link!Packet) /\ Len(s) = 1 /\ s[1] = p
  OBVIOUS
<1> HIDE DEF s
<1>2. Link!DataOf(s) \in Seq(Report) /\ Len(Link!DataOf(s)) = 1 /\ Link!DataOf(s)[1] = p.data
  <2>1. Link!DataOf(s) \in Seq(Report) /\ Len(Link!DataOf(s)) = Len(s)
        /\ \A i \in 1 .. Len(s) : Link!DataOf(s)[i] = s[i].data
    BY <1>1, DataProperties
  <2>2. 1 \in 1 .. Len(s)
    BY <1>1
  <2> QED
    BY <1>1, <2>1, <2>2
<1>3. p.data \in Report
  BY DEF Link!Packet
<1>4. <<p.data>> \in Seq(Report) /\ Len(<<p.data>>) = 1 /\ <<p.data>>[1] = p.data
  BY <1>3
<1> QED
  <2> DEFINE a == Link!DataOf(s)
             b == <<p.data>>
  <2>1. a \in Seq(Report) /\ b \in Seq(Report) /\ Len(a) = 1 /\ Len(b) = 1 /\ a[1] = b[1]
    BY <1>2, <1>4
  <2> HIDE DEF a, b
  <2>2. a = b
    BY <2>1, SeqEqual
  <2> QED
    BY <2>2 DEF a, b, s

LEMMA DataOfConcat ==
  ASSUME NEW s \in Seq(Link!Packet), NEW t \in Seq(Link!Packet)
  PROVE  Link!DataOf(s \o t) = Link!DataOf(s) \o Link!DataOf(t)
<1>1. /\ s \o t \in Seq(Link!Packet)
      /\ Len(s \o t) = Len(s) + Len(t)
      /\ \A i \in 1 .. Len(s) + Len(t) : (s \o t)[i]
           = IF i <= Len(s) THEN s[i] ELSE t[i - Len(s)]
      /\ Len(s) \in Nat /\ Len(t) \in Nat
  BY ConcatProperties, LenProperties
<1>2. /\ Link!DataOf(s) \o Link!DataOf(t) \in Seq(Report)
      /\ Len(Link!DataOf(s) \o Link!DataOf(t)) = Len(s) + Len(t)
      /\ \A i \in 1 .. Len(s) + Len(t) :
           (Link!DataOf(s) \o Link!DataOf(t))[i]
             = IF i <= Len(s) THEN Link!DataOf(s)[i] ELSE Link!DataOf(t)[i - Len(s)]
  <2> DEFINE a == Link!DataOf(s)
             b == Link!DataOf(t)
  <2>1. a \in Seq(Report) /\ b \in Seq(Report) /\ Len(a) = Len(s) /\ Len(b) = Len(t)
    BY DataProperties
  <2> HIDE DEF a, b
  <2>2. /\ a \o b \in Seq(Report)
        /\ Len(a \o b) = Len(a) + Len(b)
        /\ \A i \in 1 .. Len(a) + Len(b) : (a \o b)[i]
             = IF i <= Len(a) THEN a[i] ELSE b[i - Len(a)]
    BY <2>1, ConcatProperties
  <2> QED
    BY <2>1, <2>2 DEF a, b
<1>3. Link!DataOf(s \o t) \in Seq(Report) /\ Len(Link!DataOf(s \o t)) = Len(s) + Len(t)
  BY <1>1, DataProperties
<1>4. \A i \in 1 .. Len(s) + Len(t) : Link!DataOf(s \o t)[i]
        = (Link!DataOf(s) \o Link!DataOf(t))[i]
  <2> TAKE i \in 1 .. Len(s) + Len(t)
  <2>1. Link!DataOf(s \o t)[i] = (s \o t)[i].data
    BY <1>1, DataProperties
  <2>2. CASE i <= Len(s)
    <3>1. i \in 1 .. Len(s)
      BY <1>1, <2>2
    <3>2. Link!DataOf(s)[i] = s[i].data
      BY <3>1, DataProperties
    <3> QED
      BY <1>1, <1>2, <2>1, <2>2, <3>2
  <2>3. CASE ~(i <= Len(s))
    <3>1. i - Len(s) \in 1 .. Len(t)
      BY <1>1, <2>3
    <3>2. Link!DataOf(t)[i - Len(s)] = t[i - Len(s)].data
      BY <3>1, DataProperties
    <3> QED
      BY <1>1, <1>2, <2>1, <2>3, <3>2
  <2> QED
    BY <2>2, <2>3
<1> QED
  BY <1>2, <1>3, <1>4, SeqEqual

\* The two parts of a sequence.
LEMMA PartsOfConcat ==
  ASSUME NEW S, NEW s \in Seq(S), NEW t \in Seq(S)
  PROVE  /\ Len(s) \in 0 .. Len(s \o t)
         /\ SubSeq(s \o t, 1, Len(s)) = s
         /\ SubSeq(s \o t, Len(s) + 1, Len(s \o t)) = t
<1> DEFINE all == s \o t
<1>1. /\ all \in Seq(S)
      /\ Len(all) = Len(s) + Len(t)
      /\ \A i \in 1 .. Len(s) + Len(t) : all[i] = IF i <= Len(s) THEN s[i] ELSE t[i - Len(s)]
      /\ Len(s) \in Nat /\ Len(t) \in Nat
  BY ConcatProperties, LenProperties
<1> HIDE DEF all
<1>2. \A i \in 1 .. Len(all) : all[i] \in S
  BY <1>1, ElementOfSeq
<1>3. SubSeq(all, 1, Len(s)) = s
  <2>1. \A i \in 1 .. Len(s) : all[i] \in S
    BY <1>1, <1>2
  <2>2. /\ SubSeq(all, 1, Len(s)) \in Seq(S)
        /\ Len(SubSeq(all, 1, Len(s))) = Len(s)
        /\ \A i \in 1 .. Len(s) : SubSeq(all, 1, Len(s))[i] = all[i]
    BY <1>1, <2>1, SubSeqProperties
  <2>3. \A i \in 1 .. Len(s) : all[i] = s[i]
    BY <1>1
  <2> QED
    BY <2>2, <2>3, SeqEqual
<1>4. SubSeq(all, Len(s) + 1, Len(all)) = t
  <2>1. \A i \in Len(s) + 1 .. Len(all) : all[i] \in S
    BY <1>1, <1>2
  <2>2. /\ SubSeq(all, Len(s) + 1, Len(all)) \in Seq(S)
        /\ Len(SubSeq(all, Len(s) + 1, Len(all))) = Len(t)
        /\ \A i \in 1 .. Len(t) : SubSeq(all, Len(s) + 1, Len(all))[i] = all[Len(s) + i]
    BY <1>1, <2>1, SubSeqProperties
  <2>3. \A i \in 1 .. Len(t) : all[Len(s) + i] = t[i]
    BY <1>1
  <2> QED
    BY <2>2, <2>3, SeqEqual
<1> QED
  BY <1>1, <1>3, <1>4 DEF all

-----------------------------------------------------------------------------
(* The pipe *)

\* The packets under way to an end, and those of them it has not received.
Rest(e) == chan[e] \o (IF up THEN LinkSession(Link!Peer(e)).send ELSE <<>>)
Flow(e) == LinkSession(e).recv \o Rest(e)

\* What the pipe is made of, in any state.
LEMMA FlowTyped ==
  ASSUME Link!Sizes, Link!TypeOK, NEW e \in Link!End
  PROVE  /\ LinkSession(e).recv \in Seq(Link!Packet) /\ chan[e] \in Seq(Link!Packet)
         /\ Rest(e) \in Seq(Link!Packet) /\ Flow(e) \in Seq(Link!Packet)
         /\ Link!DataOf(LinkSession(e).recv) \in Seq(Report)
         /\ Link!DataOf(Rest(e)) \in Seq(Report)
         /\ Len(Link!DataOf(LinkSession(e).recv)) = Len(LinkSession(e).recv)
         /\ Link!DataOf(Flow(e)) = Link!DataOf(LinkSession(e).recv) \o Link!DataOf(Rest(e))
<1>1. /\ LinkSession(e).recv \in Seq(Link!Packet) /\ chan[e] \in Seq(Link!Packet)
      /\ LinkSession(Link!Peer(e)).send \in Seq(Link!Packet)
  BY SessionsTyped, LinkEnds
<1>2. (IF up THEN LinkSession(Link!Peer(e)).send ELSE <<>>) \in Seq(Link!Packet)
  BY <1>1, EmptySeq
<1>3. Rest(e) \in Seq(Link!Packet)
  BY <1>1, <1>2, ConcatProperties DEF Rest
<1>4. Flow(e) \in Seq(Link!Packet)
  BY <1>1, <1>3, ConcatProperties DEF Flow
<1> QED
  BY <1>1, <1>3, <1>4, DataProperties, DataOfConcat DEF Flow

LEMMA IsFlow ==
  ASSUME Link!Sizes, Link!TypeOK, NEW e \in Link!End
  PROVE  Link!UnderWay(e) = Link!DataOf(Flow(e))
<1>1. (IF state[e] = "DATA" THEN comm[e].recv ELSE <<>>) = LinkSession(e).recv
  BY DEF LinkSession, Link!InitComm
<1>2. (IF up /\ state[Link!Peer(e)] = "DATA" THEN comm[Link!Peer(e)].send ELSE <<>>)
        = IF up THEN LinkSession(Link!Peer(e)).send ELSE <<>>
  BY DEF LinkSession, Link!InitComm
<1>3. /\ LinkSession(e).recv \in Seq(Link!Packet) /\ chan[e] \in Seq(Link!Packet)
      /\ (IF up THEN LinkSession(Link!Peer(e)).send ELSE <<>>) \in Seq(Link!Packet)
  BY SessionsTyped, LinkEnds, EmptySeq
<1>4. Link!UnderWay(e)
        = Link!DataOf((LinkSession(e).recv \o chan[e]) \o (IF up THEN LinkSession(Link!Peer(e)).send ELSE <<>>))
  BY <1>1, <1>2 DEF Link!UnderWay
<1> QED
  BY <1>3, <1>4, Regroup DEF Flow, Rest

\* While the link is up, they are the packets that the invariant speaks of.
LEMMA FlowIsInto ==
  ASSUME Link!Sizes, Link!TypeOK, up, NEW e \in Link!End
  PROVE  Flow(e) = Into(e)
<1>1. /\ LinkSession(e).recv \in Seq(Link!Packet) /\ chan[e] \in Seq(Link!Packet)
      /\ LinkSession(Link!Peer(e)).send \in Seq(Link!Packet)
  BY SessionsTyped, LinkEnds
<1> QED
  BY <1>1, Regroup DEF Flow, Rest, Into

\* Without a link nothing is under way but what was received.
LEMMA NoLink ==
  ASSUME Link!Sizes, LinkInv, ~up, NEW e \in Link!End
  PROVE  Rest(e) = <<>> /\ Flow(e) = LinkSession(e).recv
<1>1. Link!TypeOK /\ chan[e] = <<>>
  BY DEF LinkInv, LifeInv
<1>2. <<>> \o <<>> = <<>>
  BY EmptySeq, ConcatEmptySeq
<1>3. Rest(e) = <<>>
  BY <1>1, <1>2 DEF Rest
<1>4. LinkSession(e).recv \in Seq(Link!Packet)
  BY <1>1, SessionsTyped
<1> QED
  BY <1>3, <1>4, ConcatEmptySeq DEF Flow

\* Before the node subscribes, nothing is under way.
LEMMA NothingYet ==
  ASSUME Link!Sizes, LinkInv, up, \A e \in Link!End : state[e] # "DATA", NEW e \in Link!End
  PROVE  Flow(e) = <<>>
<1>1. Link!TypeOK /\ LaneInto(e) /\ Link!Peer(e) \in Link!End
  BY LinkEnds DEF LinkInv
<1>2. LinkSession(e) = Link!InitComm /\ LinkSession(Link!Peer(e)) = Link!InitComm
  BY <1>1 DEF LinkSession
<1>3. Flow(e) \in Seq(Link!Packet) /\ Lane(0, 0, 0, Flow(e))
  BY <1>1, <1>2, FlowTyped, FlowIsInto DEF LaneInto, Link!InitComm
<1>4. Len(Flow(e)) \in {0, 1, 2}
  BY <1>3, NumbersTyped, LaneLength
<1>5. SEQ_SIZE \in Nat /\ SEQ_SIZE >= 4
  BY DEF Link!Sizes
<1>6. Len(Flow(e)) = 0
  <2> DEFINE n == Len(Flow(e))
  <2>1. n \in {0, 1, 2} /\ (0 = Back(0, n) \/ 0 = Back(0, n + 1))
    BY <1>3, <1>4 DEF Lane
  <2> HIDE DEF n
  <2>2. n = 0
    BY <1>5, <2>1 DEF Back
  <2> QED
    BY <2>2 DEF n
<1> QED
  BY <1>3, <1>6, EmptySeq

-----------------------------------------------------------------------------
(* Who is ahead *)

AheadFacts ==
  /\ ~(up /\ state["node"] = "DATA") => Link!Ahead = "none"
  /\ \A e \in Link!End : Link!Number(e) = LinkSession(e).x
  /\ Link!Sizes /\ Link!TypeOK /\ up /\ state["node"] = "DATA" =>
       \A e \in Link!End : LET x == LinkSession(e).x
                               y == LinkSession(Link!Peer(e)).x
                           IN  /\ y = x => Link!Ahead = "none"
                               /\ y = Link!Succ(x) => Link!Ahead = Link!Peer(e)

LEMMA Aheads == AheadFacts
<1>1. \A e \in Link!End : Link!Number(e) = LinkSession(e).x
  BY DEF Link!Number, LinkSession, Link!InitComm
<1>2. ~(up /\ state["node"] = "DATA") => Link!Ahead = "none"
  BY DEF Link!Ahead
<1>3. ASSUME Link!Sizes, Link!TypeOK, up, state["node"] = "DATA", NEW e \in Link!End
      PROVE  /\ LinkSession(Link!Peer(e)).x = LinkSession(e).x => Link!Ahead = "none"
             /\ LinkSession(Link!Peer(e)).x = Link!Succ(LinkSession(e).x)
                  => Link!Ahead = Link!Peer(e)
  <2>1. /\ "ap" \in Link!End /\ "node" \in Link!End /\ (e = "ap" \/ e = "node")
        /\ Link!Peer("ap") = "node" /\ Link!Peer("node") = "ap"
    BY DEF Link!End, Link!Life!End, Link!Peer
  <2> DEFINE a == LinkSession("ap").x
             b == LinkSession("node").x
  <2>2. a \in Link!Seqno /\ b \in Link!Seqno
    BY <1>3, <2>1, SessionsTyped
  <2>3. Link!Number("ap") = a /\ Link!Number("node") = b
    BY <1>1, <2>1
  <2> HIDE DEF a, b
  <2>4. Link!Succ(a) # a /\ Link!Succ(b) # b /\ (b = Link!Succ(a) => a # Link!Succ(b))
    BY <1>3, <2>2 DEF Link!Succ, Link!Seqno, Link!Sizes
  <2>5. Link!Ahead = IF a = b THEN "none" ELSE IF a = Link!Succ(b) THEN "ap" ELSE "node"
    BY <1>3, <2>3 DEF Link!Ahead
  <2> QED
    BY <2>1, <2>4, <2>5 DEF a, b
<1> QED
  BY <1>1, <1>2, <1>3 DEF AheadFacts

LEMMA AheadsNext == AheadFacts'
BY Aheads, PTL

-----------------------------------------------------------------------------
(* The steps of the pipe *)

\* What holds of the flows in any state, also the next one.
FlowFacts ==
  /\ Link!Sizes /\ Link!TypeOK =>
       \A e \in Link!End : Link!UnderWay(e) = Link!DataOf(Flow(e))
         /\ Flow(e) \in Seq(Link!Packet)
  /\ Link!Sizes /\ Link!TypeOK /\ up => \A e \in Link!End : Flow(e) = Into(e)
  /\ Link!Sizes /\ LinkInv /\ ~up => \A e \in Link!End : Flow(e) = LinkSession(e).recv
  /\ Link!Sizes /\ LinkInv /\ up
       /\ (\A e \in Link!End : state[e] # "DATA") => \A e \in Link!End : Flow(e) = <<>>

LEMMA Flows == FlowFacts
BY IsFlow, FlowTyped, FlowIsInto, NoLink, NothingYet DEF FlowFacts

LEMMA FlowsNext == FlowFacts'
BY Flows, PTL

LEMMA SizesStay == Link!Sizes => Link!Sizes'
BY DEF Link!Sizes

\* Without a new number nobody gets ahead.
LEMMA SameAhead ==
  ASSUME UNCHANGED <<up, conn, state>>,
         \A e \in Link!End : LinkSession(e)'.x = LinkSession(e).x
  PROVE  Link!Ahead' = Link!Ahead
<1>1. "ap" \in Link!End /\ "node" \in Link!End
  BY DEF Link!End, Link!Life!End
<1>2. /\ Link!Number("ap")' = Link!Number("ap")
      /\ Link!Number("node")' = Link!Number("node")
  BY <1>1, Aheads, AheadsNext DEF AheadFacts
<1> QED
  BY <1>2 DEF Link!Ahead, Link!Succ

\* A poll takes what was received, and adds what it produces.
LEMMA PollRefines ==
  ASSUME Link!Sizes, LinkInv, LinkInv', NEW e \in Link!End, NEW data \in Report,
         Link!Process(e, data)
  PROVE  Link!Pipe!Next
<1> DEFINE f    == Link!Peer(e)
           got  == Link!DataOf(LinkSession(e).recv)
           rest == Link!DataOf(Rest(e))
           n    == Len(got)
           sent == IF Link!Produces(e) THEN <<data>> ELSE <<>>
           joined == up /\ state["node"] = "DATA"
<1>0. /\ \A g \in Link!End : Link!UnderWay(g) = Link!DataOf(Flow(g))
           /\ Link!UnderWay(g)' = Link!DataOf(Flow(g)')
      /\ \A g \in Link!End : Flow(g)' \in Seq(Link!Packet)
      /\ up' => \A g \in Link!End : Flow(g)' = Into(g)'
  BY Flows, FlowsNext, SizesStay DEF FlowFacts, LinkInv, Link!DataOf
<1>1. Link!TypeOK /\ Link!TypeOK' /\ LifeInv
  BY DEF LinkInv
<1>2. f \in Link!End /\ f # e /\ Link!Peer(f) = e /\ \A g \in Link!End : g = e \/ g = f
  BY LinkEnds
<1>3. /\ state[e] = "DATA" /\ UNCHANGED <<up, conn, state, chan>>
      /\ LinkSession(f)' = LinkSession(f) /\ LinkSession(e)' = comm'[e]
      /\ LinkSession(e) = comm[e]
  BY <1>2 DEF Link!Process, LinkSession
<1>4. joined <=> up
  BY <1>1, <1>2, <1>3, LinkEnds DEF LifeInv, Link!End, Link!Life!End
<1>5. Link!UnderWay(e) = got \o rest /\ got \in Seq(Report) /\ rest \in Seq(Report)
  BY <1>1, FlowTyped, IsFlow
<1>6. Link!UnderWay(e)' = rest
  <2>1. comm'[e].recv = <<>>
    BY <1>1 DEF Link!Process, Link!TypeOK
  <2>2. Rest(e)' = Rest(e)
    BY <1>3 DEF Rest
  <2>3. Rest(e) \in Seq(Link!Packet)
    BY <1>1, FlowTyped
  <2>4. Flow(e)' = Rest(e)
    BY <1>3, <2>1, <2>2, <2>3, ConcatEmptySeq DEF Flow
  <2>5. Link!UnderWay(e)' = Link!DataOf(Flow(e)')
    BY <1>0
  <2> QED
    BY <2>4, <2>5
<1>7. Link!UnderWay(f)' = IF up THEN Link!UnderWay(f) \o sent ELSE Link!UnderWay(f)
  <2>1. Link!UnderWay(f) = Link!DataOf(Flow(f)) /\ Link!UnderWay(f)' = Link!DataOf(Flow(f)')
    BY <1>0, <1>2
  <2>2. CASE ~up
    BY <1>3, <2>1, <2>2 DEF Flow, Rest
  <2>3. CASE up /\ ~Link!Produces(e)
    <3>1. comm'[e].send = comm[e].send
      BY <1>1, <2>3 DEF Link!Process, Link!TypeOK
    <3>2. Flow(f)' = Flow(f)
      BY <1>2, <1>3, <3>1 DEF Flow, Rest
    <3>3. Link!DataOf(Flow(f)) \in Seq(Report)
      BY <1>1, <1>2, FlowTyped, DataProperties
    <3> QED
      BY <2>1, <2>3, <3>2, <3>3, ConcatEmptySeq
  <2>4. CASE up /\ Link!Produces(e)
    <3> DEFINE p == [seq |-> Link!Succ(comm[e].x), data |-> data]
               r == LinkSession(f).recv
               c == chan[f]
    <3>1. comm[e].send = <<>> /\ comm'[e].send = <<p>>
      BY <1>1, <2>4 DEF Link!Process, Link!TypeOK, Link!Produces
    <3>2. p \in Link!Packet /\ p.data = data
      BY <1>1, NumbersTyped DEF Link!TypeOK, Link!Packet
    <3>3. r \in Seq(Link!Packet) /\ c \in Seq(Link!Packet) /\ <<p>> \in Seq(Link!Packet)
      BY <1>1, <1>2, <3>2, SessionsTyped
    <3>4. Flow(f) = r \o (c \o <<>>) /\ Flow(f)' = r \o (c \o <<p>>)
      BY <1>2, <1>3, <2>4, <3>1 DEF Flow, Rest
    <3> HIDE DEF p, r, c
    <3>5. c \o <<>> = c /\ r \o c \in Seq(Link!Packet) /\ r \o (c \o <<p>>) = (r \o c) \o <<p>>
      <4>1. c \o <<>> = c
        BY <3>3, ConcatEmptySeq
      <4>2. r \o c \in Seq(Link!Packet)
        BY <3>3, ConcatProperties
      <4> QED
        BY <3>3, <4>1, <4>2, Regroup
    <3>6. Link!DataOf(Flow(f)') = Link!DataOf(Flow(f)) \o Link!DataOf(<<p>>)
      <4>1. Link!DataOf((r \o c) \o <<p>>) = Link!DataOf(r \o c) \o Link!DataOf(<<p>>)
        BY <3>3, <3>5, DataOfConcat
      <4>2. Flow(f) = r \o c /\ Flow(f)' = (r \o c) \o <<p>>
        BY <3>4, <3>5, Zenon
      <4> QED
        BY <4>1, <4>2, Zenon
    <3>7. Link!DataOf(<<p>>) = <<data>>
      BY <3>2, DataOfOne
    <3> QED
      BY <2>1, <2>4, <3>6, <3>7
  <2> QED
    BY <2>2, <2>3, <2>4
<1>8. n \in 0 .. Len(got \o rest)
      /\ SubSeq(got \o rest, n + 1, Len(got \o rest)) = rest
  BY <1>5, PartsOfConcat
<1>9. UNCHANGED <<up, conn, state>> /\ Link!Sizes'
  BY <1>3, SizesStay
<1>10. ASSUME up, Link!Produces(e)
       PROVE  /\ Link!Ahead # e
              /\ Len(rest) <= (IF Link!Ahead = f THEN 1 ELSE 0)
              /\ Link!Ahead' = (IF Link!Ahead = "none" THEN e ELSE "none")
  <2> DEFINE x == LinkSession(f).x
             m == comm[e].x
  <2>1. joined /\ (up /\ state["node"] = "DATA")'
    BY <1>3, <1>4, <1>10
  <2>2. /\ x \in Link!Seqno /\ m \in Link!Seqno /\ LinkSession(f).y \in Link!Seqno
        /\ comm'[e].y = Link!DrainedY(e) /\ Link!DrainedY(e) \in Link!Seqno
        /\ comm'[e].x = Link!Succ(m)
        /\ comm'[e].send = <<[seq |-> Link!Succ(m), data |-> data]>>
    BY <1>1, <1>2, <1>3, <1>10, SessionsTyped, DrainedTyped
       DEF Link!Process, Link!TypeOK, Comm
  <2>3. LaneInto(e)' /\ LaneInto(f)'
    BY <1>2, <1>3, <1>10 DEF LinkInv
  <2>4. Flow(e)' = Into(e)' /\ Flow(f)' = Into(f)' /\ Flow(e)' \in Seq(Link!Packet)
        /\ Flow(f)' \in Seq(Link!Packet)
    BY <1>0, <1>2, <1>3, <1>10
  <2>5. /\ Lane(x, Link!DrainedY(e), Link!Succ(m), Flow(e)')
        /\ Lane(Link!Succ(m), LinkSession(f).y, x, Flow(f)')
    <3>1. Link!Peer(e)' = f /\ Link!Peer(f)' = e
      BY <1>2
    <3>2. LinkSession(e)'.x = Link!Succ(m) /\ LinkSession(e)'.y = Link!DrainedY(e)
          /\ LinkSession(f)'.x = x /\ LinkSession(f)'.y = LinkSession(f).y
      BY <1>3, <2>2
    <3>3. Lane(LinkSession(f)'.x, LinkSession(e)'.y, LinkSession(e)'.x, Into(e)')
      BY <2>3, <3>1 DEF LaneInto, Lane
    <3>4. Lane(LinkSession(e)'.x, LinkSession(f)'.y, LinkSession(f)'.x, Into(f)')
      BY <2>3, <3>1 DEF LaneInto, Lane
    <3> QED
      BY <2>4, <3>2, <3>3, <3>4
  <2>6. Len(Flow(f)') # 0
    <3>1. Link!UnderWay(f)' = Link!UnderWay(f) \o <<data>> /\ Link!UnderWay(f) \in Seq(Report)
      BY <1>0, <1>1, <1>2, <1>7, <1>10, FlowTyped, IsFlow, DataProperties
    <3>2. Len(Link!UnderWay(f)') # 0
      BY <3>1
    <3> QED
      BY <1>0, <1>2, <3>2, DataProperties
  <2>7. (x = m /\ Len(Flow(e)') = 0) \/ (x = Link!Succ(m) /\ Len(Flow(e)') <= 1)
    BY <2>2, <2>4, <2>5, <2>6, LaneTurn
  <2>8. Len(Flow(e)') = Len(rest)
    BY <1>0, <1>2, <1>6, DataProperties
  <2>9. /\ x = m => Link!Ahead = "none" /\ Link!Ahead' = e
        /\ x = Link!Succ(m) => Link!Ahead = f /\ Link!Ahead' = "none"
    <3>1. /\ x = m => Link!Ahead = "none"
          /\ x = Link!Succ(m) => Link!Ahead = f
      BY <1>1, <1>3, <2>1, Aheads DEF AheadFacts
    <3>2. /\ LinkSession(f)'.x = LinkSession(e)'.x => Link!Ahead' = "none"
          /\ LinkSession(e)'.x = Link!Succ(LinkSession(f)'.x) => Link!Ahead' = e
      BY <1>1, <1>2, <1>9, <2>1, AheadsNext DEF AheadFacts, Link!Succ
    <3> QED
      BY <1>3, <2>2, <3>1, <3>2
  <2>10. e # "none" /\ f # "none" /\ f # e
    BY <1>2 DEF Link!End, Link!Life!End
  <2> QED
    <3>1. CASE x = m /\ Len(Flow(e)') = 0
      BY <2>8, <2>9, <2>10, <3>1
    <3>2. CASE x = Link!Succ(m) /\ Len(Flow(e)') <= 1
      BY <2>8, <2>9, <2>10, <3>2
    <3> QED
      BY <2>7, <3>1, <3>2
<1>12. Link!Ahead' = Link!Ahead \/ (up /\ Link!Produces(e))
  <2>1. CASE ~up
    BY <1>9, <2>1, Aheads, AheadsNext DEF AheadFacts
  <2>2. CASE ~Link!Produces(e)
    <3>1. comm'[e].x = comm[e].x
      BY <1>1, <2>2 DEF Link!Process, Link!TypeOK
    <3>2. \A g \in Link!End : LinkSession(g)'.x = LinkSession(g).x
      BY <1>2, <1>3, <3>1
    <3> QED
      BY <1>9, <3>2, SameAhead
  <2> QED
    BY <2>1, <2>2
<1>11. sent \in {<<>>} \cup {<<p>> : p \in Report} /\ Len(sent) <= 1
  OBVIOUS
<1>13. joined /\ sent # <<>> => up /\ Link!Produces(e)
  <2>1. ~Link!Produces(e) => sent = <<>>
    OBVIOUS
  <2> HIDE DEF sent, joined
  <2> QED
    BY <1>4, <2>1, Zenon
<1>14. Len(Link!UnderWay(e)) - n = Len(rest)
  BY <1>5, ConcatProperties
<1> HIDE DEF f, got, rest, n, sent
<1> QED
  <2>1. [g \in Link!End |-> Link!UnderWay(g)]'
          = [g \in Link!End |->
               IF g = e THEN SubSeq(Link!UnderWay(e), n + 1, Len(Link!UnderWay(e)))
               ELSE IF joined THEN Link!UnderWay(g) \o sent ELSE Link!UnderWay(g)]
    BY <1>2, <1>4, <1>5, <1>6, <1>7, <1>8
  <2>2. Link!Pipe!Peer(e) = f /\ e # "none" /\ f # "none" /\ e \in Link!Pipe!End
    BY DEF Link!Pipe!Peer, Link!Pipe!End, Link!End, Link!Life!End, f, Link!Peer
  <2>3. joined /\ sent # <<>> => Link!Pipe!MaySend(e, Len(Link!UnderWay(e)) - n)
    BY <1>10, <1>13, <1>14, <2>2 DEF Link!Pipe!MaySend
  <2>4. Link!Ahead' = IF ~joined \/ sent = <<>> THEN Link!Ahead
                      ELSE IF Link!Ahead = "none" THEN e ELSE "none"
    BY <1>4, <1>10, <1>12, <1>13 DEF sent
  <2>5. Link!Pipe!Poll(e, n, sent)
    BY <1>3, <1>5, <1>8, <1>11, <2>1, <2>2, <2>3, <2>4
       DEF Link!Pipe!Poll, Link!Pipe!End, Link!End, Link!Life!End
  <2> QED
    BY <1>5, <1>8, <1>11, <2>2, <2>5 DEF Link!Pipe!Next, Link!Pipe!End, Link!End, Link!Life!End

\* Callbacks of the stacks move packets along, and the pipe stays as it is.
LEMMA SameFlows ==
  ASSUME Link!Sizes, Link!TypeOK, Link!TypeOK', UNCHANGED <<up, conn, state>>,
         \A e \in Link!End : Flow(e)' = Flow(e) /\ LinkSession(e)'.x = LinkSession(e).x
  PROVE  UNCHANGED Link!Pipe!vars
<1>1. \A e \in Link!End : Link!UnderWay(e)' = Link!UnderWay(e)
  BY Flows, FlowsNext, SizesStay DEF FlowFacts, Link!DataOf
<1>2. Link!Ahead' = Link!Ahead
  BY SameAhead
<1> QED
  BY <1>1, <1>2 DEF Link!Pipe!vars

LEMMA SendRefines ==
  ASSUME Link!Sizes, LinkInv, LinkInv', NEW e \in Link!End, Link!SendData(e)
  PROVE  UNCHANGED Link!Pipe!vars
<1>1. Link!TypeOK /\ Link!TypeOK' /\ LifeInv
  BY DEF LinkInv
<1>2. Link!Peer(e) \in Link!End /\ Link!Peer(e) # e /\ Link!Peer(Link!Peer(e)) = e
      /\ \A g \in Link!End : g = e \/ g = Link!Peer(e)
  BY LinkEnds
<1>3. UNCHANGED <<up, conn, state>>
  BY DEF Link!SendData
<1> DEFINE f == Link!Peer(e)
<1>4. CASE /\ chan' = chan
           /\ comm' = comm \/ comm' = [comm EXCEPT ![e].auto_send = FALSE]
  <2>1. \A g \in Link!End : /\ comm'[g].recv = comm[g].recv /\ comm'[g].send = comm[g].send
                            /\ comm'[g].x = comm[g].x
    <3>1. CASE comm' = comm
      BY <3>1
    <3>2. CASE comm' = [comm EXCEPT ![e].auto_send = FALSE]
      BY <1>1, <3>2 DEF Link!TypeOK
    <3> QED
      BY <1>4, <3>1, <3>2
  <2>2. \A g \in Link!End : LinkSession(g)'.recv = LinkSession(g).recv
          /\ LinkSession(g)'.send = LinkSession(g).send /\ LinkSession(g)'.x = LinkSession(g).x
    BY <1>3, <2>1 DEF LinkSession
  <2>3. \A g \in Link!End : Flow(g)' = Flow(g)
    <3> TAKE g \in Link!End
    <3>1. Link!Peer(g) \in Link!End
      BY LinkEnds
    <3> QED
      BY <1>3, <1>4, <2>2, <3>1 DEF Flow, Rest
  <2> QED
    BY <1>1, <1>3, <2>2, <2>3, SameFlows
<1>5. CASE /\ state[e] = "DATA"
           /\ chan' = IF up THEN [chan EXCEPT ![f] = @ \o comm[e].send] ELSE chan
           /\ comm' = [comm EXCEPT ![e].send = <<>>]
  <2>1. /\ comm'[e].recv = comm[e].recv /\ comm'[e].send = <<>> /\ comm'[f] = comm[f]
        /\ chan'[e] = chan[e] /\ chan'[f] = IF up THEN chan[f] \o comm[e].send ELSE chan[f]
    BY <1>1, <1>2, <1>5 DEF Link!TypeOK
  <2>2. /\ LinkSession(e)'.recv = LinkSession(e).recv /\ LinkSession(f)' = LinkSession(f)
        /\ LinkSession(e).send = comm[e].send /\ LinkSession(e)'.send = <<>>
    BY <1>3, <1>5, <2>1 DEF LinkSession
  <2>3. Flow(e)' = Flow(e)
    BY <1>3, <2>1, <2>2 DEF Flow, Rest
  <2>4. Rest(f)' = Rest(f)
    <3>1. CASE ~up
      BY <1>2, <1>3, <2>1, <3>1 DEF Rest
    <3>2. CASE up
      <4>1. Rest(f) = chan[f] \o comm[e].send /\ Rest(f)' = (chan[f] \o comm[e].send) \o <<>>
        BY <1>2, <1>3, <2>1, <2>2, <3>2 DEF Rest
      <4>2. chan[f] \o comm[e].send \in Seq(Link!Packet)
        BY <1>1, <1>2, <2>2, SessionsTyped, ConcatProperties
      <4> QED
        BY <4>1, <4>2, ConcatEmptySeq
    <3> QED
      BY <3>1, <3>2
  <2>5. Flow(f)' = Flow(f)
    BY <2>2, <2>4 DEF Flow
  <2>6. \A g \in Link!End : Flow(g)' = Flow(g) /\ LinkSession(g)'.x = LinkSession(g).x
    <3>1. comm'[e].x = comm[e].x
      BY <1>1, <1>5 DEF Link!TypeOK
    <3>2. LinkSession(e)'.x = LinkSession(e).x
      BY <1>3, <3>1 DEF LinkSession
    <3> QED
      BY <1>2, <2>2, <2>3, <2>5, <3>2
  <2> QED
    BY <1>1, <1>3, <2>6, SameFlows
<1> QED
  BY <1>4, <1>5 DEF Link!SendData

LEMMA ReceiveRefines ==
  ASSUME Link!Sizes, LinkInv, LinkInv', NEW e \in Link!End, Link!Receive(e)
  PROVE  UNCHANGED Link!Pipe!vars
<1> DEFINE f == Link!Peer(e)
<1>1. Link!TypeOK /\ Link!TypeOK' /\ LifeInv
  BY DEF LinkInv
<1>2. f \in Link!End /\ f # e /\ Link!Peer(f) = e /\ \A g \in Link!End : g = e \/ g = f
  BY LinkEnds
<1>3. UNCHANGED <<up, conn, state>> /\ chan[e] # <<>> /\ state[e] = "DATA"
  BY DEF Link!Receive
<1>4. up
  BY <1>1, <1>3 DEF LifeInv
<1>5. LaneInto(e) /\ LaneInto(f)
  BY <1>2, <1>4 DEF LinkInv
<1>6. comm'[e].recv = Append(comm[e].recv, Head(chan[e]))
  BY <1>1, <1>5, ReceiveLanes
<1>7. /\ comm'[e].send = comm[e].send /\ comm'[f] = comm[f]
      /\ chan'[e] = Tail(chan[e]) /\ chan'[f] = chan[f]
  BY <1>1, <1>2 DEF Link!Receive, Link!TypeOK
<1>8. /\ LinkSession(e).recv = comm[e].recv /\ LinkSession(e)'.recv = comm'[e].recv
      /\ LinkSession(e)'.send = LinkSession(e).send /\ LinkSession(f)' = LinkSession(f)
  BY <1>3, <1>7 DEF LinkSession
<1>9. Flow(f)' = Flow(f)
  BY <1>2, <1>3, <1>7, <1>8 DEF Flow, Rest
<1>10. Flow(e)' = Flow(e)
  <2> DEFINE r == comm[e].recv
             c == chan[e]
             h == Append(r, Head(c))
             s == LinkSession(f).send
  <2>1. r \in Seq(Link!Packet) /\ c \in Seq(Link!Packet) /\ s \in Seq(Link!Packet) /\ c # <<>>
    BY <1>1, <1>2, <1>3, <1>8, SessionsTyped
  <2>2. Flow(e) = r \o (c \o s) /\ Flow(e)' = h \o (Tail(c) \o s)
    BY <1>3, <1>4, <1>6, <1>7, <1>8 DEF Flow, Rest
  <2> HIDE DEF r, c, s
  <2>3. h \in Seq(Link!Packet) /\ Tail(c) \in Seq(Link!Packet) /\ h \o Tail(c) = r \o c
    BY <2>1, FlowMoves
  <2>4. (h \o Tail(c)) \o s = h \o (Tail(c) \o s) /\ (r \o c) \o s = r \o (c \o s)
    BY <2>1, <2>3, Regroup, ZenonT(30)
  <2> QED
    BY <2>2, <2>3, <2>4
<1>11. LinkSession(e)'.x = LinkSession(e).x
  <2>1. comm'[e].x = comm[e].x
    BY <1>1 DEF Link!Receive, Link!TypeOK
  <2> QED
    BY <1>3, <2>1 DEF LinkSession
<1>12. \A g \in Link!End : Flow(g)' = Flow(g) /\ LinkSession(g)'.x = LinkSession(g).x
  BY <1>2, <1>8, <1>9, <1>10, <1>11
<1> QED
  BY <1>1, <1>3, <1>12, SameFlows

\* What an end has received may be all that arrives.
LEMMA HasArrived ==
  ASSUME Link!Sizes, Link!TypeOK, NEW e \in Link!End
  PROVE  Link!DataOf(LinkSession(e).recv) \in Link!Pipe!Arrived(e)
<1> DEFINE got  == Link!DataOf(LinkSession(e).recv)
           rest == Link!DataOf(Rest(e))
<1>1. got \in Seq(Report) /\ rest \in Seq(Report) /\ Link!UnderWay(e) = got \o rest
  BY FlowTyped, IsFlow
<1> HIDE DEF got, rest
<1>2. Len(got) \in 0 .. Len(got \o rest) /\ SubSeq(got \o rest, 1, Len(got)) = got
  BY <1>1, PartsOfConcat
<1> DEFINE most == IF state[e] = "DATA" THEN Len(Link!UnderWay(e)) ELSE 0
<1>3. Len(got) \in 0 .. most
  <2>1. state[e] # "DATA" => got = <<>>
    BY DataOfNone DEF got, LinkSession, Link!InitComm
  <2> QED
    BY <1>1, <1>2, <2>1
<1>4. got \in {SubSeq(Link!UnderWay(e), 1, n) : n \in 0 .. most}
  BY <1>1, <1>2, <1>3
<1>5. /\ [g \in Link!End |-> Link!UnderWay(g)][e] = Link!UnderWay(e)
      /\ [g \in Link!End |-> state[g] = "DATA"][e] = (state[e] = "DATA")
  OBVIOUS
<1> QED
  BY <1>4, <1>5 DEF Link!Pipe!Arrived, got

\* Connecting, subscribing, and the events of a lost connection.
LEMMA LifeRefines ==
  ASSUME Link!Sizes, LinkInv, LinkInv',
         Link!Connect \/ Link!Subscribe \/ Link!Subscribed \/ Link!LinkLoss
         \/ \E e \in Link!End : Link!Disconnected(e) \/ Link!Reboot(e)
  PROVE  [Link!Pipe!Next]_(Link!Pipe!vars)
<1> DEFINE joined == up /\ state["node"] = "DATA"
<1>0. /\ \A e \in Link!End : Link!UnderWay(e) = Link!DataOf(Flow(e))
           /\ Link!UnderWay(e)' = Link!DataOf(Flow(e)')
      /\ \A e \in Link!End : Link!DataOf(LinkSession(e).recv) \in Link!Pipe!Arrived(e)
      /\ ~up  => \A e \in Link!End : Flow(e) = LinkSession(e).recv
      /\ ~up' => \A e \in Link!End : Flow(e)' = LinkSession(e)'.recv
      /\ up  /\ (\A e \in Link!End : state[e] # "DATA")  => \A e \in Link!End : Flow(e) = <<>>
      /\ up' /\ (\A e \in Link!End : state'[e] # "DATA") => \A e \in Link!End : Flow(e)' = <<>>
  BY Flows, FlowsNext, SizesStay, HasArrived DEF FlowFacts, LinkInv, Link!DataOf
<1>1. Link!TypeOK /\ Link!TypeOK' /\ LifeInv /\ LifeInv'
  BY DEF LinkInv
<1>2. /\ "ap" \in Link!End /\ "node" \in Link!End /\ \A e \in Link!End : e = "ap" \/ e = "node"
      /\ Link!End = Link!Pipe!End
  BY DEF Link!End, Link!Life!End, Link!Pipe!End
<1>3. Link!InitComm.recv = <<>> /\ Link!InitComm.send = <<>> /\ Link!InitComm.x = 0
  BY DEF Link!InitComm
<1>10. (~joined => Link!Ahead = "none") /\ (~joined' => Link!Ahead' = "none")
  BY Aheads, AheadsNext DEF AheadFacts
<1>11. ASSUME joined', LinkSession("ap")'.x = LinkSession("node")'.x
      PROVE  Link!Ahead' = "none"
  <2>1. Link!Number("ap")' = Link!Number("node")'
    BY <1>2, <1>11, AheadsNext DEF AheadFacts
  <2> QED
    BY <2>1 DEF Link!Ahead, Link!Succ
<1>4. CASE Link!Connect
  <2>1. ~up /\ ~conn["ap"] /\ ~conn["node"] /\ up' /\ state' = state
    BY <1>4 DEF Link!Connect, Link!Life!Connect
  <2>2. \A e \in Link!End : state[e] # "DATA"
    BY <1>1, <1>2, <2>1 DEF LifeInv
  <2>3. \A e \in Link!End : Flow(e) = <<>> /\ Flow(e)' = <<>>
    BY <1>0, <1>3, <2>1, <2>2 DEF LinkSession
  <2>4. ~joined /\ ~joined'
    BY <1>2, <2>1, <2>2
  <2> QED
    BY <1>0, <1>10, <2>1, <2>3, <2>4 DEF Link!Pipe!vars
<1>5. CASE Link!Subscribe
  <2>1. /\ up /\ up' /\ state["node"] = "IDLE" /\ state["ap"] = "IDLE"
        /\ state' = [state EXCEPT !["node"] = "DATA"] /\ comm' = comm /\ chan' = chan
    BY <1>5 DEF Link!Subscribe, Link!Life!Subscribe
  <2>2. comm["node"] = Link!InitComm
    BY <1>1, <2>1 DEF LifeInv
  <2>3. \A e \in Link!End : LinkSession(e)' = LinkSession(e)
    BY <1>1, <1>2, <2>1, <2>2 DEF LinkSession, Link!TypeOK
  <2>4. \A e \in Link!End : Flow(e)' = Flow(e)
    BY <2>1, <2>3, LinkEnds DEF Flow, Rest
  <2>5. [e \in Link!End |-> state[e] = "DATA"]'
          = [[e \in Link!End |-> state[e] = "DATA"] EXCEPT !["node"] = TRUE]
    BY <1>1, <1>2, <2>1 DEF Link!TypeOK
  <2>6. ~joined /\ joined'
    BY <1>1, <1>2, <2>1 DEF Link!TypeOK
  <2>7. \A e \in Link!End : state[e] # "DATA"
    BY <1>2, <2>1
  <2>8. \A e \in Link!End : Link!UnderWay(e)' = Link!UnderWay(e)
    BY <1>0, <2>4
  <2> QED
    <3>1. \A e \in Link!Pipe!End : ~[g \in Link!End |-> state[g] = "DATA"][e]
      BY <1>2, <2>7
    <3>2. [e \in Link!End |-> Link!UnderWay(e)]' = [e \in Link!End |-> Link!UnderWay(e)]
      BY <2>8
    <3>3. LinkSession("ap")'.x = 0 /\ LinkSession("node")'.x = 0
      BY <1>2, <1>3, <2>2, <2>3, <2>7 DEF LinkSession
    <3>4. Link!Ahead' = Link!Ahead
      BY <1>10, <1>11, <2>6, <3>3
    <3>5. Link!Pipe!Open
      BY <2>5, <2>6, <3>1, <3>2, <3>4 DEF Link!Pipe!Open
    <3> QED
      BY <3>5 DEF Link!Pipe!Next
<1>6. CASE Link!Subscribed
  <2>1. /\ up /\ up' /\ state["node"] = "DATA" /\ state["ap"] = "IDLE"
        /\ state' = [state EXCEPT !["ap"] = "DATA"] /\ chan' = chan
        /\ comm' = [comm EXCEPT !["ap"] = Link!InitComm]
    BY <1>6 DEF Link!Subscribed, Link!Life!Subscribed
  <2>2. \A e \in Link!End : LinkSession(e)' = LinkSession(e)
    BY <1>1, <1>2, <2>1 DEF LinkSession, Link!TypeOK
  <2>3. \A e \in Link!End : Flow(e)' = Flow(e)
    BY <2>1, <2>2, LinkEnds DEF Flow, Rest
  <2>4. [e \in Link!End |-> state[e] = "DATA"]'
          = [[e \in Link!End |-> state[e] = "DATA"] EXCEPT !["ap"] = TRUE]
    BY <1>1, <1>2, <2>1 DEF Link!TypeOK
  <2>5. joined /\ joined'
    BY <1>1, <1>2, <2>1 DEF Link!TypeOK
  <2>6. [e \in Link!End |-> state[e] = "DATA"]["ap"] = FALSE
    BY <1>2, <2>1
  <2>7. \A e \in Link!End : Link!UnderWay(e)' = Link!UnderWay(e)
    BY <1>0, <2>3
  <2>8. Link!Ahead' = Link!Ahead
    <3>1. Link!Number("ap")' = Link!Number("ap") /\ Link!Number("node")' = Link!Number("node")
      BY <1>2, <2>2, Aheads, AheadsNext DEF AheadFacts
    <3> QED
      BY <2>5, <3>1 DEF Link!Ahead, Link!Succ
  <2> QED
    BY <1>2, <2>4, <2>5, <2>6, <2>7, <2>8 DEF Link!Pipe!Next, Link!Pipe!Join
<1>7. CASE Link!LinkLoss
  <2>1. up /\ ~up' /\ state' = state /\ comm' = comm
    BY <1>7 DEF Link!LinkLoss, Link!Life!LinkLoss
  <2>2. \A e \in Link!End : Flow(e)' = LinkSession(e).recv
    BY <1>0, <2>1 DEF LinkSession
  <2>3. CASE joined
    <3>1. \A e \in Link!End : Link!UnderWay(e)' \in Link!Pipe!Arrived(e)
      BY <1>0, <2>2
    <3>2. [e \in Link!End |-> Link!UnderWay(e)]' =
            [e \in Link!End |-> IF e = "ap" THEN Link!UnderWay("ap")' ELSE Link!UnderWay("node")']
      BY <1>2
    <3>3. Link!Pipe!Lose
      BY <1>2, <1>10, <2>1, <2>3, <3>1, <3>2 DEF Link!Pipe!Lose
    <3> QED
      BY <3>3 DEF Link!Pipe!Next
  <2>4. CASE ~joined
    <3>1. \A e \in Link!End : state[e] # "DATA"
      BY <1>1, <1>2, <2>1, <2>4 DEF LifeInv
    <3>2. \A e \in Link!End : Flow(e) = <<>> /\ Flow(e)' = <<>>
      BY <1>0, <1>3, <2>1, <2>2, <3>1 DEF LinkSession
    <3> QED
      BY <1>0, <1>10, <2>1, <2>4, <3>2 DEF Link!Pipe!vars
  <2> QED
    BY <2>3, <2>4
<1>8. ASSUME NEW e \in Link!End, Link!Disconnected(e)
      PROVE  [Link!Pipe!Next]_(Link!Pipe!vars)
  <2>1. /\ ~up /\ ~up' /\ state' = [state EXCEPT ![e] = "IDLE"] /\ comm' = comm
    BY <1>8 DEF Link!Disconnected, Link!Life!Disconnected
  <2>2. LinkSession(e)' = Link!InitComm
        /\ \A g \in Link!End : g # e => LinkSession(g)' = LinkSession(g)
    BY <1>1, <2>1 DEF LinkSession, Link!TypeOK
  <2>3. \A g \in Link!End : Link!UnderWay(g)' = IF g = e THEN <<>> ELSE Link!UnderWay(g)
    BY <1>0, <1>3, <2>1, <2>2, DataOfNone
  <2>4. [g \in Link!End |-> state[g] = "DATA"]'
          = [[g \in Link!End |-> state[g] = "DATA"] EXCEPT ![e] = FALSE]
    BY <1>1, <1>2, <2>1 DEF Link!TypeOK
  <2>5. CASE state[e] = "DATA"
    <3>1. [g \in Link!End |-> Link!UnderWay(g)]'
            = [[g \in Link!End |-> Link!UnderWay(g)] EXCEPT ![e] = <<>>]
      BY <2>3
    <3>2. Link!Pipe!Leave(e)
      BY <1>10, <2>1, <2>4, <2>5, <3>1 DEF Link!Pipe!Leave
    <3> QED
      BY <1>2, <3>2 DEF Link!Pipe!Next
  <2>6. CASE state[e] # "DATA"
    <3>1. Link!UnderWay(e) = <<>>
      BY <1>0, <1>3, <2>1, <2>6, DataOfNone DEF LinkSession
    <3>2. [g \in Link!End |-> state[g] = "DATA"]' = [g \in Link!End |-> state[g] = "DATA"]
      BY <1>1, <2>1, <2>6 DEF Link!TypeOK
    <3>3. \A g \in Link!End : Link!UnderWay(g)' = Link!UnderWay(g)
      BY <2>3, <3>1
    <3> QED
      BY <1>10, <2>1, <3>2, <3>3 DEF Link!Pipe!vars
  <2> QED
    BY <2>5, <2>6
<1>9. ASSUME NEW e \in Link!End, Link!Reboot(e)
      PROVE  [Link!Pipe!Next]_(Link!Pipe!vars)
  <2> DEFINE f == Link!Peer(e)
  <2>0. f \in Link!End /\ f # e /\ \A g \in Link!End : g = e \/ g = f
    BY LinkEnds
  <2>1. /\ ~up' /\ state' = [state EXCEPT ![e] = "IDLE"]
        /\ comm' = [comm EXCEPT ![e] = Link!InitComm]
    BY <1>9 DEF Link!Reboot, Link!Life!Reboot
  <2>2. LinkSession(e)' = Link!InitComm /\ LinkSession(f)' = LinkSession(f)
    BY <1>1, <2>0, <2>1 DEF LinkSession, Link!TypeOK
  <2>3. Link!UnderWay(e)' = <<>> /\ Link!UnderWay(f)' \in Link!Pipe!Arrived(f)
    BY <1>0, <1>3, <2>0, <2>1, <2>2, DataOfNone
  <2>4. [g \in Link!End |-> state[g] = "DATA"]'
          = [[g \in Link!End |-> state[g] = "DATA"] EXCEPT ![e] = FALSE]
    BY <1>1, <1>2, <2>1 DEF Link!TypeOK
  <2>5. [g \in Link!End |-> Link!UnderWay(g)]'
          = [g \in Link!End |-> IF g = e THEN <<>> ELSE Link!UnderWay(f)']
    BY <2>0, <2>3
  <2>6. Link!Pipe!Peer(e) = f
    BY DEF Link!Pipe!Peer, Link!Peer
  <2>7. Link!Pipe!Reboot(e)
    BY <1>2, <1>10, <2>1, <2>3, <2>4, <2>5, <2>6 DEF Link!Pipe!Reboot
  <2> QED
    BY <1>2, <2>7 DEF Link!Pipe!Next
<1> QED
  BY <1>4, <1>5, <1>6, <1>7, <1>8, <1>9

-----------------------------------------------------------------------------
\* ble_comm.c:22 and ble_client.c: numbering, queueing and the callbacks of the stacks add
\* up to a pipe that loses, doubles and reorders nothing while a connection holds, and that
\* a poll empties; for four sequence numbers or more and a queue of two or more.
THEOREM LinkKeepsPipe ==
  ASSUME Link!Sizes
  PROVE  Link!Spec => Link!ImplementsPipe
<1>1. ASSUME Link!Init
      PROVE  Link!Pipe!Init
  <2>1. LinkInv /\ Link!TypeOK /\ ~up
    BY <1>1, InitInv DEF Link!Init, Link!Life!Init, LinkInv
  <2>2. \A e \in Link!End : state[e] # "DATA"
    BY <1>1 DEF Link!Init, Link!Life!Init, Link!End
  <2>3. \A e \in Link!End : Flow(e) = <<>>
    BY <2>1, <2>2, NoLink DEF LinkSession, Link!InitComm
  <2>4. \A e \in Link!End : Link!UnderWay(e) = <<>>
    BY <2>1, <2>3, IsFlow, DataOfNone
  <2>5. Link!Ahead = "none"
    BY <2>1, Aheads DEF AheadFacts
  <2> QED
    BY <2>1, <2>2, <2>4, <2>5 DEF Link!Pipe!Init, Link!Pipe!End, Link!End, Link!Life!End
<1>2. ASSUME LinkInv, LinkInv', [Link!Next]_(Link!vars)
      PROVE  [Link!Pipe!Next]_(Link!Pipe!vars)
  <2>1. CASE UNCHANGED Link!vars
    BY <2>1 DEF Link!vars, Link!Pipe!vars, Link!UnderWay, Link!DataOf, Link!Ahead, Link!Number,
       Link!Succ
  <2>2. ASSUME NEW e \in Link!End, Link!Step(e)
        PROVE  [Link!Pipe!Next]_(Link!Pipe!vars)
    <3>1. ASSUME NEW data \in Report, Link!Process(e, data)
          PROVE  Link!Pipe!Next
      BY <1>2, <3>1, PollRefines
    <3> QED
      BY <1>2, <2>2, <3>1, SendRefines, ReceiveRefines, LifeRefines DEF Link!Step
  <2> QED
    BY <1>2, <2>1, <2>2, LifeRefines DEF Link!Next
<1> QED
  BY <1>1, <1>2, Invariance, PTL DEF Link!Spec, Link!ImplementsPipe, Link!Pipe!Spec

-----------------------------------------------------------------------------
(* The handshake on the link *)

\* What an end reports of itself is a payload.
LEMMA ReportedTyped ==
  ASSUME NEW cs \in CommState
  PROVE  Reported(cs) \in Report
BY DEF CommState, Reported, Report

LEMMA InitLink ==
  ASSUME Init
  PROVE  Link!Init
BY DEF Init

\* Each action of the handshake is a step of the link, or leaves it alone.
LEMMA StepLink ==
  ASSUME [Next]_vars
  PROVE  [Link!Next]_(Link!vars)
<1> USE DEF End
<1>1. ASSUME NEW e \in End, Process(e)
      PROVE  Link!Next
  <2>1. PICK m \in Session : Link!Process(e, Reported(m.cs))
    BY <1>1 DEF Process
  <2>2. Reported(m.cs) \in Report
    BY ReportedTyped DEF Session
  <2> QED
    BY <2>1, <2>2 DEF Link!Next, Link!Step
<1>2. ASSUME NEW e \in End, Validate(e)
      PROVE  UNCHANGED Link!vars
  BY <1>2 DEF Validate, link, Link!vars
<1>3. ASSUME NEW e \in End, Reboot(e)
      PROVE  Link!Next
  BY <1>3 DEF Reboot, Link!Next
<1>4. CASE LinkStep
  BY <1>4 DEF LinkStep, Link!Next, Link!Step
<1>5. CASE UNCHANGED vars
  BY <1>5 DEF vars, link, Link!vars
<1> QED
  BY <1>1, <1>2, <1>3, <1>4, <1>5 DEF Next

\* The handshake uses the link as ble_comm.c lets it be used: each of its steps is one of
\* SyncLink's, or leaves the link alone.
THEOREM ImplementsLink == Spec => Link!Spec
<1>1. Init => Link!Init
  BY InitLink
<1>2. [Next]_vars => [Link!Next]_(Link!vars)
  BY StepLink
<1> QED
  BY <1>1, <1>2, PTL DEF Spec, Link!Spec

\* No packet of the handshake is dropped because the receive queue of ble_comm.c is
\* full, with any number of sequence numbers from four on.
THEOREM NothingDropped == Spec => []NeverDropped
<1>1. Link!Spec => []Link!NeverDropped
  BY LinkNothingDropped, LinkAssumption
<1> QED
  BY <1>1, ImplementsLink, PTL DEF NeverDropped

\* Link, sessions and what is stale keep to their types, for either side.
THEOREM TypeCorrect == Spec => []TypeOK
<1> DEFINE Own == /\ comm_state \in [End -> [{0, 1} -> CommState]]
                  /\ stale \in [End -> BOOLEAN]
<1>1. Init => Own
  BY DEF Init, CommState
<1>2. Own /\ [Next]_vars => Own'
  <2> SUFFICES ASSUME Own, [Next]_vars
               PROVE  Own'
    OBVIOUS
  <2>1. \A e \in End : Slot(e) \in {0, 1}
    BY SideAssumption DEF Slot
  <2>2. CASE LinkStep \/ UNCHANGED vars
    BY <2>2 DEF LinkStep, vars
  <2>3. ASSUME NEW e \in End, Process(e)
        PROVE  Own'
    BY <2>1, <2>3 DEF Process, Session
  <2>4. ASSUME NEW e \in End, Validate(e)
        PROVE  Own'
    <3>1. PICK i \in {0, 1} :
            /\ comm_state' = [comm_state EXCEPT ![e][i] = "init"]
            /\ stale' = [stale EXCEPT ![e] = @ /\ i # Slot(e)]
      BY <2>4, SideAssumption DEF Validate, Validated
    <3>2. [comm_state[e] EXCEPT ![i] = "init"] \in [{0, 1} -> CommState]
      BY DEF CommState
    <3>3. comm_state' = [comm_state EXCEPT ![e] = [comm_state[e] EXCEPT ![i] = "init"]]
      BY <3>1
    <3>4. comm_state' \in [End -> [{0, 1} -> CommState]]
      BY <3>2, <3>3
    <3>5. stale' \in [End -> BOOLEAN]
      BY <3>1
    <3> QED
      BY <3>4, <3>5
  <2>5. ASSUME NEW e \in End, Reboot(e)
        PROVE  Own'
    BY <2>5 DEF Reboot, CommState
  <2> QED
    BY <2>2, <2>3, <2>4, <2>5 DEF Next
<1>3. Link!Spec => []Link!TypeOK
  BY TypeSafety, LinkAssumption
<1>4. Link!TypeOK /\ Own => TypeOK
  BY DEF TypeOK
<1> QED
  BY <1>1, <1>2, <1>3, <1>4, ImplementsLink, PTL DEF Spec

\* For the handshake, the link is a pipe, with any number of sequence numbers from four on.
THEOREM KeepsPipe == Spec => ImplementsPipe
<1>1. Link!Spec => Link!ImplementsPipe
  BY LinkKeepsPipe, LinkAssumption
<1> QED
  BY <1>1, ImplementsLink, PTL DEF ImplementsPipe

-----------------------------------------------------------------------------
(* What a batch of packets makes of a session *)

\* The session states after one more packet.
AfterPacket(e, batch, i, S) == SeenByCore0(e, Consumed(batch[i], S))

\* SessionsAfter takes the packets of a batch of up to two one by one.
LEMMA BatchOfTwo ==
  ASSUME NEW e, NEW batch, NEW n \in {0, 1, 2}, DOMAIN batch = 1 .. n
  PROVE  LET start == SeenByCore0(e, {Current(e)})
             one   == AfterPacket(e, batch, 1, start)
         IN  SessionsAfter(e, batch) =
               IF n = 0 THEN start ELSE IF n = 1 THEN one ELSE AfterPacket(e, batch, 2, one)
<1> DEFINE start == SeenByCore0(e, {Current(e)})
           D == DOMAIN batch
           After(i, S) == AfterPacket(e, batch, i, S)
           Folds(g) == g = [s \in SUBSET D |->
              IF s = {} THEN start ELSE After(Max(s), g[s \ {Max(s)}])]
<1>1. SessionsAfter(e, batch) = (CHOOSE g : Folds(g))[D]
  BY DEF SessionsAfter, FoldLeft, MapThenFoldSet, AfterPacket
<1>2. D = IF n = 0 THEN {} ELSE IF n = 1 THEN {1} ELSE {1, 2}
  <2>1. 1 .. 0 = {} /\ 1 .. 1 = {1} /\ 1 .. 2 = {1, 2}
    OBVIOUS
  <2> QED
    BY <2>1
<1>3. \A s \in SUBSET D : s \in {{}, {1}, {2}, {1, 2}}
  <2>1. D \subseteq {1, 2}
    BY <1>2
  <2> QED
    BY <2>1
<1>4. Max({1}) = 1 /\ Max({2}) = 2 /\ Max({1, 2}) = 2
  BY DEF Max
<1>5. {1} \ {1} = {} /\ {2} \ {2} = {} /\ {1, 2} \ {2} = {1}
  OBVIOUS
<1> HIDE DEF After, start, D
<1>6. \E g : Folds(g)
  <2> DEFINE g == [s \in SUBSET D |->
                     IF s = {} THEN start
                     ELSE IF s = {1} THEN After(1, start)
                     ELSE IF s = {2} THEN After(2, start)
                     ELSE After(2, After(1, start))]
  <2>1. ASSUME NEW s \in SUBSET D
        PROVE  g[s] = IF s = {} THEN start ELSE After(Max(s), g[s \ {Max(s)}])
    <3>1. CASE s = {}
      BY <3>1
    <3>2. CASE s \in {{1}, {2}}
      <4>1. g[{}] = start
        OBVIOUS
      <4> QED
        BY <1>4, <1>5, <3>2, <4>1
    <3>3. CASE s = {1, 2}
      <4>1. g[{1}] = After(1, start)
        BY <3>3
      <4> QED
        BY <1>4, <1>5, <3>3, <4>1
    <3> QED
      BY <1>3, <3>1, <3>2, <3>3
  <2>2. Folds(g)
    BY <2>1
  <2> QED
    BY <2>2
<1> DEFINE fold == CHOOSE g : Folds(g)
<1>7. Folds(fold)
  BY <1>6
<1> HIDE DEF fold
<1>8. fold[{}] = start
  BY <1>7
<1>9. ASSUME {1} \subseteq D
      PROVE  fold[{1}] = After(1, start)
  <2>1. {1} # {} /\ fold[{1}] = After(Max({1}), fold[{1} \ {Max({1})}])
    BY <1>7, <1>9
  <2> QED
    BY <1>4, <1>5, <1>8, <2>1
<1>10. ASSUME {1, 2} \subseteq D
       PROVE  fold[{1, 2}] = After(2, After(1, start))
  <2>1. {1, 2} # {} /\ fold[{1, 2}] = After(Max({1, 2}), fold[{1, 2} \ {Max({1, 2})}])
    BY <1>7, <1>10
  <2> QED
    BY <1>4, <1>5, <1>9, <1>10, <2>1
<1> QED
  BY <1>1, <1>2, <1>8, <1>9, <1>10 DEF fold, After, start

\* A set of session states that has the first one, what core1 makes of a reset, and
\* with each state those the packets make of it, has all that may result.
LEMMA BatchWithin ==
  ASSUME NEW e, NEW batch, NEW n \in {0, 1, 2}, DOMAIN batch = 1 .. n,
         NEW T, Cleared \in T, Current(e) \in T,
         \A m \in T : \A i \in 1 .. n :
           \/ batch[i] = Nothing
           \/ [m EXCEPT !.cs = update_comm_state(m.cs, batch[i])] \in T
  PROVE  SessionsAfter(e, batch) \subseteq T
<1> DEFINE start == SeenByCore0(e, {Current(e)})
           one   == AfterPacket(e, batch, 1, start)
           two   == AfterPacket(e, batch, 2, one)
<1>1. start \subseteq T
  BY DEF SeenByCore0
<1>2. ASSUME NEW S \in SUBSET T, NEW i \in 1 .. n
      PROVE  AfterPacket(e, batch, i, S) \subseteq T
  <2>1. Consumed(batch[i], S) \subseteq T
    BY DEF Consumed
  <2> QED
    BY <2>1 DEF AfterPacket, SeenByCore0
<1>3. SessionsAfter(e, batch) = IF n = 0 THEN start ELSE IF n = 1 THEN one ELSE two
  BY BatchOfTwo
<1> HIDE DEF start, one, two
<1>4. n \in {1, 2} => one \subseteq T
  BY <1>1, <1>2 DEF one
<1>5. n = 2 => two \subseteq T
  BY <1>2, <1>4 DEF two
<1> QED
  BY <1>1, <1>3, <1>4, <1>5

-----------------------------------------------------------------------------
(* What is stale is met by no session *)

\* The types of what the handshake adds to the link.
Own ==
  /\ comm_state \in [End -> [{0, 1} -> CommState]]
  /\ stale \in [End -> BOOLEAN]

\* What an end has of its connection, until it exchanges packets over it.
Kept(e) == IF state[e] = "DATA" THEN comm[e] ELSE Link!InitComm

\* Packets that do not help a restarted end to start a session.
Old(packets) == \A i \in 1 .. Len(packets) : packets[i].data \in {"data", Nothing}

\* An end that holds data of a session its peer knows nothing of is still in that session
\* or in reset; its peer waits in init, and nothing on the way to it tells otherwise.
StaleIn(f, e) ==
  /\ CurrentState(f) \in {"data", "reset"}
  /\ CurrentState(e) = "init"
  /\ Old(Kept(e).recv) /\ Old(chan[e])
  /\ up => Old(Kept(f).send)

StaleInv == \A f, e \in End : (f # e /\ stale[f]) => StaleIn(f, e)

\* There are two ends, each the peer of the other.
LEMMA Ends ==
  ASSUME NEW e \in End
  PROVE  /\ Link!Peer(e) \in End /\ Link!Peer(e) # e /\ Link!Peer(Link!Peer(e)) = e
         /\ \A f \in End : f = e \/ f = Link!Peer(e)
         /\ "ap" \in End /\ "node" \in End
         /\ Slot(e) \in {0, 1}
BY SideAssumption DEF End, Link!End, Link!Life!End, Link!Peer, Slot

\* Of the link: its types, a queue of two, and what its connection has to do with it.
LEMMA OfTheLink ==
  ASSUME LinkInv
  PROVE  /\ Link!TypeOK
         /\ \A e \in End : state[e] = "DATA" => Len(comm[e].recv) <= 2
         /\ \A e \in End : ~conn[e] => state[e] = "IDLE"
         /\ up => (state["node"] = "IDLE" => comm["node"] = Link!InitComm)
         /\ ~up => \A e \in End : chan[e] = <<>>
<1> USE DEF LinkInv, End, Link!End, Link!Life!End
<1>1. Link!TypeOK
  BY DEF Link!TypeOK, Link!Seqno, Link!Packet
<1> QED
  BY <1>1 DEF LifeInv, Link!InitComm

\* The packets of a queue and what they say.
LEMMA OldMoves ==
  ASSUME NEW P, NEW r \in Seq(P), NEW c \in Seq(P), Old(r), Old(c)
  PROVE  /\ Old(r \o c)
         /\ c # <<>> => (Old(Append(r, Head(c))) /\ Old(Tail(c)))
<1>1. Old(r \o c)
  BY DEF Old
<1>2. ASSUME c # <<>>
      PROVE  Old(Append(r, Head(c))) /\ Old(Tail(c))
  <2>1. Head(c) = c[1] /\ 1 \in 1 .. Len(c)
    BY <1>2
  <2>2. Len(Tail(c)) = Len(c) - 1 /\ \A i \in 1 .. Len(c) - 1 : Tail(c)[i] = c[i + 1]
    BY <1>2
  <2>3. Old(Tail(c))
    BY <2>2 DEF Old
  <2>4. Old(Append(r, Head(c)))
    BY <2>1 DEF Old
  <2> QED
    BY <2>3, <2>4
<1> QED
  BY <1>1, <1>2

\* No packet is none of another kind.
LEMMA OldNone == Old(<<>>) /\ Old(Link!InitComm.recv) /\ Old(Link!InitComm.send)
BY DEF Old, Link!InitComm

\* The types of a queue, as far as they are needed here.
LEMMA QueuesTyped ==
  ASSUME Link!TypeOK, NEW e \in End
  PROVE  /\ Kept(e).recv \in Seq(Link!Packet) /\ Kept(e).send \in Seq(Link!Packet)
         /\ chan[e] \in Seq(Link!Packet)
         /\ comm[e].recv \in Seq(Link!Packet) /\ comm[e].send \in Seq(Link!Packet)
BY DEF Link!TypeOK, End, Kept, Link!InitComm

\* What the link does of its own brings no packet of another kind.
LEMMA StaleLink ==
  ASSUME LinkInv, StaleInv, LinkStep
  PROVE  StaleInv'
<1> SUFFICES ASSUME NEW f \in End, NEW e \in End, f # e, stale[f]
             PROVE  StaleIn(f, e)'
  BY DEF StaleInv, LinkStep
<1>1. StaleIn(f, e) /\ Link!Peer(f) = e /\ \A g \in End : g = e \/ g = f
  BY Ends DEF StaleInv
<1>0. /\ comm \in [End -> Comm] /\ comm[e] \in Comm /\ comm[f] \in Comm
      /\ state \in [End -> {"IDLE", "DATA"}] /\ chan \in [End -> Seq(Link!Packet)]
  BY <1>1, OfTheLink DEF Link!TypeOK, End, Comm
<1>c. \A c \in Comm :
        /\ \A s : [c EXCEPT !.send = s].recv = c.recv /\ [c EXCEPT !.send = s].send = s
        /\ \A r : [c EXCEPT !.recv = r].recv = r /\ [c EXCEPT !.recv = r].send = c.send
        /\ \A b : /\ [c EXCEPT !.auto_send = b].recv = c.recv
                  /\ [c EXCEPT !.auto_send = b].send = c.send
  BY DEF Comm
<1>2. CurrentState(f)' = CurrentState(f) /\ CurrentState(e)' = CurrentState(e)
  BY DEF LinkStep, CurrentState
<1>3. ASSUME Kept(e)'.recv = Kept(e).recv \/ Old(Kept(e)'.recv),
             chan'[e] = chan[e] \/ Old(chan'[e]),
             up' => ((up /\ Kept(f)'.send = Kept(f).send) \/ Old(Kept(f)'.send))
      PROVE  StaleIn(f, e)'
  BY <1>1, <1>2, <1>3 DEF StaleIn, Old
<1>4. CASE Link!Connect
  <2>1. ~conn["ap"] /\ ~conn["node"] /\ state' = state /\ chan' = chan
    BY <1>4 DEF Link!Connect, Link!Life!Connect
  <2>2. state[e] # "DATA" /\ state[f] # "DATA"
    BY <1>1, <2>1, OfTheLink DEF End, Link!End, Link!Life!End
  <2> QED
    BY <1>3, <2>1, <2>2, OldNone DEF Kept
<1>5. CASE Link!Subscribe
  <2>1. /\ up /\ state["node"] = "IDLE" /\ state' = [state EXCEPT !["node"] = "DATA"]
        /\ comm' = comm /\ chan' = chan
    BY <1>5 DEF Link!Subscribe, Link!Life!Subscribe
  <2>2. Kept(e)' = Kept(e) /\ Kept(f)' = Kept(f)
    BY <1>0, <1>c, <1>1, <2>1, OfTheLink DEF Kept, End
  <2> QED
    BY <1>3, <2>1, <2>2
<1>6. CASE Link!Subscribed
  <2>1. /\ up /\ state["ap"] = "IDLE" /\ state' = [state EXCEPT !["ap"] = "DATA"]
        /\ comm' = [comm EXCEPT !["ap"] = Link!InitComm] /\ chan' = chan
    BY <1>6 DEF Link!Subscribed, Link!Life!Subscribed
  <2>2. Kept(e)' = Kept(e) /\ Kept(f)' = Kept(f)
    BY <1>0, <1>c, <1>1, <2>1, OfTheLink DEF Kept, End
  <2> QED
    BY <1>3, <2>1, <2>2
<1>7. CASE Link!LinkLoss
  <2>1. up' = FALSE /\ state' = state /\ comm' = comm /\ chan'[e] = <<>>
    BY <1>1, <1>7 DEF Link!LinkLoss, Link!Life!LinkLoss, End
  <2> QED
    BY <1>3, <2>1, OldNone DEF Kept
<1>8. ASSUME NEW g \in End, Link!Disconnected(g)
      PROVE  StaleIn(f, e)'
  <2>1. up' = up /\ ~up /\ comm' = comm /\ chan' = chan /\ state' = [state EXCEPT ![g] = "IDLE"]
    BY <1>8 DEF Link!Disconnected, Link!Life!Disconnected
  <2>2. Kept(e)' = Kept(e) \/ Kept(e)' = Link!InitComm
    BY <1>0, <1>c, <1>1, <2>1, OfTheLink DEF Kept, End
  <2> QED
    BY <1>3, <2>1, <2>2, OldNone
<1>9. ASSUME NEW g \in End, Link!Receive(g)
      PROVE  StaleIn(f, e)'
  <2>1. /\ up' = up /\ state' = state /\ chan[g] # <<>> /\ state[g] = "DATA"
        /\ comm' = [comm EXCEPT ![g].recv = Link!Enqueue(@, Head(chan[g]))]
        /\ chan' = [chan EXCEPT ![g] = Tail(@)]
    BY <1>9 DEF Link!Receive
  <2>2. CASE g = f
    <3>1. Kept(e)' = Kept(e) /\ Kept(f)'.send = Kept(f).send /\ chan'[e] = chan[e]
      BY <1>1, <2>1, <2>2, <1>0, <1>c DEF Kept
    <3> QED
      BY <1>3, <2>1, <3>1 DEF StaleIn
  <2>3. CASE g = e
    <3>1. /\ Kept(e).recv = comm[e].recv /\ Kept(f)' = Kept(f)
          /\ Kept(e)'.recv = Link!Enqueue(comm[e].recv, Head(chan[e]))
          /\ chan'[e] = Tail(chan[e]) /\ chan[e] # <<>>
      BY <1>1, <2>1, <2>3, <1>0, <1>c DEF Kept
    <3>2. Old(comm[e].recv) /\ Old(chan[e])
      BY <1>1, <3>1 DEF StaleIn
    <3>3. comm[e].recv \in Seq(Link!Packet) /\ chan[e] \in Seq(Link!Packet)
      BY <1>1, OfTheLink, QueuesTyped
    <3>4. Old(Append(comm[e].recv, Head(chan[e]))) /\ Old(Tail(chan[e]))
      BY <3>1, <3>2, <3>3, OldMoves
    <3>5. Old(Kept(e)'.recv) /\ Old(chan'[e])
      BY <3>1, <3>2, <3>4 DEF Link!Enqueue
    <3> QED
      BY <1>3, <2>1, <3>1, <3>5
  <2> QED
    BY <1>1, <2>2, <2>3, Ends
<1>10. ASSUME NEW g \in End, Link!SendData(g)
       PROVE  StaleIn(f, e)'
  <2>1. /\ up' = up /\ state' = state
        /\ \/ comm' = comm /\ chan' = chan
           \/ /\ state[g] = "DATA" /\ comm' = [comm EXCEPT ![g].send = <<>>]
              /\ chan' = IF up THEN [chan EXCEPT ![Link!Peer(g)] = @ \o comm[g].send] ELSE chan
           \/ comm' = [comm EXCEPT ![g].auto_send = FALSE] /\ chan' = chan
    BY <1>10 DEF Link!SendData
  <2>a. \A h \in End : \/ comm'[h] = comm[h]
                      \/ comm'[h] = [comm[h] EXCEPT !.send = <<>>]
                      \/ comm'[h] = [comm[h] EXCEPT !.auto_send = FALSE]
    BY <1>0, <2>1
  <2>b. \A h \in End : /\ comm'[h].recv = comm[h].recv
                      /\ (comm'[h].send = comm[h].send \/ comm'[h].send = <<>>)
    <3> TAKE h \in End
    <3>1. comm[h] \in Comm
      BY <1>0
    <3>2. CASE comm'[h] = [comm[h] EXCEPT !.send = <<>>]
      BY <1>c, <3>1, <3>2
    <3>3. CASE comm'[h] = [comm[h] EXCEPT !.auto_send = FALSE]
      BY <1>c, <3>1, <3>3
    <3> QED
      BY <2>a, <3>2, <3>3
  <2>2. Kept(e)'.recv = Kept(e).recv
    BY <2>1, <2>b DEF Kept
  <2>3. Kept(f)'.send = Kept(f).send \/ Kept(f)'.send = <<>>
    BY <2>1, <2>b DEF Kept
  <2>4. chan'[e] = chan[e] \/ Old(chan'[e])
    <3>1. CASE chan' = chan
      BY <3>1
    <3>2. CASE up /\ state[g] = "DATA"
               /\ chan' = [chan EXCEPT ![Link!Peer(g)] = @ \o comm[g].send]
      <4>1. CASE g = e
        BY <1>1, <3>2, <4>1, OfTheLink, Ends DEF Link!TypeOK, End
      <4>2. CASE g = f
        <5>1. chan'[e] = chan[e] \o comm[f].send /\ Kept(f) = comm[f]
          BY <1>1, <3>2, <4>2, OfTheLink DEF Link!TypeOK, End, Kept
        <5>2. Old(chan[e]) /\ Old(comm[f].send)
          BY <1>1, <3>2, <5>1 DEF StaleIn
        <5>3. comm[f].send \in Seq(Link!Packet) /\ chan[e] \in Seq(Link!Packet)
          BY <1>1, OfTheLink, QueuesTyped
        <5> QED
          BY <5>1, <5>2, <5>3, OldMoves
      <4> QED
        BY <1>1, <4>1, <4>2, Ends
    <3> QED
      BY <2>1, <3>1, <3>2
  <2> QED
    BY <1>3, <2>1, <2>2, <2>3, <2>4, OldNone
<1> QED
  BY <1>4, <1>5, <1>6, <1>7, <1>8, <1>9, <1>10 DEF LinkStep

\* The stale end polls: it stays in the old session or enters reset, and says so or
\* nothing; or core1 ended its reset meanwhile, and nothing of it is stale.  The other
\* end polls: nothing it may find helps it to leave init.
LEMMA StaleProcess ==
  ASSUME LinkInv, Own, StaleInv, NEW g \in End, Process(g)
  PROVE  StaleInv'
<1> DEFINE n == Len(comm[g].recv)
           batch == Link!Drained(g)
<1>1. PICK m \in Session :
        /\ m \in SessionsAfter(g, batch)
        /\ Link!Process(g, Reported(m.cs))
        /\ comm_state' = [comm_state EXCEPT ![g][Slot(g)] = m.cs]
        /\ stale' = [stale EXCEPT ![g] = m.stale]
  BY DEF Process
<1>2. /\ up' = up /\ state' = state /\ chan' = chan /\ state[g] = "DATA"
      /\ comm' = [comm EXCEPT ![g] =
           IF Link!Produces(g)
           THEN [x |-> Link!Succ(comm[g].x), y |-> Link!DrainedY(g), recv |-> <<>>,
                 send |-> <<[seq |-> Link!Succ(comm[g].x), data |-> Reported(m.cs)]>>,
                 auto_send |-> TRUE]
           ELSE [@ EXCEPT !.y = Link!DrainedY(g), !.recv = <<>>]]
  BY <1>1 DEF Link!Process
<1>3. /\ n \in {0, 1, 2} /\ DOMAIN batch = 1 .. n
      /\ \A i \in 1 .. n : batch[i] = comm[g].recv[n + 1 - i].data
  <2>1. comm[g].recv \in Seq(Link!Packet)
    BY OfTheLink, QueuesTyped
  <2>2. n \in Nat /\ n <= 2
    BY <1>2, <2>1, OfTheLink
  <2>3. n \in {0, 1, 2}
    BY <2>2, UpToTwo
  <2>4. DOMAIN batch = 1 .. n /\ \A i \in 1 .. n : batch[i] = comm[g].recv[n + 1 - i].data
    BY DEF Link!Drained
  <2> QED
    BY <2>3, <2>4
<1>4. /\ Current(g) \in Session /\ Current(g).cs = CurrentState(g)
      /\ Current(g).stale = stale[g] /\ Cleared \in Session
  BY Ends DEF Own, Current, CurrentState, Session, Cleared, CommState
<1>5. \A k \in Session : \A peer :
        [k EXCEPT !.cs = update_comm_state(k.cs, peer)] \in Session
  BY DEF Session, update_comm_state, CommState
<1>6. /\ CurrentState(g)' = m.cs /\ stale'[g] = m.stale
      /\ \A h \in End : h # g => /\ CurrentState(h)' = CurrentState(h)
                                /\ stale'[h] = stale[h] /\ comm'[h] = comm[h]
  BY <1>1, <1>2, OfTheLink, Ends DEF Own, CurrentState, Link!TypeOK, End
<1>7. /\ comm'[g].recv = <<>>
      /\ \/ comm'[g].send = comm[g].send
         \/ comm'[g].send = <<[seq |-> Link!Succ(comm[g].x), data |-> Reported(m.cs)]>>
  BY <1>2, OfTheLink DEF Link!TypeOK, End
<1> SUFFICES ASSUME NEW f \in End, NEW e \in End, f # e, stale'[f]
             PROVE  StaleIn(f, e)'
  BY DEF StaleInv
<1> HIDE DEF batch, n
<1>8. CASE g = f
  <2> DEFINE T == {k \in Session : k.stale => (stale[f] /\ k.cs \in {"data", "reset"})}
  <2>1. Cleared \in T
    BY <1>4 DEF Cleared
  <2>2. Current(f) \in T
    BY <1>4, <1>8, Ends DEF StaleInv, StaleIn
  <2>3. \A k \in T : \A i \in 1 .. n :
          [k EXCEPT !.cs = update_comm_state(k.cs, batch[i])] \in T
    <3> TAKE k \in T
    <3> TAKE i \in 1 .. n
    <3> DEFINE u == update_comm_state(k.cs, batch[i])
               c == [k EXCEPT !.cs = u]
    <3>1. c \in Session
      BY <1>5
    <3>2. c.cs = u /\ c.stale = k.stale
      BY DEF Session
    <3>3. k.cs \in {"data", "reset"} => u \in {"data", "reset"}
      BY DEF update_comm_state
    <3> HIDE DEF u, c
    <3>4. c \in T
      BY <3>1, <3>2, <3>3
    <3> QED
      BY <3>4 DEF c, u
  <2>4. SessionsAfter(f, batch) \subseteq T
    <3> HIDE DEF T
    <3> QED
      BY <1>3, <1>8, <2>1, <2>2, <2>3, BatchWithin
  <2>5. stale[f] /\ m.cs \in {"data", "reset"}
    BY <1>1, <1>6, <1>8, <2>4
  <2>6. StaleIn(f, e)
    BY <2>5 DEF StaleInv
  <2>7. Kept(e)' = Kept(e) /\ Kept(f) = comm[f] /\ Kept(f)' = comm'[f]
    BY <1>2, <1>6, <1>8 DEF Kept
  <2>8. up => Old(Kept(f)'.send)
    <3>1. Reported(m.cs) \in {"data", Nothing}
      BY <2>5 DEF Reported
    <3>2. Old(<<[seq |-> Link!Succ(comm[g].x), data |-> Reported(m.cs)]>>)
      BY <3>1 DEF Old
    <3> QED
      BY <1>7, <1>8, <2>6, <2>7, <3>2 DEF StaleIn
  <2> QED
    BY <1>2, <1>6, <1>8, <2>5, <2>6, <2>7, <2>8 DEF StaleIn, Old
<1>9. CASE g = e
  <2> DEFINE T == {k \in Session : k.cs = "init"}
  <2>1. stale[f] /\ StaleIn(f, e) /\ Kept(e) = comm[e]
    BY <1>2, <1>6, <1>9 DEF StaleInv, Kept
  <2>2. Cleared \in T /\ Current(e) \in T
    BY <1>4, <1>9, <2>1 DEF Cleared, StaleIn
  <2>3. \A i \in 1 .. n : batch[i] \in {"data", Nothing}
    <3> TAKE i \in 1 .. n
    <3>1. n + 1 - i \in 1 .. n
      BY <1>3
    <3>2. Old(comm[e].recv)
      BY <2>1 DEF StaleIn
    <3>3. comm[e].recv[n + 1 - i].data \in {"data", Nothing}
      BY <1>9, <3>1, <3>2 DEF Old, n
    <3> QED
      BY <1>3, <1>9, <3>3
  <2>4. \A k \in T : \A i \in 1 .. n :
          [k EXCEPT !.cs = update_comm_state(k.cs, batch[i])] \in T
    <3> TAKE k \in T
    <3> TAKE i \in 1 .. n
    <3>1. update_comm_state(k.cs, batch[i]) = "init"
      BY <2>3 DEF update_comm_state, Nothing
    <3>2. [k EXCEPT !.cs = "init"].cs = "init"
      BY DEF Session
    <3> QED
      BY <1>5, <3>1, <3>2
  <2>5. SessionsAfter(e, batch) \subseteq T
    <3> HIDE DEF T
    <3> QED
      BY <1>3, <1>9, <2>2, <2>4, BatchWithin
  <2>6. m.cs = "init"
    BY <1>1, <1>9, <2>5
  <2>7. Kept(e)' = comm'[e] /\ Kept(f)' = Kept(f)
    BY <1>2, <1>6, <1>9 DEF Kept
  <2> QED
    BY <1>2, <1>6, <1>7, <1>9, <2>1, <2>6, <2>7, OldNone DEF StaleIn, Old
<1> QED
  BY <1>8, <1>9, Ends

\* core1 clears what is stale as it ends the reset; the other end is not in reset.
LEMMA StaleValidate ==
  ASSUME Own, StaleInv, NEW g \in End, Validate(g)
  PROVE  StaleInv'
<1>1. PICK i \in {0, 1} :
        /\ comm_state[g][i] = "reset"
        /\ comm_state' = [comm_state EXCEPT ![g][i] = "init"]
        /\ stale' = [stale EXCEPT ![g] = @ /\ i # Slot(g)]
  BY SideAssumption DEF Validate, Validated
<1>2. UNCHANGED <<up, state, comm, chan>>
  BY DEF Validate, link
<1> SUFFICES ASSUME NEW f \in End, NEW e \in End, f # e, stale'[f]
             PROVE  StaleIn(f, e)'
  BY DEF StaleInv
<1>3. stale[f] /\ (g = f => i # Slot(f))
  BY <1>1 DEF Own
<1>4. StaleIn(f, e)
  BY <1>3 DEF StaleInv
<1>5. g = e => i # Slot(e)
  BY <1>1, <1>4 DEF StaleIn, CurrentState
<1>6. CurrentState(f)' = CurrentState(f) /\ CurrentState(e)' = CurrentState(e)
  BY <1>1, <1>3, <1>5, Ends DEF Own, CurrentState
<1>7. Kept(e)' = Kept(e) /\ Kept(f)' = Kept(f)
  BY <1>2 DEF Kept
<1> QED
  BY <1>2, <1>4, <1>6, <1>7 DEF StaleIn, Old

\* A restart makes the other end stale, if it is in a session, and starts in init
\* with nothing received.
LEMMA StaleReboot ==
  ASSUME LinkInv, Own, StaleInv, NEW g \in End, Reboot(g)
  PROVE  StaleInv'
<1>1. /\ comm_state' = [comm_state EXCEPT ![g] = [i \in {0, 1} |-> "init"]]
      /\ stale' = [f \in End |->
           f # g /\ (stale[f] \/ CurrentState(f) \in {"data", "reset"})]
      /\ up' = FALSE /\ chan' = [f \in End |-> <<>>]
      /\ comm' = [comm EXCEPT ![g] = Link!InitComm]
  BY DEF Reboot, Link!Reboot, Link!Life!Reboot, End
<1> SUFFICES ASSUME NEW f \in End, NEW e \in End, f # e, stale'[f]
             PROVE  StaleIn(f, e)'
  BY DEF StaleInv
<1>2. f # g /\ g = e /\ CurrentState(f) \in {"data", "reset"}
  BY <1>1, Ends DEF StaleInv, StaleIn
<1>3. CurrentState(f)' = CurrentState(f) /\ CurrentState(e)' = "init"
  BY <1>1, <1>2, Ends DEF Own, CurrentState
<1>4. Kept(e)' = Link!InitComm /\ chan'[e] = <<>>
  BY <1>1, <1>2, OfTheLink DEF Kept, Link!TypeOK, End
<1> QED
  BY <1>1, <1>2, <1>3, <1>4, OldNone DEF StaleIn, Old

\* Both ends exchange data only when each has cleared what it kept of a session that the
\* other one's restart ended, for either node and whatever is lost, late or restarted.
THEOREM SessionsAreFresh == Spec => []FreshSession
<1>1. Spec => []LinkInv
  <2>1. Link!Spec => []LinkInv
    BY Invariance, LinkAssumption
  <2> QED
    BY <2>1, ImplementsLink, PTL
<1>2. TypeOK => Own
  BY DEF TypeOK, Own
<1>3. Init => StaleInv
  BY DEF Init, StaleInv
<1>4. LinkInv /\ Own /\ StaleInv /\ [Next]_vars => StaleInv'
  <2> SUFFICES ASSUME LinkInv, Own, StaleInv, [Next]_vars
               PROVE  StaleInv'
    OBVIOUS
  <2>1. CASE UNCHANGED vars
    BY <2>1 DEF vars, link, StaleInv, StaleIn, CurrentState, Kept, Old
  <2> QED
    BY <2>1, StaleLink, StaleProcess, StaleValidate, StaleReboot DEF Next
<1>5. Own /\ StaleInv => FreshSession
  <2> SUFFICES ASSUME StaleInv
               PROVE  FreshSession
    OBVIOUS
  <2>1. "ap" \in End /\ "node" \in End
    BY DEF End, Link!End, Link!Life!End
  <2>2. stale["ap"] => CurrentState("node") = "init"
    BY <2>1 DEF StaleInv, StaleIn
  <2>3. stale["node"] => CurrentState("ap") = "init"
    BY <2>1 DEF StaleInv, StaleIn
  <2> QED
    BY <2>2, <2>3 DEF FreshSession
<1> QED
  BY <1>1, <1>2, <1>3, <1>4, <1>5, TypeCorrect, PTL DEF Spec

=============================================================================
