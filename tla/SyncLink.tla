------------------------------- MODULE SyncLink -------------------------------
(***************************************************************************)
(* The packet exchange between the AP (BLE client) and one node (BLE       *)
(* server): ble_comm.c with the parts of ble_client.c and ble_server.c     *)
(* that connect, send, receive and disconnect.  Both ends run ble_process  *)
(* from a 5 ms timer; the BLE stack calls back when a packet arrives and   *)
(* when one may be sent.  All of it runs on core0, so each callback and    *)
(* each poll is one step.                                                  *)
(*                                                                         *)
(* The radio link is external: it keeps packets in order and loses them    *)
(* only when the connection drops.  Packets from the node follow the       *)
(* response to the AP's subscription, so the AP sees none before it.       *)
(***************************************************************************)
EXTENDS Integers, Sequences

CONSTANTS
  SEQ_SIZE,   \* sequence numbers (256)
  QUEUE_SIZE, \* BLE_QUEUE_SIZE (2)
  Payload     \* what a packet carries after its sequence number

\* What is assumed of the sizes.
Sizes == SEQ_SIZE \in Nat /\ SEQ_SIZE >= 4 /\ QUEUE_SIZE \in Nat /\ QUEUE_SIZE >= 2

VARIABLES
  up, conn, state, \* the life of the link, see LinkLife
  comm,            \* the rest of ble_comm_t, at each end
  canSend,         \* a can-send event was requested, at each end
  chan             \* packets on their way to each end

vars == <<up, conn, state, comm, canSend, chan>>

Life == INSTANCE LinkLife

End == Life!End
Peer(e) == IF e = "ap" THEN "node" ELSE "ap"

Seqno  == 0 .. SEQ_SIZE - 1
Packet == [seq : Seqno, data : Payload]

\* ble_init_comm_data
InitComm == [x |-> 0, y |-> 0, recv |-> <<>>, send |-> <<>>, auto_send |-> TRUE]

Init ==
  /\ Life!Init
  /\ comm    = [e \in End |-> InitComm]
  /\ canSend = [e \in End |-> FALSE]
  /\ chan    = [e \in End |-> <<>>]

-----------------------------------------------------------------------------
(* Connecting *)

\* ATT_EVENT_CONNECTED clears the node's ble_comm_t.
Connect ==
  /\ Life!Connect
  /\ comm' = [comm EXCEPT !["node"] = InitComm]
  /\ UNCHANGED <<canSend, chan>>

\* The AP's write to the node's characteristic configuration, and the request
\* for the node's first can-send event.
Subscribe ==
  /\ Life!Subscribe
  /\ canSend' = [canSend EXCEPT !["node"] = TRUE]
  /\ UNCHANGED <<comm, chan>>

\* The response reaches the AP, which clears its ble_comm_t.
Subscribed ==
  /\ Life!Subscribed
  /\ comm' = [comm EXCEPT !["ap"] = InitComm]
  /\ canSend' = [canSend EXCEPT !["ap"] = TRUE]
  /\ UNCHANGED chan

-----------------------------------------------------------------------------
(* Exchanging packets *)

\* The next sequence number.
Succ(n) == IF n = SEQ_SIZE - 1 THEN 0 ELSE n + 1

\* What ble_process consumes, in the order it does: the newest packet first.
Drained(e) ==
  [i \in 1 .. Len(comm[e].recv) |-> comm[e].recv[Len(comm[e].recv) + 1 - i].data]

\* y after that: the sequence number of the packet consumed last.
DrainedY(e) == IF comm[e].recv = <<>> THEN comm[e].y ELSE comm[e].recv[1].seq

\* Faulty variant: a window that is too narrow.
InSyncNarrow(e) == DrainedY(e) = Succ(comm[e].x)

\* The peer's last packet is at most as old as the last one sent.
InSync(e) == DrainedY(e) \in {comm[e].x, Succ(comm[e].x)}

\* Faulty variant: the sequence numbers are not compared.
ProducesUnpaced(e) == comm[e].send = <<>>

\* produce() is called.
Produces(e) == comm[e].send = <<>> /\ InSync(e)

\* ble_process, with the payload that produce() returns if it is called.
Process(e, data) ==
  LET next == Succ(comm[e].x)
  IN  /\ state[e] = "DATA"
      /\ comm' = [comm EXCEPT ![e] =
           IF Produces(e)
           THEN [x |-> next, y |-> DrainedY(e), recv |-> <<>>,
                 send |-> <<[seq |-> next, data |-> data]>>, auto_send |-> TRUE]
           ELSE [@ EXCEPT !.y = DrainedY(e), !.recv = <<>>]]
      /\ canSend' = [canSend EXCEPT ![e] =
           @ \/ (Produces(e) /\ ~comm[e].auto_send)]
      /\ UNCHANGED <<up, conn, state, chan>>

\* Faulty variant: send_len is not reset.
SendDataAgain(e) ==
  /\ canSend[e] /\ conn[e] /\ state[e] = "DATA" /\ comm[e].send # <<>>
  /\ chan' = IF up THEN [chan EXCEPT ![Peer(e)] = @ \o comm[e].send] ELSE chan
  /\ UNCHANGED <<up, conn, state, comm, canSend>>

\* send_data, called when the stack can send.
SendData(e) ==
  /\ canSend[e]
  /\ IF ~conn[e] \/ state[e] # "DATA" THEN
       canSend' = [canSend EXCEPT ![e] = FALSE] /\ UNCHANGED <<comm, chan>>
     ELSE IF comm[e].send # <<>> THEN
       /\ chan' = IF up THEN [chan EXCEPT ![Peer(e)] = @ \o comm[e].send] ELSE chan
       /\ comm' = [comm EXCEPT ![e].send = <<>>]
       /\ UNCHANGED canSend
     ELSE
       /\ comm' = [comm EXCEPT ![e].auto_send = FALSE]
       /\ canSend' = [canSend EXCEPT ![e] = FALSE]
       /\ UNCHANGED chan
  /\ UNCHANGED <<up, conn, state>>

\* ble_receive_data: a packet that finds the queue full is dropped.
Enqueue(recv, packet) ==
  IF Len(recv) < QUEUE_SIZE THEN Append(recv, packet) ELSE recv

Receive(e) ==
  /\ chan[e] # <<>>
  /\ state[e] = "DATA"
  /\ comm' = [comm EXCEPT ![e].recv = Enqueue(@, Head(chan[e]))]
  /\ chan' = [chan EXCEPT ![e] = Tail(@)]
  /\ UNCHANGED <<up, conn, state, canSend>>

-----------------------------------------------------------------------------
(* Losing the connection *)

\* What is still under way is lost with the connection.
LinkLoss ==
  /\ Life!LinkLoss
  /\ chan' = [e \in End |-> <<>>]
  /\ UNCHANGED <<comm, canSend>>

\* The disconnection event at one end.
Disconnected(e) ==
  /\ Life!Disconnected(e)
  /\ canSend' = [canSend EXCEPT ![e] = FALSE]
  /\ UNCHANGED <<comm, chan>>

\* One end restarts.
Reboot(e) ==
  /\ Life!Reboot(e)
  /\ chan' = [f \in End |-> <<>>]
  /\ comm' = [comm EXCEPT ![e] = InitComm]
  /\ canSend' = [canSend EXCEPT ![e] = FALSE]

-----------------------------------------------------------------------------
Step(e) ==
  \/ \E data \in Payload : Process(e, data)
  \/ SendData(e)
  \/ Receive(e)
  \/ Disconnected(e)

Next ==
  \/ Connect
  \/ Subscribe
  \/ Subscribed
  \/ \E e \in End : Step(e)
  \/ LinkLoss
  \/ \E e \in End : Reboot(e)

Spec == Init /\ [][Next]_vars

\* The timer fires, the stack delivers its events, and an advertising node is
\* found.  Nothing makes the link fail or hold.
Fairness ==
  /\ WF_vars(Connect) /\ WF_vars(Subscribe) /\ WF_vars(Subscribed)
  /\ \A e \in End :
       /\ WF_vars(\E data \in Payload : Process(e, data))
       /\ WF_vars(SendData(e))
       /\ WF_vars(Receive(e))
       /\ WF_vars(Disconnected(e))

FairSpec == Spec /\ Fairness

-----------------------------------------------------------------------------
\* The values the variables range over.
TypeOK ==
  /\ up \in BOOLEAN
  /\ conn \in [End -> BOOLEAN]
  /\ state \in [End -> {"IDLE", "DATA"}]
  /\ comm \in [End -> [x : Seqno, y : Seqno, recv : Seq(Packet), send : Seq(Packet),
                       auto_send : BOOLEAN]]
  /\ canSend \in [End -> BOOLEAN]
  /\ chan \in [End -> Seq(Packet)]

\* No packet is ever dropped by ble_receive_data: whatever is on its way to an
\* end that exchanges data still finds room in its queue of two, because the
\* lockstep of the sequence numbers stops the sender in time.
NeverDropped ==
  \A e \in End :
    state[e] = "DATA" => Len(comm[e].recv) + Len(chan[e]) <= QUEUE_SIZE

\* While the link holds, both ends keep sending: the sequence numbers come round
\* for ever.
KeepsTalking ==
  \A e \in End : ([]<>(comm[e].x = 0) /\ []<>(comm[e].x # 0)) \/ []<>~up

=============================================================================
