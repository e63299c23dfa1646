------------------------------- MODULE TaskFlow -------------------------------
(***************************************************************************)
(* The tasks the AP gives to one node (LEFT), from the screens' requests   *)
(* on core1 of the AP, through the shared buffers and the packets of core0 *)
(* of both, to the worker on core1 of the node, and the responses back.    *)
(* The packets travel through PacketPipe.  core0 and core1 of a device run *)
(* in parallel: they meet only in the shared buffers, each read or written *)
(* under a spin lock, and in comm_state.                                   *)
(*                                                                         *)
(* A task is its id, the boot of the AP that issued it, and whether it     *)
(* switches the screen or edits something on it.  Left out: what it is     *)
(* about; the right node, whose tasks take some of the ids; and the        *)
(* screen, which is always the one of the newest task (the INIT event of   *)
(* every screen makes a task for the left node).                           *)
(***************************************************************************)
EXTENDS Integers, Sequences, FiniteSets, CommState

CONSTANTS
  MAX_ID,    \* bound on the ids used in one boot (255, then 1 again)
  MAX_BOOTS, \* bound on the boots of the AP
  RESTARTS   \* the devices that may restart: "ap", "node", "right"

ASSUME MaxIdAssumption    == MAX_ID \in Nat \ {0}
ASSUME MaxBootsAssumption == MAX_BOOTS \in Nat \ {0}
ASSUME RestartsAssumption == RESTARTS \subseteq {"ap", "node", "right"}

VARIABLES
  linked, open, ahead, pipe, \* see PacketPipe
  todo,       \* the packets core0 has yet to consume in its poll
  boots,      \* how often the AP has started
  comm_state, \* comm_state[0], at each end
  ap,         \* the AP's side of the task flow
  node,       \* the node's side of it
  received,   \* history: core0 of the node has received the AP's request
  newest,     \* history: the newest task the node has executed
  overtaken   \* history: a poll has found two packets and taken the newer one first

pipeVars == <<linked, open, ahead, pipe>>
vars == <<pipeVars, todo, boots, comm_state, ap, node, received, newest, overtaken>>

Task == [id : 0 .. MAX_ID, boot : 0 .. MAX_BOOTS, nav : BOOLEAN]
NoTask == [id |-> 0, boot |-> 0, nav |-> TRUE]
Older(s, t) == s.boot < t.boot \/ (s.boot = t.boot /\ s.id < t.id)

\* A shared buffer, and whether it was written since the reader last read it.
Buffer == [task : Task, new : BOOLEAN]
Cleared == [task |-> NoTask, new |-> FALSE]
Written(t) == [task |-> t, new |-> TRUE]

\* A packet: the sender's state and, in data state, at most one task (a request
\* or a response) and the id of the task last received from the receiver.
Packet == [cs : Report, task : {{}} \cup {{t} : t \in Task}, ack : 0 .. MAX_ID]

Pipe == INSTANCE PacketPipe WITH Payload <- Packet

End == Pipe!End

\* request and response are core1's left_task_request and left_task_response;
\* core1 writes the buffer sb_left_task_request with every request it makes.
ApStarted ==
  [request |-> NoTask, response |-> NoTask, sb_response |-> Cleared,
   ack_req_id |-> 0, rcv_res_id |-> 0, last_id |-> 0, reset_screen |-> TRUE]

\* core1 writes the buffer sb_task_response with every response it makes.
NodeStarted ==
  [sb_request |-> Cleared, request |-> NoTask, response |-> NoTask,
   rcv_req_id |-> 0, ack_res_id |-> 0]

Init ==
  /\ Pipe!Init
  /\ todo = [e \in End |-> <<>>]
  /\ boots = 1
  /\ comm_state = [e \in End |-> "init"]
  /\ ap = ApStarted
  /\ node = NodeStarted
  /\ received = FALSE
  /\ newest = NoTask
  /\ overtaken = FALSE

-----------------------------------------------------------------------------
(* core0: ble_process *)

\* A poll takes all that has arrived, the newest packet first.
TakePackets(e) ==
  /\ todo[e] = <<>>
  /\ \E n \in 1 .. Len(pipe[e]) :
       /\ Pipe!Poll(e, n, <<>>)
       /\ todo' = [todo EXCEPT ![e] = Pipe!Batch(e, n)]
       /\ overtaken' = (overtaken \/ n > 1)
  /\ UNCHANGED <<boots, comm_state, ap, node, received, newest>>

\* Faulty variant: a response counts as the acknowledgement of the request made last.
ApTakesAny(p) ==
  /\ ap' = [ap EXCEPT
       !.ack_req_id = ap.last_id,
       !.rcv_res_id = IF p.task = {} THEN @ ELSE (CHOOSE t \in p.task : TRUE).id,
       !.sb_response = IF p.task = {} THEN @ ELSE Written(CHOOSE t \in p.task : TRUE)]
  /\ UNCHANGED <<node, received>>

\* comm_consume's effects on the two sides when both ends are in data state.
ApTakes(p) ==
  /\ ap' = [ap EXCEPT
       !.ack_req_id = p.ack,
       !.rcv_res_id = IF p.task = {} THEN @ ELSE (CHOOSE t \in p.task : TRUE).id,
       !.sb_response = IF p.task = {} THEN @ ELSE Written(CHOOSE t \in p.task : TRUE)]
  /\ UNCHANGED <<node, received>>

NodeTakes(p) ==
  /\ node' = [node EXCEPT
       !.ack_res_id = p.ack,
       !.rcv_req_id = IF p.task = {} THEN @ ELSE (CHOOSE t \in p.task : TRUE).id,
       !.sb_request = IF p.task = {} THEN @ ELSE Written(CHOOSE t \in p.task : TRUE)]
  /\ received' = (received \/ ap.request \in p.task)
  /\ UNCHANGED ap

\* comm_consume, for the next packet of the poll.
Consume(e) ==
  /\ todo[e] # <<>>
  /\ LET p  == Head(todo[e])
         cs == IF p.cs = Nothing THEN comm_state[e]
               ELSE update_comm_state(comm_state[e], p.cs)
     IN  /\ comm_state' = [comm_state EXCEPT ![e] = cs]
         /\ IF cs = "data" /\ p.cs = "data"
            THEN IF e = "ap" THEN ApTakes(p) ELSE NodeTakes(p)
            ELSE UNCHANGED <<ap, node, received>>
  /\ todo' = [todo EXCEPT ![e] = Tail(@)]
  /\ UNCHANGED <<pipeVars, boots, newest, overtaken>>

\* The task a packet carries: the request or response, unless acknowledged.
Unacknowledged(task, ack) == IF task.id # ack THEN {task} ELSE {}

\* Faulty variant: the two ids are swapped, sent and received.
ProducedSwapped(e) ==
  IF comm_state[e] # "data" THEN [cs |-> Reported(comm_state[e]), task |-> {}, ack |-> 0]
  ELSE IF e = "ap"
  THEN [cs |-> "data", task |-> Unacknowledged(ap.request, ap.rcv_res_id),
        ack |-> ap.ack_req_id]
  ELSE [cs |-> "data", task |-> Unacknowledged(node.response, node.rcv_req_id),
        ack |-> node.ack_res_id]

\* comm_produce.
Produced(e) ==
  IF comm_state[e] # "data" THEN [cs |-> Reported(comm_state[e]), task |-> {}, ack |-> 0]
  ELSE IF e = "ap"
  THEN [cs |-> "data", task |-> Unacknowledged(ap.request, ap.ack_req_id),
        ack |-> ap.rcv_res_id]
  ELSE [cs |-> "data", task |-> Unacknowledged(node.response, node.ack_res_id),
        ack |-> node.rcv_req_id]

\* A poll that has nothing left to consume may send a packet.
SendPacket(e) ==
  /\ todo[e] = <<>>
  /\ Pipe!Poll(e, 0, <<Produced(e)>>)
  /\ UNCHANGED <<todo, boots, comm_state, ap, node, received, newest, overtaken>>

-----------------------------------------------------------------------------
(* core1 of the AP: validate_comm_state and process_inputs *)

UnchangedByCore1 == UNCHANGED <<pipeVars, todo, boots, overtaken>>

\* What validate_comm_state clears, for either index.
ApCleared == [ap EXCEPT !.request = NoTask, !.response = NoTask,
                        !.sb_response = Cleared, !.reset_screen = TRUE]

\* The session with the left node was reset, or the one with the right node,
\* which leaves comm_state[0] alone.
ApValidate ==
  /\ \/ /\ comm_state["ap"] = "reset"
        /\ comm_state' = [comm_state EXCEPT !["ap"] = "init"]
     \/ /\ "right" \in RESTARTS
        /\ UNCHANGED comm_state
  /\ ap' = ApCleared
  /\ received' = FALSE
  /\ UnchangedByCore1 /\ UNCHANGED <<node, newest>>

\* process_inputs reads the response buffer.
ReadResponse ==
  /\ ap.sb_response.new
  /\ ap' = [ap EXCEPT !.response = ap.sb_response.task, !.sb_response.new = FALSE]
  /\ UnchangedByCore1 /\ UNCHANGED <<comm_state, node, received, newest>>

Pending == ap.request.id # 0 /\ ap.request.id # ap.response.id

\* init_task_request, and the write of the request buffer.
NewRequest(nav) ==
  /\ ap.last_id < MAX_ID
  /\ ap' = [ap EXCEPT
       !.request = [id |-> ap.last_id + 1, boot |-> boots, nav |-> nav],
       !.last_id = @ + 1, !.reset_screen = FALSE]
  /\ received' = FALSE
  /\ UnchangedByCore1 /\ UNCHANGED <<comm_state, node, newest>>

\* handle_screen_event: an event that switches the screen, as a reset does.
NavEvent == NewRequest(TRUE)

\* Faulty variant: an event is handled while a request is pending.
EditEventAnyTime ==
  /\ ~ap.reset_screen
  /\ NewRequest(FALSE)

\* Any other event is ignored until the last request is answered.
EditEvent ==
  /\ ~ap.reset_screen
  /\ ~Pending
  /\ NewRequest(FALSE)

-----------------------------------------------------------------------------
(* core1 of the node: validate_comm_state and process_requests *)

\* Faulty variant: the response outlives the session.
NodeValidateKeeping ==
  /\ comm_state["node"] = "reset"
  /\ comm_state' = [comm_state EXCEPT !["node"] = "init"]
  /\ node' = [node EXCEPT !.sb_request = Cleared, !.request = NoTask]
  /\ UnchangedByCore1 /\ UNCHANGED <<ap, received, newest>>

\* The node's part of a reset.
NodeValidate ==
  /\ comm_state["node"] = "reset"
  /\ comm_state' = [comm_state EXCEPT !["node"] = "init"]
  /\ node' = [node EXCEPT !.sb_request = Cleared, !.request = NoTask,
                          !.response = NoTask]
  /\ UnchangedByCore1 /\ UNCHANGED <<ap, received, newest>>

ReadRequest ==
  /\ node.sb_request.new
  /\ node' = [node EXCEPT !.request = node.sb_request.task, !.sb_request.new = FALSE]
  /\ UnchangedByCore1 /\ UNCHANGED <<comm_state, ap, received, newest>>

\* work_screen_task, and the write of the response buffer.
Work ==
  /\ node.request.id # 0
  /\ node.response.id # node.request.id
  /\ node' = [node EXCEPT !.response = node.request]
  /\ newest' = IF Older(newest, node.request) THEN node.request ELSE newest
  /\ UnchangedByCore1 /\ UNCHANGED <<comm_state, ap, received>>

-----------------------------------------------------------------------------
(* The link, and restarts *)

UnchangedByLink ==
  UNCHANGED <<todo, boots, comm_state, ap, node, received, newest, overtaken>>

Connect    == (Pipe!Open \/ Pipe!Join) /\ UnchangedByLink
Lose       == Pipe!Lose /\ UnchangedByLink
Disconnect == (\E e \in End : todo[e] = <<>> /\ Pipe!Leave(e)) /\ UnchangedByLink

Reboot(e) ==
  /\ e \in RESTARTS
  /\ Pipe!Reboot(e)
  /\ todo' = [todo EXCEPT ![e] = <<>>]
  /\ comm_state' = [comm_state EXCEPT ![e] = "init"]
  /\ IF e = "ap"
     THEN /\ boots < MAX_BOOTS
          /\ boots' = boots + 1
          /\ ap' = ApStarted
          /\ received' = FALSE
          /\ UNCHANGED node
     ELSE node' = NodeStarted /\ UNCHANGED <<boots, ap, received>>
  /\ UNCHANGED <<newest, overtaken>>

Core0(e) == TakePackets(e) \/ Consume(e) \/ SendPacket(e)

Next ==
  \/ \E e \in End : Core0(e)
  \/ ApValidate \/ ReadResponse \/ NavEvent \/ EditEvent
  \/ NodeValidate \/ ReadRequest \/ Work
  \/ Connect \/ Lose \/ Disconnect
  \/ \E e \in End : Reboot(e)

Spec == Init /\ [][Next]_vars

\* Both cores of both devices keep running, and a node is found again.  A device
\* keeps sending (see KeepsTalking in SyncLink).  The user need not do anything,
\* but the INIT event after a start or a reset comes by itself.
Fairness ==
  /\ \A e \in End : WF_vars(TakePackets(e)) /\ WF_vars(Consume(e)) /\ SF_vars(SendPacket(e))
  /\ WF_vars(ApValidate /\ comm_state["ap"] = "reset")
  /\ WF_vars(ReadResponse) /\ WF_vars(NavEvent /\ ap.reset_screen)
  /\ WF_vars(NodeValidate) /\ WF_vars(ReadRequest) /\ WF_vars(Work)
  /\ WF_vars(Connect) /\ WF_vars(Disconnect)

FairSpec == Spec /\ Fairness

-----------------------------------------------------------------------------
\* The values the variables range over.
TypeOK ==
  /\ linked \in BOOLEAN /\ open \in [End -> BOOLEAN] /\ ahead \in End \cup {"none"}
  /\ pipe \in [End -> Seq(Packet)]
  /\ todo \in [End -> Seq(Packet)]
  /\ boots \in 1 .. MAX_BOOTS
  /\ comm_state \in [End -> CommState]
  /\ ap \in [request : Task, response : Task, sb_response : Buffer,
             ack_req_id : 0 .. MAX_ID, rcv_res_id : 0 .. MAX_ID,
             last_id : 0 .. MAX_ID, reset_screen : BOOLEAN]
  /\ node \in [sb_request : Buffer, request : Task, response : Task,
               rcv_req_id : 0 .. MAX_ID, ack_res_id : 0 .. MAX_ID]
  /\ received \in BOOLEAN
  /\ newest \in Task
  /\ overtaken \in BOOLEAN

\* A newer packet overtook an older one, and the AP, which numbers its tasks from 1 after
\* each start, has used an id twice.
Confusable == overtaken /\ boots > 1

\* Once it has happened it stays so and the properties excepted promise nothing, so that
\* the run TaskFlow need not go on from there.
Distinguishable == ~Confusable

\* A task that the AP takes for completed was executed: the response it holds is to this
\* very request, not to one of the same id from before a restart.  It takes both a restart
\* of the AP and a poll that found two packets to break this.
CompletedWasExecuted ==
  ap.request.id # 0 /\ ~Pending /\ ~Confusable => ap.response = ap.request

\* core0.c:175 "add request unless acknowledged": the AP stops sending a request
\* only once the node has received it.
AckMeansReceived ==
  comm_state["ap"] = "data" /\ ap.request.id # 0
    /\ ap.request.id = ap.ack_req_id => received

\* screen_model.h:49 "each task is acknowledged via a task response returned to
\* AP node": once the link holds every request is answered, whatever the polls find.
TasksAnswered ==
  <>[]linked => (Pending ~> ~Pending)

\* screen_model.h:51 "there is only one task possible at a time for any node. no more tasks
\* until the current one is completed": an edit is never executed before the task before it
\* was, and it is executed again, or after a newer task, only if some poll found two packets.
EditsInOrder ==
  [][Work /\ ~node.request.nav /\ ~Confusable =>
       /\ newest.boot = node.request.boot
       /\ newest.id >= node.request.id - 1
       /\ newest.id # node.request.id - 1 => overtaken]_vars

=============================================================================
