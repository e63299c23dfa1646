------------------------------ MODULE Handshake ------------------------------
(***************************************************************************)
(* The session handshake between the AP and one node, run over SyncLink.   *)
(* core0 of each end moves its comm_state on the packets it consumes; an   *)
(* end that sees its peer start anew enters reset, and waits there for its *)
(* own core1 to clear what it kept of the old session and to restore init. *)
(*                                                                         *)
(* comm_state is an array of two, for the left and the right link.  The AP *)
(* uses both; core0 of a node always uses element 0, core1 of a node the   *)
(* element of its side.                                                    *)
(***************************************************************************)
EXTENDS Integers, Sequences, SequencesExt, CommState

CONSTANTS
  SEQ_SIZE,   \* sequence numbers (256)
  QUEUE_SIZE, \* BLE_QUEUE_SIZE (2)
  Side        \* the node: 0 is LEFT, 1 is RIGHT

ASSUME SideAssumption == Side \in {0, 1}

VARIABLES
  up, conn, state, comm, canSend, chan, \* the link, see SyncLink
  comm_state, \* kbd_system.comm_state, at each end
  stale       \* history: an end still holds data of a session that its peer,
              \* restarted since, knows nothing of

link == <<up, conn, state, comm, canSend, chan>>
vars == <<link, comm_state, stale>>

Link == INSTANCE SyncLinkRefinement WITH Payload <- Report

ASSUME LinkAssumption == Link!Sizes

End == Link!End

\* Faulty variant: core1 validates the element of the other side.
ValidatedOther(e) == IF e = "ap" THEN {0, 1} ELSE {1 - Side}

\* The element core0 uses, and those core1 validates.
Slot(e) == IF e = "ap" THEN Side ELSE 0
Validated(e) == IF e = "ap" THEN {0, 1} ELSE {Side}

CurrentState(e) == comm_state[e][Slot(e)]

Init ==
  /\ Link!Init
  /\ comm_state = [e \in End |-> [i \in {0, 1} |-> "init"]]
  /\ stale = [e \in End |-> FALSE]

-----------------------------------------------------------------------------
Session == [cs : CommState, stale : BOOLEAN]
Current(e) == [cs |-> CurrentState(e), stale |-> stale[e]]
Cleared == [cs |-> "init", stale |-> FALSE]

\* core1 may end a reset while core0 runs ble_process: what core0 may find next
\* where it would have found a member of S.
SeenByCore0(e, S) ==
  IF Slot(e) \in Validated(e) /\ \E m \in S : m.cs = "reset"
  THEN S \cup {Cleared} ELSE S

Consumed(peer, S) ==
  IF peer = Nothing THEN S
  ELSE {[m EXCEPT !.cs = update_comm_state(m.cs, peer)] : m \in S}

\* What may result when comm_consume is called for each packet of a batch.
SessionsAfter(e, batch) ==
  FoldLeft(LAMBDA S, peer : SeenByCore0(e, Consumed(peer, S)),
           SeenByCore0(e, {Current(e)}), batch)

\* core0's timer: ble_process with comm_consume and comm_produce.
Process(e) ==
  \E m \in Session :
    /\ m \in SessionsAfter(e, Link!Drained(e))
    /\ Link!Process(e, Reported(m.cs))
    /\ comm_state' = [comm_state EXCEPT ![e][Slot(e)] = m.cs]
    /\ stale' = [stale EXCEPT ![e] = m.stale]

\* core1's loop: validate_comm_state.
Validate(e) ==
  /\ \E i \in Validated(e) :
       /\ comm_state[e][i] = "reset"
       /\ comm_state' = [comm_state EXCEPT ![e][i] = "init"]
       /\ stale' = [stale EXCEPT ![e] = @ /\ i # Slot(e)]
  /\ UNCHANGED link

\* A restart forgets the session.
Reboot(e) ==
  /\ Link!Reboot(e)
  /\ comm_state' = [comm_state EXCEPT ![e] = [i \in {0, 1} |-> "init"]]
  /\ stale' = [f \in End |->
       f # e /\ (stale[f] \/ CurrentState(f) \in {"data", "reset"})]

\* A step of the link that is none of its user's.
LinkStep ==
  /\ \/ Link!Connect \/ Link!Subscribe \/ Link!Subscribed \/ Link!LinkLoss
     \/ \E e \in End : Link!SendData(e) \/ Link!Receive(e) \/ Link!Disconnected(e)
  /\ UNCHANGED <<comm_state, stale>>

Next ==
  \/ LinkStep
  \/ \E e \in End : Process(e) \/ Validate(e) \/ Reboot(e)

Spec == Init /\ [][Next]_vars

Fairness ==
  /\ WF_vars(Link!Connect /\ UNCHANGED <<comm_state, stale>>)
  /\ WF_vars(Link!Subscribe /\ UNCHANGED <<comm_state, stale>>)
  /\ WF_vars(Link!Subscribed /\ UNCHANGED <<comm_state, stale>>)
  /\ \A e \in End :
       /\ WF_vars(Process(e))
       /\ WF_vars(Validate(e))
       /\ WF_vars(Link!SendData(e) /\ UNCHANGED <<comm_state, stale>>)
       /\ WF_vars(Link!Receive(e) /\ UNCHANGED <<comm_state, stale>>)
       /\ WF_vars(Link!Disconnected(e) /\ UNCHANGED <<comm_state, stale>>)

FairSpec == Spec /\ Fairness

-----------------------------------------------------------------------------
\* The values the variables range over.
TypeOK ==
  /\ Link!TypeOK
  /\ comm_state \in [End -> [{0, 1} -> CommState]]
  /\ stale \in [End -> BOOLEAN]

\* Whatever is on its way still finds room in the receive queue: see SyncLink.
NeverDropped == Link!NeverDropped

\* The packets the handshake is made of come through the link as through the
\* pipe TaskFlow is built on: see SyncLinkRefinement.
ImplementsPipe == Link!ImplementsPipe

\* Neither end falls silent while the link holds: see SyncLink.
KeepsTalking == Link!KeepsTalking

\* Both ends exchange data only when each has cleared what it kept of a session
\* that the other one's restart ended.
FreshSession ==
  CurrentState("ap") = "data" /\ CurrentState("node") = "data" =>
    ~stale["ap"] /\ ~stale["node"]

\* core0.c:93 "default: // kbd_comm_state_reset / wait for core1 to update it to
\* init": no end stays in reset.
ResetIsTemporary ==
  \A e \in End : CurrentState(e) = "reset" ~> CurrentState(e) # "reset"

\* Once the link holds, and each end polls before a second packet arrives, both
\* ends come to exchange data for good, whatever was rebooted when before that.
Settles ==
  <>[](up /\ \A e \in End : Len(comm[e].recv) <= 1) =>
    <>[](\A e \in End : CurrentState(e) = "data")

=============================================================================
