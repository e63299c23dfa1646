------------------------------- MODULE PeerComm -------------------------------
(***************************************************************************)
(* The wired keyboard (src/pico/kbd): two units on a serial line, of which *)
(* the one with the USB host becomes the master.  peer_comm.c with the     *)
(* loops of core0.c and core1.c that drive it: the units find each other,  *)
(* take roles and exchange versions; then the master starts a cycle every  *)
(* 5 ms, in which each byte received is answered by one, until neither has *)
(* data left.                                                              *)
(*                                                                         *)
(* peer_comm_on_receive is an interrupt handler on core1: one step.  The   *)
(* UART has neither FIFO nor flow control: a byte may be lost.  A cycle is *)
(* a few hundred bytes of 5 us, so a tick of 5 ms finds it over, or the    *)
(* line silent because a byte was lost.  A byte repeated while the last    *)
(* one is still under way adds nothing, and is left out.  As peer_comm.h:6 *)
(* says, one unit has a USB host.                                          *)
(***************************************************************************)
EXTENDS Integers, Sequences, FiniteSetsExt

CONSTANTS
  HOST,      \* the unit with the USB host
  MasterOut, \* the datasets the master sends
  SlaveOut,  \* the datasets the slave sends
  SIZE,      \* bytes of a dataset
  FIRST_BITS, \* patterns of the first bits of a dataset, see Byte
  MSB_BITS,  \* data bytes whose first bits one byte carries (6)
  MAX_LOST   \* bytes the line may lose

ASSUME ParameterAssumption ==
  /\ HOST \in {"left", "right"}
  /\ SIZE \in Nat \ {0} /\ MSB_BITS \in Nat \ {0}
  /\ MasterOut \cup SlaveOut \subseteq Nat /\ MasterOut \cap SlaveOut = {}

VARIABLES
  pattern,  \* the bytes of version 0 of a dataset with the first bit set: see Byte
  pcc,      \* peer_comm_config_t of each unit
  role,     \* kbd_system.role of each unit, set by core0
  pc,       \* where core1 of each unit is: see Seek
  line,     \* bytes on their way to each unit
  sent,     \* the version of each dataset that was last read to be sent
  fresh,    \* the datasets whose ts is not data_ts there
  received, \* what it holds at the other unit
  lost      \* bytes lost so far: while the units set up, and later

vars == <<pattern, pcc, role, pc, line, fresh, sent, received, lost>>

Unit == {"left", "right"}
Peer(u) == IF u = "left" THEN "right" ELSE "left"
Side(u) == IF u = "left" THEN "MASTER_LEFT" ELSE "MASTER_RIGHT"

\* A dataset is a number, less than the size of the tables.
Id == MasterOut \cup SlaveOut
Sender(id) == IF id \in MasterOut THEN HOST ELSE Peer(HOST)

\* A byte of a dataset: seven bits that tell the versions apart, and the first one,
\* which is set in every byte of just one of the versions.
Version == {0, 1}
Byte == [low : Version, hi : BOOLEAN]
Bytes(v) == [i \in 1 .. SIZE |-> [low |-> v, hi |-> (i \in pattern) = (v = 0)]]

\* A byte on the line: command or data, with what its other bits say.  The byte with
\* first bits, like msbs itself, is the set of the positions of the bits that are 1.
Put(cmd, arg) == [cmd |-> cmd, arg |-> arg]
PutMsbs(msbs) == [cmd |-> "SET_MSB", msbs |-> msbs]
Command(cmd) == Put(cmd, 0)

\* peer_comm_reset_state
Reset(p) == [p EXCEPT !.busy = FALSE, !.in_active = FALSE, !.out_stage = 0,
                      !.last_state = <<0, 0, 0, 0>>]

\* new_peer_comm_config
NewConfig ==
  [role |-> "NONE", peer_ready |-> FALSE, peer_version |-> FALSE, outs |-> {},
   busy |-> FALSE, last_state |-> <<0, 0, 0, 0>>,
   in_active |-> FALSE, in_id |-> 0, in_buff |-> <<>>,
   out_stage |-> 0, out_id |-> 0, out_pos |-> 0, msbs |-> {}]

Init ==
  /\ pattern \in FIRST_BITS
  /\ pcc = [u \in Unit |-> NewConfig]
  /\ role = [u \in Unit |-> "NONE"]
  /\ pc = [u \in Unit |-> "seek"]
  /\ line = [u \in Unit |-> <<>>]
  /\ fresh = {}
  /\ sent = [id \in Id |-> 0]
  /\ received = [id \in Id |-> Bytes(0)]
  /\ lost = [setup |-> 0, later |-> 0]

data == <<fresh, sent, received>>

-----------------------------------------------------------------------------
(* Finding each other: the loops of core1_main and core0_main *)

\* The unit sends a byte of its own accord, when the last one has left; what it was
\* answered comes in as fast, and interrupts the loop.
Sends(u, byte) ==
  /\ line[Peer(u)] = <<>> /\ Len(line[u]) <= 1
  /\ line' = [line EXCEPT ![Peer(u)] = <<byte>>]

\* core1: peer_comm_try_peer until the peer is ready.
Seek(u) ==
  /\ pc[u] = "seek"
  /\ IF pcc[u].peer_ready
     THEN pc' = [pc EXCEPT ![u] = "role"] /\ UNCHANGED line
     ELSE Sends(u, Command("SEEK_PEER")) /\ UNCHANGED pc
  /\ UNCHANGED <<pattern, pcc, role, data, lost>>

\* core0: peer_comm_try_master, once there is a host and a peer.
TryMaster(u) ==
  /\ u = HOST /\ pcc[u].peer_ready /\ pcc[u].role = "NONE"
  /\ pcc' = [pcc EXCEPT ![u].role = Side(u)]
  /\ line' = [line EXCEPT ![Peer(u)] = Append(@, Command("SEEK_SLAVE"))]
  /\ UNCHANGED <<pattern, role, pc, data, lost>>

\* core0: set_kbd_role, which also says which datasets the unit sends.
SetRole(u) ==
  /\ role[u] = "NONE" /\ pcc[u].role \in {"MASTER", "SLAVE"}
  /\ role' = [role EXCEPT ![u] = pcc[u].role]
  /\ pcc' = [pcc EXCEPT ![u].outs =
               IF pcc[u].role = "MASTER" THEN MasterOut ELSE SlaveOut]
  /\ UNCHANGED <<pattern, pc, line, data, lost>>

\* core1 waits for the role.
TakeRole(u) ==
  /\ pc[u] = "role" /\ role[u] # "NONE"
  /\ pc' = [pc EXCEPT ![u] = "version"]
  /\ UNCHANGED <<pattern, pcc, role, line, data, lost>>

\* core1: the master's peer_comm_try_version until the peer's version is known.
AskVersion(u) ==
  /\ pc[u] = "version"
  /\ IF pcc[u].peer_version
     THEN pc' = [pc EXCEPT ![u] = "cycle"] /\ UNCHANGED line
     ELSE role[u] = "MASTER" /\ Sends(u, Command("VERSION")) /\ UNCHANGED pc
  /\ UNCHANGED <<pattern, pcc, role, data, lost>>

Ready == \A u \in Unit : pc[u] = "cycle"

-----------------------------------------------------------------------------
(* A cycle: what a unit sends in answer to a byte *)

\* The interrupt handler takes a byte and leaves the unit with p.
Takes(u, p) ==
  /\ pcc' = [pcc EXCEPT ![u] = p]
  /\ line' = [line EXCEPT ![u] = Tail(@)]

\* It also answers.
Answers(u, p, byte) ==
  /\ pcc' = [pcc EXCEPT ![u] = p]
  /\ line' = [line EXCEPT ![u] = Tail(@), ![Peer(u)] = Append(@, byte)]

\* The datasets that peer_comm_select_next_out may find.
NextOuts(p, start) == {id \in p.outs : id >= start /\ id \in fresh}

\* Stages 0 and 3: the next dataset is copied, with its ts.
SelectNext(u, p) ==
  LET outs == NextOuts(p, IF p.out_stage = 0 THEN 0 ELSE p.out_id)
      id == Min(outs)
  IN  /\ p.out_stage \in {0, 3}
      /\ IF outs = {}
         THEN Answers(u, [p EXCEPT !.out_stage = 4], Command("NO_DATA")) /\ UNCHANGED <<fresh, sent>>
         ELSE /\ Answers(u, [p EXCEPT !.out_stage = 1, !.out_id = id, !.out_pos = 0,
                                      !.msbs = {}],
                         Put("INIT_DATA", id))
              /\ fresh' = fresh \ {id}
              /\ sent' = [sent EXCEPT ![id] = 1 - @]

\* Faulty variant: first bits left at the end of a dataset are not sent.
MsbsDueFull(p) == MSB_BITS - 1 \in p.msbs

\* The byte with the first bits is due when it is full, or the data is at its end.
MsbsDue(p) == IF p.out_stage = 1 THEN MSB_BITS - 1 \in p.msbs ELSE p.msbs # {}

\* Stages 1 and 2.
SendMsbs(u, p) ==
  /\ p.out_stage \in {1, 2} /\ MsbsDue(p)
  /\ Answers(u, [p EXCEPT !.msbs = {}], PutMsbs(p.msbs))
  /\ UNCHANGED <<fresh, sent>>

\* Faulty variant: one byte more than the dataset has.
MoreBytesPast(p) == p.out_pos + 1 <= SIZE

MoreBytes(p) == p.out_pos + 1 < SIZE

Push(msbs, bit) == {i + 1 : i \in msbs} \cup (IF bit THEN {0} ELSE {})

\* Stage 1: the next data byte, whose first bit is kept.
SendByte(u, p) ==
  LET byte == Bytes(sent[p.out_id])[p.out_pos + 1]
      msbs == Push(p.msbs, byte.hi)
  IN  /\ p.out_stage = 1 /\ ~MsbsDue(p)
      /\ Answers(u, IF MoreBytes(p)
                    THEN [p EXCEPT !.msbs = msbs, !.out_pos = @ + 1]
                    ELSE [p EXCEPT !.msbs = msbs, !.out_stage = 2],
                 Put("DATA", byte.low))
      /\ UNCHANGED <<fresh, sent>>

\* Stage 2, after the last first bits.
EndData(u, p) ==
  /\ p.out_stage = 2 /\ ~MsbsDue(p)
  /\ Answers(u, [p EXCEPT !.out_stage = 3], Command("END_DATA"))
  /\ UNCHANGED <<fresh, sent>>

\* Stage 4: the unit has nothing left to send.
EndCycle(u, p, peer_empty) ==
  /\ p.out_stage = 4
  /\ IF peer_empty
     THEN Answers(u, [p EXCEPT !.busy = FALSE], Command("END_CYCLE"))
     ELSE Answers(u, p, Command("NO_DATA"))
  /\ UNCHANGED <<fresh, sent>>

\* peer_comm_emit_next_byte
EmitNextByte(u, p, peer_empty) ==
  \/ SelectNext(u, p)
  \/ SendMsbs(u, p)
  \/ SendByte(u, p)
  \/ EndData(u, p)
  \/ EndCycle(u, p, peer_empty)

-----------------------------------------------------------------------------
(* A cycle: what a unit does with the byte *)

\* peer_comm_start_incoming_dataset
StartIncoming(p, id) ==
  IF id \in p.outs THEN p
  ELSE [p EXCEPT !.in_id = id, !.in_buff = <<>>, !.in_active = TRUE]

\* peer_comm_save_next_data_byte
SaveNextByte(p, low) ==
  IF p.in_active /\ Len(p.in_buff) < SIZE
  THEN [p EXCEPT !.in_buff = Append(@, [low |-> low, hi |-> FALSE])] ELSE p

\* peer_comm_set_msbs: bit i is of the byte i before the last one.
WithMsbs(buff, msbs) ==
  [i \in DOMAIN buff |-> [low |-> buff[i].low, hi |-> buff[i].hi \/ Len(buff) - i \in msbs]]
SetMsbs(p, msbs) ==
  IF p.in_active THEN [p EXCEPT !.in_buff = WithMsbs(@, msbs)] ELSE p

\* peer_comm_finish_incoming_dataset stores what came.
Finished(p) == p.in_active

Receive(u, cmd) == line[u] # <<>> /\ Head(line[u]).cmd = cmd
Arg(u) == Head(line[u]).arg

\* peer_comm_on_receive: bytes of a cycle.
OnData(u) ==
  /\ \/ Receive(u, "DATA") /\ EmitNextByte(u, SaveNextByte(pcc[u], Arg(u)), FALSE)
     \/ Receive(u, "SET_MSB") /\ EmitNextByte(u, SetMsbs(pcc[u], Head(line[u]).msbs), FALSE)
     \/ Receive(u, "INIT_DATA") /\ EmitNextByte(u, StartIncoming(pcc[u], Arg(u)), FALSE)
     \/ Receive(u, "NO_DATA") /\ EmitNextByte(u, pcc[u], TRUE)
     \/ /\ Receive(u, "INIT_CYCLE")
        /\ EmitNextByte(u, [Reset(pcc[u]) EXCEPT !.busy = TRUE], FALSE)
  /\ UNCHANGED <<pattern, role, pc, received, lost>>

OnEndData(u) ==
  /\ Receive(u, "END_DATA")
  /\ received' = IF Finished(pcc[u])
                 THEN [received EXCEPT ![pcc[u].in_id] = pcc[u].in_buff] ELSE received
  /\ EmitNextByte(u, [pcc[u] EXCEPT !.in_active = FALSE], FALSE)
  /\ UNCHANGED <<pattern, role, pc, lost>>

\* peer_comm_on_receive: the other bytes.
OnCommand(u) ==
  LET p == pcc[u]
      version == [p EXCEPT !.peer_version = TRUE]
      slave == [p EXCEPT !.role = "SLAVE"]
  IN  /\ \/ /\ Receive(u, "END_CYCLE")
            /\ Takes(u, [p EXCEPT !.busy = FALSE])
         \/ /\ Receive(u, "VERSION")
            /\ IF p.peer_version THEN Takes(u, p)
               ELSE Answers(u, version, Command("VERSION"))
         \/ /\ Receive(u, "SEEK_PEER")
            /\ Answers(u, [p EXCEPT !.peer_ready = TRUE], Command("PEER_READY"))
         \/ /\ Receive(u, "PEER_READY")
            /\ Takes(u, [p EXCEPT !.peer_ready = TRUE])
         \/ /\ Receive(u, "SEEK_SLAVE")
            /\ IF p.role \in {"NONE", "MASTER_RIGHT", "SLAVE"}
               THEN Answers(u, slave, Command("SLAVE_READY"))
               ELSE Takes(u, p)
         \/ /\ Receive(u, "SLAVE_READY")
            /\ Takes(u, [p EXCEPT !.role = "MASTER"])
      /\ UNCHANGED <<pattern, role, pc, data, lost>>

-----------------------------------------------------------------------------
(* Cycles *)

CurrentState(p) == <<p.in_id, Len(p.in_buff), p.out_id, p.out_pos>>

\* Faulty variant: a cycle that goes on is never restarted.
HungNever(p) == ~p.busy

\* The last cycle is over, or stands where it stood a tick ago.
Hung(p) == ~p.busy \/ p.last_state = CurrentState(p)

\* core1 of the master, every 5 ms: peer_comm_init_cycle.
Tick(u) ==
  /\ pc[u] = "cycle" /\ role[u] = "MASTER"
  /\ \A v \in Unit : line[v] = <<>>
  /\ IF Hung(pcc[u])
     THEN /\ pcc' = [pcc EXCEPT ![u] = [Reset(@) EXCEPT !.busy = TRUE]]
          /\ line' = [line EXCEPT ![Peer(u)] = <<Command("INIT_CYCLE")>>]
     ELSE /\ pcc' = [pcc EXCEPT ![u].last_state = CurrentState(pcc[u])]
          /\ UNCHANGED line
  /\ UNCHANGED <<pattern, role, pc, data, lost>>

\* core0 or core1 of its sender writes a dataset.
Write(id) ==
  /\ pc[Sender(id)] = "cycle"
  /\ fresh' = fresh \cup {id}
  /\ UNCHANGED <<pattern, pcc, role, pc, line, sent, received, lost>>

Lose(u) ==
  /\ line[u] # <<>>
  /\ lost.setup + lost.later < MAX_LOST
  /\ line' = [line EXCEPT ![u] = Tail(@)]
  /\ lost' = IF Ready THEN [lost EXCEPT !.later = @ + 1] ELSE [lost EXCEPT !.setup = @ + 1]
  /\ UNCHANGED <<pattern, pcc, role, pc, data>>

Next ==
  \/ \E u \in Unit :
       \/ Seek(u) \/ TryMaster(u) \/ SetRole(u) \/ TakeRole(u) \/ AskVersion(u)
       \/ OnData(u) \/ OnEndData(u) \/ OnCommand(u)
       \/ Tick(u) \/ Lose(u)
  \/ \E id \in Id : Write(id)

Spec == Init /\ [][Next]_vars

\* Both cores of both units run, and a byte that is not lost interrupts core1.
Fairness ==
  \A u \in Unit :
    /\ WF_vars(Seek(u)) /\ WF_vars(TryMaster(u)) /\ WF_vars(SetRole(u))
    /\ WF_vars(TakeRole(u)) /\ WF_vars(AskVersion(u))
    /\ WF_vars(OnData(u)) /\ WF_vars(OnEndData(u)) /\ WF_vars(OnCommand(u))
    /\ WF_vars(Tick(u))

FairSpec == Spec /\ Fairness

-----------------------------------------------------------------------------
\* The commands without a number, the bytes of the line, and the fields of a unit.
Commands ==
  {"SEEK_PEER", "PEER_READY", "SEEK_SLAVE", "SLAVE_READY", "VERSION",
   "INIT_CYCLE", "NO_DATA", "END_DATA", "END_CYCLE"}
LineByte ==
  [cmd : Commands, arg : {0}] \cup [cmd : {"DATA"}, arg : Version]
    \cup [cmd : {"INIT_DATA"}, arg : Id]
    \cup [cmd : {"SET_MSB"}, msbs : SUBSET (0 .. MSB_BITS - 1)]
Config ==
  [role : {"NONE", "MASTER_LEFT", "MASTER_RIGHT", "MASTER", "SLAVE"},
   peer_ready : BOOLEAN, peer_version : BOOLEAN, outs : {{}, MasterOut, SlaveOut},
   busy : BOOLEAN, last_state : (Id \cup {0}) \X (0 .. SIZE) \X (Id \cup {0}) \X (0 .. SIZE),
   in_active : BOOLEAN, in_id : Id \cup {0}, in_buff : Seq(Byte),
   out_stage : 0 .. 4, out_id : Id \cup {0}, out_pos : 0 .. SIZE - 1,
   msbs : SUBSET (0 .. MSB_BITS - 1)]

\* The values the variables range over.
TypeOK ==
  /\ pcc \in [Unit -> Config] /\ \A u \in Unit : Len(pcc[u].in_buff) <= SIZE
  /\ role \in [Unit -> {"NONE", "MASTER", "SLAVE"}]
  /\ pc \in [Unit -> {"seek", "role", "version", "cycle"}]
  /\ line \in [Unit -> Seq(LineByte)]
  /\ fresh \subseteq Id
  /\ sent \in [Id -> Version] /\ received \in [Id -> Seq(Byte)]

\* What a unit holds of its peer is what the peer wrote at some time, byte for byte,
\* first bits included, although it is written while it is sent, nothing checks it on
\* the way, and a byte may be lost.
Intact == \A id \in Id : received[id] \in {Bytes(0), Bytes(1)}

\* The unit with the host becomes the master of the other one, and both exchange data.
RolesSettle == Ready /\ role[HOST] = "MASTER" /\ role[Peer(HOST)] = "SLAVE"

\* Unless a byte was lost while the units set up, they settle their roles; and once
\* nothing is written any more nothing waits to be sent, even if a byte was lost
\* since; and if none was, the peer has the last version of everything.
Delivered ==
  <>(lost.setup > 0) \/
    /\ <>[]RolesSettle
    /\ \/ []<><<\E id \in Id : Write(id)>>_vars
       \/ <>[](/\ fresh = {}
               /\ lost.later = 0 => \A id \in Id : received[id] = Bytes(sent[id]))

=============================================================================
