---------------------------- MODULE PeerCommProofs ----------------------------
(***************************************************************************)
(* What a unit of the wired keyboard holds of its peer is what the peer    *)
(* wrote, whichever bytes the line loses and whatever is written meanwhile.*)
(*                                                                         *)
(* The units answer each other, so that at most one byte of a cycle is     *)
(* under way (OneInv).  While one is, both directions are in step once it  *)
(* is taken (StepInv): the receiver has the bytes the sender is past, with *)
(* their first bits set or still to come.  A lost byte ends the cycle, and *)
(* the first byte of the next one brings both directions in step again.    *)
(* All of this takes that each unit sends datasets of its own (OwnInv).    *)
(***************************************************************************)
EXTENDS PeerComm, TLAPS, NaturalsInduction, WellFoundedInduction

-----------------------------------------------------------------------------
(* Units, datasets and bytes *)

LEMMA Units ==
  ASSUME NEW u \in Unit
  PROVE  /\ Peer(u) \in Unit /\ Peer(u) # u /\ Peer(Peer(u)) = u
         /\ \A v \in Unit : v = u \/ v = Peer(u)
         /\ HOST \in Unit
BY ParameterAssumption DEF Unit, Peer

Less == OpToRel(<, Nat)

LEMMA LessDef ==
  ASSUME NEW x \in Nat, NEW y \in Nat
  PROVE  <<y, x>> \in Less <=> y < x
BY DEF Less, OpToRel

\* A dataset is a number, so that there is a first one among those to send.
LEMMA LeastId ==
  ASSUME NEW S \in SUBSET Id, S # {}
  PROVE  Min(S) \in S
<1>0. S \subseteq Nat
  BY ParameterAssumption DEF Id
<1>1. IsWellFoundedOn(Less, Nat)
  BY NatLessThanWellFounded DEF Less
<1>2. PICK x \in S : \A y \in S : ~(<<y, x>> \in Less)
  BY <1>0, <1>1, WFMin
<1>3. ASSUME NEW y \in S
      PROVE  x =< y
  <2>1. x \in Nat /\ y \in Nat /\ ~(<<y, x>> \in Less)
    BY <1>0, <1>2
  <2> QED
    BY <2>1, LessDef
<1> QED
  BY <1>2, <1>3 DEF Min

LEMMA Tails ==
  ASSUME NEW S, NEW s \in Seq(S), s # <<>>
  PROVE  /\ Tail(s) \in Seq(S) /\ Len(s) >= 1 /\ Len(Tail(s)) = Len(s) - 1
         /\ Head(s) \in S /\ Head(s) = s[1]
         /\ \A i \in 1 .. Len(Tail(s)) : i + 1 \in 1 .. Len(s) /\ Tail(s)[i] = s[i + 1]
OBVIOUS

LEMMA Appends ==
  ASSUME NEW S, NEW s \in Seq(S), NEW c \in S
  PROVE  /\ Append(s, c) \in Seq(S) /\ Len(Append(s, c)) = Len(s) + 1
         /\ \A i \in 1 .. Len(s) : Append(s, c)[i] = s[i]
         /\ Append(s, c)[Len(s) + 1] = c
OBVIOUS

-----------------------------------------------------------------------------
(* The invariant of the serial line *)

\* The bytes of a cycle, each of which the unit that receives it answers.
Cycle == {"INIT_CYCLE", "INIT_DATA", "DATA", "SET_MSB", "END_DATA", "NO_DATA", "END_CYCLE"}

Own(u) == IF u = HOST THEN MasterOut ELSE SlaveOut

Lacks(u, cmd) == \A i \in 1 .. Len(line[u]) : line[u][i].cmd # cmd

\* Only the unit without the host is the slave, and each sends datasets of its own.
OwnInv ==
  /\ pcc[HOST].role # "SLAVE" /\ Lacks(HOST, "SEEK_SLAVE")
  /\ pcc[Peer(HOST)].role \in {"NONE", "SLAVE"} /\ Lacks(Peer(HOST), "SLAVE_READY")
  /\ \A u \in Unit :
       /\ pcc[u].outs \subseteq Own(u)
       /\ pcc[u].out_stage \in {1, 2} => pcc[u].out_id \in Own(u)
       /\ \A i \in 1 .. Len(line[u]) :
            line[u][i].cmd = "INIT_DATA" => line[u][i].arg \in Own(Peer(u))

\* At most one byte of a cycle is under way.
OneInv ==
  \A u, v \in Unit : \A i \in 1 .. Len(line[u]), j \in 1 .. Len(line[v]) :
    line[u][i].cmd \in Cycle /\ line[v][j].cmd \in Cycle => u = v /\ i = j

\* What the unit has once it has taken a byte of a cycle.
Taken(q, b) ==
  CASE b.cmd = "DATA"      -> SaveNextByte(q, b.arg)
    [] b.cmd = "SET_MSB"   -> SetMsbs(q, b.msbs)
    [] b.cmd = "INIT_DATA" -> [q EXCEPT !.in_buff = <<>>, !.in_active = TRUE]
    [] b.cmd = "END_DATA"  -> [q EXCEPT !.in_active = FALSE]
    [] OTHER               -> q

\* The first bits of the last bytes are set, or still to come.
Matches(buff, msbs, bytes) ==
  \A i \in 1 .. Len(buff) :
    /\ buff[i].low = bytes[i].low
    /\ bytes[i].hi <=> buff[i].hi \/ Len(buff) - i \in msbs

\* The receiver q has what the sender p has sent of these bytes.
InStep(p, q, bytes) ==
  IF p.out_stage \in {1, 2}
  THEN /\ q.in_active
       /\ Len(q.in_buff) = (IF p.out_stage = 1 THEN p.out_pos ELSE SIZE)
       /\ Matches(q.in_buff, p.msbs, bytes)
  ELSE ~q.in_active

\* The bytes of a version, and those of the dataset the sender p is at.
Of(pat, v) == [i \in 1 .. SIZE |-> [low |-> v, hi |-> (i \in pat) = (v = 0)]]
Data(pat, version, p) == Of(pat, version[p.out_id])

Whole(pat, q) == q.in_active => \E v \in Version : q.in_buff = Of(pat, v)

\* While a byte of a cycle is under way to a unit, both directions are in step, as soon
\* as it is taken; the first byte of a cycle makes them so.
StepInv ==
  \A u \in Unit : \A i \in 1 .. Len(line[u]) :
    LET b == line[u][i]
        p == pcc[Peer(u)]
        q == pcc[u]
    IN  b.cmd \in Cycle =>
          IF b.cmd = "INIT_CYCLE" THEN p.out_stage = 0 /\ ~p.in_active
          ELSE /\ InStep(p, Taken(q, b), Data(pattern, sent, p)) /\ InStep(q, p, Data(pattern, sent, q))
               /\ b.cmd = "END_DATA" => Whole(pattern, q)

\* The bytes of a version, for a pattern that does not change.
LEMMA BytesTyped ==
  ASSUME NEW v \in Version
  PROVE  Bytes(v) = Of(pattern, v) /\ Of(pattern, v) \in [1 .. SIZE -> Byte]
BY DEF Bytes, Of, Byte

-----------------------------------------------------------------------------
(* What a byte does to the receiver *)

Buff == Seq(Byte)
Position == 0 .. SIZE - 1
Msbs == SUBSET (0 .. MSB_BITS - 1)
Role == {"NONE", "MASTER_LEFT", "MASTER_RIGHT", "MASTER", "SLAVE"}
LastState == (Id \cup {0}) \X (0 .. SIZE) \X (Id \cup {0}) \X (0 .. SIZE)
Outs == {{}, MasterOut, SlaveOut}
Ids == Id \cup {0}

LEMMA ConfigIs ==
  Config = [role : Role, peer_ready : BOOLEAN, peer_version : BOOLEAN, outs : Outs,
            busy : BOOLEAN, last_state : LastState, in_active : BOOLEAN, in_id : Ids,
            in_buff : Buff, out_stage : 0 .. 4, out_id : Ids, out_pos : Position, msbs : Msbs]
BY DEF Config, Role, Outs, LastState, Ids, Buff, Position, Msbs

\* The part of a unit that sends stays as it was.
SameOut(p, q) ==
  /\ q.out_stage = p.out_stage /\ q.out_id = p.out_id
  /\ q.out_pos = p.out_pos /\ q.msbs = p.msbs

SameIn(p, q) == q.in_active = p.in_active /\ q.in_buff = p.in_buff

SameRole(p, q) == q.role = p.role /\ q.outs = p.outs

\* The first bits of the last bytes are set, and nothing else changes.
LEMMA WithMsbsTyped ==
  ASSUME NEW buff \in Buff, NEW msbs
  PROVE  /\ WithMsbs(buff, msbs) \in Buff /\ Len(WithMsbs(buff, msbs)) = Len(buff)
         /\ \A i \in 1 .. Len(buff) :
              /\ WithMsbs(buff, msbs)[i].low = buff[i].low
              /\ WithMsbs(buff, msbs)[i].hi <=> buff[i].hi \/ Len(buff) - i \in msbs
<1> DEFINE n == Len(buff)
           hi(i) == buff[i].hi \/ n - i \in msbs
           set(i) == [low |-> buff[i].low, hi |-> hi(i)]
<1>1. n \in Nat /\ DOMAIN buff = 1 .. n /\ \A i \in 1 .. n : buff[i] \in Byte
  BY DEF Buff
<1>2. ASSUME NEW i \in 1 .. n
      PROVE  set(i) \in Byte /\ set(i).low = buff[i].low /\ (set(i).hi <=> hi(i))
  <2>1. hi(i) \in BOOLEAN /\ buff[i].low \in Version
    BY <1>1 DEF Byte
  <2> HIDE DEF hi
  <2> QED
    BY <2>1 DEF Byte
<1>3. WithMsbs(buff, msbs) = [i \in 1 .. n |-> set(i)]
  BY <1>1 DEF WithMsbs
<1> HIDE DEF set
<1>4. /\ WithMsbs(buff, msbs) \in Seq(Byte) /\ Len(WithMsbs(buff, msbs)) = n
      /\ \A i \in 1 .. n : WithMsbs(buff, msbs)[i] = set(i)
  BY <1>1, <1>2, <1>3
<1> QED
  BY <1>2, <1>4 DEF Buff

LEMMA SetMsbsTyped ==
  ASSUME NEW q \in Config, NEW msbs
  PROVE  LET r == SetMsbs(q, msbs)
         IN  /\ r \in Config /\ SameOut(q, r) /\ SameRole(q, r) /\ r.in_active = q.in_active
             /\ r.in_buff = IF q.in_active THEN WithMsbs(q.in_buff, msbs) ELSE q.in_buff
<1> DEFINE buff == WithMsbs(q.in_buff, msbs)
<1>1. buff \in Buff
  BY WithMsbsTyped, ConfigIs
<1>2. SetMsbs(q, msbs) = IF q.in_active THEN [q EXCEPT !.in_buff = buff] ELSE q
  BY DEF SetMsbs
<1> HIDE DEF buff
<1>3. /\ [q EXCEPT !.in_buff = buff] \in Config
      /\ [q EXCEPT !.in_buff = buff].in_buff = buff
      /\ [q EXCEPT !.in_buff = buff].in_active = q.in_active
      /\ SameOut(q, [q EXCEPT !.in_buff = buff]) /\ SameRole(q, [q EXCEPT !.in_buff = buff])
  BY <1>1, ConfigIs DEF SameOut, SameRole
<1>4. SameOut(q, q) /\ SameRole(q, q)
  BY DEF SameOut, SameRole
<1> QED
  BY <1>2, <1>3, <1>4 DEF buff

LEMMA SaveNextByteTyped ==
  ASSUME NEW q \in Config, NEW low \in Version, Len(q.in_buff) <= SIZE
  PROVE  LET r == SaveNextByte(q, low)
         IN  /\ r \in Config /\ Len(r.in_buff) <= SIZE
             /\ SameOut(q, r) /\ SameRole(q, r) /\ r.in_active = q.in_active
             /\ (q.in_active /\ Len(q.in_buff) < SIZE) =>
                  r.in_buff = Append(q.in_buff, [low |-> low, hi |-> FALSE])
<1> DEFINE byte == [low |-> low, hi |-> FALSE]
           buff == Append(q.in_buff, byte)
<1>1. q.in_buff \in Seq(Byte) /\ byte \in Byte /\ SIZE \in Nat
  BY ConfigIs, ParameterAssumption DEF Buff, Byte
<1>2. buff \in Seq(Byte) /\ Len(buff) = Len(q.in_buff) + 1 /\ Len(q.in_buff) \in Nat
  BY <1>1
<1> HIDE DEF buff, byte
<1>3. CASE q.in_active /\ Len(q.in_buff) < SIZE
  <2>1. SaveNextByte(q, low) = [q EXCEPT !.in_buff = buff]
    BY <1>3 DEF SaveNextByte, buff, byte
  <2>2. /\ [q EXCEPT !.in_buff = buff] \in Config
        /\ [q EXCEPT !.in_buff = buff].in_buff = buff
        /\ [q EXCEPT !.in_buff = buff].in_active = q.in_active
        /\ SameOut(q, [q EXCEPT !.in_buff = buff]) /\ SameRole(q, [q EXCEPT !.in_buff = buff])
    BY <1>2, ConfigIs DEF Buff, SameOut, SameRole
  <2>3. Len(buff) <= SIZE
    BY <1>1, <1>2, <1>3
  <2> QED
    BY <2>1, <2>2, <2>3 DEF buff, byte
<1>4. CASE ~(q.in_active /\ Len(q.in_buff) < SIZE)
  BY <1>4 DEF SaveNextByte, SameOut, SameRole
<1> QED
  BY <1>3, <1>4

LEMMA StartTyped ==
  ASSUME NEW q \in Config, NEW id \in Id, id \notin q.outs, SIZE \in Nat
  PROVE  LET r == StartIncoming(q, id)
         IN  /\ r \in Config /\ r.in_buff = <<>> /\ r.in_active = TRUE
             /\ SameOut(q, r) /\ SameRole(q, r)
<1>1. <<>> \in Buff /\ id \in Ids
  BY DEF Buff, Ids
<1>2. StartIncoming(q, id) = [q EXCEPT !.in_id = id, !.in_buff = <<>>, !.in_active = TRUE]
  BY DEF StartIncoming
<1> QED
  BY <1>1, <1>2, ConfigIs DEF SameOut, SameRole

LEMMA TakenIs ==
  ASSUME NEW q \in Config, NEW b
  PROVE  /\ b.cmd = "DATA" => Taken(q, b) = SaveNextByte(q, b.arg)
         /\ b.cmd = "SET_MSB" => Taken(q, b) = SetMsbs(q, b.msbs)
         /\ b.cmd = "INIT_DATA" => Taken(q, b).in_active = TRUE /\ Taken(q, b).in_buff = <<>>
         /\ b.cmd = "END_DATA" => Taken(q, b).in_active = FALSE /\ Taken(q, b).in_buff = q.in_buff
         /\ b.cmd \notin {"DATA", "SET_MSB", "INIT_DATA", "END_DATA"} => Taken(q, b) = q
BY ConfigIs DEF Taken

\* What the unit has then depends on what it had received only.
LEMMA TakenSame ==
  ASSUME NEW q \in Config, NEW r \in Config, SameIn(q, r), NEW b
  PROVE  SameIn(Taken(q, b), Taken(r, b))
<1>1. CASE b.cmd = "DATA"
  <2>1. q.in_active = r.in_active /\ q.in_buff = r.in_buff
    BY DEF SameIn
  <2>2. CASE q.in_active /\ Len(q.in_buff) < SIZE
    <3> DEFINE buff == Append(q.in_buff, [low |-> b.arg, hi |-> FALSE])
    <3>0. Taken(q, b) = SaveNextByte(q, b.arg) /\ Taken(r, b) = SaveNextByte(r, b.arg)
      BY <1>1, TakenIs
    <3>1. Taken(q, b) = [q EXCEPT !.in_buff = buff] /\ Taken(r, b) = [r EXCEPT !.in_buff = buff]
      BY <2>1, <2>2, <3>0 DEF SaveNextByte
    <3> HIDE DEF buff
    <3> QED
      BY <2>1, <3>1, ConfigIs DEF SameIn
  <2>3. CASE ~(q.in_active /\ Len(q.in_buff) < SIZE)
    BY <1>1, <2>1, <2>3, TakenIs DEF SaveNextByte, SameIn
  <2> QED
    BY <2>2, <2>3
<1>2. CASE b.cmd = "SET_MSB"
  <2>1. q.in_active = r.in_active /\ q.in_buff = r.in_buff
    BY DEF SameIn
  <2>2. CASE q.in_active
    <3> DEFINE buff == WithMsbs(q.in_buff, b.msbs)
    <3>0. Taken(q, b) = SetMsbs(q, b.msbs) /\ Taken(r, b) = SetMsbs(r, b.msbs)
      BY <1>2, TakenIs
    <3>1. Taken(q, b) = [q EXCEPT !.in_buff = buff] /\ Taken(r, b) = [r EXCEPT !.in_buff = buff]
      BY <2>1, <2>2, <3>0, Zenon DEF SetMsbs
    <3> HIDE DEF buff
    <3> QED
      BY <2>1, <3>1, ConfigIs DEF SameIn
  <2>3. CASE ~q.in_active
    BY <1>2, <2>1, <2>3, TakenIs DEF SetMsbs, SameIn
  <2> QED
    BY <2>2, <2>3
<1>3. CASE b.cmd = "INIT_DATA"
  <2>1. Taken(q, b).in_active = TRUE /\ Taken(r, b).in_active = TRUE
    BY <1>3, TakenIs
  <2>2. Taken(q, b).in_buff = <<>> /\ Taken(r, b).in_buff = <<>>
    BY <1>3, TakenIs
  <2> QED
    BY <2>1, <2>2 DEF SameIn
<1>5. CASE b.cmd = "END_DATA"
  <2>1. Taken(q, b).in_active = FALSE /\ Taken(r, b).in_active = FALSE
    BY <1>5, TakenIs
  <2>2. Taken(q, b).in_buff = q.in_buff /\ Taken(r, b).in_buff = r.in_buff
    BY <1>5, TakenIs
  <2> QED
    BY <2>1, <2>2 DEF SameIn
<1>4. CASE b.cmd \notin {"DATA", "SET_MSB", "INIT_DATA", "END_DATA"}
  BY <1>4, TakenIs DEF SameIn
<1> QED
  BY <1>1, <1>2, <1>3, <1>4, <1>5

\* What the sender is at and the receiver has decides, and nothing else.
LEMMA InStepSame ==
  ASSUME NEW p, NEW q, NEW p2, NEW q2, NEW bytes, NEW bytes2,
         SameOut(p, p2), SameIn(q, q2), p.out_stage \in {1, 2} => bytes2 = bytes,
         InStep(p, q, bytes)
  PROVE  InStep(p2, q2, bytes2)
BY DEF SameOut, SameIn, InStep

-----------------------------------------------------------------------------
(* What a unit sends *)

\* The byte b that leaves a unit with p as p2.  The bytes are those of its dataset.
Emitted(p, p2, b, bytes) ==
  \/ /\ b.cmd = "INIT_DATA" /\ b.arg \in p.outs /\ p.out_stage \in {0, 3}
     /\ p2.out_stage = 1 /\ p2.out_id = b.arg /\ p2.out_pos = 0 /\ p2.msbs = {}
  \/ /\ b.cmd \in {"NO_DATA", "END_CYCLE"} /\ p.out_stage \in {0, 3, 4} /\ p2.out_stage = 4
  \/ /\ b.cmd = "SET_MSB" /\ b.msbs = p.msbs /\ p.out_stage \in {1, 2}
     /\ p2.out_stage = p.out_stage /\ p2.out_id = p.out_id
     /\ p2.out_pos = p.out_pos /\ p2.msbs = {}
  \/ /\ b.cmd = "DATA" /\ b.arg = bytes[p.out_pos + 1].low /\ p.out_stage = 1
     /\ p2.msbs = Push(p.msbs, bytes[p.out_pos + 1].hi) /\ p2.out_id = p.out_id
     /\ IF p.out_pos + 1 < SIZE THEN p2.out_stage = 1 /\ p2.out_pos = p.out_pos + 1
        ELSE p2.out_stage = 2
  \/ /\ b.cmd = "END_DATA" /\ p.out_stage = 2 /\ p.msbs = {} /\ p2.out_stage = 3

\* With the byte the unit keeps what it received and its role.
Emission(u, p, p2, b) ==
  /\ p2 \in Config /\ b \in LineByte /\ b.cmd \in Cycle \ {"INIT_CYCLE"}
  /\ Answers(u, p2, b)
  /\ SameIn(p, p2) /\ SameRole(p, p2)
  /\ Emitted(p, p2, b, Data(pattern, sent, p))
  /\ fresh' \subseteq Id /\ sent' \in [Id -> Version]
  /\ \A id \in Id \ p.outs : sent'[id] = sent[id]
  /\ b.cmd # "INIT_DATA" => sent' = sent

\* A command is a byte of the line.
LEMMA CommandTyped ==
  \A cmd \in Commands : Command(cmd) \in LineByte /\ Command(cmd).cmd = cmd
BY DEF Command, Put, LineByte

\* select_next_data starts a dataset of the unit, or has none.
LEMMA EmitSelect ==
  ASSUME TypeOK, NEW u \in Unit, NEW p \in Config, p.outs \subseteq Id, SelectNext(u, p)
  PROVE  \E p2, b : Emission(u, p, p2, b)
<1> DEFINE outs == NextOuts(p, IF p.out_stage = 0 THEN 0 ELSE p.out_id)
           id == Min(outs)
<1>1. outs \in SUBSET Id /\ outs \subseteq p.outs
  BY DEF NextOuts
<1>2. CASE outs = {}
  <2> DEFINE p2 == [p EXCEPT !.out_stage = 4]
             b == Command("NO_DATA")
  <2>1. b \in LineByte /\ b.cmd = "NO_DATA"
    BY CommandTyped DEF Commands
  <2>2. p2 \in Config /\ SameIn(p, p2) /\ SameRole(p, p2) /\ p2.out_stage = 4
    BY ConfigIs DEF SameIn, SameRole
  <2>3. Answers(u, p2, b) /\ UNCHANGED <<fresh, sent>> /\ p.out_stage \in {0, 3}
    BY <1>2 DEF SelectNext
  <2> HIDE DEF p2, b
  <2>4. Emitted(p, p2, b, Data(pattern, sent, p))
    BY <2>1, <2>2, <2>3 DEF Emitted
  <2>5. Emission(u, p, p2, b)
    BY <2>1, <2>2, <2>3, <2>4 DEF Emission, Cycle, TypeOK
  <2> QED
    BY <2>5
<1>3. CASE outs # {}
  <2> DEFINE p2 == [p EXCEPT !.out_stage = 1, !.out_id = id, !.out_pos = 0, !.msbs = {}]
             b == Put("INIT_DATA", id)
  <2>1. id \in outs /\ id \in Id /\ id \in p.outs
    BY <1>1, <1>3, LeastId
  <2>2. /\ Answers(u, p2, b) /\ p.out_stage \in {0, 3}
        /\ fresh' = fresh \ {id} /\ sent' = [sent EXCEPT ![id] = 1 - @]
    BY <1>3 DEF SelectNext
  <2> HIDE DEF id, outs
  <2>3. b \in LineByte /\ b.cmd = "INIT_DATA" /\ b.arg = id
    BY <2>1 DEF LineByte, Put
  <2>4. 0 \in Position /\ {} \in Msbs /\ id \in Ids
    BY <2>1, ParameterAssumption DEF Position, Msbs, Ids
  <2>5. /\ p2 \in Config /\ SameIn(p, p2) /\ SameRole(p, p2)
        /\ p2.out_stage = 1 /\ p2.out_id = id /\ p2.out_pos = 0 /\ p2.msbs = {}
    <3> HIDE DEF b
    <3>1. 1 \in 0 .. 4
      OBVIOUS
    <3>2. p2 \in Config
      BY <2>4, <3>1, ConfigIs
    <3>3. /\ p2.out_stage = 1 /\ p2.out_id = id /\ p2.out_pos = 0 /\ p2.msbs = {}
          /\ p2.in_active = p.in_active /\ p2.in_buff = p.in_buff
          /\ p2.role = p.role /\ p2.outs = p.outs
      BY ConfigIs
    <3> QED
      BY <3>2, <3>3 DEF SameIn, SameRole
  <2>6. fresh' \subseteq Id /\ sent' \in [Id -> Version] /\ \A i \in Id \ {id} : sent'[i] = sent[i]
    <3>1. fresh \subseteq Id /\ sent \in [Id -> Version]
      BY DEF TypeOK
    <3>2. 1 - sent[id] \in Version
      BY <2>1, <3>1 DEF Version
    <3>3. sent' = [sent EXCEPT ![id] = 1 - sent[id]]
      BY <2>2
    <3> HIDE DEF p2, b
    <3> QED
      BY <2>1, <2>2, <3>1, <3>2, <3>3
  <2> HIDE DEF p2, b
  <2>7. Emitted(p, p2, b, Data(pattern, sent, p))
    BY <2>1, <2>2, <2>3, <2>5 DEF Emitted
  <2>8. Emission(u, p, p2, b)
    BY <2>1, <2>2, <2>3, <2>5, <2>6, <2>7 DEF Emission, Cycle
  <2> QED
    BY <2>8
<1> QED
  BY <1>2, <1>3

LEMMA EmitMsbs ==
  ASSUME TypeOK, NEW u \in Unit, NEW p \in Config, SendMsbs(u, p)
  PROVE  \E p2, b : Emission(u, p, p2, b)
<1> DEFINE p2 == [p EXCEPT !.msbs = {}]
           b == PutMsbs(p.msbs)
<1>1. Answers(u, p2, b) /\ p.out_stage \in {1, 2} /\ UNCHANGED <<fresh, sent>>
  BY DEF SendMsbs
<1>2. b \in LineByte /\ b.cmd = "SET_MSB" /\ b.msbs = p.msbs
  BY ConfigIs DEF LineByte, PutMsbs, Msbs
<1>3. {} \in Msbs
  BY DEF Msbs
<1>4. /\ p2 \in Config /\ SameIn(p, p2) /\ SameRole(p, p2) /\ p2.out_stage = p.out_stage
      /\ p2.out_id = p.out_id /\ p2.out_pos = p.out_pos /\ p2.msbs = {}
  BY <1>3, ConfigIs DEF SameIn, SameRole
<1> HIDE DEF p2, b
<1>5. Emitted(p, p2, b, Data(pattern, sent, p))
  BY <1>1, <1>2, <1>4 DEF Emitted
<1>6. Emission(u, p, p2, b)
  BY <1>1, <1>2, <1>4, <1>5 DEF Emission, Cycle, TypeOK
<1> QED
  BY <1>6

\* A byte with first bits that is not due has room for another one.
LEMMA Pushed ==
  ASSUME NEW msbs \in Msbs, MSB_BITS - 1 \notin msbs, NEW bit \in BOOLEAN
  PROVE  Push(msbs, bit) \in Msbs
<1>1. MSB_BITS \in Nat /\ MSB_BITS >= 1
  BY ParameterAssumption
<1>2. \A i \in msbs : i + 1 \in 0 .. MSB_BITS - 1
  BY <1>1 DEF Msbs
<1> QED
  BY <1>1, <1>2 DEF Push, Msbs

LEMMA EmitByte ==
  ASSUME TypeOK, NEW u \in Unit, NEW p \in Config, SendByte(u, p),
         p.out_stage = 1 => p.out_id \in Id
  PROVE  \E p2, b : Emission(u, p, p2, b)
<1> DEFINE byte == Bytes(sent[p.out_id])[p.out_pos + 1]
           msbs == Push(p.msbs, byte.hi)
           p2 == IF MoreBytes(p)
                 THEN [p EXCEPT !.msbs = msbs, !.out_pos = @ + 1]
                 ELSE [p EXCEPT !.msbs = msbs, !.out_stage = 2]
           b == Put("DATA", byte.low)
<1>1. Answers(u, p2, b) /\ p.out_stage = 1 /\ ~MsbsDue(p) /\ UNCHANGED <<fresh, sent>>
  BY DEF SendByte
<1>2. p.out_pos \in Nat /\ p.out_pos < SIZE /\ SIZE \in Nat
  BY ConfigIs, ParameterAssumption DEF Position
<1>3. byte \in Byte
  <2>1. sent[p.out_id] \in Version
    BY <1>1 DEF TypeOK
  <2>2. p.out_pos + 1 \in 1 .. SIZE
    BY <1>2
  <2> QED
    BY <2>1, <2>2, BytesTyped
<1>4. msbs \in Msbs
  <2>1. byte.hi \in BOOLEAN
    BY <1>3 DEF Byte
  <2>2. MSB_BITS - 1 \notin p.msbs /\ p.msbs \in Msbs
    BY <1>1, ConfigIs DEF MsbsDue
  <2> QED
    BY <2>1, <2>2, Pushed
<1>5. b \in LineByte /\ b.cmd = "DATA" /\ b.arg = byte.low
  <2>1. byte.low \in Version
    BY <1>3 DEF Byte
  <2> HIDE DEF byte
  <2> QED
    BY <2>1 DEF LineByte, Put
<1> HIDE DEF msbs
<1>6. /\ p2 \in Config /\ SameIn(p, p2) /\ SameRole(p, p2) /\ p2.msbs = msbs /\ p2.out_id = p.out_id
      /\ IF p.out_pos + 1 < SIZE THEN p2.out_stage = 1 /\ p2.out_pos = p.out_pos + 1
         ELSE p2.out_stage = 2
  <2>1. CASE p.out_pos + 1 < SIZE
    <3>1. p.out_pos + 1 \in Position
      BY <1>2, <2>1 DEF Position
    <3>2. p2 = [p EXCEPT !.msbs = msbs, !.out_pos = p.out_pos + 1]
      BY <2>1 DEF MoreBytes
    <3> QED
      BY <1>1, <1>4, <2>1, <3>1, <3>2, ConfigIs DEF SameIn, SameRole
  <2>2. CASE ~(p.out_pos + 1 < SIZE)
    <3>1. p2 = [p EXCEPT !.msbs = msbs, !.out_stage = 2]
      BY <2>2 DEF MoreBytes
    <3> HIDE DEF p2, b
    <3>2. 2 \in 0 .. 4
      OBVIOUS
    <3>3. p2 \in Config
      BY <1>4, <3>1, <3>2, ConfigIs
    <3>4. /\ p2.out_stage = 2 /\ p2.out_id = p.out_id /\ p2.msbs = msbs
          /\ p2.in_active = p.in_active /\ p2.in_buff = p.in_buff
          /\ p2.role = p.role /\ p2.outs = p.outs
      BY <3>1, ConfigIs
    <3> QED
      BY <2>2, <3>3, <3>4 DEF SameIn, SameRole
  <2> QED
    BY <2>1, <2>2
<1> HIDE DEF p2, b
<1>7. Emitted(p, p2, b, Data(pattern, sent, p))
  BY <1>1, <1>5, <1>6 DEF Emitted, Data, Of, Bytes, msbs
<1>8. Emission(u, p, p2, b)
  BY <1>1, <1>5, <1>6, <1>7 DEF Emission, Cycle, TypeOK
<1> QED
  BY <1>8

LEMMA EmitEnd ==
  ASSUME TypeOK, NEW u \in Unit, NEW p \in Config, EndData(u, p)
  PROVE  \E p2, b : Emission(u, p, p2, b)
<1> DEFINE p2 == [p EXCEPT !.out_stage = 3]
           b == Command("END_DATA")
<1>1. /\ Answers(u, p2, b) /\ p.out_stage = 2 /\ p.msbs = {} /\ UNCHANGED <<fresh, sent>>
  BY DEF EndData, MsbsDue
<1>2. b \in LineByte /\ b.cmd = "END_DATA"
  BY CommandTyped DEF Commands
<1>3. p2 \in Config /\ SameIn(p, p2) /\ SameRole(p, p2) /\ p2.out_stage = 3
  BY ConfigIs DEF SameIn, SameRole
<1> HIDE DEF p2, b
<1>4. Emitted(p, p2, b, Data(pattern, sent, p))
  BY <1>1, <1>2, <1>3 DEF Emitted
<1>5. Emission(u, p, p2, b)
  BY <1>1, <1>2, <1>3, <1>4 DEF Emission, Cycle, TypeOK
<1> QED
  BY <1>5

LEMMA EmitNothing ==
  ASSUME TypeOK, NEW u \in Unit, NEW p \in Config, NEW peer_empty \in BOOLEAN,
         EndCycle(u, p, peer_empty)
  PROVE  \E p2, b : Emission(u, p, p2, b)
<1> DEFINE p2 == IF peer_empty THEN [p EXCEPT !.busy = FALSE] ELSE p
           b == Command(IF peer_empty THEN "END_CYCLE" ELSE "NO_DATA")
<1>1. Answers(u, p2, b) /\ p.out_stage = 4 /\ UNCHANGED <<fresh, sent>>
  BY DEF EndCycle
<1>2. b \in LineByte /\ b.cmd \in {"END_CYCLE", "NO_DATA"}
  BY CommandTyped DEF Commands
<1>3. p2 \in Config /\ SameIn(p, p2) /\ SameRole(p, p2) /\ p2.out_stage = p.out_stage
  BY ConfigIs DEF SameIn, SameRole
<1> HIDE DEF p2, b
<1>4. Emitted(p, p2, b, Data(pattern, sent, p))
  BY <1>1, <1>2, <1>3 DEF Emitted
<1>5. Emission(u, p, p2, b)
  BY <1>1, <1>2, <1>3, <1>4 DEF Emission, Cycle, TypeOK
<1> QED
  BY <1>5

LEMMA Emits ==
  ASSUME TypeOK, NEW u \in Unit, NEW p \in Config, p.outs \subseteq Id,
         p.out_stage \in {1, 2} => p.out_id \in Id,
         NEW peer_empty \in BOOLEAN, EmitNextByte(u, p, peer_empty)
  PROVE  \E p2, b : Emission(u, p, p2, b)
BY EmitSelect, EmitMsbs, EmitByte, EmitEnd, EmitNothing DEF EmitNextByte

-----------------------------------------------------------------------------
(* What is sent keeps the receiver in step *)

\* The new bit comes first, and the others move up.
LEMMA PushBits ==
  ASSUME NEW msbs \in Msbs, NEW bit \in BOOLEAN
  PROVE  /\ 0 \in Push(msbs, bit) <=> bit
         /\ \A k \in Nat : k + 1 \in Push(msbs, bit) <=> k \in msbs
<1>1. msbs \subseteq Nat
  BY ParameterAssumption DEF Msbs
<1>2. 0 \notin {i + 1 : i \in msbs} /\ \A k \in Nat : k + 1 \in {i + 1 : i \in msbs} <=> k \in msbs
  BY <1>1
<1> QED
  BY <1>2 DEF Push

\* A byte and its first bit: one arrives, the other is still to come.
LEMMA SendsByte ==
  ASSUME NEW p \in Config, NEW p2 \in Config, NEW q \in Config, NEW b \in LineByte,
         NEW bytes \in [1 .. SIZE -> Byte],
         InStep(p, q, bytes), Emitted(p, p2, b, bytes), b.cmd = "DATA"
  PROVE  InStep(p2, Taken(q, b), bytes)
<1> DEFINE n == p.out_pos
           hi == bytes[n + 1].hi
           low == bytes[n + 1].low
           buff == Append(q.in_buff, [low |-> low, hi |-> FALSE])
<1>1. n \in Nat /\ n < SIZE /\ SIZE \in Nat
  BY ConfigIs, ParameterAssumption DEF Position
<1>2. /\ b.arg = low /\ p.out_stage = 1 /\ p2.msbs = Push(p.msbs, hi)
      /\ IF n + 1 < SIZE THEN p2.out_stage = 1 /\ p2.out_pos = n + 1 ELSE p2.out_stage = 2
  BY DEF Emitted
<1>3. q.in_active /\ Len(q.in_buff) = n /\ Matches(q.in_buff, p.msbs, bytes)
  BY <1>2 DEF InStep
<1>4. bytes[n + 1] \in Byte /\ hi \in BOOLEAN /\ low \in Version
  <2>1. n + 1 \in 1 .. SIZE
    BY <1>1
  <2>2. bytes[n + 1] \in Byte
    BY <2>1
  <2> QED
    BY <2>2 DEF Byte
<1> HIDE DEF hi, low
<1>5. q.in_buff \in Seq(Byte) /\ [low |-> low, hi |-> FALSE] \in Byte /\ p.msbs \in Msbs
  BY <1>4, ConfigIs DEF Buff, Byte
<1>6. Taken(q, b).in_active = q.in_active /\ Taken(q, b).in_buff = buff
  <2>1. Taken(q, b) = SaveNextByte(q, low) /\ Len(q.in_buff) < SIZE
    BY <1>1, <1>2, <1>3, TakenIs
  <2>2. Len(q.in_buff) <= SIZE
    BY <1>1, <1>3
  <2>3. /\ SaveNextByte(q, low).in_active = q.in_active
        /\ SaveNextByte(q, low).in_buff = buff
    BY <1>3, <1>4, <2>1, <2>2, SaveNextByteTyped, Zenon
  <2> QED
    BY <2>1, <2>3
<1>7. /\ Len(buff) = n + 1 /\ buff[n + 1] = [low |-> low, hi |-> FALSE]
      /\ \A i \in 1 .. n : buff[i] = q.in_buff[i]
  BY <1>3, <1>5, Appends
<1> HIDE DEF buff
<1>8. Matches(buff, p2.msbs, bytes)
  <2>1. ASSUME NEW i \in 1 .. n
        PROVE  /\ buff[i].low = bytes[i].low
               /\ bytes[i].hi <=> buff[i].hi \/ (n + 1) - i \in p2.msbs
    <3> DEFINE k == n - i
    <3>1. k \in Nat /\ (n + 1) - i = k + 1
      BY <1>1
    <3> HIDE DEF k
    <3>2. (n + 1) - i \in p2.msbs <=> n - i \in p.msbs
      <4>1. p2.msbs = Push(p.msbs, hi)
        BY <1>2
      <4>2. k + 1 \in Push(p.msbs, hi) <=> k \in p.msbs
        BY <1>4, <1>5, <3>1, PushBits, Zenon
      <4> QED
        BY <3>1, <4>1, <4>2 DEF k
    <3>3. /\ q.in_buff[i].low = bytes[i].low
          /\ bytes[i].hi <=> q.in_buff[i].hi \/ n - i \in p.msbs
      BY <1>3 DEF Matches
    <3>4. buff[i] = q.in_buff[i]
      BY <1>7
    <3> QED
      BY <3>2, <3>3, <3>4
  <2>2. /\ buff[n + 1].low = bytes[n + 1].low
        /\ bytes[n + 1].hi <=> buff[n + 1].hi \/ (n + 1) - (n + 1) \in p2.msbs
    <3>1. (n + 1) - (n + 1) = 0
      BY <1>1
    <3>2. 0 \in p2.msbs <=> hi
      <4>1. p2.msbs = Push(p.msbs, hi)
        BY <1>2
      <4>2. 0 \in Push(p.msbs, hi) <=> hi
        BY <1>4, <1>5, PushBits, Zenon
      <4> QED
        BY <4>1, <4>2
    <3>3. buff[n + 1].low = low /\ ~buff[n + 1].hi
      BY <1>7
    <3> QED
      BY <3>1, <3>2, <3>3 DEF hi, low
  <2>3. \A i \in 1 .. n + 1 : i \in 1 .. n \/ i = n + 1
    BY <1>1
  <2> QED
    BY <1>7, <2>1, <2>2, <2>3 DEF Matches
<1>9. CASE n + 1 < SIZE
  BY <1>2, <1>3, <1>6, <1>7, <1>8, <1>9 DEF InStep
<1>10. CASE ~(n + 1 < SIZE)
  <2>1. n + 1 = SIZE
    BY <1>1, <1>10
  <2> QED
    BY <1>2, <1>3, <1>6, <1>7, <1>8, <1>10, <2>1 DEF InStep
<1> QED
  BY <1>9, <1>10

\* The first bits arrive: all of them are set.
LEMMA SendsMsbs ==
  ASSUME NEW p \in Config, NEW p2 \in Config, NEW q \in Config, NEW b \in LineByte,
         NEW bytes, InStep(p, q, bytes), Emitted(p, p2, b, bytes), b.cmd = "SET_MSB"
  PROVE  InStep(p2, Taken(q, b), bytes)
<1> DEFINE buff == WithMsbs(q.in_buff, p.msbs)
           n == Len(q.in_buff)
<1>1. /\ b.msbs = p.msbs /\ p.out_stage \in {1, 2}
      /\ p2.out_stage = p.out_stage /\ p2.out_pos = p.out_pos /\ p2.msbs = {}
  BY DEF Emitted
<1>2. /\ q.in_active /\ n = (IF p.out_stage = 1 THEN p.out_pos ELSE SIZE)
      /\ Matches(q.in_buff, p.msbs, bytes)
  BY <1>1 DEF InStep
<1>3. Taken(q, b) = SetMsbs(q, p.msbs)
  BY <1>1, TakenIs
<1>4. Taken(q, b).in_active = q.in_active /\ Taken(q, b).in_buff = buff
  <2>1. /\ SetMsbs(q, p.msbs).in_active = q.in_active
        /\ SetMsbs(q, p.msbs).in_buff = IF q.in_active THEN buff ELSE q.in_buff
    BY SetMsbsTyped, Zenon
  <2> QED
    BY <1>2, <1>3, <2>1, Zenon
<1>5. q.in_buff \in Buff
  BY ConfigIs
<1>6. /\ Len(buff) = n
      /\ \A i \in 1 .. n : /\ buff[i].low = q.in_buff[i].low
                           /\ buff[i].hi <=> q.in_buff[i].hi \/ n - i \in p.msbs
  BY <1>5, WithMsbsTyped
<1> HIDE DEF buff
<1>7. Matches(buff, p2.msbs, bytes)
  BY <1>1, <1>2, <1>6 DEF Matches
<1> QED
  BY <1>1, <1>2, <1>4, <1>6, <1>7 DEF InStep

\* No dataset is under way after these.
LEMMA SendsOther ==
  ASSUME NEW p \in Config, NEW p2 \in Config, NEW q \in Config, NEW b \in LineByte,
         NEW bytes, InStep(p, q, bytes), Emitted(p, p2, b, bytes),
         b.cmd \in {"NO_DATA", "END_CYCLE", "END_DATA"}
  PROVE  InStep(p2, Taken(q, b), bytes)
<1>1. CASE b.cmd = "END_DATA"
  <2>1. p2.out_stage = 3
    BY <1>1 DEF Emitted
  <2>2. Taken(q, b).in_active = FALSE
    BY <1>1, TakenIs
  <2> QED
    BY <2>1, <2>2 DEF InStep
<1>2. CASE b.cmd \in {"NO_DATA", "END_CYCLE"}
  <2>1. p2.out_stage = 4 /\ p.out_stage \in {0, 3, 4}
    BY <1>2 DEF Emitted
  <2>2. Taken(q, b) = q
    BY <1>2, TakenIs
  <2> QED
    BY <2>1, <2>2 DEF InStep
<1> QED
  BY <1>1, <1>2

\* A dataset starts, with nothing received.
LEMMA SendsFirst ==
  ASSUME NEW p \in Config, NEW p2 \in Config, NEW q \in Config, NEW b \in LineByte,
         NEW bytes, NEW bytes2, Emitted(p, p2, b, bytes), b.cmd = "INIT_DATA"
  PROVE  InStep(p2, Taken(q, b), bytes2)
<1>1. p2.out_stage = 1 /\ p2.out_pos = 0
  BY DEF Emitted
<1>2. Taken(q, b).in_active = TRUE /\ Taken(q, b).in_buff = <<>>
  BY TakenIs
<1>3. Len(<<>>) = 0 /\ 1 .. 0 = {}
  OBVIOUS
<1> QED
  BY <1>1, <1>2, <1>3 DEF InStep, Matches

\* When the end of a dataset is sent, the receiver has all of it.
LEMMA SendsLast ==
  ASSUME NEW p \in Config, NEW p2 \in Config, NEW q \in Config, NEW b \in LineByte,
         NEW bytes \in [1 .. SIZE -> Byte],
         InStep(p, q, bytes), Emitted(p, p2, b, bytes), b.cmd = "END_DATA"
  PROVE  q.in_buff = bytes
<1> DEFINE buff == q.in_buff
<1>1. p.out_stage = 2 /\ p.msbs = {}
  BY DEF Emitted
<1>2. Len(buff) = SIZE /\ Matches(buff, {}, bytes)
  BY <1>1 DEF InStep
<1>3. buff \in Seq(Byte)
  BY ConfigIs DEF Buff
<1>4. ASSUME NEW i \in 1 .. SIZE
      PROVE  buff[i] = bytes[i]
  <2>1. buff[i] \in Byte /\ bytes[i] \in Byte
    BY <1>2, <1>3
  <2>2. buff[i].low = bytes[i].low /\ (bytes[i].hi <=> buff[i].hi)
    BY <1>2 DEF Matches
  <2> HIDE DEF buff
  <2> QED
    BY <2>1, <2>2 DEF Byte
<1>5. buff \in [1 .. SIZE -> Byte]
  BY <1>2, <1>3
<1> HIDE DEF buff
<1>6. buff = bytes
  <2>1. buff = [i \in 1 .. SIZE |-> buff[i]] /\ bytes = [i \in 1 .. SIZE |-> bytes[i]]
    BY <1>5
  <2> QED
    BY <1>4, <2>1, Zenon
<1> QED
  BY <1>6 DEF buff

-----------------------------------------------------------------------------
(* A byte of a cycle is taken and answered *)

\* The datasets of the two units.
LEMMA OwnSets ==
  ASSUME NEW u \in Unit
  PROVE  /\ Own(u) \subseteq Id /\ Own(u) \cap Own(Peer(u)) = {}
         /\ HOST \in Unit /\ Own(HOST) = MasterOut /\ Own(Peer(HOST)) = SlaveOut
BY Units, ParameterAssumption DEF Own, Id

\* The unit has taken byte t, and is about to answer, with p.
Prepared(u, t, p) ==
  /\ p \in Config /\ Len(p.in_buff) <= SIZE /\ SameRole(pcc[u], p)
  /\ IF t.cmd = "INIT_CYCLE" THEN p.out_stage = 0 /\ ~p.in_active
     ELSE SameOut(pcc[u], p) /\ SameIn(Taken(pcc[u], t), p)

\* No other byte of a cycle is under way.
LEMMA Alone ==
  ASSUME TypeOK, OneInv, NEW u \in Unit, line[u] # <<>>, Head(line[u]).cmd \in Cycle
  PROVE  /\ \A i \in 1 .. Len(Tail(line[u])) : Tail(line[u])[i].cmd \notin Cycle
         /\ \A i \in 1 .. Len(line[Peer(u)]) : line[Peer(u)][i].cmd \notin Cycle
<1>1. line[u] \in Seq(LineByte)
  BY DEF TypeOK
<1>2. 1 \in 1 .. Len(line[u]) /\ line[u][1].cmd \in Cycle
  BY <1>1, Tails
<1>3. ASSUME NEW i \in 1 .. Len(Tail(line[u])), Tail(line[u])[i].cmd \in Cycle
      PROVE  FALSE
  <2>1. i + 1 \in 1 .. Len(line[u]) /\ line[u][i + 1].cmd \in Cycle
    BY <1>1, <1>3, Tails
  <2>2. i + 1 = 1
    BY <1>2, <2>1 DEF OneInv
  <2> QED
    BY <2>2
<1>4. ASSUME NEW i \in 1 .. Len(line[Peer(u)]), line[Peer(u)][i].cmd \in Cycle
      PROVE  FALSE
  BY <1>2, <1>4, Units DEF OneInv
<1> QED
  BY <1>3, <1>4

\* The answer to a byte of a cycle keeps both directions in step: the one it belongs
\* to, and the one it leaves alone.
LEMMA Handled ==
  ASSUME TypeOK, OwnInv, OneInv, StepInv, NEW u \in Unit,
         line[u] # <<>>, Head(line[u]).cmd \in Cycle,
         NEW p, Prepared(u, Head(line[u]), p), NEW p2, NEW b, Emission(u, p, p2, b),
         UNCHANGED <<pattern, role, pc>>, received' \in [Id -> Seq(Byte)]
  PROVE  TypeOK' /\ OwnInv' /\ OneInv' /\ StepInv'
<1> DEFINE t == Head(line[u])
           v == Peer(u)
           n == Len(line[v]) + 1
<1>1. /\ v \in Unit /\ v # u /\ Peer(v) = u /\ \A w \in Unit : w = u \/ w = v
  BY Units
<1>2. /\ line \in [Unit -> Seq(LineByte)] /\ line[u] \in Seq(LineByte) /\ line[v] \in Seq(LineByte)
      /\ pcc \in [Unit -> Config] /\ pcc[u] \in Config /\ pcc[v] \in Config
  BY <1>1 DEF TypeOK
<1>3. /\ p \in Config /\ p2 \in Config /\ b \in LineByte /\ b.cmd \in Cycle /\ b.cmd # "INIT_CYCLE"
      /\ SameIn(p, p2) /\ SameRole(p, p2) /\ SameRole(pcc[u], p)
      /\ Emitted(p, p2, b, Data(pattern, sent, p))
  BY DEF Emission, Prepared
<1>4. /\ pcc'[u] = p2 /\ pcc'[v] = pcc[v] /\ pcc' \in [Unit -> Config]
      /\ line'[u] = Tail(line[u]) /\ line'[v] = Append(line[v], b)
      /\ line' \in [Unit -> Seq(LineByte)]
  <2>1. pcc' = [pcc EXCEPT ![u] = p2] /\ line' = [line EXCEPT ![u] = Tail(@), ![v] = Append(@, b)]
    BY DEF Emission, Answers
  <2>2. Tail(line[u]) \in Seq(LineByte) /\ Append(line[v], b) \in Seq(LineByte)
    BY <1>2, <1>3, Tails, Appends
  <2>3. pcc'[u] = p2 /\ pcc'[v] = pcc[v] /\ pcc' \in [Unit -> Config]
    BY <1>1, <1>2, <1>3, <2>1
  <2>4. line' = [line EXCEPT ![u] = Tail(line[u]), ![v] = Append(line[v], b)]
    BY <1>1, <1>2, <2>1
  <2>5. line'[u] = Tail(line[u]) /\ line'[v] = Append(line[v], b)
    BY <1>1, <1>2, <2>4
  <2>6. line' \in [Unit -> Seq(LineByte)]
    BY <1>1, <1>2, <2>2, <2>4
  <2> QED
    BY <2>3, <2>5, <2>6
<1>5. /\ n \in Nat /\ Len(line'[v]) = n /\ line'[v][n] = b
      /\ \A i \in 1 .. n : i = n \/ (i \in 1 .. Len(line[v]) /\ line'[v][i] = line[v][i])
  <2>1. Len(line[v]) \in Nat
    BY <1>2
  <2>2. /\ Len(Append(line[v], b)) = n /\ Append(line[v], b)[n] = b
        /\ \A i \in 1 .. Len(line[v]) : Append(line[v], b)[i] = line[v][i]
    BY <1>2, <1>3, Appends
  <2>3. \A i \in 1 .. n : i = n \/ i \in 1 .. Len(line[v])
    BY <2>1
  <2>4. n \in Nat
    BY <2>1
  <2>5. line'[v] = Append(line[v], b)
    BY <1>4
  <2>6. /\ Len(line'[v]) = n /\ line'[v][n] = b
        /\ \A i \in 1 .. Len(line[v]) : line'[v][i] = line[v][i]
    BY <2>2, <2>5, Zenon
  <2> HIDE DEF n, v
  <2> QED
    BY <2>3, <2>4, <2>6
<1>6. \A w \in Unit : \A i \in 1 .. Len(line'[w]) : line'[w][i].cmd \in Cycle => w = v /\ i = n
  BY <1>1, <1>4, <1>5, Alone
<1>7. TypeOK'
  <2>1. Len(p2.in_buff) <= SIZE
    BY <1>3 DEF Prepared, SameIn
  <2>2. Len(pcc'[u].in_buff) <= SIZE /\ Len(pcc'[v].in_buff) <= SIZE
    BY <1>1, <1>4, <2>1 DEF TypeOK
  <2>3. fresh' \subseteq Id /\ sent' \in [Id -> Version]
    BY DEF Emission
  <2> QED
    BY <1>1, <1>4, <2>2, <2>3 DEF TypeOK
<1>8. OneInv'
  BY <1>6 DEF OneInv
<1>9. pcc[u].outs \subseteq Own(u) /\ p.outs \subseteq Own(u) /\ p2.outs \subseteq Own(u)
  BY <1>3 DEF OwnInv, SameRole
<1>10. OwnInv'
  <2>1. \A w \in Unit : pcc'[w].role = pcc[w].role /\ pcc'[w].outs \subseteq Own(w)
    BY <1>1, <1>3, <1>4, <1>9 DEF OwnInv, SameRole
  <2>2. p.out_stage \in {1, 2} => p.out_id \in Own(u)
    <3>1. CASE t.cmd = "INIT_CYCLE"
      BY <3>1 DEF Prepared
    <3>2. CASE t.cmd # "INIT_CYCLE"
      BY <3>2 DEF Prepared, SameOut, OwnInv
    <3> QED
      BY <3>1, <3>2
  <2>3. p2.out_stage \in {1, 2} => p2.out_id \in Own(u)
    <3>1. CASE b.cmd = "INIT_DATA"
      BY <1>3, <1>9, <3>1 DEF Emitted
    <3>2. CASE b.cmd # "INIT_DATA"
      <4>1. p2.out_stage \in {1, 2} => p.out_stage \in {1, 2} /\ p2.out_id = p.out_id
        BY <1>3, <3>2 DEF Emitted
      <4> QED
        BY <2>2, <4>1
    <3> QED
      BY <3>1, <3>2
  <2>4. \A w \in Unit : pcc'[w].out_stage \in {1, 2} => pcc'[w].out_id \in Own(w)
    BY <1>1, <1>4, <2>3 DEF OwnInv
  <2>5. \A w \in Unit : \A i \in 1 .. Len(line'[w]) :
          line'[w][i].cmd = "INIT_DATA" => line'[w][i].arg \in Own(Peer(w))
    <3> SUFFICES ASSUME NEW w \in Unit, NEW i \in 1 .. Len(line'[w]), line'[w][i].cmd = "INIT_DATA"
                 PROVE  line'[w][i].arg \in Own(Peer(w))
      OBVIOUS
    <3>1. w = v /\ i = n /\ line'[w][i] = b
      BY <1>5, <1>6 DEF Cycle
    <3>2. b.arg \in p.outs
      BY <1>3, <3>1 DEF Emitted
    <3> QED
      BY <1>1, <1>9, <3>1, <3>2
  <2>6. ASSUME NEW w \in Unit, NEW cmd, cmd \notin Cycle, Lacks(w, cmd)
        PROVE  \A i \in 1 .. Len(line'[w]) : line'[w][i].cmd # cmd
    <3>1. CASE w = u
      <4>1. \A i \in 1 .. Len(Tail(line[u])) : i + 1 \in 1 .. Len(line[u]) /\ Tail(line[u])[i] = line[u][i + 1]
        BY <1>2, Tails
      <4> QED
        BY <1>4, <2>6, <3>1, <4>1 DEF Lacks
    <3>2. CASE w = v
      BY <1>3, <1>5, <2>6, <3>2 DEF Lacks
    <3> QED
      BY <1>1, <3>1, <3>2
  <2>7. "SEEK_SLAVE" \notin Cycle /\ "SLAVE_READY" \notin Cycle /\ HOST \in Unit /\ Peer(HOST) \in Unit
    BY Units DEF Cycle
  <2>8. Lacks(HOST, "SEEK_SLAVE")' /\ Lacks(Peer(HOST), "SLAVE_READY")'
    BY <2>6, <2>7 DEF Lacks, OwnInv
  <2> QED
    BY <2>1, <2>4, <2>5, <2>7, <2>8 DEF OwnInv
<1>11. InStep(p, pcc[v], Data(pattern, sent, p)) /\ InStep(pcc[v], p, Data(pattern, sent, pcc[v]))
  <2>1. 1 \in 1 .. Len(line[u]) /\ line[u][1] = t
    BY <1>2, Tails
  <2>2. CASE t.cmd = "INIT_CYCLE"
    <3>1. pcc[v].out_stage = 0 /\ ~pcc[v].in_active
      BY <2>1, <2>2 DEF StepInv
    <3>2. p.out_stage = 0 /\ ~p.in_active
      BY <2>2 DEF Prepared
    <3> QED
      BY <3>1, <3>2 DEF InStep
  <2>3. CASE t.cmd # "INIT_CYCLE"
    <3>1. /\ InStep(pcc[v], Taken(pcc[u], t), Data(pattern, sent, pcc[v]))
          /\ InStep(pcc[u], pcc[v], Data(pattern, sent, pcc[u]))
      BY <2>1, <2>3 DEF StepInv
    <3>2. SameOut(pcc[u], p) /\ SameIn(Taken(pcc[u], t), p)
      BY <2>3 DEF Prepared
    <3>3. Data(pattern, sent, p) = Data(pattern, sent, pcc[u])
      BY <3>2 DEF Data, SameOut
    <3>4. SameOut(pcc[v], pcc[v]) /\ SameIn(pcc[v], pcc[v])
      BY DEF SameOut, SameIn
    <3> QED
      BY <3>1, <3>2, <3>3, <3>4, InStepSame
  <2> QED
    BY <2>2, <2>3
<1>12. InStep(p2, Taken(pcc[v], b), Data(pattern', sent', p2))
  <2>1. CASE b.cmd = "INIT_DATA"
    BY <1>2, <1>3, <2>1, SendsFirst
  <2>2. CASE b.cmd # "INIT_DATA"
    <3>1. sent' = sent /\ pattern' = pattern
      BY <2>2 DEF Emission
    <3>2. CASE b.cmd \in {"NO_DATA", "END_CYCLE", "END_DATA"}
      <4>1. p2.out_stage \notin {1, 2}
        BY <1>3, <3>2 DEF Emitted
      <4>2. InStep(p2, Taken(pcc[v], b), Data(pattern, sent, p))
        BY <1>2, <1>3, <1>11, <3>2, SendsOther
      <4> QED
        BY <4>1, <4>2 DEF InStep
    <3>3. CASE b.cmd \in {"SET_MSB", "DATA"}
      <4>1. p.out_stage \in {1, 2} /\ p2.out_id = p.out_id
        BY <1>3, <3>3 DEF Emitted
      <4>2. p.out_id \in Id
        <5>1. p.out_id \in Own(u)
          <6>1. t.cmd # "INIT_CYCLE"
            BY <4>1 DEF Prepared
          <6> QED
            BY <4>1, <6>1 DEF Prepared, SameOut, OwnInv
        <5> QED
          BY <5>1, OwnSets
      <4>3. Data(pattern, sent, p) \in [1 .. SIZE -> Byte]
        BY <4>2, BytesTyped DEF Data, TypeOK
      <4>4. InStep(p2, Taken(pcc[v], b), Data(pattern, sent, p))
        BY <1>2, <1>3, <1>11, <3>3, <4>3, SendsByte, SendsMsbs
      <4>5. Data(pattern', sent', p2) = Data(pattern, sent, p)
        BY <3>1, <4>1 DEF Data
      <4> QED
        BY <4>4, <4>5
    <3> QED
      BY <1>3, <2>2, <3>2, <3>3 DEF Cycle
  <2> QED
    BY <2>1, <2>2
<1>13. InStep(pcc[v], p2, Data(pattern', sent', pcc[v]))
  <2>1. ASSUME pcc[v].out_stage \in {1, 2}
        PROVE  Data(pattern', sent', pcc[v]) = Data(pattern, sent, pcc[v])
    <3>1. pcc[v].out_id \in Own(v)
      BY <1>1, <2>1 DEF OwnInv
    <3>2. pcc[v].out_id \in Id \ p.outs
      BY <1>1, <1>9, <3>1, OwnSets
    <3> QED
      BY <3>2 DEF Data, Emission
  <2>2. SameOut(pcc[v], pcc[v])
    BY DEF SameOut
  <2> QED
    BY <1>3, <1>11, <2>1, <2>2, InStepSame
<1>14. b.cmd = "END_DATA" => Whole(pattern', pcc[v])
  <2> SUFFICES ASSUME b.cmd = "END_DATA"
               PROVE  \E w \in Version : pcc[v].in_buff = Of(pattern, w)
    BY DEF Whole
  <2>1. p.out_stage = 2
    BY <1>3 DEF Emitted
  <2>2. t.cmd # "INIT_CYCLE"
    BY <2>1 DEF Prepared
  <2>3. p.out_id \in Id
    BY <2>1, <2>2, OwnSets DEF Prepared, SameOut, OwnInv
  <2>4. sent[p.out_id] \in Version
    BY <2>3 DEF TypeOK
  <2>5. Data(pattern, sent, p) \in [1 .. SIZE -> Byte]
    BY <2>4, BytesTyped DEF Data
  <2>6. pcc[v].in_buff = Data(pattern, sent, p)
    BY <1>2, <1>3, <1>11, <2>5, SendsLast
  <2> QED
    BY <2>4, <2>6 DEF Data
<1>15. StepInv'
  <2> SUFFICES ASSUME NEW w \in Unit, NEW i \in 1 .. Len(line'[w]), line'[w][i].cmd \in Cycle
               PROVE  /\ line'[w][i].cmd # "INIT_CYCLE"
                      /\ InStep(pcc'[Peer(w)], Taken(pcc'[w], line'[w][i]), Data(pattern', sent', pcc'[Peer(w)]))
                      /\ InStep(pcc'[w], pcc'[Peer(w)], Data(pattern', sent', pcc'[w]))
                      /\ line'[w][i].cmd = "END_DATA" => Whole(pattern', pcc'[w])
    BY DEF StepInv
  <2>1. w = v /\ i = n
    BY <1>6
  <2>2. line'[w][i] = b /\ pcc'[w] = pcc[v] /\ pcc'[Peer(w)] = p2
    BY <1>1, <1>4, <1>5, <2>1
  <2> QED
    BY <1>3, <1>12, <1>13, <1>14, <2>2
<1> QED
  BY <1>7, <1>8, <1>10, <1>15

\* Each byte of a cycle finds the unit prepared for the answer.
LEMMA OnDataKeeps ==
  ASSUME TypeOK, OwnInv, OneInv, StepInv, NEW u \in Unit, OnData(u)
  PROVE  TypeOK' /\ OwnInv' /\ OneInv' /\ StepInv'
<1> DEFINE t == Head(line[u])
           q == pcc[u]
<1>1. /\ line[u] \in Seq(LineByte) /\ q \in Config /\ Len(q.in_buff) <= SIZE
      /\ UNCHANGED <<pattern, role, pc, received>>
      /\ received' \in [Id -> Seq(Byte)]
  BY DEF TypeOK, OnData
<1>2. line[u] # <<>> /\ t.cmd \in Cycle /\ t.cmd # "END_DATA"
  BY DEF OnData, Receive, Cycle
<1>3. t \in LineByte /\ 1 \in 1 .. Len(line[u]) /\ line[u][1] = t
  BY <1>1, <1>2, Tails
<1>4. q.outs \subseteq Own(u) /\ Own(u) \subseteq Id /\ SIZE \in Nat
  BY OwnSets, ParameterAssumption DEF OwnInv
<1>5. q.out_stage \in {1, 2} => q.out_id \in Id
  BY <1>4 DEF OwnInv
<1>6. ASSUME NEW p, Prepared(u, t, p), NEW peer_empty \in BOOLEAN, EmitNextByte(u, p, peer_empty)
      PROVE  TypeOK' /\ OwnInv' /\ OneInv' /\ StepInv'
  <2>1. p \in Config /\ p.outs \subseteq Id
    BY <1>4, <1>6 DEF Prepared, SameRole
  <2>2. p.out_stage \in {1, 2} => p.out_id \in Id
    BY <1>5, <1>6 DEF Prepared, SameOut
  <2>3. PICK p2, b : Emission(u, p, p2, b)
    BY <1>6, <2>1, <2>2, Emits
  <2> QED
    BY <1>1, <1>2, <1>6, <2>3, Handled
<1>7. SameOut(q, q) /\ SameRole(q, q) /\ \A x : SameIn(x, x)
  BY DEF SameOut, SameRole, SameIn
<1>8. CASE t.cmd = "DATA"
  <2> DEFINE p == SaveNextByte(q, t.arg)
  <2>1. t.arg \in Version
    BY <1>3, <1>8 DEF LineByte, Commands
  <2>2. Prepared(u, t, p)
    <3>1. p = Taken(q, t)
      BY <1>1, <1>8, TakenIs
    <3>2. p \in Config /\ Len(p.in_buff) <= SIZE /\ SameOut(q, p) /\ SameRole(q, p)
      BY <1>1, <2>1, SaveNextByteTyped, Zenon
    <3> HIDE DEF p
    <3> QED
      BY <1>7, <1>8, <3>1, <3>2 DEF Prepared
  <2>3. EmitNextByte(u, p, FALSE)
    BY <1>8 DEF OnData, Receive, Arg
  <2> QED
    BY <1>6, <2>2, <2>3
<1>9. CASE t.cmd = "SET_MSB"
  <2> DEFINE p == SetMsbs(q, t.msbs)
  <2>2. Prepared(u, t, p)
    <3>1. p = Taken(q, t)
      BY <1>1, <1>9, TakenIs
    <3>2. /\ p \in Config /\ SameOut(q, p) /\ SameRole(q, p)
          /\ p.in_buff = IF q.in_active THEN WithMsbs(q.in_buff, t.msbs) ELSE q.in_buff
      BY <1>1, SetMsbsTyped, Zenon
    <3>3. Len(WithMsbs(q.in_buff, t.msbs)) = Len(q.in_buff)
      BY <1>1, ConfigIs, WithMsbsTyped
    <3> HIDE DEF p
    <3>4. Len(p.in_buff) <= SIZE
      BY <1>1, <3>2, <3>3
    <3> QED
      BY <1>7, <1>9, <3>1, <3>2, <3>4 DEF Prepared
  <2>3. EmitNextByte(u, p, FALSE)
    BY <1>9 DEF OnData, Receive
  <2> QED
    BY <1>6, <2>2, <2>3
<1>10. CASE t.cmd = "INIT_DATA"
  <2> DEFINE p == StartIncoming(q, t.arg)
  <2>1. t.arg \in Id /\ t.arg \notin q.outs
    <3>1. t.arg \in Own(Peer(u))
      BY <1>3, <1>10 DEF OwnInv
    <3> QED
      BY <1>4, <3>1, OwnSets, Units
  <2>2. Prepared(u, t, p)
    <3>1. /\ p \in Config /\ p.in_buff = <<>> /\ p.in_active = TRUE
          /\ SameOut(q, p) /\ SameRole(q, p)
      BY <1>1, <1>4, <2>1, StartTyped, Zenon
    <3>2. Taken(q, t).in_active = TRUE /\ Taken(q, t).in_buff = <<>>
      BY <1>1, <1>10, TakenIs
    <3> HIDE DEF p
    <3>3. SameIn(Taken(q, t), p)
      BY <3>1, <3>2 DEF SameIn
    <3>4. Len(p.in_buff) <= SIZE
      BY <1>4, <3>1
    <3> QED
      BY <1>10, <3>1, <3>3, <3>4 DEF Prepared
  <2>3. EmitNextByte(u, p, FALSE)
    BY <1>10 DEF OnData, Receive, Arg
  <2> QED
    BY <1>6, <2>2, <2>3
<1>11. CASE t.cmd = "NO_DATA"
  <2>1. Taken(q, t) = q
    BY <1>1, <1>11, TakenIs
  <2>2. Prepared(u, t, q)
    BY <1>1, <1>7, <1>11, <2>1 DEF Prepared
  <2>3. EmitNextByte(u, q, TRUE)
    BY <1>11 DEF OnData, Receive
  <2> QED
    BY <1>6, <2>2, <2>3
<1>12. CASE t.cmd = "INIT_CYCLE"
  <2> DEFINE p == [Reset(q) EXCEPT !.busy = TRUE]
  <2>1. <<0, 0, 0, 0>> \in LastState /\ 0 \in 0 .. 4
    BY <1>4 DEF LastState
  <2>2. p = [q EXCEPT !.busy = TRUE, !.in_active = FALSE, !.out_stage = 0, !.last_state = <<0, 0, 0, 0>>]
    BY <1>1, ConfigIs DEF Reset
  <2>3. p \in Config
    BY <1>1, <2>1, <2>2, ConfigIs
  <2>4. /\ p.out_stage = 0 /\ p.in_active = FALSE /\ p.in_buff = q.in_buff
        /\ p.role = q.role /\ p.outs = q.outs
    BY <1>1, <2>2, ConfigIs
  <2>5. EmitNextByte(u, p, FALSE)
    BY <1>12 DEF OnData, Receive
  <2> HIDE DEF p
  <2>6. Prepared(u, t, p)
    BY <1>1, <1>12, <2>3, <2>4 DEF Prepared, SameRole
  <2> QED
    BY <1>6, <2>5, <2>6
<1>13. t.cmd \in {"DATA", "SET_MSB", "INIT_DATA", "NO_DATA", "INIT_CYCLE"}
  BY DEF OnData, Receive
<1> QED
  BY <1>8, <1>9, <1>10, <1>11, <1>12, <1>13

\* What is stored at the end of a dataset is one version of it.
LEMMA OnEndDataKeeps ==
  ASSUME TypeOK, OwnInv, OneInv, StepInv, Intact, NEW u \in Unit, OnEndData(u)
  PROVE  TypeOK' /\ OwnInv' /\ OneInv' /\ StepInv' /\ Intact'
<1> DEFINE t == Head(line[u])
           q == pcc[u]
           p == [q EXCEPT !.in_active = FALSE]
<1>1. /\ line[u] \in Seq(LineByte) /\ q \in Config /\ Len(q.in_buff) <= SIZE
      /\ received \in [Id -> Seq(Byte)]
  BY DEF TypeOK
<1>2. line[u] # <<>> /\ t.cmd = "END_DATA" /\ UNCHANGED <<pattern, role, pc>>
  BY DEF OnEndData, Receive
<1>3. 1 \in 1 .. Len(line[u]) /\ line[u][1] = t
  BY <1>1, <1>2, Tails
<1>4. q.outs \subseteq Own(u) /\ Own(u) \subseteq Id
  BY OwnSets DEF OwnInv
<1>5. q.out_stage \in {1, 2} => q.out_id \in Id
  BY <1>4 DEF OwnInv
<1>6. p \in Config /\ SameOut(q, p) /\ SameRole(q, p) /\ p.in_active = FALSE /\ p.in_buff = q.in_buff
  BY <1>1, ConfigIs DEF SameOut, SameRole
<1>7. EmitNextByte(u, p, FALSE)
  BY DEF OnEndData
<1> HIDE DEF p
<1>8. Prepared(u, t, p)
  <2>1. Taken(q, t).in_active = FALSE /\ Taken(q, t).in_buff = q.in_buff
    BY <1>1, <1>2, TakenIs
  <2>2. SameIn(Taken(q, t), p)
    BY <1>6, <2>1 DEF SameIn
  <2> QED
    BY <1>1, <1>2, <1>6, <2>2 DEF Prepared
<1>9. /\ received' = received \/ \E id \in Ids, v \in Version : received' = [received EXCEPT ![id] = Of(pattern, v)]
      /\ received' \in [Id -> Seq(Byte)]
  <2>1. CASE q.in_active
    <3>1. Whole(pattern, q)
      BY <1>2, <1>3 DEF StepInv, Cycle
    <3>2. PICK v \in Version : q.in_buff = Of(pattern, v)
      BY <2>1, <3>1 DEF Whole
    <3>3. received' = [received EXCEPT ![q.in_id] = q.in_buff]
      BY <2>1 DEF OnEndData, Finished
    <3>4. q.in_id \in Ids /\ q.in_buff \in Seq(Byte)
      BY <1>1, ConfigIs DEF Buff
    <3> QED
      BY <1>1, <3>2, <3>3, <3>4
  <2>2. CASE ~q.in_active
    BY <1>1, <2>2 DEF OnEndData, Finished
  <2> QED
    BY <2>1, <2>2
<1>10. Intact'
  <2>1. \A v \in Version : Bytes(v) = Of(pattern, v) /\ Bytes(v)' = Of(pattern, v)
    BY <1>2 DEF Bytes, Of
  <2>2. ASSUME NEW id \in Id
        PROVE  \E v \in Version : received'[id] = Of(pattern, v)
    <3>1. \E v \in Version : received[id] = Of(pattern, v)
      BY <2>1 DEF Intact, Version
    <3> QED
      BY <1>1, <1>9, <3>1
  <2> QED
    BY <2>1, <2>2 DEF Intact, Version
<1>11. p.outs \subseteq Id /\ (p.out_stage \in {1, 2} => p.out_id \in Id)
  BY <1>4, <1>5, <1>6 DEF SameOut, SameRole
<1>12. PICK p2, b : Emission(u, p, p2, b)
  BY <1>6, <1>7, <1>11, Emits
<1> QED
  BY <1>2, <1>8, <1>9, <1>10, <1>12, Handled DEF Cycle

-----------------------------------------------------------------------------
(* Steps outside of a cycle *)

\* On the line to v a byte may leave, and c, which is of no cycle, come.
From(v, c) ==
  \E k \in {0, 1} : \A i \in 1 .. Len(line'[v]) :
    line'[v][i] = c \/ (i + k \in 1 .. Len(line[v]) /\ line'[v][i] = line[v][i + k])

LEMMA FromSame ==
  ASSUME TypeOK, NEW v \in Unit, NEW c, line'[v] = line[v]
  PROVE  From(v, c)
<1>1. \A i \in 1 .. Len(line[v]) : i + 0 \in 1 .. Len(line[v]) /\ line[v][i] = line[v][i + 0]
  BY DEF TypeOK
<1> QED
  BY <1>1 DEF From

LEMMA FromTail ==
  ASSUME TypeOK, NEW v \in Unit, NEW c, line[v] # <<>>, line'[v] = Tail(line[v])
  PROVE  From(v, c)
<1>1. line[v] \in Seq(LineByte)
  BY DEF TypeOK
<1>2. \A i \in 1 .. Len(Tail(line[v])) : i + 1 \in 1 .. Len(line[v]) /\ Tail(line[v])[i] = line[v][i + 1]
  BY <1>1, Tails
<1> QED
  BY <1>2 DEF From

LEMMA FromAppend ==
  ASSUME TypeOK, NEW v \in Unit, NEW c \in LineByte, line'[v] = Append(line[v], c)
  PROVE  From(v, c)
<1>1. line[v] \in Seq(LineByte) /\ Len(line[v]) \in Nat
  BY DEF TypeOK
<1>2. /\ Len(Append(line[v], c)) = Len(line[v]) + 1
      /\ \A i \in 1 .. Len(line[v]) : Append(line[v], c)[i] = line[v][i]
      /\ Append(line[v], c)[Len(line[v]) + 1] = c
  BY <1>1, Appends
<1>3. ASSUME NEW i \in 1 .. Len(line'[v])
      PROVE  line'[v][i] = c \/ (i + 0 \in 1 .. Len(line[v]) /\ line'[v][i] = line[v][i + 0])
  <2>1. i = Len(line[v]) + 1 \/ (i \in 1 .. Len(line[v]) /\ i + 0 = i)
    BY <1>1, <1>2
  <2> QED
    BY <1>2, <2>1
<1> QED
  BY <1>3 DEF From

LEMMA FromNew ==
  ASSUME NEW v \in Unit, NEW c, line'[v] = <<c>>
  PROVE  From(v, c)
<1>1. \A i \in 1 .. Len(<<c>>) : <<c>>[i] = c
  OBVIOUS
<1> QED
  BY <1>1 DEF From

\* What is not sent is not there.
LEMMA LacksStays ==
  ASSUME NEW v \in Unit, NEW c, From(v, c), NEW cmd, Lacks(v, cmd), c.cmd # cmd
  PROVE  Lacks(v, cmd)'
BY DEF From, Lacks

SetupByte(c) == c \in LineByte /\ c.cmd \notin Cycle

\* A step that leaves alone what a cycle reads and writes.
LEMMA Quiet ==
  ASSUME TypeOK, OwnInv, OneInv, StepInv, NEW c, SetupByte(c),
         pcc' \in [Unit -> Config],
         \A v \in Unit : From(v, c) /\ SameOut(pcc[v], pcc'[v]) /\ SameIn(pcc[v], pcc'[v])
                           /\ pcc'[v].outs \subseteq Own(v),
         pcc'[HOST].role # "SLAVE", pcc'[Peer(HOST)].role \in {"NONE", "SLAVE"},
         c.cmd = "SEEK_SLAVE" => Lacks(HOST, "SEEK_SLAVE")',
         c.cmd = "SLAVE_READY" => Lacks(Peer(HOST), "SLAVE_READY")',
         UNCHANGED <<pattern, sent>>
  PROVE  OwnInv' /\ OneInv' /\ StepInv'
<1>1. ASSUME NEW v \in Unit
      PROVE  \E k \in {0, 1} : \A i \in 1 .. Len(line'[v]) : line'[v][i].cmd \in Cycle =>
               i + k \in 1 .. Len(line[v]) /\ line'[v][i] = line[v][i + k]
  BY DEF From, SetupByte
<1>2. OwnInv'
  <2>0. "left" \in Unit
    BY DEF Unit
  <2>1. HOST \in Unit /\ Peer(HOST) \in Unit
    BY <2>0, Units
  <2>2. Lacks(HOST, "SEEK_SLAVE")'
    BY <2>1, LacksStays DEF OwnInv
  <2>3. Lacks(Peer(HOST), "SLAVE_READY")'
    BY <2>1, LacksStays DEF OwnInv
  <2>4. ASSUME NEW v \in Unit, NEW i \in 1 .. Len(line'[v]), line'[v][i].cmd = "INIT_DATA"
        PROVE  line'[v][i].arg \in Own(Peer(v))
    <3>1. PICK k \in {0, 1} : i + k \in 1 .. Len(line[v]) /\ line'[v][i] = line[v][i + k]
      BY <1>1, <2>4 DEF Cycle
    <3> QED
      BY <2>4, <3>1 DEF OwnInv
  <2>5. \A v \in Unit : pcc'[v].out_stage \in {1, 2} => pcc'[v].out_id \in Own(v)
    BY DEF OwnInv, SameOut
  <2> QED
    BY <2>2, <2>3, <2>4, <2>5 DEF OwnInv
<1>3. OneInv'
  <2> SUFFICES ASSUME NEW v \in Unit, NEW w \in Unit,
                      NEW i \in 1 .. Len(line'[v]), NEW j \in 1 .. Len(line'[w]),
                      line'[v][i].cmd \in Cycle, line'[w][j].cmd \in Cycle
               PROVE  v = w /\ i = j
    BY DEF OneInv
  <2>1. v = w
    <3>1. PICK k \in {0, 1} : i + k \in 1 .. Len(line[v]) /\ line'[v][i] = line[v][i + k]
      BY <1>1
    <3>2. PICK m \in {0, 1} : j + m \in 1 .. Len(line[w]) /\ line'[w][j] = line[w][j + m]
      BY <1>1
    <3>3. line[v][i + k].cmd \in Cycle /\ line[w][j + m].cmd \in Cycle
      BY <3>1, <3>2
    <3> QED
      BY <3>1, <3>2, <3>3 DEF OneInv
  <2>2. PICK k \in {0, 1} : \A n \in 1 .. Len(line'[v]) : line'[v][n].cmd \in Cycle =>
               n + k \in 1 .. Len(line[v]) /\ line'[v][n] = line[v][n + k]
    BY <1>1
  <2>3. i + k = j + k
    <3>1. /\ i + k \in 1 .. Len(line[v]) /\ line[v][i + k].cmd \in Cycle
          /\ j + k \in 1 .. Len(line[v]) /\ line[v][j + k].cmd \in Cycle
      BY <2>1, <2>2
    <3> QED
      BY <3>1 DEF OneInv
  <2>4. i \in Int /\ j \in Int
    BY DEF TypeOK
  <2> QED
    BY <2>1, <2>3, <2>4
<1>4. StepInv'
  <2> SUFFICES ASSUME NEW v \in Unit, NEW i \in 1 .. Len(line'[v]), line'[v][i].cmd \in Cycle
               PROVE  LET b == line'[v][i]
                          p == pcc'[Peer(v)]
                          q == pcc'[v]
                      IN  IF b.cmd = "INIT_CYCLE" THEN p.out_stage = 0 /\ ~p.in_active
                          ELSE /\ InStep(p, Taken(q, b), Data(pattern', sent', p))
                               /\ InStep(q, p, Data(pattern', sent', q))
                               /\ b.cmd = "END_DATA" => Whole(pattern', q)
    BY DEF StepInv
  <2> DEFINE b == line'[v][i]
             p == pcc[Peer(v)]
             q == pcc[v]
             p2 == pcc'[Peer(v)]
             q2 == pcc'[v]
  <2>1. PICK k \in {0, 1} : i + k \in 1 .. Len(line[v]) /\ b = line[v][i + k]
    BY <1>1
  <2>2. IF b.cmd = "INIT_CYCLE" THEN p.out_stage = 0 /\ ~p.in_active
        ELSE /\ InStep(p, Taken(q, b), Data(pattern, sent, p)) /\ InStep(q, p, Data(pattern, sent, q))
             /\ b.cmd = "END_DATA" => Whole(pattern, q)
    BY <2>1 DEF StepInv
  <2>3. Peer(v) \in Unit
    BY Units
  <2>4. p \in Config /\ q \in Config /\ p2 \in Config /\ q2 \in Config
    BY <2>3 DEF TypeOK
  <2>5. SameOut(p, p2) /\ SameIn(p, p2) /\ SameOut(q, q2) /\ SameIn(q, q2)
    BY <2>3
  <2>6. SameIn(Taken(q, b), Taken(q2, b))
    BY <2>4, <2>5, TakenSame
  <2>7. Data(pattern', sent', p2) = Data(pattern, sent, p) /\ Data(pattern', sent', q2) = Data(pattern, sent, q)
    BY <2>5 DEF Data, SameOut
  <2> HIDE DEF b, p, q, p2, q2
  <2>8. CASE b.cmd = "INIT_CYCLE"
    BY <2>2, <2>5, <2>8 DEF SameOut, SameIn, b, p2, q2
  <2>9. CASE b.cmd # "INIT_CYCLE"
    <3>1. InStep(p2, Taken(q2, b), Data(pattern', sent', p2))
      BY <2>2, <2>5, <2>6, <2>7, <2>9, InStepSame
    <3>2. InStep(q2, p2, Data(pattern', sent', q2))
      BY <2>2, <2>5, <2>7, <2>9, InStepSame
    <3>3. b.cmd = "END_DATA" => Whole(pattern', q2)
      BY <2>2, <2>5, <2>9 DEF Whole, SameIn
    <3> QED
      BY <2>9, <3>1, <3>2, <3>3 DEF b, p2, q2
  <2> QED
    BY <2>8, <2>9
<1> QED
  BY <1>2, <1>3, <1>4

\* Of the line and of the two units in a step, for the lemma above.
LEMMA QuietStep ==
  ASSUME TypeOK, OwnInv, OneInv, StepInv, Intact, NEW u \in Unit, NEW p \in Config,
         pcc' = [pcc EXCEPT ![u] = p],
         SameOut(pcc[u], p), SameIn(pcc[u], p), p.outs \subseteq Own(u),
         u = HOST => p.role # "SLAVE", u # HOST => p.role \in {"NONE", "SLAVE"},
         NEW c, SetupByte(c), line' \in [Unit -> Seq(LineByte)], \A v \in Unit : From(v, c),
         c.cmd = "SEEK_SLAVE" => Lacks(HOST, "SEEK_SLAVE")',
         c.cmd = "SLAVE_READY" => Lacks(Peer(HOST), "SLAVE_READY")',
         UNCHANGED <<pattern, sent, received>>, fresh' \subseteq Id,
         role' \in [Unit -> {"NONE", "MASTER", "SLAVE"}],
         pc' \in [Unit -> {"seek", "role", "version", "cycle"}]
  PROVE  TypeOK' /\ OwnInv' /\ OneInv' /\ StepInv' /\ Intact'
<1>1. HOST \in Unit /\ Peer(HOST) \in Unit /\ Peer(HOST) # HOST
  <2>1. HOST \in Unit
    BY Units
  <2> QED
    BY <2>1, Units
<1>2. pcc \in [Unit -> Config] /\ pcc[u] \in Config
  BY DEF TypeOK
<1>3. pcc' \in [Unit -> Config] /\ pcc'[u] = p /\ \A v \in Unit : v # u => pcc'[v] = pcc[v]
  BY <1>2
<1>4. ASSUME NEW v \in Unit
      PROVE  /\ SameOut(pcc[v], pcc'[v]) /\ SameIn(pcc[v], pcc'[v])
             /\ pcc'[v].outs \subseteq Own(v)
  <2>1. CASE v = u
    BY <1>3, <2>1
  <2>2. CASE v # u
    BY <1>3, <2>2 DEF SameOut, SameIn, OwnInv
  <2> QED
    BY <2>1, <2>2
<1>5. pcc'[HOST].role # "SLAVE" /\ pcc'[Peer(HOST)].role \in {"NONE", "SLAVE"}
  <2>1. pcc'[HOST].role # "SLAVE"
    BY <1>1, <1>3 DEF OwnInv
  <2>2. pcc'[Peer(HOST)].role \in {"NONE", "SLAVE"}
    BY <1>1, <1>3 DEF OwnInv
  <2> QED
    BY <2>1, <2>2
<1>6. OwnInv' /\ OneInv' /\ StepInv'
  BY <1>3, <1>4, <1>5, Quiet
<1>7. \A v \in Unit : Len(pcc'[v].in_buff) <= SIZE
  BY <1>4 DEF SameIn, TypeOK
<1>8. TypeOK'
  BY <1>3, <1>7 DEF TypeOK
<1>9. Intact'
  <2>1. Bytes(0)' = Bytes(0) /\ Bytes(1)' = Bytes(1)
    BY DEF Bytes
  <2> QED
    BY <2>1 DEF Intact
<1> QED
  BY <1>6, <1>8, <1>9

\* A unit that stays as it is.
LEMMA Unchanged ==
  ASSUME TypeOK, OwnInv, NEW u \in Unit
  PROVE  /\ pcc[u] \in Config /\ pcc = [pcc EXCEPT ![u] = pcc[u]]
         /\ SameOut(pcc[u], pcc[u]) /\ SameIn(pcc[u], pcc[u]) /\ pcc[u].outs \subseteq Own(u)
         /\ u = HOST => pcc[u].role # "SLAVE"
         /\ u # HOST => pcc[u].role \in {"NONE", "SLAVE"}
<1>1. HOST \in Unit /\ (u # HOST => u = Peer(HOST))
  <2>1. HOST \in Unit
    BY Units
  <2> QED
    BY <2>1, Units
<1> QED
  BY <1>1 DEF TypeOK, SameOut, SameIn, OwnInv

\* The commands that are of no cycle.
LEMMA SetupBytes ==
  \A cmd \in {"SEEK_PEER", "PEER_READY", "SEEK_SLAVE", "SLAVE_READY", "VERSION"} :
    SetupByte(Command(cmd)) /\ Command(cmd).cmd = cmd /\ Command(cmd) \in LineByte
BY CommandTyped DEF Commands, SetupByte, Cycle

\* What the line does when a unit sends, answers or takes a byte.
LEMMA SendsQuiet ==
  ASSUME TypeOK, NEW u \in Unit, NEW c \in LineByte, Sends(u, c)
  PROVE  line' \in [Unit -> Seq(LineByte)] /\ \A v \in Unit : From(v, c)
<1>1. Peer(u) \in Unit /\ line \in [Unit -> Seq(LineByte)] /\ line' = [line EXCEPT ![Peer(u)] = <<c>>]
  BY Units DEF Sends, TypeOK
<1>2. <<c>> \in Seq(LineByte)
  OBVIOUS
<1>3. line' \in [Unit -> Seq(LineByte)]
  BY <1>1, <1>2
<1>4. ASSUME NEW v \in Unit
      PROVE  From(v, c)
  <2>1. line'[v] = line[v] \/ line'[v] = <<c>>
    BY <1>1
  <2> QED
    BY <2>1, FromSame, FromNew
<1> QED
  BY <1>3, <1>4

LEMMA AnswersQuiet ==
  ASSUME TypeOK, NEW u \in Unit, NEW p, NEW c \in LineByte, line[u] # <<>>, Answers(u, p, c)
  PROVE  /\ line' \in [Unit -> Seq(LineByte)] /\ \A v \in Unit : From(v, c)
         /\ line'[u] = Tail(line[u])
<1>1. Peer(u) \in Unit /\ Peer(u) # u /\ line \in [Unit -> Seq(LineByte)]
  BY Units DEF TypeOK
<1>2. line' = [line EXCEPT ![u] = Tail(line[u]), ![Peer(u)] = Append(line[Peer(u)], c)]
  BY <1>1 DEF Answers
<1>3. Tail(line[u]) \in Seq(LineByte) /\ Append(line[Peer(u)], c) \in Seq(LineByte)
  BY <1>1, Tails, Appends
<1>4. line' \in [Unit -> Seq(LineByte)] /\ line'[u] = Tail(line[u])
  BY <1>1, <1>2, <1>3
<1>5. line'[Peer(u)] = Append(line[Peer(u)], c)
  BY <1>1, <1>2
<1>6. ASSUME NEW v \in Unit
      PROVE  From(v, c)
  <2>1. v = u \/ v = Peer(u)
    BY Units
  <2> QED
    BY <1>1, <1>4, <1>5, <2>1, FromTail, FromAppend
<1> QED
  BY <1>4, <1>6

LEMMA TakesQuiet ==
  ASSUME TypeOK, NEW u \in Unit, NEW c, line[u] # <<>>, line' = [line EXCEPT ![u] = Tail(@)]
  PROVE  line' \in [Unit -> Seq(LineByte)] /\ \A v \in Unit : From(v, c)
<1>1. line \in [Unit -> Seq(LineByte)] /\ line' = [line EXCEPT ![u] = Tail(line[u])]
  BY DEF TypeOK
<1>2. Tail(line[u]) \in Seq(LineByte)
  BY <1>1, Tails
<1>3. line' \in [Unit -> Seq(LineByte)] /\ line'[u] = Tail(line[u])
  BY <1>1, <1>2
<1>4. ASSUME NEW v \in Unit
      PROVE  From(v, c)
  <2>1. line'[v] = line[v] \/ (v = u /\ line'[v] = Tail(line[v]))
    BY <1>1
  <2> QED
    BY <2>1, FromSame, FromTail
<1> QED
  BY <1>3, <1>4

-----------------------------------------------------------------------------
(* Every step *)

Inv == TypeOK /\ OwnInv /\ OneInv /\ StepInv /\ Intact

Stays == UNCHANGED <<pattern, sent, received>> /\ fresh' \subseteq Id
PcTyped == pc' \in [Unit -> {"seek", "role", "version", "cycle"}]
RoleTyped == role' \in [Unit -> {"NONE", "MASTER", "SLAVE"}]

\* The units stay as they are.
LEMMA LineStep ==
  ASSUME Inv, UNCHANGED <<pcc, role>>, NEW c, SetupByte(c),
         c.cmd \notin {"SEEK_SLAVE", "SLAVE_READY"},
         line' \in [Unit -> Seq(LineByte)], \A v \in Unit : From(v, c), Stays, PcTyped
  PROVE  Inv'
<1>1. HOST \in Unit
  BY Units DEF Unit
<1>2. role' \in [Unit -> {"NONE", "MASTER", "SLAVE"}]
  BY DEF Inv, TypeOK
<1>3. pcc' = [pcc EXCEPT ![HOST] = pcc[HOST]]
  BY <1>1, Unchanged DEF Inv
<1> QED
  BY <1>1, <1>2, <1>3, Unchanged, QuietStep DEF Inv, Stays, PcTyped

\* So is the line.
LEMMA SameLine ==
  ASSUME Inv, line' = line, NEW c
  PROVE  line' \in [Unit -> Seq(LineByte)] /\ \A v \in Unit : From(v, c)
BY FromSame DEF Inv, TypeOK

\* core1 of a unit until its first cycle: it looks for the peer, waits for its role, and
\* asks for the version.
LEMMA SetupKeeps ==
  ASSUME Inv, NEW u \in Unit, Seek(u) \/ TakeRole(u) \/ AskVersion(u)
  PROVE  Inv'
<1>1. UNCHANGED <<pcc, role>> /\ Stays
  BY DEF Seek, TakeRole, AskVersion, data, Stays, Inv, TypeOK
<1>2. PcTyped
  BY DEF Seek, TakeRole, AskVersion, PcTyped, Inv, TypeOK
<1>3. CASE line' = line
  <2>1. SetupByte(Command("VERSION")) /\ Command("VERSION").cmd = "VERSION"
    BY SetupBytes
  <2> QED
    BY <1>1, <1>2, <1>3, <2>1, SameLine, LineStep
<1>4. ASSUME NEW cmd \in {"SEEK_PEER", "VERSION"}, Sends(u, Command(cmd))
      PROVE  Inv'
  <2>1. SetupByte(Command(cmd)) /\ Command(cmd).cmd = cmd /\ Command(cmd) \in LineByte
    BY SetupBytes
  <2>2. line' \in [Unit -> Seq(LineByte)] /\ \A v \in Unit : From(v, Command(cmd))
    BY <1>4, <2>1, SendsQuiet DEF Inv
  <2> QED
    BY <1>1, <1>2, <2>1, <2>2, LineStep
<1> QED
  BY <1>3, <1>4 DEF Seek, TakeRole, AskVersion

LEMMA TryMasterKeeps ==
  ASSUME Inv, NEW u \in Unit, TryMaster(u)
  PROVE  Inv'
<1> DEFINE c == Command("SEEK_SLAVE")
           p == [pcc[u] EXCEPT !.role = Side(u)]
<1>1. /\ u = HOST /\ pcc' = [pcc EXCEPT ![u] = p]
      /\ line' = [line EXCEPT ![Peer(u)] = Append(line[Peer(u)], c)]
      /\ UNCHANGED <<pattern, role, pc, data, lost>>
  BY Units DEF TryMaster, Inv, TypeOK
<1>2. SetupByte(c) /\ c.cmd = "SEEK_SLAVE" /\ c \in LineByte
  BY SetupBytes
<1>3. /\ pcc[u] \in Config /\ pcc[u].outs \subseteq Own(u)
  BY Unchanged DEF Inv
<1>4. Side(u) \in Role \ {"SLAVE"}
  BY DEF Side, Role
<1>5. /\ p \in Config /\ SameOut(pcc[u], p) /\ SameIn(pcc[u], p)
      /\ p.outs = pcc[u].outs /\ p.role = Side(u)
  BY <1>3, <1>4, ConfigIs DEF SameOut, SameIn
<1> HIDE DEF c, p
<1>6. Peer(u) \in Unit /\ Peer(u) # u /\ line \in [Unit -> Seq(LineByte)]
  BY Units DEF Inv, TypeOK
<1>7. Append(line[Peer(u)], c) \in Seq(LineByte)
  BY <1>2, <1>6, Appends
<1>8. line' \in [Unit -> Seq(LineByte)] /\ line'[u] = line[u] /\ line'[Peer(u)] = Append(line[Peer(u)], c)
  BY <1>1, <1>6, <1>7
<1>9. \A v \in Unit : From(v, c)
  <2>1. \A v \in Unit : v = u \/ v = Peer(u)
    BY Units
  <2>2. From(u, c)
    BY <1>8, FromSame DEF Inv
  <2>3. From(Peer(u), c)
    BY <1>2, <1>6, <1>8, FromAppend DEF Inv
  <2> QED
    BY <2>1, <2>2, <2>3
<1>10. Lacks(HOST, "SEEK_SLAVE")'
  BY <1>1, <1>8 DEF Lacks, Inv, OwnInv
<1>11. /\ UNCHANGED <<pattern, sent, received>> /\ fresh' \subseteq Id
       /\ role' \in [Unit -> {"NONE", "MASTER", "SLAVE"}]
       /\ pc' \in [Unit -> {"seek", "role", "version", "cycle"}]
  BY <1>1 DEF data, Inv, TypeOK
<1> QED
  BY <1>1, <1>2, <1>3, <1>4, <1>5, <1>8, <1>9, <1>10, <1>11, QuietStep DEF Inv

LEMMA SetRoleKeeps ==
  ASSUME Inv, NEW u \in Unit, SetRole(u)
  PROVE  Inv'
<1> DEFINE c == Command("VERSION")
           outs == IF pcc[u].role = "MASTER" THEN MasterOut ELSE SlaveOut
           p == [pcc[u] EXCEPT !.outs = outs]
<1>1. /\ pcc' = [pcc EXCEPT ![u] = p] /\ line' = line
      /\ UNCHANGED <<pattern, pc, data, lost>> /\ pcc[u].role \in {"MASTER", "SLAVE"}
      /\ role' = [role EXCEPT ![u] = pcc[u].role]
  BY DEF SetRole
<1>2. SetupByte(c) /\ c.cmd = "VERSION"
  BY SetupBytes
<1>3. /\ pcc[u] \in Config
      /\ u = HOST => pcc[u].role # "SLAVE"
      /\ u # HOST => pcc[u].role \in {"NONE", "SLAVE"}
  BY Unchanged DEF Inv
<1>4. outs \in Outs /\ outs = Own(u)
  BY <1>1, <1>3 DEF Outs, Own
<1> HIDE DEF outs
<1>5. /\ p \in Config /\ SameOut(pcc[u], p) /\ SameIn(pcc[u], p)
      /\ p.outs = outs /\ p.role = pcc[u].role
  BY <1>3, <1>4, ConfigIs DEF SameOut, SameIn
<1> HIDE DEF c, p
<1>6. line' \in [Unit -> Seq(LineByte)] /\ \A v \in Unit : From(v, c)
  BY <1>1, SameLine
<1>7. /\ UNCHANGED <<pattern, sent, received>> /\ fresh' \subseteq Id
      /\ pc' \in [Unit -> {"seek", "role", "version", "cycle"}]
  BY <1>1 DEF data, Inv, TypeOK
<1>8. role' \in [Unit -> {"NONE", "MASTER", "SLAVE"}]
  BY <1>1 DEF Inv, TypeOK
<1>9. /\ p.outs \subseteq Own(u)
      /\ u = HOST => p.role # "SLAVE"
      /\ u # HOST => p.role \in {"NONE", "SLAVE"}
  BY <1>3, <1>4, <1>5
<1>10. pcc' = [pcc EXCEPT ![u] = p]
  BY <1>1
<1> QED
  BY <1>2, <1>5, <1>6, <1>7, <1>8, <1>9, <1>10, QuietStep DEF Inv

\* A unit that takes a byte of no cycle, with p.
LEMMA TakesLeaves ==
  ASSUME Inv, NEW u \in Unit, line[u] # <<>>, NEW p \in Config,
         SameOut(pcc[u], p), SameIn(pcc[u], p), p.outs = pcc[u].outs,
         u = HOST => p.role # "SLAVE", u # HOST => p.role \in {"NONE", "SLAVE"},
         Takes(u, p), UNCHANGED <<pattern, role, pc, data>>
  PROVE  Inv'
<1> DEFINE c == Command("VERSION")
<1>1. SetupByte(c) /\ c.cmd = "VERSION"
  BY SetupBytes
<1>2. pcc' = [pcc EXCEPT ![u] = p] /\ line' = [line EXCEPT ![u] = Tail(@)]
  BY DEF Takes
<1> HIDE DEF c
<1>3. line' \in [Unit -> Seq(LineByte)] /\ \A v \in Unit : From(v, c)
  BY <1>2, TakesQuiet DEF Inv
<1>4. /\ UNCHANGED <<pattern, sent, received>> /\ fresh' \subseteq Id
      /\ role' \in [Unit -> {"NONE", "MASTER", "SLAVE"}]
      /\ pc' \in [Unit -> {"seek", "role", "version", "cycle"}]
  BY DEF data, Inv, TypeOK
<1>5. p.outs \subseteq Own(u)
  BY Unchanged DEF Inv
<1> QED
  BY <1>1, <1>2, <1>3, <1>4, <1>5, QuietStep DEF Inv

\* A unit that answers one, with a command.
LEMMA AnswersLeaves ==
  ASSUME Inv, NEW u \in Unit, line[u] # <<>>, NEW p \in Config,
         SameOut(pcc[u], p), SameIn(pcc[u], p), p.outs = pcc[u].outs,
         u = HOST => p.role # "SLAVE", u # HOST => p.role \in {"NONE", "SLAVE"},
         NEW cmd \in {"VERSION", "PEER_READY", "SLAVE_READY"},
         cmd = "SLAVE_READY" => u # HOST,
         Answers(u, p, Command(cmd)), UNCHANGED <<pattern, role, pc, data>>
  PROVE  Inv'
<1> DEFINE c == Command(cmd)
<1>1. SetupByte(c) /\ c.cmd = cmd /\ c \in LineByte
  BY SetupBytes
<1>2. pcc' = [pcc EXCEPT ![u] = p]
  BY DEF Answers
<1> HIDE DEF c
<1>3. /\ line' \in [Unit -> Seq(LineByte)] /\ \A v \in Unit : From(v, c)
      /\ line'[u] = Tail(line[u])
  BY <1>1, AnswersQuiet DEF Inv, c
<1>4. /\ UNCHANGED <<pattern, sent, received>> /\ fresh' \subseteq Id
      /\ role' \in [Unit -> {"NONE", "MASTER", "SLAVE"}]
      /\ pc' \in [Unit -> {"seek", "role", "version", "cycle"}]
  BY DEF data, Inv, TypeOK
<1>5. p.outs \subseteq Own(u)
  BY Unchanged DEF Inv
<1>6. c.cmd = "SLAVE_READY" => Lacks(Peer(HOST), "SLAVE_READY")'
  <2> SUFFICES ASSUME c.cmd = "SLAVE_READY"
               PROVE  Lacks(Peer(HOST), "SLAVE_READY")'
    OBVIOUS
  <2>1. HOST \in Unit
    BY Units
  <2>2. u = Peer(HOST)
    BY <1>1, <2>1, Units
  <2>3. line[u] \in Seq(LineByte)
    BY DEF Inv, TypeOK
  <2>4. \A i \in 1 .. Len(Tail(line[u])) : i + 1 \in 1 .. Len(line[u]) /\ Tail(line[u])[i] = line[u][i + 1]
    BY <2>3, Tails
  <2>5. Lacks(u, "SLAVE_READY")
    BY <2>2 DEF Inv, OwnInv
  <2>6. \A i \in 1 .. Len(line'[u]) : line'[u][i].cmd # "SLAVE_READY"
    BY <1>3, <2>4, <2>5 DEF Lacks
  <2> QED
    BY <2>2, <2>6 DEF Lacks
<1>7. c.cmd # "SEEK_SLAVE"
  BY <1>1
<1> QED
  BY <1>1, <1>2, <1>3, <1>4, <1>5, <1>6, <1>7, QuietStep DEF Inv

\* The commands that are of no cycle, each taken or answered.
LEMMA OnCommandKeeps ==
  ASSUME Inv, NEW u \in Unit, OnCommand(u)
  PROVE  Inv'
<1> DEFINE q == pcc[u]
           t == Head(line[u])
<1>1. UNCHANGED <<pattern, role, pc, data>>
  BY DEF OnCommand
<1>2. /\ q \in Config /\ SameOut(q, q) /\ SameIn(q, q)
      /\ u = HOST => q.role # "SLAVE"
      /\ u # HOST => q.role \in {"NONE", "SLAVE"}
  BY Unchanged DEF Inv
<1>3. ASSUME line[u] # <<>>, NEW cmd, t.cmd = cmd
      PROVE  ~Lacks(u, cmd)
  <2>1. line[u] \in Seq(LineByte)
    BY DEF Inv, TypeOK
  <2>2. 1 \in 1 .. Len(line[u]) /\ line[u][1] = t
    BY <1>3, <2>1, Tails
  <2> QED
    BY <1>3, <2>2 DEF Lacks
<1>4. CASE Receive(u, "END_CYCLE") /\ Takes(u, [q EXCEPT !.busy = FALSE])
  <2> DEFINE p == [q EXCEPT !.busy = FALSE]
  <2>1. /\ p \in Config /\ SameOut(q, p) /\ SameIn(q, p) /\ p.outs = q.outs /\ p.role = q.role
    BY <1>2, ConfigIs DEF SameOut, SameIn
  <2> HIDE DEF p
  <2> QED
    BY <1>1, <1>2, <1>4, <2>1, TakesLeaves DEF Receive, p
<1>5. CASE Receive(u, "VERSION")
  <2> DEFINE p == [q EXCEPT !.peer_version = TRUE]
  <2>1. /\ p \in Config /\ SameOut(q, p) /\ SameIn(q, p) /\ p.outs = q.outs /\ p.role = q.role
    BY <1>2, ConfigIs DEF SameOut, SameIn
  <2>2. Takes(u, q) \/ Answers(u, p, Command("VERSION"))
    BY <1>5 DEF OnCommand, Receive
  <2> HIDE DEF p
  <2> QED
    BY <1>1, <1>2, <1>5, <2>1, <2>2, TakesLeaves, AnswersLeaves DEF Receive
<1>6. CASE Receive(u, "SEEK_PEER")
  <2> DEFINE p == [q EXCEPT !.peer_ready = TRUE]
  <2>1. /\ p \in Config /\ SameOut(q, p) /\ SameIn(q, p) /\ p.outs = q.outs /\ p.role = q.role
    BY <1>2, ConfigIs DEF SameOut, SameIn
  <2>2. Answers(u, p, Command("PEER_READY"))
    BY <1>6 DEF OnCommand, Receive
  <2> HIDE DEF p
  <2> QED
    BY <1>1, <1>2, <1>6, <2>1, <2>2, AnswersLeaves DEF Receive
<1>7. CASE Receive(u, "PEER_READY")
  <2> DEFINE p == [q EXCEPT !.peer_ready = TRUE]
  <2>1. /\ p \in Config /\ SameOut(q, p) /\ SameIn(q, p) /\ p.outs = q.outs /\ p.role = q.role
    BY <1>2, ConfigIs DEF SameOut, SameIn
  <2>2. Takes(u, p)
    BY <1>7 DEF OnCommand, Receive
  <2> HIDE DEF p
  <2> QED
    BY <1>1, <1>2, <1>7, <2>1, <2>2, TakesLeaves DEF Receive
<1>8. CASE Receive(u, "SEEK_SLAVE")
  <2> DEFINE p == [q EXCEPT !.role = "SLAVE"]
  <2>1. u # HOST
    BY <1>3, <1>8 DEF Receive, Inv, OwnInv
  <2>2. /\ p \in Config /\ SameOut(q, p) /\ SameIn(q, p) /\ p.outs = q.outs /\ p.role = "SLAVE"
    <3>1. "SLAVE" \in Role
      BY DEF Role
    <3> QED
      BY <1>2, <3>1, ConfigIs DEF SameOut, SameIn
  <2>3. Takes(u, q) \/ Answers(u, p, Command("SLAVE_READY"))
    BY <1>8 DEF OnCommand, Receive
  <2> HIDE DEF p
  <2> QED
    BY <1>1, <1>2, <1>8, <2>1, <2>2, <2>3, TakesLeaves, AnswersLeaves DEF Receive
<1>9. CASE Receive(u, "SLAVE_READY")
  <2> DEFINE p == [q EXCEPT !.role = "MASTER"]
  <2>1. u = HOST
    <3>1. HOST \in Unit
      BY Units
    <3>2. u # Peer(HOST)
      BY <1>3, <1>9 DEF Receive, Inv, OwnInv
    <3> QED
      BY <3>1, <3>2, Units
  <2>2. /\ p \in Config /\ SameOut(q, p) /\ SameIn(q, p) /\ p.outs = q.outs /\ p.role = "MASTER"
    <3>1. "MASTER" \in Role
      BY DEF Role
    <3> QED
      BY <1>2, <3>1, ConfigIs DEF SameOut, SameIn
  <2>3. Takes(u, p)
    BY <1>9 DEF OnCommand, Receive
  <2> HIDE DEF p
  <2> QED
    BY <1>1, <1>2, <1>9, <2>1, <2>2, <2>3, TakesLeaves DEF Receive
<1> QED
  BY <1>4, <1>5, <1>6, <1>7, <1>8, <1>9 DEF OnCommand

\* A new cycle starts on a silent line, with the unit reset; or nothing does.
LEMMA TickKeeps ==
  ASSUME Inv, NEW u \in Unit, Tick(u)
  PROVE  Inv'
<1> DEFINE q == pcc[u]
           v == Peer(u)
<1>1. /\ v \in Unit /\ v # u /\ Peer(v) = u /\ \A w \in Unit : w = u \/ w = v
  BY Units
<1>2. /\ pcc \in [Unit -> Config] /\ q \in Config /\ Len(q.in_buff) <= SIZE
      /\ line \in [Unit -> Seq(LineByte)] /\ q.outs \subseteq Own(u)
  BY DEF Inv, TypeOK, OwnInv
<1>3. /\ \A w \in Unit : line[w] = <<>> /\ Len(line[w]) = 0
      /\ UNCHANGED <<pattern, role, pc, fresh, sent, received>>
  BY DEF Tick, data
<1>4. CASE Hung(q)
  <2> DEFINE p == [Reset(q) EXCEPT !.busy = TRUE]
             b == Command("INIT_CYCLE")
  <2>0. pcc' = [pcc EXCEPT ![u] = p] /\ line' = [line EXCEPT ![v] = <<b>>]
    BY <1>2, <1>4 DEF Tick
  <2>1. <<0, 0, 0, 0>> \in LastState /\ 0 \in 0 .. 4
    BY ParameterAssumption DEF LastState
  <2>2. p = [q EXCEPT !.busy = TRUE, !.in_active = FALSE, !.out_stage = 0, !.last_state = <<0, 0, 0, 0>>]
    BY <1>2, ConfigIs DEF Reset
  <2>3. p \in Config
    BY <1>2, <2>1, <2>2, ConfigIs
  <2>4. /\ p.out_stage = 0 /\ p.in_active = FALSE /\ p.in_buff = q.in_buff
        /\ p.role = q.role /\ p.outs = q.outs
    BY <1>2, <2>2, ConfigIs
  <2>5. b \in LineByte /\ b.cmd = "INIT_CYCLE"
    BY CommandTyped DEF Commands
  <2> HIDE DEF p, b
  <2>6. /\ pcc'[u] = p /\ pcc'[v] = pcc[v] /\ pcc' \in [Unit -> Config]
    BY <1>1, <1>2, <2>0, <2>3
  <2>7. /\ line'[u] = <<>> /\ line'[v] = <<b>> /\ line' \in [Unit -> Seq(LineByte)]
    <3>1. <<b>> \in Seq(LineByte)
      BY <2>5
    <3> QED
      BY <1>1, <1>2, <1>3, <2>0, <3>1
  <2>8. \A w \in Unit : \A i \in 1 .. Len(line'[w]) : w = v /\ i = 1 /\ line'[w][i] = b
    <3>1. Len(<<>>) = 0 /\ 1 .. 0 = {} /\ Len(<<b>>) = 1 /\ 1 .. 1 = {1} /\ <<b>>[1] = b
      OBVIOUS
    <3> QED
      BY <1>1, <2>7, <3>1
  <2>9. TypeOK'
    <3>1. \A w \in Unit : Len(pcc'[w].in_buff) <= SIZE
      BY <1>1, <1>2, <2>4, <2>6 DEF Inv, TypeOK
    <3> QED
      BY <1>3, <2>6, <2>7, <3>1 DEF Inv, TypeOK
  <2>10. OwnInv'
    <3>1. \A w \in Unit : pcc'[w].role = pcc[w].role /\ pcc'[w].outs = pcc[w].outs
      BY <1>1, <2>4, <2>6
    <3>2. \A w \in Unit : pcc'[w].out_stage \in {1, 2} => pcc'[w].out_id \in Own(w)
      BY <1>1, <2>4, <2>6 DEF Inv, OwnInv
    <3>3. \A w \in Unit : \A i \in 1 .. Len(line'[w]) : line'[w][i].cmd = "INIT_CYCLE"
      BY <2>5, <2>8
    <3>4. HOST \in Unit /\ Peer(HOST) \in Unit
      <4>1. HOST \in Unit
        BY Units
      <4> QED
        BY <4>1, Units
    <3> QED
      BY <3>1, <3>2, <3>3, <3>4 DEF Inv, OwnInv, Lacks
  <2>11. OneInv'
    BY <2>8 DEF OneInv
  <2>12. StepInv'
    <3> SUFFICES ASSUME NEW w \in Unit, NEW i \in 1 .. Len(line'[w])
                 PROVE  /\ line'[w][i].cmd = "INIT_CYCLE"
                        /\ pcc'[Peer(w)].out_stage = 0 /\ ~pcc'[Peer(w)].in_active
      BY DEF StepInv
    <3> QED
      BY <1>1, <2>4, <2>5, <2>6, <2>8
  <2>13. Intact'
    <3>1. Bytes(0)' = Bytes(0) /\ Bytes(1)' = Bytes(1)
      BY <1>3 DEF Bytes
    <3> QED
      BY <1>3, <3>1 DEF Inv, Intact
  <2> QED
    BY <2>9, <2>10, <2>11, <2>12, <2>13 DEF Inv
<1>5. CASE ~Hung(q)
  <2> DEFINE p == [q EXCEPT !.last_state = CurrentState(q)]
             c == Command("VERSION")
  <2>1. CurrentState(q) \in LastState
    <3>1. q.in_id \in Id \cup {0} /\ q.out_id \in Id \cup {0} /\ q.out_pos \in 0 .. SIZE - 1
      BY <1>2, ConfigIs DEF Ids, Position
    <3>2. SIZE \in Nat /\ Len(q.in_buff) \in Nat
      BY <1>2, ConfigIs, ParameterAssumption DEF Buff
    <3>3. q.out_pos \in 0 .. SIZE /\ Len(q.in_buff) \in 0 .. SIZE
      BY <1>2, <3>1, <3>2
    <3> QED
      BY <3>1, <3>3 DEF CurrentState, LastState
  <2>2. /\ p \in Config /\ SameOut(q, p) /\ SameIn(q, p) /\ p.outs = q.outs /\ p.role = q.role
    BY <1>2, <2>1, ConfigIs DEF SameOut, SameIn
  <2>3. pcc' = [pcc EXCEPT ![u] = p] /\ line' = line
    BY <1>2, <1>5 DEF Tick
  <2>4. SetupByte(c) /\ c.cmd = "VERSION"
    BY SetupBytes
  <2> HIDE DEF p, c
  <2>5. line' \in [Unit -> Seq(LineByte)] /\ \A w \in Unit : From(w, c)
    BY <2>3, SameLine
  <2>6. /\ u = HOST => p.role # "SLAVE"
        /\ u # HOST => p.role \in {"NONE", "SLAVE"}
    BY <2>2, Unchanged DEF Inv
  <2>7. /\ fresh' \subseteq Id
        /\ role' \in [Unit -> {"NONE", "MASTER", "SLAVE"}]
        /\ pc' \in [Unit -> {"seek", "role", "version", "cycle"}]
    BY <1>3 DEF Inv, TypeOK
  <2> QED
    BY <1>2, <1>3, <2>2, <2>3, <2>4, <2>5, <2>6, <2>7, QuietStep DEF Inv
<1> QED
  BY <1>4, <1>5

LEMMA WriteKeeps ==
  ASSUME Inv, NEW id \in Id, Write(id)
  PROVE  Inv'
<1>1. SetupByte(Command("VERSION")) /\ Command("VERSION").cmd = "VERSION"
  BY SetupBytes
<1>2. line' = line /\ UNCHANGED <<pcc, role>> /\ Stays /\ PcTyped
  BY DEF Write, Stays, PcTyped, Inv, TypeOK
<1> QED
  BY <1>1, <1>2, SameLine, LineStep

\* When a byte of a cycle is lost no other is under way, and nothing has to be in step.
LEMMA LoseKeeps ==
  ASSUME Inv, NEW u \in Unit, Lose(u)
  PROVE  Inv'
<1> DEFINE c == Command("VERSION")
<1>1. SetupByte(c) /\ c.cmd = "VERSION"
  BY SetupBytes
<1> HIDE DEF c
<1>2. UNCHANGED <<pcc, role>> /\ Stays /\ PcTyped
  BY DEF Lose, data, Stays, PcTyped, Inv, TypeOK
<1>3. line' \in [Unit -> Seq(LineByte)] /\ \A v \in Unit : From(v, c)
  BY TakesQuiet DEF Lose, Inv
<1> QED
  BY <1>1, <1>2, <1>3, LineStep

LEMMA InvInit ==
  ASSUME Init
  PROVE  Inv
<1>1. /\ \A u \in Unit : pcc[u] = NewConfig /\ line[u] = <<>> /\ Len(line[u]) = 0
      /\ pcc = [u \in Unit |-> NewConfig]
  BY DEF Init
<1>2. 0 \in Position /\ <<0, 0, 0, 0>> \in LastState /\ SIZE \in Nat
  BY ParameterAssumption DEF Position, LastState
<1>3. /\ NewConfig \in Config /\ Len(NewConfig.in_buff) = 0 /\ NewConfig.outs = {}
      /\ NewConfig.out_stage = 0 /\ NewConfig.role = "NONE"
  BY <1>2, ConfigIs DEF NewConfig, Role, Outs, Ids, Buff, Msbs
<1>4. 0 \in Version /\ Bytes(0) \in Seq(Byte)
  <2>1. Of(pattern, 0) \in [1 .. SIZE -> Byte] /\ Bytes(0) = Of(pattern, 0) /\ 0 \in Version
    BY BytesTyped DEF Version
  <2> QED
    BY <1>2, <2>1
<1>5. TypeOK
  BY <1>1, <1>2, <1>3, <1>4 DEF Init, TypeOK
<1>6. HOST \in Unit /\ Peer(HOST) \in Unit
  <2>1. "left" \in Unit
    BY DEF Unit
  <2>2. HOST \in Unit
    BY <2>1, Units
  <2> QED
    BY <2>2, Units
<1>7. OwnInv /\ OneInv /\ StepInv
  BY <1>1, <1>3, <1>6 DEF OwnInv, OneInv, StepInv, Lacks
<1>8. Intact
  BY DEF Init, Intact
<1> QED
  BY <1>5, <1>7, <1>8 DEF Inv

LEMMA InvStep ==
  ASSUME Inv, [Next]_vars
  PROVE  Inv'
<1>1. CASE UNCHANGED vars
  <2>1. Bytes(0)' = Bytes(0) /\ Bytes(1)' = Bytes(1)
    BY <1>1 DEF Bytes, vars
  <2>2. Intact'
    BY <1>1, <2>1 DEF vars, Inv, Intact
  <2>3. TypeOK'
    BY <1>1 DEF vars, Inv, TypeOK
  <2>4. OwnInv' /\ OneInv'
    BY <1>1 DEF vars, Inv, OwnInv, OneInv, Lacks
  <2>5. StepInv'
    BY <1>1 DEF vars, Inv, StepInv
  <2> QED
    BY <2>2, <2>3, <2>4, <2>5 DEF Inv
<1>2. ASSUME NEW u \in Unit, OnData(u)
      PROVE  Inv'
  <2>1. Bytes(0)' = Bytes(0) /\ Bytes(1)' = Bytes(1) /\ received' = received
    BY <1>2 DEF OnData, Bytes
  <2>2. Intact'
    BY <2>1 DEF Inv, Intact
  <2> QED
    BY <1>2, <2>2, OnDataKeeps DEF Inv
<1>3. ASSUME NEW u \in Unit, OnEndData(u)
      PROVE  Inv'
  BY <1>3, OnEndDataKeeps DEF Inv
<1> QED
  BY <1>1, <1>2, <1>3, SetupKeeps, TryMasterKeeps, SetRoleKeeps, OnCommandKeeps, TickKeeps,
     WriteKeeps, LoseKeeps DEF Next

\* The values the variables of the two units range over, for datasets of any size.
THEOREM TypeCorrect == Spec => []TypeOK
<1>1. Inv => TypeOK
  BY DEF Inv
<1> QED
  BY <1>1, InvInit, InvStep, PTL DEF Spec

\* Whatever is written while it is sent, and whichever bytes are lost, a unit holds of its
\* peer only what the peer wrote, byte for byte: for any datasets, and any number of first
\* bits in a byte.
THEOREM StaysIntact == Spec => []Intact
<1>1. Inv => Intact
  BY DEF Inv
<1> QED
  BY <1>1, InvInit, InvStep, PTL DEF Spec

=============================================================================
