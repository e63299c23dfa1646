--------------------------- MODULE ConfigSyncProofs ---------------------------
(***************************************************************************)
(* What the AP saves or loads it also uses, what it believes a node has    *)
(* the node has, and what the user sets is left alone, although only eight *)
(* bits of a position are compared: always, but for the exceptions that    *)
(* the properties name.                                                    *)
(***************************************************************************)
EXTENDS ConfigSync, TLAPS

\* The position a save takes after another one is never the eight bits of the one
\* before: it is larger, or the first one after the last.
Distinct == Byte(MAX_POS) # BASE_POS

\* An empty store stands for the default at the first position.
EmptyIsDefault == fd.need_flash_init => fd.data = Default /\ fd.pos = BASE_POS

LEMMA ByteTyped ==
  ASSUME NEW n \in Nat
  PROVE  Byte(n) \in Uint8 /\ Byte(n) <= n
BY PositionAssumption DEF Byte, Uint8

LEMMA NextPosTyped ==
  ASSUME fd \in [pos : Position, need_flash_init : BOOLEAN, data : Value]
  PROVE  NextPos \in Position
BY PositionAssumption DEF NextPos, Position

LEMMA PositionIsNat == Position \subseteq Nat
BY PositionAssumption DEF Position

LEMMA TypeStep ==
  ASSUME TypeOK, [Next]_vars
  PROVE  TypeOK'
<1>1. ASSUME NEW v \in Value, Save(v)
      PROVE  TypeOK'
  <2>1. fd' \in [pos : Position, need_flash_init : BOOLEAN, data : Value]
    BY <1>1, NextPosTyped DEF Save, TypeOK
  <2>2. behind' \in 0 .. MAX_BEHIND
    BY <1>1, BehindAssumption DEF Save, TypeOK
  <2>3. first' \in BOOLEAN
    BY <1>1 DEF Save, TypeOK
  <2> QED
    BY <1>1, <2>1, <2>2, <2>3 DEF Save, TypeOK
<1>2. CASE ApApply
  <2>1. Byte(fd.pos) \in Uint8
    BY ByteTyped, PositionIsNat DEF TypeOK
  <2>2. ap' \in [applied : Uint8, using : Value \cup {Manual}, known : Uint8]
    BY <1>2, <2>1 DEF ApApply, TypeOK
  <2> QED
    BY <1>2, <2>2 DEF ApApply, TypeOK
<1>3. CASE NodeApply
  BY <1>3 DEF NodeApply, TypeOK
<1>4. CASE Adjust
  BY <1>4 DEF Adjust, TypeOK
<1>5. CASE IdleSync
  <2>1. Byte(fd.pos) \in Uint8
    BY ByteTyped, PositionIsNat DEF TypeOK
  <2>2. [pos |-> Byte(fd.pos), data |-> fd.data] \in [pos : Uint8, data : Value]
    BY <2>1 DEF TypeOK
  <2> QED
    BY <1>5, <2>2 DEF IdleSync, TypeOK
<1>6. CASE Execute
  <2>1. PICK r \in request :
          /\ node' = Updated(r)
          /\ response' = IF screen = "welcome" THEN {r.pos} ELSE {}
    BY <1>6 DEF Execute
  <2>2. r \in [pos : Uint8, data : Value]
    BY DEF TypeOK
  <2>3. node' \in [data : Value, pos : Uint8, applied : Uint8, using : Value]
    BY <2>1, <2>2 DEF Updated, TypeOK
  <2>4. response' \in {{}} \cup {{p} : p \in Uint8}
    BY <2>1, <2>2
  <2> QED
    BY <1>6, <2>3, <2>4 DEF Execute, TypeOK
<1>7. CASE Respond
  <2>1. 0 \in 0 .. MAX_BEHIND
    BY BehindAssumption
  <2> QED
    BY <1>7, <2>1 DEF Respond, TypeOK
<1>8. CASE Navigate
  BY <1>8 DEF Navigate, TypeOK
<1>9. 0 \in Uint8
  BY PositionAssumption DEF Uint8
<1>10. CASE NodeRestart
  BY <1>9, <1>10, ValueAssumption DEF NodeRestart, NodeStarted, TypeOK
<1>11. CASE ApReset \/ NodeReset
  BY <1>9, <1>11 DEF ApReset, NodeReset, TypeOK
<1>12. CASE ApRestart
  <2>1. ASSUME NEW r \in request
        PROVE  Updated(r) \in [data : Value, pos : Uint8, applied : Uint8, using : Value]
    BY ZenonT(30) DEF Updated, TypeOK
  <2>2. node' \in [data : Value, pos : Uint8, applied : Uint8, using : Value]
    BY <1>12, <2>1 DEF ApRestart, TypeOK
  <2> QED
    BY <1>9, <1>12, <2>2, ValueAssumption DEF ApRestart, ApStarted, TypeOK
<1>13. CASE UNCHANGED vars
  BY <1>13 DEF vars, TypeOK
<1> QED
  BY <1>1, <1>2, <1>3, <1>4, <1>5, <1>6, <1>7, <1>8, <1>10, <1>11, <1>12, <1>13 DEF Next

\* Positions stay in the store's range and in eight bits elsewhere.
THEOREM TypeCorrect == Spec => []TypeOK
<1>1. ASSUME Init
      PROVE  TypeOK
  <2>1. 0 \in Uint8 /\ BASE_POS \in Position /\ 0 \in 0 .. MAX_BEHIND
    BY PositionAssumption, BehindAssumption DEF Uint8, Position
  <2>2. fd \in [pos : Position, need_flash_init : BOOLEAN, data : Value]
    BY <1>1, <2>1, FreshAssumption DEF Init
  <2> QED
    BY <1>1, <2>1, <2>2, ValueAssumption DEF Init, TypeOK, ApStarted, NodeStarted
<1>2. TypeOK /\ [Next]_vars => TypeOK'
  BY TypeStep
<1> QED
  BY <1>1, <1>2, PTL DEF Spec

-----------------------------------------------------------------------------
\* What is applied is known by its position, and once that is out of date it is so
\* until the next apply_config_screen_data; but for the first record of an empty
\* store, in whose place the default may be in use.
AppliedInv ==
  /\ EmptyIsDefault
  /\ ~unapplied => /\ ap.applied = Byte(fd.pos)
                   /\ ap.using \in {fd.data, Manual} \/ (first /\ ap.using = Default)
  /\ unapplied => ap.applied # fd.pos \/ (first /\ ap.using \in {Default, Manual})

LEMMA NewPosition ==
  ASSUME TypeOK, Distinct, ~fd.need_flash_init
  PROVE  NextPos # Byte(fd.pos)
<1>1. Byte(fd.pos) \in Nat /\ Byte(fd.pos) <= fd.pos /\ fd.pos \in Position
  <2>1. fd.pos \in Position /\ fd.pos \in Nat
    BY PositionIsNat DEF TypeOK
  <2>2. Byte(fd.pos) \in Uint8 /\ Byte(fd.pos) <= fd.pos
    BY <2>1, ByteTyped
  <2> QED
    BY <2>1, <2>2 DEF Uint8
<1>2. CASE fd.pos < MAX_POS
  BY <1>1, <1>2, PositionAssumption DEF NextPos, Position
<1>3. CASE ~(fd.pos < MAX_POS)
  <2>1. fd.pos = MAX_POS
    BY <1>1, <1>3, PositionAssumption DEF Position
  <2> QED
    BY <1>3, <2>1 DEF NextPos, Distinct
<1> QED
  BY <1>2, <1>3

LEMMA EmptyStep ==
  ASSUME TypeOK, EmptyIsDefault, [Next]_vars
  PROVE  EmptyIsDefault'
<1>1. CASE \E v \in Value : Save(v)
  BY <1>1 DEF Save, EmptyIsDefault
<1>2. CASE UNCHANGED fd
  BY <1>2 DEF EmptyIsDefault
<1> QED
  BY <1>1, <1>2 DEF Next, vars, ApApply, NodeApply, Adjust, IdleSync, Execute, Respond,
     Navigate, NodeRestart, ApReset, ApRestart, NodeReset

LEMMA AppliedStep ==
  ASSUME Distinct, TypeOK, AppliedInv, [Next]_vars
  PROVE  AppliedInv'
<1>0. EmptyIsDefault'
  BY EmptyStep DEF AppliedInv
<1>1. ASSUME NEW v \in Value, Save(v)
      PROVE  AppliedInv'
  <2>1. /\ fd'.pos = NextPos /\ ap' = ap /\ unapplied' /\ first' = fd.need_flash_init
        /\ ~unapplied
    BY <1>1 DEF Save
  <2>2. CASE ~fd.need_flash_init
    <3>1. ap.applied = Byte(fd.pos) /\ NextPos # Byte(fd.pos)
      BY <2>1, <2>2, NewPosition DEF AppliedInv
    <3> QED
      BY <1>0, <2>1, <3>1 DEF AppliedInv
  <2>3. CASE fd.need_flash_init
    <3>1. fd.data = Default
      BY <2>3 DEF AppliedInv, EmptyIsDefault
    <3>2. ap.using \in {Default, Manual}
      BY <2>1, <3>1 DEF AppliedInv
    <3> QED
      BY <1>0, <2>1, <2>3, <3>2 DEF AppliedInv
  <2> QED
    BY <2>2, <2>3 DEF TypeOK
<1>2. CASE ApApply
  <2>1. UNCHANGED <<fd, first>> /\ ~unapplied'
    BY <1>2 DEF ApApply
  <2>2. CASE ap.applied # fd.pos
    <3>1. ap' = [ap EXCEPT !.using = fd.data, !.applied = Byte(fd.pos)]
      BY <1>2, <2>2 DEF ApApply
    <3>2. ap'.applied = Byte(fd.pos) /\ ap'.using = fd.data
      BY <3>1 DEF TypeOK
    <3> QED
      BY <1>0, <2>1, <3>2 DEF AppliedInv
  <2>3. CASE ap.applied = fd.pos
    <3>1. ap' = ap /\ unapplied
      BY <1>2, <2>3 DEF ApApply
    <3>2. first /\ ap.using \in {Default, Manual}
      BY <2>3, <3>1 DEF AppliedInv
    <3>3. Byte(fd.pos) = fd.pos
      <4>1. ap.applied \in Uint8
        BY DEF TypeOK
      <4> QED
        BY <2>3, <4>1, PositionAssumption DEF Uint8, Byte
    <3> QED
      BY <1>0, <2>1, <2>3, <3>1, <3>2, <3>3 DEF AppliedInv
  <2> QED
    BY <2>2, <2>3
<1>3. CASE Adjust
  <2>1. /\ ap'.applied = ap.applied /\ ap'.using = Manual
        /\ UNCHANGED <<fd, unapplied, first>>
    BY <1>3 DEF Adjust, TypeOK
  <2> QED
    BY <1>0, <2>1 DEF AppliedInv
<1>4. CASE NodeApply \/ IdleSync \/ Execute \/ Navigate \/ NodeRestart \/ NodeReset
  <2>1. UNCHANGED <<fd, ap, unapplied, first>>
    BY <1>4 DEF NodeApply, IdleSync, Execute, Navigate, NodeRestart, NodeReset
  <2> QED
    BY <1>0, <2>1 DEF AppliedInv
<1>5. CASE Respond \/ ApReset
  <2>1. ap'.applied = ap.applied /\ ap'.using = ap.using /\ UNCHANGED <<fd, unapplied, first>>
    BY <1>5 DEF Respond, ApReset, TypeOK
  <2> QED
    BY <1>0, <2>1 DEF AppliedInv
<1>6. CASE ApRestart
  <2>1. fd.pos # 0
    BY PositionAssumption DEF TypeOK, Position
  <2> QED
    BY <1>0, <1>6, <2>1 DEF ApRestart, ApStarted, AppliedInv
<1>7. CASE UNCHANGED vars
  BY <1>0, <1>7 DEF vars, AppliedInv
<1> QED
  BY <1>1, <1>2, <1>3, <1>4, <1>5, <1>6, <1>7 DEF Next

\* core1.c:430 "apply any new configs": after apply_config_screen_data the AP uses what
\* it last saved or loaded, unless it was adjusted since; only in place of the first
\* record of a store that was empty it may use the default.  This holds for any geometry
\* in which the eight bits of the last position are not the first position.
THEOREM SavedIsUsed ==
  ASSUME Distinct
  PROVE  Spec => []AppliedIsCurrent
<1>1. ASSUME Init
      PROVE  AppliedInv
  <2>1. EmptyIsDefault
    BY <1>1 DEF Init, EmptyIsDefault
  <2>2. fd.pos = BASE_POS /\ unapplied = TRUE /\ ap.applied = 0 /\ BASE_POS # 0
    BY <1>1, PositionAssumption DEF Init, ApStarted
  <2> QED
    BY <2>1, <2>2 DEF AppliedInv
<1>2. TypeOK /\ AppliedInv /\ [Next]_vars => AppliedInv'
  BY AppliedStep
<1>3. AppliedInv => AppliedIsCurrent
  BY DEF AppliedInv, AppliedIsCurrent
<1> QED
  BY <1>1, <1>2, <1>3, TypeCorrect, PTL DEF Spec

-----------------------------------------------------------------------------
(* What the AP believes the node has *)

Length == MAX_POS - BASE_POS + 1

\* The position n saves ago.
Before(p, n) == IF p - n >= BASE_POS THEN p - n ELSE p - n + Length

\* Between two confirmations there are too few saves for a position to come round to
\* the low eight bits of the one confirmed (in the code 2040 % 256 = 248).
FewBehind == MAX_BEHIND < Length % WIDTH

\* The request and the response under way are about the present record, and what the
\* AP knows is the position it had at the last confirmation, since which it took
\* behind more.  None of this is so while the AP has yet to notice a restart.
KnownInv ==
  /\ EmptyIsDefault
  /\ \A r \in request : r = [pos |-> Byte(fd.pos), data |-> fd.data]
  /\ \A p \in response : screen = "welcome" /\ p = Byte(fd.pos)
  /\ "ap" \notin stale =>
       /\ response # {} => node.data = fd.data
       /\ ap.known # 0 =>
            /\ ap.known = Byte(Before(fd.pos, behind))
            /\ behind = 0 => node.data = fd.data \/ (first /\ node.data = Default)
  /\ "node" \in stale => stale = {"node"} /\ ap.known = 0 /\ response = {}

\* There is no multiple of W between 0 and W.
LEMMA NoMultiple ==
  ASSUME NEW W \in Nat \ {0}, NEW k \in Int, NEW d \in Int, 0 < d, d < W
  PROVE  W * k # d
<1>1. CASE k >= 1
  <2>1. W * k >= W
    BY <1>1, Z3
  <2> QED
    BY <2>1
<1>2. CASE k <= 0
  <2>1. W * k <= 0
    BY <1>2, Z3
  <2> QED
    BY <2>1
<1> QED
  BY <1>1, <1>2

LEMMA DivMod ==
  ASSUME NEW W \in Nat \ {0}, NEW n \in Nat
  PROVE  /\ n = W * (n \div W) + (n % W)
         /\ n % W \in 0 .. W - 1
         /\ n \div W \in Int
OBVIOUS

LEMMA BeforeTyped ==
  ASSUME NEW p \in Position, NEW n \in 0 .. MAX_BEHIND
  PROVE  Before(p, n) \in Position
BY PositionAssumption, BehindAssumption DEF Before, Position, Length

\* A save moves on by one.
LEMMA BeforeNext ==
  ASSUME TypeOK, ~fd.need_flash_init, behind < MAX_BEHIND
  PROVE  Before(NextPos, behind + 1) = Before(fd.pos, behind)
<1>1. fd.pos \in BASE_POS .. MAX_POS /\ behind \in 0 .. MAX_BEHIND
  BY DEF TypeOK, Position
<1>2. CASE fd.pos < MAX_POS
  <2>1. NextPos = fd.pos + 1
    BY <1>2 DEF NextPos
  <2> QED
    BY <1>1, <2>1, PositionAssumption, BehindAssumption DEF Before, Length
<1>3. CASE ~(fd.pos < MAX_POS)
  <2>1. NextPos = BASE_POS /\ fd.pos = MAX_POS
    BY <1>1, <1>3, PositionAssumption DEF NextPos
  <2> QED
    BY <1>1, <2>1, PositionAssumption, BehindAssumption DEF Before, Length
<1> QED
  BY <1>2, <1>3

\* A position with some saves since is told apart from the present one.
LEMMA ToldApart ==
  ASSUME FewBehind, NEW p \in Position, NEW n \in 1 .. MAX_BEHIND
  PROVE  Byte(Before(p, n)) # p
<1> DEFINE q == Before(p, n)
<1>1. p \in Nat /\ n \in Nat /\ n >= 1 /\ n <= MAX_BEHIND /\ MAX_BEHIND \in Nat
  BY BehindAssumption, PositionIsNat
<1>2. WIDTH \in Nat \ {0}
  BY PositionAssumption
<1>3. Length \in Nat
  BY PositionAssumption DEF Length
<1>4. CASE p - n >= BASE_POS
  <2>1. q = p - n /\ q \in Nat /\ q < p
    BY <1>1, <1>4, PositionAssumption DEF Before
  <2>2. Byte(q) <= q /\ Byte(q) \in Nat
    BY <2>1, ByteTyped, PositionAssumption DEF Uint8
  <2> QED
    BY <1>1, <2>1, <2>2 DEF Position
<1>5. CASE ~(p - n >= BASE_POS)
  <2>1. q = p - n + Length /\ q \in Nat
    <3>1. n \in 0 .. MAX_BEHIND
      BY <1>1
    <3> QED
      BY <1>5, <3>1, BeforeTyped, PositionIsNat DEF Before
  <2> HIDE DEF q
  <2> SUFFICES ASSUME Byte(q) = p
               PROVE  FALSE
    BY DEF q
  <2>2. q \div WIDTH \in Int /\ q = WIDTH * (q \div WIDTH) + p
    BY <1>2, <2>1, DivMod DEF Byte
  <2>3. /\ Length \div WIDTH \in Int /\ Length % WIDTH \in 0 .. WIDTH - 1
        /\ Length = WIDTH * (Length \div WIDTH) + (Length % WIDTH)
    BY <1>2, <1>3, DivMod
  <2> DEFINE a == q \div WIDTH
             b == Length \div WIDTH
             r == Length % WIDTH
  <2>4. a \in Int /\ b \in Int /\ r \in 0 .. WIDTH - 1 /\ MAX_BEHIND < r
    BY <2>2, <2>3 DEF FewBehind
  <2>5. q = WIDTH * a + p /\ Length = WIDTH * b + r
    BY <2>2, <2>3
  <2> HIDE DEF a, b, r
  <2>6. WIDTH * (a - b) = WIDTH * a - WIDTH * b
    BY <1>2, <2>4, Z3
  <2>7. WIDTH * a \in Int /\ WIDTH * b \in Int
    BY <1>2, <2>4
  <2>8. WIDTH * (a - b) = r - n
    BY <1>1, <1>3, <2>1, <2>4, <2>5, <2>6, <2>7
  <2> QED
    BY <1>1, <1>2, <2>4, <2>8, NoMultiple
<1> QED
  BY <1>4, <1>5

LEMMA KnownInit ==
  ASSUME Init
  PROVE  KnownInv
<1>1. EmptyIsDefault
  BY DEF Init, EmptyIsDefault
<1>2. ap.known = 0 /\ request = {} /\ response = {} /\ stale = {}
  BY DEF Init, ApStarted
<1> QED
  BY <1>1, <1>2 DEF KnownInv

LEMMA KnownStep ==
  ASSUME TypeOK, KnownInv, [Next]_vars
  PROVE  KnownInv'
<1>0. EmptyIsDefault'
  BY EmptyStep DEF KnownInv
<1>1. ASSUME NEW v \in Value, Save(v)
      PROVE  KnownInv'
  <2>1. /\ fd'.pos = NextPos /\ first' = fd.need_flash_init
        /\ request' = {} /\ behind' = IF fd.need_flash_init THEN behind ELSE behind + 1
        /\ UNCHANGED <<ap, node, screen, response, stale>>
        /\ screen = "config" /\ stale = {} /\ behind < MAX_BEHIND
    BY <1>1 DEF Save
  <2>2. response = {}
    BY <2>1 DEF KnownInv
  <2>3. CASE ~fd.need_flash_init
    <3>1. Before(fd'.pos, behind') = Before(fd.pos, behind)
      BY <2>1, <2>3, BeforeNext
    <3>2. behind' # 0
      BY <2>1, <2>3, BehindAssumption DEF TypeOK
    <3> QED
      BY <1>0, <2>1, <2>2, <3>1, <3>2 DEF KnownInv
  <2>4. CASE fd.need_flash_init
    <3>1. fd'.pos = fd.pos /\ behind' = behind /\ first' /\ fd.data = Default
      BY <2>1, <2>4 DEF NextPos, KnownInv, EmptyIsDefault
    <3>2. ap.known # 0 =>
            ap.known = Byte(Before(fd.pos, behind)) /\ (behind = 0 => node.data = Default)
      BY <2>1, <3>1 DEF KnownInv
    <3> QED
      BY <1>0, <2>1, <2>2, <3>1, <3>2 DEF KnownInv
  <2> QED
    BY <2>3, <2>4 DEF TypeOK
<1>2. CASE ApApply
  <2>1. ap'.known = ap.known
    BY <1>2 DEF ApApply, TypeOK
  <2> QED
    BY <1>0, <1>2, <2>1 DEF ApApply, KnownInv
<1>3. CASE NodeApply
  <2>1. node'.data = node.data
    BY <1>3 DEF NodeApply, TypeOK
  <2> QED
    BY <1>0, <1>3, <2>1 DEF NodeApply, KnownInv
<1>4. CASE Adjust
  <2>1. ap'.known = ap.known
    BY <1>4 DEF Adjust, TypeOK
  <2> QED
    BY <1>0, <1>4, <2>1 DEF Adjust, KnownInv
<1>5. CASE IdleSync
  BY <1>0, <1>5 DEF IdleSync, KnownInv
<1>6. CASE Execute
  <2>1. PICK r \in request :
          /\ node' = Updated(r)
          /\ response' = IF screen = "welcome" THEN {r.pos} ELSE {}
    BY <1>6 DEF Execute
  <2>2. r = [pos |-> Byte(fd.pos), data |-> fd.data]
    BY DEF KnownInv
  <2>3. node'.data = fd.data
    BY <2>1, <2>2 DEF Updated, TypeOK
  <2>4. \A p \in response' : screen = "welcome" /\ p = Byte(fd.pos)
    BY <2>1, <2>2
  <2>5. request' = {} /\ stale = {} /\ UNCHANGED <<fd, ap, screen, stale, behind, first>>
    BY <1>6 DEF Execute, MayExecute
  <2> QED
    BY <1>0, <2>3, <2>4, <2>5 DEF KnownInv
<1>7. CASE Respond
  <2>1. PICK p \in response : ap' = [ap EXCEPT !.known = p]
    BY <1>7 DEF Respond
  <2>2. ap'.known = Byte(fd.pos)
    BY <2>1 DEF KnownInv, TypeOK
  <2>3. behind' = 0 /\ response' = {} /\ UNCHANGED <<fd, node, screen, request, stale>>
    BY <1>7 DEF Respond
  <2>4. Before(fd.pos, 0) = fd.pos
    BY PositionAssumption DEF Before, TypeOK, Position
  <2>5. "ap" \notin stale => node.data = fd.data
    BY <2>1 DEF KnownInv
  <2>6. "node" \notin stale
    BY <2>1 DEF KnownInv
  <2> QED
    BY <1>0, <2>2, <2>3, <2>4, <2>5, <2>6 DEF KnownInv
<1>8. CASE Navigate
  BY <1>0, <1>8 DEF Navigate, KnownInv
<1>9. CASE NodeRestart
  BY <1>0, <1>9 DEF NodeRestart, KnownInv
<1>10. CASE ApReset
  <2>1. ap'.known = 0 /\ request' = {} /\ response' = {} /\ fd' = fd
    BY <1>10 DEF ApReset, TypeOK
  <2>2. "node" \notin stale'
    BY <1>10 DEF ApReset, KnownInv
  <2> QED
    BY <1>0, <2>1, <2>2 DEF KnownInv
<1>11. CASE ApRestart
  BY <1>0, <1>11 DEF ApRestart, ApStarted, KnownInv
<1>12. CASE NodeReset
  BY <1>0, <1>12 DEF NodeReset, KnownInv
<1>13. CASE UNCHANGED vars
  BY <1>0, <1>13 DEF vars, KnownInv
<1> QED
  BY <1>1, <1>2, <1>3, <1>4, <1>5, <1>6, <1>7, <1>8, <1>9, <1>10, <1>11, <1>12, <1>13
     DEF Next

LEMMA KnownIsHeld ==
  ASSUME TypeOK, KnownInv, FewBehind
  PROVE  KnownMeansHeld
<1> SUFFICES ASSUME stale = {}, ap.known = fd.pos
             PROVE  node.data = fd.data \/ (first /\ node.data = Default)
  BY DEF KnownMeansHeld
<1>1. fd.pos \in Position /\ behind \in 0 .. MAX_BEHIND
  BY DEF TypeOK
<1>2. fd.pos # 0
  BY <1>1, PositionAssumption DEF Position
<1>3. Byte(Before(fd.pos, behind)) = fd.pos
  BY <1>2 DEF KnownInv
<1>4. behind \notin 1 .. MAX_BEHIND
  BY <1>1, <1>3, ToldApart
<1>5. behind = 0
  BY <1>1, <1>4, BehindAssumption
<1> QED
  BY <1>2, <1>5 DEF KnownInv

\* screen_model.c compares the position of a record with the one the node last
\* confirmed: when the AP sees nothing left to send, the node has the AP's record; only
\* in place of the first record of a store that was empty it may have the default.  This
\* holds for positions of any width, if the AP takes fewer positions between two
\* confirmations than it takes to come round to the same eight bits.
THEOREM NothingLeftToSend ==
  ASSUME FewBehind
  PROVE  Spec => []KnownMeansHeld
<1>1. Init => KnownInv
  BY KnownInit
<1>2. TypeOK /\ KnownInv /\ [Next]_vars => KnownInv'
  BY KnownStep
<1>3. TypeOK /\ KnownInv => KnownMeansHeld
  BY KnownIsHeld
<1> QED
  BY <1>1, <1>2, <1>3, TypeCorrect, PTL DEF Spec

-----------------------------------------------------------------------------
(* What the user or idleness has set *)

\* After apply_config_screen_data the position applied is the record's.
PositionApplied == ~unapplied => ap.applied = Byte(fd.pos)

LEMMA PositionAppliedStep ==
  ASSUME TypeOK, PositionApplied, [Next]_vars
  PROVE  PositionApplied'
<1>1. CASE \E v \in Value : Save(v)
  BY <1>1 DEF Save, PositionApplied
<1>2. CASE ApApply
  <2>1. CASE ap.applied # fd.pos
    <3>1. ap' = [ap EXCEPT !.using = fd.data, !.applied = Byte(fd.pos)]
      BY <1>2, <2>1 DEF ApApply
    <3>2. ap'.applied = Byte(fd.pos)
      BY <3>1 DEF TypeOK
    <3> QED
      BY <1>2, <3>2 DEF ApApply, PositionApplied
  <2>2. CASE ap.applied = fd.pos
    <3>1. ap' = ap /\ fd' = fd
      BY <1>2, <2>2 DEF ApApply
    <3>2. Byte(fd.pos) = fd.pos
      <4>1. ap.applied \in Uint8
        BY DEF TypeOK
      <4> QED
        BY <2>2, <4>1, PositionAssumption DEF Uint8, Byte
    <3> QED
      BY <2>2, <3>1, <3>2 DEF PositionApplied
  <2> QED
    BY <2>1, <2>2
<1>3. CASE Adjust \/ Respond \/ ApReset
  BY <1>3 DEF Adjust, Respond, ApReset, PositionApplied, TypeOK
<1>4. CASE NodeApply \/ IdleSync \/ Execute \/ Navigate \/ NodeRestart \/ NodeReset
  BY <1>4 DEF NodeApply, IdleSync, Execute, Navigate, NodeRestart, NodeReset, PositionApplied
<1>5. CASE ApRestart
  BY <1>5 DEF ApRestart, PositionApplied
<1>6. CASE UNCHANGED vars
  BY <1>6 DEF vars, PositionApplied
<1> QED
  BY <1>1, <1>2, <1>3, <1>4, <1>5, <1>6 DEF Next

LEMMA PositionAppliedAlways == Spec => [](TypeOK /\ PositionApplied)
<1>1. Init => PositionApplied
  BY DEF Init, PositionApplied
<1>2. TypeOK /\ PositionApplied /\ [Next]_vars => PositionApplied'
  BY PositionAppliedStep
<1> QED
  BY <1>1, <1>2, TypeCorrect, PTL DEF Spec

\* A step that overrides what the user or idleness has set.
Overrides == ap.using = Manual /\ ap.using' # Manual

LEMMA OverrideStep ==
  ASSUME TypeOK, PositionApplied, [Next]_vars, fd.pos < WIDTH, Overrides
  PROVE  unapplied \/ ap' = ApStarted
<1>1. CASE ApApply
  <2>1. SUFFICES ASSUME ~unapplied
                 PROVE  FALSE
    OBVIOUS
  <2>2. fd.pos \in Nat
    BY PositionIsNat DEF TypeOK
  <2>3. Byte(fd.pos) = fd.pos
    BY <2>2, PositionAssumption DEF Byte
  <2> QED
    BY <1>1, <2>1, <2>3 DEF ApApply, PositionApplied
<1>2. CASE ApRestart
  BY <1>2 DEF ApRestart
<1>3. CASE Adjust \/ Respond \/ ApReset
  <2>1. ap'.using \in {Manual, ap.using}
    BY <1>3 DEF Adjust, Respond, ApReset, TypeOK
  <2> QED
    BY <2>1 DEF Overrides
<1>4. CASE \/ \E v \in Value : Save(v)
           \/ NodeApply \/ IdleSync \/ Execute \/ Navigate \/ NodeRestart \/ NodeReset
           \/ UNCHANGED vars
  <2>1. ap' = ap
    BY <1>4 DEF Save, NodeApply, IdleSync, Execute, Navigate, NodeRestart, NodeReset, vars
  <2> QED
    BY <2>1 DEF Overrides
<1> QED
  BY <1>1, <1>2, <1>3, <1>4 DEF Next

\* data_model.h:36 "apply configs (all) @ on demand": while the position fits in eight
\* bits, what the user or idleness has set is overridden only by a new save or load.
THEOREM AdjustmentHoldsInAByte == Spec => AdjustmentHolds
<1>1. ASSUME TypeOK, PositionApplied, [Next]_vars
      PROVE  [fd.pos < WIDTH /\ ap.using = Manual /\ ap.using' # Manual
                => unapplied \/ ap' = ApStarted]_vars
  BY <1>1, OverrideStep DEF Overrides
<1> QED
  BY <1>1, PositionAppliedAlways, PTL DEF AdjustmentHolds, Spec

=============================================================================
