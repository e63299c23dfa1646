--------------------------- MODULE FlashStoreProofs ---------------------------
(***************************************************************************)
(* The invariants of FlashStore hold for a page, a byte and a sector of    *)
(* any size.  They follow from IInv, which adds to them what a save in     *)
(* progress has done so far and that the rest of the current sector is     *)
(* erased.  With it FlashStore keeps the promise of DurableSetting: each   *)
(* flash command is a step of the promise, or leaves what it speaks of     *)
(* alone.                                                                  *)
(***************************************************************************)
EXTENDS FlashStoreRefinement, TLAPS

-----------------------------------------------------------------------------
(* Arithmetic *)

\* A multiple of S strictly between -S and S is 0.
LEMMA SmallMultiple ==
  ASSUME NEW S \in Nat \ {0}, NEW d \in Int, S * d < S, -S < S * d
  PROVE  d = 0
<1>1. CASE d >= 1
  <2>1. S * d >= S
    BY <1>1, Z3
  <2> QED
    BY <1>1, <2>1
<1>2. CASE d <= -1
  <2>1. S * d <= -S
    BY <1>2, Z3
  <2> QED
    BY <1>2, <2>1
<1> QED
  BY <1>1, <1>2

LEMMA DivMod ==
  ASSUME NEW S \in Nat \ {0}, NEW x \in Nat
  PROVE  /\ x = S * (x \div S) + (x % S)
         /\ x % S \in 0 .. S - 1
         /\ x \div S \in Int
OBVIOUS

\* Two numbers with no multiple of S between them have the same quotient.
LEMMA NoStartBetween ==
  ASSUME NEW S \in Nat \ {0}, NEW x \in Nat, NEW y \in Nat, x < y,
         \A r \in x + 1 .. y : r % S # 0
  PROVE  x \div S = y \div S
<1> DEFINE a == x \div S
           b == y \div S
           m == S * b
<1>1. x = S * a + (x % S) /\ x % S \in 0 .. S - 1 /\ a \in Int
  BY DivMod
<1>2. y = S * b + (y % S) /\ y % S \in 0 .. S - 1 /\ b \in Int
  BY DivMod
<1>3. m \in Int /\ m <= y /\ y < m + S
  BY <1>2, Z3
<1>4. m % S = 0
  <2>1. b >= 0
    <3>1. b <= -1 => S * b <= -S
      BY <1>2, Z3
    <3> QED
      BY <1>2, <1>3, <3>1
  <2>2. m \in Nat
    BY <1>2, <2>1, Z3
  <2>3. m = S * (m \div S) + (m % S) /\ m % S \in 0 .. S - 1 /\ m \div S \in Int
    BY <2>2, DivMod
  <2> DEFINE d == b - (m \div S)
             r == m % S
  <2> HIDE DEF r, a, b
  <2>4. d \in Int /\ S * d = r
    BY <1>2, <2>3, Z3 DEF r
  <2>5. d = 0
    <3> HIDE DEF d
    <3>1. r \in 0 .. S - 1
      BY <2>3 DEF r
    <3> QED
      BY <2>4, <3>1, SmallMultiple
  <2> QED
    BY <2>4, <2>5 DEF r
<1>5. m <= x
  BY <1>3, <1>4
<1> HIDE DEF a, b
<1>6. S * (b - a) < S /\ -S < S * (b - a)
  <2>1. S * (b - a) = S * b - S * a
    BY <1>1, <1>2, Z3
  <2> QED
    BY <1>1, <1>3, <1>5, <2>1
<1>7. b - a = 0
  BY <1>1, <1>2, <1>6, SmallMultiple
<1> QED
  BY <1>1, <1>2, <1>7 DEF a, b

\* A multiple of S ends a sector: the number before it has another quotient.
LEMMA StartsSector ==
  ASSUME NEW S \in Nat \ {0}, NEW x \in Nat \ {0}, x % S = 0
  PROVE  (x - 1) \div S # x \div S
<1>1. x = S * (x \div S) + (x % S)
  BY DivMod
<1>2. /\ x - 1 = S * ((x - 1) \div S) + ((x - 1) % S)
      /\ (x - 1) % S \in 0 .. S - 1
  <2>1. x - 1 \in Nat
    OBVIOUS
  <2> QED
    BY <2>1, DivMod
<1> QED
  BY <1>1, <1>2

\* The first position is not the last one.
LEMMA Bounds ==
  /\ BASE_POS \in Nat /\ BASE_POS >= 1
  /\ MAX_POS \in Nat  /\ BASE_POS <= MAX_POS
  /\ SECTOR_SLOTS \in Nat /\ BASE_POS < SECTOR_SLOTS
  /\ BYTE_BITS \in Nat /\ BYTE_BITS >= 1
<1>1. PAGE_SIZE * BYTE_BITS \in Nat /\ PAGE_SIZE * BYTE_BITS >= 2 * BYTE_BITS
  BY PageSizeAssumption, ByteBitsAssumption, Z3
<1> QED
  BY <1>1, ByteBitsAssumption, SectorAssumption DEF BASE_POS, MAX_POS

\* A run of positions determines its last one.
LEMMA SamePrefix ==
  ASSUME NEW p \in Position, NEW q \in Position, BASE_POS .. p = BASE_POS .. q
  PROVE  p = q
BY Bounds DEF Position

-----------------------------------------------------------------------------
(* The inductive invariant *)

\* Up to the end of p's sector, the cells after p are erased.
ErasedAhead(p) ==
  \A q \in Position :
    p < q /\ (\A r \in p + 1 .. q : r % SECTOR_SLOTS # 0) => cell[q] = Erased

\* The flash on its own: an owned block has a tracker in order.
FlashInv ==
  header = Own => \E p \in Position : used = BASE_POS .. p /\ ErasedAhead(p)

\* Between saves, RAM and flash agree.
ReadyInv ==
  pc = "ready" /\ ~fd.need_flash_init =>
    /\ header = Own
    /\ IF fd.pos \in Position
       THEN used = BASE_POS .. fd.pos /\ cell[fd.pos] = fd.data
       ELSE used = Position

\* A dataset that was not found is saved to the first position.
CreatedInv ==
  /\ fd.need_flash_init => fd.pos = BASE_POS
  /\ pc = "boot" => fd.need_flash_init
  /\ pc \in {"erase", "track", "data"} => ~fd.need_flash_init

\* What a save knows before each of its flash commands.
SaveInv ==
  /\ pc = "erase" => NeedsErase(spos)
  /\ pc \in {"erase", "track"} /\ spos # BASE_POS =>
       header = Own /\ used = BASE_POS .. spos - 1
  /\ pc = "track" /\ spos = BASE_POS => header = Erased /\ used = {}
  /\ pc = "data" => header = Own /\ used = BASE_POS .. spos
  /\ pc \in {"track", "data"} => cell[spos] = Erased /\ ErasedAhead(spos)

IInv == TypeOK /\ FlashInv /\ ReadyInv /\ CreatedInv /\ SaveInv

LEMMA InitIInv == Init => IInv
<1> SUFFICES ASSUME Init PROVE IInv
  OBVIOUS
<1> USE Bounds, ContentAssumption DEF Init, Created
<1>1. TypeOK
  BY DEF TypeOK, Position, Content
<1>2. FlashInv /\ ReadyInv /\ CreatedInv /\ SaveInv
  BY DEF FlashInv, ReadyInv, CreatedInv, SaveInv
<1> QED
  BY <1>1, <1>2 DEF IInv

\* What a save finds right after the erase of its sector.
LEMMA EraseAhead ==
  ASSUME TypeOK, NEW p \in Position, cell' = EraseCells(p)
  PROVE  cell'[p] = Erased /\ ErasedAhead(p)'
<1>1. cell'[p] = Erased
  BY DEF EraseCells
<1>2. ASSUME NEW q \in Position, p < q,
             \A r \in p + 1 .. q : r % SECTOR_SLOTS # 0
      PROVE  cell'[q] = Erased
  <2>1. SECTOR_SLOTS \in Nat \ {0} /\ p \in Nat /\ q \in Nat
    BY Bounds DEF Position
  <2>2. SectorOf(p) = SectorOf(q)
    BY <1>2, <2>1, NoStartBetween DEF SectorOf
  <2> QED
    BY <1>2, <2>2 DEF EraseCells
<1> QED
  BY <1>1, <1>2 DEF ErasedAhead

\* Erasing keeps erased cells erased.
LEMMA EraseKeeps ==
  ASSUME NEW p \in Position, NEW q \in Position, ErasedAhead(q), cell' = EraseCells(p),
         TypeOK
  PROVE  ErasedAhead(q)'
BY DEF ErasedAhead, EraseCells

-----------------------------------------------------------------------------
(* One lemma per action *)

LEMMA LoadStep == IInv /\ flash_store_load => IInv'
<1> SUFFICES ASSUME IInv, flash_store_load PROVE IInv'
  OBVIOUS
<1> USE Bounds, ContentAssumption DEF IInv
<1>1. PICK p \in LoadOutcomes :
        fd' = IF p = NotLoaded
              THEN fd
              ELSE [pos |-> p, need_flash_init |-> FALSE,
                    data |-> IF p \in Position THEN cell[p] ELSE Foreign]
  BY DEF flash_store_load
<1>2. pc = "boot" /\ pc' = "ready" /\ UNCHANGED <<header, used, cell, spos>>
  BY DEF flash_store_load
<1>3. ASSUME p # NotLoaded
      PROVE  /\ header = Own
             /\ p \in BASE_POS .. MAX_POS + BYTE_BITS
             /\ p \in Position => used = BASE_POS .. p
             /\ p \notin Position => used = Position
  <2>1. header = Own
    BY <1>3 DEF LoadOutcomes
  <2>2. CASE used = Position
    <3>1. p \in MAX_POS .. MAX_POS + BYTE_BITS
      BY <1>3, <2>1, <2>2 DEF LoadOutcomes
    <3> QED
      BY <2>1, <2>2, <3>1 DEF Position
  <2>3. CASE used # Position
    <3>1. p \in Position /\ used = BASE_POS .. p
      BY <1>3, <2>1, <2>3 DEF LoadOutcomes
    <3> QED
      BY <2>1, <3>1 DEF Position
  <2> QED
    BY <2>2, <2>3
<1>4. TypeOK'
  BY <1>1, <1>2, <1>3 DEF TypeOK, Content, NotLoaded
<1>5. ReadyInv' /\ CreatedInv'
  BY <1>1, <1>2, <1>3 DEF ReadyInv, CreatedInv, TypeOK, NotLoaded
<1>6. FlashInv'
  BY <1>2 DEF FlashInv, ErasedAhead
<1>7. SaveInv'
  BY <1>2 DEF SaveInv
<1> QED
  BY <1>4, <1>5, <1>6, <1>7

LEMMA SaveStep == ASSUME NEW v \in Version PROVE IInv /\ flash_store_save(v) => IInv'
<1> SUFFICES ASSUME IInv, flash_store_save(v) PROVE IInv'
  OBVIOUS
<1> USE Bounds DEF IInv
<1>1. /\ pc = "ready"
      /\ fd' = [fd EXCEPT !.data = v, !.need_flash_init = FALSE]
      /\ spos' = NextPos
      /\ pc' = IF NeedsErase(NextPos) THEN "erase" ELSE "track"
      /\ UNCHANGED <<header, used, cell>>
  BY DEF flash_store_save, flash
<1>2. NextPos \in Position /\ (NextPos # BASE_POS => ~fd.need_flash_init /\ fd.pos < MAX_POS /\ NextPos = fd.pos + 1)
  BY DEF NextPos, TypeOK, CreatedInv, Position
<1>3. TypeOK'
  BY <1>1, <1>2 DEF TypeOK, Content
<1>4. FlashInv'
  BY <1>1 DEF FlashInv, ErasedAhead
<1>5. ReadyInv' /\ CreatedInv'
  BY <1>1 DEF ReadyInv, CreatedInv, TypeOK
<1>6. ASSUME NextPos # BASE_POS
      PROVE  /\ header = Own /\ used = BASE_POS .. NextPos - 1
             /\ ErasedAhead(NextPos - 1)
             /\ NextPos - 1 \in Position
  <2>1. NextPos - 1 = fd.pos /\ fd.pos \in Position
    BY <1>2, <1>6 DEF TypeOK, Position
  <2>2. header = Own /\ used = BASE_POS .. fd.pos
    BY <1>1, <1>2, <1>6, <2>1 DEF ReadyInv
  <2>3. PICK p \in Position : used = BASE_POS .. p /\ ErasedAhead(p)
    BY <2>2 DEF FlashInv
  <2>4. p = fd.pos
    BY <2>1, <2>2, <2>3, SamePrefix
  <2> QED
    BY <2>1, <2>2, <2>3, <2>4
<1>7. ASSUME ~NeedsErase(NextPos)
      PROVE  cell[NextPos] = Erased /\ ErasedAhead(NextPos)
  <2>1. NextPos # BASE_POS /\ NextPos % SECTOR_SLOTS # 0
    BY <1>7 DEF NeedsErase
  <2>2. ErasedAhead(NextPos - 1)
    BY <1>6, <2>1
  <2>3. \A r \in (NextPos - 1) + 1 .. NextPos : r = NextPos
    BY <1>2 DEF Position
  <2>4. cell[NextPos] = Erased
    BY <1>2, <2>1, <2>2, <2>3 DEF ErasedAhead, Position
  <2>5. ASSUME NEW q \in Position, NextPos < q,
               \A r \in NextPos + 1 .. q : r % SECTOR_SLOTS # 0
        PROVE  cell[q] = Erased
    <3>1. \A r \in (NextPos - 1) + 1 .. q : r = NextPos \/ r \in NextPos + 1 .. q
      BY <1>2 DEF Position
    <3>2. NextPos - 1 < q
      BY <1>2, <2>5 DEF Position
    <3> QED
      BY <2>1, <2>2, <2>5, <3>1, <3>2 DEF ErasedAhead
  <2> QED
    BY <2>4, <2>5 DEF ErasedAhead
<1>8. SaveInv'
  <2>1. ErasedAhead(NextPos) => ErasedAhead(spos)'
    BY <1>1 DEF ErasedAhead
  <2>2. ~NeedsErase(NextPos) => NextPos # BASE_POS
    BY DEF NeedsErase
  <2>3. NeedsErase(NextPos) => NeedsErase(spos')
    BY <1>1
  <2> QED
    BY <1>1, <1>6, <1>7, <2>1, <2>2, <2>3 DEF SaveInv, NeedsErase
<1> QED
  BY <1>3, <1>4, <1>5, <1>8

LEMMA EraseStep == IInv /\ SaveErase => IInv'
<1> SUFFICES ASSUME IInv, SaveErase PROVE IInv'
  OBVIOUS
<1> USE Bounds, ContentAssumption DEF IInv
<1>1. /\ pc = "erase" /\ pc' = "track"
      /\ cell' = EraseCells(spos)
      /\ UNCHANGED <<fd, spos>>
      /\ spos = BASE_POS => header' = Erased /\ used' = {}
      /\ spos # BASE_POS => UNCHANGED <<header, used>>
  BY DEF SaveErase
<1>2. spos \in Position /\ NeedsErase(spos)
  BY <1>1 DEF TypeOK, SaveInv
<1>3. cell'[spos] = Erased /\ ErasedAhead(spos)'
  <2>1. cell'[spos] = Erased /\ \A p \in Position : p = spos => ErasedAhead(p)'
    BY <1>1, <1>2, EraseAhead
  <2> QED
    BY <1>1, <1>2, <2>1 DEF ErasedAhead
<1>4. TypeOK'
  BY <1>1, <1>2 DEF TypeOK, EraseCells, Content
<1>5. FlashInv'
  <2>1. CASE spos = BASE_POS
    BY <1>1, <2>1 DEF FlashInv
  <2>2. CASE spos # BASE_POS
    <3>1. header = Own /\ header' = Own /\ used' = used
      BY <1>1, <2>2 DEF SaveInv
    <3>2. PICK p \in Position : used = BASE_POS .. p /\ ErasedAhead(p)
      BY <3>1 DEF FlashInv
    <3>3. ErasedAhead(p)'
      BY <1>1, <1>2, <3>2, EraseKeeps
    <3> QED
      BY <3>1, <3>2, <3>3 DEF FlashInv
  <2> QED
    BY <2>1, <2>2
<1>6. ReadyInv' /\ CreatedInv'
  BY <1>1 DEF ReadyInv, CreatedInv
<1>7. SaveInv'
  BY <1>1, <1>3 DEF SaveInv
<1> QED
  BY <1>4, <1>5, <1>6, <1>7

LEMMA TrackStep == IInv /\ SaveTrack => IInv'
<1> SUFFICES ASSUME IInv, SaveTrack PROVE IInv'
  OBVIOUS
<1> USE Bounds, ContentAssumption DEF IInv
<1>1. /\ pc = "track" /\ pc' = "data"
      /\ header' = IF spos = BASE_POS THEN Programmed(header, Own) ELSE header
      /\ used' = ClearTrack(spos)
      /\ UNCHANGED <<cell, fd, spos>>
  BY DEF SaveTrack
<1>2. spos \in Position /\ cell[spos] = Erased /\ ErasedAhead(spos)
  BY <1>1 DEF TypeOK, SaveInv
<1>3. header' = Own
  BY <1>1 DEF SaveInv, Programmed
<1>4. used' = BASE_POS .. spos
  <2>1. used = BASE_POS .. spos - 1
    <3>1. CASE spos = BASE_POS
      BY <1>1, <3>1 DEF SaveInv
    <3>2. CASE spos # BASE_POS
      BY <1>1, <3>2 DEF SaveInv
    <3> QED
      BY <3>1, <3>2
  <2>2. \A q : q \in ClearTrack(spos) <=>
           \/ q \in used
           \/ q \in Position /\ q <= spos /\ q \div BYTE_BITS = spos \div BYTE_BITS
    BY DEF ClearTrack
  <2>3. \A q : q \in ClearTrack(spos) => q \in BASE_POS .. spos
    BY <1>2, <2>1, <2>2 DEF Position
  <2>4. \A q : q \in BASE_POS .. spos => q \in ClearTrack(spos)
    <3>1. spos \in ClearTrack(spos)
      BY <1>2, <2>2 DEF Position
    <3>2. \A q \in BASE_POS .. spos : q = spos \/ q \in BASE_POS .. spos - 1
      BY <1>2 DEF Position
    <3> QED
      BY <2>1, <2>2, <3>1, <3>2
  <2> QED
    BY <1>1, <2>3, <2>4
<1>5. ErasedAhead(spos)'
  BY <1>1, <1>2 DEF ErasedAhead
<1>6. TypeOK'
  BY <1>1, <1>2, <1>3, <1>4 DEF TypeOK, Position
<1>7. FlashInv'
  <2>1. \A p : p = spos => (ErasedAhead(p) => ErasedAhead(p)')
    BY <1>1 DEF ErasedAhead
  <2> QED
    BY <1>1, <1>2, <1>4, <2>1 DEF FlashInv
<1>8. ReadyInv' /\ CreatedInv'
  BY <1>1 DEF ReadyInv, CreatedInv
<1>9. SaveInv'
  BY <1>1, <1>2, <1>3, <1>4, <1>5 DEF SaveInv
<1> QED
  BY <1>6, <1>7, <1>8, <1>9

LEMMA DataStep == IInv /\ SaveData => IInv'
<1> SUFFICES ASSUME IInv, SaveData PROVE IInv'
  OBVIOUS
<1> USE Bounds, ContentAssumption DEF IInv
<1>1. /\ pc = "data" /\ pc' = "ready"
      /\ cell' = [cell EXCEPT ![spos] = Programmed(@, fd.data)]
      /\ fd' = [fd EXCEPT !.pos = spos]
      /\ UNCHANGED <<header, used, spos>>
  BY DEF SaveData
<1>2. /\ spos \in Position /\ cell[spos] = Erased /\ ErasedAhead(spos)
      /\ header = Own /\ used = BASE_POS .. spos
  BY <1>1 DEF TypeOK, SaveInv
<1>3. cell' = [cell EXCEPT ![spos] = fd.data]
  BY <1>1, <1>2 DEF Programmed
<1>4. TypeOK'
  BY <1>1, <1>2, <1>3 DEF TypeOK, Position
<1>5. FlashInv'
  <2>1. \A q \in Position : spos < q => cell'[q] = cell[q]
    BY <1>2, <1>3 DEF TypeOK, Position
  <2>2. ErasedAhead(spos)'
    BY <1>1, <1>2, <2>1 DEF ErasedAhead
  <2>3. \A p : p = spos => (ErasedAhead(spos)' => ErasedAhead(p)')
    BY <1>1 DEF ErasedAhead
  <2> QED
    BY <1>1, <1>2, <2>2, <2>3 DEF FlashInv
<1>6. ReadyInv'
  BY <1>1, <1>2, <1>3 DEF ReadyInv, TypeOK
<1>7. CreatedInv'
  BY <1>1 DEF CreatedInv, TypeOK
<1>8. SaveInv'
  BY <1>1 DEF SaveInv
<1> QED
  BY <1>4, <1>5, <1>6, <1>7, <1>8

LEMMA RestartStep == IInv /\ Restart => IInv'
<1> SUFFICES ASSUME IInv, Restart PROVE IInv'
  OBVIOUS
<1> USE Bounds, ContentAssumption DEF IInv, Restart, Created, flash
<1>1. TypeOK'
  BY DEF TypeOK, Position, Content
<1>2. FlashInv' /\ ReadyInv' /\ CreatedInv' /\ SaveInv'
  BY DEF FlashInv, ErasedAhead, ReadyInv, CreatedInv, SaveInv
<1> QED
  BY <1>1, <1>2

LEMMA NextIInv == IInv /\ [Next]_vars => IInv'
<1>1. IInv /\ UNCHANGED vars => IInv'
  BY DEF IInv, vars, TypeOK, FlashInv, ErasedAhead, ReadyInv, CreatedInv, SaveInv, NeedsErase
<1> QED
  BY <1>1, LoadStep, SaveStep, EraseStep, TrackStep, DataStep, RestartStep DEF Next

-----------------------------------------------------------------------------
(* The theorems *)

\* Every state of the flash store satisfies the inductive invariant.
THEOREM Inductive == Spec => []IInv
BY InitIInv, NextIInv, PTL DEF Spec

\* The variables keep their types, whatever is saved and wherever power fails.
THEOREM TypeCorrect == Spec => []TypeOK
<1>1. IInv => TypeOK
  BY DEF IInv
<1> QED
  BY <1>1, Inductive, PTL

\* flash_store_save only ever programs erased flash, in every round and after
\* every interrupted save.
THEOREM AlwaysProgramsErased == Spec => []ProgramsErased
<1>1. IInv => ProgramsErased
  BY DEF IInv, SaveInv, ProgramsErased
<1> QED
  BY <1>1, Inductive, PTL

\* The tracking bits are always cleared in order.
THEOREM AlwaysTrackerInOrder == Spec => []TrackerInOrder
<1>1. IInv => TrackerInOrder
  BY DEF IInv, FlashInv, TrackerInOrder
<1> QED
  BY <1>1, Inductive, PTL

\* Between saves, and before the last position of the block, flash_store_load
\* would find exactly what RAM holds.
THEOREM AlwaysReloadAgrees == Spec => []ReloadAgrees
<1>1. ASSUME IInv, pc = "ready", ~fd.need_flash_init, fd.pos < MAX_POS
      PROVE  LoadOutcomes = {fd.pos} /\ cell[fd.pos] = fd.data
  <2> USE Bounds DEF IInv
  <2>1. fd.pos \in Position
    BY <1>1 DEF TypeOK, Position
  <2>2. header = Own /\ used = BASE_POS .. fd.pos /\ cell[fd.pos] = fd.data
    BY <1>1, <2>1 DEF ReadyInv
  <2>3. used # Position
    BY <1>1, <2>1, <2>2 DEF Position
  <2>4. {p \in Position : used = BASE_POS .. p} = {fd.pos}
    BY <2>1, <2>2, SamePrefix
  <2> QED
    BY <2>2, <2>3, <2>4 DEF LoadOutcomes
<1>2. IInv => ReloadAgrees
  BY <1>1 DEF ReloadAgrees
<1> QED
  BY <1>2, Inductive, PTL

-----------------------------------------------------------------------------
(* The promise *)

\* No promise is in force: the tracker is not the block's own, or has no bit left.
Open == header # Own \/ used = Position

\* The first position is written only when no promise is in force.
OpenInv ==
  /\ pc = "boot" => fd.data = Default
  /\ pc = "ready" /\ fd.need_flash_init => Open
  /\ pc = "erase" /\ spos = BASE_POS => Open

LEMMA OpenStep ==
  ASSUME IInv, OpenInv, [Next]_vars
  PROVE  OpenInv'
<1> USE Bounds
<1>1. CASE flash_store_load
  <2>1. PICK p \in LoadOutcomes :
          fd' = IF p = NotLoaded
                THEN fd
                ELSE [pos |-> p, need_flash_init |-> FALSE,
                      data |-> IF p \in Position THEN cell[p] ELSE Foreign]
    BY <1>1 DEF flash_store_load
  <2>2. pc' = "ready" /\ UNCHANGED <<header, used>>
    BY <1>1 DEF flash_store_load
  <2>3. CASE p = NotLoaded
    <3>1. header # Own \/ used = Position \/ {q \in Position : used = BASE_POS .. q} = {}
      BY <2>3 DEF LoadOutcomes, NotLoaded, Position
    <3>2. header = Own => {q \in Position : used = BASE_POS .. q} # {}
      BY DEF IInv, FlashInv
    <3> QED
      BY <2>2, <3>1, <3>2 DEF OpenInv, Open
  <2>4. CASE p # NotLoaded
    <3>1. ~fd'.need_flash_init
      BY <2>1, <2>4
    <3> QED
      BY <2>2, <3>1 DEF OpenInv
  <2> QED
    BY <2>3, <2>4
<1>2. ASSUME NEW v \in Version, flash_store_save(v)
      PROVE  OpenInv'
  <2>1. pc = "ready" /\ spos' = NextPos /\ pc' \in {"erase", "track"} /\ UNCHANGED <<header, used>>
    BY <1>2 DEF flash_store_save, flash
  <2>2. ASSUME NextPos = BASE_POS
        PROVE  Open
    <3>1. CASE fd.need_flash_init
      BY <2>1, <3>1 DEF OpenInv
    <3>2. CASE ~fd.need_flash_init
      <4>1. fd.pos >= MAX_POS /\ fd.pos \in Int
        BY <2>2, <3>2 DEF NextPos, IInv, TypeOK
      <4>2. header = Own
            /\ IF fd.pos \in Position THEN used = BASE_POS .. fd.pos ELSE used = Position
        BY <2>1, <3>2 DEF IInv, ReadyInv
      <4>3. used = Position
        BY <4>1, <4>2 DEF Position
      <4> QED
        BY <4>3 DEF Open
    <3> QED
      BY <3>1, <3>2
  <2> QED
    BY <2>1, <2>2 DEF OpenInv, Open
<1>3. CASE SaveErase \/ SaveTrack
  BY <1>3 DEF SaveErase, SaveTrack, OpenInv
<1>4. CASE SaveData
  <2>1. pc = "data" /\ pc' = "ready" /\ fd' = [fd EXCEPT !.pos = spos]
    BY <1>4 DEF SaveData
  <2>2. ~fd'.need_flash_init
    BY <2>1 DEF IInv, TypeOK, CreatedInv
  <2> QED
    BY <2>1, <2>2 DEF OpenInv
<1>5. CASE Restart
  BY <1>5 DEF Restart, Created, OpenInv
<1>6. CASE UNCHANGED vars
  BY <1>6 DEF vars, OpenInv, Open
<1> QED
  BY <1>1, <1>2, <1>3, <1>4, <1>5, <1>6 DEF Next

-----------------------------------------------------------------------------
(* What the refinement mapping makes of a tracker *)

Rounds == MAX_POS - BASE_POS + 1

\* A number and what it is modulo a larger or the same one.
LEMMA SmallRemainder ==
  ASSUME NEW S \in Nat \ {0}
  PROVE  /\ \A x \in 0 .. S - 1 : x % S = x
         /\ S % S = 0
BY Z3

\* The number of saves since the tracker was cleared, at its last position p.
AgeAt(p) == IF p < MAX_POS THEN p - BASE_POS + 1 ELSE 0

\* Without a tracker of its own the block holds nothing.
LEMMA NotOwn ==
  ASSUME header # Own
  PROVE  StoredValue = Erased /\ StoredAge = 0
BY DEF StoredValue, StoredAge

\* With one, it holds the content of its last position.
LEMMA Tracked ==
  ASSUME NEW p \in Position, header = Own, used = BASE_POS .. p
  PROVE  StoredValue = ValueOf(cell[p]) /\ StoredAge = AgeAt(p)
<1> USE Bounds
<1>1. \A q \in Position : used = BASE_POS .. q <=> q = p
  BY SamePrefix
<1>2. TrackedCells = {cell[p]}
  BY <1>1 DEF TrackedCells
<1>3. StoredValue = ValueOf(cell[p])
  BY <1>2 DEF StoredValue, ValueOf
<1>4. CASE p < MAX_POS
  <2>1. StoredAge = CHOOSE n \in 1 .. MAX_POS - BASE_POS : used = BASE_POS .. BASE_POS + n - 1
    BY <1>4 DEF StoredAge
  <2>2. ASSUME NEW n \in 1 .. MAX_POS - BASE_POS, used = BASE_POS .. BASE_POS + n - 1
        PROVE  n = p - BASE_POS + 1
    <3>1. BASE_POS + n - 1 \in Position
      BY DEF Position
    <3>2. BASE_POS + n - 1 = p
      BY <1>1, <2>2, <3>1
    <3> QED
      BY <3>2 DEF Position
  <2>3. /\ p - BASE_POS + 1 \in 1 .. MAX_POS - BASE_POS
        /\ BASE_POS + (p - BASE_POS + 1) - 1 = p
    BY <1>4 DEF Position
  <2>4. used = BASE_POS .. BASE_POS + (p - BASE_POS + 1) - 1
    BY <2>3
  <2>5. StoredAge = p - BASE_POS + 1
    BY <2>1, <2>2, <2>3, <2>4
  <2> QED
    BY <1>3, <1>4, <2>5 DEF AgeAt
<1>5. CASE ~(p < MAX_POS)
  BY <1>1, <1>3, <1>5 DEF StoredAge, AgeAt
<1> QED
  BY <1>4, <1>5

\* Both, in any state.
Mapping ==
  /\ header # Own => StoredValue = Erased /\ StoredAge = 0
  /\ \A p \in Position : header = Own /\ used = BASE_POS .. p =>
       StoredValue = ValueOf(cell[p]) /\ StoredAge = AgeAt(p)

LEMMA Mapped == Mapping
BY NotOwn, Tracked DEF Mapping

LEMMA MappedNext == Mapping'
BY Mapped, PTL

\* What is tracked determines what is stored.
LEMMA SameFlash ==
  ASSUME UNCHANGED <<header, used, cell>>
  PROVE  StoredValue' = StoredValue /\ StoredAge' = StoredAge
BY DEF StoredValue, StoredAge, TrackedCells

LEMMA OpenIsZero ==
  ASSUME IInv, Open
  PROVE  StoredAge = 0
<1> USE Bounds
<1>1. CASE header # Own
  BY <1>1, Mapped DEF Mapping
<1>2. CASE header = Own
  <2>1. MAX_POS \in Position /\ used = BASE_POS .. MAX_POS
    BY <1>2 DEF Open, Position
  <2> QED
    BY <1>2, <2>1, Mapped DEF Mapping, AgeAt
<1> QED
  BY <1>1, <1>2

-----------------------------------------------------------------------------
(* The steps *)

LEMMA LoadRefines ==
  ASSUME IInv, OpenInv, flash_store_load
  PROVE  Setting!Start
<1> USE Bounds, ContentAssumption
<1>1. PICK p \in LoadOutcomes :
        fd' = IF p = NotLoaded
              THEN fd
              ELSE [pos |-> p, need_flash_init |-> FALSE,
                    data |-> IF p \in Position THEN cell[p] ELSE Foreign]
  BY DEF flash_store_load
<1>2. /\ pc = "boot" /\ pc' = "ready"
      /\ UNCHANGED <<header, used, cell>>
  BY DEF flash_store_load
<1>3. StoredValue' = StoredValue /\ StoredAge' = StoredAge
  BY <1>2, SameFlash
<1>4. fd.data = Default
  BY <1>2 DEF OpenInv
<1>5. ASSUME ~Open
      PROVE  ValueOf(fd'.data) = StoredValue
  <2>1. PICK q \in Position : used = BASE_POS .. q
    BY <1>5 DEF IInv, FlashInv, Open
  <2>2. \A r \in Position : used = BASE_POS .. r <=> r = q
    BY <2>1, SamePrefix
  <2>3. {r \in Position : used = BASE_POS .. r} = {q}
    BY <2>2
  <2>4. p = q
    BY <1>5, <2>3 DEF LoadOutcomes, Open
  <2>5. fd'.data = cell[q]
    BY <1>1, <2>4 DEF NotLoaded, Position
  <2> QED
    BY <1>5, <2>1, <2>5, Mapped DEF Mapping, Open
<1>6. ASSUME Open
      PROVE  StoredAge = 0 /\ ValueOf(fd'.data) \in {StoredValue, Default, Erased}
  <2>1. StoredAge = 0
    BY <1>6, OpenIsZero
  <2>2. CASE p = NotLoaded
    BY <1>1, <1>4, <2>1, <2>2 DEF ValueOf
  <2>3. CASE p # NotLoaded
    <3>1. header = Own /\ used = Position
      BY <1>6, <2>3 DEF LoadOutcomes, Open
    <3>2. MAX_POS \in Position /\ used = BASE_POS .. MAX_POS
      BY <3>1 DEF Position
    <3>3. p \in MAX_POS .. MAX_POS + BYTE_BITS
      BY <2>3, <3>1 DEF LoadOutcomes
    <3>4. p \in Position => p = MAX_POS
      BY <3>3 DEF Position
    <3>5. fd'.data = IF p \in Position THEN cell[p] ELSE Foreign
      BY <1>1, <2>3
    <3>6. ValueOf(Foreign) = Erased
      BY DEF ValueOf
    <3> QED
      BY <2>1, <3>1, <3>2, <3>4, <3>5, <3>6, Mapped DEF Mapping
  <2> QED
    BY <2>2, <2>3
<1>7. ValueOf(fd'.data) \in IF StoredAge > 0 THEN {StoredValue} ELSE {StoredValue, Default, Erased}
  BY <1>5, <1>6
<1> QED
  BY <1>2, <1>3, <1>7 DEF Setting!Start, Phase, ValueOf

LEMMA SaveRefines ==
  ASSUME IInv, NEW v \in Version, flash_store_save(v)
  PROVE  Setting!Save(v)
<1>1. /\ pc = "ready" /\ pc' \in {"erase", "track"}
      /\ fd' = [fd EXCEPT !.data = v, !.need_flash_init = FALSE]
      /\ UNCHANGED <<header, used, cell>>
  BY DEF flash_store_save, flash
<1>2. StoredValue' = StoredValue /\ StoredAge' = StoredAge
  BY <1>1, SameFlash
<1>3. fd'.data = v /\ ValueOf(v) = v
  BY <1>1 DEF IInv, TypeOK, ValueOf
<1>4. ValueOf(fd.data)' = v
  BY <1>3 DEF ValueOf
<1> QED
  BY <1>1, <1>2, <1>4 DEF Setting!Save, Phase

\* The erase of a sector other than the first does not touch what is tracked.
LEMMA EraseRefines ==
  ASSUME IInv, OpenInv, SaveErase
  PROVE  Setting!Clear \/ UNCHANGED Setting!vars
<1> USE Bounds
<1>1. /\ pc = "erase" /\ pc' = "track" /\ fd' = fd /\ spos' = spos
      /\ cell' = EraseCells(spos) /\ spos \in Position
  BY DEF SaveErase, IInv, TypeOK
<1>2. ValueOf(fd.data)' = ValueOf(fd.data) /\ Phase = "saving" /\ Phase' = "saving"
  BY <1>1 DEF ValueOf, Phase
<1>3. CASE spos = BASE_POS
  <2>1. StoredAge = 0
    BY <1>1, <1>3, OpenIsZero DEF OpenInv
  <2>2. header' # Own
    BY <1>3, ContentAssumption DEF SaveErase
  <2>3. StoredValue' = Erased /\ StoredAge' = 0
    BY <2>2, MappedNext DEF Mapping
  <2> QED
    BY <1>2, <2>1, <2>3 DEF Setting!Clear
<1>4. CASE spos # BASE_POS
  <2>1. header = Own /\ used = BASE_POS .. spos - 1
    BY <1>1, <1>4 DEF IInv, SaveInv
  <2>2. header' = header /\ used' = used
    BY <1>4 DEF SaveErase
  <2>3. spos - 1 \in Position
    BY <1>1, <1>4 DEF Position
  <2>4. cell'[spos - 1] = cell[spos - 1]
    <3>1. spos % SECTOR_SLOTS = 0 /\ SECTOR_SLOTS \in Nat \ {0} /\ spos \in Nat \ {0}
      BY <1>1, <1>4 DEF IInv, SaveInv, NeedsErase, Position
    <3>2. SectorOf(spos - 1) # SectorOf(spos)
      BY <3>1, StartsSector DEF SectorOf
    <3> QED
      BY <1>1, <2>3, <3>2 DEF EraseCells
  <2>5. /\ StoredValue = ValueOf(cell[spos - 1]) /\ StoredAge = AgeAt(spos - 1)
    BY <2>1, <2>3, Mapped DEF Mapping
  <2>6. /\ StoredValue' = ValueOf(cell'[spos - 1]) /\ StoredAge' = AgeAt(spos - 1)
    BY <2>1, <2>2, <2>3, MappedNext DEF Mapping, AgeAt, ValueOf
  <2> QED
    BY <1>2, <2>4, <2>5, <2>6 DEF Setting!vars
<1> QED
  BY <1>3, <1>4

\* The place of the new value is taken before the value is stored.
LEMMA TrackRefines ==
  ASSUME IInv, IInv', SaveTrack
  PROVE  Setting!Mark
<1> USE Bounds, ContentAssumption
<1>1. /\ pc = "track" /\ pc' = "data" /\ UNCHANGED <<cell, fd, spos>> /\ spos \in Position
      /\ cell[spos] = Erased
  BY DEF SaveTrack, IInv, TypeOK, SaveInv
<1>2. header' = Own /\ used' = BASE_POS .. spos
  BY <1>1 DEF IInv, SaveInv
<1>3. StoredValue' = Erased /\ StoredAge' = AgeAt(spos)
  BY <1>1, <1>2, MappedNext DEF Mapping, AgeAt, ValueOf
<1>4. StoredAge = spos - BASE_POS
  <2>1. CASE spos = BASE_POS
    <3>1. header # Own
      BY <1>1, <2>1 DEF IInv, SaveInv
    <3> QED
      BY <2>1, <3>1, Mapped DEF Mapping
  <2>2. CASE spos # BASE_POS
    <3>1. header = Own /\ used = BASE_POS .. spos - 1 /\ spos - 1 \in Position
      BY <1>1, <2>2 DEF IInv, SaveInv, Position
    <3>2. StoredAge = AgeAt(spos - 1)
      BY <3>1, Mapped DEF Mapping
    <3> QED
      BY <1>1, <3>2 DEF AgeAt, Position
  <2> QED
    BY <2>1, <2>2
<1>5. AgeAt(spos) = (StoredAge + 1) % Rounds
  <2>1. CASE spos < MAX_POS
    <3>1. StoredAge + 1 \in 0 .. Rounds - 1 /\ Rounds \in Nat \ {0}
      BY <1>1, <1>4, <2>1 DEF Rounds, Position
    <3>2. (StoredAge + 1) % Rounds = StoredAge + 1
      BY <3>1, SmallRemainder
    <3> QED
      BY <1>4, <2>1, <3>2 DEF AgeAt, Position
  <2>2. CASE ~(spos < MAX_POS)
    <3>1. StoredAge + 1 = Rounds /\ Rounds \in Nat \ {0}
      BY <1>1, <1>4, <2>2 DEF Rounds, Position
    <3>2. Rounds % Rounds = 0
      BY <3>1, SmallRemainder
    <3> QED
      BY <2>2, <3>1, <3>2 DEF AgeAt
  <2> QED
    BY <2>1, <2>2
<1>6. ValueOf(fd.data)' = ValueOf(fd.data)
  BY <1>1 DEF ValueOf
<1> QED
  BY <1>1, <1>3, <1>5, <1>6 DEF Setting!Mark, Phase, Rounds

LEMMA DataRefines ==
  ASSUME IInv, SaveData
  PROVE  Setting!Finish
<1> USE Bounds, ContentAssumption
<1>1. /\ pc = "data" /\ pc' = "ready" /\ UNCHANGED <<header, used, spos>>
      /\ cell' = [cell EXCEPT ![spos] = Programmed(@, fd.data)]
      /\ fd' = [fd EXCEPT !.pos = spos] /\ spos \in Position
      /\ cell[spos] = Erased /\ header = Own /\ used = BASE_POS .. spos
  BY DEF SaveData, IInv, TypeOK, SaveInv
<1>2. cell'[spos] = fd.data /\ fd'.data = fd.data
  BY <1>1 DEF Programmed, IInv, TypeOK
<1>3. StoredValue' = ValueOf(fd.data) /\ StoredAge' = AgeAt(spos)
  BY <1>1, <1>2, MappedNext DEF Mapping, AgeAt, ValueOf
<1>4. StoredAge = AgeAt(spos)
  BY <1>1, Mapped DEF Mapping
<1>5. ValueOf(fd.data)' = ValueOf(fd.data)
  BY <1>2 DEF ValueOf
<1> QED
  BY <1>1, <1>3, <1>4, <1>5 DEF Setting!Finish, Phase

LEMMA RestartRefines ==
  ASSUME Restart
  PROVE  Setting!Restart
<1>1. StoredValue' = StoredValue /\ StoredAge' = StoredAge
  BY SameFlash DEF Restart, flash
<1>2. ValueOf(fd.data)' = Default /\ Phase' = "off"
  BY ContentAssumption DEF Restart, Created, ValueOf, Phase
<1> QED
  BY <1>1, <1>2 DEF Setting!Restart

\* The store keeps what DurableSetting promises its user, through erases, partial saves,
\* restarts and the wrap around at the end of the block, for any geometry.
THEOREM KeepsPromise == Spec => ImplementsSetting
<1>1. Init => OpenInv
  BY DEF Init, Created, OpenInv
<1>2. IInv /\ OpenInv /\ [Next]_vars => OpenInv'
  BY OpenStep
<1>3. Spec => []OpenInv
  BY <1>1, <1>2, Inductive, PTL DEF Spec
<1>4. ASSUME Init
      PROVE  Setting!Init
  <2>1. header # Own
    BY <1>4, ContentAssumption DEF Init
  <2>2. StoredValue = Erased /\ StoredAge = 0
    BY <2>1, Mapped DEF Mapping
  <2>3. ValueOf(fd.data) = Default /\ Phase = "off"
    BY <1>4, ContentAssumption DEF Init, Created, ValueOf, Phase
  <2> QED
    BY <2>2, <2>3 DEF Setting!Init
<1>5. ASSUME IInv, IInv', OpenInv, [Next]_vars
      PROVE  [Setting!Next]_Setting!vars
  <2>1. CASE UNCHANGED vars
    <3>1. StoredValue' = StoredValue /\ StoredAge' = StoredAge
      BY <2>1, SameFlash DEF vars
    <3>2. ValueOf(fd.data)' = ValueOf(fd.data) /\ Phase' = Phase
      BY <2>1 DEF vars, ValueOf, Phase
    <3> QED
      BY <3>1, <3>2 DEF Setting!vars
  <2> QED
    BY <1>5, <2>1, LoadRefines, SaveRefines, EraseRefines, TrackRefines, DataRefines,
       RestartRefines DEF Next, Setting!Next
<1> QED
  BY <1>3, <1>4, <1>5, Inductive, PTL DEF Spec, ImplementsSetting, Setting!Spec

=============================================================================
