------------------------------ MODULE FlashStore ------------------------------
(***************************************************************************)
(* One dataset of util/flash_store.c: a 64K block of a serial flash chip   *)
(* that holds a ring of numbered versions of one configuration record.     *)
(* Page 0 of the block holds an id byte and one tracking bit per version;  *)
(* the version at position p is the 32 bytes at p*32.                      *)
(*                                                                         *)
(* A call of flash_store_save is the sequence of flash commands it issues  *)
(* (erase, program the tracker, program the data), because power may fail  *)
(* between two of them.  A command is atomic.                              *)
(*                                                                         *)
(* Abstracted: a version's 32 bytes are one value; a tracking byte is the  *)
(* set of positions whose bit it has cleared.                              *)
(***************************************************************************)
EXTENDS Integers

CONSTANTS
  BYTE_BITS,    \* bits in a tracking byte (8)
  PAGE_SIZE,    \* bytes in the tracking page, its id byte included (256)
  SECTOR_SLOTS, \* versions in an erasable sector (4096 / 32 = 128)
  Version,      \* the contents a caller saves
  Default,      \* the record init_config_screen_data fills in before loading
  Erased,       \* bytes that read 0xFF
  Foreign,      \* any other bytes: an earlier use of the chip, or an overlap
  Own           \* the dataset's id byte

ASSUME ByteBitsAssumption == BYTE_BITS \in Nat \ {0}
ASSUME PageSizeAssumption == PAGE_SIZE \in Nat /\ PAGE_SIZE >= 2
ASSUME SectorAssumption   == SECTOR_SLOTS \in Nat /\ SECTOR_SLOTS > BYTE_BITS
ASSUME ContentAssumption  ==
  /\ Default \in Version
  /\ Erased \notin Version
  /\ Foreign \notin Version
  /\ Erased # Foreign
  /\ Own \notin {Erased, Foreign}

VARIABLES
  header,  \* the id byte of the block
  used,    \* the positions whose tracking bit is 0
  cell,    \* the data stored at each position
  fd,      \* the flash_dataset_t in RAM
  pc,      \* the next step of the program
  spos     \* flash_store_save's local pos

vars  == <<header, used, cell, fd, pc, spos>>
flash == <<header, used, cell>>

BASE_POS == BYTE_BITS
MAX_POS  == PAGE_SIZE * BYTE_BITS - 1
Position == BASE_POS .. MAX_POS
Content  == Version \cup {Erased, Foreign}

\* flash_create_store, and the default record put into it before the load.
Created == [pos |-> BASE_POS, need_flash_init |-> TRUE, data |-> Default]

\* A chip fresh from the factory, or one that held something else.
Init ==
  /\ \/ header = Erased /\ used = {} /\ cell = [p \in Position |-> Erased]
     \/ /\ header = Foreign
        /\ used \in SUBSET Position
        /\ cell = [p \in Position |-> Foreign]
  /\ fd = Created
  /\ pc = "boot"
  /\ spos = BASE_POS

-----------------------------------------------------------------------------
\* A program command only clears bits: what it leaves of a cell holding old.
Programmed(old, new) == IF old \in {Erased, new} THEN new ELSE Foreign

\* The sector that holds position p, erased.  The first sector begins with the tracking
\* page, so it has room for fewer positions than the others.
SectorOf(p) == p \div SECTOR_SLOTS
EraseCells(p) ==
  [q \in Position |-> IF SectorOf(q) = SectorOf(p) THEN Erased ELSE cell[q]]

\* Faulty variant: the bits up to p's, but not p's own.
ClearTrackShort(p) ==
  used \cup {q \in Position : q < p /\ q \div BYTE_BITS = p \div BYTE_BITS}

\* Programming 0xFF >> (p%8 + 1) into p's tracking byte: the bits of that byte
\* up to and including p's are cleared.
ClearTrack(p) ==
  used \cup {q \in Position : q <= p /\ q \div BYTE_BITS = p \div BYTE_BITS}

NotLoaded == 0

\* Faulty variant: the scan stops one bit early.
LoadOutcomesEarly ==
  LET tracked == {p \in Position : used = BASE_POS .. p + 1}
  IN  IF header # Own \/ tracked = {} THEN {NotLoaded} ELSE tracked

(***************************************************************************)
(* The positions flash_store_load can settle on.  It wants the tracking    *)
(* bits 0..01..1.  With every bit 0 its scan ends one byte past the page   *)
(* buffer, and the outcome depends on the byte it finds there: the bit     *)
(* pattern accepts MAX_POS, a position past the block, or nothing.         *)
(***************************************************************************)
LoadOutcomes ==
  LET tracked == {p \in Position : used = BASE_POS .. p}
  IN  IF header # Own \/ tracked = {} THEN {NotLoaded}
      ELSE IF used = Position
           THEN {NotLoaded} \cup MAX_POS .. MAX_POS + BYTE_BITS
           ELSE tracked

\* flash_store_load, called once for each dataset when the firmware starts.
flash_store_load ==
  /\ pc = "boot"
  /\ \E p \in LoadOutcomes :
       fd' = IF p = NotLoaded
             THEN fd
             ELSE [pos |-> p, need_flash_init |-> FALSE,
                   data |-> IF p \in Position THEN cell[p] ELSE Foreign]
  /\ pc' = "ready"
  /\ UNCHANGED <<header, used, cell, spos>>

\* Faulty variant: no wrap around at the end of the block.
NextPosNoWrap == IF fd.need_flash_init THEN fd.pos ELSE fd.pos + 1

\* The position flash_store_save writes next.
NextPos ==
  IF fd.need_flash_init THEN fd.pos
  ELSE IF fd.pos < MAX_POS THEN fd.pos + 1 ELSE BASE_POS

\* Faulty variant: only the first sector is erased.
NeedsEraseFirst(p) == p = BASE_POS

\* Whether position p starts a sector.
NeedsErase(p) == p = BASE_POS \/ p % SECTOR_SLOTS = 0

\* A screen's worker fills fd->data and calls flash_store_save, up to the first
\* flash command.
flash_store_save(v) ==
  /\ pc = "ready"
  /\ fd' = [fd EXCEPT !.data = v, !.need_flash_init = FALSE]
  /\ spos' = NextPos
  /\ pc' = IF NeedsErase(NextPos) THEN "erase" ELSE "track"
  /\ UNCHANGED flash

\* store_erase: the sector of the new position; with the first position it is
\* the sector that holds the tracking page.
SaveErase ==
  /\ pc = "erase"
  /\ cell' = EraseCells(spos)
  /\ IF spos = BASE_POS THEN header' = Erased /\ used' = {}
                        ELSE UNCHANGED <<header, used>>
  /\ pc' = "track"
  /\ UNCHANGED <<fd, spos>>

\* store_program of the tracking bit, together with the id for the first position.
SaveTrack ==
  /\ pc = "track"
  /\ header' = IF spos = BASE_POS THEN Programmed(header, Own) ELSE header
  /\ used' = ClearTrack(spos)
  /\ pc' = "data"
  /\ UNCHANGED <<cell, fd, spos>>

\* store_program of the data, and the return of flash_store_save.
SaveData ==
  /\ pc = "data"
  /\ cell' = [cell EXCEPT ![spos] = Programmed(@, fd.data)]
  /\ fd' = [fd EXCEPT !.pos = spos]
  /\ pc' = "ready"
  /\ UNCHANGED <<header, used, spos>>

\* Power is lost or the watchdog reboots; flash_create_store runs again.
Restart ==
  /\ fd' = Created
  /\ pc' = "boot"
  /\ spos' = BASE_POS
  /\ UNCHANGED flash

Next ==
  \/ flash_store_load
  \/ \E v \in Version : flash_store_save(v)
  \/ SaveErase
  \/ SaveTrack
  \/ SaveData
  \/ Restart

Spec == Init /\ [][Next]_vars

-----------------------------------------------------------------------------
\* The values the variables range over.
TypeOK ==
  /\ header \in {Own, Erased, Foreign}
  /\ used \in SUBSET Position
  /\ cell \in [Position -> Content]
  /\ fd \in [pos : BASE_POS .. MAX_POS + BYTE_BITS,
             need_flash_init : BOOLEAN,
             data : Content]
  /\ pc \in {"boot", "ready", "erase", "track", "data"}
  /\ spos \in Position

\* The data is only ever programmed into an erased cell, and the id and the
\* tracker of a new round into an erased page, so that clearing bits yields what
\* was meant, however many rounds and interrupted saves came before.
ProgramsErased ==
  /\ pc \in {"track", "data"} => cell[spos] = Erased
  /\ pc = "track" /\ spos = BASE_POS => header = Erased /\ used = {}

\* Outside a save, what the next flash_store_load would find is what RAM holds:
\* the same position and the same data.  The last position of the block is
\* excepted (see EveryVersionReloads).
ReloadAgrees ==
  pc = "ready" /\ ~fd.need_flash_init /\ fd.pos < MAX_POS =>
    /\ LoadOutcomes = {fd.pos}
    /\ cell[fd.pos] = fd.data

\* The tracking bits are cleared strictly in order, round after round, so a power
\* cut at any point leaves a tracker whose pattern flash_store_load accepts.
TrackerInOrder ==
  header = Own => \E p \in Position : used = BASE_POS .. p

\* flash_store.c:28 "total 2040 versions possible": every one of the positions
\* can be loaded again after a restart.
EveryVersionReloads ==
  pc = "ready" /\ ~fd.need_flash_init /\ fd.pos \in Position =>
    LoadOutcomes = {fd.pos}

=============================================================================
