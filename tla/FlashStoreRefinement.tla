------------------------- MODULE FlashStoreRefinement -------------------------
(***************************************************************************)
(* FlashStore implements DurableSetting: the stored value is the content   *)
(* of the last tracked cell, and the promise is in force while the tracker *)
(* has a bit left.                                                         *)
(***************************************************************************)
EXTENDS FlashStore

\* An erased or foreign cell holds no version.
ValueOf(content) == IF content \in Version THEN content ELSE Erased

TrackedCells == {cell[p] : p \in {q \in Position : used = BASE_POS .. q}}

StoredValue ==
  IF header = Own /\ \E c \in TrackedCells : c \in Version
  THEN CHOOSE c \in Version : c \in TrackedCells
  ELSE Erased

StoredAge ==
  IF header = Own /\ \E p \in Position : p < MAX_POS /\ used = BASE_POS .. p
  THEN CHOOSE n \in 1 .. MAX_POS - BASE_POS : used = BASE_POS .. BASE_POS + n - 1
  ELSE 0

Phase ==
  CASE pc = "boot"              -> "off"
    [] pc = "ready"             -> "on"
    [] pc \in {"erase","track"} -> "saving"
    [] pc = "data"              -> "marked"

Setting == INSTANCE DurableSetting WITH
  Nothing <- Erased,
  Rounds  <- MAX_POS - BASE_POS + 1,
  stored  <- StoredValue,
  age     <- StoredAge,
  value   <- ValueOf(fd.data),
  phase   <- Phase

\* The flash store keeps the promise of DurableSetting through erases, partial
\* saves, restarts and the wrap around at the end of the block.
ImplementsSetting == Setting!Spec

=============================================================================
