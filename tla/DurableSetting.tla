---------------------------- MODULE DurableSetting ----------------------------
(***************************************************************************)
(* What a dataset of the flash store promises its user, without flash      *)
(* pages, sectors or bits: a saved value survives restarts until the next  *)
(* save.  A save interrupted by a power cut may lose the value in place,   *)
(* because the store first marks the place of the new value as taken.  And *)
(* one save in Rounds is not covered by the promise at all.                *)
(***************************************************************************)
EXTENDS Integers

CONSTANTS
  Version,  \* the values saved
  Default,  \* the value used when there is none
  Nothing,  \* no value
  Rounds    \* the number of places

VARIABLES
  stored,   \* the value held for the next start
  age,      \* saves since the places were last cleared; 0: no promise
  value,    \* the value the running program uses
  phase     \* where the program is

vars == <<stored, age, value, phase>>

Init ==
  /\ stored = Nothing
  /\ age = 0
  /\ value = Default
  /\ phase = "off"

\* The program starts and finds what was stored.
Start ==
  /\ phase = "off"
  /\ phase' = "on"
  /\ value' \in IF age > 0 THEN {stored} ELSE {stored, Default, Nothing}
  /\ UNCHANGED <<stored, age>>

Save(v) ==
  /\ phase = "on"
  /\ phase' = "saving"
  /\ value' = v
  /\ UNCHANGED <<stored, age>>

\* All places are cleared, which happens only when no promise is in force.
Clear ==
  /\ phase = "saving"
  /\ age = 0
  /\ stored' = Nothing
  /\ UNCHANGED <<age, value, phase>>

\* The next place is marked as taken.
Mark ==
  /\ phase = "saving"
  /\ phase' = "marked"
  /\ age' = (age + 1) % Rounds
  /\ stored' = Nothing
  /\ UNCHANGED value

\* The value is stored and the save returns.
Finish ==
  /\ phase = "marked"
  /\ phase' = "on"
  /\ stored' = value
  /\ UNCHANGED <<age, value>>

Restart ==
  /\ phase' = "off"
  /\ value' = Default
  /\ UNCHANGED <<stored, age>>

Next == Start \/ (\E v \in Version : Save(v)) \/ Clear \/ Mark \/ Finish \/ Restart

Spec == Init /\ [][Next]_vars

=============================================================================
