------------------------------ MODULE ConfigSync ------------------------------
(***************************************************************************)
(* One configuration dataset on its way from the flash store of the AP to  *)
(* where the AP and a node use it.  Each end applies the record when its   *)
(* position differs from the one applied last, and the AP sends the record *)
(* when its position differs from the one the node last confirmed.  The    *)
(* position is a 16-bit number in flash_dataset_t and an 8-bit number in   *)
(* every other place; and the first save of an empty store keeps the       *)
(* position that the default record had.                                   *)
(*                                                                         *)
(* Abstracted: a record is one value.  The node executes the AP's tasks in *)
(* order, one at a time, and the flash store finds what was saved last     *)
(* (see TaskFlow and FlashStore for when they do).  For the power screen's *)
(* dataset the value in use is the backlight, which the user's keys and    *)
(* idleness set too.                                                       *)
(***************************************************************************)
EXTENDS Integers

CONSTANTS
  WIDTH,      \* values of a uint8_t (256)
  BASE_POS,   \* the first position of the flash store (8)
  MAX_POS,    \* the last one (2047)
  Value,      \* the records a user saves
  Default,    \* the record used before any other is known
  Manual,     \* a setting made by a key, or by idleness
  FRESH,      \* whether the flash store may be empty at the first start
  MAX_BEHIND  \* bound on the positions taken between two syncs

ASSUME PositionAssumption ==
  /\ WIDTH \in Nat /\ BASE_POS \in Nat /\ MAX_POS \in Nat
  /\ 0 < BASE_POS /\ BASE_POS < WIDTH /\ BASE_POS <= MAX_POS
ASSUME ValueAssumption  == Default \in Value /\ Manual \notin Value
ASSUME FreshAssumption  == FRESH \subseteq BOOLEAN
ASSUME BehindAssumption == MAX_BEHIND \in Nat /\ MAX_BEHIND <= MAX_POS - BASE_POS

VARIABLES
  fd,        \* the flash_dataset_t of the AP
  ap,        \* applied, the value in use, and what the node has confirmed
  node,      \* flash_data and flash_data_pos, applied, and the value in use
  screen,    \* the AP's screen: "welcome", or "config" for the dataset's own
  request,   \* the sync request the node has not executed: at most one
  response,  \* the position in a response the AP has not handled: at most one
  stale,     \* the ends that have yet to reset their session
  unapplied, \* fd has changed since apply_config_screen_data last ran on the AP
  behind,    \* positions taken since the node last confirmed one
  first      \* history: fd is the first record saved to an empty store

vars == <<fd, ap, node, screen, request, response, stale, unapplied, behind, first>>

Byte(n) == n % WIDTH

NodeStarted == [data |-> Default, pos |-> 0, applied |-> 0, using |-> Default]

\* What the AP keeps in RAM, besides fd.
ApStarted == [applied |-> 0, using |-> Default, known |-> 0]

Init ==
  /\ fd \in [pos : {BASE_POS}, need_flash_init : FRESH, data : Value]
  /\ fd.need_flash_init => fd.data = Default
  /\ ap = ApStarted
  /\ node = NodeStarted
  /\ screen = "welcome"
  /\ request = {} /\ response = {} /\ stale = {}
  /\ unapplied = TRUE
  /\ behind = 0
  /\ first = FALSE

-----------------------------------------------------------------------------
(* Saving and applying *)

\* Faulty variants: the position does not advance, and does not wrap around.
NextPosSame   == fd.pos
NextPosNoWrap == fd.pos + 1

\* The position flash_store_save takes.
NextPos ==
  IF fd.need_flash_init THEN fd.pos
  ELSE IF fd.pos < MAX_POS THEN fd.pos + 1 ELSE BASE_POS

\* The configuration screen saves what the node's editor returned.  The editor's
\* tasks came after any sync request of the welcome screen.  core1 calls
\* apply_config_screen_data in every round of its loop, and saves at most once.
Save(v) ==
  /\ screen = "config" /\ stale = {}
  /\ ~unapplied
  /\ behind < MAX_BEHIND
  /\ fd' = [pos |-> NextPos, need_flash_init |-> FALSE, data |-> v]
  /\ request' = {}
  /\ unapplied' = TRUE
  /\ behind' = IF fd.need_flash_init THEN behind ELSE behind + 1
  /\ first' = fd.need_flash_init
  /\ UNCHANGED <<ap, node, screen, response, stale>>

\* Faulty variant: applied is not set.
ApApplyAlways ==
  /\ unapplied \/ ap.applied # fd.pos
  /\ ap' = [ap EXCEPT !.using = fd.data]
  /\ unapplied' = FALSE
  /\ UNCHANGED <<fd, node, screen, request, response, stale, behind, first>>

\* apply_config_screen_data, on the AP.
ApApply ==
  /\ unapplied \/ ap.applied # fd.pos
  /\ ap' = IF ap.applied # fd.pos
           THEN [ap EXCEPT !.using = fd.data, !.applied = Byte(fd.pos)]
           ELSE ap
  /\ unapplied' = FALSE
  /\ UNCHANGED <<fd, node, screen, request, response, stale, behind, first>>

\* The same on the node.
NodeApply ==
  /\ node.applied # node.pos
  /\ node' = [node EXCEPT !.using = node.data, !.applied = node.pos]
  /\ UNCHANGED <<fd, ap, screen, request, response, stale, unapplied, behind, first>>

\* process_basic_event, or process_idle.
Adjust ==
  /\ ap' = [ap EXCEPT !.using = Manual]
  /\ UNCHANGED <<fd, node, screen, request, response, stale, unapplied, behind, first>>

-----------------------------------------------------------------------------
(* Syncing *)

\* The welcome screen, when idle: handle_screen_event lets nothing happen while
\* a request is pending, and hands on a response first.
IdleSync ==
  /\ screen = "welcome"
  /\ request = {} /\ response = {}
  /\ fd.pos # ap.known
  /\ request' = {[pos |-> Byte(fd.pos), data |-> fd.data]}
  /\ UNCHANGED <<fd, ap, node, screen, response, stale, unapplied, behind, first>>

Updated(r) == [node EXCEPT !.pos = r.pos, !.data = r.data]

\* core1 of the node calls apply_config_screen_data before every task.
MayExecute == stale = {} /\ node.applied = node.pos

\* work_screen_task_welcome
Execute ==
  /\ MayExecute
  /\ \E r \in request :
       /\ node' = Updated(r)
       /\ response' = IF screen = "welcome" THEN {r.pos} ELSE {}
  /\ request' = {}
  /\ UNCHANGED <<fd, ap, screen, stale, unapplied, behind, first>>

\* The response, back at the welcome screen.
Respond ==
  /\ screen = "welcome"
  /\ \E p \in response :
       ap' = [ap EXCEPT !.known = p]
  /\ response' = {}
  /\ behind' = 0
  /\ UNCHANGED <<fd, node, screen, request, stale, unapplied, first>>

\* A screen change discards pending tasks; the node may yet execute the one it
\* has, until it gets one of the new screen.
Navigate ==
  /\ screen' = IF screen = "welcome" THEN "config" ELSE "welcome"
  /\ response' = {}
  /\ request' = IF screen = "welcome" THEN request ELSE {}
  /\ UNCHANGED <<fd, ap, node, stale, unapplied, behind, first>>

-----------------------------------------------------------------------------
(* Restarts *)

\* The node forgets everything, and the AP is to reset the session with it.
NodeRestart ==
  /\ node' = NodeStarted
  /\ stale' = {"ap"}
  /\ UNCHANGED <<fd, ap, screen, request, response, unapplied, behind, first>>

\* Faulty variant: left_flash_data_pos is not cleared.
ApResetKeeping ==
  /\ "ap" \in stale
  /\ stale' = stale \ {"ap"}
  /\ screen' = "welcome" /\ request' = {} /\ response' = {}
  /\ UNCHANGED <<fd, ap, node, unapplied, behind, first>>

\* validate_comm_state on the AP.
ApReset ==
  /\ "ap" \in stale
  /\ stale' = stale \ {"ap"}
  /\ ap' = [ap EXCEPT !.known = 0]
  /\ screen' = "welcome" /\ request' = {} /\ response' = {}
  /\ UNCHANGED <<fd, node, unapplied, behind, first>>

\* The AP starts again from its flash store, or from the default while that is
\* empty.  The node may or may not have received the last request.
ApRestart ==
  /\ ap' = ApStarted
  /\ node' \in {node} \cup (IF MayExecute THEN {Updated(r) : r \in request} ELSE {})
  /\ screen' = "welcome" /\ request' = {} /\ response' = {}
  /\ stale' = {"node"}
  /\ unapplied' = TRUE
  /\ UNCHANGED <<fd, behind, first>>

\* validate_comm_state on the node.
NodeReset ==
  /\ "node" \in stale
  /\ stale' = stale \ {"node"}
  /\ UNCHANGED <<fd, ap, node, screen, request, response, unapplied, behind, first>>

Next ==
  \/ \E v \in Value : Save(v)
  \/ ApApply \/ NodeApply \/ Adjust
  \/ IdleSync \/ Execute \/ Respond \/ Navigate
  \/ NodeRestart \/ ApReset \/ ApRestart \/ NodeReset

Spec == Init /\ [][Next]_vars

\* core1 of both devices keeps running, and tasks are answered (TasksAnswered in
\* TaskFlow).  The user need not do anything.
Fairness ==
  /\ WF_vars(ApApply) /\ WF_vars(NodeApply)
  /\ WF_vars(IdleSync) /\ WF_vars(Execute) /\ WF_vars(Respond)
  /\ WF_vars(ApReset) /\ WF_vars(NodeReset)

FairSpec == Spec /\ Fairness

-----------------------------------------------------------------------------
Position == BASE_POS .. MAX_POS
Uint8    == 0 .. WIDTH - 1

\* The values the variables range over.
TypeOK ==
  /\ fd \in [pos : Position, need_flash_init : BOOLEAN, data : Value]
  /\ ap \in [applied : Uint8, using : Value \cup {Manual}, known : Uint8]
  /\ node \in [data : Value, pos : Uint8, applied : Uint8, using : Value]
  /\ screen \in {"welcome", "config"}
  /\ request \in {{}} \cup {{r} : r \in [pos : Uint8, data : Value]}
  /\ response \in {{}} \cup {{p} : p \in Uint8}
  /\ stale \in SUBSET {"ap", "node"}
  /\ unapplied \in BOOLEAN
  /\ behind \in 0 .. MAX_BEHIND
  /\ first \in BOOLEAN

\* When the AP sees nothing left to send, the node has the AP's record: the AP's
\* belief survives restarts of either and editing while a sync is under way.  The
\* first record of an empty store is the exception, as the default may have been
\* sent under its position.
KnownMeansHeld ==
  stale = {} /\ ap.known = fd.pos =>
    node.data = fd.data \/ (first /\ node.data = Default)

\* core1.c:430 "apply any new configs": after apply_config_screen_data the AP uses
\* what it last saved or loaded, unless it was adjusted since.  The first record of
\* an empty store is the exception: its position was applied with the default.
AppliedIsCurrent ==
  ~unapplied => ap.using \in {fd.data, Manual} \/ (first /\ ap.using = Default)

\* data_model.h:36 "apply configs (all) @ on demand": what the user or idleness
\* has set since is overridden only by a new save or a new load.  The code keeps
\* to it while the position fits in the byte of applied; once it does not, the
\* record is applied again in every round.
AdjustmentHolds ==
  [][fd.pos < WIDTH /\ ap.using = Manual /\ ap.using' # Manual =>
       unapplied \/ ap' = ApStarted]_vars

\* The node uses the AP's record, or still the default in its place: for the first
\* record of an empty store, and for one whose position has the low byte 0, with
\* which the node starts.
NodeIsCurrent ==
  node.using = fd.data \/ ((first \/ Byte(fd.pos) = 0) /\ node.using = Default)

\* welcome.c:34 "when idle, sync config to left/right": once the AP stays on the
\* welcome screen and the link holds, the node comes to use the AP's record, as far
\* as NodeIsCurrent promises it.
NodeCatchesUp ==
  <>[](screen = "welcome" /\ stale = {}) => <>[]NodeIsCurrent

=============================================================================
