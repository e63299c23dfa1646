------------------------------ MODULE HidReports ------------------------------
(***************************************************************************)
(* From the key matrices and the track ball motion that reach the AP to    *)
(* what the USB host sees: process_inputs on core1 every 20 ms, and the    *)
(* chain of HID reports it starts, which the completion of each report     *)
(* continues.  In a config screen nothing is reported: there the keys      *)
(* work the screen, and escape leaves it.                                  *)
(*                                                                         *)
(* Abstracted: motion is a number without direction or scale.  Of the keys *)
(* there are escape, which both is reported and has a meaning in a config  *)
(* screen, a MOON, which gives escape the meaning of PIXELS, and a mouse   *)
(* button; the other keys that work the screens may be pressed anew in any *)
(* round.  The USB stack, the host, and the nodes' buffers are external.   *)
(***************************************************************************)
EXTENDS Integers

CONSTANT
  MAX_MOTION \* bound on the motion published

ASSUME MotionAssumption == MAX_MOTION \in Nat

VARIABLES
  keys,         \* the keys held, in sb_left_key_press and sb_right_key_press
  motion,       \* what was written to sb_tb_motion since it was read: at most one
  input,        \* old_key_press.escape, exit of parse_config_screen_event, and
                \* has_motion of the motion read last
  config,       \* kbd_system.screen is a config screen
  reset_screen,
  report,       \* hid_report_out
  had_events,
  pc,           \* where core1 is: in its "loop", or in process_inputs before "usb"
  ep,           \* the report in the USB endpoint: at most one
  completed,    \* the report that went out and whose completion is not handled yet
  bus,          \* "ready", "suspended", or "off"
  host,         \* the keys and buttons the host takes for held, and the motion it saw
  inner,        \* history: escape was pressed in this config screen and is held since
  lost,         \* history: motion overwritten or discarded
  published     \* history: motion published

vars == <<keys, motion, input, config, reset_screen, report, had_events, pc,
          ep, completed, bus, host, inner, lost, published>>

Key == {"escape", "moon", "button"}

EmptyReport == [events |-> FALSE, keys |-> {}, buttons |-> {}, delta |-> 0]

Init ==
  /\ keys = {}
  /\ motion = {}
  /\ input = [old |-> FALSE, exit |-> FALSE, has_motion |-> FALSE]
  /\ config = FALSE
  /\ reset_screen = TRUE
  /\ report = EmptyReport
  /\ had_events = FALSE
  /\ pc = "loop"
  /\ ep = {} /\ completed = {}
  /\ bus = "off"
  /\ host = [keys |-> {}, buttons |-> {}, moved |-> 0]
  /\ inner = FALSE
  /\ lost = 0
  /\ published = 0

-----------------------------------------------------------------------------
(* core0: what arrives from the nodes *)

\* The delta of the motion that process_inputs would read; none if it was used.
Dx == IF motion = {} THEN 0 ELSE (CHOOSE m \in motion : TRUE).d
HasMotion == IF motion = {} THEN input.has_motion ELSE (CHOOSE m \in motion : TRUE).has

UnchangedByCore0 ==
  UNCHANGED <<input, config, reset_screen, report, had_events, pc, ep, completed,
              bus, host, inner>>

UserKey(k) ==
  /\ keys' = IF k \in keys THEN keys \ {k} ELSE keys \cup {k}
  /\ UnchangedByCore0 /\ UNCHANGED <<motion, lost, published>>

\* The right node publishes whether or not there was motion.
Publish(has, d) ==
  /\ has \/ d = 0
  /\ published + d <= MAX_MOTION
  /\ published' = published + d
  /\ lost' = lost + Dx
  /\ motion' = {[has |-> has, d |-> d]}
  /\ UnchangedByCore0 /\ UNCHANGED keys

-----------------------------------------------------------------------------
(* core1: process_inputs *)

\* The code of the key is that of the layer: with a MOON it is PIXELS.
Escape == "escape" \in keys /\ "moon" \notin keys
NewEscape == Escape /\ ~input.old

ReadInputs(exit) ==
  /\ pc = "loop" /\ pc' = "usb"
  /\ motion' = {}
  /\ reset_screen' = FALSE
  /\ input' = [old |-> IF reset_screen THEN input.old ELSE Escape,
               exit |-> exit, has_motion |-> HasMotion]
  /\ UNCHANGED <<keys, had_events, ep, completed, bus, host, published>>

\* The first round after a reset only shows the welcome screen.
ShowWelcome ==
  /\ reset_screen
  /\ ReadInputs(input.exit)
  /\ lost' = lost + Dx
  /\ UNCHANGED <<config, report, inner>>

\* execute_input_processor, outside the config screens.  SUN with the left MOON
\* switches to them.
ReportInputs(sun) ==
  /\ ~reset_screen /\ ~config
  /\ ReadInputs(input.exit)
  /\ report' =
       [events  |-> Escape \/ "button" \in keys \/ HasMotion,
        keys    |-> {k \in {"escape"} : Escape},
        buttons |-> keys \cap {"button"},
        delta   |-> report.delta + Dx]
  /\ config' = sun
  /\ inner' = (inner /\ Escape)
  /\ UNCHANGED lost

\* Faulty variant: escape leaves when it goes down.
LeavesOnPress(exit) == exit

\* parse_config_screen_event: a config screen is left when escape goes up.
Leaves(exit) == exit /\ ~Escape

\* execute_input_processor, in a config screen.  Another key pressed anew in the
\* same round, SUN among them, comes before escape.
WorkConfigScreen(other) ==
  /\ ~reset_screen /\ config
  /\ LET exit  == input.exit \/ (NewEscape /\ ~other)
         leave == Leaves(exit) /\ ~other
     IN  /\ ReadInputs(exit /\ ~leave)
         /\ config' = ~leave
  /\ report' = EmptyReport
  /\ inner' = (Escape /\ (inner \/ NewEscape))
  /\ lost' = lost + report.delta + Dx

\* validate_comm_state, for either node.
Reset ==
  /\ pc = "loop"
  /\ config' = FALSE
  /\ reset_screen' = TRUE
  /\ inner' = FALSE
  /\ UNCHANGED <<keys, motion, input, report, had_events, pc, ep, completed, bus, host,
              lost, published>>

-----------------------------------------------------------------------------
(* core1: usb_hid_task *)

KeyboardReport == [id |-> "keyboard", keys |-> report.keys, buttons |-> {},
                   delta |-> 0]
MouseReport    == [id |-> "mouse", keys |-> {}, buttons |-> report.buttons,
                   delta |-> report.delta]

\* tud_hid_report_complete_cb, called from tud_task: the mouse report follows the
\* keyboard report, unless the bus is not ready.  The others are not used.
SendsMouse == bus = "ready" /\ "keyboard" \in completed

EpAfterTud == IF SendsMouse THEN {MouseReport} ELSE ep

\* Faulty variant: what was sent stays in the report.
ReportKept == report

ReportAfterTud == IF SendsMouse THEN [report EXCEPT !.delta = 0] ELSE report

UnchangedByUsb ==
  UNCHANGED <<keys, motion, input, config, reset_screen, bus, host, inner, lost, published>>

usb_hid_idle_task ==
  /\ pc = "loop"
  /\ completed # {} /\ completed' = {}
  /\ ep' = EpAfterTud
  /\ report' = ReportAfterTud
  /\ UnchangedByUsb /\ UNCHANGED <<had_events, pc>>

\* send_hid_report(REPORT_ID_KEYBOARD) succeeds.
CanSend == bus = "ready" /\ EpAfterTud = {}

\* Faulty variant: only events are reported, not their end.
HadNoEvents == FALSE

HadEvents == report.events \/ (had_events /\ ~CanSend)

\* tud_task and hid_task.  While the bus is suspended, events only wake the host.
usb_hid_task ==
  /\ pc = "usb" /\ pc' = "loop"
  /\ completed' = {}
  /\ report' = ReportAfterTud
  /\ \/ /\ bus = "suspended" /\ report.events
        /\ ep' = EpAfterTud
        /\ UNCHANGED had_events
     \/ /\ ~(bus = "suspended" /\ report.events)
        /\ had_events' = HadEvents
        /\ ep' = IF (report.events \/ had_events) /\ CanSend THEN {KeyboardReport}
                 ELSE EpAfterTud
  /\ UnchangedByUsb

-----------------------------------------------------------------------------
(* The host *)

UnchangedByHost ==
  UNCHANGED <<keys, motion, input, config, reset_screen, report, had_events, pc,
              inner, published>>

\* The host takes the report.
Poll ==
  /\ bus = "ready"
  /\ \E r \in ep :
       /\ completed' = {r.id}
       /\ host' = IF r.id = "keyboard" THEN [host EXCEPT !.keys = r.keys]
                  ELSE [host EXCEPT !.buttons = r.buttons, !.moved = @ + r.delta]
  /\ ep' = {}
  /\ UnchangedByHost /\ UNCHANGED <<bus, lost>>

Suspend == bus = "ready" /\ bus' = "suspended" /\ UnchangedByHost /\ UNCHANGED <<ep, completed, host, lost>>
Resume  == bus \in {"suspended", "off"} /\ bus' = "ready" /\ UnchangedByHost /\ UNCHANGED <<ep, completed, host, lost>>

InEndpoint == IF ep = {} THEN 0 ELSE (CHOOSE r \in ep : TRUE).delta

\* Unmounted: the host forgets what was held, and the endpoint is closed.
Unplug ==
  /\ bus # "off" /\ bus' = "off"
  /\ host' = [host EXCEPT !.keys = {}, !.buttons = {}]
  /\ ep' = {} /\ completed' = {}
  /\ lost' = lost + InEndpoint
  /\ UnchangedByHost

ProcessInputs ==
  \/ ShowWelcome
  \/ \E key \in BOOLEAN : ReportInputs(key) \/ WorkConfigScreen(key)

Next ==
  \/ \E k \in Key : UserKey(k)
  \/ \E has \in BOOLEAN, d \in 0 .. MAX_MOTION : Publish(has, d)
  \/ ProcessInputs \/ Reset
  \/ usb_hid_idle_task \/ usb_hid_task
  \/ Poll \/ Suspend \/ Resume \/ Unplug

Spec == Init /\ [][Next]_vars

\* core1 keeps running, and the host polls.
Fairness ==
  /\ WF_vars(ProcessInputs) /\ WF_vars(usb_hid_idle_task) /\ WF_vars(usb_hid_task)
  /\ WF_vars(Poll)

FairSpec == Spec /\ Fairness

-----------------------------------------------------------------------------
Motion == 0 .. MAX_MOTION

\* The values the variables range over.
TypeOK ==
  /\ keys \in SUBSET Key
  /\ motion \in {{}} \cup {{m} : m \in [has : BOOLEAN, d : Motion]}
  /\ input \in [old : BOOLEAN, exit : BOOLEAN, has_motion : BOOLEAN]
  /\ config \in BOOLEAN /\ reset_screen \in BOOLEAN
  /\ report \in [events : BOOLEAN, keys : SUBSET {"escape"},
                 buttons : SUBSET {"button"}, delta : Motion]
  /\ had_events \in BOOLEAN
  /\ pc \in {"loop", "usb"}
  /\ ep \in {{}} \cup {{r} : r \in
       [id : {"keyboard", "mouse"}, keys : SUBSET {"escape"},
        buttons : SUBSET {"button"}, delta : Motion]}
  /\ completed \in {{}, {"keyboard"}, {"mouse"}}
  /\ ep = {} \/ completed = {}
  /\ bus \in {"ready", "suspended", "off"}
  /\ host \in [keys : SUBSET {"escape"}, buttons : SUBSET {"button"}, moved : Motion]
  /\ inner \in BOOLEAN
  /\ lost \in Motion /\ published \in Motion

\* core1.c:219 "discard the delta if already used": motion reaches the host once.
\* All of it is in the buffer, in the report, in the endpoint or at the host, or
\* was overwritten before it was read, or discarded by a screen.
MotionAccounted ==
  published = lost + Dx + report.delta + InEndpoint + host.moved

\* input_processor.c:216 "exit on key up, not just key down": the escape that leaves
\* a config screen does not reach the host, unless a MOON changes its meaning while it
\* is held: that leaves the screen as well, and escape is new when the MOON goes up.
EscapeStaysInside == inner => "escape" \notin report.keys

\* usb_hid.c:136 "end of events (like release of keypress)": when nothing is held
\* any more the host comes to know, after suspensions and refused reports too.  A
\* mouse report only follows a keyboard report, so a button is released with the
\* next event at the latest.
EverythingReleased ==
  /\ <>[](keys = {} /\ bus = "ready" /\ ~reset_screen) => <>[](host.keys = {})
  /\ <>[]("button" \notin keys /\ bus = "ready" /\ ~reset_screen)
       /\ []<>(pc = "usb" /\ report.events) => <>[](host.buttons = {})

=============================================================================
