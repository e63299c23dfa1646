--------------------------- MODULE HidReportsProofs ---------------------------
(***************************************************************************)
(* Motion is neither lost nor counted twice between the track ball's       *)
(* buffer and the host, however the reports, the screens and the bus       *)
(* interleave and however much motion there is, and an escape pressed in a *)
(* config screen stays there.                                              *)
(***************************************************************************)
EXTENDS HidReports, TLAPS

\* The keyboard report is sent first, and carries no motion.
KeyboardIsStill == \A r \in ep : r.id = "keyboard" => r.delta = 0

\* Each amount of motion is a number: with what is published bounded, so is each
\* of the places it can be at.
IInv == TypeOK /\ MotionAccounted /\ KeyboardIsStill

Published == [has : BOOLEAN, d : Motion]

Report == [id : {"keyboard", "mouse"}, keys : SUBSET {"escape"},
           buttons : SUBSET {"button"}, delta : Motion]

\* What is published together with what is already in the buffer.
LEMMA InBuffer ==
  ASSUME TypeOK
  PROVE  Dx \in Motion /\ HasMotion \in BOOLEAN
<1>1. CASE motion = {}
  BY <1>1, MotionAssumption DEF TypeOK, Dx, HasMotion, Motion
<1>2. CASE motion # {}
  <2>1. (CHOOSE m \in motion : TRUE) \in Published
    BY <1>2 DEF TypeOK, Published
  <2> QED
    BY <1>2, <2>1 DEF Dx, HasMotion, Published
<1> QED
  BY <1>1, <1>2

\* The motion of a buffer that is known.
LEMMA OfBuffer ==
  ASSUME NEW m
  PROVE  /\ motion' = {} => Dx' = 0
         /\ motion' = {m} => Dx' = m.d
BY DEF Dx

\* The other places.
LEMMA Amounts ==
  ASSUME TypeOK
  PROVE  report.delta \in Motion /\ host.moved \in Motion /\ lost \in Motion /\ published \in Motion
BY DEF TypeOK

\* The motion of the report in the endpoint.
LEMMA AtEndpoint ==
  ASSUME TypeOK
  PROVE  InEndpoint \in Motion
<1>1. CASE ep = {}
  BY <1>1, MotionAssumption DEF InEndpoint, Motion
<1>2. CASE ep # {}
  <2>1. (CHOOSE r \in ep : TRUE) \in Report
    BY <1>2 DEF TypeOK, Report
  <2> QED
    BY <1>2, <2>1 DEF InEndpoint, Report
<1> QED
  BY <1>1, <1>2

\* The motion of a report that is known.
LEMMA OfReport ==
  ASSUME NEW r
  PROVE  /\ ep = {r} => InEndpoint = r.delta
         /\ ep' = {r} => InEndpoint' = r.delta
         /\ ep = {} => InEndpoint = 0
         /\ ep' = {} => InEndpoint' = 0
BY DEF InEndpoint

\* A report of motion is a report, and none is the empty one.
LEMMA ReportsTyped ==
  ASSUME TypeOK
  PROVE  /\ KeyboardReport \in Report /\ KeyboardReport.delta = 0
         /\ MouseReport \in Report /\ MouseReport.delta = report.delta
BY MotionAssumption DEF TypeOK, KeyboardReport, MouseReport, Report, Motion

-----------------------------------------------------------------------------
LEMMA InitStep ==
  ASSUME Init
  PROVE  IInv
<1>0. 0 \in Motion
  BY MotionAssumption DEF Motion
<1>1. TypeOK
  BY <1>0 DEF Init, TypeOK, EmptyReport
<1>2. Dx = 0 /\ InEndpoint = 0
  BY DEF Init, Dx, InEndpoint
<1> QED
  BY <1>1, <1>2 DEF Init, EmptyReport, MotionAccounted, KeyboardIsStill, IInv

LEMMA UserKeyStep ==
  ASSUME IInv, NEW k \in Key, UserKey(k)
  PROVE  IInv'
<1>1. UNCHANGED <<Dx, InEndpoint>>
  BY DEF UserKey, UnchangedByCore0, Dx, InEndpoint
<1>2. keys' \in SUBSET Key
  BY DEF UserKey, IInv, TypeOK
<1> QED
  BY <1>1, <1>2 DEF IInv, TypeOK, MotionAccounted, KeyboardIsStill, UserKey, UnchangedByCore0

\* What is overwritten in the buffer is lost.
LEMMA PublishStep ==
  ASSUME IInv, NEW has \in BOOLEAN, NEW d \in Motion, Publish(has, d)
  PROVE  IInv'
<1> DEFINE m == [has |-> has, d |-> d]
<1> USE MotionAssumption
<1>1. Dx' = d
  BY OfBuffer, m.d = d DEF Publish
<1>2. InEndpoint' = InEndpoint
  BY DEF Publish, UnchangedByCore0, InEndpoint
<1>3. Dx \in Motion /\ InEndpoint \in Motion
  BY InBuffer, AtEndpoint DEF IInv
<1>4. MotionAccounted'
  BY <1>1, <1>2, <1>3, Amounts DEF IInv, MotionAccounted, Publish, UnchangedByCore0, Motion
<1>5. published' \in Motion /\ lost' \in Motion
  BY <1>1, <1>2, <1>3, <1>4, Amounts
     DEF IInv, MotionAccounted, Publish, UnchangedByCore0, Motion
<1>6. motion' \in {{}} \cup {{n} : n \in Published}
  BY DEF Publish, Published
<1>7. TypeOK'
  BY <1>5, <1>6 DEF IInv, TypeOK, Publish, UnchangedByCore0, Published
<1> QED
  BY <1>4, <1>7 DEF IInv, KeyboardIsStill, Publish, UnchangedByCore0

\* What the three rounds of process_inputs have in common.
LEMMA Read ==
  ASSUME IInv, NEW exit \in BOOLEAN, ReadInputs(exit)
  PROVE  /\ Dx' = 0 /\ InEndpoint' = InEndpoint
         /\ Dx \in Motion /\ InEndpoint \in Motion
         /\ KeyboardIsStill'
         /\ input' \in [old : BOOLEAN, exit : BOOLEAN, has_motion : BOOLEAN]
<1>1. Dx' = 0
  BY OfBuffer DEF ReadInputs
<1>2. InEndpoint' = InEndpoint
  BY DEF ReadInputs, InEndpoint
<1>3. Dx \in Motion /\ HasMotion \in BOOLEAN /\ InEndpoint \in Motion
  BY InBuffer, AtEndpoint DEF IInv
<1>4. input.old \in BOOLEAN /\ Escape \in BOOLEAN
  BY DEF IInv, TypeOK, Escape
<1>5. KeyboardIsStill'
  BY DEF IInv, KeyboardIsStill, ReadInputs
<1> QED
  BY <1>1, <1>2, <1>3, <1>4, <1>5 DEF ReadInputs

\* A screen discards the motion that was read.
LEMMA ShowWelcomeStep ==
  ASSUME IInv, ShowWelcome
  PROVE  IInv'
<1> USE MotionAssumption
<1>1. ReadInputs(input.exit) /\ input.exit \in BOOLEAN
  BY DEF ShowWelcome, IInv, TypeOK
<1>2. MotionAccounted' /\ lost' \in Motion
  <2>1. Dx' = 0 /\ InEndpoint' = InEndpoint /\ Dx \in Motion /\ InEndpoint \in Motion
    BY <1>1, Read
  <2>2. UNCHANGED <<host, published, report>> /\ lost' = lost + Dx
    BY <1>1 DEF ShowWelcome, ReadInputs
  <2> QED
    BY <2>1, <2>2, Amounts DEF IInv, MotionAccounted, Motion
<1>3. TypeOK'
  BY <1>1, <1>2, Read, ZenonT(30) DEF IInv, TypeOK, ShowWelcome, ReadInputs
<1> QED
  BY <1>1, <1>2, <1>3, Read DEF IInv

LEMMA ReportInputsStep ==
  ASSUME IInv, NEW sun \in BOOLEAN, ReportInputs(sun)
  PROVE  IInv'
<1> USE MotionAssumption
<1>1. ReadInputs(input.exit) /\ input.exit \in BOOLEAN
  BY DEF ReportInputs, IInv, TypeOK
<1>2. report'.delta = report.delta + Dx
  BY DEF ReportInputs
<1>3. MotionAccounted' /\ report.delta + Dx \in Motion
  <2>1. Dx' = 0 /\ InEndpoint' = InEndpoint /\ Dx \in Motion /\ InEndpoint \in Motion
    BY <1>1, Read
  <2>2. UNCHANGED <<host, published, lost>>
    BY <1>1 DEF ReportInputs, ReadInputs
  <2> QED
    BY <1>2, <2>1, <2>2, Amounts DEF IInv, MotionAccounted, Motion
<1>4. HasMotion \in BOOLEAN
  BY InBuffer DEF IInv
<1>5. report' \in [events : BOOLEAN, keys : SUBSET {"escape"},
                   buttons : SUBSET {"button"}, delta : Motion]
  BY <1>3, <1>4 DEF ReportInputs, Escape
<1>6. inner' \in BOOLEAN
  BY DEF ReportInputs
<1>7. TypeOK'
  BY <1>1, <1>5, <1>6, Read DEF IInv, TypeOK, ReportInputs, ReadInputs
<1> QED
  BY <1>1, <1>3, <1>7, Read DEF IInv

\* The report that is discarded may hold motion that never was sent.
LEMMA WorkConfigScreenStep ==
  ASSUME IInv, NEW other \in BOOLEAN, WorkConfigScreen(other)
  PROVE  IInv'
<1> USE MotionAssumption
<1>1. PICK exit \in BOOLEAN : ReadInputs(exit)
  BY DEF WorkConfigScreen
<1>2. report' = EmptyReport /\ config' \in BOOLEAN /\ inner' \in BOOLEAN
  BY DEF WorkConfigScreen
<1>3. MotionAccounted' /\ lost' \in Motion
  <2>1. Dx' = 0 /\ InEndpoint' = InEndpoint /\ Dx \in Motion /\ InEndpoint \in Motion
    BY <1>1, Read
  <2>2. UNCHANGED <<host, published>> /\ lost' = lost + report.delta + Dx
    BY <1>1 DEF WorkConfigScreen, ReadInputs
  <2>3. report'.delta = 0
    BY <1>2 DEF EmptyReport
  <2> QED
    BY <2>1, <2>2, <2>3, Amounts DEF IInv, MotionAccounted, Motion
<1>4. EmptyReport \in [events : BOOLEAN, keys : SUBSET {"escape"},
                      buttons : SUBSET {"button"}, delta : Motion]
  BY DEF EmptyReport, Motion
<1>5. TypeOK'
  BY <1>1, <1>2, <1>3, <1>4, Read DEF IInv, TypeOK, ReadInputs
<1> QED
  BY <1>1, <1>3, <1>5, Read DEF IInv

LEMMA ResetStep ==
  ASSUME IInv, Reset
  PROVE  IInv'
<1>1. UNCHANGED <<Dx, InEndpoint>>
  BY DEF Reset, Dx, InEndpoint
<1> QED
  BY <1>1, ZenonT(30) DEF IInv, TypeOK, MotionAccounted, KeyboardIsStill, Reset

-----------------------------------------------------------------------------
\* A completion moves the motion of the report to the endpoint, or nothing.  The
\* endpoint is free then: its completion is not handled yet.
LEMMA Tud ==
  ASSUME IInv
  PROVE  /\ ReportAfterTud \in [events : BOOLEAN, keys : SUBSET {"escape"},
                                buttons : SUBSET {"button"}, delta : Motion]
         /\ EpAfterTud \in {{}} \cup {{r} : r \in Report}
         /\ \A r \in EpAfterTud : r.id = "keyboard" => r.delta = 0
         /\ ep' = EpAfterTud =>
              /\ InEndpoint' \in Motion
              /\ ReportAfterTud.delta + InEndpoint' = report.delta + InEndpoint
<1>1. CASE SendsMouse
  <2>1. ep = {} /\ InEndpoint = 0
    BY <1>1, OfReport DEF SendsMouse, IInv, TypeOK
  <2>2. /\ ReportAfterTud = [report EXCEPT !.delta = 0]
        /\ EpAfterTud = {MouseReport}
    BY <1>1 DEF ReportAfterTud, EpAfterTud
  <2>3. ReportAfterTud.delta = 0
    BY <2>2 DEF IInv, TypeOK
  <2>4. ReportAfterTud \in [events : BOOLEAN, keys : SUBSET {"escape"},
                            buttons : SUBSET {"button"}, delta : Motion]
    BY <2>2, MotionAssumption DEF IInv, TypeOK, Motion
  <2>5. MouseReport \in Report /\ MouseReport.delta = report.delta
    BY ReportsTyped DEF IInv
  <2>6. ep' = EpAfterTud => InEndpoint' = report.delta
    BY <2>2, <2>5, OfReport
  <2>7. report.delta \in Motion /\ report.delta \in Int
    BY Amounts DEF IInv, Motion
  <2>8. MouseReport.id # "keyboard"
    BY DEF MouseReport
  <2> QED
    BY <2>1, <2>2, <2>3, <2>4, <2>5, <2>6, <2>7, <2>8
<1>2. CASE ~SendsMouse
  <2>1. ReportAfterTud = report /\ EpAfterTud = ep
    BY <1>2 DEF ReportAfterTud, EpAfterTud
  <2>2. ep' = ep => InEndpoint' = InEndpoint
    BY DEF InEndpoint
  <2>3. InEndpoint \in Motion
    BY AtEndpoint DEF IInv
  <2> QED
    BY <2>1, <2>2, <2>3 DEF IInv, TypeOK, KeyboardIsStill, Report
<1> QED
  BY <1>1, <1>2

LEMMA IdleStep ==
  ASSUME IInv, usb_hid_idle_task
  PROVE  IInv'
<1>1. UNCHANGED <<Dx, published, lost, host>>
  BY DEF usb_hid_idle_task, UnchangedByUsb, Dx
<1>2. /\ report'.delta + InEndpoint' = report.delta + InEndpoint
      /\ InEndpoint' \in Motion /\ KeyboardIsStill'
  BY Tud DEF usb_hid_idle_task, KeyboardIsStill
<1>3. TypeOK'
  BY Tud DEF usb_hid_idle_task, UnchangedByUsb, IInv, TypeOK, Report
<1>4. Dx \in Int /\ InEndpoint \in Int /\ InEndpoint' \in Int /\ report'.delta \in Int
  BY <1>2, <1>3, InBuffer, AtEndpoint DEF IInv, TypeOK, Motion
<1>5. MotionAccounted'
  BY <1>1, <1>2, <1>4, Amounts DEF IInv, MotionAccounted, Motion
<1> QED
  BY <1>2, <1>3, <1>5 DEF IInv

\* A keyboard report carries no motion.
LEMMA UsbStep ==
  ASSUME IInv, usb_hid_task
  PROVE  IInv'
<1>1. UNCHANGED <<Dx, published, lost, host>>
  BY DEF usb_hid_task, UnchangedByUsb, Dx
<1>2. /\ report'.delta + InEndpoint' = report.delta + InEndpoint
      /\ InEndpoint' \in Motion /\ KeyboardIsStill'
      /\ ep' \in {{}} \cup {{r} : r \in Report}
  <2>1. CASE ep' = EpAfterTud
    BY <2>1, Tud DEF usb_hid_task, KeyboardIsStill
  <2>2. CASE ep' = {KeyboardReport} /\ EpAfterTud = {}
    <3>1. ep = {} /\ ~SendsMouse
      BY <2>2 DEF EpAfterTud
    <3>2. /\ KeyboardReport \in Report /\ InEndpoint' = 0 /\ InEndpoint = 0
          /\ KeyboardReport.delta = 0 /\ 0 \in Motion
      BY <2>2, <3>1, ReportsTyped, OfReport, MotionAssumption DEF IInv, Motion
    <3>3. report' = report
      BY <3>1 DEF usb_hid_task, ReportAfterTud
    <3> QED
      BY <2>2, <3>2, <3>3 DEF KeyboardIsStill
  <2> QED
    BY <2>1, <2>2 DEF usb_hid_task, CanSend
<1>3. had_events' \in BOOLEAN
  BY DEF usb_hid_task, HadEvents, IInv, TypeOK
<1>4. report' = ReportAfterTud /\ pc' = "loop" /\ completed' = {}
  BY DEF usb_hid_task
<1>5. TypeOK'
  BY <1>2, <1>3, <1>4, Tud DEF usb_hid_task, UnchangedByUsb, IInv, TypeOK, Report
<1>6. Dx \in Int /\ InEndpoint \in Int /\ InEndpoint' \in Int /\ report'.delta \in Int
  BY <1>2, <1>5, InBuffer, AtEndpoint DEF IInv, TypeOK, Motion
<1>7. MotionAccounted'
  BY <1>1, <1>2, <1>6, Amounts DEF IInv, MotionAccounted, Motion
<1> QED
  BY <1>2, <1>5, <1>7 DEF IInv

-----------------------------------------------------------------------------
\* The motion of a mouse report is the host's; a keyboard report carries none.
LEMMA PollStep ==
  ASSUME IInv, Poll
  PROVE  IInv'
<1>1. PICK r \in ep :
        /\ completed' = {r.id}
        /\ host' = IF r.id = "keyboard" THEN [host EXCEPT !.keys = r.keys]
                   ELSE [host EXCEPT !.buttons = r.buttons, !.moved = @ + r.delta]
  BY DEF Poll
<1>2. ep = {r} /\ r \in Report
  BY <1>1 DEF IInv, TypeOK, Report
<1>3. InEndpoint = r.delta /\ InEndpoint' = 0
  BY <1>2, OfReport DEF Poll
<1>4. UNCHANGED <<Dx, published, lost, report>>
  BY DEF Poll, UnchangedByHost, Dx
<1>5. host'.moved = host.moved + r.delta
  <2>1. CASE r.id = "keyboard"
    <3>1. r.delta = 0
      BY <2>1, <1>2 DEF IInv, KeyboardIsStill
    <3>2. host'.moved = host.moved
      BY <1>1, <2>1 DEF IInv, TypeOK
    <3> QED
      BY <3>1, <3>2, Amounts DEF IInv, Motion
  <2>2. CASE r.id # "keyboard"
    BY <1>1, <2>2 DEF IInv, TypeOK
  <2> QED
    BY <2>1, <2>2
<1>6. Dx \in Motion /\ r.delta \in Motion
  BY <1>2, InBuffer DEF IInv, Report
<1>7. MotionAccounted' /\ host'.moved \in Motion
  BY <1>3, <1>4, <1>5, <1>6, Amounts, MotionAssumption DEF IInv, MotionAccounted, Motion
<1>8. host' \in [keys : SUBSET {"escape"}, buttons : SUBSET {"button"}, moved : Motion]
  <2>1. r.keys \in SUBSET {"escape"} /\ r.buttons \in SUBSET {"button"}
    BY <1>2 DEF Report
  <2>2. CASE r.id = "keyboard"
    BY <1>1, <2>1, <2>2 DEF IInv, TypeOK
  <2>3. CASE r.id # "keyboard"
    <3>1. host' = [host EXCEPT !.buttons = r.buttons, !.moved = host.moved + r.delta]
      BY <1>1, <2>3
    <3>2. host.moved + r.delta \in Motion
      BY <1>5, <1>7
    <3> QED
      BY <2>1, <3>1, <3>2 DEF IInv, TypeOK
  <2> QED
    BY <2>2, <2>3
<1>9. completed' \in {{}, {"keyboard"}, {"mouse"}} /\ ep' = {}
  BY <1>1, <1>2 DEF Report, Poll
<1>10. TypeOK' /\ KeyboardIsStill'
  BY <1>8, <1>9 DEF IInv, TypeOK, KeyboardIsStill, Poll, UnchangedByHost
<1> QED
  BY <1>7, <1>10 DEF IInv

LEMMA BusStep ==
  ASSUME IInv, Suspend \/ Resume
  PROVE  IInv'
<1>1. UNCHANGED <<keys, motion, input, config, reset_screen, report, had_events, pc, ep,
                   completed, host, inner, lost, published>>
  BY DEF Suspend, Resume, UnchangedByHost
<1>2. bus' \in {"ready", "suspended", "off"}
  BY DEF Suspend, Resume
<1>3. UNCHANGED <<Dx, InEndpoint>>
  BY <1>1 DEF Dx, InEndpoint
<1>4. TypeOK'
  BY <1>1, <1>2 DEF IInv, TypeOK
<1>5. MotionAccounted' /\ KeyboardIsStill'
  BY <1>1, <1>3 DEF IInv, MotionAccounted, KeyboardIsStill
<1> QED
  BY <1>4, <1>5 DEF IInv

\* What is in the endpoint is lost.
LEMMA UnplugStep ==
  ASSUME IInv, Unplug
  PROVE  IInv'
<1>1. Dx' = Dx /\ InEndpoint' = 0
  BY OfReport DEF Unplug, UnchangedByHost, Dx
<1>2. Dx \in Motion /\ InEndpoint \in Motion
  BY InBuffer, AtEndpoint DEF IInv
<1>3. host'.moved = host.moved /\ lost' = lost + InEndpoint
  BY DEF Unplug, IInv, TypeOK
<1>4. UNCHANGED <<published, report>>
  BY DEF Unplug, UnchangedByHost
<1>5. MotionAccounted' /\ lost' \in Motion
  BY <1>1, <1>2, <1>3, <1>4, Amounts, MotionAssumption DEF IInv, MotionAccounted, Motion
<1>6. host' \in [keys : SUBSET {"escape"}, buttons : SUBSET {"button"}, moved : Motion]
  BY DEF Unplug, IInv, TypeOK
<1>7. TypeOK' /\ KeyboardIsStill'
  BY <1>5, <1>6 DEF IInv, TypeOK, KeyboardIsStill, Unplug, UnchangedByHost
<1> QED
  BY <1>5, <1>7 DEF IInv

-----------------------------------------------------------------------------
LEMMA NextStep ==
  ASSUME IInv, [Next]_vars
  PROVE  IInv'
<1>1. CASE ProcessInputs \/ Reset
  BY <1>1, ShowWelcomeStep, ReportInputsStep, WorkConfigScreenStep, ResetStep
     DEF ProcessInputs
<1>2. CASE usb_hid_idle_task \/ usb_hid_task
  BY <1>2, IdleStep, UsbStep
<1>3. CASE Poll \/ Suspend \/ Resume \/ Unplug
  BY <1>3, PollStep, BusStep, UnplugStep
<1>4. ASSUME NEW k \in Key, UserKey(k)
      PROVE  IInv'
  BY <1>4, UserKeyStep
<1>5. ASSUME NEW has \in BOOLEAN, NEW d \in 0 .. MAX_MOTION, Publish(has, d)
      PROVE  IInv'
  BY <1>5, PublishStep DEF Motion
<1>6. CASE UNCHANGED vars
  <2>1. UNCHANGED <<Dx, InEndpoint>>
    BY <1>6 DEF vars, Dx, InEndpoint
  <2> QED
    BY <1>6, <2>1 DEF vars, IInv, TypeOK, MotionAccounted, KeyboardIsStill
<1> QED
  BY <1>1, <1>2, <1>3, <1>4, <1>5, <1>6 DEF Next

\* What follows is invariant whatever the bound on the motion.
LEMMA Inductive == Spec => []IInv
<1>1. Init => IInv
  BY InitStep
<1>2. IInv /\ [Next]_vars => IInv'
  BY NextStep
<1> QED
  BY <1>1, <1>2, PTL DEF Spec

\* The variables keep to their types: a report waits in the endpoint or for its
\* completion to be handled, never both.
THEOREM TypeCorrect == Spec => []TypeOK
<1>1. IInv => TypeOK
  BY DEF IInv
<1> QED
  BY <1>1, Inductive, PTL

\* core1.c:219: motion reaches the host once.  Every unit published was overwritten,
\* discarded by a screen or lost with the bus, or is on its way, or at the host.
THEOREM AllMotionAccounted == Spec => []MotionAccounted
<1>1. IInv => MotionAccounted
  BY DEF IInv
<1> QED
  BY <1>1, Inductive, PTL

-----------------------------------------------------------------------------
\* Only a config screen has an escape of its own, and it is not left while that
\* escape is held: no report is made of it.
EscapeInv == inner => config /\ "escape" \notin report.keys

LEMMA KeysAfterTud ==
  ASSUME TypeOK
  PROVE  ReportAfterTud.keys = report.keys
BY DEF TypeOK, ReportAfterTud

LEMMA EscapeStep ==
  ASSUME TypeOK, EscapeInv, [Next]_vars
  PROVE  EscapeInv'
<1>1. CASE ShowWelcome
  BY <1>1 DEF ShowWelcome, EscapeInv
<1>2. ASSUME NEW sun \in BOOLEAN, ReportInputs(sun)
      PROVE  EscapeInv'
  BY <1>2 DEF ReportInputs, EscapeInv
<1>3. ASSUME NEW other \in BOOLEAN, WorkConfigScreen(other)
      PROVE  EscapeInv'
  <2>1. report'.keys = {}
    BY <1>3 DEF WorkConfigScreen, EmptyReport
  <2>2. inner' => config'
    BY <1>3 DEF WorkConfigScreen, Leaves
  <2> QED
    BY <2>1, <2>2 DEF EscapeInv
<1>4. CASE Reset
  BY <1>4 DEF Reset, EscapeInv
<1>5. CASE usb_hid_idle_task \/ usb_hid_task
  <2>1. report' = ReportAfterTud /\ UNCHANGED <<inner, config>>
    BY <1>5 DEF usb_hid_idle_task, usb_hid_task, UnchangedByUsb
  <2> QED
    BY <2>1, KeysAfterTud DEF EscapeInv
<1>6. CASE Poll \/ Suspend \/ Resume \/ Unplug
  BY <1>6 DEF Poll, Suspend, Resume, Unplug, UnchangedByHost, EscapeInv
<1>7. ASSUME NEW k \in Key, UserKey(k)
      PROVE  EscapeInv'
  BY <1>7 DEF UserKey, UnchangedByCore0, EscapeInv
<1>8. ASSUME NEW has \in BOOLEAN, NEW d \in 0 .. MAX_MOTION, Publish(has, d)
      PROVE  EscapeInv'
  BY <1>8 DEF Publish, UnchangedByCore0, EscapeInv
<1>9. CASE UNCHANGED vars
  BY <1>9 DEF vars, EscapeInv
<1> QED
  BY <1>1, <1>2, <1>3, <1>4, <1>5, <1>6, <1>7, <1>8, <1>9 DEF Next, ProcessInputs

\* input_processor.c:216: the escape pressed in a config screen is not reported.
THEOREM EscapeNotReported == Spec => []EscapeStaysInside
<1>1. Init => EscapeInv
  BY DEF Init, EscapeInv
<1>2. TypeOK /\ EscapeInv /\ [Next]_vars => EscapeInv'
  BY EscapeStep
<1>3. EscapeInv => EscapeStaysInside
  BY DEF EscapeInv, EscapeStaysInside
<1> QED
  BY <1>1, <1>2, <1>3, TypeCorrect, PTL DEF Spec

=============================================================================
