------------------------------ MODULE PowerScreen -----------------------------
(***************************************************************************)
(* The power screen and the backlight it sets.  The editor lives on the    *)
(* left node; core1 of the AP turns keys into tasks for it, stores what    *)
(* the editor answers to a save, applies it, and dims the backlight when   *)
(* nothing happens.                                                        *)
(*                                                                         *)
(* Tasks are as TaskFlow promises them: executed once and in order, except *)
(* that a task may be skipped when a later one has replaced it, and        *)
(* answered.  Abstracted: ids, of which only matters whether a response is *)
(* to the AP's current request; the steps of ten of the backlight; the     *)
(* other screens, of which a task and a response stand for all; drawing.   *)
(***************************************************************************)
EXTENDS Naturals, Sequences, SequencesExt, FiniteSetsExt

CONSTANTS
  LEVELS,   \* backlight is in 0 .. LEVELS, 10 % each
  MINUTES,  \* minutes are counted modulo this; the last one means never
  CHOICES   \* the minutes to choose from

ASSUME LevelsAssumption == LEVELS \in Nat \ {0}
ASSUME MinutesAssumption ==
  /\ MINUTES \in Nat \ {0, 1}
  /\ CHOICES \in SUBSET (1 .. MINUTES - 1) /\ CHOICES # {}

VARIABLES
  pc,           \* core1 of the AP: before process_inputs, or after it
  screen,       \* kbd_system.screen: "info", "power", or another config screen
  reset_screen,
  setting,      \* kbd_system.backlight and core1.idle_minutes
  fd,           \* the record of the power screen in the store
  applied,      \* apply_config_screen_data has seen fd
  mins,         \* minutes since active_ts
  idle,         \* idle_prev and backlight_prev of process_idle
  lreq,         \* the screen of the left task request, if there is one
  line,         \* the tasks on their way to the left node
  editor,       \* backlight, idle_minutes and field of the node's worker
  back,         \* the responses on their way to the AP
  lres,         \* the left task response: at most one
  right_pending, \* rreq[1] = screen and rreq[0] # rres[0]
  wanted,       \* history: the backlight the user has set last
  asked         \* history: a save was requested, and neither stored nor discarded

vars == <<pc, screen, reset_screen, setting, fd, applied, mins, idle, lreq, line,
          editor, back, lres, right_pending, wanted, asked>>

Level   == 0 .. LEVELS
Never   == MINUTES - 1
Screen  == {"info", "power", "other"}
Record  == [backlight : Level, idle : 1 .. Never]

\* The editor's variables before the first task.
Blank == [backlight |-> 0, idle |-> 0, field |-> 0]

Init ==
  /\ pc = "inputs"
  /\ screen = "info" /\ reset_screen = TRUE
  /\ fd \in [backlight : Level, idle : CHOICES]
  /\ setting = fd /\ applied = TRUE
  /\ mins = 0
  /\ idle = [prev |-> FALSE, backlight |-> 0]
  /\ lreq = {} /\ line = <<>>
  /\ editor = Blank
  /\ back = <<>> /\ lres = {}
  /\ right_pending = FALSE
  /\ wanted = fd.backlight
  /\ asked = FALSE

-----------------------------------------------------------------------------
(* Tasks *)

NoValues == [backlight |-> 0, idle |-> 0]

Task(cmd, values) == [cmd |-> cmd, values |-> values]

\* A task of another screen.
OtherTask == Task("other", NoValues)

\* Nothing but the request made last is current.
Outdated(responses) == [i \in DOMAIN responses |-> [responses[i] EXCEPT !.current = FALSE]]

\* init_task_request and the fields set after it.  The task before it may be
\* under way, or still be in a buffer and be replaced.
NewRequest(s, task) ==
  /\ lreq' = {s}
  /\ LET sent == Outdated(line)
         new  == [task |-> task, current |-> TRUE]
     IN  \/ Len(line) < 2 /\ line' = Append(sent, new)
         \/ line # <<>> /\ line' = Append(Front(sent), new)
  /\ back' = Outdated(back)
  /\ lres' = {[r EXCEPT !.current = FALSE] : r \in lres}

NoRequest == UNCHANGED <<lreq, line, back, lres>>

\* validate_comm_state.  When it is the left node's session that starts anew, the
\* node has dropped its tasks and may have restarted.
Reset(node) ==
  /\ pc = "inputs"
  /\ screen' = "info" /\ reset_screen' = TRUE
  /\ lreq' = {} /\ lres' = {} /\ right_pending' = FALSE
  /\ asked' = FALSE
  /\ \/ /\ node = "left"
        /\ line' = <<>> /\ back' = <<>>
        /\ editor' \in {editor, Blank}
     \/ /\ node = "right"
        /\ line' = Outdated(line)
        /\ back' = Outdated(back)
        /\ UNCHANGED editor
  /\ UNCHANGED <<pc, setting, fd, applied, mins, idle, wanted>>

-----------------------------------------------------------------------------
(* process_inputs *)

\* Faulty variant: the step is not limited.
HigherUnlimited == setting.backlight + 1

Higher == IF setting.backlight < LEVELS THEN setting.backlight + 1 ELSE LEVELS
Lower  == IF setting.backlight > 0 THEN setting.backlight - 1 ELSE 0

\* An event, or a key that makes a report outside the config screens, is activity.
Active(event) == mins' = IF event = "none" THEN mins ELSE 0

InputsDone == pc' = "idle" /\ UNCHANGED <<editor, idle>>

\* The INIT event of the screen s: both nodes get a task.
ShowScreen(s) ==
  /\ NewRequest(s, IF s = "power" THEN Task("init", setting) ELSE OtherTask)
  /\ right_pending' = TRUE
  /\ asked' = FALSE

\* The first round after a reset.
ShowWelcome ==
  /\ pc = "inputs" /\ reset_screen
  /\ reset_screen' = FALSE
  /\ mins' = 0
  /\ ShowScreen(screen)
  /\ InputsDone
  /\ UNCHANGED <<screen, setting, fd, applied, wanted>>

\* CONFIG, EXIT, NEXT and PREV.  The config screens start with another one.
Navigate(s) ==
  /\ pc = "inputs" /\ ~reset_screen
  /\ <<screen, s>> \notin {<<"info", "power">>, <<"power", "power">>}
  /\ screen' = s
  /\ mins' = 0
  /\ ShowScreen(s)
  /\ InputsDone
  /\ UNCHANGED <<reset_screen, setting, fd, applied, wanted>>

\* process_basic_event: the backlight keys, outside the config screens.
BacklightKey(level) ==
  /\ pc = "inputs" /\ ~reset_screen /\ screen = "info"
  /\ setting' = [setting EXCEPT !.backlight = level]
  /\ wanted' = IF idle.prev THEN wanted ELSE level
  /\ mins' = 0
  /\ InputsDone
  /\ UNCHANGED <<screen, reset_screen, fd, applied, right_pending, asked>> /\ NoRequest

\* Faulty variant: a task is made whether or not the last one is completed.
PendingNever == FALSE

Pending ==
  \/ lreq = {screen} /\ ~ \E r \in lres : r.current
  \/ right_pending

\* Faulty variant: a response waits until no key is pressed.
ResponseWhenQuiet(event) ==
  event = "none" /\ \E r \in lres : r.saves /\ screen = "power"

NewResponse(event) == \E r \in lres : r.saves /\ screen = "power"

\* What the power screen makes of an event: a task for the editor.
PowerTask(event) ==
  /\ screen = "power"
  /\ event \in {"save", "field", "prev", "next"}
  /\ NewRequest(screen, Task(event, NoValues))
  /\ asked' = (event = "save")
  /\ UNCHANGED <<fd, applied>>

\* The response to a save, instead of whatever event there was.
Store ==
  /\ \E r \in lres :
       /\ fd' = r.values
       /\ applied' = FALSE
       /\ NewRequest(screen, Task("init", r.values))
  /\ asked' = FALSE

HandleEvent(event) ==
  /\ pc = "inputs" /\ ~reset_screen
  /\ Active(event)
  /\ \/ ~Pending /\ NewResponse(event) /\ Store
     \/ ~Pending /\ ~NewResponse(event) /\ PowerTask(event)
     \/ /\ Pending \/ (~NewResponse(event) /\ (screen # "power" \/ event \in {"none", "key"}))
        /\ UNCHANGED <<fd, applied, asked>> /\ NoRequest
  /\ event = "key" => screen = "info"
  /\ InputsDone
  /\ UNCHANGED <<screen, reset_screen, setting, right_pending, wanted>>

-----------------------------------------------------------------------------
(* process_idle *)

Idle == setting.idle # Never /\ mins >= setting.idle

\* Faulty variant: what is remembered is what it was in the round before.
DimmedAlways ==
  IF Idle THEN <<[setting EXCEPT !.backlight = 0],
                 [prev |-> TRUE, backlight |-> setting.backlight]>>
  ELSE <<[setting EXCEPT !.backlight = IF idle.prev THEN idle.backlight ELSE @],
         [idle EXCEPT !.prev = FALSE]>>

\* The setting and the static variables after process_idle.
Dimmed ==
  IF Idle /\ ~idle.prev
  THEN <<[setting EXCEPT !.backlight = 0], [prev |-> TRUE, backlight |-> setting.backlight]>>
  ELSE <<[setting EXCEPT !.backlight = IF idle.prev /\ ~Idle THEN idle.backlight ELSE @],
         [idle EXCEPT !.prev = Idle]>>

\* process_idle, and apply_config_screen_data_power at the top of the next round.
EndRound ==
  /\ pc = "idle" /\ pc' = "inputs"
  /\ idle' = Dimmed[2]
  /\ setting' = IF applied THEN Dimmed[1] ELSE fd
  /\ wanted' = IF applied THEN wanted ELSE fd.backlight
  /\ applied' = TRUE
  /\ UNCHANGED <<screen, reset_screen, fd, mins, lreq, line, editor, back, lres,
                 right_pending, asked>>

\* A minute without activity.  A save takes less than that.
Minute ==
  /\ pc = "inputs" /\ ~asked
  /\ mins' = (mins + 1) % MINUTES
  /\ UNCHANGED <<pc, screen, reset_screen, setting, fd, applied, idle, lreq, line, editor,
                 back, lres, right_pending, wanted, asked>>

-----------------------------------------------------------------------------
(* The nodes *)

\* The choice after m minutes, and the one before; after the last comes the first.
NextMinutes(m) ==
  LET more == {n \in CHOICES : n > m}
  IN  IF m \notin CHOICES \/ more = {} THEN Min(CHOICES) ELSE Min(more)
PrevMinutes(m) ==
  LET less == {n \in CHOICES : n < m}
  IN  IF m \notin CHOICES THEN Min(CHOICES)
      ELSE IF less = {} THEN Max(CHOICES) ELSE Max(less)

SelectedNext ==
  IF editor.field = 0
  THEN [editor EXCEPT !.backlight = IF @ >= LEVELS - 1 THEN LEVELS ELSE @ + 1]
  ELSE [editor EXCEPT !.idle = NextMinutes(@)]
SelectedPrev ==
  IF editor.field = 0
  THEN [editor EXCEPT !.backlight = IF @ <= 1 THEN 0 ELSE @ - 1]
  ELSE [editor EXCEPT !.idle = PrevMinutes(@)]

\* work_screen_task_power, on the editor.
Worked(task) ==
  CASE task.cmd \in {"save", "other"} -> editor
    [] task.cmd = "init"  -> [backlight |-> task.values.backlight,
                              idle |-> task.values.idle, field |-> 0]
    [] task.cmd = "field" -> [editor EXCEPT !.field = 1 - @]
    [] task.cmd = "prev"  -> SelectedPrev
    [] task.cmd = "next"  -> SelectedNext

\* work_screen_task: only a save is answered with data.
LeftWorks ==
  /\ line # <<>> /\ back = <<>>
  /\ LET t == Head(line).task IN
       /\ editor' = Worked(t)
       /\ back' = Append(back,
            [saves |-> t.cmd = "save",
             values |-> IF t.cmd = "save" THEN [backlight |-> editor.backlight, idle |-> editor.idle]
                        ELSE NoValues,
             current |-> Head(line).current])
  /\ line' = Tail(line)
  /\ UNCHANGED <<pc, screen, reset_screen, setting, fd, applied, mins, idle, lreq, lres,
                 right_pending, wanted, asked>>

LeftAnswers ==
  /\ back # <<>>
  /\ lres' = {Head(back)} /\ back' = Tail(back)
  /\ UNCHANGED <<pc, screen, reset_screen, setting, fd, applied, mins, idle, lreq, line,
                 editor, right_pending, wanted, asked>>

RightAnswers ==
  /\ right_pending /\ right_pending' = FALSE
  /\ UNCHANGED <<pc, screen, reset_screen, setting, fd, applied, mins, idle, lreq, line,
                 editor, back, lres, wanted, asked>>

Event == {"none", "key", "save", "field", "prev", "next"}

ProcessInputs ==
  \/ ShowWelcome
  \/ \E s \in Screen : Navigate(s)
  \/ BacklightKey(Higher) \/ BacklightKey(Lower)
  \/ \E event \in Event : HandleEvent(event)

Next ==
  \/ ProcessInputs \/ EndRound \/ Minute
  \/ \E node \in {"left", "right"} : Reset(node)
  \/ LeftWorks \/ LeftAnswers \/ RightAnswers

Spec == Init /\ [][Next]_vars

\* core1 of each board keeps running, and tasks are answered.
Fairness ==
  /\ WF_vars(ProcessInputs) /\ WF_vars(EndRound)
  /\ WF_vars(LeftWorks) /\ WF_vars(LeftAnswers) /\ WF_vars(RightAnswers)

FairSpec == Spec /\ Fairness

-----------------------------------------------------------------------------
TypeOK ==
  /\ pc \in {"inputs", "idle"}
  /\ screen \in Screen /\ reset_screen \in BOOLEAN
  /\ setting \in Record /\ fd \in Record
  /\ applied \in BOOLEAN
  /\ mins \in 0 .. MINUTES - 1
  /\ idle \in [prev : BOOLEAN, backlight : Level]
  /\ lreq \in {{}} \cup {{s} : s \in Screen}
  /\ Len(line) <= 2 /\ Len(back) <= 1
  /\ editor \in [backlight : Level, idle : 0 .. Never, field : {0, 1}]
  /\ right_pending \in BOOLEAN
  /\ wanted \in Level /\ asked \in BOOLEAN

\* core1.c:150 "turned idle", 153 "turned active": the backlight is off while idle and
\* otherwise what the user has set last by key or by a save, however the three meet.
BacklightFollowsUser ==
  pc = "inputs" =>
    IF idle.prev THEN setting.backlight = 0 /\ idle.backlight = wanted
    ELSE setting.backlight = wanted

\* screen_model.h:52 "no more tasks until the current one is completed": what is
\* stored was asked for on this visit of the screen and is what the editor shows.
SavesWhatIsShown ==
  [][fd' # fd =>
       asked /\ fd' = [backlight |-> editor.backlight, idle |-> editor.idle]]_vars

\* A save is stored, whatever keys are pressed meanwhile, unless the user leaves the
\* screen or a session is reset.
SaveIsStored == asked ~> ~asked

=============================================================================
