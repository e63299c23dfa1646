--------------------------- MODULE PowerScreenProofs --------------------------
(***************************************************************************)
(* The backlight follows the user, and what is stored is what the editor   *)
(* shows, for any number of levels, minutes and choices.                   *)
(***************************************************************************)
EXTENDS PowerScreen, SequenceTheorems, WellFoundedInduction, TLAPS

-----------------------------------------------------------------------------
(* The minutes to choose from *)

Less == OpToRel(<, Nat)

LEMMA LessDef ==
  ASSUME NEW x \in Nat, NEW y \in Nat, x < y
  PROVE  <<x, y>> \in Less
<1>1. <<x, y>> \in Nat \X Nat /\ <<x, y>>[1] < <<x, y>>[2]
  OBVIOUS
<1> QED
  BY <1>1, Zenon DEF Less, OpToRel

\* Sets of numbers have a least one, and bounded ones a largest.
LEMMA Least ==
  ASSUME NEW S \in SUBSET Nat, S # {}
  PROVE  Min(S) \in S
<1>1. IsWellFoundedOn(Less, Nat)
  BY NatLessThanWellFounded DEF Less
<1>2. PICK x \in S : \A y \in S : ~(<<y, x>> \in Less)
  BY <1>1, WFMin
<1>3. ASSUME NEW y \in S
      PROVE  x =< y
  <2>1. x \in Nat /\ y \in Nat /\ ~(<<y, x>> \in Less)
    BY <1>2
  <2> QED
    BY <2>1, LessDef
<1> QED
  BY <1>2, <1>3 DEF Min

LEMMA Largest ==
  ASSUME NEW n \in Nat, NEW S \in SUBSET (0 .. n), S # {}
  PROVE  Max(S) \in S
<1> DEFINE T == {n - x : x \in S}
<1>1. T \in SUBSET Nat /\ T # {}
  <2>1. \A x \in S : x \in Int /\ n - x \in Nat
    OBVIOUS
  <2> QED
    BY <2>1, Zenon
<1> HIDE DEF T
<1>2. IsWellFoundedOn(Less, Nat)
  BY NatLessThanWellFounded DEF Less
<1>3. PICK t \in T : \A y \in T : ~(<<y, t>> \in Less)
  BY <1>1, <1>2, WFMin
<1>4. ASSUME NEW y \in T
      PROVE  t =< y
  <2>1. t \in Nat /\ y \in Nat /\ ~(<<y, t>> \in Less)
    BY <1>1, <1>3
  <2> QED
    BY <2>1, LessDef
<1>5. PICK x \in S : t = n - x
  BY <1>3 DEF T
<1>6. ASSUME NEW y \in S
      PROVE  x >= y
  <2>1. n - y \in T
    BY DEF T
  <2>2. n - x =< n - y
    BY <1>4, <1>5, <2>1
  <2> QED
    BY <2>2
<1> QED
  BY <1>5, <1>6 DEF Max

\* A choice leads to a choice, and so does anything else.
LEMMA Chosen ==
  ASSUME NEW m
  PROVE  NextMinutes(m) \in CHOICES /\ PrevMinutes(m) \in CHOICES
<1>1. CHOICES \in SUBSET Nat /\ CHOICES \in SUBSET (0 .. MINUTES) /\ CHOICES # {} /\ MINUTES \in Nat
  BY MinutesAssumption
<1>2. ASSUME NEW S \in SUBSET CHOICES, S # {}
      PROVE  Min(S) \in S /\ Max(S) \in S
  BY <1>1, <1>2, Least, Largest
<1> QED
  BY <1>1, <1>2 DEF NextMinutes, PrevMinutes

-----------------------------------------------------------------------------
(* The invariant *)

Cmd    == {"init", "save", "field", "prev", "next", "other"}
Values == [backlight : Level, idle : 0 .. Never]
Item   == [task : [cmd : Cmd, values : Values], current : BOOLEAN]
Answer == [saves : BOOLEAN, values : Values, current : BOOLEAN]

\* What is under way, besides its length.
Tasks ==
  /\ line \in Seq(Item) /\ back \in Seq(Answer)
  /\ lres \in {{}} \cup {{r} : r \in Answer}
  /\ \A i \in 1 .. Len(line) : line[i].task.cmd = "init" => line[i].task.values \in Record

\* The current request is the last, and is at one place.
OneCurrent ==
  /\ \A i \in 1 .. Len(line) : line[i].current =>
       /\ i = Len(line)
       /\ \A j \in 1 .. Len(back) : ~back[j].current
  /\ \A j \in 1 .. Len(back) : back[j].current => line = <<>>
  /\ \A r \in lres : r.current => line = <<>> /\ back = <<>>

\* A save that is current was asked for, and is answered with what the editor shows.
Shown == [backlight |-> editor.backlight, idle |-> editor.idle]
Saves ==
  /\ \A i \in 1 .. Len(line) : line[i].current /\ line[i].task.cmd = "save" => asked
  /\ \A j \in 1 .. Len(back) :
       back[j].current /\ back[j].saves => asked /\ back[j].values = Shown
  /\ \A r \in lres : r.current /\ r.saves => asked /\ r.values = Shown

\* The editor has the record once the request that opened the screen is executed.
Ready == editor.idle # 0
Opened ==
  /\ screen = "power" => lreq = {"power"}
  /\ screen = "power" /\ ~Ready =>
       /\ \A i \in 1 .. Len(line) : line[i].current => line[i].task.cmd = "init"
       /\ \A j \in 1 .. Len(back) : ~back[j].current
       /\ \A r \in lres : ~r.current

\* No save is under way or to be applied when idleness sets in.
Awake ==
  /\ asked => mins = 0
  /\ ~applied => mins = 0 /\ pc = "idle"

\* BacklightFollowsUser, and what is so within a round: a key may have set the backlight
\* of an idle keyboard, but then it is not idle any more.
Backlight ==
  IF idle.prev
  THEN /\ idle.backlight = wanted
       /\ setting.backlight = 0 \/ (pc = "idle" /\ mins = 0)
  ELSE setting.backlight = wanted

IInv == TypeOK /\ Tasks /\ OneCurrent /\ Saves /\ Opened /\ Awake /\ Backlight

-----------------------------------------------------------------------------
(* What a new request makes of the tasks *)

LEMMA StillTyped ==
  /\ \A r \in Item : [r EXCEPT !.current = FALSE] \in Item
  /\ \A r \in Answer : [r EXCEPT !.current = FALSE] \in Answer
<1>1. ASSUME NEW r \in Item
      PROVE  [r EXCEPT !.current = FALSE] \in Item
  BY DEF Item
<1>2. ASSUME NEW r \in Answer
      PROVE  [r EXCEPT !.current = FALSE] \in Answer
  BY DEF Answer
<1> QED
  BY <1>1, <1>2

\* Outdated keeps a sequence but for what is current.
LEMMA OutdatedProperties ==
  ASSUME NEW S, NEW s \in Seq(S), \A r \in S : [r EXCEPT !.current = FALSE] \in S
  PROVE  /\ Outdated(s) \in Seq(S)
         /\ Len(Outdated(s)) = Len(s)
         /\ \A i \in 1 .. Len(s) : Outdated(s)[i] = [s[i] EXCEPT !.current = FALSE]
<1>1. DOMAIN s = 1 .. Len(s) /\ Len(s) \in Nat
  OBVIOUS
<1>2. Outdated(s) = [i \in 1 .. Len(s) |-> [s[i] EXCEPT !.current = FALSE]]
  BY <1>1 DEF Outdated
<1>3. \A i \in 1 .. Len(s) : s[i] \in S
  OBVIOUS
<1>4. \A i \in 1 .. Len(s) : [s[i] EXCEPT !.current = FALSE] \in S
  BY <1>3
<1>5. Outdated(s) \in Seq(S)
  BY <1>1, <1>2, <1>4, IsASeq
<1>6. Len(Outdated(s)) = Len(s)
  BY <1>1, <1>2
<1> QED
  BY <1>2, <1>5, <1>6

LEMMA FrontProperties ==
  ASSUME NEW S, NEW s, Len(s) \in 1 .. 2, \A i \in 1 .. Len(s) - 1 : s[i] \in S
  PROVE  /\ Front(s) \in Seq(S) /\ Len(Front(s)) = Len(s) - 1
         /\ \A i \in 1 .. Len(Front(s)) : Front(s)[i] = s[i]
<1> DEFINE n == Len(s) - 1
<1>1. n \in {0, 1} /\ 1 \in Int
  OBVIOUS
<1>2. /\ SubSeq(s, 1, n) \in Seq(S)
      /\ Len(SubSeq(s, 1, n)) = IF 1 <= n THEN n - 1 + 1 ELSE 0
      /\ \A i \in 1 .. n - 1 + 1 : SubSeq(s, 1, n)[i] = s[1 + i - 1]
  BY <1>1, SubSeqProperties
<1>3. Front(s) = SubSeq(s, 1, n)
  BY DEF Front
<1> HIDE DEF n
<1>4. Len(Front(s)) = n
  BY <1>1, <1>2, <1>3
<1>5. \A i \in 1 .. n : Front(s)[i] = s[i]
  BY <1>1, <1>2, <1>3
<1> QED
  BY <1>2, <1>3, <1>4, <1>5 DEF n

LEMMA Requested ==
  ASSUME TypeOK, Tasks, NEW s, NEW task \in [cmd : Cmd, values : Values], NewRequest(s, task),
         task.cmd = "init" => task.values \in Record
  PROVE  /\ lreq' = {s}
         /\ Tasks'
         /\ Len(line') \in 1 .. 2 /\ Len(back') = Len(back)
         /\ line'[Len(line')] = [task |-> task, current |-> TRUE]
         /\ \A i \in 1 .. Len(line') : line'[i].current => i = Len(line')
         /\ \A j \in 1 .. Len(back') : ~back'[j].current
         /\ \A r \in lres' : ~r.current
<1> DEFINE new  == [task |-> task, current |-> TRUE]
           sent == Outdated(line)
<1>1. /\ sent \in Seq(Item) /\ Len(sent) = Len(line)
      /\ \A i \in 1 .. Len(line) : sent[i] = [line[i] EXCEPT !.current = FALSE]
  BY OutdatedProperties, StillTyped DEF Tasks
<1>2. \A i \in 1 .. Len(line) : line[i] \in Item
  BY DEF Tasks
<1>3. \A i \in 1 .. Len(line) :
        /\ ~sent[i].current
        /\ sent[i].task.cmd = "init" => sent[i].task.values \in Record
  <2> SUFFICES ASSUME NEW i \in 1 .. Len(line)
               PROVE  ~sent[i].current /\ sent[i].task = line[i].task
    BY DEF Tasks
  <2> QED
    BY <1>1, <1>2 DEF Item
<1>4. new \in Item
  BY DEF Item
<1>5. ASSUME NEW t \in Seq(Item), Len(t) \in 0 .. 1, line' = Append(t, new),
             \A i \in 1 .. Len(t) : t[i] = sent[i] /\ i \in 1 .. Len(line)
      PROVE  /\ line' \in Seq(Item) /\ Len(line') \in 1 .. 2
             /\ line'[Len(line')] = new
             /\ \A i \in 1 .. Len(line') : line'[i].current => i = Len(line')
             /\ \A i \in 1 .. Len(line') :
                  line'[i].task.cmd = "init" => line'[i].task.values \in Record
  <2>1. /\ line' \in Seq(Item) /\ Len(line') = Len(t) + 1
        /\ \A i \in 1 .. Len(t) : line'[i] = sent[i] /\ i \in 1 .. Len(line)
        /\ line'[Len(t) + 1] = new
    BY <1>4, <1>5
  <2>2. \A i \in 1 .. Len(line') : i \in 1 .. Len(t) \/ i = Len(t) + 1
    BY <1>5, <2>1
  <2>3. new.task = task
    OBVIOUS
  <2> HIDE DEF sent, new
  <2>4. \A i \in 1 .. Len(line') :
          line'[i].task.cmd = "init" => line'[i].task.values \in Record
    BY <1>3, <2>1, <2>2, <2>3
  <2>5. \A i \in 1 .. Len(line') : line'[i].current => i = Len(line')
    BY <1>3, <2>1, <2>2
  <2> QED
    BY <1>5, <2>1, <2>4, <2>5
<1>6. /\ line' \in Seq(Item) /\ Len(line') \in 1 .. 2
      /\ line'[Len(line')] = new
      /\ \A i \in 1 .. Len(line') : line'[i].current => i = Len(line')
      /\ \A i \in 1 .. Len(line') :
           line'[i].task.cmd = "init" => line'[i].task.values \in Record
  <2> HIDE DEF sent, new
  <2>1. Len(line) \in 0 .. 2
    <3>1. line \in Seq(Item)
      BY DEF Tasks
    <3>2. Len(line) \in Nat
      BY <3>1
    <3>3. Len(line) <= 2
      BY DEF TypeOK
    <3>4. \A n \in Nat : n <= 2 => n \in 0 .. 2
      OBVIOUS
    <3> QED
      BY <3>2, <3>3, <3>4, Zenon
  <2>2. CASE Len(line) < 2 /\ line' = Append(sent, new)
    <3>1. sent \in Seq(Item) /\ Len(sent) \in 0 .. 1
      BY <1>1, <2>1, <2>2
    <3>2. \A i \in 1 .. Len(sent) : sent[i] = sent[i] /\ i \in 1 .. Len(line)
      BY <1>1
    <3> QED
      BY <1>5, <2>2, <3>1, <3>2
  <2>3. CASE line # <<>> /\ line' = Append(Front(sent), new)
    <3>1. Len(sent) \in 1 .. 2
      BY <1>1, <2>1, <2>3 DEF Tasks
    <3>2. \A i \in 1 .. Len(sent) - 1 : sent[i] \in Item
      BY <1>1, <3>1
    <3>3. /\ Front(sent) \in Seq(Item) /\ Len(Front(sent)) = Len(sent) - 1
          /\ \A i \in 1 .. Len(Front(sent)) : Front(sent)[i] = sent[i]
      BY <3>1, <3>2, FrontProperties
    <3>4. /\ Len(Front(sent)) \in 0 .. 1
          /\ \A i \in 1 .. Len(Front(sent)) :
               Front(sent)[i] = sent[i] /\ i \in 1 .. Len(line)
      BY <1>1, <3>1, <3>3
    <3> QED
      BY <1>5, <2>3, <3>3, <3>4
  <2> QED
    BY <2>2, <2>3 DEF NewRequest, sent, new
<1>7. /\ back' \in Seq(Answer) /\ Len(back') = Len(back)
      /\ \A j \in 1 .. Len(back) : back'[j] = [back[j] EXCEPT !.current = FALSE]
  BY OutdatedProperties, StillTyped DEF Tasks, NewRequest
<1>8. \A j \in 1 .. Len(back') : ~back'[j].current
  <2>1. \A j \in 1 .. Len(back) : back[j] \in Answer
    BY DEF Tasks
  <2> QED
    BY <1>7, <2>1 DEF Answer
<1>9. lres' \in {{}} \cup {{r} : r \in Answer} /\ \A r \in lres' : ~r.current
  <2>1. CASE lres = {}
    BY <2>1 DEF NewRequest
  <2>2. ASSUME NEW r \in Answer, lres = {r}
        PROVE  lres' \in {{}} \cup {{q} : q \in Answer} /\ \A q \in lres' : ~q.current
    <3>1. lres' = {[r EXCEPT !.current = FALSE]}
      BY <2>2 DEF NewRequest
    <3>2. [r EXCEPT !.current = FALSE] \in Answer /\ ~[r EXCEPT !.current = FALSE].current
      BY StillTyped DEF Answer
    <3> QED
      BY <3>1, <3>2
  <2> QED
    BY <2>1, <2>2 DEF Tasks
<1> QED
  BY <1>6, <1>7, <1>8, <1>9 DEF Tasks, NewRequest

\* The invariants of the tasks after a request of the screen s.
LEMMA AfterRequest ==
  ASSUME TypeOK, Tasks,
         NEW s \in Screen, NEW task \in [cmd : Cmd, values : Values], NewRequest(s, task),
         task.cmd = "init" => task.values \in Record,
         task.cmd = "save" => asked',
         s = "power" /\ ~Ready => task.cmd = "init",
         screen' = s, editor' = editor
  PROVE  /\ Tasks' /\ OneCurrent' /\ Saves' /\ Opened'
         /\ lreq' \in {{}} \cup {{q} : q \in Screen}
         /\ Len(line') <= 2 /\ Len(back') <= 1
<1>1. /\ lreq' = {s} /\ Tasks'
      /\ Len(line') \in 1 .. 2 /\ Len(back') = Len(back)
      /\ line'[Len(line')] = [task |-> task, current |-> TRUE]
      /\ \A i \in 1 .. Len(line') : line'[i].current => i = Len(line')
      /\ \A j \in 1 .. Len(back') : ~back'[j].current
      /\ \A r \in lres' : ~r.current
  BY Requested
<1>2. \A i \in 1 .. Len(line') : line'[i].current => line'[i].task.cmd = task.cmd
  BY <1>1
<1>3. OneCurrent'
  BY <1>1 DEF OneCurrent
<1>4. Saves'
  BY <1>1, <1>2 DEF Saves
<1>5. Opened'
  BY <1>1, <1>2 DEF Opened, Ready
<1>6. Len(back') <= 1
  BY <1>1 DEF TypeOK
<1>7. \A n \in 1 .. 2 : n <= 2
  OBVIOUS
<1>8. Len(line') <= 2
  BY <1>1, <1>7, Zenon
<1> QED
  BY <1>1, <1>3, <1>4, <1>5, <1>6, <1>8

\* The tasks are left alone.
LEMMA TasksKept ==
  ASSUME Tasks, OneCurrent, Saves, UNCHANGED <<line, back, lres, editor>>, asked => asked'
  PROVE  Tasks' /\ OneCurrent' /\ Saves'
BY DEF Tasks, OneCurrent, Saves, Shown

-----------------------------------------------------------------------------
(* core1 of the AP *)

LEMMA InitStep ==
  ASSUME Init
  PROVE  IInv
<1>1. 0 \in Level /\ LEVELS \in Level /\ 0 \in 0 .. Never /\ 0 \in 0 .. MINUTES - 1
  BY LevelsAssumption, MinutesAssumption DEF Level, Never
<1>2. fd \in Record
  BY MinutesAssumption DEF Init, Record, Never
<1>3. TypeOK
  <2>1. setting \in Record /\ wanted \in Level
    BY <1>2 DEF Init, Record
  <2>2. editor \in [backlight : Level, idle : 0 .. Never, field : {0, 1}]
    BY <1>1 DEF Init, Blank
  <2>3. idle \in [prev : BOOLEAN, backlight : Level] /\ mins \in 0 .. MINUTES - 1
    BY <1>1 DEF Init
  <2>4. Len(line) <= 2 /\ Len(back) <= 1
    BY DEF Init
  <2> QED
    BY <1>2, <2>1, <2>2, <2>3, <2>4 DEF Init, TypeOK, Screen
<1>4. Tasks /\ OneCurrent /\ Saves /\ Opened
  BY DEF Init, Tasks, OneCurrent, Saves, Opened
<1>5. Awake /\ Backlight
  BY DEF Init, Awake, Backlight
<1> QED
  BY <1>3, <1>4, <1>5 DEF IInv

LEMMA ResetStep ==
  ASSUME IInv, NEW node \in {"left", "right"}, Reset(node)
  PROVE  IInv'
<1>1. /\ UNCHANGED <<pc, setting, fd, applied, mins, idle, wanted>>
      /\ screen' = "info" /\ reset_screen' = TRUE /\ lreq' = {} /\ lres' = {}
      /\ right_pending' = FALSE /\ asked' = FALSE
  BY DEF Reset
<1>2. Opened' /\ Awake' /\ Backlight'
  BY <1>1 DEF IInv, Opened, Awake, Backlight
<1>3. /\ Tasks' /\ OneCurrent' /\ Saves'
      /\ Len(line') <= 2 /\ Len(back') <= 1
      /\ editor' \in [backlight : Level, idle : 0 .. Never, field : {0, 1}]
  <2>1. CASE node = "left"
    <3>1. line' = <<>> /\ back' = <<>> /\ editor' \in {editor, Blank}
      BY <2>1 DEF Reset
    <3>2. Blank \in [backlight : Level, idle : 0 .. Never, field : {0, 1}]
      BY LevelsAssumption, MinutesAssumption DEF Blank, Level, Never
    <3> QED
      BY <1>1, <3>1, <3>2 DEF IInv, TypeOK, Tasks, OneCurrent, Saves
  <2>2. CASE node = "right"
    <3>1. line' = Outdated(line) /\ back' = Outdated(back) /\ editor' = editor
      BY <2>2 DEF Reset
    <3>2. /\ line' \in Seq(Item) /\ Len(line') = Len(line)
          /\ \A i \in 1 .. Len(line) : line'[i] = [line[i] EXCEPT !.current = FALSE]
      BY <3>1, OutdatedProperties, StillTyped DEF IInv, Tasks
    <3>3. /\ back' \in Seq(Answer) /\ Len(back') = Len(back)
          /\ \A i \in 1 .. Len(back) : back'[i] = [back[i] EXCEPT !.current = FALSE]
      BY <3>1, OutdatedProperties, StillTyped DEF IInv, Tasks
    <3>4. \A i \in 1 .. Len(line) : ~line'[i].current /\ line'[i].task = line[i].task
      <4>1. \A i \in 1 .. Len(line) : line[i] \in Item
        BY DEF IInv, Tasks
      <4> QED
        BY <3>2, <4>1 DEF Item
    <3>5. \A i \in 1 .. Len(back) : ~back'[i].current
      <4>1. \A i \in 1 .. Len(back) : back[i] \in Answer
        BY DEF IInv, Tasks
      <4> QED
        BY <3>3, <4>1 DEF Answer
    <3>6. Tasks'
      BY <1>1, <3>2, <3>3, <3>4 DEF IInv, Tasks
    <3>7. OneCurrent' /\ Saves'
      BY <1>1, <3>2, <3>3, <3>4, <3>5 DEF OneCurrent, Saves
    <3> QED
      BY <3>1, <3>2, <3>3, <3>6, <3>7 DEF IInv, TypeOK
  <2> QED
    BY <2>1, <2>2
<1>4. TypeOK'
  BY <1>1, <1>3 DEF IInv, TypeOK, Screen
<1> QED
  BY <1>2, <1>3, <1>4 DEF IInv

\* Both ways of opening a screen: after a reset, and by a key.
LEMMA ShowScreenStep ==
  ASSUME IInv, pc = "inputs", NEW s \in Screen, ShowScreen(s), screen' = s,
         reset_screen' \in BOOLEAN, mins' = 0, InputsDone,
         UNCHANGED <<setting, fd, applied, wanted>>
  PROVE  IInv'
<1> DEFINE task == IF s = "power" THEN Task("init", setting) ELSE OtherTask
<1>1. setting \in Record /\ setting \in Values /\ NoValues \in Values
  BY LevelsAssumption, MinutesAssumption
     DEF IInv, TypeOK, Record, Values, NoValues, Level, Never
<1>2. /\ task \in [cmd : Cmd, values : Values]
      /\ task.cmd = "init" => task.values \in Record
      /\ task.cmd # "save"
      /\ s = "power" => task.cmd = "init"
  BY <1>1 DEF Task, OtherTask, Cmd
<1>3. NewRequest(s, task) /\ right_pending' = TRUE /\ asked' = FALSE
  BY DEF ShowScreen
<1>4. UNCHANGED <<editor, idle>> /\ pc' = "idle"
  BY DEF InputsDone
<1> HIDE DEF task
<1>5. /\ Tasks' /\ OneCurrent' /\ Saves' /\ Opened'
      /\ lreq' \in {{}} \cup {{q} : q \in Screen}
      /\ Len(line') <= 2 /\ Len(back') <= 1
  BY <1>2, <1>3, <1>4, AfterRequest DEF IInv
<1>6. 0 \in 0 .. MINUTES - 1
  BY MinutesAssumption
<1>7. TypeOK'
  BY <1>3, <1>4, <1>5, <1>6 DEF IInv, TypeOK
<1>8. Awake' /\ Backlight'
  BY <1>3, <1>4 DEF IInv, Awake, Backlight
<1> QED
  BY <1>5, <1>7, <1>8 DEF IInv

LEMMA OpenStep ==
  ASSUME IInv, ShowWelcome \/ \E s \in Screen : Navigate(s)
  PROVE  IInv'
<1>1. CASE ShowWelcome
  <2>1. screen \in Screen
    BY DEF IInv, TypeOK
  <2> QED
    BY <1>1, <2>1, ShowScreenStep DEF ShowWelcome
<1>2. ASSUME NEW s \in Screen, Navigate(s)
      PROVE  IInv'
  <2>1. reset_screen \in BOOLEAN
    BY DEF IInv, TypeOK
  <2> QED
    BY <1>2, <2>1, ShowScreenStep DEF Navigate
<1> QED
  BY <1>1, <1>2

\* The key is the user's word unless the keyboard was idle: then it ends idleness.
LEMMA BacklightKeyStep ==
  ASSUME IInv, NEW level \in Level, BacklightKey(level)
  PROVE  IInv'
<1>1. /\ setting' = [setting EXCEPT !.backlight = level] /\ mins' = 0
      /\ wanted' = IF idle.prev THEN wanted ELSE level
      /\ pc = "inputs" /\ pc' = "idle"
      /\ UNCHANGED <<screen, reset_screen, fd, applied, right_pending, asked, lreq, line, back,
                     lres, editor, idle>>
  BY DEF BacklightKey, InputsDone, NoRequest
<1>2. setting' \in Record /\ setting'.backlight = level
  BY <1>1 DEF IInv, TypeOK, Record
<1>3. mins' \in 0 .. MINUTES - 1
  BY <1>1, MinutesAssumption
<1>4. wanted' \in Level
  BY <1>1 DEF IInv, TypeOK
<1>5. TypeOK'
  BY <1>1, <1>2, <1>3, <1>4 DEF IInv, TypeOK
<1>6. Tasks' /\ OneCurrent' /\ Saves'
  BY <1>1, TasksKept DEF IInv
<1>7. Opened' /\ Awake' /\ Backlight'
  BY <1>1, <1>2 DEF IInv, Opened, Ready, Awake, Backlight
<1> QED
  BY <1>5, <1>6, <1>7 DEF IInv

\* A task may be made, and a response stored, when the current request is answered.
LEMMA Answered ==
  ASSUME IInv, screen = "power", ~Pending
  PROVE  /\ Ready
         /\ \E r \in Answer : r.current /\ lres = {r}
<1>1. PICK r \in lres : r.current
  BY DEF Pending, IInv, Opened
<1>2. Ready
  BY <1>1 DEF IInv, Opened
<1>3. r \in Answer /\ lres = {r}
  BY DEF IInv, Tasks
<1> QED
  BY <1>1, <1>2, <1>3

\* What is stored was asked for, and is what the editor shows.
LEMMA Stored ==
  ASSUME IInv, ~Pending, NEW event, NewResponse(event), Store
  PROVE  /\ asked /\ screen = "power" /\ fd' = Shown /\ fd' \in Record
         /\ applied' = FALSE /\ asked' = FALSE
         /\ NewRequest(screen, Task("init", fd'))
<1>1. screen = "power"
  BY DEF NewResponse
<1>2. PICK r \in Answer : r.current /\ lres = {r}
  BY <1>1, Answered
<1>3. r.saves
  BY <1>2 DEF NewResponse
<1>4. asked /\ r.values = Shown
  BY <1>2, <1>3 DEF IInv, Saves
<1>5. Ready
  BY <1>1, Answered
<1>6. Shown \in Record
  BY <1>5, MinutesAssumption DEF IInv, TypeOK, Shown, Ready, Record, Never
<1> QED
  BY <1>1, <1>2, <1>4, <1>6 DEF Store

LEMMA HandleEventStep ==
  ASSUME IInv, NEW event \in Event, HandleEvent(event)
  PROVE  IInv'
<1>1. /\ pc = "inputs" /\ pc' = "idle"
      /\ mins' = IF event = "none" THEN mins ELSE 0
      /\ UNCHANGED <<screen, reset_screen, setting, right_pending, wanted, editor, idle>>
  BY DEF HandleEvent, Active, InputsDone
<1>2. mins' \in 0 .. MINUTES - 1 /\ screen \in Screen
  BY <1>1, MinutesAssumption DEF IInv, TypeOK
<1>3. applied
  BY <1>1 DEF IInv, Awake, TypeOK
<1>4. NoValues \in Values
  BY LevelsAssumption, MinutesAssumption DEF NoValues, Values, Level, Never
<1>5. CASE ~Pending /\ NewResponse(event) /\ Store
  <2>1. /\ asked /\ screen = "power" /\ fd' \in Record
        /\ applied' = FALSE /\ asked' = FALSE
        /\ NewRequest(screen, Task("init", fd'))
    BY <1>5, Stored
  <2>2. fd' \in Values
    BY <2>1, MinutesAssumption DEF Record, Values, Never
  <2>3. /\ Task("init", fd') \in [cmd : Cmd, values : Values]
        /\ Task("init", fd').cmd = "init" /\ Task("init", fd').values = fd'
    BY <2>2 DEF Task, Cmd
  <2>4. /\ Tasks' /\ OneCurrent' /\ Saves' /\ Opened'
        /\ lreq' \in {{}} \cup {{q} : q \in Screen}
        /\ Len(line') <= 2 /\ Len(back') <= 1
    <3> DEFINE task == Task("init", fd')
    <3>1. /\ task \in [cmd : Cmd, values : Values] /\ task.cmd = "init"
          /\ task.values \in Record /\ NewRequest(screen, task)
      BY <2>1, <2>3
    <3> HIDE DEF task
    <3> QED
      BY <1>1, <1>2, <3>1, AfterRequest DEF IInv
  <2>5. TypeOK'
    BY <1>1, <1>2, <2>1, <2>4 DEF IInv, TypeOK
  <2>6. mins = 0
    BY <2>1 DEF IInv, Awake
  <2>7. Awake' /\ Backlight'
    BY <1>1, <2>1, <2>6 DEF IInv, Awake, Backlight
  <2> QED
    BY <2>4, <2>5, <2>7 DEF IInv
<1>6. CASE ~Pending /\ PowerTask(event)
  <2> DEFINE task == Task(event, NoValues)
  <2>1. /\ screen = "power" /\ NewRequest(screen, task)
        /\ asked' = (event = "save") /\ UNCHANGED <<fd, applied>>
        /\ event \in {"save", "field", "prev", "next"}
    BY <1>6 DEF PowerTask
  <2>2. Ready
    BY <1>6, <2>1, Answered
  <2>3. task \in [cmd : Cmd, values : Values] /\ task.cmd = event
    BY <1>4, <2>1 DEF Task, Cmd
  <2> HIDE DEF task
  <2>4. /\ Tasks' /\ OneCurrent' /\ Saves' /\ Opened'
        /\ lreq' \in {{}} \cup {{q} : q \in Screen}
        /\ Len(line') <= 2 /\ Len(back') <= 1
    BY <1>1, <1>2, <2>1, <2>2, <2>3, AfterRequest DEF IInv
  <2>5. TypeOK'
    BY <1>1, <1>2, <2>1, <2>4 DEF IInv, TypeOK
  <2>6. Awake' /\ Backlight'
    BY <1>1, <1>3, <2>1 DEF IInv, Awake, Backlight
  <2> QED
    BY <2>4, <2>5, <2>6 DEF IInv
<1>7. CASE UNCHANGED <<fd, applied, asked>> /\ NoRequest
  <2>1. UNCHANGED <<fd, applied, asked, lreq, line, back, lres>>
    BY <1>7 DEF NoRequest
  <2>2. TypeOK'
    BY <1>1, <1>2, <2>1 DEF IInv, TypeOK
  <2>3. Tasks' /\ OneCurrent' /\ Saves'
    BY <1>1, <2>1, TasksKept DEF IInv
  <2>4. Opened' /\ Awake' /\ Backlight'
    BY <1>1, <1>3, <2>1 DEF IInv, Opened, Ready, Awake, Backlight
  <2> QED
    BY <2>2, <2>3, <2>4 DEF IInv
<1> QED
  BY <1>5, <1>6, <1>7 DEF HandleEvent

\* Nothing is idle in the round that stores a record, which is applied after it.
LEMMA EndRoundStep ==
  ASSUME IInv, EndRound
  PROVE  IInv'
<1>1. /\ pc = "idle" /\ pc' = "inputs" /\ applied' = TRUE
      /\ idle' = Dimmed[2]
      /\ setting' = IF applied THEN Dimmed[1] ELSE fd
      /\ wanted' = IF applied THEN wanted ELSE fd.backlight
      /\ UNCHANGED <<screen, reset_screen, fd, mins, lreq, line, editor, back, lres,
                     right_pending, asked>>
  BY DEF EndRound
<1>2. /\ setting \in Record /\ fd \in Record /\ wanted \in Level /\ 0 \in Level
      /\ idle \in [prev : BOOLEAN, backlight : Level]
  BY LevelsAssumption DEF IInv, TypeOK, Level
<1>3. mins = 0 => ~Idle
  BY <1>2, MinutesAssumption DEF Idle, Record, Never
<1>4. Backlight /\ (~applied => ~Idle)
  BY <1>3 DEF IInv, Awake
<1>5. /\ setting' \in Record /\ wanted' \in Level
      /\ idle' \in [prev : BOOLEAN, backlight : Level]
      /\ Backlight'
  <2>1. CASE Idle /\ ~idle.prev
    <3>1. /\ Dimmed[1] = [setting EXCEPT !.backlight = 0]
          /\ Dimmed[2] = [prev |-> TRUE, backlight |-> setting.backlight]
      BY <2>1 DEF Dimmed
    <3>2. Dimmed[1] \in Record /\ Dimmed[1].backlight = 0
      BY <1>2, <3>1 DEF Record
    <3>3. applied
      BY <1>4, <2>1
    <3>4. idle' \in [prev : BOOLEAN, backlight : Level]
      BY <1>1, <1>2, <3>1 DEF Record
    <3>5. idle'.prev = TRUE /\ idle'.backlight = setting.backlight
      BY <1>1, <3>1
    <3>6. Backlight'
      BY <1>1, <1>4, <2>1, <3>2, <3>3, <3>5 DEF Backlight
    <3>7. setting' \in Record /\ wanted' \in Level
      BY <1>1, <1>2, <3>2, <3>3
    <3> QED
      BY <3>4, <3>6, <3>7
  <2>2. CASE ~Idle
    <3>1. /\ Dimmed[1] = [setting EXCEPT !.backlight =
                            IF idle.prev THEN idle.backlight ELSE setting.backlight]
          /\ Dimmed[2] = [idle EXCEPT !.prev = Idle]
      BY <2>2 DEF Dimmed
    <3>2. Dimmed[1] \in Record
      BY <1>2, <3>1 DEF Record
    <3>3. Dimmed[1].backlight = wanted
      BY <1>2, <1>4, <3>1 DEF Record, Backlight
    <3>4. idle' \in [prev : BOOLEAN, backlight : Level] /\ idle'.prev = FALSE
      <4>1. Idle = FALSE
        BY <2>2 DEF Idle
      <4> QED
        BY <1>1, <1>2, <3>1, <4>1
    <3>5. setting' \in Record /\ wanted' \in Level
      BY <1>1, <1>2, <3>2 DEF Record
    <3>6. Backlight'
      BY <1>1, <3>3, <3>4 DEF Backlight
    <3> QED
      BY <3>4, <3>5, <3>6
  <2>3. CASE Idle /\ idle.prev
    <3>1. Dimmed[1] = setting /\ Dimmed[2] = idle
      BY <1>2, <2>3 DEF Dimmed, Record
    <3>2. applied
      BY <1>4, <2>3
    <3>3. mins # 0
      BY <1>3, <2>3
    <3>4. Backlight'
      BY <1>1, <1>4, <2>3, <3>1, <3>2, <3>3 DEF Backlight
    <3> QED
      BY <1>1, <1>2, <3>1, <3>2, <3>4
  <2> QED
    BY <2>1, <2>2, <2>3
<1>6. TypeOK'
  BY <1>1, <1>5 DEF IInv, TypeOK
<1>7. Tasks' /\ OneCurrent' /\ Saves'
  BY <1>1, TasksKept DEF IInv
<1>8. Opened' /\ Awake'
  BY <1>1 DEF IInv, Opened, Ready, Awake
<1> QED
  BY <1>5, <1>6, <1>7, <1>8 DEF IInv

LEMMA MinuteStep ==
  ASSUME IInv, Minute
  PROVE  IInv'
<1>1. /\ pc = "inputs" /\ ~asked /\ mins' = (mins + 1) % MINUTES
      /\ UNCHANGED <<pc, screen, reset_screen, setting, fd, applied, idle, lreq, line, editor,
                     back, lres, right_pending, wanted, asked>>
  BY DEF Minute
<1>2. mins' \in 0 .. MINUTES - 1
  BY <1>1, MinutesAssumption DEF IInv, TypeOK
<1>3. TypeOK'
  BY <1>1, <1>2 DEF IInv, TypeOK
<1>4. Tasks' /\ OneCurrent' /\ Saves'
  BY <1>1, TasksKept DEF IInv
<1>5. Opened' /\ Awake' /\ Backlight'
  BY <1>1 DEF IInv, Opened, Ready, Awake, Backlight
<1> QED
  BY <1>3, <1>4, <1>5 DEF IInv

-----------------------------------------------------------------------------
(* The nodes *)

\* A task leaves the editor with values it may have, and one that is ready so.
LEMMA WorkedProperties ==
  ASSUME TypeOK, NEW task \in [cmd : Cmd, values : Values],
         task.cmd = "init" => task.values \in Record
  PROVE  /\ Worked(task) \in [backlight : Level, idle : 0 .. Never, field : {0, 1}]
         /\ Ready \/ task.cmd = "init" => Worked(task).idle # 0
         /\ task.cmd = "save" => Worked(task) = editor
<1> DEFINE E == [backlight : Level, idle : 0 .. Never, field : {0, 1}]
<1>1. editor \in E
  BY DEF TypeOK
<1>2. LEVELS \in Nat /\ MINUTES \in Nat /\ CHOICES \in SUBSET (1 .. Never)
  BY LevelsAssumption, MinutesAssumption DEF Never
<1>3. /\ NextMinutes(editor.idle) \in 0 .. Never /\ NextMinutes(editor.idle) # 0
      /\ PrevMinutes(editor.idle) \in 0 .. Never /\ PrevMinutes(editor.idle) # 0
  <2>1. \A m \in CHOICES : m \in 0 .. Never /\ m # 0
    BY <1>2 DEF Never
  <2> QED
    BY <2>1, Chosen
<1>4. CASE task.cmd \in {"save", "other"}
  BY <1>1, <1>4 DEF Worked, Ready
<1>5. CASE task.cmd = "init"
  BY <1>2, <1>5 DEF Worked, Record, Level, Never
<1>6. CASE task.cmd = "field"
  BY <1>1, <1>6 DEF Worked, Ready
<1>7. CASE task.cmd = "prev"
  <2>1. Worked(task) = SelectedPrev
    BY <1>7 DEF Worked
  <2>2. SelectedPrev \in E /\ (Ready => SelectedPrev.idle # 0)
    BY <1>1, <1>2, <1>3 DEF SelectedPrev, Level, Ready
  <2> QED
    BY <1>7, <2>1, <2>2
<1>8. CASE task.cmd = "next"
  <2>1. Worked(task) = SelectedNext
    BY <1>8 DEF Worked
  <2>2. SelectedNext \in E /\ (Ready => SelectedNext.idle # 0)
    BY <1>1, <1>2, <1>3 DEF SelectedNext, Level, Ready
  <2> QED
    BY <1>8, <2>1, <2>2
<1> QED
  BY <1>4, <1>5, <1>6, <1>7, <1>8 DEF Cmd

\* When the current task is executed the line is empty, and what its answer holds stays
\* on display; any other task leaves nothing current behind.
LEMMA LeftWorksStep ==
  ASSUME IInv, LeftWorks
  PROVE  IInv'
<1> DEFINE h == line[1]
           a == [saves |-> h.task.cmd = "save",
                 values |-> IF h.task.cmd = "save" THEN Shown ELSE NoValues,
                 current |-> h.current]
<1>1. /\ line # <<>> /\ back = <<>>
      /\ editor' = Worked(h.task) /\ back' = Append(back, a) /\ line' = Tail(line)
      /\ UNCHANGED <<pc, screen, reset_screen, setting, fd, applied, mins, idle, lreq, lres,
                     right_pending, wanted, asked>>
  BY DEF LeftWorks, Shown
<1>2. line \in Seq(Item) /\ Len(line) \in Nat /\ 1 \in 1 .. Len(line) /\ h \in Item
  BY <1>1 DEF IInv, Tasks
<1>3. h.task \in [cmd : Cmd, values : Values] /\ h.current \in BOOLEAN
  BY <1>2 DEF Item
<1>4. h.task.cmd = "init" => h.task.values \in Record
  BY <1>2 DEF IInv, Tasks
<1>5. NoValues \in Values /\ Shown \in Values
  BY LevelsAssumption, MinutesAssumption
     DEF IInv, TypeOK, NoValues, Shown, Values, Level, Never
<1>6. a \in Answer
  BY <1>3, <1>5 DEF Answer
<1>7. /\ editor' \in [backlight : Level, idle : 0 .. Never, field : {0, 1}]
      /\ Ready \/ h.task.cmd = "init" => Ready'
      /\ h.task.cmd = "save" => editor' = editor
  BY <1>1, <1>3, <1>4, WorkedProperties DEF IInv, Ready
<1> HIDE DEF h
<1>8. /\ back' \in Seq(Answer) /\ Len(back') = 1 /\ back'[1] = a
      /\ \A j \in 1 .. Len(back') : back'[j] = a
  BY <1>1, <1>6
<1>9. /\ line' \in Seq(Item) /\ Len(line') = Len(line) - 1
      /\ \A i \in 1 .. Len(line') : line'[i] = line[i + 1] /\ i + 1 \in 1 .. Len(line)
  BY <1>1, <1>2
<1>10. Tasks'
  BY <1>1, <1>8, <1>9 DEF IInv, Tasks
<1>11. a.current = h.current /\ a.saves = (h.task.cmd = "save")
  OBVIOUS
<1>12. h.current => Len(line) = 1 /\ line' = <<>>
  <2>1. h.current => Len(line) = 1
    BY <1>2 DEF IInv, OneCurrent, h
  <2>2. Len(line) = 1 => Len(line') = 0
    BY <1>9
  <2> QED
    BY <1>9, <2>1, <2>2, EmptySeq
<1>13. lres' = lres /\ \A r \in lres : ~r.current
  BY <1>1 DEF IInv, OneCurrent
<1>14. OneCurrent'
  <2>1. ASSUME NEW i \in 1 .. Len(line'), line'[i].current
        PROVE  i = Len(line') /\ ~h.current
    <3>1. line[i + 1].current /\ i + 1 \in 1 .. Len(line)
      BY <1>9, <2>1
    <3>2. i + 1 = Len(line)
      BY <3>1 DEF IInv, OneCurrent
    <3>3. i \in Nat \ {0}
      BY <1>2, <1>9
    <3>4. Len(line) # 1
      BY <3>2, <3>3
    <3> QED
      BY <1>2, <1>9, <1>12, <3>2, <3>3, <3>4
  <2> QED
    BY <1>8, <1>11, <1>12, <1>13, <2>1 DEF OneCurrent
<1>15. Saves'
  <2>1. ASSUME NEW i \in 1 .. Len(line'), line'[i].current, line'[i].task.cmd = "save"
        PROVE  asked'
    BY <1>1, <1>9, <2>1 DEF IInv, Saves
  <2>2. ASSUME h.current, h.task.cmd = "save"
        PROVE  asked' /\ a.values = Shown'
    <3>1. asked
      BY <1>2, <2>2 DEF IInv, Saves, h
    <3>2. Shown' = Shown
      BY <1>7, <2>2 DEF Shown
    <3> QED
      BY <1>1, <2>2, <3>1, <3>2
  <2> HIDE DEF a
  <2> QED
    BY <1>8, <1>11, <1>13, <2>1, <2>2 DEF Saves
<1>16. Opened'
  <2>1. screen' = "power" => lreq' = {"power"}
    BY <1>1 DEF IInv, Opened
  <2>2. ASSUME screen' = "power", ~Ready'
        PROVE  /\ \A i \in 1 .. Len(line') : line'[i].current => line'[i].task.cmd = "init"
               /\ ~h.current
    <3>1. screen = "power" /\ ~Ready /\ h.task.cmd # "init"
      BY <1>1, <1>7, <2>2
    <3>2. \A i \in 1 .. Len(line) : line[i].current => line[i].task.cmd = "init"
      BY <3>1 DEF IInv, Opened
    <3> QED
      BY <1>2, <1>9, <3>1, <3>2 DEF h
  <2> QED
    BY <1>8, <1>11, <1>13, <2>1, <2>2 DEF Opened
<1>17. Awake' /\ Backlight'
  BY <1>1 DEF IInv, Awake, Backlight
<1>18. TypeOK'
  <2>1. Len(line) <= 2
    BY DEF IInv, TypeOK
  <2>2. Len(line') <= 2
    BY <1>2, <1>9, <2>1
  <2>3. Len(back') <= 1
    BY <1>8
  <2> QED
    BY <1>1, <1>7, <2>2, <2>3 DEF IInv, TypeOK
<1> QED
  BY <1>10, <1>14, <1>15, <1>16, <1>17, <1>18 DEF IInv

LEMMA LeftAnswersStep ==
  ASSUME IInv, LeftAnswers
  PROVE  IInv'
<1> DEFINE a == back[1]
<1>1. /\ back # <<>> /\ lres' = {a} /\ back' = Tail(back)
      /\ UNCHANGED <<pc, screen, reset_screen, setting, fd, applied, mins, idle, lreq, line,
                     editor, right_pending, wanted, asked>>
  BY DEF LeftAnswers
<1>2. /\ back \in Seq(Answer) /\ Len(back) <= 1
  BY DEF IInv, Tasks, TypeOK
<1>3. 1 \in 1 .. Len(back) /\ a \in Answer /\ back' = <<>>
  BY <1>1, <1>2
<1> HIDE DEF a
<1>4. Tasks'
  BY <1>1, <1>3 DEF IInv, Tasks
<1>5. a.current => line = <<>>
  BY <1>3 DEF IInv, OneCurrent, a
<1>6. OneCurrent'
  BY <1>1, <1>3, <1>5 DEF IInv, OneCurrent
<1>7. a.current /\ a.saves => asked /\ a.values = Shown
  BY <1>3 DEF IInv, Saves, a
<1>8. Saves'
  BY <1>1, <1>3, <1>7 DEF IInv, Saves, Shown
<1>9. screen = "power" /\ ~Ready => ~a.current
  BY <1>3 DEF IInv, Opened, a
<1>10. Opened' /\ Awake' /\ Backlight'
  BY <1>1, <1>3, <1>9 DEF IInv, Opened, Ready, Awake, Backlight
<1>11. TypeOK'
  BY <1>1, <1>3 DEF IInv, TypeOK
<1> QED
  BY <1>4, <1>6, <1>8, <1>10, <1>11 DEF IInv

LEMMA RightAnswersStep ==
  ASSUME IInv, RightAnswers
  PROVE  IInv'
<1>1. /\ right_pending' = FALSE
      /\ UNCHANGED <<pc, screen, reset_screen, setting, fd, applied, mins, idle, lreq, line,
                     editor, back, lres, wanted, asked>>
  BY DEF RightAnswers
<1>2. TypeOK'
  BY <1>1 DEF IInv, TypeOK
<1>3. Tasks' /\ OneCurrent' /\ Saves'
  BY <1>1, TasksKept DEF IInv
<1>4. Opened' /\ Awake' /\ Backlight'
  BY <1>1 DEF IInv, Opened, Ready, Awake, Backlight
<1> QED
  BY <1>2, <1>3, <1>4 DEF IInv

-----------------------------------------------------------------------------
LEMMA NextStep ==
  ASSUME IInv, [Next]_vars
  PROVE  IInv'
<1>1. CASE ProcessInputs
  <2>1. Higher \in Level /\ Lower \in Level
    <3>1. setting.backlight \in Level
      BY DEF IInv, TypeOK, Record
    <3> QED
      BY <3>1, LevelsAssumption DEF Higher, Lower, Level
  <2> QED
    BY <1>1, <2>1, OpenStep, BacklightKeyStep, HandleEventStep DEF ProcessInputs
<1>2. CASE EndRound \/ Minute
  BY <1>2, EndRoundStep, MinuteStep
<1>3. ASSUME NEW node \in {"left", "right"}, Reset(node)
      PROVE  IInv'
  BY <1>3, ResetStep
<1>4. CASE LeftWorks \/ LeftAnswers \/ RightAnswers
  BY <1>4, LeftWorksStep, LeftAnswersStep, RightAnswersStep
<1>5. CASE UNCHANGED vars
  <2>1. UNCHANGED <<pc, screen, reset_screen, setting, fd, applied, mins, idle, lreq, line,
                    editor, back, lres, right_pending, wanted, asked>>
    BY <1>5 DEF vars
  <2>2. TypeOK'
    BY <2>1 DEF IInv, TypeOK
  <2>3. Tasks' /\ OneCurrent' /\ Saves'
    BY <2>1, TasksKept DEF IInv
  <2>4. Opened' /\ Awake' /\ Backlight'
    BY <2>1 DEF IInv, Opened, Ready, Awake, Backlight
  <2> QED
    BY <2>2, <2>3, <2>4 DEF IInv
<1> QED
  BY <1>1, <1>2, <1>3, <1>4, <1>5 DEF Next

LEMMA Inductive == Spec => []IInv
<1>1. Init => IInv
  BY InitStep
<1>2. IInv /\ [Next]_vars => IInv'
  BY NextStep
<1> QED
  BY <1>1, <1>2, PTL DEF Spec

\* What is stored, applied and shown keeps to the values there are.
THEOREM TypeCorrect == Spec => []TypeOK
<1>1. IInv => TypeOK
  BY DEF IInv
<1> QED
  BY <1>1, Inductive, PTL

\* core1.c:150 and 153: off while idle, and otherwise what the user has set last.
THEOREM FollowsUser == Spec => []BacklightFollowsUser
<1>1. IInv => BacklightFollowsUser
  BY DEF IInv, Backlight, BacklightFollowsUser
<1> QED
  BY <1>1, Inductive, PTL

\* screen_model.h:52: what is stored was asked for on this visit of the screen, and is
\* what the editor shows.
THEOREM StoresWhatIsShown == Spec => SavesWhatIsShown
<1> DEFINE Stores == fd' # fd => asked /\ fd' = [backlight |-> editor.backlight, idle |-> editor.idle]
<1>1. ASSUME IInv, [Next]_vars
      PROVE  [Stores]_vars
  <2>1. ASSUME NEW event \in Event, HandleEvent(event)
        PROVE  Stores
    <3>1. CASE ~Pending /\ NewResponse(event) /\ Store
      BY <1>1, <3>1, Stored DEF Shown
    <3>2. CASE UNCHANGED fd
      BY <3>2
    <3> QED
      BY <2>1, <3>1, <3>2 DEF HandleEvent, PowerTask
  <2>2. CASE ProcessInputs
    <3>1. CASE ShowWelcome \/ \E s \in Screen : Navigate(s)
      BY <3>1 DEF ShowWelcome, Navigate
    <3>2. CASE BacklightKey(Higher) \/ BacklightKey(Lower)
      BY <3>2 DEF BacklightKey
    <3> QED
      BY <2>1, <2>2, <3>1, <3>2 DEF ProcessInputs
  <2>3. CASE EndRound \/ Minute \/ LeftWorks \/ LeftAnswers \/ RightAnswers
    BY <2>3 DEF EndRound, Minute, LeftWorks, LeftAnswers, RightAnswers
  <2>4. ASSUME NEW node \in {"left", "right"}, Reset(node)
        PROVE  Stores
    BY <2>4 DEF Reset
  <2>5. CASE UNCHANGED vars
    BY <2>5
  <2> QED
    BY <1>1, <2>2, <2>3, <2>4, <2>5 DEF Next
<1> QED
  BY <1>1, Inductive, PTL DEF Spec, SavesWhatIsShown

=============================================================================
