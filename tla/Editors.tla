--------------------------------- MODULE Editors --------------------------------
(***************************************************************************)
(* The editors of the track ball, pixel and date screens: how keys select  *)
(* fields and change values, and what becomes of a value that is saved.    *)
(*                                                                         *)
(* The parts of a record do not depend on each other, so that one of them  *)
(* is followed, while the fields of all are selected.  How a key becomes a *)
(* task and a save a record is that of PowerScreen; here each is one step. *)
(* Abstracted: drawing, with the mark of unsaved changes; the clock, which *)
(* stands still.                                                           *)
(***************************************************************************)
EXTENDS Naturals, Sequences, Functions

VARIABLES
  part,     \* the part that is followed
  field,    \* the selected field, counted from 0
  shown,    \* the editor's copy of the part
  current,  \* what the boards use: core1.tb_config, pixel_config or date
  stored    \* the record in the store, or the registers of the clock

vars == <<part, field, shown, current, stored>>

-----------------------------------------------------------------------------
(* Fields and parts *)

\* The part behind each field.  A colour component has a field for each digit.
Fields ==
  [tb    |-> <<"cpi_multiplier", "scroll_scale", "scroll_quad_weight", "delta_scale",
               "delta_quad_weight">>,
   pixel |-> <<"red", "red", "green", "green", "blue", "blue", "anim_style", "anim_cycles">>,
   date  |-> <<"year", "month", "day", "weekday", "hour", "minute", "second">>]

Scales  == {"scroll_scale", "delta_scale"}
Weights == {"scroll_quad_weight", "delta_quad_weight"}
Colours == {"red", "green", "blue"}
Part    == UNION {Range(Fields[s]) : s \in DOMAIN Fields}

Screen == CHOOSE s \in DOMAIN Fields : part \in Range(Fields[s])
FIELD_COUNT == Len(Fields[Screen])

\* Faulty variant: the last field has no successor.
RightNoWrap(f) == f + 1

Left(f)  == IF f = 0 THEN FIELD_COUNT - 1 ELSE f - 1
Right(f) == IF f = FIELD_COUNT - 1 THEN 0 ELSE f + 1

\* The six digits of a colour are one row.
Up(f) ==
  CASE Screen = "tb"    -> <<4, 0, 3, 1, 2>>[f + 1]
    [] Screen = "pixel" -> IF f > 5 THEN f - 1 ELSE FIELD_COUNT - 1
    [] Screen = "date"  -> Left(f)
Down(f) ==
  CASE Screen = "tb"    -> <<1, 3, 4, 2, 0>>[f + 1]
    [] Screen = "pixel" -> IF f > 5 THEN Right(f) ELSE 6
    [] Screen = "date"  -> Right(f)

-----------------------------------------------------------------------------
(* Values.  They are bytes; the year is counted from 2000. *)

CPI_BASE           == 400
KBD_TB_CPI_MIN     == 400
KBD_TB_CPI_MAX     == 16000
CPI_MULTIPLIER_MAX == KBD_TB_CPI_MAX \div CPI_BASE
STYLES             == 4

Byte == 0 .. 255

\* Faulty variants: the last step is forgotten; the sixteens begin too late.
ScaleNextUnlimited(v) == (IF v >= 32 THEN v + 16 ELSE v * 2) % 256
ScaleNextLate(v) == IF v >= 240 THEN 255 ELSE IF v > 32 THEN v + 16 ELSE v * 2

ScaleNext(v) == IF v >= 240 THEN 255 ELSE IF v >= 32 THEN v + 16 ELSE v * 2
ScalePrev(v) ==
  IF v <= 1 THEN 1 ELSE IF v <= 32 THEN v \div 2 ELSE IF v <= 240 THEN v - 16 ELSE 240

\* set_field, called with the result, finds it stored already.
TbNext(v) ==
  CASE part = "cpi_multiplier" -> IF v >= CPI_MULTIPLIER_MAX THEN CPI_MULTIPLIER_MAX ELSE v + 1
    [] part \in Scales         -> ScaleNext(v)
    [] part \in Weights        -> IF v >= 9 THEN 9 ELSE v + 1
TbPrev(v) ==
  CASE part = "cpi_multiplier" -> IF v <= 1 THEN 1 ELSE v - 1
    [] part \in Scales         -> ScalePrev(v)
    [] part \in Weights        -> IF v <= 0 THEN 0 ELSE v - 1

High(v) == v - (v % 16)
Low(v)  == v % 16

\* h | l, where h has no low bits, and l either no high bits or all of them.
Or(h, l) == IF l < 16 THEN h + l ELSE l

HighNext(v) == IF High(v) >= 112 THEN Low(v) ELSE v + 16
HighPrev(v) == IF High(v) = 0 THEN 112 + Low(v) ELSE v - 16
LowNext(v)  == Or(High(v), IF Low(v) >= 12 THEN 0 ELSE Low(v) + 4)
LowPrev(v)  == Or(High(v), IF Low(v) = 0 THEN 12 ELSE (Low(v) + 256 - 4) % 256)

PixelNext(v) ==
  CASE part \in Colours      -> IF field % 2 = 0 THEN HighNext(v) ELSE LowNext(v)
    [] part = "anim_style"   -> IF v < STYLES - 1 THEN v + 1 ELSE 0
    [] part = "anim_cycles"  -> (v + 1) % 256
PixelPrev(v) ==
  CASE part \in Colours      -> IF field % 2 = 0 THEN HighPrev(v) ELSE LowPrev(v)
    [] part = "anim_style"   -> IF v > 0 THEN v - 1 ELSE STYLES - 1
    [] part = "anim_cycles"  -> (v + 256 - 1) % 256

FromOne(n, max)  == IF n > max THEN 1 ELSE IF n < 1 THEN max ELSE n
FromZero(n, max) == IF n > max + 1 THEN max ELSE IF n > max THEN 0 ELSE n

\* set_field of the date editor, on a value cut to eight bits.
SetDate(n) ==
  CASE part = "year"     -> n
    [] part = "month"    -> FromOne(n, 12)
    [] part = "day"      -> FromOne(n, 31)
    [] part = "weekday"  -> FromOne(n, 7)
    [] part = "hour"     -> FromZero(n, 23)
    [] part \in {"minute", "second"} -> FromZero(n, 59)

NextValue(v) ==
  CASE Screen = "tb" -> TbNext(v) [] Screen = "pixel" -> PixelNext(v)
    [] Screen = "date" -> SetDate((v + 1) % 256)
PrevValue(v) ==
  CASE Screen = "tb" -> TbPrev(v) [] Screen = "pixel" -> PixelPrev(v)
    [] Screen = "date" -> SetDate((v + 256 - 1) % 256)

-----------------------------------------------------------------------------
(* What is stored *)

bcd_encode(dec) == (dec \div 10) * 16 + (dec % 10)
bcd_decode(bcd) == (bcd \div 16) * 10 + (bcd % 16)

\* Faulty variant: the century is not written.
rtc_set_time_Short(v) ==
  [bcd |-> bcd_encode(IF part = "year" THEN v % 100 ELSE v), century |-> FALSE]

\* The register of the part; the century is a bit of the month's.
rtc_set_time(v) ==
  [bcd     |-> bcd_encode(IF part = "year" THEN v % 100 ELSE v),
   century |-> part = "year" /\ v >= 100]
rtc_read_time(r) == bcd_decode(r.bcd) + (IF r.century THEN 100 ELSE 0)

Written(v) == IF Screen = "date" THEN rtc_set_time(v) ELSE v
Read(s)    == IF Screen = "date" THEN rtc_read_time(s) ELSE s

\* The values of kbd_system, of an empty store, and of the clock.
Initial ==
  CASE part = "cpi_multiplier" -> {1600 \div CPI_BASE}
    [] part = "scroll_scale"   -> {32}
    [] part = "delta_scale"    -> {4}
    [] part \in Weights        -> {0}
    [] part \in {"red", "blue"} -> {15}
    [] part \in {"green", "anim_style"} -> {0}
    [] part = "anim_cycles"    -> {30}
    [] part = "year"           -> 0 .. 199
    [] part = "month"          -> 1 .. 12
    [] part = "day"            -> 1 .. 31
    [] part = "weekday"        -> 1 .. 7
    [] part = "hour"           -> 0 .. 23
    [] part \in {"minute", "second"} -> 0 .. 59

Init ==
  /\ part \in Part
  /\ current \in Initial
  /\ stored = Written(current)
  /\ shown = current
  /\ field = 0

-----------------------------------------------------------------------------
(* The tasks *)

\* The first task of a visit: unsaved changes of the visit before are forgotten.
Open ==
  /\ shown' = current /\ field' = 0
  /\ UNCHANGED <<part, current, stored>>

SelectField ==
  /\ field' \in {Left(field), Right(field), Up(field), Down(field)}
  /\ UNCHANGED <<part, shown, current, stored>>

\* A field of another part changes nothing here.
SelectValue ==
  /\ Fields[Screen][field + 1] = part
  /\ shown' \in {NextValue(shown), PrevValue(shown)}
  /\ UNCHANGED <<part, field, current, stored>>

\* The date is saved by the node itself, a record by the AP, which opens the editor anew.
Save ==
  /\ stored' = Written(shown)
  /\ current' = shown
  /\ field' = 0
  /\ UNCHANGED <<part, shown>>

\* The clock is read every second; a record is loaded and applied after a restart.
Refresh ==
  /\ current' = Read(stored)
  /\ UNCHANGED <<part, field, shown, stored>>

Next == Open \/ SelectField \/ SelectValue \/ Save \/ Refresh

Spec == Init /\ [][Next]_vars

-----------------------------------------------------------------------------
Registers == [bcd : Byte, century : BOOLEAN]

TypeOK ==
  /\ part \in Part
  /\ field \in 0 .. FIELD_COUNT - 1
  /\ shown \in Byte /\ current \in Byte
  /\ stored \in IF Screen = "date" THEN Registers ELSE Byte

\* What the sensor makes of a resolution.
tb_set_cpi(cpi) ==
  LET capped == IF cpi > KBD_TB_CPI_MAX THEN KBD_TB_CPI_MAX
                ELSE IF cpi < KBD_TB_CPI_MIN THEN KBD_TB_CPI_MIN ELSE cpi
  IN  (capped \div 50) * 50

\* parse_tb_motion divides by a scale and by the resolution over it.
Divides(scale, cpi) == scale > 0 /\ cpi \div scale > 0

\* input_processor.c:179 divides by what the editors made, the display indexes rtc_week with
\* it, and the sensor caps it: no sequence of keys and saves gives a value that any of
\* them cannot take or takes for another.
ValuesUsable ==
  /\ part \in Scales => Divides(current, CPI_BASE)
  /\ part = "cpi_multiplier" =>
       /\ Divides(255, CPI_BASE * current)
       /\ tb_set_cpi(CPI_BASE * current) = CPI_BASE * current
  /\ part \in Weights => current <= 9
  /\ part = "anim_style" => current < STYLES
  /\ part \in {"month", "day", "weekday"} => current \in Initial
  /\ part \in {"hour", "minute", "second"} => current \in Initial

\* 5 bits of a colour can be shown, pixel.c:88 and 195: "the first bit is always 0" and "the
\* last two bits are also 0".
OnGrid(v) == v < 128 /\ v % 4 = 0

\* SEL_PREV takes back a SEL_NEXT, and the other way around, except for a key that did
\* nothing at a limit: the two functions of each editor have the same steps.  And from a
\* colour that can be shown they lead to such.  (The default colour is not one of them.)
StepsReversible ==
  part \notin Colours \/ OnGrid(shown) =>
    /\ NextValue(shown) # shown => PrevValue(NextValue(shown)) = shown
    /\ PrevValue(shown) # shown => NextValue(PrevValue(shown)) = shown
    /\ part \in Colours /\ field < 6 =>
         OnGrid(NextValue(shown)) /\ OnGrid(PrevValue(shown))

\* What was saved is what the clock or the store gives back, in the two centuries the clock
\* has.  (The editor offers years up to 2255.)
SaveIsReadBack ==
  part # "year" \/ current < 200 => Read(stored) = current

=============================================================================
