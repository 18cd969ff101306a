------------------------------ MODULE RbLight ------------------------------
(***************************************************************************)
(* The RGB light over the session of RbControl.  The key handlers and the  *)
(* main loop set RGB_LED_MODE and its backup; RGB_RUN, called by the       *)
(* 100 ms interrupt, blinks it and ends the blue blink of a new mark.      *)
(* Every action is an action of RbControl together with what it does to    *)
(* the light.  Light modes are named for what they show.                   *)
(***************************************************************************)
EXTENDS RbControl

CONSTANT LED_HALF     (* ticks the light is on, and off, when it blinks    *)

ASSUME LedAssumption == LED_HALF \in Nat \ {0}

Lights == {"unset", "white", "green", "yellow", "red", "breathe", "blue"}
BLINKS == 3

VARIABLES RGB_LED_MODE, RGB_LED_MODE_BACKUP, out_of_range_flag, acc_LED, lan_jici

lamp  == <<RGB_LED_MODE, RGB_LED_MODE_BACKUP, out_of_range_flag>>
blink == <<acc_LED, lan_jici>>
lvars == <<vars, lamp, blink>>

LightTypeOK ==
  /\ RGB_LED_MODE \in Lights /\ RGB_LED_MODE_BACKUP \in Lights
  /\ out_of_range_flag \in BOOLEAN
  /\ acc_LED \in 0 .. 2 * LED_HALF - 1 /\ lan_jici \in 0 .. BLINKS - 1

LInit ==
  /\ Init
  /\ RGB_LED_MODE = "breathe" /\ RGB_LED_MODE_BACKUP = "unset"
  /\ out_of_range_flag = FALSE
  /\ acc_LED = 0 /\ lan_jici = 0

-----------------------------------------------------------------------------
(* The main loop.                                                          *)

Show(l) ==
  /\ RGB_LED_MODE' = l /\ RGB_LED_MODE_BACKUP' = l
  /\ UNCHANGED out_of_range_flag

(* Mutant: the mode is saved on every jog out of range.                    *)
RangeStatusAlwaysSaves(inRange) ==
  \/ /\ ~inRange
     /\ out_of_range_flag' = TRUE
     /\ RGB_LED_MODE_BACKUP' = RGB_LED_MODE /\ RGB_LED_MODE' = "red"
  \/ /\ inRange /\ out_of_range_flag
     /\ out_of_range_flag' = FALSE
     /\ RGB_LED_MODE' = RGB_LED_MODE_BACKUP /\ UNCHANGED RGB_LED_MODE_BACKUP
  \/ inRange /\ ~out_of_range_flag /\ UNCHANGED lamp

(* update_range_status.                                                    *)
RangeStatus(inRange) ==
  \/ /\ ~inRange /\ ~out_of_range_flag
     /\ out_of_range_flag' = TRUE
     /\ RGB_LED_MODE_BACKUP' = RGB_LED_MODE /\ RGB_LED_MODE' = "red"
  \/ /\ inRange /\ out_of_range_flag
     /\ out_of_range_flag' = FALSE
     /\ RGB_LED_MODE' = RGB_LED_MODE_BACKUP /\ UNCHANGED RGB_LED_MODE_BACKUP
  \/ inRange # out_of_range_flag /\ UNCHANGED lamp

(* A running session's Z key edits the mark: the jogged position stays.    *)
JogLight(k) ==
  IF k \in {"jogZ+", "jogZ-"} /\ Running
    THEN UNCHANGED lamp
    ELSE RangeStatus(InRange(coord'))

AddMarkLight ==
  /\ RGB_LED_MODE' = IF InRange(coord) THEN "blue" ELSE RGB_LED_MODE
  /\ UNCHANGED <<RGB_LED_MODE_BACKUP, out_of_range_flag>>

LHandle(k) ==
  \/ k \in Jogs /\ Handle(k) /\ JogLight(k)
  \/ k = "mark"  /\ AddMark /\ AddMarkLight
  \/ k = "mark"  /\ (SwitchMode \/ MarkIgnored) /\ UNCHANGED lamp
  \/ k = "start" /\ Pause /\ Show("green")
  \/ k = "start" /\ (Restart \/ FirstStart \/ Resume) /\ Show("yellow")
  \/ k = "start" /\ StartIgnored /\ UNCHANGED lamp
  \/ k = "clear" /\ Clear /\ Show("breathe")
  \/ k \notin Jogs \cup {"mark", "start", "clear"} /\ Handle(k) /\ UNCHANGED lamp

LLcdKey(k) == GoTo("lcd", "ir") /\ k \in LcdKeys /\ LHandle(k) /\ UNCHANGED blink
LIrKey(k)  == GoTo("ir", "return") /\ k \in IrKeys /\ LHandle(k) /\ UNCHANGED blink

LCycleDone ==
  /\ CycleDone
  /\ RGB_LED_MODE' = "white"
  /\ UNCHANGED <<RGB_LED_MODE_BACKUP, out_of_range_flag, blink>>

LManualControl ==
  /\ ManualControl
  /\ IF coord # prev_coord /\ ~start_flag /\ RGB_LED_MODE # "red"
       THEN Show("green")
       ELSE UNCHANGED lamp
  /\ UNCHANGED blink

(* The phases that leave the light alone.                                  *)
LQuiet ==
  /\ \/ LcdNone \/ IrNone \/ ReturnDone \/ ReturnPending
     \/ Idle \/ PointExpired \/ NextPoint \/ RunHover \/ RunMoving
  /\ UNCHANGED <<lamp, blink>>

LLoop ==
  \/ \E k \in LcdKeys : LLcdKey(k)
  \/ \E k \in IrKeys : LIrKey(k)
  \/ LCycleDone \/ LManualControl \/ LQuiet

-----------------------------------------------------------------------------
(* The interrupt.                                                          *)

(* Mutant: the count of blinks starts at a multiple of the half period.    *)
RgbRunLate ==
  IF RGB_LED_MODE = "breathe"
    THEN UNCHANGED <<lamp, blink>>
    ELSE /\ acc_LED' = IF acc_LED + 1 > 2 * LED_HALF THEN 0 ELSE acc_LED + 1
         /\ UNCHANGED <<lamp, lan_jici>>

(* RGB_RUN: the blue blink gives way to the saved mode after BLINKS times; *)
(* no other mode ends by itself.                                           *)
RgbRun ==
  IF RGB_LED_MODE = "breathe"
    THEN UNCHANGED <<lamp, blink>>
    ELSE /\ acc_LED' = (acc_LED + 1) % (2 * LED_HALF)
         /\ IF acc_LED + 1 = LED_HALF /\ RGB_LED_MODE = "blue"
              THEN /\ lan_jici' = (lan_jici + 1) % BLINKS
                   /\ RGB_LED_MODE' = IF lan_jici + 1 = BLINKS THEN RGB_LED_MODE_BACKUP
                                                               ELSE "blue"
              ELSE UNCHANGED <<lan_jici, RGB_LED_MODE>>
         /\ UNCHANGED <<RGB_LED_MODE_BACKUP, out_of_range_flag>>

LTick == Tick /\ RgbRun

LNext == LLoop \/ LTick

LSpec == LInit /\ [][LNext]_lvars /\ WF_lvars(LLoop) /\ WF_lvars(LTick)

-----------------------------------------------------------------------------
(* The red light shows only while the jogged position is at or beyond a    *)
(* limit, whatever the order of jogs, marks, sessions and blinks that save *)
(* and restore the light mode.                                             *)
RedMeansOutside == RGB_LED_MODE = "red" => ~InRange(coord)

-----------------------------------------------------------------------------
(* What the comments say and the code does not do: README.md tells how     *)
(* each of these fails.                                                    *)

(* Green shows a stopped arm: a session that runs has left it.             *)
GreenMeansStopped == RGB_LED_MODE = "green" => ~start_flag

(* The blue blink that confirms a mark ends.                               *)
BlueEnds == RGB_LED_MODE = "blue" ~> RGB_LED_MODE # "blue"
=============================================================================
