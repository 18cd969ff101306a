------------------------ MODULE LightAndVoiceProofs ------------------------
(***************************************************************************)
(* The light and the voice over the session, for every number of marks,    *)
(* every duration and delay, and every set of keys.  Neither has any say   *)
(* in the session: their steps are steps of RbControl.                     *)
(*                                                                         *)
(* LightInv says why red is restored by nobody: it shows only while        *)
(* out_of_range_flag is set, and the mode that is saved is never red.      *)
(* VoiceInv says what keeps the player to one line: it is asked only when  *)
(* no line is low, and a busy count is not past its end.                   *)
(***************************************************************************)
EXTENDS RbLight, RbVoice, FiniteSetTheorems, TLAPS

-----------------------------------------------------------------------------
(* The session below.                                                      *)

LEMMA LightStepsSession == [LNext]_lvars => [Next]_vars
<1> SUFFICES ASSUME LNext PROVE Next
  BY DEF lvars
<1>1. ASSUME NEW k, LHandle(k) PROVE Handle(k)
  BY <1>1 DEF LHandle, Handle, Mark, StartPause
<1>2. CASE LTick
  BY <1>2 DEF LTick, Next
<1>3. CASE LLoop
  <2>1. Loop
    BY <1>1, <1>3 DEF LLoop, LLcdKey, LIrKey, LCycleDone, LManualControl, LQuiet,
                      Loop, LcdKey, IrKey
  <2> QED
    BY <2>1 DEF Next
<1> QED
  BY <1>2, <1>3 DEF LNext

LEMMA VoiceStepsSession == [VNext]_vvars => [Next]_vars
<1> SUFFICES ASSUME VNext PROVE Next \/ UNCHANGED vars
  BY DEF vvars
<1>1. ASSUME NEW k, VHandle(k) PROVE Handle(k)
  BY <1>1 DEF VHandle, BeginSwitch, Handle, Mark, StartPause
<1>2. CASE VTick
  BY <1>2 DEF VTick, Next
<1>3. CASE VLoop
  <2>1. CASE SayMode
    BY <2>1 DEF SayMode
  <2>2. CASE ~SayMode
    BY <1>1, <1>3, <2>2
       DEF VLoop, VLcdKey, VIrKey, VCycleDone, VQuiet, Loop, LcdKey, IrKey, Next
  <2> QED
    BY <2>1, <2>2
<1> QED
  BY <1>2, <1>3 DEF VNext

(* The session with the light is a session: what RbControl never does, it  *)
(* does not do with RGB_RUN and the handlers' assignments to it either.    *)
THEOREM LightKeepsSession == LSpec => Init /\ [][Next]_vars
  BY LightStepsSession, PTL DEF LSpec, LInit

(* The same for the session with the voice.                                *)
THEOREM VoiceKeepsSession == VSpec => Init /\ [][Next]_vars
  BY VoiceStepsSession, PTL DEF VSpec, VInit

-----------------------------------------------------------------------------
(* The light.                                                              *)

LightInv ==
  /\ RGB_LED_MODE_BACKUP # "red"
  /\ RGB_LED_MODE = "red" => out_of_range_flag /\ ~InRange(coord)

(* Only a jog moves the coordinate.                                        *)
LEMMA CoordOfHandlers ==
  ASSUME NEW k, k \notin Jogs, Handle(k)
  PROVE  coord' = coord
  BY DEF Handle, Jogs, Cebai, Park, CorrectMotor, Mark, AddMark, SwitchMode, MarkIgnored,
         StartPause, Pause, Restart, FirstStart, Resume, StartIgnored, ChangeTime, Clear, jog

LEMMA CoordOfHandOvers ==
  ASSUME \/ LcdNone \/ IrNone \/ ReturnDone \/ ReturnPending \/ Idle \/ PointExpired
         \/ CycleDone \/ NextPoint \/ RunHover \/ RunMoving \/ ManualControl \/ Tick
  PROVE  coord' = coord
  BY DEF LcdNone, IrNone, NoKey, ReturnDone, ReturnPending, Idle, PointExpired, CycleDone,
         NextPoint, RunHover, RunMoving, ManualControl, Tick, jog

LEMMA JogKeepsLight ==
  ASSUME LightInv, NEW k \in Jogs, Handle(k), JogLight(k)
  PROVE  LightInv'
<1>1. CASE UNCHANGED lamp /\ coord' = coord
  BY <1>1 DEF LightInv, lamp, InRange
<1>2. CASE RangeStatus(InRange(coord'))
  BY <1>2 DEF RangeStatus, LightInv, lamp, InRange
<1>3. CASE k \in {"jogZ+", "jogZ-"} /\ Running
  <2>1. coord' = coord
    BY <1>3 DEF Handle, JogZ, jog, Running, Jogs
  <2>2. UNCHANGED lamp
    BY <1>3 DEF JogLight
  <2> QED
    BY <1>1, <2>1, <2>2
<1> QED
  BY <1>2, <1>3 DEF JogLight

LEMMA HandleKeepsLight == ASSUME LightInv, NEW k, LHandle(k) PROVE LightInv'
<1>1. CASE k \in Jogs /\ Handle(k) /\ JogLight(k)
  BY <1>1, JogKeepsLight
<1>2. CASE k = "mark" /\ AddMark /\ AddMarkLight
  <2>1. coord' = coord
    BY <1>2 DEF AddMark, jog
  <2> QED
    BY <1>2, <2>1 DEF AddMarkLight, LightInv, InRange
<1>3. CASE k = "mark" /\ (SwitchMode \/ MarkIgnored) /\ UNCHANGED lamp
  <2>1. coord' = coord
    BY <1>3 DEF SwitchMode, MarkIgnored, jog
  <2> QED
    BY <1>3, <2>1 DEF LightInv, lamp, InRange
<1>4. CASE Show("green") \/ Show("yellow") \/ Show("breathe")
  BY <1>4 DEF Show, LightInv
<1>5. CASE k = "start" /\ StartIgnored /\ UNCHANGED lamp
  <2>1. coord' = coord
    BY <1>5 DEF StartIgnored, jog
  <2> QED
    BY <1>5, <2>1 DEF LightInv, lamp, InRange
<1>6. CASE k \notin Jogs \cup {"mark", "start", "clear"} /\ Handle(k) /\ UNCHANGED lamp
  <2>1. coord' = coord
    BY <1>6, CoordOfHandlers
  <2> QED
    BY <1>6, <2>1 DEF LightInv, lamp, InRange
<1> QED
  BY <1>1, <1>2, <1>3, <1>4, <1>5, <1>6 DEF LHandle

LEMMA LightStep == LightInv /\ [LNext]_lvars => LightInv'
<1> SUFFICES ASSUME LightInv, [LNext]_lvars PROVE LightInv'
  OBVIOUS
<1>1. CASE UNCHANGED lvars
  BY <1>1 DEF lvars, vars, jog, lamp, LightInv, InRange
<1>2. ASSUME NEW k, LLcdKey(k) \/ LIrKey(k) PROVE LightInv'
  BY <1>2, HandleKeepsLight DEF LLcdKey, LIrKey
<1>3. CASE LCycleDone
  <2>1. coord' = coord
    BY <1>3, CoordOfHandOvers DEF LCycleDone
  <2> QED
    BY <1>3, <2>1 DEF LCycleDone, LightInv
<1>4. CASE LManualControl
  <2>1. coord' = coord
    BY <1>4, CoordOfHandOvers DEF LManualControl
  <2> QED
    BY <1>4, <2>1 DEF LManualControl, LightInv, Show, lamp, InRange
<1>5. CASE LQuiet
  <2>1. coord' = coord
    BY <1>5, CoordOfHandOvers DEF LQuiet
  <2> QED
    BY <1>5, <2>1 DEF LQuiet, LightInv, lamp, InRange
<1>6. CASE LTick
  <2>1. coord' = coord
    BY <1>6, CoordOfHandOvers DEF LTick
  <2> QED
    BY <1>6, <2>1 DEF LTick, RgbRun, LightInv, lamp, InRange
<1> QED
  BY <1>1, <1>2, <1>3, <1>4, <1>5, <1>6 DEF LNext, LLoop

(* Red shows only at or beyond a limit, through every order of jogs, marks,*)
(* sessions and blinks that save and restore the mode of the light.        *)
THEOREM RedIsOutside == LSpec => []RedMeansOutside
<1>1. LInit => LightInv
  BY DEF LInit, LightInv
<1>2. LightInv => RedMeansOutside
  BY DEF LightInv, RedMeansOutside
<1> QED
  BY <1>1, <1>2, LightStep, PTL DEF LSpec

(* RGB_RUN counts modulo its period and modulo the blinks; both are types. *)
LEMMA RgbRunTypes == ASSUME LightTypeOK, RgbRun PROVE LightTypeOK'
<1>1. LED_HALF \in Nat /\ LED_HALF > 0
  BY LedAssumption
<1>2. acc_LED \in Nat /\ lan_jici \in Nat
  BY <1>1 DEF LightTypeOK, BLINKS
<1>3. (acc_LED + 1) % (2 * LED_HALF) \in 0 .. 2 * LED_HALF - 1
  BY <1>1, <1>2
<1>4. (lan_jici + 1) % BLINKS \in 0 .. BLINKS - 1
  BY <1>2 DEF BLINKS
<1>5. CASE RGB_LED_MODE = "breathe"
  BY <1>5 DEF RgbRun, LightTypeOK, lamp, blink
<1>6. CASE RGB_LED_MODE # "breathe"
  <2>1. acc_LED' \in 0 .. 2 * LED_HALF - 1
    BY <1>3, <1>6 DEF RgbRun
  <2>2. lan_jici' \in 0 .. BLINKS - 1
    BY <1>4, <1>6 DEF RgbRun, LightTypeOK
  <2>3. RGB_LED_MODE' \in {RGB_LED_MODE, RGB_LED_MODE_BACKUP, "blue"}
    BY <1>6 DEF RgbRun
  <2> QED
    BY <1>6, <2>1, <2>2, <2>3 DEF RgbRun, LightTypeOK, Lights
<1> QED
  BY <1>5, <1>6

LEMMA HandleLightTypes ==
  ASSUME LightTypeOK, NEW k, LHandle(k)
  PROVE  /\ RGB_LED_MODE' \in Lights /\ RGB_LED_MODE_BACKUP' \in Lights
         /\ out_of_range_flag' \in BOOLEAN
<1>1. CASE UNCHANGED lamp
  BY <1>1 DEF lamp, LightTypeOK
<1>2. CASE RangeStatus(InRange(coord'))
  BY <1>2 DEF RangeStatus, LightTypeOK, Lights, lamp
<1>3. CASE AddMarkLight
  BY <1>3 DEF AddMarkLight, LightTypeOK, Lights
<1>4. CASE Show("green") \/ Show("yellow") \/ Show("breathe")
  BY <1>4 DEF Show, LightTypeOK, Lights
<1> QED
  BY <1>1, <1>2, <1>3, <1>4 DEF LHandle, JogLight

LEMMA LightTypesStep == LightTypeOK /\ [LNext]_lvars => LightTypeOK'
<1> SUFFICES ASSUME LightTypeOK, [LNext]_lvars PROVE LightTypeOK'
  OBVIOUS
<1>1. CASE UNCHANGED <<lamp, blink>>
  BY <1>1 DEF lamp, blink, LightTypeOK
<1>2. ASSUME NEW k, LLcdKey(k) \/ LIrKey(k) PROVE LightTypeOK'
  <2>1. LHandle(k) /\ UNCHANGED blink
    BY <1>2 DEF LLcdKey, LIrKey
  <2> QED
    BY <2>1, HandleLightTypes DEF LightTypeOK, blink
<1>3. CASE LCycleDone
  BY <1>3 DEF LCycleDone, LightTypeOK, Lights, blink
<1>4. CASE LManualControl
  BY <1>4 DEF LManualControl, LightTypeOK, Lights, Show, lamp, blink
<1>5. CASE LTick
  BY <1>5, RgbRunTypes DEF LTick
<1> QED
  BY <1>1, <1>2, <1>3, <1>4, <1>5 DEF LNext, LLoop, LQuiet, lvars

(* The light mode, the one saved for later and both counters of RGB_RUN    *)
(* stay in their ranges, for any half period of the blinking.              *)
THEOREM LightTypeCorrect == LSpec => []LightTypeOK
<1>1. LInit => LightTypeOK
  <2>1. 0 \in 0 .. 2 * LED_HALF - 1 /\ 0 \in 0 .. BLINKS - 1
    BY LedAssumption DEF BLINKS
  <2> QED
    BY <2>1 DEF LInit, LightTypeOK, Lights
<1> QED
  BY <1>1, LightTypesStep, PTL DEF LSpec

-----------------------------------------------------------------------------
(* The voice.                                                              *)

VoiceInv ==
  /\ mode \in Modes
  /\ VoiceTypeOK
  /\ \E p : low \subseteq {p}
  /\ low # {} => ~OK_flag
  /\ ~OK_flag => acc_yuyin <= PROMPT
  /\ SaysTheMode

LEMMA PromptNumber == PROMPT \in Nat
  BY PromptAssumption

LEMMA InitVoiceInv == VInit => VoiceInv
<1> SUFFICES ASSUME VInit PROVE VoiceInv
  OBVIOUS
<1>1. mode \in Modes /\ "boot" \in Prompts /\ "boot" \notin Modes /\ "boot" # "none"
  BY DEF VInit, Init, Modes, Moving, Prompts
<1>2. acc_yuyin \in 0 .. PROMPT + 1 /\ acc_yuyin <= PROMPT
  BY PromptNumber DEF VInit
<1>3. ~OK_flag /\ OK_flag \in BOOLEAN
  BY Zenon DEF VInit
<1> QED
  BY <1>1, <1>2, <1>3 DEF VInit, VoiceInv, VoiceTypeOK, SaysTheMode

(* Only a switch changes the mode.                                         *)
LEMMA ModeOfHandlers ==
  ASSUME NEW k, k # "mark", Handle(k)
  PROVE  mode' = mode
  BY DEF Handle, Jog, JogZ, Cebai, Park, CorrectMotor, StartPause, Pause, Restart, FirstStart,
         Resume, StartIgnored, ChangeTime, Clear, motion

LEMMA ModeOfPhases ==
  ASSUME \/ LcdNone \/ IrNone \/ ReturnDone \/ ReturnPending \/ Idle \/ PointExpired
         \/ CycleDone \/ NextPoint \/ RunHover \/ RunMoving \/ ManualControl \/ Tick
  PROVE  mode' = mode
  BY DEF LcdNone, IrNone, NoKey, ReturnDone, ReturnPending, Idle, PointExpired, CycleDone,
         NextPoint, RunHover, RunMoving, ManualControl, Tick, motion

LEMMA SilentKeepsVoice == ASSUME VoiceInv, Silent, mode' = mode PROVE VoiceInv'
  BY DEF VoiceInv, VoiceTypeOK, SaysTheMode, Leaving, Silent, voice

(* A request for anything but a mode keeps the voice what it promises.     *)
LEMMA SayKeepsVoice ==
  ASSUME VoiceInv, NEW p \in Prompts, Say(p), mode' \in Modes, p \notin Modes
  PROVE  VoiceInv'
  BY DEF VoiceInv, VoiceTypeOK, SaysTheMode, Say, Ask

(* A switch leaves the mode that may still be asked for.                   *)
LEMMA BeginSwitchKeepsVoice == ASSUME VoiceInv, ~switching, BeginSwitch PROVE VoiceInv'
<1>1. /\ mode' = NextMode[mode] /\ mode' \in Modes /\ switching' = TRUE
      /\ UNCHANGED <<YUYIN_FLAG, last_yuyin_flag, OK_flag, acc_yuyin, low>>
  BY DEF BeginSwitch, SwitchMode, NextMode, VoiceInv, Modes, Moving
<1>2. YUYIN_FLAG \in Modes => YUYIN_FLAG = mode
  BY DEF VoiceInv, SaysTheMode
<1>3. SaysTheMode'
  BY <1>1, <1>2 DEF SaysTheMode, Leaving, NextMode
<1> QED
  BY <1>1, <1>3 DEF VoiceInv, VoiceTypeOK

(* Its last statement asks for the mode that is selected.                  *)
LEMMA SayModeKeepsVoice == ASSUME VoiceInv, SayMode PROVE VoiceInv'
<1>1. /\ mode' = mode /\ YUYIN_FLAG' = mode /\ switching' = FALSE
      /\ UNCHANGED <<last_yuyin_flag, OK_flag, acc_yuyin, low>>
  BY DEF SayMode, Ask, vars, motion
<1>2. Modes \subseteq Prompts
  BY DEF Prompts
<1> QED
  BY <1>1, <1>2 DEF VoiceInv, VoiceTypeOK, SaysTheMode

LEMMA HandleKeepsVoice ==
  ASSUME VoiceInv, ~switching, NEW k, VHandle(k)
  PROVE  VoiceInv'
<1>1. /\ {"up", "down", "stop", "start"} \subseteq Prompts
      /\ \A p \in {"up", "down", "stop", "start"} : p \notin Modes
      /\ Modes \subseteq Prompts /\ mode \in Modes
  BY DEF Prompts, Heights, Modes, Moving, VoiceInv
<1>2. CASE k = "jogZ+" /\ JogZ(1) /\ SayHeight("up")
  <2>1. mode' = mode
    BY <1>2 DEF JogZ, Jog, motion
  <2> QED
    BY <1>1, <1>2, <2>1, SilentKeepsVoice, SayKeepsVoice DEF SayHeight
<1>3. CASE k = "jogZ-" /\ JogZ(-1) /\ SayHeight("down")
  <2>1. mode' = mode
    BY <1>3 DEF JogZ, Jog, motion
  <2> QED
    BY <1>1, <1>3, <2>1, SilentKeepsVoice, SayKeepsVoice DEF SayHeight
<1>4. CASE k = "mark" /\ BeginSwitch
  BY <1>4, BeginSwitchKeepsVoice
<1>5. CASE k = "mark" /\ (AddMark \/ MarkIgnored) /\ Silent
  <2>1. mode' = mode
    BY <1>5 DEF AddMark, MarkIgnored, motion
  <2> QED
    BY <1>5, <2>1, SilentKeepsVoice
<1>6. CASE k = "start" /\ Pause /\ Say("stop")
  <2>1. mode' = mode
    BY <1>6 DEF Pause
  <2> QED
    BY <1>1, <1>6, <2>1, SayKeepsVoice
<1>7. CASE k = "start" /\ (Restart \/ FirstStart \/ Resume) /\ Say("start")
  <2>1. mode' = mode
    BY <1>7 DEF Restart, FirstStart, Resume, motion
  <2> QED
    BY <1>1, <1>7, <2>1, SayKeepsVoice
<1>8. CASE k = "start" /\ StartIgnored /\ Silent
  <2>1. mode' = mode
    BY <1>8 DEF StartIgnored, motion
  <2> QED
    BY <1>8, <2>1, SilentKeepsVoice
<1>9. CASE k \notin {"jogZ+", "jogZ-", "mark", "start"} /\ Handle(k) /\ Silent
  <2>1. mode' = mode
    BY <1>9, ModeOfHandlers
  <2> QED
    BY <1>9, <2>1, SilentKeepsVoice
<1> QED
  BY <1>2, <1>3, <1>4, <1>5, <1>6, <1>7, <1>8, <1>9 DEF VHandle

(* The interrupt; BusyAdvances is about its steps alone.                   *)
LEMMA TickKeepsVoice ==
  ASSUME VoiceInv, VTick
  PROVE  VoiceInv' /\ (~OK_flag /\ ~OK_flag' => acc_yuyin' > acc_yuyin)
<1>1. /\ mode' = mode /\ mode \in Modes /\ Modes \subseteq Prompts
      /\ acc_yuyin \in 0 .. PROMPT + 1 /\ PROMPT \in Nat
      /\ YUYIN_FLAG \in Prompts /\ switching \in BOOLEAN
      /\ "none" \in Prompts /\ "none" \notin Modes
  BY ModeOfPhases, PromptNumber
     DEF VTick, VoiceInv, VoiceTypeOK, Prompts, Modes, Moving
<1>2. CASE StartPrompt
  <2>1. OK_flag /\ low = {}
    BY <1>2 DEF StartPrompt, PromptDue, VoiceInv
  <2>2. /\ last_yuyin_flag' = YUYIN_FLAG /\ acc_yuyin' = 0 /\ ~OK_flag'
        /\ low' = {YUYIN_FLAG} \ {"none"}
        /\ YUYIN_FLAG' \in {YUYIN_FLAG, "none"} /\ switching' = switching
    BY <1>2, <2>1 DEF StartPrompt
  <2>3. OK_flag' \in BOOLEAN
    BY <1>2, Zenon DEF StartPrompt
  <2>4. VoiceTypeOK'
    BY <1>1, <2>2, <2>3 DEF VoiceTypeOK
  <2>5. SaysTheMode'
    BY <1>1, <2>2 DEF VoiceInv, SaysTheMode, Leaving
  <2> QED
    BY <1>1, <2>1, <2>2, <2>4, <2>5 DEF VoiceInv
<1>3. CASE CountPrompt
  <2>1. /\ acc_yuyin < PROMPT /\ acc_yuyin' = acc_yuyin + 1
        /\ UNCHANGED <<YUYIN_FLAG, last_yuyin_flag, OK_flag, low, switching>>
    BY <1>3 DEF CountPrompt
  <2> QED
    BY <1>1, <2>1 DEF VoiceInv, VoiceTypeOK, SaysTheMode, Leaving
<1>4. CASE EndPrompt
  <2>1. /\ acc_yuyin' = PROMPT + 1 /\ OK_flag' /\ low' = {}
        /\ YUYIN_FLAG' \in Follower
        /\ last_yuyin_flag' = last_yuyin_flag /\ switching' = switching
    BY <1>4 DEF EndPrompt
  <2>2. OK_flag' \in BOOLEAN
    BY <1>4, Zenon DEF EndPrompt
  <2>3. \/ YUYIN_FLAG' = YUYIN_FLAG
        \/ YUYIN_FLAG' = mode
        \/ switching /\ Leaving(YUYIN_FLAG')
    BY <2>1 DEF Follower
  <2>4. SaysTheMode'
    BY <1>1, <2>1, <2>3 DEF VoiceInv, SaysTheMode, Leaving
  <2>5. YUYIN_FLAG' \in Prompts
    BY <1>1, <2>3 DEF Leaving
  <2> QED
    BY <1>1, <2>1, <2>2, <2>4, <2>5 DEF VoiceInv, VoiceTypeOK
<1>5. CASE NoPrompt
  <2>1. VoiceInv'
    BY <1>1, <1>5, SilentKeepsVoice DEF NoPrompt
  <2>2. OK_flag
    BY <1>1, <1>5 DEF NoPrompt, VoiceInv
  <2> QED
    BY <2>1, <2>2
<1> QED
  BY <1>2, <1>3, <1>4, <1>5 DEF VTick

LEMMA VoiceStep == VoiceInv /\ [VNext]_vvars => VoiceInv'
<1> SUFFICES ASSUME VoiceInv, [VNext]_vvars PROVE VoiceInv'
  OBVIOUS
<1>1. CASE UNCHANGED vvars
  BY <1>1, SilentKeepsVoice DEF vvars, vars, motion, voice, Silent
<1>2. ASSUME ~switching, NEW k, VLcdKey(k) \/ VIrKey(k) PROVE VoiceInv'
  BY <1>2, HandleKeepsVoice DEF VLcdKey, VIrKey
<1>3. CASE VCycleDone
  <2>1. mode' = mode /\ mode' \in Modes
    BY <1>3, ModeOfPhases DEF VCycleDone, VoiceInv
  <2>2. "stop" \in Prompts /\ "stop" \notin Modes
    BY DEF Prompts, Modes, Moving
  <2> QED
    BY <1>3, <2>1, <2>2, SayKeepsVoice DEF VCycleDone
<1>4. CASE VQuiet
  BY <1>4, ModeOfPhases, SilentKeepsVoice DEF VQuiet
<1>5. CASE VTick
  BY <1>5, TickKeepsVoice
<1>6. CASE SayMode
  BY <1>6, SayModeKeepsVoice
<1> QED
  BY <1>1, <1>2, <1>3, <1>4, <1>5, <1>6 DEF VNext, VLoop

LEMMA VoiceInvariance == VSpec => []VoiceInv
  BY InitVoiceInv, VoiceStep, PTL DEF VSpec

(* The player is given one line at a time and none while it is free,       *)
(* whatever the keys ask for, at any moment of another prompt.             *)
THEOREM OneLineAtATime == VSpec => []OnePrompt
<1>1. VoiceInv => OnePrompt
  <2> SUFFICES ASSUME VoiceInv PROVE Cardinality(low) <= 1
    BY DEF VoiceInv, OnePrompt
  <2>1. PICK p : low = {} \/ low = {p}
    BY DEF VoiceInv
  <2>2. Cardinality({}) = 0 /\ Cardinality({p}) = 1
    BY FS_EmptySet, FS_Singleton
  <2> QED
    BY <2>1, <2>2
<1> QED
  BY <1>1, VoiceInvariance, PTL

(* A mode asked for is the mode selected, however many keys came since,    *)
(* or, between switch_mode and the last statement of its caller, the mode  *)
(* that is being left; the interrupt may come at any moment of it.         *)
THEOREM SpokenModeIsSelected == VSpec => []SaysTheMode
<1>1. VoiceInv => SaysTheMode
  BY DEF VoiceInv
<1> QED
  BY <1>1, VoiceInvariance, PTL

(* A busy player comes nearer to being free with every tick.               *)
THEOREM PlayerAdvances == VSpec => BusyAdvances
<1>1. /\ VoiceInv /\ [VNext]_vvars
      => [VTick /\ ~OK_flag /\ ~OK_flag' => acc_yuyin' > acc_yuyin]_vvars
  BY TickKeepsVoice
<1> QED
  BY <1>1, VoiceInvariance, PTL DEF VSpec, BusyAdvances
=============================================================================
