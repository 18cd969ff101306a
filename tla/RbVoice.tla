------------------------------ MODULE RbVoice ------------------------------
(***************************************************************************)
(* The voice prompts over the session of RbControl.  Handlers ask for a    *)
(* prompt by YUYIN_FLAG; yunyin_run, called by the 100 ms interrupt, plays *)
(* one at a time: it pulls the line of the prompt low for 3 s and looks at *)
(* YUYIN_FLAG again afterwards.  Every action is an action of RbControl    *)
(* together with what it does to the voice.  Prompts are named for what    *)
(* they say; "none" (255) has no line.                                     *)
(*                                                                         *)
(* Of the session yunyin_run reads the mode flags alone.  So the handlers  *)
(* are one step each, except the switch of the mode: it writes the flags,  *)
(* prints and may command the motors before it writes YUYIN_FLAG, and the  *)
(* interrupt comes in between.                                             *)
(***************************************************************************)
EXTENDS RbControl

CONSTANT PROMPT       (* the 3000 ms a prompt takes                        *)

ASSUME PromptAssumption == PROMPT \in Nat \ {0}

Heights == {"up", "down"}
Prompts == {"boot", "start", "stop", "none"} \cup Modes \cup Heights

VARIABLES YUYIN_FLAG, last_yuyin_flag, OK_flag, acc_yuyin,
  low,                (* the prompts whose line is low                     *)
  switching           (* switch_mode is done, YUYIN_FLAG is still to write *)

voice == <<YUYIN_FLAG, last_yuyin_flag, OK_flag, acc_yuyin, low, switching>>
vvars == <<vars, voice>>

VoiceTypeOK ==
  /\ YUYIN_FLAG \in Prompts /\ last_yuyin_flag \in Prompts /\ OK_flag \in BOOLEAN
  /\ acc_yuyin \in 0 .. PROMPT + 1
  /\ low \subseteq Prompts \ {"none"}
  /\ switching \in BOOLEAN

(* The loop starts 2.6 s after the timer: the first prompt is playing.     *)
VInit ==
  /\ Init
  /\ YUYIN_FLAG = "boot" /\ last_yuyin_flag = "boot" /\ OK_flag = FALSE
  /\ acc_yuyin \in 0 .. PROMPT
  /\ low = {"boot"}
  /\ switching = FALSE

-----------------------------------------------------------------------------
(* The main loop.                                                          *)

Silent == UNCHANGED voice
Ask(p) == YUYIN_FLAG' = p /\ UNCHANGED <<last_yuyin_flag, OK_flag, acc_yuyin, low>>
Say(p) == Ask(p) /\ UNCHANGED switching

(* A running session's Z key speaks when the height of the mark changes,   *)
(* that is unless it is at a limit.                                        *)
SayHeight(p) == Silent \/ (Running /\ Say(p))

Leaving(m) == m \in Modes /\ NextMode[m] = mode

(* The handler of a switch, up to its last statement, and that statement.  *)
BeginSwitch ==
  /\ SwitchMode
  /\ switching' = TRUE
  /\ UNCHANGED <<YUYIN_FLAG, last_yuyin_flag, OK_flag, acc_yuyin, low>>

(* Mutant: the mode that was left is announced.                            *)
SayOldMode ==
  /\ switching /\ switching' = FALSE
  /\ \E m \in Modes : Leaving(m) /\ Ask(m)
  /\ UNCHANGED vars

SayMode ==
  /\ switching /\ switching' = FALSE
  /\ Ask(mode)
  /\ UNCHANGED vars

VHandle(k) ==
  \/ k = "jogZ+" /\ JogZ(1) /\ SayHeight("up")
  \/ k = "jogZ-" /\ JogZ(-1) /\ SayHeight("down")
  \/ k = "mark"  /\ BeginSwitch
  \/ k = "mark"  /\ (AddMark \/ MarkIgnored) /\ Silent
  \/ k = "start" /\ Pause /\ Say("stop")
  \/ k = "start" /\ (Restart \/ FirstStart \/ Resume) /\ Say("start")
  \/ k = "start" /\ StartIgnored /\ Silent
  \/ k \notin {"jogZ+", "jogZ-", "mark", "start"} /\ Handle(k) /\ Silent

VLcdKey(k) == GoTo("lcd", "ir") /\ k \in LcdKeys /\ VHandle(k)
VIrKey(k)  == GoTo("ir", "return") /\ k \in IrKeys /\ VHandle(k)

VCycleDone == CycleDone /\ Say("stop")

VQuiet ==
  /\ \/ LcdNone \/ IrNone \/ ReturnDone \/ ReturnPending
     \/ Idle \/ PointExpired \/ NextPoint \/ RunHover \/ RunMoving \/ ManualControl
  /\ Silent

VLoop ==
  \/ SayMode
  \/ /\ ~switching
     /\ \/ \E k \in LcdKeys : VLcdKey(k)
        \/ \E k \in IrKeys : VIrKey(k)
        \/ VCycleDone \/ VQuiet

-----------------------------------------------------------------------------
(* The interrupt: yunyin_run.                                              *)

(* Mutant: a prompt does not wait for the one that plays.                  *)
PromptDueAtOnce == last_yuyin_flag # YUYIN_FLAG

PromptDue == last_yuyin_flag # YUYIN_FLAG /\ OK_flag

StartPrompt ==
  /\ PromptDue
  /\ last_yuyin_flag' = YUYIN_FLAG /\ acc_yuyin' = 0 /\ OK_flag' = FALSE
  /\ low' = low \cup ({YUYIN_FLAG} \ {"none"})
  /\ YUYIN_FLAG' = IF YUYIN_FLAG \in Heights THEN "none" ELSE YUYIN_FLAG
  /\ UNCHANGED switching

(* Mutant: a request made meanwhile starts the 3 s again.                  *)
CountPromptAnew ==
  /\ ~PromptDue /\ acc_yuyin < PROMPT
  /\ acc_yuyin' = IF YUYIN_FLAG = last_yuyin_flag THEN acc_yuyin + 1 ELSE 0
  /\ UNCHANGED <<YUYIN_FLAG, last_yuyin_flag, OK_flag, low, switching>>

CountPrompt ==
  /\ ~PromptDue /\ acc_yuyin < PROMPT
  /\ acc_yuyin' = acc_yuyin + 1
  /\ UNCHANGED <<YUYIN_FLAG, last_yuyin_flag, OK_flag, low, switching>>

(* At the end all lines go high; a start is followed by the mode.  While   *)
(* the four mode flags are written one after the other, there may be none  *)
(* set, or two: the start stays, or one of the two modes follows it.       *)
Follower ==
  IF YUYIN_FLAG # "start" THEN {YUYIN_FLAG}
  ELSE IF switching THEN {m \in Modes : Leaving(m)} \cup {"start", mode}
  ELSE {mode}

EndPrompt ==
  /\ ~PromptDue /\ acc_yuyin = PROMPT
  /\ acc_yuyin' = PROMPT + 1 /\ OK_flag' = TRUE /\ low' = {}
  /\ YUYIN_FLAG' \in Follower
  /\ UNCHANGED <<last_yuyin_flag, switching>>

NoPrompt == ~PromptDue /\ acc_yuyin > PROMPT /\ Silent

VTick == Tick /\ (StartPrompt \/ CountPrompt \/ EndPrompt \/ NoPrompt)

VNext == VLoop \/ VTick

VSpec == VInit /\ [][VNext]_vvars /\ WF_vvars(VLoop) /\ WF_vvars(VTick)

-----------------------------------------------------------------------------
(* The player is given one line at a time, and none while it is free: the  *)
(* keys may ask for any prompt at any moment of another.                   *)
OnePrompt == Cardinality(low) <= 1 /\ (low # {} => ~OK_flag)

(* A mode that is asked for is the mode that is selected, whether a switch *)
(* asked for it or the interrupt did, 3 s after a start; only within a     *)
(* switch, until its last statement, it may still be the mode that is left.*)
SaysTheMode ==
  YUYIN_FLAG \in Modes =>
    YUYIN_FLAG = mode \/ (switching /\ Leaving(YUYIN_FLAG))

(* A busy player comes nearer to being free with every tick: no request    *)
(* made meanwhile starts its 3 s again or stops them.                      *)
BusyAdvances ==
  [][VTick /\ ~OK_flag /\ ~OK_flag' => acc_yuyin' > acc_yuyin]_vvars

-----------------------------------------------------------------------------
(* What the comments say and the code does not do: README.md tells how     *)
(* this fails.                                                             *)

(* Once the greeting is over, the announcement of a start gives way to     *)
(* that of the mode only after it has been played: not after the prompt of *)
(* a pause that still plays when the session is resumed.                   *)
StartIsSpoken ==
  [][VTick /\ "boot" \notin low /\ YUYIN_FLAG = "start" /\ YUYIN_FLAG' \in Modes
       => last_yuyin_flag = "start"]_vvars

(* The prompt of a mode begins while that mode is selected: not between    *)
(* switch_mode and the request of the new mode's prompt.                   *)
PlaysTheMode ==
  [][VTick /\ StartPrompt /\ YUYIN_FLAG \in Modes => YUYIN_FLAG = mode]_vvars
=============================================================================
