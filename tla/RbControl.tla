----------------------------- MODULE RbControl -----------------------------
(***************************************************************************)
(* The treatment session of the arm: the main loop rb_test08 and the       *)
(* 100 ms timer interrupt TIM3_IRQHandler of NEW/new.c.                    *)
(*                                                                         *)
(* The operator jogs the arm, marks up to MAX_POINTS points, and starts a  *)
(* session that visits the marks in order, stays point_duration at each,   *)
(* moves in the selected mode, and waits RETURN_DELAY after every move to  *)
(* a mark.  The loop is one process whose phases are the values of pc; the *)
(* interrupt (Tick) may run between any two phases.  An LCD byte and an IR *)
(* command are handled one after the other in each iteration.              *)
(*                                                                         *)
(* Time is counted in ticks of the interrupt, scaled by the constants.     *)
(* Left to other modules: what a pose is made of (joint angles, x/y/z),    *)
(* where a motion step goes (position, ud_traj_step, angle_idx, height     *)
(* compensation), the LED and the voice prompts, and the pitch loop.       *)
(***************************************************************************)
EXTENDS Integers, FiniteSets

CONSTANTS
  MAX_POINTS,         (* size of points[]                                  *)
  DURATION_MIN,       (* POINT_DURATION_MIN, in ticks                      *)
  DURATION_MAX,       (* POINT_DURATION_MAX, in ticks                      *)
  DURATION_DEFAULT,   (* initial point_duration                            *)
  DURATION_STEP,      (* what one press of time+ or time- changes          *)
  RETURN_DELAY,       (* RETURN_DELAY_MS                                   *)
  FLAME_TIME,         (* the 252000 ms the flame burns                     *)
  INTERVAL,           (* LR_MOVE_, CIRCLE_ and UD_MOVE_INTERVAL, per mode  *)
  COORD_MAX,          (* last detent of the jog axis; 0 and it are limits  *)
  MAX_LAG,            (* ticks one iteration of the loop may take          *)
  LcdKeys, IrKeys,    (* the keys pressed on the panel and on the remote   *)
  Manual, Parked      (* arm targets that are not marks                    *)

Slots  == 0 .. MAX_POINTS - 1
Moving == {"lr", "circle", "ud"}
Modes  == {"hover"} \cup Moving
Jogs   == {"jogXY+", "jogXY-", "jogZ+", "jogZ-"}
IrCodes  == Jogs \cup {"cebai", "mark", "start"}
LcdCodes == IrCodes \cup {"zero", "park", "time+", "time-", "clear", "correct"}
Phases == {"lcd", "ir", "return", "run", "expired", "manual"}

ASSUME CountsAssumption ==
  /\ MAX_POINTS \in Nat \ {0}
  /\ COORD_MAX \in Nat \ {0, 1}
  /\ MAX_LAG \in Nat \ {0}
  /\ RETURN_DELAY \in Nat \ {0}
  /\ FLAME_TIME \in Nat \ {0}
  /\ INTERVAL \in [Moving -> Nat \ {0}]

(* time+ and time- stay on a grid that meets both limits, as 2, 7 and 10   *)
(* minutes do with steps of one minute.  A return delay and two iterations *)
(* of the loop are shorter than any stay (6 s against 2 minutes).          *)
ASSUME DurationAssumption ==
  /\ DURATION_STEP \in Nat \ {0}
  /\ DURATION_MIN \in Nat \ {0} /\ DURATION_MAX \in Nat
  /\ \E i, j \in 0 .. DURATION_MAX :
       /\ DURATION_DEFAULT = DURATION_MIN + i * DURATION_STEP
       /\ DURATION_MAX     = DURATION_DEFAULT + j * DURATION_STEP
  /\ RETURN_DELAY + 2 * MAX_LAG < DURATION_MIN

ASSUME KeysAssumption ==
  /\ LcdKeys \subseteq LcdCodes
  /\ IrKeys \subseteq IrCodes

ASSUME ArmAssumption == Manual \notin Slots /\ Parked \notin Slots

VARIABLES
  pc,                 (* phase of the main loop                            *)
  lag,                (* ticks since the loop was last at its top          *)
  point_count, points, point_duration,
  start_flag, cycle_complete, current_point, biji_flag,
  mode,               (* the one of the four mode flags that is set        *)
  timer_running,      (* the modes whose timer_running_ flag is set        *)
  move_flag,          (* the modes whose _move_flag is set                 *)
  acc_move,           (* acc_lr, acc_circle, acc_ud                        *)
  return_in_progress, return_delay_flag, return_type, acc_return,
  flame_flag, acc_flame,
  flame, fan, light,  (* the three output pins                             *)
  coord, prev_coord, first_imu_flag2,
  arm                 (* where the last position command sends the arm     *)

marks   == <<point_count, points, point_duration, biji_flag>>
session == <<start_flag, cycle_complete, current_point>>
motion  == <<mode, timer_running, move_flag>>
ret     == <<return_in_progress, return_delay_flag, return_type>>
burner  == <<flame_flag, flame, fan, light>>
jog     == <<coord, prev_coord, first_imu_flag2>>
accs    == <<acc_move, acc_return, acc_flame>>
vars    == <<pc, lag, marks, session, motion, ret, burner, jog, accs, arm>>

Point == [timer : 0 .. DURATION_MAX, duration : 0 .. DURATION_MAX]

TypeLoop    == pc \in Phases /\ lag \in 0 .. MAX_LAG
TypeMarks   == /\ point_count \in 0 .. MAX_POINTS
               /\ points \in [Slots -> Point]
               /\ point_duration \in DURATION_MIN .. DURATION_MAX
               /\ biji_flag \in BOOLEAN
TypeSession == /\ start_flag \in BOOLEAN /\ cycle_complete \in BOOLEAN
               /\ current_point \in 0 .. MAX_POINTS
TypeMotion  == mode \in Modes /\ timer_running \subseteq Moving /\ move_flag \subseteq Moving
TypeReturn  == /\ return_in_progress \in BOOLEAN /\ return_delay_flag \in BOOLEAN
               /\ return_type \in {0, 1, 3, 4, 5}
TypeBurner  == flame_flag \in BOOLEAN /\ flame \in BOOLEAN /\ fan \in BOOLEAN /\ light \in BOOLEAN
TypeJog     == /\ coord \in 0 .. COORD_MAX /\ prev_coord \in 0 .. COORD_MAX
               /\ first_imu_flag2 \in BOOLEAN
               /\ arm \in Slots \cup {Manual, Parked}
TypeAccs    == /\ acc_move \in [Moving -> Nat]
               /\ \A m \in Moving : acc_move[m] < INTERVAL[m]
               /\ acc_return \in 0 .. RETURN_DELAY - 1
               /\ acc_flame \in 0 .. FLAME_TIME - 1

TypeOK ==
  /\ TypeLoop /\ TypeMarks /\ TypeSession /\ TypeMotion
  /\ TypeReturn /\ TypeBurner /\ TypeJog /\ TypeAccs

Init ==
  /\ pc = "lcd" /\ lag = 0
  /\ point_count = 0 /\ point_duration = DURATION_DEFAULT /\ biji_flag = TRUE
  /\ points = [i \in Slots |-> [timer |-> 0, duration |-> 0]]
  /\ start_flag = FALSE /\ cycle_complete = FALSE /\ current_point = 0
  /\ mode = "hover" /\ timer_running = {} /\ move_flag = {}
  /\ return_in_progress = FALSE /\ return_delay_flag = FALSE /\ return_type = 0
  /\ flame_flag = FALSE /\ flame = FALSE /\ fan = FALSE /\ light = FALSE
  /\ coord = COORD_MAX \div 2 /\ prev_coord = coord /\ first_imu_flag2 = FALSE
  /\ acc_move = [m \in Moving |-> 0] /\ acc_return = 0 /\ acc_flame = 0
  /\ arm = Parked

-----------------------------------------------------------------------------
(* Helpers shared by the handlers.                                         *)

Running == start_flag /\ ~cycle_complete /\ point_count > 0
ModeTimers(m) == {m} \cap Moving
InRange(c) == 0 < c /\ c < COORD_MAX
Clamp(c) == IF c < 0 THEN 0 ELSE IF c > COORD_MAX THEN COORD_MAX ELSE c

(* start_return_delay(type, idx): move_to_point sends the arm to a mark    *)
(* that exists, then the delay is armed.  acc_return is not restarted.     *)
StartReturnDelay(type, idx) ==
  /\ return_type' = type
  /\ return_in_progress' = TRUE
  /\ return_delay_flag' = FALSE
  /\ arm' = IF idx < point_count THEN idx ELSE arm

(***************************************************************************)
(* Key handlers.  Each one updates everything but pc, lag and accs, which  *)
(* the phases of the loop take care of.                                    *)
(***************************************************************************)

(* Y, X, and Z when no session runs: one detent, clamped to the limits.    *)
Jog(d) ==
  /\ coord' = Clamp(coord + d)
  /\ UNCHANGED <<marks, session, motion, ret, burner, prev_coord, first_imu_flag2, arm>>

(* Z in a running session edits the height of the current mark instead.    *)
JogZ(d) ==
  IF Running
    THEN UNCHANGED <<marks, session, motion, ret, burner, jog, arm>>
    ELSE Jog(d)

(* Side swing: motor 4 only.                                               *)
Cebai == UNCHANGED <<marks, session, motion, ret, burner, jog, arm>>

(* RUN_ZERO and RUN_START.                                                 *)
Park ==
  /\ arm' = Parked
  /\ UNCHANGED <<marks, session, motion, ret, burner, jog>>

(* 0xE2 .. 0xE9 command motor 6 or motor 1 alone.                          *)
CorrectMotor ==
  /\ arm' = Manual
  /\ UNCHANGED <<marks, session, motion, ret, burner, jog>>

AddMark ==
  /\ ~start_flag /\ point_count < MAX_POINTS /\ first_imu_flag2 /\ biji_flag
  /\ IF InRange(coord)
       THEN /\ points' = [points EXCEPT ![point_count] =
                            [timer |-> 0, duration |-> point_duration]]
            /\ point_count' = point_count + 1
       ELSE UNCHANGED <<points, point_count>>
  /\ UNCHANGED <<point_duration, biji_flag, session, motion, ret, burner, jog, arm>>

NextMode == [hover |-> "lr", lr |-> "ud", ud |-> "circle", circle |-> "hover"]

(* Mutant: the step timers are not stopped on a switch.                    *)
SwitchModeKeepsTimers ==
  /\ point_count # 0 /\ first_imu_flag2 /\ ~biji_flag
  /\ mode' = NextMode[mode]
  /\ IF start_flag
       THEN StartReturnDelay(1, current_point)
       ELSE UNCHANGED <<ret, arm>>
  /\ UNCHANGED <<timer_running, move_flag, marks, session, burner, jog>>

(* switch_mode: the timers stop; a running session first goes back to its  *)
(* current mark (return type 1).                                           *)
SwitchMode ==
  /\ point_count # 0 /\ first_imu_flag2 /\ ~biji_flag
  /\ mode' = NextMode[mode]
  /\ timer_running' = {}
  /\ IF start_flag
       THEN StartReturnDelay(1, current_point)
       ELSE UNCHANGED <<ret, arm>>
  /\ UNCHANGED <<move_flag, marks, session, burner, jog>>

(* The mark key when neither branch of its handler applies.                *)
MarkIgnored ==
  /\ ~(~start_flag /\ point_count < MAX_POINTS /\ first_imu_flag2 /\ biji_flag)
  /\ ~(point_count # 0 /\ first_imu_flag2 /\ ~biji_flag)
  /\ UNCHANGED <<marks, session, motion, ret, burner, jog, arm>>

Mark == AddMark \/ SwitchMode \/ MarkIgnored

Pause ==
  /\ point_count > 0 /\ start_flag
  /\ start_flag' = FALSE
  /\ timer_running' = {} /\ move_flag' = {}
  /\ UNCHANGED <<cycle_complete, current_point, mode, marks, ret, burner, jog, arm>>

LightFlame ==
  /\ flame' = TRUE /\ flame_flag' = TRUE
  /\ UNCHANGED <<fan, light>>

CanRestart    == cycle_complete /\ first_imu_flag2
CanFirstStart == ~CanRestart /\ current_point = 0 /\ points[0].timer = 0

(* Mutant: a new cycle goes on at the index the last one ended with.       *)
RestartKeepsIndex ==
  /\ point_count > 0 /\ ~start_flag /\ CanRestart
  /\ biji_flag' = FALSE
  /\ LightFlame
  /\ cycle_complete' = FALSE
  /\ points' = [i \in Slots |-> IF i < point_count
                                  THEN [points[i] EXCEPT !.timer = 0]
                                  ELSE points[i]]
  /\ StartReturnDelay(3, 0)
  /\ UNCHANGED <<point_count, point_duration, start_flag, current_point, motion, jog>>

Restart ==
  /\ point_count > 0 /\ ~start_flag /\ CanRestart
  /\ biji_flag' = FALSE
  /\ LightFlame
  /\ current_point' = 0 /\ cycle_complete' = FALSE
  /\ points' = [i \in Slots |-> IF i < point_count
                                  THEN [points[i] EXCEPT !.timer = 0]
                                  ELSE points[i]]
  /\ StartReturnDelay(3, 0)
  /\ UNCHANGED <<point_count, point_duration, start_flag, motion, jog>>

FirstStart ==
  /\ point_count > 0 /\ ~start_flag /\ CanFirstStart
  /\ biji_flag' = FALSE
  /\ LightFlame
  /\ StartReturnDelay(4, 0)
  /\ UNCHANGED <<point_count, points, point_duration, session, motion, jog>>

Resume ==
  /\ point_count > 0 /\ ~start_flag /\ ~CanRestart /\ ~CanFirstStart
  /\ start_flag' = TRUE
  /\ timer_running' = ModeTimers(mode)
  /\ UNCHANGED <<cycle_complete, current_point, mode, move_flag, marks, ret, burner, jog, arm>>

StartIgnored ==
  /\ point_count = 0
  /\ UNCHANGED <<marks, session, motion, ret, burner, jog, arm>>

StartPause == Pause \/ Restart \/ FirstStart \/ Resume \/ StartIgnored

(* Mutant: only the default changes, not the marks already made.           *)
ChangeTimeDefaultOnly(d) ==
  /\ IF (d = 1 /\ point_duration < DURATION_MAX) \/ (d = -1 /\ point_duration > DURATION_MIN)
       THEN point_duration' = point_duration + d * DURATION_STEP
       ELSE UNCHANGED point_duration
  /\ UNCHANGED <<points, point_count, biji_flag, session, motion, ret, burner, jog, arm>>

(* RUN_TIME_ADD (d = 1) and RUN_TIME_MINUS (d = -1).                       *)
ChangeTime(d) ==
  /\ IF (d = 1 /\ point_duration < DURATION_MAX) \/ (d = -1 /\ point_duration > DURATION_MIN)
       THEN /\ point_duration' = point_duration + d * DURATION_STEP
            /\ points' = [i \in Slots |->
                 IF i < point_count
                   THEN [points[i] EXCEPT !.duration = @ + d * DURATION_STEP]
                   ELSE points[i]]
       ELSE UNCHANGED <<points, point_duration>>
  /\ UNCHANGED <<point_count, biji_flag, session, motion, ret, burner, jog, arm>>

(* Mutant: the pending return delay is not stopped.                        *)
ClearKeepsReturn ==
  /\ start_flag' = FALSE /\ biji_flag' = TRUE
  /\ timer_running' = {} /\ move_flag' = {}
  /\ point_count' = 0
  /\ points' = [i \in Slots |-> [timer |-> 0, duration |-> point_duration]]
  /\ flame' = FALSE /\ fan' = FALSE /\ light' = FALSE
  /\ UNCHANGED <<point_duration, cycle_complete, current_point, mode, ret, flame_flag, jog, arm>>

(* 0xE1.  current_point, cycle_complete, flame_flag, return_delay_flag,    *)
(* return_type and the mode keep their values.                             *)
Clear ==
  /\ start_flag' = FALSE /\ biji_flag' = TRUE
  /\ timer_running' = {} /\ move_flag' = {}
  /\ return_in_progress' = FALSE
  /\ point_count' = 0
  /\ points' = [i \in Slots |-> [timer |-> 0, duration |-> point_duration]]
  /\ flame' = FALSE /\ fan' = FALSE /\ light' = FALSE
  /\ UNCHANGED <<point_duration, cycle_complete, current_point, mode, return_delay_flag,
                 return_type, flame_flag, jog, arm>>

Handle(k) ==
  \/ k = "jogXY+" /\ Jog(1)
  \/ k = "jogXY-" /\ Jog(-1)
  \/ k = "jogZ+"  /\ JogZ(1)
  \/ k = "jogZ-"  /\ JogZ(-1)
  \/ k = "cebai"  /\ Cebai
  \/ k \in {"zero", "park"} /\ Park
  \/ k = "correct" /\ CorrectMotor
  \/ k = "mark"   /\ Mark
  \/ k = "start"  /\ StartPause
  \/ k = "time+"  /\ ChangeTime(1)
  \/ k = "time-"  /\ ChangeTime(-1)
  \/ k = "clear"  /\ Clear

NoKey == UNCHANGED <<marks, session, motion, ret, burner, jog, arm>>

-----------------------------------------------------------------------------
(* The phases of one iteration of the loop.                                *)

GoTo(from, to) == pc = from /\ pc' = to /\ UNCHANGED <<lag, accs>>

LcdKey(k) == GoTo("lcd", "ir") /\ k \in LcdKeys /\ Handle(k)
LcdNone   == GoTo("lcd", "ir") /\ NoKey
IrKey(k)  == GoTo("ir", "return") /\ k \in IrKeys /\ Handle(k)
IrNone    == GoTo("ir", "return") /\ NoKey

DelayOver == return_in_progress /\ return_delay_flag

(* Mutant: the end of a mode switch starts the session too.                *)
ReturnDoneAlwaysStarts ==
  /\ GoTo("return", "run") /\ DelayOver
  /\ return_delay_flag' = FALSE /\ return_in_progress' = FALSE /\ return_type' = 0
  /\ timer_running' = IF return_type = 0 THEN timer_running ELSE ModeTimers(mode)
  /\ start_flag' = (start_flag \/ return_type # 0)
  /\ points' = IF return_type = 5 /\ current_point \in Slots
                 THEN [points EXCEPT ![current_point].timer = 0] ELSE points
  /\ UNCHANGED <<point_count, point_duration, biji_flag, cycle_complete, current_point,
                 mode, move_flag, burner, jog, arm>>

(* The end of a return delay: types 3, 4 and 5 start the session, type 1   *)
(* only starts the timers of the new mode, whatever start_flag says.  Type *)
(* 5 zeroes the timer of the mark (a write outside points[] when           *)
(* current_point = MAX_POINTS lands in the IR decoder's bit buffer).       *)
ReturnDone ==
  /\ GoTo("return", "run") /\ DelayOver
  /\ return_delay_flag' = FALSE /\ return_in_progress' = FALSE /\ return_type' = 0
  /\ timer_running' = IF return_type = 0 THEN timer_running ELSE ModeTimers(mode)
  /\ start_flag' = (start_flag \/ return_type \in {3, 4, 5})
  /\ points' = IF return_type = 5 /\ current_point \in Slots
                 THEN [points EXCEPT ![current_point].timer = 0] ELSE points
  /\ UNCHANGED <<point_count, point_duration, biji_flag, cycle_complete, current_point,
                 mode, move_flag, burner, jog, arm>>

ReturnPending ==
  /\ GoTo("return", "run") /\ ~DelayOver
  /\ UNCHANGED <<marks, session, motion, ret, burner, jog, arm>>

Idle ==
  /\ GoTo("run", "manual") /\ ~Running
  /\ UNCHANGED <<marks, session, motion, ret, burner, jog, arm>>

(* Mutant: always the first mark's time.                                   *)
FirstExpired == points[0].timer >= points[0].duration

Expired == points[current_point].timer >= points[current_point].duration

(* current_point++ comes before start_flag is cleared: the interrupt can   *)
(* run in between.                                                         *)
PointExpired ==
  /\ GoTo("run", "expired") /\ Running /\ Expired
  /\ current_point' = current_point + 1
  /\ UNCHANGED <<start_flag, cycle_complete, marks, motion, ret, burner, jog, arm>>

(* Mutant: off by one.                                                     *)
BeyondLastPoint == current_point > point_count

AllPointsDone == current_point >= point_count

(* Mutant: the flame is left on at the end of the cycle.                   *)
CycleDoneFlameOn ==
  /\ GoTo("expired", "manual") /\ AllPointsDone
  /\ fan' = FALSE /\ light' = FALSE
  /\ cycle_complete' = TRUE /\ start_flag' = FALSE /\ timer_running' = {}
  /\ arm' = Parked
  /\ UNCHANGED <<current_point, mode, move_flag, flame, flame_flag, marks, ret, jog>>

CycleDone ==
  /\ GoTo("expired", "manual") /\ AllPointsDone
  /\ flame' = FALSE /\ fan' = FALSE /\ light' = FALSE
  /\ cycle_complete' = TRUE /\ start_flag' = FALSE /\ timer_running' = {}
  /\ arm' = Parked
  /\ UNCHANGED <<current_point, mode, move_flag, flame_flag, marks, ret, jog>>

(* Mutant: the session is stopped and no return delay takes over.          *)
NextPointNoDelay ==
  /\ GoTo("expired", "manual") /\ ~AllPointsDone
  /\ start_flag' = FALSE /\ timer_running' = {}
  /\ UNCHANGED <<cycle_complete, current_point, mode, move_flag, marks, ret, burner, jog, arm>>

(* Mutant: the arm goes to the mark whose time has just run out.           *)
NextPointOldMark ==
  /\ GoTo("expired", "manual") /\ ~AllPointsDone
  /\ start_flag' = FALSE /\ timer_running' = {}
  /\ StartReturnDelay(5, current_point - 1)
  /\ UNCHANGED <<cycle_complete, current_point, mode, move_flag, marks, burner, jog>>

NextPoint ==
  /\ GoTo("expired", "manual") /\ ~AllPointsDone
  /\ start_flag' = FALSE /\ timer_running' = {}
  /\ StartReturnDelay(5, current_point)
  /\ UNCHANGED <<cycle_complete, current_point, mode, move_flag, marks, burner, jog>>

(* run_hover: moves only when the height compensation is not zero, and     *)
(* does not look at return_in_progress.                                    *)
RunHover ==
  /\ GoTo("run", "manual") /\ Running /\ ~Expired /\ mode = "hover"
  /\ arm' \in {arm, current_point}
  /\ UNCHANGED <<marks, session, motion, ret, burner, jog>>

(* run_lr, run_circle, run_ud: one step per _move_flag, none in a return.  *)
RunMoving ==
  /\ GoTo("run", "manual") /\ Running /\ ~Expired /\ mode \in Moving
  /\ IF mode \in move_flag /\ ~return_in_progress
       THEN arm' = current_point /\ move_flag' = move_flag \ {mode}
       ELSE UNCHANGED <<arm, move_flag>>
  /\ UNCHANGED <<mode, timer_running, marks, session, ret, burner, jog>>

(* Manual control follows the jogged coordinate whenever no session runs.  *)
ManualControl ==
  /\ pc = "manual" /\ pc' = "lcd" /\ lag' = 0
  /\ IF coord # prev_coord /\ ~start_flag
       THEN first_imu_flag2' = TRUE /\ prev_coord' = coord /\ arm' = Manual
       ELSE UNCHANGED <<first_imu_flag2, prev_coord, arm>>
  /\ UNCHANGED <<coord, marks, session, motion, ret, burner, accs>>

Loop ==
  \/ \E k \in LcdKeys : LcdKey(k)
  \/ LcdNone
  \/ \E k \in IrKeys : IrKey(k)
  \/ IrNone
  \/ ReturnDone \/ ReturnPending
  \/ Idle \/ PointExpired \/ CycleDone \/ NextPoint \/ RunHover \/ RunMoving
  \/ ManualControl

-----------------------------------------------------------------------------
(* TIM3_IRQHandler, atomic to the loop.                                    *)

(* Mutant: the flame is timed only while the session runs.                 *)
TickFlameIfRunning ==
  IF flame_flag /\ start_flag /\ acc_flame + 1 >= FLAME_TIME
    THEN /\ flame_flag' = FALSE /\ acc_flame' = 0
         /\ flame' = FALSE /\ light' = TRUE /\ fan' = TRUE
    ELSE /\ acc_flame' = IF flame_flag /\ start_flag THEN acc_flame + 1 ELSE acc_flame
         /\ UNCHANGED burner

TickFlame ==
  IF flame_flag /\ acc_flame + 1 >= FLAME_TIME
    THEN /\ flame_flag' = FALSE /\ acc_flame' = 0
         /\ flame' = FALSE /\ light' = TRUE /\ fan' = TRUE
    ELSE /\ acc_flame' = IF flame_flag THEN acc_flame + 1 ELSE acc_flame
         /\ UNCHANGED burner

Due(m) == m \in timer_running /\ acc_move[m] + 1 >= INTERVAL[m]

TickMove ==
  /\ acc_move' = [m \in Moving |->
       IF m \in timer_running /\ ~Due(m) THEN acc_move[m] + 1 ELSE 0]
  /\ move_flag' = move_flag \cup {m \in Moving : Due(m)}

(* Mutant: off by one.                                                     *)
TickReturnLate ==
  IF return_in_progress
    THEN IF acc_return + 1 > RETURN_DELAY
           THEN acc_return' = 0 /\ return_delay_flag' = TRUE
           ELSE acc_return' = acc_return + 1 /\ UNCHANGED return_delay_flag
    ELSE acc_return' = 0 /\ UNCHANGED return_delay_flag

(* Mutant: the delay is counted only while the session runs.               *)
TickReturnIfRunning ==
  IF return_in_progress /\ start_flag
    THEN IF acc_return + 1 >= RETURN_DELAY
           THEN acc_return' = 0 /\ return_delay_flag' = TRUE
           ELSE acc_return' = acc_return + 1 /\ UNCHANGED return_delay_flag
    ELSE acc_return' = 0 /\ UNCHANGED return_delay_flag

TickReturn ==
  IF return_in_progress
    THEN IF acc_return + 1 >= RETURN_DELAY
           THEN acc_return' = 0 /\ return_delay_flag' = TRUE
           ELSE acc_return' = acc_return + 1 /\ UNCHANGED return_delay_flag
    ELSE acc_return' = 0 /\ UNCHANGED return_delay_flag

(* Mutant: a hovering arm's time is not counted.                           *)
TickPointMoving ==
  points' = IF Running /\ mode # "hover" /\ current_point \in Slots
              THEN [points EXCEPT ![current_point].timer =
                      IF @ < DURATION_MAX THEN @ + 1 ELSE @]
              ELSE points

(* point_timer saturates at DURATION_MAX, the largest value it is compared *)
(* with.  With current_point = MAX_POINTS the increment goes outside       *)
(* points[], into the IR decoder's bit buffer.                             *)
TickPoint ==
  points' = IF Running /\ current_point \in Slots
              THEN [points EXCEPT ![current_point].timer =
                      IF @ < DURATION_MAX THEN @ + 1 ELSE @]
              ELSE points

Tick ==
  /\ lag < MAX_LAG /\ lag' = lag + 1
  /\ TickFlame /\ TickMove /\ TickReturn /\ TickPoint
  /\ UNCHANGED <<pc, point_count, point_duration, biji_flag, session, mode, timer_running,
                 return_in_progress, return_type, jog, arm>>

Next == Loop \/ Tick

(* The loop never blocks and the timer keeps running; no key is ever owed. *)
Fairness == WF_vars(Loop) /\ WF_vars(Tick)

Spec == Init /\ [][Next]_vars /\ Fairness

-----------------------------------------------------------------------------
(* Safety.                                                                 *)

(* time+, time-, a new mark and 0xE1 all keep the per-mark durations equal *)
(* to the default shown to the operator.                                   *)
DurationsAgree ==
  \A i \in Slots : i < point_count => points[i].duration = point_duration

(* A session that runs, or will run when its return delay ends, has a mark *)
(* to run at: whatever the order of 0xE1, pause, start and the interrupt.  *)
SessionNeedsMarks == start_flag \/ return_in_progress => point_count > 0

(* Only the selected mode's step timer runs, through every switch, pause,  *)
(* return delay and expiry.                                                *)
TimersFollowMode == timer_running \subseteq {mode}

(* The flame burns only inside a session, and never untimed: flame_flag is *)
(* set with it, so the interrupt will put it out; 0xE1 and the end of the  *)
(* cycle leave no flame behind for the marking that follows.               *)
FlameInSession == flame => flame_flag /\ ~biji_flag /\ ~cycle_complete /\ point_count > 0

(* A finished cycle is not also running.                                   *)
CompleteIsStopped == cycle_complete => ~start_flag

(* The loop runs the session at a mark.                                    *)
RunsAtAMark == Running /\ pc # "expired" => current_point < point_count

(* The arm is never sent to a mark other than the one being timed, through *)
(* hand-overs, mode switches, pauses, restarts and clears: once the loop   *)
(* has left the expiry of a mark, no command to the old mark is in force.  *)
NeverAtAnotherMark == pc # "expired" => arm \notin Slots \ {current_point}

(* A cycle ends only when every mark has had its full time.                *)
FullTreatment ==
  [][~cycle_complete /\ cycle_complete' =>
       \A i \in Slots : i < point_count => points[i].timer >= points[i].duration]_vars

(* A session is underway while it runs or waits out a delay that starts it *)
(* or carries it on.                                                       *)
Underway == start_flag \/ (return_in_progress /\ return_type \in {3, 4, 5})

(* Left alone, a session ends only by completing its cycle: outside the    *)
(* key handlers nothing drops it, in particular not the hand-over between  *)
(* two marks, which clears start_flag before the return delay takes over.  *)
SessionNotLost ==
  [][Underway /\ ~Underway' /\ pc \notin {"lcd", "ir"} => cycle_complete']_vars

(* The session keeps the promise of TreatmentPlan: marks are served in     *)
(* order, none twice or never, and a cycle that completes is over.         *)
Treatment == INSTANCE TreatmentPlan
               WITH MAX_POINTS <- MAX_POINTS,
                    planned <- point_count, served <- current_point,
                    underway <- Underway, complete <- cycle_complete
KeepsThePlan == Treatment!PlanSpec

-----------------------------------------------------------------------------
(* Liveness.                                                               *)

(* The time at a mark runs out: whatever keys are pressed, the loop stops  *)
(* running at some point (next mark, end of cycle, pause or 0xE1).         *)
RunEnds == start_flag ~> ~start_flag

(* The flame always goes out.                                              *)
FlameGoesOut == flame ~> ~flame

(* If the operator leaves the keys alone from some time on, a session that *)
(* runs, or waits out a return delay, does not stay underway for ever: by  *)
(* SessionNotLost it then ends with the cycle complete.                    *)
Quiet == <>[][(pc \in {"lcd", "ir"}) => NoKey \/ Tick]_vars
SessionCompletes == Quiet => (Underway ~> ~Underway)

-----------------------------------------------------------------------------
(* What the comments say and the code does not do: README.md tells how     *)
(* each of these fails.                                                    *)

(* While marking is allowed no session has lit anything: 0xE1 turned       *)
(* flame, fan and light off and the next start has not come.               *)
MarkingIsDark == biji_flag => ~flame /\ ~fan /\ ~light

(* A pause holds: after it no pending return delay will start the session  *)
(* by itself.                                                              *)
PauseHolds == [][Pause /\ pc \in {"lcd", "ir"} => ~Underway']_vars

(* What TIM3_IRQHandler times, at whatever moment it comes, is a mark.     *)
TickTimesAMark == [][Tick /\ Running => current_point < point_count]_vars

(* In hover mode, once the return delay is over, the arm is at the mark.   *)
HoverStaysAtMark ==
  Running /\ mode = "hover" /\ ~return_in_progress /\ pc = "run" => arm = current_point

(* A return delay that starts has its whole length ahead, but for the      *)
(* ticks of one iteration left over from the delay before.                 *)
DelayStartsFull ==
  [][return_type' # 0 /\ return_type' # return_type => acc_return' <= MAX_LAG]_vars

(* A return delay that ends resets an existing mark.                       *)
ReturnResetsAMark ==
  [][ReturnDone /\ return_type \in {1, 5} => current_point < point_count]_vars
=============================================================================
