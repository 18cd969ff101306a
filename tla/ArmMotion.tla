----------------------------- MODULE ArmMotion -----------------------------
(***************************************************************************)
(* Where the arm is sent in a session of NEW/new.c: the poses of the       *)
(* marks, the steps of run_hover, run_lr, run_ud and run_circle, and the   *)
(* height compensation, which follows the ground under the arm.            *)
(*                                                                         *)
(* Only heights are numbers; a sideways position is one of a few places.   *)
(* J is what the joint variables J1_global .. J5_global stand for, goal    *)
(* what the motors were last told.  Only a new mark reads J; it is left at *)
(* Parked when no more marks can be made.  The session is that of          *)
(* RbControl without its clocks: a mark may expire, a step may be due, a   *)
(* return may end at any time.  Marks are not cleared.                     *)
(*                                                                         *)
(* While the arm travels, and until the filter of RangeFilter has followed *)
(* it, filtered_tof may return any distance; when all has settled it       *)
(* returns the height of the arm over the ground.                          *)
(***************************************************************************)
EXTENDS Integers, FiniteSetsExt

CONSTANTS
  MAX_POINTS,
  Z_MIN, Z_MAX, Z_STEP,       (* 10, 50 and 5 cm                           *)
  Z_START,                    (* 25 cm, the Z of rb_test08 before a jog    *)
  BASELINE_MIN, BASELINE_MAX, (* 10 and 50 cm: a baseline lies between     *)
  DEAD_BAND,                  (* 2 cm: less than it is not compensated     *)
  MAX_COMPENSATION,           (* 10 cm                                     *)
  UdOffsets,                  (* of the steps of an up and down stroke     *)
  HASTY,                      (* marks may be made while the arm travels   *)
  Grounds, GROUND_START,      (* heights of the ground, the one it begins  *)
  MAX_MOVES,                  (* with, and how often it moves              *)
  Passing                     (* distances measured while the arm travels  *)

ASSUME MotionAssumption ==
  /\ MAX_POINTS \in Nat \ {0}
  /\ Z_MIN \in Int /\ Z_MAX \in Int /\ Z_MIN < Z_MAX /\ Z_STEP \in Nat \ {0}
  /\ Z_START \in Z_MIN .. Z_MAX
  /\ BASELINE_MIN \in Nat /\ BASELINE_MAX \in Nat
  /\ DEAD_BAND \in Nat /\ MAX_COMPENSATION \in Nat
  /\ UdOffsets \subseteq Int
  /\ Grounds \subseteq Int /\ GROUND_START \in Grounds
  /\ MAX_MOVES \in Nat /\ HASTY \in BOOLEAN /\ Passing \subseteq Nat

Slots  == 0 .. MAX_POINTS - 1
Places == {"centre", "left", "right", "circle", "parked"}
Pose   == [z : Int, at : Places]
Parked == [z |-> Z_MIN, at |-> "parked"]

VARIABLES
  pc,                 (* phase of the main loop                            *)
  Z, prev_Z, first_imu_flag2, biji_flag,
  point_count, points,
  start_flag, cycle_complete, current_point,
  ticked,             (* points[0].point_timer # 0                         *)
  return_type,        (* 0 when no return is in progress                   *)
  mode,
  J, goal,
  settled,            (* the arm has arrived and the filter has followed   *)
  ground, moves,      (* the ground under the arm                          *)
  disturbed           (* history: since the arm was last sent to its mark, *)
                      (* something else than a pattern moved it, or ...    *)

manual  == <<Z, prev_Z, first_imu_flag2, biji_flag>>
marks   == <<point_count, points>>
session == <<start_flag, cycle_complete, current_point, ticked, return_type>>
target  == <<goal, settled>>
floor   == <<ground, moves>>
vars    == <<pc, manual, marks, session, mode, J, target, floor, disturbed>>

(* What filtered_tof may return.                                           *)
Distances == IF settled THEN {goal.z - ground} ELSE Passing

Point == [z : Int, baseline : Int, pose : Pose, position : 0 .. 2,
          ground : Grounds, rested : BOOLEAN]

MotionTypeOK ==
  /\ pc \in {"lcd", "ir", "run", "manual"}
  /\ Z \in Z_MIN .. Z_MAX /\ prev_Z \in Z_MIN .. Z_MAX
  /\ point_count \in 0 .. MAX_POINTS
  /\ \A i \in 0 .. point_count - 1 : points[i] \in Point
  /\ current_point \in 0 .. point_count
  /\ return_type \in {0, 1, 3, 4, 5}
  /\ mode \in {"hover", "lr", "ud", "circle"}
  /\ J \in Pose /\ goal \in Pose

Unmarked == [z |-> Z_MIN, baseline |-> 0, pose |-> Parked, position |-> 0,
             ground |-> CHOOSE g \in Grounds : TRUE, rested |-> FALSE]

Init ==
  /\ pc = "lcd"
  /\ Z = Z_START /\ prev_Z = Z
  /\ first_imu_flag2 = FALSE /\ biji_flag = TRUE
  /\ point_count = 0 /\ points = [i \in Slots |-> Unmarked]
  /\ start_flag = FALSE /\ cycle_complete = FALSE /\ current_point = 0
  /\ ticked = FALSE /\ return_type = 0
  /\ mode = "hover"
  /\ J = Parked /\ goal = Parked /\ settled = TRUE
  /\ ground = GROUND_START /\ moves = 0
  /\ disturbed = TRUE

-----------------------------------------------------------------------------
(* Helpers shared by the handlers and the patterns.                        *)

(* Mutant: only the upper limit.                                          *)
ClampAbove(z) == Min({z, Z_MAX})

Clamp(z)   == Min({Max({z, Z_MIN}), Z_MAX})
InRange(z) == Z_MIN < z /\ z < Z_MAX
Abs(n)     == IF n < 0 THEN -n ELSE n
Running    == start_flag /\ ~cycle_complete /\ point_count > 0
here       == points[current_point]
Centre(z)  == [z |-> z, at |-> "centre"]

(* robot_arm_5dof_method2 and the motor commands behind it.                *)
Goto(p) == goal' = p /\ settled' = (settled /\ p.z = goal.z)
Joints(p) == J' = IF biji_flag THEN p ELSE Parked
Send(p) == Joints(p) /\ Goto(p)

(* start_return_delay: the arm is sent to the saved pose of the mark, if   *)
(* there is one.                                                           *)
StartReturn(type, idx) ==
  /\ return_type' = type
  /\ IF idx < point_count THEN Goto(points[idx].pose) /\ J' = Parked
                          ELSE UNCHANGED <<J, target>>

-----------------------------------------------------------------------------
(* Keys of the panel and of the remote.                                    *)

(* 0xf1 and 0xf2.  In a running session they move the mark and its         *)
(* baseline; the motors are not told.                                      *)
(* Mutant: the baseline is changed whether the mark is or not.             *)
EditMarkBaseline(d) ==
  /\ Running
  /\ IF (d > 0 /\ here.z + d < Z_MAX) \/ (d < 0 /\ here.z + d > Z_MIN)
       THEN /\ points' = [points EXCEPT ![current_point] =
                 [here EXCEPT !.z = @ + d, !.baseline = @ + d, !.pose = Centre(here.z + d)]]
            /\ Joints(Centre(here.z + d))
            /\ disturbed' = TRUE
       ELSE points' = [points EXCEPT ![current_point].baseline = @ + d] /\ UNCHANGED <<J, disturbed>>
  /\ UNCHANGED <<manual, point_count, session, mode, target>>

EditMark(d) ==
  /\ Running
  /\ IF (d > 0 /\ here.z + d < Z_MAX) \/ (d < 0 /\ here.z + d > Z_MIN)
       THEN /\ points' = [points EXCEPT ![current_point] =
                 [here EXCEPT !.z = @ + d, !.baseline = @ + d, !.pose = Centre(here.z + d)]]
            /\ Joints(Centre(here.z + d))
            /\ disturbed' = TRUE
       ELSE UNCHANGED <<points, J, disturbed>>
  /\ UNCHANGED <<manual, point_count, session, mode, target>>

JogZ(d) ==
  /\ ~Running
  /\ Z' = Clamp(Z + d)
  /\ UNCHANGED <<prev_Z, first_imu_flag2, biji_flag, marks, session, mode, J, target,
                 disturbed>>

(* RUN_ZERO and RUN_START.                                                 *)
Park ==
  /\ Send(Parked) /\ disturbed' = TRUE
  /\ UNCHANGED <<manual, marks, session, mode>>

(* 0xFB, first branch.  The pose is that of the joint variables, which     *)
(* were computed for the coordinates when the arm was last jogged.         *)
RestedAtZ == J = Centre(Z) /\ goal = J /\ settled

AddMark ==
  /\ HASTY \/ RestedAtZ
  /\ ~start_flag /\ point_count < MAX_POINTS /\ first_imu_flag2 /\ biji_flag
  /\ IF InRange(Z)
       THEN /\ \E jiuli \in Distances :
                 points' = [points EXCEPT ![point_count] =
                   [z |-> Z, baseline |-> jiuli, pose |-> J, position |-> 0, ground |-> ground,
                    rested |-> RestedAtZ]]
            /\ point_count' = point_count + 1
            /\ ticked' = (ticked /\ point_count # 0)
            /\ J' = Centre(Z)
       ELSE UNCHANGED <<marks, ticked, J>>
  /\ UNCHANGED <<manual, start_flag, cycle_complete, current_point, return_type,
                 mode, target, disturbed>>

NextMode == CASE mode = "hover" -> "lr" [] mode = "lr" -> "ud"
              [] mode = "ud" -> "circle" [] mode = "circle" -> "hover"

(* 0xFB, second branch: switch_mode.                                       *)
SwitchMode ==
  /\ point_count # 0 /\ first_imu_flag2 /\ ~biji_flag
  /\ mode' = NextMode
  /\ IF start_flag
       THEN /\ StartReturn(1, current_point)
            /\ disturbed' = IF current_point < point_count THEN NextMode = "hover" ELSE disturbed
       ELSE UNCHANGED <<return_type, J, target>> /\ disturbed' = (disturbed \/ return_type = 0)
  /\ UNCHANGED <<manual, marks, start_flag, cycle_complete, current_point, ticked>>

(* 0xfc.                                                                   *)
Pause ==
  /\ start_flag /\ start_flag' = FALSE
  /\ UNCHANGED <<manual, marks, cycle_complete, current_point, ticked, return_type,
                 mode, J, target, disturbed>>

AtRest == point_count > 0 /\ ~start_flag

Restart ==
  /\ AtRest /\ cycle_complete /\ first_imu_flag2
  /\ biji_flag' = FALSE /\ current_point' = 0 /\ cycle_complete' = FALSE /\ ticked' = FALSE
  /\ points' = [i \in Slots |-> [points[i] EXCEPT !.position = 0]]
  /\ StartReturn(3, 0) /\ disturbed' = FALSE
  /\ UNCHANGED <<Z, prev_Z, first_imu_flag2, point_count, start_flag, mode>>

CanFirstStart == current_point = 0 /\ ~ticked

FirstStart ==
  /\ AtRest /\ ~(cycle_complete /\ first_imu_flag2) /\ CanFirstStart
  /\ biji_flag' = FALSE
  /\ StartReturn(4, 0) /\ disturbed' = FALSE
  /\ UNCHANGED <<Z, prev_Z, first_imu_flag2, marks, start_flag, cycle_complete,
                 current_point, ticked, mode>>

Resume ==
  /\ AtRest /\ ~(cycle_complete /\ first_imu_flag2) /\ ~CanFirstStart
  /\ start_flag' = TRUE
  /\ disturbed' = (disturbed \/ return_type # 0)
  /\ UNCHANGED <<manual, marks, cycle_complete, current_point, ticked, return_type,
                 mode, J, target>>

NoKey ==
  /\ pc \in {"lcd", "ir"} /\ pc' = "run"
  /\ UNCHANGED <<manual, marks, session, mode, J, target, floor, disturbed>>

(* A key of the panel, then one of the remote.  What the remote does when  *)
(* the panel has no key, the panel's key does when the remote has none.    *)
Key ==
  /\ \/ pc = "lcd" /\ pc' = "ir"
     \/ pc = "ir" /\ pc' = "run"
  /\ \/ \E d \in {Z_STEP, -Z_STEP} : EditMark(d) \/ JogZ(d)
     \/ pc = "lcd" /\ Park
     \/ AddMark \/ SwitchMode \/ Pause \/ Restart \/ FirstStart \/ Resume
  /\ UNCHANGED floor

-----------------------------------------------------------------------------
(* The end of a return.  Its delay is long enough for the arm and for the  *)
(* filter, unless something else was commanded since it began.  It comes   *)
(* before the run logic, if at all.                                        *)
ReturnDone ==
  /\ pc = "run" /\ pc' = "run"
  /\ return_type # 0 /\ return_type' = 0
  /\ disturbed \/ settled
  /\ start_flag' = (start_flag \/ return_type \in {3, 4, 5})
  /\ IF return_type \in {1, 5}
       THEN /\ points' = IF current_point \in Slots
                           THEN [points EXCEPT ![current_point].position = 0] ELSE points
       ELSE UNCHANGED points
  /\ UNCHANGED <<manual, point_count, cycle_complete, current_point, ticked, mode,
                 J, target, floor, disturbed>>

-----------------------------------------------------------------------------
(* calculate_z_compensation.                                               *)

Usable(jiuli, baseline) ==
  /\ BASELINE_MIN < baseline /\ baseline < BASELINE_MAX
  /\ 0 < jiuli /\ jiuli < BASELINE_MAX

Limited(c) == Max({Min({c, MAX_COMPENSATION}), -MAX_COMPENSATION})

(* It is zero, too, while the distance is within 1 cm of what it was at    *)
(* the last compensation: a static variable that all marks share, and that *)
(* may suppress any compensation here.                                     *)
calculate_z_compensation(jiuli, baseline) ==
  {0} \cup IF Usable(jiuli, baseline) /\ Abs(jiuli - baseline) > DEAD_BAND
             THEN {Limited(baseline - jiuli)} ELSE {}

Compensations(baseline) == UNION {calculate_z_compensation(j, baseline) : j \in Distances}

-----------------------------------------------------------------------------
(* The run logic: the time of a mark is over, or the mode makes a step.    *)

run_hover ==
  /\ mode = "hover"
  /\ \E c \in Compensations(here.baseline) :
       IF c # 0 THEN Send(Centre(Clamp(here.z + c))) ELSE UNCHANGED <<J, target>>
  /\ UNCHANGED points

NextPosition == IF here.position = 1 THEN 2 ELSE 1
Side(p) == CASE p = 0 -> "centre" [] p = 1 -> "right" [] p = 2 -> "left"

(* Mutant: a stroke goes on while a return is in progress.                 *)
run_lr_returning ==
  /\ mode = "lr"
  /\ points' = [points EXCEPT ![current_point].position = NextPosition]
  /\ \E c \in Compensations(here.baseline) :
       Send([z |-> Clamp(here.z + c), at |-> Side(NextPosition)])

(* A step of a pattern is not made while a return is in progress.          *)
run_lr ==
  /\ mode = "lr" /\ return_type = 0
  /\ points' = [points EXCEPT ![current_point].position = NextPosition]
  /\ \E c \in Compensations(here.baseline) :
       Send([z |-> Clamp(here.z + c), at |-> Side(NextPosition)])

run_circle ==
  /\ mode = "circle" /\ return_type = 0
  /\ \E c \in Compensations(here.baseline) : Send([z |-> Clamp(here.z + c), at |-> "circle"])
  /\ UNCHANGED points

(* Mutant: the stroke is not limited.                                      *)
run_ud_unclamped ==
  /\ mode = "ud" /\ return_type = 0
  /\ \E c \in Compensations(here.baseline), offset \in UdOffsets :
       Send(Centre(here.z + offset + c))
  /\ UNCHANGED points

run_ud ==
  /\ mode = "ud" /\ return_type = 0
  /\ \E c \in Compensations(here.baseline), offset \in UdOffsets :
       Send(Centre(Clamp(here.z + offset + c)))
  /\ UNCHANGED points

(* The run logic is over: the arm is jogged if it is due.                  *)
JogDue  == Z # prev_Z /\ ~start_flag
RunOver == pc' = IF JogDue' THEN "manual" ELSE "lcd"

RunStep ==
  /\ Running /\ pc = "run"
  /\ run_hover \/ run_lr \/ run_circle \/ run_ud
  /\ ticked' \in {ticked, TRUE} /\ (mode # "hover" => ticked')
  /\ UNCHANGED <<manual, point_count, start_flag, cycle_complete, current_point, return_type,
                 mode, floor, disturbed>>
  /\ RunOver

(* No step is due, or no session runs.                                     *)
RunNothing ==
  /\ pc = "run"
  /\ ~Running \/ mode # "hover"
  /\ ticked' \in {ticked, ticked \/ Running}
  /\ UNCHANGED <<manual, marks, start_flag, cycle_complete, current_point, return_type,
                 mode, J, target, floor, disturbed>>
  /\ RunOver

NextPoint ==
  /\ Running /\ ticked /\ pc = "run"
  /\ current_point + 1 < point_count
  /\ current_point' = current_point + 1 /\ start_flag' = FALSE
  /\ StartReturn(5, current_point + 1) /\ disturbed' = FALSE
  /\ UNCHANGED <<manual, marks, cycle_complete, ticked, mode, floor>>
  /\ RunOver

CycleDone ==
  /\ Running /\ ticked /\ pc = "run"
  /\ current_point + 1 >= point_count
  /\ current_point' = current_point + 1 /\ start_flag' = FALSE /\ cycle_complete' = TRUE
  /\ Send(Parked) /\ disturbed' = TRUE
  /\ UNCHANGED <<manual, marks, ticked, return_type, mode, floor>>
  /\ RunOver

ManualControl ==
  /\ pc = "manual" /\ pc' = "lcd"
  /\ prev_Z' = Z /\ first_imu_flag2' = TRUE
  /\ Send(Centre(Z)) /\ disturbed' = TRUE
  /\ UNCHANGED <<Z, biji_flag, marks, session, mode, floor>>

-----------------------------------------------------------------------------
(* The arm, the filter and the ground.                                     *)

Settle ==
  /\ ~settled /\ settled' = TRUE
  /\ UNCHANGED <<pc, manual, marks, session, mode, J, goal, floor, disturbed>>

GroundMoves ==
  /\ moves < MAX_MOVES /\ moves' = moves + 1
  /\ \E g \in Grounds \ {ground} : ground' = g
  /\ settled' = FALSE /\ disturbed' = TRUE
  /\ UNCHANGED <<pc, manual, marks, session, mode, J, goal>>

Loop == \/ Key \/ NoKey \/ ReturnDone
        \/ RunStep \/ RunNothing \/ NextPoint \/ CycleDone \/ ManualControl

(* Both take long against an iteration of the loop.                        *)
World == pc = "lcd" /\ (Settle \/ GroundMoves)

Next == Loop \/ World

ASpec == Init /\ [][Next]_vars

-----------------------------------------------------------------------------
(* Over ground that has not moved, a hovering arm stays at the height and  *)
(* the place of its mark, and a left and right stroke is where the mark's  *)
(* position says, at the mark's height.  The mark must have been made with *)
(* the arm at rest where the coordinates say; and since the arm was sent   *)
(* to it no key may have moved the arm or the mark, nor may run_hover have *)
(* run before the arm was there, as it does after a switch to hovering.    *)
StillGround ==
  (/\ Running /\ return_type = 0 /\ ~disturbed
   /\ here.rested /\ here.ground = ground /\ mode \in {"hover", "lr"})
  => goal = [z |-> here.z, at |-> IF mode = "hover" THEN "centre" ELSE Side(here.position)]

(* However often the height of a mark is changed, its baseline and its     *)
(* pose change with it: it keeps the ground it was made over.              *)
MarkKeepsItsGround ==
  \A i \in 0 .. point_count - 1 :
    points[i].rested => /\ points[i].z - points[i].baseline = points[i].ground
                        /\ points[i].pose = Centre(points[i].z)

(* Whatever commands the arm, jogs, marks, strokes, compensation or any of *)
(* them together, its height stays within the limits, and a mark strictly. *)
WithinLimits ==
  /\ goal.z \in Z_MIN .. Z_MAX
  /\ \A i \in 0 .. point_count - 1 : InRange(points[i].z)
=============================================================================
