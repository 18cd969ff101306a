--------------------------- MODULE ArmMotionProofs ---------------------------
(***************************************************************************)
(* Proofs about ArmMotion for any number of marks, any heights, grounds    *)
(* and strokes, and whatever the sensor measures while the arm travels.    *)
(*                                                                         *)
(* MInv is inductive.  Its heart is what holds while nothing has disturbed *)
(* the arm since it was sent to its mark: OnTheWay, as long as the return  *)
(* is in progress, and AtTheMark from its end on.                          *)
(***************************************************************************)
EXTENDS ArmMotion, TLAPS

(* The types; pc occurs in nothing else of the invariant.                  *)
PhaseOK == pc \in {"lcd", "ir", "run", "manual"}

Numbers ==
  /\ Z \in Z_MIN .. Z_MAX /\ prev_Z \in Z_MIN .. Z_MAX
  /\ point_count \in 0 .. MAX_POINTS /\ current_point \in 0 .. point_count
  /\ return_type \in {0, 1, 3, 4, 5}
  /\ mode \in {"hover", "lr", "ud", "circle"}
  /\ J \in Pose /\ goal \in Pose /\ ground \in Grounds
  /\ points \in [Slots -> Point]

Flags ==
  /\ settled \in BOOLEAN /\ disturbed \in BOOLEAN /\ ticked \in BOOLEAN
  /\ start_flag \in BOOLEAN /\ cycle_complete \in BOOLEAN
  /\ biji_flag \in BOOLEAN /\ first_imu_flag2 \in BOOLEAN

Height(z) == z \in Z_MIN .. Z_MAX

(* Commands, joint variables and saved poses stay within the limits.       *)
Heights ==
  /\ Height(goal.z) /\ Height(J.z)
  /\ \A i \in Slots : Height(points[i].pose.z)
  /\ \A i \in 0 .. point_count - 1 : InRange(points[i].z)

(* Until the first start no session has left a trace.                      *)
Preparing ==
  biji_flag => /\ ~start_flag /\ ~cycle_complete /\ ~ticked /\ disturbed
               /\ current_point = 0 /\ return_type = 0

(* The index passes the last mark only when the cycle is complete.         *)
EndIsComplete ==
  /\ current_point = point_count => cycle_complete \/ biji_flag
  /\ ~disturbed => current_point < point_count

(* Until a mark has been given time, no stroke has begun.                  *)
Untimed == ~ticked => \A i \in Slots : points[i].position = 0

(* The arm was sent to the pose of the mark; no step of a pattern has been *)
(* made, and none will be before the return ends.                          *)
OnTheWay ==
  return_type # 0 /\ ~disturbed =>
    /\ goal = here.pose
    /\ start_flag => mode # "hover"
    /\ return_type \in {3, 4} => here.position = 0

AtPlace == [z |-> here.z, at |-> IF mode = "hover" THEN "centre" ELSE Side(here.position)]

(* The return is over: arm and filter are at rest over the mark.           *)
AtTheMark ==
  (/\ return_type = 0 /\ ~disturbed
   /\ here.rested /\ here.ground = ground /\ mode \in {"hover", "lr"})
  => settled /\ goal = AtPlace

MInv == /\ Numbers /\ Flags /\ Heights /\ Preparing /\ EndIsComplete /\ Untimed
        /\ MarkKeepsItsGround /\ OnTheWay /\ AtTheMark

-----------------------------------------------------------------------------
(* The helpers.                                                            *)

LEMMA Constants ==
  /\ MAX_POINTS \in Nat /\ MAX_POINTS > 0
  /\ Z_MIN \in Int /\ Z_MAX \in Int /\ Z_MIN < Z_MAX /\ Z_STEP \in Int /\ Z_STEP > 0
  /\ DEAD_BAND \in Int /\ DEAD_BAND >= 0 /\ MAX_COMPENSATION \in Nat
  /\ UdOffsets \subseteq Int /\ Grounds \subseteq Int /\ Passing \subseteq Int
  /\ GROUND_START \in Grounds
  BY MotionAssumption

LEMMA MinOfTwo == ASSUME NEW a \in Int, NEW b \in Int PROVE Min({a, b}) = IF a <= b THEN a ELSE b
<1>1. CASE a <= b
  BY <1>1 DEF Min
<1>2. CASE b < a
  BY <1>2 DEF Min
<1> QED
  BY <1>1, <1>2

LEMMA MaxOfTwo == ASSUME NEW a \in Int, NEW b \in Int PROVE Max({a, b}) = IF a >= b THEN a ELSE b
<1>1. CASE a >= b
  BY <1>1 DEF Max
<1>2. CASE b > a
  BY <1>2 DEF Max
<1> QED
  BY <1>1, <1>2

(* clamp_coordinates returns a height within the limits and leaves one     *)
(* alone.                                                                  *)
LEMMA ClampLimits ==
  ASSUME NEW z \in Int
  PROVE  Height(Clamp(z)) /\ (Height(z) => Clamp(z) = z)
<1> DEFINE m == Max({z, Z_MIN})
<1>1. m = IF z >= Z_MIN THEN z ELSE Z_MIN
  BY Constants, MaxOfTwo
<1>2. m \in Int
  BY <1>1, Constants
<1>3. Min({m, Z_MAX}) = IF m <= Z_MAX THEN m ELSE Z_MAX
  BY <1>2, Constants, MinOfTwo
<1>4. Clamp(z) = IF m <= Z_MAX THEN m ELSE Z_MAX
  BY <1>3 DEF Clamp
<1> QED
  BY <1>1, <1>4, Constants DEF Height

LEMMA LimitedIsNumber == ASSUME NEW c \in Int PROVE Limited(c) \in Int
<1> DEFINE m == Min({c, MAX_COMPENSATION})
<1>1. m \in Int
  BY Constants, MinOfTwo
<1>2. Max({m, -MAX_COMPENSATION}) \in Int
  BY <1>1, Constants, MaxOfTwo
<1> QED
  BY <1>2 DEF Limited

(* Whatever the sensor says, a compensation is a number of centimetres.    *)
LEMMA CompensationIsNumber ==
  ASSUME Numbers, NEW b \in Int, NEW c \in Compensations(b)
  PROVE  c \in Int
<1>1. PICK j \in Distances : c \in calculate_z_compensation(j, b)
  BY DEF Compensations
<1>2. j \in Int
  BY <1>1, Constants DEF Distances, Numbers, Pose
<1>3. CASE c = 0
  BY <1>3
<1>4. CASE c = Limited(b - j)
  BY <1>2, <1>4, LimitedIsNumber
<1> QED
  BY <1>1, <1>3, <1>4 DEF calculate_z_compensation

(* At rest over ground that has not moved there is nothing to compensate.  *)
LEMMA NoCompensation ==
  ASSUME Numbers, NEW b \in Int, settled, goal.z - ground = b, NEW c \in Compensations(b)
  PROVE  c = 0
<1>1. PICK j \in Distances : c \in calculate_z_compensation(j, b)
  BY DEF Compensations
<1>2. j = b
  BY <1>1 DEF Distances
<1>3. Abs(j - b) = 0
  BY <1>2 DEF Abs
<1> QED
  BY <1>1, <1>3, Constants DEF calculate_z_compensation

LEMMA InitMInv == Init => MInv
<1> SUFFICES ASSUME Init PROVE MInv
  OBVIOUS
<1>1. Parked \in Pose /\ Parked.z = Z_MIN
  BY Constants DEF Parked, Pose, Places
<1>2. Unmarked \in Point /\ Unmarked.pose = Parked /\ Unmarked.position = 0
  <2>1. (CHOOSE g \in Grounds : TRUE) \in Grounds
    BY Constants
  <2> QED
    BY <1>1, <2>1, Constants DEF Unmarked, Point
<1>3. points \in [Slots -> Point] /\ \A i \in Slots : points[i] = Unmarked
  BY <1>2 DEF Init
<1>4. Numbers
  BY <1>1, <1>3, MotionAssumption DEF Init, Numbers
<1>5. Flags
  BY DEF Init, Flags
<1>6. Heights
  BY <1>1, <1>2, <1>3, Constants DEF Init, Heights, Height, InRange
<1> QED
  BY <1>2, <1>3, <1>4, <1>5, <1>6 DEF Init, MInv, Preparing, EndIsComplete, Untimed, OnTheWay, AtTheMark,
                                MarkKeepsItsGround
-----------------------------------------------------------------------------
(* The keys.                                                               *)

(* In a running session the mark of the index is one of the marks.         *)
LEMMA RunningMark ==
  ASSUME MInv, Running
  PROVE  /\ current_point \in Slots /\ current_point < point_count /\ ~biji_flag
         /\ here \in Point /\ InRange(here.z)
<1>1. ~biji_flag /\ current_point # point_count
  BY DEF MInv, Running, Preparing, EndIsComplete
<1>2. current_point \in Slots /\ current_point < point_count
  BY <1>1, Constants DEF MInv, Numbers, Slots
<1> QED
  BY <1>1, <1>2 DEF MInv, Numbers, Heights, here

LEMMA CentrePose == ASSUME NEW z \in Int PROVE Centre(z) \in Pose /\ Centre(z).z = z
  BY DEF Centre, Pose, Places

LEMMA ParkedPose == Parked \in Pose /\ Height(Parked.z)
  BY Constants DEF Parked, Pose, Places, Height

LEMMA PointFields ==
  ASSUME NEW p \in Point
  PROVE  /\ p.z \in Int /\ p.baseline \in Int /\ p.ground \in Int /\ p.ground \in Grounds
         /\ p.pose \in Pose /\ p.position \in 0 .. 2 /\ p.rested \in BOOLEAN
  BY Constants DEF Point

LEMMA EditedPoint ==
  ASSUME NEW p \in Point, NEW d \in Int
  PROVE  LET q == [p EXCEPT !.z = @ + d, !.baseline = @ + d, !.pose = Centre(p.z + d)]
         IN  /\ q \in Point /\ q.z = p.z + d /\ q.pose = Centre(p.z + d)
             /\ q.baseline = p.baseline + d /\ q.position = p.position
             /\ q.ground = p.ground /\ q.rested = p.rested
<1>1. p.z + d \in Int /\ p.baseline + d \in Int
  BY PointFields
<1>2. Centre(p.z + d) \in Pose
  BY <1>1, CentrePose
<1> QED
  BY <1>1, <1>2 DEF Point

LEMMA WithPosition ==
  ASSUME NEW p \in Point, NEW n \in 0 .. 2
  PROVE  LET q == [p EXCEPT !.position = n]
         IN  /\ q \in Point /\ q.z = p.z /\ q.pose = p.pose /\ q.baseline = p.baseline
             /\ q.ground = p.ground /\ q.rested = p.rested /\ q.position = n
  BY DEF Point

LEMMA DistanceIsNumber == ASSUME MInv, NEW j \in Distances PROVE j \in Int
  BY Constants DEF Distances, MInv, Numbers, Pose

LEMMA Repositioned ==
  ASSUME Numbers, current_point \in Slots, NEW n \in 0 .. 2,
         points' = [points EXCEPT ![current_point].position = n]
  PROVE  /\ points' \in [Slots -> Point]
         /\ points'[current_point].position = n
         /\ \A i \in Slots :
              /\ points'[i].z = points[i].z /\ points'[i].pose = points[i].pose
              /\ points'[i].baseline = points[i].baseline
              /\ points'[i].ground = points[i].ground /\ points'[i].rested = points[i].rested
<1>1. points[current_point] \in Point
  BY DEF Numbers
<1>2. PICK q \in Point :
        /\ q = [points[current_point] EXCEPT !.position = n]
        /\ q.z = points[current_point].z /\ q.pose = points[current_point].pose
        /\ q.baseline = points[current_point].baseline /\ q.ground = points[current_point].ground
        /\ q.rested = points[current_point].rested /\ q.position = n
  BY <1>1, WithPosition, Zenon
<1>3. points' = [points EXCEPT ![current_point] = q]
  BY <1>2
<1> QED
  BY <1>2, <1>3 DEF Numbers

(* A command that stays within the limits.                                 *)
LEMMA SendWithinLimits ==
  ASSUME Flags, NEW p \in Pose, Height(p.z), Send(p)
  PROVE  /\ J' \in Pose /\ Height(J'.z) /\ goal' = p
         /\ settled' \in BOOLEAN /\ (settled /\ p.z = goal.z => settled')
<1>1. goal' = p /\ settled' = (settled /\ p.z = goal.z) /\ J' \in {p, Parked}
  BY DEF Send, Joints, Goto
<1> QED
  BY <1>1, ParkedPose

USE DEF MInv, Numbers, Flags, Heights, Preparing, EndIsComplete, Untimed, MarkKeepsItsGround,
        OnTheWay, AtTheMark, AtPlace, here, manual, marks, session, target, floor

(* Handlers that leave the marks and the arm alone.                        *)
LEMMA JogKeeps == ASSUME MInv, NEW d \in {Z_STEP, -Z_STEP}, JogZ(d), UNCHANGED floor PROVE MInv'
<1>1. Z + d \in Int
  BY Constants DEF MInv, Numbers
<1>2. Z' \in Z_MIN .. Z_MAX
  BY <1>1, ClampLimits DEF JogZ, Height
<1> QED
  BY <1>2 DEF JogZ

LEMMA PauseKeeps == ASSUME MInv, Pause, UNCHANGED floor PROVE MInv'
  BY DEF Pause

LEMMA ResumeKeeps == ASSUME MInv, Resume, UNCHANGED floor PROVE MInv'
  BY DEF Resume, AtRest, CanFirstStart

LEMMA ParkKeeps == ASSUME MInv, Park, UNCHANGED floor PROVE MInv'
  BY ParkedPose DEF Park, Send, Joints, Goto

LEMMA EditKeeps ==
  ASSUME MInv, NEW d \in {Z_STEP, -Z_STEP}, EditMark(d), UNCHANGED floor
  PROVE  MInv'
<1> DEFINE moved == (d > 0 /\ here.z + d < Z_MAX) \/ (d < 0 /\ here.z + d > Z_MIN)
<1> DEFINE q == [here EXCEPT !.z = @ + d, !.baseline = @ + d, !.pose = Centre(here.z + d)]
<1>1. current_point \in Slots /\ current_point < point_count /\ ~biji_flag
  BY RunningMark DEF EditMark
<1>2. here \in Point /\ InRange(here.z) /\ d \in Int
  BY RunningMark, Constants DEF EditMark
<1>3. CASE ~moved
  BY <1>3 DEF EditMark
<1>4. CASE moved
  <2>1. here.z \in Int /\ here.baseline \in Int /\ here.ground \in Int /\ here.z + d \in Int
    BY <1>2, PointFields
  <2>2. InRange(here.z + d)
    BY <1>2, <1>4, <2>1, Constants DEF InRange
  <2>3. Centre(here.z + d) \in Pose /\ Centre(here.z + d).z = here.z + d
    BY <2>1, CentrePose
  <2>4. /\ q \in Point /\ q.z = here.z + d /\ q.pose = Centre(here.z + d)
        /\ q.baseline = here.baseline + d /\ q.position = here.position
        /\ q.ground = here.ground /\ q.rested = here.rested
    BY <1>2, EditedPoint
  <2>5. points' = [points EXCEPT ![current_point] = q] /\ disturbed'
    BY <1>4 DEF EditMark
  <2>6. points' \in [Slots -> Point]
    BY <1>1, <2>4, <2>5
  <2>7. Height(here.z + d)
    BY <2>1, <2>2, Constants DEF Height, InRange
  <2>8. J' \in Pose /\ Height(J'.z)
    BY <2>3, <2>7, ParkedPose DEF EditMark, Joints
  <2>9. UNCHANGED <<manual, point_count, session, mode, target, floor>>
    BY DEF EditMark
  <2>10. Numbers' /\ Flags'
    BY <2>5, <2>6, <2>8, <2>9
  <2>11. Heights'
    BY <1>1, <2>2, <2>3, <2>4, <2>5, <2>7, <2>8, <2>9
  <2>12. MarkKeepsItsGround'
    <3>1. q.rested => q.z - q.baseline = q.ground /\ q.pose = Centre(q.z)
      BY <1>1, <2>1, <2>4, Constants
    <3> QED
      BY <1>1, <2>5, <2>9, <3>1
  <2>13. Untimed'
    BY <1>1, <2>4, <2>5, <2>9
  <2> QED
    BY <2>5, <2>9, <2>10, <2>11, <2>12, <2>13
<1> QED
  BY <1>3, <1>4

LEMMA AddMarkKeeps == ASSUME MInv, AddMark, UNCHANGED floor PROVE MInv'
<1>1. CASE ~InRange(Z)
  BY <1>1 DEF AddMark
<1>2. CASE InRange(Z)
  <2>1. PICK jiuli \in Distances :
          points' = [points EXCEPT ![point_count] =
                       [z |-> Z, baseline |-> jiuli, pose |-> J, position |-> 0, ground |-> ground,
                        rested |-> RestedAtZ]]
    BY <1>2 DEF AddMark
  <2> DEFINE q == [z |-> Z, baseline |-> jiuli, pose |-> J, position |-> 0, ground |-> ground,
                   rested |-> RestedAtZ]
  <2>2. jiuli \in Int /\ Z \in Int
    BY DistanceIsNumber
  <2>3. q \in Point
    BY <2>2 DEF Point, RestedAtZ
  <2>4. /\ point_count \in Slots /\ point_count' = point_count + 1 /\ biji_flag
        /\ J' = Centre(Z) /\ ~ticked'
    BY <1>2, Constants DEF AddMark, Slots
  <2>5. /\ UNCHANGED <<manual, start_flag, cycle_complete, current_point, return_type>>
        /\ UNCHANGED <<mode, target, disturbed, floor>>
    BY DEF AddMark
  <2>6. points' \in [Slots -> Point]
    BY <2>1, <2>3, <2>4
  <2>7. J' \in Pose /\ Height(J'.z)
    BY <2>2, <2>4, CentrePose DEF Height
  <2>8. q.rested => q.z - q.baseline = q.ground /\ q.pose = Centre(q.z)
    BY <2>2, Constants DEF RestedAtZ, Distances, Centre
  <2>9. Numbers'
    BY <2>4, <2>5, <2>6, <2>7, Constants DEF Slots
  <2>13. Flags'
    <3>1. ticked' = FALSE
      BY <1>2, <2>4 DEF AddMark
    <3> QED
      BY <2>5, <3>1
  <2>10. Heights'
    BY <1>2, <2>1, <2>4, <2>5, <2>7
  <2>11. MarkKeepsItsGround'
    BY <2>1, <2>4, <2>8
  <2>12. Untimed'
    BY <2>1, <2>4
  <2> QED
    BY <2>4, <2>5, <2>9, <2>10, <2>11, <2>12, <2>13
<1> QED
  BY <1>1, <1>2

LEMMA SwitchKeeps == ASSUME MInv, SwitchMode, UNCHANGED floor PROVE MInv'
<1>1. NextMode \in {"hover", "lr", "ud", "circle"} /\ mode' = NextMode
  BY DEF SwitchMode, NextMode
<1>2. CASE ~start_flag
  BY <1>1, <1>2 DEF SwitchMode
<1>3. CASE start_flag /\ current_point >= point_count
  BY <1>1, <1>3 DEF SwitchMode, StartReturn
<1>4. CASE start_flag /\ current_point < point_count
  <2>1. current_point \in Slots /\ here.pose \in Pose /\ Height(here.pose.z)
    BY <1>4, Constants DEF Slots, Point
  <2>2. /\ goal' = here.pose /\ J' = Parked /\ return_type' = 1
        /\ disturbed' = (NextMode = "hover") /\ settled' \in BOOLEAN
    BY <1>4 DEF SwitchMode, StartReturn, Goto
  <2>3. Numbers' /\ Heights'
    BY <1>1, <2>1, <2>2, ParkedPose DEF SwitchMode
  <2>4. Flags'
    BY <2>2 DEF SwitchMode
  <2>5. ~disturbed' => mode' # "hover"
    BY <1>1, <2>2
  <2>6. /\ UNCHANGED <<manual, marks, start_flag, cycle_complete, current_point, ticked>>
        /\ return_type' = 1 /\ goal' = here.pose /\ ~biji_flag
    BY <2>2 DEF SwitchMode
  <2> QED
    BY <1>4, <2>3, <2>4, <2>5, <2>6
<1> QED
  BY <1>2, <1>3, <1>4

LEMMA StartKeeps == ASSUME MInv, Restart \/ FirstStart, UNCHANGED floor PROVE MInv'
<1>1. 0 \in Slots /\ 0 < point_count /\ ~start_flag
  BY Constants DEF Restart, FirstStart, AtRest, Slots
<1>2. points[0].pose \in Pose /\ Height(points[0].pose.z)
  BY <1>1 DEF Point
<1>3. /\ goal' = points[0].pose /\ J' = Parked /\ return_type' \in {3, 4}
      /\ disturbed' = FALSE /\ settled' \in BOOLEAN /\ biji_flag' = FALSE
      /\ current_point' = 0 /\ point_count' = point_count
      /\ UNCHANGED <<Z, prev_Z, first_imu_flag2, start_flag, mode>>
  BY <1>1 DEF Restart, FirstStart, StartReturn, Goto, CanFirstStart
<1>4. CASE FirstStart
  <2>1. points[0].position = 0
    BY <1>1, <1>4 DEF FirstStart, CanFirstStart
  <2>2. Numbers' /\ Heights'
    BY <1>1, <1>2, <1>3, <1>4, ParkedPose DEF FirstStart
  <2>3. Flags'
    BY <1>3, <1>4 DEF FirstStart
  <2> QED
    BY <1>1, <1>3, <1>4, <2>1, <2>2, <2>3 DEF FirstStart
<1>5. CASE Restart
  <2>1. points' = [i \in Slots |-> [points[i] EXCEPT !.position = 0]]
    BY <1>5 DEF Restart
  <2>2. ASSUME NEW i \in Slots PROVE [points[i] EXCEPT !.position = 0] \in Point
    <3>1. points[i] \in Point /\ 0 \in 0 .. 2
      OBVIOUS
    <3> QED
      BY <3>1, WithPosition, Zenon
  <2>3. points' \in [Slots -> Point]
    BY <2>1, <2>2
  <2>4. \A i \in Slots : /\ points'[i].position = 0 /\ points'[i].pose = points[i].pose
                         /\ points'[i].z = points[i].z /\ points'[i].baseline = points[i].baseline
                         /\ points'[i].ground = points[i].ground /\ points'[i].rested = points[i].rested
    BY <2>1 DEF Point
  <2>5. cycle_complete' = FALSE /\ ticked' = FALSE
    BY <1>5 DEF Restart
  <2>6. Numbers'
    BY <1>1, <1>2, <1>3, <2>3, ParkedPose
  <2>10. Flags'
    BY <1>3, <2>5
  <2>7. \A i \in 0 .. point_count - 1 : i \in Slots
    BY Constants DEF Slots
  <2>8. Heights'
    BY <1>2, <1>3, <2>4, <2>7, ParkedPose
  <2>9. MarkKeepsItsGround'
    BY <1>3, <2>4, <2>7
  <2> QED
    BY <1>1, <1>3, <2>4, <2>5, <2>6, <2>8, <2>9, <2>10
<1> QED
  BY <1>4, <1>5

-----------------------------------------------------------------------------
(* The phases of the loop.                                                 *)

(* Where a return ends the arm is over its mark.                           *)
LEMMA ReturnKeeps == ASSUME MInv, ReturnDone PROVE MInv'
<1>1. /\ return_type # 0 /\ return_type' = 0 /\ (disturbed \/ settled) /\ ~biji_flag
      /\ UNCHANGED <<manual, point_count, cycle_complete, current_point, ticked, mode>>
      /\ UNCHANGED <<J, target, floor, disturbed>>
  BY DEF ReturnDone
<1>2. Flags'
  <2>1. start_flag' \in BOOLEAN
    BY DEF ReturnDone
  <2> QED
    BY <1>1, <2>1
<1>3. /\ points' \in [Slots -> Point]
      /\ \A i \in Slots :
           /\ points'[i].z = points[i].z /\ points'[i].pose = points[i].pose
           /\ points'[i].baseline = points[i].baseline
           /\ points'[i].ground = points[i].ground /\ points'[i].rested = points[i].rested
           /\ points[i].position = 0 => points'[i].position = 0
      /\ ~disturbed => current_point \in Slots /\ points'[current_point].position = 0
  <2>1. ~disturbed => current_point \in Slots
    BY Constants DEF Slots
  <2>2. CASE current_point \in Slots /\ points' = [points EXCEPT ![current_point].position = 0]
    <3>1. 0 \in 0 .. 2
      OBVIOUS
    <3>2. \A i \in Slots : i # current_point => points'[i] = points[i]
      BY <2>2
    <3> QED
      BY <2>2, <3>1, <3>2, Repositioned
  <2>3. CASE return_type \in {3, 4} /\ UNCHANGED points
    BY <1>1, <2>1, <2>3
  <2>4. CASE current_point \notin Slots /\ UNCHANGED points
    BY <2>1, <2>4
  <2> QED
    BY <1>1, <2>2, <2>3, <2>4 DEF ReturnDone
<1>4. \A i \in 0 .. point_count - 1 : i \in Slots
  BY Constants DEF Slots
<1>5. Numbers'
  BY <1>1, <1>3
<1>6. Heights' /\ MarkKeepsItsGround'
  BY <1>1, <1>3, <1>4
<1>7. Untimed' /\ Preparing' /\ EndIsComplete' /\ OnTheWay'
  BY <1>1, <1>3
<1>8. AtTheMark'
  <2>1. SUFFICES ASSUME ~disturbed, here.rested PROVE settled /\ goal = AtPlace'
    BY <1>1, <1>3
  <2>2. current_point \in Slots /\ current_point < point_count
    BY <1>3, <2>1
  <2>3. goal = Centre(here.z)
    BY <1>1, <2>1, <2>2
  <2>4. AtPlace' = [z |-> here.z, at |-> "centre"]
    BY <1>1, <1>3, <2>1, <2>2 DEF Side
  <2> QED
    BY <1>1, <2>1, <2>3, <2>4 DEF Centre
<1> QED
  BY <1>2, <1>5, <1>6, <1>7, <1>8

(* Over ground that has not moved a step has nothing to compensate.        *)
LEMMA StepAtRest ==
  ASSUME MInv, Running, return_type = 0, ~disturbed, here.rested, here.ground = ground,
         mode \in {"hover", "lr"}, NEW c \in Compensations(here.baseline)
  PROVE  c = 0 /\ settled /\ goal = AtPlace
  BY RunningMark, PointFields, NoCompensation

(* What the steps of all modes leave as it is.                             *)
Quietly ==
  /\ ticked' \in BOOLEAN /\ (ticked => ticked')
  /\ UNCHANGED <<manual, point_count, start_flag, cycle_complete, current_point>>
  /\ UNCHANGED <<return_type, mode, floor, disturbed>>

(* A step that sends the arm within the limits, and changes no mark but    *)
(* for the place in its stroke.                                            *)
LEMMA StepKeepsRest ==
  ASSUME MInv, Running, Quietly, J' \in Pose, Height(J'.z), goal' \in Pose, Height(goal'.z),
         settled' \in BOOLEAN,
         \/ UNCHANGED points
         \/ \E n \in 0 .. 2 : points' = [points EXCEPT ![current_point].position = n] /\ ticked'
  PROVE  Numbers' /\ Flags' /\ Heights' /\ Preparing' /\ EndIsComplete' /\ Untimed'
         /\ MarkKeepsItsGround'
<1>1. current_point \in Slots /\ ~biji_flag
  BY RunningMark
<1>2. /\ points' \in [Slots -> Point]
      /\ \A i \in Slots :
           /\ points'[i].z = points[i].z /\ points'[i].pose = points[i].pose
           /\ points'[i].baseline = points[i].baseline
           /\ points'[i].ground = points[i].ground /\ points'[i].rested = points[i].rested
  BY <1>1, Repositioned
<1>3. \A i \in 0 .. point_count - 1 : i \in Slots
  BY Constants DEF Slots
<1>4. Numbers'
  BY <1>2 DEF Quietly
<1>5. Flags'
  BY DEF Quietly
<1>6. Heights' /\ MarkKeepsItsGround'
  BY <1>2, <1>3 DEF Quietly
<1>7. Preparing' /\ EndIsComplete'
  BY <1>1 DEF Quietly
<1>8. Untimed'
  BY DEF Quietly
<1> QED
  BY <1>4, <1>5, <1>6, <1>7, <1>8

(* Hovering, an undisturbed arm is not moved; another is not on its way to *)
(* a mark that this could disturb.                                         *)
LEMMA HoverKeeps == ASSUME MInv, Running, run_hover, Quietly PROVE MInv'
<1>1. PICK c \in Compensations(here.baseline) :
        IF c # 0 THEN Send(Centre(Clamp(here.z + c))) ELSE UNCHANGED <<J, target>>
  BY DEF run_hover
<1>2. here \in Point /\ current_point \in Slots
  BY RunningMark
<1>3. here.baseline \in Int /\ here.z \in Int
  BY <1>2, PointFields
<1>4. UNCHANGED points /\ mode = "hover"
  BY DEF run_hover
<1>5. CASE c = 0
  <2>1. UNCHANGED <<J, target>>
    BY <1>1, <1>5
  <2>2. Numbers' /\ Flags' /\ Heights' /\ Preparing' /\ EndIsComplete' /\ Untimed'
        /\ MarkKeepsItsGround'
    BY <1>4, <2>1, StepKeepsRest
  <2> QED
    BY <1>4, <2>1, <2>2 DEF Quietly
<1>6. CASE c # 0
  <2> DEFINE p == Centre(Clamp(here.z + c))
  <2>1. c \in Int
    BY <1>1, <1>3, CompensationIsNumber
  <2>2. Height(Clamp(here.z + c))
    BY <1>3, <2>1, ClampLimits
  <2>3. p \in Pose /\ Height(p.z)
    BY <2>2, Constants, CentrePose DEF Height
  <2>4. Send(p)
    BY <1>1, <1>6
  <2>5. J' \in Pose /\ Height(J'.z) /\ goal' = p /\ settled' \in BOOLEAN
    BY <2>3, <2>4, SendWithinLimits
  <2>6. Numbers' /\ Flags' /\ Heights' /\ Preparing' /\ EndIsComplete' /\ Untimed'
        /\ MarkKeepsItsGround'
    BY <1>4, <2>3, <2>5, StepKeepsRest
  <2>7. disturbed \/ return_type = 0
    BY <1>4 DEF Running
  <2>8. return_type = 0 /\ ~disturbed => ~(here.rested /\ here.ground = ground)
    BY <1>1, <1>4, <1>6, StepAtRest
  <2> QED
    BY <1>4, <2>6, <2>7, <2>8 DEF Quietly
<1> QED
  BY <1>5, <1>6

(* A stroke to the left or right goes where the mark will say.             *)
LEMMA LrKeeps == ASSUME MInv, Running, run_lr, Quietly, ticked' PROVE MInv'
<1>1. PICK c \in Compensations(here.baseline) :
        Send([z |-> Clamp(here.z + c), at |-> Side(NextPosition)])
  BY DEF run_lr
<1> DEFINE p == [z |-> Clamp(here.z + c), at |-> Side(NextPosition)]
<1>2. here \in Point /\ current_point \in Slots /\ InRange(here.z)
  BY RunningMark
<1>3. here.baseline \in Int /\ here.z \in Int
  BY <1>2, PointFields
<1>4. mode = "lr" /\ return_type = 0 /\ points' = [points EXCEPT ![current_point].position = NextPosition]
  BY DEF run_lr
<1>5. NextPosition \in 0 .. 2 /\ Side(NextPosition) \in {"left", "right"}
  BY DEF NextPosition, Side
<1>6. c \in Int
  BY <1>3, CompensationIsNumber
<1>7. Height(Clamp(here.z + c)) /\ (c = 0 => Clamp(here.z + c) = here.z)
  BY <1>2, <1>3, <1>6, ClampLimits, Constants DEF InRange, Height
<1>8. p \in Pose /\ Height(p.z)
  BY <1>5, <1>7, Constants DEF Height, Pose, Places
<1>9. /\ J' \in Pose /\ Height(J'.z) /\ goal' = p /\ settled' \in BOOLEAN
      /\ settled /\ p.z = goal.z => settled'
  BY <1>1, <1>8, SendWithinLimits
<1>10. Numbers' /\ Flags' /\ Heights' /\ Preparing' /\ EndIsComplete' /\ Untimed'
       /\ MarkKeepsItsGround'
  BY <1>4, <1>5, <1>8, <1>9, StepKeepsRest
<1>11. /\ points'[current_point].z = here.z /\ points'[current_point].rested = here.rested
       /\ points'[current_point].ground = here.ground
       /\ points'[current_point].position = NextPosition
  BY <1>2, <1>4, <1>5, Repositioned
<1>12. AtTheMark'
  <2>1. SUFFICES ASSUME ~disturbed, here.rested, here.ground = ground
                 PROVE  settled' /\ goal' = AtPlace'
    BY <1>11 DEF Quietly
  <2>2. c = 0 /\ settled /\ goal.z = here.z
    BY <1>4, <2>1, StepAtRest
  <2>3. AtPlace' = [z |-> here.z, at |-> Side(NextPosition)]
    BY <1>4, <1>11 DEF Quietly
  <2> QED
    BY <1>7, <1>9, <2>2, <2>3
<1> QED
  BY <1>4, <1>10, <1>12 DEF Quietly

LEMMA CircleAndUdKeep == ASSUME MInv, Running, run_circle \/ run_ud, Quietly PROVE MInv'
<1>1. here \in Point /\ current_point \in Slots
  BY RunningMark
<1>2. here.baseline \in Int /\ here.z \in Int
  BY <1>1, PointFields
<1>3. UNCHANGED points /\ mode \in {"circle", "ud"} /\ return_type = 0
  BY DEF run_circle, run_ud
<1>4. PICK p \in Pose : Height(p.z) /\ Send(p)
  <2>1. CASE run_circle
    <3>1. PICK c \in Compensations(here.baseline) : Send([z |-> Clamp(here.z + c), at |-> "circle"])
      BY <2>1 DEF run_circle
    <3>2. here.z + c \in Int
      BY <1>2, CompensationIsNumber
    <3>3. Height(Clamp(here.z + c))
      BY <3>2, ClampLimits
    <3> QED
      BY <3>1, <3>3, Constants DEF Height, Pose, Places
  <2>2. CASE run_ud
    <3>1. PICK c \in Compensations(here.baseline), offset \in UdOffsets :
            Send(Centre(Clamp(here.z + offset + c)))
      BY <2>2 DEF run_ud
    <3>2. here.z + offset + c \in Int
      BY <1>2, CompensationIsNumber, Constants
    <3>3. Height(Clamp(here.z + offset + c))
      BY <3>2, ClampLimits
    <3> QED
      BY <3>1, <3>3, Constants, CentrePose DEF Height
  <2> QED
    BY <2>1, <2>2
<1>5. J' \in Pose /\ Height(J'.z) /\ goal' = p /\ settled' \in BOOLEAN
  BY <1>4, SendWithinLimits
<1>6. Numbers' /\ Flags' /\ Heights' /\ Preparing' /\ EndIsComplete' /\ Untimed'
      /\ MarkKeepsItsGround'
  BY <1>3, <1>4, <1>5, StepKeepsRest
<1> QED
  BY <1>3, <1>6 DEF Quietly

LEMMA RunStepKeeps == ASSUME MInv, RunStep PROVE MInv'
<1>1. Quietly
  <2>1. ticked' \in {ticked, TRUE}
    BY DEF RunStep
  <2>2. ticked' \in BOOLEAN /\ (ticked => ticked')
    BY <2>1
  <2> QED
    BY <2>2 DEF RunStep, Quietly
<1>2. mode # "hover" => ticked'
  BY DEF RunStep
<1> QED
  BY <1>1, <1>2, HoverKeeps, LrKeeps, CircleAndUdKeep DEF RunStep, run_lr

LEMMA NothingKeeps == ASSUME MInv, RunNothing PROVE MInv'
<1>1. /\ ticked' \in BOOLEAN /\ (ticked => ticked') /\ (~start_flag => ticked' = ticked)
      /\ UNCHANGED <<manual, marks, start_flag, cycle_complete, current_point, return_type>>
      /\ UNCHANGED <<mode, J, target, floor, disturbed>>
  BY DEF RunNothing, Running
<1> QED
  BY <1>1

LEMMA NextPointKeeps == ASSUME MInv, NextPoint PROVE MInv'
<1>1. current_point + 1 \in Slots /\ current_point + 1 < point_count /\ ~biji_flag
  BY RunningMark, Constants DEF NextPoint, Slots
<1>2. points[current_point + 1].pose \in Pose /\ Height(points[current_point + 1].pose.z)
  BY <1>1, PointFields
<1>3. /\ goal' = points[current_point + 1].pose /\ settled' \in BOOLEAN /\ J' = Parked
      /\ return_type' = 5
  BY <1>1 DEF NextPoint, StartReturn, Goto
<1>4. /\ current_point' = current_point + 1 /\ start_flag' = FALSE /\ disturbed' = FALSE
      /\ UNCHANGED <<manual, marks, cycle_complete, ticked, mode, floor>>
  BY DEF NextPoint
<1>5. Numbers' /\ Heights'
  BY <1>1, <1>2, <1>3, <1>4, ParkedPose
<1>6. Flags'
  BY <1>3, <1>4
<1>7. OnTheWay' /\ AtTheMark'
  BY <1>3, <1>4
<1> QED
  BY <1>1, <1>4, <1>5, <1>6, <1>7

LEMMA CycleDoneKeeps == ASSUME MInv, CycleDone PROVE MInv'
<1>1. J' \in Pose /\ Height(J'.z) /\ goal' = Parked /\ settled' \in BOOLEAN
  BY ParkedPose, SendWithinLimits DEF CycleDone
<1>2. /\ current_point' = current_point + 1 /\ start_flag' = FALSE /\ cycle_complete' = TRUE
      /\ disturbed' = TRUE /\ UNCHANGED <<manual, marks, ticked, return_type, mode, floor>>
  BY DEF CycleDone
<1>3. current_point < point_count /\ ~biji_flag
  BY RunningMark DEF CycleDone
<1>4. Numbers' /\ Heights'
  BY <1>1, <1>2, <1>3, ParkedPose
<1> QED
  BY <1>1, <1>2, <1>3, <1>4

LEMMA ManualKeeps == ASSUME MInv, ManualControl PROVE MInv'
<1>1. Centre(Z) \in Pose /\ Height(Centre(Z).z)
  BY Constants, CentrePose DEF Height
<1>2. J' \in Pose /\ Height(J'.z) /\ goal' = Centre(Z) /\ settled' \in BOOLEAN
  BY <1>1, SendWithinLimits DEF ManualControl
<1>3. /\ prev_Z' = Z /\ first_imu_flag2' = TRUE /\ disturbed' = TRUE
      /\ UNCHANGED <<Z, biji_flag, marks, session, mode, floor>>
  BY DEF ManualControl
<1>4. Numbers' /\ Heights'
  BY <1>1, <1>2, <1>3
<1> QED
  BY <1>2, <1>3, <1>4

LEMMA WorldKeeps == ASSUME MInv, World PROVE MInv'
<1>1. CASE Settle
  BY <1>1 DEF Settle
<1>2. CASE GroundMoves
  BY <1>2 DEF GroundMoves
<1> QED
  BY <1>1, <1>2 DEF World

-----------------------------------------------------------------------------
LEMMA KeyKeeps == ASSUME MInv, Key PROVE MInv'
<1>1. UNCHANGED floor
  BY DEF Key
<1> QED
  BY <1>1, EditKeeps, JogKeeps, ParkKeeps, AddMarkKeeps, SwitchKeeps, PauseKeeps, StartKeeps,
     ResumeKeeps DEF Key

LEMMA PhaseKeeps == ASSUME PhaseOK, [Next]_vars PROVE PhaseOK'
  BY DEF PhaseOK, Next, Loop, World, Key, NoKey, ReturnDone, RunStep, RunNothing, NextPoint,
         CycleDone, ManualControl, RunOver, Settle, GroundMoves, vars

LEMMA NextMInv == MInv /\ [Next]_vars => MInv'
<1> SUFFICES ASSUME MInv, [Next]_vars PROVE MInv'
  OBVIOUS
<1>1. CASE UNCHANGED vars
  BY <1>1 DEF vars
<1>2. CASE NoKey
  BY <1>2 DEF NoKey
<1> QED
  BY <1>1, <1>2, KeyKeeps, ReturnKeeps, RunStepKeeps, NothingKeeps, NextPointKeeps,
     CycleDoneKeeps, ManualKeeps, WorldKeeps DEF Next, Loop

HIDE DEF MInv

LEMMA MotionInvariance == ASpec => [](MInv /\ PhaseOK)
<1>1. Init => MInv /\ PhaseOK
  BY InitMInv DEF Init, PhaseOK
<1> QED
  BY <1>1, NextMInv, PhaseKeeps, PTL DEF ASpec

(* Marks, commands and joint variables are what their types say, with any  *)
(* number of marks: points[] is never used beyond its end.                 *)
THEOREM MotionTypeCorrect == ASpec => []MotionTypeOK
<1>1. MInv /\ PhaseOK => MotionTypeOK
  BY Constants DEF MInv, PhaseOK, MotionTypeOK, Slots
<1> QED
  BY <1>1, MotionInvariance, PTL

(* Whatever commands the arm, its height stays within the limits.          *)
THEOREM HeightsAreLimited == ASpec => []WithinLimits
<1>1. MInv => WithinLimits
  BY DEF MInv, WithinLimits, Height
<1> QED
  BY <1>1, MotionInvariance, PTL

(* A mark keeps the ground it was made over, however often it is edited.   *)
THEOREM MarksKeepTheirGround == ASpec => []MarkKeepsItsGround
<1>1. MInv => MarkKeepsItsGround
  BY DEF MInv
<1> QED
  BY <1>1, MotionInvariance, PTL

(* Over ground that has not moved an undisturbed arm is where its mark and *)
(* its stroke say.                                                         *)
THEOREM StillOverStillGround == ASpec => []StillGround
<1>1. MInv => StillGround
  BY DEF MInv, StillGround
<1> QED
  BY <1>1, MotionInvariance, PTL
=============================================================================
