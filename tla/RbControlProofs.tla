-------------------------- MODULE RbControlProofs --------------------------
(***************************************************************************)
(* Proofs about RbControl for every number of marks, every duration and    *)
(* delay, and every set of keys.  IInv is the inductive invariant: the     *)
(* safety properties proved from it, and the three facts they need about   *)
(* the grid of durations, the end of points[] and the first manual move.   *)
(***************************************************************************)
EXTENDS RbControl, TLAPS

OnGrid(d) == \E i \in Nat : d = DURATION_MIN + i * DURATION_STEP

(* time+ and time- walk the grid of the assumption, so no press of time+   *)
(* can step over DURATION_MAX.                                             *)
DurationOnGrid == OnGrid(point_duration)

(* The index passes the end of points[] only in the last step of a cycle,  *)
(* and stays there only while the cycle is complete.                       *)
EndMeansComplete == current_point = MAX_POINTS => cycle_complete \/ pc = "expired"

(* A point is marked only after a manual move.                             *)
MarksNeedMove == point_count > 0 => first_imu_flag2

IInv ==
  /\ TypeOK
  /\ DurationOnGrid
  /\ EndMeansComplete
  /\ MarksNeedMove
  /\ DurationsAgree
  /\ SessionNeedsMarks
  /\ TimersFollowMode
  /\ FlameInSession
-----------------------------------------------------------------------------
(* The grid of durations.                                                  *)

LEMMA ConstantsOnGrid ==
  /\ DURATION_DEFAULT \in DURATION_MIN .. DURATION_MAX
  /\ OnGrid(DURATION_DEFAULT)
  /\ OnGrid(DURATION_MAX)
<1>1. PICK i \in 0 .. DURATION_MAX, j \in 0 .. DURATION_MAX :
        /\ DURATION_DEFAULT = DURATION_MIN + i * DURATION_STEP
        /\ DURATION_MAX     = DURATION_DEFAULT + j * DURATION_STEP
  BY DurationAssumption
<1>2. DURATION_MIN \in Nat /\ DURATION_STEP \in Nat /\ i \in Nat /\ j \in Nat
  BY DurationAssumption
<1>3. i * DURATION_STEP \in Nat /\ j * DURATION_STEP \in Nat
  BY <1>2
<1>4. (i + j) * DURATION_STEP = i * DURATION_STEP + j * DURATION_STEP
  BY <1>2
<1>5. DURATION_MAX = DURATION_MIN + (i + j) * DURATION_STEP
  BY <1>1, <1>2, <1>3, <1>4
<1>6. OnGrid(DURATION_MAX)
  BY <1>2, <1>5 DEF OnGrid
<1>7. OnGrid(DURATION_DEFAULT)
  BY <1>1, <1>2 DEF OnGrid
<1> QED
  BY <1>1, <1>2, <1>3, <1>6, <1>7

(* Two values on the grid differ by whole steps.                           *)
LEMMA GridGap ==
  ASSUME NEW a \in Nat, NEW b \in Nat, OnGrid(a), OnGrid(b), a < b
  PROVE  a + DURATION_STEP <= b
<1>1. PICK i \in Nat : a = DURATION_MIN + i * DURATION_STEP
  BY DEF OnGrid
<1>2. PICK j \in Nat : b = DURATION_MIN + j * DURATION_STEP
  BY DEF OnGrid
<1>3. DURATION_MIN \in Nat /\ DURATION_STEP \in Nat \ {0}
  BY DurationAssumption
<1>4. i * DURATION_STEP < j * DURATION_STEP
  BY <1>1, <1>2, <1>3
<1>5. i < j
  <2>1. SUFFICES ASSUME j <= i PROVE FALSE
    OBVIOUS
  <2>2. PICK k \in Nat : i = j + k
    BY <2>1
  <2>3. i * DURATION_STEP = j * DURATION_STEP + k * DURATION_STEP
    BY <1>3, <2>2
  <2>4. k * DURATION_STEP >= 0
    BY <1>3
  <2> QED
    BY <1>3, <1>4, <2>3, <2>4
<1>6. PICK k \in Nat : j = i + 1 + k
  BY <1>5
<1>7. j * DURATION_STEP = i * DURATION_STEP + DURATION_STEP + k * DURATION_STEP
  BY <1>3, <1>6
<1>8. k * DURATION_STEP \in Nat
  BY <1>3
<1> QED
  BY <1>1, <1>2, <1>3, <1>7, <1>8

LEMMA GridNext ==
  ASSUME NEW a \in Nat, OnGrid(a)
  PROVE  /\ OnGrid(a + DURATION_STEP)
         /\ a > DURATION_MIN => OnGrid(a - DURATION_STEP)
<1>1. PICK i \in Nat : a = DURATION_MIN + i * DURATION_STEP
  BY DEF OnGrid
<1>2. DURATION_MIN \in Nat /\ DURATION_STEP \in Nat \ {0}
  BY DurationAssumption
<1>3. (i + 1) * DURATION_STEP = i * DURATION_STEP + DURATION_STEP
  BY <1>2
<1>4. OnGrid(a + DURATION_STEP)
  BY <1>1, <1>2, <1>3 DEF OnGrid
<1>5. ASSUME a > DURATION_MIN PROVE OnGrid(a - DURATION_STEP)
  <2>1. i # 0
    BY <1>1, <1>2, <1>5
  <2>2. (i - 1) * DURATION_STEP = i * DURATION_STEP - DURATION_STEP
    BY <1>2
  <2> QED
    BY <1>1, <1>2, <2>1, <2>2 DEF OnGrid
<1> QED
  BY <1>4, <1>5

-----------------------------------------------------------------------------
(* The initial states.                                                     *)

LEMMA InitIInv == Init => IInv
<1> SUFFICES ASSUME Init PROVE IInv
  OBVIOUS
<1>1. TypeOK
  <2>1. TypeLoop
    BY CountsAssumption DEF Init, TypeLoop, Phases
  <2>2. TypeMarks
    <3>1. 0 \in 0 .. DURATION_MAX
      BY DurationAssumption
    <3>2. points \in [Slots -> Point]
      BY <3>1 DEF Init, Point
    <3> QED
      BY <3>2, ConstantsOnGrid, CountsAssumption DEF Init, TypeMarks
  <2>3. TypeSession /\ TypeMotion /\ TypeReturn /\ TypeBurner
    <3>1. TypeSession
      <4>1. start_flag \in BOOLEAN /\ cycle_complete \in BOOLEAN
        BY DEF Init
      <4>2. current_point \in 0 .. MAX_POINTS
        BY CountsAssumption DEF Init
      <4> QED
        BY <4>1, <4>2 DEF TypeSession
    <3>2. TypeMotion
      BY DEF Init, TypeMotion, Modes
    <3>3. TypeReturn
      BY DEF Init, TypeReturn
    <3>4. TypeBurner
      BY DEF Init, TypeBurner
    <3> QED
      BY <3>1, <3>2, <3>3, <3>4
  <2>4. TypeJog
    <3>1. COORD_MAX \div 2 \in 0 .. COORD_MAX
      BY CountsAssumption
    <3> QED
      BY <3>1 DEF Init, TypeJog
  <2>5. TypeAccs
    <3>1. acc_move \in [Moving -> Nat]
      BY DEF Init
    <3>2. \A m \in Moving : acc_move[m] < INTERVAL[m]
      BY CountsAssumption DEF Init
    <3> QED
      BY <3>1, <3>2, CountsAssumption DEF Init, TypeAccs
  <2> QED
    BY <2>1, <2>2, <2>3, <2>4, <2>5 DEF TypeOK
<1>2. DurationOnGrid
  BY ConstantsOnGrid DEF Init, DurationOnGrid
<1> QED
  BY <1>1, <1>2, CountsAssumption
  DEF Init, IInv, EndMeansComplete, MarksNeedMove, DurationsAgree, SessionNeedsMarks,
      TimersFollowMode, FlameInSession, Slots

-----------------------------------------------------------------------------
(* The parts of IInv, and the groups of variables, are expanded throughout *)
(* what follows.                                                           *)
USE DEF IInv, TypeOK, TypeLoop, TypeMarks, TypeSession, TypeMotion, TypeReturn, TypeBurner,
        TypeJog, TypeAccs, EndMeansComplete, MarksNeedMove, DurationsAgree,
        SessionNeedsMarks, TimersFollowMode, FlameInSession, DurationOnGrid,
        marks, session, motion, ret, burner, jog, accs

(* The key handlers.                                                       *)

KeyPhase ==
  /\ pc \in {"lcd", "ir"} /\ pc' \in {"ir", "return"}
  /\ UNCHANGED <<lag, accs>>

LEMMA NoKeyStep == IInv /\ KeyPhase /\ NoKey => IInv'
  BY DEF KeyPhase, NoKey, Phases, OnGrid

LEMMA JogStep ==
  ASSUME IInv, KeyPhase, NEW d \in {1, -1}, Jog(d) \/ JogZ(d)
  PROVE  IInv'
  BY CountsAssumption DEF KeyPhase, Jog, JogZ, Clamp, Phases, OnGrid

LEMMA ParkStep == IInv /\ KeyPhase /\ (Cebai \/ Park \/ CorrectMotor) => IInv'
  BY DEF KeyPhase, Cebai, Park, CorrectMotor, Phases, OnGrid

(* What a return delay that starts sets.                                   *)
LEMMA ReturnDelayStarts ==
  ASSUME TypeMarks, TypeJog, NEW type \in {1, 3, 4, 5}, NEW idx \in 0 .. MAX_POINTS,
         StartReturnDelay(type, idx)
  PROVE  /\ TypeReturn' /\ return_in_progress' = TRUE
         /\ arm' \in Slots \cup {Manual, Parked}
<1>1. TypeReturn' /\ return_in_progress' = TRUE
  <2>1. return_in_progress' \in BOOLEAN /\ return_delay_flag' \in BOOLEAN
    BY DEF StartReturnDelay
  <2>2. return_type' \in {0, 1, 3, 4, 5}
    BY DEF StartReturnDelay
  <2> QED
    BY <2>1, <2>2 DEF StartReturnDelay
<1>2. arm' \in Slots \cup {Manual, Parked}
  BY CountsAssumption DEF StartReturnDelay, Slots
<1> QED
  BY <1>1, <1>2

LEMMA MarkStep == IInv /\ KeyPhase /\ Mark => IInv'
<1> SUFFICES ASSUME IInv, KeyPhase, Mark PROVE IInv'
  OBVIOUS
<1>1. CASE AddMark
  <2>1. CASE InRange(coord)
    <3>1. /\ points' = [points EXCEPT ![point_count] = [timer |-> 0, duration |-> point_duration]]
          /\ point_count' = point_count + 1
          /\ point_count \in Slots
      BY <1>1, <2>1, CountsAssumption DEF AddMark, Slots
    <3>2. [timer |-> 0, duration |-> point_duration] \in Point
      BY DurationAssumption DEF Point
    <3>3. TypeMarks'
      BY <1>1, <3>1, <3>2, CountsAssumption DEF AddMark, Slots
    <3>4. DurationsAgree'
      BY <1>1, <3>1, CountsAssumption DEF AddMark, Slots
    <3>5. (TypeLoop /\ TypeSession /\ TypeMotion /\ TypeReturn /\ TypeBurner /\ TypeJog /\ TypeAccs)'
      BY <1>1, <3>1, CountsAssumption DEF AddMark, KeyPhase, Phases
    <3>6. (DurationOnGrid /\ EndMeansComplete /\ TimersFollowMode)'
      BY <1>1 DEF AddMark, KeyPhase, OnGrid
    <3>7. (MarksNeedMove /\ SessionNeedsMarks /\ FlameInSession)'
      BY <1>1, <3>1 DEF AddMark
    <3> QED
      BY <3>3, <3>4, <3>5, <3>6, <3>7
  <2>2. CASE ~InRange(coord)
    BY <1>1, <2>2 DEF KeyPhase, AddMark, Phases, OnGrid
  <2> QED
    BY <2>1, <2>2
<1>2. CASE SwitchMode
  <2>1. (TypeMotion /\ TimersFollowMode)'
    BY <1>2 DEF SwitchMode, NextMode, Modes, Moving
  <2>2. (TypeReturn /\ TypeJog /\ SessionNeedsMarks)'
    <3>1. CASE start_flag
      BY <1>2, <3>1, ReturnDelayStarts DEF SwitchMode
    <3>2. CASE ~start_flag
      BY <1>2, <3>2 DEF SwitchMode
    <3> QED
      BY <3>1, <3>2
  <2>3. (TypeLoop /\ TypeMarks /\ TypeSession /\ TypeBurner /\ TypeAccs)'
    BY <1>2 DEF SwitchMode, StartReturnDelay, KeyPhase, Phases
  <2>4. (DurationOnGrid /\ EndMeansComplete /\ MarksNeedMove /\ DurationsAgree /\ FlameInSession)'
    BY <1>2 DEF SwitchMode, StartReturnDelay, KeyPhase, OnGrid
  <2> QED
    BY <2>1, <2>2, <2>3, <2>4
<1>3. CASE MarkIgnored
  BY <1>3 DEF KeyPhase, MarkIgnored, Phases, OnGrid
<1> QED
  BY <1>1, <1>2, <1>3 DEF Mark

LEMMA StartPauseStep == IInv /\ KeyPhase /\ StartPause => IInv'
<1> SUFFICES ASSUME IInv, KeyPhase, StartPause PROVE IInv'
  OBVIOUS
<1>1. CASE Pause
  <2>1. start_flag' \in BOOLEAN
    BY <1>1 DEF Pause
  <2>2. (TypeSession /\ TypeMotion /\ TimersFollowMode)'
    BY <1>1, <2>1 DEF Pause
  <2>3. (TypeLoop /\ TypeMarks /\ TypeReturn /\ TypeBurner /\ TypeJog /\ TypeAccs)'
    BY <1>1 DEF KeyPhase, Pause, Phases
  <2>4. (DurationOnGrid /\ EndMeansComplete /\ DurationsAgree)'
    BY <1>1 DEF KeyPhase, Pause, OnGrid
  <2>5. (MarksNeedMove /\ SessionNeedsMarks /\ FlameInSession)'
    BY <1>1 DEF Pause
  <2> QED
    BY <2>2, <2>3, <2>4, <2>5
<1>2. CASE Restart
  <2>0. 0 \in 0 .. DURATION_MAX /\ 0 \in 0 .. MAX_POINTS
    BY CountsAssumption, DurationAssumption
  <2>1. TypeMarks'
    <3>1. points' \in [Slots -> Point]
      BY <1>2, <2>0 DEF Restart, Point
    <3>2. biji_flag' \in BOOLEAN
      BY <1>2 DEF Restart
    <3> QED
      BY <1>2, <3>1, <3>2 DEF Restart
  <2>2. (DurationsAgree /\ DurationOnGrid)'
    <3>1. \A i \in Slots : points'[i].duration = points[i].duration
      BY <1>2 DEF Restart, Point
    <3>2. UNCHANGED <<point_count, point_duration>>
      BY <1>2 DEF Restart
    <3> QED
      BY <3>1, <3>2 DEF OnGrid
  <2>3. TypeSession' /\ EndMeansComplete'
    <3>1. start_flag' \in BOOLEAN /\ cycle_complete' \in BOOLEAN
      BY <1>2 DEF Restart
    <3>2. current_point' = 0
      BY <1>2 DEF Restart
    <3> QED
      BY <3>1, <3>2, CountsAssumption
  <2>4. (TypeReturn /\ TypeJog)'
    <3>1. StartReturnDelay(3, 0) /\ UNCHANGED jog
      BY <1>2 DEF Restart
    <3> QED
      BY <2>0, <3>1, ReturnDelayStarts
  <2>5. (TypeBurner /\ FlameInSession)'
    BY <1>2 DEF Restart, LightFlame
  <2>6. (TypeLoop /\ TypeMotion /\ TypeAccs)'
    BY <1>2 DEF KeyPhase, Restart, Phases
  <2>7. (MarksNeedMove /\ SessionNeedsMarks /\ TimersFollowMode)'
    BY <1>2 DEF Restart
  <2> QED
    BY <2>1, <2>2, <2>3, <2>4, <2>5, <2>6, <2>7
<1>3. CASE FirstStart
  <2>1. (TypeReturn /\ TypeJog)'
    <3>1. StartReturnDelay(4, 0) /\ UNCHANGED jog
      BY <1>3 DEF FirstStart
    <3>2. 0 \in 0 .. MAX_POINTS
      BY CountsAssumption
    <3> QED
      BY <3>1, <3>2, ReturnDelayStarts
  <2>2. (TypeBurner /\ FlameInSession)'
    BY <1>3 DEF FirstStart, LightFlame, CanFirstStart, CanRestart
  <2>3. (TypeLoop /\ TypeMarks /\ TypeSession /\ TypeMotion /\ TypeAccs)'
    BY <1>3 DEF KeyPhase, FirstStart, Phases
  <2>4. (DurationOnGrid /\ EndMeansComplete /\ DurationsAgree)'
    BY <1>3 DEF KeyPhase, FirstStart, OnGrid
  <2>5. (MarksNeedMove /\ SessionNeedsMarks /\ TimersFollowMode)'
    BY <1>3 DEF FirstStart
  <2> QED
    BY <2>1, <2>2, <2>3, <2>4, <2>5
<1>4. CASE Resume
  BY <1>4 DEF KeyPhase, Resume, ModeTimers, Phases, OnGrid
<1>5. CASE StartIgnored
  BY <1>5 DEF KeyPhase, StartIgnored, Phases, OnGrid
<1> QED
  BY <1>1, <1>2, <1>3, <1>4, <1>5 DEF StartPause

LEMMA ChangeTimeStep ==
  ASSUME IInv, KeyPhase, NEW d \in {1, -1}, ChangeTime(d)
  PROVE  IInv'
<1> DEFINE new == point_duration + d * DURATION_STEP
           moves == (d = 1 /\ point_duration < DURATION_MAX) \/ (d = -1 /\ point_duration > DURATION_MIN)
<1>1. ASSUME moves PROVE new \in DURATION_MIN .. DURATION_MAX /\ OnGrid(new)
  <2>1. DURATION_MIN \in Nat /\ DURATION_MAX \in Nat /\ DURATION_STEP \in Nat /\ OnGrid(DURATION_MIN)
    <3>1. 0 * DURATION_STEP = 0
      BY DurationAssumption
    <3> QED
      BY <3>1, DurationAssumption DEF OnGrid
  <2>2. CASE d = 1
    BY <1>1, <2>1, <2>2, GridGap, GridNext, ConstantsOnGrid
  <2>3. CASE d = -1
    BY <1>1, <2>1, <2>3, GridGap, GridNext
  <2> QED
    BY <2>2, <2>3
<1>2. (TypeMarks /\ DurationOnGrid /\ DurationsAgree)'
  <2>1. CASE moves
    <3>1. /\ point_duration' = new
          /\ points' = [i \in Slots |->
               IF i < point_count THEN [points[i] EXCEPT !.duration = @ + d * DURATION_STEP]
                                  ELSE points[i]]
          /\ UNCHANGED <<point_count, biji_flag>>
      BY <2>1 DEF ChangeTime
    <3>2. \A i \in Slots : i < point_count => points[i].duration + d * DURATION_STEP = new
      OBVIOUS
    <3>3. \A i \in Slots : i < point_count =>
            [points[i] EXCEPT !.duration = @ + d * DURATION_STEP] \in Point
      BY <1>1, <2>1, <3>2, DurationAssumption DEF Point
    <3>4. points' \in [Slots -> Point]
      BY <3>1, <3>3
    <3>5. DurationsAgree'
      BY <3>1, <3>2 DEF Point
    <3> QED
      BY <1>1, <2>1, <3>1, <3>4, <3>5
  <2>2. CASE ~moves
    BY <2>2 DEF ChangeTime, OnGrid
  <2> QED
    BY <2>1, <2>2
<1>3. (TypeLoop /\ TypeSession /\ TypeMotion /\ TypeReturn /\ TypeBurner /\ TypeJog /\ TypeAccs)'
  BY DEF KeyPhase, ChangeTime, Phases
<1>4. (EndMeansComplete /\ MarksNeedMove /\ SessionNeedsMarks /\ TimersFollowMode /\ FlameInSession)'
  BY DEF KeyPhase, ChangeTime
<1> QED
  BY <1>2, <1>3, <1>4

LEMMA ClearStep == IInv /\ KeyPhase /\ Clear => IInv'
<1> SUFFICES ASSUME IInv, KeyPhase, Clear PROVE IInv'
  OBVIOUS
<1>1. (TypeMarks /\ DurationOnGrid /\ DurationsAgree /\ MarksNeedMove)'
  <2>1. points' \in [Slots -> Point]
    BY DurationAssumption DEF Clear, Point
  <2>2. biji_flag' \in BOOLEAN
    BY DEF Clear
  <2>3. point_count' = 0 /\ point_duration' = point_duration
    BY DEF Clear
  <2> QED
    BY <2>1, <2>2, <2>3, CountsAssumption DEF Slots, OnGrid
<1>2. (TypeMotion /\ TypeReturn /\ TypeBurner)'
  BY DEF Clear
<1>3. (TypeSession /\ EndMeansComplete)'
  <2>1. start_flag' \in BOOLEAN /\ cycle_complete' \in BOOLEAN
    BY DEF Clear
  <2> QED
    BY <2>1 DEF Clear, KeyPhase
<1>4. (TypeLoop /\ TypeJog /\ TypeAccs)'
  BY DEF KeyPhase, Clear, Phases
<1>5. (SessionNeedsMarks /\ TimersFollowMode /\ FlameInSession)'
  BY DEF Clear
<1> QED
  BY <1>1, <1>2, <1>3, <1>4, <1>5

LEMMA HandleStep == ASSUME IInv, KeyPhase, NEW k, Handle(k) PROVE IInv'
<1>1. CASE \E d \in {1, -1} : Jog(d) \/ JogZ(d)
  BY <1>1, JogStep
<1>2. CASE Cebai \/ Park \/ CorrectMotor
  BY <1>2, ParkStep
<1>3. CASE Mark
  BY <1>3, MarkStep
<1>4. CASE StartPause
  BY <1>4, StartPauseStep
<1>5. CASE \E d \in {1, -1} : ChangeTime(d)
  BY <1>5, ChangeTimeStep
<1>6. CASE Clear
  BY <1>6, ClearStep
<1> QED
  BY <1>1, <1>2, <1>3, <1>4, <1>5, <1>6 DEF Handle

-----------------------------------------------------------------------------
(* The other phases of the loop.                                           *)

LEMMA ReturnDoneStep == IInv /\ ReturnDone => IInv'
<1> SUFFICES ASSUME IInv, ReturnDone PROVE IInv'
  OBVIOUS
<1>1. (TypeMarks /\ DurationOnGrid /\ DurationsAgree)'
  <2>1. points' \in [Slots -> Point] /\ \A i \in Slots : points'[i].duration = points[i].duration
    <3>1. CASE return_type = 5 /\ current_point \in Slots
      <4>1. points' = [points EXCEPT ![current_point].timer = 0]
        BY <3>1 DEF ReturnDone
      <4>2. 0 \in 0 .. DURATION_MAX
        BY DurationAssumption
      <4> QED
        BY <3>1, <4>1, <4>2 DEF Point
    <3>2. CASE ~(return_type = 5 /\ current_point \in Slots)
      BY <3>2 DEF ReturnDone
    <3> QED
      BY <3>1, <3>2
  <2>2. UNCHANGED <<point_count, point_duration, biji_flag>>
    BY DEF ReturnDone
  <2> QED
    BY <2>1, <2>2 DEF OnGrid
<1>2. (TypeSession /\ TypeReturn)'
  <2>1. start_flag' \in BOOLEAN /\ TypeReturn'
    BY DEF ReturnDone
  <2> QED
    BY <2>1 DEF ReturnDone
<1>3. (TypeMotion /\ TimersFollowMode)'
  BY DEF ReturnDone, ModeTimers
<1>4. (TypeLoop /\ TypeBurner /\ TypeJog /\ TypeAccs)'
  BY DEF ReturnDone, GoTo, Phases
<1>5. (EndMeansComplete /\ MarksNeedMove /\ FlameInSession)'
  BY DEF ReturnDone, GoTo
<1>6. SessionNeedsMarks'
  BY DEF ReturnDone, DelayOver
<1> QED
  BY <1>1, <1>2, <1>3, <1>4, <1>5, <1>6

(* The phases that leave the session as it is, and the motion steps.       *)
LEMMA QuietPhaseStep == IInv /\ (ReturnPending \/ Idle \/ RunHover \/ RunMoving) => IInv'
<1> SUFFICES ASSUME IInv, ReturnPending \/ Idle \/ RunHover \/ RunMoving PROVE IInv'
  OBVIOUS
<1>1. CASE ReturnPending \/ Idle
  BY <1>1 DEF ReturnPending, Idle, GoTo, Phases, OnGrid
<1>2. ASSUME RunHover \/ RunMoving PROVE current_point \in Slots
  BY <1>2, CountsAssumption DEF RunHover, RunMoving, GoTo, Running, Slots
<1>3. CASE RunHover
  BY <1>2, <1>3 DEF RunHover, GoTo, Phases, OnGrid
<1>4. CASE RunMoving
  BY <1>2, <1>4 DEF RunMoving, GoTo, Phases, OnGrid
<1> QED
  BY <1>1, <1>3, <1>4

LEMMA ExpiryStep == IInv /\ (PointExpired \/ CycleDone \/ NextPoint) => IInv'
<1> SUFFICES ASSUME IInv, PointExpired \/ CycleDone \/ NextPoint PROVE IInv'
  OBVIOUS
<1>1. CASE PointExpired
  <2>1. current_point' \in 0 .. MAX_POINTS
    <3>1. current_point # MAX_POINTS
      BY <1>1 DEF PointExpired, GoTo, Running
    <3> QED
      BY <1>1, <3>1, CountsAssumption DEF PointExpired
  <2> QED
    BY <1>1, <2>1 DEF PointExpired, GoTo, Phases, OnGrid
<1>2. CASE CycleDone
  BY <1>2 DEF CycleDone, GoTo, Phases, OnGrid
<1>3. CASE NextPoint
  <2>1. (TypeReturn /\ TypeJog)'
    <3>1. StartReturnDelay(5, current_point) /\ UNCHANGED jog
      BY <1>3 DEF NextPoint
    <3> QED
      BY <3>1, ReturnDelayStarts
  <2>2. (TypeSession /\ TypeMotion /\ TimersFollowMode)'
    BY <1>3 DEF NextPoint
  <2>3. (TypeLoop /\ TypeMarks /\ TypeBurner /\ TypeAccs)'
    BY <1>3 DEF NextPoint, GoTo, Phases
  <2>4. EndMeansComplete'
    BY <1>3, CountsAssumption DEF NextPoint, AllPointsDone
  <2>5. SessionNeedsMarks'
    BY <1>3, CountsAssumption DEF NextPoint, AllPointsDone
  <2>6. (DurationOnGrid /\ DurationsAgree /\ MarksNeedMove /\ FlameInSession)'
    BY <1>3 DEF NextPoint, OnGrid
  <2> QED
    BY <2>1, <2>2, <2>3, <2>4, <2>5, <2>6
<1> QED
  BY <1>1, <1>2, <1>3

LEMMA ManualStep == IInv /\ ManualControl => IInv'
<1> SUFFICES ASSUME IInv, ManualControl PROVE IInv'
  OBVIOUS
<1>1. (TypeJog /\ MarksNeedMove)'
  <2>1. first_imu_flag2' \in BOOLEAN /\ (first_imu_flag2 => first_imu_flag2')
    BY DEF ManualControl
  <2>2. prev_coord' \in 0 .. COORD_MAX /\ arm' \in Slots \cup {Manual, Parked}
    BY DEF ManualControl
  <2> QED
    BY <2>1, <2>2 DEF ManualControl
<1>2. TypeLoop'
  BY CountsAssumption DEF ManualControl, Phases
<1>3. (TypeMarks /\ TypeSession /\ TypeMotion /\ TypeReturn /\ TypeBurner /\ TypeAccs)'
  BY DEF ManualControl
<1>4. (DurationOnGrid /\ EndMeansComplete /\ DurationsAgree)'
  BY DEF ManualControl, OnGrid
<1>5. (SessionNeedsMarks /\ TimersFollowMode /\ FlameInSession)'
  BY DEF ManualControl
<1> QED
  BY <1>1, <1>2, <1>3, <1>4, <1>5

LEMMA LoopStep == IInv /\ Loop => IInv'
<1> SUFFICES ASSUME IInv, Loop PROVE IInv'
  OBVIOUS
<1>1. ASSUME NEW k, LcdKey(k) \/ IrKey(k) PROVE IInv'
  BY <1>1, HandleStep DEF LcdKey, IrKey, GoTo, KeyPhase
<1>2. CASE LcdNone \/ IrNone
  BY <1>2, NoKeyStep DEF LcdNone, IrNone, GoTo, KeyPhase
<1>3. CASE ReturnDone
  BY <1>3, ReturnDoneStep
<1>4. CASE ReturnPending \/ Idle \/ RunHover \/ RunMoving
  BY <1>4, QuietPhaseStep
<1>5. CASE PointExpired \/ CycleDone \/ NextPoint
  BY <1>5, ExpiryStep
<1>6. CASE ManualControl
  BY <1>6, ManualStep
<1> QED
  BY <1>1, <1>2, <1>3, <1>4, <1>5, <1>6 DEF Loop

-----------------------------------------------------------------------------
(* The timer interrupt.                                                    *)

LEMMA TickStep == IInv /\ Tick => IInv'
<1> SUFFICES ASSUME IInv, Tick PROVE IInv'
  OBVIOUS
<1>1. TypeLoop' /\ UNCHANGED pc
  BY CountsAssumption DEF Tick
<1>2. (TypeBurner /\ FlameInSession)'
  BY DEF Tick, TickFlame
<1>3. acc_flame' \in 0 .. FLAME_TIME - 1
  BY CountsAssumption DEF Tick, TickFlame
<1>4. acc_move' \in [Moving -> Nat] /\ \A m \in Moving : acc_move'[m] < INTERVAL[m]
  BY CountsAssumption DEF Tick, TickMove, Due
<1>5. acc_return' \in 0 .. RETURN_DELAY - 1
  BY CountsAssumption DEF Tick, TickReturn
<1>6. TypeReturn'
  BY DEF Tick, TickReturn
<1>7. (TypeMotion /\ TimersFollowMode)'
  BY DEF Tick, TickMove
<1>8. (TypeMarks /\ DurationOnGrid /\ DurationsAgree)'
  <2>1. points' \in [Slots -> Point] /\ \A i \in Slots : points'[i].duration = points[i].duration
    <3>1. CASE Running /\ current_point \in Slots
      <4>1. points' = [points EXCEPT ![current_point].timer = IF @ < DURATION_MAX THEN @ + 1 ELSE @]
        BY <3>1 DEF Tick, TickPoint
      <4>2. points[current_point].timer \in 0 .. DURATION_MAX
        BY <3>1 DEF Point
      <4>3. (IF points[current_point].timer < DURATION_MAX
               THEN points[current_point].timer + 1
               ELSE points[current_point].timer) \in 0 .. DURATION_MAX
        BY <4>2, DurationAssumption
      <4> QED
        BY <3>1, <4>1, <4>3 DEF Point
    <3>2. CASE ~(Running /\ current_point \in Slots)
      BY <3>2 DEF Tick, TickPoint
    <3> QED
      BY <3>1, <3>2
  <2>2. UNCHANGED <<point_count, point_duration, biji_flag>>
    BY DEF Tick
  <2> QED
    BY <2>1, <2>2 DEF OnGrid
<1>9. (TypeSession /\ TypeJog /\ EndMeansComplete /\ MarksNeedMove /\ SessionNeedsMarks)'
  BY <1>1 DEF Tick
<1> QED
  BY <1>1, <1>2, <1>3, <1>4, <1>5, <1>6, <1>7, <1>8, <1>9

-----------------------------------------------------------------------------
(* The theorems.                                                           *)

LEMMA StutterStep == IInv /\ UNCHANGED vars => IInv'
  BY DEF vars, OnGrid

(* IInv holds in every state: the loop, the keys and the interrupt in any  *)
(* order, for every value of the constants.                                *)
THEOREM Invariance == Spec => []IInv
<1>1. IInv /\ [Next]_vars => IInv'
  BY LoopStep, TickStep, StutterStep DEF Next
<1> QED
  BY InitIInv, <1>1, PTL DEF Spec

(* Every variable keeps its type; in particular point_count and            *)
(* current_point stay within 0 .. MAX_POINTS and the time accumulators     *)
(* below their limits, whatever keys come.                                 *)
THEOREM TypeCorrect == Spec => []TypeOK
<1>1. IInv => TypeOK
  OBVIOUS
<1> QED
  BY Invariance, <1>1, PTL

(* The marks already made follow every change of the default duration.     *)
THEOREM DurationsAlwaysAgree == Spec => []DurationsAgree
<1>1. IInv => DurationsAgree
  OBVIOUS
<1> QED
  BY Invariance, <1>1, PTL

(* No session runs, or waits for its return delay to start it, without a   *)
(* mark.                                                                   *)
THEOREM SessionsHaveMarks == Spec => []SessionNeedsMarks
<1>1. IInv => SessionNeedsMarks
  OBVIOUS
<1> QED
  BY Invariance, <1>1, PTL

(* Only the selected mode's step timer ever runs.                          *)
THEOREM OneStepTimer == Spec => []TimersFollowMode
<1>1. IInv => TimersFollowMode
  OBVIOUS
<1> QED
  BY Invariance, <1>1, PTL

(* The flame burns only in a session and under its time limit.             *)
THEOREM FlameIsTimed == Spec => []FlameInSession
<1>1. IInv => FlameInSession
  OBVIOUS
<1> QED
  BY Invariance, <1>1, PTL

(* Outside the key handlers nothing drops a session that is underway: it   *)
(* keeps running, hands over to the return delay of the next mark, or has  *)
(* completed its cycle.                                                    *)
THEOREM SessionsSurvive == Spec => SessionNotLost
<1>1. ASSUME [Next]_vars, Underway, ~Underway', pc \notin {"lcd", "ir"}
      PROVE  cycle_complete'
  <2>1. CASE ReturnDone
    BY <1>1, <2>1 DEF ReturnDone, Underway
  <2>2. CASE ReturnPending \/ Idle \/ RunHover \/ RunMoving \/ PointExpired
    BY <1>1, <2>2 DEF ReturnPending, Idle, RunHover, RunMoving, PointExpired, Underway
  <2>3. CASE CycleDone
    BY <2>3 DEF CycleDone
  <2>4. CASE NextPoint
    BY <1>1, <2>4 DEF NextPoint, StartReturnDelay, Underway
  <2>5. CASE ManualControl
    BY <1>1, <2>5 DEF ManualControl, Underway
  <2>6. CASE Tick
    BY <1>1, <2>6 DEF Tick, Underway
  <2>7. CASE UNCHANGED vars
    BY <1>1, <2>7 DEF vars, Underway
  <2> QED
    BY <1>1, <2>1, <2>2, <2>3, <2>4, <2>5, <2>6, <2>7
    DEF Next, Loop, LcdKey, LcdNone, IrKey, IrNone, GoTo
<1>2. [Next]_vars => [Underway /\ ~Underway' /\ pc \notin {"lcd", "ir"} => cycle_complete']_vars
  BY <1>1
<1> QED
  BY <1>2, PTL DEF Spec, SessionNotLost

-----------------------------------------------------------------------------
(* What holds as long as 0xE1 is not pressed (it leaves current_point and  *)
(* cycle_complete behind: the run stale_point_after_clear shows what        *)
(* happens otherwise).                                                     *)

IndexInv ==
  /\ ~cycle_complete /\ pc # "expired" /\ point_count > 0 => current_point < point_count
  /\ point_count = 0 => current_point = 0 /\ ~cycle_complete
  /\ pc = "expired" => ~cycle_complete /\ point_count > 0 /\ current_point <= point_count

LEMMA IndexKeyStep ==
  ASSUME IInv, IndexInv, KeyPhase, NEW k, Handle(k), k # "clear"
  PROVE  IndexInv'
<1>1. CASE \E d \in {1, -1} : Jog(d) \/ JogZ(d)
  BY <1>1 DEF Jog, JogZ, KeyPhase, IndexInv
<1>2. CASE Cebai \/ Park \/ CorrectMotor
  BY <1>2 DEF Cebai, Park, CorrectMotor, KeyPhase, IndexInv
<1>3. CASE Mark
  <2>1. CASE AddMark
    BY <2>1 DEF AddMark, KeyPhase, IndexInv
  <2>2. CASE SwitchMode
    BY <2>2 DEF SwitchMode, KeyPhase, IndexInv
  <2>3. CASE MarkIgnored
    BY <2>3 DEF MarkIgnored, KeyPhase, IndexInv
  <2> QED
    BY <1>3, <2>1, <2>2, <2>3 DEF Mark
<1>4. CASE StartPause
  BY <1>4 DEF StartPause, Pause, Restart, FirstStart, Resume, StartIgnored, KeyPhase, IndexInv
<1>5. CASE \E d \in {1, -1} : ChangeTime(d)
  BY <1>5 DEF ChangeTime, KeyPhase, IndexInv
<1> QED
  BY <1>1, <1>2, <1>3, <1>4, <1>5 DEF Handle

LEMMA IndexStep ==
  ASSUME "clear" \notin LcdKeys, IInv, IndexInv, [Next]_vars
  PROVE  IndexInv'
<1>1. ASSUME NEW k \in LcdKeys, LcdKey(k) PROVE IndexInv'
  BY <1>1, IndexKeyStep DEF LcdKey, GoTo, KeyPhase
<1>2. ASSUME NEW k \in IrKeys, IrKey(k) PROVE IndexInv'
  <2>1. k # "clear"
    BY <1>2, KeysAssumption DEF IrCodes, Jogs
  <2> QED
    BY <1>2, <2>1, IndexKeyStep DEF IrKey, GoTo, KeyPhase
<1>3. CASE LcdNone \/ IrNone
  BY <1>3 DEF LcdNone, IrNone, NoKey, GoTo, IndexInv
<1>4. CASE ReturnDone
  BY <1>4 DEF ReturnDone, GoTo, IndexInv
<1>5. CASE ReturnPending \/ Idle \/ RunHover \/ RunMoving
  BY <1>5 DEF ReturnPending, Idle, RunHover, RunMoving, GoTo, IndexInv
<1>6. CASE PointExpired
  BY <1>6 DEF PointExpired, Running, GoTo, IndexInv
<1>7. CASE CycleDone
  BY <1>7 DEF CycleDone, GoTo, IndexInv
<1>8. CASE NextPoint
  BY <1>8 DEF NextPoint, AllPointsDone, GoTo, IndexInv
<1>9. CASE ManualControl \/ Tick \/ UNCHANGED vars
  BY <1>9 DEF ManualControl, Tick, vars, IndexInv
<1> QED
  BY <1>1, <1>2, <1>3, <1>4, <1>5, <1>6, <1>7, <1>8, <1>9 DEF Next, Loop

(* Without 0xE1 the loop always runs the session at an existing mark.      *)
THEOREM UnclearedRunsAtAMark ==
  ASSUME "clear" \notin LcdKeys
  PROVE  Spec => []RunsAtAMark
<1>1. Init => IndexInv
  BY DEF Init, IndexInv
<1>2. IInv /\ IndexInv /\ [Next]_vars => IndexInv'
  BY IndexStep
<1>3. IndexInv => RunsAtAMark
  BY DEF IndexInv, RunsAtAMark, Running
<1> QED
  BY <1>1, <1>2, <1>3, Invariance, PTL DEF Spec

-----------------------------------------------------------------------------
(* Every mark the session has left behind has had its whole time.  time+   *)
(* lengthens the time of marks already left, so it is excluded as well.    *)

Treated(i) == points[i].timer >= points[i].duration

TreatedInv ==
  ~cycle_complete => \A i \in Slots : i < current_point /\ i < point_count => Treated(i)

LEMMA TreatedKeyStep ==
  ASSUME IInv, IndexInv, TreatedInv, KeyPhase, NEW k, Handle(k), k \notin {"clear", "time+"}
  PROVE  TreatedInv'
<1>1. CASE \E d \in {1, -1} : Jog(d) \/ JogZ(d)
  BY <1>1 DEF Jog, JogZ, TreatedInv, Treated
<1>2. CASE Cebai \/ Park \/ CorrectMotor
  BY <1>2 DEF Cebai, Park, CorrectMotor, TreatedInv, Treated
<1>3. CASE Mark
  <2>1. CASE AddMark
    <3>1. CASE InRange(coord)
      <4>1. cycle_complete \/ current_point <= point_count
        BY DEF IndexInv, KeyPhase
      <4>2. /\ point_count' = point_count + 1 /\ UNCHANGED <<cycle_complete, current_point>>
            /\ \A i \in Slots : i # point_count => points'[i] = points[i]
        BY <2>1, <3>1 DEF AddMark
      <4> QED
        BY <4>1, <4>2 DEF TreatedInv, Treated, Slots
    <3>2. CASE ~InRange(coord)
      BY <2>1, <3>2 DEF AddMark, TreatedInv, Treated
    <3> QED
      BY <3>1, <3>2
  <2>2. CASE SwitchMode \/ MarkIgnored
    BY <2>2 DEF SwitchMode, MarkIgnored, TreatedInv, Treated
  <2> QED
    BY <1>3, <2>1, <2>2 DEF Mark
<1>4. CASE StartPause
  <2>1. CASE Restart
    BY <2>1 DEF Restart, TreatedInv, Slots
  <2>2. CASE Pause \/ FirstStart \/ Resume \/ StartIgnored
    BY <2>2 DEF Pause, FirstStart, Resume, StartIgnored, TreatedInv, Treated
  <2> QED
    BY <1>4, <2>1, <2>2 DEF StartPause
<1>5. CASE ChangeTime(-1)
  BY <1>5, DurationAssumption DEF ChangeTime, TreatedInv, Treated, Point
<1> QED
  BY <1>1, <1>2, <1>3, <1>4, <1>5 DEF Handle

LEMMA TreatedStep ==
  ASSUME "clear" \notin LcdKeys, "time+" \notin LcdKeys, IInv, IndexInv, TreatedInv, [Next]_vars
  PROVE  TreatedInv'
<1>1. ASSUME NEW k \in LcdKeys, LcdKey(k) PROVE TreatedInv'
  BY <1>1, TreatedKeyStep DEF LcdKey, GoTo, KeyPhase
<1>2. ASSUME NEW k \in IrKeys, IrKey(k) PROVE TreatedInv'
  <2>1. k \notin {"clear", "time+"}
    BY <1>2, KeysAssumption DEF IrCodes, Jogs
  <2> QED
    BY <1>2, <2>1, TreatedKeyStep DEF IrKey, GoTo, KeyPhase
<1>3. CASE LcdNone \/ IrNone \/ ReturnPending \/ Idle \/ RunHover \/ RunMoving
  BY <1>3 DEF LcdNone, IrNone, NoKey, ReturnPending, Idle, RunHover, RunMoving, TreatedInv, Treated
<1>4. CASE ReturnDone
  BY <1>4 DEF ReturnDone, TreatedInv, Treated, Slots, Point
<1>5. CASE PointExpired
  BY <1>5 DEF PointExpired, Expired, TreatedInv, Treated, Slots
<1>6. CASE CycleDone \/ NextPoint
  BY <1>6 DEF CycleDone, NextPoint, TreatedInv, Treated
<1>7. CASE Tick
  <2>1. ASSUME NEW i \in Slots
        PROVE  points'[i].timer >= points[i].timer /\ points'[i].duration = points[i].duration
    <3>1. points[i].timer \in Nat /\ points[i] \in Point
      BY DurationAssumption DEF Point
    <3>2. CASE Running /\ current_point \in Slots
      <4>1. points' = [points EXCEPT ![current_point].timer = IF @ < DURATION_MAX THEN @ + 1 ELSE @]
        BY <1>7, <3>2 DEF Tick, TickPoint
      <4> QED
        BY <3>1, <3>2, <4>1 DEF Point
    <3>3. CASE ~(Running /\ current_point \in Slots)
      BY <1>7, <3>1, <3>3 DEF Tick, TickPoint
    <3> QED
      BY <3>2, <3>3
  <2>2. UNCHANGED <<cycle_complete, current_point, point_count>>
    BY <1>7 DEF Tick
  <2>3. ASSUME NEW i \in Slots, points[i].timer >= points[i].duration
        PROVE  points'[i].timer >= points'[i].duration
    <3>1. /\ points[i].timer \in Nat /\ points[i].duration \in Nat
          /\ points'[i].timer \in Nat
      BY <1>7, TickStep, DurationAssumption DEF Point
    <3> QED
      BY <2>1, <2>3, <3>1
  <2> QED
    BY <2>2, <2>3 DEF TreatedInv, Treated
<1>8. CASE ManualControl \/ UNCHANGED vars
  BY <1>8 DEF ManualControl, vars, TreatedInv, Treated
<1> QED
  BY <1>1, <1>2, <1>3, <1>4, <1>5, <1>6, <1>7, <1>8 DEF Next, Loop

(* A cycle that completes has given every mark its whole time, for any     *)
(* number of marks and any pressing of the other keys.                     *)
THEOREM CompleteMeansTreated ==
  ASSUME "clear" \notin LcdKeys, "time+" \notin LcdKeys
  PROVE  Spec => FullTreatment
<1>1. Init => IndexInv /\ TreatedInv
  BY DEF Init, IndexInv, TreatedInv, Slots
<1>2. IInv /\ IndexInv /\ TreatedInv /\ [Next]_vars => IndexInv' /\ TreatedInv'
  BY IndexStep, TreatedStep
<1>3. ASSUME IInv, IndexInv, TreatedInv, [Next]_vars, ~cycle_complete, cycle_complete'
      PROVE  \A i \in Slots : i < point_count => points[i].timer >= points[i].duration
  <2>1. ASSUME NEW k, Handle(k) PROVE FALSE
    <3>1. UNCHANGED cycle_complete \/ cycle_complete' = FALSE
      BY <2>1 DEF Handle, Jog, JogZ, Cebai, Park, CorrectMotor, Mark, AddMark, SwitchMode,
                  MarkIgnored, StartPause, Pause, Restart, FirstStart, Resume, StartIgnored,
                  ChangeTime, Clear
    <3> QED
      BY <1>3, <3>1
  <2>2. CASE CycleDone
    BY <1>3, <2>2 DEF CycleDone, AllPointsDone, TreatedInv, Treated, Slots
  <2>3. UNCHANGED cycle_complete \/ CycleDone
    BY <1>3, <2>1 DEF Next, Loop, LcdKey, LcdNone, IrKey, IrNone, NoKey, ReturnDone, ReturnPending,
                      Idle, PointExpired, NextPoint, RunHover, RunMoving, ManualControl, Tick, vars
  <2> QED
    BY <1>3, <2>2, <2>3
<1>4. IInv /\ IndexInv /\ TreatedInv /\ [Next]_vars =>
        [~cycle_complete /\ cycle_complete' =>
           \A i \in Slots : i < point_count => points[i].timer >= points[i].duration]_vars
  BY <1>3
<1> QED
  BY <1>1, <1>2, <1>4, Invariance, PTL DEF Spec, FullTreatment

-----------------------------------------------------------------------------
(***************************************************************************)
(* A cycle that is complete is over, the arm is never at another mark, and *)
(* the session implements TreatmentPlan: for every number of marks, every  *)
(* duration and every delay the assumptions allow.                         *)
(*                                                                         *)
(* The first needs time: a return delay that would start the session again *)
(* cannot outlast the mark it leads to, because the time counted at that   *)
(* mark cannot run ahead of the delay by more than one iteration.          *)
(***************************************************************************)

Pending == return_in_progress /\ return_type \in {3, 4, 5}

PendingAtMark == Pending => current_point < point_count

(* The time counted at the mark while its return delay is pending; a delay *)
(* that is over is handled before the loop runs again.                     *)
PendingIsEarly ==
  /\ Pending /\ ~return_delay_flag => points[current_point].timer <= acc_return + MAX_LAG
  /\ Pending /\ pc = "run" => points[current_point].timer <= RETURN_DELAY + lag + MAX_LAG

LaterUntouched ==
  \A i \in Slots : current_point < i /\ i < point_count => points[i].timer = 0

HandOverIsEarly == pc = "expired" /\ current_point < point_count => points[current_point].timer <= lag

ExpiredRuns == pc = "expired" => start_flag /\ ~cycle_complete /\ ~Pending

CompleteIsOver == cycle_complete => ~Underway

OverInv ==
  /\ PendingAtMark /\ PendingIsEarly
  /\ LaterUntouched /\ HandOverIsEarly
  /\ ExpiredRuns /\ CompleteIsOver

USE DEF OverInv, Pending, PendingAtMark, PendingIsEarly, LaterUntouched, HandOverIsEarly,
        ExpiredRuns, CompleteIsOver, Underway
-----------------------------------------------------------------------------
(* The keys.                                                               *)

LEMMA OverMarkStep == IInv /\ OverInv /\ KeyPhase /\ Mark => OverInv'
<1> SUFFICES ASSUME IInv, OverInv, KeyPhase, Mark PROVE OverInv'
  OBVIOUS
<1>1. CASE AddMark
  <2>1. CASE InRange(coord)
    <3>1. /\ points' = [points EXCEPT ![point_count] = [timer |-> 0, duration |-> point_duration]]
          /\ point_count' = point_count + 1
          /\ point_count \in Slots
          /\ UNCHANGED <<session, ret>>
      BY <1>1, <2>1, CountsAssumption DEF AddMark, Slots
    <3>2. \A i \in Slots : points'[i].timer = IF i = point_count THEN 0 ELSE points[i].timer
      BY <3>1
    <3>3. LaterUntouched'
      BY <3>1, <3>2 DEF Slots
    <3>4. PendingAtMark'
      BY <3>1, CountsAssumption
    <3>5. PendingIsEarly'
      <4>1. Pending => current_point \in Slots /\ current_point # point_count
        BY CountsAssumption DEF Slots
      <4> QED
        BY <3>1, <3>2, <4>1 DEF KeyPhase
    <3> QED
      BY <3>1, <3>3, <3>4, <3>5 DEF KeyPhase
  <2>2. CASE ~InRange(coord)
    BY <1>1, <2>2 DEF AddMark, KeyPhase
  <2> QED
    BY <2>1, <2>2
<1>2. CASE SwitchMode
  BY <1>2 DEF SwitchMode, StartReturnDelay, KeyPhase
<1>3. CASE MarkIgnored
  BY <1>3 DEF MarkIgnored, KeyPhase
<1> QED
  BY <1>1, <1>2, <1>3 DEF Mark

LEMMA OverStartPauseStep == IInv /\ OverInv /\ KeyPhase /\ StartPause => OverInv'
<1> SUFFICES ASSUME IInv, OverInv, KeyPhase, StartPause PROVE OverInv'
  OBVIOUS
<1>1. CASE Pause
  BY <1>1 DEF Pause, KeyPhase
<1>2. CASE Restart
  <2>1. /\ \A i \in Slots : i < point_count => points'[i].timer = 0
        /\ current_point' = 0 /\ point_count' = point_count /\ point_count > 0
        /\ cycle_complete' = FALSE /\ return_delay_flag' = FALSE
    BY <1>2 DEF Restart, StartReturnDelay, Slots, Point
  <2>2. 0 \in Slots
    BY CountsAssumption DEF Slots
  <2>3. PendingIsEarly'
    BY <2>1, <2>2, CountsAssumption DEF KeyPhase
  <2> QED
    BY <2>1, <2>2, <2>3 DEF KeyPhase, Slots
<1>3. CASE FirstStart
  BY <1>3, CountsAssumption DEF FirstStart, CanFirstStart, CanRestart, StartReturnDelay, KeyPhase
<1>4. CASE Resume
  BY <1>4 DEF Resume, CanRestart, KeyPhase
<1>5. CASE StartIgnored
  BY <1>5 DEF StartIgnored, KeyPhase
<1> QED
  BY <1>1, <1>2, <1>3, <1>4, <1>5 DEF StartPause

LEMMA OverChangeTimeStep ==
  ASSUME IInv, OverInv, KeyPhase, NEW d \in {1, -1}, ChangeTime(d)
  PROVE  OverInv'
<1>1. \A i \in Slots : points'[i].timer = points[i].timer
  BY DEF ChangeTime, Point
<1>2. UNCHANGED <<point_count, session, ret>>
  BY DEF ChangeTime
<1>3. Pending => current_point \in Slots
  BY CountsAssumption DEF Slots
<1> QED
  BY <1>1, <1>2, <1>3 DEF KeyPhase

LEMMA OverKeyStep ==
  ASSUME IInv, OverInv, KeyPhase, NEW k, Handle(k)
  PROVE  OverInv'
<1>1. CASE \E d \in {1, -1} : Jog(d) \/ JogZ(d)
  BY <1>1 DEF Jog, JogZ, KeyPhase
<1>2. CASE Cebai \/ Park \/ CorrectMotor
  BY <1>2 DEF Cebai, Park, CorrectMotor, KeyPhase
<1>3. CASE Mark
  BY <1>3, OverMarkStep
<1>4. CASE StartPause
  BY <1>4, OverStartPauseStep
<1>5. CASE \E d \in {1, -1} : ChangeTime(d)
  BY <1>5, OverChangeTimeStep
<1>6. CASE Clear
  BY <1>6 DEF Clear, KeyPhase, Slots
<1> QED
  BY <1>1, <1>2, <1>3, <1>4, <1>5, <1>6 DEF Handle

-----------------------------------------------------------------------------
(* The loop and the interrupt.                                             *)

(* A mark cannot run out while the delay that leads to it is pending.      *)
LEMMA NotPendingAtExpiry == IInv /\ OverInv /\ PointExpired => ~Pending
<1> SUFFICES ASSUME IInv, OverInv, PointExpired, Pending PROVE FALSE
  OBVIOUS
<1>1. pc = "run" /\ current_point \in Slots /\ current_point < point_count
  BY CountsAssumption DEF PointExpired, GoTo, Slots
<1>2. points[current_point].timer <= RETURN_DELAY + 2 * MAX_LAG
  BY <1>1, CountsAssumption, DurationAssumption DEF Point
<1>3. points[current_point].duration >= DURATION_MIN
  BY <1>1, DurationAssumption
<1>4. points[current_point].timer >= points[current_point].duration
  BY DEF PointExpired, Expired
<1>5. points[current_point].timer \in Nat /\ points[current_point].duration \in Nat
  BY <1>1, DurationAssumption DEF Point
<1> QED
  BY <1>2, <1>3, <1>4, <1>5, CountsAssumption, DurationAssumption

LEMMA OverLoopStep == IInv /\ OverInv /\ Loop => OverInv'
<1> SUFFICES ASSUME IInv, OverInv, Loop PROVE OverInv'
  OBVIOUS
<1>1. ASSUME NEW k, LcdKey(k) \/ IrKey(k) PROVE OverInv'
  BY <1>1, OverKeyStep DEF LcdKey, IrKey, GoTo, KeyPhase
<1>2. CASE LcdNone \/ IrNone
  BY <1>2 DEF LcdNone, IrNone, NoKey, GoTo
<1>3. CASE ReturnDone
  <2>1. \A i \in Slots : points'[i].timer \in {0, points[i].timer}
    BY <1>3 DEF ReturnDone, Point
  <2>2. /\ UNCHANGED <<point_count, cycle_complete, current_point>>
        /\ ~return_in_progress' /\ pc' = "run"
        /\ start_flag' => start_flag \/ Pending
    BY <1>3 DEF ReturnDone, DelayOver, GoTo
  <2> QED
    BY <2>1, <2>2
<1>4. CASE ReturnPending
  <2>1. /\ UNCHANGED <<marks, session, ret, lag, acc_return>>
        /\ pc' = "run" /\ ~(return_in_progress /\ return_delay_flag)
    BY <1>4 DEF ReturnPending, DelayOver, GoTo
  <2>2. Pending => points[current_point].timer \in Nat
    BY CountsAssumption, DurationAssumption DEF Slots, Point
  <2>3. PendingIsEarly'
    BY <2>1, <2>2, CountsAssumption
  <2> QED
    BY <2>1, <2>3
<1>5. CASE Idle \/ RunHover \/ RunMoving
  BY <1>5 DEF Idle, RunHover, RunMoving, GoTo
<1>6. CASE PointExpired
  <2>1. /\ current_point' = current_point + 1 /\ pc' = "expired"
        /\ UNCHANGED <<start_flag, cycle_complete, marks, ret, lag>>
        /\ start_flag /\ ~cycle_complete
    BY <1>6 DEF PointExpired, GoTo, Running
  <2>2. ~Pending
    BY <1>6, NotPendingAtExpiry
  <2>3. HandOverIsEarly'
    <3>1. SUFFICES ASSUME current_point + 1 < point_count
                   PROVE  points[current_point + 1].timer <= lag
      BY <2>1
    <3>2. current_point + 1 \in Slots
      BY <3>1, CountsAssumption DEF Slots
    <3>3. points[current_point + 1].timer = 0
      BY <3>1, <3>2
    <3> QED
      BY <3>3, CountsAssumption
  <2>4. LaterUntouched'
    BY <2>1 DEF Slots
  <2> QED
    BY <2>1, <2>2, <2>3, <2>4
<1>7. CASE CycleDone
  BY <1>7 DEF CycleDone, GoTo
<1>8. CASE NextPoint
  <2>1. /\ current_point < point_count /\ pc = "expired" /\ pc' = "manual"
        /\ ~return_delay_flag' /\ ~cycle_complete'
        /\ UNCHANGED <<current_point, marks, lag, acc_return>>
    BY <1>8, CountsAssumption DEF NextPoint, AllPointsDone, StartReturnDelay, GoTo
  <2>2. points[current_point].timer \in Nat
    BY <2>1, CountsAssumption, DurationAssumption DEF Slots, Point
  <2>3. points[current_point].timer <= acc_return + MAX_LAG
    BY <2>1, <2>2, CountsAssumption
  <2>4. PendingIsEarly'
    BY <2>1, <2>3
  <2> QED
    BY <2>1, <2>4
<1>9. CASE ManualControl
  BY <1>9 DEF ManualControl
<1> QED
  BY <1>1, <1>2, <1>3, <1>4, <1>5, <1>6, <1>7, <1>8, <1>9 DEF Loop

LEMMA OverTickStep == IInv /\ OverInv /\ Tick => OverInv'
<1> SUFFICES ASSUME IInv, OverInv, Tick PROVE OverInv'
  OBVIOUS
<1>1. /\ UNCHANGED <<pc, point_count, session, return_in_progress, return_type>>
      /\ lag' = lag + 1 /\ lag' \in 0 .. MAX_LAG
  BY CountsAssumption DEF Tick
<1>2. ASSUME NEW i \in Slots
      PROVE  /\ points[i].timer \in Nat
             /\ points'[i].timer \in {points[i].timer, points[i].timer + 1}
             /\ i # current_point => points'[i].timer = points[i].timer
  <2>1. points[i] \in Point /\ points[i].timer \in Nat
    BY DurationAssumption DEF Point
  <2>2. CASE Running /\ current_point \in Slots
    <3>1. points' = [points EXCEPT ![current_point].timer = IF @ < DURATION_MAX THEN @ + 1 ELSE @]
      BY <2>2 DEF Tick, TickPoint
    <3> QED
      BY <2>1, <2>2, <3>1 DEF Point
  <2>3. CASE ~(Running /\ current_point \in Slots)
    BY <2>1, <2>3 DEF Tick, TickPoint
  <2> QED
    BY <2>2, <2>3
<1>3. LaterUntouched'
  BY <1>1, <1>2 DEF Slots
<1>4. HandOverIsEarly'
  <2>1. SUFFICES ASSUME pc = "expired", current_point < point_count
                 PROVE  points'[current_point].timer <= lag + 1
    BY <1>1
  <2>2. current_point \in Slots
    BY <2>1, CountsAssumption DEF Slots
  <2> QED
    BY <1>2, <2>1, <2>2
<1>5. PendingIsEarly'
  <2>1. CASE ~Pending
    BY <1>1, <2>1
  <2>2. CASE Pending
    <3>0. current_point \in Slots
      BY <2>2, CountsAssumption DEF Slots
    <3>1. /\ points[current_point].timer \in Nat /\ points'[current_point].timer \in Nat
          /\ points'[current_point].timer <= points[current_point].timer + 1
      BY <1>2, <3>0
    <3>2. ASSUME ~return_delay_flag'
          PROVE  ~return_delay_flag /\ acc_return' = acc_return + 1
      BY <2>2, <3>2 DEF Tick, TickReturn
    <3>3. ~return_delay_flag' => points'[current_point].timer <= acc_return' + MAX_LAG
      BY <1>2, <2>2, <3>1, <3>2, CountsAssumption
    <3>4. pc = "run" => points'[current_point].timer <= RETURN_DELAY + lag' + MAX_LAG
      BY <1>1, <1>2, <2>2, <3>1, CountsAssumption
    <3> QED
      BY <1>1, <3>3, <3>4
  <2> QED
    BY <2>1, <2>2
<1> QED
  BY <1>1, <1>3, <1>4, <1>5

LEMMA OverStutterStep == IInv /\ OverInv /\ UNCHANGED vars => OverInv'
<1> SUFFICES ASSUME IInv, OverInv, UNCHANGED vars PROVE OverInv'
  OBVIOUS
<1>1. UNCHANGED <<pc, lag, point_count, points, start_flag, cycle_complete, current_point,
                  return_in_progress, return_delay_flag, return_type, acc_return>>
  BY DEF vars
<1> QED
  BY <1>1

LEMMA OverInit == Init => OverInv
  BY DEF Init, Slots

(* A finished cycle is not also running, whatever is cleared, paused or    *)
(* switched, and no return delay is left that would start it again.        *)
LEMMA OverMeansStopped == OverInv => CompleteIsStopped
  BY DEF CompleteIsStopped

-----------------------------------------------------------------------------
(* The arm.                                                                *)

LEMMA ArmKeyStep ==
  ASSUME IInv, NeverAtAnotherMark, KeyPhase, NEW k, Handle(k)
  PROVE  NeverAtAnotherMark'
<1>1. CASE \E d \in {1, -1} : Jog(d) \/ JogZ(d) \/ ChangeTime(d)
  BY <1>1 DEF Jog, JogZ, ChangeTime, KeyPhase, NeverAtAnotherMark
<1>2. CASE Cebai \/ Park \/ CorrectMotor \/ Clear
  BY <1>2, ArmAssumption DEF Cebai, Park, CorrectMotor, Clear, KeyPhase, NeverAtAnotherMark
<1>3. CASE Mark
  BY <1>3 DEF Mark, AddMark, SwitchMode, MarkIgnored, StartReturnDelay, KeyPhase, NeverAtAnotherMark
<1>4. CASE StartPause
  <2>1. CASE Restart \/ FirstStart
    <3>1. arm' = 0 /\ current_point' = 0
      BY <2>1 DEF Restart, FirstStart, CanFirstStart, StartReturnDelay
    <3> QED
      BY <3>1 DEF NeverAtAnotherMark
  <2>2. CASE Pause \/ Resume \/ StartIgnored
    BY <2>2 DEF Pause, Resume, StartIgnored, KeyPhase, NeverAtAnotherMark
  <2> QED
    BY <1>4, <2>1, <2>2 DEF StartPause
<1> QED
  BY <1>1, <1>2, <1>3, <1>4 DEF Handle

LEMMA ArmStep == IInv /\ NeverAtAnotherMark /\ [Next]_vars => NeverAtAnotherMark'
<1> SUFFICES ASSUME IInv, NeverAtAnotherMark, [Next]_vars PROVE NeverAtAnotherMark'
  OBVIOUS
<1>1. ASSUME NEW k, LcdKey(k) \/ IrKey(k) PROVE NeverAtAnotherMark'
  BY <1>1, ArmKeyStep DEF LcdKey, IrKey, GoTo, KeyPhase
<1>2. CASE LcdNone \/ IrNone \/ ReturnDone \/ ReturnPending \/ Idle
  BY <1>2 DEF LcdNone, IrNone, NoKey, ReturnDone, ReturnPending, Idle, GoTo, NeverAtAnotherMark
<1>3. CASE PointExpired
  BY <1>3 DEF PointExpired, GoTo, NeverAtAnotherMark
<1>4. CASE CycleDone
  BY <1>4, ArmAssumption DEF CycleDone, NeverAtAnotherMark
<1>5. CASE NextPoint
  <2>1. current_point < point_count
    BY <1>5, CountsAssumption DEF NextPoint, AllPointsDone
  <2> QED
    BY <1>5, <2>1 DEF NextPoint, StartReturnDelay, NeverAtAnotherMark
<1>6. CASE RunHover \/ RunMoving
  BY <1>6 DEF RunHover, RunMoving, GoTo, NeverAtAnotherMark
<1>7. CASE ManualControl
  BY <1>7, ArmAssumption DEF ManualControl, NeverAtAnotherMark
<1>8. CASE Tick \/ UNCHANGED vars
  BY <1>8 DEF Tick, vars, NeverAtAnotherMark
<1> QED
  BY <1>1, <1>2, <1>3, <1>4, <1>5, <1>6, <1>7, <1>8 DEF Next, Loop

LEMMA ArmInit == Init => NeverAtAnotherMark
  BY ArmAssumption DEF Init, NeverAtAnotherMark

-----------------------------------------------------------------------------
(* The plan.  Marks are made before the first start only, since nothing    *)
(* but 0xE1 sets biji_flag again.                                          *)

BeforeStart ==
  biji_flag => /\ ~start_flag /\ ~return_in_progress /\ ~cycle_complete
               /\ current_point = 0
               /\ \A i \in Slots : points[i].timer = 0

LEMMA BeforeStartKeyStep ==
  ASSUME IInv, BeforeStart, KeyPhase, NEW k, Handle(k), k # "clear"
  PROVE  BeforeStart'
<1>1. CASE \E d \in {1, -1} : Jog(d) \/ JogZ(d)
  BY <1>1 DEF Jog, JogZ, BeforeStart
<1>2. CASE Cebai \/ Park \/ CorrectMotor
  BY <1>2 DEF Cebai, Park, CorrectMotor, BeforeStart
<1>3. CASE Mark
  <2>1. CASE AddMark
    <3>1. /\ \A i \in Slots : points'[i].timer \in {0, points[i].timer}
          /\ UNCHANGED <<biji_flag, session, return_in_progress>>
      <4>1. CASE InRange(coord)
        <5>1. points' = [points EXCEPT ![point_count] = [timer |-> 0, duration |-> point_duration]]
          BY <2>1, <4>1 DEF AddMark
        <5> QED
          BY <2>1, <5>1 DEF AddMark
      <4>2. CASE ~InRange(coord)
        BY <2>1, <4>2 DEF AddMark
      <4> QED
        BY <4>1, <4>2
    <3> QED
      BY <3>1 DEF BeforeStart
  <2>2. CASE SwitchMode \/ MarkIgnored
    BY <2>2 DEF SwitchMode, MarkIgnored, BeforeStart
  <2> QED
    BY <1>3, <2>1, <2>2 DEF Mark
<1>4. CASE StartPause
  <2>1. CASE Restart \/ FirstStart
    BY <2>1 DEF Restart, FirstStart, BeforeStart
  <2>2. CASE Pause
    BY <2>2 DEF Pause, BeforeStart
  <2>3. CASE Resume
    <3>1. ~biji_flag
      BY <2>3, CountsAssumption DEF Resume, CanRestart, CanFirstStart, BeforeStart, Slots
    <3> QED
      BY <2>3, <3>1 DEF Resume, BeforeStart
  <2>4. CASE StartIgnored
    BY <2>4 DEF StartIgnored, BeforeStart
  <2> QED
    BY <1>4, <2>1, <2>2, <2>3, <2>4 DEF StartPause
<1>5. CASE \E d \in {1, -1} : ChangeTime(d)
  <2>1. /\ \A i \in Slots : points'[i].timer = points[i].timer
        /\ UNCHANGED <<biji_flag, session, return_in_progress>>
    BY <1>5 DEF ChangeTime, Point
  <2> QED
    BY <2>1 DEF BeforeStart
<1> QED
  BY <1>1, <1>2, <1>3, <1>4, <1>5 DEF Handle

LEMMA BeforeStartStep ==
  ASSUME "clear" \notin LcdKeys, IInv, OverInv, BeforeStart, [Next]_vars
  PROVE  BeforeStart'
<1>1. ASSUME NEW k \in LcdKeys, LcdKey(k) PROVE BeforeStart'
  BY <1>1, BeforeStartKeyStep DEF LcdKey, GoTo, KeyPhase
<1>2. ASSUME NEW k \in IrKeys, IrKey(k) PROVE BeforeStart'
  <2>1. k # "clear"
    BY <1>2, KeysAssumption DEF IrCodes, Jogs
  <2> QED
    BY <1>2, <2>1, BeforeStartKeyStep DEF IrKey, GoTo, KeyPhase
<1>3. CASE LcdNone \/ IrNone \/ ReturnPending \/ Idle
  BY <1>3 DEF LcdNone, IrNone, NoKey, ReturnPending, Idle, BeforeStart
<1>4. CASE ReturnDone
  BY <1>4 DEF ReturnDone, DelayOver, BeforeStart
<1>5. CASE PointExpired \/ RunHover \/ RunMoving
  BY <1>5 DEF PointExpired, RunHover, RunMoving, Running, BeforeStart
<1>6. CASE CycleDone \/ NextPoint
  BY <1>6 DEF CycleDone, NextPoint, GoTo, BeforeStart
<1>7. CASE ManualControl \/ UNCHANGED vars
  BY <1>7 DEF ManualControl, vars, BeforeStart
<1>8. CASE Tick
  BY <1>8 DEF Tick, TickPoint, Running, BeforeStart
<1> QED
  BY <1>1, <1>2, <1>3, <1>4, <1>5, <1>6, <1>7, <1>8 DEF Next, Loop

(* Every step of the session is a step of the plan, or leaves it alone.    *)
LEMMA PlanKeyStep ==
  ASSUME IInv, IndexInv, OverInv, BeforeStart, KeyPhase, NEW k, Handle(k), k # "clear"
  PROVE  [Treatment!PlanNext]_Treatment!planVars
<1>1. CASE \E d \in {1, -1} : Jog(d) \/ JogZ(d) \/ ChangeTime(d)
  BY <1>1 DEF Jog, JogZ, ChangeTime, Treatment!planVars
<1>2. CASE Cebai \/ Park \/ CorrectMotor
  BY <1>2 DEF Cebai, Park, CorrectMotor, Treatment!planVars
<1>3. CASE Mark
  <2>1. CASE AddMark
    BY <2>1 DEF AddMark, BeforeStart, Treatment!PlanNext, Treatment!Plan, Treatment!planVars
  <2>2. CASE SwitchMode
    BY <2>2 DEF SwitchMode, StartReturnDelay, Treatment!planVars
  <2>3. CASE MarkIgnored
    BY <2>3 DEF MarkIgnored, Treatment!planVars
  <2> QED
    BY <1>3, <2>1, <2>2, <2>3 DEF Mark
<1>4. CASE StartPause
  <2>1. CASE Pause
    <3>1. start_flag /\ ~cycle_complete /\ current_point < point_count
      BY <2>1 DEF Pause, IndexInv, KeyPhase
    <3> QED
      BY <2>1, <3>1 DEF Pause, Treatment!PlanNext, Treatment!Stop, Treatment!planVars
  <2>2. CASE Restart
    <3>1. /\ point_count > 0 /\ ~Underway /\ cycle_complete
          /\ Underway' = TRUE /\ cycle_complete' = FALSE /\ current_point' = 0
          /\ UNCHANGED point_count
      BY <2>2 DEF Restart, CanRestart, StartReturnDelay
    <3> QED
      BY <3>1 DEF Treatment!PlanNext, Treatment!Begin
  <2>3. CASE FirstStart
    <3>1. /\ point_count > 0 /\ ~cycle_complete /\ Underway' = TRUE
          /\ UNCHANGED <<session, point_count>>
      BY <2>3 DEF FirstStart, CanFirstStart, CanRestart, StartReturnDelay
    <3> QED
      BY <3>1 DEF Treatment!PlanNext, Treatment!Begin, Treatment!planVars
  <2>4. CASE Resume
    <3>1. /\ point_count > 0 /\ ~cycle_complete /\ Underway' = TRUE
          /\ UNCHANGED <<cycle_complete, current_point, point_count>>
      BY <2>4 DEF Resume, CanRestart
    <3> QED
      BY <3>1 DEF Treatment!PlanNext, Treatment!Begin, Treatment!planVars
  <2>5. CASE StartIgnored
    BY <2>5 DEF StartIgnored, Treatment!planVars
  <2> QED
    BY <1>4, <2>1, <2>2, <2>3, <2>4, <2>5 DEF StartPause
<1> QED
  BY <1>1, <1>2, <1>3, <1>4 DEF Handle

LEMMA PlanStep ==
  ASSUME "clear" \notin LcdKeys, IInv, IndexInv, OverInv, BeforeStart, [Next]_vars
  PROVE  [Treatment!PlanNext]_Treatment!planVars
<1>1. ASSUME NEW k \in LcdKeys, LcdKey(k) PROVE [Treatment!PlanNext]_Treatment!planVars
  BY <1>1, PlanKeyStep DEF LcdKey, GoTo, KeyPhase
<1>2. ASSUME NEW k \in IrKeys, IrKey(k) PROVE [Treatment!PlanNext]_Treatment!planVars
  <2>1. k # "clear"
    BY <1>2, KeysAssumption DEF IrCodes, Jogs
  <2> QED
    BY <1>2, <2>1, PlanKeyStep DEF IrKey, GoTo, KeyPhase
<1>3. CASE LcdNone \/ IrNone \/ ReturnPending \/ Idle \/ RunHover \/ RunMoving
  BY <1>3 DEF LcdNone, IrNone, NoKey, ReturnPending, Idle, RunHover, RunMoving, Treatment!planVars
<1>4. CASE ReturnDone
  <2>1. Underway' = Underway
    BY <1>4 DEF ReturnDone, DelayOver
  <2> QED
    BY <1>4, <2>1 DEF ReturnDone, Treatment!planVars
<1>5. CASE PointExpired
  <2>1. /\ Underway /\ Underway' = TRUE /\ current_point < point_count
        /\ current_point' = current_point + 1 /\ UNCHANGED <<point_count, cycle_complete>>
    BY <1>5 DEF PointExpired, Running, GoTo, IndexInv
  <2> QED
    BY <2>1 DEF Treatment!PlanNext, Treatment!Serve
<1>6. CASE CycleDone
  <2>1. /\ Underway /\ Underway' = FALSE /\ current_point = point_count
        /\ cycle_complete' = TRUE /\ UNCHANGED <<current_point, point_count>>
    BY <1>6, CountsAssumption DEF CycleDone, AllPointsDone, GoTo, IndexInv
  <2> QED
    BY <2>1 DEF Treatment!PlanNext, Treatment!Finish
<1>7. CASE NextPoint
  <2>1. Underway /\ Underway' = TRUE /\ UNCHANGED <<point_count, current_point, cycle_complete>>
    BY <1>7 DEF NextPoint, StartReturnDelay, GoTo
  <2> QED
    BY <2>1 DEF Treatment!planVars
<1>8. CASE ManualControl \/ Tick \/ UNCHANGED vars
  BY <1>8 DEF ManualControl, Tick, vars, Treatment!planVars
<1> QED
  BY <1>1, <1>2, <1>3, <1>4, <1>5, <1>6, <1>7, <1>8 DEF Next, Loop

LEMMA PlanInits == Init => IndexInv /\ BeforeStart /\ Treatment!PlanInit
  BY DEF Init, IndexInv, BeforeStart, Slots, Treatment!PlanInit

-----------------------------------------------------------------------------
(* The theorems.                                                           *)

HIDE DEF IInv, OverInv

LEMMA OverInvariance == Spec => []OverInv
<1>1. IInv /\ OverInv /\ [Next]_vars => OverInv'
  BY OverStutterStep, OverLoopStep, OverTickStep DEF Next
<1> QED
  BY OverInit, <1>1, Invariance, PTL DEF Spec

(* A finished cycle is not also running, whatever is cleared, paused or    *)
(* switched: no return delay that would start it again can outlast the     *)
(* mark it leads to.                                                       *)
THEOREM CompleteStays == Spec => []CompleteIsStopped
  BY OverInvariance, OverMeansStopped, PTL

(* The arm is never sent to a mark other than the one being timed; with    *)
(* 0xE1 pressed at any moment, too.                                        *)
THEOREM ArmAtItsMark == Spec => []NeverAtAnotherMark
  BY ArmInit, ArmStep, Invariance, PTL DEF Spec

(* Unless 0xE1 is pressed the session keeps the promise of TreatmentPlan:  *)
(* the marks are served in order, none twice and none skipped, a session   *)
(* that was stopped goes on where it was, and the cycle is complete, and   *)
(* over, when the last mark was served.                                    *)
THEOREM SessionImplementsPlan ==
  ASSUME "clear" \notin LcdKeys
  PROVE  Spec => KeepsThePlan
<1>1. IInv /\ IndexInv /\ [Next]_vars => IndexInv'
  BY IndexStep
<1>2. IInv /\ OverInv /\ BeforeStart /\ [Next]_vars => BeforeStart'
  BY BeforeStartStep
<1>3. IInv /\ IndexInv /\ OverInv /\ BeforeStart /\ [Next]_vars
        => [Treatment!PlanNext]_Treatment!planVars
  BY PlanStep
<1> QED
  BY PlanInits, <1>1, <1>2, <1>3, Invariance, OverInvariance, PTL
  DEF Spec, KeepsThePlan, Treatment!PlanSpec
=============================================================================
