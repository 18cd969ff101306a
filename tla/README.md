# Verification of the CH32V30RCT6 robotic arm firmware

TLA+ models, model checking and proofs for the control program under
`src/CAN/Networking`. Paths below are relative to that directory; `new.c` is
`NEW/new.c`.

- [The system](#the-system)
- [Modules](#modules)
- [Runs](#runs)
- [Proofs](#proofs)
- [Where the code differs from what it says](#where-the-code-differs-from-what-it-says)
- [Not modelled](#not-modelled)
- [Plan](#plan)

## The system

The arm holds a heat source over a patient. The operator jogs it with a panel
or an infrared remote, marks up to five points, and starts a *session*: the arm
visits the marks in order, stays two to ten minutes at each, hovers or moves in
one of three patterns, and parks at the end. `main.c` initialises the
peripherals and enters `rb_test08` (new.c:759-1476), an endless loop. Everything
else is interrupts. There is no operating system: the loop and the interrupts
share global variables, most of them without any protection.

| Part | State | Operations | Talks to |
|---|---|---|---|
| Session (new.c:569-1475) | marks, `start_flag`, `cycle_complete`, `current_point`, four mode flags, three step timers, the return delay, jog coordinates | panel and remote keys; end of a return delay; expiry of a mark; motion step; manual control | everything below |
| 100 ms interrupt `TIM3_IRQHandler` (new.c:318-400) | accumulators, `point_timer`, `flame_flag`, step flags, `return_delay_flag` | flame time-out, step timers, return delay, time at the mark; calls `RGB_RUN`, `yunyin_run` | the session, by shared variables |
| Status light (new.c:132-148, 204-261) | mode, saved mode, out-of-range flag, blink counters | set by handlers and loop, saved and restored on leaving and entering the range, blinked by the interrupt | LED |
| Voice prompts (new.c:262-316) | requested and last prompt, `OK_flag`, 3 s counter, nine lines | requests by handlers, playing by the interrupt | player chip |
| Key links (uart.c, lcd.c, ir.c) | `lcd_cmd`, `ir_command`: one byte each | written by an interrupt, tested, read and cleared by the loop | session |
| Infrared decoder (ir.c, tim.c, exti.c) | `state`, `bitCount`, `bits`, 125 us counter | one callback per edge | key link |
| Motor commands (step.c, bldc.c, can.c) | three transmit mailboxes | send a frame and poll; two frames per stepper command | CAN bus, six motors |
| Gyroscope link (uart_dma.c, wt61.c) | two DMA buffers, a ring of 1024 bytes, a parse buffer of 128 | two interrupts push, `get_angle` pops and parses | pitch loop |
| Range sensor (tof.c, uart.c) | a 13-byte window, a limiter, a moving average | interrupt fills the window, loop parses and filters | height compensation |
| Motion patterns, height compensation (new.c:156-196, 600-741) | height, baseline and pose of each mark, place in the stroke, last compensated distance | one step per step flag; height keys edit the mark of a running session | kinematics, motors |
| Pitch loop, kinematics, panel output, LED and pin drivers, bring-up | | | |

What makes it hard:

- **Interleaving.** The 100 ms interrupt reads and writes session variables
  between any two statements of the loop; key interrupts write the mailboxes;
  the UART and DMA interrupts update `RemainCount`, which the loop decrements.
- **Delays that outlive their reason.** A return delay (6 s) is a flag, a type
  and an accumulator. While it counts, the operator may pause, resume, switch
  modes, clear, mark again; its end acts on whatever it finds.
- **State that outlives its session.** Clear resets most variables, not all.
- **Time-outs.** The flame (252 s), the stay, the prompt (3 s), the CAN polling
  limit: each races what it guards.
- **Limits.** Five marks in `points[5]`, a mailbox of one key, three transmit
  mailboxes, a ring of 1024 bytes, a parse buffer of 128.

What makes it correct: a session has marks, runs at one of them, gives each its
whole time and ends; the flame burns only inside a session and goes out; one
step timer runs, that of the selected mode; the durations of all marks are the
one shown; keys are handled once and in order; a disturbed infrared frame never
becomes another key; motors get whole commands in order; the light and the
voice say what the arm does; the ring loses nothing it accepted; angles and
distances are taken in the order they were sent, each once; marks are treated
in order, none skipped; the arm stays over its mark and within its limits.

`PROJECT.json` lists every part under "components" and everything that is hard
to test, with its line, under "hazards".

## Modules

| Module | Models | State and actions against the code |
|---|---|---|
| `TreatmentPlan` | *abstract:* the marks of a cycle are served one after the other, none skipped, none twice | |
| `RbControl` | session and 100 ms interrupt; implements `TreatmentPlan` | variables have the names of the code; four mode flags are one `mode`, three timer and step flags are the sets `timer_running` and `move_flag`. `pc` is the phase of the loop: panel key, remote key, return delay, run logic, the window after `current_point++`, manual control. Each key handler is an action; `Tick` is the interrupt. `arm` is the mark the arm was last sent to. |
| `ArmMotion` | poses of the marks, steps of the four modes, height keys, compensation | the session of `RbControl` without its clocks; `run_hover`, `run_lr`, `run_circle`, `run_ud` are the functions; `J` is what `J1_global` to `J5_global` stand for, `goal` what the motors were told |
| `RbLight` | status light over `RbControl` | each action is one of `RbControl` together with what that handler does to the light; `RgbRun` is `RGB_RUN` |
| `RbVoice` | prompts over `RbControl` | likewise, except that the switch of the mode is two steps: `BeginSwitch` is `switch_mode`, `SayMode` the assignment of `YUYIN_FLAG` after it, and the interrupt comes in between; `StartPrompt`, `CountPrompt`, `EndPrompt` are the branches of `yunyin_run` |
| `KeyDelivery` | *abstract:* presses of a source are handled in order, each at most once | |
| `KeyLinks` | the two key mailboxes | one action per access of a mailbox: test, read, clear for the panel; read, handle, clear for the remote; `Press` is the interrupt |
| `NecDecoder` | infrared decoder | `Edge` is one falling edge of `IR_EXTI_Callback`; the remote and one disturbance per frame are the environment |
| `MotorBus` | motor commands on CAN | `Transmit` is `CAN_Transmit`, `SendOk` and `SendFailed` the two results of `CAN_Send_Msg`; `OnBus` is the controller and the bus |
| `GyroLink` | DMA, ring buffer, the loop of `get_angle` | one action per access of `RemainCount`, so that `ring_buffer_pop`'s decrement is a load and a store; `HandOver` is both interrupts. `Copy` stores to `g_rx_data_buffer` or, behind it, to the ring, where the linker put it; `copied` counts on and `count` is the `u8` made of it |
| `GyroAngle` | `GyroLink` with the bytes `get_angle` copies and `parse_wt_protocol` | `Parsed` is the parser, `angle` the frame the angles are from |
| `RangeLink` | window of the range sensor | `new_tof` has one action per access of what the interrupt also touches: `TofTest`, `TofScan`, then length, flag and bytes are reset, in the order of the code |
| `RangeFilter` | limiter and moving average | `limit_filter` and `filtered_tof` are the functions |
| `RangeSensor` | `filtered_tof` over the link | |
| `MC*` | constants for TLC | |
| `RbControlProofs`, `LightAndVoiceProofs`, `KeyLinksProofs`, `MotorBusProofs`, `GyroProofs`, `RangeSensorProofs`, `ArmMotionProofs`, `NecDecoderProofs` | theorems | |

`RbLight` and `RbVoice` compose with `RbControl`: their next-state relations
conjoin its actions with their own, so that every behaviour of theirs is one of
`RbControl`, which is proved. They do not constrain each other and are checked
apart. `GyroAngle` composes with `GyroLink` in the same way, and
`RangeSensor` is the composition of `RangeLink` and `RangeFilter`: the filter
acts when the link has finished a call. `KeyLinks` implements `KeyDelivery`,
whose keys are what `RbControl`'s `LcdKey` and `IrKey` take from `LcdKeys` and
`IrKeys`. What `RangeSensor` returns is what `ArmMotion` lets the sensor say
(`Distances`): any value while the arm or the filter is on its way, the height
over the ground when both have come to rest.

### Abstractions

- A key handler and a phase of the loop are atomic towards `Tick`, with two
  exceptions. The statements between `current_point++` and `start_flag = 0`
  (new.c:1368-1377) are two steps, since the interrupt computes an index from
  what they leave in between. The switch of the mode (new.c:925-928) is two
  steps in `RbVoice`: the mode is written, printed and sent to the motors before
  `YUYIN_FLAG` is, and `yunyin_run` reads both. It may even come between the
  four mode flags, with none of them set or two (`Follower`). In the other
  handlers an interrupt meets flags of which some are already written; what that
  can do has not been checked.
- Time is counted in ticks and scaled: what matters is that two iterations and
  a return delay are shorter than a stay (6 s against 2 min;
  `DurationAssumption`), and that the flame may go out before or after a stay.
  `MAX_LAG` bounds the ticks one iteration may take.
- X, Y and Z are one jog axis with limits at both ends. A pose is the mark it
  belongs to, `Manual` or `Parked`. A jog of Z in a running session changes the
  height of the mark and leaves `coord` alone.
- In `RbControl` the pattern, its interpolation and the height compensation
  decide where a step goes, not whether there is one. `RunHover` may or may not
  move the arm, since the compensation may be zero.
- In `ArmMotion` only heights are numbers; a sideways place is the centre, an
  end of the stroke or the circle. Any of the offsets of an up and down stroke
  may be next. A compensation may always be suppressed: whether it is depends on
  a distance the code keeps in a static variable, possibly of another mark. A
  mark may expire at any moment of a running session in which the first mark has
  been given some time. A return ends when the arm has arrived and the filter
  has followed (6 s are enough for both), or at any moment if something else
  was commanded meanwhile. Marks are not cleared. With `HASTY` FALSE the operator
  waits until the arm has come to rest before making a mark.
- In `RangeLink` a byte is the number of its reply and its place in it; the
  checksum is right when the bytes are one reply. Bytes are not damaged on the
  way: the sensor is wired to the board. (A reply with a wrong checksum would be
  returned as 0, for which the filter has its last value, even if the window
  holds a good one behind it: tof.c:333.) In `RangeFilter` the code's floats are whole numbers of a small unit
  and an average is rounded down.
- In `GyroAngle` a byte is its number in the stream, the three angles are one
  frame of a packet of three, and a checksum is right when the bytes are one
  frame.
- `points[MAX_POINTS]` lies outside the array: accesses at that index change
  none of the modelled variables.
- What lies behind `g_rx_data_buffer` is a matter of the linker. `GyroLink` has
  the layout of the build kept with the source (`obj/Networking.map`):
  `g_rx_data_buffer` at 0x20000460, 128 bytes long, `ring_buffer` at 0x200004e0,
  the bytes of the ring first and its positions 1024 bytes later. The index is a
  `u8`, so a copy reaches the first 128 slots of the ring and no further, and
  starts anew at 256.

## Runs

Checked with TLC, with deadlock checking unless said. Each finishes in a few
minutes.

| Run | Question | Bounds |
|---|---|---|
| `every_key` | With every key of both sources in one iteration and the interrupt in between: `TypeOK`; `SessionNeedsMarks`; `TimersFollowMode`; `FlameInSession`; `CompleteIsStopped`; `DurationsAgree` | one mark, durations 4 and 5, intervals 2, 1, 1, flame 6 |
| `treatment` | `KeepsThePlan`: `RbControl` implements `TreatmentPlan`; `RunsAtAMark`, `NeverAtAnotherMark`, `SessionNotLost`, `FullTreatment`, and under fairness `RunEnds`, `FlameGoesOut`, `SessionCompletes` | two marks, duration 4, keys jog, mark (also the mode switch), start (also pause) |
| `light` | `RedMeansOutside`: red shows only at or beyond a limit | one mark, jogs from both sources, clear |
| `voice` | `OnePrompt`; `SaysTheMode`: the prompt of a mode that is asked for is that of the selected one, or of the one being left until the last statement of a switch; `BusyAdvances` | one mark, every key that speaks, the interrupt also within a switch |
| `key_links` | `InOrderOnce`: `KeyLinks` implements `KeyDelivery`; under fairness `WaitingIsHandled`: a press is lost only by coming while its mailbox is about to be cleared, or by the next press of its source; every other press is handled | five presses of each source |
| `nec_decoder` | `NeverAnotherKey`, `CleanFrameDecoded` | bytes of three bits, two addresses, every command, one disturbance anywhere in each frame, one tick of error |
| `motor_bus` | `AcceptedStays`, `DoneIsSent`, `OrderedUnlessFailed`, and under fairness `SendReturns` | one motor of each kind, five commands |
| `gyro_ring` | `RingIsQueue`: until a decrement is torn, the ring counts what it holds and, until a store behind `g_rx_data_buffer` hits an unread slot, holds it in order; `NeverAhead` always; `AnglesAdvance`: no frame is parsed twice or after a later one while the ring is a queue | frames of 2 bytes, packets of 6, ring of 9, buffers of 6, an index of 0 to 7, fifteen bytes |
| `range` | `WindowHoldsAReply`: a window that lost no byte yields a distance; `DistancesAdvance`: none is taken twice or after a later one; `FilterInHull`: a full filter returns nothing beyond what it was given | replies of 3 bytes, windows of 5, the loop starting anywhere in the stream, fifteen replies, distances at both ends and one beyond |
| `arm_motion` | `StillGround`, `MarkKeepsItsGround`, `WithinLimits` | two marks, heights 0 to 3, the ground rises once at any moment, strokes of one unit, two distances while the arm travels |
| `stale_point_after_clear`, `pause_overridden` | each finds one disagreement of code and comment, see below | two marks |

*Why the bounds are enough.* Two marks have a first, a last, a hand-over and an
end; a third adds another hand-over of the same kind. One mark with all keys has
every interleaving of handlers, delay, expiry and interrupt; that the same
invariants hold for any number of marks is proved. A press in the mailbox, one
in the loop's hands and one on the way are three; five leave two more. Three bits
distinguish a flip, a doubled and a lost bit at the edge and in the middle of a
byte. Four frames waiting exceed the three mailboxes; five commands of up to
two frames reach that in every order. Fifteen bytes pass a ring of nine with
wraps inside a push, a full ring and dropped bytes, and bring two whole packets
and the beginning of a third, so that a copy can begin inside one. An index of 0
to 7 reaches two slots behind the buffer and starts anew within one copy, which
is then parsed. A window of
two replies less a byte is the smallest that always holds one; fifteen replies
pass it more often than the filter needs to fill and to drop its oldest value.
Four heights have two inside the limits, so that an edit can meet a limit or
not, and a compensation, a stroke or both can carry the arm past a limit. The ground
rises by one unit at any moment.

*Every named bound:* `MAX_POINTS`, `DURATION_*`, `RETURN_DELAY`, `FLAME_TIME`,
`INTERVAL`, `COORD_MAX`, `MAX_LAG`, `LED_HALF`, `PROMPT`, `FRAME`,
`RING_BUFFER_LEN`, `RX_BUFFER_LEN`, `COUNT_RANGE` (an index of 8 bits: 256),
`REPLY`, `WINDOW`, `SCAN`, `MAX_DISTANCE`, `MAX_ALLOWED_CHANGE`, `Z_*`,
`BASELINE_*`, `DEAD_BAND`, `MAX_COMPENSATION` scale values of the code.
`MAX_PRESSES`, `MAX_COMMANDS`, `MAX_BYTES`, `MAX_REPLIES`, `MAX_MOVES`,
`Grounds`, `GROUND_START`, `Passing` and `Distances` bound the environment only and have no
counterpart. `motor_bus` and `range` switch deadlock checking off: with no
command left to give or no reply left to send, the system really has nothing
more to do.

*Fairness.* `Spec` has weak fairness of `Loop` and of `Tick`. No phase of the
loop blocks: every wait in it has a limit (`SendReturns` shows it for the only
one that depends on other hardware). The timer runs free and its interrupt is
never masked for good. Keys have no fairness: nobody owes a press.
`SessionCompletes` is conditional on the operator leaving the keys alone from
some time on. `KSpec` has weak fairness of the loop, whose mailbox accesses and
handlers all return, and none of the presses. `MotorBus` assumes fairness of the polling loop only, not of the
bus: a send returns although the bus is dead.

Each property of a passing run has a mutant in `PROJECT.json`: a definition of
the model, changed the way a slip in that code would change it, under which the
run fails.

## Proofs

Each of the eight `*Proofs` modules is checked by `tlapm`. The theorems hold for
every value of the constants under the named assumptions of the modules:
positive counts (`CountsAssumption`), durations on a grid of steps that meets
both limits and stays longer than a return delay and two iterations
(`DurationAssumption`; 2, 7 and 10 minutes, one minute, 6 s), keys that are
keys (`KeysAssumption`), `Manual` and `Parked` that are no marks
(`ArmAssumption`); a window of two replies or a byte less, searched at least a
reply far (`LinkAssumption`); a packet that fits the parse buffer
(`FrameAssumption`), whose index reaches no further than the ring behind it
(`GyroAssumption`); a lower limit of height below the upper one and a start
between them (`MotionAssumption`); addresses that are bytes (`NecAssumption`).

| Module | Theorem | Says |
|---|---|---|
| `RbControlProofs` | `Invariance` | `Spec => []IInv` |
| | `TypeCorrect`, `DurationsAlwaysAgree`, `SessionsHaveMarks`, `OneStepTimer`, `FlameIsTimed` | the invariants of `every_key`, for any number of marks and any keys |
| | `SessionsSurvive` | `SessionNotLost` |
| | `UnclearedRunsAtAMark` | `RunsAtAMark`, when clear is not among the keys |
| | `CompleteMeansTreated` | `FullTreatment`, when neither clear nor time+ is among the keys |
| | `CompleteStays` | `CompleteIsStopped`, with every key |
| | `ArmAtItsMark` | `NeverAtAnotherMark`, with every key |
| | `SessionImplementsPlan` | `KeepsThePlan`, when clear is not among the panel's keys (the remote has none) |
| `LightAndVoiceProofs` | `LightKeepsSession`, `VoiceKeepsSession` | a session with the light or the voice is a session of `RbControl` |
| | `RedIsOutside`, `LightTypeCorrect` | `RedMeansOutside`, `LightTypeOK`, for any marks and keys |
| | `OneLineAtATime`, `SpokenModeIsSelected`, `PlayerAdvances` | `OnePrompt`, `SaysTheMode`, `BusyAdvances`, for prompts of any length, with the interrupt within a switch |
| `KeyLinksProofs` | `KeysStayFresh`, `MailboxesDeliver` | `KeyFresh` (what waits has not been handled), and `KeyLinks` implements `KeyDelivery`, for any number of presses |
| `MotorBusProofs` | `BusInvariance`, `FramesStay`, `DoneWasSent`, `Ordered` | `AcceptedStays`, `DoneIsSent`, `OrderedUnlessFailed`, for any motors and any number of commands |
| `GyroProofs` | `RingTypeCorrect`, `RingIsSafe`, `CountNeverAhead` | `GyroTypeOK`, `RingIsQueue`, `NeverAhead`, for a ring and buffers of any length and however many slots the index reaches behind its buffer |
| | `AngleUsesTheRing`, `AnglesOnlyAdvance` | `GyroAngle` implements `GyroLink`; `AnglesAdvance` |
| `RangeSensorProofs` | `LinkTypeCorrect`, `WindowsYield`, `FilterStaysInHull`, `RepliesInOrder` | `LinkTypeOK`, `WindowHoldsAReply`, `FilterInHull`, `DistancesAdvance`, for replies of any length from 3, any limits and any number of replies |
| `ArmMotionProofs` | `MotionTypeCorrect`, `HeightsAreLimited`, `MarksKeepTheirGround`, `StillOverStillGround` | `MotionTypeOK`, `WithinLimits`, `MarkKeepsItsGround`, `StillGround`, for any number of marks, any heights, strokes and grounds |
| `NecDecoderProofs` | `NecTypeCorrect` | `NecTypeOK`, for bytes of any number of bits and any error of measurement |
| | `CleanFramesAreDecoded`, `NoFrameIsAnotherKey` | `CleanFrameDecoded`, `NeverAnotherKey`, for bytes of any number of bits, when an interval is measured at most one tick wrong |

*The session.* The properties are not inductive alone. `DurationsAgree`
needs to know that a step of a duration stays within the limits; time+ tests
`< DURATION_MAX` before it adds a whole step, so the default must lie on the
grid that meets the limit (`DurationOnGrid`). `TypeOK` needs that
`current_point` never passes `MAX_POINTS`: it reaches it only in the step that
ends a cycle, and a complete cycle does not run (`EndMeansComplete`).
`FlameInSession` and the restart need that marks exist only after a manual move
(`MarksNeedMove`), so that a complete cycle always restarts and never resumes.
`IInv` is their conjunction. The proof has one lemma per handler and per phase
of the loop, one for the interrupt, and each has one step per conjunct that
it can disturb. `UnclearedRunsAtAMark` and `CompleteMeansTreated` add a second
invariant about `current_point` and about the time of the marks before it; they
are false with clear, and with time+, which lengthens marks that are already done.

*The plan.* That a complete cycle is over (`CompleteIsStopped`) is a matter of
time. A return delay that starts the session again (types 3, 4, 5) must end
before the mark it leads to expires; otherwise the cycle could complete first
and the delay then start a session with nothing left to treat. `OverInv` says
why it does: while such a delay is pending, the time counted at its mark is at
most that of the delay and one iteration (`PendingIsEarly`), because a later
mark has no time yet (`LaterUntouched`) and the interrupt that counts the one
counts the other. With `RETURN_DELAY + 2 * MAX_LAG < DURATION_MIN` the mark
cannot have expired. `ArmAtItsMark` adds what the arm was last told
against the index. `SessionImplementsPlan` maps `planned` to `point_count`,
`underway` to a session that runs or will go on by itself, and proves that
every step of `RbControl` is one of the plan or a stutter.

*The links.* `KInv` is `KeyFresh` with the types; `MailboxesDeliver` maps each
step of `KeyLinks` to a press, a delivery, or a stutter of `KeyDelivery`.
`BInv` says where the polled frame is (`InFlight`) and that, as long as no send
has failed, no other frame waits (`NothingElseWaits`): this, not the
controller, is what keeps commands in order. `GInv` says where `RecvPos` is
without a remainder (`Positions`): the queue begins at `SendPos` and ends
before `RecvPos`, up to a turn of the ring. That needs the count and the
positions, which no store behind `g_rx_data_buffer` reaches; that the slots hold
the queue (`Held`) is proved until such a store hits an unread one. `AInv`
orders everything a byte passes: what waits in the ring, the byte just popped
and the bytes copied are all newer than the last angle. It holds while the ring
is a queue (`~torn /\ ~spoiled`), and needs that the announced bytes have been
copied before they are parsed, and that an index that starts anew replaces
bytes by newer ones (`CopyKeepsAInv`). `LinkInv` says that byte *i* of the range
sensor's window is the *i*-th after its first, or was wiped, and that all are newer than
the last reply returned; `FilterInv` that the values of a full window lie in
the hull of the distances accepted. `LightInv` says that red is never the mode
that is saved, so that nobody restores it; `VoiceInv` that the player is asked
only when no line is low, and that within a switch the mode still asked for is
the one being left: the interrupt may ask for one there as well, but the last
statement of the switch overrides what it asked for.

*The motion.* `WithinLimits` is inductive once the joint variables and the
saved poses are within the limits as well (`Heights`): every command is one of
them or goes through `Clamp`. `StillGround` is not inductive: that the arm is at
its mark follows from where it was sent. `OnTheWay` says that while the return
is in progress nothing but the return was commanded; `Settle` then makes it
`AtTheMark`, and from there a step of a stroke moves arm and place together, and
a compensation is zero because the arm at rest measures the baseline
(`NoCompensation`), which needs `MarkKeepsItsGround`. The other conjuncts say
when a restart finds strokes that have not begun (`Untimed`) and that the index
is at a mark whenever the arm was sent to one (`EndIsComplete`).

*The decoder.* `NInv` says that a frame is either still to come as a whole
(`FrameAhead`), or being received, and then the bits taken and those to come
together are the frame or differ from it by one disturbance (`Receiving`), or
that nothing of it will be decoded any more (`Over`). A single flip breaks one
of the two complements, so the frame is refused. A doubled bit, a one read as
two zeros, moves everything behind it by one place, and the decoder checks the
first 32 of 33 bits (`DoubledIsHarmless`). Within a byte the second zero or its
complement gives it away, unless it is in the last byte, behind the command. At
the last bit of a byte (`LastBitDoubled`) the complements force a one at the
first place and from each place to the next, up to the doubled bit, which is a
zero; since induction over the places is out of reach, a pigeonhole argument
takes the last one instead (`LastPlace`). A lost or unreadable bit leaves too
few. The two theorems assume `JITTER <= 1`: a counter of 125 µs that is read at
any moment of a tick is off by at most one. With two the claim is false: a zero
of four ticks measured as two is outside its window and the frame is given up.

*Only model-checked:* the five liveness properties (`RunEnds`, `FlameGoesOut`,
`SessionCompletes`, `SendReturns`, `WaitingIsHandled`): they rest on fairness,
that is on ENABLED, which is out of the prover's reach. Every other property of
a passing run is proved. `KeyFresh`, `VoiceTypeOK`, `BusTypeOK`, `FilterTypeOK`
and `AngleTypeOK` are proved and in no run.

## Where the code differs from what it says

Two of these have a run; "findings" in `PROJECT.json` quotes both sides. For
the others the property is defined, last in its module, and checked by no run;
the steps given lead to the violation.

| Property | What happens |
|---|---|
| `RunsAtAMark` (run `stale_point_after_clear`) | Clear while the second mark is treated, make one new mark, press start: it *resumes* with `current_point` = 1, beyond the one mark. The new mark is never visited. |
| `RbControl!MarkingIsDark` | Clear during a session; when the flame's time is over the interrupt turns fan and light on, because `flame_flag` is still set. |
| `PauseHolds` (run `pause_overridden`) | At a hand-over, press start during the return delay (resume), then again (pause): the end of the delay starts the session. |
| `MotorBus!OneCommand` | The bus is busy, sends fail, frames of several commands wait: the first frame of a later command overtakes the second of an earlier one. |
| `RbControl!TickTimesAMark` | The interrupt between `current_point++` and `start_flag = 0` times `points[point_count]`; with all marks used that is outside the array. |
| `RbControl!HoverStaysAtMark` | Start, pause, jog, start: in hover mode nothing brings the arm back to the mark. |
| `RbControl!DelayStartsFull` | Switch the mode twice within a return delay: the second delay inherits the elapsed time of the first. |
| `RbControl!ReturnResetsAMark` | Switch the mode just before the last mark expires: the delay ends after the cycle and writes `points[point_count]`. |
| `RbLight!GreenMeansStopped` | Jog during a return delay: green, "paused" (new.c:945), stays on while the delay's end starts the session. |
| `RbLight!BlueEnds` | Mark, and while the light blinks blue jog out of range with the panel and back with the remote within an iteration: blue has been saved as the mode to return to. |
| `RbVoice!StartIsSpoken` | Pause and resume within 3 s: the end of the pause prompt replaces the waiting start announcement (new.c:1006) by that of the mode. |
| `RbVoice!PlaysTheMode` | Start; 3 s later the interrupt asks for the mode's prompt. Switch the mode before the next tick: if that tick falls between `switch_mode` and the assignment of `YUYIN_FLAG` (new.c:925-928), the prompt of the mode just left begins, and that of the new one waits 3 s. |
| `KeyLinks!EveryPressHandled` | Two presses on the panel while the loop is in a handler: the second overwrites the first (lcd.c:80 says one call for one press). Or one press between the read of the mailbox and its clear (lcd.c:83-84): it is cleared unread. |
| `MotorBus!FailedIsNotSent` | A frame reported failed (can.c:380) is still in its mailbox and goes out later. |
| `GyroLink!NothingLeft` | A push between load and store of the decrement is forgotten in `RemainCount`: its bytes stay in the ring, and every angle from then on is older by as many. |
| `GyroLink!CopyFits` | More than 128 bytes wait, as after the 2.6 s between `DMA_INIT` and the loop: `get_angle` copies them behind `g_rx_data_buffer`. In the build that is the ring it reads from: bytes 128 to 255 of the copy go to its slots 0 to 127, and the index starts anew with byte 256. |
| `GyroLink!NothingSpoiled` | The same, and one of those slots holds a byte that is not read yet: at the start-up, when the ring was full and an interrupt has stored new bytes to its first slots during the copy; later, whenever more than 128 bytes wait and some of them are there. The count stays right; the byte is read with a wrong value. |
| `GyroLink!LengthIsCopied` | Bytes arrive during the copy: more is copied than `g_rx_data_len` says. |

These were met while modelling and have no property, because the model leaves
out the numbers they depend on, or because no text of the repository says
otherwise:

| Where | What happens |
|---|---|
| new.c:601 | Unlike the other patterns `run_hover` does not wait for `return_in_progress`: after a switch to hovering it compensates with distances measured on the way, and its command replaces that of the return. `StillGround` excludes these sessions (`disturbed`). |
| new.c:801-805, 845 | The height keys change mark, pose and baseline of a running session and tell no motor. In hover mode the arm follows only through the compensation: not at all while the distance is within 1 cm of that of the last compensation (at first, the baseline); otherwise it is sent as far again beyond the new height. |
| new.c:158-159 | The last compensated distance is shared by all marks: a change of less than 1 cm against that of *another* mark or mode suppresses a compensation. |
| new.c:186 | The comment says a smaller distance means Z must be reduced; the code adds `baseline - current`, that is, raises the arm, which keeps the distance. |
| new.c:608 | The compensation is absolute, from the mark's height, and measured by an arm that already moved: after the ground rises by *h* the arm raised by *h* measures its baseline again and goes back, unless the hysteresis stops it; it settles between or alternates. |
| new.c:716 | The stroke of up and down is itself seen as a change of the distance and compensated, beyond 2 cm. |
| new.c:735 | At the end of a stroke the offset jumps from the highest to the lowest, although the comments at new.c:201 and 708 speak of a smooth start and stop. |
| new.c:905 | A mark saves the joint angles last computed with the coordinates of the operator. They differ when a jog and a mark come from both sources in one iteration, or when the arm was parked in between. |
| new.c:667 | The place on the circle is static and never reset, while restart, mode switch and hand-over all reset the stroke of up and down (new.c:1311): a circle begins wherever the last one was left. |
| new.c:751 | `last_last_error` is assigned after `last_error` was overwritten; the term it is in has a gain of 0. |
| new.c:752-753 | The limits of the integral of the pitch controller are commented out: held against a stop, it winds up. |
| new.c:1383 | `RUN_START` at the end of a cycle leaves `pitch_on_flag` set, the key 0xFA clears it: after a cycle the parked arm's joint 6 goes on being levelled. |
| new.c:555 | `type_names` has one entry less than there are types of return; the message of a hand-over reads behind it. |
| new.c:266 | A prompt equal to the last one played is never played: a second pause or height step may be silent. |
| tof.c:295 | The average divides by the whole window while it fills: the first three distances are too small. `FilterInHull` is about a full window. |
| tof.c, limiter | One outlier of 10 cm moves the average by 2.5 cm, beyond the 2 cm dead band; and as the limiter looks at what comes and not at what leaves the window, the average may move by more than `MAX_ALLOWED_CHANGE` with one reply (by 11.9 cm after 50, 0.1, 0.1, 0.1 and 0.1). |

## Not modelled

- *Pitch loop:* a PID controller over floating-point numbers and an arm that
  answers. Its flags meet the session in two places, `first_imu_flag2`, which is
  in `RbControl`, and the parking at the end of a cycle (new.c:1383, above).
- *Kinematics* (`arm.c`, `fast_sin.h`, `table.c`): floating-point geometry
  without control state; neither tool has real numbers.
- *Panel display, LED protocol, pins:* output only, nothing is read back.
- *Bring-up:* a fixed sequence that runs once.
- *`application/RB/rb.c`:* commented out as a whole.
- *`tof_run`, `extract_distance`, `filter_distance_data`* (tof.c) and CAN
  reception: nothing in the program calls or uses them.
- *Vendor library and examples* (`src/SRC`, and all directories of `src`
  other than `CAN/Networking`): third-party code, except the two functions of
  the CAN driver whose results the arm depends on. They are about 567 000 of
  the 572 000 lines of the repository: FreeRTOS, FatFs, the network stack and
  the manufacturer's examples, none of them built into the arm. The arm's own
  program is about 5 500 lines; what of it has control state is modelled, except
  the flags of the pitch loop.

## Plan

Done: the session with its plan, light, voice and motion; the key links; the
decoder; the bus; the ring and its parser; the range sensor and its filter;
proofs for all of them. What could still be
done, in this order:

1. The flags of the pitch loop as a module over `RbControl`, in the way of
   `RbLight`: when joint 6 is levelled, and against which reference.
2. A composition of `KeyLinks` and `RbControl`: what a lost key can and cannot
   do to a session.
3. Proofs about those two: that a session with them is one of `RbControl`, so
   that its theorems carry over.
