---------------------------- MODULE NecDecoder -----------------------------
(***************************************************************************)
(* The infrared decoder IR_EXTI_Callback.  The remote sends frames of a    *)
(* leader, an address and a command, each followed by its complement.  The *)
(* decoder sees, at every falling edge of the pin, how many ticks of the   *)
(* 125 us timer have passed since the rising edge before it.               *)
(*                                                                         *)
(* The light to the receiver may disturb a frame once: a bit is read as    *)
(* the other, an interval fits no window (as when the light refresh of     *)
(* TIM3_IRQHandler delays the edge), a spike splits an interval or a pulse *)
(* is missed.                                                              *)
(***************************************************************************)
EXTENDS Integers, Sequences

CONSTANTS
  BYTE_BITS,          (* 8 in the code                                     *)
  JITTER,             (* ticks by which an interval may be measured wrong  *)
  Addresses           (* of the remotes                                    *)

Bits  == {"zero", "one"}
Bytes == [1 .. BYTE_BITS -> Bits]

ASSUME NecAssumption ==
  BYTE_BITS \in Nat \ {0} /\ JITTER \in Nat /\ Addresses \subseteq Bytes

Gaps  == {"idle", "leader", "repeat", "odd"} \cup Bits
FRAME_BITS == 4 * BYTE_BITS
NoKey == <<>>

Other == [zero |-> "one", one |-> "zero"]
Inv(b) == [i \in 1 .. BYTE_BITS |-> Other[b[i]]]

(* Ticks of each interval: 0.56, 1.69, 4.5 and 2.25 ms; the idle time      *)
(* before a frame and an odd interval fit no window.                       *)
Ticks == [zero |-> 4 .. 5, one |-> 13 .. 14, leader |-> {36}, repeat |-> {18},
          odd |-> {9}, idle |-> {300}]
Measured(g) == {t + e : t \in Ticks[g], e \in -JITTER .. JITTER}

VARIABLES
  state, bits,        (* of the decoder; bitCount is the length of bits    *)
  ir_command, ir_frame_ready,
  sent,               (* the command of the frame on its way               *)
  gaps,               (* the intervals still to come                       *)
  hurt                (* the frame was disturbed                           *)

decoder == <<state, bits, ir_command, ir_frame_ready>>
remote  == <<sent, gaps, hurt>>
nvars   == <<decoder, remote>>

NecInit ==
  /\ state = 0 /\ bits = <<>> /\ ir_command = NoKey /\ ir_frame_ready = 0
  /\ sent = NoKey /\ gaps = <<>> /\ hurt = FALSE

-----------------------------------------------------------------------------
(* The remote and the air.                                                 *)

SendFrame ==
  /\ gaps = <<>>
  /\ \E a \in Addresses, c \in Bytes :
       /\ gaps' = <<"idle", "leader">> \o a \o Inv(a) \o c \o Inv(c)
       /\ sent' = c
  /\ hurt' = FALSE
  /\ UNCHANGED decoder

SendRepeat ==
  /\ gaps = <<>> /\ sent # NoKey
  /\ gaps' = <<"idle", "repeat">>
  /\ UNCHANGED <<sent, hurt, decoder>>

Splits == [zero |-> {}, one |-> {<<"zero", "zero">>}, leader |-> {<<"repeat", "repeat">>},
           repeat |-> {}, idle |-> {}, odd |-> {}]

(* A missed pulse joins two intervals: two zeros last as long as a one,    *)
(* everything else too long.                                               *)
Joined(g, h) == IF g = "zero" /\ h = "zero" THEN "one" ELSE "odd"

Disturb ==
  /\ ~hurt /\ gaps # <<>> /\ Head(gaps) # "idle" /\ hurt' = TRUE
  /\ \/ Head(gaps) \in Bits /\ gaps' = <<Other[Head(gaps)]>> \o Tail(gaps)
     \/ gaps' = <<"odd">> \o Tail(gaps)
     \/ \E two \in Splits[Head(gaps)] : gaps' = two \o Tail(gaps)
     \/ /\ Len(gaps) > 1
        /\ gaps' = <<Joined(gaps[1], gaps[2])>> \o Tail(Tail(gaps))
  /\ UNCHANGED <<sent, decoder>>

-----------------------------------------------------------------------------
(* IR_EXTI_Callback.                                                       *)

Byte(n, s) == SubSeq(s, (n - 1) * BYTE_BITS + 1, n * BYTE_BITS)

(* Mutant: only the address is checked against its complement.             *)
ChecksAddress(s) == Byte(2, s) = Inv(Byte(1, s))

Checks(s) == Byte(2, s) = Inv(Byte(1, s)) /\ Byte(4, s) = Inv(Byte(3, s))

(* Mutant: the count of bits is not restarted by the leader.               *)
WaitLeaderKeepsBits(d) ==
  /\ state = 0
  /\ state' = IF 34 <= d /\ d <= 40 THEN 1 ELSE state
  /\ ir_frame_ready' = IF 16 <= d /\ d <= 20 THEN 2 ELSE ir_frame_ready
  /\ UNCHANGED <<bits, ir_command>>

(* State 0: a leader begins a frame, a repeat code is noted.               *)
WaitLeader(d) ==
  /\ state = 0
  /\ IF 34 <= d /\ d <= 40 THEN state' = 1 /\ bits' = <<>> ELSE UNCHANGED <<state, bits>>
  /\ ir_frame_ready' = IF 16 <= d /\ d <= 20 THEN 2 ELSE ir_frame_ready
  /\ UNCHANGED ir_command

(* Mutant: only a good frame ends the reception.                           *)
TakeBitGoesOn(d, bit, shortest, longest) ==
  /\ state = 1 /\ shortest <= d /\ d <= longest
  /\ bits' = Append(bits, bit)
  /\ IF Len(bits') = FRAME_BITS /\ Checks(bits')
       THEN state' = 0 /\ ir_command' = Byte(3, bits') /\ ir_frame_ready' = 1
       ELSE UNCHANGED <<state, ir_command, ir_frame_ready>>

(* State 1: a bit of the frame; the last one completes it.                 *)
TakeBit(d, bit, shortest, longest) ==
  /\ state = 1 /\ shortest <= d /\ d <= longest
  /\ bits' = Append(bits, bit)
  /\ IF Len(bits') = FRAME_BITS
       THEN /\ state' = 0
            /\ IF Checks(bits')
                 THEN ir_command' = Byte(3, bits') /\ ir_frame_ready' = 1
                 ELSE UNCHANGED <<ir_command, ir_frame_ready>>
       ELSE UNCHANGED <<state, ir_command, ir_frame_ready>>

(* State 1: anything else gives the frame up.                              *)
BadBit(d) ==
  /\ state = 1 /\ d \notin 3 .. 7 \cup 11 .. 17
  /\ state' = 0
  /\ UNCHANGED <<bits, ir_command, ir_frame_ready>>

Callback(d) ==
  \/ WaitLeader(d)
  \/ TakeBit(d, "zero", 3, 7) \/ TakeBit(d, "one", 11, 17)
  \/ BadBit(d)

Edge ==
  /\ gaps # <<>> /\ gaps' = Tail(gaps)
  /\ \E d \in Measured(Head(gaps)) : Callback(d)
  /\ UNCHANGED <<sent, hurt>>

NecNext == SendFrame \/ SendRepeat \/ Disturb \/ Edge

NecSpec == NecInit /\ [][NecNext]_nvars

-----------------------------------------------------------------------------
(* A frame is over when 32 bits came or when it was given up.              *)
NecTypeOK ==
  /\ state \in 0 .. 1 /\ Len(bits) <= FRAME_BITS
  /\ state = 1 => Len(bits) < FRAME_BITS
  /\ ir_command \in Bytes \cup {NoKey} /\ ir_frame_ready \in 0 .. 2

(* One disturbance never turns a key into another: a command that is taken *)
(* is the one that was sent, wherever a bit was changed, doubled or lost.  *)
NeverAnotherKey == [][ir_command' # ir_command => ir_command' = sent]_nvars

(* A disturbed frame costs no more than itself: after an undisturbed one   *)
(* the command is the one sent, whatever state the frames before it left   *)
(* the decoder in.                                                         *)
CleanFrameDecoded == gaps = <<>> /\ ~hurt /\ sent # NoKey => ir_command = sent /\ state = 0
=============================================================================
