----------------------------- MODULE GyroAngle -----------------------------
(***************************************************************************)
(* What get_angle makes of the bytes GyroLink brings: it copies them into  *)
(* g_rx_data_buffer and parse_wt_protocol looks for the frame of the       *)
(* angles in it, where a packet that begins the buffer would have it or    *)
(* one of the frames before it.                                            *)
(*                                                                         *)
(* The gyroscope sends packets of three frames of FRAME bytes, the angles  *)
(* in the last one.  A byte is a head when it is the first of such a       *)
(* frame; a checksum is right when the FRAME bytes are one frame.          *)
(***************************************************************************)
EXTENDS GyroLink, FiniteSetsExt

CONSTANT FRAME        (* 11 bytes                                          *)

PACKET == 3 * FRAME

ASSUME FrameAssumption ==
  FRAME \in Nat \ {0} /\ PACKET <= RX_BUFFER_LEN

VARIABLES
  g_rx_data_buffer,
  angle               (* the frame the angles are from, 0 at power up      *)

parser    == <<g_rx_data_buffer, angle>>
angleVars == <<gvars, parser>>

AngleTypeOK ==
  /\ angle \in 0 .. MAX_BYTES
  /\ g_rx_data_buffer \in [0 .. RX_BUFFER_LEN - 1 -> 0 .. MAX_BYTES]

AInit ==
  /\ GInit
  /\ angle = 0
  /\ g_rx_data_buffer = [i \in 0 .. RX_BUFFER_LEN - 1 |-> 0]

-----------------------------------------------------------------------------
(* parse_wt_protocol.                                                      *)

IsHead(b) == b # 0 /\ (b - 1) % PACKET = 2 * FRAME

Heads == {i \in {0, FRAME, 2 * FRAME} : IsHead(g_rx_data_buffer[i])}

Checked(i) ==
  \A k \in 0 .. FRAME - 1 : g_rx_data_buffer[i + k] = g_rx_data_buffer[i] + k

(* Mutant: a longer copy is parsed too.                                    *)
ParsedAny ==
  IF g_rx_data_len >= FRAME /\ Heads # {} /\ Checked(Min(Heads))
    THEN g_rx_data_buffer[Min(Heads)] ELSE 0

(* The length is passed in a u8.  The first head decides; 0 stands for the *)
(* three error codes.                                                      *)
Parsed ==
  IF /\ g_rx_data_len % COUNT_RANGE = PACKET
     /\ Heads # {} /\ Checked(Min(Heads))
    THEN g_rx_data_buffer[Min(Heads)]
    ELSE 0

-----------------------------------------------------------------------------
(* get_angle, with the bytes it moves.                                     *)

Parses == pc = "loop" /\ pc' = "test"

Angle ==
  \/ /\ Copy
     /\ g_rx_data_buffer' =
          IF count < RX_BUFFER_LEN THEN [g_rx_data_buffer EXCEPT ![count] = popped]
                                   ELSE g_rx_data_buffer
     /\ UNCHANGED angle
  \/ /\ LoopTest
     /\ angle' = IF Parses /\ Parsed # 0 THEN Parsed ELSE angle
     /\ UNCHANGED g_rx_data_buffer
  \/ (Test \/ Length \/ Take \/ Load \/ Store) /\ UNCHANGED parser

ANext == Angle \/ (Interrupt /\ UNCHANGED parser)

ASpec == AInit /\ [][ANext]_angleVars

-----------------------------------------------------------------------------
(* A frame is parsed once: what an earlier copy left in g_rx_data_buffer   *)
(* is never taken for an angle, and no angle follows a later one, however  *)
(* far the copy runs behind the buffer and however often its index starts  *)
(* anew, as long as the ring is a queue.                                   *)
AnglesAdvance ==
  [][Parses /\ Parsed # 0 /\ ~torn /\ ~spoiled => Parsed > angle]_angleVars
=============================================================================
