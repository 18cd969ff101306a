----------------------------- MODULE RangeLink -----------------------------
(***************************************************************************)
(* The range sensor on UART 2: USART2_IRQHandler of bsp/uart/uart.c fills  *)
(* a window of WINDOW bytes and sets frame_ready; new_tof of               *)
(* module/TOF/tof.c looks for a reply in it, then resets the length, the   *)
(* flag and the bytes, in this order.  An interrupt may come between any   *)
(* two accesses of the loop; bytes that come while frame_ready is set are  *)
(* dropped.                                                                *)
(*                                                                         *)
(* The sensor sends replies of REPLY bytes without a pause: 01 03 02, two  *)
(* bytes of distance, two of CRC.  A byte is the number of its reply and   *)
(* its offset in it, so that 01 03 02 are the offsets 0, 1, 2, and the CRC *)
(* of REPLY bytes is right when they are one reply from its start.  No     *)
(* reply and no border of two replies shows 01 03 02 elsewhere, for any of *)
(* the 65536 distances.                                                    *)
(***************************************************************************)
EXTENDS Integers

CONSTANTS
  REPLY,              (* bytes of a reply, 7                               *)
  WINDOW,             (* bytes collected before frame_ready is set, 13     *)
  SCAN,               (* places where new_tof looks for a reply, 15        *)
  MAX_REPLIES         (* bound on the replies of a run                     *)

ASSUME LinkAssumption ==
  /\ REPLY \in Nat /\ REPLY >= 3
  /\ WINDOW \in 2 * REPLY - 1 .. 2 * REPLY
  /\ SCAN \in Nat /\ SCAN >= REPLY
  /\ MAX_REPLIES \in Nat

VARIABLES
  next,               (* the next byte the sensor sends                    *)
  rx_buffer_uart2, rx_len_uart2, frame_ready,
  tof_pc,             (* next access of new_tof                            *)
  tof_num,            (* tof_num[0]: the reply new_tof returns, 0 for none *)
  first, wiped, last  (* history: first byte of the window, whether a byte *)
                      (* of it was wiped, the last reply returned          *)

rx       == <<rx_buffer_uart2, rx_len_uart2, frame_ready>>
linkVars == <<next, rx, tof_pc, tof_num, first, wiped, last>>

Byte   == [reply : Nat, offset : 0 .. REPLY - 1]
NoByte == [reply |-> 0, offset |-> REPLY]
Places == 0 .. WINDOW - 1

LinkTypeOK ==
  /\ next \in Byte /\ first \in Byte
  /\ rx_buffer_uart2 \in [Places -> Byte \cup {NoByte}]
  /\ rx_len_uart2 \in 0 .. WINDOW /\ frame_ready \in BOOLEAN
  /\ tof_pc \in {"test", "scan", "len", "ready", "wipe", "filter"}
  /\ tof_num \in Nat /\ last \in Nat /\ wiped \in BOOLEAN

(* The main loop comes to the link anywhere in the stream of replies.      *)
LinkInit ==
  /\ \E o \in 0 .. REPLY - 1 : next = [reply |-> 1, offset |-> o]
  /\ rx_buffer_uart2 = [i \in Places |-> NoByte]
  /\ rx_len_uart2 = 0 /\ frame_ready = FALSE
  /\ tof_pc = "test" /\ tof_num = 0
  /\ first = next /\ wiped = FALSE /\ last = 0

-----------------------------------------------------------------------------
(* USART2_IRQHandler.                                                      *)

After(b) == IF b.offset + 1 < REPLY THEN [b EXCEPT !.offset = @ + 1]
                                    ELSE [reply |-> b.reply + 1, offset |-> 0]

(* Mutant: the window is taken for full a byte early.                      *)
USART2_IRQHandlerEarly ==
  /\ next.reply <= MAX_REPLIES
  /\ next' = After(next)
  /\ IF frame_ready
       THEN UNCHANGED <<rx, first>>
       ELSE /\ rx_buffer_uart2' = [rx_buffer_uart2 EXCEPT ![rx_len_uart2] = next]
            /\ rx_len_uart2' = rx_len_uart2 + 1
            /\ frame_ready' = (rx_len_uart2 + 1 >= WINDOW - 1)
            /\ first' = IF rx_len_uart2 = 0 THEN next ELSE first
  /\ UNCHANGED <<tof_pc, tof_num, wiped, last>>

USART2_IRQHandler ==
  /\ next.reply <= MAX_REPLIES
  /\ next' = After(next)
  /\ IF frame_ready
       THEN UNCHANGED <<rx, first>>
       ELSE /\ rx_buffer_uart2' = [rx_buffer_uart2 EXCEPT ![rx_len_uart2] = next]
            /\ rx_len_uart2' = rx_len_uart2 + 1
            /\ frame_ready' = (rx_len_uart2 + 1 >= WINDOW)
            /\ first' = IF rx_len_uart2 = 0 THEN next ELSE first
  /\ UNCHANGED <<tof_pc, tof_num, wiped, last>>

-----------------------------------------------------------------------------
(* new_tof.                                                                *)

(* What the buffer of 60 bytes holds; behind the window it is zero.        *)
At(i) == IF i \in Places THEN rx_buffer_uart2[i] ELSE NoByte

Heads == {i \in 0 .. SCAN - 1 : \A k \in 0 .. 2 : At(i + k).offset = k}

(* verify_crc16_modbus(rx_buffer_uart2 + i, 7)                             *)
Verified(i) ==
  \A k \in 0 .. REPLY - 1 : At(i + k) = [reply |-> At(i).reply, offset |-> k]

TofTest ==
  /\ tof_pc = "test"
  /\ tof_num' = 0
  /\ tof_pc' = IF frame_ready THEN "scan" ELSE "filter"
  /\ UNCHANGED <<next, rx, first, wiped, last>>

(* Only the first head counts: tof_num[0] is all that is returned.         *)
Counts(i) == Verified(i) /\ \A j \in Heads : i <= j

TofScan ==
  /\ tof_pc = "scan" /\ tof_pc' = "len"
  /\ \/ \E i \in Heads : Counts(i) /\ tof_num' = At(i).reply
     \/ (\A i \in Heads : ~Counts(i)) /\ tof_num' = 0
  /\ last' = IF tof_num' # 0 THEN tof_num' ELSE last
  /\ UNCHANGED <<next, rx, first, wiped>>

TofLen ==
  /\ tof_pc = "len" /\ tof_pc' = "ready"
  /\ rx_len_uart2' = 0 /\ wiped' = FALSE
  /\ UNCHANGED <<next, rx_buffer_uart2, frame_ready, tof_num, first, last>>

TofReady ==
  /\ tof_pc = "ready" /\ tof_pc' = "wipe"
  /\ frame_ready' = FALSE
  /\ UNCHANGED <<next, rx_buffer_uart2, rx_len_uart2, tof_num, first, wiped, last>>

(* memset.  What has come since frame_ready was reset is wiped with it.    *)
TofWipe ==
  /\ tof_pc = "wipe" /\ tof_pc' = "filter"
  /\ rx_buffer_uart2' = [i \in Places |-> NoByte]
  /\ wiped' = (rx_len_uart2 > 0)
  /\ UNCHANGED <<next, rx_len_uart2, frame_ready, tof_num, first, last>>

(* Mutant: the flag is reset before the length.                            *)
new_tof_flag_first ==
  \/ TofTest \/ TofScan \/ TofWipe
  \/ /\ tof_pc = "len" /\ tof_pc' = "ready"
     /\ frame_ready' = FALSE
     /\ UNCHANGED <<next, rx_buffer_uart2, rx_len_uart2, tof_num, first, wiped, last>>
  \/ /\ tof_pc = "ready" /\ tof_pc' = "wipe"
     /\ rx_len_uart2' = 0 /\ wiped' = FALSE
     /\ UNCHANGED <<next, rx_buffer_uart2, frame_ready, tof_num, first, last>>

(* Mutant: the flag and the bytes are left as they are.                    *)
new_tof_no_reset ==
  \/ TofTest \/ TofScan
  \/ /\ tof_pc = "len" /\ tof_pc' = "filter"
     /\ rx_len_uart2' = 0
     /\ UNCHANGED <<next, rx_buffer_uart2, frame_ready, tof_num, first, wiped, last>>

new_tof == TofTest \/ TofScan \/ TofLen \/ TofReady \/ TofWipe

-----------------------------------------------------------------------------
(* Thirteen bytes in a row hold a whole reply wherever they begin, so a    *)
(* full window yields a distance, unless a byte of it was wiped.           *)
WindowHoldsAReply == tof_pc = "len" /\ ~wiped => tof_num # 0

(* A distance is returned once, and never after a later one: what is left  *)
(* in the buffer of an earlier window is not read again.                   *)
DistancesAdvance == [][tof_pc = "scan" /\ tof_num' # 0 => tof_num' > last]_linkVars
=============================================================================
