------------------------------ MODULE GyroLink ------------------------------
(***************************************************************************)
(* The bytes of the gyroscope on their way to the main loop.  The DMA      *)
(* fills a buffer; the interrupts for a silent line and for a full buffer  *)
(* move it into ring_buffer; get_angle empties the ring into               *)
(* g_rx_data_buffer.  The interrupts share RemainCount with the loop: they *)
(* may come between any two accesses of it, also between the load and the  *)
(* store of its decrement in ring_buffer_pop.                              *)
(*                                                                         *)
(* A byte is its number since power up.  The history variable queue keeps  *)
(* the bytes the ring accepted and the loop has not taken.                 *)
(*                                                                         *)
(* get_angle does not look at the length of g_rx_data_buffer.  In the      *)
(* build kept with the source (obj/Networking.map) ring_buffer follows it, *)
(* its bytes first: a store behind g_rx_data_buffer goes to the ring.      *)
(***************************************************************************)
EXTENDS Integers, Sequences

CONSTANTS
  RING_BUFFER_LEN,    (* 1024 bytes                                        *)
  RX_BUFFER_LEN,      (* 128 bytes: a DMA buffer, and g_rx_data_buffer     *)
  COUNT_RANGE,        (* 256: get_angle counts bytes in a u8               *)
  MAX_BYTES           (* bound on the bytes the gyroscope sends            *)

ASSUME GyroAssumption ==
  /\ RING_BUFFER_LEN \in Nat \ {0} /\ RX_BUFFER_LEN \in 1 .. RING_BUFFER_LEN
  /\ COUNT_RANGE \in RX_BUFFER_LEN .. RX_BUFFER_LEN + RING_BUFFER_LEN
  /\ MAX_BYTES \in Nat

Slots == 0 .. RING_BUFFER_LEN - 1

VARIABLES
  pc,                 (* next access of get_angle                          *)
  buffer, RecvPos, SendPos, RemainCount,  (* ring_buffer                   *)
  arrived, filled,    (* bytes sent by the gyroscope; those of them that   *)
                      (* are still in the DMA buffer                       *)
  popped, loaded,     (* ring_buffer_pop: its result, RemainCount as loaded *)
  g_rx_data_len,      (* the length get_angle announces                    *)
  copied,             (* bytes copied by this get_angle                    *)
  queue,              (* history: accepted, not taken                      *)
  torn,               (* history: a push has come between load and store   *)
  spoiled             (* history: a store went to a slot not yet read      *)

ring   == <<buffer, RecvPos, SendPos, RemainCount>>
dma    == <<arrived, filled>>
reader == <<pc, popped, loaded, g_rx_data_len, copied>>
gvars  == <<ring, dma, reader, queue, torn, spoiled>>

(* The index into g_rx_data_buffer is a u8.                                *)
count == copied % COUNT_RANGE

GyroTypeOK ==
  /\ pc \in {"test", "length", "loop", "take", "load", "store", "copy"}
  /\ buffer \in [Slots -> 0 .. MAX_BYTES]
  /\ RecvPos \in 0 .. RING_BUFFER_LEN /\ SendPos \in Slots
  /\ RemainCount \in 0 .. RING_BUFFER_LEN /\ loaded \in 0 .. RING_BUFFER_LEN
  /\ arrived \in 0 .. MAX_BYTES /\ filled \in 0 .. RX_BUFFER_LEN /\ filled <= arrived
  /\ g_rx_data_len \in 0 .. RING_BUFFER_LEN /\ copied \in Nat /\ popped \in 0 .. MAX_BYTES
  /\ queue \in Seq(1 .. MAX_BYTES) /\ torn \in BOOLEAN /\ spoiled \in BOOLEAN

GInit ==
  /\ pc = "test" /\ loaded = 0 /\ g_rx_data_len = 0 /\ copied = 0 /\ popped = 0
  /\ buffer = [s \in Slots |-> 0] /\ RecvPos = 0 /\ SendPos = 0 /\ RemainCount = 0
  /\ arrived = 0 /\ filled = 0
  /\ queue = <<>> /\ torn = FALSE /\ spoiled = FALSE

-----------------------------------------------------------------------------
(* The interrupts.                                                         *)

(* The DMA stores a byte; a full buffer waits for its interrupt.           *)
Arrive ==
  /\ arrived < MAX_BYTES /\ filled < RX_BUFFER_LEN
  /\ arrived' = arrived + 1 /\ filled' = filled + 1
  /\ UNCHANGED <<ring, reader, queue, torn, spoiled>>

(* Mutant: a byte more than the ring has room for.                         *)
RoomForOneMore(n) == IF RING_BUFFER_LEN - RemainCount + 1 < n
                       THEN RING_BUFFER_LEN - RemainCount + 1 ELSE n

(* What does not fit the ring is dropped.                                  *)
Accepted(n) == IF RING_BUFFER_LEN - RemainCount < n THEN RING_BUFFER_LEN - RemainCount ELSE n

(* Mutant: a push that wraps forgets the slots it filled before the end.   *)
EndPosNoWrap(n) == IF RecvPos + n <= RING_BUFFER_LEN THEN RecvPos + n ELSE n

(* The position may come to rest behind the last slot; it wraps with the   *)
(* next bytes.                                                             *)
EndPos(n) == IF RecvPos + n <= RING_BUFFER_LEN THEN RecvPos + n
                                               ELSE RecvPos + n - RING_BUFFER_LEN

(* Mutant: the dropped bytes are counted.                                  *)
PushHugeCountsAll(from, n) ==
  /\ buffer' = [s \in Slots |->
       LET i == (s - RecvPos) % RING_BUFFER_LEN
       IN  IF i < n THEN from + i + 1 ELSE buffer[s]]
  /\ RecvPos' = EndPos(n)
  /\ RemainCount' = RemainCount + filled
  /\ queue' = queue \o [i \in 1 .. n |-> from + i]

(* ring_buffer_push_huge of the bytes after `from`.                        *)
PushHuge(from, n) ==
  /\ buffer' = [s \in Slots |->
       LET i == (s - RecvPos) % RING_BUFFER_LEN
       IN  IF i < n THEN from + i + 1 ELSE buffer[s]]
  /\ RecvPos' = EndPos(n)
  /\ RemainCount' = RemainCount + n
  /\ queue' = queue \o [i \in 1 .. n |-> from + i]

(* USART1_IRQHandler on a silent line, DMA1_Channel5_IRQHandler on a full  *)
(* buffer: both hand over what the buffer holds and start on the other.    *)
HandOver ==
  /\ filled > 0 /\ filled' = 0
  /\ PushHuge(arrived - filled, Accepted(filled))
  /\ torn' = (torn \/ pc = "store")
  /\ UNCHANGED <<SendPos, arrived, reader, spoiled>>

Interrupt == Arrive \/ HandOver

-----------------------------------------------------------------------------
(* get_angle, called once in every iteration of the main loop.             *)

Step(from, to) == pc = from /\ pc' = to

Test ==
  /\ pc = "test" /\ pc' = IF RemainCount > 0 THEN "length" ELSE "test"
  /\ UNCHANGED <<ring, dma, popped, loaded, g_rx_data_len, copied, queue, torn, spoiled>>

Length ==
  /\ Step("length", "loop")
  /\ g_rx_data_len' = RemainCount /\ copied' = 0
  /\ UNCHANGED <<ring, dma, popped, loaded, queue, torn, spoiled>>

(* The end of the loop: the bytes are parsed, get_angle returns.           *)
LoopTest ==
  /\ pc = "loop" /\ pc' = IF RemainCount > 0 THEN "take" ELSE "test"
  /\ UNCHANGED <<ring, dma, popped, loaded, g_rx_data_len, copied, queue, torn, spoiled>>

(* ring_buffer_pop: the byte at SendPos, the position, and the count in two *)
(* accesses.                                                               *)
Take ==
  /\ Step("take", "load")
  /\ popped' = buffer[SendPos]
  /\ SendPos' = (SendPos + 1) % RING_BUFFER_LEN
  /\ queue' = IF queue = <<>> THEN queue ELSE Tail(queue)
  /\ UNCHANGED <<buffer, RecvPos, RemainCount, dma, loaded, g_rx_data_len, copied, torn, spoiled>>

Load ==
  /\ Step("load", "store")
  /\ loaded' = RemainCount
  /\ UNCHANGED <<ring, dma, popped, g_rx_data_len, copied, queue, torn, spoiled>>

Store ==
  /\ Step("store", "copy")
  /\ RemainCount' = loaded - 1
  /\ UNCHANGED <<buffer, RecvPos, SendPos, dma, popped, loaded, g_rx_data_len, copied, queue,
                 torn, spoiled>>

Unread(s) == (s - SendPos) % RING_BUFFER_LEN < Len(queue)

(* g_rx_data_buffer[count] = ..., count++: the byte goes to that buffer    *)
(* (GyroAngle keeps what is in it) or, behind it, to the ring.             *)
Copy ==
  /\ Step("copy", "loop")
  /\ copied' = copied + 1
  /\ IF count < RX_BUFFER_LEN
       THEN UNCHANGED <<buffer, spoiled>>
       ELSE /\ buffer' = [buffer EXCEPT ![count - RX_BUFFER_LEN] = popped]
            /\ spoiled' = (spoiled \/ Unread(count - RX_BUFFER_LEN))
  /\ UNCHANGED <<RecvPos, SendPos, RemainCount, dma, popped, loaded, g_rx_data_len, queue, torn>>

GetAngle == Test \/ Length \/ LoopTest \/ Take \/ Load \/ Store \/ Copy

GNext == Interrupt \/ GetAngle

GSpec == GInit /\ [][GNext]_gvars

-----------------------------------------------------------------------------
(* What RemainCount will be once the pop under way has stored it.          *)
Counted == IF pc = "load" THEN RemainCount - 1
           ELSE IF pc = "store" THEN loaded - 1 ELSE RemainCount

Held ==
  \A i \in 1 .. Len(queue) : buffer[(SendPos + i - 1) % RING_BUFFER_LEN] = queue[i]

(* Until an interrupt tears a decrement, the ring is a queue: it counts    *)
(* the bytes it accepted and did not give out, and holds them in order     *)
(* from SendPos on, wherever it wrapped or dropped.  What get_angle stores *)
(* behind g_rx_data_buffer never changes the count; it leaves the order    *)
(* alone as well until it hits a slot that is not yet read.                *)
RingIsQueue ==
  ~torn => Counted = Len(queue) /\ (~spoiled => Held)

(* Torn or not, the ring never counts a byte that it did not accept: no    *)
(* byte is taken from an empty ring.                                       *)
NeverAhead == Counted <= Len(queue)

-----------------------------------------------------------------------------
(* What the comments say and the code does not do: README.md tells how     *)
(* each of these fails.                                                    *)

(* When get_angle has taken all that is counted, nothing is left.          *)
NothingLeft == [][Step("loop", "test") => queue = <<>>]_gvars

(* The bytes are copied into g_rx_data_buffer, not behind it.              *)
CopyFits == pc = "copy" => count < RX_BUFFER_LEN

(* What is stored behind it hits no byte that is still to be read.         *)
NothingSpoiled == ~spoiled

(* g_rx_data_len is the length of the data that is parsed.                 *)
LengthIsCopied == [][Step("loop", "test") => copied = g_rx_data_len]_gvars
=============================================================================
