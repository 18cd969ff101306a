------------------------- MODULE RangeSensorProofs -------------------------
(***************************************************************************)
(* For replies, windows and limits of any size: a full window yields a     *)
(* distance unless a byte of it was wiped, distances come in the order of  *)
(* their replies, each once, and the filter stays between the lowest and   *)
(* the highest distance it accepted.                                       *)
(*                                                                         *)
(* LinkInv is inductive: byte i of the window is the i-th after its first, *)
(* or was wiped, and all of them are newer than the last reply returned.   *)
(***************************************************************************)
EXTENDS RangeSensor, TLAPS

(* The byte i places behind f; a window is no longer than two replies.     *)
Ahead(f, i) ==
  IF f.offset + i < REPLY THEN [reply |-> f.reply, offset |-> f.offset + i]
  ELSE IF f.offset + i < 2 * REPLY
    THEN [reply |-> f.reply + 1, offset |-> f.offset + i - REPLY]
    ELSE [reply |-> f.reply + 2, offset |-> f.offset + i - 2 * REPLY]

WindowFills ==
  /\ frame_ready /\ tof_pc # "ready" => rx_len_uart2 = WINDOW
  /\ ~frame_ready => rx_len_uart2 < WINDOW
  /\ tof_pc \in {"scan", "len", "ready"} => frame_ready
  /\ tof_pc = "ready" => rx_len_uart2 = 0

WindowInOrder ==
  /\ \A i \in 0 .. rx_len_uart2 - 1 :
       rx_buffer_uart2[i] = Ahead(first, i) \/ (wiped /\ rx_buffer_uart2[i] = NoByte)
  /\ rx_len_uart2 > 0 /\ ~frame_ready => next = Ahead(first, rx_len_uart2)
  /\ rx_len_uart2 > 0 => Ahead(first, rx_len_uart2).reply <= next.reply

RepliesAdvance ==
  /\ last < next.reply
  /\ first.reply > 0
  /\ rx_len_uart2 > 0 /\ tof_pc # "len" => last < first.reply
  /\ tof_pc = "scan" => tof_num = 0

LinkInv == LinkTypeOK /\ WindowFills /\ WindowInOrder /\ RepliesAdvance /\ WindowHoldsAReply

-----------------------------------------------------------------------------
(* The numbers of the link.                                                *)
LEMMA LinkNumbers ==
  /\ REPLY \in Nat /\ REPLY >= 3 /\ WINDOW \in Nat /\ SCAN \in Nat /\ SCAN >= REPLY
  /\ 2 * REPLY - 1 <= WINDOW /\ WINDOW <= 2 * REPLY
  BY LinkAssumption

(* A byte is its two numbers.                                              *)
LEMMA ByteParts ==
  ASSUME NEW f \in Byte
  PROVE  /\ f.reply \in Nat /\ f.offset \in 0 .. REPLY - 1 /\ f.offset \in Int
         /\ f = [reply |-> f.reply, offset |-> f.offset]
  BY LinkNumbers DEF Byte

LEMMA AheadTypes ==
  ASSUME NEW f \in Byte, NEW i \in 0 .. WINDOW
  PROVE  Ahead(f, i) \in Byte /\ f.reply <= Ahead(f, i).reply /\ Ahead(f, i).reply \in Nat
<1>1. f.reply \in Nat /\ f.offset \in 0 .. REPLY - 1 /\ REPLY \in Nat /\ i \in Nat /\ i <= 2 * REPLY
  BY ByteParts, LinkNumbers
<1>2. CASE f.offset + i < REPLY
  <2>1. f.offset + i \in 0 .. REPLY - 1
    BY <1>1, <1>2
  <2> QED
    BY <1>1, <1>2, <2>1 DEF Ahead, Byte
<1>3. CASE f.offset + i >= REPLY /\ f.offset + i < 2 * REPLY
  <2>1. f.offset + i - REPLY \in 0 .. REPLY - 1 /\ ~(f.offset + i < REPLY) /\ f.reply + 1 \in Nat
    BY <1>1, <1>3
  <2> QED
    BY <1>1, <1>3, <2>1 DEF Ahead, Byte
<1>4. CASE f.offset + i >= 2 * REPLY
  <2>1. /\ f.offset + i - 2 * REPLY \in 0 .. REPLY - 1 /\ f.reply + 2 \in Nat
        /\ ~(f.offset + i < REPLY) /\ ~(f.offset + i < 2 * REPLY)
    BY <1>1, <1>4
  <2> QED
    BY <1>1, <1>4, <2>1 DEF Ahead, Byte
<1> QED
  BY <1>1, <1>2, <1>3, <1>4

LEMMA AheadNext ==
  ASSUME NEW f \in Byte, NEW i \in 0 .. WINDOW - 1
  PROVE  After(Ahead(f, i)) = Ahead(f, i + 1)
<1>1. f.reply \in Nat /\ f.offset \in 0 .. REPLY - 1 /\ REPLY \in Nat /\ i \in Nat /\ i < 2 * REPLY
  BY ByteParts, LinkNumbers
<1>2. CASE f.offset + i < REPLY
  BY <1>1, <1>2 DEF Ahead, After
<1>3. CASE f.offset + i >= REPLY /\ f.offset + i < 2 * REPLY
  BY <1>1, <1>3 DEF Ahead, After
<1>4. CASE f.offset + i >= 2 * REPLY
  BY <1>1, <1>4 DEF Ahead, After
<1> QED
  BY <1>1, <1>2, <1>3, <1>4

LEMMA AheadOrder ==
  ASSUME NEW f \in Byte, NEW i \in 0 .. WINDOW, NEW j \in 0 .. WINDOW, i <= j
  PROVE  Ahead(f, i).reply <= Ahead(f, j).reply
<1>1. /\ f.reply \in Nat /\ f.offset \in 0 .. REPLY - 1 /\ REPLY \in Nat
      /\ i \in Nat /\ j \in Nat
  BY ByteParts, LinkNumbers
<1>2. CASE f.offset + j < REPLY
  BY <1>1, <1>2 DEF Ahead
<1>3. CASE f.offset + j >= REPLY /\ f.offset + j < 2 * REPLY
  BY <1>1, <1>3 DEF Ahead
<1>4. CASE f.offset + j >= 2 * REPLY
  BY <1>1, <1>4 DEF Ahead
<1> QED
  BY <1>1, <1>2, <1>3, <1>4

LEMMA AheadBegins == ASSUME NEW f \in Byte PROVE Ahead(f, 0) = f /\ After(f) = Ahead(f, 1)
  BY ByteParts, LinkNumbers DEF Ahead, After

LEMMA AfterTypes == ASSUME NEW b \in Byte PROVE After(b) \in Byte /\ b.reply <= After(b).reply
  BY LinkNumbers DEF Byte, After

LEMMA NoByteIsNone == NoByte \notin Byte /\ NoByte.offset = REPLY
  BY LinkNumbers DEF NoByte, Byte

LEMMA InitLinkInv == LinkInit => LinkInv
<1> SUFFICES ASSUME LinkInit PROVE LinkInv
  OBVIOUS
<1>1. next \in Byte /\ next.reply = 1 /\ first = next
  BY LinkNumbers DEF LinkInit, Byte
<1>2. LinkTypeOK
  <2>1. rx_len_uart2 \in 0 .. WINDOW
    BY LinkNumbers DEF LinkInit
  <2>2. frame_ready \in BOOLEAN /\ wiped \in BOOLEAN
    BY Zenon DEF LinkInit
  <2>3. tof_num \in Nat /\ last \in Nat /\ tof_pc \in {"test"}
    BY DEF LinkInit
  <2>4. rx_buffer_uart2 \in [Places -> Byte \cup {NoByte}]
    BY DEF LinkInit
  <2> QED
    BY <1>1, <2>1, <2>2, <2>3, <2>4 DEF LinkTypeOK
<1> QED
  BY <1>1, <1>2, LinkNumbers
     DEF LinkInit, LinkInv, WindowFills, WindowInOrder, RepliesAdvance, WindowHoldsAReply

LEMMA IrqKeeps == ASSUME LinkInv, USART2_IRQHandler PROVE LinkInv'
<1>1. /\ next' = After(next) /\ UNCHANGED <<tof_pc, tof_num, wiped, last>>
      /\ next \in Byte /\ first \in Byte /\ next' \in Byte /\ next.reply <= next'.reply
      /\ last \in Nat /\ rx_len_uart2 \in 0 .. WINDOW
  BY AfterTypes DEF USART2_IRQHandler, LinkInv, LinkTypeOK
<1>2. CASE frame_ready
  <2>1. UNCHANGED <<rx_buffer_uart2, rx_len_uart2, frame_ready, first>>
    BY <1>2 DEF USART2_IRQHandler, rx
  <2>2. LinkTypeOK' /\ WindowFills' /\ WindowHoldsAReply'
    BY <1>1, <2>1 DEF LinkInv, LinkTypeOK, WindowFills, WindowHoldsAReply
  <2>3. WindowInOrder'
    <3>1. rx_len_uart2 > 0 => Ahead(first, rx_len_uart2).reply <= next'.reply
      <4>1. /\ Ahead(first, rx_len_uart2).reply \in Nat
            /\ next.reply \in Nat /\ next'.reply \in Nat
        BY <1>1, AheadTypes, ByteParts
      <4> QED
        BY <1>1, <4>1 DEF LinkInv, WindowInOrder
    <3>2. \A i \in 0 .. rx_len_uart2' - 1 :
            \/ rx_buffer_uart2'[i] = Ahead(first', i)
            \/ wiped' /\ rx_buffer_uart2'[i] = NoByte
      <4> SUFFICES ASSUME NEW i \in 0 .. rx_len_uart2 - 1
                   PROVE  \/ rx_buffer_uart2[i] = Ahead(first, i)
                          \/ wiped /\ rx_buffer_uart2[i] = NoByte
        BY <1>1, <2>1
      <4> QED
        BY DEF LinkInv, WindowInOrder
    <3> QED
      BY <1>2, <2>1, <3>1, <3>2 DEF WindowInOrder
  <2>4. RepliesAdvance'
    BY <1>1, <2>1 DEF LinkInv, RepliesAdvance, Byte
  <2> QED
    BY <2>2, <2>3, <2>4 DEF LinkInv
<1>3. CASE ~frame_ready
  <2>1. /\ rx_buffer_uart2' = [rx_buffer_uart2 EXCEPT ![rx_len_uart2] = next]
        /\ rx_len_uart2' = rx_len_uart2 + 1
        /\ frame_ready' = (rx_len_uart2 + 1 >= WINDOW)
        /\ first' = IF rx_len_uart2 = 0 THEN next ELSE first
        /\ rx_len_uart2 < WINDOW /\ rx_len_uart2 \in Places
        /\ tof_pc \notin {"scan", "len", "ready"}
    BY <1>1, <1>3, LinkNumbers DEF USART2_IRQHandler, LinkInv, WindowFills, Places
  <2>2. frame_ready' = TRUE <=> rx_len_uart2 + 1 >= WINDOW
    BY <2>1
  <2>3. LinkTypeOK'
    <3>1. frame_ready' \in BOOLEAN
      BY <2>1
    <3>6. wiped' \in BOOLEAN
      BY <1>1, Zenon DEF LinkInv, LinkTypeOK
    <3>2. rx_len_uart2' \in 0 .. WINDOW
      BY <1>1, <2>1, LinkNumbers
    <3>3. rx_buffer_uart2' \in [Places -> Byte \cup {NoByte}]
      BY <1>1, <2>1 DEF LinkInv, LinkTypeOK
    <3>4. /\ tof_pc' \in {"test", "scan", "len", "ready", "wipe", "filter"}
          /\ tof_num' \in Nat /\ last' \in Nat
      BY <1>1 DEF LinkInv, LinkTypeOK
    <3>5. first' \in Byte
      BY <1>1, <2>1
    <3> QED
      BY <1>1, <3>1, <3>2, <3>3, <3>4, <3>5, <3>6 DEF LinkTypeOK
  <2>4. WindowFills'
    <3>1. CASE rx_len_uart2 + 1 >= WINDOW
      <4>1. rx_len_uart2' = WINDOW
        BY <1>1, <2>1, <3>1, LinkNumbers
      <4>2. frame_ready'
        BY <2>1, <3>1
      <4> QED
        BY <1>1, <2>1, <4>1, <4>2, LinkNumbers DEF WindowFills
    <3>2. CASE ~(rx_len_uart2 + 1 >= WINDOW)
      <4>1. rx_len_uart2' < WINDOW
        BY <1>1, <2>1, <3>2, LinkNumbers
      <4>2. ~frame_ready'
        BY <2>1, <3>2
      <4> QED
        BY <1>1, <2>1, <4>1, <4>2 DEF WindowFills
    <3> QED
      BY <3>1, <3>2
  <2>5. next = Ahead(first', rx_len_uart2) /\ next' = Ahead(first', rx_len_uart2')
    <3>1. CASE rx_len_uart2 = 0
      BY <1>1, <2>1, <3>1, AheadBegins
    <3>2. CASE rx_len_uart2 > 0
      <4>1. next = Ahead(first, rx_len_uart2) /\ first' = first
        BY <1>3, <2>1, <3>2 DEF LinkInv, WindowInOrder
      <4> QED
        BY <1>1, <2>1, <4>1, AheadNext, LinkNumbers
    <3> QED
      BY <1>1, <3>1, <3>2
  <2>6. WindowInOrder'
    <3>1. ASSUME NEW i \in 0 .. rx_len_uart2' - 1
          PROVE  \/ rx_buffer_uart2'[i] = Ahead(first', i)
                 \/ wiped' /\ rx_buffer_uart2'[i] = NoByte
      <4>1. CASE i = rx_len_uart2
        BY <2>1, <2>5, <4>1 DEF LinkInv, LinkTypeOK
      <4>2. CASE i # rx_len_uart2
        <5>1. i \in 0 .. rx_len_uart2 - 1 /\ first' = first
          BY <1>1, <2>1, <4>2
        <5>2. rx_buffer_uart2'[i] = rx_buffer_uart2[i]
          BY <2>1, <4>2, <5>1 DEF LinkInv, LinkTypeOK, Places
        <5> QED
          BY <1>1, <5>1, <5>2 DEF LinkInv, WindowInOrder
      <4> QED
        BY <4>1, <4>2
    <3>2. next'.reply <= next'.reply
      BY <1>1 DEF Byte
    <3> QED
      BY <2>5, <3>1, <3>2 DEF WindowInOrder
  <2>7. RepliesAdvance'
    BY <1>1, <2>1 DEF LinkInv, RepliesAdvance, Byte
  <2>8. WindowHoldsAReply'
    BY <1>1, <2>1 DEF WindowHoldsAReply
  <2> QED
    BY <2>3, <2>4, <2>6, <2>7, <2>8 DEF LinkInv
<1> QED
  BY <1>2, <1>3

-----------------------------------------------------------------------------
(* new_tof finds the reply the window holds.                               *)

(* Where the first whole reply of a window begins.                         *)
Start == IF first.offset = 0 THEN 0 ELSE REPLY - first.offset

LEMMA WholeReply ==
  ASSUME first \in Byte
  PROVE  /\ Start \in Nat /\ Start + REPLY <= WINDOW
         /\ \E r \in Nat : /\ r >= first.reply
                           /\ \A k \in 0 .. REPLY - 1 :
                                Ahead(first, Start + k) = [reply |-> r, offset |-> k]
         /\ \A i \in 0 .. Start - 1 : Ahead(first, i).offset > 0
<1>1. first.reply \in Nat /\ first.offset \in 0 .. REPLY - 1
  BY ByteParts
<1>2. CASE first.offset = 0
  <2>1. Start = 0
    BY <1>2 DEF Start
  <2>2. ASSUME NEW k \in 0 .. REPLY - 1
        PROVE  Ahead(first, Start + k) = [reply |-> first.reply, offset |-> k]
    <3>1. k < REPLY /\ k \in Int
      BY LinkNumbers
    <3>2. first.offset + (Start + k) = k
      BY <1>2, <2>1, <3>1
    <3> QED
      BY <3>1, <3>2 DEF Ahead
  <2>3. first.reply \in Nat /\ first.reply >= first.reply
    BY <1>1
  <2>4. Start \in Nat /\ Start + REPLY <= WINDOW /\ 0 .. Start - 1 = {}
    BY <2>1, LinkNumbers
  <2> QED
    BY <2>2, <2>3, <2>4
<1>3. CASE first.offset # 0
  <2>1. Start = REPLY - first.offset /\ Start \in 1 .. REPLY - 1
    BY <1>1, <1>3, LinkNumbers DEF Start
  <2>2. ASSUME NEW k \in 0 .. REPLY - 1
        PROVE  Ahead(first, Start + k) = [reply |-> first.reply + 1, offset |-> k]
    <3>1. first.offset + (Start + k) = REPLY + k
      BY <1>1, <2>1, LinkNumbers
    <3> QED
      BY <1>1, <2>1, <3>1, LinkNumbers DEF Ahead
  <2>3. ASSUME NEW i \in 0 .. Start - 1 PROVE Ahead(first, i).offset > 0
    <3>1. first.offset + i < REPLY /\ first.offset + i > 0
      BY <1>1, <1>3, <2>1, LinkNumbers
    <3> QED
      BY <3>1 DEF Ahead
  <2>4. first.reply + 1 \in Nat /\ first.reply + 1 >= first.reply
    BY <1>1
  <2>5. Start \in Nat /\ Start + REPLY <= WINDOW
    BY <2>1, LinkNumbers
  <2> QED
    BY <2>2, <2>3, <2>4, <2>5
<1> QED
  BY <1>2, <1>3

(* A window no byte of which was wiped yields its first whole reply.       *)
LEMMA FullWindowYields ==
  ASSUME LinkInv, rx_len_uart2 = WINDOW, ~wiped
  PROVE  \E i \in Heads : Counts(i) /\ \A j \in Heads : Counts(j) => At(j).reply > 0
<1>1. first \in Byte /\ first.reply > 0 /\ first.reply \in Nat
  BY ByteParts DEF LinkInv, LinkTypeOK, RepliesAdvance
<1>2. ASSUME NEW i \in 0 .. WINDOW - 1 PROVE At(i) = Ahead(first, i)
  BY <1>2 DEF LinkInv, WindowInOrder, At, Places
<1>3. PICK r \in Nat : /\ r >= first.reply
                       /\ \A k \in 0 .. REPLY - 1 :
                            Ahead(first, Start + k) = [reply |-> r, offset |-> k]
  BY <1>1, WholeReply
<1>4. Start \in Nat /\ Start + REPLY <= WINDOW
  BY <1>1, WholeReply
<1>5. ASSUME NEW k \in 0 .. REPLY - 1 PROVE At(Start + k) = [reply |-> r, offset |-> k]
  <2>1. Start + k \in 0 .. WINDOW - 1
    BY <1>4, LinkNumbers
  <2> QED
    BY <1>2, <1>3, <2>1
<1>6. Start \in Heads
  <2>1. Start \in 0 .. SCAN - 1
    BY <1>1, LinkNumbers, ByteParts DEF Start
  <2>2. ASSUME NEW k \in 0 .. 2 PROVE At(Start + k).offset = k
    <3>1. k \in 0 .. REPLY - 1
      BY LinkNumbers
    <3>2. At(Start + k) = [reply |-> r, offset |-> k]
      BY <1>5, <3>1
    <3> QED
      BY <3>2
  <2> QED
    BY <2>1, <2>2 DEF Heads
<1>7. ASSUME NEW y \in Heads PROVE Start <= y
  <2>1. y \in Nat /\ At(y + 0).offset = 0 /\ y + 0 = y
    BY LinkNumbers DEF Heads
  <2>2. SUFFICES ASSUME y < Start PROVE FALSE
    BY <1>4, <2>1
  <2>3. y \in 0 .. Start - 1 /\ y \in 0 .. WINDOW - 1
    BY <1>4, <2>1, <2>2, LinkNumbers
  <2>4. Ahead(first, y).offset > 0
    BY <1>1, <2>3, WholeReply
  <2> QED
    BY <1>2, <2>1, <2>3, <2>4
<1>8. ASSUME NEW j \in Heads, Counts(j) PROVE j = Start
  <2>1. j <= Start /\ Start <= j /\ j \in Int /\ Start \in Int
    BY <1>4, <1>6, <1>7, <1>8, LinkNumbers DEF Counts, Heads
  <2> QED
    BY <2>1
<1>9. At(Start).reply = r
  <2>1. 0 \in 0 .. REPLY - 1 /\ Start + 0 = Start
    BY <1>4, LinkNumbers
  <2>2. At(Start + 0) = [reply |-> r, offset |-> 0]
    BY <1>5, <2>1
  <2> QED
    BY <2>1, <2>2
<1>10. Counts(Start)
  BY <1>5, <1>7, <1>9 DEF Verified, Counts
<1>11. At(Start).reply > 0
  BY <1>1, <1>3, <1>9
<1> QED
  BY <1>6, <1>8, <1>10, <1>11

(* What new_tof returns is a reply of the window, whole.                   *)
LEMMA FoundIsNew ==
  ASSUME LinkInv, rx_len_uart2 = WINDOW, NEW m \in Heads, Verified(m)
  PROVE  /\ At(m).reply \in Nat
         /\ At(m).reply >= first.reply
         /\ At(m).reply < next.reply
<1> DEFINE r == At(m).reply
<1>1. m \in Nat
  BY LinkNumbers DEF Heads
<1>2. /\ first \in Byte /\ first.reply \in Nat
      /\ next.reply \in Nat
  BY ByteParts DEF LinkInv, LinkTypeOK
<1>3. ASSUME NEW k \in 0 .. REPLY - 1
      PROVE  m + k \in 0 .. WINDOW - 1 /\ Ahead(first, m + k) = [reply |-> r, offset |-> k]
  <2>1. At(m + k) = [reply |-> r, offset |-> k]
    BY DEF Verified
  <2>2. At(m + k) # NoByte
    <3>1. At(m + k).offset = k /\ k # REPLY
      BY <2>1, LinkNumbers
    <3> QED
      BY <3>1, NoByteIsNone
  <2>3. m + k \in 0 .. WINDOW - 1 /\ At(m + k) = rx_buffer_uart2[m + k]
    BY <2>2 DEF At, Places
  <2> QED
    BY <2>1, <2>2, <2>3 DEF LinkInv, WindowInOrder, Verified
<1>4. /\ 0 \in 0 .. REPLY - 1 /\ REPLY - 1 \in 0 .. REPLY - 1 /\ m + 0 = m
      /\ (m + (REPLY - 1)) + 1 = m + REPLY
  BY <1>1, LinkNumbers
<1>5. m \in 0 .. WINDOW - 1 /\ Ahead(first, m) = [reply |-> r, offset |-> 0]
  BY <1>3, <1>4
<1>6. /\ m + (REPLY - 1) \in 0 .. WINDOW - 1
      /\ Ahead(first, m + (REPLY - 1)) = [reply |-> r, offset |-> REPLY - 1]
  BY <1>3, <1>4
<1>7. r \in Nat /\ r >= first.reply
  <2>1. m \in 0 .. WINDOW
    BY <1>5, LinkNumbers
  <2>2. Ahead(first, m).reply \in Nat /\ first.reply <= Ahead(first, m).reply
    BY <1>2, <2>1, AheadTypes
  <2> QED
    BY <1>2, <1>5, <2>2
<1>8. Ahead(first, m + REPLY).reply = r + 1
  <2>1. After(Ahead(first, m + (REPLY - 1))) = Ahead(first, (m + (REPLY - 1)) + 1)
    BY <1>2, <1>6, AheadNext
  <2>2. After([reply |-> r, offset |-> REPLY - 1]).reply = r + 1
    BY LinkNumbers DEF After
  <2> QED
    BY <1>4, <1>6, <2>1, <2>2
<1>9. r + 1 <= next.reply
  <2>1. m + REPLY \in 0 .. WINDOW /\ WINDOW \in 0 .. WINDOW /\ m + REPLY <= WINDOW /\ WINDOW > 0
    BY <1>1, <1>6, LinkNumbers
  <2>2. Ahead(first, m + REPLY).reply <= Ahead(first, WINDOW).reply
    BY <1>2, <2>1, AheadOrder
  <2>3. Ahead(first, WINDOW).reply <= next.reply
    BY <2>1 DEF LinkInv, WindowInOrder
  <2>4. Ahead(first, WINDOW).reply \in Nat
    BY <1>2, <2>1, AheadTypes
  <2> QED
    BY <1>2, <1>7, <1>8, <2>2, <2>3, <2>4
<1> QED
  BY <1>2, <1>7, <1>9

-----------------------------------------------------------------------------
(* The steps of new_tof.                                                   *)

LEMMA LoopKeepsTypes ==
  ASSUME LinkInv, TofTest \/ TofScan \/ TofLen \/ TofReady \/ TofWipe
  PROVE  LinkTypeOK' /\ UNCHANGED <<next, first>>
<1>1. UNCHANGED <<next, first>>
  BY DEF TofTest, TofScan, TofLen, TofReady, TofWipe
<1>2. rx_len_uart2' \in 0 .. WINDOW /\ rx_buffer_uart2' \in [Places -> Byte \cup {NoByte}]
  BY LinkNumbers DEF LinkInv, LinkTypeOK, TofTest, TofScan, TofLen, TofReady, TofWipe, rx
<1>3. tof_pc' \in {"test", "scan", "len", "ready", "wipe", "filter"}
  <2>1. CASE TofTest
    BY <2>1 DEF TofTest
  <2> QED
    BY <2>1 DEF TofScan, TofLen, TofReady, TofWipe
<1>4. frame_ready' \in BOOLEAN
  <2>1. CASE TofReady
    BY <2>1, Zenon DEF TofReady
  <2>2. CASE ~TofReady
    <3>1. frame_ready' = frame_ready
      BY <2>2 DEF TofTest, TofScan, TofLen, TofWipe, rx
    <3> QED
      BY <3>1, Zenon DEF LinkInv, LinkTypeOK
  <2> QED
    BY <2>1, <2>2
<1>5. wiped' \in BOOLEAN
  <2>1. CASE TofWipe
    <3>1. wiped' = (rx_len_uart2 > 0)
      BY <2>1 DEF TofWipe
    <3> QED
      BY <3>1
  <2>2. CASE ~TofWipe
    <3>1. wiped' = wiped \/ wiped' = FALSE
      BY <2>2 DEF TofTest, TofScan, TofLen, TofReady
    <3> QED
      BY <3>1, Zenon DEF LinkInv, LinkTypeOK
  <2> QED
    BY <2>1, <2>2
<1>6. tof_num' \in Nat /\ last' \in Nat
  <2>1. CASE TofScan
    <3>1. frame_ready /\ rx_len_uart2 = WINDOW /\ last \in Nat
      BY <2>1 DEF TofScan, LinkInv, LinkTypeOK, WindowFills
    <3>2. tof_num' \in Nat
      BY <2>1, <3>1, FoundIsNew DEF TofScan, Counts
    <3> QED
      BY <2>1, <3>1, <3>2 DEF TofScan
  <2>2. CASE ~TofScan
    BY <2>2 DEF LinkInv, LinkTypeOK, TofTest, TofLen, TofReady, TofWipe
  <2> QED
    BY <2>1, <2>2
<1> QED
  BY <1>1, <1>2, <1>3, <1>4, <1>5, <1>6 DEF LinkInv, LinkTypeOK

LEMMA ScanKeeps ==
  ASSUME LinkInv, TofScan
  PROVE  LinkInv' /\ (tof_num' # 0 => tof_num' > last)
<1>1. /\ LinkTypeOK' /\ tof_pc = "scan" /\ tof_pc' = "len"
      /\ UNCHANGED <<next, rx_buffer_uart2, rx_len_uart2, frame_ready, first, wiped>>
      /\ last' = IF tof_num' # 0 THEN tof_num' ELSE last
  BY LoopKeepsTypes DEF TofScan, rx
<1>2. /\ frame_ready /\ rx_len_uart2 = WINDOW /\ WINDOW > 0
      /\ first \in Byte /\ next \in Byte /\ last \in Nat
      /\ last < next.reply /\ last < first.reply /\ first.reply > 0
  BY <1>1, LinkNumbers DEF LinkInv, LinkTypeOK, WindowFills, RepliesAdvance
<1>3. /\ tof_num' \in Nat
      /\ tof_num' # 0 => first.reply <= tof_num' /\ tof_num' < next.reply
  BY <1>2, FoundIsNew DEF TofScan, Counts
<1>4. tof_num' # 0 => tof_num' > last
  BY <1>2, <1>3, ByteParts
<1>5. WindowFills' /\ WindowInOrder'
  <2>1. \A i \in 0 .. rx_len_uart2' - 1 :
          \/ rx_buffer_uart2'[i] = Ahead(first', i)
          \/ wiped' /\ rx_buffer_uart2'[i] = NoByte
    BY <1>1 DEF LinkInv, WindowInOrder
  <2>2. Ahead(first', rx_len_uart2').reply <= next'.reply
    BY <1>1, <1>2 DEF LinkInv, WindowInOrder
  <2> QED
    BY <1>1, <1>2, <2>1, <2>2 DEF WindowFills, WindowInOrder
<1>6. RepliesAdvance'
  <2>1. last' < next'.reply
    BY <1>1, <1>2, <1>3
  <2> QED
    BY <1>1, <1>2, <2>1 DEF RepliesAdvance
<1>7. WindowHoldsAReply'
  <2>1. SUFFICES ASSUME ~wiped PROVE tof_num' # 0
    BY <1>1 DEF WindowHoldsAReply
  <2>2. \E i \in Heads : Counts(i) /\ \A j \in Heads : Counts(j) => At(j).reply > 0
    BY <1>2, <2>1, FullWindowYields
  <2>3. PICK i \in Heads : Counts(i) /\ tof_num' = At(i).reply
    BY <2>2 DEF TofScan
  <2>4. At(i).reply > 0
    BY <2>2, <2>3
  <2> QED
    BY <2>3, <2>4
<1> QED
  BY <1>1, <1>4, <1>5, <1>6, <1>7 DEF LinkInv

LEMMA ResetKeeps ==
  ASSUME LinkInv, TofTest \/ TofLen \/ TofReady \/ TofWipe
  PROVE  LinkInv'
<1>1. LinkTypeOK' /\ UNCHANGED <<next, first>>
  BY LoopKeepsTypes
<1>2. /\ last' = last /\ last < next.reply /\ first.reply > 0
      /\ rx_len_uart2 \in 0 .. WINDOW
  BY DEF TofTest, TofLen, TofReady, TofWipe, LinkInv, RepliesAdvance, LinkTypeOK
<1>3. CASE TofTest
  <2>1. /\ UNCHANGED <<rx_buffer_uart2, rx_len_uart2, frame_ready, wiped>>
        /\ tof_pc = "test" /\ tof_num' = 0
        /\ tof_pc' = IF frame_ready THEN "scan" ELSE "filter"
    BY <1>3 DEF TofTest, rx
  <2>2. WindowFills'
    BY <2>1 DEF LinkInv, WindowFills
  <2>3. WindowInOrder'
    <3>1. \A i \in 0 .. rx_len_uart2' - 1 :
            \/ rx_buffer_uart2'[i] = Ahead(first', i)
            \/ wiped' /\ rx_buffer_uart2'[i] = NoByte
      BY <1>1, <2>1 DEF LinkInv, WindowInOrder
    <3>2. rx_len_uart2' > 0 /\ ~frame_ready' => next' = Ahead(first', rx_len_uart2')
      BY <1>1, <2>1 DEF LinkInv, WindowInOrder
    <3>3. rx_len_uart2' > 0 => Ahead(first', rx_len_uart2').reply <= next'.reply
      BY <1>1, <2>1 DEF LinkInv, WindowInOrder
    <3> QED
      BY <3>1, <3>2, <3>3 DEF WindowInOrder
  <2>4. RepliesAdvance' /\ WindowHoldsAReply'
    BY <1>1, <1>2, <2>1 DEF LinkInv, RepliesAdvance, WindowHoldsAReply
  <2> QED
    BY <1>1, <2>2, <2>3, <2>4 DEF LinkInv
<1>4. CASE TofLen
  <2>1. /\ UNCHANGED frame_ready /\ rx_len_uart2' = 0
        /\ tof_pc = "len" /\ tof_pc' = "ready"
    BY <1>4 DEF TofLen
  <2>2. frame_ready
    BY <2>1 DEF LinkInv, WindowFills
  <2>3. WindowFills' /\ WindowInOrder'
    BY <2>1, <2>2 DEF WindowFills, WindowInOrder
  <2>4. RepliesAdvance' /\ WindowHoldsAReply'
    BY <1>1, <1>2, <2>1 DEF RepliesAdvance, WindowHoldsAReply
  <2> QED
    BY <1>1, <2>3, <2>4 DEF LinkInv
<1>5. CASE TofReady
  <2>1. /\ frame_ready' = FALSE /\ UNCHANGED rx_len_uart2
        /\ tof_pc = "ready" /\ tof_pc' = "wipe"
    BY <1>5 DEF TofReady
  <2>2. rx_len_uart2 = 0
    BY <2>1 DEF LinkInv, WindowFills
  <2>3. WindowFills' /\ WindowInOrder'
    BY <2>1, <2>2, LinkNumbers DEF WindowFills, WindowInOrder
  <2>4. RepliesAdvance' /\ WindowHoldsAReply'
    BY <1>1, <1>2, <2>1, <2>2 DEF RepliesAdvance, WindowHoldsAReply
  <2> QED
    BY <1>1, <2>3, <2>4 DEF LinkInv
<1>6. CASE TofWipe
  <2>1. /\ rx_buffer_uart2' = [i \in Places |-> NoByte] /\ wiped' = (rx_len_uart2 > 0)
        /\ UNCHANGED <<frame_ready, rx_len_uart2>>
        /\ tof_pc = "wipe" /\ tof_pc' = "filter"
    BY <1>6 DEF TofWipe
  <2>2. WindowFills'
    BY <2>1 DEF LinkInv, WindowFills
  <2>3. WindowInOrder'
    <3>1. ASSUME NEW i \in 0 .. rx_len_uart2' - 1 PROVE wiped' /\ rx_buffer_uart2'[i] = NoByte
      <4>1. i \in Places /\ rx_len_uart2 > 0
        BY <1>2, <2>1, LinkNumbers DEF Places
      <4> QED
        BY <2>1, <4>1
    <3>2. rx_len_uart2' > 0 /\ ~frame_ready' => next' = Ahead(first', rx_len_uart2')
      BY <1>1, <2>1 DEF LinkInv, WindowInOrder
    <3>3. rx_len_uart2' > 0 => Ahead(first', rx_len_uart2').reply <= next'.reply
      BY <1>1, <2>1 DEF LinkInv, WindowInOrder
    <3> QED
      BY <3>1, <3>2, <3>3 DEF WindowInOrder
  <2>4. RepliesAdvance' /\ WindowHoldsAReply'
    BY <1>1, <1>2, <2>1 DEF LinkInv, RepliesAdvance, WindowHoldsAReply
  <2> QED
    BY <1>1, <2>2, <2>3, <2>4 DEF LinkInv
<1> QED
  BY <1>3, <1>4, <1>5, <1>6

LEMMA FilterKeepsLink == ASSUME LinkInv, Filter PROVE LinkInv'
<1>1. /\ UNCHANGED <<next, rx_buffer_uart2, rx_len_uart2, frame_ready, tof_num, first, wiped, last>>
      /\ tof_pc = "filter" /\ tof_pc' = "test"
  BY DEF Filter, rx
<1>2. LinkTypeOK' /\ WindowFills' /\ RepliesAdvance' /\ WindowHoldsAReply'
  BY <1>1 DEF LinkInv, LinkTypeOK, WindowFills, RepliesAdvance, WindowHoldsAReply
<1>3. WindowInOrder'
  <2>1. \A i \in 0 .. rx_len_uart2' - 1 :
          \/ rx_buffer_uart2'[i] = Ahead(first', i)
          \/ wiped' /\ rx_buffer_uart2'[i] = NoByte
    BY <1>1 DEF LinkInv, WindowInOrder
  <2>2. rx_len_uart2' > 0 /\ ~frame_ready' => next' = Ahead(first', rx_len_uart2')
    BY <1>1 DEF LinkInv, WindowInOrder
  <2>3. rx_len_uart2' > 0 => Ahead(first', rx_len_uart2').reply <= next'.reply
    BY <1>1 DEF LinkInv, WindowInOrder
  <2> QED
    BY <2>1, <2>2, <2>3 DEF WindowInOrder
<1> QED
  BY <1>2, <1>3 DEF LinkInv

-----------------------------------------------------------------------------
(* The filter.                                                             *)

Accepted(n) == lowest <= n /\ n <= highest

FilterInv ==
  /\ FilterTypeOK
  /\ \A i \in 0 .. init_count - 1 : Accepted(tof_buffer[i])
  /\ Filling => buffer_index = init_count
  /\ ~Filling => Accepted(last_valid_value)

LEMMA InitFilterInv == FilterInit => FilterInv
<1> SUFFICES ASSUME FilterInit PROVE FilterInv
  OBVIOUS
<1>1. MAX_DISTANCE \in Nat
  BY FilterAssumption
<1> QED
  BY <1>1 DEF FilterInit, FilterInv, FilterTypeOK, Filling, FILTER_WINDOW

(* What enters the window lies between the new distance and the last valid *)
(* value, or is the new distance.                                          *)
LEMMA LimitedIsBetween ==
  ASSUME FilterTypeOK, NEW d \in 1 .. MAX_DISTANCE
  PROVE  /\ limit_filter(d) \in 0 .. MAX_DISTANCE
         /\ Filling => limit_filter(d) = d
         /\ \/ limit_filter(d) = d
            \/ last_valid_value <= limit_filter(d) /\ limit_filter(d) <= d
            \/ d <= limit_filter(d) /\ limit_filter(d) <= last_valid_value
<1>1. /\ MAX_DISTANCE \in Nat /\ MAX_ALLOWED_CHANGE \in Nat /\ d \in Nat
      /\ last_valid_value \in 0 .. MAX_DISTANCE
  BY FilterAssumption DEF FilterTypeOK
<1>2. CASE Filling
  BY <1>1, <1>2 DEF limit_filter
<1>3. CASE ~Filling /\ d > last_valid_value + MAX_ALLOWED_CHANGE
  <2>1. limit_filter(d) = last_valid_value + MAX_ALLOWED_CHANGE
    BY <1>1, <1>3 DEF limit_filter
  <2> QED
    BY <1>1, <1>3, <2>1
<1>4. CASE ~Filling /\ d < last_valid_value - MAX_ALLOWED_CHANGE
  <2>1. limit_filter(d) = last_valid_value - MAX_ALLOWED_CHANGE
    BY <1>1, <1>4 DEF limit_filter
  <2> QED
    BY <1>1, <1>4, <2>1
<1>5. CASE /\ ~Filling /\ ~(d > last_valid_value + MAX_ALLOWED_CHANGE)
           /\ ~(d < last_valid_value - MAX_ALLOWED_CHANGE)
  BY <1>1, <1>5 DEF limit_filter
<1> QED
  BY <1>2, <1>3, <1>4, <1>5

(* The average of four values is between the bounds of all of them.        *)
LEMMA AverageIsBetween ==
  ASSUME NEW b, NEW l \in Nat, NEW h \in Nat,
         \A i \in 0 .. 3 : b[i] \in Nat /\ l <= b[i] /\ b[i] <= h
  PROVE  Average(b) \in Nat /\ l <= Average(b) /\ Average(b) <= h
<1>1. PICK p \in Nat, q \in Nat, r \in Nat, t \in Nat :
        /\ p = b[0] /\ q = b[1] /\ r = b[2] /\ t = b[3]
        /\ l <= p /\ l <= q /\ l <= r /\ l <= t
        /\ p <= h /\ q <= h /\ r <= h /\ t <= h
  OBVIOUS
<1>2. (p + q + r + t) \div 4 \in Nat /\ l <= (p + q + r + t) \div 4 /\ (p + q + r + t) \div 4 <= h
  BY <1>1
<1> QED
  BY <1>1, <1>2 DEF Average, FILTER_WINDOW

LEMMA FilterKeeps ==
  ASSUME FilterInv, NEW d \in Nat, filtered_tof(d)
  PROVE  FilterInv'
<1>1. CASE d <= 0 \/ d > MAX_DISTANCE
  <2>1. UNCHANGED filterVars
    BY <1>1 DEF filtered_tof
  <2> QED
    BY <2>1 DEF filterVars, FilterInv, FilterTypeOK, Filling, Accepted
<1>2. CASE ~(d <= 0 \/ d > MAX_DISTANCE)
  <2> DEFINE v == limit_filter(d)
  <2>1. /\ tof_buffer' = [tof_buffer EXCEPT ![buffer_index] = v]
        /\ buffer_index' = NextIndex
        /\ last_valid_value' = Average(tof_buffer')
        /\ init_count' = IF Filling THEN init_count + 1 ELSE init_count
        /\ lowest' = IF d < lowest THEN d ELSE lowest
        /\ highest' = IF d > highest THEN d ELSE highest
    BY <1>2 DEF filtered_tof
  <2>2. /\ MAX_DISTANCE \in Nat /\ d \in 1 .. MAX_DISTANCE
        /\ tof_buffer \in [0 .. 3 -> 0 .. MAX_DISTANCE] /\ buffer_index \in 0 .. 3
        /\ last_valid_value \in 0 .. MAX_DISTANCE /\ init_count \in 0 .. 4
        /\ lowest \in 0 .. MAX_DISTANCE /\ highest \in 0 .. MAX_DISTANCE
        /\ FILTER_WINDOW = 4
    BY <1>2, FilterAssumption DEF FilterInv, FilterTypeOK, FILTER_WINDOW
  <2>3. /\ v \in 0 .. MAX_DISTANCE
        /\ Filling => v = d
        /\ \/ v = d
           \/ last_valid_value <= v /\ v <= d
           \/ d <= v /\ v <= last_valid_value
    BY <2>2, LimitedIsBetween DEF FilterInv
  <2>4. /\ lowest' \in 0 .. MAX_DISTANCE /\ highest' \in 0 .. MAX_DISTANCE
        /\ lowest' <= lowest /\ highest <= highest'
        /\ lowest' <= d /\ d <= highest'
    BY <2>1, <2>2
  <2>5. lowest' <= v /\ v <= highest'
    <3>1. CASE Filling
      BY <2>3, <2>4, <3>1
    <3>2. CASE ~Filling
      <4>1. lowest <= last_valid_value /\ last_valid_value <= highest
        BY <3>2 DEF FilterInv, Accepted
      <4> QED
        BY <2>2, <2>3, <2>4, <4>1
    <3> QED
      BY <3>1, <3>2
  <2>6. tof_buffer' \in [0 .. 3 -> 0 .. MAX_DISTANCE]
    BY <2>1, <2>2, <2>3
  <2>7. buffer_index' \in 0 .. 3 /\ init_count' \in 0 .. 4
    <3>1. buffer_index' = (buffer_index + 1) % 4
      BY <2>1, <2>2 DEF NextIndex
    <3>2. buffer_index' \in 0 .. 3
      BY <2>2, <3>1
    <3>3. init_count' \in 0 .. 4
      BY <2>1, <2>2 DEF Filling
    <3> QED
      BY <3>2, <3>3
  <2>8. last_valid_value' \in 0 .. MAX_DISTANCE
    <3>1. \A i \in 0 .. 3 : tof_buffer'[i] \in Nat /\ 0 <= tof_buffer'[i] /\ tof_buffer'[i] <= MAX_DISTANCE
      BY <2>2, <2>6
    <3>2. Average(tof_buffer') \in Nat /\ Average(tof_buffer') <= MAX_DISTANCE
      BY <2>2, <3>1, AverageIsBetween
    <3> QED
      BY <2>1, <2>2, <3>2
  <2>9. FilterTypeOK'
    BY <2>2, <2>4, <2>6, <2>7, <2>8 DEF FilterTypeOK
  <2>10. PICK n \in 0 .. 4 : n = init_count'
    BY <2>7
  <2>11. ASSUME NEW i \in 0 .. n - 1
         PROVE  lowest' <= tof_buffer'[i] /\ tof_buffer'[i] <= highest'
    <3>1. i \in 0 .. 3
      OBVIOUS
    <3>2. CASE i = buffer_index
      BY <2>1, <2>2, <2>5, <3>2
    <3>3. CASE i # buffer_index
      <4>1. i \in 0 .. init_count - 1
        <5>1. CASE Filling
          BY <2>1, <2>2, <2>10, <3>3, <5>1 DEF FilterInv
        <5>2. CASE ~Filling
          BY <2>1, <2>10, <5>2
        <5> QED
          BY <5>1, <5>2
      <4>2. lowest <= tof_buffer[i] /\ tof_buffer[i] <= highest
        BY <4>1 DEF FilterInv, Accepted
      <4>3. tof_buffer'[i] = tof_buffer[i] /\ tof_buffer[i] \in 0 .. MAX_DISTANCE
        BY <2>1, <2>2, <3>1, <3>3
      <4> QED
        BY <2>2, <2>4, <4>2, <4>3
    <3> QED
      BY <3>2, <3>3
  <2>12. Filling' => buffer_index' = init_count'
    <3>1. SUFFICES ASSUME init_count' < 4 PROVE buffer_index' = init_count'
      BY <2>2 DEF Filling, FILTER_WINDOW
    <3>2. Filling /\ init_count + 1 < 4 /\ init_count' = init_count + 1
      BY <2>1, <2>2, <3>1 DEF Filling
    <3>3. buffer_index = init_count
      BY <3>2 DEF FilterInv
    <3>4. buffer_index' = (buffer_index + 1) % 4
      BY <2>1, <2>2 DEF NextIndex
    <3> QED
      BY <2>2, <3>2, <3>3, <3>4
  <2>13. ~Filling' => lowest' <= last_valid_value' /\ last_valid_value' <= highest'
    <3>1. SUFFICES ASSUME ~(init_count' < 4)
                   PROVE  lowest' <= last_valid_value' /\ last_valid_value' <= highest'
      BY <2>2 DEF Filling, FILTER_WINDOW
    <3>2. init_count' = 4
      BY <2>7, <3>1
    <3>3. \A i \in 0 .. 3 :
            tof_buffer'[i] \in Nat /\ lowest' <= tof_buffer'[i] /\ tof_buffer'[i] <= highest'
      BY <2>6, <2>11, <2>10, <3>2
    <3>4. lowest' \in Nat /\ highest' \in Nat
      BY <2>4
    <3>5. lowest' <= Average(tof_buffer') /\ Average(tof_buffer') <= highest'
      BY <3>3, <3>4, AverageIsBetween
    <3>6. last_valid_value' = Average(tof_buffer')
      BY <2>1
    <3> QED
      BY <3>5, <3>6
  <2> QED
    BY <2>9, <2>11, <2>12, <2>13, <2>10 DEF FilterInv, Accepted
<1> QED
  BY <1>1, <1>2

-----------------------------------------------------------------------------
(* The sensor.                                                             *)

SensorInv == LinkInv /\ FilterInv

LEMMA SensorStep == SensorInv /\ [SNext]_sensorVars => SensorInv'
<1> SUFFICES ASSUME SensorInv, [SNext]_sensorVars PROVE SensorInv'
  OBVIOUS
<1>1. CASE UNCHANGED filterVars
  <2>1. FilterInv'
    BY <1>1 DEF SensorInv, filterVars, FilterInv, FilterTypeOK, Filling, Accepted
  <2>2. CASE new_tof
    <3>1. LinkInv'
      BY <2>2, ScanKeeps, ResetKeeps DEF SensorInv, new_tof
    <3> QED
      BY <2>1, <3>1 DEF SensorInv
  <2>3. CASE USART2_IRQHandler
    <3>1. LinkInv'
      BY <2>3, IrqKeeps DEF SensorInv
    <3> QED
      BY <2>1, <3>1 DEF SensorInv
  <2>4. CASE Filter
    <3>1. LinkInv'
      BY <2>4, FilterKeepsLink DEF SensorInv
    <3> QED
      BY <2>1, <3>1 DEF SensorInv
  <2>5. CASE UNCHANGED sensorVars
    <3>1. LinkInv'
      BY <2>5 DEF SensorInv, sensorVars, linkVars, rx, LinkInv, LinkTypeOK, WindowFills,
                  WindowInOrder, RepliesAdvance, WindowHoldsAReply, Ahead
    <3> QED
      BY <2>1, <3>1 DEF SensorInv
  <2> QED
    BY <2>2, <2>3, <2>4, <2>5 DEF SNext, SLoop
<1>2. CASE Filter
  <2>1. LinkInv'
    BY <1>2, FilterKeepsLink DEF SensorInv
  <2>2. PICK d \in Nat : filtered_tof(d)
    BY <1>2, DistancesAssumption DEF Filter
  <2>3. FilterInv'
    BY <2>2, FilterKeeps DEF SensorInv
  <2> QED
    BY <2>1, <2>3 DEF SensorInv
<1> QED
  BY <1>1, <1>2 DEF SNext, SLoop, sensorVars

LEMMA SensorInvariance == SSpec => []SensorInv
<1>1. SInit => SensorInv
  BY InitLinkInv, InitFilterInv DEF SInit, SensorInv
<1> QED
  BY <1>1, SensorStep, PTL DEF SSpec

(* The window, its length and the flag stay what the interrupt and new_tof *)
(* take them for, wherever the one interrupts the other.                   *)
THEOREM LinkTypeCorrect == SSpec => []LinkTypeOK
<1>1. SensorInv => LinkTypeOK
  BY DEF SensorInv, LinkInv
<1> QED
  BY <1>1, SensorInvariance, PTL

(* A whole window, none of whose bytes was wiped, always yields a distance.*)
THEOREM WindowsYield == SSpec => []WindowHoldsAReply
<1>1. SensorInv => WindowHoldsAReply
  BY DEF SensorInv, LinkInv
<1> QED
  BY <1>1, SensorInvariance, PTL

(* What the filter returns, once it is full, lies between the distances it *)
(* accepted.                                                               *)
THEOREM FilterStaysInHull == SSpec => []FilterInHull
<1>1. SensorInv => FilterInHull
  <2> SUFFICES ASSUME SensorInv PROVE FilterInHull
    OBVIOUS
  <2>1. ~Filling => init_count = 4
    BY DEF SensorInv, FilterInv, FilterTypeOK, Filling, FILTER_WINDOW
  <2> QED
    BY <2>1 DEF SensorInv, FilterInv, FilterInHull, Accepted, FILTER_WINDOW
<1> QED
  BY <1>1, SensorInvariance, PTL

(* The distances the filter is given come in the order of their replies,   *)
(* each once.                                                              *)
THEOREM RepliesInOrder == SSpec => DistancesAdvance
<1>1. SensorInv /\ [SNext]_sensorVars => [tof_pc = "scan" /\ tof_num' # 0 => tof_num' > last]_linkVars
  <2> SUFFICES ASSUME SensorInv, [SNext]_sensorVars, tof_pc = "scan", tof_num' # 0, ~UNCHANGED linkVars
               PROVE  tof_num' > last
    OBVIOUS
  <2>1. CASE TofScan
    BY <2>1, ScanKeeps DEF SensorInv
  <2>2. CASE USART2_IRQHandler
    <3>1. tof_num' = tof_num
      BY <2>2 DEF USART2_IRQHandler
    <3> QED
      BY <3>1 DEF SensorInv, LinkInv, RepliesAdvance
  <2> QED
    BY <2>1, <2>2 DEF SNext, SLoop, new_tof, TofTest, TofLen, TofReady, TofWipe, Filter, sensorVars
<1> QED
  BY <1>1, SensorInvariance, PTL DEF SSpec, DistancesAdvance
=============================================================================
