------------------------------ MODULE GyroProofs -----------------------------
(***************************************************************************)
(* For a ring, DMA buffers and a stream of any length: the ring of         *)
(* GyroLink counts what it holds until a decrement is torn, and holds it   *)
(* in order until a store behind g_rx_data_buffer hits an unread slot.     *)
(* Torn or not it never counts a byte it did not accept.                   *)
(*                                                                         *)
(* GInv is inductive.  Positions says where RecvPos is, in terms without a *)
(* remainder: the queue begins at SendPos and ends before RecvPos, up to a *)
(* turn of the ring.                                                       *)
(***************************************************************************)
EXTENDS GyroAngle, SequenceTheorems, TLAPS

(* What the accesses of a pop may rely on.                                 *)
PopUnderWay ==
  /\ pc \in {"take", "load"} => RemainCount > 0
  /\ pc = "store" => loaded > 0 /\ loaded <= RemainCount

Positions ==
  ~torn => /\ Len(queue) <= RING_BUFFER_LEN
           /\ \E turn \in {-RING_BUFFER_LEN, 0, RING_BUFFER_LEN} :
                RecvPos = SendPos + Len(queue) + turn

GInv == GyroTypeOK /\ PopUnderWay /\ NeverAhead /\ RingIsQueue /\ Positions

-----------------------------------------------------------------------------
(* A remainder within a turn of the ring.                                  *)
LEMMA WithinATurn ==
  ASSUME NEW L \in Nat \ {0}, NEW x \in Int, -L <= x, x < 2 * L
  PROVE  x % L = IF x < 0 THEN x + L ELSE IF x < L THEN x ELSE x - L
<1>1. CASE x < 0
  <2>1. x % L = x + L
    BY <1>1
  <2> QED
    BY <1>1, <2>1
<1>2. CASE 0 <= x /\ x < L
  <2>1. x % L = x
    BY <1>2
  <2> QED
    BY <1>2, <2>1
<1>3. CASE L <= x
  <2>1. x % L = x - L
    BY <1>3
  <2> QED
    BY <1>3, <2>1
<1> QED
  BY <1>1, <1>2, <1>3

LEMMA InitGInv == GInit => GInv
<1> SUFFICES ASSUME GInit PROVE GInv
  OBVIOUS
<1>1. queue \in Seq(1 .. MAX_BYTES) /\ Len(queue) = 0
  BY DEF GInit
<1>2. GyroTypeOK
  <2>1. torn \in BOOLEAN
    BY DEF GInit
  <2>2. buffer \in [Slots -> 0 .. MAX_BYTES] /\ 0 \in Slots
    BY GyroAssumption DEF GInit, Slots
  <2>3. 0 \in 0 .. RING_BUFFER_LEN /\ 0 \in 0 .. RX_BUFFER_LEN /\ 0 \in 0 .. MAX_BYTES
    BY GyroAssumption
  <2>4. spoiled \in BOOLEAN
    BY DEF GInit
  <2> QED
    BY <1>1, <2>1, <2>2, <2>3, <2>4 DEF GInit, GyroTypeOK
<1>3. Positions
  <2>1. RecvPos = SendPos + Len(queue) + 0 /\ Len(queue) <= RING_BUFFER_LEN
    BY <1>1, GyroAssumption DEF GInit
  <2> QED
    BY <2>1 DEF Positions
<1> QED
  BY <1>1, <1>2, <1>3 DEF GInit, GInv, PopUnderWay, NeverAhead, RingIsQueue, Held,
                                   Counted

(* The types of what a push works on.                                      *)
LEMMA PushTypes ==
  ASSUME GyroTypeOK, filled > 0
  PROVE  /\ RING_BUFFER_LEN \in Nat \ {0} /\ RecvPos \in 0 .. RING_BUFFER_LEN
         /\ RemainCount \in Nat /\ Accepted(filled) \in 0 .. filled
         /\ RemainCount + Accepted(filled) <= RING_BUFFER_LEN
         /\ arrived - filled \in Nat /\ arrived \in 0 .. MAX_BYTES
  BY GyroAssumption DEF GyroTypeOK, Accepted

(* ring_buffer_push_huge appends the bytes it accepts.                     *)
LEMMA PushAppends ==
  ASSUME NEW from \in Nat, NEW n \in Nat, from + n <= MAX_BYTES, MAX_BYTES \in Nat,
         queue \in Seq(1 .. MAX_BYTES),
         NEW new, new = [i \in 1 .. n |-> from + i], queue' = queue \o new
  PROVE  /\ queue' \in Seq(1 .. MAX_BYTES) /\ Len(queue') = Len(queue) + n
         /\ \A i \in 1 .. Len(queue) : queue'[i] = queue[i]
         /\ \A i \in 1 .. n : queue'[Len(queue) + i] = from + i
<1>1. new \in Seq(1 .. MAX_BYTES) /\ Len(new) = n
  BY IsASeq
<1>2. Len(queue) \in Nat
  OBVIOUS
<1>3. /\ queue' \in Seq(1 .. MAX_BYTES) /\ Len(queue') = Len(queue) + n
      /\ \A i \in 1 .. Len(queue) + n :
           queue'[i] = IF i <= Len(queue) THEN queue[i] ELSE new[i - Len(queue)]
  BY <1>1, ConcatProperties
<1> QED
  BY <1>2, <1>3

LEMMA HandOverKeeps == ASSUME GInv, HandOver PROVE GInv'
<1> DEFINE n    == Accepted(filled)
           from == arrived - filled
<1>1. /\ filled > 0 /\ filled' = 0 /\ torn' = (torn \/ pc = "store")
      /\ RecvPos' = EndPos(n) /\ RemainCount' = RemainCount + n
      /\ buffer' = [s \in Slots |->
           IF (s - RecvPos) % RING_BUFFER_LEN < n
             THEN from + ((s - RecvPos) % RING_BUFFER_LEN) + 1 ELSE buffer[s]]
      /\ queue' = queue \o [i \in 1 .. n |-> from + i]
      /\ UNCHANGED <<SendPos, arrived, pc, popped, loaded, g_rx_data_len, copied, spoiled>>
  BY DEF HandOver, PushHuge, reader
<1>2. /\ RING_BUFFER_LEN \in Nat \ {0} /\ RecvPos \in 0 .. RING_BUFFER_LEN
      /\ RemainCount \in Nat /\ n \in 0 .. filled /\ RemainCount + n <= RING_BUFFER_LEN
      /\ from \in Nat /\ arrived \in 0 .. MAX_BYTES
  BY <1>1, PushTypes DEF GInv
<1>3. filled \in Nat /\ from + filled = arrived /\ from + n <= MAX_BYTES /\ MAX_BYTES \in Nat
  BY <1>2, GyroAssumption DEF GInv, GyroTypeOK
<1> HIDE DEF n, from
<1>4. /\ queue' \in Seq(1 .. MAX_BYTES) /\ Len(queue') = Len(queue) + n
      /\ \A i \in 1 .. Len(queue) : queue'[i] = queue[i]
      /\ \A i \in 1 .. n : queue'[Len(queue) + i] = from + i
  <2>1. queue \in Seq(1 .. MAX_BYTES) /\ n \in Nat
    BY <1>2, <1>3 DEF GInv, GyroTypeOK
  <2> QED
    BY <1>1, <1>2, <1>3, <2>1, PushAppends
<1> DEFINE Place(s) == IF s < RecvPos THEN s - RecvPos + RING_BUFFER_LEN ELSE s - RecvPos
<1>5. ASSUME NEW s \in Slots PROVE (s - RecvPos) % RING_BUFFER_LEN = Place(s)
  <2>1. /\ s - RecvPos \in Int
        /\ -RING_BUFFER_LEN <= s - RecvPos /\ s - RecvPos < RING_BUFFER_LEN
        /\ s - RecvPos < 2 * RING_BUFFER_LEN
    BY <1>2 DEF Slots
  <2>2. (s - RecvPos) % RING_BUFFER_LEN =
          IF s - RecvPos < 0 THEN s - RecvPos + RING_BUFFER_LEN
          ELSE IF s - RecvPos < RING_BUFFER_LEN THEN s - RecvPos
               ELSE s - RecvPos - RING_BUFFER_LEN
    BY <1>2, <2>1, WithinATurn
  <2> QED
    BY <1>2, <2>1, <2>2 DEF Slots
<1>6. \A s \in Slots : buffer'[s] = IF Place(s) < n THEN from + Place(s) + 1 ELSE buffer[s]
  BY <1>1, <1>5
<1>7. buffer' \in [Slots -> 0 .. MAX_BYTES]
  <2>1. ASSUME NEW s \in Slots PROVE buffer'[s] \in 0 .. MAX_BYTES
    <3>1. Place(s) \in Nat /\ buffer[s] \in 0 .. MAX_BYTES
      BY <1>2 DEF Slots, GInv, GyroTypeOK
    <3> QED
      BY <1>2, <1>3, <1>6, <3>1
  <2>2. buffer' = [s \in Slots |-> buffer'[s]]
    BY <1>1
  <2> QED
    BY <2>1, <2>2
<1>8. RecvPos' \in 0 .. RING_BUFFER_LEN
  BY <1>1, <1>2, <1>3 DEF EndPos
<1>9. GyroTypeOK'
  <2>1. torn' \in BOOLEAN
    BY <1>1 DEF GInv, GyroTypeOK
  <2>2. RemainCount' \in 0 .. RING_BUFFER_LEN
    BY <1>1, <1>2
  <2>3. filled' \in 0 .. RX_BUFFER_LEN /\ filled' <= arrived'
    BY <1>1, <1>2, GyroAssumption
  <2> QED
    BY <1>1, <1>4, <1>7, <1>8, <2>1, <2>2, <2>3 DEF GInv, GyroTypeOK
<1>10. PopUnderWay'
  BY <1>1, <1>2, <1>3 DEF GInv, GyroTypeOK, PopUnderWay
<1>11. NeverAhead'
  BY <1>1, <1>2, <1>3, <1>4 DEF GInv, GyroTypeOK, NeverAhead, Counted
<1>12. Positions' /\ RingIsQueue'
  <2> SUFFICES ASSUME ~torn' PROVE Positions' /\ RingIsQueue'
    BY DEF Positions, RingIsQueue
  <2>1. ~torn /\ pc # "store"
    BY <1>1
  <2>2. /\ SendPos \in Slots /\ queue \in Seq(1 .. MAX_BYTES) /\ Len(queue) \in Nat
        /\ Len(queue) <= RemainCount /\ (~spoiled => Held)
    BY <1>2, <2>1 DEF GInv, GyroTypeOK, RingIsQueue, Counted
  <2>3. PICK turn \in {-RING_BUFFER_LEN, 0, RING_BUFFER_LEN} :
                RecvPos = SendPos + Len(queue) + turn
    BY <2>1 DEF GInv, Positions
  <2>4. Positions'
    <3>1. Len(queue') <= RING_BUFFER_LEN /\ Len(queue') = Len(queue) + n
      BY <1>2, <1>4, <2>2
    <3>2. CASE RecvPos + n <= RING_BUFFER_LEN
      <4>1. RecvPos' = SendPos' + Len(queue') + turn
        BY <1>1, <1>2, <1>4, <2>2, <2>3, <3>2 DEF EndPos, Slots
      <4> QED
        BY <3>1, <4>1 DEF Positions
    <3>3. CASE RecvPos + n > RING_BUFFER_LEN
      <4>1. turn # -RING_BUFFER_LEN
        BY <1>2, <2>2, <2>3, <3>3 DEF Slots
      <4>2. RecvPos' = SendPos' + Len(queue') + (turn - RING_BUFFER_LEN)
        BY <1>1, <1>2, <1>4, <2>2, <2>3, <3>3 DEF EndPos, Slots
      <4>3. turn - RING_BUFFER_LEN \in {-RING_BUFFER_LEN, 0}
        BY <1>2, <4>1
      <4> QED
        BY <3>1, <4>2, <4>3 DEF Positions
    <3> QED
      BY <1>2, <3>2, <3>3
  <2>5. ASSUME ~spoiled, NEW i \in 1 .. Len(queue')
        PROVE  buffer'[(SendPos' + i - 1) % RING_BUFFER_LEN] = queue'[i]
    <3>1. PICK s : s = (SendPos + i - 1) % RING_BUFFER_LEN
      OBVIOUS
    <3>2. /\ SendPos \in 0 .. RING_BUFFER_LEN - 1 /\ Len(queue) \in 0 .. RING_BUFFER_LEN
          /\ i \in 1 .. RING_BUFFER_LEN /\ i <= Len(queue) + n /\ n <= RING_BUFFER_LEN
          /\ Len(queue) + n <= RING_BUFFER_LEN
      BY <1>2, <1>4, <2>2 DEF Slots
    <3>3. /\ s \in 0 .. RING_BUFFER_LEN - 1
          /\ (IF s < RecvPos THEN s - RecvPos + RING_BUFFER_LEN ELSE s - RecvPos) =
               IF i > Len(queue) THEN i - 1 - Len(queue)
                                 ELSE i - 1 - Len(queue) + RING_BUFFER_LEN
      <4> DEFINE L    == RING_BUFFER_LEN
                 recv == RecvPos
                 len  == Len(queue)
      <4>1. /\ L \in Nat \ {0} /\ SendPos \in 0 .. L - 1 /\ recv \in 0 .. L /\ len \in 0 .. L
            /\ turn \in {-L, 0, L} /\ recv = SendPos + len + turn /\ i \in 1 .. L
            /\ s = (SendPos + i - 1) % L
        <5>1. turn \in {-L, 0, L}
          BY <2>3
        <5>2. recv = SendPos + len + turn /\ s = (SendPos + i - 1) % L
          BY <2>3, <3>1
        <5> QED
          BY <1>2, <3>2, <5>1, <5>2
      <4> HIDE DEF L, recv, len
      <4>2. PICK x \in Int : x = SendPos + i - 1
        BY <4>1
      <4>3. s = IF x < L THEN x ELSE x - L
        <5>1. s = x % L /\ 0 <= x /\ -L <= x /\ x < 2 * L
          BY <4>1, <4>2
        <5>2. x % L = IF x < 0 THEN x + L ELSE IF x < L THEN x ELSE x - L
          BY <4>1, <5>1, WithinATurn
        <5> QED
          BY <5>1, <5>2
      <4>4. s \in 0 .. L - 1 /\ (s = SendPos + i - 1 \/ s = SendPos + i - 1 - L)
        <5>1. CASE x < L
          BY <4>1, <4>2, <4>3, <5>1
        <5>2. CASE x >= L
          BY <4>1, <4>2, <4>3, <5>2
        <5> QED
          BY <4>2, <4>1, <5>1, <5>2
      <4>5. (IF s < recv THEN s - recv + L ELSE s - recv) =
               IF i > len THEN i - 1 - len ELSE i - 1 - len + L
        <5>1. CASE turn = 0
          <6>1. /\ recv = SendPos + len /\ L \in Nat /\ SendPos \in 0 .. L - 1
                /\ recv \in 0 .. L /\ len \in 0 .. L /\ i \in 1 .. L
            BY <4>1, <5>1
          <6>2. CASE i > len
            BY <4>4, <6>1, <6>2
          <6>3. CASE i <= len
            BY <4>4, <6>1, <6>3
          <6> QED
            BY <6>1, <6>2, <6>3
        <5>2. CASE turn = L
          <6>1. SendPos = 0 /\ len = 0 /\ recv = L /\ L \in Nat /\ i \in 1 .. L
            BY <4>1, <5>2
          <6> QED
            BY <4>4, <6>1
        <5>3. CASE turn = -L
          <6>1. /\ recv = SendPos + len - L /\ L \in Nat /\ SendPos \in 0 .. L - 1
                /\ recv \in 0 .. L /\ len \in 0 .. L /\ i \in 1 .. L
            BY <4>1, <5>3
          <6>2. CASE i > len
            BY <4>4, <6>1, <6>2
          <6>3. CASE i <= len
            BY <4>4, <6>1, <6>3
          <6> QED
            BY <6>1, <6>2, <6>3
        <5> QED
          BY <4>1, <5>1, <5>2, <5>3
      <4> QED
        BY <4>4, <4>5 DEF L, recv, len
    <3>4. s \in Slots
      BY <3>3 DEF Slots
    <3>5. CASE i > Len(queue)
      <4>1. Place(s) = i - 1 - Len(queue)
        BY <3>3, <3>5
      <4> HIDE DEF Place
      <4>2. i - Len(queue) \in 1 .. n /\ Len(queue) + (i - Len(queue)) = i
        BY <1>2, <3>2, <3>5
      <4>3. buffer'[s] = from + (i - 1 - Len(queue)) + 1
        BY <1>2, <1>6, <3>2, <3>4, <4>1, <4>2
      <4>4. queue'[Len(queue) + (i - Len(queue))] = from + (i - Len(queue))
        BY <1>4, <4>2
      <4>5. queue'[i] = from + (i - Len(queue))
        BY <4>2, <4>4
      <4>6. buffer'[s] = from + (i - Len(queue))
        BY <1>2, <3>2, <4>3
      <4> QED
        BY <1>1, <3>1, <4>5, <4>6
    <3>6. CASE i <= Len(queue)
      <4>1. Place(s) = i - 1 - Len(queue) + RING_BUFFER_LEN
        BY <3>2, <3>3, <3>6
      <4> HIDE DEF Place
      <4>2. ~(Place(s) < n) /\ i \in 1 .. Len(queue)
        BY <1>2, <3>2, <3>6, <4>1
      <4>3. buffer'[s] = buffer[s]
        BY <1>6, <3>4, <4>2
      <4>4. buffer[s] = queue[i] /\ queue'[i] = queue[i]
        BY <1>4, <2>2, <2>5, <3>1, <4>2 DEF Held
      <4> QED
        BY <1>1, <3>1, <4>3, <4>4
    <3> QED
      BY <3>2, <3>5, <3>6
  <2>6. Counted' = Len(queue')
    BY <1>1, <1>2, <1>4, <2>1, <2>2 DEF GInv, RingIsQueue, Counted
  <2> QED
    BY <1>1, <2>4, <2>5, <2>6 DEF RingIsQueue, Held
<1> QED
  BY <1>9, <1>10, <1>11, <1>12 DEF GInv

-----------------------------------------------------------------------------
(* The accesses of get_angle.                                              *)

(* A byte is taken: the queue begins one slot later.                       *)
LEMMA TakeKeeps == ASSUME GInv, Take PROVE GInv'
<1>1. /\ pc = "take" /\ pc' = "load" /\ popped' = buffer[SendPos]
      /\ SendPos' = (SendPos + 1) % RING_BUFFER_LEN
      /\ queue' = (IF queue = <<>> THEN queue ELSE Tail(queue))
      /\ UNCHANGED <<buffer, RecvPos, RemainCount, arrived, filled, loaded, g_rx_data_len,
                     copied, torn, spoiled>>
  BY DEF Take, Step, dma
<1>2. /\ RING_BUFFER_LEN \in Nat \ {0} /\ SendPos \in 0 .. RING_BUFFER_LEN - 1
      /\ queue \in Seq(1 .. MAX_BYTES) /\ Len(queue) \in Nat
      /\ RemainCount \in 0 .. RING_BUFFER_LEN /\ RemainCount > 0 /\ RemainCount <= Len(queue)
  BY <1>1, GyroAssumption DEF GInv, GyroTypeOK, PopUnderWay, NeverAhead, Counted, Slots
<1>3. /\ queue' \in Seq(1 .. MAX_BYTES) /\ Len(queue') = Len(queue) - 1
      /\ \A i \in 1 .. Len(queue') : queue'[i] = queue[i + 1]
  <2>1. queue # <<>>
    BY <1>2
  <2>2. /\ Tail(queue) \in Seq(1 .. MAX_BYTES) /\ Len(Tail(queue)) = Len(queue) - 1
        /\ \A i \in 1 .. Len(Tail(queue)) : Tail(queue)[i] = queue[i + 1]
    BY <1>2, <2>1, HeadTailProperties
  <2>3. queue' = Tail(queue)
    BY <1>1, <2>1
  <2> QED
    BY <2>2, <2>3
<1>4. SendPos' = (IF SendPos = RING_BUFFER_LEN - 1 THEN 0 ELSE SendPos + 1)
  <2>1. PICK x \in Int : x = SendPos + 1
    BY <1>2
  <2>2. x % RING_BUFFER_LEN = IF x < 0 THEN x + RING_BUFFER_LEN
                              ELSE IF x < RING_BUFFER_LEN THEN x ELSE x - RING_BUFFER_LEN
    <3>1. -RING_BUFFER_LEN <= x /\ x < 2 * RING_BUFFER_LEN
      BY <1>2, <2>1
    <3> QED
      BY <1>2, <3>1, WithinATurn
  <2> QED
    BY <1>1, <1>2, <2>1, <2>2
<1>5. SendPos' \in Slots
  BY <1>2, <1>4 DEF Slots
<1>6. GyroTypeOK'
  <2>1. popped' \in 0 .. MAX_BYTES
    BY <1>1 DEF GInv, GyroTypeOK
  <2> QED
    BY <1>1, <1>3, <1>5, <2>1 DEF GInv, GyroTypeOK
<1>7. PopUnderWay' /\ NeverAhead'
  BY <1>1, <1>2, <1>3 DEF PopUnderWay, NeverAhead, Counted
<1>8. Positions' /\ RingIsQueue'
  <2> SUFFICES ASSUME ~torn PROVE Positions' /\ RingIsQueue'
    BY <1>1 DEF Positions, RingIsQueue
  <2>1. /\ Counted = Len(queue) /\ Len(queue) <= RING_BUFFER_LEN
        /\ ~spoiled => Held
    BY DEF GInv, RingIsQueue, Positions
  <2>2. PICK turn \in {-RING_BUFFER_LEN, 0, RING_BUFFER_LEN} :
                RecvPos = SendPos + Len(queue) + turn
    BY DEF GInv, Positions
  <2>3. Positions'
    <3>1. RecvPos \in 0 .. RING_BUFFER_LEN /\ Len(queue') <= RING_BUFFER_LEN
      BY <1>2, <1>3, <2>1 DEF GInv, GyroTypeOK
    <3>2. CASE SendPos = RING_BUFFER_LEN - 1
      <4>1. turn # RING_BUFFER_LEN
        BY <1>2, <2>2, <3>1, <3>2
      <4>2. turn + RING_BUFFER_LEN \in {-RING_BUFFER_LEN, 0, RING_BUFFER_LEN}
        BY <1>2, <2>2, <4>1
      <4>3. RecvPos' = SendPos' + Len(queue') + (turn + RING_BUFFER_LEN)
        BY <1>1, <1>2, <1>3, <1>4, <2>2, <3>2
      <4> QED
        BY <1>1, <3>1, <4>2, <4>3 DEF Positions
    <3>3. CASE SendPos # RING_BUFFER_LEN - 1
      <4>1. RecvPos' = SendPos' + Len(queue') + turn
        <5>1. SendPos' = SendPos + 1 /\ Len(queue') = Len(queue) - 1 /\ RecvPos' = RecvPos
          BY <1>1, <1>3, <1>4, <3>3
        <5> QED
          BY <1>2, <2>2, <5>1
      <4> QED
        BY <1>1, <3>1, <4>1 DEF Positions
    <3> QED
      BY <3>2, <3>3
  <2>4. ASSUME ~spoiled, NEW i \in 1 .. Len(queue')
        PROVE  buffer'[(SendPos' + i - 1) % RING_BUFFER_LEN] = queue'[i]
    <3>1. i \in Int /\ 1 <= i /\ i < Len(queue) /\ i + 1 \in 1 .. Len(queue)
      BY <1>2, <1>3
    <3>2. (SendPos' + i - 1) % RING_BUFFER_LEN = (SendPos + (i + 1) - 1) % RING_BUFFER_LEN
      <4>1. CASE SendPos = RING_BUFFER_LEN - 1
        <5>1. PICK x \in Int, y \in Int : x = SendPos' + i - 1 /\ y = SendPos + (i + 1) - 1
          BY <1>2, <1>4, <3>1
        <5>2. /\ y = x + RING_BUFFER_LEN /\ 0 <= x /\ x < RING_BUFFER_LEN
              /\ -RING_BUFFER_LEN <= x /\ x < 2 * RING_BUFFER_LEN
              /\ -RING_BUFFER_LEN <= y /\ y < 2 * RING_BUFFER_LEN
          BY <1>2, <1>4, <2>1, <3>1, <4>1, <5>1
        <5>3. x % RING_BUFFER_LEN = IF x < 0 THEN x + RING_BUFFER_LEN
                ELSE IF x < RING_BUFFER_LEN THEN x ELSE x - RING_BUFFER_LEN
          BY <1>2, <5>2, WithinATurn
        <5>4. y % RING_BUFFER_LEN = IF y < 0 THEN y + RING_BUFFER_LEN
                ELSE IF y < RING_BUFFER_LEN THEN y ELSE y - RING_BUFFER_LEN
          BY <1>2, <5>2, WithinATurn
        <5>5. x % RING_BUFFER_LEN = y % RING_BUFFER_LEN
          BY <1>2, <5>2, <5>3, <5>4
        <5> QED
          BY <5>1, <5>5
      <4>2. CASE SendPos # RING_BUFFER_LEN - 1
        <5>1. SendPos' + i - 1 = SendPos + (i + 1) - 1
          BY <1>2, <1>4, <3>1, <4>2
        <5> QED
          BY <5>1
      <4> QED
        BY <4>1, <4>2
    <3>3. buffer[(SendPos + (i + 1) - 1) % RING_BUFFER_LEN] = queue[i + 1]
      BY <2>1, <2>4, <3>1 DEF Held
    <3> QED
      BY <1>1, <1>3, <3>2, <3>3
  <2>5. Counted' = Len(queue')
    BY <1>1, <1>2, <1>3, <2>1 DEF Counted
  <2> QED
    BY <1>1, <2>3, <2>4, <2>5 DEF RingIsQueue, Held
<1> QED
  BY <1>6, <1>7, <1>8 DEF GInv

(* A byte that is copied behind g_rx_data_buffer changes a slot that is    *)
(* not unread, or spoils the queue.                                        *)
LEMMA CopyKeeps == ASSUME GInv, Copy PROVE GInv'
<1>1. /\ pc = "copy" /\ pc' = "loop" /\ copied' = copied + 1
      /\ UNCHANGED <<RecvPos, SendPos, RemainCount, arrived, filled, popped, loaded,
                     g_rx_data_len, queue, torn>>
  BY DEF Copy, Step, dma
<1>2. /\ RING_BUFFER_LEN \in Nat \ {0} /\ SendPos \in 0 .. RING_BUFFER_LEN - 1
      /\ Len(queue) \in Nat /\ copied \in Nat /\ RX_BUFFER_LEN \in Nat
      /\ COUNT_RANGE \in Nat \ {0} /\ COUNT_RANGE <= RX_BUFFER_LEN + RING_BUFFER_LEN
  BY GyroAssumption DEF GInv, GyroTypeOK, Slots
<1>3. PICK slot : slot = count - RX_BUFFER_LEN
  OBVIOUS
<1>4. count \in 0 .. COUNT_RANGE - 1
  BY <1>2 DEF count
<1>5. count >= RX_BUFFER_LEN => slot \in 0 .. RING_BUFFER_LEN - 1
  BY <1>2, <1>3, <1>4
<1>6. \/ UNCHANGED <<buffer, spoiled>>
      \/ /\ slot \in Slots /\ buffer' = [buffer EXCEPT ![slot] = popped]
         /\ spoiled' = (spoiled \/ Unread(slot))
  <2>1. CASE count < RX_BUFFER_LEN
    BY <2>1 DEF Copy
  <2>2. CASE ~(count < RX_BUFFER_LEN)
    BY <1>2, <1>3, <1>4, <1>5, <2>2 DEF Copy, Slots
  <2> QED
    BY <2>1, <2>2
<1>7. GyroTypeOK'
  <2>1. buffer' \in [Slots -> 0 .. MAX_BYTES] /\ copied' \in Nat
    BY <1>1, <1>2, <1>6 DEF GInv, GyroTypeOK
  <2>2. spoiled' \in BOOLEAN
    BY <1>6, Zenon DEF GInv, GyroTypeOK
  <2> QED
    BY <1>1, <2>1, <2>2 DEF GInv, GyroTypeOK
<1>8. PopUnderWay' /\ NeverAhead' /\ Positions' /\ Counted' = Counted
  BY <1>1 DEF GInv, PopUnderWay, NeverAhead, Positions, Counted
<1>9. ASSUME ~torn, ~spoiled', NEW i \in 1 .. Len(queue)
      PROVE  buffer'[(SendPos + i - 1) % RING_BUFFER_LEN] = queue[i]
  <2>1. ~spoiled /\ buffer[(SendPos + i - 1) % RING_BUFFER_LEN] = queue[i]
    <3>1. ~spoiled
      BY <1>6, <1>9, Zenon
    <3> QED
      BY <1>9, <3>1 DEF GInv, RingIsQueue, Held
  <2>2. CASE UNCHANGED buffer
    BY <2>1, <2>2
  <2>3. CASE /\ slot \in Slots /\ buffer' = [buffer EXCEPT ![slot] = popped]
             /\ spoiled' = (spoiled \/ Unread(slot))
    <3>1. Len(queue) <= RING_BUFFER_LEN /\ ~Unread(slot)
      BY <1>9, <2>3 DEF GInv, Positions
    <3>2. PICK s : s = (SendPos + i - 1) % RING_BUFFER_LEN
      OBVIOUS
    <3>3. s # slot
      <4> SUFFICES ASSUME s = slot PROVE Unread(slot)
        BY <3>1
      <4>1. PICK x \in Int : x = SendPos + i - 1
        BY <1>2
      <4>2. /\ 0 <= x /\ -RING_BUFFER_LEN <= x /\ x < 2 * RING_BUFFER_LEN
            /\ i - 1 \in 0 .. RING_BUFFER_LEN - 1
        BY <1>2, <3>1, <4>1
      <4>3. x % RING_BUFFER_LEN = IF x < 0 THEN x + RING_BUFFER_LEN
              ELSE IF x < RING_BUFFER_LEN THEN x ELSE x - RING_BUFFER_LEN
        BY <1>2, <4>2, WithinATurn
      <4>4. slot = x \/ slot = x - RING_BUFFER_LEN
        BY <3>2, <4>1, <4>2, <4>3
      <4>5. PICK y \in Int : y = slot - SendPos
        BY <1>2, <4>1, <4>4
      <4>6. /\ -RING_BUFFER_LEN <= y /\ y < 2 * RING_BUFFER_LEN
            /\ y = i - 1 \/ y = i - 1 - RING_BUFFER_LEN
        BY <1>2, <4>1, <4>2, <4>4, <4>5
      <4>7. y % RING_BUFFER_LEN = IF y < 0 THEN y + RING_BUFFER_LEN
              ELSE IF y < RING_BUFFER_LEN THEN y ELSE y - RING_BUFFER_LEN
        BY <1>2, <4>6, WithinATurn
      <4>8. y % RING_BUFFER_LEN = i - 1 /\ i - 1 < Len(queue)
        BY <1>2, <4>2, <4>6, <4>7
      <4> QED
        BY <4>5, <4>8 DEF Unread
    <3> QED
      BY <2>1, <2>3, <3>2, <3>3 DEF GInv, GyroTypeOK
  <2> QED
    BY <1>6, <2>2, <2>3
<1>10. RingIsQueue'
  BY <1>1, <1>8, <1>9 DEF GInv, RingIsQueue, Held
<1> QED
  BY <1>7, <1>8, <1>10 DEF GInv

(* The other accesses leave the queue alone.  What counts is Counted: the  *)
(* load and the store of the decrement do not change it.                   *)
LEMMA QueueStays ==
  ASSUME GInv, UNCHANGED <<buffer, RecvPos, SendPos, queue, torn, spoiled>>,
         Counted' = Counted
  PROVE  NeverAhead' /\ RingIsQueue' /\ Positions'
  BY DEF GInv, NeverAhead, RingIsQueue, Held, Positions

LEMMA NextGInv == GInv /\ [GNext]_gvars => GInv'
<1> SUFFICES ASSUME GInv, [GNext]_gvars PROVE GInv'
  OBVIOUS
<1> USE DEF ring, dma, reader
<1>1. CASE Arrive
  <2>1. GyroTypeOK'
    BY <1>1, GyroAssumption DEF Arrive, GInv, GyroTypeOK
  <2> QED
    BY <1>1, <2>1, QueueStays DEF Arrive, GInv, PopUnderWay, Counted
<1>2. CASE Test \/ LoopTest
  <2>1. GyroTypeOK' /\ PopUnderWay'
    BY <1>2 DEF Test, LoopTest, GInv, GyroTypeOK, PopUnderWay
  <2> QED
    BY <1>2, <2>1, QueueStays DEF Test, LoopTest, GInv, Counted
<1>3. CASE Length
  <2>1. GyroTypeOK' /\ PopUnderWay'
    BY <1>3, GyroAssumption DEF Length, Step, GInv, GyroTypeOK, PopUnderWay
  <2> QED
    BY <1>3, <2>1, QueueStays DEF Length, Step, GInv, Counted
<1>4. CASE Load
  <2>1. GyroTypeOK' /\ PopUnderWay'
    BY <1>4 DEF Load, Step, GInv, GyroTypeOK, PopUnderWay
  <2> QED
    BY <1>4, <2>1, QueueStays DEF Load, Step, GInv, Counted
<1>5. CASE Store
  <2>1. loaded - 1 \in 0 .. RING_BUFFER_LEN
    BY <1>5, GyroAssumption DEF Store, Step, GInv, GyroTypeOK, PopUnderWay
  <2>2. GyroTypeOK' /\ PopUnderWay'
    BY <1>5, <2>1 DEF Store, Step, GInv, GyroTypeOK, PopUnderWay
  <2> QED
    BY <1>5, <2>2, QueueStays DEF Store, Step, GInv, Counted
<1>6. CASE UNCHANGED gvars
  <2>1. GyroTypeOK' /\ PopUnderWay'
    BY <1>6 DEF gvars, GInv, GyroTypeOK, PopUnderWay
  <2> QED
    BY <1>6, <2>1, QueueStays DEF gvars, GInv, Counted
<1> QED
  BY <1>1, <1>2, <1>3, <1>4, <1>5, <1>6, HandOverKeeps, TakeKeeps, CopyKeeps
     DEF GNext, Interrupt, GetAngle

LEMMA RingInvariance == GSpec => []GInv
  BY InitGInv, NextGInv, PTL DEF GSpec

(* Positions, counts and the queue of ring_buffer stay in their ranges, in *)
(* a torn decrement too: no slot outside the ring is read or written.      *)
THEOREM RingTypeCorrect == GSpec => []GyroTypeOK
<1>1. GInv => GyroTypeOK
  BY DEF GInv
<1> QED
  BY <1>1, RingInvariance, PTL

(* ring_buffer_push_huge and ring_buffer_pop, for any sizes and any        *)
(* stream, are a queue until an interrupt tears a decrement; what          *)
(* get_angle stores behind its own buffer leaves the count alone, and the  *)
(* bytes too, until it hits one that is still to be read.                  *)
THEOREM RingIsSafe == GSpec => []RingIsQueue
<1>1. GInv => RingIsQueue
  BY DEF GInv
<1> QED
  BY <1>1, RingInvariance, PTL

(* Torn or not, RemainCount never counts a byte that is not in the ring.   *)
THEOREM CountNeverAhead == GSpec => []NeverAhead
<1>1. GInv => NeverAhead
  BY DEF GInv
<1> QED
  BY <1>1, RingInvariance, PTL

-----------------------------------------------------------------------------
(***************************************************************************)
(* For buffers, packets and a stream of any length: while the ring is a    *)
(* queue, get_angle parses no frame twice and none after a later one.      *)
(*                                                                         *)
(* AInv is inductive and has GInv as a part: what waits in the ring, the   *)
(* byte just popped and the bytes copied so far are all newer than the     *)
(* frame of the last angle, and at least the announced bytes are copied    *)
(* before they are parsed, so that nothing an earlier copy left is read.   *)
(***************************************************************************)

Copying == pc \in {"loop", "take", "load", "store", "copy"}
Holding == pc \in {"load", "store", "copy"}

Intact  == ~torn /\ ~spoiled

(* A byte that left the ring before all that is in it.                     *)
Earlier(b) == b <= arrived - filled /\ \A i \in 1 .. Len(queue) : b < queue[i]

QueueInOrder ==
  Intact => /\ Earlier(angle)
            /\ \A i \in 1 .. Len(queue) : queue[i] <= arrived - filled
            /\ \A i, j \in 1 .. Len(queue) : i < j => queue[i] < queue[j]

HeldInOrder == Intact /\ Holding => angle < popped /\ Earlier(popped)

CopyInOrder ==
  Intact /\ Copying =>
    \A k \in 0 .. RX_BUFFER_LEN - 1 :
      k < copied => angle < g_rx_data_buffer[k] /\ Earlier(g_rx_data_buffer[k])

EnoughIsCopied ==
  Copying => g_rx_data_len <= copied + Counted + (IF Holding THEN 1 ELSE 0)

AInv == /\ GInv /\ AngleTypeOK
        /\ QueueInOrder /\ HeldInOrder /\ CopyInOrder /\ EnoughIsCopied

-----------------------------------------------------------------------------
(* The bytes of get_angle come from the ring of GyroLink.                  *)
LEMMA StepsOfTheRing == [ANext]_angleVars => [GNext]_gvars
  BY DEF ANext, Angle, GNext, GetAngle, angleVars

(* GyroAngle implements GyroLink: what is proved of GSpec holds of ASpec.  *)
THEOREM AngleUsesTheRing == ASpec => GSpec
<1>1. AInit => GInit
  BY DEF AInit
<1> QED
  BY <1>1, StepsOfTheRing, PTL DEF ASpec, GSpec

LEMMA FrameTypes ==
  /\ FRAME \in Nat \ {0} /\ PACKET \in Nat /\ RX_BUFFER_LEN \in Nat /\ COUNT_RANGE \in Nat
  /\ RING_BUFFER_LEN \in Nat \ {0} /\ MAX_BYTES \in Nat
  /\ PACKET = 3 * FRAME /\ PACKET <= RX_BUFFER_LEN /\ RX_BUFFER_LEN <= COUNT_RANGE
  BY FrameAssumption, GyroAssumption DEF PACKET

(* The head that decides is one of the heads.                              *)
LEMMA FirstHead == ASSUME Heads # {} PROVE Min(Heads) \in Heads
<1>1. Heads \subseteq {0, FRAME, 2 * FRAME} /\ 0 < FRAME /\ FRAME < 2 * FRAME /\ FRAME \in Int
  BY FrameTypes DEF Heads
<1>2. PICK x \in Heads : \A y \in Heads : x <= y
  <2>1. CASE 0 \in Heads
    BY <1>1, <2>1
  <2>2. CASE 0 \notin Heads /\ FRAME \in Heads
    BY <1>1, <2>2
  <2>3. CASE Heads = {2 * FRAME}
    BY <1>1, <2>3
  <2> QED
    BY <1>1, <2>1, <2>2, <2>3
<1> QED
  BY <1>2 DEF Min

LEMMA InitAInv == AInit => AInv
<1> SUFFICES ASSUME AInit PROVE AInv
  OBVIOUS
<1>1. GInv
  BY InitGInv DEF AInit
<1>2. AngleTypeOK
  BY FrameTypes DEF AInit, AngleTypeOK
<1>3. Len(queue) = 0 /\ angle = 0 /\ arrived = 0 /\ filled = 0 /\ pc = "test"
  BY DEF AInit, GInit
<1> QED
  BY <1>1, <1>2, <1>3 DEF AInv, QueueInOrder, HeldInOrder, CopyInOrder, EnoughIsCopied,
                          Earlier, Copying, Holding

-----------------------------------------------------------------------------
(* A byte of the ring is known to be a number.                             *)
LEMMA QueueTypes ==
  ASSUME GyroTypeOK
  PROVE  /\ Len(queue) \in Nat /\ \A i \in 1 .. Len(queue) : queue[i] \in 1 .. MAX_BYTES
         /\ arrived \in Nat /\ filled \in Nat /\ filled <= arrived
  BY GyroAssumption DEF GyroTypeOK

(* What the interrupts bring is newer than all that came before.           *)
LEMMA HandOverInOrder ==
  ASSUME AInv, HandOver, Intact'
  PROVE  /\ \A i \in 1 .. Len(queue') : queue'[i] <= arrived' - filled'
         /\ \A i, j \in 1 .. Len(queue') : i < j => queue'[i] < queue'[j]
         /\ \A b \in Nat : Earlier(b) =>
              b <= arrived' - filled' /\ \A i \in 1 .. Len(queue') : b < queue'[i]
<1> DEFINE n    == Accepted(filled)
           from == arrived - filled
<1>1. /\ filled > 0 /\ filled' = 0 /\ arrived' = arrived /\ Intact
      /\ queue' = queue \o [i \in 1 .. n |-> from + i]
  BY DEF HandOver, PushHuge, Intact
<1>2. n \in 0 .. filled /\ from \in Nat /\ arrived \in 0 .. MAX_BYTES /\ filled \in Nat
  BY <1>1, PushTypes DEF AInv, GInv, GyroTypeOK
<1>3. from + filled = arrived /\ from + n <= arrived /\ from + n <= MAX_BYTES /\ n \in Nat
  BY <1>2, GyroAssumption DEF AInv, GInv, GyroTypeOK
<1> HIDE DEF n
<1>4. /\ Len(queue) \in Nat /\ \A i \in 1 .. Len(queue) : queue[i] \in 1 .. MAX_BYTES
      /\ queue \in Seq(1 .. MAX_BYTES)
  BY QueueTypes DEF AInv, GInv, GyroTypeOK
<1>5. /\ \A i \in 1 .. Len(queue) : queue[i] <= from
      /\ \A i, j \in 1 .. Len(queue) : i < j => queue[i] < queue[j]
  BY <1>1 DEF AInv, QueueInOrder
<1> HIDE DEF from
<1>6. /\ Len(queue') = Len(queue) + n
      /\ \A i \in 1 .. Len(queue) : queue'[i] = queue[i]
      /\ \A i \in 1 .. n : queue'[Len(queue) + i] = from + i
  BY <1>1, <1>2, <1>3, <1>4, FrameTypes, PushAppends
<1>7. \A i \in 1 .. Len(queue') :
        \/ i \in 1 .. Len(queue) /\ queue'[i] = queue[i]
        \/ i > Len(queue) /\ queue'[i] = from + (i - Len(queue))
  <2> SUFFICES ASSUME NEW i \in 1 .. Len(queue'), i > Len(queue)
              PROVE  queue'[i] = from + (i - Len(queue))
    BY <1>4, <1>6
  <2>1. i - Len(queue) \in 1 .. n /\ Len(queue) + (i - Len(queue)) = i
    BY <1>3, <1>4, <1>6
  <2>2. queue'[Len(queue) + (i - Len(queue))] = from + (i - Len(queue))
    BY <1>6, <2>1
  <2> QED
    BY <2>1, <2>2
<1>8. ASSUME NEW i \in 1 .. Len(queue') PROVE queue'[i] <= arrived' - filled'
  <2>1. arrived' - filled' = arrived /\ from <= arrived
    BY <1>1, <1>2, <1>3
  <2> QED
    BY <1>2, <1>3, <1>4, <1>5, <1>6, <1>7, <2>1
<1>9. ASSUME NEW i \in 1 .. Len(queue'), NEW j \in 1 .. Len(queue'), i < j
      PROVE  queue'[i] < queue'[j]
  <2>1. i \in Int /\ j \in Int /\ from \in Int
    BY <1>2, <1>4, <1>6
  <2>2. CASE i > Len(queue)
    BY <1>4, <1>7, <1>9, <2>1, <2>2
  <2>3. CASE i <= Len(queue) /\ j > Len(queue)
    BY <1>4, <1>5, <1>7, <1>9, <2>1, <2>3
  <2>4. CASE j <= Len(queue)
    BY <1>4, <1>5, <1>7, <1>9, <2>1, <2>4
  <2> QED
    BY <1>4, <2>1, <2>2, <2>3, <2>4
<1>10. ASSUME NEW b \in Nat, Earlier(b), NEW i \in 1 .. Len(queue') PROVE b < queue'[i]
  <2>1. b <= from /\ \A k \in 1 .. Len(queue) : b < queue[k]
    BY <1>10 DEF Earlier, from
  <2> QED
    BY <1>2, <1>4, <1>6, <1>7, <2>1
<1>11. \A b \in Nat : Earlier(b) => b <= arrived' - filled'
  BY <1>1, <1>2, <1>3 DEF Earlier, from
<1> QED
  BY <1>8, <1>9, <1>10, <1>11

(* A step that moves no byte keeps every order.                            *)
LEMMA OrderStays ==
  ASSUME AInv, UNCHANGED <<queue, torn, spoiled, popped, parser>>,
         arrived' - filled' = arrived - filled,
         UNCHANGED copied \/ (pc' = "loop" /\ copied' = 0),
         Copying' => Copying \/ copied' = 0, Holding' => Holding
  PROVE  QueueInOrder' /\ HeldInOrder' /\ CopyInOrder'
<1>1. UNCHANGED <<popped, g_rx_data_buffer, angle>>
  BY DEF parser
<1>2. \A b : Earlier(b) => b <= arrived' - filled' /\ \A i \in 1 .. Len(queue') : b < queue'[i]
  BY DEF Earlier
<1>3. QueueInOrder'
  BY <1>1, <1>2 DEF AInv, QueueInOrder, Earlier, Intact
<1>4. HeldInOrder'
  BY <1>1, <1>2 DEF AInv, HeldInOrder, Earlier, Intact
<1>5. CopyInOrder'
  BY <1>1, <1>2 DEF AInv, CopyInOrder, Earlier, Intact
<1> QED
  BY <1>3, <1>4, <1>5

LEMMA HandOverKeepsAInv == ASSUME AInv, HandOver, UNCHANGED parser PROVE AInv'
<1>1. /\ UNCHANGED <<popped, g_rx_data_buffer, angle, pc, loaded, g_rx_data_len, copied,
                     spoiled>>
      /\ RemainCount' = RemainCount + Accepted(filled) /\ torn' = (torn \/ pc = "store")
  BY DEF HandOver, PushHuge, reader, parser
<1>2. GInv' /\ AngleTypeOK'
  BY <1>1, HandOverKeeps DEF AInv, AngleTypeOK
<1>3. EnoughIsCopied'
  <2>1. /\ Accepted(filled) \in Nat /\ RemainCount \in Nat /\ loaded \in Nat
        /\ copied \in Nat /\ g_rx_data_len \in Nat
    BY PushTypes, FrameTypes DEF AInv, GInv, GyroTypeOK, HandOver
  <2> QED
    <3>1. /\ pc' = pc /\ copied' = copied /\ g_rx_data_len' = g_rx_data_len /\ loaded' = loaded
          /\ RemainCount' = RemainCount + Accepted(filled)
      BY <1>1
    <3>2. Counted' >= Counted /\ Counted \in Int /\ Counted' \in Int
      <4>1. RemainCount' >= RemainCount /\ RemainCount' \in Int
        BY <2>1, <3>1
      <4> QED
        BY <2>1, <3>1, <4>1 DEF Counted
    <3> QED
      <4>1. (Copying' <=> Copying) /\ (Holding' <=> Holding)
        BY <3>1 DEF Copying, Holding
      <4>2. ASSUME Copying, NEW h \in Int, h = IF Holding THEN 1 ELSE 0
            PROVE  g_rx_data_len' <= copied' + Counted' + h
        <5>1. g_rx_data_len <= copied + Counted + h
          BY <4>2 DEF AInv, EnoughIsCopied
        <5>2. h \in Int
          BY <4>2
        <5>3. copied \in Int /\ g_rx_data_len \in Int /\ Counted \in Int /\ Counted' \in Int
              /\ Counted <= Counted'
          BY <2>1, <3>2
        <5>4. PICK c \in Int, d \in Int : c = Counted /\ d = Counted' /\ c <= d
          BY <5>3
        <5>5. g_rx_data_len <= copied + c + h
          BY <5>1, <5>4
        <5>6. c \in Int /\ d \in Int /\ c <= d
          BY <5>4
        <5>7. copied \in Int /\ g_rx_data_len \in Int
          BY <5>3
        <5>8. g_rx_data_len <= copied + d + h
          BY <5>2, <5>5, <5>6, <5>7
        <5> QED
          BY <3>1, <5>1, <5>4, <5>8
      <4> QED
        BY <4>1, <4>2 DEF EnoughIsCopied
<1>4. ASSUME Intact' PROVE QueueInOrder' /\ HeldInOrder' /\ CopyInOrder'
  <2>0. Intact
    BY <1>1, <1>4 DEF Intact
  <2>1. /\ Intact /\ angle \in Nat /\ popped \in Nat
        /\ \A k \in 0 .. RX_BUFFER_LEN - 1 : g_rx_data_buffer[k] \in Nat
    BY <2>0, FrameTypes DEF AInv, AngleTypeOK, GInv, GyroTypeOK
  <2>2. \A b \in Nat : Earlier(b) =>
          b <= arrived' - filled' /\ \A i \in 1 .. Len(queue') : b < queue'[i]
    BY <1>4, HandOverInOrder
  <2>3. QueueInOrder'
    BY <1>1, <1>4, <2>1, <2>2, HandOverInOrder DEF AInv, QueueInOrder, Earlier
  <2>4. HeldInOrder'
    BY <1>1, <2>1, <2>2 DEF AInv, HeldInOrder, Earlier, Holding
  <2>5. CopyInOrder'
    <3> SUFFICES ASSUME Copying, NEW k \in 0 .. RX_BUFFER_LEN - 1, k < copied
                PROVE  /\ angle < g_rx_data_buffer[k]
                       /\ g_rx_data_buffer[k] <= arrived' - filled'
                       /\ \A i \in 1 .. Len(queue') : g_rx_data_buffer[k] < queue'[i]
      BY <1>1 DEF CopyInOrder, Copying, Earlier
    <3>1. g_rx_data_buffer[k] \in Nat
      BY <2>1
    <3>2. angle < g_rx_data_buffer[k] /\ Earlier(g_rx_data_buffer[k])
      BY <2>1 DEF AInv, CopyInOrder
    <3> QED
      BY <2>2, <3>1, <3>2
  <2> QED
    BY <2>3, <2>4, <2>5
<1>5. ASSUME ~Intact' PROVE QueueInOrder' /\ HeldInOrder' /\ CopyInOrder'
  BY <1>5 DEF QueueInOrder, HeldInOrder, CopyInOrder
<1> QED
  BY <1>2, <1>3, <1>4, <1>5 DEF AInv

LEMMA TakeKeepsAInv ==
  ASSUME AInv, Take, UNCHANGED <<g_rx_data_buffer, angle>>
  PROVE  AInv'
<1>1. /\ pc = "take" /\ pc' = "load"
      /\ queue' = (IF queue = <<>> THEN queue ELSE Tail(queue))
      /\ UNCHANGED <<RemainCount, arrived, filled, loaded, g_rx_data_len, copied, torn, spoiled>>
      /\ popped' = buffer[SendPos]
  BY DEF Take, Step, dma
<1>2. /\ RING_BUFFER_LEN \in Nat \ {0} /\ SendPos \in 0 .. RING_BUFFER_LEN - 1
      /\ queue \in Seq(1 .. MAX_BYTES) /\ Len(queue) \in Nat
      /\ RemainCount \in Nat /\ RemainCount > 0 /\ RemainCount <= Len(queue)
  BY <1>1, GyroAssumption
     DEF AInv, GInv, GyroTypeOK, PopUnderWay, NeverAhead, Counted, Slots
<1>3. /\ Len(queue') = Len(queue) - 1
      /\ \A i \in 1 .. Len(queue') : queue'[i] = queue[i + 1] /\ i + 1 \in 1 .. Len(queue)
  <2>1. queue # <<>>
    BY <1>2
  <2>2. /\ Len(Tail(queue)) = Len(queue) - 1
        /\ \A i \in 1 .. Len(Tail(queue)) : Tail(queue)[i] = queue[i + 1]
    BY <1>2, <2>1, HeadTailProperties
  <2>3. queue' = Tail(queue)
    BY <1>1, <2>1
  <2> QED
    BY <1>2, <2>2, <2>3
<1>4. GInv'
  BY TakeKeeps DEF AInv
<1>5. AngleTypeOK'
  BY <1>2 DEF AInv, GInv, GyroTypeOK, AngleTypeOK, Slots
<1>6. EnoughIsCopied'
  <2>1. copied \in Nat /\ g_rx_data_len \in Nat
    BY FrameTypes DEF AInv, GInv, GyroTypeOK
  <2> QED
    BY <1>1, <1>2, <2>1 DEF AInv, EnoughIsCopied, Copying, Holding, Counted
<1>7. ASSUME Intact PROVE QueueInOrder' /\ HeldInOrder' /\ CopyInOrder'
  <2>1. popped' = queue[1] /\ 1 \in 1 .. Len(queue)
    <3>1. buffer[(SendPos + 1 - 1) % RING_BUFFER_LEN] = queue[1] /\ 1 \in 1 .. Len(queue)
      BY <1>2, <1>7 DEF AInv, GInv, RingIsQueue, Held, Intact
    <3>2. PICK x \in Int : x = SendPos + 1 - 1 /\ x = SendPos
      BY <1>2
    <3>3. x % RING_BUFFER_LEN = x
      <4>1. /\ x \in 0 .. RING_BUFFER_LEN - 1 /\ -RING_BUFFER_LEN <= x
            /\ x < 2 * RING_BUFFER_LEN
        BY <1>2, <3>2
      <4>2. x % RING_BUFFER_LEN = IF x < 0 THEN x + RING_BUFFER_LEN
              ELSE IF x < RING_BUFFER_LEN THEN x ELSE x - RING_BUFFER_LEN
        BY <1>2, <4>1, WithinATurn
      <4> QED
        BY <1>2, <4>1, <4>2
    <3> QED
      BY <1>1, <3>1, <3>2, <3>3
  <2>2. /\ \A i \in 1 .. Len(queue) : queue[i] <= arrived - filled
        /\ \A i, j \in 1 .. Len(queue) : i < j => queue[i] < queue[j]
        /\ Earlier(angle)
    BY <1>7 DEF AInv, QueueInOrder
  <2>3. \A b : Earlier(b) => b <= arrived' - filled' /\ \A i \in 1 .. Len(queue') : b < queue'[i]
    BY <1>1, <1>3 DEF Earlier
  <2>4. QueueInOrder'
    <3>1. \A i \in 1 .. Len(queue') : queue'[i] <= arrived' - filled'
      BY <1>1, <1>3, <2>2
    <3>2. ASSUME NEW i \in 1 .. Len(queue'), NEW j \in 1 .. Len(queue'), i < j
          PROVE  queue'[i] < queue'[j]
      <4>1. i + 1 \in 1 .. Len(queue) /\ j + 1 \in 1 .. Len(queue) /\ i + 1 < j + 1
        BY <1>2, <1>3, <3>2
      <4> QED
        BY <1>3, <2>2, <4>1
    <3> QED
      BY <2>2, <2>3, <3>1, <3>2 DEF QueueInOrder, Earlier
  <2>5. HeldInOrder'
    <3>1. angle < popped' /\ popped' <= arrived' - filled'
      BY <1>1, <2>1, <2>2 DEF Earlier
    <3>2. ASSUME NEW i \in 1 .. Len(queue') PROVE popped' < queue'[i]
      <4>1. i + 1 \in 1 .. Len(queue) /\ 1 < i + 1
        BY <1>2, <1>3
      <4> QED
        BY <1>3, <2>1, <2>2, <4>1
    <3> QED
      BY <3>1, <3>2 DEF HeldInOrder, Earlier
  <2>6. CopyInOrder'
    BY <1>1, <1>7, <2>3 DEF AInv, CopyInOrder, Copying, Earlier, Intact
  <2> QED
    BY <2>4, <2>5, <2>6
<1>8. ASSUME ~Intact PROVE QueueInOrder' /\ HeldInOrder' /\ CopyInOrder'
  BY <1>1, <1>8 DEF QueueInOrder, HeldInOrder, CopyInOrder, Intact
<1> QED
  BY <1>4, <1>5, <1>6, <1>7, <1>8 DEF AInv

LEMMA CopyKeepsAInv ==
  ASSUME AInv, Copy, UNCHANGED angle,
         g_rx_data_buffer' = (IF count < RX_BUFFER_LEN
                               THEN [g_rx_data_buffer EXCEPT ![count] = popped]
                               ELSE g_rx_data_buffer)
  PROVE  AInv'
<1>1. /\ pc = "copy" /\ pc' = "loop" /\ copied' = copied + 1
      /\ UNCHANGED <<RemainCount, arrived, filled, popped, loaded, g_rx_data_len, queue, torn>>
      /\ spoiled => spoiled'
  BY DEF Copy, Step, dma
<1>2. GInv'
  BY CopyKeeps DEF AInv
<1>3. copied \in Nat /\ g_rx_data_len \in Nat /\ RemainCount \in Nat
  BY FrameTypes DEF AInv, GInv, GyroTypeOK
<1>4. AngleTypeOK'
  BY DEF AInv, GInv, GyroTypeOK, AngleTypeOK
<1>5. copied < RX_BUFFER_LEN => count = copied
  BY <1>3, FrameTypes DEF count
<1>6. EnoughIsCopied'
  BY <1>1, <1>3 DEF AInv, EnoughIsCopied, Copying, Holding, Counted
<1>7. Intact' => Intact
  BY <1>1 DEF Intact
<1>8. QueueInOrder' /\ HeldInOrder'
  BY <1>1, <1>7 DEF AInv, QueueInOrder, HeldInOrder, Holding, Earlier
<1>9. CopyInOrder'
  <2> SUFFICES ASSUME Intact, NEW k \in 0 .. RX_BUFFER_LEN - 1, k < copied + 1
              PROVE  /\ angle < g_rx_data_buffer'[k]
                     /\ g_rx_data_buffer'[k] <= arrived - filled
                     /\ \A i \in 1 .. Len(queue) : g_rx_data_buffer'[k] < queue[i]
    BY <1>1, <1>7 DEF CopyInOrder, Copying, Earlier
  <2>1. g_rx_data_buffer'[k] = IF k = count THEN popped ELSE g_rx_data_buffer[k]
    BY FrameTypes DEF AInv, AngleTypeOK
  <2>2. angle < popped /\ Earlier(popped)
    BY <1>1 DEF AInv, HeldInOrder, Holding
  <2>3. k # count => k < copied
    BY <1>3, <1>5, FrameTypes
  <2>4. k < copied => angle < g_rx_data_buffer[k] /\ Earlier(g_rx_data_buffer[k])
    BY <1>1 DEF AInv, CopyInOrder, Copying
  <2> QED
    BY <2>1, <2>2, <2>3, <2>4 DEF Earlier
<1> QED
  BY <1>2, <1>4, <1>6, <1>8, <1>9 DEF AInv

(* The accesses that move no byte; EnoughIsCopied is theirs to keep.       *)
LEMMA QuietStepsKeepAInv ==
  ASSUME AInv, UNCHANGED parser, [GNext]_gvars,
         Arrive \/ Test \/ Length \/ Load \/ Store \/ UNCHANGED gvars
  PROVE  AInv'
<1> USE DEF ring, dma, reader, Step
<1>1. GInv' /\ AngleTypeOK'
  <2>1. GInv'
    BY NextGInv DEF AInv
  <2> QED
    BY <2>1 DEF AInv, AngleTypeOK, parser
<1>2. /\ arrived \in Nat /\ filled \in Nat /\ copied \in Nat /\ RemainCount \in Nat
      /\ loaded \in Nat /\ g_rx_data_len \in Nat
  BY FrameTypes DEF AInv, GInv, GyroTypeOK
<1>3. QueueInOrder' /\ HeldInOrder' /\ CopyInOrder' /\ EnoughIsCopied'
  <2>1. CASE Arrive
    <3>1. QueueInOrder' /\ HeldInOrder' /\ CopyInOrder'
      <4>1. UNCHANGED <<queue, torn, spoiled, popped>> /\ arrived' - filled' = arrived - filled
        BY <1>2, <2>1 DEF Arrive
      <4>2. UNCHANGED copied \/ (pc' = "loop" /\ copied' = 0)
        BY <2>1 DEF Arrive
      <4>3. (Copying' => Copying \/ copied' = 0) /\ (Holding' => Holding)
        BY <2>1 DEF Arrive, Copying, Holding
      <4> QED
        BY <4>1, <4>2, <4>3, OrderStays
    <3>2. EnoughIsCopied'
      BY <2>1 DEF Arrive, AInv, EnoughIsCopied, Copying, Holding, Counted
    <3> QED
      BY <3>1, <3>2
  <2>2. CASE Test
    <3>1. QueueInOrder' /\ HeldInOrder' /\ CopyInOrder'
      <4>1. UNCHANGED <<queue, torn, spoiled, popped>> /\ arrived' - filled' = arrived - filled
        BY <1>2, <2>2 DEF Test
      <4>2. UNCHANGED copied \/ (pc' = "loop" /\ copied' = 0)
        BY <2>2 DEF Test
      <4>3. (Copying' => Copying \/ copied' = 0) /\ (Holding' => Holding)
        BY <2>2 DEF Test, Copying, Holding
      <4> QED
        BY <4>1, <4>2, <4>3, OrderStays
    <3> QED
      BY <2>2, <3>1 DEF Test, EnoughIsCopied, Copying
  <2>3. CASE Length
    <3>1. QueueInOrder' /\ HeldInOrder' /\ CopyInOrder'
      <4>1. UNCHANGED <<queue, torn, spoiled, popped>> /\ arrived' - filled' = arrived - filled
        BY <1>2, <2>3 DEF Length
      <4>2. UNCHANGED copied \/ (pc' = "loop" /\ copied' = 0)
        BY <2>3 DEF Length
      <4>3. (Copying' => Copying \/ copied' = 0) /\ (Holding' => Holding)
        BY <2>3 DEF Length, Copying, Holding
      <4> QED
        BY <4>1, <4>2, <4>3, OrderStays
    <3> QED
      BY <1>2, <2>3, <3>1, FrameTypes DEF Length, EnoughIsCopied, Copying, Holding, Counted
  <2>4. CASE Load
    <3>1. QueueInOrder' /\ HeldInOrder' /\ CopyInOrder'
      <4>1. UNCHANGED <<queue, torn, spoiled, popped>> /\ arrived' - filled' = arrived - filled
        BY <1>2, <2>4 DEF Load
      <4>2. UNCHANGED copied \/ (pc' = "loop" /\ copied' = 0)
        BY <2>4 DEF Load
      <4>3. (Copying' => Copying \/ copied' = 0) /\ (Holding' => Holding)
        BY <2>4 DEF Load, Copying, Holding
      <4> QED
        BY <4>1, <4>2, <4>3, OrderStays
    <3> QED
      BY <2>4, <3>1 DEF Load, AInv, EnoughIsCopied, Copying, Holding, Counted
  <2>5. CASE Store
    <3>1. QueueInOrder' /\ HeldInOrder' /\ CopyInOrder'
      <4>1. UNCHANGED <<queue, torn, spoiled, popped>> /\ arrived' - filled' = arrived - filled
        BY <1>2, <2>5 DEF Store
      <4>2. UNCHANGED copied \/ (pc' = "loop" /\ copied' = 0)
        BY <2>5 DEF Store
      <4>3. (Copying' => Copying \/ copied' = 0) /\ (Holding' => Holding)
        BY <2>5 DEF Store, Copying, Holding
      <4> QED
        BY <4>1, <4>2, <4>3, OrderStays
    <3> QED
      BY <2>5, <3>1 DEF Store, AInv, EnoughIsCopied, Copying, Holding, Counted
  <2>6. CASE UNCHANGED gvars
    <3>1. QueueInOrder' /\ HeldInOrder' /\ CopyInOrder'
      <4>1. UNCHANGED <<queue, torn, spoiled, popped>> /\ arrived' - filled' = arrived - filled
        BY <1>2, <2>6 DEF gvars
      <4>2. UNCHANGED copied \/ (pc' = "loop" /\ copied' = 0)
        BY <2>6 DEF gvars
      <4>3. (Copying' => Copying \/ copied' = 0) /\ (Holding' => Holding)
        BY <2>6 DEF gvars, Copying, Holding
      <4> QED
        BY <4>1, <4>2, <4>3, OrderStays
    <3> QED
      BY <2>6, <3>1 DEF gvars, AInv, EnoughIsCopied, Copying, Holding, Counted
  <2> QED
    BY <2>1, <2>2, <2>3, <2>4, <2>5, <2>6
<1> QED
  BY <1>1, <1>3 DEF AInv

(* The announced bytes are copied when get_angle parses, so a frame that   *)
(* is parsed is one of this copy.                                          *)
LEMMA ParsedIsNew ==
  ASSUME AInv, LoopTest, Parses, Parsed # 0, Intact
  PROVE  Parsed > angle /\ Earlier(Parsed) /\ Parsed \in 0 .. MAX_BYTES
<1> DEFINE i == Min(Heads)
<1>1. pc = "loop" /\ RemainCount = 0
  BY DEF LoopTest, Parses, AInv, GInv, GyroTypeOK
<1>2. i \in Heads /\ Parsed = g_rx_data_buffer[i] /\ g_rx_data_len % COUNT_RANGE = PACKET
  BY FirstHead DEF Parsed
<1> HIDE DEF i
<1>3. copied \in Nat /\ g_rx_data_len \in Nat /\ g_rx_data_len <= copied
  BY <1>1, FrameTypes DEF AInv, GInv, GyroTypeOK, EnoughIsCopied, Copying, Holding, Counted
<1>4. PACKET <= g_rx_data_len
  <2>1. COUNT_RANGE \in Nat \ {0}
    BY FrameTypes
  <2>2. CASE g_rx_data_len < COUNT_RANGE
    BY <1>2, <1>3, <2>1, <2>2
  <2>3. CASE g_rx_data_len >= COUNT_RANGE
    <3>1. g_rx_data_len % COUNT_RANGE < COUNT_RANGE
      BY <1>3, <2>1
    <3> QED
      BY <1>2, <1>3, <2>1, <2>3, <3>1, FrameTypes
  <2> QED
    BY <1>3, <2>1, <2>2, <2>3
<1>5. i \in 0 .. RX_BUFFER_LEN - 1 /\ i < copied
  BY <1>2, <1>3, <1>4, FrameTypes DEF Heads
<1> QED
  BY <1>1, <1>2, <1>5 DEF AInv, CopyInOrder, Copying, AngleTypeOK

LEMMA LoopTestKeepsAInv ==
  ASSUME AInv, LoopTest, angle' = (IF Parses /\ Parsed # 0 THEN Parsed ELSE angle),
         UNCHANGED g_rx_data_buffer
  PROVE  AInv'
<1>1. /\ pc = "loop" /\ pc' \in {"take", "test"} /\ (pc' = "test" => Parses)
      /\ (pc' = "take" => ~Parses)
      /\ UNCHANGED <<RemainCount, arrived, filled, popped, loaded, g_rx_data_len, copied, queue,
                     torn, spoiled>>
  BY DEF LoopTest, Parses, ring, dma
<1>2. GInv'
  BY NextGInv DEF AInv, GNext, GetAngle
<1>3. AngleTypeOK'
  <2>1. Parsed # 0 => Parsed \in 0 .. MAX_BYTES
    <3>1. \A i \in Heads : i \in 0 .. RX_BUFFER_LEN - 1
      BY FrameTypes DEF Heads
    <3> QED
      BY <3>1, FirstHead DEF Parsed, AInv, AngleTypeOK
  <2> QED
    BY <2>1 DEF AInv, AngleTypeOK
<1>4. EnoughIsCopied'
  BY <1>1 DEF AInv, EnoughIsCopied, Copying, Holding, Counted
<1>5. HeldInOrder'
  BY <1>1 DEF HeldInOrder, Holding
<1>6. QueueInOrder'
  <2>1. CASE Parses /\ Parsed # 0 /\ Intact
    BY <1>1, <2>1, ParsedIsNew DEF AInv, QueueInOrder, Earlier, Intact
  <2>2. CASE ~(Parses /\ Parsed # 0)
    BY <1>1, <2>2 DEF AInv, QueueInOrder, Earlier, Intact
  <2>3. CASE ~Intact
    BY <1>1, <2>3 DEF QueueInOrder, Intact
  <2> QED
    BY <2>1, <2>2, <2>3
<1>7. CopyInOrder'
  <2>1. CASE pc' = "test"
    BY <2>1 DEF CopyInOrder, Copying
  <2>2. CASE pc' = "take"
    BY <1>1, <2>2 DEF AInv, CopyInOrder, Copying, Earlier, Intact
  <2> QED
    BY <1>1, <2>1, <2>2
<1> QED
  BY <1>2, <1>3, <1>4, <1>5, <1>6, <1>7 DEF AInv

LEMMA NextAInv == AInv /\ [ANext]_angleVars => AInv'
<1> SUFFICES ASSUME AInv, [ANext]_angleVars PROVE AInv'
  OBVIOUS
<1>1. CASE UNCHANGED angleVars
  BY <1>1, QuietStepsKeepAInv DEF angleVars, gvars
<1>2. CASE ANext
  <2>1. [GNext]_gvars
    BY <1>2, StepsOfTheRing
  <2>2. CASE Take /\ UNCHANGED parser
    BY <2>2, TakeKeepsAInv DEF parser
  <2>3. CASE (Test \/ Length \/ Load \/ Store \/ Arrive) /\ UNCHANGED parser
    BY <2>1, <2>3, QuietStepsKeepAInv
  <2>4. CASE HandOver /\ UNCHANGED parser
    BY <2>4, HandOverKeepsAInv
  <2> QED
    BY <1>2, <2>2, <2>3, <2>4, CopyKeepsAInv, LoopTestKeepsAInv DEF ANext, Angle, Interrupt
<1> QED
  BY <1>1, <1>2

(* get_angle never parses a frame a second time and never one older than   *)
(* the last, whatever an earlier copy left in g_rx_data_buffer, as long as *)
(* the ring is a queue.                                                    *)
THEOREM AnglesOnlyAdvance == ASpec => []AngleTypeOK /\ AnglesAdvance
<1>1. AInit => AInv
  BY InitAInv
<1>2. AInv /\ [ANext]_angleVars => AInv'
  BY NextAInv
<1>3. AInv => AngleTypeOK
  BY DEF AInv
<1>4. /\ AInv /\ [ANext]_angleVars
      => [Parses /\ Parsed # 0 /\ ~torn /\ ~spoiled => Parsed > angle]_angleVars
  <2> SUFFICES ASSUME AInv, ANext, Parses, Parsed # 0, Intact PROVE Parsed > angle
    BY DEF Intact
  <2>1. LoopTest
    BY DEF ANext, Angle, Parses, Interrupt, Arrive, HandOver, reader, Test, Length, Take,
           Load, Store, Copy, Step
  <2> QED
    BY <2>1, ParsedIsNew
<1> QED
  BY <1>1, <1>2, <1>3, <1>4, PTL DEF ASpec, AnglesAdvance
=============================================================================
