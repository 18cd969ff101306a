-------------------------- MODULE NecDecoderProofs ---------------------------
(***************************************************************************)
(* Proofs about NecDecoder for bytes of any number of bits and any         *)
(* addresses.  The windows of IR_EXTI_Callback separate the intervals as   *)
(* long as an interval is measured at most one tick wrong: that is what a  *)
(* counter of 125 us read at any moment of a tick can be off.  With two    *)
(* ticks a short zero would leave its window and an undisturbed frame be   *)
(* given up; the types hold for any error.                                 *)
(*                                                                         *)
(* NInv is inductive.  A frame is still to come as a whole (FrameAhead),   *)
(* or is being received, and then the bits taken and those to come are the *)
(* frame, or differ from it by one disturbance (Receiving), or nothing of  *)
(* it will be decoded any more (Over).                                     *)
(***************************************************************************)
EXTENDS NecDecoder, FiniteSetTheorems, SequenceTheorems, TLAPS

Frame(a, c) == a \o Inv(a) \o c \o Inv(c)

(* The n-th interval to come is the first of the bits of f.                *)
Ahead(n, f) ==
  /\ Len(gaps) = n - 1 + FRAME_BITS
  /\ \A i \in 1 .. FRAME_BITS : gaps[n - 1 + i] = f[i]

FrameAhead ==
  /\ ~hurt /\ sent \in Bytes
  /\ \E a \in Bytes :
       \/ Ahead(3, Frame(a, sent)) /\ gaps[1] = "idle" /\ gaps[2] = "leader"
       \/ Ahead(2, Frame(a, sent)) /\ gaps[1] = "leader" /\ state = 0

(* The bits the decoder has taken and those it will be offered.            *)
Stream == bits \o gaps

Flipped(s, f) ==
  /\ Len(s) = FRAME_BITS
  /\ \E k \in 1 .. FRAME_BITS :
       s[k] = Other[f[k]] /\ \A i \in (1 .. FRAME_BITS) \ {k} : s[i] = f[i]

Doubled(s, f) ==
  /\ Len(s) = FRAME_BITS + 1
  /\ \E k \in 1 .. FRAME_BITS :
       /\ f[k] = "one" /\ s[k] = "zero" /\ s[k + 1] = "zero"
       /\ \A i \in 1 .. k - 1 : s[i] = f[i]
       /\ \A i \in k + 1 .. FRAME_BITS : s[i + 1] = f[i]

Underway(s, disturbed, f) ==
  \/ ~disturbed /\ s = f
  \/ disturbed /\ Flipped(s, f)
  \/ disturbed /\ Doubled(s, f)

Receiving ==
  /\ state = 1 /\ gaps \in Seq(Bits) /\ sent \in Bytes
  /\ \E a \in Bytes : Underway(Stream, hurt, Frame(a, sent))

(* Nothing begins a frame; one that has begun is broken off, or too short. *)
Over ==
  /\ \A i \in 1 .. Len(gaps) : gaps[i] # "leader"
  /\ ~hurt => state = 0 /\ ir_command = sent
  /\ state = 1 => \/ gaps = <<>>
                  \/ Head(gaps) \in {"idle", "odd"}
                  \/ gaps \in Seq(Bits) /\ Len(bits) + Len(gaps) < FRAME_BITS

NecTyped ==
  /\ NecTypeOK
  /\ bits \in Seq(Bits) /\ gaps \in Seq(Gaps) /\ hurt \in BOOLEAN /\ sent \in Bytes \cup {NoKey}

NInv == NecTyped /\ (FrameAhead \/ Receiving \/ Over)

-----------------------------------------------------------------------------
(* The bytes of a frame.                                                   *)

LEMMA Complement ==
  /\ \A b \in Bits : Other[b] \in Bits /\ Other[b] # b /\ Other[Other[b]] = b
  /\ Other["one"] = "zero" /\ Other["zero"] = "one"
BY DEF Bits, Other

LEMMA InvIsByte ==
  ASSUME NEW b \in Bytes
  PROVE  Inv(b) \in Bytes /\ \A i \in 1 .. BYTE_BITS : Inv(b)[i] = Other[b[i]]
<1>1. \A i \in 1 .. BYTE_BITS : b[i] \in Bits
  BY DEF Bytes
<1>2. \A i \in 1 .. BYTE_BITS : Other[b[i]] \in Bits
  BY <1>1, Complement
<1> QED BY <1>2 DEF Inv, Bytes

LEMMA FrameBits == BYTE_BITS \in Nat \ {0} /\ FRAME_BITS = 4 * BYTE_BITS /\ FRAME_BITS \in Nat
BY NecAssumption DEF FRAME_BITS

LEMMA ByteIsSeq ==
  ASSUME NEW b \in Bytes
  PROVE  b \in Seq(Bits) /\ Len(b) = BYTE_BITS
BY NecAssumption DEF Bytes

(* A frame is four bytes, two of them the complement of the one before.    *)
IsFrame(f, c) ==
  /\ f \in Seq(Bits) /\ Len(f) = FRAME_BITS
  /\ \A i \in 1 .. BYTE_BITS :
       /\ f[BYTE_BITS + i] = Other[f[i]]
       /\ f[2 * BYTE_BITS + i] = c[i]
       /\ f[3 * BYTE_BITS + i] = Other[c[i]]

LEMMA FrameIsFrame ==
  ASSUME NEW a \in Bytes, NEW c \in Bytes
  PROVE  IsFrame(Frame(a, c), c)
<1>1. /\ a \in Seq(Bits) /\ Len(a) = BYTE_BITS /\ Inv(a) \in Seq(Bits) /\ Len(Inv(a)) = BYTE_BITS
      /\ c \in Seq(Bits) /\ Len(c) = BYTE_BITS /\ Inv(c) \in Seq(Bits) /\ Len(Inv(c)) = BYTE_BITS
  BY ByteIsSeq, InvIsByte
<1> DEFINE f == Frame(a, c)
<1>2. f \in Seq(Bits) /\ Len(f) = 4 * BYTE_BITS
  BY <1>1, FrameBits DEF Frame
<1>3. ASSUME NEW i \in 1 .. BYTE_BITS
      PROVE  /\ f[i] = a[i]
             /\ f[BYTE_BITS + i] = Inv(a)[i]
             /\ f[2 * BYTE_BITS + i] = c[i]
             /\ f[3 * BYTE_BITS + i] = Inv(c)[i]
  BY <1>1, FrameBits DEF Frame
<1> HIDE DEF f
<1>4. \A i \in 1 .. BYTE_BITS : Inv(a)[i] = Other[a[i]] /\ Inv(c)[i] = Other[c[i]]
  BY InvIsByte
<1>5. \A i \in 1 .. BYTE_BITS :
         /\ f[BYTE_BITS + i] = Other[f[i]] /\ f[2 * BYTE_BITS + i] = c[i]
         /\ f[3 * BYTE_BITS + i] = Other[c[i]]
  BY <1>3, <1>4
<1>6. Len(f) = FRAME_BITS
  BY <1>2, FrameBits
<1> QED BY <1>2, <1>5, <1>6 DEF IsFrame, f

LEMMA SubSeqBits ==
  ASSUME NEW s, NEW m \in Nat, NEW n \in Nat,
         \A i \in m + 1 .. m + n : s[i] \in Bits
  PROVE  /\ SubSeq(s, m + 1, m + n) \in [1 .. n -> Bits]
         /\ \A i \in 1 .. n : SubSeq(s, m + 1, m + n)[i] = s[m + i]
<1> DEFINE u == SubSeq(s, m + 1, m + n)
<1>1. m + 1 \in Int /\ m + n \in Int
  OBVIOUS
<1>2. u \in Seq(Bits) /\ Len(u) = (IF m + 1 <= m + n THEN m + n - (m + 1) + 1 ELSE 0)
  BY <1>1, SubSeqProperties
<1>3. \A i \in 1 .. m + n - (m + 1) + 1 : u[i] = s[m + 1 + i - 1]
  BY <1>1, SubSeqProperties
<1> HIDE DEF u
<1>4. Len(u) = n
  BY <1>2
<1>5. u \in [1 .. n -> Bits]
  BY <1>2, <1>4, LenProperties
<1>6. ASSUME NEW i \in 1 .. n
      PROVE  u[i] = s[m + i]
  <2>1. i \in 1 .. m + n - (m + 1) + 1 /\ m + 1 + i - 1 = m + i
    OBVIOUS
  <2> QED BY <2>1, <1>3
<1> QED BY <1>5, <1>6 DEF u

LEMMA BytesOf ==
  ASSUME NEW s \in Seq(Bits), Len(s) = FRAME_BITS
  PROVE  /\ Byte(1, s) \in Bytes /\ Byte(2, s) \in Bytes
         /\ Byte(3, s) \in Bytes /\ Byte(4, s) \in Bytes
         /\ \A i \in 1 .. BYTE_BITS :
              /\ Byte(1, s)[i] = s[i] /\ Byte(2, s)[i] = s[BYTE_BITS + i]
              /\ Byte(3, s)[i] = s[2 * BYTE_BITS + i] /\ Byte(4, s)[i] = s[3 * BYTE_BITS + i]
<1> DEFINE B == BYTE_BITS
<1>1. B \in Nat \ {0} /\ FRAME_BITS = 4 * B
  BY FrameBits
<1>2. \A i \in 1 .. 4 * B : s[i] \in Bits
  BY <1>1, ElementOfSeq
<1> HIDE DEF B
<1>3. ASSUME NEW m \in {0, B, 2 * B, 3 * B}
      PROVE  /\ SubSeq(s, m + 1, m + B) \in [1 .. B -> Bits]
             /\ \A i \in 1 .. B : SubSeq(s, m + 1, m + B)[i] = s[m + i]
  <2>1. m \in Nat /\ m + B <= 4 * B
    BY <1>1
  <2>2. \A i \in m + 1 .. m + B : i \in 1 .. 4 * B
    BY <1>1, <2>1
  <2>3. \A i \in m + 1 .. m + B : s[i] \in Bits
    BY <1>2, <2>2
  <2> QED BY <1>1, <2>1, <2>3, SubSeqBits
<1>4. /\ Byte(1, s) = SubSeq(s, 0 + 1, 0 + B) /\ Byte(2, s) = SubSeq(s, B + 1, B + B)
      /\ Byte(3, s) = SubSeq(s, 2 * B + 1, 2 * B + B)
      /\ Byte(4, s) = SubSeq(s, 3 * B + 1, 3 * B + B)
  <2>1. /\ (1 - 1) * B + 1 = 0 + 1 /\ 1 * B = 0 + B /\ (2 - 1) * B + 1 = B + 1 /\ 2 * B = B + B
        /\ (3 - 1) * B + 1 = 2 * B + 1 /\ 3 * B = 2 * B + B
        /\ (4 - 1) * B + 1 = 3 * B + 1 /\ 4 * B = 3 * B + B
    BY <1>1
  <2> QED BY <2>1 DEF Byte, B
<1>5. \A i \in 1 .. B : s[0 + i] = s[i]
  BY <1>1
<1> QED BY <1>3, <1>4, <1>5 DEF Bytes, B

(* What the two comparisons of a complete frame say of its bits.           *)
LEMMA ChecksSay ==
  ASSUME NEW s \in Seq(Bits), Len(s) = FRAME_BITS, Checks(s), NEW i \in 1 .. BYTE_BITS
  PROVE  /\ s[BYTE_BITS + i] = Other[s[i]]
         /\ s[3 * BYTE_BITS + i] = Other[s[2 * BYTE_BITS + i]]
<1>1. Byte(2, s)[i] = Other[Byte(1, s)[i]] /\ Byte(4, s)[i] = Other[Byte(3, s)[i]]
  BY BytesOf, InvIsByte DEF Checks
<1> QED BY <1>1, BytesOf

LEMMA SameByte ==
  ASSUME NEW b \in Bytes, NEW d \in Bytes, \A i \in 1 .. BYTE_BITS : b[i] = d[i]
  PROVE  b = d
<1>1. b \in Seq(Bits) /\ d \in Seq(Bits) /\ Len(b) = BYTE_BITS /\ Len(d) = BYTE_BITS
  BY ByteIsSeq
<1> QED BY <1>1, SeqEqual

(* A command that passes the comparisons is the one of the frame: its      *)
(* bits are known one by one.                                              *)
LEMMA CommandIs ==
  ASSUME NEW s \in Seq(Bits), Len(s) = FRAME_BITS, NEW c \in Bytes,
         \A i \in 1 .. BYTE_BITS : s[2 * BYTE_BITS + i] = c[i]
  PROVE  Byte(3, s) = c
<1>1. Byte(3, s) \in Bytes /\ \A i \in 1 .. BYTE_BITS : Byte(3, s)[i] = c[i]
  BY BytesOf
<1> QED BY <1>1, SameByte

LEMMA CleanChecks ==
  ASSUME NEW c \in Bytes, NEW f, IsFrame(f, c)
  PROVE  Checks(f) /\ Byte(3, f) = c
<1>1. f \in Seq(Bits) /\ Len(f) = FRAME_BITS
  BY DEF IsFrame
<1>2. Byte(3, f) = c
  BY <1>1, CommandIs DEF IsFrame
<1>3. /\ Byte(1, f) \in Bytes /\ Byte(2, f) \in Bytes
      /\ Byte(3, f) \in Bytes /\ Byte(4, f) \in Bytes
  BY <1>1, BytesOf
<1>4. /\ Inv(Byte(1, f)) \in Bytes /\ Inv(Byte(3, f)) \in Bytes
      /\ \A i \in 1 .. BYTE_BITS : /\ Inv(Byte(1, f))[i] = Other[Byte(1, f)[i]]
                                   /\ Inv(Byte(3, f))[i] = Other[Byte(3, f)[i]]
  BY <1>3, InvIsByte
<1>5. \A i \in 1 .. BYTE_BITS :
         /\ Byte(1, f)[i] = f[i] /\ Byte(2, f)[i] = f[BYTE_BITS + i]
         /\ Byte(4, f)[i] = f[3 * BYTE_BITS + i]
  BY <1>1, BytesOf
<1>6. \A i \in 1 .. BYTE_BITS : f[BYTE_BITS + i] = Other[f[i]] /\ f[3 * BYTE_BITS + i] = Other[c[i]]
  BY DEF IsFrame
<1>7. \A i \in 1 .. BYTE_BITS : /\ Byte(2, f)[i] = Inv(Byte(1, f))[i]
                                /\ Byte(4, f)[i] = Inv(Byte(3, f))[i]
  BY <1>2, <1>4, <1>5, <1>6
<1> DEFINE b1 == Inv(Byte(1, f)) b2 == Byte(2, f) b3 == Inv(Byte(3, f)) b4 == Byte(4, f)
<1>8. /\ b1 \in Bytes /\ b2 \in Bytes /\ b3 \in Bytes /\ b4 \in Bytes
      /\ \A i \in 1 .. BYTE_BITS : b2[i] = b1[i] /\ b4[i] = b3[i]
  BY <1>3, <1>4, <1>7
<1> HIDE DEF b1, b2, b3, b4
<1>9. b2 = b1 /\ b4 = b3
  BY <1>8, SameByte
<1> QED BY <1>2, <1>9 DEF Checks, b1, b2, b3, b4

(* A bit read as the other is found out, in whichever byte it is.          *)
LEMMA FlippedIsRefused ==
  ASSUME NEW c \in Bytes, NEW f, IsFrame(f, c), NEW s \in Seq(Bits), Flipped(s, f)
  PROVE  ~Checks(s)
<1> DEFINE B == BYTE_BITS
<1>1. B \in Nat \ {0} /\ FRAME_BITS = 4 * B
  BY FrameBits
<1>2. SUFFICES ASSUME Checks(s) PROVE FALSE
  OBVIOUS
<1>3. PICK k \in 1 .. FRAME_BITS :
         s[k] = Other[f[k]] /\ \A i \in (1 .. FRAME_BITS) \ {k} : s[i] = f[i]
  BY DEF Flipped
<1>4. \A i \in 1 .. B : s[B + i] = Other[s[i]] /\ s[3 * B + i] = Other[s[2 * B + i]]
  <2>1. Len(s) = FRAME_BITS
    BY DEF Flipped
  <2> QED BY <1>2, <2>1, ChecksSay
<1>5. \A i \in 1 .. B : f[B + i] = Other[f[i]] /\ f[3 * B + i] = Other[f[2 * B + i]]
  BY DEF IsFrame
<1>6. f[k] \in Bits /\ \A i \in 1 .. 4 * B : f[i] \in Bits
  BY <1>1, ElementOfSeq DEF IsFrame
<1> HIDE DEF B
<1>7. PICK i \in 1 .. B : k \in {i, B + i, 2 * B + i, 3 * B + i}
  <2>1. k \in 1 .. 4 * B
    BY <1>1, <1>3
  <2>2. CASE k <= B
    BY <1>1, <2>1, <2>2
  <2>3. CASE B < k /\ k <= 2 * B
    <3>1. k - B \in 1 .. B /\ k = B + (k - B)
      BY <1>1, <2>1, <2>3
    <3> QED BY <3>1
  <2>4. CASE 2 * B < k /\ k <= 3 * B
    <3>1. k - 2 * B \in 1 .. B /\ k = 2 * B + (k - 2 * B)
      BY <1>1, <2>1, <2>4
    <3> QED BY <3>1
  <2>5. CASE 3 * B < k
    <3>1. k - 3 * B \in 1 .. B /\ k = 3 * B + (k - 3 * B)
      BY <1>1, <2>1, <2>5
    <3> QED BY <3>1
  <2> QED BY <1>1, <2>1, <2>2, <2>3, <2>4, <2>5
<1>8. /\ i \in 1 .. FRAME_BITS /\ B + i \in 1 .. FRAME_BITS
      /\ 2 * B + i \in 1 .. FRAME_BITS /\ 3 * B + i \in 1 .. FRAME_BITS
      /\ i # B + i /\ 2 * B + i # 3 * B + i
  BY <1>1
<1>9. f[i] \in Bits /\ f[B + i] \in Bits /\ f[2 * B + i] \in Bits /\ f[3 * B + i] \in Bits
  BY <1>1, <1>6, <1>8
<1>10. CASE k = i
  <2>1. s[B + i] = f[B + i] /\ s[i] = Other[f[i]]
    BY <1>3, <1>8, <1>10
  <2> QED BY <2>1, <1>4, <1>5, <1>9, Complement
<1>11. CASE k = B + i
  <2>1. s[i] = f[i] /\ s[B + i] = Other[f[B + i]]
    BY <1>3, <1>8, <1>11
  <2> QED BY <2>1, <1>4, <1>5, <1>9, Complement
<1>12. CASE k = 2 * B + i
  <2>1. s[3 * B + i] = f[3 * B + i] /\ s[2 * B + i] = Other[f[2 * B + i]]
    BY <1>3, <1>8, <1>12
  <2> QED BY <2>1, <1>4, <1>5, <1>9, Complement
<1>13. CASE k = 3 * B + i
  <2>1. s[2 * B + i] = f[2 * B + i] /\ s[3 * B + i] = Other[f[3 * B + i]]
    BY <1>3, <1>8, <1>13
  <2> QED BY <2>1, <1>4, <1>5, <1>9, Complement
<1> QED BY <1>7, <1>10, <1>11, <1>12, <1>13

(* What holds of the first place, and of the next one wherever it holds,   *)
(* holds of the last place: counted, since no two places have one next.    *)
LEMMA LastPlace ==
  ASSUME NEW n \in Nat \ {0}, NEW P, P \subseteq 1 .. n, 1 \in P,
         \A i \in P : i < n => i + 1 \in P
  PROVE  n \in P
<1>1. SUFFICES ASSUME n \notin P PROVE FALSE
  OBVIOUS
<1>2. IsFiniteSet(1 .. n)
  BY FS_Interval
<1>3. IsFiniteSet(P)
  BY <1>2, FS_Subset
<1>4. IsFiniteSet(P \ {1}) /\ Cardinality(P \ {1}) = Cardinality(P) - 1
  BY <1>3, FS_RemoveElement
<1>5. Cardinality(P) \in Nat
  BY <1>3, FS_CardinalityType
<1>6. Cardinality(P \ {1}) < Cardinality(P)
  BY <1>4, <1>5
<1>7. \A i \in P : i \in Nat /\ i + 1 \in P \ {1}
  BY <1>1
<1>8. PICK rest : /\ IsFiniteSet(rest) /\ Cardinality(rest) < Cardinality(P)
                  /\ \A i \in P : i + 1 \in rest
  BY <1>4, <1>6, <1>7
<1>9. PICK next \in [P -> rest] : \A i \in P : next[i] = i + 1
  <2>1. [i \in P |-> i + 1] \in [P -> rest]
    BY <1>8
  <2> QED BY <2>1
<1>10. \E x, y \in P : x # y /\ next[x] = next[y]
  <2>1. IsFiniteSet(rest) /\ Cardinality(rest) < Cardinality(P) /\ next \in [P -> rest]
    BY <1>8
  <2> QED BY ONLY <1>3, <2>1, FS_PigeonHole
<1> QED BY <1>7, <1>9, <1>10

(* A byte, its first place o + 1, and the byte after it, in a frame f and   *)
(* in the bits s that are read when its last bit is doubled.               *)
DoubledAtTheEnd(B, o, s, f) ==
  /\ \A i \in 1 .. B : s[o + i] \in Bits /\ s[o + B + i] = Other[s[o + i]]
  /\ \A i \in 1 .. B : f[o + B + i] = Other[f[o + i]]
  /\ \A i \in 1 .. B - 1 : s[o + i] = f[o + i] /\ s[o + B + (i + 1)] = f[o + B + i]
  /\ s[o + B] = "zero" /\ s[o + B + 1] = "zero"

(* The last bit of a byte read as two zeros: by the comparison with the    *)
(* complement, which comes one place late, every bit of the byte would be  *)
(* a one, and the last is a zero.                                          *)
LEMMA LastBitDoubled ==
  ASSUME NEW B \in Nat \ {0}, NEW o \in Nat, NEW s, NEW f
  PROVE  ~DoubledAtTheEnd(B, o, s, f)
<1> SUFFICES ASSUME DoubledAtTheEnd(B, o, s, f) PROVE FALSE
  OBVIOUS
<1> USE DEF DoubledAtTheEnd
<1> DEFINE P == {i \in 1 .. B : s[o + i] = "one"}
<1>1. 1 \in P
  BY Complement
<1>2. ASSUME NEW i \in P, i < B
      PROVE  i + 1 \in P
  <2>1. i \in 1 .. B - 1 /\ i + 1 \in 1 .. B /\ i \in 1 .. B
    BY <1>2
  <2>2. s[o + B + (i + 1)] = f[o + B + i] /\ f[o + B + i] = Other[f[o + i]] /\ f[o + i] = s[o + i]
    BY <2>1
  <2>3. s[o + B + (i + 1)] = "zero"
    BY <2>2, Complement
  <2>4. s[o + (i + 1)] \in Bits /\ Other[s[o + (i + 1)]] = "zero"
    BY <2>1, <2>3
  <2> QED BY <2>1, <2>4, Complement
<1>3. B \in P
  <2>1. P \subseteq 1 .. B
    OBVIOUS
  <2> HIDE DEF P
  <2> QED BY <1>1, <1>2, <2>1, LastPlace
<1> QED BY <1>3

(* A one read as two zeros, with the bits after it one place late: the     *)
(* frame is refused, or it is in the last byte and the command has passed. *)
LEMMA DoubledIsHarmless ==
  ASSUME NEW c \in Bytes, NEW f, IsFrame(f, c), NEW s \in Seq(Bits), Len(s) = FRAME_BITS,
         NEW k \in 1 .. FRAME_BITS, f[k] = "one", s[k] = "zero",
         k < FRAME_BITS => s[k + 1] = "zero",
         \A i \in 1 .. k - 1 : s[i] = f[i],
         \A i \in k + 1 .. FRAME_BITS - 1 : s[i + 1] = f[i],
         Checks(s)
  PROVE  Byte(3, s) = c
<1> DEFINE B == BYTE_BITS
<1>1. B \in Nat \ {0} /\ FRAME_BITS = 4 * B
  BY FrameBits
<1>2. \A i \in 1 .. B : s[B + i] = Other[s[i]] /\ s[3 * B + i] = Other[s[2 * B + i]]
  BY ChecksSay
<1>3. \A i \in 1 .. B : f[B + i] = Other[f[i]] /\ f[3 * B + i] = Other[f[2 * B + i]]
  BY DEF IsFrame
<1>4. \A i \in 1 .. 4 * B : f[i] \in Bits /\ s[i] \in Bits
  BY <1>1, ElementOfSeq DEF IsFrame
<1>5. \A i \in 1 .. B : f[2 * B + i] = c[i]
  BY DEF IsFrame
<1> HIDE DEF B
<1>6. k \in 1 .. 4 * B /\ k \in Nat
  BY <1>1
<1>7. CASE k < B
  <2>1. /\ k \in 1 .. B /\ k + 1 \in 1 .. B /\ B + k \in k + 1 .. FRAME_BITS - 1 /\ k < FRAME_BITS
        /\ B + (k + 1) = B + k + 1
    BY <1>1, <1>6, <1>7
  <2>2. s[k + 1] = "zero" /\ s[B + k + 1] = f[B + k]
    BY <2>1
  <2>3. f[B + k] = Other[f[k]] /\ s[B + (k + 1)] = Other[s[k + 1]]
    BY <2>1, <1>2, <1>3
  <2> QED BY <2>1, <2>2, <2>3, Complement
<1>8. CASE k = B
  <2>1. \A i \in 1 .. B : s[0 + i] \in Bits /\ s[0 + B + i] = Other[s[0 + i]]
    BY <1>1, <1>2, <1>4
  <2>2. \A i \in 1 .. B : f[0 + B + i] = Other[f[0 + i]]
    BY <1>1, <1>3
  <2>3. ASSUME NEW i \in 1 .. B - 1
        PROVE  s[0 + i] = f[0 + i] /\ s[0 + B + (i + 1)] = f[0 + B + i]
    <3>1. i \in 1 .. k - 1 /\ B + i \in k + 1 .. FRAME_BITS - 1
          /\ 0 + i = i /\ 0 + B + (i + 1) = B + i + 1 /\ 0 + B + i = B + i
      BY <1>1, <1>8
    <3> QED BY <3>1
  <2>4. s[0 + B] = "zero" /\ s[0 + B + 1] = "zero"
    BY <1>1, <1>8
  <2>5. DoubledAtTheEnd(B, 0, s, f)
    BY <2>1, <2>2, <2>3, <2>4 DEF DoubledAtTheEnd
  <2> QED BY <1>1, <2>5, LastBitDoubled
<1>9. CASE B < k /\ k <= 2 * B
  <2> DEFINE j == k - B
  <2>1. j \in 1 .. B /\ k = B + j /\ j \in 1 .. k - 1 /\ j \in 1 .. 4 * B
    BY <1>1, <1>6, <1>9
  <2> HIDE DEF j
  <2>2. s[j] = f[j] /\ f[j] \in Bits /\ Other[f[j]] = "one" /\ Other[s[j]] = "zero"
    BY <2>1, <1>2, <1>3, <1>4
  <2> QED BY <2>2, Complement
<1>10. CASE 2 * B < k /\ k < 3 * B
  <2> DEFINE j == k - 2 * B
  <2>1. /\ j \in 1 .. B /\ j + 1 \in 1 .. B /\ k = 2 * B + j /\ k + 1 = 2 * B + (j + 1)
        /\ 3 * B + j \in k + 1 .. FRAME_BITS - 1 /\ k < FRAME_BITS
        /\ 3 * B + (j + 1) = 3 * B + j + 1
    BY <1>1, <1>6, <1>10
  <2> HIDE DEF j
  <2>2. s[2 * B + (j + 1)] = "zero" /\ s[3 * B + j + 1] = f[3 * B + j]
    BY <2>1
  <2>3. f[3 * B + j] = Other[f[2 * B + j]] /\ s[3 * B + (j + 1)] = Other[s[2 * B + (j + 1)]]
    BY <2>1, <1>2, <1>3
  <2> QED BY <2>1, <2>2, <2>3, Complement
<1>11. CASE k = 3 * B
  <2> DEFINE o == 2 * B
  <2>1. o \in Nat /\ \A i \in 1 .. B : o + i = 2 * B + i /\ o + B + i = 3 * B + i /\ o + i \in 1 .. 4 * B
    BY <1>1
  <2>2. o + B = k /\ o + B + 1 = k + 1 /\ k < FRAME_BITS
    BY <1>1, <1>11
  <2>3. \A i \in 1 .. B - 1 : /\ i \in 1 .. B /\ o + i \in 1 .. k - 1
                              /\ o + B + i \in k + 1 .. FRAME_BITS - 1
                              /\ o + B + (i + 1) = o + B + i + 1
    BY <1>1, <1>11
  <2> HIDE DEF o
  <2>4. \A i \in 1 .. B : s[o + i] \in Bits /\ s[o + B + i] = Other[s[o + i]]
    BY <2>1, <1>2, <1>4
  <2>5. \A i \in 1 .. B : f[o + B + i] = Other[f[o + i]]
    BY <2>1, <1>3
  <2>6. \A i \in 1 .. B - 1 : s[o + i] = f[o + i] /\ s[o + B + (i + 1)] = f[o + B + i]
    BY <2>3
  <2>7. s[o + B] = "zero" /\ s[o + B + 1] = "zero"
    BY <2>2
  <2>8. DoubledAtTheEnd(B, o, s, f)
    BY <2>4, <2>5, <2>6, <2>7 DEF DoubledAtTheEnd
  <2> QED BY <1>1, <2>1, <2>8, LastBitDoubled
<1>12. CASE 3 * B < k
  <2>1. \A i \in 1 .. B : 2 * B + i \in 1 .. k - 1
    BY <1>1, <1>12
  <2>2. \A i \in 1 .. B : s[2 * B + i] = c[i]
    BY <2>1, <1>5
  <2> QED BY <2>2, CommandIs DEF B
<1> QED BY <1>1, <1>6, <1>7, <1>8, <1>9, <1>10, <1>11, <1>12

-----------------------------------------------------------------------------
(* Types.                                                                  *)

LEMMA BitsAreGaps == Bits \subseteq Gaps /\ Seq(Bits) \subseteq Seq(Gaps)
<1>1. Bits \subseteq Gaps
  BY DEF Gaps
<1> QED BY <1>1, SeqMonotonic

LEMMA TypesStart == NecInit => NecTyped
<1> SUFFICES ASSUME NecInit PROVE NecTyped
  OBVIOUS
<1>1. Len(<<>>) = 0 /\ <<>> \in Seq(Bits) /\ <<>> \in Seq(Gaps)
  BY EmptySeq
<1>2. FRAME_BITS > 0
  BY FrameBits
<1>3. state \in 0 .. 1 /\ state # 1 /\ ir_frame_ready \in 0 .. 2
  BY DEF NecInit
<1>6. Len(bits) <= FRAME_BITS
  <2>1. 0 <= FRAME_BITS
    BY FrameBits
  <2> QED BY <1>1, <2>1, Zenon DEF NecInit
<1>4. ir_command \in Bytes \cup {NoKey}
  BY Zenon DEF NecInit
<1>5. bits \in Seq(Bits) /\ gaps \in Seq(Gaps) /\ hurt \in BOOLEAN /\ sent \in Bytes \cup {NoKey}
  BY <1>1, Zenon DEF NecInit
<1> QED BY <1>3, <1>4, <1>5, <1>6, Zenon DEF NecTyped, NecTypeOK

OneByOne(p, q, r, t, u) == p \o q \o r \o t \o u = p \o (q \o r \o t \o u)

LEMMA OneAfterFour ==
  \A p, q, r, t, u \in Seq(Gaps) : OneByOne(p, q, r, t, u)
<1> SUFFICES ASSUME NEW p \in Seq(Gaps), NEW q \in Seq(Gaps), NEW r \in Seq(Gaps),
                    NEW t \in Seq(Gaps), NEW u \in Seq(Gaps)
             PROVE  p \o q \o r \o t \o u = p \o (q \o r \o t \o u)
  BY Zenon DEF OneByOne
<1>1. \A x \in Seq(Gaps), y \in Seq(Gaps) : p \o x \o y = p \o (x \o y)
  OBVIOUS
<1>2. q \o r \in Seq(Gaps) /\ q \o r \o t \in Seq(Gaps)
  OBVIOUS
<1>3. p \o q \o r = p \o (q \o r) /\ p \o (q \o r) \o t = p \o (q \o r \o t)
  BY <1>1, <1>2, Zenon
<1>4. p \o (q \o r \o t) \o u = p \o (q \o r \o t \o u)
  BY <1>1, <1>2, Zenon
<1> QED BY <1>3, <1>4, Zenon

(* The intervals of a frame, and where its bits are among them.            *)
LEMMA GapsOfFrame ==
  ASSUME NEW a \in Bytes, NEW c \in Bytes,
         gaps' = <<"idle", "leader">> \o a \o Inv(a) \o c \o Inv(c)
  PROVE  /\ gaps' \in Seq(Gaps) /\ Len(gaps') = 2 + FRAME_BITS
         /\ gaps'[1] = "idle" /\ gaps'[2] = "leader"
         /\ \A i \in 1 .. FRAME_BITS : gaps'[2 + i] = Frame(a, c)[i]
<1> DEFINE first == <<"idle", "leader">>
           f == Frame(a, c)
<1>1. a \in Seq(Gaps) /\ Inv(a) \in Seq(Gaps) /\ c \in Seq(Gaps) /\ Inv(c) \in Seq(Gaps)
  BY ByteIsSeq, InvIsByte, BitsAreGaps
<1>2. "idle" \in Gaps /\ "leader" \in Gaps /\ first \in Seq(Gaps)
  BY DEF Gaps
<1>3. f \in Seq(Gaps) /\ Len(f) = FRAME_BITS
  BY FrameIsFrame, BitsAreGaps DEF IsFrame
<1> HIDE DEF first, f
<1>4. first \o a \o Inv(a) \o c \o Inv(c) = first \o (a \o Inv(a) \o c \o Inv(c))
  <2>1. OneByOne(first, a, Inv(a), c, Inv(c))
    BY <1>1, <1>2, OneAfterFour, Zenon
  <2> QED BY <2>1, Zenon DEF OneByOne
<1>5. gaps' = <<"idle", "leader">> \o f
  BY <1>4, Zenon DEF first, f, Frame
<1>6. /\ <<"idle", "leader">> \o f \in Seq(Gaps)
      /\ Len(<<"idle", "leader">> \o f) = 2 + FRAME_BITS
  BY ONLY <1>2, <1>3, FrameBits
<1>7. /\ (<<"idle", "leader">> \o f)[1] = "idle"
      /\ (<<"idle", "leader">> \o f)[2] = "leader"
  BY ONLY <1>2, <1>3, FrameBits
<1>8. ASSUME NEW i \in 1 .. FRAME_BITS
      PROVE  (<<"idle", "leader">> \o f)[2 + i] = f[i]
  BY ONLY <1>2, <1>3, FrameBits
<1> QED BY <1>5, <1>6, <1>7, <1>8, Zenon DEF f

(* What a disturbance makes of the intervals to come: another first        *)
(* interval, two in its place, or one in the place of the first two.       *)
Replaced(u, t, x) ==
  /\ u \in Seq(Gaps) /\ Len(u) = Len(t) /\ u[1] = x
  /\ \A i \in 2 .. Len(t) : u[i] = t[i]

SplitUp(u, t, x, y) ==
  /\ u \in Seq(Gaps) /\ Len(u) = Len(t) + 1 /\ u[1] = x /\ u[2] = y
  /\ \A i \in 2 .. Len(t) : u[i + 1] = t[i]

JoinedUp(u, t, x) ==
  /\ u \in Seq(Gaps) /\ Len(u) = Len(t) - 1 /\ u[1] = x
  /\ \A i \in 2 .. Len(t) - 1 : u[i] = t[i + 1]

LEMMA NotEmpty == \A t \in Seq(Gaps) : t # <<>> => Len(t) \in Nat /\ Len(t) >= 1 /\ Head(t) = t[1] /\ t[1] \in Gaps
<1> SUFFICES ASSUME NEW t \in Seq(Gaps), t # <<>>
             PROVE  Len(t) \in Nat /\ Len(t) >= 1 /\ Head(t) = t[1] /\ t[1] \in Gaps
  OBVIOUS
<1>1. Len(t) \in Nat /\ Len(t) >= 1
  BY EmptySeq
<1>2. Head(t) = t[1]
  BY <1>1
<1>3. t[1] \in Gaps
  BY <1>1, ElementOfSeq
<1> QED BY <1>1, <1>2, <1>3

LEMMA ReplaceFirst ==
  \A t \in Seq(Gaps), x \in Gaps : t # <<>> => Replaced(<<x>> \o Tail(t), t, x)
<1> SUFFICES ASSUME NEW t \in Seq(Gaps), NEW x \in Gaps, t # <<>>
             PROVE  Replaced(<<x>> \o Tail(t), t, x)
  OBVIOUS
<1>1. <<x>> \o Tail(t) \in Seq(Gaps) /\ Len(<<x>> \o Tail(t)) = Len(t)
  OBVIOUS
<1>2. (<<x>> \o Tail(t))[1] = x
  OBVIOUS
<1>3. ASSUME NEW i \in 2 .. Len(t) PROVE (<<x>> \o Tail(t))[i] = t[i]
  OBVIOUS
<1> QED BY <1>1, <1>2, <1>3, Zenon DEF Replaced

LEMMA SplitFirst ==
  \A t \in Seq(Gaps), x \in Gaps, y \in Gaps : t # <<>> => SplitUp(<<x, y>> \o Tail(t), t, x, y)
<1> SUFFICES ASSUME NEW t \in Seq(Gaps), NEW x \in Gaps, NEW y \in Gaps, t # <<>>
             PROVE  SplitUp(<<x, y>> \o Tail(t), t, x, y)
  OBVIOUS
<1>1. <<x, y>> \o Tail(t) \in Seq(Gaps) /\ Len(<<x, y>> \o Tail(t)) = Len(t) + 1
  OBVIOUS
<1>2. (<<x, y>> \o Tail(t))[1] = x /\ (<<x, y>> \o Tail(t))[2] = y
  OBVIOUS
<1>3. ASSUME NEW i \in 2 .. Len(t) PROVE (<<x, y>> \o Tail(t))[i + 1] = t[i]
  OBVIOUS
<1> QED BY <1>1, <1>2, <1>3, Zenon DEF SplitUp

LEMMA JoinFirst ==
  \A t \in Seq(Gaps), x \in Gaps : Len(t) > 1 => JoinedUp(<<x>> \o Tail(Tail(t)), t, x)
<1> SUFFICES ASSUME NEW t \in Seq(Gaps), NEW x \in Gaps, Len(t) > 1
             PROVE  JoinedUp(<<x>> \o Tail(Tail(t)), t, x)
  OBVIOUS
<1> DEFINE v == Tail(Tail(t))
<1>1. v \in Seq(Gaps) /\ Len(v) = Len(t) - 2 /\ Len(t) \in Nat
  OBVIOUS
<1>2. \A i \in 1 .. Len(t) - 2 : v[i] = t[i + 2]
  OBVIOUS
<1> HIDE DEF v
<1>3. <<x>> \o v \in Seq(Gaps) /\ Len(<<x>> \o v) = 1 + Len(v)
  BY <1>1
<1>4. (<<x>> \o v)[1] = x
  BY <1>1
<1>5. \A i \in 1 .. Len(v) : (<<x>> \o v)[1 + i] = v[i]
  BY <1>1
<1>6. Len(<<x>> \o v) = Len(t) - 1
  BY <1>1, <1>3
<1>7. ASSUME NEW i \in 2 .. Len(t) - 1
      PROVE  (<<x>> \o v)[i] = t[i + 1]
  <2>1. i - 1 \in 1 .. Len(v) /\ i - 1 \in 1 .. Len(t) - 2 /\ 1 + (i - 1) = i /\ (i - 1) + 2 = i + 1
    BY <1>1
  <2>2. (<<x>> \o v)[1 + (i - 1)] = v[i - 1] /\ v[i - 1] = t[(i - 1) + 2]
    BY <1>2, <1>5, <2>1, Zenon
  <2> QED BY <2>1, <2>2, Zenon
<1> QED BY <1>3, <1>4, <1>6, <1>7, Zenon DEF JoinedUp, v

LEMMA Disturbed ==
  ASSUME NecTyped, Disturb
  PROVE  \/ gaps[1] \in Bits /\ Replaced(gaps', gaps, Other[gaps[1]])
         \/ Replaced(gaps', gaps, "odd")
         \/ gaps[1] = "one" /\ SplitUp(gaps', gaps, "zero", "zero")
         \/ gaps[1] = "leader" /\ SplitUp(gaps', gaps, "repeat", "repeat")
         \/ /\ Len(gaps) > 1 /\ gaps[1] = "zero" /\ gaps[2] = "zero"
            /\ JoinedUp(gaps', gaps, "one")
         \/ Len(gaps) > 1 /\ JoinedUp(gaps', gaps, "odd")
<1>1. gaps \in Seq(Gaps) /\ gaps # <<>>
  BY DEF NecTyped, Disturb
<1>2. Head(gaps) = gaps[1] /\ gaps[1] \in Gaps
  BY <1>1, NotEmpty
<1>3. /\ "odd" \in Gaps /\ "zero" \in Gaps /\ "one" \in Gaps /\ "repeat" \in Gaps
      /\ \A b \in Bits : Other[b] \in Gaps
  BY Complement, BitsAreGaps DEF Gaps, Bits
<1>4. CASE Head(gaps) \in Bits /\ gaps' = <<Other[Head(gaps)]>> \o Tail(gaps)
  <2>1. gaps[1] \in Bits /\ Other[gaps[1]] \in Gaps /\ gaps' = <<Other[gaps[1]]>> \o Tail(gaps)
    BY <1>2, <1>3, <1>4, Zenon
  <2>2. Replaced(<<Other[gaps[1]]>> \o Tail(gaps), gaps, Other[gaps[1]])
    BY <1>1, <2>1, ReplaceFirst, Zenon
  <2> QED BY <2>1, <2>2, Zenon
<1>5. CASE gaps' = <<"odd">> \o Tail(gaps)
  BY <1>1, <1>3, <1>5, ReplaceFirst, Zenon
<1>6. CASE \E two \in Splits[Head(gaps)] : gaps' = two \o Tail(gaps)
  <2>1. PICK two \in Splits[gaps[1]] : gaps' = two \o Tail(gaps)
    BY <1>2, <1>6
  <2>2. \/ gaps[1] = "one" /\ two = <<"zero", "zero">>
        \/ gaps[1] = "leader" /\ two = <<"repeat", "repeat">>
    <3>1. gaps[1] \in {"zero", "one", "leader", "repeat", "idle", "odd"}
      BY <1>2 DEF Gaps, Bits
    <3>2. /\ Splits["zero"] = {} /\ Splits["one"] = {<<"zero", "zero">>}
          /\ Splits["leader"] = {<<"repeat", "repeat">>} /\ Splits["repeat"] = {}
          /\ Splits["idle"] = {} /\ Splits["odd"] = {}
      BY DEF Splits
    <3> QED BY <3>1, <3>2, <2>1, Zenon
  <2>3. /\ SplitUp(<<"zero", "zero">> \o Tail(gaps), gaps, "zero", "zero")
        /\ SplitUp(<<"repeat", "repeat">> \o Tail(gaps), gaps, "repeat", "repeat")
    BY <1>1, <1>3, SplitFirst, Zenon
  <2> QED BY <2>1, <2>2, <2>3, Zenon
<1>7. CASE Len(gaps) > 1 /\ gaps' = <<Joined(gaps[1], gaps[2])>> \o Tail(Tail(gaps))
  <2>1. CASE gaps[1] = "zero" /\ gaps[2] = "zero"
    <3>1. gaps' = <<"one">> \o Tail(Tail(gaps))
      BY <1>7, <2>1, Zenon DEF Joined
    <3> QED BY <1>1, <1>3, <1>7, <2>1, <3>1, JoinFirst, Zenon
  <2>2. CASE ~(gaps[1] = "zero" /\ gaps[2] = "zero")
    <3>1. gaps' = <<"odd">> \o Tail(Tail(gaps))
      BY <1>7, <2>2, Zenon DEF Joined
    <3> QED BY <1>1, <1>3, <1>7, <3>1, JoinFirst, Zenon
  <2> QED BY <2>1, <2>2
<1> QED BY <1>4, <1>5, <1>6, <1>7, Zenon DEF Disturb

LEMMA CallbackTypes ==
  ASSUME NecTyped, NEW d, Callback(d)
  PROVE  NecTypeOK' /\ bits' \in Seq(Bits)
<1>1. /\ state \in 0 .. 1 /\ Len(bits) <= FRAME_BITS /\ (state = 1 => Len(bits) < FRAME_BITS)
      /\ ir_frame_ready \in 0 .. 2
  BY DEF NecTyped, NecTypeOK
<1>2. ir_command \in Bytes \cup {NoKey} /\ bits \in Seq(Bits)
  BY DEF NecTyped, NecTypeOK
<1>3. CASE WaitLeader(d)
  <2>1. ir_frame_ready' \in 0 .. 2 /\ ir_command' = ir_command
    BY <1>1, <1>3 DEF WaitLeader
  <2>2. CASE UNCHANGED <<state, bits>>
    BY <1>1, <1>2, <2>1, <2>2, Zenon DEF NecTypeOK
  <2>3. CASE state' = 1 /\ bits' = <<>>
    <3>1. Len(bits') = 0 /\ bits' \in Seq(Bits)
      BY <2>3, EmptySeq
    <3>2. 0 < FRAME_BITS /\ 0 <= FRAME_BITS /\ 1 \in 0 .. 1
      BY FrameBits
    <3> QED BY <1>2, <2>1, <2>3, <3>1, <3>2, Zenon DEF NecTypeOK
  <2> QED BY <1>3, <2>2, <2>3, Zenon DEF WaitLeader
<1>4. ASSUME NEW bit \in Bits, NEW low, NEW high, TakeBit(d, bit, low, high)
      PROVE  NecTypeOK' /\ bits' \in Seq(Bits)
  <2>1. state = 1 /\ bits' = Append(bits, bit)
    BY <1>4 DEF TakeBit
  <2>2. bits' \in Seq(Bits) /\ Len(bits') = Len(bits) + 1 /\ Len(bits) \in Nat
    BY <1>2, <2>1, AppendProperties, LenProperties
  <2>3. Len(bits') <= FRAME_BITS /\ (Len(bits') # FRAME_BITS => Len(bits') < FRAME_BITS)
    BY <1>1, <2>1, <2>2, FrameBits
  <2>4. CASE Len(bits') = FRAME_BITS
    <3>1. state' = 0 /\ 0 \in 0 .. 1 /\ 1 \in 0 .. 2 /\ 0 # 1
      BY <1>4, <2>4 DEF TakeBit
    <3>2. Byte(3, bits') \in Bytes
      BY <2>2, <2>4, BytesOf
    <3>3. CASE Checks(bits')
      <4>1. ir_command' = Byte(3, bits') /\ ir_frame_ready' = 1
        BY <1>4, <2>4, <3>3, Zenon DEF TakeBit
      <4> QED BY <2>2, <2>3, <3>1, <3>2, <4>1, Zenon DEF NecTypeOK
    <3>4. CASE ~Checks(bits')
      <4>1. ir_command' = ir_command /\ ir_frame_ready' = ir_frame_ready
        BY <1>4, <2>4, <3>4, Zenon DEF TakeBit
      <4> QED BY <1>1, <1>2, <2>2, <2>3, <3>1, <4>1, Zenon DEF NecTypeOK
    <3> QED BY <3>3, <3>4, Zenon
  <2>5. CASE Len(bits') # FRAME_BITS
    <3>1. state' = state /\ ir_command' = ir_command /\ ir_frame_ready' = ir_frame_ready
      BY <1>4, <2>5, Zenon DEF TakeBit
    <3> QED BY <1>1, <1>2, <2>2, <2>3, <2>5, <3>1, Zenon DEF NecTypeOK
  <2> QED BY <2>4, <2>5, Zenon
<1>5. CASE BadBit(d)
  <2>1. /\ state' = 0 /\ 0 # 1 /\ 0 \in 0 .. 1 /\ bits' = bits
        /\ ir_command' = ir_command /\ ir_frame_ready' = ir_frame_ready
    BY <1>5 DEF BadBit
  <2> QED BY <1>1, <1>2, <2>1, Zenon DEF NecTypeOK
<1>6. "zero" \in Bits /\ "one" \in Bits
  BY DEF Bits
<1> QED BY <1>3, <1>4, <1>5, <1>6, Zenon DEF Callback

LEMMA TypesKept ==
  ASSUME NecTyped, [NecNext]_nvars
  PROVE  NecTyped'
<1>1. ASSUME UNCHANGED decoder
      PROVE  NecTypeOK' /\ bits' \in Seq(Bits)
  BY <1>1, Zenon DEF NecTyped, NecTypeOK, decoder
<1>2. CASE SendFrame
  <2>1. PICK a \in Addresses, c \in Bytes :
           /\ gaps' = <<"idle", "leader">> \o a \o Inv(a) \o c \o Inv(c)
           /\ sent' = c
    BY <1>2, Zenon DEF SendFrame
  <2>2. a \in Bytes
    BY NecAssumption
  <2>3. gaps' \in Seq(Gaps)
    BY <2>1, <2>2, GapsOfFrame, Zenon
  <2>4. hurt' = FALSE /\ UNCHANGED decoder
    BY <1>2, Zenon DEF SendFrame
  <2> QED BY <1>1, <2>1, <2>3, <2>4, Zenon DEF NecTyped
<1>3. CASE SendRepeat
  <2>1. <<"idle", "repeat">> \in Seq(Gaps)
    BY DEF Gaps
  <2> QED BY <1>1, <1>3, <2>1, Zenon DEF SendRepeat, NecTyped
<1>4. CASE Disturb
  <2>1. gaps' \in Seq(Gaps)
    BY <1>4, Disturbed, Zenon DEF Replaced, SplitUp, JoinedUp
  <2> QED BY <1>1, <1>4, <2>1, Zenon DEF Disturb, NecTyped
<1>5. CASE Edge
  <2>1. gaps' \in Seq(Gaps)
    BY <1>5, HeadTailProperties DEF Edge, NecTyped
  <2>2. PICK d : Callback(d)
    BY <1>5, Zenon DEF Edge
  <2> QED BY <1>5, <2>1, <2>2, CallbackTypes, Zenon DEF Edge, NecTyped
<1>6. CASE UNCHANGED nvars
  BY <1>1, <1>6, Zenon DEF nvars, remote, NecTyped
<1> QED BY <1>2, <1>3, <1>4, <1>5, <1>6 DEF NecNext

(* The decoder never takes more bits than a frame has, is waiting for the  *)
(* leader when it has them all, and ir_command only ever holds a complete  *)
(* byte (or no key yet): for every error of measurement and every          *)
(* disturbance.                                                            *)
THEOREM NecTypeCorrect == NecSpec => []NecTypeOK
<1>1. NecTyped => NecTypeOK
  BY DEF NecTyped
<1> QED BY <1>1, TypesStart, TypesKept, PTL DEF NecSpec

-----------------------------------------------------------------------------
(* The windows.  With an error of at most a tick an interval is taken for  *)
(* what it is.                                                             *)

AtMostATickOff == JITTER <= 1

LEMMA Windows ==
  ASSUME AtMostATickOff
  PROVE  /\ \A d \in Measured("zero") : d \in 3 .. 7
         /\ \A d \in Measured("one") : d \in 11 .. 17
         /\ \A d \in Measured("leader") : d \in 34 .. 40
         /\ \A d \in Measured("repeat") : d \in 16 .. 20
         /\ \A d \in Measured("odd") : d \in 8 .. 10
         /\ \A d \in Measured("idle") : d \in Int /\ d > 40
<1>1. \A e \in -JITTER .. JITTER : e \in -1 .. 1
  BY NecAssumption DEF AtMostATickOff
<1>2. ASSUME NEW g, NEW d \in Measured(g)
      PROVE  \E t \in Ticks[g], e \in -1 .. 1 : d = t + e
  <2>1. \E t \in Ticks[g], e \in -JITTER .. JITTER : d = t + e
    BY SMT DEF Measured
  <2> QED BY <1>1, <2>1, Zenon
<1>3. /\ Ticks["zero"] = 4 .. 5 /\ Ticks["one"] = 13 .. 14 /\ Ticks["leader"] = {36}
      /\ Ticks["repeat"] = {18} /\ Ticks["odd"] = {9} /\ Ticks["idle"] = {300}
  BY DEF Ticks
<1>4. \A d \in Measured("zero") : d \in 3 .. 7
  <2>1. \A d \in Measured("zero") : \E t \in 4 .. 5, e \in -1 .. 1 : d = t + e
    BY <1>2, <1>3
  <2> QED BY <2>1
<1>5. \A d \in Measured("one") : d \in 11 .. 17
  <2>1. \A d \in Measured("one") : \E t \in 13 .. 14, e \in -1 .. 1 : d = t + e
    BY <1>2, <1>3
  <2> QED BY <2>1
<1>6. \A d \in Measured("leader") : d \in 34 .. 40
  <2>1. \A d \in Measured("leader") : \E t \in {36}, e \in -1 .. 1 : d = t + e
    BY <1>2, <1>3
  <2> QED BY <2>1
<1>7. \A d \in Measured("repeat") : d \in 16 .. 20
  <2>1. \A d \in Measured("repeat") : \E t \in {18}, e \in -1 .. 1 : d = t + e
    BY <1>2, <1>3
  <2> QED BY <2>1
<1>8. \A d \in Measured("odd") : d \in 8 .. 10
  <2>1. \A d \in Measured("odd") : \E t \in {9}, e \in -1 .. 1 : d = t + e
    BY <1>2, <1>3
  <2> QED BY <2>1
<1>9. \A d \in Measured("idle") : d \in Int /\ d > 40
  <2>1. \A d \in Measured("idle") : \E t \in {300}, e \in -1 .. 1 : d = t + e
    BY <1>2, <1>3
  <2> QED BY <2>1
<1> QED BY <1>4, <1>5, <1>6, <1>7, <1>8, <1>9

(* What the decoder does with an interval g.                               *)
Takes(g) ==
  /\ bits' = Append(bits, g)
  /\ IF Len(bits') = FRAME_BITS
       THEN /\ state' = 0
            /\ ir_command' = IF Checks(bits') THEN Byte(3, bits') ELSE ir_command
       ELSE state' = 1 /\ ir_command' = ir_command

Waits == state' = 0 /\ ir_command' = ir_command

LEMMA WaitingForLeader ==
  ASSUME AtMostATickOff, NecTyped, Edge, state = 0
  PROVE  /\ gaps[1] = "leader" => state' = 1 /\ bits' = <<>> /\ ir_command' = ir_command
         /\ gaps[1] # "leader" => Waits
<1>1. PICK d \in Measured(Head(gaps)) : Callback(d)
  BY Zenon DEF Edge
<1>2. Head(gaps) = gaps[1] /\ gaps[1] \in {"zero", "one", "leader", "repeat", "odd", "idle"}
  <2>1. gaps \in Seq(Gaps) /\ gaps # <<>>
    BY DEF Edge, NecTyped
  <2> QED BY <2>1, NotEmpty DEF Gaps, Bits
<1>3. WaitLeader(d)
  BY <1>1 DEF Callback, TakeBit, BadBit
<1>4. CASE gaps[1] = "leader"
  <2>1. 34 <= d /\ d <= 40
    BY <1>1, <1>2, <1>4, Windows
  <2> QED BY <1>3, <1>4, <2>1, Zenon DEF WaitLeader
<1>5. CASE gaps[1] # "leader"
  <2>1. ~(34 <= d /\ d <= 40)
    BY <1>1, <1>2, <1>5, Windows
  <2> QED BY <1>3, <1>5, <2>1, Zenon DEF WaitLeader, Waits
<1> QED BY <1>4, <1>5, Zenon

LEMMA ReceivingABit ==
  ASSUME AtMostATickOff, NecTyped, Edge, state = 1
  PROVE  /\ gaps[1] \in Bits => Takes(gaps[1])
         /\ gaps[1] \in {"idle", "odd"} => Waits
<1>1. PICK d \in Measured(Head(gaps)) : Callback(d)
  BY Zenon DEF Edge
<1>2. Head(gaps) = gaps[1]
  <2>1. gaps \in Seq(Gaps) /\ gaps # <<>>
    BY DEF Edge, NecTyped
  <2> QED BY <2>1, NotEmpty
<1>3. TakeBit(d, "zero", 3, 7) \/ TakeBit(d, "one", 11, 17) \/ BadBit(d)
  BY <1>1 DEF Callback, WaitLeader
<1>4. ASSUME NEW bit, NEW low, NEW high, TakeBit(d, bit, low, high)
      PROVE  Takes(bit)
  BY <1>4, Zenon DEF TakeBit, Takes
<1>5. CASE gaps[1] = "zero"
  <2>1. d \in 3 .. 7
    BY <1>1, <1>2, <1>5, Windows
  <2>2. ~TakeBit(d, "one", 11, 17) /\ ~BadBit(d)
    BY <2>1 DEF TakeBit, BadBit
  <2> QED BY <1>3, <1>4, <1>5, <2>2, Zenon
<1>6. CASE gaps[1] = "one"
  <2>1. d \in 11 .. 17
    BY <1>1, <1>2, <1>6, Windows
  <2>2. ~TakeBit(d, "zero", 3, 7) /\ ~BadBit(d)
    BY <2>1 DEF TakeBit, BadBit
  <2> QED BY <1>3, <1>4, <1>6, <2>2, Zenon
<1>7. CASE gaps[1] \in {"idle", "odd"}
  <2>1. d \in 8 .. 10 \/ (d \in Int /\ d > 40)
    BY <1>1, <1>2, <1>7, Windows
  <2>2. ~TakeBit(d, "zero", 3, 7) /\ ~TakeBit(d, "one", 11, 17)
    BY <2>1 DEF TakeBit
  <2>3. gaps[1] \notin Bits
    BY <1>7 DEF Bits
  <2> QED BY <1>3, <2>2, <2>3, Zenon DEF BadBit, Waits
<1>8. \A g \in Bits : g = "zero" \/ g = "one"
  BY DEF Bits
<1> QED BY <1>5, <1>6, <1>7, <1>8, Zenon

(* After an interval the others are one place nearer.                      *)
LEMMA OneGapLess ==
  ASSUME NecTyped, Edge
  PROVE  /\ gaps' \in Seq(Gaps) /\ Len(gaps) \in Nat /\ Len(gaps) >= 1 /\ Len(gaps') = Len(gaps) - 1
         /\ \A i \in 1 .. Len(gaps) - 1 : gaps'[i] = gaps[i + 1]
         /\ gaps' = Tail(gaps) /\ gaps[1] \in Gaps /\ Head(gaps) = gaps[1]
<1>1. gaps \in Seq(Gaps) /\ gaps # <<>> /\ gaps' = Tail(gaps)
  BY DEF Edge, NecTyped
<1> QED BY <1>1, NotEmpty, HeadTailProperties

-----------------------------------------------------------------------------
(* The frame on its way.                                                   *)

Parts(u, s, t) ==
  /\ u \in Seq(Bits) /\ Len(s) \in Nat /\ Len(t) \in Nat /\ Len(u) = Len(s) + Len(t)
  /\ \A i \in 1 .. Len(s) : u[i] = s[i]
  /\ \A i \in 1 .. Len(t) : u[Len(s) + i] = t[i]

LEMMA ConcatParts == \A s, t \in Seq(Bits) : Parts(s \o t, s, t)
<1> SUFFICES ASSUME NEW s \in Seq(Bits), NEW t \in Seq(Bits)
             PROVE  Parts(s \o t, s, t)
  OBVIOUS
<1>1. s \o t \in Seq(Bits) /\ Len(s) \in Nat /\ Len(t) \in Nat /\ Len(s \o t) = Len(s) + Len(t)
  OBVIOUS
<1>2. ASSUME NEW i \in 1 .. Len(s) PROVE (s \o t)[i] = s[i]
  OBVIOUS
<1>3. ASSUME NEW i \in 1 .. Len(t) PROVE (s \o t)[Len(s) + i] = t[i]
  OBVIOUS
<1> QED BY <1>1, <1>2, <1>3, Zenon DEF Parts

LEMMA OneMore == \A s, t \in Seq(Bits) : t # <<>> => Append(s, Head(t)) \o Tail(t) = s \o t
<1> SUFFICES ASSUME NEW s \in Seq(Bits), NEW t \in Seq(Bits), t # <<>>
             PROVE  Append(s, Head(t)) \o Tail(t) = s \o t
  OBVIOUS
<1>1. /\ Append(s, Head(t)) \o Tail(t) \in Seq(Bits) /\ s \o t \in Seq(Bits)
      /\ Len(Append(s, Head(t)) \o Tail(t)) = Len(s \o t)
  OBVIOUS
<1>2. ASSUME NEW i \in 1 .. Len(s \o t)
      PROVE  (Append(s, Head(t)) \o Tail(t))[i] = (s \o t)[i]
  OBVIOUS
<1> QED BY <1>1, <1>2, SeqEqual

LEMMA BitsAhead ==
  ASSUME NEW t \in Seq(Gaps), \A i \in 1 .. Len(t) : t[i] \in Bits
  PROVE  t \in Seq(Bits)
<1>1. Len(t) \in Nat /\ t \in [1 .. Len(t) -> Gaps]
  BY LenProperties
<1>2. t \in [1 .. Len(t) -> Bits]
  BY <1>1
<1> QED BY <1>1, <1>2, SeqDef

(* A frame is sent when nothing is on its way.                             *)
LEMMA FrameSent ==
  ASSUME NecTyped, SendFrame
  PROVE  FrameAhead'
<1>1. PICK a \in Addresses, c \in Bytes :
         /\ gaps' = <<"idle", "leader">> \o a \o Inv(a) \o c \o Inv(c)
         /\ sent' = c
  BY Zenon DEF SendFrame
<1>2. a \in Bytes /\ ~hurt' /\ sent' \in Bytes
  BY <1>1, NecAssumption, Zenon DEF SendFrame
<1>3. /\ Len(gaps') = 2 + FRAME_BITS /\ gaps'[1] = "idle" /\ gaps'[2] = "leader"
      /\ \A i \in 1 .. FRAME_BITS : gaps'[2 + i] = Frame(a, c)[i]
  BY <1>1, <1>2, GapsOfFrame, Zenon
<1>4. 3 - 1 = 2
  OBVIOUS
<1>5. Ahead(3, Frame(a, sent))'
  BY <1>1, <1>3, <1>4, Zenon DEF Ahead
<1> QED BY <1>2, <1>3, <1>5, Zenon DEF FrameAhead

LEMMA NothingAhead ==
  ASSUME NecTyped, gaps = <<>>
  PROVE  ~FrameAhead /\ ~Receiving
<1>1. Len(gaps) <= 0
  BY EmptySeq
<1>2. ASSUME NEW a \in Bytes PROVE ~Ahead(3, Frame(a, sent)) /\ ~Ahead(2, Frame(a, sent))
  BY <1>1, FrameBits DEF Ahead
<1>3. ~FrameAhead
  BY <1>2, Zenon DEF FrameAhead
<1>4. SUFFICES ASSUME Receiving PROVE FALSE
  BY <1>3
<1>5. PICK a \in Bytes : Underway(Stream, hurt, Frame(a, sent))
  BY <1>4, Zenon DEF Receiving
<1>6. sent \in Bytes /\ bits \in Seq(Bits) /\ gaps \in Seq(Bits) /\ Len(bits) < FRAME_BITS
  BY <1>4, Zenon DEF Receiving, NecTyped, NecTypeOK
<1>7. Parts(Stream, bits, gaps)
  BY <1>6, ConcatParts, Zenon DEF Stream
<1>8. Len(Stream) < FRAME_BITS /\ Len(Stream) \in Nat
  BY <1>1, <1>6, <1>7 DEF Parts
<1>9. Len(Frame(a, sent)) = FRAME_BITS
  BY <1>6, FrameIsFrame DEF IsFrame
<1>10. ~Flipped(Stream, Frame(a, sent)) /\ ~Doubled(Stream, Frame(a, sent))
  BY <1>8, FrameBits DEF Flipped, Doubled
<1>11. Stream # Frame(a, sent)
  BY <1>8, <1>9, FrameBits
<1> QED BY <1>5, <1>10, <1>11, Zenon DEF Underway

LEMMA RepeatSent ==
  ASSUME NInv, SendRepeat
  PROVE  Over'
<1>1. Over
  BY NothingAhead, Zenon DEF NInv, SendRepeat
<1>2. gaps' = <<"idle", "repeat">> /\ UNCHANGED <<sent, hurt, decoder>>
  BY Zenon DEF SendRepeat
<1>3. \A i \in 1 .. Len(gaps') : gaps'[i] # "leader"
  BY <1>2
<1>4. gaps' # <<>> /\ Head(gaps') = "idle"
  BY <1>2
<1> QED BY <1>1, <1>2, <1>3, <1>4, Zenon DEF Over, decoder

LEMMA NotALeader == \A b \in Bits : b # "leader" /\ b # "idle" /\ b # "odd"
BY DEF Bits

(* A disturbance brings no leader.                                         *)
LEMMA NoLeaderAppears ==
  ASSUME NEW t, NEW u, NEW x, NEW y, x # "leader", y # "leader", Len(t) \in Nat,
         \A i \in 2 .. Len(t) : t[i] # "leader",
         Replaced(u, t, x) \/ SplitUp(u, t, x, y) \/ JoinedUp(u, t, x)
  PROVE  \A i \in 1 .. Len(u) : u[i] # "leader"
<1>1. CASE Replaced(u, t, x)
  BY <1>1 DEF Replaced
<1>2. CASE SplitUp(u, t, x, y)
  <2> SUFFICES ASSUME NEW i \in 1 .. Len(u), i \notin {1, 2} PROVE u[i] # "leader"
    BY <1>2 DEF SplitUp
  <2>1. Len(u) = Len(t) + 1
    BY <1>2 DEF SplitUp
  <2>2. i - 1 \in 2 .. Len(t) /\ (i - 1) + 1 = i
    BY <2>1
  <2>3. u[(i - 1) + 1] = t[i - 1]
    BY <1>2, <2>2 DEF SplitUp
  <2> QED BY <2>2, <2>3
<1>3. CASE JoinedUp(u, t, x)
  <2> SUFFICES ASSUME NEW i \in 1 .. Len(u), i # 1 PROVE u[i] # "leader"
    BY <1>3 DEF JoinedUp
  <2>1. Len(u) = Len(t) - 1
    BY <1>3 DEF JoinedUp
  <2>2. i \in 2 .. Len(t) - 1 /\ i + 1 \in 2 .. Len(t)
    BY <2>1
  <2> QED BY <1>3, <2>2 DEF JoinedUp
<1> QED BY <1>1, <1>2, <1>3

(* A disturbed leader is no leader: nothing of the frame will be decoded.  *)
LEMMA LeaderDisturbed ==
  ASSUME NecTyped, FrameAhead, Disturb
  PROVE  Over'
<1>1. gaps \in Seq(Gaps) /\ gaps # <<>> /\ gaps[1] # "idle"
  <2>1. gaps \in Seq(Gaps) /\ gaps # <<>> /\ Head(gaps) # "idle"
    BY DEF NecTyped, Disturb
  <2> QED BY <2>1, NotEmpty
<1>2. hurt' = TRUE /\ UNCHANGED <<sent, decoder>>
  BY Zenon DEF Disturb
<1>3. PICK a \in Bytes : Ahead(2, Frame(a, sent)) /\ gaps[1] = "leader" /\ state = 0 /\ sent \in Bytes
  BY <1>1, Zenon DEF FrameAhead
<1> DEFINE f == Frame(a, sent)
<1>4. \A i \in 1 .. FRAME_BITS : f[i] \in Bits
  BY <1>3, FrameIsFrame, ElementOfSeq DEF IsFrame
<1> HIDE DEF f
<1>5. Len(gaps) = 1 + FRAME_BITS /\ \A i \in 1 .. FRAME_BITS : gaps[1 + i] = f[i]
  <2>1. 2 - 1 = 1
    OBVIOUS
  <2> QED BY <1>3, <2>1, Zenon DEF Ahead, f
<1>6. \A i \in 2 .. Len(gaps) : gaps[i] \in Bits
  <2> SUFFICES ASSUME NEW i \in 2 .. Len(gaps) PROVE gaps[i] \in Bits
    OBVIOUS
  <2>1. i - 1 \in 1 .. FRAME_BITS /\ 1 + (i - 1) = i
    BY <1>5, FrameBits
  <2> QED BY <1>4, <1>5, <2>1, Zenon
<1>7. \A i \in 2 .. Len(gaps) : gaps[i] # "leader"
  BY <1>6, NotALeader
<1>8. \A i \in 1 .. Len(gaps') : gaps'[i] # "leader"
  <2>1. Len(gaps) \in Nat
    BY <1>5, FrameBits
  <2>2. gaps[1] \notin Bits /\ gaps[1] # "one" /\ gaps[1] # "zero"
    BY <1>3, NotALeader
  <2>3. "odd" # "leader" /\ "repeat" # "leader"
    OBVIOUS
  <2>4. \/ Replaced(gaps', gaps, "odd")
        \/ SplitUp(gaps', gaps, "repeat", "repeat")
        \/ JoinedUp(gaps', gaps, "odd")
    BY <2>2, Disturbed, Zenon
  <2> QED BY <1>7, <2>1, <2>3, <2>4, NoLeaderAppears, Zenon
<1>9. state' = 0 /\ state' # 1
  BY <1>2, <1>3 DEF decoder
<1> QED BY <1>2, <1>8, <1>9, Zenon DEF Over

LEMMA OverDisturbed ==
  ASSUME NecTyped, Over, Disturb
  PROVE  Over'
<1>1. gaps \in Seq(Gaps) /\ gaps # <<>>
  BY DEF NecTyped, Disturb
<1>2. hurt' = TRUE /\ ~hurt /\ UNCHANGED <<sent, decoder>>
  BY Zenon DEF Disturb
<1>3. Len(gaps) \in Nat /\ Len(gaps) >= 1 /\ \A i \in 1 .. Len(gaps) : gaps[i] # "leader"
  BY <1>1, NotEmpty DEF Over
<1>4. gaps[1] # "leader"
  BY <1>3
<1>5. \A i \in 1 .. Len(gaps') : gaps'[i] # "leader"
  <2>1. /\ "odd" # "leader" /\ "one" # "leader" /\ "zero" # "leader"
        /\ \A b \in Bits : Other[b] # "leader"
    BY Complement, NotALeader DEF Bits
  <2>2. \A i \in 2 .. Len(gaps) : gaps[i] # "leader"
    BY <1>3
  <2>3. PICK x, y : /\ x # "leader" /\ y # "leader"
                    /\ (Replaced(gaps', gaps, x) \/ SplitUp(gaps', gaps, x, y) \/ JoinedUp(gaps', gaps, x))
    BY <1>4, <2>1, Disturbed, Zenon
  <2> QED BY <1>3, <2>2, <2>3, NoLeaderAppears, Zenon
<1>6. state' # 1
  BY <1>2 DEF Over, decoder
<1> QED BY <1>2, <1>5, <1>6, Zenon DEF Over

(* One disturbance of a frame that is being received: a bit is flipped or  *)
(* doubled, or the frame is broken off or comes out too short.             *)
LEMMA FrameDisturbed ==
  ASSUME NecTyped, Receiving, Disturb
  PROVE  Receiving' \/ Over'
<1>1. gaps \in Seq(Gaps) /\ gaps # <<>> /\ ~hurt /\ bits \in Seq(Bits)
  BY Zenon DEF NecTyped, Disturb
<1>2. hurt' = TRUE /\ UNCHANGED <<sent, decoder>>
  BY Zenon DEF Disturb
<1>3. state' = 1 /\ bits' = bits /\ gaps \in Seq(Bits) /\ sent' = sent /\ sent \in Bytes
  BY <1>2, Zenon DEF Receiving, decoder
<1>4. PICK a \in Bytes : Stream = Frame(a, sent)
  BY <1>1, Zenon DEF Receiving, Underway
<1> DEFINE f == Frame(a, sent)
           n == Len(bits)
           m == Len(gaps)
<1>5. f \in Seq(Bits) /\ Len(f) = FRAME_BITS
  BY <1>3, FrameIsFrame DEF IsFrame
<1>6. Parts(f, bits, gaps)
  BY <1>1, <1>3, <1>4, ConcatParts, Zenon DEF Stream
<1> HIDE DEF f, n, m
<1>7. n \in Nat /\ m \in Nat /\ m >= 1 /\ FRAME_BITS = n + m /\ gaps[1] = f[n + 1]
  BY <1>1, <1>5, <1>6, NotEmpty DEF Parts, n, m
<1>8. /\ \A i \in 1 .. n : f[i] = bits[i]
      /\ \A i \in 1 .. m : f[n + i] = gaps[i] /\ gaps[i] \in Bits
  BY <1>3, <1>6, ElementOfSeq DEF Parts, n, m
<1>9. gaps[1] \in Bits /\ "zero" \in Bits /\ "one" \in Bits /\ \A b \in Bits : Other[b] \in Bits
  BY <1>7, <1>8, Complement DEF Bits
<1>10. ASSUME gaps' \in Seq(Bits)
       PROVE  /\ Len(Stream') = n + Len(gaps') /\ Len(gaps') \in Nat
              /\ \A i \in 1 .. n : Stream'[i] = f[i]
              /\ \A i \in 1 .. Len(gaps') : Stream'[n + i] = gaps'[i]
  <2>1. Parts(Stream', bits, gaps')
    BY <1>1, <1>3, <1>10, ConcatParts, Zenon DEF Stream
  <2> QED BY <1>8, <2>1 DEF Parts, n
<1>11. ASSUME NEW x \in Bits, Replaced(gaps', gaps, x), x = Other[gaps[1]]
       PROVE  Receiving'
  <2>1. Len(gaps') = m /\ gaps'[1] = x /\ gaps' \in Seq(Gaps) /\ \A i \in 2 .. m : gaps'[i] = gaps[i]
    BY <1>11 DEF Replaced, m
  <2>2. \A i \in 1 .. m : gaps'[i] \in Bits
    BY <1>7, <1>8, <2>1
  <2>3. gaps' \in Seq(Bits)
    BY <2>1, <2>2, BitsAhead
  <2>4. Len(Stream') = FRAME_BITS
    BY <1>7, <1>10, <2>1, <2>3
  <2>5. Stream'[n + 1] = Other[f[n + 1]]
    BY <1>7, <1>10, <1>11, <2>1, <2>3
  <2>6. ASSUME NEW i \in (1 .. FRAME_BITS) \ {n + 1} PROVE Stream'[i] = f[i]
    <3>1. CASE i <= n
      BY <1>7, <1>10, <2>3, <3>1
    <3>2. CASE i > n
      <4>1. i - n \in 2 .. m /\ i - n \in 1 .. m /\ n + (i - n) = i
        BY <1>7, <3>2
      <4>2. Stream'[n + (i - n)] = gaps'[i - n] /\ gaps'[i - n] = gaps[i - n] /\ f[n + (i - n)] = gaps[i - n]
        BY <1>8, <1>10, <2>1, <2>3, <4>1
      <4> QED BY <4>1, <4>2
    <3> QED BY <1>7, <3>1, <3>2
  <2>7. n + 1 \in 1 .. FRAME_BITS
    BY <1>7
  <2>8. Flipped(Stream', f)
    BY <2>4, <2>5, <2>6, <2>7, Zenon DEF Flipped
  <2> QED BY <1>2, <1>3, <2>3, <2>8, Zenon DEF Receiving, Underway, f
<1>12. CASE gaps[1] = "one" /\ SplitUp(gaps', gaps, "zero", "zero")
  <2>1. /\ Len(gaps') = m + 1 /\ gaps' \in Seq(Gaps) /\ gaps'[1] = "zero" /\ gaps'[2] = "zero"
        /\ \A i \in 2 .. m : gaps'[i + 1] = gaps[i]
    BY <1>12 DEF SplitUp, m
  <2>2. \A i \in 1 .. m + 1 : gaps'[i] \in Bits
    <3> SUFFICES ASSUME NEW i \in 1 .. m + 1, i \notin {1, 2} PROVE gaps'[i] \in Bits
      BY <1>9, <2>1
    <3>1. i - 1 \in 2 .. m /\ i - 1 \in 1 .. m /\ (i - 1) + 1 = i
      BY <1>7
    <3> QED BY <1>8, <2>1, <3>1, Zenon
  <2>3. gaps' \in Seq(Bits)
    BY <2>1, <2>2, BitsAhead
  <2>4. Len(Stream') = FRAME_BITS + 1
    BY <1>7, <1>10, <2>1, <2>3
  <2>5. f[n + 1] = "one" /\ Stream'[n + 1] = "zero" /\ Stream'[n + 1 + 1] = "zero"
    <3>1. 1 \in 1 .. m + 1 /\ 2 \in 1 .. m + 1 /\ n + 1 + 1 = n + 2
      BY <1>7
    <3> QED BY <1>7, <1>10, <1>12, <2>1, <2>3, <3>1
  <2>6. \A i \in 1 .. (n + 1) - 1 : Stream'[i] = f[i]
    <3>1. (n + 1) - 1 = n
      BY <1>7
    <3> QED BY <1>10, <2>3, <3>1
  <2>7. ASSUME NEW i \in (n + 1) + 1 .. FRAME_BITS PROVE Stream'[i + 1] = f[i]
    <3>1. /\ i - n \in 2 .. m /\ i - n \in 1 .. m /\ (i - n) + 1 \in 1 .. m + 1
          /\ n + (i - n) = i /\ n + ((i - n) + 1) = i + 1
      BY <1>7
    <3>2. /\ Stream'[n + ((i - n) + 1)] = gaps'[(i - n) + 1] /\ gaps'[(i - n) + 1] = gaps[i - n]
          /\ f[n + (i - n)] = gaps[i - n]
      BY <1>8, <1>10, <2>1, <2>3, <3>1
    <3> QED BY <3>1, <3>2
  <2>8. n + 1 \in 1 .. FRAME_BITS
    BY <1>7
  <2>9. Doubled(Stream', f)
    BY <2>4, <2>5, <2>6, <2>7, <2>8, Zenon DEF Doubled
  <2> QED BY <1>2, <1>3, <2>3, <2>9, Zenon DEF Receiving, Underway, f
<1>13. \A i \in 2 .. Len(gaps) : gaps[i] # "leader"
  BY <1>7, <1>8, NotALeader DEF m
<1>14. ASSUME NEW x, x # "leader", Replaced(gaps', gaps, x) \/ JoinedUp(gaps', gaps, x),
              gaps' # <<>> => x = "odd" \/ (gaps' \in Seq(Bits) /\ n + Len(gaps') < FRAME_BITS)
       PROVE  Over'
  <2>1. \A i \in 1 .. Len(gaps') : gaps'[i] # "leader"
    <3>1. Len(gaps) \in Nat
      BY <1>7 DEF m
    <3> QED BY <1>13, <1>14, <3>1, NoLeaderAppears, Zenon
  <2>2. gaps' # <<>> => Head(gaps') = x
    <3>1. gaps' \in Seq(Gaps) /\ gaps'[1] = x
      BY <1>14 DEF Replaced, JoinedUp
    <3> QED BY <3>1, NotEmpty
  <2> QED BY <1>2, <1>3, <1>14, <2>1, <2>2, Zenon DEF Over, n
<1>15. CASE Replaced(gaps', gaps, "odd") \/ JoinedUp(gaps', gaps, "odd")
  BY <1>14, <1>15
<1>16. CASE m > 1 /\ JoinedUp(gaps', gaps, "one")
  <2>1. /\ Len(gaps') = m - 1 /\ gaps' \in Seq(Gaps) /\ gaps'[1] = "one"
        /\ \A i \in 2 .. m - 1 : gaps'[i] = gaps[i + 1]
    BY <1>16 DEF JoinedUp, m
  <2>2. \A i \in 1 .. m - 1 : gaps'[i] \in Bits
    <3> SUFFICES ASSUME NEW i \in 1 .. m - 1, i # 1 PROVE gaps'[i] \in Bits
      BY <1>9, <2>1
    <3>1. i \in 2 .. m - 1 /\ i + 1 \in 1 .. m
      BY <1>7
    <3> QED BY <1>8, <2>1, <3>1, Zenon
  <2>3. gaps' \in Seq(Bits) /\ n + Len(gaps') < FRAME_BITS
    BY <1>7, <2>1, <2>2, BitsAhead
  <2> QED BY <1>14, <1>16, <2>3
<1>17. gaps[1] # "leader"
  BY <1>9, NotALeader
<1> QED BY <1>9, <1>11, <1>12, <1>15, <1>16, <1>17, Disturbed, Zenon DEF m

(* The idle time and the leader of a frame.                                *)
LEMMA LeaderReceived ==
  ASSUME AtMostATickOff, NecTyped, FrameAhead, Edge
  PROVE  (FrameAhead' \/ Receiving') /\ ir_command' = ir_command
<1>1. /\ gaps' \in Seq(Gaps) /\ Len(gaps') = Len(gaps) - 1
      /\ \A i \in 1 .. Len(gaps) - 1 : gaps'[i] = gaps[i + 1]
  BY OneGapLess
<1>2. hurt' = FALSE /\ ~hurt' /\ sent' = sent /\ sent \in Bytes
  BY Zenon DEF Edge, FrameAhead, NecTyped
<1>3. state \in 0 .. 1
  BY DEF NecTyped, NecTypeOK
<1>4. PICK a \in Bytes :
         \/ Ahead(3, Frame(a, sent)) /\ gaps[1] = "idle" /\ gaps[2] = "leader"
         \/ Ahead(2, Frame(a, sent)) /\ gaps[1] = "leader" /\ state = 0
  BY Zenon DEF FrameAhead
<1> DEFINE f == Frame(a, sent)
<1>5. f \in Seq(Bits) /\ Len(f) = FRAME_BITS
  BY <1>2, FrameIsFrame DEF IsFrame
<1> HIDE DEF f
<1>6. 3 - 1 = 2 /\ 2 - 1 = 1 /\ 1 + FRAME_BITS >= 1 /\ FRAME_BITS \in Nat
  BY FrameBits
<1>7. CASE Ahead(3, f) /\ gaps[1] = "idle" /\ gaps[2] = "leader"
  <2>1. Waits
    <3>1. CASE state = 0
      BY <1>7, <3>1, WaitingForLeader
    <3>2. CASE state = 1
      BY <1>7, <3>2, ReceivingABit
    <3> QED BY <1>3, <3>1, <3>2
  <2>2. Len(gaps) = 2 + FRAME_BITS /\ \A i \in 1 .. FRAME_BITS : gaps[2 + i] = f[i]
    BY <1>6, <1>7, Zenon DEF Ahead
  <2>3. Len(gaps') = 1 + FRAME_BITS /\ gaps'[1] = "leader"
    BY <1>1, <1>6, <1>7, <2>2
  <2>4. ASSUME NEW i \in 1 .. FRAME_BITS PROVE gaps'[1 + i] = f[i]
    <3>1. 1 + i \in 1 .. Len(gaps) - 1 /\ (1 + i) + 1 = 2 + i
      BY <1>6, <2>2
    <3>2. gaps'[1 + i] = gaps[(1 + i) + 1]
      BY <1>1, <3>1
    <3> QED BY <2>2, <3>1, <3>2
  <2>5. Ahead(2, f)'
    BY <1>2, <1>6, <2>3, <2>4, Zenon DEF Ahead, f
  <2> QED BY <1>2, <2>1, <2>3, <2>5, Zenon DEF FrameAhead, Waits, f
<1>8. CASE Ahead(2, f) /\ gaps[1] = "leader" /\ state = 0
  <2>1. state' = 1 /\ bits' = <<>> /\ ir_command' = ir_command
    BY <1>8, WaitingForLeader
  <2>2. Len(gaps) = 1 + FRAME_BITS /\ \A i \in 1 .. FRAME_BITS : gaps[1 + i] = f[i]
    BY <1>6, <1>8, Zenon DEF Ahead
  <2>3. Len(gaps') = FRAME_BITS
    BY <1>1, <1>6, <2>2
  <2>4. ASSUME NEW i \in 1 .. FRAME_BITS PROVE gaps'[i] = f[i]
    <3>1. i \in 1 .. Len(gaps) - 1 /\ i + 1 = 1 + i
      BY <1>6, <2>2
    <3>2. gaps'[i] = gaps[i + 1]
      BY <1>1, <3>1
    <3> QED BY <2>2, <3>1, <3>2
  <2>5. gaps' = f
    <3>1. f \in Seq(Gaps)
      BY <1>5, BitsAreGaps
    <3> QED BY <1>1, <1>5, <2>3, <2>4, <3>1, SeqEqual
  <2>6. Stream' = f
    <3>1. <<>> \o f = f
      BY <1>5, ConcatEmptySeq
    <3> QED BY <2>1, <2>5, <3>1, Zenon DEF Stream
  <2> QED BY <1>2, <1>5, <2>1, <2>5, <2>6, Zenon DEF Receiving, Underway, f
<1> QED BY <1>4, <1>7, <1>8, Zenon DEF f

(* The comparisons of a complete frame: u is the frame f of the command c  *)
(* as the air has left it (h: disturbed), s what the decoder took of it.   *)
Completed(f, c, u, h, s) ==
  /\ c \in Bytes /\ IsFrame(f, c) /\ h \in BOOLEAN /\ Underway(u, h, f)
  /\ s \in Seq(Bits) /\ Len(s) = FRAME_BITS /\ \A i \in 1 .. FRAME_BITS : u[i] = s[i]

LEMMA FrameComplete ==
  ASSUME NEW f, NEW c, NEW u, NEW h, NEW s, Completed(f, c, u, h, s)
  PROVE  (Checks(s) => Byte(3, s) = c) /\ (~h => Checks(s))
<1>0. /\ c \in Bytes /\ IsFrame(f, c) /\ h \in BOOLEAN /\ Underway(u, h, f)
      /\ s \in Seq(Bits) /\ Len(s) = FRAME_BITS
  BY Zenon DEF Completed
<1>1. f \in Seq(Bits) /\ Len(f) = FRAME_BITS
  BY <1>0 DEF IsFrame
<1>2. \A i \in 1 .. FRAME_BITS : u[i] = s[i]
  BY Zenon DEF Completed
<1>3. CASE ~h /\ u = f
  <2>1. s = f
    BY <1>0, <1>1, <1>2, <1>3, SeqEqual
  <2> QED BY <1>0, <1>3, <2>1, CleanChecks
<1>4. CASE h /\ Flipped(u, f)
  <2>1. Flipped(s, f)
    BY <1>0, <1>2, <1>4 DEF Flipped
  <2> QED BY <1>0, <1>4, <2>1, FlippedIsRefused
<1>5. CASE h /\ Doubled(u, f)
  <2>1. PICK k \in 1 .. FRAME_BITS :
           /\ f[k] = "one" /\ u[k] = "zero" /\ u[k + 1] = "zero"
           /\ \A i \in 1 .. k - 1 : u[i] = f[i]
           /\ \A i \in k + 1 .. FRAME_BITS : u[i + 1] = f[i]
    BY <1>5, Zenon DEF Doubled
  <2>2. s[k] = "zero" /\ (k < FRAME_BITS => s[k + 1] = "zero")
    BY <1>2, <2>1, FrameBits
  <2>3. \A i \in 1 .. k - 1 : s[i] = f[i]
    BY <1>2, <2>1, FrameBits
  <2>4. ASSUME NEW i \in k + 1 .. FRAME_BITS - 1 PROVE s[i + 1] = f[i]
    <3>1. i + 1 \in 1 .. FRAME_BITS /\ i \in k + 1 .. FRAME_BITS
      BY FrameBits
    <3> QED BY <1>2, <2>1, <3>1
  <2> QED BY <1>0, <1>5, <2>1, <2>2, <2>3, <2>4, DoubledIsHarmless
<1> QED BY <1>0, <1>3, <1>4, <1>5, Zenon DEF Underway

(* A bit of the frame: the decoder and the air together hold what they     *)
(* held, until the last one is there.                                      *)
LEMMA BitReceived ==
  ASSUME AtMostATickOff, NecTyped, Receiving, Edge
  PROVE  (Receiving' \/ Over') /\ (ir_command' = ir_command \/ ir_command' = sent')
<1>1. state = 1 /\ gaps \in Seq(Bits) /\ sent \in Bytes /\ bits \in Seq(Bits) /\ gaps # <<>>
  BY Zenon DEF Receiving, NecTyped, Edge
<1>2. PICK a \in Bytes : Underway(Stream, hurt, Frame(a, sent))
  BY Zenon DEF Receiving
<1>3. hurt' = hurt /\ sent' = sent /\ hurt \in BOOLEAN
  BY Zenon DEF Edge, NecTyped
<1>4. gaps' = Tail(gaps) /\ Head(gaps) = gaps[1]
  BY OneGapLess
<1>5. gaps' \in Seq(Bits) /\ Head(gaps) \in Bits
  BY <1>1, <1>4, HeadTailProperties
<1>6. Takes(gaps[1])
  BY <1>1, <1>4, <1>5, ReceivingABit
<1>7. bits' = Append(bits, Head(gaps)) /\ bits' \in Seq(Bits)
  BY <1>1, <1>4, <1>5, <1>6, AppendProperties DEF Takes
<1>8. Stream' = Stream
  BY <1>1, <1>4, <1>7, OneMore, Zenon DEF Stream
<1>9. CASE Len(bits') # FRAME_BITS
  <2>1. state' = 1 /\ ir_command' = ir_command
    BY <1>6, <1>9, Zenon DEF Takes
  <2> QED BY <1>1, <1>2, <1>3, <1>5, <1>8, <2>1, Zenon DEF Receiving
<1>10. CASE Len(bits') = FRAME_BITS
  <2>1. state' = 0 /\ state' # 1
    BY <1>6, <1>10 DEF Takes
  <2>2. Parts(Stream, bits', gaps')
    BY <1>5, <1>7, <1>8, ConcatParts, Zenon DEF Stream
  <2>3. IsFrame(Frame(a, sent), sent)
    BY <1>1, FrameIsFrame
  <2>4. (Checks(bits') => Byte(3, bits') = sent) /\ (~hurt => Checks(bits'))
    <3>1. \A i \in 1 .. FRAME_BITS : Stream[i] = bits'[i]
      BY <1>10, <2>2 DEF Parts
    <3>2. Completed(Frame(a, sent), sent, Stream, hurt, bits')
      BY <1>1, <1>2, <1>3, <1>7, <1>10, <2>3, <3>1, Zenon DEF Completed
    <3> QED BY <3>2, FrameComplete
  <2>5. /\ Checks(bits') => ir_command' = sent
        /\ ~Checks(bits') => ir_command' = ir_command
    BY <1>6, <1>10, <2>4, Zenon DEF Takes
  <2>6. \A i \in 1 .. Len(gaps') : gaps'[i] # "leader"
    BY <1>5, ElementOfSeq, NotALeader
  <2> QED BY <1>3, <2>1, <2>4, <2>5, <2>6, Zenon DEF Over
<1> QED BY <1>9, <1>10, Zenon

LEMMA NothingReceived ==
  ASSUME AtMostATickOff, NecTyped, Over, Edge
  PROVE  Over' /\ ir_command' = ir_command
<1>1. /\ gaps' \in Seq(Gaps) /\ Len(gaps) \in Nat /\ Len(gaps) >= 1 /\ Len(gaps') = Len(gaps) - 1
      /\ \A i \in 1 .. Len(gaps) - 1 : gaps'[i] = gaps[i + 1]
      /\ gaps' = Tail(gaps) /\ gaps[1] \in Gaps /\ Head(gaps) = gaps[1]
  BY OneGapLess
<1>2. \A i \in 1 .. Len(gaps) : gaps[i] # "leader"
  BY DEF Over
<1>3. gaps[1] # "leader" /\ \A i \in 1 .. Len(gaps') : gaps'[i] # "leader"
  BY <1>1, <1>2
<1>4. /\ hurt' = hurt /\ sent' = sent /\ gaps # <<>> /\ bits \in Seq(Bits)
      /\ (~hurt => state = 0 /\ ir_command = sent)
  BY Zenon DEF Edge, Over, NecTyped
<1>5. state \in 0 .. 1 /\ 0 # 1
  BY DEF NecTyped, NecTypeOK
<1>6. ASSUME Waits PROVE Over' /\ ir_command' = ir_command
  BY <1>3, <1>4, <1>5, <1>6, Zenon DEF Over, Waits
<1>7. CASE state = 0
  BY <1>3, <1>6, <1>7, WaitingForLeader
<1>8. CASE state = 1
  <2>1. \/ gaps[1] \in {"idle", "odd"}
        \/ gaps \in Seq(Bits) /\ Len(bits) + Len(gaps) < FRAME_BITS
    BY <1>1, <1>4, <1>8, Zenon DEF Over
  <2>2. CASE gaps[1] \in {"idle", "odd"}
    BY <1>6, <1>8, <2>2, ReceivingABit
  <2>3. CASE gaps \in Seq(Bits) /\ Len(bits) + Len(gaps) < FRAME_BITS
    <3>1. gaps' \in Seq(Bits) /\ gaps[1] \in Bits
      BY <1>1, <1>4, <2>3, HeadTailProperties
    <3>2. Takes(gaps[1])
      BY <1>8, <3>1, ReceivingABit
    <3>3. bits' = Append(bits, gaps[1]) /\ Len(bits') = Len(bits) + 1 /\ Len(bits) \in Nat
      BY <1>4, <3>1, <3>2, AppendProperties, LenProperties DEF Takes
    <3>4. Len(bits') # FRAME_BITS /\ Len(bits') + Len(gaps') < FRAME_BITS
      BY <1>1, <2>3, <3>3, FrameBits
    <3>5. state' = 1 /\ ir_command' = ir_command
      BY <3>2, <3>4, Zenon DEF Takes
    <3>6. hurt
      BY <1>4, <1>5, <1>8, Zenon
    <3> QED BY <1>3, <1>4, <3>1, <3>4, <3>5, <3>6, Zenon DEF Over
  <2> QED BY <2>1, <2>2, <2>3
<1> QED BY <1>5, <1>7, <1>8

-----------------------------------------------------------------------------
(* The theorems.                                                           *)

LEMMA NInvStarts == NecInit => NInv
<1> SUFFICES ASSUME NecInit PROVE NInv
  OBVIOUS
<1>1. gaps = <<>> /\ state = 0 /\ state # 1 /\ ir_command = sent
  BY DEF NecInit
<1>2. \A i \in 1 .. Len(gaps) : gaps[i] # "leader"
  BY <1>1
<1> QED BY <1>1, <1>2, TypesStart, Zenon DEF NInv, Over

LEMMA NInvKept ==
  ASSUME AtMostATickOff, NInv, [NecNext]_nvars
  PROVE  NInv' /\ (ir_command' = ir_command \/ ir_command' = sent')
<1>1. NecTyped /\ NecTyped' /\ (FrameAhead \/ Receiving \/ Over)
  BY TypesKept DEF NInv
<1>2. CASE SendFrame
  BY <1>1, <1>2, FrameSent, Zenon DEF NInv, SendFrame, decoder
<1>3. CASE SendRepeat
  BY <1>1, <1>3, RepeatSent, Zenon DEF NInv, SendRepeat, decoder
<1>4. CASE Disturb
  BY <1>1, <1>4, LeaderDisturbed, FrameDisturbed, OverDisturbed, Zenon DEF NInv, Disturb, decoder
<1>5. CASE Edge
  BY <1>1, <1>5, LeaderReceived, BitReceived, NothingReceived, Zenon DEF NInv
<1>6. CASE UNCHANGED nvars
  <2>1. UNCHANGED <<state, bits, ir_command, sent, gaps, hurt>>
    BY <1>6, Zenon DEF nvars, decoder, remote
  <2>2. FrameAhead => FrameAhead'
    BY <2>1, Zenon DEF FrameAhead, Ahead
  <2>3. Receiving => Receiving'
    BY <2>1, Zenon DEF Receiving, Stream
  <2>4. Over => Over'
    BY <2>1, Zenon DEF Over
  <2> QED BY <1>1, <2>1, <2>2, <2>3, <2>4, Zenon DEF NInv
<1> QED BY <1>2, <1>3, <1>4, <1>5, <1>6 DEF NecNext

LEMMA NecInvariance ==
  ASSUME AtMostATickOff
  PROVE  NecSpec => []NInv
<1>1. NInv /\ [NecNext]_nvars => NInv'
  BY NInvKept
<1> QED BY <1>1, NInvStarts, PTL DEF NecSpec

(* After a frame that nothing disturbed ir_command is the command sent and *)
(* the decoder waits for the next leader, whatever state the frames and    *)
(* the repeat codes before it left it in.                                  *)
THEOREM CleanFramesAreDecoded ==
  ASSUME AtMostATickOff
  PROVE  NecSpec => []CleanFrameDecoded
<1>1. NInv => CleanFrameDecoded
  BY NothingAhead, Zenon DEF NInv, Over, CleanFrameDecoded
<1> QED BY <1>1, NecInvariance, PTL

(* A command that is taken is the one that was sent: no flipped, doubled,  *)
(* lost or unreadable bit makes another key of a frame, however long the   *)
(* bytes are and wherever in the frame it happens.                         *)
THEOREM NoFrameIsAnotherKey ==
  ASSUME AtMostATickOff
  PROVE  NecSpec => NeverAnotherKey
<1>1. NInv /\ [NecNext]_nvars => [ir_command' # ir_command => ir_command' = sent]_nvars
  <2> SUFFICES ASSUME NInv, [NecNext]_nvars, ir_command' # ir_command PROVE ir_command' = sent
    BY Zenon DEF nvars
  <2>1. ir_command' = sent'
    BY NInvKept
  <2>2. sent' = sent
    BY Zenon DEF NecNext, SendFrame, SendRepeat, Disturb, Edge, decoder, nvars
  <2> QED BY <2>1, <2>2
<1> QED BY <1>1, NecInvariance, PTL DEF NecSpec, NeverAnotherKey
=============================================================================
