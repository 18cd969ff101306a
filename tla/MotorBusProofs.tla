-------------------------- MODULE MotorBusProofs ---------------------------
(***************************************************************************)
(* For any set of motors and any number of commands: no frame is lost in   *)
(* the mailboxes, a command reported sent went over the bus, and motors    *)
(* see whole commands in their order until a send fails.                   *)
(*                                                                         *)
(* BInv is inductive.  InFlight says where the frame that is polled is;    *)
(* NothingElseWaits is why order holds before a failure: then no mailbox   *)
(* but the polled one is in use.                                           *)
(***************************************************************************)
EXTENDS MotorBus, TLAPS

(* The frame that is polled is in its mailbox or was sent, and so was the  *)
(* first frame of its command.                                             *)
InFlight ==
  pc = "wait" =>
    /\ frame \in Frames /\ frame.cmd = cmd
    /\ mbox # NoMailBox => IF tx[mbox] = Empty THEN frame \in sent ELSE tx[mbox] = frame
    /\ frame.id \notin Motors => [id |-> frame.id - 1, cmd |-> cmd] \in sent

(* Before a send fails only the polled mailbox is in use.                  *)
NothingElseWaits == failed = {} => \A b \in Pending : pc = "wait" /\ b = mbox

(* Before a send fails a stepper whose first frame went out, or whose      *)
(* second one is polled, keeps the first frame of that command.            *)
FirstIsKept ==
  failed = {} /\ pc = "wait" =>
    /\ frame.id \in Steppers /\ mbox # NoMailBox /\ tx[mbox] = Empty
         => first[frame.id] = cmd
    /\ frame.id \notin Motors => first[frame.id - 1] = cmd

(* Before a send fails a motor acts on whole commands, none from later.    *)
WholeSoFar ==
  failed = {} => \A m \in Motors : target[m][1] = target[m][2] /\ target[m][1] <= cmd

BInv == /\ BusTypeOK /\ AcceptedStays /\ DoneIsSent
        /\ InFlight /\ NothingElseWaits /\ FirstIsKept /\ WholeSoFar

-----------------------------------------------------------------------------
(* The mailbox CAN_Transmit takes is a free one.                           *)
LEMMA FirstFree == ASSUME Free # {} PROVE Min(Free) \in Free
<1>1. Free \subseteq {0, 1, 2}
  BY DEF Free, Mailboxes
<1>2. PICK x \in Free : \A y \in Free : x <= y
  <2>1. CASE 0 \in Free
    BY <1>1, <2>1
  <2>2. CASE 0 \notin Free /\ 1 \in Free
    BY <1>1, <2>2
  <2>3. CASE Free = {2}
    BY <2>3
  <2> QED
    BY <1>1, <2>1, <2>2, <2>3
<1> QED
  BY <1>2 DEF Min

(* Identifiers: a second frame is no motor's own frame.                    *)
LEMMA SecondFrame ==
  ASSUME NEW i \in Ids
  PROVE  /\ i \in Motors \/ i - 1 \in Steppers
         /\ i \in Steppers => i + 1 \in Ids /\ i + 1 \notin Motors
         /\ i \in Int
  BY BusAssumption DEF Ids, Motors

(* Empty is no frame.                                                      *)
LEMMA EmptyIsNoFrame == Empty \notin Frames
  BY BusAssumption DEF Empty, Frames, Ids, Motors

LEMMA InitBInv == BusInit => BInv
  BY BusAssumption, EmptyIsNoFrame
     DEF BusInit, BInv, BusTypeOK, AcceptedStays, DoneIsSent, InFlight,
         NothingElseWaits, FirstIsKept, WholeSoFar, Pending, Mailboxes, NoMailBox

-----------------------------------------------------------------------------
(* CAN_Transmit, whatever frame it is given.                               *)
LEMMA TransmitKeeps ==
  ASSUME BusTypeOK, AcceptedStays, NEW f \in Frames, Transmit(f)
  PROVE  /\ mbox' \in Mailboxes \cup {NoMailBox}
         /\ tx' \in [Mailboxes -> Frames \cup {Empty}]
         /\ accepted' \subseteq Frames
         /\ accepted' = sent \cup {tx'[b] : b \in {c \in Mailboxes : tx'[c] # Empty}}
         /\ mbox' # NoMailBox => tx'[mbox'] = f
         /\ Free = Mailboxes =>
              mbox' # NoMailBox /\ \A b \in Mailboxes : b # mbox' => tx'[b] = Empty
<1> USE DEF BusTypeOK, AcceptedStays, Pending
<1>1. CASE Free = {}
  BY <1>1 DEF Transmit, Mailboxes, NoMailBox
<1>2. CASE Free # {}
  <2>1. PICK b \in Free : b = Min(Free)
    BY <1>2, FirstFree
  <2>2. b \in Mailboxes /\ b # NoMailBox /\ tx[b] = Empty
    BY <2>1 DEF Free, Mailboxes, NoMailBox
  <2>3. mbox' = b /\ tx' = [tx EXCEPT ![b] = f] /\ accepted' = accepted \cup {f}
    BY <1>2, <2>1 DEF Transmit
  <2>4. f # Empty
    BY EmptyIsNoFrame
  <2>5. {tx'[c] : c \in {c \in Mailboxes : tx'[c] # Empty}}
          = {tx[c] : c \in Pending} \cup {f}
    BY <2>2, <2>3, <2>4
  <2> QED
    BY <2>2, <2>3, <2>4, <2>5 DEF Free
<1> QED
  BY <1>1, <1>2

LEMMA CommandKeeps == ASSUME BInv, NEW m \in Motors, Command(m) PROVE BInv'
<1> DEFINE f == [id |-> m, cmd |-> cmd + 1]
<1>1. /\ pc = "idle" /\ pc' = "wait" /\ cmd' = cmd + 1 /\ frame' = f
      /\ cmd < MAX_COMMANDS /\ Transmit(f)
      /\ UNCHANGED <<sent, failed, done, first, target>>
  BY DEF Command, StartSending, reports, motor
<1>2. f \in Frames /\ cmd \in Nat /\ f.id = m /\ f.cmd = cmd + 1
  BY <1>1, BusAssumption DEF BInv, BusTypeOK, Frames, Ids
<1> HIDE DEF f
<1>3. /\ mbox' \in Mailboxes \cup {NoMailBox}
      /\ tx' \in [Mailboxes -> Frames \cup {Empty}]
      /\ accepted' \subseteq Frames
      /\ accepted' = sent \cup {tx'[b] : b \in {c \in Mailboxes : tx'[c] # Empty}}
      /\ mbox' # NoMailBox => tx'[mbox'] = f
      /\ Free = Mailboxes =>
           mbox' # NoMailBox /\ \A b \in Mailboxes : b # mbox' => tx'[b] = Empty
  BY <1>1, <1>2, TransmitKeeps DEF BInv
<1>4. BusTypeOK'
  BY <1>1, <1>2, <1>3, BusAssumption DEF BInv, BusTypeOK
<1>5. AcceptedStays' /\ DoneIsSent'
  BY <1>1, <1>3 DEF BInv, AcceptedStays, DoneIsSent, Pending
<1>6. InFlight'
  BY <1>1, <1>2, <1>3, EmptyIsNoFrame DEF InFlight
<1>7. NothingElseWaits'
  <2>1. failed = {} => Free = Mailboxes
    BY <1>1 DEF BInv, NothingElseWaits, Pending, Free
  <2> QED
    BY <1>1, <1>2, <1>3, <2>1 DEF NothingElseWaits, Pending
<1>8. FirstIsKept'
  BY <1>1, <1>2, <1>3, EmptyIsNoFrame DEF FirstIsKept, Motors
<1>9. WholeSoFar'
  BY <1>1, <1>2 DEF BInv, WholeSoFar, BusTypeOK
<1> QED
  BY <1>4, <1>5, <1>6, <1>7, <1>8, <1>9 DEF BInv

(* The first frame of a command went out: the second follows.  The last    *)
(* one did: the command is done.                                           *)
LEMMA SendOkKeeps == ASSUME BInv, SendOk PROVE BInv'
<1>1. /\ pc = "wait" /\ mbox # NoMailBox /\ tx[mbox] = Empty
      /\ frame \in sent /\ frame \in Frames /\ frame.cmd = cmd /\ frame.id \in Ids
      /\ frame.id \in Int /\ cmd \in 1 .. MAX_COMMANDS
      /\ frame = [id |-> frame.id, cmd |-> cmd]
      /\ UNCHANGED <<sent, failed, first, target>>
  BY SecondFrame DEF SendOk, StatusOk, BInv, BusTypeOK, InFlight, Frames, motor
<1>2. CASE frame.id \in Steppers
  <2> DEFINE f == [id |-> frame.id + 1, cmd |-> cmd]
  <2>1. pc' = "wait" /\ frame' = f /\ Transmit(f) /\ UNCHANGED <<cmd, done>>
    BY <1>2 DEF SendOk, StartSending
  <2>2. /\ f \in Frames /\ f.id = frame.id + 1 /\ f.cmd = cmd /\ f.id \notin Motors
        /\ f.id - 1 = frame.id
    BY <1>1, <1>2, SecondFrame DEF Frames
  <2>3. failed = {} => Free = Mailboxes /\ first[frame.id] = cmd
    BY <1>1, <1>2 DEF BInv, NothingElseWaits, FirstIsKept, Pending, Free
  <2> HIDE DEF f
  <2>4. /\ mbox' \in Mailboxes \cup {NoMailBox}
        /\ tx' \in [Mailboxes -> Frames \cup {Empty}]
        /\ accepted' \subseteq Frames
        /\ accepted' = sent \cup {tx'[b] : b \in {c \in Mailboxes : tx'[c] # Empty}}
        /\ mbox' # NoMailBox => tx'[mbox'] = f
        /\ Free = Mailboxes =>
             mbox' # NoMailBox /\ \A b \in Mailboxes : b # mbox' => tx'[b] = Empty
    BY <2>1, <2>2, TransmitKeeps DEF BInv
  <2>5. BusTypeOK'
    BY <1>1, <2>1, <2>2, <2>4 DEF BInv, BusTypeOK
  <2>6. AcceptedStays' /\ DoneIsSent'
    BY <1>1, <2>1, <2>4 DEF BInv, AcceptedStays, DoneIsSent, Pending
  <2>7. InFlight'
    BY <1>1, <2>1, <2>2, <2>4, EmptyIsNoFrame DEF InFlight
  <2>8. NothingElseWaits' /\ FirstIsKept'
    BY <1>1, <2>1, <2>2, <2>3, <2>4 DEF NothingElseWaits, FirstIsKept, Pending, Motors
  <2>9. WholeSoFar'
    BY <1>1, <2>1 DEF BInv, WholeSoFar
  <2> QED
    BY <2>5, <2>6, <2>7, <2>8, <2>9 DEF BInv
<1>3. CASE frame.id \notin Steppers
  <2>1. /\ pc' = "idle" /\ done' = done \cup {cmd}
        /\ UNCHANGED <<cmd, frame, mbox, tx, accepted>>
    BY <1>3 DEF SendOk
  <2>2. \E f \in sent : /\ f.id \in Motors /\ f.cmd = cmd
                        /\ f.id \in Steppers => [id |-> f.id + 1, cmd |-> cmd] \in sent
    <3>1. CASE frame.id \in Motors
      BY <1>1, <1>3, <3>1
    <3>2. CASE frame.id \notin Motors
      <4> DEFINE g == [id |-> frame.id - 1, cmd |-> cmd]
      <4>1. g \in sent
        BY <1>1, <3>2 DEF BInv, InFlight
      <4>2. g.id \in Motors /\ g.cmd = cmd /\ [id |-> g.id + 1, cmd |-> cmd] = frame
        BY <1>1, <3>2, SecondFrame DEF Motors
      <4> QED
        BY <1>1, <4>1, <4>2
    <3> QED
      BY <3>1, <3>2
  <2>3. DoneIsSent'
    BY <1>1, <2>1, <2>2 DEF BInv, DoneIsSent
  <2>4. BusTypeOK' /\ AcceptedStays'
    BY <1>1, <2>1 DEF BInv, BusTypeOK, AcceptedStays, Pending
  <2>5. NothingElseWaits'
    BY <1>1, <2>1 DEF BInv, NothingElseWaits, Pending
  <2> QED
    BY <1>1, <2>1, <2>3, <2>4, <2>5 DEF BInv, InFlight, FirstIsKept, WholeSoFar
<1> QED
  BY <1>2, <1>3

LEMMA SendFailedKeeps == ASSUME BInv, SendFailed PROVE BInv'
<1>1. /\ pc = "wait" /\ pc' = "idle" /\ failed' = failed \cup {frame} /\ frame \in Frames
      /\ UNCHANGED <<cmd, frame, mbox, tx, accepted, sent, done, first, target>>
  BY DEF SendFailed, BInv, InFlight, motor
<1>2. failed' # {}
  BY <1>1
<1>3. BusTypeOK' /\ AcceptedStays' /\ DoneIsSent'
  BY <1>1 DEF BInv, BusTypeOK, AcceptedStays, DoneIsSent, Pending
<1> QED
  BY <1>1, <1>2, <1>3 DEF BInv, InFlight, NothingElseWaits, FirstIsKept, WholeSoFar

-----------------------------------------------------------------------------
(* A frame goes over the bus.                                              *)
LEMMA OnBusKeeps == ASSUME BInv, OnBus PROVE BInv'
<1>1. PICK b \in Pending : /\ tx' = [tx EXCEPT ![b] = Empty] /\ sent' = sent \cup {tx[b]}
                           /\ Receive(tx[b])
  BY DEF OnBus
<1>2. UNCHANGED <<pc, cmd, frame, mbox, accepted, failed, done>>
  BY DEF OnBus, sender, reports
<1>3. b \in Mailboxes /\ tx[b] # Empty /\ tx[b] \in Frames
  BY <1>1 DEF Pending, BInv, BusTypeOK
<1>4. /\ tx[b].id \in Ids /\ tx[b].id \in Int /\ tx[b].cmd \in 1 .. MAX_COMMANDS
      /\ tx[b].id \notin Motors => tx[b].id - 1 \in Steppers
  BY <1>3, SecondFrame DEF Frames
<1>5. /\ first' \in [Steppers -> 0 .. MAX_COMMANDS]
      /\ target' \in [Motors -> (0 .. MAX_COMMANDS) \X (0 .. MAX_COMMANDS)]
  <2>1. CASE tx[b].id \in Steppers
    BY <1>1, <1>4, <2>1 DEF Receive, BInv, BusTypeOK, Motors
  <2>2. CASE tx[b].id \in Brushless
    BY <1>1, <1>4, <2>2 DEF Receive, BInv, BusTypeOK, Motors
  <2>3. CASE tx[b].id \notin Motors
    BY <1>1, <1>4, <2>3 DEF Receive, BInv, BusTypeOK, Motors
  <2> QED
    BY <2>1, <2>2, <2>3 DEF Motors
<1>6. BusTypeOK'
  BY <1>1, <1>2, <1>3, <1>5 DEF BInv, BusTypeOK
<1>7. AcceptedStays'
  BY <1>1, <1>2, <1>3 DEF BInv, BusTypeOK, AcceptedStays, Pending
<1>8. DoneIsSent'
  BY <1>1, <1>2 DEF BInv, DoneIsSent
<1>9. InFlight'
  BY <1>1, <1>2, <1>3 DEF BInv, BusTypeOK, InFlight
<1>10. NothingElseWaits'
  BY <1>1, <1>2, <1>3 DEF BInv, BusTypeOK, NothingElseWaits, Pending
<1>11. FirstIsKept' /\ WholeSoFar'
  <2> SUFFICES ASSUME failed = {} PROVE FirstIsKept' /\ WholeSoFar'
    BY <1>2 DEF FirstIsKept, WholeSoFar
  <2>1. pc = "wait" /\ b = mbox /\ mbox # NoMailBox /\ frame = tx[b] /\ frame.cmd = cmd
    BY <1>1, <1>3 DEF BInv, NothingElseWaits, InFlight, Mailboxes, NoMailBox
  <2>2. /\ first \in [Steppers -> 0 .. MAX_COMMANDS] /\ frame.id \in Ids
        /\ target \in [Motors -> (0 .. MAX_COMMANDS) \X (0 .. MAX_COMMANDS)] /\ cmd \in Int
    BY <1>4, <2>1 DEF BInv, BusTypeOK
  <2>3. CASE frame.id \in Steppers
    <3>1. first' = [first EXCEPT ![frame.id] = cmd] /\ target' = target
      BY <1>1, <2>1, <2>3, BusAssumption DEF Receive, Motors
    <3> QED
      BY <1>2, <2>2, <2>3, <3>1 DEF BInv, FirstIsKept, WholeSoFar, Motors
  <2>4. CASE frame.id \in Brushless
    <3>1. target' = [target EXCEPT ![frame.id] = <<cmd, cmd>>] /\ first' = first
      BY <1>1, <2>1, <2>4, BusAssumption DEF Receive, Motors
    <3>2. WholeSoFar'
      BY <1>2, <2>2, <3>1 DEF BInv, WholeSoFar
    <3> QED
      BY <1>2, <2>4, <3>1, <3>2, BusAssumption DEF FirstIsKept, Motors
  <2>5. CASE frame.id \notin Motors
    <3>1. first[frame.id - 1] = cmd /\ frame.id - 1 \in Steppers
      BY <1>4, <2>1, <2>5 DEF BInv, FirstIsKept
    <3>2. target' = [target EXCEPT ![frame.id - 1] = <<cmd, cmd>>] /\ first' = first
      BY <1>1, <2>1, <2>5, <3>1 DEF Receive, Motors
    <3>3. WholeSoFar'
      BY <1>2, <2>2, <3>2 DEF BInv, WholeSoFar
    <3> QED
      BY <1>2, <2>5, <3>1, <3>2, <3>3 DEF FirstIsKept, Motors
  <2> QED
    BY <2>3, <2>4, <2>5 DEF Motors
<1> QED
  BY <1>6, <1>7, <1>8, <1>9, <1>10, <1>11 DEF BInv

LEMMA NextBInv == BInv /\ [BusNext]_bvars => BInv'
<1> SUFFICES ASSUME BInv, [BusNext]_bvars PROVE BInv'
  OBVIOUS
<1>1. CASE UNCHANGED bvars
  BY <1>1 DEF bvars, sender, reports, motor, BInv, BusTypeOK, AcceptedStays, DoneIsSent,
              InFlight, NothingElseWaits, FirstIsKept, WholeSoFar, Pending
<1> QED
  BY <1>1, CommandKeeps, SendOkKeeps, SendFailedKeeps, OnBusKeeps DEF BusNext, Sender

(* The invariant of the mailboxes, for any motors and any number of        *)
(* commands.                                                               *)
THEOREM BusInvariance == BusSpec => []BInv
<1>1. BusInit => BInv
  BY InitBInv
<1>2. BInv /\ [BusNext]_bvars => BInv'
  BY NextBInv
<1> QED
  BY <1>1, <1>2, PTL DEF BusSpec

-----------------------------------------------------------------------------
(* CAN_Send_Msg never loses a frame that got a mailbox.                    *)
THEOREM FramesStay == BusSpec => [](BusTypeOK /\ AcceptedStays)
<1>1. BInv => BusTypeOK /\ AcceptedStays
  BY DEF BInv
<1> QED
  BY <1>1, BusInvariance, PTL

(* A command CAN_Send_Position_Mode reports sent went over the bus whole.  *)
THEOREM DoneWasSent == BusSpec => []DoneIsSent
<1>1. BInv => DoneIsSent
  BY DEF BInv
<1> QED
  BY <1>1, BusInvariance, PTL

(* A motor's target changes to that of the command that is polled.         *)
LEMMA TargetAdvances ==
  ASSUME BInv, BusNext, failed = {}, NEW m \in Motors
  PROVE  target'[m][1] >= target[m][1]
<1>1. target[m][1] <= cmd /\ target[m][1] \in Int /\ cmd \in Int
  BY DEF BInv, WholeSoFar, BusTypeOK
<1>2. ASSUME OnBus PROVE target'[m] \in {target[m], <<cmd, cmd>>}
  <2>1. PICK b \in Pending : /\ tx[b] \in Frames /\ Receive(tx[b])
                             /\ pc = "wait" /\ frame = tx[b] /\ frame.cmd = cmd
    BY <1>2 DEF OnBus, Pending, BInv, BusTypeOK, NothingElseWaits, InFlight, Mailboxes, NoMailBox
  <2>2. target \in [Motors -> (0 .. MAX_COMMANDS) \X (0 .. MAX_COMMANDS)]
    BY DEF BInv, BusTypeOK
  <2>3. CASE frame.id \in Steppers
    BY <2>1, <2>3, BusAssumption DEF Receive, Motors
  <2>4. CASE frame.id \in Brushless
    BY <2>1, <2>2, <2>4, BusAssumption DEF Receive, Motors
  <2>5. CASE frame.id \notin Motors
    <3>1. first[frame.id - 1] = cmd
      BY <2>1, <2>5 DEF BInv, FirstIsKept
    <3> QED
      BY <2>1, <2>2, <2>5, <3>1 DEF Receive, Motors
  <2> QED
    BY <2>3, <2>4, <2>5 DEF Motors
<1>3. ASSUME ~OnBus PROVE target' = target
  BY <1>3 DEF BusNext, Sender, SendOk, SendFailed, Command, motor
<1> QED
  BY <1>1, <1>2, <1>3

(* Until a send fails, waiting for each frame keeps the mailboxes from     *)
(* reordering commands: motors act on whole ones, in order.                *)
THEOREM Ordered == BusSpec => OrderedUnlessFailed
<1> DEFINE Good == failed' = {} => \A m \in Motors : /\ target'[m][1] = target'[m][2]
                                                    /\ target'[m][1] >= target[m][1]
<1>1. BInv /\ BInv' /\ [BusNext]_bvars => [Good]_bvars
  <2> SUFFICES ASSUME BInv, BInv', BusNext, failed' = {}, NEW m \in Motors
              PROVE  target'[m][1] = target'[m][2] /\ target'[m][1] >= target[m][1]
    OBVIOUS
  <2>1. failed = {}
    BY DEF BusNext, Sender, SendOk, SendFailed, OnBus, Command, reports
  <2> QED
    BY <2>1, TargetAdvances DEF BInv, WholeSoFar
<1> QED
  BY <1>1, BusInvariance, PTL DEF BusSpec, OrderedUnlessFailed
=============================================================================
