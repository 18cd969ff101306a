----------------------------- MODULE MotorBus ------------------------------
(***************************************************************************)
(* How a position command reaches a motor: CAN_Send_Msg puts a frame in a  *)
(* free transmit mailbox of the controller and polls it for a limited      *)
(* time; CAN_Send_Position_Mode sends the command of a stepper in two      *)
(* frames, CAN_BLDC_POS_CONTROL that of a brushless motor in one.  Nobody  *)
(* looks at the results.                                                   *)
(*                                                                         *)
(* The controller sends by itself, however long the bus is busy: it is set *)
(* up to retry for ever (CAN_NART off) and to let the lowest identifier go *)
(* first (CAN_TXFP off).  A motor keeps the first frame of a command until *)
(* the second one comes.                                                   *)
(***************************************************************************)
EXTENDS Integers, FiniteSets, FiniteSetsExt

CONSTANTS
  Steppers,           (* identifiers of their first frames; the second one *)
                      (* has the next identifier                           *)
  Brushless,          (* identifiers of their frames                       *)
  MAX_COMMANDS        (* bound on the commands                             *)

Motors == Steppers \cup Brushless

ASSUME BusAssumption ==
  /\ Steppers \subseteq Nat /\ Brushless \subseteq Nat
  /\ \A m \in Steppers : m + 1 \notin Motors
  /\ Steppers \cap Brushless = {}
  /\ MAX_COMMANDS \in Nat

Mailboxes == 0 .. 2
NoMailBox == 4
Ids    == Motors \cup {m + 1 : m \in Steppers}
Frames == [id : Ids, cmd : 1 .. MAX_COMMANDS]
Empty  == [id |-> -1, cmd |-> 0]

VARIABLES
  pc,                 (* "idle", or "wait" while CAN_Send_Msg polls        *)
  cmd, frame, mbox,   (* the command, its frame and the mailbox polled     *)
  tx,                 (* the transmit mailboxes of the controller          *)
  accepted, sent,     (* frames that got a mailbox, that were on the bus   *)
  failed, done,       (* frames that were reported failed, commands ok     *)
  first, target       (* of each motor: command of the first frame it      *)
                      (* keeps, commands of the frames it acts on          *)

sender  == <<pc, cmd, frame, mbox>>
reports == <<failed, done>>
motor   == <<first, target>>
bvars   == <<sender, tx, accepted, sent, reports, motor>>

BusTypeOK ==
  /\ pc \in {"idle", "wait"} /\ cmd \in 0 .. MAX_COMMANDS
  /\ frame \in Frames \cup {Empty} /\ mbox \in Mailboxes \cup {NoMailBox}
  /\ tx \in [Mailboxes -> Frames \cup {Empty}]
  /\ accepted \subseteq Frames /\ sent \subseteq Frames /\ failed \subseteq Frames
  /\ done \subseteq 1 .. MAX_COMMANDS
  /\ first \in [Steppers -> 0 .. MAX_COMMANDS]
  /\ target \in [Motors -> (0 .. MAX_COMMANDS) \X (0 .. MAX_COMMANDS)]

BusInit ==
  /\ pc = "idle" /\ cmd = 0 /\ frame = Empty /\ mbox = NoMailBox
  /\ tx = [b \in Mailboxes |-> Empty]
  /\ accepted = {} /\ sent = {} /\ failed = {} /\ done = {}
  /\ first = [m \in Steppers |-> 0] /\ target = [m \in Motors |-> <<0, 0>>]

-----------------------------------------------------------------------------
(* The main loop.                                                          *)

Free == {b \in Mailboxes : tx[b] = Empty}

(* Mutant: the third mailbox is used without looking.                      *)
TransmitOverwrites(f) ==
  LET b == IF Free = {} THEN 2 ELSE Min(Free)
  IN  /\ mbox' = b /\ tx' = [tx EXCEPT ![b] = f] /\ accepted' = accepted \cup {f}

(* CAN_Transmit: the first free mailbox, if there is one.                  *)
Transmit(f) ==
  IF Free = {}
    THEN mbox' = NoMailBox /\ UNCHANGED <<tx, accepted>>
    ELSE /\ mbox' = Min(Free)
         /\ tx' = [tx EXCEPT ![Min(Free)] = f]
         /\ accepted' = accepted \cup {f}

(* The beginning of CAN_Send_Msg.                                          *)
StartSending(f) ==
  /\ pc' = "wait" /\ frame' = f
  /\ Transmit(f)

Command(m) ==
  /\ pc = "idle" /\ cmd < MAX_COMMANDS
  /\ cmd' = cmd + 1
  /\ StartSending([id |-> m, cmd |-> cmd + 1])
  /\ UNCHANGED <<sent, reports, motor>>

(* Mutant: a mailbox is all a frame needs.                                 *)
StatusAccepted == mbox # NoMailBox

(* CAN_TransmitStatus: the frame has left the mailbox.                     *)
StatusOk == mbox # NoMailBox /\ tx[mbox] = Empty

(* CAN_Send_Msg returns 0: the second frame follows, or all is sent.       *)
SendOk ==
  /\ pc = "wait" /\ StatusOk
  /\ IF frame.id \in Steppers
       THEN /\ StartSending([id |-> frame.id + 1, cmd |-> cmd])
            /\ UNCHANGED <<cmd, done>>
       ELSE /\ done' = done \cup {cmd}
            /\ pc' = "idle"
            /\ UNCHANGED <<cmd, frame, mbox, tx, accepted>>
  /\ UNCHANGED <<sent, failed, motor>>

(* Mutant: the result of the second frame is not looked at.                *)
SendFailedIgnored ==
  /\ pc = "wait" /\ pc' = "idle"
  /\ failed' = failed \cup {frame}
  /\ done' = IF frame.id \in Motors THEN done ELSE done \cup {cmd}
  /\ UNCHANGED <<cmd, frame, mbox, tx, accepted, sent, motor>>

(* Mutant: without a mailbox the status is polled without limit.           *)
SendFailedWithMailbox ==
  /\ pc = "wait" /\ mbox # NoMailBox /\ pc' = "idle"
  /\ failed' = failed \cup {frame}
  /\ UNCHANGED <<cmd, frame, mbox, tx, accepted, sent, done, motor>>

(* CAN_Send_Msg returns 1 after 0xFFF polls, also when the frame left      *)
(* during the last one; the command is given up and the frame stays where  *)
(* it is.                                                                  *)
SendFailed ==
  /\ pc = "wait" /\ pc' = "idle"
  /\ failed' = failed \cup {frame}
  /\ UNCHANGED <<cmd, frame, mbox, tx, accepted, sent, done, motor>>

Sender == SendOk \/ SendFailed

-----------------------------------------------------------------------------
(* The controller and the motors.                                          *)

Pending == {b \in Mailboxes : tx[b] # Empty}

(* The lowest identifier goes first, then the lowest mailbox.              *)
Before(a, b) == tx[a].id < tx[b].id \/ (tx[a].id = tx[b].id /\ a <= b)

Receive(f) ==
  \/ /\ f.id \in Steppers
     /\ first' = [first EXCEPT ![f.id] = f.cmd] /\ UNCHANGED target
  \/ /\ f.id \in Brushless
     /\ target' = [target EXCEPT ![f.id] = <<f.cmd, f.cmd>>] /\ UNCHANGED first
  \/ /\ f.id \notin Motors
     /\ target' = [target EXCEPT ![f.id - 1] = <<first[f.id - 1], f.cmd>>] /\ UNCHANGED first

OnBus ==
  \E b \in Pending :
    /\ \A c \in Pending : Before(b, c)
    /\ tx' = [tx EXCEPT ![b] = Empty] /\ sent' = sent \cup {tx[b]}
    /\ Receive(tx[b])
    /\ UNCHANGED <<sender, accepted, reports>>

BusNext == Sender \/ OnBus \/ \E m \in Motors : Command(m)

BusSpec == BusInit /\ [][BusNext]_bvars /\ WF_bvars(Sender)

-----------------------------------------------------------------------------
(* No frame gets lost in the mailboxes: one that was accepted is waiting   *)
(* or has been sent, whatever commands were given up before.               *)
AcceptedStays == accepted = sent \cup {tx[b] : b \in Pending}

(* A command that is reported sent is on its motor: all its frames went    *)
(* over the bus.                                                           *)
DoneIsSent ==
  \A c \in done : \E f \in sent : /\ f.id \in Motors /\ f.cmd = c
                                  /\ f.id \in Steppers => [id |-> f.id + 1, cmd |-> c] \in sent

(* The main loop is never caught in a send, even with the bus dead.        *)
SendReturns == pc = "wait" ~> pc = "idle"

(* As long as no send has failed, a motor acts on whole commands and never *)
(* returns to an earlier one: waiting for each frame keeps the mailboxes   *)
(* from reordering them.                                                   *)
OrderedUnlessFailed ==
  [][failed' = {} => \A m \in Motors : /\ target'[m][1] = target'[m][2]
                                      /\ target'[m][1] >= target[m][1]]_bvars

-----------------------------------------------------------------------------
(* What the comments say and the code does not do: README.md tells how     *)
(* each of these fails.                                                    *)

(* A motor acts on the two frames of one command.                          *)
OneCommand == \A m \in Motors : target[m][1] = target[m][2]

(* A frame that is reported failed is not sent.                            *)
FailedIsNotSent == \A f \in failed : f \notin sent
=============================================================================
