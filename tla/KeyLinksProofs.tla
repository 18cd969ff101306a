-------------------------- MODULE KeyLinksProofs ---------------------------
(***************************************************************************)
(* For any number of presses, the mailboxes of KeyLinks hand over keys as  *)
(* KeyDelivery promises.  KInv is inductive: what waits in a mailbox, and  *)
(* what the loop has taken from one, is newer than all that was handled.   *)
(***************************************************************************)
EXTENDS KeyLinks, TLAPS

KInv == KeyTypeOK /\ KeyFresh

LEMMA InitKInv == KInit => KInv
  BY DEF KInit, KInv, KeyTypeOK, KeyFresh, Sources, Phases

(* One step per access of the loop and one for the interrupts.             *)
LEMMA NextKInv == KInv /\ [KNext]_kvars => KInv'
<1> SUFFICES ASSUME KInv, [KNext]_kvars PROVE KInv'
  OBVIOUS
<1> USE DEF KInv, KeyTypeOK, KeyFresh, Sources, Phases, history
<1>1. ASSUME NEW s \in Sources, Press(s) PROVE KInv'
  BY <1>1, PressesAssumption DEF Press
<1>2. CASE LcdTest
  BY <1>2 DEF LcdTest
<1>3. CASE LcdRead
  BY <1>3 DEF LcdRead
<1>4. CASE LcdClear
  BY <1>4 DEF LcdClear
<1>5. CASE LcdHandle
  BY <1>5 DEF LcdHandle, HandleKey
<1>6. CASE IrRead
  BY <1>6 DEF IrRead
<1>7. CASE IrHandle
  BY <1>7 DEF IrHandle, HandleKey
<1>8. CASE IrClear
  BY <1>8 DEF IrClear
<1>9. CASE UNCHANGED kvars
  BY <1>9 DEF kvars
<1> QED
  BY <1>1, <1>2, <1>3, <1>4, <1>5, <1>6, <1>7, <1>8, <1>9 DEF KNext, KLoop

(* In every state, for any number of presses and any interleaving of the   *)
(* interrupts with the loop, waiting keys are newer than handled ones.     *)
THEOREM KeysStayFresh == KSpec => []KeyFresh
<1>1. KInit => KInv
  BY InitKInv
<1>2. KInv /\ [KNext]_kvars => KInv'
  BY NextKInv
<1>3. KInv => KeyFresh
  BY DEF KInv
<1> QED
  BY <1>1, <1>2, <1>3, PTL DEF KSpec

-----------------------------------------------------------------------------
(* Each step of the mailboxes is a step of KeyDelivery or changes nothing  *)
(* it speaks of: the handlers deliver, the interrupts press.               *)
LEMMA StepDelivers == KInv /\ [KNext]_kvars => [Delivery!DNext]_(Delivery!dvars)
<1> SUFFICES ASSUME KInv, [KNext]_kvars PROVE [Delivery!DNext]_(Delivery!dvars)
  OBVIOUS
<1> USE DEF KInv, KeyTypeOK, KeyFresh, Sources, Phases, history, Delivery!dvars
<1>1. ASSUME NEW s \in Sources, Press(s) PROVE Delivery!DPress(s)
  BY <1>1 DEF Press, Delivery!DPress
<1>2. CASE LcdHandle
  <2>1. cmd \in handled["lcd"] + 1 .. pressed["lcd"]
    BY <1>2 DEF LcdHandle
  <2>2. Delivery!Deliver("lcd")
    BY <1>2, <2>1 DEF LcdHandle, HandleKey, Delivery!Deliver
  <2> QED
    BY <2>2 DEF Delivery!DNext
<1>3. CASE IrHandle
  <2>1. cmd \in handled["ir"] + 1 .. pressed["ir"]
    BY <1>3 DEF IrHandle
  <2>2. Delivery!Deliver("ir")
    BY <1>3, <2>1 DEF IrHandle, HandleKey, Delivery!Deliver
  <2> QED
    BY <2>2 DEF Delivery!DNext
<1>4. CASE LcdTest \/ LcdRead \/ LcdClear \/ IrRead \/ IrClear \/ UNCHANGED kvars
  BY <1>4 DEF LcdTest, LcdRead, LcdClear, IrRead, IrClear, kvars
<1>5. (\E s \in Sources : Press(s)) => Delivery!DNext
  BY <1>1 DEF Delivery!DNext
<1> QED
  BY <1>2, <1>3, <1>4, <1>5 DEF KNext, KLoop

(* The mailboxes implement KeyDelivery.                                    *)
THEOREM MailboxesDeliver == KSpec => InOrderOnce
<1>1. KInit => Delivery!DInit
  BY DEF KInit, Delivery!DInit
<1>2. KInit => KInv
  BY InitKInv
<1>3. KInv /\ [KNext]_kvars => KInv'
  BY NextKInv
<1>4. KInv /\ [KNext]_kvars => [Delivery!DNext]_(Delivery!dvars)
  BY StepDelivers
<1> QED
  BY <1>1, <1>2, <1>3, <1>4, PTL DEF KSpec, InOrderOnce, Delivery!DSpec
=============================================================================
