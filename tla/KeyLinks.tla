----------------------------- MODULE KeyLinks ------------------------------
(***************************************************************************)
(* The two one-byte mailboxes between the key interrupts and the main      *)
(* loop: lcd_cmd, written by USART3_IRQHandler for every byte of the       *)
(* panel, and ir_command, written by the IR decoder for every frame of the *)
(* remote.  Both are volatile; an interrupt may come between any two       *)
(* accesses of the loop.  LCD_ReceiveTask tests, reads and clears its      *)
(* mailbox before the key is handled; the loop reads ir_command, handles   *)
(* the key, which may take long, and clears the mailbox afterwards.        *)
(*                                                                         *)
(* A key is the number of its press; 0 is no key.                          *)
(***************************************************************************)
EXTENDS Naturals

CONSTANT MAX_PRESSES  (* bound on the presses of each source               *)

ASSUME PressesAssumption == MAX_PRESSES \in Nat

Sources == {"lcd", "ir"}
Phases  == {"lcd_test", "lcd_read", "lcd_clear", "lcd_handle", "ir_read", "ir_handle", "ir_clear"}

VARIABLES
  pc,                 (* next access of the main loop                      *)
  mailbox,            (* lcd_cmd and ir_command                            *)
  cmd,                (* the key the loop works on                         *)
  pressed, handled, calls  (* history, as in KeyDelivery                   *)

history == <<pressed, handled, calls>>
kvars   == <<pc, mailbox, cmd, history>>

KeyTypeOK ==
  /\ pc \in Phases
  /\ mailbox \in [Sources -> Nat] /\ cmd \in Nat
  /\ pressed \in [Sources -> Nat] /\ handled \in [Sources -> Nat]
  /\ calls \in [Sources -> Nat]

KInit ==
  /\ pc = "lcd_test" /\ cmd = 0
  /\ mailbox = [s \in Sources |-> 0]
  /\ pressed = [s \in Sources |-> 0]
  /\ handled = [s \in Sources |-> 0] /\ calls = [s \in Sources |-> 0]

(* USART3_IRQHandler and the end of a frame in IR_EXTI_Callback: the new   *)
(* key replaces what the mailbox holds.                                    *)
Press(s) ==
  /\ pressed[s] < MAX_PRESSES
  /\ pressed' = [pressed EXCEPT ![s] = @ + 1]
  /\ mailbox' = [mailbox EXCEPT ![s] = pressed[s] + 1]
  /\ UNCHANGED <<pc, cmd, handled, calls>>

HandleKey(s) ==
  /\ handled' = [handled EXCEPT ![s] = cmd]
  /\ calls' = [calls EXCEPT ![s] = @ + 1]
  /\ UNCHANGED <<mailbox, cmd, pressed>>

(* lcd_cmd is compared, then read, then cleared.                           *)
LcdTest ==
  /\ pc = "lcd_test"
  /\ pc' = IF mailbox["lcd"] # 0 THEN "lcd_read" ELSE "ir_read"
  /\ UNCHANGED <<mailbox, cmd, history>>

LcdRead ==
  /\ pc = "lcd_read" /\ pc' = "lcd_clear"
  /\ cmd' = mailbox["lcd"]
  /\ UNCHANGED <<mailbox, history>>

LcdClear ==
  /\ pc = "lcd_clear" /\ pc' = "lcd_handle"
  /\ mailbox' = [mailbox EXCEPT !["lcd"] = 0]
  /\ UNCHANGED <<cmd, history>>

(* Mutant: the mailbox is cleared after the handler, as the remote's is.   *)
LcdHandleAndClear ==
  /\ pc = "lcd_handle" /\ pc' = "ir_read"
  /\ handled' = [handled EXCEPT !["lcd"] = cmd] /\ calls' = [calls EXCEPT !["lcd"] = @ + 1]
  /\ mailbox' = [mailbox EXCEPT !["lcd"] = 0]
  /\ UNCHANGED <<cmd, pressed>>

LcdHandle == pc = "lcd_handle" /\ pc' = "ir_read" /\ HandleKey("lcd")

IrRead ==
  /\ pc = "ir_read"
  /\ cmd' = mailbox["ir"]
  /\ pc' = IF mailbox["ir"] # 0 THEN "ir_handle" ELSE "ir_clear"
  /\ UNCHANGED <<mailbox, history>>

IrHandle == pc = "ir_handle" /\ pc' = "ir_clear" /\ HandleKey("ir")

(* Mutant: the mailbox is cleared only when no key was handled.            *)
IrClearIfNone ==
  /\ pc = "ir_clear" /\ pc' = "lcd_test"
  /\ mailbox' = [mailbox EXCEPT !["ir"] = IF cmd = 0 THEN 0 ELSE @]
  /\ UNCHANGED <<cmd, history>>

IrClear ==
  /\ pc = "ir_clear" /\ pc' = "lcd_test"
  /\ mailbox' = [mailbox EXCEPT !["ir"] = 0]
  /\ UNCHANGED <<cmd, history>>

KLoop == LcdTest \/ LcdRead \/ LcdClear \/ LcdHandle \/ IrRead \/ IrHandle \/ IrClear

KNext == KLoop \/ \E s \in Sources : Press(s)

KSpec == KInit /\ [][KNext]_kvars /\ WF_kvars(KLoop)

-----------------------------------------------------------------------------
(* What waits has not been handled: a key in a mailbox is newer than every *)
(* key handled (the remote's until its handler returns), and so is the key *)
(* in the loop's hands; no key comes from nowhere.                         *)
KeyFresh ==
  /\ \A s \in Sources : mailbox[s] <= pressed[s] /\ handled[s] <= pressed[s]
  /\ mailbox["lcd"] # 0 /\ pc # "lcd_clear" => handled["lcd"] < mailbox["lcd"]
  /\ mailbox["ir"] # 0 /\ pc # "ir_clear" => handled["ir"] < mailbox["ir"]
  /\ pc = "lcd_read" => mailbox["lcd"] # 0
  /\ pc \in {"lcd_clear", "lcd_handle"} => handled["lcd"] < cmd /\ cmd <= pressed["lcd"]
  /\ pc = "lcd_handle" /\ mailbox["lcd"] # 0 => cmd < mailbox["lcd"]
  /\ pc = "ir_handle" => /\ handled["ir"] < cmd /\ cmd <= pressed["ir"]
                         /\ cmd <= mailbox["ir"]

(* Keys are handled in order and at most once, as KeyDelivery says, though *)
(* a mailbox may be written between any two accesses of the loop.          *)
Delivery == INSTANCE KeyDelivery
              WITH Sources <- Sources, pressed <- pressed, handled <- handled, calls <- calls
InOrderOnce == Delivery!DSpec

(* A mailbox is about to be cleared: the panel's after it was read, the    *)
(* remote's from when it was read until its handler has returned.          *)
Clearing(s) == pc \in IF s = "lcd" THEN {"lcd_clear"} ELSE {"ir_handle", "ir_clear"}

(* A press is lost in no other way than these: it comes while its mailbox  *)
(* is about to be cleared, or the next press of its source replaces it     *)
(* before the loop reads it.  Any other press is handled in the end.       *)
WaitingIsHandled ==
  \A s \in Sources, n \in 1 .. MAX_PRESSES :
    mailbox[s] = n /\ ~Clearing(s) ~> handled[s] >= n \/ mailbox[s] > n

-----------------------------------------------------------------------------
(* What the comments say and the code does not do: README.md tells how     *)
(* this fails.                                                             *)

(* No press of the panel is passed over: each one gets its call.           *)
EveryPressHandled ==
  [][handled'["lcd"] # handled["lcd"] => handled'["lcd"] = handled["lcd"] + 1]_kvars
=============================================================================
