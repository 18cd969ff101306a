---------------------------- MODULE KeyDelivery ----------------------------
(***************************************************************************)
(* What the keys of the panel and of the remote promise to the main loop:  *)
(* the presses of one source are handled in the order they were made, each *)
(* at most once.  Presses are numbered from 1 and may be skipped.          *)
(***************************************************************************)
EXTENDS Naturals

CONSTANT Sources
VARIABLES pressed,    (* how many presses each source has sent             *)
          handled,    (* the last of them that was handled, 0 at first     *)
          calls       (* how often a handler was called for the source     *)

dvars == <<pressed, handled, calls>>

DInit ==
  /\ pressed = [s \in Sources |-> 0]
  /\ handled = [s \in Sources |-> 0] /\ calls = [s \in Sources |-> 0]

DPress(s) == pressed' = [pressed EXCEPT ![s] = @ + 1] /\ UNCHANGED <<handled, calls>>

Deliver(s) ==
  /\ \E n \in handled[s] + 1 .. pressed[s] : handled' = [handled EXCEPT ![s] = n]
  /\ calls' = [calls EXCEPT ![s] = @ + 1]
  /\ UNCHANGED pressed

DNext == \E s \in Sources : DPress(s) \/ Deliver(s)

DSpec == DInit /\ [][DNext]_dvars
=============================================================================
