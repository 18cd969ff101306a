--------------------------- MODULE TreatmentPlan ---------------------------
(***************************************************************************)
(* What a treatment promises the patient, whatever the loop, the keys and  *)
(* the interrupt do: the marks planned before the start are served one     *)
(* after the other from the first to the last, none is skipped or served   *)
(* twice in a cycle, an interrupted treatment goes on where it was, and    *)
(* the cycle is complete, and over, only when the last mark was served.    *)
(* Clear is not part of the promise: it ends the plan.                     *)
(***************************************************************************)
EXTENDS Naturals

CONSTANT MAX_POINTS

VARIABLES
  planned,    (* how many marks the plan has                               *)
  served,     (* how many of them have been served in this cycle           *)
  underway,   (* the treatment runs, or will go on by itself               *)
  complete    (* every planned mark was served                             *)

planVars == <<planned, served, underway, complete>>

PlanInit == planned = 0 /\ served = 0 /\ ~underway /\ ~complete

Plan ==
  /\ ~underway /\ ~complete /\ served = 0 /\ planned < MAX_POINTS
  /\ planned' = planned + 1
  /\ UNCHANGED <<served, underway, complete>>

(* A start goes on where the treatment was, or begins a new cycle.         *)
Begin ==
  /\ planned > 0 /\ ~underway
  /\ underway' = TRUE /\ complete' = FALSE
  /\ served' = IF complete THEN 0 ELSE served
  /\ UNCHANGED planned

Serve ==
  /\ underway /\ served < planned
  /\ served' = served + 1
  /\ UNCHANGED <<planned, underway, complete>>

Stop ==
  /\ underway /\ served < planned
  /\ underway' = FALSE
  /\ UNCHANGED <<planned, served, complete>>

Finish ==
  /\ underway /\ served = planned
  /\ complete' = TRUE /\ underway' = FALSE
  /\ UNCHANGED <<planned, served>>

PlanNext == Plan \/ Begin \/ Serve \/ Stop \/ Finish

PlanSpec == PlanInit /\ [][PlanNext]_planVars
=============================================================================
