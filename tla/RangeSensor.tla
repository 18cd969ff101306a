---------------------------- MODULE RangeSensor ----------------------------
(***************************************************************************)
(* The range sensor as the main loop sees it: every call of filtered_tof   *)
(* asks the link for a distance and filters it.  Which distance a reply    *)
(* holds is chosen when it is read: no reply is read twice.                *)
(***************************************************************************)
EXTENDS RangeLink, RangeFilter

CONSTANT Distances    (* what the sensor may measure                       *)

ASSUME DistancesAssumption == Distances \subseteq Nat

sensorVars == <<linkVars, filterVars>>

SInit == LinkInit /\ FilterInit

Filter ==
  /\ tof_pc = "filter" /\ tof_pc' = "test"
  /\ \/ tof_num = 0 /\ filtered_tof(0)
     \/ tof_num # 0 /\ \E d \in Distances : filtered_tof(d)
  /\ UNCHANGED <<next, rx, tof_num, first, wiped, last>>

SLoop == (new_tof /\ UNCHANGED filterVars) \/ Filter

SNext == SLoop \/ (USART2_IRQHandler /\ UNCHANGED filterVars)

SSpec == SInit /\ [][SNext]_sensorVars
=============================================================================
