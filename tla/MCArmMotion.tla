---------------------------- MODULE MCArmMotion ----------------------------
(* Two heights of the ground, which rises, the ends of a stroke, and       *)
(* distances on either side of the baselines while the arm travels.        *)
EXTENDS ArmMotion

TwoGrounds == {-2, -1}
LowGround  == -2
Stroke     == {-1, 1}
NearAndFar == {1, 4}
=============================================================================
