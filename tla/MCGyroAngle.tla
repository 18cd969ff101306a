---------------------------- MODULE MCGyroAngle ----------------------------
(* GyroAngle with frames of two bytes and a ring of one and a half DMA      *)
(* buffers, so that it wraps inside a push, fills and drops, and an index   *)
(* that reaches two slots of the ring before it starts anew.                *)
EXTENDS GyroAngle
=============================================================================
