---------------------------- MODULE MCMotorBus -----------------------------
(* MotorBus with one stepper and one brushless motor, whose frames have    *)
(* the larger identifier, as on the arm.                                   *)
EXTENDS MotorBus

OneStepper   == {1}
OneBrushless == {3}
NoMotor      == {}
=============================================================================
