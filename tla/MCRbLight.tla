----------------------------- MODULE MCRbLight -----------------------------
(* Values for the constants of RbLight, as in MCRbControl.                 *)
EXTENDS RbLight

EveryTick == [lr |-> 1, circle |-> 1, ud |-> 1]

NoKeys    == {}
JogBack   == {"jogXY-"}
MarkKeys  == {"jogXY+", "mark"}
TreatKeys == {"jogXY+", "jogZ-", "mark", "start"}
ClearKeys == TreatKeys \cup {"clear", "cebai"}
=============================================================================
