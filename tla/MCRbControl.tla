---------------------------- MODULE MCRbControl ----------------------------
(* Values for the constants of RbControl.  Ticks are scaled: a return      *)
(* delay is shorter than any stay, and the flame burns longer than a delay *)
(* and about as long as a stay, as 6 s, 2 to 10 min and 4.2 min do.        *)
EXTENDS RbControl

EveryTick == [lr |-> 1, circle |-> 1, ud |-> 1]
Uneven    == [lr |-> 2, circle |-> 1, ud |-> 1]

NoKeys      == {}
AllLcdKeys  == LcdCodes
AllIrKeys   == IrCodes
TreatKeys   == {"jogXY+", "mark", "start"}
ClearKeys   == TreatKeys \cup {"clear"}
=============================================================================
