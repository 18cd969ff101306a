----------------------------- MODULE MCRbVoice -----------------------------
(* Values for the constants of RbVoice, as in MCRbControl.                 *)
EXTENDS RbVoice

EveryTick == [lr |-> 1, circle |-> 1, ud |-> 1]

NoKeys    == {}
VoiceKeys == {"jogZ+", "jogZ-", "mark", "start", "clear", "cebai"}
=============================================================================
