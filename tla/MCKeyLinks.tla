---------------------------- MODULE MCKeyLinks -----------------------------
(* KeyLinks with a few presses of each source: enough for one in the       *)
(* mailbox, one in the loop's hands and one that arrives.                  *)
EXTENDS KeyLinks
=============================================================================
