--------------------------- MODULE MCNecDecoder ----------------------------
(* NecDecoder with bytes of a few bits: every command, two addresses, and  *)
(* every disturbance at every interval of every frame.                     *)
EXTENDS NecDecoder

TwoAddresses == {<<"zero", "zero", "zero">>, <<"zero", "one", "one">>}
=============================================================================
