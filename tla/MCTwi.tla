------------------------------- MODULE MCTwi -------------------------------
(* Two chips on bus 0 and one on bus 1, as on the board; payloads of one   *)
(* to three bytes with twi_write limited to two, so that a rejected write, *)
(* a one-byte and a many-byte receive all happen.                          *)
EXTENDS Twi

CONSTANTS bmp388, smpb, dps368

MCAddr    == {bmp388, smpb, dps368}
MCClients == {<<0, bmp388>>, <<0, smpb>>, <<1, dps368>>}
=============================================================================
