------------------------------- MODULE MCBmp3 -------------------------------
(* What bmp388_init asks for, a normal mode that keeps its rate, and sleep *)
(* with an odr out of range.                                               *)
EXTENDS Bmp3

Profile(m, pos, tos, odr, iir) ==
  [mode |-> m, press |-> TRUE, temp |-> m # "sleep",
   pos |-> pos, tos |-> tos, odr |-> odr, iir |-> iir]

MCProfiles ==
  {Profile("forced", 4, 1, 0, 3), Profile("normal", 2, 0, 2, 0), Profile("sleep", 2, 0, 20, 0)}

MCSelections ==
  {{"press_en", "temp_en", "press_os", "temp_os", "iir"}, {"temp_en"}, {"press_os"},
   {"temp_os", "odr"}, {}}
=============================================================================
