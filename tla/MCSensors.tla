----------------------------- MODULE MCSensors -----------------------------
(* bmp388_init is the client of Bmp3: no other assigns or selects settings.*)
EXTENDS Sensors, Coeffs

MCProfiles   == {}
MCSelections == {SettingsSel}

(* Coeffs against its reference, in a word of 7 bits and over every nibble.*)
ASSUME CoeffsExact ==
  /\ \A half \in {1, 2, 4, 8, 16, 32} : \A raw \in 0 .. 2 * half - 1 :
       getTwosComplement(raw, half, 128) = Meant(raw, half)
  /\ \A r, s \in {k * 17 : k \in 0 .. 240} :
       LET b == Packed12(r, s) IN C0(b[1], b[2]) = r /\ C1(b[2], b[3]) = s
  /\ \A r, s \in {k * 4369 : k \in 0 .. 240} :
       LET b == Packed20(r, s)
       IN  C00(b[1], b[2], b[3]) = r /\ C10(b[3], b[4], b[5]) = s
=============================================================================
