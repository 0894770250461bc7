---------------------------- MODULE MCBmp3Fifo ----------------------------
EXTENDS Bmp3Fifo

MCProfiles   == {p \in Settings : p.press # p.temp}
MCSelections == {Fields, {"time", "others"}}
=============================================================================
