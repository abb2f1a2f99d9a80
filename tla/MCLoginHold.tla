------------------------------ MODULE MCLoginHold ------------------------------
(* LoginHold with the times of the code in steps of 2.5 s, those that a     *)
(* step does not divide rounded up.                                        *)
EXTENDS LoginHold

MCPatience == 12
MCReadTimeout == 2
MCBeatInterval == 4
MCReadyTimeout == 6
===============================================================================
