----------------------------- MODULE MCContinuous -----------------------------
(* Continuous as TLC checks it: the configurations give the bounds.         *)
EXTENDS Continuous

ThreeThenOne == <<3, 1>>
Four == <<4>>
==============================================================================
