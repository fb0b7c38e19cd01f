------------------------------ MODULE MCRecorder ------------------------------
(* Recorder as TLC checks it: the configurations give the bounds.           *)
EXTENDS Recorder
=============================================================================
