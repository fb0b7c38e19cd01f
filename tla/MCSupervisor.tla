----------------------------- MODULE MCSupervisor -----------------------------
(* Supervisor as TLC checks it: the configurations give the bounds.         *)
EXTENDS Supervisor
==============================================================================
