------------------------------- MODULE Machine -------------------------------
(***************************************************************************)
(* The recording state machine of ghostty-voice-core (machine.rs): a pure  *)
(* function from the observable state and a command to the next state and  *)
(* the side effect the daemon must carry out.  status and register-sink    *)
(* are answered at the connection and never get here.                      *)
(***************************************************************************)

NotReady == {"downloading", "loading"}

\* The recorder is free; no code puts the daemon in "transcribing".
Free == {"idle", "transcribing"}

State == NotReady \cup Free \cup {"recording", "streaming"}

Command == {"toggle", "vad", "continuous", "streaming", "cancel", "reload",
            "replay-last"}

StartOf == [toggle |-> "StartRecording", vad |-> "StartVadRecording",
            continuous |-> "StartContinuous", streaming |-> "StartStreaming"]

Transition(next, action) == [next |-> next, action |-> action]

\* Whatever is not listed is answered, or refused, without any effect.
Apply(s, command) ==
  CASE s \in Free /\ command \in DOMAIN StartOf ->
         Transition(IF command = "streaming" THEN "streaming" ELSE "recording",
                    StartOf[command])
    [] s = "recording" /\ command = "toggle" -> Transition("idle", "StopAndEnqueue")
    [] s = "recording" /\ command = "cancel" -> Transition("idle", "DiscardRecording")
    [] s = "streaming" /\ command = "toggle" -> Transition("idle", "StopStreaming")
    [] s = "streaming" /\ command = "cancel" -> Transition("idle", "DiscardStreaming")
    [] s \notin NotReady /\ command = "reload" -> Transition(s, "ReloadConfig")
    [] s \notin NotReady /\ command = "replay-last" -> Transition(s, "ReplayLast")
    [] OTHER -> Transition(s, "None")

=============================================================================
