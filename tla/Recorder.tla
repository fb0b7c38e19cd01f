------------------------------- MODULE Recorder -------------------------------
(***************************************************************************)
(* The captures of ghostty-voiced (main.rs): the commands that start and   *)
(* end them, the tasks that end them on their own (time caps, the VAD      *)
(* watcher, the drivers of continuous and streaming sessions) and the      *)
(* supervisor, which writes the same observable state.                     *)
(*                                                                         *)
(* Every critical section of the daemon mutex is one action.  A capture is *)
(* named by the order of its start, and the name doubles as the generation *)
(* of its session: generations are only ever compared for equality, and    *)
(* each session has its own.  What becomes of a capture's text is the      *)
(* business of Delivery.                                                   *)
(***************************************************************************)
EXTENDS Integers, Sequences, Machine

CONSTANTS
  Commands,        \* the commands the clients send
  MaxCaptures,     \* bound: captures started in one behaviour
  WhisperMayDie    \* can whisper-server exit?

ASSUME CommandsAssumption == Commands \subseteq Command
ASSUME CapturesAssumption == MaxCaptures \in Nat
ASSUME WhisperAssumption == WhisperMayDie \in BOOLEAN

Capture == 1 .. MaxCaptures
None    == 0

VARIABLES
  state,        \* Daemon::state
  phase,        \* where supervise is
  recorder,     \* Daemon::recorder, the capture of the child
  wav,          \* Daemon::current_wav, the capture it belongs to
  continuous,   \* Daemon::continuous
  streaming,    \* Daemon::streaming
  started,      \* captures started so far
  mode,         \* how each was started
  mic,          \* its pw-record or sox process
  caps,         \* captures whose time cap is armed
  task,         \* its watcher or driver task
  finalizers,   \* captures a spawned finalize_streaming is for
  cause,        \* history: captures with a reason to end
  ends          \* history: how each capture ended, oldest first

handles == <<recorder, wav, continuous, streaming>>
tasks   == <<caps, task, finalizers>>
capture == <<started, mode, mic, cause, ends>>
vars    == <<state, phase, handles, tasks, capture>>

-----------------------------------------------------------------------------
Init ==
  /\ state = "loading"
  /\ phase = "start"
  /\ recorder = None /\ wav = None /\ continuous = None /\ streaming = None
  /\ started = 0
  /\ mode = [c \in Capture |-> "none"]
  /\ mic = [c \in Capture |-> "off"]
  /\ caps = {}
  /\ task = [c \in Capture |-> "none"]
  /\ finalizers = {}
  /\ cause = {}
  /\ ends = [c \in Capture |-> <<>>]

\* The state machine answers some command with this side effect, done in the
\* same critical section as the change of state.
Performs(action) ==
  \E command \in Commands :
    LET transition == Apply(state, command) IN
      transition.action = action /\ state' = transition.next

\* A new child process records for a new capture.
Start(kind) ==
  /\ started < MaxCaptures
  /\ started' = started + 1
  /\ mode' = [mode EXCEPT ![started'] = kind]
  /\ mic' = [mic EXCEPT ![started'] = "on"]
  /\ UNCHANGED <<cause, ends>>

\* stop_recorder, SIGINT and wait, on the children of these captures.
Stop(captures) ==
  mic' = [c \in Capture |-> IF c \in captures THEN "off" ELSE mic[c]]

End(captures, how) ==
  ends' = [c \in Capture |->
             IF c \in captures THEN Append(ends[c], how) ELSE ends[c]]

Blame(captures) == cause' = cause \cup (captures \cap Capture)

\* stop_and_enqueue: whatever recording there is, is stopped and enqueued.
Enqueue ==
  /\ recorder' = None
  /\ wav' = None
  /\ Stop({recorder})
  /\ End({wav}, "enqueued")

-----------------------------------------------------------------------------
(* Commands *)

\* Mutant of StartRecording: no time cap is armed.
StartRecordingUncapped ==
  /\ Performs("StartRecording")
  /\ Start("manual")
  /\ recorder' = started'
  /\ wav' = started'
  /\ UNCHANGED <<phase, continuous, streaming, tasks>>

\* A child that is still in recorder is overwritten, not stopped.
StartRecording ==
  /\ Performs("StartRecording")
  /\ Start("manual")
  /\ recorder' = started'
  /\ wav' = started'
  /\ caps' = caps \cup {started'}
  /\ UNCHANGED <<phase, continuous, streaming, task, finalizers>>

\* The same with a silence-stopped sox and a task that watches for its exit.
StartVadRecording ==
  /\ Performs("StartVadRecording")
  /\ Start("vad")
  /\ recorder' = started'
  /\ wav' = started'
  /\ caps' = caps \cup {started'}
  /\ task' = [task EXCEPT ![started'] = "polling"]
  /\ UNCHANGED <<phase, continuous, streaming, finalizers>>

\* start_continuous: a session that is still there is replaced.
StartContinuous ==
  /\ Performs("StartContinuous")
  /\ Start("continuous")
  /\ continuous' = started'
  /\ task' = [task EXCEPT ![started'] = "polling"]
  /\ UNCHANGED <<phase, recorder, wav, streaming, caps, finalizers>>

\* start_streaming: refused, with the state left alone, while anything records.
StartStreaming ==
  /\ Performs("StartStreaming")
  /\ streaming = None /\ recorder = None /\ continuous = None
  /\ Start("streaming")
  /\ streaming' = started'
  /\ caps' = caps \cup {started'}
  /\ task' = [task EXCEPT ![started'] = "polling"]
  /\ UNCHANGED <<phase, recorder, wav, continuous, finalizers>>

StopAndEnqueue ==
  /\ Performs("StopAndEnqueue")
  /\ Enqueue
  /\ Blame({wav})
  /\ UNCHANGED <<phase, continuous, streaming, tasks, started, mode>>

\* cancel takes the continuous session and the recording, whichever there is.
DiscardRecording ==
  /\ Performs("DiscardRecording")
  /\ continuous' = None
  /\ recorder' = None
  /\ wav' = None
  /\ Stop({continuous, recorder})
  /\ End({continuous, wav}, "discarded")
  /\ Blame({continuous, wav})
  /\ UNCHANGED <<phase, streaming, tasks, started, mode>>

\* The state says idle at once; the session ends in a task of its own.
StopStreaming ==
  /\ Performs("StopStreaming")
  /\ finalizers' = finalizers \cup ({streaming} \cap Capture)
  /\ Blame({streaming})
  /\ UNCHANGED <<phase, handles, caps, task, started, mode, mic, ends>>

\* discard_streaming.
DiscardStreaming ==
  /\ Performs("DiscardStreaming")
  /\ streaming' = None
  /\ Stop({streaming})
  /\ End({streaming}, "discarded")
  /\ Blame({streaming})
  /\ UNCHANGED <<phase, recorder, wav, continuous, tasks, started, mode>>

-----------------------------------------------------------------------------
(* The tasks of a capture *)

\* Mutant of RecordingCap: the state keeps saying that a recording runs.
RecordingCapSilent(c) ==
  /\ c \in caps /\ mode[c] \in {"manual", "vad"}
  /\ caps' = caps \ {c}
  /\ Blame({c})
  /\ IF recorder # None THEN Enqueue ELSE UNCHANGED <<recorder, wav, mic, ends>>
  /\ UNCHANGED <<state, phase, continuous, streaming, task, finalizers, started,
                 mode>>

\* arm_recording_cap: whatever is being recorded when the time of c is up is
\* stopped and enqueued, and the state becomes idle.
RecordingCap(c) ==
  /\ c \in caps /\ mode[c] \in {"manual", "vad"}
  /\ caps' = caps \ {c}
  /\ Blame({c})
  /\ IF recorder # None THEN Enqueue /\ state' = "idle"
                        ELSE UNCHANGED <<state, recorder, wav, mic, ends>>
  /\ UNCHANGED <<phase, continuous, streaming, task, finalizers, started, mode>>

\* watch_vad_autostop: gone with the recorder; when the current child, which
\* need not be that of c, has exited, what it recorded is enqueued.
VadPoll(c) ==
  /\ mode[c] = "vad" /\ task[c] = "polling"
  /\ \/ /\ recorder = None
        /\ UNCHANGED <<state, recorder, wav, mic, ends>>
     \/ /\ recorder # None /\ mic[recorder] = "off"
        /\ Enqueue
        /\ state' = IF wav # None THEN "idle" ELSE state
  /\ task' = [task EXCEPT ![c] = "none"]
  /\ UNCHANGED <<phase, continuous, streaming, caps, finalizers, started, mode,
                 cause>>

\* drive_streaming, the lock of the loop: superseded, or sox was seen to have
\* exited, which is acted upon after one more decode.
StreamingPoll(c) ==
  /\ mode[c] = "streaming" /\ task[c] = "polling"
  /\ \/ streaming # c /\ task' = [task EXCEPT ![c] = "none"]
     \/ streaming = c /\ mic[c] = "off" /\ task' = [task EXCEPT ![c] = "ending"]
  /\ UNCHANGED <<state, phase, handles, caps, finalizers, capture>>

\* Mutant of StreamingCap: it finalizes whatever session is there.
StreamingCapAny(c) ==
  /\ c \in caps /\ mode[c] = "streaming"
  /\ caps' = caps \ {c}
  /\ Blame({c})
  /\ finalizers' = finalizers \cup {streaming}
  /\ UNCHANGED <<state, phase, handles, task, started, mode, mic, ends>>

\* arm_streaming_cap: finalizes the session of c if it is still open.
StreamingCap(c) ==
  /\ c \in caps /\ mode[c] = "streaming"
  /\ caps' = caps \ {c}
  /\ Blame({c})
  /\ finalizers' = IF streaming = c THEN finalizers \cup {c} ELSE finalizers
  /\ UNCHANGED <<state, phase, handles, task, started, mode, mic, ends>>

\* Mutant of Finalize: the session is not taken.
FinalizeInPlace(c) ==
  IF streaming = c
  THEN /\ Stop({c})
       /\ End({c}, "finalized")
       /\ state' = IF state = "streaming" THEN "idle" ELSE state
       /\ UNCHANGED streaming
  ELSE UNCHANGED <<state, streaming, mic, ends>>

\* Mutant of Finalize: the generation is not compared.
FinalizeAny(c) ==
  IF streaming # None
  THEN /\ streaming' = None
       /\ Stop({streaming})
       /\ End({streaming}, "finalized")
       /\ state' = IF state = "streaming" THEN "idle" ELSE state
  ELSE UNCHANGED <<state, streaming, mic, ends>>

\* finalize_streaming, first lock: the session is taken by whoever is first.
Finalize(c) ==
  IF streaming = c
  THEN /\ streaming' = None
       /\ Stop({c})
       /\ End({c}, "finalized")
       /\ state' = IF state = "streaming" THEN "idle" ELSE state
  ELSE UNCHANGED <<state, streaming, mic, ends>>

\* Called by the driver of c itself.
DriverFinalizes(c) ==
  /\ mode[c] = "streaming" /\ task[c] = "ending"
  /\ Finalize(c)
  /\ task' = [task EXCEPT ![c] = "none"]
  /\ UNCHANGED <<phase, recorder, wav, continuous, caps, finalizers, started,
                 mode, cause>>

\* Spawned by a force-stop, or called by the cap.
FinalizerRuns(c) ==
  /\ c \in finalizers
  /\ finalizers' = finalizers \ {c}
  /\ Finalize(c)
  /\ UNCHANGED <<phase, recorder, wav, continuous, caps, task, started, mode,
                 cause>>

\* drive_continuous: superseded, or it decides under the lock that the session
\* is over (sox is gone and its clips are done, or a long silence).  Or it panics
\* on the words of a clip, and the session stays with nobody to end it.
ContinuousPoll(c) ==
  /\ mode[c] = "continuous" /\ task[c] = "polling"
  /\ \/ /\ continuous # c
        /\ task' = [task EXCEPT ![c] = "none"]
        /\ UNCHANGED cause
     \/ /\ continuous = c
        /\ task' = [task EXCEPT ![c] = "ending"]
        /\ Blame({c})
     \/ /\ continuous = c
        /\ task' = [task EXCEPT ![c] = "none"]
        /\ UNCHANGED cause
  /\ UNCHANGED <<state, phase, handles, caps, finalizers, started, mode, mic,
                 ends>>

\* end_continuous, first lock.
EndContinuous(c) ==
  /\ mode[c] = "continuous" /\ task[c] = "ending"
  /\ task' = [task EXCEPT ![c] = "none"]
  /\ IF continuous = c
     THEN /\ continuous' = None
          /\ Stop({c})
          /\ End({c}, "assembled")
          /\ state' = IF state = "recording" THEN "idle" ELSE state
     ELSE UNCHANGED <<state, continuous, mic, ends>>
  /\ UNCHANGED <<phase, recorder, wav, streaming, caps, finalizers, started,
                 mode, cause>>

\* The child of c exits by itself: sox on a silence, either on an error.
MicExits(c) ==
  /\ mic[c] = "on"
  /\ Stop({c})
  /\ Blame({c})
  /\ UNCHANGED <<state, phase, handles, tasks, started, mode, ends>>

-----------------------------------------------------------------------------
(* The supervisor *)

\* ensure_model_present: the model is on disk, or it is downloaded.
FindModel ==
  /\ phase = "start"
  /\ \/ phase' = "spawning" /\ UNCHANGED state
     \/ phase' = "fetching" /\ state' = "downloading"
  /\ UNCHANGED <<handles, tasks, capture>>

\* The download leaves the state alone: it stays downloading until a probe.
DownloadDone ==
  /\ phase = "fetching"
  /\ phase' = "spawning"
  /\ UNCHANGED <<state, handles, tasks, capture>>

\* probe_ready: whisper-server answers, and the state becomes idle.
WhisperReady ==
  /\ phase = "spawning"
  /\ phase' = "ready"
  /\ state' = "idle"
  /\ UNCHANGED <<handles, tasks, capture>>

\* probe_ready gives up and the supervisor just waits for the exit.
ProbeGivesUp ==
  /\ WhisperMayDie
  /\ phase = "spawning"
  /\ phase' = "unprobed"
  /\ UNCHANGED <<state, handles, tasks, capture>>

\* wait_for_exit returns: loading, whatever is being recorded.
WhisperDied ==
  /\ WhisperMayDie
  /\ phase \in {"ready", "unprobed"}
  /\ phase' = "spawning"
  /\ state' = "loading"
  /\ UNCHANGED <<handles, tasks, capture>>

-----------------------------------------------------------------------------
UserStep ==
  \/ StartRecording \/ StartVadRecording \/ StartContinuous \/ StartStreaming
  \/ StopAndEnqueue \/ DiscardRecording \/ StopStreaming \/ DiscardStreaming

\* What the tasks of capture c do.
CaptureStep(c) ==
  \/ RecordingCap(c) \/ VadPoll(c)
  \/ StreamingPoll(c) \/ StreamingCap(c) \/ DriverFinalizes(c) \/ FinalizerRuns(c)
  \/ ContinuousPoll(c) \/ EndContinuous(c)

Supervise ==
  FindModel \/ DownloadDone \/ WhisperReady \/ ProbeGivesUp \/ WhisperDied

\* Bound: no capture is left to start and none has anything left to do.
Exhausted ==
  /\ started = MaxCaptures
  /\ phase = "ready"
  /\ \A c \in Capture : task[c] = "none" /\ mic[c] = "off"
  /\ caps = {} /\ finalizers = {}
  /\ UNCHANGED vars

Next ==
  \/ UserStep
  \/ \E c \in Capture : CaptureStep(c) \/ MicExits(c)
  \/ Supervise
  \/ Exhausted

Spec == Init /\ [][Next]_vars

\* Timers fire and spawned tasks run; nobody has to press a key, no child has to
\* exit and whisper-server owes nothing.
FairSpec == Spec /\ \A c \in Capture : WF_vars(CaptureStep(c))

-----------------------------------------------------------------------------
(* Properties *)

\* Every variable holds a value of the kind the code gives it.
TypeOK ==
  /\ state \in State
  /\ phase \in {"start", "fetching", "spawning", "ready", "unprobed"}
  /\ started \in 0 .. MaxCaptures
  /\ {recorder, wav, continuous, streaming} \subseteq 0 .. started
  /\ mode \in [Capture -> {"none", "manual", "vad", "continuous", "streaming"}]
  /\ mic \in [Capture -> {"off", "on"}]
  /\ caps \subseteq Capture
  /\ task \in [Capture -> {"none", "polling", "ending"}]
  /\ finalizers \subseteq Capture
  /\ cause \subseteq Capture
  /\ ends \in [Capture -> Seq({"enqueued", "discarded", "finalized", "assembled"})]

\* The status never announces a capture that is not there, whichever of the
\* user, the caps, the watchers and the supervisor wrote the state last.
NoPhantomCapture ==
  /\ state = "recording" => wav # None \/ continuous # None
  /\ state = "streaming" => streaming # None

\* A recording in progress has its file: enqueueing it never loses the speech.
RecorderHasWav == recorder # None => wav = recorder

\* A capture is consumed at most once, however its stop, its cancel, its cap,
\* its watcher and its driver race for it, and never while it is still held.
ConsumedOnce ==
  \A c \in Capture :
    /\ Len(ends[c]) <= 1
    /\ c \in {wav, continuous, streaming} => ends[c] = <<>>

SessionModes == {"continuous", "streaming"}

\* A session ends only for a reason of its own: a command, its own cap, its own
\* silence; the leftover tasks of earlier sessions never end a newer one.
SessionsEndForCause ==
  \A c \in Capture : mode[c] \in SessionModes /\ ends[c] # <<>> => c \in cause

\* A capture is consumed, and its child is gone.
Ended(c) == ends[c] # <<>> /\ mic[c] = "off"

\* The caps backstop a capture that nobody stops and that never falls silent,
\* whatever else is recorded meanwhile: it is consumed, and its microphone is off.
\* The one exception is a recording that a later one has overwritten: after
\* whisper-server died and came back, or after a session that was toggled to idle
\* ended during the recording, the state allows another start, and the handle of
\* the child is gone.
EveryCaptureEnds ==
  \A c \in Capture :
    /\ recorder = c ~> Ended(c) \/ recorder > c
    /\ streaming = c ~> Ended(c)

=============================================================================
