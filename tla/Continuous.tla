------------------------------ MODULE Continuous ------------------------------
(***************************************************************************)
(* The driver of a continuous session: sox sprays numbered clips into the  *)
(* session's directory, the driver counts the files it finds there, has    *)
(* the finalized ones transcribed in order, removes them, and decides when *)
(* the session is over.  Recorder has the other captures that share the    *)
(* observable state; delivery proper is Delivery's.                        *)
(***************************************************************************)
EXTENDS Integers, Sequences, FiniteSets, Machine

\* Bounds: one entry for each session that is ever started, the number of
\* clips that its sox opens.
CONSTANT Clips

ASSUME ContinuousAssumption == Clips \in Seq(Nat) /\ Clips # <<>>

Session == 1..Len(Clips)
Clip == UNION {1..Clips[s] : s \in Session}
None == 0

VARIABLES
    state,       \* the observable State, as far as these sessions write it
    continuous,  \* Daemon.continuous: a session, or None
    started,     \* sessions started so far
    sox,         \* the child of each session
    opened,      \* how many clip files it has opened; the last is being written
    files,       \* the clips whose files are in the session's directory
    pc,          \* where drive_continuous of each session is
    running,     \* its sox_running, as of the lock at the top of the loop
    present,     \* its present and last_present: the last look at the directory
    progress,    \* its made_progress
    transcribed, \* its transcribed
    text,        \* its Session: the clips whose words will be assembled
    quiet,       \* session_end_silence has passed since last_progress
    delivered,   \* sessions whose text entered the queue, in order
    cancelled,   \* history: sessions that cancel discarded
    replaced,    \* history: sessions whose handle a later start overwrote
    counted      \* history: opened at the last look at the directory

handleVars == <<state, continuous, started>>
soxVars == <<sox, opened>>
localVars == <<running, present, progress, transcribed, text, counted>>
histVars == <<cancelled, replaced>>
vars == <<handleVars, soxVars, files, pc, localVars, quiet, delivered, histVars>>

\* Every variable holds a value of the kind the code gives it.
TypeOK ==
    /\ state \in {"idle", "recording"}
    /\ continuous \in Session \cup {None}
    /\ started \in 0..Len(Clips)
    /\ sox \in [Session -> {"none", "on", "off"}]
    /\ opened \in [Session -> {0} \cup Clip]
    /\ files \in [Session -> SUBSET Clip]
    /\ pc \in [Session -> {"none", "poll", "count", "clips", "mark", "decide",
                           "ending", "deliver", "done"}]
    /\ running \in [Session -> BOOLEAN]
    /\ present \in [Session -> {0} \cup Clip]
    /\ progress \in [Session -> BOOLEAN]
    /\ transcribed \in [Session -> {0} \cup Clip]
    /\ text \in [Session -> Seq(Clip)]
    /\ quiet \in [Session -> BOOLEAN]
    /\ delivered \in Seq(Session)
    /\ cancelled \subseteq Session /\ replaced \subseteq Session
    /\ counted \in [Session -> {0} \cup Clip]

Each(value) == [s \in Session |-> value]

Init ==
    /\ state = "idle" /\ continuous = None /\ started = 0
    /\ sox = Each("none") /\ opened = Each(0)
    /\ files = Each({})
    /\ pc = Each("none")
    /\ running = Each(FALSE) /\ present = Each(0)
    /\ progress = Each(FALSE) /\ transcribed = Each(0) /\ text = Each(<<>>)
    /\ quiet = Each(FALSE)
    /\ delivered = <<>>
    /\ cancelled = {} /\ replaced = {} /\ counted = Each(0)

------------------------------------------------------------------------------
(* Commands, one critical section each. *)

Performs(command, action) ==
    LET transition == Apply(state, command) IN
        transition.action = action /\ state' = transition.next

\* start_continuous: a fresh directory, a sox child and a driver.  A session
\* that is still there is overwritten, its child neither stopped nor known.
StartContinuous ==
    /\ Performs("continuous", "StartContinuous")
    /\ started < Len(Clips)
    /\ started' = started + 1
    /\ continuous' = started'
    /\ replaced' = replaced \cup ({continuous} \cap Session)
    /\ sox' = [sox EXCEPT ![started'] = "on"]
    /\ pc' = [pc EXCEPT ![started'] = "poll"]
    /\ UNCHANGED <<opened, files, localVars, quiet, delivered, cancelled>>

\* A toggle during a session: stop_and_enqueue finds no recording and returns,
\* after the state has gone to idle.
StopAndEnqueue ==
    /\ Performs("toggle", "StopAndEnqueue")
    /\ UNCHANGED <<continuous, started, soxVars, files, pc, localVars, quiet,
                   delivered, histVars>>

\* Mutant of DiscardRecording: the session's child records on.
DiscardRecordingLeavingSox ==
    /\ Performs("cancel", "DiscardRecording")
    /\ continuous' = None
    /\ files' = [s \in Session |-> IF s = continuous THEN {} ELSE files[s]]
    /\ cancelled' = cancelled \cup ({continuous} \cap Session)
    /\ UNCHANGED <<started, soxVars, pc, localVars, quiet, delivered, replaced>>

\* cancel: sox is stopped, the directory removed, the driver left to find out.
DiscardRecording ==
    /\ Performs("cancel", "DiscardRecording")
    /\ continuous' = None
    /\ sox' = [s \in Session |-> IF s = continuous THEN "off" ELSE sox[s]]
    /\ files' = [s \in Session |-> IF s = continuous THEN {} ELSE files[s]]
    /\ cancelled' = cancelled \cup ({continuous} \cap Session)
    /\ UNCHANGED <<started, opened, pc, localVars, quiet, delivered, replaced>>

------------------------------------------------------------------------------
(* sox and time. *)

\* A pause closes the clip being written, if any, and speech opens the next.
\* Nobody looks at the clips of a session whose driver is gone.
OpenClip(s) ==
    /\ sox[s] = "on" /\ opened[s] < Clips[s] /\ pc[s] # "done"
    /\ opened' = [opened EXCEPT ![s] = @ + 1]
    /\ files' = [files EXCEPT ![s] = @ \cup {opened'[s]}]
    /\ UNCHANGED <<handleVars, sox, pc, localVars, quiet, delivered, histVars>>

\* It flushes the clip being written and ends, for a reason of its own.
SoxExits(s) ==
    /\ sox[s] = "on"
    /\ sox' = [sox EXCEPT ![s] = "off"]
    /\ UNCHANGED <<handleVars, opened, files, pc, localVars, quiet,
                   delivered, histVars>>

SilenceElapses(s) ==
    /\ continuous = s /\ ~quiet[s] /\ pc[s] # "done"
    /\ quiet' = [quiet EXCEPT ![s] = TRUE]
    /\ UNCHANGED <<handleVars, soxVars, files, pc, localVars, delivered, histVars>>

------------------------------------------------------------------------------
(* drive_continuous *)

At(s, here) == pc[s] = here
Goto(s, there) == pc' = [pc EXCEPT ![s] = there]

\* A round of the loop is over, and with it the variables of its body.
EndRound(s) ==
    /\ running' = [running EXCEPT ![s] = FALSE]
    /\ progress' = [progress EXCEPT ![s] = FALSE]
    /\ counted' = [counted EXCEPT ![s] = 0]

\* The driver returns, and all its variables are no more.
Return(s) ==
    /\ Goto(s, "done")
    /\ EndRound(s)
    /\ present' = [present EXCEPT ![s] = 0]
    /\ transcribed' = [transcribed EXCEPT ![s] = 0]
    /\ text' = [text EXCEPT ![s] = <<>>]
    /\ quiet' = [quiet EXCEPT ![s] = FALSE]
OutsideDriver == UNCHANGED <<handleVars, soxVars, delivered, histVars>>

\* The lock at the top of the loop; a driver that lost its session returns.
Poll(s) ==
    /\ At(s, "poll")
    /\ \/ /\ continuous = s
          /\ Goto(s, "count")
          /\ running' = [running EXCEPT ![s] = sox[s] = "on"]
          /\ UNCHANGED <<present, progress, transcribed, text,
                         counted, quiet>>
       \/ continuous # s /\ Return(s)
    /\ OutsideDriver /\ UNCHANGED files

\* present_clip_count and, next to it, made_progress.
Count(s) ==
    /\ At(s, "count")
    /\ Goto(s, "clips")
    /\ present' = [present EXCEPT ![s] = Cardinality(files[s])]
    /\ progress' = [progress EXCEPT ![s] = present'[s] > present[s]]
    /\ counted' = [counted EXCEPT ![s] = opened[s]]
    /\ OutsideDriver
    /\ UNCHANGED <<files, running, transcribed, text, quiet>>

\* Mutant of Finalized: the clip being written counts as complete.
FinalizedAll(s) == present[s]

\* Mutant of Finalized: one clip too few while sox runs.
FinalizedTooFew(s) ==
    IF running[s] THEN (IF present[s] < 2 THEN 0 ELSE present[s] - 2)
    ELSE present[s]

\* Mutant of Finalized: a clip that has not been opened yet is included.
FinalizedOneMore(s) == present[s] + 1

\* finalized_clip_count: while sox runs the newest clip is still being written.
Finalized(s) ==
    IF running[s] THEN (IF present[s] = 0 THEN 0 ELSE present[s] - 1)
    ELSE present[s]

\* Mutant of TranscribeClip: the last words are pushed again for an empty clip.
TranscribeClipAgain(s) ==
    LET clip == transcribed[s] + 1 IN
    /\ At(s, "clips") /\ transcribed[s] < Finalized(s)
    /\ \/ clip \in files[s] /\ text' = [text EXCEPT ![s] = Append(@, clip)]
       \/ text' = [text EXCEPT ![s] = IF @ = <<>> THEN @ ELSE Append(@, @[Len(@)])]
    /\ files' = [files EXCEPT ![s] = @ \ {clip}]
    /\ transcribed' = [transcribed EXCEPT ![s] = clip]
    /\ progress' = [progress EXCEPT ![s] = TRUE]
    /\ OutsideDriver
    /\ UNCHANGED <<pc, running, present, counted, quiet>>

\* One clip: clip_path and transcribe_clip, which retries while the server is
\* down, and push_clip.  A clip that is missing or too short, that fails past
\* the retry window or that the filters empty leaves no words, and its file goes;
\* an answer that is no transcript, or a request that panics, leaves the file too.
TranscribeClip(s) ==
    LET clip == transcribed[s] + 1 IN
    /\ At(s, "clips") /\ transcribed[s] < Finalized(s)
    /\ \/ /\ clip \in files[s] /\ text' = [text EXCEPT ![s] = Append(@, clip)]
          /\ files' = [files EXCEPT ![s] = @ \ {clip}]
       \/ /\ UNCHANGED text
          /\ files' \in {files, [files EXCEPT ![s] = @ \ {clip}]}
    /\ transcribed' = [transcribed EXCEPT ![s] = clip]
    /\ progress' = [progress EXCEPT ![s] = TRUE]
    /\ OutsideDriver
    /\ UNCHANGED <<pc, running, present, counted, quiet>>

\* finalize_transcript panics on the words of the clip: the driver is no more,
\* while its session is still there, with its sox and its directory.
DriverPanics(s) ==
    /\ At(s, "clips") /\ transcribed[s] < Finalized(s)
    /\ transcribed[s] + 1 \in files[s]
    /\ Return(s)
    /\ OutsideDriver /\ UNCHANGED files

ClipsDone(s) ==
    /\ At(s, "clips") /\ transcribed[s] >= Finalized(s)
    /\ Goto(s, IF progress[s] THEN "mark" ELSE "decide")
    /\ OutsideDriver /\ UNCHANGED <<files, localVars, quiet>>

\* last_progress is now, if the session is still there.
Mark(s) ==
    /\ At(s, "mark")
    /\ Goto(s, "decide")
    /\ quiet' = [quiet EXCEPT ![s] = @ /\ continuous # s]
    /\ OutsideDriver /\ UNCHANGED <<files, localVars>>

\* Mutant of ShouldEnd: only the end of sox ends a session.
ShouldEndWithSox(s) == ~running[s] /\ transcribed[s] >= present[s]

ShouldEnd(s) ==
    \/ ~running[s] /\ transcribed[s] >= present[s]
    \/ quiet[s] /\ transcribed[s] >= Finalized(s)

Decide(s) ==
    /\ At(s, "decide")
    /\ \/ /\ continuous = s
          /\ \/ ShouldEnd(s) /\ Goto(s, "ending") /\ UNCHANGED <<running, progress, counted>>
             \/ ~ShouldEnd(s) /\ Goto(s, "poll") /\ EndRound(s)
          /\ UNCHANGED <<present, transcribed, text, quiet>>
       \/ continuous # s /\ Return(s)
    /\ OutsideDriver /\ UNCHANGED files

\* end_continuous, its first lock.
EndContinuous(s) ==
    /\ At(s, "ending")
    /\ \/ /\ continuous = s
          /\ Goto(s, "deliver")
          /\ continuous' = None
          /\ sox' = [sox EXCEPT ![s] = "off"]
          /\ state' = IF state = "recording" THEN "idle" ELSE state
          /\ UNCHANGED <<localVars, quiet>>
       \/ continuous # s /\ Return(s) /\ UNCHANGED <<continuous, sox, state>>
    /\ UNCHANGED <<started, opened, files, delivered, histVars>>

\* The directory is removed; a text is enqueued, ready, under the second lock.
Deliver(s) ==
    /\ At(s, "deliver")
    /\ files' = [files EXCEPT ![s] = {}]
    /\ delivered' = IF text[s] = <<>> THEN delivered ELSE Append(delivered, s)
    /\ Return(s)
    /\ UNCHANGED <<handleVars, soxVars, histVars>>

Driver(s) ==
    \/ Poll(s) \/ Count(s) \/ TranscribeClip(s) \/ DriverPanics(s) \/ ClipsDone(s)
    \/ Mark(s) \/ Decide(s) \/ EndContinuous(s) \/ Deliver(s)

Next ==
    \/ StartContinuous \/ StopAndEnqueue \/ DiscardRecording
    \/ \E s \in Session : OpenClip(s) \/ SoxExits(s) \/ SilenceElapses(s) \/ Driver(s)

\* The driver's task is scheduled and time passes; sox and the user owe nothing.
Spec == Init /\ [][Next]_vars
        /\ \A s \in Session : WF_vars(Driver(s)) /\ WF_vars(SilenceElapses(s))

------------------------------------------------------------------------------
(* Properties *)

\* The session is there, and so is its driver.
Driven(s) == continuous = s /\ pc[s] # "done"

\* Clips that sox has closed.
Complete(s) == IF sox[s] = "on" THEN 1..(opened[s] - 1) ELSE 1..opened[s]

\* The clip that goes to whisper next is complete, although the count it is
\* taken from was made earlier and of a directory that loses files meanwhile.
OnlyCompleteClips ==
    \A s \in Session : At(s, "clips") /\ transcribed[s] < Finalized(s)
                           => transcribed[s] + 1 \in Complete(s)

\* What is assembled is in record order, no clip twice, and only of clips that
\* were transcribed; while the driver is at work every clip still to come is in
\* the directory, whatever it removes there and whatever it leaves behind.  And a
\* session is delivered at most once, and never after it was cancelled.
AssembledInOrder ==
    /\ \A s \in Session :
        /\ \A i \in 1..Len(text[s]) :
               /\ text[s][i] \in 1..transcribed[s]
               /\ i > 1 => text[s][i - 1] < text[s][i]
        /\ Driven(s) => (transcribed[s] + 1)..opened[s] \subseteq files[s]
    /\ \A i \in DOMAIN delivered :
        /\ delivered[i] \notin cancelled
        /\ \A j \in DOMAIN delivered : delivered[i] = delivered[j] => i = j

\* A session that is over leaves neither a recording sox nor clips behind,
\* unless another start had replaced its handle: then both stay.
NothingLeftRunning ==
    \A s \in Session \ replaced :
        At(s, "done") /\ continuous # s => sox[s] # "on" /\ files[s] = {}

\* Counting a directory from which it removes files, the driver stops when half
\* of what had been opened is transcribed, give or take the clip being written;
\* a cancel, which removes the directory, aside.
HalfIsTranscribed ==
    \A s \in Session \ cancelled : pc[s] \in {"mark", "decide", "ending", "deliver"}
                           => counted[s] <= 2 * transcribed[s] + 1

\* A session ends once nothing new is said, whatever the user does not do, unless
\* its driver panicked: then the session is there until somebody acts.
SessionEnds == \A s \in Session : continuous = s ~> ~Driven(s)

\* The comment on drive_continuous: any remaining clips are transcribed before
\* the assembled transcript is delivered.  Here at least those that were complete
\* when the driver last looked, if it has begun with the session's clips.
EveryClipAssembled ==
    \A s \in Session : At(s, "deliver") /\ transcribed[s] > 0
                           => counted[s] - 1 <= transcribed[s]
==============================================================================
