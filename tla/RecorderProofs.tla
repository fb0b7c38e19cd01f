---------------------------- MODULE RecorderProofs ----------------------------
(***************************************************************************)
(* The safety properties of Recorder, for any number of captures and any   *)
(* commands.                                                               *)
(***************************************************************************)
EXTENDS Recorder, TLAPS, SequenceTheorems

\* A handle holds a capture of its own kind.
HandlesKeepKind ==
  /\ wav # None => mode[wav] \in {"manual", "vad"}
  /\ continuous # None => mode[continuous] = "continuous"
  /\ streaming # None => mode[streaming] = "streaming"

\* What has not been started has not ended.
Unborn == \A c \in Capture : c > started => ends[c] = <<>>

\* Whatever is about to end a session, its silence included, is a cause.
EndersHaveCause ==
  /\ finalizers \subseteq cause
  /\ \A c \in Capture : task[c] = "ending" => c \in cause
  /\ streaming # None /\ mic[streaming] = "off" => streaming \in cause

CInv ==
  /\ TypeOK
  /\ NoPhantomCapture
  /\ RecorderHasWav
  /\ ConsumedOnce
  /\ SessionsEndForCause
  /\ HandlesKeepKind
  /\ Unborn
  /\ EndersHaveCause

How == {"enqueued", "discarded", "finalized", "assembled"}

USE CommandsAssumption, CapturesAssumption, WhisperAssumption

-----------------------------------------------------------------------------
(* What the state machine and the helpers do *)

\* apply (machine.rs) leads to the state that belongs to the side effect.
LEMMA PerformsLeadsTo ==
  ASSUME NEW action, Performs(action)
  PROVE  /\ state' \in State \/ state' = state
         /\ action \in {"StartRecording", "StartVadRecording", "StartContinuous"}
              => state' = "recording"
         /\ action = "StartStreaming" => state' = "streaming"
         /\ action \in {"StopAndEnqueue", "DiscardRecording", "StopStreaming",
                        "DiscardStreaming"} => state' = "idle"
<1>1. PICK command \in Commands :
         Apply(state, command).action = action
           /\ state' = Apply(state, command).next
  BY Zenon DEF Performs
<1>2. command \in Command
  BY <1>1
<1> QED
  BY <1>1, <1>2 DEF Apply, Transition, Command, StartOf, Free, NotReady, State

\* Ending captures keeps the history well typed.
LEMMA EndType ==
  ASSUME ends \in [Capture -> Seq(How)], NEW captures, NEW how \in How,
         End(captures, how)
  PROVE  ends' \in [Capture -> Seq(How)]
<1>1. \A c \in Capture : ends[c] \in Seq(How) /\ Append(ends[c], how) \in Seq(How)
  BY AppendProperties
<1> QED
  BY <1>1 DEF End

\* A new capture has a name that no capture had before.
LEMMA StartIsNew ==
  ASSUME CInv, NEW kind, Start(kind)
  PROVE  /\ started' \in Capture /\ started' > started /\ started' # None
         /\ ends[started'] = <<>>
         /\ recorder # started' /\ wav # started'
         /\ continuous # started' /\ streaming # started'
<1>1. started \in Nat /\ started < MaxCaptures /\ started' = started + 1
  BY DEF Start, CInv, TypeOK
<1>2. started' \in Capture /\ started' > started /\ started' # None
  BY <1>1 DEF Capture, None
<1>3. ends[started'] = <<>>
  BY <1>2 DEF CInv, Unborn
<1>4. /\ recorder \in 0 .. started /\ wav \in 0 .. started
      /\ continuous \in 0 .. started /\ streaming \in 0 .. started
  BY DEF CInv, TypeOK
<1> QED
  BY <1>1, <1>2, <1>3, <1>4

\* TypeOK without the one conjunct that sequences are in.
TypeButEnds ==
  /\ state \in State
  /\ phase \in {"start", "fetching", "spawning", "ready", "unprobed"}
  /\ started \in 0 .. MaxCaptures
  /\ recorder \in 0 .. started /\ wav \in 0 .. started
  /\ continuous \in 0 .. started /\ streaming \in 0 .. started
  /\ mode \in [Capture -> {"none", "manual", "vad", "continuous", "streaming"}]
  /\ mic \in [Capture -> {"off", "on"}]
  /\ caps \subseteq Capture
  /\ task \in [Capture -> {"none", "polling", "ending"}]
  /\ finalizers \subseteq Capture
  /\ cause \subseteq Capture

-----------------------------------------------------------------------------
(* Type correctness *)

\* Every step keeps every variable in its type.
LEMMA TypeStep ==
  ASSUME CInv, [Next]_vars
  PROVE  TypeOK'
<1> USE DEF None, Capture
<1>1. TypeButEnds /\ ends \in [Capture -> Seq(How)]
  BY DEF CInv, TypeOK, TypeButEnds, How
<1>2. SUFFICES TypeButEnds' /\ ends' \in [Capture -> Seq(How)]
  BY DEF TypeOK, TypeButEnds, How
<1> USE <1>1
<1>3. CASE StartRecording
  <2>1. state' = "recording"
    BY <1>3, PerformsLeadsTo DEF StartRecording
  <2> QED
    BY <1>3, <2>1 DEF StartRecording, Start, TypeButEnds, State, tasks
<1>4. CASE StartVadRecording
  <2>1. state' = "recording"
    BY <1>4, PerformsLeadsTo DEF StartVadRecording
  <2> QED
    BY <1>4, <2>1 DEF StartVadRecording, Start, TypeButEnds, State, tasks
<1>5. CASE StartContinuous
  <2>1. state' = "recording"
    BY <1>5, PerformsLeadsTo DEF StartContinuous
  <2> QED
    BY <1>5, <2>1 DEF StartContinuous, Start, TypeButEnds, State, tasks
<1>6. CASE StartStreaming
  <2>1. state' = "streaming"
    BY <1>6, PerformsLeadsTo DEF StartStreaming
  <2> QED
    BY <1>6, <2>1 DEF StartStreaming, Start, TypeButEnds, State, tasks
<1>7. CASE StopAndEnqueue
  <2>1. state' = "idle"
    BY <1>7, PerformsLeadsTo DEF StopAndEnqueue
  <2>2. ends' \in [Capture -> Seq(How)]
    BY <1>7, EndType DEF StopAndEnqueue, Enqueue, How
  <2>3. TypeButEnds'
    BY <1>7, <2>1
       DEF StopAndEnqueue, Enqueue, Stop, Blame, TypeButEnds, State, Free, tasks
  <2> QED
    BY <2>2, <2>3
<1>8. CASE DiscardRecording
  <2>1. state' = "idle"
    BY <1>8, PerformsLeadsTo DEF DiscardRecording
  <2>2. ends' \in [Capture -> Seq(How)]
    BY <1>8, EndType DEF DiscardRecording, How
  <2>3. TypeButEnds'
    BY <1>8, <2>1
       DEF DiscardRecording, Stop, Blame, TypeButEnds, State, Free, tasks
  <2> QED
    BY <2>2, <2>3
<1>9. CASE DiscardStreaming
  <2>1. state' = "idle"
    BY <1>9, PerformsLeadsTo DEF DiscardStreaming
  <2>2. ends' \in [Capture -> Seq(How)]
    BY <1>9, EndType DEF DiscardStreaming, How
  <2>3. TypeButEnds'
    BY <1>9, <2>1
       DEF DiscardStreaming, Stop, Blame, TypeButEnds, State, Free, tasks
  <2> QED
    BY <2>2, <2>3
<1>10. CASE StopStreaming
  <2>1. state' = "idle"
    BY <1>10, PerformsLeadsTo DEF StopStreaming
  <2> QED
    BY <1>10, <2>1 DEF StopStreaming, Blame, TypeButEnds, State, Free, handles
<1>11. CASE \E c \in Capture : RecordingCap(c)
  <2> PICK c \in Capture : RecordingCap(c)
    BY <1>11
  <2>1. ends' \in [Capture -> Seq(How)]
    BY EndType DEF RecordingCap, Enqueue, How
  <2>2. TypeButEnds'
    BY DEF RecordingCap, Enqueue, Stop, Blame, TypeButEnds, State, Free
  <2> QED
    BY <2>1, <2>2
<1>12. CASE \E c \in Capture : VadPoll(c)
  <2> PICK c \in Capture : VadPoll(c)
    BY <1>12
  <2>1. ends' \in [Capture -> Seq(How)]
    BY EndType DEF VadPoll, Enqueue, How
  <2>2. TypeButEnds'
    BY DEF VadPoll, Enqueue, Stop, TypeButEnds, State, Free
  <2> QED
    BY <2>1, <2>2
<1>13. CASE \E c \in Capture : DriverFinalizes(c)
  <2> PICK c \in Capture : DriverFinalizes(c)
    BY <1>13
  <2>1. ends' \in [Capture -> Seq(How)]
    BY EndType DEF DriverFinalizes, Finalize, How
  <2>2. TypeButEnds'
    BY DEF DriverFinalizes, Finalize, Stop, TypeButEnds, State, Free
  <2> QED
    BY <2>1, <2>2
<1>14. CASE \E c \in Capture : FinalizerRuns(c)
  <2> PICK c \in Capture : FinalizerRuns(c)
    BY <1>14
  <2>1. ends' \in [Capture -> Seq(How)]
    BY EndType DEF FinalizerRuns, Finalize, How
  <2>2. TypeButEnds'
    BY DEF FinalizerRuns, Finalize, Stop, TypeButEnds, State, Free
  <2> QED
    BY <2>1, <2>2
<1>15. CASE \E c \in Capture : EndContinuous(c)
  <2> PICK c \in Capture : EndContinuous(c)
    BY <1>15
  <2>1. ends' \in [Capture -> Seq(How)]
    BY EndType DEF EndContinuous, How
  <2>2. TypeButEnds'
    BY DEF EndContinuous, Stop, TypeButEnds, State, Free
  <2> QED
    BY <2>1, <2>2
<1>16. CASE \E c \in Capture : StreamingPoll(c)
  <2> PICK c \in Capture : StreamingPoll(c)
    BY <1>16
  <2> QED
    BY DEF StreamingPoll, TypeButEnds, handles, capture, tasks
<1>17. CASE \E c \in Capture : StreamingCap(c)
  <2> PICK c \in Capture : StreamingCap(c)
    BY <1>17
  <2> QED
    BY DEF StreamingCap, Blame, TypeButEnds, handles, capture, tasks
<1>18. CASE \E c \in Capture : ContinuousPoll(c)
  <2> PICK c \in Capture : ContinuousPoll(c)
    BY <1>18
  <2> QED
    BY DEF ContinuousPoll, Blame, TypeButEnds, handles, capture, tasks
<1>19. CASE \E c \in Capture : MicExits(c)
  <2> PICK c \in Capture : MicExits(c)
    BY <1>19
  <2> QED
    BY DEF MicExits, Blame, Stop, TypeButEnds, handles, capture, tasks
<1>20. CASE Supervise
  BY <1>20 DEF Supervise, FindModel, DownloadDone, WhisperReady, ProbeGivesUp,
            WhisperDied, TypeButEnds, State, NotReady, Free, handles, tasks,
            capture
<1>21. CASE UNCHANGED vars
  BY <1>21 DEF vars, TypeButEnds, handles, tasks, capture
<1> QED
  BY <1>3, <1>4, <1>5, <1>6, <1>7, <1>8, <1>9, <1>10, <1>11, <1>12, <1>13, <1>14, <1>15, <1>16, <1>17, <1>18, <1>19, <1>20, <1>21
     DEF Next, UserStep, CaptureStep, Exhausted

-----------------------------------------------------------------------------
(* The inductive step *)

\* A step that ends nothing and replaces nothing keeps the invariant, provided
\* that it announces no capture and what it sets on its way has a cause.
LEMMA NothingConsumed ==
  ASSUME CInv, TypeOK', UNCHANGED <<handles, started, mode, ends>>,
         state' = state \/ state' \notin {"recording", "streaming"},
         cause \subseteq cause', EndersHaveCause'
  PROVE  CInv'
<1>1. NoPhantomCapture' /\ RecorderHasWav'
  BY DEF CInv, NoPhantomCapture, RecorderHasWav, handles
<1>2. ConsumedOnce' /\ SessionsEndForCause'
  BY DEF CInv, ConsumedOnce, SessionsEndForCause, handles
<1>3. HandlesKeepKind' /\ Unborn'
  BY DEF CInv, HandlesKeepKind, Unborn, handles
<1> QED
  BY <1>1, <1>2, <1>3 DEF CInv

\* Starting a capture, of whatever kind, ends nothing.
LEMMA StartConsumesNothing ==
  ASSUME CInv, NEW kind, Start(kind),
         {recorder', wav', continuous', streaming'}
           \subseteq {recorder, wav, continuous, streaming, started'},
         wav' # wav => wav' = started',
         continuous' # continuous => continuous' = started',
         streaming' # streaming => streaming' = started'
  PROVE  ConsumedOnce' /\ SessionsEndForCause' /\ Unborn'
<1>1. /\ started' \in Capture /\ started' > started /\ started' # None
      /\ ends[started'] = <<>>
  BY StartIsNew
<1>2. started \in Nat /\ mode \in [Capture -> {"none", "manual", "vad", "continuous", "streaming"}]
  BY DEF CInv, TypeOK
<1>3. ConsumedOnce'
  BY <1>1 DEF Start, CInv, ConsumedOnce
<1>4. SessionsEndForCause'
  BY <1>1, <1>2 DEF Start, CInv, SessionsEndForCause
<1>5. Unborn'
  BY <1>1, <1>2 DEF Start, CInv, Unborn, Capture
<1> QED
  BY <1>3, <1>4, <1>5

\* What is held has not ended, and no capture is held by two handles.
LEMMA HeldOnce ==
  ASSUME CInv, NEW c \in {wav, continuous, streaming}, c # None
  PROVE  /\ c \in Capture /\ c <= started /\ ends[c] = <<>>
         /\ wav # None => wav # continuous /\ wav # streaming
         /\ continuous # None => continuous # streaming
<1>1. c \in Capture /\ c <= started
  BY DEF CInv, TypeOK, None, Capture
<1>2. ends[c] = <<>>
  BY <1>1 DEF CInv, ConsumedOnce
<1>3. /\ wav # None => wav # continuous /\ wav # streaming
      /\ continuous # None => continuous # streaming
  BY DEF CInv, HandlesKeepKind
<1> QED
  BY <1>1, <1>2, <1>3

\* The streaming session is neither recorded by the recorder nor continuous.
LEMMA HeldApart ==
  ASSUME CInv, streaming # None
  PROVE  streaming \in Capture /\ streaming # recorder /\ streaming # continuous
BY DEF CInv, TypeOK, HandlesKeepKind, RecorderHasWav, None, Capture

\* These captures, and only captures, are taken out of their handles.
Takes(captures) ==
  /\ captures \subseteq {wav, continuous, streaming, None}
  /\ wav' = None \/ (wav' = wav /\ wav \notin captures)
  /\ continuous' = None \/ (continuous' = continuous /\ continuous \notin captures)
  /\ streaming' = None \/ (streaming' = streaming /\ streaming \notin captures)

\* Captures that are taken out of their handles while they are ended, the
\* sessions among them for a cause, are consumed once.
LEMMA TakingConsumesOnce ==
  ASSUME CInv, NEW captures, NEW how \in How, End(captures, how),
         Takes(captures), UNCHANGED <<started, mode>>, cause \subseteq cause',
         \A c \in Capture \cap captures : mode[c] \in SessionModes => c \in cause'
  PROVE  ConsumedOnce' /\ Unborn' /\ SessionsEndForCause'
<1>1. started \in Nat /\ ends \in [Capture -> Seq(How)] /\ None \notin Capture
  BY DEF CInv, TypeOK, How, None, Capture
<1>2. SUFFICES ASSUME NEW c \in Capture
               PROVE  /\ Len(ends'[c]) <= 1
                      /\ c \in {wav', continuous', streaming'} => ends'[c] = <<>>
                      /\ c > started' => ends'[c] = <<>>
                      /\ mode'[c] \in SessionModes /\ ends'[c] # <<>> => c \in cause'
  BY DEF ConsumedOnce, Unborn, SessionsEndForCause
<1>3. CASE c \in captures
  <2>1. c \in {wav, continuous, streaming} /\ c # None
    BY <1>1, <1>3 DEF Takes
  <2>2. c <= started /\ ends[c] = <<>>
    BY <2>1, HeldOnce
  <2>3. c \notin {wav', continuous', streaming'}
    BY <1>1, <1>3 DEF Takes
  <2>4. ends'[c] = Append(<<>>, how)
    BY <1>3, <2>2 DEF End
  <2>5. Len(ends'[c]) = 1
    <3>1. <<>> \in Seq(How) /\ Len(<<>>) = 0
      BY EmptySeq
    <3> QED
      BY <2>4, <3>1, AppendProperties
  <2>6. ~(c > started')
    BY <1>1, <2>2 DEF Capture
  <2> QED
    BY <1>3, <2>3, <2>5, <2>6
<1>4. CASE c \notin captures
  <2>1. ends'[c] = ends[c]
    BY <1>4 DEF End
  <2>2. Len(ends[c]) <= 1
    BY DEF CInv, ConsumedOnce
  <2>3. c \in {wav', continuous', streaming'} => ends[c] = <<>>
    BY <1>1, HeldOnce DEF Takes
  <2>4. c > started' => ends[c] = <<>>
    BY DEF CInv, Unborn
  <2>5. mode'[c] \in SessionModes /\ ends[c] # <<>> => c \in cause'
    BY DEF CInv, SessionsEndForCause
  <2> QED
    BY <2>1, <2>2, <2>3, <2>4, <2>5
<1> QED
  BY <1>3, <1>4

\* Every step keeps the invariant.
LEMMA InvStep ==
  ASSUME CInv, [Next]_vars
  PROVE  CInv'
<1>1. TypeOK'
  BY TypeStep
<1> USE <1>1
<1>2. CASE StartRecording
  <2>1. Start("manual") /\ state' = "recording"
    BY <1>2, PerformsLeadsTo DEF StartRecording
  <2>2. ConsumedOnce' /\ SessionsEndForCause' /\ Unborn'
    BY <1>2, <2>1, StartConsumesNothing DEF StartRecording
  <2>3. NoPhantomCapture' /\ RecorderHasWav' /\ HandlesKeepKind'
    BY <1>2, <2>1, StartIsNew
       DEF StartRecording, Start, NoPhantomCapture, RecorderHasWav,
           HandlesKeepKind, CInv, TypeOK, Capture
  <2>4. EndersHaveCause'
    BY <1>2, <2>1, StartIsNew
       DEF StartRecording, Start, EndersHaveCause, CInv, TypeOK, Capture
  <2> QED
    BY <2>2, <2>3, <2>4 DEF CInv
<1>3. CASE StartVadRecording
  <2>1. Start("vad") /\ state' = "recording"
    BY <1>3, PerformsLeadsTo DEF StartVadRecording
  <2>2. ConsumedOnce' /\ SessionsEndForCause' /\ Unborn'
    BY <1>3, <2>1, StartConsumesNothing DEF StartVadRecording
  <2>3. NoPhantomCapture' /\ RecorderHasWav' /\ HandlesKeepKind'
    BY <1>3, <2>1, StartIsNew
       DEF StartVadRecording, Start, NoPhantomCapture, RecorderHasWav,
           HandlesKeepKind, CInv, TypeOK, Capture
  <2>4. EndersHaveCause'
    BY <1>3, <2>1, StartIsNew
       DEF StartVadRecording, Start, EndersHaveCause, CInv, TypeOK, Capture
  <2> QED
    BY <2>2, <2>3, <2>4 DEF CInv
<1>4. CASE StartContinuous
  <2>1. Start("continuous") /\ state' = "recording"
    BY <1>4, PerformsLeadsTo DEF StartContinuous
  <2>2. ConsumedOnce' /\ SessionsEndForCause' /\ Unborn'
    BY <1>4, <2>1, StartConsumesNothing DEF StartContinuous
  <2>3. NoPhantomCapture' /\ RecorderHasWav'
    BY <1>4, <2>1, StartIsNew
       DEF StartContinuous, Start, NoPhantomCapture, RecorderHasWav, CInv
  <2>4. HandlesKeepKind'
    <3>1. \A c \in Capture : c # started' => mode'[c] = mode[c]
      BY <2>1 DEF Start, CInv, TypeOK
    <3>2. mode'[started'] = "continuous"
      BY <2>1, StartIsNew DEF Start, CInv, TypeOK
    <3>3. wav # None => wav \in Capture /\ wav # started'
      BY <2>1, HeldOnce, StartIsNew
    <3>4. streaming # None => streaming \in Capture /\ streaming # started'
      BY <2>1, HeldOnce, StartIsNew
    <3> QED
      BY <1>4, <3>1, <3>2, <3>3, <3>4 DEF StartContinuous, HandlesKeepKind, CInv
  <2>5. EndersHaveCause'
    BY <1>4, <2>1, StartIsNew
       DEF StartContinuous, Start, EndersHaveCause, CInv, TypeOK, Capture
  <2> QED
    BY <2>2, <2>3, <2>4, <2>5 DEF CInv
<1>5. CASE StartStreaming
  <2>1. Start("streaming") /\ state' = "streaming"
    BY <1>5, PerformsLeadsTo DEF StartStreaming
  <2>2. ConsumedOnce' /\ SessionsEndForCause' /\ Unborn'
    BY <1>5, <2>1, StartConsumesNothing DEF StartStreaming
  <2>3. NoPhantomCapture' /\ RecorderHasWav' /\ HandlesKeepKind'
    BY <1>5, <2>1, StartIsNew
       DEF StartStreaming, Start, NoPhantomCapture, RecorderHasWav,
           HandlesKeepKind, CInv, TypeOK, Capture
  <2>4. EndersHaveCause'
    BY <1>5, <2>1, StartIsNew
       DEF StartStreaming, Start, EndersHaveCause, CInv, TypeOK, Capture
  <2> QED
    BY <2>2, <2>3, <2>4 DEF CInv
<1>6. CASE StopAndEnqueue
  <2>1. state' = "idle"
    BY <1>6, PerformsLeadsTo DEF StopAndEnqueue
  <2>2. End({wav}, "enqueued") /\ Takes({wav})
    BY <1>6 DEF StopAndEnqueue, Enqueue, Takes, CInv, HandlesKeepKind, TypeOK
  <2>3. /\ cause' = cause \cup ({wav} \cap Capture)
        /\ UNCHANGED <<started, mode, caps, task, finalizers>>
    BY <1>6 DEF StopAndEnqueue, Enqueue, Blame, tasks
  <2>4. ConsumedOnce' /\ Unborn' /\ SessionsEndForCause'
    BY <2>2, <2>3, TakingConsumesOnce DEF How
  <2>5. NoPhantomCapture' /\ RecorderHasWav' /\ HandlesKeepKind'
    BY <1>6, <2>1 DEF StopAndEnqueue, Enqueue, NoPhantomCapture, RecorderHasWav,
                   HandlesKeepKind, CInv
  <2>6. EndersHaveCause'
    BY <1>6, <2>3, HeldApart
       DEF StopAndEnqueue, Enqueue, Stop, EndersHaveCause, CInv, TypeOK
  <2> QED
    BY <2>4, <2>5, <2>6 DEF CInv
<1>7. CASE DiscardRecording
  <2>1. state' = "idle"
    BY <1>7, PerformsLeadsTo DEF DiscardRecording
  <2>2. End({continuous, wav}, "discarded") /\ Takes({continuous, wav})
    BY <1>7 DEF DiscardRecording, Takes, CInv, HandlesKeepKind, TypeOK
  <2>3. /\ cause' = cause \cup ({continuous, wav} \cap Capture)
        /\ UNCHANGED <<started, mode, caps, task, finalizers>>
    BY <1>7 DEF DiscardRecording, Blame, tasks
  <2>4. ConsumedOnce' /\ Unborn' /\ SessionsEndForCause'
    BY <2>2, <2>3, TakingConsumesOnce DEF How
  <2>5. NoPhantomCapture' /\ RecorderHasWav' /\ HandlesKeepKind'
    BY <1>7, <2>1 DEF DiscardRecording, NoPhantomCapture, RecorderHasWav,
                   HandlesKeepKind, CInv
  <2>6. EndersHaveCause'
    BY <1>7, <2>3, HeldApart
       DEF DiscardRecording, Stop, EndersHaveCause, CInv, TypeOK
  <2> QED
    BY <2>4, <2>5, <2>6 DEF CInv
<1>8. CASE DiscardStreaming
  <2>1. state' = "idle"
    BY <1>8, PerformsLeadsTo DEF DiscardStreaming
  <2>2. End({streaming}, "discarded") /\ Takes({streaming})
    BY <1>8 DEF DiscardStreaming, Takes, CInv, HandlesKeepKind, TypeOK
  <2>3. /\ cause' = cause \cup ({streaming} \cap Capture)
        /\ UNCHANGED <<started, mode, caps, task, finalizers>>
    BY <1>8 DEF DiscardStreaming, Blame, tasks
  <2>4. ConsumedOnce' /\ Unborn' /\ SessionsEndForCause'
    BY <2>2, <2>3, TakingConsumesOnce DEF How
  <2>5. NoPhantomCapture' /\ RecorderHasWav' /\ HandlesKeepKind'
    BY <1>8, <2>1 DEF DiscardStreaming, NoPhantomCapture, RecorderHasWav,
                   HandlesKeepKind, CInv
  <2>6. EndersHaveCause'
    BY <1>8, <2>3 DEF DiscardStreaming, Stop, EndersHaveCause, CInv, TypeOK
  <2> QED
    BY <2>4, <2>5, <2>6 DEF CInv
<1>9. CASE \E c \in Capture : RecordingCap(c)
  <2> PICK c \in Capture : RecordingCap(c)
    BY <1>9
  <2>2. UNCHANGED <<started, mode, streaming, task, finalizers>> /\ cause \subseteq cause'
    BY DEF RecordingCap, Blame
  <2>1. EndersHaveCause'
    <3>1. finalizers' \subseteq cause'
      BY <2>2 DEF EndersHaveCause, CInv
    <3>2. \A d \in Capture : task'[d] = "ending" => d \in cause'
      BY <2>2 DEF EndersHaveCause, CInv
    <3>3. streaming' # None /\ mic'[streaming'] = "off" => streaming' \in cause'
      BY <2>2, HeldApart DEF RecordingCap, Enqueue, Stop, EndersHaveCause, CInv
    <3> QED BY <3>1, <3>2, <3>3 DEF EndersHaveCause
  <2>3. CASE recorder # None
    <3>1. End({wav}, "enqueued") /\ Takes({wav})
      BY <2>3 DEF RecordingCap, Enqueue, Takes, CInv, HandlesKeepKind
    <3>2. \A d \in Capture \cap {wav} : mode[d] \in SessionModes => d \in cause'
      BY <2>2, <2>3
         DEF RecordingCap, Blame, CInv, EndersHaveCause, HandlesKeepKind,
             SessionModes, None, Capture
    <3>3. ConsumedOnce' /\ Unborn' /\ SessionsEndForCause'
      BY <2>2, <3>1, <3>2, TakingConsumesOnce DEF How
    <3>4. NoPhantomCapture' /\ RecorderHasWav' /\ HandlesKeepKind'
      BY <2>3 DEF RecordingCap, Enqueue, NoPhantomCapture, RecorderHasWav,
               HandlesKeepKind, CInv
    <3> QED
      BY <2>1, <3>3, <3>4 DEF CInv
  <2>4. CASE ~(recorder # None)
    BY <2>1, <2>2, <2>4, NothingConsumed DEF RecordingCap, Enqueue, handles
  <2> QED
    BY <2>3, <2>4
<1>10. CASE \E c \in Capture : VadPoll(c)
  <2> PICK c \in Capture : VadPoll(c)
    BY <1>10
  <2>1. EndersHaveCause'
    <3>1. finalizers' \subseteq cause'
      BY DEF VadPoll, EndersHaveCause, CInv
    <3>2. \A d \in Capture : task'[d] = "ending" => d \in cause'
      BY DEF VadPoll, EndersHaveCause, CInv, TypeOK
    <3>3. streaming' # None /\ mic'[streaming'] = "off" => streaming' \in cause'
      BY HeldApart DEF VadPoll, Enqueue, Stop, EndersHaveCause, CInv
    <3> QED
      BY <3>1, <3>2, <3>3 DEF EndersHaveCause
  <2>2. UNCHANGED <<started, mode>> /\ cause \subseteq cause'
    BY DEF VadPoll, Blame
  <2>3. CASE recorder # None
    <3>1. End({wav}, "enqueued") /\ Takes({wav})
      BY <2>3 DEF VadPoll, Enqueue, Takes, CInv, HandlesKeepKind
    <3>2. \A d \in Capture \cap {wav} : mode[d] \in SessionModes => d \in cause'
      BY <2>2, <2>3
         DEF VadPoll, Blame, CInv, EndersHaveCause, HandlesKeepKind,
             SessionModes, None, Capture
    <3>3. ConsumedOnce' /\ Unborn' /\ SessionsEndForCause'
      BY <2>2, <3>1, <3>2, TakingConsumesOnce DEF How
    <3>4. NoPhantomCapture' /\ RecorderHasWav' /\ HandlesKeepKind'
      BY <2>3 DEF VadPoll, Enqueue, NoPhantomCapture, RecorderHasWav,
               HandlesKeepKind, CInv
    <3> QED
      BY <2>1, <3>3, <3>4 DEF CInv
  <2>4. CASE ~(recorder # None)
    BY <2>1, <2>2, <2>4, NothingConsumed DEF VadPoll, Enqueue, handles
  <2> QED
    BY <2>3, <2>4
<1>11. CASE \E c \in Capture : DriverFinalizes(c)
  <2> PICK c \in Capture : DriverFinalizes(c)
    BY <1>11
  <2>1. EndersHaveCause'
    BY HeldApart
       DEF DriverFinalizes, Finalize, Stop, Blame, EndersHaveCause, CInv,
           TypeOK, None, Capture
  <2>2. UNCHANGED <<started, mode>> /\ cause \subseteq cause'
    BY DEF DriverFinalizes, Blame
  <2>3. CASE streaming = c
    <3>1. End({c}, "finalized") /\ Takes({c})
      BY <2>3 DEF DriverFinalizes, Finalize, Takes, CInv, HandlesKeepKind
    <3>2. \A d \in Capture \cap {c} : mode[d] \in SessionModes => d \in cause'
      BY <2>2, <2>3
         DEF DriverFinalizes, Blame, CInv, EndersHaveCause, HandlesKeepKind,
             SessionModes, None, Capture
    <3>3. ConsumedOnce' /\ Unborn' /\ SessionsEndForCause'
      BY <2>2, <3>1, <3>2, TakingConsumesOnce DEF How
    <3>4. NoPhantomCapture' /\ RecorderHasWav' /\ HandlesKeepKind'
      BY <2>3 DEF DriverFinalizes, Finalize, NoPhantomCapture, RecorderHasWav,
               HandlesKeepKind, CInv
    <3> QED
      BY <2>1, <3>3, <3>4 DEF CInv
  <2>4. CASE ~(streaming = c)
    BY <2>1, <2>2, <2>4, NothingConsumed DEF DriverFinalizes, Finalize, handles
  <2> QED
    BY <2>3, <2>4
<1>12. CASE \E c \in Capture : FinalizerRuns(c)
  <2> PICK c \in Capture : FinalizerRuns(c)
    BY <1>12
  <2>1. EndersHaveCause'
    BY HeldApart
       DEF FinalizerRuns, Finalize, Stop, Blame, EndersHaveCause, CInv, TypeOK,
           None, Capture
  <2>2. UNCHANGED <<started, mode>> /\ cause \subseteq cause'
    BY DEF FinalizerRuns, Blame
  <2>3. CASE streaming = c
    <3>1. End({c}, "finalized") /\ Takes({c})
      BY <2>3 DEF FinalizerRuns, Finalize, Takes, CInv, HandlesKeepKind
    <3>2. \A d \in Capture \cap {c} : mode[d] \in SessionModes => d \in cause'
      BY <2>2, <2>3
         DEF FinalizerRuns, Blame, CInv, EndersHaveCause, HandlesKeepKind,
             SessionModes, None, Capture
    <3>3. ConsumedOnce' /\ Unborn' /\ SessionsEndForCause'
      BY <2>2, <3>1, <3>2, TakingConsumesOnce DEF How
    <3>4. NoPhantomCapture' /\ RecorderHasWav' /\ HandlesKeepKind'
      BY <2>3 DEF FinalizerRuns, Finalize, NoPhantomCapture, RecorderHasWav,
               HandlesKeepKind, CInv
    <3> QED
      BY <2>1, <3>3, <3>4 DEF CInv
  <2>4. CASE ~(streaming = c)
    BY <2>1, <2>2, <2>4, NothingConsumed DEF FinalizerRuns, Finalize, handles
  <2> QED
    BY <2>3, <2>4
<1>13. CASE \E c \in Capture : EndContinuous(c)
  <2> PICK c \in Capture : EndContinuous(c)
    BY <1>13
  <2>1. EndersHaveCause'
    <3>1. finalizers' \subseteq cause'
      BY DEF EndContinuous, EndersHaveCause, CInv
    <3>2. \A d \in Capture : task'[d] = "ending" => d \in cause'
      BY DEF EndContinuous, EndersHaveCause, CInv, TypeOK
    <3>3. streaming' # None /\ mic'[streaming'] = "off" => streaming' \in cause'
      BY HeldApart DEF EndContinuous, Stop, EndersHaveCause, CInv
    <3> QED
      BY <3>1, <3>2, <3>3 DEF EndersHaveCause
  <2>2. UNCHANGED <<started, mode>> /\ cause \subseteq cause'
    BY DEF EndContinuous, Blame
  <2>3. CASE continuous = c
    <3>1. End({c}, "assembled") /\ Takes({c})
      BY <2>3 DEF EndContinuous, Takes, CInv, HandlesKeepKind
    <3>2. \A d \in Capture \cap {c} : mode[d] \in SessionModes => d \in cause'
      BY <2>2, <2>3
         DEF EndContinuous, Blame, CInv, EndersHaveCause, HandlesKeepKind,
             SessionModes, None, Capture
    <3>3. ConsumedOnce' /\ Unborn' /\ SessionsEndForCause'
      BY <2>2, <3>1, <3>2, TakingConsumesOnce DEF How
    <3>4. NoPhantomCapture' /\ RecorderHasWav' /\ HandlesKeepKind'
      BY <2>3 DEF EndContinuous, NoPhantomCapture, RecorderHasWav,
               HandlesKeepKind, CInv
    <3> QED
      BY <2>1, <3>3, <3>4 DEF CInv
  <2>4. CASE ~(continuous = c)
    BY <2>1, <2>2, <2>4, NothingConsumed DEF EndContinuous, handles
  <2> QED
    BY <2>3, <2>4
<1>14. CASE StopStreaming
  <2>1. state' = "idle"
    BY <1>14, PerformsLeadsTo DEF StopStreaming
  <2>2. EndersHaveCause'
    BY <1>14 DEF StopStreaming, Blame, EndersHaveCause, CInv, handles
  <2> QED
    BY <1>14, <2>1, <2>2, NothingConsumed DEF StopStreaming, Blame
<1>15. CASE \E c \in Capture : StreamingPoll(c)
  <2> PICK c \in Capture : StreamingPoll(c)
    BY <1>15
  <2>1. EndersHaveCause'
    BY DEF StreamingPoll, Blame, Stop, EndersHaveCause, HandlesKeepKind, CInv,
        TypeOK, handles, capture, None, Capture
  <2> QED
    BY <2>1, NothingConsumed DEF StreamingPoll, Blame, handles, capture, Stop
<1>16. CASE \E c \in Capture : StreamingCap(c)
  <2> PICK c \in Capture : StreamingCap(c)
    BY <1>16
  <2>1. EndersHaveCause'
    BY DEF StreamingCap, Blame, Stop, EndersHaveCause, HandlesKeepKind, CInv,
        TypeOK, handles, capture, None, Capture
  <2> QED
    BY <2>1, NothingConsumed DEF StreamingCap, Blame, handles, capture, Stop
<1>17. CASE \E c \in Capture : ContinuousPoll(c)
  <2> PICK c \in Capture : ContinuousPoll(c)
    BY <1>17
  <2>1. EndersHaveCause'
    BY DEF ContinuousPoll, Blame, Stop, EndersHaveCause, HandlesKeepKind, CInv,
        TypeOK, handles, capture, None, Capture
  <2> QED
    BY <2>1, NothingConsumed DEF ContinuousPoll, Blame, handles, capture, Stop
<1>18. CASE \E c \in Capture : MicExits(c)
  <2> PICK c \in Capture : MicExits(c)
    BY <1>18
  <2>1. EndersHaveCause'
    <3>1. finalizers' \subseteq cause'
      BY DEF MicExits, Blame, tasks, EndersHaveCause, CInv
    <3>2. \A d \in Capture : task'[d] = "ending" => d \in cause'
      BY DEF MicExits, Blame, tasks, EndersHaveCause, CInv
    <3>3. streaming' # None /\ mic'[streaming'] = "off" => streaming' \in cause'
      BY HeldApart DEF MicExits, Stop, Blame, handles, EndersHaveCause, CInv
    <3> QED
      BY <3>1, <3>2, <3>3 DEF EndersHaveCause
  <2> QED
    BY <2>1, NothingConsumed DEF MicExits, Blame, handles, capture, Stop
<1>19. CASE Supervise
  <2>1. UNCHANGED <<handles, tasks, capture>>
    BY <1>19 DEF Supervise, FindModel, DownloadDone, WhisperReady, ProbeGivesUp,
                 WhisperDied
  <2>2. state' = state \/ state' \notin {"recording", "streaming"}
    BY <1>19 DEF Supervise, FindModel, DownloadDone, WhisperReady, ProbeGivesUp,
                 WhisperDied
  <2>3. EndersHaveCause'
    BY <2>1 DEF EndersHaveCause, CInv, handles, tasks, capture
  <2> QED
    BY <2>1, <2>2, <2>3, NothingConsumed DEF capture
<1>20. CASE UNCHANGED vars
  <2>1. EndersHaveCause'
    BY <1>20 DEF vars, EndersHaveCause, CInv, handles, tasks, capture
  <2> QED
    BY <1>20, <2>1, NothingConsumed DEF vars, capture
<1> QED
  BY <1>2, <1>3, <1>4, <1>5, <1>6, <1>7, <1>8, <1>9, <1>10, <1>11, <1>12, <1>13, <1>14, <1>15, <1>16, <1>17, <1>18, <1>19, <1>20
     DEF Next, UserStep, CaptureStep, Exhausted

-----------------------------------------------------------------------------
(* Theorems *)

\* CInv holds in every state that the commands, the tasks and the supervisor
\* reach, however they interleave.
THEOREM CaptureInvariance == Spec => []CInv
<1>1. Init => CInv
  <2> SUFFICES ASSUME Init PROVE CInv
    OBVIOUS
  <2>1. TypeOK
    <3>1. ends \in [Capture -> Seq({"enqueued", "discarded", "finalized", "assembled"})]
      BY EmptySeq DEF Init
    <3> QED
      BY <3>1 DEF Init, TypeOK, State, NotReady, None
  <2>2. ConsumedOnce
    <3>1. Len(<<>>) = 0
      BY EmptySeq
    <3> QED
      BY <3>1 DEF Init, ConsumedOnce
  <2> QED
    BY <2>1, <2>2 DEF Init, CInv, NoPhantomCapture, RecorderHasWav,
       SessionsEndForCause, HandlesKeepKind, Unborn, EndersHaveCause, None
<1>2. CInv /\ [Next]_vars => CInv'
  BY InvStep
<1> QED
  BY <1>1, <1>2, PTL DEF Spec

\* Every variable of the daemon keeps its type.
THEOREM RecorderTypeCorrect == Spec => []TypeOK
BY CaptureInvariance, PTL DEF CInv

\* The status never announces a capture that is not there.
THEOREM StatusIsTrue == Spec => []NoPhantomCapture
BY CaptureInvariance, PTL DEF CInv

\* The child that records and the file that is enqueued belong together.
THEOREM RecordingsKeepTheirFile == Spec => []RecorderHasWav
BY CaptureInvariance, PTL DEF CInv

\* No capture is enqueued, discarded, finalized or assembled twice, or while it
\* is still held.
THEOREM CapturesConsumedOnce == Spec => []ConsumedOnce
BY CaptureInvariance, PTL DEF CInv

\* The leftover tasks of a session never end a newer session.
THEOREM SessionsEndOnlyForCause == Spec => []SessionsEndForCause
BY CaptureInvariance, PTL DEF CInv

=============================================================================
