---------------------------- MODULE ContinuousProofs ----------------------------
(***************************************************************************)
(* Proofs about Continuous, for any number of sessions and of clips.       *)
(*                                                                         *)
(* The driver counts a directory that it and sox change meanwhile.  What   *)
(* makes its arithmetic right is that every clip after the last            *)
(* transcribed one is there (Left), that what is there was opened          *)
(* (Bounds), and that a driver that saw sox gone is right for good         *)
(* (SoxKnown); what makes the end of a session right is that a handle is   *)
(* never held by a driver that has given it up (Held), and is given up     *)
(* together with sox (Over).                                               *)
(***************************************************************************)
EXTENDS Continuous, FiniteSetTheorems, TLAPS

\* The places where the driver still has its session, or will find out.
Active == {"poll", "count", "clips", "mark", "decide", "ending"}

-----------------------------------------------------------------------------
(* The invariant *)

HandleTypes ==
  /\ state \in {"idle", "recording"}
  /\ continuous \in Session \cup {None}
  /\ started \in 0..Len(Clips)
  /\ cancelled \subseteq Session /\ replaced \subseteq Session
  /\ delivered \in Seq(Session)

FlagTypes ==
  /\ running \in [Session -> BOOLEAN]
  /\ progress \in [Session -> BOOLEAN]
  /\ quiet \in [Session -> BOOLEAN]

PlaceTypes ==
  /\ pc \in [Session -> Active \cup {"none", "deliver", "done"}]
  /\ sox \in [Session -> {"none", "on", "off"}]

CountTypes ==
  /\ opened \in [Session -> Nat]
  /\ present \in [Session -> Nat]
  /\ transcribed \in [Session -> Nat]
  /\ counted \in [Session -> Nat]

DataTypes ==
  /\ files \in [Session -> SUBSET Nat]
  /\ text \in [Session -> Seq(Nat)]

Types == HandleTypes /\ FlagTypes /\ PlaceTypes /\ CountTypes /\ DataTypes

\* Nothing is counted or transcribed that sox has not opened.
Bounds(s) ==
  /\ opened[s] <= Clips[s]
  /\ files[s] \subseteq 1..opened[s]
  /\ present[s] <= opened[s]
  /\ transcribed[s] <= opened[s]
  /\ counted[s] <= opened[s]

\* What has not been started is as it was at first, and what has is not.
Unborn(s) ==
  IF s > started
    THEN /\ pc[s] = "none" /\ sox[s] = "none" /\ opened[s] = 0
         /\ continuous # s /\ s \notin cancelled /\ s \notin replaced
    ELSE pc[s] # "none"

\* A session that is held was neither dropped nor replaced; its driver is at work,
\* or has died in a panic.
Held(s) ==
  continuous = s =>
    pc[s] \in Active \cup {"done"} /\ s \notin cancelled /\ s \notin replaced

\* Without its handle, and unless that was taken by another start, a session
\* has no sox, and no clips once its driver is through.
Over(s) ==
  s <= started /\ s \notin replaced /\ continuous # s =>
    sox[s] # "on" /\ (files[s] = {} \/ pc[s] = "deliver")

\* A cancelled session is never on its way to the queue.
Dropped(s) == s \in cancelled => pc[s] # "deliver"

\* The clips still to come are there, whatever else was left behind.
Left(s) ==
  s \notin cancelled /\ pc[s] # "done" =>
    (transcribed[s] + 1)..opened[s] \subseteq files[s]

\* A driver that found sox gone is right about it.
SoxKnown(s) == pc[s] \in {"count", "clips"} /\ ~running[s] => sox[s] # "on"

\* Half of what was counted is transcribed in each round.
Counting(s) ==
  s \notin cancelled =>
    /\ pc[s] = "clips" => counted[s] <= present[s] + transcribed[s]
    /\ pc[s] \in {"mark", "decide", "ending", "deliver"}
         => counted[s] <= 2 * transcribed[s] + 1

\* Words in record order.
Ordered(s) ==
  \A i \in 1..Len(text[s]) :
    /\ text[s][i] \in 1..transcribed[s]
    /\ i > 1 => text[s][i - 1] < text[s][i]

\* What entered the queue is over, was not cancelled and entered once.
Queued ==
  \A i \in DOMAIN delivered :
    /\ pc[delivered[i]] = "done" /\ continuous # delivered[i]
    /\ delivered[i] \notin cancelled
    /\ \A j \in DOMAIN delivered : delivered[i] = delivered[j] => i = j

SessionInv(s) ==
  /\ Bounds(s) /\ Unborn(s) /\ Held(s) /\ Over(s) /\ Dropped(s) /\ Left(s)
  /\ SoxKnown(s) /\ Counting(s) /\ Ordered(s)

CInv == Types /\ (\A s \in Session : SessionInv(s)) /\ Queued

-----------------------------------------------------------------------------
(* Lemmas about data *)

\* What Append does to a sequence.
LEMMA AppendProperties ==
  ASSUME NEW S, NEW q \in Seq(S), NEW x \in S
  PROVE  /\ Append(q, x) \in Seq(S)
         /\ Len(Append(q, x)) = Len(q) + 1 /\ Len(q) \in Nat
         /\ \A i \in 1..Len(q) : Append(q, x)[i] = q[i]
         /\ Append(q, x)[Len(q) + 1] = x
OBVIOUS

\* The first few numbers that are clips of some session.
LEMMA ClipsFromOne ==
  ASSUME NEW s \in Session, NEW n \in Nat, n <= Clips[s]
  PROVE  n \in {0} \cup Clip
BY ContinuousAssumption DEF Clip, Session

\* finalized_clip_count is at most one short of the files that were counted.
LEMMA FinalizedProperties ==
  ASSUME NEW s \in Session, running \in [Session -> BOOLEAN],
         present \in [Session -> Nat]
  PROVE  /\ Finalized(s) \in Nat
         /\ Finalized(s) <= present[s] /\ present[s] <= Finalized(s) + 1
         /\ running[s] /\ present[s] # 0 => Finalized(s) = present[s] - 1
         /\ ~running[s] => Finalized(s) = present[s]
<1>1. present[s] \in Nat
  OBVIOUS
<1>2. CASE running[s]
  BY <1>1, <1>2 DEF Finalized
<1>3. CASE ~running[s]
  BY <1>1, <1>3 DEF Finalized
<1> QED BY <1>2, <1>3

\* The invariant implies the type invariant.
LEMMA CInvTypeOK == CInv => TypeOK
<1> SUFFICES ASSUME CInv PROVE TypeOK
  OBVIOUS
<1> USE DEF CInv, Types
<1>1. HandleTypes /\ FlagTypes /\ PlaceTypes
  OBVIOUS
<1>2. CountTypes /\ DataTypes
  OBVIOUS
<1>3. ASSUME NEW s \in Session
      PROVE  /\ opened[s] \in {0} \cup Clip /\ present[s] \in {0} \cup Clip
             /\ transcribed[s] \in {0} \cup Clip /\ counted[s] \in {0} \cup Clip
             /\ files[s] \subseteq Clip /\ text[s] \in Seq(Clip)
  <2>1. Bounds(s) /\ Ordered(s)
    BY <1>3 DEF SessionInv
  <2>2. Clips[s] \in Nat
    BY <1>3, ContinuousAssumption DEF Session
  <2>3. /\ opened[s] \in Nat /\ present[s] \in Nat
        /\ transcribed[s] \in Nat /\ counted[s] \in Nat
    BY <1>2, <1>3 DEF CountTypes
  <2>4. \A n \in Nat : n <= opened[s] => n \in {0} \cup Clip
    BY <1>3, <2>1, <2>2, <2>3, ClipsFromOne DEF Bounds
  <2>5. opened[s] \in {0} \cup Clip /\ present[s] \in {0} \cup Clip
    BY <2>1, <2>3, <2>4 DEF Bounds
  <2>6. transcribed[s] \in {0} \cup Clip /\ counted[s] \in {0} \cup Clip
    BY <2>1, <2>3, <2>4 DEF Bounds
  <2>7. 1..opened[s] \subseteq Clip
    BY <2>3, <2>4
  <2>8. files[s] \subseteq Clip
    BY <2>1, <2>7 DEF Bounds
  <2>9. text[s] \in Seq(Nat)
    BY <1>2, <1>3 DEF DataTypes
  <2>10. \A i \in 1..Len(text[s]) : text[s][i] \in Clip
    BY <2>1, <2>3, <2>7 DEF Ordered, Bounds
  <2>11. text[s] \in Seq(Clip)
    BY <2>9, <2>10
  <2> QED BY <2>5, <2>6, <2>8, <2>11
<1>4. opened \in [Session -> {0} \cup Clip] /\ present \in [Session -> {0} \cup Clip]
  BY <1>2, <1>3 DEF CountTypes
<1>5. transcribed \in [Session -> {0} \cup Clip] /\ counted \in [Session -> {0} \cup Clip]
  BY <1>2, <1>3 DEF CountTypes
<1>6. files \in [Session -> SUBSET Clip] /\ text \in [Session -> Seq(Clip)]
  BY <1>2, <1>3 DEF DataTypes
<1> QED
  BY <1>1, <1>4, <1>5, <1>6 DEF HandleTypes, FlagTypes, PlaceTypes, Active, TypeOK

\* It holds before the first session.
LEMMA InitCInv == Init => CInv
<1> SUFFICES ASSUME Init PROVE CInv
  OBVIOUS
<1> USE ContinuousAssumption DEF Init, Each, None
<1>1. Len(Clips) \in Nat
  OBVIOUS
<1>2. HandleTypes
  BY <1>1 DEF HandleTypes
<1>3. FlagTypes
  BY DEF FlagTypes
<1>4. PlaceTypes
  BY DEF PlaceTypes
<1>5. CountTypes
  BY DEF CountTypes
<1>6. DataTypes
  BY DEF DataTypes
<1>7. ASSUME NEW s \in Session PROVE SessionInv(s)
  <2>1. s \in Nat /\ s >= 1 /\ s > started /\ Clips[s] \in Nat
    BY <1>1, <1>7 DEF Session
  <2>2. Bounds(s)
    BY <1>7, <2>1 DEF Bounds
  <2>3. Unborn(s) /\ Held(s) /\ Over(s) /\ Dropped(s) /\ SoxKnown(s)
    BY <1>7, <2>1 DEF Unborn, Held, Over, Dropped, SoxKnown
  <2>4. Left(s) /\ Counting(s) /\ Ordered(s)
    BY <1>7, <2>1 DEF Left, Counting, Ordered
  <2> QED BY <2>2, <2>3, <2>4 DEF SessionInv
<1>8. Queued
  BY DEF Queued
<1> QED BY <1>2, <1>3, <1>4, <1>5, <1>6, <1>7, <1>8 DEF CInv, Types

-----------------------------------------------------------------------------
(* Types, a kind at a time *)

\* The handle of the session, and what entered the queue.
LEMMA NextHandles == HandleTypes /\ Next => HandleTypes'
<1> SUFFICES ASSUME HandleTypes, Next PROVE HandleTypes'
  OBVIOUS
<1> USE DEF HandleTypes, handleVars, histVars
<1>1. CASE StartContinuous
  <2>1. state' \in {"idle", "recording"}
    BY <1>1 DEF StartContinuous, Performs, Apply, Transition, StartOf, Free, NotReady
  <2>2. started + 1 \in 1..Len(Clips) /\ Len(Clips) \in Nat
    BY <1>1, ContinuousAssumption DEF StartContinuous
  <2>3. started' = started + 1 /\ continuous' = started'
    BY <1>1 DEF StartContinuous
  <2>4. started' \in 0..Len(Clips) /\ continuous' \in Session
    BY <2>2, <2>3 DEF Session
  <2>5. /\ cancelled' \subseteq Session /\ replaced' \subseteq Session
        /\ delivered' \in Seq(Session)
    BY <1>1 DEF StartContinuous
  <2> QED BY <2>1, <2>4, <2>5
<1>2. CASE StopAndEnqueue
  BY <1>2 DEF StopAndEnqueue, Performs, Apply, Transition, StartOf, Free, NotReady
<1>3. CASE DiscardRecording
  <2>1. state' \in {"idle", "recording"}
    BY <1>3 DEF DiscardRecording, Performs, Apply, Transition, StartOf, Free, NotReady
  <2> QED BY <1>3, <2>1 DEF DiscardRecording
<1>4. CASE \E s \in Session : OpenClip(s) \/ SoxExits(s) \/ SilenceElapses(s)
  BY <1>4 DEF OpenClip, SoxExits, SilenceElapses
<1>5. CASE \E s \in Session : Poll(s) \/ Count(s) \/ TranscribeClip(s) \/ DriverPanics(s)
                              \/ ClipsDone(s) \/ Mark(s) \/ Decide(s)
  BY <1>5 DEF Poll, Count, TranscribeClip, DriverPanics, ClipsDone, Mark, Decide,
              OutsideDriver
<1>6. CASE \E s \in Session : EndContinuous(s)
  BY <1>6 DEF EndContinuous
<1>7. ASSUME NEW s \in Session, Deliver(s) PROVE HandleTypes'
  <2>1. delivered' \in Seq(Session)
    BY <1>7, AppendProperties DEF Deliver
  <2> QED BY <1>7, <2>1 DEF Deliver
<1> QED BY <1>1, <1>2, <1>3, <1>4, <1>5, <1>6, <1>7 DEF Next, Driver

\* The driver's flags.
LEMMA NextFlags == FlagTypes /\ Next => FlagTypes'
<1> SUFFICES ASSUME FlagTypes, Next PROVE FlagTypes'
  OBVIOUS
<1> USE DEF FlagTypes, localVars
<1>1. CASE StartContinuous \/ StopAndEnqueue \/ DiscardRecording
  BY <1>1 DEF StartContinuous, StopAndEnqueue, DiscardRecording
<1>2. CASE \E s \in Session : OpenClip(s) \/ SoxExits(s) \/ SilenceElapses(s)
  BY <1>2 DEF OpenClip, SoxExits, SilenceElapses
<1>3. ASSUME NEW s \in Session, Poll(s) PROVE FlagTypes'
  <2>1. CASE Return(s)
    BY <1>3, <2>1 DEF Return, EndRound
  <2>2. CASE running' = [running EXCEPT ![s] = sox[s] = "on"]
    <3>1. (sox[s] = "on") \in BOOLEAN
      OBVIOUS
    <3>2. running' \in [Session -> BOOLEAN]
      BY <2>2, <3>1
    <3>3. Return(s) \/ (progress' = progress /\ quiet' = quiet)
      BY <1>3 DEF Poll
    <3> QED BY <2>1, <3>2, <3>3
  <2> QED BY <1>3, <2>1, <2>2 DEF Poll
<1>7. ASSUME NEW s \in Session, Count(s) PROVE FlagTypes'
  BY <1>7 DEF Count
<1>4. ASSUME NEW s \in Session, TranscribeClip(s) \/ ClipsDone(s) PROVE FlagTypes'
  BY <1>4 DEF TranscribeClip, ClipsDone
<1>5. ASSUME NEW s \in Session, Mark(s) PROVE FlagTypes'
  BY <1>5 DEF Mark
<1>6. ASSUME NEW s \in Session,
             Decide(s) \/ EndContinuous(s) \/ Deliver(s) \/ DriverPanics(s)
      PROVE  FlagTypes'
  BY <1>6 DEF Decide, EndContinuous, Deliver, DriverPanics, Return, EndRound
<1> QED BY <1>1, <1>2, <1>3, <1>4, <1>5, <1>6, <1>7 DEF Next, Driver

\* Where the drivers are and what their children do.
LEMMA NextPlaces == PlaceTypes /\ Next => PlaceTypes'
<1> SUFFICES ASSUME PlaceTypes, Next PROVE PlaceTypes'
  OBVIOUS
<1> USE DEF PlaceTypes, Active, Goto, soxVars
<1>1. CASE StartContinuous \/ StopAndEnqueue \/ DiscardRecording
  BY <1>1 DEF StartContinuous, StopAndEnqueue, DiscardRecording
<1>2. CASE \E s \in Session : OpenClip(s) \/ SoxExits(s) \/ SilenceElapses(s)
  BY <1>2 DEF OpenClip, SoxExits, SilenceElapses
<1>3. CASE \E s \in Session : Poll(s) \/ Count(s) \/ TranscribeClip(s) \/ ClipsDone(s)
  BY <1>3 DEF Poll, Count, TranscribeClip, ClipsDone, Return, OutsideDriver
<1>4. CASE \E s \in Session : \/ DriverPanics(s) \/ Mark(s) \/ Decide(s)
                              \/ EndContinuous(s) \/ Deliver(s)
  BY <1>4 DEF DriverPanics, Mark, Decide, EndContinuous, Deliver, Return, OutsideDriver
<1> QED BY <1>1, <1>2, <1>3, <1>4 DEF Next, Driver

\* The counters: what is counted is a finite directory.
LEMMA NextCounts == CInv /\ Next => CountTypes'
<1> SUFFICES ASSUME CInv, Next PROVE CountTypes'
  OBVIOUS
<1> USE DEF CountTypes, localVars, soxVars
<1>0. CountTypes /\ DataTypes
  BY DEF CInv, Types
<1>1. CASE StartContinuous \/ StopAndEnqueue \/ DiscardRecording
  BY <1>0, <1>1 DEF StartContinuous, StopAndEnqueue, DiscardRecording
<1>2. CASE \E s \in Session : OpenClip(s) \/ SoxExits(s) \/ SilenceElapses(s)
  BY <1>0, <1>2 DEF OpenClip, SoxExits, SilenceElapses
<1>3. ASSUME NEW s \in Session, Count(s) PROVE CountTypes'
  <2>1. files[s] \subseteq 1..opened[s] /\ opened[s] \in Nat
    BY <1>0, <1>3 DEF CInv, SessionInv, Bounds
  <2>2. Cardinality(files[s]) \in Nat
    <3>1. IsFiniteSet(1..opened[s])
      BY <2>1, FS_Interval
    <3>2. IsFiniteSet(files[s])
      BY <2>1, <3>1, FS_Subset
    <3> QED BY <3>2, FS_CardinalityType
  <2> QED BY <1>0, <1>3, <2>1, <2>2 DEF Count, OutsideDriver
<1>4. ASSUME NEW s \in Session, TranscribeClip(s) PROVE CountTypes'
  BY <1>0, <1>4 DEF TranscribeClip, OutsideDriver
<1>5. ASSUME NEW s \in Session, ClipsDone(s) \/ Mark(s) PROVE CountTypes'
  BY <1>0, <1>5 DEF ClipsDone, Mark, OutsideDriver
<1>6. ASSUME NEW s \in Session, \/ Poll(s) \/ DriverPanics(s) \/ Decide(s)
                                \/ EndContinuous(s) \/ Deliver(s)
      PROVE  CountTypes'
  <2>1. /\ opened' = opened
        /\ present' = present \/ present' = [present EXCEPT ![s] = 0]
        /\ transcribed' = transcribed \/ transcribed' = [transcribed EXCEPT ![s] = 0]
        /\ counted' = counted \/ counted' = [counted EXCEPT ![s] = 0]
    BY <1>6 DEF Poll, DriverPanics, Decide, EndContinuous, Deliver, Return, EndRound,
                OutsideDriver
  <2> QED BY <1>0, <2>1
<1> QED BY <1>1, <1>2, <1>3, <1>4, <1>5, <1>6 DEF Next, Driver

\* The clips in the directories and in the texts.
LEMMA NextData == CountTypes /\ DataTypes /\ Next => DataTypes'
<1> SUFFICES ASSUME CountTypes, DataTypes, Next PROVE DataTypes'
  OBVIOUS
<1> USE DEF DataTypes, localVars
<1>1. CASE StartContinuous \/ StopAndEnqueue \/ DiscardRecording
  BY <1>1 DEF StartContinuous, StopAndEnqueue, DiscardRecording
<1>2. CASE \E s \in Session : OpenClip(s) \/ SoxExits(s) \/ SilenceElapses(s)
  BY <1>2 DEF OpenClip, SoxExits, SilenceElapses, CountTypes
<1>3. ASSUME NEW s \in Session, TranscribeClip(s) PROVE DataTypes'
  <2>1. transcribed[s] + 1 \in Nat /\ text[s] \in Seq(Nat)
    BY <1>3 DEF CountTypes
  <2>2. Append(text[s], transcribed[s] + 1) \in Seq(Nat)
    BY <2>1, AppendProperties
  <2> QED BY <1>3, <2>2 DEF TranscribeClip
<1>4. \A S : <<>> \in Seq(S)
  OBVIOUS
<1>5. ASSUME NEW s \in Session,
             \/ Poll(s) \/ Count(s) \/ DriverPanics(s) \/ ClipsDone(s) \/ Mark(s)
             \/ Decide(s) \/ EndContinuous(s) \/ Deliver(s)
      PROVE  DataTypes'
  <2>1. /\ files' = files \/ files' = [files EXCEPT ![s] = {}]
        /\ text' = text \/ text' = [text EXCEPT ![s] = <<>>]
    BY <1>5 DEF Poll, Count, DriverPanics, ClipsDone, Mark, Decide, EndContinuous,
                Deliver, Return
  <2> QED BY <1>4, <2>1
<1> QED BY <1>1, <1>2, <1>3, <1>5 DEF Next, Driver

\* Every step keeps the types.
LEMMA NextTypes == CInv /\ Next => Types'
BY NextHandles, NextFlags, NextPlaces, NextCounts, NextData DEF CInv, Types

-----------------------------------------------------------------------------
(* Sessions that a step leaves alone *)

\* Everything that belongs to one session.
Same(s) ==
  /\ pc'[s] = pc[s] /\ sox'[s] = sox[s] /\ opened'[s] = opened[s]
  /\ files'[s] = files[s] /\ running'[s] = running[s] /\ present'[s] = present[s]
  /\ transcribed'[s] = transcribed[s] /\ text'[s] = text[s] /\ counted'[s] = counted[s]

\* What the handle and the history say of it.
SameHandle(s) ==
  /\ started' = started
  /\ continuous' = s <=> continuous = s
  /\ s \in cancelled' <=> s \in cancelled
  /\ s \in replaced' <=> s \in replaced

\* What leaves a session and its handle alone keeps its part of the invariant.
LEMMA OthersKeep ==
  ASSUME NEW s \in Session, SessionInv(s), Same(s), SameHandle(s)
  PROVE  SessionInv(s)'
<1> USE DEF SessionInv, Same, SameHandle
<1>1. Bounds(s)'
  BY DEF Bounds
<1>2. Unborn(s)' /\ Held(s)' /\ Dropped(s)'
  BY DEF Unborn, Held, Dropped
<1>3. Over(s)' /\ Left(s)'
  BY DEF Over, Left
<1>4. SoxKnown(s)'
  BY DEF SoxKnown
<1>5. Counting(s)'
  BY DEF Counting
<1>6. Ordered(s)'
  BY DEF Ordered
<1> QED BY <1>1, <1>2, <1>3, <1>4, <1>5, <1>6

\* A driver that returns forgets its own variables only.
LEMMA ReturnSame ==
  ASSUME PlaceTypes, CountTypes, DataTypes, FlagTypes,
         NEW s \in Session, NEW t \in Session, t # s, Return(s)
  PROVE  /\ pc'[t] = pc[t] /\ running'[t] = running[t] /\ present'[t] = present[t]
         /\ transcribed'[t] = transcribed[t] /\ text'[t] = text[t]
         /\ counted'[t] = counted[t]
BY DEF Return, Goto, EndRound, PlaceTypes, CountTypes, DataTypes, FlagTypes

\* Steps of one session leave the others alone.
LEMMA OthersSame ==
  ASSUME CInv, Types', NEW s \in Session, NEW t \in Session, t # s,
         OpenClip(s) \/ SoxExits(s) \/ SilenceElapses(s) \/ Driver(s)
  PROVE  Same(t) /\ SameHandle(t)
<1>0. PlaceTypes /\ CountTypes /\ DataTypes /\ FlagTypes
  BY DEF CInv, Types
<1> USE DEF PlaceTypes, CountTypes, DataTypes, FlagTypes
<1>1. CASE OpenClip(s) \/ SoxExits(s) \/ SilenceElapses(s)
  BY <1>0, <1>1 DEF OpenClip, SoxExits, SilenceElapses, Same, SameHandle,
                    handleVars, soxVars, localVars, histVars
<1>2. CASE Poll(s)
  <2>1. SameHandle(t) /\ sox'[t] = sox[t] /\ opened' = opened /\ files'[t] = files[t]
    BY <1>0, <1>2 DEF Poll, OutsideDriver, SameHandle, handleVars, soxVars, histVars
  <2>2. CASE Return(s)
    BY <1>0, <2>1, <2>2, ReturnSame DEF Same
  <2>3. CASE ~Return(s)
    BY <1>0, <1>2, <2>1, <2>3 DEF Poll, Goto, EndRound, Same, localVars
  <2> QED BY <2>2, <2>3, <2>1
<1>3. CASE Count(s) \/ TranscribeClip(s)
  <2>1. SameHandle(t) /\ sox' = sox /\ opened' = opened
    BY <1>3 DEF Count, TranscribeClip, OutsideDriver, SameHandle,
                handleVars, soxVars, histVars
  <2>2. CASE Count(s)
    BY <1>0, <2>1, <2>2 DEF Count, Goto, Same, localVars
  <2>3. CASE TranscribeClip(s)
    <3>1. pc' = pc /\ running' = running /\ present' = present /\ counted' = counted
      BY <2>3 DEF TranscribeClip
    <3>2. files'[t] = files[t] /\ text'[t] = text[t] /\ transcribed'[t] = transcribed[t]
      BY <1>0, <2>3 DEF TranscribeClip
    <3> QED BY <2>1, <3>1, <3>2 DEF Same
  <2> QED BY <1>3, <2>1, <2>2, <2>3
<1>4. CASE ClipsDone(s) \/ Mark(s)
  <2>1. SameHandle(t) /\ sox' = sox /\ opened' = opened
    BY <1>4 DEF ClipsDone, Mark, OutsideDriver, SameHandle, handleVars, soxVars, histVars
  <2> QED BY <1>0, <1>4, <2>1 DEF ClipsDone, Mark, Goto, Same, localVars
<1>5. CASE Decide(s)
  <2>1. SameHandle(t) /\ sox' = sox /\ opened' = opened /\ files' = files
    BY <1>5 DEF Decide, OutsideDriver, SameHandle, handleVars, soxVars, histVars
  <2>2. CASE Return(s)
    BY <1>0, <2>1, <2>2, ReturnSame DEF Same
  <2>3. CASE ~Return(s)
    BY <1>0, <1>5, <2>1, <2>3 DEF Decide, Goto, EndRound, Same, localVars
  <2> QED BY <2>1, <2>2, <2>3
<1>6. CASE EndContinuous(s)
  <2>1. SameHandle(t) /\ opened' = opened /\ files' = files
    BY <1>6 DEF EndContinuous, SameHandle, Session, None, histVars
  <2>2. CASE Return(s)
    BY <1>0, <1>6, <2>1, <2>2, ReturnSame DEF EndContinuous, Same
  <2>3. CASE ~Return(s)
    BY <1>0, <1>6, <2>1, <2>3 DEF EndContinuous, Goto, Same, localVars
  <2> QED BY <2>1, <2>2, <2>3
<1>7. CASE Deliver(s) \/ DriverPanics(s)
  <2>1. Return(s) /\ SameHandle(t)
    BY <1>7 DEF Deliver, DriverPanics, OutsideDriver, SameHandle,
                handleVars, soxVars, histVars
  <2>2. sox' = sox /\ opened' = opened /\ files'[t] = files[t]
    BY <1>0, <1>7 DEF Deliver, DriverPanics, OutsideDriver, soxVars
  <2> QED BY <1>0, <2>1, <2>2, ReturnSame DEF Same
<1> QED BY <1>1, <1>2, <1>3, <1>4, <1>5, <1>6, <1>7 DEF Driver

-----------------------------------------------------------------------------
(* Sessions that a step is of, one lemma per step *)

\* The driver's return, or its death: nothing is left to say.
LEMMA ReturnKeeps ==
  ASSUME CInv, Types', NEW s \in Session, pc[s] # "none",
         Return(s), continuous' = s => continuous = s,
         started' = started, s \in cancelled' <=> s \in cancelled,
         s \in replaced' <=> s \in replaced,
         opened' = opened, sox'[s] = sox[s], files'[s] = files[s] \/ files'[s] = {},
         Over(s)'
  PROVE  SessionInv(s)'
<1> USE DEF CInv, Types
<1>1. SessionInv(s) /\ s \in Nat /\ started \in Nat /\ Clips[s] \in Nat
  BY ContinuousAssumption DEF HandleTypes, Session
<1>2. /\ pc'[s] = "done" /\ present'[s] = 0 /\ transcribed'[s] = 0
      /\ counted'[s] = 0 /\ text'[s] = <<>>
  BY DEF Return, Goto, EndRound, PlaceTypes, CountTypes, DataTypes
<1>3. Bounds(s)'
  BY <1>1, <1>2 DEF SessionInv, Bounds, CountTypes
<1>4. Unborn(s)' /\ Held(s)' /\ Dropped(s)' /\ Left(s)' /\ SoxKnown(s)'
  BY <1>1, <1>2 DEF SessionInv, Unborn, Held, Dropped, Left, SoxKnown
<1>5. Counting(s)' /\ Ordered(s)'
  BY <1>2 DEF Counting, Ordered
<1> QED BY <1>3, <1>4, <1>5 DEF SessionInv

\* What the next lemmas use of the invariant for a session.
LEMMA SessionFacts ==
  ASSUME CInv, NEW s \in Session
  PROVE  /\ s \in Nat /\ s >= 1 /\ started \in Nat /\ Clips[s] \in Nat
         /\ opened[s] \in Nat /\ present[s] \in Nat
         /\ transcribed[s] \in Nat /\ counted[s] \in Nat
         /\ files[s] \subseteq Nat /\ text[s] \in Seq(Nat)
         /\ Bounds(s) /\ Unborn(s) /\ Held(s) /\ Over(s) /\ Dropped(s) /\ Left(s)
         /\ SoxKnown(s) /\ Counting(s) /\ Ordered(s)
<1>1. s \in Nat /\ s >= 1 /\ started \in Nat /\ Clips[s] \in Nat
  BY ContinuousAssumption DEF CInv, Types, HandleTypes, Session
<1>2. /\ opened[s] \in Nat /\ present[s] \in Nat
      /\ transcribed[s] \in Nat /\ counted[s] \in Nat
  BY DEF CInv, Types, CountTypes
<1>3. files[s] \subseteq Nat /\ text[s] \in Seq(Nat)
  BY DEF CInv, Types, DataTypes
<1>4. SessionInv(s)
  BY DEF CInv
<1> QED BY <1>1, <1>2, <1>3, <1>4 DEF SessionInv

\* A clip that sox opens keeps it.
LEMMA OpenClipKeeps ==
  ASSUME CInv, Types', NEW s \in Session, OpenClip(s)
  PROVE  SessionInv(s)'
<1> USE DEF OpenClip, handleVars, localVars, histVars
<1>1. opened'[s] = opened[s] + 1 /\ files'[s] = files[s] \cup {opened[s] + 1}
  BY DEF CInv, Types, CountTypes, DataTypes
<1>2. /\ pc' = pc /\ sox' = sox /\ running' = running /\ present' = present
      /\ transcribed' = transcribed /\ text' = text /\ counted' = counted
      /\ continuous' = continuous /\ started' = started
      /\ cancelled' = cancelled /\ replaced' = replaced
  OBVIOUS
<1>3. sox[s] = "on" /\ opened[s] < Clips[s]
  OBVIOUS
<1>4. Bounds(s)'
  BY <1>1, <1>2, <1>3, SessionFacts DEF Bounds
<1>5. s <= started /\ Unborn(s)' /\ Held(s)' /\ Dropped(s)' /\ Over(s)'
  BY <1>2, <1>3, SessionFacts DEF Unborn, Held, Dropped, Over
<1>6. Left(s)'
  <2>1. transcribed[s] <= opened[s]
    BY SessionFacts DEF Bounds
  <2>2. (transcribed[s] + 1)..(opened[s] + 1)
          = ((transcribed[s] + 1)..opened[s]) \cup {opened[s] + 1}
    BY <2>1, SessionFacts
  <2> QED BY <1>1, <1>2, <2>2, SessionFacts DEF Left
<1>7. SoxKnown(s)'
  BY <1>2, SessionFacts DEF SoxKnown
<1>8. Counting(s)' /\ Ordered(s)'
  BY <1>2, SessionFacts DEF Counting, Ordered
<1> QED BY <1>4, <1>5, <1>6, <1>7, <1>8 DEF SessionInv

\* So do sox ending by itself and the silence going by.
LEMMA SoxOrTimeKeeps ==
  ASSUME CInv, Types', NEW s \in Session, SoxExits(s) \/ SilenceElapses(s)
  PROVE  SessionInv(s)'
<1>1. /\ pc' = pc /\ opened' = opened /\ files' = files /\ running' = running
      /\ present' = present /\ transcribed' = transcribed /\ text' = text
      /\ counted' = counted /\ continuous' = continuous /\ started' = started
      /\ cancelled' = cancelled /\ replaced' = replaced
  BY DEF SoxExits, SilenceElapses, handleVars, soxVars, localVars, histVars
<1>2. sox'[s] = sox[s] \/ (sox[s] = "on" /\ sox'[s] = "off")
  BY DEF SoxExits, SilenceElapses, soxVars, CInv, Types, PlaceTypes
<1>3. Bounds(s)' /\ Left(s)' /\ Ordered(s)'
  BY <1>1, SessionFacts DEF Bounds, Left, Ordered
<1>4. Unborn(s)' /\ Held(s)' /\ Dropped(s)' /\ Over(s)'
  BY <1>1, <1>2, SessionFacts DEF Unborn, Held, Dropped, Over
<1>5. SoxKnown(s)'
  BY <1>1, <1>2, SessionFacts DEF SoxKnown
<1>6. Counting(s)'
  BY <1>1, SessionFacts DEF Counting
<1> QED BY <1>3, <1>4, <1>5, <1>6 DEF SessionInv

\* So does the look of the driver at the handle, at the top of its loop.
LEMMA PollKeeps ==
  ASSUME CInv, Types', NEW s \in Session, Poll(s)
  PROVE  SessionInv(s)'
<1>1. /\ opened' = opened /\ files' = files /\ sox' = sox /\ continuous' = continuous
      /\ started' = started /\ cancelled' = cancelled /\ replaced' = replaced
  BY DEF Poll, OutsideDriver, handleVars, soxVars, histVars
<1>2. pc[s] = "poll"
  BY DEF Poll, At
<1>3. Over(s)'
  BY <1>1, <1>2, SessionFacts DEF Over
<1>4. CASE Return(s) /\ continuous # s
  BY <1>1, <1>2, <1>3, <1>4, ReturnKeeps
<1>5. CASE continuous = s /\ pc' = [pc EXCEPT ![s] = "count"]
           /\ running' = [running EXCEPT ![s] = sox[s] = "on"]
           /\ UNCHANGED <<present, transcribed, text, counted>>
  <2>1. pc'[s] = "count"
    BY <1>5 DEF CInv, Types, PlaceTypes
  <2>2. running'[s] <=> sox[s] = "on"
    BY <1>5 DEF CInv, Types, FlagTypes
  <2>3. Bounds(s)' /\ Left(s)' /\ Ordered(s)'
    BY <1>1, <1>2, <1>5, <2>1, SessionFacts DEF Bounds, Left, Ordered
  <2>4. Unborn(s)' /\ Held(s)' /\ Dropped(s)' /\ Counting(s)'
    BY <1>1, <1>2, <1>5, <2>1, SessionFacts DEF Unborn, Held, Dropped, Counting, Active
  <2>5. SoxKnown(s)'
    BY <1>1, <2>2 DEF SoxKnown
  <2> QED BY <1>3, <2>3, <2>4, <2>5 DEF SessionInv
<1> QED BY <1>4, <1>5 DEF Poll, Goto

\* The count of a directory that holds the clips still to come.
LEMMA CountKeeps ==
  ASSUME CInv, Types', NEW s \in Session, Count(s)
  PROVE  SessionInv(s)'
<1>1. /\ opened' = opened /\ files' = files /\ sox' = sox /\ continuous' = continuous
      /\ started' = started /\ cancelled' = cancelled /\ replaced' = replaced
      /\ running' = running /\ transcribed' = transcribed /\ text' = text
  BY DEF Count, OutsideDriver, handleVars, soxVars, histVars
<1>2. pc[s] = "count" /\ pc'[s] = "clips"
  BY DEF Count, At, Goto, CInv, Types, PlaceTypes
<1>3. present'[s] = Cardinality(files[s]) /\ counted'[s] = opened[s]
  BY DEF Count, CInv, Types, CountTypes
<1>4. Bounds(s)'
  <2>1. IsFiniteSet(1..opened[s]) /\ Cardinality(1..opened[s]) = opened[s]
    <3>1. opened[s] \in Nat
      BY SessionFacts
    <3>2. /\ IsFiniteSet(1..opened[s])
          /\ Cardinality(1..opened[s]) = IF 1 > opened[s] THEN 0 ELSE opened[s] - 1 + 1
      BY <3>1, FS_Interval
    <3> QED BY <3>1, <3>2
  <2>2. Cardinality(files[s]) <= opened[s]
    BY <2>1, SessionFacts, FS_Subset DEF Bounds
  <2> QED BY <1>1, <1>3, <2>2, SessionFacts DEF Bounds
<1>5. Counting(s)'
  <2>1. SUFFICES ASSUME s \notin cancelled
                 PROVE  opened[s] <= Cardinality(files[s]) + transcribed[s]
    BY <1>1, <1>2, <1>3 DEF Counting
  <2> DEFINE from == transcribed[s] + 1
  <2>2. from..opened[s] \subseteq files[s]
    BY <1>2, <2>1, SessionFacts DEF Left
  <2>3. from \in Int /\ opened[s] \in Int /\ transcribed[s] <= opened[s]
    BY SessionFacts DEF Bounds
  <2>4. Cardinality(from..opened[s])
          = IF from > opened[s] THEN 0 ELSE opened[s] - from + 1
    BY <2>3, FS_Interval
  <2>5. IsFiniteSet(files[s])
    <3>1. 1 \in Int /\ IsFiniteSet(1..opened[s])
      BY <2>3, FS_Interval
    <3> QED BY <3>1, FS_Subset, SessionFacts DEF Bounds
  <2>6. /\ Cardinality(from..opened[s]) <= Cardinality(files[s])
        /\ Cardinality(files[s]) \in Nat
    BY <2>2, <2>5, FS_Subset, FS_CardinalityType
  <2> QED BY <2>3, <2>4, <2>6, SessionFacts
<1>6. Left(s)' /\ Ordered(s)'
  BY <1>1, <1>2, SessionFacts DEF Left, Ordered
<1>7. Unborn(s)' /\ Held(s)' /\ Dropped(s)' /\ Over(s)'
  BY <1>1, <1>2, SessionFacts DEF Unborn, Held, Dropped, Over, Active
<1>8. SoxKnown(s)'
  BY <1>1, <1>2, SessionFacts DEF SoxKnown
<1> QED BY <1>4, <1>5, <1>6, <1>7, <1>8 DEF SessionInv

\* The text grows by a number larger than all in it.
LEMMA TextGrows ==
  ASSUME CInv, NEW s \in Session,
         NEW grown, grown = text[s] \/ grown = Append(text[s], transcribed[s] + 1)
  PROVE  \A i \in 1..Len(grown) :
           /\ grown[i] \in 1..(transcribed[s] + 1)
           /\ i > 1 => grown[i - 1] < grown[i]
<1> DEFINE q == text[s]
           clip == transcribed[s] + 1
<1>1. q \in Seq(Nat) /\ Len(q) \in Nat /\ clip \in Nat /\ transcribed[s] \in Nat
  BY SessionFacts
<1>2. \A i \in 1..Len(q) : q[i] \in 1..transcribed[s] /\ (i > 1 => q[i - 1] < q[i])
  BY SessionFacts DEF Ordered
<1>3. CASE grown = q
  BY <1>1, <1>2, <1>3
<1>4. CASE grown = Append(q, clip)
  <2>1. /\ Len(grown) = Len(q) + 1 /\ grown[Len(q) + 1] = clip
        /\ \A i \in 1..Len(q) : grown[i] = q[i]
    BY <1>1, <1>4, AppendProperties
  <2> HIDE DEF q, clip
  <2>2. ASSUME NEW i \in 1..Len(grown)
        PROVE  grown[i] \in 1..clip /\ (i > 1 => grown[i - 1] < grown[i])
    <3>1. clip = transcribed[s] + 1
      BY DEF clip
    <3>2. CASE i \in 1..Len(q)
      <4>1. grown[i] = q[i] /\ q[i] \in 1..transcribed[s]
        BY <1>2, <2>1, <3>2
      <4>2. i > 1 => i - 1 \in 1..Len(q) /\ q[i - 1] < q[i]
        BY <1>1, <1>2, <3>2
      <4> QED BY <1>1, <2>1, <3>1, <4>1, <4>2
    <3>3. CASE i = Len(q) + 1
      <4>1. i > 1 => i - 1 \in 1..Len(q)
        BY <1>1, <3>3
      <4>2. i > 1 => grown[i - 1] \in 1..transcribed[s]
        BY <1>2, <2>1, <4>1
      <4> QED BY <1>1, <2>1, <3>1, <3>3, <4>2
    <3> QED BY <1>1, <2>1, <3>2, <3>3
  <2> QED BY <2>2 DEF clip
<1> QED BY <1>3, <1>4 DEF q, clip

\* So does the transcription of a clip.
LEMMA TranscribeClipKeeps ==
  ASSUME CInv, Types', NEW s \in Session, TranscribeClip(s)
  PROVE  SessionInv(s)'
<1>1. /\ opened' = opened /\ sox' = sox /\ continuous' = continuous /\ pc' = pc
      /\ started' = started /\ cancelled' = cancelled /\ replaced' = replaced
      /\ running' = running /\ present' = present /\ counted' = counted
  BY DEF TranscribeClip, OutsideDriver, handleVars, soxVars, histVars
<1>2. /\ transcribed'[s] = transcribed[s] + 1
      /\ files'[s] = files[s] \/ files'[s] = files[s] \ {transcribed[s] + 1}
  BY DEF TranscribeClip, CInv, Types, CountTypes, DataTypes
<1>3. text'[s] = text[s] \/ text'[s] = Append(text[s], transcribed[s] + 1)
  BY DEF TranscribeClip, CInv, Types, DataTypes
<1>4. pc[s] = "clips" /\ transcribed[s] < Finalized(s)
  BY DEF TranscribeClip, At
<1>5. Finalized(s) \in Nat /\ Finalized(s) <= present[s]
  BY FinalizedProperties DEF CInv, Types, CountTypes, FlagTypes
<1>6. Bounds(s)'
  BY <1>1, <1>2, <1>4, <1>5, SessionFacts DEF Bounds
<1>7. Left(s)'
  <2>1. (transcribed[s] + 2)..opened[s]
          = ((transcribed[s] + 1)..opened[s]) \ {transcribed[s] + 1}
    BY SessionFacts
  <2>2. (transcribed[s] + 1) + 1 = transcribed[s] + 2
    BY SessionFacts
  <2> QED BY <1>1, <1>2, <2>1, <2>2, SessionFacts DEF Left
<1>8. Ordered(s)'
  <2> DEFINE grown == text'[s]
  <2>1. \A i \in 1..Len(grown) :
          /\ grown[i] \in 1..(transcribed[s] + 1)
          /\ i > 1 => grown[i - 1] < grown[i]
    BY <1>3, TextGrows
  <2> QED BY <1>2, <2>1 DEF Ordered
<1>9. Unborn(s)' /\ Held(s)' /\ Dropped(s)'
  BY <1>1, SessionFacts DEF Unborn, Held, Dropped
<1>10. Over(s)' /\ SoxKnown(s)'
  BY <1>1, <1>2, SessionFacts DEF Over, SoxKnown
<1>11. Counting(s)'
  BY <1>1, <1>2, <1>4, SessionFacts DEF Counting
<1> QED BY <1>6, <1>7, <1>8, <1>9, <1>10, <1>11 DEF SessionInv

\* So does the death of a driver: its session keeps sox and the directory.
LEMMA DriverPanicsKeeps ==
  ASSUME CInv, Types', NEW s \in Session, DriverPanics(s)
  PROVE  SessionInv(s)'
<1>1. /\ pc[s] = "clips" /\ Return(s) /\ files' = files
      /\ opened' = opened /\ sox' = sox /\ continuous' = continuous
      /\ started' = started /\ cancelled' = cancelled /\ replaced' = replaced
  BY DEF DriverPanics, At, OutsideDriver, handleVars, soxVars, histVars
<1>2. Over(s)'
  BY <1>1, SessionFacts DEF Over
<1> QED BY <1>1, <1>2, ReturnKeeps

\* The round's share of the clips is transcribed.
LEMMA ClipsDoneKeeps ==
  ASSUME CInv, Types', NEW s \in Session, ClipsDone(s) \/ Mark(s)
  PROVE  SessionInv(s)'
<1>1. /\ opened' = opened /\ sox' = sox /\ continuous' = continuous /\ files' = files
      /\ started' = started /\ cancelled' = cancelled /\ replaced' = replaced
      /\ running' = running /\ present' = present /\ counted' = counted
      /\ transcribed' = transcribed /\ text' = text
  BY DEF ClipsDone, Mark, OutsideDriver, handleVars, soxVars, histVars, localVars
<1>2. /\ pc[s] \in {"clips", "mark"} /\ pc'[s] \in {"mark", "decide"}
      /\ pc[s] = "clips" => transcribed[s] >= Finalized(s)
  BY DEF ClipsDone, Mark, At, Goto, CInv, Types, PlaceTypes
<1>3. Bounds(s)' /\ Ordered(s)'
  BY <1>1, SessionFacts DEF Bounds, Ordered
<1>4. Unborn(s)' /\ Held(s)' /\ Dropped(s)' /\ SoxKnown(s)'
  BY <1>1, <1>2, SessionFacts DEF Unborn, Held, Dropped, SoxKnown, Active
<1>5. Over(s)' /\ Left(s)'
  BY <1>1, <1>2, SessionFacts DEF Over, Left
<1>6. Counting(s)'
  <2>1. Finalized(s) \in Nat /\ present[s] <= Finalized(s) + 1
    BY FinalizedProperties DEF CInv, Types, CountTypes, FlagTypes
  <2> QED BY <1>1, <1>2, <2>1, SessionFacts DEF Counting
<1> QED BY <1>3, <1>4, <1>5, <1>6 DEF SessionInv

\* So does the decision whether the session is to end.
LEMMA DecideKeeps ==
  ASSUME CInv, Types', NEW s \in Session, Decide(s)
  PROVE  SessionInv(s)'
<1>1. /\ opened' = opened /\ files' = files /\ sox' = sox /\ continuous' = continuous
      /\ started' = started /\ cancelled' = cancelled /\ replaced' = replaced
  BY DEF Decide, OutsideDriver, handleVars, soxVars, histVars
<1>2. pc[s] = "decide"
  BY DEF Decide, At
<1>3. CASE Return(s) /\ continuous # s
  <2>1. Over(s)'
    BY <1>1, <1>2, SessionFacts DEF Over
  <2> QED BY <1>1, <1>2, <1>3, <2>1, ReturnKeeps
<1>4. CASE /\ continuous = s
           /\ \/ pc' = [pc EXCEPT ![s] = "ending"] /\ counted' = counted
              \/ pc' = [pc EXCEPT ![s] = "poll"] /\ counted' = [counted EXCEPT ![s] = 0]
           /\ UNCHANGED <<present, transcribed, text>>
  <2>1. /\ pc'[s] \in {"ending", "poll"}
        /\ pc'[s] = "ending" => counted'[s] = counted[s]
        /\ counted'[s] \in {0, counted[s]}
    BY <1>4 DEF CInv, Types, PlaceTypes, CountTypes
  <2>2. Bounds(s)' /\ Ordered(s)'
    BY <1>1, <1>4, <2>1, SessionFacts DEF Bounds, Ordered
  <2>5. Left(s)'
    BY <1>1, <1>2, <1>4, SessionFacts DEF Left
  <2>3. Unborn(s)' /\ Held(s)' /\ Dropped(s)' /\ SoxKnown(s)' /\ Over(s)'
    BY <1>1, <1>2, <1>4, <2>1, SessionFacts
       DEF Unborn, Held, Dropped, SoxKnown, Over, Active
  <2>4. Counting(s)'
    BY <1>1, <1>2, <1>4, <2>1, SessionFacts DEF Counting
  <2> QED BY <2>2, <2>3, <2>4, <2>5 DEF SessionInv
<1> QED BY <1>3, <1>4 DEF Decide, Goto, EndRound

\* So does the end of a session.
LEMMA EndContinuousKeeps ==
  ASSUME CInv, Types', NEW s \in Session, EndContinuous(s)
  PROVE  SessionInv(s)'
<1>1. /\ opened' = opened /\ files' = files
      /\ started' = started /\ cancelled' = cancelled /\ replaced' = replaced
  BY DEF EndContinuous, histVars
<1>2. pc[s] = "ending"
  BY DEF EndContinuous, At
<1>3. CASE Return(s) /\ continuous # s /\ UNCHANGED <<continuous, sox>>
  <2>1. Over(s)'
    BY <1>1, <1>2, <1>3, SessionFacts DEF Over
  <2> QED BY <1>1, <1>2, <1>3, <2>1, ReturnKeeps
<1>4. CASE /\ continuous = s /\ continuous' = None
           /\ pc' = [pc EXCEPT ![s] = "deliver"] /\ sox' = [sox EXCEPT ![s] = "off"]
           /\ UNCHANGED localVars
  <2>1. pc'[s] = "deliver" /\ sox'[s] = "off" /\ continuous' # s
    BY <1>4 DEF CInv, Types, PlaceTypes, None, Session
  <2>2. /\ running' = running /\ present' = present /\ counted' = counted
        /\ transcribed' = transcribed /\ text' = text
    BY <1>4 DEF localVars
  <2>3. Bounds(s)' /\ Left(s)' /\ Ordered(s)'
    BY <1>1, <1>2, <2>1, <2>2, SessionFacts DEF Bounds, Left, Ordered
  <2>4. Unborn(s)' /\ Held(s)' /\ Dropped(s)' /\ SoxKnown(s)' /\ Over(s)'
    BY <1>1, <1>2, <1>4, <2>1, <2>2, SessionFacts
       DEF Unborn, Held, Dropped, SoxKnown, Over
  <2>5. Counting(s)'
    BY <1>1, <1>2, <2>1, <2>2, SessionFacts DEF Counting
  <2> QED BY <2>3, <2>4, <2>5 DEF SessionInv
<1> QED BY <1>3, <1>4 DEF EndContinuous, Goto

\* So does the removal of its directory and the delivery of what it has said.
LEMMA DeliverKeeps ==
  ASSUME CInv, Types', NEW s \in Session, Deliver(s)
  PROVE  SessionInv(s)'
<1>1. /\ pc[s] = "deliver" /\ Return(s)
      /\ opened' = opened /\ sox' = sox /\ continuous' = continuous
      /\ started' = started /\ cancelled' = cancelled /\ replaced' = replaced
  BY DEF Deliver, At, handleVars, soxVars, histVars
<1>2. files'[s] = {}
  BY DEF Deliver, CInv, Types, DataTypes
<1>3. continuous # s
  BY <1>1, SessionFacts DEF Held, Active
<1>4. Over(s)'
  BY <1>1, <1>2, SessionFacts DEF Over
<1> QED BY <1>1, <1>2, <1>3, <1>4, ReturnKeeps

-----------------------------------------------------------------------------
(* Commands *)

\* The new session is fresh; the one it may replace is marked.
LEMMA StartContinuousKeeps ==
  ASSUME CInv, Types', NEW s \in Session, StartContinuous
  PROVE  SessionInv(s)'
<1> DEFINE new == started + 1
<1>1. /\ started' = new /\ continuous' = new /\ new \in Session
      /\ opened' = opened /\ files' = files /\ running' = running
      /\ present' = present /\ transcribed' = transcribed /\ text' = text
      /\ counted' = counted /\ cancelled' = cancelled
      /\ replaced' = replaced \cup ({continuous} \cap Session)
  BY ContinuousAssumption
     DEF StartContinuous, Session, localVars, CInv, Types, HandleTypes
<1>2. /\ pc' = [pc EXCEPT ![new] = "poll"] /\ sox' = [sox EXCEPT ![new] = "on"]
  BY DEF StartContinuous
<1>3. new \in Nat /\ started \in Nat /\ s \in Nat
  BY SessionFacts
<1>4. CASE s = new
  <2>1. pc'[s] = "poll" /\ sox'[s] = "on"
    BY <1>2, <1>4 DEF CInv, Types, PlaceTypes
  <2>2. /\ opened[s] = 0 /\ continuous # s /\ s \notin cancelled /\ s \notin replaced
        /\ pc[s] = "none" /\ started < s
    BY <1>3, <1>4, SessionFacts DEF Unborn
  <2>3. Bounds(s)' /\ Ordered(s)' /\ Left(s)'
    BY <1>1, <2>1, <2>2, SessionFacts DEF Bounds, Ordered, Left
  <2>4. Unborn(s)' /\ Held(s)' /\ Dropped(s)' /\ SoxKnown(s)' /\ Over(s)' /\ Counting(s)'
    BY <1>1, <1>3, <1>4, <2>1, <2>2
       DEF Unborn, Held, Dropped, SoxKnown, Over, Counting, Active
  <2> QED BY <2>3, <2>4 DEF SessionInv
<1>5. CASE s # new
  <2>1. pc'[s] = pc[s] /\ sox'[s] = sox[s]
    BY <1>2, <1>5 DEF CInv, Types, PlaceTypes
  <2>2. continuous' # s /\ (s > started' <=> s > started)
        /\ (s \in replaced' <=> s \in replaced \/ continuous = s)
    BY <1>1, <1>3, <1>5
  <2>3. Bounds(s)' /\ Ordered(s)' /\ Left(s)'
    BY <1>1, <2>1, SessionFacts DEF Bounds, Ordered, Left
  <2>4. Unborn(s)' /\ Held(s)' /\ Dropped(s)'
    BY <1>1, <1>3, <2>1, <2>2, SessionFacts DEF Unborn, Held, Dropped
  <2>5. Over(s)'
    BY <1>1, <1>3, <2>1, <2>2, SessionFacts DEF Over
  <2>6. SoxKnown(s)'
    BY <1>1, <2>1, SessionFacts DEF SoxKnown
  <2>7. Counting(s)'
    BY <1>1, <2>1, SessionFacts DEF Counting
  <2> QED BY <2>3, <2>4, <2>5, <2>6, <2>7 DEF SessionInv
<1> QED BY <1>4, <1>5

\* So does discarding the recording, of whichever session it is.
LEMMA DiscardRecordingKeeps ==
  ASSUME CInv, Types', NEW s \in Session, DiscardRecording
  PROVE  SessionInv(s)'
<1>1. /\ started' = started /\ continuous' = None /\ continuous' # s
      /\ opened' = opened /\ pc' = pc /\ running' = running
      /\ present' = present /\ transcribed' = transcribed /\ text' = text
      /\ counted' = counted /\ replaced' = replaced
      /\ cancelled' = cancelled \cup ({continuous} \cap Session)
  BY DEF DiscardRecording, Session, localVars, None
<1>2. CASE continuous = s
  <2>1. sox'[s] = "off" /\ files'[s] = {} /\ s \in cancelled'
    BY <1>1, <1>2 DEF DiscardRecording
  <2>2. pc[s] \in Active \cup {"done"}
    BY <1>2, SessionFacts DEF Held
  <2>3. Bounds(s)' /\ Ordered(s)' /\ Left(s)'
    BY <1>1, <2>1, SessionFacts DEF Bounds, Ordered, Left
  <2>4. Unborn(s)' /\ Held(s)' /\ Dropped(s)' /\ SoxKnown(s)' /\ Over(s)' /\ Counting(s)'
    BY <1>1, <1>2, <2>1, <2>2, SessionFacts
       DEF Unborn, Held, Dropped, SoxKnown, Over, Counting, Active
  <2> QED BY <2>3, <2>4 DEF SessionInv
<1>3. CASE continuous # s
  <2>1. Same(s)
    BY <1>1, <1>3 DEF DiscardRecording, Same
  <2>2. SameHandle(s)
    BY <1>1, <1>3 DEF SameHandle
  <2> QED BY <2>1, <2>2, OthersKeep DEF CInv
<1> QED BY <1>2, <1>3

-----------------------------------------------------------------------------
(* The queue, and all together *)

\* Only a step of a session's last stretch, and only once, appends to the queue.
LEMMA QueuedKeeps == CInv /\ Types' /\ Next => Queued'
<1> SUFFICES ASSUME CInv, Types', Next PROVE Queued'
  OBVIOUS
<1>0. delivered \in Seq(Session) /\ Queued /\ pc \in [Session -> Active \cup {"none", "deliver", "done"}]
  BY DEF CInv, Types, HandleTypes, PlaceTypes
<1>1. \A i \in DOMAIN delivered : delivered[i] \in Session
  BY <1>0
<1>2. CASE StartContinuous
  <2>1. \A s \in Session : pc[s] = "done" => pc'[s] = "done"
    <3>1. ASSUME NEW s \in Session, pc[s] = "done" PROVE pc'[s] = "done"
      <4>1. s # started + 1
        BY <3>1, SessionFacts DEF Unborn
      <4> QED BY <1>0, <1>2, <3>1, <4>1 DEF StartContinuous
    <3> QED BY <3>1
  <2>2. \A i \in DOMAIN delivered : delivered[i] # started + 1
    <3>1. ASSUME NEW i \in DOMAIN delivered PROVE delivered[i] # started + 1
      <4> DEFINE s == delivered[i]
      <4>1. s \in Session /\ pc[s] = "done"
        BY <1>0, <1>1 DEF Queued
      <4> HIDE DEF s
      <4>2. s # started + 1
        BY <4>1, SessionFacts DEF Unborn
      <4> QED BY <4>2 DEF s
    <3> QED BY <3>1
  <2> QED BY <1>0, <1>1, <1>2, <2>1, <2>2 DEF StartContinuous, Queued
<1>3. CASE DiscardRecording
  <2>1. \A i \in DOMAIN delivered : delivered[i] # continuous /\ delivered[i] # None
    BY <1>0, <1>1 DEF Queued, Session, None
  <2> QED BY <1>0, <1>3, <2>1 DEF DiscardRecording, Queued
<1>4. CASE StopAndEnqueue
  BY <1>0, <1>4 DEF StopAndEnqueue, histVars, Queued
<1>5. ASSUME NEW s \in Session, OpenClip(s) \/ SoxExits(s) \/ SilenceElapses(s)
      PROVE  Queued'
  BY <1>0, <1>5 DEF OpenClip, SoxExits, SilenceElapses, handleVars, histVars, Queued
<1>6. ASSUME NEW s \in Session,
             \/ Poll(s) \/ Count(s) \/ TranscribeClip(s) \/ DriverPanics(s)
             \/ ClipsDone(s) \/ Mark(s) \/ Decide(s) \/ EndContinuous(s)
      PROVE  Queued'
  <2>1. /\ delivered' = delivered /\ cancelled' = cancelled
        /\ continuous' = continuous \/ continuous' = None
    BY <1>6 DEF Poll, Count, TranscribeClip, DriverPanics, ClipsDone, Mark, Decide,
      EndContinuous, OutsideDriver, handleVars, histVars
  <2>2. pc' = pc \/ (\E there : pc' = [pc EXCEPT ![s] = there])
    BY <1>6 DEF Poll, Count, TranscribeClip, DriverPanics, ClipsDone, Mark, Decide,
      EndContinuous, Return, Goto
  <2>3. pc[s] # "done"
    BY <1>6 DEF Poll, Count, TranscribeClip, DriverPanics, ClipsDone, Mark, Decide,
      EndContinuous, At
  <2>4. \A t \in Session : pc[t] = "done" => pc'[t] = "done"
    BY <1>0, <2>2, <2>3
  <2>5. \A t \in Session : t # None
    BY DEF Session, None
  <2> QED BY <1>0, <1>1, <2>1, <2>4, <2>5 DEF Queued
<1>7. ASSUME NEW s \in Session, Deliver(s) PROVE Queued'
  <2>1. /\ pc[s] = "deliver" /\ pc' = [pc EXCEPT ![s] = "done"]
        /\ cancelled' = cancelled /\ continuous' = continuous
        /\ delivered' = delivered \/ delivered' = Append(delivered, s)
    BY <1>7 DEF Deliver, At, Return, Goto, handleVars, histVars
  <2>2. s \notin cancelled /\ continuous # s
    BY <2>1, SessionFacts DEF Dropped, Held, Active
  <2>3. \A i \in DOMAIN delivered : delivered[i] # s
    BY <1>0, <2>1 DEF Queued
  <2>4. \A t \in Session : pc[t] = "done" \/ t = s => pc'[t] = "done"
    BY <1>0, <2>1
  <2>5. CASE delivered' = delivered
    BY <1>0, <1>1, <2>1, <2>4, <2>5 DEF Queued
  <2>6. CASE delivered' = Append(delivered, s)
    <3>1. /\ Len(delivered) \in Nat /\ Len(delivered') = Len(delivered) + 1
          /\ \A i \in 1..Len(delivered) : delivered'[i] = delivered[i]
          /\ delivered'[Len(delivered) + 1] = s
      BY <1>0, <2>6, AppendProperties
    <3>2. /\ DOMAIN delivered = 1..Len(delivered)
          /\ DOMAIN delivered' = 1..(Len(delivered) + 1)
      BY <1>0, <2>6
    <3>3. ASSUME NEW i \in DOMAIN delivered'
          PROVE  /\ pc'[delivered'[i]] = "done" /\ delivered'[i] \notin cancelled'
                 /\ continuous' # delivered'[i]
      BY <1>0, <1>1, <2>1, <2>2, <2>4, <3>1, <3>2 DEF Queued
    <3>4. ASSUME NEW i \in DOMAIN delivered', NEW j \in DOMAIN delivered',
                 delivered'[i] = delivered'[j]
          PROVE  i = j
      BY <1>0, <2>3, <3>1, <3>2, <3>4 DEF Queued
    <3> QED BY <3>3, <3>4 DEF Queued
  <2> QED BY <2>1, <2>5, <2>6
<1> QED BY <1>2, <1>3, <1>4, <1>5, <1>6, <1>7 DEF Next, Driver

\* So does every step.
LEMMA NextCInv == CInv /\ [Next]_vars => CInv'
<1> SUFFICES ASSUME CInv, [Next]_vars PROVE CInv'
  OBVIOUS
<1>1. CASE Next
  <2>1. Types' /\ Queued'
    BY <1>1, NextTypes, QueuedKeeps
  <2>2. ASSUME NEW t \in Session PROVE SessionInv(t)'
    <3>1. SessionInv(t)
      BY DEF CInv
    <3>2. CASE StartContinuous \/ DiscardRecording
      BY <2>1, <3>2, StartContinuousKeeps, DiscardRecordingKeeps
    <3>3. CASE StopAndEnqueue
      <4>1. Same(t) /\ SameHandle(t)
        BY <3>3 DEF StopAndEnqueue, soxVars, localVars, histVars, Same, SameHandle
      <4> QED BY <3>1, <4>1, OthersKeep
    <3>4. ASSUME NEW s \in Session,
                 OpenClip(s) \/ SoxExits(s) \/ SilenceElapses(s) \/ Driver(s)
          PROVE  SessionInv(t)'
      <4>1. CASE t # s
        BY <2>1, <3>1, <3>4, <4>1, OthersSame, OthersKeep
      <4>2. CASE t = s
        BY <2>1, <3>4, <4>2, OpenClipKeeps, SoxOrTimeKeeps, PollKeeps, CountKeeps,
           TranscribeClipKeeps, DriverPanicsKeeps, ClipsDoneKeeps, DecideKeeps,
           EndContinuousKeeps, DeliverKeeps DEF Driver
      <4> QED BY <4>1, <4>2
    <3> QED BY <1>1, <3>2, <3>3, <3>4 DEF Next
  <2> QED BY <2>1, <2>2 DEF CInv
<1>2. CASE UNCHANGED vars
  <2>1. UNCHANGED <<state, continuous, started, sox, opened, files, pc, running, present,
                    progress, transcribed, text, quiet, delivered, cancelled, replaced,
                    counted>>
    BY <1>2 DEF vars, handleVars, soxVars, localVars, histVars
  <2>2. Types'
    BY <2>1 DEF CInv, Types, HandleTypes, FlagTypes, PlaceTypes, CountTypes, DataTypes
  <2>3. ASSUME NEW t \in Session PROVE SessionInv(t)'
    <3>1. Same(t) /\ SameHandle(t) /\ SessionInv(t)
      BY <2>1 DEF Same, SameHandle, CInv
    <3> QED BY <3>1, OthersKeep
  <2>4. Queued'
    BY <2>1 DEF CInv, Queued
  <2> QED BY <2>2, <2>3, <2>4 DEF CInv
<1> QED BY <1>1, <1>2

-----------------------------------------------------------------------------
(* Theorems *)

\* The inductive invariant of the continuous driver.
THEOREM ContinuousInvariance == Spec => []CInv
<1>1. Init => CInv
  BY InitCInv
<1>2. CInv /\ [Next]_vars => CInv'
  BY NextCInv
<1> QED BY <1>1, <1>2, PTL DEF Spec

\* Every variable of the continuous driver keeps its type (main.rs 769-967).
THEOREM ContinuousTypeCorrect == Spec => []TypeOK
BY ContinuousInvariance, CInvTypeOK, PTL

\* A clip is transcribed only when sox has closed it (session.rs,
\* finalized_clip_count), however many clips there are and however the count
\* and the directory drift apart.
THEOREM CompleteClipsOnly == Spec => []OnlyCompleteClips
<1>1. CInv => OnlyCompleteClips
  <2> SUFFICES ASSUME CInv, NEW s \in Session, pc[s] = "clips",
                      transcribed[s] < Finalized(s)
               PROVE  transcribed[s] + 1 \in Complete(s)
    BY DEF OnlyCompleteClips, At
  <2>1. /\ Finalized(s) \in Nat /\ Finalized(s) <= present[s]
        /\ running[s] /\ present[s] # 0 => Finalized(s) = present[s] - 1
    BY FinalizedProperties DEF CInv, Types, CountTypes, FlagTypes
  <2>2. CASE sox[s] = "on"
    <3>1. running[s]
      BY <2>2, SessionFacts DEF SoxKnown
    <3> QED BY <2>1, <2>2, <3>1, SessionFacts DEF Complete, Bounds
  <2>3. CASE sox[s] # "on"
    BY <2>1, <2>3, SessionFacts DEF Complete, Bounds
  <2> QED BY <2>2, <2>3
<1> QED BY <1>1, ContinuousInvariance, PTL

\* Words are assembled in record order, the clips still to come are there while the
\* driver is at work, and a session is delivered at most once, and never after a
\* cancel (main.rs, transcribe_clip and end_continuous), although a clip's file may
\* stay behind and the driver may die.
THEOREM SessionsAssembleInOrder == Spec => []AssembledInOrder
<1>1. CInv => AssembledInOrder
  <2> SUFFICES ASSUME CInv PROVE AssembledInOrder
    OBVIOUS
  <2>1. ASSUME NEW s \in Session, Driven(s)
        PROVE  (transcribed[s] + 1)..opened[s] \subseteq files[s]
    BY <2>1, SessionFacts DEF Driven, Held, Left
  <2>2. ASSUME NEW s \in Session
        PROVE  \A i \in 1..Len(text[s]) :
                 /\ text[s][i] \in 1..transcribed[s]
                 /\ i > 1 => text[s][i - 1] < text[s][i]
    BY <2>2, SessionFacts DEF Ordered
  <2>3. Queued
    BY DEF CInv
  <2> QED BY <2>1, <2>2, <2>3 DEF AssembledInOrder, Queued
<1> QED BY <1>1, ContinuousInvariance, PTL

\* An ended session leaves neither a child nor clips (main.rs, end_continuous and
\* discard_recording), unless another start overwrote its handle.
THEOREM SessionsLeaveNothing == Spec => []NothingLeftRunning
<1>1. CInv => NothingLeftRunning
  <2> SUFFICES ASSUME CInv, NEW s \in Session, s \notin replaced, pc[s] = "done",
                      continuous # s
               PROVE  sox[s] # "on" /\ files[s] = {}
    BY DEF NothingLeftRunning, At
  <2> QED BY SessionFacts DEF Over, Unborn
<1> QED BY <1>1, ContinuousInvariance, PTL

\* Each round gets through half of the clips it found (main.rs, the loop over
\* finalized clips with the directory counted anew).
THEOREM RoundsTranscribeHalf == Spec => []HalfIsTranscribed
<1>1. CInv => HalfIsTranscribed
  BY SessionFacts DEF HalfIsTranscribed, Counting
<1> QED BY <1>1, ContinuousInvariance, PTL

=============================================================================
