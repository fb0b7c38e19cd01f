------------------------------- MODULE Delivery -------------------------------
(***************************************************************************)
(* Ordered delivery in ghostty-voiced (main.rs): the transcription tasks,  *)
(* the single drain they compete for, the registered wrapper sinks and the *)
(* transcript cache.                                                       *)
(*                                                                         *)
(* Every critical section of the one daemon mutex is one action; what a    *)
(* task does between two locks is an action too, so a task can be caught   *)
(* between reading the queue and acting on what it read.  A task is named  *)
(* by its utterance, and utterances are numbered in the order in which     *)
(* their capture stopped.                                                  *)
(***************************************************************************)
EXTENDS DeliveryQueue, SinkRegistry

CONSTANTS
  Modes,           \* the capture modes in use: "batch", "streaming", "continuous"
  MaxUtterances,   \* bound: captures stopped in one behaviour
  MaxSinks,        \* bound: wrappers registered in one behaviour
  MaxFrames,       \* bound: replays and discards wait while a channel is this long
  Keep,            \* config.cache.transcript_keep
  StoreMayFail,    \* can a transcript fail to reach the disk?
  MayPanic         \* has the correction table a phrase that makes it panic?

ASSUME BoundsAssumption == /\ MaxUtterances \in Nat
                           /\ MaxSinks \in Nat
                           /\ MaxFrames \in Nat
ASSUME ModesAssumption == Modes \subseteq {"batch", "streaming", "continuous"}
ASSUME KeepAssumption == Keep \in Nat
ASSUME FaultAssumption == StoreMayFail \in BOOLEAN /\ MayPanic \in BOOLEAN

Utterance == 1 .. MaxUtterances
SinkId    == 0 .. MaxSinks - 1
NoSeq     == -1

VARIABLES
  queue,          \* Daemon::queue
  bindings,       \* Daemon::bindings, by utterance number
  streamingSeqs,  \* Daemon::streaming_seqs
  draining,       \* Daemon::draining
  sinks,          \* Daemon::sinks
  conns,          \* keys of Daemon::sink_conns
  streaming,      \* Daemon::streaming: <<>> or <<the bound sink>>
  continuous,     \* Daemon::continuous: <<>> or <<the sink active at its start>>
  chan,           \* frames in each sink's unbounded mpsc channel
  sinkTask,       \* where each serve_sink task is
  cache,          \* transcripts/, oldest first
  recorded,       \* utterances whose capture has stopped
  pc,             \* where each utterance's task is
  seqOf,          \* the queue number the task holds
  snap,           \* what the task's drain read under the lock
  trigger,        \* the sink read when its capture stopped, that Reconciled binds
  outcome         \* history: what became of queue number s, at s + 1

daemonVars == <<queue, bindings, streamingSeqs, draining>>
sinkVars   == <<sinks, conns, sinkTask>>
taskVars   == <<recorded, pc, seqOf, snap>>
vars == <<daemonVars, sinkVars, streaming, continuous, chan, cache,
          taskVars, trigger, outcome>>

-----------------------------------------------------------------------------
\* Erase is a Finalize with an empty text, Replay a Transcript sent by
\* replay-last: the label remembers the sender, the wrapper cannot tell.
Frame == [kind : {"Transcript", "Finalize", "Erase", "Replay"},
          seq  : Nat \cup {NoSeq}]

\* A new history entry: accepted for a sink, nothing has become of it.
Fresh(sink) == [target |-> sink, status |-> "waiting", to |-> NoSink]

NoSnapshot == [seq |-> NoSeq, route |-> NoSink, sender |-> FALSE,
               finalize |-> FALSE, cached |-> FALSE]

Drains == {"peek", "cache", "push", "settle", "release"}

Phases == {"unborn", "transcribe", "reconcile", "assembled", "enter", "done"}
            \cup Drains

InDrain(u) == pc[u] \in Drains

Insert(f, k, v) == [x \in DOMAIN f \cup {k} |-> IF x = k THEN v ELSE f[x]]

Without(f, k) == Restrict(f, DOMAIN f \ {k})

Receiving(id) == sinkTask[id] \in {"serving", "closing", "leaving"}

\* An unbounded send: it succeeds while the receiver exists.
Send(id, frame) == chan' = [chan EXCEPT ![id] = Append(@, frame)]

Init ==
  /\ queue = EmptyQueue
  /\ bindings = [s \in {} |-> NoSink]
  /\ streamingSeqs = {}
  /\ draining = FALSE
  /\ sinks = NewRegistry
  /\ conns = {}
  /\ streaming = <<>>
  /\ continuous = <<>>
  /\ chan = [id \in SinkId |-> <<>>]
  /\ sinkTask = [id \in SinkId |-> "absent"]
  /\ cache = <<>>
  /\ recorded = 0
  /\ pc = [u \in Utterance |-> "unborn"]
  /\ seqOf = [u \in Utterance |-> NoSeq]
  /\ snap = [u \in Utterance |-> NoSnapshot]
  /\ trigger = [u \in Utterance |-> NoSink]
  /\ outcome = <<>>

\* History: what became of queue number s.
Settled(s, status, to) ==
  outcome' = [outcome EXCEPT ![s + 1] =
                [target |-> @.target, status |-> status, to |-> to]]

-----------------------------------------------------------------------------
(* Accepting utterances *)

\* The next utterance's capture stops and its task starts at phase.
StopCapture(u, phase, sink) ==
  /\ u = recorded + 1
  /\ recorded' = u
  /\ pc' = [pc EXCEPT ![u] = phase]
  /\ trigger' = [trigger EXCEPT ![u] = sink]

\* The queue operations of an accepted utterance: number it and bind it.
Accept(u, newQueue, sink) ==
  /\ queue' = newQueue
  /\ seqOf' = [seqOf EXCEPT ![u] = queue.next]
  /\ bindings' = Insert(bindings, queue.next, sink)
  /\ outcome' = Append(outcome, Fresh(sink))

\* stop_and_enqueue: numbered and bound in the critical section that stops the
\* recorder, then transcribed in a task of its own.
StopAndEnqueue(u) ==
  /\ "batch" \in Modes
  /\ StopCapture(u, "transcribe", sinks.active)
  /\ Accept(u, Enqueue(queue), sinks.active)
  /\ UNCHANGED <<streamingSeqs, draining, sinkVars, streaming, continuous,
                 chan, cache, snap>>

\* spawn_transcription, Ok(Some): the transcript is ready.
Transcribed(u) ==
  /\ pc[u] = "transcribe"
  /\ queue' = SetReady(queue, seqOf[u])
  /\ pc' = [pc EXCEPT ![u] = "enter"]
  /\ UNCHANGED <<bindings, streamingSeqs, draining, sinkVars, streaming,
                 continuous, chan, cache, recorded, seqOf, snap, trigger, outcome>>

\* spawn_transcription, Ok(None) or Err: resolved without typing anything.
DroppedEmpty(u) ==
  /\ pc[u] = "transcribe"
  /\ queue' = Resolve(queue, seqOf[u])
  /\ bindings' = Without(bindings, seqOf[u])
  /\ Settled(seqOf[u], "dropped", NoSink)
  /\ pc' = [pc EXCEPT ![u] = "enter"]
  /\ UNCHANGED <<streamingSeqs, draining, sinkVars, streaming, continuous,
                 chan, cache, recorded, seqOf, snap, trigger>>

\* finalize_transcript panics in the spawned task, which is no more: its entry
\* stays pending, with its binding, and nobody drains for it.
TranscriptionPanics(u) ==
  /\ MayPanic
  /\ pc[u] = "transcribe"
  /\ pc' = [pc EXCEPT ![u] = "done"]
  /\ UNCHANGED <<daemonVars, sinkVars, streaming, continuous, chan, cache,
                 recorded, seqOf, snap, trigger, outcome>>

\* start_streaming: bound now; refused while a session is open.
StartStreaming ==
  /\ "streaming" \in Modes
  /\ recorded < MaxUtterances
  /\ streaming = <<>>
  /\ streaming' = <<sinks.active>>
  /\ UNCHANGED <<daemonVars, sinkVars, continuous, chan, cache, taskVars,
                 trigger, outcome>>

\* discard_streaming: an empty finalize erases the preview of a live bound sink.
DiscardStreaming ==
  /\ streaming # <<>>
  /\ LET bound == streaming[1] IN
       IF bound # NoSink /\ IsLive(sinks, bound) /\ bound \in conns
       THEN /\ Len(chan[bound]) < MaxFrames
            /\ Send(bound, [kind |-> "Erase", seq |-> NoSeq])
       ELSE UNCHANGED chan
  /\ streaming' = <<>>
  /\ UNCHANGED <<daemonVars, sinkVars, continuous, cache, taskVars, trigger,
                 outcome>>

\* finalize_streaming, first lock: the session is taken, the utterance is not
\* numbered yet.
TakeStreaming(u) ==
  /\ streaming # <<>>
  /\ StopCapture(u, "reconcile", streaming[1])
  /\ streaming' = <<>>
  /\ UNCHANGED <<daemonVars, sinkVars, continuous, chan, cache, seqOf, snap,
                 outcome>>

\* finalize_streaming after the reconcile: numbered, bound to the sink of the
\* trigger, marked as a replacing delivery and ready, all at once.
Reconciled(u) ==
  /\ pc[u] = "reconcile"
  /\ Accept(u, SetReady(Enqueue(queue), queue.next), trigger[u])
  /\ streamingSeqs' = streamingSeqs \cup {queue.next}
  /\ pc' = [pc EXCEPT ![u] = "enter"]
  /\ UNCHANGED <<draining, sinkVars, streaming, continuous, chan, cache,
                 recorded, snap, trigger>>

\* finalize_streaming, Ok(None), Err or a panic: nothing to deliver, no drain.
ReconciledEmpty(u) ==
  /\ pc[u] = "reconcile"
  /\ pc' = [pc EXCEPT ![u] = "done"]
  /\ UNCHANGED <<daemonVars, sinkVars, streaming, continuous, chan, cache,
                 recorded, seqOf, snap, trigger, outcome>>

\* start_continuous: nothing is bound; a second session replaces the first.
StartContinuous ==
  /\ "continuous" \in Modes
  /\ recorded < MaxUtterances
  /\ continuous' = <<sinks.active>>
  /\ UNCHANGED <<daemonVars, sinkVars, streaming, chan, cache, taskVars,
                 trigger, outcome>>

\* DiscardRecording, or an end_continuous with nothing to say.
DropContinuous ==
  /\ continuous # <<>>
  /\ continuous' = <<>>
  /\ UNCHANGED <<daemonVars, sinkVars, streaming, chan, cache, taskVars,
                 trigger, outcome>>

\* end_continuous, first lock: the session is cleared.
EndContinuous(u) ==
  /\ continuous # <<>>
  /\ StopCapture(u, "assembled", continuous[1])
  /\ continuous' = <<>>
  /\ UNCHANGED <<daemonVars, sinkVars, streaming, chan, cache, seqOf, snap,
                 outcome>>

\* end_continuous, second lock: numbered, bound to the active sink and ready.
DeliverAssembled(u) ==
  /\ pc[u] = "assembled"
  /\ Accept(u, SetReady(Enqueue(queue), queue.next), sinks.active)
  /\ pc' = [pc EXCEPT ![u] = "enter"]
  /\ UNCHANGED <<streamingSeqs, draining, sinkVars, streaming, continuous,
                 chan, cache, recorded, snap, trigger>>

-----------------------------------------------------------------------------
(* Draining the queue *)

\* Mutant of EnterDrain: every task that gets here drains.
EnterDrainAlways(u) ==
  /\ pc[u] = "enter"
  /\ draining' = TRUE
  /\ pc' = [pc EXCEPT ![u] = "peek"]
  /\ UNCHANGED <<queue, bindings, streamingSeqs, sinkVars, streaming,
                 continuous, chan, cache, recorded, seqOf, snap, trigger, outcome>>

\* drain_queue, first lock: one drain at a time, the others return.
EnterDrain(u) ==
  /\ pc[u] = "enter"
  /\ draining' = TRUE
  /\ pc' = [pc EXCEPT ![u] = IF draining THEN "done" ELSE "peek"]
  /\ UNCHANGED <<queue, bindings, streamingSeqs, sinkVars, streaming,
                 continuous, chan, cache, recorded, seqOf, snap, trigger, outcome>>

BoundSink(s) == IF s \in DOMAIN bindings THEN bindings[s] ELSE NoSink

\* What a drain reads under the lock: the head, where it goes and its sender.
Snapshot ==
  LET s     == HeadSeq(queue)
      route == RouteOf(sinks, BoundSink(s))
  IN [seq |-> s, route |-> route, sender |-> route \in conns,
      finalize |-> s \in streamingSeqs, cached |-> FALSE]

\* drain_queue, the lock of the loop: a pending head or an empty queue ends it.
Peek(u) ==
  /\ pc[u] = "peek"
  /\ IF HeadReady(queue)
     THEN /\ snap' = [snap EXCEPT ![u] = Snapshot]
          /\ pc' = [pc EXCEPT ![u] = "cache"]
     ELSE /\ pc' = [pc EXCEPT ![u] = "release"]
          /\ UNCHANGED snap
  /\ UNCHANGED <<daemonVars, sinkVars, streaming, continuous, chan, cache,
                 recorded, seqOf, trigger, outcome>>

\* Mutant of Newest: the oldest Keep files stay.
Oldest(files) == SubSeq(files, 1, IF Len(files) > Keep THEN Keep ELSE Len(files))

\* prune: the newest Keep files stay.
Newest(files) ==
  SubSeq(files, IF Len(files) > Keep THEN Len(files) - Keep + 1 ELSE 1, Len(files))

\* store_transcript, unlocked.  A file is named by the wall clock to the
\* millisecond, so a store may overwrite the newest file; a failed store is
\* only logged.
Store(u) ==
  /\ pc[u] = "cache"
  /\ \/ /\ \/ cache' = Newest(Append(cache, snap[u].seq))
           \/ /\ cache # <<>>
              /\ cache' = [cache EXCEPT ![Len(cache)] = snap[u].seq]
        /\ snap' = [snap EXCEPT ![u].cached = TRUE]
     \/ StoreMayFail /\ UNCHANGED <<cache, snap>>
  /\ pc' = [pc EXCEPT ![u] = "push"]
  /\ UNCHANGED <<daemonVars, sinkVars, streaming, continuous, chan, recorded,
                 seqOf, trigger, outcome>>

\* The send of drain_queue, unlocked: to the sink read earlier, if its channel
\* still has a receiver; otherwise the utterance is held for replay.
Push(u) ==
  /\ pc[u] = "push"
  /\ LET s == snap[u].seq
         id == snap[u].route
     IN IF snap[u].sender /\ Receiving(id)
        THEN /\ Send(id, [kind |-> IF snap[u].finalize THEN "Finalize"
                                                      ELSE "Transcript",
                          seq |-> s])
             /\ Settled(s, "delivered", id)
        ELSE /\ Settled(s, "held", NoSink)
             /\ UNCHANGED chan
  /\ pc' = [pc EXCEPT ![u] = "settle"]
  /\ UNCHANGED <<daemonVars, sinkVars, streaming, continuous, cache, recorded,
                 seqOf, snap, trigger>>

\* Mutant of Settle: the binding outlives the utterance.
SettleKeepingBinding(u) ==
  /\ pc[u] = "settle"
  /\ queue' = Resolve(queue, snap[u].seq)
  /\ streamingSeqs' = streamingSeqs \ {snap[u].seq}
  /\ snap' = [snap EXCEPT ![u] = NoSnapshot]
  /\ pc' = [pc EXCEPT ![u] = "peek"]
  /\ UNCHANGED <<bindings, draining, sinkVars, streaming, continuous, chan,
                 cache, recorded, seqOf, trigger, outcome>>

\* drain_queue, the lock after the send: the utterance leaves every table.
Settle(u) ==
  /\ pc[u] = "settle"
  /\ queue' = Resolve(queue, snap[u].seq)
  /\ bindings' = Without(bindings, snap[u].seq)
  /\ streamingSeqs' = streamingSeqs \ {snap[u].seq}
  /\ snap' = [snap EXCEPT ![u] = NoSnapshot]
  /\ pc' = [pc EXCEPT ![u] = "peek"]
  /\ UNCHANGED <<draining, sinkVars, streaming, continuous, chan, cache,
                 recorded, seqOf, trigger, outcome>>

\* Mutant of ReleaseDrain: the flag is never reset.
ReleaseDrainHeld(u) ==
  /\ pc[u] = "release"
  /\ pc' = [pc EXCEPT ![u] = "done"]
  /\ UNCHANGED <<daemonVars, sinkVars, streaming, continuous, chan, cache,
                 recorded, seqOf, snap, trigger, outcome>>

\* The last lock of drain_queue, apart from the one that found nothing to type.
ReleaseDrain(u) ==
  /\ pc[u] = "release"
  /\ draining' = FALSE
  /\ pc' = [pc EXCEPT ![u] = "done"]
  /\ UNCHANGED <<queue, bindings, streamingSeqs, sinkVars, streaming,
                 continuous, chan, cache, recorded, seqOf, snap, trigger, outcome>>

\* replay_last, under the lock: the newest cached transcript to the active sink.
\* Its errors (nothing cached, no sink, a closed channel) change nothing.
ReplayLast ==
  /\ cache # <<>>
  /\ sinks.active \in conns
  /\ Receiving(sinks.active)
  /\ Len(chan[sinks.active]) < MaxFrames
  /\ Send(sinks.active, [kind |-> "Replay", seq |-> Last(cache)])
  /\ UNCHANGED <<daemonVars, sinkVars, streaming, continuous, cache, taskVars,
                 trigger, outcome>>

-----------------------------------------------------------------------------
(* The registered wrapper sinks *)

\* serve_sink, first lock: registered, reachable and active in one step.
RegisterSink(id) ==
  /\ id = sinks.next
  /\ sinks' = Register(sinks)
  /\ conns' = conns \cup {id}
  /\ sinkTask' = [sinkTask EXCEPT ![id] = "serving"]
  /\ UNCHANGED <<daemonVars, streaming, continuous, chan, cache, taskVars,
                 trigger, outcome>>

\* serve_sink writes the next frame to the socket; when the talk-to is gone the
\* write fails and ends its loop.
Forward(id) ==
  /\ sinkTask[id] = "serving"
  /\ chan[id] # <<>>
  /\ chan' = [chan EXCEPT ![id] = Tail(@)]
  /\ \/ UNCHANGED sinkTask
     \/ sinkTask' = [sinkTask EXCEPT ![id] = "closing"]
  /\ UNCHANGED <<daemonVars, sinks, conns, streaming, continuous,
                 cache, taskVars, trigger, outcome>>

\* serve_sink reads end of file: the talk-to exited or the link dropped.
NoticeExit(id) ==
  /\ sinkTask[id] = "serving"
  /\ sinkTask' = [sinkTask EXCEPT ![id] = "closing"]
  /\ UNCHANGED <<daemonVars, sinks, conns, streaming, continuous,
                 chan, cache, taskVars, trigger, outcome>>

\* serve_sink, last lock: the newest surviving wrapper takes over.
DeregisterSink(id) ==
  /\ sinkTask[id] = "closing"
  /\ sinks' = Deregister(sinks, id)
  /\ conns' = conns \ {id}
  /\ sinkTask' = [sinkTask EXCEPT ![id] = "leaving"]
  /\ UNCHANGED <<daemonVars, streaming, continuous, chan, cache,
                 taskVars, trigger, outcome>>

\* serve_sink returns and its receiver goes, with the frames still in it.
DropReceiver(id) ==
  /\ sinkTask[id] = "leaving"
  /\ sinkTask' = [sinkTask EXCEPT ![id] = "gone"]
  /\ chan' = [chan EXCEPT ![id] = <<>>]
  /\ UNCHANGED <<daemonVars, sinks, conns, streaming, continuous,
                 cache, taskVars, trigger, outcome>>

-----------------------------------------------------------------------------
\* What starts an utterance's task.
Trigger(u) == StopAndEnqueue(u) \/ TakeStreaming(u) \/ EndContinuous(u)

\* What the task itself does.
TaskStep(u) ==
  \/ Transcribed(u) \/ DroppedEmpty(u) \/ TranscriptionPanics(u)
  \/ Reconciled(u) \/ ReconciledEmpty(u) \/ DeliverAssembled(u)
  \/ EnterDrain(u) \/ Peek(u) \/ Store(u) \/ Push(u) \/ Settle(u)
  \/ ReleaseDrain(u)

\* What a serve_sink task does of its own accord.
SinkStep(id) ==
  Forward(id) \/ NoticeExit(id) \/ DeregisterSink(id) \/ DropReceiver(id)

Session ==
  StartStreaming \/ DiscardStreaming \/ StartContinuous \/ DropContinuous

\* Bound: the behaviour has used up its utterances and its sinks.
Exhausted ==
  /\ \A u \in Utterance : pc[u] = "done"
  /\ \A id \in SinkId : sinkTask[id] = "gone"
  /\ streaming = <<>> /\ continuous = <<>>
  /\ UNCHANGED vars

Next ==
  \/ \E u \in Utterance : Trigger(u) \/ TaskStep(u)
  \/ \E id \in SinkId : RegisterSink(id) \/ SinkStep(id)
  \/ Session
  \/ ReplayLast
  \/ Exhausted

Spec == Init /\ [][Next]_vars

\* Every spawned task keeps running: tokio polls it, and a transcription ends
\* because its retry window does.  The user and the wrappers owe nothing.
FairSpec == Spec /\ \A u \in Utterance : WF_vars(TaskStep(u))

-----------------------------------------------------------------------------
(* Properties *)

Status == {"waiting", "dropped", "delivered", "held"}

Snapshots == [seq : Nat \cup {NoSeq}, route : SinkId \cup {NoSink},
              sender : BOOLEAN, finalize : BOOLEAN, cached : BOOLEAN]

Outcome == [target : SinkId \cup {NoSink}, status : Status,
            to : SinkId \cup {NoSink}]

\* Every variable holds a value of the kind the code gives it.
TypeOK ==
  /\ queue \in Queue
  /\ DOMAIN bindings \subseteq Nat
  /\ \A s \in DOMAIN bindings : bindings[s] \in SinkId \cup {NoSink}
  /\ streamingSeqs \subseteq Nat
  /\ draining \in BOOLEAN
  /\ sinks \in Registry
  /\ sinks.active \in SinkId \cup {NoSink}
  /\ conns \subseteq SinkId
  /\ streaming \in Seq(SinkId \cup {NoSink})
  /\ continuous \in Seq(SinkId \cup {NoSink})
  /\ chan \in [SinkId -> Seq(Frame)]
  /\ sinkTask \in [SinkId -> {"absent", "serving", "closing", "leaving", "gone"}]
  /\ cache \in Seq(Nat)
  /\ recorded \in Nat
  /\ pc \in [Utterance -> Phases]
  /\ seqOf \in [Utterance -> Nat \cup {NoSeq}]
  /\ snap \in [Utterance -> Snapshots]
  /\ trigger \in [Utterance -> SinkId \cup {NoSink}]
  /\ outcome \in Seq(Outcome)

\* The queue is in the order in which utterances were numbered, and no number
\* is given twice, however the enqueues of recordings, streaming finalizes and
\* continuous sessions interleave with removals from the middle.
QueueOrdered == Sorted(queue)

\* The tables kept beside the queue never leak: an utterance has a binding
\* exactly while it is queued, and a streaming mark only then.
TablesMatchQueue ==
  /\ DOMAIN bindings = Queued(queue)
  /\ streamingSeqs \subseteq Queued(queue)

\* The draining flag is a lock: it is set exactly while some task is inside the
\* drain loop, and never two tasks are, so typing never interleaves.
DrainExclusive ==
  /\ draining <=> \E u \in Utterance : InDrain(u)
  /\ \A u, v \in Utterance : InDrain(u) /\ InDrain(v) => u = v

\* What a drain read under the lock is still true when it acts without it: the
\* utterance it caches, sends and resolves is the ready head of the queue all
\* that time, whatever is enqueued, dropped or made ready meanwhile.
HeadPinned ==
  \A u \in Utterance : pc[u] \in {"cache", "push", "settle"} =>
    HeadReady(queue) /\ HeadSeq(queue) = snap[u].seq

\* A transcript that is about to be sent, or just was, is the one replay-last
\* would replay, unless its store failed: cached before delivery.  With a cache
\* that keeps nothing the pruning has taken it again, and everything else.
CachedBeforePush ==
  \A u \in Utterance : pc[u] \in {"push", "settle"} /\ snap[u].cached =>
    IF Keep = 0 THEN cache = <<>>
                ELSE cache # <<>> /\ Last(cache) = snap[u].seq

\* No utterance is lost or delivered twice: it waits exactly while it is queued
\* and its drain has not sent it yet.
QueuedUntilSettled ==
  /\ Len(outcome) = queue.next
  /\ \A s \in 0 .. queue.next - 1 :
       outcome[s + 1].status = "waiting" <=>
         /\ s \in Queued(queue)
         /\ \A u \in Utterance : ~(pc[u] = "settle" /\ snap[u].seq = s)

IsDelivery(frame) == frame.kind \in {"Transcript", "Finalize"}

\* What a wrapper will read from its channel is in order: the deliveries in it
\* come in the order of their numbers and were made to this very sink.
DeliveriesInOrder ==
  \A id \in SinkId :
    /\ \A i, j \in DOMAIN chan[id] :
         i < j /\ IsDelivery(chan[id][i]) /\ IsDelivery(chan[id][j]) =>
           chan[id][i].seq < chan[id][j].seq
    /\ \A i \in DOMAIN chan[id] : IsDelivery(chan[id][i]) =>
         /\ outcome[chan[id][i].seq + 1].status = "delivered"
         /\ outcome[chan[id][i].seq + 1].to = id

\* The registry agrees with the serve_sink tasks: the active sink is the newest
\* registered wrapper, there is none only when no wrapper is registered, and
\* every registered wrapper, and no other, can be sent to.
ActiveIsNewestLive ==
  /\ sinks.active = IF sinks.live = <<>> THEN NoSink ELSE Last(sinks.live)
  /\ conns = Range(sinks.live)
  /\ conns = {id \in SinkId : sinkTask[id] \in {"serving", "closing"}}

Ordered == INSTANCE OrderedDelivery WITH Sink <- SinkId

\* The daemon implements ordered delivery: strict order, one terminal state per
\* utterance, never a sink other than the bound one.
OrderedSpec == Ordered!Spec

\* A ready head that no drain and no task on its way to one will look at.
Stranded ==
  /\ HeadReady(queue)
  /\ ~draining
  /\ \A u \in Utterance : pc[u] # "enter"

\* A pending head whose transcription task is no more: nothing passes it again.
Blocked ==
  /\ queue.items # <<>> /\ ~HeadReady(queue)
  /\ \E u \in Utterance : seqOf[u] = HeadSeq(queue) /\ pc[u] = "done"

WaitingSeq(s) == s < Len(outcome) /\ outcome[s + 1].status = "waiting"

\* Every accepted utterance becomes terminal, except through two holes: a head
\* that became ready while the last drain was on its way out, and a head whose
\* transcription panicked, at or before this one.
SettlesOrStranded ==
  \A s \in 0 .. MaxUtterances - 1 :
    WaitingSeq(s) ~> (~WaitingSeq(s) \/ Stranded \/ Blocked)

\* CONTEXT.md: every utterance reaches one terminal state.
EveryUtteranceTerminates ==
  \A s \in 0 .. MaxUtterances - 1 : WaitingSeq(s) ~> ~WaitingSeq(s)

===============================================================================
