# ghostty-voice in TLA+

ghostty-voice is push-to-talk dictation for terminal agents.  A daemon,
`ghostty-voiced`, owns the microphone captures, a whisper-server child and an
ordered delivery queue; `talk-to` wraps an agent in a PTY, registers with the
daemon as a *wrapper sink* and types what the daemon pushes to it.  This
directory models the daemon's concurrent core, its supervision and its three
kinds of captures, the wrapper, and the lines between them in TLA+, checks the
models with TLC on small instances and proves, with TLAPS, what holds for every
instance.

All paths below are relative to the repository; `main.rs` alone is
`crates/ghostty-voiced/src/main.rs`, and a bare file name such as `queue.rs` is
in `crates/ghostty-voice-core/src`.

## 1. Inventory

| component | state | operations | properties that make it correct |
|---|---|---|---|
| delivery queue (`queue.rs`) | items in order, each pending or ready; next number | enqueue, set_ready, resolve, next_to_type | sorted, numbers unique; a ready item behind a pending head waits |
| sink registry (`sink.rs`) | live ids, active id, next id | register, deregister, is_live, route | active is the newest live one; a dead binding is held, never redirected |
| ordered delivery (`main.rs` 1220-1536) | queue, bindings, streaming_seqs, draining, sinks, sink_conns, transcripts on disk | stop_and_enqueue, spawn_transcription, finalize_streaming, end_continuous, drain_queue, replay_last, serve_sink | one drain at a time; its snapshot stays true; cached before sent; nothing lost or sent twice; a wrapper reads in order |
| state machine (`machine.rs`) | none (pure) | apply | total; the recorder is not started while busy |
| captures and sessions (`main.rs` 660-1332, 1540-1587) | state, recorder, current_wav, continuous, streaming, their generations | perform, the caps, the VAD watcher, the drivers, finalize, end, discard | a capture is consumed once; leftovers of an old capture leave newer ones alone; status tells the truth; caps end what nobody ends |
| supervision (`main.rs` 200-494, `supervisor.rs`) | state, the whisper child, shutting_down | find or download the model, spawn, probe, wait, back off, tear down | ready is announced when it is; nothing stored survives shutdown; the loop never ends by itself |
| model download (`download.rs`, `model.rs`) | partial file, digest, percents on their way | request, stream, verify, rename, retry | a pinned model has the right digest under its final name |
| streaming preview (`streaming.rs`, `pty.rs`, `main.rs` 1067-1212) | commit engine, last tail, preview cursor | observe, push_live_edit, apply_edit, finalize | what the wrapper erases is what it typed; committed words never change |
| decode window (`window.rs`, `audio.rs`) | the capture's span, the floor | wav_data_span, window_range, write_window_wav | aligned, bounded, never goes back |
| continuous driver (`main.rs` 755-1016, `session.rs`) | clips on disk, counters, assembled text | count, transcribe, chain, end | only closed clips are read; words in order, once; every session ends and cleans up |
| talk-to (`crates/talk-to`, `trigger.rs`, `link.rs`, `strip.rs`) | link state, pending bytes, suppression, sizes | register, reconnect, apply_frame, proxy, send_command | injections arrive in order and unmixed with keys; loop, triggers, size and link make progress |
| sink connection (`main.rs` 563-633) | frame channel, watched state | forward, push state, notice exit | the wrapper's state is eventually the daemon's |
| protocol (`protocol.rs`, `link.rs`) | none (pure) | encode and parse of commands, frames, replies, status | each side reads what the other meant |
| transcript pipeline (`pipeline.rs`, `filter.rs`, `corrections.rs`) | none (pure) | normalize, filter, correct | whole words, longest first, nothing else touched |
| cache (`cache.rs` of core and io) | transcripts/, recordings/ | store, prune, latest | the newest `keep` files stay |
| configuration, prompts, GPU selection, command line tools | none | parsing and printing | not modelled, see section 7 |

**Interaction.**  Everything in the daemon shares one `Arc<Mutex<Daemon>>`.  A
command from a socket runs the state machine and its side effect in one critical
section; the side effects spawn tasks that come back to the mutex later: timers,
watchers, drivers, transcriptions.  A transcription makes its utterance ready
and then *competes to drain* the queue; the drain reads under the lock, does I/O
without it, and takes it again.  A wrapper is a task that owns the receiving
end of an unbounded channel and registers and deregisters itself.  The
supervisor writes the same observable state as the captures, and downloads on a
blocking thread that abort does not reach.  In talk-to the client thread and the
proxy loop share a mutex; triggers are sent by threads of their own, and the
agent is at the other end of two finite PTY buffers.

**What is hard.**  (1) Decisions taken under one lock and acted upon under
another.  (2) Tasks, timers and threads that outlive what they were started for.
(3) Three kinds of captures that share a state but not a handle.  (4) Wrappers and
daemons that vanish between routing, sending and reading.  (5) Files that one
process counts while another writes them: clips, and the capture that is decoded
while it grows.  (6) A preview that must be erased by a process that learns of it
over two channels.  (7) Texts put on a line as they are.  `PROJECT.json` lists the
hazards line by line with the properties that watch them.

## 2. Modules

```
OrderedDelivery            what delivery promises (one variable)
      ^ implemented by
Delivery --- EXTENDS --> DeliveryQueue, SinkRegistry      (pure)
                             MCDelivery, DeliveryProofs

Recorder ----+
             +-- EXTENDS --> Machine (pure)
Continuous --+               MCRecorder, RecorderProofs
                             MCContinuous, ContinuousProofs

Preview -----+
             +-- EXTENDS --> CommitEngine (pure)
Window ------+               MCPreview, PreviewProofs
                             MCWindow, WindowProofs

Supervisor                   MCSupervisor, SupervisorProofs
TalkTo                       MCTalkTo, TalkToProofs

Wire --- EXTENDS --> Corrections --- EXTENDS --> Protocol (both pure)
                             MCWire, WireProofs
```

- **DeliveryQueue**, **SinkRegistry**, **Machine** are the pure parts of the core
  crate as operators on records.  A transcript's text is never looked at, so the
  text of utterance `s` is just `s`.
- **Delivery** has one action per critical section of the daemon mutex, and one
  for each stretch of a task between two of them.  `pc[u]` is where the task of
  utterance `u` is; `snap[u]` is what its drain read under the lock.  The
  correspondence, in the order of the code:

  | action | code |
  |---|---|
  | `StopAndEnqueue`, `Transcribed`, `DroppedEmpty`, `TranscriptionPanics` | `stop_and_enqueue`, `spawn_transcription` |
  | `StartStreaming`, `TakeStreaming`, `Reconciled`, `ReconciledEmpty`, `DiscardStreaming` | `start_streaming`, `finalize_streaming` (its two locks), `discard_streaming` |
  | `StartContinuous`, `EndContinuous`, `DeliverAssembled`, `DropContinuous` | `start_continuous`, `end_continuous` (its two locks) |
  | `EnterDrain`, `Peek`, `Store`, `Push`, `Settle`, `ReleaseDrain` | `drain_queue`, from its first lock to its last |
  | `ReplayLast` | `replay_last` |
  | `RegisterSink`, `Forward`, `NoticeExit`, `DeregisterSink`, `DropReceiver` | `serve_sink` |

  `trigger[u]` is the sink active when `u` was triggered.  For a dictation it is also
  data: `finalize_streaming` carries it over its two locks as a local variable, and
  `Reconciled` reads it.  `outcome` is history: what became of each numbered
  utterance; no guard reads it.  `Keep` may be 0, as `transcript_keep` may
  (`config.rs`:166): then the file just stored is pruned.  With `MayPanic` the text
  of an utterance may be one on which `finalize_transcript` panics (section 6).
- **Recorder** models the captures, again one action per critical section.  A
  capture is named by the order of its start; the name also stands for its
  session's generation, which the code only compares for equality.  `cause`
  and `ends` are history: captures that were given a reason to end, and how each
  was ended.  `mic` is the child of each capture, also when its handle is gone.  In
  `ContinuousPoll` the driver may panic, which leaves its session to the user.
- **CommitEngine** has the pure parts of the live preview: LocalAgreement-2
  (`streaming.rs`) and the wrapper's cursor with the bytes it makes (`pty.rs`).  A
  word is one unit: its characters and the space that joins it to the last.
- **Preview** composes three parts of the program around it: the tasks of the
  daemon that drive and finalize dictations, the two channels of a wrapper's
  connection (pushed frames, and the watched state, of which only the last value
  is seen), and in talk-to `apply_frame`, the injection and the suppression of
  keys.  A line on the socket is applied in the step that writes it, and its bytes
  typed: the socket and the wrapper keep the order and send nothing back, so a
  slower wrapper sees the same in the same order, later.  The lock at the top
  of the driver's loop is part of its second one, which reads the same again.
  `spoiled` is history: what came between a preview and its end; so is `retracted`:
  the user erased while a preview was counted by the wrapper's cursor.

  | action | code |
  |---|---|
  | `StartStreaming`, `StopStreaming`, `DiscardStreaming`, `IgnoredCommand` | `apply_command` with the action it performs |
  | `SilentRound`, `Decode`, `SendEdit`, `DriverReturns`, `DriverFinalizes` | `drive_streaming`, `push_live_edit` |
  | `StreamingCap`, `FinalizerRuns`, `Reconciled`, `ReconciledEmpty` | `arm_streaming_cap`, `finalize_streaming`, and the drain's push |
  | `Ready`, `ServerDies`, `DaemonDies`, `DeliverTranscript` | what the rest of the daemon does to the state and the lane |
  | `Register`, `ForwardFrame`, `ForwardState` | `serve_sink` with talk-to's `serve_link` and `apply_frame` |
  | `Key` | `proxy_loop`, and what the agent's composer makes of the bytes |

  A key that is forwarded either adds a symbol at the end of the prompt or erases any
  number of them there (Backspace, Ctrl-W, Ctrl-U, or Enter, which takes them all).
  Keys that move the caret are left out: the wrapper takes the caret to be at the end,
  and erases at the wrong place when it is not.
- **Window** has the live lane's other half: `Grow` and `Close` are sox, `Reload` the
  user, and `Begin`, `TooShort`, `Cut`, `CutFails`, `Answer`, `NoAnswer` the steps of
  a round of `drive_streaming` with `wav_data_span`, `window_range` and
  `write_window_wav`.  The decoder hears exactly the words whose audio is all in
  the window, so that what is wrong afterwards is the window's or the engine's doing.
- **Supervisor** models lives of the daemon.  `sup` is where `supervise` is and
  `transfer` the download thread; `proc` has the real whisper-server processes, which
  may outlive the daemon that started them.  An aborted task still runs until it next
  waits: steps that wait have `~Aborted` in their guard, steps that only take the lock
  do not.

  | action | code |
  |---|---|
  | `FindModel`, `BeginAttempt`, `AttemptEnds`, `RetryDelayEnds`, `ApplyPercent` | `ensure_model_present`, `download_model_once` |
  | `RequestFails`, `Request`, `Receive`, `TransferFails`, `BodyEnds`, `Verify`, `Install` | `download_model` of `download.rs` |
  | `Spawn`, `StopLooping`, `StoreChild`, `ProbeConnects`, `ProbeFails`, `AnnounceReady`, `NoticeExit`, `AfterExit`, `AnnounceLoading`, `BackoffEnds`, `Cancelled` | `supervise`, `spawn_whisper`, `probe_ready`, `wait_for_exit` |
  | `Signal`, `Teardown`, `DropRuntime`, `Exit`, `Crash`, `Restart` | `main` and `teardown`; a kill and the next start |
  | `Listens`, `Dies`, `StartCapture`, `StopCapture` | whisper-server; the captures as far as teardown sees them |
- **Continuous** is `drive_continuous` statement by statement, as far as the directory
  is concerned: `Poll`, `Count`, `TranscribeClip`, `ClipsDone`, `Mark`, `Decide`, then
  `EndContinuous` and `Deliver` for the two locks of `end_continuous`; `OpenClip` and
  `SoxExits` are sox.  `TranscribeClip` removes the clip on every path but two: an answer
  that is no transcript, and a request that panics, return by `?` and leave the file.
  `DriverPanics` is a panic of `finalize_transcript`: the driver is gone, its session is
  not.  `files` is the directory, `counted` is history.
- **TalkTo** has the client thread (`Connect`, `ReadReply`, `ReadFrame`, ...), the proxy
  loop from `Fork` to `Leave`, one action per system call that may wait or be overtaken
  (`Resized`, `SetSize`, `Take`, `Deal`, `Poll`, `ReadAgent`), the threads of triggers
  (`Carry`) and the environment.  What is typed is a sequence of presses, odd ones keys
  and even ones triggers; an injection is one unit, numbered by the frame it came in.
- **Protocol**, **Corrections** are `protocol.rs` with `link.rs` and the text pipeline as
  operators on lines and texts, which are sequences of symbols.  A keyword is one
  symbol; characters matter where the code looks at them: blanks at the ends, the
  separator, a line break, word bytes, and characters of more than one byte, whose
  middle is where `replace_word_ci` may try to cut.
- **Wire** composes them: one connection, from the bytes written to what the other side
  reads, for `ghostty-voice-ctl`'s commands and for a wrapper.
- **OrderedDelivery** is the abstract specification; `Delivery` implements it
  with `outcome` as the mapped variable.
- **MC...** modules instantiate for TLC; their configurations give the bounds.

Definitions marked "Mutant of ..." are plausible mistakes.  None is part of the
specifications; each makes one property fail when it takes the place of the
definition it is named for, which shows that the property looks at that code.

## 3. Runs

| run | instance | shows |
|---|---|---|
| `delivery_modes` | 2 utterances of all three modes, 1 wrapper, channel of 1 for replays, cache of 1, stores may fail, transcriptions may panic, fair tasks | type invariant, `TablesMatchQueue`, `CachedBeforePush`, `DeliveriesInOrder`; `SettlesOrStranded` |
| `delivery_sinks` | 2 utterances (recordings, dictations), 3 wrappers, no cache, transcriptions may panic | `HeadPinned` and the refinement `OrderedSpec` |
| `recorder_sessions` | 3 captures, every start command and cancel, whisper-server may die, fair tasks | type invariant, `NoPhantomCapture`, `ConsumedOnce`, `SessionsEndForCause`; `EveryCaptureEnds` |
| `preview_live` | three budgets: 1 dictation of 2 decodes with two keys or a transcript, a state pushed again, a daemon that dies and comes back; or 2 dictations that overlap; fair timers and channels | type invariant, `PreviewIsReplaced`, `PreviewIsCurrent`, `PromptKept`; `SuppressionEnds` |
| `supervisor_lives` | 3 lives, 3 processes, a model of 3 chunks, 2 probes | type invariant, `ModelBeforeServer`, `ServersReaped`; `SupervisionGoesOn`, `ServingIsAnnounced`, `SignalEnds` |
| `continuous_sessions` | 2 sessions, of 3 clips and of 1 | type invariant, `OnlyCompleteClips`, `AssembledInOrder`, `HalfIsTranscribed`, `NothingLeftRunning`; `SessionEnds` |
| `talkto_proxy` | five budgets: up to 4 lines pushed, a daemon that goes and comes, 3 presses, 2 resizes; PTY buffers of 1 | type invariant, `InjectedInOrder`, `KeysKeepOut`; `LoopGoesOn`, `SizeTracked`, `TriggersSent`, `Relinks` |
| `window_decodes` | a capture of up to 22 bytes, words of 4, windows of 8 or 12 with 2 reloads, 1 failed cut | `PreviewIsLastDecode`, `WindowSound` |
| `wire_lines` | every command, registration, reply and frame; every text of up to 3 characters and five longer ones through six correction tables; up to 3 lines | `ReadAsSent`, `CorrectedAsWritten` |
| `delivery_lost_wakeup`, `continuous_clips`, `window_preview` | the smallest instance that shows it | a disagreement with a statement of the repository, section 6 |

**Bounds.**  `MaxUtterances`, `MaxSinks` and `MaxCaptures` bound how many are
started in one behaviour.  Two utterances are enough for one to finish while the
other drains, for one to be enqueued, dropped or made ready between any two
steps of a drain, and for numbers and stop order to differ; a third wrapper is
needed for a hand-over to choose between survivors; a third capture for a
leftover of the first to meet a second that was replaced.  What holds for
delivery is proved for any number anyway.  `MaxFrames` only makes replays wait
while a channel is that long: deliveries are never blocked, as the channel in the
code is unbounded.  `Keep` is the number of cached transcripts, 1 where pruning at
every store is the interesting case and 0 where pruning takes the new file as well.

For the preview, two words and the hypotheses `a`, `b` and `a b` make a decode that
confirms, one that revises and one that grows; two decodes are needed to commit a
word, and the second dictation to meet what the first left; the second key meets a
preview that the first has shortened, so that without its exception `PromptKept` fails in
this run.  `Budgets` holds the
combinations of disturbances (`dictations`, `decodes`, `keys`, `transcripts`,
`pushes`, `links`) that are explored together; every one of them can fall between any
two steps of a dictation.  `Budgets` of TalkTo does the same for `lines`, `lives`,
`presses` and `resizes`; a buffer of one unit and an echo of one is the smallest
machine that can jam, `Heights` has a terminal without rows, and `MaxPresses` only
gives presses their numbers.

For the supervisor, the third life meets a server of the first that the second could not
reach; three chunks and `Percents = 2` make a percent that repeats, and `MaxProbes = 2`
a probe that fails, one that succeeds late and one that gives up. Three clips are the
fewest for the driver's count to fall behind its directory, and the second session the
one that replaces the first.  In Window, 22 bytes let the larger window slide more than
once over words of two samples (`MinBytes`, `WordBytes` and `Windows` in bytes;
`MaxReloads`, `MaxFailures` bound the disturbances).  In Wire, `MaxNumber` is the
largest number a line may hold, past the 100 % that parsing accepts, `Decimal` how
numbers are written, and `MaxSent` the lines of one connection.  `Exhausted` in
Delivery, Recorder and Preview is a step that changes nothing, taken when the bound is
used up and everything is done, so that TLC's deadlock check still finds a task that is
stuck; the other systems may really stop (the agent or the daemon ends, the capture is
over), and their configurations say so.

**Fairness.**  `Delivery!FairSpec` has weak fairness for the steps of each
utterance's task: tokio polls a spawned task, no lock is held across a wait, and
a transcription ends because `transcribe_with_retry` gives up when its retry
window is over.  Nothing is assumed of users, wrappers or serve_sink.
`Recorder!FairSpec` has it for the steps of each capture's timers, watchers and
drivers.  Nobody has to press a key, no child has to exit by itself and
whisper-server owes nothing.  `EveryCaptureEnds` excepts a recording whose handle a
later one has overwritten.  Because a session's driver may be polled forever
without a reason to act, the fairness is of "something that task of the capture
can do", and the caps, once armed, stay enabled until they fire.
`Preview!FairSpec` has it for the caps, the spawned finalizers and the two channels
of a connection, between which tokio's `select!` chooses at random.

`Supervisor!Spec` has it for `supervise`, the applier task and `main`, but not for the
transfer, which waits for a network without a timeout, nor for processes and users:
`SignalEnds` and `SupervisionGoesOn` name the transfer as the exception.
`Continuous!Spec` has it for each driver and for the passing of `session_end_silence`;
sox need neither open a clip nor exit, and a driver that has panicked has no step left,
which `SessionEnds` names as its exception (`Driven`).  `TalkTo!Spec` has it for the
client thread, the proxy loop, each trigger's thread, the daemon's answer to a
registration, and an agent that reads and writes *while it can*: an agent that stops
reading for good would make every wrapper wait, which says nothing about this one.
Window and Wire state safety only.

## 4. Proofs

| module | theorems |
|---|---|
| `DeliveryProofs` | what each queue operation does to the set of queued numbers and to the head; the registry stays well formed, `DeregisterProperties`; `Invariance`, and from it `TypeCorrect`, `QueueStaysOrdered`, `TablesNeverLeak`, `MutualExclusion`, `SnapshotStaysValid`, `CacheBeforeDelivery`, `NothingLostOrRepeated`, `SinkTablesAgree`; `Refinement`; `WrappersReadInOrder` |
| `RecorderProofs` | `CaptureInvariance`, and from it `RecorderTypeCorrect`, `StatusIsTrue`, `RecordingsKeepTheirFile`, `CapturesConsumedOnce`, `SessionsEndOnlyForCause` |
| `SupervisorProofs` | `SupervisionIsSound`, and from it `SupervisorTypeCorrect`, `NoServerWithoutModel`, `StoredServersAreReaped` |
| `ContinuousProofs` | `ContinuousInvariance`, and from it `ContinuousTypeCorrect`, `CompleteClipsOnly`, `SessionsAssembleInOrder`, `SessionsLeaveNothing`, `RoundsTranscribeHalf` |
| `WindowProofs` | the laws of `AlignDown` and `WindowRange` (`WindowRangeProperties`), `CaptureStaysSound`, and the action property `WindowsAreSound`; `PreviewFollowsDecode` |
| `TalkToProofs` | `WrapperInvariant`, and from it `WrapperTypeCorrect`, `InjectionsStayInOrder`, `KeysStayOut` |
| `PreviewProofs` | `PreviewInvariant`, and from it `PreviewTypeCorrect`, `PreviewsAreReplaced`, `PreviewsAreCurrent` and the action property `PromptIsKept` |
| `WireProofs` | recursive functions and folds have values of their type; what `split_whitespace` makes of a line; each kind of line is read as it was meant (`CommandParsed`, `FrameParsed`, `ReportParsed`); the phrases of a table can be sorted (`CorrectionsOrdered`) and transcripts are texts; `WireInvariant`, and from it `WireReadAsSent`; a call of `replace_word_ci` replaces exactly the chosen spans of its phrase (`ScanStep`), and from it `WireCorrectedAsWritten` |

They hold for every value of the constants that satisfies the named assumptions:
the bounds and `Keep` are natural numbers, `Modes` and `Commands` are
sets of the code's modes and commands, `NoSink` is not an integer, processes are
positive numbers, a model has at least one chunk, a probe makes at least one
attempt, `Clips` is any non-empty sequence of numbers of clips, windows and the
longest capture are whole samples, terminals have at most 65535 rows, no word that
the decoder hears is one of the two symbols that stand for a key and a transcript,
numbers are written without blanks, edits have neither the separator nor a line break
(`protocol.rs`:215), a table has finitely many phrases, the characters of phrases
have different bytes, word bytes are ASCII (no wide character is one) and lower-casing
keeps them apart from the others, and the symbol that stands for a panic is a character of
no text.

**The inductive invariant of Delivery.**  None of the properties is inductive.
`HeadPinned` (the drain's snapshot is still the ready head) needs to know that
only the drain resolves a ready utterance: the transcription task of `u` could
drop the head if it still held the head's number.  So `IInv` adds

- `TasksOwn`: a task that is still transcribing owns a number that is queued and
  *pending*, no two such tasks share one, and none of their numbers is marked
  streaming.  A ready head is therefore nobody's to drop.
- `Unborn`: tasks not started yet hold no number and no snapshot, which gives
  each new utterance a fresh one.
- `BindingsAgree`: the binding of a queued number is the target its history
  entry was accepted with, which connects the tables with the abstract state.
- `SinksAgree`: the registry, `sink_conns` and the state of each serve_sink task
  tell the same story; in particular a sink that is not registered yet is beyond
  every id in use.
- `CacheAgrees`: `CachedBeforePush`, and that a cache of no transcripts stays empty.

With `DrainExclusive` the snapshot belongs to one task, with `QueueOrdered` its
number is the least in the queue, and with `QueuedUntilSettled` everything before
it is terminal: that is the argument of `Refinement`, which maps `Push` to
`Deliver` or `Hold`, `DroppedEmpty` to `Drop`, the three accepting actions to
`Accept` and every other action to a stutter.  `OrderInv` adds for
`WrappersReadInOrder` that every delivery already in a channel is of a number
that is no longer waiting, so the next one sent is greater.

**The inductive invariant of Recorder.**  `CInv` adds three parts to the
properties.  `HandlesKeepKind`: the file handle holds a manual or VAD capture
and a session handle one of its own mode, so no capture is in two handles.
`Unborn`: what has not been started has not ended, so a new capture is fresh.
`EndersHaveCause`: a finalizer, a driver about to end its session and a
dictation whose sox is gone all have a cause behind them.  An action that ends
captures takes exactly those out of their handles (`Takes`); what was held had not
ended, which gives `ConsumedOnce` (`TakingConsumesOnce`), and every other action
is one of `NothingConsumed` or a start.

**The inductive invariant of Supervisor.**  `SInv` is the types, kind by kind, with
`Files` and `Stored`.  `ModelBeforeServer` does not say what the temporary file is when
it is renamed, nor that the loop is reached only with a model: `Files` does.
`ServersReaped` does not say where the supervisor is while a stored server lives:
`Stored` says that it is the one in `Daemon.whisper`, that the supervisor then probes,
waits or was cancelled, and that after the teardown, which kills that one, none is
left, although `StoreChild` may still run: it then stores a child that was never
counted as stored before the signal.

**The inductive invariant of Continuous.**  The driver compares a count of files with
the number of clips it has transcribed and removed, so no property of it holds of the
counters alone.  `Left` says that the clips after the last transcribed one are there
until they are transcribed (earlier ones may be, too: not every path of
`transcribe_clip` removes its file), `Bounds` that nothing is counted that sox has not
opened, and `SoxKnown` that a driver which saw sox gone is right for good; the three
give `OnlyCompleteClips`.  `Counting` follows the count through the round and gives
`HalfIsTranscribed`.  `Held` (a handle belongs to one driver, which is at work or has
died of a panic), `Over` (without a handle there is no sox), `Dropped` and `Queued` give
the rest.  Each step changes the values of one session; `OthersKeep` and `OthersSame`
settle the others once.

**The inductive invariant of Window.**  `WindowSound` speaks of single steps but needs
the header to be true (`HeaderTrue`) and the floor to be on a sample inside the capture
(`FloorAligned`); the arithmetic is in the lemmas about `div` and `%`.  `Unmoved` adds
for `PreviewIsLastDecode` that before the first slide every decode begins at the first
word, so that the hypothesis is some prefix of what was said and the engine has
committed a prefix of that: `Observe` then neither revises nor skips a word.

**The inductive invariant of TalkTo.**  `InjectedInOrder` speaks of the three places
together, but a step moves injections between two.  `PlacesInOrder` says of each of
`written`, `hand` and `pending` that it is in order and of each pair that one comes
before the other; with `NoneLost` they are a partition of what was applied.
`KeysKeepOut` is not about the present at all: a key that is written now must not come
between an injection that was written long ago and one that is still to be received.
`RoundSealed` says that while the loop forwards keys everything written or in hand
belongs to dictations that are over, since it read the flag with the bytes under one
lock, and `KeySeals` that what a key has closed off stays closed.

**The inductive invariant of Preview.**  The daemon knows what it sent, the wrapper what
it typed, and between the two lie frames.  `Covered` bounds the cursor by what was typed
behind the first word of a preview, in spoiled runs too, and gives `PromptKept`. Only
the user can break it, by erasing part of a preview that the cursor counts:
`CursorCovered` says that it holds unless he has (`retracted`), and that the preview is
spoiled then, so that the other parts need nothing of it.  `OwedInLane` and
`OwedInPrompt` say who still ends a preview: a session or a reconcile that will push to
this connection, or a finalize further back in the lane; with nothing of either left,
nothing is in the prompt (`PreviewIsReplaced`). `Agreement` says that the frames in the
lane lead, edit by edit, from what the prompt shows to what the engine committed and its
last tail; for the lane of a dictation the trajectory is a sequence of previews whose
first the cursor measures in the prompt, and whose last, with the edit not sent yet, is
the engine's.  When the lane is empty the two ends meet, which is `PreviewIsCurrent`.

**The inductive invariant of Wire.**  The socket is a sequence of symbols, so that
"what is meant and not yet read" is nowhere in the state.  `Agrees` says that there is
a way to cut the socket into lines (`Holds`: what is behind the first `k` of them, for
every `k`) such that these, taken for a request, an answer or a frame as the phase and
the request have it (`Hears`), are the rest of what was meant (`Pending`), and that at
most one line is under way when the phase changes (`Stage`).  `Saying` and `Taking` are
the two things a step can do; with them each action is only about its own line, which
its round trip settles.  `words`, `FoldLeft` and `ReplaceWord` are recursive functions,
of which a proof knows nothing until one exists: `Recursion` and `FoldExists` show that,
from a rank that decreases, and the same rank gives their types.  What a transcript *says*
is not needed here, only that it is a text.

**The argument for the corrections.**  `CorrectedAsWritten` compares a program, which
rewrites the text once per phrase and each time searches what the earlier phrases have
made of it, with a definition that looks at the original text only.  The invariant
(`SaidInv`) is small; the proof is about the operators:

- The spans of a text are finitely many and `Outranks` orders them, so that there is
  exactly one set of those that no chosen span of a higher rank overlaps
  (`KernelExists`, `ChosenIs`); without it `Chosen` would be an arbitrary value.
- The search of `replace_word_ci` for the next occurrence, which jumps, comes to the same
  as looking at every character (`Bytewise`); it cannot panic, for a phrase of a plain
  table does not begin with a wide character.
- The text with some spans replaced (`Rendered`) is laid out: every edge of the original
  has a place in it (`LaysOut`).  At such a place the phrase is found in it exactly when
  it was found in the original and nothing of the span is replaced yet (`FoundAgain`):
  texts of the table share no character with any phrase, so no occurrence begins in a
  replacement, reaches into one, or gets or loses a word boundary to one.
- When the phrases that come first have had their turn (`Passes`), what is found for the
  next are its chosen spans, those to the left before those to the right (`HitChosen`,
  `FreeChosen`); read from right to left, one call therefore makes the next rendering of
  this one (`ScanStep`).
- `apply_corrections` gives each phrase one turn, in the order of `CorrectionsOrdered`
  (`InTurn`, `OrderComplete`); after the last turn every chosen span is replaced
  (`CorrectedInTurn`).

Induction over positions and turns is done on sets (`NumberInduction`, `RankInduction`),
which needs no theorem with an operator as its parameter.

**Only model-checked.**  Liveness and everything that needs `ENABLED`
(`SettlesOrStranded`, `EveryCaptureEnds`, `SuppressionEnds`, `SupervisionGoesOn`,
`ServingIsAnnounced`, `SignalEnds`, `SessionEnds`, `LoopGoesOn`, `SizeTracked`,
`TriggersSent`, `Relinks`), which the prover does not support; every invariant of the
runs is proved.  `WireInv` quantifies over all ways to cut the
socket into lines, which TLC cannot enumerate; its consequence `ReadAsSent` is what the
run checks.

## 5. What the checks say about the code

**Delivery.**  The ordering core is sound: with any number of transcriptions
finishing in any order, any wrappers coming and going and any stores failing, one
drain works at a time, what it read stays true while it acts without the lock,
every utterance is sent or held at most once, in order, and only to the sink it was
bound to.  It is not always sent: `SettlesOrStranded` names the two ways in which the
queue stands still, a ready head that nobody drains and a head whose transcription
panicked, and says that there is no third.

**Captures.**  The generation guards do their work: force-stop, cap, silence, cancel
and a newer session never consume one session twice or end another's.  What has no
generation is the cap of a recording and the VAD watcher: they may end a newer
recording, but consume it once.  The caps end every dictation and every recording that
nobody stops, microphone included, but for a recording whose handle a later one has
overwritten: nothing can stop that child any more.

**Preview.**  Whatever frames arrive in whatever order and whatever is typed between
them, the wrapper never erases what stood in the prompt before the preview
(`PromptKept`), unless the user has himself erased part of a preview that its cursor
counts: it erases that much too far then.  Suppression keeps him from it while the
dictation runs, but not between a force-stop and its finalize, nor while a preview is
stranded.  Left alone, a dictation ends with its preview replaced or erased
(`PreviewIsReplaced`), and while it runs the prompt shows what its engine has made of
the last decode (`PreviewIsCurrent`).  But that needs nothing to come between: a state
pushed again or late, a dictation begun while the one before is reconciled or its frames
are under way, a key typed or used to erase in the preview, a transcript typed into it,
an edit that is sent after a cancel, a reconcile without a text or a daemon that dies
each may leave rough words in the prompt.  `spoiled` is this list, and the proof shows
it complete.  `WindowSound` and `PreviewIsLastDecode` add that the decoded window is
what it should be and that up to the first slide the preview is exactly the last decode.

**Supervision.**  The model is safe under every mixture of kills, failures and wrong
bytes as long as a digest is pinned; without one a truncated body of unknown length
can be installed.  A stored server never survives an orderly exit, though a child
spawned between `abort` and the store may.  After a probe that gave up the daemon says
"loading" for as long as that server lives (`GaveUp` in `ServingIsAnnounced`), and a
signal during a download waits for the network.

**Continuous.**  Only closed clips are read and words are in order, but the driver
falls behind the directory it shrinks: it is through after about half of the clips.
A clip that fails and stays in the directory only raises the count.  Every session ends
unless its driver panics: it then stays, with its microphone, until the user acts.

**talk-to.**  Injections are neither lost nor reordered, no key comes between two of
one dictation, and the link always comes back.  The loop can be stopped by one
thing only: it writes to an agent that waits for it to read (`Jammed`).  A resize
between the fork and the handler is noticed with the next one (`missed`).

**Lines.**  Each side reads what the other meant as long as texts are single lines,
and with a plain table the byte-wise replacement, phrase by phrase, is the whole-word,
longest-first one; both are proved for all texts.

## 6. Where the code and its documents disagree

Each is shown by a run that violates the stated property, or noted here where it
is plain from the code.

1. **A lost wake-up** (`delivery_lost_wakeup`).  `drain_queue` decides to leave
   under one lock and clears `draining` under the next; a transcript made ready
   in between stays queued until another utterance drains (CONTEXT.md:140).
   `SettlesOrStranded` has one other hole: a transcription that panics (see *Texts*
   below) leaves its entry pending at the head, and nothing behind it is ever typed.
2. **Clips are left behind** (`continuous_clips`).  The comment of `drive_continuous`
   (`main.rs`:784) says that remaining clips are transcribed before the session ends.
   The trace opens three clips and transcribes and removes the first; two files are
   then left, no more than before, which is no progress, and without the one being
   written no more than were transcribed.  After the silence the session ends, and the
   second clip, which was complete, goes with the directory.
3. **The draft of a long dictation** (`window_preview`).  ADR-0004 says that it is a
   draft of the trailing window; the engine cuts as many words off the windowed
   hypothesis as it has committed, and shows less, or nothing.
4. Not runs, but steps of the models, or plain from the code:
   - *Order and binding.*  A dictation is numbered after its reconcile, so a recording
     made later can overtake it (CONTEXT.md:35, `main.rs`:1240); a continuous session
     is bound to the sink active at its end (CONTEXT.md:104, `main.rs`:1009).
   - *One mouth.*  Toggle during a continuous session says idle while the session
     captures on (CONTEXT.md:30, `main.rs`:663).  A recording can be replaced by a new
     one: after whisper-server died and came back during it (`main.rs`:272), or when a
     session that was toggled to idle ends during it.  The handle of its child is
     overwritten (`main.rs`:666, 684), nothing stops that child, and its microphone
     stays on (that of a VAD recording until the first silence).
   - *Caps.*  The cap of an earlier recording ends a newer one (`main.rs`:1544); one
     that fires while the model loads makes the daemon idle, although `machine.rs`
     says that commands are rejected while it loads.
   - *Replay.*  `replay-last` replays the newest cached transcript, delivered or held,
     where CONTEXT.md says "the most-recent held one"; two transcripts stored in the
     same millisecond share a file.
   - *Prompt.*  A dictation begun while the one before is reconciled empties the
     wrapper's cursor (`talk-to/src/main.rs`:419, CONTEXT.md:84), and so does a second
     Shift+F9, which the state machine ignores but whose state is sent again; an edit
     sent after a cancel is typed into the clean prompt; a dictation without speech
     leaves its preview.  Backspace, Ctrl-W or Ctrl-U between a force-stop and its
     finalize shorten the preview but not the cursor, and the finalize erases into
     what stood before it (`talk-to/src/main.rs`:225, 430).
   - *Keys.*  A daemon that dies during a dictation leaves the keys suppressed until
     another one registers the wrapper, where a comment (325-328) speaks of passing
     through; what is left in the agent's PTY when it hangs up is not shown (252-254).
   - *Supervision.*  VALIDATION.md:206 has the daemon go from downloading to loading to
     idle; it stays "downloading" until it is idle.  A child spawned between abort and
     store survives the teardown that is to free its VRAM (`main.rs`:228).
   - *Continuous.*  Progress is a larger count of files or a transcribed clip.  One clip
     that is spoken for longer than `session_end_silence` is neither, and new clips do
     not raise the count when as many were removed (`main.rs`:823), so a session can
     end while the user speaks.
   - *Window.*  For a capture of an odd number of bytes the window is one byte longer
     than its bound, which a comment (`window.rs`:45) excludes; the floor is the left
     edge of the last window and not what was committed, so committed audio is decoded
     again until the window slides, where a comment (`main.rs`:1070) says never.
   - *Texts.*  A phrase that begins with a wide character and occurs inside a word makes
     `replace_word_ci` cut inside that character, which panics: in a recording's task
     its entry stays pending at the head of the queue (`main.rs`:1339), in the driver of
     a continuous session the session stays (`main.rs`:946), and in a dictation's
     reconcile the preview does (`main.rs`:1238).  A line break in a correction ends the
     frame (`protocol.rs`:190 says it is a single line); a phrase may be found in what
     another has put in.
   - *Finalize.*  The capture of a failed finalize is removed although the notice says
     that the recording was kept (`main.rs`:1259).
   - *Cache.*  With `transcript_keep = 0` (`config.rs`:166) the transcript is pruned as
     soon as it is stored, so that nothing is cached before delivery and nothing can be
     replayed (CONTEXT.md:142: "**Transcript** is cached to disk *before* **Auto-type** is
     attempted").

## 7. Not modelled, and the plan

Left out for good: configuration parsing (`config.rs`), prompts, GPU selection, cue
sounds, the doctor and the one-shot transcriber.  They are sequential and without
state; all the daemon takes from them is whether there is a value.  Wall-clock
durations are choices: a timer may fire at any time after it is armed.  The JSON of
whisper-server's answer is read as its text.  Painting the strip and logging are
output only.  `min_clip_seconds`, `accumulate_clips` and `classify_silence`
(`session.rs`), and `StatusReport::parse` outside tests, are not used by the programs;
only the last is in the model, as the reading of a status line.  The corpus of
recordings is only ever written.

The plan, the most important first:

1. *(done)* Delivery, Recorder and their proofs; the preview.
2. *(done)* Window, Supervisor and Continuous with their proofs; TalkTo; Protocol,
   Corrections and Wire.
3. *(done)* Proofs of Preview, of TalkTo and of Wire.
4. Continuous composed with Recorder, so that its toggle and its replacement are one
   system.
