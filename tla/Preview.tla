-------------------------------- MODULE Preview --------------------------------
(***************************************************************************)
(* The live preview of streaming dictations, from the decode to the prompt *)
(* of the wrapped agent: the driver and the finalizer in the daemon, the   *)
(* two channels of the wrapper's connection (pushed frames and the watched *)
(* state, main.rs), and in talk-to the thread that applies what it reads   *)
(* and the proxy loop, the only writer to the agent (talk-to/src/main.rs). *)
(*                                                                         *)
(* There is one wrapper; it reconnects when the daemon died.  A dictation  *)
(* is named by the order of its start, which is its generation.  How the   *)
(* reconciled transcript gets through the queue is Delivery's business:    *)
(* here its delivery is one step.  A line on the socket is read and what   *)
(* follows is typed in the step that writes it: the socket and the wrapper *)
(* keep the order and never answer, so that a wrapper that reads, or turns *)
(* its loop, later is one where everything comes later, and a key that is  *)
(* forwarded in between is one pressed before.                             *)
(***************************************************************************)
EXTENDS CommitEngine

CONSTANTS
  Words,            \* what the decoder may hear
  Budgets           \* bounds: each says what a decode may return and how often
                    \* what happens in one behaviour

Bounded == {"dictations", "decodes", "keys", "transcripts", "pushes", "links"}

ASSUME WordsAssumption == {"key", "text"} \cap Words = {}
ASSUME BudgetsAssumption ==
  \A b \in Budgets :
    /\ b.hypotheses \subseteq Seq(Words) \ {<<>>}
    /\ \A what \in Bounded : b[what] \in Nat

Dictation == UNION {1 .. b.dictations : b \in Budgets}
None      == 0
NoEdit    == [committed |-> <<>>, tail |-> <<>>]

VARIABLES
  state,        \* Daemon::state
  session,      \* Daemon::streaming, the dictation
  engine,       \* the commit engine of the session
  lastTail,     \* the tail it sent last
  bound,        \* the connection each dictation is bound to
  driver,       \* where drive_streaming of each dictation is
  edit,         \* and the LiveEdit it is going to send
  finalizers,   \* calls of finalize_streaming before their first lock
  reconciling,  \* and after it
  registered,   \* the connection in sink_conns
  lane,         \* its channel of frames
  unseen,       \* its watch of the state has changed
  suppress,     \* Shared::streaming
  cursor,       \* Shared::cursor
  prompt,       \* what the agent's composer shows
  retracted,    \* history: the user erased while a preview was counted
  spoiled,      \* history: something came between a preview and its end, see below
  budget,       \* the bounds of this behaviour
  used          \* what is used up of them

live    == <<engine, lastTail>>
daemon  == <<state, session, live, bound, driver, edit,
             finalizers, reconciling>>
channel == <<registered, lane, unseen>>
wrapper == <<suppress, cursor, prompt, retracted>>
vars    == <<daemon, channel, wrapper, spoiled, budget, used>>

-----------------------------------------------------------------------------
Init ==
  /\ state = "loading"
  /\ session = None
  /\ engine = FreshEngine /\ lastTail = <<>>
  /\ bound = [d \in Dictation |-> None]
  /\ driver = [d \in Dictation |-> "none"]
  /\ edit = [d \in Dictation |-> NoEdit]
  /\ finalizers = {} /\ reconciling = {}
  /\ registered = None
  /\ lane = <<>>
  /\ unseen = FALSE
  /\ suppress = FALSE
  /\ cursor = FreshCursor
  /\ prompt = <<>>
  /\ retracted = FALSE
  /\ spoiled = FALSE
  /\ budget \in Budgets
  /\ used = [what \in Bounded |-> 0]

Use(what) ==
  /\ used[what] < budget[what] /\ used' = [used EXCEPT ![what] = @ + 1]
  /\ UNCHANGED budget

\* Is the wrapper of connection c live?
Live(c) == c # None /\ c = registered

\* set_state: the wrapper's watch changes, even when the state does not.
SetState(s) == state' = s /\ unseen' = (registered # None)

\* A frame pushed to connection c arrives if c is still there.
Push(c, frame) == lane' = IF Live(c) THEN Append(lane, frame) ELSE lane

\* Is a word of a preview in the prompt?
HasPreview(text) == \E i \in DOMAIN text : text[i] \in Words

\* What can spoil a preview: a state that is pushed again or late, another dictation
\* that begins during the reconcile or as frames of the last are still in the lane,
\* a key or a transcript typed into it, an edit sent after a cancel, a reconcile
\* without a text, a daemon that dies.
Spoil(happened) == spoiled' = (spoiled \/ happened)

\* A frame of d arrives when the next dictation has begun.
Astray(d) == d # used.dictations

EditFrame(d, e)       == [kind |-> "edit", dictation |-> d, edit |-> e]
FinalizeFrame(d, t)   == [kind |-> "finalize", dictation |-> d, text |-> t]
TranscriptFrame       == [kind |-> "transcript"]

-----------------------------------------------------------------------------
(* The daemon: commands *)

\* start_streaming, refused while a session is still there.
StartStreaming ==
  /\ state = "idle" /\ session = None
  /\ Use("dictations")
  /\ SetState("streaming")
  /\ session' = used'.dictations
  /\ engine' = FreshEngine /\ lastTail' = <<>>
  /\ bound' = [bound EXCEPT ![session'] = registered]
  /\ driver' = [driver EXCEPT ![session'] = "live"]
  /\ Spoil(reconciling # {})
  /\ UNCHANGED <<edit, finalizers, reconciling, registered, lane, wrapper>>

\* A force-stop (Shift+F10): idle at once, finalized by a spawned task.
StopStreaming ==
  /\ state = "streaming"
  /\ SetState("idle")
  /\ finalizers' = finalizers \cup ({session} \ {None})
  /\ UNCHANGED <<session, live, bound, driver, edit, reconciling,
                 registered, lane, wrapper, spoiled, budget, used>>

\* The session is taken out of the daemon and its sox stopped.
TakeSession ==
  /\ session' = None
  /\ engine' = FreshEngine /\ lastTail' = <<>>

\* Mutant of DiscardStreaming: the preview is left in the prompt.
DiscardLeavingPreview ==
  /\ state = "streaming" /\ session # None
  /\ SetState("idle")
  /\ TakeSession
  /\ UNCHANGED <<bound, driver, edit, finalizers, reconciling,
                 registered, lane, wrapper, spoiled, budget, used>>

\* A cancel (discard_streaming): an empty finalize erases the preview.
DiscardStreaming ==
  /\ state = "streaming" /\ session # None
  /\ SetState("idle")
  /\ TakeSession
  /\ Push(bound[session], FinalizeFrame(session, <<>>))
  /\ UNCHANGED <<bound, driver, edit, finalizers, reconciling,
                 registered, wrapper, spoiled, budget, used>>

\* A command that leaves the state where it is (another Shift+F9, vad, reload, a
\* command refused while loading): apply_command sets it all the same.
IgnoredCommand ==
  /\ Use("pushes")
  /\ SetState(state)
  /\ UNCHANGED <<session, live, bound, driver, edit, finalizers,
                 reconciling, registered, lane, wrapper, spoiled>>

-----------------------------------------------------------------------------
(* The daemon: the tasks of dictation d *)

\* The round of d is over.  If sox had exited before it (a long silence, an
\* error), it was the last.
EndRound(d) ==
  /\ driver' \in {[driver EXCEPT ![d] = pc] : pc \in {"live", "end"}}
  /\ edit' = [edit EXCEPT ![d] = NoEdit]

\* A round of drive_streaming without a change: there is too little audio, no
\* answer, nothing heard, or nothing new.
SilentRound(d) ==
  /\ driver[d] = "live"
  /\ EndRound(d)
  /\ UNCHANGED <<state, session, live, bound, finalizers, reconciling, channel,
                 wrapper, spoiled, budget, used>>

\* Mutant of Decode: the generation of the session is not looked at.
DecodeSuperseded(d) ==
  /\ driver[d] = "live" /\ session # None
  /\ Use("decodes")
  /\ \E hypothesis \in budget.hypotheses :
       LET seen == Observe(engine, hypothesis)
           new  == seen.committed # <<>> \/ seen.tail # lastTail
       IN /\ engine' = seen.engine /\ lastTail' = seen.tail
          /\ \/ /\ new
                /\ driver' = [driver EXCEPT ![d] = "send"]
                /\ edit' = [edit EXCEPT ![d] =
                     [committed |-> seen.committed, tail |-> seen.tail]]
             \/ ~new /\ EndRound(d)
  /\ UNCHANGED <<state, session, bound, finalizers, reconciling, channel,
                 wrapper, spoiled>>

\* decode_live answers, and push_live_edit under its lock: if the session is
\* still there and the preview changes, there is an edit to send.  The lock at
\* the top of the loop reads nothing else that can change.
Decode(d) ==
  /\ driver[d] = "live" /\ session = d
  /\ Use("decodes")
  /\ \E hypothesis \in budget.hypotheses :
       LET seen == Observe(engine, hypothesis)
           new  == seen.committed # <<>> \/ seen.tail # lastTail
       IN /\ engine' = seen.engine /\ lastTail' = seen.tail
          /\ \/ /\ new
                /\ driver' = [driver EXCEPT ![d] = "send"]
                /\ edit' = [edit EXCEPT ![d] =
                     [committed |-> seen.committed, tail |-> seen.tail]]
             \/ ~new /\ EndRound(d)
  /\ UNCHANGED <<state, session, bound, finalizers, reconciling, channel,
                 wrapper, spoiled>>

\* The loop ends as the session is gone.
DriverReturns(d) ==
  /\ driver[d] = "live" /\ session # d
  /\ driver' = [driver EXCEPT ![d] = "none"]
  /\ UNCHANGED <<state, session, live, bound, edit, finalizers, reconciling,
                 channel, wrapper, spoiled, budget, used>>

\* The send of push_live_edit, after its lock: the dictation may be over.  The
\* sender was cloned at the top of the loop; it is the one of bound.
SendEdit(d) ==
  /\ driver[d] = "send"
  /\ Push(bound[d], EditFrame(d, edit[d]))
  /\ EndRound(d)
  /\ Spoil(session # d /\ d \notin reconciling)
  /\ UNCHANGED <<state, session, live, bound, finalizers, reconciling,
                 registered, unseen, wrapper, budget, used>>

\* finalize_streaming, first lock: whoever comes first takes the session.
Finalize(d) ==
  IF session = d
  THEN /\ TakeSession
       /\ reconciling' = reconciling \cup {d}
       /\ IF state = "streaming" THEN SetState("idle") ELSE UNCHANGED <<state, unseen>>
  ELSE UNCHANGED <<state, session, live, reconciling, unseen>>

\* Called by the driver.
DriverFinalizes(d) ==
  /\ driver[d] = "end"
  /\ Finalize(d)
  /\ driver' = [driver EXCEPT ![d] = "none"]
  /\ UNCHANGED <<bound, edit, finalizers, registered, lane,
                 wrapper, spoiled, budget, used>>

\* arm_streaming_cap: the time of the dictation is up.
StreamingCap(d) ==
  /\ session = d
  /\ Finalize(d)
  /\ UNCHANGED <<bound, driver, edit, finalizers, registered, lane,
                 wrapper, spoiled, budget, used>>

\* Spawned by a force-stop.
FinalizerRuns(d) ==
  /\ d \in finalizers
  /\ finalizers' = finalizers \ {d}
  /\ Finalize(d)
  /\ UNCHANGED <<bound, driver, edit, registered, lane,
                 wrapper, spoiled, budget, used>>

\* The batch transcript is there: the drain pushes it as a replacement of the
\* preview to the wrapper it is bound to, or it is held.
Reconciled(d) ==
  /\ d \in reconciling
  /\ reconciling' = reconciling \ {d}
  /\ Push(bound[d], FinalizeFrame(d, <<"text">>))
  /\ UNCHANGED <<state, session, live, bound, driver, edit,
                 finalizers, registered, unseen, wrapper, spoiled, budget, used>>

\* No speech, no answer, or a panic: nothing is pushed.
ReconciledEmpty(d) ==
  /\ d \in reconciling
  /\ reconciling' = reconciling \ {d}
  /\ spoiled' = TRUE
  /\ UNCHANGED <<state, session, live, bound, driver, edit,
                 finalizers, channel, wrapper, budget, used>>

\* The drain pushes the transcript of a recording.
DeliverTranscript ==
  /\ registered # None
  /\ Use("transcripts")
  /\ Push(registered, TranscriptFrame)
  /\ UNCHANGED <<daemon, registered, unseen, wrapper, spoiled>>

-----------------------------------------------------------------------------
(* The daemon: its life *)

\* The model is in memory again.
Ready ==
  /\ state = "loading"
  /\ SetState("idle")
  /\ UNCHANGED <<session, live, bound, driver, edit, finalizers,
                 reconciling, registered, lane, wrapper, spoiled, budget, used>>

\* supervise notices that whisper-server died: loading, whatever is captured.
ServerDies ==
  /\ state # "loading"
  /\ Use("pushes")
  /\ SetState("loading")
  /\ UNCHANGED <<session, live, bound, driver, edit, finalizers, reconciling,
                 registered, lane, wrapper, spoiled>>

\* Everything in memory is gone, and what talk-to reads next is the end of the
\* connection: the strip says so and nothing else in it changes.
DaemonDies ==
  /\ registered # None
  /\ registered' = None
  /\ state' = "loading"
  /\ TakeSession
  /\ driver' = [d \in Dictation |-> "none"]
  /\ edit' = [d \in Dictation |-> NoEdit]
  /\ finalizers' = {} /\ reconciling' = {}
  /\ lane' = <<>>
  /\ unseen' = FALSE
  /\ spoiled' = TRUE
  /\ UNCHANGED <<bound, wrapper, budget, used>>

-----------------------------------------------------------------------------
(* talk-to, apply_frame *)

\* Bytes are queued for the proxy loop, which writes them to the agent.
Inject(bytes) == prompt' = Typed(prompt, bytes)

\* Mutant of ApplyState: the end of a dictation is not noticed.
ApplyStateForGood(s) ==
  /\ suppress' = (suppress \/ s = "streaming")
  /\ cursor' = IF s = "streaming" THEN FreshCursor ELSE cursor
  /\ retracted' = IF s = "streaming" THEN FALSE ELSE retracted
  /\ Spoil(s = "streaming" /\ PreviewLen(cursor) > 0)
  /\ UNCHANGED prompt

\* A state: whenever it says streaming, the cursor is emptied.
ApplyState(s) ==
  /\ suppress' = (s = "streaming")
  /\ cursor' = IF s = "streaming" THEN FreshCursor ELSE cursor
  /\ retracted' = IF s = "streaming" THEN FALSE ELSE retracted
  /\ Spoil(s = "streaming" /\ PreviewLen(cursor) > 0)
  /\ UNCHANGED prompt

\* A live edit of dictation d.
ApplyEdit(d, e) ==
  /\ Inject(EditBytes(cursor, e.committed, e.tail))
  /\ cursor' = EditCursor(cursor, e.committed, e.tail)
  /\ Spoil(Astray(d))
  /\ UNCHANGED <<suppress, retracted>>

\* Mutant of ApplyFinalize: the cursor stays where the preview ended.
ApplyFinalizeKeepingCursor(d, text) ==
  /\ Inject(FinalizeBytes(cursor, text))
  /\ retracted' = FALSE
  /\ Spoil(Astray(d))
  /\ UNCHANGED <<suppress, cursor>>

\* A finalize of dictation d.
ApplyFinalize(d, text) ==
  /\ Inject(FinalizeBytes(cursor, text))
  /\ cursor' = FreshCursor
  /\ retracted' = FALSE
  /\ Spoil(Astray(d))
  /\ UNCHANGED suppress

\* A transcript: it is typed behind whatever is there.
ApplyTranscript ==
  /\ Inject([erase |-> 0, text |-> <<"text">>])
  /\ Spoil(PreviewLen(cursor) > 0)
  /\ UNCHANGED <<suppress, cursor, retracted>>

-----------------------------------------------------------------------------
(* The connection: serve_sink writes a line and serve_link applies it *)

\* talk-to connects and registers, and the state is pushed at once.
Register ==
  /\ registered = None
  /\ Use("links")
  /\ registered' = used'.links
  /\ lane' = <<>>
  /\ unseen' = FALSE
  /\ ApplyState(state)
  /\ UNCHANGED daemon

\* The select of serve_sink takes frames and changes of the state in any order.
ForwardFrame ==
  /\ lane # <<>>
  /\ lane' = Tail(lane)
  /\ LET frame == Head(lane) IN
       \/ frame.kind = "edit" /\ ApplyEdit(frame.dictation, frame.edit)
       \/ frame.kind = "finalize" /\ ApplyFinalize(frame.dictation, frame.text)
       \/ frame.kind = "transcript" /\ ApplyTranscript
  /\ UNCHANGED <<daemon, registered, unseen, budget, used>>

\* Of several changes only the last is seen.
ForwardState ==
  /\ unseen
  /\ unseen' = FALSE
  /\ ApplyState(state)
  /\ UNCHANGED <<daemon, registered, lane, budget, used>>

-----------------------------------------------------------------------------
(* talk-to, proxy_loop *)

\* A key is pressed: suppressed, or forwarded to the agent, whose composer takes it
\* as a symbol or erases for it (Backspace a symbol, Ctrl-W a word, Enter all).  The
\* wrapper looks at no byte and its cursor stays.  The caret is taken to stay at the
\* end, where every erasure is made.
Key ==
  /\ Use("keys")
  /\ \/ suppress /\ UNCHANGED <<prompt, retracted>>
     \/ ~suppress /\ prompt' = Append(prompt, "key") /\ UNCHANGED retracted
     \/ /\ ~suppress
        /\ \E n \in 1 .. Len(prompt) : prompt' = Keep(prompt, n)
        /\ retracted' = (retracted \/ PreviewLen(cursor) > 0)
  /\ Spoil(~suppress /\ HasPreview(prompt))
  /\ UNCHANGED <<daemon, channel, suppress, cursor>>

-----------------------------------------------------------------------------
\* Nothing is on its way from the daemon to the prompt.
Quiet ==
  /\ session = None
  /\ \A d \in Dictation : driver[d] = "none"
  /\ finalizers = {} /\ reconciling = {}
  /\ lane = <<>> /\ ~unseen

\* Bound: nothing is left to do.
Exhausted ==
  /\ Quiet
  /\ state = "idle"
  /\ used.dictations = budget.dictations /\ used.links = budget.links
  /\ UNCHANGED vars

User == StartStreaming \/ StopStreaming \/ DiscardStreaming \/ IgnoredCommand \/ Key

DictationStep(d) ==
  \/ SilentRound(d) \/ Decode(d) \/ SendEdit(d) \/ DriverReturns(d)
  \/ DriverFinalizes(d) \/ StreamingCap(d) \/ FinalizerRuns(d)
  \/ Reconciled(d) \/ ReconciledEmpty(d)

Connection == ForwardFrame \/ ForwardState

Next ==
  \/ User
  \/ \E d \in Dictation : DictationStep(d)
  \/ DeliverTranscript \/ Ready \/ ServerDies \/ DaemonDies \/ Register
  \/ Connection
  \/ Exhausted

Spec == Init /\ [][Next]_vars

\* Timers fire, spawned tasks and threads run, and select is fair to both
\* channels; no key has to be pressed, sox need not exit, and a daemon that
\* died need not come back.
FairSpec ==
  /\ Spec
  /\ \A d \in Dictation : WF_vars(StreamingCap(d)) /\ WF_vars(FinalizerRuns(d))
  /\ WF_vars(ForwardFrame) /\ WF_vars(ForwardState)

-----------------------------------------------------------------------------
(* Properties *)

Text == Words \cup {"key", "text"}

Edit == [committed : Seq(Words), tail : Seq(Words)]

Frame ==
  [kind : {"edit"}, dictation : Dictation, edit : Edit]
    \cup [kind : {"finalize"}, dictation : Dictation, text : {<<>>, <<"text">>}]
    \cup {TranscriptFrame}

\* Every variable holds a value of the kind the code gives it.
TypeOK ==
  /\ state \in {"loading", "idle", "streaming"}
  /\ session \in Dictation \cup {None}
  /\ bound \in [Dictation -> Nat]
  /\ engine \in [committed : Seq(Words), prev : Seq(Words)]
  /\ lastTail \in Seq(Words)
  /\ driver \in [Dictation -> {"none", "live", "send", "end"}]
  /\ edit \in [Dictation -> Edit]
  /\ finalizers \subseteq Dictation /\ reconciling \subseteq Dictation
  /\ registered \in Nat
  /\ lane \in Seq(Frame)
  /\ {unseen, suppress, spoiled, retracted} \subseteq BOOLEAN
  /\ cursor \in [stable : Nat, tail : Nat]
  /\ prompt \in Seq(Text)

\* What stands in the prompt before the first word of a preview is erased by the user
\* only, whatever frames arrive in whatever order and whatever is typed between them:
\* the wrapper never sends more erasures than it typed preview words.  Unless the
\* user has erased while a preview was counted (retracted): then the wrapper, which
\* does not know, erases that much too far.
PromptKept ==
  [][~Key /\ ~retracted =>
       \A n \in DOMAIN prompt :
         (\A i \in 1 .. n : prompt[i] \notin Words)
           => n \in DOMAIN prompt' /\ prompt'[n] = prompt[n]]_vars

\* When everything has arrived, no word of a preview is left in the prompt,
\* unless something got between the preview and its end (spoiled): these are
\* the only ways to spoil it.
PreviewIsReplaced == Quiet /\ ~spoiled => ~HasPreview(prompt)

\* While a dictation runs and its edits have arrived, the prompt ends with the stable
\* prefix and the last hypothesis beyond it, and shows no word before: the daemon's
\* engine and the wrapper's cursor agree, though they only exchange edits.
PreviewIsCurrent ==
  session # None /\ Live(bound[session]) /\ ~spoiled /\ driver[session] # "send"
    /\ lane = <<>>
    => LET shown  == engine.committed \o After(engine.prev, Len(engine.committed))
           before == Keep(prompt, Len(shown))
       IN prompt = before \o shown /\ ~HasPreview(before)

\* Suppression ends, unless the daemon is gone.
SuppressionEnds == suppress ~> ~suppress \/ registered = None
=============================================================================
