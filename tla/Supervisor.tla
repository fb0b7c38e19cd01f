------------------------------ MODULE Supervisor ------------------------------
(***************************************************************************)
(* The life of the daemon around its whisper-server: the first-run model   *)
(* download, the supervision loop, the signal that ends the daemon and the *)
(* crash that ends it without a word.  Captures are reduced to the one     *)
(* fact that a command may hold a sox child; Recorder has the rest.        *)
(***************************************************************************)
EXTENDS Integers, Sequences

CONSTANTS Procs,       \* names of whisper-server processes, reused once dead
          Size,        \* length of the model, in received chunks
          Percents,    \* how many percents make a whole (100 in the code)
          MaxProbes,   \* connection attempts of one probe (240 in the code)
          MaxLives     \* bound: how often the daemon is started

ASSUME SupervisorAssumption ==
    /\ Procs \subseteq Nat \ {0}
    /\ Size \in Nat \ {0}
    /\ Percents \in Nat \ {0}
    /\ MaxProbes \in Nat \ {0}
    /\ MaxLives \in Nat \ {0}

VARIABLES
    daemon,    \* what main is doing; "torn" and later: shutting_down is set
    life,      \* number of daemons started so far
    crashed,   \* history: this daemon was killed before it could tear down
    state,     \* the observable State, with the percent of a download
    sup,       \* where the supervise task is
    held,      \* the child that supervise has spawned and not stored yet
    whisper,   \* Daemon.whisper, 0 when there is none
    probes,    \* attempts made by the running probe
    stored,    \* history: children stored before the signal, in this life
    proc,      \* what each whisper-server process is doing
    transfer,  \* the blocking thread that downloads the model
    chan,      \* percents on their way from that thread to the applier task
    last,      \* PercentThrottle.last
    model,     \* the file under model_path
    part,      \* the file <model_path>.download
    pinned,    \* model_sha256 is configured
    recorder,  \* a command holds a sox child
    strayMic   \* a sox child runs that nobody holds

daemonVars == <<daemon, life, crashed>>
supVars == <<sup, held, probes>>
fileVars == <<model, part, pinned>>
downloadVars == <<transfer, chan, last>>
micVars == <<recorder, strayMic>>
vars == <<daemonVars, state, supVars, whisper, stored, proc, downloadVars,
          fileVars, micVars>>

Unknown == -1                       \* the percent of a body without a length
None == 0

Kinds == {"loading", "downloading", "idle", "recording"}
SupPcs == {"start", "attempt", "transferring", "retry", "loop", "spawned",
           "probing", "ready", "waiting", "exited", "restart", "backoff",
           "ended", "cancelled"}
Shown(kind) == [kind |-> kind, pct |-> Unknown]

NoTransfer == [pc |-> "none", received |-> 0, known |-> FALSE, intact |-> FALSE]
Transferring == transfer.pc \notin {"none", "ok", "err"}
ShuttingDown == daemon = "torn"
Aborted == daemon \in {"aborting", "torn"}

\* The runtime still schedules tasks.
Scheduled == daemon \in {"running", "aborting", "torn"}
Alive(p) == proc[p] \in {"loading", "serving"}

\* Progress::percent: unknown without a length, else rounded down.
Percent(t) ==
    IF t.known THEN (t.received * Percents) \div Size ELSE Unknown

\* Every variable holds a value of the kind the code gives it.
TypeOK ==
    /\ daemon \in {"running", "aborting", "torn", "draining", "exited"}
    /\ life \in 1..MaxLives /\ crashed \in BOOLEAN
    /\ state \in [kind : Kinds, pct : {Unknown} \cup 0..Percents]
    /\ sup \in SupPcs
    /\ held \in Procs \cup {None} /\ whisper \in Procs \cup {None}
    /\ probes \in 0..MaxProbes
    /\ stored \subseteq Procs
    /\ proc \in [Procs -> {"none", "loading", "serving", "dead"}]
    /\ transfer \in [pc : {"none", "request", "stream", "verify", "install",
                           "ok", "err"},
                     received : 0..Size, known : BOOLEAN, intact : BOOLEAN]
    /\ chan \in Seq(0..Percents)
    /\ last \in {Unknown} \cup 0..Percents
    /\ model \in {"absent", "whole", "bad"}
    /\ part \in {"absent", "partial", "whole", "bad"}
    /\ pinned \in BOOLEAN
    /\ recorder \in BOOLEAN /\ strayMic \in BOOLEAN

\* main, up to its accept loop: a fresh Daemon, and supervise spawned.
Boot ==
    /\ daemon' = "running" /\ crashed' = FALSE
    /\ state' = Shown("loading")
    /\ sup' = "start" /\ held' = None /\ whisper' = None /\ probes' = 0
    /\ stored' = {}
    /\ transfer' = NoTransfer /\ chan' = <<>> /\ last' = Unknown
    /\ recorder' = FALSE

Init ==
    /\ daemon = "running" /\ life = 1 /\ crashed = FALSE
    /\ state = Shown("loading")
    /\ sup = "start" /\ held = None /\ whisper = None /\ probes = 0
    /\ stored = {}
    /\ proc = [p \in Procs |-> "none"]
    /\ transfer = NoTransfer /\ chan = <<>> /\ last = Unknown
    /\ model \in {"absent", "whole"} /\ part = "absent" /\ pinned \in BOOLEAN
    /\ recorder = FALSE /\ strayMic = FALSE

------------------------------------------------------------------------------
(* ensure_model_present: classify looks at the presence of the file only.  *)

FindModel ==
    /\ Scheduled /\ sup = "start"
    /\ \/ model # "absent" /\ sup' = "loop" /\ UNCHANGED state
       \/ model = "absent" /\ sup' = "attempt" /\ state' = Shown("downloading")
    /\ UNCHANGED <<daemonVars, held, whisper, probes, stored, proc,
                   downloadVars, fileVars, micVars>>

\* The lock at the top of the retry loop, and download_model_once up to its await.
BeginAttempt ==
    /\ Scheduled /\ sup = "attempt"
    /\ \/ /\ ShuttingDown
          /\ sup' = "ended"
          /\ UNCHANGED <<state, transfer, last>>
       \/ /\ ~ShuttingDown
          /\ sup' = "transferring"
          /\ state' = Shown("downloading")
          /\ transfer' = [NoTransfer EXCEPT !.pc = "request"]
          /\ last' = Unknown
    /\ UNCHANGED <<daemonVars, held, whisper, probes, stored, proc, chan,
                   fileVars, micVars>>

\* The transfer has returned, its sender is dropped and the applier has drained
\* the channel.
AttemptEnds ==
    /\ Scheduled /\ ~Aborted /\ sup = "transferring"
    /\ transfer.pc \in {"ok", "err"} /\ chan = <<>>
    /\ sup' = IF transfer.pc = "ok" THEN "loop" ELSE "retry"
    /\ transfer' = NoTransfer
    /\ UNCHANGED <<daemonVars, state, held, whisper, probes, stored, proc,
                   chan, last, fileVars, micVars>>

\* Mutant of RetryDelayEnds: a failed attempt is the last one.
RetryGivesUp ==
    /\ Scheduled /\ ~Aborted /\ sup = "retry"
    /\ sup' = "ended"
    /\ UNCHANGED <<daemonVars, state, held, whisper, probes, stored, proc,
                   downloadVars, fileVars, micVars>>

RetryDelayEnds ==
    /\ Scheduled /\ ~Aborted /\ sup = "retry"
    /\ sup' = "attempt"
    /\ UNCHANGED <<daemonVars, state, held, whisper, probes, stored, proc,
                   downloadVars, fileVars, micVars>>

\* The applier task: one percent of the channel becomes the state.
ApplyPercent ==
    /\ Scheduled /\ chan # <<>>
    /\ state' = [kind |-> "downloading", pct |-> Head(chan)]
    /\ chan' = Tail(chan)
    /\ UNCHANGED <<daemonVars, supVars, whisper, stored, proc, transfer, last,
                   fileVars, micVars>>

------------------------------------------------------------------------------
(* download_model, on a thread that outlives the task that waits for it.   *)

OutsideTransfer == UNCHANGED <<daemonVars, state, supVars, whisper, stored,
                               proc, pinned, micVars>>

\* GET fails or is answered with an error; or the partial file is created anew.
RequestFails ==
    /\ transfer.pc = "request"
    /\ transfer' = [transfer EXCEPT !.pc = "err"]
    /\ OutsideTransfer /\ UNCHANGED <<chan, last, model, part>>

Request(known, intact) ==
    /\ transfer.pc = "request"
    /\ transfer' = [pc |-> "stream", received |-> 0, known |-> known,
                    intact |-> intact]
    /\ part' = "partial"
    /\ OutsideTransfer /\ UNCHANGED <<chan, last, model>>

\* A chunk is written; the throttle passes a percent on when it is a new one.
\* Once the tasks are gone the channel is closed and the send fails.
Receive ==
    /\ transfer.pc = "stream" /\ transfer.received < Size
    /\ LET t == [transfer EXCEPT !.received = @ + 1]
           new == Percent(t) # Unknown /\ Percent(t) # last
       IN  /\ transfer' = t
           /\ last' = IF new THEN Percent(t) ELSE last
           /\ chan' = IF new /\ Scheduled THEN Append(chan, Percent(t)) ELSE chan
    /\ OutsideTransfer /\ UNCHANGED <<model, part>>

TransferFails ==
    /\ transfer.pc \in {"stream", "install"}
    /\ transfer' = [transfer EXCEPT !.pc = "err"]
    /\ OutsideTransfer /\ UNCHANGED <<chan, last, model, part>>

\* Mutant of BodyEnds: the file is moved into place before it is verified.
BodyEndsUnverified ==
    /\ transfer.pc = "stream"
    /\ transfer.known => transfer.received = Size
    /\ part' = IF transfer.intact /\ transfer.received = Size
               THEN "whole" ELSE "bad"
    /\ transfer' = [transfer EXCEPT !.pc = "install"]
    /\ OutsideTransfer /\ UNCHANGED <<chan, last, model>>

\* The end of the body: with a length only after all of it, else anywhere.
BodyEnds ==
    /\ transfer.pc = "stream"
    /\ transfer.known => transfer.received = Size
    /\ part' = IF transfer.intact /\ transfer.received = Size
               THEN "whole" ELSE "bad"
    /\ transfer' = [transfer EXCEPT !.pc = "verify"]
    /\ OutsideTransfer /\ UNCHANGED <<chan, last, model>>

\* verify_download: without a pinned digest everything passes.
Verify ==
    /\ transfer.pc = "verify"
    /\ \/ /\ pinned => part = "whole"
          /\ transfer' = [transfer EXCEPT !.pc = "install"]
          /\ UNCHANGED part
       \/ /\ pinned /\ part # "whole"
          /\ transfer' = [transfer EXCEPT !.pc = "err"]
          /\ part' = "absent"
    /\ OutsideTransfer /\ UNCHANGED <<chan, last, model>>

Install ==
    /\ transfer.pc = "install"
    /\ transfer' = [transfer EXCEPT !.pc = "ok"]
    /\ model' = part /\ part' = "absent"
    /\ OutsideTransfer /\ UNCHANGED <<chan, last>>

Transfer ==
    \/ RequestFails
    \/ \E known, intact \in BOOLEAN : Request(known, intact)
    \/ Receive
    \/ TransferFails
    \/ BodyEnds
    \/ Verify
    \/ Install

------------------------------------------------------------------------------
(* supervise.  A step that must wait (a timer, a connection, a thread) is   *)
(* not taken once the task is aborted; one that only takes the lock may be, *)
(* because an abort strikes where the task yields.                          *)

OutsideLoop == UNCHANGED <<daemonVars, downloadVars, fileVars, micVars>>

\* The two locks at the top of the loop, and spawn_whisper.  A process that has
\* exited and is not held any more leaves its name to a new one.
Spawn ==
    /\ Scheduled /\ sup = "loop" /\ ~ShuttingDown
    /\ \/ \E p \in {q \in Procs : ~Alive(q)} :
             /\ held' = p /\ sup' = "spawned"
             /\ proc' = [proc EXCEPT ![p] = "loading"]
             /\ stored' = stored \ {p}
       \/ sup' = "exited" /\ UNCHANGED <<held, proc, stored>>
    /\ OutsideLoop /\ UNCHANGED <<state, whisper, probes>>

StopLooping ==
    /\ Scheduled /\ sup \in {"loop", "exited"} /\ ShuttingDown
    /\ sup' = "ended"
    /\ OutsideLoop /\ UNCHANGED <<state, held, whisper, probes, stored, proc>>

StoreChild ==
    /\ Scheduled /\ sup = "spawned"
    /\ whisper' = held /\ held' = None
    /\ stored' = IF daemon = "running" THEN stored \cup {held} ELSE stored
    /\ sup' = "probing" /\ probes' = 0
    /\ OutsideLoop /\ UNCHANGED <<state, proc>>

\* probe_ready connects to the port, whoever listens there.
ProbeConnects ==
    /\ Scheduled /\ ~Aborted /\ sup = "probing"
    /\ \E p \in Procs : proc[p] = "serving"
    /\ sup' = "ready"
    /\ OutsideLoop /\ UNCHANGED <<state, held, whisper, probes, stored, proc>>

\* Mutant of ProbeFails: one attempt more than the two minutes allow.
ProbeFailsOnceMore ==
    /\ Scheduled /\ ~Aborted /\ sup = "probing"
    /\ \A p \in Procs : proc[p] # "serving"
    /\ probes' = probes + 1
    /\ sup' = IF probes' > MaxProbes THEN "waiting" ELSE "probing"
    /\ OutsideLoop /\ UNCHANGED <<state, held, whisper, stored, proc>>

ProbeFails ==
    /\ Scheduled /\ ~Aborted /\ sup = "probing"
    /\ \A p \in Procs : proc[p] # "serving"
    /\ probes' = probes + 1
    /\ sup' = IF probes' = MaxProbes THEN "waiting" ELSE "probing"
    /\ OutsideLoop /\ UNCHANGED <<state, held, whisper, stored, proc>>

\* Mutant of AnnounceReady: only a loading daemon is announced ready.
AnnounceReadyFromLoading ==
    /\ Scheduled /\ sup = "ready"
    /\ state' = IF state.kind = "loading" THEN Shown("idle") ELSE state
    /\ sup' = "waiting"
    /\ OutsideLoop /\ UNCHANGED <<held, whisper, probes, stored, proc>>

AnnounceReady ==
    /\ Scheduled /\ sup = "ready"
    /\ state' = Shown("idle") /\ sup' = "waiting"
    /\ OutsideLoop /\ UNCHANGED <<held, whisper, probes, stored, proc>>

\* A round of wait_for_exit that finds something.
NoticeExit ==
    /\ Scheduled /\ ~Aborted /\ sup = "waiting"
    /\ whisper # None => ~Alive(whisper)
    /\ whisper' = None /\ sup' = "exited"
    /\ OutsideLoop /\ UNCHANGED <<state, held, probes, stored, proc>>

\* The lock after the wait, then the one of set_state.
AfterExit ==
    /\ Scheduled /\ sup = "exited" /\ ~ShuttingDown
    /\ sup' = "restart"
    /\ OutsideLoop /\ UNCHANGED <<state, held, whisper, probes, stored, proc>>

AnnounceLoading ==
    /\ Scheduled /\ sup = "restart"
    /\ state' = Shown("loading") /\ sup' = "backoff"
    /\ OutsideLoop /\ UNCHANGED <<held, whisper, probes, stored, proc>>

BackoffEnds ==
    /\ Scheduled /\ ~Aborted /\ sup = "backoff"
    /\ sup' = "loop"
    /\ OutsideLoop /\ UNCHANGED <<state, held, whisper, probes, stored, proc>>

\* The abort takes effect: the task is dropped, and with it the handle of a
\* child it has not stored, which does not kill the child.
Cancelled ==
    /\ Scheduled /\ Aborted /\ sup \notin {"ended", "cancelled"}
    /\ sup' = "cancelled" /\ held' = None
    /\ OutsideLoop /\ UNCHANGED <<state, whisper, probes, stored, proc>>

SupSteps ==
    \/ FindModel \/ BeginAttempt \/ AttemptEnds \/ RetryDelayEnds
    \/ Spawn \/ StopLooping \/ StoreChild
    \/ ProbeConnects \/ ProbeFails \/ AnnounceReady
    \/ NoticeExit \/ AfterExit \/ AnnounceLoading \/ BackoffEnds
    \/ Cancelled

------------------------------------------------------------------------------
(* main after its loop, the processes, and the commands of connections.    *)

OutsideMain == UNCHANGED <<life, state, probes, transfer, last, fileVars>>

\* SIGTERM or SIGINT: supervisor.abort().
Signal ==
    /\ daemon = "running"
    /\ daemon' = "aborting"
    /\ OutsideMain /\ UNCHANGED <<crashed, sup, held, whisper, stored, proc, chan, micVars>>

\* Mutant of Teardown: the recorder is stopped, whisper-server is not.
TeardownOfRecorder ==
    /\ daemon = "aborting"
    /\ daemon' = "torn"
    /\ recorder' = FALSE
    /\ whisper' = None
    /\ OutsideMain /\ UNCHANGED <<crashed, sup, held, stored, proc, chan, strayMic>>

\* teardown: one critical section.
Teardown ==
    /\ daemon = "aborting"
    /\ daemon' = "torn"
    /\ recorder' = FALSE
    /\ whisper' = None
    /\ proc' = IF whisper = None THEN proc ELSE [proc EXCEPT ![whisper] = "dead"]
    /\ OutsideMain /\ UNCHANGED <<crashed, sup, held, stored, chan, strayMic>>

\* What the tasks held is dropped; the processes behind it live on.
DropTasks ==
    /\ sup' = "cancelled" /\ held' = None /\ whisper' = None
    /\ chan' = <<>>
    /\ recorder' = FALSE /\ strayMic' = (strayMic \/ recorder)

\* Mutant of DropRuntime: the supervisor is joined although it was aborted.
DropRuntimeJoined ==
    /\ daemon = "torn" /\ sup = "ended"
    /\ daemon' = "draining"
    /\ DropTasks
    /\ OutsideMain /\ UNCHANGED <<crashed, stored, proc>>

\* main returns and the runtime is dropped: first its tasks ...
DropRuntime ==
    /\ daemon = "torn"
    /\ daemon' = "draining"
    /\ DropTasks
    /\ OutsideMain /\ UNCHANGED <<crashed, stored, proc>>

\* ... then it waits for its blocking threads.
Exit ==
    /\ daemon = "draining" /\ ~Transferring
    /\ daemon' = "exited"
    /\ OutsideMain
    /\ UNCHANGED <<crashed, sup, held, whisper, stored, proc, chan, micVars>>

\* The process is killed.  Run by hand its children live on; a service manager
\* that owns the process group kills them too.
Crash ==
    /\ daemon # "exited"
    /\ daemon' = "exited" /\ crashed' = TRUE
    /\ DropTasks
    /\ transfer' = NoTransfer
    /\ \/ UNCHANGED proc
       \/ proc' = [p \in Procs |-> IF Alive(p) THEN "dead" ELSE proc[p]]
    /\ UNCHANGED <<life, state, probes, last, fileVars, stored>>

Restart ==
    /\ daemon = "exited" /\ life < MaxLives
    /\ life' = life + 1
    /\ Boot
    /\ UNCHANGED <<proc, fileVars, strayMic>>

OutsideProcess == UNCHANGED <<daemonVars, state, supVars, whisper, stored,
                              downloadVars, fileVars, micVars>>

\* whisper-server has loaded its model and binds the port, which is exclusive.
Listens(p) ==
    /\ proc[p] = "loading"
    /\ model = "whole" /\ \A q \in Procs : proc[q] # "serving"
    /\ proc' = [proc EXCEPT ![p] = "serving"]
    /\ OutsideProcess

\* It may end at any time, and does when it cannot load the model or bind.
Dies(p) ==
    /\ Alive(p)
    /\ proc' = [proc EXCEPT ![p] = "dead"]
    /\ OutsideProcess

\* A connection's task runs a command that starts or ends a capture; nothing
\* stops it between teardown and the end of the runtime.
StartCapture ==
    /\ Scheduled /\ state.kind = "idle"
    /\ state' = Shown("recording")
    /\ strayMic' = (strayMic \/ recorder) /\ recorder' = TRUE
    /\ UNCHANGED <<daemonVars, supVars, whisper, stored, proc, downloadVars, fileVars>>

StopCapture ==
    /\ Scheduled /\ state.kind = "recording"
    /\ state' = Shown("idle")
    /\ recorder' = FALSE
    /\ UNCHANGED <<daemonVars, supVars, whisper, stored, proc, downloadVars,
                   fileVars, strayMic>>

MainSteps == Teardown \/ DropRuntime \/ Exit

Next ==
    \/ SupSteps \/ Transfer \/ ApplyPercent \/ MainSteps
    \/ Signal \/ Crash \/ Restart
    \/ \E p \in Procs : Listens(p) \/ Dies(p)
    \/ StartCapture \/ StopCapture

\* Tasks of the runtime are scheduled; the network, the processes and the user
\* owe nothing.
Spec == Init /\ [][Next]_vars /\ WF_vars(SupSteps) /\ WF_vars(ApplyPercent)
             /\ WF_vars(MainSteps)

-----------------------------------------------------------------------------
(* Properties *)

\* README.md on the first run: a pinned model is verified before it gets its
\* name, and no whisper-server is ever started without a model; also when the
\* daemon was killed in the middle of an earlier download.
ModelBeforeServer ==
    /\ pinned => model # "bad"
    /\ \A p \in Procs : Alive(p) => model # "absent"

\* A whisper-server of the daemon's own is the one it can kill while it runs:
\* restarts, failed probes and failed spawns leave none behind.  And the teardown
\* has killed all that were stored when the signal came, whatever the aborted
\* supervisor still did next to it.
ServersReaped ==
    \A p \in stored : Alive(p) =>
        /\ daemon = "running" => p = whisper /\ held = None
        /\ daemon \in {"draining", "exited"} => crashed

\* A running supervisor always comes back to its loop, unless it waits for the
\* network or for a child that lives.
SupervisionGoesOn ==
    []<>(\/ daemon # "running" \/ sup = "loop" \/ Transferring
         \/ sup = "waiting" /\ whisper # None /\ Alive(whisper))

Serves == whisper # None /\ proc[whisper] = "serving"
GaveUp == sup = "waiting" /\ probes = MaxProbes

\* A whisper-server that serves is announced, except after the probe gave up:
\* then the daemon keeps saying loading for as long as that server lives.
ServingIsAnnounced ==
    (daemon = "running" /\ Serves /\ state.kind \in {"loading", "downloading"})
        ~> (daemon # "running" \/ ~Serves \/ GaveUp
            \/ state.kind \notin {"loading", "downloading"})

\* A signal ends the daemon, except while a transfer waits for the network: the
\* runtime waits for its blocking thread.
SignalEnds == daemon = "aborting" ~> (daemon = "exited" \/ Transferring)
==============================================================================
