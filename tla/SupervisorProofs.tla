---------------------------- MODULE SupervisorProofs ----------------------------
(***************************************************************************)
(* Proofs about Supervisor, for any number of lives, processes, probes and *)
(* chunks.                                                                 *)
(*                                                                         *)
(* ModelBeforeServer needs to know what the temporary file is when it is   *)
(* moved, and that the supervisor is in its loop only once there is a      *)
(* model (Files).  ServersReaped needs to know where the supervisor is     *)
(* while a stored server lives: a spawned child is held only between two   *)
(* statements, and no stored server lives there (Stored).                  *)
(***************************************************************************)
EXTENDS Supervisor, TLAPS

\* A probe that has made all its attempts is over.
ProbesLeft == sup = "probing" => probes < MaxProbes

\* The places of supervise after ensure_model_present.
Looping == {"loop", "spawned", "probing", "ready", "waiting", "exited", "restart",
            "backoff"}

Files ==
  /\ transfer.pc = "verify" => part \in {"whole", "bad"}
  /\ transfer.pc = "install" => /\ part \in {"whole", "bad"}
                                /\ pinned => part = "whole"
  /\ transfer.pc = "ok" => model # "absent"
  /\ sup \in Looping => model # "absent"

Stored ==
  /\ held # None => sup = "spawned"
  /\ daemon \in {"running", "aborting"} =>
       \A p \in stored : Alive(p) =>
         p = whisper /\ sup \in {"probing", "ready", "waiting", "cancelled"}
  /\ daemon \in {"torn", "draining"} \/ (daemon = "exited" /\ ~crashed) =>
       \A p \in stored : ~Alive(p)

-----------------------------------------------------------------------------
(* Types, a kind at a time *)

FlagTypes ==
  /\ crashed \in BOOLEAN /\ pinned \in BOOLEAN
  /\ recorder \in BOOLEAN /\ strayMic \in BOOLEAN

MainTypes ==
  /\ daemon \in {"running", "aborting", "torn", "draining", "exited"}
  /\ life \in 1..MaxLives

StateType == state \in [kind : Kinds, pct : {Unknown} \cup 0..Percents]

ProbeTypes == probes \in 0..MaxProbes /\ ProbesLeft

SupTypes ==
  /\ sup \in SupPcs
  /\ held \in Procs \cup {None} /\ whisper \in Procs \cup {None}
  /\ stored \subseteq Procs
  /\ sup = "spawned" => held # None

ProcTypes == proc \in [Procs -> {"none", "loading", "serving", "dead"}]

TransferType ==
  transfer \in [pc : {"none", "request", "stream", "verify", "install", "ok", "err"},
                received : 0..Size, known : BOOLEAN, intact : BOOLEAN]

ChanTypes == chan \in Seq(0..Percents) /\ last \in {Unknown} \cup 0..Percents

FileTypes ==
  /\ model \in {"absent", "whole", "bad"}
  /\ part \in {"absent", "partial", "whole", "bad"}

Types ==
  /\ FlagTypes /\ MainTypes /\ StateType /\ ProbeTypes /\ SupTypes
  /\ ProcTypes /\ TransferType /\ ChanTypes /\ FileTypes

SInv == Types /\ Files /\ ModelBeforeServer /\ Stored

\* Together they are more than the type invariant.
LEMMA TypesMeanTypeOK == Types => TypeOK
BY DEF Types, FlagTypes, MainTypes, StateType, ProbeTypes, SupTypes, ProcTypes,
       TransferType, ChanTypes, FileTypes, TypeOK

\* Progress::percent is a percentage.
LEMMA PercentType ==
  ASSUME NEW t, t.received \in 0..Size
  PROVE  Percent(t) \in {Unknown} \cup 0..Percents
<1> DEFINE part100 == t.received * Percents
           quotient == part100 \div Size
<1>1. Size \in Nat \ {0} /\ Percents \in Nat \ {0}
  BY SupervisorAssumption
<1>2. t.received \in 0..Size
  OBVIOUS
<1>3. part100 \in Nat /\ part100 <= Size * Percents
  BY <1>1, <1>2, SMT
<1> HIDE DEF part100
<1>4. quotient \in Nat /\ Size * quotient <= part100
  BY <1>1, <1>3, SMT
<1> HIDE DEF quotient
<1>5. quotient <= Percents
  <2>1. SUFFICES ASSUME quotient >= Percents + 1 PROVE FALSE
    BY <1>1, <1>4
  <2>2. Size * quotient >= Size * (Percents + 1)
    BY <1>1, <1>4, <2>1, SMT
  <2>3. Size * (Percents + 1) = Size * Percents + Size
    BY <1>1, SMT
  <2>4. Size * Percents \in Nat /\ Size * quotient \in Nat
    BY <1>1, <1>4, SMT
  <2> QED BY <1>1, <1>3, <1>4, <2>2, <2>3, <2>4
<1>6. Percent(t) = Unknown \/ Percent(t) = quotient
  BY DEF Percent, quotient, part100
<1>7. quotient \in 0..Percents
  BY <1>1, <1>4, <1>5
<1> QED BY <1>6, <1>7

\* Queues of the channel's kind.
LEMMA QueueProperties ==
  ASSUME NEW S, NEW s \in Seq(S)
  PROVE  /\ <<>> \in Seq(S)
         /\ s # <<>> => Head(s) \in S /\ Tail(s) \in Seq(S)
         /\ \A x \in S : Append(s, x) \in Seq(S)
OBVIOUS

\* The state main.rs builds at startup is well typed.
LEMMA InitTypes == Init => Types
<1> SUFFICES ASSUME Init PROVE Types
  OBVIOUS
<1> USE SupervisorAssumption DEF Init
<1>1. FlagTypes
  BY DEF FlagTypes
<1>2. MainTypes /\ ProbeTypes
  BY DEF MainTypes, ProbeTypes, ProbesLeft
<1>3. StateType
  BY DEF StateType, Shown, Kinds
<1>4. SupTypes /\ ProcTypes
  BY DEF SupTypes, SupPcs, ProcTypes, None
<1>5. TransferType
  BY DEF TransferType, NoTransfer
<1>6. ChanTypes /\ FileTypes
  BY DEF ChanTypes, FileTypes
<1> QED BY <1>1, <1>2, <1>3, <1>4, <1>5, <1>6 DEF Types

\* The flags: history, configuration, the sox children.
LEMMA NextFlags == FlagTypes /\ Next => FlagTypes'
<1> SUFFICES ASSUME FlagTypes, Next PROVE FlagTypes'
  OBVIOUS
<1> USE DEF FlagTypes, daemonVars, fileVars, micVars
<1>1. CASE SupSteps \/ ApplyPercent
  BY <1>1 DEF SupSteps, FindModel, BeginAttempt, AttemptEnds, RetryDelayEnds, Spawn,
    StopLooping, StoreChild, ProbeConnects, ProbeFails, AnnounceReady, NoticeExit,
    AfterExit, AnnounceLoading, BackoffEnds, Cancelled, ApplyPercent, OutsideLoop
<1>2. CASE Transfer
  BY <1>2 DEF Transfer, RequestFails, Request, Receive, TransferFails, BodyEnds,
    Verify, Install, OutsideTransfer
<1>3. CASE MainSteps \/ Signal
  BY <1>3 DEF MainSteps, Teardown, DropRuntime, Exit, Signal, DropTasks, OutsideMain
<1>4. CASE Crash \/ Restart
  BY <1>4 DEF Crash, Restart, Boot, DropTasks
<1>5. CASE \E p \in Procs : Listens(p) \/ Dies(p)
  BY <1>5 DEF Listens, Dies, OutsideProcess
<1>6. CASE StartCapture \/ StopCapture
  BY <1>6 DEF StartCapture, StopCapture
<1> QED BY <1>1, <1>2, <1>3, <1>4, <1>5, <1>6 DEF Next

\* main and the number of its lives.
LEMMA NextMain == MainTypes /\ Next => MainTypes'
<1> SUFFICES ASSUME MainTypes, Next PROVE MainTypes'
  OBVIOUS
<1> USE SupervisorAssumption DEF MainTypes, daemonVars
<1>1. CASE SupSteps \/ ApplyPercent
  BY <1>1 DEF SupSteps, FindModel, BeginAttempt, AttemptEnds, RetryDelayEnds, Spawn,
    StopLooping, StoreChild, ProbeConnects, ProbeFails, AnnounceReady, NoticeExit,
    AfterExit, AnnounceLoading, BackoffEnds, Cancelled, ApplyPercent, OutsideLoop
<1>2. CASE Transfer
  BY <1>2 DEF Transfer, RequestFails, Request, Receive, TransferFails, BodyEnds,
    Verify, Install, OutsideTransfer
<1>3. CASE MainSteps \/ Signal
  BY <1>3 DEF MainSteps, Teardown, DropRuntime, Exit, Signal, OutsideMain
<1>4. CASE Crash \/ Restart
  BY <1>4 DEF Crash, Restart, Boot
<1>5. CASE \E p \in Procs : Listens(p) \/ Dies(p)
  BY <1>5 DEF Listens, Dies, OutsideProcess
<1>6. CASE StartCapture \/ StopCapture
  BY <1>6 DEF StartCapture, StopCapture
<1> QED BY <1>1, <1>2, <1>3, <1>4, <1>5, <1>6 DEF Next

\* The observable state.
LEMMA NextState == StateType /\ ChanTypes /\ Next => StateType'
<1> SUFFICES ASSUME StateType, ChanTypes, Next PROVE StateType'
  OBVIOUS
<1> USE DEF StateType
<1>1. CASE ApplyPercent
  <2>1. Head(chan) \in 0..Percents
    BY <1>1, QueueProperties DEF ApplyPercent, ChanTypes
  <2> QED BY <1>1, <2>1 DEF ApplyPercent, Kinds
<1>2. state' = state \/ (\E kind \in Kinds : state' = Shown(kind)) \/ ApplyPercent
  <2> USE DEF Kinds
  <2>1. CASE SupSteps
    BY <2>1 DEF SupSteps, FindModel, BeginAttempt, AttemptEnds, RetryDelayEnds,
      Spawn, StopLooping, StoreChild, ProbeConnects, ProbeFails, AnnounceReady,
      NoticeExit, AfterExit, AnnounceLoading, BackoffEnds, Cancelled
  <2>2. CASE Transfer
    BY <2>2 DEF Transfer, RequestFails, Request, Receive, TransferFails, BodyEnds,
      Verify, Install, OutsideTransfer
  <2>3. CASE MainSteps \/ Signal
    BY <2>3 DEF MainSteps, Teardown, DropRuntime, Exit, Signal, OutsideMain
  <2>4. CASE Crash \/ Restart
    BY <2>4 DEF Crash, Restart, Boot
  <2>5. CASE \E p \in Procs : Listens(p) \/ Dies(p)
    BY <2>5 DEF Listens, Dies, OutsideProcess
  <2>6. CASE StartCapture \/ StopCapture
    BY <2>6 DEF StartCapture, StopCapture
  <2> QED BY <2>1, <2>2, <2>3, <2>4, <2>5, <2>6 DEF Next
<1>3. \A kind \in Kinds : Shown(kind) \in [kind : Kinds, pct : {Unknown} \cup 0..Percents]
  BY DEF Shown
<1> QED BY <1>1, <1>2, <1>3

\* The probe makes no more attempts than it may.
LEMMA NextProbes == ProbeTypes /\ Next => ProbeTypes'
<1> SUFFICES ASSUME ProbeTypes, Next PROVE ProbeTypes'
  OBVIOUS
<1> USE SupervisorAssumption DEF ProbeTypes, ProbesLeft, supVars
<1>1. CASE FindModel \/ BeginAttempt \/ AttemptEnds \/ RetryDelayEnds \/ Spawn
  BY <1>1 DEF FindModel, BeginAttempt, AttemptEnds, RetryDelayEnds, Spawn
<1>2. CASE StopLooping \/ StoreChild \/ ProbeConnects \/ ProbeFails
  BY <1>2 DEF StopLooping, StoreChild, ProbeConnects, ProbeFails
<1>3. CASE \/ AnnounceReady \/ NoticeExit \/ AfterExit \/ AnnounceLoading
           \/ BackoffEnds \/ Cancelled \/ ApplyPercent
  BY <1>3 DEF AnnounceReady, NoticeExit, AfterExit, AnnounceLoading, BackoffEnds,
    Cancelled, ApplyPercent
<1>4. CASE Transfer
  BY <1>4 DEF Transfer, RequestFails, Request, Receive, TransferFails, BodyEnds,
    Verify, Install, OutsideTransfer
<1>5. CASE MainSteps \/ Signal
  BY <1>5 DEF MainSteps, Teardown, DropRuntime, Exit, Signal, DropTasks, OutsideMain
<1>6. CASE Crash \/ Restart
  BY <1>6 DEF Crash, Restart, Boot, DropTasks
<1>7. CASE \E p \in Procs : Listens(p) \/ Dies(p)
  BY <1>7 DEF Listens, Dies, OutsideProcess
<1>8. CASE StartCapture \/ StopCapture
  BY <1>8 DEF StartCapture, StopCapture
<1> QED BY <1>1, <1>2, <1>3, <1>4, <1>5, <1>6, <1>7, <1>8 DEF Next, SupSteps

\* The supervisor and the children it knows.
LEMMA NextSup == SupTypes /\ Next => SupTypes'
<1> SUFFICES ASSUME SupTypes, Next PROVE SupTypes'
  OBVIOUS
<1> USE SupervisorAssumption DEF SupTypes, supVars, SupPcs, None
<1>1. CASE FindModel \/ BeginAttempt \/ AttemptEnds \/ RetryDelayEnds
  BY <1>1 DEF FindModel, BeginAttempt, AttemptEnds, RetryDelayEnds
<1>2. CASE Spawn \/ StopLooping
  BY <1>2 DEF StopLooping, Spawn
<1>3. CASE StoreChild \/ ProbeConnects \/ ProbeFails
  BY <1>3 DEF StoreChild, ProbeConnects, ProbeFails
<1>4. CASE \/ AnnounceReady \/ NoticeExit \/ AfterExit \/ AnnounceLoading
           \/ BackoffEnds \/ Cancelled \/ ApplyPercent
  BY <1>4 DEF AnnounceReady, NoticeExit, AfterExit, AnnounceLoading, BackoffEnds,
    Cancelled, ApplyPercent
<1>5. CASE Transfer
  BY <1>5 DEF Transfer, RequestFails, Request, Receive, TransferFails, BodyEnds,
    Verify, Install, OutsideTransfer
<1>6. CASE MainSteps \/ Signal
  BY <1>6 DEF MainSteps, Teardown, DropRuntime, Exit, Signal, DropTasks, OutsideMain
<1>7. CASE Crash \/ Restart
  BY <1>7 DEF Crash, Restart, Boot, DropTasks
<1>8. CASE \E p \in Procs : Listens(p) \/ Dies(p)
  BY <1>8 DEF Listens, Dies, OutsideProcess
<1>9. CASE StartCapture \/ StopCapture
  BY <1>9 DEF StartCapture, StopCapture
<1> QED
  BY <1>1, <1>2, <1>3, <1>4, <1>5, <1>6, <1>7, <1>8, <1>9 DEF Next, SupSteps

\* The processes.
LEMMA NextProcs == ProcTypes /\ Next => ProcTypes'
<1> SUFFICES ASSUME ProcTypes, Next PROVE ProcTypes'
  OBVIOUS
<1> USE DEF ProcTypes
<1>1. CASE SupSteps \/ ApplyPercent
  BY <1>1 DEF SupSteps, FindModel, BeginAttempt, AttemptEnds, RetryDelayEnds, Spawn,
    StopLooping, StoreChild, ProbeConnects, ProbeFails, AnnounceReady, NoticeExit,
    AfterExit, AnnounceLoading, BackoffEnds, Cancelled, ApplyPercent
<1>2. CASE Transfer
  BY <1>2 DEF Transfer, RequestFails, Request, Receive, TransferFails, BodyEnds,
    Verify, Install, OutsideTransfer
<1>3. CASE MainSteps \/ Signal
  BY <1>3 DEF MainSteps, Teardown, DropRuntime, Exit, Signal, DropTasks, OutsideMain
<1>4. CASE Crash \/ Restart
  BY <1>4 DEF Crash, Restart, Boot, DropTasks
<1>5. CASE \E p \in Procs : Listens(p) \/ Dies(p)
  BY <1>5 DEF Listens, Dies
<1>6. CASE StartCapture \/ StopCapture
  BY <1>6 DEF StartCapture, StopCapture
<1> QED BY <1>1, <1>2, <1>3, <1>4, <1>5, <1>6 DEF Next

\* The transfer: it counts no more than the body has.
LEMMA NextTransfer == TransferType /\ Next => TransferType'
<1> SUFFICES ASSUME TransferType, Next PROVE TransferType'
  OBVIOUS
<1> USE SupervisorAssumption DEF TransferType, downloadVars
<1>0. NoTransfer \in [pc : {"none"}, received : {0}, known : {FALSE}, intact : {FALSE}]
      /\ 0 \in 0..Size
  BY DEF NoTransfer
<1>1. CASE BeginAttempt \/ AttemptEnds
  <2>1. \/ transfer' = transfer
        \/ transfer' = NoTransfer
        \/ transfer' = [NoTransfer EXCEPT !.pc = "request"]
    BY <1>1 DEF BeginAttempt, AttemptEnds
  <2> QED BY <1>0, <2>1
<1>2. CASE \/ FindModel \/ RetryDelayEnds \/ Spawn \/ StopLooping \/ StoreChild
           \/ ProbeConnects \/ ProbeFails \/ AnnounceReady \/ NoticeExit \/ AfterExit
           \/ AnnounceLoading \/ BackoffEnds \/ Cancelled \/ ApplyPercent
  BY <1>2 DEF FindModel, RetryDelayEnds, Spawn, StopLooping, StoreChild,
    ProbeConnects, ProbeFails, AnnounceReady, NoticeExit, AfterExit, AnnounceLoading,
    BackoffEnds, Cancelled, ApplyPercent, OutsideLoop
<1>3. CASE RequestFails \/ TransferFails \/ BodyEnds \/ Verify \/ Install
  BY <1>3 DEF RequestFails, TransferFails, BodyEnds, Verify, Install
<1>4. CASE \E known, intact \in BOOLEAN : Request(known, intact)
  <2>1. PICK known \in BOOLEAN, intact \in BOOLEAN : Request(known, intact)
    BY <1>4
  <2> QED BY <2>1 DEF Request
<1>5. CASE Receive
  <2>1. /\ transfer' = [transfer EXCEPT !.received = @ + 1]
        /\ transfer.received < Size
    BY <1>5 DEF Receive
  <2>2. transfer.received + 1 \in 0..Size
    BY <2>1
  <2> QED BY <2>1, <2>2
<1>6. CASE MainSteps \/ Signal
  BY <1>6 DEF MainSteps, Teardown, DropRuntime, Exit, Signal, OutsideMain
<1>7. CASE Crash \/ Restart
  <2>1. transfer' = NoTransfer
    BY <1>7 DEF Crash, Restart, Boot
  <2> QED BY <1>0, <2>1
<1>8. CASE \E p \in Procs : Listens(p) \/ Dies(p)
  BY <1>8 DEF Listens, Dies, OutsideProcess
<1>9. CASE StartCapture \/ StopCapture
  BY <1>9 DEF StartCapture, StopCapture
<1> QED
  BY <1>1, <1>2, <1>3, <1>4, <1>5, <1>6, <1>7, <1>8, <1>9
     DEF Next, SupSteps, Transfer

\* The percents on their way.
LEMMA NextChan == TransferType /\ ChanTypes /\ Next => ChanTypes'
<1> SUFFICES ASSUME TransferType, ChanTypes, Next PROVE ChanTypes'
  OBVIOUS
<1> USE DEF ChanTypes, downloadVars
<1>1. CASE SupSteps
  BY <1>1 DEF SupSteps, FindModel, BeginAttempt, AttemptEnds, RetryDelayEnds, Spawn,
    StopLooping, StoreChild, ProbeConnects, ProbeFails, AnnounceReady, NoticeExit,
    AfterExit, AnnounceLoading, BackoffEnds, Cancelled, OutsideLoop
<1>2. CASE ApplyPercent
  BY <1>2, QueueProperties DEF ApplyPercent
<1>3. CASE Receive
  <2>1. PICK t : /\ t = [transfer EXCEPT !.received = @ + 1]
                 /\ last' \in {last, Percent(t)}
                 /\ \/ chan' = chan
                    \/ chan' = Append(chan, Percent(t)) /\ Percent(t) # Unknown
    BY <1>3 DEF Receive
  <2>2. t.received \in 0..Size
    BY <1>3, <2>1, SupervisorAssumption DEF Receive, TransferType
  <2>3. Percent(t) \in {Unknown} \cup 0..Percents
    BY <2>2, PercentType
  <2> QED BY <2>1, <2>3, QueueProperties
<1>4. CASE Transfer /\ ~Receive
  BY <1>4 DEF Transfer, RequestFails, Request, TransferFails, BodyEnds, Verify, Install
<1>5. CASE MainSteps \/ Signal
  BY <1>5, QueueProperties DEF MainSteps, Teardown, DropRuntime, Exit, Signal,
    DropTasks, OutsideMain
<1>6. CASE Crash \/ Restart
  BY <1>6, QueueProperties DEF Crash, Restart, Boot, DropTasks
<1>7. CASE \E p \in Procs : Listens(p) \/ Dies(p)
  BY <1>7 DEF Listens, Dies, OutsideProcess
<1>8. CASE StartCapture \/ StopCapture
  BY <1>8 DEF StartCapture, StopCapture
<1> QED BY <1>1, <1>2, <1>3, <1>4, <1>5, <1>6, <1>7, <1>8 DEF Next

\* Only the transfer touches the files.
LEMMA FilesFrame == Next /\ ~Transfer => UNCHANGED fileVars
<1> SUFFICES ASSUME Next, ~Transfer PROVE UNCHANGED fileVars
  OBVIOUS
<1> USE DEF fileVars
<1>1. CASE SupSteps \/ ApplyPercent
  BY <1>1 DEF SupSteps, FindModel, BeginAttempt, AttemptEnds, RetryDelayEnds, Spawn,
    StopLooping, StoreChild, ProbeConnects, ProbeFails, AnnounceReady, NoticeExit,
    AfterExit, AnnounceLoading, BackoffEnds, Cancelled, ApplyPercent, OutsideLoop
<1>2. CASE MainSteps \/ Signal \/ Crash \/ Restart
  BY <1>2 DEF MainSteps, Teardown, DropRuntime, Exit, Signal, Crash, Restart,
    OutsideMain
<1>3. CASE \/ \E p \in Procs : Listens(p) \/ Dies(p)
           \/ StartCapture \/ StopCapture
  BY <1>3 DEF Listens, Dies, OutsideProcess, StartCapture, StopCapture
<1> QED BY <1>1, <1>2, <1>3 DEF Next

\* The model and its temporary file; one that is installed is there.
LEMMA NextFiles == FileTypes /\ Files /\ Next => FileTypes'
<1> SUFFICES ASSUME FileTypes, Files, Next PROVE FileTypes'
  OBVIOUS
<1> USE DEF FileTypes
<1>1. CASE Transfer
  BY <1>1 DEF Transfer, RequestFails, Request, Receive, TransferFails, BodyEnds,
    Verify, Install, Files
<1>2. CASE ~Transfer
  BY <1>2, FilesFrame DEF fileVars
<1> QED BY <1>1, <1>2

-----------------------------------------------------------------------------
(* The model file *)

\* What the supervisor knows of the model when it goes on.
LEMMA NextModel ==
  ASSUME FileTypes, TransferType, Files, Next
  PROVE  Files'
<1> USE DEF Files, FileTypes, Looping
<1>1. CASE Transfer
  <2> USE DEF TransferType, OutsideTransfer, supVars
  <2>1. CASE RequestFails \/ Receive \/ TransferFails
    BY <2>1 DEF RequestFails, Receive, TransferFails
  <2>2. CASE \E known, intact \in BOOLEAN : Request(known, intact)
    BY <2>2 DEF Request
  <2>3. CASE BodyEnds \/ Verify \/ Install
    BY <2>3 DEF BodyEnds, Verify, Install
  <2> QED BY <1>1, <2>1, <2>2, <2>3 DEF Transfer
<1>2. CASE ~Transfer
  <2>1. UNCHANGED fileVars
    BY <1>2, FilesFrame
  <2> USE <2>1 DEF fileVars
  <2>2. CASE FindModel \/ BeginAttempt \/ AttemptEnds
    BY <2>2 DEF FindModel, BeginAttempt, AttemptEnds, NoTransfer, downloadVars
  <2>3. CASE \/ RetryDelayEnds \/ Spawn \/ StopLooping \/ StoreChild
             \/ ProbeConnects \/ ProbeFails
    BY <2>3 DEF RetryDelayEnds, Spawn, StopLooping, StoreChild, ProbeConnects,
      ProbeFails, OutsideLoop, downloadVars
  <2>4. CASE \/ AnnounceReady \/ NoticeExit \/ AfterExit \/ AnnounceLoading
             \/ BackoffEnds \/ Cancelled \/ ApplyPercent
    BY <2>4 DEF AnnounceReady, NoticeExit, AfterExit, AnnounceLoading, BackoffEnds,
      Cancelled, ApplyPercent, OutsideLoop, downloadVars, supVars
  <2>5. CASE MainSteps \/ Signal
    BY <2>5 DEF MainSteps, Teardown, DropRuntime, Exit, Signal, DropTasks, OutsideMain
  <2>6. CASE Crash \/ Restart
    BY <2>6 DEF Crash, Restart, Boot, DropTasks, NoTransfer
  <2>7. CASE \/ \E p \in Procs : Listens(p) \/ Dies(p)
             \/ StartCapture \/ StopCapture
    BY <2>7 DEF Listens, Dies, OutsideProcess, StartCapture, StopCapture,
      downloadVars, supVars
  <2> QED BY <1>2, <2>2, <2>3, <2>4, <2>5, <2>6, <2>7 DEF Next, SupSteps
<1> QED BY <1>1, <1>2

\* Where a process may come to life: in Spawn.
LEMMA LifeBegins ==
  ASSUME ProcTypes, Next, ~Spawn, NEW p \in Procs, Alive(p)'
  PROVE  Alive(p)
<1> USE DEF ProcTypes, Alive
<1>1. CASE SupSteps \/ ApplyPercent
  BY <1>1 DEF SupSteps, FindModel, BeginAttempt, AttemptEnds, RetryDelayEnds,
    StopLooping, StoreChild, ProbeConnects, ProbeFails, AnnounceReady, NoticeExit,
    AfterExit, AnnounceLoading, BackoffEnds, Cancelled, ApplyPercent
<1>2. CASE Transfer
  BY <1>2 DEF Transfer, RequestFails, Request, Receive, TransferFails, BodyEnds,
    Verify, Install, OutsideTransfer
<1>3. CASE MainSteps \/ Signal
  BY <1>3 DEF MainSteps, Teardown, DropRuntime, Exit, Signal, OutsideMain
<1>4. CASE Crash \/ Restart
  BY <1>4 DEF Crash, Restart
<1>5. CASE \E q \in Procs : Listens(q) \/ Dies(q)
  BY <1>5 DEF Listens, Dies
<1>6. CASE StartCapture \/ StopCapture
  BY <1>6 DEF StartCapture, StopCapture
<1> QED BY <1>1, <1>2, <1>3, <1>4, <1>5, <1>6 DEF Next

\* No unverified model gets its name and no server starts without one.
LEMMA NextModelBeforeServer ==
  ASSUME FileTypes, ProcTypes, Files, ModelBeforeServer, Next
  PROVE  ModelBeforeServer'
<1> USE DEF ModelBeforeServer
<1>1. CASE Spawn
  <2>1. model # "absent" /\ UNCHANGED fileVars
    BY <1>1 DEF Spawn, Files, Looping, OutsideLoop
  <2> QED BY <2>1 DEF fileVars
<1>2. CASE ~Spawn
  <2>1. \A p \in Procs : Alive(p)' => Alive(p)
    BY <1>2, LifeBegins
  <2>2. CASE ~Transfer
    BY <2>1, <2>2, FilesFrame DEF fileVars
  <2>3. CASE Install
    BY <2>3 DEF Install, Files, OutsideTransfer
  <2>4. CASE Transfer /\ ~Install
    BY <2>1, <2>4 DEF Transfer, RequestFails, Request, Receive, TransferFails,
      BodyEnds, Verify, OutsideTransfer
  <2> QED BY <2>2, <2>3, <2>4
<1> QED BY <1>1, <1>2

-----------------------------------------------------------------------------
(* The servers *)

\* Where stored servers are when the supervisor moves on.
LEMMA SupStored ==
  ASSUME SupTypes, ProcTypes, Stored, SupSteps
  PROVE  Stored'
<1> USE SupervisorAssumption
    DEF Stored, SupTypes, SupPcs, Alive, None, OutsideLoop, daemonVars, supVars
<1>1. CASE FindModel \/ BeginAttempt \/ AttemptEnds \/ RetryDelayEnds
  BY <1>1 DEF FindModel, BeginAttempt, AttemptEnds, RetryDelayEnds
<1>2. CASE Spawn
  <2>1. CASE sup' = "exited" /\ UNCHANGED <<held, proc, stored>>
    BY <1>2, <2>1 DEF Spawn
  <2>2. CASE \E p \in {q \in Procs : ~Alive(q)} :
               /\ held' = p /\ sup' = "spawned"
               /\ proc' = [proc EXCEPT ![p] = "loading"]
               /\ stored' = stored \ {p}
    <3>1. PICK p \in Procs : /\ held' = p /\ sup' = "spawned"
                            /\ proc' = [proc EXCEPT ![p] = "loading"]
                            /\ stored' = stored \ {p}
      BY <2>2
    <3>2. \A q \in stored' : q \in stored /\ proc'[q] = proc[q]
      BY <3>1 DEF ProcTypes
    <3>3. sup = "loop" /\ UNCHANGED daemonVars
      BY <1>2 DEF Spawn
    <3> QED BY <3>1, <3>2, <3>3
  <2> QED BY <1>2, <2>1, <2>2 DEF Spawn
<1>3. CASE StoreChild
  BY <1>3 DEF StoreChild
<1>4. CASE StopLooping
  BY <1>4 DEF StopLooping, ShuttingDown
<1>5. CASE ProbeConnects \/ ProbeFails \/ AnnounceReady
  BY <1>5 DEF ProbeConnects, ProbeFails, AnnounceReady
<1>6. CASE NoticeExit
  BY <1>6 DEF NoticeExit
<1>7. CASE AfterExit \/ AnnounceLoading \/ BackoffEnds
  BY <1>7 DEF AfterExit, AnnounceLoading, BackoffEnds
<1>8. CASE Cancelled
  BY <1>8 DEF Cancelled
<1> QED BY <1>1, <1>2, <1>3, <1>4, <1>5, <1>6, <1>7, <1>8 DEF SupSteps

\* And when anything else happens.
LEMMA NextStored ==
  ASSUME SupTypes, ProcTypes, Stored, Next
  PROVE  Stored'
<1>1. CASE SupSteps
  BY <1>1, SupStored
<1>2. CASE ~SupSteps
  <2>1. \A p \in Procs : Alive(p)' => Alive(p)
    BY <1>2, LifeBegins DEF SupSteps
  <2> USE <2>1 DEF Stored, SupTypes, None
  <2>2. CASE Transfer
    BY <2>2 DEF Transfer, RequestFails, Request, Receive, TransferFails, BodyEnds,
      Verify, Install, OutsideTransfer, daemonVars, supVars, Alive
  <2>3. CASE Teardown
    <3>1. \A p \in stored : ~Alive(p)'
      BY <2>3, SupervisorAssumption DEF Teardown, Alive, ProcTypes
    <3> QED BY <2>3, <3>1 DEF Teardown, OutsideMain
  <2>4. CASE DropRuntime \/ Exit \/ Signal
    BY <2>4 DEF DropRuntime, DropTasks, Exit, Signal, OutsideMain
  <2>5. CASE Crash
    BY <2>5 DEF Crash, DropTasks
  <2>6. CASE Restart
    BY <2>6 DEF Restart, Boot
  <2>7. CASE \E p \in Procs : Listens(p) \/ Dies(p)
    BY <2>7 DEF Listens, Dies, OutsideProcess, daemonVars, supVars
  <2>8. CASE StartCapture \/ StopCapture \/ ApplyPercent
    BY <2>8 DEF StartCapture, StopCapture, ApplyPercent, daemonVars, supVars
  <2> QED BY <1>2, <2>2, <2>3, <2>4, <2>5, <2>6, <2>7, <2>8 DEF Next, MainSteps
<1> QED BY <1>1, <1>2

-----------------------------------------------------------------------------
(* The invariant *)

\* The invariant holds at first.
LEMMA InitSInv == Init => SInv
<1> SUFFICES ASSUME Init PROVE SInv
  OBVIOUS
<1>1. Files /\ ModelBeforeServer /\ Stored
  BY DEF Init, Files, Looping, NoTransfer, ModelBeforeServer, Stored, Alive, None
<1> QED BY <1>1, InitTypes DEF SInv

\* Every step keeps the invariant.
LEMMA NextSInv == SInv /\ [Next]_vars => SInv'
<1>1. CASE SInv /\ Next
  <2> USE <1>1 DEF SInv, Types
  <2>1. FlagTypes' /\ MainTypes' /\ StateType' /\ ProbeTypes' /\ SupTypes'
    BY NextFlags, NextMain, NextState, NextProbes, NextSup
  <2>2. ProcTypes' /\ TransferType' /\ ChanTypes' /\ FileTypes'
    BY NextProcs, NextTransfer, NextChan, NextFiles
  <2>3. Files' /\ ModelBeforeServer' /\ Stored'
    BY NextModel, NextModelBeforeServer, NextStored
  <2> QED BY <2>1, <2>2, <2>3
<1>2. CASE SInv /\ UNCHANGED vars
  BY <1>2 DEF SInv, Types, FlagTypes, MainTypes, StateType, ProbeTypes, ProbesLeft,
    SupTypes, ProcTypes, TransferType, ChanTypes, FileTypes, Files,
    ModelBeforeServer, Stored, Alive, vars, daemonVars, supVars, fileVars,
    downloadVars, micVars
<1> QED BY <1>1, <1>2

\* The invariant holds throughout: what maintain_engine, the watch of the child and
\* the requests believe of the server is what it is.
THEOREM SupervisionIsSound == Spec => []SInv
BY InitSInv, NextSInv, PTL DEF Spec

-----------------------------------------------------------------------------
(* The properties *)

\* The model file, its download, the processes and every handle have their types,
\* whatever fails, in every life of the daemon.
THEOREM SupervisorTypeCorrect == Spec => []TypeOK
<1>1. SInv => TypeOK
  BY TypesMeanTypeOK DEF SInv
<1> QED BY <1>1, SupervisionIsSound, PTL

\* A pinned model is verified before it gets its name and no server starts without
\* a model, however downloads fail and daemons are killed (download_model,
\* ensure_model_present).
THEOREM NoServerWithoutModel == Spec => []ModelBeforeServer
<1>1. SInv => ModelBeforeServer
  BY DEF SInv
<1> QED BY <1>1, SupervisionIsSound, PTL

\* A stored server that lives is the one the running daemon can kill, and none that
\* was stored before the signal survives the teardown, although the aborted
\* supervisor may run beside it (supervise, teardown).
THEOREM StoredServersAreReaped == Spec => []ServersReaped
<1>1. SInv => ServersReaped
  BY DEF SInv, Stored, ServersReaped
<1> QED BY <1>1, SupervisionIsSound, PTL
==============================================================================
