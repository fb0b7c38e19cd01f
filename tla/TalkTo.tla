--------------------------------- MODULE TalkTo --------------------------------
(***************************************************************************)
(* The wrapper talk-to: the thread that keeps the link to the daemon, the  *)
(* proxy loop between terminal and agent, the threads that carry triggers, *)
(* and the SIGWINCH handler.  Around it the daemon comes and goes and      *)
(* pushes lines, the user types and resizes, and the agent reads and       *)
(* writes its PTY, whose two buffers are finite.  What an edit, a finalize *)
(* or a transcript does to the prompt is Preview's; here each is one unit  *)
(* of bytes to inject.                                                     *)
(***************************************************************************)
EXTENDS Integers, Sequences

CONSTANTS Heights,     \* rows the terminal may have, a u16
          InRoom,      \* units the PTY holds for the agent to read
          OutRoom,     \* and for talk-to to read
          Echo,        \* units the agent writes for each it has read
          Budgets,     \* bounds: each says how much the daemon and the user do
          MaxPresses   \* bound: numbers for presses

U16 == {n \in Nat : n < 65536}

ASSUME TalkToAssumption ==
    /\ Heights \subseteq U16 /\ Heights # {}
    /\ InRoom \in Nat \ {0} /\ OutRoom \in Nat \ {0} /\ Echo \in Nat
    /\ \A budget \in Budgets :
           budget \in [{"lines", "lives", "presses", "resizes"} -> Nat]
    /\ MaxPresses \in Nat

VARIABLES
    up,         \* a daemon listens on the socket
    sameVersion,\* it speaks our protocol version
    dictating,  \* its state is streaming
    conn,       \* the client's connection, as the daemon left it
    wire,       \* lines on their way to the client
    client,     \* where the client thread is
    token,      \* Shared::state
    streaming,  \* Shared::streaming
    pending,    \* Shared::pending_inject
    dictation,  \* history: number of dictations the client thread has seen begin
    applied,    \* history: the dictation each injection was applied in, or 0
    pc,         \* where the proxy loop is
    stateNow,   \* its copy of Shared::state in this round, which the strip shows
    suppressed, \* and of Shared::streaming
    hangup,     \* poll saw that the agent has gone
    hand,       \* what it has read or taken and not dealt with yet
    written,    \* history: what it wrote to the agent
    agent,      \* the agent runs
    inbuf,      \* units in the PTY for the agent to read
    owes,       \* units the agent writes before it reads on
    outbuf,     \* units in the PTY for talk-to to read
    typed,      \* keys in the terminal, not read yet
    pressed,    \* number of presses
    carried,    \* triggers under way on threads of their own
    height,     \* rows of the terminal
    winch,      \* RESIZED
    read,       \* the size that a round has read
    childRows,  \* rows of the agent's PTY
    missed,     \* history: the last resize came before the handler
    left        \* of the budget: lines, daemons going or coming, presses, resizes

daemonVars == <<up, sameVersion, dictating, conn, wire>>
sharedVars == <<token, streaming, pending, dictation, applied>>
snapshot == <<stateNow, suppressed>>
roundVars == <<snapshot, hangup>>
loopVars == <<pc, roundVars, hand, written>>
agentVars == <<agent, inbuf, owes, outbuf>>
userVars == <<typed, pressed, height>>
sizeVars == <<winch, read, childRows, missed>>
vars == <<daemonVars, client, sharedVars, loopVars, agentVars, userVars,
          carried, sizeVars, left>>

Voice == {"idle", "streaming"}
LinkToken == {"unreachable", "incompatible", "rejected", "dropped"}
Press == 1..MaxPresses

\* Presses are numbered in order, not all numbers are pressed.
Key == {p \in Press : p % 2 = 1}
Trigger == Press \ Key

\* Segments of hand and written: a press p, or injection n as -n, of those there
\* were so far.
Insertion == {-n : n \in 1..Len(applied)}

\* Every variable holds a value of the kind the code gives it.
TypeOK ==
    /\ {up, sameVersion, dictating, streaming, suppressed, hangup, agent,
      winch, missed}
         \subseteq BOOLEAN
    /\ conn \in {"none", "asked", "sink", "shut"}
    /\ wire \in Seq(Voice \cup {"inject", "incompatible", "refused"})
    /\ client \in {"none", "pathless", "first", "reply", "serving", "sleep", "gone"}
    /\ token \in Voice \cup LinkToken
    /\ pending \in Seq(Insertion)
    /\ dictation \in Nat /\ applied \in Seq(0..dictation)
    /\ pc \in {"start", "forked", "top", "size", "take", "inject", "poll",
               "keys", "master", "over"}
    /\ stateNow \in Voice \cup LinkToken
    /\ hand \in Seq(Press \cup Insertion) /\ written \in Seq(Key \cup Insertion)
    /\ inbuf \in 0..InRoom /\ outbuf \in 0..OutRoom /\ owes \in 0..Echo
    /\ typed \in Seq(Press) /\ pressed \in {0} \cup Press
    /\ carried \subseteq Trigger
    /\ height \in Heights /\ read \in Heights \cup {0}
    /\ childRows \in U16
    /\ left \in [{"lines", "lives", "presses", "resizes"} -> Nat]

\* Mutant of ChildRows: the subtraction does not saturate.
ChildRowsBelowZero(rows) == rows - 1

\* geometry, for a strip of one row: what is left for the agent.
ChildRows(rows) == IF rows = 0 THEN 0 ELSE rows - 1

Init ==
    /\ up \in BOOLEAN /\ sameVersion \in {FALSE, up} /\ dictating = FALSE
    /\ conn = "none" /\ wire = <<>>
    /\ client = "none"
    /\ token = "idle" /\ streaming = FALSE /\ pending = <<>>
    /\ dictation = 0 /\ applied = <<>>
    /\ pc = "start" /\ stateNow = "idle" /\ suppressed = FALSE /\ hangup = FALSE
    /\ hand = <<>> /\ written = <<>>
    /\ agent = FALSE /\ inbuf = 0 /\ owes = 0 /\ outbuf = 0
    /\ typed = <<>> /\ pressed = 0
    /\ carried = {}
    /\ height \in Heights
    /\ winch = FALSE /\ read = 0 /\ childRows = 0 /\ missed = FALSE
    /\ left \in Budgets

------------------------------------------------------------------------------
(* The daemon, as the wrapper sees it. *)

\* Bound: the environment does only so much.
Happens(what) ==
    left[what] > 0 /\ left' = [left EXCEPT ![what] = @ - 1]

\* register-sink is answered: with the state, or with an error line.
DaemonAnswers ==
    /\ up /\ conn = "asked"
    /\ \/ /\ sameVersion
          /\ conn' = "sink"
          /\ wire' = <<IF dictating THEN "streaming" ELSE "idle">>
       \/ /\ ~sameVersion
          /\ conn' = "shut"
          /\ \E line \in {"incompatible", "refused"} : wire' = <<line>>
    /\ UNCHANGED <<up, sameVersion, dictating, client, sharedVars, loopVars,
                   agentVars, userVars, carried, sizeVars, left>>

\* A line is pushed: a change of state, or something to inject.
DaemonPushes ==
    /\ up /\ conn = "sink" /\ Happens("lines")
    /\ \/ /\ dictating' = ~dictating
          /\ wire' = Append(wire, IF dictating' THEN "streaming" ELSE "idle")
       \/ wire' = Append(wire, "inject") /\ UNCHANGED dictating
    /\ UNCHANGED <<up, sameVersion, conn, client, sharedVars, loopVars,
                   agentVars, userVars, carried, sizeVars>>

\* It stops, is killed, or is replaced by another: what it wrote can be read.
DaemonDies ==
    /\ up /\ Happens("lives")
    /\ up' = FALSE /\ sameVersion' = FALSE /\ dictating' = FALSE
    /\ conn' = IF conn = "none" THEN "none" ELSE "shut"
    /\ UNCHANGED <<wire, client, sharedVars, loopVars, agentVars,
                   userVars, carried, sizeVars>>

DaemonStarts ==
    /\ ~up /\ Happens("lives")
    /\ up' = TRUE /\ sameVersion' \in BOOLEAN
    /\ UNCHANGED <<dictating, conn, wire, client, sharedVars, loopVars,
                   agentVars, userVars, carried, sizeVars>>

------------------------------------------------------------------------------
(* spawn_sink_client and serve_link *)

OutsideClient == UNCHANGED <<up, sameVersion, dictating, loopVars, agentVars,
                             userVars, carried, sizeVars, left>>
SameShared == UNCHANGED <<streaming, pending, dictation, applied>>

\* The link is not there: the strip says how, and talk-to waits two seconds.
Down(why) ==
    /\ token' = why /\ client' = "sleep"
    /\ conn' = "none" /\ wire' = <<>>
    /\ SameShared

NoSocketPath ==
    /\ client = "pathless"
    /\ token' = "unreachable" /\ client' = "gone"
    /\ SameShared /\ OutsideClient /\ UNCHANGED <<conn, wire>>

\* Mutant of Connect: nobody tries again.
ConnectOnce ==
    /\ client = "first"
    /\ \/ /\ up
          /\ conn' = "asked" /\ client' = "reply"
          /\ SameShared /\ UNCHANGED <<token, wire>>
       \/ up /\ Down("dropped")
       \/ ~up /\ Down("unreachable")
    /\ OutsideClient

\* connect and register-sink, at first at once and then every two seconds; the
\* daemon may go between the two.
Connect ==
    /\ client \in {"first", "sleep"}
    /\ \/ /\ up
          /\ conn' = "asked" /\ client' = "reply"
          /\ SameShared /\ UNCHANGED <<token, wire>>
       \/ up /\ Down("dropped")
       \/ ~up /\ Down("unreachable")
    /\ OutsideClient

\* apply_frame: a state says whether keys are suppressed, the rest is injected.
ApplyFrame(line) ==
    /\ wire' = Tail(wire)
    /\ \/ /\ line \in Voice
          /\ token' = line /\ streaming' = (line = "streaming")
          /\ dictation' = IF streaming' /\ ~streaming THEN dictation + 1
                          ELSE dictation
          /\ UNCHANGED <<pending, applied>>
       \/ /\ line = "inject"
          /\ pending' = Append(pending, -(Len(applied) + 1))
          /\ applied' = Append(applied, IF streaming THEN dictation ELSE 0)
          /\ UNCHANGED <<token, streaming, dictation>>

\* classify_first_line: a frame registers us, an error says why not.
ReadReply ==
    /\ client = "reply"
    /\ \/ /\ wire # <<>> /\ Head(wire) \in Voice
          /\ client' = "serving" /\ ApplyFrame(Head(wire))
          /\ UNCHANGED conn
       \/ wire # <<>> /\ Head(wire) = "incompatible" /\ Down("incompatible")
       \/ wire # <<>> /\ Head(wire) = "refused" /\ Down("rejected")
       \/ wire = <<>> /\ conn = "shut" /\ Down("dropped")
    /\ OutsideClient

ReadFrame ==
    /\ client = "serving"
    /\ \/ wire # <<>> /\ ApplyFrame(Head(wire)) /\ UNCHANGED <<client, conn>>
       \/ wire = <<>> /\ conn = "shut" /\ Down("dropped")
    /\ OutsideClient

ClientSteps == NoSocketPath \/ Connect \/ ReadReply \/ ReadFrame

------------------------------------------------------------------------------
(* main and proxy_loop *)

At(here) == pc = here
Goto(there) == pc' = there
OutsideLoop == UNCHANGED <<daemonVars, height, pressed, left>>

\* The size is read and the agent forked with it.
Fork ==
    /\ At("start") /\ Goto("forked")
    /\ childRows' = ChildRows(height)
    /\ agent' = TRUE /\ owes' = Echo
    /\ OutsideLoop
    /\ UNCHANGED <<client, sharedVars, roundVars, hand, written,
                   inbuf, outbuf, typed, carried, winch, read, missed>>

\* install_sigwinch, spawn_sink_client, and into the loop.
Begin ==
    /\ At("forked") /\ Goto("top")
    /\ client' \in {"first", "pathless"}
    /\ OutsideLoop
    /\ UNCHANGED <<sharedVars, roundVars, hand, written,
                   agentVars, typed, carried, sizeVars>>

InsideLoop == OutsideLoop /\ UNCHANGED <<dictation, applied, token, streaming, missed>>

\* The flag is swapped and the size read; when it was not set, the loop is at
\* Take.
Resized ==
    /\ At("top") /\ winch /\ Goto("size")
    /\ winch' = FALSE /\ read' = height
    /\ InsideLoop
    /\ UNCHANGED <<client, pending, roundVars, hand, written, agentVars, typed,
                   carried, childRows>>

\* Mutant of SetSize: RESIZED is cleared once the resize is dealt with.
SetSizeThenClear ==
    /\ At("size") /\ Goto("take")
    /\ childRows' = ChildRows(read) /\ winch' = FALSE
    /\ InsideLoop
    /\ UNCHANGED <<client, pending, roundVars, hand, written, agentVars, typed,
                   carried, read>>

SetSize ==
    /\ At("size") /\ Goto("take")
    /\ childRows' = ChildRows(read)
    /\ InsideLoop
    /\ UNCHANGED <<client, pending, roundVars, hand, written, agentVars, typed,
                   carried, winch, read>>

\* Mutant of Take: what is injected is copied, not taken.
TakeCopy ==
    /\ pc \in {"take", "top"}
    /\ At("top") => ~winch
    /\ Goto(IF pending = <<>> THEN "poll" ELSE "inject")
    /\ hand' = pending /\ pending' = pending
    /\ stateNow' = token /\ suppressed' = streaming
    /\ InsideLoop
    /\ UNCHANGED <<client, hangup, written, agentVars, typed,
                   carried, winch, read, childRows>>

\* One critical section: the bytes, the token and the flag belong together.
Take ==
    /\ pc \in {"take", "top"}
    /\ At("top") => ~winch
    /\ Goto(IF pending = <<>> THEN "poll" ELSE "inject")
    /\ hand' = pending /\ pending' = <<>>
    /\ stateNow' = token /\ suppressed' = streaming
    /\ InsideLoop
    /\ UNCHANGED <<client, hangup, written, agentVars, typed,
                   carried, winch, read, childRows>>

\* write_all_fd waits for room, and gives up when nobody reads any more.
Write ==
    /\ hand # <<>> /\ Head(hand) \notin Trigger
    /\ Head(hand) \in Key => ~suppressed
    /\ \/ /\ agent /\ inbuf < InRoom
          /\ inbuf' = inbuf + 1 /\ written' = Append(written, Head(hand))
       \/ ~agent /\ UNCHANGED <<inbuf, written>>
    /\ UNCHANGED carried

\* Mutant of Drop: triggers are dropped with the keys.
DropTriggers ==
    /\ hand # <<>> /\ Head(hand) \in Press /\ suppressed
    /\ UNCHANGED <<inbuf, written, carried>>

\* scan_suppressed: a key is dropped while a dictation is on.
Drop ==
    /\ hand # <<>> /\ Head(hand) \in Key /\ suppressed
    /\ UNCHANGED <<inbuf, written, carried>>

\* send_command, on a thread of its own.
Dispatch ==
    /\ hand # <<>> /\ Head(hand) \in Trigger
    /\ carried' = carried \cup {Head(hand)}
    /\ UNCHANGED <<inbuf, written>>

\* The segments are dealt with in order.
Deal ==
    /\ pc \in {"inject", "keys"}
    /\ Write \/ Drop \/ Dispatch
    /\ hand' = Tail(hand)
    /\ Goto(IF hand' # <<>> THEN pc ELSE IF pc = "inject" THEN "poll" ELSE "master")
    /\ InsideLoop
    /\ UNCHANGED <<client, pending, roundVars, agent, owes, outbuf, typed,
                   winch, read, childRows>>

\* Mutant of Poll: without a timeout.
PollForever ==
    /\ At("poll")
    /\ typed # <<>> \/ outbuf > 0 \/ ~agent
    /\ hangup' = ~agent
    /\ \/ typed # <<>> /\ Goto("keys") /\ hand' = typed /\ typed' = <<>>
       \/ typed = <<>> /\ Goto("master") /\ UNCHANGED <<hand, typed>>
    /\ InsideLoop
    /\ UNCHANGED <<client, pending, snapshot, written, agentVars, carried,
                   winch, read, childRows>>

\* Mutant of Poll: Shared::streaming is looked at again.
PollAndLook ==
    /\ At("poll")
    /\ hangup' = ~agent
    /\ \/ typed # <<>> /\ Goto("keys") /\ hand' = typed /\ typed' = <<>>
       \/ typed = <<>> /\ Goto("master") /\ UNCHANGED <<hand, typed>>
    /\ suppressed' = streaming
    /\ InsideLoop
    /\ UNCHANGED <<client, pending, stateNow, written, agentVars, carried,
                   winch, read, childRows>>

\* poll returns because something is readable, interrupted, or after 200 ms; what
\* was typed is read.  An interrupted one leads to the top as an idle one does.
Poll ==
    /\ At("poll")
    /\ hangup' = ~agent
    /\ \/ typed # <<>> /\ Goto("keys") /\ hand' = typed /\ typed' = <<>>
       \/ typed = <<>> /\ Goto("master") /\ UNCHANGED <<hand, typed>>
    /\ InsideLoop
    /\ UNCHANGED <<client, pending, snapshot, written, agentVars, carried,
                   winch, read, childRows>>

\* The loop is left and with it the process: its threads end where they are.
Leave == Goto("over") /\ client' = "gone" /\ carried' = {}

\* One read of what the agent wrote, since poll at the latest; a hang-up that poll
\* saw ends the loop, also when there is more to read.  The variables of the round
\* are no more.
ReadAgent ==
    /\ At("master")
    /\ outbuf' = IF outbuf > 0 THEN outbuf - 1 ELSE 0
    /\ \/ ~hangup /\ Goto("top") /\ UNCHANGED <<client, carried>>
       \/ hangup /\ Leave
    /\ stateNow' = "idle" /\ suppressed' = FALSE /\ hangup' = FALSE
    /\ InsideLoop
    /\ UNCHANGED <<pending, hand, written, agent, inbuf, owes, typed, winch,
                   read, childRows>>

ProxySteps ==
    \/ Fork \/ Begin \/ Resized \/ SetSize \/ Take \/ Deal \/ Poll \/ ReadAgent

------------------------------------------------------------------------------
(* The threads of triggers, the agent, the user. *)

\* It connects and writes its command, or finds nobody; what the daemon makes of
\* it shows in what it pushes.
Carry(p) ==
    /\ p \in carried
    /\ carried' = carried \ {p}
    /\ UNCHANGED <<daemonVars, client, sharedVars, loopVars, agentVars, userVars,
                   sizeVars, left>>

OutsideAgent == UNCHANGED <<daemonVars, client, sharedVars, loopVars, userVars,
                            carried, sizeVars, left>>

\* The agent writes before it reads on: a screen follows each input.
AgentReads ==
    /\ agent /\ owes = 0 /\ inbuf > 0
    /\ inbuf' = inbuf - 1 /\ owes' = Echo
    /\ OutsideAgent /\ UNCHANGED <<agent, outbuf>>

AgentWrites ==
    /\ agent /\ owes > 0 /\ outbuf < OutRoom
    /\ outbuf' = outbuf + 1 /\ owes' = owes - 1
    /\ OutsideAgent /\ UNCHANGED <<agent, inbuf>>

AgentExits ==
    /\ agent
    /\ agent' = FALSE /\ owes' = 0 /\ inbuf' = 0
    /\ OutsideAgent /\ UNCHANGED outbuf

UserPresses ==
    /\ pc # "over" /\ Happens("presses")
    /\ \E p \in Press :
          /\ p > pressed /\ pressed' = p
          /\ typed' = Append(typed, p)
    /\ UNCHANGED <<daemonVars, client, sharedVars, loopVars, agentVars, height,
                   carried, sizeVars>>

\* SIGWINCH is ignored until its handler is there.
UserResizes ==
    /\ pc # "over" /\ Happens("resizes")
    /\ height' \in Heights \ {height}
    /\ winch' = (pc \notin {"start", "forked"})
    /\ missed' = At("forked")
    /\ UNCHANGED <<daemonVars, client, sharedVars, loopVars, agentVars, typed,
                   pressed, carried, read, childRows>>

Next ==
    \/ DaemonAnswers \/ DaemonPushes \/ DaemonDies \/ DaemonStarts
    \/ ClientSteps \/ ProxySteps
    \/ \E p \in Trigger : Carry(p)
    \/ AgentReads \/ AgentWrites \/ AgentExits
    \/ UserPresses \/ UserResizes

\* The threads run; a daemon answers; an agent reads and writes while it can.
Spec == Init /\ [][Next]_vars
        /\ WF_vars(ClientSteps) /\ WF_vars(ProxySteps) /\ WF_vars(DaemonAnswers)
        /\ \A p \in Trigger : WF_vars(Carry(p))
        /\ WF_vars(AgentReads) /\ WF_vars(AgentWrites)

------------------------------------------------------------------------------
(* Properties *)

\* What went to the agent, what is in hand and what waits, in order.
Segments == written \o hand \o pending

\* While the agent runs, every injection reaches it once and in the order of the
\* frames, across the two threads, whatever keys and triggers go between.
InjectedInOrder ==
    agent =>
        /\ \A n \in 1..Len(applied) : \E i \in DOMAIN Segments : Segments[i] = -n
        /\ \A i, j \in DOMAIN Segments :
              i < j /\ {Segments[i], Segments[j]} \subseteq Insertion
                  => Segments[i] > Segments[j]

\* No key gets between two injections of one dictation: it is dropped or comes
\* before the first or after the last, though the flag it is judged by is old.
KeysKeepOut ==
    \A i, j, k \in 1..Len(written) :
        /\ i < j /\ j < k
        /\ written[j] \in Key /\ written[i] \in Insertion /\ written[k] \in Insertion
        /\ applied[-written[i]] # 0
        => applied[-written[i]] # applied[-written[k]]

\* Each waits for room in what the other reads.
Jammed ==
    /\ hand # <<>> /\ agent /\ inbuf = InRoom
    /\ owes > 0 /\ outbuf = OutRoom

\* The loop goes on until the agent has gone.  Only one thing stops it: talk-to
\* waits for room in the agent's input and the agent for room in its output.
LoopGoesOn == []<>(pc \in {"top", "over"} \/ Jammed)

\* The agent's size follows the terminal's, except for a resize between the
\* fork and the handler, which is noticed with the next one.
SizeTracked ==
    <>[](\/ childRows = ChildRows(height) \/ missed \/ pc = "over" \/ Jammed)

\* A trigger that was pressed is on its way to the daemon, also while keys are
\* suppressed and whatever the link does, unless talk-to ends first.
TriggersSent ==
    \A p \in Trigger :
        (\E i \in 1..Len(typed) : typed[i] = p)
            ~> (p \in carried \/ pc = "over" \/ Jammed)

\* Once a daemon of our version is there for good, the link is there for good.
Relinks ==
    <>[](up /\ sameVersion /\ client \notin {"pathless", "gone"})
        => <>[](client = "serving" \/ pc = "over")
==============================================================================
