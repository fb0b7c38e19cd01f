------------------------------- MODULE TalkToProofs ------------------------------
(***************************************************************************)
(* Proofs about TalkTo, for terminals, PTYs and budgets of any size.       *)
(*                                                                         *)
(* InjectedInOrder is proved by saying, of the three places an injection   *)
(* can be in, that each is in order and that each comes before the next.   *)
(* KeysKeepOut needs what the proxy loop knows without asking: what it     *)
(* wrote or holds while it forwards keys was applied in a dictation that   *)
(* is over (Sealed), because the flag was read together with the bytes.    *)
(***************************************************************************)
EXTENDS TalkTo, TLAPS

-----------------------------------------------------------------------------
(* The invariant *)

FlagTypes ==
    /\ up \in BOOLEAN /\ sameVersion \in BOOLEAN /\ dictating \in BOOLEAN
    /\ streaming \in BOOLEAN /\ suppressed \in BOOLEAN /\ hangup \in BOOLEAN
    /\ agent \in BOOLEAN /\ winch \in BOOLEAN /\ missed \in BOOLEAN

\* The daemon and the link.
LinkTypes ==
    /\ conn \in {"none", "asked", "sink", "shut"}
    /\ wire \in Seq(Voice \cup {"inject", "incompatible", "refused"})
    /\ client \in {"none", "pathless", "first", "reply", "serving", "sleep", "gone"}
    /\ token \in Voice \cup LinkToken /\ stateNow \in Voice \cup LinkToken

\* Dictations and injections.
HistoryTypes == dictation \in Nat /\ applied \in Seq(0..dictation)

\* What is on its way to the agent.
SegmentTypes ==
    /\ pending \in Seq(Insertion) /\ hand \in Seq(Press \cup Insertion)
    /\ written \in Seq(Key \cup Insertion)

\* Keys and triggers.
PressTypes ==
    /\ typed \in Seq(Press) /\ pressed \in {0} \cup Press
    /\ carried \subseteq Trigger

\* Rooms and sizes.
NumberTypes ==
    /\ inbuf \in 0..InRoom /\ outbuf \in 0..OutRoom /\ owes \in 0..Echo
    /\ height \in Heights /\ read \in Heights \cup {0}
    /\ childRows \in U16

PlaceTypes ==
    pc \in {"start", "forked", "top", "size", "take", "inject", "poll", "keys",
            "master", "over"}

LeftTypes == left \in [{"lines", "lives", "presses", "resizes"} -> Nat]

\* hand holds insertions while they are injected, presses while they are dealt
\* with, and nothing in between.
HandFits ==
    /\ pc = "inject" => \A i \in DOMAIN hand : hand[i] \in Insertion
    /\ pc = "keys" => \A i \in DOMAIN hand : hand[i] \in Press
    /\ pc \notin {"inject", "keys"} => hand = <<>>

\* Before the agent is forked nobody injects.
BeforeFork ==
    pc = "start" => ~agent /\ client = "none" /\ applied = <<>>

\* The injections among the segments s are in order, and those of s are before
\* those of t.
Falling(s) == \A i, j \in DOMAIN s : i < j /\ s[i] < 0 /\ s[j] < 0 => s[i] > s[j]
Precedes(s, t) ==
    \A i \in DOMAIN s, j \in DOMAIN t : s[i] < 0 /\ t[j] < 0 => s[i] > t[j]

\* Each of the three places is in order, and they are in order.
PlacesInOrder ==
    /\ Falling(written) /\ Falling(hand) /\ Falling(pending)
    /\ Precedes(written, hand) /\ Precedes(written, pending) /\ Precedes(hand, pending)

Holds(s, n) == \E i \in DOMAIN s : s[i] = -n

\* Each injection is in one of them.
NoneLost ==
    agent => \A n \in 1..Len(applied) :
                 Holds(written, n) \/ Holds(hand, n) \/ Holds(pending, n)

\* The dictation in which injection m was applied ended before those in s were.
EndedBefore(m, s) ==
    \A i \in DOMAIN s : s[i] < 0 /\ applied[-s[i]] # 0 => applied[m] < applied[-s[i]]

\* It is over: what waits and what comes belongs to others.
Sealed(m) ==
    /\ streaming => applied[m] < dictation
    /\ EndedBefore(m, pending)

\* While keys are forwarded, all that was written or is in hand is sealed.
RoundSealed ==
    pc \in {"inject", "poll", "keys"} /\ ~suppressed =>
        /\ \A i \in DOMAIN written : written[i] < 0 => Sealed(-written[i])
        /\ \A i \in DOMAIN hand : hand[i] < 0 => Sealed(-hand[i])

\* What was written before a key is sealed for good.
KeySeals ==
    \A i, j \in DOMAIN written :
        i < j /\ written[i] < 0 /\ written[j] > 0 =>
            /\ Sealed(-written[i]) /\ EndedBefore(-written[i], hand)
            /\ \A k \in DOMAIN written :
                   j < k /\ written[k] < 0 /\ applied[-written[k]] # 0
                       => applied[-written[i]] < applied[-written[k]]

Types ==
    /\ FlagTypes /\ LinkTypes /\ HistoryTypes /\ SegmentTypes /\ PressTypes /\ NumberTypes
    /\ PlaceTypes /\ LeftTypes

Shape == HandFits /\ BeforeFork

IInv == Types /\ Shape /\ PlacesInOrder /\ NoneLost /\ RoundSealed /\ KeySeals

-----------------------------------------------------------------------------
(* Sequences *)

\* The first of a sequence and the rest.
LEMMA HeadTail ==
  ASSUME NEW S, NEW s \in Seq(S), s # <<>>
  PROVE  /\ Head(s) \in S /\ Head(s) = s[1] /\ 1 \in DOMAIN s
         /\ Tail(s) \in Seq(S) /\ Len(Tail(s)) = Len(s) - 1
         /\ \A i \in DOMAIN Tail(s) : i + 1 \in DOMAIN s /\ Tail(s)[i] = s[i + 1]
         /\ \A i \in DOMAIN s : i # 1 => i - 1 \in DOMAIN Tail(s) /\ Tail(s)[i - 1] = s[i]
OBVIOUS

\* A sequence with one more.
LEMMA Appended ==
  ASSUME NEW S, NEW s \in Seq(S), NEW x \in S
  PROVE  /\ Append(s, x) \in Seq(S) /\ Len(Append(s, x)) = Len(s) + 1
         /\ DOMAIN Append(s, x) = DOMAIN s \cup {Len(s) + 1} /\ Len(s) + 1 \notin DOMAIN s
         /\ \A i \in DOMAIN s : Append(s, x)[i] = s[i] /\ i < Len(s) + 1
         /\ Append(s, x)[Len(s) + 1] = x
OBVIOUS

\* A sequence over a set is one over a larger set.
LEMMA SeqWidens ==
  ASSUME NEW S, NEW T, S \subseteq T, NEW s \in Seq(S)
  PROVE  s \in Seq(T)
OBVIOUS

\* An insertion is the negative of its number, a press is positive.
LEMMA InsertionIs ==
  ASSUME HistoryTypes
  PROVE  /\ Len(applied) \in Nat
         /\ \A x : x \in Insertion <=> x \in Int /\ x < 0 /\ -x <= Len(applied)
         /\ \A p \in Press : p \in Nat /\ p > 0
         /\ Key \subseteq Press /\ Trigger \subseteq Press /\ Press \ Key = Trigger
<1>1. Len(applied) \in Nat
  BY DEF HistoryTypes
<1>2. ASSUME NEW x, x \in Insertion
      PROVE  x \in Int /\ x < 0 /\ -x <= Len(applied)
  BY <1>1, <1>2 DEF Insertion
<1>3. ASSUME NEW x, x \in Int /\ x < 0 /\ -x <= Len(applied)
      PROVE  x \in Insertion
  <2>1. -x \in 1..Len(applied) /\ x = -(-x)
    BY <1>1, <1>3
  <2> QED BY <2>1 DEF Insertion
<1>4. \A p \in Press : p \in Nat /\ p > 0
  <2>1. MaxPresses \in Nat
    BY TalkToAssumption
  <2> QED BY <2>1 DEF Press
<1> QED BY <1>1, <1>2, <1>3, <1>4 DEF Key, Trigger

-----------------------------------------------------------------------------
(* What a step may do *)

\* The places and the history are left alone; the loop moves on without a new round
\* of keys.
Still ==
    /\ UNCHANGED <<written, hand, pending, applied, dictation, streaming>>
    /\ agent' => agent \/ pc = "start"
    /\ \/ UNCHANGED <<pc, suppressed>>
       \/ pc \notin {"inject", "keys"} /\ pc' \notin {"start", "inject", "keys", "poll"}

\* A frame is applied; the loop is elsewhere.
Frame ==
    /\ client # "none" /\ wire # <<>> /\ Head(wire) \in Voice \cup {"inject"}
    /\ ApplyFrame(Head(wire))
    /\ UNCHANGED <<written, hand, pc, suppressed, agent>>

\* What a step of the client does: it leaves the injections alone or takes a frame.
LEMMA ClientStepsAre ==
  ASSUME Types, ClientSteps
  PROVE  /\ client # "none" /\ client' # "none"
         /\ Still \/ Frame
         /\ OutsideClient
<1> USE DEF OutsideClient, SameShared, loopVars, snapshot, roundVars, agentVars
<1>1. CASE NoSocketPath
  BY <1>1 DEF NoSocketPath, Still
<1>2. CASE Connect
  BY <1>2 DEF Connect, Down, Still
<1>3. CASE ReadReply
  BY <1>3 DEF ReadReply, Down, Still, Frame
<1>4. CASE ReadFrame
  <2>1. CASE wire # <<>> /\ ApplyFrame(Head(wire)) /\ UNCHANGED <<client, conn>>
    <3>1. Head(wire) \in Voice \cup {"inject"}
      BY <2>1 DEF ApplyFrame
    <3> QED BY <1>4, <2>1, <3>1 DEF ReadFrame, Frame
  <2>2. CASE wire = <<>> /\ conn = "shut" /\ Down("dropped")
    BY <1>4, <2>2 DEF ReadFrame, Down, Still
  <2> QED BY <1>4, <2>1, <2>2 DEF ReadFrame
<1> QED BY <1>1, <1>2, <1>3, <1>4 DEF ClientSteps

\* Every step is one of five kinds, as far as the injections go.
LEMMA StepKinds ==
  ASSUME Types, Shape, [Next]_vars
  PROVE  Still \/ Frame \/ Take \/ Deal \/ Poll
<1> USE DEF OutsideLoop, InsideLoop, OutsideAgent, daemonVars, sharedVars, loopVars,
            snapshot, roundVars, agentVars, userVars, sizeVars, At, Goto
<1>1. CASE DaemonAnswers \/ DaemonPushes \/ DaemonDies \/ DaemonStarts
  BY <1>1 DEF DaemonAnswers, DaemonPushes, DaemonDies, DaemonStarts, Still
<1>2. CASE ClientSteps
  BY <1>2, ClientStepsAre
<1>3. CASE Fork \/ Begin
  BY <1>3 DEF Fork, Begin, Still
<1>4. CASE Resized \/ SetSize
  BY <1>4 DEF Resized, SetSize, Still
<1>5. CASE ReadAgent
  BY <1>5 DEF ReadAgent, Leave, Still
<1>6. CASE \E p \in Trigger : Carry(p)
  BY <1>6 DEF Carry, Still
<1>7. CASE AgentReads \/ AgentWrites \/ AgentExits
  BY <1>7 DEF AgentReads, AgentWrites, AgentExits, Still
<1>8. CASE UserPresses \/ UserResizes
  BY <1>8 DEF UserPresses, UserResizes, Still
<1>9. CASE UNCHANGED vars
  BY <1>9 DEF vars, Still
<1> QED
  BY <1>1, <1>2, <1>3, <1>4, <1>5, <1>6, <1>7, <1>8, <1>9 DEF Next, ProxySteps

-----------------------------------------------------------------------------
(* Types *)

\* geometry: the agent's rows fit where the terminal's do.
LEMMA ChildRowsFit == 0 \in U16 /\ \A rows \in U16 : ChildRows(rows) \in U16
BY DEF U16, ChildRows

\* The types hold at first.
LEMMA InitTypes == Init => Types
<1> SUFFICES ASSUME Init PROVE Types
  OBVIOUS
<1>1. FlagTypes
  <2>1. sameVersion \in BOOLEAN
    BY Zenon DEF Init
  <2> QED BY <2>1 DEF Init, FlagTypes
<1>2. LinkTypes
  BY DEF Init, LinkTypes, Voice
<1>3. HistoryTypes /\ SegmentTypes
  BY DEF Init, HistoryTypes, SegmentTypes
<1>4. PressTypes /\ PlaceTypes
  BY DEF Init, PressTypes, PlaceTypes
<1>5. NumberTypes
  BY TalkToAssumption, ChildRowsFit DEF Init, NumberTypes
<1>6. LeftTypes
  <2>1. left \in Budgets
    BY DEF Init
  <2> QED BY <2>1, TalkToAssumption, Zenon DEF LeftTypes
<1> QED BY <1>1, <1>2, <1>3, <1>4, <1>5, <1>6 DEF Types

\* Every step keeps the types of the flags.
LEMMA NextFlagTypes == Types /\ [Next]_vars => FlagTypes'
<1> SUFFICES ASSUME Types, [Next]_vars PROVE FlagTypes'
  OBVIOUS
<1> USE DEF OutsideLoop, InsideLoop, OutsideAgent, daemonVars, sharedVars, loopVars,
            snapshot, roundVars, agentVars, userVars, sizeVars, FlagTypes
<1>0. FlagTypes
  BY DEF Types
<1>1. CASE DaemonAnswers
  BY <1>0, <1>1, Zenon DEF DaemonAnswers
<1>2. CASE DaemonPushes
  BY <1>0, <1>2, Zenon DEF DaemonPushes
<1>3. CASE DaemonDies \/ DaemonStarts
  BY <1>0, <1>3, Zenon DEF DaemonDies, DaemonStarts
<1>4. CASE ClientSteps
  <2>1. UNCHANGED streaming \/ \E line : streaming' = (line = "streaming")
    BY <1>4, Zenon DEF ClientSteps, NoSocketPath, Connect, ReadReply, ReadFrame, Down,
       SameShared, ApplyFrame
  <2>2. streaming' \in BOOLEAN
    BY <1>0, <2>1, Zenon
  <2>3. UNCHANGED <<up, sameVersion, dictating, suppressed, hangup, agent, winch, missed>>
    BY <1>4, ClientStepsAre DEF OutsideClient
  <2> QED BY <1>0, <2>2, <2>3
<1>5. CASE Fork \/ Begin \/ Resized \/ SetSize
  BY <1>0, <1>5, Zenon DEF Fork, Begin, Resized, SetSize
<1>6. CASE Take \/ Poll
  BY <1>0, <1>6, Zenon DEF Take, Poll
<1>7. CASE Deal \/ ReadAgent
  BY <1>0, <1>7, Zenon DEF Deal, ReadAgent
<1>8. CASE \E p \in Trigger : Carry(p)
  BY <1>0, <1>8, Zenon DEF Carry
<1>9. CASE AgentReads \/ AgentWrites \/ AgentExits
  BY <1>0, <1>9, Zenon DEF AgentReads, AgentWrites, AgentExits
<1>10. CASE UserPresses
  BY <1>0, <1>10, Zenon DEF UserPresses
<1>11. CASE UserResizes
  <2>1. winch' \in BOOLEAN /\ missed' \in BOOLEAN
    <3>1. winch' = (pc \notin {"start", "forked"}) /\ missed' = (pc = "forked")
      BY <1>11, Zenon DEF UserResizes, At
    <3>2. /\ (pc \notin {"start", "forked"}) \in BOOLEAN
          /\ (pc = "forked") \in BOOLEAN
      OBVIOUS
    <3> QED BY <3>1, <3>2, Zenon
  <2>2. UNCHANGED <<up, sameVersion, dictating, streaming, suppressed, hangup, agent>>
    BY <1>11 DEF UserResizes
  <2> QED BY <1>0, <2>1, <2>2
<1>12. CASE UNCHANGED vars
  BY <1>0, <1>12, Zenon DEF vars
<1> QED
  BY <1>1, <1>2, <1>3, <1>4, <1>5, <1>6, <1>7, <1>8, <1>9, <1>10, <1>11, <1>12
  DEF Next, ProxySteps

\* Every step keeps the types of the link.
LEMMA NextLinkTypes == Types /\ [Next]_vars => LinkTypes'
<1> SUFFICES ASSUME Types, [Next]_vars PROVE LinkTypes'
  OBVIOUS
<1> USE DEF OutsideLoop, InsideLoop, OutsideAgent, OutsideClient, daemonVars, sharedVars,
            loopVars, snapshot, roundVars, agentVars, userVars, sizeVars, LinkTypes
<1> DEFINE Line == Voice \cup {"inject", "incompatible", "refused"}
<1>0. LinkTypes
  BY DEF Types
<1>1. CASE DaemonAnswers
  <2>1. PICK x \in Line : wire' = <<x>>
    BY <1>1 DEF DaemonAnswers, Voice
  <2>2. wire' \in Seq(Line)
    BY <2>1
  <2>3. UNCHANGED <<client, token, stateNow>> /\ conn' \in {"sink", "shut"}
    BY <1>1 DEF DaemonAnswers
  <2> QED BY <1>0, <2>2, <2>3
<1>2. CASE DaemonPushes
  <2>1. \E x \in Line : wire' = Append(wire, x)
    BY <1>2 DEF DaemonPushes, Voice
  <2>2. wire' \in Seq(Line)
    BY <1>0, <2>1, Appended
  <2> QED BY <1>0, <1>2, <2>2 DEF DaemonPushes
<1>3. CASE DaemonDies \/ DaemonStarts
  BY <1>0, <1>3 DEF DaemonDies, DaemonStarts
<1>4. CASE ClientSteps
  <2> USE DEF SameShared, Down
  <2>1. CASE NoSocketPath \/ Connect
    <3>1. wire' \in Seq(Line)
      <4>1. UNCHANGED wire \/ wire' = <<>>
        BY <2>1 DEF NoSocketPath, Connect
      <4>2. CASE UNCHANGED wire
        BY <1>0, <4>2
      <4>3. CASE wire' = <<>>
        BY <4>3
      <4> QED BY <4>1, <4>2, <4>3
    <3> QED BY <1>0, <2>1, <3>1 DEF NoSocketPath, Connect, LinkToken
  <2>2. CASE ReadReply \/ ReadFrame
    <3>1. \/ ApplyFrame(Head(wire)) /\ wire # <<>>
          \/ \E why \in LinkToken : Down(why)
      BY <2>2 DEF ReadReply, ReadFrame, LinkToken
    <3>2. token' \in Voice \cup LinkToken
      BY <1>0, <3>1 DEF ApplyFrame
    <3>3. wire' \in Seq(Line)
      <4>1. CASE wire # <<>> /\ wire' = Tail(wire)
        BY <1>0, <4>1, HeadTail
      <4>2. CASE wire' = <<>>
        BY <4>2
      <4> QED BY <3>1, <4>1, <4>2 DEF ApplyFrame
    <3> QED BY <1>0, <2>2, <3>2, <3>3 DEF ReadReply, ReadFrame
  <2> QED BY <1>4, <2>1, <2>2 DEF ClientSteps
<1>5. CASE Fork \/ Begin \/ Resized \/ SetSize
  BY <1>0, <1>5 DEF Fork, Begin, Resized, SetSize
<1>6. CASE Take \/ Poll
  BY <1>0, <1>6 DEF Take, Poll
<1>7. CASE Deal
  BY <1>0, <1>7 DEF Deal
<1>8. CASE ReadAgent
  BY <1>0, <1>8 DEF ReadAgent, Leave, Voice
<1>9. CASE \E p \in Trigger : Carry(p)
  BY <1>0, <1>9 DEF Carry
<1>10. CASE AgentReads \/ AgentWrites \/ AgentExits
  BY <1>0, <1>10 DEF AgentReads, AgentWrites, AgentExits
<1>11. CASE UserPresses \/ UserResizes
  BY <1>0, <1>11 DEF UserPresses, UserResizes
<1>12. CASE UNCHANGED vars
  BY <1>0, <1>12 DEF vars
<1> QED
  BY <1>1, <1>2, <1>3, <1>4, <1>5, <1>6, <1>7, <1>8, <1>9, <1>10, <1>11, <1>12
  DEF Next, ProxySteps

\* Every step keeps the types of the keys pressed.
LEMMA NextPressTypes == Types /\ [Next]_vars => PressTypes'
<1> SUFFICES ASSUME Types, [Next]_vars PROVE PressTypes'
  OBVIOUS
<1> USE DEF OutsideLoop, InsideLoop, OutsideAgent, OutsideClient, daemonVars, sharedVars,
            loopVars, snapshot, roundVars, agentVars, userVars, sizeVars, PressTypes
<1>0. PressTypes
  BY DEF Types
<1>1. CASE DaemonAnswers \/ DaemonPushes \/ DaemonDies \/ DaemonStarts
  BY <1>0, <1>1 DEF DaemonAnswers, DaemonPushes, DaemonDies, DaemonStarts
<1>2. CASE ClientSteps
  BY <1>0, <1>2, ClientStepsAre
<1>3. CASE Fork \/ Begin \/ Resized \/ SetSize
  BY <1>0, <1>3 DEF Fork, Begin, Resized, SetSize
<1>4. CASE Take \/ Poll
  <2>1. typed' \in Seq(Press)
    <3>1. UNCHANGED typed \/ typed' = <<>>
      BY <1>4 DEF Take, Poll
    <3>2. CASE UNCHANGED typed
      BY <1>0, <3>2
    <3>3. CASE typed' = <<>>
      BY <3>3
    <3> QED BY <3>1, <3>2, <3>3
  <2> QED BY <1>0, <1>4, <2>1 DEF Take, Poll
<1>5. CASE Deal
  BY <1>0, <1>5 DEF Deal, Write, Drop, Dispatch
<1>6. CASE ReadAgent
  BY <1>0, <1>6 DEF ReadAgent, Leave
<1>7. CASE \E p \in Trigger : Carry(p)
  BY <1>0, <1>7 DEF Carry
<1>8. CASE AgentReads \/ AgentWrites \/ AgentExits
  BY <1>0, <1>8 DEF AgentReads, AgentWrites, AgentExits
<1>9. CASE UserPresses
  <2>1. PICK p \in Press : pressed' = p /\ typed' = Append(typed, p)
    BY <1>9 DEF UserPresses
  <2>2. typed' \in Seq(Press)
    BY <1>0, <2>1, Appended
  <2> QED BY <1>0, <1>9, <2>1, <2>2 DEF UserPresses
<1>10. CASE UserResizes
  BY <1>0, <1>10 DEF UserResizes
<1>11. CASE UNCHANGED vars
  BY <1>0, <1>11 DEF vars
<1> QED
  BY <1>1, <1>2, <1>3, <1>4, <1>5, <1>6, <1>7, <1>8, <1>9, <1>10, <1>11
  DEF Next, ProxySteps

\* Every step keeps the types of the numbers.
LEMMA NextNumberTypes == Types /\ [Next]_vars => NumberTypes'
<1> SUFFICES ASSUME Types, [Next]_vars PROVE NumberTypes'
  OBVIOUS
<1> USE DEF OutsideLoop, InsideLoop, OutsideAgent, OutsideClient, daemonVars, sharedVars,
            loopVars, snapshot, roundVars, agentVars, userVars, sizeVars, NumberTypes
<1>0. NumberTypes
  BY DEF Types
<1>1. /\ InRoom \in Nat /\ OutRoom \in Nat /\ Echo \in Nat
      /\ \A rows \in Heights \cup {0} : ChildRows(rows) \in U16
  BY TalkToAssumption, ChildRowsFit
<1>2. CASE DaemonAnswers \/ DaemonPushes \/ DaemonDies \/ DaemonStarts
  BY <1>0, <1>2 DEF DaemonAnswers, DaemonPushes, DaemonDies, DaemonStarts
<1>3. CASE ClientSteps
  BY <1>0, <1>3, ClientStepsAre
<1>4. CASE Fork \/ Begin \/ Resized \/ SetSize
  BY <1>0, <1>1, <1>4 DEF Fork, Begin, Resized, SetSize
<1>5. CASE Take \/ Poll
  BY <1>0, <1>5 DEF Take, Poll
<1>6. CASE Deal
  BY <1>0, <1>1, <1>6 DEF Deal, Write, Drop, Dispatch
<1>7. CASE ReadAgent
  BY <1>0, <1>1, <1>7 DEF ReadAgent
<1>8. CASE \E p \in Trigger : Carry(p)
  BY <1>0, <1>8 DEF Carry
<1>9. CASE AgentReads \/ AgentWrites \/ AgentExits
  BY <1>0, <1>1, <1>9 DEF AgentReads, AgentWrites, AgentExits
<1>10. CASE UserPresses \/ UserResizes
  BY <1>0, <1>10 DEF UserPresses, UserResizes
<1>11. CASE UNCHANGED vars
  BY <1>0, <1>11 DEF vars
<1> QED
  BY <1>2, <1>3, <1>4, <1>5, <1>6, <1>7, <1>8, <1>9, <1>10, <1>11
  DEF Next, ProxySteps

\* Every step keeps the types of the places a press or an insertion can be in.
LEMMA NextPlaceTypes == Types /\ [Next]_vars => PlaceTypes' /\ LeftTypes'
<1> SUFFICES ASSUME Types, [Next]_vars PROVE PlaceTypes' /\ LeftTypes'
  OBVIOUS
<1> USE DEF OutsideLoop, InsideLoop, OutsideAgent, OutsideClient, daemonVars, sharedVars,
            loopVars, snapshot, roundVars, agentVars, userVars, sizeVars, At, Goto,
            PlaceTypes, LeftTypes
<1>0. PlaceTypes /\ LeftTypes
  BY DEF Types
<1>1. ASSUME NEW what \in {"lines", "lives", "presses", "resizes"}, Happens(what)
      PROVE  LeftTypes'
  BY <1>0, <1>1 DEF Happens
<1>2. CASE DaemonAnswers
  BY <1>0, <1>2 DEF DaemonAnswers
<1>3. CASE DaemonPushes
  BY <1>0, <1>1, <1>3 DEF DaemonPushes
<1>4. CASE DaemonDies \/ DaemonStarts
  BY <1>0, <1>1, <1>4 DEF DaemonDies, DaemonStarts
<1>5. CASE ClientSteps
  BY <1>0, <1>5, ClientStepsAre
<1>6. CASE Fork \/ Begin \/ Resized \/ SetSize
  BY <1>0, <1>6 DEF Fork, Begin, Resized, SetSize
<1>7. CASE Take \/ Poll
  BY <1>0, <1>7 DEF Take, Poll
<1>8. CASE Deal
  BY <1>0, <1>8 DEF Deal
<1>9. CASE ReadAgent
  BY <1>0, <1>9 DEF ReadAgent, Leave
<1>10. CASE \E p \in Trigger : Carry(p)
  BY <1>0, <1>10 DEF Carry
<1>11. CASE AgentReads \/ AgentWrites \/ AgentExits
  BY <1>0, <1>11 DEF AgentReads, AgentWrites, AgentExits
<1>12. CASE UserPresses \/ UserResizes
  BY <1>0, <1>1, <1>12 DEF UserPresses, UserResizes
<1>13. CASE UNCHANGED vars
  BY <1>0, <1>13 DEF vars
<1> QED
  BY <1>2, <1>3, <1>4, <1>5, <1>6, <1>7, <1>8, <1>9, <1>10, <1>11, <1>12, <1>13
  DEF Next, ProxySteps

-----------------------------------------------------------------------------
(* Injections *)

\* The numbers of the insertions in the three places are those of applied.
LEMMA Numbers ==
  ASSUME Types
  PROVE  /\ Len(applied) \in Nat /\ dictation \in Nat
         /\ \A n \in 1..Len(applied) : applied[n] \in 0..dictation
         /\ written \in Seq(Int) /\ hand \in Seq(Int) /\ pending \in Seq(Int)
         /\ \A i \in DOMAIN written :
                /\ written[i] # 0
                /\ written[i] < 0 => -written[i] \in 1..Len(applied)
         /\ \A i \in DOMAIN hand :
                /\ hand[i] # 0
                /\ hand[i] < 0 => -hand[i] \in 1..Len(applied)
         /\ \A i \in DOMAIN pending : pending[i] < 0 /\ -pending[i] \in 1..Len(applied)
<1>1. HistoryTypes /\ SegmentTypes
  BY DEF Types
<1>2. /\ \A x \in Insertion : x \in Int /\ x < 0 /\ -x \in 1..Len(applied)
      /\ \A x \in Press : x \in Int /\ x > 0
      /\ Len(applied) \in Nat /\ Key \subseteq Press
  BY <1>1, InsertionIs
<1>3. /\ pending \in Seq(Int)
      /\ \A i \in DOMAIN pending : pending[i] < 0 /\ -pending[i] \in 1..Len(applied)
  BY <1>1, <1>2 DEF SegmentTypes
<1>4. /\ hand \in Seq(Int)
      /\ \A i \in DOMAIN hand :
             hand[i] # 0 /\ (hand[i] < 0 => -hand[i] \in 1..Len(applied))
  BY <1>1, <1>2 DEF SegmentTypes
<1>5. /\ written \in Seq(Int)
      /\ \A i \in DOMAIN written :
             written[i] # 0 /\ (written[i] < 0 => -written[i] \in 1..Len(applied))
  BY <1>1, <1>2 DEF SegmentTypes
<1> QED BY <1>1, <1>2, <1>3, <1>4, <1>5 DEF HistoryTypes

\* A frame is a state, which may begin a dictation, or an injection.
FrameIsState ==
    /\ UNCHANGED <<pending, applied>>
    /\ dictation' \in {dictation, dictation + 1}
    /\ streaming' => dictation' = dictation + 1 \/ (streaming /\ dictation' = dictation)

FrameIsInjection ==
    /\ pending' = Append(pending, -(Len(applied) + 1))
    /\ applied' = Append(applied, IF streaming THEN dictation ELSE 0)
    /\ UNCHANGED <<streaming, dictation>>

\* A frame carries a state or something to insert.
LEMMA FrameIs ==
  ASSUME Types, Frame
  PROVE  FrameIsState \/ FrameIsInjection
<1>1. CASE Head(wire) \in Voice
  <2>1. Head(wire) # "inject"
    BY <1>1 DEF Voice
  <2>2. /\ UNCHANGED <<pending, applied>>
        /\ dictation' = IF streaming' /\ ~streaming THEN dictation + 1 ELSE dictation
    BY <2>1 DEF Frame, ApplyFrame
  <2> QED BY <2>2 DEF FrameIsState
<1>2. CASE Head(wire) = "inject"
  <2>1. Head(wire) \notin Voice
    BY <1>2 DEF Voice
  <2> QED BY <2>1 DEF Frame, ApplyFrame, FrameIsInjection
<1> QED BY <1>1, <1>2 DEF Frame

\* What an injection adds.
LEMMA InjectionAdds ==
  ASSUME Types, FrameIsInjection
  PROVE  /\ Len(applied') = Len(applied) + 1
         /\ \A n \in 1..Len(applied) : applied'[n] = applied[n]
         /\ applied'[Len(applied) + 1] = IF streaming THEN dictation ELSE 0
         /\ HistoryTypes' /\ Insertion \subseteq Insertion'
         /\ pending' \in Seq(Int) /\ pending' \in Seq(Insertion')
         /\ DOMAIN pending' = DOMAIN pending \cup {Len(pending) + 1}
         /\ \A i \in DOMAIN pending : pending'[i] = pending[i] /\ i < Len(pending) + 1
         /\ pending'[Len(pending) + 1] = -(Len(applied) + 1)
<1>1. /\ applied \in Seq(0..dictation) /\ Len(applied) \in Nat /\ dictation \in Nat
      /\ HistoryTypes /\ pending \in Seq(Insertion) /\ pending \in Seq(Int)
  BY Numbers DEF Types, HistoryTypes, SegmentTypes
<1> DEFINE x == IF streaming THEN dictation ELSE 0
           y == -(Len(applied) + 1)
<1>2. x \in 0..dictation /\ y \in Int
  BY <1>1
<1>3. applied' = Append(applied, x) /\ pending' = Append(pending, y)
      /\ dictation' = dictation
  BY DEF FrameIsInjection
<1>4. /\ Len(applied') = Len(applied) + 1
      /\ \A n \in 1..Len(applied) : applied'[n] = applied[n]
      /\ applied'[Len(applied) + 1] = x
      /\ applied' \in Seq(0..dictation)
  <2> HIDE DEF x
  <2> QED BY <1>1, <1>2, <1>3, Appended
<1>5. HistoryTypes'
  BY <1>1, <1>3, <1>4 DEF HistoryTypes
<1>6. /\ \A z : z \in Insertion <=> z \in Int /\ z < 0 /\ -z <= Len(applied)
      /\ \A z : z \in Insertion' <=> z \in Int /\ z < 0 /\ -z <= Len(applied')
  <2>1. \A z : z \in Insertion <=> z \in Int /\ z < 0 /\ -z <= Len(applied)
    BY <1>1, InsertionIs
  <2>2. ASSUME NEW z
        PROVE  z \in Insertion' <=> z \in Int /\ z < 0 /\ -z <= Len(applied')
    <3>1. ASSUME z \in Insertion' PROVE z \in Int /\ z < 0 /\ -z <= Len(applied')
      BY <1>1, <1>4, <3>1 DEF Insertion
    <3>2. ASSUME z \in Int, z < 0, -z <= Len(applied') PROVE z \in Insertion'
      <4>1. -z \in 1..Len(applied') /\ z = -(-z)
        BY <1>1, <1>4, <3>2
      <4> QED BY <4>1 DEF Insertion
    <3> QED BY <3>1, <3>2
  <2> QED BY <2>1, <2>2
<1>7. y \in Insertion' /\ Insertion \subseteq Insertion'
  <2>1. y < 0 /\ -y = Len(applied) + 1
    BY <1>1
  <2>2. y \in Insertion'
    <3> HIDE DEF y
    <3>1. -y <= Len(applied')
      BY <1>1, <1>4, <2>1
    <3> QED BY <1>2, <1>6, <2>1, <3>1
  <2>3. ASSUME NEW z \in Insertion PROVE z \in Insertion'
    BY <1>1, <1>4, <1>6
  <2> QED BY <2>2, <2>3
<1>8. pending \in Seq(Insertion')
  BY <1>1, <1>7, SeqWidens
<1> HIDE DEF y
<1>9. /\ pending' \in Seq(Insertion') /\ pending' \in Seq(Int)
      /\ DOMAIN pending' = DOMAIN pending \cup {Len(pending) + 1}
      /\ \A i \in DOMAIN pending : pending'[i] = pending[i] /\ i < Len(pending) + 1
      /\ pending'[Len(pending) + 1] = y
  <2>1. pending' \in Seq(Insertion')
    BY <1>3, <1>7, <1>8, Appended
  <2> QED BY <1>1, <1>2, <1>3, <2>1, Appended
<1> QED BY <1>4, <1>5, <1>7, <1>9 DEF y

\* Each deals with the first segment in hand.
LEMMA DealIs ==
  ASSUME Types, Shape, Deal
  PROVE  /\ hand \in Seq(Int) /\ hand # <<>> /\ hand' = Tail(hand)
         /\ UNCHANGED <<pending, applied, dictation, streaming, suppressed, agent>>
         /\ pc \in {"inject", "keys"}
         /\ pc' = pc \/ (pc = "inject" /\ pc' = "poll") \/ pc' = "master"
         /\ pc' \notin {"inject", "keys"} => hand' = <<>>
         /\ \/ /\ written' = Append(written, Head(hand))
               /\ Head(hand) \in Insertion \/ (Head(hand) \in Key /\ ~suppressed)
            \/ /\ UNCHANGED written
               /\ agent => Head(hand) > 0
<1>1. hand # <<>> /\ Head(hand) \in Press \cup Insertion
  <2>1. hand \in Seq(Press \cup Insertion)
    BY DEF Types, SegmentTypes
  <2>2. hand # <<>>
    BY DEF Deal, Write, Drop, Dispatch
  <2> QED BY <2>1, <2>2, HeadTail
<1>2. /\ \A x \in Press : x > 0 /\ x \in Int
      /\ Press \ Key = Trigger /\ Key \subseteq Press /\ Trigger \subseteq Press
      /\ \A x \in Insertion : x < 0 /\ x \in Int
  BY InsertionIs DEF Types
<1>3. hand' = Tail(hand) /\ hand \in Seq(Int)
  BY Numbers DEF Deal
<1>4. /\ UNCHANGED <<pending, applied, dictation, streaming, suppressed, agent>>
      /\ pc \in {"inject", "keys"}
      /\ pc' = IF hand' # <<>> THEN pc ELSE IF pc = "inject" THEN "poll" ELSE "master"
  BY DEF Deal, InsideLoop, OutsideLoop, roundVars, snapshot, Goto
<1>5. \/ /\ written' = Append(written, Head(hand))
         /\ Head(hand) \in Insertion \/ (Head(hand) \in Key /\ ~suppressed)
      \/ /\ UNCHANGED written
         /\ agent => Head(hand) > 0
  <2>1. CASE Write
    BY <1>1, <1>2, <2>1 DEF Write
  <2>2. CASE Drop \/ Dispatch
    BY <1>1, <1>2, <2>2 DEF Drop, Dispatch
  <2> QED BY <2>1, <2>2 DEF Deal
<1> QED BY <1>1, <1>3, <1>4, <1>5

\* Every step keeps the types of the history and its segments.
LEMMA NextSegmentTypes ==
  ASSUME Types, Shape, [Next]_vars
  PROVE  HistoryTypes' /\ SegmentTypes'
<1>1. HistoryTypes /\ SegmentTypes
  BY DEF Types
<1>2. UNCHANGED applied => Insertion' = Insertion
  BY DEF Insertion
<1>3. CASE Still
  BY <1>1, <1>2, <1>3 DEF Still, HistoryTypes, SegmentTypes
<1>4. CASE Frame
  <2>0. UNCHANGED <<hand, written>>
    BY <1>4 DEF Frame
  <2>1. CASE FrameIsState
    <3>1. \A n \in 0..dictation : n \in 0..dictation'
      BY <1>1, <2>1 DEF FrameIsState, HistoryTypes
    <3>2. applied \in Seq(0..dictation') /\ dictation' \in Nat
      <4>1. dictation' \in Nat
        BY <1>1, <2>1 DEF FrameIsState, HistoryTypes
      <4>2. 0..dictation \subseteq 0..dictation'
        BY <3>1, <1>1, <4>1 DEF HistoryTypes
      <4> QED BY <1>1, <4>1, <4>2, SeqWidens DEF HistoryTypes
    <3> QED BY <1>1, <1>2, <2>0, <2>1, <3>2 DEF FrameIsState, HistoryTypes, SegmentTypes
  <2>2. CASE FrameIsInjection
    <3>1. Insertion \subseteq Insertion' /\ HistoryTypes' /\ pending' \in Seq(Insertion')
      BY <2>2, InjectionAdds
    <3>2. hand' \in Seq(Press \cup Insertion')
      <4>1. Press \cup Insertion \subseteq Press \cup Insertion'
        BY <3>1
      <4> QED BY <1>1, <2>0, <4>1, SeqWidens DEF SegmentTypes
    <3>3. written' \in Seq(Key \cup Insertion')
      <4>1. Key \cup Insertion \subseteq Key \cup Insertion'
        BY <3>1
      <4> QED BY <1>1, <2>0, <4>1, SeqWidens DEF SegmentTypes
    <3> QED BY <3>1, <3>2, <3>3 DEF SegmentTypes
  <2> QED BY <1>4, <2>1, <2>2, FrameIs
<1>5. CASE Take \/ Poll
  <2>1. UNCHANGED <<applied, dictation, written>>
    BY <1>5 DEF Take, Poll, InsideLoop
  <2>2. pending' \in Seq(Insertion)
    <3>1. UNCHANGED pending \/ pending' = <<>>
      BY <1>5 DEF Take, Poll
    <3>2. CASE UNCHANGED pending
      BY <1>1, <3>2 DEF SegmentTypes
    <3>3. CASE pending' = <<>>
      BY <3>3
    <3> QED BY <3>1, <3>2, <3>3
  <2>3. hand' \in Seq(Press \cup Insertion)
    <3>1. CASE hand' = pending
      <4>1. pending \in Seq(Insertion) /\ Insertion \subseteq Press \cup Insertion
        BY <1>1 DEF SegmentTypes
      <4> QED BY <3>1, <4>1, SeqWidens
    <3>2. CASE hand' = typed
      <4>1. typed \in Seq(Press) /\ Press \subseteq Press \cup Insertion
        BY DEF Types, PressTypes
      <4> QED BY <3>2, <4>1, SeqWidens
    <3>3. CASE UNCHANGED hand
      BY <1>1, <3>3 DEF SegmentTypes
    <3> QED BY <1>5, <3>1, <3>2, <3>3 DEF Take, Poll
  <2> QED BY <1>1, <1>2, <2>1, <2>2, <2>3 DEF HistoryTypes, SegmentTypes
<1>6. CASE Deal
  <2>1. /\ hand' = Tail(hand) /\ hand # <<>>
        /\ UNCHANGED <<pending, applied, dictation>>
        /\ \/ /\ written' = Append(written, Head(hand))
              /\ Head(hand) \in Key \cup Insertion
           \/ UNCHANGED written
    BY <1>6, DealIs
  <2>2. hand' \in Seq(Press \cup Insertion)
    BY <1>1, <2>1, HeadTail DEF SegmentTypes
  <2>3. written' \in Seq(Key \cup Insertion)
    <3>1. written \in Seq(Key \cup Insertion)
      BY <1>1 DEF SegmentTypes
    <3>2. CASE UNCHANGED written
      BY <3>1, <3>2
    <3>3. ASSUME NEW x \in Key \cup Insertion, written' = Append(written, x)
          PROVE  written' \in Seq(Key \cup Insertion)
      BY <3>1, <3>3, Appended
    <3> QED BY <2>1, <3>2, <3>3
  <2> QED BY <1>1, <1>2, <2>1, <2>2, <2>3 DEF HistoryTypes, SegmentTypes
<1> QED BY <1>3, <1>4, <1>5, <1>6, StepKinds

\* The types of all variables.
LEMMA NextTypes == Types /\ Shape /\ [Next]_vars => Types'
<1> SUFFICES ASSUME Types, Shape, [Next]_vars PROVE Types'
  OBVIOUS
<1> QED
  BY NextFlagTypes, NextLinkTypes, NextSegmentTypes, NextPressTypes, NextNumberTypes,
     NextPlaceTypes
  DEF Types

\* Every step keeps what is in the hand of the loop and what comes before the fork.
LEMMA NextShape == Types /\ Shape /\ [Next]_vars => Shape'
<1> SUFFICES ASSUME Types, Shape, [Next]_vars PROVE Shape'
  OBVIOUS
<1> USE DEF At, Goto
<1>0. HandFits /\ BeforeFork /\ (UNCHANGED applied => Insertion' = Insertion)
  BY DEF Shape, Insertion
<1>1. HandFits'
  <2>1. CASE Still
    BY <1>0, <2>1 DEF Still, HandFits
  <2>2. CASE Frame
    <3>1. Insertion \subseteq Insertion'
      BY <1>0, <2>2, FrameIs, InjectionAdds DEF FrameIsState
    <3>2. UNCHANGED <<hand, pc>>
      BY <2>2 DEF Frame
    <3> QED BY <1>0, <3>1, <3>2 DEF HandFits
  <2>3. CASE Take
    <3>1. /\ hand' = pending /\ pending \in Seq(Insertion)
          /\ pc' = IF pending = <<>> THEN "poll" ELSE "inject"
          /\ UNCHANGED applied
      BY <2>3 DEF Take, InsideLoop, Types, SegmentTypes
    <3> QED BY <1>0, <3>1 DEF HandFits
  <2>4. CASE Poll
    <3>1. /\ hand = <<>>
          /\ \/ pc' = "keys" /\ hand' = typed
             \/ pc' = "master" /\ UNCHANGED hand
          /\ typed \in Seq(Press)
      BY <1>0, <2>4 DEF Poll, HandFits, Types, PressTypes
    <3> QED BY <3>1 DEF HandFits
  <2>5. CASE Deal
    <3>1. /\ hand # <<>> /\ hand' = Tail(hand) /\ hand \in Seq(Int)
          /\ UNCHANGED applied
          /\ pc \in {"inject", "keys"}
          /\ pc' = pc \/ pc' \notin {"inject", "keys"}
          /\ pc' \notin {"inject", "keys"} => hand' = <<>>
      BY <2>5, DealIs
    <3>2. \A i \in DOMAIN hand' : i + 1 \in DOMAIN hand /\ hand'[i] = hand[i + 1]
      BY <3>1, HeadTail
    <3> QED BY <1>0, <3>1, <3>2 DEF HandFits
  <2> QED BY <2>1, <2>2, <2>3, <2>4, <2>5, StepKinds
<1>2. BeforeFork'
  <2> SUFFICES ASSUME pc' = "start"
               PROVE  ~agent' /\ client' = "none" /\ applied' = <<>>
    BY DEF BeforeFork
  <2>1. pc = "start"
    <3>1. CASE Still
      BY <3>1 DEF Still
    <3>2. CASE Frame
      BY <3>2 DEF Frame
    <3>3. CASE Take \/ Poll
      BY <3>3 DEF Take, Poll
    <3>4. CASE Deal
      BY <3>4, DealIs
    <3> QED BY <3>1, <3>2, <3>3, <3>4, StepKinds
  <2>2. ~agent /\ client = "none" /\ applied = <<>>
    BY <1>0, <2>1 DEF BeforeFork
  <2> USE DEF OutsideLoop, OutsideAgent, daemonVars, sharedVars, loopVars, agentVars,
              userVars, sizeVars
  <2>3. ~ClientSteps
    BY <2>2, ClientStepsAre
  <2>4. ~ProxySteps
    <3>1. ~Fork /\ ~Begin /\ ~Resized /\ ~SetSize /\ ~Take /\ ~Poll /\ ~ReadAgent
      BY <2>1, pc' = "start" DEF Fork, Begin, Resized, SetSize, Take, Poll, ReadAgent
    <3>2. ~Deal
      BY <2>1, DealIs
    <3> QED BY <3>1, <3>2 DEF ProxySteps
  <2>5. CASE DaemonAnswers \/ DaemonPushes \/ DaemonDies \/ DaemonStarts
    BY <2>2, <2>5 DEF DaemonAnswers, DaemonPushes, DaemonDies, DaemonStarts
  <2>6. CASE \E p \in Trigger : Carry(p)
    BY <2>2, <2>6 DEF Carry
  <2>7. CASE AgentReads \/ AgentWrites \/ AgentExits
    BY <2>2, <2>7 DEF AgentReads, AgentWrites, AgentExits
  <2>8. CASE UserPresses \/ UserResizes
    BY <2>2, <2>8 DEF UserPresses, UserResizes
  <2>9. CASE UNCHANGED vars
    BY <2>2, <2>9 DEF vars
  <2> QED BY <2>3, <2>4, <2>5, <2>6, <2>7, <2>8, <2>9 DEF Next
<1> QED BY <1>1, <1>2 DEF Shape

-----------------------------------------------------------------------------
(* The order *)

\* What is left of a sequence in order is in order.
LEMMA TailInOrder ==
  ASSUME NEW s \in Seq(Int), s # <<>>, NEW t \in Seq(Int)
  PROVE  /\ Falling(s) => Falling(Tail(s))
         /\ Precedes(s, t) => Precedes(Tail(s), t)
         /\ Precedes(t, s) => Precedes(t, Tail(s))
<1>1. /\ Tail(s) \in Seq(Int)
      /\ \A i \in DOMAIN Tail(s) :
             i \in Int /\ i + 1 \in DOMAIN s /\ Tail(s)[i] = s[i + 1]
  BY HeadTail
<1>2. Falling(s) => Falling(Tail(s))
  BY <1>1 DEF Falling
<1>3. Precedes(s, t) => Precedes(Tail(s), t)
  BY <1>1 DEF Precedes
<1>4. Precedes(t, s) => Precedes(t, Tail(s))
  BY <1>1 DEF Precedes
<1> QED BY <1>2, <1>3, <1>4

\* What is appended in order leaves a sequence in order.
LEMMA AppendInOrder ==
  ASSUME NEW s \in Seq(Int), NEW t \in Seq(Int), NEW x \in Int
  PROVE  /\ Falling(s) /\ Precedes(s, <<x>>) => Falling(Append(s, x))
         /\ Precedes(s, t) /\ Precedes(<<x>>, t) => Precedes(Append(s, x), t)
         /\ Precedes(t, s) /\ Precedes(t, <<x>>) => Precedes(t, Append(s, x))
<1>1. /\ Append(s, x) \in Seq(Int) /\ Len(s) \in Nat
      /\ DOMAIN Append(s, x) = DOMAIN s \cup {Len(s) + 1} /\ Len(s) + 1 \notin DOMAIN s
      /\ \A i \in DOMAIN s : Append(s, x)[i] = s[i] /\ i < Len(s) + 1
      /\ Append(s, x)[Len(s) + 1] = x
  BY Appended
<1>2. DOMAIN <<x>> = {1} /\ <<x>>[1] = x
  OBVIOUS
<1>3. Falling(s) /\ Precedes(s, <<x>>) => Falling(Append(s, x))
  <2> SUFFICES ASSUME Falling(s), Precedes(s, <<x>>),
                      NEW i \in DOMAIN Append(s, x), NEW j \in DOMAIN Append(s, x),
                      i < j, Append(s, x)[i] < 0, Append(s, x)[j] < 0
               PROVE  Append(s, x)[i] > Append(s, x)[j]
    BY DEF Falling
  <2>1. i \in DOMAIN s
    BY <1>1
  <2>2. CASE j \in DOMAIN s
    BY <1>1, <2>1, <2>2 DEF Falling
  <2>3. CASE j = Len(s) + 1
    BY <1>1, <1>2, <2>1, <2>3 DEF Precedes
  <2> QED BY <1>1, <2>2, <2>3
<1>4. Precedes(s, t) /\ Precedes(<<x>>, t) => Precedes(Append(s, x), t)
  BY <1>1, <1>2 DEF Precedes
<1>5. Precedes(t, s) /\ Precedes(t, <<x>>) => Precedes(t, Append(s, x))
  BY <1>1, <1>2 DEF Precedes
<1> QED BY <1>3, <1>4, <1>5

\* What is empty, or holds presses only, is in order with everything.
LEMMA NothingInOrder ==
  ASSUME NEW s, \A i \in DOMAIN s : ~ (s[i] < 0), NEW t
  PROVE  Falling(s) /\ Precedes(s, t) /\ Precedes(t, s)
BY DEF Falling, Precedes

\* Every step keeps the places in order.
LEMMA NextPlacesInOrder == IInv /\ [Next]_vars => PlacesInOrder'
<1> SUFFICES ASSUME IInv, [Next]_vars PROVE PlacesInOrder'
  OBVIOUS
<1>1. Types /\ Shape /\ PlacesInOrder
  BY DEF IInv
<1>2. written \in Seq(Int) /\ hand \in Seq(Int) /\ pending \in Seq(Int)
  BY <1>1, Numbers
<1>3. CASE Still
  BY <1>1, <1>3 DEF Still, PlacesInOrder, Falling, Precedes
<1>4. CASE Frame
  <2>0. UNCHANGED <<written, hand>>
    BY <1>4 DEF Frame
  <2>1. CASE FrameIsState
    BY <1>1, <2>0, <2>1 DEF FrameIsState, PlacesInOrder, Falling, Precedes
  <2>2. CASE FrameIsInjection
    <3> DEFINE y == -(Len(applied) + 1)
    <3>1. y \in Int /\ pending' = Append(pending, y) /\ y = -(Len(applied) + 1)
      BY <1>1, <2>2, Numbers DEF FrameIsInjection
    <3>2. /\ \A i \in DOMAIN written : written[i] < 0 => written[i] > y
          /\ \A i \in DOMAIN hand : hand[i] < 0 => hand[i] > y
          /\ \A i \in DOMAIN pending : pending[i] > y
      BY <1>1, <1>2, Numbers
    <3> HIDE DEF y
    <3>3. DOMAIN <<y>> = {1} /\ <<y>>[1] = y
      OBVIOUS
    <3>4. Precedes(written, <<y>>) /\ Precedes(hand, <<y>>) /\ Precedes(pending, <<y>>)
      BY <3>2, <3>3 DEF Precedes
    <3>5. /\ Falling(Append(pending, y)) /\ Precedes(written, Append(pending, y))
          /\ Precedes(hand, Append(pending, y))
      BY <1>1, <1>2, <3>1, <3>4, AppendInOrder DEF PlacesInOrder
    <3> QED BY <1>1, <2>0, <3>1, <3>5 DEF PlacesInOrder
  <2> QED BY <1>1, <1>4, <2>1, <2>2, FrameIs
<1>5. CASE Take
  <2>1. /\ hand' = pending /\ pending' = <<>>
        /\ UNCHANGED written
    BY <1>5 DEF Take
  <2>2. Falling(<<>>) /\ \A t : Precedes(t, <<>>)
    BY NothingInOrder
  <2>3. Falling(pending) /\ Precedes(written, pending) /\ Falling(written)
    BY <1>1 DEF PlacesInOrder
  <2> QED BY <2>1, <2>2, <2>3 DEF PlacesInOrder
<1>6. CASE Poll
  <2>1. UNCHANGED <<written, pending>> /\ hand' \in {hand, typed}
    BY <1>6 DEF Poll, InsideLoop
  <2>2. \A i \in DOMAIN typed : ~ (typed[i] < 0)
    <3>1. typed \in Seq(Press) /\ \A p \in Press : p \in Nat
      BY <1>1, InsertionIs DEF Types, PressTypes
    <3> QED BY <3>1
  <2>3. Falling(typed) /\ Precedes(written, typed) /\ Precedes(typed, pending)
    BY <2>2, NothingInOrder
  <2> QED BY <1>1, <2>1, <2>3 DEF PlacesInOrder
<1>7. CASE Deal
  <2>1. /\ hand # <<>> /\ hand' = Tail(hand) /\ UNCHANGED pending
        /\ UNCHANGED written \/ written' = Append(written, Head(hand))
    BY <1>1, <1>7, DealIs
  <2>2. /\ Falling(Tail(hand)) /\ Precedes(Tail(hand), pending)
        /\ Precedes(written, Tail(hand))
    BY <1>1, <1>2, <2>1, TailInOrder DEF PlacesInOrder
  <2>3. CASE UNCHANGED written
    BY <1>1, <2>1, <2>2, <2>3 DEF PlacesInOrder
  <2>4. CASE written' = Append(written, Head(hand))
    <3> DEFINE x == Head(hand)
    <3>1. /\ x = hand[1] /\ 1 \in DOMAIN hand /\ x \in Int
          /\ \A i \in DOMAIN Tail(hand) : i + 1 \in DOMAIN hand /\ Tail(hand)[i] = hand[i + 1]
      BY <1>2, <2>1, HeadTail
    <3>2. DOMAIN <<x>> = {1} /\ <<x>>[1] = x
      OBVIOUS
    <3>3. Precedes(written, <<x>>) /\ Precedes(<<x>>, pending)
      BY <1>1, <3>1, <3>2 DEF PlacesInOrder, Precedes
    <3>4. Precedes(<<x>>, Tail(hand))
      <4>1. \A i \in DOMAIN Tail(hand) : 1 < i + 1
        BY <1>2, <2>1, HeadTail
      <4> QED BY <1>1, <3>1, <3>2, <4>1 DEF PlacesInOrder, Precedes, Falling
    <3> HIDE DEF x
    <3>5. Tail(hand) \in Seq(Int)
      BY <1>2, <2>1, HeadTail
    <3>6. /\ Falling(Append(written, x)) /\ Precedes(Append(written, x), pending)
          /\ Precedes(Append(written, x), Tail(hand))
      BY <1>1, <1>2, <2>2, <3>1, <3>3, <3>4, <3>5, AppendInOrder DEF PlacesInOrder
    <3> QED BY <1>1, <2>1, <2>2, <2>4, <3>6 DEF PlacesInOrder, x
  <2> QED BY <2>1, <2>3, <2>4
<1> QED BY <1>1, <1>3, <1>4, <1>5, <1>6, <1>7, StepKinds

\* Every step keeps what was pressed or inserted from being lost.
LEMMA NextNoneLost == IInv /\ [Next]_vars => NoneLost'
<1> SUFFICES ASSUME IInv, [Next]_vars, agent', NEW n \in 1..Len(applied')
             PROVE  Holds(written', n) \/ Holds(hand', n) \/ Holds(pending', n)
  BY DEF NoneLost, Holds
<1>1. Types /\ Shape /\ NoneLost
  BY DEF IInv
<1>2. /\ written \in Seq(Int) /\ hand \in Seq(Int) /\ pending \in Seq(Int)
      /\ Len(applied) \in Nat
  BY <1>1, Numbers
<1>3. ASSUME agent, n \in 1..Len(applied)
      PROVE  Holds(written, n) \/ Holds(hand, n) \/ Holds(pending, n)
  BY <1>1, <1>3 DEF NoneLost
<1>4. CASE Still
  <2>1. pc = "start" => Len(applied) = 0
    BY <1>1 DEF Shape, BeforeFork
  <2>2. agent
    BY <1>2, <1>4, <2>1 DEF Still
  <2> QED BY <1>3, <1>4, <2>2 DEF Still
<1>5. CASE Frame
  <2>0. UNCHANGED <<written, hand, agent>>
    BY <1>5 DEF Frame
  <2>1. CASE FrameIsState
    BY <1>3, <2>0, <2>1 DEF FrameIsState
  <2>2. CASE FrameIsInjection
    <3>1. /\ Len(applied') = Len(applied) + 1
          /\ DOMAIN pending' = DOMAIN pending \cup {Len(pending) + 1}
          /\ \A i \in DOMAIN pending : pending'[i] = pending[i]
          /\ pending'[Len(pending) + 1] = -(Len(applied) + 1)
      BY <1>1, <2>2, InjectionAdds
    <3>2. CASE n = Len(applied) + 1
      BY <3>1, <3>2 DEF Holds
    <3>3. CASE n \in 1..Len(applied)
      BY <1>3, <2>0, <3>1, <3>3 DEF Holds
    <3> QED BY <1>2, <3>1, <3>2, <3>3
  <2> QED BY <1>1, <1>5, <2>1, <2>2, FrameIs
<1>6. CASE Take
  <2>1. hand' = pending /\ UNCHANGED <<written, agent, applied>> /\ hand = <<>>
    BY <1>1, <1>6 DEF Take, InsideLoop, agentVars, Shape, HandFits
  <2> QED BY <1>3, <2>1 DEF Holds
<1>7. CASE Poll
  <2>1. UNCHANGED <<written, agent, applied, pending>> /\ hand = <<>>
    BY <1>1, <1>7 DEF Poll, InsideLoop, agentVars, Shape, HandFits, At
  <2> QED BY <1>3, <2>1 DEF Holds
<1>8. CASE Deal
  <2>1. /\ hand # <<>> /\ hand' = Tail(hand) /\ UNCHANGED <<pending, applied, agent>>
        /\ \/ written' = Append(written, Head(hand))
           \/ UNCHANGED written /\ Head(hand) > 0
    BY <1>1, <1>8, DealIs
  <2>2. /\ Head(hand) = hand[1] /\ Head(hand) \in Int
        /\ \A i \in DOMAIN hand : i # 1 => i - 1 \in DOMAIN Tail(hand) /\ Tail(hand)[i - 1] = hand[i]
    BY <1>2, <2>1, HeadTail
  <2>3. /\ DOMAIN Append(written, Head(hand)) = DOMAIN written \cup {Len(written) + 1}
        /\ \A i \in DOMAIN written : Append(written, Head(hand))[i] = written[i]
        /\ Append(written, Head(hand))[Len(written) + 1] = Head(hand)
    BY <1>2, <2>2, Appended
  <2>4. CASE Holds(written, n)
    BY <2>1, <2>3, <2>4 DEF Holds
  <2>5. CASE Holds(pending, n)
    BY <2>1, <2>5 DEF Holds
  <2>6. CASE Holds(hand, n)
    <3>1. PICK i \in DOMAIN hand : hand[i] = -n
      BY <2>6 DEF Holds
    <3>2. CASE i = 1
      <4>1. ~ (Head(hand) > 0)
        BY <2>2, <3>1, <3>2, <2>1, <1>2
      <4>2. written' = Append(written, Head(hand))
        BY <2>1, <4>1
      <4> QED BY <2>2, <2>3, <3>1, <3>2, <4>2 DEF Holds
    <3>3. CASE i # 1
      BY <2>1, <2>2, <3>1, <3>3 DEF Holds
    <3> QED BY <3>2, <3>3
  <2> QED BY <1>3, <2>1, <2>4, <2>5, <2>6
<1> QED BY <1>1, <1>4, <1>5, <1>6, <1>7, <1>8, StepKinds

-----------------------------------------------------------------------------
(* Keys and dictations *)

\* An injection that was sealed stays sealed: whatever a frame brings belongs to a
\* later dictation, or to none.
LEMMA FrameSeals ==
  ASSUME Types, Frame, NEW m \in 1..Len(applied)
  PROVE  /\ m \in 1..Len(applied') /\ applied'[m] = applied[m]
         /\ Sealed(m) => Sealed(m)'
<1>1. /\ Len(applied) \in Nat /\ dictation \in Nat
      /\ \A n \in 1..Len(applied) : applied[n] \in 0..dictation
      /\ \A i \in DOMAIN pending : -pending[i] \in 1..Len(applied)
      /\ pending \in Seq(Int)
  BY Numbers
<1>2. CASE FrameIsState
  BY <1>1, <1>2 DEF FrameIsState, Sealed, EndedBefore
<1>3. CASE FrameIsInjection
  <2>1. /\ Len(applied') = Len(applied) + 1
        /\ \A n \in 1..Len(applied) : applied'[n] = applied[n]
        /\ applied'[Len(applied) + 1] = IF streaming THEN dictation ELSE 0
        /\ DOMAIN pending' = DOMAIN pending \cup {Len(pending) + 1}
        /\ \A i \in DOMAIN pending : pending'[i] = pending[i]
        /\ pending'[Len(pending) + 1] = -(Len(applied) + 1)
    BY <1>3, InjectionAdds
  <2>2. UNCHANGED <<streaming, dictation>>
    BY <1>3 DEF FrameIsInjection
  <2>3. ASSUME Sealed(m), NEW i \in DOMAIN pending', applied'[-pending'[i]] # 0
        PROVE  applied'[m] < applied'[-pending'[i]]
    <3>1. CASE i \in DOMAIN pending
      <4>1. pending'[i] = pending[i] /\ -pending[i] \in 1..Len(applied)
        BY <1>1, <2>1, <3>1
      <4>2. applied'[-pending'[i]] = applied[-pending[i]] /\ pending[i] < 0
        BY <1>1, <2>1, <4>1
      <4>3. applied[m] < applied[-pending[i]]
        BY <2>3, <3>1, <4>2 DEF Sealed, EndedBefore
      <4> QED BY <2>1, <4>2, <4>3
    <3>2. CASE i = Len(pending) + 1
      <4>1. -pending'[i] = Len(applied) + 1
        BY <1>1, <2>1, <3>2
      <4>2. streaming /\ applied'[-pending'[i]] = dictation
        BY <2>1, <2>3, <4>1
      <4> QED BY <2>1, <2>3, <4>2 DEF Sealed
    <3> QED BY <2>1, <3>1, <3>2
  <2> QED BY <1>1, <2>1, <2>2, <2>3 DEF Sealed, EndedBefore
<1> QED BY <1>2, <1>3, FrameIs

\* Every step keeps what a round has written sealed when it is to be.
LEMMA NextRoundSealed == IInv /\ [Next]_vars => RoundSealed'
<1> SUFFICES ASSUME IInv, [Next]_vars, pc' \in {"inject", "poll", "keys"}, ~suppressed'
             PROVE  /\ \A i \in DOMAIN written' : written'[i] < 0 => Sealed(-written[i])'
                    /\ \A i \in DOMAIN hand' : hand'[i] < 0 => Sealed(-hand[i])'
  BY DEF RoundSealed
<1>1. Types /\ Shape /\ RoundSealed
  BY DEF IInv
<1>2. /\ written \in Seq(Int) /\ hand \in Seq(Int) /\ pending \in Seq(Int)
      /\ \A i \in DOMAIN written : written[i] < 0 => -written[i] \in 1..Len(applied)
      /\ \A i \in DOMAIN hand : hand[i] < 0 => -hand[i] \in 1..Len(applied)
  BY <1>1, Numbers
<1>3. ASSUME pc \in {"inject", "poll", "keys"}, ~suppressed
      PROVE  /\ \A i \in DOMAIN written : written[i] < 0 => Sealed(-written[i])
             /\ \A i \in DOMAIN hand : hand[i] < 0 => Sealed(-hand[i])
  BY <1>1, <1>3 DEF RoundSealed
<1>4. ASSUME NEW m, Sealed(m), UNCHANGED <<applied, pending, streaming, dictation>>
      PROVE  Sealed(m)'
  BY <1>4 DEF Sealed, EndedBefore
<1>5. CASE Still
  <2>1. UNCHANGED <<pc, suppressed>>
    <3>1. CASE pc \notin {"inject", "keys"} /\ pc' \notin {"start", "inject", "keys", "poll"}
      BY <3>1
    <3> QED BY <1>5, <3>1 DEF Still
  <2>2. UNCHANGED <<written, hand, pending, applied, dictation, streaming>>
    BY <1>5 DEF Still
  <2>3. /\ \A i \in DOMAIN written : written[i] < 0 => Sealed(-written[i])
        /\ \A i \in DOMAIN hand : hand[i] < 0 => Sealed(-hand[i])
    BY <1>3, <2>1
  <2> QED BY <2>2, <2>3 DEF Sealed, EndedBefore
<1>6. CASE Frame
  <2>1. UNCHANGED <<written, hand, pc, suppressed>>
    BY <1>6 DEF Frame
  <2>2. ASSUME NEW i \in DOMAIN written, written[i] < 0 PROVE Sealed(-written[i])'
    <3>1. Sealed(-written[i])
      BY <1>3, <2>1, <2>2
    <3>2. -written[i] \in 1..Len(applied) /\ -written'[i] = -written[i]
      BY <1>2, <2>1, <2>2
    <3>3. PICK m \in 1..Len(applied) : m = -written[i]
      BY <3>2
    <3>4. Sealed(m)'
      BY <1>1, <1>6, <3>1, <3>3, FrameSeals
    <3> QED BY <2>1, <3>3, <3>4 DEF Sealed, EndedBefore
  <2>3. ASSUME NEW i \in DOMAIN hand, hand[i] < 0 PROVE Sealed(-hand[i])'
    <3>1. Sealed(-hand[i])
      BY <1>3, <2>1, <2>3
    <3>2. -hand[i] \in 1..Len(applied)
      BY <1>2, <2>1, <2>3
    <3>3. PICK m \in 1..Len(applied) : m = -hand[i]
      BY <3>2
    <3>4. Sealed(m)'
      BY <1>1, <1>6, <3>1, <3>3, FrameSeals
    <3> QED BY <2>1, <3>3, <3>4 DEF Sealed, EndedBefore
  <2> QED BY <2>1, <2>2, <2>3
<1>7. CASE Take
  <2>1. pending' = <<>> /\ suppressed' = streaming /\ streaming' = streaming
    BY <1>7 DEF Take, InsideLoop
  <2>2. ~streaming
    BY <2>1, Zenon
  <2> QED BY <2>1, <2>2 DEF Sealed, EndedBefore
<1>8. CASE Poll
  <2>1. /\ UNCHANGED <<written, pending, applied, streaming, dictation, suppressed>>
        /\ pc = "poll" /\ hand' \in {hand, typed}
    BY <1>8 DEF Poll, InsideLoop, snapshot, At
  <2>2. \A i \in DOMAIN typed : ~ (typed[i] < 0)
    <3>1. typed \in Seq(Press) /\ \A p \in Press : p \in Nat
      BY <1>1, InsertionIs DEF Types, PressTypes
    <3> QED BY <3>1
  <2>3. /\ \A i \in DOMAIN written : written[i] < 0 => Sealed(-written[i])
        /\ \A i \in DOMAIN hand : hand[i] < 0 => Sealed(-hand[i])
    BY <1>3, <2>1
  <2> QED BY <2>1, <2>2, <2>3 DEF Sealed, EndedBefore
<1>9. CASE Deal
  <2>1. /\ hand # <<>> /\ hand' = Tail(hand)
        /\ UNCHANGED <<pending, applied, dictation, streaming, suppressed>>
        /\ pc \in {"inject", "keys"}
        /\ UNCHANGED written \/ written' = Append(written, Head(hand))
    BY <1>1, <1>9, DealIs
  <2>2. /\ \A i \in DOMAIN written : written[i] < 0 => Sealed(-written[i])
        /\ \A i \in DOMAIN hand : hand[i] < 0 => Sealed(-hand[i])
    BY <1>3, <2>1
  <2>3. /\ Head(hand) = hand[1] /\ 1 \in DOMAIN hand /\ Head(hand) \in Int
        /\ \A i \in DOMAIN Tail(hand) : i + 1 \in DOMAIN hand /\ Tail(hand)[i] = hand[i + 1]
    BY <1>2, <2>1, HeadTail
  <2>4. /\ DOMAIN Append(written, Head(hand)) = DOMAIN written \cup {Len(written) + 1}
        /\ \A i \in DOMAIN written : Append(written, Head(hand))[i] = written[i]
        /\ Append(written, Head(hand))[Len(written) + 1] = Head(hand)
    BY <1>2, <2>3, Appended
  <2>5. \A i \in DOMAIN written' : written'[i] < 0 => Sealed(-written'[i])
    BY <2>1, <2>2, <2>3, <2>4
  <2>6. \A i \in DOMAIN hand' : hand'[i] < 0 => Sealed(-hand'[i])
    BY <2>1, <2>2, <2>3
  <2> QED BY <2>1, <2>5, <2>6 DEF Sealed, EndedBefore
<1> QED BY <1>1, <1>5, <1>6, <1>7, <1>8, <1>9, StepKinds

\* What KeySeals says of an insertion i and a key after it, in terms of the places.
KeySealsAt(i, j) ==
    /\ Sealed(-written[i]) /\ EndedBefore(-written[i], hand)
    /\ \A k \in DOMAIN written :
           j < k /\ written[k] < 0 /\ applied[-written[k]] # 0
               => applied[-written[i]] < applied[-written[k]]

\* Every step keeps sealed what was written before a key.
LEMMA NextKeySeals == IInv /\ [Next]_vars => KeySeals'
<1> SUFFICES ASSUME IInv, [Next]_vars,
                    NEW i \in DOMAIN written', NEW j \in DOMAIN written',
                    i < j, written'[i] < 0, written'[j] > 0
             PROVE  KeySealsAt(i, j)'
  BY DEF KeySeals, KeySealsAt
<1>1. Types /\ Shape /\ RoundSealed
  BY DEF IInv
<1>2. /\ written \in Seq(Int) /\ hand \in Seq(Int) /\ pending \in Seq(Int)
      /\ \A k \in DOMAIN written : written[k] < 0 => -written[k] \in 1..Len(applied)
      /\ \A k \in DOMAIN hand : hand[k] < 0 => -hand[k] \in 1..Len(applied)
  BY <1>1, Numbers
<1>3. ASSUME i \in DOMAIN written, j \in DOMAIN written, written[i] < 0, written[j] > 0
      PROVE  KeySealsAt(i, j)
  BY <1>3 DEF IInv, KeySeals, KeySealsAt
<1>4. CASE Still
  BY <1>3, <1>4 DEF Still, KeySealsAt, Sealed, EndedBefore
<1>5. CASE Frame
  <2>1. UNCHANGED <<written, hand>>
    BY <1>5 DEF Frame
  <2>2. KeySealsAt(i, j)
    BY <1>3, <2>1
  <2>3. PICK m \in 1..Len(applied) : m = -written[i]
    BY <1>2, <2>1
  <2>4. Sealed(m)' /\ applied'[m] = applied[m]
    BY <1>1, <1>5, <2>2, <2>3, FrameSeals DEF KeySealsAt
  <2>5. \A n \in 1..Len(applied) : applied'[n] = applied[n]
    BY <1>1, <1>5, FrameSeals
  <2>6. Sealed(-written[i])'
    BY <2>1, <2>3, <2>4 DEF Sealed, EndedBefore
  <2>7. EndedBefore(-written[i], hand)'
    BY <1>2, <2>1, <2>2, <2>3, <2>5 DEF KeySealsAt, EndedBefore
  <2>8. ASSUME NEW k \in DOMAIN written', j < k, written'[k] < 0,
               applied'[-written'[k]] # 0
        PROVE  applied'[-written'[i]] < applied'[-written'[k]]
    BY <1>2, <2>1, <2>2, <2>3, <2>5, <2>8 DEF KeySealsAt
  <2> QED BY <2>6, <2>7, <2>8 DEF KeySealsAt
<1>6. CASE Take
  <2>1. /\ hand' = pending /\ pending' = <<>>
        /\ UNCHANGED <<written, applied, dictation, streaming>>
    BY <1>6 DEF Take, InsideLoop
  <2>2. KeySealsAt(i, j)
    BY <1>3, <2>1
  <2> QED BY <2>1, <2>2 DEF KeySealsAt, Sealed, EndedBefore
<1>7. CASE Poll
  <2>1. /\ UNCHANGED <<written, pending, applied, dictation, streaming>>
        /\ hand' \in {hand, typed}
    BY <1>7 DEF Poll, InsideLoop
  <2>2. \A k \in DOMAIN typed : ~ (typed[k] < 0)
    <3>1. typed \in Seq(Press) /\ \A p \in Press : p \in Nat
      BY <1>1, InsertionIs DEF Types, PressTypes
    <3> QED BY <3>1
  <2>3. KeySealsAt(i, j)
    BY <1>3, <2>1
  <2> QED BY <2>1, <2>2, <2>3 DEF KeySealsAt, Sealed, EndedBefore
<1>8. CASE Deal
  <2> DEFINE x == Head(hand)
  <2>1. /\ hand # <<>> /\ hand' = Tail(hand)
        /\ UNCHANGED <<pending, applied, dictation, streaming, suppressed>>
        /\ pc \in {"inject", "keys"}
        /\ \/ /\ written' = Append(written, x)
              /\ x \in Insertion \/ (x \in Key /\ ~suppressed)
           \/ UNCHANGED written
    BY <1>1, <1>8, DealIs
  <2>2. /\ x = hand[1] /\ 1 \in DOMAIN hand /\ x \in Int
        /\ \A k \in DOMAIN Tail(hand) : k + 1 \in DOMAIN hand /\ Tail(hand)[k] = hand[k + 1]
    BY <1>2, <2>1, HeadTail
  <2> HIDE DEF x
  <2>3. ASSUME NEW m, Sealed(m) PROVE Sealed(m)'
    BY <2>1, <2>3 DEF Sealed, EndedBefore
  <2>4. ASSUME NEW m, EndedBefore(m, hand) PROVE EndedBefore(m, hand)'
    BY <2>1, <2>2, <2>4 DEF EndedBefore
  <2>5. CASE UNCHANGED written
    <3>1. KeySealsAt(i, j)
      BY <1>3, <2>5
    <3>2. Sealed(-written[i])' /\ EndedBefore(-written[i], hand)'
      BY <2>1, <2>2, <2>5, <3>1 DEF KeySealsAt, Sealed, EndedBefore
    <3> QED BY <2>1, <2>5, <3>1, <3>2 DEF KeySealsAt
  <2>6. CASE written' = Append(written, x)
    <3>1. /\ DOMAIN written' = DOMAIN written \cup {Len(written) + 1}
          /\ \A k \in DOMAIN written : written'[k] = written[k] /\ k < Len(written) + 1
          /\ written'[Len(written) + 1] = x /\ Len(written) \in Nat
      BY <1>2, <2>2, <2>6, Appended
    <3>2. i \in DOMAIN written /\ written'[i] = written[i] /\ written[i] < 0
      BY <3>1
    <3>3. CASE j \in DOMAIN written
      <4>1. KeySealsAt(i, j)
        BY <1>3, <3>1, <3>2, <3>3
      <4>2. Sealed(-written[i])' /\ EndedBefore(-written[i], hand)'
        BY <2>1, <2>2, <3>2, <4>1 DEF KeySealsAt, Sealed, EndedBefore
      <4>3. ASSUME NEW k \in DOMAIN written', j < k, written'[k] < 0,
                   applied'[-written'[k]] # 0
            PROVE  applied'[-written'[i]] < applied'[-written'[k]]
        <5>1. CASE k \in DOMAIN written
          BY <2>1, <3>1, <3>2, <4>1, <4>3, <5>1 DEF KeySealsAt
        <5>2. CASE k = Len(written) + 1
          <6>1. hand[1] = written'[k]
            BY <2>2, <3>1, <5>2
          <6> QED BY <2>1, <2>2, <3>2, <4>1, <4>3, <6>1 DEF KeySealsAt, EndedBefore
        <5> QED BY <3>1, <5>1, <5>2
      <4> QED BY <4>2, <4>3 DEF KeySealsAt
    <3>4. CASE j = Len(written) + 1
      <4>1. x > 0
        BY <3>1, <3>4
      <4>2. ~suppressed /\ pc = "keys"
        <5>1. x \notin Insertion
          BY <1>1, <4>1, InsertionIs DEF Types
        <5>2. pc # "inject"
          BY <1>1, <2>2, <5>1 DEF Shape, HandFits
        <5> QED BY <2>1, <2>6, <5>1, <5>2, <3>1, <1>2
      <4>3. Sealed(-written[i])
        BY <1>1, <3>2, <4>2 DEF RoundSealed
      <4>4. \A k \in DOMAIN hand : ~ (hand[k] < 0)
        <5>1. \A k \in DOMAIN hand : hand[k] \in Press
          BY <1>1, <4>2 DEF Shape, HandFits
        <5>2. \A p \in Press : p \in Nat
          BY <1>1, InsertionIs DEF Types
        <5> QED BY <5>1, <5>2
      <4>5. Sealed(-written[i])' /\ EndedBefore(-written[i], hand)'
        BY <2>1, <2>2, <3>2, <4>3, <4>4 DEF Sealed, EndedBefore
      <4>6. \A k \in DOMAIN written' : ~ (j < k)
        BY <3>1, <3>4
      <4> QED BY <4>5, <4>6 DEF KeySealsAt
    <3> QED BY <3>1, <3>3, <3>4
  <2> QED BY <2>1, <2>5, <2>6
<1> QED BY <1>1, <1>4, <1>5, <1>6, <1>7, <1>8, StepKinds

-----------------------------------------------------------------------------
(* The theorems *)

\* The invariant holds at first.
LEMMA InitIInv == Init => IInv
<1> SUFFICES ASSUME Init PROVE IInv
  OBVIOUS
<1>1. Types
  BY InitTypes
<1>2. Shape
  BY DEF Init, Shape, HandFits, BeforeFork
<1>3. PlacesInOrder
  BY DEF Init, PlacesInOrder, Falling, Precedes
<1>4. NoneLost /\ RoundSealed /\ KeySeals
  BY DEF Init, NoneLost, RoundSealed, KeySeals
<1> QED BY <1>1, <1>2, <1>3, <1>4 DEF IInv

\* Every step keeps the invariant.
LEMMA NextIInv == IInv /\ [Next]_vars => IInv'
<1> SUFFICES ASSUME IInv, [Next]_vars PROVE IInv'
  OBVIOUS
<1>1. Types /\ Shape
  BY DEF IInv
<1> QED
  BY <1>1, NextTypes, NextShape, NextPlacesInOrder, NextNoneLost, NextRoundSealed,
     NextKeySeals
  DEF IInv

\* The invariant holds in every state.
THEOREM WrapperInvariant == Spec => []IInv
BY InitIInv, NextIInv, PTL DEF Spec

\* Every variable of the wrapper holds a value of the kind the code gives it, and
\* hand and written only injections there were (talk-to/src/main.rs).
THEOREM WrapperTypeCorrect == Spec => []TypeOK
<1>1. IInv => TypeOK
  BY DEF IInv, Types, FlagTypes, LinkTypes, HistoryTypes, SegmentTypes, PressTypes,
     NumberTypes, PlaceTypes, LeftTypes, TypeOK
<1> QED BY <1>1, WrapperInvariant, PTL

\* Three places in order, one after the other, are in order.
LEMMA PlacesAreSegments ==
  ASSUME IInv
  PROVE  InjectedInOrder
<1> SUFFICES ASSUME agent
             PROVE  /\ \A n \in 1..Len(applied) :
                           \E i \in DOMAIN Segments : Segments[i] = -n
                    /\ \A i, j \in DOMAIN Segments :
                           i < j /\ {Segments[i], Segments[j]} \subseteq Insertion
                               => Segments[i] > Segments[j]
  BY DEF InjectedInOrder
<1>1. /\ written \in Seq(Int) /\ hand \in Seq(Int) /\ pending \in Seq(Int)
      /\ Types /\ PlacesInOrder /\ NoneLost
  BY Numbers DEF IInv
<1> DEFINE w == Len(written)
           h == Len(hand)
<1>2. /\ w \in Nat /\ h \in Nat /\ Len(pending) \in Nat
      /\ DOMAIN Segments = 1..(w + h + Len(pending))
      /\ \A i \in DOMAIN Segments :
             /\ i <= w => i \in DOMAIN written /\ Segments[i] = written[i]
             /\ w < i /\ i <= w + h => i - w \in DOMAIN hand /\ Segments[i] = hand[i - w]
             /\ w + h < i => /\ i - (w + h) \in DOMAIN pending
                             /\ Segments[i] = pending[i - (w + h)]
  BY <1>1 DEF Segments
<1>3. /\ \A i \in DOMAIN written : i \in DOMAIN Segments /\ Segments[i] = written[i]
      /\ \A i \in DOMAIN hand : i + w \in DOMAIN Segments /\ Segments[i + w] = hand[i]
      /\ \A i \in DOMAIN pending : /\ i + (w + h) \in DOMAIN Segments
                                   /\ Segments[i + (w + h)] = pending[i]
  BY <1>1 DEF Segments
<1> HIDE DEF w, h
<1>4. ASSUME NEW n \in 1..Len(applied)
      PROVE  \E i \in DOMAIN Segments : Segments[i] = -n
  BY <1>1, <1>3 DEF NoneLost, Holds
<1>5. ASSUME NEW i \in DOMAIN Segments, NEW j \in DOMAIN Segments, i < j,
             Segments[i] < 0, Segments[j] < 0
      PROVE  Segments[i] > Segments[j]
  <2>1. CASE j <= w
    BY <1>1, <1>2, <1>5, <2>1 DEF PlacesInOrder, Falling
  <2>2. CASE i <= w /\ w < j /\ j <= w + h
    BY <1>1, <1>2, <1>5, <2>2 DEF PlacesInOrder, Precedes
  <2>3. CASE i <= w /\ w + h < j
    BY <1>1, <1>2, <1>5, <2>3 DEF PlacesInOrder, Precedes
  <2>4. CASE w < i /\ j <= w + h
    <3>1. w < j /\ i <= w + h /\ i - w < j - w
      BY <1>2, <1>5, <2>4
    <3> QED BY <1>1, <1>2, <1>5, <2>4, <3>1 DEF PlacesInOrder, Falling
  <2>5. CASE w < i /\ i <= w + h /\ w + h < j
    BY <1>1, <1>2, <1>5, <2>5 DEF PlacesInOrder, Precedes
  <2>6. CASE w + h < i
    <3>1. w + h < j /\ i - (w + h) < j - (w + h)
      BY <1>2, <1>5, <2>6
    <3> QED BY <1>1, <1>2, <1>5, <2>6, <3>1 DEF PlacesInOrder, Falling
  <2> QED BY <1>2, <1>5, <2>1, <2>2, <2>3, <2>4, <2>5, <2>6
<1>6. \A x \in Insertion : x < 0
  BY <1>1, InsertionIs DEF Types
<1> QED BY <1>4, <1>5, <1>6

\* While the agent runs, no injection is lost, repeated or overtaken between the
\* client thread and the proxy loop, whatever they do in between
\* (talk-to/src/main.rs, apply_frame and proxy_loop).
THEOREM InjectionsStayInOrder == Spec => []InjectedInOrder
BY PlacesAreSegments, WrapperInvariant, PTL

\* No key gets between two injections of one dictation, though the flag it is judged
\* by was read before it was pressed (talk-to/src/main.rs, proxy_loop).
THEOREM KeysStayOut == Spec => []KeysKeepOut
<1>1. ASSUME IInv, NEW i \in 1..Len(written), NEW j \in 1..Len(written),
             NEW k \in 1..Len(written), i < j, j < k,
             written[j] \in Key, written[i] \in Insertion, written[k] \in Insertion,
             applied[-written[i]] # 0
      PROVE  applied[-written[i]] # applied[-written[k]]
  <2>1. /\ written \in Seq(Int)
        /\ \A n \in 1..Len(applied) : applied[n] \in Nat
        /\ -written[i] \in 1..Len(applied) /\ -written[k] \in 1..Len(applied)
        /\ written[i] < 0 /\ written[k] < 0
    BY <1>1, Numbers, InsertionIs DEF IInv, Types
  <2>2. written[j] > 0
    BY <1>1, InsertionIs DEF IInv, Types
  <2>3. applied[-written[k]] # 0 => applied[-written[i]] < applied[-written[k]]
    <3>1. KeySeals
      BY <1>1 DEF IInv
    <3>2. i \in DOMAIN written /\ j \in DOMAIN written /\ k \in DOMAIN written
      BY <2>1
    <3> QED BY <1>1, <2>1, <2>2, <3>1, <3>2 DEF KeySeals
  <2> QED BY <1>1, <2>1, <2>3
<1>2. IInv => KeysKeepOut
  BY <1>1 DEF KeysKeepOut
<1> QED BY <1>2, WrapperInvariant, PTL
==============================================================================
