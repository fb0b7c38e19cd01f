------------------------------ MODULE PreviewProofs ------------------------------
(***************************************************************************)
(* Proofs about Preview, for any words, hypotheses, and budgets.           *)
(*                                                                         *)
(* Three invariants carry the three properties.  CursorCovered bounds the  *)
(* wrapper's cursor by what was typed, whatever spoils the preview, unless *)
(* the user erased some of it.  Owed says who still ends a preview that is *)
(* in the prompt or on its way to it.  Agreement says of the frames in the *)
(* lane that they lead from what the prompt shows to what the engine       *)
(* committed.                                                              *)
(***************************************************************************)
EXTENDS Preview, WellFoundedInduction, TLAPS

-----------------------------------------------------------------------------
(* The invariant *)

FlagTypes ==
  /\ state \in {"loading", "idle", "streaming"}
  /\ unseen \in BOOLEAN /\ suppress \in BOOLEAN /\ spoiled \in BOOLEAN
  /\ retracted \in BOOLEAN

TaskTypes ==
  /\ session \in Dictation \cup {None}
  /\ driver \in [Dictation -> {"none", "live", "send", "end"}]
  /\ finalizers \subseteq Dictation /\ reconciling \subseteq Dictation

EngineTypes ==
  /\ engine \in [committed : Seq(Words), prev : Seq(Words)]
  /\ lastTail \in Seq(Words)
  /\ edit \in [Dictation -> Edit]

LinkTypes == bound \in [Dictation -> Nat] /\ registered \in Nat

LaneTypes == lane \in Seq(Frame)

PromptTypes == cursor \in [stable : Nat, tail : Nat] /\ prompt \in Seq(Text)

BudgetTypes == budget \in Budgets /\ used \in [Bounded -> Nat]

Types ==
  /\ FlagTypes /\ TaskTypes /\ EngineTypes /\ LinkTypes /\ LaneTypes /\ PromptTypes
  /\ BudgetTypes

\* Dictations and connections are numbered in order, and only what has begun has
\* a number.
LaneNumbered ==
  \A i \in DOMAIN lane : lane[i].kind # "transcript" => lane[i].dictation <= used.dictations

TasksNumbered ==
  /\ session \in {None, used.dictations}
  /\ \A d \in Dictation : driver[d] # "none" => d <= used.dictations
  /\ \A d \in reconciling : d <= used.dictations

LinksNumbered ==
  /\ registered <= used.links
  /\ \A d \in Dictation : bound[d] <= used.links
  /\ registered = None => lane = <<>>

Numbered == LaneNumbered /\ TasksNumbered /\ LinksNumbered

\* The cursor covers no more than what was typed behind the first word of a preview.
Covered ==
  \A n \in 0 .. Len(prompt) :
    (\A i \in 1 .. n : prompt[i] \notin Words)
      => PreviewLen(cursor) + n <= Len(prompt)

\* It does so unless the user erased some of a preview, which is spoiled then.
CursorCovered == Covered \/ (retracted /\ spoiled)

\* The preview is what the cursor covers, and it is at the end.
PreviewAtEnd ==
  ~spoiled => \A i \in DOMAIN prompt :
                prompt[i] \in Words <=> i > Len(prompt) - PreviewLen(cursor)

\* A dictation whose end is still to come, and reaches the wrapper.
Coming(d) == (session = d \/ d \in reconciling) /\ Live(bound[d])

Ending(i) == lane[i].kind = "finalize"

\* A preview in the lane is ended by what is coming or by a frame behind it.
OwedInLane ==
  ~spoiled => \A i \in DOMAIN lane :
    lane[i].kind = "edit" =>
      \/ Coming(lane[i].dictation)
      \/ \E j \in DOMAIN lane : i < j /\ Ending(j)

\* So is one in the prompt.
OwedInPrompt ==
  ~spoiled /\ PreviewLen(cursor) > 0 =>
    \/ \E d \in Dictation : Coming(d)
    \/ \E j \in DOMAIN lane : Ending(j)

\* A dictation begins when the last is reconciled.
OneAtATime == ~spoiled /\ session # None => reconciling = {}

\* What a preview shows, and what an edit makes of it.
Showing == [stable : Seq(Words), tail : Seq(Words)]
Edited(p, e) == [stable |-> p.stable \o e.committed, tail |-> e.tail]

\* p is the preview at the end of a text, and what a cursor covers.
EndsWith(p, text, at) ==
  /\ Len(p.stable) = at.stable /\ Len(p.tail) = at.tail
  /\ \E before \in Seq(Text) : text = (before \o p.stable) \o p.tail

Shows(p) == EndsWith(p, prompt, cursor)

\* v[i] is the preview after the first i frames of the lane.
Leads(v) ==
  \A i \in DOMAIN lane :
    \/ lane[i].kind = "transcript" /\ v[i] = v[i - 1]
    \/ /\ lane[i].kind = "edit" /\ lane[i].dictation = session
       /\ v[i] = Edited(v[i - 1], lane[i].edit)

\* The preview of the daemon.
Target == [stable |-> engine.committed, tail |-> lastTail]

\* The last v, with the edit that is going to be sent, is the preview of the daemon.
Arrives(p) ==
  Target = IF driver[session] = "send" THEN Edited(p, edit[session]) ELSE p

Agrees(v) == Shows(v[0]) /\ Leads(v) /\ Arrives(v[Len(lane)])

\* A frame of another dictation is in the lane.
Doomed ==
  \E i \in DOMAIN lane : lane[i].kind # "transcript" /\ lane[i].dictation # session

Agreement ==
  ~spoiled /\ session # None /\ Live(bound[session]) =>
    Doomed \/ \E v \in [0 .. Len(lane) -> Showing] : Agrees(v)

TailIsRest == lastTail = After(engine.prev, Len(engine.committed))

IInv ==
  /\ Types /\ Numbered /\ TailIsRest
  /\ CursorCovered /\ PreviewAtEnd
  /\ OwedInLane /\ OwedInPrompt /\ OneAtATime /\ Agreement

-----------------------------------------------------------------------------
(* Sequences and numbers *)

\* Every set of naturals has a least element.
LEMMA LeastElement ==
  ASSUME NEW T, T \subseteq Nat, T # {}
  PROVE  \E n \in T : \A m \in T : n <= m
<1> DEFINE R == OpToRel(<, Nat)
<1>1. IsWellFoundedOn(R, Nat)
  BY NatLessThanWellFounded
<1>2. \A p : p \in R <=> p \in Nat \X Nat /\ p[1] < p[2]
  BY Zenon DEF OpToRel
<1> HIDE DEF R
<1>3. PICK n \in T : \A m \in T : ~ (<<m, n>> \in R)
  BY <1>1, WFMin
<1>4. ASSUME NEW m \in T PROVE n <= m
  <2>1. ~ (<<m, n>> \in R)
    BY <1>3
  <2>2. <<m, n>> \in Nat \X Nat /\ <<m, n>>[1] = m /\ <<m, n>>[2] = n
    OBVIOUS
  <2>3. ~ (m < n)
    BY <1>2, <2>1, <2>2
  <2> QED BY <2>3
<1> QED BY <1>4

\* The first of a sequence and the rest.
LEMMA HeadTail ==
  ASSUME NEW S, NEW s \in Seq(S), s # <<>>
  PROVE  /\ Head(s) \in S /\ Head(s) = s[1] /\ 1 \in DOMAIN s
         /\ Tail(s) \in Seq(S) /\ Len(Tail(s)) = Len(s) - 1
         /\ \A i \in DOMAIN Tail(s) : i + 1 \in DOMAIN s /\ Tail(s)[i] = s[i + 1]
         /\ \A i \in DOMAIN s : i # 1 => i - 1 \in DOMAIN Tail(s) /\ Tail(s)[i - 1] = s[i]
OBVIOUS

\* A sequence with one more.
LEMMA Appended ==
  ASSUME NEW S, NEW s \in Seq(S), NEW x \in S
  PROVE  /\ Append(s, x) \in Seq(S) /\ Len(Append(s, x)) = Len(s) + 1
         /\ DOMAIN Append(s, x) = DOMAIN s \cup {Len(s) + 1} /\ Len(s) + 1 \notin DOMAIN s
         /\ \A i \in DOMAIN s : Append(s, x)[i] = s[i] /\ i < Len(s) + 1
         /\ Append(s, x)[Len(s) + 1] = x
OBVIOUS

\* A sequence over a set is one over a larger set.
LEMMA SeqWidens ==
  ASSUME NEW S, NEW T, S \subseteq T, NEW s \in Seq(S)
  PROVE  s \in Seq(T)
OBVIOUS

\* Two sequences put together.
LEMMA ConcatIs ==
  ASSUME NEW S, NEW s \in Seq(S), NEW t \in Seq(S)
  PROVE  /\ s \o t \in Seq(S) /\ Len(s \o t) = Len(s) + Len(t)
         /\ \A i \in 1 .. Len(s) : (s \o t)[i] = s[i]
         /\ \A i \in 1 .. Len(t) : (s \o t)[Len(s) + i] = t[i]
OBVIOUS

\* The rest of a text.
LEMMA AfterIs ==
  ASSUME NEW S, NEW s \in Seq(S), NEW n \in Nat
  PROVE  /\ After(s, n) \in Seq(S)
         /\ n <= Len(s) => Len(After(s, n)) = Len(s) - n
         /\ \A i \in DOMAIN After(s, n) : After(s, n)[i] = s[n + i]
BY DEF After

\* agree_len: such a length exists, so that it is one.
LEMMA AgreeLenIs ==
  ASSUME NEW S, NEW s \in Seq(S), NEW t \in Seq(S)
  PROVE  /\ AgreeLen(s, t) \in 0 .. Len(s)
         /\ AgreeLen(s, t) <= Len(t)
<1> DEFINE Ends == {n \in Nat : n = Len(s) \/ n = Len(t) \/ s[n + 1] # t[n + 1]}
           Longest(n) == /\ n <= Len(t) /\ SubSeq(s, 1, n) = SubSeq(t, 1, n)
                         /\ n < Len(s) /\ n < Len(t) => s[n + 1] # t[n + 1]
<1>1. PICK n \in Ends : \A m \in Ends : n <= m
  <2>1. Ends \subseteq Nat /\ Len(s) \in Ends
    OBVIOUS
  <2> HIDE DEF Ends
  <2> QED BY <2>1, LeastElement
<1>2. n \in 0 .. Len(s) /\ n <= Len(t)
  <2>1. Len(s) \in Ends /\ Len(t) \in Ends /\ n \in Nat
    OBVIOUS
  <2> QED BY <1>1, <2>1
<1>3. \A i \in 1 .. n : s[i] = t[i]
  <2> SUFFICES ASSUME NEW i \in 1 .. n PROVE s[i] = t[i]
    OBVIOUS
  <2>1. i - 1 \in Nat /\ i - 1 < n /\ (i - 1) + 1 = i
    BY <1>2
  <2>2. i - 1 \notin Ends
    <3>1. i - 1 \in Ends => n <= i - 1
      BY <1>1
    <3> QED BY <1>2, <2>1, <3>1
  <2> QED BY <2>1, <2>2
<1>4. Longest(n)
  <2>1. SubSeq(s, 1, n) = SubSeq(t, 1, n)
    BY <1>2, <1>3
  <2>2. n < Len(s) /\ n < Len(t) => s[n + 1] # t[n + 1]
    BY <1>1, <1>2
  <2> QED BY <1>2, <2>1, <2>2
<1>5. AgreeLen(s, t) = CHOOSE m \in 0 .. Len(s) : Longest(m)
  BY DEF AgreeLen
<1> HIDE DEF Ends, Longest
<1>6. AgreeLen(s, t) \in 0 .. Len(s) /\ Longest(AgreeLen(s, t))
  BY <1>2, <1>4, <1>5
<1> QED BY <1>6 DEF Longest

\* observe returns texts, and the tail is what it has not committed.
LEMMA ObserveIs ==
  ASSUME NEW e \in [committed : Seq(Words), prev : Seq(Words)], NEW h \in Seq(Words)
  PROVE  /\ Observe(e, h).engine.committed = e.committed \o Observe(e, h).committed
         /\ Observe(e, h).engine.prev = h
         /\ Observe(e, h).engine \in [committed : Seq(Words), prev : Seq(Words)]
         /\ Observe(e, h).committed \in Seq(Words) /\ Observe(e, h).tail \in Seq(Words)
         /\ Observe(e, h).tail = After(h, Len(Observe(e, h).engine.committed))
<1> DEFINE c == Len(e.committed)
           newly == NewlyCommitted(e, h)
<1>1. e.committed \in Seq(Words) /\ e.prev \in Seq(Words) /\ c \in Nat
  OBVIOUS
<1>2. After(h, c) \in Seq(Words) /\ After(e.prev, c) \in Seq(Words)
  BY <1>1, AfterIs
<1>3. newly \in Seq(Words)
  <2>1. AgreeLen(After(h, c), After(e.prev, c)) \in 0 .. Len(After(h, c))
    BY <1>2, AgreeLenIs
  <2> QED BY <1>2, <2>1 DEF NewlyCommitted
<1> HIDE DEF newly
<1>4. /\ Observe(e, h).engine = [committed |-> e.committed \o newly, prev |-> h]
      /\ Observe(e, h).committed = newly
      /\ Observe(e, h).tail = After(h, c + Len(newly))
  BY DEF Observe, newly
<1>5. e.committed \o newly \in Seq(Words) /\ Len(e.committed \o newly) = c + Len(newly)
  BY <1>1, <1>3
<1>6. After(h, c + Len(newly)) \in Seq(Words)
  BY <1>1, <1>3, AfterIs
<1> QED BY <1>1, <1>3, <1>4, <1>5, <1>6

-----------------------------------------------------------------------------
(* Types *)

\* A frame is an edit, a finalize or a transcript.
LEMMA FrameIs ==
  ASSUME NEW f \in Frame
  PROVE  /\ f.kind \in {"edit", "finalize", "transcript"}
         /\ f.kind # "transcript" => f.dictation \in Dictation
         /\ f.kind = "edit" =>
              /\ f.edit \in Edit
              /\ f.edit.committed \in Seq(Words) /\ f.edit.tail \in Seq(Words)
         /\ f.kind = "finalize" => f.text \in {<<>>, <<"text">>}
BY DEF Frame, TranscriptFrame, Edit

\* What the daemon pushes are frames.
LEMMA FramesAre ==
  /\ \A d \in Dictation, e \in Edit : EditFrame(d, e) \in Frame
  /\ \A d \in Dictation, t \in {<<>>, <<"text">>} : FinalizeFrame(d, t) \in Frame
  /\ TranscriptFrame \in Frame
BY DEF Frame, EditFrame, FinalizeFrame, TranscriptFrame

\* A dictation is a number, and not none.
LEMMA DictationIs ==
  /\ Dictation \subseteq Nat \ {0} /\ None = 0
  /\ \A b \in Budgets, n \in Nat : n < b.dictations => n + 1 \in Dictation
BY BudgetsAssumption DEF Dictation, Bounded, None

\* The types hold at first.
LEMMA InitTypes == Init => Types
<1> SUFFICES ASSUME Init PROVE Types
  OBVIOUS
<1>1. NoEdit \in Edit /\ FreshEngine \in [committed : Seq(Words), prev : Seq(Words)]
      /\ FreshCursor \in [stable : Nat, tail : Nat]
  BY DEF NoEdit, Edit, FreshEngine, FreshCursor
<1>2. FlagTypes /\ TaskTypes
  BY DEF Init, FlagTypes, TaskTypes
<1>3. EngineTypes /\ LaneTypes
  BY <1>1 DEF Init, EngineTypes, LaneTypes
<1>4. LinkTypes /\ PromptTypes /\ BudgetTypes
  BY <1>1, DictationIs DEF Init, LinkTypes, PromptTypes, BudgetTypes
<1> QED BY <1>2, <1>3, <1>4 DEF Types

\* Using a budget up counts one more of what it bounds.
LEMMA UseIs ==
  ASSUME BudgetTypes, NEW what \in Bounded, Use(what)
  PROVE  /\ used' \in [Bounded -> Nat] /\ budget' = budget /\ budget \in Budgets
         /\ used[what] \in Nat /\ used[what] < budget[what]
         /\ used'[what] = used[what] + 1
         /\ \A other \in Bounded : other # what => used'[other] = used[other]
BY DEF BudgetTypes, Use

\* Every step keeps the types of the budgets.
LEMMA NextBudgetTypes == BudgetTypes /\ [Next]_vars => BudgetTypes'
<1> SUFFICES ASSUME BudgetTypes, [Next]_vars PROVE BudgetTypes'
  OBVIOUS
<1>1. \A what \in Bounded : Use(what) => BudgetTypes'
  BY UseIs DEF BudgetTypes
<1>2. CASE StartStreaming \/ IgnoredCommand \/ Key
  BY <1>1, <1>2 DEF StartStreaming, IgnoredCommand, Key, Bounded
<1>3. CASE StopStreaming \/ DiscardStreaming
  BY <1>3 DEF BudgetTypes, StopStreaming, DiscardStreaming
<1>4. ASSUME NEW d \in Dictation, DictationStep(d) PROVE BudgetTypes'
  <2>1. CASE Decode(d)
    BY <1>1, <2>1 DEF Decode, Bounded
  <2>2. CASE SilentRound(d) \/ SendEdit(d) \/ DriverReturns(d) \/ DriverFinalizes(d)
             \/ StreamingCap(d)
    BY <2>2 DEF BudgetTypes, SilentRound, SendEdit, DriverReturns, DriverFinalizes, StreamingCap
  <2>3. CASE FinalizerRuns(d) \/ Reconciled(d) \/ ReconciledEmpty(d)
    BY <2>3 DEF BudgetTypes, FinalizerRuns, Reconciled, ReconciledEmpty
  <2> QED BY <1>4, <2>1, <2>2, <2>3 DEF DictationStep
<1>5. CASE DeliverTranscript \/ ServerDies \/ Register
  BY <1>1, <1>5 DEF DeliverTranscript, ServerDies, Register, Bounded
<1>6. CASE Ready \/ DaemonDies
  BY <1>6 DEF BudgetTypes, Ready, DaemonDies
<1>7. CASE Connection
  BY <1>7 DEF BudgetTypes, Connection, ForwardFrame, ForwardState
<1>8. CASE UNCHANGED vars
  BY <1>8 DEF BudgetTypes, vars
<1> QED BY <1>2, <1>3, <1>4, <1>5, <1>6, <1>7, <1>8 DEF Next, User, Exhausted

\* Every step keeps the types of the flags.
LEMMA NextFlagTypes == FlagTypes /\ [Next]_vars => FlagTypes'
<1> SUFFICES ASSUME FlagTypes, [Next]_vars PROVE FlagTypes'
  OBVIOUS
<1>1. \A d : Finalize(d) => state' \in {"loading", "idle", "streaming"} /\ unseen' \in BOOLEAN
  BY DEF FlagTypes, Finalize, SetState
<1>2. \A s : ApplyState(s) =>
        suppress' \in BOOLEAN /\ spoiled' \in BOOLEAN /\ retracted' \in BOOLEAN
  <2>1. \A s : ApplyState(s) => suppress' \in BOOLEAN /\ spoiled' \in BOOLEAN
    BY Zenon DEF ApplyState, Spoil
  <2>2. \A s : ApplyState(s) => retracted' \in BOOLEAN
    BY DEF ApplyState, FlagTypes
  <2> QED BY <2>1, <2>2
<1>3. CASE StartStreaming
  <2>1. spoiled' \in BOOLEAN
    BY <1>3, Zenon DEF StartStreaming, Spoil
  <2> QED BY <1>3, <2>1 DEF FlagTypes, StartStreaming, SetState, wrapper
<1>4. CASE StopStreaming \/ DiscardStreaming \/ IgnoredCommand
  BY <1>4 DEF FlagTypes, StopStreaming, DiscardStreaming, IgnoredCommand, SetState, wrapper
<1>5. CASE Key
  <2>1. spoiled' \in BOOLEAN
    BY <1>5, Zenon DEF Key, Spoil
  <2>2. retracted' \in BOOLEAN
    BY <1>5, Zenon DEF Key, FlagTypes
  <2> QED BY <1>5, <2>1, <2>2 DEF FlagTypes, Key, daemon, channel
<1>6. ASSUME NEW d \in Dictation, DictationStep(d) PROVE FlagTypes'
  <2>1. CASE SilentRound(d) \/ Decode(d) \/ DriverReturns(d)
    BY <2>1 DEF FlagTypes, SilentRound, Decode, DriverReturns, channel, wrapper
  <2>2. CASE SendEdit(d)
    <3>1. spoiled' \in BOOLEAN
      BY <2>2, Zenon DEF SendEdit, Spoil
    <3> QED BY <2>2, <3>1 DEF FlagTypes, SendEdit, wrapper
  <2>3. CASE DriverFinalizes(d) \/ StreamingCap(d) \/ FinalizerRuns(d)
    BY <1>1, <2>3 DEF FlagTypes, DriverFinalizes, StreamingCap, FinalizerRuns, wrapper
  <2>4. CASE Reconciled(d) \/ ReconciledEmpty(d)
    BY <2>4 DEF FlagTypes, Reconciled, ReconciledEmpty, channel, wrapper
  <2> QED BY <1>6, <2>1, <2>2, <2>3, <2>4 DEF DictationStep
<1>7. CASE DeliverTranscript \/ Ready \/ ServerDies \/ DaemonDies
  BY <1>7 DEF FlagTypes, DeliverTranscript, Ready, ServerDies, DaemonDies, SetState, daemon, wrapper
<1>8. CASE Register \/ ForwardState
  BY <1>2, <1>8 DEF FlagTypes, Register, ForwardState, daemon
<1>9. CASE ForwardFrame
  <2>1. suppress' = suppress /\ spoiled' \in BOOLEAN
    BY <1>9, Zenon DEF ForwardFrame, ApplyEdit, ApplyFinalize, ApplyTranscript, Spoil
  <2>2. retracted' \in BOOLEAN
    BY <1>9 DEF FlagTypes, ForwardFrame, ApplyEdit, ApplyFinalize, ApplyTranscript
  <2> QED BY <1>9, <2>1, <2>2 DEF FlagTypes, ForwardFrame, daemon
<1>10. CASE UNCHANGED vars
  BY <1>10 DEF FlagTypes, vars, daemon, channel, wrapper
<1> QED BY <1>3, <1>4, <1>5, <1>6, <1>7, <1>8, <1>9, <1>10 DEF Next, User, Connection, Exhausted

\* Every step keeps the types of the tasks.
LEMMA NextTaskTypes == Types /\ [Next]_vars => TaskTypes'
<1> SUFFICES ASSUME Types, [Next]_vars PROVE TaskTypes'
  OBVIOUS
<1> USE DEF TaskTypes
<1>1. TaskTypes /\ BudgetTypes
  BY DEF Types
<1>2. \A d \in Dictation : Finalize(d) =>
        session' \in Dictation \cup {None} /\ reconciling' \subseteq Dictation
  BY <1>1 DEF Finalize, TakeSession
<1>3. \A d : EndRound(d) => driver' \in [Dictation -> {"none", "live", "send", "end"}]
  BY <1>1 DEF EndRound
<1>4. CASE StartStreaming
  <2>1. Use("dictations") /\ "dictations" \in Bounded
    BY <1>4 DEF StartStreaming, Bounded
  <2>2. used'.dictations \in Dictation
    BY <1>1, <2>1, UseIs, DictationIs
  <2> QED BY <1>1, <1>4, <2>2 DEF StartStreaming
<1>5. CASE StopStreaming \/ DiscardStreaming \/ IgnoredCommand \/ Key
  BY <1>1, <1>5 DEF StopStreaming, DiscardStreaming, IgnoredCommand, Key, TakeSession, daemon
<1>6. ASSUME NEW d \in Dictation, DictationStep(d) PROVE TaskTypes'
  <2>1. CASE SilentRound(d) \/ SendEdit(d)
    BY <1>1, <1>3, <2>1 DEF SilentRound, SendEdit
  <2>2. CASE Decode(d)
    <3>1. driver' \in [Dictation -> {"none", "live", "send", "end"}]
      BY <1>1, <1>3, <2>2 DEF Decode
    <3> QED BY <1>1, <2>2, <3>1 DEF Decode
  <2>3. CASE DriverFinalizes(d) \/ StreamingCap(d) \/ FinalizerRuns(d) \/ DriverReturns(d)
    BY <1>1, <1>2, <2>3 DEF DriverFinalizes, StreamingCap, FinalizerRuns, DriverReturns
  <2>4. CASE Reconciled(d) \/ ReconciledEmpty(d)
    BY <1>1, <2>4 DEF Reconciled, ReconciledEmpty
  <2> QED BY <1>6, <2>1, <2>2, <2>3, <2>4 DEF DictationStep
<1>7. CASE DeliverTranscript \/ Ready \/ ServerDies \/ DaemonDies
  BY <1>1, <1>7 DEF DeliverTranscript, Ready, ServerDies, DaemonDies, TakeSession, daemon
<1>8. CASE Register \/ Connection
  BY <1>1, <1>8 DEF Register, Connection, ForwardFrame, ForwardState, daemon
<1>9. CASE UNCHANGED vars
  BY <1>1, <1>9 DEF vars, daemon
<1> QED BY <1>4, <1>5, <1>6, <1>7, <1>8, <1>9 DEF Next, User, Exhausted

\* What a decode makes of the engine, and the edit it leaves to be sent.
LEMMA DecodeIs ==
  ASSUME EngineTypes, TaskTypes, BudgetTypes, NEW d \in Dictation, Decode(d)
  PROVE  /\ EngineTypes' /\ TailIsRest'
         /\ \E newly \in Seq(Words) :
              /\ engine'.committed = engine.committed \o newly
              /\ \/ /\ driver' = [driver EXCEPT ![d] = "send"]
                    /\ edit' = [edit EXCEPT ![d] = [committed |-> newly, tail |-> lastTail']]
                 \/ newly = <<>> /\ lastTail' = lastTail /\ EndRound(d)
<1>1. PICK h \in budget.hypotheses :
        LET seen == Observe(engine, h)
            new  == seen.committed # <<>> \/ seen.tail # lastTail
        IN /\ engine' = seen.engine /\ lastTail' = seen.tail
           /\ \/ /\ new
                 /\ driver' = [driver EXCEPT ![d] = "send"]
                 /\ edit' = [edit EXCEPT ![d] =
                      [committed |-> seen.committed, tail |-> seen.tail]]
              \/ ~new /\ EndRound(d)
  BY DEF Decode
<1>2. h \in Seq(Words)
  BY BudgetsAssumption DEF BudgetTypes
<1> DEFINE seen == Observe(engine, h)
<1>3. engine \in [committed : Seq(Words), prev : Seq(Words)]
  BY DEF EngineTypes
<1>4. /\ seen.engine.committed = engine.committed \o seen.committed
      /\ seen.engine.prev = h
      /\ seen.engine \in [committed : Seq(Words), prev : Seq(Words)]
      /\ seen.committed \in Seq(Words) /\ seen.tail \in Seq(Words)
      /\ seen.tail = After(h, Len(seen.engine.committed))
  BY <1>2, <1>3, ObserveIs
<1>5. /\ engine' = seen.engine /\ lastTail' = seen.tail
      /\ \/ /\ driver' = [driver EXCEPT ![d] = "send"]
            /\ edit' = [edit EXCEPT ![d] = [committed |-> seen.committed, tail |-> seen.tail]]
         \/ seen.committed = <<>> /\ seen.tail = lastTail /\ EndRound(d)
  BY <1>1
<1> HIDE DEF seen
<1>6. edit' \in [Dictation -> Edit]
  <2>1. NoEdit \in Edit /\ \A c, t \in Seq(Words) : [committed |-> c, tail |-> t] \in Edit
    BY DEF NoEdit, Edit
  <2>2. [committed |-> seen.committed, tail |-> seen.tail] \in Edit
    BY <1>4, <2>1
  <2> QED BY <1>5, <2>1, <2>2 DEF EndRound, EngineTypes
<1>7. EngineTypes' /\ TailIsRest'
  BY <1>4, <1>5, <1>6 DEF EngineTypes, TailIsRest
<1> QED BY <1>4, <1>5, <1>7

\* Every step keeps the types of the commit engine.
LEMMA NextEngineTypes == Types /\ [Next]_vars => EngineTypes'
<1> SUFFICES ASSUME Types, [Next]_vars PROVE EngineTypes'
  OBVIOUS
<1>1. EngineTypes /\ TaskTypes /\ BudgetTypes
  BY DEF Types
<1>2. NoEdit \in Edit /\ FreshEngine \in [committed : Seq(Words), prev : Seq(Words)]
      /\ <<>> \in Seq(Words)
  BY DEF NoEdit, Edit, FreshEngine
<1>3. \A d : Finalize(d) =>
        engine' \in [committed : Seq(Words), prev : Seq(Words)] /\ lastTail' \in Seq(Words)
  BY <1>1, <1>2 DEF Finalize, TakeSession, live, EngineTypes
<1>4. \A d : EndRound(d) => edit' \in [Dictation -> Edit]
  BY <1>1, <1>2 DEF EndRound, EngineTypes
<1>5. CASE StartStreaming \/ DiscardStreaming \/ DaemonDies
  BY <1>1, <1>2, <1>5 DEF StartStreaming, DiscardStreaming, DaemonDies, TakeSession, EngineTypes
<1>6. CASE StopStreaming \/ IgnoredCommand \/ Key
  BY <1>1, <1>6 DEF StopStreaming, IgnoredCommand, Key, daemon, live, EngineTypes
<1>7. ASSUME NEW d \in Dictation, DictationStep(d) PROVE EngineTypes'
  <2>1. CASE SilentRound(d) \/ SendEdit(d)
    BY <1>1, <1>4, <2>1 DEF SilentRound, SendEdit, live, EngineTypes
  <2>2. CASE Decode(d)
    BY <1>1, <2>2, DecodeIs
  <2>3. CASE DriverFinalizes(d) \/ StreamingCap(d) \/ FinalizerRuns(d)
    BY <1>1, <1>3, <2>3 DEF DriverFinalizes, StreamingCap, FinalizerRuns, EngineTypes
  <2>4. CASE Reconciled(d) \/ ReconciledEmpty(d) \/ DriverReturns(d)
    BY <1>1, <2>4 DEF Reconciled, ReconciledEmpty, DriverReturns, live, EngineTypes
  <2> QED BY <1>7, <2>1, <2>2, <2>3, <2>4 DEF DictationStep
<1>8. CASE DeliverTranscript \/ Ready \/ ServerDies
  BY <1>1, <1>8 DEF DeliverTranscript, Ready, ServerDies, daemon, live, EngineTypes
<1>9. CASE Register \/ Connection
  BY <1>1, <1>9 DEF Register, Connection, ForwardFrame, ForwardState, daemon, live, EngineTypes
<1>10. CASE UNCHANGED vars
  BY <1>1, <1>10 DEF vars, daemon, live, EngineTypes
<1> QED BY <1>5, <1>6, <1>7, <1>8, <1>9, <1>10 DEF Next, User, Exhausted

\* Every step keeps the types of the links.
LEMMA NextLinkTypes == Types /\ [Next]_vars => LinkTypes'
<1> SUFFICES ASSUME Types, [Next]_vars PROVE LinkTypes'
  OBVIOUS
<1>1. LinkTypes /\ BudgetTypes
  BY DEF Types
<1>2. CASE StartStreaming
  BY <1>1, <1>2 DEF StartStreaming, LinkTypes
<1>3. CASE StopStreaming \/ DiscardStreaming \/ IgnoredCommand \/ Key
  BY <1>1, <1>3 DEF StopStreaming, DiscardStreaming, IgnoredCommand, Key, daemon, channel, LinkTypes
<1>4. ASSUME NEW d \in Dictation, DictationStep(d) PROVE LinkTypes'
  <2>1. CASE SilentRound(d) \/ SendEdit(d) \/ Decode(d) \/ DriverReturns(d)
    BY <1>1, <2>1 DEF SilentRound, SendEdit, Decode, DriverReturns, channel, LinkTypes
  <2>2. CASE DriverFinalizes(d) \/ StreamingCap(d) \/ FinalizerRuns(d)
    BY <1>1, <2>2 DEF DriverFinalizes, StreamingCap, FinalizerRuns, LinkTypes
  <2>3. CASE Reconciled(d) \/ ReconciledEmpty(d)
    BY <1>1, <2>3 DEF Reconciled, ReconciledEmpty, channel, LinkTypes
  <2> QED BY <1>4, <2>1, <2>2, <2>3 DEF DictationStep
<1>5. CASE DeliverTranscript \/ Ready \/ ServerDies \/ DaemonDies
  BY <1>1, <1>5 DEF DeliverTranscript, Ready, ServerDies, DaemonDies, daemon, LinkTypes, None
<1>6. CASE Register
  <2>1. used'.links \in Nat
    BY <1>1, <1>6, UseIs DEF Register, Bounded
  <2> QED BY <1>1, <1>6, <2>1 DEF Register, daemon, LinkTypes
<1>7. CASE Connection
  BY <1>1, <1>7 DEF Connection, ForwardFrame, ForwardState, daemon, LinkTypes
<1>8. CASE UNCHANGED vars
  BY <1>1, <1>8 DEF vars, daemon, channel, LinkTypes
<1> QED BY <1>2, <1>3, <1>4, <1>5, <1>6, <1>7, <1>8 DEF Next, User, Exhausted

\* What a push makes of the lane.
LEMMA PushIs ==
  ASSUME LaneTypes, NEW c, NEW f \in Frame, Push(c, f)
  PROVE  /\ LaneTypes'
         /\ Live(c) => lane' = Append(lane, f)
         /\ ~Live(c) => lane' = lane
BY DEF Push, LaneTypes

\* Every step keeps the types of the lanes.
LEMMA NextLaneTypes == Types /\ [Next]_vars => LaneTypes'
<1> SUFFICES ASSUME Types, [Next]_vars PROVE LaneTypes'
  OBVIOUS
<1>1. LaneTypes /\ TaskTypes /\ EngineTypes
  BY DEF Types
<1>2. CASE DiscardStreaming
  <2>1. session \in Dictation /\ <<>> \in {<<>>, <<"text">>}
    BY <1>1, <1>2 DEF DiscardStreaming, TaskTypes
  <2>2. FinalizeFrame(session, <<>>) \in Frame
    BY <2>1, FramesAre
  <2> QED BY <1>1, <1>2, <2>2, PushIs DEF DiscardStreaming
<1>3. CASE StartStreaming \/ StopStreaming \/ IgnoredCommand \/ Key
  BY <1>1, <1>3 DEF StartStreaming, StopStreaming, IgnoredCommand, Key, channel, LaneTypes
<1>4. ASSUME NEW d \in Dictation, DictationStep(d) PROVE LaneTypes'
  <2>1. CASE SendEdit(d)
    <3>1. edit[d] \in Edit
      BY <1>1 DEF EngineTypes
    <3>2. EditFrame(d, edit[d]) \in Frame
      BY <3>1, FramesAre
    <3> QED BY <1>1, <2>1, <3>2, PushIs DEF SendEdit
  <2>2. CASE Reconciled(d)
    <3>1. FinalizeFrame(d, <<"text">>) \in Frame
      BY FramesAre
    <3> QED BY <1>1, <2>2, <3>1, PushIs DEF Reconciled
  <2>3. CASE SilentRound(d) \/ Decode(d) \/ DriverReturns(d) \/ ReconciledEmpty(d)
    BY <1>1, <2>3 DEF SilentRound, Decode, DriverReturns, ReconciledEmpty, channel, LaneTypes
  <2>4. CASE DriverFinalizes(d) \/ StreamingCap(d) \/ FinalizerRuns(d)
    BY <1>1, <2>4 DEF DriverFinalizes, StreamingCap, FinalizerRuns, LaneTypes
  <2> QED BY <1>4, <2>1, <2>2, <2>3, <2>4 DEF DictationStep
<1>5. CASE DeliverTranscript
  BY <1>1, <1>5, PushIs, FramesAre DEF DeliverTranscript
<1>6. CASE Ready \/ ServerDies \/ DaemonDies \/ Register \/ ForwardState
  <2>1. CASE lane' = lane
    BY <1>1, <2>1 DEF LaneTypes
  <2>2. CASE lane' = <<>>
    BY <2>2 DEF LaneTypes
  <2> QED BY <1>6, <2>1, <2>2 DEF Ready, ServerDies, DaemonDies, Register, ForwardState
<1>7. CASE ForwardFrame
  BY <1>1, <1>7, HeadTail DEF ForwardFrame, LaneTypes
<1>8. CASE UNCHANGED vars
  BY <1>1, <1>8 DEF vars, channel, LaneTypes
<1> QED BY <1>2, <1>3, <1>4, <1>5, <1>6, <1>7, <1>8 DEF Next, User, Connection, Exhausted

-----------------------------------------------------------------------------
(* The prompt and the cursor *)

\* What a step does to the prompt: nothing; a dictation begins; an edit and a
\* finalize arrive; a key or a transcript is typed; a key erases.
Untouched ==
  UNCHANGED <<cursor, prompt>> /\ (retracted => retracted') /\ (~spoiled' => ~spoiled)

Begins ==
  /\ prompt' = prompt /\ cursor' = FreshCursor
  /\ ~spoiled' => ~spoiled /\ ~(PreviewLen(cursor) > 0)

Arrived(f) == lane # <<>> /\ f = Head(lane) /\ lane' = Tail(lane)

Edits(f) ==
  /\ Arrived(f) /\ f.kind = "edit"
  /\ prompt' = Typed(prompt, EditBytes(cursor, f.edit.committed, f.edit.tail))
  /\ cursor' = EditCursor(cursor, f.edit.committed, f.edit.tail)
  /\ retracted => retracted'
  /\ ~spoiled' => ~spoiled /\ ~Astray(f.dictation)

Ends(f) ==
  /\ Arrived(f) /\ f.kind = "finalize"
  /\ prompt' = Typed(prompt, FinalizeBytes(cursor, f.text)) /\ cursor' = FreshCursor
  /\ ~spoiled' => ~spoiled /\ ~Astray(f.dictation)

Strikes ==
  /\ cursor' = cursor
  /\ ~spoiled' => ~spoiled /\ (PreviewLen(cursor) > 0 => ~HasPreview(prompt))

Types1(x) ==
  Strikes /\ prompt' = Append(prompt, x) /\ (retracted => retracted')

Erases ==
  /\ Strikes
  /\ \E n \in 1 .. Len(prompt) : prompt' = Keep(prompt, n)
  /\ PreviewLen(cursor) > 0 => retracted'

\* A frame is one of the three.
LEMMA FrameArrives ==
  ASSUME LaneTypes, PromptTypes, ForwardFrame
  PROVE  \E f \in Frame :
           /\ Arrived(f)
           /\ \/ Edits(f)
              \/ Ends(f)
              \/ f.kind = "transcript" /\ Types1("text")
<1> DEFINE f == Head(lane)
<1>1. f \in Frame /\ Arrived(f)
  BY HeadTail DEF LaneTypes, ForwardFrame, Arrived
<1>2. CASE f.kind = "edit" /\ ApplyEdit(f.dictation, f.edit)
  <2>1. ~spoiled' => ~spoiled /\ ~Astray(f.dictation)
    BY <1>2, Zenon DEF ApplyEdit, Spoil
  <2>2. Edits(f)
    BY <1>1, <1>2, <2>1 DEF ApplyEdit, Inject, Edits
  <2> QED BY <1>1, <2>2
<1>3. CASE f.kind = "finalize" /\ ApplyFinalize(f.dictation, f.text)
  <2>1. ~spoiled' => ~spoiled /\ ~Astray(f.dictation)
    BY <1>3, Zenon DEF ApplyFinalize, Spoil
  <2>2. Ends(f)
    BY <1>1, <1>3, <2>1 DEF ApplyFinalize, Inject, Ends
  <2> QED BY <1>1, <2>2
<1>4. CASE f.kind = "transcript" /\ ApplyTranscript
  <2>1. ~spoiled' => ~spoiled /\ ~(PreviewLen(cursor) > 0)
    BY <1>4, Zenon DEF ApplyTranscript, Spoil
  <2>2. Typed(prompt, [erase |-> 0, text |-> <<"text">>]) = Append(prompt, "text")
    <3>1. prompt \in Seq(Text) /\ "text" \in Text
      BY DEF PromptTypes, Text
    <3>2. SubSeq(prompt, 1, Len(prompt) - 0) = prompt
      BY <3>1
    <3>3. prompt \o <<"text">> = Append(prompt, "text")
      BY <3>1
    <3> QED BY <3>2, <3>3 DEF Typed, Keep
  <2>3. prompt' = Append(prompt, "text") /\ cursor' = cursor
    BY <1>4, <2>2 DEF ApplyTranscript, Inject
  <2>4. Types1("text")
    BY <1>4, <2>1, <2>3 DEF Types1, Strikes, ApplyTranscript
  <2> QED BY <1>1, <1>4, <2>4
<1> QED BY <1>2, <1>3, <1>4 DEF ForwardFrame

\* A state is applied.
LEMMA StateArrives == ASSUME NEW s, ApplyState(s) PROVE Untouched \/ Begins
<1>1. ~spoiled' => ~spoiled /\ (s = "streaming" => ~(PreviewLen(cursor) > 0))
  BY Zenon DEF ApplyState, Spoil
<1> QED BY <1>1 DEF ApplyState, Untouched, Begins

\* A key is suppressed or typed, or it erases.
LEMMA KeyArrives == ASSUME Key PROVE Untouched \/ Types1("key") \/ Erases
<1>1. ~spoiled' => ~spoiled /\ (~suppress => ~HasPreview(prompt))
  BY Zenon DEF Key, Spoil
<1>2. CASE suppress
  BY <1>1, <1>2 DEF Key, Untouched
<1>3. CASE ~suppress /\ retracted' = retracted /\ prompt' = Append(prompt, "key")
  BY <1>1, <1>3 DEF Key, Strikes, Types1
<1>4. CASE /\ ~suppress /\ \E n \in 1 .. Len(prompt) : prompt' = Keep(prompt, n)
           /\ retracted' = (retracted \/ PreviewLen(cursor) > 0)
  <2>1. PreviewLen(cursor) > 0 => retracted'
    BY <1>4, Zenon
  <2>2. Strikes
    BY <1>1, <1>4 DEF Key, Strikes
  <2> QED BY <1>4, <2>1, <2>2 DEF Erases
<1> QED BY <1>2, <1>3, <1>4 DEF Key

\* What a step does to the prompt: nothing, a new dictation, a frame or typing.
LEMMA PromptKinds ==
  ASSUME LaneTypes, PromptTypes, [Next]_vars
  PROVE  \/ Untouched
         \/ Begins
         \/ \E f \in Frame : Edits(f) \/ Ends(f)
         \/ \E x \in {"key", "text"} : Types1(x)
         \/ Key /\ Erases
<1>1. CASE StartStreaming
  <2>1. ~spoiled' => ~spoiled
    BY <1>1, Zenon DEF StartStreaming, Spoil
  <2> QED BY <1>1, <2>1 DEF StartStreaming, wrapper, Untouched
<1>2. CASE StopStreaming \/ DiscardStreaming \/ IgnoredCommand
  BY <1>2 DEF StopStreaming, DiscardStreaming, IgnoredCommand, wrapper, Untouched
<1>3. CASE Key
  BY <1>3, KeyArrives
<1>4. ASSUME NEW d \in Dictation, DictationStep(d) PROVE Untouched
  <2>1. CASE SendEdit(d)
    <3>1. ~spoiled' => ~spoiled
      BY <2>1, Zenon DEF SendEdit, Spoil
    <3> QED BY <2>1, <3>1 DEF SendEdit, wrapper, Untouched
  <2>2. CASE SilentRound(d) \/ Decode(d) \/ DriverReturns(d) \/ DriverFinalizes(d)
    BY <2>2 DEF SilentRound, Decode, DriverReturns, DriverFinalizes, wrapper, Untouched
  <2>3. CASE StreamingCap(d) \/ FinalizerRuns(d) \/ Reconciled(d) \/ ReconciledEmpty(d)
    BY <2>3 DEF StreamingCap, FinalizerRuns, Reconciled, ReconciledEmpty, wrapper, Untouched
  <2> QED BY <1>4, <2>1, <2>2, <2>3 DEF DictationStep
<1>5. CASE DeliverTranscript \/ Ready \/ ServerDies \/ DaemonDies
  BY <1>5 DEF DeliverTranscript, Ready, ServerDies, DaemonDies, wrapper, Untouched
<1>6. CASE Register \/ ForwardState
  BY <1>6, StateArrives DEF Register, ForwardState
<1>7. CASE ForwardFrame
  BY <1>7, FrameArrives
<1>8. CASE UNCHANGED vars
  BY <1>8 DEF vars, wrapper, Untouched
<1> QED BY <1>1, <1>2, <1>3, <1>4, <1>5, <1>6, <1>7, <1>8 DEF Next, User, Connection, Exhausted

\* What is left of a text, and what is typed behind it.
LEMMA TypedIs ==
  ASSUME NEW s \in Seq(Text), NEW n \in 0 .. Len(s), NEW t \in Seq(Text)
  PROVE  LET after == Typed(s, [erase |-> n, text |-> t])
             kept  == Len(s) - n
         IN /\ after \in Seq(Text) /\ kept \in Nat /\ Len(after) = kept + Len(t)
            /\ after = SubSeq(s, 1, kept) \o t
            /\ \A i \in 1 .. kept : after[i] = s[i]
            /\ \A i \in 1 .. Len(t) : after[kept + i] = t[i]
<1> DEFINE kept == Len(s) - n
<1>1. kept \in 0 .. Len(s) /\ kept \in Nat
  OBVIOUS
<1> HIDE DEF kept
<1>2. PICK front \in Seq(Text) :
        front = SubSeq(s, 1, kept) /\ Len(front) = kept /\ \A i \in 1 .. kept : front[i] = s[i]
  <2>1. /\ SubSeq(s, 1, kept) \in Seq(Text) /\ Len(SubSeq(s, 1, kept)) = kept
        /\ \A i \in 1 .. kept : SubSeq(s, 1, kept)[i] = s[i]
    BY <1>1
  <2> QED BY <2>1
<1>3. Typed(s, [erase |-> n, text |-> t]) = front \o t
  BY <1>2 DEF Typed, Keep, kept
<1>4. /\ front \o t \in Seq(Text) /\ Len(front \o t) = Len(front) + Len(t)
      /\ \A i \in 1 .. Len(front) : (front \o t)[i] = front[i]
      /\ \A i \in 1 .. Len(t) : (front \o t)[Len(front) + i] = t[i]
  BY ConcatIs
<1> QED BY <1>1, <1>2, <1>3, <1>4 DEF kept

\* The texts of frames are texts of the prompt, and words are not keys.
LEMMA WordsAreText ==
  /\ Seq(Words) \subseteq Seq(Text) /\ {<<>>, <<"text">>} \subseteq Seq(Text)
  /\ {"key", "text"} \subseteq Text /\ {"key", "text"} \cap Words = {}
<1>1. Words \subseteq Text /\ {"key", "text"} \subseteq Text
  BY DEF Text
<1>2. Seq(Words) \subseteq Seq(Text)
  BY <1>1, SeqWidens
<1> QED BY <1>1, <1>2, WordsAssumption

\* The cursor never covers more than there is.
LEMMA CursorFits ==
  ASSUME PromptTypes, Covered
  PROVE  /\ cursor.stable \in Nat /\ cursor.tail \in Nat /\ Len(prompt) \in Nat
         /\ PreviewLen(cursor) \in 0 .. Len(prompt) /\ cursor.tail \in 0 .. Len(prompt)
<1>1. cursor.stable \in Nat /\ cursor.tail \in Nat /\ Len(prompt) \in Nat
  BY DEF PromptTypes
<1>2. PreviewLen(cursor) + 0 <= Len(prompt)
  BY <1>1 DEF Covered
<1> QED BY <1>1, <1>2 DEF PreviewLen

\* An edit erases the tail and types words behind what it kept.
LEMMA EditIs ==
  ASSUME PromptTypes, Covered, NEW f \in Frame, Edits(f)
  PROVE  LET kept  == Len(prompt) - cursor.tail
             added == Len(f.edit.committed) + Len(f.edit.tail)
         IN /\ f.edit.committed \in Seq(Words) /\ f.edit.tail \in Seq(Words)
            /\ prompt' = SubSeq(prompt, 1, kept) \o (f.edit.committed \o f.edit.tail)
            /\ prompt' \in Seq(Text) /\ kept \in Nat /\ added \in Nat
            /\ Len(prompt') = kept + added
            /\ \A i \in 1 .. kept : prompt'[i] = prompt[i]
            /\ \A i \in kept + 1 .. kept + added : prompt'[i] \in Words
            /\ cursor'.stable = cursor.stable + Len(f.edit.committed)
            /\ cursor'.tail = Len(f.edit.tail)
            /\ cursor' \in [stable : Nat, tail : Nat]
            /\ PreviewLen(cursor') = cursor.stable + added
<1> DEFINE c == f.edit.committed
           t == f.edit.tail
           kept == Len(prompt) - cursor.tail
<1>1. c \in Seq(Words) /\ t \in Seq(Words)
  BY FrameIs DEF Edits
<1>2. prompt' = Typed(prompt, [erase |-> cursor.tail, text |-> c \o t])
      /\ cursor' = [stable |-> cursor.stable + Len(c), tail |-> Len(t)]
  BY DEF Edits, EditBytes, EditCursor
<1>3. prompt \in Seq(Text) /\ cursor.tail \in 0 .. Len(prompt) /\ cursor.stable \in Nat
  BY CursorFits DEF PromptTypes
<1> HIDE DEF c, t
<1>4. /\ c \o t \in Seq(Words) /\ Len(c \o t) = Len(c) + Len(t)
      /\ Len(c) \in Nat /\ Len(t) \in Nat
  BY <1>1
<1>5. c \o t \in Seq(Text)
  BY <1>4, WordsAreText
<1>6. /\ prompt' \in Seq(Text) /\ kept \in Nat /\ Len(prompt') = kept + (Len(c) + Len(t))
      /\ prompt' = SubSeq(prompt, 1, kept) \o (c \o t)
      /\ \A i \in 1 .. kept : prompt'[i] = prompt[i]
      /\ \A i \in 1 .. Len(c) + Len(t) : prompt'[kept + i] = (c \o t)[i]
  <2>1. LET after == Typed(prompt, [erase |-> cursor.tail, text |-> c \o t])
        IN /\ after \in Seq(Text) /\ kept \in Nat /\ Len(after) = kept + Len(c \o t)
           /\ after = SubSeq(prompt, 1, kept) \o (c \o t)
           /\ \A i \in 1 .. kept : after[i] = prompt[i]
           /\ \A i \in 1 .. Len(c \o t) : after[kept + i] = (c \o t)[i]
    BY <1>3, <1>5, TypedIs
  <2> QED BY <1>2, <1>4, <2>1
<1>7. \A i \in kept + 1 .. kept + (Len(c) + Len(t)) : prompt'[i] \in Words
  <2> SUFFICES ASSUME NEW i \in kept + 1 .. kept + (Len(c) + Len(t)) PROVE prompt'[i] \in Words
    OBVIOUS
  <2>1. i - kept \in 1 .. Len(c) + Len(t) /\ kept + (i - kept) = i
    <3>1. kept \in Nat /\ Len(c) + Len(t) \in Nat
      BY <1>4, <1>6
    <3> HIDE DEF kept
    <3> QED BY <3>1
  <2>2. (c \o t)[i - kept] \in Words
    BY <1>4, <2>1
  <2> QED BY <1>6, <2>1, <2>2
<1>8. cursor' \in [stable : Nat, tail : Nat] /\ cursor'.stable = cursor.stable + Len(c)
      /\ cursor'.tail = Len(t) /\ Len(c) + Len(t) \in Nat
  BY <1>2, <1>3, <1>4
<1>9. PreviewLen(cursor') = cursor.stable + (Len(c) + Len(t))
  <2>1. PreviewLen(cursor') = cursor'.stable + cursor'.tail
    BY DEF PreviewLen
  <2>2. cursor.stable \in Nat /\ Len(c) \in Nat /\ Len(t) \in Nat
    BY <1>3, <1>4
  <2>3. cursor'.stable + cursor'.tail = (cursor.stable + Len(c)) + Len(t)
    BY <1>8
  <2> QED BY <2>1, <2>2, <2>3
<1> QED BY <1>1, <1>6, <1>7, <1>8, <1>9 DEF c, t

\* A finalize erases the preview and types no word behind what it kept.
LEMMA EndIs ==
  ASSUME PromptTypes, Covered, NEW f \in Frame, Ends(f)
  PROVE  LET kept == Len(prompt) - PreviewLen(cursor)
         IN /\ prompt' \in Seq(Text) /\ kept \in 0 .. Len(prompt)
            /\ kept <= Len(prompt')
            /\ \A i \in 1 .. kept : prompt'[i] = prompt[i]
            /\ \A i \in kept + 1 .. Len(prompt') : prompt'[i] \notin Words
            /\ cursor' \in [stable : Nat, tail : Nat] /\ PreviewLen(cursor') = 0
<1> DEFINE kept == Len(prompt) - PreviewLen(cursor)
           t == f.text
<1>1. t \in {<<>>, <<"text">>}
  BY FrameIs DEF Ends
<1>2. prompt' = Typed(prompt, [erase |-> PreviewLen(cursor), text |-> t])
      /\ cursor' = [stable |-> 0, tail |-> 0]
  BY DEF Ends, FinalizeBytes, FreshCursor
<1>3. prompt \in Seq(Text) /\ PreviewLen(cursor) \in 0 .. Len(prompt)
  BY CursorFits DEF PromptTypes
<1> HIDE DEF t
<1>4. t \in Seq(Text) /\ Len(t) \in {0, 1} /\ \A i \in 1 .. Len(t) : t[i] = "text"
  <2>1. t \in Seq(Text)
    BY <1>1, WordsAreText
  <2>2. CASE t = <<>>
    BY <2>1, <2>2
  <2>3. CASE t = <<"text">>
    BY <2>1, <2>3
  <2> QED BY <1>1, <2>2, <2>3
<1>5. /\ prompt' \in Seq(Text) /\ Len(prompt') = kept + Len(t)
      /\ \A i \in 1 .. kept : prompt'[i] = prompt[i]
      /\ \A i \in 1 .. Len(t) : prompt'[kept + i] = t[i]
  BY <1>2, <1>3, <1>4, TypedIs
<1>6. kept \in 0 .. Len(prompt)
  BY <1>3
<1> HIDE DEF kept
<1>7. \A i \in kept + 1 .. Len(prompt') : prompt'[i] \notin Words
  <2> SUFFICES ASSUME NEW i \in kept + 1 .. Len(prompt') PROVE prompt'[i] \notin Words
    OBVIOUS
  <2>1. i - kept \in 1 .. Len(t) /\ kept + (i - kept) = i
    BY <1>4, <1>5, <1>6
  <2>2. prompt'[i] = "text"
    BY <1>4, <1>5, <2>1
  <2> QED BY <2>2, WordsAreText
<1>8. cursor' \in [stable : Nat, tail : Nat] /\ PreviewLen(cursor') = 0
  BY <1>2 DEF PreviewLen
<1>9. kept <= Len(prompt')
  BY <1>4, <1>5, <1>6
<1> QED BY <1>5, <1>6, <1>7, <1>8, <1>9 DEF kept

\* Something is typed at the end.
LEMMA TypingIs ==
  ASSUME PromptTypes, NEW x \in {"key", "text"}, Types1(x)
  PROVE  /\ prompt' \in Seq(Text) /\ cursor' = cursor
         /\ Len(prompt') = Len(prompt) + 1 /\ Len(prompt) \in Nat
         /\ \A i \in 1 .. Len(prompt) : prompt'[i] = prompt[i]
         /\ prompt'[Len(prompt) + 1] \notin Words
<1>1. x \in Text /\ x \notin Words /\ prompt \in Seq(Text)
  BY WordsAreText DEF PromptTypes
<1>2. prompt' = Append(prompt, x) /\ cursor' = cursor
  BY DEF Types1, Strikes
<1> QED BY <1>1, <1>2, Appended

\* Something at the end is erased by a key.
LEMMA ErasedIs ==
  ASSUME PromptTypes, Erases
  PROVE  /\ prompt' \in Seq(Text) /\ cursor' = cursor
         /\ Len(prompt') \in 0 .. Len(prompt) /\ Len(prompt) \in Nat
         /\ \A i \in 1 .. Len(prompt') : prompt'[i] = prompt[i]
<1>1. prompt \in Seq(Text) /\ Len(prompt) \in Nat
  BY DEF PromptTypes
<1>2. PICK n \in 1 .. Len(prompt) : prompt' = SubSeq(prompt, 1, Len(prompt) - n)
  BY DEF Erases, Keep
<1>3. PICK m \in 0 .. Len(prompt) : m = Len(prompt) - n
  BY <1>1
<1>4. /\ SubSeq(prompt, 1, m) \in Seq(Text) /\ Len(SubSeq(prompt, 1, m)) = m
      /\ \A i \in 1 .. m : SubSeq(prompt, 1, m)[i] = prompt[i]
  BY <1>1
<1>5. cursor' = cursor
  BY DEF Erases, Strikes
<1> QED BY <1>1, <1>2, <1>3, <1>4, <1>5

\* A new dictation begins with nothing shown.
LEMMA BeginIs ==
  ASSUME Begins
  PROVE  /\ prompt' = prompt /\ cursor' \in [stable : Nat, tail : Nat]
         /\ PreviewLen(cursor') = 0
BY DEF Begins, FreshCursor, PreviewLen

\* A text stays a text, however much more than there is in it is erased.
LEMMA TypedIsText ==
  ASSUME NEW s \in Seq(Text), NEW n \in Nat, NEW t \in Seq(Text)
  PROVE  Typed(s, [erase |-> n, text |-> t]) \in Seq(Text)
<1>1. CASE n <= Len(s)
  <2>1. n \in 0 .. Len(s)
    BY <1>1
  <2> QED BY <2>1, TypedIs
<1>2. CASE ~(n <= Len(s))
  <2>1. PICK m \in Int : m = Len(s) - n /\ m < 1
    BY <1>2
  <2>2. SubSeq(s, 1, m) = <<>>
    BY <2>1
  <2>3. <<>> \o t = t
    OBVIOUS
  <2> QED BY <2>1, <2>2, <2>3 DEF Typed, Keep
<1> QED BY <1>1, <1>2

\* Every step keeps the types of the prompt.
LEMMA NextPromptTypes == LaneTypes /\ PromptTypes /\ [Next]_vars => PromptTypes'
<1> SUFFICES ASSUME LaneTypes, PromptTypes, [Next]_vars PROVE PromptTypes'
  OBVIOUS
<1>1. CASE Untouched
  BY <1>1 DEF Untouched, PromptTypes
<1>2. CASE Begins
  BY <1>2, BeginIs DEF PromptTypes
<1>3. ASSUME NEW f \in Frame, Edits(f) PROVE PromptTypes'
  <2> DEFINE c == f.edit.committed
             t == f.edit.tail
  <2>1. c \in Seq(Words) /\ t \in Seq(Words)
    BY <1>3, FrameIs DEF Edits
  <2>2. prompt' = Typed(prompt, [erase |-> cursor.tail, text |-> c \o t])
        /\ cursor' = [stable |-> cursor.stable + Len(c), tail |-> Len(t)]
    BY <1>3 DEF Edits, EditBytes, EditCursor
  <2>3. /\ prompt \in Seq(Text) /\ cursor.tail \in Nat /\ cursor.stable \in Nat
    BY DEF PromptTypes
  <2> HIDE DEF c, t
  <2>4. c \o t \in Seq(Text) /\ Len(c) \in Nat /\ Len(t) \in Nat
    <3>1. c \o t \in Seq(Words)
      BY <2>1
    <3> QED BY <2>1, <3>1, WordsAreText
  <2>5. prompt' \in Seq(Text)
    BY <2>2, <2>3, <2>4, TypedIsText
  <2>6. cursor' \in [stable : Nat, tail : Nat]
    BY <2>2, <2>3, <2>4
  <2> QED BY <2>5, <2>6 DEF PromptTypes
<1>4. ASSUME NEW f \in Frame, Ends(f) PROVE PromptTypes'
  <2>1. f.text \in Seq(Text)
    BY <1>4, FrameIs, WordsAreText DEF Ends
  <2>2. prompt' = Typed(prompt, [erase |-> PreviewLen(cursor), text |-> f.text])
        /\ cursor' = [stable |-> 0, tail |-> 0]
    BY <1>4 DEF Ends, FinalizeBytes, FreshCursor
  <2>3. prompt \in Seq(Text) /\ PreviewLen(cursor) \in Nat
    BY DEF PromptTypes, PreviewLen
  <2>4. prompt' \in Seq(Text)
    BY <2>1, <2>2, <2>3, TypedIsText
  <2> QED BY <2>2, <2>4 DEF PromptTypes
<1>5. ASSUME NEW x \in {"key", "text"}, Types1(x) PROVE PromptTypes'
  BY <1>5, TypingIs DEF PromptTypes
<1>6. CASE Erases
  BY <1>6, ErasedIs DEF PromptTypes
<1> QED BY <1>1, <1>2, <1>3, <1>4, <1>5, <1>6, PromptKinds

\* Every step but an erasure by the user keeps the cursor within what was typed.
LEMMA NextCovered ==
  LaneTypes /\ PromptTypes /\ Covered /\ [Next]_vars => Covered' \/ Erases
<1> SUFFICES ASSUME LaneTypes, PromptTypes, Covered, [Next]_vars, ~Erases,
                    NEW n \in 0 .. Len(prompt'),
                    \A i \in 1 .. n : prompt'[i] \notin Words
             PROVE  PreviewLen(cursor') + n <= Len(prompt')
  BY DEF Covered
<1>1. /\ cursor.stable \in Nat /\ cursor.tail \in Nat /\ Len(prompt) \in Nat
      /\ PreviewLen(cursor) \in 0 .. Len(prompt) /\ PreviewLen(cursor) = cursor.stable + cursor.tail
  BY CursorFits DEF PreviewLen
<1>2. CASE Untouched
  BY <1>2 DEF Untouched, Covered
<1>3. CASE Begins
  <2>1. prompt' = prompt /\ PreviewLen(cursor') = 0
    BY <1>3, BeginIs
  <2> QED BY <1>1, <2>1
<1>4. ASSUME NEW f \in Frame, Edits(f)
      PROVE  PreviewLen(cursor') + n <= Len(prompt')
  <2> DEFINE kept  == Len(prompt) - cursor.tail
             added == Len(f.edit.committed) + Len(f.edit.tail)
  <2>1. /\ kept \in Nat /\ added \in Nat /\ Len(prompt') = kept + added
        /\ \A i \in 1 .. kept : prompt'[i] = prompt[i]
        /\ \A i \in kept + 1 .. kept + added : prompt'[i] \in Words
        /\ PreviewLen(cursor') = cursor.stable + added
    BY <1>4, EditIs
  <2> HIDE DEF added
  <2>2. n <= kept
    <3> SUFFICES ASSUME n > kept PROVE FALSE
      BY <2>1
    <3> HIDE DEF kept
    <3>1. kept + 1 \in 1 .. n /\ kept + 1 \in kept + 1 .. kept + added
      BY <2>1
    <3> QED BY <2>1, <3>1
  <2>3. \A i \in 1 .. n : prompt[i] \notin Words
    <3> HIDE DEF kept
    <3> QED BY <2>1, <2>2
  <2>4. n \in 0 .. Len(prompt)
    BY <1>1, <2>1, <2>2
  <2>5. PreviewLen(cursor) + n <= Len(prompt)
    BY <2>3, <2>4 DEF Covered
  <2> QED BY <1>1, <2>1, <2>5
<1>5. ASSUME NEW f \in Frame, Ends(f)
      PROVE  PreviewLen(cursor') + n <= Len(prompt')
  <2>1. PreviewLen(cursor') = 0 /\ prompt' \in Seq(Text)
    BY <1>5, EndIs
  <2> QED BY <2>1
<1>6. ASSUME NEW x \in {"key", "text"}, Types1(x)
      PROVE  PreviewLen(cursor') + n <= Len(prompt')
  <2>1. /\ cursor' = cursor /\ Len(prompt') = Len(prompt) + 1
        /\ \A i \in 1 .. Len(prompt) : prompt'[i] = prompt[i]
    BY <1>6, TypingIs
  <2>2. PICK m \in 0 .. Len(prompt) : m <= n /\ n <= m + 1
    <3>1. CASE n <= Len(prompt)
      BY <1>1, <3>1
    <3>2. CASE n = Len(prompt) + 1
      BY <1>1, <3>2
    <3> QED BY <1>1, <2>1, <3>1, <3>2
  <2>3. \A i \in 1 .. m : prompt[i] \notin Words
    BY <1>1, <2>1, <2>2
  <2>4. PreviewLen(cursor) + m <= Len(prompt)
    BY <2>3 DEF Covered
  <2> QED BY <1>1, <2>1, <2>2, <2>4
<1> QED BY <1>2, <1>3, <1>4, <1>5, <1>6, PromptKinds

\* A cursor that covers nothing covers no more than there is.
LEMMA NothingCovered ==
  ASSUME PromptTypes', PreviewLen(cursor') = 0
  PROVE  Covered'
<1>1. Len(prompt') \in Nat
  BY DEF PromptTypes
<1> QED BY <1>1 DEF Covered

\* If there is no word in the prompt, the cursor covers nothing.
LEMMA NoPreview ==
  ASSUME PromptTypes, Covered, ~HasPreview(prompt)
  PROVE  PreviewLen(cursor) = 0
<1>1. Len(prompt) \in 0 .. Len(prompt) /\ Len(prompt) \in Nat /\ DOMAIN prompt = 1 .. Len(prompt)
  BY DEF PromptTypes
<1>2. \A i \in 1 .. Len(prompt) : prompt[i] \notin Words
  BY <1>1 DEF HasPreview
<1>3. PreviewLen(cursor) + Len(prompt) <= Len(prompt)
  BY <1>1, <1>2 DEF Covered
<1> QED BY <1>1, <1>3, CursorFits

\* Every step keeps the cursor covered, or the user has erased.
LEMMA NextCursorCovered ==
  LaneTypes /\ PromptTypes /\ CursorCovered /\ [Next]_vars => CursorCovered'
<1> SUFFICES ASSUME LaneTypes, PromptTypes, CursorCovered, [Next]_vars PROVE CursorCovered'
  OBVIOUS
<1>1. PromptTypes'
  BY NextPromptTypes
<1>2. CASE Erases
  <2>1. CASE PreviewLen(cursor) = 0
    BY <1>1, <1>2, <2>1, NothingCovered DEF Erases, Strikes, CursorCovered
  <2>2. CASE PreviewLen(cursor) > 0
    <3>1. ~spoiled' => ~spoiled /\ ~HasPreview(prompt)
      BY <1>2, <2>2 DEF Erases, Strikes
    <3>2. spoiled'
      <4>1. SUFFICES ASSUME ~spoiled' PROVE FALSE
        OBVIOUS
      <4>2. Covered /\ ~HasPreview(prompt)
        BY <3>1, <4>1 DEF CursorCovered
      <4>3. PreviewLen(cursor) = 0
        BY <4>2, NoPreview
      <4> QED BY <2>2, <4>3
    <3> QED BY <1>2, <2>2, <3>2 DEF Erases, CursorCovered
  <2>3. PreviewLen(cursor) \in Nat
    BY DEF PromptTypes, PreviewLen
  <2> QED BY <2>1, <2>2, <2>3
<1>3. CASE Covered
  BY <1>2, <1>3, NextCovered DEF CursorCovered
<1>4. CASE retracted /\ spoiled
  <2>1. ASSUME NEW f \in Frame, Ends(f) PROVE CursorCovered'
    <3>1. PreviewLen(cursor') = 0
      BY <2>1 DEF Ends, FreshCursor, PreviewLen
    <3> QED BY <1>1, <3>1, NothingCovered DEF CursorCovered
  <2>2. CASE Begins
    BY <1>1, <2>2, BeginIs, NothingCovered DEF CursorCovered
  <2>3. ASSUME NEW f \in Frame, Edits(f) PROVE CursorCovered'
    BY <1>4, <2>3 DEF Edits, CursorCovered
  <2>4. CASE Untouched
    BY <1>4, <2>4 DEF Untouched, CursorCovered
  <2>5. ASSUME NEW x \in {"key", "text"}, Types1(x) PROVE CursorCovered'
    BY <1>4, <2>5 DEF Types1, Strikes, CursorCovered
  <2> QED BY <1>2, <2>1, <2>2, <2>3, <2>4, <2>5, PromptKinds
<1> QED BY <1>3, <1>4 DEF CursorCovered

\* What stands before the first word stays, whatever the wrapper does.
LEMMA NextPromptKept ==
  ASSUME LaneTypes, PromptTypes, Covered, ~Key, [Next]_vars
  PROVE  \A n \in DOMAIN prompt :
           (\A i \in 1 .. n : prompt[i] \notin Words)
             => n \in DOMAIN prompt' /\ prompt'[n] = prompt[n]
<1> SUFFICES ASSUME NEW n \in DOMAIN prompt, \A i \in 1 .. n : prompt[i] \notin Words
             PROVE  n \in DOMAIN prompt' /\ prompt'[n] = prompt[n]
  OBVIOUS
<1>1. /\ prompt \in Seq(Text) /\ n \in 1 .. Len(prompt) /\ Len(prompt) \in Nat
      /\ cursor.stable \in Nat /\ cursor.tail \in Nat
      /\ PreviewLen(cursor) = cursor.stable + cursor.tail
  BY CursorFits DEF PromptTypes, PreviewLen
<1>2. PreviewLen(cursor) + n <= Len(prompt)
  <2>1. n \in 0 .. Len(prompt)
    BY <1>1
  <2> QED BY <2>1 DEF Covered
<1>3. \A kept \in Nat : n <= kept /\ prompt' \in Seq(Text) /\ kept <= Len(prompt')
        /\ (\A i \in 1 .. kept : prompt'[i] = prompt[i])
        => n \in DOMAIN prompt' /\ prompt'[n] = prompt[n]
  BY <1>1
<1>4. CASE Untouched \/ Begins
  BY <1>1, <1>4 DEF Untouched, Begins
<1>5. ASSUME NEW f \in Frame, Edits(f) PROVE n \in DOMAIN prompt' /\ prompt'[n] = prompt[n]
  <2> DEFINE kept  == Len(prompt) - cursor.tail
             added == Len(f.edit.committed) + Len(f.edit.tail)
  <2>1. /\ prompt' \in Seq(Text) /\ kept \in Nat /\ added \in Nat /\ Len(prompt') = kept + added
        /\ \A i \in 1 .. kept : prompt'[i] = prompt[i]
    BY <1>5, EditIs
  <2>2. n <= kept
    BY <1>1, <1>2
  <2> HIDE DEF kept, added
  <2>3. kept <= Len(prompt')
    BY <2>1
  <2> QED BY <1>3, <2>1, <2>2, <2>3
<1>6. ASSUME NEW f \in Frame, Ends(f) PROVE n \in DOMAIN prompt' /\ prompt'[n] = prompt[n]
  <2> DEFINE kept == Len(prompt) - PreviewLen(cursor)
  <2>1. /\ prompt' \in Seq(Text) /\ kept \in 0 .. Len(prompt) /\ kept <= Len(prompt')
        /\ \A i \in 1 .. kept : prompt'[i] = prompt[i]
    BY <1>6, EndIs
  <2>2. n <= kept /\ kept \in Nat
    BY <1>1, <1>2
  <2> HIDE DEF kept
  <2> QED BY <1>3, <2>1, <2>2
<1>7. ASSUME NEW x \in {"key", "text"}, Types1(x)
      PROVE  n \in DOMAIN prompt' /\ prompt'[n] = prompt[n]
  <2>1. /\ prompt' \in Seq(Text) /\ Len(prompt') = Len(prompt) + 1
        /\ \A i \in 1 .. Len(prompt) : prompt'[i] = prompt[i]
    BY <1>7, TypingIs
  <2> QED BY <1>1, <1>3, <2>1
<1> QED BY <1>4, <1>5, <1>6, <1>7, PromptKinds

\* Every step keeps the words of the preview at the end.
LEMMA NextPreviewAtEnd ==
  LaneTypes /\ PromptTypes /\ CursorCovered /\ PreviewAtEnd /\ [Next]_vars => PreviewAtEnd'
<1> SUFFICES ASSUME LaneTypes, PromptTypes, CursorCovered, PreviewAtEnd, [Next]_vars, ~spoiled',
                    NEW i \in DOMAIN prompt'
             PROVE  prompt'[i] \in Words <=> i > Len(prompt') - PreviewLen(cursor')
  BY DEF PreviewAtEnd
<1>0. ~spoiled /\ Covered
  <2>1. ~spoiled
    BY PromptKinds DEF Untouched, Begins, Edits, Ends, Types1, Erases, Strikes
  <2> QED BY <2>1 DEF CursorCovered
<1>1. /\ cursor.stable \in Nat /\ cursor.tail \in Nat /\ Len(prompt) \in Nat
      /\ PreviewLen(cursor) \in 0 .. Len(prompt) /\ PreviewLen(cursor) = cursor.stable + cursor.tail
      /\ DOMAIN prompt = 1 .. Len(prompt)
  BY <1>0, CursorFits DEF PreviewLen, PromptTypes
<1>2. ~spoiled => \A j \in 1 .. Len(prompt) :
        prompt[j] \in Words <=> j > Len(prompt) - PreviewLen(cursor)
  BY <1>1 DEF PreviewAtEnd
<1>3. CASE Untouched
  BY <1>3 DEF Untouched, PreviewAtEnd
<1>4. CASE Begins
  <2>1. ~spoiled /\ PreviewLen(cursor) = 0
    BY <1>1, <1>4 DEF Begins
  <2>2. prompt' = prompt /\ PreviewLen(cursor') = 0
    BY <1>4, BeginIs
  <2> QED BY <1>1, <1>2, <2>1, <2>2
<1>5. ASSUME NEW f \in Frame, Edits(f)
      PROVE  prompt'[i] \in Words <=> i > Len(prompt') - PreviewLen(cursor')
  <2> DEFINE kept  == Len(prompt) - cursor.tail
             added == Len(f.edit.committed) + Len(f.edit.tail)
  <2>1. /\ prompt' \in Seq(Text) /\ kept \in Nat /\ added \in Nat /\ Len(prompt') = kept + added
        /\ \A j \in 1 .. kept : prompt'[j] = prompt[j]
        /\ \A j \in kept + 1 .. kept + added : prompt'[j] \in Words
        /\ PreviewLen(cursor') = cursor.stable + added
    BY <1>0, <1>5, EditIs
  <2> HIDE DEF added
  <2>2. ~spoiled
    BY <1>5 DEF Edits
  <2>3. i \in 1 .. kept + added
    BY <2>1
  <2>4. CASE i <= kept
    <3>1. prompt'[i] = prompt[i] /\ i \in 1 .. Len(prompt)
      BY <1>1, <2>1, <2>3, <2>4
    <3>2. i > Len(prompt') - PreviewLen(cursor') <=> i > Len(prompt) - PreviewLen(cursor)
      BY <1>1, <2>1, <2>3
    <3> QED BY <1>2, <2>2, <3>1, <3>2
  <2>5. CASE ~(i <= kept)
    <3>1. i \in kept + 1 .. kept + added
      BY <2>1, <2>3, <2>5
    <3>2. i > Len(prompt') - PreviewLen(cursor')
      BY <1>1, <2>1, <2>3, <2>5
    <3> QED BY <2>1, <3>1, <3>2
  <2> QED BY <2>4, <2>5
<1>6. ASSUME NEW f \in Frame, Ends(f)
      PROVE  prompt'[i] \in Words <=> i > Len(prompt') - PreviewLen(cursor')
  <2> DEFINE kept == Len(prompt) - PreviewLen(cursor)
  <2>1. /\ prompt' \in Seq(Text) /\ kept \in 0 .. Len(prompt)
        /\ kept <= Len(prompt')
        /\ \A j \in 1 .. kept : prompt'[j] = prompt[j]
        /\ \A j \in kept + 1 .. Len(prompt') : prompt'[j] \notin Words
        /\ PreviewLen(cursor') = 0
    BY <1>0, <1>6, EndIs
  <2>2. ~spoiled
    BY <1>6 DEF Ends
  <2>3. \A j \in 1 .. Len(prompt) : prompt[j] \in Words <=> j > kept
    BY <1>2, <2>2
  <2> HIDE DEF kept
  <2>4. i \in 1 .. Len(prompt') /\ Len(prompt') \in Nat
    BY <2>1
  <2>5. prompt'[i] \notin Words
    <3>1. CASE i <= kept
      BY <2>1, <2>3, <2>4, <3>1
    <3>2. CASE ~(i <= kept)
      BY <2>1, <2>4, <3>2
    <3> QED BY <3>1, <3>2
  <2> QED BY <2>1, <2>4, <2>5
<1>7. ASSUME NEW x \in {"key", "text"}, Types1(x)
      PROVE  prompt'[i] \in Words <=> i > Len(prompt') - PreviewLen(cursor')
  <2>1. ~spoiled /\ PreviewLen(cursor) = 0
    BY <1>0, <1>1, <1>7, NoPreview DEF Types1, Strikes
  <2>2. /\ prompt' \in Seq(Text) /\ cursor' = cursor /\ Len(prompt') = Len(prompt) + 1
        /\ \A j \in 1 .. Len(prompt) : prompt'[j] = prompt[j]
        /\ prompt'[Len(prompt) + 1] \notin Words
    BY <1>7, TypingIs
  <2>3. i \in 1 .. Len(prompt) + 1
    BY <2>2
  <2>4. CASE i \in 1 .. Len(prompt)
    BY <1>1, <1>2, <2>1, <2>2, <2>4
  <2>5. CASE i = Len(prompt) + 1
    BY <1>1, <2>1, <2>2, <2>5
  <2> QED BY <1>1, <2>3, <2>4, <2>5
<1>8. CASE Erases
  <2>1. PreviewLen(cursor) = 0
    BY <1>0, <1>1, <1>8, NoPreview DEF Erases, Strikes
  <2>2. /\ prompt' \in Seq(Text) /\ cursor' = cursor /\ Len(prompt') \in 0 .. Len(prompt)
        /\ \A j \in 1 .. Len(prompt') : prompt'[j] = prompt[j]
    BY <1>8, ErasedIs
  <2>3. i \in 1 .. Len(prompt') /\ i \in 1 .. Len(prompt) /\ prompt'[i] = prompt[i]
    BY <1>1, <2>2
  <2>4. ~(i > Len(prompt)) /\ ~(i > Len(prompt'))
    BY <1>1, <2>2, <2>3
  <2> QED BY <1>0, <1>1, <1>2, <2>1, <2>2, <2>3, <2>4
<1> QED BY <1>3, <1>4, <1>5, <1>6, <1>7, <1>8, PromptKinds

-----------------------------------------------------------------------------
(* What a step does to the dictations and to the lane *)

DriversRest ==
  \A d \in Dictation :
    /\ driver'[d] # "none" => driver[d] # "none"
    /\ driver'[d] = "send" <=> driver[d] = "send"
    /\ driver[d] = "send" => edit'[d] = edit[d]

CountsRest == used'.dictations = used.dictations /\ used'.links = used.links

\* No dictation and no frame is touched.
Rests ==
  /\ UNCHANGED <<session, reconciling, bound, registered, engine, lastTail, lane>>
  /\ DriversRest /\ CountsRest
  /\ Untouched \/ Begins \/ Types1("key") \/ Erases

\* The session of d is taken to be reconciled.
Takes(d) ==
  /\ session = d /\ session' = None /\ reconciling' = reconciling \cup {d}
  /\ TakeSession
  /\ UNCHANGED <<bound, registered, lane>>
  /\ DriversRest /\ CountsRest /\ Untouched

\* A finalizer, the driver or the cap finalizes d.
LEMMA FinalizeIs ==
  ASSUME TaskTypes, NEW d \in Dictation,
         DriverFinalizes(d) \/ StreamingCap(d) \/ FinalizerRuns(d)
  PROVE  Takes(d) \/ Rests
<1>1. /\ Finalize(d) /\ UNCHANGED <<bound, edit, registered, lane, wrapper, spoiled, used>>
      /\ driver' = driver \/ (driver[d] = "end" /\ driver' = [driver EXCEPT ![d] = "none"])
  BY DEF DriverFinalizes, StreamingCap, FinalizerRuns
<1>2. DriversRest /\ CountsRest /\ Untouched
  BY <1>1 DEF DriversRest, CountsRest, Untouched, wrapper, TaskTypes
<1>3. CASE session = d
  BY <1>1, <1>2, <1>3 DEF Finalize, TakeSession, Takes
<1>4. CASE session # d
  BY <1>1, <1>2, <1>4 DEF Finalize, live, Rests
<1> QED BY <1>3, <1>4

\* Every step is one of these.
LEMMA StepKinds ==
  ASSUME TaskTypes, BudgetTypes, [Next]_vars
  PROVE  \/ Rests
         \/ StartStreaming \/ DiscardStreaming
         \/ \E d \in Dictation :
              \/ Takes(d)
              \/ Decode(d) \/ SendEdit(d) \/ Reconciled(d) \/ ReconciledEmpty(d)
         \/ DeliverTranscript \/ DaemonDies \/ Register \/ ForwardFrame
<1>1. \A what \in Bounded : Use(what) /\ what \notin {"dictations", "links"} => CountsRest
  BY UseIs DEF CountsRest, Bounded
<1>2. CASE StopStreaming \/ IgnoredCommand
  BY <1>1, <1>2
     DEF StopStreaming, IgnoredCommand, Rests, DriversRest, CountsRest, Untouched, live, wrapper, Bounded
<1>3. CASE Key
  <2>1. CountsRest
    BY <1>1, <1>3 DEF Key, Bounded
  <2>2. DriversRest /\ UNCHANGED <<session, reconciling, bound, registered, engine, lastTail, lane>>
    BY <1>3 DEF Key, daemon, channel, live, DriversRest
  <2> QED BY <1>3, <2>1, <2>2, KeyArrives DEF Rests
<1>4. ASSUME NEW d \in Dictation, DictationStep(d)
      PROVE  \/ Rests
             \/ Takes(d)
             \/ Decode(d) \/ SendEdit(d) \/ Reconciled(d) \/ ReconciledEmpty(d)
  <2>1. CASE SilentRound(d)
    <3>1. DriversRest
      BY <2>1 DEF SilentRound, EndRound, DriversRest, TaskTypes
    <3> QED BY <2>1, <3>1 DEF SilentRound, Rests, CountsRest, Untouched, live, channel, wrapper
  <2>2. CASE DriverReturns(d)
    <3>1. DriversRest
      BY <2>2 DEF DriverReturns, DriversRest, TaskTypes
    <3> QED BY <2>2, <3>1 DEF DriverReturns, Rests, CountsRest, Untouched, live, channel, wrapper
  <2> QED BY <1>4, <2>1, <2>2, FinalizeIs DEF DictationStep
<1>5. CASE Ready \/ ServerDies
  BY <1>1, <1>5
     DEF Ready, ServerDies, Rests, DriversRest, CountsRest, Untouched, live, wrapper, Bounded
<1>6. CASE ForwardState
  <2>1. Untouched \/ Begins
    BY <1>6, StateArrives DEF ForwardState
  <2> QED BY <1>6, <2>1 DEF ForwardState, Rests, DriversRest, CountsRest, daemon, live
<1>7. CASE UNCHANGED vars
  BY <1>7 DEF vars, daemon, channel, wrapper, live, Rests, DriversRest, CountsRest, Untouched
<1> QED BY <1>2, <1>3, <1>4, <1>5, <1>6, <1>7 DEF Next, User, Connection, Exhausted

\* StartStreaming gives the next number.
LEMMA StartIs ==
  ASSUME Types, StartStreaming
  PROVE  /\ session = None /\ session' \in Dictation /\ session' = used.dictations + 1
         /\ used.dictations \in Nat
         /\ used'.dictations = used.dictations + 1 /\ used'.links = used.links
         /\ engine' = FreshEngine /\ lastTail' = <<>>
         /\ bound' = [bound EXCEPT ![session'] = registered]
         /\ driver' = [driver EXCEPT ![session'] = "live"]
         /\ ~spoiled' => ~spoiled /\ reconciling = {}
         /\ UNCHANGED <<reconciling, registered, lane, cursor, prompt>>
<1>1. BudgetTypes /\ Use("dictations") /\ {"dictations", "links"} \subseteq Bounded
  BY DEF Types, StartStreaming, Bounded
<1>2. /\ used.dictations \in Nat /\ used.dictations < budget.dictations /\ budget \in Budgets
      /\ used'.dictations = used.dictations + 1 /\ used'.links = used.links
  BY <1>1, UseIs
<1>3. used'.dictations \in Dictation
  BY <1>2, DictationIs
<1>4. ~spoiled' => ~spoiled /\ reconciling = {}
  BY Zenon DEF StartStreaming, Spoil
<1> QED BY <1>2, <1>3, <1>4 DEF StartStreaming, wrapper

\* A wrapper that registers has an empty lane and the next number.
LEMMA RegisterIs ==
  ASSUME Types, Register
  PROVE  /\ registered = None /\ registered' = used.links + 1 /\ used.links \in Nat
         /\ used'.links = used.links + 1 /\ used'.dictations = used.dictations
         /\ lane' = <<>> /\ UNCHANGED daemon
         /\ Untouched \/ Begins
<1>1. BudgetTypes /\ Use("links") /\ {"dictations", "links"} \subseteq Bounded
  BY DEF Types, Register, Bounded
<1>2. used.links \in Nat /\ used'.links = used.links + 1 /\ used'.dictations = used.dictations
  BY <1>1, UseIs
<1> QED BY <1>2, StateArrives DEF Register

\* A push by another step uses nothing and leaves the prompt as it is.
LEMMA SendIs ==
  ASSUME Types, NEW d \in Dictation, SendEdit(d)
  PROVE  /\ driver[d] = "send" /\ EditFrame(d, edit[d]) \in Frame
         /\ Push(bound[d], EditFrame(d, edit[d]))
         /\ driver' \in {[driver EXCEPT ![d] = pc] : pc \in {"live", "end"}}
         /\ edit' = [edit EXCEPT ![d] = NoEdit]
         /\ ~spoiled' => ~spoiled /\ (session = d \/ d \in reconciling)
         /\ UNCHANGED <<session, reconciling, bound, registered, engine, lastTail,
                        cursor, prompt, retracted, used>>
<1>1. EditFrame(d, edit[d]) \in Frame
  BY FramesAre DEF Types, EngineTypes
<1>2. ~spoiled' => ~spoiled /\ (session = d \/ d \in reconciling)
  BY Zenon DEF SendEdit, Spoil
<1> QED BY <1>1, <1>2 DEF SendEdit, EndRound, live, wrapper

\* The tail that was sent last is what the last hypothesis says beyond what is committed.
LEMMA NextTailIsRest == Types /\ TailIsRest /\ [Next]_vars => TailIsRest'
<1> SUFFICES ASSUME Types, TailIsRest, [Next]_vars PROVE TailIsRest'
  OBVIOUS
<1>1. TaskTypes /\ EngineTypes /\ BudgetTypes
  BY DEF Types
<1>2. engine' = FreshEngine /\ lastTail' = <<>> => TailIsRest'
  BY DEF TailIsRest, FreshEngine, After
<1>3. CASE Rests
  BY <1>3 DEF Rests, TailIsRest
<1>4. CASE StartStreaming \/ DiscardStreaming \/ DaemonDies
  BY <1>2, <1>4 DEF StartStreaming, DiscardStreaming, DaemonDies, TakeSession
<1>5. ASSUME NEW d \in Dictation,
             Takes(d) \/ Decode(d) \/ SendEdit(d) \/ Reconciled(d) \/ ReconciledEmpty(d)
      PROVE  TailIsRest'
  <2>1. CASE Takes(d)
    BY <1>2, <2>1 DEF Takes, TakeSession
  <2>2. CASE Decode(d)
    BY <1>1, <2>2, DecodeIs
  <2>3. CASE SendEdit(d) \/ Reconciled(d) \/ ReconciledEmpty(d)
    BY <2>3 DEF SendEdit, Reconciled, ReconciledEmpty, live, TailIsRest
  <2> QED BY <1>5, <2>1, <2>2, <2>3
<1>6. CASE DeliverTranscript \/ Register \/ ForwardFrame
  BY <1>6 DEF DeliverTranscript, Register, ForwardFrame, daemon, live, TailIsRest
<1> QED BY <1>1, <1>3, <1>4, <1>5, <1>6, StepKinds

-----------------------------------------------------------------------------
(* Names in order *)

\* The lane after a push.
LEMMA PushedLane ==
  ASSUME LaneTypes, NEW c, NEW f \in Frame, Push(c, f)
  PROVE  /\ DOMAIN lane \subseteq DOMAIN lane'
         /\ \A i \in DOMAIN lane : lane'[i] = lane[i]
         /\ \A i \in DOMAIN lane' : i \notin DOMAIN lane =>
              Live(c) /\ lane'[i] = f /\ i = Len(lane) + 1 /\ \A j \in DOMAIN lane : j < i
         /\ Live(c) => Len(lane) + 1 \in DOMAIN lane'
                       /\ lane' = Append(lane, f) /\ lane'[Len(lane) + 1] = f
         /\ ~Live(c) => lane' = lane
<1>1. CASE Live(c)
  <2>1. lane' = Append(lane, f) /\ lane \in Seq(Frame)
    BY <1>1, PushIs DEF LaneTypes
  <2> QED BY <1>1, <2>1, Appended
<1>2. CASE ~Live(c)
  BY <1>2, PushIs
<1> QED BY <1>1, <1>2

\* The lane when its first frame has arrived.
LEMMA PoppedLane ==
  ASSUME LaneTypes, NEW f, Arrived(f)
  PROVE  /\ f \in Frame /\ 1 \in DOMAIN lane /\ f = lane[1] /\ Len(lane') = Len(lane) - 1
         /\ lane' \in Seq(Frame)
         /\ \A i \in DOMAIN lane' : i + 1 \in DOMAIN lane /\ lane'[i] = lane[i + 1]
         /\ \A i \in DOMAIN lane : i # 1 => i - 1 \in DOMAIN lane' /\ lane'[i - 1] = lane[i]
BY HeadTail DEF LaneTypes, Arrived

\* The fields of the frames.
LEMMA FrameFields ==
  /\ \A d, e : /\ EditFrame(d, e).kind = "edit" /\ EditFrame(d, e).dictation = d
               /\ EditFrame(d, e).edit = e
  /\ \A d, t : /\ FinalizeFrame(d, t).kind = "finalize"
               /\ FinalizeFrame(d, t).dictation = d
  /\ TranscriptFrame.kind = "transcript"
BY DEF EditFrame, FinalizeFrame, TranscriptFrame

\* A frame that is pushed and has a name.
LEMMA PushNumbered ==
  ASSUME LaneTypes, LaneNumbered, NEW c, NEW f \in Frame, Push(c, f),
         f.kind # "transcript" => f.dictation <= used.dictations,
         used'.dictations = used.dictations
  PROVE  LaneNumbered'
BY PushedLane DEF LaneNumbered

\* Every step keeps the numbers of the frames on the lane.
LEMMA NextLaneNumbered == Types /\ Numbered /\ [Next]_vars => LaneNumbered'
<1> SUFFICES ASSUME Types, Numbered, [Next]_vars PROVE LaneNumbered'
  OBVIOUS
<1>1. TaskTypes /\ EngineTypes /\ BudgetTypes /\ LaneTypes /\ LaneNumbered /\ TasksNumbered
  BY DEF Types, Numbered
<1>2. CASE Rests
  BY <1>1, <1>2 DEF Rests, CountsRest, LaneNumbered
<1>3. CASE StartStreaming
  <2>1. used'.dictations = used.dictations + 1 /\ used.dictations \in Nat /\ lane' = lane
    BY <1>3, StartIs
  <2>2. ASSUME NEW i \in DOMAIN lane, lane[i].kind # "transcript"
        PROVE  lane[i].dictation <= used.dictations + 1
    <3>1. lane[i].dictation \in Nat
      <4>1. lane[i] \in Frame
        BY <1>1 DEF LaneTypes
      <4>2. lane[i].dictation \in Dictation
        BY <2>2, <4>1, FrameIs
      <4> QED BY <4>2, DictationIs
    <3>2. lane[i].dictation <= used.dictations
      BY <1>1, <2>2 DEF LaneNumbered
    <3> QED BY <2>1, <3>1, <3>2
  <2> QED BY <2>1, <2>2 DEF LaneNumbered
<1>4. CASE DiscardStreaming
  <2> DEFINE f == FinalizeFrame(session, <<>>)
  <2>1. session \in Dictation /\ session <= used.dictations
    <3>1. session \in Dictation /\ session = used.dictations
      BY <1>1, <1>4 DEF DiscardStreaming, TaskTypes, TasksNumbered
    <3> QED BY <3>1, DictationIs
  <2>2. f \in Frame /\ f.dictation <= used.dictations
    BY <2>1, FramesAre, FrameFields
  <2>3. Push(bound[session], f) /\ used' = used
    BY <1>4 DEF DiscardStreaming
  <2> HIDE DEF f
  <2> QED BY <1>1, <2>2, <2>3, PushNumbered
<1>5. ASSUME NEW d \in Dictation, SendEdit(d) PROVE LaneNumbered'
  <2> DEFINE f == EditFrame(d, edit[d])
  <2>1. f \in Frame /\ Push(bound[d], f) /\ used' = used /\ driver[d] = "send"
    BY <1>5, SendIs
  <2>2. f.dictation <= used.dictations
    BY <1>1, <2>1, FrameFields DEF TasksNumbered
  <2> HIDE DEF f
  <2> QED BY <1>1, <2>1, <2>2, PushNumbered
<1>6. ASSUME NEW d \in Dictation, Reconciled(d) PROVE LaneNumbered'
  <2> DEFINE f == FinalizeFrame(d, <<"text">>)
  <2>1. f \in Frame /\ Push(bound[d], f) /\ used' = used /\ d \in reconciling
    BY <1>6, FramesAre DEF Reconciled
  <2>2. f.dictation <= used.dictations
    BY <1>1, <2>1, FrameFields DEF TasksNumbered
  <2> HIDE DEF f
  <2> QED BY <1>1, <2>1, <2>2, PushNumbered
<1>7. ASSUME NEW d \in Dictation, Takes(d) \/ Decode(d) \/ ReconciledEmpty(d)
      PROVE  LaneNumbered'
  <2>1. CASE Takes(d) \/ ReconciledEmpty(d)
    BY <1>1, <2>1 DEF Takes, CountsRest, ReconciledEmpty, channel, LaneNumbered
  <2>2. CASE Decode(d)
    <3>1. used'.dictations = used.dictations
      BY <1>1, <2>2, UseIs DEF Decode, Bounded
    <3> QED BY <1>1, <2>2, <3>1 DEF Decode, channel, LaneNumbered
  <2> QED BY <1>7, <2>1, <2>2
<1>8. CASE DeliverTranscript
  <2>1. used'.dictations = used.dictations
    BY <1>1, <1>8, UseIs DEF DeliverTranscript, Bounded
  <2>2. Push(registered, TranscriptFrame) /\ TranscriptFrame \in Frame
    BY <1>8, FramesAre DEF DeliverTranscript
  <2> QED BY <1>1, <2>1, <2>2, FrameFields, PushNumbered
<1>9. CASE DaemonDies \/ Register
  BY <1>9 DEF DaemonDies, Register, LaneNumbered
<1>10. CASE ForwardFrame
  <2>1. PICK f : Arrived(f)
    BY <1>10 DEF ForwardFrame, Arrived
  <2>2. used' = used
    BY <1>10 DEF ForwardFrame
  <2> QED BY <1>1, <2>1, <2>2, PoppedLane DEF LaneNumbered
<1> QED BY <1>1, <1>2, <1>3, <1>4, <1>5, <1>6, <1>7, <1>8, <1>9, <1>10, StepKinds

\* Every step keeps the numbers of the tasks.
LEMMA NextTasksNumbered == Types /\ Numbered /\ [Next]_vars => TasksNumbered'
<1> SUFFICES ASSUME Types, Numbered, [Next]_vars PROVE TasksNumbered'
  OBVIOUS
<1>1. TaskTypes /\ EngineTypes /\ BudgetTypes /\ TasksNumbered
  BY DEF Types, Numbered
<1>2. CASE Rests
  BY <1>1, <1>2 DEF Rests, DriversRest, CountsRest, TasksNumbered
<1>3. CASE StartStreaming
  <2>1. /\ session' = used.dictations + 1 /\ used'.dictations = used.dictations + 1
        /\ used.dictations \in Nat
        /\ driver' = [driver EXCEPT ![session'] = "live"] /\ reconciling' = reconciling
    BY <1>3, StartIs
  <2>2. ASSUME NEW d \in Dictation, driver'[d] # "none" PROVE d <= used.dictations + 1
    <3>1. d \in Nat
      BY DictationIs
    <3>2. CASE d = session'
      BY <2>1, <3>2
    <3>3. CASE d # session'
      <4>1. driver[d] # "none"
        BY <1>1, <2>1, <2>2, <3>3 DEF TaskTypes
      <4>2. d <= used.dictations
        BY <1>1, <4>1 DEF TasksNumbered
      <4> QED BY <2>1, <3>1, <4>2
    <3> QED BY <3>2, <3>3
  <2>3. ASSUME NEW d \in reconciling PROVE d <= used.dictations + 1
    <3>1. d \in Nat /\ d <= used.dictations
      BY <1>1, DictationIs DEF TaskTypes, TasksNumbered
    <3> QED BY <2>1, <3>1
  <2> QED BY <2>1, <2>2, <2>3 DEF TasksNumbered
<1>4. CASE DiscardStreaming
  BY <1>1, <1>4 DEF DiscardStreaming, TakeSession, TasksNumbered
<1>5. ASSUME NEW d \in Dictation, Takes(d) PROVE TasksNumbered'
  <2>1. d <= used.dictations
    <3>1. d = used.dictations
      BY <1>1, <1>5, DictationIs DEF Takes, TasksNumbered
    <3> QED BY <3>1, DictationIs
  <2> QED BY <1>1, <1>5, <2>1 DEF Takes, DriversRest, CountsRest, TasksNumbered
<1>6. ASSUME NEW d \in Dictation, Decode(d) PROVE TasksNumbered'
  <2>1. used'.dictations = used.dictations
    BY <1>1, <1>6, UseIs DEF Decode, Bounded
  <2>2. driver[d] = "live" /\ UNCHANGED <<session, reconciling>>
        /\ \A other \in Dictation : other # d => driver'[other] = driver[other]
    BY <1>1, <1>6 DEF Decode, EndRound, TaskTypes
  <2>3. driver[d] # "none"
    BY <2>2
  <2> QED BY <1>1, <2>1, <2>2, <2>3 DEF TasksNumbered
<1>7. ASSUME NEW d \in Dictation, SendEdit(d) PROVE TasksNumbered'
  <2>1. /\ driver[d] # "none" /\ UNCHANGED <<session, reconciling, used>>
        /\ \A other \in Dictation : other # d => driver'[other] = driver[other]
    BY <1>1, <1>7, SendIs DEF TaskTypes
  <2> QED BY <1>1, <2>1 DEF TasksNumbered
<1>8. ASSUME NEW d \in Dictation, Reconciled(d) \/ ReconciledEmpty(d) PROVE TasksNumbered'
  BY <1>1, <1>8 DEF Reconciled, ReconciledEmpty, TasksNumbered
<1>9. CASE DeliverTranscript
  <2>1. used'.dictations = used.dictations
    BY <1>1, <1>9, UseIs DEF DeliverTranscript, Bounded
  <2> QED BY <1>1, <1>9, <2>1 DEF DeliverTranscript, daemon, TasksNumbered
<1>10. CASE DaemonDies
  BY <1>1, <1>10 DEF DaemonDies, TakeSession, TasksNumbered
<1>11. CASE Register
  BY <1>1, <1>11, RegisterIs DEF daemon, TasksNumbered
<1>12. CASE ForwardFrame
  BY <1>1, <1>12 DEF ForwardFrame, daemon, TasksNumbered
<1> QED BY <1>1, <1>2, <1>3, <1>4, <1>5, <1>6, <1>7, <1>8, <1>9, <1>10, <1>11, <1>12, StepKinds

\* Every step keeps the numbers of the links.
LEMMA NextLinksNumbered == Types /\ Numbered /\ [Next]_vars => LinksNumbered'
<1> SUFFICES ASSUME Types, Numbered, [Next]_vars PROVE LinksNumbered'
  OBVIOUS
<1>1. TaskTypes /\ BudgetTypes /\ LaneTypes /\ LinkTypes /\ LinksNumbered
  BY DEF Types, Numbered
<1>2. \A c, f : Push(c, f) /\ registered = None => lane' = <<>>
  BY <1>1 DEF Push, Live, LinksNumbered
<1>3. CASE Rests
  BY <1>1, <1>3 DEF Rests, CountsRest, LinksNumbered
<1>4. CASE StartStreaming
  <2>1. /\ session' \in Dictation /\ bound' = [bound EXCEPT ![session'] = registered]
        /\ used'.links = used.links /\ UNCHANGED <<registered, lane>>
    BY <1>4, StartIs
  <2> QED BY <1>1, <2>1 DEF LinkTypes, LinksNumbered
<1>5. CASE DiscardStreaming
  BY <1>1, <1>2, <1>5 DEF DiscardStreaming, LinksNumbered
<1>6. ASSUME NEW d \in Dictation,
             Takes(d) \/ Decode(d) \/ SendEdit(d) \/ Reconciled(d) \/ ReconciledEmpty(d)
      PROVE  LinksNumbered'
  <2>1. CASE Takes(d)
    BY <1>1, <2>1 DEF Takes, CountsRest, LinksNumbered
  <2>2. CASE Decode(d)
    <3>1. used'.links = used.links
      BY <1>1, <2>2, UseIs DEF Decode, Bounded
    <3> QED BY <1>1, <2>2, <3>1 DEF Decode, channel, LinksNumbered
  <2>3. CASE SendEdit(d) \/ Reconciled(d)
    BY <1>1, <1>2, <2>3 DEF SendEdit, Reconciled, LinksNumbered
  <2>4. CASE ReconciledEmpty(d)
    BY <1>1, <2>4 DEF ReconciledEmpty, channel, LinksNumbered
  <2> QED BY <1>6, <2>1, <2>2, <2>3, <2>4
<1>7. CASE DeliverTranscript
  <2>1. used'.links = used.links
    BY <1>1, <1>7, UseIs DEF DeliverTranscript, Bounded
  <2> QED BY <1>1, <1>7, <2>1 DEF DeliverTranscript, daemon, LinksNumbered
<1>8. CASE DaemonDies
  <2>1. used.links \in Nat
    BY <1>1 DEF BudgetTypes, Bounded
  <2> QED BY <1>1, <1>8, <2>1 DEF DaemonDies, LinksNumbered, None
<1>9. CASE Register
  <2>1. /\ registered' = used.links + 1 /\ used'.links = used.links + 1 /\ used.links \in Nat
        /\ lane' = <<>> /\ bound' = bound
    BY <1>9, RegisterIs DEF daemon
  <2>2. \A d \in Dictation : bound[d] \in Nat /\ bound[d] <= used.links
    BY <1>1 DEF LinkTypes, LinksNumbered
  <2>3. \A d \in Dictation : bound[d] <= used.links + 1
    BY <2>1, <2>2
  <2> QED BY <2>1, <2>3 DEF LinksNumbered
<1>10. CASE ForwardFrame
  BY <1>1, <1>10 DEF ForwardFrame, daemon, LinksNumbered
<1> QED BY <1>1, <1>3, <1>4, <1>5, <1>6, <1>7, <1>8, <1>9, <1>10, StepKinds

-----------------------------------------------------------------------------
(* Who ends a preview *)

\* Every step keeps one preview at a time.
LEMMA NextOneAtATime == Types /\ OneAtATime /\ [Next]_vars => OneAtATime'
<1> SUFFICES ASSUME Types, OneAtATime, [Next]_vars, ~spoiled', session' # None
             PROVE  reconciling' = {}
  BY DEF OneAtATime
<1>1. TaskTypes /\ BudgetTypes
  BY DEF Types
<1>2. CASE Rests
  BY <1>2 DEF Rests, Untouched, Begins, Types1, Erases, Strikes, OneAtATime
<1>3. CASE StartStreaming
  BY <1>3, StartIs
<1>4. CASE DiscardStreaming \/ DaemonDies
  BY <1>4 DEF DiscardStreaming, DaemonDies, TakeSession
<1>5. ASSUME NEW d \in Dictation,
             Takes(d) \/ Decode(d) \/ SendEdit(d) \/ Reconciled(d) \/ ReconciledEmpty(d)
      PROVE  reconciling' = {}
  <2>1. CASE SendEdit(d)
    BY <2>1, SendIs DEF OneAtATime
  <2> QED BY <1>5, <2>1 DEF Takes, Decode, Reconciled, ReconciledEmpty, OneAtATime
<1>6. CASE DeliverTranscript
  BY <1>6 DEF DeliverTranscript, daemon, OneAtATime
<1>7. CASE Register
  <2>1. UNCHANGED <<session, reconciling>> /\ ~spoiled
    BY <1>7, RegisterIs DEF daemon, Untouched, Begins
  <2> QED BY <2>1 DEF OneAtATime
<1>8. CASE ForwardFrame
  <2>1. ~spoiled
    BY <1>1, <1>8, FrameArrives DEF Types, Edits, Ends, Types1, Strikes
  <2> QED BY <1>8, <2>1 DEF ForwardFrame, daemon, OneAtATime
<1> QED BY <1>1, <1>2, <1>3, <1>4, <1>5, <1>6, <1>7, <1>8, StepKinds

\* A finalize of d reaches the wrapper of d: what is in the lane is ended by it.
LEMMA EndingPushed ==
  ASSUME LaneTypes, NEW c, NEW f \in Frame, f.kind = "finalize", Push(c, f), Live(c)
  PROVE  /\ \E j \in DOMAIN lane' : lane'[j].kind = "finalize"
         /\ \A i \in DOMAIN lane' :
              lane'[i].kind = "edit" => \E j \in DOMAIN lane' : i < j /\ lane'[j].kind = "finalize"
<1>1. /\ Len(lane) + 1 \in DOMAIN lane' /\ lane'[Len(lane) + 1].kind = "finalize"
  BY PushedLane
<1>2. ASSUME NEW i \in DOMAIN lane', lane'[i].kind = "edit" PROVE i < Len(lane) + 1
  <2>1. i \in DOMAIN lane
    BY <1>2, PushedLane
  <2> QED BY <2>1 DEF LaneTypes
<1> QED BY <1>1, <1>2

\* A step that keeps what is coming and appends no edit, keeps what is owed.
LEMMA PushedOwed ==
  ASSUME LaneTypes, OwedInLane, ~spoiled, \A d \in Dictation : Coming(d) => Coming(d)',
         NEW c, NEW f \in Frame, Push(c, f),
         f.kind = "edit" => Coming(f.dictation)'
  PROVE  OwedInLane'
<1> SUFFICES ASSUME NEW i \in DOMAIN lane', lane'[i].kind = "edit"
             PROVE  Coming(lane[i].dictation)' \/ \E j \in DOMAIN lane' : i < j /\ Ending(j)'
  BY DEF OwedInLane
<1>1. CASE i \in DOMAIN lane
  <2>1. lane'[i] = lane[i] /\ lane[i] \in Frame
    BY <1>1, PushedLane DEF LaneTypes
  <2>2. Coming(lane[i].dictation) \/ \E j \in DOMAIN lane : i < j /\ Ending(j)
    BY <1>1, <2>1 DEF OwedInLane
  <2>3. CASE Coming(lane[i].dictation)
    <3>1. PICK e \in Dictation : e = lane[i].dictation
      BY <2>1, FrameIs
    <3>2. Coming(e)'
      BY <2>3, <3>1
    <3> QED BY <2>1, <3>1, <3>2 DEF Coming
  <2>4. CASE \E j \in DOMAIN lane : i < j /\ Ending(j)
    BY <2>4, PushedLane DEF Ending
  <2> QED BY <2>2, <2>3, <2>4
<1>2. CASE i \notin DOMAIN lane
  <2>1. lane'[i] = f
    BY <1>2, PushedLane
  <2> QED BY <2>1 DEF Coming
<1> QED BY <1>1, <1>2

\* Every step leaves somebody to end a preview that is in the lane.
LEMMA NextOwedInLane == Types /\ Numbered /\ OwedInLane /\ [Next]_vars => OwedInLane'
<1> SUFFICES ASSUME Types, Numbered, OwedInLane, [Next]_vars, ~spoiled'
             PROVE  OwedInLane'
  BY DEF OwedInLane
<1>1. TaskTypes /\ EngineTypes /\ BudgetTypes /\ LaneTypes /\ PromptTypes /\ LinkTypes
  BY DEF Types
<1>2. ASSUME ~spoiled, lane' = lane, \A d \in Dictation : Coming(d) => Coming(d)'
      PROVE  OwedInLane'
  <2>1. \A i \in DOMAIN lane : lane[i].kind = "edit" => lane[i].dictation \in Dictation
    BY <1>1, FrameIs DEF LaneTypes
  <2> QED BY <1>2, <2>1 DEF OwedInLane, Coming, Ending
<1>3. CASE Rests
  <2>1. ~spoiled
    BY <1>3 DEF Rests, Untouched, Begins, Types1, Erases, Strikes
  <2>2. \A d \in Dictation : Coming(d) => Coming(d)'
    BY <1>3 DEF Rests, Coming, Live
  <2> QED BY <1>2, <1>3, <2>1, <2>2 DEF Rests
<1>4. CASE StartStreaming
  <2>1. ~spoiled /\ lane' = lane
    BY <1>4, StartIs
  <2>2. \A d \in Dictation : ~Coming(d)
    BY <1>4, StartIs, DictationIs DEF Coming
  <2> QED BY <1>2, <2>1, <2>2
<1>5. CASE DiscardStreaming
  <2> DEFINE f == FinalizeFrame(session, <<>>)
  <2>1. /\ session \in Dictation /\ f \in Frame /\ f.kind = "finalize"
        /\ Push(bound[session], f)
    BY <1>1, <1>5, FramesAre, FrameFields DEF DiscardStreaming, TaskTypes
  <2>2. ~spoiled /\ session' = None /\ UNCHANGED <<reconciling, bound, registered>>
    BY <1>5 DEF DiscardStreaming, TakeSession
  <2> HIDE DEF f
  <2>3. CASE Live(bound[session])
    <3>1. \A i \in DOMAIN lane' :
            lane'[i].kind = "edit" => \E j \in DOMAIN lane' : i < j /\ lane'[j].kind = "finalize"
      BY <1>1, <2>1, <2>3, EndingPushed
    <3> QED BY <3>1 DEF OwedInLane, Ending
  <2>4. CASE ~Live(bound[session])
    <3>1. lane' = lane
      BY <1>1, <2>1, <2>4, PushedLane
    <3>2. \A d \in Dictation : Coming(d) => Coming(d)'
      BY <2>2, <2>4 DEF Coming, Live
    <3> QED BY <1>2, <2>2, <3>1, <3>2
  <2> QED BY <2>3, <2>4
<1>6. ASSUME NEW d \in Dictation, Takes(d) PROVE OwedInLane'
  <2>1. ~spoiled /\ lane' = lane
    BY <1>6 DEF Takes, Untouched
  <2>2. \A e \in Dictation : Coming(e) => Coming(e)'
    BY <1>6 DEF Takes, Coming, Live
  <2> QED BY <1>2, <2>1, <2>2
<1>7. ASSUME NEW d \in Dictation, Decode(d) PROVE OwedInLane'
  <2>1. ~spoiled /\ lane' = lane
    BY <1>7 DEF Decode, channel
  <2>2. \A e \in Dictation : Coming(e) => Coming(e)'
    BY <1>7 DEF Decode, channel, Coming, Live
  <2> QED BY <1>2, <2>1, <2>2
<1>8. ASSUME NEW d \in Dictation, SendEdit(d) PROVE OwedInLane'
  <2>1. PICK f \in Frame : f = EditFrame(d, edit[d])
    BY <1>8, SendIs
  <2>2. /\ f.dictation = d /\ Push(bound[d], f)
        /\ ~spoiled /\ (session = d \/ d \in reconciling)
        /\ UNCHANGED <<session, reconciling, bound, registered>>
    BY <1>8, <2>1, SendIs, FrameFields
  <2>3. \A e \in Dictation : Coming(e) => Coming(e)'
    BY <2>2 DEF Coming, Live
  <2>4. CASE Live(bound[d])
    <3>1. Coming(d)'
      BY <2>2, <2>4 DEF Coming, Live
    <3>2. Coming(f.dictation)'
      BY <2>2, <3>1 DEF Coming
    <3> QED BY <1>1, <2>2, <2>3, <3>2, PushedOwed
  <2>5. CASE ~Live(bound[d])
    <3>1. lane' = lane
      BY <1>1, <2>2, <2>5, PushedLane
    <3> QED BY <1>2, <2>2, <2>3, <3>1
  <2> QED BY <2>4, <2>5
<1>9. ASSUME NEW d \in Dictation, Reconciled(d) PROVE OwedInLane'
  <2> DEFINE f == FinalizeFrame(d, <<"text">>)
  <2>1. f \in Frame /\ f.kind = "finalize" /\ Push(bound[d], f)
    BY <1>9, FramesAre, FrameFields DEF Reconciled
  <2>2. ~spoiled /\ reconciling' = reconciling \ {d} /\ UNCHANGED <<session, bound, registered>>
    BY <1>9 DEF Reconciled
  <2> HIDE DEF f
  <2>3. CASE Live(bound[d])
    <3>1. \A i \in DOMAIN lane' :
            lane'[i].kind = "edit" => \E j \in DOMAIN lane' : i < j /\ lane'[j].kind = "finalize"
      BY <1>1, <2>1, <2>3, EndingPushed
    <3> QED BY <3>1 DEF OwedInLane, Ending
  <2>4. CASE ~Live(bound[d])
    <3>1. lane' = lane
      BY <1>1, <2>1, <2>4, PushedLane
    <3>2. \A e \in Dictation : Coming(e) => Coming(e)'
      BY <2>2, <2>4 DEF Coming, Live
    <3> QED BY <1>2, <2>2, <3>1, <3>2
  <2> QED BY <2>3, <2>4
<1>10. ASSUME NEW d \in Dictation, ReconciledEmpty(d) PROVE OwedInLane'
  BY <1>10 DEF ReconciledEmpty
<1>11. CASE DeliverTranscript
  <2>1. /\ Push(registered, TranscriptFrame) /\ TranscriptFrame \in Frame
        /\ TranscriptFrame.kind # "edit" /\ ~spoiled
    BY <1>11, FramesAre, FrameFields DEF DeliverTranscript
  <2>2. \A e \in Dictation : Coming(e) => Coming(e)'
    BY <1>11 DEF DeliverTranscript, daemon, Coming, Live
  <2> QED BY <1>1, <2>1, <2>2, PushedOwed
<1>12. CASE DaemonDies
  BY <1>12 DEF DaemonDies
<1>13. CASE Register
  BY <1>13 DEF Register, OwedInLane
<1>14. CASE ForwardFrame
  <2>1. PICK f : Arrived(f) /\ ~spoiled
    BY <1>1, <1>14, FrameArrives DEF Edits, Ends, Types1, Strikes
  <2>2. UNCHANGED <<session, reconciling, bound, registered>>
    BY <1>14 DEF ForwardFrame, daemon
  <2> SUFFICES ASSUME NEW i \in DOMAIN lane', lane'[i].kind = "edit"
               PROVE  \/ Coming(lane[i].dictation)'
                      \/ \E j \in DOMAIN lane' : i < j /\ Ending(j)'
    BY DEF OwedInLane
  <2>3. i + 1 \in DOMAIN lane /\ lane'[i] = lane[i + 1] /\ i \in Nat
    BY <1>1, <2>1, PoppedLane
  <2>4. Coming(lane[i + 1].dictation) \/ \E j \in DOMAIN lane : i + 1 < j /\ Ending(j)
    BY <2>1, <2>3 DEF OwedInLane
  <2>5. CASE Coming(lane[i + 1].dictation)
    BY <2>2, <2>3, <2>5 DEF Coming, Live
  <2>6. CASE \E j \in DOMAIN lane : i + 1 < j /\ Ending(j)
    <3>1. PICK j \in DOMAIN lane : i + 1 < j /\ lane[j].kind = "finalize"
      BY <2>6 DEF Ending
    <3>2. j \in Nat /\ j # 1
      BY <1>1, <2>3, <3>1 DEF LaneTypes
    <3>3. j - 1 \in DOMAIN lane' /\ lane'[j - 1].kind = "finalize" /\ i < j - 1
      BY <1>1, <2>1, <2>3, <3>1, <3>2, PoppedLane
    <3> QED BY <3>3 DEF Ending
  <2> QED BY <2>4, <2>5, <2>6
<1> QED BY <1>1, <1>3, <1>4, <1>5, <1>6, <1>7, <1>8, <1>9, <1>10, <1>11, <1>12, <1>13, <1>14,
           StepKinds

\* Every step leaves somebody to end the preview in the prompt.
LEMMA NextOwedInPrompt ==
  Types /\ Numbered /\ OwedInLane /\ OwedInPrompt /\ CursorCovered /\ [Next]_vars
    => OwedInPrompt'
<1> SUFFICES ASSUME Types, Numbered, OwedInLane, OwedInPrompt, CursorCovered, [Next]_vars,
                    ~spoiled', PreviewLen(cursor') > 0
             PROVE  \/ \E d \in Dictation : Coming(d)'
                    \/ \E j \in DOMAIN lane' : Ending(j)'
  BY DEF OwedInPrompt
<1>1. TaskTypes /\ EngineTypes /\ BudgetTypes /\ LaneTypes /\ PromptTypes /\ LinkTypes
  BY DEF Types
<1> DEFINE Owes == (\E d \in Dictation : Coming(d)) \/ \E j \in DOMAIN lane : Ending(j)
<1>2. ASSUME ~spoiled, PreviewLen(cursor) > 0 PROVE Owes
  BY <1>2 DEF OwedInPrompt
<1>3. Untouched => ~spoiled /\ PreviewLen(cursor) > 0
  BY DEF Untouched
<1>4. ~Begins
  <2>1. Begins => PreviewLen(cursor') = 0
    BY BeginIs
  <2> QED BY <2>1
<1>5. ~Strikes
  <2> SUFFICES ASSUME Strikes PROVE FALSE
    OBVIOUS
  <2>1. cursor' = cursor /\ ~spoiled /\ (PreviewLen(cursor) > 0 => ~HasPreview(prompt))
    BY DEF Strikes
  <2>2. PreviewLen(cursor) > 0 /\ Covered
    BY <2>1 DEF CursorCovered
  <2>3. PreviewLen(cursor) = 0
    BY <1>1, <2>1, <2>2, NoPreview
  <2> QED BY <2>2, <2>3
<1>6. CASE Rests
  <2>1. UNCHANGED <<session, reconciling, bound, registered, lane>> /\ Untouched
    BY <1>4, <1>5, <1>6 DEF Rests, Types1, Erases
  <2>2. Owes
    BY <1>2, <1>3, <2>1
  <2> QED BY <2>1, <2>2 DEF Coming, Live, Ending
<1>7. CASE StartStreaming
  <2>1. /\ ~spoiled /\ reconciling = {} /\ session = None
        /\ UNCHANGED <<lane, cursor>>
    BY <1>7, StartIs
  <2>2. \A d \in Dictation : ~Coming(d)
    BY <2>1, DictationIs DEF Coming
  <2>3. Owes
    BY <1>2, <2>1
  <2> QED BY <2>1, <2>2, <2>3 DEF Ending
<1>8. ASSUME NEW c, NEW f \in Frame, Push(c, f), Untouched,
             \A d \in Dictation : Coming(d) => Coming(d)' \/ (Live(c) /\ f.kind = "finalize")
      PROVE  \/ \E d \in Dictation : Coming(d)'
             \/ \E j \in DOMAIN lane' : Ending(j)'
  <2>1. Owes
    BY <1>2, <1>3, <1>8
  <2>2. CASE \E j \in DOMAIN lane : Ending(j)
    BY <1>1, <1>8, <2>2, PushedLane DEF Ending
  <2>3. CASE \E d \in Dictation : Coming(d)
    <3>1. Live(c) /\ f.kind = "finalize" => \E j \in DOMAIN lane' : Ending(j)'
      BY <1>1, <1>8, EndingPushed DEF Ending
    <3> QED BY <1>8, <2>3, <3>1
  <2> QED BY <2>1, <2>2, <2>3
<1>9. CASE DiscardStreaming
  <2>1. PICK f \in Frame : f = FinalizeFrame(session, <<>>)
    BY <1>1, <1>9, FramesAre DEF DiscardStreaming, TaskTypes
  <2>2. PICK c : c = bound[session]
    OBVIOUS
  <2>3. f.kind = "finalize" /\ Push(c, f)
    BY <1>9, <2>1, <2>2, FrameFields DEF DiscardStreaming
  <2>4. Untouched
    BY <1>9 DEF DiscardStreaming, wrapper, Untouched
  <2>5. \A d \in Dictation : Coming(d) => Coming(d)' \/ Live(c)
    BY <1>9, <2>2 DEF DiscardStreaming, Coming, Live
  <2> QED BY <1>8, <2>3, <2>4, <2>5
<1>10. ASSUME NEW d \in Dictation, Takes(d) \/ Decode(d)
       PROVE  \/ \E e \in Dictation : Coming(e)'
              \/ \E j \in DOMAIN lane' : Ending(j)'
  <2>1. Untouched /\ lane' = lane
    BY <1>10 DEF Takes, Decode, wrapper, channel, Untouched
  <2>2. \A e \in Dictation : Coming(e) => Coming(e)'
    BY <1>10 DEF Takes, Decode, channel, Coming, Live
  <2>3. Owes
    BY <1>2, <1>3, <2>1
  <2> QED BY <2>1, <2>2, <2>3 DEF Ending
<1>11. ASSUME NEW d \in Dictation, SendEdit(d)
       PROVE  \/ \E e \in Dictation : Coming(e)'
              \/ \E j \in DOMAIN lane' : Ending(j)'
  <2>1. PICK f \in Frame : f = EditFrame(d, edit[d]) /\ Push(bound[d], f)
    BY <1>11, SendIs
  <2>2. Untouched
    BY <1>11, SendIs DEF Untouched
  <2>3. \A e \in Dictation : Coming(e) => Coming(e)'
    BY <1>11, SendIs DEF Coming, Live
  <2> QED BY <1>8, <2>1, <2>2, <2>3
<1>12. ASSUME NEW d \in Dictation, Reconciled(d) \/ ReconciledEmpty(d)
       PROVE  \/ \E e \in Dictation : Coming(e)'
              \/ \E j \in DOMAIN lane' : Ending(j)'
  <2>1. Reconciled(d)
    BY <1>12 DEF ReconciledEmpty
  <2>2. PICK f \in Frame : f = FinalizeFrame(d, <<"text">>)
    BY FramesAre
  <2>3. PICK c : c = bound[d]
    OBVIOUS
  <2>4. f.kind = "finalize" /\ Push(c, f)
    BY <2>1, <2>2, <2>3, FrameFields DEF Reconciled
  <2>5. Untouched
    BY <2>1 DEF Reconciled, wrapper, Untouched
  <2>6. \A e \in Dictation : Coming(e) => Coming(e)' \/ Live(c)
    BY <2>1, <2>3 DEF Reconciled, Coming, Live
  <2> QED BY <1>8, <2>4, <2>5, <2>6
<1>13. CASE DeliverTranscript
  <2>1. PICK c : c = registered
    OBVIOUS
  <2>2. Push(c, TranscriptFrame) /\ TranscriptFrame \in Frame
    BY <1>13, <2>1, FramesAre DEF DeliverTranscript
  <2>3. Untouched
    BY <1>13 DEF DeliverTranscript, wrapper, Untouched
  <2>4. \A e \in Dictation : Coming(e) => Coming(e)'
    BY <1>13 DEF DeliverTranscript, daemon, Coming, Live
  <2> QED BY <1>8, <2>2, <2>3, <2>4
<1>14. CASE DaemonDies
  BY <1>14 DEF DaemonDies
<1>15. CASE Register
  <2>1. registered = None /\ Untouched
    BY <1>4, <1>15, RegisterIs
  <2>2. lane = <<>>
    BY <2>1 DEF Numbered, LinksNumbered
  <2>3. Owes
    BY <1>2, <1>3, <2>1
  <2> QED BY <2>1, <2>2, <2>3 DEF Coming, Live
<1>16. CASE ForwardFrame
  <2>1. PICK f \in Frame :
          /\ Arrived(f)
          /\ \/ Edits(f)
             \/ Ends(f)
             \/ f.kind = "transcript" /\ Types1("text")
    BY <1>1, <1>16, FrameArrives
  <2>2. ~Ends(f)
    <3>1. Ends(f) => PreviewLen(cursor') = 0
      BY DEF Ends, FreshCursor, PreviewLen
    <3> QED BY <3>1
  <2>3. Edits(f)
    BY <1>5, <2>1, <2>2 DEF Types1
  <2>4. 1 \in DOMAIN lane /\ f = lane[1] /\ f.kind = "edit" /\ ~spoiled /\ f.dictation \in Dictation
    BY <1>1, <2>1, <2>3, PoppedLane, FrameIs DEF Edits
  <2>5. UNCHANGED <<session, reconciling, bound, registered>>
    BY <1>16 DEF ForwardFrame, daemon
  <2>6. Coming(f.dictation) \/ \E j \in DOMAIN lane : 1 < j /\ Ending(j)
    BY <2>4 DEF OwedInLane, Coming, Live
  <2>7. CASE Coming(f.dictation)
    BY <2>4, <2>5, <2>7 DEF Coming, Live
  <2>8. CASE \E j \in DOMAIN lane : 1 < j /\ Ending(j)
    <3>1. PICK j \in DOMAIN lane : j # 1 /\ lane[j].kind = "finalize"
      BY <2>8 DEF Ending
    <3>2. j - 1 \in DOMAIN lane' /\ lane'[j - 1].kind = "finalize"
      BY <1>1, <2>1, <3>1, PoppedLane
    <3> QED BY <3>2 DEF Ending
  <2> QED BY <2>6, <2>7, <2>8
<1> QED BY <1>1, <1>6, <1>7, <1>9, <1>10, <1>11, <1>12, <1>13, <1>14, <1>15, <1>16, StepKinds

-----------------------------------------------------------------------------
(* The engine and the prompt *)

Empty == [stable |-> <<>>, tail |-> <<>>]

\* What a prompt shows, and what an edit makes of it.
LEMMA ShowingIs ==
  /\ Empty \in Showing /\ Empty.stable = <<>> /\ Empty.tail = <<>>
  /\ \A p \in Showing : /\ p.stable \in Seq(Words) /\ p.tail \in Seq(Words)
                        /\ p.stable \in Seq(Text) /\ p.tail \in Seq(Text)
                        /\ p = [stable |-> p.stable, tail |-> p.tail]
  /\ \A p \in Showing, e \in Edit : Edited(p, e) \in Showing
<1>1. Seq(Words) \subseteq Seq(Text)
  BY WordsAreText
<1>2. \A p \in Showing : /\ p.stable \in Seq(Words) /\ p.tail \in Seq(Words)
                         /\ p = [stable |-> p.stable, tail |-> p.tail]
  BY DEF Showing
<1>3. ASSUME NEW p \in Showing, NEW e \in Edit PROVE Edited(p, e) \in Showing
  <2>1. p.stable \in Seq(Words) /\ e.committed \in Seq(Words) /\ e.tail \in Seq(Words)
    BY DEF Showing, Edit
  <2>2. p.stable \o e.committed \in Seq(Words)
    BY <2>1
  <2> QED BY <2>1, <2>2 DEF Edited, Showing
<1>4. Empty \in Showing /\ Empty.stable = <<>> /\ Empty.tail = <<>>
  BY DEF Empty, Showing
<1> QED BY <1>1, <1>2, <1>3, <1>4

\* Concatenation does not care about parentheses.
LEMMA ConcatAssoc ==
  ASSUME NEW S, NEW a \in Seq(S), NEW b \in Seq(S), NEW c \in Seq(S)
  PROVE  (a \o b) \o c = a \o (b \o c)
OBVIOUS

\* The front of two sequences put together.
LEMMA ConcatFront ==
  ASSUME NEW S, NEW a \in Seq(S), NEW b \in Seq(S)
  PROVE  /\ Len(a \o b) = Len(a) + Len(b) /\ SubSeq(a \o b, 1, Len(a \o b) - Len(b)) = a
         /\ a \o <<>> = a
<1>1. /\ Len(a \o b) = Len(a) + Len(b) /\ a \o b \in Seq(S)
      /\ \A i \in 1 .. Len(a) : (a \o b)[i] = a[i]
  OBVIOUS
<1>2. Len(a \o b) - Len(b) = Len(a)
  BY <1>1
<1>3. SubSeq(a \o b, 1, Len(a)) = a
  BY <1>1
<1> QED BY <1>1, <1>2, <1>3

\* A cursor that covers nothing stands behind an empty preview.
LEMMA NothingShown ==
  ASSUME NEW text \in Seq(Text), NEW at \in [stable : Nat, tail : Nat], PreviewLen(at) = 0
  PROVE  /\ EndsWith(Empty, text, at)
         /\ \A p \in Showing : EndsWith(p, text, at) => p = Empty
<1>1. at.stable = 0 /\ at.tail = 0
  BY DEF PreviewLen
<1>2. EndsWith(Empty, text, at)
  <2>1. text = (text \o <<>>) \o <<>>
    OBVIOUS
  <2> QED BY <1>1, <2>1, ShowingIs DEF EndsWith
<1>3. ASSUME NEW p \in Showing, EndsWith(p, text, at) PROVE p = Empty
  <2>1. Len(p.stable) = 0 /\ Len(p.tail) = 0 /\ p.stable \in Seq(Words) /\ p.tail \in Seq(Words)
        /\ p = [stable |-> p.stable, tail |-> p.tail]
    BY <1>1, <1>3, ShowingIs DEF EndsWith
  <2>2. p.stable = <<>> /\ p.tail = <<>>
    BY <2>1
  <2> QED BY <2>1, <2>2 DEF Empty
<1> QED BY <1>2, <1>3

\* An edit makes of the preview in the prompt what it says.
LEMMA EditShows ==
  ASSUME Types, Covered, NEW f \in Frame, Edits(f), NEW p \in Showing, Shows(p)
  PROVE  Shows(Edited(p, f.edit))'
<1>1. PromptTypes
  BY DEF Types
<1>2. PICK st \in Seq(Text), tl \in Seq(Text), c \in Seq(Text), t \in Seq(Text) :
        st = p.stable /\ tl = p.tail /\ c = f.edit.committed /\ t = f.edit.tail
  <2>1. p.stable \in Seq(Text) /\ p.tail \in Seq(Text)
    BY ShowingIs
  <2>2. f.edit.committed \in Seq(Text) /\ f.edit.tail \in Seq(Text)
    BY <1>1, EditIs, WordsAreText
  <2> QED BY <2>1, <2>2
<1>3. PICK before \in Seq(Text) : prompt = (before \o st) \o tl
  BY <1>2 DEF Shows, EndsWith
<1>4. Len(st) = cursor.stable /\ Len(tl) = cursor.tail
  BY <1>2 DEF Shows, EndsWith
<1>5. /\ prompt' = SubSeq(prompt, 1, Len(prompt) - cursor.tail) \o (c \o t)
      /\ cursor'.stable = cursor.stable + Len(c) /\ cursor'.tail = Len(t)
  BY <1>1, <1>2, EditIs
<1>6. SubSeq(prompt, 1, Len(prompt) - cursor.tail) = before \o st /\ before \o st \in Seq(Text)
  <2>1. PICK a \in Seq(Text) : a = before \o st
    BY ConcatIs
  <2>2. Len(a \o tl) = Len(a) + Len(tl) /\ SubSeq(a \o tl, 1, Len(a \o tl) - Len(tl)) = a
    BY ConcatFront
  <2> QED BY <1>3, <1>4, <2>1, <2>2
<1>7. prompt' = (before \o (st \o c)) \o t
  <2>1. (before \o st) \o (c \o t) = ((before \o st) \o c) \o t
    <3>1. PICK a \in Seq(Text) : a = before \o st
      BY <1>6
    <3>2. (a \o c) \o t = a \o (c \o t)
      BY ConcatAssoc
    <3> QED BY <3>1, <3>2
  <2>2. (before \o st) \o c = before \o (st \o c)
    BY ConcatAssoc
  <2> QED BY <1>5, <1>6, <2>1, <2>2
<1>8. Len(st \o c) = Len(st) + Len(c)
  BY ConcatIs
<1>9. Edited(p, f.edit).stable = st \o c /\ Edited(p, f.edit).tail = t
  BY <1>2 DEF Edited
<1> QED BY <1>4, <1>5, <1>7, <1>8, <1>9 DEF Shows, EndsWith

\* What the prompt shows after a step that is not an edit or a finalize.
LEMMA RestShows ==
  ASSUME Types, Covered, PromptTypes', ~spoiled', NEW p \in Showing, Shows(p),
         Untouched \/ Begins \/ Strikes
  PROVE  Shows(p)' /\ (Untouched \/ p = Empty)
<1>1. PromptTypes
  BY DEF Types
<1>2. ASSUME PreviewLen(cursor) = 0, PreviewLen(cursor') = 0
      PROVE  Shows(p)' /\ p = Empty
  <2>1. p = Empty
    BY <1>1, <1>2, NothingShown DEF PromptTypes, Shows
  <2>2. EndsWith(Empty, prompt', cursor')
    BY <1>2, NothingShown DEF PromptTypes
  <2> QED BY <2>1, <2>2 DEF Shows
<1>3. CASE Untouched
  BY <1>3 DEF Untouched, Shows
<1>4. CASE Begins
  <2>1. PreviewLen(cursor) = 0
    <3>1. PreviewLen(cursor) \in Nat /\ ~(PreviewLen(cursor) > 0)
      BY <1>1, <1>4 DEF Begins, PromptTypes, PreviewLen
    <3> QED BY <3>1
  <2> QED BY <1>2, <1>4, <2>1, BeginIs
<1>5. ASSUME Strikes PROVE Shows(p)' /\ p = Empty
  <2>1. cursor' = cursor /\ (PreviewLen(cursor) > 0 => ~HasPreview(prompt))
    BY <1>5 DEF Strikes
  <2>2. PreviewLen(cursor) = 0
    <3>1. PreviewLen(cursor) \in Nat
      BY <1>1 DEF PromptTypes, PreviewLen
    <3> QED BY <1>1, <2>1, <3>1, NoPreview
  <2> QED BY <1>2, <2>1, <2>2
<1> QED BY <1>3, <1>4, <1>5

\* One preview more.
LEMMA Extended ==
  ASSUME NEW n \in Nat, NEW v \in [0 .. n -> Showing], NEW p \in Showing
  PROVE  \E w \in [0 .. n + 1 -> Showing] :
           w[n + 1] = p /\ \A i \in 0 .. n : w[i] = v[i]
<1> DEFINE w == [i \in 0 .. n + 1 |-> IF i = n + 1 THEN p ELSE v[i]]
<1>1. w \in [0 .. n + 1 -> Showing]
  OBVIOUS
<1>2. w[n + 1] = p /\ \A i \in 0 .. n : w[i] = v[i]
  OBVIOUS
<1> HIDE DEF w
<1> QED BY <1>1, <1>2

\* A frame is pushed to the wrapper of the session, and leads on.
LEMMA PushedLeads ==
  ASSUME Types, NEW v \in [0 .. Len(lane) -> Showing], Leads(v), NEW f \in Frame,
         lane' = Append(lane, f), session' = session, NEW p \in Showing,
         \/ f.kind = "transcript" /\ p = v[Len(lane)]
         \/ f.kind = "edit" /\ f.dictation = session /\ p = Edited(v[Len(lane)], f.edit)
  PROVE  \E w \in [0 .. Len(lane') -> Showing] :
           w[0] = v[0] /\ Leads(w)' /\ w[Len(lane')] = p
<1>1. lane \in Seq(Frame) /\ Len(lane) \in Nat /\ DOMAIN lane = 1 .. Len(lane)
  BY DEF Types, LaneTypes
<1>2. /\ Len(lane') = Len(lane) + 1 /\ DOMAIN lane' = DOMAIN lane \cup {Len(lane) + 1}
      /\ \A i \in DOMAIN lane : lane'[i] = lane[i]
      /\ lane'[Len(lane) + 1] = f
  BY <1>1, Appended
<1>3. PICK w \in [0 .. Len(lane) + 1 -> Showing] :
        w[Len(lane) + 1] = p /\ \A i \in 0 .. Len(lane) : w[i] = v[i]
  BY <1>1, Extended
<1>4. ASSUME NEW i \in DOMAIN lane'
      PROVE  \/ lane'[i].kind = "transcript" /\ w[i] = w[i - 1]
             \/ /\ lane'[i].kind = "edit" /\ lane'[i].dictation = session
                /\ w[i] = Edited(w[i - 1], lane'[i].edit)
  <2>1. CASE i \in DOMAIN lane
    <3>1. i \in 0 .. Len(lane) /\ i - 1 \in 0 .. Len(lane)
      BY <1>1, <2>1
    <3>2. w[i] = v[i] /\ w[i - 1] = v[i - 1] /\ lane'[i] = lane[i]
      BY <1>2, <1>3, <2>1, <3>1
    <3> QED BY <2>1, <3>2 DEF Leads
  <2>2. CASE i = Len(lane) + 1
    <3>1. i - 1 = Len(lane) /\ Len(lane) \in 0 .. Len(lane)
      BY <1>1, <2>2
    <3>2. w[i - 1] = v[Len(lane)] /\ w[i] = p /\ lane'[i] = f
      BY <1>2, <1>3, <2>2, <3>1
    <3> QED BY <3>2
  <2> QED BY <1>2, <2>1, <2>2
<1>5. w[0] = v[0]
  <2>1. 0 \in 0 .. Len(lane)
    BY <1>1
  <2> QED BY <1>3, <2>1
<1> QED BY <1>2, <1>3, <1>4, <1>5 DEF Leads

\* The first frame has arrived.
LEMMA PoppedLeads ==
  ASSUME Types, NEW v \in [0 .. Len(lane) -> Showing], Leads(v), NEW f, Arrived(f),
         session' = session
  PROVE  /\ \/ f.kind = "transcript" /\ v[1] = v[0]
            \/ /\ f.kind = "edit" /\ f.dictation = session
               /\ v[1] = Edited(v[0], f.edit)
         /\ v[0] \in Showing /\ v[1] \in Showing
         /\ \E w \in [0 .. Len(lane') -> Showing] :
              w[0] = v[1] /\ Leads(w)' /\ w[Len(lane')] = v[Len(lane)]
<1>1. lane \in Seq(Frame) /\ Len(lane) \in Nat /\ DOMAIN lane = 1 .. Len(lane) /\ LaneTypes
  BY DEF Types, LaneTypes
<1>2. /\ 1 \in DOMAIN lane /\ f = lane[1] /\ Len(lane') = Len(lane) - 1 /\ lane' \in Seq(Frame)
      /\ \A i \in DOMAIN lane' : i + 1 \in DOMAIN lane /\ lane'[i] = lane[i + 1]
  BY <1>1, PoppedLane
<1>3. Len(lane) >= 1 /\ Len(lane') \in Nat /\ DOMAIN lane' = 1 .. Len(lane')
  BY <1>1, <1>2
<1>4. v[0] \in Showing /\ v[1] \in Showing /\ 1 - 1 = 0
  BY <1>1, <1>3
<1>5. \/ f.kind = "transcript" /\ v[1] = v[0]
      \/ f.kind = "edit" /\ f.dictation = session /\ v[1] = Edited(v[0], f.edit)
  BY <1>2, <1>4 DEF Leads
<1>6. PICK n \in Nat : n = Len(lane')
  BY <1>3
<1> DEFINE w == [i \in 0 .. n |-> v[i + 1]]
<1>7. w \in [0 .. n -> Showing] /\ \A i \in 0 .. n : w[i] = v[i + 1]
  BY <1>1, <1>2, <1>3, <1>6
<1> HIDE DEF w
<1>8. ASSUME NEW i \in DOMAIN lane'
      PROVE  \/ lane'[i].kind = "transcript" /\ w[i] = w[i - 1]
             \/ /\ lane'[i].kind = "edit" /\ lane'[i].dictation = session
                /\ w[i] = Edited(w[i - 1], lane'[i].edit)
  <2>1. i + 1 \in DOMAIN lane /\ lane'[i] = lane[i + 1]
    BY <1>2
  <2>2. i \in 0 .. n /\ i - 1 \in 0 .. n /\ (i - 1) + 1 = i /\ (i + 1) - 1 = i
    BY <1>3, <1>6
  <2>3. w[i] = v[i + 1] /\ w[i - 1] = v[i]
    BY <1>7, <2>2
  <2> QED BY <2>1, <2>2, <2>3 DEF Leads
<1>9. w[0] = v[1] /\ w[n] = v[Len(lane)]
  <2>1. 0 \in 0 .. n /\ n \in 0 .. n /\ n + 1 = Len(lane) /\ 0 + 1 = 1
    BY <1>1, <1>2, <1>6
  <2> QED BY <1>7, <2>1
<1> QED BY <1>4, <1>5, <1>6, <1>7, <1>8, <1>9 DEF Leads

\* A foreign frame in the lane stays there until it arrives.
LEMMA StillDoomed ==
  ASSUME LaneTypes, Doomed, session' = session,
         \A i \in DOMAIN lane : i \in DOMAIN lane' /\ lane'[i] = lane[i]
  PROVE  Doomed'
BY DEF Doomed

\* A dictation begins: nothing is shown of the last, and of what is in the lane only
\* transcripts are no strangers.
LEMMA StartAgrees ==
  ASSUME Types, Numbered, OwedInPrompt, StartStreaming, ~spoiled'
  PROVE  Doomed' \/ \E v \in [0 .. Len(lane') -> Showing] : Agrees(v)'
<1>1. LaneTypes /\ PromptTypes /\ TaskTypes
  BY DEF Types
<1>2. /\ session = None /\ session' \in Dictation /\ session' = used.dictations + 1
      /\ used.dictations \in Nat /\ reconciling = {} /\ ~spoiled
      /\ engine' = FreshEngine /\ lastTail' = <<>>
      /\ driver' = [driver EXCEPT ![session'] = "live"]
      /\ UNCHANGED <<lane, cursor, prompt>>
  BY StartIs
<1>3. CASE \E i \in DOMAIN lane : lane[i].kind # "transcript"
  <2>1. PICK i \in DOMAIN lane : lane[i].kind # "transcript"
    BY <1>3
  <2>2. lane[i] \in Frame
    BY <1>1 DEF LaneTypes
  <2>3. lane[i].dictation \in Nat /\ lane[i].dictation <= used.dictations
    BY <2>1, <2>2, FrameIs, DictationIs DEF Numbered, LaneNumbered
  <2>4. lane[i].dictation # session'
    BY <1>2, <2>3
  <2>5. Doomed'
    BY <1>2, <2>1, <2>4 DEF Doomed
  <2> QED BY <2>5
<1>4. CASE \A i \in DOMAIN lane : lane[i].kind = "transcript"
  <2>1. PreviewLen(cursor) = 0
    <3>1. \A d \in Dictation : ~Coming(d)
      BY <1>2, DictationIs DEF Coming
    <3>2. \A j \in DOMAIN lane : ~Ending(j)
      BY <1>4 DEF Ending
    <3>3. ~(PreviewLen(cursor) > 0) /\ PreviewLen(cursor) \in Nat
      BY <1>1, <1>2, <3>1, <3>2 DEF OwedInPrompt, PromptTypes, PreviewLen
    <3> QED BY <3>3
  <2>2. PICK n \in Nat : n = Len(lane) /\ DOMAIN lane = 1 .. n
    BY <1>1 DEF LaneTypes
  <2>3. PICK v \in [0 .. n -> Showing] : \A i \in 0 .. n : v[i] = Empty
    <3>1. [i \in 0 .. n |-> Empty] \in [0 .. n -> Showing]
      BY ShowingIs
    <3> QED BY <3>1
  <2>4. v[0] = Empty /\ v[n] = Empty /\ \A i \in 1 .. n : v[i] = v[i - 1]
    <3>1. 0 \in 0 .. n /\ n \in 0 .. n /\ \A i \in 1 .. n : i \in 0 .. n /\ i - 1 \in 0 .. n
      OBVIOUS
    <3> QED BY <2>3, <3>1
  <2>5. Shows(v[0])'
    <3>1. EndsWith(Empty, prompt, cursor)
      BY <1>1, <2>1, NothingShown DEF PromptTypes
    <3> QED BY <1>2, <2>4, <3>1 DEF Shows
  <2>6. Leads(v)'
    BY <1>2, <1>4, <2>2, <2>4 DEF Leads
  <2>7. Arrives(v[n])'
    <3>1. driver'[session'] = "live"
      BY <1>1, <1>2 DEF TaskTypes
    <3>2. Target' = Empty
      BY <1>2 DEF Target, FreshEngine, Empty
    <3> QED BY <2>4, <3>1, <3>2 DEF Arrives
  <2>8. Agrees(v)' /\ n = Len(lane')
    BY <1>2, <2>2, <2>5, <2>6, <2>7 DEF Agrees
  <2> QED BY <2>8
<1> QED BY <1>3, <1>4

\* A decode: what it commits and the tail are the edit that is going to be sent.
LEMMA DecodeAgrees ==
  ASSUME Types, NEW v \in [0 .. Len(lane) -> Showing], Agrees(v), session # None,
         Decode(session)
  PROVE  Agrees(v)'
<1>1. /\ session \in Dictation /\ driver[session] = "live"
      /\ UNCHANGED <<session, lane, cursor, prompt>>
      /\ TaskTypes /\ EngineTypes /\ BudgetTypes /\ LaneTypes
  BY DEF Types, TaskTypes, Decode, channel, wrapper
<1>2. PICK newly \in Seq(Words) :
        /\ engine'.committed = engine.committed \o newly
        /\ \/ /\ driver' = [driver EXCEPT ![session] = "send"]
              /\ edit' = [edit EXCEPT ![session] = [committed |-> newly, tail |-> lastTail']]
           \/ newly = <<>> /\ lastTail' = lastTail /\ EndRound(session)
  BY <1>1, DecodeIs
<1>3. v[Len(lane)] = [stable |-> engine.committed, tail |-> lastTail]
  BY <1>1 DEF Agrees, Arrives, Target
<1>4. Arrives(v[Len(lane)])'
  <2>1. CASE /\ driver' = [driver EXCEPT ![session] = "send"]
             /\ edit' = [edit EXCEPT ![session] = [committed |-> newly, tail |-> lastTail']]
    <3>1. driver'[session] = "send" /\ edit'[session] = [committed |-> newly, tail |-> lastTail']
      BY <1>1, <2>1 DEF TaskTypes, EngineTypes
    <3>2. Edited(v[Len(lane)], edit'[session])
            = [stable |-> engine.committed \o newly, tail |-> lastTail']
      BY <1>3, <3>1 DEF Edited
    <3>3. Target' = [stable |-> engine.committed \o newly, tail |-> lastTail']
      BY <1>2 DEF Target
    <3> QED BY <1>1, <3>1, <3>2, <3>3 DEF Arrives
  <2>2. CASE newly = <<>> /\ lastTail' = lastTail /\ EndRound(session)
    <3>1. driver'[session] # "send"
      BY <1>1, <2>2 DEF EndRound, TaskTypes
    <3>2. engine.committed \o <<>> = engine.committed
      BY <1>1 DEF EngineTypes
    <3>3. Target' = v[Len(lane)]
      BY <1>2, <1>3, <2>2, <3>2 DEF Target
    <3> QED BY <1>1, <3>1, <3>3 DEF Arrives
  <2> QED BY <1>2, <2>1, <2>2
<1>5. Shows(v[0])' /\ Leads(v)'
  BY <1>1 DEF Agrees, Shows, Leads
<1> QED BY <1>1, <1>4, <1>5 DEF Agrees

\* The edit is sent.
LEMMA SendAgrees ==
  ASSUME Types, NEW v \in [0 .. Len(lane) -> Showing], Agrees(v), session # None,
         Live(bound[session]), SendEdit(session)
  PROVE  \E w \in [0 .. Len(lane') -> Showing] : Agrees(w)'
<1>1. session \in Dictation /\ TaskTypes /\ EngineTypes /\ LaneTypes
  BY DEF Types, TaskTypes
<1>2. PICK f \in Frame : f = EditFrame(session, edit[session])
  BY <1>1, SendIs
<1>3. /\ driver[session] = "send" /\ Push(bound[session], f)
      /\ driver' \in {[driver EXCEPT ![session] = pc] : pc \in {"live", "end"}}
      /\ UNCHANGED <<session, engine, lastTail, cursor, prompt>>
  BY <1>1, <1>2, SendIs
<1>4. lane' = Append(lane, f)
  BY <1>1, <1>3, PushedLane
<1>5. f.kind = "edit" /\ f.dictation = session /\ f.edit = edit[session]
  BY <1>2, FrameFields
<1>6. PICK p \in Showing : p = Edited(v[Len(lane)], f.edit)
  <2>1. Len(lane) \in 0 .. Len(lane)
    BY <1>1 DEF LaneTypes
  <2>2. v[Len(lane)] \in Showing /\ f.edit \in Edit
    BY <1>5, <2>1, FrameIs
  <2> QED BY <2>2, ShowingIs
<1>7. Leads(v)
  BY DEF Agrees
<1>8. PICK w \in [0 .. Len(lane') -> Showing] : w[0] = v[0] /\ Leads(w)' /\ w[Len(lane')] = p
  BY <1>3, <1>4, <1>5, <1>6, <1>7, PushedLeads
<1>9. Arrives(w[Len(lane)])'
  <2>1. driver'[session] # "send"
    BY <1>1, <1>3 DEF TaskTypes
  <2>2. p = Target
    BY <1>3, <1>5, <1>6 DEF Agrees, Arrives
  <2>3. w[Len(lane')] = Target'
    BY <1>3, <1>8, <2>2 DEF Target
  <2> QED BY <1>3, <2>1, <2>3 DEF Arrives
<1>10. Shows(w[0])'
  BY <1>3, <1>8 DEF Agrees, Shows
<1> QED BY <1>8, <1>9, <1>10 DEF Agrees

\* A transcript is pushed behind what is in the lane.
LEMMA TranscriptAgrees ==
  ASSUME Types, NEW v \in [0 .. Len(lane) -> Showing], Agrees(v), DeliverTranscript
  PROVE  \E w \in [0 .. Len(lane') -> Showing] : Agrees(w)'
<1>1. LaneTypes /\ UNCHANGED <<daemon, cursor, prompt>>
  BY DEF Types, DeliverTranscript, wrapper
<1>2. lane' = Append(lane, TranscriptFrame) /\ TranscriptFrame \in Frame
      /\ TranscriptFrame.kind = "transcript"
  BY <1>1, FramesAre, FrameFields DEF DeliverTranscript, Push, Live
<1>3. PICK p \in Showing : p = v[Len(lane)]
  <2>1. Len(lane) \in 0 .. Len(lane)
    BY <1>1 DEF LaneTypes
  <2> QED BY <2>1
<1>4. PICK w \in [0 .. Len(lane') -> Showing] : w[0] = v[0] /\ Leads(w)' /\ w[Len(lane')] = p
  <2>1. Leads(v) /\ session' = session
    BY <1>1 DEF Agrees, daemon
  <2> QED BY <1>2, <1>3, <2>1, PushedLeads
<1>5. Arrives(w[Len(lane)])'
  BY <1>1, <1>3, <1>4 DEF Agrees, Arrives, Target, daemon, live
<1>6. Shows(w[0])'
  BY <1>1, <1>4 DEF Agrees, Shows
<1> QED BY <1>4, <1>5, <1>6 DEF Agrees

\* The first frame of the lane arrives.
LEMMA FrameAgrees ==
  ASSUME Types, Covered, PromptTypes', ~spoiled',
         NEW v \in [0 .. Len(lane) -> Showing], Agrees(v), ForwardFrame
  PROVE  \E w \in [0 .. Len(lane') -> Showing] : Agrees(w)'
<1>1. LaneTypes /\ PromptTypes /\ UNCHANGED daemon
  BY DEF Types, ForwardFrame
<1>2. PICK f \in Frame :
        /\ Arrived(f)
        /\ \/ Edits(f)
           \/ Ends(f)
           \/ f.kind = "transcript" /\ Types1("text")
  BY <1>1, FrameArrives
<1>3. Leads(v) /\ session' = session
  BY <1>1 DEF Agrees, daemon
<1>4. /\ \/ f.kind = "transcript" /\ v[1] = v[0]
         \/ f.kind = "edit" /\ v[1] = Edited(v[0], f.edit)
      /\ v[0] \in Showing /\ v[1] \in Showing
  BY <1>2, <1>3, PoppedLeads
<1>5. PICK w \in [0 .. Len(lane') -> Showing] :
        w[0] = v[1] /\ Leads(w)' /\ w[Len(lane')] = v[Len(lane)]
  BY <1>2, <1>3, PoppedLeads
<1>6. Shows(v[0])
  BY DEF Agrees
<1>7. Shows(w[0])'
  <2>1. CASE Edits(f)
    <3>1. v[1] = Edited(v[0], f.edit)
      BY <1>4, <2>1 DEF Edits
    <3>2. Shows(Edited(v[0], f.edit))'
      BY <1>4, <1>6, <2>1, EditShows
    <3> QED BY <1>5, <3>1, <3>2
  <2>2. CASE Ends(f)
    BY <1>4, <2>2 DEF Ends
  <2>3. CASE f.kind = "transcript" /\ Types1("text")
    <3>1. v[1] = v[0]
      BY <1>4, <2>3
    <3>2. Shows(v[0])'
      BY <1>4, <1>6, <2>3, RestShows DEF Types1
    <3> QED BY <1>5, <3>1, <3>2
  <2> QED BY <1>2, <2>1, <2>2, <2>3
<1>8. Arrives(w[Len(lane)])'
  BY <1>1, <1>5 DEF Agrees, Arrives, Target, daemon, live
<1> QED BY <1>5, <1>7, <1>8 DEF Agrees

\* Every step keeps the engine and the prompt in agreement.
LEMMA NextAgreement == IInv /\ PromptTypes' /\ [Next]_vars => Agreement'
<1> SUFFICES ASSUME IInv, PromptTypes', [Next]_vars,
                    ~spoiled', session' # None, Live(bound[session])'
             PROVE  Doomed' \/ \E v \in [0 .. Len(lane') -> Showing] : Agrees(v)'
  BY DEF Agreement
<1>1. /\ Types /\ Numbered /\ OwedInPrompt /\ OneAtATime /\ CursorCovered /\ Agreement
      /\ TaskTypes /\ EngineTypes /\ BudgetTypes /\ LaneTypes /\ LinkTypes /\ PromptTypes
  BY DEF IInv, Types
<1>2. ASSUME ~spoiled, UNCHANGED <<session, bound, registered>>
      PROVE  /\ session \in Dictation /\ session # None /\ Live(bound[session])
             /\ reconciling = {}
             /\ Doomed \/ \E v \in [0 .. Len(lane) -> Showing] : Agrees(v)
  BY <1>1, <1>2 DEF Live, OneAtATime, Agreement, TaskTypes
<1>3. CASE Rests
  <2>1. ~spoiled /\ UNCHANGED <<session, bound, registered, engine, lastTail, lane>> /\ DriversRest
    BY <1>3 DEF Rests, Untouched, Begins, Types1, Erases, Strikes
  <2>2. CASE Doomed
    BY <1>1, <2>1, <2>2, StillDoomed
  <2>3. ASSUME NEW v \in [0 .. Len(lane) -> Showing], Agrees(v) PROVE Agrees(v)'
    <3>1. v[0] \in Showing /\ Shows(v[0])
      <4>1. 0 \in 0 .. Len(lane)
        BY <1>1 DEF LaneTypes
      <4> QED BY <2>3, <4>1 DEF Agrees
    <3>2. Shows(v[0])'
      <4>1. Covered
        BY <1>1, <2>1 DEF CursorCovered
      <4>2. Untouched \/ Begins \/ Strikes
        BY <1>3 DEF Rests, Types1, Erases
      <4> QED BY <1>1, <3>1, <4>1, <4>2, RestShows
    <3>3. session \in Dictation
      BY <1>2, <2>1
    <3>4. Arrives(v[Len(lane)])'
      BY <2>1, <2>3, <3>3 DEF Agrees, Arrives, Target, DriversRest
    <3> QED BY <2>1, <2>3, <3>2, <3>4 DEF Agrees, Leads
  <2>4. lane' = lane
    BY <2>1
  <2> QED BY <1>2, <2>1, <2>2, <2>3, <2>4
<1>4. CASE StartStreaming
  BY <1>1, <1>4, StartAgrees
<1>5. CASE DiscardStreaming
  BY <1>5 DEF DiscardStreaming, TakeSession
<1>6. ASSUME NEW d \in Dictation, Takes(d) PROVE FALSE
  BY <1>6 DEF Takes
<1>7. ASSUME NEW d \in Dictation, Decode(d)
      PROVE  Doomed' \/ \E v \in [0 .. Len(lane') -> Showing] : Agrees(v)'
  <2>1. ~spoiled /\ session = d /\ UNCHANGED <<session, bound, registered, lane>>
    BY <1>7 DEF Decode, channel
  <2>2. CASE Doomed
    BY <1>1, <2>1, <2>2, StillDoomed
  <2>3. ASSUME NEW v \in [0 .. Len(lane) -> Showing], Agrees(v) PROVE Agrees(v)'
    BY <1>1, <1>2, <1>7, <2>1, <2>3, DecodeAgrees
  <2>4. lane' = lane
    BY <2>1
  <2> QED BY <1>2, <2>1, <2>2, <2>3, <2>4
<1>8. ASSUME NEW d \in Dictation, SendEdit(d)
      PROVE  Doomed' \/ \E v \in [0 .. Len(lane') -> Showing] : Agrees(v)'
  <2>1. ~spoiled /\ (session = d \/ d \in reconciling) /\ UNCHANGED <<session, bound, registered>>
    BY <1>1, <1>8, SendIs
  <2>2. session = d /\ session # None /\ Live(bound[session])
    BY <1>2, <2>1
  <2>3. CASE Doomed
    <3>1. PICK f \in Frame : Push(bound[d], f)
      BY <1>1, <1>8, SendIs
    <3>2. \A i \in DOMAIN lane : i \in DOMAIN lane' /\ lane'[i] = lane[i]
      BY <1>1, <3>1, PushedLane
    <3> QED BY <1>1, <2>1, <2>3, <3>2, StillDoomed
  <2>4. CASE \E v \in [0 .. Len(lane) -> Showing] : Agrees(v)
    BY <1>1, <1>8, <2>2, <2>4, SendAgrees
  <2> QED BY <1>2, <2>1, <2>3, <2>4
<1>9. ASSUME NEW d \in Dictation, Reconciled(d) \/ ReconciledEmpty(d) PROVE FALSE
  <2>1. d \in reconciling /\ ~spoiled /\ UNCHANGED <<session, bound, registered>>
    BY <1>9 DEF Reconciled, ReconciledEmpty
  <2> QED BY <1>2, <2>1
<1>10. CASE DeliverTranscript
  <2>1. ~spoiled /\ UNCHANGED <<session, bound, registered>>
    BY <1>10 DEF DeliverTranscript, daemon
  <2>2. CASE Doomed
    <3>1. TranscriptFrame \in Frame /\ Push(registered, TranscriptFrame)
      BY <1>10, FramesAre DEF DeliverTranscript
    <3>2. \A i \in DOMAIN lane : i \in DOMAIN lane' /\ lane'[i] = lane[i]
      BY <1>1, <3>1, PushedLane
    <3> QED BY <1>1, <2>1, <2>2, <3>2, StillDoomed
  <2>3. CASE \E v \in [0 .. Len(lane) -> Showing] : Agrees(v)
    BY <1>1, <1>10, <2>3, TranscriptAgrees
  <2> QED BY <1>2, <2>1, <2>2, <2>3
<1>11. CASE DaemonDies
  BY <1>11 DEF DaemonDies
<1>12. CASE Register
  <2>1. /\ registered' = used.links + 1 /\ used.links \in Nat
        /\ UNCHANGED <<session, bound>>
    BY <1>1, <1>12, RegisterIs DEF daemon
  <2>2. session \in Dictation
    BY <1>1, <2>1 DEF TaskTypes
  <2>3. bound[session] \in Nat /\ bound[session] <= used.links
    BY <1>1, <2>2 DEF LinkTypes, Numbered, LinksNumbered
  <2>4. bound'[session'] = registered'
    BY DEF Live
  <2> QED BY <2>1, <2>3, <2>4
<1>13. CASE ForwardFrame
  <2>1. PICK f \in Frame :
          /\ Arrived(f) /\ ~spoiled
          /\ f.kind # "transcript" => ~Astray(f.dictation)
    BY <1>1, <1>13, FrameArrives DEF Edits, Ends, Types1, Strikes
  <2>2. UNCHANGED <<session, bound, registered>>
    BY <1>13 DEF ForwardFrame, daemon
  <2>3. session = used.dictations
    BY <1>1, <1>2, <2>1, <2>2 DEF Numbered, TasksNumbered
  <2>4. CASE Doomed
    <3>1. PICK i \in DOMAIN lane : lane[i].kind # "transcript" /\ lane[i].dictation # session
      BY <2>4 DEF Doomed
    <3>2. i # 1
      BY <1>1, <2>1, <2>3, <3>1, PoppedLane DEF Astray
    <3>3. i - 1 \in DOMAIN lane' /\ lane'[i - 1] = lane[i]
      BY <1>1, <2>1, <3>1, <3>2, PoppedLane
    <3> QED BY <2>2, <3>1, <3>3 DEF Doomed
  <2>5. CASE \E v \in [0 .. Len(lane) -> Showing] : Agrees(v)
    <3>1. Covered
      BY <1>1, <2>1 DEF CursorCovered
    <3> QED BY <1>1, <1>13, <2>5, <3>1, FrameAgrees
  <2> QED BY <1>2, <2>1, <2>2, <2>4, <2>5
<1> QED BY <1>1, <1>3, <1>4, <1>5, <1>6, <1>7, <1>8, <1>9, <1>10, <1>11, <1>12, <1>13, StepKinds

-----------------------------------------------------------------------------
(* The theorems *)

\* The invariant holds at first.
LEMMA InitIInv == Init => IInv
<1> SUFFICES ASSUME Init PROVE IInv
  OBVIOUS
<1>1. Types
  BY InitTypes
<1>2. PreviewLen(cursor) = 0 /\ prompt = <<>> /\ lane = <<>> /\ session = None
  BY DEF Init, FreshCursor, PreviewLen
<1>3. Numbered
  <2>1. used.dictations = 0 /\ used.links = 0
    BY DEF Init, Bounded
  <2> QED BY <1>2, <2>1
          DEF Init, Numbered, LaneNumbered, TasksNumbered, LinksNumbered, None
<1>4. TailIsRest
  BY DEF Init, TailIsRest, FreshEngine, After
<1>5. CursorCovered /\ PreviewAtEnd
  BY <1>2 DEF CursorCovered, Covered, PreviewAtEnd
<1>6. OwedInLane /\ OwedInPrompt /\ OneAtATime /\ Agreement
  BY <1>2 DEF OwedInLane, OwedInPrompt, OneAtATime, Agreement
<1> QED BY <1>1, <1>3, <1>4, <1>5, <1>6 DEF IInv

\* Every step keeps the invariant.
LEMMA NextIInv == IInv /\ [Next]_vars => IInv'
<1> SUFFICES ASSUME IInv, [Next]_vars PROVE IInv'
  OBVIOUS
<1>1. /\ Types /\ Numbered /\ TailIsRest /\ CursorCovered /\ PreviewAtEnd
      /\ OwedInLane /\ OwedInPrompt /\ OneAtATime /\ Agreement
      /\ FlagTypes /\ BudgetTypes /\ LaneTypes /\ PromptTypes
  BY DEF IInv, Types
<1>2. PromptTypes'
  BY <1>1, NextPromptTypes
<1>3. Types'
  BY <1>1, <1>2, NextFlagTypes, NextTaskTypes, NextEngineTypes, NextLinkTypes, NextLaneTypes,
     NextBudgetTypes DEF Types
<1>4. Numbered'
  BY <1>1, NextLaneNumbered, NextTasksNumbered, NextLinksNumbered DEF Numbered
<1>5. TailIsRest' /\ CursorCovered' /\ PreviewAtEnd'
  BY <1>1, NextTailIsRest, NextCursorCovered, NextPreviewAtEnd
<1>6. OwedInLane' /\ OwedInPrompt' /\ OneAtATime'
  BY <1>1, NextOwedInLane, NextOwedInPrompt, NextOneAtATime
<1>7. Agreement'
  BY <1>2, NextAgreement
<1> QED BY <1>3, <1>4, <1>5, <1>6, <1>7 DEF IInv

\* The inductive invariant holds in every state.
THEOREM PreviewInvariant == Spec => []IInv
BY InitIInv, NextIInv, PTL DEF Spec

\* Every variable of the daemon, of the channel and of the wrapper keeps its type,
\* whatever the decoder hears: observe returns words (streaming.rs), apply_edit and
\* finalize never make a length negative (pty.rs).
THEOREM PreviewTypeCorrect == Spec => []TypeOK
<1>1. IInv => TypeOK
  BY DEF IInv, Types, FlagTypes, TaskTypes, EngineTypes, LinkTypes, LaneTypes, PromptTypes, TypeOK
<1> QED BY <1>1, PreviewInvariant, PTL

\* Whatever is typed and whatever arrives in whatever order, the erasures of
\* apply_edit and finalize (pty.rs) never reach what stood before the first word
\* of a preview, as long as the user has not erased a counted preview himself.
THEOREM PromptIsKept == Spec => PromptKept
<1>1. IInv /\ [Next]_vars =>
        [~Key /\ ~retracted =>
           \A n \in DOMAIN prompt :
             (\A i \in 1 .. n : prompt[i] \notin Words)
               => n \in DOMAIN prompt' /\ prompt'[n] = prompt[n]]_vars
  <2> SUFFICES ASSUME IInv, [Next]_vars, ~Key, ~retracted
               PROVE  \A n \in DOMAIN prompt :
                        (\A i \in 1 .. n : prompt[i] \notin Words)
                          => n \in DOMAIN prompt' /\ prompt'[n] = prompt[n]
    OBVIOUS
  <2>1. LaneTypes /\ PromptTypes /\ Covered
    BY DEF IInv, Types, CursorCovered
  <2> QED BY <2>1, NextPromptKept
<1> QED BY <1>1, PreviewInvariant, PTL DEF Spec, PromptKept

\* A preview that nothing came between is replaced or erased when everything has
\* arrived (finalize_streaming, discard_streaming, apply_frame).
THEOREM PreviewsAreReplaced == Spec => []PreviewIsReplaced
<1>1. ASSUME IInv, Quiet, ~spoiled PROVE ~HasPreview(prompt)
  <2>1. /\ OwedInPrompt /\ PreviewAtEnd /\ CursorCovered /\ PromptTypes /\ TaskTypes
    BY <1>1 DEF IInv, Types
  <2>2. session = None /\ reconciling = {} /\ lane = <<>>
    BY <1>1 DEF Quiet
  <2>3. ~(PreviewLen(cursor) > 0) /\ PreviewLen(cursor) \in 0 .. Len(prompt)
    BY <1>1, <2>1, <2>2, DictationIs, CursorFits DEF OwedInPrompt, Coming, CursorCovered
  <2>4. \A i \in DOMAIN prompt : ~(i > Len(prompt) - PreviewLen(cursor))
    BY <2>1, <2>3 DEF PromptTypes
  <2> QED BY <1>1, <2>1, <2>4 DEF PreviewAtEnd, HasPreview
<1>2. IInv => PreviewIsReplaced
  BY <1>1 DEF PreviewIsReplaced
<1> QED BY <1>2, PreviewInvariant, PTL

\* Between two rounds of a dictation the prompt ends with what its engine committed
\* and the rest of the last hypothesis: observe and apply_edit (streaming.rs, pty.rs)
\* agree, for any hypotheses and however long the edits were under way.
THEOREM PreviewsAreCurrent == Spec => []PreviewIsCurrent
<1>1. ASSUME IInv, session # None, Live(bound[session]), ~spoiled, driver[session] # "send",
             lane = <<>>
      PROVE  LET shown  == engine.committed \o After(engine.prev, Len(engine.committed))
                 before == Keep(prompt, Len(shown))
             IN prompt = before \o shown /\ ~HasPreview(before)
  <2>1. /\ Agreement /\ PreviewAtEnd /\ CursorCovered /\ TailIsRest
        /\ PromptTypes /\ EngineTypes
    BY <1>1 DEF IInv, Types
  <2>2. PICK v \in [0 .. Len(lane) -> Showing] : Agrees(v)
    BY <1>1, <2>1 DEF Agreement, Doomed
  <2>3. Len(lane) = 0 /\ 0 \in 0 .. Len(lane)
    BY <1>1
  <2>4. v[0].stable = engine.committed /\ v[0].tail = lastTail /\ Shows(v[0]) /\ v[0] \in Showing
    BY <1>1, <2>2, <2>3 DEF Agrees, Arrives, Target
  <2>5. PICK st \in Seq(Text), tl \in Seq(Text) : st = engine.committed /\ tl = lastTail
    BY <2>1, WordsAreText DEF EngineTypes
  <2>6. PICK before \in Seq(Text) : prompt = (before \o st) \o tl
    BY <2>4, <2>5 DEF Shows, EndsWith
  <2>7. PreviewLen(cursor) = Len(st) + Len(tl)
    BY <2>4, <2>5 DEF Shows, EndsWith, PreviewLen
  <2>8. PICK shown \in Seq(Text) : shown = st \o tl /\ Len(shown) = Len(st) + Len(tl)
    BY ConcatIs
  <2>9. prompt = before \o shown
    BY <2>6, <2>8, ConcatAssoc
  <2>10. Keep(prompt, Len(shown)) = before /\ Len(prompt) = Len(before) + Len(shown)
    BY <2>9, ConcatFront DEF Keep
  <2>11. ~HasPreview(before)
    <3> SUFFICES ASSUME NEW i \in DOMAIN before PROVE before[i] \notin Words
      BY DEF HasPreview
    <3>1. /\ i \in 1 .. Len(before) /\ Len(before) \in Nat /\ Len(shown) \in Nat
      OBVIOUS
    <3>2. prompt[i] = before[i]
      BY <2>9, <3>1, ConcatIs
    <3>3. i \in DOMAIN prompt /\ ~(i > Len(prompt) - PreviewLen(cursor))
      BY <2>1, <2>7, <2>8, <2>10, <3>1 DEF PromptTypes
    <3> QED BY <1>1, <2>1, <3>2, <3>3 DEF PreviewAtEnd
  <2>12. engine.committed \o After(engine.prev, Len(engine.committed)) = shown
    BY <2>1, <2>5, <2>8 DEF TailIsRest
  <2> QED BY <2>9, <2>10, <2>11, <2>12
<1>2. IInv => PreviewIsCurrent
  BY <1>1 DEF PreviewIsCurrent
<1> QED BY <1>2, PreviewInvariant, PTL

=============================================================================
