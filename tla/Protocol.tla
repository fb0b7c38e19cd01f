-------------------------------- MODULE Protocol --------------------------------
(***************************************************************************)
(* The line protocol of the control socket (protocol.rs): how commands,    *)
(* frames and status reports become lines and lines become them again.  A  *)
(* line is a sequence of symbols: a blank, a keyword, a number or, in a    *)
(* text, a byte.  What a line cannot be read as is Malformed.              *)
(***************************************************************************)
EXTENDS Integers, SequencesExt

CONSTANTS
    Malformed,   \* what cannot be read
    MaxNumber,   \* bounds the numbers a line holds
    Decimal      \* how they are written

Blank == " "
Break == "\n"
Unit == "US"   \* LIVE_EDIT_SEP

White == {Blank, Break}
Count == "wrappers="

ASSUME DecimalAssumption ==
    /\ MaxNumber \in Nat
    /\ Decimal \in [0..MaxNumber -> STRING \ (White \cup {Count})]

\* A word that is a number of at most limit.
Numeric(word, limit) ==
    \E n \in 0..MaxNumber : n <= limit /\ word = <<Decimal[n]>>

\* split_whitespace, character by character: the words before the last one, and
\* what there is of that.
Unsplit == [words |-> <<>>, last |-> <<>>]

Finished(split) ==
    IF split.last = <<>> THEN split.words ELSE Append(split.words, split.last)

Splitting(split, c) ==
    IF c \in White THEN [words |-> Finished(split), last |-> <<>>]
    ELSE [split EXCEPT !.last = Append(@, c)]

Words(text) == Finished(FoldLeft(Splitting, Unsplit, text))

\* trim
Trimmed(text) ==
    LET black == {i \in DOMAIN text : text[i] \notin White}
    IN IF black = {} THEN <<>> ELSE SubSeq(text, Min(black), Max(black))

\* join(" ")
Joined(words) ==
    FlattenSeq([n \in DOMAIN words |->
                   IF n = 1 THEN words[n] ELSE <<Blank>> \o words[n]])

\* strip_prefix, of what is not there to be stripped in the second case.
After(line, prefix) == SubSeq(line, Len(prefix) + 1, Len(line))

------------------------------------------------------------------------------
(* State *)

Unknown == "unknown"
StateOf(name) == [name |-> name, percent |-> Unknown]
Downloading(percent) == [name |-> "downloading", percent |-> percent]

StateName == {"downloading", "loading", "idle", "recording", "transcribing",
              "streaming"}

\* State::encode_token
EncodeState(state) ==
    IF state.percent = Unknown THEN <<state.name>>
    ELSE <<state.name, Blank, state.percent>>

\* The states there are; a percent is a number of at most 100.
State ==
    {StateOf(name) : name \in StateName}
        \cup {Downloading(Decimal[n]) : n \in {m \in 0..MaxNumber : m <= 100}}

ASSUME MalformedAssumption == Malformed \notin State

\* State::parse
StateOfWords(words) ==
    CASE /\ Len(words) = 1
         /\ \E name \in StateName : words[1] = <<name>>
           -> StateOf(words[1][1])
      [] /\ Len(words) = 2 /\ words[1] = <<"downloading">>
         /\ Numeric(words[2], 100)
           -> Downloading(words[2][1])
      [] OTHER -> Malformed

ParseState(line) == StateOfWords(Words(line))

------------------------------------------------------------------------------
(* Frame *)

Frame(kind, text) == [kind |-> kind, text |-> text]
Edit(committed, tail) ==
    [kind |-> "live-edit", committed |-> committed, tail |-> tail]
Pushed(state) == [kind |-> "state", state |-> state]

\* Frame::encode
EncodeFrame(frame) ==
    <<frame.kind, Blank>> \o
        CASE frame.kind \in {"transcript", "finalize"} -> frame.text
          [] frame.kind = "live-edit" -> frame.committed \o <<Unit>> \o frame.tail
          [] frame.kind = "state" -> EncodeState(frame.state)

\* Mutant of ParseFrame: the text is trimmed.
ParseFrameTrimmed(line) ==
    LET rest == Joined(Words(SubSeq(line, 3, Len(line))))
        units == {i \in DOMAIN rest : rest[i] = Unit}
        unit == IF units = {} THEN Len(rest) + 1 ELSE Min(units)
    IN CASE Len(line) < 2 \/ line[2] # Blank -> Malformed
         [] line[1] \in {"transcript", "finalize"} -> Frame(line[1], rest)
         [] line[1] = "live-edit" ->
              Edit(SubSeq(rest, 1, unit - 1), SubSeq(rest, unit + 1, Len(rest)))
         [] line[1] = "state" /\ ParseState(rest) # Malformed ->
              Pushed(ParseState(rest))
         [] OTHER -> Malformed

\* Frame::parse: a text is kept as it is, blanks and all.
ParseFrame(line) ==
    LET rest == SubSeq(line, 3, Len(line))
        units == {i \in DOMAIN rest : rest[i] = Unit}
        unit == IF units = {} THEN Len(rest) + 1 ELSE Min(units)
    IN CASE Len(line) < 2 \/ line[2] # Blank -> Malformed
         [] line[1] \in {"transcript", "finalize"} -> Frame(line[1], rest)
         [] line[1] = "live-edit" ->
              Edit(SubSeq(rest, 1, unit - 1), SubSeq(rest, unit + 1, Len(rest)))
         [] line[1] = "state" /\ ParseState(rest) # Malformed ->
              Pushed(ParseState(rest))
         [] OTHER -> Malformed

------------------------------------------------------------------------------
(* Command, Response and StatusReport *)

Word == {"toggle", "vad", "streaming", "continuous", "cancel", "status", "reload",
         "replay-last"}
Command(word) == [command |-> word]
Legacy == "legacy"
RegisterSink(version) == [command |-> "register-sink", version |-> version]

\* Cmd::word and trigger_command in the clients, and the line of the handshake.
EncodeCommand(command) ==
    CASE command.command \in Word -> <<command.command>>
      [] command = RegisterSink(Legacy) -> <<"register-sink">>
      [] OTHER -> <<"register-sink", Blank, command.version>>

\* Command::parse
ParseCommand(line) ==
    LET trimmed == Trimmed(line)
        rest == Trimmed(After(trimmed, <<"register-sink">>))
    IN CASE trimmed = <<>> -> Malformed
         [] trimmed[1] = "register-sink" /\ rest = <<>> -> RegisterSink(Legacy)
         [] trimmed[1] = "register-sink" /\ Numeric(rest, MaxNumber) ->
              RegisterSink(rest[1])
         [] Len(trimmed) = 1 /\ trimmed[1] \in Word -> Command(trimmed[1])
         [] OTHER -> Malformed

Report(state, wrappers) == [state |-> state, wrappers |-> wrappers]

\* StatusReport::encode
EncodeReport(report) ==
    <<"ok", Blank>> \o EncodeState(report.state)
        \o <<Blank, Count, report.wrappers>>

\* Response::encode
EncodeOk(state) == <<"ok", Blank>> \o EncodeState(state)
EncodeErr(message) == <<"err", Blank>> \o message

\* StatusReport::parse: the state is what comes before the first count, and the
\* last count counts.
ParseReport(line) ==
    LET words == Words(line)
        counts == {n \in DOMAIN words : words[n][1] = Count}
        first == IF counts = {} THEN Len(words) + 1 ELSE Min(counts)
        state == StateOfWords(SubSeq(words, 2, first - 1))
    IN CASE words = <<>> \/ words[1] # <<"ok">> \/ state = Malformed -> Malformed
         [] counts = {} -> Report(state, Decimal[0])
         [] /\ counts # {}
            /\ \A n \in counts : Numeric(Tail(words[n]), MaxNumber)
              -> Report(state, words[Max(counts)][2])
         [] OTHER -> Malformed

Incompatible == <<"incompatible">>
UnknownCommand == <<"unknown command">>

\* classify_first_line: what the reply to register-sink says of the link.
ClassifyFirstLine(line) ==
    CASE ParseFrame(line) # Malformed -> "registered"
      [] Len(line) >= 3 /\ line[1] = "err"
           /\ SubSeq(line, 3, 3) \in {Incompatible, UnknownCommand} -> "incompatible"
      [] OTHER -> "rejected"
==============================================================================
