---------------------------------- MODULE Wire ----------------------------------
(***************************************************************************)
(* One connection of the control socket, from the bytes written to what    *)
(* the other side makes of them: a client asks, the daemon answers or      *)
(* takes it on as a wrapper sink, and then pushes frames to it, among      *)
(* them the transcripts that come out of the correction table.             *)
(***************************************************************************)
EXTENDS Corrections

CONSTANTS
    Version,      \* PROTOCOL_VERSION
    Versions,     \* what clients register with
    States,       \* the states the daemon is in
    Counts,       \* its wrapper sinks
    Edits,        \* the edits of the commit engine: [committed, tail]
    Raws,         \* the texts the decoder answers with
    Tables,       \* the [corrections] of the configurations
    MaxSent       \* bounds what is written

Digits == {Decimal[n] : n \in 0..MaxNumber}

ASSUME WireAssumption ==
    /\ Versions \subseteq {Legacy} \cup Digits /\ Counts \subseteq Digits
    /\ States \subseteq State
    /\ Edits \subseteq [committed : Seq(STRING \ {Unit, Break}),
                       tail : Seq(STRING \ {Unit, Break})]
    /\ Raws \subseteq Seq(STRING \ {Panic})
    /\ \A corrections \in Tables : IsTable(corrections)

VARIABLES
    old,      \* the daemon is of before the handshake and the wrapper count
    table,    \* config.corrections
    said,     \* the transcription just made: [raw, text]
    socket,   \* written by one side and not yet read by the other
    sent,     \* what was meant by what is written
    read,     \* what was made of it
    phase     \* "asks", "asked", "answered", "sink", "closed"

vars == <<old, table, said, socket, sent, read, phase>>

Nothing == [raw |-> <<>>, text |-> Discarded]
Error(message) == [error |-> message]
Link(token) == [link |-> token]
Commands == {Command(word) : word \in Word} \cup {RegisterSink(v) : v \in Versions}

Init ==
    /\ old \in BOOLEAN
    /\ table \in Tables
    /\ said = Nothing
    /\ socket = <<>> /\ sent = <<>> /\ read = <<>>
    /\ phase = "asks"

Say(line, meaning) ==
    /\ Len(sent) < MaxSent
    /\ socket' = socket \o line \o <<Break>>
    /\ sent' = Append(sent, meaning)

Line == SubSeq(socket, 1, Min({i \in DOMAIN socket : socket[i] = Break}) - 1)

Take(meaning) ==
    /\ socket # <<>>
    /\ socket' = SubSeq(socket, Len(Line) + 2, Len(socket))
    /\ read' = Append(read, meaning)

\* send_to, send_command, spawn_sink_client
Ask(command) ==
    /\ phase = "asks"
    /\ Say(EncodeCommand(command), command)
    /\ phase' = "asked"
    /\ UNCHANGED <<old, table, said, read>>

\* handle_conn: the line is read.
HearCommand ==
    /\ phase = "asked"
    /\ read = <<>>
    /\ Take(ParseCommand(Line))
    /\ UNCHANGED <<old, table, said, sent, phase>>

Asked == read[1]

Asks(words) == phase = "asked" /\ read # <<>> /\ Asked.command \in words

Answer(line, meaning, next) ==
    /\ Say(line, meaning)
    /\ phase' = next
    /\ UNCHANGED <<old, table, said, read>>

\* handle_conn: a client of another version is refused; a daemon of before the
\* handshake does not know the command with a version.
RefuseSink ==
    /\ Asks({"register-sink"}) /\ Asked.version # Legacy
    /\ \/ ~old /\ Asked.version # Version
          /\ Answer(EncodeErr(Incompatible), Link("incompatible"), "answered")
       \/ old
          /\ Answer(EncodeErr(UnknownCommand), Link("incompatible"), "answered")

\* serve_sink: the current state is pushed at once.
ServeSink(state) ==
    /\ Asks({"register-sink"})
    /\ Asked.version = Legacy \/ (~old /\ Asked.version = Version)
    /\ Answer(EncodeFrame(Pushed(state)), Pushed(state), "sink")

\* status_report
AnswerStatus(state, wrappers) ==
    /\ Asks({"status"})
    /\ IF old THEN Answer(EncodeOk(state), Report(state, Decimal[0]), "answered")
       ELSE LET report == Report(state, wrappers)
            IN Answer(EncodeReport(report), report, "answered")

\* process_command
AnswerCommand(state) ==
    /\ Asks(Word \ {"status"})
    /\ \/ Answer(EncodeOk(state), Report(state, Decimal[0]), "answered")
       \/ Answer(EncodeErr(<<"busy">>), Error("busy"), "answered")

\* send_to prints the line, whose reading is StatusReport::parse; a wrapper
\* whose registration failed gives up the link (serve_link).
HearAnswer ==
    /\ phase = "answered"
    /\ LET link == ClassifyFirstLine(Line)
       IN Take(CASE Asked.command = "register-sink" -> Link(link)
                 [] Asked.command # "register-sink" /\ Line[1] = "err" ->
                      Error(Line[3])
                 [] OTHER -> ParseReport(Line))
    /\ phase' = "closed"
    /\ UNCHANGED <<old, table, said, sent>>

------------------------------------------------------------------------------
(* A wrapper sink *)

\* transcribe_with_retry and drain_queue; kind tells a dictation's transcript.
\* What is discarded, or ends in a panic, is not sent.
Transcribe(raw, short, kind) ==
    LET text == FinalizeTranscript(ParseTranscript(raw), short, table)
    IN /\ phase = "sink" /\ Len(sent) < MaxSent
       /\ said' = IF text = Discarded THEN Nothing ELSE [raw |-> raw, text |-> text]
       /\ IF text = Discarded \/ Panicked(text) THEN UNCHANGED <<socket, sent>>
          ELSE Say(EncodeFrame(Frame(kind, text)), Frame(kind, text))
       /\ UNCHANGED <<old, table, read, phase>>

\* push_live_edit
PushEdit(edit) ==
    /\ phase = "sink"
    /\ LET frame == Edit(edit.committed, edit.tail)
       IN Say(EncodeFrame(frame), frame)
    /\ UNCHANGED <<old, table, said, read, phase>>

\* serve_sink: the watch has changed.
PushState(state) ==
    /\ phase = "sink"
    /\ Say(EncodeFrame(Pushed(state)), Pushed(state))
    /\ UNCHANGED <<old, table, said, read, phase>>

\* serve_link and apply_frame: the first line says whether the link stands; a
\* later one that is no frame is ignored.
HearFrame ==
    /\ phase = "sink"
    /\ Take(ParseFrame(Line))
    /\ UNCHANGED <<old, table, said, sent, phase>>

Next ==
    \/ \E command \in Commands : Ask(command)
    \/ HearCommand \/ RefuseSink \/ HearAnswer \/ HearFrame
    \/ \E state \in States :
          ServeSink(state) \/ AnswerCommand(state) \/ PushState(state)
    \/ \E state \in States, wrappers \in Counts : AnswerStatus(state, wrappers)
    \/ \E raw \in Raws, short \in BOOLEAN, kind \in {"transcript", "finalize"} :
          Transcribe(raw, short, kind)
    \/ \E edit \in Edits : PushEdit(edit)

Spec == Init /\ [][Next]_vars

------------------------------------------------------------------------------
(* Properties *)

SingleLine(meaning) ==
    "text" \in DOMAIN meaning => \A i \in DOMAIN meaning.text : meaning.text[i] # Break

\* As long as every text is a single line, each side reads exactly what the other
\* meant, in order: a transcript or an edit arrives with the blanks it was sent
\* with, a state with its percentage, a status with its count also from a daemon
\* that has none, and a wrapper of another version learns that it is incompatible
\* (Frame::parse, State::parse, StatusReport::parse, classify_first_line).
ReadAsSent ==
    (\A i \in DOMAIN sent : SingleLine(sent[i])) => IsPrefix(read, sent)

\* A table whose phrases begin and end with word bytes, and whose texts have no
\* character of any phrase, so that no replacement makes another occurrence.
Plain(corrections) ==
    \A phrase, other \in DOMAIN corrections :
        /\ phrase # <<>> /\ phrase[1] \in WordByte /\ Last(phrase) \in WordByte
        /\ corrections[other] # <<>>
        /\ \A i \in DOMAIN phrase, j \in DOMAIN corrections[other] :
               Lowered(phrase)[i] # Lowered(corrections[other])[j]

\* The whole-word occurrences of the phrases in a text, and which of two goes first.
Occurrences(text, corrections) ==
    {[phrase |-> phrase, at |-> at] : phrase \in DOMAIN corrections, at \in DOMAIN text}

Spans(text, corrections) ==
    {span \in Occurrences(text, corrections) :
        Occurs(span.phrase, text, span.at) /\ WholeWord(span.phrase, text, span.at)}

Covers(span, i) == i \in span.at..(span.at + Len(span.phrase) - 1)

Outranks(a, b) ==
    \/ Size(a.phrase) > Size(b.phrase)
    \/ Size(a.phrase) = Size(b.phrase) /\ Alphabetical(a.phrase, b.phrase)
    \/ a.phrase = b.phrase /\ a.at < b.at

\* The spans that no span of a higher rank, itself replaced, overlaps.
Chosen(text, corrections) ==
    CHOOSE chosen \in SUBSET Spans(text, corrections) :
        \A span \in Spans(text, corrections) :
            span \in chosen <=>
                ~\E above \in chosen :
                    /\ Outranks(above, span)
                    /\ \E i \in DOMAIN text : Covers(above, i) /\ Covers(span, i)

\* The text with each of them replaced and every other character left as it is.
Corrected(text, corrections) ==
    LET chosen == Chosen(text, corrections)
        At(i) == {span \in chosen : span.at = i}
        Piece(i) == IF \E span \in chosen : Covers(span, i) /\ span.at # i THEN <<>>
                    ELSE IF At(i) = {} THEN <<text[i]>>
                    ELSE corrections[(CHOOSE span \in At(i) : TRUE).phrase]
    IN FlattenSeq([i \in DOMAIN text |-> Piece(i)])

\* With a plain table, whatever survives the filter has its longest phrases
\* replaced, whole words only, from left to right, nothing else touched and no
\* panic, although the code searches byte by byte and phrase by phrase
\* (ordered_corrections, apply_corrections, replace_word_ci).
CorrectedAsWritten ==
    (Plain(table) /\ said.text # Discarded) =>
        said.text = Corrected(ParseTranscript(said.raw), table)
================================================================================
