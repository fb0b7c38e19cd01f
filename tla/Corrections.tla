------------------------------ MODULE Corrections ------------------------------
(***************************************************************************)
(* From the decoder's text to the transcript (transcript.rs, filter.rs,    *)
(* corrections.rs, pipeline.rs): blanks are collapsed, junk is discarded   *)
(* and the correction table is applied.  A text is a sequence of           *)
(* characters; a table maps the phrases to be replaced to texts.           *)
(***************************************************************************)
EXTENDS Protocol

CONSTANTS
    Alphabet,        \* the characters of phrases, in the order of their bytes
    WordByte,        \* those that are part of words: letters, digits, _
    Wide,            \* those of two bytes, which are never word bytes
    Lower,           \* the lower case of the upper case characters
    Hallucinations   \* what the decoder makes of silence

ASSUME AlphabetAssumption ==
    /\ Alphabet \in Seq(STRING)
    /\ \A i, j \in DOMAIN Alphabet : Alphabet[i] = Alphabet[j] => i = j
    /\ WordByte \cap Wide = {}
    /\ \A c \in DOMAIN Lower : Lower[c] \in WordByte <=> c \in WordByte

Panic == "panic"     \* stands at the end of a text whose correction panicked

\* The correction tables there can be.
IsTable(table) ==
    /\ IsFiniteSet(DOMAIN table) /\ DOMAIN table \subseteq Seq(Range(Alphabet))
    /\ \A phrase \in DOMAIN table : table[phrase] \in Seq(STRING \ {Panic})

Discarded == <<"discarded">>

\* to_ascii_lowercase
Lowered(text) ==
    [i \in DOMAIN text |->
        IF text[i] \in DOMAIN Lower THEN Lower[text[i]] ELSE text[i]]

\* String::len
Size(text) == Len(text) + Cardinality({i \in DOMAIN text : text[i] \in Wide})

Place(c) == CHOOSE n \in DOMAIN Alphabet : Alphabet[n] = c

\* The order of strings in a BTreeMap.
Alphabetical(a, b) ==
    \E n \in 1..(Len(a) + 1) :
        /\ n <= Len(b)
        /\ \A i \in 1..(n - 1) : a[i] = b[i]
        /\ n <= Len(a) => Place(a[n]) < Place(b[n])

\* Mutant of ComesFirst: the shortest first.
ShortestFirst(a, b) ==
    Size(a) < Size(b) \/ (Size(a) = Size(b) /\ Alphabetical(a, b))

ComesFirst(a, b) ==
    Size(a) > Size(b) \/ (Size(a) = Size(b) /\ Alphabetical(a, b))

\* ordered_corrections: the phrases in the order they are replaced in.
OrderedCorrections(table) ==
    CHOOSE order \in SetToSeqs(DOMAIN table) :
        \A i, j \in DOMAIN order : i < j => ComesFirst(order[i], order[j])

Occurs(phrase, text, at) ==
    /\ at + Len(phrase) - 1 <= Len(text)
    /\ SubSeq(Lowered(text), at, at + Len(phrase) - 1) = Lowered(phrase)

\* No word byte on either side.
WholeWord(phrase, text, at) ==
    LET end == at + Len(phrase)
    IN /\ at = 1 \/ text[at - 1] \notin WordByte
       /\ end > Len(text) \/ text[end] \notin WordByte

\* replace_word_ci: from an occurrence that is no whole word the search goes on
\* one byte later, and panics when that is inside a wide character.
ReplaceWord(text, from, to) ==
    LET replaced[i \in 1..(Len(text) + 1)] ==
            LET found == {at \in i..Len(text) : Occurs(from, text, at)}
                at == Min(found)
                end == at + Len(from)
            IN CASE found = {} -> SubSeq(text, i, Len(text))
                 [] found # {} /\ WholeWord(from, text, at) ->
                      SubSeq(text, i, at - 1) \o to \o replaced[end]
                 [] found # {} /\ ~WholeWord(from, text, at) /\ from[1] \in Wide ->
                      <<Panic>>
                 [] OTHER -> SubSeq(text, i, at) \o replaced[at + 1]
    IN IF from = <<>> THEN text ELSE replaced[1]

Panicked(text) == text # <<>> /\ Last(text) = Panic

\* apply_corrections: every phrase in what the ones before have made of the text.
ApplyCorrections(text, table) ==
    FoldLeft(LAMBDA out, from : IF Panicked(out) THEN out
                                ELSE ReplaceWord(out, from, table[from]),
             text, OrderedCorrections(table))

\* parse_transcript
ParseTranscript(raw) == Joined(Words(raw))

\* should_discard
ShouldDiscard(text, short) ==
    short \/ text = <<>> \/ Lowered(text) \in Hallucinations

\* finalize_transcript
FinalizeTranscript(text, short, table) ==
    IF ShouldDiscard(text, short) THEN Discarded
    ELSE ApplyCorrections(text, table)
================================================================================
