--------------------------------- MODULE MCWire ---------------------------------
(* Wire as TLC checks it: texts over two letters, a blank and a wide character. *)
EXTENDS Wire

MCDecimal == [n \in 0..101 |-> ToString(n)]
MCAlphabet == <<" ", "A", "a", "b", "e'">>
MCWordByte == {"A", "a", "b"}
MCWide == {"e'"}
MCLower == [c \in {"A"} |-> "a"]
MCHallucinations == {<<"b">>}
MCCounts == {"0", "2"}
MCVersions == {Legacy, "1", "2"}
MCStates == {StateOf("streaming"), StateOf("downloading"), Downloading("100")}
MCEdits == {[committed |-> <<"a">>, tail |-> <<" ", "b">>],
            [committed |-> <<>>, tail |-> <<>>],
            [committed |-> <<" ", "b", " ">>, tail |-> <<>>]}

\* What a decoder says, short enough to enumerate, and some longer texts.
MCRaws ==
    LET texts == UNION {[1..n -> {" ", "a", "b", "e'"}] : n \in 0..3}
    IN texts \cup {<<" ", "A", " ", "\n", "b", "a", " ", "a", " ", "b">>,
                   <<"a", " ", "b", " ", "a", " ", "b", " ", "A">>,
                   <<"b", "e'", " ", "a", "a", " ", "a">>,
                   <<"b", " ", "a", " ", "b">>, <<"a", " ", "a", " ", "a", "b">>}

One(phrase, text) == [p \in {phrase} |-> text]
MCTables ==
    {[p \in {} |-> <<>>],
     One(<<"a", " ", "b">>, <<"X">>) @@ One(<<"a">>, <<"Y", " ", "Y">>),
     One(<<"a">>, <<"X">>) @@ One(<<"A">>, <<"Y">>) @@ One(<<"b", " ", "a">>, <<"Z">>),
     One(<<"a", " ", "a">>, <<"X">>) @@ One(<<"b">>, <<"e'">>),
     One(<<"e'", "b">>, <<"X">>),
     One(<<"a">>, <<>>) @@ One(<<"b">>, <<"X", "\n", "X">>)}
================================================================================
