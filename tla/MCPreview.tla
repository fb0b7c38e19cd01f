------------------------------- MODULE MCPreview -------------------------------
(* Preview as TLC checks it: two words, and a decoder that hears one, the     *)
(* other, or both.                                                            *)
EXTENDS Preview

MCWords == {"a", "b"}

Budget(hypotheses, dictations, keys, transcripts, pushes, links) ==
  [hypotheses |-> hypotheses, dictations |-> dictations, decodes |-> 2,
   keys |-> keys, transcripts |-> transcripts, pushes |-> pushes, links |-> links]

Heard == {<<"a">>, <<"b">>, <<"a", "b">>}
HeardOnce == {<<"a">>, <<"a", "b">>}

\* A dictation with a state pushed again and two keys or a transcript, and a daemon
\* that dies; two dictations that overlap.
MCBudgets == {Budget(HeardOnce, 1, 2, 0, 1, 2), Budget(Heard, 1, 0, 1, 1, 2),
              Budget(HeardOnce, 2, 0, 0, 0, 1)}
=============================================================================
