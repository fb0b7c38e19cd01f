----------------------------- MODULE CommitEngine -----------------------------
(***************************************************************************)
(* LocalAgreement-2 (streaming.rs) and the wrapper's cursor (pty.rs).      *)
(* A text is a sequence of words: a word stands for its characters and the *)
(* space that joins it to the word before, so that one word is one unit of *)
(* length and one erasure.                                                 *)
(***************************************************************************)
EXTENDS Integers, Sequences

\* A CommitEngine: the stable prefix and the previous hypothesis.
FreshEngine == [committed |-> <<>>, prev |-> <<>>]

After(text, n) == SubSeq(text, n + 1, Len(text))

\* agree_len: the length of the longest common prefix.
AgreeLen(s, t) ==
  CHOOSE n \in 0 .. Len(s) :
    /\ n <= Len(t) /\ SubSeq(s, 1, n) = SubSeq(t, 1, n)
    /\ n < Len(s) /\ n < Len(t) => s[n + 1] # t[n + 1]

\* What observe commits: where this decode and the last agree, beyond the
\* stable prefix.
NewlyCommitted(engine, hypothesis) ==
  LET fresh == After(hypothesis, Len(engine.committed)) IN
    SubSeq(fresh, 1, AgreeLen(fresh, After(engine.prev, Len(engine.committed))))

\* Mutant of Observe: the tail begins where the stable prefix ended before.
ObserveTailTooEarly(engine, hypothesis) ==
  LET newly == NewlyCommitted(engine, hypothesis) IN
    [engine |-> [committed |-> engine.committed \o newly, prev |-> hypothesis],
     committed |-> newly,
     tail |-> After(hypothesis, Len(engine.committed))]

\* observe: the engine afterwards and the LiveEdit it returns.
Observe(engine, hypothesis) ==
  LET newly == NewlyCommitted(engine, hypothesis) IN
    [engine |-> [committed |-> engine.committed \o newly, prev |-> hypothesis],
     committed |-> newly,
     tail |-> After(hypothesis, Len(engine.committed) + Len(newly))]

-----------------------------------------------------------------------------
(* Bytes for the child: erasures, then text.                                *)

\* An erasure on an empty prompt does nothing.
Keep(text, erase) == SubSeq(text, 1, Len(text) - erase)

\* What the prompt shows after the bytes.
Typed(prompt, bytes) == Keep(prompt, bytes.erase) \o bytes.text

\* A PreviewCursor: the lengths of the stable prefix and of the tail.
FreshCursor == [stable |-> 0, tail |-> 0]

PreviewLen(cursor) == cursor.stable + cursor.tail

\* apply_edit: the tail, and only the tail, is replaced.
EditBytes(cursor, committed, tail) ==
  [erase |-> cursor.tail, text |-> committed \o tail]

\* Mutant of EditCursor: what was committed is taken from the new tail.
EditCursorFromTail(cursor, committed, tail) ==
  [stable |-> cursor.stable + Len(committed), tail |-> Len(tail) - Len(committed)]

\* apply_edit, the lengths.
EditCursor(cursor, committed, tail) ==
  [stable |-> cursor.stable + Len(committed), tail |-> Len(tail)]

\* finalize: the whole preview is replaced.
FinalizeBytes(cursor, text) ==
  [erase |-> PreviewLen(cursor), text |-> text]

=============================================================================
