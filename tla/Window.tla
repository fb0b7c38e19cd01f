--------------------------------- MODULE Window ---------------------------------
(***************************************************************************)
(* What the live lane of a streaming dictation decodes: sox writes a       *)
(* capture, and drive_streaming cuts a window out of what is there, has it *)
(* decoded and feeds the words to the commit engine, again and again until *)
(* sox has gone.  The decoder is as good as can be: it hears each word     *)
(* whose audio is all in the window, and no other.  Nobody cancels; that   *)
(* and the frames that follow are Preview's.                               *)
(***************************************************************************)
EXTENDS CommitEngine

CONSTANTS MinBytes,   \* audio.min_duration_seconds, in bytes
          Windows,    \* what streaming.window_seconds may be, in bytes
          WordBytes,  \* the audio of one word
          MaxBytes,   \* bound: length of the capture
          MaxReloads, \* bound: changes of the window
          MaxFailures \* bound: windows that cannot be written

ASSUME WindowAssumption ==
    /\ MinBytes \in Nat /\ WordBytes \in Nat \ {0}
    /\ Windows \subseteq {n \in Nat : n % 2 = 0}
    /\ MaxBytes \in {n \in Nat : n % 2 = 0} /\ MaxReloads \in Nat /\ MaxFailures \in Nat

VARIABLES size,     \* bytes of PCM in the capture
          claim,    \* what its data chunk says
          running,  \* sox runs
          window,   \* config.streaming.window_seconds
          reloads,  \* times it was changed
          failures, \* windows that could not be written
          pc,       \* where drive_streaming is
          last,     \* sox had gone at the top of the round
          floor,    \* window_offset
          slice,    \* the PCM that is decoded
          engine, tail, \* the commit engine and the tail shown last
          heard,    \* history: the last hypothesis
          slid      \* history: a window began after the first byte

file == <<size, claim, running>>
config == <<window, reloads>>
preview == <<engine, tail, heard>>
vars == <<file, config, failures, pc, last, floor, slice, preview, slid>>

Lower(m, n) == IF m < n THEN m ELSE n
Higher(m, n) == IF m < n THEN n ELSE m

\* The header says more than any capture has until sox closes the file.
Placeholder == MaxBytes + 1

\* align_down
AlignDown(bytes) == bytes - (bytes % 2)

\* total - length, saturating.
Trailing(total, length) == IF length <= total THEN total - length ELSE 0

\* Mutant of WindowRange: the trailing window, whatever was decoded before.
WindowRangeTrailing(total, committed, length) ==
    LET start == AlignDown(Trailing(total, length))
    IN [start |-> start, len |-> total - start]

\* window_range
WindowRange(total, committed, length) ==
    LET start == AlignDown(Higher(Lower(committed, total), Trailing(total, length)))
    IN [start |-> start, len |-> total - start]

\* wav_data_span: what is there, if the header claims more.
DataLen == Lower(claim, size)

Whole == [start |-> 0, len |-> DataLen]

Init ==
    /\ size = 0 /\ claim = Placeholder /\ running = TRUE
    /\ window \in Windows /\ reloads = 0 /\ failures = 0
    /\ pc = "top" /\ last = FALSE
    /\ floor = 0 /\ slice = [start |-> 0, len |-> 0]
    /\ engine = FreshEngine /\ tail = <<>> /\ heard = <<>>
    /\ slid = FALSE

------------------------------------------------------------------------------
(* sox, and the user who reloads the configuration *)

\* What sox flushes may end in the middle of a sample.
Grow ==
    /\ running
    /\ size' \in size + 1 .. MaxBytes
    /\ UNCHANGED <<claim, running, config, failures, pc, last, floor, slice,
                   preview, slid>>

\* It ends on silence, or on a signal: the last sample and the header are put right.
Close ==
    /\ running
    /\ running' = FALSE /\ size' = size + (size % 2) /\ claim' = size'
    /\ UNCHANGED <<config, failures, pc, last, floor, slice, preview, slid>>

Reload ==
    /\ reloads < MaxReloads /\ reloads' = reloads + 1
    /\ window' \in Windows \ {window}
    /\ UNCHANGED <<file, failures, pc, last, floor, slice, preview, slid>>

------------------------------------------------------------------------------
(* drive_streaming *)

\* The top of a round, under the lock.
Begin ==
    /\ pc = "top" /\ pc' = "file"
    /\ last' = ~running
    /\ UNCHANGED <<file, config, failures, floor, slice, preview, slid>>

\* What follows a decode, or the lack of one: another round or the reconcile.
EndRound == pc' = IF last THEN "reconcile" ELSE "top"

\* wav_duration: not worth a decode yet.
TooShort ==
    /\ pc = "file" /\ DataLen < MinBytes
    /\ EndRound
    /\ UNCHANGED <<file, config, failures, last, floor, slice, preview, slid>>

\* write_window_wav; its offset is the floor of the next.
Cut ==
    /\ pc = "file" /\ DataLen >= MinBytes /\ pc' = "decode"
    /\ slice' = WindowRange(DataLen, floor, window)
    /\ floor' = slice'.start
    /\ slid' = (slid \/ slice'.start > 0)
    /\ UNCHANGED <<file, config, failures, last, preview>>

\* It fails: the capture is decoded.
CutFails ==
    /\ failures < MaxFailures /\ failures' = failures + 1
    /\ pc = "file" /\ DataLen >= MinBytes /\ pc' = "decode"
    /\ slice' = Whole
    /\ UNCHANGED <<file, config, last, floor, preview, slid>>

\* Word n is n.
WordsIn(pcm) ==
    LET first == (pcm.start + WordBytes - 1) \div WordBytes
        end == (pcm.start + pcm.len) \div WordBytes
    IN [i \in 1 .. Higher(end - first, 0) |-> first + i]

\* decode_live and push_live_edit; without words nothing is observed.
Answer ==
    /\ pc = "decode" /\ EndRound
    /\ WordsIn(slice) # <<>>
    /\ LET seen == Observe(engine, WordsIn(slice))
       IN /\ engine' = seen.engine /\ tail' = seen.tail
          /\ heard' = WordsIn(slice)
    /\ UNCHANGED <<file, config, failures, last, floor, slice, slid>>

\* The server is not there, or hears nothing.
NoAnswer ==
    /\ pc = "decode" /\ EndRound
    /\ UNCHANGED <<file, config, failures, last, floor, slice, preview, slid>>

Next ==
    \/ Grow \/ Close \/ Reload
    \/ Begin \/ TooShort \/ Cut \/ CutFails \/ Answer \/ NoAnswer

Spec == Init /\ [][Next]_vars

------------------------------------------------------------------------------
(* Properties *)

\* What the engine and the wrapper show between them.
Shown == engine.committed \o tail

\* window_range over a capture that grows, read at any time, under a window that
\* a reload may change: what is decoded ends with the newest byte, starts on a
\* sample and never before an earlier start, and is at most one byte longer than
\* the window, namely when the capture ends in the middle of a sample.
WindowSound ==
    [][/\ floor' >= floor
       /\ pc = "file" /\ pc' = "decode" /\ failures' = failures =>
             /\ slice'.start % 2 = 0 /\ slice'.start + slice'.len = size
             /\ slice'.len <= window + (size % 2)]_vars

\* As long as no audio has dropped out of the window, LocalAgreement on windows is
\* LocalAgreement on the capture: the preview shows the last decode, and the
\* stable prefix is what was said first.
PreviewIsLastDecode ==
    ~slid => /\ Shown = heard
             /\ engine.committed = [i \in 1 .. Len(engine.committed) |-> i]

\* ADR-0004: for a longer dictation the preview is a draft of the trailing window:
\* it ends with the last word that was heard.
DraftOfTrailingWindow ==
    heard # <<>> => Shown # <<>> /\ Shown[Len(Shown)] = heard[Len(heard)]
==============================================================================
