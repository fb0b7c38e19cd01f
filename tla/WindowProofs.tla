------------------------------ MODULE WindowProofs ------------------------------
(***************************************************************************)
(* Proofs about Window, for captures, windows and minimum lengths of any   *)
(* size.                                                                   *)
(*                                                                         *)
(* WindowSound speaks of single steps, but holds of them only in states    *)
(* where the header of the capture does not hide bytes and the floor is on *)
(* a sample and inside the capture.  WInv says so.                         *)
(*                                                                         *)
(* PreviewIsLastDecode follows the decodes from the first to the first     *)
(* slide.  Until then every hypothesis is a prefix of what was said and    *)
(* the engine has committed a prefix of it (Unmoved).                      *)
(***************************************************************************)
EXTENDS Window, TLAPS

\* Until sox closes the file its header claims too much, then exactly what is
\* there.
HeaderTrue ==
  /\ size \in 0 .. MaxBytes
  /\ running \in BOOLEAN
  /\ claim = IF running THEN Placeholder ELSE size

\* The floor of the next window is on a sample inside the capture.
FloorAligned == floor \in 0 .. size /\ floor % 2 = 0

WInv ==
  /\ HeaderTrue
  /\ window \in Windows
  /\ failures \in Nat
  /\ FloorAligned

-----------------------------------------------------------------------------
(* The arithmetic of window.rs *)

\* align_down: at most one byte less, and on a sample.
LEMMA AlignDownProperties ==
  ASSUME NEW b \in Nat
  PROVE  /\ AlignDown(b) \in Nat
         /\ AlignDown(b) % 2 = 0
         /\ AlignDown(b) <= b /\ b <= AlignDown(b) + 1
         /\ b % 2 = 0 => AlignDown(b) = b
<1> DEFINE half == b \div 2
<1>1. b = 2 * half + (b % 2) /\ b % 2 \in 0 .. 1 /\ half \in Nat
  OBVIOUS
<1>2. AlignDown(b) = 2 * half
  BY <1>1 DEF AlignDown
<1>3. (2 * half) % 2 = 0
  BY <1>1
<1> QED BY <1>1, <1>2, <1>3

\* Aligning keeps the order.
LEMMA AlignDownMonotone ==
  ASSUME NEW a \in Nat, NEW b \in Nat, a <= b, a % 2 = 0
  PROVE  a <= AlignDown(b)
<1>1. a = 2 * (a \div 2) /\ b = 2 * (b \div 2) + (b % 2) /\ b % 2 \in 0 .. 1
      /\ a \div 2 \in Nat /\ b \div 2 \in Nat
  OBVIOUS
<1> QED BY <1>1 DEF AlignDown

\* window_range: the window ends with the capture, starts on a sample at or after
\* the floor, and is at most one byte longer than asked for, if the capture is odd.
LEMMA WindowRangeProperties ==
  ASSUME NEW total \in Nat, NEW low \in 0 .. total, low % 2 = 0,
         NEW length \in Nat, length % 2 = 0
  PROVE  LET range == WindowRange(total, low, length)
         IN /\ range.start \in low .. total /\ range.start % 2 = 0
            /\ range.start + range.len = total
            /\ range.len <= length + (total % 2)
<1> DEFINE clamped == Higher(Lower(low, total), Trailing(total, length))
<1>1. clamped \in low .. total /\ total - clamped <= length
  BY DEF Higher, Lower, Trailing
<1>2. clamped % 2 = 0 \/ clamped = total - length
  BY DEF Higher, Lower, Trailing
<1>3. /\ WindowRange(total, low, length).start = AlignDown(clamped)
      /\ WindowRange(total, low, length).len = total - AlignDown(clamped)
  BY DEF WindowRange
<1> HIDE DEF clamped
<1>4. /\ AlignDown(clamped) \in low .. total
      /\ AlignDown(clamped) % 2 = 0
  <2>1. clamped \in Nat /\ low \in Nat /\ low <= clamped /\ clamped <= total
    BY <1>1
  <2>2. low <= AlignDown(clamped)
    BY <2>1, AlignDownMonotone
  <2> QED BY <2>1, <2>2, AlignDownProperties
<1>5. total - AlignDown(clamped) <= length + (total % 2)
  <2>1. CASE clamped % 2 = 0
    <3>1. clamped \in Nat
      BY <1>1
    <3>2. AlignDown(clamped) = clamped
      BY <2>1, <3>1, AlignDownProperties
    <3> QED BY <3>2, <1>1
  <2>2. CASE clamped = total - length
    <3>1. clamped % 2 = total % 2
      <4>1. length = 2 * (length \div 2) /\ length \div 2 \in Nat
        OBVIOUS
      <4>2. total = clamped + 2 * (length \div 2)
        BY <2>2, <4>1, <1>1
      <4> QED BY <4>1, <4>2, <1>1
    <3>2. AlignDown(clamped) = clamped - (clamped % 2)
      BY DEF AlignDown
    <3>3. clamped \in Nat /\ total % 2 \in 0 .. 1
      BY <1>1
    <3> QED BY <2>2, <3>1, <3>2, <3>3
  <2> QED BY <1>2, <2>1, <2>2
<1> QED BY <1>3, <1>4, <1>5

-----------------------------------------------------------------------------
(* The invariant *)

\* wav_data_span: the header never hides a byte of a capture.
LEMMA DataIsAll == ASSUME WInv PROVE DataLen = size
BY WindowAssumption DEF WInv, HeaderTrue, DataLen, Lower, Placeholder

\* What a round cuts out of the capture.
LEMMA CutProperties ==
  ASSUME WInv, Cut
  PROVE  /\ slice'.start \in floor .. size /\ slice'.start % 2 = 0
         /\ slice'.start + slice'.len = size
         /\ slice'.len <= window + (size % 2)
         /\ floor' = slice'.start
<1>1. window \in Nat /\ window % 2 = 0
  BY WindowAssumption DEF WInv
<1>2. size \in Nat /\ floor \in 0 .. size /\ floor % 2 = 0
  BY WindowAssumption DEF WInv, HeaderTrue, FloorAligned
<1>3. slice' = WindowRange(size, floor, window) /\ floor' = slice'.start
  BY DataIsAll DEF Cut
<1> QED BY <1>1, <1>2, <1>3, WindowRangeProperties

\* A capture begins empty.
LEMMA InitWInv == Init => WInv
BY WindowAssumption DEF Init, WInv, HeaderTrue, FloorAligned

\* Every step keeps the invariant.
LEMMA NextWInv == WInv /\ [Next]_vars => WInv'
<1> SUFFICES ASSUME WInv, [Next]_vars PROVE WInv'
  OBVIOUS
<1> USE DEF WInv, HeaderTrue, FloorAligned, file, config, preview
<1>1. CASE Grow
  BY <1>1, WindowAssumption DEF Grow, Placeholder
<1>2. CASE Close
  <2>1. size + (size % 2) \in size .. MaxBytes
    <3>1. size = 2 * (size \div 2) + (size % 2) /\ size % 2 \in 0 .. 1
      BY WindowAssumption
    <3>2. MaxBytes = 2 * (MaxBytes \div 2) /\ MaxBytes \div 2 \in Nat
          /\ size \div 2 \in Nat
      BY WindowAssumption
    <3> QED BY <3>1, <3>2, WindowAssumption
  <2>2. claim' = size' /\ size' = size + (size % 2) /\ running' = FALSE
    BY <1>2 DEF Close
  <2>3. size' \in 0 .. MaxBytes /\ size <= size'
    BY <2>1, <2>2, WindowAssumption
  <2>4. UNCHANGED <<window, failures, floor>>
    BY <1>2 DEF Close
  <2>5. HeaderTrue'
    BY <2>2, <2>3
  <2>6. FloorAligned'
    <3>1. size \in Nat /\ size' \in Nat
      BY <2>3, WindowAssumption
    <3> QED BY <3>1, <2>3, <2>4
  <2> QED BY <2>4, <2>5, <2>6
<1>3. CASE Reload
  BY <1>3 DEF Reload
<1>4. CASE Begin \/ TooShort \/ Answer \/ NoAnswer
  BY <1>4 DEF Begin, TooShort, Answer, NoAnswer, EndRound
<1>5. CASE Cut
  <2>1. floor' \in 0 .. size /\ floor' % 2 = 0
    BY <1>5, CutProperties, WindowAssumption
  <2> QED BY <1>5, <2>1 DEF Cut
<1>6. CASE CutFails
  BY <1>6 DEF CutFails
<1>7. CASE UNCHANGED vars
  BY <1>7 DEF vars
<1> QED BY <1>1, <1>2, <1>3, <1>4, <1>5, <1>6, <1>7 DEF Next

\* The invariant holds in every state.
THEOREM CaptureStaysSound == Spec => []WInv
BY InitWInv, NextWInv, PTL DEF Spec

-----------------------------------------------------------------------------
(* The window *)

\* One step: only Cut moves the floor, and only Cut leads to a decode of a window.
LEMMA NextWindowSound ==
  ASSUME WInv, Next
  PROVE  /\ floor' >= floor
         /\ pc = "file" /\ pc' = "decode" /\ failures' = failures =>
              /\ slice'.start % 2 = 0 /\ slice'.start + slice'.len = size
              /\ slice'.len <= window + (size % 2)
<1>1. floor \in Nat /\ failures \in Nat
  BY WindowAssumption DEF WInv, HeaderTrue, FloorAligned
<1>2. CASE Cut
  <2>1. size \in Nat
    BY WindowAssumption DEF WInv, HeaderTrue
  <2> QED BY <1>1, <1>2, <2>1, CutProperties
<1>3. CASE CutFails
  BY <1>1, <1>3 DEF CutFails
<1>4. CASE Begin \/ Answer \/ NoAnswer
  BY <1>1, <1>4 DEF Begin, Answer, NoAnswer, EndRound
<1>5. CASE TooShort
  BY <1>1, <1>5 DEF TooShort, EndRound
<1>6. CASE Grow \/ Close \/ Reload
  BY <1>1, <1>6 DEF Grow, Close, Reload
<1> QED BY <1>2, <1>3, <1>4, <1>5, <1>6 DEF Next

\* For any capture, however it grows and whenever it is read, and whatever the
\* configuration makes of the window between two rounds: the window ends with the
\* newest byte, starts on a sample, never goes back and exceeds its length by one
\* byte at most (window_range, wav_data_span, drive_streaming).
THEOREM WindowsAreSound == Spec => WindowSound
<1>1. WInv /\ [Next]_vars =>
        [/\ floor' >= floor
         /\ pc = "file" /\ pc' = "decode" /\ failures' = failures =>
              /\ slice'.start % 2 = 0 /\ slice'.start + slice'.len = size
              /\ slice'.len <= window + (size % 2)]_vars
  BY NextWindowSound
<1> QED BY <1>1, CaptureStaysSound, PTL DEF Spec, WindowSound

-----------------------------------------------------------------------------
(* The commit engine over a window that has not moved: it hears 1, 2, 3 and *)
(* so on, each time at least as far as before.                              *)

Said(n) == [i \in 1 .. n |-> i]

\* The first n words, and those after the first c.
LEMMA SaidProperties ==
  ASSUME NEW n \in Nat, NEW c \in 0 .. n
  PROVE  /\ Said(n) \in Seq(Nat) /\ Len(Said(n)) = n
         /\ \A i \in 1 .. n : Said(n)[i] = i
         /\ After(Said(n), c) \in Seq(Nat) /\ Len(After(Said(n), c)) = n - c
         /\ \A i \in 1 .. n - c : After(Said(n), c)[i] = c + i
         /\ Said(c) \o After(Said(n), c) = Said(n)
<1>1. /\ Said(n) \in Seq(Nat) /\ Len(Said(n)) = n /\ \A i \in 1 .. n : Said(n)[i] = i
      /\ Said(c) \in Seq(Nat) /\ Len(Said(c)) = c /\ \A i \in 1 .. c : Said(c)[i] = i
  BY DEF Said
<1>2. /\ After(Said(n), c) \in Seq(Nat) /\ Len(After(Said(n), c)) = n - c
      /\ \A i \in 1 .. n - c : After(Said(n), c)[i] = c + i
  BY <1>1 DEF After
<1>3. Said(c) \o After(Said(n), c) = Said(n)
  BY <1>1, <1>2
<1> QED BY <1>1, <1>2, <1>3

\* agree_len, when one hypothesis continues the other.
LEMMA AgreeWithPrefix ==
  ASSUME NEW s \in Seq(Nat), NEW t \in Seq(Nat), Len(t) <= Len(s),
         \A i \in 1 .. Len(t) : s[i] = t[i]
  PROVE  AgreeLen(s, t) = Len(t)
<1> DEFINE Longest(n) ==
             /\ n <= Len(t) /\ SubSeq(s, 1, n) = SubSeq(t, 1, n)
             /\ n < Len(s) /\ n < Len(t) => s[n + 1] # t[n + 1]
<1>1. Len(t) \in 0 .. Len(s) /\ Longest(Len(t))
  OBVIOUS
<1>2. ASSUME NEW n \in 0 .. Len(s), Longest(n) PROVE n = Len(t)
  <2>1. n \in Nat /\ n <= Len(t) /\ Len(t) \in Nat
    BY <1>2
  <2>2. CASE n < Len(t)
    <3>1. s[n + 1] # t[n + 1]
      BY <1>2, <2>2
    <3>2. n + 1 \in 1 .. Len(t)
      BY <2>1, <2>2
    <3> QED BY <3>1, <3>2
  <2> QED BY <2>1, <2>2
<1>3. AgreeLen(s, t) = CHOOSE n \in 0 .. Len(s) : Longest(n)
  BY DEF AgreeLen
<1> HIDE DEF Longest
<1> QED BY <1>1, <1>2, <1>3

\* observe: the last hypothesis becomes the stable prefix, what is new the tail.
LEMMA ObserveSaid ==
  ASSUME NEW n \in Nat, NEW p \in 0 .. n, NEW c \in 0 .. p, NEW e,
         e = [committed |-> Said(c), prev |-> Said(p)]
  PROVE  /\ Observe(e, Said(n)).engine = [committed |-> Said(p), prev |-> Said(n)]
         /\ Observe(e, Said(n)).tail = After(Said(n), p)
<1> DEFINE fresh == After(Said(n), c)
           old == After(Said(p), c)
<1>1. /\ fresh \in Seq(Nat) /\ Len(fresh) = n - c /\ \A i \in 1 .. n - c : fresh[i] = c + i
      /\ old \in Seq(Nat) /\ Len(old) = p - c /\ \A i \in 1 .. p - c : old[i] = c + i
      /\ Len(Said(c)) = c /\ Said(c) \o old = Said(p)
  <2>1. n \in Nat /\ p \in Nat /\ c \in Nat /\ c \in 0 .. n /\ c \in 0 .. c
    OBVIOUS
  <2> QED BY <2>1, SaidProperties
<1> HIDE DEF fresh, old
<1>2. AgreeLen(fresh, old) = p - c
  <2>1. Len(old) <= Len(fresh) /\ \A i \in 1 .. Len(old) : fresh[i] = old[i]
    BY <1>1
  <2> QED BY <1>1, <2>1, AgreeWithPrefix
<1>3. SubSeq(fresh, 1, p - c) = old
  BY <1>1
<1>4. NewlyCommitted(e, Said(n)) = old
  <2>1. /\ After(Said(n), Len(e.committed)) = fresh
        /\ After(e.prev, Len(e.committed)) = old
    BY <1>1 DEF fresh, old
  <2> QED BY <1>2, <1>3, <2>1 DEF NewlyCommitted
<1>5. Len(e.committed) + Len(old) = p /\ e.committed \o old = Said(p)
  <2>1. e.committed = Said(c)
    OBVIOUS
  <2>2. Len(e.committed) = c /\ c \in Int /\ p \in Int
    BY <1>1, <2>1
  <2>3. e.committed \o old = Said(p)
    BY <1>1, <2>1
  <2>4. Len(old) = p - c
    BY <1>1
  <2>5. Len(e.committed) + Len(old) = p
    BY <2>2, <2>4
  <2> QED BY <2>3, <2>5
<1> QED BY <1>4, <1>5 DEF Observe

\* As long as the window has not moved: what has been heard fits into what is
\* decoded, the stable prefix is its beginning and the tail is the rest.
UnmovedAt(p, c) ==
  /\ heard = Said(p) /\ engine = [committed |-> Said(c), prev |-> Said(p)]
  /\ tail = After(Said(p), c)
  /\ p * WordBytes <= size
  /\ pc = "decode" => p * WordBytes <= slice.len

Unmoved ==
  ~slid =>
    /\ floor = 0
    /\ pc = "decode" => slice.start = 0 /\ slice.len \in 0 .. size
    /\ \E p \in Nat : \E c \in 0 .. p : UnmovedAt(p, c)

SlidInv == WInv /\ slid \in BOOLEAN /\ Unmoved

\* How many words there are in so many bytes.
LEMMA WordsFit ==
  ASSUME NEW len \in Nat, NEW w \in Nat \ {0}
  PROVE  /\ len \div w \in Nat /\ (len \div w) * w <= len
         /\ \A p \in Nat : p * w <= len => p <= len \div w
         /\ (w - 1) \div w = 0
<1> DEFINE q == len \div w
<1>1. q \in Nat /\ q * w <= len /\ len < (q + 1) * w
  OBVIOUS
<1>2. (w - 1) \div w = 0
  OBVIOUS
<1> HIDE DEF q
<1>3. ASSUME NEW p \in Nat, p * w <= len PROVE p <= q
  <2>1. p * w < (q + 1) * w
    <3>1. p * w \in Int /\ (q + 1) * w \in Int
      BY <1>1
    <3> QED BY <1>1, <1>3, <3>1
  <2>2. CASE p >= q + 1
    <3>1. PICK d \in Nat : p = (q + 1) + d
      BY <1>1, <2>2
    <3>2. p * w = (q + 1) * w + d * w /\ d * w \in Nat
      BY <1>1, <3>1
    <3> QED BY <1>1, <2>1, <3>2
  <2> QED BY <1>1, <2>2
<1> QED BY <1>1, <1>2, <1>3 DEF q

\* The decoder hears the words that fit.
LEMMA WordsFromStart ==
  ASSUME NEW pcm, pcm.start = 0, pcm.len \in Nat
  PROVE  WordsIn(pcm) = Said(pcm.len \div WordBytes)
<1> DEFINE q == pcm.len \div WordBytes
<1>1. WordBytes \in Nat \ {0}
  BY WindowAssumption
<1>2. q \in Nat /\ (WordBytes - 1) \div WordBytes = 0
  BY <1>1, WordsFit
<1>3. /\ (pcm.start + WordBytes - 1) \div WordBytes = 0
      /\ (pcm.start + pcm.len) \div WordBytes = q
  <2>1. pcm.start + WordBytes - 1 = WordBytes - 1 /\ pcm.start + pcm.len = pcm.len
    BY <1>1
  <2> QED BY <1>2, <2>1
<1> HIDE DEF q
<1>4. WordsIn(pcm) = [i \in 1 .. Higher(q - 0, 0) |-> 0 + i]
  BY <1>3 DEF WordsIn
<1>5. Higher(q - 0, 0) = q
  BY <1>2 DEF Higher
<1>6. WordsIn(pcm) = Said(q)
  BY <1>2, <1>4, <1>5 DEF Said
<1> QED BY <1>6 DEF q

-----------------------------------------------------------------------------
(* The preview while the window has not moved *)

\* The invariant holds at first.
LEMMA InitSlidInv == Init => SlidInv
<1> SUFFICES ASSUME Init PROVE SlidInv
  OBVIOUS
<1>1. UnmovedAt(0, 0)
  <2>1. Said(0) = <<>> /\ After(Said(0), 0) = <<>>
    BY DEF Said, After
  <2>2. 0 * WordBytes <= 0
    BY WindowAssumption
  <2> QED BY <2>1, <2>2 DEF Init, UnmovedAt, FreshEngine
<1>2. floor = 0 /\ pc # "decode" /\ slid \in BOOLEAN
  BY DEF Init
<1>3. 0 \in Nat /\ 0 \in 0 .. 0
  OBVIOUS
<1>4. Unmoved
  BY <1>1, <1>2, <1>3 DEF Unmoved
<1> QED BY <1>2, <1>4, InitWInv DEF SlidInv

\* Every step keeps the invariant.
LEMMA NextSlidInv == SlidInv /\ [Next]_vars => SlidInv'
<1> SUFFICES ASSUME SlidInv, [Next]_vars PROVE SlidInv'
  OBVIOUS
<1>0. WInv /\ WInv' /\ slid \in BOOLEAN
  BY NextWInv DEF SlidInv
<1>1. size \in Nat /\ DataLen = size /\ WordBytes \in Nat \ {0} /\ size' \in Nat
  BY <1>0, DataIsAll, WindowAssumption DEF WInv, HeaderTrue
<1>2. ASSUME ~slid
      PROVE  /\ floor = 0
             /\ pc = "decode" => slice.start = 0 /\ slice.len \in 0 .. size
             /\ \E p \in Nat : \E c \in 0 .. p : UnmovedAt(p, c)
  BY <1>2 DEF SlidInv, Unmoved
<1> USE DEF file, config, preview
<1>3. CASE Grow \/ Close
  <2>1. size' >= size /\ UNCHANGED <<floor, slice, pc, engine, tail, heard, slid>>
    BY <1>1, <1>3 DEF Grow, Close
  <2> SUFFICES ASSUME ~slid PROVE Unmoved'
    BY <1>0, <2>1 DEF SlidInv, Unmoved
  <2>2a. PICK p \in Nat : \E c \in 0 .. p : UnmovedAt(p, c)
    BY <1>2
  <2>2. PICK c \in 0 .. p : UnmovedAt(p, c)
    BY <2>2a
  <2>3. p * WordBytes \in Nat
    BY <1>1
  <2>4. UnmovedAt(p, c)'
    BY <1>1, <2>1, <2>2, <2>3 DEF UnmovedAt
  <2>5. pc = "decode" => slice.start = 0 /\ slice.len \in 0 .. size'
    BY <1>1, <1>2, <2>1
  <2> QED BY <1>2, <2>1, <2>4, <2>5 DEF Unmoved
<1>4. CASE Reload \/ Begin \/ TooShort \/ NoAnswer \/ UNCHANGED vars
  <2>1. /\ UNCHANGED <<size, floor, slice, engine, tail, heard, slid>>
        /\ pc' = "decode" => pc = "decode"
    BY <1>4 DEF Reload, Begin, TooShort, NoAnswer, EndRound, vars
  <2> QED BY <1>0, <2>1 DEF SlidInv, Unmoved, UnmovedAt
<1>5. CASE Cut \/ CutFails
  <2>1. UNCHANGED <<size, engine, tail, heard>> /\ pc = "file" /\ pc' = "decode"
    BY <1>5 DEF Cut, CutFails
  <2>2. slid' \in BOOLEAN /\ (~slid' => ~slid)
    <3>1. slid' = slid \/ slid' = (slid \/ slice'.start > 0)
      BY <1>5, Zenon DEF Cut, CutFails
    <3> QED BY <1>0, <3>1, Zenon
  <2> SUFFICES ASSUME ~slid' PROVE Unmoved'
    BY <1>0, <2>2 DEF SlidInv, Unmoved
  <2>3. ~slid /\ floor = 0
    BY <1>2, <2>2
  <2>4. floor' = 0 /\ slice'.start = 0 /\ slice'.len = size
    <3>1. CASE Cut
      <4>1. /\ slice'.start \in floor .. size /\ slice'.start + slice'.len = size
            /\ floor' = slice'.start
        BY <1>0, <3>1, CutProperties
      <4>2. ~ (slice'.start > 0)
        <5>1. slid' = (slid \/ slice'.start > 0)
          BY <3>1, Zenon DEF Cut
        <5> QED BY <5>1, Zenon
      <4>3. slice'.start = 0
        BY <1>1, <2>3, <4>1, <4>2
      <4>4. slice'.len = size
        <5>1. slice' = WindowRange(DataLen, floor, window)
          BY <3>1 DEF Cut
        <5>2. slice'.len = size - slice'.start
          BY <1>1, <5>1 DEF WindowRange
        <5> QED BY <1>1, <4>3, <5>2
      <4> QED BY <4>1, <4>3, <4>4
    <3>2. CASE CutFails
      BY <1>1, <2>3, <3>2 DEF CutFails, Whole
    <3> QED BY <1>5, <3>1, <3>2
  <2>5a. PICK p \in Nat : \E c \in 0 .. p : UnmovedAt(p, c)
    BY <1>2, <2>3
  <2>5. PICK c \in 0 .. p : UnmovedAt(p, c)
    BY <2>5a
  <2>6. UnmovedAt(p, c)'
    BY <2>1, <2>4, <2>5 DEF UnmovedAt
  <2> QED BY <1>1, <2>1, <2>4, <2>6 DEF Unmoved
<1>6. CASE Answer
  <2>1. /\ pc = "decode" /\ pc' # "decode"
        /\ UNCHANGED <<size, floor, slice, slid>>
        /\ engine' = Observe(engine, WordsIn(slice)).engine
        /\ tail' = Observe(engine, WordsIn(slice)).tail
        /\ heard' = WordsIn(slice)
    BY <1>6 DEF Answer, EndRound
  <2> SUFFICES ASSUME ~slid PROVE Unmoved'
    BY <1>0, <2>1 DEF SlidInv, Unmoved
  <2>2. slice.start = 0 /\ slice.len \in 0 .. size
    BY <1>2, <2>1
  <2>3a. slice.len \div WordBytes \in Nat
    BY <1>1, <2>2, WordsFit
  <2>3b. PICK n \in Nat : n = slice.len \div WordBytes
    BY <2>3a
  <2>3. WordsIn(slice) = Said(n) /\ n \in Nat /\ n * WordBytes <= slice.len
    <3>1. slice.len \in Nat /\ slice.start = 0
      BY <1>1, <2>2
    <3>2. WordsIn(slice) = Said(n)
      BY <2>3b, <3>1, WordsFromStart
    <3>3. (slice.len \div WordBytes) * WordBytes <= slice.len
      BY <1>1, <3>1, WordsFit
    <3> QED BY <2>3b, <3>2, <3>3
  <2>4a. PICK p \in Nat : \E c \in 0 .. p : UnmovedAt(p, c)
    BY <1>2
  <2>4. PICK c \in 0 .. p : UnmovedAt(p, c)
    BY <2>4a
  <2>5. p \in 0 .. n
    <3>1. p * WordBytes <= slice.len
      BY <2>1, <2>4 DEF UnmovedAt
    <3>2. slice.len \in Nat
      BY <1>1, <2>2
    <3>3. p <= n
      BY <1>1, <2>3b, <3>1, <3>2, WordsFit
    <3> QED BY <2>3, <3>3
  <2>6. /\ engine' = [committed |-> Said(p), prev |-> Said(n)]
        /\ tail' = After(Said(n), p) /\ heard' = Said(n)
    BY <2>1, <2>3, <2>4, <2>5, ObserveSaid DEF UnmovedAt
  <2>7. n * WordBytes <= size
    <3>1. n * WordBytes \in Int /\ slice.len \in Int /\ slice.len <= size
      BY <1>1, <2>2, <2>3
    <3> QED BY <1>1, <2>3, <3>1
  <2>8. UnmovedAt(n, p)'
    BY <2>1, <2>6, <2>7 DEF UnmovedAt
  <2>9. floor' = 0
    BY <1>2, <2>1
  <2> QED BY <2>1, <2>3, <2>5, <2>8, <2>9 DEF Unmoved
<1> QED BY <1>3, <1>4, <1>5, <1>6 DEF Next

\* As long as no audio has dropped out of the window, LocalAgreement on windows is
\* LocalAgreement on the capture: whatever was decoded, whenever and however much of
\* it, the preview shows the last decode and what is stable is what was said first
\* (streaming.rs, drive_streaming).
THEOREM PreviewFollowsDecode == Spec => []PreviewIsLastDecode
<1>1. ASSUME SlidInv, ~slid
      PROVE  /\ Shown = heard
             /\ engine.committed = [i \in 1 .. Len(engine.committed) |-> i]
  <2>1a. PICK p \in Nat : \E c \in 0 .. p : UnmovedAt(p, c)
    BY <1>1 DEF SlidInv, Unmoved
  <2>1. PICK c \in 0 .. p : UnmovedAt(p, c)
    BY <2>1a
  <2>2. Said(c) \o After(Said(p), c) = Said(p) /\ Len(Said(c)) = c
    <3>1. c \in Nat /\ c \in 0 .. c
      OBVIOUS
    <3> QED BY <3>1, SaidProperties
  <2>3. engine.committed = Said(c) /\ heard = Said(p) /\ tail = After(Said(p), c)
    BY <2>1 DEF UnmovedAt
  <2> QED BY <2>2, <2>3 DEF Shown, Said
<1>2. SlidInv => PreviewIsLastDecode
  BY <1>1 DEF PreviewIsLastDecode
<1>3. Spec => []SlidInv
  BY InitSlidInv, NextSlidInv, PTL DEF Spec
<1> QED BY <1>2, <1>3, PTL
==============================================================================
