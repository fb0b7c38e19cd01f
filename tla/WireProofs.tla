------------------------------ MODULE WireProofs ------------------------------
(***************************************************************************)
(* Proofs about Wire, for any versions, states, counts, edits, decodes and *)
(* correction tables.                                                      *)
(*                                                                         *)
(* Each kind of line is read as it was meant (CommandParsed, ReportParsed, *)
(* FrameParsed, RefusalParsed).  The invariant says that the socket holds  *)
(* whole lines, and that these, read in the phase the connection is in,    *)
(* are what was meant and has not been read.  Words and the corrections    *)
(* are folds and recursive functions; that they have values, and that      *)
(* these are texts, follows from the first two sections.                   *)
(***************************************************************************)
EXTENDS Wire, SequenceTheorems, FiniteSetTheorems, WellFoundedInduction, TLAPS

-----------------------------------------------------------------------------
(* Recursion *)

\* What holds of a number if it holds of all below, holds of all.
LEMMA NumberInduction ==
  ASSUME NEW Good,
         \A k \in Nat : (\A j \in Nat : j < k => j \in Good) => k \in Good
  PROVE  Nat \subseteq Good
<1> DEFINE T == Nat \ Good
           R == OpToRel(<, Nat)
<1>1. SUFFICES ASSUME T # {} PROVE FALSE
  OBVIOUS
<1>2. PICK n \in T : \A m \in Nat : <<m, n>> \in R => m \notin T
  <2>1. IsWellFoundedOn(R, Nat) /\ T \subseteq Nat
    BY NatLessThanWellFounded
  <2> QED BY <1>1, <2>1, WFMin
<1>3. \A m \in T : ~(m < n)
  BY <1>2 DEF OpToRel
<1> QED BY <1>3

\* What holds of everything whose predecessors it holds of, holds of everything.
LEMMA RankInduction ==
  ASSUME NEW D, NEW rank \in [D -> Nat], NEW Good,
         \A d \in D : (\A e \in D : rank[e] < rank[d] => e \in Good) => d \in Good
  PROVE  D \subseteq Good
<1> DEFINE T == {rank[d] : d \in D \ Good}
           R == OpToRel(<, Nat)
<1>1. SUFFICES ASSUME T # {} PROVE FALSE
  OBVIOUS
<1>2. T \subseteq Nat
  OBVIOUS
<1>3. PICK n \in T : \A m \in Nat : <<m, n>> \in R => m \notin T
  <2>1. IsWellFoundedOn(R, Nat)
    BY NatLessThanWellFounded
  <2> QED BY <1>1, <1>2, <2>1, WFMin
<1>4. \A m \in T : ~(m < n)
  BY <1>2, <1>3 DEF OpToRel
<1>5. PICK d \in D \ Good : rank[d] = n
  OBVIOUS
<1>6. \A e \in D : rank[e] < rank[d] => e \in Good
  BY <1>4, <1>5
<1> QED BY <1>5, <1>6

\* A function defined by its values at the stops and by one step from the value at a
\* predecessor, which has a lower rank.
Recursive(D, rank, N, V, Stop, base, prev, step) ==
  /\ rank \in [D -> Nat] /\ \A d \in D : rank[d] <= N
  /\ base \in [D -> V] /\ prev \in [D -> D] /\ step \in [D -> [V -> V]]
  /\ \A d \in D \ Stop : rank[prev[d]] < rank[d]

Solves(f, D, Stop, base, prev, step) ==
  \A d \in D : f[d] = IF d \in Stop THEN base[d] ELSE step[d][f[prev[d]]]

\* Such a function exists.
LEMMA Recursion ==
  ASSUME NEW D, NEW rank, NEW N \in Nat, NEW V, NEW Stop, NEW base, NEW prev, NEW step,
         Recursive(D, rank, N, V, Stop, base, prev, step)
  PROVE  \E f \in [D -> V] : Solves(f, D, Stop, base, prev, step)
<1> USE DEF Recursive
<1> DEFINE Value(f, d) == IF d \in Stop THEN base[d] ELSE step[d][f[prev[d]]]
           Reaches(f, k) == \A d \in D : rank[d] < k => f[d] = Value(f, d)
           Good == {k \in Nat : \E f \in [D -> V] : Reaches(f, k)}
<1>1. ASSUME NEW f \in [D -> V]
      PROVE  [d \in D |-> Value(f, d)] \in [D -> V]
  OBVIOUS
<1>2. ASSUME NEW k \in Nat, NEW f \in [D -> V], Reaches(f, k)
      PROVE  Reaches([d \in D |-> Value(f, d)], k + 1)
  <2> DEFINE g == [d \in D |-> Value(f, d)]
  <2>1. SUFFICES ASSUME NEW d \in D, rank[d] < k + 1 PROVE g[d] = Value(g, d)
    OBVIOUS
  <2>2. CASE d \in Stop
    BY <2>2
  <2>3. CASE d \notin Stop
    <3>1. rank[prev[d]] < k /\ prev[d] \in D
      BY <2>1, <2>3
    <3>2. f[prev[d]] = g[prev[d]]
      BY <1>2, <3>1
    <3> QED BY <2>3, <3>2
  <2> QED BY <2>2, <2>3
<1>3. ASSUME NEW k \in Nat, \A j \in Nat : j < k => j \in Good
      PROVE  k \in Good
  <2>1. CASE k = 0
    <3>1. Reaches(base, 0)
      OBVIOUS
    <3> QED BY <2>1, <3>1
  <2>2. ASSUME NEW j \in Nat, k = j + 1 PROVE k \in Good
    <3>0. j \in Good
      <4>1. j < k
        BY <2>2
      <4> HIDE DEF Good
      <4> QED BY <1>3, <4>1
    <3>1. PICK f \in [D -> V] : Reaches(f, j)
      BY <3>0
    <3>2. Reaches([d \in D |-> Value(f, d)], j + 1)
      BY <1>2, <3>1
    <3> HIDE DEF Value, Reaches
    <3>3. \E g \in [D -> V] : Reaches(g, k)
      BY <1>1, <3>1, <3>2, <2>2
    <3> QED BY <3>3
  <2>3. k = 0 \/ \E j \in Nat : k = j + 1
    <3>1. k = 0 \/ (k - 1 \in Nat /\ k = (k - 1) + 1)
      OBVIOUS
    <3> QED BY <3>1
  <2> QED BY <2>1, <2>2, <2>3
<1>4. Nat \subseteq Good
  <2> HIDE DEF Good
  <2> QED BY <1>3, NumberInduction
<1>5. PICK f \in [D -> V] : Reaches(f, N + 1)
  BY <1>4
<1>6. \A d \in D : rank[d] < N + 1
  OBVIOUS
<1> QED BY <1>5, <1>6 DEF Solves

-----------------------------------------------------------------------------
(* Folds *)

\* What FoldLeft takes off a set of positions, and that there is less left.
LEMMA SubsetsShrink ==
  ASSUME NEW n \in Nat, NEW T \in SUBSET (1..n), T # {}
  PROVE  /\ Max(T) \in T /\ \A i \in T : i <= Max(T)
         /\ T \ {Max(T)} \in SUBSET (1..n)
         /\ Cardinality(T) \in Nat /\ Cardinality(T) <= n
         /\ Cardinality(T \ {Max(T)}) \in Nat
         /\ Cardinality(T \ {Max(T)}) < Cardinality(T)
<1>1. \E x \in T : \A y \in T : x >= y
  <2> DEFINE Good == {k \in Nat : \A i \in T : i >= n - k => \E x \in T : \A y \in T : x >= y}
  <2>1. ASSUME NEW k \in Nat, \A j \in Nat : j < k => j \in Good
        PROVE  k \in Good
    <3>1. SUFFICES ASSUME NEW i \in T, i >= n - k
                   PROVE  \E x \in T : \A y \in T : x >= y
      OBVIOUS
    <3>2. CASE \A y \in T : i >= y
      BY <3>2
    <3>3. ASSUME NEW y \in T, ~(i >= y) PROVE \E x \in T : \A z \in T : x >= z
      <4>1. n - y \in Nat /\ n - y < k /\ y >= n - (n - y)
        BY <3>1, <3>3
      <4>2. n - y \in Good
        BY <2>1, <4>1
      <4> QED BY <4>1, <4>2
    <3> QED BY <3>2, <3>3
  <2>2. Nat \subseteq Good
    <3> HIDE DEF Good
    <3> QED BY <2>1, NumberInduction
  <2>3. PICK i \in T : i \in 1..n
    OBVIOUS
  <2>4. n \in Good /\ i >= n - n
    BY <2>2, <2>3
  <2> QED BY <2>4
<1>2. Max(T) \in T /\ \A i \in T : Max(T) >= i
  BY <1>1 DEF Max
<1>3. IsFiniteSet(1..n) /\ Cardinality(1..n) = n
  <2>1. IsFiniteSet(1..n) /\ Cardinality(1..n) = IF 1 > n THEN 0 ELSE n - 1 + 1
    BY FS_Interval
  <2> QED BY <2>1
<1>4. IsFiniteSet(T) /\ Cardinality(T) <= n
  BY <1>3, FS_Subset
<1>5. Cardinality(T) \in Nat
  BY <1>4, FS_CardinalityType
<1>6. Cardinality(T \ {Max(T)}) = Cardinality(T) - 1 /\ IsFiniteSet(T \ {Max(T)})
  BY <1>2, <1>4, FS_RemoveElement
<1>7. Cardinality(T \ {Max(T)}) \in Nat
  BY <1>6, FS_CardinalityType
<1>8. \A i \in T : i <= Max(T)
  <2>1. \A i \in T : i \in Int
    OBVIOUS
  <2> QED BY <1>2, <2>1
<1>9. Cardinality(T \ {Max(T)}) < Cardinality(T)
  BY <1>5, <1>6
<1> QED BY <1>2, <1>4, <1>5, <1>7, <1>8, <1>9

\* Positions of a sequence are counted by a number.
LEMMA PositionsCounted ==
  ASSUME NEW n \in Nat, NEW T \in SUBSET (1..n)
  PROVE  Cardinality(T) \in Nat /\ Cardinality(T) <= n
<1>1. CASE T = {}
  <2>1. Cardinality(T) = 0
    BY <1>1, FS_EmptySet
  <2> QED BY <2>1
<1>2. CASE T # {}
  BY <1>2, SubsetsShrink
<1> QED BY <1>1, <1>2

\* The positions up to the k-th.
LEMMA LastIsMax ==
  ASSUME NEW k \in Nat \ {0}
  PROVE  Max(1..k) = k /\ (1..k) \ {k} = 1..(k - 1) /\ 1..k # {}
<1>1. Max(1..k) \in 1..k /\ \A i \in 1..k : i <= Max(1..k)
  <2>1. 1..k \in SUBSET (1..k) /\ 1..k # {}
    OBVIOUS
  <2> QED BY <2>1, SubsetsShrink
<1> QED BY <1>1

\* The function whose value FoldLeft is, and when there is one.
Folds(r, n, b, step) ==
  \A T \in SUBSET (1..n) : r[T] = IF T = {} THEN b ELSE step[Max(T)][r[T \ {Max(T)}]]

CanFold(n, V, b, step) == n \in Nat /\ b \in V /\ step \in [1..n -> [V -> V]]

\* There is such a function.
LEMMA FoldExists ==
  ASSUME NEW n, NEW V, NEW b, NEW step, CanFold(n, V, b, step)
  PROVE  \E r \in [SUBSET (1..n) -> V] : Folds(r, n, b, step)
<1> USE DEF CanFold
<1> DEFINE D == SUBSET (1..n)
           Stop == {{}}
           rank == [T \in D |-> Cardinality(T)]
           base == [T \in D |-> b]
           prev == [T \in D |-> IF T = {} THEN T ELSE T \ {Max(T)}]
           steps == [T \in D |-> IF T = {} THEN [v \in V |-> v] ELSE step[Max(T)]]
<1>1. \A T \in D : Cardinality(T) \in Nat /\ Cardinality(T) <= n
  BY PositionsCounted
<1>2. rank \in [D -> Nat] /\ \A T \in D : rank[T] <= n
  BY <1>1
<1>3. base \in [D -> V]
  OBVIOUS
<1>4. prev \in [D -> D]
  BY SubsetsShrink
<1>5. steps \in [D -> [V -> V]]
  <2>1. ASSUME NEW T \in D, T # {} PROVE step[Max(T)] \in [V -> V]
    <3>1. Max(T) \in 1..n
      BY <2>1, SubsetsShrink
    <3> QED BY <3>1
  <2> QED BY <2>1
<1>6. \A T \in D \ Stop : rank[prev[T]] < rank[T]
  <2> SUFFICES ASSUME NEW T \in D \ Stop PROVE rank[prev[T]] < rank[T]
    OBVIOUS
  <2>1. T \ {Max(T)} \in D /\ Cardinality(T \ {Max(T)}) < Cardinality(T)
    BY SubsetsShrink
  <2> QED BY <2>1
<1>7. Recursive(D, rank, n, V, Stop, base, prev, steps)
  <2> HIDE DEF D, Stop, rank, base, prev, steps
  <2> QED BY <1>2, <1>3, <1>4, <1>5, <1>6 DEF Recursive
<1>8. PICK f \in [D -> V] : Solves(f, D, Stop, base, prev, steps)
  <2> HIDE DEF D, Stop, rank, base, prev, steps
  <2> QED BY <1>7, Recursion
<1>9. \A T \in D : f[T] = IF T = {} THEN b ELSE step[Max(T)][f[T \ {Max(T)}]]
  BY <1>8 DEF Solves
<1> QED BY <1>9 DEF Folds

\* The type of a fold.
LEMMA FoldTyped ==
  ASSUME NEW n \in Nat, NEW V, NEW r, r[{}] \in V,
         \A T \in SUBSET (1..n) : T # {} /\ r[T \ {Max(T)}] \in V => r[T] \in V
  PROVE  \A T \in SUBSET (1..n) : r[T] \in V
<1> DEFINE D == SUBSET (1..n)
           rank == [T \in D |-> Cardinality(T)]
           Good == {T \in D : r[T] \in V}
<1>1. rank \in [D -> Nat]
  BY PositionsCounted
<1>2. ASSUME NEW T \in D, \A U \in D : rank[U] < rank[T] => U \in Good
      PROVE  T \in Good
  <2>1. CASE T # {}
    <3>1. T \ {Max(T)} \in D /\ rank[T \ {Max(T)}] < rank[T]
      BY <2>1, SubsetsShrink
    <3> QED BY <1>2, <2>1, <3>1
  <2> QED BY <2>1
<1>3. D \subseteq Good
  <2> HIDE DEF D, rank, Good
  <2> QED BY <1>1, <1>2, RankInduction
<1> QED BY <1>3

-----------------------------------------------------------------------------
(* Sequences *)

\* What Append does to a sequence.
LEMMA Appended ==
  ASSUME NEW S, NEW s \in Seq(S), NEW x \in S
  PROVE  /\ Append(s, x) \in Seq(S) /\ Len(Append(s, x)) = Len(s) + 1 /\ Len(s) \in Nat
         /\ DOMAIN s = 1..Len(s) /\ DOMAIN Append(s, x) = 1..(Len(s) + 1)
         /\ \A i \in 1..Len(s) : Append(s, x)[i] = s[i]
         /\ Append(s, x)[Len(s) + 1] = x
OBVIOUS

\* A sequence that has one element more is what Append makes.
LEMMA AppendIs ==
  ASSUME NEW S, NEW s \in Seq(S), NEW x \in S, NEW t \in Seq(S), Len(t) = Len(s) + 1,
         \A i \in 1..Len(s) : t[i] = s[i], t[Len(s) + 1] = x
  PROVE  Append(s, x) = t
<1>1. Append(s, x) \in Seq(S) /\ Len(Append(s, x)) = Len(t) /\ Len(s) \in Nat
  BY Appended
<1>2. \A i \in 1..Len(Append(s, x)) : Append(s, x)[i] = t[i]
  BY <1>1, Appended
<1> QED BY <1>1, <1>2, SeqEqual

\* Appending to a tuple.
LEMMA AppendToTuple ==
  /\ \A x : Append(<<>>, x) = <<x>>
  /\ \A x, y : Append(<<x>>, y) = <<x, y>>
  /\ \A x, y, z : Append(<<x, y>>, z) = <<x, y, z>>
  /\ \A x, y, z, u : Append(<<x, y, z>>, u) = <<x, y, z, u>>
<1>1. \A x : Append(<<>>, x) = <<x>>
  OBVIOUS
<1>2. ASSUME NEW x, NEW y PROVE Append(<<x>>, y) = <<x, y>>
  <2> DEFINE S == {x, y}
             s == <<x>>
             t == <<x, y>>
  <2>1. s \in Seq(S) /\ Len(s) = 1 /\ s[1] = x
    OBVIOUS
  <2>2. t \in Seq(S) /\ Len(t) = 2 /\ t[1] = x /\ t[2] = y /\ y \in S
    OBVIOUS
  <2> HIDE DEF S, s, t
  <2>3. Len(t) = Len(s) + 1 /\ t[Len(s) + 1] = y /\ \A i \in 1..Len(s) : t[i] = s[i]
    BY <2>1, <2>2
  <2>4. Append(s, y) = t
    BY <2>1, <2>2, <2>3, AppendIs
  <2> QED BY <2>4 DEF s, t
<1>3. ASSUME NEW x, NEW y, NEW z PROVE Append(<<x, y>>, z) = <<x, y, z>>
  <2> DEFINE S == {x, y, z}
             s == <<x, y>>
             t == <<x, y, z>>
  <2>1. s \in Seq(S) /\ Len(s) = 2 /\ s[1] = x /\ s[2] = y
    OBVIOUS
  <2>2. t \in Seq(S) /\ Len(t) = 3 /\ t[1] = x /\ t[2] = y /\ t[3] = z /\ z \in S
    OBVIOUS
  <2> HIDE DEF S, s, t
  <2>3. Len(t) = Len(s) + 1 /\ t[Len(s) + 1] = z /\ \A i \in 1..Len(s) : t[i] = s[i]
    BY <2>1, <2>2
  <2>4. Append(s, z) = t
    BY <2>1, <2>2, <2>3, AppendIs
  <2> QED BY <2>4 DEF s, t
<1>4. ASSUME NEW x, NEW y, NEW z, NEW u PROVE Append(<<x, y, z>>, u) = <<x, y, z, u>>
  <2> DEFINE S == {x, y, z, u}
             s == <<x, y, z>>
             t == <<x, y, z, u>>
  <2>1. s \in Seq(S) /\ Len(s) = 3 /\ s[1] = x /\ s[2] = y /\ s[3] = z
    OBVIOUS
  <2>2. t \in Seq(S) /\ Len(t) = 4 /\ t[1] = x /\ t[2] = y /\ t[3] = z /\ t[4] = u /\ u \in S
    OBVIOUS
  <2> HIDE DEF S, s, t
  <2>3. Len(t) = Len(s) + 1 /\ t[Len(s) + 1] = u /\ \A i \in 1..Len(s) : t[i] = s[i]
    BY <2>1, <2>2
  <2>4. Append(s, u) = t
    BY <2>1, <2>2, <2>3, AppendIs
  <2> QED BY <2>4 DEF s, t
<1> QED BY <1>1, <1>2, <1>3, <1>4

\* A sequence over a set is one over a larger set.
LEMMA WiderSeq ==
  ASSUME NEW S, NEW T, S \subseteq T, NEW s \in Seq(S)
  PROVE  s \in Seq(T)
<1>1. Len(s) \in Nat /\ s \in [1..Len(s) -> T]
  OBVIOUS
<1> QED BY <1>1

\* The least element of a set is its Min.
LEMMA MinIs ==
  ASSUME NEW T \in SUBSET Int, NEW x \in T, \A y \in T : x <= y
  PROVE  Min(T) = x
<1>1. Min(T) \in T /\ \A y \in T : Min(T) <= y
  BY DEF Min
<1>2. Min(T) <= x /\ x <= Min(T) /\ Min(T) \in Int /\ x \in Int
  BY <1>1
<1> QED BY <1>2

-----------------------------------------------------------------------------
(* Words *)

\* What lines are made of: the keywords are strings, which the provers do not know.
Keyword ==
  White \cup StateName \cup Word \cup {"register-sink", Count, Unit, Panic}
    \cup {"transcript", "finalize", "live-edit", "state", "ok", "err"}
    \cup {"busy", "incompatible", "unknown command", "discarded"}

Symbol == STRING \cup Keyword
Text == Seq(Symbol)
Split == [words : Seq(Text), last : Text]
Scan(text) == FoldLeft(Splitting, Unsplit, text)

\* The last word with one more character.
LEMMA Lengthened ==
  ASSUME NEW split, NEW c, split = [words |-> split.words, last |-> split.last]
  PROVE  [split EXCEPT !.last = Append(@, c)]
           = [words |-> split.words, last |-> Append(split.last, c)]
OBVIOUS

\* A step of split_whitespace.
LEMMA SplittingIs ==
  ASSUME NEW split \in Split, NEW c \in Symbol
  PROVE  /\ Finished(split) \in Seq(Text)
         /\ Splitting(split, c) \in Split
         /\ c \in White => Splitting(split, c) = [words |-> Finished(split), last |-> <<>>]
         /\ c \notin White =>
              Splitting(split, c) = [words |-> split.words, last |-> Append(split.last, c)]
<1>1. split.words \in Seq(Text) /\ split.last \in Text
  BY DEF Split
<1>2. split = [words |-> split.words, last |-> split.last]
  BY DEF Split
<1>3. Append(split.last, c) \in Text
  BY <1>1 DEF Text
<1>4. Finished(split) \in Seq(Text)
  BY <1>1 DEF Finished
<1>5. <<>> \in Text
  BY DEF Text
<1>6. [split EXCEPT !.last = Append(@, c)]
        = [words |-> split.words, last |-> Append(split.last, c)]
  BY <1>2, Lengthened
<1> QED BY <1>1, <1>3, <1>4, <1>5, <1>6 DEF Splitting, Split

\* The fold, position by position.
Scans(r, text) ==
  \A T \in SUBSET (1..Len(text)) :
    /\ r[T] \in Split
    /\ r[T] = IF T = {} THEN Unsplit ELSE Splitting(r[T \ {Max(T)}], text[Max(T)])

\* The scan of a text is the value of such a function at all its positions.
LEMMA ScanIsFold ==
  ASSUME NEW text \in Text
  PROVE  \E r : Scans(r, text) /\ Scan(text) = r[1..Len(text)]
<1> DEFINE n == Len(text)
           D == SUBSET (1..n)
           Value(f, T) == IF T = {} THEN Unsplit ELSE Splitting(f[T \ {Max(T)}], text[Max(T)])
           r == CHOOSE f : f = [T \in D |-> Value(f, T)]
           step == [i \in 1..n |-> [v \in Split |-> Splitting(v, text[i])]]
<1>1. n \in Nat /\ DOMAIN text = 1..n /\ \A i \in 1..n : text[i] \in Symbol
  BY DEF Text
<1>2. Scan(text) = r[1..n]
  BY <1>1 DEF Scan, FoldLeft, MapThenFoldSet
<1>3. Unsplit \in Split
  BY DEF Unsplit, Split, Text
<1>4. step \in [1..n -> [Split -> Split]]
  BY <1>1, SplittingIs
<1>5. PICK f \in [D -> Split] : Folds(f, n, Unsplit, step)
  <2>1. CanFold(n, Split, Unsplit, step)
    BY <1>1, <1>3, <1>4 DEF CanFold
  <2> HIDE DEF step, n
  <2> QED BY <2>1, FoldExists
<1>6. ASSUME NEW T \in D PROVE f[T] = Value(f, T)
  <2>1. CASE T # {}
    <3>1. Max(T) \in 1..n /\ T \ {Max(T)} \in D
      BY <1>1, <2>1, SubsetsShrink
    <3> QED BY <1>5, <2>1, <3>1 DEF Folds
  <2> QED BY <1>5, <2>1 DEF Folds
<1>7. f = [T \in D |-> Value(f, T)]
  BY <1>6
<1>8. r = [T \in D |-> Value(r, T)]
  <2> HIDE DEF Value, D
  <2> QED BY <1>7
<1>9. \A T \in D : r[T] = Value(r, T)
  <2> HIDE DEF r, D, Value
  <2> QED BY <1>8
<1>10. \A T \in D : r[T] \in Split
  <2> HIDE DEF r
  <2>1. r[{}] \in Split
    BY <1>3, <1>9
  <2>2. ASSUME NEW T \in D, T # {}, r[T \ {Max(T)}] \in Split PROVE r[T] \in Split
    <3>1. Max(T) \in 1..n
      BY <1>1, <2>2, SubsetsShrink
    <3>2. r[T] = Splitting(r[T \ {Max(T)}], text[Max(T)]) /\ text[Max(T)] \in Symbol
      BY <1>1, <1>9, <2>2, <3>1
    <3>3. Splitting(r[T \ {Max(T)}], text[Max(T)]) \in Split
      BY <2>2, <3>2, SplittingIs, Zenon
    <3> QED BY <3>2, <3>3, Zenon
  <2> QED BY <1>1, <2>1, <2>2, FoldTyped
<1> QED
  <2> HIDE DEF r
  <2> QED BY <1>2, <1>9, <1>10 DEF Scans

\* What split_whitespace has made of the first k characters, for every k.
Reads(p, text) ==
  /\ p[0] = Unsplit
  /\ \A k \in 1..Len(text) : p[k] = Splitting(p[k - 1], text[k])
  /\ \A k \in 0..Len(text) : p[k] \in Split
  /\ Words(text) = Finished(p[Len(text)])

\* Words reads a text character by character.
LEMMA Reading ==
  ASSUME NEW text \in Text
  PROVE  \E p : Reads(p, text)
<1> DEFINE n == Len(text)
<1>1. n \in Nat
  BY DEF Text
<1>2. PICK r : Scans(r, text) /\ Scan(text) = r[1..n]
  BY ScanIsFold
<1> DEFINE p == [k \in 0..n |-> r[1..k]]
<1>3. p[0] = Unsplit
  <2>1. 1..0 = {} /\ 0 \in 0..n
    BY <1>1
  <2> QED BY <1>2, <2>1 DEF Scans
<1>4. ASSUME NEW k \in 1..n PROVE p[k] = Splitting(p[k - 1], text[k])
  <2>1. /\ 1..k \in SUBSET (1..n) /\ k \in Nat \ {0}
        /\ p[k] = r[1..k] /\ p[k - 1] = r[1..(k - 1)]
    BY <1>1
  <2>2. Max(1..k) = k /\ (1..k) \ {k} = 1..(k - 1) /\ 1..k # {}
    BY <2>1, LastIsMax
  <2> QED BY <1>2, <2>1, <2>2 DEF Scans
<1>5. ASSUME NEW k \in 0..n PROVE p[k] \in Split
  <2>1. 1..k \in SUBSET (1..n)
    BY <1>1
  <2> QED BY <1>2, <2>1 DEF Scans
<1>6. Words(text) = Finished(p[n])
  BY <1>1, <1>2 DEF Words, Scan
<1>7. Reads(p, text)
  BY <1>3, <1>4, <1>5, <1>6 DEF Reads
<1> QED BY <1>7

\* What is split are words of the characters that are there.
LEMMA WordsOver ==
  ASSUME NEW V \in SUBSET Symbol, NEW text \in Seq(V)
  PROVE  Words(text) \in Seq(Seq(V))
<1> DEFINE Over == [words : Seq(Seq(V)), last : Seq(V)]
           n == Len(text)
<1>1. text \in Text /\ n \in Nat /\ \A i \in 1..n : text[i] \in V
  BY WiderSeq DEF Text
<1>2. ASSUME NEW split \in Over
      PROVE  /\ Finished(split) \in Seq(Seq(V))
             /\ \A c \in V : Splitting(split, c) \in Over
  <2>1. split.words \in Seq(Seq(V)) /\ split.last \in Seq(V)
    OBVIOUS
  <2>2. split = [words |-> split.words, last |-> split.last]
    OBVIOUS
  <2>3. Finished(split) \in Seq(Seq(V))
    BY <2>1, Appended DEF Finished
  <2>4. ASSUME NEW c \in V PROVE Splitting(split, c) \in Over
    <3>1. Append(split.last, c) \in Seq(V) /\ <<>> \in Seq(V)
      BY <2>1, Appended
    <3>2. [split EXCEPT !.last = Append(@, c)]
            = [words |-> split.words, last |-> Append(split.last, c)]
      BY <2>2, Lengthened
    <3> QED BY <2>1, <2>3, <3>1, <3>2 DEF Splitting
  <2> QED BY <2>3, <2>4
<1>3. Unsplit \in Over
  BY DEF Unsplit
<1>4. PICK p : Reads(p, text)
  BY <1>1, Reading
<1> HIDE DEF Over
<1> DEFINE Good == {k \in Nat : k <= n => p[k] \in Over}
<1>5. ASSUME NEW k \in Nat, \A j \in Nat : j < k => j \in Good PROVE k \in Good
  <2>1. CASE k = 0
    BY <1>3, <1>4, <2>1 DEF Reads
  <2>2. CASE k # 0 /\ k <= n
    <3>1. k - 1 \in Nat /\ k - 1 < k /\ k - 1 <= n /\ k \in 1..n
      BY <1>1, <2>2
    <3>2. p[k - 1] \in Over
      BY <1>5, <3>1
    <3>3. p[k] = Splitting(p[k - 1], text[k]) /\ text[k] \in V
      BY <1>1, <1>4, <3>1 DEF Reads
    <3>4. Splitting(p[k - 1], text[k]) \in Over
      BY <1>2, <3>2, <3>3, Zenon
    <3> QED BY <3>3, <3>4
  <2>3. CASE ~(k <= n)
    BY <2>3
  <2> QED BY <2>1, <2>2, <2>3
<1>6. Nat \subseteq Good
  <2> HIDE DEF Good
  <2> QED BY <1>5, NumberInduction
<1>7. p[n] \in Over
  BY <1>1, <1>6
<1> QED BY <1>2, <1>4, <1>7 DEF Reads

\* What is split are texts.
LEMMA WordsTyped ==
  ASSUME NEW text \in Text
  PROVE  Words(text) \in Seq(Text)
BY WordsOver DEF Text

\* What is read at k: the words so far and the beginning of the next.
At(p, k, ws, w) ==
  p[k] = [words |-> ws, last |-> w] /\ ws \in Seq(Text) /\ w \in Text

Steps(p, text, j, k, c) ==
  Reads(p, text) /\ text \in Text /\ k \in 1..Len(text) /\ j = k - 1 /\ text[k] = c

\* One step of it: the next character is white, or it is not.
LEMMA ReadMore ==
  ASSUME NEW p, NEW text, NEW j, NEW k, NEW c, NEW ws, NEW w,
         Steps(p, text, j, k, c), At(p, j, ws, w)
  PROVE  /\ c \notin White => At(p, k, ws, Append(w, c))
         /\ c \in White /\ w # <<>> => At(p, k, Append(ws, w), <<>>)
<1>1. [words |-> ws, last |-> w] \in Split
  BY DEF At, Split
<1>2. p[k] = Splitting([words |-> ws, last |-> w], c) /\ c \in Symbol
  BY DEF Steps, Reads, Text, At
<1>3. w # <<>> => Finished([words |-> ws, last |-> w]) = Append(ws, w)
  BY DEF Finished
<1>4. p[k] \in Split
  BY DEF Steps, Reads
<1>5. Append(w, c) \in Text /\ Append(ws, w) \in Seq(Text) /\ <<>> \in Text
  BY <1>2 DEF At, Text
<1> QED BY <1>1, <1>2, <1>3, <1>5, SplittingIs DEF At

\* At the end of a text its words are those so far and the last one begun.
LEMMA ReadAll ==
  ASSUME NEW p, NEW text, NEW ws, NEW w,
         Reads(p, text), At(p, Len(text), ws, w), w # <<>>
  PROVE  Words(text) = Append(ws, w)
BY DEF Reads, Finished, At

\* Before the first character nothing has been read.
LEMMA ReadNone ==
  ASSUME NEW p, NEW text, Reads(p, text)
  PROVE  At(p, 0, <<>>, <<>>)
<1>1. <<>> \in Text /\ <<>> \in Seq(Text)
  BY DEF Text
<1> QED BY <1>1 DEF Reads, At, Unsplit

Black == Symbol \ White

\* The words of a line of one word, and the beginning of a line of two and more.
LEMMA OneWord ==
  ASSUME NEW line \in Text, Len(line) = 1, NEW a \in Black, line[1] = a
  PROVE  Words(line) = << <<a>> >>
<1>1. PICK p : Reads(p, line)
  BY Reading
<1>2. Steps(p, line, 0, 1, a)
  BY <1>1 DEF Steps
<1>3. At(p, 1, <<>>, Append(<<>>, a))
  BY <1>1, <1>2, ReadNone, ReadMore DEF Black
<1>4. Append(<<>>, a) = <<a>> /\ <<a>> # <<>>
  OBVIOUS
<1>5. At(p, Len(line), <<>>, <<a>>)
  BY <1>3, <1>4
<1>6. Words(line) = Append(<<>>, <<a>>)
  BY <1>1, <1>4, <1>5, ReadAll
<1> QED BY <1>6, AppendToTuple

\* How words begin, go on and end.
LEMMA WordBegins ==
  ASSUME NEW p, NEW text, NEW j, NEW k, NEW c \in Black, NEW ws,
         Steps(p, text, j, k, c), At(p, j, ws, <<>>)
  PROVE  At(p, k, ws, <<c>>)
<1>1. At(p, k, ws, Append(<<>>, c))
  BY ReadMore DEF Black
<1> QED BY <1>1

\* A character that is not white makes the word longer.
LEMMA WordGrows ==
  ASSUME NEW p, NEW text, NEW j, NEW k, NEW c \in Black, NEW ws, NEW x,
         Steps(p, text, j, k, c), At(p, j, ws, <<x>>)
  PROVE  At(p, k, ws, <<x, c>>)
<1>1. At(p, k, ws, Append(<<x>>, c))
  BY ReadMore DEF Black
<1> QED BY <1>1, AppendToTuple

\* A blank after a word ends it.
LEMMA WordEnds ==
  ASSUME NEW p, NEW text, NEW j, NEW k, NEW ws, NEW x,
         Steps(p, text, j, k, Blank), At(p, j, ws, <<x>>)
  PROVE  At(p, k, Append(ws, <<x>>), <<>>)
<1>1. Blank \in White /\ <<x>> # <<>>
  BY DEF White
<1> QED BY <1>1, ReadMore

\* A line that begins with two words.
Begins(line, a, b) ==
  /\ line \in Text /\ Len(line) >= 3 /\ a \in Black /\ b \in Black
  /\ line[1] = a /\ line[2] = Blank /\ line[3] = b

\* Two words with a blank between them.
LEMMA TwoWords ==
  ASSUME NEW line, NEW a, NEW b, Begins(line, a, b), NEW p, Reads(p, line)
  PROVE  /\ At(p, 3, << <<a>> >>, <<b>>)
         /\ Len(line) = 3 => Words(line) = << <<a>>, <<b>> >>
<1>1. Len(line) \in Nat /\ Len(line) >= 3
  BY DEF Begins, Text
<1>2. Steps(p, line, 0, 1, a) /\ Steps(p, line, 1, 2, Blank) /\ Steps(p, line, 2, 3, b)
  BY <1>1 DEF Steps, Begins
<1>3. a \in Black /\ b \in Black
  BY DEF Begins
<1>4. At(p, 1, <<>>, <<a>>)
  BY <1>2, <1>3, ReadNone, WordBegins, WordGrows, WordEnds
<1>5. At(p, 2, << <<a>> >>, <<>>)
  <2>1. At(p, 2, Append(<<>>, <<a>>), <<>>)
    BY <1>2, <1>4, WordBegins, WordGrows, WordEnds
  <2> QED BY <2>1
<1>6. At(p, 3, << <<a>> >>, <<b>>)
  BY <1>2, <1>3, <1>5, WordBegins, WordGrows, WordEnds
<1>7. ASSUME Len(line) = 3 PROVE Words(line) = << <<a>>, <<b>> >>
  <2>1. At(p, Len(line), << <<a>> >>, <<b>>) /\ <<b>> # <<>>
    BY <1>6, <1>7
  <2>2. Words(line) = Append(<< <<a>> >>, <<b>>)
    BY <2>1, ReadAll
  <2> QED BY <2>2, AppendToTuple
<1> QED BY <1>6, <1>7

\* A line that goes on with a third.
LEMMA ThreeWords ==
  ASSUME NEW line, NEW a, NEW b, NEW c, Begins(line, a, b), NEW p, Reads(p, line),
         Len(line) >= 5, line[4] = Blank, line[5] = c, c \in Black
  PROVE  /\ At(p, 5, << <<a>>, <<b>> >>, <<c>>)
         /\ Len(line) = 5 => Words(line) = << <<a>>, <<b>>, <<c>> >>
<1>1. Len(line) \in Nat /\ line \in Text
  BY DEF Begins, Text
<1>2. Steps(p, line, 3, 4, Blank) /\ Steps(p, line, 4, 5, c)
  BY <1>1 DEF Steps
<1>3. At(p, 4, << <<a>>, <<b>> >>, <<>>)
  <2>1. At(p, 4, Append(<< <<a>> >>, <<b>>), <<>>)
    BY <1>2, TwoWords, WordBegins, WordGrows, WordEnds
  <2> QED BY <2>1, AppendToTuple
<1>4. At(p, 5, << <<a>>, <<b>> >>, <<c>>)
  BY <1>2, <1>3, WordBegins, WordGrows, WordEnds
<1>5. ASSUME Len(line) = 5 PROVE Words(line) = << <<a>>, <<b>>, <<c>> >>
  <2>1. At(p, Len(line), << <<a>>, <<b>> >>, <<c>>) /\ <<c>> # <<>>
    BY <1>4, <1>5
  <2>2. Words(line) = Append(<< <<a>>, <<b>> >>, <<c>>)
    BY <2>1, ReadAll
  <2>3. Append(<< <<a>>, <<b>> >>, <<c>>) = << <<a>>, <<b>>, <<c>> >>
    BY AppendToTuple
  <2> QED BY <2>2, <2>3, Zenon
<1> QED BY <1>4, <1>5

\* A line whose last word is of two symbols, after two words and after three.
LEMMA CountedWords ==
  ASSUME NEW line, NEW a, NEW b, NEW d, NEW e, Begins(line, a, b), d \in Black, e \in Black
  PROVE  /\ Len(line) = 6 /\ line[4] = Blank /\ line[5] = d /\ line[6] = e
              => Words(line) = << <<a>>, <<b>>, <<d, e>> >>
         /\ \A c \in Black :
              /\ Len(line) = 8 /\ line[4] = Blank /\ line[5] = c
              /\ line[6] = Blank /\ line[7] = d /\ line[8] = e
              => Words(line) = << <<a>>, <<b>>, <<c>>, <<d, e>> >>
<1>1. Len(line) \in Nat /\ line \in Text /\ <<d, e>> # <<>>
  BY DEF Begins, Text
<1>2. PICK p : Reads(p, line)
  BY <1>1, Reading
<1>3. ASSUME Len(line) = 6, line[4] = Blank, line[5] = d, line[6] = e
      PROVE  Words(line) = << <<a>>, <<b>>, <<d, e>> >>
  <2>1. Steps(p, line, 5, 6, e)
    BY <1>1, <1>2, <1>3 DEF Steps
  <2>2. At(p, 5, << <<a>>, <<b>> >>, <<d>>)
    BY <1>2, <1>3, ThreeWords
  <2>3. At(p, 6, << <<a>>, <<b>> >>, <<d, e>>)
    BY <2>1, <2>2, WordBegins, WordGrows, WordEnds
  <2>4. At(p, Len(line), << <<a>>, <<b>> >>, <<d, e>>)
    BY <1>3, <2>3
  <2>5. Words(line) = Append(<< <<a>>, <<b>> >>, <<d, e>>)
    BY <1>1, <1>2, <2>4, ReadAll
  <2>6. Append(<< <<a>>, <<b>> >>, <<d, e>>) = << <<a>>, <<b>>, <<d, e>> >>
    BY AppendToTuple
  <2> QED BY <2>5, <2>6, Zenon
<1>4. ASSUME NEW c \in Black, Len(line) = 8, line[4] = Blank, line[5] = c,
             line[6] = Blank, line[7] = d, line[8] = e
      PROVE  Words(line) = << <<a>>, <<b>>, <<c>>, <<d, e>> >>
  <2>1. Steps(p, line, 5, 6, Blank) /\ Steps(p, line, 6, 7, d) /\ Steps(p, line, 7, 8, e)
    BY <1>1, <1>2, <1>4 DEF Steps
  <2>2. At(p, 5, << <<a>>, <<b>> >>, <<c>>)
    BY <1>2, <1>4, ThreeWords
  <2>3. At(p, 6, << <<a>>, <<b>>, <<c>> >>, <<>>)
    <3>1. At(p, 6, Append(<< <<a>>, <<b>> >>, <<c>>), <<>>)
      BY <2>1, <2>2, WordBegins, WordGrows, WordEnds, Zenon
    <3>2. Append(<< <<a>>, <<b>> >>, <<c>>) = << <<a>>, <<b>>, <<c>> >>
      BY AppendToTuple
    <3> QED BY <3>1, <3>2, Zenon
  <2>4. At(p, 7, << <<a>>, <<b>>, <<c>> >>, <<d>>)
    BY <2>1, <2>3, WordBegins, WordGrows, WordEnds
  <2>5. At(p, 8, << <<a>>, <<b>>, <<c>> >>, <<d, e>>)
    BY <2>1, <2>4, WordBegins, WordGrows, WordEnds
  <2>6. At(p, Len(line), << <<a>>, <<b>>, <<c>> >>, <<d, e>>)
    BY <1>4, <2>5
  <2>7. Words(line) = Append(<< <<a>>, <<b>>, <<c>> >>, <<d, e>>)
    BY <1>1, <1>2, <2>6, ReadAll
  <2>8. Append(<< <<a>>, <<b>>, <<c>> >>, <<d, e>>) = << <<a>>, <<b>>, <<c>>, <<d, e>> >>
    BY AppendToTuple
  <2> QED BY <2>7, <2>8, Zenon
<1> QED BY <1>3, <1>4

-----------------------------------------------------------------------------
(* States, commands, replies and frames are read as they were written *)

\* A line behind its first word, from which the rest is got back.
LEMMA Prefixed ==
  ASSUME NEW a \in Symbol, NEW b \in Symbol, NEW x \in Text
  PROVE  /\ <<a, b>> \o x \in Text /\ Len(<<a, b>> \o x) = 2 + Len(x) /\ Len(x) \in Nat
         /\ (<<a, b>> \o x)[1] = a /\ (<<a, b>> \o x)[2] = b
         /\ \A i \in 1..Len(x) : (<<a, b>> \o x)[2 + i] = x[i]
         /\ SubSeq(<<a, b>> \o x, 3, 2 + Len(x)) = x
<1> DEFINE s == <<a, b>>
           line == s \o x
<1>1. s \in Seq(Symbol) /\ Len(s) = 2 /\ s[1] = a /\ s[2] = b
  OBVIOUS
<1>2. x \in Seq(Symbol) /\ Len(x) \in Nat
  BY DEF Text
<1> HIDE DEF s
<1>3. /\ line \in Seq(Symbol) /\ Len(line) = 2 + Len(x)
      /\ \A i \in 1..(2 + Len(x)) : line[i] = IF i <= 2 THEN s[i] ELSE x[i - 2]
  <2>1. /\ line \in Seq(Symbol) /\ Len(line) = Len(s) + Len(x)
        /\ \A i \in 1..(Len(s) + Len(x)) :
             line[i] = IF i <= Len(s) THEN s[i] ELSE x[i - Len(s)]
    BY <1>1, <1>2, ConcatProperties
  <2> QED BY <1>1, <2>1
<1> HIDE DEF line
<1>4. line[1] = a /\ line[2] = b
  BY <1>1, <1>2, <1>3
<1>5. ASSUME NEW i \in 1..Len(x) PROVE line[2 + i] = x[i]
  <2>1. 2 + i \in 1..(2 + Len(x)) /\ ~(2 + i <= 2) /\ (2 + i) - 2 = i
    BY <1>2
  <2> QED BY <1>3, <2>1
<1>6. SubSeq(line, 3, 2 + Len(x)) = x
  <2> DEFINE t == SubSeq(line, 3, 2 + Len(x))
  <2>1. \A i \in 3..(2 + Len(x)) : line[i] \in Symbol
    <3>1. \A i \in 1..Len(line) : line[i] \in Symbol
      BY <1>3, ElementOfSeq
    <3> QED BY <1>2, <1>3, <3>1
  <2>2. /\ t \in Seq(Symbol)
        /\ Len(t) = IF 3 <= 2 + Len(x) THEN (2 + Len(x)) - 3 + 1 ELSE 0
        /\ \A i \in 1..((2 + Len(x)) - 3 + 1) : t[i] = line[3 + i - 1]
    <3>1. 3 \in Int /\ 2 + Len(x) \in Int
      BY <1>2
    <3> QED BY <2>1, <3>1, SubSeqProperties
  <2>3. Len(t) = Len(x)
    BY <1>2, <2>2
  <2>4. ASSUME NEW i \in 1..Len(t) PROVE t[i] = x[i]
    <3>1. i \in 1..Len(x) /\ i \in 1..((2 + Len(x)) - 3 + 1) /\ 3 + i - 1 = 2 + i
      BY <1>2, <2>3
    <3>2. t[i] = line[2 + i]
      BY <2>2, <3>1
    <3> QED BY <1>5, <3>1, <3>2
  <2> QED BY <1>2, <2>2, <2>3, <2>4, SeqEqual
<1> QED BY <1>2, <1>3, <1>4, <1>5, <1>6 DEF line, s, Text

\* Numbers are black and no count.
LEMMA DigitsAre ==
  ASSUME NEW d \in Digits
  PROVE  d \in Black /\ d # Count /\ Numeric(<<d>>, MaxNumber)
<1>1. PICK n \in 0..MaxNumber : d = Decimal[n]
  BY DEF Digits
<1>2. d \in STRING \ (White \cup {Count}) /\ n <= MaxNumber
  BY <1>1, DecimalAssumption
<1> QED BY <1>1, <1>2 DEF Black, Symbol, Numeric

\* What there is in a state and in its encoding.
Bare(state) ==
  /\ state = StateOf(state.name) /\ state.name \in StateName
  /\ EncodeState(state) = <<state.name>>

Counted(state) ==
  /\ state = Downloading(state.percent) /\ state.name = "downloading"
  /\ state.percent \in Digits /\ Numeric(<<state.percent>>, 100)
  /\ EncodeState(state) = <<state.name, Blank, state.percent>>

\* What states consist of: a name, and a percent or none.
LEMMA StatesAre ==
  ASSUME NEW state \in State
  PROVE  /\ Bare(state) \/ Counted(state)
         /\ state.name \in Black /\ state.name # Count /\ state # Malformed
<1>1. CASE \E name \in StateName : state = StateOf(name)
  <2>1. PICK name \in StateName : state = StateOf(name)
    BY <1>1
  <2>2. state.name = name /\ state.percent = Unknown
    BY <2>1 DEF StateOf
  <2> QED BY <2>1, <2>2, MalformedAssumption
          DEF Bare, EncodeState, StateName, Black, Symbol, Keyword, White, Blank, Break,
              Count
<1>2. CASE \E n \in 0..MaxNumber : n <= 100 /\ state = Downloading(Decimal[n])
  <2>1. PICK n \in 0..MaxNumber : n <= 100 /\ state = Downloading(Decimal[n])
    BY <1>2
  <2>2. /\ state.name = "downloading" /\ state.percent = Decimal[n]
        /\ state = [name |-> state.name, percent |-> state.percent]
    BY <2>1 DEF Downloading
  <2>3. "downloading" \in Black /\ "downloading" # Count
    BY DEF Black, Symbol, Keyword, StateName, White, Blank, Break, Count
  <2>4. CASE state.percent = Unknown
    <3>1. state = StateOf("downloading")
      BY <2>2, <2>4 DEF StateOf
    <3>2. "downloading" \in StateName
      BY DEF StateName
    <3> QED BY <2>2, <2>3, <2>4, <3>1, <3>2, MalformedAssumption DEF Bare, EncodeState
  <2>5. CASE state.percent # Unknown
    <3>1. state.percent \in Digits /\ Numeric(<<state.percent>>, 100)
      BY <2>1, <2>2 DEF Digits, Numeric
    <3> QED BY <2>1, <2>2, <2>3, <2>5, <3>1, MalformedAssumption DEF Counted, EncodeState
  <2> QED BY <2>4, <2>5
<1> QED BY <1>1, <1>2 DEF State

\* State::encode_token writes one word or two.
LEMMA EncodedState ==
  ASSUME NEW state \in State
  PROVE  /\ EncodeState(state) \in Text
         /\ Bare(state) => Len(EncodeState(state)) = 1 /\ EncodeState(state)[1] = state.name
         /\ Counted(state) =>
              /\ Len(EncodeState(state)) = 3 /\ EncodeState(state)[1] = state.name
              /\ EncodeState(state)[2] = Blank /\ EncodeState(state)[3] = state.percent
<1>1. Blank \in Symbol /\ state.name \in Symbol /\ (Counted(state) => state.percent \in Symbol)
  BY StatesAre, DigitsAre DEF Counted, Black, Symbol, Keyword, White
<1>2. ASSUME Bare(state)
      PROVE  /\ EncodeState(state) \in Text
             /\ Len(EncodeState(state)) = 1 /\ EncodeState(state)[1] = state.name
  <2>1. EncodeState(state) = <<state.name>>
    BY <1>2 DEF Bare
  <2>2. <<state.name>> \in Seq(Symbol) /\ Len(<<state.name>>) = 1
    BY <1>1
  <2> QED BY <2>1, <2>2 DEF Text
<1>3. ASSUME Counted(state)
      PROVE  /\ EncodeState(state) \in Text
             /\ Len(EncodeState(state)) = 3 /\ EncodeState(state)[1] = state.name
             /\ EncodeState(state)[2] = Blank /\ EncodeState(state)[3] = state.percent
  <2> DEFINE t == <<state.name, Blank, state.percent>>
  <2>1. EncodeState(state) = t
    BY <1>3 DEF Counted
  <2>2. /\ t \in Seq(Symbol) /\ Len(t) = 3
        /\ t[1] = state.name /\ t[2] = Blank /\ t[3] = state.percent
    BY <1>1, <1>3
  <2> HIDE DEF t
  <2> QED BY <2>1, <2>2 DEF Text
<1> QED BY <1>2, <1>3, StatesAre

\* The words of a state's encoding, after those that come before it.
LEMMA StateOfItsWords ==
  ASSUME NEW state \in State
  PROVE  /\ Bare(state) => StateOfWords(<< <<state.name>> >>) = state
         /\ Counted(state) =>
              StateOfWords(<< <<state.name>>, <<state.percent>> >>) = state
<1>1. ASSUME Bare(state) PROVE StateOfWords(<< <<state.name>> >>) = state
  <2> DEFINE words == << <<state.name>> >>
  <2>1. Len(words) = 1 /\ words[1] = <<state.name>> /\ words[1][1] = state.name
    OBVIOUS
  <2>2. state.name \in StateName /\ state = StateOf(state.name)
    BY <1>1 DEF Bare
  <2> HIDE DEF words
  <2>3. StateOfWords(words) = StateOf(words[1][1])
    BY <2>1, <2>2 DEF StateOfWords
  <2> QED BY <2>1, <2>2, <2>3 DEF words
<1>2. ASSUME Counted(state)
      PROVE  StateOfWords(<< <<state.name>>, <<state.percent>> >>) = state
  <2> DEFINE words == << <<state.name>>, <<state.percent>> >>
  <2>1. /\ Len(words) = 2 /\ words[1] = <<state.name>>
        /\ words[2] = <<state.percent>> /\ words[2][1] = state.percent
    OBVIOUS
  <2>2. /\ state.name = "downloading" /\ Numeric(<<state.percent>>, 100)
        /\ state = Downloading(state.percent)
    BY <1>2 DEF Counted
  <2> HIDE DEF words
  <2>3. StateOfWords(words) = Downloading(words[2][1])
    BY <2>1, <2>2 DEF StateOfWords
  <2> QED BY <2>1, <2>2, <2>3 DEF words
<1> QED BY <1>1, <1>2

\* Frame::parse reads the state of a frame.
LEMMA StateParsed ==
  ASSUME NEW state \in State
  PROVE  ParseState(EncodeState(state)) = state
<1> DEFINE line == EncodeState(state)
<1>1. CASE Bare(state)
  <2>1. line \in Text /\ Len(line) = 1 /\ line[1] = state.name
    BY <1>1, EncodedState
  <2> HIDE DEF line
  <2>2. Words(line) = << <<state.name>> >>
    BY <2>1, OneWord, StatesAre
  <2> QED BY <1>1, <2>2, StateOfItsWords DEF ParseState, line
<1>2. CASE Counted(state)
  <2>1. state.percent \in Black
    BY <1>2, DigitsAre DEF Counted
  <2>2. Begins(line, state.name, state.percent) /\ Len(line) = 3
    BY <1>2, <2>1, EncodedState, StatesAre DEF Begins
  <2> HIDE DEF line
  <2>3. PICK p : Reads(p, line)
    BY <2>2, Reading DEF Begins
  <2>4. Words(line) = << <<state.name>>, <<state.percent>> >>
    BY <2>2, <2>3, TwoWords
  <2> QED BY <1>2, <2>4, StateOfItsWords DEF ParseState, line
<1> QED BY <1>1, <1>2, StatesAre

\* A report whose words are known up to where a count is.
Tells(words, m, state) ==
  /\ words \in Seq(Text) /\ m \in Nat /\ m >= 1 /\ m <= Len(words) /\ words[1] = <<"ok">>
  /\ \A n \in 1..m : words[n][1] # Count
  /\ StateOfWords(SubSeq(words, 2, m)) = state /\ state # Malformed

\* A count comes after them.
CountAfter(words, m, d) == Len(words) = m + 1 /\ words[m + 1] = <<Count, d>>

\* What StatusReport::parse makes of the words of a reply.
LEMMA ReportOfWords ==
  ASSUME NEW line, NEW m, NEW state, Tells(Words(line), m, state)
  PROVE  /\ Len(Words(line)) = m => ParseReport(line) = Report(state, Decimal[0])
         /\ \A d \in Digits : CountAfter(Words(line), m, d) => ParseReport(line) = Report(state, d)
<1> DEFINE words == Words(line)
           counts == {n \in DOMAIN words : words[n][1] = Count}
           first == IF counts = {} THEN Len(words) + 1 ELSE Min(counts)
<1>1. /\ words \in Seq(Text) /\ m \in Nat /\ m >= 1 /\ m <= Len(words) /\ words[1] = <<"ok">>
      /\ \A n \in 1..m : words[n][1] # Count
      /\ StateOfWords(SubSeq(words, 2, m)) = state /\ state # Malformed
  BY DEF Tells
<1>2. Len(words) \in Nat /\ DOMAIN words = 1..Len(words) /\ words # <<>>
  BY <1>1
<1>3. ParseReport(line)
        = CASE words = <<>> \/ words[1] # <<"ok">>
                 \/ StateOfWords(SubSeq(words, 2, first - 1)) = Malformed -> Malformed
            [] counts = {} -> Report(StateOfWords(SubSeq(words, 2, first - 1)), Decimal[0])
            [] /\ counts # {}
               /\ \A n \in counts : Numeric(Tail(words[n]), MaxNumber)
                 -> Report(StateOfWords(SubSeq(words, 2, first - 1)), words[Max(counts)][2])
            [] OTHER -> Malformed
  BY DEF ParseReport
<1>4. ASSUME Len(words) = m PROVE ParseReport(line) = Report(state, Decimal[0])
  <2>1. counts = {}
    BY <1>1, <1>2, <1>4
  <2>2. first - 1 = m
    BY <1>1, <1>4, <2>1
  <2> HIDE DEF words, counts, first
  <2> QED BY <1>1, <1>2, <1>3, <2>1, <2>2
<1>5. ASSUME NEW d \in Digits, CountAfter(words, m, d)
      PROVE  ParseReport(line) = Report(state, d)
  <2>0. Len(words) = m + 1 /\ words[m + 1] = <<Count, d>>
    BY <1>5 DEF CountAfter
  <2>1. words[m + 1][1] = Count /\ words[m + 1][2] = d /\ Tail(words[m + 1]) = <<d>>
    BY <2>0
  <2>2. counts = {m + 1}
    BY <1>1, <1>2, <2>0, <2>1
  <2>3. Min({m + 1}) = m + 1 /\ Max({m + 1}) = m + 1
    BY <1>1 DEF Min, Max
  <2>4. first - 1 = m /\ Max(counts) = m + 1 /\ counts # {}
    <3> HIDE DEF counts
    <3>1. counts # {} /\ Max(counts) = m + 1
      BY <2>2, <2>3
    <3>2. first = m + 1
      BY <2>2, <2>3, <3>1
    <3> HIDE DEF first
    <3> QED BY <1>1, <3>1, <3>2
  <2>5. \A n \in counts : Numeric(Tail(words[n]), MaxNumber)
    BY <2>1, <2>2, DigitsAre
  <2> HIDE DEF words, counts, first
  <2> QED BY <1>1, <1>2, <1>3, <2>1, <2>4, <2>5
<1> QED BY <1>4, <1>5

\* The words of a reply tell its state.
LEMMA ReplyTells ==
  ASSUME NEW words \in Seq(Text), NEW state \in State, Len(words) >= 2,
         words[1] = <<"ok">>, words[2] = <<state.name>>
  PROVE  /\ Bare(state) => Tells(words, 2, state)
         /\ Counted(state) /\ Len(words) >= 3 /\ words[3] = <<state.percent>>
              => Tells(words, 3, state)
<1>1. words[1][1] # Count /\ words[2][1] # Count /\ state # Malformed
  <2>1. state.name # Count /\ state # Malformed /\ "ok" # Count
    BY StatesAre DEF Count
  <2> QED BY <2>1
<1>2. Len(words) \in Nat /\ \A i \in 1..Len(words) : words[i] \in Text
  OBVIOUS
<1>3. SubSeq(words, 2, 2) = << words[2] >>
  <2> DEFINE t == SubSeq(words, 2, 2)
             u == << words[2] >>
  <2>1. t \in Seq(Text) /\ Len(t) = 1 /\ t[1] = words[2]
    <3>1. \A i \in 2..2 : words[i] \in Text
      BY <1>2
    <3>2. /\ t \in Seq(Text) /\ Len(t) = IF 2 <= 2 THEN 2 - 2 + 1 ELSE 0
          /\ \A i \in 1..(2 - 2 + 1) : t[i] = words[2 + i - 1]
      BY <3>1, SubSeqProperties
    <3> QED BY <3>2
  <2>2. u \in Seq(Text) /\ Len(u) = 1 /\ u[1] = words[2]
    BY <1>2
  <2> HIDE DEF t, u
  <2>3. \A i \in 1..Len(t) : t[i] = u[i]
    BY <2>1, <2>2
  <2>4. t = u
    BY <2>1, <2>2, <2>3, SeqEqual
  <2> QED BY <2>4 DEF t, u
<1>4. ASSUME Len(words) >= 3 PROVE SubSeq(words, 2, 3) = << words[2], words[3] >>
  <2> DEFINE t == SubSeq(words, 2, 3)
             u == << words[2], words[3] >>
  <2>1. t \in Seq(Text) /\ Len(t) = 2 /\ t[1] = words[2] /\ t[2] = words[3]
    <3>1. \A i \in 2..3 : words[i] \in Text
      BY <1>2, <1>4
    <3>2. /\ t \in Seq(Text) /\ Len(t) = IF 2 <= 3 THEN 3 - 2 + 1 ELSE 0
          /\ \A i \in 1..(3 - 2 + 1) : t[i] = words[2 + i - 1]
      BY <3>1, SubSeqProperties
    <3> QED BY <3>2
  <2>2. u \in Seq(Text) /\ Len(u) = 2 /\ u[1] = words[2] /\ u[2] = words[3]
    BY <1>2, <1>4
  <2> HIDE DEF t, u
  <2>3. \A i \in 1..Len(t) : t[i] = u[i]
    BY <2>1, <2>2
  <2>4. t = u
    BY <2>1, <2>2, <2>3, SeqEqual
  <2> QED BY <2>4 DEF t, u
<1>5. ASSUME Bare(state) PROVE Tells(words, 2, state)
  <2>1. StateOfWords(<< <<state.name>> >>) = state
    BY <1>5, StateOfItsWords
  <2>2. StateOfWords(SubSeq(words, 2, 2)) = state
    BY <1>3, <2>1
  <2>3. \A n \in 1..2 : words[n][1] # Count
    BY <1>1
  <2> QED BY <1>1, <1>2, <2>2, <2>3 DEF Tells
<1>6. ASSUME Counted(state), Len(words) >= 3, words[3] = <<state.percent>>
      PROVE  Tells(words, 3, state)
  <2>1. StateOfWords(<< <<state.name>>, <<state.percent>> >>) = state
    BY <1>6, StateOfItsWords
  <2>2. StateOfWords(SubSeq(words, 2, 3)) = state
    BY <1>4, <1>6, <2>1
  <2>3. words[3][1] # Count
    BY <1>6, DigitsAre DEF Counted
  <2>4. \A n \in 1..3 : words[n][1] # Count
    BY <1>1, <2>3
  <2> QED BY <1>1, <1>2, <1>6, <2>2, <2>4 DEF Tells
<1> QED BY <1>5, <1>6

\* StatusReport::parse reads the reply of a daemon that tells no count.
LEMMA OkParsed ==
  ASSUME NEW state \in State
  PROVE  /\ EncodeOk(state) \in Text /\ EncodeOk(state)[1] = "ok"
         /\ ParseReport(EncodeOk(state)) = Report(state, Decimal[0])
<1> DEFINE line == EncodeOk(state)
           code == EncodeState(state)
<1>1. "ok" \in Black /\ "ok" \in Symbol /\ Blank \in Symbol /\ state.name \in Black
  <2>1. "ok" \in Symbol /\ Blank \in Symbol
    BY DEF Symbol, Keyword, White
  <2>2. "ok" \notin White
    BY DEF White, Blank, Break
  <2> QED BY <2>1, <2>2, StatesAre DEF Black
<1>2. /\ line \in Text /\ Len(line) = 2 + Len(code) /\ line[1] = "ok" /\ line[2] = Blank
      /\ Len(code) \in Nat /\ \A i \in 1..Len(code) : line[2 + i] = code[i]
  BY <1>1, EncodedState, Prefixed DEF EncodeOk
<1> HIDE DEF line, code
<1>3. Words(line) \in Seq(Text)
  BY <1>2, WordsTyped
<1>4. PICK p : Reads(p, line)
  BY <1>2, Reading
<1>7. /\ line \in Text /\ line[1] = "ok" /\ line[2] = Blank
      /\ "ok" \in Black /\ state.name \in Black
  BY <1>1, <1>2
<1>5. CASE Bare(state)
  <2>1. Len(code) = 1 /\ code[1] = state.name
    BY <1>5, EncodedState DEF code
  <2>2. Len(line) = 3 /\ line[3] = state.name
    BY <1>2, <2>1
  <2>3. Begins(line, "ok", state.name)
    BY <1>7, <2>2 DEF Begins
  <2>4. Words(line) = << <<"ok">>, <<state.name>> >>
    BY <1>4, <2>2, <2>3, TwoWords
  <2>5. /\ Len(Words(line)) = 2 /\ Words(line)[1] = <<"ok">>
        /\ Words(line)[2] = <<state.name>>
    BY <2>4
  <2>6. Tells(Words(line), 2, state)
    BY <1>3, <1>5, <2>5, ReplyTells
  <2> QED BY <1>2, <2>5, <2>6, ReportOfWords DEF line
<1>6. CASE Counted(state)
  <2>1. /\ Len(code) = 3 /\ code[1] = state.name /\ code[2] = Blank
        /\ code[3] = state.percent /\ state.percent \in Black
    BY <1>6, EncodedState, DigitsAre DEF code, Counted
  <2>2. Len(line) = 5 /\ line[3] = state.name /\ line[4] = Blank /\ line[5] = state.percent
    BY <1>2, <2>1
  <2>3. Begins(line, "ok", state.name)
    BY <1>7, <2>2 DEF Begins
  <2>4. Words(line) = << <<"ok">>, <<state.name>>, <<state.percent>> >>
    <3>1. Len(line) >= 5 /\ state.percent \in Black
      BY <2>1, <2>2
    <3> QED BY <1>4, <2>2, <2>3, <3>1, ThreeWords
  <2>5. /\ Len(Words(line)) = 3 /\ Words(line)[1] = <<"ok">>
        /\ Words(line)[2] = <<state.name>> /\ Words(line)[3] = <<state.percent>>
    BY <2>4
  <2>6. Tells(Words(line), 3, state)
    BY <1>3, <1>6, <2>5, ReplyTells
  <2> QED BY <1>2, <2>5, <2>6, ReportOfWords DEF line
<1> QED BY <1>5, <1>6, StatesAre

\* StatusReport::parse reads the reply of a daemon that tells a count.
THEOREM ReportParsed ==
  ASSUME NEW state \in State, NEW d \in Digits
  PROVE  /\ EncodeReport(Report(state, d)) \in Text
         /\ EncodeReport(Report(state, d))[1] = "ok"
         /\ ParseReport(EncodeReport(Report(state, d))) = Report(state, d)
<1> DEFINE ok == EncodeOk(state)
           code == EncodeState(state)
           count == <<Blank, Count, d>>
           line == ok \o count
<1>1. /\ "ok" \in Black /\ "ok" \in Symbol /\ Blank \in Symbol /\ state.name \in Black
      /\ Count \in Black /\ d \in Black
  <2>1. "ok" \in Symbol /\ Blank \in Symbol /\ Count \in Symbol
    BY DEF Symbol, Keyword, White
  <2>2. "ok" \notin White /\ Count \notin White
    BY DEF White, Blank, Break, Count
  <2> QED BY <2>1, <2>2, StatesAre, DigitsAre DEF Black
<1>2. /\ ok \in Text /\ Len(ok) = 2 + Len(code) /\ ok[1] = "ok" /\ ok[2] = Blank
      /\ Len(code) \in Nat /\ \A i \in 1..Len(code) : ok[2 + i] = code[i]
  BY <1>1, EncodedState, Prefixed DEF EncodeOk
<1>3. /\ count \in Seq(Symbol) /\ Len(count) = 3
      /\ count[1] = Blank /\ count[2] = Count /\ count[3] = d
  <2>1. Blank \in Symbol /\ Count \in Symbol /\ d \in Symbol
    BY <1>1 DEF Black
  <2> QED BY <2>1
<1>4. EncodeReport(Report(state, d)) = line
  BY DEF EncodeReport, EncodeOk, Report
<1> HIDE DEF ok, code, count
<1>5. /\ line \in Text /\ Len(line) = Len(ok) + 3
      /\ \A i \in 1..(Len(ok) + 3) : line[i] = IF i <= Len(ok) THEN ok[i] ELSE count[i - Len(ok)]
  <2>1. ok \in Seq(Symbol)
    BY <1>2 DEF Text
  <2>2. /\ line \in Seq(Symbol) /\ Len(line) = Len(ok) + Len(count)
        /\ \A i \in 1..(Len(ok) + Len(count)) :
             line[i] = IF i <= Len(ok) THEN ok[i] ELSE count[i - Len(ok)]
    BY <1>3, <2>1, ConcatProperties
  <2> QED BY <1>3, <2>2 DEF Text
<1> HIDE DEF line
<1>6. Words(line) \in Seq(Text)
  BY <1>5, WordsTyped
<1>7. line \in Text /\ line[1] = "ok" /\ line[2] = Blank
  BY <1>2, <1>5
<1>8. CASE Bare(state)
  <2>1. Len(code) = 1 /\ code[1] = state.name
    BY <1>8, EncodedState DEF code
  <2>2. Len(ok) = 3 /\ ok[3] = state.name
    BY <1>2, <2>1
  <2>3. Len(line) = 6 /\ line[3] = state.name
    BY <1>5, <2>2
  <2>4. line[4] = Blank /\ line[5] = Count /\ line[6] = d
    BY <1>3, <1>5, <2>2
  <2>5. Begins(line, "ok", state.name)
    BY <1>1, <1>7, <2>3 DEF Begins
  <2>6. Words(line) = << <<"ok">>, <<state.name>>, <<Count, d>> >>
    BY <1>1, <2>3, <2>4, <2>5, CountedWords
  <2>7. /\ Len(Words(line)) = 3 /\ Words(line)[1] = <<"ok">>
        /\ Words(line)[2] = <<state.name>> /\ CountAfter(Words(line), 2, d)
    BY <2>6 DEF CountAfter
  <2>8. Tells(Words(line), 2, state)
    BY <1>6, <1>8, <2>7, ReplyTells
  <2>9. ParseReport(line) = Report(state, d)
    BY <2>7, <2>8, ReportOfWords
  <2> QED BY <1>4, <1>7, <2>9
<1>9. CASE Counted(state)
  <2>1. /\ Len(code) = 3 /\ code[1] = state.name /\ code[2] = Blank
        /\ code[3] = state.percent /\ state.percent \in Black
    BY <1>9, EncodedState, DigitsAre DEF code, Counted
  <2>2. Len(ok) = 5 /\ ok[3] = state.name /\ ok[4] = Blank /\ ok[5] = state.percent
    BY <1>2, <2>1
  <2>3. Len(line) = 8 /\ line[3] = state.name /\ line[4] = Blank /\ line[5] = state.percent
    BY <1>5, <2>2
  <2>4. line[6] = Blank /\ line[7] = Count /\ line[8] = d
    BY <1>3, <1>5, <2>2
  <2>5. Begins(line, "ok", state.name)
    BY <1>1, <1>7, <2>3 DEF Begins
  <2>6. Words(line) = << <<"ok">>, <<state.name>>, <<state.percent>>, <<Count, d>> >>
    BY <1>1, <2>1, <2>3, <2>4, <2>5, CountedWords
  <2>7. /\ Len(Words(line)) = 4 /\ Words(line)[1] = <<"ok">>
        /\ Words(line)[2] = <<state.name>> /\ Words(line)[3] = <<state.percent>>
        /\ CountAfter(Words(line), 3, d)
    BY <2>6 DEF CountAfter
  <2>8. Tells(Words(line), 3, state)
    <3>1. Len(Words(line)) >= 2 /\ Len(Words(line)) >= 3
      BY <2>7
    <3> QED BY <1>6, <1>9, <2>7, <3>1, ReplyTells
  <2>9. ParseReport(line) = Report(state, d)
    BY <2>7, <2>8, ReportOfWords
  <2> QED BY <1>4, <1>7, <2>9
<1> QED BY <1>8, <1>9, StatesAre

\* trim of the lines a client asks with.
LEMMA TrimmedIs ==
  ASSUME NEW text \in Text
  PROVE  /\ text = <<>> => Trimmed(text) = <<>>
         /\ Len(text) = 1 /\ text[1] \in Black => Trimmed(text) = text
         /\ Len(text) = 2 /\ text[1] = Blank /\ text[2] \in Black
              => Trimmed(text) = << text[2] >>
         /\ Len(text) = 3 /\ text[1] \in Black /\ text[2] = Blank /\ text[3] \in Black
              => Trimmed(text) = text
<1> DEFINE black == {i \in DOMAIN text : text[i] \notin White}
<1>1. /\ Trimmed(text) = IF black = {} THEN <<>> ELSE SubSeq(text, Min(black), Max(black))
      /\ DOMAIN text = 1..Len(text) /\ text \in Seq(Symbol) /\ Blank \in White
  BY DEF Trimmed, Text, White
<1>2. ASSUME text = <<>> PROVE Trimmed(text) = <<>>
  <2>1. black = {}
    BY <1>2
  <2> QED BY <1>1, <2>1
<1>3. ASSUME Len(text) = 1, text[1] \in Black PROVE Trimmed(text) = text
  <2>1. black = {1}
    BY <1>1, <1>3 DEF Black
  <2>2. Min({1}) = 1 /\ Max({1}) = 1
    BY DEF Min, Max
  <2>3. Trimmed(text) = SubSeq(text, 1, Len(text))
    BY <1>1, <1>3, <2>1, <2>2
  <2> QED BY <1>1, <2>3, SubSeqFull
<1>4. ASSUME Len(text) = 2, text[1] = Blank, text[2] \in Black
      PROVE  Trimmed(text) = << text[2] >>
  <2>1. black = {2}
    BY <1>1, <1>4 DEF Black
  <2>2. Min({2}) = 2 /\ Max({2}) = 2
    BY DEF Min, Max
  <2>3. Trimmed(text) = SubSeq(text, 2, 2)
    BY <1>1, <2>1, <2>2
  <2> DEFINE t == SubSeq(text, 2, 2)
             u == << text[2] >>
  <2>4. t \in Text /\ Len(t) = 1 /\ t[1] = text[2]
    <3>1. \A i \in 2..2 : text[i] \in Symbol
      BY <1>4 DEF Black
    <3>2. /\ t \in Seq(Symbol) /\ Len(t) = IF 2 <= 2 THEN 2 - 2 + 1 ELSE 0
          /\ \A i \in 1..(2 - 2 + 1) : t[i] = text[2 + i - 1]
      BY <3>1, SubSeqProperties
    <3> QED BY <3>2 DEF Text
  <2>5. u \in Text /\ Len(u) = 1 /\ u[1] = text[2]
    <3>1. text[2] \in Symbol
      BY <1>4 DEF Black
    <3> QED BY <3>1 DEF Text
  <2> HIDE DEF t, u
  <2>6. \A i \in 1..Len(t) : t[i] = u[i]
    BY <2>4, <2>5
  <2>7. t = u
    BY <2>4, <2>5, <2>6, SeqEqual DEF Text
  <2> QED BY <2>3, <2>7 DEF t, u
<1>5. ASSUME Len(text) = 3, text[1] \in Black, text[2] = Blank, text[3] \in Black
      PROVE  Trimmed(text) = text
  <2>1. black = {1, 3}
    BY <1>1, <1>5 DEF Black
  <2>2. Min({1, 3}) = 1 /\ Max({1, 3}) = 3
    BY DEF Min, Max
  <2>3. Trimmed(text) = SubSeq(text, 1, Len(text))
    BY <1>1, <1>5, <2>1, <2>2
  <2> QED BY <1>1, <2>3, SubSeqFull
<1> QED BY <1>2, <1>3, <1>4, <1>5

\* Command::parse reads a line of one word and the registration of a version.
LEMMA LinesParsed ==
  /\ \A w \in Word : ParseCommand(<<w>>) = Command(w)
  /\ ParseCommand(<<"register-sink">>) = RegisterSink(Legacy)
  /\ \A v \in Digits : ParseCommand(<<"register-sink", Blank, v>>) = RegisterSink(v)
<1> DEFINE sink == "register-sink"
<1>1. /\ sink \in Black /\ Blank \in Symbol /\ \A w \in Word : w \in Black
      /\ sink \notin Word
  <2>1. sink \in Symbol /\ Blank \in Symbol /\ \A w \in Word : w \in Symbol
    BY DEF Symbol, Keyword, White
  <2>2. sink \notin White /\ sink \notin Word /\ \A w \in Word : w \notin White
    BY DEF White, Blank, Break, Word
  <2> QED BY <2>1, <2>2 DEF Black
<1> HIDE DEF sink
<1>2. ASSUME NEW w \in Black
      PROVE  Trimmed(<<w>>) = <<w>> /\ Trimmed(After(<<w>>, <<sink>>)) = <<>>
  <2> DEFINE s == <<w>>
  <2>1. s \in Text /\ Len(s) = 1 /\ s[1] = w
    BY DEF Black, Text
  <2>2. Len(<<sink>>) = 1
    OBVIOUS
  <2> HIDE DEF s
  <2>3. Trimmed(s) = s
    BY <2>1, TrimmedIs
  <2>4. After(s, <<sink>>) = <<>>
    <3>1. After(s, <<sink>>) = SubSeq(s, 2, 1)
      BY <2>1, <2>2 DEF After
    <3> QED BY <3>1, SubSeqEmpty
  <2>5. <<>> \in Text
    BY DEF Text
  <2>6. Trimmed(After(s, <<sink>>)) = <<>>
    BY <2>4, <2>5, TrimmedIs
  <2> QED BY <2>3, <2>6 DEF s
<1>3. ASSUME NEW w \in Word PROVE ParseCommand(<<w>>) = Command(w)
  <2>1. Trimmed(<<w>>) = <<w>> /\ Trimmed(After(<<w>>, <<sink>>)) = <<>>
    BY <1>1, <1>2
  <2>2. <<w>> # <<>> /\ <<w>>[1] = w /\ Len(<<w>>) = 1 /\ w # "register-sink"
    BY <1>1 DEF sink
  <2> QED BY <2>1, <2>2 DEF ParseCommand, sink
<1>4. ParseCommand(<<sink>>) = RegisterSink(Legacy)
  <2>1. Trimmed(<<sink>>) = <<sink>> /\ Trimmed(After(<<sink>>, <<sink>>)) = <<>>
    BY <1>1, <1>2
  <2> DEFINE s == <<sink>>
  <2>2. s # <<>> /\ s[1] = sink
    OBVIOUS
  <2> HIDE DEF s
  <2>3. Trimmed(s) = s /\ Trimmed(After(s, <<"register-sink">>)) = <<>>
    BY <2>1 DEF s, sink
  <2>4. ~Numeric(<<>>, MaxNumber)
    <3>1. \A x : <<>> # <<x>>
      OBVIOUS
    <3> QED BY <3>1 DEF Numeric
  <2>5. s[1] = "register-sink" /\ s[1] \notin Word
    BY <1>1, <2>2 DEF sink
  <2>6. ParseCommand(s) = RegisterSink(Legacy)
    BY <2>2, <2>3, <2>4, <2>5 DEF ParseCommand
  <2> QED BY <2>6 DEF s
<1>5. ASSUME NEW v \in Digits PROVE ParseCommand(<<sink, Blank, v>>) = RegisterSink(v)
  <2> DEFINE s == <<sink, Blank, v>>
             r == SubSeq(s, 2, 3)
  <2>1. v \in Black /\ Numeric(<<v>>, MaxNumber)
    BY DigitsAre
  <2>2. s \in Text /\ Len(s) = 3 /\ s[1] = sink /\ s[2] = Blank /\ s[3] = v
    BY <1>1, <2>1 DEF Black, Text
  <2>3. Len(<<sink>>) = 1
    OBVIOUS
  <2> HIDE DEF s
  <2>4. Trimmed(s) = s /\ s # <<>>
    BY <1>1, <2>1, <2>2, TrimmedIs
  <2>5. After(s, <<sink>>) = r
    BY <2>2, <2>3 DEF After
  <2>6. r \in Text /\ Len(r) = 2 /\ r[1] = Blank /\ r[2] = v
    <3>1. \A i \in 2..3 : s[i] \in Symbol
      BY <1>1, <2>1, <2>2 DEF Black
    <3>2. /\ r \in Seq(Symbol) /\ Len(r) = IF 2 <= 3 THEN 3 - 2 + 1 ELSE 0
          /\ \A i \in 1..(3 - 2 + 1) : r[i] = s[2 + i - 1]
      BY <3>1, SubSeqProperties
    <3> QED BY <2>2, <3>2 DEF Text
  <2> HIDE DEF r
  <2>7. Trimmed(After(s, <<sink>>)) = <<v>>
    BY <2>1, <2>5, <2>6, TrimmedIs
  <2>8. <<v>> # <<>> /\ <<v>>[1] = v
    OBVIOUS
  <2>9. ParseCommand(s) = RegisterSink(<<v>>[1])
    BY <2>1, <2>2, <2>4, <2>7, <2>8 DEF ParseCommand, sink
  <2> QED BY <2>8, <2>9 DEF s
<1> QED BY <1>3, <1>4, <1>5 DEF sink

\* Lines that are one line.
Single == {line \in Text : \A i \in 1..Len(line) : line[i] # Break}

\* Short lines without a line break.
LEMMA SingleTuples ==
  ASSUME NEW S, S = Symbol \ {Break}
  PROVE  /\ \A a \in S : <<a>> \in Single
         /\ \A a, b \in S : <<a, b>> \in Single
         /\ \A a, b, c \in S : <<a, b, c>> \in Single
<1>1. ASSUME NEW a \in S PROVE <<a>> \in Single
  <2> DEFINE s == <<a>>
  <2>1. s \in Seq(Symbol) /\ Len(s) = 1 /\ s[1] = a
    OBVIOUS
  <2> HIDE DEF s
  <2>2. \A i \in 1..Len(s) : s[i] # Break
    BY <2>1
  <2> QED BY <2>1, <2>2 DEF Single, Text, s
<1>2. ASSUME NEW a \in S, NEW b \in S PROVE <<a, b>> \in Single
  <2> DEFINE s == <<a, b>>
  <2>1. s \in Seq(Symbol) /\ Len(s) = 2 /\ s[1] = a /\ s[2] = b
    OBVIOUS
  <2> HIDE DEF s
  <2>2. \A i \in 1..Len(s) : s[i] # Break
    BY <2>1
  <2> QED BY <2>1, <2>2 DEF Single, Text, s
<1>3. ASSUME NEW a \in S, NEW b \in S, NEW c \in S PROVE <<a, b, c>> \in Single
  <2> DEFINE s == <<a, b, c>>
  <2>1. s \in Seq(Symbol) /\ Len(s) = 3 /\ s[1] = a /\ s[2] = b /\ s[3] = c
    OBVIOUS
  <2> HIDE DEF s
  <2>2. \A i \in 1..Len(s) : s[i] # Break
    BY <2>1
  <2> QED BY <2>1, <2>2 DEF Single, Text, s
<1> QED BY <1>1, <1>2, <1>3

\* Lines without a line break, one after the other, have none either.
LEMMA SingleJoins ==
  ASSUME NEW x \in Single, NEW y \in Single
  PROVE  x \o y \in Single
<1>1. x \in Seq(Symbol) /\ y \in Seq(Symbol) /\ Len(x) \in Nat /\ Len(y) \in Nat
  BY DEF Single, Text
<1>2. /\ x \o y \in Seq(Symbol) /\ Len(x \o y) = Len(x) + Len(y)
      /\ \A i \in 1..(Len(x) + Len(y)) :
           (x \o y)[i] = IF i <= Len(x) THEN x[i] ELSE y[i - Len(x)]
  BY <1>1, ConcatProperties
<1>3. ASSUME NEW i \in 1..(Len(x) + Len(y)) PROVE (x \o y)[i] # Break
  <2>1. CASE i <= Len(x)
    <3>1. i \in 1..Len(x)
      BY <1>1, <2>1
    <3> QED BY <1>2, <2>1, <3>1 DEF Single
  <2>2. CASE ~(i <= Len(x))
    <3>1. i - Len(x) \in 1..Len(y)
      BY <1>1, <2>2
    <3> QED BY <1>2, <2>2, <3>1 DEF Single
  <2> QED BY <2>1, <2>2
<1> QED BY <1>2, <1>3 DEF Single, Text

\* Every command, state and reply is written on one line.
LEMMA OneLine ==
  /\ \A state \in State : EncodeState(state) \in Single
  /\ \A state \in State : EncodeOk(state) \in Single
  /\ \A state \in State, d \in Digits : EncodeReport(Report(state, d)) \in Single
  /\ \A w \in Word : <<w>> \in Single
  /\ <<"register-sink">> \in Single
  /\ \A v \in Digits : <<"register-sink", Blank, v>> \in Single
  /\ \A k \in {"transcript", "finalize", "live-edit", "state", "ok", "err"} :
       <<k, Blank>> \in Single
<1> DEFINE S == Symbol \ {Break}
           Kinds == {"transcript", "finalize", "live-edit", "state", "ok", "err"}
<1>1. Black \subseteq S
  BY DEF Black, White
<1>2. /\ Blank \in S /\ Count \in S /\ "register-sink" \in S /\ "ok" \in S
      /\ \A w \in Word : w \in S
      /\ \A k \in Kinds : k \in S
  <2>1. /\ Blank \in Symbol /\ Count \in Symbol /\ "register-sink" \in Symbol
        /\ "ok" \in Symbol
        /\ \A w \in Word : w \in Symbol
        /\ \A k \in Kinds : k \in Symbol
    BY DEF Symbol, Keyword, White
  <2>2. /\ Blank # Break /\ Count # Break /\ "register-sink" # Break /\ "ok" # Break
        /\ \A w \in Word : w # Break
        /\ \A k \in Kinds : k # Break
    BY DEF Blank, Break, Count, Word
  <2> HIDE DEF Kinds
  <2> QED BY <2>1, <2>2
<1>3. \A d \in Digits : d \in S
  BY <1>1, DigitsAre
<1> HIDE DEF S, Kinds
<1>4. /\ \A a \in S : <<a>> \in Single
      /\ \A a, b \in S : <<a, b>> \in Single
      /\ \A a, b, c \in S : <<a, b, c>> \in Single
  BY SingleTuples DEF S
<1>5. ASSUME NEW state \in State PROVE EncodeState(state) \in Single
  <2>1. state.name \in S
    BY <1>1, StatesAre
  <2>2. CASE Bare(state)
    BY <1>4, <2>1, <2>2 DEF Bare
  <2>3. CASE Counted(state)
    <3>1. state.percent \in S
      BY <1>3, <2>3 DEF Counted
    <3> QED BY <1>2, <1>4, <2>1, <2>3, <3>1 DEF Counted
  <2> QED BY <2>2, <2>3, StatesAre
<1>6. ASSUME NEW state \in State PROVE EncodeOk(state) \in Single
  <2>1. <<"ok", Blank>> \in Single
    BY <1>2, <1>4
  <2> QED BY <1>5, <2>1, SingleJoins DEF EncodeOk
<1>7. ASSUME NEW state \in State, NEW d \in Digits
      PROVE  EncodeReport(Report(state, d)) \in Single
  <2>1. <<Blank, Count, d>> \in Single
    BY <1>2, <1>3, <1>4
  <2>2. EncodeReport(Report(state, d)) = EncodeOk(state) \o <<Blank, Count, d>>
    BY DEF EncodeReport, EncodeOk, Report
  <2> QED BY <1>6, <2>1, <2>2, SingleJoins
<1> QED BY <1>2, <1>3, <1>4, <1>5, <1>6, <1>7 DEF Kinds

\* A command is written on one line and read as it was meant.
THEOREM CommandParsed ==
  ASSUME NEW command \in Commands
  PROVE  /\ EncodeCommand(command) \in Single
         /\ ParseCommand(EncodeCommand(command)) = command
<1>1. CASE \E w \in Word : command = Command(w)
  <2>1. PICK w \in Word : command = Command(w)
    BY <1>1
  <2>2. EncodeCommand(command) = <<w>>
    <3>1. command.command = w /\ w # "register-sink"
      BY <2>1 DEF Command, Word
    <3>2. RegisterSink(Legacy).command = "register-sink"
      BY DEF RegisterSink
    <3>3. command # RegisterSink(Legacy)
      BY <3>1, <3>2
    <3> QED BY <3>1, <3>3 DEF EncodeCommand
  <2> QED BY <2>1, <2>2, LinesParsed, OneLine
<1>2. CASE \E v \in Versions : command = RegisterSink(v)
  <2>1. PICK v \in Versions : command = RegisterSink(v)
    BY <1>2
  <2>2. v = Legacy \/ v \in Digits
    BY WireAssumption
  <2>3. command.command = "register-sink" /\ command.command \notin Word /\ command.version = v
    BY <2>1 DEF RegisterSink, Word
  <2>4. CASE v = Legacy
    <3>1. EncodeCommand(command) = <<"register-sink">>
      BY <2>1, <2>3, <2>4 DEF EncodeCommand
    <3> QED BY <2>1, <2>4, <3>1, LinesParsed, OneLine
  <2>5. CASE v # Legacy
    <3>1. command # RegisterSink(Legacy)
      BY <2>3, <2>5 DEF RegisterSink
    <3>2. EncodeCommand(command) = <<"register-sink", Blank, v>>
      BY <2>3, <3>1 DEF EncodeCommand
    <3> QED BY <2>1, <2>2, <2>5, <3>2, LinesParsed, OneLine
  <2> QED BY <2>4, <2>5
<1> QED BY <1>1, <1>2 DEF Commands

\* A transcript, an edit and a state are read as they were meant.
THEOREM FrameParsed ==
  /\ \A kind \in {"transcript", "finalize"}, text \in Text :
       ParseFrame(EncodeFrame(Frame(kind, text))) = Frame(kind, text)
  /\ \A committed, tail \in Seq(STRING \ {Unit, Break}) :
       ParseFrame(EncodeFrame(Edit(committed, tail))) = Edit(committed, tail)
  /\ \A state \in State : ParseFrame(EncodeFrame(Pushed(state))) = Pushed(state)
<1> DEFINE Kinds == {"transcript", "finalize", "live-edit", "state"}
<1>1. Blank \in Symbol /\ Unit \in Symbol /\ \A k \in Kinds : k \in Symbol
  BY DEF Symbol, Keyword, White
<1>2. ASSUME NEW k \in Kinds, NEW x \in Text
      PROVE  /\ ~(Len(<<k, Blank>> \o x) < 2 \/ (<<k, Blank>> \o x)[2] # Blank)
             /\ (<<k, Blank>> \o x)[1] = k
             /\ SubSeq(<<k, Blank>> \o x, 3, Len(<<k, Blank>> \o x)) = x
  <2>1. k \in Symbol
    BY <1>1
  <2> HIDE DEF Kinds
  <2> QED BY <1>1, <2>1, Prefixed
<1>3. ASSUME NEW kind \in {"transcript", "finalize"}, NEW text \in Text
      PROVE  ParseFrame(EncodeFrame(Frame(kind, text))) = Frame(kind, text)
  <2> DEFINE line == <<kind, Blank>> \o text
  <2>1. EncodeFrame(Frame(kind, text)) = line
    BY DEF EncodeFrame, Frame
  <2>2. /\ ~(Len(line) < 2 \/ line[2] # Blank) /\ line[1] = kind
        /\ SubSeq(line, 3, Len(line)) = text
    BY <1>2
  <2> HIDE DEF line
  <2>3. ParseFrame(line) = Frame(kind, text)
    BY <2>2 DEF ParseFrame
  <2> QED BY <2>1, <2>3
<1>4. ASSUME NEW state \in State
      PROVE  ParseFrame(EncodeFrame(Pushed(state))) = Pushed(state)
  <2> DEFINE code == EncodeState(state)
             line == <<"state", Blank>> \o code
  <2>1. EncodeFrame(Pushed(state)) = line
    BY DEF EncodeFrame, Pushed
  <2>2. code \in Text /\ ParseState(code) = state /\ state # Malformed
    BY EncodedState, StateParsed, StatesAre
  <2> HIDE DEF code
  <2>3. /\ ~(Len(line) < 2 \/ line[2] # Blank) /\ line[1] = "state"
        /\ SubSeq(line, 3, Len(line)) = code
    BY <1>2, <2>2
  <2> HIDE DEF line
  <2>4. ParseFrame(line) = Pushed(state)
    BY <2>2, <2>3 DEF ParseFrame
  <2> QED BY <2>1, <2>4
<1>5. ASSUME NEW committed \in Seq(STRING \ {Unit, Break}), NEW tail \in Seq(STRING \ {Unit, Break})
      PROVE  ParseFrame(EncodeFrame(Edit(committed, tail))) = Edit(committed, tail)
  <2> DEFINE middle == <<Unit>>
             front == committed \o middle
             rest == front \o tail
             line == <<"live-edit", Blank>> \o rest
             n == Len(committed)
  <2>1. /\ committed \in Seq(Symbol) /\ tail \in Seq(Symbol) /\ n \in Nat /\ Len(tail) \in Nat
        /\ \A i \in 1..n : committed[i] # Unit
    BY DEF Symbol
  <2>2. middle \in Seq(Symbol) /\ Len(middle) = 1 /\ middle[1] = Unit
    BY <1>1
  <2> HIDE DEF middle
  <2>3. /\ front \in Seq(Symbol) /\ Len(front) = n + 1 /\ front[n + 1] = Unit
        /\ \A i \in 1..n : front[i] = committed[i]
    <3>1. /\ front \in Seq(Symbol) /\ Len(front) = n + Len(middle)
          /\ \A i \in 1..(n + Len(middle)) :
               front[i] = IF i <= n THEN committed[i] ELSE middle[i - n]
      BY <2>1, <2>2, ConcatProperties
    <3> HIDE DEF front
    <3>2. n + 1 \in 1..(n + Len(middle)) /\ ~(n + 1 <= n) /\ (n + 1) - n = 1
      BY <2>1, <2>2
    <3>3. front[n + 1] = Unit
      BY <2>2, <3>1, <3>2
    <3> QED BY <2>1, <2>2, <3>1, <3>3
  <2> HIDE DEF front
  <2>4. /\ rest \in Text /\ Len(rest) = n + 1 + Len(tail) /\ rest[n + 1] = Unit
        /\ \A i \in 1..n : rest[i] = committed[i]
        /\ \A i \in 1..Len(tail) : rest[n + 1 + i] = tail[i]
    <3>1. /\ rest \in Seq(Symbol) /\ Len(rest) = Len(front) + Len(tail)
          /\ \A i \in 1..(Len(front) + Len(tail)) :
               rest[i] = IF i <= Len(front) THEN front[i] ELSE tail[i - Len(front)]
      BY <2>1, <2>3, ConcatProperties
    <3> HIDE DEF rest
    <3>2. ASSUME NEW i \in 1..Len(tail) PROVE rest[n + 1 + i] = tail[i]
      <4>1. n + 1 + i \in 1..(Len(front) + Len(tail)) /\ ~(n + 1 + i <= Len(front))
            /\ (n + 1 + i) - Len(front) = i
        BY <2>1, <2>3
      <4> QED BY <3>1, <4>1
    <3> QED BY <2>1, <2>3, <3>1, <3>2 DEF Text
  <2> HIDE DEF rest
  <2>5. /\ ~(Len(line) < 2 \/ line[2] # Blank) /\ line[1] = "live-edit"
        /\ SubSeq(line, 3, Len(line)) = rest
    BY <1>2, <2>4
  <2>6. EncodeFrame(Edit(committed, tail)) = line
    BY DEF EncodeFrame, Edit, rest, front, middle
  <2> DEFINE units == {i \in DOMAIN rest : rest[i] = Unit}
  <2>7. n + 1 \in units /\ \A i \in units : n + 1 <= i
    BY <2>1, <2>4 DEF Text
  <2>8. units # {} /\ Min(units) = n + 1
    <3>1. units \subseteq Int
      BY <2>4 DEF Text
    <3> HIDE DEF units, n
    <3> QED BY <2>7, <3>1, MinIs
  <2>9. SubSeq(rest, 1, (n + 1) - 1) = committed
    <3> DEFINE t == SubSeq(rest, 1, (n + 1) - 1)
    <3>1. \A i \in 1..((n + 1) - 1) : rest[i] \in Symbol
      BY <2>1, <2>4 DEF Text
    <3>2. /\ t \in Seq(Symbol)
          /\ Len(t) = IF 1 <= (n + 1) - 1 THEN ((n + 1) - 1) - 1 + 1 ELSE 0
          /\ \A i \in 1..(((n + 1) - 1) - 1 + 1) : t[i] = rest[1 + i - 1]
      <4>1. 1 \in Int /\ (n + 1) - 1 \in Int
        BY <2>1
      <4> QED BY <3>1, <4>1, SubSeqProperties
    <3> HIDE DEF t
    <3>3. Len(t) = n /\ \A i \in 1..Len(t) : t[i] = committed[i]
      BY <2>1, <2>4, <3>2
    <3>4. t = committed
      BY <2>1, <3>2, <3>3, SeqEqual
    <3> QED BY <3>4 DEF t
  <2>10. SubSeq(rest, (n + 1) + 1, Len(rest)) = tail
    <3> DEFINE m == (n + 1) + 1
               t == SubSeq(rest, m, Len(rest))
    <3>1. \A i \in m..Len(rest) : rest[i] \in Symbol
      BY <2>1, <2>4 DEF Text
    <3>2. /\ t \in Seq(Symbol)
          /\ Len(t) = IF m <= Len(rest) THEN Len(rest) - m + 1 ELSE 0
          /\ \A i \in 1..(Len(rest) - m + 1) : t[i] = rest[m + i - 1]
      <4>1. m \in Int /\ Len(rest) \in Int
        BY <2>1, <2>4
      <4> QED BY <3>1, <4>1, SubSeqProperties
    <3> HIDE DEF t
    <3>3. Len(t) = Len(tail)
      BY <2>1, <2>4, <3>2
    <3>4. ASSUME NEW i \in 1..Len(t) PROVE t[i] = tail[i]
      <4>1. i \in 1..(Len(rest) - m + 1) /\ m + i - 1 = n + 1 + i /\ i \in 1..Len(tail)
        BY <2>1, <2>4, <3>3
      <4> QED BY <2>4, <3>2, <4>1
    <3>5. t = tail
      BY <2>1, <3>2, <3>3, <3>4, SeqEqual
    <3> QED BY <3>5 DEF t
  <2> HIDE DEF line, n
  <2>11. ParseFrame(line) = Edit(committed, tail)
    <3> HIDE DEF units
    <3>1. ParseFrame(line)
            = CASE Len(line) < 2 \/ line[2] # Blank -> Malformed
                [] line[1] \in {"transcript", "finalize"} -> Frame(line[1], rest)
                [] line[1] = "live-edit" ->
                     Edit(SubSeq(rest, 1, (n + 1) - 1), SubSeq(rest, (n + 1) + 1, Len(rest)))
                [] line[1] = "state" /\ ParseState(rest) # Malformed ->
                     Pushed(ParseState(rest))
                [] OTHER -> Malformed
      BY <2>5, <2>8 DEF ParseFrame, units
    <3> QED BY <2>5, <2>9, <2>10, <3>1
  <2> QED BY <2>6, <2>11
<1> QED BY <1>3, <1>4, <1>5

\* A symbol is a text of its own.
LEMMA OneSymbol ==
  ASSUME NEW x \in Symbol
  PROVE  <<x>> \in Text /\ <<x>> \in Seq(Symbol) /\ Len(<<x>>) = 1 /\ <<x>>[1] = x
BY DEF Text

\* A refusal is written on one line, and a client of another version reads in it that
\* it is incompatible.
LEMMA RefusalLine ==
  ASSUME NEW m \in Symbol, m # Break
  PROVE  /\ EncodeErr(<<m>>) \in Single /\ Len(EncodeErr(<<m>>)) = 3
         /\ EncodeErr(<<m>>)[1] = "err" /\ EncodeErr(<<m>>)[2] = Blank
         /\ EncodeErr(<<m>>)[3] = m /\ SubSeq(EncodeErr(<<m>>), 3, 3) = <<m>>
<1> DEFINE tail == <<m>>
           err == "err"
           line == EncodeErr(tail)
<1>1. err \in Symbol /\ Blank \in Symbol
  BY DEF Symbol, Keyword, White
<1>2. tail \in Single /\ tail \in Text /\ Len(tail) = 1 /\ tail[1] = m
  BY SingleTuples, OneSymbol
<1>3. line = <<err, Blank>> \o tail
  BY DEF EncodeErr
<1>4. <<err, Blank>> \in Single
  BY OneLine
<1> HIDE DEF tail, err, line
<1>5. line \in Single
  BY <1>2, <1>3, <1>4, SingleJoins
<1>6. /\ Len(line) = 2 + Len(tail) /\ line[1] = err /\ line[2] = Blank
      /\ \A i \in 1..Len(tail) : line[2 + i] = tail[i]
      /\ SubSeq(line, 3, 2 + Len(tail)) = tail
  <2> DEFINE front == <<err, Blank>>
  <2>1. /\ Len(front \o tail) = 2 + Len(tail)
        /\ (front \o tail)[1] = err /\ (front \o tail)[2] = Blank
        /\ \A i \in 1..Len(tail) : (front \o tail)[2 + i] = tail[i]
        /\ SubSeq(front \o tail, 3, 2 + Len(tail)) = tail
    <3>1. tail \in Text
      BY <1>2
    <3> QED BY <1>1, <3>1, Prefixed
  <2> HIDE DEF front
  <2>2. line = front \o tail
    BY <1>3 DEF front
  <2> QED BY <2>1, <2>2
<1>7. Len(line) = 3 /\ SubSeq(line, 3, 3) = tail /\ line[3] = m
  <2>1. 1 \in 1..Len(tail)
    BY <1>2
  <2>2. line[2 + 1] = tail[1]
    BY <1>6, <2>1
  <2> QED BY <1>2, <1>6, <2>2
<1> QED BY <1>5, <1>6, <1>7 DEF tail, err, line

\* classify_first_line on a line that is a refusal.
LEMMA Classified ==
  ASSUME NEW line, Len(line) = 3, line[1] = "err", line[2] = Blank,
         SubSeq(line, 3, 3) \in {Incompatible, UnknownCommand}
  PROVE  ClassifyFirstLine(line) = "incompatible"
<1>1. ParseFrame(line) = Malformed
  BY DEF ParseFrame
<1>2. ~(ParseFrame(line) # Malformed) /\ Len(line) >= 3
  BY <1>1
<1> QED BY <1>2 DEF ClassifyFirstLine

\* The replies to a registration that is refused, and that to a busy daemon.
LEMMA RefusalParsed ==
  /\ EncodeErr(Incompatible) \in Single
  /\ ClassifyFirstLine(EncodeErr(Incompatible)) = "incompatible"
  /\ EncodeErr(UnknownCommand) \in Single
  /\ ClassifyFirstLine(EncodeErr(UnknownCommand)) = "incompatible"
  /\ EncodeErr(<<"busy">>) \in Single /\ EncodeErr(<<"busy">>)[1] = "err"
  /\ EncodeErr(<<"busy">>)[3] = "busy"
<1> DEFINE a == "incompatible"
           b == "unknown command"
           c == "busy"
<1>1. /\ a \in Symbol /\ a # Break /\ b \in Symbol /\ b # Break
      /\ c \in Symbol /\ c # Break
  BY DEF Symbol, Keyword, Break
<1>2. Incompatible = <<a>> /\ UnknownCommand = <<b>>
  BY DEF Incompatible, UnknownCommand
<1> HIDE DEF a, b, c
<1>3. /\ EncodeErr(<<a>>) \in Single
      /\ ClassifyFirstLine(EncodeErr(<<a>>)) = "incompatible"
  BY <1>1, <1>2, RefusalLine, Classified
<1>4. /\ EncodeErr(<<b>>) \in Single
      /\ ClassifyFirstLine(EncodeErr(<<b>>)) = "incompatible"
  BY <1>1, <1>2, RefusalLine, Classified
<1>5. /\ EncodeErr(<<c>>) \in Single /\ EncodeErr(<<c>>)[1] = "err"
      /\ EncodeErr(<<c>>)[3] = c
  BY <1>1, RefusalLine
<1> QED BY <1>2, <1>3, <1>4, <1>5 DEF c

-----------------------------------------------------------------------------
(* The socket as a queue of lines *)

LineOf(s) == SubSeq(s, 1, Min({i \in DOMAIN s : s[i] = Break}) - 1)
Behind(s) == SubSeq(s, Len(LineOf(s)) + 2, Len(s))

\* What is got back from a line, its end and what comes behind.
LEMMA FirstLine ==
  ASSUME NEW line \in Single, NEW rest \in Text
  PROVE  /\ line \o <<Break>> \o rest \in Text /\ line \o <<Break>> \o rest # <<>>
         /\ LineOf(line \o <<Break>> \o rest) = line
         /\ Behind(line \o <<Break>> \o rest) = rest
<1> DEFINE end == <<Break>>
           front == line \o end
           s == front \o rest
           n == Len(line)
<1>1. /\ line \in Seq(Symbol) /\ rest \in Seq(Symbol) /\ n \in Nat /\ Len(rest) \in Nat
      /\ \A i \in 1..n : line[i] # Break
  BY DEF Single, Text
<1>2. end \in Seq(Symbol) /\ Len(end) = 1 /\ end[1] = Break
  BY DEF Symbol, Keyword, White
<1> HIDE DEF end
<1>3. /\ front \in Seq(Symbol) /\ Len(front) = n + 1 /\ front[n + 1] = Break
      /\ \A i \in 1..n : front[i] = line[i]
  <2>1. /\ front \in Seq(Symbol) /\ Len(front) = n + Len(end)
        /\ \A i \in 1..(n + Len(end)) : front[i] = IF i <= n THEN line[i] ELSE end[i - n]
    BY <1>1, <1>2, ConcatProperties
  <2> HIDE DEF front
  <2>2. n + 1 \in 1..(n + Len(end)) /\ ~(n + 1 <= n) /\ (n + 1) - n = 1
    BY <1>1, <1>2
  <2>3. front[n + 1] = Break
    BY <1>2, <2>1, <2>2
  <2> QED BY <1>1, <1>2, <2>1, <2>3
<1> HIDE DEF front
<1>4. /\ s \in Seq(Symbol) /\ Len(s) = n + 1 + Len(rest) /\ s[n + 1] = Break
      /\ \A i \in 1..n : s[i] = line[i]
      /\ \A i \in 1..Len(rest) : s[n + 1 + i] = rest[i]
  <2>1. /\ s \in Seq(Symbol) /\ Len(s) = Len(front) + Len(rest)
        /\ \A i \in 1..(Len(front) + Len(rest)) :
             s[i] = IF i <= Len(front) THEN front[i] ELSE rest[i - Len(front)]
    BY <1>1, <1>3, ConcatProperties
  <2> HIDE DEF s
  <2>2. ASSUME NEW i \in 1..Len(rest) PROVE s[n + 1 + i] = rest[i]
    <3>1. n + 1 + i \in 1..(Len(front) + Len(rest)) /\ ~(n + 1 + i <= Len(front))
          /\ (n + 1 + i) - Len(front) = i
      BY <1>1, <1>3
    <3> QED BY <2>1, <3>1
  <2> QED BY <1>1, <1>3, <2>1, <2>2
<1> HIDE DEF s
<1> DEFINE ends == {i \in DOMAIN s : s[i] = Break}
<1>5. Min(ends) = n + 1
  <2>1. DOMAIN s = 1..(n + 1 + Len(rest)) /\ n + 1 \in 1..(n + 1 + Len(rest))
    BY <1>1, <1>4
  <2>2. ASSUME NEW i \in ends, ~(n + 1 <= i) PROVE FALSE
    <3>1. i \in 1..n /\ s[i] = Break
      BY <1>1, <2>1, <2>2
    <3> QED BY <1>1, <1>4, <3>1
  <2>3. ends \in SUBSET Int /\ n + 1 \in ends /\ \A i \in ends : n + 1 <= i
    BY <1>4, <2>1, <2>2
  <2> HIDE DEF ends, n
  <2> QED BY <2>3, MinIs
<1>6. SubSeq(s, 1, (n + 1) - 1) = line
  <2> DEFINE t == SubSeq(s, 1, (n + 1) - 1)
  <2>1. \A i \in 1..((n + 1) - 1) : s[i] \in Symbol
    BY <1>1, <1>4
  <2>2. /\ t \in Seq(Symbol)
        /\ Len(t) = IF 1 <= (n + 1) - 1 THEN ((n + 1) - 1) - 1 + 1 ELSE 0
        /\ \A i \in 1..(((n + 1) - 1) - 1 + 1) : t[i] = s[1 + i - 1]
    <3>1. 1 \in Int /\ (n + 1) - 1 \in Int
      BY <1>1
    <3> QED BY <2>1, <3>1, SubSeqProperties
  <2> HIDE DEF t
  <2>3. Len(t) = n /\ \A i \in 1..Len(t) : t[i] = line[i]
    BY <1>1, <1>4, <2>2
  <2>4. t = line
    BY <1>1, <2>2, <2>3, SeqEqual
  <2> QED BY <2>4 DEF t
<1>7. SubSeq(s, n + 2, Len(s)) = rest
  <2> DEFINE m == n + 2
             t == SubSeq(s, m, Len(s))
  <2>1. \A i \in m..Len(s) : s[i] \in Symbol
    BY <1>1, <1>4
  <2>2. /\ t \in Seq(Symbol)
        /\ Len(t) = IF m <= Len(s) THEN Len(s) - m + 1 ELSE 0
        /\ \A i \in 1..(Len(s) - m + 1) : t[i] = s[m + i - 1]
    <3>1. m \in Int /\ Len(s) \in Int
      BY <1>1, <1>4
    <3> QED BY <2>1, <3>1, SubSeqProperties
  <2> HIDE DEF t
  <2>3. Len(t) = Len(rest)
    BY <1>1, <1>4, <2>2
  <2>4. ASSUME NEW i \in 1..Len(t) PROVE t[i] = rest[i]
    <3>1. i \in 1..(Len(s) - m + 1) /\ m + i - 1 = n + 1 + i /\ i \in 1..Len(rest)
      BY <1>1, <1>4, <2>3
    <3> QED BY <1>4, <2>2, <3>1
  <2>5. t = rest
    BY <1>1, <2>2, <2>3, <2>4, SeqEqual
  <2> QED BY <2>5 DEF t
<1>8. LineOf(s) = line
  BY <1>5, <1>6 DEF LineOf
<1>9. Behind(s) = rest
  BY <1>7, <1>8 DEF Behind
<1>10. s \in Text /\ s # <<>>
  BY <1>1, <1>4 DEF Text
<1> QED BY <1>8, <1>9, <1>10 DEF s, front, end

\* The socket holds lines: what is behind the first k of them, for every k.
Behinds(rest, s, lines) ==
  /\ rest \in [0..Len(lines) -> Text]
  /\ rest[0] = s /\ rest[Len(lines)] = <<>>
  /\ \A k \in 1..Len(lines) : rest[k - 1] = lines[k] \o <<Break>> \o rest[k]

Holds(s, lines) == lines \in Seq(Single) /\ \E rest : Behinds(rest, s, lines)

\* An empty socket holds no line.
LEMMA HoldsNone ==
  Holds(<<>>, <<>>)
<1> DEFINE rest == [k \in 0..0 |-> <<>>]
           lines == <<>>
<1>1. <<>> \in Text
  BY DEF Text
<1>2. Len(lines) = 0 /\ lines \in Seq(Single)
  OBVIOUS
<1> HIDE DEF lines
<1>3. Behinds(rest, <<>>, lines)
  BY <1>1, <1>2 DEF Behinds
<1> QED BY <1>2, <1>3 DEF Holds, lines

\* What is read from a socket that holds lines is the first of them, and leaves the
\* rest.
LEMMA HoldsFirst ==
  ASSUME NEW s, NEW lines, Holds(s, lines), s # <<>>
  PROVE  /\ lines # <<>> /\ LineOf(s) = lines[1] /\ Holds(Behind(s), Tail(lines))
         /\ Len(lines) >= 1 /\ Len(Tail(lines)) = Len(lines) - 1
         /\ \A k \in 1..Len(Tail(lines)) : Tail(lines)[k] = lines[k + 1]
<1>1. PICK rest : Behinds(rest, s, lines)
  BY DEF Holds
<1>2. lines \in Seq(Single) /\ Len(lines) \in Nat
  BY DEF Holds
<1>3. Len(lines) # 0
  BY <1>1 DEF Behinds
<1>4. lines # <<>> /\ 1 \in 1..Len(lines)
  BY <1>2, <1>3
<1>5. lines[1] \in Single /\ rest[1] \in Text /\ s = lines[1] \o <<Break>> \o rest[1]
  <2>1. 1 \in 0..Len(lines) /\ 1 - 1 = 0
    BY <1>2, <1>4
  <2>2. rest[1] \in Text /\ s = rest[0]
    BY <1>1, <2>1 DEF Behinds
  <2>3. rest[0] = lines[1] \o <<Break>> \o rest[1]
    <3>1. \A k \in 1..Len(lines) : rest[k - 1] = lines[k] \o <<Break>> \o rest[k]
      BY <1>1 DEF Behinds
    <3>2. rest[1 - 1] = lines[1] \o <<Break>> \o rest[1]
      BY <1>4, <3>1, Zenon
    <3> QED BY <2>1, <3>2
  <2>4. lines[1] \in Single
    BY <1>2, <1>4
  <2> QED BY <2>2, <2>3, <2>4
<1>6. LineOf(s) = lines[1] /\ Behind(s) = rest[1]
  BY <1>5, FirstLine
<1> DEFINE t == Tail(lines)
           r == [k \in 0..Len(t) |-> rest[k + 1]]
<1>7. t \in Seq(Single) /\ Len(t) = Len(lines) - 1 /\ \A k \in 1..Len(t) : t[k] = lines[k + 1]
  BY <1>2, <1>4, HeadTailProperties
<1> HIDE DEF t
<1>8. Behinds(r, rest[1], t)
  <2>1. r \in [0..Len(t) -> Text] /\ r[0] = rest[1] /\ r[Len(t)] = <<>>
    BY <1>1, <1>2, <1>3, <1>7 DEF Behinds
  <2>2. ASSUME NEW k \in 1..Len(t) PROVE r[k - 1] = t[k] \o <<Break>> \o r[k]
    <3>1. k + 1 \in 1..Len(lines) /\ (k + 1) - 1 = k /\ k \in 0..Len(t) /\ k - 1 \in 0..Len(t)
          /\ (k - 1) + 1 = k
      BY <1>2, <1>7
    <3>2. rest[k] = lines[k + 1] \o <<Break>> \o rest[k + 1]
      BY <1>1, <3>1 DEF Behinds
    <3>3. r[k - 1] = rest[k] /\ r[k] = rest[k + 1] /\ t[k] = lines[k + 1]
      BY <1>7, <3>1
    <3> QED BY <3>2, <3>3
  <2> HIDE DEF r
  <2> QED BY <2>1, <2>2 DEF Behinds
<1>9. Holds(Behind(s), t)
  BY <1>6, <1>7, <1>8 DEF Holds
<1> QED BY <1>2, <1>3, <1>4, <1>6, <1>7, <1>9 DEF t

\* What is written to a socket that holds lines is held after them.
LEMMA HoldsMore ==
  ASSUME NEW s, NEW lines, NEW line \in Single, Holds(s, lines)
  PROVE  Holds(s \o line \o <<Break>>, Append(lines, line))
<1>1. PICK rest : Behinds(rest, s, lines)
  BY DEF Holds
<1> DEFINE n == Len(lines)
           more == Append(lines, line)
           end == line \o <<Break>>
           r == [k \in 0..(n + 1) |-> IF k = n + 1 THEN <<>> ELSE rest[k] \o line \o <<Break>>]
<1>2. lines \in Seq(Single) /\ n \in Nat
  BY DEF Holds
<1>3. /\ more \in Seq(Single) /\ Len(more) = n + 1 /\ more[n + 1] = line
      /\ \A k \in 1..n : more[k] = lines[k]
  BY <1>2, AppendProperties
<1>4. <<>> \in Text /\ <<Break>> \in Seq(Symbol) /\ line \in Seq(Symbol)
  <2>1. Break \in Symbol
    BY DEF Symbol, Keyword, White
  <2>2. <<Break>> \in Seq(Symbol)
    BY <2>1, OneSymbol
  <2> QED BY <2>2 DEF Text, Single
<1>5. end \in Seq(Symbol)
  BY <1>4, ConcatProperties
<1>6. ASSUME NEW x \in Text PROVE x \o line \o <<Break>> = x \o end /\ x \o end \in Text
  <2>1. x \in Seq(Symbol)
    BY DEF Text
  <2>2. x \o line \o <<Break>> = x \o end
    BY <1>4, <2>1, ConcatAssociative
  <2>3. x \o end \in Seq(Symbol)
    BY <1>5, <2>1, ConcatProperties
  <2> QED BY <2>2, <2>3 DEF Text
<1>7. rest \in [0..n -> Text] /\ rest[0] = s /\ rest[n] = <<>>
      /\ \A k \in 1..n : rest[k - 1] = lines[k] \o <<Break>> \o rest[k]
  BY <1>1 DEF Behinds
<1>8. ASSUME NEW k \in 0..n PROVE r[k] = rest[k] \o end /\ r[k] \in Text /\ rest[k] \in Text
  <2>1. k # n + 1 /\ k \in 0..(n + 1) /\ rest[k] \in Text
    BY <1>2, <1>7
  <2>2. r[k] = rest[k] \o line \o <<Break>>
    BY <2>1
  <2> QED BY <1>6, <2>1, <2>2
<1>9. r[n + 1] = <<>> /\ DOMAIN r = 0..(n + 1)
  BY <1>2
<1>10. r[0] = s \o line \o <<Break>>
  BY <1>2, <1>7
<1> HIDE DEF r, more, end
<1>11. r \in [0..(n + 1) -> Text]
  <2>1. \A k \in 0..(n + 1) : k \in 0..n \/ k = n + 1
    BY <1>2
  <2>2. \A k \in 0..(n + 1) : r[k] \in Text
    BY <1>4, <1>8, <1>9, <2>1
  <2>3. r = [k \in 0..(n + 1) |-> r[k]]
    BY DEF r
  <2> QED BY <2>2, <2>3
<1>12. ASSUME NEW k \in 1..(n + 1) PROVE r[k - 1] = more[k] \o <<Break>> \o r[k]
  <2>1. CASE k = n + 1
    <3>1. k - 1 = n /\ n \in 0..n
      BY <1>2, <2>1
    <3>2. r[k - 1] = <<>> \o end
      BY <1>7, <1>8, <3>1
    <3>3. <<>> \o end = end /\ end \o <<>> = end
      BY <1>5, ConcatEmptySeq
    <3> QED BY <1>3, <1>9, <2>1, <3>2, <3>3 DEF end
  <2>2. CASE k # n + 1
    <3>1. k \in 1..n /\ k \in 0..n /\ k - 1 \in 0..n
      BY <1>2, <2>2
    <3>2. rest[k - 1] = lines[k] \o <<Break>> \o rest[k]
      BY <1>7, <3>1
    <3> DEFINE head == lines[k] \o <<Break>>
    <3>3. head \in Seq(Symbol) /\ rest[k] \in Seq(Symbol)
      <4>1. lines[k] \in Single
        BY <1>2, <3>1
      <4>2. lines[k] \in Seq(Symbol)
        BY <4>1 DEF Single, Text
      <4>3. rest[k] \in Text
        BY <1>8, <3>1
      <4> QED BY <1>4, <4>2, <4>3, ConcatProperties DEF Text
    <3> HIDE DEF head
    <3>4. (head \o rest[k]) \o end = head \o (rest[k] \o end)
      <4>1. \A x, y \in Seq(Symbol) : (x \o y) \o end = x \o (y \o end)
        BY <1>5, ConcatAssociative
      <4> QED BY <3>3, <4>1
    <3>5. r[k - 1] = rest[k - 1] \o end /\ r[k] = rest[k] \o end
      BY <1>8, <3>1
    <3> QED BY <1>3, <3>1, <3>2, <3>4, <3>5 DEF head
  <2> QED BY <2>1, <2>2
<1>13. Behinds(r, s \o line \o <<Break>>, more)
  BY <1>3, <1>9, <1>10, <1>11, <1>12 DEF Behinds
<1> QED BY <1>3, <1>13 DEF Holds, more

-----------------------------------------------------------------------------
(* Transcripts are texts *)

\* Two texts, one after the other, are a text.
LEMMA JoinsTyped ==
  ASSUME NEW x \in Text, NEW y \in Text
  PROVE  x \o y \in Text
BY ConcatProperties DEF Text

\* Two sequences, one after the other, are a sequence.
LEMMA JoinsSeq ==
  ASSUME NEW S, NEW x \in Seq(S), NEW y \in Seq(S)
  PROVE  x \o y \in Seq(S)
BY ConcatProperties

\* What FlattenSeq makes of the first k sequences, for every k.
Flattens(flat, S, seqs) ==
  /\ flat \in [0..Len(seqs) -> Seq(S)] /\ flat[0] = <<>>
  /\ \A k \in 1..Len(seqs) : flat[k] = flat[k - 1] \o seqs[k]

\* FlattenSeq puts the sequences together one by one.
LEMMA Flattening ==
  ASSUME NEW S, NEW seqs \in Seq(Seq(S))
  PROVE  \E flat : Flattens(flat, S, seqs) /\ FlattenSeq(seqs) = flat[Len(seqs)]
<1> DEFINE n == Len(seqs)
           D == 1..n
           Value(f, i) == IF i = 1 THEN seqs[i] ELSE f[i - 1] \o seqs[i]
           flat == CHOOSE f : f = [i \in D |-> Value(f, i)]
<1>1. n \in Nat /\ \A i \in D : seqs[i] \in Seq(S)
  OBVIOUS
<1>2. CASE n = 0
  <2>1. seqs = <<>>
    BY <1>2
  <2>2. FlattenSeq(seqs) = seqs
    BY <1>2 DEF FlattenSeq
  <2>3. Flattens([k \in 0..0 |-> <<>>], S, seqs)
    BY <2>1 DEF Flattens
  <2> QED BY <1>2, <2>1, <2>2, <2>3
<1>3. CASE n # 0
  <2> DEFINE rank == [i \in D |-> i]
             Stop == {1}
             base == [i \in D |-> seqs[i]]
             prev == [i \in D |-> IF i = 1 THEN i ELSE i - 1]
             step == [i \in D |-> [v \in Seq(S) |-> v \o seqs[i]]]
  <2>1. FlattenSeq(seqs) = flat[n]
    BY <1>3 DEF FlattenSeq
  <2>2. Recursive(D, rank, n, Seq(S), Stop, base, prev, step)
    <3>1. rank \in [D -> Nat] /\ \A d \in D : rank[d] <= n
      BY <1>1
    <3>2. base \in [D -> Seq(S)] /\ prev \in [D -> D]
      BY <1>1
    <3>3. step \in [D -> [Seq(S) -> Seq(S)]]
      BY <1>1, ConcatProperties
    <3>4. \A d \in D \ Stop : rank[prev[d]] < rank[d]
      BY <1>1
    <3> HIDE DEF D, rank, Stop, base, prev, step, n
    <3> QED BY <3>1, <3>2, <3>3, <3>4 DEF Recursive
  <2>3. PICK f \in [D -> Seq(S)] : Solves(f, D, Stop, base, prev, step)
    <3> HIDE DEF D, rank, Stop, base, prev, step, n
    <3> QED BY <1>1, <2>2, Recursion
  <2>4. ASSUME NEW g, \A i \in D : g[i] \in Seq(S)
        PROVE  Solves(g, D, Stop, base, prev, step) <=> \A i \in D : g[i] = Value(g, i)
    <3>1. ASSUME NEW i \in D
          PROVE  Value(g, i) = IF i \in Stop THEN base[i] ELSE step[i][g[prev[i]]]
      <4>1. CASE i = 1
        BY <4>1
      <4>2. CASE i # 1
        <5>1. i - 1 \in D /\ prev[i] = i - 1
          BY <1>1, <4>2
        <5>2. g[i - 1] \in Seq(S)
          BY <2>4, <5>1
        <5> QED BY <4>2, <5>1, <5>2
      <4> QED BY <4>1, <4>2
    <3> HIDE DEF D, Stop, base, prev, step, Value
    <3> QED BY <3>1 DEF Solves
  <2>5. f = [i \in D |-> Value(f, i)]
    BY <2>3, <2>4
  <2>6. flat = [i \in D |-> Value(flat, i)]
    <3> HIDE DEF D, Value
    <3> QED BY <2>5
  <2>7. \A i \in D : flat[i] = Value(flat, i)
    <3> HIDE DEF D, Value, flat
    <3> QED BY <2>6
  <2> DEFINE Good == {i \in D : flat[i] \in Seq(S)}
  <2>8. ASSUME NEW i \in D, \A e \in D : rank[e] < rank[i] => e \in Good PROVE i \in Good
    <3> HIDE DEF flat
    <3>1. CASE i = 1
      BY <1>1, <2>7, <3>1
    <3>2. CASE i # 1
      <4>1. i - 1 \in D /\ rank[i - 1] < rank[i]
        BY <1>1, <3>2
      <4>2. flat[i - 1] \in Seq(S)
        BY <2>8, <4>1
      <4>3. flat[i - 1] \o seqs[i] \in Seq(S)
        BY <1>1, <4>2, JoinsSeq
      <4>4. flat[i] = flat[i - 1] \o seqs[i]
        BY <2>7, <3>2
      <4> QED BY <4>3, <4>4
    <3> QED BY <3>1, <3>2
  <2>9. rank \in [D -> Nat]
    BY <1>1
  <2>10. D \subseteq Good
    <3> HIDE DEF D, rank, Good
    <3> QED BY <2>8, <2>9, RankInduction
  <2>11. n \in D
    BY <1>1, <1>3
  <2> DEFINE prefixes == [k \in 0..n |-> IF k = 0 THEN <<>> ELSE flat[k]]
  <2> HIDE DEF flat
  <2>12. prefixes \in [0..n -> Seq(S)] /\ prefixes[0] = <<>>
    BY <1>1, <2>10
  <2>13. ASSUME NEW k \in 1..n PROVE prefixes[k] = prefixes[k - 1] \o seqs[k]
    <3>1. CASE k = 1
      <4>1. seqs[1] \in Seq(S) /\ <<>> \o seqs[1] = seqs[1]
        BY <1>1, <3>1, ConcatEmptySeq
      <4> QED BY <1>1, <2>7, <3>1, <4>1
    <3>2. CASE k # 1
      <4>1. k - 1 \in 0..n /\ k - 1 # 0 /\ k \in 0..n /\ k # 0 /\ k \in D
        BY <1>1, <3>2
      <4>2. prefixes[k] = flat[k] /\ prefixes[k - 1] = flat[k - 1]
        BY <4>1
      <4>3. flat[k] = flat[k - 1] \o seqs[k]
        <5> HIDE DEF prefixes, n
        <5> QED BY <2>7, <3>2, <4>1
      <4> QED BY <4>2, <4>3
    <3> QED BY <3>1, <3>2
  <2>14. Flattens(prefixes, S, seqs)
    <3> HIDE DEF prefixes
    <3> QED BY <2>12, <2>13 DEF Flattens
  <2> QED BY <1>1, <2>1, <2>11, <2>14
<1> QED BY <1>2, <1>3

\* Sequences, one after the other, are a sequence.
LEMMA FlattenTyped ==
  ASSUME NEW S, NEW seqs \in Seq(Seq(S))
  PROVE  FlattenSeq(seqs) \in Seq(S)
<1>1. PICK flat : Flattens(flat, S, seqs) /\ FlattenSeq(seqs) = flat[Len(seqs)]
  BY Flattening
<1> QED BY <1>1 DEF Flattens

\* What FlattenSeq makes of the sequences from the k-th on, for every k: all ends of it.
Remains(r, S, seqs) ==
  /\ r \in [1..(Len(seqs) + 1) -> Seq(S)] /\ r[Len(seqs) + 1] = <<>>
  /\ \A k \in 1..Len(seqs) : r[k] = seqs[k] \o r[k + 1]
  /\ \A k \in 1..(Len(seqs) + 1) : \E u \in Seq(S) : r[1] = u \o r[k]

\* FlattenSeq, from right to left.
LEMMA Remaining ==
  ASSUME NEW S, NEW seqs \in Seq(Seq(S))
  PROVE  \E r : Remains(r, S, seqs) /\ FlattenSeq(seqs) = r[1]
<1> DEFINE n == Len(seqs)
           D == 1..(n + 1)
           rank == [k \in D |-> n + 1 - k]
           Stop == {n + 1}
           base == [k \in D |-> <<>>]
           prev == [k \in D |-> IF k = n + 1 THEN k ELSE k + 1]
           step == [k \in D |-> [v \in Seq(S) |-> IF k = n + 1 THEN v ELSE seqs[k] \o v]]
<1>1. n \in Nat /\ \A k \in 1..n : seqs[k] \in Seq(S)
  OBVIOUS
<1>2. Recursive(D, rank, n, Seq(S), Stop, base, prev, step)
  <2>1. rank \in [D -> Nat] /\ \A d \in D : rank[d] <= n
    BY <1>1
  <2>2. base \in [D -> Seq(S)] /\ prev \in [D -> D]
    BY <1>1
  <2>3. \A k \in D : k # n + 1 => k \in 1..n
    BY <1>1
  <2>4. step \in [D -> [Seq(S) -> Seq(S)]]
    BY <1>1, <2>3, ConcatProperties
  <2>5. \A d \in D \ Stop : rank[prev[d]] < rank[d]
    BY <1>1
  <2> HIDE DEF D, rank, Stop, base, prev, step, n
  <2> QED BY <2>1, <2>2, <2>4, <2>5 DEF Recursive
<1>3. PICK r \in [D -> Seq(S)] : Solves(r, D, Stop, base, prev, step)
  <2> HIDE DEF D, rank, Stop, base, prev, step, n
  <2> QED BY <1>1, <1>2, Recursion
<1>4. r[n + 1] = <<>>
  <2>1. n + 1 \in D /\ n + 1 \in Stop
    BY <1>1
  <2>2. base[n + 1] = <<>>
    BY <2>1
  <2>3. r[n + 1] = base[n + 1]
    <3> HIDE DEF D, Stop, base, prev, step, n
    <3> QED BY <1>3, <2>1 DEF Solves
  <2> QED BY <2>2, <2>3
<1>5. ASSUME NEW k \in 1..n PROVE r[k] = seqs[k] \o r[k + 1]
  <2>1. k \in D /\ k # n + 1 /\ k \notin Stop /\ k + 1 \in D /\ prev[k] = k + 1
    BY <1>1
  <2>2. r[k] = step[k][r[prev[k]]]
    <3> HIDE DEF D, Stop, base, prev, step, n
    <3> QED BY <1>3, <2>1 DEF Solves
  <2> QED BY <1>3, <2>1, <2>2
<1>7. PICK flat : Flattens(flat, S, seqs) /\ FlattenSeq(seqs) = flat[n]
  BY Flattening
<1> DEFINE Good == {k \in Nat : k <= n => flat[k] \o r[k + 1] = r[1]}
<1>8. ASSUME NEW k \in Nat, \A j \in Nat : j < k => j \in Good
      PROVE  k \in Good
  <2>1. CASE k = 0
    <3>1. r[1] \in Seq(S) /\ flat[0] = <<>>
      BY <1>1, <1>3, <1>7 DEF Flattens
    <3>2. <<>> \o r[1] = r[1]
      BY <3>1, ConcatEmptySeq
    <3>3. flat[k] \o r[k + 1] = r[1]
      BY <2>1, <3>1, <3>2
    <3> QED BY <3>3
  <2>2. CASE k # 0 /\ k <= n
    <3>1. k - 1 \in Nat /\ k - 1 < k /\ k - 1 <= n /\ k \in 1..n /\ (k - 1) + 1 = k
      BY <1>1, <2>2
    <3>2. flat[k - 1] \o r[k] = r[1]
      BY <1>8, <3>1
    <3>3. flat[k] = flat[k - 1] \o seqs[k] /\ r[k] = seqs[k] \o r[k + 1]
      BY <1>5, <1>7, <3>1 DEF Flattens
    <3>4. k - 1 \in 0..n /\ k + 1 \in D
      BY <1>1, <3>1
    <3>5. flat[k - 1] \in Seq(S)
      BY <1>7, <3>4 DEF Flattens
    <3>6. seqs[k] \in Seq(S) /\ r[k + 1] \in Seq(S)
      BY <1>1, <1>3, <3>1, <3>4
    <3>7. \A x, y, z \in Seq(S) : (x \o y) \o z = x \o (y \o z)
      BY ConcatAssociative
    <3>8. (flat[k - 1] \o seqs[k]) \o r[k + 1] = flat[k - 1] \o (seqs[k] \o r[k + 1])
      BY <3>5, <3>6, <3>7
    <3> QED BY <3>2, <3>3, <3>8
  <2>3. CASE ~(k <= n)
    BY <2>3
  <2> QED BY <2>1, <2>2, <2>3
<1>9. Nat \subseteq Good
  <2> HIDE DEF Good
  <2> QED BY <1>8, NumberInduction
<1>10. flat[n] \o <<>> = r[1]
  <2>1. n \in Good
    BY <1>1, <1>9
  <2>2. n <= n => flat[n] \o r[n + 1] = r[1]
    <3> HIDE DEF n
    <3> QED BY <2>1
  <2> QED BY <1>1, <1>4, <2>2
<1>11. flat[n] \in Seq(S)
  <2>1. n \in 0..n
    BY <1>1
  <2> QED BY <1>7, <2>1 DEF Flattens
<1>12. flat[n] = r[1]
  BY <1>10, <1>11, ConcatEmptySeq
<1>13. ASSUME NEW k \in 1..(n + 1) PROVE \E u \in Seq(S) : r[1] = u \o r[k]
  <2>1. k - 1 \in 0..n /\ k - 1 \in Good /\ k - 1 <= n /\ (k - 1) + 1 = k
    <3>1. k - 1 \in Nat
      BY <1>1
    <3> HIDE DEF Good
    <3> QED BY <1>1, <1>9, <3>1
  <2>2. flat[k - 1] \o r[k] = r[1]
    BY <2>1
  <2>3. flat[k - 1] \in Seq(S)
    BY <1>7, <2>1 DEF Flattens
  <2> QED BY <2>2, <2>3
<1>14. Remains(r, S, seqs)
  BY <1>3, <1>4, <1>5, <1>13 DEF Remains
<1> QED BY <1>7, <1>12, <1>14

\* parse_transcript adds blanks and no other character.
LEMMA ParseTranscriptOver ==
  ASSUME NEW V \in SUBSET Symbol, Blank \in V, NEW raw \in Seq(V)
  PROVE  ParseTranscript(raw) \in Seq(V)
<1> DEFINE words == Words(raw)
           n == Len(words)
           pieces == [i \in DOMAIN words |-> IF i = 1 THEN words[i] ELSE <<Blank>> \o words[i]]
<1>1. words \in Seq(Seq(V))
  BY WordsOver
<1>2. n \in Nat /\ DOMAIN words = 1..n /\ \A i \in 1..n : words[i] \in Seq(V)
  BY <1>1
<1> HIDE DEF words
<1>3. <<Blank>> \in Seq(V)
  OBVIOUS
<1>4. \A i \in 1..n : <<Blank>> \o words[i] \in Seq(V)
  BY <1>2, <1>3, JoinsSeq
<1>5. pieces \in [1..n -> Seq(V)]
  BY <1>2, <1>4
<1>6. pieces \in Seq(Seq(V))
  BY <1>2, <1>5
<1> HIDE DEF pieces
<1>7. FlattenSeq(pieces) \in Seq(V)
  BY <1>6, FlattenTyped
<1> QED BY <1>7 DEF ParseTranscript, Joined, pieces, words

\* So it makes a text.
LEMMA ParseTranscriptTyped ==
  ASSUME NEW raw \in Text
  PROVE  ParseTranscript(raw) \in Text
<1>1. Blank \in Symbol
  BY DEF Symbol, Keyword, White
<1> QED BY <1>1, ParseTranscriptOver DEF Text

\* A set of natural numbers has a least one.
LEMMA MinExists ==
  ASSUME NEW T \in SUBSET Nat, T # {}
  PROVE  Min(T) \in T /\ \A y \in T : Min(T) <= y
<1> DEFINE R == OpToRel(<, Nat)
<1>1. PICK n \in T : \A m \in Nat : <<m, n>> \in R => m \notin T
  <2>1. IsWellFoundedOn(R, Nat)
    BY NatLessThanWellFounded
  <2> QED BY <2>1, WFMin
<1>2. \A m \in T : ~(m < n)
  BY <1>1 DEF OpToRel
<1>3. \A m \in T : n <= m
  BY <1>2
<1> QED BY <1>3 DEF Min

\* What replace_word_ci makes of a text from i on, if f is what it makes of it from later
\* positions on.
Finds(text, from, i) == {at \in i..Len(text) : Occurs(from, text, at)}
WholeAt(text, from, i) == WholeWord(from, text, Min(Finds(text, from, i)))

ReplacedFrom(f, text, from, to, i) ==
  LET at == Min(Finds(text, from, i))
  IN CASE Finds(text, from, i) = {} -> SubSeq(text, i, Len(text))
       [] Finds(text, from, i) # {} /\ WholeAt(text, from, i) ->
            SubSeq(text, i, at - 1) \o to \o f[at + Len(from)]
       [] Finds(text, from, i) # {} /\ ~WholeAt(text, from, i) /\ from[1] \in Wide ->
            <<Panic>>
       [] OTHER -> SubSeq(text, i, at) \o f[at + 1]

Replaces(f, text, from, to) ==
  /\ f \in [1..(Len(text) + 1) -> Text]
  /\ \A i \in 1..(Len(text) + 1) : f[i] = ReplacedFrom(f, text, from, to, i)

\* What replace_word_ci makes of a text, from right to left.
LEMMA Replacing ==
  ASSUME NEW text \in Text, NEW from \in Text, NEW to \in Text, from # <<>>
  PROVE  \E f : Replaces(f, text, from, to) /\ ReplaceWord(text, from, to) = f[1]
<1> DEFINE n == Len(text)
           D == 1..(n + 1)
           Found(i) == {at \in i..n : Occurs(from, text, at)}
           Whole(i) == WholeWord(from, text, Min(Found(i)))
           Value(f, i) ==
             CASE Found(i) = {} -> SubSeq(text, i, n)
               [] Found(i) # {} /\ Whole(i) ->
                    SubSeq(text, i, Min(Found(i)) - 1) \o to \o f[Min(Found(i)) + Len(from)]
               [] Found(i) # {} /\ ~Whole(i) /\ from[1] \in Wide -> <<Panic>>
               [] OTHER -> SubSeq(text, i, Min(Found(i))) \o f[Min(Found(i)) + 1]
           replaced == CHOOSE f : f = [i \in D |-> Value(f, i)]
           Stop == {i \in D : Found(i) = {} \/ (~Whole(i) /\ from[1] \in Wide)}
           Onward(i) == IF Whole(i) THEN Min(Found(i)) + Len(from) ELSE Min(Found(i)) + 1
           Passed(i) == IF Whole(i) THEN SubSeq(text, i, Min(Found(i)) - 1) \o to
                      ELSE SubSeq(text, i, Min(Found(i)))
           rank == [i \in D |-> n + 1 - i]
           base == [i \in D |-> IF Found(i) = {} THEN SubSeq(text, i, n) ELSE <<Panic>>]
           prev == [i \in D |-> IF i \in Stop THEN i ELSE Onward(i)]
           step == [i \in D |-> [v \in Text |-> IF i \in Stop THEN v ELSE Passed(i) \o v]]
<1>1. n \in Nat /\ Len(from) \in Nat
  BY DEF Text
<1>2. ReplaceWord(text, from, to) = replaced[1]
  BY DEF ReplaceWord
<1>3. Len(from) >= 1
  BY <1>1 DEF Text
<1>4. ASSUME NEW i \in Nat, NEW j \in Int, i >= 1, j <= n
      PROVE  SubSeq(text, i, j) \in Text
  <2>1. i <= j => i \in DOMAIN text /\ j \in DOMAIN text
    BY <1>1, <1>4 DEF Text
  <2> QED BY <1>1, <1>4, <2>1, SubSeqProperties DEF Text
<1>5. ASSUME NEW i \in D \ Stop
      PROVE  /\ Found(i) # {} /\ Min(Found(i)) \in i..n
             /\ Onward(i) \in D /\ i < Onward(i)
             /\ Passed(i) \in Text
  <2>1. Found(i) # {} /\ Found(i) \in SUBSET Nat
    BY <1>1
  <2>2. Min(Found(i)) \in Found(i)
    <3> HIDE DEF Found
    <3> QED BY <2>1, MinExists
  <2>3. Min(Found(i)) \in i..n /\ Min(Found(i)) + Len(from) - 1 <= n
    BY <2>2 DEF Occurs
  <2>4. Onward(i) \in D /\ i < Onward(i)
    <3> HIDE DEF Found, Whole
    <3> QED BY <1>1, <1>3, <2>3
  <2>5. /\ SubSeq(text, i, Min(Found(i)) - 1) \in Text
        /\ SubSeq(text, i, Min(Found(i))) \in Text
    <3> HIDE DEF Found, Whole
    <3> QED BY <1>1, <1>4, <2>3
  <2>6. Passed(i) \in Text
    <3> HIDE DEF Found, Whole
    <3> QED BY <2>5, JoinsTyped
  <2> QED BY <2>1, <2>3, <2>4, <2>6
<1>6. Recursive(D, rank, n, Text, Stop, base, prev, step)
  <2>1. rank \in [D -> Nat] /\ \A d \in D : rank[d] <= n
    BY <1>1
  <2>2. base \in [D -> Text]
    <3>1. <<Panic>> \in Text
      <4>1. Panic \in Symbol
        BY DEF Symbol, Keyword
      <4> QED BY <4>1, OneSymbol
    <3> HIDE DEF Found
    <3>2. \A i \in D : SubSeq(text, i, n) \in Text
      BY <1>1, <1>4
    <3> QED BY <3>1, <3>2
  <2>3. prev \in [D -> D]
    <3> HIDE DEF Stop, Onward
    <3> QED BY <1>5
  <2>4. step \in [D -> [Text -> Text]]
    <3> HIDE DEF Stop, Passed, D
    <3>1. \A i \in D : \A v \in Text : i \notin Stop => Passed(i) \o v \in Text
      BY <1>5, JoinsTyped
    <3> QED BY <3>1
  <2>5. \A d \in D \ Stop : rank[prev[d]] < rank[d]
    <3> SUFFICES ASSUME NEW d \in D \ Stop PROVE rank[prev[d]] < rank[d]
      OBVIOUS
    <3>1. prev[d] = Onward(d) /\ Onward(d) \in D /\ d < Onward(d)
      <4> HIDE DEF Stop, Onward
      <4> QED BY <1>5
    <3> HIDE DEF Stop, Onward, prev
    <3> QED BY <1>1, <3>1
  <2> HIDE DEF D, rank, Stop, base, prev, step, n
  <2> QED BY <2>1, <2>2, <2>3, <2>4, <2>5 DEF Recursive
<1>7. PICK f \in [D -> Text] : Solves(f, D, Stop, base, prev, step)
  <2> HIDE DEF D, rank, Stop, base, prev, step, n
  <2> QED BY <1>1, <1>6, Recursion
<1>8. ASSUME NEW g, NEW i \in D, i \notin Stop => g[Onward(i)] \in Text
      PROVE  Value(g, i) = IF i \in Stop THEN base[i] ELSE step[i][g[prev[i]]]
  <2>1. CASE i \in Stop
    <3>1. base[i] = IF Found(i) = {} THEN SubSeq(text, i, n) ELSE <<Panic>>
      OBVIOUS
    <3>2. Found(i) = {} \/ (~Whole(i) /\ from[1] \in Wide)
      BY <2>1
    <3>3. Value(g, i) = IF Found(i) = {} THEN SubSeq(text, i, n) ELSE <<Panic>>
      <4> HIDE DEF Found, Whole
      <4>1. CASE Found(i) = {}
        BY <4>1
      <4>2. CASE Found(i) # {}
        BY <3>2, <4>2
      <4> QED BY <4>1, <4>2
    <3> QED BY <2>1, <3>1, <3>3
  <2>2. CASE i \notin Stop
    <3>1. prev[i] = Onward(i) /\ g[Onward(i)] \in Text
      <4> HIDE DEF Stop, Onward
      <4> QED BY <1>8, <2>2
    <3>2. step[i][g[Onward(i)]] = Passed(i) \o g[Onward(i)]
      <4> HIDE DEF Stop, Onward, Passed
      <4> QED BY <2>2, <3>1
    <3>3. Found(i) # {} /\ (Whole(i) \/ from[1] \notin Wide)
      BY <2>2
    <3>4. Value(g, i) = Passed(i) \o g[Onward(i)]
      <4> HIDE DEF Found, Whole
      <4>1. CASE Whole(i)
        BY <3>3, <4>1
      <4>2. CASE ~Whole(i)
        BY <3>3, <4>2
      <4> QED BY <4>1, <4>2
    <3> HIDE DEF Stop, Onward, Passed, Value, step, prev
    <3> QED BY <2>2, <3>1, <3>2, <3>4
  <2> QED BY <2>1, <2>2
<1>9. \A i \in D : f[i] = Value(f, i)
  <2> SUFFICES ASSUME NEW i \in D PROVE f[i] = Value(f, i)
    OBVIOUS
  <2> HIDE DEF D, Stop, Onward, base, step, prev, Value
  <2>1. i \notin Stop => f[Onward(i)] \in Text
    BY <1>5, <1>7
  <2> QED BY <1>7, <1>8, <2>1 DEF Solves
<1>10. f = [i \in D |-> Value(f, i)]
  <2> HIDE DEF D, Value
  <2> QED BY <1>9
<1>11. replaced = [i \in D |-> Value(replaced, i)]
  <2> HIDE DEF D, Value
  <2> QED BY <1>10
<1>12. \A i \in D : replaced[i] = Value(replaced, i)
  <2> HIDE DEF D, Value, replaced
  <2> QED BY <1>11
<1> DEFINE Good == {i \in D : replaced[i] \in Text}
<1> HIDE DEF replaced
<1>13. ASSUME NEW i \in D, \A e \in D : rank[e] < rank[i] => e \in Good PROVE i \in Good
  <2>1. i \notin Stop => replaced[Onward(i)] \in Text
    <3> SUFFICES ASSUME i \notin Stop PROVE replaced[Onward(i)] \in Text
      OBVIOUS
    <3>1. Onward(i) \in D /\ i < Onward(i)
      <4> HIDE DEF Stop, Onward
      <4> QED BY <1>5
    <3> HIDE DEF Stop, Onward
    <3>2. rank[Onward(i)] < rank[i]
      BY <1>1, <3>1
    <3> QED BY <1>13, <3>1, <3>2
  <2> HIDE DEF D, Stop, Onward, base, step, prev, Value, rank
  <2>2. replaced[i] = IF i \in Stop THEN base[i] ELSE step[i][replaced[prev[i]]]
    BY <1>8, <1>12, <2>1
  <2>3. i \notin Stop => prev[i] = Onward(i)
    BY DEF prev
  <2>4. base[i] \in Text /\ step[i] \in [Text -> Text]
    BY <1>6 DEF Recursive
  <2> QED BY <2>1, <2>2, <2>3, <2>4
<1>14. D \subseteq Good
  <2>1. rank \in [D -> Nat]
    BY <1>1
  <2> HIDE DEF D, rank, Good
  <2> QED BY <1>13, <2>1, RankInduction
<1>15. 1 \in D
  BY <1>1
<1>16. Replaces(replaced, text, from, to)
  <2>1. replaced = [i \in D |-> replaced[i]]
    <3>1. replaced = [i \in D |-> Value(replaced, i)]
      BY <1>11
    <3> HIDE DEF D, Value
    <3> QED BY <3>1
  <2>2. replaced \in [D -> Text]
    <3> HIDE DEF D
    <3> QED BY <1>14, <2>1
  <2>3. \A i \in D : Value(replaced, i) = ReplacedFrom(replaced, text, from, to, i)
    BY DEF ReplacedFrom, Finds, WholeAt
  <2> HIDE DEF Value
  <2> QED BY <1>12, <2>2, <2>3 DEF Replaces
<1> QED BY <1>2, <1>16

\* A correction makes a text of a text.
LEMMA ReplaceWordTyped ==
  ASSUME NEW text \in Text, NEW from \in Text, NEW to \in Text
  PROVE  ReplaceWord(text, from, to) \in Text
<1>1. CASE from = <<>>
  BY <1>1 DEF ReplaceWord
<1>2. CASE from # <<>>
  <2>1. PICK f : Replaces(f, text, from, to) /\ ReplaceWord(text, from, to) = f[1]
    BY <1>2, Replacing
  <2>2. 1 \in 1..(Len(text) + 1)
    BY DEF Text
  <2> QED BY <2>1, <2>2 DEF Replaces
<1> QED BY <1>1, <1>2

\* A set that is ordered by a relation.
Ranks(P, R) ==
  /\ \A a, b \in P : a # b => <<a, b>> \in R \/ <<b, a>> \in R
  /\ \A a, b, c \in P : <<a, b>> \in R /\ <<b, c>> \in R => <<a, c>> \in R

\* One less than a set has.
LEMMA OneLess ==
  ASSUME NEW Q, NEW x \in Q, NEW k \in Nat, IsFiniteSet(Q), Cardinality(Q) = k
  PROVE  /\ k # 0 /\ k - 1 \in Nat /\ k - 1 < k
         /\ IsFiniteSet(Q \ {x}) /\ Cardinality(Q \ {x}) = k - 1
<1>1. IsFiniteSet(Q \ {x}) /\ Cardinality(Q \ {x}) = k - 1
  BY FS_RemoveElement
<1>2. Cardinality(Q \ {x}) \in Nat
  BY <1>1, FS_CardinalityType
<1> QED BY <1>1, <1>2

\* A finite set that is ordered by a relation has a last element.
LEMMA LastExists ==
  ASSUME NEW P, NEW R, Ranks(P, R),
         NEW Q \in SUBSET P, IsFiniteSet(Q), Q # {}
  PROVE  \E m \in Q : \A q \in Q : q # m => <<q, m>> \in R
<1> DEFINE Has(U) == \E m \in U : \A q \in U : q # m => <<q, m>> \in R
           Good == {k \in Nat : \A U \in SUBSET P :
                      IsFiniteSet(U) /\ U # {} /\ Cardinality(U) = k => Has(U)}
<1>1. ASSUME NEW k \in Nat, \A j \in Nat : j < k => j \in Good
      PROVE  k \in Good
  <2>1. SUFFICES ASSUME NEW U \in SUBSET P, IsFiniteSet(U), U # {}, Cardinality(U) = k
                 PROVE  Has(U)
    OBVIOUS
  <2>2. PICK x \in U : TRUE
    BY <2>1
  <2>3. CASE U \ {x} = {}
    BY <2>2, <2>3
  <2>4. CASE U \ {x} # {}
    <3>1. k - 1 \in Nat /\ k - 1 < k /\ IsFiniteSet(U \ {x}) /\ Cardinality(U \ {x}) = k - 1
      BY <2>1, <2>2, OneLess
    <3>2. k - 1 \in Good
      <4> HIDE DEF Good
      <4> QED BY <1>1, <3>1
    <3>3. Has(U \ {x})
      <4> HIDE DEF Has
      <4> QED BY <2>1, <2>4, <3>1, <3>2
    <3>4. PICK m \in U \ {x} : \A q \in U \ {x} : q # m => <<q, m>> \in R
      BY <3>3
    <3>5. CASE <<x, m>> \in R
      BY <3>4, <3>5
    <3>6. CASE <<m, x>> \in R
      <4>1. \A q \in U : q # x => <<q, x>> \in R
        BY <2>1, <2>2, <3>4, <3>6 DEF Ranks
      <4> QED BY <2>2, <4>1
    <3> QED BY <2>1, <2>2, <3>4, <3>5, <3>6 DEF Ranks
  <2> QED BY <2>3, <2>4
<1>2. Nat \subseteq Good
  <2> HIDE DEF Good
  <2> QED BY <1>1, NumberInduction
<1>3. Cardinality(Q) \in Good
  BY <1>2, FS_CardinalityType
<1> QED BY <1>3

\* What is ordered by a relation.
Sorted(s, n, R) == \A i, j \in 1..n : i < j => <<s[i], s[j]>> \in R

Sorts(s, n, Q, R) ==
  s \in [1..n -> Q] /\ (\A i, j \in 1..n : i # j => s[i] # s[j]) /\ Sorted(s, n, R)

\* A finite set can be sorted.
LEMMA SortExists ==
  ASSUME NEW P, NEW R, Ranks(P, R), IsFiniteSet(P)
  PROVE  \E s : Sorts(s, Cardinality(P), P, R)
<1> DEFINE Good == {k \in Nat : \A Q \in SUBSET P :
                      IsFiniteSet(Q) /\ Cardinality(Q) = k => \E s : Sorts(s, k, Q, R)}
<1>1. ASSUME NEW k \in Nat, \A j \in Nat : j < k => j \in Good
      PROVE  k \in Good
  <2>1. SUFFICES ASSUME NEW Q \in SUBSET P, IsFiniteSet(Q), Cardinality(Q) = k
                 PROVE  \E s : Sorts(s, k, Q, R)
    OBVIOUS
  <2>2. CASE Q = {}
    <3>1. k = 0
      BY <2>1, <2>2, FS_EmptySet
    <3>2. Sorts([i \in 1..0 |-> i], 0, Q, R)
      BY DEF Sorts, Sorted
    <3> QED BY <3>1, <3>2
  <2>3. CASE Q # {}
    <3>1. PICK m \in Q : \A q \in Q : q # m => <<q, m>> \in R
      BY <2>1, <2>3, LastExists
    <3>2. /\ k # 0 /\ k - 1 \in Nat /\ k - 1 < k
          /\ IsFiniteSet(Q \ {m}) /\ Cardinality(Q \ {m}) = k - 1
      BY <2>1, <3>1, OneLess
    <3>3. k - 1 \in Good
      <4> HIDE DEF Good
      <4> QED BY <1>1, <3>2
    <3>4. PICK s : Sorts(s, k - 1, Q \ {m}, R)
      BY <2>1, <3>2, <3>3
    <3> DEFINE t == [i \in 1..k |-> IF i = k THEN m ELSE s[i]]
    <3>5. \A i \in 1..k : i # k => i \in 1..(k - 1)
      BY <3>2
    <3>6. \A i \in 1..(k - 1) : s[i] \in Q /\ s[i] # m /\ <<s[i], m>> \in R
      BY <3>1, <3>4 DEF Sorts
    <3>7. \A i \in 1..k : t[i] \in Q /\ (i = k => t[i] = m) /\ (i # k => t[i] = s[i])
      BY <3>1, <3>5, <3>6
    <3>8. t \in [1..k -> Q]
      <4>1. t = [i \in 1..k |-> t[i]]
        OBVIOUS
      <4> HIDE DEF t
      <4> QED BY <3>7, <4>1
    <3> HIDE DEF t
    <3>9. ASSUME NEW i \in 1..k, NEW j \in 1..k, i < j
          PROVE  <<t[i], t[j]>> \in R /\ t[i] # t[j]
      <4>1. i \in 1..(k - 1) /\ i # k /\ i # j
        BY <3>9
      <4>2. CASE j = k
        BY <3>6, <3>7, <4>1, <4>2
      <4>3. CASE j # k
        <5>1. j \in 1..(k - 1)
          BY <3>5, <4>3
        <5>2. t[i] = s[i] /\ t[j] = s[j]
          BY <3>7, <4>1, <4>3
        <5> QED BY <3>4, <3>9, <4>1, <5>1, <5>2 DEF Sorts, Sorted
      <4> QED BY <4>2, <4>3
    <3>10. \A i, j \in 1..k : i # j => t[i] # t[j]
      <4>1. \A i, j \in 1..k : i # j => i < j \/ j < i
        OBVIOUS
      <4> QED BY <3>9, <4>1
    <3>11. Sorts(t, k, Q, R)
      BY <3>8, <3>9, <3>10 DEF Sorts, Sorted
    <3> QED BY <3>11
  <2> QED BY <2>2, <2>3
<1>2. Nat \subseteq Good
  <2> HIDE DEF Good
  <2> QED BY <1>1, NumberInduction
<1>3. Cardinality(P) \in Good
  BY <1>2, FS_CardinalityType
<1> QED BY <1>3

Letter == Range(Alphabet)
Phrase == Seq(Letter)

\* Different characters have different places in the alphabet.
LEMMA PlaceIs ==
  /\ \A c \in Letter : Place(c) \in Nat
  /\ \A c, d \in Letter : c # d => Place(c) # Place(d)
<1>1. \A c \in Letter : Place(c) \in DOMAIN Alphabet /\ Alphabet[Place(c)] = c
  BY DEF Letter, Range, Place
<1>2. DOMAIN Alphabet \subseteq Nat
  BY AlphabetAssumption
<1> QED BY <1>1, <1>2

\* Phrases differ alphabetically at a place n.
DiffersAt(a, b, n) ==
  /\ n \in 1..(Len(a) + 1) /\ n <= Len(b)
  /\ \A i \in 1..(n - 1) : a[i] = b[i]
  /\ n <= Len(a) => Place(a[n]) < Place(b[n])

\* The alphabetical order is total: the first difference decides.
LEMMA AlphabeticalTotal ==
  ASSUME NEW a \in Phrase, NEW b \in Phrase, a # b
  PROVE  Alphabetical(a, b) \/ Alphabetical(b, a)
<1> DEFINE N == {n \in 1..(Len(a) + 1) : n = Len(a) + 1 \/ n > Len(b) \/ a[n] # b[n]}
           n == Min(N)
<1>1. Len(a) \in Nat /\ Len(b) \in Nat
  BY DEF Phrase
<1>2. n \in N /\ \A i \in N : n <= i
  <2>1. N \in SUBSET Nat /\ Len(a) + 1 \in N
    BY <1>1
  <2> HIDE DEF N
  <2> QED BY <2>1, MinExists
<1>3. \A i \in 1..(n - 1) : i <= Len(a) /\ i <= Len(b) /\ a[i] = b[i]
  <2>1. ASSUME NEW i \in 1..(n - 1) PROVE i \notin N /\ i \in 1..(Len(a) + 1)
    BY <1>1, <1>2
  <2> QED BY <1>1, <1>2, <2>1
<1> HIDE DEF n
<1>4. n \in Nat /\ 1 <= n /\ n <= Len(a) + 1 /\ n <= Len(b) + 1
  <2>1. CASE n = 1
    BY <1>1, <2>1
  <2>2. CASE n # 1
    <3>1. n - 1 \in 1..(n - 1)
      BY <1>1, <1>2, <2>2
    <3> QED BY <1>1, <1>2, <1>3, <3>1
  <2> QED BY <2>1, <2>2
<1>5. CASE n <= Len(a) /\ n <= Len(b)
  <2>1. a[n] \in Letter /\ b[n] \in Letter /\ a[n] # b[n]
    BY <1>1, <1>2, <1>4, <1>5 DEF Phrase
  <2>2. Place(a[n]) < Place(b[n]) \/ Place(b[n]) < Place(a[n])
    BY <2>1, PlaceIs
  <2> QED BY <1>1, <1>3, <1>4, <1>5, <2>2 DEF Alphabetical
<1>6. CASE n = Len(a) + 1 /\ n <= Len(b)
  <2>1. ~(n <= Len(a))
    BY <1>1, <1>6
  <2> QED BY <1>1, <1>3, <1>4, <1>6, <2>1 DEF Alphabetical
<1>7. CASE n <= Len(a) /\ n = Len(b) + 1
  <2>1. ~(n <= Len(b))
    BY <1>1, <1>7
  <2> QED BY <1>1, <1>3, <1>4, <1>7, <2>1 DEF Alphabetical
<1>8. CASE n = Len(a) + 1 /\ n = Len(b) + 1
  <2>1. Len(a) = Len(b) /\ \A i \in 1..Len(a) : a[i] = b[i]
    BY <1>1, <1>3, <1>8
  <2>2. a = b
    BY <2>1, SeqEqual DEF Phrase
  <2> QED BY <2>2
<1> QED BY <1>1, <1>4, <1>5, <1>6, <1>7, <1>8

\* It is transitive: the earlier of two differences decides.
LEMMA AlphabeticalTransitive ==
  ASSUME NEW a \in Phrase, NEW b \in Phrase, NEW c \in Phrase,
         Alphabetical(a, b), Alphabetical(b, c)
  PROVE  Alphabetical(a, c)
<1>1. Len(a) \in Nat /\ Len(b) \in Nat /\ Len(c) \in Nat
  BY DEF Phrase
<1>2. PICK n : DiffersAt(a, b, n)
  BY DEF Alphabetical, DiffersAt
<1>3. PICK m : DiffersAt(b, c, m)
  BY DEF Alphabetical, DiffersAt
<1>4. n \in Nat /\ m \in Nat /\ 1 <= n /\ 1 <= m
  BY <1>1, <1>2, <1>3 DEF DiffersAt
<1>5. ASSUME NEW k, DiffersAt(a, c, k) PROVE Alphabetical(a, c)
  BY <1>5 DEF Alphabetical, DiffersAt
<1>6. CASE n < m
  <2>1. DiffersAt(a, c, n)
    BY <1>1, <1>2, <1>3, <1>4, <1>6 DEF DiffersAt
  <2> QED BY <1>5, <2>1
<1>7. CASE n = m
  <2>1. n <= Len(a) => Place(a[n]) < Place(c[n])
    <3>1. SUFFICES ASSUME n <= Len(a) PROVE Place(a[n]) < Place(c[n])
      OBVIOUS
    <3>2. n <= Len(b) /\ n <= Len(c)
      BY <1>2, <1>3, <1>7 DEF DiffersAt
    <3>3. a[n] \in Letter /\ b[n] \in Letter /\ c[n] \in Letter
      BY <1>1, <1>4, <3>1, <3>2 DEF Phrase
    <3>4. Place(a[n]) < Place(b[n]) /\ Place(b[n]) < Place(c[n])
      BY <1>2, <1>3, <1>7, <3>1, <3>2 DEF DiffersAt
    <3> QED BY <3>3, <3>4, PlaceIs
  <2>2. DiffersAt(a, c, n)
    BY <1>1, <1>2, <1>3, <1>4, <1>7, <2>1 DEF DiffersAt
  <2> QED BY <1>5, <2>2
<1>8. CASE m < n
  <2>1. m <= Len(a) /\ a[m] = b[m] /\ m <= Len(b)
    BY <1>1, <1>2, <1>4, <1>8 DEF DiffersAt
  <2>2. DiffersAt(a, c, m)
    BY <1>1, <1>2, <1>3, <1>4, <1>8, <2>1 DEF DiffersAt
  <2> QED BY <1>5, <2>2
<1> QED BY <1>4, <1>6, <1>7, <1>8

\* The length of a phrase in bytes is a number.
LEMMA SizeTyped ==
  ASSUME NEW text \in Phrase
  PROVE  Size(text) \in Nat
<1>1. Len(text) \in Nat /\ DOMAIN text = 1..Len(text)
  BY DEF Phrase
<1>2. {i \in DOMAIN text : text[i] \in Wide} \in SUBSET (1..Len(text))
  BY <1>1
<1>3. Cardinality({i \in DOMAIN text : text[i] \in Wide}) \in Nat
  BY <1>1, <1>2, PositionsCounted
<1> QED BY <1>1, <1>3 DEF Size

\* So is the order of the phrases: the longer one first.
LEMMA ComesFirstTotal ==
  ASSUME NEW a \in Phrase, NEW b \in Phrase
  PROVE  /\ a # b => ComesFirst(a, b) \/ ComesFirst(b, a)
         /\ ~ComesFirst(a, a)
<1>1. a # b => ComesFirst(a, b) \/ ComesFirst(b, a)
  BY AlphabeticalTotal, SizeTyped DEF ComesFirst
<1>2. ~Alphabetical(a, a)
  <2>1. SUFFICES ASSUME NEW n \in 1..(Len(a) + 1), n <= Len(a),
                        n <= Len(a) => Place(a[n]) < Place(a[n])
                 PROVE  FALSE
    BY DEF Alphabetical
  <2>2. a[n] \in Letter
    BY <2>1 DEF Phrase
  <2>3. Place(a[n]) \in Nat
    BY <2>2, PlaceIs
  <2> QED BY <2>1, <2>3
<1> QED BY <1>1, <1>2, SizeTyped DEF ComesFirst

\* The order of the phrases is transitive.
LEMMA ComesFirstTransitive ==
  ASSUME NEW a \in Phrase, NEW b \in Phrase, NEW c \in Phrase,
         ComesFirst(a, b), ComesFirst(b, c)
  PROVE  ComesFirst(a, c)
<1>1. Size(a) \in Nat /\ Size(b) \in Nat /\ Size(c) \in Nat
  BY SizeTyped
<1>2. Alphabetical(a, b) /\ Alphabetical(b, c) => Alphabetical(a, c)
  BY AlphabeticalTransitive
<1> QED BY <1>1, <1>2 DEF ComesFirst

\* ordered_corrections lists every phrase of a table once, longer ones first and those
\* of one length alphabetically: such an order exists, since ComesFirst is total and
\* transitive on phrases.
THEOREM CorrectionsOrdered ==
  ASSUME NEW corrections, IsTable(corrections)
  PROVE  Sorts(OrderedCorrections(corrections), Cardinality(DOMAIN corrections),
               DOMAIN corrections,
               {pair \in Phrase \X Phrase : ComesFirst(pair[1], pair[2])})
<1> DEFINE P == DOMAIN corrections
           n == Cardinality(P)
           R == {pair \in Phrase \X Phrase : ComesFirst(pair[1], pair[2])}
           order == OrderedCorrections(corrections)
<1>1. P \subseteq Phrase /\ IsFiniteSet(P)
  BY DEF IsTable, Phrase, Letter
<1>2. \A a, b \in Phrase : <<a, b>> \in R <=> ComesFirst(a, b)
  OBVIOUS
<1>3. \A a, b \in P : a # b => <<a, b>> \in R \/ <<b, a>> \in R
  <2>1. ASSUME NEW a \in P, NEW b \in P, a # b
        PROVE  ComesFirst(a, b) \/ ComesFirst(b, a)
    BY <1>1, <2>1, ComesFirstTotal
  <2> QED BY <1>1, <1>2, <2>1
<1>4. \A a, b, c \in P : <<a, b>> \in R /\ <<b, c>> \in R => <<a, c>> \in R
  <2>1. ASSUME NEW a \in P, NEW b \in P, NEW c \in P, ComesFirst(a, b), ComesFirst(b, c)
        PROVE  ComesFirst(a, c)
    BY <1>1, <2>1, ComesFirstTransitive
  <2> QED BY <1>1, <1>2, <2>1
<1>5. PICK s : Sorts(s, n, P, R)
  <2> HIDE DEF P, R
  <2>1. Ranks(P, R)
    BY <1>3, <1>4 DEF Ranks
  <2> QED BY <1>1, <2>1, SortExists
<1> DEFINE InOrder(o) == \A i, j \in DOMAIN o : i < j => ComesFirst(o[i], o[j])
<1>6. ASSUME NEW o
      PROVE  Sorts(o, n, P, R) <=> o \in SetToSeqs(P) /\ InOrder(o)
  <2>1. o \in SetToSeqs(P) <=> o \in [1..n -> P] /\ \A i, j \in 1..n : i # j => o[i] # o[j]
    BY DEF SetToSeqs
  <2>2. o \in [1..n -> P] => (InOrder(o) <=> Sorted(o, n, R))
    <3> SUFFICES ASSUME o \in [1..n -> P] PROVE InOrder(o) <=> Sorted(o, n, R)
      OBVIOUS
    <3>1. DOMAIN o = 1..n /\ \A i \in 1..n : o[i] \in Phrase
      BY <1>1
    <3> HIDE DEF R, n
    <3> QED BY <1>2, <3>1 DEF Sorted
  <2> HIDE DEF P, n, R, InOrder
  <2> QED BY <2>1, <2>2 DEF Sorts
<1>7. order = CHOOSE o \in SetToSeqs(P) : InOrder(o)
  BY DEF OrderedCorrections
<1>8. order \in SetToSeqs(P) /\ InOrder(order)
  <2> HIDE DEF P, InOrder, order
  <2> QED BY <1>5, <1>6, <1>7
<1>9. Sorts(order, n, P, R)
  <2> HIDE DEF P, InOrder, order, R, n
  <2> QED BY <1>6, <1>8
<1> QED BY <1>9

-----------------------------------------------------------------------------
(* What apply_corrections makes of a text, phrase by phrase *)

\* g[k] is what is made of the text when the first k phrases have had their turn.
Turn(v, corrections, phrase) ==
  IF Panicked(v) THEN v ELSE ReplaceWord(v, phrase, corrections[phrase])

Turns(g, text, corrections, n) ==
  /\ g[0] = text
  /\ \A k \in 1..n : g[k] = Turn(g[k - 1], corrections, OrderedCorrections(corrections)[k])

\* apply_corrections lets every phrase have its turn, in their order.
LEMMA InTurn ==
  ASSUME NEW text \in Text, NEW corrections, IsTable(corrections)
  PROVE  LET n == Cardinality(DOMAIN corrections)
         IN  \E g : /\ Turns(g, text, corrections, n)
                    /\ ApplyCorrections(text, corrections) = g[n] /\ g[n] \in Text
<1> DEFINE P == DOMAIN corrections
           n == Cardinality(P)
           order == OrderedCorrections(corrections)
           D == SUBSET (1..n)
           Step(v, i) == IF Panicked(v) THEN v
                         ELSE ReplaceWord(v, order[i], corrections[order[i]])
           Value(f, T) == IF T = {} THEN text ELSE Step(f[T \ {Max(T)}], Max(T))
           r == CHOOSE f : f = [T \in D |-> Value(f, T)]
           step == [i \in 1..n |-> [v \in Text |-> Step(v, i)]]
           g == [k \in 0..n |-> r[1..k]]
<1>1. n \in Nat
  BY FS_CardinalityType DEF IsTable
<1>2. order \in [1..n -> P]
  BY CorrectionsOrdered DEF Sorts
<1> HIDE DEF order
<1>3. DOMAIN order = 1..n
  BY <1>2
<1>4. ApplyCorrections(text, corrections) = r[1..n]
  BY <1>3 DEF ApplyCorrections, FoldLeft, MapThenFoldSet, order
<1>5. \A i \in 1..n : order[i] \in Text /\ corrections[order[i]] \in Text
  <2> SUFFICES ASSUME NEW i \in 1..n
               PROVE  order[i] \in Text /\ corrections[order[i]] \in Text
    OBVIOUS
  <2>1. order[i] \in P
    BY <1>2
  <2>2. order[i] \in Seq(Range(Alphabet)) /\ corrections[order[i]] \in Seq(STRING \ {Panic})
    BY <2>1 DEF IsTable
  <2>3. Range(Alphabet) \subseteq STRING
    BY AlphabetAssumption DEF Range
  <2>4. Range(Alphabet) \subseteq Symbol /\ STRING \ {Panic} \subseteq Symbol
    BY <2>3 DEF Symbol
  <2> QED BY <2>2, <2>4, WiderSeq DEF Text
<1>6. \A i \in 1..n : \A v \in Text : Step(v, i) \in Text
  BY <1>5, ReplaceWordTyped
<1>7. \A i \in 1..n : \A v : Step(v, i) = Turn(v, corrections, order[i])
  BY DEF Turn
<1> HIDE DEF Step, n
<1>8. step \in [1..n -> [Text -> Text]]
  BY <1>6
<1>9. PICK f \in [D -> Text] : Folds(f, n, text, step)
  <2>1. CanFold(n, Text, text, step)
    BY <1>1, <1>8 DEF CanFold
  <2> HIDE DEF step
  <2> QED BY <2>1, FoldExists
<1>10. ASSUME NEW T \in D PROVE f[T] = Value(f, T)
  <2>1. CASE T # {}
    <3>1. Max(T) \in 1..n /\ T \ {Max(T)} \in D
      BY <1>1, <2>1, SubsetsShrink
    <3> QED BY <1>9, <2>1, <3>1 DEF Folds
  <2> QED BY <1>9, <2>1 DEF Folds
<1>11. f = [T \in D |-> Value(f, T)]
  BY <1>10
<1>12. r = [T \in D |-> Value(r, T)]
  <2> HIDE DEF Value, D
  <2> QED BY <1>11
<1>13. \A T \in D : r[T] = Value(r, T)
  <2> HIDE DEF r, D, Value
  <2> QED BY <1>12
<1> HIDE DEF r
<1>14. \A T \in D : r[T] \in Text
  <2>1. r[{}] \in Text
    BY <1>13
  <2>2. ASSUME NEW T \in D, T # {}, r[T \ {Max(T)}] \in Text PROVE r[T] \in Text
    <3>1. Max(T) \in 1..n
      BY <1>1, <2>2, SubsetsShrink
    <3> QED BY <1>6, <1>13, <2>2, <3>1
  <2> QED BY <1>1, <2>1, <2>2, FoldTyped
<1>15. g[0] = text
  <2>1. 1..0 = {} /\ 0 \in 0..n
    BY <1>1
  <2> QED BY <1>13, <2>1
<1>16. ASSUME NEW k \in 1..n PROVE g[k] = Turn(g[k - 1], corrections, order[k])
  <2>1. /\ 1..k \in SUBSET (1..n) /\ k \in Nat \ {0}
        /\ g[k] = r[1..k] /\ g[k - 1] = r[1..(k - 1)]
    BY <1>1
  <2>2. Max(1..k) = k /\ (1..k) \ {k} = 1..(k - 1) /\ 1..k # {}
    BY <2>1, LastIsMax
  <2>3. r[1..k] = Step(r[1..(k - 1)], k)
    BY <1>13, <2>1, <2>2
  <2> QED BY <1>7, <2>1, <2>3
<1>17. g[n] = r[1..n] /\ r[1..n] \in Text
  BY <1>1, <1>14
<1>18. Turns(g, text, corrections, n)
  BY <1>15, <1>16 DEF Turns, order
<1>19. ApplyCorrections(text, corrections) = g[n] /\ g[n] \in Text
  BY <1>4, <1>17
<1> HIDE DEF g
<1> QED BY <1>18, <1>19 DEF n

\* The corrections of a table make a text of a text.
LEMMA ApplyCorrectionsTyped ==
  ASSUME NEW text \in Text, NEW corrections, IsTable(corrections)
  PROVE  ApplyCorrections(text, corrections) \in Text
BY InTurn

\* What is sent as a transcript is a text.
LEMMA TranscriptTyped ==
  ASSUME NEW raw \in Raws, NEW short \in BOOLEAN, NEW corrections \in Tables
  PROVE  FinalizeTranscript(ParseTranscript(raw), short, corrections) \in Text
<1>1. IsTable(corrections)
  BY WireAssumption
<1>2. raw \in Text
  <2>1. raw \in Seq(STRING)
    BY WireAssumption
  <2>2. STRING \subseteq Symbol
    BY DEF Symbol
  <2> QED BY <2>1, <2>2, WiderSeq DEF Text
<1>3. ParseTranscript(raw) \in Text
  BY <1>2, ParseTranscriptTyped
<1>4. Discarded \in Text
  <2>1. "discarded" \in Symbol
    BY DEF Symbol, Keyword
  <2> QED BY <2>1, OneSymbol DEF Discarded
<1> QED BY <1>1, <1>3, <1>4, ApplyCorrectionsTyped DEF FinalizeTranscript

-----------------------------------------------------------------------------
(* What replace_word_ci does, character by character *)

Chars == Symbol \ {Panic}
Low(c) == IF c \in DOMAIN Lower THEN Lower[c] ELSE c

\* Characters of which one is the other in another case are both part of words or neither.
LEMMA LowWord ==
  ASSUME NEW c, NEW d, Low(c) = Low(d)
  PROVE  c \in WordByte <=> d \in WordByte
<1>1. \A e : Low(e) \in WordByte <=> e \in WordByte
  BY AlphabetAssumption DEF Low
<1> QED BY <1>1

\* An occurrence of a phrase, character by character.
LEMMA OccursIs ==
  ASSUME NEW S, NEW phrase \in Seq(S), NEW T, NEW text \in Seq(T),
         NEW at \in 1..(Len(text) + 1), phrase # <<>>
  PROVE  Occurs(phrase, text, at) <=>
           /\ at + Len(phrase) - 1 <= Len(text)
           /\ \A j \in 0..(Len(phrase) - 1) : Low(text[at + j]) = Low(phrase[j + 1])
<1> DEFINE n == Len(phrase)
           a == Lowered(text)
           b == Lowered(phrase)
           s == SubSeq(a, at, at + n - 1)
           U == {Low(text[i]) : i \in DOMAIN text} \cup {Low(phrase[i]) : i \in DOMAIN phrase}
<1>1. /\ n \in Nat /\ Len(text) \in Nat /\ DOMAIN phrase = 1..n /\ DOMAIN text = 1..Len(text)
      /\ n >= 1 /\ at \in Nat
  OBVIOUS
<1>2. a = [i \in 1..Len(text) |-> Low(text[i])] /\ b = [i \in 1..n |-> Low(phrase[i])]
  BY <1>1 DEF Lowered, Low
<1>3. b \in Seq(U) /\ Len(b) = n
  BY <1>1, <1>2
<1>4. SUFFICES ASSUME at + n - 1 <= Len(text)
               PROVE  s = b <=> \A j \in 0..(n - 1) : Low(text[at + j]) = Low(phrase[j + 1])
  BY DEF Occurs
<1>5. \A i \in at..(at + n - 1) : i \in 1..Len(text)
  BY <1>1, <1>4
<1>6. \A i \in at..(at + n - 1) : a[i] \in U
  BY <1>1, <1>2, <1>5
<1>7. s \in Seq(U) /\ Len(s) = n /\ \A i \in 1..n : s[i] = a[at + i - 1]
  <2>1. at \in Int /\ at + n - 1 \in Int /\ at <= at + n - 1
    BY <1>1
  <2>2. (at + n - 1) - at + 1 = n
    BY <1>1
  <2> HIDE DEF a, U, n
  <2> QED BY <1>6, <2>1, <2>2, SubSeqProperties
<1>8. \A j \in 0..(n - 1) : s[j + 1] = Low(text[at + j]) /\ b[j + 1] = Low(phrase[j + 1])
  <2>1. ASSUME NEW j \in 0..(n - 1)
        PROVE  s[j + 1] = Low(text[at + j]) /\ b[j + 1] = Low(phrase[j + 1])
    <3>1. j + 1 \in 1..n /\ at + (j + 1) - 1 = at + j /\ at + j \in at..(at + n - 1)
      BY <1>1
    <3>2. s[j + 1] = a[at + (j + 1) - 1]
      BY <1>7, <3>1
    <3>3. a[at + j] = Low(text[at + j]) /\ b[j + 1] = Low(phrase[j + 1])
      BY <1>2, <1>5, <3>1
    <3> HIDE DEF a, b, s, n
    <3> QED BY <3>1, <3>2, <3>3
  <2> QED BY <2>1
<1> HIDE DEF s, a, b, U
<1>9. ASSUME s = b PROVE \A j \in 0..(n - 1) : Low(text[at + j]) = Low(phrase[j + 1])
  BY <1>8, <1>9
<1>10. ASSUME \A j \in 0..(n - 1) : Low(text[at + j]) = Low(phrase[j + 1]) PROVE s = b
  <2>1. ASSUME NEW i \in 1..n PROVE s[i] = b[i]
    <3>1. i - 1 \in 0..(n - 1) /\ (i - 1) + 1 = i
      BY <1>1
    <3> QED BY <1>8, <1>10, <3>1
  <2> HIDE DEF n
  <2> QED BY <1>3, <1>7, <2>1, SeqEqual
<1> QED BY <1>9, <1>10

\* What begins at i is its first character and what begins after that.
LEMMA CutFirst ==
  ASSUME NEW text \in Text, NEW i \in 1..Len(text), NEW m \in i..Len(text)
  PROVE  /\ SubSeq(text, i, m) = <<text[i]>> \o SubSeq(text, i + 1, m)
         /\ SubSeq(text, i, i) = <<text[i]>> /\ <<text[i]>> \in Text
         /\ SubSeq(text, i + 1, m) \in Text
<1>1. Len(text) \in Nat /\ i \in Nat /\ m \in Nat /\ \A j \in 1..Len(text) : text[j] \in Symbol
  BY DEF Text
<1>2. <<text[i]>> \in Seq(Symbol) /\ Len(<<text[i]>>) = 1 /\ <<text[i]>>[1] = text[i]
  BY <1>1, OneSymbol
<1> DEFINE a == SubSeq(text, i, m)
           b == SubSeq(text, i + 1, m)
           c == SubSeq(text, i, i)
           one == <<text[i]>>
<1>3. a \in Seq(Symbol) /\ Len(a) = m - i + 1 /\ \A k \in 1..(m - i + 1) : a[k] = text[i + k - 1]
  BY <1>1, SubSeqProperties
<1>4. /\ b \in Seq(Symbol) /\ Len(b) = m - i
      /\ \A k \in 1..(m - i) : b[k] = text[i + k]
  <2>1. \A k \in (i + 1)..m : text[k] \in Symbol
    BY <1>1
  <2>2. /\ b \in Seq(Symbol) /\ Len(b) = IF i + 1 <= m THEN m - (i + 1) + 1 ELSE 0
        /\ \A k \in 1..(m - (i + 1) + 1) : b[k] = text[(i + 1) + k - 1]
    BY <1>1, <2>1, SubSeqProperties
  <2>3. \A k \in 1..(m - i) : k \in 1..(m - (i + 1) + 1) /\ (i + 1) + k - 1 = i + k
    BY <1>1
  <2> HIDE DEF b
  <2> QED BY <1>1, <2>2, <2>3
<1>5. c \in Seq(Symbol) /\ Len(c) = 1 /\ c[1] = text[i]
  BY <1>1, SubSeqProperties
<1>6. one \in Seq(Symbol) /\ Len(one) = 1 /\ one[1] = text[i]
  BY <1>2
<1> HIDE DEF a, b, c, one
<1>7. c = one
  BY <1>5, <1>6, SeqEqual
<1>8. a = one \o b
  <2>1. /\ one \o b \in Seq(Symbol) /\ Len(one \o b) = 1 + (m - i)
        /\ \A k \in 1..(1 + (m - i)) : (one \o b)[k] = IF k <= 1 THEN one[k] ELSE b[k - 1]
    <3>1. /\ one \o b \in Seq(Symbol) /\ Len(one \o b) = Len(one) + Len(b)
          /\ \A k \in 1..(Len(one) + Len(b)) :
               (one \o b)[k] = IF k <= Len(one) THEN one[k] ELSE b[k - Len(one)]
      BY <1>4, <1>6, ConcatProperties
    <3> QED BY <1>4, <1>6, <3>1
  <2>2. ASSUME NEW k \in 1..(m - i + 1) PROVE a[k] = (one \o b)[k]
    <3>1. CASE k = 1
      BY <1>1, <1>3, <1>6, <2>1, <3>1
    <3>2. CASE k # 1
      <4>1. k - 1 \in 1..(m - i) /\ i + (k - 1) = i + k - 1 /\ ~(k <= 1) /\ k \in 1..(1 + (m - i))
        BY <1>1, <3>2
      <4> QED BY <1>3, <1>4, <2>1, <4>1
    <3> QED BY <3>1, <3>2
  <2>3. Len(a) = Len(one \o b)
    BY <1>1, <1>3, <2>1
  <2> QED BY <1>3, <2>1, <2>2, <2>3, SeqEqual
<1> QED BY <1>2, <1>4, <1>7, <1>8 DEF a, b, c, one, Text

\* Texts, one after the other, can be put together in any order.
LEMMA JoinsAssociative ==
  \A x, y, z \in Text : (x \o y) \o z = x \o (y \o z)
BY ConcatAssociative DEF Text

\* Where a phrase is replaced, and what replace_word_ci makes of a text from each position
\* on: where it replaces nothing it takes the next character as it is.
Hit(text, from, i) == Occurs(from, text, i) /\ WholeWord(from, text, i)

Bytes(f, text, from, to) ==
  /\ f \in [1..(Len(text) + 1) -> Text]
  /\ f[Len(text) + 1] = <<>>
  /\ \A i \in 1..Len(text) :
       f[i] = IF Hit(text, from, i) THEN to \o f[i + Len(from)] ELSE <<text[i]>> \o f[i + 1]

\* The search for the next occurrence skips what takes part in none; no phrase that begins
\* with a wide character is among those considered.
LEMMA Bytewise ==
  ASSUME NEW text \in Text, NEW from \in Text, NEW to \in Text, NEW f,
         Replaces(f, text, from, to), from # <<>>, from[1] \notin Wide
  PROVE  Bytes(f, text, from, to)
<1> DEFINE n == Len(text)
           F(i) == Finds(text, from, i)
           at(i) == Min(F(i))
<1>1. n \in Nat /\ Len(from) \in Nat /\ Len(from) >= 1
  BY DEF Text
<1>2. /\ f \in [1..(n + 1) -> Text]
      /\ \A i \in 1..(n + 1) : f[i] = ReplacedFrom(f, text, from, to, i)
  BY DEF Replaces
<1>3. \A i \in 1..(n + 1) : F(i) = {} => f[i] = SubSeq(text, i, n)
  BY <1>2 DEF ReplacedFrom
<1>4. \A i \in 1..(n + 1) : F(i) # {} /\ Hit(text, from, at(i)) =>
        f[i] = SubSeq(text, i, at(i) - 1) \o to \o f[at(i) + Len(from)]
  BY <1>2 DEF ReplacedFrom, Hit, WholeAt
<1>5. ASSUME NEW i \in 1..(n + 1), F(i) # {}
      PROVE  at(i) \in i..n /\ Occurs(from, text, at(i)) /\ at(i) + Len(from) \in 1..(n + 1)
  <2>1. F(i) \in SUBSET Nat
    BY <1>1 DEF Finds
  <2>2. at(i) \in F(i)
    BY <1>5, <2>1, MinExists
  <2>3. at(i) \in i..n /\ Occurs(from, text, at(i))
    <3> HIDE DEF at
    <3> QED BY <2>2 DEF Finds
  <2>4. at(i) + Len(from) - 1 <= n
    <3> HIDE DEF at
    <3> QED BY <2>3 DEF Occurs
  <2> HIDE DEF F, at
  <2> QED BY <1>1, <2>3, <2>4
<1>6. \A i \in 1..(n + 1) : F(i) # {} /\ ~Hit(text, from, at(i)) =>
        f[i] = SubSeq(text, i, at(i)) \o f[at(i) + 1]
  <2> SUFFICES ASSUME NEW i \in 1..(n + 1), F(i) # {}, ~Hit(text, from, at(i))
               PROVE  f[i] = SubSeq(text, i, at(i)) \o f[at(i) + 1]
    OBVIOUS
  <2>1. ~WholeAt(text, from, i)
    BY <1>5 DEF Hit, WholeAt
  <2> QED BY <1>2, <2>1 DEF ReplacedFrom
<1>7. f[n + 1] = <<>>
  <2>1. n + 1 \in 1..(n + 1) /\ F(n + 1) = {}
    BY <1>1 DEF Finds
  <2>2. SubSeq(text, n + 1, n) = <<>>
    BY <1>1, SubSeqEmpty
  <2> QED BY <1>3, <2>1, <2>2
<1>8. ASSUME NEW i \in 1..n, Occurs(from, text, i)
      PROVE  f[i] = IF Hit(text, from, i) THEN to \o f[i + Len(from)] ELSE <<text[i]>> \o f[i + 1]
  <2>1. i \in F(i) /\ i \in 1..(n + 1)
    BY <1>1, <1>8 DEF Finds
  <2>2. at(i) = i
    <3>1. F(i) \in SUBSET Int /\ \A y \in F(i) : i <= y
      BY <1>1 DEF Finds
    <3> HIDE DEF F
    <3> QED BY <2>1, <3>1, MinIs
  <2>3. F(i) # {}
    BY <2>1
  <2> HIDE DEF F, at
  <2>4. CASE Hit(text, from, i)
    <3>1. f[i] = SubSeq(text, i, i - 1) \o to \o f[i + Len(from)]
      BY <1>4, <2>1, <2>2, <2>3, <2>4
    <3>2. SubSeq(text, i, i - 1) = <<>>
      BY <1>1, SubSeqEmpty
    <3>3. <<>> \o to = to
      BY ConcatEmptySeq DEF Text
    <3> QED BY <2>4, <3>1, <3>2, <3>3
  <2>5. CASE ~Hit(text, from, i)
    <3>1. f[i] = SubSeq(text, i, i) \o f[i + 1]
      BY <1>6, <2>1, <2>2, <2>3, <2>5
    <3>2. SubSeq(text, i, i) = <<text[i]>>
      <4>1. i \in i..Len(text)
        BY <1>1
      <4> QED BY <4>1, CutFirst
    <3> QED BY <2>5, <3>1, <3>2
  <2> QED BY <2>4, <2>5
<1>9. ASSUME NEW i \in 1..n, ~Occurs(from, text, i)
      PROVE  f[i] = <<text[i]>> \o f[i + 1]
  <2>1. i \in 1..(n + 1) /\ i + 1 \in 1..(n + 1) /\ F(i) = F(i + 1) /\ n \in i..Len(text)
    BY <1>1, <1>9 DEF Finds
  <2>2. CASE F(i) = {}
    <3>1. f[i] = SubSeq(text, i, n) /\ f[i + 1] = SubSeq(text, i + 1, n)
      BY <1>3, <2>1, <2>2
    <3> QED BY <2>1, <3>1, CutFirst
  <2>3. CASE F(i) # {}
    <3> DEFINE k == at(i)
    <3>1. k = at(i + 1)
      BY <2>1
    <3>2. k \in (i + 1)..n /\ k + Len(from) \in 1..(n + 1) /\ k \in i..Len(text)
      <4>1. at(i + 1) \in (i + 1)..n /\ at(i + 1) + Len(from) \in 1..(n + 1)
        BY <1>5, <2>1, <2>3
      <4> HIDE DEF at, F
      <4> QED BY <1>1, <3>1, <4>1
    <3>3. \A x, y, z \in Text : (x \o y) \o z = x \o (y \o z)
      BY JoinsAssociative
    <3> HIDE DEF F, at
    <3>4. CASE Hit(text, from, k)
      <4>1. /\ f[i] = SubSeq(text, i, k - 1) \o to \o f[k + Len(from)]
            /\ f[i + 1] = SubSeq(text, i + 1, k - 1) \o to \o f[k + Len(from)]
        BY <1>4, <2>1, <2>3, <3>1, <3>4
      <4> DEFINE rest == f[k + Len(from)]
                 head == <<text[i]>>
                 mid == SubSeq(text, i + 1, k - 1)
      <4>2. SubSeq(text, i, k - 1) = head \o mid /\ head \in Text /\ mid \in Text /\ rest \in Text
        <5>1. k - 1 \in i..Len(text)
          BY <1>1, <3>2
        <5> QED BY <1>2, <3>2, <5>1, CutFirst
      <4> HIDE DEF rest, head, mid
      <4>3. ((head \o mid) \o to) \o rest = head \o ((mid \o to) \o rest)
        <5>1. mid \o to \in Text
          BY <4>2, JoinsTyped
        <5>2. (head \o mid) \o to = head \o (mid \o to)
          BY <3>3, <4>2
        <5>3. \A u \in Text : (head \o u) \o rest = head \o (u \o rest)
          BY <3>3, <4>2
        <5>4. (head \o (mid \o to)) \o rest = head \o ((mid \o to) \o rest)
          BY <5>1, <5>3
        <5> QED BY <5>2, <5>4
      <4> QED BY <4>1, <4>2, <4>3 DEF rest, head, mid
    <3>5. CASE ~Hit(text, from, k)
      <4>1. /\ f[i] = SubSeq(text, i, k) \o f[k + 1]
            /\ f[i + 1] = SubSeq(text, i + 1, k) \o f[k + 1]
        BY <1>6, <2>1, <2>3, <3>1, <3>5
      <4> DEFINE rest == f[k + 1]
                 head == <<text[i]>>
                 mid == SubSeq(text, i + 1, k)
      <4>2. SubSeq(text, i, k) = head \o mid /\ head \in Text /\ mid \in Text /\ rest \in Text
        <5>1. k + 1 \in 1..(n + 1)
          BY <1>1, <3>2
        <5> QED BY <1>2, <3>2, <5>1, CutFirst
      <4> HIDE DEF rest, head, mid
      <4>3. (head \o mid) \o rest = head \o (mid \o rest)
        BY <3>3, <4>2
      <4> QED BY <4>1, <4>2, <4>3 DEF rest, head, mid
    <3> QED BY <3>4, <3>5
  <2> QED BY <2>2, <2>3
<1>10. \A i \in 1..n : Hit(text, from, i) => Occurs(from, text, i)
  BY DEF Hit
<1> QED BY <1>2, <1>7, <1>8, <1>9, <1>10 DEF Bytes

-----------------------------------------------------------------------------
(* A text with some of its spans replaced *)

\* What Plain says of a table, character by character.
PlainTable(corrections) ==
  \A phrase \in DOMAIN corrections :
    /\ phrase \in Text /\ phrase # <<>> /\ Len(phrase) \in Nat /\ Len(phrase) >= 1
    /\ phrase[1] \in WordByte /\ phrase[1] \notin Wide /\ phrase[Len(phrase)] \in WordByte
    /\ corrections[phrase] \in Seq(Chars) /\ Len(corrections[phrase]) \in Nat
    /\ Len(corrections[phrase]) >= 1
    /\ \A other \in DOMAIN corrections :
         \A i \in 1..Len(phrase), j \in 1..Len(corrections[other]) :
           Low(phrase[i]) # Low(corrections[other][j])

\* It says so of every plain table.
LEMMA PlainIs ==
  ASSUME NEW corrections, IsTable(corrections), Plain(corrections)
  PROVE  PlainTable(corrections)
<1>1. ASSUME NEW phrase \in DOMAIN corrections
      PROVE  /\ phrase \in Text /\ Len(phrase) \in Nat /\ DOMAIN phrase = 1..Len(phrase)
             /\ corrections[phrase] \in Seq(Chars) /\ Len(corrections[phrase]) \in Nat
             /\ DOMAIN corrections[phrase] = 1..Len(corrections[phrase])
  <2>1. Range(Alphabet) \subseteq Symbol /\ STRING \ {Panic} \subseteq Chars
    BY AlphabetAssumption DEF Range, Symbol, Chars
  <2>2. phrase \in Seq(Range(Alphabet)) /\ corrections[phrase] \in Seq(STRING \ {Panic})
    BY DEF IsTable
  <2>3. phrase \in Seq(Symbol)
    BY <2>1, <2>2, WiderSeq
  <2>4. corrections[phrase] \in Seq(Chars)
    BY <2>1, <2>2, WiderSeq
  <2> HIDE DEF Chars, Symbol
  <2> QED BY <2>3, <2>4 DEF Text
<1>2. ASSUME NEW phrase \in DOMAIN corrections
      PROVE  /\ phrase # <<>> /\ phrase[1] \in WordByte /\ Last(phrase) \in WordByte
             /\ corrections[phrase] # <<>>
  BY DEF Plain
<1>3. ASSUME NEW phrase \in DOMAIN corrections
      PROVE  Len(phrase) >= 1 /\ Len(corrections[phrase]) >= 1
  <2>1. phrase # <<>> /\ corrections[phrase] # <<>>
    BY <1>2
  <2>2. phrase \in Seq(Symbol) /\ corrections[phrase] \in Seq(Chars)
    BY <1>1 DEF Text
  <2>3. Len(phrase) # 0 /\ Len(corrections[phrase]) # 0
    <3> HIDE DEF Chars, Symbol
    <3> QED BY <2>1, <2>2
  <2> QED BY <1>1, <2>3
<1>4. ASSUME NEW phrase \in DOMAIN corrections, NEW other \in DOMAIN corrections,
             NEW i \in 1..Len(phrase), NEW j \in 1..Len(corrections[other])
      PROVE  Low(phrase[i]) # Low(corrections[other][j])
  <2>1. i \in DOMAIN phrase /\ j \in DOMAIN corrections[other]
    BY <1>1
  <2>2. Lowered(phrase)[i] # Lowered(corrections[other])[j]
    BY <2>1 DEF Plain
  <2> QED BY <2>1, <2>2 DEF Lowered, Low
<1>5. \A phrase \in DOMAIN corrections : phrase[1] \notin Wide
  BY <1>2, AlphabetAssumption
<1> QED BY <1>1, <1>2, <1>3, <1>4, <1>5 DEF PlainTable, Last

\* Spans of a text of which no two overlap, and what lies outside of them.
Disjoint(C) == \A s, z \in C : \A i : Covers(s, i) /\ Covers(z, i) => s = z
Free(C, i) == \A s \in C : ~Covers(s, i)

Setting(text, corrections, C) ==
  /\ text \in Seq(Chars) /\ PlainTable(corrections)
  /\ C \in SUBSET Spans(text, corrections) /\ Disjoint(C)

Marks(s, text, corrections) ==
  /\ s.phrase \in DOMAIN corrections /\ s = [phrase |-> s.phrase, at |-> s.at]
  /\ s.at \in 1..Len(text) /\ s.at + Len(s.phrase) \in 1..(Len(text) + 1)
  /\ Len(s.phrase) \in Nat /\ Len(s.phrase) >= 1 /\ Hit(text, s.phrase, s.at)

\* The spans are the whole-word occurrences.
LEMMA SpansAre ==
  ASSUME NEW text \in Seq(Chars), NEW corrections, PlainTable(corrections)
  PROVE  /\ \A s \in Spans(text, corrections) : Marks(s, text, corrections)
         /\ \A phrase \in DOMAIN corrections : \A i \in 1..Len(text) :
              [phrase |-> phrase, at |-> i] \in Spans(text, corrections) <=> Hit(text, phrase, i)
<1>1. Len(text) \in Nat /\ DOMAIN text = 1..Len(text)
  OBVIOUS
<1>2. ASSUME NEW s \in Spans(text, corrections) PROVE Marks(s, text, corrections)
  <2>1. PICK phrase \in DOMAIN corrections, at \in DOMAIN text : s = [phrase |-> phrase, at |-> at]
    BY DEF Spans, Occurrences
  <2>2. s.phrase = phrase /\ s.at = at
    BY <2>1
  <2>3. Hit(text, phrase, at)
    BY <2>2 DEF Spans, Hit
  <2>4. at + Len(phrase) - 1 <= Len(text)
    BY <2>3 DEF Hit, Occurs
  <2>5. Len(phrase) \in Nat /\ Len(phrase) >= 1
    BY DEF PlainTable
  <2>6. at \in 1..Len(text) /\ at + Len(phrase) \in 1..(Len(text) + 1)
    BY <1>1, <2>4, <2>5
  <2> QED BY <2>1, <2>2, <2>3, <2>5, <2>6 DEF Marks
<1>3. ASSUME NEW phrase \in DOMAIN corrections, NEW i \in 1..Len(text)
      PROVE  [phrase |-> phrase, at |-> i] \in Spans(text, corrections) <=> Hit(text, phrase, i)
  BY <1>1 DEF Spans, Occurrences, Hit
<1> QED BY <1>2, <1>3

\* The spans of a setting are whole-word occurrences.
LEMMA SettingMarks ==
  ASSUME NEW text, NEW corrections, NEW C, Setting(text, corrections, C), NEW s \in C
  PROVE  Marks(s, text, corrections)
BY SpansAre DEF Setting

\* The text with the spans of C replaced: Corrected, for any such set.
Piece(text, corrections, C, i) ==
  LET begun == {span \in C : span.at = i}
  IN IF \E span \in C : Covers(span, i) /\ span.at # i THEN <<>>
     ELSE IF begun = {} THEN <<text[i]>>
     ELSE corrections[(CHOOSE span \in begun : TRUE).phrase]

Rendered(text, corrections, C) ==
  FlattenSeq([i \in DOMAIN text |-> Piece(text, corrections, C, i)])

\* The pieces the text is rendered from.
LEMMA PieceIs ==
  ASSUME NEW text, NEW corrections, NEW C, Setting(text, corrections, C)
  PROVE  /\ \A i \in 1..Len(text) : Piece(text, corrections, C, i) \in Seq(Chars)
         /\ \A i \in 1..Len(text) : Free(C, i) => Piece(text, corrections, C, i) = <<text[i]>>
         /\ \A s \in C : Piece(text, corrections, C, s.at) = corrections[s.phrase]
         /\ \A s \in C : \A j \in 1..(Len(s.phrase) - 1) :
              Piece(text, corrections, C, s.at + j) = <<>>
<1> DEFINE P(i) == Piece(text, corrections, C, i)
           Begin(i) == {span \in C : span.at = i}
           Inside(i) == \E span \in C : Covers(span, i) /\ span.at # i
<1>1. ASSUME NEW s \in C
      PROVE  /\ s.at \in 1..Len(text) /\ Len(s.phrase) \in Nat /\ Len(s.phrase) >= 1
             /\ s.phrase \in DOMAIN corrections /\ Len(text) \in Nat
  <2>1. Marks(s, text, corrections) /\ text \in Seq(Chars)
    BY SettingMarks DEF Setting
  <2> QED BY <2>1 DEF Marks
<1>2. \A s \in C : Covers(s, s.at)
  BY <1>1 DEF Covers
<1>3. ASSUME NEW s \in C PROVE P(s.at) = corrections[s.phrase]
  <2>1. ~Inside(s.at)
    BY <1>2 DEF Setting, Disjoint
  <2>2. \A z \in Begin(s.at) : z = s
    BY <1>2 DEF Setting, Disjoint
  <2>3. s \in Begin(s.at)
    OBVIOUS
  <2>4. (CHOOSE span \in Begin(s.at) : TRUE) = s
    <3> HIDE DEF Begin
    <3> QED BY <2>2, <2>3
  <2> QED BY <2>1, <2>3, <2>4 DEF Piece
<1>4. ASSUME NEW s \in C, NEW j \in 1..(Len(s.phrase) - 1) PROVE P(s.at + j) = <<>>
  <2>1. Covers(s, s.at + j) /\ s.at # s.at + j
    BY <1>1 DEF Covers
  <2> QED BY <2>1 DEF Piece
<1>5. ASSUME NEW i \in 1..Len(text), Free(C, i) PROVE P(i) = <<text[i]>>
  <2>1. ~Inside(i)
    BY <1>5 DEF Free
  <2>2. Begin(i) = {}
    BY <1>2, <1>5 DEF Free
  <2> QED BY <2>1, <2>2 DEF Piece
<1>6. ASSUME NEW i \in 1..Len(text) PROVE P(i) \in Seq(Chars)
  <2>1. text[i] \in Chars
    BY <1>6 DEF Setting
  <2>2. <<text[i]>> \in Seq(Chars) /\ <<>> \in Seq(Chars)
    <3> HIDE DEF Chars
    <3> QED BY <2>1
  <2>3. CASE Inside(i)
    BY <2>2, <2>3 DEF Piece
  <2>4. CASE ~Inside(i) /\ Begin(i) = {}
    BY <2>2, <2>4 DEF Piece
  <2>5. CASE ~Inside(i) /\ Begin(i) # {}
    <3>1. PICK s \in C : s.at = i
      BY <2>5
    <3>2. P(i) = corrections[s.phrase]
      BY <1>3, <3>1
    <3>3. corrections[s.phrase] \in Seq(Chars)
      BY <1>1 DEF Setting, PlainTable
    <3> QED BY <3>2, <3>3
  <2> QED BY <2>3, <2>4, <2>5
<1> QED BY <1>3, <1>4, <1>5, <1>6

\* What the text with its spans replaced is from each position on.
Renders(r, text, corrections, C) ==
  /\ r \in [1..(Len(text) + 1) -> Seq(Chars)] /\ r[Len(text) + 1] = <<>>
  /\ \A i \in 1..Len(text) : Free(C, i) => r[i] = <<text[i]>> \o r[i + 1]
  /\ \A s \in C : r[s.at] = corrections[s.phrase] \o r[s.at + Len(s.phrase)]
  /\ \A k \in 1..(Len(text) + 1) : \E u \in Seq(Chars) : r[1] = u \o r[k]

\* A rendering has such ends.
LEMMA Rendering ==
  ASSUME NEW text, NEW corrections, NEW C, Setting(text, corrections, C)
  PROVE  \E r : Renders(r, text, corrections, C) /\ Rendered(text, corrections, C) = r[1]
<1> DEFINE n == Len(text)
           pieces == [i \in DOMAIN text |-> Piece(text, corrections, C, i)]
<1>1. text \in Seq(Chars)
  BY DEF Setting
<1>2. n \in Nat /\ DOMAIN text = 1..n
  BY <1>1
<1> DEFINE P(i) == Piece(text, corrections, C, i)
<1>3. /\ \A i \in 1..n : P(i) \in Seq(Chars)
      /\ \A i \in 1..n : Free(C, i) => P(i) = <<text[i]>>
      /\ \A s \in C : P(s.at) = corrections[s.phrase]
      /\ \A s \in C : \A j \in 1..(Len(s.phrase) - 1) : P(s.at + j) = <<>>
  BY PieceIs
<1>4. pieces \in Seq(Seq(Chars)) /\ Len(pieces) = n
  <2> HIDE DEF n, P
  <2>1. pieces = [i \in 1..n |-> P(i)]
    BY <1>2 DEF P
  <2> HIDE DEF pieces
  <2> QED BY <1>2, <1>3, <2>1
<1>5. \A i \in 1..n : pieces[i] = Piece(text, corrections, C, i)
  BY <1>2
<1>6. Rendered(text, corrections, C) = FlattenSeq(pieces)
  BY DEF Rendered
<1> HIDE DEF pieces
<1>7. PICK r : Remains(r, Chars, pieces) /\ FlattenSeq(pieces) = r[1]
  BY <1>4, Remaining
<1> HIDE DEF n, P
<1>8. /\ r \in [1..(n + 1) -> Seq(Chars)] /\ r[n + 1] = <<>>
      /\ \A k \in 1..n : r[k] = P(k) \o r[k + 1]
      /\ \A k \in 1..(n + 1) : \E u \in Seq(Chars) : r[1] = u \o r[k]
  BY <1>5, <1>7, <1>4 DEF Remains, P
<1>9. \A i \in 1..n : Free(C, i) => r[i] = <<text[i]>> \o r[i + 1]
  BY <1>3, <1>8
<1>10. ASSUME NEW s \in C
      PROVE  r[s.at] = corrections[s.phrase] \o r[s.at + Len(s.phrase)]
  <2> DEFINE L == Len(s.phrase)
             Good == {j \in Nat : j \in 1..L => r[s.at + j] = r[s.at + 1]}
  <2>1. s.at \in 1..n /\ L \in Nat /\ L >= 1 /\ s.at + L \in 1..(n + 1)
    BY SettingMarks DEF Marks, n
  <2> HIDE DEF L
  <2>2. ASSUME NEW j \in Nat, \A k \in Nat : k < j => k \in Good PROVE j \in Good
    <3>1. CASE j \in 1..L /\ j # 1
      <4>1. j - 1 \in Nat /\ j - 1 < j /\ j - 1 \in 1..(L - 1) /\ j - 1 \in 1..L
        BY <2>1, <3>1
      <4>2. r[s.at + (j - 1)] = r[s.at + 1]
        BY <2>2, <4>1
      <4>3. s.at + (j - 1) \in 1..n /\ (s.at + (j - 1)) + 1 = s.at + j /\ s.at + j \in 1..(n + 1)
        BY <1>2, <2>1, <3>1
      <4>4. r[s.at + (j - 1)] = <<>> \o r[s.at + j]
        <5>1. P(s.at + (j - 1)) = <<>>
          BY <1>3, <4>1 DEF L
        <5> QED BY <1>8, <4>3, <5>1
      <4>5. <<>> \o r[s.at + j] = r[s.at + j]
        <5>1. r[s.at + j] \in Seq(Chars)
          BY <1>8, <4>3
        <5> QED BY <5>1, ConcatEmptySeq
      <4> QED BY <4>2, <4>4, <4>5
    <3>2. CASE ~(j \in 1..L /\ j # 1)
      BY <3>2
    <3> QED BY <3>1, <3>2
  <2>3. Nat \subseteq Good
    <3> HIDE DEF Good
    <3> QED BY <2>2, NumberInduction
  <2>4. r[s.at + L] = r[s.at + 1]
    <3>1. L \in Good /\ L \in 1..L
      <4> HIDE DEF Good
      <4> QED BY <2>1, <2>3
    <3> QED BY <3>1
  <2>5. r[s.at] = corrections[s.phrase] \o r[s.at + 1]
    BY <1>3, <1>8, <2>1
  <2> QED BY <2>4, <2>5 DEF L
<1>11. Renders(r, text, corrections, C)
  BY <1>8, <1>9, <1>10 DEF Renders, n
<1> QED BY <1>6, <1>7, <1>11

\* The end of a sequence, and its beginning.
LEMMA EndIs ==
  ASSUME NEW S, NEW x, NEW v \in Seq(S), \E u \in Seq(S) : x = u \o v
  PROVE  /\ x \in Seq(S) /\ Len(v) \in Nat /\ Len(x) \in Nat /\ Len(v) <= Len(x)
         /\ \A j \in 1..Len(v) : x[Len(x) - Len(v) + j] = v[j]
<1>1. PICK u \in Seq(S) : x = u \o v
  OBVIOUS
<1>2. /\ x \in Seq(S) /\ Len(x) = Len(u) + Len(v) /\ Len(u) \in Nat /\ Len(v) \in Nat
      /\ \A i \in 1..(Len(u) + Len(v)) : x[i] = IF i <= Len(u) THEN u[i] ELSE v[i - Len(u)]
  BY <1>1, ConcatProperties
<1>3. ASSUME NEW j \in 1..Len(v) PROVE x[Len(x) - Len(v) + j] = v[j]
  <2>1. /\ Len(x) - Len(v) + j = Len(u) + j /\ Len(u) + j \in 1..(Len(u) + Len(v))
        /\ ~(Len(u) + j <= Len(u)) /\ (Len(u) + j) - Len(u) = j
    BY <1>2
  <2> QED BY <1>2, <2>1
<1> QED BY <1>2, <1>3

\* The first of two sequences put together.
LEMMA StartIs ==
  ASSUME NEW S, NEW a \in Seq(S), NEW b \in Seq(S)
  PROVE  /\ Len(a \o b) = Len(a) + Len(b) /\ Len(a) \in Nat /\ Len(b) \in Nat
         /\ \A j \in 1..Len(a) : (a \o b)[j] = a[j]
<1>1. /\ Len(a \o b) = Len(a) + Len(b) /\ Len(a) \in Nat /\ Len(b) \in Nat
      /\ \A j \in 1..(Len(a) + Len(b)) : (a \o b)[j] = IF j <= Len(a) THEN a[j] ELSE b[j - Len(a)]
  BY ConcatProperties
<1> QED BY <1>1

\* Where each position of a text has come to lie in x, in which its spans are replaced.
Lays(x, pos, text, corrections, C) ==
  /\ x \in Seq(Chars) /\ pos \in [1..(Len(text) + 1) -> 1..(Len(x) + 1)]
  /\ pos[1] = 1 /\ pos[Len(text) + 1] = Len(x) + 1
  /\ \A i \in 1..Len(text) : Free(C, i) =>
       pos[i] \in 1..Len(x) /\ x[pos[i]] = text[i] /\ pos[i + 1] = pos[i] + 1
  /\ \A s \in C :
       /\ pos[s.at + Len(s.phrase)] = pos[s.at] + Len(corrections[s.phrase])
       /\ \A j \in 1..Len(corrections[s.phrase]) :
            x[pos[s.at] + j - 1] = corrections[s.phrase][j]

\* A rendering lays every edge of the text out somewhere.
LEMMA LaysOut ==
  ASSUME NEW text, NEW corrections, NEW C, Setting(text, corrections, C),
         NEW r, Renders(r, text, corrections, C)
  PROVE  \E pos : Lays(r[1], pos, text, corrections, C)
<1> DEFINE n == Len(text)
           x == r[1]
           pos == [i \in 1..(n + 1) |-> Len(x) - Len(r[i]) + 1]
<1>1. n \in Nat /\ text \in Seq(Chars)
  BY DEF Setting
<1>2. r \in [1..(n + 1) -> Seq(Chars)] /\ r[n + 1] = <<>>
  BY DEF Renders
<1>3. ASSUME NEW k \in 1..(n + 1)
      PROVE  /\ r[k] \in Seq(Chars) /\ x \in Seq(Chars) /\ Len(r[k]) \in Nat /\ Len(x) \in Nat
             /\ Len(r[k]) <= Len(x) /\ pos[k] = Len(x) - Len(r[k]) + 1
             /\ \A j \in 1..Len(r[k]) : x[pos[k] + j - 1] = r[k][j]
  <2>1. r[k] \in Seq(Chars) /\ \E u \in Seq(Chars) : x = u \o r[k]
    BY <1>2 DEF Renders
  <2>2. /\ x \in Seq(Chars) /\ Len(r[k]) \in Nat /\ Len(x) \in Nat /\ Len(r[k]) <= Len(x)
        /\ \A j \in 1..Len(r[k]) : x[Len(x) - Len(r[k]) + j] = r[k][j]
    <3> HIDE DEF x
    <3> QED BY <2>1, EndIs
  <2>3. pos[k] = Len(x) - Len(r[k]) + 1
    OBVIOUS
  <2>4. \A j \in 1..Len(r[k]) : pos[k] + j - 1 = Len(x) - Len(r[k]) + j
    BY <2>2, <2>3
  <2> HIDE DEF x, pos
  <2> QED BY <2>1, <2>2, <2>3, <2>4
<1>4. 1 \in 1..(n + 1) /\ n + 1 \in 1..(n + 1) /\ Len(<<>>) = 0
  BY <1>1
<1>5. pos[1] = 1 /\ pos[n + 1] = Len(x) + 1
  <2>1. pos[1] = Len(x) - Len(x) + 1 /\ pos[n + 1] = Len(x) - Len(<<>>) + 1
    BY <1>2, <1>3, <1>4
  <2> HIDE DEF pos, x
  <2> QED BY <1>3, <1>4, <2>1
<1>6. pos \in [1..(n + 1) -> 1..(Len(x) + 1)]
  <2>1. \A k \in 1..(n + 1) : Len(x) - Len(r[k]) + 1 \in 1..(Len(x) + 1)
    <3> HIDE DEF x, pos
    <3> SUFFICES ASSUME NEW k \in 1..(n + 1)
                 PROVE  Len(x) - Len(r[k]) + 1 \in 1..(Len(x) + 1)
      OBVIOUS
    <3>1. Len(x) \in Nat /\ Len(r[k]) \in Nat /\ Len(r[k]) <= Len(x)
      BY <1>3
    <3>2. \A a, b \in Nat : b <= a => a - b + 1 \in 1..(a + 1)
      OBVIOUS
    <3> QED BY <3>1, <3>2
  <2> HIDE DEF x
  <2> QED BY <2>1
<1>7. ASSUME NEW k \in 1..(n + 1), NEW m \in 1..(n + 1), NEW a \in Seq(Chars), r[k] = a \o r[m]
      PROVE  pos[m] = pos[k] + Len(a) /\ \A j \in 1..Len(a) : x[pos[k] + j - 1] = a[j]
  <2> HIDE DEF x, pos
  <2>1. /\ Len(r[k]) = Len(a) + Len(r[m]) /\ Len(a) \in Nat /\ Len(r[m]) \in Nat
        /\ \A j \in 1..Len(a) : r[k][j] = a[j]
    BY <1>3, <1>7, StartIs
  <2>2. pos[m] = pos[k] + Len(a)
    <3>1. /\ Len(x) \in Nat /\ pos[k] = Len(x) - Len(r[k]) + 1
          /\ pos[m] = Len(x) - Len(r[m]) + 1
      BY <1>3
    <3> QED BY <2>1, <3>1
  <2>3. \A j \in 1..Len(a) : j \in 1..Len(r[k])
    BY <2>1
  <2> QED BY <1>3, <2>1, <2>2, <2>3
<1>8. ASSUME NEW i \in 1..n, Free(C, i)
      PROVE  pos[i] \in 1..Len(x) /\ x[pos[i]] = text[i] /\ pos[i + 1] = pos[i] + 1
  <2> HIDE DEF x, pos
  <2>1. i \in 1..(n + 1) /\ i + 1 \in 1..(n + 1) /\ text[i] \in Chars
    BY <1>1
  <2> DEFINE a == <<text[i]>>
  <2>2. a \in Seq(Chars) /\ Len(a) = 1 /\ a[1] = text[i]
    <3> HIDE DEF Chars
    <3> QED BY <2>1
  <2>3. r[i] = a \o r[i + 1]
    BY <1>8 DEF Renders
  <2> HIDE DEF a
  <2>4. pos[i + 1] = pos[i] + 1 /\ x[pos[i] + 1 - 1] = text[i]
    <3>1. /\ pos[i + 1] = pos[i] + Len(a)
          /\ \A j \in 1..Len(a) : x[pos[i] + j - 1] = a[j]
      BY <1>7, <2>1, <2>2, <2>3
    <3>2. 1 \in 1..Len(a)
      BY <2>2
    <3> QED BY <2>2, <3>1, <3>2
  <2>5. pos[i] \in 1..(Len(x) + 1) /\ pos[i + 1] \in 1..(Len(x) + 1) /\ Len(x) \in Nat
    BY <1>3, <1>6, <2>1
  <2>6. pos[i] \in 1..Len(x) /\ pos[i] + 1 - 1 = pos[i]
    BY <2>4, <2>5
  <2> QED BY <2>4, <2>6
<1>9. ASSUME NEW s \in C
      PROVE  /\ pos[s.at + Len(s.phrase)] = pos[s.at] + Len(corrections[s.phrase])
             /\ \A j \in 1..Len(corrections[s.phrase]) :
                  x[pos[s.at] + j - 1] = corrections[s.phrase][j]
  <2> HIDE DEF x, pos
  <2>1. Marks(s, text, corrections)
    BY SettingMarks
  <2>2. s.at \in 1..(n + 1) /\ s.at + Len(s.phrase) \in 1..(n + 1)
    BY <1>1, <2>1 DEF Marks
  <2>3. corrections[s.phrase] \in Seq(Chars)
    BY <2>1 DEF Marks, Setting, PlainTable
  <2>4. r[s.at] = corrections[s.phrase] \o r[s.at + Len(s.phrase)]
    BY DEF Renders
  <2> QED BY <1>7, <2>2, <2>3, <2>4
<1>10. Lays(x, pos, text, corrections, C)
  <2>1. x \in Seq(Chars)
    BY <1>3, <1>4
  <2> HIDE DEF x, pos
  <2> QED BY <1>5, <1>6, <1>8, <1>9, <2>1 DEF Lays
<1> QED BY <1>10

\* Beside a character of a word that lies outside of the spans there is no span: spans are
\* whole words.
LEMMA Beside ==
  ASSUME NEW text, NEW corrections, NEW C, Setting(text, corrections, C),
         NEW i \in 1..Len(text), Free(C, i), text[i] \in WordByte,
         NEW k \in 1..Len(text), k = i + 1 \/ k = i - 1
  PROVE  Free(C, k)
<1>1. SUFFICES ASSUME NEW s \in C, Covers(s, k) PROVE FALSE
  BY DEF Free
<1>2. Marks(s, text, corrections) /\ ~Covers(s, i)
  BY SettingMarks DEF Free
<1>3. /\ s.at \in 1..Len(text) /\ Len(s.phrase) \in Nat /\ Len(s.phrase) >= 1
      /\ s.at = 1 \/ text[s.at - 1] \notin WordByte
      /\ s.at + Len(s.phrase) > Len(text) \/ text[s.at + Len(s.phrase)] \notin WordByte
  BY <1>2 DEF Marks, Hit, WholeWord
<1>4. Len(text) \in Nat
  BY DEF Setting
<1>5. k \in s.at..(s.at + Len(s.phrase) - 1) /\ i \notin s.at..(s.at + Len(s.phrase) - 1)
  BY <1>1, <1>2 DEF Covers
<1>6. CASE k = i + 1
  <2>1. s.at = i + 1
    BY <1>3, <1>4, <1>5, <1>6
  <2>2. s.at # 1 /\ s.at - 1 = i
    BY <2>1
  <2> QED BY <1>3, <2>2
<1>7. CASE k = i - 1
  <2>1. s.at + Len(s.phrase) = i
    BY <1>3, <1>4, <1>5, <1>7
  <2>2. ~(i > Len(text))
    BY <1>4
  <2> QED BY <1>3, <2>1, <2>2
<1> QED BY <1>6, <1>7

\* A phrase, and a position outside of the spans.
Scene(x, pos, text, corrections, C, phrase, i) ==
  /\ Setting(text, corrections, C) /\ Lays(x, pos, text, corrections, C)
  /\ phrase \in DOMAIN corrections /\ i \in 1..Len(text) /\ Free(C, i)

Stretch(C, i, m) == \A j \in 0..(m - 1) : Free(C, i + j)

\* What lies outside of the spans stays together.
LEMMA StaysTogether ==
  ASSUME NEW x, NEW pos, NEW text, NEW corrections, NEW C, NEW phrase, NEW i,
         Scene(x, pos, text, corrections, C, phrase, i),
         NEW m \in Nat, i + m <= Len(text) + 1, Stretch(C, i, m)
  PROVE  /\ \A j \in 0..m : pos[i + j] = pos[i] + j
         /\ \A j \in 0..(m - 1) : x[pos[i] + j] = text[i + j] /\ pos[i] + j \in 1..Len(x)
<1> DEFINE n == Len(text)
           Good == {j \in Nat : j <= m => pos[i + j] = pos[i] + j}
<1>1. /\ n \in Nat /\ Len(x) \in Nat /\ i \in 1..n
      /\ pos \in [1..(n + 1) -> 1..(Len(x) + 1)]
  BY DEF Scene, Setting, Lays
<1>2. ASSUME NEW j \in 0..(m - 1)
      PROVE  /\ i + j \in 1..n /\ pos[i + j] \in 1..Len(x) /\ x[pos[i + j]] = text[i + j]
             /\ pos[(i + j) + 1] = pos[i + j] + 1
  <2>1. i + j \in 1..n
    BY <1>1
  <2>2. Free(C, i + j)
    BY DEF Stretch
  <2> QED BY <2>1, <2>2 DEF Scene, Lays
<1>3. pos[i] \in Nat
  <2>1. i \in 1..(n + 1)
    BY <1>1
  <2>2. pos[i] \in 1..(Len(x) + 1)
    BY <1>1, <2>1
  <2> QED BY <1>1, <2>2
<1>4. ASSUME NEW j \in Nat, \A k \in Nat : k < j => k \in Good PROVE j \in Good
  <2>1. CASE j = 0
    <3>1. i + 0 = i /\ pos[i] + 0 = pos[i]
      BY <1>1, <1>3
    <3> QED BY <2>1, <3>1
  <2>2. CASE j # 0 /\ j <= m
    <3>1. j - 1 \in Nat /\ j - 1 < j /\ j - 1 <= m /\ j - 1 \in 0..(m - 1)
      BY <2>2
    <3>2. pos[i + (j - 1)] = pos[i] + (j - 1)
      BY <1>4, <3>1
    <3>3. pos[(i + (j - 1)) + 1] = pos[i + (j - 1)] + 1 /\ (i + (j - 1)) + 1 = i + j
      <4>1. pos[(i + (j - 1)) + 1] = pos[i + (j - 1)] + 1
        BY <1>2, <3>1
      <4>2. (i + (j - 1)) + 1 = i + j
        BY <1>1
      <4> QED BY <4>1, <4>2
    <3>4. pos[i + j] = pos[i] + j
      BY <1>3, <3>2, <3>3
    <3> QED BY <3>4
  <2>3. CASE ~(j <= m)
    BY <2>3
  <2> QED BY <2>1, <2>2, <2>3
<1>5. Nat \subseteq Good
  <2> HIDE DEF Good
  <2> QED BY <1>4, NumberInduction
<1>6. ASSUME NEW j \in 0..m PROVE pos[i + j] = pos[i] + j
  <2>1. j \in Nat /\ j <= m
    OBVIOUS
  <2> QED BY <1>5, <2>1
<1>7. ASSUME NEW j \in 0..(m - 1)
      PROVE  x[pos[i] + j] = text[i + j] /\ pos[i] + j \in 1..Len(x)
  <2>1. pos[i + j] = pos[i] + j
    <3>1. j \in 0..m
      OBVIOUS
    <3> QED BY <1>6, <3>1
  <2>2. pos[i + j] \in 1..Len(x) /\ x[pos[i + j]] = text[i + j]
    BY <1>2
  <2> QED BY <2>1, <2>2
<1> QED BY <1>6, <1>7

\* A phrase is there, as a whole word, if and only if it was there.
LEMMA StaysWhole ==
  ASSUME NEW x, NEW pos, NEW text, NEW corrections, NEW C, NEW phrase, NEW i,
         Scene(x, pos, text, corrections, C, phrase, i),
         i + Len(phrase) <= Len(text) + 1, Stretch(C, i, Len(phrase))
  PROVE  Hit(text, phrase, i) <=> Hit(x, phrase, pos[i])
<1> DEFINE n == Len(text)
           m == Len(phrase)
           e == i + m
           at == pos[i]
<1>1. /\ Setting(text, corrections, C) /\ Lays(x, pos, text, corrections, C)
      /\ text \in Seq(Chars) /\ x \in Seq(Chars) /\ n \in Nat /\ Len(x) \in Nat
      /\ i \in 1..n /\ Free(C, i) /\ pos \in [1..(n + 1) -> 1..(Len(x) + 1)]
      /\ pos[1] = 1 /\ pos[n + 1] = Len(x) + 1
  BY DEF Scene, Setting, Lays
<1>2. /\ phrase \in Text /\ phrase # <<>> /\ m \in Nat /\ m >= 1
      /\ phrase[1] \in WordByte /\ phrase[m] \in WordByte
  BY DEF Scene, Setting, PlainTable
<1>3. /\ \A j \in 0..m : pos[i + j] = at + j
      /\ \A j \in 0..(m - 1) : x[at + j] = text[i + j] /\ at + j \in 1..Len(x)
  BY <1>2, StaysTogether
<1>4. at \in 1..Len(x) /\ x[at] = text[i] /\ pos[e] = at + m /\ e \in 1..(n + 1)
  <2>1. 0 \in 0..(m - 1) /\ m \in 0..m /\ i + 0 = i /\ e \in 1..(n + 1)
    BY <1>1, <1>2
  <2>2. pos[i] \in 1..(Len(x) + 1)
    <3>1. i \in 1..(n + 1)
      BY <1>1
    <3> QED BY <1>1, <3>1
  <2>3. at + 0 = at
    BY <1>1, <2>2
  <2> HIDE DEF at, m
  <2> QED BY <1>3, <2>1, <2>3
<1>5. /\ i + m - 1 <= n /\ i \in 1..(n + 1) /\ e - 1 \in 1..n
      /\ e # n + 1 => e \in 1..n /\ e = (e - 1) + 1
  <2>1. i \in Nat /\ 1 <= i /\ i <= n /\ i + m <= n + 1
    BY <1>1
  <2> HIDE DEF m, n
  <2> QED BY <1>1, <1>2, <2>1
<1> HIDE DEF at, m, n
<1>6. ASSUME NEW j \in 0..(m - 1) PROVE x[at + j] = text[i + j]
  BY <1>3
<1>7. Occurs(phrase, text, i) <=> \A j \in 0..(m - 1) : Low(text[i + j]) = Low(phrase[j + 1])
  BY <1>1, <1>2, <1>5, OccursIs DEF n, m, Text
<1>8. Occurs(phrase, x, at) <=> \A j \in 0..(m - 1) : Low(x[at + j]) = Low(phrase[j + 1])
  <2>1. at + m - 1 <= Len(x) /\ at \in 1..(Len(x) + 1)
    <3>1. m - 1 \in 0..(m - 1)
      BY <1>2
    <3>2. at + (m - 1) \in 1..Len(x)
      BY <1>3, <3>1
    <3> QED BY <1>1, <1>2, <1>4, <3>2
  <2> QED BY <1>1, <1>2, <2>1, OccursIs DEF m, Text
<1>9. Occurs(phrase, text, i) <=> Occurs(phrase, x, at)
  BY <1>6, <1>7, <1>8
<1>10. ASSUME Occurs(phrase, text, i)
      PROVE  WholeWord(phrase, text, i) <=> WholeWord(phrase, x, at)
  <2>1. text[i] \in WordByte /\ text[e - 1] \in WordByte /\ Free(C, e - 1) /\ e - 1 \in 1..n
    <3>1. 0 \in 0..(m - 1) /\ m - 1 \in 0..(m - 1) /\ i + 0 = i /\ i + (m - 1) = e - 1
          /\ 0 + 1 = 1 /\ (m - 1) + 1 = m /\ e - 1 \in 1..n
      BY <1>1, <1>2, <1>4
    <3>2. Low(text[i]) = Low(phrase[1]) /\ Low(text[e - 1]) = Low(phrase[m])
      BY <1>7, <1>10, <3>1
    <3>3. Free(C, e - 1)
      BY <3>1 DEF Stretch, m
    <3> HIDE DEF e
    <3> QED BY <1>2, <3>1, <3>2, <3>3, LowWord
  <2>2. (i = 1 \/ text[i - 1] \notin WordByte) <=> (at = 1 \/ x[at - 1] \notin WordByte)
    <3>1. CASE i = 1
      BY <1>1, <3>1 DEF at
    <3>2. CASE i # 1
      <4>1. i - 1 \in 1..n /\ (i - 1) + 1 = i
        BY <1>1, <3>2
      <4>2. Free(C, i - 1)
        BY <1>1, <2>1, <4>1, Beside DEF n
      <4>3. pos[i - 1] \in 1..Len(x) /\ x[pos[i - 1]] = text[i - 1] /\ pos[i] = pos[i - 1] + 1
        BY <1>1, <4>1, <4>2 DEF Lays, n
      <4>4. at # 1 /\ at - 1 = pos[i - 1]
        BY <4>3 DEF at
      <4> QED BY <3>2, <4>3, <4>4
    <3> QED BY <3>1, <3>2
  <2>3. (e > n \/ text[e] \notin WordByte) <=> (at + m > Len(x) \/ x[at + m] \notin WordByte)
    <3>1. CASE e = n + 1
      <4>1. at + m = Len(x) + 1
        BY <1>1, <1>4, <3>1
      <4> QED BY <1>1, <3>1, <4>1
    <3>2. CASE e # n + 1
      <4>1. e \in 1..n /\ e = (e - 1) + 1
        BY <1>5, <3>2
      <4>2. Free(C, e)
        <5> HIDE DEF e
        <5> QED BY <1>1, <2>1, <4>1, Beside DEF n
      <4>3. pos[e] \in 1..Len(x) /\ x[pos[e]] = text[e]
        BY <1>1, <4>1, <4>2 DEF Lays, n
      <4>4. ~(e > n) /\ ~(at + m > Len(x)) /\ x[at + m] = text[e]
        BY <1>1, <1>4, <4>1, <4>3
      <4> QED BY <4>4
    <3> QED BY <3>1, <3>2
  <2> QED BY <2>2, <2>3 DEF WholeWord, m, n
<1> QED BY <1>9, <1>10 DEF Hit, at

\* No replacement takes part in an occurrence of a phrase.
LEMMA OutsideAll ==
  ASSUME NEW x, NEW pos, NEW text, NEW corrections, NEW C, NEW phrase, NEW i,
         Scene(x, pos, text, corrections, C, phrase, i), Hit(x, phrase, pos[i])
  PROVE  i + Len(phrase) <= Len(text) + 1 /\ Stretch(C, i, Len(phrase))
<1> DEFINE n == Len(text)
           m == Len(phrase)
           at == pos[i]
           Good == {j \in Nat : j < m =>
                      i + j \in 1..n /\ Free(C, i + j) /\ pos[i + j] = at + j}
<1>1. /\ Setting(text, corrections, C) /\ Lays(x, pos, text, corrections, C)
      /\ text \in Seq(Chars) /\ x \in Seq(Chars) /\ n \in Nat /\ Len(x) \in Nat
      /\ i \in 1..n /\ Free(C, i) /\ pos \in [1..(n + 1) -> 1..(Len(x) + 1)]
      /\ pos[n + 1] = Len(x) + 1
  BY DEF Scene, Setting, Lays
<1>2. phrase \in Text /\ phrase # <<>> /\ m \in Nat /\ m >= 1 /\ phrase \in DOMAIN corrections
  BY DEF Scene, Setting, PlainTable
<1>3. at \in 1..(Len(x) + 1)
  <2>1. i \in 1..(n + 1)
    BY <1>1
  <2> HIDE DEF n
  <2> QED BY <1>1, <2>1
<1>4. at + m - 1 <= Len(x) /\ \A j \in 0..(m - 1) : Low(x[at + j]) = Low(phrase[j + 1])
  <2> HIDE DEF at
  <2>1. Occurs(phrase, x, at)
    BY DEF Hit, at
  <2> QED BY <1>1, <1>2, <1>3, <2>1, OccursIs DEF Text
<1> HIDE DEF n, m, at
<1>5. ASSUME NEW j \in Nat, \A k \in Nat : k < j => k \in Good PROVE j \in Good
  <2>1. CASE j = 0
    <3>1. i + 0 = i /\ at + 0 = at
      BY <1>1, <1>3
    <3> QED BY <1>1, <2>1, <3>1 DEF at
  <2>2. CASE j # 0 /\ j < m
    <3>1. j - 1 \in Nat /\ j - 1 < j /\ j - 1 < m /\ j \in 0..(m - 1) /\ (j + 1) \in 1..m
      BY <1>2, <2>2
    <3>2. i + (j - 1) \in 1..n /\ Free(C, i + (j - 1)) /\ pos[i + (j - 1)] = at + (j - 1)
      BY <1>5, <3>1
    <3>3. pos[(i + (j - 1)) + 1] = pos[i + (j - 1)] + 1
      BY <1>1, <3>2 DEF Lays, n
    <3>4. (i + (j - 1)) + 1 = i + j /\ (at + (j - 1)) + 1 = at + j
      BY <1>1, <1>3
    <3>5. pos[i + j] = at + j
      BY <3>2, <3>3, <3>4
    <3>6. i + j \in 1..n
      <4>1. i + j \in 1..(n + 1)
        BY <1>1, <3>2, <3>4
      <4>2. i + j # n + 1
        <5>1. at + j # Len(x) + 1
          BY <1>1, <1>2, <1>3, <1>4, <3>1
        <5> QED BY <1>1, <3>5, <5>1
      <4> QED BY <1>1, <4>1, <4>2
    <3>7. ASSUME NEW s \in C, Covers(s, i + j) PROVE FALSE
      <4>1. Marks(s, text, corrections) /\ ~Covers(s, i + (j - 1))
        BY <1>1, <3>2, SettingMarks DEF Free
      <4>2. s.at \in Nat /\ Len(s.phrase) \in Nat /\ s.phrase \in DOMAIN corrections
        BY <1>1, <4>1 DEF Marks
      <4>3. /\ i + j \in s.at..(s.at + Len(s.phrase) - 1)
            /\ i + (j - 1) \notin s.at..(s.at + Len(s.phrase) - 1)
        BY <3>7, <4>1 DEF Covers
      <4>4. s.at = i + j
        <5> DEFINE k == i + j
                   e == s.at + Len(s.phrase) - 1
        <5>1. k \in Nat /\ i + (j - 1) = k - 1 /\ e \in Int
          BY <1>1, <4>2
        <5>2. k \in s.at..e /\ k - 1 \notin s.at..e
          BY <4>3, <5>1
        <5> HIDE DEF k, e
        <5>3. s.at = k
          BY <4>2, <5>1, <5>2
        <5> QED BY <5>3 DEF k
      <4> DEFINE to == corrections[s.phrase]
      <4>5. to \in Seq(Chars) /\ Len(to) >= 1 /\ Len(to) \in Nat
        BY <1>1, <4>2 DEF Setting, PlainTable
      <4>6. x[pos[s.at] + 1 - 1] = to[1]
        <5>1. 1 \in 1..Len(to)
          BY <4>5
        <5> QED BY <1>1, <5>1 DEF Lays
      <4>7. pos[s.at] + 1 - 1 = at + j
        BY <1>3, <3>5, <4>4
      <4>8. Low(to[1]) = Low(phrase[j + 1])
        BY <1>4, <3>1, <4>6, <4>7
      <4>9. Low(phrase[j + 1]) # Low(to[1])
        <5>1. 1 \in 1..Len(to)
          BY <4>5
        <5> QED BY <1>1, <1>2, <3>1, <4>2, <5>1 DEF Setting, PlainTable, m
      <4> QED BY <4>8, <4>9
    <3> QED BY <3>5, <3>6, <3>7 DEF Free
  <2>3. CASE ~(j < m)
    BY <2>3
  <2> QED BY <2>1, <2>2, <2>3
<1>6. Nat \subseteq Good
  <2> HIDE DEF Good
  <2> QED BY <1>5, NumberInduction
<1>7. ASSUME NEW j \in 0..(m - 1) PROVE i + j \in 1..n /\ Free(C, i + j)
  <2>1. j \in Nat /\ j < m
    BY <1>2
  <2> QED BY <1>6, <2>1
<1>8. i + m <= n + 1
  <2>1. m - 1 \in 0..(m - 1)
    BY <1>2
  <2>2. i + (m - 1) \in 1..n
    BY <1>7, <2>1
  <2> QED BY <1>1, <1>2, <2>2
<1> QED BY <1>7, <1>8 DEF Stretch, n, m

\* So a phrase is found outside of the spans exactly where it was in the text, if it overlaps
\* none of them.
LEMMA FoundAgain ==
  ASSUME NEW x, NEW pos, NEW text, NEW corrections, NEW C, NEW phrase, NEW i,
         Scene(x, pos, text, corrections, C, phrase, i)
  PROVE  Hit(x, phrase, pos[i]) <=> Hit(text, phrase, i) /\ Stretch(C, i, Len(phrase))
<1>1. Hit(text, phrase, i) => i + Len(phrase) <= Len(text) + 1
  <2>1. ASSUME i + Len(phrase) - 1 <= Len(text) PROVE i + Len(phrase) <= Len(text) + 1
    <3>1. i \in Nat /\ Len(phrase) \in Nat /\ Len(text) \in Nat
      BY DEF Scene, Setting, PlainTable
    <3> QED BY <2>1, <3>1
  <2> QED BY <2>1 DEF Hit, Occurs
<1>2. i + Len(phrase) <= Len(text) + 1 /\ Stretch(C, i, Len(phrase)) =>
        (Hit(text, phrase, i) <=> Hit(x, phrase, pos[i]))
  BY StaysWhole
<1>3. Hit(x, phrase, pos[i]) =>
        i + Len(phrase) <= Len(text) + 1 /\ Stretch(C, i, Len(phrase))
  BY OutsideAll
<1> QED BY <1>1, <1>2, <1>3

-----------------------------------------------------------------------------
(* The spans that are to be replaced *)

\* Those of an ordered set that nothing of a higher rank among them is in conflict with.
Kernel(K, P, R, O) ==
  K \subseteq P /\ \A s \in P : s \in K <=> ~\E a \in K : <<a, s>> \in R /\ <<a, s>> \in O

\* A finite set has such a kernel: the element that ranks last never matters to the others.
LEMMA KernelExists ==
  ASSUME NEW P, NEW R, Ranks(P, R), \A a \in P : <<a, a>> \notin R, IsFiniteSet(P), NEW O
  PROVE  \E K : Kernel(K, P, R, O)
<1> DEFINE Good == {k \in Nat : \A Q \in SUBSET P :
                      IsFiniteSet(Q) /\ Cardinality(Q) = k => \E K : Kernel(K, Q, R, O)}
<1>1. ASSUME NEW k \in Nat, \A j \in Nat : j < k => j \in Good
      PROVE  k \in Good
  <2>1. SUFFICES ASSUME NEW Q \in SUBSET P, IsFiniteSet(Q), Cardinality(Q) = k
                 PROVE  \E K : Kernel(K, Q, R, O)
    OBVIOUS
  <2>2. CASE Q = {}
    <3>1. Kernel({}, Q, R, O)
      BY <2>2 DEF Kernel
    <3> QED BY <3>1
  <2>3. CASE Q # {}
    <3>1. PICK m \in Q : \A q \in Q : q # m => <<q, m>> \in R
      BY <2>1, <2>3, LastExists
    <3>2. /\ k # 0 /\ k - 1 \in Nat /\ k - 1 < k
          /\ IsFiniteSet(Q \ {m}) /\ Cardinality(Q \ {m}) = k - 1
      BY <2>1, <3>1, OneLess
    <3>3. k - 1 \in Good
      <4> HIDE DEF Good
      <4> QED BY <1>1, <3>2
    <3>4. PICK K : Kernel(K, Q \ {m}, R, O)
      BY <2>1, <3>2, <3>3
    <3>5. \A q \in Q : q # m => <<m, q>> \notin R
      <4>1. ASSUME NEW q \in Q, q # m, <<m, q>> \in R PROVE FALSE
        <5>1. <<m, m>> \in R
          BY <2>1, <3>1, <4>1 DEF Ranks
        <5> QED BY <2>1, <5>1
      <4> QED BY <4>1
    <3>6. <<m, m>> \notin R
      BY <2>1
    <3>7. K \subseteq Q \ {m} /\ \A s \in Q \ {m} :
            s \in K <=> ~\E a \in K : <<a, s>> \in R /\ <<a, s>> \in O
      BY <3>4 DEF Kernel
    <3>8. CASE \E a \in K : <<a, m>> \in R /\ <<a, m>> \in O
      <4>1. Kernel(K, Q, R, O)
        BY <3>7, <3>8 DEF Kernel
      <4> QED BY <4>1
    <3>9. CASE ~\E a \in K : <<a, m>> \in R /\ <<a, m>> \in O
      <4> DEFINE L == K \cup {m}
      <4>1. ASSUME NEW s \in Q
            PROVE  s \in L <=> ~\E a \in L : <<a, s>> \in R /\ <<a, s>> \in O
        BY <3>5, <3>6, <3>7, <3>9
      <4>2. Kernel(L, Q, R, O)
        BY <3>7, <4>1 DEF Kernel
      <4> QED BY <4>2
    <3> QED BY <3>8, <3>9
  <2> QED BY <2>2, <2>3
<1>2. Nat \subseteq Good
  <2> HIDE DEF Good
  <2> QED BY <1>1, NumberInduction
<1>3. Cardinality(P) \in Good
  BY <1>2, FS_CardinalityType
<1> QED BY <1>3

\* Which of two spans is to be replaced if they overlap.
LEMMA OutranksIs ==
  ASSUME NEW a, NEW b
  PROVE  Outranks(a, b) <=>
           ComesFirst(a.phrase, b.phrase) \/ (a.phrase = b.phrase /\ a.at < b.at)
BY DEF Outranks, ComesFirst

\* The spans are ordered by it.
LEMMA SpansRanked ==
  ASSUME NEW text \in Seq(Chars), NEW corrections, IsTable(corrections), PlainTable(corrections)
  PROVE  LET P == Spans(text, corrections)
             R == {pair \in P \X P : Outranks(pair[1], pair[2])}
         IN  Ranks(P, R) /\ \A a \in P : <<a, a>> \notin R
<1> DEFINE P == Spans(text, corrections)
           R == {pair \in P \X P : Outranks(pair[1], pair[2])}
<1>1. \A a, b \in P : <<a, b>> \in R <=> Outranks(a, b)
  OBVIOUS
<1>2. ASSUME NEW a \in P
      PROVE  a.phrase \in Phrase /\ a.at \in Nat /\ a = [phrase |-> a.phrase, at |-> a.at]
  <2>1. Marks(a, text, corrections)
    BY SpansAre
  <2> QED BY <2>1 DEF Marks, IsTable, Phrase, Letter
<1> HIDE DEF P, R
<1>3. ASSUME NEW a \in P, NEW b \in P, a # b PROVE Outranks(a, b) \/ Outranks(b, a)
  <2>1. a.phrase # b.phrase \/ a.at # b.at
    BY <1>2, <1>3
  <2>2. CASE a.phrase # b.phrase
    <3>1. ComesFirst(a.phrase, b.phrase) \/ ComesFirst(b.phrase, a.phrase)
      BY <1>2, <2>2, ComesFirstTotal
    <3> QED BY <3>1, OutranksIs
  <2>3. CASE a.phrase = b.phrase
    <3>1. a.at < b.at \/ b.at < a.at
      BY <1>2, <2>1, <2>3
    <3> QED BY <2>3, <3>1, OutranksIs
  <2> QED BY <2>2, <2>3
<1>4. ASSUME NEW a \in P PROVE ~Outranks(a, a)
  <2>1. ~ComesFirst(a.phrase, a.phrase) /\ ~(a.at < a.at)
    BY <1>2, ComesFirstTotal
  <2> QED BY <2>1, OutranksIs
<1>5. ASSUME NEW a \in P, NEW b \in P, NEW c \in P, Outranks(a, b), Outranks(b, c)
      PROVE  Outranks(a, c)
  <2>1. /\ ComesFirst(a.phrase, b.phrase) \/ (a.phrase = b.phrase /\ a.at < b.at)
        /\ ComesFirst(b.phrase, c.phrase) \/ (b.phrase = c.phrase /\ b.at < c.at)
    BY <1>5, OutranksIs
  <2>2. ComesFirst(a.phrase, b.phrase) /\ ComesFirst(b.phrase, c.phrase)
          => ComesFirst(a.phrase, c.phrase)
    BY <1>2, ComesFirstTransitive
  <2>3. a.at < b.at /\ b.at < c.at => a.at < c.at
    BY <1>2
  <2>4. ComesFirst(a.phrase, c.phrase) \/ (a.phrase = c.phrase /\ a.at < c.at)
    BY <2>1, <2>2, <2>3
  <2> QED BY <2>4, OutranksIs
<1>6. Ranks(P, R) /\ \A a \in P : <<a, a>> \notin R
  BY <1>1, <1>3, <1>4, <1>5 DEF Ranks
<1> QED BY <1>6 DEF P, R

\* There are finitely many.
LEMMA SpansFinite ==
  ASSUME NEW text \in Seq(Chars), NEW corrections, IsTable(corrections)
  PROVE  IsFiniteSet(Spans(text, corrections))
<1> DEFINE D == (DOMAIN corrections) \X (DOMAIN text)
           T == Occurrences(text, corrections)
           f == [pair \in D |-> [phrase |-> pair[1], at |-> pair[2]]]
<1>1. IsFiniteSet(DOMAIN corrections) /\ IsFiniteSet(DOMAIN text)
  <2>1. DOMAIN text = 1..Len(text) /\ Len(text) \in Nat
    OBVIOUS
  <2>2. IsFiniteSet(1..Len(text))
    BY <2>1, FS_Interval
  <2> QED BY <2>1, <2>2 DEF IsTable
<1>2. IsFiniteSet(D)
  <2>1. \A A, B : IsFiniteSet(A) /\ IsFiniteSet(B) => IsFiniteSet(A \X B)
    BY FS_Product
  <2> QED BY <1>1, <2>1
<1>3. f \in Surjection(D, T)
  <2>1. f \in [D -> T]
    <3>1. ASSUME NEW pair \in D PROVE [phrase |-> pair[1], at |-> pair[2]] \in T
      <4>1. pair[1] \in DOMAIN corrections /\ pair[2] \in DOMAIN text
        OBVIOUS
      <4> QED BY <4>1 DEF Occurrences
    <3> HIDE DEF D, T
    <3> QED BY <3>1
  <2>2. \A t \in T : \E pair \in D : f[pair] = t
    <3> SUFFICES ASSUME NEW t \in T PROVE \E pair \in D : f[pair] = t
      OBVIOUS
    <3>1. PICK phrase \in DOMAIN corrections, at \in DOMAIN text :
            t = [phrase |-> phrase, at |-> at]
      BY DEF Occurrences
    <3> DEFINE pair == <<phrase, at>>
    <3>2. pair \in D /\ pair[1] = phrase /\ pair[2] = at
      OBVIOUS
    <3> HIDE DEF D, pair
    <3>3. f[pair] = t
      BY <3>1, <3>2
    <3> QED BY <3>2, <3>3
  <2> QED BY <2>1, <2>2 DEF Surjection
<1>4. IsFiniteSet(T)
  <2> HIDE DEF D, T, f
  <2> QED BY <1>2, <1>3, FS_Surjection
<1>5. Spans(text, corrections) \in SUBSET T
  BY DEF Spans
<1> QED BY <1>4, <1>5, FS_Subset

\* The chosen spans: no two of them overlap, and one that is not chosen overlaps a chosen
\* one that outranks it.
LEMMA ChosenIs ==
  ASSUME NEW text \in Seq(Chars), NEW corrections, IsTable(corrections), PlainTable(corrections)
  PROVE  /\ Chosen(text, corrections) \subseteq Spans(text, corrections)
         /\ \A s \in Spans(text, corrections) :
              s \in Chosen(text, corrections) <=>
                ~\E a \in Chosen(text, corrections) :
                   Outranks(a, s) /\ \E i \in DOMAIN text : Covers(a, i) /\ Covers(s, i)
         /\ Disjoint(Chosen(text, corrections))
<1> DEFINE P == Spans(text, corrections)
           K == Chosen(text, corrections)
           R == {pair \in P \X P : Outranks(pair[1], pair[2])}
           Overlap(a, s) == \E i \in DOMAIN text : Covers(a, i) /\ Covers(s, i)
           O == {pair \in P \X P : Overlap(pair[1], pair[2])}
           Good(C) == \A s \in P : s \in C <=> ~\E a \in C : Outranks(a, s) /\ Overlap(a, s)
<1>1. Ranks(P, R) /\ \A a \in P : <<a, a>> \notin R
  BY SpansRanked
<1>2. \A a, b \in P : <<a, b>> \in R <=> Outranks(a, b)
  OBVIOUS
<1>3. \A a, b \in P : <<a, b>> \in O <=> Overlap(a, b)
  OBVIOUS
<1>4. IsFiniteSet(P)
  BY SpansFinite
<1>5. K = CHOOSE C \in SUBSET P : Good(C)
  BY DEF Chosen
<1> HIDE DEF P, R, O, Overlap
<1>6. PICK C : Kernel(C, P, R, O)
  BY <1>1, <1>4, KernelExists
<1>7. C \in SUBSET P /\ Good(C)
  BY <1>2, <1>3, <1>6 DEF Kernel
<1>8. K \in SUBSET P /\ Good(K)
  <2> HIDE DEF Good, K
  <2> QED BY <1>5, <1>7
<1>9. ASSUME NEW s \in K, NEW z \in K, NEW i, Covers(s, i), Covers(z, i) PROVE s = z
  <2> HIDE DEF K
  <2>1. s \in P /\ z \in P
    BY <1>8
  <2>2. Marks(s, text, corrections)
    BY <2>1, SpansAre DEF P
  <2>3. i \in DOMAIN text
    <3>1. /\ s.at \in 1..Len(text) /\ s.at + Len(s.phrase) \in 1..(Len(text) + 1)
          /\ Len(s.phrase) \in Nat /\ Len(text) \in Nat
      BY <2>2 DEF Marks
    <3>2. i \in s.at..(s.at + Len(s.phrase) - 1)
      BY <1>9 DEF Covers
    <3>3. i \in 1..Len(text)
      BY <3>1, <3>2
    <3> QED BY <3>3
  <2>4. Overlap(s, z) /\ Overlap(z, s)
    BY <1>9, <2>3 DEF Overlap
  <2>5. ~Outranks(s, z) /\ ~Outranks(z, s)
    BY <1>8, <2>1, <2>4
  <2>6. s # z => <<s, z>> \in R \/ <<z, s>> \in R
    BY <1>1, <2>1 DEF Ranks
  <2> QED BY <1>2, <2>1, <2>5, <2>6
<1>10. Disjoint(K)
  <2> HIDE DEF K
  <2> QED BY <1>9 DEF Disjoint
<1> QED BY <1>8, <1>10 DEF P, Overlap

-----------------------------------------------------------------------------
(* The scan for a phrase *)

\* A text in which a phrase begins nowhere is taken as it is.
LEMMA Copied ==
  ASSUME NEW f, NEW x \in Text, NEW from, NEW to, NEW word \in Text, NEW at \in Nat,
         Bytes(f, x, from, to), at >= 1, at + Len(word) <= Len(x) + 1,
         \A j \in 1..Len(word) : x[at + j - 1] = word[j] /\ ~Hit(x, from, at + j - 1)
  PROVE  f[at] = word \o f[at + Len(word)]
<1> DEFINE m == Len(word)
           Rest(k) == SubSeq(word, m - k + 1, m)
           Good == {k \in Nat : k <= m => f[at + m - k] = Rest(k) \o f[at + m]}
<1>1. m \in Nat /\ Len(x) \in Nat /\ word \in Seq(Symbol)
  BY DEF Text
<1>2. \A j \in 0..m : at + j \in 1..(Len(x) + 1)
  BY <1>1
<1>3. f[at + m] \in Text
  <2>1. m \in 0..m
    BY <1>1
  <2> HIDE DEF m
  <2> QED BY <1>2, <2>1 DEF Bytes
<1>4. ASSUME NEW k \in Nat, \A j \in Nat : j < k => j \in Good PROVE k \in Good
  <2>1. CASE k = 0
    <3>1. Rest(0) = <<>>
      <4>1. m - 0 + 1 > m
        BY <1>1
      <4> HIDE DEF m
      <4> QED BY <1>1, <4>1, SubSeqEmpty
    <3>2. <<>> \o f[at + m] = f[at + m]
      BY <1>3, ConcatEmptySeq DEF Text
    <3>3. at + m - 0 = at + m
      BY <1>1
    <3> QED BY <2>1, <3>1, <3>2, <3>3
  <2>2. CASE k # 0 /\ k <= m
    <3> DEFINE j == m - k + 1
    <3>1. /\ k - 1 \in Nat /\ k - 1 < k /\ k - 1 <= m /\ j \in 1..m /\ m \in j..m
          /\ m - (k - 1) + 1 = j + 1 /\ at + m - (k - 1) = at + j
          /\ at + m - k = at + j - 1
      BY <1>1, <2>2
    <3>2. f[at + j] = SubSeq(word, j + 1, m) \o f[at + m]
      BY <1>4, <3>1
    <3> HIDE DEF j
    <3>3. at + j - 1 \in 1..Len(x) /\ (at + j - 1) + 1 = at + j
      BY <1>1, <3>1
    <3>4. x[at + j - 1] = word[j] /\ ~Hit(x, from, at + j - 1)
      BY <3>1
    <3>5. f[at + j - 1] = <<word[j]>> \o f[at + j]
      BY <3>3, <3>4 DEF Bytes
    <3>6. /\ SubSeq(word, j, m) = <<word[j]>> \o SubSeq(word, j + 1, m)
          /\ <<word[j]>> \in Text /\ SubSeq(word, j + 1, m) \in Text
      BY <3>1, CutFirst
    <3>7. <<word[j]>> \o (SubSeq(word, j + 1, m) \o f[at + m]) = SubSeq(word, j, m) \o f[at + m]
      <4> DEFINE a == <<word[j]>>
                 b == SubSeq(word, j + 1, m)
                 c == f[at + m]
                 w == SubSeq(word, j, m)
      <4>1. w = a \o b /\ a \in Text /\ b \in Text /\ c \in Text
        BY <1>3, <3>6
      <4> HIDE DEF a, b, c, w
      <4>2. (a \o b) \o c = a \o (b \o c)
        BY <4>1, JoinsAssociative
      <4>3. a \o (b \o c) = w \o c
        BY <4>1, <4>2
      <4> QED BY <4>3 DEF a, b, c, w
    <3>8. f[at + m - k] = SubSeq(word, j, m) \o f[at + m]
      BY <3>1, <3>2, <3>5, <3>7
    <3> QED BY <3>8 DEF j
  <2>3. CASE ~(k <= m)
    BY <2>3
  <2> QED BY <2>1, <2>2, <2>3
<1>5. Nat \subseteq Good
  <2> HIDE DEF Good
  <2> QED BY <1>4, NumberInduction
<1>6. f[at + m - m] = Rest(m) \o f[at + m]
  <2>1. m \in Good /\ m <= m
    <3> HIDE DEF Good
    <3> QED BY <1>1, <1>5
  <2> QED BY <2>1
<1>7. at + m - m = at /\ m - m + 1 = 1
  BY <1>1
<1>8. SubSeq(word, 1, m) = word
  BY <1>1
<1> QED BY <1>6, <1>7, <1>8

\* A phrase, when the spans of those before it, and no others, are replaced already; and the
\* spans that are replaced after it.
Passes(text, corrections, C, phrase) ==
  /\ text \in Seq(Chars) /\ IsTable(corrections) /\ PlainTable(corrections)
  /\ phrase \in DOMAIN corrections /\ C \subseteq Chosen(text, corrections)
  /\ \A s \in Chosen(text, corrections) : ComesFirst(s.phrase, phrase) => s \in C

Replaced(text, corrections, C, phrase) ==
  C \cup {s \in Chosen(text, corrections) : s.phrase = phrase}

\* No span has begun before i and goes on.
Edge(C, i) == \A s \in C : Covers(s, i) => s.at = i

\* Both sets of spans are settings.
LEMMA PassSetting ==
  ASSUME NEW text, NEW corrections, NEW C, NEW phrase, Passes(text, corrections, C, phrase)
  PROVE  /\ Setting(text, corrections, C)
         /\ Setting(text, corrections, Replaced(text, corrections, C, phrase))
<1>1. /\ Chosen(text, corrections) \subseteq Spans(text, corrections)
      /\ Disjoint(Chosen(text, corrections))
  BY ChosenIs DEF Passes
<1>2. \A D \in SUBSET Chosen(text, corrections) : Setting(text, corrections, D)
  BY <1>1 DEF Passes, Setting, Disjoint
<1> QED BY <1>2 DEF Passes, Replaced

\* At the end of a span no other has begun.
LEMMA EdgeAfter ==
  ASSUME NEW text, NEW corrections, NEW C, Setting(text, corrections, C)
  PROVE  /\ \A s \in C : Edge(C, s.at + Len(s.phrase))
         /\ \A i \in 1..Len(text) : Free(C, i) => Edge(C, i + 1)
<1>1. ASSUME NEW s \in C
      PROVE  s.at \in Nat /\ Len(s.phrase) \in Nat /\ Len(s.phrase) >= 1
  <2>1. Marks(s, text, corrections) /\ Len(text) \in Nat
    BY SettingMarks DEF Setting
  <2> QED BY <2>1 DEF Marks
<1>2. ASSUME NEW s \in C, NEW i \in Nat, Covers(s, i + 1), s.at # i + 1 PROVE Covers(s, i)
  <2> DEFINE e == s.at + Len(s.phrase) - 1
  <2>1. s.at \in Nat /\ e \in Int
    BY <1>1
  <2>2. i + 1 \in s.at..e
    BY <1>2 DEF Covers
  <2> HIDE DEF e
  <2>3. i \in s.at..e
    BY <1>2, <2>1, <2>2
  <2> QED BY <2>3 DEF Covers, e
<1>3. ASSUME NEW s \in C PROVE Edge(C, s.at + Len(s.phrase))
  <2> DEFINE k == s.at + Len(s.phrase) - 1
  <2>1. k \in Nat /\ k + 1 = s.at + Len(s.phrase)
    BY <1>1
  <2>2. Covers(s, k) /\ ~Covers(s, k + 1)
    BY <1>1 DEF Covers
  <2> HIDE DEF k
  <2>3. ASSUME NEW z \in C, Covers(z, k + 1), z.at # k + 1 PROVE FALSE
    <3>1. Covers(z, k)
      BY <1>2, <2>1, <2>3
    <3>2. z = s
      BY <2>2, <3>1 DEF Setting, Disjoint
    <3> QED BY <2>2, <2>3, <3>2
  <2> QED BY <2>1, <2>3 DEF Edge
<1>4. ASSUME NEW i \in 1..Len(text), Free(C, i) PROVE Edge(C, i + 1)
  <2>1. i \in Nat
    OBVIOUS
  <2> QED BY <1>2, <1>4, <2>1 DEF Edge, Free
<1> QED BY <1>3, <1>4

\* An occurrence that overlaps no span that was replaced, and begins where none goes on, is
\* chosen: nothing of a higher rank overlaps it.
LEMMA HitChosen ==
  ASSUME NEW text, NEW corrections, NEW C, NEW phrase, Passes(text, corrections, C, phrase),
         NEW i \in 1..Len(text), Edge(Replaced(text, corrections, C, phrase), i),
         Hit(text, phrase, i), Stretch(C, i, Len(phrase))
  PROVE  [phrase |-> phrase, at |-> i] \in Replaced(text, corrections, C, phrase)
<1> DEFINE s == [phrase |-> phrase, at |-> i]
           K == Chosen(text, corrections)
           Overlap(a, z) == \E k \in DOMAIN text : Covers(a, k) /\ Covers(z, k)
<1>1. s.phrase = phrase /\ s.at = i /\ Len(phrase) \in Nat /\ phrase \in DOMAIN corrections
  BY DEF Passes, PlainTable
<1>2. s \in Spans(text, corrections)
  BY <1>1, SpansAre DEF Passes
<1>3. /\ K \subseteq Spans(text, corrections)
      /\ s \in K <=> ~\E a \in K : Outranks(a, s) /\ Overlap(a, s)
  BY <1>2, ChosenIs DEF Passes
<1> HIDE DEF s, K
<1>4. ASSUME NEW a \in K, Outranks(a, s), Overlap(a, s) PROVE FALSE
  <2>1. PICK k \in DOMAIN text : Covers(a, k) /\ Covers(s, k)
    BY <1>4
  <2>2. k \in Nat /\ k \in i..(i + Len(phrase) - 1)
    <3>1. k \in Nat
      BY DEF Passes
    <3> QED BY <1>1, <2>1, <3>1 DEF Covers
  <2>3. Free(C, k)
    <3>1. k - i \in 0..(Len(phrase) - 1) /\ i + (k - i) = k
      BY <1>1, <2>2
    <3>2. Free(C, i + (k - i))
      BY <3>1 DEF Stretch
    <3> QED BY <3>1, <3>2
  <2>4. a \notin C
    BY <2>1, <2>3 DEF Free
  <2>5. ~ComesFirst(a.phrase, phrase)
    BY <2>4 DEF Passes, K
  <2>6. a.phrase = phrase /\ a.at < i
    BY <1>1, <1>4, <2>5, OutranksIs
  <2>7. a \in Replaced(text, corrections, C, phrase)
    BY <2>6 DEF Replaced, K
  <2>8. Covers(a, i) /\ a.at # i
    <3>1. Marks(a, text, corrections)
      BY <1>3, SpansAre DEF Passes
    <3>2. a.at \in Nat /\ Len(a.phrase) \in Nat /\ i \in Nat
      BY <1>1, <2>6, <3>1 DEF Marks
    <3>3. k \in a.at..(a.at + Len(a.phrase) - 1)
      BY <2>1 DEF Covers
    <3> DEFINE e == a.at + Len(a.phrase) - 1
    <3>4. e \in Int
      BY <3>2
    <3>5. k \in a.at..e
      BY <3>3
    <3> HIDE DEF e
    <3>6. i \in a.at..e /\ a.at # i
      BY <2>2, <2>6, <3>2, <3>4, <3>5
    <3> QED BY <3>6 DEF Covers, e
  <2> QED BY <2>7, <2>8 DEF Edge
<1>5. s \in K
  BY <1>3, <1>4
<1> QED BY <1>1, <1>5 DEF Replaced, K, s

\* Where no span has begun and the phrase is not found none will be replaced.
LEMMA FreeChosen ==
  ASSUME NEW text, NEW corrections, NEW C, NEW phrase, Passes(text, corrections, C, phrase),
         NEW i \in 1..Len(text), Edge(Replaced(text, corrections, C, phrase), i),
         Free(C, i), ~(Hit(text, phrase, i) /\ Stretch(C, i, Len(phrase)))
  PROVE  Free(Replaced(text, corrections, C, phrase), i)
<1> DEFINE D == Replaced(text, corrections, C, phrase)
<1>1. Setting(text, corrections, D)
  BY PassSetting
<1>2. SUFFICES ASSUME NEW s \in D, Covers(s, i) PROVE FALSE
  BY DEF Free
<1>3. s.at = i /\ s.phrase = phrase
  BY <1>2 DEF Edge, Free, Replaced
<1>4. Hit(text, phrase, i)
  <2>1. Marks(s, text, corrections)
    BY <1>1, <1>2, SettingMarks
  <2> QED BY <1>3, <2>1 DEF Marks
<1>5. C \subseteq D
  BY DEF Replaced
<1> HIDE DEF D
<1>6. ASSUME NEW j \in 0..(Len(phrase) - 1) PROVE Free(C, i + j)
  <2>1. SUFFICES ASSUME NEW z \in C, Covers(z, i + j) PROVE FALSE
    BY DEF Free
  <2>2. Covers(s, i + j)
    <3>1. i + j \in i..(i + Len(phrase) - 1)
      <4>1. Len(phrase) \in Nat /\ i \in Nat
        BY DEF Passes, PlainTable
      <4> QED BY <4>1
    <3> QED BY <1>3, <3>1 DEF Covers
  <2>3. z = s
    BY <1>1, <1>2, <1>5, <2>1, <2>2 DEF Setting, Disjoint
  <2> QED BY <1>2, <2>1, <2>3 DEF Free
<1> QED BY <1>4, <1>6 DEF Stretch

\* f is what replace_word_ci makes of the ends of a rendering x.
Reread(f, x, pos, text, corrections, C, phrase, to) ==
    /\ Setting(text, corrections, C) /\ Lays(x, pos, text, corrections, C)
    /\ phrase \in DOMAIN corrections /\ Bytes(f, x, phrase, to)

Skips(f, pos, corrections, s) ==
    f[pos[s.at]] = corrections[s.phrase] \o f[pos[s.at + Len(s.phrase)]]

\* What replace_word_ci does at a replacement: it takes it as it is.
LEMMA SkipsReplacement ==
  ASSUME NEW f, NEW x, NEW pos, NEW text, NEW corrections, NEW C, NEW phrase, NEW to,
         Reread(f, x, pos, text, corrections, C, phrase, to), NEW s \in C
  PROVE  Skips(f, pos, corrections, s)
<1> DEFINE word == corrections[s.phrase]
           at == pos[s.at]
<1> USE DEF Reread
<1>1. Marks(s, text, corrections)
  BY SettingMarks
<1>2. /\ s.phrase \in DOMAIN corrections /\ s.at \in 1..(Len(text) + 1)
      /\ s.at + Len(s.phrase) \in 1..(Len(text) + 1)
  <2>1. Len(text) \in Nat
    BY DEF Setting
  <2> QED BY <1>1, <2>1 DEF Marks
<1>3. /\ x \in Seq(Chars) /\ Len(x) \in Nat
      /\ pos \in [1..(Len(text) + 1) -> 1..(Len(x) + 1)]
      /\ pos[s.at + Len(s.phrase)] = at + Len(word)
      /\ \A j \in 1..Len(word) : x[at + j - 1] = word[j]
  BY DEF Lays
<1>4. word \in Seq(Chars) /\ Len(word) \in Nat
  BY <1>2 DEF Setting, PlainTable
<1>5. x \in Text /\ word \in Text
  <2>1. Chars \subseteq Symbol
    BY DEF Chars
  <2> HIDE DEF word
  <2> QED BY <1>3, <1>4, <2>1, WiderSeq DEF Text
<1>6. at \in Nat /\ at >= 1 /\ at + Len(word) <= Len(x) + 1
  <2>1. at \in 1..(Len(x) + 1) /\ pos[s.at + Len(s.phrase)] \in 1..(Len(x) + 1)
    BY <1>2, <1>3
  <2> HIDE DEF at, word
  <2> QED BY <1>3, <2>1
<1>7. /\ phrase \in Text /\ phrase # <<>> /\ Len(phrase) \in Nat /\ Len(phrase) >= 1
      /\ \A j \in 1..Len(word) : Low(phrase[1]) # Low(word[j])
  <2>1. phrase \in Text /\ phrase # <<>> /\ Len(phrase) \in Nat /\ Len(phrase) >= 1
    BY DEF Setting, PlainTable
  <2>2. 1 \in 1..Len(phrase)
    BY <2>1
  <2> QED BY <1>2, <2>1, <2>2 DEF Setting, PlainTable
<1> HIDE DEF at, word
<1>8. ASSUME NEW j \in 1..Len(word) PROVE ~Hit(x, phrase, at + j - 1)
  <2> DEFINE k == at + j - 1
  <2>1. k \in 1..(Len(x) + 1) /\ k + 0 = k
    BY <1>3, <1>4, <1>6
  <2>2. x[k] = word[j]
    BY <1>3
  <2> HIDE DEF k
  <2>3. ASSUME Occurs(phrase, x, k) PROVE FALSE
    <3>1. \A i \in 0..(Len(phrase) - 1) : Low(x[k + i]) = Low(phrase[i + 1])
      BY <1>5, <1>7, <2>1, <2>3, OccursIs DEF Text
    <3>2. 0 \in 0..(Len(phrase) - 1) /\ 0 + 1 = 1
      BY <1>7
    <3>3. Low(x[k]) = Low(phrase[1])
      BY <2>1, <3>1, <3>2
    <3> QED BY <1>7, <2>2, <3>3
  <2> QED BY <2>3 DEF Hit, k
<1>9. f[at] = word \o f[at + Len(word)]
  BY <1>3, <1>5, <1>6, <1>8, Copied
<1> QED BY <1>3, <1>9 DEF at, word, Skips

\* So one call of it replaces exactly the chosen spans of its phrase.
LEMMA ScanStep ==
  ASSUME NEW text, NEW corrections, NEW C, NEW phrase, Passes(text, corrections, C, phrase)
  PROVE  ReplaceWord(Rendered(text, corrections, C), phrase, corrections[phrase])
           = Rendered(text, corrections, Replaced(text, corrections, C, phrase))
<1> DEFINE n == Len(text)
           m == Len(phrase)
           D == Replaced(text, corrections, C, phrase)
           to == corrections[phrase]
<1>1. Setting(text, corrections, C) /\ Setting(text, corrections, D)
  BY PassSetting
<1>2. /\ n \in Nat /\ PlainTable(corrections) /\ phrase \in DOMAIN corrections
      /\ C \subseteq D
  BY DEF Passes, Replaced
<1>3. PICK r : Renders(r, text, corrections, C) /\ Rendered(text, corrections, C) = r[1]
  BY <1>1, Rendering
<1>4. PICK q : Renders(q, text, corrections, D) /\ Rendered(text, corrections, D) = q[1]
  <2> HIDE DEF D
  <2> QED BY <1>1, Rendering
<1> DEFINE x == r[1]
<1>5. PICK pos : Lays(x, pos, text, corrections, C)
  BY <1>1, <1>3, LaysOut
<1> HIDE DEF x
<1>6. /\ x \in Seq(Chars) /\ Len(x) \in Nat /\ pos[1] = 1 /\ pos[n + 1] = Len(x) + 1
      /\ pos \in [1..(n + 1) -> 1..(Len(x) + 1)]
  BY <1>5 DEF Lays
<1>7. /\ phrase \in Text /\ phrase # <<>> /\ m \in Nat /\ m >= 1 /\ phrase[1] \notin Wide
      /\ to \in Seq(Chars)
  BY <1>2 DEF PlainTable
<1>8. x \in Text /\ to \in Text
  <2>1. Chars \subseteq Symbol
    BY DEF Chars
  <2> HIDE DEF to
  <2> QED BY <1>6, <1>7, <2>1, WiderSeq DEF Text
<1> HIDE DEF D, to
<1>9. PICK f : Replaces(f, x, phrase, to) /\ ReplaceWord(x, phrase, to) = f[1]
  BY <1>7, <1>8, Replacing
<1>10. Bytes(f, x, phrase, to)
  BY <1>7, <1>8, <1>9, Bytewise
<1> DEFINE Dom == 1..(n + 1)
           rank == [i \in Dom |-> n + 1 - i]
           Good == {i \in Dom : Edge(D, i) => f[pos[i]] = q[i]}
<1>11. ASSUME NEW i \in Dom, \A e \in Dom : rank[e] < rank[i] => e \in Good PROVE i \in Good
  <2>1. SUFFICES ASSUME Edge(D, i) PROVE f[pos[i]] = q[i]
    OBVIOUS
  <2>2. ASSUME NEW k \in Dom, k > i, Edge(D, k) PROVE f[pos[k]] = q[k]
    <3>1. rank[k] < rank[i]
      BY <1>2, <2>2
    <3> QED BY <1>11, <2>2, <3>1
  <2> HIDE DEF rank, Good
  <2>3. CASE i = n + 1
    <3>1. f[Len(x) + 1] = <<>>
      BY <1>10 DEF Bytes
    <3>2. q[n + 1] = <<>>
      BY <1>4 DEF Renders
    <3> QED BY <1>6, <2>3, <3>1, <3>2
  <2>4. CASE \E s \in C : s.at = i
    <3>1. PICK s \in C : s.at = i
      BY <2>4
    <3> DEFINE k == i + Len(s.phrase)
    <3>2. f[pos[i]] = corrections[s.phrase] \o f[pos[k]]
      <4>1. ASSUME NEW z \in C
            PROVE  f[pos[z.at]] = corrections[z.phrase] \o f[pos[z.at + Len(z.phrase)]]
        <5>1. Reread(f, x, pos, text, corrections, C, phrase, to)
          BY <1>1, <1>2, <1>5, <1>10 DEF Reread
        <5>2. Skips(f, pos, corrections, z)
          BY <5>1, SkipsReplacement
        <5> QED BY <5>2 DEF Skips
      <4> QED BY <3>1, <4>1
    <3>3. q[i] = corrections[s.phrase] \o q[k]
      BY <1>2, <1>4, <3>1 DEF Renders
    <3>4. k \in Dom /\ k > i
      <4>1. Marks(s, text, corrections)
        BY <1>1, SettingMarks
      <4> QED BY <1>2, <3>1, <4>1 DEF Marks
    <3>5. Edge(D, k)
      BY <1>1, <1>2, <3>1, EdgeAfter
    <3> HIDE DEF k
    <3> QED BY <2>2, <3>2, <3>3, <3>4, <3>5
  <2>5. CASE i # n + 1 /\ ~\E s \in C : s.at = i
    <3>1. i \in 1..n
      BY <1>2, <2>5
    <3>2. Free(C, i)
      BY <1>2, <2>1, <2>5 DEF Free, Edge
    <3>3. Scene(x, pos, text, corrections, C, phrase, i)
      BY <1>1, <1>2, <1>5, <3>1, <3>2 DEF Scene
    <3>4. Hit(x, phrase, pos[i]) <=> Hit(text, phrase, i) /\ Stretch(C, i, m)
      BY <3>3, FoundAgain
    <3>5. pos[i] \in 1..Len(x) /\ x[pos[i]] = text[i] /\ pos[i + 1] = pos[i] + 1
      BY <1>5, <3>1, <3>2 DEF Lays
    <3>6. f[pos[i]] = IF Hit(x, phrase, pos[i]) THEN to \o f[pos[i] + m]
                      ELSE <<x[pos[i]]>> \o f[pos[i] + 1]
      BY <1>10, <3>5 DEF Bytes
    <3>7. CASE Hit(x, phrase, pos[i])
      <4> DEFINE s == [phrase |-> phrase, at |-> i]
                 k == i + m
      <4>1. s \in D /\ s.phrase = phrase /\ s.at = i
        BY <2>1, <3>1, <3>4, <3>7, HitChosen DEF D
      <4> HIDE DEF s
      <4>2. Marks(s, text, corrections)
        BY <1>1, <4>1, SettingMarks
      <4>3. k \in Dom /\ k > i /\ k <= n + 1
        BY <1>2, <1>7, <4>1, <4>2 DEF Marks
      <4>4. Edge(D, k)
        BY <1>1, <4>1, EdgeAfter
      <4>5. q[i] = to \o q[k]
        BY <1>4, <4>1 DEF Renders, to
      <4>6. pos[k] = pos[i] + m
        <5>1. m \in 0..m
          BY <1>7
        <5> QED BY <1>7, <3>3, <3>4, <3>7, <4>3, <5>1, StaysTogether
      <4>7. f[pos[k]] = q[k]
        <5> HIDE DEF k
        <5> QED BY <2>2, <4>3, <4>4
      <4> QED BY <3>6, <3>7, <4>5, <4>6, <4>7
    <3>8. CASE ~Hit(x, phrase, pos[i])
      <4>1. Free(D, i)
        BY <2>1, <3>1, <3>2, <3>4, <3>8, FreeChosen DEF D
      <4>2. q[i] = <<text[i]>> \o q[i + 1]
        BY <1>4, <3>1, <4>1 DEF Renders
      <4>3. Edge(D, i + 1) /\ i + 1 \in Dom /\ i + 1 > i
        BY <1>1, <1>2, <3>1, <4>1, EdgeAfter
      <4>4. f[pos[i + 1]] = q[i + 1]
        BY <2>2, <4>3
      <4> QED BY <3>5, <3>6, <3>8, <4>2, <4>4
    <3> QED BY <3>7, <3>8
  <2> QED BY <2>3, <2>4, <2>5
<1>12. Dom \subseteq Good
  <2>1. rank \in [Dom -> Nat]
    BY <1>2
  <2> HIDE DEF Dom, rank, Good
  <2> QED BY <1>11, <2>1, RankInduction
<1>13. Edge(D, 1)
  <2>1. \A s \in D : s.at \in Nat /\ s.at >= 1
    <3> SUFFICES ASSUME NEW s \in D PROVE s.at \in Nat /\ s.at >= 1
      OBVIOUS
    <3>1. Marks(s, text, corrections)
      BY <1>1, SettingMarks
    <3> QED BY <1>2, <3>1 DEF Marks
  <2>2. ASSUME NEW s \in D, Covers(s, 1) PROVE s.at = 1
    <3>1. s.at <= 1
      BY <2>1, <2>2 DEF Covers
    <3> QED BY <2>1, <3>1
  <2> QED BY <2>2 DEF Edge
<1>14. f[1] = q[1]
  <2>1. 1 \in Good
    <3> HIDE DEF Good
    <3> QED BY <1>2, <1>12
  <2> QED BY <1>6, <1>13, <2>1
<1> QED BY <1>3, <1>4, <1>9, <1>14 DEF x, D, to

\* A text with spans replaced by the texts of a table has not panicked.
LEMMA NoPanic ==
  ASSUME NEW text, NEW corrections, NEW C, Setting(text, corrections, C)
  PROVE  ~Panicked(Rendered(text, corrections, C))
<1> DEFINE x == Rendered(text, corrections, C)
<1>1. x \in Seq(Chars)
  <2>1. PICK r : Renders(r, text, corrections, C) /\ x = r[1]
    BY Rendering
  <2>2. 1 \in 1..(Len(text) + 1)
    BY DEF Setting
  <2> QED BY <2>1, <2>2 DEF Renders
<1>2. Panic \notin Chars
  BY DEF Chars
<1> HIDE DEF x, Chars
<1>3. x # <<>> => Last(x) \in Chars
  <2>1. x # <<>> => Len(x) \in 1..Len(x)
    BY <1>1
  <2> QED BY <1>1, <2>1 DEF Last
<1> QED BY <1>2, <1>3 DEF Panicked, x

\* Every phrase has its turn.
LEMMA OrderComplete ==
  ASSUME NEW corrections, IsTable(corrections), NEW phrase \in DOMAIN corrections
  PROVE  \E j \in 1..Cardinality(DOMAIN corrections) :
           OrderedCorrections(corrections)[j] = phrase
<1> DEFINE P == DOMAIN corrections
           n == Cardinality(P)
           order == OrderedCorrections(corrections)
<1>1. IsFiniteSet(P) /\ n \in Nat
  BY FS_CardinalityType DEF IsTable
<1>2. order \in [1..n -> P] /\ \A i, j \in 1..n : i # j => order[i] # order[j]
  BY CorrectionsOrdered DEF Sorts
<1> HIDE DEF order
<1>3. order \in Injection(1..n, P)
  BY <1>2 DEF Injection, IsInjective
<1>4. Cardinality(1..n) = n
  BY <1>1, FS_Interval
<1>5. order \in Surjection(1..n, P)
  <2> HIDE DEF n
  <2> QED BY <1>1, <1>3, <1>4, FS_Injection DEF n
<1> QED BY <1>5 DEF Surjection, order

\* A text is what is made of it when nothing is replaced.
LEMMA NothingReplaced ==
  ASSUME NEW text \in Seq(Chars), NEW corrections, PlainTable(corrections)
  PROVE  Rendered(text, corrections, {}) = text
<1> DEFINE n == Len(text)
           Dom == 1..(n + 1)
           rank == [i \in Dom |-> n + 1 - i]
<1>1. n \in Nat
  OBVIOUS
<1>2. Setting(text, corrections, {})
  BY DEF Setting, Disjoint
<1>3. PICK r : Renders(r, text, corrections, {}) /\ Rendered(text, corrections, {}) = r[1]
  BY <1>2, Rendering
<1>4. r[n + 1] = <<>> /\ \A i \in 1..n : r[i] = <<text[i]>> \o r[i + 1]
  BY <1>3 DEF Renders, Free
<1>5. text \in Text
  <2>1. Chars \subseteq Symbol
    BY DEF Chars
  <2> QED BY <2>1, WiderSeq DEF Text
<1> DEFINE Good == {i \in Dom : r[i] = SubSeq(text, i, n)}
<1>6. ASSUME NEW i \in Dom, \A e \in Dom : rank[e] < rank[i] => e \in Good PROVE i \in Good
  <2>1. CASE i = n + 1
    <3>1. SubSeq(text, n + 1, n) = <<>>
      BY <1>1
    <3> QED BY <1>4, <2>1, <3>1
  <2>2. CASE i # n + 1
    <3>1. i \in 1..n /\ n \in i..n /\ i + 1 \in Dom /\ rank[i + 1] < rank[i]
      BY <1>1, <2>2
    <3>2. r[i + 1] = SubSeq(text, i + 1, n)
      <4>1. i + 1 \in Good
        <5> HIDE DEF rank, Good, Dom
        <5> QED BY <1>6, <3>1
      <4> QED BY <4>1
    <3>3. SubSeq(text, i, n) = <<text[i]>> \o SubSeq(text, i + 1, n)
      BY <1>5, <3>1, CutFirst
    <3> QED BY <1>4, <3>1, <3>2, <3>3
  <2> QED BY <2>1, <2>2
<1>7. Dom \subseteq Good
  <2>1. rank \in [Dom -> Nat]
    BY <1>1
  <2> HIDE DEF Dom, rank, Good
  <2> QED BY <1>6, <2>1, RankInduction
<1>8. r[1] = SubSeq(text, 1, n)
  <2>1. 1 \in Good
    <3> HIDE DEF Good
    <3> QED BY <1>1, <1>7
  <2> QED BY <2>1
<1>9. SubSeq(text, 1, n) = text
  OBVIOUS
<1> QED BY <1>3, <1>8, <1>9

\* A plain table makes of a text what Corrected says: each phrase in its turn replaces its
\* chosen spans, and no other.
LEMMA CorrectedInTurn ==
  ASSUME NEW text \in Seq(Chars), NEW corrections, IsTable(corrections), PlainTable(corrections)
  PROVE  ApplyCorrections(text, corrections) = Corrected(text, corrections)
<1> DEFINE P == DOMAIN corrections
           n == Cardinality(P)
           order == OrderedCorrections(corrections)
           K == Chosen(text, corrections)
           Done(k) == {s \in K : \E j \in 1..k : s.phrase = order[j]}
<1>1. n \in Nat /\ IsFiniteSet(P) /\ P \subseteq Phrase
  BY FS_CardinalityType DEF IsTable, Phrase, Letter
<1>2. text \in Text
  <2>1. Chars \subseteq Symbol
    BY DEF Chars
  <2> QED BY <2>1, WiderSeq DEF Text
<1>3. PICK g : Turns(g, text, corrections, n) /\ ApplyCorrections(text, corrections) = g[n]
  BY <1>2, InTurn
<1>4. /\ order \in [1..n -> P] /\ \A i, j \in 1..n : i # j => order[i] # order[j]
      /\ \A i, j \in 1..n : i < j => ComesFirst(order[i], order[j])
  BY CorrectionsOrdered DEF Sorts, Sorted
<1>5. \A phrase \in P : \E j \in 1..n : order[j] = phrase
  BY OrderComplete
<1>6. \A s \in K : s.phrase \in P
  <2> SUFFICES ASSUME NEW s \in K PROVE s.phrase \in P
    OBVIOUS
  <2>1. Marks(s, text, corrections)
    BY ChosenIs, SpansAre
  <2> QED BY <2>1 DEF Marks
<1>7. g[0] = text /\ \A k \in 1..n : g[k] = Turn(g[k - 1], corrections, order[k])
  BY <1>3 DEF Turns
<1> HIDE DEF n, order, K
<1> DEFINE Good == {k \in Nat : k <= n => g[k] = Rendered(text, corrections, Done(k))}
<1>8. ASSUME NEW k \in 1..n PROVE Passes(text, corrections, Done(k - 1), order[k])
  <2>1. order[k] \in P
    BY <1>4
  <2>2. ASSUME NEW s \in K, ComesFirst(s.phrase, order[k]) PROVE s \in Done(k - 1)
    <3>1. PICK j \in 1..n : order[j] = s.phrase
      BY <1>5, <1>6
    <3>2. ~(k < j) /\ j # k
      <4>1. order[j] \in Phrase /\ order[k] \in Phrase
        BY <1>1, <1>4
      <4>2. ~ComesFirst(order[k], order[k])
        BY <4>1, ComesFirstTotal
      <4>3. ~ComesFirst(order[k], order[j])
        BY <2>2, <3>1, <4>1, <4>2, ComesFirstTransitive
      <4> QED BY <1>4, <2>2, <3>1, <4>2, <4>3
    <3>3. j \in 1..(k - 1)
      BY <1>1, <3>2
    <3> QED BY <3>1, <3>3
  <2> QED BY <2>1, <2>2 DEF Passes, K
<1>9. ASSUME NEW k \in 1..n PROVE Replaced(text, corrections, Done(k - 1), order[k]) = Done(k)
  <2>1. 1..k = (1..(k - 1)) \cup {k}
    BY <1>1
  <2> QED BY <2>1 DEF Replaced, K
<1>10. ASSUME NEW k \in Nat, \A j \in Nat : j < k => j \in Good PROVE k \in Good
  <2>1. CASE k = 0
    <3>1. Done(0) = {}
      OBVIOUS
    <3>2. Rendered(text, corrections, {}) = text
      BY NothingReplaced
    <3> QED BY <1>7, <2>1, <3>1, <3>2
  <2>2. CASE k # 0 /\ k <= n
    <3>1. k - 1 \in Nat /\ k - 1 < k /\ k - 1 <= n /\ k \in 1..n
      BY <1>1, <2>2
    <3>2. g[k - 1] = Rendered(text, corrections, Done(k - 1))
      <4>1. k - 1 \in Good
        <5> HIDE DEF Good
        <5> QED BY <1>10, <3>1
      <4> QED BY <3>1, <4>1
    <3>3. ~Panicked(g[k - 1])
      BY <1>8, <3>1, <3>2, PassSetting, NoPanic
    <3>4. g[k] = ReplaceWord(g[k - 1], order[k], corrections[order[k]])
      BY <1>7, <3>1, <3>3 DEF Turn
    <3>5. ReplaceWord(Rendered(text, corrections, Done(k - 1)), order[k], corrections[order[k]])
            = Rendered(text, corrections, Done(k))
      <4>1. Passes(text, corrections, Done(k - 1), order[k])
        BY <1>8, <3>1
      <4>2. Replaced(text, corrections, Done(k - 1), order[k]) = Done(k)
        BY <1>9, <3>1
      <4> HIDE DEF Done
      <4> QED BY <4>1, <4>2, ScanStep
    <3> HIDE DEF Done
    <3> QED BY <3>2, <3>4, <3>5
  <2>3. CASE ~(k <= n)
    BY <2>3
  <2> QED BY <2>1, <2>2, <2>3
<1>11. Nat \subseteq Good
  <2> HIDE DEF Good
  <2> QED BY <1>10, NumberInduction
<1>12. g[n] = Rendered(text, corrections, Done(n))
  <2>1. n \in Good
    <3> HIDE DEF Good
    <3> QED BY <1>1, <1>11
  <2> QED BY <1>1, <2>1
<1>13. Done(n) = K
  BY <1>5, <1>6
<1>14. Corrected(text, corrections) = Rendered(text, corrections, K)
  BY DEF Corrected, Rendered, Piece, K
<1> QED BY <1>3, <1>12, <1>13, <1>14

-----------------------------------------------------------------------------
(* What is written and what is read *)

IsSeq(s) == \E S : s \in Seq(S)

Said(was) == \A i \in DOMAIN was : SingleLine(was[i])

\* What a line is taken for in a phase, the one that came first being asked.
HeardAnswer(asked, line) ==
  CASE asked.command = "register-sink" -> Link(ClassifyFirstLine(line))
    [] asked.command # "register-sink" /\ line[1] = "err" -> Error(line[3])
    [] OTHER -> ParseReport(line)

Hears(now, asked, line) ==
  CASE now = "asked" -> ParseCommand(line)
    [] now = "answered" -> HeardAnswer(asked, line)
    [] OTHER -> ParseFrame(line)

\* What has been read is the beginning of what was meant, and what is still to be read
\* will be taken for the rest of it.
Pending(now, was, got, lines) ==
  /\ Len(was) = Len(got) + Len(lines)
  /\ \A i \in 1..Len(got) : got[i] = was[i]
  /\ \A k \in 1..Len(lines) : was[Len(got) + k] = Hears(now, got[1], lines[k])

Stage(now, was, got) ==
  /\ now = "asks" => Len(was) = 0
  /\ now = "asked" => Len(was) = 1
  /\ now = "answered" => Len(was) = 2 /\ Len(got) >= 1

Agrees(now, s, was, got) ==
  Said(was) =>
    Stage(now, was, got) /\ \E lines : Holds(s, lines) /\ Pending(now, was, got, lines)

\* What Append does to a sequence over any set.
LEMMA IsSeqMore ==
  ASSUME NEW s, NEW x, IsSeq(s)
  PROVE  /\ IsSeq(Append(s, x)) /\ Len(s) \in Nat /\ DOMAIN s = 1..Len(s)
         /\ Len(Append(s, x)) = Len(s) + 1 /\ DOMAIN Append(s, x) = 1..(Len(s) + 1)
         /\ \A i \in 1..Len(s) : Append(s, x)[i] = s[i]
         /\ Append(s, x)[Len(s) + 1] = x
<1>1. PICK S : s \in Seq(S)
  BY DEF IsSeq
<1> DEFINE T == S \cup {x}
<1>2. s \in Seq(T) /\ x \in T
  BY <1>1
<1> HIDE DEF T
<1>3. /\ Append(s, x) \in Seq(T) /\ Len(Append(s, x)) = Len(s) + 1 /\ Len(s) \in Nat
      /\ DOMAIN s = 1..Len(s) /\ DOMAIN Append(s, x) = 1..(Len(s) + 1)
      /\ \A i \in 1..Len(s) : Append(s, x)[i] = s[i]
      /\ Append(s, x)[Len(s) + 1] = x
  BY <1>2, Appended
<1> QED BY <1>3 DEF IsSeq

\* What may be written: a single line that will be taken for what is meant.
CanSay(now, next, was, got, line, meaning) ==
  /\ SingleLine(meaning) => line \in Single /\ Hears(next, got[1], line) = meaning
  /\ next = now \/ (Stage(now, was, got) => Len(was) <= Len(got))
  /\ Stage(now, was, got) => Stage(next, Append(was, meaning), got)

\* Writing one more line that will be read as it is meant keeps the agreement.
LEMMA Saying ==
  ASSUME NEW now, NEW next, NEW s, NEW was, NEW got, NEW line, NEW meaning,
         IsSeq(was), IsSeq(got), Agrees(now, s, was, got),
         CanSay(now, next, was, got, line, meaning)
  PROVE  Agrees(next, s \o line \o <<Break>>, Append(was, meaning), got)
<1> DEFINE more == Append(was, meaning)
           longer == s \o line \o <<Break>>
<1>1. SUFFICES ASSUME Said(more)
               PROVE  /\ Stage(next, more, got)
                      /\ \E lines : Holds(longer, lines) /\ Pending(next, more, got, lines)
  BY DEF Agrees
<1>2. /\ Len(was) \in Nat /\ Len(got) \in Nat /\ DOMAIN was = 1..Len(was)
      /\ Len(more) = Len(was) + 1 /\ DOMAIN more = 1..(Len(was) + 1)
      /\ \A i \in 1..Len(was) : more[i] = was[i]
      /\ more[Len(was) + 1] = meaning
  BY IsSeqMore
<1> HIDE DEF more, longer
<1>3. Said(was) /\ SingleLine(meaning)
  <2>1. \A i \in 1..(Len(was) + 1) : SingleLine(more[i])
    BY <1>1, <1>2 DEF Said
  <2>2. Len(was) + 1 \in 1..(Len(was) + 1)
    BY <1>2
  <2>3. SingleLine(meaning)
    BY <1>2, <2>1, <2>2
  <2>4. ASSUME NEW i \in 1..Len(was) PROVE SingleLine(was[i])
    <3>1. i \in 1..(Len(was) + 1) /\ more[i] = was[i]
      BY <1>2
    <3> QED BY <2>1, <3>1
  <2> QED BY <1>2, <2>3, <2>4 DEF Said
<1>4. PICK lines : Holds(s, lines) /\ Pending(now, was, got, lines)
  BY <1>3 DEF Agrees
<1>5. /\ Stage(now, was, got) /\ Stage(next, more, got) /\ line \in Single
      /\ Hears(next, got[1], line) = meaning
      /\ next = now \/ Len(was) <= Len(got)
  BY <1>3 DEF Agrees, CanSay, more
<1> DEFINE ls == Append(lines, line)
<1>6. /\ Len(ls) = Len(lines) + 1 /\ Len(lines) \in Nat /\ ls[Len(lines) + 1] = line
      /\ \A k \in 1..Len(lines) : ls[k] = lines[k]
  <2>1. lines \in Seq(Single)
    BY <1>4 DEF Holds
  <2> QED BY <1>5, <2>1, AppendProperties
<1>7. Holds(longer, ls)
  BY <1>4, <1>5, HoldsMore DEF longer
<1> HIDE DEF ls
<1>8. /\ Len(was) = Len(got) + Len(lines)
      /\ \A i \in 1..Len(got) : got[i] = was[i]
      /\ \A k \in 1..Len(lines) : was[Len(got) + k] = Hears(now, got[1], lines[k])
  BY <1>4 DEF Pending
<1>9. Pending(next, more, got, ls)
  <2>1. Len(more) = Len(got) + Len(ls)
    BY <1>2, <1>6, <1>8
  <2>2. ASSUME NEW i \in 1..Len(got) PROVE got[i] = more[i]
    <3>1. i \in 1..Len(was)
      BY <1>2, <1>6, <1>8
    <3> QED BY <1>2, <1>8, <3>1
  <2>3. ASSUME NEW k \in 1..Len(ls) PROVE more[Len(got) + k] = Hears(next, got[1], ls[k])
    <3>1. CASE k = Len(lines) + 1
      <4>1. Len(got) + k = Len(was) + 1
        BY <1>2, <1>6, <1>8, <3>1
      <4> QED BY <1>2, <1>5, <1>6, <3>1, <4>1
    <3>2. CASE k # Len(lines) + 1
      <4>1. k \in 1..Len(lines) /\ Len(got) + k \in 1..Len(was)
        BY <1>2, <1>6, <1>8, <3>2
      <4>2. next = now
        BY <1>2, <1>5, <1>6, <1>8, <4>1
      <4> QED BY <1>2, <1>6, <1>8, <4>1, <4>2
    <3> QED BY <3>1, <3>2
  <2> QED BY <2>1, <2>2, <2>3 DEF Pending
<1> QED BY <1>5, <1>7, <1>9

\* What may be read: the next line, which is the last one or of a phase in which it does
\* not matter what was asked.
CanTake(now, next, was, got, meaning, s) ==
  /\ s # <<>> /\ meaning = Hears(now, got[1], LineOf(s))
  /\ \/ next = now /\ now # "answered"
     \/ Stage(now, was, got) => Len(was) <= Len(got) + 1
  /\ Stage(now, was, got) => Stage(next, was, Append(got, meaning))

\* Reading the first line keeps it.
LEMMA Taking ==
  ASSUME NEW now, NEW next, NEW s, NEW was, NEW got, NEW meaning,
         IsSeq(was), IsSeq(got), Agrees(now, s, was, got),
         CanTake(now, next, was, got, meaning, s)
  PROVE  Agrees(next, Behind(s), was, Append(got, meaning))
<1> DEFINE more == Append(got, meaning)
<1>1. SUFFICES ASSUME Said(was)
               PROVE  /\ Stage(next, was, more)
                      /\ \E lines : Holds(Behind(s), lines) /\ Pending(next, was, more, lines)
  BY DEF Agrees
<1>2. /\ Len(was) \in Nat /\ Len(got) \in Nat
      /\ Len(more) = Len(got) + 1
      /\ \A i \in 1..Len(got) : more[i] = got[i]
      /\ more[Len(got) + 1] = meaning
  BY IsSeqMore
<1>3. PICK lines : Holds(s, lines) /\ Pending(now, was, got, lines)
  BY <1>1 DEF Agrees
<1>4. /\ s # <<>> /\ meaning = Hears(now, got[1], LineOf(s))
      /\ (next = now /\ now # "answered") \/ Len(was) <= Len(got) + 1
      /\ Stage(next, was, more)
  BY <1>1 DEF Agrees, CanTake
<1> HIDE DEF more
<1> DEFINE ls == Tail(lines)
<1>5. /\ LineOf(s) = lines[1] /\ Holds(Behind(s), ls) /\ Len(lines) >= 1
      /\ Len(ls) = Len(lines) - 1 /\ \A k \in 1..Len(ls) : ls[k] = lines[k + 1]
  BY <1>3, <1>4, HoldsFirst
<1>6. Len(lines) \in Nat
  BY <1>3 DEF Holds
<1>7. /\ Len(was) = Len(got) + Len(lines)
      /\ \A i \in 1..Len(got) : got[i] = was[i]
      /\ \A k \in 1..Len(lines) : was[Len(got) + k] = Hears(now, got[1], lines[k])
  BY <1>3 DEF Pending
<1> HIDE DEF ls
<1>8. Pending(next, was, more, ls)
  <2>1. Len(was) = Len(more) + Len(ls)
    BY <1>2, <1>5, <1>6, <1>7
  <2>2. ASSUME NEW i \in 1..Len(more) PROVE more[i] = was[i]
    <3>1. CASE i = Len(got) + 1
      <4>1. 1 \in 1..Len(lines)
        BY <1>5, <1>6
      <4>2. was[Len(got) + 1] = Hears(now, got[1], lines[1])
        BY <1>7, <4>1
      <4> QED BY <1>2, <1>4, <1>5, <3>1, <4>2
    <3>2. CASE i # Len(got) + 1
      <4>1. i \in 1..Len(got)
        BY <1>2, <3>2
      <4> QED BY <1>2, <1>7, <4>1
    <3> QED BY <3>1, <3>2
  <2>3. ASSUME NEW k \in 1..Len(ls) PROVE was[Len(more) + k] = Hears(next, more[1], ls[k])
    <3>1. k + 1 \in 1..Len(lines) /\ Len(more) + k = Len(got) + (k + 1)
      BY <1>2, <1>5, <1>6
    <3>2. was[Len(got) + (k + 1)] = Hears(now, got[1], lines[k + 1])
      BY <1>7, <3>1
    <3>3. next = now /\ now # "answered"
      BY <1>2, <1>4, <1>5, <1>6, <1>7
    <3>4. Hears(next, more[1], ls[k]) = Hears(now, got[1], ls[k])
      BY <3>3 DEF Hears
    <3> QED BY <1>5, <3>1, <3>2, <3>4
  <2> QED BY <2>1, <2>2, <2>3 DEF Pending
<1> QED BY <1>4, <1>5, <1>8

-----------------------------------------------------------------------------
(* The invariant *)

WireInv ==
  /\ table \in Tables /\ IsSeq(sent) /\ IsSeq(read)
  /\ Agrees(phase, socket, sent, read)

\* A new connection holds nothing and owes nothing.
LEMMA WireInit == Init => WireInv
<1> SUFFICES ASSUME Init PROVE WireInv
  OBVIOUS
<1> USE DEF Init
<1>1. sent = <<>> /\ read = <<>> /\ socket = <<>> /\ phase = "asks" /\ table \in Tables
  OBVIOUS
<1>2. IsSeq(<<>>)
  <2>1. <<>> \in Seq({})
    OBVIOUS
  <2> QED BY <2>1 DEF IsSeq
<1>3. Len(<<>>) = 0
  OBVIOUS
<1>4. Pending("asks", <<>>, <<>>, <<>>)
  BY <1>3 DEF Pending
<1>5. Stage("asks", <<>>, <<>>)
  BY <1>3 DEF Stage
<1>6. Agrees("asks", <<>>, <<>>, <<>>)
  BY <1>4, <1>5, HoldsNone DEF Agrees
<1> QED BY <1>1, <1>2, <1>6 DEF WireInv

\* A step that says or reads something keeps the invariant.
LEMMA SayKeeps ==
  ASSUME NEW line, NEW meaning, WireInv, Say(line, meaning), UNCHANGED <<table, read>>,
         CanSay(phase, phase', sent, read, line, meaning)
  PROVE  WireInv'
<1>1. /\ socket' = socket \o line \o <<Break>> /\ sent' = Append(sent, meaning)
      /\ read' = read /\ table' = table
  BY DEF Say
<1>2. Agrees(phase', socket \o line \o <<Break>>, Append(sent, meaning), read)
  BY Saying DEF WireInv
<1>3. IsSeq(Append(sent, meaning))
  BY IsSeqMore DEF WireInv
<1> QED BY <1>1, <1>2, <1>3 DEF WireInv

\* Reading a line as what it is taken for in the phase keeps the invariant.
LEMMA TakeKeeps ==
  ASSUME NEW meaning, WireInv, Take(meaning), UNCHANGED <<table, sent>>,
         CanTake(phase, phase', sent, read, meaning, socket)
  PROVE  WireInv'
<1>1. /\ socket' = Behind(socket) /\ read' = Append(read, meaning)
      /\ sent' = sent /\ table' = table
  BY DEF Take, Line, Behind, LineOf
<1>2. Agrees(phase', Behind(socket), sent, Append(read, meaning))
  BY Taking DEF WireInv
<1>3. IsSeq(Append(read, meaning))
  BY IsSeqMore DEF WireInv
<1> QED BY <1>1, <1>2, <1>3 DEF WireInv

\* The request keeps the invariant, since a command is read as it is meant.
LEMMA AskKeeps ==
  ASSUME WireInv, NEW command \in Commands, Ask(command)
  PROVE  WireInv'
<1>1. phase = "asks" /\ phase' = "asked" /\ Say(EncodeCommand(command), command)
      /\ UNCHANGED <<table, read>>
  BY DEF Ask
<1>2. EncodeCommand(command) \in Single /\ Hears("asked", read[1], EncodeCommand(command)) = command
  BY CommandParsed DEF Hears
<1>3. Len(Append(sent, command)) = Len(sent) + 1 /\ Len(sent) \in Nat /\ Len(read) \in Nat
  BY IsSeqMore DEF WireInv
<1>4. CanSay("asks", "asked", sent, read, EncodeCommand(command), command)
  BY <1>2, <1>3 DEF CanSay, Stage
<1> QED BY <1>1, <1>4, SayKeeps

\* handle_conn reads the request.
LEMMA HearCommandKeeps ==
  ASSUME WireInv, HearCommand
  PROVE  WireInv'
<1>1. /\ phase = "asked" /\ phase' = phase /\ Take(ParseCommand(LineOf(socket)))
      /\ socket # <<>> /\ UNCHANGED <<table, sent>>
  BY DEF HearCommand, Take, Line, LineOf
<1>2. CanTake("asked", "asked", sent, read, ParseCommand(LineOf(socket)), socket)
  BY <1>1 DEF CanTake, Hears, Stage
<1> QED BY <1>1, <1>2, TakeKeeps

\* The wrapper reads a frame.
LEMMA HearFrameKeeps ==
  ASSUME WireInv, HearFrame
  PROVE  WireInv'
<1>1. /\ phase = "sink" /\ phase' = phase /\ Take(ParseFrame(LineOf(socket)))
      /\ socket # <<>> /\ UNCHANGED <<table, sent>>
  BY DEF HearFrame, Take, Line, LineOf
<1>2. CanTake("sink", "sink", sent, read, ParseFrame(LineOf(socket)), socket)
  BY <1>1 DEF CanTake, Hears, Stage
<1> QED BY <1>1, <1>2, TakeKeeps

\* The client reads the answer.
LEMMA HearAnswerKeeps ==
  ASSUME WireInv, HearAnswer
  PROVE  WireInv'
<1>1. /\ phase = "answered" /\ phase' = "closed"
      /\ Take(HeardAnswer(read[1], LineOf(socket)))
      /\ socket # <<>> /\ UNCHANGED <<table, sent>>
  BY DEF HearAnswer, Take, Line, LineOf, HeardAnswer, Asked
<1>2. CanTake("answered", "closed", sent, read, HeardAnswer(read[1], LineOf(socket)), socket)
  <2>1. HeardAnswer(read[1], LineOf(socket)) = Hears("answered", read[1], LineOf(socket))
    BY DEF Hears
  <2>2. Stage("answered", sent, read) => Len(sent) <= Len(read) + 1
    <3>1. Len(read) \in Nat /\ Len(sent) \in Nat
      BY IsSeqMore DEF WireInv
    <3>2. ASSUME Len(sent) = 2, Len(read) >= 1 PROVE Len(sent) <= Len(read) + 1
      BY <3>1, <3>2
    <3> QED BY <3>2 DEF Stage
  <2>3. Stage("closed", sent, Append(read, HeardAnswer(read[1], LineOf(socket))))
    BY DEF Stage
  <2> QED BY <1>1, <2>1, <2>2, <2>3 DEF CanTake
<1> QED BY <1>1, <1>2, TakeKeeps

-----------------------------------------------------------------------------
(* Frames are one line *)

\* A text of a single line makes a frame of a single line.
LEMMA TextLine ==
  ASSUME NEW kind \in {"transcript", "finalize"}, NEW text \in Text,
         SingleLine(Frame(kind, text))
  PROVE  EncodeFrame(Frame(kind, text)) \in Single
<1>1. text \in Single
  <2>1. DOMAIN text = 1..Len(text)
    BY DEF Text
  <2>2. "text" \in DOMAIN Frame(kind, text) /\ Frame(kind, text).text = text
    BY DEF Frame
  <2>3. \A i \in DOMAIN text : text[i] # Break
    BY <2>2 DEF SingleLine
  <2> QED BY <2>1, <2>3 DEF Single
<1>2. EncodeFrame(Frame(kind, text)) = <<kind, Blank>> \o text
  BY DEF EncodeFrame, Frame
<1>3. <<kind, Blank>> \in Single
  BY OneLine
<1> QED BY <1>1, <1>2, <1>3, SingleJoins

\* So does an edit.
LEMMA EditLine ==
  ASSUME NEW committed \in Seq(STRING \ {Unit, Break}), NEW tail \in Seq(STRING \ {Unit, Break})
  PROVE  EncodeFrame(Edit(committed, tail)) \in Single
<1>1. committed \in Single /\ tail \in Single
  BY DEF Single, Text, Symbol
<1>2. <<Unit>> \in Single
  <2>1. Unit \in Symbol /\ Unit # Break
    BY DEF Symbol, Keyword, Unit, Break
  <2> QED BY <2>1, SingleTuples
<1>3. EncodeFrame(Edit(committed, tail)) = <<"live-edit", Blank>> \o (committed \o <<Unit>> \o tail)
  BY DEF EncodeFrame, Edit
<1>4. <<"live-edit", Blank>> \in Single
  BY OneLine
<1>5. committed \o <<Unit>> \o tail \in Single
  BY <1>1, <1>2, SingleJoins
<1> QED BY <1>3, <1>4, <1>5, SingleJoins

\* So does a state.
LEMMA PushedLine ==
  ASSUME NEW state \in States
  PROVE  EncodeFrame(Pushed(state)) \in Single
<1>1. EncodeState(state) \in Single
  BY WireAssumption, OneLine
<1>2. EncodeFrame(Pushed(state)) = <<"state", Blank>> \o EncodeState(state)
  BY DEF EncodeFrame, Pushed
<1>3. <<"state", Blank>> \in Single
  BY OneLine
<1> QED BY <1>1, <1>2, <1>3, SingleJoins

\* An answer is read as it was meant if its line is.
LEMMA AnswerKeeps ==
  ASSUME WireInv, phase = "asked", read # <<>>, NEW line, NEW meaning,
         NEW next \in {"answered", "sink"}, Answer(line, meaning, next),
         line \in Single, Hears(next, read[1], line) = meaning
  PROVE  WireInv'
<1>1. phase' = next /\ Say(line, meaning) /\ UNCHANGED <<table, read>>
  BY DEF Answer
<1>2. Len(read) \in Nat /\ Len(read) >= 1 /\ Len(sent) \in Nat
  <2>1. PICK S : read \in Seq(S)
    BY DEF WireInv, IsSeq
  <2>2. Len(read) \in Nat /\ Len(read) # 0
    BY <2>1
  <2> QED BY <2>2, IsSeqMore DEF WireInv
<1>3. Len(Append(sent, meaning)) = Len(sent) + 1
  BY IsSeqMore DEF WireInv
<1>4. CanSay("asked", next, sent, read, line, meaning)
  <2>1. Stage("asked", sent, read) => Len(sent) = 1
    BY DEF Stage
  <2>2. Stage("asked", sent, read) => Len(sent) <= Len(read)
    BY <1>2, <2>1
  <2>3. Len(Append(sent, meaning)) = 2 /\ Len(read) >= 1
          => Stage(next, Append(sent, meaning), read)
    BY DEF Stage
  <2>4. ASSUME Stage("asked", sent, read) PROVE Stage(next, Append(sent, meaning), read)
    <3>1. Len(sent) = 1
      BY <2>4 DEF Stage
    <3>2. Len(Append(sent, meaning)) = 2
      BY <1>3, <3>1
    <3> QED BY <1>2, <2>3, <3>2
  <2> QED BY <2>2, <2>4 DEF CanSay
<1> QED BY <1>1, <1>4, SayKeeps

\* The refusal is read as such by a client of another version.
LEMMA RefuseSinkKeeps ==
  ASSUME WireInv, RefuseSink
  PROVE  WireInv'
<1>1. phase = "asked" /\ read # <<>> /\ read[1].command = "register-sink"
  BY DEF RefuseSink, Asks, Asked
<1>2. PICK m \in {Incompatible, UnknownCommand} :
        Answer(EncodeErr(m), Link("incompatible"), "answered")
  BY DEF RefuseSink
<1>3. EncodeErr(m) \in Single /\ ClassifyFirstLine(EncodeErr(m)) = "incompatible"
  BY RefusalParsed
<1>4. Hears("answered", read[1], EncodeErr(m)) = Link("incompatible")
  BY <1>1, <1>3 DEF Hears, HeardAnswer
<1> QED BY <1>1, <1>2, <1>3, <1>4, AnswerKeeps

\* The first state that is pushed is read as a registration.
LEMMA ServeSinkKeeps ==
  ASSUME WireInv, NEW state \in States, ServeSink(state)
  PROVE  WireInv'
<1>1. /\ phase = "asked" /\ read # <<>>
      /\ Answer(EncodeFrame(Pushed(state)), Pushed(state), "sink")
  BY DEF ServeSink, Asks
<1>2. EncodeFrame(Pushed(state)) \in Single
  BY PushedLine
<1>3. Hears("sink", read[1], EncodeFrame(Pushed(state))) = Pushed(state)
  BY WireAssumption, FrameParsed DEF Hears
<1> QED BY <1>1, <1>2, <1>3, AnswerKeeps

\* The status is read with its count.
LEMMA AnswerStatusKeeps ==
  ASSUME WireInv, NEW state \in States, NEW wrappers \in Counts, AnswerStatus(state, wrappers)
  PROVE  WireInv'
<1>1. phase = "asked" /\ read # <<>> /\ read[1].command = "status"
  BY DEF AnswerStatus, Asks, Asked
<1>2. state \in State /\ wrappers \in Digits
  BY WireAssumption
<1>3. CASE old
  <2>1. Answer(EncodeOk(state), Report(state, Decimal[0]), "answered")
    BY <1>3 DEF AnswerStatus
  <2>2. EncodeOk(state) \in Single
    BY <1>2, OneLine
  <2>3. Hears("answered", read[1], EncodeOk(state)) = Report(state, Decimal[0])
    BY <1>1, <1>2, OkParsed DEF Hears, HeardAnswer
  <2> QED BY <1>1, <2>1, <2>2, <2>3, AnswerKeeps
<1>4. CASE ~old
  <2> DEFINE report == Report(state, wrappers)
  <2>1. Answer(EncodeReport(report), report, "answered")
    BY <1>4 DEF AnswerStatus
  <2>2. EncodeReport(report) \in Single
    BY <1>2, OneLine
  <2>3. EncodeReport(report)[1] = "ok" /\ ParseReport(EncodeReport(report)) = report
    BY <1>2, ReportParsed
  <2> HIDE DEF report
  <2>4. Hears("answered", read[1], EncodeReport(report)) = report
    BY <1>1, <2>3 DEF Hears, HeardAnswer
  <2> QED BY <1>1, <2>1, <2>2, <2>4, AnswerKeeps
<1> QED BY <1>3, <1>4

\* The answer to a command is read as a state or an error.
LEMMA AnswerCommandKeeps ==
  ASSUME WireInv, NEW state \in States, AnswerCommand(state)
  PROVE  WireInv'
<1>1. phase = "asked" /\ read # <<>> /\ read[1].command \in Word
  BY DEF AnswerCommand, Asks, Asked
<1>2. read[1].command # "register-sink" /\ state \in State
  BY <1>1, WireAssumption DEF Word
<1>3. CASE Answer(EncodeOk(state), Report(state, Decimal[0]), "answered")
  <2>1. EncodeOk(state) \in Single
    BY <1>2, OneLine
  <2>2. Hears("answered", read[1], EncodeOk(state)) = Report(state, Decimal[0])
    BY <1>2, OkParsed DEF Hears, HeardAnswer
  <2> QED BY <1>1, <1>3, <2>1, <2>2, AnswerKeeps
<1>4. CASE Answer(EncodeErr(<<"busy">>), Error("busy"), "answered")
  <2> DEFINE line == EncodeErr(<<"busy">>)
  <2>1. line \in Single /\ line[1] = "err" /\ line[3] = "busy"
    BY RefusalParsed
  <2> HIDE DEF line
  <2>2. Hears("answered", read[1], line) = Error("busy")
    BY <1>2, <2>1 DEF Hears, HeardAnswer
  <2> QED BY <1>1, <1>4, <2>1, <2>2, AnswerKeeps DEF line
<1> QED BY <1>3, <1>4 DEF AnswerCommand

\* A push to a sink is read as it was meant if its line is, when it is one line.
LEMMA PushKeeps ==
  ASSUME WireInv, phase = "sink", phase' = phase, NEW line, NEW meaning,
         Say(line, meaning), UNCHANGED <<table, read>>,
         SingleLine(meaning) => line \in Single /\ ParseFrame(line) = meaning
  PROVE  WireInv'
<1>1. CanSay("sink", "sink", sent, read, line, meaning)
  BY DEF CanSay, Stage, Hears
<1> QED BY <1>1, SayKeeps

\* A transcript that is a single line is read as it is.
LEMMA TranscribeKeeps ==
  ASSUME WireInv, NEW raw \in Raws, NEW short \in BOOLEAN,
         NEW kind \in {"transcript", "finalize"}, Transcribe(raw, short, kind)
  PROVE  WireInv'
<1> DEFINE text == FinalizeTranscript(ParseTranscript(raw), short, table)
<1>1. text \in Text
  BY TranscriptTyped DEF WireInv
<1>2. phase = "sink" /\ phase' = phase /\ UNCHANGED <<table, read>>
  BY DEF Transcribe
<1>3. CASE UNCHANGED <<socket, sent>>
  BY <1>2, <1>3 DEF WireInv
<1>4. CASE Say(EncodeFrame(Frame(kind, text)), Frame(kind, text))
  <2> HIDE DEF text
  <2>1. ASSUME SingleLine(Frame(kind, text))
        PROVE  /\ EncodeFrame(Frame(kind, text)) \in Single
               /\ ParseFrame(EncodeFrame(Frame(kind, text))) = Frame(kind, text)
    BY <1>1, <2>1, TextLine, FrameParsed
  <2> QED BY <1>2, <1>4, <2>1, PushKeeps
<1> QED BY <1>3, <1>4 DEF Transcribe

\* An edit is read as it is.
LEMMA PushEditKeeps ==
  ASSUME WireInv, NEW edit \in Edits, PushEdit(edit)
  PROVE  WireInv'
<1> DEFINE frame == Edit(edit.committed, edit.tail)
<1>1. /\ phase = "sink" /\ phase' = phase /\ UNCHANGED <<table, read>>
      /\ Say(EncodeFrame(frame), frame)
  BY DEF PushEdit
<1>2. /\ edit.committed \in Seq(STRING \ {Unit, Break})
      /\ edit.tail \in Seq(STRING \ {Unit, Break})
  BY WireAssumption
<1>3. EncodeFrame(frame) \in Single /\ ParseFrame(EncodeFrame(frame)) = frame
  BY <1>2, EditLine, FrameParsed
<1> HIDE DEF frame
<1> QED BY <1>1, <1>3, PushKeeps

\* A state is read as it is.
LEMMA PushStateKeeps ==
  ASSUME WireInv, NEW state \in States, PushState(state)
  PROVE  WireInv'
<1>1. /\ phase = "sink" /\ phase' = phase /\ UNCHANGED <<table, read>>
      /\ Say(EncodeFrame(Pushed(state)), Pushed(state))
  BY DEF PushState
<1>2. /\ EncodeFrame(Pushed(state)) \in Single
      /\ ParseFrame(EncodeFrame(Pushed(state))) = Pushed(state)
  BY PushedLine, WireAssumption, FrameParsed
<1> QED BY <1>1, <1>2, PushKeeps

\* The invariant holds of every connection: whatever is waiting in the socket will be
\* read, line by line, as the rest of what was meant.
THEOREM WireInvariant == Spec => []WireInv
<1>1. ASSUME WireInv, [Next]_vars PROVE WireInv'
  <2>1. CASE UNCHANGED vars
    BY <1>1, <2>1 DEF vars, WireInv
  <2>2. CASE Next
    BY <1>1, <2>2, AskKeeps, HearCommandKeeps, RefuseSinkKeeps, HearAnswerKeeps,
       HearFrameKeeps, ServeSinkKeeps, AnswerCommandKeeps, PushStateKeeps,
       AnswerStatusKeeps, TranscribeKeeps, PushEditKeeps DEF Next
  <2> QED BY <1>1, <2>1, <2>2
<1> QED BY <1>1, WireInit, PTL DEF Spec

\* As long as every text is a single line, what each side has read is the beginning of
\* what the other meant (Frame::parse, Command::parse, StatusReport::parse,
\* classify_first_line, after handle_conn, serve_sink and serve_link).
THEOREM WireReadAsSent == Spec => []ReadAsSent
<1>1. ASSUME WireInv PROVE ReadAsSent
  <2>1. SUFFICES ASSUME Said(sent) PROVE IsPrefix(read, sent)
    BY DEF ReadAsSent, Said
  <2>2. PICK lines : Holds(socket, lines) /\ Pending(phase, sent, read, lines)
    BY <1>1, <2>1 DEF WireInv, Agrees
  <2>3. PICK S : sent \in Seq(S)
    BY <1>1 DEF WireInv, IsSeq
  <2>4. PICK T : read \in Seq(T)
    BY <1>1 DEF WireInv, IsSeq
  <2>5. Len(lines) \in Nat
    BY <2>2 DEF Holds
  <2>6. Len(sent) = Len(read) + Len(lines) /\ \A i \in 1..Len(read) : read[i] = sent[i]
    BY <2>2 DEF Pending
  <2> DEFINE n == Len(read)
             a == SubSeq(read, 1, n)
             b == SubSeq(sent, 1, n)
             U == S \cup T
  <2>7. n \in Nat /\ n <= Len(sent) /\ Len(sent) \in Nat
    BY <2>3, <2>4, <2>5, <2>6
  <2>8. \A i \in 1..n : read[i] \in U /\ sent[i] \in U
    BY <2>3, <2>4, <2>7
  <2>9. /\ a \in Seq(U) /\ Len(a) = n /\ \A i \in 1..n : a[i] = read[i]
        /\ b \in Seq(U) /\ Len(b) = n /\ \A i \in 1..n : b[i] = sent[i]
    BY <2>7, <2>8
  <2> HIDE DEF a, b, U
  <2>10. a = b
    BY <2>6, <2>9, SeqEqual
  <2> QED BY <2>7, <2>10 DEF IsPrefix, a, b
<1> QED BY <1>1, WireInvariant, PTL

-----------------------------------------------------------------------------
(* What the transcripts are *)

\* What was said is what the pipeline makes of an answer of the decoder, and the table is
\* one of the configurations'.
SaidInv ==
  /\ table \in Tables
  /\ said.text # Discarded =>
       /\ said.raw \in Raws
       /\ said.text = ApplyCorrections(ParseTranscript(said.raw), table)

\* It is kept by every step: only a transcription changes what was said.
LEMMA SaidInvariant == Spec => []SaidInv
<1>1. Init => SaidInv
  BY DEF Init, SaidInv, Nothing
<1>2. ASSUME SaidInv, [Next]_vars PROVE SaidInv'
  <2>1. CASE UNCHANGED <<table, said>>
    BY <1>2, <2>1 DEF SaidInv
  <2>2. CASE \E raw \in Raws, short \in BOOLEAN, kind \in {"transcript", "finalize"} :
               Transcribe(raw, short, kind)
    <3>1. PICK raw \in Raws, short \in BOOLEAN, kind \in {"transcript", "finalize"} :
            Transcribe(raw, short, kind)
      BY <2>2
    <3> DEFINE text == FinalizeTranscript(ParseTranscript(raw), short, table)
    <3>2. /\ said' = IF text = Discarded THEN Nothing ELSE [raw |-> raw, text |-> text]
          /\ table' = table
      BY <3>1 DEF Transcribe
    <3>3. CASE text = Discarded
      BY <1>2, <3>2, <3>3 DEF SaidInv, Nothing
    <3>4. CASE text # Discarded
      <4>1. text = ApplyCorrections(ParseTranscript(raw), table)
        BY <3>4 DEF FinalizeTranscript
      <4> HIDE DEF text
      <4>2. said'.raw = raw /\ said'.text = text
        BY <3>2, <3>4
      <4> QED BY <1>2, <3>2, <4>1, <4>2 DEF SaidInv
    <3> QED BY <3>3, <3>4
  <2>3. CASE UNCHANGED vars
    BY <2>1, <2>3 DEF vars
  <2>4. CASE Next
    <3>1. \/ UNCHANGED <<table, said>>
          \/ \E raw \in Raws, short \in BOOLEAN, kind \in {"transcript", "finalize"} :
               Transcribe(raw, short, kind)
      BY <2>4 DEF Next, Ask, HearCommand, RefuseSink, Answer, HearAnswer, HearFrame,
         ServeSink, AnswerCommand, PushState, AnswerStatus, PushEdit
    <3> QED BY <2>1, <2>2, <3>1
  <2> QED BY <1>2, <2>3, <2>4
<1> QED BY <1>1, <1>2, PTL DEF Spec

\* With a plain table, whatever survives the filter has its longest phrases replaced, whole
\* words only, from left to right, nothing else touched and no panic, although the code
\* searches byte by byte and phrase by phrase (ordered_corrections, apply_corrections,
\* replace_word_ci).
THEOREM WireCorrectedAsWritten == Spec => []CorrectedAsWritten
<1>1. ASSUME SaidInv PROVE CorrectedAsWritten
  <2>1. SUFFICES ASSUME Plain(table), said.text # Discarded
                 PROVE  said.text = Corrected(ParseTranscript(said.raw), table)
    BY DEF CorrectedAsWritten
  <2>2. IsTable(table) /\ PlainTable(table)
    BY <1>1, <2>1, WireAssumption, PlainIs DEF SaidInv
  <2>3. ParseTranscript(said.raw) \in Seq(Chars)
    <3>1. said.raw \in Seq(STRING \ {Panic})
      BY <1>1, <2>1, WireAssumption DEF SaidInv
    <3>2. STRING \ {Panic} \subseteq Chars /\ Blank \in Chars /\ Chars \in SUBSET Symbol
      BY DEF Chars, Symbol, Keyword, White, Blank, Panic
    <3>3. said.raw \in Seq(Chars)
      BY <3>1, <3>2, WiderSeq
    <3> QED BY <3>2, <3>3, ParseTranscriptOver
  <2> QED BY <1>1, <2>1, <2>2, <2>3, CorrectedInTurn DEF SaidInv
<1> QED BY <1>1, SaidInvariant, PTL
===============================================================================
