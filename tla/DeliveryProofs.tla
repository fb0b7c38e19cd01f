----------------------------- MODULE DeliveryProofs -----------------------------
(***************************************************************************)
(* Proofs about Delivery, for any number of utterances, wrappers and       *)
(* frames, any cache size and any mix of capture modes.                    *)
(*                                                                         *)
(* First the lemmas about the two tables: what the operations of the queue *)
(* do to what the daemon can ask of it (which utterances are queued, which *)
(* of them are pending, whether the head is ready and which it is), and    *)
(* that those of the registry keep it well formed.                         *)
(*                                                                         *)
(* The safety properties are not inductive one by one.  That a drain's     *)
(* snapshot stays the ready head (HeadPinned) needs that a task still      *)
(* transcribing owns a pending utterance, and owns it alone (TasksOwn);    *)
(* that what a drain sends goes where the utterance was bound needs that   *)
(* the binding table agrees with the history (BindingsAgree); that one     *)
(* drain runs at a time needs that a task not yet started is in no drain   *)
(* (Unborn).  IInv is their conjunction.                                   *)
(*                                                                         *)
(* That the frames in a sink's channel are in order needs an invariant of  *)
(* the history, which every step of the abstract specification keeps       *)
(* (HistoryOrdered), and that a delivered utterance stays delivered.       *)
(***************************************************************************)
EXTENDS Delivery, SequenceTheorems, TLAPS


-----------------------------------------------------------------------------
(* The delivery queue *)

\* Removing the k-th element closes the gap and keeps everything else.
LEMMA RemoveAtProperties ==
  ASSUME NEW S, NEW q \in Seq(S), NEW k \in 1 .. Len(q)
  PROVE  /\ RemoveAt(q, k) \in Seq(S)
         /\ Len(RemoveAt(q, k)) = Len(q) - 1
         /\ \A j \in 1 .. Len(q) - 1 :
              RemoveAt(q, k)[j] = IF j < k THEN q[j] ELSE q[j + 1]
<1> DEFINE front == SubSeq(q, 1, k - 1)
           back  == SubSeq(q, k + 1, Len(q))
<1>1. /\ front \in Seq(S)
      /\ Len(front) = k - 1
      /\ \A j \in 1 .. k - 1 : front[j] = q[j]
  BY SubSeqProperties, LenProperties
<1>2. /\ back \in Seq(S)
      /\ Len(back) = Len(q) - k
      /\ \A j \in 1 .. Len(q) - k : back[j] = q[k + j]
  BY SubSeqProperties, LenProperties
<1>3. RemoveAt(q, k) = front \o back
  BY DEF RemoveAt
<1> HIDE DEF front, back
<1>4. /\ front \o back \in Seq(S)
      /\ Len(front \o back) = Len(front) + Len(back)
      /\ \A j \in 1 .. Len(front) + Len(back) :
           (front \o back)[j] = IF j <= Len(front) THEN front[j]
                                                   ELSE back[j - Len(front)]
  BY <1>1, <1>2, ConcatProperties
<1>5. ASSUME NEW j \in 1 .. Len(q) - 1
      PROVE  (front \o back)[j] = IF j < k THEN q[j] ELSE q[j + 1]
  <2>1. CASE j < k
    BY <2>1, <1>1, <1>2, <1>4
  <2>2. CASE ~(j < k)
    <3>1. j - (k - 1) \in 1 .. Len(q) - k
      BY <2>2
    <3>2. back[j - (k - 1)] = q[k + (j - (k - 1))]
      BY <3>1, <1>2
    <3>3. (front \o back)[j] = back[j - (k - 1)]
      BY <2>2, <1>1, <1>2, <1>4
    <3>4. k + (j - (k - 1)) = j + 1
      OBVIOUS
    <3> QED BY <3>2, <3>3, <3>4, <2>2
  <2> QED BY <2>1, <2>2
<1> QED BY <1>1, <1>2, <1>3, <1>4, <1>5

\* DeliveryQueue::default: nothing queued.
LEMMA EmptyQueueProperties ==
  /\ EmptyQueue \in Queue
  /\ Sorted(EmptyQueue)
  /\ Queued(EmptyQueue) = {}
BY DEF EmptyQueue, Queue, Sorted, Queued

\* The head of a sorted queue is the oldest queued utterance; ready is the
\* opposite of pending.
LEMMA HeadProperties ==
  ASSUME NEW q \in Queue, Sorted(q), HeadReady(q)
  PROVE  /\ HeadSeq(q) \in Queued(q)
         /\ \A s \in Queued(q) : HeadSeq(q) <= s
         /\ ~Pending(q, HeadSeq(q))
<1>1. q.items \in Seq(Item) /\ Len(q.items) \in Nat /\ DOMAIN q.items = 1 .. Len(q.items)
  BY LenProperties DEF Queue
<1>2. 1 \in DOMAIN q.items
  BY <1>1, EmptySeq DEF HeadReady
<1>3. \A i \in DOMAIN q.items : q.items[i] \in Item
  BY <1>1, ElementOfSeq
<1> QED BY <1>1, <1>2, <1>3 DEF HeadReady, HeadSeq, Queued, Pending, Sorted, Item

\* What is queued was numbered, and what is pending is queued.
LEMMA QueuedProperties ==
  ASSUME NEW q \in Queue, Sorted(q)
  PROVE  /\ Queued(q) \subseteq Nat
         /\ \A s \in Queued(q) : s < q.next
         /\ \A s : Pending(q, s) => s \in Queued(q)
<1>1. q.items \in Seq(Item) /\ DOMAIN q.items = 1 .. Len(q.items)
  BY LenProperties DEF Queue
<1>2. \A i \in DOMAIN q.items : q.items[i] \in Item
  BY <1>1, ElementOfSeq
<1> QED BY <1>1, <1>2 DEF Queued, Pending, Sorted, Item

\* enqueue: a number nobody has, at the back, pending; the head stays the head.
LEMMA EnqueueProperties ==
  ASSUME NEW q \in Queue, Sorted(q)
  PROVE  /\ Enqueue(q) \in Queue
         /\ Sorted(Enqueue(q))
         /\ Enqueue(q).next = q.next + 1
         /\ Queued(Enqueue(q)) = Queued(q) \cup {q.next}
         /\ q.next \notin Queued(q)
         /\ HeadReady(q) => HeadReady(Enqueue(q)) /\ HeadSeq(Enqueue(q)) = HeadSeq(q)
         /\ \A s : Pending(Enqueue(q), s) <=> Pending(q, s) \/ s = q.next
<1> DEFINE n    == Len(q.items)
           item == [seq |-> q.next, ready |-> FALSE]
           new  == Append(q.items, item)
<1>1. q.items \in Seq(Item) /\ n \in Nat /\ DOMAIN q.items = 1 .. n /\ q.next \in Nat
  BY LenProperties DEF Queue
<1>2. \A i \in 1 .. n : q.items[i] \in Item
  BY <1>1, ElementOfSeq
<1>3. item \in Item
  BY <1>1 DEF Item
<1>4. /\ new \in Seq(Item)
      /\ Len(new) = n + 1
      /\ DOMAIN new = 1 .. n + 1
      /\ \A i \in 1 .. n : new[i] = q.items[i]
      /\ new[n + 1] = item
  BY <1>1, <1>3, AppendProperties, LenProperties
<1>5. Enqueue(q).items = new /\ Enqueue(q).next = q.next + 1
  BY DEF Enqueue
<1> HIDE DEF new, n
<1>6. Enqueue(q) \in Queue
  BY <1>1, <1>4, <1>5 DEF Queue, Enqueue, new
<1>7. \A i \in 1 .. n + 1 : new[i].seq = IF i = n + 1 THEN q.next ELSE q.items[i].seq
  BY <1>1, <1>4
<1>8. \A i \in 1 .. n : q.items[i].seq \in Nat /\ q.items[i].seq < q.next
  BY <1>1, <1>2 DEF Item, Sorted
<1>9. Sorted(Enqueue(q))
  <2>1. ASSUME NEW i \in 1 .. n + 1, NEW j \in 1 .. n + 1, i < j
        PROVE  new[i].seq < new[j].seq
    <3>1. i \in 1 .. n /\ new[i].seq = q.items[i].seq
      BY <2>1, <1>1, <1>7
    <3>2. CASE j = n + 1
      BY <3>1, <3>2, <1>7, <1>8
    <3>3. CASE j # n + 1
      <4>1. j \in 1 .. n /\ new[j].seq = q.items[j].seq
        BY <3>3, <1>1, <1>7
      <4> QED BY <4>1, <3>1, <2>1, <1>1 DEF Sorted
    <3> QED BY <3>2, <3>3
  <2>2. ASSUME NEW i \in 1 .. n + 1
        PROVE  new[i].seq < q.next + 1
    BY <1>1, <1>7, <1>8
  <2> QED BY <2>1, <2>2, <1>4, <1>5 DEF Sorted
<1>10. Queued(Enqueue(q)) = Queued(q) \cup {q.next}
  BY <1>1, <1>4, <1>5, <1>7 DEF Queued
<1>11. q.next \notin Queued(q)
  BY <1>1, <1>8 DEF Queued
<1>12. ASSUME HeadReady(q)
       PROVE  HeadReady(Enqueue(q)) /\ HeadSeq(Enqueue(q)) = HeadSeq(q)
  <2>1. 1 \in 1 .. n
    BY <1>1, <1>12, EmptySeq DEF HeadReady
  <2> QED BY <2>1, <1>1, <1>4, <1>5, <1>12, EmptySeq DEF HeadReady, HeadSeq
<1>13. ASSUME NEW s
       PROVE  Pending(Enqueue(q), s) <=> Pending(q, s) \/ s = q.next
  BY <1>1, <1>4, <1>5 DEF Pending
<1> QED BY <1>5, <1>6, <1>9, <1>10, <1>11, <1>12, <1>13

\* set_ready changes no number and no position, and only utterance s stops
\* being pending.
LEMMA SetReadyProperties ==
  ASSUME NEW q \in Queue, Sorted(q), NEW s
  PROVE  /\ SetReady(q, s) \in Queue
         /\ Sorted(SetReady(q, s))
         /\ SetReady(q, s).next = q.next
         /\ Queued(SetReady(q, s)) = Queued(q)
         /\ HeadReady(q) => HeadReady(SetReady(q, s)) /\ HeadSeq(SetReady(q, s)) = HeadSeq(q)
         /\ \A t : Pending(SetReady(q, s), t) <=> Pending(q, t) /\ t # s
<1> DEFINE n   == Len(q.items)
           new == [i \in DOMAIN q.items |->
                     IF q.items[i].seq = s THEN [q.items[i] EXCEPT !.ready = TRUE]
                                           ELSE q.items[i]]
<1>1. q.items \in Seq(Item) /\ n \in Nat /\ DOMAIN q.items = 1 .. n /\ q.next \in Nat
  BY LenProperties DEF Queue
<1>2. \A i \in 1 .. n : q.items[i] \in Item
  BY <1>1, ElementOfSeq
<1>3. /\ DOMAIN new = 1 .. n
      /\ \A i \in 1 .. n : /\ new[i] \in Item
                           /\ new[i].seq = q.items[i].seq
                           /\ new[i].ready <=> q.items[i].ready \/ q.items[i].seq = s
  BY <1>1, <1>2 DEF Item
<1>4. new \in Seq(Item) /\ Len(new) = n
  <2>1. new \in [1 .. n -> Item]
    BY <1>1, <1>3
  <2> HIDE DEF new
  <2> QED BY <2>1, <1>1, IsASeq, LenProperties
<1>5. /\ SetReady(q, s).items = new
      /\ SetReady(q, s).next = q.next
      /\ SetReady(q, s) \in Queue
  BY <1>1, <1>4 DEF SetReady, Queue
<1> HIDE DEF new, n
<1>6. Sorted(SetReady(q, s))
  BY <1>1, <1>3, <1>5 DEF Sorted
<1>7. Queued(SetReady(q, s)) = Queued(q)
  BY <1>1, <1>3, <1>5 DEF Queued
<1>8. ASSUME HeadReady(q)
      PROVE  HeadReady(SetReady(q, s)) /\ HeadSeq(SetReady(q, s)) = HeadSeq(q)
  <2>1. 1 \in 1 .. n
    BY <1>1, <1>8, EmptySeq DEF HeadReady, n
  <2> QED BY <2>1, <1>1, <1>3, <1>4, <1>5, <1>8, EmptySeq DEF HeadReady, HeadSeq
<1>9. ASSUME NEW t
      PROVE  Pending(SetReady(q, s), t) <=> Pending(q, t) /\ t # s
  BY <1>1, <1>3, <1>5 DEF Pending
<1> QED BY <1>5, <1>6, <1>7, <1>8, <1>9

\* resolve removes utterance s and nothing else; another head stays the head.
LEMMA ResolveProperties ==
  ASSUME NEW q \in Queue, Sorted(q), NEW s \in Queued(q)
  PROVE  /\ Resolve(q, s) \in Queue
         /\ Sorted(Resolve(q, s))
         /\ Resolve(q, s).next = q.next
         /\ Queued(Resolve(q, s)) = Queued(q) \ {s}
         /\ HeadReady(q) /\ HeadSeq(q) # s =>
              HeadReady(Resolve(q, s)) /\ HeadSeq(Resolve(q, s)) = HeadSeq(q)
         /\ \A t : Pending(Resolve(q, s), t) <=> Pending(q, t) /\ t # s
<1> DEFINE n   == Len(q.items)
           k   == PositionOf(q, s)
           new == RemoveAt(q.items, k)
<1>1. q.items \in Seq(Item) /\ n \in Nat /\ DOMAIN q.items = 1 .. n /\ q.next \in Nat
  BY LenProperties DEF Queue
<1>2. \A i \in 1 .. n : q.items[i] \in Item /\ q.items[i].seq \in Nat
  <2>1. \A i \in 1 .. n : q.items[i] \in Item
    BY <1>1, ElementOfSeq
  <2> QED BY <2>1 DEF Item
<1>3. k \in 1 .. n /\ q.items[k].seq = s
  BY <1>1 DEF PositionOf, Queued
<1>4. \A i, j \in 1 .. n : i < j => q.items[i].seq < q.items[j].seq
  BY <1>1 DEF Sorted
<1>5. \A i \in 1 .. n : q.items[i].seq < q.next
  BY <1>1 DEF Sorted
<1>6. \A i \in 1 .. n : q.items[i].seq = s => i = k
  BY <1>1, <1>2, <1>3, <1>4
<1>7. /\ new \in Seq(Item)
      /\ Len(new) = n - 1
      /\ DOMAIN new = 1 .. n - 1
      /\ \A j \in 1 .. n - 1 : new[j] = IF j < k THEN q.items[j] ELSE q.items[j + 1]
  <2> HIDE DEF k
  <2>1. /\ new \in Seq(Item)
        /\ Len(new) = n - 1
        /\ \A j \in 1 .. n - 1 : new[j] = IF j < k THEN q.items[j] ELSE q.items[j + 1]
    BY <1>1, <1>3, RemoveAtProperties
  <2> HIDE DEF new
  <2> QED BY <2>1, LenProperties
<1>8. /\ Resolve(q, s).items = new
      /\ Resolve(q, s).next = q.next
      /\ Resolve(q, s) \in Queue
  BY <1>1, <1>7 DEF Resolve, Queue
<1> HIDE DEF new, n, k
<1>9. Sorted(Resolve(q, s))
  <2>1. ASSUME NEW i \in 1 .. n - 1, NEW j \in 1 .. n - 1, i < j
        PROVE  new[i].seq < new[j].seq
    <3>1. i \in 1 .. n /\ i + 1 \in 1 .. n /\ j \in 1 .. n /\ j + 1 \in 1 .. n
      BY <1>1
    <3>2. new[i] = (IF i < k THEN q.items[i] ELSE q.items[i + 1])
          /\ new[j] = (IF j < k THEN q.items[j] ELSE q.items[j + 1])
      BY <1>7
    <3>3. i < j + 1 /\ i + 1 < j + 1 /\ (i >= k => j >= k)
      BY <2>1, <1>1, <1>3
    <3>4. CASE i < k /\ j < k
      BY <3>1, <3>2, <3>4, <2>1, <1>4
    <3>5. CASE i < k /\ ~(j < k)
      BY <3>1, <3>2, <3>3, <3>5, <1>4
    <3>6. CASE ~(i < k) /\ ~(j < k)
      BY <3>1, <3>2, <3>3, <3>6, <1>4
    <3> QED BY <3>3, <3>4, <3>5, <3>6, <1>1, <1>3
  <2>2. ASSUME NEW j \in 1 .. n - 1
        PROVE  new[j].seq < q.next
    <3>1. j \in 1 .. n /\ j + 1 \in 1 .. n
      BY <1>1
    <3> QED BY <3>1, <1>5, <1>7
  <2> QED BY <2>1, <2>2, <1>7, <1>8 DEF Sorted
<1>10. ASSUME NEW item
       PROVE  (\E j \in 1 .. n - 1 : new[j] = item) <=>
                \E i \in 1 .. n : i # k /\ q.items[i] = item
  <2>1. ASSUME NEW j \in 1 .. n - 1
        PROVE  \E i \in 1 .. n : i # k /\ q.items[i] = new[j]
    <3>1. CASE j < k
      <4>1. j \in 1 .. n
        BY <1>1
      <4> QED BY <4>1, <3>1, <1>1, <1>3, <1>7
    <3>2. CASE ~(j < k)
      <4>1. j + 1 \in 1 .. n /\ j + 1 # k
        BY <3>2, <1>1, <1>3
      <4> QED BY <4>1, <3>2, <1>7
    <3> QED BY <3>1, <3>2
  <2>2. ASSUME NEW i \in 1 .. n, i # k
        PROVE  \E j \in 1 .. n - 1 : new[j] = q.items[i]
    <3>1. CASE i < k
      <4>1. i \in 1 .. n - 1 /\ new[i] = q.items[i]
        BY <3>1, <1>1, <1>3, <1>7
      <4> QED BY <4>1
    <3>2. CASE ~(i < k)
      <4>1. i - 1 \in 1 .. n - 1 /\ ~(i - 1 < k) /\ (i - 1) + 1 = i
        BY <3>2, <2>2, <1>1, <1>3
      <4>2. new[i - 1] = q.items[i]
        BY <4>1, <1>7
      <4> QED BY <4>1, <4>2
    <3> QED BY <3>1, <3>2
  <2> QED BY <2>1, <2>2
<1>11. Queued(Resolve(q, s)) = Queued(q) \ {s}
  <2>1. ASSUME NEW t \in Queued(Resolve(q, s))
        PROVE  t \in Queued(q) \ {s}
    <3>1. PICK j \in 1 .. n - 1 : new[j].seq = t
      BY <1>7, <1>8 DEF Queued
    <3>2. PICK i \in 1 .. n : i # k /\ q.items[i] = new[j]
      BY <1>10
    <3> QED BY <3>1, <3>2, <1>1, <1>6 DEF Queued
  <2>2. ASSUME NEW t \in Queued(q), t # s
        PROVE  t \in Queued(Resolve(q, s))
    <3>1. PICK i \in 1 .. n : q.items[i].seq = t
      BY <1>1 DEF Queued
    <3>2. PICK j \in 1 .. n - 1 : new[j] = q.items[i]
      BY <3>1, <2>2, <1>3, <1>10
    <3> QED BY <3>1, <3>2, <1>7, <1>8 DEF Queued
  <2> QED BY <2>1, <2>2
<1>12. ASSUME HeadReady(q), HeadSeq(q) # s
       PROVE  HeadReady(Resolve(q, s)) /\ HeadSeq(Resolve(q, s)) = HeadSeq(q)
  <2>1. 1 \in 1 .. n /\ k # 1
    BY <1>1, <1>3, <1>12, EmptySeq DEF HeadReady, HeadSeq, n
  <2>2. 1 < k /\ 1 \in 1 .. n - 1
    BY <2>1, <1>1, <1>3
  <2>3. new # <<>> /\ new[1] = q.items[1]
    BY <2>2, <1>7, EmptySeq
  <2> QED BY <2>3, <1>8, <1>12 DEF HeadReady, HeadSeq
<1>13. ASSUME NEW t
       PROVE  Pending(Resolve(q, s), t) <=> Pending(q, t) /\ t # s
  <2>1. ASSUME Pending(Resolve(q, s), t)
        PROVE  Pending(q, t) /\ t # s
    <3>1. PICK j \in 1 .. n - 1 : new[j].seq = t /\ ~new[j].ready
      BY <2>1, <1>7, <1>8 DEF Pending
    <3>2. PICK i \in 1 .. n : i # k /\ q.items[i] = new[j]
      BY <1>10
    <3> QED BY <3>1, <3>2, <1>1, <1>6 DEF Pending
  <2>2. ASSUME Pending(q, t), t # s
        PROVE  Pending(Resolve(q, s), t)
    <3>1. PICK i \in 1 .. n : q.items[i].seq = t /\ ~q.items[i].ready
      BY <2>2, <1>1 DEF Pending
    <3>2. PICK j \in 1 .. n - 1 : new[j] = q.items[i]
      BY <3>1, <2>2, <1>3, <1>10
    <3> QED BY <3>1, <3>2, <1>7, <1>8 DEF Pending
  <2> QED BY <2>1, <2>2
<1> QED BY <1>8, <1>9, <1>11, <1>12, <1>13

-----------------------------------------------------------------------------
(* The sink registry *)

\* SinkRegistry::new: no wrapper, no active sink.
LEMMA NewRegistryProperties ==
  /\ NewRegistry \in Registry
  /\ WellFormed(NewRegistry)
  /\ Range(NewRegistry.live) = {}
BY DEF NewRegistry, Registry, WellFormed, Range

\* A registered wrapper was numbered, and an active sink is a registered one.
LEMMA LiveProperties ==
  ASSUME NEW r \in Registry, WellFormed(r)
  PROVE  /\ Range(r.live) \subseteq Nat
         /\ \A id \in Range(r.live) : id < r.next
         /\ r.active # NoSink => r.active \in Range(r.live)
<1>1. r.live \in Seq(Nat) /\ Len(r.live) \in Nat /\ DOMAIN r.live = 1 .. Len(r.live)
  BY LenProperties DEF Registry
<1>2. \A i \in DOMAIN r.live : r.live[i] \in Nat
  BY <1>1, ElementOfSeq
<1>3. r.live # <<>> => Len(r.live) \in 1 .. Len(r.live)
  BY <1>1, EmptySeq
<1> QED BY <1>1, <1>2, <1>3 DEF WellFormed, Range, Last

\* register: the new wrapper joins the others and is the active sink.
LEMMA RegisterProperties ==
  ASSUME NEW r \in Registry, WellFormed(r)
  PROVE  /\ Register(r) \in Registry
         /\ WellFormed(Register(r))
         /\ Range(Register(r).live) = Range(r.live) \cup {r.next}
         /\ Register(r).active = r.next
         /\ Register(r).next = r.next + 1
<1> DEFINE n   == Len(r.live)
           new == Append(r.live, r.next)
<1>1. r.live \in Seq(Nat) /\ n \in Nat /\ DOMAIN r.live = 1 .. n /\ r.next \in Nat
  BY LenProperties DEF Registry
<1>2. /\ new \in Seq(Nat)
      /\ Len(new) = n + 1
      /\ DOMAIN new = 1 .. n + 1
      /\ \A i \in 1 .. n : new[i] = r.live[i]
      /\ new[n + 1] = r.next
  BY <1>1, AppendProperties, LenProperties
<1>3. \A i \in 1 .. n : r.live[i] \in Nat /\ r.live[i] < r.next
  BY <1>1, ElementOfSeq DEF WellFormed
<1>4. /\ Register(r).live = new
      /\ Register(r).active = r.next
      /\ Register(r).next = r.next + 1
  BY DEF Register
<1> HIDE DEF new, n
<1>5. Register(r) \in Registry
  BY <1>1, <1>2, <1>4 DEF Register, Registry, new
<1>6. WellFormed(Register(r))
  <2>1. ASSUME NEW i \in 1 .. n + 1, NEW j \in 1 .. n + 1, i < j
        PROVE  new[i] < new[j]
    <3>1. i \in 1 .. n
      BY <2>1, <1>1
    <3>2. CASE j = n + 1
      BY <3>1, <3>2, <1>2, <1>3
    <3>3. CASE j # n + 1
      <4>1. j \in 1 .. n
        BY <3>3, <1>1
      <4> QED BY <4>1, <3>1, <2>1, <1>1, <1>2 DEF WellFormed
    <3> QED BY <3>2, <3>3
  <2>2. \A i \in 1 .. n + 1 : new[i] < r.next + 1
    BY <1>1, <1>2, <1>3
  <2>3. new # <<>> /\ Last(new) = r.next
    BY <1>1, <1>2, EmptySeq DEF Last
  <2> QED BY <2>1, <2>2, <2>3, <1>2, <1>4 DEF WellFormed
<1>7. Range(Register(r).live) = Range(r.live) \cup {r.next}
  <2>1. Range(new) = {new[i] : i \in 1 .. n} \cup {new[n + 1]}
    <3>1. 1 .. n + 1 = (1 .. n) \cup {n + 1}
      BY <1>1
    <3> QED BY <1>2, <3>1 DEF Range
  <2>2. {new[i] : i \in 1 .. n} = Range(r.live)
    BY <1>1, <1>2 DEF Range
  <2> QED BY <1>2, <1>4, <2>1, <2>2
<1> QED BY <1>4, <1>5, <1>6, <1>7

\* The newest-live handoff: after any wrapper leaves, active or not, the newest
\* survivor is active; the ids of the others are untouched.
THEOREM DeregisterProperties ==
  ASSUME NEW r \in Registry, WellFormed(r), NEW id \in Nat
  PROVE  /\ Deregister(r, id) \in Registry
         /\ WellFormed(Deregister(r, id))
         /\ Range(Deregister(r, id).live) = Range(r.live) \ {id}
         /\ Deregister(r, id).next = r.next
<1> DEFINE n   == Len(r.live)
           k   == CHOOSE i \in DOMAIN r.live : r.live[i] = id
           new == RemoveAt(r.live, k)
           out == Deregister(r, id)
<1>1. r.live \in Seq(Nat) /\ n \in Nat /\ DOMAIN r.live = 1 .. n /\ r.next \in Nat
  BY LenProperties DEF Registry
<1>2. \A i \in 1 .. n : r.live[i] \in Nat
  BY <1>1, ElementOfSeq
<1>3. /\ \A i, j \in 1 .. n : i < j => r.live[i] < r.live[j]
      /\ \A i \in 1 .. n : r.live[i] < r.next
      /\ r.active = IF r.live = <<>> THEN NoSink ELSE Last(r.live)
  BY <1>1 DEF WellFormed
<1>4. r.active \in Nat \cup {NoSink} /\ id # NoSink
  BY NoSinkAssumption DEF Registry
<1>5. CASE ~IsLive(r, id)
  <2>1. r.active # id
    <3>1. r.active # NoSink => r.active \in Range(r.live)
      BY LiveProperties
    <3> QED BY <3>1, <1>4, <1>5 DEF IsLive
  <2>2. out.live = r.live /\ out.active = r.active /\ out.next = r.next
        /\ out \in Registry
    BY <2>1, <1>5 DEF Deregister, Survivors, Registry
  <2> QED BY <2>2, <1>5 DEF WellFormed, IsLive
<1>6. CASE IsLive(r, id)
  <2>1. k \in 1 .. n /\ r.live[k] = id
    BY <1>1, <1>6 DEF IsLive, Range
  <2>2. \A i \in 1 .. n : r.live[i] = id => i = k
    BY <2>1, <1>1, <1>2, <1>3
  <2>3. /\ new \in Seq(Nat)
        /\ Len(new) = n - 1
        /\ DOMAIN new = 1 .. n - 1
        /\ \A j \in 1 .. n - 1 : new[j] = IF j < k THEN r.live[j] ELSE r.live[j + 1]
    <3> HIDE DEF k
    <3>1. /\ new \in Seq(Nat)
          /\ Len(new) = n - 1
          /\ \A j \in 1 .. n - 1 : new[j] = IF j < k THEN r.live[j] ELSE r.live[j + 1]
      BY <2>1, <1>1, RemoveAtProperties
    <3> HIDE DEF new
    <3> QED BY <3>1, LenProperties
  <2>4. \A j \in 1 .. n - 1 : j \in 1 .. n /\ j + 1 \in 1 .. n
    BY <1>1
  <2>5. /\ out.live = new
        /\ out.next = r.next
        /\ out.active = IF r.active # id THEN r.active
                        ELSE IF new = <<>> THEN NoSink ELSE Last(new)
    BY <1>6 DEF Deregister, Survivors, Registry
  <2> HIDE DEF new, k, n
  <2>6. n \in 1 .. n /\ r.live # <<>> /\ r.active = r.live[n]
    BY <2>1, <1>1, <1>3, EmptySeq DEF Last, n
  <2>7. r.active = id <=> k = n
    BY <2>1, <2>2, <2>6
  <2>8. new # <<>> => n - 1 \in 1 .. n - 1
    BY <2>3, <1>1, EmptySeq
  <2>9. out.active = IF new = <<>> THEN NoSink ELSE Last(new)
    <3>1. CASE r.active = id
      BY <3>1, <2>5
    <3>2. CASE r.active # id
      <4>1. k < n
        BY <3>2, <2>7, <2>1, <1>1
      <4>2. n - 1 \in 1 .. n - 1 /\ ~(n - 1 < k) /\ (n - 1) + 1 = n
        BY <4>1, <2>1, <1>1
      <4>3. new # <<>> /\ new[n - 1] = r.live[n]
        BY <4>2, <2>3, EmptySeq
      <4> QED BY <4>3, <3>2, <2>3, <2>5, <2>6 DEF Last
    <3> QED BY <3>1, <3>2
  <2>10. out \in Registry
    <3>1. out.active \in Nat \cup {NoSink}
      <4>1. CASE new = <<>>
        BY <4>1, <2>9
      <4>2. CASE new # <<>>
        BY <4>2, <2>3, <2>8, <2>9, ElementOfSeq DEF Last
      <4> QED BY <4>1, <4>2
    <3> HIDE DEF out
    <3>2. out = [live |-> out.live, active |-> out.active, next |-> out.next]
      BY DEF out, Deregister, Registry
    <3> QED BY <3>1, <3>2, <2>3, <2>5, <1>1 DEF Registry
  <2>11. ASSUME NEW i \in 1 .. n - 1, NEW j \in 1 .. n - 1, i < j
         PROVE  new[i] < new[j]
    <3>1. new[i] = (IF i < k THEN r.live[i] ELSE r.live[i + 1])
          /\ new[j] = (IF j < k THEN r.live[j] ELSE r.live[j + 1])
      BY <2>3
    <3>2. i < j + 1 /\ i + 1 < j + 1 /\ (~(i < k) => ~(j < k))
      BY <2>1, <2>11, <1>1
    <3>3. CASE i < k /\ j < k
      BY <3>1, <3>3, <2>4, <2>11, <1>3
    <3>4. CASE i < k /\ ~(j < k)
      BY <3>1, <3>2, <3>4, <2>4, <1>3
    <3>5. CASE ~(i < k) /\ ~(j < k)
      BY <3>1, <3>2, <3>5, <2>4, <1>3
    <3> QED BY <3>2, <3>3, <3>4, <3>5
  <2>12. \A j \in 1 .. n - 1 : new[j] < r.next
    BY <2>3, <2>4, <1>3
  <2>13. WellFormed(out)
    BY <2>3, <2>5, <2>9, <2>11, <2>12 DEF WellFormed
  <2>14. Range(out.live) = Range(r.live) \ {id}
    <3>1. ASSUME NEW j \in 1 .. n - 1
          PROVE  new[j] \in Range(r.live) /\ new[j] # id
      <4>1. CASE j < k
        <5>1. j \in 1 .. n /\ j # k
          BY <4>1, <2>4, <2>1, <1>1
        <5> QED BY <5>1, <4>1, <2>2, <2>3, <1>1 DEF Range
      <4>2. CASE ~(j < k)
        <5>1. j + 1 # k
          BY <4>2, <2>1, <1>1
        <5> QED BY <5>1, <4>2, <2>2, <2>3, <2>4, <1>1 DEF Range
      <4> QED BY <4>1, <4>2
    <3>2. ASSUME NEW i \in 1 .. n, i # k
          PROVE  \E j \in 1 .. n - 1 : new[j] = r.live[i]
      <4>1. CASE i < k
        <5>1. i \in 1 .. n - 1
          BY <4>1, <2>1, <1>1
        <5> QED BY <5>1, <4>1, <2>3
      <4>2. CASE ~(i < k)
        <5>1. i - 1 \in 1 .. n - 1 /\ ~(i - 1 < k) /\ (i - 1) + 1 = i
          BY <4>2, <3>2, <2>1, <1>1
        <5>2. new[i - 1] = r.live[i]
          BY <5>1, <2>3
        <5> QED BY <5>1, <5>2
      <4> QED BY <4>1, <4>2
    <3>3. \A x \in Range(out.live) : x \in Range(r.live) /\ x # id
      BY <3>1, <2>3, <2>5 DEF Range
    <3>4. ASSUME NEW x \in Range(r.live), x # id
          PROVE  x \in Range(out.live)
      <4>1. PICK i \in 1 .. n : r.live[i] = x
        BY <1>1 DEF Range
      <4>2. i # k
        BY <4>1, <3>4, <2>1
      <4> QED BY <4>1, <4>2, <3>2, <2>3, <2>5 DEF Range
    <3> QED BY <3>3, <3>4
  <2> QED BY <2>5, <2>10, <2>13, <2>14
<1> QED BY <1>5, <1>6

-----------------------------------------------------------------------------
(* The invariant *)

\* A transcribing task holds the number of a queued, pending utterance that is
\* not marked as streamed and that no other task holds.
TasksOwn ==
  \A u \in Utterance : pc[u] = "transcribe" =>
    /\ seqOf[u] \in Nat
    /\ Pending(queue, seqOf[u])
    /\ seqOf[u] \notin streamingSeqs
    /\ \A v \in Utterance \ {u} : pc[v] = "transcribe" => seqOf[v] # seqOf[u]

\* Utterances start in order.
Unborn == \A u \in Utterance : recorded < u => pc[u] = "unborn"

\* An utterance is bound to its target, a drain routes it there or nowhere, and
\* its snapshot is not marked as cached before its store.
BindingsAgree ==
  /\ \A s \in DOMAIN bindings : bindings[s] = outcome[s + 1].target
  /\ \A u \in Utterance : pc[u] \in {"cache", "push"} =>
       /\ snap[u].route # NoSink => snap[u].route = outcome[snap[u].seq + 1].target
       /\ snap[u].sender => snap[u].route # NoSink
       /\ pc[u] = "cache" => ~snap[u].cached

\* A cache that keeps nothing is empty, so that nothing in it is overwritten.
CacheAgrees == CachedBeforePush /\ (Keep = 0 => cache = <<>>)

SinksAgree == WellFormed(sinks) /\ ActiveIsNewestLive

IInv ==
  /\ TypeOK
  /\ QueueOrdered
  /\ TablesMatchQueue
  /\ DrainExclusive
  /\ HeadPinned
  /\ CacheAgrees
  /\ QueuedUntilSettled
  /\ SinksAgree
  /\ TasksOwn
  /\ Unborn
  /\ BindingsAgree

-----------------------------------------------------------------------------
(* Facts about the constants and the helpers *)

\* Sinks and utterances are numbers, and NoSink is not one of them.
LEMMA Constants ==
  /\ SinkId \subseteq Nat
  /\ NoSink \notin SinkId
  /\ NoSink \notin Nat
  /\ Utterance \subseteq Nat
BY BoundsAssumption, NoSinkAssumption DEF SinkId, Utterance

\* HashMap::remove: the key goes, the other keys keep their values.
LEMMA WithoutProperties ==
  ASSUME NEW f, NEW k
  PROVE  /\ DOMAIN Without(f, k) = DOMAIN f \ {k}
         /\ \A x \in DOMAIN f \ {k} : Without(f, k)[x] = f[x]
BY DEF Without, Restrict

\* A session variable: one bound sink or none.
LEMMA OneOrNone ==
  ASSUME NEW S, NEW x \in S
  PROVE  <<x>> \in Seq(S) /\ <<>> \in Seq(S)
OBVIOUS

\* The parts of IInv that do not look at the sinks follow from their variables.
LEMMA CoreUnchanged ==
  ASSUME IInv, TypeOK', SinksAgree',
         UNCHANGED <<daemonVars, cache, taskVars, outcome>>
  PROVE  IInv'
<1> USE DEF IInv, daemonVars, taskVars
<1>1. QueueOrdered' /\ TablesMatchQueue'
  BY DEF QueueOrdered, TablesMatchQueue
<1>2. DrainExclusive' /\ Unborn'
  BY DEF DrainExclusive, InDrain, Unborn
<1>3. HeadPinned' /\ CacheAgrees'
  BY DEF HeadPinned, CacheAgrees, CachedBeforePush
<1>4. QueuedUntilSettled'
  BY DEF QueuedUntilSettled
<1>5. TasksOwn' /\ BindingsAgree'
  BY DEF TasksOwn, BindingsAgree
<1> QED BY <1>1, <1>2, <1>3, <1>4, <1>5

-----------------------------------------------------------------------------
(* The initial state *)

\* The state main.rs builds at startup satisfies the invariant.
LEMMA InitIInv == Init => IInv
<1> SUFFICES ASSUME Init PROVE IInv
  OBVIOUS
<1> USE Constants DEF Init
<1>1. TypeOK
  <2>1. NoSnapshot \in Snapshots
    BY DEF NoSnapshot, Snapshots
  <2>2. queue \in Queue /\ sinks \in Registry /\ sinks.active = NoSink
    BY EmptyQueueProperties, NewRegistryProperties DEF NewRegistry
  <2>3. /\ chan \in [SinkId -> Seq(Frame)]
        /\ cache \in Seq(Nat)
        /\ outcome \in Seq(Outcome)
        /\ streaming \in Seq(SinkId \cup {NoSink})
        /\ continuous \in Seq(SinkId \cup {NoSink})
    BY EmptySeq
  <2> QED BY <2>1, <2>2, <2>3 DEF TypeOK, Phases
<1>2. QueueOrdered /\ TablesMatchQueue
  BY EmptyQueueProperties DEF QueueOrdered, TablesMatchQueue
<1>3. DrainExclusive /\ HeadPinned /\ CacheAgrees
  BY DEF DrainExclusive, InDrain, Drains, HeadPinned, CacheAgrees, CachedBeforePush
<1>4. QueuedUntilSettled
  BY EmptyQueueProperties DEF QueuedUntilSettled, EmptyQueue
<1>5. SinksAgree
  BY NewRegistryProperties DEF SinksAgree, ActiveIsNewestLive, NewRegistry
<1>6. TasksOwn /\ Unborn /\ BindingsAgree
  BY DEF TasksOwn, Unborn, BindingsAgree
<1> QED BY <1>1, <1>2, <1>3, <1>4, <1>5, <1>6 DEF IInv

-----------------------------------------------------------------------------
(* Steps of the sinks and of the sessions *)

\* Sessions, discards and replays disturb nothing but the channels.
LEMMA SessionStep ==
  ASSUME IInv, Session \/ ReplayLast \/ UNCHANGED vars
  PROVE  IInv'
<1> USE DEF daemonVars, taskVars, sinkVars
<1>1. UNCHANGED <<daemonVars, cache, taskVars, outcome, trigger, sinkVars>>
  <2>1. CASE StartStreaming \/ DiscardStreaming
    BY <2>1 DEF StartStreaming, DiscardStreaming
  <2>2. CASE StartContinuous \/ DropContinuous \/ ReplayLast
    BY <2>2 DEF StartContinuous, DropContinuous, ReplayLast
  <2>3. CASE UNCHANGED vars
    BY <2>3 DEF vars
  <2> QED BY <2>1, <2>2, <2>3 DEF Session
<1>2. TypeOK
  BY DEF IInv
<1>3. streaming' \in Seq(SinkId \cup {NoSink}) /\ continuous' \in Seq(SinkId \cup {NoSink})
  <2>1. /\ sinks.active \in SinkId \cup {NoSink}
        /\ streaming \in Seq(SinkId \cup {NoSink})
        /\ continuous \in Seq(SinkId \cup {NoSink})
    BY <1>2 DEF TypeOK
  <2>2. CASE StartStreaming \/ DiscardStreaming
    <3>1. streaming' = <<sinks.active>> \/ streaming' = <<>>
      BY <2>2 DEF StartStreaming, DiscardStreaming
    <3>2. continuous' = continuous
      BY <2>2 DEF StartStreaming, DiscardStreaming
    <3> QED BY <3>1, <3>2, <2>1, OneOrNone
  <2>3. CASE StartContinuous \/ DropContinuous \/ ReplayLast
    <3>1. continuous' \in {<<sinks.active>>, <<>>, continuous}
      BY <2>3 DEF StartContinuous, DropContinuous, ReplayLast
    <3>2. streaming' = streaming
      BY <2>3 DEF StartContinuous, DropContinuous, ReplayLast
    <3> QED BY <3>1, <3>2, <2>1, OneOrNone
  <2>4. CASE UNCHANGED vars
    BY <2>1, <2>4 DEF vars
  <2> QED BY <2>2, <2>3, <2>4 DEF Session
<1>4. chan' \in [SinkId -> Seq(Frame)]
  <2>1. ASSUME NEW id \in SinkId, NEW frame \in Frame, Send(id, frame)
        PROVE  chan' \in [SinkId -> Seq(Frame)]
    BY <2>1, <1>2 DEF TypeOK, Send
  <2>2. CASE DiscardStreaming
    <3>1. [kind |-> "Erase", seq |-> NoSeq] \in Frame
      BY DEF Frame
    <3>2. CASE UNCHANGED chan
      BY <3>2, <1>2 DEF TypeOK
    <3>3. CASE ~(UNCHANGED chan)
      <4>1. /\ streaming[1] \in conns
            /\ Send(streaming[1], [kind |-> "Erase", seq |-> NoSeq])
        BY <3>3, <2>2 DEF DiscardStreaming
      <4> QED BY <4>1, <3>1, <2>1, <1>2 DEF TypeOK
    <3> QED BY <3>2, <3>3
  <2>3. CASE ReplayLast
    <3>1. Last(cache) \in Nat
      BY <2>3, <1>2, LenProperties, EmptySeq DEF TypeOK, ReplayLast, Last
    <3>2. [kind |-> "Replay", seq |-> Last(cache)] \in Frame
      BY <3>1 DEF Frame
    <3> QED BY <3>2, <2>1, <2>3, <1>2 DEF TypeOK, ReplayLast
  <2>4. CASE StartStreaming \/ StartContinuous \/ DropContinuous \/ UNCHANGED vars
    BY <2>4, <1>2 DEF TypeOK, StartStreaming, StartContinuous, DropContinuous, vars
  <2> QED BY <2>2, <2>3, <2>4 DEF Session
<1>5. TypeOK'
  BY <1>1, <1>2, <1>3, <1>4 DEF TypeOK
<1>6. SinksAgree'
  BY <1>1 DEF IInv, SinksAgree, ActiveIsNewestLive
<1> QED BY <1>1, <1>5, <1>6, CoreUnchanged

\* Wrappers that come and go keep the registry and the connections in step.
LEMMA SinkTasksStep ==
  ASSUME IInv, NEW id \in SinkId, RegisterSink(id) \/ SinkStep(id)
  PROVE  IInv'
<1> USE DEF daemonVars, taskVars, sinkVars
<1>1. UNCHANGED <<daemonVars, cache, taskVars, outcome, trigger, streaming, continuous>>
  BY DEF RegisterSink, SinkStep, Forward, NoticeExit, DeregisterSink, DropReceiver
<1>2. TypeOK /\ SinksAgree
  BY DEF IInv
<1>3. id \in Nat /\ sinks \in Registry /\ WellFormed(sinks)
  BY <1>2, Constants DEF TypeOK, SinksAgree
<1>4. chan' \in [SinkId -> Seq(Frame)]
  <2>1. CASE Forward(id)
    <3>1. chan[id] \in Seq(Frame) /\ chan[id] # <<>>
      BY <2>1, <1>2 DEF TypeOK, Forward
    <3>2. Tail(chan[id]) \in Seq(Frame)
      BY <3>1, HeadTailProperties
    <3> QED BY <3>2, <2>1, <1>2 DEF TypeOK, Forward
  <2>2. CASE DropReceiver(id)
    BY <2>2, <1>2, EmptySeq DEF TypeOK, DropReceiver
  <2>3. CASE RegisterSink(id) \/ NoticeExit(id) \/ DeregisterSink(id)
    BY <2>3, <1>2 DEF TypeOK, RegisterSink, NoticeExit, DeregisterSink
  <2> QED BY <2>1, <2>2, <2>3 DEF SinkStep
<1>5. sinkTask' \in [SinkId -> {"absent", "serving", "closing", "leaving", "gone"}]
  BY <1>2 DEF TypeOK, RegisterSink, SinkStep, Forward, NoticeExit,
              DeregisterSink, DropReceiver
<1>6. CASE RegisterSink(id)
  <2>1. /\ sinks' \in Registry
        /\ WellFormed(sinks')
        /\ Range(sinks'.live) = Range(sinks.live) \cup {id}
        /\ sinks'.active = id
    BY <1>3, <1>6, RegisterProperties DEF RegisterSink
  <2>2. conns' = conns \cup {id} /\ sinkTask' = [sinkTask EXCEPT ![id] = "serving"]
    BY <1>6 DEF RegisterSink
  <2>3. TypeOK'
    BY <2>1, <2>2, <1>1, <1>2, <1>4, <1>5 DEF TypeOK
  <2>4. SinksAgree'
    BY <2>1, <2>2, <1>2 DEF SinksAgree, ActiveIsNewestLive, WellFormed, TypeOK
  <2> QED BY <2>3, <2>4, <1>1, CoreUnchanged
<1>7. CASE DeregisterSink(id)
  <2>1. /\ sinks' \in Registry
        /\ WellFormed(sinks')
        /\ Range(sinks'.live) = Range(sinks.live) \ {id}
    BY <1>3, <1>7, DeregisterProperties DEF DeregisterSink
  <2>2. conns' = conns \ {id} /\ sinkTask' = [sinkTask EXCEPT ![id] = "leaving"]
    BY <1>7 DEF DeregisterSink
  <2>3. sinks'.active \in SinkId \cup {NoSink}
    <3>1. sinks'.active # NoSink => sinks'.active \in Range(sinks'.live)
      BY <2>1, LiveProperties
    <3> QED BY <3>1, <2>1, <1>2 DEF TypeOK, SinksAgree, ActiveIsNewestLive
  <2>4. TypeOK'
    BY <2>1, <2>2, <2>3, <1>1, <1>2, <1>4, <1>5 DEF TypeOK
  <2>5. SinksAgree'
    BY <2>1, <2>2, <1>2 DEF SinksAgree, ActiveIsNewestLive, WellFormed, TypeOK
  <2> QED BY <2>4, <2>5, <1>1, CoreUnchanged
<1>8. CASE Forward(id) \/ NoticeExit(id) \/ DropReceiver(id)
  <2>1. sinks' = sinks /\ conns' = conns
    BY <1>8 DEF Forward, NoticeExit, DropReceiver
  <2>2. \A i \in SinkId : sinkTask'[i] \in {"serving", "closing"} <=>
                           sinkTask[i] \in {"serving", "closing"}
    BY <1>8, <1>2 DEF TypeOK, Forward, NoticeExit, DropReceiver
  <2>3. TypeOK'
    BY <2>1, <1>1, <1>2, <1>4, <1>5 DEF TypeOK
  <2>4. SinksAgree'
    BY <2>1, <2>2, <1>2 DEF SinksAgree, ActiveIsNewestLive
  <2> QED BY <2>3, <2>4, <1>1, CoreUnchanged
<1> QED BY <1>6, <1>7, <1>8 DEF SinkStep

-----------------------------------------------------------------------------
(* Steps that accept an utterance *)

\* What the three ways of accepting an utterance have in common.
LEMMA AcceptStep ==
  ASSUME IInv,
         NEW u \in Utterance, NEW sink \in SinkId \cup {NoSink}, NEW newQueue,
         NEW phase \in {"transcribe", "enter"},
         \/ newQueue = Enqueue(queue)
         \/ phase = "enter" /\ newQueue = SetReady(Enqueue(queue), queue.next),
         Accept(u, newQueue, sink),
         pc[u] \in {"unborn", "reconcile", "assembled"},
         pc' = [pc EXCEPT ![u] = phase],
         recorded' \in Nat, u <= recorded', recorded <= recorded',
         \/ streamingSeqs' = streamingSeqs
         \/ phase = "enter" /\ streamingSeqs' = streamingSeqs \cup {queue.next},
         trigger' \in [Utterance -> SinkId \cup {NoSink}],
         UNCHANGED <<draining, sinkVars, cache, snap>>,
         streaming' \in Seq(SinkId \cup {NoSink}),
         continuous' \in Seq(SinkId \cup {NoSink}),
         UNCHANGED chan
  PROVE  IInv'
<1> DEFINE n == queue.next
<1>1. /\ TypeOK /\ QueueOrdered /\ TablesMatchQueue /\ DrainExclusive /\ HeadPinned
      /\ CacheAgrees /\ QueuedUntilSettled /\ SinksAgree /\ TasksOwn
      /\ Unborn /\ BindingsAgree
  BY DEF IInv
<1>2. queue \in Queue /\ Sorted(queue) /\ n \in Nat
  BY <1>1 DEF TypeOK, QueueOrdered, Queue
<1>3. /\ Enqueue(queue) \in Queue
      /\ Sorted(Enqueue(queue))
      /\ Enqueue(queue).next = n + 1
      /\ Queued(Enqueue(queue)) = Queued(queue) \cup {n}
      /\ n \notin Queued(queue)
      /\ HeadReady(queue) => HeadReady(Enqueue(queue)) /\ HeadSeq(Enqueue(queue)) = HeadSeq(queue)
      /\ \A s : Pending(Enqueue(queue), s) <=> Pending(queue, s) \/ s = n
  BY <1>2, EnqueueProperties
<1>4. /\ queue' \in Queue
      /\ Sorted(queue')
      /\ queue'.next = n + 1
      /\ Queued(queue') = Queued(queue) \cup {n}
      /\ HeadReady(queue) => HeadReady(queue') /\ HeadSeq(queue') = HeadSeq(queue)
      /\ \A s : Pending(queue, s) /\ s # n => Pending(queue', s)
      /\ phase = "transcribe" => Pending(queue', n)
  <2>1. CASE newQueue = Enqueue(queue)
    BY <2>1, <1>3 DEF Accept
  <2>2. CASE phase = "enter" /\ newQueue = SetReady(Enqueue(queue), n)
    BY <2>2, <1>3, SetReadyProperties DEF Accept
  <2> QED BY <2>1, <2>2
<1>5. Queued(queue) \subseteq Nat /\ \A s : Pending(queue, s) => s \in Queued(queue)
  BY <1>2, QueuedProperties
<1>6. /\ DOMAIN bindings' = DOMAIN bindings \cup {n}
      /\ bindings'[n] = sink
      /\ \A s \in DOMAIN bindings : s # n => bindings'[s] = bindings[s]
  <2>1. bindings' = Insert(bindings, n, sink)
    BY DEF Accept
  <2> HIDE DEF n
  <2> QED BY <2>1 DEF Insert
<1>7. /\ outcome \in Seq(Outcome) /\ Len(outcome) = n
      /\ outcome' \in Seq(Outcome) /\ Len(outcome') = n + 1
      /\ \A i \in 1 .. n : outcome'[i] = outcome[i]
      /\ outcome'[n + 1] = Fresh(sink)
  <2>1. Fresh(sink) \in Outcome
    BY DEF Fresh, Outcome, Status
  <2>2. outcome \in Seq(Outcome) /\ Len(outcome) = n
    BY <1>1 DEF TypeOK, QueuedUntilSettled
  <2>3. outcome' = Append(outcome, Fresh(sink))
    BY DEF Accept
  <2> QED BY <2>1, <2>2, <2>3, AppendProperties
<1>8. /\ pc \in [Utterance -> Phases] /\ pc' \in [Utterance -> Phases]
      /\ pc'[u] = phase
      /\ \A v \in Utterance \ {u} : pc'[v] = pc[v]
      /\ \A v \in Utterance : InDrain(v)' <=> InDrain(v)
      /\ \A v \in Utterance : InDrain(v) => v # u /\ pc'[v] = pc[v]
  BY <1>1 DEF TypeOK, Phases, InDrain, Drains
<1>9. /\ seqOf' \in [Utterance -> Nat \cup {NoSeq}]
      /\ seqOf'[u] = n
      /\ \A v \in Utterance \ {u} : seqOf'[v] = seqOf[v]
  BY <1>1, <1>2 DEF TypeOK, Accept
<1> HIDE DEF n
<1>10. TypeOK'
  <2>1. DOMAIN bindings' \subseteq Nat
        /\ \A s \in DOMAIN bindings' : bindings'[s] \in SinkId \cup {NoSink}
    BY <1>1, <1>2, <1>6 DEF TypeOK
  <2>2. streamingSeqs' \subseteq Nat
    BY <1>1, <1>2 DEF TypeOK, n
  <2> QED BY <2>1, <2>2, <1>1, <1>4, <1>7, <1>8, <1>9 DEF TypeOK, sinkVars
<1>11. QueueOrdered' /\ TablesMatchQueue'
  BY <1>1, <1>4, <1>6 DEF QueueOrdered, TablesMatchQueue, n
<1>12. DrainExclusive'
  BY <1>1, <1>8 DEF DrainExclusive
<1>13. HeadPinned' /\ CacheAgrees'
  BY <1>1, <1>4, <1>8 DEF HeadPinned, CacheAgrees, CachedBeforePush, InDrain, Drains
<1>14. QueuedUntilSettled'
  <2>1. ASSUME NEW s \in 0 .. n
        PROVE  outcome'[s + 1].status = "waiting" <=>
                 /\ s \in Queued(queue')
                 /\ \A v \in Utterance : ~(pc'[v] = "settle" /\ snap'[v].seq = s)
    <3>1. \A v \in Utterance : pc'[v] = "settle" <=> pc[v] = "settle"
      BY <1>8
    <3>2. CASE s = n
      <4>1. \A v \in Utterance : pc[v] = "settle" => snap[v].seq \in Queued(queue)
        BY <1>1, <1>2, HeadProperties DEF HeadPinned
      <4> QED BY <4>1, <3>1, <3>2, <1>3, <1>4, <1>7 DEF Fresh
    <3>3. CASE s # n
      <4>1. s \in 0 .. n - 1 /\ s + 1 \in 1 .. n
        BY <3>3, <1>2
      <4> QED BY <4>1, <3>1, <3>3, <1>1, <1>4, <1>7 DEF QueuedUntilSettled, n
    <3> QED BY <3>2, <3>3
  <2>2. queue'.next - 1 = n
    BY <1>2, <1>4
  <2> QED BY <2>1, <2>2, <1>4, <1>7 DEF QueuedUntilSettled
<1>15. SinksAgree'
  BY <1>1 DEF SinksAgree, ActiveIsNewestLive, sinkVars
<1>16. TasksOwn'
  <2>1. ASSUME NEW v \in Utterance, v # u, pc'[v] = "transcribe"
        PROVE  /\ seqOf'[v] = seqOf[v] /\ seqOf[v] \in Nat
               /\ Pending(queue', seqOf[v])
               /\ seqOf[v] # n
               /\ seqOf[v] \notin streamingSeqs'
    <3>1. pc[v] = "transcribe" /\ seqOf'[v] = seqOf[v]
      BY <2>1, <1>8, <1>9
    <3>2. seqOf[v] \in Nat /\ Pending(queue, seqOf[v]) /\ seqOf[v] \notin streamingSeqs
      BY <3>1, <1>1 DEF TasksOwn
    <3>3. seqOf[v] # n
      BY <3>2, <1>3, <1>5
    <3>4. seqOf[v] \notin streamingSeqs'
      BY <3>2, <3>3 DEF n
    <3> QED BY <3>1, <3>2, <3>3, <3>4, <1>4
  <2>2. pc'[u] = "transcribe" => Pending(queue', n) /\ n \notin streamingSeqs'
    BY <1>1, <1>3, <1>4, <1>8 DEF TablesMatchQueue
  <2>3. \A v, w \in Utterance \ {u} :
          pc'[v] = "transcribe" /\ pc'[w] = "transcribe" /\ v # w => seqOf'[v] # seqOf'[w]
    BY <1>1, <1>8, <1>9 DEF TasksOwn
  <2> QED BY <2>1, <2>2, <2>3, <1>2, <1>9 DEF TasksOwn
<1>17. Unborn'
  <2>1. ASSUME NEW v \in Utterance, recorded' < v
        PROVE  pc'[v] = "unborn"
    <3>1. recorded < v /\ v # u
      BY <2>1, <1>1, Constants DEF TypeOK
    <3> QED BY <3>1, <1>1, <1>8 DEF Unborn
  <2> QED BY <2>1 DEF Unborn
<1>18. BindingsAgree'
  <2>1. ASSUME NEW s \in DOMAIN bindings'
        PROVE  bindings'[s] = outcome'[s + 1].target
    <3>1. CASE s = n
      BY <3>1, <1>6, <1>7 DEF Fresh
    <3>2. CASE s # n
      <4>1. s \in DOMAIN bindings /\ s \in Queued(queue)
        BY <3>2, <2>1, <1>1, <1>6 DEF TablesMatchQueue
      <4>2. s + 1 \in 1 .. n
        BY <4>1, <1>2, QueuedProperties DEF n
      <4> QED BY <4>1, <4>2, <3>2, <1>1, <1>6, <1>7 DEF BindingsAgree
    <3> QED BY <3>1, <3>2
  <2>2. ASSUME NEW v \in Utterance, pc'[v] \in {"cache", "push"}
        PROVE  /\ snap'[v].route # NoSink =>
                    snap'[v].route = outcome'[snap'[v].seq + 1].target
               /\ snap'[v].sender => snap'[v].route # NoSink
               /\ pc'[v] = "cache" => ~snap'[v].cached
    <3>1. pc[v] \in {"cache", "push"} /\ pc'[v] = pc[v]
      BY <2>2, <1>8
    <3>2. snap[v].seq \in Queued(queue)
      BY <3>1, <1>1, <1>2, HeadProperties DEF HeadPinned
    <3>3. snap[v].seq + 1 \in 1 .. n
      BY <3>2, <1>2, QueuedProperties DEF n
    <3> QED BY <3>1, <3>3, <1>1, <1>7 DEF BindingsAgree
  <2> QED BY <2>1, <2>2 DEF BindingsAgree
<1> QED BY <1>10, <1>11, <1>12, <1>13, <1>14, <1>15, <1>16, <1>17, <1>18 DEF IInv

\* StopAndEnqueue, Reconciled and DeliverAssembled are such steps.
LEMMA AcceptingSteps ==
  ASSUME IInv, NEW u \in Utterance,
         StopAndEnqueue(u) \/ Reconciled(u) \/ DeliverAssembled(u)
  PROVE  IInv'
<1>1. TypeOK /\ Unborn
  BY DEF IInv
<1>2. u \in Nat /\ recorded \in Nat /\ pc[u] \in Phases
  BY <1>1, Constants DEF TypeOK
<1>3. /\ sinks.active \in SinkId \cup {NoSink}
      /\ trigger[u] \in SinkId \cup {NoSink}
      /\ streaming \in Seq(SinkId \cup {NoSink})
      /\ continuous \in Seq(SinkId \cup {NoSink})
      /\ trigger \in [Utterance -> SinkId \cup {NoSink}]
  BY <1>1 DEF TypeOK
<1>4. CASE StopAndEnqueue(u)
  <2>1. /\ u = recorded + 1 /\ recorded' = u
        /\ pc' = [pc EXCEPT ![u] = "transcribe"]
        /\ trigger' = [trigger EXCEPT ![u] = sinks.active]
        /\ Accept(u, Enqueue(queue), sinks.active)
        /\ UNCHANGED <<streamingSeqs, draining, sinkVars, streaming, continuous,
                       chan, cache, snap>>
    BY <1>4 DEF StopAndEnqueue, StopCapture
  <2>2. pc[u] = "unborn" /\ u <= recorded' /\ recorded <= recorded'
    BY <2>1, <1>1, <1>2 DEF Unborn
  <2>3. trigger' \in [Utterance -> SinkId \cup {NoSink}]
    BY <2>1, <1>3
  <2> QED BY <2>1, <2>2, <2>3, <1>2, <1>3, AcceptStep
<1>5. CASE Reconciled(u)
  <2>1. /\ pc[u] = "reconcile"
        /\ Accept(u, SetReady(Enqueue(queue), queue.next), trigger[u])
        /\ streamingSeqs' = streamingSeqs \cup {queue.next}
        /\ pc' = [pc EXCEPT ![u] = "enter"]
        /\ UNCHANGED <<draining, sinkVars, streaming, continuous, chan, cache,
                       recorded, snap, trigger>>
    BY <1>5 DEF Reconciled
  <2>2. u <= recorded' /\ recorded <= recorded'
    BY <2>1, <1>1, <1>2 DEF Unborn
  <2> QED BY <2>1, <2>2, <1>2, <1>3, AcceptStep
<1>6. CASE DeliverAssembled(u)
  <2>1. /\ pc[u] = "assembled"
        /\ Accept(u, SetReady(Enqueue(queue), queue.next), sinks.active)
        /\ pc' = [pc EXCEPT ![u] = "enter"]
        /\ UNCHANGED <<streamingSeqs, draining, sinkVars, streaming, continuous,
                       chan, cache, recorded, snap, trigger>>
    BY <1>6 DEF DeliverAssembled
  <2>2. u <= recorded' /\ recorded <= recorded'
    BY <2>1, <1>1, <1>2 DEF Unborn
  <2> QED BY <2>1, <2>2, <1>2, <1>3, AcceptStep
<1> QED BY <1>4, <1>5, <1>6

-----------------------------------------------------------------------------
(* Steps of a capture that number nothing *)

\* What taking a session and finding nothing to deliver have in common.
LEMMA CaptureStep ==
  ASSUME IInv, NEW u \in Utterance,
         NEW phase \in {"reconcile", "assembled", "done"},
         pc[u] \in {"unborn", "reconcile", "transcribe"},
         pc' = [pc EXCEPT ![u] = phase],
         recorded' \in Nat, u <= recorded', recorded <= recorded',
         trigger' \in [Utterance -> SinkId \cup {NoSink}],
         streaming' \in Seq(SinkId \cup {NoSink}),
         continuous' \in Seq(SinkId \cup {NoSink}),
         UNCHANGED <<daemonVars, sinkVars, chan, cache, seqOf, snap, outcome>>
  PROVE  IInv'
<1> USE DEF daemonVars, sinkVars
<1>1. TypeOK /\ Unborn
  BY DEF IInv
<1>2. /\ pc \in [Utterance -> Phases] /\ pc' \in [Utterance -> Phases]
      /\ pc'[u] = phase
      /\ \A v \in Utterance \ {u} : pc'[v] = pc[v]
      /\ \A v \in Utterance : InDrain(v)' <=> InDrain(v)
      /\ \A v \in Utterance :
           pc'[v] \in Drains \cup {"transcribe"} => v # u /\ pc'[v] = pc[v]
      /\ \A v \in Utterance : pc[v] = "settle" <=> pc'[v] = "settle"
  BY <1>1 DEF TypeOK, Phases, InDrain, Drains
<1>3. TypeOK'
  BY <1>1, <1>2 DEF TypeOK
<1>4. QueueOrdered' /\ TablesMatchQueue' /\ SinksAgree'
  BY DEF IInv, QueueOrdered, TablesMatchQueue, SinksAgree, ActiveIsNewestLive
<1>5. DrainExclusive'
  BY <1>2 DEF IInv, DrainExclusive
<1>6. HeadPinned' /\ CacheAgrees'
  BY <1>2 DEF IInv, HeadPinned, CacheAgrees, CachedBeforePush, Drains
<1>7. QueuedUntilSettled'
  BY <1>2 DEF IInv, QueuedUntilSettled
<1>8. TasksOwn' /\ BindingsAgree'
  BY <1>2 DEF IInv, TasksOwn, BindingsAgree, Drains
<1>9. Unborn'
  <2>1. ASSUME NEW v \in Utterance, recorded' < v
        PROVE  pc'[v] = "unborn"
    <3>1. recorded < v /\ v # u
      BY <2>1, <1>1, Constants DEF TypeOK
    <3> QED BY <3>1, <1>1, <1>2 DEF Unborn
  <2> QED BY <2>1 DEF Unborn
<1> QED BY <1>3, <1>4, <1>5, <1>6, <1>7, <1>8, <1>9 DEF IInv

\* TakeStreaming, EndContinuous, ReconciledEmpty and a panic are such steps.
LEMMA CaptureSteps ==
  ASSUME IInv, NEW u \in Utterance,
         \/ TakeStreaming(u) \/ EndContinuous(u)
         \/ ReconciledEmpty(u) \/ TranscriptionPanics(u)
  PROVE  IInv'
<1> USE DEF taskVars
<1>1. TypeOK /\ Unborn
  BY DEF IInv
<1>2. u \in Nat /\ recorded \in Nat /\ pc[u] \in Phases
  BY <1>1, Constants DEF TypeOK
<1>3. /\ streaming \in Seq(SinkId \cup {NoSink})
      /\ continuous \in Seq(SinkId \cup {NoSink})
      /\ trigger \in [Utterance -> SinkId \cup {NoSink}]
      /\ <<>> \in Seq(SinkId \cup {NoSink})
  BY <1>1 DEF TypeOK
<1>4. CASE TakeStreaming(u) \/ EndContinuous(u)
  <2>1. PICK sink \in {streaming[1], continuous[1]},
             phase \in {"reconcile", "assembled"} :
          StopCapture(u, phase, sink) /\ sink \in SinkId \cup {NoSink}
    BY <1>3, <1>4 DEF TakeStreaming, EndContinuous
  <2>2. /\ u = recorded + 1 /\ recorded' = u
        /\ pc' = [pc EXCEPT ![u] = phase]
        /\ trigger' = [trigger EXCEPT ![u] = sink]
    BY <2>1 DEF StopCapture
  <2>3. /\ streaming' \in {streaming, <<>>}
        /\ continuous' \in {continuous, <<>>}
        /\ UNCHANGED <<daemonVars, sinkVars, chan, cache, seqOf, snap, outcome>>
    BY <1>4 DEF TakeStreaming, EndContinuous
  <2>4. pc[u] = "unborn" /\ u <= recorded' /\ recorded <= recorded'
    BY <2>2, <1>1, <1>2 DEF Unborn
  <2>5. trigger' \in [Utterance -> SinkId \cup {NoSink}]
    BY <2>1, <2>2, <1>3
  <2>6. /\ streaming' \in Seq(SinkId \cup {NoSink})
        /\ continuous' \in Seq(SinkId \cup {NoSink})
    BY <2>3, <1>3
  <2> QED BY <2>2, <2>3, <2>4, <2>5, <2>6, <1>2, CaptureStep
<1>5. CASE ReconciledEmpty(u) \/ TranscriptionPanics(u)
  <2>1. /\ pc[u] \in {"reconcile", "transcribe"} /\ pc' = [pc EXCEPT ![u] = "done"]
        /\ UNCHANGED <<daemonVars, sinkVars, streaming, continuous, chan, cache,
                       recorded, seqOf, snap, trigger, outcome>>
    BY <1>5 DEF ReconciledEmpty, TranscriptionPanics
  <2>2. u <= recorded' /\ recorded <= recorded'
    BY <2>1, <1>1, <1>2 DEF Unborn
  <2> QED BY <2>1, <2>2, <1>2, <1>3, CaptureStep
<1> QED BY <1>4, <1>5

-----------------------------------------------------------------------------
(* The end of a transcription *)

\* Changing what became of one utterance leaves the others and the targets.
LEMMA SettledProperties ==
  ASSUME outcome \in Seq(Outcome), NEW s \in 0 .. Len(outcome) - 1,
         NEW status \in Status, NEW to \in SinkId \cup {NoSink},
         Settled(s, status, to)
  PROVE  /\ outcome' \in Seq(Outcome) /\ Len(outcome') = Len(outcome)
         /\ outcome'[s + 1].status = status /\ outcome'[s + 1].to = to
         /\ \A t \in 0 .. Len(outcome) - 1 : outcome'[t + 1].target = outcome[t + 1].target
         /\ \A t \in 0 .. Len(outcome) - 1 : t # s => outcome'[t + 1] = outcome[t + 1]
<1> DEFINE i     == s + 1
           entry == [target |-> outcome[i].target, status |-> status, to |-> to]
<1>1. i \in 1 .. Len(outcome)
  BY LenProperties
<1>2. entry \in Outcome
  <2>1. outcome[i] \in Outcome
    BY <1>1
  <2> QED BY <2>1 DEF Outcome
<1>3. entry.target = outcome[i].target /\ entry.status = status /\ entry.to = to
  OBVIOUS
<1>4. outcome' = [outcome EXCEPT ![i] = entry]
  BY DEF Settled
<1> HIDE DEF entry
<1>5. /\ outcome' \in Seq(Outcome) /\ Len(outcome') = Len(outcome)
      /\ outcome'[i] = entry
      /\ \A j \in 1 .. Len(outcome) : j # i => outcome'[j] = outcome[j]
  BY <1>1, <1>2, <1>4
<1>6. \A t \in 0 .. Len(outcome) - 1 :
        /\ t # s => outcome'[t + 1] = outcome[t + 1]
        /\ outcome'[t + 1].target = outcome[t + 1].target
  <2> SUFFICES ASSUME NEW t \in 0 .. Len(outcome) - 1
               PROVE  /\ t # s => outcome'[t + 1] = outcome[t + 1]
                      /\ outcome'[t + 1].target = outcome[t + 1].target
    OBVIOUS
  <2>1. t + 1 \in 1 .. Len(outcome) /\ (t # s => t + 1 # i)
    BY LenProperties
  <2>2. CASE t # s
    BY <2>1, <2>2, <1>5
  <2>3. CASE t = s
    BY <2>3, <1>3, <1>5
  <2> QED BY <2>2, <2>3
<1> QED BY <1>1, <1>3, <1>5, <1>6

\* set_ready at the end of a transcription keeps the invariant.
LEMMA TranscribedStep ==
  ASSUME IInv, NEW u \in Utterance, Transcribed(u)
  PROVE  IInv'
<1> USE DEF sinkVars
<1>1. /\ TypeOK /\ QueueOrdered /\ TablesMatchQueue /\ DrainExclusive /\ HeadPinned
      /\ CacheAgrees /\ QueuedUntilSettled /\ SinksAgree /\ TasksOwn
      /\ Unborn /\ BindingsAgree
  BY DEF IInv
<1>2. /\ pc[u] = "transcribe" /\ pc' = [pc EXCEPT ![u] = "enter"]
      /\ queue' = SetReady(queue, seqOf[u])
      /\ UNCHANGED <<bindings, streamingSeqs, draining, sinkVars, streaming, continuous,
                     chan, cache, recorded, seqOf, snap, trigger, outcome>>
  BY DEF Transcribed
<1>3. queue \in Queue /\ Sorted(queue)
  BY <1>1 DEF TypeOK, QueueOrdered
<1>4. /\ queue' \in Queue /\ Sorted(queue')
      /\ queue'.next = queue.next
      /\ Queued(queue') = Queued(queue)
      /\ HeadReady(queue) => HeadReady(queue') /\ HeadSeq(queue') = HeadSeq(queue)
      /\ \A s : Pending(queue', s) <=> Pending(queue, s) /\ s # seqOf[u]
  BY <1>2, <1>3, SetReadyProperties
<1>5. /\ pc \in [Utterance -> Phases] /\ pc' \in [Utterance -> Phases]
      /\ pc'[u] = "enter"
      /\ \A v \in Utterance \ {u} : pc'[v] = pc[v]
      /\ \A v \in Utterance : InDrain(v)' <=> InDrain(v)
      /\ \A v \in Utterance :
           pc'[v] \in Drains \cup {"transcribe"} => v # u /\ pc'[v] = pc[v]
      /\ \A v \in Utterance : pc[v] = "settle" <=> pc'[v] = "settle"
  BY <1>1, <1>2 DEF TypeOK, Phases, InDrain, Drains
<1>6. TypeOK'
  BY <1>1, <1>2, <1>4, <1>5 DEF TypeOK
<1>7. QueueOrdered' /\ TablesMatchQueue' /\ SinksAgree'
  BY <1>1, <1>2, <1>4
  DEF QueueOrdered, TablesMatchQueue, SinksAgree, ActiveIsNewestLive
<1>8. DrainExclusive'
  BY <1>1, <1>2, <1>5 DEF DrainExclusive
<1>9. HeadPinned' /\ CacheAgrees' /\ BindingsAgree'
  BY <1>1, <1>2, <1>4, <1>5 DEF HeadPinned, CacheAgrees, CachedBeforePush, BindingsAgree, Drains
<1>10. QueuedUntilSettled'
  BY <1>1, <1>2, <1>4, <1>5 DEF QueuedUntilSettled
<1>11. TasksOwn'
  BY <1>1, <1>2, <1>4, <1>5 DEF TasksOwn
<1>12. Unborn'
  BY <1>1, <1>2, <1>5 DEF Unborn
<1> QED BY <1>6, <1>7, <1>8, <1>9, <1>10, <1>11, <1>12 DEF IInv

\* Resolving an empty transcription, also from the middle, keeps the invariant.
LEMMA DroppedEmptyStep ==
  ASSUME IInv, NEW u \in Utterance, DroppedEmpty(u)
  PROVE  IInv'
<1> USE DEF sinkVars
<1> DEFINE s == seqOf[u]
<1>1. /\ TypeOK /\ QueueOrdered /\ TablesMatchQueue /\ DrainExclusive /\ HeadPinned
      /\ CacheAgrees /\ QueuedUntilSettled /\ SinksAgree /\ TasksOwn
      /\ Unborn /\ BindingsAgree
  BY DEF IInv
<1>2. /\ pc[u] = "transcribe" /\ pc' = [pc EXCEPT ![u] = "enter"]
      /\ queue' = Resolve(queue, s)
      /\ bindings' = Without(bindings, s)
      /\ Settled(s, "dropped", NoSink)
      /\ UNCHANGED <<streamingSeqs, draining, sinkVars, streaming, continuous,
                     chan, cache, recorded, seqOf, snap, trigger>>
  BY DEF DroppedEmpty
<1>3. queue \in Queue /\ Sorted(queue) /\ queue.next \in Nat
  BY <1>1 DEF TypeOK, QueueOrdered, Queue
<1>4. s \in Nat /\ Pending(queue, s) /\ s \in Queued(queue) /\ s < queue.next
  BY <1>1, <1>2, <1>3, QueuedProperties DEF TasksOwn
<1>5. HeadReady(queue) => HeadSeq(queue) # s
  BY <1>3, <1>4, HeadProperties
<1> HIDE DEF s
<1>6. /\ queue' \in Queue /\ Sorted(queue')
      /\ queue'.next = queue.next
      /\ Queued(queue') = Queued(queue) \ {s}
      /\ HeadReady(queue) => HeadReady(queue') /\ HeadSeq(queue') = HeadSeq(queue)
      /\ \A t : Pending(queue', t) <=> Pending(queue, t) /\ t # s
  BY <1>2, <1>3, <1>4, <1>5, ResolveProperties
<1>7. /\ DOMAIN bindings' = DOMAIN bindings \ {s}
      /\ \A t \in DOMAIN bindings' : bindings'[t] = bindings[t]
  BY <1>2, WithoutProperties
<1>8. /\ outcome \in Seq(Outcome) /\ Len(outcome) = queue.next
      /\ outcome' \in Seq(Outcome) /\ Len(outcome') = queue.next
      /\ outcome'[s + 1].status = "dropped"
      /\ \A t \in 0 .. queue.next - 1 : outcome'[t + 1].target = outcome[t + 1].target
      /\ \A t \in 0 .. queue.next - 1 : t # s => outcome'[t + 1] = outcome[t + 1]
  <2>1. outcome \in Seq(Outcome) /\ Len(outcome) = queue.next
    BY <1>1 DEF TypeOK, QueuedUntilSettled
  <2>2. s \in 0 .. Len(outcome) - 1 /\ "dropped" \in Status
    BY <2>1, <1>3, <1>4 DEF Status
  <2>3. /\ outcome' \in Seq(Outcome) /\ Len(outcome') = Len(outcome)
        /\ outcome'[s + 1].status = "dropped"
        /\ \A t \in 0 .. Len(outcome) - 1 : outcome'[t + 1].target = outcome[t + 1].target
        /\ \A t \in 0 .. Len(outcome) - 1 : t # s => outcome'[t + 1] = outcome[t + 1]
    BY <2>1, <2>2, <1>2, SettledProperties
  <2> QED BY <2>1, <2>3
<1>9. /\ pc \in [Utterance -> Phases] /\ pc' \in [Utterance -> Phases]
      /\ pc'[u] = "enter"
      /\ \A v \in Utterance \ {u} : pc'[v] = pc[v]
      /\ \A v \in Utterance : InDrain(v)' <=> InDrain(v)
      /\ \A v \in Utterance :
           pc'[v] \in Drains \cup {"transcribe"} => v # u /\ pc'[v] = pc[v]
      /\ \A v \in Utterance : pc[v] = "settle" <=> pc'[v] = "settle"
  BY <1>1, <1>2 DEF TypeOK, Phases, InDrain, Drains
<1>10. TypeOK'
  BY <1>1, <1>2, <1>6, <1>7, <1>8, <1>9 DEF TypeOK
<1>11. QueueOrdered' /\ SinksAgree'
  BY <1>1, <1>2, <1>6 DEF QueueOrdered, SinksAgree, ActiveIsNewestLive
<1>12. \A v \in Utterance : pc[v] \in {"cache", "push", "settle"} =>
         snap[v].seq \in 0 .. queue.next - 1 /\ snap[v].seq # s
  BY <1>1, <1>3, <1>5, HeadProperties, QueuedProperties DEF HeadPinned
<1>13. TablesMatchQueue'
  <2>1. s \notin streamingSeqs
    BY <1>1, <1>2 DEF TasksOwn, s
  <2> QED BY <2>1, <1>1, <1>2, <1>6, <1>7 DEF TablesMatchQueue
<1>14. DrainExclusive'
  BY <1>1, <1>2, <1>9 DEF DrainExclusive
<1>15. HeadPinned' /\ CacheAgrees'
  BY <1>1, <1>2, <1>6, <1>9 DEF HeadPinned, CacheAgrees, CachedBeforePush, Drains
<1>16. BindingsAgree'
  <2>1. \A t \in DOMAIN bindings : t \in 0 .. queue.next - 1
    BY <1>1, <1>3, QueuedProperties DEF TablesMatchQueue
  <2> QED BY <2>1, <1>1, <1>2, <1>7, <1>8, <1>9, <1>12 DEF BindingsAgree, Drains
<1>17. QueuedUntilSettled'
  BY <1>1, <1>2, <1>4, <1>6, <1>8, <1>9, <1>12 DEF QueuedUntilSettled
<1>18. TasksOwn'
  BY <1>1, <1>2, <1>6, <1>9 DEF TasksOwn, s
<1>19. Unborn'
  BY <1>1, <1>2, <1>9 DEF Unborn
<1> QED BY <1>10, <1>11, <1>13, <1>14, <1>15, <1>16, <1>17, <1>18, <1>19 DEF IInv

-----------------------------------------------------------------------------
(* Steps of a drain *)

\* What a step of a drain that leaves the queue alone keeps, whatever it sends
\* and whatever comes of it.
LEMMA DrainKeeps ==
  ASSUME IInv, NEW u \in Utterance, NEW phase \in Drains \cup {"done"},
         pc[u] \in Drains \cup {"enter"},
         pc' = [pc EXCEPT ![u] = phase],
         UNCHANGED <<queue, bindings, streamingSeqs, sinkVars, streaming,
                     continuous, recorded, seqOf, trigger>>,
         draining' \in BOOLEAN, cache' \in Seq(Nat),
         snap' \in [Utterance -> Snapshots],
         outcome' \in Seq(Outcome), chan' \in [SinkId -> Seq(Frame)]
  PROVE  /\ TypeOK' /\ QueueOrdered' /\ TablesMatchQueue' /\ SinksAgree'
         /\ TasksOwn' /\ Unborn'
         /\ pc'[u] = phase
         /\ \A v \in Utterance \ {u} : pc'[v] = pc[v]
<1> USE DEF sinkVars
<1>1. TypeOK /\ Unborn
  BY DEF IInv
<1>2. /\ pc \in [Utterance -> Phases] /\ pc' \in [Utterance -> Phases]
      /\ pc'[u] = phase
      /\ \A v \in Utterance \ {u} : pc'[v] = pc[v]
      /\ \A v \in Utterance : pc'[v] = "transcribe" <=> pc[v] = "transcribe"
      /\ \A v \in Utterance : pc'[v] = "unborn" <=> pc[v] = "unborn"
  BY <1>1 DEF TypeOK, Phases, Drains
<1>3. TypeOK'
  BY <1>1, <1>2 DEF TypeOK
<1>4. QueueOrdered' /\ TablesMatchQueue' /\ SinksAgree'
  BY DEF IInv, QueueOrdered, TablesMatchQueue, SinksAgree, ActiveIsNewestLive
<1>5. TasksOwn' /\ Unborn'
  BY <1>2 DEF IInv, TasksOwn, Unborn
<1> QED BY <1>2, <1>3, <1>4, <1>5

\* The drain a task is in is the only one, and its snapshot, once taken, names
\* the ready head, which no task but the drain will settle.
LEMMA DrainFacts ==
  ASSUME IInv, NEW u \in Utterance, InDrain(u)
  PROVE  /\ draining
         /\ \A v \in Utterance \ {u} : ~InDrain(v)
         /\ pc[u] \in {"cache", "push", "settle"} =>
              /\ snap[u].seq = HeadSeq(queue)
              /\ snap[u].seq \in Queued(queue)
              /\ snap[u].seq \in 0 .. Len(outcome) - 1
              /\ Len(outcome) = queue.next
<1>1. queue \in Queue /\ Sorted(queue) /\ Len(outcome) = queue.next /\ queue.next \in Nat
  BY DEF IInv, TypeOK, QueueOrdered, QueuedUntilSettled, Queue
<1>2. draining /\ \A v \in Utterance \ {u} : ~InDrain(v)
  BY DEF IInv, DrainExclusive
<1>3. ASSUME pc[u] \in {"cache", "push", "settle"}
      PROVE  snap[u].seq = HeadSeq(queue) /\ HeadReady(queue)
  BY <1>3 DEF IInv, HeadPinned
<1> QED BY <1>1, <1>2, <1>3, HeadProperties, QueuedProperties

\* Taking and dropping the draining flag keeps the invariant.
LEMMA EnterReleaseStep ==
  ASSUME IInv, NEW u \in Utterance, EnterDrain(u) \/ ReleaseDrain(u)
  PROVE  IInv'
<1>1. TypeOK
  BY DEF IInv
<1>2. /\ pc[u] \in {"enter", "release"}
      /\ UNCHANGED <<queue, bindings, streamingSeqs, sinkVars, streaming, continuous,
                     chan, cache, recorded, seqOf, snap, trigger, outcome>>
      /\ draining' \in BOOLEAN
  BY DEF EnterDrain, ReleaseDrain
<1>3. PICK phase \in {"peek", "done"} :
        /\ pc' = [pc EXCEPT ![u] = phase]
        /\ phase = "peek" => pc[u] = "enter" /\ ~draining /\ draining'
        /\ phase = "done" => \/ pc[u] = "enter" /\ draining /\ draining'
                             \/ pc[u] = "release" /\ ~draining'
  BY <1>1 DEF TypeOK, EnterDrain, ReleaseDrain
<1>4. /\ TypeOK' /\ QueueOrdered' /\ TablesMatchQueue' /\ SinksAgree'
      /\ TasksOwn' /\ Unborn'
      /\ pc'[u] = phase
      /\ \A v \in Utterance \ {u} : pc'[v] = pc[v]
  <2>1. phase \in Drains \cup {"done"} /\ pc[u] \in Drains \cup {"enter"}
    BY <1>2 DEF Drains
  <2>2. /\ cache' \in Seq(Nat) /\ snap' \in [Utterance -> Snapshots]
        /\ outcome' \in Seq(Outcome) /\ chan' \in [SinkId -> Seq(Frame)]
    BY <1>1, <1>2 DEF TypeOK
  <2> QED BY <2>1, <2>2, <1>2, <1>3, DrainKeeps
<1>5. \A v \in Utterance :
        pc'[v] \in {"cache", "push", "settle"} => v # u /\ pc'[v] = pc[v]
  BY <1>4
<1>6. \A v \in Utterance : pc'[v] = "settle" <=> pc[v] = "settle"
  BY <1>2, <1>4
<1>7. HeadPinned' /\ CacheAgrees' /\ BindingsAgree'
  BY <1>2, <1>5 DEF IInv, HeadPinned, CacheAgrees, CachedBeforePush, BindingsAgree
<1>8. QueuedUntilSettled'
  BY <1>2, <1>6 DEF IInv, QueuedUntilSettled
<1>9. DrainExclusive'
  <2>1. DrainExclusive
    BY DEF IInv
  <2>2. \A v \in Utterance \ {u} : InDrain(v)' <=> InDrain(v)
    BY <1>4 DEF InDrain
  <2>3. CASE phase = "peek"
    <3>1. InDrain(u)' /\ ~InDrain(u)
      BY <2>3, <1>3, <1>4 DEF InDrain, Drains
    <3> QED BY <3>1, <2>1, <2>2, <2>3, <1>3 DEF DrainExclusive
  <2>4. CASE phase = "done" /\ pc[u] = "enter"
    <3>1. ~InDrain(u)' /\ ~InDrain(u)
      BY <2>4, <1>4 DEF InDrain, Drains
    <3> QED BY <3>1, <2>1, <2>2, <2>4, <1>3 DEF DrainExclusive
  <2>5. CASE phase = "done" /\ pc[u] = "release"
    <3>1. ~InDrain(u)' /\ InDrain(u)
      BY <2>5, <1>4 DEF InDrain, Drains
    <3> QED BY <3>1, <2>1, <2>2, <2>5, <1>3 DEF DrainExclusive
  <2> QED BY <2>3, <2>4, <2>5, <1>2
<1> QED BY <1>4, <1>7, <1>8, <1>9 DEF IInv

\* A drain goes to the sink its utterance was bound to, or nowhere.
LEMMA SnapshotProperties ==
  ASSUME IInv, HeadReady(queue)
  PROVE  /\ Snapshot \in Snapshots
         /\ Snapshot.seq = HeadSeq(queue)
         /\ Snapshot.route # NoSink =>
              Snapshot.route = outcome[Snapshot.seq + 1].target
         /\ Snapshot.sender => Snapshot.route # NoSink
         /\ ~Snapshot.cached
<1> DEFINE s     == HeadSeq(queue)
           route == RouteOf(sinks, BoundSink(s))
<1>1. queue \in Queue /\ Sorted(queue) /\ TypeOK /\ TablesMatchQueue /\ BindingsAgree
  BY DEF IInv, TypeOK, QueueOrdered
<1>2. s \in Queued(queue) /\ s \in Nat /\ s \in DOMAIN bindings
  BY <1>1, HeadProperties, QueuedProperties DEF TablesMatchQueue
<1>3. BoundSink(s) = outcome[s + 1].target /\ BoundSink(s) \in SinkId \cup {NoSink}
  BY <1>1, <1>2 DEF BoundSink, BindingsAgree, TypeOK
<1>4. route \in {NoSink, BoundSink(s)}
  BY DEF RouteOf
<1>5. conns \subseteq SinkId /\ NoSink \notin SinkId
  BY <1>1, Constants DEF TypeOK
<1>6. Snapshot = [seq |-> s, route |-> route, sender |-> route \in conns,
                  finalize |-> s \in streamingSeqs, cached |-> FALSE]
  BY DEF Snapshot
<1> HIDE DEF s, route
<1>7. /\ Snapshot.seq = s /\ Snapshot.route = route
      /\ Snapshot.sender = (route \in conns) /\ ~Snapshot.cached
      /\ Snapshot \in Snapshots
  BY <1>2, <1>3, <1>4, <1>6 DEF Snapshots
<1> QED BY <1>3, <1>4, <1>5, <1>7 DEF s

\* Reading the head under the lock keeps the invariant.
LEMMA PeekStep ==
  ASSUME IInv, NEW u \in Utterance, Peek(u)
  PROVE  IInv'
<1> USE DEF daemonVars
<1>1. TypeOK
  BY DEF IInv
<1>2. /\ pc[u] = "peek" /\ InDrain(u)
      /\ UNCHANGED <<daemonVars, sinkVars, streaming, continuous,
                     chan, cache, recorded, seqOf, trigger, outcome>>
  BY DEF Peek, InDrain, Drains
<1>3. PICK phase \in {"cache", "release"} :
        /\ pc' = [pc EXCEPT ![u] = phase]
        /\ phase = "cache" => HeadReady(queue) /\ snap' = [snap EXCEPT ![u] = Snapshot]
        /\ phase = "release" => snap' = snap
  BY DEF Peek
<1>4. snap' \in [Utterance -> Snapshots] /\ \A v \in Utterance \ {u} : snap'[v] = snap[v]
  BY <1>1, <1>3, SnapshotProperties DEF TypeOK
<1>5. /\ TypeOK' /\ QueueOrdered' /\ TablesMatchQueue' /\ SinksAgree'
      /\ TasksOwn' /\ Unborn'
      /\ pc'[u] = phase
      /\ \A v \in Utterance \ {u} : pc'[v] = pc[v]
  <2>1. phase \in Drains \cup {"done"} /\ pc[u] \in Drains \cup {"enter"}
    BY <1>2 DEF Drains
  <2>2. /\ cache' \in Seq(Nat) /\ draining' \in BOOLEAN
        /\ outcome' \in Seq(Outcome) /\ chan' \in [SinkId -> Seq(Frame)]
    BY <1>1, <1>2 DEF TypeOK
  <2> QED BY <2>1, <2>2, <1>2, <1>3, <1>4, DrainKeeps
<1>6. \A v \in Utterance \ {u} : ~InDrain(v) /\ ~InDrain(v)'
  BY <1>2, <1>5, DrainFacts DEF InDrain
<1>7. DrainExclusive'
  BY <1>2, <1>5, <1>6, DrainFacts DEF DrainExclusive, InDrain, Drains
<1>8. \A v \in Utterance : pc'[v] \in {"cache", "push", "settle"} =>
        v = u /\ phase = "cache" /\ snap'[u] = Snapshot
  BY <1>1, <1>3, <1>5, <1>6 DEF InDrain, Drains, TypeOK
<1>9. HeadPinned' /\ CacheAgrees'
  BY <1>2, <1>3, <1>5, <1>8, SnapshotProperties
  DEF IInv, HeadPinned, CacheAgrees, CachedBeforePush
<1>10. QueuedUntilSettled'
  <2>1. \A v \in Utterance : pc'[v] # "settle" /\ pc[v] # "settle"
    BY <1>2, <1>5, <1>6 DEF InDrain, Drains
  <2> QED BY <2>1, <1>2 DEF IInv, QueuedUntilSettled
<1>11. BindingsAgree'
  BY <1>2, <1>3, <1>8, SnapshotProperties DEF IInv, BindingsAgree
<1> QED BY <1>5, <1>7, <1>9, <1>10, <1>11 DEF IInv

\* Pruning never removes the transcript that was just stored, unless nothing is
\* kept.
LEMMA NewestProperties ==
  ASSUME Keep # 0, NEW files \in Seq(Nat), NEW s \in Nat
  PROVE  /\ Newest(Append(files, s)) \in Seq(Nat)
         /\ Newest(Append(files, s)) # <<>>
         /\ Last(Newest(Append(files, s))) = s
<1> DEFINE all == Append(files, s)
           n   == Len(all)
           m   == IF n > Keep THEN n - Keep + 1 ELSE 1
<1>1. /\ all \in Seq(Nat) /\ n \in Nat \ {0} /\ all[n] = s
      /\ \A i \in 1 .. n : all[i] \in Nat
  BY AppendProperties, LenProperties
<1>2. m \in 1 .. n
  BY <1>1, KeepAssumption
<1>3. Newest(all) = SubSeq(all, m, n)
  BY DEF Newest
<1> HIDE DEF all, n, m
<1>4. /\ SubSeq(all, m, n) \in Seq(Nat)
      /\ Len(SubSeq(all, m, n)) = n - m + 1
      /\ \A i \in 1 .. n - m + 1 : SubSeq(all, m, n)[i] = all[m + i - 1]
  BY <1>1, <1>2, SubSeqProperties DEF n
<1>5. n - m + 1 \in 1 .. n - m + 1 /\ m + (n - m + 1) - 1 = n
  BY <1>1, <1>2
<1> DEFINE kept == SubSeq(all, m, n)
           k    == n - m + 1
<1>6. kept[k] = s /\ kept # <<>>
  <2> HIDE DEF kept
  <2>1. kept[k] = all[m + k - 1]
    BY <1>4, <1>5, Zenon DEF kept
  <2>2. kept \in Seq(Nat) /\ Len(kept) = k /\ k # 0
    BY <1>1, <1>2, <1>4 DEF kept
  <2>3. kept # <<>>
    BY <2>2, EmptySeq
  <2> QED BY <2>1, <2>3, <1>1, <1>5
<1> QED BY <1>3, <1>4, <1>6 DEF all, Last

\* What is stored in a cache that keeps nothing is pruned at once.
LEMMA NewestOfNone ==
  ASSUME Keep = 0, NEW s \in Nat
  PROVE  Newest(Append(<<>>, s)) = <<>>
<1>1. Len(Append(<<>>, s)) = 1
  OBVIOUS
<1> DEFINE all == Append(<<>>, s)
<1>2. Newest(all) = SubSeq(all, 2, 1)
  BY <1>1 DEF Newest
<1>3. SubSeq(all, 2, 1) = <<>>
  OBVIOUS
<1> QED BY <1>2, <1>3

\* Storing the transcript, or failing to, keeps the invariant.
LEMMA StoreStep ==
  ASSUME IInv, NEW u \in Utterance, Store(u)
  PROVE  IInv'
<1> USE DEF daemonVars
<1>1. TypeOK
  BY DEF IInv
<1>2. /\ pc[u] = "cache" /\ InDrain(u)
      /\ pc' = [pc EXCEPT ![u] = "push"]
      /\ UNCHANGED <<daemonVars, sinkVars, streaming, continuous,
                     chan, recorded, seqOf, trigger, outcome>>
  BY DEF Store, InDrain, Drains
<1>3. snap[u] \in Snapshots /\ snap[u].seq \in Nat /\ cache \in Seq(Nat)
  BY <1>1, <1>2, DrainFacts DEF TypeOK
<1>4. /\ snap' \in [Utterance -> Snapshots]
      /\ \A v \in Utterance \ {u} : snap'[v] = snap[v]
      /\ snap'[u].seq = snap[u].seq /\ snap'[u].route = snap[u].route
      /\ snap'[u].sender = snap[u].sender
  <2>1. snap' = [snap EXCEPT ![u].cached = TRUE] \/ snap' = snap
    BY DEF Store
  <2>2. CASE snap' = snap
    BY <2>2, <1>1 DEF TypeOK
  <2>3. CASE snap' = [snap EXCEPT ![u].cached = TRUE]
    <3> DEFINE new == [snap[u] EXCEPT !.cached = TRUE]
    <3>1. /\ new \in Snapshots /\ new.seq = snap[u].seq
          /\ new.route = snap[u].route /\ new.sender = snap[u].sender
      BY <1>3 DEF Snapshots
    <3>2. snap' = [snap EXCEPT ![u] = new]
      BY <2>3
    <3> HIDE DEF new
    <3> QED BY <3>1, <3>2, <1>1 DEF TypeOK
  <2> QED BY <2>1, <2>2, <2>3
<1>5. /\ cache' \in Seq(Nat)
      /\ Keep = 0 => cache' = <<>>
      /\ snap'[u].cached /\ Keep # 0 => cache' # <<>> /\ Last(cache') = snap[u].seq
  <2>0. Keep = 0 => cache = <<>>
    BY DEF IInv, CacheAgrees
  <2>1. CASE cache' = Newest(Append(cache, snap[u].seq))
    <3>1. CASE Keep = 0
      BY <3>1, <2>0, <2>1, <1>3, NewestOfNone
    <3>2. CASE Keep # 0
      BY <3>2, <2>1, <1>3, NewestProperties
    <3> QED BY <3>1, <3>2
  <2>2. CASE cache # <<>> /\ cache' = [cache EXCEPT ![Len(cache)] = snap[u].seq]
    BY <2>0, <2>2, <1>3 DEF Last
  <2>3. CASE UNCHANGED <<cache, snap>>
    BY <2>0, <2>3, <1>2, <1>3 DEF IInv, BindingsAgree
  <2> QED BY <2>1, <2>2, <2>3 DEF Store
<1>6. /\ TypeOK' /\ QueueOrdered' /\ TablesMatchQueue' /\ SinksAgree'
      /\ TasksOwn' /\ Unborn'
      /\ pc'[u] = "push"
      /\ \A v \in Utterance \ {u} : pc'[v] = pc[v]
  <2>1. "push" \in Drains \cup {"done"} /\ pc[u] \in Drains \cup {"enter"}
    BY <1>2 DEF Drains
  <2>2. /\ draining' \in BOOLEAN
        /\ outcome' \in Seq(Outcome) /\ chan' \in [SinkId -> Seq(Frame)]
    BY <1>1, <1>2 DEF TypeOK
  <2> QED BY <2>1, <2>2, <1>2, <1>4, <1>5, DrainKeeps
<1>7. \A v \in Utterance \ {u} : ~InDrain(v) /\ ~InDrain(v)'
  BY <1>2, <1>6, DrainFacts DEF InDrain
<1>8. DrainExclusive'
  BY <1>2, <1>6, <1>7, DrainFacts DEF DrainExclusive, InDrain, Drains
<1>9. \A v \in Utterance : pc'[v] \in {"cache", "push", "settle"} => v = u
  BY <1>7 DEF InDrain, Drains
<1>10. HeadPinned' /\ CacheAgrees' /\ BindingsAgree'
  BY <1>2, <1>4, <1>5, <1>6, <1>9 DEF IInv, HeadPinned, CacheAgrees, CachedBeforePush, BindingsAgree
<1>11. QueuedUntilSettled'
  <2>1. \A v \in Utterance : pc'[v] # "settle" /\ pc[v] # "settle"
    BY <1>2, <1>6, <1>7 DEF InDrain, Drains
  <2> QED BY <2>1, <1>2 DEF IInv, QueuedUntilSettled
<1> QED BY <1>6, <1>8, <1>10, <1>11 DEF IInv

\* A delivery goes to the sink the drain read; otherwise the utterance is held.
LEMMA PushOutcome ==
  ASSUME IInv, NEW u \in Utterance, Push(u)
  PROVE  \/ /\ snap[u].route \in SinkId
            /\ snap[u].route = outcome[snap[u].seq + 1].target
            /\ Settled(snap[u].seq, "delivered", snap[u].route)
         \/ Settled(snap[u].seq, "held", NoSink)
<1>1. /\ pc[u] = "push" /\ TypeOK /\ BindingsAgree
  BY DEF IInv, Push
<1>2. snap[u] \in Snapshots /\ snap[u].route \in SinkId \cup {NoSink}
  BY <1>1 DEF TypeOK, Snapshots
<1>3. CASE snap[u].sender /\ Receiving(snap[u].route)
  <2>1. Settled(snap[u].seq, "delivered", snap[u].route)
    BY <1>3 DEF Push
  <2> QED BY <2>1, <1>1, <1>2, <1>3 DEF BindingsAgree
<1>4. CASE ~(snap[u].sender /\ Receiving(snap[u].route))
  BY <1>4 DEF Push
<1> QED BY <1>3, <1>4

\* The send outside the lock keeps the invariant.
LEMMA PushStep ==
  ASSUME IInv, NEW u \in Utterance, Push(u)
  PROVE  IInv'
<1> USE DEF daemonVars
<1> DEFINE s == snap[u].seq
<1>1. TypeOK /\ outcome \in Seq(Outcome)
  BY DEF IInv, TypeOK
<1>2. /\ pc[u] = "push" /\ InDrain(u)
      /\ pc' = [pc EXCEPT ![u] = "settle"]
      /\ UNCHANGED <<daemonVars, sinkVars, streaming, continuous,
                     cache, recorded, seqOf, snap, trigger>>
  BY DEF Push, InDrain, Drains
<1>3. s \in Queued(queue) /\ s \in 0 .. Len(outcome) - 1 /\ Len(outcome) = queue.next
  BY <1>2, DrainFacts
<1>4. chan' \in [SinkId -> Seq(Frame)]
  <2>1. chan \in [SinkId -> Seq(Frame)]
    BY <1>1 DEF TypeOK
  <2>2. CASE snap[u].sender /\ Receiving(snap[u].route)
    <3>1. /\ [kind |-> "Finalize", seq |-> s] \in Frame
          /\ [kind |-> "Transcript", seq |-> s] \in Frame
      BY <1>3 DEF Frame
    <3>2. PICK frame \in Frame : Send(snap[u].route, frame)
      BY <2>2, <3>1 DEF Push
    <3>3. snap[u].route \in SinkId
      BY <2>2, <1>1, <1>2 DEF IInv, BindingsAgree, TypeOK, Snapshots
    <3> QED BY <3>2, <3>3, <2>1 DEF Send
  <2>3. CASE ~(snap[u].sender /\ Receiving(snap[u].route))
    BY <2>1, <2>3 DEF Push
  <2> QED BY <2>2, <2>3
<1>5. /\ outcome' \in Seq(Outcome) /\ Len(outcome') = Len(outcome)
      /\ outcome'[s + 1].status # "waiting"
      /\ \A t \in 0 .. Len(outcome) - 1 : outcome'[t + 1].target = outcome[t + 1].target
      /\ \A t \in 0 .. Len(outcome) - 1 : t # s => outcome'[t + 1] = outcome[t + 1]
  <2>1. PICK status \in {"delivered", "held"}, to \in SinkId \cup {NoSink} :
          Settled(s, status, to)
    BY PushOutcome
  <2>2. status \in Status
    BY DEF Status
  <2> HIDE DEF s
  <2> QED BY <2>1, <2>2, <1>1, <1>3, SettledProperties
<1>6. /\ TypeOK' /\ QueueOrdered' /\ TablesMatchQueue' /\ SinksAgree'
      /\ TasksOwn' /\ Unborn'
      /\ pc'[u] = "settle"
      /\ \A v \in Utterance \ {u} : pc'[v] = pc[v]
  <2>1. "settle" \in Drains \cup {"done"} /\ pc[u] \in Drains \cup {"enter"}
    BY <1>2 DEF Drains
  <2>2. /\ draining' \in BOOLEAN /\ cache' \in Seq(Nat)
        /\ snap' \in [Utterance -> Snapshots]
    BY <1>1, <1>2 DEF TypeOK
  <2> QED BY <2>1, <2>2, <1>2, <1>4, <1>5, DrainKeeps
<1> HIDE DEF s
<1>7. \A v \in Utterance \ {u} : ~InDrain(v) /\ ~InDrain(v)'
  BY <1>2, <1>6, DrainFacts DEF InDrain
<1>8. DrainExclusive'
  BY <1>2, <1>6, <1>7, DrainFacts DEF DrainExclusive, InDrain, Drains
<1>9. \A v \in Utterance : pc'[v] \in {"cache", "push", "settle"} => v = u
  BY <1>7 DEF InDrain, Drains
<1>10. HeadPinned' /\ CacheAgrees'
  BY <1>2, <1>6, <1>9 DEF IInv, HeadPinned, CacheAgrees, CachedBeforePush
<1>11. BindingsAgree'
  <2>1. \A t \in DOMAIN bindings : t \in 0 .. Len(outcome) - 1
    BY <1>3, QueuedProperties DEF IInv, TypeOK, TablesMatchQueue, QueueOrdered
  <2> QED BY <2>1, <1>2, <1>5, <1>6, <1>9 DEF IInv, BindingsAgree
<1>12. QueuedUntilSettled'
  <2>1. \A v \in Utterance : pc'[v] = "settle" /\ snap'[v].seq = snap[v].seq <=> v = u
    BY <1>2, <1>6, <1>9
  <2>2. \A v \in Utterance : pc[v] # "settle"
    BY <1>2, <1>7 DEF InDrain, Drains
  <2> QED BY <2>1, <2>2, <1>2, <1>3, <1>5 DEF IInv, QueuedUntilSettled, s
<1> QED BY <1>6, <1>8, <1>10, <1>11, <1>12 DEF IInv

\* Removing the settled utterance from every table keeps the invariant.
LEMMA SettleStep ==
  ASSUME IInv, NEW u \in Utterance, Settle(u)
  PROVE  IInv'
<1> USE DEF sinkVars
<1> DEFINE s == snap[u].seq
<1>1. /\ TypeOK /\ QueueOrdered /\ TablesMatchQueue /\ DrainExclusive
      /\ CacheAgrees /\ QueuedUntilSettled /\ SinksAgree /\ TasksOwn
      /\ Unborn /\ BindingsAgree
  BY DEF IInv
<1>2. /\ pc[u] = "settle" /\ InDrain(u)
      /\ pc' = [pc EXCEPT ![u] = "peek"]
      /\ queue' = Resolve(queue, s)
      /\ bindings' = Without(bindings, s)
      /\ streamingSeqs' = streamingSeqs \ {s}
      /\ snap' = [snap EXCEPT ![u] = NoSnapshot]
      /\ UNCHANGED <<draining, sinkVars, streaming, continuous, chan,
                     cache, recorded, seqOf, trigger, outcome>>
  BY DEF Settle, InDrain, Drains
<1>3. /\ queue \in Queue /\ Sorted(queue)
      /\ s \in Queued(queue) /\ ~Pending(queue, s)
      /\ \A v \in Utterance \ {u} : ~InDrain(v)
  BY <1>1, <1>2, DrainFacts, HeadProperties DEF TypeOK, QueueOrdered, HeadPinned, IInv
<1> HIDE DEF s
<1>4. /\ queue' \in Queue /\ Sorted(queue')
      /\ queue'.next = queue.next
      /\ Queued(queue') = Queued(queue) \ {s}
      /\ \A t : Pending(queue', t) <=> Pending(queue, t) /\ t # s
  BY <1>2, <1>3, ResolveProperties
<1>5. /\ DOMAIN bindings' = DOMAIN bindings \ {s}
      /\ \A t \in DOMAIN bindings' : bindings'[t] = bindings[t]
  BY <1>2, WithoutProperties
<1>6. /\ pc \in [Utterance -> Phases] /\ pc' \in [Utterance -> Phases]
      /\ pc'[u] = "peek"
      /\ \A v \in Utterance \ {u} : pc'[v] = pc[v]
      /\ \A v \in Utterance : pc'[v] = "transcribe" <=> pc[v] = "transcribe"
      /\ \A v \in Utterance : pc'[v] = "unborn" <=> pc[v] = "unborn"
  BY <1>1, <1>2 DEF TypeOK, Phases, Drains
<1>7. \A v \in Utterance : pc'[v] \notin {"cache", "push", "settle"}
  BY <1>3, <1>6 DEF InDrain, Drains
<1>8. TypeOK'
  <2>1. NoSnapshot \in Snapshots
    BY DEF NoSnapshot, Snapshots
  <2>2. snap' \in [Utterance -> Snapshots]
    BY <2>1, <1>1, <1>2 DEF TypeOK
  <2> QED BY <2>2, <1>1, <1>2, <1>4, <1>5, <1>6 DEF TypeOK
<1>9. QueueOrdered' /\ TablesMatchQueue' /\ SinksAgree'
  BY <1>1, <1>2, <1>4, <1>5
  DEF QueueOrdered, TablesMatchQueue, SinksAgree, ActiveIsNewestLive
<1>10. DrainExclusive'
  BY <1>2, <1>3, <1>6, DrainFacts DEF DrainExclusive, InDrain, Drains
<1>11. HeadPinned' /\ CacheAgrees'
  BY <1>2, <1>7 DEF IInv, HeadPinned, CacheAgrees, CachedBeforePush
<1>12. BindingsAgree'
  BY <1>1, <1>2, <1>5, <1>7 DEF BindingsAgree
<1>13. QueuedUntilSettled'
  <2>1. \A v \in Utterance : pc[v] = "settle" => v = u
    BY <1>3 DEF InDrain, Drains
  <2> QED BY <2>1, <1>1, <1>2, <1>4, <1>7 DEF QueuedUntilSettled, s
<1>14. TasksOwn'
  <2>1. \A v \in Utterance : pc[v] = "transcribe" => seqOf[v] # s
    BY <1>1, <1>3 DEF TasksOwn
  <2> QED BY <2>1, <1>1, <1>2, <1>4, <1>6 DEF TasksOwn
<1>15. Unborn'
  BY <1>1, <1>2, <1>6 DEF Unborn
<1> QED BY <1>8, <1>9, <1>10, <1>11, <1>12, <1>13, <1>14, <1>15 DEF IInv

-----------------------------------------------------------------------------
(* The invariant *)

\* Every step of the daemon keeps the invariant.
LEMMA NextStep ==
  ASSUME IInv, [Next]_vars
  PROVE  IInv'
<1>1. CASE \E u \in Utterance : Trigger(u) \/ TaskStep(u)
  <2> PICK u \in Utterance : Trigger(u) \/ TaskStep(u)
    BY <1>1
  <2>1. CASE StopAndEnqueue(u) \/ Reconciled(u) \/ DeliverAssembled(u)
    BY <2>1, AcceptingSteps
  <2>2. CASE \/ TakeStreaming(u) \/ EndContinuous(u)
             \/ ReconciledEmpty(u) \/ TranscriptionPanics(u)
    BY <2>2, CaptureSteps
  <2>3. CASE Transcribed(u) \/ DroppedEmpty(u)
    BY <2>3, TranscribedStep, DroppedEmptyStep
  <2>4. CASE EnterDrain(u) \/ ReleaseDrain(u)
    BY <2>4, EnterReleaseStep
  <2>5. CASE Peek(u) \/ Store(u) \/ Push(u) \/ Settle(u)
    BY <2>5, PeekStep, StoreStep, PushStep, SettleStep
  <2> QED BY <2>1, <2>2, <2>3, <2>4, <2>5 DEF Trigger, TaskStep
<1>2. CASE \E id \in SinkId : RegisterSink(id) \/ SinkStep(id)
  BY <1>2, SinkTasksStep
<1>3. CASE Session \/ ReplayLast \/ Exhausted \/ UNCHANGED vars
  BY <1>3, SessionStep DEF Exhausted
<1> QED BY <1>1, <1>2, <1>3 DEF Next

\* IInv holds in every reachable state.
THEOREM Invariance == Spec => []IInv
BY InitIInv, NextStep, PTL DEF Spec

\* Every variable keeps the kind of value the code gives it.
THEOREM TypeCorrect == Spec => []TypeOK
BY Invariance, PTL DEF IInv

\* However enqueues and removals interleave, numbers are unique and in order.
THEOREM QueueStaysOrdered == Spec => []QueueOrdered
BY Invariance, PTL DEF IInv

\* Bindings and streaming marks are kept exactly as long as their utterances.
THEOREM TablesNeverLeak == Spec => []TablesMatchQueue
BY Invariance, PTL DEF IInv

\* The draining flag is a lock: at most one task is in the drain loop.
THEOREM MutualExclusion == Spec => []DrainExclusive
BY Invariance, PTL DEF IInv

\* What a drain read under the lock stays true until it settles the utterance.
THEOREM SnapshotStaysValid == Spec => []HeadPinned
BY Invariance, PTL DEF IInv

\* The transcript being delivered is the newest cached one, or nothing is kept.
THEOREM CacheBeforeDelivery == Spec => []CachedBeforePush
BY Invariance, PTL DEF IInv, CacheAgrees

\* An utterance waits exactly while it is queued and unsent.
THEOREM NothingLostOrRepeated == Spec => []QueuedUntilSettled
BY Invariance, PTL DEF IInv

\* The active sink is the newest registered wrapper, and all can be sent to.
THEOREM SinkTablesAgree == Spec => []ActiveIsNewestLive
BY Invariance, PTL DEF IInv, SinksAgree

-----------------------------------------------------------------------------
(* Refinement of ordered delivery *)

\* Utterance s waits, as the abstract specification sees it, while it is queued
\* and no drain has settled it.
LEMMA WaitingProperties ==
  ASSUME IInv
  PROVE  /\ queue.next \in Nat /\ DOMAIN outcome = 1 .. queue.next
         /\ \A s \in 0 .. queue.next - 1 :
              s \notin Queued(queue) => ~Ordered!Waiting(s + 1)
         /\ \A s \in Queued(queue) :
              (\A u \in Utterance : ~(pc[u] = "settle" /\ snap[u].seq = s)) =>
                s \in 0 .. queue.next - 1 /\ Ordered!Waiting(s + 1)
<1>1. /\ queue \in Queue /\ Sorted(queue) /\ queue.next \in Nat
      /\ QueuedUntilSettled /\ outcome \in Seq(Outcome)
  BY DEF IInv, TypeOK, QueueOrdered, Queue
<1>2. DOMAIN outcome = 1 .. queue.next
  BY <1>1, LenProperties DEF QueuedUntilSettled
<1>3. \A s \in Queued(queue) : s \in 0 .. queue.next - 1
  BY <1>1, QueuedProperties
<1> QED BY <1>1, <1>2, <1>3 DEF QueuedUntilSettled, Ordered!Waiting

\* Numbering an utterance is the abstract Accept.
LEMMA AcceptRefines ==
  ASSUME IInv, NEW u \in Utterance,
         StopAndEnqueue(u) \/ Reconciled(u) \/ DeliverAssembled(u)
  PROVE  Ordered!Next
<1>1. TypeOK
  BY DEF IInv
<1>2. PICK sink \in {sinks.active, trigger[u]} : outcome' = Append(outcome, Fresh(sink))
  BY DEF StopAndEnqueue, Reconciled, DeliverAssembled, Accept
<1>3. sink \in Ordered!Target
  BY <1>1, <1>2 DEF TypeOK, Ordered!Target
<1>4. Ordered!Accept(sink)
  BY <1>2 DEF Ordered!Accept, Ordered!Fresh, Fresh
<1> QED BY <1>3, <1>4 DEF Ordered!Next

\* An empty transcription is the abstract Drop: nobody settled it before.
LEMMA DropRefines ==
  ASSUME IInv, NEW u \in Utterance, DroppedEmpty(u)
  PROVE  Ordered!Next
<1> DEFINE s == seqOf[u]
<1>1. queue \in Queue /\ Sorted(queue) /\ TasksOwn /\ HeadPinned /\ pc[u] = "transcribe"
  BY DEF IInv, TypeOK, QueueOrdered, DroppedEmpty
<1>2. s \in Nat /\ Pending(queue, s) /\ s \in Queued(queue)
  BY <1>1, QueuedProperties DEF TasksOwn
<1>3. \A v \in Utterance : ~(pc[v] = "settle" /\ snap[v].seq = s)
  BY <1>1, <1>2, HeadProperties DEF HeadPinned
<1> HIDE DEF s
<1>4. s + 1 \in DOMAIN outcome /\ Ordered!Waiting(s + 1)
  BY <1>2, <1>3, WaitingProperties
<1>5. Ordered!Become(s + 1, "dropped", NoSink)
  BY DEF DroppedEmpty, Settled, Ordered!Become, s
<1>6. Ordered!Drop(s + 1)
  BY <1>4, <1>5 DEF Ordered!Drop
<1> QED BY <1>4, <1>6 DEF Ordered!Next

\* The send is the abstract Deliver or Hold: all before the head is settled.
LEMMA PushRefines ==
  ASSUME IInv, NEW u \in Utterance, Push(u)
  PROVE  Ordered!Next
<1> DEFINE s == snap[u].seq
<1>1. /\ pc[u] = "push" /\ InDrain(u) /\ queue \in Queue /\ Sorted(queue)
      /\ HeadPinned
  BY DEF IInv, TypeOK, QueueOrdered, Push, InDrain, Drains
<1>2. /\ HeadReady(queue) /\ s = HeadSeq(queue) /\ s \in Queued(queue)
      /\ \A t \in Queued(queue) : s <= t
  BY <1>1, HeadProperties DEF HeadPinned
<1>3. \A v \in Utterance : pc[v] # "settle"
  BY <1>1, DrainFacts DEF InDrain, Drains
<1> HIDE DEF s
<1>4. s + 1 \in DOMAIN outcome /\ Ordered!Waiting(s + 1) /\ s \in 0 .. queue.next - 1
  BY <1>2, <1>3, WaitingProperties
<1>5. \A j \in 1 .. (s + 1) - 1 : ~Ordered!Waiting(j)
  <2>1. ASSUME NEW j \in 1 .. (s + 1) - 1
        PROVE  ~Ordered!Waiting(j)
    <3>1. queue.next \in Nat
      BY WaitingProperties
    <3>2. j - 1 \in 0 .. queue.next - 1 /\ (j - 1) + 1 = j /\ ~(s <= j - 1)
      BY <3>1, <1>4
    <3>3. j - 1 \notin Queued(queue)
      BY <3>2, <1>2
    <3>4. ~Ordered!Waiting((j - 1) + 1)
      BY <3>2, <3>3, WaitingProperties
    <3> QED BY <3>2, <3>4
  <2> QED BY <2>1
<1>6. Ordered!MayType(s + 1)
  BY <1>4, <1>5 DEF Ordered!MayType
<1>7. CASE /\ snap[u].route \in SinkId
           /\ snap[u].route = outcome[s + 1].target
           /\ Settled(s, "delivered", snap[u].route)
  <2>1. outcome[s + 1].target # NoSink
    BY <1>7, Constants
  <2>2. Ordered!Become(s + 1, "delivered", outcome[s + 1].target)
    BY <1>7 DEF Settled, Ordered!Become
  <2>3. Ordered!Deliver(s + 1)
    BY <2>1, <2>2, <1>6 DEF Ordered!Deliver
  <2> QED BY <2>3, <1>4 DEF Ordered!Next
<1>8. CASE Settled(s, "held", NoSink)
  <2>1. Ordered!Hold(s + 1)
    BY <1>6, <1>8 DEF Settled, Ordered!Become, Ordered!Hold
  <2> QED BY <2>1, <1>4 DEF Ordered!Next
<1> QED BY <1>7, <1>8, PushOutcome DEF s

\* Every step of the daemon is an abstract step or changes no outcome.
LEMMA StepRefines ==
  ASSUME IInv, [Next]_vars
  PROVE  [Ordered!Next]_outcome
<1>1. CASE \E u \in Utterance : Trigger(u) \/ TaskStep(u)
  <2> PICK u \in Utterance : Trigger(u) \/ TaskStep(u)
    BY <1>1
  <2>1. CASE StopAndEnqueue(u) \/ Reconciled(u) \/ DeliverAssembled(u)
    BY <2>1, AcceptRefines
  <2>2. CASE DroppedEmpty(u)
    BY <2>2, DropRefines
  <2>3. CASE Push(u)
    BY <2>3, PushRefines
  <2>4. CASE \/ TakeStreaming(u) \/ EndContinuous(u) \/ ReconciledEmpty(u)
             \/ Transcribed(u) \/ TranscriptionPanics(u)
             \/ EnterDrain(u) \/ ReleaseDrain(u)
             \/ Peek(u) \/ Store(u) \/ Settle(u)
    BY <2>4 DEF TakeStreaming, EndContinuous, ReconciledEmpty, Transcribed,
                TranscriptionPanics, EnterDrain, ReleaseDrain, Peek, Store, Settle
  <2> QED BY <2>1, <2>2, <2>3, <2>4 DEF Trigger, TaskStep
<1>2. CASE \E id \in SinkId : RegisterSink(id) \/ SinkStep(id)
  BY <1>2 DEF RegisterSink, SinkStep, Forward, NoticeExit, DeregisterSink,
              DropReceiver
<1>3. CASE Session \/ ReplayLast \/ Exhausted \/ UNCHANGED vars
  BY <1>3 DEF Session, StartStreaming, DiscardStreaming, StartContinuous,
              DropContinuous, ReplayLast, Exhausted, vars
<1> QED BY <1>1, <1>2, <1>3 DEF Next

\* The daemon's delivery machinery implements the abstract promise: strict order,
\* one terminal state per utterance, never a sink other than the bound one.
THEOREM Refinement == Spec => OrderedSpec
<1>1. Init => Ordered!Init
  BY DEF Init, Ordered!Init
<1> QED BY <1>1, Invariance, StepRefines, PTL DEF Spec, OrderedSpec, Ordered!Spec

-----------------------------------------------------------------------------
(* What the wrappers read *)

\* Nothing waits behind an utterance that was delivered or held.
HistoryOrdered ==
  \A i, j \in DOMAIN outcome :
    i < j /\ outcome[j].status \in {"delivered", "held"} =>
      outcome[i].status # "waiting"

\* Every delivery in a channel is one of an accepted utterance.
FramesAccepted ==
  \A id \in SinkId : \A k \in DOMAIN chan[id] : IsDelivery(chan[id][k]) =>
    chan[id][k].seq \in 0 .. Len(outcome) - 1

OrderInv == IInv /\ HistoryOrdered /\ FramesAccepted /\ DeliveriesInOrder

\* What any step of ordered delivery does to the history.
LEMMA HistoryProperties ==
  ASSUME outcome \in Seq(Outcome), HistoryOrdered, [Ordered!Next]_outcome
  PROVE  /\ Len(outcome) <= Len(outcome')
         /\ HistoryOrdered'
         /\ \A i \in DOMAIN outcome :
              outcome[i].status = "delivered" => outcome'[i] = outcome[i]
<1>1. /\ Len(outcome) \in Nat /\ DOMAIN outcome = 1 .. Len(outcome)
      /\ \A i \in 1 .. Len(outcome) : outcome[i] \in Outcome
  BY LenProperties, ElementOfSeq
<1>2. ASSUME NEW target \in Ordered!Target, Ordered!Accept(target)
      PROVE  /\ DOMAIN outcome' = 1 .. Len(outcome) + 1 /\ Len(outcome') = Len(outcome) + 1
             /\ \A i \in 1 .. Len(outcome) : outcome'[i] = outcome[i]
             /\ outcome'[Len(outcome) + 1].status = "waiting"
  <2>1. Ordered!Fresh(target) \in Outcome /\ Ordered!Fresh(target).status = "waiting"
    BY DEF Ordered!Fresh, Ordered!Target, Outcome, Status
  <2>2. outcome' = Append(outcome, Ordered!Fresh(target))
    BY <1>2 DEF Ordered!Accept
  <2> DEFINE entry == Ordered!Fresh(target)
             n     == Len(outcome)
  <2> HIDE DEF entry
  <2>3. /\ outcome' \in Seq(Outcome) /\ Len(outcome') = n + 1
        /\ outcome'[n + 1] = entry
        /\ \A i \in 1 .. n : outcome'[i] = outcome[i]
    BY <2>1, <2>2, AppendProperties DEF entry
  <2>4. DOMAIN outcome' = 1 .. n + 1
    BY <2>3, LenProperties
  <2> QED BY <2>1, <2>3, <2>4 DEF entry
<1>3. ASSUME NEW i \in DOMAIN outcome, NEW status, NEW to, Ordered!Become(i, status, to)
      PROVE  /\ DOMAIN outcome' = DOMAIN outcome /\ Len(outcome') = Len(outcome)
             /\ outcome'[i].status = status
             /\ \A j \in DOMAIN outcome : j # i => outcome'[j] = outcome[j]
  BY <1>3, <1>1 DEF Ordered!Become
<1>4. CASE \E target \in Ordered!Target : Ordered!Accept(target)
  BY <1>1, <1>2, <1>4 DEF HistoryOrdered
<1>5. CASE \E i \in DOMAIN outcome : Ordered!Drop(i)
  <2> PICK i \in DOMAIN outcome : Ordered!Drop(i)
    BY <1>5
  <2>1. outcome[i].status = "waiting" /\ Ordered!Become(i, "dropped", NoSink)
    BY DEF Ordered!Drop, Ordered!Waiting
  <2> QED BY <2>1, <1>1, <1>3 DEF HistoryOrdered
<1>6. CASE \E i \in DOMAIN outcome : Ordered!Deliver(i) \/ Ordered!Hold(i)
  <2> PICK i \in DOMAIN outcome : Ordered!Deliver(i) \/ Ordered!Hold(i)
    BY <1>6
  <2>1. /\ outcome[i].status = "waiting"
        /\ \A j \in 1 .. i - 1 : outcome[j].status # "waiting"
        /\ \/ Ordered!Become(i, "delivered", outcome[i].target)
           \/ Ordered!Become(i, "held", NoSink)
    BY DEF Ordered!Deliver, Ordered!Hold, Ordered!MayType, Ordered!Waiting
  <2>2. /\ DOMAIN outcome' = DOMAIN outcome /\ Len(outcome') = Len(outcome)
        /\ outcome'[i].status \in {"delivered", "held"}
        /\ \A j \in DOMAIN outcome : j # i => outcome'[j] = outcome[j]
    BY <2>1, <1>3
  <2> QED BY <2>1, <2>2, <1>1 DEF HistoryOrdered
<1>7. CASE UNCHANGED outcome
  BY <1>1, <1>7 DEF HistoryOrdered
<1> QED BY <1>4, <1>5, <1>6, <1>7 DEF Ordered!Next

\* In a channel that only lost frames, or got one that is no delivery, what was
\* in order still is.
LEMMA ChannelKeeps ==
  ASSUME OrderInv, TypeOK', [Ordered!Next]_outcome,
         \A id \in SinkId :
           \/ chan'[id] = chan[id]
           \/ chan'[id] = <<>>
           \/ chan[id] # <<>> /\ chan'[id] = Tail(chan[id])
           \/ \E frame \in Frame : ~IsDelivery(frame) /\ chan'[id] = Append(chan[id], frame)
  PROVE  FramesAccepted' /\ DeliveriesInOrder'
<1>1. /\ chan \in [SinkId -> Seq(Frame)] /\ outcome \in Seq(Outcome) /\ HistoryOrdered
      /\ FramesAccepted /\ DeliveriesInOrder
  BY DEF OrderInv, IInv, TypeOK
<1>2. /\ Len(outcome) \in Nat /\ Len(outcome') \in Nat /\ Len(outcome) <= Len(outcome')
      /\ DOMAIN outcome = 1 .. Len(outcome)
      /\ \A i \in DOMAIN outcome :
           outcome[i].status = "delivered" => outcome'[i] = outcome[i]
  BY <1>1, HistoryProperties, LenProperties DEF TypeOK
<1>3. \A id \in SinkId : \A k \in DOMAIN chan[id] : IsDelivery(chan[id][k]) =>
        /\ chan[id][k].seq \in 0 .. Len(outcome') - 1
        /\ outcome'[chan[id][k].seq + 1].status = "delivered"
        /\ outcome'[chan[id][k].seq + 1].to = id
  BY <1>1, <1>2 DEF FramesAccepted, DeliveriesInOrder
<1>4. ASSUME NEW id \in SinkId
      PROVE  \E d \in {0, 1} :
               \A k \in DOMAIN chan'[id] : IsDelivery(chan'[id][k]) =>
                 k + d \in DOMAIN chan[id] /\ chan'[id][k] = chan[id][k + d]
  <2>1. /\ chan[id] \in Seq(Frame) /\ Len(chan[id]) \in Nat
        /\ DOMAIN chan[id] = 1 .. Len(chan[id])
    BY <1>1, LenProperties
  <2>2. CASE chan'[id] = chan[id]
    BY <2>1, <2>2
  <2>3. CASE chan'[id] = <<>>
    BY <2>3
  <2>4. CASE chan[id] # <<>> /\ chan'[id] = Tail(chan[id])
    BY <2>1, <2>4, HeadTailProperties
  <2>5. CASE \E frame \in Frame : ~IsDelivery(frame) /\ chan'[id] = Append(chan[id], frame)
    <3> PICK frame \in Frame : ~IsDelivery(frame) /\ chan'[id] = Append(chan[id], frame)
      BY <2>5
    <3>1. /\ DOMAIN chan'[id] = 1 .. Len(chan[id]) + 1
          /\ chan'[id][Len(chan[id]) + 1] = frame
          /\ \A k \in 1 .. Len(chan[id]) : chan'[id][k] = chan[id][k]
      BY <2>1, AppendProperties
    <3> QED BY <2>1, <3>1
  <2> QED BY <2>2, <2>3, <2>4, <2>5
<1>5. ASSUME NEW id \in SinkId, NEW k \in DOMAIN chan'[id], IsDelivery(chan'[id][k])
      PROVE  /\ chan'[id][k].seq \in 0 .. Len(outcome') - 1
             /\ outcome'[chan'[id][k].seq + 1].status = "delivered"
             /\ outcome'[chan'[id][k].seq + 1].to = id
  BY <1>3, <1>4, <1>5
<1>6. ASSUME NEW id \in SinkId, NEW i \in DOMAIN chan'[id], NEW j \in DOMAIN chan'[id],
             i < j, IsDelivery(chan'[id][i]), IsDelivery(chan'[id][j])
      PROVE  chan'[id][i].seq < chan'[id][j].seq
  <2>1. chan'[id] \in Seq(Frame) /\ i \in Nat /\ j \in Nat
    BY LenProperties DEF TypeOK
  <2>2. PICK d \in {0, 1} :
          /\ i + d \in DOMAIN chan[id] /\ chan'[id][i] = chan[id][i + d]
          /\ j + d \in DOMAIN chan[id] /\ chan'[id][j] = chan[id][j + d]
    BY <1>4, <1>6
  <2>3. i + d < j + d
    BY <1>6, <2>1
  <2> QED BY <2>2, <2>3, <1>1, <1>6 DEF DeliveriesInOrder
<1> QED BY <1>5, <1>6 DEF FramesAccepted, DeliveriesInOrder

\* A delivery goes behind the deliveries already in its channel: they are no
\* longer waiting, so their numbers are not above the head's.
LEMMA PushKeeps ==
  ASSUME OrderInv, TypeOK', [Ordered!Next]_outcome, NEW u \in Utterance, Push(u)
  PROVE  FramesAccepted' /\ DeliveriesInOrder'
<1> DEFINE s  == snap[u].seq
           id == snap[u].route
<1>1. /\ IInv /\ TypeOK /\ outcome \in Seq(Outcome) /\ HistoryOrdered
      /\ FramesAccepted /\ DeliveriesInOrder /\ InDrain(u) /\ pc[u] = "push"
  BY DEF OrderInv, IInv, TypeOK, Push, InDrain, Drains
<1>2. CASE ~(snap[u].sender /\ Receiving(id))
  <2>1. chan' = chan
    BY <1>2 DEF Push
  <2> QED BY <2>1, ChannelKeeps
<1>3. CASE snap[u].sender /\ Receiving(id)
  <2>1. PICK frame \in {[kind |-> "Finalize", seq |-> s], [kind |-> "Transcript", seq |-> s]} :
          chan' = [chan EXCEPT ![id] = Append(@, frame)]
    BY <1>3 DEF Push, Send
  <2>2. id \in SinkId /\ Settled(s, "delivered", id)
    BY <1>1, <1>3 DEF Push, BindingsAgree, IInv, TypeOK, Snapshots
  <2>3. /\ s \in 0 .. Len(outcome) - 1 /\ s \in Queued(queue)
        /\ Len(outcome) = queue.next
    BY <1>1, DrainFacts
  <2>4. outcome[s + 1].status = "waiting"
    <3>1. \A v \in Utterance : pc[v] # "settle"
      BY <1>1, DrainFacts DEF InDrain, Drains
    <3> QED BY <3>1, <2>3, <1>1 DEF IInv, QueuedUntilSettled
  <2> HIDE DEF s, id
  <2>5. /\ Len(outcome') = Len(outcome) /\ Len(outcome) \in Nat
        /\ outcome'[s + 1].status = "delivered" /\ outcome'[s + 1].to = id
        /\ \A t \in 0 .. Len(outcome) - 1 : t # s => outcome'[t + 1] = outcome[t + 1]
    <3>1. "delivered" \in Status /\ id \in SinkId \cup {NoSink}
      BY <2>2 DEF Status
    <3> QED BY <3>1, <2>2, <2>3, <1>1, SettledProperties, LenProperties
  <2>6. \A i \in SinkId : \A k \in DOMAIN chan[i] : IsDelivery(chan[i][k]) =>
          chan[i][k].seq \in 0 .. Len(outcome) - 1 /\ chan[i][k].seq < s
    <3> SUFFICES ASSUME NEW i \in SinkId, NEW k \in DOMAIN chan[i], IsDelivery(chan[i][k])
                 PROVE  chan[i][k].seq \in 0 .. Len(outcome) - 1 /\ chan[i][k].seq < s
      OBVIOUS
    <3> DEFINE t == chan[i][k].seq
    <3>1. t \in 0 .. Len(outcome) - 1 /\ outcome[t + 1].status = "delivered"
      BY <1>1 DEF FramesAccepted, DeliveriesInOrder
    <3>2. t + 1 \in DOMAIN outcome /\ s + 1 \in DOMAIN outcome
      BY <3>1, <2>3, <1>1, LenProperties
    <3> HIDE DEF t
    <3>3. ~(s + 1 < t + 1)
      BY <3>1, <3>2, <2>4, <1>1 DEF HistoryOrdered
    <3>4. t # s
      BY <3>1, <2>4
    <3>5. t < s
      BY <3>1, <3>3, <3>4, <2>3, <2>5
    <3> QED BY <3>1, <3>5 DEF t
  <2>7. /\ chan[id] \in Seq(Frame) /\ Len(chan[id]) \in Nat
        /\ DOMAIN chan[id] = 1 .. Len(chan[id])
        /\ frame \in Frame /\ frame.seq = s
    BY <1>1, <2>1, <2>2, <2>3, LenProperties DEF TypeOK, Frame
  <2>8. /\ DOMAIN chan'[id] = 1 .. Len(chan[id]) + 1
        /\ chan'[id][Len(chan[id]) + 1] = frame
        /\ \A k \in 1 .. Len(chan[id]) : chan'[id][k] = chan[id][k]
        /\ \A i \in SinkId \ {id} : chan'[i] = chan[i]
    <3>1. chan' \in [SinkId -> Seq(Frame)] /\ chan \in [SinkId -> Seq(Frame)]
      BY <1>1 DEF TypeOK
    <3>2. chan'[id] = Append(chan[id], frame) /\ \A i \in SinkId \ {id} : chan'[i] = chan[i]
      BY <3>1, <2>1, <2>2
    <3> QED BY <3>2, <2>7, AppendProperties
  <2>9. ASSUME NEW i \in SinkId, NEW k \in DOMAIN chan'[i], IsDelivery(chan'[i][k])
        PROVE  /\ chan'[i][k].seq \in 0 .. Len(outcome') - 1
               /\ outcome'[chan'[i][k].seq + 1].status = "delivered"
               /\ outcome'[chan'[i][k].seq + 1].to = i
    <3>1. CASE i = id /\ k = Len(chan[id]) + 1
      BY <3>1, <2>3, <2>5, <2>7, <2>8
    <3>2. CASE ~(i = id /\ k = Len(chan[id]) + 1)
      <4>1. k \in DOMAIN chan[i] /\ chan'[i][k] = chan[i][k]
        BY <3>2, <2>7, <2>8, <2>9
      <4>2. /\ chan[i][k].seq \in 0 .. Len(outcome) - 1 /\ chan[i][k].seq < s
            /\ outcome[chan[i][k].seq + 1].status = "delivered"
            /\ outcome[chan[i][k].seq + 1].to = i
        BY <4>1, <2>6, <2>9, <1>1 DEF DeliveriesInOrder
      <4>3. PICK t \in 0 .. Len(outcome) - 1 : t = chan[i][k].seq /\ t # s
        BY <4>2, <2>3
      <4>4. outcome'[t + 1] = outcome[t + 1]
        BY <4>3, <2>5
      <4>5. outcome'[chan[i][k].seq + 1] = outcome[chan[i][k].seq + 1]
        BY <4>3, <4>4
      <4> QED BY <4>1, <4>2, <4>5, <2>5
    <3> QED BY <3>1, <3>2
  <2>10. ASSUME NEW i \in SinkId, NEW j \in DOMAIN chan'[i], NEW k \in DOMAIN chan'[i],
                j < k, IsDelivery(chan'[i][j]), IsDelivery(chan'[i][k])
         PROVE  chan'[i][j].seq < chan'[i][k].seq
    <3>1. CASE i = id /\ k = Len(chan[id]) + 1
      <4>1. j \in DOMAIN chan[i] /\ chan'[i][j] = chan[i][j]
        BY <3>1, <2>7, <2>8, <2>10
      <4> QED BY <4>1, <3>1, <2>6, <2>7, <2>8, <2>10
    <3>2. CASE ~(i = id /\ k = Len(chan[id]) + 1)
      <4>1. /\ j \in DOMAIN chan[i] /\ chan'[i][j] = chan[i][j]
            /\ k \in DOMAIN chan[i] /\ chan'[i][k] = chan[i][k]
        BY <3>2, <2>7, <2>8, <2>10
      <4> QED BY <4>1, <2>10, <1>1 DEF DeliveriesInOrder
    <3> QED BY <3>1, <3>2
  <2> QED BY <2>9, <2>10 DEF FramesAccepted, DeliveriesInOrder
<1> QED BY <1>2, <1>3

\* Every step keeps the channels and the history in order.
LEMMA OrderStep ==
  ASSUME OrderInv, [Next]_vars
  PROVE  OrderInv'
<1>1. /\ IInv' /\ TypeOK' /\ [Ordered!Next]_outcome /\ HistoryOrdered'
      /\ TypeOK /\ chan \in [SinkId -> Seq(Frame)]
  BY NextStep, StepRefines, HistoryProperties DEF OrderInv, IInv, TypeOK
<1>2. CASE \E u \in Utterance : Push(u)
  BY <1>1, <1>2, PushKeeps DEF OrderInv
<1>3. CASE chan' = chan
  BY <1>1, <1>3, ChannelKeeps DEF OrderInv
<1>4. CASE \E id \in SinkId : Forward(id) \/ DropReceiver(id)
  <2>1. \A id \in SinkId : \/ chan'[id] = chan[id]
                           \/ chan'[id] = <<>>
                           \/ chan[id] # <<>> /\ chan'[id] = Tail(chan[id])
    BY <1>1, <1>4 DEF Forward, DropReceiver
  <2> QED BY <2>1, <1>1, ChannelKeeps DEF OrderInv
<1>5. CASE DiscardStreaming \/ ReplayLast
  <2>1. \/ chan' = chan
        \/ \E id \in SinkId : \E frame \in Frame :
             ~IsDelivery(frame) /\ Send(id, frame)
    <3>1. CASE DiscardStreaming
      <4>1. [kind |-> "Erase", seq |-> NoSeq] \in Frame
            /\ ~IsDelivery([kind |-> "Erase", seq |-> NoSeq])
        BY DEF Frame, IsDelivery
      <4>2. \/ chan' = chan
            \/ /\ Send(streaming[1], [kind |-> "Erase", seq |-> NoSeq])
               /\ streaming[1] \in conns
        BY <3>1 DEF DiscardStreaming
      <4> QED BY <4>1, <4>2, <1>1 DEF TypeOK
    <3>2. CASE ReplayLast
      <4>1. Last(cache) \in Nat
        BY <3>2, <1>1, LenProperties, EmptySeq DEF TypeOK, ReplayLast, Last
      <4>2. [kind |-> "Replay", seq |-> Last(cache)] \in Frame
            /\ ~IsDelivery([kind |-> "Replay", seq |-> Last(cache)])
        BY <4>1 DEF Frame, IsDelivery
      <4> QED BY <4>2, <3>2, <1>1 DEF TypeOK, ReplayLast
    <3> QED BY <1>5, <3>1, <3>2
  <2>2. \A id \in SinkId :
          \/ chan'[id] = chan[id]
          \/ \E frame \in Frame : ~IsDelivery(frame) /\ chan'[id] = Append(chan[id], frame)
    BY <2>1, <1>1 DEF Send
  <2> QED BY <2>2, <1>1, ChannelKeeps DEF OrderInv
<1>6. \/ \E u \in Utterance : Push(u)
      \/ chan' = chan
      \/ \E id \in SinkId : Forward(id) \/ DropReceiver(id)
      \/ DiscardStreaming \/ ReplayLast
  <2>1. ASSUME NEW u \in Utterance, Trigger(u) \/ TaskStep(u), ~Push(u)
        PROVE  chan' = chan
    BY <2>1 DEF Trigger, TaskStep, StopAndEnqueue, TakeStreaming, EndContinuous,
         Transcribed, DroppedEmpty, TranscriptionPanics, Reconciled, ReconciledEmpty, DeliverAssembled,
         EnterDrain, Peek, Store, Settle, ReleaseDrain
  <2>2. ASSUME NEW id \in SinkId, RegisterSink(id) \/ NoticeExit(id) \/ DeregisterSink(id)
        PROVE  chan' = chan
    BY <2>2 DEF RegisterSink, NoticeExit, DeregisterSink
  <2>3. CASE StartStreaming \/ StartContinuous \/ DropContinuous \/ Exhausted
             \/ UNCHANGED vars
    BY <2>3 DEF StartStreaming, StartContinuous, DropContinuous, Exhausted, vars
  <2> QED BY <2>1, <2>2, <2>3 DEF Next, Session, SinkStep
<1> QED BY <1>2, <1>3, <1>4, <1>5, <1>6

\* A wrapper reads its utterances in the order of their numbers, each at most
\* once, and only those that were delivered to it.
THEOREM WrappersReadInOrder == Spec => []DeliveriesInOrder
<1>1. Init => OrderInv
  <2> SUFFICES ASSUME Init PROVE OrderInv
    OBVIOUS
  <2> QED BY InitIInv DEF Init, OrderInv, HistoryOrdered, FramesAccepted, DeliveriesInOrder
<1>2. OrderInv => DeliveriesInOrder
  BY DEF OrderInv
<1> QED BY <1>1, <1>2, OrderStep, PTL DEF Spec

=============================================================================
