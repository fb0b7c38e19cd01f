---------------------------- MODULE DeliveryQueue ----------------------------
(***************************************************************************)
(* The pure ordering core of ghostty-voice-core (queue.rs): a FIFO of      *)
(* utterances, each pending until its transcript is ready.  A queue is a   *)
(* record: items, front first, and next, the number the next utterance     *)
(* gets.  An utterance's text is never looked at here, so an item only     *)
(* says whether it is ready; the text of utterance s is "the transcript of *)
(* s" wherever it travels.                                                 *)
(***************************************************************************)
EXTENDS Integers, SequencesExt

Item == [seq : Nat, ready : BOOLEAN]

Queue == [items : Seq(Item), next : Nat]

EmptyQueue == [items |-> <<>>, next |-> 0]

\* The sequence numbers still in the queue.
Queued(q) == {q.items[i].seq : i \in DOMAIN q.items}

\* Utterance s is in the queue and its transcript is not ready.
Pending(q, s) == \E i \in DOMAIN q.items : q.items[i].seq = s /\ ~q.items[i].ready

\* In the order of numbering, and no number used that was not given.
Sorted(q) ==
  /\ \A i, j \in DOMAIN q.items : i < j => q.items[i].seq < q.items[j].seq
  /\ \A i \in DOMAIN q.items : q.items[i].seq < q.next

\* The caller reads the number the new utterance gets in q.next.
Enqueue(q) ==
  [items |-> Append(q.items, [seq |-> q.next, ready |-> FALSE]),
   next  |-> q.next + 1]

\* Marking an utterance that already left the queue changes nothing.
SetReady(q, s) ==
  [q EXCEPT !.items =
     [i \in DOMAIN q.items |->
        IF q.items[i].seq = s THEN [q.items[i] EXCEPT !.ready = TRUE]
                              ELSE q.items[i]]]

PositionOf(q, s) == CHOOSE i \in DOMAIN q.items : q.items[i].seq = s

\* retain(seq # s); numbers are unique, so at most one item goes.
Resolve(q, s) ==
  IF s \in Queued(q)
  THEN [q EXCEPT !.items = RemoveAt(q.items, PositionOf(q, s))]
  ELSE q

\* next_to_type is Some exactly when the front is ready: strict order, a ready
\* utterance behind a pending front waits.
HeadReady(q) == q.items # <<>> /\ q.items[1].ready

\* Mutant of HeadSeq: the newest utterance is typed first.
LastSeq(q) == q.items[Len(q.items)].seq

HeadSeq(q) == q.items[1].seq

=============================================================================
