--------------------------- MODULE OrderedDelivery ---------------------------
(***************************************************************************)
(* What the daemon promises about delivery, with no queue, no tasks and no *)
(* channels: utterances are accepted in a row, each with the sink it is    *)
(* meant for, and each reaches at most one terminal state.  An utterance   *)
(* may be dropped (no speech) at any time, but it is delivered or held     *)
(* only when every utterance accepted before it is terminal, and it is     *)
(* delivered only to the sink it was accepted for.                         *)
(***************************************************************************)
EXTENDS Integers, Sequences

CONSTANTS Sink,     \* the sinks there can be
          NoSink    \* meant for nobody

VARIABLE outcome    \* what became of each accepted utterance, oldest first

Target == Sink \cup {NoSink}

Outcome == [target : Target,
            status : {"waiting", "dropped", "delivered", "held"},
            to     : Target]

Fresh(target) == [target |-> target, status |-> "waiting", to |-> NoSink]

Init == outcome = <<>>

Waiting(i) == outcome[i].status = "waiting"

\* Everything accepted before the i-th utterance is terminal.
MayType(i) == Waiting(i) /\ \A j \in 1 .. i-1 : ~Waiting(j)

Accept(target) == outcome' = Append(outcome, Fresh(target))

Become(i, status, to) ==
  outcome' = [outcome EXCEPT ![i] = [target |-> @.target, status |-> status, to |-> to]]

Drop(i) == Waiting(i) /\ Become(i, "dropped", NoSink)

Deliver(i) ==
  /\ MayType(i)
  /\ outcome[i].target # NoSink
  /\ Become(i, "delivered", outcome[i].target)

Hold(i) == MayType(i) /\ Become(i, "held", NoSink)

Next ==
  \/ \E target \in Target : Accept(target)
  \/ \E i \in DOMAIN outcome : Drop(i) \/ Deliver(i) \/ Hold(i)

Spec == Init /\ [][Next]_outcome

=============================================================================
