----------------------------- MODULE SinkRegistry -----------------------------
(***************************************************************************)
(* The tracker of wrapper sinks of ghostty-voice-core (sink.rs).  live      *)
(* holds the ids of the registered wrappers, oldest first; active is the    *)
(* one deliveries bind to now, NoSink when none is registered; next is the  *)
(* id the next wrapper gets.                                                *)
(***************************************************************************)
EXTENDS Integers, SequencesExt

CONSTANT NoSink       \* Option::None where the code has an Option<SinkId>

ASSUME NoSinkAssumption == NoSink \notin Int

Registry == [live : Seq(Nat), active : Nat \cup {NoSink}, next : Nat]

\* Ids grow in registration order, and the active sink is the newest survivor.
WellFormed(r) ==
  /\ \A i, j \in DOMAIN r.live : i < j => r.live[i] < r.live[j]
  /\ \A i \in DOMAIN r.live : r.live[i] < r.next
  /\ r.active = IF r.live = <<>> THEN NoSink ELSE Last(r.live)

NewRegistry == [live |-> <<>>, active |-> NoSink, next |-> 0]

IsLive(r, id) == id \in Range(r.live)

\* A new wrapper becomes the active sink at once.
Register(r) ==
  [live |-> Append(r.live, r.next), active |-> r.next, next |-> r.next + 1]

Survivors(r, id) ==
  IF IsLive(r, id)
  THEN RemoveAt(r.live, CHOOSE i \in DOMAIN r.live : r.live[i] = id)
  ELSE r.live

\* Mutant of Deregister: the wrapper registered just before takes over.
DeregisterToPredecessor(r, id) ==
  [r EXCEPT !.live = Survivors(r, id),
            !.active = IF r.active # id THEN r.active ELSE id - 1]

\* Only the departure of the active wrapper hands over, to the newest survivor.
Deregister(r, id) ==
  LET live == Survivors(r, id) IN
  [live   |-> live,
   active |-> IF r.active # id THEN r.active
              ELSE IF live = <<>> THEN NoSink ELSE Last(live),
   next   |-> r.next]

\* Mutant of RouteOf: an utterance whose sink died follows the active one.
RouteToActive(r, bound) ==
  IF bound # NoSink /\ IsLive(r, bound) THEN bound ELSE r.active

\* Route::Wrapper(bound) while that wrapper lives, otherwise Route::Held
\* (NoSink): never the wrapper that happens to be active now.
RouteOf(r, bound) ==
  IF bound # NoSink /\ IsLive(r, bound) THEN bound ELSE NoSink

=============================================================================
