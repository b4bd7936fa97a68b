--------------------------- MODULE CutoverTracker ---------------------------
(***************************************************************************)
(* The replay-to-live state machine of one subscription, as functions on   *)
(* its value (src/src/realtime/cutover.rs).  The ring of seen event ids is *)
(* a queue without repetitions; the hash set the code keeps beside it has  *)
(* the same elements.                                                      *)
(***************************************************************************)
EXTENDS Integers, Sequences

CONSTANT SeenCapacity   \* capacity of the ring (1024 by default)

ASSUME SeenCapacityAssumption == SeenCapacity \in Nat \ {0}

NewTracker == [phase |-> "replay", ring |-> <<>>, last |-> 0]

Seen(t, id) == \E i \in DOMAIN t.ring : t.ring[i] = id

\* Variant: evicts as soon as the ring is one short of its capacity.
Remember_EarlyEviction(t, id) ==
    [t EXCEPT !.ring = IF Len(@) >= SeenCapacity - 1 THEN Append(Tail(@), id)
                                                     ELSE Append(@, id)]

\* BoundedSet.insert of an id that is not in the set: evict the oldest first.
Remember(t, id) ==
    [t EXCEPT !.ring = IF Len(@) >= SeenCapacity THEN Append(Tail(@), id)
                                                 ELSE Append(@, id)]

\* Each observation returns the tracker and whether the event is emitted.
Emit(t) == [tracker |-> t, emit |-> TRUE]
Skip(t) == [tracker |-> t, emit |-> FALSE]

ObserveReplay(t, id) == IF Seen(t, id) THEN Skip(t) ELSE Emit(Remember(t, id))

\* Variant: the boundary is the first live sequence instead of the last replayed.
CutoverToLive_FirstLive(t, lastReplaySeq) ==
    IF t.phase = "replay"
    THEN [t EXCEPT !.phase = "live", !.last = lastReplaySeq + 1]
    ELSE t

\* A second cutover changes nothing.
CutoverToLive(t, lastReplaySeq) ==
    IF t.phase = "replay"
    THEN [t EXCEPT !.phase = "live", !.last = lastReplaySeq]
    ELSE t

\* Variant: without the guard on the phase.
ObserveLive_AnyPhase(t, id, seq) ==
    IF seq <= t.last \/ Seen(t, id) THEN Skip(t)
    ELSE Emit([Remember(t, id) EXCEPT !.last = seq])

\* Variant: the first sequence after the last one counts as seen.
ObserveLive_SkipsNext(t, id, seq) ==
    IF t.phase = "replay" \/ seq <= t.last + 1 \/ Seen(t, id) THEN Skip(t)
    ELSE Emit([Remember(t, id) EXCEPT !.last = seq])

\* Variant: the id is remembered before the order is checked.
ObserveLive_RememberFirst(t, id, seq) ==
    IF t.phase = "replay" \/ Seen(t, id) THEN Skip(t)
    ELSE IF seq <= t.last THEN Skip(Remember(t, id))
    ELSE Emit([Remember(t, id) EXCEPT !.last = seq])

\* A duplicate id does not move the last sequence forward.
ObserveLive(t, id, seq) ==
    IF t.phase = "replay" \/ seq <= t.last \/ Seen(t, id) THEN Skip(t)
    ELSE Emit([Remember(t, id) EXCEPT !.last = seq])
=============================================================================
