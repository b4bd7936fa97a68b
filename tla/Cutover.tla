------------------------------ MODULE Cutover ------------------------------
(***************************************************************************)
(* A tracker observed by any caller that respects the stream: a sequence   *)
(* number always carries the same event, but events may arrive in any      *)
(* order, more than once, and before the cutover (a caller that merges     *)
(* several sources does that).                                             *)
(***************************************************************************)
EXTENDS CutoverTracker, FiniteSets

CONSTANTS
    EventId,
    MaxSeq,       \* bound: length of the stream
    MaxInserts    \* bound: how many ids are ever remembered

ASSUME CutoverAssumption == MaxSeq \in Nat /\ MaxInserts \in Nat

VARIABLES
    carries,    \* the event a sequence number carries
    tracker,
    boundary,   \* history: the boundary of the first cutover, or -1
    inserted,   \* history: the ids remembered, in order
    replayed,   \* history: the ids emitted in the replay
    emitted     \* history: the live events emitted, as sequence numbers

cutoverVars == <<carries, tracker, boundary, inserted, replayed, emitted>>

CutoverTypeOK ==
    /\ carries \in [1..MaxSeq -> EventId]
    /\ tracker \in [phase : {"replay", "live"}, ring : Seq(EventId), last : 0..MaxSeq]
    /\ boundary \in -1..MaxSeq
    /\ inserted \in Seq(EventId)
    /\ replayed \in SUBSET EventId
    /\ emitted \in Seq(1..MaxSeq)

CutoverInit ==
    /\ carries \in [1..MaxSeq -> EventId]
    /\ tracker = NewTracker
    /\ boundary = -1
    /\ inserted = <<>>
    /\ replayed = {}
    /\ emitted = <<>>

\* The ids an observation added to the ring.
Inserted(old, new, id) == IF new.ring = old.ring THEN <<>> ELSE <<id>>

Replay(id) ==
    LET seen == ObserveReplay(tracker, id)
    IN  /\ tracker' = seen.tracker
        /\ inserted' = inserted \o Inserted(tracker, tracker', id)
        /\ replayed' = IF seen.emit THEN replayed \cup {id} ELSE replayed
        /\ UNCHANGED <<carries, boundary, emitted>>

GoLive(seq) ==
    /\ tracker' = CutoverToLive(tracker, seq)
    /\ boundary' = IF boundary = -1 THEN seq ELSE boundary
    /\ UNCHANGED <<carries, inserted, replayed, emitted>>

Live(seq) ==
    LET seen == ObserveLive(tracker, carries[seq], seq)
    IN  /\ tracker' = seen.tracker
        /\ inserted' = inserted \o Inserted(tracker, tracker', carries[seq])
        /\ emitted' = IF seen.emit THEN Append(emitted, seq) ELSE emitted
        /\ UNCHANGED <<carries, boundary, replayed>>

CutoverNext ==
    /\ Len(inserted) < MaxInserts
    /\ \/ \E id \in EventId : Replay(id)
       \/ \E seq \in 0..MaxSeq : GoLive(seq)
       \/ \E seq \in 1..MaxSeq : Live(seq)

CutoverSpec == CutoverInit /\ [][CutoverNext]_cutoverVars

-----------------------------------------------------------------------------
(* Properties.                                                             *)

\* Live events are emitted in strictly increasing order, only after the
\* cutover and only beyond its boundary, however they arrive: a client never
\* applies an event its snapshot already contains, or an older one after a
\* newer one.
EmittedInOrder ==
    /\ emitted # <<>> => boundary # -1
    /\ \A i \in DOMAIN emitted : emitted[i] > boundary
    /\ \A i, j \in DOMAIN emitted : i < j => emitted[i] < emitted[j]

\* An id is taken for new a second time only after SeenCapacity other ids have
\* pushed it out, and the ring never outgrows its capacity.
RingIsRecentWindow ==
    /\ Len(tracker.ring) <= SeenCapacity
    /\ \A i, j \in DOMAIN inserted :
         (i < j /\ inserted[i] = inserted[j]) => j - i > SeenCapacity

\* The ring blocks only what the client has: an event that was skipped as out
\* of order can still be emitted when the stream delivers it again in order.
RingHoldsOnlyEmitted ==
    \A i \in DOMAIN tracker.ring :
        tracker.ring[i] \in replayed \cup {carries[emitted[k]] : k \in DOMAIN emitted}

\* The tracker passes each live event on in order, beyond the boundary, and takes for a
\* duplicate only what the client got within the last SeenCapacity insertions.
TrackerIsSound == EmittedInOrder /\ RingIsRecentWindow /\ RingHoldsOnlyEmitted
=============================================================================
