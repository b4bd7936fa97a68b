--------------------------- MODULE BoardStream_proofs ---------------------------
(***************************************************************************)
(* SubscribeBoard loses nothing, for any events, streams and channels, any *)
(* order of the feed, any lag, and however the slow paths of the registry  *)
(* overlap.  The argument: what a fresh client knows covers the feed up to *)
(* three positions, the boundary of its snapshot, the cursor of its        *)
(* receiver and the last sequence of its tracker, and the ring of the      *)
(* tracker holds only what the client knows.                               *)
(***************************************************************************)
EXTENDS BoardStream, Registry_proofs

\* Only committed events are fed.
FedIsCommitted == \A i \in DOMAIN feed : feed[i] \in committed

\* The first message that is retained is at most the next one.
FirstIsNear == first - 1 <= Len(feed)

Tracker == [phase : {"replay", "live"}, ring : Seq(Event), last : 0..Len(feed)]

StreamTypes == TypeOK /\ tracker \in [Stream -> Tracker] /\ FedIsCommitted /\ FirstIsNear

\* Before its handle is open a stream has not begun its handler.
StartsOpen == \A s \in Stream : at[s] # "open" => stage[s] = "start"

\* The client knows all events of the feed up to n.
KnowsUpTo(s, n) == \A i \in 1..n : feed[i] \in known[s]

Ring(s) == {tracker[s].ring[i] : i \in DOMAIN tracker[s].ring}

\* What a fresh stream knows once the boundary is read, and when it is live.
SnapshotCovers ==
    \A s \in Stream : since[s] = 0 =>
        /\ stage[s] # "start" => KnowsUpTo(s, cursor[s]) /\ KnowsUpTo(s, boundary[s])
        /\ stage[s] # "live" => tracker[s] = NewTracker
        /\ stage[s] = "live" => /\ tracker[s].phase = "live"
                                /\ KnowsUpTo(s, tracker[s].last)
                                /\ Ring(s) \subseteq known[s]

StreamInv ==
    /\ RegBase
    /\ StreamTypes
    /\ StartsOpen
    /\ SnapshotCovers

-----------------------------------------------------------------------------
(* The stream on top of the registry.                                      *)

\* Every step of the stream is one of the registry, or leaves it alone.
LEMMA StepsOfRegistry == [Next]_vars => [RegNext]_regVars
<1> SUFFICES ASSUME [Next]_vars PROVE [RegNext]_regVars
  OBVIOUS
<1>1. ASSUME NEW e \in Event, CommitEvent(e) \/ Publish(e) PROVE UNCHANGED regVars
  BY <1>1 DEF CommitEvent, Publish
<1>2. ASSUME Expire PROVE UNCHANGED regVars
  BY <1>2 DEF Expire
<1>3. ASSUME RegistryOnly PROVE RegNext
  BY <1>3 DEF RegistryOnly, RegNext
<1>4. ASSUME NEW c \in Channel, Pump(c) PROVE UNCHANGED regVars
  BY <1>4 DEF Pump
<1>5. ASSUME NEW s \in Stream, NEW k \in Key, NEW token \in 0..Len(feed), Subscribe(s, k, token)
      PROVE  RegNext
  BY <1>5 DEF Subscribe, RegNext
<1>6. ASSUME NEW s \in Stream, NEW c \in Channel, OpenChannel(s, c) PROVE RegNext
  BY <1>6 DEF OpenChannel, RegNext
<1>7. ASSUME NEW s \in Stream, NEW seq \in 0..Len(feed), ReadBoundary(s, seq) PROVE UNCHANGED regVars
  BY <1>7 DEF ReadBoundary
<1>8. ASSUME NEW s \in Stream, NEW seen \in SUBSET committed, ReadContent(s, seen)
      PROVE  UNCHANGED regVars
  BY <1>8 DEF ReadContent
<1>9. ASSUME NEW s \in Stream, JoinChannel(s) \/ InsertChannel(s) \/ Leave(s) PROVE RegNext
  BY <1>9 DEF JoinChannel, InsertChannel, Leave, RegNext
<1>10. ASSUME NEW s \in Stream, ResumeAt(s) \/ Receive(s) PROVE UNCHANGED regVars
  BY <1>10 DEF ResumeAt, Receive
<1> QED
  BY <1>1, <1>2, <1>3, <1>4, <1>5, <1>6, <1>7, <1>8, <1>9, <1>10 DEF Next, vars

\* BoardSubscriberRegistry as SubscribeBoard uses it: whatever holds of the registry by itself
\* holds of it under its streams.
THEOREM StreamImplementsRegistry == Spec => RegSpec
<1>1. Init => RegInit
  BY DEF Init
<1> QED BY <1>1, StepsOfRegistry, PTL DEF Spec, RegSpec

-----------------------------------------------------------------------------
(* The tracker of a stream.                                                *)

\* Seen, as membership in the ring.
LEMMA SeenIsInRing ==
    ASSUME NEW s \in Stream, NEW e
    PROVE  Seen(tracker[s], e) <=> e \in Ring(s)
BY DEF Seen, Ring

\* An entry of a sequence is one of its values.
LEMMA EntryOfSeq == ASSUME NEW S, NEW q \in Seq(S) PROVE \A i \in DOMAIN q : q[i] \in S
OBVIOUS

\* Remember keeps the type and adds nothing but the id to the ring.
LEMMA RememberAdds ==
    ASSUME TypeOK, NEW t \in Tracker, NEW id \in Event
    PROVE  /\ Remember(t, id) \in Tracker
           /\ Remember(t, id).phase = t.phase
           /\ \A i \in DOMAIN Remember(t, id).ring :
                 \/ Remember(t, id).ring[i] = id
                 \/ \E j \in DOMAIN t.ring : Remember(t, id).ring[i] = t.ring[j]
<1>1. t.ring \in Seq(Event) /\ Len(t.ring) \in Nat /\ DOMAIN t.ring = 1..Len(t.ring)
  BY DEF Tracker
<1>2. PICK new : /\ new = (IF Len(t.ring) >= SeenCapacity THEN Append(Tail(t.ring), id)
                                                       ELSE Append(t.ring, id))
                 /\ Remember(t, id) = [t EXCEPT !.ring = new]
  BY DEF Remember
<1>3. /\ new \in Seq(Event)
      /\ \A i \in DOMAIN new : new[i] = id \/ \E j \in DOMAIN t.ring : new[i] = t.ring[j]
  <2>1. CASE Len(t.ring) >= SeenCapacity
    <3>1. new = Append(Tail(t.ring), id) /\ t.ring # << >>
      BY <1>1, <1>2, <2>1, SeenCapacityAssumption
    <3>2. /\ Tail(t.ring) \in Seq(Event) /\ Len(Tail(t.ring)) = Len(t.ring) - 1
          /\ \A i \in 1..(Len(t.ring) - 1) : Tail(t.ring)[i] = t.ring[i + 1]
      BY <1>1, <3>1
    <3>3. new \in Seq(Event) /\ DOMAIN new = 1..Len(t.ring)
      BY <1>1, <3>1, <3>2
    <3>4. ASSUME NEW i \in 1..Len(t.ring), i # Len(t.ring)
          PROVE  i + 1 \in DOMAIN t.ring /\ new[i] = t.ring[i + 1]
      BY <1>1, <3>1, <3>2, <3>4
    <3>5. new[Len(t.ring)] = id
      BY <1>1, <3>1, <3>2
    <3> QED BY <3>3, <3>4, <3>5
  <2>2. CASE ~(Len(t.ring) >= SeenCapacity)
    <3>1. new = Append(t.ring, id)
      BY <1>2, <2>2
    <3>2. /\ new \in Seq(Event) /\ DOMAIN new = 1..(Len(t.ring) + 1)
          /\ new[Len(t.ring) + 1] = id
          /\ \A i \in 1..Len(t.ring) : new[i] = t.ring[i]
      BY <1>1, <3>1
    <3>3. \A i \in DOMAIN new : i = Len(t.ring) + 1 \/ i \in DOMAIN t.ring
      BY <1>1, <3>2
    <3> QED BY <1>1, <3>2, <3>3
  <2> QED BY <2>1, <2>2
<1>4. /\ Remember(t, id) \in Tracker /\ Remember(t, id).ring = new
      /\ Remember(t, id).phase = t.phase
  BY <1>2, <1>3 DEF Tracker
<1> QED BY <1>3, <1>4

\* observe_live of a live tracker: skipped without a trace, or emitted and remembered.
LEMMA ObserveLiveDoes ==
    ASSUME TypeOK, NEW t \in Tracker, NEW seq \in 1..Len(feed)
    PROVE  LET seen == ObserveLive(t, feed[seq], seq)
           IN  /\ seen.tracker \in Tracker /\ seen.tracker.phase = t.phase
               /\ ~seen.emit => /\ seen.tracker = t
                                /\ t.phase = "replay" \/ seq <= t.last \/ Seen(t, feed[seq])
               /\ seen.emit => /\ seen.tracker.last = seq
                               /\ \A i \in DOMAIN seen.tracker.ring :
                                     \/ seen.tracker.ring[i] = feed[seq]
                                     \/ \E j \in DOMAIN t.ring : seen.tracker.ring[i] = t.ring[j]
<1> DEFINE id == feed[seq]
<1>1. id \in Event
  BY EntryOfSeq DEF TypeOK
<1> HIDE DEF id
<1>2. CASE t.phase = "replay" \/ seq <= t.last \/ Seen(t, id)
  BY <1>2 DEF ObserveLive, Skip, id
<1>3. CASE ~(t.phase = "replay" \/ seq <= t.last \/ Seen(t, id))
  <2>1. PICK r \in Tracker : r = Remember(t, id)
    BY <1>1, RememberAdds
  <2>2. /\ r.phase = t.phase
        /\ \A i \in DOMAIN r.ring : r.ring[i] = id \/ \E j \in DOMAIN t.ring : r.ring[i] = t.ring[j]
    BY <1>1, <2>1, RememberAdds
  <2>3. PICK n : n = [r EXCEPT !.last = seq]
    OBVIOUS
  <2>4. /\ n \in Tracker /\ n.phase = r.phase /\ n.ring = r.ring /\ n.last = seq
    <3>1. seq \in 0..Len(feed)
      BY DEF TypeOK
    <3> QED BY <2>3, <3>1 DEF Tracker
  <2>5. ObserveLive(t, id, seq) = Emit(n)
    BY <1>3, <2>1, <2>3 DEF ObserveLive
  <2> QED BY <2>2, <2>4, <2>5 DEF Emit, id
<1> QED BY <1>2, <1>3

-----------------------------------------------------------------------------
(* Types.                                                                  *)

\* Everything behind the registry, for a step that leaves the feed alone.
ClientTypes ==
    /\ stage \in [Stream -> {"start", "boundary", "live"}]
    /\ since \in [Stream -> 0..Len(feed)]
    /\ boundary \in [Stream -> 0..Len(feed)]
    /\ cursor \in [Stream -> 0..Len(feed)]
    /\ tracker \in [Stream -> Tracker]
    /\ known \in [Stream -> SUBSET committed]

FeedTypes ==
    /\ committed \in SUBSET Event
    /\ feed \in Seq(Event)
    /\ first \in 1..(MaxExpired + 1)
    /\ pos \in [Channel -> 0..Len(feed)]
    /\ FedIsCommitted /\ FirstIsNear

\* The types of a stream in two halves.
LEMMA TypesSplit == StreamTypes <=> RegTypeOK /\ ClientTypes /\ FeedTypes
BY DEF StreamTypes, TypeOK, ClientTypes, FeedTypes, Tracker

\* An empty feed and no streams.
LEMMA InitTypes == Init => ClientTypes /\ FeedTypes
<1> SUFFICES ASSUME Init PROVE ClientTypes /\ FeedTypes
  OBVIOUS
<1>1. NewTracker \in Tracker
  BY DEF NewTracker, Tracker, Init
<1>2. ClientTypes
  BY <1>1 DEF Init, ClientTypes
<1>3. FeedTypes
  BY StreamAssumption DEF Init, FeedTypes, FedIsCommitted, FirstIsNear
<1> QED BY <1>2, <1>3

\* A step that leaves the feed and the handlers alone.
LEMMA SameTypes ==
    ASSUME StreamTypes, UNCHANGED <<feedVars, pos, clientVars>>
    PROVE  ClientTypes' /\ FeedTypes'
BY TypesSplit DEF feedVars, clientVars, ClientTypes, FeedTypes, Tracker, FedIsCommitted, FirstIsNear

\* Commits, the dispatcher and retention.
LEMMA FeedKeepsTypes ==
    ASSUME StreamTypes, (\E e \in Event : CommitEvent(e) \/ Publish(e)) \/ Expire
    PROVE  ClientTypes' /\ FeedTypes'
<1>1. ClientTypes /\ FeedTypes
  BY TypesSplit
<1>2. ASSUME NEW e \in Event, CommitEvent(e) PROVE ClientTypes' /\ FeedTypes'
  BY <1>1, <1>2 DEF CommitEvent, clientVars, ClientTypes, FeedTypes, Tracker, FedIsCommitted, FirstIsNear
<1>3. ASSUME NEW e \in Event, Publish(e) PROVE ClientTypes' /\ FeedTypes'
  <2>1. /\ feed' \in Seq(Event) /\ Len(feed') = Len(feed) + 1 /\ Len(feed) \in Nat
        /\ DOMAIN feed' = 1..(Len(feed) + 1)
        /\ feed'[Len(feed) + 1] = e /\ \A i \in DOMAIN feed : feed'[i] = feed[i]
        /\ DOMAIN feed = 1..Len(feed)
    BY <1>1, <1>3 DEF Publish, FeedTypes
  <2>2. 0..Len(feed) \subseteq 0..Len(feed')
    BY <2>1
  <2>3. \A i \in DOMAIN feed' : i = Len(feed) + 1 \/ i \in DOMAIN feed
    BY <2>1
  <2>4. ClientTypes'
    BY <1>1, <1>3, <2>2 DEF Publish, clientVars, ClientTypes, Tracker
  <2>5. FeedTypes'
    BY <1>1, <1>3, <2>1, <2>2, <2>3, StreamAssumption DEF Publish, FeedTypes, FedIsCommitted, FirstIsNear
  <2> QED BY <2>4, <2>5
<1>4. ASSUME Expire PROVE ClientTypes' /\ FeedTypes'
  <2>1. ClientTypes'
    BY <1>1, <1>4 DEF Expire, clientVars, ClientTypes, Tracker
  <2>2. FeedTypes'
    BY <1>1, <1>4, StreamAssumption DEF Expire, FeedTypes, FedIsCommitted, FirstIsNear
  <2> QED BY <2>1, <2>2
<1> QED BY <1>2, <1>3, <1>4

\* The registry steps of a stream.
LEMMA JoiningKeepsTypes ==
    ASSUME StreamTypes, RegTypeOK', NEW s \in Stream,
           \/ \E k \in Key, token \in 0..Len(feed) : Subscribe(s, k, token)
           \/ \E c \in Channel : OpenChannel(s, c)
           \/ JoinChannel(s) \/ InsertChannel(s) \/ Leave(s)
    PROVE  ClientTypes' /\ FeedTypes'
<1>1. ClientTypes /\ FeedTypes /\ RegTypeOK
  BY TypesSplit
<1>2. ASSUME NEW token \in 0..Len(feed), Fresh(s, token), UNCHANGED <<feedVars, pos>>
      PROVE  ClientTypes' /\ FeedTypes'
  <2>1. NewTracker \in Tracker
    BY <1>1 DEF NewTracker, Tracker, FeedTypes
  <2>2. {feed[i] : i \in 1..token} \subseteq committed
    BY <1>1 DEF FeedTypes, FedIsCommitted
  <2>3. 0 \in 0..Len(feed)
    BY <1>1 DEF FeedTypes
  <2>4. /\ stage' \in [Stream -> {"start", "boundary", "live"}]
        /\ since' \in [Stream -> 0..Len(feed)]
        /\ boundary' \in [Stream -> 0..Len(feed)]
        /\ cursor' \in [Stream -> 0..Len(feed)]
    BY <1>1, <1>2, <2>3 DEF Fresh, ClientTypes
  <2>5. known' \in [Stream -> SUBSET committed]
    BY <1>1, <1>2, <2>2 DEF Fresh, ClientTypes
  <2>6. tracker' \in [Stream -> Tracker]
    BY <1>1, <1>2, <2>1 DEF Fresh, ClientTypes
  <2>7. ClientTypes'
    BY <1>2, <2>4, <2>5, <2>6 DEF ClientTypes, feedVars, Tracker
  <2>8. FeedTypes'
    BY <1>1, <1>2 DEF FeedTypes, feedVars, FedIsCommitted, FirstIsNear
  <2> QED BY <2>7, <2>8
<1>3. ASSUME NEW k \in Key, NEW token \in 0..Len(feed), Subscribe(s, k, token)
      PROVE  ClientTypes' /\ FeedTypes'
  BY <1>2, <1>3 DEF Subscribe
<1>4. ASSUME Leave(s) PROVE ClientTypes' /\ FeedTypes'
  BY <1>1, <1>2, <1>4 DEF Leave, FeedTypes
<1>5. ASSUME NEW c \in Channel, OpenChannel(s, c) PROVE ClientTypes' /\ FeedTypes'
  <2>1. first - 1 \in 0..Len(feed)
    BY <1>1, StreamAssumption DEF FeedTypes, FirstIsNear
  <2> QED BY <1>1, <1>5, <2>1 DEF OpenChannel, ClientTypes, FeedTypes, Tracker, feedVars, clientVars,
                                  FedIsCommitted, FirstIsNear
<1>6. ASSUME NEW c \in Channel, cursor' = [cursor EXCEPT ![s] = pos[c]],
             UNCHANGED <<feedVars, pos, stage, since, boundary, tracker, known>>
      PROVE  ClientTypes' /\ FeedTypes'
  BY <1>1, <1>6 DEF ClientTypes, FeedTypes, Tracker, feedVars, FedIsCommitted, FirstIsNear
<1>7. ASSUME JoinChannel(s) PROVE ClientTypes' /\ FeedTypes'
  <2>1. handle'[s] \in Channel
    BY <1>1, <1>7 DEF JoinChannel, Join, RegTypeOK
  <2> QED BY <1>6, <1>7, <2>1 DEF JoinChannel
<1>8. ASSUME InsertChannel(s) PROVE ClientTypes' /\ FeedTypes'
  <2>1. handle[s] \in Channel
    BY <1>1, <1>8 DEF InsertChannel, Insert, RegTypeOK
  <2> QED BY <1>6, <1>8, <2>1 DEF InsertChannel
<1> QED BY <1>3, <1>4, <1>5, <1>7, <1>8

\* The pump and the steps of the handler.
LEMMA HandlingKeepsTypes ==
    ASSUME StreamTypes,
           \/ \E c \in Channel : Pump(c)
           \/ \E s \in Stream :
                \/ \E seq \in 0..Len(feed) : ReadBoundary(s, seq)
                \/ \E seen \in SUBSET committed : ReadContent(s, seen)
                \/ ResumeAt(s) \/ Receive(s)
    PROVE  ClientTypes' /\ FeedTypes'
<1>1. ClientTypes /\ FeedTypes /\ RegTypeOK
  BY TypesSplit
<1> USE DEF Tracker, feedVars, clientVars, FedIsCommitted, FirstIsNear
<1>2. ASSUME NEW c \in Channel, Pump(c) PROVE ClientTypes' /\ FeedTypes'
  BY <1>1, <1>2, SMTT(40) DEF Pump, ClientTypes, FeedTypes
<1>3. ASSUME NEW s \in Stream, NEW seq \in 0..Len(feed), ReadBoundary(s, seq)
      PROVE  ClientTypes' /\ FeedTypes'
  BY <1>1, <1>3 DEF ReadBoundary, ClientTypes, FeedTypes
<1>4. ASSUME NEW s \in Stream, NEW n \in 0..Len(feed)
      PROVE  CutoverToLive(tracker[s], n) \in Tracker
  BY <1>1 DEF CutoverToLive, ClientTypes
<1>5. ASSUME NEW s \in Stream, NEW t \in Tracker, tracker' = [tracker EXCEPT ![s] = t],
             UNCHANGED feed
      PROVE  tracker' \in [Stream -> Tracker]
  BY <1>1, <1>5 DEF ClientTypes
<1>6. ASSUME NEW s \in Stream, NEW seen \in SUBSET committed, ReadContent(s, seen)
      PROVE  ClientTypes' /\ FeedTypes'
  <2>1. tracker' \in [Stream -> Tracker]
    BY <1>1, <1>4, <1>5, <1>6 DEF ReadContent, ClientTypes
  <2> QED BY <1>1, <1>6, <2>1 DEF ReadContent, ClientTypes, FeedTypes
<1>7. ASSUME NEW s \in Stream, ResumeAt(s) PROVE ClientTypes' /\ FeedTypes'
  <2>1. tracker' \in [Stream -> Tracker]
    BY <1>1, <1>4, <1>5, <1>7 DEF ResumeAt, ClientTypes
  <2> QED BY <1>1, <1>7, <2>1 DEF ResumeAt, ClientTypes, FeedTypes
<1>8. ASSUME NEW s \in Stream, Receive(s) PROVE ClientTypes' /\ FeedTypes'
  <2>1. PICK seq \in Nat : seq = cursor[s] + 1
    BY <1>1 DEF ClientTypes, FeedTypes
  <2>2. handle[s] \in Channel
    BY <1>1, <1>8 DEF Receive, Running, RegTypeOK
  <2>3. seq \in 1..Len(feed)
    BY <1>1, <1>8, <2>1, <2>2 DEF Receive, ClientTypes, FeedTypes
  <2>4. PICK o : o = ObserveLive(tracker[s], feed[seq], seq)
    OBVIOUS
  <2>5. o.tracker \in Tracker
    BY <1>1, <2>3, <2>4, ObserveLiveDoes DEF ClientTypes, StreamTypes
  <2>6. /\ cursor' = [cursor EXCEPT ![s] = seq] /\ tracker' = [tracker EXCEPT ![s] = o.tracker]
        /\ known' = [known EXCEPT ![s] = IF o.emit THEN @ \cup {feed[seq]} ELSE @]
        /\ UNCHANGED <<regVars, feedVars, pos, stage, since, boundary>>
    BY <1>8, <2>1, <2>4 DEF Receive
  <2>7. tracker' \in [Stream -> Tracker]
    BY <1>5, <2>5, <2>6
  <2>8. feed[seq] \in committed /\ seq \in 0..Len(feed)
    BY <1>1, <2>3 DEF FeedTypes
  <2>9. known' \in [Stream -> SUBSET committed]
    BY <1>1, <2>6, <2>8 DEF ClientTypes
  <2> QED BY <1>1, <2>6, <2>7, <2>8, <2>9 DEF ClientTypes, FeedTypes
<1> QED BY <1>2, <1>3, <1>6, <1>7, <1>8

\* The types, for every step.
LEMMA TypesStep == RegTypeOK' /\ StreamTypes /\ [Next]_vars => StreamTypes'
<1> SUFFICES ASSUME RegTypeOK', StreamTypes, [Next]_vars PROVE ClientTypes' /\ FeedTypes'
  BY DEF StreamTypes, TypeOK, ClientTypes, FeedTypes, Tracker
<1>1. CASE RegistryOnly \/ UNCHANGED vars
  BY <1>1, SameTypes DEF RegistryOnly, vars
<1> QED BY <1>1, FeedKeepsTypes, JoiningKeepsTypes, HandlingKeepsTypes DEF Next

-----------------------------------------------------------------------------
(* What a fresh stream knows.                                              *)

\* What holds of one stream.
Covered(s) ==
    since[s] = 0 =>
        /\ stage[s] # "start" => KnowsUpTo(s, cursor[s]) /\ KnowsUpTo(s, boundary[s])
        /\ stage[s] # "live" => tracker[s] = NewTracker
        /\ stage[s] = "live" => /\ tracker[s].phase = "live"
                                /\ KnowsUpTo(s, tracker[s].last)
                                /\ Ring(s) \subseteq known[s]

\* A stream whose own state a step leaves alone stays covered: the feed only grows.
LEMMA CoverKept ==
    ASSUME StreamTypes, NEW s \in Stream, Covered(s),
           stage'[s] = stage[s], since'[s] = since[s], boundary'[s] = boundary[s],
           cursor'[s] = cursor[s], tracker'[s] = tracker[s], known[s] \subseteq known'[s],
           \A i \in DOMAIN feed : feed'[i] = feed[i]
    PROVE  Covered(s)'
<1>1. /\ feed \in Seq(Event) /\ cursor[s] \in 0..Len(feed) /\ boundary[s] \in 0..Len(feed)
      /\ tracker[s].last \in 0..Len(feed) /\ DOMAIN feed = 1..Len(feed)
  BY DEF StreamTypes, TypeOK
<1>2. ASSUME NEW n \in 0..Len(feed), KnowsUpTo(s, n)
      PROVE  \A i \in 1..n : feed'[i] \in known'[s]
  BY <1>1, <1>2 DEF KnowsUpTo
<1>3. Ring(s)' = Ring(s)
  BY DEF Ring
<1>4. ASSUME since[s] = 0, stage[s] # "start"
      PROVE  KnowsUpTo(s, cursor[s])' /\ KnowsUpTo(s, boundary[s])'
  BY <1>1, <1>2, <1>4 DEF Covered, KnowsUpTo
<1>5. ASSUME since[s] = 0, stage[s] = "live"
      PROVE  KnowsUpTo(s, tracker[s].last)'
  BY <1>1, <1>2, <1>5 DEF Covered, KnowsUpTo
<1> QED BY <1>3, <1>4, <1>5 DEF Covered

\* The streams of a step that does not concern stream s.
LEMMA OthersKept ==
    ASSUME StreamTypes, NEW s \in Stream, \A t \in Stream : Covered(t),
           \A t \in Stream \ {s} :
              /\ stage'[t] = stage[t] /\ since'[t] = since[t] /\ boundary'[t] = boundary[t]
              /\ cursor'[t] = cursor[t] /\ tracker'[t] = tracker[t] /\ known'[t] = known[t],
           UNCHANGED feed, Covered(s)'
    PROVE  \A t \in Stream : Covered(t)'
BY CoverKept

\* A stream that begins has no boundary and a new tracker.
LEMMA FreshIsCovered ==
    ASSUME StreamTypes, NEW s \in Stream, NEW token \in 0..Len(feed), Fresh(s, token)
    PROVE  Covered(s)'
BY DEF Fresh, Covered, StreamTypes, TypeOK

\* subscribe_object fixes the cursor of a stream that has not begun its handler.
LEMMA JoiningIsCovered ==
    ASSUME StreamTypes, StartsOpen, NEW s \in Stream, Covered(s), JoinChannel(s) \/ InsertChannel(s)
    PROVE  Covered(s)'
<1>1. stage[s] = "start" /\ UNCHANGED <<stage, since, tracker>>
  BY DEF StartsOpen, JoinChannel, InsertChannel, Join, Insert
<1> QED BY <1>1 DEF Covered

\* MAX(nats_seq): everything the feed has by now is committed, and so in what is read next.
LEMMA BoundaryIsCovered ==
    ASSUME StreamTypes, NEW s \in Stream, Covered(s), NEW seq \in 0..Len(feed), ReadBoundary(s, seq)
    PROVE  Covered(s)'
<1>1. /\ feed \in Seq(Event) /\ cursor[s] \in 0..Len(feed) /\ DOMAIN feed = 1..Len(feed)
      /\ \A i \in DOMAIN feed : feed[i] \in committed
  BY DEF StreamTypes, TypeOK, FedIsCommitted
<1>2. /\ boundary'[s] = seq /\ known'[s] = committed /\ stage'[s] = "boundary"
      /\ stage[s] = "start" /\ UNCHANGED <<feed, since, cursor, tracker>>
  BY DEF ReadBoundary, StreamTypes, TypeOK, feedVars
<1>3. KnowsUpTo(s, cursor[s])' /\ KnowsUpTo(s, boundary[s])'
  BY <1>1, <1>2 DEF KnowsUpTo
<1> QED BY <1>2, <1>3 DEF Covered

\* The snapshot only adds to what is known, and the tracker cuts over at the boundary.
LEMMA ContentIsCovered ==
    ASSUME StreamTypes, NEW s \in Stream, Covered(s), NEW seen \in SUBSET committed,
           ReadContent(s, seen)
    PROVE  Covered(s)'
<1>1. /\ stage[s] = "boundary" /\ stage'[s] = "live" /\ known'[s] = known[s] \cup seen
      /\ tracker'[s] = CutoverToLive(tracker[s], boundary[s])
      /\ UNCHANGED <<feed, since, cursor, boundary>>
  BY DEF ReadContent, StreamTypes, TypeOK, feedVars
<1> SUFFICES ASSUME since[s] = 0 PROVE Covered(s)'
  BY <1>1 DEF Covered
<1>2. /\ KnowsUpTo(s, cursor[s]) /\ KnowsUpTo(s, boundary[s]) /\ tracker[s] = NewTracker
  BY <1>1 DEF Covered
<1>3. tracker'[s].phase = "live" /\ tracker'[s].last = boundary[s] /\ tracker'[s].ring = << >>
  BY <1>1, <1>2 DEF CutoverToLive, NewTracker
<1>4. KnowsUpTo(s, cursor[s])' /\ KnowsUpTo(s, boundary[s])' /\ KnowsUpTo(s, tracker[s].last)'
  BY <1>1, <1>2, <1>3 DEF KnowsUpTo
<1>5. Ring(s)' = {}
  BY <1>3 DEF Ring
<1> QED BY <1>1, <1>3, <1>4, <1>5 DEF Covered

\* The live tail: a message is skipped only if the client has its event.
LEMMA ReceivedIsCovered ==
    ASSUME StreamTypes, RegTypeOK, NEW s \in Stream, Covered(s), Receive(s)
    PROVE  Covered(s)'
<1>1. /\ feed \in Seq(Event) /\ cursor[s] \in 0..Len(feed) /\ boundary[s] \in 0..Len(feed)
      /\ DOMAIN feed = 1..Len(feed) /\ tracker[s] \in Tracker
      /\ \A c \in Channel : pos[c] \in 0..Len(feed)
      /\ cursor \in [Stream -> 0..Len(feed)] /\ known \in [Stream -> SUBSET committed]
  BY DEF StreamTypes, TypeOK, Tracker
<1>2. PICK seq \in Nat : seq = cursor[s] + 1
  BY <1>1
<1>3. seq \in 1..Len(feed)
  <2>1. handle[s] \in Channel
    BY DEF Receive, Running, RegTypeOK
  <2> QED BY <1>1, <1>2, <2>1 DEF Receive
<1>4. PICK o : o = ObserveLive(tracker[s], feed[seq], seq)
  OBVIOUS
<1>5. /\ cursor'[s] = seq /\ tracker'[s] = o.tracker
      /\ known'[s] = (IF o.emit THEN known[s] \cup {feed[seq]} ELSE known[s])
      /\ stage[s] = "live" /\ UNCHANGED <<feed, stage, since, boundary>>
  BY <1>1, <1>2, <1>4 DEF Receive, StreamTypes, TypeOK, feedVars
<1> SUFFICES ASSUME since[s] = 0 PROVE Covered(s)'
  BY <1>5 DEF Covered
<1>6. /\ KnowsUpTo(s, cursor[s]) /\ KnowsUpTo(s, boundary[s]) /\ KnowsUpTo(s, tracker[s].last)
      /\ tracker[s].phase = "live" /\ Ring(s) \subseteq known[s]
  BY <1>5 DEF Covered
<1>7. /\ o.tracker.phase = "live"
      /\ ~o.emit => /\ o.tracker = tracker[s]
                    /\ seq <= tracker[s].last \/ Seen(tracker[s], feed[seq])
      /\ o.emit => /\ o.tracker.last = seq
                   /\ \A i \in DOMAIN o.tracker.ring :
                         \/ o.tracker.ring[i] = feed[seq]
                         \/ \E j \in DOMAIN tracker[s].ring : o.tracker.ring[i] = tracker[s].ring[j]
  <2>1. /\ ~ObserveLive(tracker[s], feed[seq], seq).emit =>
              /\ ObserveLive(tracker[s], feed[seq], seq).tracker = tracker[s]
              /\ tracker[s].phase = "replay" \/ seq <= tracker[s].last \/ Seen(tracker[s], feed[seq])
        /\ ObserveLive(tracker[s], feed[seq], seq).tracker.phase = tracker[s].phase
        /\ ObserveLive(tracker[s], feed[seq], seq).emit =>
              /\ ObserveLive(tracker[s], feed[seq], seq).tracker.last = seq
              /\ \A i \in DOMAIN ObserveLive(tracker[s], feed[seq], seq).tracker.ring :
                    \/ ObserveLive(tracker[s], feed[seq], seq).tracker.ring[i] = feed[seq]
                    \/ \E j \in DOMAIN tracker[s].ring :
                          ObserveLive(tracker[s], feed[seq], seq).tracker.ring[i] = tracker[s].ring[j]
    BY <1>1, <1>3, ObserveLiveDoes, SMTT(30) DEF StreamTypes
  <2> QED BY <1>4, <1>6, <2>1
<1>8. feed[seq] \in known'[s] /\ known[s] \subseteq known'[s]
  <2>1. CASE o.emit
    BY <1>5, <2>1
  <2>2. CASE ~o.emit /\ seq <= tracker[s].last
    <3>1. seq \in 1..tracker[s].last
      BY <1>1, <1>3, <2>2 DEF Tracker
    <3> QED BY <1>5, <1>6, <2>2, <3>1 DEF KnowsUpTo
  <2>3. CASE ~o.emit /\ Seen(tracker[s], feed[seq])
    BY <1>5, <1>6, <2>3, SeenIsInRing
  <2> QED BY <1>7, <2>1, <2>2, <2>3
<1>9. \A i \in 1..seq : feed[i] \in known'[s]
  <2>1. \A i \in 1..seq : i = seq \/ i \in 1..cursor[s]
    BY <1>1, <1>2
  <2> QED BY <1>6, <1>8, <2>1 DEF KnowsUpTo
<1>10. KnowsUpTo(s, cursor[s])' /\ KnowsUpTo(s, boundary[s])'
  BY <1>5, <1>6, <1>8, <1>9 DEF KnowsUpTo
<1>11. KnowsUpTo(s, tracker[s].last)' /\ Ring(s)' \subseteq known'[s]
  <2>1. CASE o.emit
    BY <1>5, <1>6, <1>7, <1>8, <1>9, <2>1 DEF KnowsUpTo, Ring
  <2>2. CASE ~o.emit
    BY <1>5, <1>6, <1>7, <1>8, <2>2 DEF KnowsUpTo, Ring
  <2> QED BY <2>1, <2>2
<1> QED BY <1>5, <1>7, <1>10, <1>11 DEF Covered

-----------------------------------------------------------------------------
(* The invariant, and what it gives.                                       *)

\* SnapshotCovers is Covered of every stream.
LEMMA CoversEach == SnapshotCovers <=> \A s \in Stream : Covered(s)
BY DEF SnapshotCovers, Covered

\* No stream, nothing known.
LEMMA InitStreamInv == Init => StreamInv
<1> SUFFICES ASSUME Init PROVE StreamInv
  OBVIOUS
<1>1. RegBase
  BY InitRegBase DEF Init
<1>2. StreamTypes
  BY <1>1, InitTypes, TypesSplit DEF RegBase
<1>3. StartsOpen /\ SnapshotCovers
  BY DEF Init, StartsOpen, SnapshotCovers
<1> QED BY <1>1, <1>2, <1>3 DEF StreamInv

\* subscribe_object, the handler and its end: a stream reads its snapshot only while its handle
\* is open.
LEMMA StartsOpenStep == StreamTypes /\ StartsOpen /\ [Next]_vars => StartsOpen'
<1> SUFFICES ASSUME StreamTypes, StartsOpen, [Next]_vars PROVE StartsOpen'
  OBVIOUS
<1> USE DEF StartsOpen, StreamTypes, TypeOK, RegTypeOK
<1>1. ASSUME UNCHANGED <<regVars, stage>> PROVE StartsOpen'
  BY <1>1 DEF regVars
<1>2. ASSUME RegistryOnly PROVE StartsOpen'
  BY <1>2, SMTT(40) DEF RegistryOnly, FallThrough, OpenFails, PumpExits, clientVars
<1>3. ASSUME NEW s \in Stream, NEW k \in Key, NEW token \in 0..Len(feed), Subscribe(s, k, token)
      PROVE  StartsOpen'
  BY <1>3 DEF Subscribe, Lookup, Fresh
<1>4. ASSUME NEW s \in Stream, NEW c \in Channel, OpenChannel(s, c) PROVE StartsOpen'
  BY <1>4 DEF OpenChannel, SpawnPump, clientVars
<1>5. ASSUME NEW s \in Stream, JoinChannel(s) PROVE StartsOpen'
  BY <1>5 DEF JoinChannel, Join
<1>6. ASSUME NEW s \in Stream, InsertChannel(s) PROVE StartsOpen'
  BY <1>6 DEF InsertChannel, Insert
<1>7. ASSUME NEW s \in Stream, Leave(s) PROVE StartsOpen'
  BY <1>7 DEF Leave, Drop, Fresh
<1>8. ASSUME NEW s \in Stream, NEW seq \in 0..Len(feed), ReadBoundary(s, seq) PROVE StartsOpen'
  BY <1>8 DEF ReadBoundary, Running, regVars
<1>9. ASSUME NEW s \in Stream, NEW seen \in SUBSET committed, ReadContent(s, seen)
      PROVE  StartsOpen'
  BY <1>9 DEF ReadContent, Running, regVars
<1>10. ASSUME NEW s \in Stream, ResumeAt(s) PROVE StartsOpen'
  BY <1>10 DEF ResumeAt, Running, regVars
<1>11. ASSUME \/ \E e \in Event : CommitEvent(e) \/ Publish(e)
              \/ Expire
              \/ \E c \in Channel : Pump(c)
              \/ \E s \in Stream : Receive(s)
              \/ UNCHANGED vars
       PROVE  StartsOpen'
  BY <1>1, <1>11 DEF CommitEvent, Publish, Expire, Pump, Receive, clientVars, vars
<1> QED
  BY <1>2, <1>3, <1>4, <1>5, <1>6, <1>7, <1>8, <1>9, <1>10, <1>11 DEF Next

\* build_subscribe_board_stream and everything around it: what a fresh stream knows goes on
\* covering where it stands.
LEMMA CoversStep == RegTypeOK /\ StreamTypes /\ StartsOpen /\ SnapshotCovers /\ [Next]_vars => SnapshotCovers'
<1> SUFFICES ASSUME RegTypeOK, StreamTypes, StartsOpen, \A s \in Stream : Covered(s), [Next]_vars
             PROVE  \A s \in Stream : Covered(s)'
  BY CoversEach DEF SnapshotCovers, Covered
<1>1. ASSUME UNCHANGED clientVars, \A i \in DOMAIN feed : feed'[i] = feed[i]
      PROVE  \A s \in Stream : Covered(s)'
  BY <1>1, CoverKept DEF clientVars
<1>2. ASSUME NEW e \in Event, CommitEvent(e) \/ Publish(e) PROVE \A s \in Stream : Covered(s)'
  <2>1. UNCHANGED clientVars /\ (feed' = feed \/ feed' = Append(feed, e))
    BY <1>2 DEF CommitEvent, Publish
  <2>2. feed \in Seq(Event)
    BY DEF StreamTypes, TypeOK
  <2>3. \A i \in DOMAIN feed : feed'[i] = feed[i]
    BY <2>1, <2>2
  <2> QED BY <1>1, <2>1, <2>3
<1>3. ASSUME \/ Expire \/ RegistryOnly
             \/ \E c \in Channel : Pump(c) \/ \E s \in Stream : OpenChannel(s, c)
             \/ UNCHANGED vars
      PROVE  \A s \in Stream : Covered(s)'
  BY <1>1, <1>3 DEF Expire, RegistryOnly, Pump, OpenChannel, feedVars, vars
<1>4. ASSUME NEW s \in Stream, NEW token \in 0..Len(feed), Fresh(s, token), UNCHANGED feed
      PROVE  \A t \in Stream : Covered(t)'
  <2>1. Covered(s)'
    BY <1>4, FreshIsCovered
  <2>2. \A t \in Stream \ {s} :
           /\ stage'[t] = stage[t] /\ since'[t] = since[t] /\ boundary'[t] = boundary[t]
           /\ cursor'[t] = cursor[t] /\ tracker'[t] = tracker[t] /\ known'[t] = known[t]
    BY <1>4 DEF Fresh, StreamTypes, TypeOK
  <2> QED BY <1>4, <2>1, <2>2, OthersKept
<1>5. ASSUME NEW s \in Stream, NEW k \in Key, NEW token \in 0..Len(feed), Subscribe(s, k, token)
      PROVE  \A t \in Stream : Covered(t)'
  BY <1>4, <1>5 DEF Subscribe, feedVars
<1>6. ASSUME NEW s \in Stream, Leave(s) PROVE \A t \in Stream : Covered(t)'
  <2>1. 0 \in 0..Len(feed)
    BY DEF StreamTypes, TypeOK
  <2> QED BY <1>4, <1>6, <2>1 DEF Leave, feedVars
<1>7. ASSUME NEW s \in Stream, JoinChannel(s) \/ InsertChannel(s)
      PROVE  \A t \in Stream : Covered(t)'
  <2>1. Covered(s)'
    BY <1>7, JoiningIsCovered
  <2>2. UNCHANGED <<feed, stage, since, boundary, tracker, known>>
    BY <1>7 DEF JoinChannel, InsertChannel, feedVars
  <2>3. \A t \in Stream \ {s} : cursor'[t] = cursor[t]
    BY <1>7 DEF JoinChannel, InsertChannel, StreamTypes, TypeOK
  <2> QED BY <2>1, <2>2, <2>3, OthersKept
<1>8. ASSUME NEW s \in Stream, NEW seq \in 0..Len(feed), ReadBoundary(s, seq)
      PROVE  \A t \in Stream : Covered(t)'
  <2>1. Covered(s)'
    BY <1>8, BoundaryIsCovered
  <2> QED BY <1>8, <2>1, OthersKept DEF ReadBoundary, feedVars
<1>9. ASSUME NEW s \in Stream, NEW seen \in SUBSET committed, ReadContent(s, seen)
      PROVE  \A t \in Stream : Covered(t)'
  <2>1. Covered(s)'
    BY <1>9, ContentIsCovered
  <2> QED BY <1>9, <2>1, OthersKept DEF ReadContent, feedVars
<1>10. ASSUME NEW s \in Stream, ResumeAt(s) PROVE \A t \in Stream : Covered(t)'
  <2>1. Covered(s)'
    <3>1. since[s] > 0 /\ since' = since /\ since[s] \in Nat
      BY <1>10 DEF ResumeAt, StreamTypes, TypeOK
    <3> QED BY <3>1 DEF Covered
  <2> QED BY <1>10, <2>1, OthersKept DEF ResumeAt, feedVars
<1>11. ASSUME NEW s \in Stream, Receive(s) PROVE \A t \in Stream : Covered(t)'
  <2>1. Covered(s)'
    BY <1>11, ReceivedIsCovered
  <2> QED BY <1>11, <2>1, OthersKept DEF Receive, feedVars
<1> QED
  BY <1>2, <1>3, <1>5, <1>6, <1>7, <1>8, <1>9, <1>10, <1>11 DEF Next

\* The invariant of SubscribeBoard.
LEMMA StreamInvariant == Spec => []StreamInv
<1>1. StreamInv /\ [Next]_vars => StreamInv'
  <2> SUFFICES ASSUME StreamInv, [Next]_vars PROVE StreamInv'
    OBVIOUS
  <2>1. RegBase'
    BY StepsOfRegistry, RegBaseStep DEF StreamInv
  <2>2. StreamTypes'
    BY <2>1, TypesStep DEF StreamInv, RegBase
  <2>3. StartsOpen' /\ SnapshotCovers'
    BY StartsOpenStep, CoversStep DEF StreamInv, RegBase
  <2> QED BY <2>1, <2>2, <2>3 DEF StreamInv
<1> QED BY <1>1, InitStreamInv, PTL DEF Spec

\* The state of SubscribeBoard and of its registry keeps its type.
THEOREM StreamTypesHold == Spec => []TypeOK
<1>1. StreamInv => TypeOK
  BY DEF StreamInv, StreamTypes
<1> QED BY <1>1, StreamInvariant, PTL

\* read_board_snapshot, "an event can be duplicated in that window but never lost": a live stream
\* with a fresh snapshot knows every event up to where its receiver stands.
THEOREM StreamLosesNothing == Spec => []NeverLost
<1>1. StreamInv => NeverLost
  BY DEF StreamInv, SnapshotCovers, NeverLost, Live, KnowsUpTo
<1> QED BY <1>1, StreamInvariant, PTL

\* CutoverTracker: what a fresh stream does not know yet is ahead of its receiver and is not
\* skipped as old.
THEOREM StreamSkipsNothing == Spec => []NothingBehind
<1>1. StreamInv => NothingBehind
  <2> SUFFICES ASSUME StreamInv, NEW s \in Stream, Live(s), since[s] = 0,
                      NEW e \in committed \ known[s], NEW i \in DOMAIN feed, feed[i] = e
               PROVE  i > cursor[s] /\ i > tracker[s].last
    BY DEF NothingBehind
  <2>1. KnowsUpTo(s, cursor[s]) /\ KnowsUpTo(s, tracker[s].last)
    BY DEF StreamInv, SnapshotCovers, Live
  <2>2. cursor[s] \in Nat /\ tracker[s].last \in Nat /\ i \in Nat \ {0}
    BY DEF StreamInv, StreamTypes, TypeOK
  <2> QED BY <2>1, <2>2 DEF KnowsUpTo
<1> QED BY <1>1, StreamInvariant, PTL

\* However slow paths of the registry overlap, a fresh subscription has everything up to where it
\* reads, what it lacks is ahead of it, and the entry of a channel goes with its last stream.
THEOREM OverlapHarmless == Spec => []OverlapIsHarmless
<1>1. StreamInv => EntryNeverOutlivesStreams
  BY DEF StreamInv, RegBase
<1>2. NeverLost /\ NothingBehind /\ EntryNeverOutlivesStreams => OverlapIsHarmless
  BY DEF OverlapIsHarmless
<1> QED BY <1>1, <1>2, StreamLosesNothing, StreamSkipsNothing, StreamInvariant, PTL

\* The same registry under the board streams: what overlapping subscriptions break is bounded
\* by the replacements, whatever the streams and their pumps do.
THEOREM StreamRegistryBreaksOnlySo == Spec => []OnlyReplacingBreaks
BY StreamImplementsRegistry, RegistryBreaksOnlySo, PTL
=============================================================================
