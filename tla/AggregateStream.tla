-------------------------- MODULE AggregateStream --------------------------
(***************************************************************************)
(* SubscribeAggregatedBoard (build_subscribe_aggregated_board_stream in    *)
(* src/src/services/aggregated_boards.rs): one forwarder task per source   *)
(* board, and one for the aggregate itself, copies the broadcast channel   *)
(* of its source into one queue; the stream reads the queue through a      *)
(* single CutoverTracker.                                                  *)
(*                                                                         *)
(* All sources share one JetStream stream, so sequence numbers order the   *)
(* events of all of them; each pump reaches its own messages at its own    *)
(* speed.  An event is identified with its sequence number (re-published   *)
(* copies are the subject of Cutover).                                     *)
(***************************************************************************)
EXTENDS CutoverTracker, FiniteSetsExt

CONSTANTS
    Source,    \* the aggregate and its source boards
    AggLag,       \* capacity of a broadcast channel
    MaxFeed    \* bound: messages published

ASSUME AggregateAssumption == AggLag \in Nat \ {0} /\ MaxFeed \in Nat

VARIABLES
    aggFeed,      \* the source of the message at each sequence number
    pumped,    \* last message of a source that its channel broadcast
    forwarder, \* the subscription of a source and its forwarder task
    aggCursor,    \* last message of a source that its receiver took
    queue,     \* the merge queue: sequence numbers
    client,    \* "on" or "gone"
    aggTracker,
    joined,    \* history: `pumped` when the source was subscribed
    consumed,  \* history: what the stream took from the queue
    emitted    \* history: what it sent to the client

aggVars == <<aggFeed, pumped, forwarder, aggCursor, queue, client, aggTracker, joined,
          consumed, emitted>>

Of(src) == {i \in DOMAIN aggFeed : aggFeed[i] = src}

Backlog(src) == {i \in Of(src) : aggCursor[src] < i /\ i <= pumped[src]}

AllSubscribed == \A src \in Source : forwarder[src] # "none"

AggTypeOK ==
    /\ aggFeed \in Seq(Source)
    /\ pumped \in [Source -> 0..Len(aggFeed)]
    /\ forwarder \in [Source -> {"none", "held", "on", "ended"}]
    /\ aggCursor \in [Source -> 0..Len(aggFeed)]
    /\ joined \in [Source -> 0..Len(aggFeed)]
    /\ queue \in Seq(DOMAIN aggFeed)
    /\ client \in {"on", "gone"}
    /\ aggTracker \in [phase : {"replay", "live"}, ring : Seq(DOMAIN aggFeed), last : 0..Len(aggFeed)]
    /\ consumed \in Seq(DOMAIN aggFeed)
    /\ emitted \in Seq(DOMAIN aggFeed)

AggInit ==
    /\ aggFeed = <<>>
    /\ pumped = [src \in Source |-> 0]
    /\ forwarder = [src \in Source |-> "none"]
    /\ aggCursor = [src \in Source |-> 0]
    /\ joined = [src \in Source |-> 0]
    /\ queue = <<>>
    /\ client = "on"
    /\ aggTracker = CutoverToLive(NewTracker, 0)
    /\ consumed = <<>>
    /\ emitted = <<>>

PublishTo(src) ==
    /\ Len(aggFeed) < MaxFeed
    /\ aggFeed' = Append(aggFeed, src)
    /\ UNCHANGED <<pumped, forwarder, aggCursor, queue, client, aggTracker, joined, consumed, emitted>>

PumpSource(src) ==
    /\ \E i \in Of(src) : i > pumped[src]
    /\ pumped' = [pumped EXCEPT ![src] = Min({i \in Of(src) : i > @})]
    /\ UNCHANGED <<aggFeed, forwarder, aggCursor, queue, client, aggTracker, joined, consumed, emitted>>

\* Variant: the receiver starts beyond the message to be broadcast next.
SubscribeSource_SkipsOne(src) ==
    /\ client = "on"
    /\ forwarder[src] = "none"
    /\ forwarder' = [forwarder EXCEPT ![src] = "held"]
    /\ aggCursor' = [aggCursor EXCEPT ![src] = pumped[src] + 1]
    /\ joined' = [joined EXCEPT ![src] = pumped[src] + 1]
    /\ UNCHANGED <<aggFeed, pumped, queue, client, aggTracker, consumed, emitted>>

\* One source after the other; the channel may have run before.
SubscribeSource(src) ==
    /\ client = "on"
    /\ forwarder[src] = "none"
    /\ forwarder' = [forwarder EXCEPT ![src] = "held"]
    /\ aggCursor' = [aggCursor EXCEPT ![src] = pumped[src]]
    /\ joined' = [joined EXCEPT ![src] = pumped[src]]
    /\ UNCHANGED <<aggFeed, pumped, queue, client, aggTracker, consumed, emitted>>

\* The forwarder tasks start once every source is subscribed.
SpawnForwarders ==
    /\ client = "on"
    /\ AllSubscribed
    /\ \E src \in Source : forwarder[src] = "held"
    /\ forwarder' = [src \in Source |-> "on"]
    /\ UNCHANGED <<aggFeed, pumped, aggCursor, queue, client, aggTracker, joined, consumed, emitted>>

\* Variant: a forwarder takes the newest message of its channel.
Forward_Newest(src) ==
    /\ forwarder[src] = "on"
    /\ Backlog(src) # {} /\ Cardinality(Backlog(src)) <= AggLag
    /\ aggCursor' = [aggCursor EXCEPT ![src] = pumped[src]]
    /\ IF client = "gone"
       THEN forwarder' = [forwarder EXCEPT ![src] = "ended"] /\ UNCHANGED queue
       ELSE queue' = Append(queue, pumped[src]) /\ UNCHANGED forwarder
    /\ UNCHANGED <<aggFeed, pumped, client, aggTracker, joined, consumed, emitted>>

\* Variant: the result of the send is ignored.
Forward_IgnoresClosed(src) ==
    /\ forwarder[src] = "on"
    /\ Backlog(src) # {} /\ Cardinality(Backlog(src)) <= AggLag
    /\ LET i == Min(Backlog(src))
       IN  /\ aggCursor' = [aggCursor EXCEPT ![src] = i]
           /\ queue' = IF client = "gone" THEN queue ELSE Append(queue, i)
    /\ UNCHANGED <<aggFeed, pumped, forwarder, client, aggTracker, joined, consumed, emitted>>

\* A forwarder learns that the client is gone only when it has a message to send.
Forward(src) ==
    /\ forwarder[src] = "on"
    /\ Backlog(src) # {} /\ Cardinality(Backlog(src)) <= AggLag
    /\ LET i == Min(Backlog(src))
       IN  /\ aggCursor' = [aggCursor EXCEPT ![src] = i]
           /\ IF client = "gone"
              THEN forwarder' = [forwarder EXCEPT ![src] = "ended"] /\ UNCHANGED queue
              ELSE queue' = Append(queue, i) /\ UNCHANGED forwarder
    /\ UNCHANGED <<aggFeed, pumped, client, aggTracker, joined, consumed, emitted>>

\* `while let Ok(..)`: a lagged receiver ends its forwarder without a word.
ForwarderLags(src) ==
    /\ forwarder[src] = "on"
    /\ Cardinality(Backlog(src)) > AggLag
    /\ forwarder' = [forwarder EXCEPT ![src] = "ended"]
    /\ UNCHANGED <<aggFeed, pumped, aggCursor, queue, client, aggTracker, joined, consumed, emitted>>

Consume ==
    /\ client = "on" /\ queue # <<>>
    /\ LET seq == Head(queue)
           seen == ObserveLive(aggTracker, seq, seq)
       IN  /\ aggTracker' = seen.tracker
           /\ consumed' = Append(consumed, seq)
           /\ emitted' = IF seen.emit THEN Append(emitted, seq) ELSE emitted
    /\ queue' = Tail(queue)
    /\ UNCHANGED <<aggFeed, pumped, forwarder, aggCursor, client, joined>>

\* The client leaves, or every forwarder has ended and the queue is empty.
\* Handles that no forwarder owns yet are dropped with the stream.
ClientGone ==
    /\ client = "on"
    /\ client' = "gone"
    /\ queue' = <<>>
    /\ forwarder' = [src \in Source |->
          IF forwarder[src] \in {"none", "held"} THEN "ended" ELSE forwarder[src]]
    /\ UNCHANGED <<aggFeed, pumped, aggCursor, aggTracker, joined, consumed, emitted>>

AggNext ==
    \/ \E src \in Source :
        \/ PublishTo(src) \/ PumpSource(src) \/ SubscribeSource(src)
        \/ Forward(src) \/ ForwarderLags(src)
    \/ SpawnForwarders \/ Consume \/ ClientGone

AggSpec == AggInit /\ [][AggNext]_aggVars

\* The pumps and the tasks of the stream are scheduled; boards may stay quiet
\* and clients may stay for ever.
AggFairness ==
    /\ WF_aggVars(Consume)
    /\ \A src \in Source :
        WF_aggVars(PumpSource(src)) /\ WF_aggVars(Forward(src)) /\ WF_aggVars(ForwarderLags(src))

AggFairSpec == AggSpec /\ AggFairness

-----------------------------------------------------------------------------
(* Properties.                                                             *)

Took(i) == \E k \in DOMAIN consumed : consumed[k] = i
Sent(i) == \E k \in DOMAIN emitted : emitted[k] = i

\* aggregated_boards.proto: the stream carries "events from all source boards".
\* Whatever reaches the merge queue reaches the client.
MergeLosesNothing == \A i \in DOMAIN aggFeed : Took(i) => Sent(i)

\* Each source is copied without gaps, in its own order, from the point where
\* it was subscribed: whatever the merge loses, the forwarders do not lose.
SourcesWithoutGaps ==
    client = "on" => \A i \in DOMAIN aggFeed :
        joined[aggFeed[i]] < i /\ i <= aggCursor[aggFeed[i]]
            => Took(i) \/ \E k \in DOMAIN queue : queue[k] = i

\* An event is lost in the merge only when a later event of another source
\* overtook it in the queue.
LostOnlyIfOvertaken ==
    \A k \in DOMAIN consumed : ~Sent(consumed[k]) =>
        \E m \in 1..(k-1) : consumed[m] > consumed[k] /\ aggFeed[consumed[m]] # aggFeed[consumed[k]]

\* The receiver a forwarder holds is given back after the client is gone, at the
\* latest with the next event of its source.
ReleasedByNextEvent ==
    \A src \in Source :
        (client = "gone" /\ Backlog(src) # {}) ~> (forwarder[src] = "ended")

\* What the merge gets of each source has no gaps, and of that it loses only what another
\* source has overtaken.
MergeKeepsSources == SourcesWithoutGaps /\ LostOnlyIfOvertaken
=============================================================================
