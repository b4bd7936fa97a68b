---------------------------- MODULE BoardStream ----------------------------
(***************************************************************************)
(* SubscribeBoard (build_subscribe_board_stream in                         *)
(* src/src/services/boards.rs) on top of the subscriber registry: the      *)
(* registry handle is taken first, then the snapshot is read, then the     *)
(* stream cuts over to the live tail.                                      *)
(*                                                                         *)
(* The message stream below is what EventFeed promises, for one board: an  *)
(* event is fed some time after it committed, in any order, possibly more  *)
(* than once.  What a client knows is a set of events: a snapshot gives it *)
(* those committed before MAX(nats_seq) was read and any of those that     *)
(* commit while the columns and cards are read one query after the other.  *)
(* Abstracted: heartbeats, the token check (it always succeeds) and the    *)
(* recheck of permissions: all of them end the stream or leave it alone.   *)
(***************************************************************************)
EXTENDS Registry, CutoverTracker

CONSTANTS
    Event,
    MaxCopies,    \* bound: copies of one event in the stream
    Lag,          \* capacity of the broadcast channel (256 in production)
    MaxExpired    \* bound: messages that retention removes

ASSUME StreamAssumption == MaxCopies \in Nat /\ Lag \in Nat \ {0} /\ MaxExpired \in Nat

VARIABLES
    committed,  \* events whose transaction committed
    feed,       \* the messages of the board; the index is nats_seq
    first,      \* first sequence the stream still retains
    pos,        \* last sequence the pump of a channel broadcast
    stage,      \* how far a client stream is in its handler
    since,      \* since_seq of the request, 0 for a fresh subscription
    boundary,   \* cutover_seq: where the live tail begins
    cursor,     \* last sequence the receiver of a stream took
    tracker,    \* CutoverTracker of a stream
    known       \* the events the client of a stream knows

feedVars   == <<committed, feed, first>>
clientVars == <<stage, since, boundary, cursor, tracker, known>>
vars       == <<regVars, feedVars, pos, clientVars>>

TypeOK ==
    /\ RegTypeOK
    /\ committed \in SUBSET Event
    /\ feed \in Seq(Event)
    /\ first \in 1..(MaxExpired + 1)
    /\ pos \in [Channel -> 0..Len(feed)]
    /\ stage \in [Stream -> {"start", "boundary", "live"}]
    /\ since \in [Stream -> 0..Len(feed)]
    /\ boundary \in [Stream -> 0..Len(feed)]
    /\ cursor \in [Stream -> 0..Len(feed)]
    /\ \A s \in Stream : tracker[s] \in
         [phase : {"replay", "live"}, ring : Seq(Event), last : 0..Len(feed)]
    /\ known \in [Stream -> SUBSET committed]

Init ==
    /\ RegInit
    /\ committed = {}
    /\ feed = <<>>
    /\ first = 1
    /\ pos = [c \in Channel |-> 0]
    /\ stage = [s \in Stream |-> "start"]
    /\ since = [s \in Stream |-> 0]
    /\ boundary = [s \in Stream |-> 0]
    /\ cursor = [s \in Stream |-> 0]
    /\ tracker = [s \in Stream |-> NewTracker]
    /\ known = [s \in Stream |-> {}]

-----------------------------------------------------------------------------
(* The board and its message stream.                                       *)

CommitEvent(e) ==
    /\ e \notin committed
    /\ committed' = committed \cup {e}
    /\ UNCHANGED <<regVars, feed, first, pos, clientVars>>

Publish(e) ==
    /\ e \in committed
    /\ Cardinality({i \in DOMAIN feed : feed[i] = e}) < MaxCopies
    /\ feed' = Append(feed, e)
    /\ UNCHANGED <<regVars, committed, first, pos, clientVars>>

\* Retention (24 h, 10 000 messages per subject) removes the oldest message.
\* The pumps of live channels are assumed not to be that far behind.
Expire ==
    /\ first <= MaxExpired
    /\ first <= Len(feed)
    /\ \A c \in Channel : pump[c] = "running" => pos[c] >= first
    /\ first' = first + 1
    /\ UNCHANGED <<regVars, committed, feed, pos, clientVars>>

-----------------------------------------------------------------------------
(* Registry steps, with the positions in the message stream they fix.      *)

\* A handler's own state is new with each request.  A resumed client saw every event up to
\* its token on an earlier stream.
Fresh(s, token) ==
    /\ stage' = [stage EXCEPT ![s] = "start"]
    /\ since' = [since EXCEPT ![s] = token]
    /\ boundary' = [boundary EXCEPT ![s] = 0]
    /\ cursor' = [cursor EXCEPT ![s] = 0]
    /\ tracker' = [tracker EXCEPT ![s] = NewTracker]
    /\ known' = [known EXCEPT ![s] = {feed[i] : i \in 1..token}]

Subscribe(s, k, token) ==
    /\ Lookup(s, k)
    /\ Fresh(s, token)
    /\ UNCHANGED <<feedVars, pos>>

\* A receiver of an existing channel starts behind the last broadcast message.
JoinChannel(s) ==
    /\ Join(s)
    /\ cursor' = [cursor EXCEPT ![s] = pos[handle'[s]]]
    /\ UNCHANGED <<feedVars, pos, stage, since, boundary, tracker, known>>

\* The consumer delivers all messages the stream retains.
OpenChannel(s, c) ==
    /\ SpawnPump(s, c)
    /\ pos' = [pos EXCEPT ![c] = first - 1]
    /\ UNCHANGED <<feedVars, clientVars>>

InsertChannel(s) ==
    /\ Insert(s)
    /\ cursor' = [cursor EXCEPT ![s] = pos[handle[s]]]
    /\ UNCHANGED <<feedVars, pos, stage, since, boundary, tracker, known>>

RegistryOnly ==
    /\ \/ \E s \in Stream : FallThrough(s) \/ OpenFails(s)
       \/ \E c \in Channel : PumpExits(c)
    /\ UNCHANGED <<feedVars, pos, clientVars>>

\* Variant: a message is broadcast only when the next one has arrived.
Pump_OneBehind(c) ==
    /\ pump[c] = "running"
    /\ pos[c] + 1 < Len(feed)
    /\ pos' = [pos EXCEPT ![c] = @ + 1]
    /\ UNCHANGED <<regVars, feedVars, clientVars>>

Pump(c) ==
    /\ pump[c] = "running"
    /\ pos[c] < Len(feed)
    /\ pos' = [pos EXCEPT ![c] = @ + 1]
    /\ UNCHANGED <<regVars, feedVars, clientVars>>

-----------------------------------------------------------------------------
(* The stream handler.                                                     *)

Running(s) == at[s] = "open"

\* MAX(nats_seq): the sequence of some row that is marked by now, or 0.
ReadBoundary(s, seq) ==
    /\ Running(s) /\ stage[s] = "start" /\ since[s] = 0
    /\ boundary' = [boundary EXCEPT ![s] = seq]
    /\ known' = [known EXCEPT ![s] = committed]
    /\ stage' = [stage EXCEPT ![s] = "boundary"]
    /\ UNCHANGED <<regVars, feedVars, pos, since, cursor, tracker>>

\* Variant: MAX(nats_seq) is read after the columns and cards.
ReadContent_BoundaryLast(s, seen) ==
    /\ Running(s) /\ stage[s] = "boundary"
    /\ known' = [known EXCEPT ![s] = @ \cup seen]
    /\ tracker' = [tracker EXCEPT ![s] = CutoverToLive(@, Len(feed))]
    /\ stage' = [stage EXCEPT ![s] = "live"]
    /\ UNCHANGED <<regVars, feedVars, pos, since, cursor, boundary>>

\* Variant: the receiver is taken after the snapshot.
ReadContent_SubscribeLast(s, seen) ==
    /\ Running(s) /\ stage[s] = "boundary"
    /\ known' = [known EXCEPT ![s] = @ \cup seen]
    /\ tracker' = [tracker EXCEPT ![s] = CutoverToLive(@, boundary[s])]
    /\ cursor' = [cursor EXCEPT ![s] = pos[handle[s]]]
    /\ stage' = [stage EXCEPT ![s] = "live"]
    /\ UNCHANGED <<regVars, feedVars, pos, since, boundary>>

\* The columns and cards, read one query after the other (`seen`: what commits
\* meanwhile and is already in them), then the Cutover envelope.
ReadContent(s, seen) ==
    /\ Running(s) /\ stage[s] = "boundary"
    /\ known' = [known EXCEPT ![s] = @ \cup seen]
    /\ tracker' = [tracker EXCEPT ![s] = CutoverToLive(@, boundary[s])]
    /\ stage' = [stage EXCEPT ![s] = "live"]
    /\ UNCHANGED <<regVars, feedVars, pos, since, cursor, boundary>>

\* A resume skips the snapshot and cuts over at its token.
ResumeAt(s) ==
    /\ Running(s) /\ stage[s] = "start" /\ since[s] > 0
    /\ boundary' = [boundary EXCEPT ![s] = since[s]]
    /\ tracker' = [tracker EXCEPT ![s] = CutoverToLive(@, since[s])]
    /\ stage' = [stage EXCEPT ![s] = "live"]
    /\ UNCHANGED <<regVars, feedVars, pos, since, cursor, known>>

Lagged(s) == pos[handle[s]] - cursor[s] > Lag

Receive(s) ==
    /\ Running(s) /\ stage[s] = "live"
    /\ cursor[s] < pos[handle[s]] /\ ~Lagged(s)
    /\ LET seq == cursor[s] + 1
           seen == ObserveLive(tracker[s], feed[seq], seq)
       IN  /\ cursor' = [cursor EXCEPT ![s] = seq]
           /\ tracker' = [tracker EXCEPT ![s] = seen.tracker]
           /\ known' = [known EXCEPT ![s] = IF seen.emit THEN @ \cup {feed[seq]} ELSE @]
    /\ UNCHANGED <<regVars, feedVars, pos, stage, since, boundary>>

\* The stream ends: the receiver lagged, or the channel lost its senders, or
\* (at any moment) the snapshot failed, access was revoked or the client left.
Cut(s) == entry[wants[s]] # handle[s] /\ pump[handle[s]] # "running"

Leave(s) ==
    /\ Drop(s)
    /\ Fresh(s, 0)
    /\ UNCHANGED <<feedVars, pos>>

LeaveBroken(s) == Running(s) /\ stage[s] = "live" /\ (Lagged(s) \/ Cut(s)) /\ Leave(s)

Next ==
    \/ \E e \in Event : CommitEvent(e) \/ Publish(e)
    \/ Expire
    \/ RegistryOnly
    \/ \E c \in Channel : Pump(c)
    \/ \E s \in Stream :
        \/ \E k \in Key, token \in 0..Len(feed) : Subscribe(s, k, token)
        \/ \E c \in Channel : OpenChannel(s, c)
        \/ \E seq \in 0..Len(feed) : ReadBoundary(s, seq)
        \/ \E seen \in SUBSET committed : ReadContent(s, seen)
        \/ JoinChannel(s) \/ InsertChannel(s) \/ ResumeAt(s) \/ Receive(s) \/ Leave(s)

Spec == Init /\ [][Next]_vars

\* Pumps and handlers are scheduled; nothing is assumed of clients, commits,
\* the dispatcher or retention.
Fairness ==
    /\ \A c \in Channel : WF_vars(Pump(c))
    /\ \A s \in Stream : WF_vars(Receive(s)) /\ WF_vars(LeaveBroken(s))

FairSpec == Spec /\ Fairness

-----------------------------------------------------------------------------
(* Properties.                                                             *)

Live(s) == Running(s) /\ stage[s] = "live"

\* read_board_snapshot: "an event can be duplicated in that window but never
\* lost".  A client with a fresh subscription knows every event of the stream
\* up to the point its receiver has reached, whoever else shares the channel,
\* opens a second one or leaves.
NeverLost ==
    \A s \in Stream : Live(s) /\ since[s] = 0 =>
        \A i \in 1..cursor[s] : feed[i] \in known[s]

\* A fresh stream that stays open gets every event of the board: the events
\* that committed and that it does not know yet are still ahead of it.
NothingBehind ==
    \A s \in Stream : Live(s) /\ since[s] = 0 =>
        \A e \in committed \ known[s] : \A i \in DOMAIN feed :
            feed[i] = e => i > cursor[s] /\ i > tracker[s].last

\* A published event reaches every open stream, or the stream ends, unless the
\* pump of its channel exited.
CatchesUp ==
    \A s \in Stream, i \in 1..(MaxCopies * Cardinality(Event)) :
        (Live(s) /\ i \in DOMAIN feed)
            ~> (~Live(s) \/ cursor[s] >= i \/ pump[handle[s]] = "exited")

\* build_subscribe_board_stream: on a resume "the registry consumer replays
\* retained history", so a resumed client misses nothing after its token.
ResumeMissesNothing ==
    \A s \in Stream : Live(s) /\ since[s] > 0 =>
        \A i \in 1..cursor[s] : feed[i] \in known[s]

\* However slow paths overlap, a fresh stream has everything up to where it reads, what it
\* lacks is still ahead of it, and the entry of a channel goes with the last stream.
OverlapIsHarmless == NeverLost /\ NothingBehind /\ EntryNeverOutlivesStreams
=============================================================================
