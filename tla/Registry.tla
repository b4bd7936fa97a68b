------------------------------ MODULE Registry ------------------------------
(***************************************************************************)
(* The per-pod subscriber registry (src/src/realtime/registry.rs): streams *)
(* that watch the same board or project share one channel, that is one     *)
(* JetStream push consumer, the pump task that reads it, and a broadcast   *)
(* sender.                                                                 *)
(*                                                                         *)
(* Kept: the two critical sections of the fast path, the slow path with    *)
(* everything that may happen while it awaits JetStream, the insertion     *)
(* that does not look at the map again, the reference count in the map     *)
(* entry, the decrement by map key when a handle is dropped, pumps that    *)
(* exit, callers that go away.  Abstracted: messages (see BoardStream).    *)
(***************************************************************************)
EXTENDS Integers, FiniteSets

CONSTANTS
    Key,          \* map keys: board:<id> and project:<id>
    Stream,       \* client streams of this pod
    MaxChannel    \* bound: channels that exist at the same time

ASSUME RegistryAssumption == MaxChannel \in Nat

Channel == 1..MaxChannel
None == 0

VARIABLES
    entry,      \* the channel the map holds under a key, or None
    refcount,   \* BoardChannel.refcount
    pump,       \* the pump task of a channel
    subject,    \* the key whose subject the consumer of a channel filters
    at,         \* where a stream stands in subscribe_object
    wants,      \* the key a stream subscribes to
    handle,     \* the channel the receiver of a stream belongs to
    replaced,   \* ghost: channels whose pump ran when an insertion put another in their place
    torn        \* ghost: keys with such a channel, until the last stream of the key goes

regGhosts == <<replaced, torn>>
regVars == <<entry, refcount, pump, subject, at, wants, handle, regGhosts>>

RegTypeOK ==
    /\ entry \in [Key -> Channel \cup {None}]
    /\ refcount \in [Channel -> Nat]
    /\ pump \in [Channel -> {"none", "running", "exited", "aborted"}]
    /\ subject \in [Channel -> Key]
    /\ at \in [Stream -> {"idle", "found", "opening", "spawned", "open"}]
    /\ wants \in [Stream -> Key]
    /\ handle \in [Stream -> Channel \cup {None}]
    /\ \A s \in Stream : handle[s] # None <=> at[s] \in {"spawned", "open"}
    /\ replaced \subseteq Channel /\ torn \subseteq Key

RegInit ==
    /\ entry = [k \in Key |-> None]
    /\ refcount = [c \in Channel |-> 0]
    /\ pump = [c \in Channel |-> "none"]
    /\ at = [s \in Stream |-> "idle"]
    /\ \E k \in Key : subject = [c \in Channel |-> k] /\ wants = [s \in Stream |-> k]
    /\ handle = [s \in Stream |-> None]
    /\ replaced = {} /\ torn = {}

Holders(k) == {s \in Stream : at[s] = "open" /\ wants[s] = k}

SlowPath(k) == {s \in Stream : at[s] \in {"opening", "spawned"} /\ wants[s] = k}

Pumping == {c \in Channel : pump[c] = "running"}

-----------------------------------------------------------------------------
\* Fast path, first half: is there a channel?  (read lock)
Lookup(s, k) ==
    /\ at[s] = "idle"
    /\ wants' = [wants EXCEPT ![s] = k]
    /\ at' = [at EXCEPT ![s] = IF entry[k] # None THEN "found" ELSE "opening"]
    /\ UNCHANGED <<entry, refcount, pump, subject, handle, regGhosts>>

\* Variant: joins without counting itself.
Join_NotCounted(s) ==
    /\ at[s] = "found"
    /\ entry[wants[s]] # None
    /\ handle' = [handle EXCEPT ![s] = entry[wants[s]]]
    /\ at' = [at EXCEPT ![s] = "open"]
    /\ UNCHANGED <<entry, refcount, pump, subject, wants, regGhosts>>

\* Variant: the entry is not looked up again under the write lock.
Join_Unchecked(s) ==
    /\ at[s] = "found"
    /\ LET c == entry[wants[s]]
       IN  /\ refcount' = [d \in Channel |-> IF d = c THEN refcount[d] + 1 ELSE refcount[d]]
           /\ handle' = [handle EXCEPT ![s] = c]
    /\ at' = [at EXCEPT ![s] = "open"]
    /\ UNCHANGED <<entry, pump, subject, wants, regGhosts>>

\* Fast path, second half: join it.  (write lock)
Join(s) ==
    /\ at[s] = "found"
    /\ entry[wants[s]] # None
    /\ LET c == entry[wants[s]]
       IN  /\ refcount' = [refcount EXCEPT ![c] = @ + 1]
           /\ handle' = [handle EXCEPT ![s] = c]
    /\ at' = [at EXCEPT ![s] = "open"]
    /\ UNCHANGED <<entry, pump, subject, wants, regGhosts>>

\* The entry disappeared between the two locks: fall through.
FallThrough(s) ==
    /\ at[s] = "found"
    /\ entry[wants[s]] = None
    /\ at' = [at EXCEPT ![s] = "opening"]
    /\ UNCHANGED <<entry, refcount, pump, subject, wants, handle, regGhosts>>

\* get_stream or create_consumer fails, or the client goes away meanwhile.
OpenFails(s) ==
    /\ at[s] = "opening"
    /\ at' = [at EXCEPT ![s] = "idle"]
    /\ UNCHANGED <<entry, refcount, pump, subject, wants, handle, regGhosts>>

Unused == {c \in Channel :
    /\ pump[c] # "running"
    /\ \A k \in Key : entry[k] # c
    /\ \A s \in Stream : handle[s] # c}

\* The consumer exists; its pump runs from here on.
SpawnPump(s, c) ==
    /\ at[s] = "opening"
    /\ c \in Unused
    /\ pump' = [pump EXCEPT ![c] = "running"]
    /\ subject' = [subject EXCEPT ![c] = wants[s]]
    /\ refcount' = [refcount EXCEPT ![c] = 0]
    /\ handle' = [handle EXCEPT ![s] = c]
    /\ at' = [at EXCEPT ![s] = "spawned"]
    /\ UNCHANGED <<entry, wants, regGhosts>>

\* The receiver is created and the channel inserted, whatever the map holds
\* by now: an entry that is replaced loses its sender and the handle of its
\* pump, but the pump is not aborted.
Insert(s) ==
    /\ at[s] = "spawned"
    /\ entry' = [entry EXCEPT ![wants[s]] = handle[s]]
    /\ refcount' = [refcount EXCEPT ![handle[s]] = 1]
    /\ at' = [at EXCEPT ![s] = "open"]
    /\ replaced' = replaced \cup ({entry[wants[s]]} \cap Pumping)
    /\ torn' = IF entry[wants[s]] = None THEN torn ELSE torn \cup {wants[s]}
    /\ UNCHANGED <<pump, subject, wants, handle>>

\* With the last stream of its key all traces of a replacement are gone, but its pump.
Mends(s) == torn' = IF Holders(wants[s]) = {s} THEN torn \ {wants[s]} ELSE torn

\* Variant: the last drop aborts the pump but leaves the entry in the map.
Drop_KeepsEntry(s) ==
    /\ at[s] = "open"
    /\ LET c == entry[wants[s]]
       IN  IF c = None THEN UNCHANGED <<refcount, pump>>
           ELSE /\ refcount' = [refcount EXCEPT ![c] = IF @ = 0 THEN 0 ELSE @ - 1]
                /\ IF refcount'[c] = 0 /\ pump[c] = "running"
                   THEN pump' = [pump EXCEPT ![c] = "aborted"]
                   ELSE UNCHANGED pump
    /\ at' = [at EXCEPT ![s] = "idle"]
    /\ handle' = [handle EXCEPT ![s] = None]
    /\ Mends(s)
    /\ UNCHANGED <<entry, subject, wants, replaced>>

\* Variant: the last drop removes the entry but lets the pump run.
Drop_KeepsPump(s) ==
    /\ at[s] = "open"
    /\ LET c == entry[wants[s]]
       IN  IF c = None THEN UNCHANGED <<entry, refcount>>
           ELSE /\ refcount' = [refcount EXCEPT ![c] = IF @ = 0 THEN 0 ELSE @ - 1]
                /\ IF refcount'[c] = 0
                   THEN entry' = [entry EXCEPT ![wants[s]] = None]
                   ELSE UNCHANGED entry
    /\ at' = [at EXCEPT ![s] = "idle"]
    /\ handle' = [handle EXCEPT ![s] = None]
    /\ Mends(s)
    /\ UNCHANGED <<pump, subject, wants, replaced>>

\* StreamHandle::drop: the decrement goes to the channel the map holds now
\* under the key, which need not be the channel of the handle.
Drop(s) ==
    /\ at[s] = "open"
    /\ LET c == entry[wants[s]]
       IN  IF c = None THEN UNCHANGED <<entry, refcount, pump>>
           ELSE /\ refcount' = [refcount EXCEPT ![c] = IF @ = 0 THEN 0 ELSE @ - 1]
                /\ IF refcount'[c] = 0
                   THEN /\ entry' = [entry EXCEPT ![wants[s]] = None]
                        /\ pump' = [pump EXCEPT ![c] = IF @ = "running" THEN "aborted"
                                                                        ELSE @]
                   ELSE UNCHANGED <<entry, pump>>
    /\ at' = [at EXCEPT ![s] = "idle"]
    /\ handle' = [handle EXCEPT ![s] = None]
    /\ Mends(s)
    /\ UNCHANGED <<subject, wants, replaced>>

\* consumer.messages() fails or the message stream ends: the task returns, the
\* channel stays in the map.
PumpExits(c) ==
    /\ pump[c] = "running"
    /\ pump' = [pump EXCEPT ![c] = "exited"]
    /\ replaced' = replaced \ {c}
    /\ UNCHANGED <<entry, refcount, subject, at, wants, handle, torn>>

RegNext ==
    \/ \E s \in Stream :
        \/ \E k \in Key : Lookup(s, k)
        \/ \E c \in Channel : SpawnPump(s, c)
        \/ Join(s) \/ FallThrough(s) \/ OpenFails(s) \/ Insert(s) \/ Drop(s)
    \/ \E c \in Channel : PumpExits(c)

RegSpec == RegInit /\ [][RegNext]_regVars

-----------------------------------------------------------------------------
(* Properties.                                                             *)

\* registry.rs: the refcount is the "Number of live StreamHandles referencing
\* this channel".
CountIsHandles(k) ==
    entry[k] # None =>
        refcount[entry[k]] = Cardinality({s \in Holders(k) : handle[s] = entry[k]})

\* A stream is not cut off by the departure of another one: while it is open, its channel
\* is the one in the map, and its pump was not aborted.
NotCutOff(k) == \A s \in Holders(k) : handle[s] = entry[k] /\ pump[handle[s]] # "aborted"

\* However subscriptions overlap, a key counts its streams and cuts none off until an
\* insertion replaces the channel of another slow path, and again once its last stream left.
\* Consumers that overlap in the slow path do no harm by themselves.
ExactUnlessTorn == \A k \in Key \ torn : CountIsHandles(k) /\ NotCutOff(k)

\* No consumer is left behind unaccounted for: a pump serves the channel in the map, or one
\* that is being inserted, or it was replaced; and one that was replaced is in no map entry
\* any more, and nobody aborts it.
PumpsAreKnown ==
    /\ \A c \in Pumping :
         \/ entry[subject[c]] = c
         \/ \E s \in SlowPath(subject[c]) : handle[s] = c
         \/ c \in replaced
    /\ replaced \subseteq Pumping
    /\ \A k \in Key : entry[k] \notin replaced

\* However subscriptions overlap, a channel in the map is counted for at least
\* one stream and for no more streams than are open: when the last stream of a
\* key goes, its entry goes with it.
EntryNeverOutlivesStreams ==
    \A k \in Key : entry[k] # None =>
        refcount[entry[k]] \in 1..Cardinality(Holders(k))

\* What overlapping subscriptions can break, and nothing else: counts and streams of a key
\* whose channel was replaced while one of its streams is open, and the pump that was
\* replaced.
OnlyReplacingBreaks == ExactUnlessTorn /\ PumpsAreKnown

\* registry.rs: the registry "owns one ephemeral NATS push consumer per board (within this
\* pod)", at least while nobody is opening one.
OneConsumer ==
    \A k \in Key : SlowPath(k) = {} =>
        \A c, d \in Pumping : subject[c] = k /\ subject[d] = k => c = d
=============================================================================
