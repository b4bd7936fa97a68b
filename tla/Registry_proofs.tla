---------------------------- MODULE Registry_proofs ----------------------------
(***************************************************************************)
(* Proofs about the subscriber registry, for any sets of keys and streams  *)
(* and any number of channels.  RegBase is what holds however the slow     *)
(* paths overlap: a channel in the map is counted for at least one stream  *)
(* and for no more than are open.  RegInv adds what only the replacement   *)
(* of a channel breaks, and for which keys: counts are exact and nobody is *)
(* cut off unless an insertion found an entry since the key was last free. *)
(*                                                                         *)
(* That only finitely many streams are open at a time is part of the       *)
(* invariant, not an assumption on Stream.                                 *)
(***************************************************************************)
EXTENDS Registry, FiniteSetTheorems, TLAPS

HoldersFinite == \A k \in Key : IsFiniteSet(Holders(k))

\* A channel whose pump was spawned and that is not yet in the map belongs to one stream.
SpawnedIsPrivate ==
    \A s \in Stream : at[s] = "spawned" =>
        /\ \A k \in Key : entry[k] # handle[s]
        /\ \A t \in Stream : handle[t] = handle[s] => t = s

OneKeyPerChannel == \A k, l \in Key : entry[k] = entry[l] /\ entry[k] # None => k = l

RegBase ==
    /\ RegTypeOK
    /\ HoldersFinite
    /\ SpawnedIsPrivate
    /\ OneKeyPerChannel
    /\ EntryNeverOutlivesStreams

-----------------------------------------------------------------------------
\* subscribe_object and StreamHandle::drop: a step of one stream adds it to the holders of one
\* key or takes it from them.
LEMMA HoldersOfKey ==
    ASSUME RegTypeOK, RegTypeOK', NEW k \in Key, NEW s \in Stream,
           \A t \in Stream \ {s} : at'[t] = at[t] /\ wants'[t] = wants[t]
    PROVE  /\ at'[s] = "open" /\ wants'[s] = k => Holders(k)' = Holders(k) \cup {s}
           /\ ~(at'[s] = "open" /\ wants'[s] = k) => Holders(k)' = Holders(k) \ {s}
BY DEF Holders

\* The types, for every step.
LEMMA RegTypeStep == RegTypeOK /\ [RegNext]_regVars => RegTypeOK'
<1> SUFFICES ASSUME RegTypeOK, [RegNext]_regVars PROVE RegTypeOK'
  OBVIOUS
<1> USE RegistryAssumption DEF RegTypeOK, None, Channel, regGhosts, Pumping
<1>1. ASSUME NEW s \in Stream, NEW k \in Key, Lookup(s, k) PROVE RegTypeOK'
  BY <1>1 DEF Lookup
<1>2. ASSUME NEW s \in Stream, NEW c \in Channel, SpawnPump(s, c) PROVE RegTypeOK'
  BY <1>2 DEF SpawnPump
<1>3. ASSUME NEW s \in Stream, Join(s) PROVE RegTypeOK'
  <2>1. entry[wants[s]] \in Channel
    BY <1>3 DEF Join
  <2> QED BY <1>3, <2>1 DEF Join
<1>4. ASSUME NEW s \in Stream, FallThrough(s) PROVE RegTypeOK'
  BY <1>4 DEF FallThrough
<1>5. ASSUME NEW s \in Stream, OpenFails(s) PROVE RegTypeOK'
  BY <1>5 DEF OpenFails
<1>6. ASSUME NEW s \in Stream, Insert(s) PROVE RegTypeOK'
  <2>1. handle[s] \in Channel
    BY <1>6 DEF Insert
  <2> QED BY <1>6, <2>1 DEF Insert
<1>7. ASSUME NEW s \in Stream, Drop(s) PROVE RegTypeOK'
  <2>1. entry[wants[s]] \in Channel \cup {None}
    OBVIOUS
  <2>2. CASE entry[wants[s]] = None
    BY <1>7, <2>2 DEF Drop, Mends
  <2>3. CASE entry[wants[s]] # None
    <3>1. refcount' \in [Channel -> Nat]
      <4>1. PICK c \in Channel : c = entry[wants[s]]
        BY <2>1, <2>3
      <4>2. refcount' = [refcount EXCEPT ![c] = IF @ = 0 THEN 0 ELSE @ - 1]
        BY <1>7, <2>3, <4>1 DEF Drop
      <4> QED BY <4>2
    <3>2. entry' \in [Key -> Channel \cup {None}]
      BY <1>7, <2>1, <2>3, ZenonT(60) DEF Drop
    <3>3. pump' \in [Channel -> {"none", "running", "exited", "aborted"}]
      BY <1>7, <2>1, <2>3 DEF Drop
    <3> QED BY <1>7, <3>1, <3>2, <3>3 DEF Drop, Mends
  <2> QED BY <2>2, <2>3
<1>8. ASSUME NEW c \in Channel, PumpExits(c) PROVE RegTypeOK'
  BY <1>8 DEF PumpExits
<1>9. ASSUME UNCHANGED regVars PROVE RegTypeOK'
  BY <1>9 DEF regVars
<1> QED BY <1>1, <1>2, <1>3, <1>4, <1>5, <1>6, <1>7, <1>8, <1>9 DEF RegNext

-----------------------------------------------------------------------------
\* An empty registry satisfies the invariant.
LEMMA InitRegBase == RegInit => RegBase
<1> SUFFICES ASSUME RegInit PROVE RegBase
  OBVIOUS
<1>1. RegTypeOK
  BY DEF RegInit, RegTypeOK, None, Channel
<1>2. HoldersFinite
  <2> SUFFICES ASSUME NEW k \in Key PROVE IsFiniteSet(Holders(k))
    BY DEF HoldersFinite
  <2>1. Holders(k) = {}
    BY DEF RegInit, Holders
  <2> QED BY <2>1, FS_EmptySet
<1>3. SpawnedIsPrivate /\ OneKeyPerChannel /\ EntryNeverOutlivesStreams
  BY DEF RegInit, SpawnedIsPrivate, OneKeyPerChannel, EntryNeverOutlivesStreams, None
<1> QED BY <1>1, <1>2, <1>3 DEF RegBase

\* Steps before the stream is open: no key gains or loses a holder.
LEMMA SameHolders ==
    ASSUME RegBase, RegTypeOK', NEW s \in Stream, at[s] # "open", at'[s] # "open",
           \A t \in Stream \ {s} : at'[t] = at[t] /\ wants'[t] = wants[t]
    PROVE  HoldersFinite' /\ \A k \in Key : Holders(k)' = Holders(k)
<1>1. ASSUME NEW k \in Key PROVE Holders(k)' = Holders(k)
  <2>1. Holders(k)' = Holders(k) \ {s}
    BY HoldersOfKey DEF RegBase
  <2>2. s \notin Holders(k)
    BY DEF Holders
  <2> QED BY <2>1, <2>2
<1> QED BY <1>1 DEF RegBase, HoldersFinite

\* Lookup, FallThrough and OpenFails leave the map and the channels alone.
LEMMA WaitingKeepsBase ==
    ASSUME RegBase, RegTypeOK', NEW s \in Stream,
           \/ \E k \in Key : Lookup(s, k)
           \/ FallThrough(s) \/ OpenFails(s)
    PROVE  RegBase'
<1>1. /\ at[s] \in {"idle", "found", "opening"} /\ at'[s] \in {"idle", "found", "opening"}
      /\ \A t \in Stream \ {s} : at'[t] = at[t] /\ wants'[t] = wants[t]
      /\ UNCHANGED <<entry, refcount, pump, subject, handle>>
  BY DEF Lookup, FallThrough, OpenFails, RegBase, RegTypeOK
<1>2. HoldersFinite' /\ \A k \in Key : Holders(k)' = Holders(k)
  BY <1>1, SameHolders
<1>3. SpawnedIsPrivate'
  BY <1>1 DEF RegBase, RegTypeOK, SpawnedIsPrivate
<1>4. OneKeyPerChannel' /\ EntryNeverOutlivesStreams'
  BY <1>1, <1>2 DEF RegBase, OneKeyPerChannel, EntryNeverOutlivesStreams
<1> QED BY <1>2, <1>3, <1>4 DEF RegBase

\* The consumer of a new channel: the channel is nobody else's.
LEMMA SpawnKeepsBase ==
    ASSUME RegBase, RegTypeOK', NEW s \in Stream, NEW c \in Channel, SpawnPump(s, c)
    PROVE  RegBase'
<1>1. /\ at[s] = "opening" /\ at' = [at EXCEPT ![s] = "spawned"]
      /\ handle' = [handle EXCEPT ![s] = c] /\ refcount' = [refcount EXCEPT ![c] = 0]
      /\ (\A k \in Key : entry[k] # c) /\ (\A t \in Stream : handle[t] # c)
      /\ UNCHANGED <<entry, wants>>
  BY DEF SpawnPump, Unused
<1>2. HoldersFinite' /\ \A k \in Key : Holders(k)' = Holders(k)
  BY <1>1, SameHolders DEF RegBase, RegTypeOK
<1>3. SpawnedIsPrivate'
  BY <1>1 DEF RegBase, RegTypeOK, SpawnedIsPrivate
<1>4. OneKeyPerChannel'
  BY <1>1 DEF RegBase, OneKeyPerChannel
<1>5. EntryNeverOutlivesStreams'
  <2> SUFFICES ASSUME NEW k \in Key, entry[k] # None
               PROVE  refcount'[entry[k]] \in 1..Cardinality(Holders(k)')
    BY <1>1 DEF EntryNeverOutlivesStreams
  <2>1. refcount'[entry[k]] = refcount[entry[k]]
    BY <1>1 DEF RegBase, RegTypeOK
  <2> QED BY <1>2, <2>1 DEF RegBase, EntryNeverOutlivesStreams
<1> QED BY <1>2, <1>3, <1>4, <1>5 DEF RegBase

\* Join counts the stream, Insert starts the count with it.
LEMMA OpeningKeepsBase ==
    ASSUME RegBase, RegTypeOK', NEW s \in Stream, Join(s) \/ Insert(s)
    PROVE  RegBase'
<1>0. PICK k \in Key : k = wants[s]
  BY DEF RegBase, RegTypeOK
<1> DEFINE c == IF at[s] = "found" THEN entry[k] ELSE handle[s]
<1>1. /\ at[s] \in {"found", "spawned"} /\ at' = [at EXCEPT ![s] = "open"]
      /\ k = wants[s] /\ c \in Channel /\ handle'[s] = c /\ entry' = [entry EXCEPT ![k] = c]
      /\ \A t \in Stream \ {s} : handle'[t] = handle[t]
      /\ refcount' = [refcount EXCEPT ![c] = IF at[s] = "found" THEN @ + 1 ELSE 1]
      /\ UNCHANGED <<wants, pump, subject>>
  <2>1. CASE Join(s)
    <3>1. entry[k] \in Channel
      BY <1>0, <2>1 DEF Join, RegBase, RegTypeOK
    <3>2. entry = [entry EXCEPT ![k] = c]
      BY <1>0, <2>1 DEF Join, RegBase, RegTypeOK
    <3> QED BY <1>0, <2>1, <3>1, <3>2 DEF Join, RegBase, RegTypeOK
  <2>2. CASE Insert(s)
    BY <1>0, <2>2 DEF Insert, RegBase, RegTypeOK, None
  <2> QED BY <2>1, <2>2
<1>2. ASSUME NEW l \in Key, l # k PROVE Holders(l)' = Holders(l)
  <2>1. Holders(l)' = Holders(l) \ {s}
    BY <1>1, <1>2, HoldersOfKey DEF RegBase, RegTypeOK
  <2>2. s \notin Holders(l)
    BY <1>1 DEF Holders
  <2> QED BY <2>1, <2>2
<1>3. Holders(k)' = Holders(k) \cup {s} /\ s \notin Holders(k)
  BY <1>1, HoldersOfKey DEF RegBase, RegTypeOK, Holders
<1>4. IsFiniteSet(Holders(k)')
      /\ Cardinality(Holders(k)') = Cardinality(Holders(k)) + 1 /\ Cardinality(Holders(k)) \in Nat
  BY <1>1, <1>3, FS_AddElement, FS_CardinalityType DEF RegBase, HoldersFinite
<1>5. HoldersFinite'
  BY <1>2, <1>4 DEF RegBase, HoldersFinite
<1>6. \A l \in Key : l # k => entry[l] # c
  BY <1>1 DEF RegBase, OneKeyPerChannel, SpawnedIsPrivate, None, Channel
<1>7. SpawnedIsPrivate'
  BY <1>1, <1>6 DEF RegBase, RegTypeOK, SpawnedIsPrivate
<1>8. OneKeyPerChannel'
  BY <1>1, <1>6 DEF RegBase, RegTypeOK, OneKeyPerChannel
<1>9. EntryNeverOutlivesStreams'
  <2> SUFFICES ASSUME NEW l \in Key, entry'[l] # None
               PROVE  refcount'[entry'[l]] \in 1..Cardinality(Holders(l)')
    BY DEF EntryNeverOutlivesStreams
  <2>1. CASE l = k
    <3>1. entry'[l] = c
      BY <1>1, <2>1 DEF RegBase, RegTypeOK
    <3>2. CASE at[s] = "found"
      <4>1. entry[k] = c /\ c # None
        BY <1>1, <3>2 DEF None, Channel
      <4>2. refcount[c] \in 1..Cardinality(Holders(k))
        BY <1>1, <4>1 DEF RegBase, EntryNeverOutlivesStreams
      <4>3. refcount'[c] = refcount[c] + 1
        BY <1>1, <3>2 DEF RegBase, RegTypeOK
      <4> QED BY <2>1, <3>1, <4>2, <4>3, <1>4
    <3>3. CASE at[s] = "spawned"
      <4>1. refcount'[c] = 1
        BY <1>1, <3>3 DEF RegBase, RegTypeOK
      <4> QED BY <2>1, <3>1, <4>1, <1>4
    <3> QED BY <3>2, <3>3, <1>1
  <2>2. CASE l # k
    <3>1. entry'[l] = entry[l] /\ entry[l] # c
      BY <1>1, <1>6, <2>2 DEF RegBase, RegTypeOK
    <3>2. refcount'[entry[l]] = refcount[entry[l]]
      BY <1>1, <3>1 DEF RegBase, RegTypeOK
    <3> QED BY <3>1, <3>2, <1>2, <2>2 DEF RegBase, EntryNeverOutlivesStreams
  <2> QED BY <2>1, <2>2
<1> QED BY <1>5, <1>7, <1>8, <1>9 DEF RegBase

\* The last handle takes the entry with it, an earlier one leaves the count with the others.
LEMMA DropKeepsBase ==
    ASSUME RegBase, RegTypeOK', NEW s \in Stream, Drop(s)
    PROVE  RegBase'
<1>0. PICK k \in Key : k = wants[s]
  BY DEF RegBase, RegTypeOK
<1> DEFINE c == entry[k]
<1>1. /\ at[s] = "open" /\ at' = [at EXCEPT ![s] = "idle"] /\ handle' = [handle EXCEPT ![s] = None]
      /\ k = wants[s] /\ c \in Channel \cup {None} /\ UNCHANGED <<wants, subject>>
  BY <1>0 DEF Drop, RegBase, RegTypeOK
<1>2. ASSUME NEW l \in Key, l # k PROVE Holders(l)' = Holders(l)
  <2>1. Holders(l)' = Holders(l) \ {s}
    BY <1>1, <1>2, HoldersOfKey DEF RegBase, RegTypeOK
  <2>2. s \notin Holders(l)
    BY <1>1, <1>2 DEF Holders
  <2> QED BY <2>1, <2>2
<1>3. Holders(k)' = Holders(k) \ {s} /\ s \in Holders(k)
  BY <1>1, HoldersOfKey DEF RegBase, RegTypeOK, Holders
<1>4. IsFiniteSet(Holders(k)')
      /\ Cardinality(Holders(k)') = Cardinality(Holders(k)) - 1 /\ Cardinality(Holders(k)) \in Nat
  BY <1>1, <1>3, FS_RemoveElement, FS_CardinalityType DEF RegBase, HoldersFinite
<1>5. HoldersFinite'
  BY <1>2, <1>4 DEF RegBase, HoldersFinite
<1>6. \A l \in Key : l # k => entry'[l] = entry[l] /\ (c # None => entry[l] # c)
  BY <1>1 DEF Drop, RegBase, RegTypeOK, OneKeyPerChannel
<1>7. entry'[k] \in {c, None}
  BY <1>1 DEF Drop, RegBase, RegTypeOK
<1>8. SpawnedIsPrivate'
  <2> SUFFICES ASSUME NEW t \in Stream, at'[t] = "spawned"
               PROVE  /\ \A l \in Key : entry'[l] # handle'[t]
                      /\ \A u \in Stream : handle'[u] = handle'[t] => u = t
    BY DEF SpawnedIsPrivate
  <2>1. t # s /\ at[t] = "spawned" /\ handle'[t] = handle[t] /\ handle[t] \in Channel /\ handle[t] # None
    BY <1>1 DEF RegBase, RegTypeOK
  <2>2. \A l \in Key : entry'[l] # handle'[t]
    BY <2>1, <1>6, <1>7, <1>1 DEF RegBase, SpawnedIsPrivate
  <2>3. \A u \in Stream : handle'[u] = handle'[t] => u = t
    BY <2>1, <1>1 DEF RegBase, RegTypeOK, SpawnedIsPrivate
  <2> QED BY <2>2, <2>3
<1>9. OneKeyPerChannel'
  BY <1>1, <1>6, <1>7 DEF RegBase, OneKeyPerChannel
<1>10. EntryNeverOutlivesStreams'
  <2> SUFFICES ASSUME NEW l \in Key, entry'[l] # None
               PROVE  refcount'[entry'[l]] \in 1..Cardinality(Holders(l)')
    BY DEF EntryNeverOutlivesStreams
  <2>1. CASE l = k
    <3>1. c \in Channel /\ c # None /\ entry'[l] = c
      BY <1>1, <1>7, <2>1
    <3>2. refcount[c] \in 1..Cardinality(Holders(k))
      BY <1>1, <3>1 DEF RegBase, EntryNeverOutlivesStreams
    <3>3. refcount'[c] = refcount[c] - 1 /\ refcount'[c] # 0
      BY <3>1, <3>2, <2>1, <1>1 DEF Drop, RegBase, RegTypeOK
    <3> QED BY <2>1, <3>1, <3>2, <3>3, <1>4
  <2>2. CASE l # k
    <3>1. entry'[l] = entry[l] /\ (c # None => entry[l] # c)
      BY <1>6, <2>2
    <3>2. refcount'[entry[l]] = refcount[entry[l]]
      <4>1. CASE c = None
        BY <1>1, <4>1 DEF Drop
      <4>2. CASE c # None
        BY <1>1, <4>2, <3>1 DEF Drop, RegBase, RegTypeOK
      <4> QED BY <4>1, <4>2
    <3> QED BY <3>1, <3>2, <1>2, <2>2 DEF RegBase, EntryNeverOutlivesStreams
  <2> QED BY <2>1, <2>2
<1> QED BY <1>5, <1>8, <1>9, <1>10 DEF RegBase

\* Every step keeps RegBase.
LEMMA RegBaseStep == RegBase /\ [RegNext]_regVars => RegBase'
<1> SUFFICES ASSUME RegBase, [RegNext]_regVars PROVE RegBase'
  OBVIOUS
<1>1. RegTypeOK'
  BY RegTypeStep DEF RegBase
<1>2. ASSUME NEW s \in Stream, \/ \E k \in Key : Lookup(s, k)
                               \/ FallThrough(s) \/ OpenFails(s)
      PROVE  RegBase'
  BY <1>1, <1>2, WaitingKeepsBase
<1>3. ASSUME NEW s \in Stream, NEW c \in Channel, SpawnPump(s, c) PROVE RegBase'
  BY <1>1, <1>3, SpawnKeepsBase
<1>4. ASSUME NEW s \in Stream, Join(s) \/ Insert(s) PROVE RegBase'
  BY <1>1, <1>4, OpeningKeepsBase
<1>5. ASSUME NEW s \in Stream, Drop(s) PROVE RegBase'
  BY <1>1, <1>5, DropKeepsBase
<1>6. ASSUME UNCHANGED <<entry, refcount, at, wants, handle>> PROVE RegBase'
  BY <1>1, <1>6 DEF RegBase, HoldersFinite, Holders, SpawnedIsPrivate, OneKeyPerChannel,
                    EntryNeverOutlivesStreams
<1> QED BY <1>2, <1>3, <1>4, <1>5, <1>6 DEF RegNext, PumpExits, regVars

-----------------------------------------------------------------------------
\* registry.rs, StreamHandle: types and counts hold for every run of the registry.
LEMMA RegBaseInvariant == RegSpec => []RegBase
BY InitRegBase, RegBaseStep, PTL DEF RegSpec

\* The state of the registry keeps its type: a stream has the handle of a channel exactly
\* from the moment its pump is spawned until it drops it.
THEOREM RegTypes == RegSpec => []RegTypeOK
<1>1. RegBase => RegTypeOK
  BY DEF RegBase
<1> QED BY <1>1, RegBaseInvariant, PTL

\* BoardChannel.refcount, however subscriptions overlap: a channel in the map is counted for
\* at least one stream and for no more streams than are open.
THEOREM EntryGoesWithStreams == RegSpec => []EntryNeverOutlivesStreams
<1>1. RegBase => EntryNeverOutlivesStreams
  BY DEF RegBase
<1> QED BY <1>1, RegBaseInvariant, PTL

-----------------------------------------------------------------------------
(* What only a replacement breaks.                                         *)

\* A channel that is not in the map yet filters the key of the stream that opened it, and
\* nothing has replaced or aborted it.
SpawnedIsRight ==
    \A s \in Stream : at[s] = "spawned" =>
        /\ subject[handle[s]] = wants[s] /\ pump[handle[s]] \in {"running", "exited"}
        /\ handle[s] \notin replaced

HandleIsEntry ==
    \A s \in Stream : at[s] = "open" /\ wants[s] \notin torn => handle[s] = entry[wants[s]]

EntryIsRight ==
    \A k \in Key : entry[k] # None =>
        subject[entry[k]] = k /\ pump[entry[k]] \in {"running", "exited"}

CountIsHolders ==
    \A k \in Key : entry[k] # None /\ k \notin torn =>
        refcount[entry[k]] = Cardinality(Holders(k))

RegInv ==
    /\ RegBase
    /\ SpawnedIsRight
    /\ HandleIsEntry
    /\ EntryIsRight
    /\ CountIsHolders
    /\ PumpsAreKnown

\* An empty registry satisfies the invariant.
LEMMA InitRegInv == RegInit => RegInv
<1> SUFFICES ASSUME RegInit PROVE RegInv
  OBVIOUS
<1>1. RegBase
  BY InitRegBase
<1>2. SpawnedIsRight /\ HandleIsEntry /\ EntryIsRight /\ CountIsHolders /\ PumpsAreKnown
  BY DEF RegInit, SpawnedIsRight, HandleIsEntry, EntryIsRight, CountIsHolders, PumpsAreKnown, Pumping
<1> QED BY <1>1, <1>2 DEF RegInv

\* Fast path, first half, and what may come instead of a channel.
LEMMA WaitingKeepsInv ==
    ASSUME RegInv, RegBase', NEW s \in Stream,
           \/ \E k \in Key : Lookup(s, k)
           \/ FallThrough(s) \/ OpenFails(s)
    PROVE  RegInv'
<1>1. /\ at[s] \in {"idle", "found", "opening"} /\ at'[s] \in {"idle", "found", "opening"}
      /\ \A t \in Stream \ {s} : at'[t] = at[t] /\ wants'[t] = wants[t]
      /\ UNCHANGED <<entry, refcount, pump, subject, handle, replaced, torn>>
  BY DEF Lookup, FallThrough, OpenFails, regGhosts, RegInv, RegBase, RegTypeOK
<1>2. \A k \in Key : Holders(k)' = Holders(k)
  BY <1>1, SameHolders DEF RegInv, RegBase
<1>3. SpawnedIsRight' /\ HandleIsEntry'
  BY <1>1 DEF RegInv, SpawnedIsRight, HandleIsEntry
<1>4. EntryIsRight' /\ CountIsHolders'
  BY <1>1, <1>2 DEF RegInv, EntryIsRight, CountIsHolders
<1>5. PumpsAreKnown'
  <2>1. Pumping' = Pumping
    BY <1>1 DEF Pumping
  <2> SUFFICES ASSUME NEW c \in Pumping, entry[subject[c]] # c, c \notin replaced
               PROVE  \E t \in SlowPath(subject[c])' : handle[t] = c
    BY <1>1, <2>1 DEF PumpsAreKnown, RegInv
  <2>2. PICK t \in SlowPath(subject[c]) : handle[t] = c
    BY DEF RegInv, PumpsAreKnown
  <2>3. at[t] = "spawned" /\ t # s
    BY <2>2, <1>1 DEF SlowPath, RegInv, RegBase, RegTypeOK, Pumping, None, Channel
  <2> QED BY <2>2, <2>3, <1>1 DEF SlowPath
<1> QED BY <1>3, <1>4, <1>5 DEF RegInv

\* The pump of a new channel.
LEMMA SpawnKeepsInv ==
    ASSUME RegInv, RegBase', NEW s \in Stream, NEW c \in Channel, SpawnPump(s, c)
    PROVE  RegInv'
<1>1. /\ at[s] = "opening" /\ at' = [at EXCEPT ![s] = "spawned"]
      /\ handle' = [handle EXCEPT ![s] = c] /\ refcount' = [refcount EXCEPT ![c] = 0]
      /\ pump' = [pump EXCEPT ![c] = "running"] /\ subject' = [subject EXCEPT ![c] = wants[s]]
      /\ pump[c] # "running" /\ (\A k \in Key : entry[k] # c) /\ (\A t \in Stream : handle[t] # c)
      /\ UNCHANGED <<entry, wants, replaced, torn>>
  BY DEF SpawnPump, Unused, regGhosts
<1>2. RegTypeOK
  BY DEF RegInv, RegBase
<1>3. \A k \in Key : Holders(k)' = Holders(k)
  BY <1>1, <1>2, SameHolders DEF RegInv, RegBase, RegTypeOK
<1>4. \A k \in Key : SlowPath(k)' = SlowPath(k)
  BY <1>1, <1>2 DEF SlowPath, RegTypeOK
<1>5. c \notin replaced
  BY <1>1 DEF RegInv, PumpsAreKnown, Pumping
<1>6. SpawnedIsRight'
  BY <1>1, <1>2, <1>5 DEF RegInv, SpawnedIsRight, RegTypeOK
<1>7. HandleIsEntry'
  BY <1>1, <1>2 DEF RegInv, HandleIsEntry, RegTypeOK
<1>8. \A k \in Key : entry[k] # None =>
          /\ subject'[entry[k]] = subject[entry[k]] /\ pump'[entry[k]] = pump[entry[k]]
          /\ refcount'[entry[k]] = refcount[entry[k]]
  BY <1>1, <1>2 DEF RegTypeOK
<1>9. EntryIsRight' /\ CountIsHolders'
  BY <1>1, <1>3, <1>8 DEF RegInv, EntryIsRight, CountIsHolders
<1>10. PumpsAreKnown'
  <2>1. Pumping' = Pumping \cup {c}
    BY <1>1, <1>2 DEF Pumping, RegTypeOK
  <2> SUFFICES ASSUME NEW d \in Channel, NEW k \in Key, d \in Pumping', k = subject'[d],
                      entry[k] # d, d \notin replaced
               PROVE  \E t \in SlowPath(k)' : handle'[t] = d
    <3>1. RegTypeOK'
      BY DEF RegBase
    <3>2. replaced \subseteq Pumping /\ \A k \in Key : entry[k] \notin replaced
      BY DEF RegInv, PumpsAreKnown
    <3> QED BY <1>1, <2>1, <3>1, <3>2 DEF PumpsAreKnown, RegTypeOK, Pumping
  <2>2. CASE d = c
    <3>1. k = wants[s] /\ handle'[s] = d
      BY <1>1, <1>2, <2>2 DEF RegTypeOK
    <3>2. s \in SlowPath(k)'
      BY <1>1, <1>2, <3>1 DEF SlowPath, RegTypeOK
    <3> QED BY <3>1, <3>2
  <2>3. CASE d # c
    <3>1. d \in Pumping /\ k = subject[d]
      BY <1>1, <1>2, <2>1, <2>3 DEF RegTypeOK
    <3>2. PICK t \in SlowPath(k) : handle[t] = d
      BY <3>1 DEF RegInv, PumpsAreKnown
    <3>3. t # s
      BY <3>2, <1>1, <1>2 DEF SlowPath, RegTypeOK, None, Channel
    <3>4. handle'[t] = d
      BY <3>2, <3>3, <1>1, <1>2 DEF SlowPath, RegTypeOK
    <3> QED BY <3>2, <3>4, <1>4
  <2> QED BY <2>2, <2>3
<1> QED BY <1>6, <1>7, <1>9, <1>10 DEF RegInv

\* Fast path, second half: one more stream on the channel in the map.
LEMMA JoinKeepsInv ==
    ASSUME RegInv, RegBase', NEW s \in Stream, Join(s)
    PROVE  RegInv'
<1>1. RegTypeOK
  BY DEF RegInv, RegBase
<1>2. PICK k \in Key : k = wants[s]
  BY <1>1 DEF RegTypeOK
<1>3. PICK c \in Channel : c = entry[k]
  BY <1>1, <1>2 DEF Join, RegTypeOK
<1>4. /\ at[s] = "found" /\ at' = [at EXCEPT ![s] = "open"] /\ handle' = [handle EXCEPT ![s] = c]
      /\ refcount' = [refcount EXCEPT ![c] = @ + 1]
      /\ UNCHANGED <<entry, pump, subject, wants, replaced, torn>>
  BY <1>2, <1>3 DEF Join, regGhosts
<1>5. \A l \in Key : SlowPath(l)' = SlowPath(l)
  BY <1>1, <1>4 DEF SlowPath, RegTypeOK
<1>7. SpawnedIsRight' /\ EntryIsRight'
  BY <1>1, <1>4 DEF RegInv, SpawnedIsRight, EntryIsRight, RegTypeOK
<1>8. HandleIsEntry'
  BY <1>1, <1>2, <1>3, <1>4 DEF RegInv, HandleIsEntry, RegTypeOK
<1>9. CountIsHolders'
  <2> SUFFICES ASSUME NEW l \in Key, entry[l] # None, l \notin torn
               PROVE  refcount'[entry[l]] = Cardinality(Holders(l)')
    BY <1>4 DEF CountIsHolders
  <2>1. CASE l = k
    <3>1. Holders(k)' = Holders(k) \cup {s} /\ s \notin Holders(k)
      BY <1>1, <1>2, <1>4, HoldersOfKey DEF RegBase, RegTypeOK, Holders
    <3>2. Cardinality(Holders(k)') = Cardinality(Holders(k)) + 1
      BY <3>1, FS_AddElement DEF RegInv, RegBase, HoldersFinite
    <3>3. refcount'[c] = refcount[c] + 1
      BY <1>1, <1>4 DEF RegTypeOK
    <3>4. refcount[c] = Cardinality(Holders(k))
      BY <1>3, <2>1 DEF RegInv, CountIsHolders
    <3> QED BY <2>1, <1>3, <3>2, <3>3, <3>4
  <2>2. CASE l # k
    <3>1. Holders(l)' = Holders(l)
      <4>1. Holders(l)' = Holders(l) \ {s} /\ s \notin Holders(l)
        BY <1>1, <1>2, <1>4, <2>2, HoldersOfKey DEF RegBase, RegTypeOK, Holders
      <4> QED BY <4>1
    <3>2. entry[l] # c
      BY <1>3, <2>2 DEF RegInv, RegBase, OneKeyPerChannel
    <3>3. refcount'[entry[l]] = refcount[entry[l]]
      BY <1>1, <1>4, <3>2 DEF RegTypeOK
    <3> QED BY <3>1, <3>3 DEF RegInv, CountIsHolders
  <2> QED BY <2>1, <2>2
<1>10. PumpsAreKnown'
  <2>1. Pumping' = Pumping
    BY <1>4 DEF Pumping
  <2> SUFFICES ASSUME NEW d \in Channel, NEW l \in Key, d \in Pumping, l = subject[d],
                      entry[l] # d, d \notin replaced
               PROVE  \E t \in SlowPath(l)' : handle'[t] = d
    BY <1>1, <1>4, <2>1 DEF PumpsAreKnown, RegInv, RegTypeOK, Pumping
  <2>2. PICK t \in SlowPath(l) : handle[t] = d
    BY DEF RegInv, PumpsAreKnown
  <2>3. t # s
    BY <2>2, <1>4 DEF SlowPath
  <2>4. handle'[t] = d
    BY <2>2, <2>3, <1>1, <1>4 DEF SlowPath, RegTypeOK
  <2> QED BY <2>2, <2>4, <1>5
<1> QED BY <1>7, <1>8, <1>9, <1>10 DEF RegInv

\* The end of the slow path: what the map held under the key is replaced, and from then on the
\* key is torn; when it held nothing, nobody has the key open unless it was torn before.
LEMMA InsertKeepsInv ==
    ASSUME RegInv, RegBase', NEW s \in Stream, Insert(s)
    PROVE  RegInv'
<1>1. RegTypeOK
  BY DEF RegInv, RegBase
<1>2. PICK k \in Key : k = wants[s]
  BY <1>1 DEF RegTypeOK
<1>3. PICK c \in Channel : c = handle[s]
  BY <1>1 DEF Insert, RegTypeOK
<1>4. /\ at[s] = "spawned" /\ at' = [at EXCEPT ![s] = "open"] /\ entry' = [entry EXCEPT ![k] = c]
      /\ refcount' = [refcount EXCEPT ![c] = 1] /\ UNCHANGED <<handle, pump, subject, wants>>
      /\ replaced' = replaced \cup ({entry[k]} \cap Pumping)
      /\ torn' = IF entry[k] = None THEN torn ELSE torn \cup {k}
  BY <1>2, <1>3 DEF Insert
<1>5. subject[c] = k /\ pump[c] \in {"running", "exited"} /\ c \notin replaced
  BY <1>2, <1>3, <1>4 DEF RegInv, SpawnedIsRight
<1>6. \A l \in Key : SlowPath(l)' = SlowPath(l) \ {s}
  BY <1>1, <1>4 DEF SlowPath, RegTypeOK
<1>7. \A l \in Key : entry[l] # c /\ (l # k => entry'[l] = entry[l])
  BY <1>1, <1>3, <1>4 DEF RegInv, RegBase, SpawnedIsPrivate, RegTypeOK
<1>8. k \notin torn' => k \notin torn /\ entry[k] = None /\ Holders(k) = {}
  <2> SUFFICES ASSUME k \notin torn' PROVE k \notin torn /\ entry[k] = None /\ Holders(k) = {}
    OBVIOUS
  <2>1. k \notin torn /\ entry[k] = None
    BY <1>4
  <2>2. ASSUME NEW t \in Holders(k) PROVE FALSE
    <3>1. handle[t] \in Channel /\ handle[t] # None
      BY <1>1 DEF Holders, RegTypeOK
    <3>2. handle[t] = None
      BY <2>1 DEF Holders, RegInv, HandleIsEntry
    <3> QED BY <3>1, <3>2
  <2> QED BY <2>1, <2>2
<1>9. SpawnedIsRight'
  <2> SUFFICES ASSUME NEW t \in Stream, at'[t] = "spawned"
               PROVE  /\ subject[handle[t]] = wants[t] /\ pump[handle[t]] \in {"running", "exited"}
                      /\ handle[t] \notin replaced'
    BY <1>4 DEF SpawnedIsRight
  <2>1. at[t] = "spawned" /\ entry[k] # handle[t]
    BY <1>1, <1>4 DEF RegInv, RegBase, SpawnedIsPrivate, RegTypeOK
  <2> QED BY <2>1, <1>4 DEF RegInv, SpawnedIsRight
<1>10. HandleIsEntry'
  <2> SUFFICES ASSUME NEW t \in Stream, at'[t] = "open", wants[t] \notin torn'
               PROVE  handle[t] = entry'[wants[t]]
    BY <1>4 DEF HandleIsEntry
  <2>1. CASE t = s
    BY <2>1, <1>1, <1>2, <1>3, <1>4 DEF RegTypeOK
  <2>2. CASE t # s
    <3>1. at[t] = "open" /\ wants[t] \in Key /\ wants[t] \notin torn
      BY <2>2, <1>1, <1>4 DEF RegTypeOK
    <3>2. wants[t] # k
      BY <3>1, <1>8 DEF Holders
    <3> QED BY <3>1, <3>2, <1>7 DEF RegInv, HandleIsEntry
  <2> QED BY <2>1, <2>2
<1>11. EntryIsRight'
  BY <1>1, <1>4, <1>5, <1>7 DEF RegInv, EntryIsRight, RegTypeOK
<1>12. CountIsHolders'
  <2> SUFFICES ASSUME NEW l \in Key, entry'[l] # None, l \notin torn'
               PROVE  refcount'[entry'[l]] = Cardinality(Holders(l)')
    BY DEF CountIsHolders
  <2>1. CASE l = k
    <3>1. Holders(k)' = {s}
      BY <2>1, <1>1, <1>2, <1>4, <1>8, HoldersOfKey DEF RegBase, RegTypeOK
    <3>2. Cardinality(Holders(k)') = 1
      BY <3>1, FS_Singleton
    <3>3. entry'[l] = c /\ refcount'[c] = 1
      BY <1>1, <1>4, <2>1 DEF RegTypeOK
    <3> QED BY <2>1, <3>2, <3>3
  <2>2. CASE l # k
    <3>1. Holders(l)' = Holders(l)
      <4>1. Holders(l)' = Holders(l) \ {s} /\ s \notin Holders(l)
        BY <1>1, <1>2, <1>4, <2>2, HoldersOfKey DEF RegBase, RegTypeOK, Holders
      <4> QED BY <4>1
    <3>2. refcount'[entry[l]] = refcount[entry[l]] /\ l \notin torn
      BY <1>1, <1>4, <1>7, <2>2 DEF RegTypeOK
    <3> QED BY <2>2, <1>7, <3>1, <3>2 DEF RegInv, CountIsHolders
  <2> QED BY <2>1, <2>2
<1>13. PumpsAreKnown'
  <2>1. Pumping' = Pumping
    BY <1>4 DEF Pumping
  <2>2. replaced' \subseteq Pumping
    BY <1>4 DEF RegInv, PumpsAreKnown
  <2>3. ASSUME NEW l \in Key PROVE entry'[l] \notin replaced'
    <3>1. CASE l = k
      BY <3>1, <1>1, <1>4, <1>5, <1>7 DEF RegTypeOK
    <3>2. CASE l # k
      <4>1. entry'[l] = entry[l] /\ entry[l] \notin replaced
        BY <3>2, <1>7 DEF RegInv, PumpsAreKnown
      <4>2. entry[l] = entry[k] => entry[k] = None
        BY <3>2 DEF RegInv, RegBase, OneKeyPerChannel
      <4> QED BY <4>1, <4>2, <1>4 DEF Pumping, None, Channel
    <3> QED BY <3>1, <3>2
  <2>4. ASSUME NEW d \in Channel, NEW l \in Key, d \in Pumping, l = subject[d],
               entry'[l] # d, d \notin replaced'
        PROVE  \E t \in SlowPath(l)' : handle[t] = d
    <3>1. d # c
      BY <2>4, <1>1, <1>4, <1>5 DEF RegTypeOK
    <3>2. entry[l] # d /\ d \notin replaced
      BY <2>4, <1>4, <1>7
    <3>3. PICK t \in SlowPath(l) : handle[t] = d
      BY <2>4, <3>2 DEF RegInv, PumpsAreKnown
    <3>4. t # s
      BY <3>1, <3>3, <1>3
    <3> QED BY <3>3, <3>4, <1>6
  <2> QED BY <2>1, <2>2, <2>3, <2>4, <1>1, <1>4 DEF PumpsAreKnown, Pumping, RegTypeOK
<1> QED BY <1>9, <1>10, <1>11, <1>12, <1>13 DEF RegInv

\* StreamHandle::drop: for a key that is not torn the channel in the map is that of the handle
\* and the count says whether another stream has it; whatever the key, the last of its streams
\* takes the entry with it.
LEMMA DropKeepsInv ==
    ASSUME RegInv, RegBase', NEW s \in Stream, Drop(s)
    PROVE  RegInv'
<1>1. RegTypeOK
  BY DEF RegInv, RegBase
<1>2. PICK k \in Key : k = wants[s]
  BY <1>1 DEF RegTypeOK
<1>3. PICK c \in Channel \cup {None} : c = entry[k]
  BY <1>1 DEF RegTypeOK
<1>4. /\ at[s] = "open" /\ at' = [at EXCEPT ![s] = "idle"] /\ handle' = [handle EXCEPT ![s] = None]
      /\ UNCHANGED <<subject, wants, replaced>>
      /\ torn' = IF Holders(k) = {s} THEN torn \ {k} ELSE torn
  BY <1>2 DEF Drop, Mends
<1>5. /\ Holders(k)' = Holders(k) \ {s} /\ s \in Holders(k) /\ IsFiniteSet(Holders(k))
      /\ Cardinality(Holders(k)) \in Nat /\ Cardinality(Holders(k)') = Cardinality(Holders(k)) - 1
  <2>1. Holders(k)' = Holders(k) \ {s} /\ s \in Holders(k)
    BY <1>1, <1>2, <1>4, HoldersOfKey DEF RegBase, RegTypeOK, Holders
  <2>2. IsFiniteSet(Holders(k))
    BY DEF RegInv, RegBase, HoldersFinite
  <2> QED BY <2>1, <2>2, FS_RemoveElement, FS_CardinalityType
<1>6. c # None => refcount[c] \in 1..Cardinality(Holders(k)) /\ refcount[c] \in Nat
  BY <1>1, <1>3 DEF RegInv, RegBase, EntryNeverOutlivesStreams, RegTypeOK
<1>7. c = None => UNCHANGED <<entry, refcount, pump>>
  BY <1>2, <1>3 DEF Drop
<1>8. c # None =>
        /\ refcount' = [refcount EXCEPT ![c] = @ - 1]
        /\ IF refcount[c] = 1
           THEN /\ entry' = [entry EXCEPT ![k] = None]
                /\ pump' = [pump EXCEPT ![c] = IF @ = "running" THEN "aborted" ELSE @]
           ELSE UNCHANGED <<entry, pump>>
  BY <1>1, <1>2, <1>3, <1>6 DEF Drop, RegTypeOK
<1>9. \A l \in Key : l # k => entry'[l] = entry[l] /\ (c # None => entry[l] # c) /\ Holders(l)' = Holders(l)
  <2> SUFFICES ASSUME NEW l \in Key, l # k
               PROVE  entry'[l] = entry[l] /\ (c # None => entry[l] # c) /\ Holders(l)' = Holders(l)
    OBVIOUS
  <2>1. c # None => entry[l] # c
    BY <1>3 DEF RegInv, RegBase, OneKeyPerChannel
  <2>2. entry' = [entry EXCEPT ![k] = None] \/ entry' = entry
    BY <1>7, <1>8
  <2>3. entry'[l] = entry[l]
    BY <2>2, <1>1 DEF RegTypeOK
  <2>4. Holders(l)' = Holders(l) \ {s} /\ s \notin Holders(l)
    BY <1>1, <1>2, <1>4, HoldersOfKey DEF RegBase, RegTypeOK, Holders
  <2> QED BY <2>1, <2>3, <2>4
<1>10. \A l \in Key : SlowPath(l)' = SlowPath(l)
  BY <1>1, <1>4 DEF SlowPath, RegTypeOK
<1>11. /\ entry'[k] \in {c, None}
       /\ c # None => /\ refcount'[c] = refcount[c] - 1
                      /\ refcount[c] # 1 => entry'[k] = c
                      /\ refcount[c] = 1 => entry'[k] = None /\ pump'[c] # "running"
  BY <1>1, <1>3, <1>7, <1>8 DEF RegTypeOK
<1>12. /\ \A d \in Channel : d # c => pump'[d] = pump[d] /\ refcount'[d] = refcount[d]
       /\ c # None /\ refcount[c] # 1 => pump' = pump
  BY <1>1, <1>3, <1>7, <1>8 DEF RegTypeOK
<1>13. SpawnedIsRight'
  <2> SUFFICES ASSUME NEW t \in Stream, at'[t] = "spawned"
               PROVE  /\ subject[handle'[t]] = wants[t] /\ pump'[handle'[t]] \in {"running", "exited"}
                      /\ handle'[t] \notin replaced
    BY <1>4 DEF SpawnedIsRight
  <2>1. at[t] = "spawned" /\ handle'[t] = handle[t] /\ handle[t] \in Channel /\ handle[t] # c
    BY <1>1, <1>3, <1>4 DEF RegInv, RegBase, SpawnedIsPrivate, RegTypeOK
  <2> QED BY <2>1, <1>12 DEF RegInv, SpawnedIsRight
<1>14. HandleIsEntry'
  <2> SUFFICES ASSUME NEW t \in Stream, at'[t] = "open", wants[t] \notin torn'
               PROVE  handle'[t] = entry'[wants[t]]
    BY <1>4 DEF HandleIsEntry
  <2>1. t # s /\ at[t] = "open" /\ handle'[t] = handle[t] /\ handle[t] \in Channel /\ wants[t] \in Key
    BY <1>1, <1>4 DEF RegTypeOK
  <2>2. CASE wants[t] = k
    <3>1. t \in Holders(k)'
      BY <2>1, <2>2, <1>5 DEF Holders
    <3>2. Holders(k) # {s} /\ k \notin torn
      BY <3>1, <1>4, <1>5, <2>2
    <3>3. handle[t] = c /\ c # None
      BY <2>1, <2>2, <3>2, <1>3 DEF RegInv, HandleIsEntry, None, Channel
    <3>4. refcount[c] = Cardinality(Holders(k))
      BY <1>3, <3>2, <3>3 DEF RegInv, CountIsHolders
    <3>5. Cardinality(Holders(k)') # 0
      <4>1. IsFiniteSet(Holders(k)') /\ Holders(k)' # {}
        BY <3>1, <1>5, FS_RemoveElement
      <4> QED BY <4>1, FS_EmptySet
    <3>6. refcount[c] # 1
      BY <3>4, <3>5, <1>5
    <3> QED BY <2>1, <2>2, <3>3, <3>6, <1>11
  <2>3. CASE wants[t] # k
    BY <2>1, <2>3, <1>4, <1>9 DEF RegInv, HandleIsEntry
  <2> QED BY <2>2, <2>3
<1>15. EntryIsRight'
  <2> SUFFICES ASSUME NEW l \in Key, entry'[l] # None
               PROVE  subject[entry'[l]] = l /\ pump'[entry'[l]] \in {"running", "exited"}
    BY <1>4 DEF EntryIsRight
  <2>1. CASE l = k
    <3>1. c # None /\ entry'[l] = c /\ refcount[c] # 1
      BY <2>1, <1>11
    <3> QED BY <2>1, <3>1, <1>3, <1>12 DEF RegInv, EntryIsRight
  <2>2. CASE l # k
    <3>1. entry'[l] = entry[l] /\ entry[l] \in Channel /\ entry[l] # c
      BY <2>2, <1>1, <1>9 DEF RegTypeOK
    <3> QED BY <3>1, <1>12 DEF RegInv, EntryIsRight
  <2> QED BY <2>1, <2>2
<1>16. CountIsHolders'
  <2> SUFFICES ASSUME NEW l \in Key, entry'[l] # None, l \notin torn'
               PROVE  refcount'[entry'[l]] = Cardinality(Holders(l)')
    BY DEF CountIsHolders
  <2>1. CASE l = k
    <3>1. c # None /\ entry'[l] = c /\ refcount'[c] = refcount[c] - 1 /\ refcount[c] # 1
      BY <2>1, <1>11
    <3>2. Holders(k) # {s}
      <4>1. ASSUME Holders(k) = {s} PROVE FALSE
        <5>1. Cardinality(Holders(k)) = 1
          BY <4>1, FS_Singleton
        <5> QED BY <5>1, <3>1, <1>6
      <4> QED BY <4>1
    <3>3. refcount[c] = Cardinality(Holders(k))
      BY <2>1, <3>1, <3>2, <1>3, <1>4 DEF RegInv, CountIsHolders
    <3> QED BY <2>1, <3>1, <3>3, <1>5
  <2>2. CASE l # k
    <3>1. entry'[l] = entry[l] /\ entry[l] \in Channel /\ entry[l] # c
      BY <2>2, <1>1, <1>9 DEF RegTypeOK
    <3> QED BY <2>2, <3>1, <1>4, <1>9, <1>12 DEF RegInv, CountIsHolders
  <2> QED BY <2>1, <2>2
<1>17. PumpsAreKnown'
  <2>1. Pumping' \subseteq Pumping
    BY <1>1, <1>3, <1>7, <1>8 DEF Pumping, RegTypeOK
  <2>2. replaced \subseteq Pumping'
    <3> SUFFICES ASSUME NEW d \in replaced PROVE d \in Pumping'
      OBVIOUS
    <3>1. d \in Channel /\ pump[d] = "running" /\ d # c
      BY <1>3 DEF RegInv, PumpsAreKnown, Pumping
    <3> QED BY <3>1, <1>12 DEF Pumping
  <2>3. ASSUME NEW l \in Key PROVE entry'[l] \notin replaced
    <3>1. entry[l] \notin replaced
      BY DEF RegInv, PumpsAreKnown
    <3>2. None \notin replaced
      BY <1>1 DEF RegTypeOK, None, Channel
    <3> QED BY <3>1, <3>2, <1>3, <1>9, <1>11
  <2>4. ASSUME NEW d \in Channel, NEW l \in Key, d \in Pumping', l = subject[d],
               entry'[l] # d, d \notin replaced
        PROVE  \E t \in SlowPath(l)' : handle'[t] = d
    <3>1. d # c
      <4> SUFFICES ASSUME d = c PROVE FALSE
        OBVIOUS
      <4>1. c # None
        BY <2>4 DEF None, Channel
      <4>2. l = k
        BY <2>4, <4>1, <1>3 DEF RegInv, EntryIsRight
      <4>3. refcount[c] = 1
        BY <2>4, <4>1, <4>2, <1>11
      <4> QED BY <2>4, <4>1, <4>3, <1>11 DEF Pumping
    <3>2. entry[l] # d
      BY <2>4, <3>1, <1>3, <1>9
    <3>3. PICK t \in SlowPath(l) : handle[t] = d
      BY <2>1, <2>4, <3>2 DEF RegInv, PumpsAreKnown
    <3>4. t # s
      BY <3>3, <1>4 DEF SlowPath
    <3>5. handle'[t] = d
      BY <3>3, <3>4, <1>1, <1>4 DEF SlowPath, RegTypeOK
    <3> QED BY <3>3, <3>5, <1>10
  <2> QED BY <2>2, <2>3, <2>4, <1>1, <1>4 DEF PumpsAreKnown, Pumping, RegTypeOK
<1> QED BY <1>13, <1>14, <1>15, <1>16, <1>17 DEF RegInv

\* A pump that ends by itself stays what the map holds.
LEMMA ExitKeepsInv ==
    ASSUME RegInv, RegBase', NEW c \in Channel, PumpExits(c)
    PROVE  RegInv'
<1>1. /\ pump' = [pump EXCEPT ![c] = "exited"] /\ replaced' = replaced \ {c}
      /\ UNCHANGED <<entry, refcount, subject, at, wants, handle, torn>> /\ RegTypeOK
  BY DEF PumpExits, RegInv, RegBase
<1>2. \A d \in Channel : pump'[d] \in {pump[d], "exited"}
  BY <1>1 DEF RegTypeOK
<1>3. HandleIsEntry' /\ CountIsHolders'
  BY <1>1 DEF RegInv, HandleIsEntry, CountIsHolders, Holders
<1>4. SpawnedIsRight' /\ EntryIsRight'
  BY <1>1, <1>2 DEF RegInv, SpawnedIsRight, EntryIsRight, RegTypeOK
<1>5. PumpsAreKnown'
  <2>1. Pumping' = Pumping \ {c}
    BY <1>1 DEF Pumping, RegTypeOK
  <2>2. \A k \in Key : SlowPath(k)' = SlowPath(k)
    BY <1>1 DEF SlowPath
  <2> QED BY <1>1, <2>1, <2>2 DEF RegInv, PumpsAreKnown, RegTypeOK, Pumping
<1> QED BY <1>3, <1>4, <1>5 DEF RegInv

\* Every step keeps RegInv, whatever overlaps.
LEMMA RegInvStep == RegInv /\ [RegNext]_regVars => RegInv'
<1> SUFFICES ASSUME RegInv, [RegNext]_regVars PROVE RegInv'
  OBVIOUS
<1>1. RegBase'
  BY RegBaseStep DEF RegInv
<1>2. ASSUME NEW s \in Stream, \/ \E k \in Key : Lookup(s, k)
                               \/ FallThrough(s) \/ OpenFails(s)
      PROVE  RegInv'
  BY <1>1, <1>2, WaitingKeepsInv
<1>3. ASSUME NEW s \in Stream, NEW c \in Channel, SpawnPump(s, c) PROVE RegInv'
  BY <1>1, <1>3, SpawnKeepsInv
<1>4. ASSUME NEW s \in Stream, Join(s) PROVE RegInv'
  BY <1>1, <1>4, JoinKeepsInv
<1>5. ASSUME NEW s \in Stream, Insert(s) PROVE RegInv'
  BY <1>1, <1>5, InsertKeepsInv
<1>6. ASSUME NEW s \in Stream, Drop(s) PROVE RegInv'
  BY <1>1, <1>6, DropKeepsInv
<1>7. ASSUME NEW c \in Channel, PumpExits(c) PROVE RegInv'
  BY <1>1, <1>7, ExitKeepsInv
<1>8. ASSUME UNCHANGED regVars PROVE RegInv'
  BY <1>1, <1>8 DEF regVars, regGhosts, RegInv, SpawnedIsRight, HandleIsEntry, EntryIsRight,
                    CountIsHolders, PumpsAreKnown, Pumping, SlowPath, Holders
<1> QED BY <1>2, <1>3, <1>4, <1>5, <1>6, <1>7, <1>8 DEF RegNext

\* The invariant gives what the registry keeps.
LEMMA RegInvBounds == RegInv => OnlyReplacingBreaks
<1> SUFFICES ASSUME RegInv PROVE OnlyReplacingBreaks
  OBVIOUS
<1> SUFFICES ASSUME NEW k \in Key \ torn PROVE CountIsHandles(k) /\ NotCutOff(k)
  BY DEF OnlyReplacingBreaks, ExactUnlessTorn, RegInv
<1>1. CountIsHandles(k)
  <2> SUFFICES ASSUME entry[k] # None
               PROVE  refcount[entry[k]] = Cardinality({s \in Holders(k) : handle[s] = entry[k]})
    BY DEF CountIsHandles
  <2>1. {s \in Holders(k) : handle[s] = entry[k]} = Holders(k)
    BY DEF Holders, RegInv, HandleIsEntry
  <2> QED BY <2>1 DEF RegInv, CountIsHolders
<1>2. NotCutOff(k)
  <2> SUFFICES ASSUME NEW s \in Holders(k)
               PROVE  handle[s] = entry[k] /\ pump[handle[s]] # "aborted"
    BY DEF NotCutOff
  <2>1. handle[s] = entry[k] /\ entry[k] # None
    BY DEF Holders, RegInv, HandleIsEntry, RegBase, RegTypeOK, None, Channel
  <2> QED BY <2>1 DEF RegInv, EntryIsRight
<1> QED BY <1>1, <1>2

\* BoardSubscriberRegistry, with any number of streams in the slow path of a key: counts are
\* exact and nobody is cut off in a key whose channel was not replaced since it was last free,
\* and every pump is that of the map, of a stream that is inserting it, or a replaced one.
THEOREM RegistryBreaksOnlySo == RegSpec => []OnlyReplacingBreaks
BY InitRegInv, RegInvStep, RegInvBounds, PTL DEF RegSpec
=============================================================================
