--------------------------- MODULE Outbox_proofs ---------------------------
(***************************************************************************)
(* What holds of the outbox for every set of boards, projects and pods and *)
(* every bound.  First the types, and the agreement of the nats_seq        *)
(* column, of the duplicate window and of the acknowledgements with the    *)
(* stream.  Then that no committed event of a board is skipped for good:   *)
(* when nothing is left to dispatch, the stream has every revision of      *)
(* every board.  Last that the outbox implements the safety part of        *)
(* EventFeed: what a handler commits is a Commit of the feed, a publish    *)
(* that stores a message is a Deliver, and everything else                 *)
(* (acknowledgements, marks, failures, crashes, the end of a duplicate     *)
(* window) is invisible to subscribers.                                    *)
(***************************************************************************)
EXTENDS OutboxFeed, FiniteSetTheorems, TLAPS

\* Only committed rows are in the table or in a pass.
CommittedOnly ==
    /\ \A r \in rows : scope[r] # NoScope
    /\ \A p \in Pod : \A r \in batch[p] : scope[r] # NoScope

\* Every sequence number somebody holds names a stored copy of its row.
SequencesAgree ==
    /\ \A r \in RowId : natsSeq[r] # 0 => Stored(r, natsSeq[r])
    /\ \A r \in RowId : dedup[r] # 0 => Stored(r, dedup[r])
    /\ \A p \in Pod, r \in RowId :
         pc[p] = "mark" /\ Current(p, r) => Stored(r, ack[p])

IInv == TypeOK /\ CommittedOnly /\ SequencesAgree

-----------------------------------------------------------------------------
(* Facts about the operators of the drain loop.                            *)

\* What the SELECT of a pass returns is undispatched rows.
LEMMA BatchIsUndispatched == Oldest(Undispatched) \subseteq rows
BY DEF Oldest, Undispatched

\* The stream after a publish: a stored copy of the row exists under the
\* sequence the window now holds, and no stored copy is lost or changed.
LEMMA StoreKeepsCopies ==
    ASSUME TypeOK, NEW r \in RowId, scope[r] # NoScope, Store(r),
           dedup[r] # 0 => Stored(r, dedup[r])
    PROVE  /\ stream' \in Seq(Message)
           /\ dedup' \in [RowId -> Nat]
           /\ Stored(r, dedup[r])'
           /\ \A q \in RowId : q # r => dedup'[q] = dedup[q]
           /\ \A q \in RowId, s \in Nat : Stored(q, s) => Stored(q, s)'
<1> DEFINE m == [id |-> r, scope |-> scope[r], rev |-> rev[r]]
<1>1. m \in Message
  BY DEF TypeOK, Message
<1>2. CASE dedup[r] # 0
  BY <1>2 DEF Store, Stored, TypeOK
<1>3. CASE dedup[r] = 0
  <2>1. stream' = Append(stream, m) /\ dedup' = [dedup EXCEPT ![r] = Len(stream) + 1]
    BY <1>3 DEF Store
  <2>2. /\ stream' \in Seq(Message)
        /\ Len(stream') = Len(stream) + 1
        /\ \A s \in 1..Len(stream) : stream'[s] = stream[s]
        /\ stream'[Len(stream) + 1] = m
    BY <1>1, <2>1 DEF TypeOK
  <2>3. Len(stream) \in Nat /\ DOMAIN stream = 1..Len(stream)
        /\ DOMAIN stream' = 1..(Len(stream) + 1)
    BY <2>2 DEF TypeOK
  <2>4. m.id = r
    OBVIOUS
  <2>5. dedup' \in [RowId -> Nat] /\ dedup'[r] = Len(stream) + 1
        /\ \A q \in RowId : q # r => dedup'[q] = dedup[q]
    BY <2>1, <2>3 DEF TypeOK
  <2>6. Stored(r, dedup[r])'
    BY <2>2, <2>3, <2>4, <2>5 DEF Stored
  <2>7. \A q \in RowId, s \in Nat : Stored(q, s) => Stored(q, s)'
    BY <2>2, <2>3 DEF Stored
  <2> QED BY <2>2, <2>5, <2>6, <2>7
<1> QED BY <1>2, <1>3

\* Marking, skipping or indexing the current row moves to the next one.
LEMMA NextRowInv ==
    ASSUME IInv, NEW p \in Pod, NEW r \in RowId, NextRow(p, r),
           UNCHANGED <<dbVars, natsSeq, lapses, mode>>,
           stream' \in Seq(Message), dedup' \in [RowId -> Nat],
           \A q \in RowId : dedup'[q] # 0 => Stored(q, dedup[q])',
           \A q \in RowId, s \in Nat : Stored(q, s) => Stored(q, s)'
    PROVE  IInv'
<1> USE DEF IInv, dbVars
<1>1. TypeOK' /\ CommittedOnly'
  BY DEF NextRow, TypeOK, CommittedOnly
<1>2. \A q \in RowId : natsSeq'[q] # 0 => Stored(q, natsSeq[q])'
  BY DEF TypeOK, SequencesAgree, Stored
<1>3. ASSUME NEW q \in Pod, NEW s \in RowId, pc'[q] = "mark", Current(q, s)'
      PROVE  Stored(s, ack[q])'
  <2>1. q # p
    BY <1>3 DEF NextRow, TypeOK
  <2>2. pc[q] = "mark" /\ Current(q, s) /\ ack'[q] = ack[q]
    BY <1>3, <2>1 DEF NextRow, TypeOK, Current
  <2>3. Stored(s, ack[q])
    BY <2>2 DEF SequencesAgree
  <2>4. ack[q] \in Nat
    BY DEF TypeOK
  <2> QED BY <2>2, <2>3, <2>4 DEF Stored
<1> QED BY <1>1, <1>2, <1>3 DEF SequencesAgree

-----------------------------------------------------------------------------
(* Each step of the specification preserves the invariant.                 *)

\* An empty outbox with every pod waiting satisfies the invariant.
LEMMA InitInv == Init => IInv
BY ScopeAssumption, BoundAssumption
   DEF Init, IInv, TypeOK, CommittedOnly, SequencesAgree, Stored, Current

\* A handler that commits an event row (or deletes a board, with the cascade)
\* keeps the invariant: the row it adds is new and undispatched.
LEMMA HandlersInv == IInv /\ Handlers => IInv'
<1> SUFFICES ASSUME IInv, Handlers PROVE IInv'
  OBVIOUS
<1> USE ScopeAssumption, NoScopeAssumption DEF Scope, Unused
<1>1. PICK r \in Unused, x \in Scope :
        /\ scope' = [scope EXCEPT ![r] = x]
        /\ rows' \subseteq rows \cup {r}
        /\ rev' \in [RowId -> Nat]
        /\ revision' \in [Board -> Nat]
        /\ boards' \in SUBSET Board
        /\ UNCHANGED <<natsSeq, streamVars, podVars>>
  <2>1. CASE \E r \in RowId, b \in Board : InsertBoardEvent(b, r)
    <3>1. PICK r \in RowId, b \in Board : InsertBoardEvent(b, r)
      BY <2>1
    <3>2. r \in Unused /\ b \in Scope
      BY <3>1 DEF InsertBoardEvent
    <3>3. /\ scope' = [scope EXCEPT ![r] = b]
          /\ rows' \subseteq rows \cup {r}
          /\ rev' \in [RowId -> Nat]
          /\ revision' \in [Board -> Nat]
          /\ boards' \in SUBSET Board
          /\ UNCHANGED <<natsSeq, streamVars, podVars>>
      BY <3>1 DEF InsertBoardEvent, IInv, TypeOK
    <3> QED BY <3>2, <3>3
  <2>2. CASE \E r \in RowId, b \in Board : DeleteBoard(b, r)
    <3>1. PICK r \in RowId, b \in Board : DeleteBoard(b, r)
      BY <2>2
    <3>2. r \in Unused /\ Home[b] \in Scope
      BY <3>1 DEF DeleteBoard
    <3>3. /\ scope' = [scope EXCEPT ![r] = Home[b]]
          /\ rows' \subseteq rows \cup {r}
          /\ rev' \in [RowId -> Nat]
          /\ revision' \in [Board -> Nat]
          /\ boards' \in SUBSET Board
          /\ UNCHANGED <<natsSeq, streamVars, podVars>>
      BY <3>1 DEF DeleteBoard, IInv, TypeOK
    <3> QED BY <3>2, <3>3
  <2>3. CASE \E r \in RowId, j \in Project : InsertProjectEvent(j, r)
    BY <2>3 DEF InsertProjectEvent, IInv, TypeOK
  <2> QED BY <2>1, <2>2, <2>3 DEF Handlers
<1>2. TypeOK'
  BY <1>1 DEF IInv, TypeOK, streamVars, podVars
<1>3. CommittedOnly'
  BY <1>1 DEF IInv, TypeOK, CommittedOnly, podVars
<1>4. SequencesAgree'
  BY <1>1 DEF IInv, SequencesAgree, Stored, Current, streamVars, podVars
<1> QED BY <1>2, <1>3, <1>4 DEF IInv

\* A publish keeps the invariant, acknowledged or not: the acknowledgement names
\* a sequence where the message is stored.
LEMMA PublishInv ==
    ASSUME IInv, NEW p \in Pod, NEW r \in RowId,
           Publish(p, r) \/ PublishAckLost(p, r)
    PROVE  IInv'
<1> USE DEF IInv
<1>1. scope[r] # NoScope
  BY DEF Publish, PublishAckLost, Current, CommittedOnly
<1>2. /\ stream' \in Seq(Message)
      /\ dedup' \in [RowId -> Nat]
      /\ Stored(r, dedup[r])'
      /\ \A q \in RowId : q # r => dedup'[q] = dedup[q]
      /\ \A q \in RowId, s \in Nat : Stored(q, s) => Stored(q, s)'
  BY <1>1, StoreKeepsCopies DEF Publish, PublishAckLost, SequencesAgree
<1>3. \A q \in RowId : dedup'[q] # 0 => Stored(q, dedup[q])'
  <2> SUFFICES ASSUME NEW q \in RowId, dedup'[q] # 0, q # r
               PROVE  Stored(q, dedup[q])'
    BY <1>2
  <2>1. dedup'[q] = dedup[q] /\ dedup[q] \in Nat /\ Stored(q, dedup[q])
    BY <1>2 DEF TypeOK, SequencesAgree
  <2> QED BY <1>2, <2>1 DEF Stored
<1>4. CASE Publish(p, r)
  <2>1. TypeOK' /\ CommittedOnly'
    BY <1>2, <1>4 DEF Publish, TypeOK, CommittedOnly, dbVars
  <2>2. \A q \in RowId : natsSeq'[q] # 0 => Stored(q, natsSeq[q])'
    BY <1>2, <1>4 DEF Publish, TypeOK, SequencesAgree, Stored
  <2>3. ASSUME NEW q \in Pod, NEW s \in RowId, pc'[q] = "mark", Current(q, s)'
        PROVE  Stored(s, ack[q])'
    <3>1. CASE q = p
      <4>1. s = r
        BY <1>4, <2>3, <3>1 DEF Publish, Current, RowId
      <4>2. ack'[q] = dedup'[r]
        BY <1>4, <3>1 DEF Publish, TypeOK
      <4> QED BY <1>2, <4>1, <4>2 DEF Stored
    <3>2. CASE q # p
      <4>1. pc[q] = "mark" /\ Current(q, s) /\ ack'[q] = ack[q] /\ ack[q] \in Nat
        BY <1>4, <2>3, <3>2 DEF Publish, TypeOK, Current
      <4>2. Stored(s, ack[q])
        BY <4>1 DEF SequencesAgree
      <4> QED BY <1>2, <4>1, <4>2 DEF Stored
    <3> QED BY <3>1, <3>2
  <2> QED BY <1>3, <2>1, <2>2, <2>3 DEF SequencesAgree
<1>5. CASE PublishAckLost(p, r)
  BY <1>2, <1>3, <1>5, NextRowInv DEF PublishAckLost
<1> QED BY <1>4, <1>5

\* Every step of a drain pass keeps the invariant.
LEMMA DispatchInv == ASSUME IInv, NEW p \in Pod, Dispatch(p) PROVE IInv'
<1> USE DEF IInv
<1>1. CASE SelectBatch(p)
  <2>1. TypeOK' /\ CommittedOnly'
    BY <1>1, BatchIsUndispatched DEF SelectBatch, TypeOK, CommittedOnly, dbVars, streamVars
  <2>2. SequencesAgree'
    BY <1>1 DEF SelectBatch, TypeOK, SequencesAgree, Stored, Current, streamVars
  <2> QED BY <2>1, <2>2
<1>2. CASE FinalDrainEmptyOrFailed(p)
  <2>1. TypeOK' /\ CommittedOnly'
    BY <1>2 DEF FinalDrainEmptyOrFailed, TypeOK, CommittedOnly, dbVars, streamVars
  <2>2. SequencesAgree'
    BY <1>2 DEF FinalDrainEmptyOrFailed, TypeOK, SequencesAgree, Stored, Current, streamVars
  <2> QED BY <2>1, <2>2
<1>3. CASE \E r \in RowId : Publish(p, r) \/ PublishAckLost(p, r)
  BY <1>3, PublishInv
<1>4. ASSUME NEW r \in RowId, PublishFails(p, r) \/ MarkFails(p, r) \/ Index(p, r)
      PROVE  IInv'
  <2>1. /\ stream' \in Seq(Message)
        /\ dedup' \in [RowId -> Nat]
        /\ \A q \in RowId : dedup'[q] # 0 => Stored(q, dedup[q])'
        /\ \A q \in RowId, s \in Nat : Stored(q, s) => Stored(q, s)'
    BY <1>4 DEF PublishFails, MarkFails, Index, TypeOK, SequencesAgree, Stored, streamVars
  <2>2. NextRow(p, r) /\ UNCHANGED <<dbVars, natsSeq, lapses, mode>>
    BY <1>4 DEF PublishFails, MarkFails, Index, streamVars
  <2> QED BY <2>1, <2>2, NextRowInv
<1>5. ASSUME NEW r \in RowId, Mark(p, r) PROVE IInv'
  <2>1. TypeOK' /\ CommittedOnly'
    BY <1>5 DEF Mark, TypeOK, CommittedOnly, dbVars, streamVars
  <2>2. \A q \in RowId : natsSeq'[q] # 0 => Stored(q, natsSeq[q])'
    BY <1>5 DEF Mark, TypeOK, SequencesAgree, Stored, streamVars
  <2>3. /\ \A q \in RowId : dedup'[q] # 0 => Stored(q, dedup[q])'
        /\ \A q \in Pod, s \in RowId :
             pc'[q] = "mark" /\ Current(q, s)' => Stored(s, ack[q])'
    BY <1>5 DEF Mark, TypeOK, SequencesAgree, Stored, Current, streamVars
  <2> QED BY <2>1, <2>2, <2>3 DEF SequencesAgree
<1> QED BY <1>1, <1>2, <1>3, <1>4, <1>5 DEF Dispatch

\* Shutdowns, crashes, restarts and the end of a duplicate window keep the
\* invariant: none of them forgets what the stream stored.
LEMMA EnvironmentInv == IInv /\ Environment => IInv'
<1> SUFFICES ASSUME IInv, Environment PROVE IInv'
  OBVIOUS
<1> USE DEF IInv
<1>1. ASSUME NEW p \in Pod, SignalShutdown(p) \/ Crash(p) \/ Restart(p)
      PROVE  IInv'
  <2>1. /\ UNCHANGED <<dbVars, natsSeq, streamVars>>
        /\ pc' \in [Pod -> {"wait", "publish", "mark", "index", "down"}]
        /\ mode' \in [Pod -> {"run", "stop", "final"}]
        /\ batch' \in [Pod -> SUBSET RowId]
        /\ ack' \in [Pod -> Nat]
        /\ \A q \in Pod : batch'[q] \subseteq batch[q]
        /\ \A q \in Pod : pc'[q] = "mark" =>
             pc[q] = "mark" /\ batch'[q] = batch[q] /\ ack'[q] = ack[q]
    <3>1. CASE SignalShutdown(p)
      BY <3>1 DEF SignalShutdown, TypeOK
    <3>2. CASE Crash(p)
      BY <3>2 DEF Crash, TypeOK
    <3>3. CASE Restart(p)
      BY <3>3 DEF Restart, TypeOK
    <3> QED BY <1>1, <3>1, <3>2, <3>3
  <2>2. TypeOK' /\ CommittedOnly'
    BY <2>1 DEF TypeOK, CommittedOnly, dbVars, streamVars
  <2>3. SequencesAgree'
    BY <2>1 DEF SequencesAgree, Stored, Current, streamVars
  <2> QED BY <2>2, <2>3
<1>2. ASSUME NEW r \in RowId, WindowLapses(r) PROVE IInv'
  <2>1. TypeOK' /\ CommittedOnly'
    BY <1>2 DEF WindowLapses, TypeOK, CommittedOnly, dbVars, podVars
  <2>2. SequencesAgree'
    BY <1>2 DEF WindowLapses, TypeOK, SequencesAgree, Stored, Current, podVars
  <2> QED BY <2>1, <2>2
<1> QED BY <1>1, <1>2 DEF Environment

\* A step that changes no variable keeps the invariant.
LEMMA StutterInv == IInv /\ UNCHANGED vars => IInv'
BY DEF IInv, TypeOK, CommittedOnly, SequencesAgree, Stored, Current,
       vars, dbVars, streamVars, podVars

\* The invariant holds in every state of the outbox.
LEMMA Inductive == Spec => []IInv
<1>1. IInv /\ [Next]_vars => IInv'
  BY HandlersInv, DispatchInv, EnvironmentInv, StutterInv DEF Next
<1> QED BY InitInv, <1>1, PTL DEF Spec

-----------------------------------------------------------------------------
(* The theorems.                                                           *)

\* The variables of the outbox always have their types; in particular every
\* published message has a scope, so the routing of the dispatcher never
\* falls through to its "no board/aggregated/project id" branch.
THEOREM TypeCorrect == Spec => []TypeOK
BY Inductive, PTL DEF IInv

\* A row marked dispatched is in the stream at the sequence number it records,
\* for any number of pods, rows and failures.
THEOREM MarkedStored == Spec => []MarkedIsStored
<1>1. IInv => MarkedIsStored
  BY DEF IInv, TypeOK, SequencesAgree, MarkedIsStored
<1> QED BY Inductive, <1>1, PTL

-----------------------------------------------------------------------------
(* At most one copy per duplicate window: the count is exact.              *)

InWindow(r) == IF dedup[r] # 0 THEN 1 ELSE 0

CopiesCounted ==
    \A r \in RowId :
        /\ IsFiniteSet(Copies(r))
        /\ Cardinality(Copies(r)) = lapses[r] + InWindow(r)

\* Storing a row adds one copy of it exactly when its window is over.
LEMMA StoreCounts ==
    ASSUME TypeOK, CopiesCounted, NEW r \in RowId, Store(r), UNCHANGED lapses
    PROVE  CopiesCounted'
<1> DEFINE m == [id |-> r, scope |-> scope[r], rev |-> rev[r]]
<1>1. CASE dedup[r] # 0
  BY <1>1 DEF Store, CopiesCounted, Copies, InWindow
<1>2. CASE dedup[r] = 0
  <2>1. stream' = Append(stream, m) /\ dedup' = [dedup EXCEPT ![r] = Len(stream) + 1]
    BY <1>2 DEF Store
  <2>2. Len(stream) \in Nat /\ DOMAIN stream = 1..Len(stream)
    BY DEF TypeOK
  <2>3. /\ DOMAIN stream' = 1..(Len(stream) + 1)
        /\ \A s \in 1..Len(stream) : stream'[s] = stream[s]
        /\ stream'[Len(stream) + 1] = m
    BY <2>1, <2>2 DEF TypeOK
  <2>4. m.id = r
    OBVIOUS
  <2>5. Copies(r)' = Copies(r) \cup {Len(stream) + 1} /\ Len(stream) + 1 \notin Copies(r)
    BY <2>2, <2>3, <2>4 DEF Copies
  <2>6. \A q \in RowId : q # r => Copies(q)' = Copies(q)
    BY <2>2, <2>3, <2>4 DEF Copies
  <2>7. IsFiniteSet(Copies(r)') /\ Cardinality(Copies(r)') = Cardinality(Copies(r)) + 1
    BY <2>5, FS_AddElement DEF CopiesCounted
  <2>8. dedup'[r] = Len(stream) + 1 /\ \A q \in RowId : q # r => dedup'[q] = dedup[q]
    BY <2>1 DEF TypeOK
  <2>9. Cardinality(Copies(r)') = lapses'[r] + InWindow(r)'
    BY <1>2, <2>2, <2>7, <2>8 DEF CopiesCounted, InWindow, TypeOK
  <2>10. ASSUME NEW q \in RowId, q # r
         PROVE  IsFiniteSet(Copies(q)') /\ Cardinality(Copies(q)') = lapses'[q] + InWindow(q)'
    BY <2>6, <2>8, <2>10 DEF CopiesCounted, InWindow
  <2> QED BY <2>7, <2>9, <2>10 DEF CopiesCounted
<1> QED BY <1>1, <1>2

\* The only other step that touches the stream or its window is the end of
\* a window.
LEMMA OtherStepsCount ==
    ASSUME TypeOK, [Next]_vars,
           ~ \E p \in Pod, r \in RowId : Publish(p, r) \/ PublishAckLost(p, r),
           ~ \E r \in RowId : WindowLapses(r)
    PROVE  UNCHANGED streamVars
<1>1. CASE Handlers
  BY <1>1 DEF Handlers, InsertBoardEvent, InsertProjectEvent, DeleteBoard
<1>2. ASSUME NEW p \in Pod, Dispatch(p) PROVE UNCHANGED streamVars
  BY <1>2 DEF Dispatch, SelectBatch, FinalDrainEmptyOrFailed, PublishFails, Mark,
              MarkFails, Index
<1>3. CASE Environment
  BY <1>3 DEF Environment, SignalShutdown, Crash, Restart
<1>4. CASE UNCHANGED vars
  BY <1>4 DEF vars
<1> QED BY <1>1, <1>2, <1>3, <1>4 DEF Next

\* The end of a duplicate window makes room for one more copy of that row.
LEMMA WindowLapsesCounts ==
    ASSUME TypeOK, CopiesCounted, NEW r \in RowId, WindowLapses(r)
    PROVE  CopiesCounted'
<1>1. \A q \in RowId : Copies(q)' = Copies(q)
  BY DEF WindowLapses, Copies
<1>2. \A q \in RowId : lapses'[q] + InWindow(q)' = lapses[q] + InWindow(q)
  BY DEF WindowLapses, InWindow, TypeOK
<1> QED BY <1>1, <1>2 DEF CopiesCounted

\* The count is exact in every state of the outbox.
LEMMA CountInductive == Spec => []CopiesCounted
<1>1. Init => CopiesCounted
  <2> SUFFICES ASSUME Init, NEW r \in RowId
               PROVE  IsFiniteSet(Copies(r)) /\ Cardinality(Copies(r)) = lapses[r] + InWindow(r)
    BY DEF CopiesCounted
  <2>1. Copies(r) = {} /\ lapses[r] + InWindow(r) = 0
    BY DEF Init, Copies, InWindow
  <2> QED BY <2>1, FS_EmptySet
<1>2. TypeOK /\ CopiesCounted /\ [Next]_vars => CopiesCounted'
  <2> SUFFICES ASSUME TypeOK, CopiesCounted, [Next]_vars PROVE CopiesCounted'
    OBVIOUS
  <2>1. ASSUME NEW p \in Pod, NEW r \in RowId, Publish(p, r) \/ PublishAckLost(p, r)
        PROVE  CopiesCounted'
    <3>1. Store(r) /\ UNCHANGED lapses
      BY <2>1 DEF Publish, PublishAckLost
    <3> QED BY <3>1, StoreCounts
  <2>2. ASSUME NEW r \in RowId, WindowLapses(r) PROVE CopiesCounted'
    BY <2>2, WindowLapsesCounts
  <2>3. ASSUME UNCHANGED streamVars PROVE CopiesCounted'
    BY <2>3 DEF CopiesCounted, Copies, InWindow, streamVars
  <2> QED BY <2>1, <2>2, <2>3, OtherStepsCount
<1> QED BY <1>1, <1>2, TypeCorrect, PTL DEF Spec

\* No retry, crash or second pod stores an event again while the stream still
\* remembers its message id: the copies of an event are bounded by the number
\* of its duplicate windows, whatever the number of pods.
THEOREM OneCopy == Spec => []OneCopyPerWindow
<1>1. TypeOK /\ CopiesCounted => OneCopyPerWindow
  <2> SUFFICES ASSUME TypeOK, CopiesCounted, NEW r \in RowId
               PROVE  Cardinality(Copies(r)) <= lapses[r] + 1
    BY DEF OneCopyPerWindow
  <2>1. lapses[r] \in Nat /\ InWindow(r) \in 0..1
    BY DEF TypeOK, InWindow
  <2>2. Cardinality(Copies(r)) = lapses[r] + InWindow(r)
    BY DEF CopiesCounted
  <2> QED BY <2>1, <2>2
<1> QED BY <1>1, CountInductive, TypeCorrect, PTL

-----------------------------------------------------------------------------
(* Nothing is skipped for good.                                            *)

\* The rows of a board that exists are in the table: only the cascade of its
\* own deletion removes them.
RowsKept == \A r \in RowId : scope[r] \in boards => r \in rows

\* The rows of a board carry its revisions, each of them and no other.
RevisionsRecorded ==
    \A b \in boards :
        /\ \A n \in 1..revision[b] : \E r \in rows : scope[r] = b /\ rev[r] = n
        /\ \A r \in rows : scope[r] = b => rev[r] \in 1..revision[b]

\* A message says what its row says.
MessagesFaithful ==
    \A s \in DOMAIN stream :
        LET m == stream[s]
        IN  scope[m.id] # NoScope /\ m.scope = scope[m.id] /\ m.rev = rev[m.id]

DrainInv == RowsKept /\ RevisionsRecorded /\ MessagesFaithful

-----------------------------------------------------------------------------
\* An empty outbox has every revision of boards that have none.
LEMMA InitDrain == Init => DrainInv
<1> SUFFICES ASSUME Init PROVE DrainInv
  OBVIOUS
<1>1. RowsKept
  BY ScopeAssumption, NoScopeAssumption DEF Init, RowsKept, Scope
<1>2. RevisionsRecorded
  BY DEF Init, RevisionsRecorded
<1>3. MessagesFaithful
  BY DEF Init, MessagesFaithful
<1> QED BY <1>1, <1>2, <1>3 DEF DrainInv

\* What is in the stream does not change when an unused row id is committed.
LEMMA CommitKeepsMessages ==
    ASSUME TypeOK, MessagesFaithful, NEW r \in Unused, NEW x \in Scope,
           scope' = [scope EXCEPT ![r] = x],
           \A q \in RowId : q # r => rev'[q] = rev[q],
           stream' = stream
    PROVE  MessagesFaithful'
<1> SUFFICES ASSUME NEW s \in DOMAIN stream
             PROVE  /\ scope'[stream[s].id] # NoScope
                    /\ stream[s].scope = scope'[stream[s].id]
                    /\ stream[s].rev = rev'[stream[s].id]
  BY DEF MessagesFaithful
<1>1. stream[s] \in Message
  BY DEF TypeOK
<1>2. stream[s].id \in RowId /\ stream[s].id # r
  BY <1>1 DEF Message, Unused, MessagesFaithful
<1> QED BY <1>2 DEF MessagesFaithful, TypeOK

\* InsertBoardEvent records the next revision of its board.
LEMMA BoardEventDrain ==
    ASSUME TypeOK, DrainInv, NEW b \in Board, NEW r \in RowId, InsertBoardEvent(b, r)
    PROVE  DrainInv'
<1> USE ScopeAssumption, NoScopeAssumption DEF DrainInv
<1>1. /\ r \in Unused /\ b \in boards /\ b \in Scope
      /\ scope'[r] = b /\ rev'[r] = revision[b] + 1
      /\ \A q \in RowId : q # r => scope'[q] = scope[q] /\ rev'[q] = rev[q]
      /\ rows' = rows \cup {r} /\ boards' = boards
      /\ revision'[b] = revision[b] + 1 /\ revision[b] \in Nat
      /\ \A a \in Board : a # b => revision'[a] = revision[a]
  BY DEF InsertBoardEvent, TypeOK, Scope
<1>2. scope[r] \notin Board
  BY <1>1 DEF Unused, Scope
<1>3. RowsKept'
  BY <1>1 DEF RowsKept
<1>4. RevisionsRecorded'
  <2> SUFFICES ASSUME NEW a \in boards
               PROVE  /\ \A n \in 1..revision'[a] :
                           \E q \in rows' : scope'[q] = a /\ rev'[q] = n
                      /\ \A q \in rows' : scope'[q] = a => rev'[q] \in 1..revision'[a]
    BY <1>1 DEF RevisionsRecorded
  <2>1. a \in Board /\ revision[a] \in Nat
    BY DEF TypeOK
  <2>2. /\ \A n \in 1..revision[a] : \E q \in rows : scope[q] = a /\ rev[q] = n
        /\ \A q \in rows : scope[q] = a => rev[q] \in 1..revision[a]
    BY DEF RevisionsRecorded
  <2>3. \A n \in 1..revision[a] : \E q \in rows' : scope'[q] = a /\ rev'[q] = n
    BY <1>1, <1>2, <2>1, <2>2 DEF TypeOK
  <2>4. \A q \in rows : q # r /\ scope'[q] = a => rev'[q] \in 1..revision[a]
    BY <1>1, <2>2 DEF TypeOK
  <2>5. CASE a = b
    BY <1>1, <2>1, <2>3, <2>4, <2>5
  <2>6. CASE a # b
    BY <1>1, <2>1, <2>3, <2>4, <2>6
  <2> QED BY <2>5, <2>6
<1>5. MessagesFaithful'
  BY <1>1, CommitKeepsMessages DEF InsertBoardEvent, streamVars
<1> QED BY <1>3, <1>4, <1>5

\* An event on a project, with or without the cascade of a deleted board, leaves
\* the other boards alone.
LEMMA ProjectEventDrain ==
    ASSUME TypeOK, DrainInv, NEW r \in RowId,
           \/ \E b \in Board : DeleteBoard(b, r)
           \/ \E j \in Project : InsertProjectEvent(j, r)
    PROVE  DrainInv'
<1> USE ScopeAssumption, NoScopeAssumption DEF DrainInv
<1>1. PICK j \in Project :
        /\ r \in Unused
        /\ scope' = [scope EXCEPT ![r] = j]
        /\ boards' \subseteq boards
        /\ rows' \subseteq rows \cup {r}
        /\ \A q \in rows : scope[q] \in boards' => q \in rows'
        /\ UNCHANGED <<revision, rev, stream>>
  <2>1. CASE \E b \in Board : DeleteBoard(b, r)
    <3>1. PICK b \in Board : DeleteBoard(b, r)
      BY <2>1
    <3>2. Home[b] \in Project
      OBVIOUS
    <3> QED BY <3>1, <3>2 DEF DeleteBoard, streamVars
  <2>2. CASE \E j \in Project : InsertProjectEvent(j, r)
    BY <2>2 DEF InsertProjectEvent, streamVars
  <2> QED BY <2>1, <2>2
<1>2. /\ scope'[r] \notin Board /\ scope[r] \notin Board /\ j \in Scope
      /\ \A q \in RowId : q # r => scope'[q] = scope[q]
  BY <1>1 DEF Unused, Scope, TypeOK
<1>3. RowsKept'
  BY <1>1, <1>2 DEF RowsKept, TypeOK
<1>4. RevisionsRecorded'
  <2> SUFFICES ASSUME NEW a \in boards'
               PROVE  /\ \A n \in 1..revision[a] :
                           \E q \in rows' : scope'[q] = a /\ rev[q] = n
                      /\ \A q \in rows' : scope'[q] = a => rev[q] \in 1..revision[a]
    BY <1>1 DEF RevisionsRecorded
  <2>1. a \in boards /\ a \in Board
    BY <1>1 DEF TypeOK
  <2>2. /\ \A n \in 1..revision[a] : \E q \in rows : scope[q] = a /\ rev[q] = n
        /\ \A q \in rows : scope[q] = a => rev[q] \in 1..revision[a]
    BY <2>1 DEF RevisionsRecorded
  <2>3. \A q \in rows : scope[q] = a => q \in rows' /\ scope'[q] = a
    BY <1>1, <1>2, <2>1 DEF TypeOK
  <2>4. \A q \in rows' : scope'[q] = a => q \in rows /\ scope[q] = a
    BY <1>1, <1>2, <2>1 DEF TypeOK
  <2> QED BY <2>2, <2>3, <2>4
<1>5. MessagesFaithful'
  BY <1>1, <1>2, CommitKeepsMessages
<1> QED BY <1>3, <1>4, <1>5

\* A publish adds a message that says what its row says, or none.
LEMMA StoreDrain ==
    ASSUME TypeOK, DrainInv, NEW r \in RowId, scope[r] # NoScope, Store(r),
           UNCHANGED dbVars
    PROVE  DrainInv'
<1> DEFINE m == [id |-> r, scope |-> scope[r], rev |-> rev[r]]
<1>1. RowsKept' /\ RevisionsRecorded'
  BY DEF DrainInv, RowsKept, RevisionsRecorded, dbVars
<1>2. MessagesFaithful'
  <2>1. CASE dedup[r] # 0
    BY <2>1 DEF Store, DrainInv, MessagesFaithful, dbVars
  <2>2. CASE dedup[r] = 0
    <3>1. stream' = Append(stream, m)
      BY <2>2 DEF Store
    <3>2. m.id = r /\ m.scope = scope[r] /\ m.rev = rev[r]
      OBVIOUS
    <3> HIDE DEF m
    <3>3. /\ Len(stream) \in Nat /\ DOMAIN stream = 1..Len(stream)
          /\ DOMAIN stream' = 1..(Len(stream) + 1)
          /\ \A s \in 1..Len(stream) : stream'[s] = stream[s]
          /\ stream'[Len(stream) + 1] = m
      <4>1. stream \in Seq(Message)
        BY DEF TypeOK
      <4>2. m \in Message
        BY DEF m, TypeOK, Message
      <4> QED BY <3>1, <4>1, <4>2
    <3> QED BY <3>2, <3>3 DEF DrainInv, MessagesFaithful, dbVars
  <2> QED BY <2>1, <2>2
<1> QED BY <1>1, <1>2 DEF DrainInv

\* Steps that leave the rows and the stream alone.
LEMMA OtherDrain ==
    ASSUME DrainInv, UNCHANGED <<dbVars, stream>>
    PROVE  DrainInv'
BY DEF DrainInv, RowsKept, RevisionsRecorded, MessagesFaithful, dbVars

\* Every step of the outbox keeps the invariant.
LEMMA DrainStep == IInv /\ DrainInv /\ [Next]_vars => DrainInv'
<1> SUFFICES ASSUME IInv, DrainInv, [Next]_vars PROVE DrainInv'
  OBVIOUS
<1> USE DEF IInv
<1>1. CASE Handlers
  BY <1>1, BoardEventDrain, ProjectEventDrain DEF Handlers, TypeOK
<1>2. ASSUME NEW p \in Pod, Dispatch(p) PROVE DrainInv'
  <2>1. ASSUME NEW r \in RowId, Publish(p, r) \/ PublishAckLost(p, r) PROVE DrainInv'
    <3>1. Store(r) /\ scope[r] # NoScope /\ UNCHANGED dbVars
      BY <2>1 DEF Publish, PublishAckLost, Current, CommittedOnly
    <3> QED BY <3>1, StoreDrain
  <2>2. CASE ~ \E r \in RowId : Publish(p, r) \/ PublishAckLost(p, r)
    <3>1. UNCHANGED <<dbVars, stream>>
      BY <1>2, <2>2 DEF Dispatch, SelectBatch, FinalDrainEmptyOrFailed, PublishFails,
                        Mark, MarkFails, Index, streamVars
    <3> QED BY <3>1, OtherDrain
  <2> QED BY <2>1, <2>2
<1>3. CASE Environment
  <2>1. UNCHANGED <<dbVars, stream>>
    BY <1>3 DEF Environment, SignalShutdown, Crash, Restart, WindowLapses, streamVars
  <2> QED BY <2>1, OtherDrain
<1>4. CASE UNCHANGED vars
  BY <1>4, OtherDrain DEF vars, streamVars
<1> QED BY <1>1, <1>2, <1>3, <1>4 DEF Next

\* When nothing waits for dispatch, every revision of every board is in the
\* stream and nothing else is there under its name: failed publishes that are
\* skipped, lost acknowledgements and pods that die leave no hole behind.
THEOREM Drained == Spec => []DrainedIsComplete
<1>1. IInv /\ DrainInv => DrainedIsComplete
  <2> SUFFICES ASSUME IInv, DrainInv, Undispatched = {}, NEW b \in boards
               PROVE  {stream[s].rev : s \in {t \in DOMAIN stream : stream[t].scope = b}}
                        = 1..revision[b]
    BY DEF DrainedIsComplete
  <2>1. b \in Board /\ b # NoScope
    BY ScopeAssumption, NoScopeAssumption DEF IInv, TypeOK, Scope
  <2>2. ASSUME NEW s \in DOMAIN stream, stream[s].scope = b
        PROVE  stream[s].rev \in 1..revision[b]
    <3>1. stream[s] \in Message
      BY DEF IInv, TypeOK
    <3>2. stream[s].id \in RowId /\ scope[stream[s].id] = b /\ stream[s].rev = rev[stream[s].id]
      BY <2>2, <3>1 DEF DrainInv, MessagesFaithful, Message
    <3> QED BY <3>2 DEF DrainInv, RowsKept, RevisionsRecorded
  <2>3. ASSUME NEW n \in 1..revision[b]
        PROVE  \E s \in DOMAIN stream : stream[s].scope = b /\ stream[s].rev = n
    <3>1. PICK r \in rows : scope[r] = b /\ rev[r] = n
      BY DEF DrainInv, RevisionsRecorded
    <3>2. r \in RowId /\ natsSeq[r] # 0
      BY DEF Undispatched, IInv, TypeOK
    <3>3. natsSeq[r] \in DOMAIN stream /\ stream[natsSeq[r]].id = r
      BY <3>2 DEF IInv, SequencesAgree, Stored
    <3> QED BY <3>1, <3>3 DEF DrainInv, MessagesFaithful
  <2> QED BY <2>2, <2>3
<1>2. Spec => []DrainInv
  BY InitDrain, DrainStep, Inductive, PTL DEF Spec
<1> QED BY <1>1, <1>2, Inductive, PTL

-----------------------------------------------------------------------------
(* The refinement of EventFeed.                                            *)

\* The variables of the feed, as the refinement mapping gives them.
Committed == RowId \ Unused
Withdrawn == Committed \ rows
Fed == [s \in DOMAIN stream |-> stream[s].id]

LapsesBounded == \A r \in RowId : lapses[r] <= MaxLapse

-----------------------------------------------------------------------------
\* A window ends at most MaxLapse times: the guard of WindowLapses is the only
\* bound on the copies of an event.
LEMMA LapsesInductive == Spec => []LapsesBounded
<1>1. Init => LapsesBounded
  BY BoundAssumption DEF Init, LapsesBounded
<1>2. TypeOK /\ LapsesBounded /\ [Next]_vars => LapsesBounded'
  <2> SUFFICES ASSUME TypeOK, LapsesBounded, [Next]_vars PROVE LapsesBounded'
    OBVIOUS
  <2>1. ASSUME NEW p \in Pod, NEW r \in RowId, Publish(p, r) \/ PublishAckLost(p, r)
        PROVE  LapsesBounded'
    BY <2>1 DEF Publish, PublishAckLost, LapsesBounded
  <2>2. ASSUME NEW r \in RowId, WindowLapses(r) PROVE LapsesBounded'
    BY <2>2, BoundAssumption DEF WindowLapses, LapsesBounded, TypeOK
  <2>3. ASSUME UNCHANGED streamVars PROVE LapsesBounded'
    BY <2>3 DEF LapsesBounded, streamVars
  <2> QED BY <2>1, <2>2, <2>3, OtherStepsCount
<1> QED BY <1>1, <1>2, TypeCorrect, PTL DEF Spec

\* A step that leaves the table, the scopes and the stream alone is invisible.
LEMMA Invisible ==
    ASSUME UNCHANGED <<scope, rows, stream>>
    PROVE  UNCHANGED (Feed!feedVars)
BY DEF Feed!feedVars, Unused

\* A transaction of a handler commits one event and withdraws the rows that its
\* cascade removes.
LEMMA HandlersCommit ==
    ASSUME TypeOK, CommittedOnly, Handlers
    PROVE  Feed!FeedNext
<1> USE ScopeAssumption, NoScopeAssumption DEF Scope
<1>1. PICK r \in RowId, x \in Scope :
        /\ r \in Unused
        /\ scope' = [scope EXCEPT ![r] = x]
        /\ rows' \subseteq rows \cup {r}
        /\ r \in rows'
        /\ stream' = stream
  <2>1. CASE \E r \in RowId, b \in Board : InsertBoardEvent(b, r)
    BY <2>1 DEF InsertBoardEvent, TypeOK, streamVars
  <2>2. CASE \E r \in RowId, b \in Board : DeleteBoard(b, r)
    <3>1. PICK r \in RowId, b \in Board : DeleteBoard(b, r)
      BY <2>2
    <3>2. Home[b] \in Scope
      OBVIOUS
    <3> QED BY <3>1, <3>2 DEF DeleteBoard, streamVars
  <2>3. CASE \E r \in RowId, j \in Project : InsertProjectEvent(j, r)
    BY <2>3 DEF InsertProjectEvent, streamVars
  <2> QED BY <2>1, <2>2, <2>3 DEF Handlers
<1> DEFINE removed == rows \ rows'
<1>2. Unused' = Unused \ {r}
  BY <1>1 DEF Unused, TypeOK
<1>3. rows \subseteq Committed /\ r \notin Committed /\ r \notin rows
  BY <1>1 DEF Committed, Unused, CommittedOnly, TypeOK
<1>4. Committed' = Committed \cup {r}
  BY <1>1, <1>2 DEF Committed
<1>5. Withdrawn' = Withdrawn \cup removed
  BY <1>1, <1>3, <1>4 DEF Withdrawn
<1>6. removed \subseteq Committed \ Withdrawn
  BY <1>3 DEF Withdrawn
<1>7. Fed' = Fed
  BY <1>1 DEF Fed
<1>8. Feed!Commit(r, removed)
  BY <1>3, <1>4, <1>5, <1>6, <1>7 DEF Feed!Commit, Committed, Withdrawn, Fed
<1>9. removed \in SUBSET Committed
  BY <1>6
<1> QED BY <1>1, <1>8, <1>9 DEF Feed!FeedNext, Committed

\* The instance counts as the outbox does.
LEMMA CardinalityOfFeed == \A S : Feed!Cardinality(S) = Cardinality(S)
BY DEF Feed!Cardinality, Cardinality

\* A publish delivers the event once more, or the stream recognises a duplicate.
LEMMA PublishDelivers ==
    ASSUME TypeOK, CommittedOnly, CopiesCounted, LapsesBounded,
           NEW p \in Pod, NEW r \in RowId, Publish(p, r) \/ PublishAckLost(p, r)
    PROVE  Feed!FeedNext \/ UNCHANGED (Feed!feedVars)
<1>1. /\ Store(r) /\ r \in batch[p]
      /\ UNCHANGED <<scope, rows>>
  BY DEF Publish, PublishAckLost, Current, dbVars
<1>2. CASE dedup[r] # 0
  BY <1>1, <1>2, Invisible DEF Store
<1>3. CASE dedup[r] = 0
  <2> DEFINE m == [id |-> r, scope |-> scope[r], rev |-> rev[r]]
  <2>1. stream' = Append(stream, m)
    BY <1>1, <1>3 DEF Store
  <2> HIDE DEF m
  <2>2. /\ Len(stream) \in Nat
        /\ DOMAIN stream = 1..Len(stream)
        /\ DOMAIN stream' = 1..(Len(stream) + 1)
        /\ \A s \in 1..Len(stream) : stream'[s] = stream[s] /\ stream[s].id \in RowId
        /\ stream'[Len(stream) + 1].id = r
    <3>1. m \in Message /\ m.id = r
      BY <1>1 DEF m, TypeOK, CommittedOnly, Message
    <3>2. stream \in Seq(Message)
      BY DEF TypeOK
    <3>3. \A s \in 1..Len(stream) : stream[s] \in Message
      BY <3>2
    <3>4. \A s \in 1..Len(stream) : stream[s].id \in RowId
      BY <3>3 DEF Message
    <3>5. /\ Len(stream) \in Nat
          /\ DOMAIN stream = 1..Len(stream)
          /\ DOMAIN stream' = 1..(Len(stream) + 1)
          /\ \A s \in 1..Len(stream) : stream'[s] = stream[s]
          /\ stream'[Len(stream) + 1] = m
      BY <2>1, <3>1, <3>2
    <3> QED BY <3>1, <3>4, <3>5
  <2>3. Fed \in Seq(RowId) /\ Len(Fed) = Len(stream)
    BY <2>2 DEF Fed
  <2>4. Fed' = Append(Fed, r)
    <3>1. DOMAIN Append(Fed, r) = 1..(Len(stream) + 1)
      BY <2>2, <2>3
    <3>2. \A s \in 1..(Len(stream) + 1) : Fed'[s] = Append(Fed, r)[s]
      BY <2>2, <2>3 DEF Fed
    <3> QED BY <2>2, <3>1, <3>2 DEF Fed
  <2>5. r \in Committed
    BY <1>1 DEF Committed, Unused, CommittedOnly
  <2>6. {i \in DOMAIN Fed : Fed[i] = r} = Copies(r)
    BY DEF Fed, Copies
  <2>7. Cardinality(Copies(r)) < MaxLapse + 1
    BY <1>3, BoundAssumption DEF CopiesCounted, InWindow, LapsesBounded, TypeOK
  <2>8. Committed' = Committed /\ Withdrawn' = Withdrawn
    BY <1>1 DEF Committed, Withdrawn, Unused
  <2>9. Feed!Deliver(r)
    <3>1. Feed!Cardinality(Feed!Fed(r)) < MaxLapse + 1
      BY <2>6, <2>7, CardinalityOfFeed DEF Feed!Fed, Fed
    <3>2. r \in RowId \ Unused /\ UNCHANGED <<RowId \ Unused, (RowId \ Unused) \ rows>>
      BY <2>5, <2>8 DEF Committed, Withdrawn
    <3> QED BY <2>4, <3>1, <3>2 DEF Feed!Deliver, Fed
  <2> QED BY <2>9 DEF Feed!FeedNext
<1> QED BY <1>2, <1>3

\* The outbox implements the feed: whatever pods do, fail to do or repeat,
\* subscribers see commits, cascades and deliveries of committed events, at
\* most one per duplicate window.
THEOREM FeedSafe == Spec => FeedSafety
<1>1. Init => Feed!FeedInit
  BY DEF Init, Feed!FeedInit, Unused
<1>2. TypeOK /\ CommittedOnly /\ CopiesCounted /\ LapsesBounded /\ [Next]_vars
        => [Feed!FeedNext]_(Feed!feedVars)
  <2> SUFFICES ASSUME TypeOK, CommittedOnly, CopiesCounted, LapsesBounded, [Next]_vars
               PROVE  Feed!FeedNext \/ UNCHANGED (Feed!feedVars)
    OBVIOUS
  <2>1. CASE Handlers
    BY <2>1, HandlersCommit
  <2>2. ASSUME NEW p \in Pod, Dispatch(p)
        PROVE  Feed!FeedNext \/ UNCHANGED (Feed!feedVars)
    <3>1. CASE \E r \in RowId : Publish(p, r) \/ PublishAckLost(p, r)
      BY <3>1, PublishDelivers
    <3>2. CASE ~ \E r \in RowId : Publish(p, r) \/ PublishAckLost(p, r)
      <4>1. UNCHANGED <<scope, rows, stream>>
        BY <2>2, <3>2 DEF Dispatch, SelectBatch, FinalDrainEmptyOrFailed, PublishFails,
                          Mark, MarkFails, Index, dbVars, streamVars
      <4> QED BY <4>1, Invisible
    <3> QED BY <3>1, <3>2
  <2>3. CASE Environment
    <3>1. UNCHANGED <<scope, rows, stream>>
      BY <2>3 DEF Environment, SignalShutdown, Crash, Restart, WindowLapses, dbVars,
                  streamVars
    <3> QED BY <3>1, Invisible
  <2>4. CASE UNCHANGED vars
    BY <2>4, Invisible DEF vars, dbVars, streamVars
  <2> QED BY <2>1, <2>2, <2>3, <2>4 DEF Next
<1>3. Spec => [](TypeOK /\ CommittedOnly /\ CopiesCounted /\ LapsesBounded)
  BY Inductive, CountInductive, LapsesInductive, PTL DEF IInv
<1> QED BY <1>1, <1>2, <1>3, PTL DEF Spec, FeedSafety
=============================================================================
