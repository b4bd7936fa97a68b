------------------------------- MODULE Outbox -------------------------------
(***************************************************************************)
(* The transactional outbox: mutation handlers append rows to the          *)
(* event_log table in the transaction of the entity write                  *)
(* (src/src/event_log.rs), and a dispatcher in every server pod drains the *)
(* rows with nats_seq IS NULL to JetStream (src/src/realtime/outbox.rs).   *)
(*                                                                         *)
(* Kept: the statements of a drain pass in their order (SELECT, publish    *)
(* and acknowledgement, UPDATE, search indexing), every way one of them    *)
(* fails, the row loop that skips a failed row and goes on, the final      *)
(* drain of a graceful shutdown, the crash of a pod between two steps,     *)
(* any number of pods draining the same table without a row lock, the      *)
(* duplicate window of the stream, and the cascade that removes the rows   *)
(* of a deleted board.                                                     *)
(*                                                                         *)
(* Abstracted: payloads (a row is its scope and its board revision), the   *)
(* wake-up source of the loop (NOTIFY or the poll tick: a pass may start   *)
(* whenever the loop waits), and the retention of the stream.  A           *)
(* transaction is one step: the row lock that UPDATE boards takes is held  *)
(* until the commit, and nothing is visible before it.  The document that  *)
(* step 6 writes to the search index is the subject of SearchIndex.        *)
(***************************************************************************)
EXTENDS Integers, Sequences, FiniteSets

CONSTANTS
    Board,       \* boards and aggregated boards: the scopes with a revision
    Project,     \* projects: scopes without a revision
    Home,        \* the project of a board
    Pod,         \* server pods, each running one dispatcher
    MaxRow,      \* bound: number of event_log rows ever inserted
    BatchSize,   \* LIMIT of the SELECT of a drain pass (256 in production)
    MaxLapse     \* bound: how often the duplicate window of one row may end

Scope == Board \cup Project

(***************************************************************************)
(* Row ids are ULIDs allocated by the pod that runs the handler.  Their    *)
(* order decides the order of a batch; it need not follow the order of     *)
(* the commits, so a commit takes any unused id.                           *)
(***************************************************************************)
RowId == 1..MaxRow

ASSUME ScopeAssumption == Board \cap Project = {} /\ Home \in [Board -> Project]
ASSUME BoundAssumption ==
    MaxRow \in Nat /\ BatchSize \in Nat \ {0} /\ MaxLapse \in Nat

CONSTANT NoScope   \* the scope of an id no row has used yet
ASSUME NoScopeAssumption == NoScope \notin Scope

VARIABLES
    boards,     \* boards that exist
    revision,   \* boards.revision / aggregated_boards.revision
    scope,      \* history: the scope of the row committed under an id
    rev,        \* history: "board_revision" in the payload of that row
    rows,       \* ids of the rows present in event_log
    natsSeq,    \* event_log.nats_seq, 0 for NULL
    stream,     \* JetStream: the messages stored so far
    dedup,      \* JetStream: sequence of a Nats-Msg-Id in the duplicate window
    lapses,     \* how often that window has ended for an id
    pc,         \* where the dispatcher of a pod stands
    mode,       \* "run", "stop" (shutdown signalled) or "final" (last pass)
    batch,      \* rows of the current pass still to be handled
    ack         \* sequence number in the acknowledgement of the current row, or 0

dbVars     == <<boards, revision, scope, rev, rows>>
streamVars == <<stream, dedup, lapses>>
podVars    == <<pc, mode, batch, ack>>
vars       == <<dbVars, natsSeq, streamVars, podVars>>

Message == [id : RowId, scope : Scope, rev : Nat]

TypeOK ==
    /\ boards \in SUBSET Board
    /\ revision \in [Board -> Nat]
    /\ scope \in [RowId -> Scope \cup {NoScope}]
    /\ rev \in [RowId -> Nat]
    /\ rows \in SUBSET RowId
    /\ natsSeq \in [RowId -> Nat]
    /\ stream \in Seq(Message)
    /\ dedup \in [RowId -> Nat]
    /\ lapses \in [RowId -> Nat]
    /\ pc \in [Pod -> {"wait", "publish", "mark", "index", "down"}]
    /\ mode \in [Pod -> {"run", "stop", "final"}]
    /\ batch \in [Pod -> SUBSET RowId]
    /\ ack \in [Pod -> Nat]

Init ==
    /\ boards = Board
    /\ revision = [b \in Board |-> 0]
    /\ scope = [r \in RowId |-> NoScope]
    /\ rev = [r \in RowId |-> 0]
    /\ rows = {}
    /\ natsSeq = [r \in RowId |-> 0]
    /\ stream = <<>>
    /\ dedup = [r \in RowId |-> 0]
    /\ lapses = [r \in RowId |-> 0]
    /\ pc = [p \in Pod |-> "wait"]
    /\ mode = [p \in Pod |-> "run"]
    /\ batch = [p \in Pod |-> {}]
    /\ ack = [p \in Pod |-> 0]

-----------------------------------------------------------------------------
(* Mutation handlers: one event_log row per transaction.                   *)

Unused == {r \in RowId : scope[r] = NoScope}

InsertBoardEvent(b, r) ==
    /\ b \in boards
    /\ r \in Unused
    /\ revision' = [revision EXCEPT ![b] = @ + 1]
    /\ scope' = [scope EXCEPT ![r] = b]
    /\ rev' = [rev EXCEPT ![r] = revision[b] + 1]
    /\ rows' = rows \cup {r}
    /\ UNCHANGED <<boards, natsSeq, streamVars, podVars>>

InsertProjectEvent(j, r) ==
    /\ r \in Unused
    /\ scope' = [scope EXCEPT ![r] = j]
    /\ rows' = rows \cup {r}
    /\ UNCHANGED <<boards, revision, rev, natsSeq, streamVars, podVars>>

(***************************************************************************)
(* DeleteBoard records BoardDeleted in the scope of the project, because   *)
(* the DELETE cascades to every event_log row of the board, dispatched or  *)
(* not.                                                                    *)
(***************************************************************************)
DeleteBoard(b, r) ==
    /\ b \in boards
    /\ r \in Unused
    /\ boards' = boards \ {b}
    /\ scope' = [scope EXCEPT ![r] = Home[b]]
    /\ rows' = {s \in rows : scope[s] # b} \cup {r}
    /\ UNCHANGED <<revision, rev, natsSeq, streamVars, podVars>>

-----------------------------------------------------------------------------
(* The drain loop of pod p.                                                *)

Undispatched == {r \in rows : natsSeq[r] = 0}

\* ORDER BY id LIMIT batch_size
Oldest(S) == {r \in S : Cardinality({s \in S : s < r}) < BatchSize}

\* The row of the pass that the loop handles now.
Current(p, r) == r \in batch[p] /\ \A s \in batch[p] : r <= s

NextRow(p, r) ==
    /\ batch' = [batch EXCEPT ![p] = @ \ {r}]
    /\ pc' = [pc EXCEPT ![p] = IF batch[p] # {r} THEN "publish"
                               ELSE IF mode[p] = "final" THEN "down" ELSE "wait"]
    /\ ack' = [ack EXCEPT ![p] = 0]

\* Variant: the pass waits until a full batch has accumulated.
SelectBatch_FullBatchOnly(p) ==
    /\ pc[p] = "wait"
    /\ Cardinality(Undispatched) > BatchSize
    /\ batch' = [batch EXCEPT ![p] = Oldest(Undispatched)]
    /\ pc' = [pc EXCEPT ![p] = "publish"]
    /\ mode' = [mode EXCEPT ![p] = IF @ = "stop" THEN "final" ELSE @]
    /\ UNCHANGED <<dbVars, natsSeq, streamVars, ack>>

(***************************************************************************)
(* A pass: on a wake-up, or as the final drain once shutdown is signalled. *)
(* An empty result, or a failing SELECT, only ends a final drain.          *)
(***************************************************************************)
SelectBatch(p) ==
    /\ pc[p] = "wait"
    /\ Undispatched # {}
    /\ batch' = [batch EXCEPT ![p] = Oldest(Undispatched)]
    /\ pc' = [pc EXCEPT ![p] = "publish"]
    /\ mode' = [mode EXCEPT ![p] = IF @ = "stop" THEN "final" ELSE @]
    /\ UNCHANGED <<dbVars, natsSeq, streamVars, ack>>

FinalDrainEmptyOrFailed(p) ==
    /\ pc[p] = "wait"
    /\ mode[p] = "stop"
    /\ pc' = [pc EXCEPT ![p] = "down"]
    /\ UNCHANGED <<dbVars, natsSeq, streamVars, mode, batch, ack>>

\* Variant: published without the Nats-Msg-Id header.
Store_NoMsgId(r) ==
    /\ stream' = Append(stream, [id |-> r, scope |-> scope[r], rev |-> rev[r]])
    /\ dedup' = [dedup EXCEPT ![r] = Len(stream) + 1]

(***************************************************************************)
(* The stream stores a message unless its Nats-Msg-Id is inside the        *)
(* duplicate window; the acknowledgement of a duplicate carries the        *)
(* sequence of the original.                                               *)
(***************************************************************************)
Store(r) ==
    IF dedup[r] # 0
    THEN UNCHANGED <<stream, dedup>>
    ELSE /\ stream' = Append(stream, [id |-> r, scope |-> scope[r], rev |-> rev[r]])
         /\ dedup' = [dedup EXCEPT ![r] = Len(stream) + 1]

\* Variant: the sequence of the newest message instead of the acknowledged one.
Publish_LastSequence(p, r) ==
    /\ pc[p] = "publish"
    /\ Current(p, r)
    /\ Store(r)
    /\ ack' = [ack EXCEPT ![p] = Len(stream')]
    /\ pc' = [pc EXCEPT ![p] = "mark"]
    /\ UNCHANGED <<dbVars, natsSeq, lapses, mode, batch>>

Publish(p, r) ==
    /\ pc[p] = "publish"
    /\ Current(p, r)
    /\ Store(r)
    /\ ack' = [ack EXCEPT ![p] = dedup'[r]]
    /\ pc' = [pc EXCEPT ![p] = "mark"]
    /\ UNCHANGED <<dbVars, natsSeq, lapses, mode, batch>>

\* The message is stored but the acknowledgement is lost: `continue`.
PublishAckLost(p, r) ==
    /\ pc[p] = "publish"
    /\ Current(p, r)
    /\ Store(r)
    /\ NextRow(p, r)
    /\ UNCHANGED <<dbVars, natsSeq, lapses, mode>>

\* Variant: a failed publish falls through to the UPDATE with sequence -1.
PublishFails_MarkedAnyway(p, r) ==
    /\ pc[p] = "publish"
    /\ Current(p, r)
    /\ ack' = [ack EXCEPT ![p] = -1]
    /\ pc' = [pc EXCEPT ![p] = "mark"]
    /\ UNCHANGED <<dbVars, natsSeq, streamVars, mode, batch>>

\* Nothing is stored: `continue`.
PublishFails(p, r) ==
    /\ pc[p] = "publish"
    /\ Current(p, r)
    /\ NextRow(p, r)
    /\ UNCHANGED <<dbVars, natsSeq, streamVars, mode>>

\* UPDATE ... WHERE id: no rows are affected when the row is gone.
Mark(p, r) ==
    /\ pc[p] = "mark"
    /\ Current(p, r)
    /\ natsSeq' = IF r \in rows THEN [natsSeq EXCEPT ![r] = ack[p]] ELSE natsSeq
    /\ pc' = [pc EXCEPT ![p] = "index"]
    /\ UNCHANGED <<dbVars, streamVars, mode, batch, ack>>

MarkFails(p, r) ==
    /\ pc[p] = "mark"
    /\ Current(p, r)
    /\ NextRow(p, r)
    /\ UNCHANGED <<dbVars, natsSeq, streamVars, mode>>

\* Step 6: indexing is best effort and never blocks the loop.
Index(p, r) ==
    /\ pc[p] = "index"
    /\ Current(p, r)
    /\ NextRow(p, r)
    /\ UNCHANGED <<dbVars, natsSeq, streamVars, mode>>

-----------------------------------------------------------------------------
(* The environment: shutdown signals, crashes, restarts, time.             *)

SignalShutdown(p) ==
    /\ pc[p] # "down"
    /\ mode[p] = "run"
    /\ mode' = [mode EXCEPT ![p] = "stop"]
    /\ UNCHANGED <<dbVars, natsSeq, streamVars, pc, batch, ack>>

Crash(p) ==
    /\ pc[p] # "down"
    /\ pc' = [pc EXCEPT ![p] = "down"]
    /\ mode' = [mode EXCEPT ![p] = "run"]
    /\ batch' = [batch EXCEPT ![p] = {}]
    /\ ack' = [ack EXCEPT ![p] = 0]
    /\ UNCHANGED <<dbVars, natsSeq, streamVars>>

\* The pod is replaced: the new process remembers nothing.
Restart(p) ==
    /\ pc[p] = "down"
    /\ pc' = [pc EXCEPT ![p] = "wait"]
    /\ mode' = [mode EXCEPT ![p] = "run"]
    /\ UNCHANGED <<dbVars, natsSeq, streamVars, batch, ack>>

\* The two minutes of the duplicate window of a message are over.
WindowLapses(r) ==
    /\ dedup[r] # 0
    /\ lapses[r] < MaxLapse
    /\ dedup' = [dedup EXCEPT ![r] = 0]
    /\ lapses' = [lapses EXCEPT ![r] = @ + 1]
    /\ UNCHANGED <<dbVars, natsSeq, stream, podVars>>

-----------------------------------------------------------------------------
Handlers ==
    \E r \in RowId :
        \/ \E b \in Board : InsertBoardEvent(b, r) \/ DeleteBoard(b, r)
        \/ \E j \in Project : InsertProjectEvent(j, r)

Dispatch(p) ==
    \/ SelectBatch(p)
    \/ FinalDrainEmptyOrFailed(p)
    \/ \E r \in RowId :
        \/ Publish(p, r) \/ PublishAckLost(p, r) \/ PublishFails(p, r)
        \/ Mark(p, r) \/ MarkFails(p, r)
        \/ Index(p, r)

Environment ==
    \/ \E p \in Pod : SignalShutdown(p) \/ Crash(p) \/ Restart(p)
    \/ \E r \in RowId : WindowLapses(r)

Next == Handlers \/ (\E p \in Pod : Dispatch(p)) \/ Environment

(***************************************************************************)
(* Fairness.  A pod that is down is replaced and a loop that waits wakes   *)
(* up (the poll tick).  Faults are not permanent: a pass that starts again *)
(* and again is not always cut short, and a publish or an UPDATE that is   *)
(* tried again and again succeeds at some point.  Nothing is assumed of    *)
(* the handlers, of shutdowns or of crashes.                               *)
(***************************************************************************)
Fairness ==
    \A p \in Pod :
        /\ WF_vars(Restart(p))
        /\ SF_vars(SelectBatch(p))
        /\ \A r \in RowId :
            /\ SF_vars(Publish(p, r))
            /\ SF_vars(Mark(p, r))
            /\ WF_vars(Index(p, r))

Spec == Init /\ [][Next]_vars
FairSpec == Spec /\ Fairness

-----------------------------------------------------------------------------
(* Properties.                                                             *)

Stored(r, s) == s \in DOMAIN stream /\ stream[s].id = r

Copies(r) == {s \in DOMAIN stream : stream[s].id = r}

\* A row marked dispatched is in the stream, at the sequence number the row
\* records: the dispatcher marks only what the stream acknowledged, whatever
\* failed, crashed or was done by another pod in between.
MarkedIsStored == \A r \in rows : natsSeq[r] # 0 => Stored(r, natsSeq[r])

\* Retries, crashes and concurrent pods never put a second copy of an event
\* in the stream while its duplicate window lasts: the Nats-Msg-Id header
\* makes every re-publish harmless.
OneCopyPerWindow == \A r \in RowId : Cardinality(Copies(r)) <= lapses[r] + 1

\* Once the outbox is drained, the stream of a board has every revision of
\* the board: no committed event was skipped for good.
DrainedIsComplete ==
    Undispatched = {} =>
        \A b \in boards :
            {stream[s].rev : s \in {t \in DOMAIN stream : stream[t].scope = b}}
                = 1..revision[b]

\* A row that waits for dispatch is eventually marked, unless its board is
\* deleted first (the cascade removes it).
EventuallyMarked ==
    \A r \in RowId : (r \in Undispatched) ~> (r \notin Undispatched)
=============================================================================
