# A TLA+ model of the kanban service

This directory models the server of this repository (`src/src/`, Rust) in TLA+:
modules that follow the code operation by operation, TLC configurations that
check them on small instances, and theorems that TLAPS proves for every value of
the constants.

Its backbone is the path of an event from the handler that changes a card or a
board to the client that shows it: this is where several pods, tasks,
transactions and queues meet, and where an ordinary test reaches least. Around it
stand the services whose rows those events are about, the permission backend they
ask, the object store, the search index and GitHub that they also write to, and
the life of a pod. What is left out is listed in section 6.

## 1. The system

A request arrives at one of several identical server pods (`server.rs`), is
authorised, and is served by a handler under `services/` that works on a shared
PostgreSQL database. A mutation appends a row to `event_log` next to the entity
it changes. A dispatcher task in every pod publishes the rows that have no
`nats_seq` yet to one JetStream stream. Subscription handlers read a snapshot
from the database, then follow the stream through a registry that shares one
JetStream consumer between all streams of a pod that watch the same object.

```
 handler --(tx)--> entity rows + event_log        (one database, n pods)
                        |
        NOTIFY / poll   v        publish, ack, UPDATE nats_seq
               outbox dispatcher  ------------------------->  JetStream stream
               (one per pod)                                     |  push consumer
                        |                                        v
                        v search index                    registry: pump task
                                                                 |  broadcast
        snapshot (MAX(nats_seq), columns, cards)                 v
 client <----- SubscribeBoard / Aggregated / Project <----- cutover tracker
```

### Components

| Component | State it keeps | Operations | What is hard about it | What makes it correct |
| --- | --- | --- | --- | --- |
| `event_log.rs` (outbox table) | `event_log` rows, `boards.revision`, `aggregated_boards.revision` | insert a board, aggregated-board or project event inside the caller's transaction | the row must commit or vanish with the entity; `DELETE FROM boards` cascades to rows not yet dispatched | every committed change has one row; revisions of a board are dense |
| `realtime/outbox.rs` (dispatcher) | per pod: loop state, current batch; in the table: `nats_seq` | `drain_once` (SELECT, publish, ack, UPDATE, index), `final_drain`, shutdown, restart | any number of pods without row locks; each statement can fail; a crash between publish and UPDATE; the duplicate window ends | marked rows are stored; no second copy in a window; every row is dispatched in the end |
| `realtime/jetstream_bootstrap.rs` | the stream and its retention (24 h, 10 000 messages per subject) | create or correct the stream | messages expire while clients hold resume tokens | nobody resumes across a gap unknowingly |
| `realtime/registry.rs` | map key -> channel, reference count, pump task | `subscribe_object` (fast and slow path), `StreamHandle::drop` | awaits between looking up and inserting; the count is decremented by key | only the replacement of a channel costs a key its count, its one consumer, a stream its pump; an entry goes with the last stream |
| `realtime/cutover.rs` | phase, last sequence, ring of seen ids | `observe_replay`, `cutover_to_live`, `observe_live` | boundary off by one, eviction, duplicates, disorder | events in increasing order, none of the snapshot's again |
| `services/boards.rs` (SubscribeBoard) | per stream: receiver, boundary, tracker | snapshot, cutover, live tail, resume | snapshot read query by query while handlers commit; lag; shared channels | snapshot plus tail lose nothing |
| `services/aggregated_boards.rs` (SubscribeAggregatedBoard, CRUD) | forwarder tasks, merge queue | subscribe each source, merge | forwarders are not ordered among each other and outlive the client | no event of a source is lost; handles are released |
| `services/projects.rs` (SubscribeProject, projects, members) | merged child streams; member rows mirrored to the permission backend | subscribe, membership CRUD | merge as above; mirror drift after a failed write | as above; mirror agrees with the rows |
| `services/cards.rs` | card rows, positions, revision, references, dependencies, labels, assignees, checklist, comments | create, update, move, transfer, delete, ... | reads before the transaction, updates outside of it, stale positions, per-project counters | revisions tell requests apart; a card is on a board of its project; clients converge |
| `services/boards.rs` (CRUD) | boards, columns and their positions | create/delete board, add/update/remove/move column | `MAX(position)+1` computed concurrently, gaps, cascades | positions are 0..n-1 |
| idempotency keys (in the handlers) | key -> response | look up first, store after the commit | a retry between commit and store | a retried request is applied once |
| `search_indexing.rs`, `services/search.rs` | external index | index after dispatch | read-then-write races between pods, crash before indexing | the index ends with the newest document |
| `auth/` (permission client, retry, expansion, dispatch, session, identity) | relation tuples in an external service; session | write tuples after commit with three tries; check; introspect | a tuple write lost after the commit | tuples agree with rows |
| `services/attachments.rs`, `integrations/s3.rs` | attachment rows, objects | reserve, upload, confirm, delete | database and object store fail separately | no confirmed row without object |
| `services/github.rs` | link rows | link, resync, unlink | GitHub is asked between reading and writing; the card moves or goes meanwhile | a link is as new as its last resync; its watchers hear of it where the card is |
| labels, milestones, templates, public boards, visibility | rows; visibility of boards and aggregates | CRUD, lists, instantiate a template | scope, relation and rows are read one after the other, in two systems | nothing is shown or written that was at no moment of the request allowed; lists are whole |
| `server.rs`, `main.rs` | per pod: step of the boot, serving, shutting down | boot, serve, signal, final drain | pods of two releases boot together; requests outlive the signal; the final drain is one batch, skips failures and is given up after ten seconds | who serves is ready; a drain that ended leaves no row of its batch that could be published |
| `system_migrations/` | ledger of applied migrations | run at start-up in every pod | crash between step and ledger, two pods at once | each migration takes effect once |

`PROJECT.json` lists the same components with their status, and under `hazards`
each thing in this code that a test would hardly reach, with the property that
covers it.

## 2. The modules

| Module | Models | Extends / instantiates |
| --- | --- | --- |
| `Outbox` | handlers that append to `event_log`, the dispatchers of all pods, JetStream's duplicate window | |
| `EventFeed` | abstract: what subscribers may rely on | |
| `OutboxFeed` | the refinement mapping from `Outbox` to `EventFeed` | `Outbox`, `EventFeed` |
| `CutoverTracker` | `cutover.rs` as operators on the value of a tracker | |
| `Cutover` | a tracker under every sequence of observations | `CutoverTracker` |
| `Registry` | `registry.rs`: map, counts, pumps, handles | |
| `BoardStream` | SubscribeBoard: registry + snapshot + cutover + live tail | `Registry`, `CutoverTracker` |
| `AggregateStream` | SubscribeAggregatedBoard: forwarders, merge queue, one tracker | `CutoverTracker` |
| `BoardSnapshot` | `read_board_snapshot` query by query against committing handlers | |
| `CardEvents` | the requests on one card, their events, and a client that follows the conflict policy | |
| `StreamAccess` | the checks of all three kinds of stream: admission, recheck interval, heartbeat | |
| `ProjectStream` | SubscribeProject: child tasks, bounded merge channel, project subject | |
| `CardParts` | labels, assignees, checklist, comments, dependencies of cards; replies read query by query | |
| `CardRefs` | references: the counter of a project under its advisory lock | |
| `CardProject` | milestone and labels of a card across projects | |
| `CardPatch` | the payloads of card events, and a client that merges them | |
| `Idempotency` | keys of all services | |
| `Paging` | cursors of card lists and of comment lists | |
| `BoardLayout` | positions of columns and cards, `completed_at`, cascades | |
| `ParentTuples` | the parent tuples of cards and the migration that backfills them | |
| `ProjectMembers` | member rows and role tuples | |
| `AggregateSources` | sources of an aggregated board and their positions | |
| `Settings` | field-mask updates of boards, aggregates, projects, labels, milestones, templates | |
| `Catalogue` | labels, milestones and templates offered to a reader, milestone counts | |
| `Visibility` | lists and single reads of boards, aggregates, projects, under changing visibility and relations | |
| `GithubLinks` | links, resync, the events of links, deletion of the card | |
| `Attachments` | rows and objects of attachments | |
| `SearchIndex` | the documents of cards: dispatchers, backfill | |
| `SearchPaging` | a search page by page, its filter and cursor | |
| `Permissions` | tenant clients, retried grants, removal page by page | |
| `Requests` | session check with its cached token, dispatch matrix, handler | |
| `StartUp` | boot, migrations ledger, stream configuration, serving, shutdown of pods | |
| `Outbox_proofs` | theorems about the outbox: types, marks, copies, completeness, refinement | `OutboxFeed` |
| `Registry_proofs` | theorems about the registry | `Registry` |
| `BoardStream_proofs` | theorems about SubscribeBoard, on top of those about the registry | `BoardStream`, `Registry_proofs` |
| `StreamAccess_proofs` | theorems about the access to streams, the project stream and the merge of boards (`StreamAccess`, `ProjectStream`, `AggregateStream`), and the types of all streams | `MCStreams`, `BoardStream_proofs` |
| `Cards_proofs` | theorems about the card service (`CardRefs`, `CardEvents`, `CardPatch`, `CardProject`, `Idempotency`, `BoardSnapshot`, `CardParts`) | `MCCards` |
| `Serving_proofs` | theorems about `StartUp`, `Requests`, `SearchIndex`, `Cutover`, `Permissions`, `Attachments`, `SearchPaging`, `Paging` | `MCServing`, `Registry_proofs` |
| `Projects_proofs` | theorems about what belongs to a project (`ProjectMembers`, `Catalogue`, `AggregateSources`, `GithubLinks`) | `MCBoards` |
| `Boards_proofs` | theorems about boards, who sees and changes them, and their cards (`Settings`, `Visibility`, `ParentTuples`, `BoardLayout`) | `MCBoards`, `Projects_proofs` |
| `MC*` | model values and symmetry sets for TLC | |

Operators named `X_Something` next to an operator `X` and introduced by
"Variant:" are plausible mistakes in the code modelled by `X`. No specification
uses them; putting one in the place of `X` breaks the property that
`PROJECT.json` lists for it under `mutants`, which shows that the property
depends on that piece of code.

### Outbox (`event_log.rs`, `realtime/outbox.rs`)

State: `boards`, `revision`, and for each row id its `scope` and `rev` (which
stay as history when a row is removed), `rows` (present in the table),
`natsSeq` (0 for NULL); the `stream`, `dedup` (the sequence JetStream remembers
for a message id, 0 when the window is over) and `lapses`; for each pod `pc`,
`mode`, `batch`, `ack`.

* `InsertBoardEvent`, `InsertProjectEvent`, `DeleteBoard`: one transaction each.
  The row lock that `UPDATE boards SET revision = revision + 1` takes is held to
  the commit, so the increment and the row are one step. `DeleteBoard` records
  its event on the project and removes the rows of the board (`ON DELETE
  CASCADE`). A handler takes *any* unused row id, because ULIDs are allocated
  before the commit and need not follow commit order.
* `SelectBatch`, `Publish`/`PublishAckLost`/`PublishFails`, `Mark`/`MarkFails`,
  `Index`: one statement of `drain_once` each, for the row the loop handles; a
  failure goes on with the next row, as the code's `continue` does.
* `FinalDrainEmptyOrFailed`, `SignalShutdown`, `Crash`, `Restart`: life of a pod.
* `WindowLapses`: two minutes pass for one message id.

Abstracted: payloads (scope and revision are kept; see `CardPatch`), what wakes
the loop, the document the index step writes (see `SearchIndex`). A SELECT that fails leaves everything as it is
and is a stutter, except in the final drain. A row whose publish always fails is
not modelled (see fairness).

### CutoverTracker, Cutover (`realtime/cutover.rs`)

The tracker is a record of phase, ring and last sequence; each method is an
operator that returns the new record and whether the event is emitted. `Cutover`
drives it with every order and repetition of replayed and live events whose
sequence numbers always carry the same event.

### Registry (`realtime/registry.rs`)

`Lookup` is the part under the read lock, `Join` and `FallThrough` the part under
the write lock, `OpenFails`, `SpawnPump` and `Insert` the slow path with its
awaits in between, `Drop` is `StreamHandle::drop` with `decrement_refcount`,
`PumpExits` the end of a pump task. `Insert` overwrites the map entry without
looking, and `Drop` decrements whatever channel the map holds under the key, as
the code does. Any number of streams may be in the slow path for one key at the same
time; nothing keeps them apart. Two ghosts say what that does: `replaced` are the
channels an insertion took out of the map while their pump ran, `torn` the keys whose
entry was replaced, until their last stream goes. `OnlyReplacingBreaks` says that
nothing else is ever wrong; `OneConsumer`, which the comments of the code state, is
the subject of a run of its own (section 4).

### BoardStream (`services/boards.rs`, SubscribeBoard)

Extends `Registry`: each registry step also fixes a position in the message
stream (a receiver of an existing channel starts behind the last broadcast
message; a new consumer delivers everything retained). `ReadBoundary` is
`MAX(nats_seq)`, `ReadContent` the queries after it together with the `Cutover`
envelope, `ResumeAt` the resume path, `Receive` one message through the tracker,
`LeaveBroken` the end of the stream after `Lagged` or `Closed`. The message
stream is what `EventFeed` promises, and no more: any order, some time after the
commit, possibly several times. What a client knows is a set of events.

Abstracted: heartbeats and permission rechecks (they end a stream or leave it
alone, which `Leave` covers here; they are the subject of `StreamAccess`);
JetStream's redelivery of unacknowledged messages to the pump.

### AggregateStream (`services/aggregated_boards.rs`)

One channel, receiver and forwarder per source, one queue, one tracker. All
sources share the sequence numbers of one JetStream stream; each pump proceeds at
its own speed. `ForwarderLags` is the `while let Ok(..)` loop that ends on
`Lagged`; `Forward` after the client left is the failing `send` that ends the
task. The snapshot part is that of `BoardSnapshot`; the tracker starts live.

### BoardSnapshot (`read_board_snapshot`)

`ReadBoundary`, then per column the ids (`FinishColumn` moves on to the next) and
per id `fetch_full_card` (`FetchCard`, which reads the card as it is *then*).
Between any two queries cards are created, moved, moved away, moved here and
deleted, each with its event on the board that the code chooses.

### CardEvents (`services/cards.rs`)

One card, a bounded set of requests. Each request reads the card first (`ReadFor..`,
with the checks made on that read) and writes later: `CommitMove`,
`CommitTransfer` and `CommitDelete` are one transaction with their events;
`UpdateCard` is two (`ApplyUpdate`, `RecordUpdate`). `Drop` is a handler that is
cancelled or dies between two of its steps. The client applies the events in the
order of the log by the policy of `events.proto`; the variable `overlap`, fixed in
each behaviour, says whether requests may overlap, so that one run shows both what
always holds and what holds when they do not.

### StreamAccess (`services/boards.rs`, `aggregated_boards.rs`, `projects.rs`)

The loop of an open stream: `AskStream`, `AdmitStream`, `ReadVisibility` and
`ReplaySnapshot` are what comes before it, `Revalidate` the top of a turn (the
recheck, if the stream was private when it began and the interval has elapsed),
`ShowEnvelope` and `Heartbeat` the two arms of its `select!`. Visibility and relation
change at any time; the ghosts `lately` and `gap` count the envelopes shown since
a recheck became due and remember that the reader lacked view.

### ProjectStream (`services/projects.rs`)

`ListBoards` and `SubscribeNews` read the boards and join the project subject in
the order of the code, `ChildForwards` is the spawned task of a board with its
`send` into the bounded channel, `TakeChild`, `TakeNews`, `SkipNews` (the lag arm)
and `NewsCloses` are the arms of the merge. Boards are created and deleted
meanwhile, and other streams of the pod share the channel of the project.

### CardParts, CardRefs, CardProject, CardPatch (`services/cards.rs`)

* `CardParts`: each handler of a part reads board and revision, then commits the
  change, the bumped revision and the event in one transaction, then reads the
  reply query by query. `mayOverlap` says whether handlers may overlap.
* `CardRefs`: `AskRef` reads the card, drawing waits for the advisory lock of the
  project, and the transaction commits or rolls back with its counter.
  `issued` is the history of what was given out.
* `CardProject`: whether milestone and labels of a card belong to its project is
  decided by reads before the update, by transfers, and by deletions of the
  milestone or label.
* `CardPatch`: which keys the patch of each request carries, what the dispatcher
  makes of it late, and how a client merges it by the policy of `events.proto`.

### Idempotency, Paging

`Idempotency` follows a request from the lookup of its key over its work to the key
it stores after the commit, for things that are deleted later and things that are
not. `Paging` takes a list in pages while rows are added, moved and deleted: cards
by position and id of the cursor's row, comments by id (`LaterRows` are the rows of
the order whose id is greater than the cursor's).

### BoardLayout, ParentTuples, ProjectMembers, AggregateSources

* `BoardLayout`: `CreateCard`, `MoveCard`, `TransferCard`, `DeleteCard`, `AddColumn`,
  `UpdateColumn`, `MoveColumn`, `DeleteColumn` with the positions they read before
  their transaction; the variable `mode` says which of them may overlap.
* `ParentTuples`: what a handler does to the tuples of a card after its commit, call by
  call, each able to fail; a crash in between; the backfill that pages through
  the cards.
* `ProjectMembers`: CreateProject with its idempotency key, AddMember and RemoveMember
  call by call, DeleteProject; `memAlone` says whether requests come one at a time.
* `AggregateSources`: adding, removing and moving sources, renumbered from a list
  that was read before; source boards are deleted.

### Settings, Catalogue, Visibility, GithubLinks

* `Settings`: one row of any of the services, chosen by `setKind`, with the check that
  service makes, the fields the mask names and the event it writes.
* `Catalogue`: labels, milestones or templates, offered by global and project queries, while
  others file cards: `CheckMilestone` and `FileCard` are the two statements of `update_card`,
  between which `ItemGoes` may delete the milestone.
* `Visibility`: the lists and single reads, each as its sequence of queries and calls,
  `ExpandLimit` included.
* `GithubLinks`: GitHub has a version of the issue that grows; a resync reads the
  row, asks, looks up the board, writes.

### Attachments, SearchIndex, SearchPaging

* `Attachments`: the client uploads whenever its URL allows it, confirmations overlap,
  S3 and the database fail separately, cards are deleted.
* `SearchIndex`: an indexer (a dispatcher or the backfill, which is number 0) reads a
  card, then its names, then writes the document; it may fail or die anywhere.
* `SearchPaging`: hits, then the boards the caller may see, then the page and its
  cursor. The hits of a page are a set: the rank of a hit orders them.

### Permissions, Requests, StartUp

* `Permissions`: the `OnceCell` of a tenant's client, a grant with its retries and
  the refusals that are tolerated, `delete_relation_tuples` page by page.
* `Requests`: the introspection with the cached service token and its one retry, the
  entry of the matrix, the check, the handler.
* `StartUp`: the steps of `serve` in order for pods of two releases, each of which may
  fail or be killed; the runner of system migrations with its ledger; the stream
  configuration read and then corrected. In the shutdown `FinalDrain` reads one batch of
  the oldest rows, `PublishRow` and `SkipRow` come to them one by one (a row that fails is
  skipped), `DrainEnds` ends the loop, as does a SELECT that fails, `Exit` waits for the
  requests in service, and `Abandon` gives a dispatcher up that is not done ten seconds
  later. Requests go on committing rows meanwhile, and other pods drain the same rows.

## 3. The runs

Components that share no state are checked together in one run: an MC module
extends them all, its variable `stream` or `part` picks the component a behaviour
is about, and the others rest in one of their initial states, which satisfies
their properties. Such a run checks what one run per component would.

What a run checks of a component is mostly one named conjunction
(`OnlyReplacingBreaks`, `AnswersAreTrue`, ...), at the end of its module. Its parts are
definitions of their own, each with the comment that says what it means; the
mutants in `PROJECT.json` break the conjunction part by part.

| Run | Components and instance | What it is about |
| --- | --- | --- |
| `outbox_safety` | 2 pods, 2 rows, batch 2, each window ends once; 409 423 states | marks, copies, completeness; `FeedSafety`: every step is a step of `EventFeed` or changes nothing of it |
| `outbox_live` | 1 pod, 2 rows, batch 1, one lapse; 5 642 states | `DispatchesAll`: every row is marked in the end (`EventuallyMarked`), and the refinement with its liveness (`ImplementsFeed`) |
| `stream_fresh` | 2 streams on one board, 2 events, lag 1, one expired message, overlapping slow paths; 872 000 states | nothing is lost between snapshot and tail |
| `streams` | BoardStream, AggregateStream, ProjectStream, StreamAccess; 65 700 states | what must eventually happen to a stream, and its merges |
| `serving` | Cutover, Registry, Permissions, Requests, StartUp, Attachments, SearchIndex, SearchPaging, Paging; 635 324 states | what serves every request, under failures |
| `cards` | CardEvents, BoardSnapshot, CardParts, CardRefs, CardProject, CardPatch, Idempotency; 466 000 states | overlapping and half-done requests on cards |
| `boards` | BoardLayout, ParentTuples, ProjectMembers, AggregateSources, Settings, Catalogue, Visibility, GithubLinks; 871 869 states | shape of boards, tuples, members; who is shown and who changes what |
| `stream_resume`, `aggregate_loss`, `card_logged`, `registry_overlap`, `search_cursor` | least instances | a statement of a document that the code does not keep (section 4) |

### Bounds, and why they are enough

The bounds below are the least with which the hard cases happen. Nothing rests on
them but liveness: every safety property of the passing runs is also proved, for
every value of the constants (section 5).

* `MaxRow = 2`, `BatchSize = 2`: two rows are the least for which a later row
  overtakes an earlier one in a pass and between passes; with `BatchSize = 1` and
  two rows (`outbox_live`) the LIMIT leaves a row for a later pass. `MaxLapse = 1`:
  one row then has its window open, ended and open again. Two pods give every race
  of two drain passes; a third has no state of its own that a second lacks.
* `Cutover`: the ring of 2 evicts, `MaxInserts = 4` is twice its capacity, so an id
  can be evicted and remembered again; `MaxSeq = 4` gives gaps, repetitions and a
  boundary before, between and after events.
* `Registry`: three streams are needed for a stream that joins the channel of a
  replaced entry; with `MaxChannel = 3` all three are in the slow path at once. Two keys
  show that nothing crosses keys.
* `BoardStream`: `Lag = 1` makes a receiver overflow with two messages;
  `MaxCopies` bounds re-publication; `SeenCapacity = 4` exceeds the number of events,
  as 1024 exceeds the number of events in flight. `MaxExpired` bounds retention.
* `AggregateStream`: `MaxFeed = 4` with `Lag = 2` and two sources has overtaking,
  lag, and events after the client left.
* `BoardSnapshot`: two columns and two cards let a card move across the read front
  in both directions while another is fetched; three commits let one card do more
  than one thing.
* `CardEvents`: three requests are a stale read, a conflicting commit and a third
  one that follows both; `b1`, `b2` share a project, `b3` has another one.
* `CardParts`: two cards, two handlers that overlap and a third that follows;
  `BoardLayout`: three cards, columns on two boards, so that a request finds its
  position shifted by another and a third sees what is left. In both, and in
  `CardEvents` and `ProjectMembers`, one variable fixed in each behaviour says
  whether requests overlap: one run shows what always holds and what holds when
  they do not.
* `CardRefs`, `CardProject`, `Idempotency`, `ParentTuples`: two projects (boards), and
  as many requests as a stale read, the conflicting commit and one that finds the
  result need.
* `Paging`, `SearchPaging`: five rows and pages of two: a full page, another full one
  and a rest, with changes between them.
* `Permissions`: pages of one tuple and three subjects make three pages; two errors of two
  tries exhaust a retry. `Requests`: two token rotations, so that the retry may meet a
  token that was rotated again; two objects of two namespaces.
* `StartUp`: two pods of two releases, two migrations, one kill: a pod that finds half of
  the ledger written. `MaxRows = 3`, `DrainBatch = 2`: a backlog beyond one batch, a failure
  followed by another row, and rows that two final drains both read.
* `SearchIndex`: two cards, one older than the index; the dispatcher and the backfill
  are two indexers that meet on one card, which is what two dispatchers do.
* `Attachments`: two requests and two uploads on cards that can be deleted.
* `StreamAccess`: three changes take a reader from view to none and back within the
  interval.
* `ProjectStream`: a merge channel of one and a lag of one fill up and overflow at once;
  two boards, one there and one created later.
* `BoardLayout` starts with one column that is done and one that is not; `Catalogue` and
  `Settings` start with one of each pair of states that differ only in the names of
  projects or items.
* `Visibility`, `Catalogue`, `Settings`, `GithubLinks`: two boards, projects or fields and two
  changes between the queries of a request, as many as a request has gaps that
  matter; the limit of an expansion is reached.

`CHECK_DEADLOCK FALSE` stands where the bound on inputs is reached in the end and
nothing remains to be done: requests are answered, streams have ended, pods are
gone. In `Outbox` and `BoardStream` (`stream_fresh`) pods, streams and clients come
and go for ever and deadlock is checked.

### Fairness

* `Outbox`: `WF` of `Restart` (a pod that is down is replaced by the orchestrator) and
  of `Index` (best effort, it cannot block the loop); `SF` of `SelectBatch`, `Publish`
  and `Mark`. Strong fairness is needed because crashes, failed statements and
  failed publishes disable these actions again and again; it says that faults are
  not permanent. The poll tick of the loop justifies that a waiting loop wakes up
  without a NOTIFY. Nothing is assumed of handlers, shutdowns or crashes.
* `BoardStream`: `WF` of `Pump`, `Receive` and `LeaveBroken`: tasks that are ready get
  scheduled. Nothing is assumed of clients, publication or retention, and
  `CatchesUp` excludes a pump that ended, which the code does not restart.
* `AggregateStream`: `WF` of `Pump`, `Forward`, `ForwarderLags` and `Consume`, for the same
  reason. A board may stay quiet for ever, hence "at the latest with the next
  event of its source".
* `ProjectStream`: `WF` of `TakeChild`, `ChildrenEnded` and `ChildForwards`: the tasks of the
  merge are scheduled. Boards may stay quiet and clients may stay for ever.
* `StreamAccess`: `WF` of `Revalidate`, `Heartbeat` and `IntervalElapses`: the loop runs, its
  heartbeat ticks and the clock goes on. `ShowEnvelope` is not assumed: a board on
  which nothing happens must not keep a reader who has lost view.

In `streams` the conjunction of these assumptions is made of one behaviour; none of
the actions they name is enabled in a component that rests.

## 4. Where documents and code disagree

Each finding in `PROJECT.json` has a run whose counterexample shows it.

* `stream_resume`: a resume that joins a channel which exists already gets no
  replay. `events.proto:14` promises a replay from `nats_seq + 1`.
* `aggregate_loss`: two forwarders race into one tracker, and the event with the
  lower sequence that arrives second is dropped. `LostOnlyIfOvertaken` shows that
  this is the only way an event is lost.
* `card_logged`: `update_card` commits the card before it begins the transaction of
  the event. `event_log.rs:4` says "in the same database transaction".
* `registry_overlap`: two first subscribers of a board both await JetStream and both
  insert. `registry.rs:82` says "one ephemeral NATS push consumer per board"; the second
  replaces the channel of the first, whose pump nobody aborts (`registry.rs:75`), and
  drops are counted off the wrong channel (`registry.rs:77`), which may abort the pump of
  a stream that is open. `OnlyReplacingBreaks` shows that this is the only way, and
  that it is over when the last stream of the key has gone, but for the pump;
  `EntryNeverOutlivesStreams` and `NeverLost` hold in spite of it.
* `search_cursor`: a page from which hits were dropped has no cursor although more
  follow. `search.proto:77` says an empty cursor means no more results. `NoneSkipped`
  says that nothing is left out before that page.

Others were met while modelling and have no run of their own. The passing
properties are stated so that they hold in spite of them:

* Revisions of a board can reach the stream out of order (a failed publish is
  retried behind later rows; ULID order is not commit order), while
  `events.proto:91` calls `board_revision` monotonic. What holds is
  `DrainedIsComplete`.
* A pod may publish a row again that another pod has marked (`outbox.rs:23` says
  never); `OneCopyPerWindow` and `FeedSafety` bound the copies.
* A patch names `blocked` always, and a due date or labels never, while
  `events.proto:171` says the keys are those that changed. `ShowsARevision` and
  `CaughtUp` are what a client can rely on.
* `update_card` looks for a milestone and writes it with a later statement, and no foreign
  key stands behind it: a deletion in between leaves the card under a milestone that is
  gone. `StraysWereLate` says that this is the only way.
* A SIGTERM with more pending rows than one batch leaves the rest to other pods, and so
  does a publish that fails in the final drain, which returns `Ok`. `ExitLeavesLate` says
  what the drain does promise.
* A resume token older than the retained stream is accepted, while
  `events.proto:19` says `OutOfRange`.
* A card that moves to a column already read is missing from the snapshot
  (`events.proto:29`), and the arrival of a card from another board is announced on
  the board it left only (`boards.rs:420`). `MissesOnlyArrivals` is the rest.
* With overlapping requests a client can ignore the patch of an update for good,
  and a card can be moved to a board of the project it has just left
  (`cards.rs:1266`). `ClientConverges` and `ProjectOfBoard` hold without overlap.
* `revalidate_token` answers `Ok(true)` without reading the expiry its comment names
  (`boards.rs:351`); the model follows the code.
* Requests that overlap may leave two cards, columns or checklist items at one
  position (`BoardLayout`, `CardParts`); nothing renumbers cards and columns.
* Two handlers of parts that overlap announce ranges of revisions that overlap; an
  event may go to the board the card has just left. Then its revisions have a gap
  (`StrayEventShowsGap`).
* `0014_idempotency_keys.sql:13` counts on a job that deletes old keys; there is none.
* `boards.rs:661` says that ListBoards has been checked against the project; its entry
  in the matrix checks nothing, and the handler filters board by board.
* A label that is renamed or deleted is neither announced nor indexed again, nor is a
  deleted milestone announced.
* A project subscription opened first on a pod gets the retained events of the
  project once more, and one that joins an existing channel gets none of them.
* Two members' requests that overlap, or a failed call in between, leave roles the
  mirror does not show; `RemovedHoldsNothing` says that a removal takes them all.

## 5. What is proved

Every safety property of the passing runs (each invariant and each action property) is
a theorem, for all values of the constants of its module. Only the temporal properties
with liveness in them are left to TLC (`DispatchesAll`, `CatchesUp`, `StreamsEnd`, see the
end of this section). PROJECT.json lists the theorems under `theorems`.

The assumptions are the `ASSUME`s of the modules, named `...Assumption`, which TLC
evaluates on every run: bounds are natural numbers; batches, pages, rings, lags and
merge channels have room for one (`BoundAssumption`, `SeenCapacityAssumption`,
`AggregateAssumption`, `ProjectStreamAssumption`, `StreamAssumption`, `PagingAssumption`,
`SearchAssumption`, `PermAssumption`, `VisAssumption`); a board has a column, a backfill a
card (`SnapshotAssumption`, `TuplesAssumption`); "nothing" is not one of the things
(`NoScopeAssumption`, `CardAssumption`, `PartsAssumption`, `TieAssumption`, `LayAssumption`,
`GithubAssumption`, ...); every board has a project (`ScopeAssumption`, `CardAssumption`).
One says that a set is finite: a tenant has finitely many boards (`SourcesAssumption`), so
that the sources of an aggregated board can be counted. The numbers of pods, streams,
boards, cards, keys and messages are not assumed finite or small, except where the
modules number them (`1..N`, for any `N`).

| Component | Theorem | Property of the run | Inductive invariant |
| --- | --- | --- | --- |
| Outbox | `TypeCorrect`, `MarkedStored`, `OneCopy`, `Drained`, `FeedSafe` | those of `outbox_safety` | `IInv`, `DrainInv` |
| Cutover | `TrackerSound` (`TrackerTypes`, `EmitsInOrder`, `RingWindow`, `RingEmitted`) | `TrackerIsSound` | `TrackerInv` |
| Registry | `RegistryBreaksOnlySo`, `EntryGoesWithStreams` | `OnlyReplacingBreaks` | `RegBase`, `RegInv` |
| BoardStream | `OverlapHarmless` (`StreamLosesNothing`, `StreamSkipsNothing`), `StreamRegistryBreaksOnlySo` | `OverlapIsHarmless` | `StreamInv` |
| StreamAccess | `Rechecked` | `RechecksInTime` | `AccInv` |
| ProjectStream | `ProjectFollowed` | `ProjectIsFollowed` | `ProjectInv` |
| AggregateStream | `MergeKept` | `MergeKeepsSources` | `AggInv` |
| CardRefs | `RefsSound` | `RefsAreSound` | `RefInv` |
| CardEvents | `EventsTell` | `EventsTellTheCard` | `EventsInv` |
| CardPatch | `ViewerIsRight` | `ViewerFollows` | `PatchInv` |
| CardProject | `TiesHome` | `TiesAreHome` | `TieInv` |
| Idempotency | `RetriesSafe` | `RetriesAreSafe` | `IdemInv` |
| BoardSnapshot | `SnapshotMisses` | `MissesOnlyArrivals` | `SnapInv` |
| CardParts | `PartsTold` | `PartsAreTold` | `PartsInv` |
| StartUp | `BootSound`, `PodsHandOverAll` | `BootIsSound`, `PodsHandOver` | `UpInv`, `HandInv` |
| Requests | `RequestsChecked` | `RequestsAreChecked` | `ReqInv` |
| SearchIndex | `IndexFollowed` | `IndexFollows` | `IxInv` |
| Settings | `UpdatesKept` | `UpdatesAreKept` | `SettingsInv` |
| Visibility | `AnswersShowWhatIsOpen` | `ShowsWhatIsOpen` | `VisInv` |
| ParentTuples | `CardsAreSeenFromHome` | `TuplesFollowCards` | `TupInv` |
| BoardLayout | `LayoutStands` (`CardsFit`) | `LayoutHolds` | `LayInv`, `PosInv` |
| ProjectMembers | `MembersBacked` | `MembersAreBacked` | `MemInv` |
| Catalogue | `CatalogueWhole` | `CatalogueIsWhole` | `CatInv`, `Filings` |
| AggregateSources | `SourcesHeal` | `SourcesAreInOrder` | `SrcInv` |
| GithubLinks | `LinksFresh` | `LinksAreFresh` | `GhInv` |
| Permissions | `AnswersTrue` | `AnswersAreTrue` | `PermInv` |
| Attachments | `AttachmentsWhole` | `AttachmentsAreWhole` | `AttInv` |
| SearchPaging, Paging | `PagesSound` (`SearchSound`, `ListsOnce`) | `PagesAreSound` | `SearchInv`, `PageInv` |
| MCStreams | `StreamsTypes` | `StreamsTypeOK` | those of its components, `SentWasPublished` |
| MCCards | `CardsTypes` | `CardsTypeOK` | those of its components, `PartRests` |
| MCServing | `ServingTypes` | `ServingTypeOK` | those of its components, `PermBounds`, `TokensWere`, `PodsWork`, `IxBounds`, `ShownWithin`, `ListingTypes` |
| MCBoards | `BoardsTypes` | `BoardsTypeOK` | those of its components, `CardsAreOfBoards`, `StaleIsAnother`, `Filings`, `SourcesLive` |

Most of these properties are not inductive: they speak of rows, logs and answers,
and a step writes what a request read some steps before. The inductive invariant says
what a request under way may still rely on. Each proof has one step (or one lemma)
per action, and under it one per part of the invariant that the action disturbs. A
composition (`MCStreams`, `MCCards`, `MCServing`, `MCBoards`) implies the specification
of each of its components, since the components that rest stutter; a theorem about
a component is then one about the composition. The types are seldom inductive by
themselves either: the domain of a sequence, a position or the author of a
comment needs the invariant.

What follows names the parts of each invariant, in the order of section 2.

### Outbox

For all sets of boards, projects and pods and all values of `MaxRow`, `BatchSize`
and `MaxLapse`:

* `TypeCorrect`: `Spec => []TypeOK`;
* `MarkedStored`: `Spec => []MarkedIsStored`;
* `OneCopy`: `Spec => []OneCopyPerWindow`;
* `Drained`: `Spec => []DrainedIsComplete`;
* `FeedSafe`: `Spec => FeedSafety`, the initial states and steps
  of the outbox are those of `EventFeed` or stutter.

Assumptions: `ScopeAssumption` (a board is not a project, every board has a
project), `BoundAssumption` (the bounds are numbers, a batch is not empty),
`NoScopeAssumption`.

`MarkedIsStored` is not inductive: a `Mark` copies `ack`, and `ack` of a duplicate comes
from the window. The inductive invariant `IInv` is `TypeOK`, `CommittedOnly` (what
is in the table or in a batch has a scope, so that what is published is a message)
and `SequencesAgree` (every sequence number somebody holds, in the table, in the
window or in an acknowledgement, names a stored copy of that row). Its proof has
one step per action; `StoreKeepsCopies` and `NextRowInv` carry what the actions
share. `OneCopyPerWindow` follows from the exact count `CopiesCounted`: the copies
of a row are its lapses, plus one if its window is open.

`DrainedIsComplete` relates revisions to messages, and neither mentions the other
in a step. `DrainInv` links them through the table: `RowsKept` (only the deletion of
a board removes its rows), `RevisionsRecorded` (the rows of a board carry exactly
its revisions) and `MessagesFaithful` (a message says what its row says). With
`MarkedIsStored`, a table without undispatched rows then gives every revision a
message.

For `FeedSafe`, a transaction of a handler is a `Commit`, a publish that stores a
message is a `Deliver`, and everything else leaves the mapped variables alone. The
abstract bound on copies comes from `CopiesCounted` and `LapsesBounded`.

### Cutover tracker

For every set of ids, every stream and every `SeenCapacity`, `MaxSeq`, `MaxInserts`:

* `TrackerTypes`: `CutoverSpec => []CutoverTypeOK`;
* `EmitsInOrder`: `CutoverSpec => []EmittedInOrder`;
* `RingWindow`: `CutoverSpec => []RingIsRecentWindow`;
* `RingEmitted`: `CutoverSpec => []RingHoldsOnlyEmitted`.

Assumptions: `SeenCapacityAssumption` (the ring has room for one id) and
`CutoverAssumption` (the bounds are numbers). `TrackerSound` is their conjunction. The
inductive invariant `TrackerInv` adds to the types and to `RingIsRecentWindow`: `Progress` (phase and last sequence of the tracker
bound what was emitted), `RingIsTail` (the ring is the tail of the history of
insertions, all of it until the ring is full) and `RingKnown` (somebody was sent
what the ring holds). `RingIsTail` is what makes the window provable: an id that the
ring does not hold was last inserted at least `SeenCapacity` insertions ago.
`RememberPushes` states once what an insertion does to the ring.

### Registry, and the board stream on top of it

`RegBase` holds however streams overlap: `RegTypeOK`, `HoldersFinite`, `SpawnedIsPrivate`
(a channel whose pump was spawned and that is not in the map yet belongs to one
stream), `OneKeyPerChannel` and `EntryNeverOutlivesStreams`. `RegInv` adds what a key keeps
until one of its channels is replaced: `HandleIsEntry` and `CountIsHolders` of every key
that is not in `torn`, and of all keys `SpawnedIsRight`, `EntryIsRight` and `PumpsAreKnown`. The
awaits of the slow path lie between finding nothing and inserting: an insertion that
finds an entry is the only step that takes a key out of these.

`StreamImplementsRegistry` shows that a step of a board stream is one of the registry or
leaves it alone, so `StreamRegistryBreaksOnlySo` follows without a second proof.
`OverlapHarmless` has to hold with overlapping slow paths: what a replaced entry costs is
a consumer, never an event. `StreamInv` is `RegBase`, `StreamTypes` (what was fed was
committed; the stream's first message is not beyond its end), `StartsOpen` and
`SnapshotCovers`: a fresh client knows the feed up to its boundary, up to its cursor
and up to the last sequence of its tracker, and the ring of the tracker holds only
what it knows. So whatever is skipped, by cursor, boundary or ring, is known.

### The merges

`ProjectInv` is `StreamTypeOK`, `HeardBehind` (a receiver has passed what was heard),
`NewsInOrder` and `LaterBoardsAnnounced` (a board made after the boards were listed was
announced, on the subject the stream joins later). `AggInv` is `AggShapes`,
`SourcesInOrder` (what waits and what was consumed of a source increase and stay behind
its receiver), `TrackerSent` (what the ring remembers was sent), `SourcesWithoutGaps` and
`LostOnlyIfOvertaken`.

### Access to streams

For any bound on the changes of visibility and relation (`StreamAccessAssumption`):

* `AccTypes`: `AccSpec => []AccTypeOK`;
* `OneEnvelope`: `AccSpec => []OneBeforeRecheck`;
* `ReadersStay`: `AccSpec => []KeepsItsReaders`;
* `Rechecked`: `AccSpec => []RechecksInTime`, the conjunction of the two that `streams` checks.

`AccInv` adds to them `ShownWhileDue` (an envelope shown since the recheck became due
leaves the loop anywhere but at its `select!`, so that the recheck comes before the
next one), `GapIsSeen` (a reader without view lost it or lacked it since the question)
and `ProjectsRecheck` (a project's stream is set to recheck before its snapshot).

### References of cards

For all sets of projects and cards and any number of requests (`RefAssumption`:
that it is a number):

* `RefTypes`: `RefsSpec => []RefsTypeOK`;
* `OneCardPerRef`: `RefsSpec => []RefNamesOneCard`;
* `NoHoles`: `RefsSpec => []RefsDense`;
* `RefsSound`: `RefsSpec => []RefsAreSound`, the conjunction of the two that `cards` checks.

`RefNamesOneCard` is not inductive: two requests that have both drawn a number could
issue it twice. `RefInv` adds `DrawnIsNext`: whoever has drawn holds the lock of the
project, and the number is still the one of the counter. A commit then issues
exactly the next number, which `RefsDense` says nobody has (`IssuedBelow`).

### The other card handlers

* `EventsInv` (`CardEvents`): `Distinct` (a revision that was given out is of one request,
  logged or not), `Followed` (what a client has), `Serial` (requests that come one at a
  time), `LogInOrder` and `WillConverge`: whatever of the card the client has not got is in
  an entry it will take for new.
* `PatchInv` (`CardPatch`): `LogTells` (each entry of the log turns one row of the history
  into the next) and `ViewerStands` (the viewer stands at one of these rows, at the
  dispatched part of the log or beyond).
* `TieInv` (`CardProject`): `TieOrder` and `ReadIsSo`: what a request that is alone has read
  of the project of card, milestone or label is so when it writes.
* `IdemInv` (`Idempotency`): `KeyOrder`, `Unlapsed` (what the ghost rules out did not
  happen), `OneEffect` (whoever is about to work finds nothing done under its key) and
  `Vouched` (a stored answer is of a request that did the work).
* `SnapInv` (`BoardSnapshot`): `ReadSoFar` (what was read of a card that stood still is what
  it is; nothing of a column ahead) and `NothingYet`.
* `PartsInv` (`CardParts`): `EventsPast`, `RevisionsCounted`, `ReadsAgree` (what a handler has
  read is older than the card, or still so: the revision tells which), `AloneSeesAll`,
  `PartsStamped` (a part is as new as what was announced of it), `AnswersPast`,
  `ItemsBounded`, `ChecklistOrdered`, `DepsStand`. `ItemsBounded` is there because nothing
  else says that a list of items has a last one to append behind.

### Start-up, requests, search, permissions, attachments

Of `StartUp`, for any number of pods, migrations and kills and any releases (`StartUpAssumption`):

* `LedgerTrue`: `UpSpec => []LedgerIsTrue`;
* `ReadyToServe`: `UpSpec => []ServesWhenReady`;
* `BootSound`: `UpSpec => []BootIsSound`, the conjunction of the two that `serving` checks.

`UpInv` says what a pod may rely on by how far it has come: every migration before
its next one is in the ledger, one that has `ran` has its effect (`WhatIsBehind`),
what is recorded was run and so was all before it (`RecordedWasRun`), and namespace
and stream exist once the pod is past them (`Prepared`). That another pod records,
fails or dies takes nothing of this away; only a pod's own boot sets `nextMig`.

* `HandInv` (`PodsHandOverAll`): `OneLooks` (unless two pods looked at the stream at once,
  what the one that looks saw is still so), `LeftLater` (what a final drain owes and
  is still pending is still ahead of it, and nothing is once its loop has ended; that
  others drain the same rows only takes from it) and `LastBootSetsStream`.
* `ReqInv` (`Requests`): `IdleIsEmpty`, `WitnessedNow` (whatever is so now was so at some time
  since the request arrived), `KnownWasActive` and `SecondIsFresh` (the second attempt
  to introspect has a new token).
* `IxInv` (`SearchIndex`): `DeletedForGood`, and for every card whose word was not lost
  `FollowsCard`: whoever reads the card for its document has what the card is, or there
  is word of the change still to be worked off.
* `PermInv` (`Permissions`): `ClientMade` (a cell that is set holds a ready client),
  `CallStands` (a grant that was answered was there) and `RemovedSoFar` (what a removal
  has yet to delete lies on its page or beyond its token, or was granted since).
* `AttInv` (`Attachments`): `RequestsAim`, `ObjectsUploaded`, `SizesUploaded` (what S3 told a
  confirmation was uploaded, and so was what a row says), `UploadsStay` (what is gone
  from S3 a DeleteAttachment took) and `StraysKnown`.
* `SearchInv` (`SearchPaging`): `HitsInOrder`, `ShownToCursor`, `ReadFromCursor` (what was read
  are the first documents beyond the cursor), `NoneLeftOut` and `SeenSince`.
* `PageInv` (`Paging`): unless a change upset the listing, which the property excuses,
  `OrderStands`, `RowsStay` (the row of the cursor is still there, and so are those
  left alone) and `ListedSoFar` (of those the listing has passed each was listed once).

### Boards and projects

* `SettingsInv`: `HeldNow` (what a caller holds it held during its request),
  `WriteWasGranted`, `NoLostUpdate`, `EventsTellRow`.
* `VisInv` (`Visibility`): `GhostsSee`, `ReadsAreBetween` (each step of a read lies between
  what was open all along and what was open at some moment), `AnswersAreOpen`.
* `TupInv` (`ParentTuples`): `MovesLeave` (the tuple a move deletes is of a board the card
  left), `ParentsStand`, `Repaired` (the migration is past a card, or about to grant),
  `AloneGoes`.
* `LayInv` (`BoardLayout`): `CardsHaveColumns`, `ReadsStand`, `SerialReads`,
  `CompletedInDoneColumn`. `PosInv`: `PosNumbers` (the rows of a column have a last
  position a query can find), `PlacesAsked`, `LockHeld` (one request at a time has the
  lock of a project), `AtTheEnd` (what was the last position under the lock still is
  when the card is written), `PlacesStand`, `CardOrderTotal`, `AppendsDistinct`,
  `ColumnOrderTotal`.
* `MemInv` (`ProjectMembers`): `OneUnderWay`, `NoneNamesCleared`, `RemovedHoldsNothing`,
  `BackedOrTurning` (a row is backed by its tuple, or a request is turning it),
  `OneRoleSoFar`, `NewsInSync`.
* `CatInv` (`Catalogue`): `SinceSees`, `GetsItsRow`, `ListSoFar`, `CountedTogether` (all counts
  of an answer are taken by one query). `Filings`: an update whose milestone was deleted since
  it looked is a late one, and so is whatever is filed under a deleted milestone.
* `SrcInv` (`AggregateSources`): `AloneReads` (what a request that nothing overlaps has
  read is so), `PlacesApart`, `SourcesContiguous`, `LandsWhereAsked`. That an order without
  repetition and with as many places as there are rows lists every row is where the
  finiteness of the boards is used.
* `GhInv` (`GithubLinks`): `AnswersHeld` (an answer of GitHub is not newer than the issue,
  nor older than the start of the resync), `MadeOnce`, `ResyncsApart` (of two resyncs of
  a link one overlapped the other or began after its end), `BoardRead` (the board a
  resync read is the card's, or the card has moved since), with the three parts of
  the property.

### Only model-checked

* Liveness under fairness and ENABLED: `CatchesUp`, `StreamsEnd` and `DispatchesAll`, that is
  `EventuallyMarked` and the liveness of `ImplementsFeed`; the safety of that refinement
  is `FeedSafe`.
* What a recursive definition computes for every input: that needs induction over
  data, and the library states it with an operator as a parameter, which the
  installed provers cannot instantiate. The modules proved about have no recursion;
  where the code sorts or renumbers, a model says which row comes at which place.

## 6. Not modelled, and what could follow

* The identity client: a read-through cache of display names in front of an external
  service; nothing else depends on what it holds.
* The creation of an aggregated board: one transaction and a key, as in `ProjectMembers`
  and `Idempotency`.
* A row that can never be published (`LIMIT` always takes the oldest rows), and
  JetStream's redelivery to a pump that has not acknowledged.
* The contents of templates, the query language of the search, request signing,
  configuration and routing, formatting and logging: data and pure I/O.
* The permission-coverage tool, the test harness and the generated protobuf code.

What could follow, in this order: redelivery in `Registry` and `BoardStream`; rows that
can never be published, in `Outbox`; the creation of an aggregated board.

## 7. Running

```
tlasany Outbox.tla
tlc -workers 2 -config MCOutbox_safety.cfg MCOutbox
tlapm Outbox_proofs.tla
```
