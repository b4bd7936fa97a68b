----------------------------- MODULE OutboxFeed -----------------------------
(***************************************************************************)
(* The outbox implements EventFeed: what subscribers can rely on however   *)
(* many pods dispatch and whenever they fail.                              *)
(***************************************************************************)
EXTENDS Outbox

Feed == INSTANCE EventFeed WITH
    Event     <- RowId,
    MaxCopies <- MaxLapse + 1,
    committed <- RowId \ Unused,
    withdrawn <- (RowId \ Unused) \ rows,
    feed      <- [s \in DOMAIN stream |-> stream[s].id]

\* Whatever the pods do, nothing uncommitted is fed, no event is fed more often
\* than its duplicate windows allow, and a cascade only ever withdraws events.
FeedSafety == Feed!FeedInit /\ [][Feed!FeedNext]_(Feed!feedVars)

\* Every committed event reaches the stream, at least once and at most once
\* per duplicate window, unless the cascade of DeleteBoard removed its row
\* first; nothing uncommitted does.
ImplementsFeed == Feed!FeedSpec

\* The outbox implements the feed, liveness included, and every row that waits is marked
\* in the end or goes with its board.
DispatchesAll == ImplementsFeed /\ EventuallyMarked
=============================================================================
