----------------------------- MODULE EventFeed -----------------------------
(***************************************************************************)
(* What the outbox promises to the subscribers of the stream, without      *)
(* pods, batches, acknowledgements or a duplicate window: an event that a  *)
(* transaction committed is fed at least once and at most MaxCopies times, *)
(* unless it is withdrawn (its board is deleted) before it was fed; an     *)
(* event that was never committed is never fed.  No order is promised.     *)
(***************************************************************************)
EXTENDS Integers, Sequences, FiniteSets

CONSTANTS Event, MaxCopies

VARIABLES
    committed,   \* events whose transaction committed
    withdrawn,   \* committed events that no longer exist in the log
    feed         \* the events fed so far, in order

feedVars == <<committed, withdrawn, feed>>

Fed(e) == {i \in DOMAIN feed : feed[i] = e}

FeedInit ==
    /\ committed = {}
    /\ withdrawn = {}
    /\ feed = <<>>

\* A transaction commits e and may remove other events from the log.
Commit(e, removed) ==
    /\ e \notin committed
    /\ removed \subseteq committed \ withdrawn
    /\ committed' = committed \cup {e}
    /\ withdrawn' = withdrawn \cup removed
    /\ UNCHANGED feed

\* An event may still be fed just after it was withdrawn.
Deliver(e) ==
    /\ e \in committed
    /\ Cardinality(Fed(e)) < MaxCopies
    /\ feed' = Append(feed, e)
    /\ UNCHANGED <<committed, withdrawn>>

FirstDelivery(e) == e \notin withdrawn /\ Fed(e) = {} /\ Deliver(e)

FeedNext == \E e \in Event :
    \/ \E removed \in SUBSET committed : Commit(e, removed)
    \/ Deliver(e)

FeedSpec ==
    /\ FeedInit
    /\ [][FeedNext]_feedVars
    /\ \A e \in Event : WF_feedVars(FirstDelivery(e))
=============================================================================
