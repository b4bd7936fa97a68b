---------------------------- MODULE ProjectStream ----------------------------
(***************************************************************************)
(* SubscribeProject (src/src/services/projects.rs): the boards of the      *)
(* project are listed, a child board stream is made for each, the project  *)
(* subject is subscribed, and a loop merges the children, the subscription *)
(* and heartbeats.  The board service announces the boards that come and   *)
(* go on the project subject.                                              *)
(*                                                                         *)
(* A child is built lazily: `build_subscribe_board_stream` cannot fail, it *)
(* subscribes and reads its snapshot inside the task that drives it.       *)
(***************************************************************************)
EXTENDS Integers, Sequences

CONSTANTS
    StreamBoard,   \* boards of the project, those to come included
    NewsLag,       \* capacity of the project's broadcast channel
    MergeRoom,     \* capacity of the merge channel (mpsc, 256)
    ChildNews      \* bound: events a board has

ASSUME ProjectStreamAssumption ==
    NewsLag \in Nat \ {0} /\ MergeRoom \in Nat \ {0} /\ ChildNews \in Nat

Off == -1   \* no channel, or no subscription

VARIABLES
    boardIs,      \* "unborn", "there" or "deleted"
    news,         \* project events committed: <<"created" or "deleted", board>>
    newsOut,      \* how many of them the dispatcher has published
    pumpAt,       \* how many this pod's channel broadcast, or Off
    others,       \* whether another stream of this pod holds the channel
    merge,        \* "asked", "listed", "on", "ended" or "left"
    received,       \* how many the receiver took, or Off
    child,        \* "none", "held", "on" or "done"
    backlog,      \* events of a board its child has not taken yet
    merged,       \* envelopes in the merge channel
    childrenOpen, \* the loop still listens to the merge channel
    heard,        \* project events the client received, in order
    lapse         \* history: the project events the receiver never got

streamVars == <<boardIs, news, newsOut, pumpAt, others, merge, received, child,
                backlog, merged, childrenOpen, heard, lapse>>

boardVars == <<boardIs, news, backlog>>
childVars == <<child, merged>>
loopVars  == <<merge, received, childrenOpen, heard, lapse>>

ChildBoards == {b \in StreamBoard : child[b] # "none"}

StreamInit ==
    /\ boardIs \in [StreamBoard -> {"unborn", "there"}]
    /\ news = <<>> /\ newsOut = 0 /\ pumpAt = Off /\ others = FALSE
    /\ merge = "asked" /\ received = Off
    /\ child = [b \in StreamBoard |-> "none"]
    /\ backlog = [b \in StreamBoard |-> 0]
    /\ merged = 0 /\ childrenOpen = FALSE /\ heard = <<>> /\ lapse = {}

-----------------------------------------------------------------------------
(* The boards, the dispatcher and the channel.                             *)

\* create_board: the board and its BoardCreated in one transaction.
BoardCreated(b) ==
    /\ boardIs[b] = "unborn"
    /\ boardIs' = [boardIs EXCEPT ![b] = "there"]
    /\ news' = Append(news, <<"created", b>>)
    /\ UNCHANGED <<newsOut, pumpAt, others, backlog, childVars, loopVars>>

\* delete_board: BoardDeleted is a project event, which the cascade spares.
BoardDeleted(b) ==
    /\ boardIs[b] = "there"
    /\ boardIs' = [boardIs EXCEPT ![b] = "deleted"]
    /\ news' = Append(news, <<"deleted", b>>)
    /\ UNCHANGED <<newsOut, pumpAt, others, backlog, childVars, loopVars>>

NewsPublished ==
    /\ newsOut < Len(news)
    /\ newsOut' = newsOut + 1
    /\ UNCHANGED <<boardVars, pumpAt, others, childVars, loopVars>>

NewsPumped ==
    /\ pumpAt # Off /\ pumpAt < newsOut
    /\ pumpAt' = pumpAt + 1
    /\ UNCHANGED <<boardVars, newsOut, others, childVars, loopVars>>

\* Variant: the consumer delivers what is published from now on.
OpenedAt_Now == newsOut

\* The consumer of a new channel delivers everything the stream retains.
OpenedAt == 0

OtherSubscribes ==
    /\ ~others
    /\ others' = TRUE
    /\ pumpAt' = IF pumpAt = Off THEN OpenedAt ELSE pumpAt
    /\ UNCHANGED <<boardVars, newsOut, childVars, loopVars>>

OtherLeaves ==
    /\ others
    /\ others' = FALSE
    /\ pumpAt' = IF received = Off THEN Off ELSE pumpAt
    /\ UNCHANGED <<boardVars, newsOut, childVars, loopVars>>

BoardHasNews(b) ==
    /\ child[b] = "on" /\ boardIs[b] = "there"
    /\ backlog[b] < ChildNews
    /\ backlog' = [backlog EXCEPT ![b] = @ + 1]
    /\ UNCHANGED <<boardIs, news, newsOut, pumpAt, others, childVars, loopVars>>

-----------------------------------------------------------------------------
(* The stream.                                                             *)

ListBoards ==
    /\ merge = "asked"
    /\ merge' = "listed"
    /\ child' = [b \in StreamBoard |-> IF boardIs[b] = "there" THEN "held" ELSE "none"]
    /\ UNCHANGED <<boardVars, newsOut, pumpAt, others, merged, received, childrenOpen, heard, lapse>>

ListensToChildren == ChildBoards # {}

\* The receiver starts at what the channel broadcast so far; the children's
\* tasks start with the stream's first poll.
SubscribeNews ==
    /\ merge = "listed"
    /\ pumpAt' = IF pumpAt = Off THEN OpenedAt ELSE pumpAt
    /\ received' = pumpAt'
    /\ lapse' = IF pumpAt = Off THEN {} ELSE 1..pumpAt
    /\ merge' = "on"
    /\ childrenOpen' = ListensToChildren
    /\ child' = [b \in StreamBoard |-> IF child[b] = "held" THEN "on" ELSE child[b]]
    /\ UNCHANGED <<boardVars, newsOut, others, merged, heard>>

\* "A failure here must not kill the board streams."
SubscribeNewsFails ==
    /\ merge = "listed"
    /\ merge' = "on"
    /\ childrenOpen' = ListensToChildren
    /\ child' = [b \in StreamBoard |-> IF child[b] = "held" THEN "on" ELSE child[b]]
    /\ UNCHANGED <<boardVars, newsOut, pumpAt, others, merged, received, heard, lapse>>

\* A child that cannot subscribe or read its snapshot, or lags, or loses its
\* channel or its permission: the board is dropped.
ChildFails(b) ==
    /\ child[b] = "on"
    /\ child' = [child EXCEPT ![b] = "done"]
    /\ UNCHANGED <<boardVars, newsOut, pumpAt, others, merged, loopVars>>

\* Variant: a child does not look at the result of its send.
ChildForwards_IgnoresClosed(b) ==
    /\ child[b] = "on" /\ backlog[b] > 0
    /\ backlog' = [backlog EXCEPT ![b] = @ - 1]
    /\ merge = "on" => merged < MergeRoom
    /\ merged' = IF merge = "on" THEN merged + 1 ELSE merged
    /\ UNCHANGED <<boardIs, news, newsOut, pumpAt, others, child, loopVars>>

\* A child waits for room, and learns that the loop is over with its next event
\* only: it skips its heartbeats before the send.
ChildForwards(b) ==
    /\ child[b] = "on" /\ backlog[b] > 0
    /\ backlog' = [backlog EXCEPT ![b] = @ - 1]
    /\ IF merge = "on"
       THEN merged < MergeRoom /\ merged' = merged + 1 /\ UNCHANGED child
       ELSE child' = [child EXCEPT ![b] = "done"] /\ UNCHANGED merged
    /\ UNCHANGED <<boardIs, news, newsOut, pumpAt, others, loopVars>>

TakeChild ==
    /\ merge = "on" /\ childrenOpen /\ merged > 0
    /\ merged' = merged - 1
    /\ UNCHANGED <<boardVars, newsOut, pumpAt, others, child, loopVars>>

\* Variant: the last receiver of this stream takes the channel away from others.
Released_Always == Off

Released == IF others THEN pumpAt ELSE Off

AfterChildren == IF received = Off THEN "ended" ELSE "on"

\* Every sender is dropped and the channel is empty.
ChildrenEnded ==
    /\ merge = "on" /\ childrenOpen /\ merged = 0
    /\ \A b \in ChildBoards : child[b] = "done"
    /\ childrenOpen' = FALSE
    /\ merge' = AfterChildren
    /\ UNCHANGED <<boardVars, newsOut, pumpAt, others, childVars, received, heard, lapse>>

Unread == pumpAt - received

TakeNews ==
    /\ merge = "on" /\ received # Off
    /\ Unread \in 1..NewsLag
    /\ received' = received + 1
    /\ heard' = Append(heard, received')
    /\ UNCHANGED <<boardVars, newsOut, pumpAt, others, childVars, merge, childrenOpen, lapse>>

\* Variant: a receiver that lagged resumes with the newest message.
ResumesAt_Newest == pumpAt

ResumesAt == pumpAt - NewsLag

\* "Skip lagged project events; the next ones still arrive."
SkipNews ==
    /\ merge = "on" /\ received # Off
    /\ Unread > NewsLag
    /\ received' = ResumesAt
    /\ lapse' = lapse \cup ((received + 1)..(pumpAt - NewsLag))
    /\ UNCHANGED <<boardVars, newsOut, pumpAt, others, childVars, merge, childrenOpen, heard>>

\* Variant: the loop does not see that nothing is left.
AfterNews_Stays == "on"

AfterNews == IF childrenOpen THEN "on" ELSE "ended"

\* The channel was taken away from this receiver (see Registry).
NewsCloses ==
    /\ merge = "on" /\ received # Off /\ Unread = 0
    /\ received' = Off
    /\ pumpAt' = Released
    /\ merge' = AfterNews
    /\ lapse' = lapse \cup {i \in 1..Len(news) : i > received}
    /\ UNCHANGED <<boardVars, newsOut, others, childVars, childrenOpen, heard>>

\* The client leaves, the token or the permission is gone: the loop drops its
\* receivers; children not yet spawned are dropped with it.
StreamLeft ==
    /\ merge \in {"asked", "listed", "on"}
    /\ merge' = "left"
    /\ received' = Off
    /\ pumpAt' = Released
    /\ merged' = 0
    /\ child' = [b \in StreamBoard |-> IF child[b] = "held" THEN "done" ELSE child[b]]
    /\ UNCHANGED <<boardVars, newsOut, others, childrenOpen, heard, lapse>>

StreamNext ==
    \/ NewsPublished \/ NewsPumped \/ OtherSubscribes \/ OtherLeaves
    \/ ListBoards \/ SubscribeNews \/ SubscribeNewsFails
    \/ TakeChild \/ ChildrenEnded \/ TakeNews \/ SkipNews \/ NewsCloses \/ StreamLeft
    \/ \E b \in StreamBoard :
        BoardCreated(b) \/ BoardDeleted(b) \/ BoardHasNews(b) \/ ChildFails(b) \/ ChildForwards(b)

StreamSpec == StreamInit /\ [][StreamNext]_streamVars

\* The tasks are scheduled; boards may stay quiet and clients may stay for ever.
StreamFairness ==
    /\ WF_streamVars(TakeChild) /\ WF_streamVars(ChildrenEnded)
    /\ \A b \in StreamBoard : WF_streamVars(ChildForwards(b))

StreamFairSpec == StreamSpec /\ StreamFairness

-----------------------------------------------------------------------------
(* Properties.                                                             *)

\* The positions of news, channel and receiver are ordered, and the merge
\* channel stays within its capacity; a channel that is held is open.
StreamTypeOK ==
    /\ boardIs \in [StreamBoard -> {"unborn", "there", "deleted"}]
    /\ newsOut \in 0..Len(news) /\ pumpAt \in {Off} \cup 0..newsOut
    /\ received \in {Off} \cup 0..newsOut /\ received <= pumpAt
    /\ merge \in {"asked", "listed", "on", "ended", "left"}
    /\ child \in [StreamBoard -> {"none", "held", "on", "done"}]
    /\ backlog \in [StreamBoard -> 0..ChildNews] /\ merged \in 0..MergeRoom
    /\ childrenOpen \in BOOLEAN /\ others \in BOOLEAN
    /\ others \/ received # Off => pumpAt # Off
    /\ lapse \subseteq 1..Len(news)

Announces(i, b) == news[i] = <<"created", b>>
HeardOf(b) == \E k \in DOMAIN heard : Announces(heard[k], b)

\* subscribe_project: a board of the project either has a child stream or is
\* announced to a client that reads on, unless the announcement lies among the
\* ones a shared channel broadcast before the stream joined it, or the receiver
\* lagged behind.
NoBoardUnheardOf ==
    merge = "on" /\ received # Off =>
        \A b \in StreamBoard : boardIs[b] = "there" =>
            \/ b \in ChildBoards \/ HeardOf(b)
            \/ \E i \in DOMAIN news : Announces(i, b) /\ (i \in lapse \/ i > received)

\* subscribe_project, the lag arm: the project events of a stream are passed on
\* in their order and none is missing but the ones known to be lost.
NewsInOrder ==
    /\ \A j, k \in DOMAIN heard : j < k => heard[j] < heard[k]
    /\ received # Off => \A i \in 1..received :
        i \in lapse \/ \E k \in DOMAIN heard : heard[k] = i

\* subscribe_project: the stream ends once nothing can come any more, every
\* child has ended and the project channel is closed; not if it never had any
\* board.
EndsWithItsSources ==
    (merge = "on" /\ ChildBoards # {} /\ received = Off /\ \A b \in ChildBoards : child[b] = "done")
        ~> merge \in {"ended", "left"}

\* subscribe_project, the spawned tasks: a child whose client is gone gives up
\* its board subscription with the next event of its board.
ChildReleased ==
    \A b \in StreamBoard :
        (merge = "left" /\ child[b] = "on" /\ backlog[b] > 0) ~> child[b] = "done"

\* A client of a project knows of every board, and of the news in their order, but for what
\* the lag arm and a shared channel lose.
ProjectIsFollowed == NoBoardUnheardOf /\ NewsInOrder
=============================================================================
