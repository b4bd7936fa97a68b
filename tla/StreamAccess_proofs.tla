--------------------------- MODULE StreamAccess_proofs ---------------------------
(***************************************************************************)
(* Proofs about the streams a client opens.  StreamAccess, for any number  *)
(* of changes of the relation and of the visibility: after a recheck is    *)
(* due one envelope is shown at most, and a stream is ended only on a      *)
(* reader who had lost view.  ProjectStream, for any boards and lags: a    *)
(* board nobody told the client of is in a part of the news that a lag or  *)
(* a shared channel lost.  AggregateStream, for any sources and rings: the *)
(* merged stream keeps the order of each source, and loses an envelope     *)
(* only where the receiver was overtaken.                                  *)
(*   AccInv       which envelope that one is, and that a loss of view was  *)
(*                seen;                                                    *)
(*   ProjectInv   the receiver has passed whatever was heard, and a board  *)
(*                made after the boards were listed was announced;         *)
(*   AggInv       what waits and what was consumed of a source increase    *)
(*                and stay behind the receiver's cursor.                   *)
(*                                                                         *)
(* StreamsTypes: the types of the composition of all streams (MCStreams),  *)
(* by these invariants, that of BoardStream and SentWasPublished: what the *)
(* merge sent to the client was published.                                 *)
(***************************************************************************)
EXTENDS MCStreams, BoardStream_proofs, FiniteSetTheorems, SequenceTheorems, WellFoundedInduction, TLAPS

\* The envelope shown since the recheck was due is the one the loop waited for: before it
\* waits again, it rechecks.
ShownWhileDue ==
    /\ lately \in {0, 1}
    /\ lately = 1 => due /\ rechecked /\ loop # "select"

\* Whoever lacks view lost it, or lacked it, since the stream was asked for.
GapIsSeen == loop # "idle" /\ ~views => gap

\* A project's stream has been set to recheck before its snapshot is shown.
ProjectsRecheck == loop = "replay" /\ following = "project" => rechecked

AccInv ==
    /\ ProjectsRecheck
    /\ AccTypeOK /\ accChanges \in Nat
    /\ ShownWhileDue
    /\ GapIsSeen
    /\ KeepsItsReaders

\* The initial states satisfy the invariant.
LEMMA InitAccInv == AccInit => AccInv
<1>1. AccInit => AccTypeOK
  <2> SUFFICES ASSUME AccInit PROVE AccTypeOK
    OBVIOUS
  <2>1. loop = "idle" /\ ~due /\ accChanges = 0
    BY DEF AccInit
  <2>2. openToAll \in BOOLEAN /\ views \in BOOLEAN /\ gap \in BOOLEAN /\ rechecked \in BOOLEAN /\ due \in BOOLEAN
    BY DEF AccInit
  <2>3. following \in {"board", "aggregate", "project"}
    BY DEF AccInit
  <2>4. accChanges <= AccessChanges
    BY <2>1, StreamAccessAssumption
  <2> QED
    BY <2>1, <2>2, <2>3, <2>4 DEF AccTypeOK, Turning
<1>2. AccInit => ProjectsRecheck /\ ShownWhileDue /\ GapIsSeen /\ KeepsItsReaders
  BY DEF AccInit, ProjectsRecheck, ShownWhileDue, GapIsSeen, KeepsItsReaders
<1>3. AccInit => accChanges \in Nat
  BY DEF AccInit
<1> QED
  BY <1>1, <1>2, <1>3 DEF AccInv

\* Every step keeps the invariant.
LEMMA NextAccInv == AccInv /\ [AccNext]_accVars => AccInv'
<1> SUFFICES ASSUME AccInv, [AccNext]_accVars PROVE AccInv'
  OBVIOUS
<1> USE StreamAccessAssumption
    DEF AccInv, AccTypeOK, Turning, ShownWhileDue, GapIsSeen, KeepsItsReaders, ProjectsRecheck, accRows, accVars
<1>1. CASE AskStream
  <2>1. ProjectsRecheck' /\ AccTypeOK' /\ accChanges' \in Nat
    BY <1>1 DEF AskStream
  <2>2. ShownWhileDue'
    BY <1>1 DEF AskStream
  <2>3. GapIsSeen' /\ KeepsItsReaders'
    BY <1>1 DEF AskStream
  <2> QED
    BY <2>1, <2>2, <2>3
<1>2. CASE AdmitStream
  BY <1>2 DEF AdmitStream
<1>3. CASE ReadVisibility
  BY <1>3 DEF ReadVisibility, Rechecks
<1>4. CASE ReplaySnapshot
  <2>1. ProjectsRecheck' /\ AccTypeOK' /\ accChanges' \in Nat
    BY <1>4 DEF ReplaySnapshot
  <2>2. ShownWhileDue'
    BY <1>4 DEF ReplaySnapshot
  <2>3. GapIsSeen' /\ KeepsItsReaders'
    BY <1>4 DEF ReplaySnapshot
  <2> QED
    BY <2>1, <2>2, <2>3
<1>5. CASE Revalidate
  <2>1. ProjectsRecheck' /\ AccTypeOK' /\ accChanges' \in Nat
    BY <1>5 DEF Revalidate, NeedsRecheck
  <2>2. ShownWhileDue'
    BY <1>5 DEF Revalidate, NeedsRecheck
  <2>3. GapIsSeen' /\ KeepsItsReaders'
    BY <1>5 DEF Revalidate, NeedsRecheck
  <2> QED
    BY <2>1, <2>2, <2>3
<1>6. CASE ShowEnvelope
  BY <1>6 DEF ShowEnvelope, AfterEnvelope, DueStill
<1>7. CASE Heartbeat
  BY <1>7 DEF Heartbeat, Beats, DueStill
<1>8. CASE IntervalElapses
  BY <1>8 DEF IntervalElapses
<1>9. CASE FollowerLeaves
  BY <1>9 DEF FollowerLeaves
<1>10. CASE AccessChange
  <2>1. accChanges' <= AccessChanges /\ accChanges' \in Nat
    BY <1>10 DEF AccessChange
  <2>2. views' \in BOOLEAN /\ openToAll' \in BOOLEAN /\ gap' \in BOOLEAN
    BY <1>10 DEF AccessChange
  <2>3. UNCHANGED <<following, loop, rechecked, due, lately>>
    BY <1>10 DEF AccessChange
  <2>4. (gap => gap') /\ (loop # "idle" /\ ~views' => gap')
    BY <1>10 DEF AccessChange
  <2>5. ProjectsRecheck' /\ AccTypeOK'
    BY <2>1, <2>2, <2>3
  <2>6. ShownWhileDue' /\ GapIsSeen' /\ KeepsItsReaders'
    BY <2>3, <2>4
  <2> QED
    BY <2>1, <2>5, <2>6
<1>11. CASE UNCHANGED accVars
  BY <1>11
<1> QED
  BY <1>1, <1>2, <1>3, <1>4, <1>5, <1>6, <1>7, <1>8, <1>9, <1>10, <1>11 DEF AccNext

\* The invariant holds of every behaviour.
LEMMA AccInvariant == AccSpec => []AccInv
<1>1. AccInit => AccInv
  BY InitAccInv
<1>2. AccInv /\ [AccNext]_accVars => AccInv'
  BY NextAccInv
<1> QED
  BY <1>1, <1>2, PTL DEF AccSpec

\* Every variable of the stream keeps to its set: in particular a project's stream that runs
\* rechecks, and no recheck is due of a stream that has not begun to run.
THEOREM AccTypes == AccSpec => []AccTypeOK
<1>1. AccInv => AccTypeOK
  BY DEF AccInv
<1> QED
  BY <1>1, AccInvariant, PTL

\* build_subscribe_board_stream and its siblings: however long the stream runs and however
\* often relation and visibility change, one envelope at most is shown between the moment
\* a recheck is due and the recheck.
THEOREM OneEnvelope == AccSpec => []OneBeforeRecheck
<1>1. AccInv => OneBeforeRecheck
  BY DEF AccInv, ShownWhileDue, OneBeforeRecheck
<1> QED
  BY <1>1, AccInvariant, PTL

\* The same streams are ended only on a reader who lacked view at some time since they
\* were asked for, and never if the row was open to all when they began.
THEOREM ReadersStay == AccSpec => []KeepsItsReaders
<1>1. AccInv => KeepsItsReaders
  BY DEF AccInv
<1> QED
  BY <1>1, AccInvariant, PTL

\* Together: the recheck of a subscription is in time and wrongs nobody.
THEOREM Rechecked == AccSpec => []RechecksInTime
<1>1. OneBeforeRecheck /\ KeepsItsReaders => RechecksInTime
  BY DEF RechecksInTime
<1> QED
  BY <1>1, OneEnvelope, ReadersStay, PTL

-----------------------------------------------------------------------------
(***************************************************************************)
(* ProjectStream: the boards of a project and their announcements.         *)
(***************************************************************************)
NewsItem == {"created", "deleted"} \X StreamBoard

\* Before the subscription nothing was heard; after it only what the receiver has passed.
HeardBehind ==
    /\ news \in Seq(NewsItem) /\ heard \in Seq(Nat)
    /\ merge \in {"asked", "listed"} => received = Off /\ heard = <<>>
    /\ received # Off => \A k \in DOMAIN heard : heard[k] <= received

\* A board that came after the boards were listed was announced.
LaterBoardsAnnounced ==
    merge \in {"listed", "on"} =>
        \A b \in StreamBoard : (boardIs[b] = "there" /\ child[b] = "none") =>
            \E i \in DOMAIN news : Announces(i, b)

ProjectInv == StreamTypeOK /\ HeardBehind /\ NewsInOrder /\ LaterBoardsAnnounced

-----------------------------------------------------------------------------
\* Nothing was heard of a project nobody asked about.
LEMMA ProjectStarts == StreamInit => ProjectInv
<1> SUFFICES ASSUME StreamInit PROVE ProjectInv
  OBVIOUS
<1>1. /\ news = <<>> /\ heard = <<>> /\ Len(news) = 0 /\ DOMAIN heard = {} /\ newsOut = 0
      /\ pumpAt = Off /\ received = Off /\ merge = "asked" /\ merged = 0 /\ lapse = {}
      /\ others = FALSE /\ childrenOpen = FALSE
  BY DEF StreamInit
<1>2. StreamTypeOK
  <2>1. /\ boardIs \in [StreamBoard -> {"unborn", "there", "deleted"}]
        /\ child \in [StreamBoard -> {"none", "held", "on", "done"}]
        /\ backlog \in [StreamBoard -> 0..ChildNews] /\ merged \in 0..MergeRoom
    BY <1>1, ProjectStreamAssumption DEF StreamInit
  <2>2. /\ Off = -1 /\ newsOut \in 0..Len(news) /\ lapse \subseteq 1..Len(news) /\ received <= pumpAt
        /\ merge \in {"asked", "listed", "on", "ended", "left"} /\ childrenOpen \in BOOLEAN /\ others \in BOOLEAN
    <3>1. 0 \in 0..0 /\ {} \subseteq 1..0 /\ -1 <= -1
      OBVIOUS
    <3> QED BY <1>1, <3>1 DEF Off
  <2>3. others \/ received # Off => pumpAt # Off
    BY <1>1
  <2> QED BY <1>1, <2>1, <2>2, <2>3 DEF StreamTypeOK
<1>3. HeardBehind
  BY <1>1 DEF HeardBehind
<1>4. NewsInOrder /\ LaterBoardsAnnounced
  BY <1>1 DEF NewsInOrder, LaterBoardsAnnounced
<1> QED BY <1>2, <1>3, <1>4 DEF ProjectInv

\* The numbers of published, broadcast and received news are numbers in that order.
LEMMA NewsCounted ==
    ASSUME ProjectInv
    PROVE  /\ Len(news) \in Nat /\ DOMAIN news = 1..Len(news) /\ newsOut \in Nat /\ newsOut <= Len(news)
           /\ pumpAt \in Int /\ pumpAt >= -1 /\ pumpAt <= newsOut
           /\ received \in Int /\ received >= -1 /\ received <= pumpAt
           /\ Off = -1 /\ NewsLag \in Nat /\ NewsLag >= 1
  BY ProjectStreamAssumption DEF ProjectInv, StreamTypeOK, HeardBehind, Off

\* A transaction of the board service adds an announcement.
LEMMA NewsAppended ==
    ASSUME ProjectInv, NEW n \in NewsItem, news' = Append(news, n)
    PROVE  /\ news' \in Seq(NewsItem) /\ Len(news') = Len(news) + 1 /\ news'[Len(news')] = n
           /\ DOMAIN news' = 1..(Len(news) + 1)
           /\ \A i \in DOMAIN news : i \in DOMAIN news' /\ news'[i] = news[i]
<1>1. news \in Seq(NewsItem)
  BY DEF ProjectInv, HeardBehind
<1> QED BY <1>1

\* Boards come and go.
LEMMA BoardsComeAndGo ==
    ASSUME ProjectInv, NEW b \in StreamBoard, BoardCreated(b) \/ BoardDeleted(b)
    PROVE  ProjectInv'
<1>1. PICK n \in NewsItem :
        /\ news' = Append(news, n)
        /\ boardIs' = [boardIs EXCEPT ![b] = IF n[1] = "created" THEN "there" ELSE "deleted"]
        /\ n[1] = "created" => n = <<"created", b>>
  <2>1. CASE BoardCreated(b)
    <3>1. <<"created", b>> \in NewsItem /\ <<"created", b>>[1] = "created"
      BY DEF NewsItem
    <3> QED BY <2>1, <3>1 DEF BoardCreated
  <2>2. CASE BoardDeleted(b)
    <3>1. <<"deleted", b>> \in NewsItem /\ <<"deleted", b>>[1] = "deleted"
      BY DEF NewsItem
    <3> QED BY <2>2, <3>1 DEF BoardDeleted
  <2> QED BY <2>1, <2>2
<1>2. UNCHANGED <<newsOut, pumpAt, others, merge, received, child, backlog, merged, childrenOpen, heard, lapse>>
  BY DEF BoardCreated, BoardDeleted, childVars, loopVars
<1>3. /\ news' \in Seq(NewsItem) /\ Len(news') = Len(news) + 1 /\ news'[Len(news')] = n
      /\ DOMAIN news' = 1..(Len(news) + 1)
      /\ \A i \in DOMAIN news : i \in DOMAIN news' /\ news'[i] = news[i]
  BY <1>1, NewsAppended
<1>4. StreamTypeOK'
  <2>1. boardIs' \in [StreamBoard -> {"unborn", "there", "deleted"}]
    BY <1>1 DEF ProjectInv, StreamTypeOK
  <2>2. newsOut \in 0..Len(news') /\ lapse \subseteq 1..Len(news')
    BY <1>3, NewsCounted DEF ProjectInv, StreamTypeOK
  <2> QED BY <1>2, <2>1, <2>2 DEF ProjectInv, StreamTypeOK
<1>5. HeardBehind' /\ NewsInOrder'
  BY <1>2, <1>3 DEF ProjectInv, HeardBehind, NewsInOrder
<1>6. LaterBoardsAnnounced'
  <2> SUFFICES ASSUME merge \in {"listed", "on"}, NEW d \in StreamBoard, boardIs'[d] = "there", child[d] = "none"
               PROVE  \E i \in DOMAIN news' : news'[i] = <<"created", d>>
    BY <1>2 DEF LaterBoardsAnnounced, Announces
  <2>1. CASE d = b
    <3>1. boardIs'[b] = IF n[1] = "created" THEN "there" ELSE "deleted"
      BY <1>1 DEF ProjectInv, StreamTypeOK
    <3>2. n = <<"created", d>>
      BY <1>1, <2>1, <3>1
    <3>3. Len(news') \in DOMAIN news'
      BY <1>3, NewsCounted
    <3> QED BY <1>3, <3>2, <3>3
  <2>2. CASE d # b
    <3>1. boardIs[d] = "there"
      BY <1>1, <2>2 DEF ProjectInv, StreamTypeOK
    <3>2. PICK i \in DOMAIN news : news[i] = <<"created", d>>
      BY <3>1 DEF ProjectInv, LaterBoardsAnnounced, Announces
    <3> QED BY <1>3, <3>2
  <2> QED BY <2>1, <2>2
<1> QED BY <1>4, <1>5, <1>6 DEF ProjectInv

\* The dispatcher, the channel and the children move on.
LEMMA OthersMoveOn ==
    ASSUME ProjectInv,
           \/ NewsPublished \/ NewsPumped \/ OtherSubscribes \/ OtherLeaves \/ TakeChild
           \/ \E b \in StreamBoard : BoardHasNews(b) \/ ChildFails(b) \/ ChildForwards(b)
    PROVE  ProjectInv'
<1>1. UNCHANGED <<boardIs, news, merge, received, childrenOpen, heard, lapse>>
  BY DEF NewsPublished, NewsPumped, OtherSubscribes, OtherLeaves, TakeChild, BoardHasNews, ChildFails,
         ChildForwards, boardVars, loopVars
<1>2. child' \in [StreamBoard -> {"none", "held", "on", "done"}] /\ \A b \in StreamBoard : child'[b] = "none" <=> child[b] = "none"
  BY DEF NewsPublished, NewsPumped, OtherSubscribes, OtherLeaves, TakeChild, BoardHasNews, ChildFails,
         ChildForwards, childVars, ProjectInv, StreamTypeOK
<1>3. HeardBehind' /\ NewsInOrder' /\ LaterBoardsAnnounced'
  BY <1>1, <1>2 DEF ProjectInv, HeardBehind, NewsInOrder, LaterBoardsAnnounced, Announces
<1>4. others' \in BOOLEAN
  BY DEF NewsPublished, NewsPumped, OtherSubscribes, OtherLeaves, TakeChild, BoardHasNews, ChildFails,
         ChildForwards, ProjectInv, StreamTypeOK
<1>5. newsOut' \in 0..Len(news) /\ pumpAt' \in {Off} \cup 0..newsOut' /\ received \in {Off} \cup 0..newsOut' /\ received <= pumpAt'
  <2>1. CASE NewsPublished
    BY <2>1, NewsCounted DEF NewsPublished
  <2>2. CASE NewsPumped
    BY <2>2, NewsCounted DEF NewsPumped
  <2>3. CASE OtherSubscribes
    BY <2>3, NewsCounted DEF OtherSubscribes, OpenedAt
  <2>4. CASE OtherLeaves
    BY <2>4, NewsCounted DEF OtherLeaves
  <2>5. CASE UNCHANGED <<newsOut, pumpAt>>
    BY <2>5 DEF ProjectInv, StreamTypeOK
  <2>6. \/ NewsPublished \/ NewsPumped \/ OtherSubscribes \/ OtherLeaves \/ UNCHANGED <<newsOut, pumpAt>>
    BY DEF TakeChild, BoardHasNews, ChildFails, ChildForwards
  <2> QED BY <2>1, <2>2, <2>3, <2>4, <2>5, <2>6
<1>6. others' \/ received # Off => pumpAt' # Off
  <2>1. CASE NewsPublished \/ TakeChild \/ \E b \in StreamBoard : BoardHasNews(b) \/ ChildFails(b) \/ ChildForwards(b)
    BY <2>1 DEF NewsPublished, TakeChild, BoardHasNews, ChildFails, ChildForwards, ProjectInv, StreamTypeOK
  <2>2. CASE NewsPumped
    BY <2>2, NewsCounted DEF NewsPumped
  <2>3. CASE OtherSubscribes
    BY <2>3, NewsCounted DEF OtherSubscribes, OpenedAt
  <2>4. CASE OtherLeaves
    BY <2>4 DEF OtherLeaves, ProjectInv, StreamTypeOK
  <2> QED BY <2>1, <2>2, <2>3, <2>4
<1>7. backlog' \in [StreamBoard -> 0..ChildNews] /\ merged' \in 0..MergeRoom
  <2>1. CASE UNCHANGED <<backlog, merged>>
    BY <2>1 DEF ProjectInv, StreamTypeOK
  <2>2. CASE TakeChild
    BY <2>2, ProjectStreamAssumption DEF TakeChild, boardVars, ProjectInv, StreamTypeOK
  <2>3. ASSUME NEW b \in StreamBoard, BoardHasNews(b) PROVE backlog' \in [StreamBoard -> 0..ChildNews] /\ merged' = merged
    BY <2>3, ProjectStreamAssumption DEF BoardHasNews, childVars, ProjectInv, StreamTypeOK
  <2>4. ASSUME NEW b \in StreamBoard, ChildForwards(b) PROVE backlog' \in [StreamBoard -> 0..ChildNews] /\ merged' \in 0..MergeRoom
    BY <2>4, ProjectStreamAssumption DEF ChildForwards, ProjectInv, StreamTypeOK
  <2>5. \/ UNCHANGED <<backlog, merged>> \/ TakeChild \/ \E b \in StreamBoard : BoardHasNews(b) \/ ChildForwards(b)
    BY DEF NewsPublished, NewsPumped, OtherSubscribes, OtherLeaves, ChildFails, boardVars, childVars
  <2> QED BY <2>1, <2>2, <2>3, <2>4, <2>5 DEF ProjectInv, StreamTypeOK
<1>8. StreamTypeOK'
  BY <1>1, <1>2, <1>4, <1>5, <1>6, <1>7 DEF ProjectInv, StreamTypeOK
<1> QED BY <1>3, <1>8 DEF ProjectInv

\* The boards are listed; those that are there get a child.
LEMMA ListKeepsProject == ASSUME ProjectInv, ListBoards PROVE ProjectInv'
<1>1. /\ merge = "asked" /\ merge' = "listed"
      /\ UNCHANGED <<boardIs, news, backlog, newsOut, pumpAt, others, merged, received, childrenOpen, heard, lapse>>
      /\ child' = [b \in StreamBoard |-> IF boardIs[b] = "there" THEN "held" ELSE "none"]
  BY DEF ListBoards, boardVars
<1>2. child' \in [StreamBoard -> {"none", "held", "on", "done"}]
  BY <1>1
<1>3. StreamTypeOK'
  BY <1>1, <1>2 DEF ProjectInv, StreamTypeOK
<1>4. HeardBehind' /\ NewsInOrder' /\ LaterBoardsAnnounced'
  BY <1>1 DEF ProjectInv, HeardBehind, NewsInOrder, LaterBoardsAnnounced
<1> QED BY <1>3, <1>4 DEF ProjectInv

\* The receiver starts where the channel is, whether or not it had to be opened.
LEMMA SubscribeKeepsProject ==
    ASSUME ProjectInv, SubscribeNews \/ SubscribeNewsFails
    PROVE  ProjectInv'
<1>1. /\ merge = "listed" /\ merge' = "on" /\ UNCHANGED <<boardIs, news, backlog, newsOut, others, merged, heard>>
      /\ child' = [b \in StreamBoard |-> IF child[b] = "held" THEN "on" ELSE child[b]]
      /\ childrenOpen' \in BOOLEAN /\ received = Off /\ heard = <<>>
  BY DEF SubscribeNews, SubscribeNewsFails, boardVars, ListensToChildren, ProjectInv, HeardBehind
<1>2. /\ child' \in [StreamBoard -> {"none", "held", "on", "done"}]
      /\ \A b \in StreamBoard : child'[b] = "none" => child[b] = "none"
  BY <1>1 DEF ProjectInv, StreamTypeOK
<1>3. LaterBoardsAnnounced'
  BY <1>1, <1>2 DEF ProjectInv, LaterBoardsAnnounced, Announces
<1>4. CASE SubscribeNews
  <2>1. /\ pumpAt' = IF pumpAt = Off THEN 0 ELSE pumpAt
        /\ received' = pumpAt' /\ lapse' = IF pumpAt = Off THEN {} ELSE 1..pumpAt
    BY <1>4 DEF SubscribeNews, OpenedAt
  <2>2. pumpAt' \in 0..newsOut /\ received' \in 0..newsOut /\ received' = pumpAt' /\ lapse' \subseteq 1..Len(news)
    BY <2>1, NewsCounted
  <2>3. pumpAt' # Off /\ received' # Off /\ \A i \in 1..received' : i \in lapse'
    BY <2>1, <2>2, NewsCounted
  <2>4. StreamTypeOK'
    BY <1>1, <1>2, <2>2, <2>3, NewsCounted DEF ProjectInv, StreamTypeOK
  <2>5. HeardBehind' /\ NewsInOrder'
    BY <1>1, <2>3 DEF ProjectInv, HeardBehind, NewsInOrder
  <2> QED BY <1>3, <2>4, <2>5 DEF ProjectInv
<1>5. CASE SubscribeNewsFails
  <2>1. UNCHANGED <<pumpAt, received, lapse>>
    BY <1>5 DEF SubscribeNewsFails
  <2>2. StreamTypeOK'
    BY <1>1, <1>2, <2>1 DEF ProjectInv, StreamTypeOK
  <2>3. HeardBehind' /\ NewsInOrder'
    BY <1>1, <2>1 DEF ProjectInv, HeardBehind, NewsInOrder
  <2> QED BY <1>3, <2>2, <2>3 DEF ProjectInv
<1> QED BY <1>4, <1>5

\* The receiver takes the next of the news, or skips those it lost.
LEMMA ReceiveKeepsProject == ASSUME ProjectInv, TakeNews \/ SkipNews PROVE ProjectInv'
<1>1. /\ merge = "on" /\ received # Off
      /\ UNCHANGED <<boardIs, news, backlog, newsOut, pumpAt, others, child, merged, merge, childrenOpen>>
  BY DEF TakeNews, SkipNews, boardVars, childVars
<1>2. received \in Nat /\ pumpAt \in Nat /\ heard \in Seq(Nat) /\ DOMAIN heard = 1..Len(heard) /\ Len(heard) \in Nat
  BY <1>1, NewsCounted DEF ProjectInv, HeardBehind
<1>3. /\ \A j, k \in DOMAIN heard : j < k => heard[j] < heard[k]
      /\ \A i \in 1..received : i \in lapse \/ \E k \in DOMAIN heard : heard[k] = i
      /\ \A k \in DOMAIN heard : heard[k] <= received
  BY <1>1 DEF ProjectInv, NewsInOrder, HeardBehind
<1>4. LaterBoardsAnnounced'
  BY <1>1 DEF ProjectInv, LaterBoardsAnnounced, Announces
<1>5. CASE TakeNews
  <2>1. received' = received + 1 /\ heard' = Append(heard, received + 1) /\ lapse' = lapse /\ received < pumpAt
    BY <1>2, <1>5 DEF TakeNews, Unread
  <2>2. PICK n \in Nat :
          /\ DOMAIN heard = 1..n /\ heard' \in Seq(Nat) /\ DOMAIN heard' = 1..(n + 1) /\ heard'[n + 1] = received + 1
          /\ \A k \in 1..n : heard'[k] = heard[k] /\ heard[k] \in Nat /\ heard[k] <= received
    <3>1. /\ heard' \in Seq(Nat) /\ DOMAIN heard' = 1..(Len(heard) + 1) /\ heard'[Len(heard) + 1] = received + 1
          /\ \A k \in 1..Len(heard) : heard'[k] = heard[k]
      BY <1>2, <2>1
    <3>2. \A k \in 1..Len(heard) : heard[k] \in Nat /\ heard[k] <= received
      BY <1>2, <1>3
    <3>3. Len(heard) \in Nat /\ DOMAIN heard = 1..Len(heard)
      BY <1>2
    <3> QED BY <3>1, <3>2, <3>3, Zenon
  <2>3. \A k \in DOMAIN heard' : heard'[k] \in Nat /\ heard'[k] <= received'
    BY <1>2, <2>1, <2>2
  <2>4. \A j, k \in DOMAIN heard' : j < k => heard'[j] < heard'[k]
    <3> SUFFICES ASSUME NEW j \in 1..(n + 1), NEW k \in 1..(n + 1), j < k PROVE heard'[j] < heard'[k]
      BY <2>2
    <3>1. j \in 1..n /\ heard'[j] = heard[j] /\ heard[j] \in Nat /\ heard[j] <= received
      <4>1. j \in 1..n
        OBVIOUS
      <4> QED BY <4>1, <2>2
    <3>2. CASE k = n + 1
      BY <1>2, <2>2, <3>1, <3>2
    <3>3. CASE k # n + 1
      <4>1. k \in 1..n
        BY <3>3
      <4>2. heard'[k] = heard[k] /\ j \in DOMAIN heard /\ k \in DOMAIN heard
        BY <2>2, <3>1, <4>1
      <4>3. heard[j] < heard[k]
        BY <1>3, <4>2
      <4> QED BY <3>1, <4>2, <4>3
    <3> QED BY <3>2, <3>3
  <2>5. \A i \in 1..received' : i \in lapse' \/ \E k \in DOMAIN heard' : heard'[k] = i
    <3> SUFFICES ASSUME NEW i \in 1..(received + 1), i \notin lapse PROVE \E k \in DOMAIN heard' : heard'[k] = i
      BY <2>1
    <3>1. CASE i = received + 1
      BY <2>2, <3>1
    <3>2. CASE i # received + 1
      <4>1. i \in 1..received
        BY <1>2, <3>2
      <4>2. PICK k \in DOMAIN heard : heard[k] = i
        BY <1>3, <4>1
      <4>3. k \in 1..n /\ k \in 1..(n + 1)
        BY <2>2, <4>2
      <4> QED BY <2>2, <4>2, <4>3
    <3> QED BY <3>1, <3>2
  <2>6. StreamTypeOK'
    <3>1. received' \in 0..newsOut /\ received' <= pumpAt /\ received' # Off
      BY <1>2, <2>1, NewsCounted
    <3> QED BY <1>1, <2>1, <3>1 DEF ProjectInv, StreamTypeOK
  <2>7. HeardBehind' /\ NewsInOrder'
    BY <1>1, <2>2, <2>3, <2>4, <2>5 DEF ProjectInv, HeardBehind, NewsInOrder
  <2> QED BY <1>4, <2>6, <2>7 DEF ProjectInv
<1>6. CASE SkipNews
  <2>1. /\ received' = pumpAt - NewsLag /\ heard' = heard /\ lapse' = lapse \cup ((received + 1)..(pumpAt - NewsLag))
        /\ pumpAt - received > NewsLag
    BY <1>6 DEF SkipNews, Unread, ResumesAt
  <2>2. received' \in Nat /\ received < received' /\ received' <= pumpAt
    BY <1>2, <2>1, NewsCounted
  <2>3. \A i \in 1..received' : i \in lapse' \/ \E k \in DOMAIN heard' : heard'[k] = i
    BY <1>2, <1>3, <2>1, <2>2, NewsCounted
  <2>4. \A k \in DOMAIN heard' : heard'[k] <= received'
    <3> SUFFICES ASSUME NEW k \in 1..Len(heard) PROVE heard[k] <= received'
      BY <1>2, <2>1
    <3>1. heard[k] \in Nat /\ heard[k] <= received
      BY <1>2, <1>3
    <3> QED BY <1>2, <2>2, <3>1
  <2>5. StreamTypeOK'
    <3>1. received' \in 0..newsOut /\ received' # Off
      BY <1>2, <2>2, NewsCounted
    <3>2. lapse' \subseteq 1..Len(news)
      <4>1. (received + 1)..(pumpAt - NewsLag) \subseteq 1..Len(news)
        BY <1>2, NewsCounted
      <4> QED BY <2>1, <4>1 DEF ProjectInv, StreamTypeOK
    <3> QED BY <1>1, <2>2, <3>1, <3>2 DEF ProjectInv, StreamTypeOK
  <2>6. HeardBehind' /\ NewsInOrder'
    BY <1>1, <1>3, <2>1, <2>3, <2>4 DEF ProjectInv, HeardBehind, NewsInOrder
  <2> QED BY <1>4, <2>5, <2>6 DEF ProjectInv
<1> QED BY <1>5, <1>6

\* A stream that ends hears nothing more.
LEMMA EndKeepsProject == ASSUME ProjectInv, ChildrenEnded \/ NewsCloses \/ StreamLeft PROVE ProjectInv'
<1>1. UNCHANGED <<boardIs, news, backlog, newsOut, others, heard>>
  BY DEF ChildrenEnded, NewsCloses, StreamLeft, boardVars
<1>2. merge' \in {"on", "ended", "left"} /\ (merge' = "on" => merge = "on")
  BY DEF ChildrenEnded, NewsCloses, StreamLeft, AfterChildren, AfterNews
<1>3. \/ received' = Off /\ pumpAt' = Released
      \/ received' = received /\ pumpAt' = pumpAt
  BY DEF ChildrenEnded, NewsCloses, StreamLeft
<1>4. merged' \in 0..MergeRoom /\ childrenOpen' \in BOOLEAN /\ lapse' \subseteq 1..Len(news)
  <2>1. /\ merged \in 0..MergeRoom /\ childrenOpen \in BOOLEAN /\ lapse \subseteq 1..Len(news)
        /\ 0 \in 0..MergeRoom /\ {i \in 1..Len(news) : i > received} \subseteq 1..Len(news)
    BY ProjectStreamAssumption DEF ProjectInv, StreamTypeOK
  <2>2. /\ merged' = merged \/ merged' = 0
        /\ childrenOpen' = childrenOpen \/ childrenOpen' = FALSE
        /\ lapse' = lapse \/ lapse' = lapse \cup {i \in 1..Len(news) : i > received}
    BY DEF ChildrenEnded, NewsCloses, StreamLeft, childVars
  <2>3. lapse' \subseteq 1..Len(news)
    BY <2>1, <2>2
  <2> QED BY <2>1, <2>2, <2>3
<1>5. /\ child' \in [StreamBoard -> {"none", "held", "on", "done"}]
      /\ \A b \in StreamBoard : child'[b] = "none" <=> child[b] = "none"
  BY DEF ChildrenEnded, NewsCloses, StreamLeft, childVars, ProjectInv, StreamTypeOK
<1>6. /\ pumpAt' \in {Off} \cup 0..newsOut /\ received' \in {Off} \cup 0..newsOut /\ received' <= pumpAt'
      /\ others \/ received' # Off => pumpAt' # Off
  BY <1>3, NewsCounted DEF Released, ProjectInv, StreamTypeOK
<1>7. StreamTypeOK'
  BY <1>1, <1>2, <1>4, <1>5, <1>6 DEF ProjectInv, StreamTypeOK
<1>8. lapse \subseteq lapse'
  BY DEF ChildrenEnded, NewsCloses, StreamLeft
<1>9. HeardBehind' /\ NewsInOrder'
  BY <1>1, <1>2, <1>3, <1>8 DEF ProjectInv, HeardBehind, NewsInOrder
<1>10. LaterBoardsAnnounced'
  BY <1>1, <1>2, <1>5 DEF ProjectInv, LaterBoardsAnnounced, Announces
<1> QED BY <1>7, <1>9, <1>10 DEF ProjectInv

\* Whatever is announced was heard, lapsed, or is still to be received.
LEMMA AnnouncedOrOnItsWay == ProjectInv => NoBoardUnheardOf
<1> SUFFICES ASSUME ProjectInv, merge = "on", received # Off,
                    NEW b \in StreamBoard, boardIs[b] = "there", b \notin ChildBoards
             PROVE  \/ HeardOf(b)
                    \/ \E i \in DOMAIN news : Announces(i, b) /\ (i \in lapse \/ i > received)
  BY DEF NoBoardUnheardOf
<1>1. child[b] = "none"
  BY DEF ChildBoards
<1>2. PICK i \in DOMAIN news : Announces(i, b)
  BY <1>1 DEF ProjectInv, LaterBoardsAnnounced
<1>3. i \in Nat /\ i >= 1 /\ received \in Int
  BY NewsCounted
<1>4. CASE i <= received /\ i \notin lapse
  <2>1. i \in 1..received
    BY <1>3, <1>4
  <2>2. PICK k \in DOMAIN heard : heard[k] = i
    BY <1>4, <2>1 DEF ProjectInv, NewsInOrder
  <2> QED BY <1>2, <2>2 DEF HeardOf, Announces
<1>5. CASE i \in lapse \/ i > received
  BY <1>2, <1>5
<1> QED BY <1>3, <1>4, <1>5

\* Every task of the stream keeps the invariant.
LEMMA ProjectInvariant == StreamSpec => []ProjectInv
<1>1. StreamInit => ProjectInv
  BY ProjectStarts
<1>2. ProjectInv /\ [StreamNext]_streamVars => ProjectInv'
  <2> SUFFICES ASSUME ProjectInv, [StreamNext]_streamVars PROVE ProjectInv'
    OBVIOUS
  <2>1. CASE UNCHANGED streamVars
    BY <2>1 DEF streamVars, ProjectInv, StreamTypeOK, HeardBehind, NewsInOrder, LaterBoardsAnnounced, Announces
  <2>2. CASE \E b \in StreamBoard : BoardCreated(b) \/ BoardDeleted(b)
    BY <2>2, BoardsComeAndGo
  <2>3. CASE \/ NewsPublished \/ NewsPumped \/ OtherSubscribes \/ OtherLeaves \/ TakeChild
             \/ \E b \in StreamBoard : BoardHasNews(b) \/ ChildFails(b) \/ ChildForwards(b)
    BY <2>3, OthersMoveOn
  <2>4. CASE ListBoards
    BY <2>4, ListKeepsProject
  <2>5. CASE SubscribeNews \/ SubscribeNewsFails
    BY <2>5, SubscribeKeepsProject
  <2>6. CASE TakeNews \/ SkipNews
    BY <2>6, ReceiveKeepsProject
  <2>7. CASE ChildrenEnded \/ NewsCloses \/ StreamLeft
    BY <2>7, EndKeepsProject
  <2> QED BY <2>1, <2>2, <2>3, <2>4, <2>5, <2>6, <2>7 DEF StreamNext
<1> QED BY <1>1, <1>2, PTL DEF StreamSpec

\* subscribe_project, in every behaviour: a board has a child stream, was announced to the
\* client, or its announcement is lost or still to be received; the announcements
\* arrive in their order, and none is missing but those the stream never got.
THEOREM ProjectFollowed == StreamSpec => []ProjectIsFollowed
<1>1. ProjectInv => ProjectIsFollowed
  BY AnnouncedOrOnItsWay DEF ProjectInv, ProjectIsFollowed
<1> QED BY <1>1, ProjectInvariant, PTL

-----------------------------------------------------------------------------
(***************************************************************************)
(* AggregateStream: the merge of the sources of an aggregated board.       *)
(***************************************************************************)
\* Every set of natural numbers that is not empty has a least element (what MIN gives).
LEMMA LeastNatural == ASSUME NEW T, T \subseteq Nat, T # {} PROVE \E x \in T : \A y \in T : x <= y
<1>1. PICK x \in T : \A y \in T : ~ (<<y, x>> \in OpToRel(<, Nat))
  BY NatLessThanWellFounded, WFMin, Zenon
<1>2. ASSUME NEW y \in T PROVE x <= y
  <2>1. x \in Nat /\ y \in Nat
    OBVIOUS
  <2>2. ~(y < x)
    BY <1>1, <2>1 DEF OpToRel
  <2> QED BY <2>1, <2>2
<1> QED BY <1>2


\* The least message of a backlog, and the first after the last one broadcast.
LEMMA LeastIsLeast ==
  ASSUME NEW T, T \subseteq Nat, T # {} PROVE Min(T) \in T /\ \A y \in T : Min(T) <= y
BY LeastNatural DEF Min

\* The messages, and how far each pump and each receiver of them is.
AggShapes ==
    /\ aggFeed \in Seq(Source)
    /\ pumped \in [Source -> Nat] /\ aggCursor \in [Source -> Nat] /\ joined \in [Source -> Nat]
    /\ forwarder \in [Source -> {"none", "held", "on", "ended"}]
    /\ client \in {"on", "gone"}
    /\ aggTracker \in [phase : {"live"}, ring : Seq(Nat), last : Nat]
    /\ queue \in Seq(Nat) /\ consumed \in Seq(Nat) /\ emitted \in Seq(Nat)
    /\ \A src \in Source : pumped[src] <= Len(aggFeed) /\ aggCursor[src] <= pumped[src]
    /\ \A k \in DOMAIN queue : queue[k] \in DOMAIN aggFeed
    /\ \A k \in DOMAIN consumed : consumed[k] \in DOMAIN aggFeed

\* A message that went through the queue was taken by the receiver of its source, which
\* was subscribed.
ThroughItsForwarder(i) ==
    i <= aggCursor[aggFeed[i]] /\ forwarder[aggFeed[i]] \in {"on", "ended"}

SameSource(i, j) == aggFeed[i] = aggFeed[j]

\* The merge keeps the order of each source.
SourcesInOrder ==
    /\ \A k \in DOMAIN queue : ThroughItsForwarder(queue[k])
    /\ \A k \in DOMAIN consumed : ThroughItsForwarder(consumed[k])
    /\ \A j, k \in DOMAIN queue : j < k /\ SameSource(queue[j], queue[k]) => queue[j] < queue[k]
    /\ \A j, k \in DOMAIN consumed : j < k /\ SameSource(consumed[j], consumed[k]) => consumed[j] < consumed[k]
    /\ \A j \in DOMAIN consumed, k \in DOMAIN queue : SameSource(consumed[j], queue[k]) => consumed[j] < queue[k]

\* What the tracker remembers was sent.
TrackerSent ==
    /\ aggTracker.last = 0 \/ (Sent(aggTracker.last) /\ Took(aggTracker.last))
    /\ \A k \in DOMAIN aggTracker.ring : Sent(aggTracker.ring[k])

AggInv == AggShapes /\ SourcesInOrder /\ TrackerSent /\ SourcesWithoutGaps /\ LostOnlyIfOvertaken

\* What the queue holds or held are messages that their forwarders sent.
LEMMA ThroughTheQueue ==
  ASSUME AggInv
  PROVE  /\ \A k \in DOMAIN queue : queue[k] \in DOMAIN aggFeed /\ ThroughItsForwarder(queue[k])
         /\ \A k \in DOMAIN consumed : consumed[k] \in DOMAIN aggFeed /\ ThroughItsForwarder(consumed[k])
BY DEF AggInv, AggShapes, SourcesInOrder

\* Messages are numbered from 1, and are of a source.
LEMMA FeedNumbers ==
  ASSUME AggInv
  PROVE  /\ Len(aggFeed) \in Nat /\ DOMAIN aggFeed = 1..Len(aggFeed)
         /\ \A i \in DOMAIN aggFeed : i \in Nat /\ i > 0 /\ aggFeed[i] \in Source
<1>1. aggFeed \in Seq(Source)
  BY DEF AggInv, AggShapes
<1> QED BY <1>1

\* Nothing is published, and nobody subscribed.
LEMMA InitAggInv == AggInit => AggInv
<1> SUFFICES ASSUME AggInit PROVE AggInv
  OBVIOUS
<1>1. aggTracker = [phase |-> "live", ring |-> <<>>, last |-> 0]
  BY DEF AggInit, CutoverToLive, NewTracker
<1>2. AggShapes
  <2>1. /\ aggFeed = <<>> /\ queue = <<>> /\ consumed = <<>> /\ emitted = <<>> /\ client = "on"
        /\ aggFeed \in Seq(Source) /\ queue \in Seq(Nat) /\ consumed \in Seq(Nat) /\ emitted \in Seq(Nat)
    BY DEF AggInit
  <2>2. /\ pumped \in [Source -> Nat] /\ aggCursor \in [Source -> Nat] /\ joined \in [Source -> Nat]
        /\ forwarder \in [Source -> {"none", "held", "on", "ended"}]
        /\ \A src \in Source : pumped[src] = 0 /\ aggCursor[src] = 0
    BY DEF AggInit
  <2>3. aggTracker \in [phase : {"live"}, ring : Seq(Nat), last : Nat]
    BY <1>1
  <2>4. \A src \in Source : pumped[src] <= Len(aggFeed) /\ aggCursor[src] <= pumped[src]
    BY <2>1, <2>2
  <2> QED BY <2>1, <2>2, <2>3, <2>4 DEF AggShapes
<1>3. SourcesInOrder /\ TrackerSent /\ SourcesWithoutGaps /\ LostOnlyIfOvertaken
  BY <1>1 DEF AggInit, SourcesInOrder, TrackerSent, SourcesWithoutGaps, LostOnlyIfOvertaken
<1> QED BY <1>2, <1>3 DEF AggInv

\* A message is published behind all others.
LEMMA PublishKeeps == ASSUME AggInv, NEW src \in Source, PublishTo(src) PROVE AggInv'
<1> USE DEF AggInv
<1>1. /\ aggFeed \in Seq(Source) /\ aggFeed' = Append(aggFeed, src)
      /\ UNCHANGED <<pumped, forwarder, aggCursor, queue, client, aggTracker, joined, consumed, emitted>>
  BY DEF PublishTo, AggShapes
<1>2. /\ aggFeed' \in Seq(Source) /\ Len(aggFeed') = Len(aggFeed) + 1 /\ Len(aggFeed) \in Nat
      /\ DOMAIN aggFeed' = 1..(Len(aggFeed) + 1) /\ DOMAIN aggFeed = 1..Len(aggFeed)
      /\ \A i \in DOMAIN aggFeed : aggFeed'[i] = aggFeed[i]
      /\ aggFeed'[Len(aggFeed) + 1] = src
  BY <1>1
<1>3. /\ \A k \in DOMAIN queue : queue[k] \in DOMAIN aggFeed /\ aggFeed'[queue[k]] = aggFeed[queue[k]]
      /\ \A k \in DOMAIN consumed : consumed[k] \in DOMAIN aggFeed /\ aggFeed'[consumed[k]] = aggFeed[consumed[k]]
  BY <1>2 DEF AggShapes
<1>4. AggShapes'
  <2>1. \A s \in Source : pumped[s] <= Len(aggFeed')
    BY <1>2 DEF AggShapes
  <2>2. DOMAIN aggFeed \subseteq DOMAIN aggFeed'
    BY <1>2
  <2> QED BY <1>1, <1>2, <1>3, <2>1, <2>2 DEF AggShapes
<1>5. SourcesInOrder'
  BY <1>1, <1>3 DEF SourcesInOrder, ThroughItsForwarder, SameSource
<1>6. TrackerSent'
  BY <1>1 DEF TrackerSent, Sent, Took
<1>7. SourcesWithoutGaps'
  <2> SUFFICES ASSUME client = "on", NEW i \in DOMAIN aggFeed', joined[aggFeed'[i]] < i, i <= aggCursor[aggFeed'[i]]
               PROVE  Took(i) \/ \E k \in DOMAIN queue : queue[k] = i
    BY <1>1 DEF SourcesWithoutGaps, Took
  <2>1. i \in DOMAIN aggFeed
    <3>1. aggFeed'[i] \in Source
      BY <1>2
    <3>2. aggCursor[aggFeed'[i]] <= Len(aggFeed) /\ aggCursor[aggFeed'[i]] \in Nat
      BY <1>2, <3>1, SMTT(40) DEF AggShapes
    <3> QED BY <1>2, <3>2
  <2> QED BY <1>2, <2>1 DEF SourcesWithoutGaps
<1>8. LostOnlyIfOvertaken'
  <2> SUFFICES ASSUME NEW k \in DOMAIN consumed, ~Sent(consumed[k])
               PROVE  \E m \in 1..(k-1) : consumed[m] > consumed[k] /\ aggFeed'[consumed[m]] # aggFeed'[consumed[k]]
    BY <1>1 DEF LostOnlyIfOvertaken, Sent
  <2>1. PICK m \in 1..(k-1) : consumed[m] > consumed[k] /\ aggFeed[consumed[m]] # aggFeed[consumed[k]]
    BY DEF LostOnlyIfOvertaken
  <2>2. m \in DOMAIN consumed
    BY DEF AggShapes
  <2> QED BY <1>3, <2>1, <2>2
<1> QED BY <1>4, <1>5, <1>6, <1>7, <1>8

\* A pump broadcasts the next message of its source.
LEMMA PumpKeeps == ASSUME AggInv, NEW src \in Source, PumpSource(src) PROVE AggInv'
<1> USE DEF AggInv
<1>1. PICK T : T = {i \in Of(src) : i > pumped[src]}
  OBVIOUS
<1>2. T # {} /\ T \subseteq Nat /\ \A i \in T : i \in DOMAIN aggFeed /\ i > pumped[src]
  BY <1>1, SMTT(60) DEF PumpSource, Of, AggShapes
<1>3. PICK n : n = Min(T)
  OBVIOUS
<1>4. n \in T
  BY <1>2, <1>3, LeastIsLeast
<1>5. /\ pumped' = [pumped EXCEPT ![src] = n]
      /\ UNCHANGED <<aggFeed, forwarder, aggCursor, queue, client, aggTracker, joined, consumed, emitted>>
  BY <1>1, <1>3 DEF PumpSource
<1>6. n \in Nat /\ n <= Len(aggFeed) /\ pumped[src] <= n /\ pumped[src] \in Nat
  <2>1. n \in DOMAIN aggFeed /\ n > pumped[src] /\ pumped[src] \in Nat /\ n \in Nat
    BY <1>2, <1>4 DEF AggShapes
  <2>2. DOMAIN aggFeed = 1..Len(aggFeed) /\ Len(aggFeed) \in Nat
    BY DEF AggShapes
  <2> QED BY <2>1, <2>2
<1>7. AggShapes'
  <2>1. \A s \in Source : pumped'[s] \in Nat /\ pumped'[s] <= Len(aggFeed) /\ aggCursor[s] <= pumped'[s]
    BY <1>5, <1>6 DEF AggShapes
  <2> QED BY <1>5, <1>6, <2>1 DEF AggShapes
<1>8. SourcesInOrder' /\ TrackerSent' /\ SourcesWithoutGaps' /\ LostOnlyIfOvertaken'
  BY <1>5 DEF SourcesInOrder, ThroughItsForwarder, SameSource, TrackerSent, Sent, Took, SourcesWithoutGaps, LostOnlyIfOvertaken
<1> QED BY <1>7, <1>8

\* A source is subscribed: nothing of it went through the queue.
LEMMA SubscribeKeeps == ASSUME AggInv, NEW src \in Source, SubscribeSource(src) PROVE AggInv'
<1> USE DEF AggInv
<1>1. /\ forwarder[src] = "none" /\ forwarder' = [forwarder EXCEPT ![src] = "held"]
      /\ aggCursor' = [aggCursor EXCEPT ![src] = pumped[src]]
      /\ joined' = [joined EXCEPT ![src] = pumped[src]]
      /\ UNCHANGED <<aggFeed, pumped, queue, client, aggTracker, consumed, emitted>>
  BY DEF SubscribeSource
<1>2. AggShapes'
  BY <1>1 DEF AggShapes
<1>3. SourcesInOrder'
  <2>1. ASSUME NEW i \in DOMAIN aggFeed, ThroughItsForwarder(i) PROVE ThroughItsForwarder(i)'
    BY <1>1, <2>1, SMTT(60) DEF ThroughItsForwarder, AggShapes
  <2>2. \A k \in DOMAIN queue : ThroughItsForwarder(queue[k])'
    BY <1>1, <2>1, ThroughTheQueue
  <2>3. \A k \in DOMAIN consumed : ThroughItsForwarder(consumed[k])'
    BY <1>1, <2>1, ThroughTheQueue
  <2> QED BY <1>1, <2>2, <2>3 DEF SourcesInOrder, SameSource, ThroughItsForwarder
<1>4. TrackerSent' /\ LostOnlyIfOvertaken'
  BY <1>1 DEF TrackerSent, Sent, Took, LostOnlyIfOvertaken
<1>5. SourcesWithoutGaps'
  <2> SUFFICES ASSUME client = "on", NEW i \in DOMAIN aggFeed, joined'[aggFeed[i]] < i, i <= aggCursor'[aggFeed[i]]
               PROVE  Took(i) \/ \E k \in DOMAIN queue : queue[k] = i
    BY <1>1 DEF SourcesWithoutGaps, Took
  <2>1. aggFeed[i] \in Source /\ i \in Nat
    BY FeedNumbers
  <2>2. aggFeed[i] # src
    <3>1. ASSUME aggFeed[i] = src PROVE pumped[src] < i /\ i <= pumped[src] /\ pumped[src] \in Nat
      BY <1>1, <3>1 DEF AggShapes
    <3> QED BY <2>1, <3>1
  <2> QED BY <1>1, <2>1, <2>2 DEF SourcesWithoutGaps, AggShapes
<1> QED BY <1>2, <1>3, <1>4, <1>5

\* The forwarders start, one of them ends, or the client leaves.
LEMMA ForwardersKeep ==
  ASSUME AggInv, UNCHANGED <<aggFeed, pumped, aggCursor, aggTracker, joined, consumed, emitted>>,
         forwarder' \in [Source -> {"none", "held", "on", "ended"}],
         \A src \in Source : forwarder[src] \in {"on", "ended"} => forwarder'[src] \in {"on", "ended"},
         \/ queue' = queue /\ client' = client
         \/ queue' = <<>> /\ client' = "gone"
  PROVE  AggInv'
<1> USE DEF AggInv
<1>1. AggShapes'
  <2>1. queue' \in Seq(Nat) /\ client' \in {"on", "gone"} /\ \A k \in DOMAIN queue' : queue'[k] \in DOMAIN aggFeed
    <3>1. <<>> \in Seq(Nat) /\ DOMAIN <<>> = {}
      OBVIOUS
    <3>2. queue \in Seq(Nat) /\ client \in {"on", "gone"} /\ \A k \in DOMAIN queue : queue[k] \in DOMAIN aggFeed
      BY DEF AggShapes
    <3>3. CASE queue' = queue /\ client' = client
      BY <3>2, <3>3, Zenon
    <3>4. CASE queue' = <<>> /\ client' = "gone"
      BY <3>1, <3>4, Zenon
    <3> QED BY <3>3, <3>4
  <2> QED BY <2>1, Zenon DEF AggShapes
<1>2. \A i \in DOMAIN aggFeed : ThroughItsForwarder(i) => ThroughItsForwarder(i)'
  BY FeedNumbers DEF ThroughItsForwarder
<1>3. /\ \A k \in DOMAIN queue' : ThroughItsForwarder(queue[k])'
      /\ \A k \in DOMAIN consumed' : ThroughItsForwarder(consumed[k])'
  <2>1. CASE queue' = queue
    BY <1>2, <2>1, ThroughTheQueue
  <2>2. CASE queue' = <<>>
    <3>1. DOMAIN <<>> = {}
      OBVIOUS
    <3>2. \A k \in DOMAIN queue' : ThroughItsForwarder(queue[k])'
      BY <2>2, <3>1, Zenon
    <3>3. \A k \in DOMAIN consumed' : ThroughItsForwarder(consumed[k])'
      BY <1>2, ThroughTheQueue
    <3> QED BY <3>2, <3>3
  <2> QED BY <2>1, <2>2
<1>4. SourcesInOrder'
  <2>1. \A j, k \in DOMAIN consumed : j < k /\ SameSource(consumed[j], consumed[k]) => consumed[j] < consumed[k]
    BY DEF SourcesInOrder
  <2>2. CASE queue' = queue
    BY <1>3, <2>1, <2>2 DEF SourcesInOrder, SameSource, ThroughItsForwarder
  <2>3. CASE queue' = <<>>
    BY <1>3, <2>1, <2>3 DEF SourcesInOrder, SameSource, ThroughItsForwarder
  <2> QED BY <2>2, <2>3
<1>5. TrackerSent' /\ LostOnlyIfOvertaken'
  BY DEF TrackerSent, Sent, Took, LostOnlyIfOvertaken
<1>6. SourcesWithoutGaps'
  BY DEF SourcesWithoutGaps, Took
<1> QED BY <1>1, <1>4, <1>5, <1>6

\* What a stream does with the number at the head of its queue.
LEMMA LiveObserved ==
  ASSUME NEW t \in [phase : {"live"}, ring : Seq(Nat), last : Nat], NEW i \in Nat
  PROVE  LET seen == ObserveLive(t, i, i)
         IN  /\ ~seen.emit => seen.tracker = t /\ (i <= t.last \/ Seen(t, i))
             /\ seen.emit => /\ seen.tracker \in [phase : {"live"}, ring : Seq(Nat), last : Nat]
                             /\ seen.tracker.last = i
                             /\ \A k \in DOMAIN seen.tracker.ring :
                                   \/ seen.tracker.ring[k] = i
                                   \/ \E j \in DOMAIN t.ring : t.ring[j] = seen.tracker.ring[k]
<1>1. CASE i <= t.last \/ Seen(t, i)
  BY <1>1 DEF ObserveLive, Skip
<1>2. CASE ~(i <= t.last \/ Seen(t, i))
  <2>1. PICK ring : ring = IF Len(t.ring) >= SeenCapacity THEN Append(Tail(t.ring), i) ELSE Append(t.ring, i)
    OBVIOUS
  <2>2. ring \in Seq(Nat) /\ \A k \in DOMAIN ring : ring[k] = i \/ \E j \in DOMAIN t.ring : t.ring[j] = ring[k]
    <3>1. t.ring \in Seq(Nat) /\ Len(t.ring) \in Nat
      OBVIOUS
    <3>2. CASE Len(t.ring) >= SeenCapacity
      <4>1. Len(t.ring) > 0 /\ ring = Append(Tail(t.ring), i)
        BY <2>1, <3>1, <3>2, SeenCapacityAssumption
      <4>2. PICK rest : rest = Tail(t.ring)
        OBVIOUS
      <4>3. rest \in Seq(Nat) /\ \A k \in DOMAIN rest : rest[k] = t.ring[k + 1] /\ k + 1 \in DOMAIN t.ring
        BY <3>1, <4>1, <4>2
      <4>4. ring = Append(rest, i)
        BY <4>1, <4>2
      <4> HIDE <4>1, <4>2
      <4> QED BY <4>3, <4>4
    <3>3. CASE ~(Len(t.ring) >= SeenCapacity)
      BY <2>1, <3>1, <3>3
    <3> QED BY <3>2, <3>3
  <2>3. PICK u : u = Remember(t, i)
    OBVIOUS
  <2>4. u = [phase |-> "live", ring |-> ring, last |-> t.last]
    BY <2>1, <2>3 DEF Remember
  <2>5. ObserveLive(t, i, i) = [tracker |-> [u EXCEPT !.last = i], emit |-> TRUE]
    BY <1>2, <2>3 DEF ObserveLive, Emit
  <2>6. [u EXCEPT !.last = i] = [phase |-> "live", ring |-> ring, last |-> i]
    BY <2>4
  <2> QED BY <2>2, <2>5, <2>6, SMTT(60)
<1> QED BY <1>1, <1>2

\* What the end of a sequence changes.
LEMMA AppendedNumbers ==
  ASSUME NEW s \in Seq(Nat), NEW i \in Nat, NEW t, t = Append(s, i)
  PROVE  /\ t \in Seq(Nat) /\ Len(s) \in Nat /\ Len(t) = Len(s) + 1
         /\ DOMAIN s = 1..Len(s) /\ DOMAIN t = 1..(Len(s) + 1)
         /\ t[Len(s) + 1] = i /\ \A k \in DOMAIN s : t[k] = s[k]
OBVIOUS

\* A receiver goes on to a later message of its channel.
LEMMA TakenNext ==
  ASSUME AggInv, NEW src \in Source, NEW m \in Nat, aggCursor[src] < m, m <= pumped[src],
         aggCursor' = [aggCursor EXCEPT ![src] = m]
  PROVE  /\ \A s \in Source : aggCursor[s] \in Nat /\ aggCursor'[s] \in Nat /\ aggCursor[s] <= aggCursor'[s]
                               /\ aggCursor'[s] <= pumped[s]
         /\ aggCursor' \in [Source -> Nat] /\ aggCursor'[src] = m
         /\ \A s \in Source : s # src => aggCursor'[s] = aggCursor[s]
<1>1. aggCursor \in [Source -> Nat] /\ \A s \in Source : aggCursor[s] <= pumped[s]
  BY DEF AggInv, AggShapes
<1>2. aggCursor' \in [Source -> Nat] /\ aggCursor'[src] = m /\ \A s \in Source : s # src => aggCursor'[s] = aggCursor[s]
  BY <1>1
<1>3. ASSUME NEW s \in Source
      PROVE  aggCursor[s] \in Nat /\ aggCursor[s] <= aggCursor'[s] /\ aggCursor'[s] <= pumped[s]
  BY <1>1, <1>2
<1> QED BY <1>2, <1>3

\* A forwarder takes the next message of its source, and nobody is there to get it.
LEMMA ForwardEnds ==
  ASSUME AggInv, NEW src \in Source, NEW m \in Backlog(src), client = "gone",
         aggCursor' = [aggCursor EXCEPT ![src] = m], forwarder' = [forwarder EXCEPT ![src] = "ended"],
         UNCHANGED <<aggFeed, pumped, queue, client, aggTracker, joined, consumed, emitted>>
  PROVE  AggInv'
<1>1. m \in DOMAIN aggFeed /\ aggFeed[m] = src /\ aggCursor[src] < m /\ m <= pumped[src] /\ m \in Nat
  BY FeedNumbers DEF Backlog, Of
<1>2. /\ \A s \in Source : aggCursor[s] \in Nat /\ aggCursor'[s] \in Nat /\ aggCursor[s] <= aggCursor'[s]
                           /\ aggCursor'[s] <= pumped[s]
      /\ aggCursor' \in [Source -> Nat]
  BY <1>1, TakenNext
<1>3. AggShapes'
  BY <1>2 DEF AggInv, AggShapes
<1>4. \A i \in DOMAIN aggFeed : ThroughItsForwarder(i) => ThroughItsForwarder(i)'
  <2> SUFFICES ASSUME NEW i \in DOMAIN aggFeed, ThroughItsForwarder(i)
               PROVE  i <= aggCursor'[aggFeed[i]] /\ forwarder'[aggFeed[i]] \in {"on", "ended"}
    BY DEF ThroughItsForwarder
  <2>1. aggFeed[i] \in Source /\ i \in Nat
    BY FeedNumbers
  <2> QED BY <1>2, <2>1 DEF ThroughItsForwarder, AggInv, AggShapes
<1>5. /\ \A k \in DOMAIN queue' : ThroughItsForwarder(queue[k])'
      /\ \A k \in DOMAIN consumed' : ThroughItsForwarder(consumed[k])'
  BY <1>4, ThroughTheQueue
<1>6. SourcesInOrder'
  BY <1>5 DEF AggInv, SourcesInOrder, SameSource
<1>7. TrackerSent' /\ LostOnlyIfOvertaken' /\ SourcesWithoutGaps'
  BY DEF AggInv, TrackerSent, Sent, Took, LostOnlyIfOvertaken, SourcesWithoutGaps
<1> QED BY <1>3, <1>6, <1>7 DEF AggInv

\* A forwarder puts the next message of its source at the end of the queue.
LEMMA ForwardSends ==
  ASSUME AggInv, NEW src \in Source, NEW m \in Backlog(src), \A i \in Backlog(src) : m <= i, forwarder[src] = "on",
         aggCursor' = [aggCursor EXCEPT ![src] = m], queue' = Append(queue, m),
         UNCHANGED <<aggFeed, pumped, forwarder, client, aggTracker, joined, consumed, emitted>>
  PROVE  AggInv'
<1>1. m \in DOMAIN aggFeed /\ aggFeed[m] = src /\ aggCursor[src] < m /\ m <= pumped[src] /\ m \in Nat
  BY FeedNumbers DEF Backlog, Of
<1>2. /\ \A s \in Source : aggCursor[s] \in Nat /\ aggCursor'[s] \in Nat /\ aggCursor[s] <= aggCursor'[s]
                           /\ aggCursor'[s] <= pumped[s]
      /\ aggCursor' \in [Source -> Nat] /\ aggCursor'[src] = m
      /\ \A s \in Source : s # src => aggCursor'[s] = aggCursor[s]
  BY <1>1, TakenNext
<1>3. queue \in Seq(Nat)
  BY DEF AggInv, AggShapes
<1>4. /\ queue' \in Seq(Nat) /\ Len(queue) \in Nat /\ Len(queue') = Len(queue) + 1
      /\ DOMAIN queue = 1..Len(queue) /\ DOMAIN queue' = 1..(Len(queue) + 1)
      /\ queue'[Len(queue) + 1] = m /\ \A k \in DOMAIN queue : queue'[k] = queue[k]
  BY <1>1, <1>3, AppendedNumbers
<1>5. AggShapes'
  <2>1. \A k \in DOMAIN queue' : queue'[k] \in DOMAIN aggFeed
    BY <1>1, <1>4, ThroughTheQueue
  <2> QED BY <1>2, <1>4, <2>1 DEF AggInv, AggShapes
<1>6. \A i \in DOMAIN aggFeed : ThroughItsForwarder(i) => ThroughItsForwarder(i)'
  <2> SUFFICES ASSUME NEW i \in DOMAIN aggFeed, ThroughItsForwarder(i)
               PROVE  i <= aggCursor'[aggFeed[i]] /\ forwarder'[aggFeed[i]] \in {"on", "ended"}
    BY DEF ThroughItsForwarder
  <2>1. aggFeed[i] \in Source /\ i \in Nat
    BY FeedNumbers
  <2> QED BY <1>2, <2>1 DEF ThroughItsForwarder
<1>7. ThroughItsForwarder(m)'
  BY <1>1, <1>2 DEF ThroughItsForwarder
<1>8. \A i \in DOMAIN aggFeed : ThroughItsForwarder(i) /\ SameSource(i, m) => i < m
  <2> SUFFICES ASSUME NEW i \in DOMAIN aggFeed, i <= aggCursor[aggFeed[i]], aggFeed[i] = src PROVE i < m
    BY <1>1 DEF ThroughItsForwarder, SameSource
  <2> QED BY <1>1, <1>2, FeedNumbers
<1>9. SourcesInOrder'
  <2>1. \A k \in DOMAIN queue' : ThroughItsForwarder(queue[k])'
    <3> SUFFICES ASSUME NEW k \in DOMAIN queue' PROVE ThroughItsForwarder(queue[k])'
      OBVIOUS
    <3>1. PICK i : i = queue'[k]
      OBVIOUS
    <3>2. i = m \/ (i \in DOMAIN aggFeed /\ ThroughItsForwarder(i))
      <4>1. CASE k \in DOMAIN queue
        BY <1>4, <3>1, <4>1, ThroughTheQueue
      <4>2. CASE k = Len(queue) + 1
        BY <1>4, <3>1, <4>2
      <4> QED BY <1>4, <4>1, <4>2
    <3>3. ThroughItsForwarder(i)'
      BY <1>6, <1>7, <3>2
    <3> QED BY <3>1, <3>3 DEF ThroughItsForwarder
  <2>2. \A k \in DOMAIN consumed' : ThroughItsForwarder(consumed[k])'
    <3> SUFFICES ASSUME NEW k \in DOMAIN consumed PROVE ThroughItsForwarder(consumed[k])'
      OBVIOUS
    <3>1. PICK i : i = consumed[k]
      OBVIOUS
    <3>2. ThroughItsForwarder(i)'
      BY <1>6, <3>1, ThroughTheQueue
    <3> QED BY <3>1, <3>2 DEF ThroughItsForwarder
  <2>3. \A j, k \in DOMAIN queue' : j < k /\ aggFeed[queue'[j]] = aggFeed[queue'[k]] => queue'[j] < queue'[k]
    <3> SUFFICES ASSUME NEW j \in DOMAIN queue', NEW k \in DOMAIN queue', j < k, aggFeed[queue'[j]] = aggFeed[queue'[k]]
                 PROVE  queue'[j] < queue'[k]
      OBVIOUS
    <3>1. j \in DOMAIN queue
      BY <1>4
    <3>2. CASE k \in DOMAIN queue
      BY <1>4, <3>1, <3>2 DEF AggInv, SourcesInOrder, SameSource
    <3>3. CASE k = Len(queue) + 1
      BY <1>4, <1>8, <3>1, <3>3, ThroughTheQueue DEF SameSource
    <3> QED BY <1>4, <3>2, <3>3
  <2>4. \A j \in DOMAIN consumed, k \in DOMAIN queue' :
            aggFeed[consumed[j]] = aggFeed[queue'[k]] => consumed[j] < queue'[k]
    <3> SUFFICES ASSUME NEW j \in DOMAIN consumed, NEW k \in DOMAIN queue', aggFeed[consumed[j]] = aggFeed[queue'[k]]
                 PROVE  consumed[j] < queue'[k]
      OBVIOUS
    <3>1. CASE k \in DOMAIN queue
      BY <1>4, <3>1 DEF AggInv, SourcesInOrder, SameSource
    <3>2. CASE k = Len(queue) + 1
      BY <1>4, <1>8, <3>2, ThroughTheQueue DEF SameSource
    <3> QED BY <1>4, <3>1, <3>2
  <2>5. \A j, k \in DOMAIN consumed : j < k /\ SameSource(consumed[j], consumed[k]) => consumed[j] < consumed[k]
    BY DEF AggInv, SourcesInOrder
  <2> QED BY <2>1, <2>2, <2>3, <2>4, <2>5 DEF SourcesInOrder, SameSource
<1>10. TrackerSent' /\ LostOnlyIfOvertaken'
  BY DEF AggInv, TrackerSent, Sent, Took, LostOnlyIfOvertaken
<1>11. SourcesWithoutGaps'
  <2> SUFFICES ASSUME client = "on", NEW i \in DOMAIN aggFeed, joined[aggFeed[i]] < i, i <= aggCursor'[aggFeed[i]]
               PROVE  Took(i) \/ \E k \in DOMAIN queue' : queue'[k] = i
    BY DEF SourcesWithoutGaps, Took
  <2>1. aggFeed[i] \in Source /\ i \in Nat
    BY FeedNumbers
  <2>2. CASE i <= aggCursor[aggFeed[i]]
    <3>1. Took(i) \/ \E k \in DOMAIN queue : queue[k] = i
      BY <2>2 DEF AggInv, SourcesWithoutGaps
    <3> QED BY <1>4, <3>1
  <2>3. CASE ~(i <= aggCursor[aggFeed[i]])
    <3>1. aggFeed[i] = src /\ i <= m /\ aggCursor[src] < i
      BY <1>2, <2>1, <2>3
    <3>2. i \in Backlog(src)
      BY <1>1, <2>1, <3>1 DEF Backlog, Of, AggInv, AggShapes
    <3>3. i = m
      BY <1>1, <2>1, <3>1, <3>2
    <3> QED BY <1>4, <3>3
  <2> QED BY <2>2, <2>3
<1> QED BY <1>5, <1>9, <1>10, <1>11 DEF AggInv

\* The stream takes the head of its queue.
LEMMA ConsumeKeeps == ASSUME AggInv, Consume PROVE AggInv'
<1>1. queue \in Seq(Nat) /\ queue # <<>> /\ client = "on" /\ consumed \in Seq(Nat) /\ emitted \in Seq(Nat)
  BY DEF AggInv, AggShapes, Consume
<1>2. PICK i : i = Head(queue)
  OBVIOUS
<1>3. 1 \in DOMAIN queue /\ queue[1] = i /\ i \in Nat
  BY <1>1, <1>2
<1>4. i \in DOMAIN aggFeed /\ i > 0 /\ aggFeed[i] \in Source /\ ThroughItsForwarder(i)
  BY <1>3, ThroughTheQueue, FeedNumbers
<1>5. /\ queue' = Tail(queue) /\ consumed' = Append(consumed, i)
      /\ UNCHANGED <<aggFeed, pumped, forwarder, aggCursor, client, joined>>
  BY <1>2 DEF Consume
<1>6. /\ consumed' \in Seq(Nat) /\ Len(consumed) \in Nat /\ DOMAIN consumed = 1..Len(consumed)
      /\ DOMAIN consumed' = 1..(Len(consumed) + 1)
      /\ consumed'[Len(consumed) + 1] = i /\ \A k \in DOMAIN consumed : consumed'[k] = consumed[k]
  BY <1>1, <1>3, <1>5, AppendedNumbers
<1>7. /\ queue' \in Seq(Nat) /\ Len(queue) \in Nat /\ DOMAIN queue = 1..Len(queue)
      /\ DOMAIN queue' = 1..(Len(queue) - 1) /\ \A k \in DOMAIN queue' : queue'[k] = queue[k + 1] /\ k + 1 \in DOMAIN queue
  BY <1>1, <1>5
<1>8. PICK seen : seen = ObserveLive(aggTracker, i, i)
  OBVIOUS
<1>9. aggTracker' = seen.tracker /\ emitted' = IF seen.emit THEN Append(emitted, i) ELSE emitted
  BY <1>2, <1>8 DEF Consume
<1>10. aggTracker \in [phase : {"live"}, ring : Seq(Nat), last : Nat]
  BY DEF AggInv, AggShapes
<1>11. /\ ~seen.emit => seen.tracker = aggTracker /\ (i <= aggTracker.last \/ Seen(aggTracker, i))
       /\ seen.emit => /\ seen.tracker \in [phase : {"live"}, ring : Seq(Nat), last : Nat]
                       /\ seen.tracker.last = i
                       /\ \A k \in DOMAIN seen.tracker.ring :
                             \/ seen.tracker.ring[k] = i
                             \/ \E j \in DOMAIN aggTracker.ring : aggTracker.ring[j] = seen.tracker.ring[k]
  BY <1>3, <1>8, <1>10, LiveObserved
<1>12. emitted' \in Seq(Nat) /\ (\A e : Sent(e) => Sent(e)') /\ (seen.emit => Sent(i)')
  <2>1. CASE seen.emit
    <3>1. emitted' = Append(emitted, i)
      BY <1>9, <2>1
    <3>2. /\ emitted' \in Seq(Nat) /\ Len(emitted) \in Nat /\ DOMAIN emitted = 1..Len(emitted)
          /\ DOMAIN emitted' = 1..(Len(emitted) + 1)
          /\ emitted'[Len(emitted) + 1] = i /\ \A k \in DOMAIN emitted : emitted'[k] = emitted[k]
      BY <1>1, <1>3, <3>1, AppendedNumbers
    <3> QED BY <3>2 DEF Sent
  <2>2. CASE ~seen.emit
    BY <1>1, <1>9, <2>2 DEF Sent
  <2> QED BY <2>1, <2>2
<1>13. (\A e : Took(e) => Took(e)') /\ Took(i)'
  BY <1>6 DEF Took
<1>14. AggShapes'
  <2>1. aggTracker' \in [phase : {"live"}, ring : Seq(Nat), last : Nat]
    BY <1>9, <1>10, <1>11
  <2>2. \A k \in DOMAIN queue' : queue'[k] \in DOMAIN aggFeed
    BY <1>7, ThroughTheQueue
  <2>3. \A k \in DOMAIN consumed' : consumed'[k] \in DOMAIN aggFeed
    <3> SUFFICES ASSUME NEW k \in DOMAIN consumed' PROVE consumed'[k] \in DOMAIN aggFeed
      OBVIOUS
    <3>1. k \in DOMAIN consumed \/ k = Len(consumed) + 1
      BY <1>6
    <3> QED BY <1>4, <1>6, <3>1, ThroughTheQueue
  <2> QED BY <1>5, <1>6, <1>7, <1>12, <2>1, <2>2, <2>3 DEF AggInv, AggShapes
<1>15. \A j \in DOMAIN consumed : aggFeed[consumed[j]] = aggFeed[i] => consumed[j] < i
  BY <1>3 DEF AggInv, SourcesInOrder, SameSource
<1>16. \A k \in DOMAIN queue' : aggFeed[queue'[k]] = aggFeed[i] => i < queue'[k]
  BY <1>3, <1>7, SMTT(40) DEF AggInv, SourcesInOrder, SameSource
<1>17. SourcesInOrder'
  <2>1. \A k \in DOMAIN queue' : ThroughItsForwarder(queue[k])'
    <3> SUFFICES ASSUME NEW k \in DOMAIN queue' PROVE ThroughItsForwarder(queue[k])'
      OBVIOUS
    <3>1. PICK n : n = queue'[k] /\ ThroughItsForwarder(n)
      BY <1>7, ThroughTheQueue
    <3> QED BY <1>5, <3>1 DEF ThroughItsForwarder
  <2>2. \A k \in DOMAIN consumed' : ThroughItsForwarder(consumed[k])'
    <3> SUFFICES ASSUME NEW k \in DOMAIN consumed' PROVE ThroughItsForwarder(consumed[k])'
      OBVIOUS
    <3>1. k \in DOMAIN consumed \/ k = Len(consumed) + 1
      BY <1>6
    <3>2. PICK n : n = consumed'[k] /\ ThroughItsForwarder(n)
      BY <1>4, <1>6, <3>1, ThroughTheQueue
    <3> QED BY <1>5, <3>2 DEF ThroughItsForwarder
  <2>3. \A j, k \in DOMAIN queue' : j < k /\ aggFeed[queue'[j]] = aggFeed[queue'[k]] => queue'[j] < queue'[k]
    BY <1>7, SMTT(60) DEF AggInv, SourcesInOrder, SameSource
  <2>4. \A j, k \in DOMAIN consumed' : j < k /\ aggFeed[consumed'[j]] = aggFeed[consumed'[k]] => consumed'[j] < consumed'[k]
    <3> SUFFICES ASSUME NEW j \in DOMAIN consumed', NEW k \in DOMAIN consumed', j < k,
                        aggFeed[consumed'[j]] = aggFeed[consumed'[k]]
                 PROVE  consumed'[j] < consumed'[k]
      OBVIOUS
    <3>1. j \in DOMAIN consumed /\ (k \in DOMAIN consumed \/ k = Len(consumed) + 1)
      BY <1>6
    <3> QED BY <1>6, <1>15, <3>1 DEF AggInv, SourcesInOrder, SameSource
  <2>5. \A j \in DOMAIN consumed', k \in DOMAIN queue' : aggFeed[consumed'[j]] = aggFeed[queue'[k]] => consumed'[j] < queue'[k]
    <3> SUFFICES ASSUME NEW j \in DOMAIN consumed', NEW k \in DOMAIN queue', aggFeed[consumed'[j]] = aggFeed[queue'[k]]
                 PROVE  consumed'[j] < queue'[k]
      OBVIOUS
    <3>1. j \in DOMAIN consumed \/ j = Len(consumed) + 1
      BY <1>6
    <3>2. CASE j \in DOMAIN consumed
      BY <1>6, <1>7, <3>2 DEF AggInv, SourcesInOrder, SameSource
    <3>3. CASE j = Len(consumed) + 1
      BY <1>6, <1>16, <3>3
    <3> QED BY <3>1, <3>2, <3>3
  <2> QED BY <1>5, <2>1, <2>2, <2>3, <2>4, <2>5 DEF SourcesInOrder, SameSource
<1>18. TrackerSent'
  <2>1. CASE seen.emit
    <3>1. aggTracker'.last = i /\ Sent(i)' /\ Took(i)'
      BY <1>9, <1>11, <1>12, <1>13, <2>1
    <3>2. \A k \in DOMAIN aggTracker'.ring : Sent(aggTracker.ring[k])'
      <4> SUFFICES ASSUME NEW k \in DOMAIN aggTracker'.ring PROVE Sent(aggTracker.ring[k])'
        OBVIOUS
      <4>1. PICK e : e = aggTracker'.ring[k]
        OBVIOUS
      <4>2. e = i \/ \E j \in DOMAIN aggTracker.ring : aggTracker.ring[j] = e
        BY <1>9, <1>11, <2>1, <4>1
      <4>3. Sent(e)'
        BY <1>12, <2>1, <4>2 DEF AggInv, TrackerSent
      <4> QED BY <4>1, <4>3 DEF Sent
    <3> QED BY <3>1, <3>2 DEF TrackerSent, Sent, Took
  <2>2. CASE ~seen.emit
    <3>1. aggTracker' = aggTracker /\ emitted' = emitted
      BY <1>9, <1>11, <2>2
    <3>2. PICK n : n = aggTracker.last
      OBVIOUS
    <3>3. n = 0 \/ (Sent(n)' /\ Took(n)')
      BY <1>12, <1>13, <3>2 DEF AggInv, TrackerSent
    <3>4. \A k \in DOMAIN aggTracker.ring : Sent(aggTracker.ring[k])'
      BY <3>1 DEF AggInv, TrackerSent, Sent
    <3> QED BY <3>1, <3>2, <3>3, <3>4 DEF TrackerSent, Sent, Took
  <2> QED BY <2>1, <2>2
<1>19. SourcesWithoutGaps'
  <2> SUFFICES ASSUME NEW n \in DOMAIN aggFeed, joined[aggFeed[n]] < n, n <= aggCursor[aggFeed[n]]
               PROVE  Took(n)' \/ \E k \in DOMAIN queue' : queue'[k] = n
    BY <1>1, <1>5 DEF SourcesWithoutGaps, Took
  <2>1. Took(n) \/ \E k \in DOMAIN queue : queue[k] = n
    BY <1>1 DEF AggInv, SourcesWithoutGaps
  <2>2. ASSUME NEW k \in DOMAIN queue, queue[k] = n PROVE n = i \/ \E q \in DOMAIN queue' : queue'[q] = n
    <3>1. CASE k = 1
      BY <1>3, <2>2, <3>1
    <3>2. CASE k # 1
      <4>1. k - 1 \in DOMAIN queue' /\ (k - 1) + 1 = k
        BY <1>7, <3>2
      <4> QED BY <1>7, <2>2, <4>1
    <3> QED BY <3>1, <3>2
  <2> QED BY <1>13, <2>1, <2>2
<1>20. ASSUME ~Sent(i)'
       PROVE  \E m \in DOMAIN consumed : consumed[m] > i /\ aggFeed[consumed[m]] # aggFeed[i]
  <2>1. ~seen.emit /\ ~Sent(i)
    BY <1>12, <1>20
  <2>2. ~Seen(aggTracker, i)
    BY <2>1 DEF Seen, AggInv, TrackerSent
  <2>3. PICK n : n = aggTracker.last
    OBVIOUS
  <2>4. n \in Nat /\ i <= n /\ n # 0 /\ n # i
    BY <1>4, <1>10, <1>11, <2>1, <2>2, <2>3 DEF AggInv, TrackerSent
  <2>5. PICK m \in DOMAIN consumed : consumed[m] = n
    BY <2>3, <2>4 DEF AggInv, TrackerSent, Took
  <2>6. n > i
    BY <1>3, <2>4
  <2> QED BY <1>3, <1>15, <2>4, <2>5, <2>6
<1>21. LostOnlyIfOvertaken'
  <2> SUFFICES ASSUME NEW k \in DOMAIN consumed', ~Sent(consumed[k])'
               PROVE  \E m \in 1..(k-1) : consumed'[m] > consumed'[k] /\ aggFeed[consumed'[m]] # aggFeed[consumed'[k]]
    BY <1>5 DEF LostOnlyIfOvertaken
  <2>1. k \in DOMAIN consumed \/ k = Len(consumed) + 1
    BY <1>6
  <2>2. PICK n : n = consumed'[k] /\ ~Sent(n)'
    BY DEF Sent
  <2>3. CASE k \in DOMAIN consumed
    <3>1. ~Sent(consumed[k])
      BY <1>6, <1>12, <2>2, <2>3
    <3>2. PICK m \in 1..(k-1) : consumed[m] > consumed[k] /\ aggFeed[consumed[m]] # aggFeed[consumed[k]]
      BY <2>3, <3>1 DEF AggInv, LostOnlyIfOvertaken
    <3>3. m \in DOMAIN consumed
      BY <1>6, <2>3
    <3> QED BY <1>6, <2>3, <3>2, <3>3
  <2>4. CASE k = Len(consumed) + 1
    <3>1. n = i
      BY <1>6, <2>2, <2>4
    <3>2. PICK m \in DOMAIN consumed : consumed[m] > i /\ aggFeed[consumed[m]] # aggFeed[i]
      BY <1>20, <2>2, <3>1
    <3>3. m \in 1..(k - 1) /\ consumed'[m] = consumed[m] /\ consumed'[k] = i
      BY <1>6, <2>4, <3>2
    <3> QED BY <3>2, <3>3
  <2> QED BY <2>1, <2>3, <2>4
<1> QED BY <1>14, <1>17, <1>18, <1>19, <1>21 DEF AggInv

\* Every step keeps the invariant.
LEMMA AggStep == AggInv /\ [AggNext]_aggVars => AggInv'
<1> SUFFICES ASSUME AggInv, [AggNext]_aggVars PROVE AggInv'
  OBVIOUS
<1>1. ASSUME NEW src \in Source, Forward(src) PROVE AggInv'
  <2>1. PICK m : m = Min(Backlog(src))
    OBVIOUS
  <2>2. Backlog(src) # {} /\ Backlog(src) \subseteq Nat
    BY <1>1, FeedNumbers DEF Forward, Backlog, Of
  <2>3. m \in Backlog(src) /\ \A i \in Backlog(src) : m <= i
    BY <2>1, <2>2, LeastIsLeast
  <2>4. /\ forwarder[src] = "on" /\ aggCursor' = [aggCursor EXCEPT ![src] = m]
        /\ UNCHANGED <<aggFeed, pumped, client, aggTracker, joined, consumed, emitted>>
        /\ IF client = "gone" THEN forwarder' = [forwarder EXCEPT ![src] = "ended"] /\ UNCHANGED queue
           ELSE queue' = Append(queue, m) /\ UNCHANGED forwarder
    BY <1>1, <2>1 DEF Forward
  <2>5. CASE client = "gone"
    <3>1. forwarder' = [forwarder EXCEPT ![src] = "ended"] /\ queue' = queue
      BY <2>4, <2>5
    <3> QED BY <2>3, <2>4, <2>5, <3>1, ForwardEnds
  <2>6. CASE client # "gone"
    <3>1. forwarder' = forwarder /\ queue' = Append(queue, m)
      BY <2>4, <2>6
    <3> QED BY <2>3, <2>4, <3>1, ForwardSends
  <2> QED BY <2>5, <2>6
<1>2. ASSUME NEW src \in Source, ForwarderLags(src) PROVE AggInv'
  <2>1. /\ forwarder' \in [Source -> {"none", "held", "on", "ended"}]
        /\ \A s \in Source : forwarder[s] \in {"on", "ended"} => forwarder'[s] \in {"on", "ended"}
    BY <1>2 DEF ForwarderLags, AggInv, AggShapes
  <2> QED BY <1>2, <2>1, ForwardersKeep DEF ForwarderLags
<1>3. CASE SpawnForwarders
  <2>1. /\ forwarder' \in [Source -> {"none", "held", "on", "ended"}]
        /\ \A s \in Source : forwarder[s] \in {"on", "ended"} => forwarder'[s] \in {"on", "ended"}
    BY <1>3 DEF SpawnForwarders, AggInv, AggShapes
  <2> QED BY <1>3, <2>1, ForwardersKeep DEF SpawnForwarders
<1>4. CASE ClientGone
  <2>1. /\ forwarder' \in [Source -> {"none", "held", "on", "ended"}]
        /\ \A s \in Source : forwarder[s] \in {"on", "ended"} => forwarder'[s] \in {"on", "ended"}
    BY <1>4 DEF ClientGone, AggInv, AggShapes
  <2> QED BY <1>4, <2>1, ForwardersKeep DEF ClientGone
<1>5. CASE UNCHANGED aggVars
  <2>1. forwarder \in [Source -> {"none", "held", "on", "ended"}]
    BY DEF AggInv, AggShapes
  <2> QED BY <1>5, <2>1, ForwardersKeep DEF aggVars
<1> QED BY <1>1, <1>2, <1>3, <1>4, <1>5, PublishKeeps, PumpKeeps, SubscribeKeeps, ConsumeKeeps DEF AggNext

\* MergeKeepsSources: however the sources interleave, and whatever their number, the queue
\* of the aggregate gets each of them without a gap, and what the tracker then drops was
\* overtaken by a later message of another source.
THEOREM MergeKept == AggSpec => []MergeKeepsSources
<1>1. AggInv => MergeKeepsSources
  BY DEF AggInv, MergeKeepsSources
<1> QED BY <1>1, InitAggInv, AggStep, PTL DEF AggSpec

-----------------------------------------------------------------------------
(***************************************************************************)
(* MCStreams: the types of the three kinds of stream and of who follows    *)
(* one, side by side.                                                      *)
(***************************************************************************)
\* A sequence of which every element is in a set is one of that set.
LEMMA SeqOfWhatItHolds ==
  ASSUME NEW S, NEW T, NEW q \in Seq(S), \A i \in DOMAIN q : q[i] \in T PROVE q \in Seq(T)
OBVIOUS

\* A receiver joined where the channel was, and what was sent was published.
SentWasPublished ==
    /\ \A src \in Source : joined[src] <= Len(aggFeed)
    /\ \A k \in DOMAIN emitted : emitted[k] \in DOMAIN aggFeed

\* The feed only grows, and Consume sends what it takes from the queue.
LEMMA SentStaysPublished ==
  ASSUME AggInv, SentWasPublished, [AggNext]_aggVars PROVE SentWasPublished'
<1>0. /\ aggFeed \in Seq(Source) /\ joined \in [Source -> Nat] /\ pumped \in [Source -> Nat]
      /\ emitted \in Seq(Nat) /\ queue \in Seq(Nat)
      /\ \A src \in Source : pumped[src] <= Len(aggFeed)
      /\ \A k \in DOMAIN queue : queue[k] \in DOMAIN aggFeed
  BY DEF AggInv, AggShapes
<1>1. ASSUME NEW src \in Source, PublishTo(src) PROVE SentWasPublished'
  <2>1. Len(aggFeed') = Len(aggFeed) + 1 /\ DOMAIN aggFeed \subseteq DOMAIN aggFeed'
    BY <1>0, <1>1 DEF PublishTo
  <2>2. joined' = joined /\ emitted' = emitted /\ Len(aggFeed) \in Nat
    BY <1>0, <1>1 DEF PublishTo
  <2>3. \A s \in Source : joined[s] \in Nat /\ joined[s] <= Len(aggFeed)
    BY <1>0 DEF SentWasPublished
  <2>4. \A s \in Source : joined'[s] <= Len(aggFeed')
    BY <2>1, <2>2, <2>3
  <2>5. \A k \in DOMAIN emitted' : emitted'[k] \in DOMAIN aggFeed'
    BY <2>1, <2>2 DEF SentWasPublished
  <2> QED BY <2>4, <2>5 DEF SentWasPublished
<1>2. ASSUME NEW src \in Source, SubscribeSource(src) PROVE SentWasPublished'
  BY <1>0, <1>2 DEF SubscribeSource, SentWasPublished
<1>3. CASE Consume
  <2>1. queue # <<>> /\ 1 \in DOMAIN queue /\ Head(queue) = queue[1]
    BY <1>0, <1>3 DEF Consume
  <2>2. emitted' = emitted \/ emitted' = Append(emitted, Head(queue))
    BY <1>3 DEF Consume
  <2>3. aggFeed' = aggFeed /\ joined' = joined
    BY <1>3 DEF Consume
  <2>4. Head(queue) \in Nat /\ Head(queue) \in DOMAIN aggFeed
    BY <1>0, <2>1
  <2>5. \A k \in DOMAIN emitted' : emitted'[k] \in DOMAIN aggFeed
    <3>1. \A k \in DOMAIN emitted : emitted[k] \in DOMAIN aggFeed
      BY DEF SentWasPublished
    <3>2. CASE emitted' = emitted
      BY <3>1, <3>2
    <3>3. CASE emitted' = Append(emitted, Head(queue))
      <4>1. PICK m \in Nat : m = Head(queue) /\ m \in DOMAIN aggFeed
        BY <2>4
      <4>2. DOMAIN emitted' = 1..(Len(emitted) + 1) /\ DOMAIN emitted = 1..Len(emitted) /\ Len(emitted) \in Nat
        BY <1>0, <3>3, <4>1
      <4>3. emitted'[Len(emitted) + 1] = m /\ \A k \in 1..Len(emitted) : emitted'[k] = emitted[k]
        BY <1>0, <3>3, <4>1
      <4> QED BY <3>1, <4>1, <4>2, <4>3
    <3> QED BY <2>2, <3>2, <3>3
  <2> QED BY <2>3, <2>5 DEF SentWasPublished
<1>4. CASE \/ \E src \in Source : PumpSource(src) \/ Forward(src) \/ ForwarderLags(src)
           \/ SpawnForwarders \/ ClientGone \/ UNCHANGED aggVars
  <2>1. aggFeed' = aggFeed /\ joined' = joined /\ emitted' = emitted
    BY <1>4, Zenon DEF PumpSource, Forward, ForwarderLags, SpawnForwarders, ClientGone, aggVars
  <2> QED BY <2>1 DEF SentWasPublished
<1> QED BY <1>1, <1>2, <1>3, <1>4 DEF AggNext

\* The merge keeps its types: in particular its tracker remembers messages of the feed.
THEOREM AggTypes == AggSpec => []AggTypeOK
<1>1. AggInit => SentWasPublished
  BY DEF AggInit, SentWasPublished
<1>2. AggInv /\ SentWasPublished => AggTypeOK
  <2> SUFFICES ASSUME AggInv, SentWasPublished PROVE AggTypeOK
    OBVIOUS
  <2>0. /\ aggFeed \in Seq(Source) /\ Len(aggFeed) \in Nat /\ DOMAIN aggFeed = 1..Len(aggFeed)
        /\ pumped \in [Source -> Nat] /\ aggCursor \in [Source -> Nat] /\ joined \in [Source -> Nat]
        /\ aggTracker \in [phase : {"live"}, ring : Seq(Nat), last : Nat]
        /\ queue \in Seq(Nat) /\ consumed \in Seq(Nat) /\ emitted \in Seq(Nat)
    BY DEF AggInv, AggShapes
  <2>1. pumped \in [Source -> 0..Len(aggFeed)] /\ aggCursor \in [Source -> 0..Len(aggFeed)]
        /\ joined \in [Source -> 0..Len(aggFeed)]
    BY <2>0 DEF AggInv, AggShapes, SentWasPublished
  <2>2. queue \in Seq(DOMAIN aggFeed) /\ consumed \in Seq(DOMAIN aggFeed) /\ emitted \in Seq(DOMAIN aggFeed)
    BY <2>0, SeqOfWhatItHolds DEF AggInv, AggShapes, SentWasPublished
  <2>3. \A i : Sent(i) => i \in DOMAIN aggFeed
    BY DEF Sent, SentWasPublished
  <2>4. aggTracker.ring \in Seq(DOMAIN aggFeed)
    <3>1. aggTracker.ring \in Seq(Nat)
      BY <2>0
    <3>2. \A k \in DOMAIN aggTracker.ring : aggTracker.ring[k] \in DOMAIN aggFeed
      BY <2>3 DEF AggInv, TrackerSent
    <3> QED BY <3>1, <3>2, SeqOfWhatItHolds
  <2>5. aggTracker.last \in 0..Len(aggFeed)
    <3>1. aggTracker.last = 0 \/ aggTracker.last \in DOMAIN aggFeed
      BY <2>3 DEF AggInv, TrackerSent
    <3> QED BY <2>0, <3>1
  <2>6. aggTracker \in [phase : {"replay", "live"}, ring : Seq(DOMAIN aggFeed), last : 0..Len(aggFeed)]
    BY <2>0, <2>4, <2>5
  <2> QED BY <2>0, <2>1, <2>2, <2>6 DEF AggTypeOK, AggInv, AggShapes
<1> QED BY <1>1, <1>2, InitAggInv, AggStep, SentStaysPublished, PTL DEF AggSpec

\* A step of the whole is a step of one kind of stream, or leaves it alone.
LEMMA StreamsSides ==
    /\ StreamsInit => Init /\ AggInit /\ StreamInit /\ AccInit
    /\ [StreamsNext]_streamsVars =>
         [Next]_vars /\ [AggNext]_aggVars /\ [StreamNext]_streamVars /\ [AccNext]_accVars
<1>1. StreamsInit => Init /\ AggInit /\ StreamInit /\ AccInit
  BY Zenon DEF StreamsInit
<1>2. ASSUME StreamsNext
      PROVE  /\ Next \/ UNCHANGED vars
             /\ AggNext \/ UNCHANGED aggVars
             /\ StreamNext \/ UNCHANGED streamVars
             /\ AccNext \/ UNCHANGED accVars
  BY <1>2, Zenon DEF StreamsNext, boardStreamVars
<1>3. UNCHANGED streamsVars =>
        UNCHANGED vars /\ UNCHANGED aggVars /\ UNCHANGED streamVars /\ UNCHANGED accVars
  BY DEF streamsVars, boardStreamVars
<1> QED BY <1>1, <1>2, <1>3, Zenon

\* Every stream, channel and task keeps its type, for any streams, sources and boards, and
\* whatever is fair.
THEOREM StreamsTypes == StreamsSpec => []StreamsTypeOK
<1>1. StreamsSpec => Spec /\ AggSpec /\ StreamSpec /\ AccSpec
  BY StreamsSides, PTL DEF StreamsSpec, Spec, AggSpec, StreamSpec, AccSpec
<1>2. ProjectInv => StreamTypeOK
  BY DEF ProjectInv
<1> QED BY <1>1, <1>2, StreamTypesHold, AggTypes, ProjectInvariant, AccTypes, PTL DEF StreamsTypeOK
=============================================================================
