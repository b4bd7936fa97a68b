------------------------------ MODULE GithubLinks ------------------------------
(***************************************************************************)
(* Links from a card to a GitHub issue: LinkIssue, ResyncLink, UnlinkIssue *)
(* (src/src/services/github.rs), while the issue changes at GitHub and the *)
(* card moves to other boards or is deleted.                               *)
(*                                                                         *)
(* A request asks GitHub between its queries; what it writes may be older  *)
(* than what another has written since.  Linking goes on without an        *)
(* answer, resyncing does not.                                             *)
(*                                                                         *)
(* Abstracted: one card and one issue, whose successive states are         *)
(* numbers; title, kind and url come and go with the state.                *)
(***************************************************************************)
EXTENDS Integers, FiniteSets

CONSTANTS
    GhRequest,    \* bound: requests; the link a request makes has its name
    GhBoard,
    MaxIssue,     \* bound: changes of the issue
    MaxCardMoves, \* bound: moves of the card
    NoBoard       \* where a deleted card is

ASSUME GithubAssumption == MaxIssue \in Nat /\ MaxCardMoves \in Nat /\ NoBoard \notin GhBoard

Unsynced == -1    \* state 'open', the default

VARIABLES
    issue,      \* the state of the issue at GitHub
    cardOn,     \* cards.board_id
    links,      \* github_links: state of each link that is there
    ghWork,     \* the state of each request
    told,       \* the last GitHubLinkRefreshed about each link
    cardMoves,
    overlapped, \* ghost: requests on one link that overlapped another
    movedLate,  \* ghost: requests during which the card moved after its board was read
    removed     \* ghost: links that were removed

ghTables == <<issue, cardOn, links, told, cardMoves>>
ghGhosts == <<overlapped, movedLate, removed>>
ghVars == <<ghTables, ghWork, ghGhosts>>

Unlinked == -2
NoGhWork == [at |-> "idle"]
NotTold == [board |-> NoBoard, state |-> Unsynced]

GhTypeOK ==
    /\ issue \in 0..MaxIssue
    /\ cardOn \in GhBoard \cup {NoBoard}
    /\ links \in [GhRequest -> Unlinked..MaxIssue]
    /\ \A k \in GhRequest : links[k] # Unlinked => cardOn # NoBoard /\ links[k] <= issue

GhInit ==
    /\ issue = 0
    /\ cardOn \in GhBoard
    /\ links = [k \in GhRequest |-> Unlinked]
    /\ ghWork = [r \in GhRequest |-> NoGhWork]
    /\ told = [k \in GhRequest |-> NotTold]
    /\ cardMoves = 0
    /\ overlapped = {} /\ movedLate = {} /\ removed = {}

UnderWay(r) == ghWork[r].at \notin {"idle", "done", "failed"}

Moves(r, next) == ghWork' = [ghWork EXCEPT ![r] = next]

LinkFails(r) == Moves(r, [ghWork[r] EXCEPT !.at = "failed"]) /\ UNCHANGED <<ghTables, ghGhosts>>

-----------------------------------------------------------------------------
(* LinkIssue.                                                              *)

\* card_board_id comes first.
BeginLink(r) ==
    /\ ghWork[r] = NoGhWork /\ cardOn # NoBoard
    /\ Moves(r, [at |-> "ask", link |-> r, verb |-> "link", board |-> cardOn, state |-> Unsynced, since |-> issue])
    /\ UNCHANGED <<ghTables, ghGhosts>>

\* Whatever goes wrong with GitHub, the link is made with defaults.
AskForLink(r) ==
    /\ ghWork[r].at = "ask" /\ ghWork[r].verb = "link"
    /\ \E answer \in {issue, Unsynced} : Moves(r, [ghWork[r] EXCEPT !.at = "write", !.state = answer])
    /\ UNCHANGED <<ghTables, ghGhosts>>

\* Variant: the card need not be there.
LinkedCard_Any == TRUE

\* card_id REFERENCES cards(id)
LinkedCard == cardOn # NoBoard

InsertLink(r) ==
    /\ ghWork[r].at = "write" /\ ghWork[r].verb = "link"
    /\ IF LinkedCard
       THEN /\ links' = [links EXCEPT ![r] = ghWork[r].state]
            /\ Moves(r, [ghWork[r] EXCEPT !.at = "done"])
            /\ UNCHANGED <<issue, cardOn, told, cardMoves, ghGhosts>>
       ELSE LinkFails(r)

-----------------------------------------------------------------------------
(* ResyncLink.                                                             *)

OtherRequests(k, r) == {q \in GhRequest \ {r} : UnderWay(q) /\ ghWork[q].verb = "resync" /\ ghWork[q].link = k}

BeginResync(r) ==
    \E k \in GhRequest :
        /\ ghWork[r] = NoGhWork /\ links[k] # Unlinked
        /\ Moves(r, [at |-> "ask", link |-> k, verb |-> "resync", board |-> NoBoard, state |-> Unsynced,
                     since |-> issue])
        /\ overlapped' = IF OtherRequests(k, r) = {} THEN overlapped ELSE overlapped \cup OtherRequests(k, r) \cup {r}
        /\ UNCHANGED <<ghTables, movedLate, removed>>

\* Variant: without an answer, the default.
ResyncAnswers_Degraded == {issue, Unsynced}

ResyncAnswers == {issue}

\* An error ends the request.
AskForResync(r) ==
    /\ ghWork[r].at = "ask" /\ ghWork[r].verb = "resync"
    /\ \/ \E answer \in ResyncAnswers :
            Moves(r, [ghWork[r] EXCEPT !.at = "board", !.state = answer]) /\ UNCHANGED <<ghTables, ghGhosts>>
       \/ LinkFails(r)

\* Variant: the board that the last event went to.
BoardOfEvent_Known(k) == IF told[k] = NotTold THEN cardOn ELSE told[k].board

BoardOfEvent(k) == cardOn

\* Only then where the card is.
BoardForResync(r) ==
    /\ ghWork[r].at = "board"
    /\ IF cardOn = NoBoard THEN LinkFails(r)
       ELSE Moves(r, [ghWork[r] EXCEPT !.at = "write", !.board = BoardOfEvent(ghWork[r].link)]) /\ UNCHANGED <<ghTables, ghGhosts>>

\* Variant: the row is written anew if it is gone.
Refreshable_Anyhow(k) == cardOn # NoBoard

\* UPDATE ... RETURNING finds the row.
Refreshable(k) == links[k] # Unlinked

\* Variant: the event says what the row said when the request began.
News_OfRow(r) == [board |-> ghWork[r].board, state |-> links[ghWork[r].link]]

News(r) == [board |-> ghWork[r].board, state |-> ghWork[r].state]

\* The row and its event in one transaction.
RefreshLink(r) ==
    LET k == ghWork[r].link
    IN  /\ ghWork[r].at = "write" /\ ghWork[r].verb = "resync"
        /\ IF Refreshable(k)
           THEN /\ links' = [links EXCEPT ![k] = ghWork[r].state]
                /\ told' = [told EXCEPT ![k] = News(r)]
                /\ Moves(r, [ghWork[r] EXCEPT !.at = "done"])
                /\ UNCHANGED <<issue, cardOn, cardMoves, ghGhosts>>
           ELSE LinkFails(r)

-----------------------------------------------------------------------------
\* UnlinkIssue: no event.
UnlinkIssue(k) ==
    /\ links[k] # Unlinked
    /\ links' = [links EXCEPT ![k] = Unlinked]
    /\ removed' = removed \cup {k}
    /\ UNCHANGED <<issue, cardOn, told, cardMoves, ghWork, overlapped, movedLate>>

IssueChanges ==
    /\ issue < MaxIssue /\ issue' = issue + 1
    /\ UNCHANGED <<cardOn, links, told, cardMoves, ghWork, ghGhosts>>

\* MoveCard, TransferCard.
CardMovesAway ==
    \E b \in GhBoard :
        /\ cardMoves < MaxCardMoves /\ cardOn \notin {b, NoBoard}
        /\ cardOn' = b /\ cardMoves' = cardMoves + 1
        /\ movedLate' = movedLate \cup {r \in GhRequest : ghWork[r].at = "write"}
        /\ UNCHANGED <<issue, links, told, ghWork, overlapped, removed>>

\* github_links.card_id has no ON DELETE: a card that has links cannot be deleted.
Deletable == \A k \in GhRequest : links[k] = Unlinked

CardDeletedNow ==
    /\ cardOn # NoBoard /\ Deletable
    /\ cardOn' = NoBoard
    /\ UNCHANGED <<issue, links, told, cardMoves, ghWork, ghGhosts>>

GhNext ==
    \/ \E r \in GhRequest :
         \/ BeginLink(r) \/ AskForLink(r) \/ InsertLink(r)
         \/ BeginResync(r) \/ AskForResync(r) \/ BoardForResync(r) \/ RefreshLink(r)
         \/ UnlinkIssue(r)
    \/ IssueChanges \/ CardMovesAway \/ CardDeletedNow

GhSpec == GhInit /\ [][GhNext]_ghVars

-----------------------------------------------------------------------------
(* Properties.                                                             *)

\* After the last resync of a link, if it overlapped no other, the link is not
\* older than what GitHub had when that resync began.
ResyncIsFresh ==
    \A r \in GhRequest :
        LET w == ghWork[r]
        IN  (w.at = "done" /\ w.verb = "resync" /\ r \notin overlapped
               /\ links[w.link] # Unlinked) => links[w.link] >= w.since

\* The last refresh that watchers heard of is what the row says, whichever of
\* several resyncs wrote last.
NewsIsTheRow ==
    \A k \in GhRequest : (links[k] # Unlinked /\ told[k] # NotTold) => told[k].state = links[k]

\* A move of the card while GitHub is asked is noticed: a refresh is told on the
\* board that the card is on, unless it moved in the instant before the write.
RefreshToldAtHome ==
    [][\A r \in GhRequest :
         (ghWork[r].at = "write" /\ ghWork[r].verb = "resync" /\ ghWork'[r].at = "done") =>
            (told'[ghWork[r].link].board = cardOn \/ r \in movedLate)]_ghVars

\* A link that was removed stays removed, even if a resync of it was under way.
UnlinkIsFinal == \A k \in removed : links[k] = Unlinked

\* A link is as new as its last resync, its watchers hear of it where the card is, and one
\* that was removed does not come back.
LinksAreFresh ==
    [](ResyncIsFresh /\ NewsIsTheRow /\ UnlinkIsFinal) /\ RefreshToldAtHome
=============================================================================
