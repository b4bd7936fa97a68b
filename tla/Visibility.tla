------------------------------ MODULE Visibility ------------------------------
(***************************************************************************)
(* What a viewer is shown: ListBoards and GetBoard (src/src/services/      *)
(* boards.rs), GetAggregatedBoard and ListAggregatedBoards                 *)
(* (aggregated_boards.rs), ListProjects (projects.rs), and the boards      *)
(* anyone may see (public_boards.rs), while others change the visibility   *)
(* of boards, grant and revoke relations, move cards and delete boards.    *)
(*                                                                         *)
(* A handler reads rows in one query and relations in a call to the        *)
(* permission backend, in the order it happens to make them: what it       *)
(* shows is put together from answers of different moments.                *)
(*                                                                         *)
(* Abstracted: boards, aggregates and projects are the same set of things, *)
(* since the handlers of one kind never ask for those of another; projects *)
(* have no visibility, so all that is private stands for them.             *)
(***************************************************************************)
EXTENDS Integers, FiniteSets

CONSTANTS
    VisBoard, VisCard,
    VisReader,     \* bound: the requests of the viewer
    ExpandLimit,   \* the most objects expand_objects may return
    VisChanges     \* bound: changes by others

ASSUME VisAssumption == ExpandLimit \in Nat \ {0} /\ VisChanges \in Nat

Kind == {"listBoards", "getBoard", "getAggregate", "listAggregates", "listProjects",
         "getPublic", "listPublic"}

VARIABLES
    visOf,      \* visibility of each board that exists, "deleted" of the others
    viewable,   \* boards on which the viewer holds view
    onBoard,    \* cards: board_id
    reading,    \* the state of each request
    visChanges

\* Ghosts, per request, since it began:
VARIABLES
    visible,    \* boards the viewer could see at some moment
    openAlways, viewAlways,   \* boards that were open to it, or granted, at every moment
    cardSeen,   \* <<card, board>>: on it at some moment when it could be seen
    narrowed    \* boards that became less visible

visTables == <<visOf, viewable, onBoard, visChanges>>
visGhosts == <<visible, openAlways, viewAlways, cardSeen, narrowed>>
visVars == <<visTables, reading, visGhosts>>

VisExists(b) == visOf[b] # "deleted"

\* Variant: the public endpoints show what is internal.
OpenTo_Internal(kind, v) == v \in {"internal", "public"}

\* is_public, is_public_or_internal; projects have no visibility.
OpenTo(kind, v) ==
    CASE kind \in {"getPublic", "listPublic"} -> v = "public"
      [] kind = "listProjects" -> FALSE
      [] OTHER -> v \in {"internal", "public"}

Anonymous(kind) == kind \in {"getPublic", "listPublic"}

\* What has been read so far: the rows with their visibility, the granted ids.
NotReading == [at |-> "idle"]

VisTypeOK ==
    /\ visOf \in [VisBoard -> {"private", "internal", "public", "deleted"}]
    /\ viewable \subseteq VisBoard
    /\ onBoard \in [VisCard -> VisBoard]
    /\ \A r \in VisReader :
         reading[r] # NotReading =>
            /\ reading[r].open \cup reading[r].rows \cup reading[r].shown \subseteq VisBoard
            /\ reading[r].cards \subseteq VisCard \X reading[r].shown

VisInit ==
    /\ visOf \in [VisBoard -> {"private", "internal", "public"}]
    /\ viewable \in SUBSET VisBoard
    /\ onBoard \in [VisCard -> VisBoard]
    /\ reading = [r \in VisReader |-> NotReading]
    /\ visChanges = 0
    /\ visible = [r \in VisReader |-> {}] /\ openAlways = visible /\ viewAlways = visible
    /\ cardSeen = visible /\ narrowed = visible

-----------------------------------------------------------------------------
(* Ghosts: who may see what, by the rule and not by the code.              *)

MaySee(kind, vis, tuples) ==
    CASE Anonymous(kind) -> {b \in VisBoard : vis[b] = "public"}
      [] kind = "listProjects" -> tuples
      [] OTHER -> tuples \cup {b \in VisBoard : vis[b] \in {"internal", "public"}}

OpenNow(kind, vis) == MaySee(kind, vis, {})
GrantedNow(kind, tuples) == IF Anonymous(kind) THEN {} ELSE tuples

Shows(kind) ==
    {<<c, onBoard[c]>> : c \in {d \in VisCard : onBoard[d] \in MaySee(kind, visOf, viewable)}}

\* The ghosts of a request that begins.
Watch(r, kind) ==
    /\ visible' = [visible EXCEPT ![r] = MaySee(kind, visOf, viewable)]
    /\ openAlways' = [openAlways EXCEPT ![r] = OpenNow(kind, visOf)]
    /\ viewAlways' = [viewAlways EXCEPT ![r] = GrantedNow(kind, viewable)]
    /\ cardSeen' = [cardSeen EXCEPT ![r] = Shows(kind)]
    /\ UNCHANGED narrowed

Active(r) == reading[r].at \notin {"idle", "shown", "refused"}

\* The ghosts of those under way, after a change.
Witness ==
    LET see(r) == MaySee(reading[r].kind, visOf', viewable')
    IN  /\ visible' = [r \in VisReader |-> IF Active(r) THEN visible[r] \cup see(r) ELSE visible[r]]
        /\ openAlways' = [r \in VisReader |->
              IF Active(r) THEN openAlways[r] \cap OpenNow(reading[r].kind, visOf') ELSE openAlways[r]]
        /\ viewAlways' = [r \in VisReader |->
              IF Active(r) THEN viewAlways[r] \cap GrantedNow(reading[r].kind, viewable') ELSE viewAlways[r]]
        /\ cardSeen' = [r \in VisReader |->
              IF Active(r)
              THEN cardSeen[r] \cup {<<c, onBoard'[c]>> : c \in {d \in VisCard : onBoard'[d] \in see(r)}}
              ELSE cardSeen[r]]
        /\ narrowed' = [r \in VisReader |->
              IF Active(r) THEN narrowed[r] \cup (MaySee(reading[r].kind, visOf, viewable) \ see(r))
              ELSE narrowed[r]]

-----------------------------------------------------------------------------
(* Readers.                                                                *)

ReadGoes(r, next) == reading' = [reading EXCEPT ![r] = next] /\ UNCHANGED visTables

\* `asked` is the board of a request about one board.
BeginReading(r) ==
    \E kind \in Kind, b \in VisBoard :
        /\ reading[r] = NotReading
        /\ ReadGoes(r, [at |-> "begun", kind |-> kind, asked |-> b, rows |-> {}, open |-> {},
                    granted |-> {}, shown |-> {}, cards |-> {}])
        /\ Watch(r, kind)

At(r, place, kinds) == reading[r].at = place /\ reading[r].kind \in kinds

Refused(r) == ReadGoes(r, [reading[r] EXCEPT !.at = "refused"]) /\ UNCHANGED visGhosts

Read(r) == [rows |-> {b \in VisBoard : VisExists(b)},
            open |-> {b \in VisBoard : OpenTo(reading[r].kind, visOf[b])}]

\* Variant: as many as fit.
ExpandedTo_Cut(set) == IF Cardinality(set) > ExpandLimit
                       THEN {s \in SUBSET viewable : Cardinality(s) = ExpandLimit} ELSE {set}

\* expand_objects fails when there are more than max_results.
ExpandedTo(set) == IF Cardinality(set) > ExpandLimit THEN {} ELSE {set}

TooMany(r) ==
    /\ \/ At(r, "rowRead", {"listBoards"}) \/ At(r, "sourcesRead", {"getAggregate"})
       \/ At(r, "begun", {"listAggregates", "listProjects"})
    /\ ExpandedTo(viewable) = {} /\ Refused(r)

\* ListBoards: the rows of the project, then all that the viewer may view.
ListRows(r) ==
    /\ At(r, "begun", {"listBoards"})
    /\ ReadGoes(r, [reading[r] EXCEPT !.at = "rowRead", !.rows = Read(r).rows, !.open = Read(r).open])
    /\ UNCHANGED visGhosts

ListExpanded(r) ==
    /\ At(r, "rowRead", {"listBoards"})
    /\ \E granted \in ExpandedTo(viewable) :
         ReadGoes(r, [reading[r] EXCEPT !.at = "shown",
                    !.shown = @ \cup reading[r].open \cup (reading[r].rows \cap granted)])
    /\ UNCHANGED visGhosts

\* ListAggregatedBoards and ListProjects: the other way round.
ExpandFirst(r) ==
    /\ At(r, "begun", {"listAggregates", "listProjects"})
    /\ \E granted \in ExpandedTo(viewable) :
         ReadGoes(r, [reading[r] EXCEPT !.at = "expanded", !.granted = granted])
    /\ UNCHANGED visGhosts

ThenRows(r) ==
    /\ At(r, "expanded", {"listAggregates", "listProjects"})
    /\ ReadGoes(r, [reading[r] EXCEPT !.at = "shown",
                  !.shown = Read(r).open \cup (Read(r).rows \cap reading[r].granted)])
    /\ UNCHANGED visGhosts

\* GetBoard: the row, then a check if it is private.  The columns and counts of
\* a board that is shown are read after that.
GetRow(r) ==
    LET b == reading[r].asked
    IN  /\ At(r, "begun", {"getBoard"})
        /\ IF ~VisExists(b) THEN Refused(r)
           ELSE /\ ReadGoes(r, IF OpenTo("getBoard", visOf[b])
                           THEN [reading[r] EXCEPT !.at = "shown", !.shown = {b}]
                           ELSE [reading[r] EXCEPT !.at = "rowRead"])
                /\ UNCHANGED visGhosts

CheckView(r) ==
    LET b == reading[r].asked
    IN  /\ At(r, "rowRead", {"getBoard"})
        /\ IF b \notin viewable THEN Refused(r)
           ELSE ReadGoes(r, [reading[r] EXCEPT !.at = "shown", !.shown = {b}]) /\ UNCHANGED visGhosts

\* GetPublicBoard hides what is not public behind NotFound, ListPublicBoards
\* asks for what is.
ShowPublic(r) ==
    LET open == Read(r).open
        asked == IF reading[r].kind = "getPublic" THEN {reading[r].asked} ELSE VisBoard
    IN  /\ At(r, "begun", {"getPublic", "listPublic"})
        /\ IF reading[r].kind = "getPublic" /\ reading[r].asked \notin open THEN Refused(r)
           ELSE ReadGoes(r, [reading[r] EXCEPT !.at = "shown", !.shown = open \cap asked]) /\ UNCHANGED visGhosts

\* GetAggregatedBoard: its sources, all that the viewer may view, which of the
\* sources are open, and then the cards.
ReadSources(r) ==
    /\ At(r, "begun", {"getAggregate"})
    /\ ReadGoes(r, [reading[r] EXCEPT !.at = "sourcesRead", !.rows = Read(r).rows])
    /\ UNCHANGED visGhosts

ExpandSources(r) ==
    /\ At(r, "sourcesRead", {"getAggregate"})
    /\ \E granted \in ExpandedTo(viewable) :
         ReadGoes(r, [reading[r] EXCEPT !.at = "sourcesExpanded", !.granted = granted])
    /\ UNCHANGED visGhosts

OpenSources(r) ==
    /\ At(r, "sourcesExpanded", {"getAggregate"})
    /\ ReadGoes(r, [reading[r] EXCEPT !.at = "expanded",
                  !.shown = reading[r].rows \cap (reading[r].granted \cup Read(r).open)])
    /\ UNCHANGED visGhosts

\* Variant: the cards of every source.
CardsOf_Sources(r) == {c \in VisCard : VisExists(onBoard[c]) /\ onBoard[c] \in reading[r].rows}

\* By the board a card is on when it is read.
CardsOf(r) == {c \in VisCard : VisExists(onBoard[c]) /\ onBoard[c] \in reading[r].shown}

FetchCards(r) ==
    /\ At(r, "expanded", {"getAggregate"})
    /\ ReadGoes(r, [reading[r] EXCEPT !.at = "shown", !.cards = {<<c, onBoard[c]>> : c \in CardsOf(r)}])
    /\ UNCHANGED visGhosts

-----------------------------------------------------------------------------
(* Others.                                                                 *)

Disturbs == visChanges < VisChanges /\ visChanges' = visChanges + 1 /\ UNCHANGED reading /\ Witness

\* UpdateBoard with visibility in its mask.
ChangeVisibility ==
    /\ \E b \in VisBoard, v \in {"private", "internal", "public"} :
         VisExists(b) /\ visOf[b] # v /\ visOf' = [visOf EXCEPT ![b] = v]
    /\ UNCHANGED <<viewable, onBoard>>
    /\ Disturbs

GrantView ==
    /\ \E b \in VisBoard \ viewable : viewable' = viewable \cup {b}
    /\ UNCHANGED <<visOf, onBoard>>
    /\ Disturbs

RevokeView ==
    /\ \E b \in viewable : viewable' = viewable \ {b}
    /\ UNCHANGED <<visOf, onBoard>>
    /\ Disturbs

CardMovesTo ==
    /\ \E c \in VisCard, b \in VisBoard :
         VisExists(b) /\ VisExists(onBoard[c]) /\ onBoard[c] # b /\ onBoard' = [onBoard EXCEPT ![c] = b]
    /\ UNCHANGED <<visOf, viewable>>
    /\ Disturbs

\* Its tuples may stay.
BoardGoes ==
    /\ \E b \in VisBoard : VisExists(b) /\ visOf' = [visOf EXCEPT ![b] = "deleted"]
    /\ UNCHANGED <<viewable, onBoard>>
    /\ Disturbs

VisNext ==
    \/ \E r \in VisReader :
         \/ BeginReading(r) \/ TooMany(r) \/ ListRows(r) \/ ListExpanded(r) \/ ExpandFirst(r) \/ ThenRows(r)
         \/ GetRow(r) \/ CheckView(r) \/ ShowPublic(r)
         \/ ReadSources(r) \/ ExpandSources(r) \/ OpenSources(r) \/ FetchCards(r)
    \/ ChangeVisibility \/ GrantView \/ RevokeView \/ CardMovesTo \/ BoardGoes

VisSpec == VisInit /\ [][VisNext]_visVars

-----------------------------------------------------------------------------
(* Properties.                                                             *)

Shown(r) == reading[r].at = "shown"

\* Whatever changed between the queries of a handler, nothing is shown that the
\* viewer could not see at some moment of its request.
ShownWasVisible == \A r \in VisReader : Shown(r) => reading[r].shown \subseteq visible[r]

\* A list leaves out nothing that was open all the time, or granted all the time,
\* and a board of which that is true is not refused.  (One that was made private
\* while its grant came may be missed.)
NoneHidden ==
    \A r \in VisReader :
        LET kind == reading[r].kind
            always == {b \in openAlways[r] \cup viewAlways[r] : VisExists(b)}
        IN  /\ (Shown(r) /\ kind \notin {"getBoard", "getPublic"}) => always \subseteq reading[r].shown
            /\ (reading[r].at = "refused" /\ kind \in {"getBoard", "getPublic"}) => reading[r].asked \notin always

\* A card of an aggregate was on a board the viewer could see, unless the board
\* became less visible meanwhile: the boards are chosen before the cards are read.
CardsWereVisible ==
    \A r \in VisReader :
        Shown(r) => \A cb \in reading[r].cards \ cardSeen[r] : cb[2] \in narrowed[r]

\* A reader is shown what was visible at some moment of the request, and everything that was
\* visible during all of it.
ShowsWhatIsOpen == ShownWasVisible /\ CardsWereVisible /\ NoneHidden
=============================================================================
