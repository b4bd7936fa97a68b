------------------------------ MODULE CardParts ------------------------------
(***************************************************************************)
(* The parts of a card that live in tables of their own: labels,           *)
(* assignees, checklist, comments and dependencies (src/src/services/      *)
(* cards.rs), the requests that change them, and the replies that gather   *)
(* them.                                                                   *)
(*                                                                         *)
(* Every handler reads its card, then changes a part, increments the       *)
(* revision of the card and appends CardUpdated to event_log in one        *)
(* transaction; many then fetch the whole card for the reply, the row      *)
(* first and the parts after it.                                           *)
(*                                                                         *)
(* Abstracted: the content of a part is the revision of the card that      *)
(* wrote it last; subjects are resolved already; a card that was never     *)
(* there, and requests refused before they touch the database, change      *)
(* nothing and are left out.                                               *)
(***************************************************************************)
EXTENDS Integers, FiniteSets

CONSTANTS
    PartCard,
    PartBoard,
    Person,
    Item,          \* bound: the checklist items ever made
    Comment,       \* bound: the comments ever made
    PartRequest,   \* bound: the requests ever made
    MaxItemPos,    \* bound: positions a request asks for
    NoPartBoard,       \* where a deleted card is
    NoCard         \* where an item or a comment is that does not exist

ASSUME PartsAssumption == NoPartBoard \notin PartBoard /\ NoCard \notin PartCard

VARIABLES
    cardRow,     \* cards: the board and the revision of each
    stamp,       \* the revision of the card that wrote each of its parts last
    deps,        \* card_dependencies: pairs of a card and what it depends on
    items,       \* checklist_items: card and position
    comments,    \* comments: card and author
    said,        \* event_log: the CardUpdated and CardMoved events
    step,        \* where a request stands
    ask,         \* what it asks for
    read,        \* the cards as it read them
    answer,      \* the card it answers with
    mayOverlap   \* whether requests may overlap

partTables == <<cardRow, stamp, deps, items, comments, said>>
partRequests == <<step, ask, read, answer, mayOverlap>>
partVars == <<partTables, partRequests>>

Part == {"labels", "assignees", "checklist", "comments", "dependencies", "dependents"}

Blank == [p \in Part |-> 0]

Unread == [c \in PartCard |-> [board |-> NoPartBoard, rev |-> 0]]

NoAnswer == [card |-> NoCard, rev |-> 0, parts |-> Blank, lost |-> {}]

PartsTypeOK ==
    /\ cardRow \in [PartCard -> [board : PartBoard \cup {NoPartBoard}, rev : Nat]]
    /\ \A c \in PartCard, p \in Part : stamp[c][p] \in 0..cardRow[c].rev
    /\ deps \subseteq {d \in PartCard \X PartCard : d[1] # d[2]}
    /\ items \in [Item -> [card : PartCard \cup {NoCard}, pos : Nat]]
    /\ comments \in [Comment -> [card : PartCard \cup {NoCard}, author : Person]]
    /\ \A e \in said : e.card \in PartCard /\ e.rev <= cardRow[e.card].rev
    /\ step \in [PartRequest -> {"idle", "read", "saved", "row", "done"}]

PartsInit ==
    /\ cardRow \in [PartCard -> [board : PartBoard, rev : {0}]]
    /\ stamp = [c \in PartCard |-> Blank]
    /\ deps \in {{}} \cup {{d} : d \in {d \in PartCard \X PartCard : d[1] # d[2]}}
    /\ \E i \in Item, c \in PartCard, p \in {0, 1} :
         items = [j \in Item |-> IF j = i THEN [card |-> c, pos |-> p]
                                         ELSE [card |-> NoCard, pos |-> 0]]
    /\ \E k \in Comment, c \in PartCard, p \in Person :
         comments = [j \in Comment |-> [card |-> IF j = k THEN c ELSE NoCard, author |-> p]]
    /\ said = {}
    /\ step = [r \in PartRequest |-> "idle"]
    /\ ask = [r \in PartRequest |-> [kind |-> "none"]]
    /\ read = [r \in PartRequest |-> Unread]
    /\ answer = [r \in PartRequest |-> NoAnswer]
    /\ mayOverlap \in BOOLEAN

There(c) == cardRow[c].board # NoPartBoard

-----------------------------------------------------------------------------
(* The first query of every handler.  A request names the card it is about *)
(* first; the permission check before the handler took it on its board.    *)

Begin(r, a, next) ==
    /\ step[r] = "idle" /\ There(a.card)
    /\ mayOverlap \/ \A q \in PartRequest : step[q] \in {"idle", "done"}
    /\ step' = [step EXCEPT ![r] = next]
    /\ ask' = [ask EXCEPT ![r] = a]
    /\ read' = [read EXCEPT ![r] = cardRow]
    /\ UNCHANGED <<partTables, answer, mayOverlap>>

\* What the requests are: the handlers with their arguments.
Asks ==
    [kind : {"depend", "undepend"}, card : PartCard, on : PartCard]
    \cup [kind : {"label"}, card : PartCard, also : PartCard]
    \cup [kind : {"assign", "unassign", "delete"}, card : PartCard]
    \cup [kind : {"addItem"}, card : PartCard, item : Item, pos : 0..MaxItemPos]
    \cup [kind : {"updateItem", "removeItem"}, card : PartCard, item : Item]
    \cup [kind : {"comment"}, card : PartCard, comment : Comment, by : Person]
    \cup [kind : {"editComment", "deleteComment"}, card : PartCard, comment : Comment, by : Person]
    \cup [kind : {"move"}, card : PartCard, to : PartBoard]

\* Variant: a card may depend on itself.
Accepted_OnItself(a) == a.kind \in {"depend", "undepend"} /\ There(a.on)

\* The checks that a handler makes on what it read.
Accepted(a) ==
    CASE a.kind \in {"depend", "undepend"} -> a.card # a.on /\ There(a.on)
      [] a.kind = "label"   -> cardRow[a.also].board = cardRow[a.card].board
      [] a.kind = "addItem" -> items[a.item].card = NoCard   \* Id::new()
      [] a.kind = "comment" -> comments[a.comment].card = NoCard
      [] OTHER              -> TRUE

BeginWrite(r) == \E a \in Asks : Accepted(a) /\ Begin(r, a, "read")

\* GetCard, BatchGetCards: nothing is written before the fetch.
BeginGet(r) == \E c \in PartCard : Begin(r, [kind |-> "get", card |-> c], "saved")

-----------------------------------------------------------------------------
(* The transactions.                                                       *)

Ready(r, kind) == step[r] = "read" /\ ask[r].kind = kind /\ There(ask[r].card)

Said(r, c, part, prev) ==
    [card |-> c, part |-> part, board |-> read[r][c].board, home |-> cardRow[c].board,
     prev |-> prev, rev |-> cardRow[c].rev + 1, change |-> TRUE]

\* Variant: the new revision is computed from the one that was read.
Announce_FromRead(r, parts) ==
    {[Said(r, c, parts[c], read[r][c].rev) EXCEPT !.rev = read[r][c].rev + 1] : c \in DOMAIN parts}

\* Variant: prev_revision is taken from the row when it is updated.
Announce_PrevAtUpdate(r, parts) ==
    {Said(r, c, parts[c], cardRow[c].rev) : c \in DOMAIN parts}

\* Variant: the second card of a dependency is announced on the board of the first.
Announce_OneBoard(r, parts) ==
    {[Said(r, c, parts[c], read[r][c].rev) EXCEPT !.board = read[r][ask[r].card].board]
       : c \in DOMAIN parts}

\* CardUpdated for each card, on the board that was read, with the revision
\* that was read and the one that UPDATE ... RETURNING gives.
Announce(r, parts) == {Said(r, c, parts[c], read[r][c].rev) : c \in DOMAIN parts}

\* UPDATE cards SET revision = revision + 1 for each card of which a part
\* changes, and the events, in one transaction.
Save(r, parts, events) ==
    /\ cardRow' = [c \in PartCard |-> IF c \in DOMAIN parts THEN [cardRow[c] EXCEPT !.rev = @ + 1]
                                                      ELSE cardRow[c]]
    /\ stamp' = [c \in PartCard |->
                   IF c \in DOMAIN parts THEN [stamp[c] EXCEPT ![parts[c]] = cardRow[c].rev + 1]
                                         ELSE stamp[c]]
    /\ said' = said \cup events

Answered(r) ==
    /\ step' = [step EXCEPT ![r] = "done"]
    /\ ask' = [ask EXCEPT ![r] = [kind |-> "none"]]
    /\ read' = [read EXCEPT ![r] = Unread]

\* With the card, once it is fetched, or with what is known already.
ThenFetch(r) == step' = [step EXCEPT ![r] = "saved"] /\ UNCHANGED <<ask, read, answer, mayOverlap>>

ThenAnswer(r) == Answered(r) /\ UNCHANGED <<answer, mayOverlap>>

\* The same part of each of the cards.
Each(cards, part) == [c \in cards |-> part]

BothEnds(a) == [c \in {a.card, a.on} |-> IF c = a.card THEN "dependencies" ELSE "dependents"]

AddCardDependency(r) ==
    LET a == ask[r]
    IN  /\ Ready(r, "depend") /\ There(a.on)
        /\ deps' = deps \cup {<<a.card, a.on>>}
        /\ Save(r, BothEnds(a), Announce(r, BothEnds(a)))
        /\ ThenFetch(r)
        /\ UNCHANGED <<items, comments>>

\* Only a row that was there changes the cards; the event on the board of the
\* first card is written in either case.
RemoveCardDependency(r) ==
    LET a == ask[r]
        nothing == [Said(r, a.card, "dependencies", read[r][a.card].rev)
                       EXCEPT !.rev = read[r][a.card].rev, !.change = FALSE]
    IN  /\ Ready(r, "undepend")
        /\ deps' = deps \ {<<a.card, a.on>>}
        /\ \/ <<a.card, a.on>> \in deps /\ Save(r, BothEnds(a), Announce(r, BothEnds(a)))
           \/ <<a.card, a.on>> \notin deps
              /\ said' = said \cup {nothing}
              /\ UNCHANGED <<cardRow, stamp>>
        /\ ThenFetch(r)
        /\ UNCHANGED <<items, comments>>

\* All cards or none; the event has no prev_revision.
BulkUpdateCardLabels(r) ==
    LET cards == {ask[r].card, ask[r].also}
    IN  /\ Ready(r, "label") /\ \A c \in cards : There(c)
        /\ Save(r, Each(cards, "labels"), {Said(r, c, "labels", -1) : c \in cards})
        /\ ThenFetch(r)
        /\ UNCHANGED <<deps, items, comments>>

SavePart(r, part) == Save(r, Each({ask[r].card}, part), Announce(r, Each({ask[r].card}, part)))

\* AssignCard inserts a row unless it is there, UnassignCard deletes it if it is:
\* the revision grows in every case.
AssignOrUnassign(r) ==
    /\ Ready(r, "assign") \/ Ready(r, "unassign")
    /\ SavePart(r, "assignees")
    /\ ThenFetch(r)
    /\ UNCHANGED <<deps, items, comments>>

Checklist(c) == {i \in Item : items[i].card = c}

\* COALESCE(MAX(position), -1) + 1
NextItemPos(c) ==
    CHOOSE n \in {0} \cup {items[i].pos + 1 : i \in Checklist(c)} :
        \A i \in Checklist(c) : items[i].pos < n

\* Variant: the item at the requested position keeps its place.
Inserted_Beyond(c, new, p) ==
    [i \in Item |->
        IF i = new THEN [card |-> c, pos |-> p]
        ELSE IF items[i].card = c /\ items[i].pos > p THEN [items[i] EXCEPT !.pos = @ + 1]
        ELSE items[i]]

\* Items at or beyond the requested position make room.
InsertedItem(c, new, p) ==
    [i \in Item |->
        IF i = new THEN [card |-> c, pos |-> p]
        ELSE IF items[i].card = c /\ items[i].pos >= p THEN [items[i] EXCEPT !.pos = @ + 1]
        ELSE items[i]]

\* Position 0 appends.
AddChecklistItem(r) ==
    LET a == ask[r]
    IN  /\ Ready(r, "addItem") /\ items[a.item].card = NoCard
        /\ items' = IF a.pos = 0
                    THEN [items EXCEPT ![a.item] = [card |-> a.card, pos |-> NextItemPos(a.card)]]
                    ELSE InsertedItem(a.card, a.item, a.pos)
        /\ SavePart(r, "checklist")
        /\ ThenFetch(r)
        /\ UNCHANGED <<deps, comments>>

UpdateChecklistItem(r) ==
    /\ Ready(r, "updateItem") /\ ask[r].item \in Checklist(ask[r].card)
    /\ SavePart(r, "checklist")
    /\ ThenFetch(r)
    /\ UNCHANGED <<deps, items, comments>>

\* The items behind it keep their positions; there is no fetch.
RemoveChecklistItem(r) ==
    /\ Ready(r, "removeItem") /\ ask[r].item \in Checklist(ask[r].card)
    /\ items' = [items EXCEPT ![ask[r].item] = [card |-> NoCard, pos |-> 0]]
    /\ SavePart(r, "checklist")
    /\ ThenAnswer(r)
    /\ UNCHANGED <<deps, comments>>

AddComment(r) ==
    /\ Ready(r, "comment") /\ comments[ask[r].comment].card = NoCard
    /\ comments' = [comments EXCEPT ![ask[r].comment] = [card |-> ask[r].card, author |-> ask[r].by]]
    /\ SavePart(r, "comments")
    /\ ThenAnswer(r)
    /\ UNCHANGED <<deps, items>>

\* "comment not found or not authored by you"
EditComment(r) ==
    /\ Ready(r, "editComment")
    /\ comments[ask[r].comment] = [card |-> ask[r].card, author |-> ask[r].by]
    /\ SavePart(r, "comments")
    /\ ThenAnswer(r)
    /\ UNCHANGED <<deps, items, comments>>

\* The author, or else whoever may edit the card.
DeleteComment(r) ==
    /\ Ready(r, "deleteComment") /\ comments[ask[r].comment].card = ask[r].card
    /\ comments' = [comments EXCEPT ![ask[r].comment].card = NoCard]
    /\ SavePart(r, "comments")
    /\ ThenAnswer(r)
    /\ UNCHANGED <<deps, items>>

\* MoveCard to a column of another board, as far as the parts are concerned.
MoveToBoard(r) ==
    LET c == ask[r].card
    IN  /\ Ready(r, "move")
        /\ cardRow' = [cardRow EXCEPT ![c] = [board |-> ask[r].to, rev |-> @.rev + 1]]
        /\ said' = said \cup {Said(r, c, "none", read[r][c].rev)}
        /\ ThenFetch(r)
        /\ UNCHANGED <<stamp, deps, items, comments>>

\* DeleteCard: every part goes with the card by ON DELETE CASCADE.
DeleteWithParts(r) ==
    LET c == ask[r].card
    IN  /\ Ready(r, "delete")
        /\ cardRow' = [cardRow EXCEPT ![c].board = NoPartBoard]
        /\ stamp' = [stamp EXCEPT ![c] = Blank]
        /\ deps' = {d \in deps : c \notin {d[1], d[2]}}
        /\ items' = [i \in Item |-> IF items[i].card = c THEN [card |-> NoCard, pos |-> 0] ELSE items[i]]
        /\ comments' = [k \in Comment |-> IF comments[k].card = c THEN [comments[k] EXCEPT !.card = NoCard]
                                                                   ELSE comments[k]]
        /\ ThenAnswer(r)
        /\ UNCHANGED said

\* A statement finds no row, or the handler is dropped: the transaction rolls
\* back.
Rollback(r) ==
    /\ step[r] = "read"
    /\ ThenAnswer(r)
    /\ UNCHANGED partTables

-----------------------------------------------------------------------------
(* fetch_full_card, for the reply and for GetCard.                         *)

\* The row; NotFound when it is gone.
FetchRow(r) ==
    LET c == ask[r].card
    IN  /\ step[r] = "saved"
        /\ IF There(c)
           THEN /\ step' = [step EXCEPT ![r] = "row"]
                /\ answer' = [answer EXCEPT ![r] = [NoAnswer EXCEPT !.card = c, !.rev = cardRow[c].rev]]
                /\ UNCHANGED <<ask, read>>
           ELSE Answered(r) /\ UNCHANGED answer
        /\ UNCHANGED <<partTables, mayOverlap>>

\* Variant: the parts are the ones that were there when the card was read first.
FetchParts_BeforeRow(r) ==
    /\ step[r] = "row"
    /\ Answered(r)
    /\ answer' = [answer EXCEPT ![r].parts =
                    [p \in Part |-> IF stamp[ask[r].card][p] > read[r][ask[r].card].rev
                                    THEN 0 ELSE stamp[ask[r].card][p]]]
    /\ UNCHANGED <<partTables, mayOverlap>>

\* The parts, one query each; a query that fails leaves its part empty.  Here
\* they are read together: what matters is that each is read after the row.
FetchParts(r) ==
    /\ step[r] = "row"
    /\ \E lost \in {{}, Part} :
         answer' = [answer EXCEPT ![r].lost = lost, ![r].parts =
                      [p \in Part |-> IF p \in lost THEN 0 ELSE stamp[ask[r].card][p]]]
    /\ Answered(r)
    /\ UNCHANGED <<partTables, mayOverlap>>

-----------------------------------------------------------------------------
PartsHandle(r) ==
    \/ BeginWrite(r) \/ BeginGet(r)
    \/ AddCardDependency(r) \/ RemoveCardDependency(r)
    \/ BulkUpdateCardLabels(r) \/ AssignOrUnassign(r)
    \/ AddChecklistItem(r) \/ UpdateChecklistItem(r) \/ RemoveChecklistItem(r)
    \/ AddComment(r) \/ EditComment(r) \/ DeleteComment(r)
    \/ MoveToBoard(r) \/ DeleteWithParts(r) \/ Rollback(r)
    \/ FetchRow(r) \/ FetchParts(r)

PartsNext == \E r \in PartRequest : PartsHandle(r)

PartsSpec == PartsInit /\ [][PartsNext]_partVars

-----------------------------------------------------------------------------
(* Properties.                                                             *)

\* Whatever part changes, and however requests overlap, the events of a card
\* report each of its revisions once: a client can tell from the revisions
\* whether it has seen everything.
RevisionsAnnouncedOnce ==
    \A c \in PartCard :
        LET events == {e \in said : e.card = c /\ e.change}
        IN  /\ {e.rev : e \in events} = 1..cardRow[c].rev
            /\ Cardinality(events) = cardRow[c].rev

\* An event goes to a board the card has left only if the handler read the card
\* before the move; its revisions then have a gap, so its reader can tell.
StrayEventShowsGap ==
    \A e \in said :
        (e.change /\ e.board # e.home /\ e.prev # -1) => e.rev > e.prev + 1

\* Requests one after the other tell the board where the card is.
ToldAtHome == ~mayOverlap => \A e \in said : e.board = e.home

\* A reply shows every part at least as new as the revision it reports, unless
\* the query for that part failed or the card is gone: a client that keeps the
\* revision never keeps an older part with it.
ReplyHasItsParts ==
    \A r \in PartRequest, e \in said :
        LET a == answer[r]
        IN  (step[r] = "done" /\ a.card = e.card /\ e.change /\ e.part \in Part \ a.lost
               /\ e.rev <= a.rev /\ There(a.card))
              => a.parts[e.part] >= e.rev

\* Requests one after the other leave the items of a checklist at distinct
\* positions.
ChecklistOrdered ==
    ~mayOverlap =>
        \A i, j \in Item :
            (i # j /\ items[i].card = items[j].card /\ items[i].card # NoCard)
                => items[i].pos # items[j].pos

\* Changes of parts are announced once and where the card is, a reply is whole, and a
\* checklist is in order; what overlapping requests spoil shows in the revisions.
PartsAreTold ==
    /\ RevisionsAnnouncedOnce /\ StrayEventShowsGap /\ ToldAtHome
    /\ ReplyHasItsParts /\ ChecklistOrdered
=============================================================================
