----------------------------- MODULE BoardLayout -----------------------------
(***************************************************************************)
(* Where columns stand on a board and cards in a column: the requests of   *)
(* the board service that add, move, mark and remove columns and create    *)
(* and delete boards (src/src/services/boards.rs), and those of the card   *)
(* service that create, move, transfer and delete cards (cards.rs).        *)
(*                                                                         *)
(* Positions are numbers in a row that no constraint keeps distinct: each  *)
(* request shifts those of the others.  MoveCard uses the position it read *)
(* before its transaction, AddColumn and MoveColumn the positions at the   *)
(* start of theirs, CreateCard and TransferCard those they see under the   *)
(* advisory lock of the project that the reference needs anyway.           *)
(*                                                                         *)
(* What a transaction writes appears when it commits, as one step: its     *)
(* statements hold the rows they changed until then.  The queries before a *)
(* transaction are one step too.                                           *)
(***************************************************************************)
EXTENDS Integers, FiniteSets, FiniteSetsExt

CONSTANTS
    LayBoard, LayColumn, LayCard,
    LayRequest,    \* bound: the requests ever made, one at a time
    LayRaces,      \* bound: how many of them are made when requests may overlap
    LayMaxPos,     \* bound: the positions a request asks for
    Gone           \* where a row is that does not exist

ASSUME LayAssumption == Gone \notin LayBoard \cup LayColumn

VARIABLES
    layBoards,     \* boards: those that exist
    layMade,       \* ids given so far to boards, columns and cards: Id::new()
    oneProject,    \* whether the boards are in one project, or each in its own
    layColumns,    \* columns: board, position, is_done
    layCards,      \* cards: board_id, column_id, position, completed_at set or not
    layStep,       \* where a request stands
    layAsk,        \* what it asks for
    layRead,       \* what it has read or computed
    toggled,       \* whether UpdateColumn ever changed is_done
    mode           \* "serial": one request at a time; "unmoved": no MoveCard; "any"

layTables == <<layBoards, layMade, oneProject, layColumns, layCards, toggled, mode>>
layVars == <<layTables, layStep, layAsk, layRead>>

NoLayColumn == [board |-> Gone, pos |-> 0, done |-> FALSE]
NoLayCard == [board |-> Gone, col |-> Gone, pos |-> 0, completed |-> FALSE]
Nothing == [kind |-> "none"]

LayTypeOK ==
    /\ layColumns \in [LayColumn -> [board : LayBoard \cup {Gone}, pos : Nat, done : BOOLEAN]]
    /\ layCards \in [LayCard -> [board : LayBoard \cup {Gone}, col : LayColumn \cup {Gone},
                                 pos : Nat, completed : BOOLEAN]]
    /\ layStep \in [LayRequest -> {"idle", "read", "placed", "done"}]

\* A board with a column of two cards, and another board with one column.
LayInit ==
    /\ oneProject \in BOOLEAN
    /\ \E full, other \in LayColumn, home \in LayBoard, away \in LayBoard, a, b \in LayCard :
         /\ full # other /\ home # away /\ a # b
         /\ layBoards = {home, away}
         /\ layMade = {home, away, full, other, a, b}
         /\ \E doneHere, doneThere \in BOOLEAN :
              /\ layColumns = [k \in LayColumn |->
                    CASE k = full  -> [board |-> home, pos |-> 0, done |-> doneHere]
                      [] k = other -> [board |-> away, pos |-> 0, done |-> doneThere]
                      [] OTHER     -> NoLayColumn]
              /\ layCards = [c \in LayCard |->
                    IF c \in {a, b} THEN [board |-> home, col |-> full, completed |-> doneHere,
                                          pos |-> IF c = a THEN 0 ELSE 1]
                                    ELSE NoLayCard]
    /\ layStep = [r \in LayRequest |-> "idle"]
    /\ layAsk = [r \in LayRequest |-> Nothing]
    /\ layRead = [r \in LayRequest |-> Nothing]
    /\ toggled = FALSE
    /\ mode \in {"serial", "unmoved", "any"}

Cards(k) == {c \in LayCard : layCards[c].col = k}
Columns(b) == {k \in LayColumn : layColumns[k].board = b}
ColumnThere(k) == layColumns[k].board # Gone

\* COALESCE(MAX(position), -1) + 1
NextCardPos(k) == Max({layCards[c].pos : c \in Cards(k)} \cup {-1}) + 1
NextColumnPos(b) == Max({layColumns[k].pos : k \in Columns(b)} \cup {-1}) + 1

\* The positions of rows after UPDATE ... SET position = position + by.
Shift(row, by) == [row EXCEPT !.pos = @ + by]

-----------------------------------------------------------------------------
Begins(r) ==
    /\ layStep[r] = "idle"
    /\ \/ mode = "serial" /\ \A q \in LayRequest : layStep[q] \in {"idle", "done"}
       \/ mode # "serial" /\ Cardinality({q \in LayRequest : layStep[q] # "idle"}) < LayRaces

Starts(r, ask, read) ==
    /\ Begins(r)
    /\ layStep' = [layStep EXCEPT ![r] = "read"]
    /\ layAsk' = [layAsk EXCEPT ![r] = ask]
    /\ layRead' = [layRead EXCEPT ![r] = read]
    /\ UNCHANGED layTables

Ends(r) ==
    /\ layStep' = [layStep EXCEPT ![r] = "done"]
    /\ layAsk' = [layAsk EXCEPT ![r] = Nothing]
    /\ layRead' = [layRead EXCEPT ![r] = Nothing]

\* A request that reads nothing it uses later.
AtOnce(r) == Begins(r) /\ Ends(r)

\* A row it needs is gone (NotFound, a foreign key), or the handler is dropped.
LayRollback(r) ==
    /\ layStep[r] \in {"read", "placed"}
    /\ Ends(r)
    /\ UNCHANGED layTables

-----------------------------------------------------------------------------
(* Cards.                                                                  *)

SameProject(b, d) == oneProject \/ b = d

\* CreateCard reads the column, MoveCard and TransferCard the card and both
\* columns.
BeginCreateCard(r) ==
    \E c \in LayCard, k \in LayColumn, p \in 0..LayMaxPos :
        /\ c \notin layMade /\ ColumnThere(k)
        /\ Starts(r, [kind |-> "create", card |-> c, col |-> k, pos |-> p],
                     [board |-> layColumns[k].board, toDone |-> layColumns[k].done, pos |-> p])

ReadOfMove(c, k) ==
    [board |-> layColumns[k].board, from |-> layCards[c].col, fromPos |-> layCards[c].pos,
     fromDone |-> layColumns[layCards[c].col].done, toDone |-> layColumns[k].done, pos |-> 0]

BeginMoveCard(r) ==
    \E c \in LayCard, k \in LayColumn, p \in 0..LayMaxPos :
        /\ mode # "unmoved"
        /\ layCards[c] # NoLayCard /\ ColumnThere(k)
        /\ SameProject(layCards[c].board, layColumns[k].board)
        /\ Starts(r, [kind |-> "move", card |-> c, col |-> k, pos |-> p], ReadOfMove(c, k))

BeginTransferCard(r) ==
    \E c \in LayCard, k \in LayColumn :
        /\ layCards[c] # NoLayCard /\ ColumnThere(k)
        /\ ~SameProject(layCards[c].board, layColumns[k].board)
        /\ Starts(r, [kind |-> "transfer", card |-> c, col |-> k], ReadOfMove(c, k))

Placing(r) == layStep[r] = "placed" /\ layAsk[r].kind \in {"create", "transfer"}

\* Variant: no advisory lock is taken.
ProjectLockFree_None(r) == TRUE

\* pg_advisory_xact_lock(hashtext(project_id)), of the project of the target.
ProjectLockFree(r) ==
    \A q \in LayRequest : Placing(q) => ~SameProject(layRead[q].board, layRead[r].board)

\* allocate_card_ref takes the lock, and only then the last position is read.
PlaceCard(r) ==
    /\ layStep[r] = "read" /\ layAsk[r].kind \in {"create", "transfer"}
    /\ ProjectLockFree(r)
    /\ layStep' = [layStep EXCEPT ![r] = "placed"]
    /\ layRead' = IF layRead[r].pos = 0
                  THEN [layRead EXCEPT ![r].pos = NextCardPos(layAsk[r].col)] ELSE layRead
    /\ UNCHANGED <<layTables, layAsk>>

\* A requested position is made free in the same transaction.
CreateCard(r) ==
    LET a == layAsk[r] p == layRead[r].pos
    IN  /\ layStep[r] = "placed" /\ a.kind = "create" /\ ColumnThere(a.col)
        /\ a.card \notin layMade
        /\ layMade' = layMade \cup {a.card}
        /\ layCards' = [c \in LayCard |->
              IF c = a.card THEN [board |-> layRead[r].board, col |-> a.col, pos |-> p,
                                  completed |-> layRead[r].toDone]
              ELSE IF a.pos > 0 /\ c \in Cards(a.col) /\ layCards[c].pos >= p
                   THEN Shift(layCards[c], 1)
              ELSE layCards[c]]
        /\ Ends(r)
        /\ UNCHANGED <<layBoards, oneProject, layColumns, toggled, mode>>

\* Variant: completed_at is not cleared on the way out of a done column.
Completed_Kept(c, read) == read.toDone \/ layCards[c].completed

\* Set on the way into a done column, cleared on the way out of one.
Completed(c, read) ==
    IF read.toDone THEN TRUE ELSE IF read.fromDone THEN FALSE ELSE layCards[c].completed

\* Variant: a forward move closes the gap from the card's own position on.
ShiftOfMove_Inclusive(c, read, to, p) ==
    IF c \in Cards(to) /\ layCards[c].pos \in read.fromPos..(p - 1) THEN -1 ELSE 0

\* Variant: the cards above the one that moves go up as well.
ShiftOfMove_Unbounded(c, read, to, p) ==
    IF c \in Cards(to) /\ layCards[c].pos <= p THEN -1 ELSE 0

\* What MoveCard adds to the position of another card.
ShiftOfMove(c, read, to, p) ==
    LET pos == layCards[c].pos
    IN  IF read.from = to
        THEN CASE c \in Cards(to) /\ read.fromPos < pos /\ pos <= p -> -1
               [] c \in Cards(to) /\ p <= pos /\ pos < read.fromPos -> 1
               [] OTHER -> 0
        ELSE CASE c \in Cards(read.from) /\ pos > read.fromPos -> -1
               [] c \in Cards(to) /\ pos >= p -> 1
               [] OTHER -> 0

\* Variant: the card keeps its board_id in a column of another board.
Rehomed_Column(c, read, to, p) ==
    [layCards[c] EXCEPT !.col = to, !.pos = p, !.completed = Completed(c, read)]

Rehomed(c, read, to, p) ==
    [board |-> read.board, col |-> to, pos |-> p, completed |-> Completed(c, read)]

\* The column and position the card had when it was read; the card may have
\* moved since.
MoveCard(r) ==
    LET a == layAsk[r] read == layRead[r]
    IN  /\ layStep[r] = "read" /\ a.kind = "move"
        /\ layCards[a.card] # NoLayCard /\ ColumnThere(a.col)
        /\ layCards' = [c \in LayCard |->
              IF c = a.card THEN Rehomed(c, read, a.col, a.pos)
              ELSE Shift(layCards[c], ShiftOfMove(c, read, a.col, a.pos))]
        /\ Ends(r)
        /\ UNCHANGED <<layMade, layBoards, oneProject, layColumns, toggled, mode>>

\* At the end of the target column; the source column keeps its gap.
TransferCard(r) ==
    LET a == layAsk[r]
    IN  /\ layStep[r] = "placed" /\ a.kind = "transfer"
        /\ layCards[a.card] # NoLayCard /\ ColumnThere(a.col)
        /\ layCards' = [layCards EXCEPT ![a.card] = Rehomed(a.card, layRead[r], a.col, layRead[r].pos)]
        /\ Ends(r)
        /\ UNCHANGED <<layMade, layBoards, oneProject, layColumns, toggled, mode>>

\* The gap stays.
DeleteCard(r) ==
    /\ AtOnce(r)
    /\ \E c \in LayCard : layCards[c] # NoLayCard /\ layCards' = [layCards EXCEPT ![c] = NoLayCard]
    /\ UNCHANGED <<layMade, layBoards, oneProject, layColumns, toggled, mode>>

-----------------------------------------------------------------------------
(* Columns.                                                                *)

\* Position 0 appends: INSERT ... SELECT MAX(position) + 1 reads it before the
\* event waits for the row of the board.
BeginAddColumn(r) ==
    \E k \in LayColumn, b \in layBoards, p \in 0..LayMaxPos, done \in BOOLEAN :
        /\ k \notin layMade
        /\ Starts(r, [kind |-> "addColumn", col |-> k, board |-> b, pos |-> p, done |-> done],
                     [pos |-> IF p = 0 THEN NextColumnPos(b) ELSE p])

\* Variant: the column at the requested position is not shifted.
AddedColumn_Beyond(a, p) ==
    [k \in LayColumn |->
        IF k = a.col THEN [board |-> a.board, pos |-> p, done |-> a.done]
        ELSE IF a.pos > 0 /\ k \in Columns(a.board) /\ layColumns[k].pos > p
             THEN Shift(layColumns[k], 1)
        ELSE layColumns[k]]

AddedColumn(a, p) ==
    [k \in LayColumn |->
        IF k = a.col THEN [board |-> a.board, pos |-> p, done |-> a.done]
        ELSE IF a.pos > 0 /\ k \in Columns(a.board) /\ layColumns[k].pos >= p
             THEN Shift(layColumns[k], 1)
        ELSE layColumns[k]]

AddColumn(r) ==
    LET a == layAsk[r]
    IN  /\ layStep[r] = "read" /\ a.kind = "addColumn"
        /\ a.board \in layBoards /\ a.col \notin layMade
        /\ layMade' = layMade \cup {a.col}
        /\ layColumns' = AddedColumn(a, layRead[r].pos)
        /\ Ends(r)
        /\ UNCHANGED <<layBoards, oneProject, layCards, toggled, mode>>

BeginMoveColumn(r) ==
    \E k \in LayColumn, p \in 0..LayMaxPos :
        /\ ColumnThere(k)
        /\ Starts(r, [kind |-> "moveColumn", col |-> k, pos |-> p], [pos |-> layColumns[k].pos])

\* The columns between the two positions shift towards the one it leaves.
MovedColumn(col, from, to) ==
    [k \in LayColumn |->
        LET pos == layColumns[k].pos
            peer == k # col /\ k \in Columns(layColumns[col].board)
        IN  CASE k = col -> [layColumns[k] EXCEPT !.pos = to]
              [] peer /\ from < pos /\ pos <= to -> Shift(layColumns[k], -1)
              [] peer /\ to <= pos /\ pos < from -> Shift(layColumns[k], 1)
              [] OTHER -> layColumns[k]]

\* Nothing is written but the event when the column is there already.
MoveColumn(r) ==
    LET a == layAsk[r]
    IN  /\ layStep[r] = "read" /\ a.kind = "moveColumn" /\ ColumnThere(a.col)
        /\ layColumns' = IF layRead[r].pos = a.pos THEN layColumns
                         ELSE MovedColumn(a.col, layRead[r].pos, a.pos)
        /\ Ends(r)
        /\ UNCHANGED <<layMade, layBoards, oneProject, layCards, toggled, mode>>

\* is_done named by the update mask; the cards in the column stay as they are.
UpdateColumn(r) ==
    /\ AtOnce(r)
    /\ \E k \in LayColumn : ColumnThere(k) /\ layColumns' = [layColumns EXCEPT ![k].done = ~@]
    /\ toggled' = TRUE
    /\ UNCHANGED <<layMade, layBoards, oneProject, layCards, mode>>

\* Cards go with their column, columns with their board: ON DELETE CASCADE.
WithoutColumns(gone) ==
    [c \in LayCard |-> IF layCards[c].col \in gone THEN NoLayCard ELSE layCards[c]]

\* The columns that stay are numbered anew: ROW_NUMBER() OVER (ORDER BY
\* position) - 1, columns at one position in any order.
RemoveColumn(r) ==
    \E k \in LayColumn :
        LET rest == Columns(layColumns[k].board) \ {k}
        IN  /\ AtOnce(r) /\ ColumnThere(k)
            /\ \E rank \in [rest -> 0..(Cardinality(rest) - 1)] :
                 /\ \A i, j \in rest :
                      /\ i # j => rank[i] # rank[j]
                      /\ layColumns[i].pos < layColumns[j].pos => rank[i] < rank[j]
                 /\ layColumns' = [i \in LayColumn |->
                        CASE i = k -> NoLayColumn
                          [] i \in rest -> [layColumns[i] EXCEPT !.pos = rank[i]]
                          [] OTHER -> layColumns[i]]
            /\ layCards' = WithoutColumns({k})
            /\ UNCHANGED <<layMade, layBoards, oneProject, toggled, mode>>

CreateBoard(r) ==
    /\ AtOnce(r)
    /\ \E b \in LayBoard \ layMade :
         layBoards' = layBoards \cup {b} /\ layMade' = layMade \cup {b}
    /\ UNCHANGED <<oneProject, layColumns, layCards, toggled, mode>>

DeleteBoard(r) ==
    \E b \in layBoards :
        /\ AtOnce(r)
        /\ layBoards' = layBoards \ {b}
        /\ layColumns' = [k \in LayColumn |-> IF k \in Columns(b) THEN NoLayColumn ELSE layColumns[k]]
        /\ layCards' = WithoutColumns(Columns(b))
        /\ UNCHANGED <<layMade, oneProject, toggled, mode>>

-----------------------------------------------------------------------------
LayHandle(r) ==
    \/ BeginCreateCard(r) \/ BeginMoveCard(r) \/ BeginTransferCard(r)
    \/ PlaceCard(r) \/ CreateCard(r) \/ MoveCard(r) \/ TransferCard(r) \/ DeleteCard(r)
    \/ BeginAddColumn(r) \/ AddColumn(r) \/ BeginMoveColumn(r) \/ MoveColumn(r)
    \/ UpdateColumn(r) \/ RemoveColumn(r) \/ CreateBoard(r) \/ DeleteBoard(r)
    \/ LayRollback(r)

LayNext == \E r \in LayRequest : LayHandle(r)

LaySpec == LayInit /\ [][LayNext]_layVars

-----------------------------------------------------------------------------
(* Properties.                                                             *)

CardsDistinct ==
    \A c, d \in LayCard :
        (c # d /\ layCards[c].col = layCards[d].col /\ layCards[c].col # Gone)
            => layCards[c].pos # layCards[d].pos

\* Requests one after the other, in any order and for any position, leave the
\* cards of a column at distinct positions: the shifts of CreateCard and
\* MoveCard and the gaps that TransferCard and DeleteCard leave fit together.
CardOrderTotal == mode = "serial" => CardsDistinct

\* Without MoveCard the advisory lock of the project keeps them distinct even
\* when requests overlap: two cards appended at once do not share a position.
AppendsDistinct == mode = "unmoved" => CardsDistinct

\* The columns of a board stand at distinct positions when requests do not
\* overlap.
ColumnOrderTotal ==
    mode = "serial" =>
        \A k, l \in LayColumn :
            (k # l /\ layColumns[k].board = layColumns[l].board /\ ColumnThere(k))
                => layColumns[k].pos # layColumns[l].pos

\* A card is in a column of its own board, however requests overlap: board_id,
\* which every listing and every permission is based on, follows column_id.
CardOnColumnsBoard ==
    \A c \in LayCard :
        layCards[c].col # Gone => layCards[c].board = layColumns[layCards[c].col].board

\* completed_at is set exactly on the cards of done columns, as long as no column
\* changed is_done under its cards: after that a card that moves between columns
\* that are not done keeps the mark.
CompletedInDoneColumn ==
    (mode = "serial" /\ ~toggled) =>
        \A c \in LayCard :
            layCards[c].col # Gone => (layCards[c].completed <=> layColumns[layCards[c].col].done)

\* A card is on the board of its column and completed if that column is a done one.
CardsFitTheirColumn == CardOnColumnsBoard /\ CompletedInDoneColumn

\* Cards and columns stand at positions of their own, unless requests overlap that the
\* lock of a project does not keep apart.
PositionsDistinct == CardOrderTotal /\ AppendsDistinct /\ ColumnOrderTotal

\* Where a card is, what it is marked as and at which position it and its column stand
\* agree, whatever requests on boards, columns and cards came before.
LayoutHolds == CardsFitTheirColumn /\ PositionsDistinct
=============================================================================
