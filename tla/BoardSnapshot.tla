--------------------------- MODULE BoardSnapshot ---------------------------
(***************************************************************************)
(* The content of a snapshot (read_board_snapshot in                       *)
(* src/src/services/boards.rs) while the board changes: MAX(nats_seq),     *)
(* the columns, the card ids of one column after the other and each card   *)
(* are separate queries.  Handlers commit between any two of them, each    *)
(* with its event_log row (src/src/services/cards.rs).                     *)
(*                                                                         *)
(* Abstracted: the board is where each card is; the columns are fixed; the *)
(* event stream is the sequence of commits on this board, and the boundary *)
(* is its length (BoardStream has the stream, its order and its delays).   *)
(***************************************************************************)
EXTENDS Integers, Sequences, FiniteSets

CONSTANTS
    Card,
    Columns,      \* the number of columns; the snapshot reads 1, 2, ...
    MaxEvents     \* bound: commits on the board that have an event

ASSUME SnapshotAssumption == Columns \in Nat \ {0} /\ MaxEvents \in Nat

Column == 1..Columns
Off == 0              \* not on this board
Place == Column \cup {Off}

VARIABLES
    col,        \* the column of each card, or Off
    elsewhere,  \* cards on another board of the project
    arrived,    \* history: cards whose last change here is a move from there
    snapLog,        \* the events of this board, in commit order
    reading,    \* 0 before, the column being read, Columns + 1 when done, -1 failed
    todo,       \* card ids of that column still to be fetched
    boundary,   \* events committed when MAX(nats_seq) was read
    snap        \* the column each card has in the snapshot, or Off

snapVars == <<col, elsewhere, arrived, snapLog, reading, todo, boundary, snap>>

SnapEvent == [kind : {"created", "moved", "deleted"}, card : Card]

SnapTypeOK ==
    /\ col \in [Card -> Place]
    /\ elsewhere \in SUBSET Card
    /\ arrived \in SUBSET Card
    /\ snapLog \in Seq(SnapEvent)
    /\ reading \in -1..(Columns + 1)
    /\ todo \in SUBSET Card
    /\ boundary \in 0..Len(snapLog)
    /\ snap \in [Card -> Place]

SnapInit ==
    /\ col \in [Card -> Place]
    /\ elsewhere \in SUBSET {c \in Card : col[c] = Off}
    /\ arrived = {}
    /\ snapLog = <<>>
    /\ reading = 0
    /\ todo = {}
    /\ boundary = 0
    /\ snap = [c \in Card |-> Off]

-----------------------------------------------------------------------------
(* Handlers: one transaction each.                                         *)

Insert(kind, c) ==
    /\ Len(snapLog) < MaxEvents
    /\ snapLog' = Append(snapLog, [kind |-> kind, card |-> c])

CreateCard(c, k) ==
    /\ col[c] = Off /\ c \notin elsewhere
    /\ col' = [col EXCEPT ![c] = k]
    /\ Insert("created", c)
    /\ UNCHANGED <<elsewhere, arrived, reading, todo, boundary, snap>>

MoveCard(c, k) ==
    /\ col[c] \in Column \ {k}
    /\ col' = [col EXCEPT ![c] = k]
    /\ arrived' = arrived \ {c}
    /\ Insert("moved", c)
    /\ UNCHANGED <<elsewhere, reading, todo, boundary, snap>>

\* MoveCard to a column of another board of the project: CardMoved is recorded
\* on the board the card leaves.
MoveAway(c) ==
    /\ col[c] \in Column
    /\ col' = [col EXCEPT ![c] = Off]
    /\ elsewhere' = elsewhere \cup {c}
    /\ arrived' = arrived \ {c}
    /\ Insert("moved", c)
    /\ UNCHANGED <<reading, todo, boundary, snap>>

\* The same, seen from the board the card moves to: no event here.
MoveHere(c, k) ==
    /\ c \in elsewhere
    /\ col' = [col EXCEPT ![c] = k]
    /\ elsewhere' = elsewhere \ {c}
    /\ arrived' = arrived \cup {c}
    /\ UNCHANGED <<snapLog, reading, todo, boundary, snap>>

DeleteCard(c) ==
    /\ col[c] \in Column
    /\ col' = [col EXCEPT ![c] = Off]
    /\ arrived' = arrived \ {c}
    /\ Insert("deleted", c)
    /\ UNCHANGED <<elsewhere, reading, todo, boundary, snap>>

-----------------------------------------------------------------------------
(* The snapshot.                                                           *)

In(k) == {c \in Card : col[c] = k}

\* Variant: the column loop does not stop after the last column.
FinishColumn_RunsOn ==
    /\ reading \in 1..(Columns + 1) /\ todo = {}
    /\ reading' = reading + 1
    /\ todo' = IF reading < Columns THEN In(reading + 1) ELSE {}
    /\ UNCHANGED <<col, elsewhere, arrived, snapLog, boundary, snap>>

\* Variant: the boundary is the last event at the end of the read.
FinishColumn_LateBoundary ==
    /\ reading \in Column /\ todo = {}
    /\ reading' = reading + 1
    /\ todo' = IF reading < Columns THEN In(reading + 1) ELSE {}
    /\ boundary' = Len(snapLog)
    /\ UNCHANGED <<col, elsewhere, arrived, snapLog, snap>>

\* MAX(nats_seq), then the column list.
ReadBoundary ==
    /\ reading = 0
    /\ boundary' = Len(snapLog)
    /\ reading' = 1
    /\ todo' = In(1)
    /\ UNCHANGED <<col, elsewhere, arrived, snapLog, snap>>

\* fetch_full_card: the card as it is now, in whatever column it is by then;
\* a card that is gone fails the whole snapshot and ends the stream.  A card
\* that moved to another board is sent with a column of that board.
FetchCard(c) ==
    /\ reading \in Column /\ c \in todo
    /\ IF col[c] = Off /\ c \notin elsewhere
       THEN reading' = -1 /\ todo' = {} /\ UNCHANGED snap
       ELSE todo' = todo \ {c} /\ snap' = [snap EXCEPT ![c] = col[c]] /\ UNCHANGED reading
    /\ UNCHANGED <<col, elsewhere, arrived, snapLog, boundary>>

\* The ids of the next column.
FinishColumn ==
    /\ reading \in Column /\ todo = {}
    /\ reading' = reading + 1
    /\ todo' = IF reading < Columns THEN In(reading + 1) ELSE {}
    /\ UNCHANGED <<col, elsewhere, arrived, snapLog, boundary, snap>>

SnapNext ==
    \/ \E c \in Card : MoveAway(c) \/ DeleteCard(c) \/ FetchCard(c)
    \/ \E c \in Card, k \in Column : CreateCard(c, k) \/ MoveCard(c, k) \/ MoveHere(c, k)
    \/ ReadBoundary \/ FinishColumn

SnapSpec == SnapInit /\ [][SnapNext]_snapVars

-----------------------------------------------------------------------------
(* Properties.                                                             *)

Done == reading = Columns + 1

Announced(c) == \E i \in DOMAIN snapLog : i > boundary /\ snapLog[i].card = c

\* read_board_snapshot: a mutation committed after MAX(nats_seq) was read "is
\* either inside the snapshot [...] or reaches the live tail".  Where the
\* snapshot and the board disagree about a card, the live tail still has an
\* event about it: snapshot and tail together miss nothing except the arrival
\* of a card from another board, which is announced on that board only.
MissesOnlyArrivals ==
    Done => \A c \in Card \ arrived : snap[c] # col[c] => Announced(c)
=============================================================================
