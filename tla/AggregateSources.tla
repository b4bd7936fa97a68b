---------------------------- MODULE AggregateSources ----------------------------
(***************************************************************************)
(* The source boards of an aggregated board and their order (src/src/      *)
(* services/aggregated_boards.rs): AddSourceBoard, RemoveSourceBoard and   *)
(* MoveSourceBoard, and the deletion of a source board, which cascades.    *)
(*                                                                         *)
(* A request reads the order and then writes it back row by row, in one    *)
(* transaction without a lock: what commits in between is not in the order *)
(* it writes.                                                              *)
(*                                                                         *)
(* Abstracted: positions that a shift makes before the order is read are   *)
(* part of the read; rows of one position are read in any order.           *)
(***************************************************************************)
EXTENDS Integers, FiniteSets, SequencesExt

CONSTANTS
    SourceBoard,
    SourceRequests,  \* bound: the requests ever made
    MaxSourcePos     \* bound: the positions they ask for

ASSUME SourcesAssumption ==
    IsFiniteSet(SourceBoard) /\ SourceRequests \in Nat /\ MaxSourcePos \in Nat

\* The requests, in the order in which they begin.
SourceRequest == 1..SourceRequests
Nowhere == -1

VARIABLES
    place,       \* aggregated_board_sources: the position of each board, Nowhere without a row
    deleted,     \* the boards that were deleted
    srcStep,
    srcAsk,      \* what a request asks for
    srcOrder,    \* the order that it read, its own board included
    srcAlone,       \* ghost: the requests that nothing overlapped so far
    settled,     \* ghost: the last change was made by a request that was srcAlone
    promised     \* ghost: the board that it placed, and where it should stand

srcVars == <<place, deleted, srcStep, srcAsk, srcOrder, srcAlone, settled, promised>>

IndexOf(s, b) == CHOOSE i \in DOMAIN s : s[i] = b

Present == {b \in SourceBoard : place[b] # Nowhere}
NoPromise == [board |-> "none", at |-> 0, kind |-> "none", kept |-> FALSE]
NoSourceAsk == [kind |-> "none", board |-> "none", at |-> 0]

SourcesTypeOK ==
    /\ place \in [SourceBoard -> Nat \cup {Nowhere}]
    /\ deleted \subseteq SourceBoard \ Present
    /\ srcStep \in [SourceRequest -> {"idle", "counted", "read", "done"}]
    /\ \A r \in SourceRequest : IsInjective(srcOrder[r]) /\ ToSet(srcOrder[r]) \subseteq SourceBoard
    /\ srcAlone \subseteq SourceRequest /\ settled \in BOOLEAN

\* CreateAggregatedBoard inserts its boards with positions from 0.
SourcesInit ==
    /\ \E s \in {t \in SeqOf(SourceBoard, Cardinality(SourceBoard)) : IsInjective(t)} :
         place = [b \in SourceBoard |-> IF b \in ToSet(s) THEN IndexOf(s, b) - 1 ELSE Nowhere]
    /\ deleted = {}
    /\ srcStep = [r \in SourceRequest |-> "idle"]
    /\ srcAsk = [r \in SourceRequest |-> NoSourceAsk]
    /\ srcOrder = [r \in SourceRequest |-> << >>]
    /\ srcAlone = {} /\ settled = TRUE /\ promised = NoPromise

-----------------------------------------------------------------------------
\* ORDER BY position ASC: the boards in the orders that the query may return.
Orders(at, boards) ==
    {s \in [1..Cardinality(boards) -> boards] :
        IsInjective(s) /\ \A i, j \in DOMAIN s : i < j => at[s[i]] <= at[s[j]]}

Others(r) == {q \in SourceRequest \ {r} : srcStep[q] \in {"counted", "read"}}

SourceStarts(r) ==
    /\ srcStep[r] = "idle" /\ \A q \in 1..(r - 1) : srcStep[q] # "idle"
    /\ srcAlone' = IF Others(r) = {} THEN {r} ELSE {}

\* An addition that names no position counts the rows.
CountRows(r) ==
    /\ SourceStarts(r)
    /\ \E b \in SourceBoard \ deleted :
         srcAsk' = [srcAsk EXCEPT ![r] = [kind |-> "append", board |-> b, at |-> Cardinality(Present)]]
    /\ srcStep' = [srcStep EXCEPT ![r] = "counted"]
    /\ UNCHANGED <<place, deleted, srcOrder, settled, promised>>

\* Variant: the rows behind the position asked for move up, the one on it does not.
Shifted_Behind(n) == [b \in SourceBoard |-> IF place[b] > n THEN place[b] + 1 ELSE place[b]]

Shifted(n) == [b \in SourceBoard |-> IF place[b] >= n THEN place[b] + 1 ELSE place[b]]

\* to_position as usize: a negative one is a large one.
MovedTo(b, n, s) == InsertAt(s, 1 + (IF n < 0 \/ n > Len(s) THEN Len(s) ELSE n), b)

\* The rows with what the request changes before it reads the order.
Rows(a) ==
    CASE a.kind \in {"add", "append"} -> [Shifted(a.at) EXCEPT ![a.board] = a.at]
      [] a.kind = "remove" -> [place EXCEPT ![a.board] = Nowhere]
      [] a.kind = "move" -> place

\* The order that it will write: as the transaction sees it, and with the board
\* that moves at its new place.
NewOrders(a) ==
    IF a.kind # "move"
    THEN LET rows == Rows(a) IN Orders(rows, {b \in SourceBoard : rows[b] # Nowhere})
    ELSE {MovedTo(a.board, a.at, s) : s \in Orders(place, Present \ {a.board})}

Reads(r, a) ==
    /\ \E s \in NewOrders(a) : srcOrder' = [srcOrder EXCEPT ![r] = s]
    /\ srcStep' = [srcStep EXCEPT ![r] = "read"]
    /\ UNCHANGED <<place, deleted, settled, promised>>

ReadAfterCount(r) ==
    /\ srcStep[r] = "counted" /\ Reads(r, srcAsk[r])
    /\ UNCHANGED <<srcAsk, srcAlone>>

\* A move wants the board to be there; a removal does not.
StartReading(r) ==
    /\ SourceStarts(r)
    /\ \E a \in [kind : {"add"}, board : SourceBoard \ deleted, at : 1..MaxSourcePos]
              \cup [kind : {"remove"}, board : Present, at : {Nowhere}]
              \cup [kind : {"move"}, board : Present, at : Nowhere..MaxSourcePos] :
         Reads(r, a) /\ srcAsk' = [srcAsk EXCEPT ![r] = a]

\* Variant: the order is left as shift and removal made it.
Renumbered_Not(r, at) == at

\* The boards that were read get their places; a row that is
\* not there any more is not updated.
Renumbered(r, at) ==
    [b \in SourceBoard |->
        IF at[b] # Nowhere /\ b \in ToSet(srcOrder[r])
        THEN IndexOf(srcOrder[r], b) - 1 ELSE at[b]]

\* apply_source_order, and the commit.
Apply(r) ==
    LET a == srcAsk[r]
        n == Cardinality(Present \ {a.board})
    IN  /\ srcStep[r] = "read"
        /\ a.kind \in {"add", "append"} => a.board \notin deleted
        /\ place' = Renumbered(r, Rows(a))
        /\ settled' = (r \in srcAlone)
        /\ promised' = IF a.kind # "remove" /\ (a.kind = "move" \/ a.board \notin Present)
                       THEN [board |-> a.board, at |-> IF a.at < 0 \/ a.at > n THEN n ELSE a.at,
                             kind |-> a.kind, kept |-> a.kind = "move" \/ settled]
                       ELSE NoPromise
        /\ srcStep' = [srcStep EXCEPT ![r] = "done"]
        /\ srcOrder' = [srcOrder EXCEPT ![r] = << >>]
        /\ srcAsk' = [srcAsk EXCEPT ![r] = NoSourceAsk]
        /\ UNCHANGED <<srcAlone, deleted>>

\* An error, as of the foreign key for a board that is gone, a deadlock that the
\* database breaks, or a crash.
GiveUp(r) ==
    /\ srcStep[r] \in {"counted", "read"}
    /\ srcStep' = [srcStep EXCEPT ![r] = "done"]
    /\ srcOrder' = [srcOrder EXCEPT ![r] = << >>]
    /\ srcAsk' = [srcAsk EXCEPT ![r] = NoSourceAsk]
    /\ UNCHANGED <<place, deleted, srcAlone, settled, promised>>

\* Variant: the row of the board stays.
SourceDeleted_RowKept(b) ==
    /\ b \in Present \ deleted
    /\ deleted' = deleted \cup {b}
    /\ srcAlone' = {} /\ settled' = FALSE /\ promised' = NoPromise
    /\ UNCHANGED <<place, srcStep, srcAsk, srcOrder>>

\* A board of the tenant is deleted.  ON DELETE CASCADE: its row goes, the others
\* keep their positions.
SourceDeleted(b) ==
    /\ b \in Present
    /\ place' = [place EXCEPT ![b] = Nowhere]
    /\ deleted' = deleted \cup {b}
    /\ srcAlone' = {} /\ settled' = FALSE /\ promised' = NoPromise
    /\ UNCHANGED <<srcStep, srcAsk, srcOrder>>

SourcesNext ==
    \/ \E r \in SourceRequest : CountRows(r) \/ ReadAfterCount(r) \/ StartReading(r) \/ Apply(r) \/ GiveUp(r)
    \/ \E b \in SourceBoard : SourceDeleted(b)

SourcesSpec == SourcesInit /\ [][SourcesNext]_srcVars

-----------------------------------------------------------------------------
(* Properties.                                                             *)

\* Overlapping requests and deleted boards leave gaps and ties, but the next
\* request that runs srcAlone heals them: the positions are 0, 1, 2 again.
SourcesContiguous ==
    settled => {place[b] : b \in Present} = 0..(Cardinality(Present) - 1)

\* And the board it placed stands where the request asked, or last if that is
\* beyond the end: one that was moved always, one that was added if the positions
\* had no gaps before.
LandsWhereAsked ==
    (settled /\ promised.kept) => place[promised.board] = promised.at

\* The positions of the sources are their order, healed by each request that nothing
\* overlaps, whatever the others left.
SourcesAreInOrder == SourcesContiguous /\ LandsWhereAsked
=============================================================================
