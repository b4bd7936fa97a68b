--------------------------------- MODULE Paging ---------------------------------
(***************************************************************************)
(* Listings in pages: ListCardsByBoard and ListComments (src/src/services/ *)
(* cards.rs), read by a client that passes on the cursor of every page,    *)
(* while others add, move and delete rows.                                 *)
(*                                                                         *)
(* A query asks for one row more than the page takes, to know whether more *)
(* follow; the cursor is the id of the last row taken.  For cards the next *)
(* query looks that row up again and goes on behind its place; comments    *)
(* are filtered by id and ordered by their time.                           *)
(*                                                                         *)
(* Abstracted: the listed rows are a sequence in the order of the query,   *)
(* which a shift of positions leaves alone; a filter by column is another  *)
(* sequence of the same kind.                                              *)
(***************************************************************************)
EXTENDS Integers, Sequences, FiniteSets

CONSTANTS
    PagedRows,     \* bound: rows, there or (the last) yet to come
    PageLimit,     \* rows on a page
    PageChanges    \* bound: changes during the listing

ASSUME PagingAssumption == PagedRows \in Nat \ {0} /\ PageLimit \in Nat \ {0} /\ PageChanges \in Nat

PageRow == 1..PagedRows
NoCursor == 0

VARIABLES
    listing,     \* "cards" or "comments"
    idOf,        \* the order of the ids
    order,       \* the rows of the query in its order
    away,        \* cards of another board now
    cursor,
    pages,       \* rows that the client got, in order
    ended,       \* the last page had no cursor
    touched,     \* ghost: rows that came, moved or went
    upset,       \* ghost: what the listing cannot be blamed for
    changes

pageVars == <<listing, idOf, order, away, cursor, pages, ended, touched, upset, changes>>

InOrder(s) == {s[i] : i \in DOMAIN s}

PagingTypeOK ==
    /\ listing \in {"cards", "comments"}
    /\ InOrder(order) \subseteq PageRow /\ Cardinality(InOrder(order)) = Len(order)
    /\ away \subseteq PageRow \ InOrder(order)
    /\ cursor = NoCursor \/ (cursor \in PageRow /\ pages # << >> /\ cursor = pages[Len(pages)])
    /\ InOrder(pages) \subseteq PageRow
    /\ touched \subseteq PageRow

\* Comments whose ids are not in the order of their times.
Inverted(s) == \E i, j \in DOMAIN s : i < j /\ idOf[s[i]] > idOf[s[j]]

PagingInit ==
    /\ listing \in {"cards", "comments"}
    /\ idOf \in [PageRow -> PageRow] /\ \A a, b \in PageRow : idOf[a] = idOf[b] => a = b
    /\ listing = "cards" => \A a \in PageRow : idOf[a] = a
    /\ order = [i \in 1..(PagedRows - 1) |-> i]
    /\ away = {} /\ cursor = NoCursor /\ pages = << >> /\ ended = FALSE
    /\ touched = {}
    /\ upset = (listing = "comments" /\ Inverted(order))
    /\ changes = 0

-----------------------------------------------------------------------------
PlaceOf(row) == CHOOSE i \in DOMAIN order : order[i] = row

From(i) == SubSeq(order, i, Len(order))

\* Variant: the next page starts at the cursor.
Behind_At(row) == From(PlaceOf(row))

Behind(row) == From(PlaceOf(row) + 1)

NotYet(row) == idOf[row] > idOf[cursor]

Later == {i \in DOMAIN order : NotYet(order[i])}

LaterRows == [k \in 1..Cardinality(Later) |-> order[CHOOSE i \in Later : Cardinality({j \in Later : j <= i}) = k]]

\* What the query could return without its limit.  A card that is gone has no
\* place: the comparison is with NULL, and no row is returned.  The place of a
\* card of another board compares anyhow.
Candidates ==
    IF cursor = NoCursor THEN {order}
    ELSE IF listing = "comments" THEN {LaterRows}
    ELSE IF cursor \in InOrder(order) THEN {Behind(cursor)}
    ELSE IF cursor \in away THEN {From(i) : i \in 1..(Len(order) + 1)}
    ELSE {<< >>}

HasMore(rows) == Len(rows) > PageLimit

ReadPage ==
    \E rows \in Candidates :
        LET page == SubSeq(rows, 1, IF Len(rows) > PageLimit THEN PageLimit ELSE Len(rows))
        IN  /\ ~ended
            /\ pages' = pages \o page
            /\ cursor' = IF HasMore(rows) THEN page[Len(page)] ELSE NoCursor
            /\ ended' = ~HasMore(rows)
            /\ UNCHANGED <<listing, idOf, order, away, touched, upset, changes>>

-----------------------------------------------------------------------------
Changes(row) ==
    /\ ~ended /\ changes < PageChanges
    /\ changes' = changes + 1
    /\ touched' = touched \cup {row}
    /\ UNCHANGED <<listing, idOf, cursor, pages, ended>>

\* Variant: the row is left where it was.
Without_Nothing(row) == order

Without(row) == SubSeq(order, 1, PlaceOf(row) - 1) \o SubSeq(order, PlaceOf(row) + 1, Len(order))

PutAt(s, i, row) == SubSeq(s, 1, i - 1) \o <<row>> \o SubSeq(s, i, Len(s))

\* A card comes anywhere, and so does a comment: its time is the start of its
\* transaction, and another that started later may have committed before.
RowComes ==
    /\ Changes(PagedRows) /\ PagedRows \notin touched
    /\ \E i \in 1..(Len(order) + 1) :
         /\ order' = PutAt(order, i, PagedRows)
         /\ upset' = (upset \/ (listing = "comments" /\ Inverted(PutAt(order, i, PagedRows))))
    /\ UNCHANGED away

RowGoes(row) ==
    /\ Changes(row) /\ row \in InOrder(order)
    /\ order' = Without(row)
    /\ upset' = (upset \/ (listing = "cards" /\ row = cursor))
    /\ UNCHANGED away

\* MoveCard, on the board or to another one.
CardMoves(row) ==
    /\ Changes(row) /\ listing = "cards" /\ row \in InOrder(order)
    /\ \/ \E i \in 1..Len(order) : order' = PutAt(Without(row), i, row) /\ UNCHANGED away
       \/ order' = Without(row) /\ away' = away \cup {row}
    /\ upset' = (upset \/ row = cursor)

PagingNext ==
    \/ ReadPage
    \/ RowComes
    \/ \E row \in PageRow : RowGoes(row) \/ CardMoves(row)

PagingSpec == PagingInit /\ [][PagingNext]_pageVars

-----------------------------------------------------------------------------
(* Properties.                                                             *)

TimesListed(row) == Cardinality({i \in DOMAIN pages : pages[i] = row})

\* Whatever else is added, moved and deleted between two pages, a row that stays
\* in its place is listed exactly once: for cards unless the row of the cursor
\* itself moved or went, for comments if their ids are in the order of their times.
ListedOnce ==
    (ended /\ ~upset) => \A row \in 1..(PagedRows - 1) \ touched : TimesListed(row) = 1
=============================================================================
