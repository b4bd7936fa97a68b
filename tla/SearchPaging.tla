------------------------------ MODULE SearchPaging ------------------------------
(***************************************************************************)
(* SearchCards (src/src/services/search.rs): a page of hits is asked of    *)
(* OpenSearch, in the order of score and id, after the sort key in the     *)
(* cursor, and then the hits of boards the caller may not see are dropped. *)
(* Which boards those are is read afterwards: first the boards of a view   *)
(* grant, then the public and internal ones among the boards of the hits.  *)
(*                                                                         *)
(* Abstracted: the score of a document does not change, so its place in    *)
(* the order is its number, and a page is the set of its hits; the filters *)
(* of a query, but for the tenant; the base64 of a cursor (a cursor is the *)
(* place it holds).                                                        *)
(***************************************************************************)
EXTENDS Naturals, Sequences, FiniteSets, FiniteSetsExt

CONSTANTS
    HitLimit,        \* hits on a page: 1 to 100, 20 when not asked for
    FoundCards,      \* bound: documents, in the order of the result
    FoundBoard,      \* the boards of one tenant
    BoardOfFound,    \* the board a document names
    SearchChanges    \* bound: changes of the index and of who may see what

ASSUME SearchAssumption ==
    /\ HitLimit \in Nat \ {0} /\ FoundCards \in Nat /\ SearchChanges \in Nat
    /\ BoardOfFound \in [1..FoundCards -> FoundBoard]

FoundCard == 1..FoundCards

VARIABLES
    searchable,   \* the documents of the index
    openBoards,   \* boards whose visibility is public or internal
    granted,      \* boards the caller has a view relation on
    searchStep, hitCursor, rawHits, allowedByGrant, pagesShown,
    disturbed,    \* changes so far
    seenOpen      \* ghost: boards the caller could see at some time in this request

searchVars == <<searchable, openBoards, granted, searchStep, hitCursor, rawHits, allowedByGrant, pagesShown, disturbed, seenOpen>>

Visible == openBoards \cup granted

SearchTypeOK ==
    /\ searchable \subseteq FoundCard /\ openBoards \subseteq FoundBoard /\ granted \subseteq FoundBoard
    /\ searchStep \in {"asking", "hits read", "grants read", "over"}
    /\ hitCursor \in 0..FoundCards /\ rawHits \subseteq FoundCard /\ Cardinality(rawHits) <= HitLimit
    /\ allowedByGrant \subseteq FoundBoard
    /\ \A k \in 1..Len(pagesShown) : pagesShown[k] \subseteq FoundCard /\ Cardinality(pagesShown[k]) <= HitLimit
    /\ disturbed \in 0..SearchChanges

SearchInit ==
    /\ searchable \in SUBSET FoundCard
    /\ openBoards \in SUBSET FoundBoard /\ granted \in SUBSET (FoundBoard \ openBoards)
    /\ searchStep = "asking" /\ hitCursor = 0 /\ rawHits = {} /\ allowedByGrant = {} /\ pagesShown = <<>>
    /\ disturbed = 0 /\ seenOpen = {}

-----------------------------------------------------------------------------
\* Variant: the page begins with the hit the cursor was made of.
After_Inclusive(d) == d >= hitCursor

\* Variant: the page begins one beyond the hit after the cursor.
After_Beyond(d) == hitCursor = 0 \/ d > hitCursor + 1

\* search_after
After(d) == d > hitCursor

\* Variant: one more, to know whether there is another page.
HitsAskedFor_OneMore == HitLimit + 1

\* size
HitsAskedFor == HitLimit

\* _search: the first hits after the cursor; a missing index is an empty page.
AskIndex ==
    /\ searchStep = "asking"
    /\ LET found == {d \in searchable : After(d)}
       IN  rawHits' = {d \in found : Cardinality({e \in found : e <= d}) <= HitsAskedFor}
    /\ IF rawHits' = {}
       THEN searchStep' = "over" /\ pagesShown' = Append(pagesShown, {})
       ELSE searchStep' = "hits read" /\ UNCHANGED pagesShown
    /\ seenOpen' = Visible
    /\ UNCHANGED <<searchable, openBoards, granted, hitCursor, allowedByGrant, disturbed>>

\* Variant: the expansion of the first page serves the others.
GrantsRead_Cached == IF pagesShown = <<>> THEN granted ELSE allowedByGrant

GrantsRead == granted

\* expand_objects(KanbanBoard, view); more than the ceiling is an error.
ReadGrants ==
    /\ searchStep = "hits read"
    /\ allowedByGrant' = GrantsRead
    /\ searchStep' \in {"grants read", "over"}
    /\ UNCHANGED <<searchable, openBoards, granted, hitCursor, rawHits, pagesShown, disturbed, seenOpen>>

\* fetch_public_internal_board_ids, for the boards of the hits
Allowed == allowedByGrant \cup openBoards

\* Only a full page of hits the caller may see has a cursor, made of its last hit.
HasNext(hits) == Cardinality(hits) >= HitLimit

LastHit(hits) == CHOOSE d \in hits : \A e \in hits : e <= d

ShowHits ==
    /\ searchStep = "grants read"
    /\ LET hits == {d \in rawHits : BoardOfFound[d] \in Allowed}
       IN  /\ pagesShown' = Append(pagesShown, hits)
           /\ IF HasNext(hits)
              THEN searchStep' = "asking" /\ hitCursor' = LastHit(hits)
              ELSE searchStep' = "over" /\ UNCHANGED hitCursor
    /\ rawHits' = {}
    /\ UNCHANGED <<searchable, openBoards, granted, allowedByGrant, disturbed, seenOpen>>

\* Meanwhile boards are opened, closed, granted and revoked, and documents come and go.
Disturb ==
    /\ disturbed < SearchChanges
    /\ disturbed' = disturbed + 1
    /\ \/ /\ \E b \in FoundBoard : openBoards' = SymDiff(openBoards, {b})
          /\ UNCHANGED <<searchable, granted>>
       \/ /\ \E b \in FoundBoard : granted' = SymDiff(granted, {b})
          /\ UNCHANGED <<searchable, openBoards>>
       \/ /\ \E d \in FoundCard : searchable' = SymDiff(searchable, {d})
          /\ UNCHANGED <<openBoards, granted>>
    /\ seenOpen' = seenOpen \cup openBoards' \cup granted'
    /\ UNCHANGED <<searchStep, hitCursor, rawHits, allowedByGrant, pagesShown>>

SearchNext == AskIndex \/ ReadGrants \/ ShowHits \/ Disturb

SearchSpec == SearchInit /\ [][SearchNext]_searchVars

-----------------------------------------------------------------------------
(* Properties.                                                             *)

\* Following the cursors never shows a hit again, nor one before it, whatever enters or
\* leaves the index between the pages.
HitsInOrder ==
    \A i, j \in 1..Len(pagesShown) : i < j => \A d \in pagesShown[i], e \in pagesShown[j] : d < e

\* A hit on the page just shown belongs to a board that the caller could see at some
\* moment since the page was asked for: a board that was closed before is not shown.
HitsWereVisible ==
    [][pagesShown' # pagesShown => {BoardOfFound[d] : d \in pagesShown'[Len(pagesShown')]} \subseteq seenOpen]_searchVars

\* While the client goes on, and nothing changes, no hit it may see is skipped: what a
\* page leaves out for want of permission costs the rest of the result (the search ends
\* early), never a hit in between.
NoneSkipped ==
    searchStep = "asking" /\ disturbed = 0 =>
        \A d \in searchable : d <= hitCursor /\ BoardOfFound[d] \in Visible =>
            \E k \in 1..Len(pagesShown) : d \in pagesShown[k]

\* What the interface says of next_cursor (src/proto/sunbeam/kanban/v1/search.proto): an
\* empty one means no more results.  With nothing changing and no error, a search that
\* is over has shown every hit the caller may see.
EmptyCursorMeansNoMore ==
    searchStep = "over" /\ disturbed = 0 /\ rawHits = {} =>
        \A d \in searchable : BoardOfFound[d] \in Visible =>
            \E k \in 1..Len(pagesShown) : d \in pagesShown[k]
=============================================================================
