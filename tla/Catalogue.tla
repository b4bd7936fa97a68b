------------------------------- MODULE Catalogue -------------------------------
(***************************************************************************)
(* What a project has to choose from, as a reader is shown it: its labels  *)
(* (src/src/services/labels.rs), its milestones with the counts of their   *)
(* cards (milestones.rs), and the templates of boards and cards            *)
(* (templates.rs).  Labels and templates may be global.                    *)
(*                                                                         *)
(* A list or a get is two to four queries and checks, none of them in a    *)
(* transaction, while rows come and go, cards move from one milestone to   *)
(* another by updates of a check and a write, and relations change.        *)
(*                                                                         *)
(* Abstracted: one reader; the tenant; the fields and the order of rows.   *)
(***************************************************************************)
EXTENDS Integers, FiniteSets

CONSTANTS
    CatItem,        \* rows
    CatProject,
    CatCard,
    CatChanges,     \* bound: changes of others
    EveryProject,   \* the home of what is global
    NoneOfThem      \* no project, no milestone

ASSUME CatalogueAssumption ==
    /\ EveryProject \notin CatProject /\ NoneOfThem \notin CatProject \cup CatItem
    /\ CatChanges \in Nat

VARIABLES
    catKind,     \* what the rows are
    itemHome,        \* the project of each
    there,       \* the rows that exist
    deletedItems,    \* those that were deleted; an id is not used again
    filed,       \* cards.milestone_id
    milestoneSeen,   \* <<card, milestone>>: updates that found the milestone and have yet to write
    finished,    \* cards with a completed_at
    viewOf,      \* the projects on which the reader has view
    ask,         \* the request
    catChanges,
    lateFiling,  \* ghost: those of milestoneSeen whose milestone was deleted then
    since        \* ghost: what was so during the request

filings == <<deletedItems, milestoneSeen, lateFiling>>
catRows == <<catKind, itemHome, there, filed, finished, viewOf, catChanges, filings>>
catVars == <<catRows, ask, since>>

TemplateKind == {"template", "cardTemplate"}
NotAsked == [at |-> "idle", verb |-> "none", project |-> NoneOfThem, rows |-> {}, counts |-> {}]

CatTypeOK ==
    /\ there \subseteq CatItem /\ itemHome \in [CatItem -> CatProject \cup {EveryProject}]
    /\ catKind = "milestone" => \A i \in CatItem : itemHome[i] # EveryProject
    /\ filed \in [CatCard -> there \cup deletedItems \cup {NoneOfThem}] /\ finished \subseteq CatCard
    /\ deletedItems \subseteq CatItem \ there
    /\ milestoneSeen \subseteq CatCard \X (there \cup deletedItems) /\ lateFiling \subseteq CatCard \X deletedItems
    /\ viewOf \subseteq CatProject
    /\ ask.at \in {"idle", "globals", "row", "check", "rows", "counts", "done", "refused"}
    /\ ask.rows \subseteq CatItem

CatInit ==
    /\ catKind \in {"label", "milestone"} \cup TemplateKind
    /\ itemHome \in [CatItem -> CatProject \cup (IF catKind = "milestone" THEN {} ELSE {EveryProject})]
    /\ there \in SUBSET CatItem
    /\ IF catKind = "milestone" THEN filed \in [CatCard -> there \cup {NoneOfThem}]
       ELSE filed = [c \in CatCard |-> NoneOfThem]
    /\ deletedItems = {} /\ milestoneSeen = {} /\ lateFiling = {}
    /\ finished = {} /\ viewOf \in SUBSET CatProject
    /\ ask = NotAsked /\ catChanges = 0
    /\ since = [there |-> {}, viewed |-> {}, always |-> {}, faulty |-> FALSE]

ItemsOf(p) == {i \in there : itemHome[i] = p}
Asks(next) == ask' = next /\ UNCHANGED catRows

-----------------------------------------------------------------------------
(* Steps of the handlers.                                                  *)

Begin(verb, at, p, rows) ==
    /\ ask = NotAsked
    /\ Asks([ask EXCEPT !.at = at, !.verb = verb, !.project = p, !.rows = rows])
    /\ since' = [there |-> there, viewed |-> viewOf, always |-> viewOf, faulty |-> FALSE]

\* The check of view: what follows if it is granted, and if it is denied or fails.
CheckItemView(p, granted, denied) ==
    /\ ask.at = "check"
    /\ \/ Asks([ask EXCEPT !.at = IF p \in viewOf THEN granted ELSE denied]) /\ UNCHANGED since
       \/ Asks([ask EXCEPT !.at = denied]) /\ since' = [since EXCEPT !.faulty = TRUE]

ReadRows(rows, next) ==
    /\ ask.at = "rows"
    /\ Asks([ask EXCEPT !.at = next, !.rows = @ \cup rows])
    /\ UNCHANGED since

\* Variant: no WHERE project_id.
ProjectRows_Any(p) == there \ ItemsOf(EveryProject)

ProjectRows(p) == ItemsOf(p)

\* Variant: only what is of the project.
GlobalRows_None(p) == {}

\* project_id IS NULL, or is_global
GlobalRows(p) == ItemsOf(EveryProject)

\* A list of templates starts with the global ones; without a view of the project,
\* or if the check fails, it ends there.
ListsTemplates ==
    \/ \E p \in CatProject \cup {NoneOfThem} : Begin("list", "globals", p, {})
    \/ /\ ask.at = "globals"
       /\ Asks([ask EXCEPT !.at = IF ask.project = NoneOfThem THEN "done" ELSE "check", !.rows = GlobalRows(ask.project)])
       /\ UNCHANGED since
    \/ ask.verb = "list" /\ CheckItemView(ask.project, "rows", "done")
    \/ ReadRows(ProjectRows(ask.project), "done")

\* The row is read before the check, and only one of a project is checked.
GetsTemplate ==
    \/ \E i \in CatItem : Begin("get", "row", itemHome[i], {i})
    \/ /\ ask.at = "row"
       /\ Asks([ask EXCEPT !.at = IF ~ask.rows \subseteq there THEN "refused"
                                  ELSE IF ask.project = EveryProject THEN "done" ELSE "check"])
       /\ UNCHANGED since
    \/ ask.verb = "get" /\ CheckItemView(ask.project, "done", "refused")

ListTemplates == catKind = "template" /\ ListsTemplates
ListCardTemplates == catKind = "cardTemplate" /\ ListsTemplates
GetTemplate == catKind = "template" /\ GetsTemplate
GetCardTemplate == catKind = "cardTemplate" /\ GetsTemplate

ListLabels ==
    /\ catKind = "label"
    /\ \/ \E p \in CatProject : Begin("list", "check", p, {})
       \/ CheckItemView(ask.project, "rows", "refused")
       \/ ReadRows(ProjectRows(ask.project) \cup GlobalRows(ask.project), "done")

ListMilestones ==
    /\ catKind = "milestone"
    /\ \/ \E p \in CatProject : Begin("list", "check", p, {})
       \/ ask.verb = "list" /\ CheckItemView(ask.project, "rows", "refused")
       \/ ReadRows(ProjectRows(ask.project), "counts")

GetMilestone ==
    /\ catKind = "milestone"
    /\ \/ \E i \in CatItem : Begin("get", "row", itemHome[i], {i})
       \/ /\ ask.at = "row"
          /\ Asks([ask EXCEPT !.at = IF ask.rows \subseteq there THEN "check" ELSE "refused"])
          /\ UNCHANGED since
       \/ ask.verb = "get" /\ CheckItemView(ask.project, "counts", "refused")

\* Variant: a query for each milestone.
CountedAtOnce_Each(left) == {CHOOSE i \in left : TRUE}

\* One query for all: WHERE milestone_id = ANY(..) GROUP BY milestone_id
CountedAtOnce(left) == left

\* What is counted for a milestone, of cards that are filed and completed so.
CountIn(i, at, completed) ==
    LET its == {c \in CatCard : at[c] = i}
    IN  [of |-> i, total |-> Cardinality(its), completed |-> Cardinality(its \cap completed)]
CountOf(i) == CountIn(i, filed, finished)

\* fetch_card_stats: after the rows, which may be gone by now; those without cards have 0.
FetchCardStats ==
    LET left == ask.rows \ {n.of : n \in ask.counts}
    IN  /\ ask.at = "counts"
        /\ Asks(IF left = {} THEN [ask EXCEPT !.at = "done"]
                ELSE [ask EXCEPT !.counts = @ \cup {CountOf(i) : i \in CountedAtOnce(left)}])
        /\ UNCHANGED since

-----------------------------------------------------------------------------
(* Others.                                                                 *)

CatOccurs == catChanges < CatChanges /\ catChanges' = catChanges + 1

ItemComes ==
    \E i \in CatItem \ (there \cup deletedItems) :
        /\ CatOccurs
        /\ there' = there \cup {i}
        /\ UNCHANGED <<catKind, itemHome, filed, finished, viewOf, filings, ask, since>>

\* Variant: the cards keep it; cards.milestone_id references nothing.
Unfiled_Left(i) == filed

\* delete_milestone clears the cards in the same transaction.
Unfiled(i) == [c \in CatCard |-> IF filed[c] = i THEN NoneOfThem ELSE filed[c]]

ItemGoes ==
    \E i \in there :
        /\ CatOccurs
        /\ there' = there \ {i}
        /\ deletedItems' = deletedItems \cup {i}
        /\ filed' = Unfiled(i)
        /\ lateFiling' = lateFiling \cup {u \in milestoneSeen : u[2] = i}
        /\ since' = [since EXCEPT !.there = @ \ {i}]
        /\ UNCHANGED <<catKind, itemHome, finished, viewOf, milestoneSeen, ask>>

\* update_card looks for the milestone it is to give a card ...
CheckMilestone ==
    /\ CatOccurs /\ catKind = "milestone"
    /\ \E c \in CatCard, i \in there : milestoneSeen' = milestoneSeen \cup {<<c, i>>}
    /\ UNCHANGED <<catKind, itemHome, there, filed, finished, viewOf, deletedItems, lateFiling, ask, since>>

\* ... and writes it with a later statement, which nothing keeps from naming one that is gone.
FileCard ==
    \E u \in milestoneSeen :
        /\ filed' = [filed EXCEPT ![u[1]] = u[2]]
        /\ milestoneSeen' = milestoneSeen \ {u}
        /\ UNCHANGED <<catKind, itemHome, there, finished, viewOf, catChanges, deletedItems, lateFiling, ask, since>>

\* A card is taken out of its milestone, or moved to or from a column for what is done.
CardChanges ==
    /\ CatOccurs /\ catKind = "milestone"
    /\ \E c \in CatCard :
         \/ filed' = [filed EXCEPT ![c] = NoneOfThem] /\ UNCHANGED finished
         \/ /\ finished' = IF c \in finished THEN finished \ {c} ELSE finished \cup {c}
            /\ UNCHANGED filed
    /\ UNCHANGED <<catKind, itemHome, there, viewOf, filings, ask, since>>

ViewChanges ==
    \E p \in CatProject :
        /\ CatOccurs
        /\ viewOf' = IF p \in viewOf THEN viewOf \ {p} ELSE viewOf \cup {p}
        /\ since' = [since EXCEPT !.viewed = @ \cup viewOf', !.always = @ \cap viewOf']
        /\ UNCHANGED <<catKind, itemHome, there, filed, finished, filings, ask>>

CatNext ==
    \/ ListTemplates \/ ListCardTemplates \/ ListLabels \/ ListMilestones
    \/ GetTemplate \/ GetCardTemplate \/ GetMilestone \/ FetchCardStats
    \/ ItemComes \/ ItemGoes \/ CheckMilestone \/ FileCard \/ CardChanges \/ ViewChanges

CatSpec == CatInit /\ [][CatNext]_catVars

-----------------------------------------------------------------------------
(* Properties.                                                             *)

\* What a reader is shown of a project, by a list or by an id, is of a project that the
\* reader could view at some moment of the request.
OfferedWasViewable ==
    ask.at = "done" => \A i \in ask.rows : itemHome[i] \in since.viewed \cup {EveryProject}

\* Although a list is put together by several queries, what was there all along is in it,
\* if the reader could view the project all along and no check failed: what is global, and
\* what is of the project.
ListIsWhole ==
    (ask.at = "done" /\ ask.verb = "list" /\ ask.project \in since.always /\ ~since.faulty) =>
        \A i \in since.there : itemHome[i] = ask.project \/ itemHome[i] = EveryProject => i \in ask.rows

\* The counts in one list are of one moment: there is one way to file and to complete the
\* cards that all of them count, so a card that goes from one milestone to another
\* meanwhile is counted once, and the cards completed are among those counted.
CardCountedOnce ==
    \E at \in [CatCard -> CatItem \cup {NoneOfThem}], completed \in SUBSET CatCard :
        \A n \in ask.counts : n = CountIn(n.of, at, completed)

\* No card is left under a milestone that is gone, although nothing in the database forbids
\* it, but by an update that found the milestone before it was deleted.
StraysWereLate == \A c \in CatCard : filed[c] \in deletedItems => <<c, filed[c]>> \in lateFiling

\* A list has all its reader could see all along, nothing the reader could not see at some
\* moment, and counts of one moment; only updates that overlap a deletion leave strays.
CatalogueIsWhole == CardCountedOnce /\ ListIsWhole /\ OfferedWasViewable /\ StraysWereLate
=============================================================================
