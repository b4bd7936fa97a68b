----------------------------- MODULE ParentTuples -----------------------------
(***************************************************************************)
(* Who may see a card: the tuple KanbanCard:card#parent@KanbanBoard:board  *)
(* that the permission backend derives access from, and the row of the     *)
(* card that says where it is.  CreateCard, MoveCard, TransferCard and     *)
(* DeleteCard (src/src/services/cards.rs) write the tuples after their     *)
(* transaction, call by call; a failed call is logged and the request goes *)
(* on.  The startup migration backfill_card_parent_tuples                  *)
(* (src/src/system_migrations/migrations/card_parent_tuples.rs) grants the *)
(* tuple of every card once more.                                          *)
(*                                                                         *)
(* Abstracted: MoveCard to another board and TransferCard do the same with *)
(* the tuples; eight attempts that fail are one failed call; a page of the *)
(* migration is one card.                                                  *)
(***************************************************************************)
EXTENDS Naturals, FiniteSets

CONSTANTS
    TupCards,      \* bound: ids of cards are 1..TupCards, in order of creation
    TupBoard,
    TupRequest,    \* bound: the requests ever made
    NoHome         \* where a card is that does not exist

ASSUME TuplesAssumption == NoHome \notin TupBoard /\ TupCards \in Nat \ {0}

VARIABLES
    home,          \* cards: board_id
    legacy,        \* cards created before the service wrote tuples
    left,          \* the boards each card has left
    alone,         \* cards deleted while no other request was about them
    created,       \* how many cards were created
    tuples,        \* the permission backend: pairs of a card and a parent board
    job,           \* what each request has left to do
    migration,     \* the migration: the last card it granted, or not running
    applied,       \* system_migrations: whether it is recorded
    faults         \* the calls that failed or were never made: card and kind

tupCardVars == <<home, legacy, left, alone, created>>
tupVars == <<tupCardVars, tuples, job, migration, applied, faults>>

TupCard == 1..TupCards

Idle == [step |-> "idle", card |-> 0, from |-> NoHome, to |-> NoHome]
Over == [Idle EXCEPT !.step = "done"]

NotMigrating == [step |-> "off", last |-> 0, board |-> NoHome, before |-> {}]

TuplesTypeOK ==
    /\ home \in [TupCard -> TupBoard \cup {NoHome}]
    /\ tuples \subseteq TupCard \X TupBoard
    /\ job \in [TupRequest -> [step : {"idle", "read", "ungrant", "grant", "ungrantAll", "done"},
                               card : 0..TupCards, from : TupBoard \cup {NoHome},
                               to : TupBoard \cup {NoHome}]]
    /\ migration \in [step : {"off", "scan", "grant"}, last : 0..TupCards,
                      board : TupBoard \cup {NoHome}, before : SUBSET TupRequest]

\* One card, created before the service wrote tuples, or with its tuple.
TuplesInit ==
    /\ \E b \in TupBoard :
         /\ home = [c \in TupCard |-> IF c = 1 THEN b ELSE NoHome]
         /\ \/ tuples = {} /\ legacy = {1}
            \/ tuples = {<<1, b>>} /\ legacy = {}
    /\ left = [c \in TupCard |-> {}]
    /\ alone = {}
    /\ created = 1
    /\ job = [r \in TupRequest |-> Idle]
    /\ migration = NotMigrating
    /\ applied = FALSE
    /\ faults = {}

Exists(c) == home[c] # NoHome

\* No request is about the card.
Settled(c) == \A r \in TupRequest : job[r].card # c

-----------------------------------------------------------------------------
(* Requests.                                                               *)

Goes(r, j) == job' = [job EXCEPT ![r] = j]

\* The transaction of CreateCard.
CommitCreate(r) ==
    /\ job[r] = Idle /\ created < TupCards
    /\ created' = created + 1
    /\ \E b \in TupBoard :
         /\ home' = [home EXCEPT ![created + 1] = b]
         /\ Goes(r, [step |-> "grant", card |-> created + 1, from |-> NoHome, to |-> b])
    /\ UNCHANGED <<legacy, left, alone, tuples, migration, applied, faults>>

\* MoveCard and TransferCard read the card before their transaction.
ReadMove(r) ==
    /\ job[r] = Idle
    /\ \E c \in TupCard, b \in TupBoard :
         /\ Exists(c)
         /\ Goes(r, [step |-> "read", card |-> c, from |-> home[c], to |-> b])
    /\ UNCHANGED <<tupCardVars, tuples, migration, applied, faults>>

\* The tuples are touched when the board that was read is not the target.
CommitMove(r) ==
    LET j == job[r]
    IN  /\ j.step = "read" /\ Exists(j.card)
        /\ home' = [home EXCEPT ![j.card] = j.to]
        /\ left' = [left EXCEPT ![j.card] = @ \cup ({home[j.card], j.from} \ {j.to})]
        /\ Goes(r, IF j.from = j.to THEN Over ELSE [j EXCEPT !.step = "ungrant"])
        /\ UNCHANGED <<legacy, alone, created, tuples, migration, applied, faults>>

MoveNotFound(r) ==
    /\ job[r].step = "read" /\ ~Exists(job[r].card)
    /\ Goes(r, Over)
    /\ UNCHANGED <<tupCardVars, tuples, migration, applied, faults>>

CommitDelete(r) ==
    /\ job[r] = Idle
    /\ \E c \in TupCard :
         /\ Exists(c)
         /\ home' = [home EXCEPT ![c] = NoHome]
         /\ Goes(r, [Idle EXCEPT !.step = "ungrantAll", !.card = c])
         /\ alone' = IF Settled(c) /\ migration.step = "off" THEN alone \cup {c} ELSE alone
    /\ UNCHANGED <<legacy, left, created, tuples, migration, applied, faults>>

\* The outcomes of a call: done, or failed and logged.
Calls(r, after) ==
    \/ tuples' = after /\ UNCHANGED faults
    \/ faults' = faults \cup {<<job[r].card, job[r].step>>} /\ UNCHANGED tuples

\* Variant: every parent of the card goes, not only the board it left.
LeftTuples_All(j) == {t \in tuples : t[1] = j.card}

\* The tuples that a move deletes: the parent that was read.
LeftTuples(j) == {<<j.card, j.from>>}

UngrantOld(r) ==
    /\ job[r].step = "ungrant"
    /\ Calls(r, tuples \ LeftTuples(job[r]))
    /\ Goes(r, [job[r] EXCEPT !.step = "grant"])
    /\ UNCHANGED <<tupCardVars, migration, applied>>

GrantNew(r) ==
    /\ job[r].step = "grant"
    /\ Calls(r, tuples \cup {<<job[r].card, job[r].to>>})
    /\ Goes(r, Over)
    /\ UNCHANGED <<tupCardVars, migration, applied>>

\* Variant: only the tuple of the present board is deleted.
UngrantAll_Home(r) ==
    /\ job[r].step = "ungrantAll"
    /\ Calls(r, {t \in tuples : t[1] # job[r].card \/ t[2] \in left[t[1]]})
    /\ Goes(r, Over)
    /\ UNCHANGED <<tupCardVars, migration, applied>>

UngrantAll(r) ==
    /\ job[r].step = "ungrantAll"
    /\ Calls(r, {t \in tuples : t[1] # job[r].card})
    /\ Goes(r, Over)
    /\ UNCHANGED <<tupCardVars, migration, applied>>

\* The pod dies: what is left of the request is never done.
DropJob(r) ==
    /\ job[r].step \notin {"idle", "done"}
    /\ Goes(r, Over)
    /\ faults' = faults \cup {<<job[r].card, s>> : s \in {job[r].step, "grant"}}
    /\ UNCHANGED <<tupCardVars, tuples, migration, applied>>

-----------------------------------------------------------------------------
(* The migration, when a pod starts that finds it unrecorded.              *)

StartMigration ==
    /\ migration.step = "off" /\ ~applied
    /\ migration' = [NotMigrating EXCEPT !.step = "scan", !.before = {r \in TupRequest : job[r] = Over}]
    /\ UNCHANGED <<tupCardVars, tuples, job, applied, faults>>

\* Variant: the scan counts on from id to id.
Beyond_Counted == {c \in TupCard : c > migration.last}

Beyond == {c \in TupCard : c > migration.last /\ Exists(c)}

\* Variant: the scan goes on behind a card that was never granted.
NextScanned_Skips(c) == \A d \in Beyond : d <= c

\* WHERE id > last ORDER BY id: the card and the board it is on now.
NextScanned(c) == \A d \in Beyond : c <= d

ScanCard ==
    /\ migration.step = "scan"
    /\ \E c \in Beyond :
         /\ NextScanned(c)
         /\ migration' = [migration EXCEPT !.step = "grant", !.last = c, !.board = home[c]]
    /\ UNCHANGED <<tupCardVars, tuples, job, applied, faults>>

GrantScanned ==
    /\ migration.step = "grant"
    /\ tuples' = tuples \cup {<<migration.last, migration.board>>}
    /\ migration' = [migration EXCEPT !.step = "scan", !.board = NoHome]
    /\ UNCHANGED <<tupCardVars, job, applied, faults>>

\* record_applied comes after the last card.
RecordMigration ==
    /\ migration.step = "scan" /\ Beyond = {}
    /\ migration' = NotMigrating
    /\ applied' = TRUE
    /\ UNCHANGED <<tupCardVars, tuples, job, faults>>

\* A failed grant or a crash stops the start of the service; the next start
\* begins at the first card.
AbortMigration ==
    /\ migration.step # "off"
    /\ migration' = NotMigrating
    /\ UNCHANGED <<tupCardVars, tuples, job, applied, faults>>

-----------------------------------------------------------------------------
TuplesHandle(r) ==
    \/ CommitCreate(r) \/ ReadMove(r) \/ CommitMove(r) \/ MoveNotFound(r) \/ CommitDelete(r)
    \/ UngrantOld(r) \/ GrantNew(r) \/ UngrantAll(r) \/ DropJob(r)

TuplesNext ==
    \/ \E r \in TupRequest : TuplesHandle(r)
    \/ StartMigration \/ ScanCard \/ GrantScanned \/ RecordMigration \/ AbortMigration

TuplesSpec == TuplesInit /\ [][TuplesNext]_tupVars

-----------------------------------------------------------------------------
(* Properties.                                                             *)

\* A card on a board it never left is visible from there once the requests
\* about it are over, however they overlapped and whichever deletions failed, if
\* no grant did.  (A card moved away and back by overlapping requests may lose
\* the tuple of its board: the late half of the first deletes what the second
\* granted.)
HomeIsParent ==
    \A c \in TupCard :
        (/\ Exists(c) /\ Settled(c)
         /\ c \in legacy => applied
         /\ <<c, "grant">> \notin faults /\ home[c] \notin left[c])
            => <<c, home[c]>> \in tuples

\* The migration repairs whatever failed calls and crashes left out: a card it
\* has passed is visible from its board, if every request was over before the
\* migration began.
BackfillRepairs ==
    \A c \in TupCard :
        (/\ migration.step = "scan" /\ c <= migration.last /\ Exists(c)
         /\ {r \in TupRequest : job[r] # Idle} = migration.before)
            => <<c, home[c]>> \in tuples

\* DeleteCard takes every parent the card ever had with it, the ones that failed
\* calls and overlapping moves left behind too, when its own call succeeds and
\* nothing else was about the card.
DeletedIsUnseen ==
    \A c \in alone :
        (Settled(c) /\ <<c, "ungrantAll">> \notin faults)
            => \A b \in TupBoard : <<c, b>> \notin tuples

\* A card is visible from its board once the requests about it are over, and from none when
\* it is gone; the migration mends what failures left.
TuplesFollowCards == HomeIsParent /\ DeletedIsUnseen /\ BackfillRepairs
=============================================================================
