-------------------------------- MODULE CardRefs --------------------------------
(***************************************************************************)
(* The references of cards, PREFIX-001 and so on (allocate_card_ref in     *)
(* src/src/services/cards.rs): CreateCard and TransferCard take the next   *)
(* number of a project from project_ref_counter inside their transaction,  *)
(* under an advisory lock that lasts until it ends.                        *)
(*                                                                         *)
(* Abstracted: a reference is its project and its number; the checks of a  *)
(* request before its transaction are left out, as is everything it writes *)
(* beside the reference; the prefix of a project does not change.          *)
(***************************************************************************)
EXTENDS Integers, FiniteSets

CONSTANTS
    RefCard,
    RefProject,
    RefRequests    \* bound: the requests ever made

ASSUME RefAssumption == RefRequests \in Nat

\* The requests, in the order in which they arrive.
RefRequest == 1..RefRequests

VARIABLES
    refOf,       \* cards: the reference of each, NoRef without a row
    counter,     \* project_ref_counter: the number to give out next
    refLock,     \* the request whose transaction holds the lock of a project, or 0
    refStep,
    wish,        \* the card and the project a request names, and the reference it read
    drawn,       \* the number its transaction took
    issued       \* ghost: every reference ever committed, with its card

refVars == <<refOf, counter, refLock, refStep, wish, drawn, issued>>

NoRef == [project |-> "none", seq |-> 0]

RefsTypeOK ==
    /\ \A c \in RefCard : refOf[c] = NoRef \/ \E i \in issued : i.card = c /\ i.ref = refOf[c]
    /\ counter \in [RefProject -> Nat \ {0}]
    /\ refLock \in [RefProject -> RefRequest \cup {0}]
    /\ \A p \in RefProject : refLock[p] # 0 => refStep[refLock[p]] = "drawn" /\ wish[refLock[p]].project = p
    /\ refStep \in [RefRequest -> {"idle", "asked", "drawn", "done"}]
    /\ drawn \in [RefRequest -> Nat]

RefsInit ==
    /\ refOf = [c \in RefCard |-> NoRef]
    /\ counter = [p \in RefProject |-> 1]
    /\ refLock = [p \in RefProject |-> 0]
    /\ refStep = [r \in RefRequest |-> "idle"]
    /\ wish = [r \in RefRequest |-> [card |-> CHOOSE c \in RefCard : TRUE,
                                     project |-> CHOOSE p \in RefProject : TRUE, from |-> NoRef]]
    /\ drawn = [r \in RefRequest |-> 0]
    /\ issued = {}

-----------------------------------------------------------------------------
\* A new card, which no other request makes; or a card of another project, as the
\* request read it before its transaction.
AskRef(r) ==
    /\ refStep[r] = "idle" /\ \A q \in 1..(r - 1) : refStep[q] # "idle"
    /\ \E c \in RefCard, p \in RefProject :
         /\ IF refOf[c] = NoRef
            THEN \A q \in 1..(r - 1) : wish[q].card # c
            ELSE refOf[c].project # p
         /\ wish' = [wish EXCEPT ![r] = [card |-> c, project |-> p, from |-> refOf[c]]]
    /\ refStep' = [refStep EXCEPT ![r] = "asked"]
    /\ UNCHANGED <<refOf, counter, refLock, drawn, issued>>

\* Variant: nothing keeps two transactions from reading one number.
MayDraw_Freely(p) == TRUE

\* pg_advisory_xact_lock
MayDraw(p) == refLock[p] = 0

\* The counter moves inside the transaction: others see it after the commit.
Draw(r) ==
    LET p == wish[r].project
    IN  /\ refStep[r] = "asked" /\ MayDraw(p)
        /\ refLock' = [refLock EXCEPT ![p] = r]
        /\ drawn' = [drawn EXCEPT ![r] = counter[p]]
        /\ refStep' = [refStep EXCEPT ![r] = "drawn"]
        /\ UNCHANGED <<refOf, counter, wish, issued>>

EndsTransaction(r) ==
    /\ refStep[r] = "drawn"
    /\ refLock' = [refLock EXCEPT ![wish[r].project] = 0]
    /\ refStep' = [refStep EXCEPT ![r] = "done"]
    /\ UNCHANGED <<wish, drawn>>

\* A transferred card was deleted meanwhile: UPDATE ... RETURNING finds no row.
IsGone(r) == wish[r].from # NoRef /\ refOf[wish[r].card] = NoRef

CommitRef(r) ==
    LET ref == [project |-> wish[r].project, seq |-> drawn[r]]
    IN  /\ EndsTransaction(r) /\ ~IsGone(r)
        /\ refOf' = [refOf EXCEPT ![wish[r].card] = ref]
        /\ counter' = [counter EXCEPT ![ref.project] = ref.seq + 1]
        /\ issued' = issued \cup {[card |-> wish[r].card, ref |-> ref]}

\* Variant: the number is spent all the same, as with a sequence.
RollBack_Spent(r) ==
    /\ EndsTransaction(r)
    /\ counter' = [counter EXCEPT ![wish[r].project] = drawn[r] + 1]
    /\ UNCHANGED <<refOf, issued>>

\* A later step of the transaction fails, or the pod dies: the counter is back.
RollBack(r) ==
    /\ EndsTransaction(r)
    /\ UNCHANGED <<refOf, counter, issued>>

\* DeleteCard; a card whose row is gone stays gone.
DeleteCardRow(c) ==
    /\ refOf[c] # NoRef
    /\ refOf' = [refOf EXCEPT ![c] = NoRef]
    /\ UNCHANGED <<counter, refLock, refStep, wish, drawn, issued>>

RefsNext ==
    \/ \E r \in RefRequest : AskRef(r) \/ Draw(r) \/ CommitRef(r) \/ RollBack(r)
    \/ \E c \in RefCard : DeleteCardRow(c)

RefsSpec == RefsInit /\ [][RefsNext]_refVars

-----------------------------------------------------------------------------
(* Properties.                                                             *)

\* A reference means one card for ever: it is not given out again when its card is
\* deleted or transferred away, nor when the card comes back.
RefNamesOneCard ==
    \A i, j \in issued : i.ref = j.ref => i.card = j.card

\* The numbers of a project have no holes: those given out are the ones below the
\* counter, whatever was rolled back or deleted.
RefsDense ==
    \A p \in RefProject :
        {i.ref.seq : i \in {j \in issued : j.ref.project = p}} = 1..(counter[p] - 1)

\* A reference names one card for ever, and a project gives its numbers out without holes.
RefsAreSound == RefNamesOneCard /\ RefsDense
=============================================================================
