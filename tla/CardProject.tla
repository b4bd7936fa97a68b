------------------------------ MODULE CardProject ------------------------------
(***************************************************************************)
(* What ties a card to its project: its milestone and its labels.          *)
(* UpdateCard sets the milestone, BulkUpdateCardLabels the labels, and     *)
(* TransferCard takes the card to another project (src/src/services/       *)
(* cards.rs); DeleteMilestone (milestones.rs) and DeleteLabel (labels.rs)  *)
(* take away what a card may refer to.                                     *)
(*                                                                         *)
(* card_labels has foreign keys, cards.milestone_id has none, and no       *)
(* constraint compares the project of a card with the project of its       *)
(* milestone or labels: the handlers do, some before their transaction.    *)
(*                                                                         *)
(* Abstracted: one card, one board in each project; whoever asks may do    *)
(* what is asked.                                                          *)
(***************************************************************************)
EXTENDS Naturals

CONSTANTS
    TieProject,
    Milestone,
    Label,
    TieRequests,   \* bound: the requests ever made
    NoProject      \* the project of a global label
CONSTANTS
    MilestoneOf(_),   \* the project of a milestone
    LabelOf(_)        \* the project of a label, or NoProject

ASSUME TieAssumption ==
    /\ TieRequests \in Nat /\ NoProject \notin TieProject
    /\ \A m \in Milestone : MilestoneOf(m) \in TieProject
    /\ \A l \in Label : LabelOf(l) \in TieProject \cup {NoProject}

\* The requests, in the order in which they arrive.
TieRequest == 1..TieRequests

NoMilestone == "none"

VARIABLES
    home,          \* cards.project_id
    milestone,     \* cards.milestone_id
    cardLabels,    \* card_labels
    milestones,    \* the milestones there
    labels,        \* the labels there
    tieStep,
    tieAsk,        \* what a request asks for, and the project it read
    slips          \* ghost: requests overlapped, or named a label of another project

tieTables == <<home, milestone, cardLabels, milestones, labels>>
tieVars == <<tieTables, tieStep, tieAsk, slips>>

TiesTypeOK ==
    /\ home \in TieProject
    /\ milestone \in Milestone \cup {NoMilestone}
    /\ cardLabels \subseteq labels /\ labels \subseteq Label
    /\ milestones \subseteq Milestone
    /\ tieStep \in [TieRequest -> {"idle", "read", "checked", "done"}]
    /\ slips \subseteq {"overlap", "stranger"}

TiesInit ==
    /\ home \in TieProject
    /\ milestone = NoMilestone /\ cardLabels = {}
    /\ milestones = Milestone /\ labels = Label
    /\ tieStep = [r \in TieRequest |-> "idle"]
    /\ tieAsk = [r \in TieRequest |-> [kind |-> "none"]]
    /\ slips = {}

Foreign(l, p) == LabelOf(l) \notin {p, NoProject}

\* The next request arrives; its first read is of the card as it is now.
TieArrives(r, ask) ==
    /\ tieStep[r] = "idle" /\ \A q \in 1..(r - 1) : tieStep[q] # "idle"
    /\ tieAsk' = [tieAsk EXCEPT ![r] = ask]
    /\ slips' = slips
         \cup (IF \E q \in 1..(r - 1) : tieStep[q] # "done" THEN {"overlap"} ELSE {})
         \cup (IF ask.kind = "label" /\ \E l \in ask.labels : Foreign(l, home) THEN {"stranger"} ELSE {})

TieGoes(r, from, kind, to) ==
    /\ tieStep[r] = from /\ tieAsk[r].kind = kind
    /\ tieStep' = [tieStep EXCEPT ![r] = to]
    /\ tieAsk' = IF to = "done" THEN [tieAsk EXCEPT ![r] = [kind |-> "none"]] ELSE tieAsk
    /\ UNCHANGED slips

-----------------------------------------------------------------------------
(* UpdateCard: read the card, check the milestone, write.                  *)

ReadProject(r) ==
    /\ \E m \in Milestone \cup {NoMilestone} :
         TieArrives(r, [kind |-> "milestone", milestone |-> m, project |-> home])
    /\ tieStep' = [tieStep EXCEPT ![r] = "read"]
    /\ UNCHANGED tieTables

\* The milestone is there, in the project of the card as it was read.
MilestoneFits(r) ==
    LET m == tieAsk[r].milestone
    IN  m = NoMilestone \/ (m \in milestones /\ MilestoneOf(m) = tieAsk[r].project)

CheckMilestone(r) ==
    /\ \/ TieGoes(r, "read", "milestone", "checked") /\ MilestoneFits(r)
       \/ TieGoes(r, "read", "milestone", "done") /\ ~MilestoneFits(r)
    /\ UNCHANGED tieTables

WriteMilestone(r) ==
    /\ TieGoes(r, "checked", "milestone", "done")
    /\ milestone' = tieAsk[r].milestone
    /\ UNCHANGED <<home, cardLabels, milestones, labels>>

-----------------------------------------------------------------------------
(* BulkUpdateCardLabels: the card is on the board, and its labels are      *)
(* replaced; nothing asks what project the labels are of.                  *)

VerifyBoard(r) ==
    /\ \E ls \in SUBSET Label : TieArrives(r, [kind |-> "label", labels |-> ls])
    /\ tieStep' = [tieStep EXCEPT ![r] = "read"]
    /\ UNCHANGED tieTables

\* Variant: a label that is gone is linked all the same.
LinkedLabels_Blindly(ls) == ls

\* The foreign key refuses a label that is gone, and the request fails as a whole.
LinkedLabels(ls) == IF ls \subseteq labels THEN ls ELSE cardLabels

ReplaceLabels(r) ==
    /\ TieGoes(r, "read", "label", "done")
    /\ cardLabels' = LinkedLabels(tieAsk[r].labels)
    /\ UNCHANGED <<home, milestone, milestones, labels>>

-----------------------------------------------------------------------------
(* TransferCard.                                                           *)

\* The target is a board of another project than the one that was read.
ReadTarget(r) ==
    /\ \E p \in TieProject \ {home} : TieArrives(r, [kind |-> "transfer", project |-> p])
    /\ tieStep' = [tieStep EXCEPT ![r] = "read"]
    /\ UNCHANGED tieTables

\* Variant: the milestone goes along.
KeptMilestone_Same == milestone

\* milestone_id = NULL
KeptMilestone == NoMilestone

\* Variant: the labels stay.
KeptLabels_All(p) == cardLabels

\* Global labels survive the transfer, and those of the target.
KeptLabels(p) == {l \in cardLabels : ~Foreign(l, p)}

Relocate(r) ==
    LET p == tieAsk[r].project
    IN  /\ TieGoes(r, "read", "transfer", "done")
        /\ home' = p
        /\ milestone' = KeptMilestone
        /\ cardLabels' = KeptLabels(p)
        /\ UNCHANGED <<milestones, labels>>

-----------------------------------------------------------------------------
(* DeleteMilestone and DeleteLabel.                                        *)

\* No foreign key: the cards are cleared by hand, in the transaction.
ClearedMilestone(m) == IF milestone = m THEN NoMilestone ELSE milestone

DeleteMilestone(r) ==
    /\ \E m \in milestones :
         /\ TieArrives(r, [kind |-> "dropMilestone"])
         /\ milestone' = ClearedMilestone(m)
         /\ milestones' = milestones \ {m}
    /\ tieStep' = [tieStep EXCEPT ![r] = "done"]
    /\ UNCHANGED <<home, cardLabels, labels>>

\* ON DELETE CASCADE
DeleteLabel(r) ==
    /\ \E l \in labels :
         /\ TieArrives(r, [kind |-> "dropLabel"])
         /\ labels' = labels \ {l}
         /\ cardLabels' = cardLabels \ {l}
    /\ tieStep' = [tieStep EXCEPT ![r] = "done"]
    /\ UNCHANGED <<home, milestone, milestones>>

TiesNext ==
    \E r \in TieRequest :
        \/ ReadProject(r) \/ CheckMilestone(r) \/ WriteMilestone(r)
        \/ VerifyBoard(r) \/ ReplaceLabels(r)
        \/ ReadTarget(r) \/ Relocate(r) \/ DeleteMilestone(r) \/ DeleteLabel(r)

TiesSpec == TiesInit /\ [][TiesNext]_tieVars

-----------------------------------------------------------------------------
(* Properties.                                                             *)

\* Requests one after the other never leave a card with a milestone that is gone
\* or of another project, although no constraint of the table says so.
MilestoneHome ==
    ("overlap" \notin slips /\ milestone # NoMilestone) =>
        milestone \in milestones /\ MilestoneOf(milestone) = home

\* Nor with a label of another project, as long as nobody asks for one.
LabelsHome == slips = {} => \A l \in cardLabels : ~Foreign(l, home)

\* What a card is tied to is of its project.
TiesAreHome == MilestoneHome /\ LabelsHome
=============================================================================
