------------------------------- MODULE CardPatch -------------------------------
(***************************************************************************)
(* What the events of a card tell: UpdateCard with its sparse patch        *)
(* (src/src/services/cards.rs), BulkUpdateCardLabels, and the dispatcher   *)
(* that turns a row of event_log into the payload that clients merge       *)
(* (build_payload and build_patch_struct in src/src/realtime/outbox.rs).   *)
(*                                                                         *)
(* CardCreated carries the card as it is when the row is dispatched, not   *)
(* as it was when it was written; CardUpdated carries the patch of the     *)
(* request.  A viewer merges what is newer than the revision it has.       *)
(*                                                                         *)
(* Abstracted: requests come one at a time (CardEvents has them overlap);  *)
(* the title stands for every text field, the due date for the fields that *)
(* no event tells; a value is the revision that wrote it, 0 for none.      *)
(***************************************************************************)
EXTENDS Naturals, Sequences

CONSTANT MaxEdits   \* bound: edits of the card

ASSUME PatchAssumption == MaxEdits \in Nat

VARIABLES
    row,       \* cards: the row, revision included; gone after a deletion
    history,   \* ghost: the row at each revision
    outbox,    \* event_log: the events of the card
    sent,      \* how many of them were dispatched
    viewer     \* the card as a subscriber has it

patchVars == <<row, history, outbox, sent, viewer>>

Blank0 == [there |-> TRUE, rev |-> 0, title |-> 1, milestone |-> 0, blocked |-> FALSE, due |-> 0, label |-> 0]
Nothing == [Blank0 EXCEPT !.there = FALSE]

PatchTypeOK ==
    /\ row.rev \in 0..MaxEdits /\ Len(history) = row.rev + 1
    /\ sent \in 0..Len(outbox)
    /\ viewer.rev \in 0..row.rev
    /\ viewer.there => sent > 0

\* CreateCard commits the row and its event.
PatchInit ==
    /\ row = Blank0
    /\ history = <<Blank0>>
    /\ outbox = <<[type |-> "CardCreated"]>>
    /\ sent = 0
    /\ viewer = Nothing

-----------------------------------------------------------------------------
(* The patch of a request: each field, and the fields its mask names.      *)

Patch == [title : {0, 1}, milestone : {0, 1}, blocked : BOOLEAN, due : {0, 1},
          mask : SUBSET {"milestone", "blocked"}]

MilestoneApplies(p) == p.milestone # 0 \/ "milestone" \in p.mask
BlockedApplies(p) == p.blocked \/ "blocked" \in p.mask

\* Variant: the revision stays.
Updated_RevisionKept(p) == [row EXCEPT !.title = IF p.title # 0 THEN row.rev + 1 ELSE @]

\* Text and dates are set when they are given; milestone and blocked also when the
\* mask names them.
Updated(p) ==
    LET rev == row.rev + 1
    IN  [row EXCEPT !.rev = rev,
                    !.title = IF p.title # 0 THEN rev ELSE @,
                    !.due = IF p.due # 0 THEN rev ELSE @,
                    !.blocked = IF BlockedApplies(p) THEN p.blocked ELSE @,
                    !.milestone = IF MilestoneApplies(p) THEN p.milestone * rev ELSE @]

\* Variant: named by the mask is cleared.
MilestoneCleared_Masked(p) == "milestone" \in p.mask

MilestoneCleared(p) == MilestoneApplies(p) /\ p.milestone = 0

\* The payload names the values of the request, given or not; the due date is not
\* among them.
PatchPayload(p) ==
    [title |-> p.title * (row.rev + 1), milestone |-> p.milestone * (row.rev + 1),
     blocked |-> p.blocked, milestoneCleared |-> MilestoneCleared(p)]

Writes(new, event) ==
    /\ row' = new
    /\ history' = Append(history, new)
    /\ outbox' = Append(outbox, event)
    /\ UNCHANGED <<sent, viewer>>

EditCard ==
    \E p \in Patch :
        /\ row.there /\ row.rev < MaxEdits
        /\ Writes(Updated(p), [type |-> "CardUpdated", rev |-> row.rev + 1, patch |-> PatchPayload(p)])

\* The label ids stand beside the patch, which is absent.
NoPatch == [title |-> 0, milestone |-> 0, milestoneCleared |-> FALSE]

RelabelCard ==
    /\ row.there /\ row.rev < MaxEdits
    /\ Writes([row EXCEPT !.rev = @ + 1, !.label = row.rev + 1],
              [type |-> "CardUpdated", rev |-> row.rev + 1, patch |-> NoPatch])

DropCard ==
    /\ row.there
    /\ row' = [row EXCEPT !.there = FALSE]
    /\ outbox' = Append(outbox, [type |-> "CardDeleted"])
    /\ UNCHANGED <<history, sent, viewer>>

-----------------------------------------------------------------------------
(* Dispatch, in the order of the log, and the viewer's merge.              *)

\* Empty strings say that the field did not change.
IsUnchangedSentinel(value) == value = 0

\* The keys that are left are merged into the card.
Merged(p, rev) ==
    [viewer EXCEPT !.rev = rev,
                   !.title = IF p = NoPatch \/ IsUnchangedSentinel(p.title) THEN @ ELSE p.title,
                   !.milestone = IF p.milestoneCleared THEN 0
                                 ELSE IF p = NoPatch \/ IsUnchangedSentinel(p.milestone) THEN @ ELSE p.milestone,
                   !.blocked = IF p = NoPatch THEN @ ELSE p.blocked]

\* Variant: one off.
IsNews_AfterNext(rev) == rev > viewer.rev + 1

\* Drop the event when new_revision <= confirmed_revision.
IsNews(rev) == rev > viewer.rev

\* What the viewer has of the card after the event; the card of a CardCreated is
\* fetched now, or missing when it is gone.
Payload(event) ==
    CASE event.type = "CardCreated" -> IF row.there THEN row ELSE Nothing
      [] event.type = "CardDeleted" -> Nothing
      [] event.type = "CardUpdated" ->
            IF viewer.there /\ IsNews(event.rev) THEN Merged(event.patch, event.rev) ELSE viewer

DispatchNext ==
    /\ sent < Len(outbox)
    /\ sent' = sent + 1
    /\ viewer' = Payload(outbox[sent + 1])
    /\ UNCHANGED <<row, history, outbox>>

PatchNext == EditCard \/ RelabelCard \/ DropCard \/ DispatchNext

PatchSpec == PatchInit /\ [][PatchNext]_patchVars

-----------------------------------------------------------------------------
(* Properties.                                                             *)

Agrees(fields) == viewer.there => \A f \in fields : viewer[f] = history[viewer.rev + 1][f]

\* However late the events are dispatched, what a viewer shows is the card as it
\* was at the revision the viewer has: a card fetched for CardCreated is not set
\* back by the older patches behind it, a field that a request left out is not
\* overwritten, and a milestone that was cleared is cleared.
ShowsARevision == Agrees({"title", "milestone"})

\* The viewer follows to the end, a deletion included.
CaughtUp ==
    sent = Len(outbox) => viewer.there = row.there /\ (row.there => viewer.rev = row.rev)

\* A viewer shows the card as it was at one revision, and in the end as it is.
ViewerFollows == ShowsARevision /\ CaughtUp
=============================================================================
