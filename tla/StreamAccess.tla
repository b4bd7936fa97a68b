------------------------------ MODULE StreamAccess ------------------------------
(***************************************************************************)
(* Who may go on following a stream: build_subscribe_board_stream          *)
(* (src/src/services/boards.rs), its aggregated sibling                    *)
(* (aggregated_boards.rs) and SubscribeProject (projects.rs).  The         *)
(* visibility is read once, when the stream is asked for; from then on     *)
(* every turn of the loop checks the view relation again when its interval *)
(* has elapsed.  A turn is an envelope or a    *)
(* heartbeat.                                                              *)
(*                                                                         *)
(* Abstracted: one reader and one stream; what the envelopes say and       *)
(* whether they are complete (BoardStream, AggregateStream, ProjectStream).*)
(***************************************************************************)
EXTENDS Naturals

CONSTANT AccessChanges   \* bound: changes of the relation and of the visibility
ASSUME StreamAccessAssumption == AccessChanges \in Nat

VARIABLES
    following,    \* what: "board", "aggregate" or "project"
    openToAll,    \* the row is public or internal
    views,        \* the reader has view
    loop,         \* where the stream stands
    rechecked,    \* is_private, or always for a project
    due,          \* last_permission_recheck.elapsed() >= permission_recheck_interval
    accChanges,
    lately,       \* ghost: envelopes shown since the recheck was due
    gap           \* ghost: the reader lacked view at some time since the stream was asked for

accRows == <<following, openToAll, views, accChanges>>
accVars == <<accRows, loop, rechecked, due, lately, gap>>

Turning == {"top", "select"}

AccTypeOK ==
    /\ following \in {"board", "aggregate", "project"}
    /\ loop \in {"idle", "asked", "opened", "replay", "ended", "refused", "failed", "left"} \cup Turning
    /\ openToAll \in BOOLEAN /\ views \in BOOLEAN /\ gap \in BOOLEAN
    /\ rechecked \in BOOLEAN /\ due \in BOOLEAN
    /\ loop \in Turning /\ following = "project" => rechecked
    /\ due => loop \notin {"idle", "asked", "opened", "replay", "refused"}
    /\ accChanges <= AccessChanges

AccInit ==
    /\ following \in {"board", "aggregate", "project"}
    /\ openToAll \in BOOLEAN /\ views \in BOOLEAN
    /\ loop = "idle" /\ rechecked = FALSE /\ due = FALSE /\ accChanges = 0
    /\ lately = 0 /\ gap = FALSE

-----------------------------------------------------------------------------
(* The stream.                                                             *)

AskStream ==
    /\ loop = "idle" /\ loop' = "asked"
    /\ gap' = ~views
    /\ UNCHANGED <<accRows, rechecked, due, lately>>

\* The matrix has KanbanProject and view for SubscribeProject, and no check for the others.
AdmitStream ==
    /\ loop = "asked"
    /\ loop' = IF following = "project" /\ ~views THEN "refused" ELSE "opened"
    /\ UNCHANGED <<accRows, rechecked, due, lately, gap>>

\* Variant: a project is treated as a board is.
Rechecks_Private == ~openToAll

\* is_private
Rechecks == following = "project" \/ ~openToAll

ReadVisibility ==
    /\ loop = "opened" /\ loop' = "replay"
    /\ rechecked' = Rechecks
    /\ UNCHANGED <<accRows, due, lately, gap>>

\* The snapshot, if the stream has one
ReplaySnapshot ==
    /\ loop = "replay" /\ loop' = "top"
    /\ UNCHANGED <<accRows, rechecked, due, lately, gap>>

\* Variant: the interval alone decides.
NeedsRecheck_Due == due

NeedsRecheck == rechecked /\ due

\* revalidate_token answers Ok(true); revalidate_permission asks the backend.
Revalidate ==
    /\ loop = "top"
    /\ IF ~NeedsRecheck THEN loop' = "select" /\ UNCHANGED <<due, lately>>
       ELSE \/ loop' = (IF views THEN "select" ELSE "ended") /\ due' = FALSE /\ lately' = 0
            \/ loop' = "failed" /\ UNCHANGED <<due, lately>>
    /\ UNCHANGED <<accRows, rechecked, gap>>

DueStill == due

\* Variant: only a heartbeat goes through the checks.
AfterEnvelope_Select == "select"

AfterEnvelope == "top"

\* An envelope of the live tail
ShowEnvelope ==
    /\ loop = "select" /\ loop' = AfterEnvelope
    /\ due' = DueStill
    /\ lately' = IF rechecked /\ due /\ lately < 2 THEN lately + 1 ELSE lately
    /\ UNCHANGED <<accRows, rechecked, gap>>

\* Variant: a board on which nothing happens has no heartbeat.
Beats_Never == FALSE

Beats == loop = "select"

Heartbeat ==
    /\ Beats /\ loop' = "top"
    /\ due' = DueStill
    /\ UNCHANGED <<accRows, rechecked, lately, gap>>

IntervalElapses ==
    /\ loop \in Turning /\ ~due /\ due' = TRUE
    /\ UNCHANGED <<accRows, loop, rechecked, lately, gap>>

\* The client goes, or the stream ends for reasons that are not about access.
FollowerLeaves ==
    /\ loop \in Turning /\ loop' = "left"
    /\ UNCHANGED <<accRows, rechecked, due, lately, gap>>

-----------------------------------------------------------------------------
(* Others.                                                                 *)

AccessChange ==
    /\ accChanges < AccessChanges /\ accChanges' = accChanges + 1
    /\ \/ views' = ~views /\ UNCHANGED openToAll
       \/ openToAll' = ~openToAll /\ UNCHANGED views
    /\ gap' = (gap \/ (loop # "idle" /\ ~views'))
    /\ UNCHANGED <<following, loop, rechecked, due, lately>>

AccNext ==
    \/ AskStream \/ AdmitStream \/ ReadVisibility \/ ReplaySnapshot
    \/ Revalidate \/ ShowEnvelope \/ Heartbeat \/ IntervalElapses \/ FollowerLeaves \/ AccessChange

\* The loop runs, its heartbeat ticks and the clock goes on.
AccFairness == WF_accVars(Revalidate) /\ WF_accVars(Heartbeat) /\ WF_accVars(IntervalElapses)

AccSpec == AccInit /\ [][AccNext]_accVars /\ AccFairness

-----------------------------------------------------------------------------
(* Properties.                                                             *)

\* A stream that was private when it began ends once its reader has lost view for good, even
\* if nothing happens on the board, or if there is no pause between its envelopes.
RevokedStreamEnds ==
    (loop \in Turning /\ rechecked /\ []~views) ~> loop \in {"ended", "failed", "left"}

\* Between the moment a recheck is due and the recheck, one envelope is shown at most: the
\* one the loop was waiting for.
OneBeforeRecheck == lately <= 1

\* The server does not end a stream on a reader who held view all along, nor one that was
\* open to all when it began; if the backend does not answer, a stream that was private ends.
KeepsItsReaders ==
    /\ loop = "ended" => rechecked /\ gap
    /\ loop = "failed" => rechecked

\* The recheck of a stream comes before a second envelope is shown, and it ends the stream
\* on nobody who held view.
RechecksInTime == OneBeforeRecheck /\ KeepsItsReaders
=============================================================================
