------------------------------- MODULE Settings -------------------------------
(***************************************************************************)
(* Things that are named, described and deleted by hand, and who may do    *)
(* it: labels (src/src/services/labels.rs), milestones (milestones.rs),    *)
(* board and card templates (templates.rs), and the UpdateBoard (boards.rs)*)
(* UpdateAggregatedBoard (aggregated_boards.rs) and UpdateProject          *)
(* (projects.rs) requests.                                                 *)
(*                                                                         *)
(* A handler reads the scope of the row, asks the permission backend, and  *)
(* then writes the fields that the request names: three steps between      *)
(* which others write, relations change and projects go.                   *)
(*                                                                         *)
(* Abstracted: one row of one kind; a value is the request that wrote it.  *)
(***************************************************************************)
EXTENDS Integers, FiniteSets

CONSTANTS
    SetRequest,    \* bound: requests
    SetSubject,    \* callers
    SetObject,     \* projects, or the board or aggregate itself
    SetChanges,    \* bound: relations that change and projects that go
    Tenant,        \* the scope of a global label or template
    Initial        \* the value of a field that no request wrote

ASSUME SettingsAssumption ==
    /\ Tenant \notin SetObject /\ Initial \notin SetRequest /\ SetChanges \in Nat

VARIABLES
    setKind,    \* what the row is
    scope,      \* its project_id, the tenant, or the board or aggregate
    row,        \* its fields, or NoRow
    objects,    \* projects (boards, aggregates) that exist
    manages,    \* <<subject, object>>: manage, as the backend resolves it
    work,       \* the state of each request
    replayed,   \* what its events, in order, say of the row
    setChanges,
    heldManage, \* ghost: objects on which the caller held manage during the request
    named       \* ghost: the last request that named a field and was acknowledged

setTables == <<setKind, scope, row, objects, manages, replayed, setChanges>>
setVars == <<setTables, work, heldManage, named>>

Templates == {"template", "cardTemplate"}
Listed == {"label", "milestone"} \cup Templates
Field == {"name", "rest", "visibility"}
FieldsOf(kind) == IF kind \in {"board", "aggregate"} THEN Field ELSE {"name", "rest"}

NoRow == [f \in {} |-> Initial]
Untouched == [f \in Field |-> Initial]
NoWork == [at |-> "idle"]

SetTypeOK ==
    /\ row = NoRow \/ row \in [Field -> SetRequest \cup {Initial}]
    /\ row # NoRow => scope \in objects \cup {Tenant}
    /\ scope = Tenant => setKind \in {"label"} \cup Templates
    /\ manages \subseteq SetSubject \X SetObject
    /\ \A r \in SetRequest : heldManage[r] \subseteq SetObject

SetInit ==
    /\ setKind \in Listed \cup {"board", "aggregate", "project"}
    /\ scope \in SetObject \cup (IF setKind \in {"label"} \cup Templates THEN {Tenant} ELSE {})
    /\ row \in {Untouched} \cup (IF setKind \in Listed /\ scope # Tenant THEN {NoRow} ELSE {})
    /\ objects = SetObject
    /\ manages \in SUBSET (SetSubject \X SetObject)
    /\ work = [r \in SetRequest |-> NoWork]
    /\ replayed = Untouched
    /\ setChanges = 0
    /\ heldManage = [r \in SetRequest |-> {}]
    /\ named = Untouched

Holds(who) == {o \in SetObject : <<who, o>> \in manages}

-----------------------------------------------------------------------------
(* Requests.                                                               *)

Step(r, next) == work' = [work EXCEPT ![r] = next]

\* Boards, aggregates and projects are checked before their handler, and again
\* only to change a visibility.
FirstStep(verb, fields) ==
    IF verb = "create" THEN "check"
    ELSE IF setKind \in Listed THEN "read"
    ELSE IF "visibility" \in fields THEN "check" ELSE "write"

\* Where a row can be created: global templates cannot.
Creatable == CASE setKind = "label" -> SetObject \cup {Tenant}
               [] setKind \in Listed \ {"label"} -> SetObject
               [] OTHER -> {}

BeginSetting(r) ==
    \E who \in SetSubject, verb \in {"create", "update", "delete"}, fields \in SUBSET FieldsOf(setKind) :
      \E asked \in IF verb = "create" THEN Creatable ELSE {scope} :
        /\ work[r] = NoWork
        /\ (verb = "update") = (fields # {})
        /\ verb = "create" => row = NoRow
        /\ verb = "delete" => setKind \in Listed
        /\ Step(r, [at |-> FirstStep(verb, fields), who |-> who, verb |-> verb, fields |-> fields,
                    scope |-> asked, left |-> {}])
        /\ heldManage' = [heldManage EXCEPT ![r] = Holds(who)]
        /\ UNCHANGED <<setTables, named>>

Finish(r, how) == Step(r, [work[r] EXCEPT !.at = how]) /\ UNCHANGED heldManage

\* The row names its scope; NotFound without a row.
ReadScopeOf(r, mayChange) ==
    /\ work[r].at = "read"
    /\ IF row = NoRow \/ ~mayChange THEN Finish(r, "refused")
       ELSE Step(r, [work[r] EXCEPT !.at = "check", !.scope = scope]) /\ UNCHANGED heldManage
    /\ UNCHANGED <<setTables, named>>

ReadLabel(r) == setKind = "label" /\ ReadScopeOf(r, TRUE)

LoadMilestone(r) == setKind = "milestone" /\ ReadScopeOf(r, TRUE)

\* PermissionDenied for a global template.
ReadTemplate(r) == setKind = "template" /\ ReadScopeOf(r, scope # Tenant)

ReadCardTemplate(r) == setKind = "cardTemplate" /\ ReadScopeOf(r, scope # Tenant)

\* Variant: manage on any project will do for the label of a project as well.
AnyProjectWillDo_Always(r) == work[r].scope = Tenant \/ setKind = "label"

AnyProjectWillDo(r) == work[r].scope = Tenant

CheckManage(r) ==
    /\ work[r].at = "check" /\ ~AnyProjectWillDo(r)
    /\ Finish(r, IF work[r].scope \in Holds(work[r].who) THEN "write" ELSE "refused")
    /\ UNCHANGED <<setTables, named>>

\* check_global_label_permission: the projects of the tenant, ...
ListTenantProjects(r) ==
    /\ work[r].at = "check" /\ AnyProjectWillDo(r)
    /\ Step(r, [work[r] EXCEPT !.at = "checkAny", !.left = objects]) /\ UNCHANGED heldManage
    /\ UNCHANGED <<setTables, named>>

\* ... one check after the other, until one is granted.
CheckAnyManage(r) ==
    /\ work[r].at = "checkAny"
    /\ IF work[r].left = {} THEN Finish(r, "refused")
       ELSE \E o \in work[r].left :
              IF o \in Holds(work[r].who) THEN Finish(r, "write")
              ELSE Step(r, [work[r] EXCEPT !.left = @ \ {o}]) /\ UNCHANGED heldManage
    /\ UNCHANGED <<setTables, named>>

-----------------------------------------------------------------------------
(* Writes.                                                                 *)

\* Variant: fields that are not named get the values of a blank patch.
Patched_Whole(r) == [f \in Field |-> IF f \in work[r].fields THEN r ELSE Initial]

\* SET f = COALESCE(patch, f), or CASE WHEN named THEN patch ELSE f.
Patched(r) == [f \in Field |-> IF f \in work[r].fields THEN r ELSE row[f]]

\* Variant: the event carries the patch.
EventSays_Patch(r) == [f \in Field |-> IF f \in work[r].fields \ {"visibility"} THEN r ELSE Initial]

\* BoardRenamed has the new name, BoardUpdated and ProjectUpdated have the row as
\* written; a visibility is in none, and AggregatedBoardUpdated has no fields.
EventSays(r) ==
    LET fields == work[r].fields
    IN  CASE setKind = "board" /\ "rest" \in fields   -> [Patched(r) EXCEPT !["visibility"] = replayed["visibility"]]
          [] setKind = "board" /\ fields \cap {"name", "rest"} = {"name"} -> [replayed EXCEPT !["name"] = r]
          [] setKind = "project" -> Patched(r)
          [] OTHER -> replayed

Updates(r, said) ==
    /\ work[r].at = "write" /\ work[r].verb = "update" /\ row # NoRow
    /\ row' = Patched(r)
    /\ replayed' = said
    /\ named' = [f \in Field |-> IF f \in work[r].fields THEN r ELSE named[f]]
    /\ Finish(r, "done")
    /\ UNCHANGED <<setKind, scope, objects, manages, setChanges>>

UpdateLabel(r) == setKind = "label" /\ Updates(r, replayed)

UpdateMilestone(r) == setKind = "milestone" /\ Updates(r, replayed)

UpdateTemplate(r) == setKind = "template" /\ Updates(r, replayed)

UpdateCardTemplate(r) == setKind = "cardTemplate" /\ Updates(r, replayed)

UpdateBoard(r) == setKind = "board" /\ Updates(r, EventSays(r))

UpdateAggregatedBoard(r) == setKind = "aggregate" /\ Updates(r, replayed)

UpdateProject(r) == setKind = "project" /\ Updates(r, EventSays(r))

Deletes(r) ==
    /\ work[r].at = "write" /\ work[r].verb = "delete" /\ row # NoRow
    /\ row' = NoRow
    /\ Finish(r, "done")
    /\ UNCHANGED <<setKind, scope, objects, manages, replayed, setChanges, named>>

\* Card assignments go with a label, the milestone of cards with a milestone
\* (CardProject).
DeleteLabel(r) == setKind = "label" /\ Deletes(r)

DeleteMilestone(r) == setKind = "milestone" /\ Deletes(r)

DeleteTemplate(r) == setKind = "template" /\ Deletes(r)

DeleteCardTemplate(r) == setKind = "cardTemplate" /\ Deletes(r)

\* UPDATE ... RETURNING has no row (internal), DELETE has none (NotFound).
WriteFindsNone(r) ==
    /\ work[r].at = "write" /\ work[r].verb \in {"update", "delete"} /\ row = NoRow
    /\ Finish(r, "refused")
    /\ UNCHANGED <<setTables, named>>

\* Variant: the project need not be there.
Insertable_Any(o) == TRUE

\* project_id REFERENCES projects(id)
Insertable(o) == o = Tenant \/ o \in objects

\* One row only: a second create makes another one, which is not followed.
Creates(r) ==
    /\ work[r].at = "write" /\ work[r].verb = "create"
    /\ IF Insertable(work[r].scope) /\ row = NoRow
       THEN /\ row' = Untouched /\ named' = Untouched
            /\ scope' = work[r].scope
            /\ Finish(r, "done")
            /\ UNCHANGED <<setKind, objects, manages, replayed, setChanges>>
       ELSE Finish(r, "refused") /\ UNCHANGED <<setTables, named>>

CreateLabel(r) == setKind = "label" /\ Creates(r)

CreateMilestone(r) == setKind = "milestone" /\ Creates(r)

CreateTemplate(r) == setKind = "template" /\ Creates(r)

CreateCardTemplate(r) == setKind = "cardTemplate" /\ Creates(r)

-----------------------------------------------------------------------------
(* Others.                                                                 *)

Occurs == setChanges < SetChanges /\ setChanges' = setChanges + 1

ManageChanges ==
    \E s \in SetSubject, o \in SetObject :
        /\ Occurs
        /\ manages' = IF <<s, o>> \in manages THEN manages \ {<<s, o>>} ELSE manages \cup {<<s, o>>}
        /\ heldManage' = [r \in SetRequest |->
              IF work[r] # NoWork /\ work[r].at \notin {"done", "refused"} /\ work[r].who = s
              THEN heldManage[r] \cup {o} ELSE heldManage[r]]
        /\ UNCHANGED <<setKind, scope, row, objects, work, replayed, named>>

\* ON DELETE CASCADE; the tuples stay.
ObjectGoes(kinds) ==
    /\ setKind \in kinds
    /\ \E o \in objects :
        /\ Occurs
        /\ objects' = objects \ {o}
        /\ row' = IF scope = o THEN NoRow ELSE row
        /\ UNCHANGED <<setKind, scope, manages, work, replayed, heldManage, named>>

ProjectGoes == ObjectGoes(Listed \cup {"project"})

BoardOfRowGoes == ObjectGoes({"board"})

DeleteAggregatedBoard == ObjectGoes({"aggregate"})

SetNext ==
    \/ \E r \in SetRequest :
         \/ BeginSetting(r)
         \/ ReadLabel(r) \/ LoadMilestone(r) \/ ReadTemplate(r) \/ ReadCardTemplate(r)
         \/ CheckManage(r) \/ ListTenantProjects(r) \/ CheckAnyManage(r)
         \/ CreateLabel(r) \/ CreateMilestone(r) \/ CreateTemplate(r) \/ CreateCardTemplate(r)
         \/ UpdateLabel(r) \/ UpdateMilestone(r) \/ UpdateTemplate(r) \/ UpdateCardTemplate(r)
         \/ UpdateBoard(r) \/ UpdateAggregatedBoard(r) \/ UpdateProject(r)
         \/ DeleteLabel(r) \/ DeleteMilestone(r) \/ DeleteTemplate(r) \/ DeleteCardTemplate(r)
         \/ WriteFindsNone(r)
    \/ ManageChanges \/ ProjectGoes \/ BoardOfRowGoes \/ DeleteAggregatedBoard

SetSpec == SetInit /\ [][SetNext]_setVars

-----------------------------------------------------------------------------
(* Properties.                                                             *)

\* Whoever wrote held manage at some moment of the request: on the project of the
\* row, on some project for what is global, and for a board or an aggregate if
\* the visibility was changed.
WriterHeldManage ==
    \A r \in SetRequest :
        (work[r].at = "done" /\ (setKind \in Listed \/ "visibility" \in work[r].fields)) =>
            IF work[r].scope = Tenant THEN heldManage[r] # {} ELSE work[r].scope \in heldManage[r]

\* Requests that overlap and name different fields do not undo each other: a
\* field keeps the value of the last acknowledged request that named it.
NoLostUpdate == row # NoRow => \A f \in Field : row[f] = named[f]

\* A client that knows a board or a project by its events knows its name and the
\* rest as they are.
EventsTellRow ==
    (setKind \in {"board", "project"} /\ row # NoRow) =>
        \A f \in {"name", "rest"} : replayed[f] = row[f]

\* A change is made by those who may, is undone by no request that overlaps, and is told.
UpdatesAreKept == WriterHeldManage /\ NoLostUpdate /\ EventsTellRow
=============================================================================
