-------------------------------- MODULE Requests --------------------------------
(***************************************************************************)
(* What a request passes before its handler: the introspection of its      *)
(* token, with a service token that is cached and may have been revoked    *)
(* (src/src/auth/session_client.rs), and the check of the relation that    *)
(* the dispatch matrix names for its method, on the object in its header   *)
(* (src/src/auth/permission_dispatch.rs).  Meanwhile sessions end and      *)
(* relations are granted and removed.                                      *)
(*                                                                         *)
(* Abstracted: one caller; a relation on an object is held or not (that    *)
(* manage includes edit is the backend's affair); a request that runs      *)
(* remembers what its method took, not which method it was; a service      *)
(* token is its generation; the retries of the client (Permissions).       *)
(***************************************************************************)
EXTENDS Naturals, FiniteSets

CONSTANTS
    Arrivals,       \* bound: requests
    ReqObject,      \* objects
    NamespaceOf,    \* of each: what it is
    MaxRotations,   \* bound: times the gateway revokes the service token
    MaxFaults,      \* bound: faults of the gateway
    MaxTurns        \* bound: changes of the session and of the relations

ASSUME RequestsAssumption ==
    Arrivals \in Nat /\ MaxRotations \in Nat /\ MaxFaults \in Nat /\ MaxTurns \in Nat

Arrival == 1..Arrivals
Absent == "absent"
ASSUME AbsentAssumption == Absent \notin ReqObject

\* DispatchEntry, for the methods that share one: what they take, or nothing of a caller,
\* in which case the handler filters or checks.
Anyone(methods) == [methods |-> methods, source |-> "none", namespace |-> "none", relation |-> "none"]
Takes(relation, namespace, methods) ==
    [methods |-> methods, source |-> "header", namespace |-> namespace, relation |-> relation]

ProjectMethods ==
    {Anyone({"ListProjects", "CreateProject"}),
     Takes("view", "KanbanProject", {"GetProject", "ListMembers", "SubscribeProject"}),
     Takes("edit", "KanbanProject", {"UpdateProject"}),
     Takes("manage", "KanbanProject", {"DeleteProject", "AddMember", "RemoveMember"})}

BoardMethods ==
    {Anyone({"ListBoards", "GetBoard", "SubscribeBoard"}),
     Takes("edit", "KanbanProject", {"CreateBoard"}),
     Takes("edit", "KanbanBoard", {"UpdateBoard", "AddColumn", "UpdateColumn", "RemoveColumn", "MoveColumn"}),
     Takes("manage", "KanbanBoard", {"DeleteBoard"})}

\* The handler of TransferCard takes edit on the target board as well; a comment is
\* written by whoever can view, and edited by its author.
CardMethods ==
    {Takes("view", "KanbanCard", {"GetCard", "ListComments", "AddComment", "EditComment"}),
     Takes("view", "KanbanBoard", {"BatchGetCards", "ListCardsByBoard"}),
     Takes("edit", "KanbanBoard", {"CreateCard", "AddCardDependency", "RemoveCardDependency", "BulkUpdateCardLabels"}),
     Takes("edit", "KanbanCard", {"UpdateCard", "MoveCard", "TransferCard", "AssignCard", "UnassignCard", "AddChecklistItem",
            "UpdateChecklistItem", "RemoveChecklistItem", "DeleteComment"}),
     Takes("manage", "KanbanCard", {"DeleteCard"})}

\* By the card, which is what the backend knows.
AttachmentMethods ==
    {Takes("view", "KanbanCard", {"RequestPresignedDownload", "ListAttachmentsByCard"}),
     Takes("edit", "KanbanCard", {"RequestPresignedUpload", "ConfirmUpload", "DeleteAttachment"})}

GithubLinkMethods ==
    {Takes("view", "KanbanCard", {"ListLinksByCard", "SearchGithubIssues"}),
     Takes("edit", "KanbanCard", {"LinkIssue", "UnlinkIssue", "ResyncLink"})}

AggregatedBoardMethods ==
    {Anyone({"CreateAggregatedBoard", "GetAggregatedBoard", "ListAggregatedBoards", "SubscribeAggregatedBoard"}),
     Takes("edit", "KanbanAggregatedBoard", {"UpdateAggregatedBoard"}),
     Takes("manage", "KanbanAggregatedBoard", {"DeleteAggregatedBoard", "AddSourceBoard", "RemoveSourceBoard", "MoveSourceBoard"})}

\* Search, templates, milestones and labels are no objects of the backend.
CatalogueMethods ==
    {Anyone({"SearchCards"} \cup
           {"ListTemplates", "GetTemplate", "CreateTemplate", "UpdateTemplate", "DeleteTemplate",
            "ListCardTemplates", "GetCardTemplate", "CreateCardTemplate", "UpdateCardTemplate", "DeleteCardTemplate"} \cup
           {"CreateMilestone", "ListMilestones", "GetMilestone", "UpdateMilestone", "DeleteMilestone"} \cup
           {"CreateLabel", "ListLabels", "UpdateLabel", "DeleteLabel"})}

\* MATRIX
Matrix ==
    UNION {ProjectMethods, BoardMethods, CardMethods, AttachmentMethods, GithubLinkMethods,
           AggregatedBoardMethods, CatalogueMethods}

\* BYPASSED_METHODS are served by a router of their own, without a token.
Bypassed == {"GetPublicBoard", "ListPublicBoards"}

Methods == UNION {entry.methods : entry \in Matrix}
ASSUME MatrixAssumption == Cardinality(Methods) = 78 /\ Methods \cap Bypassed = {}

\* The relations of the caller on objects, each of one namespace
GrantRelation == {<<NamespaceOf[o], o, relation>> : o \in ReqObject, relation \in {"view", "edit", "manage"}}

VARIABLES
    session,     \* whether the token of the caller is active
    holds,       \* the relations of the caller
    svcValid,    \* the generation of the service token the gateway takes
    svcCached,   \* the one the provider has, 0 for none
    request,
    rotations, faults, turns,
    sinceThen    \* ghost: what was so at some time since a request arrived

reqVars == <<session, holds, svcValid, svcCached, request, rotations, faults, turns, sinceThen>>

NoRequest == [took |-> "nothing", step |-> "idle", token |-> 0, tries |-> 0, object |-> Absent]

ReqTypeOK ==
    /\ session \in BOOLEAN /\ holds \subseteq GrantRelation
    /\ svcCached \in 0..svcValid /\ svcValid \in 1..(MaxRotations + 1)
    /\ \A r \in Arrival :
         /\ request[r].step \in {"idle", "token", "sent", "known", "runs", "unauthenticated", "refused"}
         /\ request[r].tries \in 0..1 /\ request[r].token \in 0..svcValid
         /\ request[r].object \in ReqObject \cup {Absent}
    /\ rotations <= MaxRotations /\ faults <= MaxFaults /\ turns <= MaxTurns

ReqInit ==
    /\ session = TRUE /\ holds \in SUBSET GrantRelation
    /\ svcValid = 1 /\ svcCached = 0
    /\ request = [r \in Arrival |-> NoRequest]
    /\ rotations = 0 /\ faults = 0 /\ turns = 0
    /\ sinceThen = [r \in Arrival |-> [active |-> FALSE, ended |-> FALSE, held |-> {}, troubled |-> FALSE]]

\* A request that is turned away is forgotten.
TurnedAway(step) == [NoRequest EXCEPT !.step = step]

-----------------------------------------------------------------------------
\* A request with a token. Its method and its object are first looked at by the dispatcher.
Arrive(r) ==
    /\ request[r] = NoRequest /\ \A q \in 1..(r - 1) : request[q] # NoRequest
    /\ request' = [request EXCEPT ![r].step = "token"]
    /\ sinceThen' = [sinceThen EXCEPT ![r] = [active |-> session, ended |-> ~session, held |-> holds, troubled |-> FALSE]]
    /\ UNCHANGED <<session, holds, svcValid, svcCached, rotations, faults, turns>>

\* provider.token(): the cached one or a new one.
TakeServiceToken(r) ==
    /\ request[r].step = "token"
    /\ svcCached' = IF svcCached = 0 THEN svcValid ELSE svcCached
    /\ request' = [request EXCEPT ![r].step = "sent", ![r].token = svcCached']
    /\ UNCHANGED <<session, holds, svcValid, rotations, faults, turns, sinceThen>>

\* Variant: the rejected token stays in the cache.
Invalidated_Kept == svcCached

\* provider.invalidate(), whatever another request has put there meanwhile
Invalidated == 0

\* Variant: as often as it takes.
MayRetry_Always(r) == TRUE

MayRetry(r) == request[r].tries = 0

\* The gateway takes the service token, or answers 401; the first 401 is tried again.
Introspected(r) ==
    /\ request[r].step = "sent"
    /\ IF request[r].token = svcValid
       THEN /\ request' = [request EXCEPT ![r] = IF session THEN [@ EXCEPT !.step = "known", !.token = 0, !.tries = 0]
                                                 ELSE TurnedAway("unauthenticated")]
            /\ UNCHANGED svcCached
       ELSE IF MayRetry(r)
       THEN /\ svcCached' = Invalidated
            /\ request' = [request EXCEPT ![r].step = "token", ![r].tries = @ + 1, ![r].token = 0]
       ELSE /\ request' = [request EXCEPT ![r] = TurnedAway("unauthenticated")]
            /\ UNCHANGED svcCached
    /\ UNCHANGED <<session, holds, svcValid, rotations, faults, turns, sinceThen>>

Troubled(q) == [r \in Arrival |-> IF request[r].step \in q THEN [sinceThen[r] EXCEPT !.troubled = TRUE] ELSE sinceThen[r]]

\* No answer, or no good one: the request fails closed.
GatewayFault(r) ==
    /\ request[r].step \in {"token", "sent", "known"} /\ faults < MaxFaults
    /\ faults' = faults + 1
    /\ request' = [request EXCEPT ![r] = TurnedAway(IF @.step = "known" THEN "refused" ELSE "unauthenticated")]
    /\ sinceThen' = [sinceThen EXCEPT ![r].troubled = TRUE]
    /\ UNCHANGED <<session, holds, svcValid, svcCached, rotations, turns>>

-----------------------------------------------------------------------------
\* Variant: a method that is not in the matrix is checked by nobody.
Unlisted_Open == Anyone({"unknown"})

\* A method that is not in the matrix fails closed.
Unlisted == [methods |-> {"unknown"}, source |-> "nowhere", namespace |-> "none", relation |-> "none"]

\* CheckedObjectId: the handler acts on what was checked.
CheckedObject(h) == h

Runs(took, o) == [NoRequest EXCEPT !.took = took, !.object = o, !.step = "runs"]

\* dispatch_check; some requests send no object id.
Dispatched(r) ==
    \E entry \in Matrix \cup {Unlisted}, h \in ReqObject \cup {Absent} :
        LET took == IF entry.methods \subseteq Methods THEN entry.relation ELSE "unknown"
        IN  /\ request[r].step = "known"
            /\ request' = [request EXCEPT ![r] =
                 IF entry.source = "none" THEN Runs(took, Absent)
                 ELSE IF entry.source = "header" /\ h # Absent /\ <<entry.namespace, h, entry.relation>> \in holds
                 THEN Runs(took, CheckedObject(h))
                 ELSE TurnedAway("refused")]
            /\ UNCHANGED <<session, holds, svcValid, svcCached, rotations, faults, turns, sinceThen>>

-----------------------------------------------------------------------------
\* Seen by every request that has arrived
Witnessed(s, h) ==
    [r \in Arrival |-> IF request[r] = NoRequest THEN sinceThen[r]
                       ELSE [sinceThen[r] EXCEPT !.active = @ \/ s, !.ended = @ \/ ~s, !.held = @ \cup h]]

\* The session ends for good.
SessionEnds ==
    /\ session /\ turns < MaxTurns /\ turns' = turns + 1
    /\ session' = FALSE
    /\ sinceThen' = Witnessed(FALSE, {})
    /\ UNCHANGED <<holds, svcValid, svcCached, request, rotations, faults>>

RelationChanges ==
    /\ turns < MaxTurns /\ turns' = turns + 1
    /\ \/ \E x \in GrantRelation : holds' = holds \cup {x}
       \/ \E x \in holds : holds' = holds \ {x}
    /\ sinceThen' = Witnessed(session, holds')
    /\ UNCHANGED <<session, svcValid, svcCached, request, rotations, faults>>

\* The gateway takes only a newer service token from now on.
Rotate ==
    /\ rotations < MaxRotations /\ rotations' = rotations + 1
    /\ svcValid' = svcValid + 1
    /\ sinceThen' = Troubled({"token", "sent"})
    /\ UNCHANGED <<session, holds, svcCached, request, faults, turns>>

ReqNext ==
    \/ \E r \in Arrival : Arrive(r) \/ TakeServiceToken(r) \/ Introspected(r) \/ GatewayFault(r) \/ Dispatched(r)
    \/ SessionEnds \/ RelationChanges \/ Rotate

ReqSpec == ReqInit /\ [][ReqNext]_reqVars

-----------------------------------------------------------------------------
(* Properties.                                                             *)

\* A handler that acts on an object does so for a caller who, since the request arrived,
\* had an active session and held, on that very object, the relation of its method: not
\* on the object of the body, not on one of another kind, and not by what an earlier
\* request had found out.  A method that is in no matrix has no handler that runs.
RunsOnlyIfHeld ==
    \A r \in Arrival : request[r].step = "runs" =>
        /\ sinceThen[r].active /\ request[r].took # "unknown"
        /\ request[r].object # Absent =>
             <<NamespaceOf[request[r].object], request[r].object, request[r].took>> \in sinceThen[r].held

\* A service token that was revoked before a request arrived, whoever cached it, does not
\* turn away a caller whose session lasts: the second attempt has a new one.
RevokedTokenIsReplaced ==
    \A r \in Arrival : request[r].step = "unauthenticated" => sinceThen[r].ended \/ sinceThen[r].troubled

\* A handler runs for those who hold its relation, and a revoked service token turns
\* nobody else away.
RequestsAreChecked == RunsOnlyIfHeld /\ RevokedTokenIsReplaced
=============================================================================
