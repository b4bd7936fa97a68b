---------------------------- MODULE ProjectMembers ----------------------------
(***************************************************************************)
(* A project and its members (src/src/services/projects.rs): CreateProject *)
(* with its idempotency key, AddMember, RemoveMember, UpdateProject and    *)
(* DeleteProject.                                                          *)
(*                                                                         *)
(* A member has a role in the permission backend, as a tuple, and in the   *)
(* table project_members, its mirror.  No transaction spans the two: every *)
(* handler calls the backend first and writes the table after it, and a    *)
(* failed call stops some handlers and not others.                         *)
(*                                                                         *)
(* Abstracted: one project of one tenant, whose slug is the only one asked *)
(* for; names and prefixes are left out; the events of a member are the    *)
(* last one committed.                                                     *)
(***************************************************************************)
EXTENDS FiniteSets, Naturals

CONSTANTS
    Member,        \* the subjects that requests name
    Owner,         \* the subject that creates the project
    MemRequest     \* bound: the requests ever made

ASSUME MembersAssumption == Owner \in Member

Role == {"admin", "editor", "viewer"}       \* what AddMember accepts
AnyRole == Role \cup {"owner"}

VARIABLES
    project,       \* projects: "absent", "there" or "deleted"
    keyStored,     \* idempotency_keys: whether the key of CreateProject is stored
    grants,        \* tuples of the project: pairs of a subject and a role
    mirror,        \* project_members: role by subject, "none" without a row
    news,          \* the last member event by subject
    memStep, memAsk, memRead,
    memFaults,     \* the kinds of calls that failed
    memAlone,      \* whether requests come one at a time
    cleared        \* the members removed while no other request was under way, and not named since

memTables == <<project, keyStored, grants, mirror, news>>
memVars == <<memTables, memStep, memAsk, memRead, memFaults, memAlone, cleared>>

MembersTypeOK ==
    /\ project \in {"absent", "there", "deleted"} /\ keyStored \in BOOLEAN
    /\ grants \subseteq Member \X AnyRole
    /\ mirror \in [Member -> AnyRole \cup {"none"}]
    /\ news \in [Member -> [kind : {"none", "added", "changed", "removed"}, role : AnyRole \cup {"none"}]]
    /\ cleared \subseteq Member
    /\ \A r \in MemRequest : memStep[r] = "ungrant" => memRead[r] \in AnyRole \ {memAsk[r].role}
    /\ memStep \in [MemRequest -> {"idle", "ungrant", "grant", "viewer", "mirror", "news", "key", "done"}]

NoNews == [kind |-> "none", role |-> "none"]
NoMemAsk == [kind |-> "none", member |-> Owner, role |-> "none"]

MembersInit ==
    /\ project = "absent" /\ keyStored = FALSE
    /\ grants = {}
    /\ mirror = [m \in Member |-> "none"]
    /\ news = [m \in Member |-> NoNews]
    /\ memStep = [r \in MemRequest |-> "idle"]
    /\ memAsk = [r \in MemRequest |-> NoMemAsk]
    /\ memRead = [r \in MemRequest |-> "none"]
    /\ memFaults = {}
    /\ memAlone \in BOOLEAN
    /\ cleared = {}

NoneUnderWay == \A q \in MemRequest : memStep[q] \in {"idle", "done"}

\* A request arrives and takes its first step.
Arrives(r, ask) ==
    /\ memStep[r] = "idle" /\ (memAlone => NoneUnderWay)
    /\ memAsk' = [memAsk EXCEPT ![r] = ask]
    /\ cleared' = IF ask.kind = "remove" /\ NoneUnderWay THEN cleared \cup {ask.member}
                  ELSE cleared \ {ask.member}
    /\ UNCHANGED memAlone

Continues(r, at, kind) ==
    memStep[r] = at /\ memAsk[r].kind = kind /\ UNCHANGED <<memAsk, memAlone, cleared>>

Then(r, step) == memStep' = [memStep EXCEPT ![r] = step]

\* A handler that ends forgets what it read.
Leaves(r) == Then(r, "done") /\ memRead' = [memRead EXCEPT ![r] = "none"]

Fails(kind) == memFaults' = memFaults \cup {kind}

HasRow(m) == mirror[m] # "none"
TuplesOf(m) == {g \in grants : g[1] = m}

-----------------------------------------------------------------------------
(* CreateProject.                                                          *)

\* The key answers only while the project is there.
ReplayCreate(r) ==
    /\ Arrives(r, [kind |-> "create", member |-> Owner, role |-> "owner"])
    /\ keyStored /\ project = "there"
    /\ Leaves(r)
    /\ UNCHANGED <<memTables, memFaults>>

\* UNIQUE (tenant_id, slug).
CreateRefused(r) ==
    /\ Arrives(r, [kind |-> "create", member |-> Owner, role |-> "owner"])
    /\ ~keyStored /\ project = "there"
    /\ Leaves(r)
    /\ UNCHANGED <<memTables, memFaults>>

\* The row is there before any tuple.
InsertProject(r) ==
    /\ Arrives(r, [kind |-> "create", member |-> Owner, role |-> "owner"])
    /\ project = "absent"
    /\ project' = "there"
    /\ Then(r, "grant")
    /\ UNCHANGED <<keyStored, grants, mirror, news, memRead, memFaults>>

\* The owner tuple, then the viewer tuple; a failure ends the request with an
\* error and leaves the row.
GrantOwner(r) ==
    /\ \/ Continues(r, "grant", "create") /\ grants' = grants \cup {<<Owner, "owner">>} /\ Then(r, "viewer")
       \/ Continues(r, "viewer", "create") /\ grants' = grants \cup {<<Owner, "viewer">>} /\ Then(r, "mirror")
    /\ UNCHANGED <<project, keyStored, mirror, news, memRead, memFaults>>

GrantOwnerFails(r) ==
    /\ Continues(r, "grant", "create") \/ Continues(r, "viewer", "create")
    /\ Fails("createGrant") /\ Leaves(r)
    /\ UNCHANGED memTables

\* ON CONFLICT DO NOTHING; the foreign key refuses it when the project is gone.
MirrorOwner(r) ==
    /\ Continues(r, "mirror", "create")
    /\ mirror' = IF HasRow(Owner) \/ project # "there" THEN mirror ELSE [mirror EXCEPT ![Owner] = "owner"]
    /\ Then(r, "key")
    /\ UNCHANGED <<project, keyStored, grants, news, memRead, memFaults>>

StoreKey(r) ==
    /\ Continues(r, "key", "create")
    /\ keyStored' = TRUE
    /\ Leaves(r)
    /\ UNCHANGED <<project, grants, mirror, news, memFaults>>

-----------------------------------------------------------------------------
(* AddMember.                                                              *)

\* Variant: the new role is granted beside the old one.
IsStale_Never(have, asked) == FALSE

\* Variant: whoever has no role yet has a stale one.
IsStale_OrNone(have, asked) == have # asked

IsStale(have, asked) == have \notin {"none", asked}

ReadRole(r) ==
    /\ project = "there"
    /\ \E m \in Member, x \in Role :
         /\ Arrives(r, [kind |-> "add", member |-> m, role |-> x])
         /\ memRead' = [memRead EXCEPT ![r] = mirror[m]]
         /\ Then(r, IF IsStale(mirror[m], x) THEN "ungrant" ELSE "grant")
    /\ UNCHANGED <<memTables, memFaults>>

\* The tuple of the role that the mirror showed goes; a failure is logged.
UngrantStale(r) ==
    /\ Continues(r, "ungrant", "add")
    /\ \/ grants' = grants \ {<<memAsk[r].member, memRead[r]>>} /\ UNCHANGED memFaults
       \/ Fails("staleUngrant") /\ UNCHANGED grants
    /\ Then(r, "grant")
    /\ UNCHANGED <<project, keyStored, mirror, news, memRead>>

GrantRole(r) ==
    /\ Continues(r, "grant", "add")
    /\ grants' = grants \cup {<<memAsk[r].member, memAsk[r].role>>}
    /\ Then(r, "mirror")
    /\ UNCHANGED <<project, keyStored, mirror, news, memRead, memFaults>>

\* The request ends with an error; the stale tuple is gone already.
GrantRoleFails(r) ==
    /\ Continues(r, "grant", "add")
    /\ Fails("addGrant") /\ Leaves(r)
    /\ UNCHANGED memTables

\* Variant: a member that has a row keeps the role in it.
Upserted_Nothing(a) == IF HasRow(a.member) THEN mirror ELSE [mirror EXCEPT ![a.member] = a.role]

\* ON CONFLICT DO UPDATE SET role
Upserted(a) == [mirror EXCEPT ![a.member] = a.role]

\* Best effort: a failure is logged, and the event is written all the same.
MirrorRole(r) ==
    /\ Continues(r, "mirror", "add")
    /\ \/ project = "there" /\ mirror' = Upserted(memAsk[r]) /\ UNCHANGED memFaults
       \/ Fails("addMirror") /\ UNCHANGED mirror
    /\ Then(r, "news")
    /\ UNCHANGED <<project, keyStored, grants, news, memRead>>

\* MemberRoleChanged when the role that was read is another one.
AnnounceRole(r) ==
    LET a == memAsk[r]
    IN  /\ Continues(r, "news", "add")
        /\ news' = IF project # "there" THEN news
                   ELSE [news EXCEPT ![a.member] =
                          [kind |-> IF memRead[r] \in {"none", a.role} THEN "added" ELSE "changed",
                           role |-> a.role]]
        /\ Leaves(r)
        /\ UNCHANGED <<project, keyStored, grants, mirror, memFaults>>

-----------------------------------------------------------------------------
(* RemoveMember, UpdateProject and DeleteProject.                          *)

\* Variant: only the role that the mirror shows is revoked.
Revoked_Mirrored(m) == {<<m, mirror[m]>>}

\* Every role the subject holds on this project.
Revoked(m) == TuplesOf(m)

\* A failure is logged, and the row goes all the same.
RevokeMember(r) ==
    /\ project = "there"
    /\ \E m \in Member :
         /\ Arrives(r, [kind |-> "remove", member |-> m, role |-> "none"])
         /\ \/ grants' = grants \ Revoked(m) /\ UNCHANGED memFaults
            \/ Fails("revoke") /\ UNCHANGED grants
    /\ Then(r, "mirror")
    /\ UNCHANGED <<project, keyStored, mirror, news, memRead>>

\* NotFound without a row, after the tuples are gone.
DeleteRow(r) ==
    LET m == memAsk[r].member
    IN  /\ Continues(r, "mirror", "remove")
        /\ mirror' = [mirror EXCEPT ![m] = "none"]
        /\ IF HasRow(m) THEN Then(r, "news") /\ UNCHANGED memRead ELSE Leaves(r)
        /\ UNCHANGED <<project, keyStored, grants, news, memFaults>>

AnnounceRemoval(r) ==
    /\ Continues(r, "news", "remove")
    /\ news' = IF project # "there" THEN news
               ELSE [news EXCEPT ![memAsk[r].member] = [kind |-> "removed", role |-> "none"]]
    /\ Leaves(r)
    /\ UNCHANGED <<project, keyStored, grants, mirror, memFaults>>

\* The rows and events go with the project; its tuples stay.
DeleteProject(r) ==
    /\ Arrives(r, [kind |-> "deleteProject", member |-> Owner, role |-> "none"])
    /\ project = "there"
    /\ project' = "deleted"
    /\ mirror' = [m \in Member |-> "none"]
    /\ news' = [m \in Member |-> NoNews]
    /\ Leaves(r)
    /\ UNCHANGED <<keyStored, grants, memFaults>>

\* The pod dies, or a caller that gives up drops the handler.
MemberCrash(r) ==
    /\ memStep[r] \notin {"idle", "done"}
    /\ Fails("crash") /\ Leaves(r)
    /\ UNCHANGED <<memTables, memAsk, memAlone, cleared>>

-----------------------------------------------------------------------------
MembersHandle(r) ==
    \/ ReplayCreate(r) \/ CreateRefused(r) \/ InsertProject(r) \/ GrantOwner(r) \/ GrantOwnerFails(r)
    \/ MirrorOwner(r) \/ StoreKey(r)
    \/ ReadRole(r) \/ UngrantStale(r) \/ GrantRole(r) \/ GrantRoleFails(r) \/ MirrorRole(r) \/ AnnounceRole(r)
    \/ RevokeMember(r) \/ DeleteRow(r) \/ AnnounceRemoval(r) \/ DeleteProject(r) \/ MemberCrash(r)

MembersNext == \E r \in MemRequest : MembersHandle(r)

MembersSpec == MembersInit /\ [][MembersNext]_memVars

-----------------------------------------------------------------------------
(* Properties.                                                             *)

\* "The permission backend is the source of truth", written first: a role in the
\* mirror is backed by its tuple while requests do not overlap, unless a call of
\* AddMember failed between the two, or a request died there.
MirrorIsBacked ==
    (memAlone /\ memFaults \cap {"addGrant", "addMirror", "revoke", "crash"} = {} /\ NoneUnderWay) =>
        \A m \in Member : HasRow(m) => <<m, mirror[m]>> \in grants

\* Roles do not pile up: but for the creator, who keeps the viewer tuple, a
\* member has the one role of its row when requests come one at a time, unless
\* deleting the stale tuple or writing the row failed.
OneRole ==
    (memAlone /\ NoneUnderWay /\ project = "there"
       /\ memFaults \cap {"staleUngrant", "addMirror", "revoke", "crash"} = {}) =>
        \A m \in Member \ {Owner} : Cardinality(TuplesOf(m)) <= 1

\* Whatever roles had piled up, by failures or by overlapping requests, a member
\* removed while no other request is under way holds none of them, until a
\* request names it again, unless the backend failed during a removal.
RemovedHoldsNothing ==
    "revoke" \notin memFaults => \A m \in cleared : TuplesOf(m) = {}

\* The last event about a member tells what its row says, when requests come one
\* at a time and the row was written.
NewsMatchesMirror ==
    (memAlone /\ NoneUnderWay /\ project = "there" /\ memFaults \cap {"addMirror", "crash"} = {}) =>
        \A m \in Member \ {Owner} :
            IF news[m].kind \in {"none", "removed"} THEN ~HasRow(m) ELSE mirror[m] = news[m].role

\* Row, role tuple and news of a member agree but for the failures the code only logs, and
\* a removal takes every role.
MembersAreBacked ==
    RemovedHoldsNothing /\ MirrorIsBacked /\ NewsMatchesMirror /\ OneRole
=============================================================================
