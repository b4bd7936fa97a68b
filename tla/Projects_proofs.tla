---------------------------- MODULE Projects_proofs ----------------------------
(***************************************************************************)
(* Proofs about what belongs to a project besides its boards: its members, *)
(* its labels, milestones and templates, the aggregated boards that show   *)
(* boards of several projects, and the links of its cards to GitHub.       *)
(*                                                                         *)
(* MembersBacked: rows, role tuples and news of the members agree, by      *)
(* MemInv: between which two calls a request alone may leave them apart.   *)
(*                                                                         *)
(* CatalogueWhole: a list is whole and shows what was there, by CatInv:    *)
(* the rows of a query are those of its moment, and each count is that of  *)
(* its item at one moment of the request; only an update that found a      *)
(* milestone before it was deleted files a card under it after, by         *)
(* Filings.                                                                *)
(*                                                                         *)
(* SourcesHeal: a request that nothing overlaps leaves the sources of an   *)
(* aggregated board at 0, 1, 2, by SrcInv: the order such a request has    *)
(* read lists every row once, and stays the order of the table.            *)
(*                                                                         *)
(* LinksFresh: a link never goes back to an older answer unless two        *)
(* resyncs overlap, and its events tell its row, by GhInv: between its     *)
(* steps a resync holds an answer not older than its start, of two resyncs *)
(* of a link one overlapped the other or began after its end, and the      *)
(* board it read is the card's, or the card has moved since.               *)
(*                                                                         *)
(* MemTypesHold, CatTypesHold and SrcTypesHold are the parts of            *)
(* BoardsTypes (Boards_proofs) that are about these modules.               *)
(***************************************************************************)
EXTENDS MCBoards, FiniteSetTheorems, SequenceTheorems, WellFoundedInduction, TLAPS

\* Every set of natural numbers that is not empty has a least element (what MIN gives).
LEMMA LeastNatural == ASSUME NEW T, T \subseteq Nat, T # {} PROVE \E x \in T : \A y \in T : x <= y
<1>1. PICK x \in T : \A y \in T : ~ (<<y, x>> \in OpToRel(<, Nat))
  BY NatLessThanWellFounded, WFMin, Zenon
<1>2. ASSUME NEW y \in T PROVE x <= y
  <2>1. x \in Nat /\ y \in Nat
    OBVIOUS
  <2>2. ~(y < x)
    BY <1>1, <2>1 DEF OpToRel
  <2> QED BY <2>1, <2>2
<1> QED BY <1>2

-----------------------------------------------------------------------------
(***************************************************************************)
(* ProjectMembers: the role of a member.                                   *)
(***************************************************************************)
MemUnderWay(r) == memStep[r] \notin {"idle", "done"}

MemAsk == [kind : {"none", "create", "add", "remove", "deleteProject"}, member : Member, role : AnyRole \cup {"none"}]

\* The steps of the handlers, and what they ask for.
MemShapes ==
    /\ project \in {"absent", "there", "deleted"}
    /\ grants \subseteq Member \X AnyRole
    /\ mirror \in [Member -> AnyRole \cup {"none"}]
    /\ news \in [Member -> [kind : {"none", "added", "changed", "removed"}, role : AnyRole \cup {"none"}]]
    /\ memStep \in [MemRequest -> {"idle", "ungrant", "grant", "viewer", "mirror", "news", "key", "done"}]
    /\ memAsk \in [MemRequest -> MemAsk] /\ memRead \in [MemRequest -> AnyRole \cup {"none"}]
    /\ \A r \in MemRequest :
        /\ memAsk[r].kind = "create" => memAsk[r].member = Owner
        /\ memAsk[r].kind = "add" => memAsk[r].role \in Role

\* Requests that come one at a time find the project there until they end.
OneUnderWay ==
    memAlone => \A r \in MemRequest : MemUnderWay(r) =>
                    project = "there" /\ \A q \in MemRequest : MemUnderWay(q) => q = r

\* No request that grants a role is about a member that was cleared.
NoneNamesCleared ==
    \A r \in MemRequest : MemUnderWay(r) /\ memAsk[r].kind \in {"create", "add"} => memAsk[r].member \notin cleared

Stands(r, step, kind) == memStep[r] = step /\ memAsk[r].kind = kind

\* The request is between the two calls that change the role of this member.
Turns(r, m) ==
    /\ memAsk[r].member = m
    /\ Stands(r, "grant", "add") \/ Stands(r, "mirror", "add") \/ Stands(r, "mirror", "remove")

BackedOrTurning ==
    (memAlone /\ memFaults \cap {"addGrant", "addMirror", "revoke", "crash"} = {}) =>
        /\ \A m \in Member : HasRow(m) => <<m, mirror[m]>> \in grants \/ \E r \in MemRequest : Turns(r, m)
        /\ \A r \in MemRequest : Stands(r, "mirror", "add") => <<memAsk[r].member, memAsk[r].role>> \in grants
        /\ \A r \in MemRequest : Stands(r, "viewer", "create") \/ Stands(r, "mirror", "create") => <<Owner, "owner">> \in grants

\* The one tuple of a member is that of its row, or the one that was just granted.
TupleOfRow(m) ==
    /\ (\A r \in MemRequest : memAsk[r].member = m => ~Stands(r, "mirror", "add"))
         => TuplesOf(m) \subseteq {<<m, mirror[m]>>}
    /\ \A r \in MemRequest : memAsk[r].member = m =>
        /\ Stands(r, "mirror", "add") \/ Stands(r, "grant", "add") => TuplesOf(m) \subseteq {<<m, memAsk[r].role>>}
        /\ Stands(r, "ungrant", "add") => memRead[r] = mirror[m]
        /\ Stands(r, "mirror", "remove") => TuplesOf(m) = {}

OneRoleSoFar ==
    (memAlone /\ project # "deleted" /\ memFaults \cap {"staleUngrant", "addMirror", "revoke", "crash"} = {}) =>
        \A m \in Member \ {Owner} : TupleOfRow(m)

InSync(m) == IF news[m].kind \in {"none", "removed"} THEN ~HasRow(m) ELSE mirror[m] = news[m].role

NewsSoon(m) ==
    /\ \A r \in MemRequest : memAsk[r].member = m =>
        /\ Stands(r, "news", "add") => mirror[m] = memAsk[r].role
        /\ Stands(r, "news", "remove") => ~HasRow(m)
    /\ (\A r \in MemRequest : memAsk[r].member = m => ~Stands(r, "news", "add") /\ ~Stands(r, "news", "remove")) => InSync(m)

NewsInSync ==
    (memAlone /\ project # "deleted" /\ memFaults \cap {"addMirror", "crash"} = {}) =>
        \A m \in Member \ {Owner} : NewsSoon(m)

MemInv ==
    /\ MemShapes /\ OneUnderWay /\ NoneNamesCleared /\ RemovedHoldsNothing
    /\ BackedOrTurning /\ OneRoleSoFar /\ NewsInSync

-----------------------------------------------------------------------------
\* Nothing is asked of a project that is not there.
LEMMA InitMemInv == MembersInit => MemInv
<1> SUFFICES ASSUME MembersInit PROVE MemInv
  OBVIOUS
<1>1. \A r \in MemRequest : memStep[r] = "idle" /\ memAsk[r] = NoMemAsk
  BY DEF MembersInit
<1>2. \A m \in Member : mirror[m] = "none" /\ news[m] = NoNews
  BY DEF MembersInit
<1>3. MemShapes
  <2>1. NoMemAsk \in MemAsk /\ NoMemAsk.kind = "none"
    BY MembersAssumption DEF NoMemAsk, MemAsk
  <2>2. NoNews \in [kind : {"none", "added", "changed", "removed"}, role : AnyRole \cup {"none"}]
    BY DEF NoNews
  <2>3. /\ project \in {"absent", "there", "deleted"} /\ grants \subseteq Member \X AnyRole
        /\ mirror \in [Member -> AnyRole \cup {"none"}]
        /\ memRead \in [MemRequest -> AnyRole \cup {"none"}]
    BY DEF MembersInit
  <2>4. memStep \in [MemRequest -> {"idle", "ungrant", "grant", "viewer", "mirror", "news", "key", "done"}]
        /\ memAsk \in [MemRequest -> MemAsk]
        /\ news \in [Member -> [kind : {"none", "added", "changed", "removed"}, role : AnyRole \cup {"none"}]]
    BY <2>1, <2>2 DEF MembersInit
  <2> QED BY <1>1, <2>1, <2>3, <2>4 DEF MemShapes
<1>4. OneUnderWay /\ NoneNamesCleared
  BY <1>1 DEF OneUnderWay, NoneNamesCleared, MemUnderWay
<1>5. RemovedHoldsNothing
  BY DEF MembersInit, RemovedHoldsNothing
<1>6. BackedOrTurning
  BY <1>1, <1>2 DEF BackedOrTurning, HasRow, Stands
<1>7. OneRoleSoFar
  BY <1>1 DEF MembersInit, OneRoleSoFar, TupleOfRow, TuplesOf, Stands
<1>8. NewsInSync
  BY <1>1, <1>2 DEF NewsInSync, NewsSoon, Stands, InSync, NoNews, HasRow
<1> QED BY <1>3, <1>4, <1>5, <1>6, <1>7, <1>8 DEF MemInv

MemArrival(r) ==
    \/ ReplayCreate(r) \/ CreateRefused(r) \/ InsertProject(r) \/ ReadRole(r) \/ RevokeMember(r) \/ DeleteProject(r)

MemStepOn(r) ==
    \/ GrantOwner(r) \/ GrantOwnerFails(r) \/ MirrorOwner(r) \/ StoreKey(r)
    \/ UngrantStale(r) \/ GrantRole(r) \/ GrantRoleFails(r) \/ MirrorRole(r) \/ AnnounceRole(r)
    \/ DeleteRow(r) \/ AnnounceRemoval(r) \/ MemberCrash(r)

\* A request that arrives.
LEMMA MemArrives ==
    ASSUME MemInv, NEW r \in MemRequest, MemArrival(r)
    PROVE  /\ memStep[r] = "idle" /\ (memAlone => NoneUnderWay) /\ memAlone' = memAlone
           /\ memAsk' \in [MemRequest -> MemAsk] /\ memRead' \in [MemRequest -> AnyRole \cup {"none"}]
           /\ memStep' \in [MemRequest -> {"ungrant", "grant", "viewer", "mirror", "news", "key", "done", "idle"}]
           /\ \A q \in MemRequest \ {r} :
                memStep'[q] = memStep[q] /\ memAsk'[q] = memAsk[q] /\ memRead'[q] = memRead[q]
           /\ memAsk'[r].kind = "create" => memAsk'[r].member = Owner
           /\ memAsk'[r].kind = "add" => memAsk'[r].role \in Role
           /\ memStep'[r] # "done" => project' = "there"
           /\ cleared' = IF memAsk'[r].kind = "remove" /\ NoneUnderWay THEN cleared \cup {memAsk'[r].member}
                         ELSE cleared \ {memAsk'[r].member}
<1>1. PICK req \in MemAsk, x \in {"ungrant", "grant", "mirror", "done"}, d \in AnyRole \cup {"none"} :
        /\ Arrives(r, req)
        /\ memStep' = [memStep EXCEPT ![r] = x]
        /\ memRead' = [memRead EXCEPT ![r] = d]
        /\ req.kind = "create" => req.member = Owner
        /\ req.kind = "add" => req.role \in Role
        /\ x # "done" => project' = "there"
  <2>1. memRead \in [MemRequest -> AnyRole \cup {"none"}]
        /\ mirror \in [Member -> AnyRole \cup {"none"}]
    BY DEF MemInv, MemShapes
  <2>2. memRead[r] \in AnyRole \cup {"none"} /\ memRead = [memRead EXCEPT ![r] = memRead[r]]
    BY <2>1
  <2>3. CASE ReplayCreate(r) \/ CreateRefused(r)
    <3>1. PICK req : req = [kind |-> "create", member |-> Owner, role |-> "owner"]
      OBVIOUS
    <3>2. req \in MemAsk /\ req.kind = "create" /\ req.member = Owner
      BY <3>1, MembersAssumption DEF MemAsk, AnyRole
    <3> QED BY <2>3, <3>1, <3>2 DEF ReplayCreate, CreateRefused, Leaves, Then
  <2>4. CASE InsertProject(r)
    <3>1. PICK req : req = [kind |-> "create", member |-> Owner, role |-> "owner"]
      OBVIOUS
    <3>2. req \in MemAsk /\ req.kind = "create" /\ req.member = Owner
      BY <3>1, MembersAssumption DEF MemAsk, AnyRole
    <3>3. Arrives(r, req) /\ memStep' = [memStep EXCEPT ![r] = "grant"] /\ memRead' = memRead /\ project' = "there"
      BY <2>4, <3>1 DEF InsertProject, Then
    <3> QED BY <2>2, <3>2, <3>3
  <2>5. CASE ReadRole(r)
    <3>1. PICK m \in Member, x \in Role :
            /\ Arrives(r, [kind |-> "add", member |-> m, role |-> x])
            /\ memRead' = [memRead EXCEPT ![r] = mirror[m]]
            /\ memStep' = [memStep EXCEPT ![r] = IF IsStale(mirror[m], x) THEN "ungrant" ELSE "grant"]
      BY <2>5 DEF ReadRole, Then
    <3>2. PICK req : req = [kind |-> "add", member |-> m, role |-> x]
      OBVIOUS
    <3>3. req \in MemAsk /\ req.kind = "add" /\ req.role \in Role
      BY <3>2 DEF MemAsk, AnyRole
    <3>4. project' = "there"
      BY <2>5 DEF ReadRole, memTables
    <3>5. mirror[m] \in AnyRole \cup {"none"}
      BY <2>1
    <3>6. PICK y \in {"ungrant", "grant"} : y = IF IsStale(mirror[m], x) THEN "ungrant" ELSE "grant"
      OBVIOUS
    <3> QED BY <3>1, <3>2, <3>3, <3>4, <3>5, <3>6
  <2>6. CASE RevokeMember(r)
    <3>1. PICK m \in Member : Arrives(r, [kind |-> "remove", member |-> m, role |-> "none"])
      BY <2>6 DEF RevokeMember
    <3>2. PICK req : req = [kind |-> "remove", member |-> m, role |-> "none"]
      OBVIOUS
    <3>3. req \in MemAsk /\ req.kind = "remove"
      BY <3>2 DEF MemAsk
    <3>4. memStep' = [memStep EXCEPT ![r] = "mirror"] /\ memRead' = memRead /\ project' = "there"
      BY <2>6 DEF RevokeMember, Then
    <3> QED BY <2>2, <3>1, <3>2, <3>3, <3>4
  <2>7. CASE DeleteProject(r)
    <3>1. PICK req : req = [kind |-> "deleteProject", member |-> Owner, role |-> "none"]
      OBVIOUS
    <3>2. req \in MemAsk /\ req.kind = "deleteProject"
      BY <3>1, MembersAssumption DEF MemAsk
    <3> QED BY <2>7, <3>1, <3>2 DEF DeleteProject, Leaves, Then
  <2> QED BY <2>3, <2>4, <2>5, <2>6, <2>7 DEF MemArrival
<1>2. /\ memAsk \in [MemRequest -> MemAsk] /\ memRead \in [MemRequest -> AnyRole \cup {"none"}]
      /\ memStep \in [MemRequest -> {"idle", "ungrant", "grant", "viewer", "mirror", "news", "key", "done"}]
  BY DEF MemInv, MemShapes
<1>3. /\ memStep[r] = "idle" /\ (memAlone => NoneUnderWay) /\ memAlone' = memAlone
      /\ memAsk' = [memAsk EXCEPT ![r] = req]
      /\ cleared' = IF req.kind = "remove" /\ NoneUnderWay THEN cleared \cup {req.member}
                    ELSE cleared \ {req.member}
  BY <1>1 DEF Arrives
<1>4. memAsk'[r] = req /\ memStep'[r] = x
  BY <1>1, <1>2, <1>3
<1>5. /\ memAsk' \in [MemRequest -> MemAsk] /\ memRead' \in [MemRequest -> AnyRole \cup {"none"}]
      /\ memStep' \in [MemRequest -> {"ungrant", "grant", "viewer", "mirror", "news", "key", "done", "idle"}]
      /\ \A q \in MemRequest \ {r} :
            memStep'[q] = memStep[q] /\ memAsk'[q] = memAsk[q] /\ memRead'[q] = memRead[q]
  BY <1>1, <1>2, <1>3
<1> QED BY <1>1, <1>3, <1>4, <1>5

\* A request that goes on.
LEMMA MemGoesOn ==
    ASSUME MemInv, NEW r \in MemRequest, MemStepOn(r)
    PROVE  /\ MemUnderWay(r) /\ memAlone' = memAlone /\ memAsk' = memAsk /\ cleared' = cleared
           /\ project' = project
           /\ memRead' \in [MemRequest -> AnyRole \cup {"none"}]
           /\ memStep' \in [MemRequest -> {"ungrant", "grant", "viewer", "mirror", "news", "key", "done", "idle"}]
           /\ \A q \in MemRequest \ {r} : memStep'[q] = memStep[q] /\ memRead'[q] = memRead[q]
           /\ memStep'[r] = "done" \/ memRead'[r] = memRead[r]
<1>1. PICK x \in {"grant", "viewer", "mirror", "news", "key", "done"} :
        /\ memStep' = [memStep EXCEPT ![r] = x]
        /\ \/ x = "done" /\ memRead' = [memRead EXCEPT ![r] = "none"]
           \/ memRead' = memRead
  BY DEF MemStepOn, GrantOwner, GrantOwnerFails, MirrorOwner, StoreKey, UngrantStale, GrantRole, GrantRoleFails,
         MirrorRole, AnnounceRole, DeleteRow, AnnounceRemoval, MemberCrash, Leaves, Then
<1>2. /\ memRead \in [MemRequest -> AnyRole \cup {"none"}]
      /\ memStep \in [MemRequest -> {"idle", "ungrant", "grant", "viewer", "mirror", "news", "key", "done"}]
  BY DEF MemInv, MemShapes
<1>3. /\ MemUnderWay(r) /\ memAlone' = memAlone /\ memAsk' = memAsk /\ cleared' = cleared /\ project' = project
  BY DEF MemStepOn, GrantOwner, GrantOwnerFails, MirrorOwner, StoreKey, UngrantStale, GrantRole, GrantRoleFails,
         MirrorRole, AnnounceRole, DeleteRow, AnnounceRemoval, MemberCrash, Continues, MemUnderWay, memTables
<1> QED BY <1>1, <1>2, <1>3

\* The requests are those two.
LEMMA MemHandles == ASSUME NEW r, MembersHandle(r) PROVE MemArrival(r) \/ MemStepOn(r)
  BY DEF MembersHandle, MemArrival, MemStepOn

MemTableTypes ==
    /\ project \in {"absent", "there", "deleted"}
    /\ grants \subseteq Member \X AnyRole
    /\ mirror \in [Member -> AnyRole \cup {"none"}]
    /\ news \in [Member -> [kind : {"none", "added", "changed", "removed"}, role : AnyRole \cup {"none"}]]

\* What the handlers write is of the tables' types.
LEMMA MemTablesTyped == ASSUME MemInv, NEW r \in MemRequest, MembersHandle(r) PROVE MemTableTypes'
<1>1. MemTableTypes /\ memAsk[r] \in MemAsk /\ (memAsk[r].kind = "add" => memAsk[r].role \in Role)
      /\ Owner \in Member /\ {"owner", "viewer"} \subseteq AnyRole
  BY MembersAssumption DEF MemInv, MemShapes, MemTableTypes, AnyRole, Role
<1>2. memAsk[r].member \in Member /\ memAsk[r].role \in AnyRole \cup {"none"}
  BY <1>1 DEF MemAsk
<1>3. Role \subseteq AnyRole
  BY DEF AnyRole
<1>4. CASE \/ ReplayCreate(r) \/ CreateRefused(r) \/ InsertProject(r) \/ GrantOwnerFails(r) \/ StoreKey(r)
           \/ ReadRole(r) \/ GrantRoleFails(r) \/ MemberCrash(r)
  BY <1>1, <1>4 DEF MemTableTypes, ReplayCreate, CreateRefused, InsertProject, GrantOwnerFails, StoreKey, ReadRole,
                    GrantRoleFails, MemberCrash, memTables
<1>5. CASE GrantOwner(r) \/ UngrantStale(r) \/ GrantRole(r) \/ RevokeMember(r)
  <2>1. grants' \subseteq grants \cup {<<Owner, "owner">>, <<Owner, "viewer">>}
                                 \cup (IF memAsk[r].kind = "add" THEN {<<memAsk[r].member, memAsk[r].role>>} ELSE {})
    BY <1>5 DEF GrantOwner, UngrantStale, GrantRole, RevokeMember, Continues
  <2>2. grants' \subseteq Member \X AnyRole
    BY <1>1, <1>2, <1>3, <2>1 DEF MemTableTypes
  <2>3. UNCHANGED <<project, mirror, news>>
    BY <1>5 DEF GrantOwner, UngrantStale, GrantRole, RevokeMember
  <2> QED BY <1>1, <2>2, <2>3 DEF MemTableTypes
<1>6. CASE MirrorOwner(r) \/ MirrorRole(r) \/ DeleteRow(r)
  <2>1. PICK m \in Member, x \in AnyRole \cup {"none"} : mirror' = [mirror EXCEPT ![m] = x]
    <3>1. CASE MirrorOwner(r)
      <4>1. mirror' = [mirror EXCEPT ![Owner] = "owner"] \/ mirror' = mirror
        BY <3>1 DEF MirrorOwner
      <4>2. mirror = [mirror EXCEPT ![Owner] = mirror[Owner]] /\ mirror[Owner] \in AnyRole \cup {"none"}
        BY <1>1 DEF MemTableTypes
      <4> QED BY <1>1, <4>1, <4>2
    <3>2. CASE MirrorRole(r)
      <4>1. mirror' = [mirror EXCEPT ![memAsk[r].member] = memAsk[r].role] \/ mirror' = mirror
        BY <3>2 DEF MirrorRole, Upserted
      <4>2. mirror = [mirror EXCEPT ![Owner] = mirror[Owner]] /\ mirror[Owner] \in AnyRole \cup {"none"}
        BY <1>1 DEF MemTableTypes
      <4> QED BY <1>1, <1>2, <4>1, <4>2
    <3>3. CASE DeleteRow(r)
      BY <1>2, <3>3 DEF DeleteRow
    <3> QED BY <1>6, <3>1, <3>2, <3>3
  <2>2. UNCHANGED <<project, grants, news>>
    BY <1>6 DEF MirrorOwner, MirrorRole, DeleteRow
  <2> QED BY <1>1, <2>1, <2>2 DEF MemTableTypes
<1>7. CASE AnnounceRole(r) \/ AnnounceRemoval(r)
  <2>1. PICK n \in [kind : {"none", "added", "changed", "removed"}, role : AnyRole \cup {"none"}] :
          news' = news \/ news' = [news EXCEPT ![memAsk[r].member] = n]
    <3>1. CASE AnnounceRole(r)
      <4>1. PICK n : n = [kind |-> IF memRead[r] \in {"none", memAsk[r].role} THEN "added" ELSE "changed",
                          role |-> memAsk[r].role]
        OBVIOUS
      <4>2. n \in [kind : {"none", "added", "changed", "removed"}, role : AnyRole \cup {"none"}]
        BY <1>2, <4>1
      <4> QED BY <3>1, <4>1, <4>2 DEF AnnounceRole
    <3>2. CASE AnnounceRemoval(r)
      <4>1. PICK n : n = [kind |-> "removed", role |-> "none"]
        OBVIOUS
      <4>2. n \in [kind : {"none", "added", "changed", "removed"}, role : AnyRole \cup {"none"}]
        BY <4>1
      <4> QED BY <3>2, <4>1, <4>2 DEF AnnounceRemoval
    <3> QED BY <1>7, <3>1, <3>2
  <2>2. UNCHANGED <<project, grants, mirror>>
    BY <1>7 DEF AnnounceRole, AnnounceRemoval
  <2> QED BY <1>1, <1>2, <2>1, <2>2 DEF MemTableTypes
<1>8. CASE DeleteProject(r)
  <2>1. NoNews \in [kind : {"none", "added", "changed", "removed"}, role : AnyRole \cup {"none"}]
    BY DEF NoNews
  <2>2. project' = "deleted" /\ mirror' = [m \in Member |-> "none"] /\ news' = [m \in Member |-> NoNews] /\ grants' = grants
    BY <1>8 DEF DeleteProject
  <2> QED BY <1>1, <2>1, <2>2 DEF MemTableTypes
<1> QED BY <1>4, <1>5, <1>6, <1>7, <1>8 DEF MembersHandle

\* The requests stay what they are, come one at a time if they do, and none that grants
\* is about a member that was cleared.
LEMMA MemStepsKept ==
    ASSUME MemInv, NEW r \in MemRequest, MembersHandle(r)
    PROVE  MemShapes' /\ OneUnderWay' /\ NoneNamesCleared'
<1>1. MemTableTypes'
  BY MemTablesTyped
<1>2. CASE MemArrival(r)
  <2>1. /\ memStep[r] = "idle" /\ (memAlone => NoneUnderWay) /\ memAlone' = memAlone
        /\ memAsk' \in [MemRequest -> MemAsk] /\ memRead' \in [MemRequest -> AnyRole \cup {"none"}]
        /\ memStep' \in [MemRequest -> {"ungrant", "grant", "viewer", "mirror", "news", "key", "done", "idle"}]
        /\ \A q \in MemRequest \ {r} :
             memStep'[q] = memStep[q] /\ memAsk'[q] = memAsk[q] /\ memRead'[q] = memRead[q]
        /\ memAsk'[r].kind = "create" => memAsk'[r].member = Owner
        /\ memAsk'[r].kind = "add" => memAsk'[r].role \in Role
        /\ memStep'[r] # "done" => project' = "there"
        /\ cleared' = IF memAsk'[r].kind = "remove" /\ NoneUnderWay THEN cleared \cup {memAsk'[r].member}
                      ELSE cleared \ {memAsk'[r].member}
    BY <1>2, MemArrives
  <2>2. MemShapes'
    <3>1. \A q \in MemRequest :
            /\ memAsk'[q].kind = "create" => memAsk'[q].member = Owner
            /\ memAsk'[q].kind = "add" => memAsk'[q].role \in Role
      BY <2>1 DEF MemInv, MemShapes
    <3> QED BY <1>1, <2>1, <3>1 DEF MemShapes, MemTableTypes
  <2>3. OneUnderWay'
    <3> SUFFICES ASSUME memAlone, NEW q \in MemRequest, MemUnderWay(q)'
                 PROVE  project' = "there" /\ \A s \in MemRequest : MemUnderWay(s)' => s = q
      BY <2>1 DEF OneUnderWay
    <3>1. \A s \in MemRequest \ {r} : ~MemUnderWay(s)'
      BY <2>1 DEF NoneUnderWay, MemUnderWay
    <3>2. q = r /\ memStep'[r] # "done"
      BY <3>1 DEF MemUnderWay
    <3> QED BY <2>1, <3>1, <3>2
  <2>4. NoneNamesCleared'
    <3> SUFFICES ASSUME NEW q \in MemRequest, MemUnderWay(q)', memAsk'[q].kind \in {"create", "add"}
                 PROVE  memAsk'[q].member \notin cleared'
      BY DEF NoneNamesCleared
    <3>1. CASE q = r
      BY <2>1, <3>1
    <3>2. CASE q # r
      <4>1. MemUnderWay(q) /\ ~NoneUnderWay /\ memAsk[q].member \notin cleared /\ memAsk'[q] = memAsk[q]
        BY <2>1, <3>2 DEF MemInv, NoneNamesCleared, MemUnderWay, NoneUnderWay
      <4> QED BY <2>1, <4>1
    <3> QED BY <3>1, <3>2
  <2> QED BY <2>2, <2>3, <2>4
<1>3. CASE MemStepOn(r)
  <2>1. /\ MemUnderWay(r) /\ memAlone' = memAlone /\ memAsk' = memAsk /\ cleared' = cleared
        /\ project' = project
        /\ memRead' \in [MemRequest -> AnyRole \cup {"none"}]
        /\ memStep' \in [MemRequest -> {"ungrant", "grant", "viewer", "mirror", "news", "key", "done", "idle"}]
        /\ \A q \in MemRequest \ {r} : memStep'[q] = memStep[q] /\ memRead'[q] = memRead[q]
    BY <1>3, MemGoesOn
  <2>2. MemShapes'
    BY <1>1, <2>1 DEF MemInv, MemShapes, MemTableTypes
  <2>3. \A q \in MemRequest : MemUnderWay(q)' => MemUnderWay(q)
    BY <2>1 DEF MemUnderWay
  <2>4. OneUnderWay'
    BY <2>1, <2>3 DEF MemInv, OneUnderWay
  <2>5. NoneNamesCleared'
    BY <2>1, <2>3 DEF MemInv, NoneNamesCleared
  <2> QED BY <2>2, <2>4, <2>5
<1> QED BY <1>2, <1>3, MemHandles

\* A member that was removed holds nothing: who grants it a role names it first.
LEMMA RemovedKept == ASSUME MemInv, NEW r \in MemRequest, MembersHandle(r) PROVE RemovedHoldsNothing'
<1> SUFFICES ASSUME "revoke" \notin memFaults', NEW m \in cleared' PROVE TuplesOf(m)' = {}
  BY DEF RemovedHoldsNothing
<1>1. "revoke" \notin memFaults
  BY DEF MembersHandle, ReplayCreate, CreateRefused, InsertProject, GrantOwner, GrantOwnerFails, MirrorOwner, StoreKey,
         ReadRole, UngrantStale, GrantRole, GrantRoleFails, MirrorRole, AnnounceRole, RevokeMember, DeleteRow,
         AnnounceRemoval, DeleteProject, MemberCrash, Fails
<1>2. m \in cleared => TuplesOf(m) = {}
  BY <1>1 DEF MemInv, RemovedHoldsNothing
<1>3. CASE MemArrival(r)
  <2>1. m \in cleared \/ (memAsk'[r].kind = "remove" /\ memAsk'[r].member = m)
    BY <1>3, MemArrives
  <2>2. CASE RevokeMember(r)
    <3>1. PICK n \in Member :
            /\ memAsk' = [memAsk EXCEPT ![r] = [kind |-> "remove", member |-> n, role |-> "none"]]
            /\ grants' = grants \ TuplesOf(n)
      <4>1. PICK n \in Member :
              /\ Arrives(r, [kind |-> "remove", member |-> n, role |-> "none"])
              /\ \/ grants' = grants \ Revoked(n)
                 \/ Fails("revoke")
        BY <2>2 DEF RevokeMember
      <4>2. ~Fails("revoke")
        BY DEF Fails
      <4> QED BY <4>1, <4>2 DEF Arrives, Revoked
    <3>2. memAsk'[r].member = n
      BY <3>1 DEF MemInv, MemShapes
    <3> QED BY <1>2, <2>1, <3>1, <3>2 DEF TuplesOf
  <2>3. CASE ReplayCreate(r) \/ CreateRefused(r) \/ InsertProject(r) \/ ReadRole(r) \/ DeleteProject(r)
    <3>1. grants' = grants /\ memAsk'[r].kind # "remove"
      <4>1. memAsk \in [MemRequest -> MemAsk]
        BY DEF MemInv, MemShapes
      <4> QED BY <2>3, <4>1 DEF ReplayCreate, CreateRefused, InsertProject, ReadRole, DeleteProject, Arrives, memTables
    <3> QED BY <1>2, <2>1, <3>1 DEF TuplesOf
  <2> QED BY <1>3, <2>2, <2>3 DEF MemArrival
<1>4. CASE MemStepOn(r)
  <2>1. cleared' = cleared /\ memAsk' = memAsk
    BY <1>4, MemGoesOn
  <2>2. \/ grants' \subseteq grants
        \/ /\ MemUnderWay(r) /\ memAsk[r].kind \in {"create", "add"}
           /\ \E x \in AnyRole : grants' = grants \cup {<<memAsk[r].member, x>>}
    <3>1. CASE GrantOwner(r)
      <4>1. memAsk[r].kind = "create" /\ memAsk[r].member = Owner /\ MemUnderWay(r)
        BY <3>1 DEF GrantOwner, Continues, MemUnderWay, MemInv, MemShapes
      <4>2. PICK x \in {"owner", "viewer"} : grants' = grants \cup {<<Owner, x>>}
        BY <3>1 DEF GrantOwner
      <4>3. x \in AnyRole
        BY DEF AnyRole, Role
      <4> QED BY <4>1, <4>2, <4>3
    <3>2. CASE GrantRole(r)
      <4>1. memAsk[r].kind = "add" /\ memAsk[r].role \in AnyRole /\ MemUnderWay(r)
        BY <3>2 DEF GrantRole, Continues, MemUnderWay, MemInv, MemShapes, AnyRole
      <4> QED BY <3>2, <4>1 DEF GrantRole
    <3>3. CASE ~GrantOwner(r) /\ ~GrantRole(r)
      BY <1>4, <3>3 DEF MemStepOn, GrantOwnerFails, MirrorOwner, StoreKey, UngrantStale, GrantRoleFails, MirrorRole,
                        AnnounceRole, DeleteRow, AnnounceRemoval, MemberCrash, memTables
    <3> QED BY <3>1, <3>2, <3>3
  <2>3. MemUnderWay(r) /\ memAsk[r].kind \in {"create", "add"} => memAsk[r].member # m
    BY <2>1 DEF MemInv, NoneNamesCleared
  <2> QED BY <1>2, <2>1, <2>2, <2>3 DEF TuplesOf
<1> QED BY <1>3, <1>4, MemHandles

MemWorking == {"ungrant", "grant", "viewer", "mirror", "news", "key"}

\* A request that is alone finds the others idle, or ended.
LEMMA MemRestIdle ==
    ASSUME MemInv, memAlone', NEW r \in MemRequest, MembersHandle(r)
    PROVE  /\ memAlone
           /\ \A q \in MemRequest \ {r} : memStep[q] \notin MemWorking /\ memStep'[q] \notin MemWorking
           /\ memStep[r] \in MemWorking => project = "there"
           /\ memStep[r] \in MemWorking \/ memStep[r] = "idle"
<1>1. /\ memAlone' = memAlone /\ \A q \in MemRequest \ {r} : memStep'[q] = memStep[q]
      /\ MemUnderWay(r) \/ (memStep[r] = "idle" /\ (memAlone => NoneUnderWay))
  <2>1. CASE MemArrival(r)
    BY <2>1, MemArrives
  <2>2. CASE MemStepOn(r)
    BY <2>2, MemGoesOn
  <2> QED BY <2>1, <2>2, MemHandles
<1>2. \A q \in MemRequest \ {r} : ~MemUnderWay(q)
  BY <1>1 DEF MemInv, OneUnderWay, NoneUnderWay, MemUnderWay
<1>3. \A q \in MemRequest : memStep[q] \in MemWorking <=> MemUnderWay(q)
  BY DEF MemInv, MemShapes, MemUnderWay, MemWorking
<1> QED BY <1>1, <1>2, <1>3 DEF MemInv, OneUnderWay

\* What the handlers do to the request.
LEMMA MemWhere ==
    ASSUME MemInv, NEW r \in MemRequest
    PROVE  /\ \A x : memStep' = [memStep EXCEPT ![r] = x] => memStep'[r] = x
           /\ \A x : memAsk' = [memAsk EXCEPT ![r] = x] => memAsk'[r] = x
           /\ \A x : memRead' = [memRead EXCEPT ![r] = x] => memRead'[r] = x
           /\ memAsk[r].member \in Member
           /\ memAsk[r].kind = "create" => memAsk[r].member = Owner
           /\ memAsk[r].kind = "add" => memAsk[r].role \in Role
           /\ mirror \in [Member -> AnyRole \cup {"none"}]
  BY DEF MemInv, MemShapes, MemAsk

\* A role of the table is backed by a tuple, or its request is at work.
LEMMA BackedKept == ASSUME MemInv, NEW r \in MemRequest, MembersHandle(r) PROVE BackedOrTurning'
<1> SUFFICES ASSUME memAlone', memFaults' \cap {"addGrant", "addMirror", "revoke", "crash"} = {}
             PROVE  /\ \A m \in Member : HasRow(m)' => <<m, mirror'[m]>> \in grants' \/ \E q \in MemRequest : Turns(q, m)'
                    /\ \A q \in MemRequest : Stands(q, "mirror", "add")' => <<memAsk'[q].member, memAsk'[q].role>> \in grants'
                    /\ \A q \in MemRequest :
                         Stands(q, "viewer", "create")' \/ Stands(q, "mirror", "create")' => <<Owner, "owner">> \in grants'
  BY DEF BackedOrTurning
<1>1. /\ memAlone
      /\ \A q \in MemRequest \ {r} : memStep[q] \notin MemWorking /\ memStep'[q] \notin MemWorking
      /\ memStep[r] \in MemWorking \/ memStep[r] = "idle"
  BY MemRestIdle
<1>2. memFaults \subseteq memFaults'
  BY DEF MembersHandle, ReplayCreate, CreateRefused, InsertProject, GrantOwner, GrantOwnerFails, MirrorOwner, StoreKey,
         ReadRole, UngrantStale, GrantRole, GrantRoleFails, MirrorRole, AnnounceRole, RevokeMember, DeleteRow,
         AnnounceRemoval, DeleteProject, MemberCrash, Fails
<1>3. /\ \A m \in Member : mirror[m] # "none" => <<m, mirror[m]>> \in grants \/ Turns(r, m)
      /\ Stands(r, "mirror", "add") => <<memAsk[r].member, memAsk[r].role>> \in grants
      /\ Stands(r, "viewer", "create") \/ Stands(r, "mirror", "create") => <<Owner, "owner">> \in grants
  BY <1>1, <1>2 DEF MemInv, BackedOrTurning, HasRow, Turns, Stands, MemWorking
<1> SUFFICES /\ \A m \in Member : mirror'[m] # "none" => <<m, mirror'[m]>> \in grants' \/ Turns(r, m)'
             /\ Stands(r, "mirror", "add")' => <<memAsk'[r].member, memAsk'[r].role>> \in grants'
             /\ Stands(r, "viewer", "create")' \/ Stands(r, "mirror", "create")' => <<Owner, "owner">> \in grants'
  BY <1>1 DEF HasRow, Stands, MemWorking
<1>4. ~Fails("addGrant") /\ ~Fails("addMirror") /\ ~Fails("revoke") /\ ~Fails("crash")
  BY DEF Fails
<1>5. CASE ReplayCreate(r) \/ CreateRefused(r) \/ InsertProject(r) \/ ReadRole(r)
  <2>1. memStep[r] = "idle" /\ UNCHANGED <<grants, mirror>>
    BY <1>5 DEF ReplayCreate, CreateRefused, InsertProject, ReadRole, Arrives, memTables
  <2>2. memStep'[r] \in {"done", "grant", "ungrant"}
    BY <1>5, MemWhere DEF ReplayCreate, CreateRefused, InsertProject, ReadRole, Leaves, Then
  <2> QED BY <1>3, <2>1, <2>2 DEF Turns, Stands
<1>6. CASE RevokeMember(r)
  <2>1. PICK n \in Member :
          /\ Arrives(r, [kind |-> "remove", member |-> n, role |-> "none"])
          /\ grants' = grants \ TuplesOf(n)
    BY <1>4, <1>6 DEF RevokeMember, Revoked
  <2>2. PICK req : req = [kind |-> "remove", member |-> n, role |-> "none"]
    OBVIOUS
  <2>3. memStep[r] = "idle" /\ memAsk'[r] = req /\ memStep'[r] = "mirror" /\ mirror' = mirror
    BY <1>6, <2>1, <2>2, MemWhere DEF Arrives, RevokeMember, Then
  <2>4. Turns(r, n)' /\ ~Stands(r, "mirror", "add")' /\ ~Stands(r, "viewer", "create")' /\ ~Stands(r, "mirror", "create")'
    BY <2>2, <2>3 DEF Turns, Stands
  <2>5. \A m \in Member : ~Turns(r, m)
    BY <2>3 DEF Turns, Stands
  <2> QED BY <1>3, <2>1, <2>3, <2>4, <2>5 DEF TuplesOf
<1>7. CASE DeleteProject(r)
  BY <1>7, MemWhere DEF DeleteProject, Leaves, Then, Stands
<1>8. CASE GrantOwner(r)
  <2>1. /\ memAsk' = memAsk /\ mirror' = mirror /\ grants \subseteq grants' /\ memAsk[r].kind = "create"
        /\ \/ memStep[r] = "grant" /\ <<Owner, "owner">> \in grants'
           \/ memStep[r] = "viewer"
        /\ memStep'[r] \in {"viewer", "mirror"}
    BY <1>8, MemWhere DEF GrantOwner, Continues, Then
  <2> QED BY <1>3, <2>1 DEF Turns, Stands
<1>9. CASE GrantOwnerFails(r) \/ MirrorOwner(r) \/ StoreKey(r)
  <2>1. memAsk' = memAsk /\ grants' = grants /\ memAsk[r].kind = "create" /\ memStep'[r] \in {"done", "key"}
    BY <1>9, MemWhere DEF GrantOwnerFails, MirrorOwner, StoreKey, Continues, Then, Leaves, memTables
  <2>2. \/ mirror' = mirror
        \/ memStep[r] = "mirror" /\ mirror' = [mirror EXCEPT ![Owner] = "owner"]
    BY <1>9 DEF GrantOwnerFails, MirrorOwner, StoreKey, Continues, memTables
  <2> QED BY <1>3, <2>1, <2>2, MemWhere DEF Turns, Stands
<1>10. CASE UngrantStale(r) \/ GrantRole(r)
  <2>1. /\ memAsk' = memAsk /\ mirror' = mirror /\ memAsk[r].kind = "add"
        /\ \A m \in Member : m # memAsk[r].member => \A x : <<m, x>> \in grants => <<m, x>> \in grants'
    BY <1>10 DEF UngrantStale, GrantRole, Continues
  <2>2. \/ memStep'[r] = "grant"
        \/ memStep'[r] = "mirror" /\ <<memAsk[r].member, memAsk[r].role>> \in grants'
    BY <1>10, MemWhere DEF UngrantStale, GrantRole, Then
  <2>3. \A m \in Member : Turns(r, m) => m = memAsk[r].member
    BY DEF Turns
  <2>4. Turns(r, memAsk[r].member)'
    BY <2>1, <2>2 DEF Turns, Stands
  <2> QED BY <1>3, <2>1, <2>2, <2>3, <2>4 DEF Stands
<1>11. CASE MirrorRole(r) \/ AnnounceRole(r)
  <2>1. /\ memAsk' = memAsk /\ grants' = grants /\ memAsk[r].kind = "add" /\ memStep'[r] \in {"news", "done"}
        /\ \/ mirror' = mirror /\ memStep[r] = "news"
           \/ mirror' = [mirror EXCEPT ![memAsk[r].member] = memAsk[r].role] /\ memStep[r] = "mirror"
    BY <1>4, <1>11, MemWhere DEF MirrorRole, AnnounceRole, Continues, Then, Leaves, Upserted
  <2>2. \A m \in Member : Turns(r, m) => m = memAsk[r].member /\ memStep[r] # "news"
    BY DEF Turns, Stands
  <2> QED BY <1>3, <2>1, <2>2, MemWhere DEF Stands
<1>12. CASE DeleteRow(r) \/ AnnounceRemoval(r)
  <2>1. /\ memAsk' = memAsk /\ grants' = grants /\ memAsk[r].kind = "remove" /\ memStep'[r] \in {"news", "done"}
        /\ \/ mirror' = mirror /\ memStep[r] = "news"
           \/ mirror' = [mirror EXCEPT ![memAsk[r].member] = "none"] /\ memStep[r] = "mirror"
    BY <1>12, MemWhere DEF DeleteRow, AnnounceRemoval, Continues, Then, Leaves
  <2>2. \A m \in Member : Turns(r, m) => m = memAsk[r].member /\ memStep[r] # "news"
    BY DEF Turns, Stands
  <2> QED BY <1>3, <2>1, <2>2, MemWhere DEF Stands
<1>13. ~GrantRoleFails(r) /\ ~MemberCrash(r)
  BY <1>4 DEF GrantRoleFails, MemberCrash
<1> QED BY <1>5, <1>6, <1>7, <1>8, <1>9, <1>10, <1>11, <1>12, <1>13 DEF MembersHandle

\* What can be said of a member's tuples when this request is the only one at work.
TupleBy(r, m) ==
    /\ ~(memAsk[r].member = m /\ Stands(r, "mirror", "add")) => TuplesOf(m) \subseteq {<<m, mirror[m]>>}
    /\ memAsk[r].member = m =>
        /\ Stands(r, "mirror", "add") \/ Stands(r, "grant", "add") => TuplesOf(m) \subseteq {<<m, memAsk[r].role>>}
        /\ Stands(r, "ungrant", "add") => memRead[r] = mirror[m]
        /\ Stands(r, "mirror", "remove") => TuplesOf(m) = {}

\* A member keeps to one role.
LEMMA OneRoleKept == ASSUME MemInv, NEW r \in MemRequest, MembersHandle(r) PROVE OneRoleSoFar'
<1> SUFFICES ASSUME memAlone', project' # "deleted",
                    memFaults' \cap {"staleUngrant", "addMirror", "revoke", "crash"} = {},
                    NEW m \in Member \ {Owner}
             PROVE  TupleOfRow(m)'
  BY DEF OneRoleSoFar
<1>1. /\ memAlone
      /\ \A q \in MemRequest \ {r} : memStep[q] \notin MemWorking /\ memStep'[q] \notin MemWorking
      /\ memStep[r] \in MemWorking \/ memStep[r] = "idle"
  BY MemRestIdle
<1>2. memFaults \subseteq memFaults'
  BY DEF MembersHandle, ReplayCreate, CreateRefused, InsertProject, GrantOwner, GrantOwnerFails, MirrorOwner, StoreKey,
         ReadRole, UngrantStale, GrantRole, GrantRoleFails, MirrorRole, AnnounceRole, RevokeMember, DeleteRow,
         AnnounceRemoval, DeleteProject, MemberCrash, Fails
<1>3. ~DeleteProject(r) /\ project # "deleted"
  <2>1. ~DeleteProject(r)
    BY DEF DeleteProject
  <2> QED BY <2>1 DEF MembersHandle, ReplayCreate, CreateRefused, InsertProject, GrantOwner, GrantOwnerFails, MirrorOwner, StoreKey,
         ReadRole, UngrantStale, GrantRole, GrantRoleFails, MirrorRole, AnnounceRole, RevokeMember, DeleteRow,
         AnnounceRemoval, MemberCrash, memTables
<1>4. TupleBy(r, m)
  <2>1. TupleOfRow(m)
    BY <1>1, <1>2, <1>3 DEF MemInv, OneRoleSoFar
  <2>2. \A q \in MemRequest \ {r} : ~Stands(q, "mirror", "add")
    BY <1>1 DEF Stands, MemWorking
  <2> QED BY <2>1, <2>2 DEF TupleOfRow, TupleBy
<1> SUFFICES TupleBy(r, m)'
  <2>1. \A q \in MemRequest \ {r} :
          ~Stands(q, "mirror", "add")' /\ ~Stands(q, "grant", "add")' /\ ~Stands(q, "ungrant", "add")' /\ ~Stands(q, "mirror", "remove")'
    BY <1>1 DEF Stands, MemWorking
  <2> QED BY <2>1 DEF TupleOfRow, TupleBy
<1>5. ~Fails("staleUngrant") /\ ~Fails("addMirror") /\ ~Fails("revoke") /\ ~Fails("crash")
  BY DEF Fails
<1>6. m \in Member /\ m # Owner /\ <<m, "none">> \notin grants
  BY DEF MemInv, MemShapes, AnyRole, Role
<1>7. CASE ReplayCreate(r) \/ CreateRefused(r) \/ InsertProject(r)
  <2>1. memStep[r] = "idle" /\ UNCHANGED <<grants, mirror>>
    BY <1>7 DEF ReplayCreate, CreateRefused, InsertProject, Arrives, memTables
  <2>2. PICK req : req = [kind |-> "create", member |-> Owner, role |-> "owner"]
    OBVIOUS
  <2>3. memAsk'[r] = req /\ req.kind = "create"
    BY <1>7, <2>2, MemWhere DEF ReplayCreate, CreateRefused, InsertProject, Arrives
  <2> QED BY <1>4, <2>1, <2>3 DEF TupleBy, Stands, TuplesOf
<1>8. CASE ReadRole(r)
  <2>1. PICK n \in Member, x \in Role :
          /\ Arrives(r, [kind |-> "add", member |-> n, role |-> x])
          /\ memRead' = [memRead EXCEPT ![r] = mirror[n]]
          /\ memStep' = [memStep EXCEPT ![r] = IF IsStale(mirror[n], x) THEN "ungrant" ELSE "grant"]
    BY <1>8 DEF ReadRole, Then
  <2>2. PICK req : req = [kind |-> "add", member |-> n, role |-> x]
    OBVIOUS
  <2>3. memStep[r] = "idle" /\ UNCHANGED <<grants, mirror>> /\ memAsk'[r] = req /\ memRead'[r] = mirror[n]
    BY <1>8, <2>1, <2>2, MemWhere DEF ReadRole, Arrives, memTables
  <2>4. memStep'[r] = IF IsStale(mirror[n], x) THEN "ungrant" ELSE "grant"
    BY <2>1, MemWhere
  <2>5. TuplesOf(m)' = TuplesOf(m) /\ TuplesOf(m) \subseteq {<<m, mirror[m]>>}
    BY <1>4, <2>3 DEF TupleBy, TuplesOf, Stands
  <2>6. m = n /\ memStep'[r] = "grant" => TuplesOf(m) \subseteq {<<m, x>>}
    <3> SUFFICES ASSUME m = n, memStep'[r] = "grant" PROVE TuplesOf(m) \subseteq {<<m, x>>}
      OBVIOUS
    <3>1. mirror[m] \in {"none", x}
      BY <2>4 DEF IsStale
    <3> QED BY <1>6, <2>5, <3>1 DEF TuplesOf
  <2>7. req.member = n /\ req.kind = "add" /\ req.role = x
    BY <2>2
  <2>8. memStep'[r] \in {"ungrant", "grant"}
    BY <2>4
  <2> QED BY <2>3, <2>5, <2>6, <2>7, <2>8 DEF TupleBy, Stands
<1>9. CASE RevokeMember(r)
  <2>1. PICK n \in Member :
          /\ Arrives(r, [kind |-> "remove", member |-> n, role |-> "none"])
          /\ grants' = grants \ TuplesOf(n)
    BY <1>5, <1>9 DEF RevokeMember, Revoked
  <2>2. PICK req : req = [kind |-> "remove", member |-> n, role |-> "none"]
    OBVIOUS
  <2>3. memStep[r] = "idle" /\ memAsk'[r] = req /\ memStep'[r] = "mirror" /\ mirror' = mirror /\ req.kind = "remove"
        /\ req.member = n
    BY <1>9, <2>1, <2>2, MemWhere DEF Arrives, RevokeMember, Then
  <2>4. TuplesOf(m)' \subseteq TuplesOf(m) /\ (m = n => TuplesOf(m)' = {})
    BY <2>1 DEF TuplesOf
  <2> QED BY <1>4, <2>3, <2>4 DEF TupleBy, Stands
<1>10. CASE GrantOwner(r) \/ GrantOwnerFails(r) \/ MirrorOwner(r) \/ StoreKey(r)
  <2>1. memAsk' = memAsk /\ memAsk[r].kind = "create" /\ memAsk[r].member = Owner
    BY <1>10, MemWhere DEF GrantOwner, GrantOwnerFails, MirrorOwner, StoreKey, Continues
  <2>2. TuplesOf(m)' = TuplesOf(m)
    BY <1>6, <1>10 DEF GrantOwner, GrantOwnerFails, MirrorOwner, StoreKey, memTables, TuplesOf
  <2>3. mirror'[m] = mirror[m]
    BY <1>6, <1>10, MemWhere DEF GrantOwner, GrantOwnerFails, MirrorOwner, StoreKey, memTables
  <2> QED BY <1>4, <1>6, <2>1, <2>2, <2>3 DEF TupleBy
<1>11. CASE UngrantStale(r)
  <2>1. /\ memAsk' = memAsk /\ mirror' = mirror /\ memAsk[r].kind = "add" /\ memStep[r] = "ungrant" /\ memStep'[r] = "grant"
        /\ grants' = grants \ {<<memAsk[r].member, memRead[r]>>}
    BY <1>5, <1>11, MemWhere DEF UngrantStale, Continues, Then
  <2>2. TuplesOf(m)' \subseteq TuplesOf(m) /\ TuplesOf(m) \subseteq {<<m, mirror[m]>>}
    BY <1>4, <2>1 DEF TuplesOf, TupleBy, Stands
  <2>3. memAsk[r].member = m => TuplesOf(m)' = {}
    <3>1. memAsk[r].member = m => memRead[r] = mirror[m]
      BY <1>4, <2>1 DEF TupleBy, Stands
    <3> QED BY <2>1, <2>2, <3>1 DEF TuplesOf
  <2> QED BY <2>1, <2>2, <2>3 DEF TupleBy, Stands
<1>12. CASE GrantRole(r)
  <2>1. /\ memAsk' = memAsk /\ mirror' = mirror /\ memAsk[r].kind = "add" /\ memStep[r] = "grant" /\ memStep'[r] = "mirror"
        /\ grants' = grants \cup {<<memAsk[r].member, memAsk[r].role>>}
    BY <1>12, MemWhere DEF GrantRole, Continues, Then
  <2>2. CASE memAsk[r].member = m
    <3>1. TuplesOf(m) \subseteq {<<m, memAsk[r].role>>}
      BY <1>4, <2>1, <2>2 DEF TupleBy, Stands
    <3>2. TuplesOf(m)' \subseteq {<<m, memAsk[r].role>>}
      BY <2>1, <2>2, <3>1 DEF TuplesOf
    <3> QED BY <2>1, <2>2, <3>2 DEF TupleBy, Stands
  <2>3. CASE memAsk[r].member # m
    <3>1. TuplesOf(m)' = TuplesOf(m)
      BY <2>1, <2>3 DEF TuplesOf
    <3> QED BY <1>4, <2>1, <2>3, <3>1 DEF TupleBy, Stands
  <2> QED BY <2>2, <2>3
<1>13. CASE GrantRoleFails(r) \/ AnnounceRole(r) \/ AnnounceRemoval(r)
  <2>1. /\ memAsk' = memAsk /\ UNCHANGED <<grants, mirror>> /\ memStep[r] \in {"grant", "news"} /\ memStep'[r] = "done"
    BY <1>13, MemWhere DEF GrantRoleFails, AnnounceRole, AnnounceRemoval, Continues, Leaves, Then, memTables
  <2>2. TuplesOf(m)' = TuplesOf(m)
    BY <2>1 DEF TuplesOf
  <2> QED BY <1>4, <2>1, <2>2 DEF TupleBy, Stands
<1>14. CASE MirrorRole(r)
  <2>1. /\ memAsk' = memAsk /\ grants' = grants /\ memAsk[r].kind = "add" /\ memStep[r] = "mirror" /\ memStep'[r] = "news"
        /\ mirror' = [mirror EXCEPT ![memAsk[r].member] = memAsk[r].role]
    BY <1>5, <1>14, MemWhere DEF MirrorRole, Continues, Then, Upserted
  <2>2. TuplesOf(m)' = TuplesOf(m)
    BY <2>1 DEF TuplesOf
  <2>3. mirror'[m] = IF m = memAsk[r].member THEN memAsk[r].role ELSE mirror[m]
    BY <1>6, <2>1, MemWhere
  <2> QED BY <1>4, <2>1, <2>2, <2>3 DEF TupleBy, Stands
<1>15. CASE DeleteRow(r)
  <2>1. /\ memAsk' = memAsk /\ grants' = grants /\ memAsk[r].kind = "remove" /\ memStep[r] = "mirror"
        /\ memStep'[r] \in {"news", "done"} /\ mirror' = [mirror EXCEPT ![memAsk[r].member] = "none"]
    BY <1>15, MemWhere DEF DeleteRow, Continues, Then, Leaves
  <2>2. TuplesOf(m)' = TuplesOf(m)
    BY <2>1 DEF TuplesOf
  <2>3. m # memAsk[r].member => mirror'[m] = mirror[m]
    BY <1>6, <2>1, MemWhere
  <2> QED BY <1>4, <2>1, <2>2, <2>3 DEF TupleBy, Stands
<1>16. ~MemberCrash(r)
  BY <1>5 DEF MemberCrash
<1> QED BY <1>3, <1>7, <1>8, <1>9, <1>10, <1>11, <1>12, <1>13, <1>14, <1>15, <1>16 DEF MembersHandle

\* The last event tells of the row, or the one that will is on its way.
NewsBy(r, m) ==
    /\ memAsk[r].member = m /\ Stands(r, "news", "add") => mirror[m] = memAsk[r].role
    /\ memAsk[r].member = m /\ Stands(r, "news", "remove") => ~HasRow(m)
    /\ ~(memAsk[r].member = m /\ (Stands(r, "news", "add") \/ Stands(r, "news", "remove"))) => InSync(m)

\* The news of a member lag behind its row by one step of the request that wrote it.
LEMMA NewsKept == ASSUME MemInv, NEW r \in MemRequest, MembersHandle(r) PROVE NewsInSync'
<1> SUFFICES ASSUME memAlone', project' # "deleted", memFaults' \cap {"addMirror", "crash"} = {},
                    NEW m \in Member \ {Owner}
             PROVE  NewsSoon(m)'
  BY DEF NewsInSync
<1>1. /\ memAlone
      /\ \A q \in MemRequest \ {r} : memStep[q] \notin MemWorking /\ memStep'[q] \notin MemWorking
      /\ memStep[r] \in MemWorking => project = "there"
      /\ memStep[r] \in MemWorking \/ memStep[r] = "idle"
  BY MemRestIdle
<1>2. memFaults \subseteq memFaults'
  BY DEF MembersHandle, ReplayCreate, CreateRefused, InsertProject, GrantOwner, GrantOwnerFails, MirrorOwner, StoreKey,
         ReadRole, UngrantStale, GrantRole, GrantRoleFails, MirrorRole, AnnounceRole, RevokeMember, DeleteRow,
         AnnounceRemoval, DeleteProject, MemberCrash, Fails
<1>3. ~DeleteProject(r) /\ project # "deleted"
  <2>1. ~DeleteProject(r)
    BY DEF DeleteProject
  <2> QED BY <2>1 DEF MembersHandle, ReplayCreate, CreateRefused, InsertProject, GrantOwner, GrantOwnerFails, MirrorOwner, StoreKey,
         ReadRole, UngrantStale, GrantRole, GrantRoleFails, MirrorRole, AnnounceRole, RevokeMember, DeleteRow,
         AnnounceRemoval, MemberCrash, memTables
<1>4. NewsBy(r, m)
  <2>1. NewsSoon(m)
    BY <1>1, <1>2, <1>3 DEF MemInv, NewsInSync
  <2>2. \A q \in MemRequest \ {r} : ~Stands(q, "news", "add") /\ ~Stands(q, "news", "remove")
    BY <1>1 DEF Stands, MemWorking
  <2> QED BY <2>1, <2>2 DEF NewsSoon, NewsBy
<1> SUFFICES NewsBy(r, m)'
  <2>1. \A q \in MemRequest \ {r} : ~Stands(q, "news", "add")' /\ ~Stands(q, "news", "remove")'
    BY <1>1 DEF Stands, MemWorking
  <2> QED BY <2>1 DEF NewsSoon, NewsBy
<1>5. ~Fails("addMirror") /\ ~Fails("crash")
  BY DEF Fails
<1>6. m \in Member /\ m # Owner /\ news \in [Member -> [kind : {"none", "added", "changed", "removed"}, role : AnyRole \cup {"none"}]]
  BY DEF MemInv, MemShapes
<1>7. CASE \/ ReplayCreate(r) \/ CreateRefused(r) \/ InsertProject(r) \/ ReadRole(r) \/ RevokeMember(r)
           \/ GrantOwner(r) \/ GrantOwnerFails(r) \/ StoreKey(r) \/ UngrantStale(r) \/ GrantRole(r) \/ GrantRoleFails(r)
  <2>1. memStep[r] # "news" /\ UNCHANGED <<mirror, news>>
    BY <1>7 DEF ReplayCreate, CreateRefused, InsertProject, ReadRole, RevokeMember, GrantOwner, GrantOwnerFails, StoreKey,
                UngrantStale, GrantRole, GrantRoleFails, Arrives, Continues, memTables
  <2>2. memStep'[r] # "news"
    <3>1. PICK x \in MemWorking \cup {"done"} : memStep' = [memStep EXCEPT ![r] = x] /\ x # "news"
      BY <1>7 DEF ReplayCreate, CreateRefused, InsertProject, ReadRole, RevokeMember, GrantOwner, GrantOwnerFails, StoreKey,
                  UngrantStale, GrantRole, GrantRoleFails, Then, Leaves, MemWorking
    <3> QED BY <3>1, MemWhere
  <2> QED BY <1>4, <2>1, <2>2 DEF NewsBy, InSync, Stands, HasRow
<1>8. CASE MirrorOwner(r)
  <2>1. memStep[r] # "news" /\ memStep'[r] # "news" /\ news' = news /\ mirror'[m] = mirror[m]
    BY <1>6, <1>8, MemWhere DEF MirrorOwner, Continues, Then
  <2> QED BY <1>4, <2>1 DEF NewsBy, InSync, Stands, HasRow
<1>9. CASE MirrorRole(r)
  <2>1. /\ memAsk' = memAsk /\ news' = news /\ memAsk[r].kind = "add" /\ memStep[r] = "mirror" /\ memStep'[r] = "news"
        /\ mirror' = [mirror EXCEPT ![memAsk[r].member] = memAsk[r].role]
    BY <1>5, <1>9, MemWhere DEF MirrorRole, Continues, Then, Upserted
  <2>2. mirror'[m] = IF m = memAsk[r].member THEN memAsk[r].role ELSE mirror[m]
    BY <1>6, <2>1, MemWhere
  <2> QED BY <1>4, <2>1, <2>2 DEF NewsBy, InSync, Stands, HasRow
<1>10. CASE DeleteRow(r)
  <2>1. /\ memAsk' = memAsk /\ news' = news /\ memAsk[r].kind = "remove" /\ memStep[r] = "mirror"
        /\ memStep'[r] = (IF HasRow(memAsk[r].member) THEN "news" ELSE "done")
        /\ mirror' = [mirror EXCEPT ![memAsk[r].member] = "none"]
    BY <1>10, MemWhere DEF DeleteRow, Continues, Then, Leaves
  <2>2. mirror'[m] = IF m = memAsk[r].member THEN "none" ELSE mirror[m]
    BY <1>6, <2>1, MemWhere
  <2>3. InSync(m)
    BY <1>4, <2>1 DEF NewsBy, Stands
  <2>4. CASE m = memAsk[r].member /\ HasRow(m)
    BY <2>1, <2>2, <2>4 DEF NewsBy, Stands, HasRow
  <2>5. CASE m # memAsk[r].member \/ ~HasRow(m)
    <3>1. mirror'[m] = mirror[m]
      BY <2>2, <2>5 DEF HasRow
    <3>2. memAsk[r].member = m => memStep'[r] = "done"
      BY <2>1, <2>5
    <3> QED BY <2>1, <2>3, <3>1, <3>2 DEF NewsBy, InSync, HasRow, Stands
  <2> QED BY <2>4, <2>5
<1>11. CASE AnnounceRole(r)
  <2>1. memAsk[r].kind = "add" /\ memStep[r] = "news" /\ project = "there" /\ memAsk[r].role # "none" /\ mirror' = mirror
        /\ memStep'[r] = "done"
    BY <1>1, <1>11, MemWhere DEF AnnounceRole, Continues, MemWorking, Role, Leaves, Then
  <2>2. PICK n : n = [kind |-> IF memRead[r] \in {"none", memAsk[r].role} THEN "added" ELSE "changed", role |-> memAsk[r].role]
    OBVIOUS
  <2>3. news' = [news EXCEPT ![memAsk[r].member] = n] /\ n.kind \in {"added", "changed"} /\ n.role = memAsk[r].role
    BY <1>11, <2>1, <2>2 DEF AnnounceRole
  <2>4. news'[m] = IF m = memAsk[r].member THEN n ELSE news[m]
    BY <1>6, <2>3
  <2>6. ASSUME memAsk[r].member = m PROVE mirror[m] = memAsk[r].role
    BY <1>4, <2>1, <2>6 DEF NewsBy, Stands
  <2> QED BY <1>4, <2>1, <2>3, <2>4, <2>6 DEF NewsBy, InSync, HasRow, Stands
<1>12. CASE AnnounceRemoval(r)
  <2>1. memAsk[r].kind = "remove" /\ memStep[r] = "news" /\ project = "there" /\ mirror' = mirror
        /\ memStep'[r] = "done"
    BY <1>1, <1>12, MemWhere DEF AnnounceRemoval, Continues, MemWorking, Leaves, Then
  <2>2. PICK n : n = [kind |-> "removed", role |-> "none"]
    OBVIOUS
  <2>3. news' = [news EXCEPT ![memAsk[r].member] = n] /\ n.kind = "removed"
    BY <1>12, <2>1, <2>2 DEF AnnounceRemoval
  <2>4. news'[m] = IF m = memAsk[r].member THEN n ELSE news[m]
    BY <1>6, <2>3
  <2>5. ASSUME memAsk[r].member = m PROVE ~HasRow(m)
    BY <1>4, <2>1, <2>5 DEF NewsBy, Stands
  <2> QED BY <1>4, <2>1, <2>3, <2>4, <2>5 DEF NewsBy, InSync, HasRow, Stands
<1>13. ~MemberCrash(r)
  BY <1>5 DEF MemberCrash
<1> QED BY <1>3, <1>7, <1>8, <1>9, <1>10, <1>11, <1>12, <1>13 DEF MembersHandle

\* What the members of a project and the requests about them always satisfy.
LEMMA MemInvariant == MembersSpec => []MemInv
<1>1. MemInv /\ [MembersNext]_memVars => MemInv'
  <2> SUFFICES ASSUME MemInv, [MembersNext]_memVars PROVE MemInv'
    OBVIOUS
  <2>1. CASE UNCHANGED memVars
    <3>1. UNCHANGED <<project, keyStored, grants, mirror, news>> /\ UNCHANGED <<memStep, memAsk, memRead, memFaults, memAlone, cleared>>
      BY <2>1 DEF memVars, memTables
    <3>2. MemShapes' /\ OneUnderWay' /\ NoneNamesCleared' /\ RemovedHoldsNothing'
      BY <3>1 DEF MemInv, MemShapes, OneUnderWay, NoneNamesCleared, RemovedHoldsNothing, MemUnderWay, TuplesOf
    <3>3. BackedOrTurning'
      BY <3>1 DEF MemInv, BackedOrTurning, HasRow, Turns, Stands
    <3>4. OneRoleSoFar'
      BY <3>1 DEF MemInv, OneRoleSoFar, TupleOfRow, TuplesOf, Stands
    <3>5. NewsInSync'
      BY <3>1 DEF MemInv, NewsInSync, NewsSoon, InSync, HasRow, Stands
    <3> QED BY <3>2, <3>3, <3>4, <3>5 DEF MemInv
  <2>2. ASSUME NEW r \in MemRequest, MembersHandle(r) PROVE MemInv'
    BY <2>2, MemStepsKept, RemovedKept, BackedKept, OneRoleKept, NewsKept DEF MemInv
  <2> QED BY <2>1, <2>2 DEF MembersNext
<1> QED BY <1>1, InitMemInv, PTL DEF MembersSpec

\* AddMember, RemoveMember, CreateProject and DeleteProject, in every behaviour: a removal takes
\* every role and none comes back before a request names the member again; and while
\* requests come one at a time a role of the table is backed by its tuple, a member has
\* one role, and its last event tells of its row, but for the failures the code logs.
THEOREM MembersBacked == MembersSpec => []MembersAreBacked
<1>2. MemInv => MembersAreBacked
  <2> SUFFICES ASSUME MemInv PROVE MembersAreBacked
    OBVIOUS
  <2>1. NoneUnderWay => \A r \in MemRequest, m \in Member :
          ~Turns(r, m) /\ ~Stands(r, "mirror", "add") /\ ~Stands(r, "news", "add") /\ ~Stands(r, "news", "remove")
    BY DEF NoneUnderWay, Turns, Stands
  <2>2. MirrorIsBacked
    BY <2>1 DEF MemInv, MirrorIsBacked, BackedOrTurning
  <2>3. NewsMatchesMirror
    BY <2>1 DEF MemInv, NewsMatchesMirror, NewsInSync, NewsSoon, InSync
  <2>4. OneRole
    <3> SUFFICES ASSUME memAlone, NoneUnderWay, project = "there",
                        memFaults \cap {"staleUngrant", "addMirror", "revoke", "crash"} = {},
                        NEW m \in Member \ {Owner}
                 PROVE  Cardinality(TuplesOf(m)) <= 1
      BY DEF OneRole
    <3>1. TupleOfRow(m)
      BY DEF MemInv, OneRoleSoFar
    <3>2. \A r \in MemRequest : ~Stands(r, "mirror", "add")
      BY <2>1
    <3>3. TuplesOf(m) \subseteq {<<m, mirror[m]>>}
      BY <3>1, <3>2 DEF TupleOfRow
    <3>4. IsFiniteSet({<<m, mirror[m]>>}) /\ Cardinality({<<m, mirror[m]>>}) = 1
      BY FS_Singleton
    <3> QED BY <3>3, <3>4, FS_Subset
  <2> QED BY <2>2, <2>3, <2>4 DEF MemInv, MembersAreBacked
<1> QED BY <1>2, MemInvariant, PTL

-----------------------------------------------------------------------------
(* Catalogue: what a project has to choose from.                           *)

AskSteps == {"idle", "globals", "row", "check", "rows", "counts", "done", "refused"}

CatTypes ==
    /\ catKind \in {"label", "milestone"} \cup TemplateKind
    /\ itemHome \in [CatItem -> CatProject \cup {EveryProject}]
    /\ catKind = "milestone" => \A i \in CatItem : itemHome[i] # EveryProject
    /\ there \subseteq CatItem /\ viewOf \subseteq CatProject
    /\ filed \in [CatCard -> CatItem \cup {NoneOfThem}] /\ finished \subseteq CatCard
    /\ milestoneSeen \subseteq CatCard \X CatItem
    /\ ask = [at |-> ask.at, verb |-> ask.verb, project |-> ask.project, rows |-> ask.rows, counts |-> ask.counts]
    /\ ask.at \in AskSteps /\ ask.verb \in {"none", "list", "get"} /\ (ask.verb = "none" => ask.at = "idle")
    /\ ask.at = "idle" => ask.counts = {}
    /\ ask.rows \subseteq CatItem /\ ask.project \in CatProject \cup {EveryProject, NoneOfThem}
    /\ since = [there |-> since.there, viewed |-> since.viewed, always |-> since.always, faulty |-> since.faulty]
    /\ since.always \subseteq CatProject

\* What the ghost says of a request under way is so of this moment.
SinceSees == ask.at # "idle" => /\ viewOf \subseteq since.viewed /\ since.always \subseteq viewOf
                                /\ since.there \subseteq there

OfProject == {i \in CatItem : itemHome[i] = ask.project}
Global == {i \in CatItem : itemHome[i] = EveryProject}
MaySeeAll == ask.project \in since.always /\ ~since.faulty

\* A get has the one row it was asked for, whose project is looked at before it is done.
GetsItsRow ==
    ask.verb = "get" =>
        /\ catKind # "label" /\ ask.at \notin {"idle", "globals", "rows"}
        /\ \A i \in ask.rows : itemHome[i] = ask.project
        /\ ask.at \in {"counts", "done"} => ask.project \in since.viewed \cup {EveryProject}

\* A list has what is global from its first query, or reads it with the rows.
ListSoFar ==
    ask.verb = "list" =>
        /\ ask.project \in CatProject \cup {NoneOfThem} /\ ask.at \notin {"idle", "row"}
        /\ ask.at \in {"check", "rows"} =>
              /\ ask.project \in CatProject /\ ask.rows \subseteq Global
              /\ catKind \in TemplateKind => since.there \cap Global \subseteq ask.rows
        /\ ask.at \in {"rows", "counts"} => ask.project \in since.viewed
        /\ ask.at = "counts" => /\ catKind = "milestone" /\ ask.rows \subseteq OfProject
                                /\ since.there \cap OfProject \subseteq ask.rows
        /\ ask.at = "done" =>
              /\ \A i \in ask.rows : itemHome[i] \in since.viewed \cup {EveryProject}
              /\ MaySeeAll => since.there \cap (OfProject \cup Global) \subseteq ask.rows

\* All counts are taken by one query.
CountedTogether ==
    /\ CardCountedOnce
    /\ ask.at \notin {"counts", "done"} => ask.counts = {}
    /\ ask.at = "counts" /\ ask.counts # {} => \A i \in ask.rows : \E n \in ask.counts : n.of = i

CatInv == CatTypes /\ SinceSees /\ GetsItsRow /\ ListSoFar /\ CountedTogether

-----------------------------------------------------------------------------
\* A request that goes on keeps what the step does not name.
LEMMA AskGoesOn ==
    ASSUME CatTypes
    PROVE  /\ \A x : [ask EXCEPT !.at = x] =
                 [at |-> x, verb |-> ask.verb, project |-> ask.project, rows |-> ask.rows, counts |-> ask.counts]
           /\ \A x, y : [ask EXCEPT !.at = x, !.rows = y] =
                 [at |-> x, verb |-> ask.verb, project |-> ask.project, rows |-> y, counts |-> ask.counts]
           /\ \A x : [ask EXCEPT !.counts = x] =
                 [at |-> ask.at, verb |-> ask.verb, project |-> ask.project, rows |-> ask.rows, counts |-> x]
           /\ \A x : [since EXCEPT !.faulty = x] =
                 [there |-> since.there, viewed |-> since.viewed, always |-> since.always, faulty |-> x]
           /\ \A x : [since EXCEPT !.there = x] =
                 [there |-> x, viewed |-> since.viewed, always |-> since.always, faulty |-> since.faulty]
           /\ \A x, y : [since EXCEPT !.viewed = x, !.always = y] =
                 [there |-> since.there, viewed |-> x, always |-> y, faulty |-> since.faulty]
<1>1. PICK a, v, p, r, c : ask = [at |-> a, verb |-> v, project |-> p, rows |-> r, counts |-> c]
  BY DEF CatTypes
<1>2. PICK t, w, l, f : since = [there |-> t, viewed |-> w, always |-> l, faulty |-> f]
  BY DEF CatTypes
<1>3. \A x, y : [ask EXCEPT !.at = x] = [at |-> x, verb |-> v, project |-> p, rows |-> r, counts |-> c]
  BY <1>1
<1>4. ASSUME NEW x, NEW y PROVE [ask EXCEPT !.at = x, !.rows = y] = [at |-> x, verb |-> v, project |-> p, rows |-> y, counts |-> c]
  <2>1. PICK first : first = [ask EXCEPT !.at = x]
    OBVIOUS
  <2>2. first = [at |-> x, verb |-> v, project |-> p, rows |-> r, counts |-> c]
    BY <1>1, <2>1
  <2>3. [ask EXCEPT !.at = x, !.rows = y] = [first EXCEPT !.rows = y]
    BY <1>1, <2>1
  <2> QED BY <2>2, <2>3
<1>5. \A x, y : [ask EXCEPT !.counts = x] = [at |-> a, verb |-> v, project |-> p, rows |-> r, counts |-> x]
  BY <1>1
<1>6. \A x, y : [since EXCEPT !.faulty = x] = [there |-> t, viewed |-> w, always |-> l, faulty |-> x]
  BY <1>2
<1>7. \A x, y : [since EXCEPT !.there = x] = [there |-> x, viewed |-> w, always |-> l, faulty |-> f]
  BY <1>2
<1>8. ASSUME NEW x, NEW y PROVE [since EXCEPT !.viewed = x, !.always = y] = [there |-> t, viewed |-> x, always |-> y, faulty |-> f]
  <2>1. PICK first : first = [since EXCEPT !.viewed = x]
    OBVIOUS
  <2>2. first = [there |-> t, viewed |-> x, always |-> l, faulty |-> f]
    BY <1>2, <2>1
  <2>3. [since EXCEPT !.viewed = x, !.always = y] = [first EXCEPT !.always = y]
    BY <1>2, <2>1
  <2> QED BY <2>2, <2>3
<1>9. ask.at = a /\ ask.verb = v /\ ask.project = p /\ ask.rows = r /\ ask.counts = c
  BY <1>1
<1>10. since.there = t /\ since.viewed = w /\ since.always = l /\ since.faulty = f
  BY <1>2
<1>11. /\ \A x : [ask EXCEPT !.at = x] =
              [at |-> x, verb |-> ask.verb, project |-> ask.project, rows |-> ask.rows, counts |-> ask.counts]
       /\ \A x, y : [ask EXCEPT !.at = x, !.rows = y] =
              [at |-> x, verb |-> ask.verb, project |-> ask.project, rows |-> y, counts |-> ask.counts]
       /\ \A x : [ask EXCEPT !.counts = x] =
              [at |-> ask.at, verb |-> ask.verb, project |-> ask.project, rows |-> ask.rows, counts |-> x]
  BY <1>3, <1>4, <1>5, <1>9
<1>12. /\ \A x : [since EXCEPT !.faulty = x] =
              [there |-> since.there, viewed |-> since.viewed, always |-> since.always, faulty |-> x]
       /\ \A x : [since EXCEPT !.there = x] =
              [there |-> x, viewed |-> since.viewed, always |-> since.always, faulty |-> since.faulty]
       /\ \A x, y : [since EXCEPT !.viewed = x, !.always = y] =
              [there |-> since.there, viewed |-> x, always |-> y, faulty |-> since.faulty]
  BY <1>6, <1>7, <1>8, <1>10
<1> QED BY <1>11, <1>12, Zenon

\* No request, and rows and relations of any kind.
LEMMA InitCatInv == CatInit => CatInv
<1> SUFFICES ASSUME CatInit PROVE CatInv
  OBVIOUS
<1>1. ask = [at |-> "idle", verb |-> "none", project |-> NoneOfThem, rows |-> {}, counts |-> {}]
  BY DEF CatInit, NotAsked
<1>2. since = [there |-> {}, viewed |-> {}, always |-> {}, faulty |-> FALSE]
  BY DEF CatInit
<1>3. /\ itemHome \in [CatItem -> CatProject \cup {EveryProject}]
      /\ catKind = "milestone" => \A i \in CatItem : itemHome[i] # EveryProject
  BY CatalogueAssumption DEF CatInit
<1>4. there \subseteq CatItem /\ viewOf \subseteq CatProject /\ finished = {}
      /\ filed \in [CatCard -> CatItem \cup {NoneOfThem}] /\ catKind \in {"label", "milestone"} \cup TemplateKind
      /\ milestoneSeen = {}
  BY DEF CatInit
<1>5. CatTypes
  BY <1>1, <1>2, <1>3, <1>4 DEF CatTypes, AskSteps
<1>6. CardCountedOnce
  BY <1>1, <1>4 DEF CardCountedOnce
<1> QED BY <1>1, <1>2, <1>5, <1>6 DEF CatInv, SinceSees, GetsItsRow, ListSoFar, CountedTogether

\* A step of a request changes no row and no relation.
LEMMA StepsOfAsk ==
    ASSUME NEW next, Asks(next), CatTypes
    PROVE  /\ ask' = next /\ catKind' = catKind /\ itemHome' = itemHome /\ there' = there /\ viewOf' = viewOf
           /\ filed' = filed /\ finished' = finished /\ milestoneSeen' = milestoneSeen
BY DEF Asks, catRows, filings

\* What the counts of a request say stays so while it has the same.
LEMMA SameCounts == ASSUME CardCountedOnce, ask'.counts = ask.counts PROVE CardCountedOnce'
<1>1. PICK f \in [CatCard -> CatItem \cup {NoneOfThem}], d \in SUBSET CatCard :
        \A n \in ask.counts : n = CountIn(n.of, f, d)
  BY Zenon DEF CardCountedOnce
<1>2. \A n \in ask'.counts : n = CountIn(n.of, f, d)
  BY <1>1
<1> QED BY <1>1, <1>2, Zenon DEF CardCountedOnce, CountIn

\* A request begins: nothing is read, or the row whose id it has.
LEMMA AskBeginKeeps ==
    ASSUME CatInv, NEW verb \in {"list", "get"}, NEW to \in {"globals", "row", "check"},
           NEW p \in CatProject \cup {EveryProject, NoneOfThem}, NEW rows \in SUBSET CatItem, Begin(verb, to, p, rows),
           verb = "get" => to = "row" /\ catKind # "label" /\ \A i \in rows : itemHome[i] = p,
           verb = "list" => rows = {} /\ to # "row" /\ p \in CatProject \cup {NoneOfThem} /\ (to = "globals" \/ (p \in CatProject /\ catKind \notin TemplateKind))
    PROVE  CatInv'
<1> USE DEF CatInv
<1>1. /\ ask.counts = {}
      /\ ask' = [at |-> to, verb |-> verb, project |-> p, rows |-> rows, counts |-> {}]
  BY DEF Begin, Asks, NotAsked
<1>2. since' = [there |-> there, viewed |-> viewOf, always |-> viewOf, faulty |-> FALSE]
  BY DEF Begin
<1>3. /\ catKind' = catKind /\ itemHome' = itemHome /\ there' = there /\ viewOf' = viewOf
      /\ filed' = filed /\ finished' = finished /\ milestoneSeen' = milestoneSeen
  BY DEF Begin, Asks, catRows, filings
<1>4. CatTypes'
  BY <1>1, <1>2, <1>3 DEF CatTypes, AskSteps
<1>5. SinceSees' /\ GetsItsRow'
  BY <1>1, <1>2, <1>3 DEF SinceSees, GetsItsRow
<1>6. ListSoFar'
  BY <1>1, <1>2, <1>3 DEF ListSoFar
<1>7. CountedTogether'
  BY <1>1, SameCounts DEF CountedTogether
<1> QED BY <1>4, <1>5, <1>6, <1>7

\* The check of view: who is granted it had it in the request, who is denied it lacked it
\* then or the check failed.
LEMMA CheckKeeps ==
    ASSUME CatInv, NEW granted \in {"rows", "counts", "done"}, NEW denied \in {"done", "refused"},
           CheckItemView(ask.project, granted, denied),
           ask.verb = "get" => granted # "rows" /\ denied = "refused",
           ask.verb = "list" => granted = "rows" /\ (denied = "refused" \/ catKind \in TemplateKind)
    PROVE  CatInv'
<1> USE DEF CatInv
<1>1. PICK to \in {granted, denied} :
        /\ ask.at = "check"
        /\ ask' = [at |-> to, verb |-> ask.verb, project |-> ask.project, rows |-> ask.rows, counts |-> ask.counts]
        /\ \/ since' = since /\ to = (IF ask.project \in viewOf THEN granted ELSE denied)
           \/ to = denied /\ since' = [there |-> since.there, viewed |-> since.viewed, always |-> since.always, faulty |-> TRUE]
  <2>1. CASE /\ Asks([ask EXCEPT !.at = IF ask.project \in viewOf THEN granted ELSE denied])
             /\ UNCHANGED since
    <3>1. PICK to \in {granted, denied} : to = (IF ask.project \in viewOf THEN granted ELSE denied)
      OBVIOUS
    <3>2. ask.at = "check" /\ since' = since /\ ask' = [ask EXCEPT !.at = to]
      BY <2>1, <3>1 DEF Asks, CheckItemView
    <3>3. CatTypes
      OBVIOUS
    <3>4. [ask EXCEPT !.at = to]
             = [at |-> to, verb |-> ask.verb, project |-> ask.project, rows |-> ask.rows, counts |-> ask.counts]
      BY <3>3, AskGoesOn, Zenon
    <3> QED BY <3>1, <3>2, <3>4, Zenon
  <2>2. CASE Asks([ask EXCEPT !.at = denied]) /\ since' = [since EXCEPT !.faulty = TRUE]
    <3>1. ask.at = "check" /\ since' = [since EXCEPT !.faulty = TRUE] /\ ask' = [ask EXCEPT !.at = denied]
      BY <2>2 DEF Asks, CheckItemView
    <3>2. CatTypes
      OBVIOUS
    <3>3. /\ [ask EXCEPT !.at = denied]
                = [at |-> denied, verb |-> ask.verb, project |-> ask.project, rows |-> ask.rows, counts |-> ask.counts]
          /\ [since EXCEPT !.faulty = TRUE]
                = [there |-> since.there, viewed |-> since.viewed, always |-> since.always, faulty |-> TRUE]
      BY <3>2, AskGoesOn, Zenon
    <3> QED BY <3>1, <3>3, Zenon
  <2> QED BY <2>1, <2>2 DEF CheckItemView
<1>2. /\ catKind' = catKind /\ itemHome' = itemHome /\ there' = there /\ viewOf' = viewOf
      /\ filed' = filed /\ finished' = finished /\ milestoneSeen' = milestoneSeen
  BY DEF CheckItemView, Asks, catRows, filings
<1>3. /\ since'.there = since.there /\ since'.viewed = since.viewed /\ since'.always = since.always
      /\ since' = [there |-> since'.there, viewed |-> since'.viewed, always |-> since'.always, faulty |-> since'.faulty]
  BY <1>1 DEF CatTypes
<1>4. CatTypes'
  BY <1>1, <1>2, <1>3 DEF CatTypes, AskSteps
<1>5. SinceSees'
  BY <1>1, <1>2, <1>3 DEF SinceSees
<1>6. ask.counts = {} /\ CountedTogether'
  BY <1>1, SameCounts DEF CountedTogether
<1>7. GetsItsRow'
  <2>1. CASE ask.verb # "get"
    BY <1>1, <2>1 DEF GetsItsRow
  <2>2. CASE ask.verb = "get" /\ to = denied
    BY <1>1, <1>2, <2>2 DEF GetsItsRow
  <2>3. CASE ask.verb = "get" /\ to = granted /\ to # denied
    <3>1. ask.project \in since'.viewed
      BY <1>1, <1>3, <2>3 DEF SinceSees
    <3> QED BY <1>1, <1>2, <2>3, <3>1 DEF GetsItsRow
  <2> QED BY <1>1, <2>1, <2>2, <2>3
<1>8. ListSoFar'
  <2>1. CASE ask.verb # "list"
    BY <1>1, <2>1 DEF ListSoFar
  <2>2. CASE ask.verb = "list" /\ to = granted
    <3>1. to = "rows" /\ ask.project \in since'.viewed
      BY <1>1, <1>3, <2>2 DEF SinceSees
    <3> QED BY <1>1, <1>2, <1>3, <2>2, <3>1 DEF ListSoFar, Global
  <2>3. CASE ask.verb = "list" /\ to = denied
    <3>1. ~(ask.project \in since'.always /\ ~since'.faulty)
      BY <1>1, <1>3, <2>3 DEF SinceSees
    <3>2. to = "refused" \/ to = "done"
      BY <2>3
    <3> QED BY <1>1, <1>2, <1>3, <2>3, <3>1, <3>2 DEF ListSoFar, Global, MaySeeAll
  <2> QED BY <1>1, <2>1, <2>2, <2>3
<1> QED BY <1>4, <1>5, <1>6, <1>7, <1>8

\* A step that leaves the ghost alone and only takes the request further: to the end, to
\* its check or its next query, with the rows it has by then.
LEMMA FurtherKeeps ==
    ASSUME CatInv, NEW to \in {"check", "counts", "done", "refused"}, NEW rows \in SUBSET CatItem,
           ask' = [at |-> to, verb |-> ask.verb, project |-> ask.project, rows |-> rows, counts |-> ask.counts],
           UNCHANGED catRows, since' = since, ask.counts = {}, ask.at # "idle",
           ask.verb = "get" =>
               /\ rows = ask.rows
               /\ to \in {"counts", "done"} => ask.project = EveryProject,
           ask.verb = "list" =>
               \/ /\ to = "check" /\ ask.project \in CatProject /\ rows \subseteq Global
                  /\ catKind \in TemplateKind => since.there \cap Global \subseteq rows
               \/ /\ to = "counts" /\ ask.project \in since.viewed /\ catKind = "milestone"
                  /\ rows \subseteq OfProject /\ since.there \cap OfProject \subseteq rows
               \/ /\ to = "done"
                  /\ \A i \in rows : itemHome[i] \in since.viewed \cup {EveryProject}
                  /\ MaySeeAll => since.there \cap (OfProject \cup Global) \subseteq rows
               \/ to = "refused"
    PROVE  CatInv'
<1> USE DEF CatInv
<1>1. ask' = [at |-> to, verb |-> ask.verb, project |-> ask.project, rows |-> rows, counts |-> ask.counts]
  OBVIOUS
<1>2. /\ catKind' = catKind /\ itemHome' = itemHome /\ there' = there /\ viewOf' = viewOf
      /\ filed' = filed /\ finished' = finished /\ milestoneSeen' = milestoneSeen
  BY DEF catRows, filings
<1>3. CatTypes'
  BY <1>1, <1>2 DEF CatTypes, AskSteps
<1>4. SinceSees'
  BY <1>1, <1>2 DEF SinceSees
<1>5. CountedTogether'
  BY <1>1, SameCounts DEF CountedTogether
<1>6. GetsItsRow'
  BY <1>1, <1>2 DEF GetsItsRow
<1>7. ListSoFar'
  <2>1. OfProject' = OfProject /\ Global' = Global /\ MaySeeAll' = MaySeeAll
    BY <1>1, <1>2 DEF OfProject, Global, MaySeeAll
  <2> QED BY <1>1, <1>2, <2>1 DEF ListSoFar
<1> QED BY <1>3, <1>4, <1>5, <1>6, <1>7

\* list_templates, list_card_templates.
LEMMA ListsTemplatesKeeps == ASSUME CatInv, catKind \in TemplateKind, ListsTemplates PROVE CatInv'
<1>1. ASSUME NEW p \in CatProject \cup {NoneOfThem}, Begin("list", "globals", p, {}) PROVE CatInv'
  <2>1. p \in CatProject \cup {EveryProject, NoneOfThem} /\ {} \in SUBSET CatItem
    OBVIOUS
  <2> QED BY <1>1, <2>1, AskBeginKeeps
<1>2. ASSUME ask.at = "globals", UNCHANGED since,
             Asks([ask EXCEPT !.at = IF ask.project = NoneOfThem THEN "done" ELSE "check", !.rows = GlobalRows(ask.project)])
      PROVE  CatInv'
  <2>1. PICK to, rows : to = (IF ask.project = NoneOfThem THEN "done" ELSE "check") /\ rows = there \cap Global
    OBVIOUS
  <2>2. /\ ask' = [at |-> to, verb |-> ask.verb, project |-> ask.project, rows |-> rows, counts |-> ask.counts]
        /\ UNCHANGED catRows
    <3>1. GlobalRows(ask.project) = rows
      BY <2>1 DEF GlobalRows, ItemsOf, Global, CatInv, CatTypes
    <3>2. ask' = [ask EXCEPT !.at = to, !.rows = rows] /\ UNCHANGED catRows
      BY <1>2, <2>1, <3>1 DEF Asks
    <3>3. CatTypes
      BY DEF CatInv
    <3>4. [ask EXCEPT !.at = to, !.rows = rows] = [at |-> to, verb |-> ask.verb, project |-> ask.project, rows |-> rows, counts |-> ask.counts]
      BY <3>3, AskGoesOn, Zenon
    <3> QED BY <3>2, <3>4, Zenon
  <2>3. ask.counts = {} /\ ask.verb # "get" /\ to \in {"check", "done"} /\ rows \in SUBSET CatItem /\ rows \subseteq Global
    BY <1>2, <2>1 DEF CatInv, CountedTogether, GetsItsRow, Global
  <2>4. ASSUME ask.verb = "list"
        PROVE  /\ ask.project \notin CatProject => to = "done" /\ ~MaySeeAll
               /\ ask.project \in CatProject => to = "check"
               /\ since.there \cap Global \subseteq rows
    BY <1>2, <2>1, <2>4, CatalogueAssumption DEF CatInv, CatTypes, ListSoFar, MaySeeAll, SinceSees
  <2>5. \A i \in rows : itemHome[i] = EveryProject
    BY <2>3 DEF Global
  <2> QED BY <1>2, <2>2, <2>3, <2>4, <2>5, FurtherKeeps
<1>3. ASSUME ask.verb = "list", CheckItemView(ask.project, "rows", "done") PROVE CatInv'
  BY <1>3, CheckKeeps
<1>4. ASSUME ReadRows(ProjectRows(ask.project), "done") PROVE CatInv'
  <2>1. PICK rows : rows = ask.rows \cup (there \cap OfProject)
    OBVIOUS
  <2>2. /\ ask.at = "rows" /\ since' = since /\ UNCHANGED catRows
        /\ ask' = [at |-> "done", verb |-> ask.verb, project |-> ask.project, rows |-> rows, counts |-> ask.counts]
    <3>1. ask.rows \cup ProjectRows(ask.project) = rows
      BY <2>1 DEF ProjectRows, ItemsOf, OfProject, CatInv, CatTypes
    <3>2. ask' = [ask EXCEPT !.at = "done", !.rows = rows] /\ ask.at = "rows" /\ since' = since /\ UNCHANGED catRows
      BY <1>4, <3>1 DEF ReadRows, Asks
    <3>3. CatTypes
      BY DEF CatInv
    <3>4. [ask EXCEPT !.at = "done", !.rows = rows] = [at |-> "done", verb |-> ask.verb, project |-> ask.project, rows |-> rows, counts |-> ask.counts]
      BY <3>3, AskGoesOn, Zenon
    <3> QED BY <3>2, <3>4, Zenon
  <2>3. ask.counts = {} /\ ask.verb # "get" /\ rows \in SUBSET CatItem
    BY <2>1, <2>2 DEF CatInv, CountedTogether, GetsItsRow, CatTypes, OfProject
  <2>4. ASSUME ask.verb = "list"
        PROVE  /\ \A i \in rows : itemHome[i] \in since.viewed \cup {EveryProject}
               /\ since.there \cap (OfProject \cup Global) \subseteq rows
    BY <2>1, <2>2, <2>4 DEF CatInv, ListSoFar, OfProject, Global, SinceSees
  <2> QED BY <2>2, <2>3, <2>4, FurtherKeeps
<1> QED BY <1>1, <1>2, <1>3, <1>4 DEF ListsTemplates

\* get_template, get_card_template: only a row of a project is checked.
LEMMA GetsTemplateKeeps == ASSUME CatInv, catKind \in TemplateKind, GetsTemplate PROVE CatInv'
<1>1. ASSUME NEW i \in CatItem, Begin("get", "row", itemHome[i], {i}) PROVE CatInv'
  <2>1. itemHome[i] \in CatProject \cup {EveryProject, NoneOfThem} /\ {i} \in SUBSET CatItem /\ catKind # "label"
    BY DEF CatInv, CatTypes, TemplateKind
  <2> QED BY <1>1, <2>1, AskBeginKeeps
<1>2. ASSUME ask.at = "row", UNCHANGED since,
             Asks([ask EXCEPT !.at = IF ~ask.rows \subseteq there THEN "refused"
                                     ELSE IF ask.project = EveryProject THEN "done" ELSE "check"])
      PROVE  CatInv'
  <2>1. PICK to : to = (IF ~ask.rows \subseteq there THEN "refused"
                        ELSE IF ask.project = EveryProject THEN "done" ELSE "check")
    OBVIOUS
  <2>2. /\ ask' = [at |-> to, verb |-> ask.verb, project |-> ask.project, rows |-> ask.rows, counts |-> ask.counts]
        /\ UNCHANGED catRows
    <3>1. ask' = [ask EXCEPT !.at = to] /\ UNCHANGED catRows
      BY <1>2, <2>1 DEF Asks
    <3>2. CatTypes
      BY DEF CatInv
    <3>3. [ask EXCEPT !.at = to]
             = [at |-> to, verb |-> ask.verb, project |-> ask.project, rows |-> ask.rows, counts |-> ask.counts]
      BY <3>2, AskGoesOn, Zenon
    <3> QED BY <3>1, <3>3, Zenon
  <2>3. ask.counts = {} /\ ask.verb # "list" /\ to \in {"check", "done", "refused"} /\ ask.rows \in SUBSET CatItem
    BY <1>2, <2>1 DEF CatInv, CountedTogether, ListSoFar, CatTypes
  <2> QED BY <1>2, <2>1, <2>2, <2>3, FurtherKeeps
<1>3. ASSUME ask.verb = "get", CheckItemView(ask.project, "done", "refused") PROVE CatInv'
  BY <1>3, CheckKeeps
<1> QED BY <1>1, <1>2, <1>3 DEF GetsTemplate

\* list_labels: one query for the labels of the project and those of the tenant.
LEMMA ListLabelsKeeps == ASSUME CatInv, ListLabels PROVE CatInv'
<1>0. catKind = "label" /\ ask.verb # "get" /\ catKind \notin TemplateKind
  BY DEF CatInv, GetsItsRow, ListLabels, TemplateKind
<1>1. ASSUME NEW p \in CatProject, Begin("list", "check", p, {}) PROVE CatInv'
  <2>1. p \in CatProject \cup {EveryProject, NoneOfThem} /\ {} \in SUBSET CatItem
    OBVIOUS
  <2> QED BY <1>0, <1>1, <2>1, AskBeginKeeps
<1>2. ASSUME CheckItemView(ask.project, "rows", "refused") PROVE CatInv'
  BY <1>0, <1>2, CheckKeeps
<1>3. ASSUME ReadRows(ProjectRows(ask.project) \cup GlobalRows(ask.project), "done") PROVE CatInv'
  <2>1. PICK rows : rows = ask.rows \cup (there \cap (OfProject \cup Global))
    OBVIOUS
  <2>2. /\ ask.at = "rows" /\ since' = since /\ UNCHANGED catRows
        /\ ask' = [at |-> "done", verb |-> ask.verb, project |-> ask.project, rows |-> rows, counts |-> ask.counts]
    <3>1. ask.rows \cup (ProjectRows(ask.project) \cup GlobalRows(ask.project)) = rows
      BY <2>1 DEF ProjectRows, GlobalRows, ItemsOf, OfProject, Global, CatInv, CatTypes
    <3>2. ask' = [ask EXCEPT !.at = "done", !.rows = rows] /\ ask.at = "rows" /\ since' = since /\ UNCHANGED catRows
      BY <1>3, <3>1 DEF ReadRows, Asks
    <3>3. CatTypes
      BY DEF CatInv
    <3>4. [ask EXCEPT !.at = "done", !.rows = rows] = [at |-> "done", verb |-> ask.verb, project |-> ask.project, rows |-> rows, counts |-> ask.counts]
      BY <3>3, AskGoesOn, Zenon
    <3> QED BY <3>2, <3>4, Zenon
  <2>3. ask.counts = {} /\ rows \in SUBSET CatItem
    BY <2>1, <2>2 DEF CatInv, CountedTogether, CatTypes, OfProject, Global
  <2>4. ASSUME ask.verb = "list"
        PROVE  /\ \A i \in rows : itemHome[i] \in since.viewed \cup {EveryProject}
               /\ since.there \cap (OfProject \cup Global) \subseteq rows
    BY <2>1, <2>2, <2>4 DEF CatInv, ListSoFar, OfProject, Global, SinceSees
  <2> QED BY <1>0, <2>2, <2>3, <2>4, FurtherKeeps
<1> QED BY <1>1, <1>2, <1>3 DEF ListLabels

\* list_milestones: the rows of the project, and then their counts.
LEMMA ListMilestonesKeeps == ASSUME CatInv, ListMilestones PROVE CatInv'
<1>0. catKind = "milestone" /\ catKind \notin TemplateKind /\ Global = {}
  BY DEF CatInv, CatTypes, ListMilestones, TemplateKind, Global
<1>1. ASSUME NEW p \in CatProject, Begin("list", "check", p, {}) PROVE CatInv'
  <2>1. p \in CatProject \cup {EveryProject, NoneOfThem} /\ {} \in SUBSET CatItem
    OBVIOUS
  <2> QED BY <1>0, <1>1, <2>1, AskBeginKeeps
<1>2. ASSUME ask.verb = "list", CheckItemView(ask.project, "rows", "refused") PROVE CatInv'
  BY <1>0, <1>2, CheckKeeps
<1>3. ASSUME ReadRows(ProjectRows(ask.project), "counts") PROVE CatInv'
  <2>1. PICK rows : rows = ask.rows \cup (there \cap OfProject)
    OBVIOUS
  <2>2. /\ ask.at = "rows" /\ since' = since /\ UNCHANGED catRows
        /\ ask' = [at |-> "counts", verb |-> ask.verb, project |-> ask.project, rows |-> rows, counts |-> ask.counts]
    <3>1. ask.rows \cup ProjectRows(ask.project) = rows
      BY <2>1 DEF ProjectRows, ItemsOf, OfProject, CatInv, CatTypes
    <3>2. ask' = [ask EXCEPT !.at = "counts", !.rows = rows] /\ ask.at = "rows" /\ since' = since /\ UNCHANGED catRows
      BY <1>3, <3>1 DEF ReadRows, Asks
    <3>3. CatTypes
      BY DEF CatInv
    <3>4. [ask EXCEPT !.at = "counts", !.rows = rows] = [at |-> "counts", verb |-> ask.verb, project |-> ask.project, rows |-> rows, counts |-> ask.counts]
      BY <3>3, AskGoesOn, Zenon
    <3> QED BY <3>2, <3>4, Zenon
  <2>3. ask.counts = {} /\ ask.verb # "get" /\ rows \in SUBSET CatItem
    BY <2>1, <2>2 DEF CatInv, CountedTogether, GetsItsRow, CatTypes, OfProject
  <2>4. ASSUME ask.verb = "list"
        PROVE  ask.project \in since.viewed /\ rows \subseteq OfProject /\ since.there \cap OfProject \subseteq rows
    BY <1>0, <2>1, <2>2, <2>4 DEF CatInv, ListSoFar, OfProject, SinceSees
  <2> QED BY <1>0, <2>2, <2>3, <2>4, FurtherKeeps
<1> QED BY <1>1, <1>2, <1>3 DEF ListMilestones

\* get_milestone.
LEMMA GetMilestoneKeeps == ASSUME CatInv, GetMilestone PROVE CatInv'
<1>0. catKind = "milestone"
  BY DEF GetMilestone
<1>1. ASSUME NEW i \in CatItem, Begin("get", "row", itemHome[i], {i}) PROVE CatInv'
  <2>1. itemHome[i] \in CatProject \cup {EveryProject, NoneOfThem} /\ {i} \in SUBSET CatItem /\ catKind # "label"
    BY <1>0 DEF CatInv, CatTypes
  <2> QED BY <1>1, <2>1, AskBeginKeeps
<1>2. ASSUME ask.at = "row", UNCHANGED since,
             Asks([ask EXCEPT !.at = IF ask.rows \subseteq there THEN "check" ELSE "refused"])
      PROVE  CatInv'
  <2>1. PICK to : to = (IF ask.rows \subseteq there THEN "check" ELSE "refused")
    OBVIOUS
  <2>2. /\ ask' = [at |-> to, verb |-> ask.verb, project |-> ask.project, rows |-> ask.rows, counts |-> ask.counts]
        /\ UNCHANGED catRows
    <3>1. ask' = [ask EXCEPT !.at = to] /\ UNCHANGED catRows
      BY <1>2, <2>1 DEF Asks
    <3>2. CatTypes
      BY DEF CatInv
    <3>3. [ask EXCEPT !.at = to]
             = [at |-> to, verb |-> ask.verb, project |-> ask.project, rows |-> ask.rows, counts |-> ask.counts]
      BY <3>2, AskGoesOn, Zenon
    <3> QED BY <3>1, <3>3, Zenon
  <2>3. ask.counts = {} /\ ask.verb # "list" /\ to \in {"check", "refused"} /\ ask.rows \in SUBSET CatItem
    BY <1>2, <2>1 DEF CatInv, CountedTogether, ListSoFar, CatTypes
  <2> QED BY <1>2, <2>1, <2>2, <2>3, FurtherKeeps
<1>3. ASSUME ask.verb = "get", CheckItemView(ask.project, "counts", "refused") PROVE CatInv'
  BY <1>3, CheckKeeps
<1> QED BY <1>1, <1>2, <1>3 DEF GetMilestone

\* fetch_card_stats: one query counts for all rows of the answer.
LEMMA FetchCardStatsKeeps == ASSUME CatInv, FetchCardStats PROVE CatInv'
<1> USE DEF CatInv
<1>1. PICK unmet : unmet = ask.rows \ {n.of : n \in ask.counts}
  OBVIOUS
<1>2. PICK to, counts :
        /\ ask.at = "counts" /\ since' = since /\ UNCHANGED catRows
        /\ ask' = [at |-> to, verb |-> ask.verb, project |-> ask.project, rows |-> ask.rows, counts |-> counts]
        /\ \/ unmet = {} /\ to = "done" /\ counts = ask.counts
           \/ unmet # {} /\ to = "counts" /\ counts = ask.counts \cup {CountOf(i) : i \in unmet}
  <2>1. /\ ask.at = "counts" /\ since' = since /\ UNCHANGED catRows
        /\ ask' = IF unmet = {} THEN [ask EXCEPT !.at = "done"]
                  ELSE [ask EXCEPT !.counts = @ \cup {CountOf(i) : i \in unmet}]
    BY <1>1 DEF FetchCardStats, Asks, CountedAtOnce
  <2>2. PICK more : more = ask.counts \cup {CountOf(i) : i \in unmet}
    OBVIOUS
  <2>3. [ask EXCEPT !.counts = @ \cup {CountOf(i) : i \in unmet}] = [ask EXCEPT !.counts = more]
    BY <2>2
  <2>4. CASE unmet = {}
    <3>1. CatTypes
      BY DEF CatInv
    <3>2. [ask EXCEPT !.at = "done"]
             = [at |-> "done", verb |-> ask.verb, project |-> ask.project, rows |-> ask.rows, counts |-> ask.counts]
      BY <3>1, AskGoesOn, Zenon
    <3> QED BY <2>1, <2>4, <3>2, Zenon
  <2>5. CASE unmet # {}
    <3>1. ask' = [at |-> ask.at, verb |-> ask.verb, project |-> ask.project, rows |-> ask.rows, counts |-> more]
      BY <2>1, <2>3, <2>5, AskGoesOn
    <3> QED BY <2>1, <2>2, <2>5, <3>1
  <2> QED BY <2>4, <2>5
<1>3. /\ catKind' = catKind /\ itemHome' = itemHome /\ there' = there /\ viewOf' = viewOf
      /\ filed' = filed /\ finished' = finished /\ milestoneSeen' = milestoneSeen /\ to \in {"counts", "done"}
  BY <1>2 DEF catRows, filings
<1>4. CatTypes' /\ SinceSees'
  BY <1>2, <1>3 DEF CatTypes, AskSteps, SinceSees
<1>5. GetsItsRow'
  BY <1>2, <1>3 DEF GetsItsRow
<1>6. ListSoFar'
  <2>1. OfProject' = OfProject /\ Global' = Global /\ MaySeeAll' = MaySeeAll
    BY <1>2, <1>3 DEF OfProject, Global, MaySeeAll
  <2>2. catKind = "milestone" /\ ask.verb = "list" => Global = {}
    BY DEF Global, CatTypes
  <2>3. ASSUME ask.verb = "list"
        PROVE  /\ catKind = "milestone" /\ ask.rows \subseteq OfProject /\ since.there \cap OfProject \subseteq ask.rows
               /\ ask.project \in since.viewed
    BY <1>2, <2>3 DEF ListSoFar
  <2>4. ask.verb = "list" => \A i \in ask.rows : itemHome[i] \in since.viewed
    BY <2>3 DEF OfProject
  <2> QED BY <1>2, <1>3, <2>1, <2>2, <2>3, <2>4 DEF ListSoFar
<1>7. CountedTogether'
  <2>1. CASE unmet = {}
    <3>1. ask'.counts = ask.counts /\ ask'.at = "done"
      BY <1>2, <2>1
    <3> QED BY <3>1, SameCounts DEF CountedTogether
  <2>2. CASE unmet # {}
    <3>1. ask.counts = {} /\ unmet = ask.rows
      BY <1>1, <1>2, <2>2 DEF CountedTogether
    <3>2. counts = {CountOf(i) : i \in ask.rows} /\ ask'.at = "counts" /\ ask'.counts = counts /\ ask'.rows = ask.rows
      BY <1>2, <2>2, <3>1
    <3>3. \A i : CountOf(i) = CountIn(i, filed, finished) /\ CountOf(i).of = i
      BY DEF CountOf, CountIn
    <3>4. \A n \in counts : n = CountIn(n.of, filed, finished)
      BY <3>2, <3>3
    <3>5. filed \in [CatCard -> CatItem \cup {NoneOfThem}] /\ finished \in SUBSET CatCard
      BY DEF CatTypes
    <3>6. \E at \in [CatCard -> CatItem \cup {NoneOfThem}], completed \in SUBSET CatCard :
              \A n \in ask'.counts : n = CountIn(n.of, at, completed)
      BY <3>2, <3>4, <3>5
    <3>7. CardCountedOnce'
      BY <3>6, Zenon DEF CardCountedOnce, CountIn
    <3>8. \A i \in ask.rows : \E n \in counts : n.of = i
      BY <3>2, <3>3
    <3> QED BY <3>2, <3>7, <3>8 DEF CountedTogether
  <2> QED BY <2>1, <2>2
<1> QED BY <1>4, <1>5, <1>6, <1>7

\* What others do leaves a request as it is, and its ghost says less.
LEMMA OthersKeepCatalogue ==
    ASSUME CatInv, ItemComes \/ ItemGoes \/ CheckMilestone \/ FileCard \/ CardChanges \/ ViewChanges
    PROVE  CatInv'
<1> USE DEF CatInv
<1>1. ask' = ask /\ catKind' = catKind /\ itemHome' = itemHome
  BY DEF ItemComes, ItemGoes, CheckMilestone, FileCard, CardChanges, ViewChanges
<1>2. /\ there' \subseteq CatItem /\ viewOf' \subseteq CatProject /\ finished' \subseteq CatCard
      /\ filed' \in [CatCard -> CatItem \cup {NoneOfThem}] /\ milestoneSeen' \subseteq CatCard \X CatItem
  <2>1. CASE ItemComes
    BY <2>1 DEF ItemComes, filings, CatTypes
  <2>2. CASE ItemGoes
    BY <2>2 DEF ItemGoes, Unfiled, CatTypes
  <2>3. CASE CheckMilestone
    <3>1. PICK c \in CatCard, i \in there : milestoneSeen' = milestoneSeen \cup {<<c, i>>}
      BY <2>3 DEF CheckMilestone
    <3>2. <<c, i>> \in CatCard \X CatItem
      BY DEF CatTypes
    <3> QED BY <2>3, <3>1, <3>2 DEF CheckMilestone, CatTypes
  <2>4. CASE FileCard
    <3>1. PICK u \in milestoneSeen : filed' = [filed EXCEPT ![u[1]] = u[2]] /\ milestoneSeen' = milestoneSeen \ {u}
      BY <2>4 DEF FileCard
    <3>2. u[1] \in CatCard /\ u[2] \in CatItem
      BY DEF CatTypes
    <3> QED BY <2>4, <3>1, <3>2 DEF FileCard, CatTypes
  <2>5. CASE CardChanges
    BY <2>5 DEF CardChanges, filings, CatTypes
  <2>6. CASE ViewChanges
    BY <2>6 DEF ViewChanges, filings, CatTypes
  <2> QED BY <2>1, <2>2, <2>3, <2>4, <2>5, <2>6
<1>3. /\ since' = [there |-> since'.there, viewed |-> since'.viewed, always |-> since'.always, faulty |-> since.faulty]
      /\ since'.there \subseteq since.there /\ since.viewed \subseteq since'.viewed /\ since'.always \subseteq since.always
      /\ since.there \subseteq there => since'.there \subseteq there'
      /\ viewOf \subseteq since.viewed => viewOf' \subseteq since'.viewed
      /\ since.always \subseteq viewOf => since'.always \subseteq viewOf'
  <2>1. CASE ItemComes \/ CheckMilestone \/ FileCard \/ CardChanges
    <3>1. since' = since /\ there \subseteq there' /\ viewOf' = viewOf
      BY <2>1 DEF ItemComes, CheckMilestone, FileCard, CardChanges
    <3> QED BY <3>1 DEF CatTypes
  <2>2. CASE ItemGoes
    <3>1. PICK i \in there : there' = there \ {i} /\ since' = [since EXCEPT !.there = @ \ {i}] /\ viewOf' = viewOf
      BY <2>2 DEF ItemGoes
    <3>2. since' = [there |-> since.there \ {i}, viewed |-> since.viewed, always |-> since.always, faulty |-> since.faulty]
      <4>1. PICK rest : rest = since.there \ {i}
        OBVIOUS
      <4>2. since' = [since EXCEPT !.there = rest]
        BY <3>1, <4>1
      <4> QED BY <4>1, <4>2, AskGoesOn
    <3> QED BY <3>1, <3>2
  <2>3. CASE ViewChanges
    <3>1. /\ since' = [since EXCEPT !.viewed = @ \cup viewOf', !.always = @ \cap viewOf'] /\ there' = there
      BY <2>3 DEF ViewChanges
    <3>2. PICK more, less : more = since.viewed \cup viewOf' /\ less = since.always \cap viewOf'
      OBVIOUS
    <3>3. since' = [since EXCEPT !.viewed = more, !.always = less]
      BY <3>1, <3>2
    <3>4. since' = [there |-> since.there, viewed |-> more, always |-> less, faulty |-> since.faulty]
      BY <3>3, AskGoesOn
    <3> QED BY <3>1, <3>2, <3>4
  <2> QED BY <2>1, <2>2, <2>3
<1>4. since'.faulty = since.faulty
  BY <1>3
<1>5. CatTypes'
  BY <1>1, <1>2, <1>3, <1>4 DEF CatTypes
<1>6. SinceSees' /\ GetsItsRow'
  BY <1>1, <1>3 DEF SinceSees, GetsItsRow
<1>7. ListSoFar'
  <2>1. OfProject' = OfProject /\ Global' = Global /\ (MaySeeAll' => MaySeeAll)
    BY <1>1, <1>3, <1>4 DEF OfProject, Global, MaySeeAll
  <2> QED BY <1>1, <1>3, <2>1 DEF ListSoFar
<1>8. CountedTogether'
  BY <1>1, SameCounts DEF CountedTogether
<1> QED BY <1>5, <1>6, <1>7, <1>8

\* What a project has to choose from and a list of it always satisfy.
LEMMA CatInvariant == CatSpec => []CatInv
<1>1. CatInv /\ UNCHANGED catVars => CatInv'
  <2> SUFFICES ASSUME CatInv, UNCHANGED catVars PROVE CatInv'
    OBVIOUS
  <2>1. /\ ask' = ask /\ since' = since /\ catKind' = catKind /\ itemHome' = itemHome /\ there' = there
        /\ viewOf' = viewOf /\ filed' = filed /\ finished' = finished /\ milestoneSeen' = milestoneSeen
    BY DEF catVars, catRows, filings
  <2>2. CatTypes' /\ SinceSees' /\ GetsItsRow'
    BY <2>1 DEF CatInv, CatTypes, SinceSees, GetsItsRow
  <2>3. ListSoFar'
    BY <2>1 DEF CatInv, ListSoFar, OfProject, Global, MaySeeAll
  <2>4. CountedTogether'
    BY <2>1, SameCounts DEF CatInv, CountedTogether
  <2> QED BY <2>2, <2>3, <2>4 DEF CatInv
<1>2. CatInv /\ CatNext => CatInv'
  BY ListsTemplatesKeeps, GetsTemplateKeeps, ListLabelsKeeps, ListMilestonesKeeps, GetMilestoneKeeps,
     FetchCardStatsKeeps, OthersKeepCatalogue
     DEF CatNext, ListTemplates, ListCardTemplates, GetTemplate, GetCardTemplate, TemplateKind
<1> QED BY <1>1, <1>2, InitCatInv, PTL DEF CatSpec

\* A card is filed under what is there or was, and under what was only by an update that is late.
Filings ==
    /\ filed \in [CatCard -> there \cup deletedItems \cup {NoneOfThem}]
    /\ deletedItems \subseteq CatItem \ there
    /\ milestoneSeen \subseteq CatCard \X (there \cup deletedItems) /\ lateFiling \subseteq CatCard \X deletedItems
    /\ \A u \in milestoneSeen : u[2] \in deletedItems => u \in lateFiling
    /\ \A c \in CatCard : filed[c] \in deletedItems => <<c, filed[c]>> \in lateFiling

\* update_card and delete_milestone: a milestone is found while it is there, and what was found
\* and is deleted since is late.
LEMMA OthersFile ==
    ASSUME Filings, there \subseteq CatItem,
           ItemComes \/ ItemGoes \/ CheckMilestone \/ FileCard \/ CardChanges \/ ViewChanges
    PROVE  Filings'
<1> USE DEF Filings
<1>1. CASE ItemComes
  BY <1>1 DEF ItemComes, filings
<1>2. CASE ItemGoes
  <2>1. PICK i \in there : /\ there' = there \ {i} /\ deletedItems' = deletedItems \cup {i}
                           /\ filed' = [c \in CatCard |-> IF filed[c] = i THEN NoneOfThem ELSE filed[c]]
                           /\ lateFiling' = lateFiling \cup {u \in milestoneSeen : u[2] = i}
                           /\ UNCHANGED milestoneSeen
    BY <1>2 DEF ItemGoes, Unfiled
  <2>2. NoneOfThem \notin CatItem
    BY CatalogueAssumption
  <2> QED BY <2>1, <2>2
<1>3. CASE CheckMilestone
  <2>1. PICK c \in CatCard, i \in there : milestoneSeen' = milestoneSeen \cup {<<c, i>>}
    BY <1>3 DEF CheckMilestone
  <2>2. UNCHANGED <<there, deletedItems, lateFiling, filed>>
    BY <1>3 DEF CheckMilestone
  <2> QED BY <2>1, <2>2
<1>4. CASE FileCard
  <2>1. PICK u \in milestoneSeen : filed' = [filed EXCEPT ![u[1]] = u[2]] /\ milestoneSeen' = milestoneSeen \ {u}
    BY <1>4 DEF FileCard
  <2>2. UNCHANGED <<there, deletedItems, lateFiling>>
    BY <1>4 DEF FileCard
  <2>3. PICK c \in CatCard, i \in there \cup deletedItems : u = <<c, i>>
    OBVIOUS
  <2>4. filed' = [filed EXCEPT ![c] = i]
    BY <2>1, <2>3
  <2>5. \A d \in CatCard : filed'[d] \in deletedItems => <<d, filed'[d]>> \in lateFiling
    BY <2>1, <2>3, <2>4
  <2>6. filed' \in [CatCard -> there \cup deletedItems \cup {NoneOfThem}]
    BY <2>3, <2>4
  <2> QED BY <2>1, <2>2, <2>5, <2>6
<1>5. CASE CardChanges
  <2>1. PICK c \in CatCard : filed' = [filed EXCEPT ![c] = NoneOfThem] \/ filed' = filed
    BY <1>5 DEF CardChanges
  <2>2. UNCHANGED <<there, deletedItems, milestoneSeen, lateFiling>>
    BY <1>5 DEF CardChanges, filings
  <2>3. NoneOfThem \notin CatItem
    BY CatalogueAssumption
  <2> QED BY <2>1, <2>2, <2>3
<1>6. CASE ViewChanges
  BY <1>6 DEF ViewChanges, filings
<1> QED BY <1>1, <1>2, <1>3, <1>4, <1>5, <1>6

\* No step of a request files a card.
LEMMA FilingsInvariant == CatSpec => []Filings
<1>1. CatInit => Filings
  BY DEF CatInit, Filings
<1>2. CatInv /\ Filings /\ [CatNext]_catVars => Filings'
  <2> SUFFICES ASSUME CatInv, Filings, [CatNext]_catVars PROVE Filings'
    OBVIOUS
  <2>1. CASE ItemComes \/ ItemGoes \/ CheckMilestone \/ FileCard \/ CardChanges \/ ViewChanges
    <3>1. there \subseteq CatItem
      BY DEF CatInv, CatTypes
    <3> QED BY <2>1, <3>1, OthersFile
  <2>2. CASE CatNext /\ ~(ItemComes \/ ItemGoes \/ CheckMilestone \/ FileCard \/ CardChanges \/ ViewChanges)
    <3>1. UNCHANGED catRows
      BY <2>2, Zenon DEF CatNext, ListTemplates, ListCardTemplates, ListLabels, ListMilestones, GetTemplate,
         GetCardTemplate, GetMilestone, FetchCardStats, ListsTemplates, GetsTemplate, Begin, CheckItemView, ReadRows, Asks
    <3> QED BY <3>1 DEF catRows, filings, Filings
  <2>3. CASE UNCHANGED catVars
    BY <2>3 DEF catVars, catRows, filings, Filings
  <2> QED BY <2>1, <2>2, <2>3
<1> QED BY <1>1, <1>2, CatInvariant, PTL DEF CatSpec

\* However the queries of a list or a get interleave with what others do: nothing is
\* offered of a project that was not viewable at some moment of the request, a list has all
\* that was there and viewable all along, and its counts are of one moment.  A card is left under
\* a milestone that is gone only by an update that found it before.
THEOREM CatalogueWhole == CatSpec => []CatalogueIsWhole
<1>1. CatInv /\ Filings => CatalogueIsWhole
  <2> SUFFICES ASSUME CatInv, Filings PROVE CatalogueIsWhole
    OBVIOUS
  <2>1. CardCountedOnce
    BY DEF CatInv, CountedTogether
  <2>2. OfferedWasViewable
    BY DEF CatInv, CatTypes, OfferedWasViewable, GetsItsRow, ListSoFar
  <2>3. ListIsWhole
    <3> SUFFICES ASSUME ask.at = "done", ask.verb = "list", ask.project \in since.always, ~since.faulty, NEW i \in since.there,
                        itemHome[i] = ask.project \/ itemHome[i] = EveryProject
                 PROVE  i \in ask.rows
      BY DEF ListIsWhole
    <3>1. i \in CatItem
      BY DEF CatInv, SinceSees, CatTypes
    <3> QED BY <3>1 DEF CatInv, ListSoFar, MaySeeAll, OfProject, Global
  <2>4. StraysWereLate
    BY DEF Filings, StraysWereLate
  <2> QED BY <2>1, <2>2, <2>3, <2>4 DEF CatalogueIsWhole
<1> QED BY <1>1, CatInvariant, FilingsInvariant, PTL

-----------------------------------------------------------------------------
(* AggregateSources: the order of the sources of an aggregated board.      *)

SrcAsks == [kind : {"none", "add", "append", "remove", "move"}, board : SourceBoard \cup {"none"}, at : Int]

SrcUnderWay(r) == srcStep[r] \in {"counted", "read"}

SrcTypes ==
    /\ place \in [SourceBoard -> Nat \cup {Nowhere}] /\ deleted \subseteq SourceBoard
    /\ srcStep \in [SourceRequest -> {"idle", "counted", "read", "done"}]
    /\ srcAsk \in [SourceRequest -> SrcAsks]
    /\ srcOrder \in [SourceRequest -> Seq(SourceBoard)]
    /\ srcAlone \subseteq SourceRequest /\ settled \in BOOLEAN
    /\ \A r \in SourceRequest : SrcUnderWay(r) =>
          /\ srcAsk[r].kind # "none" /\ srcAsk[r].board \in SourceBoard
          /\ srcAsk[r].kind \in {"add", "append"} => srcAsk[r].at \in Nat
          /\ srcStep[r] = "counted" => srcAsk[r].kind = "append"

\* A request that nothing overlaps is the only one under way, and what it read is so.
AloneReads ==
    \A r \in srcAlone : SrcUnderWay(r) =>
        /\ \A q \in SourceRequest \ {r} : ~SrcUnderWay(q)
        /\ srcAsk[r].kind = "append" => srcAsk[r].at = Cardinality(Present)
        /\ srcAsk[r].kind = "move" => srcAsk[r].board \in Present
        /\ srcStep[r] = "read" => srcOrder[r] \in NewOrders(srcAsk[r])

\* No two sources at one place.
Apart(at) == \A b, c \in SourceBoard : at[b] # Nowhere /\ at[b] = at[c] => b = c
PlacesApart == settled => Apart(place)

SrcInv == SrcTypes /\ AloneReads /\ PlacesApart /\ SourcesContiguous /\ LandsWhereAsked

-----------------------------------------------------------------------------
\* A list of the boards of a set, each once.
Lists(s, P) ==
    /\ s \in [1..Cardinality(P) -> P] /\ IsInjective(s)
    /\ \A b \in P : \E i \in 1..Cardinality(P) : s[i] = b

\* The tenant has finitely many boards.
LEMMA BoardsCounted ==
    ASSUME NEW P \in SUBSET SourceBoard
    PROVE  IsFiniteSet(P) /\ Cardinality(P) \in Nat
<1>1. IsFiniteSet(P)
  BY SourcesAssumption, FS_Subset
<1> QED BY <1>1, FS_CardinalityType

\* ORDER BY position returns each row once.
LEMMA OrdersList ==
    ASSUME NEW P \in SUBSET SourceBoard, NEW at, NEW s \in Orders(at, P)
    PROVE  Lists(s, P) /\ \A i, j \in 1..Cardinality(P) : i < j => at[s[i]] <= at[s[j]]
<1>1. PICK n \in Nat : n = Cardinality(P) /\ IsFiniteSet(P)
  BY BoardsCounted
<1>2. /\ s \in [1..n -> P] /\ IsInjective(s)
      /\ \A i, j \in 1..n : i < j => at[s[i]] <= at[s[j]]
  BY <1>1 DEF Orders
<1>3. s \in Injection(1..n, P)
  BY <1>2 DEF Injection
<1>4. IsFiniteSet(1..n) /\ Cardinality(1..n) = n
  BY FS_Interval
<1>5. s \in Surjection(1..n, P)
  BY <1>1, <1>3, <1>4, FS_Injection
<1>6. \A b \in P : \E i \in 1..n : s[i] = b
  BY <1>5 DEF Surjection
<1> QED BY <1>1, <1>2, <1>6 DEF Lists

\* apply_source_order: the place of a board is its place in the list, from 0.
LEMMA ListNumbers ==
    ASSUME NEW P \in SUBSET SourceBoard, NEW s, Lists(s, P), NEW at,
           at = [b \in SourceBoard |-> IF b \in P THEN IndexOf(s, b) - 1 ELSE Nowhere]
    PROVE  /\ {b \in SourceBoard : at[b] # Nowhere} = P
           /\ {at[b] : b \in P} = 0..(Cardinality(P) - 1)
           /\ Apart(at)
           /\ \A i \in 1..Cardinality(P) : s[i] \in P /\ at[s[i]] = i - 1
<1>1. PICK n \in Nat : n = Cardinality(P)
  BY BoardsCounted
<1>2. /\ s \in [1..n -> P] /\ (\A i, j \in 1..n : s[i] = s[j] => i = j)
      /\ \A b \in P : \E i \in 1..n : s[i] = b
  BY <1>1 DEF Lists, IsInjective
<1>3. \A i \in 1..n : s[i] \in P /\ IndexOf(s, s[i]) = i
  BY <1>2 DEF IndexOf
<1>4. \A i \in 1..n : at[s[i]] = i - 1
  BY <1>3
<1>5. \A b \in SourceBoard : b \notin P => at[b] = Nowhere
  OBVIOUS
<1>6. ASSUME NEW b \in P PROVE at[b] \in 0..(n - 1)
  <2>1. PICK i \in 1..n : s[i] = b
    BY <1>2
  <2>2. at[b] = i - 1
    BY <1>4, <2>1
  <2> QED BY <2>2
<1>7. {b \in SourceBoard : at[b] # Nowhere} = P
  BY <1>5, <1>6 DEF Nowhere
<1>8. {at[b] : b \in P} = 0..(n - 1)
  <2>1. ASSUME NEW k \in 0..(n - 1) PROVE \E b \in P : at[b] = k
    <3>1. PICK i \in 1..n : i = k + 1
      OBVIOUS
    <3>2. s[i] \in P /\ at[s[i]] = k
      BY <1>3, <1>4, <3>1
    <3> QED BY <3>2
  <2> QED BY <1>6, <2>1
<1>9. Apart(at)
  <2> SUFFICES ASSUME NEW b \in SourceBoard, NEW c \in SourceBoard, at[b] # Nowhere, at[b] = at[c] PROVE b = c
    BY DEF Apart
  <2>1. b \in P /\ c \in P
    BY <1>5
  <2>2. PICK i \in 1..n, j \in 1..n : s[i] = b /\ s[j] = c
    BY <1>2, <2>1
  <2>3. i = j
    BY <1>4, <2>2
  <2> QED BY <2>2, <2>3
<1> QED BY <1>1, <1>3, <1>4, <1>7, <1>8, <1>9

\* move_source_board: the board leaves the list and is put back at the place asked for.
LEMMA MovedLists ==
    ASSUME NEW P \in SUBSET SourceBoard, NEW b \in P, NEW s, Lists(s, P \ {b}), NEW k \in Int
    PROVE  /\ Lists(MovedTo(b, k, s), P)
           /\ \A n \in Nat : n = Cardinality(P \ {b})
                => MovedTo(b, k, s)[1 + (IF k < 0 \/ k > n THEN n ELSE k)] = b
<1>1. PICK n \in Nat : n = Cardinality(P \ {b}) /\ Cardinality(P) = n + 1
  <2>1. IsFiniteSet(P) /\ IsFiniteSet(P \ {b}) /\ Cardinality(P \ {b}) \in Nat /\ Cardinality(P) \in Nat
    BY BoardsCounted
  <2>2. Cardinality(P \ {b}) = Cardinality(P) - 1
    BY <2>1, FS_RemoveElement
  <2> QED BY <2>1, <2>2
<1>2. /\ s \in [1..n -> P \ {b}] /\ (\A i, j \in 1..n : s[i] = s[j] => i = j)
      /\ \A c \in P \ {b} : \E i \in 1..n : s[i] = c
  BY <1>1 DEF Lists, IsInjective
<1>3. s \in Seq(P) /\ Len(s) = n /\ \A i \in 1..n : s[i] # b
  BY <1>2
<1>4. PICK m \in 1..(n + 1) : m = 1 + (IF k < 0 \/ k > n THEN n ELSE k)
  OBVIOUS
<1>5. PICK t : t = MovedTo(b, k, s) /\ t = InsertAt(s, m, b)
  BY <1>3, <1>4 DEF MovedTo
<1>6. /\ t \in Seq(P) /\ Len(t) = n + 1 /\ t[m] = b
      /\ \A i \in 1..(m - 1) : t[i] = s[i]
      /\ \A i \in m..n : t[i + 1] = s[i]
  <2>0. m \in 1..(Len(s) + 1) /\ s \in Seq(P) /\ b \in P /\ n = Len(s)
    BY <1>3, <1>4
  <2>1. PICK front, back : front = SubSeq(s, 1, m - 1) /\ back = SubSeq(s, m, Len(s))
    OBVIOUS
  <2>2. /\ front \in Seq(P) /\ Len(front) = m - 1 /\ \A i \in 1..(m - 1) : front[i] = s[i]
        /\ back \in Seq(P) /\ Len(back) = Len(s) - m + 1 /\ \A i \in 1..(Len(s) - m + 1) : back[i] = s[m + i - 1]
    BY <2>0, <2>1
  <2>3. PICK mid : mid = front \o <<b>>
    OBVIOUS
  <2>4. /\ mid \in Seq(P) /\ Len(mid) = m /\ mid[m] = b /\ \A i \in 1..(m - 1) : mid[i] = s[i]
    <3>1. PICK one : one = <<b>>
      OBVIOUS
    <3>2. one \in Seq(P) /\ Len(one) = 1 /\ one[1] = b
      BY <2>0, <3>1
    <3>3. mid = front \o one
      BY <2>3, <3>1
    <3>4. /\ mid \in Seq(P) /\ Len(mid) = Len(front) + Len(one)
          /\ \A i \in 1..(Len(front) + Len(one)) :
                mid[i] = IF i <= Len(front) THEN front[i] ELSE one[i - Len(front)]
      BY <2>0, <2>2, <3>2, <3>3, ConcatProperties
    <3>5. \A i \in 1..(m - 1) : mid[i] = front[i]
      BY <2>0, <2>2, <3>2, <3>4
    <3>6. mid[m] = one[1]
      BY <2>0, <2>2, <3>2, <3>4
    <3> QED BY <2>0, <2>2, <3>2, <3>4, <3>5, <3>6, SMTT(30)
  <2>5. InsertAt(s, m, b) = mid \o back
    BY <2>0, <2>1, <2>3 DEF InsertAt
  <2>6. /\ mid \o back \in Seq(P) /\ Len(mid \o back) = Len(s) + 1
        /\ \A i \in 1..m : (mid \o back)[i] = mid[i]
        /\ \A i \in m..Len(s) : (mid \o back)[i + 1] = back[i + 1 - m]
    BY <2>0, <2>2, <2>4
  <2>7. t = mid \o back
    BY <1>5, <2>5
  <2>8. t \in Seq(P) /\ Len(t) = n + 1
    BY <2>0, <2>6, <2>7
  <2>9. t[m] = b /\ \A i \in 1..(m - 1) : t[i] = s[i]
    <3>1. \A i \in 1..m : t[i] = mid[i]
      BY <2>6, <2>7
    <3> QED BY <2>0, <2>4, <3>1
  <2>10. \A i \in m..n : t[i + 1] = s[i]
    <3> SUFFICES ASSUME NEW i \in m..n PROVE t[i + 1] = s[i]
      OBVIOUS
    <3>1. t[i + 1] = back[i + 1 - m]
      BY <2>0, <2>6, <2>7
    <3>2. i + 1 - m \in 1..(Len(s) - m + 1) /\ m + (i + 1 - m) - 1 = i
      BY <2>0
    <3>3. back[i + 1 - m] = s[m + (i + 1 - m) - 1]
      BY <2>2, <3>2
    <3> QED BY <3>1, <3>2, <3>3
  <2> QED BY <2>8, <2>9, <2>10
<1>7. t \in [1..(n + 1) -> P]
  BY <1>6
<1>8. \A i \in 1..(n + 1) : i = m \/ (i < m /\ i \in 1..n /\ t[i] = s[i]) \/ (i > m /\ (i - 1) \in 1..n /\ t[i] = s[i - 1])
  <2> SUFFICES ASSUME NEW i \in 1..(n + 1), i # m
               PROVE  (i < m /\ i \in 1..n /\ t[i] = s[i]) \/ (i > m /\ (i - 1) \in 1..n /\ t[i] = s[i - 1])
    OBVIOUS
  <2>1. CASE i < m
    BY <1>6, <2>1
  <2>2. CASE i > m
    <3>1. (i - 1) \in m..n /\ (i - 1) + 1 = i
      BY <2>2
    <3>2. t[(i - 1) + 1] = s[i - 1]
      BY <1>6, <3>1
    <3> QED BY <2>2, <3>1, <3>2
  <2> QED BY <2>1, <2>2
<1>9. \A i, j \in 1..(n + 1) : t[i] = t[j] => i = j
  <2> SUFFICES ASSUME NEW i \in 1..(n + 1), NEW j \in 1..(n + 1), t[i] = t[j] PROVE i = j
    OBVIOUS
  <2>1. CASE i = m \/ j = m
    BY <1>3, <1>6, <1>8, <2>1
  <2>2. CASE i < m /\ j < m
    BY <1>2, <1>8, <2>2
  <2>3. CASE i > m /\ j > m
    BY <1>2, <1>8, <2>3
  <2>4. CASE i < m /\ j > m
    <3>1. i = j - 1
      BY <1>2, <1>8, <2>4
    <3> QED BY <2>4, <3>1
  <2>5. CASE i > m /\ j < m
    <3>1. i - 1 = j
      BY <1>2, <1>8, <2>5
    <3> QED BY <2>5, <3>1
  <2> QED BY <2>1, <2>2, <2>3, <2>4, <2>5
<1>10. \A c \in P : \E i \in 1..(n + 1) : t[i] = c
  <2> SUFFICES ASSUME NEW c \in P, c # b PROVE \E i \in 1..(n + 1) : t[i] = c
    BY <1>6
  <2>1. PICK i \in 1..n : s[i] = c
    BY <1>2
  <2>2. CASE i < m
    BY <1>6, <2>1, <2>2
  <2>3. CASE i >= m
    <3>1. i \in m..n /\ i + 1 \in 1..(n + 1)
      BY <2>3
    <3> QED BY <1>6, <2>1, <3>1
  <2> QED BY <2>2, <2>3
<1>11. Lists(t, P)
  <2>1. IsInjective(t)
    BY <1>7, <1>9 DEF IsInjective
  <2> QED BY <1>1, <1>7, <1>10, <2>1 DEF Lists
<1>12. ASSUME NEW c \in Nat, c = Cardinality(P \ {b})
       PROVE  t[1 + (IF k < 0 \/ k > c THEN c ELSE k)] = b
  BY <1>1, <1>4, <1>6, <1>12
<1> QED BY <1>5, <1>11, <1>12

\* Numbers that increase and stay below n, n of them, are 0, 1, 2.
LEMMA Increasing ==
    ASSUME NEW n \in Nat, NEW g \in [1..n -> 0..(n - 1)], \A i, j \in 1..n : i < j => g[i] < g[j]
    PROVE  \A i \in 1..n : g[i] = i - 1
<1>1. ASSUME NEW i \in 1..n, g[i] < i - 1 PROVE FALSE
  <2>1. PICK T : T = {j \in 1..n : g[j] < j - 1}
    OBVIOUS
  <2>2. PICK j \in T : \A h \in T : j <= h
    <3>1. i \in T
      BY <1>1, <2>1
    <3>2. \A h \in T : h \in Nat
      BY <2>1
    <3>3. T \subseteq Nat /\ T # {}
      BY <3>1, <3>2, Zenon
    <3> QED BY <3>3, LeastNatural, Zenon
  <2>3. j \in 1..n /\ g[j] < j - 1 /\ g[j] \in 0..(n - 1)
    BY <2>1
  <2>4. j - 1 \in 1..n /\ (j - 1) \notin T
    BY <2>2, <2>3
  <2>5. g[j - 1] < g[j] /\ ~(g[j - 1] < (j - 1) - 1) /\ g[j - 1] \in 0..(n - 1)
    BY <2>1, <2>3, <2>4
  <2> QED BY <2>3, <2>5
<1>2. ASSUME NEW i \in 1..n, g[i] > i - 1 PROVE FALSE
  <2>1. PICK T : T = {k \in 0..(n - 1) : g[n - k] > n - k - 1}
    OBVIOUS
  <2>2. n - i \in T
    <3>1. n - i \in 0..(n - 1) /\ n - (n - i) = i
      OBVIOUS
    <3> QED BY <1>2, <2>1, <3>1
  <2>3. PICK k \in T : \A h \in T : k <= h
    <3>1. \A h \in T : h \in Nat
      BY <2>1
    <3>2. T \subseteq Nat /\ T # {}
      BY <2>2, <3>1, Zenon
    <3> QED BY <3>2, LeastNatural, Zenon
  <2>4. k \in 0..(n - 1) /\ g[n - k] > n - k - 1 /\ n - k \in 1..n /\ g[n - k] \in 0..(n - 1)
    BY <2>1
  <2>5. k # 0
    BY <2>4
  <2>6. (k - 1) \in 0..(n - 1) /\ (k - 1) \notin T /\ n - (k - 1) = (n - k) + 1 /\ (n - k) + 1 \in 1..n
    BY <2>3, <2>4, <2>5
  <2>7. ~(g[n - (k - 1)] > n - (k - 1) - 1)
    BY <2>1, <2>6
  <2>8. g[n - k] < g[(n - k) + 1] /\ g[(n - k) + 1] \in 0..(n - 1)
    <3>1. PICK h \in 1..n : h = n - k /\ h + 1 \in 1..n
      BY <2>4, <2>6
    <3>2. g[h] < g[h + 1] /\ g[h + 1] \in 0..(n - 1)
      BY <3>1
    <3> QED BY <3>1, <3>2
  <2> QED BY <2>4, <2>6, <2>7, <2>8
<1>3. \A i \in 1..n : g[i] \in Int
  OBVIOUS
<1> QED BY <1>1, <1>2, <1>3

-----------------------------------------------------------------------------
\* The rows that hold a board.
Placed(at) == {b \in SourceBoard : at[b] # Nowhere}
PlaceTypes == place \in [SourceBoard -> Nat \cup {Nowhere}]
RightAsk(a) ==
    /\ a.kind \in {"add", "append", "remove", "move"} /\ a.board \in SourceBoard
    /\ a.kind \in {"add", "append"} => a.at \in Nat
    /\ a.kind = "move" => a.board \in Present /\ a.at \in Int

\* What a request leaves in the table before the order is applied.
LEMMA RowsAre ==
    ASSUME PlaceTypes, NEW a, RightAsk(a)
    PROVE  /\ Rows(a) \in [SourceBoard -> Nat \cup {Nowhere}]
           /\ a.kind \in {"add", "append"} =>
                /\ Placed(Rows(a)) = Present \cup {a.board}
                /\ Rows(a) = [c \in SourceBoard |-> IF c = a.board THEN a.at
                                                    ELSE IF place[c] >= a.at THEN place[c] + 1 ELSE place[c]]
           /\ a.kind = "move" => Rows(a) = place /\ Placed(Rows(a)) = Present
<1>0. Nowhere = -1 /\ place \in [SourceBoard -> Nat \cup {-1}] /\ a.board \in SourceBoard
  BY DEF Nowhere, PlaceTypes, RightAsk
<1>1. CASE a.kind \in {"add", "append"}
  <2>1. a.at \in Nat
    BY <1>1 DEF RightAsk
  <2>2. PICK shift : shift = [c \in SourceBoard |-> IF place[c] >= a.at THEN place[c] + 1 ELSE place[c]]
    OBVIOUS
  <2>3. Rows(a) = [shift EXCEPT ![a.board] = a.at]
    BY <1>1, <2>2, Zenon DEF Rows, Shifted
  <2>4. shift \in [SourceBoard -> Nat \cup {-1}] /\ \A c \in SourceBoard : shift[c] = -1 <=> place[c] = -1
    BY <1>0, <2>1, <2>2
  <2>5. Rows(a) = [c \in SourceBoard |-> IF c = a.board THEN a.at ELSE shift[c]]
    BY <2>2, <2>3
  <2>6. Rows(a) = [c \in SourceBoard |-> IF c = a.board THEN a.at
                                          ELSE IF place[c] >= a.at THEN place[c] + 1 ELSE place[c]]
    BY <2>2, <2>5
  <2>7. Rows(a) \in [SourceBoard -> Nat \cup {-1}]
    BY <2>1, <2>4, <2>5
  <2>8. Placed(Rows(a)) = Present \cup {a.board}
    BY <1>0, <2>1, <2>4, <2>5 DEF Placed, Present
  <2> QED BY <1>0, <1>1, <2>6, <2>7, <2>8
<1>2. CASE a.kind = "move"
  <2>1. Rows(a) = place
    BY <1>2 DEF Rows
  <2> QED BY <1>2, <2>1 DEF Placed, Present, PlaceTypes
<1>3. CASE a.kind = "remove"
  <2>1. Rows(a) = [place EXCEPT ![a.board] = Nowhere]
    BY <1>3 DEF Rows
  <2> QED BY <1>0, <1>3, <2>1
<1> QED BY <1>1, <1>2, <1>3 DEF RightAsk

\* list_source_boards in the transaction: what is written back lists every row once.
LEMMA OrderIsWhole ==
    ASSUME PlaceTypes, NEW a, RightAsk(a), NEW s \in NewOrders(a)
    PROVE  Lists(s, Placed(Rows(a))) /\ s \in Seq(SourceBoard)
<1>1. Lists(s, Placed(Rows(a)))
  <2>1. CASE a.kind # "move"
    <3>1. s \in Orders(Rows(a), Placed(Rows(a)))
      BY <2>1, Zenon DEF NewOrders, Placed
    <3>2. Placed(Rows(a)) \subseteq SourceBoard
      BY DEF Placed
    <3> QED BY <3>1, <3>2, OrdersList
  <2>2. CASE a.kind = "move"
    <3>1. PICK t \in Orders(place, Present \ {a.board}) : s = MovedTo(a.board, a.at, t)
      BY <2>2, Zenon DEF NewOrders
    <3>2. Present \ {a.board} \in SUBSET SourceBoard
      BY DEF Present
    <3>3. Lists(t, Present \ {a.board})
      BY <3>1, <3>2, OrdersList, Zenon
    <3>4. Present \in SUBSET SourceBoard
      BY DEF Present
    <3>5. a.board \in Present /\ a.at \in Int
      BY <2>2, Zenon DEF RightAsk
    <3>6. Lists(MovedTo(a.board, a.at, t), Present)
      BY <3>3, <3>4, <3>5, MovedLists, Zenon
    <3>7. Placed(Rows(a)) = Present
      BY <2>2, RowsAre, Zenon
    <3> QED BY <3>1, <3>6, <3>7, Zenon
  <2> QED BY <2>1, <2>2
<1>2. PICK n \in Nat : n = Cardinality(Placed(Rows(a)))
  BY BoardsCounted DEF Placed
<1>3. s \in [1..n -> SourceBoard]
  BY <1>1, <1>2 DEF Lists, Placed
<1> QED BY <1>1, <1>3

\* The rows that are updated are all there are: their places are 0, 1, 2.
LEMMA WrittenBack ==
    ASSUME NEW rows \in [SourceBoard -> Nat \cup {Nowhere}], NEW s, Lists(s, Placed(rows)),
           NEW at, at = [b \in SourceBoard |-> IF rows[b] # Nowhere /\ b \in ToSet(s)
                                               THEN IndexOf(s, b) - 1 ELSE rows[b]]
    PROVE  /\ Placed(at) = Placed(rows) /\ Apart(at)
           /\ at \in [SourceBoard -> Nat \cup {Nowhere}]
           /\ {at[b] : b \in Placed(at)} = 0..(Cardinality(Placed(at)) - 1)
           /\ \A i \in 1..Cardinality(Placed(rows)) : s[i] \in Placed(rows) /\ at[s[i]] = i - 1
<1>1. PICK P : P = Placed(rows)
  OBVIOUS
<1>2. P \in SUBSET SourceBoard /\ Lists(s, P)
  BY <1>1 DEF Placed
<1>3. PICK n \in Nat : n = Cardinality(P)
  BY <1>2, BoardsCounted
<1>4. \A b \in P : b \in ToSet(s)
  BY <1>2 DEF Lists, ToSet
<1>5. at = [b \in SourceBoard |-> IF b \in P THEN IndexOf(s, b) - 1 ELSE Nowhere]
  <2>1. \A b \in SourceBoard : (rows[b] # Nowhere /\ b \in ToSet(s)) <=> b \in P
    BY <1>1, <1>4 DEF Placed
  <2>2. \A b \in SourceBoard : b \notin P => rows[b] = Nowhere
    BY <1>1 DEF Placed
  <2> QED BY <2>1, <2>2
<1>a. P \in SUBSET SourceBoard
  BY <1>2
<1>b. Lists(s, P)
  BY <1>2
<1>6. /\ {b \in SourceBoard : at[b] # Nowhere} = P
      /\ {at[b] : b \in P} = 0..(Cardinality(P) - 1)
      /\ Apart(at)
      /\ \A i \in 1..Cardinality(P) : s[i] \in P /\ at[s[i]] = i - 1
  BY <1>a, <1>b, <1>5, ListNumbers
<1>7. Placed(at) = P
  BY <1>6 DEF Placed
<1>8. at \in [SourceBoard -> Nat \cup {Nowhere}]
  <2>1. \A b \in P : at[b] \in 0..(n - 1)
    BY <1>3, <1>6
  <2>2. \A b \in SourceBoard : b \notin P => at[b] = Nowhere
    BY <1>5
  <2> QED BY <1>2, <1>5, <2>1, <2>2
<1> QED BY <1>1, <1>6, <1>7, <1>8

\* add_source_board on an order without gaps: the board gets the place that was asked
\* for, or the last one.
LEMMA AddLands ==
    ASSUME PlaceTypes, Apart(place), NEW n \in Nat, n = Cardinality(Present),
           {place[c] : c \in Present} = 0..(n - 1),
           NEW b \in SourceBoard, b \notin Present, NEW k \in Nat,
           NEW rows, rows = [c \in SourceBoard |-> IF c = b THEN k
                                                   ELSE IF place[c] >= k THEN place[c] + 1 ELSE place[c]],
           NEW s \in Orders(rows, Present \cup {b})
    PROVE  \E i \in 1..(n + 1) : s[i] = b /\ i - 1 = IF k > n THEN n ELSE k
<1>1. PICK P : P = Present \cup {b}
  OBVIOUS
<1>2. P \in SUBSET SourceBoard /\ Present \in SUBSET SourceBoard
  BY <1>1 DEF Present
<1>3. Cardinality(P) = n + 1
  <2>1. IsFiniteSet(Present)
    BY <1>2, BoardsCounted
  <2> QED BY <1>1, <2>1, FS_AddElement
<1>4. /\ s \in [1..(n + 1) -> P] /\ (\A i, j \in 1..(n + 1) : s[i] = s[j] => i = j)
      /\ \A c \in P : \E i \in 1..(n + 1) : s[i] = c
      /\ \A i, j \in 1..(n + 1) : i < j => rows[s[i]] <= rows[s[j]]
  <2>1. s \in Orders(rows, P)
    BY <1>1
  <2>2. Lists(s, P) /\ \A i, j \in 1..Cardinality(P) : i < j => rows[s[i]] <= rows[s[j]]
    BY <1>2, <2>1, OrdersList
  <2> QED BY <1>3, <2>2 DEF Lists, IsInjective
<1>5. \A c \in Present : place[c] \in 0..(n - 1)
  OBVIOUS
<1>6. \A c, d \in Present : place[c] = place[d] => c = d
  BY <1>2 DEF Apart, Present
<1>7. /\ rows[b] = k
      /\ \A c \in Present : c # b /\ c \in SourceBoard /\ rows[c] = IF place[c] >= k THEN place[c] + 1 ELSE place[c]
  BY <1>2
<1>8. PICK i \in 1..(n + 1) : s[i] = b
  BY <1>1, <1>4
<1>9. CASE k > n
  <2>1. \A c \in Present : rows[c] < k
    BY <1>5, <1>7, <1>9
  <2>2. ASSUME i # n + 1 PROVE FALSE
    <3>1. i + 1 \in 1..(n + 1) /\ n + 1 \in 1..(n + 1) /\ i < i + 1
      BY <2>2
    <3>2. PICK c : c = s[i + 1]
      OBVIOUS
    <3>3. c \in Present
      BY <1>1, <1>4, <1>8, <3>1, <3>2
    <3>4. rows[b] <= rows[c]
      BY <1>4, <1>8, <3>1, <3>2
    <3>5. rows[c] \in Int
      BY <1>5, <1>7, <3>3
    <3>6. rows[c] < k
      BY <2>1, <3>3
    <3>7. k <= rows[c]
      BY <1>7, <3>4
    <3> QED BY <3>5, <3>6, <3>7
  <2> QED BY <1>8, <1>9, <2>2
<1>10. CASE k <= n
  <2>1. \A c \in P : rows[c] \in 0..n
    BY <1>1, <1>5, <1>7, <1>10
  <2>2. \A c, d \in P : rows[c] = rows[d] => c = d
    <3> SUFFICES ASSUME NEW c \in P, NEW d \in P, rows[c] = rows[d] PROVE c = d
      OBVIOUS
    <3>1. CASE c \in Present /\ d \in Present
      <4>1. place[c] = place[d]
        BY <1>5, <1>7, <3>1
      <4> QED BY <1>6, <3>1, <4>1
    <3>2. CASE c = b /\ d \in Present
      BY <1>5, <1>7, <3>2
    <3>3. CASE d = b /\ c \in Present
      BY <1>5, <1>7, <3>3
    <3> QED BY <1>1, <3>1, <3>2, <3>3
  <2>3. PICK m \in Nat : m = n + 1
    OBVIOUS
  <2>4. PICK g : g = [j \in 1..m |-> rows[s[j]]]
    OBVIOUS
  <2>5. g \in [1..m -> 0..(m - 1)]
    <3>1. \A j \in 1..m : s[j] \in P
      BY <1>4, <2>3
    <3>2. \A j \in 1..m : rows[s[j]] \in 0..n
      BY <2>1, <3>1
    <3>3. 0..n = 0..(m - 1)
      BY <2>3
    <3> QED BY <2>4, <3>2, <3>3
  <2>6. \A h, j \in 1..m : h < j => g[h] < g[j]
    <3> SUFFICES ASSUME NEW h \in 1..m, NEW j \in 1..m, h < j PROVE g[h] < g[j]
      OBVIOUS
    <3>1. s[h] \in P /\ s[j] \in P /\ s[h] # s[j] /\ rows[s[h]] <= rows[s[j]]
      <4>1. h \in 1..(n + 1) /\ j \in 1..(n + 1) /\ h # j
        BY <2>3
      <4> QED BY <1>4, <4>1
    <3>2. rows[s[h]] # rows[s[j]]
      BY <2>2, <3>1
    <3>3. g[h] = rows[s[h]] /\ g[j] = rows[s[j]] /\ g[h] \in Int /\ g[j] \in Int
      BY <2>4, <2>5
    <3> QED BY <3>1, <3>2, <3>3
  <2>7. \A j \in 1..m : g[j] = j - 1
    BY <2>5, <2>6, Increasing
  <2>8. k = i - 1
    BY <1>7, <1>8, <2>3, <2>4, <2>7
  <2> QED BY <1>8, <1>10, <2>8
<1> QED BY <1>9, <1>10

-----------------------------------------------------------------------------
\* create_aggregated_board: the boards it is given, from 0.
LEMMA SourcesBegin == SourcesInit => SrcInv
<1> SUFFICES ASSUME SourcesInit PROVE SrcInv
  OBVIOUS
<1>1. PICK s : s \in SeqOf(SourceBoard, Cardinality(SourceBoard)) /\ IsInjective(s)
               /\ place = [b \in SourceBoard |-> IF b \in ToSet(s) THEN IndexOf(s, b) - 1 ELSE Nowhere]
  BY Zenon DEF SourcesInit
<1>2. PICK m \in Nat : s \in [1..m -> SourceBoard]
  <2>1. Cardinality(SourceBoard) \in Nat
    BY BoardsCounted
  <2>2. PICK m \in 0..Cardinality(SourceBoard) : s \in [1..m -> SourceBoard]
    BY <1>1 DEF SeqOf
  <2>3. m \in Nat
    BY <2>1, <2>2
  <2> QED BY <2>2, <2>3
<1>3. PICK P : P = ToSet(s)
  OBVIOUS
<1>4. P \in SUBSET SourceBoard /\ (\A b \in P : \E i \in 1..m : s[i] = b) /\ (\A i \in 1..m : s[i] \in P)
  BY <1>2, <1>3 DEF ToSet
<1>5. Cardinality(P) = m
  <2>1. \A i, j \in 1..m : s[i] = s[j] => i = j
    BY <1>1, <1>2 DEF IsInjective
  <2>2. s \in Injection(1..m, P) /\ s \in Surjection(1..m, P)
    <3>1. s \in [1..m -> P]
      BY <1>2, <1>4
    <3>2. s \in Injection(1..m, P)
      BY <1>1, <3>1 DEF Injection
    <3>3. s \in Surjection(1..m, P)
      BY <1>4, <3>1 DEF Surjection
    <3> QED BY <3>2, <3>3
  <2>3. IsFiniteSet(1..m) /\ Cardinality(1..m) = m
    BY FS_Interval
  <2>4. Cardinality(P) = Cardinality(1..m)
    BY <2>2, <2>3, FS_Surjection
  <2> QED BY <2>3, <2>4
<1>6. Lists(s, P)
  BY <1>1, <1>2, <1>4, <1>5 DEF Lists
<1>7. place = [b \in SourceBoard |-> IF b \in P THEN IndexOf(s, b) - 1 ELSE Nowhere]
  BY <1>1, <1>3, Zenon
<1>8. /\ {b \in SourceBoard : place[b] # Nowhere} = P
      /\ {place[b] : b \in P} = 0..(Cardinality(P) - 1)
      /\ Apart(place)
  BY <1>4, <1>6, <1>7, ListNumbers
<1>9. SourcesContiguous /\ PlacesApart
  BY <1>8 DEF SourcesContiguous, PlacesApart, Present
<1>10. place \in [SourceBoard -> Nat \cup {Nowhere}]
  <2>1. \A b \in P : place[b] \in 0..(m - 1)
    BY <1>5, <1>8
  <2>2. \A b \in SourceBoard : b \notin P => place[b] = Nowhere
    BY <1>7
  <2> QED BY <1>4, <1>7, <2>1, <2>2
<1>11. SrcTypes
  <2>1. << >> \in Seq(SourceBoard)
    OBVIOUS
  <2>2. NoSourceAsk \in SrcAsks
    BY DEF NoSourceAsk, SrcAsks
  <2> QED BY <1>10, <2>1, <2>2 DEF SourcesInit, SrcTypes, SrcUnderWay
<1>12. AloneReads /\ LandsWhereAsked
  BY DEF SourcesInit, AloneReads, LandsWhereAsked, NoPromise
<1> QED BY <1>9, <1>11, <1>12 DEF SrcInv

\* No request but r is under way that nothing overlapped: the invariant about them
\* needs no more.
LEMMA NobodyElseAlone ==
    ASSUME SrcInv, NEW r \in SourceRequest, SrcUnderWay(r)
    PROVE  \A q \in srcAlone : q # r => ~SrcUnderWay(q)
BY DEF SrcInv, SrcTypes, AloneReads

\* What is under way asks for something that can be asked for.
LEMMA AsksRight ==
    ASSUME SrcInv, NEW r \in srcAlone, SrcUnderWay(r)
    PROVE  RightAsk(srcAsk[r])
<1>1. r \in SourceRequest /\ srcAsk[r] \in SrcAsks
  BY DEF SrcInv, SrcTypes
<1>2. srcAsk[r].kind \in {"none", "add", "append", "remove", "move"} /\ srcAsk[r].at \in Int
  BY <1>1 DEF SrcAsks
<1>3. /\ srcAsk[r].kind # "none" /\ srcAsk[r].board \in SourceBoard
      /\ srcAsk[r].kind \in {"add", "append"} => srcAsk[r].at \in Nat
      /\ srcAsk[r].kind = "move" => srcAsk[r].board \in Present
  BY <1>1 DEF SrcInv, SrcTypes, AloneReads
<1> QED BY <1>2, <1>3 DEF RightAsk

\* A step that leaves the table alone, and whose request is not one that nothing overlapped,
\* or is: the ghosts say as before.
LEMMA PlacesStay ==
    ASSUME SrcInv, UNCHANGED <<place, settled, promised>>
    PROVE  PlacesApart' /\ SourcesContiguous' /\ LandsWhereAsked'
<1>1. PlacesApart' /\ LandsWhereAsked'
  BY DEF SrcInv, PlacesApart, LandsWhereAsked, Apart
<1>2. Present' = Present
  BY DEF Present
<1> QED BY <1>1, <1>2 DEF SrcInv, SourcesContiguous

\* A request that begins overlaps all that are under way.
LEMMA StartsAlone ==
    ASSUME SrcInv, NEW r \in SourceRequest, SourceStarts(r)
    PROVE  srcAlone' \subseteq {r} /\ (r \in srcAlone' => \A q \in SourceRequest \ {r} : ~SrcUnderWay(q))
BY DEF SourceStarts, Others, SrcUnderWay

\* CountRows keeps the invariant.
LEMMA CountRowsKeeps ==
    ASSUME SrcInv, NEW r \in SourceRequest, CountRows(r)
    PROVE  SrcInv'
<1>0. SrcTypes
  BY DEF SrcInv
<1>1. PICK n : n = Cardinality(Present)
  OBVIOUS
<1>b. PICK b \in SourceBoard : srcAsk' = [srcAsk EXCEPT ![r] = [kind |-> "append", board |-> b, at |-> n]]
  BY <1>1, Zenon DEF CountRows
<1>2. n \in Nat
  BY <1>1, BoardsCounted DEF Present
<1>3. PICK a : a = [kind |-> "append", board |-> b, at |-> n]
  OBVIOUS
<1>4. a \in SrcAsks /\ a.kind = "append" /\ a.board = b /\ a.at = n
  BY <1>2, <1>3 DEF SrcAsks
<1>5. /\ srcAsk' = [srcAsk EXCEPT ![r] = a] /\ srcStep' = [srcStep EXCEPT ![r] = "counted"]
      /\ SourceStarts(r) /\ UNCHANGED <<place, deleted, srcOrder, settled, promised>>
  BY <1>b, <1>3 DEF CountRows
<1>6. srcAlone' \subseteq {r} /\ (r \in srcAlone' => \A q \in SourceRequest \ {r} : ~SrcUnderWay(q))
  BY <1>5, StartsAlone
<1>7. /\ srcStep'[r] = "counted" /\ srcAsk'[r] = a
      /\ \A q \in SourceRequest : q # r => srcStep'[q] = srcStep[q] /\ srcAsk'[q] = srcAsk[q]
  BY <1>0, <1>5 DEF SrcTypes
<1>8. SrcTypes'
  <2>1. /\ place' \in [SourceBoard -> Nat \cup {Nowhere}] /\ deleted' \subseteq SourceBoard
        /\ srcStep' \in [SourceRequest -> {"idle", "counted", "read", "done"}]
        /\ srcOrder' \in [SourceRequest -> Seq(SourceBoard)]
        /\ srcAlone' \subseteq SourceRequest /\ settled' \in BOOLEAN
    BY <1>0, <1>5, <1>6 DEF SrcTypes
  <2>2. srcAsk' \in [SourceRequest -> SrcAsks]
    BY <1>0, <1>4, <1>5 DEF SrcTypes
  <2>3. ASSUME NEW q \in SourceRequest, SrcUnderWay(q)'
        PROVE  /\ srcAsk'[q].kind # "none" /\ srcAsk'[q].board \in SourceBoard
               /\ srcAsk'[q].kind \in {"add", "append"} => srcAsk'[q].at \in Nat
               /\ srcStep'[q] = "counted" => srcAsk'[q].kind = "append"
    <3>1. CASE q = r
      BY <1>2, <1>4, <1>7, <3>1
    <3>2. CASE q # r
      BY <1>0, <1>7, <2>3, <3>2 DEF SrcTypes, SrcUnderWay
    <3> QED BY <3>1, <3>2
  <2> QED BY <2>1, <2>2, <2>3 DEF SrcTypes
<1>9. Present' = Present
  BY <1>5 DEF Present
<1>10. AloneReads'
  <2> SUFFICES ASSUME NEW q \in srcAlone', SrcUnderWay(q)'
               PROVE  /\ \A p \in SourceRequest \ {q} : ~SrcUnderWay(p)'
                      /\ srcAsk'[q].kind = "append" => srcAsk'[q].at = Cardinality(Present')
                      /\ srcAsk'[q].kind = "move" => srcAsk'[q].board \in Present'
                      /\ srcStep'[q] = "read" => srcOrder'[q] \in NewOrders(srcAsk[q])'
    BY DEF AloneReads
  <2>1. q = r
    BY <1>6
  <2>2. \A p \in SourceRequest \ {r} : ~SrcUnderWay(p)'
    BY <1>6, <1>7, <2>1 DEF SrcUnderWay
  <2> QED BY <1>1, <1>4, <1>7, <1>9, <2>1, <2>2
<1> QED BY <1>5, <1>8, <1>10, PlacesStay DEF SrcInv

\* Reading keeps what a request that nothing overlapped knows.
LEMMA ReadsKeeps ==
    ASSUME SrcInv, NEW r \in SourceRequest, NEW a, RightAsk(a), a \in SrcAsks, Reads(r, a),
           srcAsk' = [srcAsk EXCEPT ![r] = a],
           srcAlone' \subseteq SourceRequest,
           \A q \in srcAlone' : q # r => ~SrcUnderWay(q),
           r \in srcAlone' => \A q \in SourceRequest \ {r} : ~SrcUnderWay(q),
           r \in srcAlone' /\ a.kind = "append" => a.at = Cardinality(Present)
    PROVE  SrcInv'
<1>0. SrcTypes
  BY DEF SrcInv
<1>1. PICK s \in NewOrders(a) : srcOrder' = [srcOrder EXCEPT ![r] = s]
  BY DEF Reads
<1>2. PlaceTypes
  BY <1>0 DEF SrcTypes, PlaceTypes
<1>3. s \in Seq(SourceBoard)
  BY <1>2, OrderIsWhole
<1>4. srcStep' = [srcStep EXCEPT ![r] = "read"] /\ UNCHANGED <<place, deleted, settled, promised>>
  BY DEF Reads
<1>5. /\ srcStep'[r] = "read" /\ srcAsk'[r] = a /\ srcOrder'[r] = s
      /\ \A q \in SourceRequest : q # r => srcStep'[q] = srcStep[q] /\ srcAsk'[q] = srcAsk[q]
  BY <1>0, <1>1, <1>4 DEF SrcTypes
<1>6. SrcTypes'
  <2>1. /\ place' \in [SourceBoard -> Nat \cup {Nowhere}] /\ deleted' \subseteq SourceBoard
        /\ srcStep' \in [SourceRequest -> {"idle", "counted", "read", "done"}]
        /\ srcAsk' \in [SourceRequest -> SrcAsks]
        /\ srcAlone' \subseteq SourceRequest /\ settled' \in BOOLEAN
    BY <1>0, <1>4 DEF SrcTypes
  <2>2. srcOrder' \in [SourceRequest -> Seq(SourceBoard)]
    BY <1>0, <1>1, <1>3 DEF SrcTypes
  <2>3. ASSUME NEW q \in SourceRequest, SrcUnderWay(q)'
        PROVE  /\ srcAsk'[q].kind # "none" /\ srcAsk'[q].board \in SourceBoard
               /\ srcAsk'[q].kind \in {"add", "append"} => srcAsk'[q].at \in Nat
               /\ srcStep'[q] = "counted" => srcAsk'[q].kind = "append"
    <3>1. CASE q = r
      BY <1>5, <3>1 DEF RightAsk
    <3>2. CASE q # r
      BY <1>0, <1>5, <2>3, <3>2 DEF SrcTypes, SrcUnderWay
    <3> QED BY <3>1, <3>2
  <2> QED BY <2>1, <2>2, <2>3 DEF SrcTypes
<1>7. Present' = Present
  BY <1>4 DEF Present
<1>8. NewOrders(srcAsk[r])' = NewOrders(a)
  <2>1. Shifted(a.at)' = Shifted(a.at)
    BY <1>4 DEF Shifted
  <2>2. Rows(srcAsk[r])' = Rows(a)
    BY <1>4, <1>5, <2>1 DEF Rows, Shifted
  <2>3. CASE a.kind # "move"
    <3>1. NewOrders(a) = Orders(Rows(a), {b \in SourceBoard : Rows(a)[b] # Nowhere})
      BY <2>3, Zenon DEF NewOrders
    <3>2. NewOrders(srcAsk[r])' = Orders(Rows(srcAsk[r])', {b \in SourceBoard : Rows(srcAsk[r])'[b] # Nowhere})
      BY <1>5, <2>3, Zenon DEF NewOrders
    <3> QED BY <2>2, <3>1, <3>2, Zenon
  <2>4. CASE a.kind = "move"
    <3>1. NewOrders(a) = {MovedTo(a.board, a.at, t) : t \in Orders(place, Present \ {a.board})}
      BY <2>4, Zenon DEF NewOrders
    <3>2. NewOrders(srcAsk[r])' = {MovedTo(a.board, a.at, t) : t \in Orders(place', Present' \ {a.board})}
      BY <1>5, <2>4, Zenon DEF NewOrders
    <3>3. place' = place
      BY <1>4
    <3> QED BY <1>7, <3>1, <3>2, <3>3, Zenon
  <2> QED BY <2>3, <2>4
<1>9. AloneReads'
  <2> SUFFICES ASSUME NEW q \in srcAlone', SrcUnderWay(q)'
               PROVE  /\ \A p \in SourceRequest \ {q} : ~SrcUnderWay(p)'
                      /\ srcAsk'[q].kind = "append" => srcAsk'[q].at = Cardinality(Present')
                      /\ srcAsk'[q].kind = "move" => srcAsk'[q].board \in Present'
                      /\ srcStep'[q] = "read" => srcOrder'[q] \in NewOrders(srcAsk[q])'
    BY DEF AloneReads
  <2>1. q = r
    BY <1>5 DEF SrcUnderWay
  <2>2. \A p \in SourceRequest \ {r} : ~SrcUnderWay(p)'
    BY <1>5, <2>1 DEF SrcUnderWay
  <2> QED BY <1>5, <1>7, <1>8, <2>1, <2>2 DEF RightAsk
<1> QED BY <1>4, <1>6, <1>9, PlacesStay DEF SrcInv

\* ReadAfterCount keeps the invariant.
LEMMA ReadAfterCountKeeps ==
    ASSUME SrcInv, NEW r \in SourceRequest, ReadAfterCount(r)
    PROVE  SrcInv'
<1>1. PICK a : a = srcAsk[r]
  OBVIOUS
<1>2. srcStep[r] = "counted" /\ Reads(r, a) /\ srcAsk' = srcAsk /\ srcAlone' = srcAlone
  BY <1>1 DEF ReadAfterCount
<1>3. a \in SrcAsks /\ a.kind = "append" /\ a.board \in SourceBoard /\ a.at \in Nat /\ SrcUnderWay(r)
  BY <1>1, <1>2 DEF SrcInv, SrcTypes, SrcUnderWay
<1>4. RightAsk(a)
  BY <1>3 DEF RightAsk
<1>5. srcAsk' = [srcAsk EXCEPT ![r] = a]
  BY <1>1, <1>2 DEF SrcInv, SrcTypes
<1>6. srcAlone' \subseteq SourceRequest
  BY <1>2 DEF SrcInv, SrcTypes
<1>7. \A q \in srcAlone' : q # r => ~SrcUnderWay(q)
  BY <1>2, <1>3, NobodyElseAlone
<1>8. /\ r \in srcAlone' => \A q \in SourceRequest \ {r} : ~SrcUnderWay(q)
      /\ r \in srcAlone' /\ a.kind = "append" => a.at = Cardinality(Present)
  BY <1>1, <1>2, <1>3 DEF SrcInv, AloneReads
<1> QED BY <1>2, <1>3, <1>4, <1>5, <1>6, <1>7, <1>8, ReadsKeeps

\* StartReading keeps the invariant.
LEMMA StartReadingKeeps ==
    ASSUME SrcInv, NEW r \in SourceRequest, StartReading(r)
    PROVE  SrcInv'
<1>1. PICK a \in [kind : {"add"}, board : SourceBoard \ deleted, at : 1..MaxSourcePos]
                   \cup [kind : {"remove"}, board : Present, at : {Nowhere}]
                   \cup [kind : {"move"}, board : Present, at : Nowhere..MaxSourcePos] :
          Reads(r, a) /\ srcAsk' = [srcAsk EXCEPT ![r] = a]
  BY DEF StartReading
<1>2. a.kind \in {"add", "remove", "move"} /\ a \in SrcAsks /\ RightAsk(a)
  <2>1. MaxSourcePos \in Nat
    BY SourcesAssumption
  <2>2. CASE a \in [kind : {"add"}, board : SourceBoard \ deleted, at : 1..MaxSourcePos]
    BY <2>1, <2>2 DEF SrcAsks, RightAsk
  <2>3. CASE a \in [kind : {"remove"}, board : Present, at : {Nowhere}]
    BY <2>3 DEF SrcAsks, RightAsk, Present, Nowhere
  <2>4. CASE a \in [kind : {"move"}, board : Present, at : Nowhere..MaxSourcePos]
    BY <2>1, <2>4 DEF SrcAsks, RightAsk, Present, Nowhere
  <2> QED BY <1>1, <2>2, <2>3, <2>4
<1>3. srcAlone' \subseteq {r} /\ (r \in srcAlone' => \A q \in SourceRequest \ {r} : ~SrcUnderWay(q))
  BY StartsAlone DEF StartReading
<1>4. srcAlone' \subseteq SourceRequest /\ (\A q \in srcAlone' : q # r => ~SrcUnderWay(q))
  BY <1>3
<1>5. r \in srcAlone' /\ a.kind = "append" => a.at = Cardinality(Present)
  BY <1>2
<1> QED BY <1>1, <1>2, <1>3, <1>4, <1>5, ReadsKeeps

\* apply_source_order by a request that nothing overlapped: no gaps, no ties, and the
\* board where it was asked for.
LEMMA AloneHeals ==
    ASSUME SrcInv, NEW r \in srcAlone, Apply(r)
    PROVE  PlacesApart' /\ SourcesContiguous' /\ LandsWhereAsked' /\ PlaceTypes'
<1>1. PICK a : a = srcAsk[r]
  OBVIOUS
<1>2. SrcUnderWay(r) /\ srcStep[r] = "read"
  BY DEF Apply, SrcUnderWay
<1>3. RightAsk(a)
  BY <1>1, <1>2, AsksRight
<1>4. PICK s \in NewOrders(a) : s = srcOrder[r]
  BY <1>1, <1>2 DEF SrcInv, AloneReads
<1>5. PlaceTypes
  BY DEF SrcInv, SrcTypes, PlaceTypes
<1>6. PICK rows : rows = Rows(a)
  OBVIOUS
<1>7. Lists(s, Placed(rows)) /\ rows \in [SourceBoard -> Nat \cup {Nowhere}]
  <2>1. Lists(s, Placed(Rows(a)))
    BY <1>3, <1>4, <1>5, OrderIsWhole
  <2>2. Rows(a) \in [SourceBoard -> Nat \cup {Nowhere}]
    BY <1>3, <1>5, RowsAre
  <2> QED BY <1>6, <2>1, <2>2
<1>8. place' = [b \in SourceBoard |-> IF rows[b] # Nowhere /\ b \in ToSet(s)
                                      THEN IndexOf(s, b) - 1 ELSE rows[b]]
  BY <1>1, <1>4, <1>6, Zenon DEF Apply, Renumbered
<1>9. PICK at : at = place'
  OBVIOUS
<1>10. /\ Placed(at) = Placed(rows) /\ Apart(at)
       /\ at \in [SourceBoard -> Nat \cup {Nowhere}]
       /\ {at[b] : b \in Placed(at)} = 0..(Cardinality(Placed(at)) - 1)
       /\ \A i \in 1..Cardinality(Placed(rows)) : s[i] \in Placed(rows) /\ at[s[i]] = i - 1
  <2>1. at = [b \in SourceBoard |-> IF rows[b] # Nowhere /\ b \in ToSet(s)
                                   THEN IndexOf(s, b) - 1 ELSE rows[b]]
    BY <1>8, <1>9, Zenon
  <2>2. rows \in [SourceBoard -> Nat \cup {Nowhere}]
    BY <1>7
  <2>3. Lists(s, Placed(rows))
    BY <1>7
  <2> QED BY <2>1, <2>2, <2>3, WrittenBack, SMTT(90)
<1>11. Present' = Placed(at)
  BY <1>9 DEF Present, Placed
<1>12. PlaceTypes'
  BY <1>9, <1>10 DEF PlaceTypes
<1>13. PlacesApart'
  BY <1>9, <1>10 DEF PlacesApart, Apart
<1>14. SourcesContiguous'
  BY <1>9, <1>10, <1>11 DEF SourcesContiguous
<1>15. PICK n \in Nat : n = Cardinality(Present \ {a.board})
  BY BoardsCounted DEF Present
<1>16. promised' = IF a.kind # "remove" /\ (a.kind = "move" \/ a.board \notin Present)
                   THEN [board |-> a.board, at |-> IF a.at < 0 \/ a.at > n THEN n ELSE a.at,
                         kind |-> a.kind, kept |-> a.kind = "move" \/ settled]
                   ELSE NoPromise
  BY <1>1, <1>15, Zenon DEF Apply
<1>17. LandsWhereAsked'
  <2>1. CASE a.kind = "move"
    <3>1. a.board \in Present /\ a.at \in Int /\ rows = place /\ Placed(rows) = Present
      BY <1>3, <1>5, <1>6, <2>1, RowsAre DEF RightAsk
    <3>2. PICK t \in Orders(place, Present \ {a.board}) : s = MovedTo(a.board, a.at, t)
      BY <1>4, <2>1, Zenon DEF NewOrders
    <3>3. Present \in SUBSET SourceBoard /\ Present \ {a.board} \in SUBSET SourceBoard
      BY DEF Present
    <3>4. Lists(t, Present \ {a.board})
      BY <3>2, <3>3, OrdersList
    <3>5. \A c \in Nat : c = Cardinality(Present \ {a.board})
             => MovedTo(a.board, a.at, t)[1 + (IF a.at < 0 \/ a.at > c THEN c ELSE a.at)] = a.board
      <4>1. a.board \in Present
        BY <3>1
      <4>2. a.at \in Int
        BY <3>1
      <4>3. Present \in SUBSET SourceBoard
        BY <3>3
      <4>4. PICK c, k, P : c = a.board /\ k = a.at /\ P = Present
        OBVIOUS
      <4>5. P \in SUBSET SourceBoard /\ c \in P /\ Lists(t, P \ {c}) /\ k \in Int
        BY <3>4, <4>1, <4>2, <4>3, <4>4
      <4>6. \A d \in Nat : d = Cardinality(P \ {c}) => MovedTo(c, k, t)[1 + (IF k < 0 \/ k > d THEN d ELSE k)] = c
        BY <4>5, MovedLists
      <4> QED BY <4>4, <4>6
    <3>6. PICK i \in 1..(n + 1) : i = 1 + (IF a.at < 0 \/ a.at > n THEN n ELSE a.at)
      BY <3>1
    <3>7. s[i] = a.board
      BY <1>15, <3>2, <3>5, <3>6
    <3>8. Cardinality(Present) = n + 1
      <4>1. IsFiniteSet(Present) /\ Cardinality(Present) \in Nat
        BY <3>3, BoardsCounted
      <4>2. Cardinality(Present \ {a.board}) = Cardinality(Present) - 1
        BY <3>1, <4>1, FS_RemoveElement
      <4> QED BY <1>15, <4>1, <4>2
    <3>9. at[a.board] = i - 1
      BY <1>10, <3>1, <3>7, <3>8
    <3>10. promised'.board = a.board /\ promised'.at = IF a.at < 0 \/ a.at > n THEN n ELSE a.at
      BY <1>16, <2>1
    <3>11. at[a.board] = IF a.at < 0 \/ a.at > n THEN n ELSE a.at
      BY <3>1, <3>6, <3>9
    <3> QED BY <1>9, <3>10, <3>11 DEF LandsWhereAsked
  <2>2. CASE a.kind \in {"add", "append"} /\ a.board \notin Present /\ settled
    <3>1. a.board \in SourceBoard /\ a.at \in Nat
      BY <1>3, <2>2 DEF RightAsk
    <3>2. /\ Placed(rows) = Present \cup {a.board}
          /\ rows = [c \in SourceBoard |-> IF c = a.board THEN a.at
                                           ELSE IF place[c] >= a.at THEN place[c] + 1 ELSE place[c]]
      BY <1>3, <1>5, <1>6, <2>2, RowsAre
    <3>3. s \in Orders(rows, Present \cup {a.board})
      <4>1. s \in Orders(rows, Placed(rows))
        BY <1>4, <1>6, <2>2 DEF NewOrders, Placed
      <4> QED BY <3>2, <4>1
    <3>4. n = Cardinality(Present)
      <4>1. Present \ {a.board} = Present
        BY <2>2
      <4> QED BY <1>15, <4>1
    <3>5. Apart(place) /\ {place[c] : c \in Present} = 0..(n - 1)
      BY <2>2, <3>4 DEF SrcInv, PlacesApart, SourcesContiguous
    <3>6. PICK i \in 1..(n + 1) : s[i] = a.board /\ i - 1 = IF a.at > n THEN n ELSE a.at
      <4>1. a.board \notin Present
        BY <2>2
      <4> QED BY <1>5, <3>1, <3>2, <3>3, <3>4, <3>5, <4>1, AddLands
    <3>7. Cardinality(Placed(rows)) = n + 1
      <4>1. IsFiniteSet(Present)
        BY BoardsCounted DEF Present
      <4> QED BY <2>2, <3>2, <3>4, <4>1, FS_AddElement
    <3>8. at[a.board] = i - 1
      BY <1>10, <3>6, <3>7
    <3>9. promised'.board = a.board /\ promised'.at = IF a.at < 0 \/ a.at > n THEN n ELSE a.at
      BY <1>16, <2>2
    <3>10. at[a.board] = IF a.at < 0 \/ a.at > n THEN n ELSE a.at
      BY <3>1, <3>6, <3>8
    <3> QED BY <1>9, <3>9, <3>10 DEF LandsWhereAsked
  <2>3. CASE ~(a.kind = "move") /\ ~(a.kind \in {"add", "append"} /\ a.board \notin Present /\ settled)
    <3>1. CASE a.kind = "remove" \/ a.board \in Present
      BY <1>16, <2>3, <3>1 DEF LandsWhereAsked, NoPromise
    <3>2. CASE a.kind # "remove" /\ a.board \notin Present
      <4>1. settled = FALSE
        BY <1>3, <2>3, <3>2 DEF RightAsk, SrcInv, SrcTypes
      <4>2. promised'.kept = FALSE
        BY <1>16, <2>3, <3>2, <4>1
      <4> QED BY <4>2 DEF LandsWhereAsked
    <3> QED BY <3>1, <3>2
  <2> QED BY <2>1, <2>2, <2>3
<1> QED BY <1>12, <1>13, <1>14, <1>17

\* What is over is not under way: the rest of the invariant after Apply and GiveUp.
LEMMA OverKeeps ==
    ASSUME SrcInv, NEW r \in SourceRequest, SrcUnderWay(r), PlaceTypes',
           srcStep' = [srcStep EXCEPT ![r] = "done"],
           srcOrder' = [srcOrder EXCEPT ![r] = << >>],
           srcAsk' = [srcAsk EXCEPT ![r] = NoSourceAsk],
           UNCHANGED <<srcAlone, deleted>>, settled' \in BOOLEAN
    PROVE  SrcTypes' /\ AloneReads'
<1>0. SrcTypes
  BY DEF SrcInv
<1>1. /\ srcStep'[r] = "done"
      /\ \A q \in SourceRequest : q # r => srcStep'[q] = srcStep[q] /\ srcAsk'[q] = srcAsk[q]
  BY <1>0 DEF SrcTypes
<1>2. SrcTypes'
  <2>1. /\ place' \in [SourceBoard -> Nat \cup {Nowhere}] /\ deleted' \subseteq SourceBoard
        /\ srcStep' \in [SourceRequest -> {"idle", "counted", "read", "done"}]
        /\ srcAlone' \subseteq SourceRequest /\ settled' \in BOOLEAN
    BY <1>0 DEF SrcTypes, PlaceTypes
  <2>2. srcOrder' \in [SourceRequest -> Seq(SourceBoard)]
    <3>1. << >> \in Seq(SourceBoard)
      OBVIOUS
    <3> QED BY <1>0, <3>1 DEF SrcTypes
  <2>3. srcAsk' \in [SourceRequest -> SrcAsks]
    <3>1. NoSourceAsk \in SrcAsks
      BY DEF NoSourceAsk, SrcAsks
    <3> QED BY <1>0, <3>1 DEF SrcTypes
  <2>4. ASSUME NEW q \in SourceRequest, SrcUnderWay(q)'
        PROVE  /\ srcAsk'[q].kind # "none" /\ srcAsk'[q].board \in SourceBoard
               /\ srcAsk'[q].kind \in {"add", "append"} => srcAsk'[q].at \in Nat
               /\ srcStep'[q] = "counted" => srcAsk'[q].kind = "append"
    <3>1. q # r
      BY <1>1, <2>4 DEF SrcUnderWay
    <3> QED BY <1>0, <1>1, <2>4, <3>1 DEF SrcTypes, SrcUnderWay
  <2> QED BY <2>1, <2>2, <2>3, <2>4 DEF SrcTypes
<1>3. \A q \in srcAlone' : ~SrcUnderWay(q)'
  <2> SUFFICES ASSUME NEW q \in srcAlone PROVE ~SrcUnderWay(q)'
    OBVIOUS
  <2>1. CASE q = r
    BY <1>1, <2>1 DEF SrcUnderWay
  <2>2. CASE q # r
    <3>1. ~SrcUnderWay(q) /\ q \in SourceRequest
      BY <1>0, <2>2, NobodyElseAlone DEF SrcTypes
    <3> QED BY <1>1, <2>2, <3>1 DEF SrcUnderWay
  <2> QED BY <2>1, <2>2
<1>4. AloneReads'
  BY <1>3 DEF AloneReads
<1> QED BY <1>2, <1>4

\* Apply keeps the invariant.
LEMMA ApplyKeeps ==
    ASSUME SrcInv, NEW r \in SourceRequest, Apply(r)
    PROVE  SrcInv'
<1>1. /\ SrcUnderWay(r) /\ settled' = (r \in srcAlone)
      /\ srcStep' = [srcStep EXCEPT ![r] = "done"] /\ srcOrder' = [srcOrder EXCEPT ![r] = << >>]
      /\ srcAsk' = [srcAsk EXCEPT ![r] = NoSourceAsk] /\ UNCHANGED <<srcAlone, deleted>>
  BY DEF Apply, SrcUnderWay
<1>2. settled' \in BOOLEAN
  BY <1>1
<1>3. PlaceTypes' /\ PlacesApart' /\ SourcesContiguous' /\ LandsWhereAsked'
  <2>1. CASE r \in srcAlone
    BY <2>1, AloneHeals
  <2>2. CASE r \notin srcAlone
    <3>1. ~settled'
      BY <1>1, <2>2, Zenon
    <3>2. PlacesApart' /\ SourcesContiguous' /\ LandsWhereAsked'
      BY <3>1 DEF PlacesApart, SourcesContiguous, LandsWhereAsked
    <3>3. PlaceTypes'
      <4>1. PICK a : a = srcAsk[r] /\ a \in SrcAsks
        BY DEF SrcInv, SrcTypes
      <4>2. a.kind \in {"add", "append", "remove", "move"} /\ a.board \in SourceBoard /\ a.at \in Int
            /\ (a.kind \in {"add", "append"} => a.at \in Nat)
        BY <1>1, <4>1 DEF SrcInv, SrcTypes, SrcAsks
      <4>3. PlaceTypes
        BY DEF SrcInv, SrcTypes, PlaceTypes
      <4>4. Rows(a) \in [SourceBoard -> Nat \cup {Nowhere}]
        <5>1. CASE a.kind = "move"
          <6>1. Rows(a) = place
            BY <5>1 DEF Rows
          <6> QED BY <4>3, <6>1 DEF PlaceTypes
        <5>2. CASE a.kind # "move"
          <6>1. RightAsk(a)
            BY <4>2, <5>2 DEF RightAsk
          <6> QED BY <4>3, <6>1, RowsAre
        <5> QED BY <5>1, <5>2
      <4>5. PICK s, rows : s = srcOrder[r] /\ rows = Rows(a)
        OBVIOUS
      <4>6. place' = [b \in SourceBoard |-> IF rows[b] # Nowhere /\ b \in ToSet(s)
                                            THEN IndexOf(s, b) - 1 ELSE rows[b]]
        BY <4>1, <4>5, Zenon DEF Apply, Renumbered
      <4>7. s \in Seq(SourceBoard)
        BY <4>5 DEF SrcInv, SrcTypes
      <4>8. ASSUME NEW b \in ToSet(s) PROVE IndexOf(s, b) - 1 \in Nat
        <5>1. DOMAIN s = 1..Len(s) /\ \E i \in DOMAIN s : s[i] = b
          BY <4>7, <4>8 DEF ToSet
        <5>2. IndexOf(s, b) \in DOMAIN s
          BY <5>1 DEF IndexOf
        <5>3. Len(s) \in Nat
          BY <4>7
        <5> QED BY <5>1, <5>2, <5>3
      <4>9. rows \in [SourceBoard -> Nat \cup {Nowhere}]
        BY <4>4, <4>5
      <4> QED BY <4>6, <4>8, <4>9 DEF PlaceTypes
    <3> QED BY <3>2, <3>3
  <2> QED BY <2>1, <2>2
<1>4. SrcTypes' /\ AloneReads'
  BY <1>1, <1>2, <1>3, OverKeeps
<1> QED BY <1>3, <1>4 DEF SrcInv

\* GiveUp keeps the invariant.
LEMMA GiveUpKeeps ==
    ASSUME SrcInv, NEW r \in SourceRequest, GiveUp(r)
    PROVE  SrcInv'
<1>1. /\ SrcUnderWay(r) /\ UNCHANGED <<place, settled, promised>>
      /\ srcStep' = [srcStep EXCEPT ![r] = "done"] /\ srcOrder' = [srcOrder EXCEPT ![r] = << >>]
      /\ srcAsk' = [srcAsk EXCEPT ![r] = NoSourceAsk] /\ UNCHANGED <<srcAlone, deleted>>
  BY DEF GiveUp, SrcUnderWay
<1>2. PlaceTypes' /\ settled' \in BOOLEAN
  BY <1>1 DEF SrcInv, SrcTypes, PlaceTypes
<1>3. SrcTypes' /\ AloneReads'
  BY <1>1, <1>2, OverKeeps
<1> QED BY <1>1, <1>3, PlacesStay DEF SrcInv

\* SourceDeleted keeps the invariant.
LEMMA SourceDeletedKeeps ==
    ASSUME SrcInv, NEW b \in SourceBoard, SourceDeleted(b)
    PROVE  SrcInv'
<1>1. /\ place' = [place EXCEPT ![b] = Nowhere] /\ deleted' = deleted \cup {b}
      /\ srcAlone' = {} /\ settled' = FALSE /\ UNCHANGED <<srcStep, srcAsk, srcOrder>>
  BY DEF SourceDeleted
<1>2. SrcTypes'
  BY <1>1 DEF SrcInv, SrcTypes, SrcUnderWay
<1> QED BY <1>1, <1>2 DEF SrcInv, AloneReads, PlacesApart, SourcesContiguous, LandsWhereAsked

\* What the sources of an aggregate and the requests that order them always satisfy.
LEMMA SrcInvariant == SourcesSpec => []SrcInv
<1>1. SrcInv /\ [SourcesNext]_srcVars => SrcInv'
  <2> SUFFICES ASSUME SrcInv, [SourcesNext]_srcVars PROVE SrcInv'
    OBVIOUS
  <2>1. CASE UNCHANGED srcVars
    <3>1. SrcTypes' /\ UNCHANGED <<place, srcStep, srcAsk, srcOrder, srcAlone, settled, promised>>
      BY <2>1 DEF srcVars, SrcInv, SrcTypes, SrcUnderWay
    <3>2. \A r \in srcAlone : NewOrders(srcAsk[r])' = NewOrders(srcAsk[r])
      BY <3>1 DEF NewOrders, Rows, Shifted, Present
    <3>3. Present' = Present
      BY <3>1 DEF Present
    <3>4. AloneReads'
      BY <3>1, <3>2, <3>3 DEF SrcInv, AloneReads, SrcUnderWay
    <3> QED BY <3>1, <3>4, PlacesStay DEF SrcInv
  <2>2. ASSUME NEW r \in SourceRequest, CountRows(r) PROVE SrcInv'
    BY <2>2, CountRowsKeeps
  <2>3. ASSUME NEW r \in SourceRequest, ReadAfterCount(r) PROVE SrcInv'
    BY <2>3, ReadAfterCountKeeps
  <2>4. ASSUME NEW r \in SourceRequest, StartReading(r) PROVE SrcInv'
    BY <2>4, StartReadingKeeps
  <2>5. ASSUME NEW r \in SourceRequest, Apply(r) PROVE SrcInv'
    BY <2>5, ApplyKeeps
  <2>6. ASSUME NEW r \in SourceRequest, GiveUp(r) PROVE SrcInv'
    BY <2>6, GiveUpKeeps
  <2>7. ASSUME NEW b \in SourceBoard, SourceDeleted(b) PROVE SrcInv'
    BY <2>7, SourceDeletedKeeps
  <2> QED BY <2>1, <2>2, <2>3, <2>4, <2>5, <2>6, <2>7 DEF SourcesNext
<1> QED BY <1>1, SourcesBegin, PTL DEF SourcesSpec

\* Every request that nothing overlaps leaves the sources at 0, 1, 2, with the board that it
\* moved or added where it was asked for, whatever requests that overlapped before and boards
\* that were deleted had left: apply_source_order of aggregated_boards.rs.
THEOREM SourcesHeal == SourcesSpec => []SourcesAreInOrder
<1>2. SrcInv => SourcesAreInOrder
  BY DEF SrcInv, SourcesAreInOrder
<1> QED BY <1>2, SrcInvariant, PTL

-----------------------------------------------------------------------------
(***************************************************************************)
(* GithubLinks: links that are made, asked about again and removed.        *)
(***************************************************************************)
GhWorks ==
    [at : {"ask", "board", "write", "done", "failed"}, link : GhRequest, verb : {"link", "resync"},
     board : GhBoard \cup {NoBoard}, state : Unsynced..MaxIssue, since : 0..MaxIssue]

GhTypes ==
    /\ GhTypeOK
    /\ ghWork \in [GhRequest -> {NoGhWork} \cup GhWorks]
    /\ told \in [GhRequest -> [board : GhBoard \cup {NoBoard}, state : Unsynced..MaxIssue]]

Resyncs(r) == ghWork[r].at # "idle" /\ ghWork[r].verb = "resync"

\* The request has made its link.
HasLinked(r) == ghWork[r].at = "done" /\ ghWork[r].verb = "link"

\* What a request got of GitHub is not newer than the issue, and a resync got it after
\* it began.
AnswersHeld ==
    \A r \in GhRequest : ghWork[r].at # "idle" =>
        /\ ghWork[r].since <= issue /\ ghWork[r].state <= issue
        /\ ghWork[r].verb = "link" => ghWork[r].link = r /\ ghWork[r].at # "board"
        /\ ghWork[r].verb = "resync" /\ ghWork[r].at \in {"board", "write", "done"} => ghWork[r].state >= ghWork[r].since

\* Before a request makes its link nobody knows of it.
MadeOnce ==
    \A k \in GhRequest : ~HasLinked(k) =>
        /\ links[k] = Unlinked /\ told[k] = NotTold /\ k \notin removed
        /\ \A r \in GhRequest : Resyncs(r) => ghWork[r].link # k

\* Of two resyncs of a link either overlapped the other, or the second began after the end
\* of the first.
ResyncsApart ==
    \A q, r \in GhRequest :
        (q # r /\ Resyncs(q) /\ Resyncs(r) /\ ghWork[q].link = ghWork[r].link /\ UnderWay(q)) =>
            /\ UnderWay(r) => q \in overlapped /\ r \in overlapped
            /\ ghWork[r].at = "done" /\ r \notin overlapped => ghWork[q].since >= ghWork[r].since

\* The board a resync has read is still that of the card, or the card has moved since.
BoardRead ==
    \A r \in GhRequest : (Resyncs(r) /\ ghWork[r].at = "write" /\ links[ghWork[r].link] # Unlinked) =>
        ghWork[r].board = cardOn \/ r \in movedLate

GhInv ==
    /\ GhTypes /\ AnswersHeld /\ MadeOnce /\ ResyncsApart /\ BoardRead
    /\ ResyncIsFresh /\ NewsIsTheRow /\ UnlinkIsFinal

\* A request that has begun has a record of its work.
LEMMA WorkIsRecord ==
    ASSUME GhTypes, NEW r \in GhRequest, ghWork[r].at # "idle" PROVE ghWork[r] \in GhWorks
  BY DEF GhTypes, NoGhWork

\* Nothing is linked, and nobody asks.
LEMMA InitGhInv == GhInit => GhInv
<1> SUFFICES ASSUME GhInit PROVE GhInv
  OBVIOUS
<1>1. GhTypes
  BY GithubAssumption DEF GhInit, GhTypes, GhTypeOK, NotTold, Unsynced, Unlinked
<1>2. \A r \in GhRequest : ghWork[r].at = "idle"
  BY DEF GhInit, NoGhWork
<1>3. AnswersHeld /\ ResyncsApart /\ BoardRead /\ ResyncIsFresh
  BY <1>2 DEF AnswersHeld, ResyncsApart, BoardRead, ResyncIsFresh, UnderWay, Resyncs
<1>4. MadeOnce
  BY <1>2 DEF GhInit, MadeOnce, Resyncs
<1>5. NewsIsTheRow /\ UnlinkIsFinal
  BY DEF GhInit, NewsIsTheRow, UnlinkIsFinal
<1> QED BY <1>1, <1>3, <1>4, <1>5 DEF GhInv

\* A step of one request that writes no row: it goes on with w, and begins, goes on or fails.
LEMMA WorkGoesOn ==
    ASSUME GhInv, NEW r \in GhRequest, NEW w \in GhWorks, ghWork' = [ghWork EXCEPT ![r] = w],
           UNCHANGED <<issue, cardOn, links, told, cardMoves, movedLate, removed>>,
           overlapped \subseteq overlapped',
           w.since <= issue, w.state <= issue, w.at # "done",
           w.verb = "link" => w.link = r /\ w.at # "board",
           w.verb = "resync" /\ w.at \in {"board", "write"} => w.state >= w.since,
           w.verb = "resync" => HasLinked(w.link),
           ~HasLinked(r),
           w.verb = "resync" /\ w.at = "write" => w.board = cardOn,
           w.verb = "resync" => \/ Resyncs(r) /\ UnderWay(r) /\ w.link = ghWork[r].link /\ w.since = ghWork[r].since
                                \/ w.since = issue /\ OtherRequests(w.link, r) \subseteq overlapped'
                                     /\ (OtherRequests(w.link, r) # {} => r \in overlapped')
    PROVE  GhInv'
<1>1. ghWork \in [GhRequest -> {NoGhWork} \cup GhWorks]
  BY DEF GhInv, GhTypes
<1>2. /\ ghWork' \in [GhRequest -> {NoGhWork} \cup GhWorks] /\ ghWork'[r] = w
      /\ \A q \in GhRequest \ {r} : ghWork'[q] = ghWork[q]
  BY <1>1
<1>3. w.at # "idle" /\ w.verb \in {"link", "resync"} /\ w.link \in GhRequest
  BY DEF GhWorks
<1>4. GhTypes'
  BY <1>2 DEF GhInv, GhTypes, GhTypeOK
<1>5. AnswersHeld'
  BY <1>2 DEF GhInv, AnswersHeld
<1>6. \A k \in GhRequest : HasLinked(k)' <=> HasLinked(k)
  BY <1>2 DEF HasLinked
<1>7. MadeOnce'
  BY <1>2, <1>3, <1>6 DEF GhInv, MadeOnce, Resyncs
<1>8. ResyncsApart'
  <2> SUFFICES ASSUME NEW p \in GhRequest, NEW q \in GhRequest, p # q, Resyncs(p)', Resyncs(q)',
                      ghWork'[p].link = ghWork'[q].link, UnderWay(p)'
               PROVE  /\ UnderWay(q)' => p \in overlapped' /\ q \in overlapped'
                      /\ ghWork'[q].at = "done" /\ q \notin overlapped' => ghWork'[p].since >= ghWork'[q].since
    BY DEF ResyncsApart
  <2>1. CASE p # r /\ q # r
    BY <1>2, <2>1 DEF GhInv, ResyncsApart, Resyncs, UnderWay
  <2>2. CASE p = r
    <3>1. w.verb = "resync" /\ q # r /\ ghWork'[q] = ghWork[q] /\ w.link = ghWork[q].link /\ Resyncs(q)
      BY <1>2, <2>2 DEF Resyncs
    <3>2. CASE Resyncs(r) /\ UnderWay(r) /\ w.link = ghWork[r].link /\ w.since = ghWork[r].since
      BY <1>2, <2>2, <3>1, <3>2 DEF GhInv, ResyncsApart, Resyncs, UnderWay
    <3>3. CASE w.since = issue /\ OtherRequests(w.link, r) \subseteq overlapped'
                 /\ (OtherRequests(w.link, r) # {} => r \in overlapped')
      <4>1. UnderWay(q)' => q \in OtherRequests(w.link, r)
        BY <1>2, <3>1 DEF OtherRequests, UnderWay, Resyncs
      <4>2. ghWork[q].since <= issue /\ issue \in Nat /\ ghWork[q].since \in Nat
        BY <1>1, <3>1, GithubAssumption, WorkIsRecord DEF GhInv, AnswersHeld, Resyncs, GhTypes, GhTypeOK, GhWorks
      <4> QED BY <1>2, <2>2, <3>1, <3>3, <4>1, <4>2
    <3> QED BY <3>1, <3>2, <3>3
  <2>3. CASE q = r
    <3>1. w.verb = "resync" /\ p # r /\ ghWork'[p] = ghWork[p] /\ w.link = ghWork[p].link /\ Resyncs(p) /\ UnderWay(p)
      BY <1>2, <2>3 DEF Resyncs, UnderWay
    <3>2. CASE Resyncs(r) /\ UnderWay(r) /\ w.link = ghWork[r].link /\ w.since = ghWork[r].since
      BY <1>2, <2>3, <3>1, <3>2 DEF GhInv, ResyncsApart, Resyncs, UnderWay
    <3>3. CASE w.since = issue /\ OtherRequests(w.link, r) \subseteq overlapped'
                 /\ (OtherRequests(w.link, r) # {} => r \in overlapped')
      <4>1. p \in OtherRequests(w.link, r)
        BY <3>1 DEF OtherRequests, UnderWay, Resyncs
      <4> QED BY <1>2, <2>3, <3>3, <4>1
    <3> QED BY <3>1, <3>2, <3>3
  <2> QED BY <2>1, <2>2, <2>3
<1>9. BoardRead'
  BY <1>2 DEF GhInv, BoardRead, Resyncs
<1>10. ResyncIsFresh'
  BY <1>2 DEF GhInv, ResyncIsFresh
<1>11. NewsIsTheRow' /\ UnlinkIsFinal'
  BY DEF GhInv, NewsIsTheRow, UnlinkIsFinal
<1> QED BY <1>4, <1>5, <1>7, <1>8, <1>9, <1>10, <1>11 DEF GhInv

\* A request that has failed changes nothing.
LEMMA LinkFailsStands ==
    ASSUME GhInv, NEW r \in GhRequest, UnderWay(r), LinkFails(r) PROVE GhInv'
<1>1. ghWork[r].at # "idle" /\ ghWork[r].at # "done" /\ ghWork[r] \in GhWorks
  BY WorkIsRecord DEF UnderWay, GhInv
<1>2. PICK w : w = [ghWork[r] EXCEPT !.at = "failed"]
  OBVIOUS
<1>3. /\ w \in GhWorks /\ w.at = "failed" /\ w.since = ghWork[r].since /\ w.state = ghWork[r].state
      /\ w.verb = ghWork[r].verb /\ w.link = ghWork[r].link
  BY <1>1, <1>2 DEF GhWorks
<1>4. ghWork' = [ghWork EXCEPT ![r] = w] /\ UNCHANGED <<issue, cardOn, links, told, cardMoves, overlapped, movedLate, removed>>
  BY <1>2 DEF LinkFails, Moves, ghTables, ghGhosts
<1>5. w.since <= issue /\ w.state <= issue /\ (w.verb = "link" => w.link = r)
  BY <1>1, <1>3 DEF GhInv, AnswersHeld
<1>6. ~HasLinked(r)
  BY <1>1 DEF HasLinked
<1>7. w.verb = "resync" => HasLinked(w.link) /\ Resyncs(r)
  <2> SUFFICES ASSUME w.verb = "resync" PROVE HasLinked(w.link) /\ Resyncs(r)
    OBVIOUS
  <2>1. Resyncs(r) /\ w.link \in GhRequest
    BY <1>1, <1>3 DEF Resyncs, GhWorks
  <2> QED BY <1>3, <2>1 DEF GhInv, MadeOnce
<1>9. overlapped \subseteq overlapped' /\ UNCHANGED <<issue, cardOn, links, told, cardMoves, movedLate, removed>>
  BY <1>4
<1> QED BY <1>3, <1>4, <1>5, <1>6, <1>7, <1>9, WorkGoesOn

\* What a request does before it has asked for anything is its own affair.
LEMMA UnderWayWork ==
    ASSUME GhInv, NEW r \in GhRequest, ghWork[r].at \notin {"idle", "done", "failed"}
    PROVE  /\ UnderWay(r) /\ ghWork[r] \in GhWorks /\ ~HasLinked(r)
           /\ ghWork[r].since <= issue /\ ghWork[r].state <= issue /\ issue \in 0..MaxIssue
           /\ ghWork[r].verb = "link" => ghWork[r].link = r /\ ghWork[r].at # "board"
           /\ ghWork[r].verb = "resync" => Resyncs(r) /\ HasLinked(ghWork[r].link)
           /\ ghWork[r].verb = "resync" /\ ghWork[r].at \in {"board", "write"} => ghWork[r].state >= ghWork[r].since
<1>1. ghWork[r] \in GhWorks
  BY WorkIsRecord DEF GhInv
<1>2. ghWork[r].verb = "resync" => Resyncs(r) /\ ghWork[r].link \in GhRequest
  BY <1>1 DEF Resyncs, GhWorks
<1>3. ghWork[r].verb = "resync" => HasLinked(ghWork[r].link)
  BY <1>2 DEF GhInv, MadeOnce
<1>4. issue \in 0..MaxIssue
  BY DEF GhInv, GhTypes, GhTypeOK
<1> QED BY <1>1, <1>2, <1>3, <1>4 DEF GhInv, AnswersHeld, UnderWay, HasLinked

\* LinkIssue reads the board of the card.
LEMMA BeginLinkStands == ASSUME GhInv, NEW r \in GhRequest, BeginLink(r) PROVE GhInv'
<1>1. PICK w : w = [at |-> "ask", link |-> r, verb |-> "link", board |-> cardOn, state |-> Unsynced, since |-> issue]
  OBVIOUS
<1>2. issue \in 0..MaxIssue /\ cardOn \in GhBoard \cup {NoBoard} /\ ghWork[r] = NoGhWork
  BY DEF GhInv, GhTypes, GhTypeOK, BeginLink
<1>3. /\ w \in GhWorks /\ w.at = "ask" /\ w.verb = "link" /\ w.link = r
      /\ w.since <= issue /\ w.state <= issue
  BY <1>1, <1>2, GithubAssumption DEF GhWorks, Unsynced
<1>4. /\ ghWork' = [ghWork EXCEPT ![r] = w]
      /\ UNCHANGED <<issue, cardOn, links, told, cardMoves, movedLate, removed, overlapped>>
  BY <1>1 DEF BeginLink, Moves, ghTables, ghGhosts
<1>5. ~HasLinked(r)
  BY <1>2 DEF HasLinked, NoGhWork
<1>6. overlapped \subseteq overlapped' /\ UNCHANGED <<issue, cardOn, links, told, cardMoves, movedLate, removed>>
  BY <1>4
<1> QED BY <1>3, <1>4, <1>5, <1>6, WorkGoesOn

\* GitHub answers, or LinkIssue goes on with defaults.
LEMMA AskForLinkStands == ASSUME GhInv, NEW r \in GhRequest, AskForLink(r) PROVE GhInv'
<1>1. PICK answer \in {issue, Unsynced} : ghWork' = [ghWork EXCEPT ![r] = [ghWork[r] EXCEPT !.at = "write", !.state = answer]]
  BY DEF AskForLink, Moves
<1>2. /\ ghWork[r].at = "ask" /\ ghWork[r].verb = "link"
      /\ UNCHANGED <<issue, cardOn, links, told, cardMoves, movedLate, removed, overlapped>>
  BY DEF AskForLink, ghTables, ghGhosts
<1>3. ghWork[r] \in GhWorks /\ ~HasLinked(r) /\ ghWork[r].since <= issue /\ issue \in 0..MaxIssue /\ ghWork[r].link = r
  BY <1>2, UnderWayWork
<1>4. PICK w : w = [ghWork[r] EXCEPT !.at = "write", !.state = answer]
  OBVIOUS
<1>5. answer \in Unsynced..MaxIssue /\ answer <= issue
  BY <1>3, GithubAssumption DEF Unsynced
<1>6. /\ w \in GhWorks /\ w.at = "write" /\ w.verb = "link" /\ w.link = r
      /\ w.since <= issue /\ w.state <= issue
  BY <1>2, <1>3, <1>4, <1>5 DEF GhWorks
<1>7. ghWork' = [ghWork EXCEPT ![r] = w]
  BY <1>1, <1>4
<1>8. overlapped \subseteq overlapped' /\ UNCHANGED <<issue, cardOn, links, told, cardMoves, movedLate, removed>>
  BY <1>2
<1> QED BY <1>3, <1>6, <1>7, <1>8, WorkGoesOn

\* ResyncLink finds the link.
LEMMA BeginResyncStands == ASSUME GhInv, NEW r \in GhRequest, BeginResync(r) PROVE GhInv'
<1>1. PICK k \in GhRequest :
        /\ ghWork[r] = NoGhWork /\ links[k] # Unlinked
        /\ Moves(r, [at |-> "ask", link |-> k, verb |-> "resync", board |-> NoBoard, state |-> Unsynced,
                     since |-> issue])
        /\ overlapped' = IF OtherRequests(k, r) = {} THEN overlapped ELSE overlapped \cup OtherRequests(k, r) \cup {r}
        /\ UNCHANGED <<ghTables, movedLate, removed>>
  BY DEF BeginResync
<1>2. PICK w : w = [at |-> "ask", link |-> k, verb |-> "resync", board |-> NoBoard, state |-> Unsynced, since |-> issue]
  OBVIOUS
<1>3. issue \in 0..MaxIssue
  BY DEF GhInv, GhTypes, GhTypeOK
<1>4. /\ w \in GhWorks /\ w.at = "ask" /\ w.verb = "resync" /\ w.link = k /\ w.since = issue
      /\ w.since <= issue /\ w.state <= issue
  BY <1>2, <1>3, GithubAssumption DEF GhWorks, Unsynced
<1>5. ghWork' = [ghWork EXCEPT ![r] = w] /\ UNCHANGED <<issue, cardOn, links, told, cardMoves, movedLate, removed>>
  BY <1>1, <1>2 DEF Moves, ghTables
<1>6. HasLinked(w.link) /\ ~HasLinked(r)
  BY <1>1, <1>4 DEF GhInv, MadeOnce, HasLinked, NoGhWork
<1>7. /\ overlapped \subseteq overlapped' /\ OtherRequests(w.link, r) \subseteq overlapped'
      /\ (OtherRequests(w.link, r) # {} => r \in overlapped')
  BY <1>1, <1>4
<1> QED BY <1>4, <1>5, <1>6, <1>7, WorkGoesOn

\* GitHub answers the resync, or the request fails.
LEMMA AskForResyncStands == ASSUME GhInv, NEW r \in GhRequest, AskForResync(r) PROVE GhInv'
<1>1. ghWork[r].at = "ask" /\ ghWork[r].verb = "resync"
  BY DEF AskForResync
<1>2. /\ UnderWay(r) /\ ghWork[r] \in GhWorks /\ ~HasLinked(r) /\ ghWork[r].since <= issue /\ issue \in 0..MaxIssue
      /\ Resyncs(r) /\ HasLinked(ghWork[r].link)
  BY <1>1, UnderWayWork
<1>3. CASE LinkFails(r)
  BY <1>2, <1>3, LinkFailsStands
<1>4. CASE Moves(r, [ghWork[r] EXCEPT !.at = "board", !.state = issue]) /\ UNCHANGED <<ghTables, ghGhosts>>
  <2>1. PICK w : w = [ghWork[r] EXCEPT !.at = "board", !.state = issue]
    OBVIOUS
  <2>2. /\ w \in GhWorks /\ w.at = "board" /\ w.verb = "resync" /\ w.link = ghWork[r].link
        /\ w.since = ghWork[r].since /\ w.state = issue /\ w.state <= issue /\ w.since <= issue
    <3>1. issue \in Unsynced..MaxIssue
      BY <1>2, GithubAssumption DEF Unsynced
    <3>2. PICK u : u = [ghWork[r] EXCEPT !.at = "board"]
      OBVIOUS
    <3>3. u \in GhWorks /\ u.at = "board" /\ u.verb = "resync" /\ u.link = ghWork[r].link /\ u.since = ghWork[r].since
      BY <1>1, <1>2, <3>2 DEF GhWorks
    <3>4. w = [u EXCEPT !.state = issue]
      BY <2>1, <3>2, Zenon
    <3>5. /\ w \in GhWorks /\ w.at = "board" /\ w.verb = "resync" /\ w.link = ghWork[r].link
          /\ w.since = ghWork[r].since /\ w.state = issue
      BY <3>1, <3>3, <3>4 DEF GhWorks
    <3> QED BY <1>2, <3>5
  <2>3. w.state >= w.since
    BY <1>2, <2>2 DEF GhWorks
  <2>4. /\ ghWork' = [ghWork EXCEPT ![r] = w] /\ overlapped \subseteq overlapped'
        /\ UNCHANGED <<issue, cardOn, links, told, cardMoves, movedLate, removed>>
    BY <1>4, <2>1 DEF Moves, ghTables, ghGhosts
  <2> QED BY <1>2, <2>2, <2>3, <2>4, WorkGoesOn
<1> QED BY <1>3, <1>4 DEF AskForResync, ResyncAnswers

\* Then the board of the card is read, if the card is still there.
LEMMA BoardForResyncStands == ASSUME GhInv, NEW r \in GhRequest, BoardForResync(r) PROVE GhInv'
<1>1. ghWork[r].at = "board"
  BY DEF BoardForResync
<1>2. /\ UnderWay(r) /\ ghWork[r] \in GhWorks /\ ~HasLinked(r) /\ ghWork[r].since <= issue /\ ghWork[r].state <= issue
      /\ issue \in 0..MaxIssue /\ ghWork[r].verb # "link"
  BY <1>1, UnderWayWork
<1>3. ghWork[r].verb = "resync"
  BY <1>2 DEF GhWorks
<1>4. Resyncs(r) /\ HasLinked(ghWork[r].link) /\ ghWork[r].state >= ghWork[r].since
  BY <1>1, <1>3, UnderWayWork
<1>5. CASE LinkFails(r)
  BY <1>2, <1>5, LinkFailsStands
<1>6. CASE Moves(r, [ghWork[r] EXCEPT !.at = "write", !.board = cardOn]) /\ UNCHANGED <<ghTables, ghGhosts>>
  <2>1. PICK w : w = [ghWork[r] EXCEPT !.at = "write", !.board = cardOn]
    OBVIOUS
  <2>2. cardOn \in GhBoard \cup {NoBoard}
    BY DEF GhInv, GhTypes, GhTypeOK
  <2>3. /\ w \in GhWorks /\ w.at = "write" /\ w.verb = "resync" /\ w.link = ghWork[r].link /\ w.board = cardOn
        /\ w.since = ghWork[r].since /\ w.state = ghWork[r].state
    BY <1>2, <1>3, <2>1, <2>2 DEF GhWorks
  <2>4. /\ ghWork' = [ghWork EXCEPT ![r] = w] /\ overlapped \subseteq overlapped'
        /\ UNCHANGED <<issue, cardOn, links, told, cardMoves, movedLate, removed>>
    BY <1>6, <2>1 DEF Moves, ghTables, ghGhosts
  <2>5. w.since <= issue /\ w.state <= issue /\ w.state >= w.since
    BY <1>2, <1>4, <2>3
  <2> QED BY <1>2, <1>4, <2>3, <2>4, <2>5, WorkGoesOn
<1> QED BY <1>5, <1>6 DEF BoardForResync, BoardOfEvent

-----------------------------------------------------------------------------
\* The link is inserted under a name that nobody knew, while its card is there.
LEMMA InsertLinkStands == ASSUME GhInv, NEW r \in GhRequest, InsertLink(r) PROVE GhInv'
<1>1. ghWork[r].at = "write" /\ ghWork[r].verb = "link"
  BY DEF InsertLink
<1>2. /\ UnderWay(r) /\ ghWork[r] \in GhWorks /\ ~HasLinked(r) /\ ghWork[r].since <= issue /\ ghWork[r].state <= issue
      /\ ghWork[r].link = r
  BY <1>1, UnderWayWork
<1>3. CASE LinkFails(r)
  BY <1>2, <1>3, LinkFailsStands
<1>4. CASE /\ LinkedCard /\ links' = [links EXCEPT ![r] = ghWork[r].state]
           /\ Moves(r, [ghWork[r] EXCEPT !.at = "done"])
           /\ UNCHANGED <<issue, cardOn, told, cardMoves, ghGhosts>>
  <2>1. PICK w : w = [ghWork[r] EXCEPT !.at = "done"]
    OBVIOUS
  <2>2. /\ w \in GhWorks /\ w.at = "done" /\ w.verb = "link" /\ w.link = r /\ w.state = ghWork[r].state /\ w.since = ghWork[r].since
        /\ w.state \in Unsynced..MaxIssue
    BY <1>1, <1>2, <2>1 DEF GhWorks
  <2>3. /\ ghWork' = [ghWork EXCEPT ![r] = w] /\ links' = [links EXCEPT ![r] = w.state] /\ cardOn # NoBoard
        /\ UNCHANGED <<issue, cardOn, told, cardMoves, overlapped, movedLate, removed>>
    BY <1>4, <2>1, <2>2 DEF Moves, ghGhosts, LinkedCard
  <2>4. ghWork \in [GhRequest -> {NoGhWork} \cup GhWorks] /\ links \in [GhRequest -> Unlinked..MaxIssue]
    BY DEF GhInv, GhTypes, GhTypeOK
  <2>5. /\ ghWork' \in [GhRequest -> {NoGhWork} \cup GhWorks] /\ ghWork'[r] = w
        /\ \A q \in GhRequest \ {r} : ghWork'[q] = ghWork[q]
        /\ links' \in [GhRequest -> Unlinked..MaxIssue] /\ links'[r] = w.state
        /\ \A q \in GhRequest \ {r} : links'[q] = links[q]
    BY <2>2, <2>3, <2>4, GithubAssumption DEF Unlinked, Unsynced
  <2>6. told[r] = NotTold /\ r \notin removed /\ \A q \in GhRequest : Resyncs(q) => ghWork[q].link # r
    BY <1>2 DEF GhInv, MadeOnce
  <2>7. \A q \in GhRequest : Resyncs(q)' => Resyncs(q) /\ q # r
    BY <2>2, <2>5 DEF Resyncs
  <2>8. GhTypes'
    BY <1>2, <2>2, <2>3, <2>5 DEF GhInv, GhTypes, GhTypeOK
  <2>9. AnswersHeld'
    BY <1>2, <2>2, <2>3, <2>5 DEF GhInv, AnswersHeld
  <2>10. MadeOnce'
    <3>1. \A k \in GhRequest : ~HasLinked(k)' => ~HasLinked(k) /\ k # r
      BY <2>2, <2>5 DEF HasLinked
    <3> QED BY <2>3, <2>5, <2>7, <3>1 DEF GhInv, MadeOnce
  <2>11. ResyncsApart'
    BY <2>3, <2>5, <2>7 DEF GhInv, ResyncsApart, UnderWay
  <2>12. BoardRead'
    BY <2>3, <2>5, <2>6, <2>7 DEF GhInv, BoardRead, GhTypes, GhWorks, Resyncs
  <2>13. ResyncIsFresh'
    <3> SUFFICES ASSUME NEW q \in GhRequest, ghWork'[q].at = "done", ghWork'[q].verb = "resync", q \notin overlapped',
                        links'[ghWork'[q].link] # Unlinked
                 PROVE  links'[ghWork'[q].link] >= ghWork'[q].since
      BY Zenon DEF ResyncIsFresh
    <3>1. q # r /\ ghWork'[q] = ghWork[q] /\ Resyncs(q) /\ ghWork[q] \in GhWorks
      BY <2>2, <2>5, WorkIsRecord DEF Resyncs, GhInv
    <3>2. ghWork[q].link # r /\ ghWork[q].link \in GhRequest
      BY <2>6, <3>1 DEF GhWorks
    <3> QED BY <2>3, <2>5, <3>1, <3>2 DEF GhInv, ResyncIsFresh
  <2>14. NewsIsTheRow' /\ UnlinkIsFinal'
    BY <2>3, <2>5, <2>6 DEF GhInv, NewsIsTheRow, UnlinkIsFinal
  <2> QED BY <2>8, <2>9, <2>10, <2>11, <2>12, <2>13, <2>14 DEF GhInv
<1> QED BY <1>3, <1>4 DEF InsertLink

\* The row is written if it is there, and its event with it.
LEMMA RefreshLinkStands == ASSUME GhInv, NEW r \in GhRequest, RefreshLink(r) PROVE GhInv'
<1>1. ghWork[r].at = "write" /\ ghWork[r].verb = "resync"
  BY DEF RefreshLink
<1>2. /\ UnderWay(r) /\ ghWork[r] \in GhWorks /\ ~HasLinked(r) /\ ghWork[r].since <= issue /\ ghWork[r].state <= issue
      /\ Resyncs(r) /\ HasLinked(ghWork[r].link) /\ ghWork[r].state >= ghWork[r].since
  BY <1>1, UnderWayWork
<1>3. CASE LinkFails(r)
  BY <1>2, <1>3, LinkFailsStands
<1>4. PICK k : k = ghWork[r].link
  OBVIOUS
<1>5. CASE /\ links[k] # Unlinked /\ links' = [links EXCEPT ![k] = ghWork[r].state]
           /\ told' = [told EXCEPT ![k] = News(r)]
           /\ Moves(r, [ghWork[r] EXCEPT !.at = "done"])
           /\ UNCHANGED <<issue, cardOn, cardMoves, ghGhosts>>
  <2>1. PICK w : w = [ghWork[r] EXCEPT !.at = "done"]
    OBVIOUS
  <2>2. /\ w \in GhWorks /\ w.at = "done" /\ w.verb = "resync" /\ w.link = k /\ w.state = ghWork[r].state /\ w.since = ghWork[r].since
        /\ w.state \in Unsynced..MaxIssue /\ k \in GhRequest /\ w.since \in 0..MaxIssue
    BY <1>1, <1>2, <1>4, <2>1 DEF GhWorks
  <2>3. /\ ghWork' = [ghWork EXCEPT ![r] = w] /\ links' = [links EXCEPT ![k] = w.state] /\ told' = [told EXCEPT ![k] = News(r)]
        /\ UNCHANGED <<issue, cardOn, cardMoves, overlapped, movedLate, removed>>
    BY <1>5, <2>1, <2>2 DEF Moves, ghGhosts
  <2>4. /\ ghWork \in [GhRequest -> {NoGhWork} \cup GhWorks] /\ links \in [GhRequest -> Unlinked..MaxIssue]
        /\ told \in [GhRequest -> [board : GhBoard \cup {NoBoard}, state : Unsynced..MaxIssue]]
    BY DEF GhInv, GhTypes, GhTypeOK
  <2>5. News(r).state = w.state /\ News(r) \in [board : GhBoard \cup {NoBoard}, state : Unsynced..MaxIssue]
    BY <1>2, <2>2 DEF News, GhWorks
  <2>6. /\ ghWork' \in [GhRequest -> {NoGhWork} \cup GhWorks] /\ ghWork'[r] = w
        /\ \A q \in GhRequest \ {r} : ghWork'[q] = ghWork[q]
    BY <2>2, <2>3, <2>4
  <2>7. /\ links' \in [GhRequest -> Unlinked..MaxIssue] /\ links'[k] = w.state
        /\ \A q \in GhRequest \ {k} : links'[q] = links[q]
    BY <2>2, <2>3, <2>4, GithubAssumption DEF Unlinked, Unsynced
  <2>8. /\ told' \in [GhRequest -> [board : GhBoard \cup {NoBoard}, state : Unsynced..MaxIssue]]
        /\ told'[k].state = w.state /\ \A q \in GhRequest \ {k} : told'[q] = told[q]
    BY <2>2, <2>3, <2>4, <2>5
  <2>9. \A q \in GhRequest : Resyncs(q)' => Resyncs(q) /\ ghWork'[q].link = ghWork[q].link /\ ghWork'[q].since = ghWork[q].since
    BY <1>2, <1>4, <2>2, <2>6 DEF Resyncs
  <2>10. \A q \in GhRequest : HasLinked(q)' <=> HasLinked(q)
    BY <1>2, <2>2, <2>6 DEF HasLinked
  <2>11. k \notin removed /\ HasLinked(k) /\ cardOn # NoBoard
    BY <1>2, <1>4, <1>5, <2>2 DEF GhInv, UnlinkIsFinal, GhTypes, GhTypeOK
  <2>12. GhTypes'
    BY <1>2, <2>2, <2>3, <2>6, <2>7, <2>8, <2>11 DEF GhInv, GhTypes, GhTypeOK
  <2>13. AnswersHeld'
    BY <1>2, <2>2, <2>3, <2>6 DEF GhInv, AnswersHeld
  <2>14. MadeOnce'
    BY <2>3, <2>7, <2>8, <2>9, <2>10, <2>11 DEF GhInv, MadeOnce
  <2>15. ResyncsApart'
    <3> SUFFICES ASSUME NEW p \in GhRequest, NEW q \in GhRequest, p # q, Resyncs(p)', Resyncs(q)',
                        ghWork'[p].link = ghWork'[q].link, UnderWay(p)'
                 PROVE  /\ UnderWay(q)' => p \in overlapped' /\ q \in overlapped'
                        /\ ghWork'[q].at = "done" /\ q \notin overlapped' => ghWork'[p].since >= ghWork'[q].since
      BY DEF ResyncsApart
    <3>1. p # r /\ UnderWay(p) /\ ghWork'[p] = ghWork[p]
      BY <2>2, <2>6 DEF UnderWay
    <3>2. CASE q # r
      BY <2>3, <2>6, <2>9, <3>1, <3>2 DEF GhInv, ResyncsApart, UnderWay
    <3>3. CASE q = r
      <4>1. ~UnderWay(q)'
        BY <2>2, <2>6, <3>3 DEF UnderWay
      <4>2. q \in overlapped
        BY <1>2, <2>9, <3>1, <3>3 DEF GhInv, ResyncsApart
      <4> QED BY <2>3, <4>1, <4>2
    <3> QED BY <3>2, <3>3
  <2>16. BoardRead'
    <3> SUFFICES ASSUME NEW q \in GhRequest, Resyncs(q)', ghWork'[q].at = "write", links'[ghWork'[q].link] # Unlinked
                 PROVE  ghWork'[q].board = cardOn' \/ q \in movedLate'
      BY Zenon DEF BoardRead
    <3>1. q # r /\ ghWork'[q] = ghWork[q] /\ Resyncs(q) /\ ghWork[q] \in GhWorks
      BY <2>2, <2>6, <2>9, WorkIsRecord DEF Resyncs, GhInv
    <3>2. links[ghWork[q].link] # Unlinked
      BY <1>5, <2>7, <3>1 DEF GhWorks
    <3> QED BY <2>3, <3>1, <3>2 DEF GhInv, BoardRead
  <2>17. ResyncIsFresh'
    <3> SUFFICES ASSUME NEW q \in GhRequest, ghWork'[q].at = "done", ghWork'[q].verb = "resync", q \notin overlapped',
                        links'[ghWork'[q].link] # Unlinked
                 PROVE  links'[ghWork'[q].link] >= ghWork'[q].since
      BY Zenon DEF ResyncIsFresh
    <3>1. CASE q = r
      BY <1>2, <2>2, <2>6, <2>7, <3>1
    <3>2. CASE q # r
      <4>1. ghWork'[q] = ghWork[q] /\ Resyncs(q) /\ ghWork[q] \in GhWorks
        BY <2>6, <3>2, WorkIsRecord DEF Resyncs, GhInv
      <4>2. CASE ghWork[q].link = k
        <5>1. ghWork[r].since >= ghWork[q].since
          BY <1>2, <1>4, <2>3, <3>2, <4>1, <4>2 DEF GhInv, ResyncsApart
        <5>2. ghWork[q].since \in 0..MaxIssue
          BY <4>1 DEF GhWorks
        <5> QED BY <1>2, <2>2, <2>7, <4>1, <4>2, <5>1, <5>2 DEF Unsynced
      <4>3. CASE ghWork[q].link # k
        <5>1. ghWork[q].link \in GhRequest
          BY <4>1 DEF GhWorks
        <5> QED BY <2>3, <2>7, <4>1, <4>3, <5>1 DEF GhInv, ResyncIsFresh
      <4> QED BY <4>2, <4>3
    <3> QED BY <3>1, <3>2
  <2>18. NewsIsTheRow'
    BY <2>7, <2>8 DEF GhInv, NewsIsTheRow
  <2>19. UnlinkIsFinal'
    BY <2>3, <2>7, <2>11 DEF GhInv, UnlinkIsFinal
  <2> QED BY <2>12, <2>13, <2>14, <2>15, <2>16, <2>17, <2>18, <2>19 DEF GhInv
<1> QED BY <1>3, <1>4, <1>5 DEF RefreshLink, Refreshable

\* A link is removed, and nothing is told of it.
LEMMA UnlinkIssueStands == ASSUME GhInv, NEW k \in GhRequest, UnlinkIssue(k) PROVE GhInv'
<1>1. /\ links[k] # Unlinked /\ links' = [links EXCEPT ![k] = Unlinked] /\ removed' = removed \cup {k}
      /\ UNCHANGED <<issue, cardOn, told, cardMoves, ghWork, overlapped, movedLate>>
  BY DEF UnlinkIssue
<1>2. links \in [GhRequest -> Unlinked..MaxIssue] /\ HasLinked(k)
  BY <1>1 DEF GhInv, GhTypes, GhTypeOK, MadeOnce
<1>3. /\ links' \in [GhRequest -> Unlinked..MaxIssue] /\ links'[k] = Unlinked
      /\ \A q \in GhRequest \ {k} : links'[q] = links[q]
  BY <1>1, <1>2, GithubAssumption DEF Unlinked
<1>4. \A q \in GhRequest : ghWork[q].at # "idle" => ghWork[q].link \in GhRequest
  BY WorkIsRecord DEF GhInv, GhWorks
<1>5. GhTypes'
  BY <1>1, <1>3 DEF GhInv, GhTypes, GhTypeOK
<1>6. AnswersHeld' /\ ResyncsApart'
  BY <1>1 DEF GhInv, AnswersHeld, ResyncsApart, Resyncs, UnderWay
<1>7. MadeOnce'
  BY <1>1, <1>2, <1>3 DEF GhInv, MadeOnce, Resyncs, HasLinked
<1>8. BoardRead' /\ ResyncIsFresh'
  BY <1>1, <1>3, <1>4 DEF GhInv, BoardRead, ResyncIsFresh, Resyncs
<1>9. NewsIsTheRow' /\ UnlinkIsFinal'
  BY <1>1, <1>3 DEF GhInv, NewsIsTheRow, UnlinkIsFinal
<1> QED BY <1>5, <1>6, <1>7, <1>8, <1>9 DEF GhInv

\* The issue changes at GitHub.
LEMMA IssueChangesStands == ASSUME GhInv, IssueChanges PROVE GhInv'
<1>1. issue' = issue + 1 /\ issue' \in 0..MaxIssue /\ issue \in 0..MaxIssue
      /\ UNCHANGED <<cardOn, links, told, cardMoves, ghWork, overlapped, movedLate, removed>>
  BY GithubAssumption DEF GhInv, GhTypes, GhTypeOK, IssueChanges, ghGhosts
<1>2. links \in [GhRequest -> Unlinked..MaxIssue] /\ \A q \in GhRequest : ghWork[q].at # "idle" => ghWork[q] \in GhWorks
  BY WorkIsRecord DEF GhInv, GhTypes, GhTypeOK
<1>3. GhTypes'
  BY <1>1, <1>2, GithubAssumption DEF GhInv, GhTypes, GhTypeOK, Unlinked
<1>4. AnswersHeld'
  BY <1>1, <1>2, GithubAssumption DEF GhInv, AnswersHeld, GhWorks, Unsynced
<1>5. MadeOnce' /\ ResyncsApart' /\ BoardRead'
  BY <1>1 DEF GhInv, MadeOnce, ResyncsApart, BoardRead, Resyncs, UnderWay, HasLinked
<1>6. ResyncIsFresh' /\ NewsIsTheRow' /\ UnlinkIsFinal'
  BY <1>1 DEF GhInv, ResyncIsFresh, NewsIsTheRow, UnlinkIsFinal
<1> QED BY <1>3, <1>4, <1>5, <1>6 DEF GhInv

\* The card moves to another board: whoever has read its board is marked.
LEMMA CardMovesAwayStands == ASSUME GhInv, CardMovesAway PROVE GhInv'
<1>1. PICK b \in GhBoard :
        /\ cardOn # NoBoard /\ cardOn' = b /\ movedLate' = movedLate \cup {r \in GhRequest : ghWork[r].at = "write"}
        /\ UNCHANGED <<issue, links, told, ghWork, overlapped, removed>>
  BY DEF CardMovesAway
<1>2. b # NoBoard
  BY GithubAssumption
<1>3. GhTypes'
  BY <1>1, <1>2 DEF GhInv, GhTypes, GhTypeOK
<1>4. AnswersHeld' /\ MadeOnce' /\ ResyncsApart'
  BY <1>1 DEF GhInv, AnswersHeld, MadeOnce, ResyncsApart, Resyncs, UnderWay, HasLinked
<1>5. BoardRead'
  BY <1>1 DEF BoardRead, Resyncs
<1>6. ResyncIsFresh' /\ NewsIsTheRow' /\ UnlinkIsFinal'
  BY <1>1 DEF GhInv, ResyncIsFresh, NewsIsTheRow, UnlinkIsFinal
<1> QED BY <1>3, <1>4, <1>5, <1>6 DEF GhInv

\* A card that has no link is deleted.
LEMMA CardDeletedNowStands == ASSUME GhInv, CardDeletedNow PROVE GhInv'
<1>1. /\ \A k \in GhRequest : links[k] = Unlinked
      /\ cardOn' = NoBoard /\ UNCHANGED <<issue, links, told, cardMoves, ghWork, overlapped, movedLate, removed>>
  BY DEF CardDeletedNow, Deletable, ghGhosts
<1>2. GhTypes'
  BY <1>1 DEF GhInv, GhTypes, GhTypeOK
<1>3. AnswersHeld' /\ MadeOnce' /\ ResyncsApart'
  BY <1>1 DEF GhInv, AnswersHeld, MadeOnce, ResyncsApart, Resyncs, UnderWay, HasLinked
<1>4. \A q \in GhRequest : ghWork[q].at # "idle" => ghWork[q].link \in GhRequest
  BY WorkIsRecord DEF GhInv, GhWorks
<1>5. BoardRead'
  BY <1>1, <1>4 DEF BoardRead, Resyncs
<1>6. ResyncIsFresh' /\ NewsIsTheRow' /\ UnlinkIsFinal'
  BY <1>1 DEF GhInv, ResyncIsFresh, NewsIsTheRow, UnlinkIsFinal
<1> QED BY <1>2, <1>3, <1>5, <1>6 DEF GhInv

\* No step on the links disturbs GhInv.
LEMMA GhInductive == GhInv /\ [GhNext]_ghVars => GhInv'
<1> SUFFICES ASSUME GhInv, [GhNext]_ghVars PROVE GhInv'
  OBVIOUS
<1>1. CASE UNCHANGED ghVars
  <2>1. UNCHANGED <<issue, cardOn, links, told, ghWork, overlapped, movedLate, removed>>
    BY <1>1 DEF ghVars, ghTables, ghGhosts
  <2>2. GhTypes' /\ AnswersHeld' /\ MadeOnce' /\ ResyncsApart'
    BY <2>1 DEF GhInv, GhTypes, GhTypeOK, AnswersHeld, MadeOnce, ResyncsApart, Resyncs, UnderWay, HasLinked
  <2>3. BoardRead' /\ ResyncIsFresh' /\ NewsIsTheRow' /\ UnlinkIsFinal'
    BY <2>1 DEF GhInv, BoardRead, Resyncs, ResyncIsFresh, NewsIsTheRow, UnlinkIsFinal
  <2> QED BY <2>2, <2>3 DEF GhInv
<1> QED BY <1>1, BeginLinkStands, AskForLinkStands, InsertLinkStands, BeginResyncStands, AskForResyncStands,
           BoardForResyncStands, RefreshLinkStands, UnlinkIssueStands, IssueChangesStands, CardMovesAwayStands,
           CardDeletedNowStands DEF GhNext

\* What links and the requests about them always satisfy.
LEMMA GhInvariant == GhSpec => []GhInv
BY InitGhInv, GhInductive, PTL DEF GhSpec

\* A link is as new as its last resync, its watchers hear of it where the card is, and one
\* that was removed does not come back (services/github.rs).
THEOREM LinksFresh == GhSpec => LinksAreFresh
<1>1. GhInv => ResyncIsFresh /\ NewsIsTheRow /\ UnlinkIsFinal
  BY DEF GhInv
<1>2. GhInv /\ [GhNext]_ghVars =>
        [\A r \in GhRequest :
           (ghWork[r].at = "write" /\ ghWork[r].verb = "resync" /\ ghWork'[r].at = "done") =>
              (told'[ghWork[r].link].board = cardOn \/ r \in movedLate)]_ghVars
  <2> SUFFICES ASSUME GhInv, GhNext, NEW r \in GhRequest,
                      ghWork[r].at = "write", ghWork[r].verb = "resync", ghWork'[r].at = "done"
               PROVE  told'[ghWork[r].link].board = cardOn \/ r \in movedLate
    BY Zenon
  <2>1. ghWork[r] \in GhWorks /\ Resyncs(r) /\ ghWork \in [GhRequest -> {NoGhWork} \cup GhWorks]
        /\ told \in [GhRequest -> [board : GhBoard \cup {NoBoard}, state : Unsynced..MaxIssue]]
    BY WorkIsRecord DEF GhInv, GhTypes, Resyncs
  <2>3. \A q \in GhRequest : ~LinkFails(q)
    <3> SUFFICES ASSUME NEW q \in GhRequest, LinkFails(q) PROVE FALSE
      OBVIOUS
    <3>1. q # r => ghWork'[r] = ghWork[r]
      BY <2>1 DEF LinkFails, Moves
    <3>2. q = r => ghWork'[r].at = "failed"
      BY <2>1 DEF LinkFails, Moves, GhWorks
    <3> QED BY <3>1, <3>2
  <2>4. ASSUME NEW q \in GhRequest, RefreshLink(q)
        PROVE  told'[ghWork[r].link].board = cardOn \/ r \in movedLate
    <3>1. /\ links[ghWork[q].link] # Unlinked /\ told' = [told EXCEPT ![ghWork[q].link] = News(q)]
          /\ Moves(q, [ghWork[q] EXCEPT !.at = "done"])
      BY <2>3, <2>4, Zenon DEF RefreshLink, Refreshable
    <3>2. q = r
      BY <2>1, <3>1 DEF Moves
    <3>3. ghWork[r].link \in GhRequest
      BY <2>1 DEF GhWorks
    <3>4. told'[ghWork[r].link].board = ghWork[r].board
      BY <2>1, <3>1, <3>2, <3>3 DEF News
    <3> QED BY <2>1, <3>1, <3>2, <3>4 DEF GhInv, BoardRead
  <2>5. \A q \in GhRequest : ~(BeginLink(q) \/ AskForLink(q) \/ BeginResync(q) \/ AskForResync(q) \/ BoardForResync(q))
    <3> SUFFICES ASSUME NEW q \in GhRequest,
                        BeginLink(q) \/ AskForLink(q) \/ BeginResync(q) \/ AskForResync(q) \/ BoardForResync(q)
                 PROVE  FALSE
      OBVIOUS
    <3>1. q # r
      <4>1. ghWork[q].at \in {"idle", "ask", "board"}
        <5>1. BeginLink(q) \/ BeginResync(q) => ghWork[q].at = "idle"
          <6>1. BeginLink(q) \/ BeginResync(q) => ghWork[q] = NoGhWork
            BY Zenon DEF BeginLink, BeginResync
          <6> QED BY <6>1 DEF NoGhWork
        <5>2. AskForLink(q) \/ AskForResync(q) => ghWork[q].at = "ask"
          BY DEF AskForLink, AskForResync
        <5>3. BoardForResync(q) => ghWork[q].at = "board"
          BY DEF BoardForResync
        <5> QED BY <5>1, <5>2, <5>3
      <4> QED BY <4>1
    <3>2. PICK w : ghWork' = [ghWork EXCEPT ![q] = w]
      BY <2>3 DEF BeginLink, AskForLink, BeginResync, AskForResync, BoardForResync, Moves
    <3> QED BY <2>1, <3>1, <3>2
  <2>6. \A q \in GhRequest : ~InsertLink(q)
    <3> SUFFICES ASSUME NEW q \in GhRequest, InsertLink(q) PROVE FALSE
      OBVIOUS
    <3>1. q # r /\ Moves(q, [ghWork[q] EXCEPT !.at = "done"])
      BY <2>3 DEF InsertLink
    <3> QED BY <2>1, <3>1 DEF Moves
  <2>7. ~(IssueChanges \/ CardMovesAway \/ CardDeletedNow \/ \E q \in GhRequest : UnlinkIssue(q))
    BY DEF IssueChanges, CardMovesAway, CardDeletedNow, UnlinkIssue
  <2> QED BY <2>4, <2>5, <2>6, <2>7 DEF GhNext
<1> QED BY InitGhInv, GhInductive, <1>1, <1>2, PTL DEF GhSpec, LinksAreFresh, RefreshToldAtHome

-----------------------------------------------------------------------------
(* The types that the runs check: what the invariants above leave out.     *)

\* A request that takes back a role read one that is not the one it grants, and whoever
\* is cleared is a member.
StaleIsAnother ==
    /\ keyStored \in BOOLEAN /\ cleared \subseteq Member
    /\ \A r \in MemRequest : memStep[r] = "ungrant" =>
          memAsk[r].kind = "add" /\ memRead[r] \in AnyRole \ {memAsk[r].role}

\* Only AddMember reads a role, and only one that the mirror shows and that is another.
LEMMA StaleStaysAnother ==
    ASSUME MemInv, StaleIsAnother, [MembersNext]_memVars PROVE StaleIsAnother'
<1>1. CASE UNCHANGED memVars
  BY <1>1 DEF memVars, memTables, StaleIsAnother
<1>2. ASSUME NEW r \in MemRequest, MembersHandle(r) PROVE StaleIsAnother'
  <2>1. keyStored' \in BOOLEAN
    BY <1>2 DEF MembersHandle, ReplayCreate, CreateRefused, InsertProject, GrantOwner, GrantOwnerFails, MirrorOwner,
                StoreKey, ReadRole, UngrantStale, GrantRole, GrantRoleFails, MirrorRole, AnnounceRole, RevokeMember,
                DeleteRow, AnnounceRemoval, DeleteProject, MemberCrash, memTables, StaleIsAnother
  <2>2. CASE MemStepOn(r)
    <3>1. /\ memAsk' = memAsk /\ cleared' = cleared
          /\ \A q \in MemRequest \ {r} : memStep'[q] = memStep[q] /\ memRead'[q] = memRead[q]
      BY <2>2, MemGoesOn
    <3>2. memStep'[r] # "ungrant"
      BY <2>2 DEF MemStepOn, GrantOwner, GrantOwnerFails, MirrorOwner, StoreKey, UngrantStale, GrantRole, GrantRoleFails,
                  MirrorRole, AnnounceRole, DeleteRow, AnnounceRemoval, MemberCrash, Leaves, Then, MemInv, MemShapes
    <3> QED BY <2>1, <3>1, <3>2 DEF StaleIsAnother
  <2>3. CASE MemArrival(r)
    <3>1. /\ memAsk' \in [MemRequest -> MemAsk]
          /\ \A q \in MemRequest \ {r} :
                memStep'[q] = memStep[q] /\ memAsk'[q] = memAsk[q] /\ memRead'[q] = memRead[q]
          /\ cleared' = IF memAsk'[r].kind = "remove" /\ NoneUnderWay THEN cleared \cup {memAsk'[r].member}
                        ELSE cleared \ {memAsk'[r].member}
      BY <2>3, MemArrives
    <3>2. cleared' \subseteq Member
      <4>1. memAsk'[r].member \in Member
        BY <3>1 DEF MemAsk
      <4> QED BY <3>1, <4>1 DEF StaleIsAnother
    <3>3. memStep'[r] = "ungrant" => memAsk'[r].kind = "add" /\ memRead'[r] \in AnyRole \ {memAsk'[r].role}
      <4>1. CASE ReadRole(r)
        <5>1. PICK m \in Member, x \in Role :
                /\ memAsk' = [memAsk EXCEPT ![r] = [kind |-> "add", member |-> m, role |-> x]]
                /\ memRead' = [memRead EXCEPT ![r] = mirror[m]]
                /\ memStep' = [memStep EXCEPT ![r] = IF IsStale(mirror[m], x) THEN "ungrant" ELSE "grant"]
          BY <4>1, Zenon DEF ReadRole, Then, Arrives
        <5>2. /\ memAsk'[r] = [kind |-> "add", member |-> m, role |-> x] /\ memRead'[r] = mirror[m]
              /\ memStep'[r] = "ungrant" => IsStale(mirror[m], x)
          BY <5>1 DEF MemInv, MemShapes
        <5>3. mirror[m] \in AnyRole \cup {"none"}
          BY DEF MemInv, MemShapes
        <5> QED BY <5>2, <5>3 DEF IsStale
      <4>2. CASE ReplayCreate(r) \/ CreateRefused(r) \/ InsertProject(r) \/ RevokeMember(r) \/ DeleteProject(r)
        <5>1. PICK x \in {"grant", "mirror", "done"} : memStep' = [memStep EXCEPT ![r] = x]
          BY <4>2 DEF ReplayCreate, CreateRefused, InsertProject, RevokeMember, DeleteProject, Leaves, Then
        <5> QED BY <5>1 DEF MemInv, MemShapes
      <4> QED BY <2>3, <4>1, <4>2 DEF MemArrival
    <3> QED BY <2>1, <3>1, <3>2, <3>3 DEF StaleIsAnother
  <2> QED BY <1>2, <2>2, <2>3, MemHandles
<1> QED BY <1>1, <1>2 DEF MembersNext

\* Rows, tuples, events and requests about members are of their types.
LEMMA MemTypesHold == MembersSpec => []MembersTypeOK
<1>1. MembersInit => StaleIsAnother
  BY DEF MembersInit, StaleIsAnother
<1>2. MemInv /\ StaleIsAnother /\ [MembersNext]_memVars => StaleIsAnother'
  BY StaleStaysAnother
<1>3. MemInv /\ StaleIsAnother => MembersTypeOK
  BY DEF MemInv, MemShapes, StaleIsAnother, MembersTypeOK
<1> QED BY <1>1, <1>2, <1>3, MemInvariant, PTL DEF MembersSpec

-----------------------------------------------------------------------------
\* What a project has to choose from, and what is read of it, is of its type.
LEMMA CatTypesHold == CatSpec => []CatTypeOK
<1>1. CatInv /\ Filings => CatTypeOK
  BY DEF CatInv, CatTypes, AskSteps, Filings, CatTypeOK
<1> QED BY <1>1, CatInvariant, FilingsInvariant, PTL

-----------------------------------------------------------------------------
\* A request lists each board once, and a board that was deleted has no row.
ListedOnce == \A r \in SourceRequest : IsInjective(srcOrder[r])
SourcesLive == ListedOnce /\ deleted \cap Present = {}

\* An order read again within the transaction is one of the rows.
LEMMA ReadsListOnce ==
    ASSUME SrcInv, SourcesLive, NEW r \in SourceRequest, NEW a, RightAsk(a), Reads(r, a)
    PROVE  SourcesLive'
<1>1. PICK s \in NewOrders(a) : srcOrder' = [srcOrder EXCEPT ![r] = s] /\ UNCHANGED <<place, deleted>>
  BY DEF Reads
<1>2. PlaceTypes
  BY DEF SrcInv, SrcTypes, PlaceTypes
<1>3. IsInjective(s)
  BY <1>2, OrderIsWhole DEF Lists
<1>4. \A q \in SourceRequest : srcOrder'[q] = s \/ srcOrder'[q] = srcOrder[q]
  BY <1>1 DEF SrcInv, SrcTypes
<1> QED BY <1>1, <1>3, <1>4 DEF SourcesLive, ListedOnce, Present, IsInjective

\* A row comes only for a board that is there (the foreign key), and goes with it.
LEMMA SourcesStayLive ==
    ASSUME SrcInv, SourcesLive, [SourcesNext]_srcVars PROVE SourcesLive'
<1>1. CASE UNCHANGED srcVars
  BY <1>1 DEF srcVars, SourcesLive, ListedOnce, Present
<1>2. ASSUME NEW r \in SourceRequest, CountRows(r) PROVE SourcesLive'
  BY <1>2 DEF CountRows, SourcesLive, ListedOnce, Present
<1>3. ASSUME NEW r \in SourceRequest, ReadAfterCount(r) PROVE SourcesLive'
  <2>1. RightAsk(srcAsk[r]) /\ Reads(r, srcAsk[r])
    BY <1>3 DEF ReadAfterCount, SrcInv, SrcTypes, SrcUnderWay, RightAsk
  <2> QED BY <2>1, ReadsListOnce
<1>4. ASSUME NEW r \in SourceRequest, StartReading(r) PROVE SourcesLive'
  <2>1. PICK a \in [kind : {"add"}, board : SourceBoard \ deleted, at : 1..MaxSourcePos]
                     \cup [kind : {"remove"}, board : Present, at : {Nowhere}]
                     \cup [kind : {"move"}, board : Present, at : Nowhere..MaxSourcePos] :
            Reads(r, a)
    BY <1>4 DEF StartReading
  <2>2. RightAsk(a)
    BY <2>1, SourcesAssumption DEF RightAsk, Present, Nowhere
  <2> QED BY <2>1, <2>2, ReadsListOnce
<1>5. ASSUME NEW r \in SourceRequest, srcOrder' = [srcOrder EXCEPT ![r] = << >>] PROVE ListedOnce'
  <2>1. \A q \in SourceRequest : srcOrder'[q] = << >> \/ srcOrder'[q] = srcOrder[q]
    BY <1>5 DEF SrcInv, SrcTypes
  <2>2. IsInjective(<< >>)
    BY DEF IsInjective
  <2> QED BY <2>1, <2>2 DEF SourcesLive, ListedOnce
<1>6. ASSUME NEW r \in SourceRequest, Apply(r) PROVE SourcesLive'
  <2>1. PICK a : a = srcAsk[r] /\ a \in SrcAsks
    BY DEF SrcInv, SrcTypes
  <2>2. /\ srcStep[r] = "read" /\ srcOrder' = [srcOrder EXCEPT ![r] = << >>] /\ deleted' = deleted
        /\ a.kind \in {"add", "append"} => a.board \notin deleted
        /\ place' = Renumbered(r, Rows(a))
    BY <1>6, <2>1 DEF Apply
  <2>3. a.kind \in {"add", "append", "remove", "move"} /\ a.board \in SourceBoard /\ (a.kind \in {"add", "append"} => a.at \in Nat)
    BY <2>1, <2>2 DEF SrcInv, SrcTypes, SrcUnderWay, SrcAsks
  <2>4. PICK rows : rows = Rows(a)
    OBVIOUS
  <2>5. Placed(rows) \subseteq Present \cup (IF a.kind \in {"add", "append"} THEN {a.board} ELSE {})
    <3>1. CASE a.kind \in {"add", "append"}
      <4>1. RightAsk(a) /\ PlaceTypes
        BY <2>3, <3>1 DEF RightAsk, SrcInv, SrcTypes, PlaceTypes
      <4> QED BY <2>4, <3>1, <4>1, RowsAre
    <3>2. CASE a.kind = "move"
      BY <2>4, <3>2 DEF Rows, Placed, Present
    <3>3. CASE a.kind = "remove"
      <4>1. rows = [place EXCEPT ![a.board] = Nowhere] /\ DOMAIN place = SourceBoard
        BY <2>4, <3>3 DEF Rows, SrcInv, SrcTypes
      <4> QED BY <4>1 DEF Placed, Present
    <3> QED BY <2>3, <3>1, <3>2, <3>3
  <2>6. \A b \in SourceBoard : place'[b] # Nowhere => rows[b] # Nowhere
    BY <2>2, <2>4 DEF Renumbered
  <2>7. Present' \subseteq Placed(rows)
    BY <2>6 DEF Present, Placed
  <2>8. deleted' \cap Present' = {}
    BY <2>2, <2>5, <2>7 DEF SourcesLive
  <2> QED BY <1>5, <2>2, <2>8 DEF SourcesLive
<1>7. ASSUME NEW r \in SourceRequest, GiveUp(r) PROVE SourcesLive'
  BY <1>5, <1>7 DEF GiveUp, SourcesLive, Present
<1>8. ASSUME NEW b \in SourceBoard, SourceDeleted(b) PROVE SourcesLive'
  <2>1. Present' = Present \ {b}
    BY <1>8 DEF SourceDeleted, Present, SrcInv, SrcTypes
  <2> QED BY <1>8, <2>1 DEF SourceDeleted, SourcesLive, ListedOnce
<1> QED BY <1>1, <1>2, <1>3, <1>4, <1>6, <1>7, <1>8 DEF SourcesNext

\* The sources of an aggregate, and the orders that requests read, are of their types.
LEMMA SrcTypesHold == SourcesSpec => []SourcesTypeOK
<1>1. SourcesInit => SourcesLive
  BY DEF SourcesInit, SourcesLive, ListedOnce, IsInjective
<1>2. SrcInv /\ SourcesLive /\ [SourcesNext]_srcVars => SourcesLive'
  BY SourcesStayLive
<1>3. SrcInv /\ SourcesLive => SourcesTypeOK
  <2> SUFFICES ASSUME SrcInv, SourcesLive PROVE SourcesTypeOK
    OBVIOUS
  <2>1. ASSUME NEW r \in SourceRequest PROVE ToSet(srcOrder[r]) \subseteq SourceBoard
    BY DEF SrcInv, SrcTypes, ToSet
  <2> QED BY <2>1 DEF SrcInv, SrcTypes, SourcesLive, ListedOnce, SourcesTypeOK
<1> QED BY <1>1, <1>2, <1>3, SrcInvariant, PTL DEF SourcesSpec
=============================================================================
