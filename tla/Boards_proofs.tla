---------------------------- MODULE Boards_proofs ----------------------------
(***************************************************************************)
(* Proofs about the boards: their settings, who sees them, and the cards   *)
(* on them.                                                                *)
(*                                                                         *)
(* UpdatesKept: a change is made by those who may, keeps what others wrote *)
(* to the fields it does not name, and is told, by SettingsInv: whoever is *)
(* at the write was granted manage during the request.                     *)
(*                                                                         *)
(* AnswersShowWhatIsOpen: an answer shows only boards that were open to    *)
(* its caller at some moment of the request, by VisInv: every step of a    *)
(* read lies between what was open at its start and what was since.        *)
(*                                                                         *)
(* CardsAreSeenFromHome: the parent tuples of a card follow its board, by  *)
(* TupInv: for each tuple that is missing or left over there is a request  *)
(* or a pass of the migration that still has to write it.                  *)
(*                                                                         *)
(* CardsFit: a card is on the board of its column and has its mark, by     *)
(* LayInv: what a request read of its columns is true when it writes.      *)
(* LayoutStands: and cards and columns stand at positions of their own, by *)
(* PosInv: while a request holds the lock of a project, no other places a  *)
(* card there, and the position it read as the last one still is.          *)
(*                                                                         *)
(* BoardsTypes: the types of the composition of all modules about boards   *)
(* and projects (MCBoards), by these invariants, those of Projects_proofs  *)
(* and CardsAreOfBoards: the cards of an answer are on boards that it      *)
(* shows.                                                                  *)
(***************************************************************************)
EXTENDS MCBoards, Projects_proofs, FiniteSetTheorems, SequenceTheorems, WellFoundedInduction, TLAPS

-----------------------------------------------------------------------------
(* Settings: labels, milestones, templates and boards, and who may change them.*)

SetValues == [Field -> SetRequest \cup {Initial}]

SetSteps == {"read", "check", "checkAny", "write", "done", "refused"}

SetWork == [at : SetSteps, who : SetSubject, verb : {"create", "update", "delete"}, fields : SUBSET Field,
            scope : SetObject \cup {Tenant}, left : SUBSET SetObject]

SetTypes ==
    /\ SetTypeOK
    /\ named \in SetValues /\ replayed \in SetValues
    /\ scope \in SetObject \cup {Tenant} /\ objects \subseteq SetObject
    /\ work \in [SetRequest -> {NoWork} \cup SetWork]
    /\ heldManage \in [SetRequest -> SUBSET SetObject]

IsOpen(r) == work[r] # NoWork /\ work[r].at \notin {"done", "refused"}

\* What the caller of an open request holds now it held during the request.
HeldNow == \A r \in SetRequest : IsOpen(r) => Holds(work[r].who) \subseteq heldManage[r]

MustManage(r) == setKind \in Listed \/ "visibility" \in work[r].fields

MayBeGlobal == setKind \in {"label"} \cup Templates

\* Nobody is at the write whose manage was not granted during the request.
WriteWasGranted ==
    \A r \in SetRequest :
        /\ work[r].at = "checkAny" => work[r].scope = Tenant
        /\ work[r] # NoWork /\ work[r].scope = Tenant => MayBeGlobal
        /\ work[r].at \in {"write", "done"} /\ MustManage(r) =>
              IF work[r].scope = Tenant THEN heldManage[r] # {} ELSE work[r].scope \in heldManage[r]

SettingsInv == SetTypes /\ HeldNow /\ WriteWasGranted /\ NoLostUpdate /\ EventsTellRow

-----------------------------------------------------------------------------
\* A row that is there has fields, NoRow has none.
LEMMA RowsHaveFields ==
    /\ NoRow \notin SetValues
    /\ Untouched \in SetValues
    /\ NoWork \notin SetWork
    /\ \A w \in SetWork : /\ w.at \in SetSteps /\ w.who \in SetSubject /\ w.fields \subseteq Field
                          /\ w.scope \in SetObject \cup {Tenant} /\ w.left \subseteq SetObject
<1>1. NoRow \notin SetValues
  <2>1. DOMAIN NoRow = {} /\ Field # {} /\ \A v \in SetValues : DOMAIN v = Field
    BY DEF NoRow, Field, SetValues
  <2> QED BY <2>1
<1>2. Untouched \in SetValues
  BY DEF Untouched, SetValues
<1>3. \A w \in SetWork : w # NoWork
  BY DEF SetWork, NoWork, SetSteps
<1>4. \A w \in SetWork : /\ w.at \in SetSteps /\ w.who \in SetSubject /\ w.fields \subseteq Field
                         /\ w.scope \in SetObject \cup {Tenant} /\ w.left \subseteq SetObject
  BY DEF SetWork
<1> QED BY <1>1, <1>2, <1>3, <1>4

\* One row that nobody has written to, and no request.
LEMMA InitSettingsInv == SetInit => SettingsInv
<1> SUFFICES ASSUME SetInit PROVE SettingsInv
  OBVIOUS
<1>1. /\ row \in {Untouched, NoRow} /\ (scope = Tenant => row = Untouched)
      /\ named = Untouched /\ replayed = Untouched
      /\ scope \in SetObject \cup {Tenant} /\ objects = SetObject /\ manages \subseteq SetSubject \X SetObject
      /\ (scope = Tenant => setKind \in {"label"} \cup Templates)
  BY SettingsAssumption DEF SetInit
<1>2. /\ work = [r \in SetRequest |-> NoWork] /\ heldManage = [r \in SetRequest |-> {}]
      /\ \A r \in SetRequest : work[r].at = "idle"
  BY DEF SetInit, NoWork
<1>3. SetTypes
  BY <1>1, <1>2, RowsHaveFields DEF SetTypes, SetTypeOK, SetValues
<1>4. HeldNow /\ WriteWasGranted
  BY <1>2 DEF HeldNow, WriteWasGranted, IsOpen
<1>5. NoLostUpdate /\ EventsTellRow
  BY <1>1 DEF NoLostUpdate, EventsTellRow
<1> QED BY <1>3, <1>4, <1>5 DEF SettingsInv

\* A request goes from one step to the next, and the tables stay as they are.
LEMMA SetMovesKeep ==
    ASSUME SettingsInv, NEW r \in SetRequest, NEW w \in SetWork, work' = [work EXCEPT ![r] = w],
           UNCHANGED <<setKind, scope, row, objects, manages, replayed, named>>,
           heldManage' \in [SetRequest -> SUBSET SetObject],
           \A q \in SetRequest \ {r} : heldManage'[q] = heldManage[q],
           w.at \notin {"done", "refused"} => Holds(w.who) \subseteq heldManage'[r],
           w.at = "checkAny" => w.scope = Tenant, w.scope = Tenant => MayBeGlobal,
           w.at \in {"write", "done"} /\ (setKind \in Listed \/ "visibility" \in w.fields) =>
               IF w.scope = Tenant THEN heldManage'[r] # {} ELSE w.scope \in heldManage'[r]
    PROVE  SettingsInv'
<1>1. work'[r] = w /\ \A q \in SetRequest : q # r => work'[q] = work[q]
  BY DEF SettingsInv, SetTypes
<1>2. SetTypes'
  BY <1>1 DEF SettingsInv, SetTypes, SetTypeOK
<1>3. HeldNow'
  BY <1>1 DEF SettingsInv, HeldNow, IsOpen, Holds
<1>4. WriteWasGranted'
  BY <1>1 DEF SettingsInv, WriteWasGranted, MustManage, MayBeGlobal
<1>5. NoLostUpdate' /\ EventsTellRow'
  BY DEF SettingsInv, NoLostUpdate, EventsTellRow
<1> QED BY <1>2, <1>3, <1>4, <1>5 DEF SettingsInv

\* A request begins.
LEMMA BeginKeeps == ASSUME SettingsInv, NEW r \in SetRequest, BeginSetting(r) PROVE SettingsInv'
<1>1. PICK who \in SetSubject, verb \in {"create", "update", "delete"}, fields \in SUBSET FieldsOf(setKind) :
        \E asked \in IF verb = "create" THEN Creatable ELSE {scope} :
          /\ Step(r, [at |-> FirstStep(verb, fields), who |-> who, verb |-> verb,
                      fields |-> fields, scope |-> asked, left |-> {}])
          /\ heldManage' = [heldManage EXCEPT ![r] = Holds(who)]
          /\ UNCHANGED <<setTables, named>>
  BY ZenonT(60) DEF BeginSetting
<1>0. PICK asked \in IF verb = "create" THEN Creatable ELSE {scope} :
        /\ work' = [work EXCEPT ![r] = [at |-> FirstStep(verb, fields), who |-> who, verb |-> verb,
                                        fields |-> fields, scope |-> asked, left |-> {}]]
        /\ heldManage' = [heldManage EXCEPT ![r] = Holds(who)]
        /\ UNCHANGED <<setTables, named>>
  BY <1>1, Zenon DEF Step
<1>9. asked = Tenant => MayBeGlobal
  BY <1>0, SettingsAssumption DEF Creatable, MayBeGlobal, SettingsInv, SetTypes, SetTypeOK, Listed, Templates
<1>2. asked \in SetObject \cup {Tenant} /\ fields \subseteq Field
  BY <1>0 DEF Creatable, FieldsOf, SettingsInv, SetTypes, Field
<1>3. FirstStep(verb, fields) \in {"read", "check", "write"}
  BY DEF FirstStep
<1>4. FirstStep(verb, fields) = "write" => ~(setKind \in Listed \/ "visibility" \in fields)
  BY DEF FirstStep
<1>5. PICK w : w = [at |-> FirstStep(verb, fields), who |-> who, verb |-> verb,
                    fields |-> fields, scope |-> asked, left |-> {}]
  OBVIOUS
<1>6. w \in SetWork /\ w.at = FirstStep(verb, fields) /\ w.who = who /\ w.fields = fields /\ w.scope = asked
  BY <1>2, <1>3, <1>5 DEF SetWork, SetSteps
<1>7. /\ heldManage' \in [SetRequest -> SUBSET SetObject] /\ heldManage'[r] = Holds(who)
      /\ \A q \in SetRequest \ {r} : heldManage'[q] = heldManage[q]
  BY <1>0 DEF SettingsInv, SetTypes, Holds
<1>8. UNCHANGED <<setKind, scope, row, objects, manages, replayed, named>>
  BY <1>0 DEF setTables
<1> QED BY <1>0, <1>3, <1>4, <1>5, <1>6, <1>7, <1>8, <1>9, SetMovesKeep

\* A step of a request that reads or asks, and what it must have found to go to the write.
LEMMA SetStepsKeep ==
    ASSUME SettingsInv, NEW r \in SetRequest, work[r] \in SetWork, IsOpen(r),
           UNCHANGED <<setTables, named, heldManage>>,
           NEW to \in {"check", "checkAny", "write", "refused"}, NEW s \in SetObject \cup {Tenant},
           NEW l \in SUBSET SetObject,
           work' = [work EXCEPT ![r] = [work[r] EXCEPT !.at = to, !.scope = s, !.left = l]],
           to = "checkAny" => s = Tenant, s = Tenant => MayBeGlobal,
           to = "write" => IF s = Tenant THEN heldManage[r] # {} ELSE s \in heldManage[r]
    PROVE  SettingsInv'
<1>1. PICK w : w = [work[r] EXCEPT !.at = to, !.scope = s, !.left = l]
  OBVIOUS
<1>2. w \in SetWork /\ w.at = to /\ w.who = work[r].who /\ w.scope = s
  BY <1>1 DEF SetWork, SetSteps
<1>3. /\ UNCHANGED <<setKind, scope, row, objects, manages, replayed, named>>
      /\ heldManage' \in [SetRequest -> SUBSET SetObject] /\ heldManage'[r] = heldManage[r]
      /\ \A q \in SetRequest \ {r} : heldManage'[q] = heldManage[q]
  BY DEF setTables, SettingsInv, SetTypes
<1>4. Holds(w.who) \subseteq heldManage[r]
  BY <1>2 DEF SettingsInv, HeldNow
<1> QED BY <1>1, <1>2, <1>3, <1>4, SetMovesKeep

\* The same step, when it only goes on or is refused.
LEMMA FinishKeeps ==
    ASSUME SettingsInv, NEW r \in SetRequest, work[r] \in SetWork, IsOpen(r),
           UNCHANGED <<setTables, named>>, NEW to \in {"write", "refused"}, Finish(r, to),
           to = "write" => IF work[r].scope = Tenant THEN heldManage[r] # {} ELSE work[r].scope \in heldManage[r]
    PROVE  SettingsInv'
<1>1. [work[r] EXCEPT !.at = to] = [work[r] EXCEPT !.at = to, !.scope = work[r].scope, !.left = work[r].left]
  BY DEF SetWork
<1>2. work' = [work EXCEPT ![r] = [work[r] EXCEPT !.at = to]] /\ UNCHANGED heldManage
  BY DEF Finish, Step
<1>3. work' = [work EXCEPT ![r] = [work[r] EXCEPT !.at = to, !.scope = work[r].scope, !.left = work[r].left]]
  BY <1>1, <1>2
<1>4. work[r].scope \in SetObject \cup {Tenant} /\ work[r].left \in SUBSET SetObject
  BY RowsHaveFields
<1>5. work[r].scope = Tenant => MayBeGlobal
  BY DEF IsOpen, SettingsInv, WriteWasGranted
<1>6. PICK s \in SetObject \cup {Tenant}, l \in SUBSET SetObject : s = work[r].scope /\ l = work[r].left
  BY <1>4
<1>7. work' = [work EXCEPT ![r] = [work[r] EXCEPT !.at = to, !.scope = s, !.left = l]]
  BY <1>3, <1>6
<1>8. to # "checkAny" /\ to \in {"check", "checkAny", "write", "refused"}
  OBVIOUS
<1>9. to = "write" => IF s = Tenant THEN heldManage[r] # {} ELSE s \in heldManage[r]
  BY <1>6
<1>10. s = Tenant => MayBeGlobal
  BY <1>5, <1>6
<1> QED BY <1>2, <1>7, <1>8, <1>9, <1>10, SetStepsKeep

\* The row is looked up, and the permission backend is asked.
LEMMA ChecksKeep ==
    ASSUME SettingsInv, NEW r \in SetRequest,
           \/ \E may \in BOOLEAN : ReadScopeOf(r, may)
           \/ CheckManage(r) \/ ListTenantProjects(r) \/ CheckAnyManage(r) \/ WriteFindsNone(r)
    PROVE  SettingsInv'
<1>1. work[r].at \in {"read", "check", "checkAny", "write"} /\ UNCHANGED <<setTables, named>>
  BY DEF ReadScopeOf, CheckManage, ListTenantProjects, CheckAnyManage, WriteFindsNone, Finish
<1>2. work[r] \in SetWork
  BY <1>1 DEF SettingsInv, SetTypes, NoWork
<1>3. /\ work[r].who \in SetSubject /\ work[r].scope \in SetObject \cup {Tenant}
      /\ work[r].left \subseteq SetObject /\ scope \in SetObject \cup {Tenant} /\ objects \subseteq SetObject
      /\ IsOpen(r) /\ Holds(work[r].who) \subseteq heldManage[r]
  BY <1>1, <1>2, RowsHaveFields DEF SettingsInv, SetTypes, HeldNow, IsOpen
<1>10. (scope = Tenant => MayBeGlobal) /\ (work[r].scope = Tenant => MayBeGlobal)
  BY <1>1, <1>2, RowsHaveFields DEF SettingsInv, SetTypes, SetTypeOK, WriteWasGranted, MayBeGlobal
<1>4. ASSUME Finish(r, "refused") PROVE SettingsInv'
  BY <1>1, <1>2, <1>3, <1>4, FinishKeeps
<1>5. ASSUME NEW may \in BOOLEAN, ReadScopeOf(r, may) PROVE SettingsInv'
  <2>1. CASE Step(r, [work[r] EXCEPT !.at = "check", !.scope = scope]) /\ UNCHANGED heldManage
    <3>1. [work[r] EXCEPT !.at = "check", !.scope = scope] =
            [work[r] EXCEPT !.at = "check", !.scope = scope, !.left = work[r].left]
      BY <1>2 DEF SetWork
    <3>2. work' = [work EXCEPT ![r] = [work[r] EXCEPT !.at = "check", !.scope = scope, !.left = work[r].left]]
      BY <2>1, <3>1 DEF Step
    <3> QED BY <1>1, <1>2, <1>3, <1>10, <2>1, <3>2, SetStepsKeep
  <2> QED BY <1>4, <1>5, <2>1 DEF ReadScopeOf
<1>6. CASE CheckManage(r)
  <2>1. CASE work[r].scope \in Holds(work[r].who)
    <3>1. Finish(r, "write") /\ work[r].scope \in heldManage[r] /\ work[r].scope # Tenant
      BY <1>3, <1>6, <2>1 DEF CheckManage, AnyProjectWillDo
    <3> QED BY <1>1, <1>2, <1>3, <3>1, FinishKeeps
  <2> QED BY <1>4, <1>6, <2>1 DEF CheckManage
<1>7. CASE ListTenantProjects(r)
  <2>1. /\ Step(r, [work[r] EXCEPT !.at = "checkAny", !.left = objects]) /\ work[r].scope = Tenant
        /\ UNCHANGED heldManage
    BY <1>7 DEF ListTenantProjects, AnyProjectWillDo
  <2>2. [work[r] EXCEPT !.at = "checkAny", !.left = objects] =
          [work[r] EXCEPT !.at = "checkAny", !.scope = Tenant, !.left = objects]
    BY <1>2, <2>1 DEF SetWork
  <2>3. work' = [work EXCEPT ![r] = [work[r] EXCEPT !.at = "checkAny", !.scope = Tenant, !.left = objects]]
    BY <2>1, <2>2 DEF Step
  <2> QED BY <1>1, <1>2, <1>3, <1>10, <2>1, <2>3, SetStepsKeep
<1>8. CASE CheckAnyManage(r)
  <2>1. work[r].at = "checkAny" /\ work[r].scope = Tenant
    BY <1>8 DEF CheckAnyManage, SettingsInv, WriteWasGranted
  <2>2. CASE work[r].left = {}
    BY <1>4, <1>8, <2>2 DEF CheckAnyManage
  <2>3. ASSUME NEW o \in work[r].left, o \in Holds(work[r].who), Finish(r, "write") PROVE SettingsInv'
    <3>1. heldManage[r] # {}
      BY <1>3, <2>3
    <3> QED BY <1>1, <1>2, <1>3, <2>1, <2>3, <3>1, FinishKeeps
  <2>4. ASSUME NEW o \in work[r].left, Step(r, [work[r] EXCEPT !.left = @ \ {o}]), UNCHANGED heldManage
        PROVE  SettingsInv'
    <3>1. PICK l \in SUBSET SetObject : l = work[r].left \ {o}
      BY <1>3
    <3>2. [work[r] EXCEPT !.left = @ \ {o}] = [work[r] EXCEPT !.at = "checkAny", !.scope = Tenant, !.left = l]
      BY <1>2, <2>1, <3>1 DEF SetWork
    <3>3. work' = [work EXCEPT ![r] = [work[r] EXCEPT !.at = "checkAny", !.scope = Tenant, !.left = l]]
      BY <2>4, <3>2 DEF Step
    <3> QED BY <1>1, <1>2, <1>3, <1>10, <2>1, <2>4, <3>3, SetStepsKeep
  <2> QED BY <1>8, <2>2, <2>3, <2>4 DEF CheckAnyManage
<1>9. CASE WriteFindsNone(r)
  BY <1>4, <1>9 DEF WriteFindsNone
<1> QED BY <1>5, <1>6, <1>7, <1>8, <1>9

\* The caller writes fields, or a row, and the requests of others are where they were.
LEMMA DoneKeeps ==
    ASSUME SettingsInv, NEW r \in SetRequest, work[r].at = "write", Finish(r, "done"),
           UNCHANGED <<setKind, objects, manages>>,
           row' = NoRow \/ row' \in SetValues, named' \in SetValues, replayed' \in SetValues,
           scope' \in SetObject \cup {Tenant}, row' # NoRow => scope' \in objects \cup {Tenant},
           scope' = Tenant => setKind \in {"label"} \cup Templates,
           NoLostUpdate', EventsTellRow'
    PROVE  SettingsInv'
<1>1. work[r] \in SetWork
  BY DEF SettingsInv, SetTypes, NoWork
<1>2. PICK w : w = [work[r] EXCEPT !.at = "done"]
  OBVIOUS
<1>3. w \in SetWork /\ w.at = "done" /\ w.scope = work[r].scope /\ w.fields = work[r].fields
  BY <1>1, <1>2 DEF SetWork, SetSteps
<1>4. /\ work' = [work EXCEPT ![r] = w] /\ heldManage' = heldManage
      /\ work'[r] = w /\ \A q \in SetRequest : q # r => work'[q] = work[q]
  BY <1>2 DEF Finish, Step, SettingsInv, SetTypes
<1>5. SetTypes'
  BY <1>3, <1>4 DEF SettingsInv, SetTypes, SetTypeOK, SetValues
<1>6. HeldNow'
  BY <1>3, <1>4 DEF SettingsInv, HeldNow, IsOpen, Holds
<1>7. WriteWasGranted'
  BY <1>1, <1>3, <1>4, RowsHaveFields DEF SettingsInv, WriteWasGranted, MustManage, MayBeGlobal
<1> QED BY <1>5, <1>6, <1>7 DEF SettingsInv

\* SET f = COALESCE(patch, f): the fields that are not named keep what the last request
\* that named them wrote; `said` is what the event tells.
LEMMA UpdatesKeep ==
    ASSUME SettingsInv, NEW r \in SetRequest, NEW said \in SetValues, Updates(r, said),
           setKind \in {"board", "project"} => \A f \in {"name", "rest"} : said[f] = Patched(r)[f]
    PROVE  SettingsInv'
<1>1. /\ work[r].at = "write" /\ row # NoRow /\ row' = Patched(r) /\ replayed' = said
      /\ named' = [f \in Field |-> IF f \in work[r].fields THEN r ELSE named[f]]
      /\ Finish(r, "done") /\ UNCHANGED <<setKind, scope, objects, manages>>
  BY DEF Updates
<1>2. row \in SetValues /\ named \in SetValues
  BY <1>1 DEF SettingsInv, SetTypes, SetTypeOK, SetValues
<1>3. row' \in SetValues /\ named' \in SetValues
  BY <1>1, <1>2 DEF Patched, SetValues
<1>4. NoLostUpdate'
  BY <1>1, <1>2 DEF Patched, SettingsInv, NoLostUpdate
<1>5. EventsTellRow'
  BY <1>1 DEF EventsTellRow
<1>6. scope \in SetObject \cup {Tenant} /\ scope \in objects \cup {Tenant} /\ (scope = Tenant => setKind \in {"label"} \cup Templates)
  BY <1>1 DEF SettingsInv, SetTypes, SetTypeOK
<1> QED BY <1>1, <1>3, <1>4, <1>5, <1>6, DoneKeeps

\* BoardRenamed, BoardUpdated and ProjectUpdated.
LEMMA EventTellsPatch ==
    ASSUME SettingsInv, NEW r \in SetRequest, row # NoRow, setKind \in {"board", "project"},
           work[r].fields \subseteq Field
    PROVE  /\ EventSays(r) \in SetValues
           /\ \A f \in {"name", "rest"} : EventSays(r)[f] = Patched(r)[f]
<1>1. row \in SetValues /\ replayed \in SetValues
  BY DEF SettingsInv, SetTypes, SetTypeOK, SetValues
<1>2. Patched(r) \in SetValues /\ \A f \in Field : Patched(r)[f] = IF f \in work[r].fields THEN r ELSE row[f]
  BY <1>1 DEF Patched, SetValues
<1>3. \A f \in {"name", "rest"} : replayed[f] = row[f]
  BY DEF SettingsInv, EventsTellRow
<1>4. CASE setKind = "project"
  BY <1>2, <1>4 DEF EventSays
<1>5. CASE setKind = "board" /\ "rest" \in work[r].fields
  <2>1. EventSays(r) = [Patched(r) EXCEPT !["visibility"] = replayed["visibility"]]
    BY <1>5 DEF EventSays
  <2>2. replayed["visibility"] \in SetRequest \cup {Initial}
    BY <1>1 DEF SetValues, Field
  <2> QED BY <1>2, <2>1, <2>2 DEF SetValues, Field
<1>6. CASE setKind = "board" /\ "rest" \notin work[r].fields /\ "name" \in work[r].fields
  <2>1. work[r].fields \cap {"name", "rest"} = {"name"}
    BY <1>6
  <2>2. EventSays(r) = [replayed EXCEPT !["name"] = r]
    BY <1>6, <2>1 DEF EventSays
  <2> QED BY <1>1, <1>2, <1>3, <1>6, <2>2 DEF SetValues, Field
<1>7. CASE setKind = "board" /\ "rest" \notin work[r].fields /\ "name" \notin work[r].fields
  <2>1. EventSays(r) = replayed
    BY <1>7 DEF EventSays
  <2> QED BY <1>1, <1>2, <1>3, <1>7, <2>1 DEF Field
<1> QED BY <1>4, <1>5, <1>6, <1>7

\* The row is deleted, or made.
LEMMA RowsComeAndGo ==
    ASSUME SettingsInv, NEW r \in SetRequest, Deletes(r) \/ (setKind \in Listed /\ Creates(r)) PROVE SettingsInv'
<1>1. named \in SetValues /\ replayed \in SetValues /\ scope \in SetObject \cup {Tenant}
      /\ (row # NoRow => scope \in objects \cup {Tenant}) /\ (scope = Tenant => setKind \in {"label"} \cup Templates)
  BY DEF SettingsInv, SetTypes, SetTypeOK
<1>2. CASE Deletes(r)
  <2>1. /\ work[r].at = "write" /\ row' = NoRow /\ Finish(r, "done")
        /\ UNCHANGED <<setKind, scope, objects, manages, replayed, named>>
    BY <1>2 DEF Deletes
  <2> QED BY <1>1, <2>1, DoneKeeps DEF NoLostUpdate, EventsTellRow
<1>3. CASE setKind \in Listed /\ Creates(r)
  <2>1. work[r].at = "write" /\ work[r] \in SetWork /\ IsOpen(r)
    BY <1>3 DEF Creates, SettingsInv, SetTypes, NoWork, IsOpen
  <2>2. CASE Insertable(work[r].scope) /\ row = NoRow
    <3>1. /\ row' = Untouched /\ named' = Untouched /\ scope' = work[r].scope /\ Finish(r, "done")
          /\ UNCHANGED <<setKind, objects, manages, replayed>>
      BY <1>3, <2>2 DEF Creates
    <3>2. scope' \in SetObject \cup {Tenant} /\ scope' \in objects \cup {Tenant}
      BY <2>1, <2>2, <3>1, RowsHaveFields DEF Insertable
    <3>3. scope' = Tenant => setKind \in {"label"} \cup Templates
      BY <2>1, <3>1 DEF SettingsInv, WriteWasGranted, MayBeGlobal, IsOpen
    <3>4. NoLostUpdate' /\ EventsTellRow'
      BY <1>3, <3>1 DEF NoLostUpdate, EventsTellRow, Listed, Templates
    <3> QED BY <1>1, <2>1, <3>1, <3>2, <3>3, <3>4, RowsHaveFields, DoneKeeps
  <2>3. CASE ~(Insertable(work[r].scope) /\ row = NoRow)
    <3>1. Finish(r, "refused") /\ UNCHANGED <<setTables, named>>
      BY <1>3, <2>3 DEF Creates
    <3> QED BY <2>1, <3>1, FinishKeeps
  <2> QED BY <2>2, <2>3
<1> QED BY <1>2, <1>3

\* A relation is granted or removed: the ghost of whoever is under way sees it.
LEMMA ManageKeeps == ASSUME SettingsInv, ManageChanges PROVE SettingsInv'
<1>1. PICK s \in SetSubject, o \in SetObject :
        /\ manages' = IF <<s, o>> \in manages THEN manages \ {<<s, o>>} ELSE manages \cup {<<s, o>>}
        /\ heldManage' = [r \in SetRequest |->
              IF work[r] # NoWork /\ work[r].at \notin {"done", "refused"} /\ work[r].who = s
              THEN heldManage[r] \cup {o} ELSE heldManage[r]]
        /\ UNCHANGED <<setKind, scope, row, objects, work, replayed, named>>
  BY DEF ManageChanges
<1>2. \A r \in SetRequest : /\ heldManage[r] \subseteq heldManage'[r]
                            /\ IsOpen(r) /\ work[r].who = s => o \in heldManage'[r]
  BY <1>1 DEF IsOpen
<1>3. SetTypes'
  <2>1. manages' \subseteq SetSubject \X SetObject
    BY <1>1 DEF SettingsInv, SetTypes, SetTypeOK
  <2>2. heldManage' \in [SetRequest -> SUBSET SetObject]
    BY <1>1 DEF SettingsInv, SetTypes
  <2> QED BY <1>1, <2>1, <2>2 DEF SettingsInv, SetTypes, SetTypeOK
<1>4. HeldNow'
  <2>1. \A who, p : <<who, p>> \in manages' => <<who, p>> \in manages \/ (who = s /\ p = o)
    BY <1>1
  <2>2. \A r \in SetRequest : IsOpen(r)' <=> IsOpen(r)
    BY <1>1 DEF IsOpen
  <2> QED BY <1>1, <1>2, <2>1, <2>2 DEF SettingsInv, HeldNow, Holds
<1>5. WriteWasGranted'
  BY <1>1, <1>2 DEF SettingsInv, WriteWasGranted, MustManage, MayBeGlobal
<1>6. NoLostUpdate' /\ EventsTellRow'
  BY <1>1 DEF SettingsInv, NoLostUpdate, EventsTellRow
<1> QED BY <1>3, <1>4, <1>5, <1>6 DEF SettingsInv

\* ON DELETE CASCADE.
LEMMA ObjectGoesKeeps ==
    ASSUME SettingsInv, NEW kinds \in SUBSET (Listed \cup {"board", "aggregate", "project"}), ObjectGoes(kinds)
    PROVE  SettingsInv'
<1>1. PICK o \in objects :
        /\ objects' = objects \ {o} /\ row' = IF scope = o THEN NoRow ELSE row
        /\ UNCHANGED <<setKind, scope, manages, work, replayed, heldManage, named>>
  BY DEF ObjectGoes
<1>2. SetTypes'
  BY <1>1 DEF SettingsInv, SetTypes, SetTypeOK
<1>3. HeldNow' /\ WriteWasGranted'
  BY <1>1 DEF SettingsInv, HeldNow, IsOpen, Holds, WriteWasGranted, MustManage, MayBeGlobal
<1>4. NoLostUpdate' /\ EventsTellRow'
  BY <1>1 DEF SettingsInv, NoLostUpdate, EventsTellRow
<1> QED BY <1>2, <1>3, <1>4 DEF SettingsInv

\* What a setting and the requests about it always satisfy.
LEMMA SettingsInvariant == SetSpec => []SettingsInv
<1>1. SetInit => SettingsInv
  BY InitSettingsInv
<1>2. SettingsInv /\ [SetNext]_setVars => SettingsInv'
  <2> SUFFICES ASSUME SettingsInv, [SetNext]_setVars PROVE SettingsInv'
    OBVIOUS
  <2>1. ASSUME NEW r \in SetRequest,
               \/ UpdateLabel(r) \/ UpdateMilestone(r) \/ UpdateTemplate(r) \/ UpdateCardTemplate(r)
               \/ UpdateAggregatedBoard(r)
        PROVE  SettingsInv'
    <3>1. setKind \notin {"board", "project"} /\ Updates(r, replayed)
      BY <2>1 DEF UpdateLabel, UpdateMilestone, UpdateTemplate, UpdateCardTemplate, UpdateAggregatedBoard
    <3> QED BY <3>1, UpdatesKeep DEF SettingsInv, SetTypes
  <2>2. ASSUME NEW r \in SetRequest, UpdateBoard(r) \/ UpdateProject(r) PROVE SettingsInv'
    <3>1. setKind \in {"board", "project"} /\ Updates(r, EventSays(r)) /\ row # NoRow /\ work[r].at = "write"
      BY <2>2 DEF UpdateBoard, UpdateProject, Updates
    <3>2. work[r].fields \subseteq Field
      BY <3>1, RowsHaveFields DEF SettingsInv, SetTypes, NoWork
    <3> QED BY <3>1, <3>2, EventTellsPatch, UpdatesKeep
  <2>3. ASSUME NEW r \in SetRequest,
               \/ DeleteLabel(r) \/ DeleteMilestone(r) \/ DeleteTemplate(r) \/ DeleteCardTemplate(r)
               \/ CreateLabel(r) \/ CreateMilestone(r) \/ CreateTemplate(r) \/ CreateCardTemplate(r)
        PROVE  SettingsInv'
    BY <2>3, RowsComeAndGo
       DEF DeleteLabel, DeleteMilestone, DeleteTemplate, DeleteCardTemplate, CreateLabel, CreateMilestone,
           CreateTemplate, CreateCardTemplate, Listed, Templates
  <2>4. ASSUME NEW r \in SetRequest,
               ReadLabel(r) \/ LoadMilestone(r) \/ ReadTemplate(r) \/ ReadCardTemplate(r)
        PROVE  SettingsInv'
    <3>1. \E may \in BOOLEAN : ReadScopeOf(r, may)
      <4>1. (scope # Tenant) \in BOOLEAN /\ TRUE \in BOOLEAN
        OBVIOUS
      <4> QED BY <2>4, <4>1, Zenon DEF ReadLabel, LoadMilestone, ReadTemplate, ReadCardTemplate
    <3> QED BY <3>1, ChecksKeep
  <2>5. CASE ManageChanges \/ ProjectGoes \/ BoardOfRowGoes \/ DeleteAggregatedBoard
    <3>1. /\ Listed \cup {"project"} \in SUBSET (Listed \cup {"board", "aggregate", "project"})
          /\ {"board"} \in SUBSET (Listed \cup {"board", "aggregate", "project"})
          /\ {"aggregate"} \in SUBSET (Listed \cup {"board", "aggregate", "project"})
      OBVIOUS
    <3> QED BY <2>5, <3>1, ManageKeeps, ObjectGoesKeeps, Zenon DEF ProjectGoes, BoardOfRowGoes, DeleteAggregatedBoard
  <2>6. CASE UNCHANGED setVars
    BY <2>6 DEF setVars, setTables, SettingsInv, SetTypes, SetTypeOK, HeldNow, IsOpen, Holds, WriteWasGranted,
                MustManage, MayBeGlobal, NoLostUpdate, EventsTellRow
  <2>7. ASSUME NEW r \in SetRequest,
               BeginSetting(r) \/ CheckManage(r) \/ ListTenantProjects(r) \/ CheckAnyManage(r) \/ WriteFindsNone(r)
        PROVE  SettingsInv'
    BY <2>7, BeginKeeps, ChecksKeep
  <2> QED BY <2>1, <2>2, <2>3, <2>4, <2>5, <2>6, <2>7 DEF SetNext
<1> QED BY <1>1, <1>2, PTL DEF SetSpec

\* Labels, milestones, templates, boards, aggregates and projects: whoever changed one held
\* manage at some moment of the request, no request undoes one that overlaps it on another
\* field, and the events of boards and projects tell the names and descriptions there are.
THEOREM UpdatesKept == SetSpec => []UpdatesAreKept
<1>3. SettingsInv => UpdatesAreKept
  BY DEF SettingsInv, UpdatesAreKept, WriteWasGranted, MustManage, WriterHeldManage
<1> QED BY <1>3, SettingsInvariant, PTL

-----------------------------------------------------------------------------
(* Visibility: what an answer shows of public, internal and private boards.*)

VisStates == {"begun", "rowRead", "expanded", "sourcesRead", "sourcesExpanded", "shown", "refused"}

VisWork == [at : VisStates, kind : Kind, asked : VisBoard, rows : SUBSET VisBoard, open : SUBSET VisBoard,
            granted : SUBSET VisBoard, shown : SUBSET VisBoard, cards : SUBSET (VisCard \X VisBoard)]

VisTypes ==
    /\ visOf \in [VisBoard -> {"private", "internal", "public", "deleted"}]
    /\ viewable \subseteq VisBoard
    /\ onBoard \in [VisCard -> VisBoard]
    /\ reading \in [VisReader -> {NotReading} \cup VisWork]
    /\ visible \in [VisReader -> SUBSET VisBoard]
    /\ openAlways \in [VisReader -> SUBSET VisBoard]
    /\ viewAlways \in [VisReader -> SUBSET VisBoard]
    /\ cardSeen \in [VisReader -> SUBSET (VisCard \X VisBoard)]
    /\ narrowed \in [VisReader -> SUBSET VisBoard]

\* What the ghosts of a request under way say of this moment.
GhostSees(r) ==
    LET k == reading[r].kind
        now == MaySee(k, visOf, viewable)
    IN  /\ now \subseteq visible[r] /\ visible[r] \subseteq now \cup narrowed[r]
        /\ openAlways[r] \subseteq OpenNow(k, visOf)
        /\ viewAlways[r] \subseteq GrantedNow(k, viewable)
        /\ Shows(k) \subseteq cardSeen[r]

GhostsSee == \A r \in VisReader : Active(r) => GhostSees(r)

Standing == {b \in VisBoard : VisExists(b)}

\* What a request has read so far lies between what was so always and what was
\* so at some moment; boards do not come back.
ReadIsBetween(r, rd) ==
    LET k == rd.kind at == rd.at
    IN  /\ at = "rowRead" => k \in {"listBoards", "getBoard"}
        /\ at = "expanded" => k \in {"listAggregates", "listProjects", "getAggregate"}
        /\ at \in {"sourcesRead", "sourcesExpanded"} => k = "getAggregate"
        /\ (at = "rowRead" /\ k = "listBoards") =>
              /\ openAlways[r] \subseteq rd.open /\ rd.open \subseteq visible[r]
              /\ Standing \subseteq rd.rows /\ rd.shown = {}
        /\ (at = "rowRead" /\ k = "getBoard") => rd.asked \notin openAlways[r]
        /\ at = "begun" => rd.shown = {}
        /\ (at = "expanded" /\ k # "getAggregate") =>
              viewAlways[r] \subseteq rd.granted /\ rd.granted \subseteq visible[r]
        /\ at = "sourcesRead" => Standing \subseteq rd.rows
        /\ at = "sourcesExpanded" =>
              /\ Standing \subseteq rd.rows
              /\ viewAlways[r] \subseteq rd.granted /\ rd.granted \subseteq visible[r]
        /\ (at = "expanded" /\ k = "getAggregate") =>
              /\ rd.shown \subseteq visible[r]
              /\ (openAlways[r] \cup viewAlways[r]) \cap Standing \subseteq rd.shown
        /\ at # "shown" => rd.cards = {}

ReadsAreBetween == \A r \in VisReader : reading[r] # NotReading => ReadIsBetween(r, reading[r])

\* What ShowsWhatIsOpen says of one request.
AnswerIsOpen(r, rd) ==
    LET always == (openAlways[r] \cup viewAlways[r]) \cap Standing
    IN  /\ rd.at = "shown" =>
              /\ rd.shown \subseteq visible[r]
              /\ rd.kind \notin {"getBoard", "getPublic"} => always \subseteq rd.shown
              /\ \A cb \in rd.cards \ cardSeen[r] : cb[2] \in narrowed[r]
        /\ (rd.at = "refused" /\ rd.kind \in {"getBoard", "getPublic"}) => rd.asked \notin always

AnswersAreOpen == \A r \in VisReader : reading[r] # NotReading => AnswerIsOpen(r, reading[r])

VisInv == VisTypes /\ GhostsSee /\ ReadsAreBetween /\ AnswersAreOpen

-----------------------------------------------------------------------------
\* A request that reads has a kind and a step, one that has not begun has none.
LEMMA IdleReadsNothing ==
    /\ NotReading.at = "idle" /\ NotReading \notin VisWork
    /\ VisTypes => \A r \in VisReader :
          /\ reading[r].at # "idle" => reading[r] \in VisWork
          /\ reading[r] # NotReading => reading[r] \in VisWork /\ reading[r].at # "idle"
<1>1. NotReading.at = "idle"
  BY DEF NotReading
<1>2. \A w \in VisWork : w.at # "idle"
  BY DEF VisWork, VisStates
<1>3. VisTypes => \A r \in VisReader : reading[r] \in {NotReading} \cup VisWork
  BY DEF VisTypes
<1> QED BY <1>1, <1>2, <1>3, Zenon

\* Whoever may see a board may do so because it is open, or because of a grant.
LEMMA SeeByRule ==
    ASSUME VisTypes, NEW k \in Kind
    PROVE  /\ MaySee(k, visOf, viewable) = OpenNow(k, visOf) \cup GrantedNow(k, viewable)
           /\ OpenNow(k, visOf) = {b \in VisBoard : OpenTo(k, visOf[b])}
           /\ MaySee(k, visOf, viewable) \subseteq VisBoard
           /\ OpenNow(k, visOf) \subseteq Standing
  BY DEF MaySee, OpenNow, GrantedNow, OpenTo, Anonymous, VisTypes, Standing, VisExists, Kind

\* Initially nobody reads.
LEMMA VisStarts == VisInit => VisInv
<1> SUFFICES ASSUME VisInit PROVE VisInv
  OBVIOUS
<1>1. reading = [r \in VisReader |-> NotReading] /\ \A r \in VisReader : reading[r] = NotReading /\ ~Active(r)
  BY DEF VisInit, Active, NotReading
<1>2. VisTypes
  BY <1>1 DEF VisInit, VisTypes
<1> QED BY <1>1, <1>2 DEF VisInv, GhostsSee, ReadsAreBetween, AnswersAreOpen

\* A request reads on: nothing else changes.
LEMMA ReadsKeep ==
    ASSUME VisInv, NEW r \in VisReader, NEW w \in VisWork, Active(r), w.kind = reading[r].kind,
           ReadGoes(r, w), UNCHANGED visGhosts, ReadIsBetween(r, w), AnswerIsOpen(r, w)
    PROVE  VisInv'
<1>1. /\ reading'[r] = w /\ \A q \in VisReader : q # r => reading'[q] = reading[q]
      /\ reading' \in [VisReader -> {NotReading} \cup VisWork]
      /\ UNCHANGED <<visOf, viewable, onBoard, visible, openAlways, viewAlways, cardSeen, narrowed>>
  BY DEF ReadGoes, VisInv, VisTypes, visTables, visGhosts
<1>2. VisTypes'
  BY <1>1 DEF VisInv, VisTypes
<1>3. GhostsSee'
  <2> SUFFICES ASSUME NEW q \in VisReader, Active(q)' PROVE GhostSees(q)'
    BY DEF GhostsSee
  <2>1. Active(q) /\ reading'[q].kind = reading[q].kind
    BY <1>1 DEF Active
  <2>2. GhostSees(q)
    BY <2>1 DEF VisInv, GhostsSee
  <2> QED BY <1>1, <2>1, <2>2, Zenon DEF GhostSees, Shows
<1>4. ASSUME NEW q \in VisReader, NEW v \in VisWork
      PROVE  ReadIsBetween(q, v)' = ReadIsBetween(q, v) /\ AnswerIsOpen(q, v)' = AnswerIsOpen(q, v)
  <2>1. Standing' = Standing
    BY <1>1 DEF Standing, VisExists
  <2> QED BY <1>1, <2>1 DEF ReadIsBetween, AnswerIsOpen
<1>5. ASSUME NEW q \in VisReader, reading'[q] # NotReading
      PROVE  ReadIsBetween(q, reading[q])' /\ AnswerIsOpen(q, reading[q])'
  <2>1. PICK v \in VisWork : v = reading'[q]
    BY <1>1, <1>5
  <2>2. ReadIsBetween(q, v) /\ AnswerIsOpen(q, v)
    <3>1. CASE q = r
      BY <1>1, <2>1, <3>1, Zenon
    <3>2. CASE q # r
      BY <1>1, <1>5, <2>1, <3>2, Zenon DEF VisInv, ReadsAreBetween, AnswersAreOpen
    <3> QED BY <3>1, <3>2
  <2>3. ReadIsBetween(q, v)' /\ AnswerIsOpen(q, v)'
    BY <1>4, <2>2
  <2> QED BY <2>1, <2>3, Zenon DEF ReadIsBetween, AnswerIsOpen
<1>6. ReadsAreBetween' /\ AnswersAreOpen'
  BY <1>5 DEF ReadsAreBetween, AnswersAreOpen
<1> QED BY <1>2, <1>3, <1>6 DEF VisInv

\* What others change is watched by every request under way.
LEMMA OthersKeep ==
    ASSUME VisInv, UNCHANGED reading, Witness,
           visOf' \in [VisBoard -> {"private", "internal", "public", "deleted"}],
           viewable' \subseteq VisBoard, onBoard' \in [VisCard -> VisBoard],
           \A b \in VisBoard : visOf'[b] # "deleted" => visOf[b] # "deleted"
    PROVE  VisInv'
<1> DEFINE see(r) == MaySee(reading[r].kind, visOf', viewable')
<1>1. /\ \A r \in VisReader : visible'[r] = IF Active(r) THEN visible[r] \cup see(r) ELSE visible[r]
      /\ \A r \in VisReader : openAlways'[r] = IF Active(r) THEN openAlways[r] \cap OpenNow(reading[r].kind, visOf')
                                               ELSE openAlways[r]
      /\ \A r \in VisReader : viewAlways'[r] = IF Active(r) THEN viewAlways[r] \cap GrantedNow(reading[r].kind, viewable')
                                               ELSE viewAlways[r]
      /\ \A r \in VisReader : cardSeen'[r] =
              IF Active(r)
              THEN cardSeen[r] \cup {<<c, onBoard'[c]>> : c \in {d \in VisCard : onBoard'[d] \in see(r)}}
              ELSE cardSeen[r]
      /\ \A r \in VisReader : narrowed'[r] =
              IF Active(r) THEN narrowed[r] \cup (MaySee(reading[r].kind, visOf, viewable) \ see(r))
              ELSE narrowed[r]
  BY Zenon DEF Witness
<1>2. \A r \in VisReader : Active(r) => reading[r].kind \in Kind /\ reading[r] \in VisWork
  BY IdleReadsNothing DEF Active, VisInv, VisWork
<1>3. \A r \in VisReader : Active(r) => see(r) \subseteq VisBoard
  BY <1>2 DEF MaySee, Anonymous
<1>4. VisTypes'
  <2>1. /\ visible' = [r \in VisReader |-> visible'[r]] /\ openAlways' = [r \in VisReader |-> openAlways'[r]]
        /\ viewAlways' = [r \in VisReader |-> viewAlways'[r]] /\ cardSeen' = [r \in VisReader |-> cardSeen'[r]]
        /\ narrowed' = [r \in VisReader |-> narrowed'[r]]
    BY DEF Witness
  <2>2. \A r \in VisReader : Active(r) => MaySee(reading[r].kind, visOf, viewable) \subseteq VisBoard
    BY <1>2, SeeByRule DEF VisInv
  <2>3. ASSUME NEW r \in VisReader
        PROVE  /\ visible'[r] \subseteq VisBoard /\ openAlways'[r] \subseteq VisBoard
               /\ viewAlways'[r] \subseteq VisBoard /\ narrowed'[r] \subseteq VisBoard
               /\ cardSeen'[r] \subseteq VisCard \X VisBoard
    <3>1. /\ visible[r] \subseteq VisBoard /\ openAlways[r] \subseteq VisBoard
          /\ viewAlways[r] \subseteq VisBoard /\ narrowed[r] \subseteq VisBoard
          /\ cardSeen[r] \subseteq VisCard \X VisBoard
      BY DEF VisInv, VisTypes
    <3>2. CASE Active(r)
      <4>1. {<<c, onBoard'[c]>> : c \in {d \in VisCard : onBoard'[d] \in see(r)}} \subseteq VisCard \X VisBoard
        OBVIOUS
      <4>2. visible'[r] \subseteq VisBoard /\ narrowed'[r] \subseteq VisBoard
        BY <1>1, <1>3, <2>2, <3>1, <3>2
      <4>3. openAlways'[r] \subseteq VisBoard /\ viewAlways'[r] \subseteq VisBoard
        BY <1>1, <3>1, <3>2
      <4>4. cardSeen'[r] = cardSeen[r] \cup {<<c, onBoard'[c]>> : c \in {d \in VisCard : onBoard'[d] \in see(r)}}
        BY <1>1, <3>2, Zenon
      <4> QED BY <3>1, <4>1, <4>2, <4>3, <4>4
    <3>3. CASE ~Active(r)
      BY <1>1, <3>1, <3>3, Zenon
    <3> QED BY <3>2, <3>3
  <2>5. /\ visible' \in [VisReader -> SUBSET VisBoard] /\ openAlways' \in [VisReader -> SUBSET VisBoard]
        /\ viewAlways' \in [VisReader -> SUBSET VisBoard] /\ narrowed' \in [VisReader -> SUBSET VisBoard]
        /\ cardSeen' \in [VisReader -> SUBSET (VisCard \X VisBoard)]
    BY <2>1, <2>3
  <2> QED BY <2>5 DEF VisInv, VisTypes
<1>5. GhostsSee'
  <2> SUFFICES ASSUME NEW r \in VisReader, Active(r)' PROVE GhostSees(r)'
    BY DEF GhostsSee
  <2>1. Active(r) /\ GhostSees(r)
    BY DEF VisInv, GhostsSee, Active
  <2>2. PICK k : k = reading[r].kind /\ k = reading'[r].kind
    OBVIOUS
  <2>3. /\ see(r) = MaySee(k, visOf', viewable')
        /\ (GhostSees(r))' = (/\ MaySee(k, visOf', viewable') \subseteq visible'[r]
                            /\ visible'[r] \subseteq MaySee(k, visOf', viewable') \cup narrowed'[r]
                            /\ openAlways'[r] \subseteq OpenNow(k, visOf')
                            /\ viewAlways'[r] \subseteq GrantedNow(k, viewable')
                            /\ {<<c, onBoard'[c]>> : c \in {d \in VisCard : onBoard'[d] \in MaySee(k, visOf', viewable')}}
                                  \subseteq cardSeen'[r])
    BY <2>2, Zenon DEF GhostSees, Shows
  <2>4. MaySee(k, visOf, viewable) \subseteq visible[r] /\ visible[r] \subseteq MaySee(k, visOf, viewable) \cup narrowed[r]
    BY <2>1, <2>2 DEF GhostSees
  <2> QED BY <1>1, <2>1, <2>2, <2>3, <2>4
<1>6. Standing' \subseteq Standing
  BY DEF Standing, VisExists
<1>7. \A r \in VisReader : /\ visible[r] \subseteq visible'[r] /\ openAlways'[r] \subseteq openAlways[r]
                           /\ viewAlways'[r] \subseteq viewAlways[r] /\ cardSeen[r] \subseteq cardSeen'[r]
                           /\ narrowed[r] \subseteq narrowed'[r]
  BY <1>1
<1>8. ASSUME NEW r \in VisReader, NEW w \in VisWork, ReadIsBetween(r, w) PROVE ReadIsBetween(r, w)'
  BY <1>6, <1>7, <1>8 DEF ReadIsBetween
<1>9. ASSUME NEW r \in VisReader, NEW w \in VisWork, AnswerIsOpen(r, w) PROVE AnswerIsOpen(r, w)'
  BY <1>6, <1>7, <1>9 DEF AnswerIsOpen
<1>10. ReadsAreBetween' /\ AnswersAreOpen'
  BY <1>8, <1>9, IdleReadsNothing DEF VisInv, ReadsAreBetween, AnswersAreOpen
<1> QED BY <1>4, <1>5, <1>10 DEF VisInv

\* A request under way knows its kind, and its ghosts see this moment.
LEMMA ReaderUnderWay ==
    ASSUME VisInv, NEW r \in VisReader, NEW spot \in VisStates \ {"shown", "refused"}, NEW kinds \in SUBSET Kind,
           At(r, spot, kinds)
    PROVE  /\ reading[r] \in VisWork /\ Active(r) /\ reading[r].at = spot /\ reading[r].kind \in kinds
           /\ ReadIsBetween(r, reading[r]) /\ AnswerIsOpen(r, reading[r]) /\ reading[r].cards = {}
           /\ openAlways[r] \subseteq OpenNow(reading[r].kind, visOf)
           /\ viewAlways[r] \subseteq GrantedNow(reading[r].kind, viewable)
           /\ OpenNow(reading[r].kind, visOf) \cup GrantedNow(reading[r].kind, viewable) \subseteq visible[r]
           /\ OpenNow(reading[r].kind, visOf) = Read(r).open
           /\ Read(r).rows = Standing /\ Standing \subseteq VisBoard /\ Read(r).open \subseteq Standing
           /\ openAlways[r] \subseteq VisBoard /\ viewAlways[r] \subseteq VisBoard
<1>1. spot \notin {"idle", "shown", "refused"}
  BY DEF VisStates
<1>2. reading[r].at = spot /\ reading[r].kind \in kinds
  BY DEF At
<1>3. Active(r) /\ reading[r] # NotReading /\ reading[r] \in VisWork
  BY <1>1, <1>2, IdleReadsNothing DEF Active, VisInv
<1>4. reading[r].kind \in Kind
  BY <1>3 DEF VisWork
<1>5. ReadIsBetween(r, reading[r]) /\ AnswerIsOpen(r, reading[r])
  BY <1>3 DEF VisInv, ReadsAreBetween, AnswersAreOpen
<1>6. reading[r].cards = {}
  BY <1>1, <1>2, <1>5 DEF ReadIsBetween
<1>7. GhostSees(r)
  BY <1>3 DEF VisInv, GhostsSee
<1>8. Read(r).rows = Standing /\ Read(r).open = OpenNow(reading[r].kind, visOf) /\ Standing \subseteq VisBoard
  BY <1>4, SeeByRule DEF Read, Standing, VisInv
<1>9. openAlways[r] \subseteq VisBoard /\ viewAlways[r] \subseteq VisBoard
  BY DEF VisInv, VisTypes
<1> QED BY <1>2, <1>3, <1>4, <1>5, <1>6, <1>7, <1>8, <1>9, SeeByRule DEF VisInv, GhostSees

\* A request that is refused was not about a board that may be seen.
LEMMA RefusalKeeps ==
    ASSUME VisInv, NEW r \in VisReader, Active(r), Refused(r),
           reading[r].kind \in {"getBoard", "getPublic"} =>
               reading[r].asked \notin (openAlways[r] \cup viewAlways[r]) \cap Standing
    PROVE  VisInv'
<1>1. PICK rd \in VisWork : rd = reading[r]
  BY IdleReadsNothing DEF Active, VisInv
<1>2. PICK w : w = [rd EXCEPT !.at = "refused"]
  OBVIOUS
<1>3. w \in VisWork /\ w.at = "refused" /\ w.kind = rd.kind /\ w.asked = rd.asked /\ w.cards = rd.cards
  BY <1>2 DEF VisWork, VisStates
<1>4. rd.cards = {}
  BY <1>1, IdleReadsNothing DEF VisInv, ReadsAreBetween, ReadIsBetween, Active
<1>5. ReadIsBetween(r, w) /\ AnswerIsOpen(r, w)
  BY <1>1, <1>3, <1>4 DEF ReadIsBetween, AnswerIsOpen
<1>6. ReadGoes(r, w) /\ UNCHANGED visGhosts
  BY <1>1, <1>2 DEF Refused
<1> QED BY <1>1, <1>3, <1>5, <1>6, ReadsKeep

\* expand_objects with too many results refuses a list.
LEMMA TooManyKeeps == ASSUME VisInv, NEW r \in VisReader, TooMany(r) PROVE VisInv'
<1>1. Active(r) /\ reading[r].kind \notin {"getBoard", "getPublic"}
  BY DEF TooMany, At, Active
<1> QED BY <1>1, RefusalKeeps DEF TooMany

\* ListBoards.
LEMMA ListKeeps == ASSUME VisInv, NEW r \in VisReader, ListRows(r) \/ ListExpanded(r) PROVE VisInv'
<1>1. CASE ListRows(r)
  <2>1. {"listBoards"} \in SUBSET Kind /\ "begun" \in VisStates \ {"shown", "refused"}
    BY DEF Kind, VisStates
  <2>2. At(r, "begun", {"listBoards"})
    BY <1>1 DEF ListRows
  <2>3. PICK rd \in VisWork : rd = reading[r]
    BY <2>1, <2>2, ReaderUnderWay
  <2>9. PICK rows \in SUBSET VisBoard, open \in SUBSET VisBoard : rows = Read(r).rows /\ open = Read(r).open
    BY <2>1, <2>2, ReaderUnderWay
  <2>4. PICK w : w = [rd EXCEPT !.at = "rowRead", !.rows = rows, !.open = open]
    OBVIOUS
  <2>5. /\ w \in VisWork /\ w.at = "rowRead" /\ w.kind = rd.kind /\ w.rows = rows /\ w.open = open
        /\ w.shown = rd.shown /\ w.cards = rd.cards
    BY <2>3, <2>4, <2>9, ZenonT(60) DEF VisWork, VisStates
  <2>6. ReadIsBetween(r, w) /\ AnswerIsOpen(r, w)
    BY <2>1, <2>2, <2>3, <2>5, <2>9, ReaderUnderWay DEF ReadIsBetween, AnswerIsOpen
  <2>7. Active(r) /\ w.kind = reading[r].kind /\ ReadGoes(r, w) /\ UNCHANGED visGhosts
    BY <1>1, <2>1, <2>2, <2>3, <2>4, <2>5, <2>9, ReaderUnderWay DEF ListRows
  <2> QED BY <2>5, <2>6, <2>7, ReadsKeep
<1>2. CASE ListExpanded(r)
  <2>1. {"listBoards"} \in SUBSET Kind /\ "rowRead" \in VisStates \ {"shown", "refused"}
    BY DEF Kind, VisStates
  <2>2. At(r, "rowRead", {"listBoards"})
    BY <1>2 DEF ListExpanded
  <2>3. PICK rd \in VisWork : rd = reading[r]
    BY <2>1, <2>2, ReaderUnderWay
  <2>9. PICK shown : shown = rd.shown \cup rd.open \cup (rd.rows \cap viewable)
    OBVIOUS
  <2>10. shown \in SUBSET VisBoard
    BY <2>9 DEF VisWork
  <2>4. PICK w : w = [rd EXCEPT !.at = "shown", !.shown = shown]
    OBVIOUS
  <2>5. w \in VisWork /\ w.at = "shown" /\ w.kind = rd.kind /\ w.cards = rd.cards /\ w.shown = shown
    BY <2>4, <2>10 DEF VisWork, VisStates
  <2>6. ReadIsBetween(r, w)
    BY <2>5 DEF ReadIsBetween
  <2>7. AnswerIsOpen(r, w)
    BY <2>1, <2>2, <2>3, <2>5, <2>9, ReaderUnderWay DEF ReadIsBetween, AnswerIsOpen, GrantedNow, Anonymous
  <2>11. ReadGoes(r, [rd EXCEPT !.at = "shown", !.shown = rd.shown \cup rd.open \cup (rd.rows \cap viewable)])
    BY <1>2, <2>3 DEF ListExpanded, ExpandedTo
  <2>8. Active(r) /\ w.kind = reading[r].kind /\ ReadGoes(r, w) /\ UNCHANGED visGhosts
    BY <1>2, <2>1, <2>2, <2>3, <2>4, <2>5, <2>9, <2>11, ReaderUnderWay DEF ListExpanded
  <2> QED BY <2>5, <2>6, <2>7, <2>8, ReadsKeep
<1> QED BY <1>1, <1>2

\* ListAggregatedBoards and ListProjects.
LEMMA ExpandKeeps == ASSUME VisInv, NEW r \in VisReader, ExpandFirst(r) \/ ThenRows(r) PROVE VisInv'
<1> DEFINE K == {"listAggregates", "listProjects"}
<1>0. K \in SUBSET Kind /\ {"begun", "expanded"} \subseteq VisStates \ {"shown", "refused"}
  BY DEF Kind, VisStates
<1>9. viewable \in SUBSET VisBoard
  BY DEF VisInv, VisTypes
<1>1. CASE ExpandFirst(r)
  <2>2. At(r, "begun", K)
    BY <1>1 DEF ExpandFirst
  <2>3. PICK rd \in VisWork : rd = reading[r]
    BY <1>0, <2>2, ReaderUnderWay
  <2>4. PICK w : w = [rd EXCEPT !.at = "expanded", !.granted = viewable]
    OBVIOUS
  <2>5. /\ w \in VisWork /\ w.at = "expanded" /\ w.kind = rd.kind /\ w.granted = viewable /\ w.cards = rd.cards
    BY <1>9, <2>3, <2>4 DEF VisWork, VisStates
  <2>6. ReadIsBetween(r, w) /\ AnswerIsOpen(r, w)
    BY <1>0, <2>2, <2>3, <2>5, ReaderUnderWay DEF ReadIsBetween, AnswerIsOpen, GrantedNow, Anonymous
  <2>7. Active(r) /\ w.kind = reading[r].kind /\ ReadGoes(r, w) /\ UNCHANGED visGhosts
    BY <1>0, <1>1, <2>2, <2>3, <2>4, <2>5, ReaderUnderWay DEF ExpandFirst, ExpandedTo
  <2> QED BY <2>5, <2>6, <2>7, ReadsKeep
<1>2. CASE ThenRows(r)
  <2>2. At(r, "expanded", K)
    BY <1>2 DEF ThenRows
  <2>3. PICK rd \in VisWork : rd = reading[r]
    BY <1>0, <2>2, ReaderUnderWay
  <2>9. PICK shown : shown = Read(r).open \cup (Read(r).rows \cap rd.granted)
    OBVIOUS
  <2>10. shown \in SUBSET VisBoard
    BY <1>0, <2>2, <2>3, <2>9, ReaderUnderWay
  <2>4. PICK w : w = [rd EXCEPT !.at = "shown", !.shown = shown]
    OBVIOUS
  <2>5. w \in VisWork /\ w.at = "shown" /\ w.kind = rd.kind /\ w.cards = rd.cards /\ w.shown = shown
    BY <2>4, <2>10 DEF VisWork, VisStates
  <2>6. ReadIsBetween(r, w)
    BY <2>5 DEF ReadIsBetween
  <2>7. AnswerIsOpen(r, w)
    BY <1>0, <2>2, <2>3, <2>5, <2>9, ReaderUnderWay DEF ReadIsBetween, AnswerIsOpen
  <2>8. Active(r) /\ w.kind = reading[r].kind /\ ReadGoes(r, w) /\ UNCHANGED visGhosts
    BY <1>0, <1>2, <2>2, <2>3, <2>4, <2>5, <2>9, ReaderUnderWay DEF ThenRows
  <2> QED BY <2>5, <2>6, <2>7, <2>8, ReadsKeep
<1> QED BY <1>1, <1>2

\* GetBoard.
LEMMA GetBoardKeeps == ASSUME VisInv, NEW r \in VisReader, GetRow(r) \/ CheckView(r) PROVE VisInv'
<1>0. {"getBoard"} \in SUBSET Kind /\ {"begun", "rowRead"} \subseteq VisStates \ {"shown", "refused"}
  BY DEF Kind, VisStates
<1>1. PICK spot \in {"begun", "rowRead"} : At(r, spot, {"getBoard"})
  BY DEF GetRow, CheckView
<1>2. PICK rd \in VisWork : rd = reading[r]
  BY <1>0, <1>1, ReaderUnderWay
<1>3. rd.kind = "getBoard" /\ rd.at = spot /\ rd.asked \in VisBoard /\ Active(r) /\ rd.cards = {}
  BY <1>0, <1>1, <1>2, ReaderUnderWay DEF VisWork
<1>4. PICK w : w = [rd EXCEPT !.at = "shown", !.shown = {rd.asked}]
  OBVIOUS
<1>5. w \in VisWork /\ w.at = "shown" /\ w.kind = "getBoard" /\ w.cards = {} /\ w.shown = {rd.asked}
  BY <1>3, <1>4 DEF VisWork, VisStates
<1>6. ASSUME rd.asked \in visible[r], ReadGoes(r, w), UNCHANGED visGhosts PROVE VisInv'
  <2>1. ReadIsBetween(r, w) /\ AnswerIsOpen(r, w)
    BY <1>5, <1>6 DEF ReadIsBetween, AnswerIsOpen
  <2> QED BY <1>2, <1>3, <1>5, <1>6, <2>1, ReadsKeep
<1>7. CASE GetRow(r)
  <2>1. CASE ~VisExists(rd.asked)
    BY <1>2, <1>3, <1>7, <2>1, RefusalKeeps DEF GetRow, Standing
  <2>2. CASE VisExists(rd.asked) /\ OpenTo("getBoard", visOf[rd.asked])
    <3>1. ReadGoes(r, w) /\ UNCHANGED visGhosts
      BY <1>2, <1>4, <1>7, <2>2 DEF GetRow
    <3>2. rd.asked \in visible[r]
      BY <1>0, <1>1, <1>2, <1>3, <2>2, ReaderUnderWay DEF Read
    <3> QED BY <1>6, <3>1, <3>2
  <2>3. CASE VisExists(rd.asked) /\ ~OpenTo("getBoard", visOf[rd.asked])
    <3>1. PICK v : v = [rd EXCEPT !.at = "rowRead"]
      OBVIOUS
    <3>2. v \in VisWork /\ v.at = "rowRead" /\ v.kind = "getBoard" /\ v.cards = {} /\ v.asked = rd.asked
      BY <1>3, <3>1 DEF VisWork, VisStates
    <3>3. ReadGoes(r, v) /\ UNCHANGED visGhosts
      BY <1>2, <1>7, <2>3, <3>1 DEF GetRow
    <3>4. rd.asked \notin openAlways[r]
      BY <1>0, <1>1, <1>2, <1>3, <2>3, ReaderUnderWay DEF Read
    <3>5. ReadIsBetween(r, v) /\ AnswerIsOpen(r, v)
      BY <3>2, <3>4 DEF ReadIsBetween, AnswerIsOpen
    <3> QED BY <1>2, <1>3, <3>2, <3>3, <3>5, ReadsKeep
  <2> QED BY <2>1, <2>2, <2>3
<1>8. CASE CheckView(r)
  <2>1. rd.at = "rowRead" /\ rd.asked \notin openAlways[r]
    BY <1>0, <1>1, <1>2, <1>3, <1>8, ReaderUnderWay DEF CheckView, At, ReadIsBetween
  <2>2. viewAlways[r] \subseteq viewable /\ viewable \subseteq visible[r]
    BY <1>0, <1>1, <1>2, <1>3, ReaderUnderWay DEF GrantedNow, Anonymous
  <2>3. CASE rd.asked \notin viewable
    BY <1>2, <1>3, <1>8, <2>1, <2>2, <2>3, RefusalKeeps DEF CheckView
  <2>4. CASE rd.asked \in viewable
    <3>1. ReadGoes(r, w) /\ UNCHANGED visGhosts
      BY <1>2, <1>4, <1>8, <2>4 DEF CheckView
    <3> QED BY <1>6, <2>2, <2>4, <3>1
  <2> QED BY <2>3, <2>4
<1> QED BY <1>7, <1>8

\* GetPublicBoard and ListPublicBoards.
LEMMA PublicKeeps == ASSUME VisInv, NEW r \in VisReader, ShowPublic(r) PROVE VisInv'
<1> DEFINE K == {"getPublic", "listPublic"}
<1>0. K \in SUBSET Kind /\ "begun" \in VisStates \ {"shown", "refused"}
  BY DEF Kind, VisStates
<1>1. At(r, "begun", K)
  BY DEF ShowPublic
<1>2. PICK rd \in VisWork : rd = reading[r]
  BY <1>0, <1>1, ReaderUnderWay
<1>3. rd.kind \in K /\ rd.at = "begun" /\ Active(r) /\ rd.cards = {}
  BY <1>0, <1>1, <1>2, ReaderUnderWay
<1>4. viewAlways[r] = {} /\ openAlways[r] \subseteq Read(r).open /\ Read(r).open \subseteq visible[r]
      /\ Read(r).open \subseteq VisBoard
  BY <1>0, <1>1, <1>2, <1>3, ReaderUnderWay DEF GrantedNow, Anonymous
<1>5. CASE rd.kind = "getPublic" /\ rd.asked \notin Read(r).open
  <2>1. Refused(r)
    BY <1>2, <1>5 DEF ShowPublic
  <2> QED BY <1>2, <1>3, <1>4, <1>5, <2>1, RefusalKeeps
<1>6. CASE ~(rd.kind = "getPublic" /\ rd.asked \notin Read(r).open)
  <2>1. PICK shown : shown = Read(r).open \cap (IF rd.kind = "getPublic" THEN {rd.asked} ELSE VisBoard)
    OBVIOUS
  <2>2. shown \in SUBSET VisBoard /\ shown \subseteq visible[r]
        /\ (rd.kind = "listPublic" => openAlways[r] \subseteq shown)
    BY <1>4, <2>1
  <2>3. PICK w : w = [rd EXCEPT !.at = "shown", !.shown = shown]
    OBVIOUS
  <2>4. w \in VisWork /\ w.at = "shown" /\ w.kind = rd.kind /\ w.cards = rd.cards /\ w.shown = shown
    BY <2>2, <2>3 DEF VisWork, VisStates
  <2>5. ReadIsBetween(r, w) /\ AnswerIsOpen(r, w)
    BY <1>3, <1>4, <2>2, <2>4 DEF ReadIsBetween, AnswerIsOpen
  <2>6. ReadGoes(r, w) /\ UNCHANGED visGhosts
    BY <1>2, <1>6, <2>1, <2>3 DEF ShowPublic
  <2> QED BY <1>2, <1>3, <2>4, <2>5, <2>6, ReadsKeep
<1> QED BY <1>5, <1>6

\* GetAggregatedBoard up to its cards.
LEMMA SourcesKeep ==
    ASSUME VisInv, NEW r \in VisReader, ReadSources(r) \/ ExpandSources(r) \/ OpenSources(r) PROVE VisInv'
<1>0. {"getAggregate"} \in SUBSET Kind /\ {"begun", "sourcesRead", "sourcesExpanded"} \subseteq VisStates \ {"shown", "refused"}
  BY DEF Kind, VisStates
<1>1. PICK spot \in {"begun", "sourcesRead", "sourcesExpanded"} : At(r, spot, {"getAggregate"})
  BY DEF ReadSources, ExpandSources, OpenSources
<1>2. PICK rd \in VisWork : rd = reading[r]
  BY <1>0, <1>1, ReaderUnderWay
<1>3. rd.kind = "getAggregate" /\ rd.at = spot /\ Active(r) /\ rd.cards = {} /\ ReadIsBetween(r, rd)
  BY <1>0, <1>1, <1>2, ReaderUnderWay
<1>4. /\ viewAlways[r] \subseteq viewable /\ viewable \subseteq visible[r] /\ viewable \in SUBSET VisBoard
      /\ openAlways[r] \subseteq Read(r).open /\ Read(r).open \subseteq visible[r]
      /\ Read(r).rows = Standing /\ Read(r).open \in SUBSET VisBoard /\ Standing \in SUBSET VisBoard
  BY <1>0, <1>1, <1>2, <1>3, ReaderUnderWay DEF GrantedNow, Anonymous, VisInv, VisTypes
<1>5. CASE ReadSources(r)
  <2>1. PICK w : w = [rd EXCEPT !.at = "sourcesRead", !.rows = Read(r).rows]
    OBVIOUS
  <2>2. w \in VisWork /\ w.at = "sourcesRead" /\ w.kind = rd.kind /\ w.cards = rd.cards /\ w.rows = Standing
    BY <1>4, <2>1 DEF VisWork, VisStates
  <2>3. ReadIsBetween(r, w) /\ AnswerIsOpen(r, w)
    BY <1>3, <2>2 DEF ReadIsBetween, AnswerIsOpen
  <2>4. ReadGoes(r, w) /\ UNCHANGED visGhosts
    BY <1>2, <1>5, <2>1 DEF ReadSources
  <2> QED BY <1>2, <1>3, <2>2, <2>3, <2>4, ReadsKeep
<1>6. CASE ExpandSources(r)
  <2>1. PICK w : w = [rd EXCEPT !.at = "sourcesExpanded", !.granted = viewable]
    OBVIOUS
  <2>2. w \in VisWork /\ w.at = "sourcesExpanded" /\ w.kind = rd.kind /\ w.cards = rd.cards /\ w.rows = rd.rows /\ w.granted = viewable
    BY <1>4, <2>1 DEF VisWork, VisStates
  <2>3. Standing \subseteq rd.rows
    BY <1>2, <1>3, <1>6 DEF ExpandSources, At, ReadIsBetween
  <2>4. ReadIsBetween(r, w) /\ AnswerIsOpen(r, w)
    BY <1>3, <1>4, <2>2, <2>3 DEF ReadIsBetween, AnswerIsOpen
  <2>5. ReadGoes(r, w) /\ UNCHANGED visGhosts
    BY <1>2, <1>6, <2>1 DEF ExpandSources, ExpandedTo
  <2> QED BY <1>2, <1>3, <2>2, <2>4, <2>5, ReadsKeep
<1>7. CASE OpenSources(r)
  <2>1. PICK shown : shown = rd.rows \cap (rd.granted \cup Read(r).open)
    OBVIOUS
  <2>2. rd.at = "sourcesExpanded"
    BY <1>2, <1>7 DEF OpenSources, At
  <2>3. shown \in SUBSET VisBoard
    BY <2>1 DEF VisWork
  <2>4. shown \subseteq visible[r] /\ (openAlways[r] \cup viewAlways[r]) \cap Standing \subseteq shown
    BY <1>3, <1>4, <2>1, <2>2 DEF ReadIsBetween
  <2>5. PICK w : w = [rd EXCEPT !.at = "expanded", !.shown = shown]
    OBVIOUS
  <2>6. w \in VisWork /\ w.at = "expanded" /\ w.kind = rd.kind /\ w.cards = rd.cards /\ w.shown = shown
    BY <2>3, <2>5 DEF VisWork, VisStates
  <2>7. ReadIsBetween(r, w) /\ AnswerIsOpen(r, w)
    BY <1>3, <2>4, <2>6 DEF ReadIsBetween, AnswerIsOpen
  <2>8. ReadGoes(r, w) /\ UNCHANGED visGhosts
    BY <1>2, <1>7, <2>1, <2>5 DEF OpenSources
  <2> QED BY <1>2, <1>3, <2>6, <2>7, <2>8, ReadsKeep
<1> QED BY <1>5, <1>6, <1>7

\* The cards of an aggregate are of boards the viewer may see now, or of boards that
\* became less visible since the boards were chosen.
LEMMA CardsKeep == ASSUME VisInv, NEW r \in VisReader, FetchCards(r) PROVE VisInv'
<1>0. {"getAggregate"} \in SUBSET Kind /\ "expanded" \in VisStates \ {"shown", "refused"}
  BY DEF Kind, VisStates
<1>1. At(r, "expanded", {"getAggregate"})
  BY DEF FetchCards
<1>2. PICK rd \in VisWork : rd = reading[r]
  BY <1>0, <1>1, ReaderUnderWay
<1>3. /\ rd.kind = "getAggregate" /\ rd.at = "expanded" /\ Active(r) /\ ReadIsBetween(r, rd)
      /\ rd.shown \subseteq visible[r] /\ (openAlways[r] \cup viewAlways[r]) \cap Standing \subseteq rd.shown
  BY <1>0, <1>1, <1>2, ReaderUnderWay DEF ReadIsBetween
<1>4. PICK cards : cards = {<<c, onBoard[c]>> : c \in CardsOf(r)}
  OBVIOUS
<1>5. cards \in SUBSET (VisCard \X VisBoard)
  BY <1>4 DEF CardsOf, VisInv, VisTypes
<1>6. GhostSees(r) /\ reading[r].kind = "getAggregate"
  BY <1>2, <1>3 DEF VisInv, GhostsSee
<1>7. ASSUME NEW cb \in cards, cb \notin cardSeen[r] PROVE cb[2] \in narrowed[r]
  <2>1. PICK c \in VisCard : cb = <<c, onBoard[c]>> /\ onBoard[c] \in rd.shown
    BY <1>2, <1>4, <1>7 DEF CardsOf
  <2>2. onBoard[c] \notin MaySee("getAggregate", visOf, viewable)
    <3>1. Shows("getAggregate") \subseteq cardSeen[r]
      BY <1>6 DEF GhostSees
    <3> QED BY <1>7, <2>1, <3>1 DEF Shows
  <2>3. visible[r] \subseteq MaySee("getAggregate", visOf, viewable) \cup narrowed[r]
    BY <1>6 DEF GhostSees
  <2> QED BY <1>3, <2>1, <2>2, <2>3
<1>8. PICK w : w = [rd EXCEPT !.at = "shown", !.cards = cards]
  OBVIOUS
<1>9. w \in VisWork /\ w.at = "shown" /\ w.kind = rd.kind /\ w.cards = cards /\ w.shown = rd.shown
  BY <1>5, <1>8 DEF VisWork, VisStates
<1>10. ReadIsBetween(r, w) /\ AnswerIsOpen(r, w)
  BY <1>3, <1>7, <1>9 DEF ReadIsBetween, AnswerIsOpen
<1>11. ReadGoes(r, w) /\ UNCHANGED visGhosts
  BY <1>2, <1>4, <1>8 DEF FetchCards
<1> QED BY <1>2, <1>3, <1>9, <1>10, <1>11, ReadsKeep

\* A request begins: it is watched from what is so then.
LEMMA BeginReadingKeeps == ASSUME VisInv, NEW r \in VisReader, BeginReading(r) PROVE VisInv'
<1>1. PICK kind \in Kind, b \in VisBoard :
        /\ reading[r] = NotReading
        /\ ReadGoes(r, [at |-> "begun", kind |-> kind, asked |-> b, rows |-> {}, open |-> {},
                        granted |-> {}, shown |-> {}, cards |-> {}])
        /\ Watch(r, kind)
  BY Zenon DEF BeginReading
<1>2. PICK w : w = [at |-> "begun", kind |-> kind, asked |-> b, rows |-> {}, open |-> {},
                    granted |-> {}, shown |-> {}, cards |-> {}]
  OBVIOUS
<1>3. w \in VisWork /\ w.at = "begun" /\ w.kind = kind /\ w.shown = {} /\ w.cards = {}
  BY <1>2 DEF VisWork, VisStates
<1>4. /\ reading'[r] = w /\ \A q \in VisReader : q # r => reading'[q] = reading[q]
      /\ reading' \in [VisReader -> {NotReading} \cup VisWork] /\ UNCHANGED <<visOf, viewable, onBoard, visChanges>>
  BY <1>1, <1>2, <1>3 DEF ReadGoes, VisInv, VisTypes, visTables
<1>5. /\ visible'[r] = MaySee(kind, visOf, viewable) /\ openAlways'[r] = OpenNow(kind, visOf)
      /\ viewAlways'[r] = GrantedNow(kind, viewable) /\ cardSeen'[r] = Shows(kind) /\ narrowed' = narrowed
      /\ \A q \in VisReader : q # r => /\ visible'[q] = visible[q] /\ openAlways'[q] = openAlways[q]
                                       /\ viewAlways'[q] = viewAlways[q] /\ cardSeen'[q] = cardSeen[q]
  BY <1>1 DEF Watch, VisInv, VisTypes
<1>6. /\ MaySee(kind, visOf, viewable) \in SUBSET VisBoard /\ OpenNow(kind, visOf) \in SUBSET VisBoard
      /\ GrantedNow(kind, viewable) \in SUBSET VisBoard /\ Shows(kind) \in SUBSET (VisCard \X VisBoard)
  BY SeeByRule DEF VisInv, VisTypes, Shows
<1>7. VisTypes'
  BY <1>1, <1>4, <1>6 DEF Watch, VisInv, VisTypes
<1>8. GhostsSee'
  <2> SUFFICES ASSUME NEW q \in VisReader, Active(q)' PROVE GhostSees(q)'
    BY DEF GhostsSee
  <2>1. CASE q = r
    BY <1>3, <1>4, <1>5, <2>1, Zenon DEF GhostSees, Shows
  <2>2. CASE q # r
    <3>1. GhostSees(q)
      BY <1>4, <2>2 DEF VisInv, GhostsSee, Active
    <3> QED BY <1>4, <1>5, <2>2, <3>1, Zenon DEF GhostSees, Shows
  <2> QED BY <2>1, <2>2
<1>9. Standing' = Standing
  BY <1>4 DEF Standing, VisExists
<1>10. ASSUME NEW q \in VisReader, reading'[q] # NotReading
       PROVE  ReadIsBetween(q, reading[q])' /\ AnswerIsOpen(q, reading[q])'
  <2>1. CASE q = r
    BY <1>3, <1>4, <2>1 DEF ReadIsBetween, AnswerIsOpen
  <2>2. CASE q # r
    <3>1. PICK v : v = reading[q] /\ v = reading'[q]
      BY <1>4, <2>2
    <3>2. ReadIsBetween(q, v) /\ AnswerIsOpen(q, v)
      BY <1>10, <3>1, Zenon DEF VisInv, ReadsAreBetween, AnswersAreOpen
    <3>3. ReadIsBetween(q, v)' /\ AnswerIsOpen(q, v)'
      BY <1>5, <1>9, <2>2, <3>2 DEF ReadIsBetween, AnswerIsOpen
    <3> QED BY <3>1, <3>3, Zenon DEF ReadIsBetween, AnswerIsOpen
  <2> QED BY <2>1, <2>2
<1>11. ReadsAreBetween' /\ AnswersAreOpen'
  BY <1>10 DEF ReadsAreBetween, AnswersAreOpen
<1> QED BY <1>7, <1>8, <1>11 DEF VisInv

\* Visibility changes, relations come and go, cards move, boards are deleted.
LEMMA ChangesKeep ==
    ASSUME VisInv, ChangeVisibility \/ GrantView \/ RevokeView \/ CardMovesTo \/ BoardGoes PROVE VisInv'
<1>1. UNCHANGED reading /\ Witness
  BY DEF ChangeVisibility, GrantView, RevokeView, CardMovesTo, BoardGoes, Disturbs
<1>2. /\ visOf' \in [VisBoard -> {"private", "internal", "public", "deleted"}]
      /\ \A b \in VisBoard : visOf'[b] # "deleted" => visOf[b] # "deleted"
  BY DEF ChangeVisibility, GrantView, RevokeView, CardMovesTo, BoardGoes, VisInv, VisTypes, VisExists
<1>3. viewable' \subseteq VisBoard /\ onBoard' \in [VisCard -> VisBoard]
  BY DEF ChangeVisibility, GrantView, RevokeView, CardMovesTo, BoardGoes, VisInv, VisTypes
<1> QED BY <1>1, <1>2, <1>3, OthersKeep

\* The property of the model, from what is known of each answer.
LEMMA OpenAnswersShow == VisInv => ShowsWhatIsOpen
<1> SUFFICES ASSUME VisInv PROVE ShowsWhatIsOpen
  OBVIOUS
<1>1. ASSUME NEW r \in VisReader, reading[r].at \in {"shown", "refused"} PROVE AnswerIsOpen(r, reading[r])
  <2>1. reading[r] # NotReading
    BY <1>1, IdleReadsNothing
  <2> QED BY <2>1 DEF VisInv, AnswersAreOpen
<1>2. \A r \in VisReader : {b \in openAlways[r] \cup viewAlways[r] : VisExists(b)}
                             = (openAlways[r] \cup viewAlways[r]) \cap Standing
  BY DEF Standing, VisInv, VisTypes
<1>3. ShownWasVisible
  BY <1>1 DEF ShownWasVisible, Shown, AnswerIsOpen
<1>4. NoneHidden
  BY <1>1, <1>2 DEF NoneHidden, Shown, AnswerIsOpen
<1>5. CardsWereVisible
  BY <1>1 DEF CardsWereVisible, Shown, AnswerIsOpen
<1> QED BY <1>3, <1>4, <1>5 DEF ShowsWhatIsOpen

\* What the handlers that list and show boards always satisfy.
LEMMA VisInvariant == VisSpec => []VisInv
<1>1. VisInit => VisInv
  BY VisStarts
<1>2. VisInv /\ [VisNext]_visVars => VisInv'
  <2> SUFFICES ASSUME VisInv, [VisNext]_visVars PROVE VisInv'
    OBVIOUS
  <2>1. ASSUME NEW r \in VisReader, BeginReading(r) \/ TooMany(r) PROVE VisInv'
    BY <2>1, BeginReadingKeeps, TooManyKeeps
  <2>2. ASSUME NEW r \in VisReader, ListRows(r) \/ ListExpanded(r) \/ ExpandFirst(r) \/ ThenRows(r) PROVE VisInv'
    BY <2>2, ListKeeps, ExpandKeeps
  <2>3. ASSUME NEW r \in VisReader, GetRow(r) \/ CheckView(r) \/ ShowPublic(r) PROVE VisInv'
    BY <2>3, GetBoardKeeps, PublicKeeps
  <2>4. ASSUME NEW r \in VisReader, ReadSources(r) \/ ExpandSources(r) \/ OpenSources(r) \/ FetchCards(r) PROVE VisInv'
    BY <2>4, SourcesKeep, CardsKeep
  <2>5. CASE ChangeVisibility \/ GrantView \/ RevokeView \/ CardMovesTo \/ BoardGoes
    BY <2>5, ChangesKeep
  <2>6. CASE UNCHANGED visVars
    <3>1. UNCHANGED <<visOf, viewable, onBoard, reading, visible, openAlways, viewAlways, cardSeen, narrowed>>
      BY <2>6 DEF visVars, visTables, visGhosts
    <3> QED BY <3>1 DEF VisInv, VisTypes, GhostsSee, GhostSees, Active, Shows, ReadsAreBetween, ReadIsBetween,
                        AnswersAreOpen, AnswerIsOpen, Standing, VisExists
  <2>7. ASSUME VisNext PROVE VisInv'
    BY <2>1, <2>2, <2>3, <2>4, <2>5, <2>7, Zenon DEF VisNext
  <2> QED BY <2>6, <2>7
<1> QED BY <1>1, <1>2, PTL DEF VisSpec

\* However often visibility, relations, cards and boards change between the queries of a
\* handler, and in whichever order it makes them: it shows what the viewer could see at
\* some moment of the request, and leaves out nothing that was open or granted all the time.
THEOREM AnswersShowWhatIsOpen == VisSpec => []ShowsWhatIsOpen
BY VisInvariant, OpenAnswersShow, PTL

-----------------------------------------------------------------------------
(* ParentTuples: from which boards a card can be seen.                     *)

TupTypes ==
    /\ TuplesTypeOK
    /\ legacy \subseteq TupCard /\ left \in [TupCard -> SUBSET TupBoard] /\ alone \subseteq TupCard
    /\ created \in 0..TupCards /\ applied \in BOOLEAN
    /\ \A c \in TupCard : Exists(c) => c <= created
    /\ \A r \in TupRequest :
          /\ job[r].step \in {"read", "ungrant", "grant", "ungrantAll"} => job[r].card \in TupCard /\ job[r].card <= created
          /\ job[r].step \in {"idle", "done"} => job[r] \in {Idle, Over}
          /\ job[r].step = "ungrantAll" => ~Exists(job[r].card)
          /\ job[r].step \in {"read", "ungrant"} => job[r].from \in TupBoard
          /\ job[r].step \in {"read", "ungrant", "grant"} => job[r].to \in TupBoard
    /\ migration.step = "grant" => migration.last \in TupCard /\ migration.board \in TupBoard /\ migration.last <= created
    /\ migration.last <= created

\* A move that was not for the board a card is on was for one it left, and so is
\* the tuple it deletes.
MovesLeave ==
    \A r \in TupRequest :
        /\ job[r].step = "read" => (job[r].from = home[job[r].card] \/ job[r].from \in left[job[r].card]
                                      \/ ~Exists(job[r].card))
        /\ job[r].step = "ungrant" => job[r].from \in left[job[r].card]

\* The tuple of the board of a card is there, or a request is going to grant it.
WillBeParent(c) ==
    \/ <<c, home[c]>> \in tuples
    \/ \E r \in TupRequest : job[r].card = c /\ job[r].step \in {"ungrant", "grant"} /\ job[r].to = home[c]

\* The migration is past the card, or is going to grant the tuple of a board.
Scanned(c) == migration.step # "off" /\ c <= migration.last
Granting(c) == migration.step = "grant" /\ c = migration.last

ParentsStand ==
    \A c \in TupCard :
        (Exists(c) /\ home[c] \notin left[c] /\ <<c, "grant">> \notin faults
            /\ (c \in legacy => applied \/ Scanned(c)))
          => WillBeParent(c) \/ (Granting(c) /\ c \in legacy /\ ~applied /\ migration.board = home[c])

\* Nobody has begun a request since the migration started.
Undisturbed == {r \in TupRequest : job[r] # Idle} \subseteq migration.before

Repaired ==
    /\ \A r \in migration.before : job[r] = Over
    /\ (migration.step # "off" /\ Undisturbed) =>
          \A c \in TupCard : (Exists(c) /\ c <= migration.last) =>
              IF Granting(c) THEN migration.board = home[c] ELSE <<c, home[c]>> \in tuples

\* Nothing but its own deletion is about a card that was deleted alone.
AloneGoes ==
    \A c \in alone :
        /\ ~Exists(c) /\ c <= created /\ ~Granting(c)
        /\ \A r \in TupRequest : job[r].card = c => job[r].step = "ungrantAll"
        /\ \/ \E r \in TupRequest : job[r].card = c
           \/ <<c, "ungrantAll">> \in faults
           \/ \A b \in TupBoard : <<c, b>> \notin tuples

TupInv == TupTypes /\ MovesLeave /\ ParentsStand /\ Repaired /\ AloneGoes

TupJob == [step : {"idle", "read", "ungrant", "grant", "ungrantAll", "done"},
           card : 0..TupCards, from : TupBoard \cup {NoHome}, to : TupBoard \cup {NoHome}]

-----------------------------------------------------------------------------
\* A request that has nothing to do is about no card.
LEMMA NothingToDo ==
    /\ Idle.step = "idle" /\ Idle.card = 0 /\ Over.step = "done" /\ Over.card = 0 /\ Idle # Over
    /\ Idle \in TupJob /\ Over \in TupJob /\ 0 \notin TupCard
  BY TuplesAssumption DEF Idle, Over, TupJob, TupCard

\* The first state: one card, with its tuple or from the time before there were tuples.
LEMMA TupStarts == TuplesInit => TupInv
<1> SUFFICES ASSUME TuplesInit PROVE TupInv
  OBVIOUS
<1>1. PICK b \in TupBoard :
        /\ home = [c \in TupCard |-> IF c = 1 THEN b ELSE NoHome]
        /\ \/ tuples = {} /\ legacy = {1}
           \/ tuples = {<<1, b>>} /\ legacy = {}
  BY DEF TuplesInit
<1>2. /\ left = [c \in TupCard |-> {}] /\ alone = {} /\ created = 1 /\ faults = {} /\ applied = FALSE
      /\ \A r \in TupRequest : job[r] = Idle
      /\ job \in [TupRequest -> TupJob]
  BY NothingToDo DEF TuplesInit
<1>3. migration = NotMigrating /\ migration.step = "off" /\ migration.last = 0 /\ migration.before = {} /\ migration.board = NoHome
  BY DEF TuplesInit, NotMigrating
<1>4. 1 \in TupCard /\ TupCards \in Nat /\ TupCards >= 1
  BY TuplesAssumption DEF TupCard
<1>5. \A c \in TupCard : Exists(c) => c = 1 /\ home[c] = b
  BY <1>1 DEF Exists
<1>6. TuplesTypeOK
  <2>1. migration \in [step : {"off", "scan", "grant"}, last : 0..TupCards,
                       board : TupBoard \cup {NoHome}, before : SUBSET TupRequest]
    BY <1>3, <1>4 DEF NotMigrating
  <2>2. tuples \subseteq TupCard \X TupBoard /\ home \in [TupCard -> TupBoard \cup {NoHome}]
    BY <1>1, <1>4
  <2> QED BY <1>2, <2>1, <2>2 DEF TuplesTypeOK, TupJob
<1>7. TupTypes
  <2>1. \A c \in TupCard : Exists(c) => c <= created
    BY <1>2, <1>5
  <2>2. \A r \in TupRequest : job[r].step = "idle" /\ job[r] \in {Idle, Over}
    BY <1>2, NothingToDo
  <2>3. /\ legacy \subseteq TupCard /\ left \in [TupCard -> SUBSET TupBoard] /\ alone \subseteq TupCard
        /\ created \in 0..TupCards /\ applied \in BOOLEAN /\ migration.last <= created
    <3>1. migration.last = 0 /\ 0 <= created /\ created \in 0..TupCards
      BY <1>2, <1>3, <1>4
    <3>2. legacy \subseteq TupCard
      BY <1>1, <1>4
    <3> QED BY <1>2, <3>1, <3>2
  <2> QED BY <1>3, <1>6, <2>1, <2>2, <2>3 DEF TupTypes
<1>8. ParentsStand
  BY <1>1, <1>2, <1>3, <1>5 DEF ParentsStand, WillBeParent, Scanned
<1>9. MovesLeave /\ Repaired /\ AloneGoes
  BY <1>2, <1>3, NothingToDo DEF MovesLeave, Repaired, AloneGoes
<1> QED BY <1>7, <1>8, <1>9 DEF TupInv

\* A request that does something disturbs the migration.
LEMMA RequestDisturbs ==
    ASSUME TupInv, NEW r \in TupRequest, NEW j \in TupJob, Goes(r, j), job[r] # Over, j # Idle, UNCHANGED migration
    PROVE  /\ Repaired'
           /\ job' \in [TupRequest -> TupJob] /\ job'[r] = j /\ \A q \in TupRequest : q # r => job'[q] = job[q]
<1>1. job' \in [TupRequest -> TupJob] /\ job'[r] = j /\ \A q \in TupRequest : q # r => job'[q] = job[q]
  BY DEF Goes, TupInv, TupTypes, TuplesTypeOK, TupJob
<1>2. migration.before \subseteq TupRequest /\ r \notin migration.before
  BY DEF TupInv, TupTypes, TuplesTypeOK, Repaired
<1>3. ~Undisturbed'
  BY <1>1, <1>2 DEF Undisturbed
<1> QED BY <1>1, <1>2, <1>3 DEF TupInv, Repaired

\* A request goes on, and neither cards nor the migration change.
LEMMA StepKeeps ==
    ASSUME TupInv, NEW r \in TupRequest, NEW j \in TupJob, Goes(r, j), job[r] # Over, j # Idle,
           UNCHANGED <<home, legacy, left, alone, created, migration, applied>>,
           tuples' \subseteq TupCard \X TupBoard, faults \subseteq faults',
           \* the type of what it goes to
           j.step \in {"read", "ungrant", "grant", "ungrantAll"} => j.card \in TupCard /\ j.card <= created,
           j.step \in {"idle", "done"} => j = Over,
           j.step = "ungrantAll" => ~Exists(j.card),
           j.step \in {"read", "ungrant"} => j.from \in TupBoard,
           j.step \in {"read", "ungrant", "grant"} => j.to \in TupBoard,
           j.step = "read" => j.from = home[j.card],
           j.step # "ungrant",
           \* the tuples of a card on a board it never left
           \A c \in TupCard : (<<c, home[c]>> \in tuples /\ Exists(c) /\ home[c] \notin left[c]) => <<c, home[c]>> \in tuples',
           job[r].step \in {"ungrant", "grant"} =>
               \/ j.step = "grant" /\ j.card = job[r].card /\ j.to = job[r].to
               \/ <<job[r].card, "grant">> \in faults'
               \/ <<job[r].card, job[r].to>> \in tuples',
           \* and of one that was deleted alone
           \A c \in alone : j.card = c => j.step = "ungrantAll",
           \A c \in alone, b \in TupBoard : <<c, b>> \in tuples' => <<c, b>> \in tuples,
           \A c \in alone : job[r].card = c =>
               \/ j.card = c \/ <<c, "ungrantAll">> \in faults' \/ \A b \in TupBoard : <<c, b>> \notin tuples'
    PROVE  TupInv'
<1>1. /\ Repaired' /\ job' \in [TupRequest -> TupJob] /\ job'[r] = j
      /\ \A q \in TupRequest : q # r => job'[q] = job[q]
  BY RequestDisturbs
<1>2. TupTypes'
  <2>1. TuplesTypeOK'
    BY <1>1 DEF TupInv, TupTypes, TuplesTypeOK, TupJob
  <2>2. \A q \in TupRequest : job'[q] = job[q] \/ job'[q] = j
    BY <1>1
  <2> QED BY <2>1, <2>2 DEF TupInv, TupTypes, Exists
<1>3. MovesLeave'
  BY <1>1 DEF TupInv, MovesLeave, Exists
<1>4. ParentsStand'
  <2> SUFFICES ASSUME NEW c \in TupCard, Exists(c), home[c] \notin left[c], <<c, "grant">> \notin faults',
                      c \in legacy => applied \/ Scanned(c)
               PROVE  WillBeParent(c)' \/ (Granting(c) /\ c \in legacy /\ ~applied /\ migration.board = home[c])
    BY DEF ParentsStand, Exists, Scanned, Granting
  <2>1. CASE <<c, home[c]>> \in tuples
    BY <2>1 DEF WillBeParent
  <2>2. ASSUME NEW q \in TupRequest, job[q].card = c, job[q].step \in {"ungrant", "grant"}, job[q].to = home[c]
        PROVE  WillBeParent(c)'
    <3>1. CASE q = r
      <4>1. \/ j.step = "grant" /\ j.card = c /\ j.to = home[c]
            \/ <<c, home[c]>> \in tuples'
        BY <2>2, <3>1
      <4> QED BY <1>1, <4>1 DEF WillBeParent
    <3>2. CASE q # r
      <4>1. job'[q] = job[q]
        BY <1>1, <3>2
      <4> QED BY <2>2, <4>1 DEF WillBeParent
    <3> QED BY <3>1, <3>2
  <2>3. WillBeParent(c) \/ (Granting(c) /\ c \in legacy /\ ~applied /\ migration.board = home[c])
    BY DEF TupInv, ParentsStand
  <2> QED BY <2>1, <2>2, <2>3 DEF WillBeParent
<1>5. AloneGoes'
  <2> SUFFICES ASSUME NEW c \in alone
               PROVE  /\ ~Exists(c) /\ c <= created /\ ~Granting(c)
                      /\ \A q \in TupRequest : job'[q].card = c => job'[q].step = "ungrantAll"
                      /\ \/ \E q \in TupRequest : job'[q].card = c
                         \/ <<c, "ungrantAll">> \in faults'
                         \/ \A b \in TupBoard : <<c, b>> \notin tuples'
    BY DEF AloneGoes, Exists, Granting
  <2>1. /\ ~Exists(c) /\ c <= created /\ ~Granting(c)
        /\ \A q \in TupRequest : job[q].card = c => job[q].step = "ungrantAll"
        /\ \/ \E q \in TupRequest : job[q].card = c
           \/ <<c, "ungrantAll">> \in faults
           \/ \A b \in TupBoard : <<c, b>> \notin tuples
    BY DEF TupInv, AloneGoes
  <2>2. \A q \in TupRequest : job'[q].card = c => job'[q].step = "ungrantAll"
    BY <1>1, <2>1
  <2>3. ASSUME NEW q \in TupRequest, job[q].card = c
        PROVE  \/ \E p \in TupRequest : job'[p].card = c
               \/ <<c, "ungrantAll">> \in faults'
               \/ \A b \in TupBoard : <<c, b>> \notin tuples'
    BY <1>1, <2>3
  <2> QED BY <2>1, <2>2, <2>3
<1> QED BY <1>1, <1>2, <1>3, <1>4, <1>5 DEF TupInv

\* MoveCard and TransferCard read the card.
LEMMA ReadMoveKeeps == ASSUME TupInv, NEW r \in TupRequest, ReadMove(r) PROVE TupInv'
<1>1. PICK c \in TupCard, b \in TupBoard :
        /\ job[r] = Idle /\ Exists(c)
        /\ Goes(r, [step |-> "read", card |-> c, from |-> home[c], to |-> b])
        /\ UNCHANGED <<tupCardVars, tuples, migration, applied, faults>>
  BY DEF ReadMove
<1>2. PICK j : j = [step |-> "read", card |-> c, from |-> home[c], to |-> b]
  OBVIOUS
<1>3. /\ c <= created /\ c \in 0..TupCards /\ home[c] \in TupBoard
  BY <1>1 DEF TupInv, TupTypes, TuplesTypeOK, Exists, TupCard
<1>4. j \in TupJob /\ j.step = "read" /\ j.card = c /\ j.from = home[c] /\ j.to = b
  BY <1>2, <1>3 DEF TupJob
<1>5. j # Idle /\ job[r].step = "idle" /\ job[r].card = 0 /\ job[r] # Over
  BY <1>1, <1>4, NothingToDo
<1>6. \A d \in alone : d # c /\ d # 0
  BY <1>1, NothingToDo DEF TupInv, AloneGoes, TupTypes
<1>7. /\ UNCHANGED <<home, legacy, left, alone, created, migration, applied, tuples, faults>> /\ Goes(r, j)
      /\ tuples \subseteq TupCard \X TupBoard
  BY <1>1, <1>2 DEF tupCardVars, TupInv, TupTypes, TuplesTypeOK
<1> QED BY <1>3, <1>4, <1>5, <1>6, <1>7, StepKeeps

\* The card a request is about.
LEMMA JobIs ==
    ASSUME TupInv, NEW r \in TupRequest, job[r].step \in {"read", "ungrant", "grant", "ungrantAll"}
    PROVE  /\ job[r] \in TupJob /\ job[r].card \in TupCard /\ job[r].card <= created /\ job[r] # Over /\ job[r] # Idle
           /\ job[r].step \in {"read", "ungrant"} => job[r].from \in TupBoard
           /\ job[r].step \in {"read", "ungrant", "grant"} => job[r].to \in TupBoard
           /\ job[r].step = "ungrantAll" => ~Exists(job[r].card)
           /\ job[r].step = "ungrant" => job[r].from \in left[job[r].card]
           /\ job[r].step # "ungrantAll" => job[r].card \notin alone
           /\ job[r].step = "read" => job[r].from = home[job[r].card] \/ job[r].from \in left[job[r].card]
                                         \/ ~Exists(job[r].card)
           /\ tuples \subseteq TupCard \X TupBoard /\ Over # Idle /\ Over \in TupJob /\ Over.step = "done" /\ Over.card = 0
           /\ 0 \notin alone /\ 0 \notin TupCard
<1>1. job[r] # Over /\ job[r] # Idle /\ Over # Idle /\ Over \in TupJob /\ Over.step = "done" /\ Over.card = 0 /\ 0 \notin TupCard
  BY NothingToDo
<1>2. job[r] \in TupJob /\ tuples \subseteq TupCard \X TupBoard /\ 0 \notin alone
  BY <1>1 DEF TupInv, TupTypes, TuplesTypeOK, TupJob
<1>3. job[r].step # "ungrantAll" => job[r].card \notin alone
  BY DEF TupInv, AloneGoes
<1> QED BY <1>1, <1>2, <1>3 DEF TupInv, TupTypes, MovesLeave

\* The card is gone, or the pod dies: nothing is done any more.
LEMMA DropsKeep == ASSUME TupInv, NEW r \in TupRequest, MoveNotFound(r) \/ DropJob(r) PROVE TupInv'
<1>1. /\ Goes(r, Over) /\ UNCHANGED <<tupCardVars, tuples, migration, applied>> /\ faults \subseteq faults'
      /\ job[r].step = "read" \/ {<<job[r].card, s>> : s \in {job[r].step, "grant"}} \subseteq faults'
      /\ job[r].step \notin {"idle", "done"}
  BY DEF MoveNotFound, DropJob
<1>2. job[r].step \in {"read", "ungrant", "grant", "ungrantAll"}
  BY <1>1 DEF TupInv, TupTypes, TuplesTypeOK
<1>3. UNCHANGED <<home, legacy, left, alone, created, migration, applied, tuples>>
  BY <1>1 DEF tupCardVars
<1>4. job[r].step # "read" => <<job[r].card, job[r].step>> \in faults' /\ <<job[r].card, "grant">> \in faults'
  BY <1>1
<1>5. \A c \in alone : job[r].card = c => <<c, "ungrantAll">> \in faults'
  BY <1>2, <1>4, JobIs
<1>6. /\ job[r] # Over /\ Over # Idle /\ Over \in TupJob /\ Over.step = "done" /\ Over.card = 0 /\ 0 \notin alone
      /\ tuples' \subseteq TupCard \X TupBoard
  BY <1>2, <1>3, JobIs
<1>7. \A c \in alone : Over.card # c
  BY <1>6
<1> QED BY <1>1, <1>2, <1>3, <1>4, <1>5, <1>6, <1>7, StepKeeps

\* A move deletes the tuple of the board it read: one the card has left.
LEMMA UngrantOldKeeps == ASSUME TupInv, NEW r \in TupRequest, UngrantOld(r) PROVE TupInv'
<1>1. /\ job[r].step = "ungrant" /\ Goes(r, [job[r] EXCEPT !.step = "grant"])
      /\ UNCHANGED <<tupCardVars, migration, applied>>
      /\ tuples' \subseteq tuples /\ faults \subseteq faults' /\ tuples \ {<<job[r].card, job[r].from>>} \subseteq tuples'
  BY DEF UngrantOld, Calls, LeftTuples
<1>2. PICK old \in TupJob : old = job[r]
  BY <1>1, JobIs
<1>3. PICK j : j = [old EXCEPT !.step = "grant"]
  OBVIOUS
<1>4. j \in TupJob /\ j.step = "grant" /\ j.card = old.card /\ j.to = old.to
  BY <1>3 DEF TupJob
<1>5. j # Idle
  BY <1>4, NothingToDo
<1>6. UNCHANGED <<home, legacy, left, alone, created, migration, applied>>
  BY <1>1 DEF tupCardVars
<1>7. old.from \in left[old.card] /\ old.card \in TupCard /\ old.card <= created /\ old.to \in TupBoard /\ old.card \notin alone
      /\ job[r] # Over /\ tuples \subseteq TupCard \X TupBoard
  BY <1>1, <1>2, JobIs
<1>8. \A c \in TupCard : (<<c, home[c]>> \in tuples /\ Exists(c) /\ home[c] \notin left[c]) => <<c, home[c]>> \in tuples'
  BY <1>1, <1>2, <1>7
<1>9. Goes(r, j)
  BY <1>1, <1>2, <1>3
<1>10. /\ tuples' \subseteq TupCard \X TupBoard
       /\ \A c \in alone, b \in TupBoard : <<c, b>> \in tuples' => <<c, b>> \in tuples
  BY <1>1, <1>7
<1>11. \A c \in alone : job[r].card # c /\ j.card # c
  BY <1>2, <1>4, <1>7
<1>12. j.card = job[r].card /\ j.to = job[r].to /\ j.card \in TupCard /\ j.card <= created /\ j.to \in TupBoard
  BY <1>2, <1>4, <1>7
<1>13. /\ Goes(r, j) /\ job[r] # Over /\ j # Idle
       /\ UNCHANGED <<home, legacy, left, alone, created, migration, applied>>
       /\ tuples' \subseteq TupCard \X TupBoard /\ faults \subseteq faults'
       /\ j \in TupJob /\ j.step = "grant" /\ j.card = job[r].card /\ j.to = job[r].to
       /\ j.card \in TupCard /\ j.card <= created /\ j.to \in TupBoard
       /\ \A c \in TupCard : (<<c, home[c]>> \in tuples /\ Exists(c) /\ home[c] \notin left[c]) => <<c, home[c]>> \in tuples'
       /\ \A c \in alone, b \in TupBoard : <<c, b>> \in tuples' => <<c, b>> \in tuples
       /\ \A c \in alone : job[r].card # c /\ j.card # c
  BY <1>1, <1>4, <1>5, <1>6, <1>7, <1>8, <1>9, <1>10, <1>11, <1>12
<1> QED BY <1>13, StepKeeps, ZenonT(60)

\* The tuple of the board a card was created on, or moved to.
LEMMA GrantNewKeeps == ASSUME TupInv, NEW r \in TupRequest, GrantNew(r) PROVE TupInv'
<1>1. /\ job[r].step = "grant" /\ Goes(r, Over) /\ UNCHANGED <<tupCardVars, migration, applied>>
      /\ \/ tuples' = tuples \cup {<<job[r].card, job[r].to>>} /\ faults' = faults
         \/ tuples' = tuples /\ faults' = faults \cup {<<job[r].card, "grant">>}
  BY DEF GrantNew, Calls
<1>2. UNCHANGED <<home, legacy, left, alone, created, migration, applied>>
  BY <1>1 DEF tupCardVars
<1>3. job[r].card \in TupCard /\ job[r].to \in TupBoard /\ job[r].card \notin alone
      /\ job[r] # Over /\ tuples \subseteq TupCard \X TupBoard
  BY <1>1, JobIs
<1>4. tuples' \subseteq TupCard \X TupBoard /\ tuples \subseteq tuples' /\ faults \subseteq faults'
      /\ (<<job[r].card, "grant">> \in faults' \/ <<job[r].card, job[r].to>> \in tuples')
  BY <1>1, <1>3
<1>5. \A c \in alone, b \in TupBoard : <<c, b>> \in tuples' => <<c, b>> \in tuples
  BY <1>1, <1>3
<1> QED BY <1>1, <1>2, <1>3, <1>4, <1>5, JobIs, StepKeeps

\* DeleteCard deletes every tuple of the card.
LEMMA UngrantAllKeeps == ASSUME TupInv, NEW r \in TupRequest, UngrantAll(r) PROVE TupInv'
<1>1. /\ job[r].step = "ungrantAll" /\ Goes(r, Over) /\ UNCHANGED <<tupCardVars, migration, applied>>
      /\ \/ tuples' = {t \in tuples : t[1] # job[r].card} /\ faults' = faults
         \/ tuples' = tuples /\ faults' = faults \cup {<<job[r].card, "ungrantAll">>}
  BY DEF UngrantAll, Calls
<1>2. UNCHANGED <<home, legacy, left, alone, created, migration, applied>>
  BY <1>1 DEF tupCardVars
<1>3. ~Exists(job[r].card) /\ job[r] # Over /\ tuples \subseteq TupCard \X TupBoard
  BY <1>1, JobIs
<1>4. tuples' \subseteq tuples /\ faults \subseteq faults'
  BY <1>1
<1>5. \A c \in TupCard : (<<c, home[c]>> \in tuples /\ Exists(c)) => <<c, home[c]>> \in tuples'
  BY <1>1, <1>3
<1>6. \A c \in alone : job[r].card = c => <<c, "ungrantAll">> \in faults' \/ \A b \in TupBoard : <<c, b>> \notin tuples'
  BY <1>1
<1>7. /\ Over # Idle /\ Over \in TupJob /\ Over.step = "done" /\ Over.card = 0 /\ 0 \notin alone
      /\ tuples' \subseteq TupCard \X TupBoard
  BY <1>1, <1>3, <1>4, JobIs
<1>8. \A c \in alone : Over.card # c
  BY <1>7
<1>9. \A c \in alone, b \in TupBoard : <<c, b>> \in tuples' => <<c, b>> \in tuples
  BY <1>4
<1>10. /\ Goes(r, Over) /\ job[r] # Over /\ Over # Idle /\ job[r].step = "ungrantAll"
       /\ UNCHANGED <<home, legacy, left, alone, created, migration, applied>>
       /\ tuples' \subseteq TupCard \X TupBoard /\ faults \subseteq faults'
       /\ Over \in TupJob /\ Over.step = "done"
       /\ \A c \in TupCard : (<<c, home[c]>> \in tuples /\ Exists(c)) => <<c, home[c]>> \in tuples'
       /\ \A c \in alone, b \in TupBoard : <<c, b>> \in tuples' => <<c, b>> \in tuples
       /\ \A c \in alone : Over.card # c
  BY <1>1, <1>2, <1>3, <1>4, <1>5, <1>6, <1>7, <1>8, <1>9
<1>11. /\ (Over.step \in {"read", "ungrant", "grant", "ungrantAll"} => Over.card \in TupCard /\ Over.card <= created)
       /\ (Over.step \in {"idle", "done"} => Over = Over)
       /\ (Over.step = "ungrantAll" => ~Exists(Over.card))
       /\ (Over.step \in {"read", "ungrant"} => Over.from \in TupBoard)
       /\ (Over.step \in {"read", "ungrant", "grant"} => Over.to \in TupBoard)
       /\ (Over.step = "read" => Over.from = home[Over.card])
       /\ Over.step # "ungrant"
  BY <1>10
<1>12. (job[r].step \in {"ungrant", "grant"} =>
               \/ Over.step = "grant" /\ Over.card = job[r].card /\ Over.to = job[r].to
               \/ <<job[r].card, "grant">> \in faults'
               \/ <<job[r].card, job[r].to>> \in tuples')
  BY <1>10
<1>13. \A c \in alone : Over.card = c => Over.step = "ungrantAll"
  BY <1>10
<1>14. \A c \in TupCard : (<<c, home[c]>> \in tuples /\ Exists(c) /\ home[c] \notin left[c]) => <<c, home[c]>> \in tuples'
  BY <1>10
<1>15. \A c \in alone : job[r].card = c =>
               \/ Over.card = c \/ <<c, "ungrantAll">> \in faults' \/ \A b \in TupBoard : <<c, b>> \notin tuples'
  BY <1>1
<1> QED BY <1>10, <1>11, <1>12, <1>13, <1>14, <1>15, StepKeeps, ZenonT(90)

\* CreateCard commits, and is about to grant.
LEMMA CreateKeeps == ASSUME TupInv, NEW r \in TupRequest, CommitCreate(r) PROVE TupInv'
<1>0. PICK n \in Nat : n = created + 1
  BY TuplesAssumption DEF TupInv, TupTypes
<1>1. PICK b \in TupBoard :
        /\ job[r] = Idle /\ n = created + 1 /\ created < TupCards /\ created' = n
        /\ home' = [home EXCEPT ![n] = b]
        /\ Goes(r, [step |-> "grant", card |-> n, from |-> NoHome, to |-> b])
        /\ UNCHANGED <<legacy, left, alone, tuples, migration, applied, faults>>
  BY <1>0 DEF CommitCreate
<1>2. PICK j : j = [step |-> "grant", card |-> n, from |-> NoHome, to |-> b]
  OBVIOUS
<1>3. n \in TupCard /\ n \in 0..TupCards /\ created \in Nat /\ ~(n <= created)
  BY <1>1, TuplesAssumption DEF TupInv, TupTypes, TupCard
<1>4. j \in TupJob /\ j.step = "grant" /\ j.card = n /\ j.to = b
  BY <1>2, <1>3 DEF TupJob
<1>5. j # Idle /\ job[r] # Over /\ job[r].card = 0 /\ job[r].step = "idle" /\ b # NoHome /\ 0 \notin TupCard
  BY <1>1, <1>4, NothingToDo, TuplesAssumption
<1>6. Goes(r, j)
  BY <1>1, <1>2
<1>7. /\ Repaired' /\ job' \in [TupRequest -> TupJob] /\ job'[r] = j
      /\ \A q \in TupRequest : q # r => job'[q] = job[q]
  BY <1>1, <1>4, <1>5, <1>6, RequestDisturbs
<1>8. /\ home' \in [TupCard -> TupBoard \cup {NoHome}] /\ home'[n] = b
      /\ \A c \in TupCard : c # n => home'[c] = home[c]
  BY <1>1, <1>3 DEF TupInv, TupTypes, TuplesTypeOK
<1>9. ~Exists(n) /\ \A c \in TupCard : Exists(c)' <=> Exists(c) \/ c = n
  BY <1>3, <1>5, <1>8 DEF Exists, TupInv, TupTypes
<1>10. \A q \in TupRequest : job[q].step \in {"read", "ungrant", "grant", "ungrantAll"} =>
          job[q].card \in TupCard /\ job[q].card <= created /\ job[q].card # n
  BY <1>3 DEF TupInv, TupTypes
<1>11. TupTypes'
  <2>1. TuplesTypeOK'
    BY <1>1, <1>7, <1>8 DEF TupInv, TupTypes, TuplesTypeOK, TupJob
  <2>2. ASSUME NEW q \in TupRequest
        PROVE  /\ job'[q].step \in {"read", "ungrant", "grant", "ungrantAll"} => job'[q].card \in TupCard /\ job'[q].card <= created'
               /\ job'[q].step \in {"idle", "done"} => job'[q] \in {Idle, Over}
               /\ job'[q].step = "ungrantAll" => ~Exists(job[q].card)'
               /\ job'[q].step \in {"read", "ungrant"} => job'[q].from \in TupBoard
               /\ job'[q].step \in {"read", "ungrant", "grant"} => job'[q].to \in TupBoard
    <3>1. CASE q = r
      BY <1>1, <1>3, <1>4, <1>7, <3>1
    <3>2. CASE q # r
      <4>1. job'[q] = job[q] /\ created <= created'
        BY <1>1, <1>3, <1>7, <3>2
      <4>2. job[q].step = "ungrantAll" => ~Exists(job[q].card)'
        <5>1. PICK d : d = job[q].card /\ d = job'[q].card
          BY <4>1
        <5>2. job[q].step = "ungrantAll" => d \in TupCard /\ d # n /\ ~Exists(d)
          BY <1>10, <5>1 DEF TupInv, TupTypes
        <5>3. job[q].step = "ungrantAll" => ~Exists(d)'
          BY <1>9, <5>2
        <5> QED BY <5>1, <5>3 DEF Exists
      <4>3. job[q].step \in {"read", "ungrant", "grant", "ungrantAll"} => job[q].card \in TupCard /\ job[q].card <= created'
        BY <1>1, <1>3, <1>10 DEF TupCard
      <4> QED BY <4>1, <4>2, <4>3 DEF TupInv, TupTypes
    <3> QED BY <3>1, <3>2
  <2>3. \A c \in TupCard : Exists(c)' => c <= created'
    BY <1>1, <1>3, <1>9 DEF TupInv, TupTypes, TupCard
  <2>4. created' \in 0..TupCards /\ migration'.last <= created' /\ (migration'.step = "grant" => migration'.last <= created')
    BY <1>1, <1>3 DEF TupInv, TupTypes, TuplesTypeOK
  <2> QED BY <1>1, <2>1, <2>2, <2>3, <2>4 DEF TupInv, TupTypes
<1>12. MovesLeave'
  <2> SUFFICES ASSUME NEW q \in TupRequest
               PROVE  /\ job'[q].step = "read" => (job'[q].from = home'[job'[q].card] \/ job'[q].from \in left[job'[q].card]
                                                      \/ ~Exists(job[q].card)')
                      /\ job'[q].step = "ungrant" => job'[q].from \in left[job'[q].card]
    BY <1>1 DEF MovesLeave
  <2>1. CASE q = r
    BY <1>4, <1>7, <2>1
  <2>2. CASE q # r
    BY <1>7, <1>8, <1>9, <1>10, <2>2 DEF TupInv, MovesLeave
  <2> QED BY <2>1, <2>2
<1>13. ParentsStand'
  <2> SUFFICES ASSUME NEW c \in TupCard, Exists(c)', home'[c] \notin left[c], <<c, "grant">> \notin faults,
                      c \in legacy => applied \/ Scanned(c)
               PROVE  WillBeParent(c)' \/ (Granting(c) /\ c \in legacy /\ ~applied /\ migration.board = home'[c])
    BY <1>1 DEF ParentsStand, Scanned, Granting
  <2>1. CASE c = n
    BY <1>4, <1>7, <1>8, <2>1 DEF WillBeParent
  <2>2. CASE c # n
    <3>1. WillBeParent(c) \/ (Granting(c) /\ c \in legacy /\ ~applied /\ migration.board = home[c])
      BY <1>8, <1>9, <2>2 DEF TupInv, ParentsStand
    <3>2. ASSUME NEW q \in TupRequest, job[q].card = c PROVE job'[q] = job[q]
      BY <1>5, <1>7, <3>2
    <3>3. WillBeParent(c) => WillBeParent(c)'
      BY <1>1, <1>8, <2>2, <3>2 DEF WillBeParent
    <3> QED BY <1>8, <2>2, <3>1, <3>3
  <2> QED BY <2>1, <2>2
<1>14. AloneGoes'
  <2> SUFFICES ASSUME NEW c \in alone
               PROVE  /\ ~Exists(c)' /\ c <= created' /\ ~Granting(c)
                      /\ \A q \in TupRequest : job'[q].card = c => job'[q].step = "ungrantAll"
                      /\ \/ \E q \in TupRequest : job'[q].card = c
                         \/ <<c, "ungrantAll">> \in faults
                         \/ \A t \in TupBoard : <<c, t>> \notin tuples
    BY <1>1 DEF AloneGoes, Granting
  <2>1. /\ ~Exists(c) /\ c <= created /\ ~Granting(c)
        /\ \A q \in TupRequest : job[q].card = c => job[q].step = "ungrantAll"
        /\ \/ \E q \in TupRequest : job[q].card = c
           \/ <<c, "ungrantAll">> \in faults
           \/ \A t \in TupBoard : <<c, t>> \notin tuples
    BY DEF TupInv, AloneGoes
  <2>2. c \in TupCard /\ c # n /\ c # 0 /\ c <= created'
    <3>1. c \in TupCard
      BY DEF TupInv, TupTypes
    <3>2. c \in Nat /\ c # 0
      BY <3>1, TuplesAssumption DEF TupCard
    <3>3. c # n
      BY <1>3, <2>1
    <3>4. c <= created'
      BY <1>1, <1>3, <2>1, <3>2
    <3> QED BY <3>1, <3>2, <3>3, <3>4
  <2>3. \A q \in TupRequest : job'[q].card = c => job'[q].step = "ungrantAll"
    BY <1>4, <1>7, <2>1, <2>2
  <2>4. ASSUME NEW q \in TupRequest, job[q].card = c PROVE \E p \in TupRequest : job'[p].card = c
    BY <1>5, <1>7, <2>2, <2>4
  <2> QED BY <1>9, <2>1, <2>2, <2>3, <2>4
<1> QED BY <1>7, <1>11, <1>12, <1>13, <1>14 DEF TupInv

\* MoveCard and TransferCard commit: the card leaves its board, and the one it was read on.
LEMMA MoveKeeps == ASSUME TupInv, NEW r \in TupRequest, CommitMove(r) PROVE TupInv'
<1>1. PICK old : old = job[r]
  OBVIOUS
<1>2. PICK c : c = old.card
  OBVIOUS
<1>3. /\ old.step = "read" /\ Exists(c) /\ home' = [home EXCEPT ![c] = old.to]
      /\ left' = [left EXCEPT ![c] = @ \cup ({home[c], old.from} \ {old.to})]
      /\ Goes(r, IF old.from = old.to THEN Over ELSE [old EXCEPT !.step = "ungrant"])
      /\ UNCHANGED <<legacy, alone, created, tuples, migration, applied, faults>>
  BY <1>1, <1>2 DEF CommitMove
<1>4. /\ old \in TupJob /\ c \in TupCard /\ c <= created /\ old # Over /\ old # Idle /\ old.from \in TupBoard /\ old.to \in TupBoard
      /\ old.from = home[c] \/ old.from \in left[c]
      /\ Over # Idle /\ Over \in TupJob /\ Over.step = "done" /\ Over.card = 0 /\ 0 \notin alone /\ 0 \notin TupCard
      /\ home[c] \in TupBoard /\ c \notin alone
  BY <1>1, <1>2, <1>3, JobIs DEF TupInv, TupTypes, TuplesTypeOK, Exists
<1>5. PICK j : j = IF old.from = old.to THEN Over ELSE [old EXCEPT !.step = "ungrant"]
  OBVIOUS
<1>6. /\ j \in TupJob /\ (j = Over \/ (j.step = "ungrant" /\ j.card = c /\ j.from = old.from /\ j.to = old.to /\ old.from # old.to))
      /\ (j = Over => old.from = old.to)
  BY <1>2, <1>4, <1>5, NothingToDo DEF TupJob
<1>7. j # Idle /\ Goes(r, j)
  BY <1>3, <1>4, <1>5, <1>6, NothingToDo
<1>8. /\ Repaired' /\ job' \in [TupRequest -> TupJob] /\ job'[r] = j
      /\ \A q \in TupRequest : q # r => job'[q] = job[q]
  BY <1>1, <1>3, <1>4, <1>6, <1>7, RequestDisturbs
<1>9. /\ home' \in [TupCard -> TupBoard \cup {NoHome}] /\ home'[c] = old.to
      /\ \A d \in TupCard : d # c => home'[d] = home[d] /\ left'[d] = left[d]
      /\ left' \in [TupCard -> SUBSET TupBoard] /\ left'[c] = left[c] \cup ({home[c], old.from} \ {old.to})
  BY <1>3, <1>4 DEF TupInv, TupTypes, TuplesTypeOK
<1>10. \A d \in TupCard : (Exists(d)' <=> Exists(d)) /\ left[d] \subseteq left'[d]
  BY <1>3, <1>4, <1>9, TuplesAssumption DEF Exists
<1>11. TupTypes'
  <2>1. TuplesTypeOK'
    BY <1>3, <1>8, <1>9 DEF TupInv, TupTypes, TuplesTypeOK, TupJob
  <2>2. ASSUME NEW q \in TupRequest
        PROVE  /\ job'[q].step \in {"read", "ungrant", "grant", "ungrantAll"} => job'[q].card \in TupCard /\ job'[q].card <= created'
               /\ job'[q].step \in {"idle", "done"} => job'[q] \in {Idle, Over}
               /\ job'[q].step = "ungrantAll" => ~Exists(job[q].card)'
               /\ job'[q].step \in {"read", "ungrant"} => job'[q].from \in TupBoard
               /\ job'[q].step \in {"read", "ungrant", "grant"} => job'[q].to \in TupBoard
    <3>1. CASE q = r
      BY <1>3, <1>4, <1>6, <1>8, <3>1
    <3>2. CASE q # r
      BY <1>3, <1>8, <1>10, <3>2 DEF TupInv, TupTypes
    <3> QED BY <3>1, <3>2
  <2> QED BY <1>3, <1>9, <1>10, <2>1, <2>2 DEF TupInv, TupTypes
<1>12. MovesLeave'
  <2> SUFFICES ASSUME NEW q \in TupRequest
               PROVE  /\ job'[q].step = "read" => (job'[q].from = home'[job'[q].card] \/ job'[q].from \in left'[job'[q].card]
                                                      \/ ~Exists(job[q].card)')
                      /\ job'[q].step = "ungrant" => job'[q].from \in left'[job'[q].card]
    BY DEF MovesLeave
  <2>1. CASE q = r
    BY <1>4, <1>6, <1>8, <1>9, <2>1
  <2>2. CASE q # r
    <3>1. job[q].step \in {"read", "ungrant"} => job[q].card \in TupCard /\ job[q].from \in TupBoard
      BY DEF TupInv, TupTypes
    <3>2. /\ job[q].step = "read" => (job[q].from = home[job[q].card] \/ job[q].from \in left[job[q].card]
                                                      \/ ~Exists(job[q].card))
          /\ job[q].step = "ungrant" => job[q].from \in left[job[q].card]
      BY DEF TupInv, MovesLeave
    <3>3. job'[q] = job[q]
      BY <1>8, <2>2
    <3> QED BY <1>9, <1>10, <3>1, <3>2, <3>3
  <2> QED BY <2>1, <2>2
<1>13. ParentsStand'
  <2> SUFFICES ASSUME NEW d \in TupCard, Exists(d)', home'[d] \notin left'[d], <<d, "grant">> \notin faults,
                      d \in legacy => applied \/ Scanned(d)
               PROVE  WillBeParent(d)' \/ (Granting(d) /\ d \in legacy /\ ~applied /\ migration.board = home'[d])
    BY <1>3 DEF ParentsStand, Scanned, Granting
  <2>1. CASE d = c /\ j # Over
    BY <1>6, <1>8, <1>9, <2>1 DEF WillBeParent
  <2>2. CASE d # c \/ j = Over
    <3>1. home'[d] = home[d]
      BY <1>4, <1>6, <1>9, <2>2
    <3>2. WillBeParent(d) \/ (Granting(d) /\ d \in legacy /\ ~applied /\ migration.board = home[d])
      BY <1>10, <3>1 DEF TupInv, ParentsStand
    <3>3. ASSUME NEW q \in TupRequest, job[q].step \in {"ungrant", "grant"} PROVE job'[q] = job[q]
      BY <1>1, <1>3, <1>8, <3>3
    <3>4. WillBeParent(d) => WillBeParent(d)'
      BY <1>3, <3>1, <3>3 DEF WillBeParent
    <3> QED BY <3>1, <3>2, <3>4
  <2> QED BY <2>1, <2>2
<1>14. AloneGoes'
  <2> SUFFICES ASSUME NEW d \in alone
               PROVE  /\ ~Exists(d)' /\ d <= created /\ ~Granting(d)
                      /\ \A q \in TupRequest : job'[q].card = d => job'[q].step = "ungrantAll"
                      /\ \/ \E q \in TupRequest : job'[q].card = d
                         \/ <<d, "ungrantAll">> \in faults
                         \/ \A t \in TupBoard : <<d, t>> \notin tuples
    BY <1>3 DEF AloneGoes, Granting
  <2>1. /\ ~Exists(d) /\ d <= created /\ ~Granting(d)
        /\ \A q \in TupRequest : job[q].card = d => job[q].step = "ungrantAll"
        /\ \/ \E q \in TupRequest : job[q].card = d
           \/ <<d, "ungrantAll">> \in faults
           \/ \A t \in TupBoard : <<d, t>> \notin tuples
    BY DEF TupInv, AloneGoes
  <2>2. d \in TupCard /\ d # c /\ d # 0
    BY <1>4 DEF TupInv, TupTypes
  <2>3. ~Exists(d)'
    BY <1>10, <2>1, <2>2
  <2>4. \A q \in TupRequest : job'[q].card = d => job'[q].step = "ungrantAll"
    BY <1>4, <1>6, <1>8, <2>1, <2>2
  <2>5. ASSUME NEW q \in TupRequest, job[q].card = d PROVE \E p \in TupRequest : job'[p].card = d
    BY <1>1, <1>2, <1>8, <2>2, <2>5
  <2> QED BY <2>1, <2>3, <2>4, <2>5
<1> QED BY <1>8, <1>11, <1>12, <1>13, <1>14 DEF TupInv

\* DeleteCard commits, and is about to delete every tuple of the card.
LEMMA DeleteKeeps == ASSUME TupInv, NEW r \in TupRequest, CommitDelete(r) PROVE TupInv'
<1>1. PICK c \in TupCard :
        /\ job[r] = Idle /\ Exists(c) /\ home' = [home EXCEPT ![c] = NoHome]
        /\ Goes(r, [Idle EXCEPT !.step = "ungrantAll", !.card = c])
        /\ alone' = IF Settled(c) /\ migration.step = "off" THEN alone \cup {c} ELSE alone
        /\ UNCHANGED <<legacy, left, created, tuples, migration, applied, faults>>
  BY DEF CommitDelete
<1>2. PICK j : j = [Idle EXCEPT !.step = "ungrantAll", !.card = c]
  OBVIOUS
<1>3. j \in TupJob /\ j.step = "ungrantAll" /\ j.card = c
  <2>1. j = [step |-> "ungrantAll", card |-> c, from |-> NoHome, to |-> NoHome]
    BY <1>2 DEF Idle
  <2>2. c \in 0..TupCards
    BY TuplesAssumption DEF TupCard
  <2> QED BY <2>1, <2>2 DEF TupJob
<1>4. j # Idle /\ job[r] # Over /\ job[r].card = 0 /\ job[r].step = "idle" /\ 0 \notin TupCard /\ Goes(r, j)
  BY <1>1, <1>2, <1>3, NothingToDo
<1>5. /\ Repaired' /\ job' \in [TupRequest -> TupJob] /\ job'[r] = j
      /\ \A q \in TupRequest : q # r => job'[q] = job[q]
  BY <1>1, <1>3, <1>4, RequestDisturbs
<1>6. /\ home' \in [TupCard -> TupBoard \cup {NoHome}] /\ home'[c] = NoHome
      /\ \A d \in TupCard : d # c => home'[d] = home[d]
  BY <1>1 DEF TupInv, TupTypes, TuplesTypeOK
<1>7. c <= created /\ c \notin alone /\ \A d \in TupCard : Exists(d)' <=> Exists(d) /\ d # c
  BY <1>1, <1>6 DEF Exists, TupInv, TupTypes, AloneGoes
<1>8. alone' \subseteq TupCard
  BY <1>1 DEF TupInv, TupTypes
<1>9. TupTypes'
  <2>1. TuplesTypeOK'
    BY <1>1, <1>5, <1>6 DEF TupInv, TupTypes, TuplesTypeOK, TupJob
  <2>2. ASSUME NEW q \in TupRequest
        PROVE  /\ job'[q].step \in {"read", "ungrant", "grant", "ungrantAll"} => job'[q].card \in TupCard /\ job'[q].card <= created
               /\ job'[q].step \in {"idle", "done"} => job'[q] \in {Idle, Over}
               /\ job'[q].step = "ungrantAll" => ~Exists(job[q].card)'
               /\ job'[q].step \in {"read", "ungrant"} => job'[q].from \in TupBoard
               /\ job'[q].step \in {"read", "ungrant", "grant"} => job'[q].to \in TupBoard
    <3>1. CASE q = r
      <4>1. ~Exists(job[q].card)'
        BY <1>3, <1>5, <1>6, <3>1 DEF Exists
      <4> QED BY <1>3, <1>5, <1>7, <3>1, <4>1
    <3>2. CASE q # r
      <4>1. job'[q] = job[q]
        BY <1>5, <3>2
      <4>2. job[q].step = "ungrantAll" => job[q].card \in TupCard /\ ~Exists(job[q].card)
        BY DEF TupInv, TupTypes
      <4>3. job'[q].step = "ungrantAll" => ~Exists(job[q].card)'
        <5>1. PICK d : d = job[q].card /\ d = job'[q].card
          BY <4>1
        <5>2. job[q].step = "ungrantAll" => ~Exists(d)'
          BY <1>7, <4>2, <5>1
        <5> QED BY <4>1, <5>1, <5>2 DEF Exists
      <4> QED BY <4>1, <4>3 DEF TupInv, TupTypes
    <3> QED BY <3>1, <3>2
  <2>4. \A d \in TupCard : (Exists(d) => d <= created)'
    BY <1>1, <1>7 DEF TupInv, TupTypes
  <2> QED BY <1>1, <1>8, <2>1, <2>2, <2>4 DEF TupInv, TupTypes
<1>10. MovesLeave'
  <2> SUFFICES ASSUME NEW q \in TupRequest
               PROVE  /\ job'[q].step = "read" => (job'[q].from = home'[job'[q].card] \/ job'[q].from \in left[job'[q].card]
                                                      \/ ~Exists(job[q].card)')
                      /\ job'[q].step = "ungrant" => job'[q].from \in left[job'[q].card]
    BY <1>1 DEF MovesLeave
  <2>1. CASE q = r
    BY <1>3, <1>5, <2>1
  <2>2. CASE q # r
    <3>1. job[q].step \in {"read", "ungrant"} => job[q].card \in TupCard
      BY DEF TupInv, TupTypes
    <3>2. /\ job[q].step = "read" => (job[q].from = home[job[q].card] \/ job[q].from \in left[job[q].card]
                                                      \/ ~Exists(job[q].card))
          /\ job[q].step = "ungrant" => job[q].from \in left[job[q].card]
      BY DEF TupInv, MovesLeave
    <3>3. job'[q] = job[q]
      BY <1>5, <2>2
    <3>4. PICK d : d = job[q].card /\ d = job'[q].card
      BY <3>3
    <3>5. job[q].step = "read" => (job[q].from = home'[d] \/ job[q].from \in left[d] \/ ~Exists(d)')
      BY <1>6, <1>7, <3>1, <3>2, <3>4
    <3> QED BY <3>2, <3>3, <3>4, <3>5 DEF Exists
  <2> QED BY <2>1, <2>2
<1>11. ParentsStand'
  <2> SUFFICES ASSUME NEW d \in TupCard, Exists(d)', home'[d] \notin left[d], <<d, "grant">> \notin faults,
                      d \in legacy => applied \/ Scanned(d)
               PROVE  WillBeParent(d)' \/ (Granting(d) /\ d \in legacy /\ ~applied /\ migration.board = home'[d])
    BY <1>1 DEF ParentsStand, Scanned, Granting
  <2>1. home'[d] = home[d] /\ Exists(d)
    BY <1>6, <1>7
  <2>2. WillBeParent(d) \/ (Granting(d) /\ d \in legacy /\ ~applied /\ migration.board = home[d])
    BY <2>1 DEF TupInv, ParentsStand
  <2>3. ASSUME NEW q \in TupRequest, job[q].step \in {"ungrant", "grant"} PROVE job'[q] = job[q]
    BY <1>4, <1>5, <2>3
  <2>4. WillBeParent(d) => WillBeParent(d)'
    BY <1>1, <2>1, <2>3 DEF WillBeParent
  <2> QED BY <2>1, <2>2, <2>4
<1>12. AloneGoes'
  <2> SUFFICES ASSUME NEW d \in alone'
               PROVE  /\ ~Exists(d)' /\ d <= created /\ ~Granting(d)
                      /\ \A q \in TupRequest : job'[q].card = d => job'[q].step = "ungrantAll"
                      /\ \/ \E q \in TupRequest : job'[q].card = d
                         \/ <<d, "ungrantAll">> \in faults
                         \/ \A t \in TupBoard : <<d, t>> \notin tuples
    BY <1>1 DEF AloneGoes, Granting
  <2>1. CASE d = c
    <3>1. Settled(c) /\ migration.step = "off"
      BY <1>1, <1>7, <2>1
    <3> QED BY <1>3, <1>5, <1>7, <2>1, <3>1 DEF Settled, Granting
  <2>2. CASE d # c
    <3>1. d \in alone /\ d \in TupCard /\ d # 0
      BY <1>1, <1>4, <2>2 DEF TupInv, TupTypes
    <3>2. /\ ~Exists(d) /\ d <= created /\ ~Granting(d)
          /\ \A q \in TupRequest : job[q].card = d => job[q].step = "ungrantAll"
          /\ \/ \E q \in TupRequest : job[q].card = d
             \/ <<d, "ungrantAll">> \in faults
             \/ \A t \in TupBoard : <<d, t>> \notin tuples
      BY <3>1 DEF TupInv, AloneGoes
    <3>3. \A q \in TupRequest : job'[q].card = d => job'[q].step = "ungrantAll"
      BY <1>3, <1>5, <2>2, <3>2
    <3>4. ASSUME NEW q \in TupRequest, job[q].card = d PROVE \E p \in TupRequest : job'[p].card = d
      BY <1>4, <1>5, <3>1, <3>4
    <3> QED BY <1>7, <3>1, <3>2, <3>3, <3>4
  <2> QED BY <2>1, <2>2
<1> QED BY <1>5, <1>9, <1>10, <1>11, <1>12 DEF TupInv

\* What the migration may do to the invariant: requests and cards stay as they are.
LEMMA MigrationKeeps ==
    ASSUME TupInv, UNCHANGED <<tupCardVars, job, faults>>, tuples \subseteq tuples', tuples' \subseteq TupCard \X TupBoard,
           applied' \in BOOLEAN,
           migration' \in [step : {"off", "scan", "grant"}, last : 0..TupCards,
                           board : TupBoard \cup {NoHome}, before : SUBSET TupRequest],
           migration'.step = "grant" => migration'.last \in TupCard /\ migration'.board \in TupBoard,
           migration'.last <= created, Repaired',
           \A c \in TupCard : (Exists(c) /\ (c \in legacy => applied' \/ (migration'.step # "off" /\ c <= migration'.last))) =>
               \/ /\ c \in legacy => applied \/ Scanned(c)
                  /\ ~(Granting(c) /\ c \in legacy /\ ~applied)
               \/ <<c, home[c]>> \in tuples'
               \/ (c \in legacy => applied \/ Scanned(c)) /\ migration.board # home[c]
               \/ Granting(c)' /\ c \in legacy /\ ~applied' /\ migration'.board = home[c],
           \A c \in alone : ~Granting(c)' /\ \A b \in TupBoard : <<c, b>> \in tuples' => <<c, b>> \in tuples
    PROVE  TupInv'
<1>1. UNCHANGED <<home, legacy, left, alone, created, job, faults>>
  BY DEF tupCardVars
<1>2. TupTypes'
  <2>1. TuplesTypeOK'
    BY <1>1 DEF TupInv, TupTypes, TuplesTypeOK
  <2> QED BY <1>1, <2>1 DEF TupInv, TupTypes, Exists
<1>3. MovesLeave'
  BY <1>1 DEF TupInv, MovesLeave, Exists
<1>4. ParentsStand'
  <2> SUFFICES ASSUME NEW c \in TupCard, Exists(c), home[c] \notin left[c], <<c, "grant">> \notin faults,
                      c \in legacy => applied' \/ (migration'.step # "off" /\ c <= migration'.last)
               PROVE  WillBeParent(c)' \/ (Granting(c)' /\ c \in legacy /\ ~applied' /\ migration'.board = home[c])
    BY <1>1, Zenon DEF ParentsStand, Scanned, Exists
  <2>1. WillBeParent(c) => WillBeParent(c)'
    BY <1>1 DEF WillBeParent
  <2>2. <<c, home[c]>> \in tuples' => WillBeParent(c)'
    BY <1>1 DEF WillBeParent
  <2>3. (c \in legacy => applied \/ Scanned(c)) => WillBeParent(c) \/ (Granting(c) /\ c \in legacy /\ ~applied /\ migration.board = home[c])
    BY DEF TupInv, ParentsStand
  <2> QED BY <2>1, <2>2, <2>3
<1>5. AloneGoes'
  <2> SUFFICES ASSUME NEW c \in alone'
               PROVE  /\ ~Exists(c)' /\ c <= created' /\ ~Granting(c)'
                      /\ \A q \in TupRequest : job'[q].card = c => job'[q].step = "ungrantAll"
                      /\ \/ \E q \in TupRequest : job'[q].card = c
                         \/ <<c, "ungrantAll">> \in faults'
                         \/ \A b \in TupBoard : <<c, b>> \notin tuples'
    BY Zenon DEF AloneGoes
  <2>1. c \in alone /\ (~Exists(c)' <=> ~Exists(c))
    BY <1>1 DEF Exists
  <2>2. /\ ~Exists(c) /\ c <= created
        /\ \A q \in TupRequest : job[q].card = c => job[q].step = "ungrantAll"
        /\ \/ \E q \in TupRequest : job[q].card = c
           \/ <<c, "ungrantAll">> \in faults
           \/ \A b \in TupBoard : <<c, b>> \notin tuples
    BY <2>1 DEF TupInv, AloneGoes
  <2> QED BY <1>1, <2>1, <2>2
<1> QED BY <1>2, <1>3, <1>4, <1>5 DEF TupInv

\* The migration starts, scans a card, grants what it scanned, and is recorded or given up.
LEMMA MigratesOn ==
    ASSUME TupInv, StartMigration \/ ScanCard \/ GrantScanned \/ RecordMigration \/ AbortMigration
    PROVE  TupInv'
<1>1. /\ migration \in [step : {"off", "scan", "grant"}, last : 0..TupCards,
                        board : TupBoard \cup {NoHome}, before : SUBSET TupRequest]
      /\ tuples \subseteq TupCard \X TupBoard /\ TupCards \in Nat /\ created \in 0..TupCards /\ migration.last <= created
      /\ applied \in BOOLEAN /\ \A c \in TupCard : c \in 1..TupCards /\ (Exists(c) => c <= created /\ home[c] \in TupBoard)
  BY TuplesAssumption DEF TupInv, TupTypes, TuplesTypeOK, TupCard, Exists
<1>2. /\ NotMigrating.step = "off" /\ NotMigrating.last = 0
      /\ NotMigrating \in [step : {"off", "scan", "grant"}, last : 0..TupCards,
                           board : TupBoard \cup {NoHome}, before : SUBSET TupRequest]
      /\ NotMigrating.before = {}
  BY <1>1 DEF NotMigrating
<1>3. CASE StartMigration
  <2>1. PICK m : m = [NotMigrating EXCEPT !.step = "scan", !.before = {r \in TupRequest : job[r] = Over}]
    OBVIOUS
  <2>2. /\ m.step = "scan" /\ m.last = 0 /\ m.before = {r \in TupRequest : job[r] = Over}
        /\ m \in [step : {"off", "scan", "grant"}, last : 0..TupCards,
                  board : TupBoard \cup {NoHome}, before : SUBSET TupRequest]
    <3>1. PICK B \in SUBSET TupRequest : B = {r \in TupRequest : job[r] = Over}
      OBVIOUS
    <3>2. m = [step |-> "scan", last |-> 0, board |-> NoHome, before |-> B]
      BY <2>1, <3>1 DEF NotMigrating
    <3> QED BY <1>1, <3>1, <3>2
  <2>3. migration' = m /\ UNCHANGED <<tupCardVars, tuples, job, applied, faults>> /\ migration.step = "off"
    BY <1>3, <2>1 DEF StartMigration
  <2>4. Repaired'
    <3>1. \A c \in TupCard : ~(c <= 0)
      BY <1>1
    <3> QED BY <2>2, <2>3, <3>1 DEF Repaired
  <2>5. \A c \in TupCard : (c \in legacy => applied' \/ (migration'.step # "off" /\ c <= migration'.last)) =>
            (c \in legacy => applied \/ Scanned(c)) /\ ~Granting(c)
    BY <1>1, <2>2, <2>3 DEF Granting
  <2> QED BY <1>1, <2>2, <2>3, <2>4, <2>5, MigrationKeeps DEF Granting
<1>4. CASE ScanCard
  <2>1. PICK c \in Beyond : NextScanned(c) /\ migration' = [migration EXCEPT !.step = "grant", !.last = c, !.board = home[c]]
    BY <1>4 DEF ScanCard
  <2>2. /\ migration.step = "scan" /\ UNCHANGED <<tupCardVars, tuples, job, applied, faults>>
        /\ c \in TupCard /\ c > migration.last /\ Exists(c)
        /\ \A d \in TupCard : d > migration.last /\ Exists(d) => c <= d
    BY <1>4, <2>1 DEF ScanCard, Beyond, NextScanned
  <2>3. /\ migration'.step = "grant" /\ migration'.last = c /\ migration'.board = home[c] /\ migration'.before = migration.before
        /\ migration' \in [step : {"off", "scan", "grant"}, last : 0..TupCards,
                           board : TupBoard \cup {NoHome}, before : SUBSET TupRequest]
    <3>1. PICK b \in TupBoard : b = home[c]
      BY <1>1, <2>2
    <3>2. c \in 0..TupCards /\ migration' = [migration EXCEPT !.step = "grant", !.last = c, !.board = b]
      BY <1>1, <2>1, <2>2, <3>1
    <3> QED BY <1>1, <3>1, <3>2
  <2>4. \A d \in TupCard : Exists(d) /\ d <= c => d = c \/ d <= migration.last
    BY <1>1, <2>2
  <2>5. UNCHANGED <<home, tuples, job>> /\ \A d \in TupCard : Exists(d)' <=> Exists(d)
    BY <2>2 DEF tupCardVars, Exists
  <2>6. Repaired'
    <3>1. (\A r \in migration'.before : job[r] = Over) /\ (Undisturbed' => Undisturbed)
      BY <2>3, <2>5 DEF TupInv, Repaired, Undisturbed
    <3>2. ASSUME Undisturbed', NEW d \in TupCard, Exists(d), d <= c
          PROVE  IF d = c THEN home[c] = home[d] ELSE <<d, home[d]>> \in tuples
      BY <2>2, <2>4, <3>1, <3>2 DEF TupInv, Repaired, Granting
    <3> QED BY <2>3, <2>5, <3>1, <3>2 DEF Repaired, Granting
  <2>7. \A d \in TupCard : (Exists(d) /\ (d \in legacy => applied' \/ (migration'.step # "off" /\ d <= migration'.last))) =>
            \/ (d \in legacy => applied \/ Scanned(d)) /\ ~Granting(d)
            \/ Granting(d)' /\ d \in legacy /\ ~applied' /\ migration'.board = home[d]
    BY <1>1, <2>2, <2>3, <2>4 DEF Granting, Scanned
  <2>8. \A d \in alone : ~Granting(d)'
    BY <2>2, <2>3 DEF TupInv, AloneGoes, Granting
  <2> QED BY <1>1, <2>2, <2>3, <2>6, <2>7, <2>8, MigrationKeeps
<1>5. CASE GrantScanned
  <2>1. /\ migration.step = "grant" /\ tuples' = tuples \cup {<<migration.last, migration.board>>}
        /\ migration' = [migration EXCEPT !.step = "scan", !.board = NoHome]
        /\ UNCHANGED <<tupCardVars, job, applied, faults>>
    BY <1>5 DEF GrantScanned
  <2>2. /\ migration'.step = "scan" /\ migration'.last = migration.last /\ migration'.before = migration.before
        /\ migration' \in [step : {"off", "scan", "grant"}, last : 0..TupCards,
                           board : TupBoard \cup {NoHome}, before : SUBSET TupRequest]
    BY <1>1, <2>1
  <2>3. /\ migration.last \in TupCard /\ migration.board \in TupBoard /\ migration.last \notin alone
    BY <2>1 DEF TupInv, TupTypes, AloneGoes, Granting
  <2>4. UNCHANGED <<home, job>> /\ \A d \in TupCard : Exists(d)' <=> Exists(d)
    BY <2>1 DEF tupCardVars, Exists
  <2>5. tuples \subseteq tuples' /\ tuples' \subseteq TupCard \X TupBoard
        /\ \A d \in alone : \A b \in TupBoard : <<d, b>> \in tuples' => <<d, b>> \in tuples
    BY <1>1, <2>1, <2>3
  <2>6. Repaired'
    <3>1. (\A r \in migration'.before : job[r] = Over) /\ (Undisturbed' => Undisturbed)
      BY <2>2, <2>4 DEF TupInv, Repaired, Undisturbed
    <3>2. ASSUME Undisturbed', NEW d \in TupCard, Exists(d), d <= migration.last
          PROVE  <<d, home[d]>> \in tuples'
      <4>1. IF Granting(d) THEN migration.board = home[d] ELSE <<d, home[d]>> \in tuples
        BY <2>1, <3>1, <3>2 DEF TupInv, Repaired
      <4> QED BY <2>1, <4>1 DEF Granting
    <3> QED BY <2>2, <2>4, <3>1, <3>2 DEF Repaired, Granting
  <2>7. \A d \in TupCard : Granting(d) => migration.board # home[d] \/ <<d, home[d]>> \in tuples'
    BY <2>1 DEF Granting
  <2>8. \A d \in TupCard : (d \in legacy => applied' \/ (migration'.step # "off" /\ d <= migration'.last)) =>
            (d \in legacy => applied \/ Scanned(d))
    BY <2>1, <2>2 DEF Scanned
  <2>9. ~(\E d \in TupCard : Granting(d)')
    BY <2>2 DEF Granting
  <2>10. \A d \in alone : ~Granting(d)'
    BY <2>2 DEF Granting
  <2> QED BY <1>1, <2>1, <2>2, <2>5, <2>6, <2>7, <2>8, <2>9, <2>10, MigrationKeeps
<1>6. CASE RecordMigration \/ AbortMigration
  <2>1. migration' = NotMigrating /\ UNCHANGED <<tupCardVars, tuples, job, faults>>
        /\ (applied' = applied \/ (applied' = TRUE /\ migration.step = "scan" /\ Beyond = {}))
    BY <1>6 DEF RecordMigration, AbortMigration
  <2>2. Repaired'
    BY <1>2, <2>1 DEF Repaired
  <2>3. ASSUME NEW d \in TupCard, Exists(d), d \in legacy => applied' \/ (migration'.step # "off" /\ d <= migration'.last)
        PROVE  (d \in legacy => applied \/ Scanned(d)) /\ ~(Granting(d) /\ d \in legacy /\ ~applied)
    <3>1. CASE applied' = applied
      BY <1>2, <2>1, <2>3, <3>1
    <3>2. CASE applied' = TRUE /\ migration.step = "scan" /\ Beyond = {}
      <4>1. d <= migration.last
        BY <1>1, <2>3, <3>2 DEF Beyond
      <4> QED BY <3>2, <4>1 DEF Scanned, Granting
    <3> QED BY <2>1, <3>1, <3>2
  <2>4. \A d \in alone : ~Granting(d)'
    BY <1>2, <2>1 DEF Granting
  <2>5. migration'.last <= created /\ applied' \in BOOLEAN
    <3>1. 0 <= created
      BY <1>1
    <3> QED BY <1>1, <1>2, <2>1, <3>1
  <2> QED BY <1>1, <1>2, <2>1, <2>2, <2>3, <2>4, <2>5, MigrationKeeps
<1> QED BY <1>3, <1>4, <1>5, <1>6

\* The property of the model, from the invariant.
LEMMA StandingIsFollowed == TupInv => TuplesFollowCards
<1> SUFFICES ASSUME TupInv PROVE TuplesFollowCards
  OBVIOUS
<1>1. HomeIsParent
  <2> SUFFICES ASSUME NEW c \in TupCard, Exists(c), Settled(c), c \in legacy => applied,
                      <<c, "grant">> \notin faults, home[c] \notin left[c]
               PROVE  <<c, home[c]>> \in tuples
    BY DEF HomeIsParent
  <2>1. WillBeParent(c)
    BY DEF TupInv, ParentsStand
  <2> QED BY <2>1 DEF WillBeParent, Settled
<1>2. DeletedIsUnseen
  BY DEF TupInv, AloneGoes, DeletedIsUnseen, Settled
<1>3. BackfillRepairs
  <2> SUFFICES ASSUME NEW c \in TupCard, migration.step = "scan", c <= migration.last, Exists(c),
                      {r \in TupRequest : job[r] # Idle} = migration.before
               PROVE  <<c, home[c]>> \in tuples
    BY DEF BackfillRepairs
  <2>1. Undisturbed
    BY DEF Undisturbed
  <2> QED BY <2>1 DEF TupInv, Repaired, Granting
<1> QED BY <1>1, <1>2, <1>3 DEF TuplesFollowCards

\* What the tuples of cards and the requests that write them always satisfy.
LEMMA TupInvariant == TuplesSpec => []TupInv
<1>1. TuplesInit => TupInv
  BY TupStarts
<1>2. TupInv /\ [TuplesNext]_tupVars => TupInv'
  <2> SUFFICES ASSUME TupInv, [TuplesNext]_tupVars PROVE TupInv'
    OBVIOUS
  <2>1. ASSUME NEW r \in TupRequest, CommitCreate(r) \/ ReadMove(r) \/ CommitMove(r) \/ MoveNotFound(r) \/ CommitDelete(r)
        PROVE  TupInv'
    BY <2>1, CreateKeeps, ReadMoveKeeps, MoveKeeps, DropsKeep, DeleteKeeps
  <2>2. ASSUME NEW r \in TupRequest, UngrantOld(r) \/ GrantNew(r) \/ UngrantAll(r) \/ DropJob(r) PROVE TupInv'
    BY <2>2, UngrantOldKeeps, GrantNewKeeps, UngrantAllKeeps, DropsKeep
  <2>3. CASE StartMigration \/ ScanCard \/ GrantScanned \/ RecordMigration \/ AbortMigration
    BY <2>3, MigratesOn
  <2>4. CASE UNCHANGED tupVars
    <3>1. UNCHANGED <<home, legacy, left, alone, created, tuples, job, migration, applied, faults>>
      BY <2>4 DEF tupVars, tupCardVars
    <3>2. TupTypes' /\ MovesLeave'
      BY <3>1 DEF TupInv, TupTypes, TuplesTypeOK, MovesLeave, Exists
    <3>3. ParentsStand'
      BY <3>1 DEF TupInv, ParentsStand, WillBeParent, Scanned, Granting, Exists
    <3>4. Repaired' /\ AloneGoes'
      BY <3>1 DEF TupInv, Repaired, Undisturbed, Granting, AloneGoes, Exists
    <3> QED BY <3>2, <3>3, <3>4 DEF TupInv
  <2>5. ASSUME TuplesNext PROVE TupInv'
    BY <2>1, <2>2, <2>3, <2>5, Zenon DEF TuplesNext, TuplesHandle
  <2> QED BY <2>4, <2>5
<1> QED BY <1>1, <1>2, PTL DEF TuplesSpec

\* For any number of cards, boards and requests that overlap, whichever calls fail and
\* whenever pods die: the tuple of the board a card is on is there once its requests are over,
\* the tuples of a deleted card are gone, and the migration mends what failures left.
THEOREM CardsAreSeenFromHome == TuplesSpec => []TuplesFollowCards
BY TupInvariant, StandingIsFollowed, PTL

-----------------------------------------------------------------------------
(* BoardLayout: in which column a card is, and on which board.             *)

\* A bounded set of natural numbers that is not empty has a greatest one (what MAX gives).
LEMMA GreatestNatural ==
  ASSUME NEW T, T \subseteq Nat, T # {}, NEW B \in Nat, \A y \in T : y <= B
  PROVE \E x \in T : \A y \in T : y <= x
<1>1. PICK U : U = {n \in Nat : \A y \in T : y <= n}
  OBVIOUS
<1>2. PICK m \in U : \A n \in U : m <= n
  BY <1>1, LeastNatural
<1>3. m \in Nat /\ \A y \in T : y <= m
  BY <1>1, <1>2
<1>4. ASSUME m \notin T PROVE FALSE
  <2>1. \A y \in T : y <= m - 1 /\ m - 1 \in Nat
    BY <1>3, <1>4
  <2>2. m - 1 \in U
    BY <1>1, <1>3, <2>1
  <2> QED BY <1>2, <1>3, <2>2
<1> QED BY <1>3, <1>4

\* A column or a card has its fields, and is where it may be.
IsColumn(x) ==
    /\ x = [board |-> x.board, pos |-> x.pos, done |-> x.done]
    /\ x.board \in LayBoard \cup {Gone} /\ x.done \in BOOLEAN
IsCard(x) ==
    /\ x = [board |-> x.board, col |-> x.col, pos |-> x.pos, completed |-> x.completed]
    /\ x.board \in LayBoard \cup {Gone} /\ x.col \in LayColumn \cup {Gone} /\ x.completed \in BOOLEAN
    /\ x.col = Gone => x = NoLayCard

OfCard == {"create", "move", "transfer"}

\* The column a request about a card is for, as it was read, and the source.
IsReadOf(r) ==
    /\ layAsk[r].col \in LayColumn /\ layAsk[r].col \in layMade
    /\ layAsk[r].card \in LayCard /\ {"board", "toDone"} \subseteq DOMAIN layRead[r]
    /\ layAsk[r].kind # "create" => {"from", "fromDone"} \subseteq DOMAIN layRead[r] /\ layRead[r].from \in LayColumn
    /\ layRead[r].board \in LayBoard /\ layRead[r].toDone \in BOOLEAN
    /\ ColumnThere(layAsk[r].col) =>
          /\ layColumns[layAsk[r].col].board = layRead[r].board
          /\ ~toggled => layColumns[layAsk[r].col].done = layRead[r].toDone

Working(r) == layStep[r] \in {"read", "placed"}

LayTypes ==
    /\ layColumns = [k \in LayColumn |-> layColumns[k]] /\ \A k \in LayColumn : IsColumn(layColumns[k])
    /\ layCards = [c \in LayCard |-> layCards[c]] /\ \A c \in LayCard : IsCard(layCards[c])
    /\ layStep \in [LayRequest -> {"idle", "read", "placed", "done"}]
    /\ layAsk = [r \in LayRequest |-> layAsk[r]] /\ layRead = [r \in LayRequest |-> layRead[r]]
    /\ \A k \in LayColumn : ColumnThere(k) => k \in layMade
    /\ layBoards \subseteq LayBoard /\ toggled \in BOOLEAN
    /\ mode \in {"serial", "unmoved", "any"}

\* A card is in a column that is there, on the board of the column.
CardsHaveColumns ==
    \A c \in LayCard : layCards[c].col # Gone =>
        ColumnThere(layCards[c].col) /\ layCards[c].board = layColumns[layCards[c].col].board

ReadsStand ==
    \A r \in LayRequest : Working(r) =>
        /\ layAsk[r].kind \in OfCard => IsReadOf(r)
        /\ layAsk[r].kind = "addColumn" =>
              layAsk[r].col \in LayColumn /\ layAsk[r].board \in LayBoard /\ layAsk[r].done \in BOOLEAN

\* One after the other: what was read of the card is so until the request is over.
SerialReads ==
    mode = "serial" =>
        /\ \A q, r \in LayRequest : Working(q) /\ Working(r) => q = r
        /\ \A r \in LayRequest : (Working(r) /\ layAsk[r].kind \in {"move", "transfer"} /\ ~toggled) =>
              /\ layCards[layAsk[r].card].col # Gone
              /\ layRead[r].fromDone = layColumns[layCards[layAsk[r].card].col].done

LayInv == LayTypes /\ CardsHaveColumns /\ ReadsStand /\ SerialReads /\ CompletedInDoneColumn

-----------------------------------------------------------------------------
\* A row that is not there, and one that is shifted.
LEMMA RowsOfLayout ==
    /\ IsColumn(NoLayColumn) /\ NoLayColumn.board = Gone
    /\ IsCard(NoLayCard) /\ NoLayCard.col = Gone
    /\ \A x : IsColumn(x) => \A n : IsColumn(Shift(x, n)) /\ Shift(x, n).board = x.board /\ Shift(x, n).done = x.done
    /\ \A x : IsCard(x) => \A n : /\ Shift(x, n).board = x.board /\ Shift(x, n).col = x.col
                                  /\ Shift(x, n).completed = x.completed
                                  /\ (x.col # Gone \/ n = 0 => IsCard(Shift(x, n)))
    /\ \A b \in LayBoard, k \in LayColumn, p, d \in BOOLEAN :
          IsCard([board |-> b, col |-> k, pos |-> p, completed |-> d])
<1>1. IsColumn(NoLayColumn) /\ NoLayColumn.board = Gone /\ IsCard(NoLayCard) /\ NoLayCard.col = Gone
  BY DEF NoLayColumn, NoLayCard, IsColumn, IsCard
<1>2. ASSUME NEW x, NEW n, IsColumn(x)
      PROVE  IsColumn(Shift(x, n)) /\ Shift(x, n).board = x.board /\ Shift(x, n).done = x.done
  <2>1. PICK b, p, d : x = [board |-> b, pos |-> p, done |-> d]
    BY <1>2 DEF IsColumn
  <2>2. Shift(x, n) = [board |-> b, pos |-> p + n, done |-> d]
    BY <2>1 DEF Shift
  <2> QED BY <1>2, <2>1, <2>2 DEF IsColumn
<1>3. ASSUME NEW x, NEW n, IsCard(x)
      PROVE  /\ Shift(x, n).board = x.board /\ Shift(x, n).col = x.col /\ Shift(x, n).completed = x.completed
             /\ (x.col # Gone \/ n = 0 => IsCard(Shift(x, n)))
  <2>1. PICK b, k, p, d : x = [board |-> b, col |-> k, pos |-> p, completed |-> d]
    BY <1>3 DEF IsCard
  <2>2. PICK y : y = [board |-> b, col |-> k, pos |-> p + n, completed |-> d]
    OBVIOUS
  <2>3. Shift(x, n) = y /\ y.board = x.board /\ y.col = x.col /\ y.completed = x.completed
    BY <2>1, <2>2 DEF Shift
  <2>4. y = [board |-> y.board, col |-> y.col, pos |-> y.pos, completed |-> y.completed]
    BY <2>2
  <2>5. CASE x.col # Gone
    BY <1>3, <2>3, <2>4, <2>5 DEF IsCard
  <2>6. CASE x.col = Gone /\ n = 0
    <3>1. b = Gone /\ k = Gone /\ p = 0 /\ d = FALSE
      BY <1>3, <2>1, <2>6 DEF IsCard, NoLayCard
    <3>2. y = NoLayCard
      <4>1. p + n = 0
        BY <2>6, <3>1
      <4> QED BY <2>2, <3>1, <4>1, Zenon DEF NoLayCard
    <3> QED BY <1>1, <2>3, <3>2
  <2> QED BY <2>3, <2>5, <2>6
<1>4. \A b \in LayBoard, k \in LayColumn, p, d \in BOOLEAN :
          IsCard([board |-> b, col |-> k, pos |-> p, completed |-> d])
  BY LayAssumption DEF IsCard
<1> QED BY <1>1, <1>2, <1>3, <1>4

\* The first boards.
LEMMA LayStarts == LayInit => LayInv
<1> SUFFICES ASSUME LayInit PROVE LayInv
  OBVIOUS
<1>1. PICK full \in LayColumn, other \in LayColumn, near \in LayBoard, away \in LayBoard, a \in LayCard, b \in LayCard :
        /\ full # other /\ near # away /\ a # b
        /\ layBoards = {near, away}
        /\ layMade = {near, away, full, other, a, b}
        /\ \E doneHere, doneThere \in BOOLEAN :
             /\ layColumns = [k \in LayColumn |->
                   CASE k = full  -> [board |-> near, pos |-> 0, done |-> doneHere]
                     [] k = other -> [board |-> away, pos |-> 0, done |-> doneThere]
                     [] OTHER     -> NoLayColumn]
             /\ layCards = [c \in LayCard |->
                   IF c \in {a, b} THEN [board |-> near, col |-> full, completed |-> doneHere,
                                         pos |-> IF c = a THEN 0 ELSE 1]
                                   ELSE NoLayCard]
  BY Zenon DEF LayInit
<1>2. PICK doneHere \in BOOLEAN, doneThere \in BOOLEAN :
             /\ layColumns = [k \in LayColumn |->
                   CASE k = full  -> [board |-> near, pos |-> 0, done |-> doneHere]
                     [] k = other -> [board |-> away, pos |-> 0, done |-> doneThere]
                     [] OTHER     -> NoLayColumn]
             /\ layCards = [c \in LayCard |->
                   IF c \in {a, b} THEN [board |-> near, col |-> full, completed |-> doneHere,
                                         pos |-> IF c = a THEN 0 ELSE 1]
                                   ELSE NoLayCard]
  BY <1>1, Zenon
<1>3. /\ layStep = [r \in LayRequest |-> "idle"] /\ layAsk = [r \in LayRequest |-> Nothing]
      /\ layRead = [r \in LayRequest |-> Nothing] /\ toggled = FALSE /\ mode \in {"serial", "unmoved", "any"}
  BY DEF LayInit
<1>4. /\ layColumns[full] = [board |-> near, pos |-> 0, done |-> doneHere]
      /\ layColumns[other] = [board |-> away, pos |-> 0, done |-> doneThere]
      /\ \A k \in LayColumn : k \notin {full, other} => layColumns[k] = NoLayColumn
      /\ layColumns = [k \in LayColumn |-> layColumns[k]] /\ layCards = [c \in LayCard |-> layCards[c]]
  BY <1>1, <1>2
<1>5. ASSUME NEW c \in LayCard
      PROVE  /\ IsCard(layCards[c])
             /\ layCards[c].col # Gone => /\ layCards[c].col = full /\ layCards[c].board = near
                                          /\ layCards[c].completed = doneHere
  <2>1. CASE c \in {a, b}
    <3>1. PICK p : p = IF c = a THEN 0 ELSE 1
      OBVIOUS
    <3>2. layCards[c] = [board |-> near, col |-> full, pos |-> p, completed |-> doneHere]
      BY <1>2, <2>1, <3>1
    <3>3. PICK x : x = [board |-> near, col |-> full, pos |-> p, completed |-> doneHere]
      OBVIOUS
    <3>4. /\ x.board = near /\ x.col = full /\ x.completed = doneHere
          /\ x = [board |-> x.board, col |-> x.col, pos |-> x.pos, completed |-> x.completed]
      BY <3>3
    <3>5. near \in LayBoard \cup {Gone} /\ full \in LayColumn \cup {Gone} /\ doneHere \in BOOLEAN /\ full # Gone
      BY <1>1, <1>2, LayAssumption
    <3>6. IsCard(x)
      BY <3>4, <3>5 DEF IsCard
    <3> QED BY <3>2, <3>3, <3>4, <3>6
  <2>2. CASE c \notin {a, b}
    <3>1. layCards[c] = NoLayCard
      BY <1>2, <2>2
    <3> QED BY <3>1, RowsOfLayout
  <2> QED BY <2>1, <2>2
<1>6. /\ \A k \in LayColumn : IsColumn(layColumns[k]) /\ (ColumnThere(k) => k \in layMade)
      /\ layColumns[full].board = near /\ layColumns[full].done = doneHere /\ ColumnThere(full)
  <2>1. /\ IsColumn(layColumns[full]) /\ IsColumn(layColumns[other])
        /\ layColumns[full].board = near /\ layColumns[full].done = doneHere
    BY <1>4 DEF IsColumn
  <2>2. \A k \in LayColumn : k \notin {full, other} => IsColumn(layColumns[k]) /\ ~ColumnThere(k)
    BY <1>4, RowsOfLayout DEF ColumnThere
  <2> QED BY <1>1, <2>1, <2>2, LayAssumption DEF ColumnThere
<1>7. LayTypes
  BY <1>1, <1>3, <1>4, <1>5, <1>6 DEF LayTypes
<1>8. CardsHaveColumns /\ CompletedInDoneColumn
  BY <1>5, <1>6 DEF CardsHaveColumns, CompletedInDoneColumn
<1>9. \A r \in LayRequest : ~Working(r)
  BY <1>3 DEF Working
<1>10. ReadsStand /\ SerialReads
  BY <1>9 DEF ReadsStand, SerialReads
<1> QED BY <1>7, <1>8, <1>10 DEF LayInv

\* A request reads what it needs.
LEMMA AskKeeps ==
    ASSUME LayInv, NEW r \in LayRequest, NEW what, NEW read, Starts(r, what, read),
           what.kind \in OfCard =>
              /\ what.col \in LayColumn /\ ColumnThere(what.col) /\ what.card \in LayCard
              /\ {"board", "toDone"} \subseteq DOMAIN read
              /\ read.board = layColumns[what.col].board /\ read.toDone = layColumns[what.col].done
              /\ what.kind # "create" =>
                    /\ {"from", "fromDone"} \subseteq DOMAIN read /\ layCards[what.card].col # Gone
                    /\ read.from = layCards[what.card].col /\ read.fromDone = layColumns[layCards[what.card].col].done,
           what.kind = "addColumn" => what.col \in LayColumn /\ what.board \in LayBoard /\ what.done \in BOOLEAN
    PROVE  LayInv'
<1>1. /\ Begins(r) /\ UNCHANGED <<layBoards, layMade, oneProject, layColumns, layCards, toggled, mode>>
      /\ layStep' = [layStep EXCEPT ![r] = "read"] /\ layAsk' = [layAsk EXCEPT ![r] = what]
      /\ layRead' = [layRead EXCEPT ![r] = read]
  BY DEF Starts, layTables
<1>2. /\ layStep' \in [LayRequest -> {"idle", "read", "placed", "done"}]
      /\ layAsk' = [q \in LayRequest |-> layAsk'[q]] /\ layRead' = [q \in LayRequest |-> layRead'[q]]
      /\ layStep'[r] = "read" /\ layAsk'[r] = what /\ layRead'[r] = read
      /\ \A q \in LayRequest : q # r => layStep'[q] = layStep[q] /\ layAsk'[q] = layAsk[q] /\ layRead'[q] = layRead[q]
  BY <1>1 DEF LayInv, LayTypes
<1>3. LayTypes'
  BY <1>1, <1>2 DEF LayInv, LayTypes, ColumnThere
<1>4. CardsHaveColumns' /\ CompletedInDoneColumn'
  BY <1>1 DEF LayInv, CardsHaveColumns, CompletedInDoneColumn, ColumnThere
<1>5. what.kind \in OfCard =>
        /\ what.col \in layMade /\ read.board \in LayBoard /\ read.toDone \in BOOLEAN
        /\ what.kind # "create" => read.from \in LayColumn
  BY DEF LayInv, LayTypes, ColumnThere, IsColumn, IsCard
<1>6. ReadsStand'
  <2> SUFFICES ASSUME NEW q \in LayRequest, Working(q)'
               PROVE  /\ layAsk'[q].kind \in OfCard => IsReadOf(q)'
                      /\ layAsk'[q].kind = "addColumn" =>
                            layAsk'[q].col \in LayColumn /\ layAsk'[q].board \in LayBoard /\ layAsk'[q].done \in BOOLEAN
    BY DEF ReadsStand
  <2>1. CASE q = r
    BY <1>1, <1>2, <1>5, <2>1 DEF IsReadOf, ColumnThere
  <2>2. CASE q # r
    <3>1. Working(q)
      BY <1>2, <2>2 DEF Working
    <3>2. /\ layAsk[q].kind \in OfCard => IsReadOf(q)
          /\ layAsk[q].kind = "addColumn" =>
                 layAsk[q].col \in LayColumn /\ layAsk[q].board \in LayBoard /\ layAsk[q].done \in BOOLEAN
      BY <3>1 DEF LayInv, ReadsStand
    <3> QED BY <1>1, <1>2, <2>2, <3>2 DEF IsReadOf, ColumnThere
  <2> QED BY <2>1, <2>2
<1>7. SerialReads'
  <2> SUFFICES ASSUME mode = "serial"
               PROVE  /\ \A q, p \in LayRequest : Working(q)' /\ Working(p)' => q = p
                      /\ \A q \in LayRequest : (Working(q)' /\ layAsk'[q].kind \in {"move", "transfer"} /\ ~toggled) =>
                            /\ layCards[layAsk'[q].card].col # Gone
                            /\ layRead'[q].fromDone = layColumns[layCards[layAsk'[q].card].col].done
    BY <1>1 DEF SerialReads
  <2>1. \A q \in LayRequest : Working(q)' => q = r
    BY <1>1, <1>2 DEF Begins, Working
  <2> QED BY <1>2, <2>1 DEF OfCard
<1> QED BY <1>3, <1>4, <1>6, <1>7 DEF LayInv

\* A request writes, and is over.
LEMMA WriteKeeps ==
    ASSUME LayInv, NEW r \in LayRequest, Ends(r), Working(r) \/ Begins(r),
           layColumns' = [k \in LayColumn |-> layColumns'[k]], \A k \in LayColumn : IsColumn(layColumns'[k]),
           layCards' = [c \in LayCard |-> layCards'[c]], \A c \in LayCard : IsCard(layCards'[c]),
           layBoards' \subseteq LayBoard, toggled' \in BOOLEAN, toggled => toggled', mode' = mode,
           \A k \in LayColumn : ColumnThere(k)' => k \in layMade', layMade \subseteq layMade',
           \A k \in LayColumn : (k \in layMade /\ ColumnThere(k)') =>
              /\ ColumnThere(k) /\ layColumns'[k].board = layColumns[k].board
              /\ ~toggled' => layColumns'[k].done = layColumns[k].done,
           CardsHaveColumns', CompletedInDoneColumn'
    PROVE  LayInv'
<1>1. /\ layStep' \in [LayRequest -> {"idle", "read", "placed", "done"}]
      /\ layAsk' = [q \in LayRequest |-> layAsk'[q]] /\ layRead' = [q \in LayRequest |-> layRead'[q]]
      /\ layStep'[r] = "done"
      /\ \A q \in LayRequest : q # r => layStep'[q] = layStep[q] /\ layAsk'[q] = layAsk[q] /\ layRead'[q] = layRead[q]
  BY DEF Ends, LayInv, LayTypes
<1>2. LayTypes'
  BY <1>1 DEF LayInv, LayTypes
<1>3. \A q \in LayRequest : Working(q)' => Working(q) /\ q # r
  BY <1>1 DEF Working
<1>4. ReadsStand'
  <2> SUFFICES ASSUME NEW q \in LayRequest, Working(q)'
               PROVE  /\ layAsk'[q].kind \in OfCard => IsReadOf(q)'
                      /\ layAsk'[q].kind = "addColumn" =>
                            layAsk'[q].col \in LayColumn /\ layAsk'[q].board \in LayBoard /\ layAsk'[q].done \in BOOLEAN
    BY DEF ReadsStand
  <2>1. /\ layAsk[q].kind \in OfCard => IsReadOf(q)
        /\ layAsk[q].kind = "addColumn" =>
               layAsk[q].col \in LayColumn /\ layAsk[q].board \in LayBoard /\ layAsk[q].done \in BOOLEAN
    BY <1>3 DEF LayInv, ReadsStand
  <2>2. layAsk'[q] = layAsk[q] /\ layRead'[q] = layRead[q]
    BY <1>1, <1>3
  <2>3. ASSUME layAsk[q].kind \in OfCard PROVE IsReadOf(q)'
    <3>1. PICK k \in LayColumn : k = layAsk[q].col /\ k = layAsk'[q].col /\ k \in layMade
      BY <2>1, <2>2, <2>3 DEF IsReadOf
    <3>2. ColumnThere(k)' => /\ ColumnThere(k) /\ layColumns'[k].board = layColumns[k].board
                             /\ ~toggled' => ~toggled /\ layColumns'[k].done = layColumns[k].done
      BY <3>1
    <3>3. ColumnThere(layAsk[q].col)' => ColumnThere(k)'
      BY <3>1 DEF ColumnThere
    <3> QED BY <2>1, <2>2, <2>3, <3>1, <3>2, <3>3 DEF IsReadOf
  <2> QED BY <2>1, <2>2, <2>3
<1>5. SerialReads'
  <2> SUFFICES ASSUME mode = "serial" PROVE \A q \in LayRequest : ~Working(q)'
    BY DEF SerialReads
  <2>1. CASE Working(r)
    BY <1>3, <2>1 DEF LayInv, SerialReads
  <2>2. CASE Begins(r)
    BY <1>3, <2>2 DEF Begins, Working
  <2> QED BY <2>1, <2>2
<1> QED BY <1>2, <1>4, <1>5 DEF LayInv

\* What is read before a request.
LEMMA BeginsKeep ==
    ASSUME LayInv, NEW r \in LayRequest,
           BeginCreateCard(r) \/ BeginMoveCard(r) \/ BeginTransferCard(r) \/ BeginAddColumn(r) \/ BeginMoveColumn(r)
    PROVE  LayInv'
<1>1. CASE BeginCreateCard(r)
  <2>1. PICK c \in LayCard, k \in LayColumn, p \in 0..LayMaxPos :
          /\ ColumnThere(k)
          /\ Starts(r, [kind |-> "create", card |-> c, col |-> k, pos |-> p],
                       [board |-> layColumns[k].board, toDone |-> layColumns[k].done, pos |-> p])
    BY <1>1 DEF BeginCreateCard
  <2>2. PICK what, read : /\ what = [kind |-> "create", card |-> c, col |-> k, pos |-> p]
                         /\ read = [board |-> layColumns[k].board, toDone |-> layColumns[k].done, pos |-> p]
    OBVIOUS
  <2>3. /\ what.kind = "create" /\ what.card = c /\ what.col = k
        /\ read.board = layColumns[k].board /\ read.toDone = layColumns[k].done /\ {"board", "toDone"} \subseteq DOMAIN read
    BY <2>2
  <2>4. Starts(r, what, read)
    BY <2>1, <2>2
  <2> QED BY <2>1, <2>3, <2>4, AskKeeps
<1>2. CASE BeginMoveCard(r) \/ BeginTransferCard(r)
  <2>1. PICK c \in LayCard : \E k \in LayColumn : \E what :
          /\ layCards[c] # NoLayCard /\ ColumnThere(k)
          /\ what.kind \in {"move", "transfer"} /\ what.card = c /\ what.col = k
          /\ Starts(r, what, ReadOfMove(c, k))
    <3>1. CASE BeginMoveCard(r)
      <4>1. PICK c \in LayCard, k \in LayColumn, p \in 0..LayMaxPos :
              /\ layCards[c] # NoLayCard /\ ColumnThere(k)
              /\ Starts(r, [kind |-> "move", card |-> c, col |-> k, pos |-> p], ReadOfMove(c, k))
        BY <3>1 DEF BeginMoveCard
      <4>2. PICK what : what = [kind |-> "move", card |-> c, col |-> k, pos |-> p]
        OBVIOUS
      <4>3. what.kind = "move" /\ what.card = c /\ what.col = k
        BY <4>2
      <4> QED BY <4>1, <4>2, <4>3
    <3>2. CASE BeginTransferCard(r)
      <4>1. PICK c \in LayCard, k \in LayColumn :
              /\ layCards[c] # NoLayCard /\ ColumnThere(k)
              /\ Starts(r, [kind |-> "transfer", card |-> c, col |-> k], ReadOfMove(c, k))
        BY <3>2 DEF BeginTransferCard
      <4>2. PICK what : what = [kind |-> "transfer", card |-> c, col |-> k]
        OBVIOUS
      <4>3. what.kind = "transfer" /\ what.card = c /\ what.col = k
        BY <4>2
      <4> QED BY <4>1, <4>2, <4>3
    <3> QED BY <1>2, <3>1, <3>2
  <2>8. PICK k \in LayColumn : \E what :
          /\ layCards[c] # NoLayCard /\ ColumnThere(k)
          /\ what.kind \in {"move", "transfer"} /\ what.card = c /\ what.col = k
          /\ Starts(r, what, ReadOfMove(c, k))
    BY <2>1
  <2>9. PICK what :
          /\ layCards[c] # NoLayCard /\ ColumnThere(k)
          /\ what.kind \in {"move", "transfer"} /\ what.card = c /\ what.col = k
          /\ Starts(r, what, ReadOfMove(c, k))
    BY <2>8
  <2>2. PICK read : read = ReadOfMove(c, k)
    OBVIOUS
  <2>3. /\ read.board = layColumns[k].board /\ read.toDone = layColumns[k].done
        /\ read.from = layCards[c].col /\ read.fromDone = layColumns[layCards[c].col].done
        /\ {"board", "toDone", "from", "fromDone"} \subseteq DOMAIN read
    BY <2>2 DEF ReadOfMove
  <2>4. layCards[c].col # Gone
    BY <2>9 DEF LayInv, LayTypes, IsCard
  <2>5. Starts(r, what, read)
    BY <2>9, <2>2
  <2> QED BY <2>9, <2>3, <2>4, <2>5, AskKeeps
<1>3. CASE BeginAddColumn(r)
  <2>1. PICK k \in LayColumn, b \in layBoards, p \in 0..LayMaxPos, done \in BOOLEAN :
          Starts(r, [kind |-> "addColumn", col |-> k, board |-> b, pos |-> p, done |-> done],
                    [pos |-> IF p = 0 THEN NextColumnPos(b) ELSE p])
    BY <1>3 DEF BeginAddColumn
  <2>2. PICK what, read : /\ what = [kind |-> "addColumn", col |-> k, board |-> b, pos |-> p, done |-> done]
                         /\ read = [pos |-> IF p = 0 THEN NextColumnPos(b) ELSE p]
    OBVIOUS
  <2>3. what.kind = "addColumn" /\ what.col = k /\ what.board = b /\ what.done = done /\ "addColumn" \notin OfCard
    BY <2>2 DEF OfCard
  <2>4. Starts(r, what, read) /\ b \in LayBoard
    BY <2>1, <2>2 DEF LayInv, LayTypes
  <2> QED BY <2>1, <2>3, <2>4, AskKeeps
<1>4. CASE BeginMoveColumn(r)
  <2>1. PICK k \in LayColumn, p \in 0..LayMaxPos :
          Starts(r, [kind |-> "moveColumn", col |-> k, pos |-> p], [pos |-> layColumns[k].pos])
    BY <1>4 DEF BeginMoveColumn
  <2>2. PICK what, read : /\ what = [kind |-> "moveColumn", col |-> k, pos |-> p] /\ read = [pos |-> layColumns[k].pos]
    OBVIOUS
  <2>3. what.kind = "moveColumn" /\ "moveColumn" \notin OfCard
    BY <2>2 DEF OfCard
  <2>4. Starts(r, what, read)
    BY <2>1, <2>2
  <2> QED BY <2>3, <2>4, AskKeeps
<1> QED BY <1>1, <1>2, <1>3, <1>4

\* A request takes its place at the end of a column under the lock of the project.
LEMMA PlaceKeeps == ASSUME LayInv, NEW r \in LayRequest, PlaceCard(r) PROVE LayInv'
<1>1. /\ layStep[r] = "read" /\ layAsk[r].kind \in {"create", "transfer"}
      /\ layStep' = [layStep EXCEPT ![r] = "placed"]
      /\ UNCHANGED <<layBoards, layMade, oneProject, layColumns, layCards, toggled, mode, layAsk>>
  BY DEF PlaceCard, layTables
<1>2. Working(r) /\ IsReadOf(r)
  BY <1>1 DEF Working, LayInv, ReadsStand, OfCard
<1>3. PICK read : /\ layRead' = [layRead EXCEPT ![r] = read]
                  /\ read.board = layRead[r].board /\ read.toDone = layRead[r].toDone
                  /\ {"board", "toDone"} \subseteq DOMAIN read
                  /\ layAsk[r].kind = "transfer" =>
                        /\ {"from", "fromDone"} \subseteq DOMAIN read
                        /\ read.from = layRead[r].from /\ read.fromDone = layRead[r].fromDone
  <2>1. CASE layRead[r].pos = 0
    <3>1. PICK n : n = NextCardPos(layAsk[r].col)
      OBVIOUS
    <3>2. layRead' = [layRead EXCEPT ![r].pos = n]
      BY <2>1, <3>1 DEF PlaceCard
    <3>3. PICK read : read = [layRead[r] EXCEPT !.pos = n]
      OBVIOUS
    <3>4. layRead' = [layRead EXCEPT ![r] = read]
      BY <3>2, <3>3
    <3>5. read.board = layRead[r].board /\ read.toDone = layRead[r].toDone /\ DOMAIN read = DOMAIN layRead[r]
      BY <3>3
    <3>6. {"board", "toDone"} \subseteq DOMAIN read
      BY <1>2, <3>5 DEF IsReadOf
    <3>7. layAsk[r].kind = "transfer" => /\ {"from", "fromDone"} \subseteq DOMAIN read
                                         /\ read.from = layRead[r].from /\ read.fromDone = layRead[r].fromDone
      BY <1>2, <3>3, <3>5 DEF IsReadOf
    <3> QED BY <3>4, <3>5, <3>6, <3>7
  <2>2. CASE layRead[r].pos # 0
    <3>1. layRead' = layRead
      BY <2>2 DEF PlaceCard
    <3>2. layRead' = [layRead EXCEPT ![r] = layRead[r]]
      BY <3>1 DEF LayInv, LayTypes
    <3> QED BY <1>1, <1>2, <3>2 DEF IsReadOf
  <2> QED BY <2>1, <2>2
<1>4. /\ layStep' \in [LayRequest -> {"idle", "read", "placed", "done"}]
      /\ layRead' = [q \in LayRequest |-> layRead'[q]] /\ layRead'[r] = read /\ layStep'[r] = "placed"
      /\ \A q \in LayRequest : q # r => layStep'[q] = layStep[q] /\ layRead'[q] = layRead[q]
  BY <1>1, <1>3 DEF LayInv, LayTypes
<1>5. LayTypes'
  BY <1>1, <1>4 DEF LayInv, LayTypes, ColumnThere
<1>6. CardsHaveColumns' /\ CompletedInDoneColumn'
  BY <1>1 DEF LayInv, CardsHaveColumns, CompletedInDoneColumn, ColumnThere
<1>7. \A q \in LayRequest : Working(q)' <=> Working(q)
  BY <1>2, <1>4 DEF Working
<1>8. ReadsStand'
  <2> SUFFICES ASSUME NEW q \in LayRequest, Working(q)'
               PROVE  /\ layAsk[q].kind \in OfCard => IsReadOf(q)'
                      /\ layAsk[q].kind = "addColumn" =>
                            layAsk[q].col \in LayColumn /\ layAsk[q].board \in LayBoard /\ layAsk[q].done \in BOOLEAN
    BY <1>1 DEF ReadsStand
  <2>1. /\ layAsk[q].kind \in OfCard => IsReadOf(q)
        /\ layAsk[q].kind = "addColumn" =>
               layAsk[q].col \in LayColumn /\ layAsk[q].board \in LayBoard /\ layAsk[q].done \in BOOLEAN
    BY <1>7 DEF LayInv, ReadsStand
  <2>2. CASE q = r
    BY <1>1, <1>2, <1>3, <1>4, <2>1, <2>2 DEF IsReadOf, ColumnThere
  <2>3. CASE q # r
    BY <1>1, <1>4, <2>1, <2>3 DEF IsReadOf, ColumnThere
  <2> QED BY <2>2, <2>3
<1>9. SerialReads'
  <2> SUFFICES ASSUME mode = "serial"
               PROVE  /\ \A q, p \in LayRequest : Working(q)' /\ Working(p)' => q = p
                      /\ \A q \in LayRequest : (Working(q)' /\ layAsk[q].kind \in {"move", "transfer"} /\ ~toggled) =>
                            /\ layCards[layAsk[q].card].col # Gone
                            /\ layRead'[q].fromDone = layColumns[layCards[layAsk[q].card].col].done
    BY <1>1 DEF SerialReads
  <2>1. \A q \in LayRequest : Working(q)' => q = r
    BY <1>2, <1>7 DEF LayInv, SerialReads
  <2> QED BY <1>1, <1>2, <1>3, <1>4, <2>1 DEF LayInv, SerialReads
<1> QED BY <1>5, <1>6, <1>8, <1>9 DEF LayInv

\* What a request that writes cards may do to one.
Written(c) ==
    /\ IsCard(layCards'[c])
    /\ \/ layCards'[c].col = Gone
       \/ /\ layCards'[c].col = layCards[c].col /\ layCards'[c].board = layCards[c].board
          /\ layCards'[c].completed = layCards[c].completed
       \/ /\ ColumnThere(layCards'[c].col) /\ layCards'[c].board = layColumns[layCards'[c].col].board
          /\ (mode = "serial" /\ ~toggled) =>
                (layCards'[c].completed <=> layColumns[layCards'[c].col].done)

\* A request that writes cards leaves each where it was, or puts it into a column
\* that is there, on its board and with its mark.
LEMMA CardsWritten ==
    ASSUME LayInv, NEW r \in LayRequest, Ends(r), Working(r) \/ Begins(r),
           layColumns' = layColumns, toggled' = toggled, mode' = mode,
           layBoards' \subseteq LayBoard, layMade \subseteq layMade',
           layCards' = [c \in LayCard |-> layCards'[c]],
           \A c \in LayCard : Written(c)
    PROVE  LayInv'
<1>1. layColumns' = [k \in LayColumn |-> layColumns'[k]] /\ \A k \in LayColumn : IsColumn(layColumns'[k])
  BY DEF LayInv, LayTypes
<1>3. toggled' \in BOOLEAN
  BY DEF LayInv, LayTypes
<1>4. \A k \in LayColumn : ColumnThere(k)' => k \in layMade'
  BY DEF LayInv, LayTypes, ColumnThere
<1>5. \A k \in LayColumn : (k \in layMade /\ ColumnThere(k)') =>
         /\ ColumnThere(k) /\ layColumns'[k].board = layColumns[k].board
         /\ ~toggled' => layColumns'[k].done = layColumns[k].done
  BY DEF ColumnThere
<1>6. CardsHaveColumns'
  BY DEF LayInv, CardsHaveColumns, ColumnThere, Written
<1>7. CompletedInDoneColumn'
  <2> SUFFICES ASSUME mode = "serial" /\ ~toggled, NEW c \in LayCard, layCards'[c].col # Gone
               PROVE  layCards'[c].completed <=> layColumns[layCards'[c].col].done
    BY DEF CompletedInDoneColumn
  <2>1. layCards[c].col # Gone => (layCards[c].completed <=> layColumns[layCards[c].col].done)
    BY DEF LayInv, CompletedInDoneColumn
  <2> QED BY <2>1 DEF Written
<1>8. \A c \in LayCard : IsCard(layCards'[c])
  BY DEF Written
<1>9. toggled => toggled'
  OBVIOUS
<1> QED BY <1>1, <1>3, <1>4, <1>5, <1>6, <1>7, <1>8, <1>9, WriteKeeps

\* A request that writes columns takes their cards along with those it removes,
\* and leaves the others where they are.
LEMMA ColumnsWritten ==
    ASSUME LayInv, NEW r \in LayRequest, Ends(r), Working(r) \/ Begins(r),
           layColumns' = [k \in LayColumn |-> layColumns'[k]], \A k \in LayColumn : IsColumn(layColumns'[k]),
           layBoards' \subseteq LayBoard, toggled' \in BOOLEAN, toggled => toggled', mode' = mode,
           \A k \in LayColumn : ColumnThere(k)' => k \in layMade', layMade \subseteq layMade',
           \A k \in LayColumn : (k \in layMade /\ ColumnThere(k)') =>
              /\ ColumnThere(k) /\ layColumns'[k].board = layColumns[k].board
              /\ ~toggled' => layColumns'[k].done = layColumns[k].done,
           layCards' = [c \in LayCard |-> layCards'[c]],
           \A c \in LayCard : \/ layCards'[c] = NoLayCard
                              \/ /\ layCards'[c] = layCards[c]
                                 /\ layCards[c].col # Gone => ColumnThere(layCards[c].col)'
    PROVE  LayInv'
<1>1. ASSUME NEW c \in LayCard
      PROVE  /\ IsCard(layCards'[c])
             /\ layCards'[c].col # Gone =>
                   /\ layCards'[c] = layCards[c] /\ layCards[c].col \in LayColumn /\ layCards[c].col \in layMade
                   /\ ColumnThere(layCards[c].col)' /\ layCards[c].board = layColumns[layCards[c].col].board
  <2>1. IsCard(layCards[c]) /\ IsCard(NoLayCard) /\ NoLayCard.col = Gone
    BY RowsOfLayout DEF LayInv, LayTypes
  <2>2. layCards[c].col # Gone =>
          /\ layCards[c].col \in LayColumn /\ layCards[c].col \in layMade
          /\ layCards[c].board = layColumns[layCards[c].col].board
    BY <2>1 DEF LayInv, LayTypes, CardsHaveColumns, IsCard
  <2>3. CASE layCards'[c] = NoLayCard
    BY <2>1, <2>3
  <2>4. CASE layCards'[c] = layCards[c] /\ (layCards[c].col # Gone => ColumnThere(layCards[c].col)')
    BY <2>1, <2>2, <2>4
  <2> QED BY <2>3, <2>4
<1>2. \A c \in LayCard : layCards'[c].col # Gone =>
        /\ layColumns'[layCards'[c].col].board = layCards'[c].board
        /\ ~toggled' => layColumns'[layCards'[c].col].done = layColumns[layCards[c].col].done
  BY <1>1
<1>3. \A c \in LayCard : layCards'[c].col # Gone => layColumns'[layCards'[c].col].board # Gone
  <2> SUFFICES ASSUME NEW c \in LayCard, layCards'[c].col # Gone PROVE layColumns'[layCards'[c].col].board # Gone
    OBVIOUS
  <2>1. layCards'[c] = layCards[c] /\ layColumns'[layCards[c].col].board # Gone
    BY <1>1 DEF ColumnThere
  <2> QED BY <2>1
<1>4. CardsHaveColumns'
  BY <1>2, <1>3 DEF CardsHaveColumns, ColumnThere
<1>5. CompletedInDoneColumn'
  <2> SUFFICES ASSUME mode' = "serial" /\ ~toggled', NEW c \in LayCard, layCards'[c].col # Gone
               PROVE  layCards'[c].completed <=> layColumns'[layCards'[c].col].done
    BY DEF CompletedInDoneColumn
  <2>1. layCards'[c] = layCards[c] /\ layCards[c].col # Gone
    BY <1>1
  <2>2. layCards[c].completed <=> layColumns[layCards[c].col].done
    BY <2>1 DEF LayInv, CompletedInDoneColumn
  <2>3. layColumns'[layCards'[c].col].done = layColumns[layCards[c].col].done
    BY <1>2
  <2> QED BY <2>1, <2>2, <2>3
<1>6. \A c \in LayCard : IsCard(layCards'[c])
  BY <1>1
<1> QED BY <1>4, <1>5, <1>6, WriteKeeps

\* A card that is created, moved or transferred has the board of the column it is
\* put into, which cannot have changed since it was read, and its mark.
LEMMA LayCreateKeeps == ASSUME LayInv, NEW r \in LayRequest, CreateCard(r) PROVE LayInv'
<1>1. PICK what, read : what = layAsk[r] /\ read = layRead[r]
  OBVIOUS
<1>2. /\ layStep[r] = "placed" /\ what.kind = "create" /\ ColumnThere(what.col)
      /\ layMade' = layMade \cup {what.card} /\ Ends(r)
      /\ UNCHANGED <<layBoards, oneProject, layColumns, toggled, mode>>
      /\ layCards' = [c \in LayCard |->
              IF c = what.card THEN [board |-> read.board, col |-> what.col, pos |-> read.pos,
                                  completed |-> read.toDone]
              ELSE IF what.pos > 0 /\ c \in Cards(what.col) /\ layCards[c].pos >= read.pos
                   THEN Shift(layCards[c], 1)
              ELSE layCards[c]]
  BY <1>1 DEF CreateCard
<1>3. Working(r) /\ IsReadOf(r)
  BY <1>1, <1>2 DEF Working, LayInv, ReadsStand, OfCard
<1>4. /\ what.card \in LayCard /\ what.col \in LayColumn /\ read.board \in LayBoard /\ read.toDone \in BOOLEAN
      /\ layColumns[what.col].board = read.board /\ (~toggled => layColumns[what.col].done = read.toDone)
  BY <1>1, <1>2, <1>3 DEF IsReadOf
<1>5. PICK new : new = [board |-> read.board, col |-> what.col, pos |-> read.pos, completed |-> read.toDone]
  OBVIOUS
<1>6. IsCard(new) /\ new.board = read.board /\ new.col = what.col /\ new.completed = read.toDone
  <2>1. /\ new.board = read.board /\ new.col = what.col /\ new.completed = read.toDone
        /\ new = [board |-> new.board, col |-> new.col, pos |-> new.pos, completed |-> new.completed]
    BY <1>5
  <2> QED BY <1>4, <2>1, LayAssumption DEF IsCard
<1>7. ASSUME NEW c \in LayCard
      PROVE  Written(c)
  <2>1. CASE c = what.card
    <3>1. layCards'[c] = new
      BY <1>2, <1>5, <2>1
    <3> QED BY <1>2, <1>4, <1>6, <3>1 DEF Written
  <2>2. CASE c # what.card /\ layCards'[c] = layCards[c]
    BY <2>2 DEF LayInv, LayTypes, Written
  <2>3. CASE c # what.card /\ layCards'[c] = Shift(layCards[c], 1) /\ c \in Cards(what.col)
    <3>1. IsCard(layCards[c]) /\ layCards[c].col # Gone
      BY <1>4, <2>3, LayAssumption DEF LayInv, LayTypes, Cards
    <3> QED BY <2>3, <3>1, RowsOfLayout DEF Written
  <2> QED BY <1>2, <2>1, <2>2, <2>3
<1>8. /\ layBoards' \subseteq LayBoard /\ layMade \subseteq layMade' /\ layCards' = [c \in LayCard |-> layCards'[c]]
      /\ layColumns' = layColumns /\ toggled' = toggled /\ mode' = mode
  BY <1>2 DEF LayInv, LayTypes
<1>9. \A c \in LayCard : Written(c)
  BY <1>7
<1> QED BY <1>2, <1>3, <1>8, <1>9, CardsWritten, Zenon

\* A card that moves or is transferred gets the board of the column as it was
\* read, and its mark from both columns as they were read.
LEMMA RehomedFits ==
    ASSUME LayInv, NEW r \in LayRequest, Working(r), layAsk[r].kind \in {"move", "transfer"},
           ColumnThere(layAsk[r].col), NEW p, NEW new,
           new = Rehomed(layAsk[r].card, layRead[r], layAsk[r].col, p)
    PROVE  /\ IsCard(new) /\ new.col = layAsk[r].col /\ new.board = layColumns[layAsk[r].col].board
           /\ (mode = "serial" /\ ~toggled) => (new.completed <=> layColumns[layAsk[r].col].done)
<1>1. IsReadOf(r)
  BY DEF LayInv, ReadsStand, OfCard
<1>2. PICK c \in LayCard, k \in LayColumn : c = layAsk[r].card /\ k = layAsk[r].col
  BY <1>1 DEF IsReadOf
<1>0. PICK read, d : read = layRead[r] /\ d = Completed(c, read)
  OBVIOUS
<1>3. /\ read.board \in LayBoard /\ read.toDone \in BOOLEAN
      /\ layColumns[k].board = read.board /\ (~toggled => layColumns[k].done = read.toDone)
      /\ layCards[c].completed \in BOOLEAN
  BY <1>1, <1>2, <1>0 DEF IsReadOf, LayInv, LayTypes, IsCard
<1>4. d \in BOOLEAN
  BY <1>2, <1>0, <1>3 DEF Completed
<1>5. new = [board |-> read.board, col |-> k, pos |-> p, completed |-> d]
  BY <1>2, <1>0 DEF Rehomed
<1>6. /\ new.board = read.board /\ new.col = k /\ new.completed = d
      /\ new = [board |-> new.board, col |-> new.col, pos |-> new.pos, completed |-> new.completed]
  BY <1>5
<1>7. IsCard(new)
  BY <1>2, <1>0, <1>3, <1>4, <1>6, LayAssumption DEF IsCard
<1>8. ASSUME mode = "serial" /\ ~toggled PROVE d <=> layColumns[k].done
  <2>1. layCards[c].col # Gone /\ read.fromDone = layColumns[layCards[c].col].done
    BY <1>2, <1>0, <1>8 DEF LayInv, SerialReads
  <2>2. layCards[c].completed <=> layColumns[layCards[c].col].done
    BY <1>2, <1>0, <1>8, <2>1 DEF LayInv, CompletedInDoneColumn
  <2> QED BY <1>2, <1>0, <1>3, <1>8, <2>1, <2>2 DEF Completed
<1> QED BY <1>2, <1>0, <1>3, <1>6, <1>7, <1>8

\* What MoveCard shifts are cards of the two columns.
LEMMA LayMoveKeeps == ASSUME LayInv, NEW r \in LayRequest, MoveCard(r) PROVE LayInv'
<1>1. PICK what, read : what = layAsk[r] /\ read = layRead[r]
  OBVIOUS
<1>2. /\ layStep[r] = "read" /\ what.kind = "move" /\ ColumnThere(what.col) /\ Ends(r)
      /\ UNCHANGED <<layMade, layBoards, oneProject, layColumns, toggled, mode>>
      /\ layCards' = [c \in LayCard |->
              IF c = what.card THEN Rehomed(c, read, what.col, what.pos)
              ELSE Shift(layCards[c], ShiftOfMove(c, read, what.col, what.pos))]
  BY <1>1 DEF MoveCard
<1>3. Working(r) /\ IsReadOf(r)
  BY <1>1, <1>2 DEF Working, LayInv, ReadsStand, OfCard
<1>4. what.col \in LayColumn /\ what.card \in LayCard /\ read.from \in LayColumn
  BY <1>1, <1>2, <1>3 DEF IsReadOf
<1>5. \A c \in LayCard : Written(c)
  <2> SUFFICES ASSUME NEW c \in LayCard PROVE Written(c)
    OBVIOUS
  <2>1. CASE c = what.card
    <3>1. PICK new : new = Rehomed(c, read, what.col, what.pos) /\ layCards'[c] = new
      BY <1>2, <2>1
    <3>2. /\ IsCard(new) /\ new.col = what.col /\ new.board = layColumns[what.col].board
          /\ (mode = "serial" /\ ~toggled) => (new.completed <=> layColumns[what.col].done)
      BY <1>1, <1>2, <1>3, <2>1, <3>1, RehomedFits
    <3> QED BY <1>2, <3>1, <3>2 DEF Written
  <2>2. CASE c # what.card
    <3>1. PICK n : n = ShiftOfMove(c, read, what.col, what.pos)
      OBVIOUS
    <3>2. layCards'[c] = Shift(layCards[c], n) /\ IsCard(layCards[c])
      BY <1>2, <2>2, <3>1 DEF LayInv, LayTypes
    <3>3. layCards[c].col # Gone \/ n = 0
      BY <1>4, <3>1, LayAssumption DEF ShiftOfMove, Cards
    <3> QED BY <3>2, <3>3, RowsOfLayout DEF Written
  <2> QED BY <2>1, <2>2
<1>6. /\ layBoards' \subseteq LayBoard /\ layMade \subseteq layMade' /\ layCards' = [c \in LayCard |-> layCards'[c]]
      /\ layColumns' = layColumns /\ toggled' = toggled /\ mode' = mode
  BY <1>2 DEF LayInv, LayTypes
<1> QED BY <1>2, <1>3, <1>5, <1>6, CardsWritten, Zenon

\* A transfer puts the card at the end of a column of another project.
LEMMA TransferKeeps == ASSUME LayInv, NEW r \in LayRequest, TransferCard(r) PROVE LayInv'
<1>1. PICK what, read, new : what = layAsk[r] /\ read = layRead[r] /\ new = Rehomed(what.card, read, what.col, read.pos)
  OBVIOUS
<1>2. /\ layStep[r] = "placed" /\ what.kind = "transfer" /\ ColumnThere(what.col) /\ Ends(r)
      /\ UNCHANGED <<layMade, layBoards, oneProject, layColumns, toggled, mode>>
      /\ layCards' = [layCards EXCEPT ![what.card] = new]
  BY <1>1 DEF TransferCard
<1>3. Working(r)
  BY <1>2 DEF Working
<1>4. /\ IsCard(new) /\ new.col = what.col /\ new.board = layColumns[what.col].board
      /\ (mode = "serial" /\ ~toggled) => (new.completed <=> layColumns[what.col].done)
  BY <1>1, <1>2, <1>3, RehomedFits
<1>5. \A c \in LayCard : Written(c)
  <2> SUFFICES ASSUME NEW c \in LayCard PROVE Written(c)
    OBVIOUS
  <2>1. IsCard(layCards[c]) /\ layCards = [d \in LayCard |-> layCards[d]]
    BY DEF LayInv, LayTypes
  <2>2. layCards'[c] = new \/ layCards'[c] = layCards[c]
    BY <1>2, <2>1
  <2> QED BY <1>2, <1>4, <2>1, <2>2 DEF Written
<1>6. /\ layBoards' \subseteq LayBoard /\ layMade \subseteq layMade' /\ layCards' = [c \in LayCard |-> layCards'[c]]
      /\ layColumns' = layColumns /\ toggled' = toggled /\ mode' = mode
  BY <1>2 DEF LayInv, LayTypes
<1> QED BY <1>2, <1>3, <1>5, <1>6, CardsWritten, Zenon

\* A deleted card is nowhere; a rollback and a new board leave every card alone.
LEMMA LayOthersKeep ==
    ASSUME LayInv, NEW r \in LayRequest, DeleteCard(r) \/ LayRollback(r) \/ CreateBoard(r)
    PROVE  LayInv'
<1>1. Ends(r) /\ (Working(r) \/ Begins(r))
  BY DEF DeleteCard, LayRollback, CreateBoard, AtOnce, Working
<1>2. layColumns' = layColumns /\ toggled' = toggled /\ mode' = mode
  BY DEF DeleteCard, LayRollback, CreateBoard, layTables
<1>3. layBoards' \subseteq LayBoard /\ layMade \subseteq layMade'
  BY DEF DeleteCard, LayRollback, CreateBoard, layTables, LayInv, LayTypes
<1>4. layCards' = [c \in LayCard |-> layCards'[c]] /\ \A c \in LayCard : layCards'[c] \in {layCards[c], NoLayCard}
  BY DEF DeleteCard, LayRollback, CreateBoard, layTables, LayInv, LayTypes
<1>5. \A c \in LayCard : IsCard(layCards[c]) /\ IsCard(NoLayCard) /\ NoLayCard.col = Gone
  BY RowsOfLayout DEF LayInv, LayTypes
<1>6. \A c \in LayCard : Written(c)
  BY <1>4, <1>5 DEF Written
<1> QED BY <1>1, <1>2, <1>3, <1>4, <1>6, CardsWritten, Zenon

-----------------------------------------------------------------------------
\* Columns that are added, moved or marked stay on their board.
LEMMA AddColumnKeeps == ASSUME LayInv, NEW r \in LayRequest, AddColumn(r) PROVE LayInv'
<1>1. PICK what, p : what = layAsk[r] /\ p = layRead[r].pos
  OBVIOUS
<1>2. /\ layStep[r] = "read" /\ what.kind = "addColumn" /\ what.board \in layBoards /\ what.col \notin layMade
      /\ layMade' = layMade \cup {what.col} /\ layColumns' = AddedColumn(what, p) /\ Ends(r)
      /\ UNCHANGED <<layBoards, oneProject, layCards, toggled, mode>>
  BY <1>1 DEF AddColumn
<1>3. Working(r) /\ what.col \in LayColumn /\ what.board \in LayBoard /\ what.done \in BOOLEAN
  BY <1>1, <1>2 DEF Working, LayInv, ReadsStand
<1>4. PICK new : new = [board |-> what.board, pos |-> p, done |-> what.done]
  OBVIOUS
<1>5. IsColumn(new)
  <2>1. new.board = what.board /\ new.done = what.done /\ new = [board |-> new.board, pos |-> new.pos, done |-> new.done]
    BY <1>4
  <2> QED BY <1>3, <2>1 DEF IsColumn
<1>6. layColumns' = [k \in LayColumn |-> layColumns'[k]] /\ layColumns'[what.col] = new
  BY <1>2, <1>3, <1>4 DEF AddedColumn
<1>7. \A k \in LayColumn : k # what.col => layColumns'[k] = layColumns[k] \/ layColumns'[k] = Shift(layColumns[k], 1)
  BY <1>2 DEF AddedColumn
<1>8. \A k \in LayColumn : k # what.col =>
         IsColumn(layColumns'[k]) /\ layColumns'[k].board = layColumns[k].board /\ layColumns'[k].done = layColumns[k].done
  BY <1>7, RowsOfLayout DEF LayInv, LayTypes
<1>9. \A k \in LayColumn : IsColumn(layColumns'[k])
  BY <1>5, <1>6, <1>8
<1>10. /\ \A k \in LayColumn : ColumnThere(k)' => k \in layMade'
       /\ \A k \in LayColumn : (k \in layMade /\ ColumnThere(k)') =>
              /\ ColumnThere(k) /\ layColumns'[k].board = layColumns[k].board
              /\ ~toggled' => layColumns'[k].done = layColumns[k].done
  BY <1>2, <1>8 DEF ColumnThere, LayInv, LayTypes
<1>11. \A c \in LayCard : layCards[c].col # Gone => ColumnThere(layCards[c].col)'
  <2> SUFFICES ASSUME NEW c \in LayCard, layCards[c].col # Gone PROVE ColumnThere(layCards[c].col)'
    OBVIOUS
  <2>1. layCards[c].col \in LayColumn /\ layColumns[layCards[c].col].board # Gone /\ layCards[c].col \in layMade
    BY DEF LayInv, LayTypes, CardsHaveColumns, IsCard, ColumnThere
  <2>2. layColumns'[layCards[c].col].board # Gone
    BY <1>2, <1>8, <2>1
  <2> QED BY <1>2, <2>2 DEF ColumnThere
<1>12. /\ layBoards' \subseteq LayBoard /\ toggled' \in BOOLEAN /\ (toggled => toggled') /\ mode' = mode
       /\ layMade \subseteq layMade' /\ layCards' = [c \in LayCard |-> layCards'[c]]
  BY <1>2 DEF LayInv, LayTypes
<1>13. \A c \in LayCard : \/ layCards'[c] = NoLayCard
                          \/ /\ layCards'[c] = layCards[c]
                             /\ layCards[c].col # Gone => ColumnThere(layCards[c].col)'
  BY <1>2, <1>11
<1> QED BY <1>2, <1>3, <1>6, <1>9, <1>10, <1>12, <1>13, ColumnsWritten, ZenonT(30)

\* Columns that are moved, marked or removed: none comes to be and none changes its
\* board, and the cards of those removed go with them.
LEMMA ColumnsStay ==
    ASSUME LayInv, NEW r \in LayRequest, Ends(r), Working(r) \/ Begins(r), NEW gone \in SUBSET LayColumn,
           layMade' = layMade, layBoards' \subseteq LayBoard, mode' = mode,
           toggled' \in BOOLEAN, toggled => toggled',
           layColumns' = [k \in LayColumn |-> layColumns'[k]],
           \A k \in LayColumn :
              /\ IsColumn(layColumns'[k]) /\ (k \in gone => layColumns'[k] = NoLayColumn)
              /\ k \notin gone => /\ layColumns'[k].board = layColumns[k].board
                                  /\ ~toggled' => layColumns'[k].done = layColumns[k].done,
           layCards' = WithoutColumns(gone)
    PROVE  LayInv'
<1>1. /\ \A k \in LayColumn : IsColumn(layColumns'[k])
      /\ \A k \in LayColumn : ColumnThere(k)' => k \in layMade'
      /\ \A k \in LayColumn : (k \in layMade /\ ColumnThere(k)') =>
             /\ ColumnThere(k) /\ layColumns'[k].board = layColumns[k].board
             /\ ~toggled' => layColumns'[k].done = layColumns[k].done
  <2>1. \A k \in LayColumn : ColumnThere(k)' => k \notin gone /\ ColumnThere(k)
    BY RowsOfLayout DEF ColumnThere
  <2> QED BY <2>1 DEF LayInv, LayTypes
<1>2. layCards' = [c \in LayCard |-> layCards'[c]]
  BY DEF WithoutColumns
<1>3. ASSUME NEW c \in LayCard
      PROVE  \/ layCards'[c] = NoLayCard
             \/ layCards'[c] = layCards[c] /\ (layCards[c].col # Gone => ColumnThere(layCards[c].col)')
  <2>1. CASE layCards[c].col \in gone
    BY <2>1 DEF WithoutColumns
  <2>2. CASE layCards[c].col \notin gone /\ layCards[c].col # Gone
    <3>1. layCards[c].col \in LayColumn /\ layColumns[layCards[c].col].board # Gone
      BY <2>2 DEF LayInv, LayTypes, CardsHaveColumns, IsCard, ColumnThere
    <3>2. layColumns'[layCards[c].col].board # Gone
      BY <2>2, <3>1
    <3> QED BY <2>2, <3>2 DEF WithoutColumns, ColumnThere
  <2>3. CASE layCards[c].col = Gone
    <3>1. layCards[c] = NoLayCard
      BY <2>3 DEF LayInv, LayTypes, IsCard
    <3> QED BY <3>1 DEF WithoutColumns
  <2> QED BY <2>1, <2>2, <2>3
<1>4. \A c \in LayCard : \/ layCards'[c] = NoLayCard
                         \/ /\ layCards'[c] = layCards[c]
                            /\ layCards[c].col # Gone => ColumnThere(layCards[c].col)'
  BY <1>3
<1>5. layMade \subseteq layMade'
  OBVIOUS
<1> QED BY <1>1, <1>2, <1>4, <1>5, ColumnsWritten, ZenonT(30)

\* No column is removed, no card goes.
LEMMA NoneGone == ASSUME LayInv, layCards' = layCards PROVE layCards' = WithoutColumns({})
  BY DEF LayInv, LayTypes, WithoutColumns

\* A column that is moved or marked, and those that make room for it.
LEMMA MoveColumnKeeps ==
    ASSUME LayInv, NEW r \in LayRequest, MoveColumn(r) \/ UpdateColumn(r)
    PROVE  LayInv'
<1>1. /\ Ends(r) /\ (Working(r) \/ Begins(r)) /\ layMade' = layMade /\ mode' = mode /\ layCards' = layCards
      /\ layBoards' \subseteq LayBoard
  BY DEF MoveColumn, UpdateColumn, AtOnce, Working, LayInv, LayTypes
<1>2. toggled' \in BOOLEAN /\ (toggled => toggled') /\ (~toggled' => MoveColumn(r))
  BY DEF MoveColumn, UpdateColumn, LayInv, LayTypes
<1>3. layColumns' = [k \in LayColumn |-> layColumns'[k]]
  BY DEF MoveColumn, UpdateColumn, MovedColumn, LayInv, LayTypes
<1>4. ASSUME NEW k \in LayColumn
      PROVE  /\ IsColumn(layColumns'[k]) /\ layColumns'[k].board = layColumns[k].board
             /\ ~toggled' => layColumns'[k].done = layColumns[k].done
  <2>1. IsColumn(layColumns[k]) /\ layColumns = [j \in LayColumn |-> layColumns[j]]
    BY DEF LayInv, LayTypes
  <2>2. PICK b, p, d : layColumns[k] = [board |-> b, pos |-> p, done |-> d] /\ b \in LayBoard \cup {Gone} /\ d \in BOOLEAN
    BY <2>1 DEF IsColumn
  <2>3. CASE MoveColumn(r)
    <3>1. PICK to, from, col : /\ col = layAsk[r].col /\ to = layAsk[r].pos /\ from = layRead[r].pos
                               /\ layColumns' = IF from = to THEN layColumns ELSE MovedColumn(col, from, to)
      BY <2>3 DEF MoveColumn
    <3>2. \/ layColumns'[k] = layColumns[k] \/ layColumns'[k] = Shift(layColumns[k], 1)
          \/ layColumns'[k] = Shift(layColumns[k], -1) \/ layColumns'[k] = [layColumns[k] EXCEPT !.pos = to]
      BY <3>1 DEF MovedColumn
    <3>3. CASE layColumns'[k] = [layColumns[k] EXCEPT !.pos = to]
      <4>1. layColumns'[k] = [board |-> b, pos |-> to, done |-> d]
        BY <2>2, <3>3
      <4> QED BY <2>2, <4>1 DEF IsColumn
    <3> QED BY <2>1, <3>2, <3>3, RowsOfLayout
  <2>4. CASE UpdateColumn(r)
    <3>1. toggled'
      BY <2>4 DEF UpdateColumn
    <3>2. PICK j \in LayColumn : layColumns' = [layColumns EXCEPT ![j].done = ~@]
      BY <2>4 DEF UpdateColumn
    <3>3. PICK e \in BOOLEAN : e = (IF k = j THEN ~d ELSE d)
      BY <2>2
    <3>4. layColumns'[k] = [board |-> b, pos |-> p, done |-> e]
      <4>1. CASE k = j
        <5>1. layColumns'[k] = [layColumns[k] EXCEPT !.done = ~layColumns[k].done]
          BY <2>1, <3>2, <4>1
        <5>2. layColumns[k].done = d
          BY <2>2
        <5> QED BY <2>2, <3>3, <4>1, <5>1, <5>2
      <4>2. CASE k # j
        <5>1. layColumns'[k] = layColumns[k] /\ e = d
          BY <2>1, <3>2, <3>3, <4>2
        <5> QED BY <2>2, <5>1
      <4> QED BY <4>1, <4>2
    <3> QED BY <2>2, <3>1, <3>4 DEF IsColumn
  <2> QED BY <2>3, <2>4
<1>5. PICK gone \in SUBSET LayColumn : gone = {}
  OBVIOUS
<1>6. layCards' = WithoutColumns(gone)
  BY <1>1, <1>5, NoneGone
<1>7. \A k \in LayColumn :
        /\ IsColumn(layColumns'[k]) /\ (k \in gone => layColumns'[k] = NoLayColumn)
        /\ k \notin gone => /\ layColumns'[k].board = layColumns[k].board
                            /\ ~toggled' => layColumns'[k].done = layColumns[k].done
  BY <1>4, <1>5
<1> QED BY <1>1, <1>2, <1>3, <1>6, <1>7, ColumnsStay, ZenonT(30)

\* The columns that stay when one is removed are numbered anew; a board goes with
\* all of its columns.
LEMMA RemovalKeeps ==
    ASSUME LayInv, NEW r \in LayRequest, RemoveColumn(r) \/ DeleteBoard(r)
    PROVE  LayInv'
<1>1. /\ Ends(r) /\ (Working(r) \/ Begins(r)) /\ layMade' = layMade /\ mode' = mode /\ toggled' = toggled
      /\ layBoards' \subseteq LayBoard
  BY DEF RemoveColumn, DeleteBoard, AtOnce, LayInv, LayTypes
<1>2. toggled' \in BOOLEAN /\ (toggled => toggled')
  BY <1>1 DEF LayInv, LayTypes
<1>3. PICK gone \in SUBSET LayColumn :
        /\ layCards' = WithoutColumns(gone) /\ layColumns' = [k \in LayColumn |-> layColumns'[k]]
        /\ \A k \in LayColumn : \/ k \in gone /\ layColumns'[k] = NoLayColumn
                                \/ k \notin gone /\ layColumns'[k] = layColumns[k]
                                \/ k \notin gone /\ \E n : layColumns'[k] = [layColumns[k] EXCEPT !.pos = n]
  <2>1. CASE RemoveColumn(r)
    <3>1. PICK k \in LayColumn :
            /\ layCards' = WithoutColumns({k})
            /\ \E rank \in [Columns(layColumns[k].board) \ {k} -> 0..(Cardinality(Columns(layColumns[k].board) \ {k}) - 1)] :
                  layColumns' = [i \in LayColumn |->
                        CASE i = k -> NoLayColumn
                          [] i \in Columns(layColumns[k].board) \ {k} -> [layColumns[i] EXCEPT !.pos = rank[i]]
                          [] OTHER -> layColumns[i]]
      BY <2>1, Zenon DEF RemoveColumn
    <3>2. PICK rest : rest = Columns(layColumns[k].board) \ {k}
      OBVIOUS
    <3>3. k \notin rest /\ \E rank :
             layColumns' = [i \in LayColumn |-> CASE i = k -> NoLayColumn
                                                  [] i \in rest -> [layColumns[i] EXCEPT !.pos = rank[i]]
                                                  [] OTHER -> layColumns[i]]
      BY <3>1, <3>2, SMTT(30)
    <3>4. PICK rank :
             layColumns' = [i \in LayColumn |-> CASE i = k -> NoLayColumn
                                                  [] i \in rest -> [layColumns[i] EXCEPT !.pos = rank[i]]
                                                  [] OTHER -> layColumns[i]]
      BY <3>3
    <3>5. layColumns' = [i \in LayColumn |-> layColumns'[i]] /\ layColumns'[k] = NoLayColumn
      BY <3>3, <3>4
    <3>6. \A i \in LayColumn \ {k} :
             layColumns'[i] = layColumns[i] \/ \E n : layColumns'[i] = [layColumns[i] EXCEPT !.pos = n]
      BY <3>4
    <3>7. PICK gone \in SUBSET LayColumn : gone = {k}
      OBVIOUS
    <3> QED BY <3>1, <3>5, <3>6, <3>7
  <2>2. CASE DeleteBoard(r)
    <3>1. PICK b, gone : /\ gone = Columns(b) /\ layCards' = WithoutColumns(gone)
                         /\ layColumns' = [k \in LayColumn |-> IF k \in gone THEN NoLayColumn ELSE layColumns[k]]
      BY <2>2 DEF DeleteBoard
    <3>2. gone \in SUBSET LayColumn
      BY <3>1 DEF Columns
    <3> QED BY <3>1, <3>2
  <2> QED BY <2>1, <2>2
<1>4. ASSUME NEW k \in LayColumn
      PROVE  /\ IsColumn(layColumns'[k]) /\ (k \in gone => layColumns'[k] = NoLayColumn)
             /\ k \notin gone => /\ layColumns'[k].board = layColumns[k].board
                                 /\ ~toggled' => layColumns'[k].done = layColumns[k].done
  <2>1. IsColumn(layColumns[k])
    BY DEF LayInv, LayTypes
  <2>2. CASE \E n : k \notin gone /\ layColumns'[k] = [layColumns[k] EXCEPT !.pos = n]
    <3>1. PICK n : k \notin gone /\ layColumns'[k] = [layColumns[k] EXCEPT !.pos = n]
      BY <2>2
    <3>2. PICK b, p, d : layColumns[k] = [board |-> b, pos |-> p, done |-> d] /\ b \in LayBoard \cup {Gone} /\ d \in BOOLEAN
      BY <2>1 DEF IsColumn
    <3>3. layColumns'[k] = [board |-> b, pos |-> n, done |-> d]
      BY <3>1, <3>2
    <3> QED BY <3>1, <3>2, <3>3 DEF IsColumn
  <2> QED BY <1>3, <2>1, <2>2, RowsOfLayout
<1>5. \A k \in LayColumn :
        /\ IsColumn(layColumns'[k]) /\ (k \in gone => layColumns'[k] = NoLayColumn)
        /\ k \notin gone => /\ layColumns'[k].board = layColumns[k].board
                            /\ ~toggled' => layColumns'[k].done = layColumns[k].done
  BY <1>4
<1> QED BY <1>1, <1>2, <1>3, <1>5, ColumnsStay, ZenonT(30)

-----------------------------------------------------------------------------
\* What a request read of its columns is so when it writes, however requests overlap.
LEMMA LayFollowed == LaySpec => []LayInv
<1>1. LayInit => LayInv
  BY LayStarts
<1>2. LayInv /\ [LayNext]_layVars => LayInv'
  <2> SUFFICES ASSUME LayInv, [LayNext]_layVars PROVE LayInv'
    OBVIOUS
  <2>1. CASE UNCHANGED layVars
    <3>1. UNCHANGED <<layBoards, layMade, oneProject, layColumns, layCards, toggled, mode, layStep, layAsk, layRead>>
      BY <2>1 DEF layVars, layTables
    <3>2. LayTypes' /\ CardsHaveColumns' /\ CompletedInDoneColumn'
      BY <3>1 DEF LayInv, LayTypes, CardsHaveColumns, CompletedInDoneColumn, ColumnThere
    <3>3. ReadsStand'
      BY <3>1 DEF LayInv, ReadsStand, IsReadOf, Working, ColumnThere
    <3>4. SerialReads'
      BY <3>1 DEF LayInv, SerialReads, Working
    <3> QED BY <3>2, <3>3, <3>4 DEF LayInv
  <2>2. CASE LayNext
    <3>1. PICK r \in LayRequest : LayHandle(r)
      BY <2>2 DEF LayNext
    <3> QED BY <3>1, BeginsKeep, PlaceKeeps, LayCreateKeeps, LayMoveKeeps, TransferKeeps, LayOthersKeep, AddColumnKeeps,
               MoveColumnKeeps, RemovalKeeps DEF LayHandle
  <2> QED BY <2>1, <2>2
<1> QED BY <1>1, <1>2, PTL DEF LaySpec

\* A card is on the board of its column however requests overlap, and has the mark
\* of a done column exactly in one while they do not and no column was marked anew.
THEOREM CardsFit == LaySpec => []CardsFitTheirColumn
<1>1. LayInv => CardsFitTheirColumn
  BY DEF LayInv, CardsHaveColumns, CardsFitTheirColumn, CardOnColumnsBoard
<1> QED BY <1>1, LayFollowed, PTL

-----------------------------------------------------------------------------
(* BoardLayout: at which position.                                         *)

\* The last position of the rows in a column or on a board is one that a query can find.
PosNumbers ==
    /\ \A k \in LayColumn : layColumns[k].pos \in Nat
    /\ \A c \in LayCard : layCards[c].pos \in Nat
    /\ \E top \in Nat : /\ \A k \in LayColumn : layColumns[k].pos <= top
                        /\ \A c \in LayCard : layCards[c].pos <= top
    /\ IsFiniteSet({k \in LayColumn : ColumnThere(k)})

\* A card that is transferred, or created at no position, goes to the end.
Appends(r) == layAsk[r].kind = "transfer" \/ (layAsk[r].kind = "create" /\ layAsk[r].pos = 0)

\* The positions a request asks for, and those it goes on with.
PlacesAsked ==
    \A r \in LayRequest : Working(r) =>
        /\ "pos" \in DOMAIN layRead[r] /\ layRead[r].pos \in Nat
        /\ layAsk[r].kind # "transfer" => layAsk[r].pos \in Nat
        /\ layAsk[r].kind = "move" => "fromPos" \in DOMAIN layRead[r] /\ layRead[r].fromPos \in Nat /\ mode # "unmoved"
        /\ layAsk[r].kind = "moveColumn" => layAsk[r].col \in LayColumn
        /\ (layAsk[r].kind \in {"create", "addColumn"} /\ layAsk[r].pos > 0) => layRead[r].pos = layAsk[r].pos
        /\ (layStep[r] = "read" /\ Appends(r)) => layRead[r].pos = 0

\* One request at a time has the advisory lock of a project.
LockHeld ==
    \A q, r \in LayRequest :
        (Placing(q) /\ Placing(r) /\ SameProject(layRead[q].board, layRead[r].board)) => q = r

\* What was the last position when the lock was taken is so until the card is written.
AtTheEnd ==
    mode # "any" => \A r \in LayRequest : (layStep[r] = "placed" /\ Appends(r)) =>
        \A c \in LayCard : layCards[c].col = layAsk[r].col => layCards[c].pos < layRead[r].pos

\* One after the other: the positions that were read before the transaction are so in it.
PlacesStand ==
    mode = "serial" => \A r \in LayRequest : Working(r) =>
        /\ layAsk[r].kind = "move" => /\ layRead[r].from = layCards[layAsk[r].card].col
                                      /\ layRead[r].fromPos = layCards[layAsk[r].card].pos
        /\ layAsk[r].kind = "moveColumn" => layRead[r].pos = layColumns[layAsk[r].col].pos
        /\ (layAsk[r].kind = "addColumn" /\ layAsk[r].pos = 0) =>
              \A k \in LayColumn : layColumns[k].board = layAsk[r].board => layColumns[k].pos < layRead[r].pos

PosInv ==
    /\ PosNumbers /\ PlacesAsked /\ LockHeld /\ AtTheEnd /\ PlacesStand
    /\ CardOrderTotal /\ AppendsDistinct /\ ColumnOrderTotal

\* MAX(position) + 1 of rows that stand somewhere, or 0: the place behind all of them.
LEMMA LastPlace ==
    ASSUME NEW T, T \subseteq Nat, NEW top \in Nat, \A x \in T : x <= top
    PROVE  Max(T \cup {-1}) + 1 \in Nat /\ \A x \in T : x < Max(T \cup {-1}) + 1
<1>1. PICK S : S = T \cup {-1}
  OBVIOUS
<1>2. \E x \in S : \A y \in S : x >= y
  <2>1. CASE T = {}
    <3>1. S = {-1}
      BY <1>1, <2>1
    <3> QED BY <3>1
  <2>2. CASE T # {}
    <3>1. PICK m \in T : \A y \in T : y <= m
      BY <2>2, GreatestNatural
    <3>2. m \in Nat /\ m \in S /\ \A y \in S : m >= y
      BY <1>1, <3>1
    <3> QED BY <3>2
  <2> QED BY <2>1, <2>2
<1>3. PICK g : g = Max(S)
  OBVIOUS
<1>4. g \in S /\ \A y \in S : g >= y
  BY <1>2, <1>3 DEF Max
<1>5. g + 1 \in Nat /\ \A x \in T : x < g + 1
  BY <1>1, <1>4
<1> QED BY <1>1, <1>3, <1>5

\* The place behind all cards of a column, and behind all columns of a board.
LEMMA NextPlaces ==
    ASSUME PosNumbers
    PROVE  /\ \A k : /\ NextCardPos(k) \in Nat
                     /\ \A c \in LayCard : layCards[c].col = k => layCards[c].pos < NextCardPos(k)
           /\ \A b : /\ NextColumnPos(b) \in Nat
                     /\ \A k \in LayColumn : layColumns[k].board = b => layColumns[k].pos < NextColumnPos(b)
<1>1. PICK top \in Nat : /\ \A k \in LayColumn : layColumns[k].pos <= top
                         /\ \A c \in LayCard : layCards[c].pos <= top
  BY DEF PosNumbers
<1>2. ASSUME NEW k
      PROVE  /\ NextCardPos(k) \in Nat
             /\ \A c \in LayCard : layCards[c].col = k => layCards[c].pos < NextCardPos(k)
  <2>1. PICK T : T = {layCards[c].pos : c \in Cards(k)}
    OBVIOUS
  <2>2. T \subseteq Nat /\ \A x \in T : x <= top
    BY <1>1, <2>1 DEF PosNumbers, Cards
  <2>3. Max(T \cup {-1}) + 1 \in Nat /\ \A x \in T : x < Max(T \cup {-1}) + 1
    BY <2>2, LastPlace
  <2>4. NextCardPos(k) = Max(T \cup {-1}) + 1
    BY <2>1 DEF NextCardPos
  <2>5. \A c \in LayCard : layCards[c].col = k => layCards[c].pos \in T
    BY <2>1 DEF Cards
  <2> QED BY <2>3, <2>4, <2>5
<1>3. ASSUME NEW b
      PROVE  /\ NextColumnPos(b) \in Nat
             /\ \A k \in LayColumn : layColumns[k].board = b => layColumns[k].pos < NextColumnPos(b)
  <2>1. PICK T : T = {layColumns[k].pos : k \in Columns(b)}
    OBVIOUS
  <2>2. T \subseteq Nat /\ \A x \in T : x <= top
    BY <1>1, <2>1 DEF PosNumbers, Columns
  <2>3. Max(T \cup {-1}) + 1 \in Nat /\ \A x \in T : x < Max(T \cup {-1}) + 1
    BY <2>2, LastPlace
  <2>4. NextColumnPos(b) = Max(T \cup {-1}) + 1
    BY <2>1 DEF NextColumnPos
  <2>5. \A k \in LayColumn : layColumns[k].board = b => layColumns[k].pos \in T
    BY <2>1 DEF Columns
  <2> QED BY <2>3, <2>4, <2>5
<1> QED BY <1>2, <1>3

\* UPDATE ... SET position = position + n changes the position only.
LEMMA ShiftedRows ==
    /\ \A x : IsColumn(x) => \A n : Shift(x, n).pos = x.pos + n /\ Shift(x, n).board = x.board
    /\ \A x : IsCard(x) => \A n : Shift(x, n).pos = x.pos + n /\ Shift(x, n).col = x.col
    /\ \A x : IsColumn(x) => \A n : [x EXCEPT !.pos = n].pos = n /\ [x EXCEPT !.pos = n].board = x.board
<1>1. ASSUME NEW x, NEW n, IsColumn(x)
      PROVE  /\ Shift(x, n).pos = x.pos + n /\ Shift(x, n).board = x.board
             /\ [x EXCEPT !.pos = n].pos = n /\ [x EXCEPT !.pos = n].board = x.board
  <2>1. PICK b, p, d : x = [board |-> b, pos |-> p, done |-> d]
    BY <1>1 DEF IsColumn
  <2>2. Shift(x, n) = [board |-> b, pos |-> p + n, done |-> d]
    BY <2>1 DEF Shift
  <2> QED BY <2>1, <2>2
<1>2. ASSUME NEW x, NEW n, IsCard(x) PROVE Shift(x, n).pos = x.pos + n /\ Shift(x, n).col = x.col
  <2>1. PICK b, k, p, d : x = [board |-> b, col |-> k, pos |-> p, completed |-> d]
    BY <1>2 DEF IsCard
  <2>2. Shift(x, n) = [board |-> b, col |-> k, pos |-> p + n, completed |-> d]
    BY <2>1 DEF Shift
  <2> QED BY <2>1, <2>2
<1> QED BY <1>1, <1>2

\* Two cards at 0 and 1, and a column on each board.
LEMMA PosStarts == LayInit => PosInv
<1> SUFFICES ASSUME LayInit PROVE PosInv
  OBVIOUS
<1>1. PICK full \in LayColumn, other \in LayColumn, near \in LayBoard, away \in LayBoard, a \in LayCard, b \in LayCard :
        /\ full # other /\ near # away /\ a # b
        /\ layBoards = {near, away}
        /\ layMade = {near, away, full, other, a, b}
        /\ \E doneHere, doneThere \in BOOLEAN :
             /\ layColumns = [k \in LayColumn |->
                   CASE k = full  -> [board |-> near, pos |-> 0, done |-> doneHere]
                     [] k = other -> [board |-> away, pos |-> 0, done |-> doneThere]
                     [] OTHER     -> NoLayColumn]
             /\ layCards = [c \in LayCard |->
                   IF c \in {a, b} THEN [board |-> near, col |-> full, completed |-> doneHere,
                                         pos |-> IF c = a THEN 0 ELSE 1]
                                   ELSE NoLayCard]
  BY Zenon DEF LayInit
<1>2. PICK doneHere \in BOOLEAN, doneThere \in BOOLEAN :
             /\ layColumns = [k \in LayColumn |->
                   CASE k = full  -> [board |-> near, pos |-> 0, done |-> doneHere]
                     [] k = other -> [board |-> away, pos |-> 0, done |-> doneThere]
                     [] OTHER     -> NoLayColumn]
             /\ layCards = [c \in LayCard |->
                   IF c \in {a, b} THEN [board |-> near, col |-> full, completed |-> doneHere,
                                         pos |-> IF c = a THEN 0 ELSE 1]
                                   ELSE NoLayCard]
  BY <1>1, Zenon
<1>3. /\ \A k \in LayColumn : layColumns[k].pos = 0 /\ (k \notin {full, other} => layColumns[k].board = Gone)
      /\ layColumns[full].board = near /\ layColumns[other].board = away
  BY <1>1, <1>2 DEF NoLayColumn
<1>4. \A c \in LayCard : /\ layCards[c].pos = IF c = b THEN 1 ELSE 0
                         /\ c \notin {a, b} => layCards[c].col = Gone
  <2> SUFFICES ASSUME NEW c \in LayCard
               PROVE  /\ layCards[c].pos = IF c = b THEN 1 ELSE 0
                      /\ c \notin {a, b} => layCards[c].col = Gone
    OBVIOUS
  <2>1. CASE c \notin {a, b}
    BY <1>2, <2>1 DEF NoLayCard
  <2>2. CASE c = a
    <3>1. layCards[c].pos = 0
      BY <1>2, <2>2
    <3> QED BY <1>1, <2>2, <3>1
  <2>3. CASE c = b
    <3>1. layCards[c].pos = 1
      BY <1>1, <1>2, <2>3
    <3> QED BY <2>3, <3>1
  <2> QED BY <2>1, <2>2, <2>3
<1>5. PosNumbers
  <2>1. {k \in LayColumn : ColumnThere(k)} \subseteq {full, other}
    BY <1>3 DEF ColumnThere
  <2>2. IsFiniteSet({full, other})
    <3>1. IsFiniteSet({full}) /\ {full, other} = {full} \cup {other}
      BY FS_Singleton
    <3> QED BY <3>1, FS_AddElement
  <2>3. IsFiniteSet({k \in LayColumn : ColumnThere(k)})
    BY <2>1, <2>2, FS_Subset, Zenon
  <2>4. 1 \in Nat /\ (\A k \in LayColumn : layColumns[k].pos <= 1) /\ (\A c \in LayCard : layCards[c].pos <= 1)
    BY <1>3, <1>4
  <2> QED BY <1>3, <1>4, <2>3, <2>4 DEF PosNumbers
<1>6. \A r \in LayRequest : layStep[r] = "idle"
  BY DEF LayInit
<1>7. PlacesAsked /\ LockHeld /\ AtTheEnd /\ PlacesStand
  BY <1>6 DEF PlacesAsked, LockHeld, AtTheEnd, PlacesStand, Working, Placing
<1>8. CardOrderTotal /\ AppendsDistinct
  BY <1>1, <1>4 DEF CardOrderTotal, AppendsDistinct, CardsDistinct
<1>9. ColumnOrderTotal
  BY <1>1, <1>3 DEF ColumnOrderTotal, ColumnThere
<1> QED BY <1>5, <1>7, <1>8, <1>9 DEF PosInv

-----------------------------------------------------------------------------
\* A request reads the positions it goes on with.
LEMMA AskPlaces ==
    ASSUME LayInv, PosInv, NEW r \in LayRequest, NEW what, NEW read, Starts(r, what, read),
           "pos" \in DOMAIN read, read.pos \in Nat,
           what.kind # "transfer" => what.pos \in Nat,
           what.kind = "move" =>
              /\ "fromPos" \in DOMAIN read /\ what.card \in LayCard
              /\ mode # "unmoved" /\ read.from = layCards[what.card].col /\ read.fromPos = layCards[what.card].pos,
           what.kind = "moveColumn" => what.col \in LayColumn /\ read.pos = layColumns[what.col].pos,
           what.kind \in {"create", "addColumn"} /\ what.pos > 0 => read.pos = what.pos,
           what.kind = "transfer" \/ (what.kind = "create" /\ what.pos = 0) => read.pos = 0,
           what.kind = "addColumn" /\ what.pos = 0 =>
              \A k \in LayColumn : layColumns[k].board = what.board => layColumns[k].pos < read.pos
    PROVE  PosInv'
<1>1. /\ Begins(r) /\ UNCHANGED <<layBoards, layMade, oneProject, layColumns, layCards, toggled, mode>>
      /\ layStep' = [layStep EXCEPT ![r] = "read"] /\ layAsk' = [layAsk EXCEPT ![r] = what]
      /\ layRead' = [layRead EXCEPT ![r] = read]
  BY DEF Starts, layTables
<1>2. /\ layStep'[r] = "read" /\ layAsk'[r] = what /\ layRead'[r] = read
      /\ \A q \in LayRequest : q # r => layStep'[q] = layStep[q] /\ layAsk'[q] = layAsk[q] /\ layRead'[q] = layRead[q]
  BY <1>1 DEF LayInv, LayTypes
<1>3. PosNumbers' /\ CardOrderTotal' /\ AppendsDistinct' /\ ColumnOrderTotal'
  BY <1>1 DEF PosInv, PosNumbers, CardOrderTotal, AppendsDistinct, CardsDistinct, ColumnOrderTotal, ColumnThere
<1>4. PlacesAsked'
  <2> SUFFICES ASSUME NEW q \in LayRequest, Working(q)'
               PROVE  /\ "pos" \in DOMAIN layRead'[q] /\ layRead'[q].pos \in Nat
                      /\ layAsk'[q].kind # "transfer" => layAsk'[q].pos \in Nat
                      /\ layAsk'[q].kind = "move" =>
                            "fromPos" \in DOMAIN layRead'[q] /\ layRead'[q].fromPos \in Nat /\ mode' # "unmoved"
                      /\ layAsk'[q].kind = "moveColumn" => layAsk'[q].col \in LayColumn
                      /\ (layAsk'[q].kind \in {"create", "addColumn"} /\ layAsk'[q].pos > 0) =>
                            layRead'[q].pos = layAsk'[q].pos
                      /\ (layStep'[q] = "read" /\ Appends(q)') => layRead'[q].pos = 0
    BY DEF PlacesAsked
  <2>1. CASE q = r
    BY <1>1, <1>2, <2>1 DEF Appends, PosInv, PosNumbers
  <2>2. CASE q # r
    <3>1. Working(q)
      BY <1>2, <2>2 DEF Working
    <3> QED BY <1>1, <1>2, <2>2, <3>1 DEF PosInv, PlacesAsked, Appends
  <2> QED BY <2>1, <2>2
<1>5. \A q \in LayRequest : layStep'[q] = "placed" =>
         q # r /\ layStep[q] = "placed" /\ layAsk'[q] = layAsk[q] /\ layRead'[q] = layRead[q]
  BY <1>2
<1>6. LockHeld'
  BY <1>1, <1>5 DEF PosInv, LockHeld, Placing, SameProject
<1>7. AtTheEnd'
  BY <1>1, <1>5 DEF PosInv, AtTheEnd, Appends
<1>8. PlacesStand'
  <2> SUFFICES ASSUME mode = "serial", NEW q \in LayRequest, Working(q)'
               PROVE  /\ layAsk'[q].kind = "move" => /\ layRead'[q].from = layCards[layAsk'[q].card].col
                                                     /\ layRead'[q].fromPos = layCards[layAsk'[q].card].pos
                      /\ layAsk'[q].kind = "moveColumn" => layRead'[q].pos = layColumns[layAsk'[q].col].pos
                      /\ (layAsk'[q].kind = "addColumn" /\ layAsk'[q].pos = 0) =>
                            \A k \in LayColumn : layColumns[k].board = layAsk'[q].board => layColumns[k].pos < layRead'[q].pos
    BY <1>1 DEF PlacesStand
  <2>1. q = r
    BY <1>1, <1>2 DEF Begins, Working
  <2> QED BY <1>2, <2>1
<1> QED BY <1>3, <1>4, <1>6, <1>7, <1>8 DEF PosInv

\* What the requests read before their transactions.
LEMMA BeginsPlace ==
    ASSUME LayInv, PosInv, NEW r \in LayRequest,
           BeginCreateCard(r) \/ BeginMoveCard(r) \/ BeginTransferCard(r) \/ BeginAddColumn(r) \/ BeginMoveColumn(r)
    PROVE  PosInv'
<1>0. (\A k \in LayColumn : layColumns[k].pos \in Nat) /\ (\A c \in LayCard : layCards[c].pos \in Nat)
  BY DEF PosInv, PosNumbers
<1>1. CASE BeginCreateCard(r)
  <2>1. PICK c \in LayCard, k \in LayColumn, p \in 0..LayMaxPos :
          Starts(r, [kind |-> "create", card |-> c, col |-> k, pos |-> p],
                    [board |-> layColumns[k].board, toDone |-> layColumns[k].done, pos |-> p])
    BY <1>1 DEF BeginCreateCard
  <2>2. PICK what, read : /\ what = [kind |-> "create", card |-> c, col |-> k, pos |-> p]
                         /\ read = [board |-> layColumns[k].board, toDone |-> layColumns[k].done, pos |-> p]
    OBVIOUS
  <2>3. what.kind = "create" /\ what.pos = p /\ read.pos = p /\ "pos" \in DOMAIN read /\ p \in Nat
    BY <2>2
  <2>4. Starts(r, what, read)
    BY <2>1, <2>2
  <2> QED BY <2>3, <2>4, AskPlaces
<1>2. CASE BeginMoveCard(r)
  <2>1. PICK c \in LayCard, k \in LayColumn, p \in 0..LayMaxPos :
          /\ mode # "unmoved"
          /\ Starts(r, [kind |-> "move", card |-> c, col |-> k, pos |-> p], ReadOfMove(c, k))
    BY <1>2 DEF BeginMoveCard
  <2>2. PICK what, read : what = [kind |-> "move", card |-> c, col |-> k, pos |-> p] /\ read = ReadOfMove(c, k)
    OBVIOUS
  <2>3. what.kind = "move" /\ what.pos = p /\ what.card = c /\ p \in Nat
    BY <2>2
  <2>4. /\ read.pos = 0 /\ {"pos", "fromPos"} \subseteq DOMAIN read
        /\ read.from = layCards[c].col /\ read.fromPos = layCards[c].pos
    BY <2>2 DEF ReadOfMove
  <2>5. Starts(r, what, read)
    BY <2>1, <2>2
  <2> QED BY <2>1, <2>3, <2>4, <2>5, AskPlaces
<1>3. CASE BeginTransferCard(r)
  <2>1. PICK c \in LayCard, k \in LayColumn :
          Starts(r, [kind |-> "transfer", card |-> c, col |-> k], ReadOfMove(c, k))
    BY <1>3 DEF BeginTransferCard
  <2>2. PICK what, read : what = [kind |-> "transfer", card |-> c, col |-> k] /\ read = ReadOfMove(c, k)
    OBVIOUS
  <2>3. what.kind = "transfer" /\ read.pos = 0 /\ "pos" \in DOMAIN read
    BY <2>2 DEF ReadOfMove
  <2>4. Starts(r, what, read)
    BY <2>1, <2>2
  <2> QED BY <2>3, <2>4, AskPlaces
<1>4. CASE BeginAddColumn(r)
  <2>1. PICK k \in LayColumn, b \in layBoards, p \in 0..LayMaxPos, done \in BOOLEAN :
          Starts(r, [kind |-> "addColumn", col |-> k, board |-> b, pos |-> p, done |-> done],
                    [pos |-> IF p = 0 THEN NextColumnPos(b) ELSE p])
    BY <1>4 DEF BeginAddColumn
  <2>2. PICK n : n = IF p = 0 THEN NextColumnPos(b) ELSE p
    OBVIOUS
  <2>3. PICK what, read : /\ what = [kind |-> "addColumn", col |-> k, board |-> b, pos |-> p, done |-> done]
                         /\ read = [pos |-> n]
    OBVIOUS
  <2>4. what.kind = "addColumn" /\ what.pos = p /\ what.board = b /\ read.pos = n /\ "pos" \in DOMAIN read /\ p \in Nat
    BY <2>3
  <2>5. Starts(r, what, read)
    BY <2>1, <2>2, <2>3
  <2>6. /\ n \in Nat /\ (p > 0 => n = p)
        /\ p = 0 => \A j \in LayColumn : layColumns[j].board = b => layColumns[j].pos < n
    BY <2>2, <2>4, NextPlaces DEF PosInv
  <2> QED BY <2>4, <2>5, <2>6, AskPlaces
<1>5. CASE BeginMoveColumn(r)
  <2>1. PICK k \in LayColumn, p \in 0..LayMaxPos :
          Starts(r, [kind |-> "moveColumn", col |-> k, pos |-> p], [pos |-> layColumns[k].pos])
    BY <1>5 DEF BeginMoveColumn
  <2>2. PICK what, read : what = [kind |-> "moveColumn", col |-> k, pos |-> p] /\ read = [pos |-> layColumns[k].pos]
    OBVIOUS
  <2>3. /\ what.kind = "moveColumn" /\ what.pos = p /\ what.col = k /\ p \in Nat
        /\ read.pos = layColumns[k].pos /\ "pos" \in DOMAIN read
    BY <2>2
  <2>4. Starts(r, what, read)
    BY <2>1, <2>2
  <2> QED BY <1>0, <2>3, <2>4, AskPlaces
<1> QED BY <1>1, <1>2, <1>3, <1>4, <1>5

\* PlaceCard: the last position, read under the lock.
LEMMA PlaceAtTheEnd == ASSUME LayInv, PosInv, NEW r \in LayRequest, PlaceCard(r) PROVE PosInv'
<1>1. /\ layStep[r] = "read" /\ layAsk[r].kind \in {"create", "transfer"} /\ ProjectLockFree(r)
      /\ layStep' = [layStep EXCEPT ![r] = "placed"]
      /\ UNCHANGED <<layBoards, layMade, oneProject, layColumns, layCards, toggled, mode, layAsk>>
  BY DEF PlaceCard, layTables
<1>2. Working(r) /\ IsReadOf(r) /\ "pos" \in DOMAIN layRead[r] /\ layRead[r].pos \in Nat
  BY <1>1 DEF Working, LayInv, ReadsStand, OfCard, PosInv, PlacesAsked
<1>3. PICK n : n = NextCardPos(layAsk[r].col)
  OBVIOUS
<1>4. n \in Nat /\ \A c \in LayCard : layCards[c].col = layAsk[r].col => layCards[c].pos < n
  BY <1>3, NextPlaces DEF PosInv
<1>5. PICK read : /\ layRead' = [layRead EXCEPT ![r] = read]
                  /\ read.board = layRead[r].board /\ "pos" \in DOMAIN read
                  /\ read.pos = IF layRead[r].pos = 0 THEN n ELSE layRead[r].pos
  <2>1. CASE layRead[r].pos = 0
    <3>1. layRead' = [layRead EXCEPT ![r].pos = n]
      BY <1>3, <2>1 DEF PlaceCard
    <3>2. PICK read : read = [layRead[r] EXCEPT !.pos = n]
      OBVIOUS
    <3>3. layRead' = [layRead EXCEPT ![r] = read]
      BY <3>1, <3>2
    <3>4. read.board = layRead[r].board /\ DOMAIN read = DOMAIN layRead[r] /\ read.pos = n
      BY <1>2, <3>2 DEF IsReadOf
    <3> QED BY <1>2, <2>1, <3>3, <3>4
  <2>2. CASE layRead[r].pos # 0
    <3>1. layRead' = layRead
      BY <2>2 DEF PlaceCard
    <3>2. layRead' = [layRead EXCEPT ![r] = layRead[r]]
      BY <3>1 DEF LayInv, LayTypes
    <3> QED BY <1>2, <2>2, <3>2
  <2> QED BY <2>1, <2>2
<1>6. /\ layRead'[r] = read /\ layStep'[r] = "placed"
      /\ \A q \in LayRequest : q # r => layStep'[q] = layStep[q] /\ layRead'[q] = layRead[q]
  BY <1>1, <1>5 DEF LayInv, LayTypes
<1>7. PosNumbers' /\ CardOrderTotal' /\ AppendsDistinct' /\ ColumnOrderTotal'
  BY <1>1 DEF PosInv, PosNumbers, CardOrderTotal, AppendsDistinct, CardsDistinct, ColumnOrderTotal, ColumnThere
<1>8. Appends(r) => layRead[r].pos = 0 /\ read.pos = n
  BY <1>1, <1>2, <1>5 DEF PosInv, PlacesAsked
<1>9. layAsk[r].kind # "transfer" => layAsk[r].pos \in Nat
  BY <1>2 DEF PosInv, PlacesAsked
<1>10. PlacesAsked'
  <2> SUFFICES ASSUME NEW q \in LayRequest, Working(q)'
               PROVE  /\ "pos" \in DOMAIN layRead'[q] /\ layRead'[q].pos \in Nat
                      /\ layAsk[q].kind # "transfer" => layAsk[q].pos \in Nat
                      /\ layAsk[q].kind = "move" =>
                            "fromPos" \in DOMAIN layRead'[q] /\ layRead'[q].fromPos \in Nat /\ mode # "unmoved"
                      /\ layAsk[q].kind = "moveColumn" => layAsk[q].col \in LayColumn
                      /\ (layAsk[q].kind \in {"create", "addColumn"} /\ layAsk[q].pos > 0) =>
                            layRead'[q].pos = layAsk[q].pos
                      /\ (layStep'[q] = "read" /\ Appends(q)) => layRead'[q].pos = 0
    BY <1>1 DEF PlacesAsked, Appends
  <2>1. CASE q = r
    <3>1. (layAsk[r].kind \in {"create", "addColumn"} /\ layAsk[r].pos > 0) => layRead[r].pos = layAsk[r].pos
      BY <1>2 DEF PosInv, PlacesAsked
    <3> QED BY <1>1, <1>2, <1>4, <1>5, <1>6, <1>9, <2>1, <3>1
  <2>2. CASE q # r
    <3>1. Working(q)
      BY <1>6, <2>2 DEF Working
    <3> QED BY <1>6, <2>2, <3>1 DEF PosInv, PlacesAsked
  <2> QED BY <2>1, <2>2
<1>11. \A q \in LayRequest : q # r => (Placing(q)' <=> Placing(q))
  BY <1>1, <1>6 DEF Placing
<1>12. LockHeld'
  <2> SUFFICES ASSUME NEW p \in LayRequest, NEW q \in LayRequest, Placing(p)', Placing(q)',
                      SameProject(layRead'[p].board, layRead'[q].board)
               PROVE  p = q
    BY <1>1 DEF LockHeld, SameProject
  <2>1. \A o \in LayRequest : layRead'[o].board = layRead[o].board
    BY <1>5, <1>6
  <2>2. SameProject(layRead[p].board, layRead[q].board) /\ SameProject(layRead[q].board, layRead[p].board)
    BY <2>1 DEF SameProject
  <2>3. CASE p # r /\ q # r
    BY <1>11, <2>2, <2>3 DEF PosInv, LockHeld
  <2>4. CASE p # r /\ q = r
    BY <1>1, <1>11, <2>2, <2>4 DEF ProjectLockFree
  <2>5. CASE p = r /\ q # r
    BY <1>1, <1>11, <2>2, <2>5 DEF ProjectLockFree
  <2> QED BY <2>3, <2>4, <2>5
<1>13. AtTheEnd'
  <2> SUFFICES ASSUME mode # "any", NEW q \in LayRequest, layStep'[q] = "placed", Appends(q),
                      NEW c \in LayCard, layCards[c].col = layAsk[q].col
               PROVE  layCards[c].pos < layRead'[q].pos
    BY <1>1 DEF AtTheEnd, Appends
  <2>1. CASE q = r
    BY <1>4, <1>6, <1>8, <2>1
  <2>2. CASE q # r
    BY <1>6, <2>2 DEF PosInv, AtTheEnd
  <2> QED BY <2>1, <2>2
<1>14. PlacesStand'
  <2> SUFFICES ASSUME mode = "serial", NEW q \in LayRequest, Working(q)'
               PROVE  layAsk[q].kind \notin {"move", "moveColumn", "addColumn"}
    BY <1>1 DEF PlacesStand
  <2>1. Working(q)
    BY <1>2, <1>6 DEF Working
  <2>2. q = r
    BY <1>2, <2>1 DEF LayInv, SerialReads
  <2> QED BY <1>1, <2>2
<1> QED BY <1>7, <1>10, <1>12, <1>13, <1>14 DEF PosInv

-----------------------------------------------------------------------------
\* Requests that are at the end of a column at the same time are in different projects, so
\* of different columns.
LEMMA PlacingApart ==
    ASSUME LayInv, PosInv, NEW r \in LayRequest, NEW q \in LayRequest, q # r, Placing(q), Placing(r),
           ColumnThere(layAsk[r].col)
    PROVE  layAsk[q].col # layAsk[r].col
<1> SUFFICES ASSUME layAsk[q].col = layAsk[r].col PROVE FALSE
  OBVIOUS
<1>1. IsReadOf(q) /\ IsReadOf(r)
  BY DEF Placing, Working, LayInv, ReadsStand, OfCard
<1>2. layRead[q].board = layRead[r].board
  BY <1>1 DEF IsReadOf
<1>3. SameProject(layRead[q].board, layRead[r].board)
  BY <1>2 DEF SameProject
<1> QED BY <1>3 DEF PosInv, LockHeld

\* A request writes, and is over: the others stand as before, if no card comes to stand
\* behind a place that was taken.
LEMMA PosWritten ==
    ASSUME LayInv, PosInv, NEW r \in LayRequest, Ends(r), Working(r) \/ Begins(r),
           mode' = mode, oneProject' = oneProject, PosNumbers',
           mode # "any" => CardsDistinct', ColumnOrderTotal',
           mode = "unmoved" =>
              \A q \in LayRequest : (q # r /\ layStep[q] = "placed" /\ Appends(q)) =>
                 \A c \in LayCard : layCards'[c].col = layAsk[q].col =>
                    layCards[c].col = layAsk[q].col /\ layCards'[c].pos <= layCards[c].pos
    PROVE  PosInv'
<1>1. /\ layStep'[r] = "done"
      /\ \A q \in LayRequest : q # r => layStep'[q] = layStep[q] /\ layAsk'[q] = layAsk[q] /\ layRead'[q] = layRead[q]
  BY DEF Ends, LayInv, LayTypes
<1>2. \A q \in LayRequest : Working(q)' =>
         q # r /\ Working(q) /\ layStep'[q] = layStep[q] /\ layAsk'[q] = layAsk[q] /\ layRead'[q] = layRead[q]
  BY <1>1 DEF Working
<1>3. mode = "serial" => \A q \in LayRequest : ~Working(q)'
  <2>1. CASE Working(r)
    BY <1>2, <2>1 DEF LayInv, SerialReads
  <2>2. CASE Begins(r)
    BY <1>2, <2>2 DEF Begins, Working
  <2> QED BY <2>1, <2>2
<1>4. PlacesAsked'
  <2> SUFFICES ASSUME NEW q \in LayRequest, Working(q)'
               PROVE  /\ "pos" \in DOMAIN layRead'[q] /\ layRead'[q].pos \in Nat
                      /\ layAsk'[q].kind # "transfer" => layAsk'[q].pos \in Nat
                      /\ layAsk'[q].kind = "move" =>
                            "fromPos" \in DOMAIN layRead'[q] /\ layRead'[q].fromPos \in Nat /\ mode # "unmoved"
                      /\ layAsk'[q].kind = "moveColumn" => layAsk'[q].col \in LayColumn
                      /\ (layAsk'[q].kind \in {"create", "addColumn"} /\ layAsk'[q].pos > 0) =>
                            layRead'[q].pos = layAsk'[q].pos
                      /\ (layStep'[q] = "read" /\ Appends(q)') => layRead'[q].pos = 0
    BY DEF PlacesAsked
  <2> QED BY <1>2 DEF PosInv, PlacesAsked, Appends
<1>5. LockHeld'
  <2> SUFFICES ASSUME NEW p \in LayRequest, NEW q \in LayRequest, Placing(p)', Placing(q)',
                      SameProject(layRead'[p].board, layRead'[q].board)
               PROVE  p = q
    BY DEF LockHeld, SameProject
  <2>1. Placing(p) /\ Placing(q) /\ layRead'[p] = layRead[p] /\ layRead'[q] = layRead[q]
    BY <1>1 DEF Placing
  <2> QED BY <2>1 DEF PosInv, LockHeld, SameProject
<1>6. AtTheEnd'
  <2> SUFFICES ASSUME mode # "any", NEW q \in LayRequest, layStep'[q] = "placed", Appends(q)',
                      NEW c \in LayCard, layCards'[c].col = layAsk'[q].col
               PROVE  layCards'[c].pos < layRead'[q].pos
    BY DEF AtTheEnd
  <2>1. Working(q)'
    BY DEF Working
  <2>2. /\ q # r /\ layStep[q] = "placed" /\ layAsk'[q] = layAsk[q] /\ layRead'[q] = layRead[q] /\ Working(q)
        /\ mode = "unmoved"
    BY <1>2, <1>3, <2>1 DEF LayInv, LayTypes
  <2>3. Appends(q)
    BY <2>2 DEF Appends
  <2>4. layCards[c].col = layAsk[q].col /\ layCards'[c].pos <= layCards[c].pos
    BY <2>2, <2>3
  <2>5. layCards[c].pos < layRead[q].pos
    BY <2>2, <2>3, <2>4 DEF PosInv, AtTheEnd
  <2>6. layCards[c].pos \in Nat /\ layCards'[c].pos \in Nat /\ layRead[q].pos \in Nat
    BY <2>2 DEF PosInv, PosNumbers, PlacesAsked
  <2> QED BY <2>2, <2>4, <2>5, <2>6
<1>7. PlacesStand'
  BY <1>3 DEF PlacesStand
<1>8. CardOrderTotal' /\ AppendsDistinct'
  BY DEF CardOrderTotal, AppendsDistinct
<1> QED BY <1>4, <1>5, <1>6, <1>7, <1>8 DEF PosInv

\* The cards stay at distinct positions, and the numbers are bounded, when columns are left
\* alone.
LEMMA CardsPlaced ==
    ASSUME LayInv, PosInv, NEW r \in LayRequest, Ends(r), Working(r) \/ Begins(r),
           mode' = mode, oneProject' = oneProject, layColumns' = layColumns,
           NEW n \in Nat,
           \A c \in LayCard : layCards'[c].pos \in Nat /\ layCards'[c].pos <= layCards[c].pos + n,
           mode # "any" => CardsDistinct',
           mode = "unmoved" =>
              \A q \in LayRequest : (q # r /\ layStep[q] = "placed" /\ Appends(q)) =>
                 \A c \in LayCard : layCards'[c].col = layAsk[q].col =>
                    layCards[c].col = layAsk[q].col /\ layCards'[c].pos <= layCards[c].pos
    PROVE  PosInv'
<1>1. PICK top \in Nat : /\ \A k \in LayColumn : layColumns[k].pos <= top
                         /\ \A c \in LayCard : layCards[c].pos <= top
  BY DEF PosInv, PosNumbers
<1>2. PICK high \in Nat : high = top + n
  OBVIOUS
<1>3. (\A k \in LayColumn : layColumns[k].pos \in Nat) /\ (\A c \in LayCard : layCards[c].pos \in Nat)
  BY DEF PosInv, PosNumbers
<1>4. (\A k \in LayColumn : layColumns'[k].pos <= high) /\ (\A c \in LayCard : layCards'[c].pos <= high)
  BY <1>1, <1>2, <1>3
<1>5. PosNumbers'
  <2>1. {k \in LayColumn : ColumnThere(k)'} = {k \in LayColumn : ColumnThere(k)}
    BY DEF ColumnThere
  <2>2. IsFiniteSet({k \in LayColumn : ColumnThere(k)'})
    BY <2>1 DEF PosInv, PosNumbers
  <2> QED BY <1>3, <1>4, <2>2 DEF PosNumbers
<1>6. ColumnOrderTotal'
  BY DEF PosInv, ColumnOrderTotal, ColumnThere
<1> QED BY <1>5, <1>6, PosWritten

\* A card that is created makes the others of its column make room, or goes to their end.
LEMMA CreateHasPlace == ASSUME LayInv, PosInv, NEW r \in LayRequest, CreateCard(r) PROVE PosInv'
<1>1. PICK what, read, p : what = layAsk[r] /\ read = layRead[r] /\ p = read.pos
  OBVIOUS
<1>2. /\ layStep[r] = "placed" /\ what.kind = "create" /\ ColumnThere(what.col) /\ Ends(r)
      /\ UNCHANGED <<layBoards, oneProject, layColumns, toggled, mode>>
      /\ layCards' = [c \in LayCard |->
              IF c = what.card THEN [board |-> read.board, col |-> what.col, pos |-> read.pos,
                                  completed |-> read.toDone]
              ELSE IF what.pos > 0 /\ c \in Cards(what.col) /\ layCards[c].pos >= read.pos
                   THEN Shift(layCards[c], 1)
              ELSE layCards[c]]
  BY <1>1 DEF CreateCard
<1>3. Working(r) /\ IsReadOf(r) /\ Placing(r)
  BY <1>1, <1>2 DEF Working, LayInv, ReadsStand, OfCard, Placing
<1>4. what.card \in LayCard /\ p \in Nat /\ what.pos \in Nat /\ (what.pos > 0 => p = what.pos)
  BY <1>1, <1>2, <1>3 DEF IsReadOf, PosInv, PlacesAsked
<1>5. what.pos = 0 /\ mode # "any" => \A c \in LayCard : layCards[c].col = what.col => layCards[c].pos < p
  BY <1>1, <1>2 DEF PosInv, AtTheEnd, Appends
<1>6. \A c \in LayCard : layCards[c].pos \in Nat
  BY DEF PosInv, PosNumbers
<1>7. layCards'[what.card].col = what.col /\ layCards'[what.card].pos = p
  <2>1. layCards'[what.card] = [board |-> read.board, col |-> what.col, pos |-> read.pos, completed |-> read.toDone]
    BY <1>2, <1>4
  <2> QED BY <1>1, <2>1
<1>8. \A c \in LayCard : c # what.card =>
        /\ layCards'[c].col = layCards[c].col
        /\ layCards'[c].pos = IF what.pos > 0 /\ layCards[c].col = what.col /\ layCards[c].pos >= p
                              THEN layCards[c].pos + 1 ELSE layCards[c].pos
  <2> SUFFICES ASSUME NEW c \in LayCard, c # what.card
               PROVE  /\ layCards'[c].col = layCards[c].col
                      /\ layCards'[c].pos = IF what.pos > 0 /\ layCards[c].col = what.col /\ layCards[c].pos >= p
                                            THEN layCards[c].pos + 1 ELSE layCards[c].pos
    OBVIOUS
  <2>1. CASE what.pos > 0 /\ layCards[c].col = what.col /\ layCards[c].pos >= p
    <3>1. layCards'[c] = Shift(layCards[c], 1) /\ IsCard(layCards[c])
      BY <1>1, <1>2, <2>1 DEF Cards, LayInv, LayTypes
    <3> QED BY <2>1, <3>1, ShiftedRows
  <2>2. CASE ~(what.pos > 0 /\ layCards[c].col = what.col /\ layCards[c].pos >= p)
    <3>1. layCards'[c] = layCards[c]
      BY <1>1, <1>2, <2>2 DEF Cards
    <3> QED BY <2>2, <3>1
  <2> QED BY <2>1, <2>2
<1>9. PICK n \in Nat : n = p + 1
  BY <1>4
<1>10. \A c \in LayCard : layCards'[c].pos \in Nat /\ layCards'[c].pos <= layCards[c].pos + n
  BY <1>4, <1>6, <1>7, <1>8, <1>9
<1>11. mode # "any" => CardsDistinct'
  <2> SUFFICES ASSUME mode # "any", NEW c \in LayCard, NEW d \in LayCard, c # d,
                      layCards'[c].col = layCards'[d].col, layCards'[c].col # Gone
               PROVE  layCards'[c].pos # layCards'[d].pos
    BY DEF CardsDistinct
  <2>1. CASE c = what.card
    BY <1>4, <1>5, <1>6, <1>7, <1>8, <2>1
  <2>2. CASE d = what.card
    BY <1>4, <1>5, <1>6, <1>7, <1>8, <2>2
  <2>3. CASE c # what.card /\ d # what.card
    <3>1. CardsDistinct
      BY DEF PosInv, CardOrderTotal, AppendsDistinct, LayInv, LayTypes
    <3>2. layCards[c].col = layCards[d].col /\ layCards[c].pos # layCards[d].pos
      BY <1>8, <2>3, <3>1 DEF CardsDistinct
    <3> QED BY <1>4, <1>6, <1>8, <2>3, <3>2
  <2> QED BY <2>1, <2>2, <2>3
<1>12. \A q \in LayRequest : (q # r /\ layStep[q] = "placed" /\ Appends(q)) =>
         \A c \in LayCard : layCards'[c].col = layAsk[q].col =>
            layCards[c].col = layAsk[q].col /\ layCards'[c].pos <= layCards[c].pos
  <2> SUFFICES ASSUME NEW q \in LayRequest, q # r, layStep[q] = "placed", Appends(q),
                      NEW c \in LayCard, layCards'[c].col = layAsk[q].col
               PROVE  layCards[c].col = layAsk[q].col /\ layCards'[c].pos <= layCards[c].pos
    OBVIOUS
  <2>1. layAsk[q].col # what.col
    BY <1>1, <1>2, <1>3, PlacingApart DEF Placing, Appends
  <2>2. c # what.card /\ layCards[c].col = layAsk[q].col /\ layCards[c].col # what.col
    BY <1>7, <1>8, <2>1
  <2> QED BY <1>6, <1>8, <2>2
<1> QED BY <1>2, <1>3, <1>10, <1>11, <1>12, CardsPlaced

\* A card that is transferred goes to the end of its column; one that is deleted leaves a gap.
LEMMA TransferHasPlace == ASSUME LayInv, PosInv, NEW r \in LayRequest, TransferCard(r) PROVE PosInv'
<1>1. PICK what, read, p, new : /\ what = layAsk[r] /\ read = layRead[r] /\ p = read.pos
                               /\ new = Rehomed(what.card, read, what.col, p)
  OBVIOUS
<1>2. /\ layStep[r] = "placed" /\ what.kind = "transfer" /\ ColumnThere(what.col) /\ Ends(r)
      /\ UNCHANGED <<layMade, layBoards, oneProject, layColumns, toggled, mode>>
      /\ layCards' = [layCards EXCEPT ![what.card] = new]
  BY <1>1 DEF TransferCard
<1>3. Working(r) /\ IsReadOf(r) /\ Placing(r)
  BY <1>1, <1>2 DEF Working, LayInv, ReadsStand, OfCard, Placing
<1>4. what.card \in LayCard /\ p \in Nat /\ new.pos = p /\ new.col = what.col
  BY <1>1, <1>2, <1>3 DEF IsReadOf, PosInv, PlacesAsked, Rehomed
<1>5. mode # "any" => \A c \in LayCard : layCards[c].col = what.col => layCards[c].pos < p
  BY <1>1, <1>2 DEF PosInv, AtTheEnd, Appends
<1>6. \A c \in LayCard : layCards[c].pos \in Nat
  BY DEF PosInv, PosNumbers
<1>7. layCards'[what.card] = new /\ \A c \in LayCard : c # what.card => layCards'[c] = layCards[c]
  BY <1>2, <1>4 DEF LayInv, LayTypes
<1>8. \A c \in LayCard : layCards'[c].pos \in Nat /\ layCards'[c].pos <= layCards[c].pos + p
  BY <1>4, <1>6, <1>7
<1>9. mode # "any" => CardsDistinct'
  <2> SUFFICES ASSUME mode # "any", NEW c \in LayCard, NEW d \in LayCard, c # d,
                      layCards'[c].col = layCards'[d].col, layCards'[c].col # Gone
               PROVE  layCards'[c].pos # layCards'[d].pos
    BY DEF CardsDistinct
  <2>1. CASE c = what.card
    BY <1>4, <1>5, <1>6, <1>7, <2>1
  <2>2. CASE d = what.card
    BY <1>4, <1>5, <1>6, <1>7, <2>2
  <2>3. CASE c # what.card /\ d # what.card
    <3>1. CardsDistinct
      BY DEF PosInv, CardOrderTotal, AppendsDistinct, LayInv, LayTypes
    <3> QED BY <1>7, <2>3, <3>1 DEF CardsDistinct
  <2> QED BY <2>1, <2>2, <2>3
<1>10. \A q \in LayRequest : (q # r /\ layStep[q] = "placed" /\ Appends(q)) =>
         \A c \in LayCard : layCards'[c].col = layAsk[q].col =>
            layCards[c].col = layAsk[q].col /\ layCards'[c].pos <= layCards[c].pos
  <2> SUFFICES ASSUME NEW q \in LayRequest, q # r, layStep[q] = "placed", Appends(q),
                      NEW c \in LayCard, layCards'[c].col = layAsk[q].col
               PROVE  layCards[c].col = layAsk[q].col /\ layCards'[c].pos <= layCards[c].pos
    OBVIOUS
  <2>1. layAsk[q].col # what.col
    BY <1>1, <1>2, <1>3, PlacingApart DEF Placing, Appends
  <2>2. c # what.card
    BY <1>4, <1>7, <2>1
  <2> QED BY <1>6, <1>7, <2>2
<1> QED BY <1>2, <1>3, <1>4, <1>8, <1>9, <1>10, CardsPlaced

\* DeleteCard, CreateBoard and a rollback move no card.
LEMMA OthersPlace ==
    ASSUME LayInv, PosInv, NEW r \in LayRequest, DeleteCard(r) \/ LayRollback(r) \/ CreateBoard(r)
    PROVE  PosInv'
<1>1. Ends(r) /\ (Working(r) \/ Begins(r))
  BY DEF DeleteCard, LayRollback, CreateBoard, AtOnce, Working
<1>2. layColumns' = layColumns /\ oneProject' = oneProject /\ mode' = mode
  BY DEF DeleteCard, LayRollback, CreateBoard, layTables
<1>3. \A c \in LayCard : layCards'[c] \in {layCards[c], NoLayCard}
  BY DEF DeleteCard, LayRollback, CreateBoard, layTables, LayInv, LayTypes
<1>4. \A c \in LayCard : layCards[c].pos \in Nat
  BY DEF PosInv, PosNumbers
<1>5. NoLayCard.pos = 0 /\ NoLayCard.col = Gone
  BY DEF NoLayCard
<1>6. 0 \in Nat /\ \A c \in LayCard : layCards'[c].pos \in Nat /\ layCards'[c].pos <= layCards[c].pos + 0
  BY <1>3, <1>4, <1>5
<1>7. mode # "any" => CardsDistinct'
  <2>1. mode # "any" => CardsDistinct
    BY DEF PosInv, CardOrderTotal, AppendsDistinct, LayInv, LayTypes
  <2> QED BY <1>3, <1>5, <2>1 DEF CardsDistinct
<1>8. \A q \in LayRequest : (q # r /\ layStep[q] = "placed" /\ Appends(q)) =>
         \A c \in LayCard : layCards'[c].col = layAsk[q].col =>
            layCards[c].col = layAsk[q].col /\ layCards'[c].pos <= layCards[c].pos
  <2> SUFFICES ASSUME NEW q \in LayRequest, layStep[q] = "placed", Appends(q),
                      NEW c \in LayCard, layCards'[c].col = layAsk[q].col
               PROVE  layCards[c].col = layAsk[q].col /\ layCards'[c].pos <= layCards[c].pos
    OBVIOUS
  <2>1. layAsk[q].col \in LayColumn
    BY DEF Appends, Working, LayInv, ReadsStand, OfCard, IsReadOf
  <2>2. layCards'[c] = layCards[c]
    BY <1>3, <1>5, <2>1, LayAssumption
  <2> QED BY <1>4, <2>2
<1> QED BY <1>1, <1>2, <1>6, <1>7, <1>8, CardsPlaced

\* MoveCard: the cards between the two positions, or behind either of them, close the gap
\* and make room.
LEMMA MoveHasPlace == ASSUME LayInv, PosInv, NEW r \in LayRequest, MoveCard(r) PROVE PosInv'
<1>1. PICK what, read, from, fp, to, p :
        /\ what = layAsk[r] /\ read = layRead[r] /\ from = read.from /\ fp = read.fromPos
        /\ to = what.col /\ p = what.pos
  OBVIOUS
<1>2. /\ layStep[r] = "read" /\ what.kind = "move" /\ Ends(r)
      /\ UNCHANGED <<layMade, layBoards, oneProject, layColumns, toggled, mode>>
      /\ layCards' = [c \in LayCard |->
              IF c = what.card THEN Rehomed(c, read, what.col, what.pos)
              ELSE Shift(layCards[c], ShiftOfMove(c, read, what.col, what.pos))]
  BY <1>1 DEF MoveCard
<1>3. Working(r) /\ IsReadOf(r)
  BY <1>1, <1>2 DEF Working, LayInv, ReadsStand, OfCard
<1>4. what.card \in LayCard /\ p \in Nat /\ fp \in Nat /\ mode # "unmoved"
  BY <1>1, <1>2, <1>3 DEF IsReadOf, PosInv, PlacesAsked
<1>5. mode = "serial" => from = layCards[what.card].col /\ fp = layCards[what.card].pos
  BY <1>1, <1>2, <1>3 DEF PosInv, PlacesStand
<1>6. \A c \in LayCard : layCards[c].pos \in Nat
  BY DEF PosInv, PosNumbers
<1>7. layCards'[what.card].col = to /\ layCards'[what.card].pos = p
  BY <1>1, <1>2, <1>4 DEF Rehomed
<1>8. \A c \in LayCard : c # what.card =>
        /\ layCards'[c].col = layCards[c].col
        /\ layCards'[c].pos = layCards[c].pos + ShiftOfMove(c, read, to, p)
  <2> SUFFICES ASSUME NEW c \in LayCard, c # what.card
               PROVE  /\ layCards'[c].col = layCards[c].col
                      /\ layCards'[c].pos = layCards[c].pos + ShiftOfMove(c, read, to, p)
    OBVIOUS
  <2>1. PICK n : n = ShiftOfMove(c, read, to, p)
    OBVIOUS
  <2>2. layCards'[c] = Shift(layCards[c], n) /\ IsCard(layCards[c])
    BY <1>1, <1>2, <2>1 DEF LayInv, LayTypes
  <2> QED BY <2>1, <2>2, ShiftedRows
<1>9. \A c \in LayCard :
        /\ from = to => ShiftOfMove(c, read, to, p) =
              IF layCards[c].col = to /\ fp < layCards[c].pos /\ layCards[c].pos <= p THEN -1
              ELSE IF layCards[c].col = to /\ p <= layCards[c].pos /\ layCards[c].pos < fp THEN 1 ELSE 0
        /\ from # to => ShiftOfMove(c, read, to, p) =
              IF layCards[c].col = from /\ layCards[c].pos > fp THEN -1
              ELSE IF layCards[c].col = to /\ layCards[c].pos >= p THEN 1 ELSE 0
  <2> SUFFICES ASSUME NEW c \in LayCard
               PROVE  /\ from = to => ShiftOfMove(c, read, to, p) =
                            IF layCards[c].col = to /\ fp < layCards[c].pos /\ layCards[c].pos <= p THEN -1
                            ELSE IF layCards[c].col = to /\ p <= layCards[c].pos /\ layCards[c].pos < fp THEN 1 ELSE 0
                      /\ from # to => ShiftOfMove(c, read, to, p) =
                            IF layCards[c].col = from /\ layCards[c].pos > fp THEN -1
                            ELSE IF layCards[c].col = to /\ layCards[c].pos >= p THEN 1 ELSE 0
    OBVIOUS
  <2>1. layCards[c].pos \in Nat
    BY <1>6
  <2>2. (c \in Cards(to) <=> layCards[c].col = to) /\ (c \in Cards(from) <=> layCards[c].col = from)
    BY DEF Cards
  <2>3. CASE from = to
    BY <1>1, <1>4, <2>1, <2>2, <2>3 DEF ShiftOfMove
  <2>4. CASE from # to
    BY <1>1, <1>4, <2>1, <2>2, <2>4 DEF ShiftOfMove
  <2> QED BY <2>3, <2>4
<1>10. PICK n \in Nat : n = p + 1
  BY <1>4
<1>11. \A c \in LayCard : layCards'[c].pos \in Nat /\ layCards'[c].pos <= layCards[c].pos + n
  <2> SUFFICES ASSUME NEW c \in LayCard PROVE layCards'[c].pos \in Nat /\ layCards'[c].pos <= layCards[c].pos + n
    OBVIOUS
  <2>1. CASE c = what.card
    BY <1>4, <1>6, <1>7, <1>10, <2>1
  <2>2. CASE c # what.card /\ from = to
    BY <1>4, <1>6, <1>8, <1>9, <1>10, <2>2
  <2>3. CASE c # what.card /\ from # to
    BY <1>4, <1>6, <1>8, <1>9, <1>10, <2>3
  <2> QED BY <2>1, <2>2, <2>3
<1>12. mode = "serial" => CardsDistinct'
  <2> SUFFICES ASSUME mode = "serial", NEW c \in LayCard, NEW d \in LayCard, c # d,
                      layCards'[c].col = layCards'[d].col, layCards'[c].col # Gone
               PROVE  layCards'[c].pos # layCards'[d].pos
    BY DEF CardsDistinct
  <2>1. \A e, f \in LayCard : (e # f /\ layCards[e].col = layCards[f].col /\ layCards[e].col # Gone) =>
                                 layCards[e].pos # layCards[f].pos
    BY DEF PosInv, CardOrderTotal, CardsDistinct
  <2>2. to # Gone
    BY <1>1, <1>3, LayAssumption DEF IsReadOf
  <2>3. ASSUME NEW e \in LayCard, e # what.card, layCards'[e].col = to
        PROVE  layCards'[e].pos # p
    <3>1. layCards[e].col = to /\ layCards[e].pos \in Nat
      BY <1>6, <1>8, <2>3
    <3>2. CASE from = to
      <4>1. layCards[e].pos # fp
        BY <1>4, <1>5, <2>1, <2>2, <2>3, <3>1, <3>2
      <4> QED BY <1>4, <1>8, <1>9, <2>3, <3>1, <3>2, <4>1
    <3>3. CASE from # to
      BY <1>4, <1>8, <1>9, <2>3, <3>1, <3>3
    <3> QED BY <3>2, <3>3
  <2>4. CASE c = what.card
    BY <1>7, <2>3, <2>4
  <2>5. CASE d = what.card
    BY <1>7, <2>3, <2>5
  <2>6. CASE c # what.card /\ d # what.card
    <3>1. /\ layCards[c].col = layCards[d].col /\ layCards[c].pos # layCards[d].pos
          /\ layCards[c].pos \in Nat /\ layCards[d].pos \in Nat
      BY <1>6, <1>8, <2>1, <2>6
    <3>2. CASE layCards[c].col = from
      <4>1. layCards[c].pos # fp /\ layCards[d].pos # fp
        BY <1>4, <1>5, <1>8, <2>1, <2>6, <3>1, <3>2
      <4>2. CASE from = to
        BY <1>4, <1>8, <1>9, <2>6, <3>1, <3>2, <4>1, <4>2
      <4>3. CASE from # to
        BY <1>4, <1>8, <1>9, <2>6, <3>1, <3>2, <4>1, <4>3
      <4> QED BY <4>2, <4>3
    <3>3. CASE layCards[c].col # from
      BY <1>4, <1>8, <1>9, <2>6, <3>1, <3>3
    <3> QED BY <3>2, <3>3
  <2> QED BY <2>4, <2>5, <2>6
<1>13. mode # "any" => CardsDistinct'
  BY <1>4, <1>12 DEF LayInv, LayTypes
<1>14. mode = "unmoved" =>
         \A q \in LayRequest : (q # r /\ layStep[q] = "placed" /\ Appends(q)) =>
            \A c \in LayCard : layCards'[c].col = layAsk[q].col =>
               layCards[c].col = layAsk[q].col /\ layCards'[c].pos <= layCards[c].pos
  BY <1>4
<1>15. mode' = mode /\ oneProject' = oneProject /\ layColumns' = layColumns
  BY <1>2
<1> QED BY <1>2, <1>3, <1>4, <1>10, <1>11, <1>13, <1>14, <1>15, CardsPlaced

-----------------------------------------------------------------------------
\* Columns that are written keep finite in number and at bounded positions; the cards are
\* left alone or go with their column.
LEMMA ColumnsPlaced ==
    ASSUME LayInv, PosInv, NEW r \in LayRequest, Ends(r), Working(r) \/ Begins(r),
           mode' = mode, oneProject' = oneProject,
           NEW new, {k \in LayColumn : ColumnThere(k)'} \subseteq {k \in LayColumn : ColumnThere(k)} \cup {new},
           NEW n \in Nat,
           \A k \in LayColumn : layColumns'[k].pos \in Nat /\ layColumns'[k].pos <= layColumns[k].pos + n,
           \A c \in LayCard : layCards'[c] \in {layCards[c], NoLayCard},
           ColumnOrderTotal'
    PROVE  PosInv'
<1>1. PICK top \in Nat : /\ \A k \in LayColumn : layColumns[k].pos <= top
                         /\ \A c \in LayCard : layCards[c].pos <= top
  BY DEF PosInv, PosNumbers
<1>2. PICK high \in Nat : high = top + n
  OBVIOUS
<1>3. (\A k \in LayColumn : layColumns[k].pos \in Nat) /\ (\A c \in LayCard : layCards[c].pos \in Nat)
  BY DEF PosInv, PosNumbers
<1>4. NoLayCard.pos = 0 /\ NoLayCard.col = Gone
  BY DEF NoLayCard
<1>5. \A c \in LayCard : layCards'[c].pos \in Nat /\ layCards'[c].pos <= layCards[c].pos
  BY <1>3, <1>4
<1>6. (\A k \in LayColumn : layColumns'[k].pos <= high) /\ (\A c \in LayCard : layCards'[c].pos <= high)
  BY <1>1, <1>2, <1>3, <1>5
<1>7. IsFiniteSet({k \in LayColumn : ColumnThere(k)'})
  <2>1. IsFiniteSet({k \in LayColumn : ColumnThere(k)} \cup {new})
    BY FS_AddElement DEF PosInv, PosNumbers
  <2> QED BY <2>1, FS_Subset, Zenon
<1>8. PosNumbers'
  BY <1>5, <1>6, <1>7 DEF PosNumbers
<1>9. mode # "any" => CardsDistinct'
  <2>1. mode # "any" => CardsDistinct
    BY DEF PosInv, CardOrderTotal, AppendsDistinct, LayInv, LayTypes
  <2> QED BY <1>4, <2>1 DEF CardsDistinct
<1>10. \A q \in LayRequest : (q # r /\ layStep[q] = "placed" /\ Appends(q)) =>
         \A c \in LayCard : layCards'[c].col = layAsk[q].col =>
            layCards[c].col = layAsk[q].col /\ layCards'[c].pos <= layCards[c].pos
  <2> SUFFICES ASSUME NEW q \in LayRequest, layStep[q] = "placed", Appends(q),
                      NEW c \in LayCard, layCards'[c].col = layAsk[q].col
               PROVE  layCards[c].col = layAsk[q].col /\ layCards'[c].pos <= layCards[c].pos
    OBVIOUS
  <2>1. layAsk[q].col \in LayColumn
    BY DEF Appends, Working, LayInv, ReadsStand, OfCard, IsReadOf
  <2>2. layCards'[c] = layCards[c]
    BY <1>4, <2>1, LayAssumption
  <2> QED BY <1>5, <2>2
<1> QED BY <1>8, <1>9, <1>10, PosWritten

\* AddColumn: the columns behind the position make room, or it is behind all of them.
LEMMA AddedHasPlace == ASSUME LayInv, PosInv, NEW r \in LayRequest, AddColumn(r) PROVE PosInv'
<1>1. PICK what, p, new : what = layAsk[r] /\ p = layRead[r].pos /\ new = what.col
  OBVIOUS
<1>2. /\ layStep[r] = "read" /\ what.kind = "addColumn" /\ what.board \in layBoards /\ new \notin layMade
      /\ layColumns' = AddedColumn(what, p) /\ Ends(r)
      /\ UNCHANGED <<layBoards, oneProject, layCards, toggled, mode>>
  BY <1>1 DEF AddColumn
<1>3. Working(r) /\ new \in LayColumn /\ what.board \in LayBoard /\ p \in Nat /\ what.pos \in Nat /\ (what.pos > 0 => p = what.pos)
  BY <1>1, <1>2 DEF Working, LayInv, ReadsStand, PosInv, PlacesAsked
<1>4. (mode = "serial" /\ what.pos = 0) =>
        \A k \in LayColumn : layColumns[k].board = what.board => layColumns[k].pos < p
  BY <1>1, <1>2, <1>3 DEF PosInv, PlacesStand
<1>5. \A k \in LayColumn : layColumns[k].pos \in Nat
  BY DEF PosInv, PosNumbers
<1>6. layColumns'[new].board = what.board /\ layColumns'[new].pos = p
  <2>1. layColumns'[new] = [board |-> what.board, pos |-> p, done |-> what.done]
    BY <1>1, <1>2, <1>3 DEF AddedColumn
  <2> QED BY <2>1
<1>7. \A k \in LayColumn : k # new =>
        /\ layColumns'[k].board = layColumns[k].board
        /\ layColumns'[k].pos = IF what.pos > 0 /\ layColumns[k].board = what.board /\ layColumns[k].pos >= p
                                THEN layColumns[k].pos + 1 ELSE layColumns[k].pos
  <2> SUFFICES ASSUME NEW k \in LayColumn, k # new
               PROVE  /\ layColumns'[k].board = layColumns[k].board
                      /\ layColumns'[k].pos = IF what.pos > 0 /\ layColumns[k].board = what.board /\ layColumns[k].pos >= p
                                              THEN layColumns[k].pos + 1 ELSE layColumns[k].pos
    OBVIOUS
  <2>1. CASE what.pos > 0 /\ layColumns[k].board = what.board /\ layColumns[k].pos >= p
    <3>1. layColumns'[k] = Shift(layColumns[k], 1) /\ IsColumn(layColumns[k])
      BY <1>1, <1>2, <2>1 DEF AddedColumn, Columns, LayInv, LayTypes
    <3> QED BY <2>1, <3>1, ShiftedRows
  <2>2. CASE ~(what.pos > 0 /\ layColumns[k].board = what.board /\ layColumns[k].pos >= p)
    <3>1. layColumns'[k] = layColumns[k]
      BY <1>1, <1>2, <2>2 DEF AddedColumn, Columns
    <3> QED BY <2>2, <3>1
  <2> QED BY <2>1, <2>2
<1>8. PICK n \in Nat : n = p + 1
  BY <1>3
<1>9. \A k \in LayColumn : layColumns'[k].pos \in Nat /\ layColumns'[k].pos <= layColumns[k].pos + n
  BY <1>3, <1>5, <1>6, <1>7, <1>8
<1>10. {k \in LayColumn : ColumnThere(k)'} \subseteq {k \in LayColumn : ColumnThere(k)} \cup {new}
  BY <1>7 DEF ColumnThere
<1>11. \A c \in LayCard : layCards'[c] \in {layCards[c], NoLayCard}
  BY <1>2
<1>12. ColumnOrderTotal'
  <2> SUFFICES ASSUME mode = "serial", NEW k \in LayColumn, NEW l \in LayColumn, k # l,
                      layColumns'[k].board = layColumns'[l].board, layColumns'[k].board # Gone
               PROVE  layColumns'[k].pos # layColumns'[l].pos
    BY <1>2 DEF ColumnOrderTotal, ColumnThere
  <2>1. CASE k = new
    BY <1>3, <1>4, <1>5, <1>6, <1>7, <2>1
  <2>2. CASE l = new
    BY <1>3, <1>4, <1>5, <1>6, <1>7, <2>2
  <2>3. CASE k # new /\ l # new
    <3>1. layColumns[k].board = layColumns[l].board /\ layColumns[k].pos # layColumns[l].pos
      BY <1>7, <2>3 DEF PosInv, ColumnOrderTotal, ColumnThere
    <3> QED BY <1>3, <1>5, <1>7, <2>3, <3>1
  <2> QED BY <2>1, <2>2, <2>3
<1> QED BY <1>2, <1>3, <1>9, <1>10, <1>11, <1>12, ColumnsPlaced

\* MoveColumn: the columns between the two positions shift towards the one that is left.
LEMMA MovedHasPlace == ASSUME LayInv, PosInv, NEW r \in LayRequest, MoveColumn(r) PROVE PosInv'
<1>1. PICK col, from, to : col = layAsk[r].col /\ from = layRead[r].pos /\ to = layAsk[r].pos
  OBVIOUS
<1>2. /\ layStep[r] = "read" /\ layAsk[r].kind = "moveColumn" /\ ColumnThere(col) /\ Ends(r)
      /\ layColumns' = IF from = to THEN layColumns ELSE MovedColumn(col, from, to)
      /\ UNCHANGED <<layMade, layBoards, oneProject, layCards, toggled, mode>>
  BY <1>1 DEF MoveColumn
<1>3. Working(r) /\ col \in LayColumn /\ from \in Nat /\ to \in Nat
  BY <1>1, <1>2 DEF Working, PosInv, PlacesAsked
<1>4. mode = "serial" => from = layColumns[col].pos
  BY <1>1, <1>2, <1>3 DEF PosInv, PlacesStand
<1>5. \A k \in LayColumn : layColumns[k].pos \in Nat
  BY DEF PosInv, PosNumbers
<1>6. from # to =>
        /\ layColumns'[col].board = layColumns[col].board /\ layColumns'[col].pos = to
        /\ \A k \in LayColumn : k # col =>
             /\ layColumns'[k].board = layColumns[k].board
             /\ layColumns'[k].pos =
                  IF layColumns[k].board = layColumns[col].board /\ from < layColumns[k].pos /\ layColumns[k].pos <= to
                  THEN layColumns[k].pos - 1
                  ELSE IF layColumns[k].board = layColumns[col].board /\ to <= layColumns[k].pos /\ layColumns[k].pos < from
                  THEN layColumns[k].pos + 1 ELSE layColumns[k].pos
  <2> SUFFICES ASSUME from # to
               PROVE  /\ layColumns'[col].board = layColumns[col].board /\ layColumns'[col].pos = to
                      /\ \A k \in LayColumn : k # col =>
                           /\ layColumns'[k].board = layColumns[k].board
                           /\ layColumns'[k].pos =
                                IF layColumns[k].board = layColumns[col].board /\ from < layColumns[k].pos /\ layColumns[k].pos <= to
                                THEN layColumns[k].pos - 1
                                ELSE IF layColumns[k].board = layColumns[col].board /\ to <= layColumns[k].pos /\ layColumns[k].pos < from
                                THEN layColumns[k].pos + 1 ELSE layColumns[k].pos
    OBVIOUS
  <2>0. \A k \in LayColumn : IsColumn(layColumns[k])
    BY DEF LayInv, LayTypes
  <2>1. layColumns' = MovedColumn(col, from, to)
    BY <1>2
  <2>2. layColumns'[col] = [layColumns[col] EXCEPT !.pos = to]
    BY <1>3, <2>1 DEF MovedColumn
  <2>3. ASSUME NEW k \in LayColumn, k # col
        PROVE  /\ layColumns'[k].board = layColumns[k].board
               /\ layColumns'[k].pos =
                    IF layColumns[k].board = layColumns[col].board /\ from < layColumns[k].pos /\ layColumns[k].pos <= to
                    THEN layColumns[k].pos - 1
                    ELSE IF layColumns[k].board = layColumns[col].board /\ to <= layColumns[k].pos /\ layColumns[k].pos < from
                    THEN layColumns[k].pos + 1 ELSE layColumns[k].pos
    <3>1. k \in Columns(layColumns[col].board) <=> layColumns[k].board = layColumns[col].board
      BY DEF Columns
    <3>2. CASE layColumns[k].board = layColumns[col].board /\ from < layColumns[k].pos /\ layColumns[k].pos <= to
      <4>1. layColumns'[k] = Shift(layColumns[k], -1)
        BY <1>3, <1>5, <2>1, <2>3, <3>1, <3>2 DEF MovedColumn
      <4>2. layColumns[k].pos + (-1) = layColumns[k].pos - 1
        BY <1>5
      <4> QED BY <2>0, <3>2, <4>1, <4>2, ShiftedRows
    <3>3. CASE /\ layColumns[k].board = layColumns[col].board /\ to <= layColumns[k].pos /\ layColumns[k].pos < from
               /\ ~(from < layColumns[k].pos /\ layColumns[k].pos <= to)
      <4>1. layColumns'[k] = Shift(layColumns[k], 1)
        BY <1>3, <1>5, <2>1, <2>3, <3>1, <3>3 DEF MovedColumn
      <4> QED BY <2>0, <3>3, <4>1, ShiftedRows
    <3>4. CASE /\ ~(layColumns[k].board = layColumns[col].board /\ from < layColumns[k].pos /\ layColumns[k].pos <= to)
               /\ ~(layColumns[k].board = layColumns[col].board /\ to <= layColumns[k].pos /\ layColumns[k].pos < from)
      <4>1. layColumns'[k] = layColumns[k]
        BY <1>3, <1>5, <2>1, <2>3, <3>1, <3>4 DEF MovedColumn
      <4> QED BY <3>4, <4>1
    <3> QED BY <3>2, <3>3, <3>4
  <2> QED BY <1>3, <2>0, <2>2, <2>3, ShiftedRows
<1>7. PICK n \in Nat : n = to + 1
  BY <1>3
<1>8. \A k \in LayColumn : /\ layColumns'[k].pos \in Nat /\ layColumns'[k].pos <= layColumns[k].pos + n
                           /\ layColumns'[k].board = layColumns[k].board
  <2>1. CASE from = to
    BY <1>2, <1>3, <1>5, <1>7, <2>1
  <2>2. CASE from # to
    BY <1>3, <1>5, <1>6, <1>7, <2>2
  <2> QED BY <2>1, <2>2
<1>9. {k \in LayColumn : ColumnThere(k)'} \subseteq {k \in LayColumn : ColumnThere(k)} \cup {col}
  BY <1>8 DEF ColumnThere
<1>10. \A c \in LayCard : layCards'[c] \in {layCards[c], NoLayCard}
  BY <1>2
<1>11. ColumnOrderTotal'
  <2> SUFFICES ASSUME mode = "serial", NEW k \in LayColumn, NEW l \in LayColumn, k # l,
                      layColumns'[k].board = layColumns'[l].board, layColumns'[k].board # Gone
               PROVE  layColumns'[k].pos # layColumns'[l].pos
    BY <1>2 DEF ColumnOrderTotal, ColumnThere
  <2>1. /\ layColumns[k].board = layColumns[l].board /\ layColumns[k].pos # layColumns[l].pos
        /\ layColumns[k].pos \in Nat /\ layColumns[l].pos \in Nat
    BY <1>5, <1>8 DEF PosInv, ColumnOrderTotal, ColumnThere
  <2>2. CASE from = to
    BY <1>2, <2>1, <2>2
  <2>3. CASE from # to /\ k = col
    BY <1>3, <1>4, <1>6, <2>1, <2>3
  <2>4. CASE from # to /\ l = col
    BY <1>3, <1>4, <1>6, <2>1, <2>4
  <2>5. CASE from # to /\ k # col /\ l # col
    <3>1. layColumns[k].board = layColumns[col].board => layColumns[k].pos # from /\ layColumns[l].pos # from
      BY <1>3, <1>4, <1>8, <2>1, <2>5 DEF PosInv, ColumnOrderTotal, ColumnThere
    <3> QED BY <1>3, <1>6, <2>1, <2>5, <3>1
  <2> QED BY <2>2, <2>3, <2>4, <2>5
<1> QED BY <1>2, <1>3, <1>7, <1>8, <1>9, <1>10, <1>11, ColumnsPlaced

\* UpdateColumn marks a column where it stands.
LEMMA MarkedHasPlace == ASSUME LayInv, PosInv, NEW r \in LayRequest, UpdateColumn(r) PROVE PosInv'
<1>1. PICK col \in LayColumn : /\ ColumnThere(col) /\ layColumns' = [layColumns EXCEPT ![col].done = ~@]
                               /\ Ends(r) /\ Begins(r)
                               /\ UNCHANGED <<layMade, layBoards, oneProject, layCards, mode>>
  BY DEF UpdateColumn, AtOnce
<1>2. \A k \in LayColumn : layColumns'[k].board = layColumns[k].board /\ layColumns'[k].pos = layColumns[k].pos
  <2> SUFFICES ASSUME NEW k \in LayColumn
               PROVE  layColumns'[k].board = layColumns[k].board /\ layColumns'[k].pos = layColumns[k].pos
    OBVIOUS
  <2>1. layColumns = [j \in LayColumn |-> layColumns[j]] /\ IsColumn(layColumns[k])
    BY DEF LayInv, LayTypes
  <2>2. CASE k = col
    <3>1. layColumns'[k] = [layColumns[k] EXCEPT !.done = ~layColumns[k].done]
      BY <1>1, <2>1, <2>2
    <3>2. PICK b, p, d : layColumns[k] = [board |-> b, pos |-> p, done |-> d]
      BY <2>1 DEF IsColumn
    <3> QED BY <3>1, <3>2
  <2>3. CASE k # col
    BY <1>1, <2>1, <2>3
  <2> QED BY <2>2, <2>3
<1>3. 0 \in Nat /\ \A k \in LayColumn : layColumns'[k].pos \in Nat /\ layColumns'[k].pos <= layColumns[k].pos + 0
  BY <1>2 DEF PosInv, PosNumbers
<1>4. {k \in LayColumn : ColumnThere(k)'} \subseteq {k \in LayColumn : ColumnThere(k)} \cup {col}
  BY <1>2 DEF ColumnThere
<1>5. \A c \in LayCard : layCards'[c] \in {layCards[c], NoLayCard}
  BY <1>1
<1>6. ColumnOrderTotal'
  BY <1>1, <1>2 DEF PosInv, ColumnOrderTotal, ColumnThere
<1> QED BY <1>1, <1>3, <1>4, <1>5, <1>6, ColumnsPlaced

\* RemoveColumn numbers the columns that stay anew, each at a place of its own.
LEMMA RemovedLeavesPlaces == ASSUME LayInv, PosInv, NEW r \in LayRequest, RemoveColumn(r) PROVE PosInv'
<1>1. PICK col, rest :
        /\ col \in LayColumn
        /\ rest = Columns(layColumns[col].board) \ {col}
        /\ AtOnce(r) /\ ColumnThere(col)
        /\ \E rank \in [rest -> 0..(Cardinality(rest) - 1)] :
             /\ \A i, j \in rest :
                  /\ i # j => rank[i] # rank[j]
                  /\ layColumns[i].pos < layColumns[j].pos => rank[i] < rank[j]
             /\ layColumns' = [i \in LayColumn |->
                    CASE i = col -> NoLayColumn
                      [] i \in rest -> [layColumns[i] EXCEPT !.pos = rank[i]]
                      [] OTHER -> layColumns[i]]
        /\ layCards' = WithoutColumns({col})
        /\ UNCHANGED <<layMade, layBoards, oneProject, toggled, mode>>
  BY Zenon DEF RemoveColumn
<1>2. col \in LayColumn /\ rest = Columns(layColumns[col].board) \ {col}
  BY <1>1, Zenon
<1>3. /\ Ends(r) /\ Begins(r) /\ ColumnThere(col) /\ layCards' = WithoutColumns({col})
      /\ mode' = mode /\ oneProject' = oneProject
  BY <1>1, Zenon DEF AtOnce
<1>4. PICK rank \in [rest -> 0..(Cardinality(rest) - 1)] :
         /\ \A i, j \in rest : i # j => rank[i] # rank[j]
         /\ layColumns' = [i \in LayColumn |->
                CASE i = col -> NoLayColumn
                  [] i \in rest -> [layColumns[i] EXCEPT !.pos = rank[i]]
                  [] OTHER -> layColumns[i]]
  <2>1. \E rank \in [rest -> 0..(Cardinality(rest) - 1)] :
           /\ \A i, j \in rest :
                /\ i # j => rank[i] # rank[j]
                /\ layColumns[i].pos < layColumns[j].pos => rank[i] < rank[j]
           /\ layColumns' = [i \in LayColumn |->
                  CASE i = col -> NoLayColumn
                    [] i \in rest -> [layColumns[i] EXCEPT !.pos = rank[i]]
                    [] OTHER -> layColumns[i]]
    BY <1>1, Zenon
  <2>2. PICK rank \in [rest -> 0..(Cardinality(rest) - 1)] :
           /\ \A i, j \in rest :
                /\ i # j => rank[i] # rank[j]
                /\ layColumns[i].pos < layColumns[j].pos => rank[i] < rank[j]
           /\ layColumns' = [i \in LayColumn |->
                  CASE i = col -> NoLayColumn
                    [] i \in rest -> [layColumns[i] EXCEPT !.pos = rank[i]]
                    [] OTHER -> layColumns[i]]
    BY <2>1, Zenon
  <2>3. \A i, j \in rest : i # j => rank[i] # rank[j]
    BY <2>2, Zenon
  <2> QED BY <2>2, <2>3, Zenon
<1>5. Cardinality(rest) \in Nat
  <2>1. rest \subseteq {k \in LayColumn : ColumnThere(k)}
    BY <1>2, <1>3 DEF Columns, ColumnThere
  <2>2. IsFiniteSet(rest)
    BY <2>1, FS_Subset, Zenon DEF PosInv, PosNumbers
  <2> QED BY <2>2, FS_CardinalityType
<1>6. \A k \in LayColumn : layColumns[k].pos \in Nat
  BY DEF PosInv, PosNumbers
<1>7. /\ layColumns'[col].board = Gone /\ layColumns'[col].pos = 0 /\ col \notin rest
      /\ \A k \in rest : k \in LayColumn /\ layColumns'[k].board = layColumns[col].board /\ layColumns'[k].pos = rank[k]
      /\ \A k \in LayColumn : k # col /\ k \notin rest =>
            layColumns'[k] = layColumns[k] /\ layColumns[k].board # layColumns[col].board
  <2>1. col \notin rest /\ \A k \in LayColumn : k \in rest <=> (k # col /\ layColumns[k].board = layColumns[col].board)
    BY <1>2 DEF Columns
  <2>2. layColumns'[col] = NoLayColumn
    BY <1>2, <1>4
  <2>3. rest \subseteq LayColumn
    BY <1>2 DEF Columns
  <2>4. ASSUME NEW k \in rest PROVE layColumns'[k].board = layColumns[col].board /\ layColumns'[k].pos = rank[k]
    <3>1. k \in LayColumn /\ k # col /\ IsColumn(layColumns[k])
      BY <2>1, <2>3 DEF LayInv, LayTypes
    <3>2. PICK n : n = rank[k]
      OBVIOUS
    <3>3. layColumns'[k] = [layColumns[k] EXCEPT !.pos = n]
      BY <1>4, <3>1, <3>2
    <3> QED BY <2>1, <3>1, <3>2, <3>3, ShiftedRows
  <2>5. \A k \in LayColumn : k # col /\ k \notin rest => layColumns'[k] = layColumns[k]
    BY <1>4
  <2> QED BY <2>1, <2>2, <2>3, <2>4, <2>5 DEF NoLayColumn
<1>8. PICK n \in Nat : n = Cardinality(rest)
  BY <1>5
<1>9. \A k \in rest : rank[k] \in Nat /\ rank[k] <= n
  BY <1>5, <1>8
<1>10. \A k \in LayColumn : layColumns'[k].pos \in Nat /\ layColumns'[k].pos <= layColumns[k].pos + n
  <2> SUFFICES ASSUME NEW k \in LayColumn PROVE layColumns'[k].pos \in Nat /\ layColumns'[k].pos <= layColumns[k].pos + n
    OBVIOUS
  <2>1. CASE k = col
    BY <1>6, <1>7, <2>1
  <2>2. CASE k \in rest
    BY <1>6, <1>7, <1>9, <2>2
  <2>3. CASE k # col /\ k \notin rest
    BY <1>6, <1>7, <2>3
  <2> QED BY <2>1, <2>2, <2>3
<1>11. {k \in LayColumn : ColumnThere(k)'} \subseteq {k \in LayColumn : ColumnThere(k)} \cup {col}
  <2> SUFFICES ASSUME NEW k \in LayColumn, ColumnThere(k)', k # col PROVE ColumnThere(k)
    OBVIOUS
  <2>1. CASE k \in rest
    <3>1. k \in Columns(layColumns[col].board) /\ layColumns[col].board # Gone
      BY <1>2, <1>3, <2>1 DEF ColumnThere
    <3> QED BY <3>1 DEF ColumnThere, Columns
  <2>2. CASE k \notin rest
    <3>1. layColumns'[k].board # Gone /\ layColumns'[k] = layColumns[k]
      BY <1>7, <2>2 DEF ColumnThere
    <3> QED BY <3>1 DEF ColumnThere
  <2> QED BY <2>1, <2>2
<1>12. \A c \in LayCard : layCards'[c] \in {layCards[c], NoLayCard}
  BY <1>3 DEF WithoutColumns
<1>13. ColumnOrderTotal'
  <2> SUFFICES ASSUME mode = "serial", NEW k \in LayColumn, NEW l \in LayColumn, k # l,
                      layColumns'[k].board = layColumns'[l].board, layColumns'[k].board # Gone
               PROVE  layColumns'[k].pos # layColumns'[l].pos
    BY <1>3 DEF ColumnOrderTotal, ColumnThere
  <2>1. k # col /\ l # col
    BY <1>7
  <2>2. CASE k \in rest /\ l \in rest
    <3>1. rank[k] # rank[l]
      BY <1>4, <2>2, Zenon
    <3>2. layColumns'[k].pos = rank[k] /\ layColumns'[l].pos = rank[l]
      BY <1>7, <2>2, Zenon
    <3> QED BY <3>1, <3>2
  <2>3. CASE k \notin rest /\ l \notin rest
    <3>1. layColumns[k].board = layColumns[l].board /\ layColumns[k].board # Gone
      BY <1>7, <2>1, <2>3
    <3> QED BY <1>7, <2>1, <2>3, <3>1 DEF PosInv, ColumnOrderTotal, ColumnThere
  <2>4. CASE k \in rest /\ l \notin rest
    BY <1>7, <2>1, <2>4
  <2>5. CASE k \notin rest /\ l \in rest
    BY <1>7, <2>1, <2>5
  <2> QED BY <2>2, <2>3, <2>4, <2>5
<1> QED BY <1>3, <1>10, <1>11, <1>12, <1>13, ColumnsPlaced

\* DeleteBoard takes all its columns, and leaves the others where they stand.
LEMMA DeletedLeavesPlaces == ASSUME LayInv, PosInv, NEW r \in LayRequest, DeleteBoard(r) PROVE PosInv'
<1>1. PICK b \in layBoards : /\ AtOnce(r)
        /\ layColumns' = [k \in LayColumn |-> IF k \in Columns(b) THEN NoLayColumn ELSE layColumns[k]]
        /\ layCards' = WithoutColumns(Columns(b)) /\ UNCHANGED <<layMade, oneProject, toggled, mode>>
  BY DEF DeleteBoard
<1>2. Ends(r) /\ Begins(r) /\ mode' = mode /\ oneProject' = oneProject
  BY <1>1 DEF AtOnce
<1>3. NoLayColumn.pos = 0 /\ NoLayColumn.board = Gone
  BY DEF NoLayColumn
<1>4. \A k \in LayColumn : layColumns'[k] \in {layColumns[k], NoLayColumn}
  BY <1>1
<1>5. 0 \in Nat /\ \A k \in LayColumn : layColumns'[k].pos \in Nat /\ layColumns'[k].pos <= layColumns[k].pos + 0
  BY <1>3, <1>4 DEF PosInv, PosNumbers
<1>6. {k \in LayColumn : ColumnThere(k)'} \subseteq {k \in LayColumn : ColumnThere(k)} \cup {b}
  BY <1>3, <1>4 DEF ColumnThere
<1>7. \A c \in LayCard : layCards'[c] \in {layCards[c], NoLayCard}
  BY <1>1 DEF WithoutColumns
<1>8. ColumnOrderTotal'
  BY <1>2, <1>3, <1>4 DEF PosInv, ColumnOrderTotal, ColumnThere
<1> QED BY <1>2, <1>5, <1>6, <1>7, <1>8, ColumnsPlaced

-----------------------------------------------------------------------------
\* What the positions of cards and columns always satisfy.
LEMMA PosFollowed == LaySpec => []PosInv
<1>1. LayInit => LayInv /\ PosInv
  BY LayStarts, PosStarts
<1>2. LayInv /\ PosInv /\ [LayNext]_layVars => PosInv'
  <2> SUFFICES ASSUME LayInv, PosInv, [LayNext]_layVars PROVE PosInv'
    OBVIOUS
  <2>1. CASE UNCHANGED layVars
    <3>1. UNCHANGED <<layBoards, layMade, oneProject, layColumns, layCards, toggled, mode, layStep, layAsk, layRead>>
      BY <2>1 DEF layVars, layTables
    <3>2. PosNumbers' /\ CardOrderTotal' /\ AppendsDistinct' /\ ColumnOrderTotal'
      BY <3>1 DEF PosInv, PosNumbers, CardOrderTotal, AppendsDistinct, CardsDistinct, ColumnOrderTotal, ColumnThere
    <3>3. PlacesAsked'
      BY <3>1 DEF PosInv, PlacesAsked, Appends, Working
    <3>4. LockHeld'
      BY <3>1 DEF PosInv, LockHeld, Placing, SameProject
    <3>5. AtTheEnd'
      BY <3>1 DEF PosInv, AtTheEnd, Appends
    <3>6. PlacesStand'
      BY <3>1 DEF PosInv, PlacesStand, Working
    <3> QED BY <3>2, <3>3, <3>4, <3>5, <3>6 DEF PosInv
  <2>2. CASE LayNext
    <3>1. PICK r \in LayRequest : LayHandle(r)
      BY <2>2 DEF LayNext
    <3> QED BY <3>1, BeginsPlace, PlaceAtTheEnd, CreateHasPlace, MoveHasPlace, TransferHasPlace, OthersPlace, AddedHasPlace,
               MovedHasPlace, MarkedHasPlace, RemovedLeavesPlaces, DeletedLeavesPlaces DEF LayHandle
  <2> QED BY <2>1, <2>2
<1> QED BY <1>1, <1>2, LayFollowed, PTL DEF LaySpec

\* Requests one after the other, in any order and for any position, leave cards and columns
\* at positions of their own; without MoveCard the lock of the project keeps cards apart
\* even when they overlap: for any boards, columns, cards and requests.
THEOREM LayoutStands == LaySpec => []LayoutHolds
<1>3. PosInv => PositionsDistinct
  BY DEF PosInv, PositionsDistinct
<1> QED BY <1>3, PosFollowed, CardsFit, PTL DEF LayoutHolds

-----------------------------------------------------------------------------
(* The types that the runs check, of each part and of all together.        *)

\* The cards of an answer are on boards that it shows.
CardsAreOfBoards ==
    \A r \in VisReader : reading[r] # NotReading => reading[r].cards \subseteq VisCard \X reading[r].shown

\* Before the last query of a handler no card is in its answer, and only GetAggregatedBoard
\* asks for cards.
LEMMA CardsComeLast ==
    ASSUME VisInv, CardsAreOfBoards, [VisNext]_visVars PROVE CardsAreOfBoards'
<1>1. CASE UNCHANGED visVars
  BY <1>1 DEF visVars, CardsAreOfBoards
<1>2. CASE ChangeVisibility \/ GrantView \/ RevokeView \/ CardMovesTo \/ BoardGoes
  BY <1>2 DEF ChangeVisibility, GrantView, RevokeView, CardMovesTo, BoardGoes, Disturbs, CardsAreOfBoards
<1>3. ASSUME NEW r \in VisReader, NEW w, ReadGoes(r, w), w.cards \subseteq VisCard \X w.shown PROVE CardsAreOfBoards'
  <2>1. reading' = [reading EXCEPT ![r] = w] /\ DOMAIN reading = VisReader
    BY <1>3 DEF ReadGoes, VisInv, VisTypes
  <2> QED BY <1>3, <2>1 DEF CardsAreOfBoards
<1>4. ASSUME NEW r \in VisReader, BeginReading(r) PROVE CardsAreOfBoards'
  <2>1. PICK kind \in Kind, b \in VisBoard :
          ReadGoes(r, [at |-> "begun", kind |-> kind, asked |-> b, rows |-> {}, open |-> {},
                       granted |-> {}, shown |-> {}, cards |-> {}])
    BY <1>4, Zenon DEF BeginReading
  <2> QED BY <1>3, <2>1
<1>5. ASSUME NEW r \in VisReader, FetchCards(r) PROVE CardsAreOfBoards'
  <2>1. PICK cards : cards = {<<c, onBoard[c]>> : c \in CardsOf(r)}
    OBVIOUS
  <2>2. ReadGoes(r, [reading[r] EXCEPT !.at = "shown", !.cards = cards]) /\ reading[r].at = "expanded"
    BY <1>5, <2>1 DEF FetchCards, At
  <2>3. reading[r] \in VisWork
    BY <2>2, IdleReadsNothing DEF VisInv
  <2>4. PICK w : w = [reading[r] EXCEPT !.at = "shown", !.cards = cards]
    OBVIOUS
  <2>5. w.cards = cards /\ w.shown = reading[r].shown
    BY <2>3, <2>4 DEF VisWork
  <2>6. cards \subseteq VisCard \X reading[r].shown
    BY <2>1 DEF CardsOf
  <2> QED BY <1>3, <2>2, <2>4, <2>5, <2>6
<1>6. ASSUME NEW r \in VisReader, Active(r), NEW w, ReadGoes(r, w), w.cards = reading[r].cards
      PROVE  CardsAreOfBoards'
  <2>1. reading[r].at # "shown" /\ reading[r] # NotReading
    BY <1>6 DEF Active, NotReading
  <2>2. reading[r].cards = {}
    BY <2>1 DEF VisInv, ReadsAreBetween, ReadIsBetween
  <2> QED BY <1>3, <1>6, <2>2
<1>7. ASSUME NEW r \in VisReader,
             \/ TooMany(r) \/ ListRows(r) \/ ListExpanded(r) \/ ExpandFirst(r) \/ ThenRows(r)
             \/ GetRow(r) \/ CheckView(r) \/ ShowPublic(r)
             \/ ReadSources(r) \/ ExpandSources(r) \/ OpenSources(r)
      PROVE  CardsAreOfBoards'
  <2>1. Active(r)
    BY <1>7 DEF TooMany, ListRows, ListExpanded, ExpandFirst, ThenRows, GetRow, CheckView, ShowPublic, ReadSources,
                ExpandSources, OpenSources, At, Active
  <2>2. PICK rd \in VisWork : rd = reading[r]
    BY <2>1, IdleReadsNothing DEF Active, VisInv
  <2>3. \A w : w = [rd EXCEPT !.at = "refused"] => w.cards = rd.cards
    BY <2>2 DEF VisWork
  <2>4. PICK w : ReadGoes(r, w) /\ w.cards = rd.cards
    <3>1. CASE Refused(r)
      <4>1. PICK w : w = [rd EXCEPT !.at = "refused"]
        OBVIOUS
      <4> QED BY <2>2, <2>3, <3>1, <4>1 DEF Refused
    <3>2. CASE ListRows(r)
      <4>1. PICK w : w = [rd EXCEPT !.at = "rowRead", !.rows = Read(r).rows, !.open = Read(r).open]
        OBVIOUS
      <4>2. w.cards = rd.cards
        BY <4>1, <2>2 DEF VisWork
      <4>3. ReadGoes(r, w)
        BY <2>2, <3>2, <4>1 DEF ListRows
      <4> QED BY <4>2, <4>3
    <3>3. CASE ListExpanded(r)
      <4>1. PICK g : ReadGoes(r, [rd EXCEPT !.at = "shown", !.shown = @ \cup rd.open \cup (rd.rows \cap g)])
        BY <2>2, <3>3 DEF ListExpanded
      <4>2. PICK w : w = [rd EXCEPT !.at = "shown", !.shown = @ \cup rd.open \cup (rd.rows \cap g)]
        OBVIOUS
      <4>3. w.cards = rd.cards
        BY <4>2, <2>2 DEF VisWork
      <4> QED BY <4>1, <4>2, <4>3
    <3>4. CASE ExpandFirst(r) \/ ExpandSources(r)
      <4>1. PICK g, x : ReadGoes(r, [rd EXCEPT !.at = x, !.granted = g])
        BY <2>2, <3>4 DEF ExpandFirst, ExpandSources
      <4>2. PICK w : w = [rd EXCEPT !.at = x, !.granted = g]
        OBVIOUS
      <4>3. w.cards = rd.cards
        BY <4>2, <2>2 DEF VisWork
      <4> QED BY <4>1, <4>2, <4>3
    <3>5. CASE ThenRows(r) \/ OpenSources(r) \/ (ShowPublic(r) /\ ~Refused(r))
      <4>1. PICK g, x : ReadGoes(r, [rd EXCEPT !.at = x, !.shown = g])
        BY <2>2, <3>5 DEF ThenRows, OpenSources, ShowPublic
      <4>2. PICK w : w = [rd EXCEPT !.at = x, !.shown = g]
        OBVIOUS
      <4>3. w.cards = rd.cards
        BY <4>2, <2>2 DEF VisWork
      <4> QED BY <4>1, <4>2, <4>3
    <3>6. CASE (GetRow(r) \/ CheckView(r)) /\ ~Refused(r)
      <4>1. CASE ReadGoes(r, [rd EXCEPT !.at = "shown", !.shown = {rd.asked}])
        <5>1. PICK w : w = [rd EXCEPT !.at = "shown", !.shown = {rd.asked}]
          OBVIOUS
        <5>2. w.cards = rd.cards
          BY <5>1, <2>2 DEF VisWork
        <5> QED BY <4>1, <5>1, <5>2
      <4>2. CASE ReadGoes(r, [rd EXCEPT !.at = "rowRead"])
        <5>1. PICK w : w = [rd EXCEPT !.at = "rowRead"]
          OBVIOUS
        <5>2. w.cards = rd.cards
          BY <5>1, <2>2 DEF VisWork
        <5> QED BY <4>2, <5>1, <5>2
      <4> QED BY <2>2, <3>6, <4>1, <4>2, Zenon DEF GetRow, CheckView
    <3>7. CASE ReadSources(r)
      <4>1. PICK w : w = [rd EXCEPT !.at = "sourcesRead", !.rows = Read(r).rows]
        OBVIOUS
      <4>2. w.cards = rd.cards
        BY <4>1, <2>2 DEF VisWork
      <4>3. ReadGoes(r, w)
        BY <2>2, <3>7, <4>1 DEF ReadSources
      <4> QED BY <4>2, <4>3
    <3> QED BY <1>7, <3>1, <3>2, <3>3, <3>4, <3>5, <3>6, <3>7 DEF TooMany
  <2> QED BY <1>6, <2>1, <2>2, <2>4
<1> QED BY <1>1, <1>2, <1>4, <1>5, <1>7 DEF VisNext

\* A reader's rows and answers are of boards there may be.
LEMMA VisTypesHold == VisSpec => []VisTypeOK
<1>1. VisInit => CardsAreOfBoards
  BY DEF VisInit, CardsAreOfBoards
<1>2. VisInv /\ CardsAreOfBoards /\ [VisNext]_visVars => CardsAreOfBoards'
  BY CardsComeLast
<1>3. VisInv /\ CardsAreOfBoards => VisTypeOK
  BY IdleReadsNothing DEF VisInv, VisTypes, VisTypeOK, CardsAreOfBoards, VisWork
<1> QED BY <1>1, <1>2, <1>3, VisInvariant, PTL DEF VisSpec

\* Cards and columns have numbers for positions.
LEMMA LayTypesHold == LaySpec => []LayTypeOK
<1>1. LayInv /\ PosInv => LayTypeOK
  <2> SUFFICES ASSUME LayInv, PosInv PROVE LayTypeOK
    OBVIOUS
  <2>1. ASSUME NEW k \in LayColumn
        PROVE  layColumns[k] \in [board : LayBoard \cup {Gone}, pos : Nat, done : BOOLEAN]
    <3>1. IsColumn(layColumns[k]) /\ layColumns[k].pos \in Nat
      BY DEF LayInv, LayTypes, PosInv, PosNumbers
    <3> QED BY <3>1 DEF IsColumn
  <2>2. ASSUME NEW c \in LayCard
        PROVE  layCards[c] \in [board : LayBoard \cup {Gone}, col : LayColumn \cup {Gone}, pos : Nat, completed : BOOLEAN]
    <3>1. IsCard(layCards[c]) /\ layCards[c].pos \in Nat
      BY DEF LayInv, LayTypes, PosInv, PosNumbers
    <3> QED BY <3>1 DEF IsCard
  <2>3. layColumns \in [LayColumn -> [board : LayBoard \cup {Gone}, pos : Nat, done : BOOLEAN]]
    BY <2>1 DEF LayInv, LayTypes
  <2>4. layCards \in [LayCard -> [board : LayBoard \cup {Gone}, col : LayColumn \cup {Gone}, pos : Nat, completed : BOOLEAN]]
    BY <2>2 DEF LayInv, LayTypes
  <2> QED BY <2>3, <2>4 DEF LayInv, LayTypes, LayTypeOK
<1> QED BY <1>1, LayFollowed, PosFollowed, PTL

-----------------------------------------------------------------------------
\* The parts of the composition are what their modules specify, whichever moves.
LEMMA BoardsSides ==
    /\ BoardsInit => LayInit /\ TuplesInit /\ MembersInit /\ SourcesInit /\ VisInit /\ CatInit /\ SetInit /\ GhInit
    /\ [BoardsNext]_boardsVars =>
          /\ [LayNext]_layVars /\ [TuplesNext]_tupVars /\ [MembersNext]_memVars /\ [SourcesNext]_srcVars
          /\ [VisNext]_visVars /\ [CatNext]_catVars /\ [SetNext]_setVars /\ [GhNext]_ghVars
<1>1. BoardsInit => LayInit /\ TuplesInit /\ MembersInit /\ SourcesInit /\ VisInit /\ CatInit /\ SetInit /\ GhInit
  BY Zenon DEF BoardsInit, MCLayInit
<1>2. BoardsNext =>
          /\ LayNext \/ UNCHANGED layVars
          /\ TuplesNext \/ UNCHANGED tupVars
          /\ MembersNext \/ UNCHANGED memVars
          /\ SourcesNext \/ UNCHANGED srcVars
          /\ VisNext \/ UNCHANGED visVars
          /\ CatNext \/ UNCHANGED catVars
          /\ SetNext \/ UNCHANGED setVars
          /\ GhNext \/ UNCHANGED ghVars
  BY Zenon DEF BoardsNext
<1>3. UNCHANGED boardsVars =>
          /\ UNCHANGED layVars /\ UNCHANGED tupVars /\ UNCHANGED memVars /\ UNCHANGED srcVars
          /\ UNCHANGED visVars /\ UNCHANGED catVars /\ UNCHANGED setVars /\ UNCHANGED ghVars
  BY Zenon DEF boardsVars
<1> QED BY <1>1, <1>2, <1>3

\* Each part of the composition is a behaviour of its module.
LEMMA BoardsParts ==
    BoardsSpec => /\ LaySpec /\ TuplesSpec /\ MembersSpec /\ SourcesSpec
                  /\ VisSpec /\ CatSpec /\ SetSpec /\ GhSpec
BY BoardsSides, PTL
   DEF BoardsSpec, LaySpec, TuplesSpec, MembersSpec, SourcesSpec, VisSpec, CatSpec, SetSpec, GhSpec

\* The tables, tuples, requests and answers of boards, projects and aggregates keep their
\* types, whichever part moves: for any boards, columns, cards, members, sources, labels,
\* settings, links and requests.
THEOREM BoardsTypes == BoardsSpec => []BoardsTypeOK
<1>1. TupInv => TuplesTypeOK
  BY DEF TupInv, TupTypes
<1>2. SettingsInv => SetTypeOK
  BY DEF SettingsInv, SetTypes
<1>3. GhInv => GhTypeOK
  BY DEF GhInv, GhTypes
<1>4. BoardsSpec => []TuplesTypeOK /\ []SetTypeOK /\ []GhTypeOK
  BY <1>1, <1>2, <1>3, BoardsParts, TupInvariant, SettingsInvariant, GhInvariant, PTL
<1>5. BoardsSpec => []LayTypeOK /\ []MembersTypeOK /\ []SourcesTypeOK /\ []VisTypeOK /\ []CatTypeOK
  BY BoardsParts, LayTypesHold, MemTypesHold, SrcTypesHold, VisTypesHold, CatTypesHold, PTL
<1> QED BY <1>4, <1>5, PTL DEF BoardsTypeOK
=============================================================================
