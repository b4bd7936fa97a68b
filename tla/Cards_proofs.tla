----------------------------- MODULE Cards_proofs -----------------------------
(***************************************************************************)
(* Proofs about the card service (src/src/services/cards.rs), one section  *)
(* for each of its models: CardRefs, CardEvents, CardPatch, CardProject,   *)
(* Idempotency, BoardSnapshot and CardParts.  Each has an inductive        *)
(* invariant that adds to the properties of its run what the code relies   *)
(* on without saying so:                                                   *)
(*   RefInv     whoever has drawn a number holds the lock of the project,  *)
(*              and the number is still the one of the counter;            *)
(*   EventsInv  a revision that was given out is of one request, whether   *)
(*              or not its event is in the log, and what the client has    *)
(*              not got of the card is in an entry it will take for new;   *)
(*   PatchInv   each event of the log turns one row of the history into    *)
(*              the next, and the viewer stands at one of them;            *)
(*   TieInv     what a request has read of the project of the card is      *)
(*              still so when it writes, unless requests overlapped;       *)
(*   IdemInv    what is made under the key was made once, and a stored     *)
(*              answer is of a request that made it;                       *)
(*   SnapInv    what a snapshot has read so far of a card that stood still *)
(*              is what the card is, and nothing of a column ahead;        *)
(*   PartsInv   a part is as new as what was announced of it, a handler    *)
(*              knows by the revision whether what it read is still so,    *)
(*              and there is a last item to append behind.                 *)
(*                                                                         *)
(* CardsTypes: the types of their composition (MCCards), by these          *)
(* invariants and PartRests: who writes a comment is a person, and a card  *)
(* depends on another one.                                                 *)
(***************************************************************************)
EXTENDS MCCards, FiniteSetTheorems, WellFoundedInduction, TLAPS

RefShapes ==
    /\ refOf = [c \in RefCard |-> refOf[c]]
    /\ wish = [r \in RefRequest |-> wish[r]]
    /\ \A r \in RefRequest :
         refStep[r] \in {"asked", "drawn"} => wish[r].project \in RefProject /\ wish[r].card \in RefCard
    /\ \A i \in issued : i.ref.project \in RefProject

\* A number that was drawn is the next one until its transaction ends.
DrawnIsNext ==
    \A r \in RefRequest : refStep[r] = "drawn" =>
        /\ refLock[wish[r].project] = r
        /\ drawn[r] = counter[wish[r].project]

RefInv == RefsTypeOK /\ RefShapes /\ DrawnIsNext /\ RefsDense /\ RefNamesOneCard

\* The initial states satisfy the invariant.
LEMMA InitRefInv == RefsInit => RefInv
<1> SUFFICES ASSUME RefsInit PROVE RefInv
  OBVIOUS
<1> USE DEF RefsInit
<1>1. RefsTypeOK /\ RefShapes
  BY DEF RefsTypeOK, RefShapes
<1>2. DrawnIsNext /\ RefNamesOneCard
  BY DEF DrawnIsNext, RefNamesOneCard
<1>3. RefsDense
  <2> SUFFICES ASSUME NEW p \in RefProject
               PROVE  {i.ref.seq : i \in {j \in issued : j.ref.project = p}} = 1..(counter[p] - 1)
    BY DEF RefsDense
  <2>1. 1..(counter[p] - 1) = {}
    OBVIOUS
  <2> QED
    BY <2>1
<1> QED
  BY <1>1, <1>2, <1>3 DEF RefInv

\* A number that was given out is below the counter of its project.
LEMMA IssuedBelow ==
    ASSUME RefInv, NEW i \in issued
    PROVE  i.ref.seq \in 1..(counter[i.ref.project] - 1)
BY DEF RefInv, RefShapes, RefsDense

\* Steps that change neither what was issued nor a counter keep RefsDense and
\* RefNamesOneCard.
LEMMA SameIssued ==
    ASSUME RefInv, UNCHANGED <<counter, issued>>
    PROVE  RefsDense' /\ RefNamesOneCard'
BY DEF RefInv, RefsDense, RefNamesOneCard

\* Every step keeps the invariant.
LEMMA NextRefInv == RefInv /\ [RefsNext]_refVars => RefInv'
<1> SUFFICES ASSUME RefInv, [RefsNext]_refVars PROVE RefInv'
  OBVIOUS
<1> USE RefAssumption DEF RefInv
<1>1. ASSUME NEW r \in RefRequest, AskRef(r) PROVE RefInv'
  <2>1. PICK c \in RefCard, p \in RefProject :
          wish' = [wish EXCEPT ![r] = [card |-> c, project |-> p, from |-> refOf[c]]]
    BY <1>1 DEF AskRef
  <2>2. /\ refStep[r] = "idle" /\ refStep' = [refStep EXCEPT ![r] = "asked"]
        /\ UNCHANGED <<refOf, counter, refLock, drawn, issued>>
    BY <1>1 DEF AskRef
  <2>3. \A q \in RefRequest : q # r => refStep'[q] = refStep[q] /\ wish'[q] = wish[q]
    BY <2>1, <2>2 DEF RefsTypeOK, RefShapes
  <2>4. refStep'[r] = "asked" /\ wish'[r].project = p /\ wish'[r].card = c
    BY <2>1, <2>2 DEF RefsTypeOK, RefShapes
  <2>5. \A q \in RefProject : refLock[q] # r
    BY <2>2 DEF RefsTypeOK, RefRequest
  <2>6. RefsTypeOK'
    BY <2>2, <2>3, <2>5, SMTT(30) DEF RefsTypeOK, RefRequest
  <2>7. RefShapes'
    BY <2>1, <2>2, <2>3, <2>4 DEF RefShapes
  <2>8. DrawnIsNext'
    BY <2>2, <2>3, <2>4 DEF DrawnIsNext
  <2> QED
    BY <2>2, <2>6, <2>7, <2>8, SameIssued
<1>2. ASSUME NEW r \in RefRequest, Draw(r) PROVE RefInv'
  <2> DEFINE p == wish[r].project
  <2>1. /\ refStep[r] = "asked" /\ refLock[p] = 0 /\ p \in RefProject
        /\ refLock' = [refLock EXCEPT ![p] = r]
        /\ drawn' = [drawn EXCEPT ![r] = counter[p]]
        /\ refStep' = [refStep EXCEPT ![r] = "drawn"]
        /\ UNCHANGED <<refOf, counter, wish, issued>>
    BY <1>2 DEF Draw, MayDraw, RefShapes
  <2>2. RefsTypeOK'
    BY <2>1 DEF RefsTypeOK, RefRequest
  <2>3. RefShapes'
    BY <2>1 DEF RefShapes, RefsTypeOK
  <2>4. DrawnIsNext'
    BY <2>1 DEF DrawnIsNext, RefsTypeOK, RefRequest
  <2> QED
    BY <2>1, <2>2, <2>3, <2>4, SameIssued
<1>3. ASSUME NEW r \in RefRequest, CommitRef(r) PROVE RefInv'
  <2> DEFINE p == wish[r].project
             c == wish[r].card
             ref == [project |-> p, seq |-> drawn[r]]
             new == [card |-> c, ref |-> ref]
  <2>1. /\ refStep[r] = "drawn" /\ refLock[p] = r /\ drawn[r] = counter[p]
        /\ p \in RefProject /\ c \in RefCard /\ counter[p] \in Nat \ {0}
    BY <1>3 DEF CommitRef, EndsTransaction, DrawnIsNext, RefShapes, RefsTypeOK
  <2>2. /\ refLock' = [refLock EXCEPT ![p] = 0]
        /\ refStep' = [refStep EXCEPT ![r] = "done"]
        /\ refOf' = [refOf EXCEPT ![c] = ref]
        /\ counter' = [counter EXCEPT ![p] = counter[p] + 1]
        /\ issued' = issued \cup {new}
        /\ UNCHANGED <<wish, drawn>>
    BY <1>3, <2>1 DEF CommitRef, EndsTransaction
  <2>3. RefsTypeOK'
    <3>1. \A d \in RefCard : refOf'[d] = NoRef \/ \E i \in issued' : i.card = d /\ i.ref = refOf'[d]
      <4> SUFFICES ASSUME NEW d \in RefCard
                   PROVE  refOf'[d] = NoRef \/ \E i \in issued' : i.card = d /\ i.ref = refOf'[d]
        OBVIOUS
      <4>1. CASE d = c
        <5>1. refOf'[d] = ref
          BY <2>1, <2>2, <4>1 DEF RefShapes
        <5>2. new \in issued' /\ new.card = d /\ new.ref = ref
          BY <2>2, <4>1
        <5> QED
          BY <5>1, <5>2
      <4>2. CASE d # c
        <5>1. refOf'[d] = refOf[d] /\ issued \subseteq issued'
          BY <2>2, <4>2 DEF RefShapes
        <5> QED
          BY <5>1 DEF RefsTypeOK
      <4> QED
        BY <4>1, <4>2
    <3>2. /\ counter' \in [RefProject -> Nat \ {0}] /\ refLock' \in [RefProject -> RefRequest \cup {0}]
          /\ refStep' \in [RefRequest -> {"idle", "asked", "drawn", "done"}]
          /\ drawn' \in [RefRequest -> Nat]
      BY <2>1, <2>2 DEF RefsTypeOK
    <3>3. \A q \in RefProject : refLock'[q] # 0 => refStep'[refLock'[q]] = "drawn" /\ wish'[refLock'[q]].project = q
      BY <2>1, <2>2 DEF RefsTypeOK
    <3> QED
      BY <3>1, <3>2, <3>3 DEF RefsTypeOK
  <2>4. RefShapes'
    <3>1. refOf' = [d \in RefCard |-> refOf'[d]]
      BY <2>2 DEF RefShapes
    <3>2. \A i \in issued' : i.ref.project \in RefProject
      BY <2>1, <2>2 DEF RefShapes
    <3> QED
      BY <2>2, <3>1, <3>2 DEF RefShapes, RefsTypeOK
  <2>5. DrawnIsNext'
    <3> SUFFICES ASSUME NEW q \in RefRequest, refStep'[q] = "drawn"
                 PROVE  refLock'[wish'[q].project] = q /\ drawn'[q] = counter'[wish'[q].project]
      BY DEF DrawnIsNext
    <3>1. q # r /\ refStep[q] = "drawn"
      BY <2>1, <2>2 DEF RefsTypeOK
    <3>2. refLock[wish[q].project] = q /\ drawn[q] = counter[wish[q].project] /\ wish[q].project \in RefProject
      BY <3>1 DEF DrawnIsNext, RefShapes
    <3>3. wish[q].project # p
      BY <2>1, <3>1, <3>2
    <3> QED
      BY <2>1, <2>2, <3>2, <3>3 DEF RefsTypeOK
  <2>6. RefsDense'
    <3> SUFFICES ASSUME NEW q \in RefProject
                 PROVE  {i.ref.seq : i \in {j \in issued' : j.ref.project = q}} = 1..(counter'[q] - 1)
      BY DEF RefsDense
    <3>1. {i.ref.seq : i \in {j \in issued : j.ref.project = q}} = 1..(counter[q] - 1) /\ counter[q] \in Nat \ {0}
      BY DEF RefsDense, RefsTypeOK
    <3>2. CASE q = p
      <4>1. {i.ref.seq : i \in {j \in issued' : j.ref.project = q}}
              = {i.ref.seq : i \in {j \in issued : j.ref.project = q}} \cup {counter[p]}
        <5> DEFINE old == {j \in issued : j.ref.project = q}
        <5>1. {j \in issued' : j.ref.project = q} = old \cup {new}
          BY <2>2, <3>2
        <5>2. new.ref.seq = counter[p]
          BY <2>1
        <5> HIDE DEF old, new
        <5>3. {i.ref.seq : i \in old \cup {new}} = {i.ref.seq : i \in old} \cup {new.ref.seq}
          OBVIOUS
        <5> QED
          BY <5>1, <5>2, <5>3 DEF old
      <4>2. counter'[q] = counter[p] + 1
        BY <2>1, <2>2, <3>2 DEF RefsTypeOK
      <4>3. 1..(counter[p] - 1) \cup {counter[p]} = 1..((counter[p] + 1) - 1)
        BY <2>1
      <4> QED
        BY <3>1, <3>2, <4>1, <4>2, <4>3
    <3>3. CASE q # p
      <4>1. {j \in issued' : j.ref.project = q} = {j \in issued : j.ref.project = q}
        BY <2>2, <3>3
      <4>2. counter'[q] = counter[q]
        BY <2>2, <3>3 DEF RefsTypeOK
      <4> QED
        BY <3>1, <4>1, <4>2
    <3> QED
      BY <3>2, <3>3
  <2>7. RefNamesOneCard'
    <3>1. \A i \in issued : i.ref # ref
      <4> SUFFICES ASSUME NEW i \in issued, i.ref = ref PROVE FALSE
        OBVIOUS
      <4>1. i.ref.project = p /\ i.ref.seq = counter[p]
        BY <2>1
      <4>2. i.ref.seq \in 1..(counter[i.ref.project] - 1)
        BY IssuedBelow
      <4> QED
        BY <2>1, <4>1, <4>2
    <3> QED
      BY <2>2, <3>1 DEF RefNamesOneCard
  <2> QED
    BY <2>3, <2>4, <2>5, <2>6, <2>7
<1>4. ASSUME NEW r \in RefRequest, RollBack(r) PROVE RefInv'
  <2> DEFINE p == wish[r].project
  <2>1. /\ refStep[r] = "drawn" /\ refLock[p] = r /\ p \in RefProject
        /\ refLock' = [refLock EXCEPT ![p] = 0]
        /\ refStep' = [refStep EXCEPT ![r] = "done"]
        /\ UNCHANGED <<wish, drawn, refOf, counter, issued>>
    BY <1>4 DEF RollBack, EndsTransaction, DrawnIsNext, RefShapes
  <2>2. RefsTypeOK'
    BY <2>1 DEF RefsTypeOK
  <2>3. RefShapes'
    BY <2>1 DEF RefShapes, RefsTypeOK
  <2>4. DrawnIsNext'
    BY <2>1 DEF DrawnIsNext, RefsTypeOK, RefShapes
  <2> QED
    BY <2>1, <2>2, <2>3, <2>4, SameIssued
<1>5. ASSUME NEW c \in RefCard, DeleteCardRow(c) PROVE RefInv'
  <2>1. /\ refOf' = [refOf EXCEPT ![c] = NoRef]
        /\ UNCHANGED <<counter, refLock, refStep, wish, drawn, issued>>
    BY <1>5 DEF DeleteCardRow
  <2>2. \A d \in RefCard : refOf'[d] = NoRef \/ refOf'[d] = refOf[d]
    BY <2>1 DEF RefShapes
  <2>3. RefsTypeOK'
    BY <2>1, <2>2 DEF RefsTypeOK
  <2>4. RefShapes' /\ DrawnIsNext'
    BY <2>1 DEF RefShapes, DrawnIsNext
  <2> QED
    BY <2>1, <2>3, <2>4, SameIssued
<1>6. CASE UNCHANGED refVars
  BY <1>6, ZenonT(60) DEF refVars, RefsTypeOK, RefShapes, DrawnIsNext, RefsDense, RefNamesOneCard
<1>7. ASSUME RefsNext PROVE RefInv'
  BY <1>1, <1>2, <1>3, <1>4, <1>5, <1>7, Zenon DEF RefsNext
<1> QED BY <1>6, <1>7

\* The invariant holds of every behaviour.
LEMMA RefInvariant == RefsSpec => []RefInv
<1>1. RefsInit => RefInv
  BY InitRefInv
<1>2. RefInv /\ [RefsNext]_refVars => RefInv'
  BY NextRefInv
<1> QED
  BY <1>1, <1>2, PTL DEF RefsSpec

\* allocate_card_ref, create_card and transfer_card: the reference of a card that has one
\* was issued to it, and a lock is held by the transaction that drew under it.
THEOREM RefTypes == RefsSpec => []RefsTypeOK
<1>1. RefInv => RefsTypeOK
  BY DEF RefInv
<1> QED
  BY <1>1, RefInvariant, PTL

\* allocate_card_ref: for any number of cards, projects and requests, a reference names one
\* card for ever.
THEOREM OneCardPerRef == RefsSpec => []RefNamesOneCard
<1>1. RefInv => RefNamesOneCard
  BY DEF RefInv
<1> QED
  BY <1>1, RefInvariant, PTL

\* allocate_card_ref: the numbers given out in a project are those below its counter,
\* whatever was rolled back or deleted.
THEOREM NoHoles == RefsSpec => []RefsDense
<1>1. RefInv => RefsDense
  BY DEF RefInv
<1> QED
  BY <1>1, RefInvariant, PTL

\* Together, for create_card and transfer_card: references are unique and without holes.
THEOREM RefsSound == RefsSpec => []RefsAreSound
<1>1. RefNamesOneCard /\ RefsDense => RefsAreSound
  BY DEF RefsAreSound
<1> QED
  BY <1>1, OneCardPerRef, NoHoles, PTL

-----------------------------------------------------------------------------
\* The events of a card, and the client that follows them (CardEvents).

Client == [next : Nat, confirmed : Nat, value : Request \cup {NoRequest}, board : Board \cup {NoBoard}, has : BOOLEAN]

EventTypes ==
    /\ TypeOK /\ client \in Client /\ newRev \in [Request -> Nat]
    /\ \A r \in Request : seen[r].board \in Board /\ seen[r].rev <= card.rev

\* Revisions that were given out, whether or not their event is in the log.
Distinct ==
    /\ \A i \in DOMAIN log : pc[log[i].request] = "done"
    /\ \A r \in Request : pc[r] = "applied" =>
          \A i \in DOMAIN log : log[i].kind # "deleted" => log[i].rev # newRev[r]
    /\ \A q, r \in Request : pc[q] = "applied" /\ pc[r] = "applied" /\ newRev[q] = newRev[r] => q = r
    /\ RevisionsDistinct

\* What a client of a card that exists has, and who has its last revision.
Followed ==
    /\ Exists =>
         /\ client.has /\ \A i \in DOMAIN log : log[i].kind # "deleted"
         /\ \A i \in DOMAIN log : i < client.next => log[i].rev <= client.confirmed
         /\ \/ card.rev = 0
            \/ \E r \in Request : pc[r] \in {"applied", "cut"} /\ newRev[r] = card.rev
            \/ \E i \in DOMAIN log : log[i].rev = card.rev
    /\ DeleteIsFinal

\* Requests one at a time; no handler was dropped between its two transactions.
Serial ==
    /\ ~overlap => \A q, r \in Running : q = r
    /\ ~overlap /\ Exists => \A r \in Request : Step(r, "move") => Home[target[r]] = card.project
    /\ ProjectOfBoard

Straight == ~overlap /\ Exists /\ \A r \in Request : pc[r] # "cut"

Relocates(i) == log[i].kind \in {"moved", "transferred"}

\* An entry that is still to be delivered and will be taken for new.
Fresh(i) == i >= client.next /\ log[i].rev > client.confirmed

NoneApplied == \A r \in Request : pc[r] # "applied"

\* The log is in the order of the revisions, and its last entries say how the card is.
LogInOrder ==
    Straight =>
        /\ \A i, j \in DOMAIN log : i < j =>
              log[i].rev < log[j].rev \/ (log[i].rev = log[j].rev /\ log[i].kind = "transferred")
        /\ \A r \in Request : pc[r] = "applied" =>
              newRev[r] = card.rev /\ card.value = r /\ \A i \in DOMAIN log : log[i].rev < card.rev
        /\ NoneApplied =>
              \A i \in DOMAIN log : log[i].kind = "updated" =>
                  card.value = log[i].request \/ \E j \in DOMAIN log : i < j /\ log[j].kind = "updated"
        /\ \A i \in DOMAIN log : Relocates(i) =>
              card.board = log[i].to \/ \E j \in DOMAIN log : i < j /\ Relocates(j)

\* Whatever of the card the client has not got is in an entry that it will take for new.
WillConverge ==
    Straight =>
        /\ NoneApplied =>
              client.value = card.value \/ \E i \in DOMAIN log : Fresh(i) /\ log[i].kind = "updated"
        /\ client.board = card.board \/ \E i \in DOMAIN log : Fresh(i) /\ Relocates(i)
        /\ client.confirmed = card.rev => client.value = card.value

EventsInv == EventTypes /\ Distinct /\ Followed /\ Serial /\ LogInOrder /\ WillConverge

-----------------------------------------------------------------------------
\* An entry at the end of the log.
LEMMA AppendDoes ==
    ASSUME NEW S, NEW q \in Seq(S), NEW e \in S
    PROVE  /\ Append(q, e) \in Seq(S) /\ Len(Append(q, e)) = Len(q) + 1
           /\ DOMAIN Append(q, e) = DOMAIN q \cup {Len(q) + 1}
           /\ Append(q, e)[Len(q) + 1] = e
           /\ \A i \in DOMAIN q : Append(q, e)[i] = q[i] /\ i < Len(q) + 1
OBVIOUS

\* The types of the parts, for the steps that only need these.
LEMMA Parts ==
    ASSUME EventTypes
    PROVE  /\ card \in Row /\ card.rev \in Nat
           /\ \A i \in DOMAIN log :
                /\ log[i] \in Entry /\ log[i].rev \in Nat /\ log[i].rev <= card.rev
                /\ log[i].request \in Request /\ log[i].to \in Board
                /\ log[i].kind \in {"updated", "moved", "transferred", "deleted"}
           /\ \A q \in Request : newRev[q] \in Nat /\ newRev[q] <= card.rev
           /\ \A q \in Request : seen[q].rev \in Nat /\ seen[q].rev <= card.rev /\ seen[q].board \in Board
           /\ client.confirmed \in Nat /\ client.confirmed <= card.rev
           /\ client.next \in Nat /\ Len(log) \in Nat /\ DOMAIN log = 1..Len(log)
           /\ client.next >= 1 /\ client.next <= Len(log) + 1
<1>1. card \in Row /\ card.rev \in Nat
  BY DEF EventTypes, TypeOK, Row
<1>2. log \in Seq(Entry) /\ \A i \in DOMAIN log : log[i].rev <= card.rev
  BY DEF EventTypes, TypeOK
<1>3. \A i \in DOMAIN log : log[i] \in Entry
  BY <1>2
<1>4. \A e \in Entry : /\ e.rev \in Nat /\ e.request \in Request /\ e.to \in Board
                       /\ e.kind \in {"updated", "moved", "transferred", "deleted"}
  BY DEF Entry
<1>5. \A q \in Request : newRev[q] \in Nat /\ newRev[q] <= card.rev
  BY <1>1 DEF EventTypes, TypeOK
<1>6. \A q \in Request : seen[q].rev \in Nat
  BY DEF EventTypes, TypeOK, Row
<1>7. \A q \in Request : seen[q].rev <= card.rev /\ seen[q].board \in Board
  BY DEF EventTypes
<1>8. /\ client.confirmed \in 0..card.rev /\ client.next \in 1..(Len(log) + 1)
      /\ Len(log) \in Nat /\ DOMAIN log = 1..Len(log)
  BY <1>2 DEF EventTypes, TypeOK
<1> QED BY <1>1, <1>2, <1>3, <1>4, <1>5, <1>6, <1>7, <1>8

\* A card that was just made, with a client that has it and no request under way.
LEMMA InitEventsInv == Init => EventsInv
<1> SUFFICES ASSUME Init PROVE EventsInv
  OBVIOUS
<1>1. PICK b \in Board :
        /\ card = [board |-> b, project |-> Home[b], rev |-> 0, value |-> NoRequest]
        /\ target = [r \in Request |-> b]
  BY DEF Init
<1>2. /\ card \in Row /\ card.board = b /\ card.project = Home[b] /\ card.rev = 0 /\ card.value = NoRequest
      /\ b # NoBoard
  BY <1>1, CardAssumption DEF Row
<1>3. /\ client \in Client /\ client.next = 1 /\ client.confirmed = 0 /\ client.value = NoRequest
      /\ client.board = b /\ client.has
  BY <1>2 DEF Init, Client
<1>4. log = <<>> /\ log \in Seq(Entry) /\ Len(log) = 0 /\ DOMAIN log = {}
  BY DEF Init
<1>5. EventTypes
  BY <1>1, <1>2, <1>3, <1>4 DEF Init, EventTypes, TypeOK
<1>6. Distinct
  BY <1>4 DEF Init, Distinct, RevisionsDistinct
<1>7. Followed
  BY <1>2, <1>3, <1>4 DEF Followed, DeleteIsFinal
<1>8. Serial
  BY <1>2 DEF Init, Serial, Running, Step, ProjectOfBoard
<1>9. LogInOrder
  BY <1>4 DEF Init, LogInOrder
<1>10. WillConverge
  BY <1>2, <1>3 DEF Init, WillConverge
<1> QED BY <1>5, <1>6, <1>7, <1>8, <1>9, <1>10 DEF EventsInv

\* A handler reads the card, finds it gone, or is dropped: neither the card nor the log changes.
LEMMA StandsStill ==
    ASSUME EventsInv, NEW r \in Request, NEW to \in {"read", "done", "dropped", "cut"},
           pc' = [pc EXCEPT ![r] = to], UNCHANGED <<card, log, newRev, client, overlap>>,
           to = "read" => pc[r] = "idle" /\ (overlap \/ Running = {}),
           to # "read" => UNCHANGED <<op, target, seen>> /\ pc[r] \in {"read", "applied"},
           to \in {"done", "dropped"} => pc[r] = "read",
           to = "cut" => pc[r] = "applied",
           EventTypes',
           to = "read" /\ op'[r] = "move" => Home[target'[r]] = card.project,
           \A q \in Request \ {r} : op'[q] = op[q] /\ target'[q] = target[q]
    PROVE  EventsInv'
<1> USE DEF EventsInv
<1>1. pc'[r] = to /\ \A q \in Request : q # r => pc'[q] = pc[q]
  BY DEF EventTypes, TypeOK
<1>2. \A q \in Request : pc'[q] = "applied" => pc[q] = "applied"
  BY <1>1
<1>3. \A i \in DOMAIN log : log[i].request \in Request
  BY Parts
<1>4. Distinct'
  BY <1>1, <1>2, <1>3 DEF Distinct, RevisionsDistinct
<1>5. Followed'
  <2>1. \A q \in Request : pc[q] \in {"applied", "cut"} => pc'[q] \in {"applied", "cut"}
    BY <1>1
  <2> QED BY <2>1 DEF Followed, DeleteIsFinal, Exists
<1>6. Serial'
  <2>1. ~overlap => \A q, p \in Running' : q = p
    BY <1>1 DEF Serial, Running
  <2>2. ~overlap /\ Exists => \A q \in Request : Step(q, "move")' => Home[target'[q]] = card.project
    BY <1>1 DEF Serial, Step
  <2> QED BY <2>1, <2>2 DEF Serial, ProjectOfBoard, Exists, Step
<1>7. Straight' => Straight
  BY <1>1 DEF Straight, Exists
<1>8. Straight' /\ NoneApplied' => NoneApplied
  BY <1>1 DEF Straight, NoneApplied
<1>9. LogInOrder'
  BY <1>2, <1>7, <1>8 DEF LogInOrder, Relocates
<1>10. WillConverge'
  BY <1>7, <1>8 DEF WillConverge, Relocates, Fresh
<1> QED BY <1>4, <1>5, <1>6, <1>9, <1>10

\* The first query of a handler.
LEMMA ReadKeeps ==
    ASSUME EventsInv, NEW r \in Request, NEW what \in {"update", "move", "transfer", "delete"}, NEW b \in Board,
           Read(r, what, b), what = "move" => Home[b] = card.project
    PROVE  EventsInv'
<1>1. /\ pc[r] = "idle" /\ (overlap \/ Running = {}) /\ Exists
      /\ pc' = [pc EXCEPT ![r] = "read"] /\ op' = [op EXCEPT ![r] = what]
      /\ target' = [target EXCEPT ![r] = b] /\ seen' = [seen EXCEPT ![r] = card]
      /\ UNCHANGED <<card, log, newRev, client, overlap>>
  BY DEF Read, clientVars
<1>2. card.board \in Board /\ card \in Row /\ card.rev \in Nat
  BY <1>1 DEF EventsInv, EventTypes, TypeOK, Row, Exists
<1>3. EventTypes'
  BY <1>1, <1>2 DEF EventsInv, EventTypes, TypeOK
<1>4. /\ \A q \in Request \ {r} : op'[q] = op[q] /\ target'[q] = target[q]
      /\ op'[r] = what /\ target'[r] = b
  BY <1>1 DEF EventsInv, EventTypes, TypeOK
<1> QED BY <1>1, <1>3, <1>4, StandsStill

\* NotFound, and the handler that is dropped.
LEMMA StopKeeps == ASSUME EventsInv, NEW r \in Request, FoundNoRow(r) \/ Drop(r) PROVE EventsInv'
<1>1. PICK to \in {"done", "dropped", "cut"} :
        /\ pc' = [pc EXCEPT ![r] = to] /\ pc[r] \in {"read", "applied"}
        /\ to \in {"done", "dropped"} => pc[r] = "read"
        /\ to = "cut" => pc[r] = "applied"
  BY DEF FoundNoRow, Drop, Running, EventsInv, EventTypes, TypeOK
<1>2. UNCHANGED <<card, log, op, target, seen, newRev, client, overlap>>
  BY DEF FoundNoRow, Drop, requestVars, clientVars
<1>3. EventTypes'
  BY <1>1, <1>2 DEF EventsInv, EventTypes, TypeOK
<1> QED BY <1>1, <1>2, <1>3, StandsStill

\* UpdateCard, first transaction: the revision is nobody else's, and no event tells of it yet.
LEMMA ApplyKeeps == ASSUME EventsInv, NEW r \in Request, ApplyUpdate(r) PROVE EventsInv'
<1> USE DEF EventsInv
<1>1. /\ pc[r] = "read" /\ Exists /\ card' = [card EXCEPT !.rev = @ + 1, !.value = r]
      /\ newRev' = [newRev EXCEPT ![r] = card.rev + 1] /\ pc' = [pc EXCEPT ![r] = "applied"]
      /\ UNCHANGED <<log, op, target, seen, client, overlap>>
  BY DEF ApplyUpdate, Step, clientVars
<1>2. card \in Row /\ card.rev \in Nat
  BY Parts
<1>3. /\ card' \in Row /\ card'.rev = card.rev + 1 /\ card'.value = r
      /\ card'.board = card.board /\ card'.project = card.project
  <2>1. PICK n \in Nat, v \in Request \cup {NoRequest} : n = card.rev + 1 /\ v = r
    BY <1>2
  <2>2. card' = [card EXCEPT !.rev = n, !.value = v]
    BY <1>1, <2>1
  <2> QED BY <1>2, <2>1, <2>2 DEF Row
<1>4. pc'[r] = "applied" /\ \A q \in Request : q # r => pc'[q] = pc[q]
  BY <1>1 DEF EventTypes, TypeOK
<1>5. newRev'[r] = card.rev + 1 /\ \A q \in Request : q # r => newRev'[q] = newRev[q]
  BY <1>1 DEF EventTypes
<1>6. /\ \A i \in DOMAIN log : log[i].rev \in Nat /\ log[i].rev <= card.rev /\ log[i].request \in Request
      /\ \A q \in Request : newRev[q] \in Nat /\ newRev[q] <= card.rev
      /\ client.confirmed \in Nat /\ client.confirmed <= card.rev
  BY Parts
<1>7. EventTypes'
  <2>1. TypeOK'
    BY <1>1, <1>2, <1>3, <1>4, <1>5, <1>6 DEF EventTypes, TypeOK
  <2>2. \A q \in Request : seen'[q].board \in Board /\ seen'[q].rev <= card'.rev
    <3>1. \A q \in Request : seen[q].rev \in Nat /\ seen[q].rev <= card.rev
      BY DEF EventTypes, TypeOK, Row
    <3> QED BY <1>1, <1>2, <1>3, <3>1 DEF EventTypes
  <2> QED BY <1>1, <1>2, <2>1, <2>2 DEF EventTypes
<1>8. Distinct'
  BY <1>1, <1>2, <1>4, <1>5, <1>6 DEF Distinct, RevisionsDistinct
<1>9. Followed'
  BY <1>1, <1>3, <1>4, <1>5 DEF Followed, DeleteIsFinal, Exists
<1>10. Serial'
  <2>1. Running' = Running
    BY <1>1, <1>4 DEF Running
  <2>2. \A q \in Request : Step(q, "move")' => Step(q, "move")
    BY <1>1, <1>4 DEF Step
  <2> QED BY <1>1, <1>3, <2>1, <2>2 DEF Serial, ProjectOfBoard, Exists, Step
<1>11. Straight' => Straight
  BY <1>1, <1>3, <1>4 DEF Straight, Exists
<1>12. LogInOrder'
  <2>1. Straight => \A q \in Request : pc'[q] = "applied" => q = r
    BY <1>1, <1>4 DEF Straight, Serial, Running
  <2> QED BY <1>1, <1>2, <1>3, <1>4, <1>5, <1>6, <1>11, <2>1 DEF LogInOrder, Relocates, NoneApplied
<1>13. WillConverge'
  BY <1>1, <1>2, <1>3, <1>4, <1>6, <1>11 DEF WillConverge, Relocates, Fresh, NoneApplied
<1> QED BY <1>7, <1>8, <1>9, <1>10, <1>12, <1>13

\* UpdateCard, second transaction: the event has the revision that the first one gave out.
LEMMA RecordKeeps == ASSUME EventsInv, NEW r \in Request, RecordUpdate(r) PROVE EventsInv'
<1> USE DEF EventsInv
<1>1. PICK e : e = EntryOf(r, "updated", seen[r].board, newRev[r])
  OBVIOUS
<1>2. /\ pc[r] = "applied" /\ log' = Append(log, e) /\ pc' = [pc EXCEPT ![r] = "done"]
      /\ UNCHANGED <<card, op, target, seen, newRev, client, overlap>>
  BY <1>1 DEF RecordUpdate, requestVars, clientVars
<1>3. e \in Entry /\ e.kind = "updated" /\ e.rev = newRev[r] /\ e.request = r
  <2>1. target[r] \in Board /\ seen[r].board \in Board /\ newRev[r] \in Nat
    BY Parts DEF EventTypes, TypeOK
  <2> QED BY <1>1, <2>1 DEF EntryOf, Entry
<1>4. PICK k \in Nat : k = Len(log) + 1
  BY Parts
<1>5. /\ log' \in Seq(Entry) /\ Len(log') = k /\ DOMAIN log' = DOMAIN log \cup {k} /\ log'[k] = e
      /\ \A i \in DOMAIN log : log'[i] = log[i] /\ i < k
      /\ k \notin DOMAIN log /\ k \in DOMAIN log' /\ DOMAIN log \subseteq Nat
  BY <1>2, <1>3, <1>4, AppendDoes, Parts DEF EventTypes, TypeOK
<1>6. pc'[r] = "done" /\ \A q \in Request : q # r => pc'[q] = pc[q]
  BY <1>2 DEF EventTypes, TypeOK
<1>7. \A i \in DOMAIN log' : log'[i].rev <= card.rev
  BY <1>3, <1>5, Parts
<1>8. EventTypes'
  <2>1. client.next \in 1..(Len(log') + 1)
    BY <1>4, <1>5, Parts
  <2>2. pc' \in [Request -> {"idle", "read", "applied", "done", "dropped", "cut"}]
    BY <1>2 DEF EventTypes, TypeOK
  <2> QED BY <1>2, <1>5, <1>7, <2>1, <2>2 DEF EventTypes, TypeOK
<1>9. Distinct'
  <2>1. \A i \in DOMAIN log' : pc'[log'[i].request] = "done"
    BY <1>3, <1>5, <1>6, Parts DEF Distinct
  <2>2. \A q \in Request : pc'[q] = "applied" => q # r /\ pc[q] = "applied" /\ newRev[q] # newRev[r]
    BY <1>2, <1>6 DEF Distinct
  <2>3. \A q \in Request : pc'[q] = "applied" => \A i \in DOMAIN log' : log'[i].kind # "deleted" => log'[i].rev # newRev[q]
    BY <1>3, <1>5, <2>2 DEF Distinct
  <2>4. RevisionsDistinct'
    BY <1>2, <1>3, <1>5, Parts DEF Distinct, RevisionsDistinct
  <2> QED BY <1>2, <2>1, <2>2, <2>3, <2>4 DEF Distinct
<1>10. Followed'
  <2>1. \A i \in DOMAIN log' : log'[i].kind = "deleted" => i \in DOMAIN log /\ log[i].kind = "deleted"
    BY <1>3, <1>5
  <2>2. DeleteIsFinal'
    BY <1>3, <1>5, <2>1, Parts DEF Followed, DeleteIsFinal
  <2>3. Exists => \A i \in DOMAIN log' : i < client.next => log'[i].rev <= client.confirmed
    BY <1>4, <1>5, Parts DEF Followed
  <2>4. Exists => \/ card.rev = 0
                  \/ \E q \in Request : pc'[q] \in {"applied", "cut"} /\ newRev[q] = card.rev
                  \/ \E i \in DOMAIN log' : log'[i].rev = card.rev
    <3>1. CASE newRev[r] = card.rev
      BY <1>3, <1>5, <3>1
    <3>2. CASE newRev[r] # card.rev
      BY <1>5, <1>6, <3>2 DEF Followed
    <3> QED BY <3>1, <3>2
  <2> QED BY <1>2, <2>1, <2>2, <2>3, <2>4 DEF Followed, Exists
<1>11. Serial'
  <2>1. Running' \subseteq Running
    BY <1>6 DEF Running
  <2>2. \A q \in Request : Step(q, "move")' => Step(q, "move")
    BY <1>2, <1>6 DEF Step
  <2> QED BY <1>2, <2>1, <2>2 DEF Serial, ProjectOfBoard, Exists, Step
<1>12. Straight' => /\ Straight /\ newRev[r] = card.rev /\ card.value = r
                    /\ \A i \in DOMAIN log : log[i].rev < card.rev
                    /\ \A q \in Request : pc'[q] # "applied"
  <2>1. Straight' => Straight
    BY <1>2, <1>6 DEF Straight, Exists
  <2>2. Straight => \A q \in Request : pc'[q] # "applied"
    BY <1>2, <1>6 DEF Straight, Serial, Running
  <2> QED BY <1>2, <2>1, <2>2 DEF LogInOrder
<1>13. LogInOrder'
  <2> SUFFICES ASSUME Straight' PROVE LogInOrder'
    BY DEF LogInOrder
  <2>1. \A i, j \in DOMAIN log' : i < j =>
          log'[i].rev < log'[j].rev \/ (log'[i].rev = log'[j].rev /\ log'[i].kind = "transferred")
    BY <1>3, <1>5, <1>12, Parts DEF LogInOrder
  <2>2. \A i \in DOMAIN log' : log'[i].kind = "updated" =>
          card.value = log'[i].request \/ \E j \in DOMAIN log' : i < j /\ log'[j].kind = "updated"
    BY <1>3, <1>5, <1>12
  <2>3. \A i \in DOMAIN log' : Relocates(i)' =>
          card.board = log'[i].to \/ \E j \in DOMAIN log' : i < j /\ Relocates(j)'
    <3>1. \A i \in DOMAIN log' : Relocates(i)' => i \in DOMAIN log /\ Relocates(i)
      BY <1>3, <1>5 DEF Relocates
    <3>2. \A i \in DOMAIN log : Relocates(i) => Relocates(i)' /\ log'[i] = log[i]
      BY <1>5 DEF Relocates
    <3> QED BY <1>5, <1>12, <3>1, <3>2 DEF LogInOrder
  <2> QED BY <1>2, <1>12, <2>1, <2>2, <2>3 DEF LogInOrder
<1>14. WillConverge'
  <2> SUFFICES ASSUME Straight' PROVE WillConverge'
    BY DEF WillConverge
  <2>1. \A i \in DOMAIN log : (Fresh(i) => Fresh(i)') /\ (Relocates(i) => Relocates(i)')
    BY <1>2, <1>5 DEF Fresh, Relocates
  <2>2. client.confirmed = card.rev \/ (Fresh(k)' /\ log'[k].kind = "updated")
    BY <1>2, <1>3, <1>4, <1>5, <1>12, Parts DEF Fresh
  <2>3. client.value = card.value \/ \E i \in DOMAIN log' : Fresh(i)' /\ log'[i].kind = "updated"
    BY <1>5, <1>12, <2>2 DEF WillConverge
  <2>4. client.board = card.board \/ \E i \in DOMAIN log' : Fresh(i)' /\ Relocates(i)'
    BY <1>5, <1>12, <2>1 DEF WillConverge
  <2> QED BY <1>2, <1>12, <2>3, <2>4 DEF WillConverge
<1> QED BY <1>8, <1>9, <1>10, <1>11, <1>13, <1>14

\* MoveCard and TransferCard: the card goes to another board with a new revision, and the
\* log tells of it in one entry or in two.
LEMMA HomingKeeps ==
    ASSUME EventsInv, NEW r \in Request, NEW kind \in {"moved", "transferred"},
           NEW es \in Seq(Entry), Len(es) \in {1, 2}, Len(es) = 2 => kind = "transferred",
           \A i \in DOMAIN es : /\ es[i].kind = kind /\ es[i].rev = card.rev + 1
                                /\ es[i].request = r /\ es[i].to = target[r],
           pc[r] = "read", Exists, log' = log \o es, pc' = [pc EXCEPT ![r] = "done"],
           UNCHANGED <<op, target, seen, newRev, client, overlap>>,
           card' \in Row, card'.rev = card.rev + 1, card'.value = card.value,
           card'.board = target[r], ~overlap => card'.project = Home[target[r]]
    PROVE  EventsInv'
<1> USE DEF EventsInv
<1>1. PICK n \in Nat, m \in Nat : n = Len(log) /\ m = Len(es) /\ m \in {1, 2}
  BY Parts
<1>2. log \in Seq(Entry)
  BY DEF EventTypes, TypeOK
<1>3. /\ log' \in Seq(Entry) /\ Len(log') = n + m /\ DOMAIN log' = 1..(n + m) /\ DOMAIN log = 1..n
      /\ \A i \in 1..n : log'[i] = log[i]
      /\ \A i \in (n + 1)..(n + m) : log'[i] = es[i - n] /\ i - n \in DOMAIN es
  BY <1>1, <1>2
<1>4. \A i \in (n + 1)..(n + m) : /\ log'[i].kind = kind /\ log'[i].rev = card.rev + 1
                                 /\ log'[i].request = r /\ log'[i].to = target[r]
  BY <1>3
<1>5. /\ \A i \in DOMAIN log' : i \in DOMAIN log \/ i \in (n + 1)..(n + m)
      /\ n + 1 \in (n + 1)..(n + m) /\ n + 1 \in DOMAIN log' /\ DOMAIN log \subseteq DOMAIN log'
      /\ \A i \in DOMAIN log : log'[i] = log[i] /\ i <= n /\ i \in Nat
      /\ \A i, j \in (n + 1)..(n + m) : i < j => kind = "transferred"
  BY <1>1, <1>3
<1>6. pc'[r] = "done" /\ \A q \in Request : q # r => pc'[q] = pc[q]
  BY DEF EventTypes, TypeOK
<1>7. /\ card.rev \in Nat /\ \A i \in DOMAIN log : log[i].rev \in Nat /\ log[i].rev <= card.rev /\ log[i].request \in Request
      /\ \A q \in Request : newRev[q] \in Nat /\ newRev[q] <= card.rev
      /\ client.confirmed \in Nat /\ client.confirmed <= card.rev
      /\ client.next \in Nat /\ client.next >= 1 /\ client.next <= n + 1
  BY <1>1, Parts
<1>8. target[r] \in Board /\ target[r] # NoBoard
  BY CardAssumption DEF EventTypes, TypeOK
<1>9. EventTypes'
  <2>1. \A i \in DOMAIN log' : log'[i].rev <= card'.rev
    BY <1>4, <1>5, <1>7, SMTT(30)
  <2>2. newRev \in [Request -> 0..card'.rev] /\ client.confirmed \in 0..card'.rev
    BY <1>7 DEF EventTypes
  <2>3. client.next \in 1..(Len(log') + 1)
    BY <1>3, <1>7
  <2>4. pc' \in [Request -> {"idle", "read", "applied", "done", "dropped", "cut"}]
    BY DEF EventTypes, TypeOK
  <2>5. \A q \in Request : seen[q].board \in Board /\ seen[q].rev <= card'.rev
    BY <1>7, Parts
  <2> QED BY <1>3, <2>1, <2>2, <2>3, <2>4, <2>5 DEF EventTypes, TypeOK
<1>10. Distinct'
  <2>1. \A i \in DOMAIN log' : pc'[log'[i].request] = "done"
    BY <1>4, <1>5, <1>6, <1>7, SMTT(30) DEF Distinct
  <2>2. \A q \in Request : pc'[q] = "applied" => pc[q] = "applied"
    BY <1>6
  <2>3. \A q \in Request : pc'[q] = "applied" => \A i \in DOMAIN log' : log'[i].kind # "deleted" => log'[i].rev # newRev[q]
    BY <1>4, <1>5, <1>7, <2>2, SMTT(30) DEF Distinct
  <2>4. RevisionsDistinct'
    <3>1. \A i, j \in DOMAIN log : (log[i].request # log[j].request /\ "deleted" \notin {log[i].kind, log[j].kind})
                                     => log[i].rev # log[j].rev
      BY DEF Distinct, RevisionsDistinct
    <3>2. \A i \in DOMAIN log' : \/ i \in DOMAIN log /\ log'[i] = log[i] /\ log'[i].rev \in Nat /\ log'[i].rev <= card.rev
                                 \/ log'[i].request = r /\ log'[i].rev = card.rev + 1
      BY <1>4, <1>5, <1>7
    <3>3. ASSUME NEW i \in DOMAIN log', NEW j \in DOMAIN log', log'[i].request # log'[j].request,
                 "deleted" \notin {log'[i].kind, log'[j].kind}
          PROVE  log'[i].rev # log'[j].rev
      <4>1. card.rev \in Nat
        BY <1>7
      <4>2. CASE i \in DOMAIN log /\ log'[i] = log[i] /\ j \in DOMAIN log /\ log'[j] = log[j]
        BY <3>1, <3>3, <4>2
      <4>3. CASE log'[i].request = r /\ log'[i].rev = card.rev + 1
        <5>1. log'[j].rev \in Nat /\ log'[j].rev <= card.rev
          BY <3>2, <3>3, <4>3
        <5> QED BY <4>1, <4>3, <5>1
      <4>4. CASE log'[j].request = r /\ log'[j].rev = card.rev + 1
        <5>1. log'[i].rev \in Nat /\ log'[i].rev <= card.rev
          BY <3>2, <3>3, <4>4
        <5> QED BY <4>1, <4>4, <5>1
      <4> QED BY <3>2, <4>2, <4>3, <4>4
    <3> QED BY <3>3 DEF RevisionsDistinct
  <2> QED BY <2>1, <2>2, <2>3, <2>4 DEF Distinct
<1>11. Followed'
  <2>1. \A i \in DOMAIN log' : log'[i].kind # "deleted"
    BY <1>4, <1>5 DEF Followed
  <2>2. DeleteIsFinal'
    BY <2>1 DEF DeleteIsFinal
  <2>3. \A i \in DOMAIN log' : i < client.next => log'[i].rev <= client.confirmed
    BY <1>4, <1>5, <1>7 DEF Followed
  <2>4. \E i \in DOMAIN log' : log'[i].rev = card'.rev
    BY <1>4, <1>5
  <2> QED BY <2>1, <2>2, <2>3, <2>4 DEF Followed, Exists
<1>12. Serial'
  <2>1. Running' \subseteq Running /\ r \in Running
    BY <1>6 DEF Running
  <2>2. \A q \in Request : Step(q, "move")' => Step(q, "move") /\ q \in Running /\ q # r
    BY <1>6 DEF Step, Running
  <2>3. ~overlap => \A q \in Request : ~Step(q, "move")'
    BY <2>1, <2>2 DEF Serial
  <2>4. ProjectOfBoard'
    BY DEF ProjectOfBoard, Exists
  <2> QED BY <2>1, <2>3, <2>4 DEF Serial
<1>13. Straight' => /\ Straight /\ NoneApplied /\ \A q \in Request : pc'[q] # "applied"
  <2>1. Straight' => Straight
    BY <1>6 DEF Straight, Exists
  <2>2. Straight => NoneApplied
    BY DEF Straight, NoneApplied, Serial, Running
  <2> QED BY <1>6, <2>1, <2>2 DEF NoneApplied
<1>14. \A i \in (n + 1)..(n + m) : Relocates(i)' /\ i \in DOMAIN log'
  BY <1>3, <1>4, <1>7, <1>1 DEF Relocates
<1>15. LogInOrder'
  <2> SUFFICES ASSUME Straight' PROVE LogInOrder'
    BY DEF LogInOrder
  <2>1. \A i, j \in DOMAIN log' : i < j =>
          log'[i].rev < log'[j].rev \/ (log'[i].rev = log'[j].rev /\ log'[i].kind = "transferred")
    <3> SUFFICES ASSUME NEW i \in DOMAIN log', NEW j \in DOMAIN log', i < j
                 PROVE  log'[i].rev < log'[j].rev \/ (log'[i].rev = log'[j].rev /\ log'[i].kind = "transferred")
      OBVIOUS
    <3>1. CASE i \in DOMAIN log /\ j \in DOMAIN log
      BY <1>5, <1>13, <3>1 DEF LogInOrder
    <3>2. CASE i \in DOMAIN log /\ j \in (n + 1)..(n + m)
      <4>1. log'[i].rev \in Nat /\ log'[i].rev <= card.rev
        BY <1>5, <1>7, <3>2
      <4>2. log'[j].rev = card.rev + 1
        BY <1>4, <3>2
      <4>3. card.rev \in Nat
        BY <1>7
      <4>4. log'[i].rev < log'[j].rev
        BY <4>1, <4>2, <4>3, SMTT(30)
      <4> QED BY <4>4
    <3>3. CASE i \in (n + 1)..(n + m)
      <4>1. j \in (n + 1)..(n + m)
        BY <1>1, <1>3, <3>3
      <4> QED BY <1>4, <1>5, <3>3, <4>1
    <3> QED BY <1>5, <3>1, <3>2, <3>3
  <2>2. \A i \in DOMAIN log' : log'[i].kind = "updated" =>
          card'.value = log'[i].request \/ \E j \in DOMAIN log' : i < j /\ log'[j].kind = "updated"
    <3>1. \A i \in (n + 1)..(n + m) : log'[i].kind # "updated"
      BY <1>4
    <3>2. \A i \in DOMAIN log : log[i].kind = "updated" =>
            card.value = log[i].request \/ \E j \in DOMAIN log : i < j /\ log[j].kind = "updated"
      BY <1>13 DEF LogInOrder
    <3>3. \A i \in DOMAIN log' : log'[i].kind = "updated" => i \in DOMAIN log /\ log[i] = log'[i]
      BY <1>5, <3>1
    <3>4. ASSUME NEW i \in DOMAIN log', log'[i].kind = "updated"
          PROVE  card'.value = log'[i].request \/ \E j \in DOMAIN log' : i < j /\ log'[j].kind = "updated"
      <4>1. i \in DOMAIN log /\ log[i] = log'[i]
        BY <3>3, <3>4, Zenon
      <4>2. CASE card.value = log[i].request
        BY <4>1, <4>2
      <4>3. CASE \E j \in DOMAIN log : i < j /\ log[j].kind = "updated"
        <5>1. PICK j \in DOMAIN log : i < j /\ log[j].kind = "updated"
          BY <4>3
        <5>2. j \in DOMAIN log' /\ log'[j] = log[j]
          BY <1>5
        <5> QED BY <5>1, <5>2
      <4> QED BY <3>2, <3>4, <4>1, <4>2, <4>3
    <3> QED BY <3>4
  <2>3. \A i \in DOMAIN log' : Relocates(i)' =>
          card'.board = log'[i].to \/ \E j \in DOMAIN log' : i < j /\ Relocates(j)'
    <3> TAKE i \in DOMAIN log'
    <3>1. CASE i \in DOMAIN log
      BY <1>1, <1>5, <1>14, <3>1
    <3>2. CASE i \in (n + 1)..(n + m)
      BY <1>4, <3>2
    <3> QED BY <1>5, <3>1, <3>2
  <2> QED BY <1>13, <2>1, <2>2, <2>3 DEF LogInOrder
<1>16. WillConverge'
  <2> SUFFICES ASSUME Straight' PROVE WillConverge'
    BY DEF WillConverge
  <2>1. \A i \in DOMAIN log : Fresh(i) => Fresh(i)'
    BY <1>5 DEF Fresh
  <2>2. Fresh(n + 1)'
    BY <1>4, <1>5, <1>7, SMTT(30) DEF Fresh
  <2>3. client.value = card.value \/ \E i \in DOMAIN log' : Fresh(i)' /\ log'[i].kind = "updated"
    BY <1>5, <1>13, <2>1 DEF WillConverge
  <2>4. client.confirmed # card'.rev
    BY <1>7
  <2> QED BY <1>5, <1>14, <2>2, <2>3, <2>4 DEF WillConverge
<1> QED BY <1>9, <1>10, <1>11, <1>12, <1>15, <1>16, SMTT(40)

\* MoveCard: CardMoved on the board that was read.
LEMMA MoveKeeps == ASSUME EventsInv, NEW r \in Request, CommitMove(r) PROVE EventsInv'
<1> USE DEF EventsInv
<1>1. PICK e : e = EntryOf(r, "moved", seen[r].board, card.rev + 1)
  OBVIOUS
<1>2. /\ pc[r] = "read" /\ Step(r, "move") /\ Exists /\ pc' = [pc EXCEPT ![r] = "done"]
      /\ card' = [card EXCEPT !.rev = @ + 1, !.board = target[r]] /\ log' = Append(log, e)
      /\ UNCHANGED <<op, target, seen, newRev, client, overlap>>
  BY <1>1 DEF CommitMove, Step, requestVars, clientVars
<1>3. target[r] \in Board /\ seen[r].board \in Board /\ card \in Row /\ card.rev \in Nat /\ log \in Seq(Entry)
  BY Parts DEF EventTypes, TypeOK
<1>4. PICK n \in Nat, b \in Board : n = card.rev + 1 /\ b = target[r]
  BY <1>3
<1>5. card' \in Row /\ card'.rev = n /\ card'.value = card.value /\ card'.board = b /\ card'.project = card.project
  <2>1. card' = [card EXCEPT !.rev = n, !.board = b]
    BY <1>2, <1>4
  <2> QED BY <1>3, <2>1 DEF Row
<1>6. e \in Entry /\ e.kind = "moved" /\ e.rev = n /\ e.request = r /\ e.to = b
  BY <1>1, <1>3, <1>4 DEF EntryOf, Entry
<1>7. ~overlap => card'.project = Home[b]
  BY <1>2, <1>4, <1>5 DEF Serial
<1>8. <<e>> \in Seq(Entry) /\ Len(<<e>>) = 1 /\ (\A i \in DOMAIN <<e>> : <<e>>[i] = e) /\ log' = log \o <<e>>
  BY <1>2, <1>3, <1>6
<1>9. \A i \in DOMAIN <<e>> : /\ <<e>>[i].kind = "moved" /\ <<e>>[i].rev = card.rev + 1
                              /\ <<e>>[i].request = r /\ <<e>>[i].to = target[r]
  BY <1>4, <1>6, <1>8
<1>10. /\ card' \in Row /\ card'.rev = card.rev + 1 /\ card'.value = card.value
       /\ card'.board = target[r] /\ (~overlap => card'.project = Home[target[r]])
  BY <1>4, <1>5, <1>7
<1>11. PICK es : es = <<e>>
  OBVIOUS
<1>12. es \in Seq(Entry) /\ Len(es) \in {1, 2} /\ (Len(es) = 2 => "moved" = "transferred") /\ log' = log \o es
  BY <1>8, <1>11
<1> QED BY <1>2, <1>9, <1>10, <1>11, <1>12, HomingKeeps

\* TransferCard: CardTransferred on the board the card leaves and on the one it goes to.
LEMMA TransferKeeps == ASSUME EventsInv, NEW r \in Request, CommitTransfer(r) PROVE EventsInv'
<1> USE DEF EventsInv
<1>1. PICK d, e : /\ d = EntryOf(r, "transferred", seen[r].board, card.rev + 1)
                  /\ e = EntryOf(r, "transferred", target[r], card.rev + 1)
  OBVIOUS
<1>2. /\ pc[r] = "read" /\ Exists /\ pc' = [pc EXCEPT ![r] = "done"]
      /\ card' = [card EXCEPT !.rev = @ + 1, !.board = target[r], !.project = Home[target[r]]]
      /\ log' = log \o <<d, e>> /\ UNCHANGED <<op, target, seen, newRev, client, overlap>>
  BY <1>1 DEF CommitTransfer, Step, requestVars, clientVars
<1>3. target[r] \in Board /\ seen[r].board \in Board /\ card \in Row /\ card.rev \in Nat
  BY Parts DEF EventTypes, TypeOK
<1>4. PICK n \in Nat, b \in Board, p \in Project : n = card.rev + 1 /\ b = target[r] /\ p = Home[target[r]]
  BY <1>3, CardAssumption
<1>5. card' \in Row /\ card'.rev = n /\ card'.value = card.value /\ card'.board = b /\ card'.project = p
  <2>1. card' = [card EXCEPT !.rev = n, !.board = b, !.project = p]
    BY <1>2, <1>4
  <2> QED BY <1>3, <2>1 DEF Row
<1>6. /\ d \in Entry /\ d.kind = "transferred" /\ d.rev = n /\ d.request = r /\ d.to = b
      /\ e \in Entry /\ e.kind = "transferred" /\ e.rev = n /\ e.request = r /\ e.to = b
  BY <1>1, <1>3, <1>4 DEF EntryOf, Entry
<1>7. PICK es : es = <<d, e>>
  OBVIOUS
<1>8. es \in Seq(Entry) /\ Len(es) = 2 /\ \A i \in DOMAIN es : es[i] \in {d, e}
  BY <1>6, <1>7
<1>9. \A i \in DOMAIN es : /\ es[i].kind = "transferred" /\ es[i].rev = card.rev + 1
                           /\ es[i].request = r /\ es[i].to = target[r]
  BY <1>4, <1>6, <1>8
<1>10. /\ card' \in Row /\ card'.rev = card.rev + 1 /\ card'.value = card.value
       /\ card'.board = target[r] /\ (~overlap => card'.project = Home[target[r]])
  BY <1>4, <1>5
<1>11. Len(es) \in {1, 2} /\ log' = log \o es
  BY <1>2, <1>7, <1>8
<1> QED BY <1>2, <1>8, <1>9, <1>10, <1>11, HomingKeeps

\* DeleteCard: from now on only updates that were applied before come to the log.
LEMMA DeleteKeeps == ASSUME EventsInv, NEW r \in Request, CommitDelete(r) PROVE EventsInv'
<1> USE DEF EventsInv
<1>1. PICK e : e = EntryOf(r, "deleted", seen[r].board, seen[r].rev)
  OBVIOUS
<1>2. /\ pc[r] = "read" /\ Exists /\ log' = Append(log, e) /\ pc' = [pc EXCEPT ![r] = "done"]
      /\ card' = [card EXCEPT !.board = NoBoard] /\ UNCHANGED <<op, target, seen, newRev, client, overlap>>
  BY <1>1 DEF CommitDelete, Step, requestVars, clientVars
<1>3. e \in Entry /\ e.kind = "deleted" /\ e.rev = seen[r].rev /\ e.request = r
  <2>1. target[r] \in Board /\ seen[r].board \in Board /\ seen[r].rev \in Nat
    BY Parts DEF EventTypes, TypeOK
  <2> QED BY <1>1, <2>1 DEF EntryOf, Entry
<1>4. PICK k \in Nat : k = Len(log) + 1
  BY Parts
<1>5. /\ log' \in Seq(Entry) /\ Len(log') = k /\ DOMAIN log' = DOMAIN log \cup {k} /\ log'[k] = e
      /\ \A i \in DOMAIN log : log'[i] = log[i] /\ i < k
      /\ DOMAIN log \subseteq Nat
  BY <1>2, <1>3, <1>4, AppendDoes, Parts DEF EventTypes, TypeOK
<1>6. card' \in Row /\ card'.rev = card.rev /\ card'.board = NoBoard /\ card.rev \in Nat
  BY <1>2, Parts DEF Row
<1>7. pc'[r] = "done" /\ \A q \in Request : q # r => pc'[q] = pc[q]
  BY <1>2 DEF EventTypes, TypeOK
<1>8. EventTypes'
  <2>1. \A i \in DOMAIN log' : log'[i].rev <= card'.rev
    BY <1>3, <1>5, <1>6, Parts
  <2>2. client.next \in 1..(Len(log') + 1)
    BY <1>4, <1>5, Parts
  <2>3. pc' \in [Request -> {"idle", "read", "applied", "done", "dropped", "cut"}]
    BY <1>2 DEF EventTypes, TypeOK
  <2> QED BY <1>2, <1>5, <1>6, <2>1, <2>2, <2>3 DEF EventTypes, TypeOK
<1>9. Distinct'
  <2>1. \A i \in DOMAIN log' : pc'[log'[i].request] = "done"
    BY <1>3, <1>5, <1>7, Parts DEF Distinct
  <2>2. \A q \in Request : pc'[q] = "applied" => pc[q] = "applied"
    BY <1>7
  <2>3. \A i \in DOMAIN log' : log'[i].kind # "deleted" => i \in DOMAIN log /\ log'[i] = log[i]
    BY <1>3, <1>5
  <2>4. RevisionsDistinct'
    BY <2>3 DEF Distinct, RevisionsDistinct
  <2> QED BY <1>2, <2>1, <2>2, <2>3, <2>4 DEF Distinct
<1>10. Followed'
  <2>1. \A i \in DOMAIN log : log[i].kind # "deleted"
    BY <1>2 DEF Followed
  <2>2. \A i, j \in DOMAIN log' : i < j => i \in DOMAIN log /\ log'[i] = log[i]
    BY <1>5
  <2> QED BY <1>6, <2>1, <2>2 DEF Followed, DeleteIsFinal, Exists
<1>11. Running' \subseteq Running
  BY <1>7 DEF Running
<1> QED BY <1>2, <1>6, <1>8, <1>9, <1>10, <1>11
        DEF Serial, ProjectOfBoard, Exists, Straight, LogInOrder, WillConverge

-----------------------------------------------------------------------------
\* Whatever the client does with an entry, it takes just this one and keeps up with the
\* revisions; what is left are its value and its board while requests do not overlap.
LEMMA TakingKeeps ==
    ASSUME EventsInv, Pending, UNCHANGED <<card, log, pc, op, target, seen, newRev, overlap>>,
           client' \in Client, client'.next = client.next + 1, client'.confirmed <= card.rev,
           Exists => client'.has /\ client'.confirmed >= client.confirmed /\ client'.confirmed >= Event.rev,
           WillConverge'
    PROVE  EventsInv'
<1> USE DEF EventsInv
<1>1. client.next \in DOMAIN log /\ client.next + 1 \in 1..(Len(log) + 1) /\ client'.confirmed \in 0..card.rev
  BY Parts DEF Pending, Client
<1>2. EventTypes'
  BY <1>1 DEF EventTypes, TypeOK
<1>3. Exists => \A i \in DOMAIN log : i < client'.next => log[i].rev <= client'.confirmed
  <2> SUFFICES ASSUME Exists, NEW i \in DOMAIN log, i < client'.next PROVE log[i].rev <= client'.confirmed
    OBVIOUS
  <2>1. i \in Nat /\ log[i].rev \in Nat /\ client.next \in Nat /\ client.confirmed \in Nat /\ client'.confirmed \in Nat
    BY Parts DEF Client
  <2>2. CASE i = client.next
    BY <2>2 DEF Event
  <2>3. CASE i < client.next
    BY <2>1, <2>3 DEF Followed
  <2> QED BY <2>1, <2>2, <2>3
<1>4. Followed'
  BY <1>3 DEF Followed, DeleteIsFinal, Exists
<1>5. Distinct' /\ Serial' /\ LogInOrder'
  BY DEF Distinct, RevisionsDistinct, Serial, Running, Step, ProjectOfBoard, Exists, LogInOrder,
         Straight, NoneApplied, Relocates
<1> QED BY <1>2, <1>4, <1>5

\* An entry that is fresh is ahead of the last one; the later ones have greater revisions.
LEMMA PatchKeeps == ASSUME EventsInv, DeliverPatch PROVE EventsInv'
<1> USE DEF EventsInv
<1>1. PICK n, e : n = client.next /\ e = Event /\ e = log[n]
  BY DEF Event
<1> DEFINE next == [client EXCEPT !.next = @ + 1]
           newer == [next EXCEPT !.confirmed = e.rev]
<1>2. /\ Pending /\ client.has /\ e.kind \in {"updated", "moved"}
      /\ UNCHANGED <<card, log, pc, op, target, seen, newRev, overlap>>
      /\ \/ e.rev <= client.confirmed /\ client' = next
         \/ /\ e.rev > client.confirmed /\ e.kind = "updated"
            /\ client' = [newer EXCEPT !.value = e.request]
         \/ /\ e.rev > client.confirmed /\ e.kind = "moved"
            /\ client' = [newer EXCEPT !.board = e.to]
  <2>1. /\ Pending /\ client.has /\ e.kind \in {"updated", "moved"}
        /\ UNCHANGED <<card, log, pc, op, target, seen, newRev, overlap>>
    BY <1>1 DEF DeliverPatch, Apply, requestVars
  <2>2. n \in DOMAIN log /\ e.rev \in Nat /\ client.confirmed \in Nat
    BY <1>1, Parts DEF DeliverPatch, Pending
  <2>3. client' = IF ~(e.rev > client.confirmed) THEN next
                  ELSE IF e.kind = "updated" THEN [newer EXCEPT !.value = e.request]
                  ELSE [newer EXCEPT !.board = e.to]
    BY <1>1 DEF DeliverPatch, Apply
  <2> HIDE DEF next, newer
  <2> QED BY <2>1, <2>2, <2>3
<1>3. /\ n \in DOMAIN log /\ n \in Nat /\ e.rev \in Nat /\ e.rev <= card.rev /\ e.request \in Request /\ e.to \in Board
      /\ client \in Client /\ client.confirmed \in Nat /\ client.confirmed <= card.rev /\ card.rev \in Nat
      /\ \A i \in DOMAIN log : i \in Nat /\ log[i].rev \in Nat /\ log[i].rev <= card.rev
  BY <1>1, <1>2, Parts DEF Pending, EventTypes
<1>4. PICK m \in Nat : m = n + 1
  BY <1>3
<1>5. /\ client' \in Client /\ client'.next = m
      /\ \/ /\ e.rev <= client.confirmed /\ client'.confirmed = client.confirmed
            /\ client'.value = client.value /\ client'.board = client.board
         \/ /\ e.rev > client.confirmed /\ client'.confirmed = e.rev /\ e.kind = "updated"
            /\ client'.value = e.request /\ client'.board = client.board
         \/ /\ e.rev > client.confirmed /\ client'.confirmed = e.rev /\ e.kind = "moved"
            /\ client'.value = client.value /\ client'.board = e.to
  <2>1. PICK c \in Nat : c = e.rev
    BY <1>3
  <2>2. /\ next \in Client /\ next.next = m /\ next.confirmed = client.confirmed
        /\ next.value = client.value /\ next.board = client.board
    BY <1>1, <1>3, <1>4 DEF Client
  <2> HIDE DEF next
  <2>3. /\ newer \in Client /\ newer.next = m /\ newer.confirmed = c
        /\ newer.value = client.value /\ newer.board = client.board
    BY <2>1, <2>2 DEF Client
  <2> HIDE DEF newer
  <2>4. PICK v \in Request, b \in Board : v = e.request /\ b = e.to
    BY <1>3
  <2>5. CASE e.rev <= client.confirmed /\ client' = next
    BY <2>2, <2>5
  <2>6. CASE e.rev > client.confirmed /\ e.kind = "updated" /\ client' = [newer EXCEPT !.value = e.request]
    BY <2>1, <2>3, <2>4, <2>6 DEF Client
  <2>7. CASE e.rev > client.confirmed /\ e.kind = "moved" /\ client' = [newer EXCEPT !.board = e.to]
    BY <2>1, <2>3, <2>4, <2>7 DEF Client
  <2> QED BY <1>2, <2>5, <2>6, <2>7
<1>6. client'.has
  BY <1>2, <1>3 DEF Client
<1> HIDE DEF next, newer
<1>7. /\ client'.confirmed <= card.rev /\ client'.confirmed >= client.confirmed
      /\ client'.confirmed >= e.rev
  BY <1>3, <1>5
<1>8. ASSUME Straight
      PROVE  /\ NoneApplied => client'.value = card.value \/ \E i \in DOMAIN log : Fresh(i)' /\ log[i].kind = "updated"
             /\ client'.board = card.board \/ \E i \in DOMAIN log : Fresh(i)' /\ Relocates(i)
             /\ client'.confirmed = card.rev => client'.value = card.value
  <2>1. \A i \in DOMAIN log : i > n /\ log[i].rev > client'.confirmed => Fresh(i)'
    BY <1>2, <1>3, <1>4, <1>5 DEF Fresh
  <2>2. \A i \in DOMAIN log : i > n => log[i].rev > e.rev
    BY <1>1, <1>2, <1>3, <1>8 DEF LogInOrder
  <2>3. \A i \in DOMAIN log : Fresh(i) => i = n \/ i > n
    BY <1>1, <1>3 DEF Fresh
  <2>4. \A i \in DOMAIN log : i > n => log[i].rev <= card.rev /\ e.rev < card.rev
    BY <1>3, <2>2
  <2>5. (\E q \in Request : pc[q] = "applied") => e.rev < card.rev
    BY <1>1, <1>3, <1>8 DEF LogInOrder
  <2>6. CASE e.rev <= client.confirmed /\ client'.confirmed = client.confirmed
             /\ client'.value = client.value /\ client'.board = client.board
    <3>1. ~Fresh(n)
      BY <1>1, <1>3, <2>6 DEF Fresh
    <3>2. \A i \in DOMAIN log : Fresh(i) => Fresh(i)'
      BY <1>3, <2>1, <2>3, <2>6, <3>1 DEF Fresh
    <3> QED BY <1>8, <2>6, <3>2 DEF WillConverge
  <2>7. CASE e.rev > client.confirmed /\ client'.confirmed = e.rev /\ e.kind = "updated"
             /\ client'.value = e.request /\ client'.board = client.board
    <3>1. \A i \in DOMAIN log : i > n => Fresh(i)'
      BY <2>1, <2>2, <2>7
    <3>2. NoneApplied => card.value = e.request \/ \E i \in DOMAIN log : i > n /\ log[i].kind = "updated"
      BY <1>1, <1>3, <1>8, <2>7 DEF LogInOrder
    <3>3. NoneApplied => client'.value = card.value \/ \E i \in DOMAIN log : Fresh(i)' /\ log[i].kind = "updated"
      BY <2>7, <3>1, <3>2
    <3>4. client'.board = card.board \/ \E i \in DOMAIN log : Fresh(i)' /\ Relocates(i)
      <4>1. ~Relocates(n)
        BY <1>1, <2>7 DEF Relocates
      <4>2. client.board = card.board \/ \E i \in DOMAIN log : Fresh(i) /\ Relocates(i)
        BY <1>8 DEF WillConverge
      <4> QED BY <2>3, <2>7, <3>1, <4>1, <4>2
    <3>5. client'.confirmed = card.rev => client'.value = card.value
      <4> SUFFICES ASSUME e.rev = card.rev PROVE card.value = e.request
        BY <2>7
      <4>1. NoneApplied
        BY <1>3, <2>5 DEF NoneApplied
      <4>2. \A i \in DOMAIN log : ~(i > n)
        BY <1>3, <2>4
      <4> QED BY <3>2, <4>1, <4>2
    <3> QED BY <3>3, <3>4, <3>5
  <2>8. CASE e.rev > client.confirmed /\ client'.confirmed = e.rev /\ e.kind = "moved"
             /\ client'.value = client.value /\ client'.board = e.to
    <3>1. \A i \in DOMAIN log : i > n => Fresh(i)'
      BY <2>1, <2>2, <2>8
    <3>2. card.board = e.to \/ \E i \in DOMAIN log : i > n /\ Relocates(i)
      BY <1>1, <1>3, <1>8, <2>8 DEF LogInOrder, Relocates
    <3>3. NoneApplied => client'.value = card.value \/ \E i \in DOMAIN log : i > n /\ log[i].kind = "updated"
      BY <1>1, <1>8, <2>3, <2>8 DEF WillConverge
    <3>4. client'.confirmed = card.rev => client'.value = card.value
      <4> SUFFICES ASSUME e.rev = card.rev PROVE client'.value = card.value
        BY <2>8
      <4>1. NoneApplied
        BY <1>3, <2>5 DEF NoneApplied
      <4>2. \A i \in DOMAIN log : ~(i > n)
        BY <1>3, <2>4
      <4> QED BY <3>3, <4>1, <4>2
    <3> QED BY <2>8, <3>1, <3>2, <3>3, <3>4
  <2> QED BY <1>5, <2>6, <2>7, <2>8
<1>9. WillConverge'
  <2> SUFFICES ASSUME Straight' PROVE WillConverge'
    BY DEF WillConverge
  <2>1. Straight /\ (NoneApplied' <=> NoneApplied)
    BY <1>2 DEF Straight, NoneApplied, Exists
  <2>2. log' = log /\ card' = card /\ \A i \in DOMAIN log : Relocates(i)' <=> Relocates(i)
    BY <1>2 DEF Relocates
  <2> QED BY <1>8, <2>1, <2>2 DEF WillConverge
<1>10. client'.next = client.next + 1
  BY <1>1, <1>4, <1>5
<1> QED BY <1>1, <1>2, <1>5, <1>6, <1>7, <1>9, <1>10, TakingKeeps

\* CardTransferred: the client gets the card as it is now, or has it already.
LEMMA CopyKeeps == ASSUME EventsInv, DeliverTransfer PROVE EventsInv'
<1> USE DEF EventsInv
<1>1. PICK n : n = client.next
  OBVIOUS
<1>2. /\ Pending /\ client.has /\ Event.kind = "transferred"
      /\ UNCHANGED <<card, log, pc, op, target, seen, newRev, overlap>>
      /\ \/ /\ Exists /\ card.rev > client.confirmed
            /\ client' = [client EXCEPT !.next = @ + 1, !.confirmed = card.rev, !.value = card.value,
                                        !.board = card.board]
         \/ /\ Exists => ~(card.rev > client.confirmed)
            /\ client' = [client EXCEPT !.next = @ + 1]
  BY DEF DeliverTransfer, Apply, requestVars
<1>3. /\ n \in DOMAIN log /\ n \in Nat /\ client \in Client /\ client.confirmed \in Nat
      /\ client.confirmed <= card.rev /\ card.rev \in Nat /\ card \in Row
      /\ \A i \in DOMAIN log : i \in Nat /\ log[i].rev \in Nat /\ log[i].rev <= card.rev
  BY <1>1, <1>2, Parts DEF Pending, EventTypes
<1>4. PICK m \in Nat : m = n + 1
  BY <1>3
<1>5. card.value \in Request \cup {NoRequest} /\ card.board \in Board \cup {NoBoard}
  BY <1>3 DEF Row
<1>6. /\ client' \in Client /\ client'.next = m
      /\ \/ /\ Exists /\ client'.confirmed = card.rev /\ client'.value = card.value /\ client'.board = card.board
         \/ /\ Exists => ~(card.rev > client.confirmed)
            /\ client'.confirmed = client.confirmed /\ client'.value = client.value /\ client'.board = client.board
  BY <1>1, <1>2, <1>3, <1>4, <1>5 DEF Client
<1>7. client'.has
  BY <1>2, <1>3 DEF Client
<1>8. Exists => client'.confirmed = card.rev
  BY <1>3, <1>6
<1>9. client'.confirmed <= card.rev
  BY <1>3, <1>6
<1>10. WillConverge'
  <2> SUFFICES ASSUME Straight' PROVE WillConverge'
    BY DEF WillConverge
  <2>1. Straight /\ Exists /\ (NoneApplied' <=> NoneApplied) /\ card' = card
    BY <1>2 DEF Straight, NoneApplied, Exists
  <2>2. client'.value = card.value /\ client'.board = card.board
    <3>1. CASE client'.confirmed = card.rev /\ client'.value = card.value /\ client'.board = card.board
      BY <3>1
    <3>2. CASE /\ Exists => ~(card.rev > client.confirmed)
               /\ client'.confirmed = client.confirmed /\ client'.value = client.value /\ client'.board = client.board
      <4>1. client.confirmed = card.rev
        BY <1>3, <2>1, <3>2
      <4>2. \A i \in DOMAIN log : ~Fresh(i)
        BY <1>3, <4>1 DEF Fresh
      <4> QED BY <2>1, <3>2, <4>1, <4>2 DEF WillConverge
    <3> QED BY <1>6, <3>1, <3>2
  <2> QED BY <2>1, <2>2 DEF WillConverge
<1>11. Exists => client'.has /\ client'.confirmed >= client.confirmed /\ client'.confirmed >= Event.rev
  BY <1>1, <1>3, <1>7, <1>8 DEF Event
<1>12. client'.next = client.next + 1
  BY <1>1, <1>4, <1>6
<1> QED BY <1>2, <1>6, <1>9, <1>10, <1>11, <1>12, TakingKeeps

\* CardDeleted, and what follows it: the card of the server is gone as well.
LEMMA GoneKeeps == ASSUME EventsInv, DeliverDelete PROVE EventsInv'
<1> USE DEF EventsInv
<1>1. /\ Pending /\ (Event.kind = "deleted" \/ ~client.has)
      /\ client' = [client EXCEPT !.next = @ + 1, !.has = FALSE]
      /\ UNCHANGED <<card, log, pc, op, target, seen, newRev, overlap>>
  BY DEF DeliverDelete, Apply, requestVars
<1>2. client.next \in DOMAIN log /\ client.next \in Nat /\ client.confirmed <= card.rev
  BY <1>1, Parts DEF Pending
<1>3. ~Exists
  BY <1>1, <1>2 DEF Followed, Event
<1>4. client' \in Client /\ client'.next = client.next + 1 /\ client'.confirmed = client.confirmed
  <2>1. PICK m \in Nat : m = client.next + 1
    BY <1>2
  <2> QED BY <1>1, <2>1 DEF EventTypes, Client
<1>5. WillConverge'
  BY <1>1, <1>3 DEF WillConverge, Straight, Exists
<1> QED BY <1>1, <1>2, <1>3, <1>4, <1>5, TakingKeeps

\* What the properties of the events say follows from the invariant.
LEMMA InvTells == EventsInv => EventsTellTheCard
<1> SUFFICES ASSUME EventsInv PROVE EventsTellTheCard
  OBVIOUS
<1> USE DEF EventsInv
<1>1. RevisionsDistinct /\ DeleteIsFinal /\ ProjectOfBoard
  BY DEF Distinct, Followed, Serial
<1>2. ~Pending => \A i \in DOMAIN log : i < client.next
  BY Parts DEF Pending
<1>3. Settled => \A r \in Request : pc[r] \notin {"read", "applied", "cut"}
  BY DEF Settled, Running
<1>4. /\ client.confirmed \in Nat /\ client.confirmed <= card.rev /\ card.rev \in Nat
      /\ \A i \in DOMAIN log : log[i].rev \in Nat /\ i \in Nat
      /\ client.next \in Nat
  BY Parts
<1>5. ConfirmsLatest
  <2> SUFFICES ASSUME Settled, Exists PROVE client.confirmed = card.rev
    BY DEF ConfirmsLatest
  <2>1. CASE card.rev = 0
    BY <1>4, <2>1
  <2>2. CASE \E i \in DOMAIN log : log[i].rev = card.rev
    <3>1. \A i \in DOMAIN log : log[i].rev <= client.confirmed
      BY <1>2 DEF Settled, Followed
    <3> QED BY <1>4, <2>2, <3>1
  <2> QED BY <1>3, <2>1, <2>2 DEF Followed
<1>6. ClientConverges
  <2> SUFFICES ASSUME ~overlap, Settled, Exists
               PROVE  client.has /\ client.value = card.value /\ client.board = card.board
    BY DEF ClientConverges
  <2>1. Straight /\ NoneApplied
    BY <1>3 DEF Straight, NoneApplied
  <2>2. \A i \in DOMAIN log : ~Fresh(i)
    BY <1>2, <1>4 DEF Settled, Fresh
  <2> QED BY <2>1, <2>2 DEF WillConverge, Followed
<1> QED BY <1>1, <1>5, <1>6 DEF EventsTellTheCard

\* Every handler and the client keep the invariant.
LEMMA EventsInvariant == Spec => []EventsInv
<1>1. Init => EventsInv
  BY InitEventsInv
<1>2. EventsInv /\ [Next]_vars => EventsInv'
  <2> SUFFICES ASSUME EventsInv, [Next]_vars PROVE EventsInv'
    OBVIOUS
  <2>1. ASSUME NEW r \in Request, Handle(r) PROVE EventsInv'
    <3>1. CASE ReadForUpdate(r)
      <4>1. card.board \in Board
        BY <3>1 DEF ReadForUpdate, Read, Exists, EventsInv, EventTypes, TypeOK, Row
      <4> QED BY <3>1, <4>1, ReadKeeps DEF ReadForUpdate
    <3>2. CASE ReadForDelete(r)
      <4>1. card.board \in Board
        BY <3>2 DEF ReadForDelete, Read, Exists, EventsInv, EventTypes, TypeOK, Row
      <4> QED BY <3>2, <4>1, ReadKeeps DEF ReadForDelete
    <3>3. ASSUME NEW b \in Board, ReadForMove(r, b) PROVE EventsInv'
      BY <3>3, ReadKeeps DEF ReadForMove
    <3>4. ASSUME NEW b \in Board, ReadForTransfer(r, b) PROVE EventsInv'
      BY <3>4, ReadKeeps DEF ReadForTransfer
    <3> QED BY <2>1, <3>1, <3>2, <3>3, <3>4, StopKeeps, ApplyKeeps, RecordKeeps, MoveKeeps, TransferKeeps,
               DeleteKeeps DEF Handle
  <2>2. CASE UNCHANGED vars
    BY <2>2 DEF vars, EventsInv, EventTypes, TypeOK, Distinct, RevisionsDistinct, Followed, DeleteIsFinal,
                Serial, Running, Step, ProjectOfBoard, Exists, LogInOrder, Straight, NoneApplied, Relocates,
                WillConverge, Fresh
  <2> QED BY <2>1, <2>2, PatchKeeps, CopyKeeps, GoneKeeps DEF Next
<1> QED BY <1>1, <1>2, PTL DEF Spec

\* However the handlers of a card overlap and wherever they are dropped: their events tell the
\* requests apart, CardDeleted is the last but for updates applied before, and a client that
\* has them all has the last revision; requests one at a time, also the card as the server has it.
THEOREM EventsTell == Spec => []EventsTellTheCard
<1> QED BY EventsInvariant, InvTells, PTL

-----------------------------------------------------------------------------
\* The patches of CardUpdated and a viewer that merges them (CardPatch).

PatchedRow == [there : BOOLEAN, rev : Nat, title : Nat, milestone : Nat, blocked : BOOLEAN, due : Nat, label : Nat]

PatchOfEvent ==
    [title : Nat, milestone : Nat, blocked : BOOLEAN, milestoneCleared : BOOLEAN] \cup {NoPatch}

CardEvent ==
    [type : {"CardCreated", "CardDeleted"}] \cup [type : {"CardUpdated"}, rev : Nat, patch : PatchOfEvent]

\* What the keys of a patch make of a card, as a client merges them.
Tells(p, old, new) ==
    /\ new.title = IF p.title = 0 THEN old.title ELSE p.title
    /\ new.milestone = IF p.milestoneCleared THEN 0 ELSE IF p.milestone = 0 THEN old.milestone ELSE p.milestone

PatchTypes ==
    /\ row \in PatchedRow /\ viewer \in PatchedRow
    /\ history \in Seq(PatchedRow) /\ Len(history) = row.rev + 1
    /\ outbox \in Seq(CardEvent) /\ sent \in Nat
    /\ Len(outbox) = IF row.there THEN row.rev + 1 ELSE row.rev + 2
    /\ sent <= Len(outbox)

\* The last entry of the history is the row, and the log tells how each came of the one before.
LogTells ==
    /\ history[row.rev + 1].title = row.title /\ history[row.rev + 1].milestone = row.milestone
    /\ outbox[1].type = "CardCreated"
    /\ \A i \in 1..row.rev :
          /\ outbox[i + 1].type = "CardUpdated" /\ outbox[i + 1].rev = i
          /\ Tells(outbox[i + 1].patch, history[i], history[i + 1])
    /\ ~row.there => outbox[row.rev + 2].type = "CardDeleted"

\* The viewer is as far as the log was dispatched, or further: CardCreated showed it a later card.
ViewerStands ==
    /\ viewer.rev <= row.rev
    /\ viewer.there => /\ sent > 0 /\ sent <= viewer.rev + 1
                       /\ history[viewer.rev + 1].title = viewer.title
                       /\ history[viewer.rev + 1].milestone = viewer.milestone
    /\ row.there /\ sent > 0 => viewer.there
    /\ ~row.there /\ sent = Len(outbox) => ~viewer.there

PatchInv == PatchTypes /\ LogTells /\ ViewerStands

\* A row without an event, and a viewer that has the same.
LEMMA InitPatchInv == PatchInit => PatchInv
<1> SUFFICES ASSUME PatchInit PROVE PatchInv
  OBVIOUS
<1>1. Blank0 \in PatchedRow /\ Nothing \in PatchedRow /\ ~Nothing.there /\ Nothing.rev = 0 /\ Blank0.rev = 0 /\ Blank0.there
  BY DEF Blank0, Nothing, PatchedRow
<1>2. /\ row = Blank0 /\ viewer = Nothing /\ sent = 0
      /\ history \in Seq(PatchedRow) /\ Len(history) = 1 /\ history[1] = Blank0
  BY <1>1 DEF PatchInit
<1>3. outbox \in Seq(CardEvent) /\ Len(outbox) = 1 /\ outbox[1].type = "CardCreated"
  <2>1. [type |-> "CardCreated"] \in CardEvent
    BY DEF CardEvent
  <2> QED BY <2>1 DEF PatchInit
<1> QED BY <1>1, <1>2, <1>3 DEF PatchInv, PatchTypes, LogTells, ViewerStands

\* An event with its row: the log tells how the row came of the one before.
LEMMA RowWritesKeep ==
    ASSUME PatchInv, NEW new \in PatchedRow, NEW p \in PatchOfEvent, row.there, new.there,
           new.rev = row.rev + 1, Tells(p, row, new),
           Writes(new, [type |-> "CardUpdated", rev |-> row.rev + 1, patch |-> p])
    PROVE  PatchInv'
<1>1. PICK e : e = [type |-> "CardUpdated", rev |-> row.rev + 1, patch |-> p]
  OBVIOUS
<1>2. e \in CardEvent /\ e.type = "CardUpdated" /\ e.rev = row.rev + 1 /\ e.patch = p
  BY <1>1 DEF CardEvent, PatchInv, PatchTypes, PatchedRow
<1>3. /\ row' = new /\ history' = Append(history, new) /\ outbox' = Append(outbox, e)
      /\ UNCHANGED <<sent, viewer>>
  BY <1>1 DEF Writes
<1>4. /\ row.rev \in Nat /\ history \in Seq(PatchedRow) /\ Len(history) = row.rev + 1
      /\ outbox \in Seq(CardEvent) /\ Len(outbox) = row.rev + 1 /\ sent \in Nat
      /\ viewer.rev \in Nat /\ viewer.rev <= row.rev
  BY DEF PatchInv, PatchTypes, PatchedRow, ViewerStands
<1>5. /\ history' \in Seq(PatchedRow) /\ Len(history') = row.rev + 2 /\ history'[row.rev + 2] = new
      /\ \A i \in 1..(row.rev + 1) : history'[i] = history[i]
  BY <1>3, <1>4
<1>6. /\ outbox' \in Seq(CardEvent) /\ Len(outbox') = row.rev + 2 /\ outbox'[row.rev + 2] = e
      /\ \A i \in 1..(row.rev + 1) : outbox'[i] = outbox[i]
  BY <1>2, <1>3, <1>4
<1>7. PatchTypes'
  BY <1>3, <1>4, <1>5, <1>6 DEF PatchInv, PatchTypes
<1>8. LogTells'
  <2>1. history'[row'.rev + 1].title = row'.title /\ history'[row'.rev + 1].milestone = row'.milestone
    BY <1>3, <1>4, <1>5
  <2>2. outbox'[1].type = "CardCreated"
    <3>1. 1 \in 1..(row.rev + 1)
      BY <1>4
    <3> QED BY <1>6, <3>1 DEF PatchInv, LogTells
  <2>3. ASSUME NEW i \in 1..row'.rev
        PROVE  /\ outbox'[i + 1].type = "CardUpdated" /\ outbox'[i + 1].rev = i
               /\ Tells(outbox'[i + 1].patch, history'[i], history'[i + 1])
    <3>1. CASE i <= row.rev
      <4>1. i \in 1..row.rev /\ i + 1 \in 1..(row.rev + 1) /\ i \in 1..(row.rev + 1)
        BY <1>4, <2>3, <3>1
      <4>2. outbox'[i + 1] = outbox[i + 1] /\ history'[i] = history[i] /\ history'[i + 1] = history[i + 1]
        BY <1>5, <1>6, <4>1
      <4> QED BY <4>1, <4>2 DEF PatchInv, LogTells
    <3>2. CASE i = row.rev + 1
      <4>1. outbox'[i + 1] = e /\ history'[i] = history[row.rev + 1] /\ history'[i + 1] = new
        <5>1. row.rev \in Nat /\ i + 1 = row.rev + 2 /\ row.rev + 1 \in 1..(row.rev + 1)
          BY <1>4, <3>2
        <5>2. outbox'[i + 1] = e
          BY <1>6, <5>1
        <5>3. history'[i] = history[row.rev + 1]
          BY <1>5, <3>2, <5>1
        <5>4. history'[i + 1] = new
          BY <1>5, <5>1
        <5> QED BY <5>2, <5>3, <5>4
      <4>2. history[row.rev + 1].title = row.title /\ history[row.rev + 1].milestone = row.milestone
        BY DEF PatchInv, LogTells
      <4> QED BY <1>2, <3>2, <4>1, <4>2 DEF Tells
    <3> QED BY <1>3, <1>4, <2>3, <3>1, <3>2
  <2> QED BY <1>3, <2>1, <2>2, <2>3 DEF LogTells
<1>9. ViewerStands'
  <2>1. viewer.rev + 1 \in 1..(row.rev + 1)
    BY <1>4
  <2> QED BY <1>3, <1>4, <1>5, <2>1 DEF PatchInv, ViewerStands
<1> QED BY <1>7, <1>8, <1>9 DEF PatchInv

\* UpdateCard: every field of the request or of its mask that changes the row is in the patch.
LEMMA EditKeeps == PatchInv /\ EditCard => PatchInv'
<1> SUFFICES ASSUME PatchInv, EditCard PROVE PatchInv'
  OBVIOUS
<1>1. PICK p \in Patch :
        /\ row.there
        /\ Writes(Updated(p), [type |-> "CardUpdated", rev |-> row.rev + 1, patch |-> PatchPayload(p)])
  BY DEF EditCard
<1>2. row \in PatchedRow /\ row.rev \in Nat
  BY DEF PatchInv, PatchTypes, PatchedRow
<1>3. p.title \in {0, 1} /\ p.milestone \in {0, 1} /\ p.blocked \in BOOLEAN /\ p.due \in {0, 1}
  BY DEF Patch
<1>4. PICK t \in Nat, m \in Nat :
        /\ t = p.title * (row.rev + 1) /\ m = p.milestone * (row.rev + 1)
        /\ t = (IF p.title = 0 THEN 0 ELSE row.rev + 1)
        /\ m = (IF p.milestone = 0 THEN 0 ELSE row.rev + 1)
  <2>1. 0 * (row.rev + 1) = 0 /\ 1 * (row.rev + 1) = row.rev + 1 /\ row.rev + 1 \in Nat
    BY <1>2
  <2> QED BY <1>3, <2>1
<1>5. PICK cleared \in BOOLEAN : cleared = MilestoneCleared(p)
  BY DEF MilestoneCleared
<1>6. /\ PatchPayload(p) \in PatchOfEvent
      /\ PatchPayload(p).title = t /\ PatchPayload(p).milestone = m
      /\ PatchPayload(p).milestoneCleared = cleared
  BY <1>3, <1>4, <1>5 DEF PatchPayload, PatchOfEvent
<1>7. /\ Updated(p) \in PatchedRow /\ Updated(p).there = row.there /\ Updated(p).rev = row.rev + 1
      /\ Updated(p).title = IF p.title # 0 THEN row.rev + 1 ELSE row.title
      /\ Updated(p).milestone = IF MilestoneApplies(p) THEN m ELSE row.milestone
  <2>1. PICK title \in Nat, due \in Nat, ms \in Nat, blocked \in BOOLEAN :
          /\ title = (IF p.title # 0 THEN row.rev + 1 ELSE row.title)
          /\ due = (IF p.due # 0 THEN row.rev + 1 ELSE row.due)
          /\ blocked = (IF BlockedApplies(p) THEN p.blocked ELSE row.blocked)
          /\ ms = (IF MilestoneApplies(p) THEN m ELSE row.milestone)
    <3>1. /\ row.title \in Nat /\ row.due \in Nat /\ row.milestone \in Nat /\ row.blocked \in BOOLEAN
          /\ row.rev + 1 \in Nat
      BY <1>2 DEF PatchedRow
    <3> QED BY <1>3, <1>4, <3>1
  <2>2. Updated(p) = [row EXCEPT !.rev = row.rev + 1, !.title = title, !.due = due,
                                 !.blocked = blocked, !.milestone = ms]
    BY <1>2, <1>4, <2>1 DEF Updated, PatchedRow
  <2>3. row.rev + 1 \in Nat
    BY <1>2
  <2>4. /\ Updated(p) \in PatchedRow /\ Updated(p).there = row.there /\ Updated(p).rev = row.rev + 1
        /\ Updated(p).title = title /\ Updated(p).milestone = ms
    BY <1>2, <2>1, <2>2, <2>3 DEF PatchedRow
  <2> QED BY <2>1, <2>4
<1>8. Tells(PatchPayload(p), row, Updated(p))
  <2>1. row.rev + 1 # 0
    BY <1>2
  <2>2. Updated(p).title = IF t = 0 THEN row.title ELSE t
    BY <1>4, <1>7, <2>1
  <2>3. Updated(p).milestone = IF cleared THEN 0 ELSE IF m = 0 THEN row.milestone ELSE m
    <3>1. CASE p.milestone = 0 /\ "milestone" \in p.mask
      BY <1>4, <1>5, <1>7, <3>1 DEF MilestoneCleared, MilestoneApplies
    <3>2. CASE p.milestone = 0 /\ "milestone" \notin p.mask
      BY <1>4, <1>5, <1>7, <3>2 DEF MilestoneCleared, MilestoneApplies
    <3>3. CASE p.milestone = 1
      BY <1>4, <1>5, <1>7, <2>1, <3>3 DEF MilestoneCleared, MilestoneApplies
    <3> QED BY <1>3, <3>1, <3>2, <3>3
  <2> QED BY <1>6, <2>2, <2>3 DEF Tells
<1> QED BY <1>1, <1>6, <1>7, <1>8, RowWritesKeep

\* BulkUpdateCardLabels: the patch is absent, and no field of it changes.
LEMMA RelabelKeeps == PatchInv /\ RelabelCard => PatchInv'
<1> SUFFICES ASSUME PatchInv, RelabelCard PROVE PatchInv'
  OBVIOUS
<1>1. row \in PatchedRow /\ row.rev + 1 \in Nat
  BY DEF PatchInv, PatchTypes, PatchedRow
<1>2. PICK new : new = [row EXCEPT !.rev = @ + 1, !.label = row.rev + 1]
  OBVIOUS
<1>3. /\ row.there
      /\ Writes(new, [type |-> "CardUpdated", rev |-> row.rev + 1, patch |-> NoPatch])
  BY <1>2 DEF RelabelCard
<1>4. /\ new \in PatchedRow /\ new.there = row.there /\ new.rev = row.rev + 1
      /\ new.title = row.title /\ new.milestone = row.milestone
  BY <1>1, <1>2 DEF PatchedRow
<1>5. NoPatch \in PatchOfEvent /\ NoPatch.title = 0 /\ NoPatch.milestone = 0 /\ NoPatch.milestoneCleared = FALSE
  BY DEF PatchOfEvent, NoPatch
<1>6. Tells(NoPatch, row, new)
  BY <1>4, <1>5 DEF Tells
<1> QED BY <1>3, <1>4, <1>5, <1>6, RowWritesKeep

\* DeleteCard: the event is the last.
LEMMA DropKeeps == PatchInv /\ DropCard => PatchInv'
<1> SUFFICES ASSUME PatchInv, DropCard PROVE PatchInv'
  OBVIOUS
<1>1. PICK e : e = [type |-> "CardDeleted"]
  OBVIOUS
<1>2. e \in CardEvent /\ e.type = "CardDeleted"
  BY <1>1 DEF CardEvent
<1>3. /\ row.there /\ row' = [row EXCEPT !.there = FALSE] /\ outbox' = Append(outbox, e)
      /\ UNCHANGED <<history, sent, viewer>>
  BY <1>1 DEF DropCard
<1>4. /\ row \in PatchedRow /\ row.rev \in Nat /\ history \in Seq(PatchedRow) /\ Len(history) = row.rev + 1
      /\ outbox \in Seq(CardEvent) /\ Len(outbox) = row.rev + 1 /\ sent \in Nat /\ sent <= row.rev + 1
  BY <1>3 DEF PatchInv, PatchTypes, PatchedRow
<1>5. /\ row' \in PatchedRow /\ row'.rev = row.rev /\ row'.title = row.title /\ row'.milestone = row.milestone
      /\ ~row'.there
  BY <1>3, <1>4 DEF PatchedRow
<1>6. /\ outbox' \in Seq(CardEvent) /\ Len(outbox') = row.rev + 2 /\ outbox'[row.rev + 2] = e
      /\ \A i \in 1..(row.rev + 1) : outbox'[i] = outbox[i]
  BY <1>2, <1>3, <1>4
<1>7. PatchTypes'
  BY <1>3, <1>4, <1>5, <1>6 DEF PatchInv, PatchTypes
<1>8. LogTells'
  <2>1. outbox'[1] = outbox[1] /\ \A i \in 1..row.rev : outbox'[i + 1] = outbox[i + 1]
    <3>1. 1 \in 1..(row.rev + 1) /\ \A i \in 1..row.rev : i + 1 \in 1..(row.rev + 1)
      BY <1>4
    <3> QED BY <1>6, <3>1
  <2>2. history'[row'.rev + 1].title = row'.title /\ history'[row'.rev + 1].milestone = row'.milestone
    BY <1>3, <1>5 DEF PatchInv, LogTells
  <2>3. outbox'[1].type = "CardCreated" /\ outbox'[row'.rev + 2].type = "CardDeleted"
    BY <1>2, <1>5, <1>6, <2>1 DEF PatchInv, LogTells
  <2>4. \A i \in 1..row'.rev :
          /\ outbox'[i + 1].type = "CardUpdated" /\ outbox'[i + 1].rev = i
          /\ Tells(outbox'[i + 1].patch, history'[i], history'[i + 1])
    <3>1. history' = history /\ row'.rev = row.rev
      BY <1>3, <1>5
    <3>2. \A i \in 1..row.rev :
            /\ outbox[i + 1].type = "CardUpdated" /\ outbox[i + 1].rev = i
            /\ Tells(outbox[i + 1].patch, history[i], history[i + 1])
      BY DEF PatchInv, LogTells
    <3> QED BY <2>1, <3>1, <3>2
  <2> QED BY <2>2, <2>3, <2>4 DEF LogTells
<1>9. ViewerStands'
  BY <1>3, <1>4, <1>5, <1>6 DEF PatchInv, ViewerStands
<1> QED BY <1>7, <1>8, <1>9 DEF PatchInv

\* The dispatcher and the merge: a patch is news only to a viewer that stands right before it.
LEMMA DispatchKeeps == PatchInv /\ DispatchNext => PatchInv'
<1> SUFFICES ASSUME PatchInv, DispatchNext PROVE PatchInv'
  OBVIOUS
<1>1. /\ sent < Len(outbox) /\ sent' = sent + 1 /\ viewer' = Payload(outbox[sent + 1])
      /\ UNCHANGED <<row, history, outbox>>
  BY DEF DispatchNext
<1>2. /\ row \in PatchedRow /\ viewer \in PatchedRow /\ row.rev \in Nat /\ viewer.rev \in Nat /\ viewer.rev <= row.rev
      /\ history \in Seq(PatchedRow) /\ Len(history) = row.rev + 1
      /\ outbox \in Seq(CardEvent) /\ sent \in Nat
      /\ Len(outbox) = IF row.there THEN row.rev + 1 ELSE row.rev + 2
  BY DEF PatchInv, PatchTypes, PatchedRow, ViewerStands
<1>3. Nothing \in PatchedRow /\ Nothing.rev = 0 /\ ~Nothing.there
  BY DEF Nothing, Blank0, PatchedRow
<1>4. PatchTypes' /\ ViewerStands'
  <2>1. CASE sent = 0
    <3>1. viewer' = IF row.there THEN row ELSE Nothing
      BY <1>1, <2>1 DEF Payload, PatchInv, LogTells
    <3>2. CASE row.there
      <4>1. viewer' = row
        BY <3>1, <3>2
      <4> QED BY <1>1, <1>2, <2>1, <3>2, <4>1 DEF PatchInv, PatchTypes, LogTells, ViewerStands
    <3>3. CASE ~row.there
      <4>1. viewer' = Nothing
        BY <3>1, <3>3
      <4> QED BY <1>1, <1>2, <1>3, <2>1, <3>3, <4>1 DEF PatchInv, PatchTypes, ViewerStands
    <3> QED BY <3>2, <3>3
  <2>2. CASE sent > 0 /\ sent <= row.rev
    <3>1. PICK e : e = outbox[sent + 1]
      OBVIOUS
    <3>2. /\ e.type = "CardUpdated" /\ e.rev = sent /\ Tells(e.patch, history[sent], history[sent + 1])
          /\ e \in CardEvent
      <4>1. sent \in 1..row.rev /\ sent + 1 \in 1..Len(outbox)
        BY <1>2, <2>2
      <4>2. \A i \in 1..row.rev : /\ outbox[i + 1].type = "CardUpdated" /\ outbox[i + 1].rev = i
                                  /\ Tells(outbox[i + 1].patch, history[i], history[i + 1])
        BY DEF PatchInv, LogTells
      <4>3. outbox[sent + 1] \in CardEvent
        BY <1>2, <4>1
      <4> QED BY <3>1, <4>1, <4>2, <4>3
    <3>3. e.patch \in PatchOfEvent
      BY <3>2 DEF CardEvent
    <3>4. viewer' = IF viewer.there /\ sent > viewer.rev THEN Merged(e.patch, sent) ELSE viewer
      BY <1>1, <3>1, <3>2 DEF Payload, IsNews
    <3>5. CASE viewer.there /\ sent > viewer.rev
      <4>1. /\ viewer.rev + 1 = sent
            /\ history[sent].title = viewer.title /\ history[sent].milestone = viewer.milestone
        BY <1>2, <2>2, <3>5 DEF PatchInv, ViewerStands
      <4>2. /\ viewer' \in PatchedRow /\ viewer'.there /\ viewer'.rev = sent
            /\ Tells(e.patch, viewer, viewer')
        <5>1. viewer' = Merged(e.patch, sent)
          BY <3>4, <3>5
        <5>2. NoPatch.title = 0 /\ NoPatch.milestone = 0 /\ NoPatch.milestoneCleared = FALSE
          BY DEF NoPatch
        <5>3. PICK title \in Nat, ms \in Nat, blocked \in BOOLEAN :
                /\ title = (IF e.patch.title = 0 THEN viewer.title ELSE e.patch.title)
                /\ ms = (IF e.patch.milestoneCleared THEN 0
                               ELSE IF e.patch.milestone = 0 THEN viewer.milestone ELSE e.patch.milestone)
                /\ viewer' = [viewer EXCEPT !.rev = sent, !.title = title, !.milestone = ms, !.blocked = blocked]
          <6>1. viewer.title \in Nat /\ viewer.milestone \in Nat /\ viewer.blocked \in BOOLEAN
            BY <1>2 DEF PatchedRow
          <6>2. CASE e.patch = NoPatch
            BY <5>1, <5>2, <6>1, <6>2 DEF Merged, IsUnchangedSentinel
          <6>3. CASE e.patch # NoPatch
            <7>1. e.patch.title \in Nat /\ e.patch.milestone \in Nat /\ e.patch.blocked \in BOOLEAN
              BY <3>3, <6>3 DEF PatchOfEvent
            <7> QED BY <5>1, <6>1, <6>3, <7>1 DEF Merged, IsUnchangedSentinel
          <6> QED BY <6>2, <6>3
        <5> QED BY <1>2, <3>5, <5>3, ZenonT(60) DEF PatchedRow, Tells
      <4>3. history[sent + 1].title = viewer'.title /\ history[sent + 1].milestone = viewer'.milestone
        BY <3>2, <4>1, <4>2 DEF Tells
      <4>4. PatchTypes'
        BY <1>1, <1>2, <4>2 DEF PatchInv, PatchTypes
      <4> QED BY <1>1, <1>2, <2>2, <4>2, <4>3, <4>4 DEF PatchInv, ViewerStands
    <3>6. CASE ~(viewer.there /\ sent > viewer.rev)
      <4>1. viewer' = viewer
        BY <3>4, <3>6
      <4> QED BY <1>1, <1>2, <2>2, <3>6, <4>1 DEF PatchInv, PatchTypes, ViewerStands
    <3> QED BY <3>5, <3>6
  <2>3. CASE sent > row.rev /\ sent > 0
    <3>1. ~row.there /\ sent = row.rev + 1
      BY <1>1, <1>2, <2>3
    <3>2. viewer' = Nothing
      <4>1. PICK e : e = outbox[sent + 1]
        OBVIOUS
      <4>2. e.type = "CardDeleted"
        <5>1. sent + 1 = row.rev + 2
          BY <1>2, <3>1
        <5> QED BY <3>1, <4>1, <5>1 DEF PatchInv, LogTells
      <4> QED BY <1>1, <4>1, <4>2 DEF Payload
    <3> QED BY <1>1, <1>2, <1>3, <3>1, <3>2, SMTT(30) DEF PatchInv, PatchTypes, ViewerStands
  <2> QED BY <1>2, <2>1, <2>2, <2>3
<1>5. LogTells'
  BY <1>1 DEF PatchInv, LogTells
<1> QED BY <1>4, <1>5 DEF PatchInv

\* Every edit and every dispatch keeps the invariant.
LEMMA PatchInvariant == PatchSpec => []PatchInv
<1>1. PatchInv /\ [PatchNext]_patchVars => PatchInv'
  <2> SUFFICES ASSUME PatchInv, [PatchNext]_patchVars PROVE PatchInv'
    OBVIOUS
  <2>1. CASE UNCHANGED patchVars
    BY <2>1 DEF patchVars, PatchInv, PatchTypes, LogTells, ViewerStands
  <2> QED BY <2>1, EditKeeps, RelabelKeeps, DropKeeps, DispatchKeeps DEF PatchNext
<1> QED BY <1>1, InitPatchInv, PTL DEF PatchSpec

\* UpdateCard, build_payload and the merge of CardUpdated: however late the events are dispatched,
\* a viewer shows title and milestone as they were at the revision it has, and in the end the card
\* as it is, deleted or not.
THEOREM ViewerIsRight == PatchSpec => []ViewerFollows
<1>1. PatchInv => ViewerFollows
  <2> SUFFICES ASSUME PatchInv PROVE ViewerFollows
    OBVIOUS
  <2>1. ShowsARevision
    <3>1. viewer.there => viewer["title"] = history[viewer.rev + 1]["title"]
                          /\ viewer["milestone"] = history[viewer.rev + 1]["milestone"]
      BY DEF PatchInv, ViewerStands
    <3> QED BY <3>1 DEF ShowsARevision, Agrees
  <2>2. CaughtUp
    <3>1. /\ row.rev \in Nat /\ viewer.rev \in Nat /\ row.there \in BOOLEAN /\ viewer.there \in BOOLEAN
          /\ Len(outbox) = IF row.there THEN row.rev + 1 ELSE row.rev + 2
      BY DEF PatchInv, PatchTypes, PatchedRow
    <3> QED BY <3>1 DEF CaughtUp, PatchInv, ViewerStands
  <2> QED BY <2>1, <2>2 DEF ViewerFollows
<1> QED BY <1>1, PatchInvariant, PTL

-----------------------------------------------------------------------------
\* The milestone and the labels of a card that changes its project (CardProject).

Underway(r) == tieStep[r] \in {"read", "checked"}

TieShapes ==
    /\ tieAsk = [r \in TieRequest |-> tieAsk[r]]
    /\ \A r \in TieRequest : Underway(r) /\ tieAsk[r].kind = "milestone" =>
          tieAsk[r].milestone \in Milestone \cup {NoMilestone}
    /\ \A r \in TieRequest : Underway(r) /\ tieAsk[r].kind = "transfer" => tieAsk[r].project \in TieProject

\* Requests arrive in order, and without an overlap one is under way at a time.
TieOrder ==
    /\ \A r \in TieRequest : tieStep[r] # "idle" => \A q \in 1..(r - 1) : tieStep[q] # "idle"
    /\ "overlap" \notin slips =>
          \A q, r \in TieRequest : Underway(q) /\ Underway(r) => q = r

\* What a request that is alone has read or checked is still so.
ReadIsSo ==
    "overlap" \notin slips => \A r \in TieRequest :
        /\ Underway(r) /\ tieAsk[r].kind = "milestone" => tieAsk[r].project = home
        /\ tieStep[r] = "checked" => MilestoneFits(r)
        /\ slips = {} /\ Underway(r) /\ tieAsk[r].kind = "label" =>
              \A l \in tieAsk[r].labels : ~Foreign(l, home)

TieInv == TiesTypeOK /\ TieShapes /\ TieOrder /\ ReadIsSo /\ TiesAreHome

\* A card without labels or milestone, in one of the projects.
LEMMA InitTieInv == TiesInit => TieInv
BY DEF TiesInit, TieInv, TiesTypeOK, TieShapes, TieOrder, ReadIsSo, TiesAreHome, MilestoneHome, LabelsHome, Underway

\* A request that arrives: unless it overlaps, it is alone and what it read is so.
LEMMA ArrivingKeeps ==
    ASSUME TieInv, NEW r \in TieRequest, NEW wanted, TieArrives(r, wanted), NEW to \in {"read", "done"},
           tieStep' = [tieStep EXCEPT ![r] = to],
           to = "read" => UNCHANGED tieTables,
           home' = home,
           milestones' \subseteq milestones, labels' \subseteq labels, cardLabels' \subseteq cardLabels,
           cardLabels' \subseteq labels',
           milestone' \in {milestone, NoMilestone},
           milestone' # NoMilestone /\ milestone \in milestones => milestone \in milestones',
           wanted.kind = "milestone" => wanted.milestone \in Milestone \cup {NoMilestone} /\ wanted.project = home,
           wanted.kind = "transfer" => wanted.project \in TieProject
    PROVE  TieInv'
<1> USE DEF TieInv
<1>1. /\ tieStep[r] = "idle" /\ \A q \in 1..(r - 1) : tieStep[q] # "idle"
      /\ tieAsk' = [tieAsk EXCEPT ![r] = wanted]
      /\ slips' = slips
           \cup (IF \E q \in 1..(r - 1) : tieStep[q] # "done" THEN {"overlap"} ELSE {})
           \cup (IF wanted.kind = "label" /\ \E l \in wanted.labels : Foreign(l, home) THEN {"stranger"} ELSE {})
  BY DEF TieArrives
<1>2. /\ tieStep'[r] = to /\ tieAsk'[r] = wanted
      /\ \A q \in TieRequest \ {r} : tieStep'[q] = tieStep[q] /\ tieAsk'[q] = tieAsk[q]
  BY <1>1 DEF TiesTypeOK, TieShapes
<1>3. slips \subseteq slips'
  BY <1>1
<1>4. TiesTypeOK'
  BY <1>1 DEF TiesTypeOK
<1>5. TieShapes'
  BY <1>1, <1>2 DEF TieShapes, Underway
<1>6. "overlap" \notin slips' => \A q \in TieRequest \ {r} : ~Underway(q)
  <2> SUFFICES ASSUME "overlap" \notin slips', NEW q \in TieRequest \ {r} PROVE ~Underway(q)
    OBVIOUS
  <2>1. CASE q < r
    BY <1>1, <2>1 DEF TieRequest, Underway
  <2>2. CASE q > r
    BY <1>1, <2>2 DEF TieOrder, TieRequest, Underway
  <2> QED BY <2>1, <2>2 DEF TieRequest
<1>7. TieOrder'
  <2>1. ASSUME NEW q \in TieRequest, tieStep'[q] # "idle", NEW p \in 1..(q - 1) PROVE tieStep'[p] # "idle"
    <3>1. p \in TieRequest
      BY <2>1, TieAssumption DEF TieRequest
    <3> QED BY <1>1, <1>2, <2>1, <3>1 DEF TieOrder
  <2>2. "overlap" \notin slips' => \A q, p \in TieRequest : Underway(q)' /\ Underway(p)' => q = p
    BY <1>2, <1>6 DEF Underway
  <2> QED BY <2>1, <2>2 DEF TieOrder, Underway
<1>8. ReadIsSo'
  <2> SUFFICES ASSUME "overlap" \notin slips', NEW q \in TieRequest
               PROVE  /\ Underway(q)' /\ tieAsk'[q].kind = "milestone" => tieAsk'[q].project = home'
                      /\ tieStep'[q] = "checked" => MilestoneFits(q)'
                      /\ slips' = {} /\ Underway(q)' /\ tieAsk'[q].kind = "label" =>
                            \A l \in tieAsk'[q].labels : ~Foreign(l, home')
    BY DEF ReadIsSo, Foreign
  <2>1. CASE q = r
    BY <1>1, <1>2, <2>1 DEF Underway
  <2>2. CASE q # r
    <3>1. ~Underway(q)'
      BY <1>2, <1>6, <2>2 DEF Underway
    <3> QED BY <3>1 DEF Underway
  <2> QED BY <2>1, <2>2
<1>9. TiesAreHome'
  BY <1>3 DEF TiesAreHome, MilestoneHome, LabelsHome, Foreign
<1> QED BY <1>4, <1>5, <1>7, <1>8, <1>9

\* A request that goes on or ends, alone unless requests overlapped.
LEMMA GoingKeeps ==
    ASSUME TieInv, NEW r \in TieRequest, Underway(r), NEW to \in {"checked", "done"},
           tieStep' = [tieStep EXCEPT ![r] = to], UNCHANGED slips,
           to = "checked" => UNCHANGED tieAsk /\ MilestoneFits(r)' /\ home' = home,
           to = "done" => tieAsk' = [tieAsk EXCEPT ![r] = [kind |-> "none"]],
           TiesTypeOK', TiesAreHome'
    PROVE  TieInv'
<1> USE DEF TieInv
<1>1. tieStep'[r] = to /\ \A q \in TieRequest \ {r} : tieStep'[q] = tieStep[q] /\ tieAsk'[q] = tieAsk[q]
  BY DEF TiesTypeOK, TieShapes
<1>2. TieShapes'
  BY <1>1 DEF TieShapes, Underway
<1>3. TieOrder'
  <2>1. ASSUME NEW q \in TieRequest, tieStep'[q] # "idle", NEW p \in 1..(q - 1) PROVE tieStep'[p] # "idle"
    <3>1. p \in TieRequest
      BY <2>1, TieAssumption DEF TieRequest
    <3> QED BY <1>1, <2>1, <3>1 DEF TieOrder, Underway
  <2>2. \A q \in TieRequest : Underway(q)' => Underway(q)
    BY <1>1 DEF Underway
  <2> QED BY <2>1, <2>2 DEF TieOrder, Underway
<1>4. ReadIsSo'
  <2> SUFFICES ASSUME "overlap" \notin slips, NEW q \in TieRequest, Underway(q)'
               PROVE  /\ tieAsk'[q].kind = "milestone" => tieAsk'[q].project = home'
                      /\ tieStep'[q] = "checked" => MilestoneFits(q)'
                      /\ slips' = {} /\ tieAsk'[q].kind = "label" =>
                            \A l \in tieAsk'[q].labels : ~Foreign(l, home')
    BY DEF ReadIsSo, Foreign, Underway
  <2>1. q = r
    BY <1>1 DEF TieOrder, Underway
  <2>2. to = "checked"
    BY <1>1, <2>1 DEF Underway
  <2> QED BY <2>1, <2>2 DEF ReadIsSo
<1> QED BY <1>2, <1>3, <1>4

\* The steps of UpdateCard and BulkUpdateCardLabels after the first, and Relocate.
LEMMA WritesKeep ==
    ASSUME TieInv, NEW r \in TieRequest,
           CheckMilestone(r) \/ WriteMilestone(r) \/ ReplaceLabels(r) \/ Relocate(r)
    PROVE  TieInv'
<1>1. CASE CheckMilestone(r) /\ MilestoneFits(r)
  <2>1. /\ Underway(r) /\ tieStep' = [tieStep EXCEPT ![r] = "checked"]
        /\ UNCHANGED <<tieTables, tieAsk, slips>>
    BY <1>1 DEF CheckMilestone, TieGoes, Underway
  <2>2. MilestoneFits(r)'
    BY <1>1, <2>1 DEF MilestoneFits, tieTables
  <2>3. TiesTypeOK' /\ TiesAreHome'
    BY <2>1 DEF TieInv, TiesTypeOK, TiesAreHome, MilestoneHome, LabelsHome, Foreign, tieTables
  <2> QED BY <2>1, <2>2, <2>3, GoingKeeps DEF tieTables
<1>2. CASE CheckMilestone(r) /\ ~MilestoneFits(r)
  <2>1. /\ Underway(r) /\ tieStep' = [tieStep EXCEPT ![r] = "done"]
        /\ tieAsk' = [tieAsk EXCEPT ![r] = [kind |-> "none"]]
        /\ UNCHANGED <<tieTables, slips>>
    BY <1>2 DEF CheckMilestone, TieGoes, Underway
  <2>2. TiesTypeOK' /\ TiesAreHome'
    BY <2>1 DEF TieInv, TiesTypeOK, TiesAreHome, MilestoneHome, LabelsHome, Foreign, tieTables
  <2> QED BY <2>1, <2>2, GoingKeeps
<1>3. CASE WriteMilestone(r)
  <2>1. /\ Underway(r) /\ tieStep[r] = "checked" /\ tieAsk[r].kind = "milestone"
        /\ tieStep' = [tieStep EXCEPT ![r] = "done"]
        /\ tieAsk' = [tieAsk EXCEPT ![r] = [kind |-> "none"]]
        /\ milestone' = tieAsk[r].milestone
        /\ UNCHANGED <<home, cardLabels, milestones, labels, slips>>
    BY <1>3 DEF WriteMilestone, TieGoes, Underway
  <2>2. TiesTypeOK'
    BY <2>1 DEF TieInv, TiesTypeOK, TieShapes
  <2>3. MilestoneHome'
    BY <2>1 DEF TieInv, ReadIsSo, MilestoneFits, MilestoneHome
  <2>4. LabelsHome'
    BY <2>1 DEF TieInv, TiesAreHome, LabelsHome, Foreign
  <2> QED BY <2>1, <2>2, <2>3, <2>4, GoingKeeps DEF TiesAreHome
<1>4. CASE ReplaceLabels(r)
  <2>1. /\ Underway(r) /\ tieAsk[r].kind = "label"
        /\ tieStep' = [tieStep EXCEPT ![r] = "done"]
        /\ tieAsk' = [tieAsk EXCEPT ![r] = [kind |-> "none"]]
        /\ cardLabels' = IF tieAsk[r].labels \subseteq labels THEN tieAsk[r].labels ELSE cardLabels
        /\ UNCHANGED <<home, milestone, milestones, labels, slips>>
    BY <1>4 DEF ReplaceLabels, TieGoes, Underway, LinkedLabels
  <2>2. TiesTypeOK'
    BY <2>1 DEF TieInv, TiesTypeOK
  <2>3. MilestoneHome'
    BY <2>1 DEF TieInv, TiesAreHome, MilestoneHome
  <2>4. LabelsHome'
    BY <2>1 DEF TieInv, ReadIsSo, TiesAreHome, LabelsHome, Foreign
  <2> QED BY <2>1, <2>2, <2>3, <2>4, GoingKeeps DEF TiesAreHome
<1>5. CASE Relocate(r)
  <2>1. /\ Underway(r) /\ tieAsk[r].kind = "transfer"
        /\ tieStep' = [tieStep EXCEPT ![r] = "done"]
        /\ tieAsk' = [tieAsk EXCEPT ![r] = [kind |-> "none"]]
        /\ home' = tieAsk[r].project /\ milestone' = NoMilestone
        /\ cardLabels' = {l \in cardLabels : ~Foreign(l, home')}
        /\ UNCHANGED <<milestones, labels, slips>>
    BY <1>5 DEF Relocate, TieGoes, Underway, KeptMilestone, KeptLabels
  <2>2. TiesTypeOK'
    BY <2>1 DEF TieInv, TiesTypeOK, TieShapes
  <2>3. TiesAreHome'
    BY <2>1 DEF TiesAreHome, MilestoneHome, LabelsHome, Foreign
  <2> QED BY <2>1, <2>2, <2>3, GoingKeeps
<1> QED BY <1>1, <1>2, <1>3, <1>4, <1>5

\* The requests that begin, and the deletions, which are one step.
LEMMA FirstStepsKeep ==
    ASSUME TieInv, NEW r \in TieRequest,
           ReadProject(r) \/ VerifyBoard(r) \/ ReadTarget(r) \/ DeleteMilestone(r) \/ DeleteLabel(r)
    PROVE  TieInv'
<1>1. cardLabels \subseteq labels
  BY DEF TieInv, TiesTypeOK
<1>2. CASE ReadProject(r)
  <2>0. PICK m \in Milestone \cup {NoMilestone} : \E wanted :
          /\ wanted = [kind |-> "milestone", milestone |-> m, project |-> home]
          /\ TieArrives(r, wanted) /\ tieStep' = [tieStep EXCEPT ![r] = "read"] /\ UNCHANGED tieTables
    BY <1>2 DEF ReadProject
  <2>1. PICK wanted :
          /\ wanted = [kind |-> "milestone", milestone |-> m, project |-> home]
          /\ TieArrives(r, wanted) /\ tieStep' = [tieStep EXCEPT ![r] = "read"] /\ UNCHANGED tieTables
    BY <2>0
  <2>2. wanted.kind = "milestone" /\ wanted.milestone = m /\ wanted.project = home
    BY <2>1
  <2> QED BY <1>1, <2>1, <2>2, ArrivingKeeps DEF tieTables
<1>3. CASE VerifyBoard(r)
  <2>0. PICK ls \in SUBSET Label : \E wanted :
          /\ wanted = [kind |-> "label", labels |-> ls]
          /\ TieArrives(r, wanted) /\ tieStep' = [tieStep EXCEPT ![r] = "read"] /\ UNCHANGED tieTables
    BY <1>3 DEF VerifyBoard
  <2>1. PICK wanted :
          /\ wanted = [kind |-> "label", labels |-> ls]
          /\ TieArrives(r, wanted) /\ tieStep' = [tieStep EXCEPT ![r] = "read"] /\ UNCHANGED tieTables
    BY <2>0
  <2>2. wanted.kind = "label"
    BY <2>1
  <2> QED BY <1>1, <2>1, <2>2, ArrivingKeeps DEF tieTables
<1>4. CASE ReadTarget(r)
  <2>0. PICK p \in TieProject : \E wanted :
          /\ wanted = [kind |-> "transfer", project |-> p]
          /\ TieArrives(r, wanted) /\ tieStep' = [tieStep EXCEPT ![r] = "read"] /\ UNCHANGED tieTables
    BY <1>4 DEF ReadTarget
  <2>1. PICK wanted :
          /\ wanted = [kind |-> "transfer", project |-> p]
          /\ TieArrives(r, wanted) /\ tieStep' = [tieStep EXCEPT ![r] = "read"] /\ UNCHANGED tieTables
    BY <2>0
  <2>2. wanted.kind = "transfer" /\ wanted.project = p
    BY <2>1
  <2> QED BY <1>1, <2>1, <2>2, ArrivingKeeps DEF tieTables
<1>5. CASE DeleteMilestone(r)
  <2>0. PICK m \in milestones : \E wanted :
          /\ wanted = [kind |-> "dropMilestone"] /\ TieArrives(r, wanted)
          /\ milestone' = IF milestone = m THEN NoMilestone ELSE milestone
          /\ milestones' = milestones \ {m}
          /\ tieStep' = [tieStep EXCEPT ![r] = "done"]
          /\ UNCHANGED <<home, cardLabels, labels>>
    BY <1>5 DEF DeleteMilestone, ClearedMilestone
  <2>1. PICK wanted :
          /\ wanted = [kind |-> "dropMilestone"] /\ TieArrives(r, wanted)
          /\ milestone' = IF milestone = m THEN NoMilestone ELSE milestone
          /\ milestones' = milestones \ {m}
          /\ tieStep' = [tieStep EXCEPT ![r] = "done"]
          /\ UNCHANGED <<home, cardLabels, labels>>
    BY <2>0
  <2>2. wanted.kind = "dropMilestone"
    BY <2>1
  <2>3. milestone' \in {milestone, NoMilestone} /\ (milestone' # NoMilestone /\ milestone \in milestones => milestone \in milestones')
    BY <2>1
  <2> QED BY <1>1, <2>1, <2>2, <2>3, ArrivingKeeps
<1>6. CASE DeleteLabel(r)
  <2>0. PICK l \in labels : \E wanted :
          /\ wanted = [kind |-> "dropLabel"] /\ TieArrives(r, wanted)
          /\ labels' = labels \ {l} /\ cardLabels' = cardLabels \ {l}
          /\ tieStep' = [tieStep EXCEPT ![r] = "done"]
          /\ UNCHANGED <<home, milestone, milestones>>
    BY <1>6 DEF DeleteLabel
  <2>1. PICK wanted :
          /\ wanted = [kind |-> "dropLabel"] /\ TieArrives(r, wanted)
          /\ labels' = labels \ {l} /\ cardLabels' = cardLabels \ {l}
          /\ tieStep' = [tieStep EXCEPT ![r] = "done"]
          /\ UNCHANGED <<home, milestone, milestones>>
    BY <2>0
  <2>2. wanted.kind = "dropLabel"
    BY <2>1
  <2>3. cardLabels' \subseteq labels' /\ labels' \subseteq labels /\ cardLabels' \subseteq cardLabels
    BY <1>1, <2>1
  <2> QED BY <2>1, <2>2, <2>3, ArrivingKeeps
<1> QED BY <1>2, <1>3, <1>4, <1>5, <1>6

\* Every request keeps the invariant.
LEMMA TieInvariant == TiesSpec => []TieInv
<1>1. TieInv /\ [TiesNext]_tieVars => TieInv'
  <2> SUFFICES ASSUME TieInv, [TiesNext]_tieVars PROVE TieInv'
    OBVIOUS
  <2>1. CASE UNCHANGED tieVars
    BY <2>1 DEF tieVars, tieTables, TieInv, TiesTypeOK, TieShapes, TieOrder, ReadIsSo, MilestoneFits, Foreign,
                TiesAreHome, MilestoneHome, LabelsHome, Underway
  <2>2. CASE TiesNext
    BY <2>2, FirstStepsKeep, WritesKeep DEF TiesNext
  <2> QED BY <2>1, <2>2
<1> QED BY <1>1, InitTieInv, PTL DEF TiesSpec

\* UpdateCard, BulkUpdateCardLabels, TransferCard, DeleteMilestone and DeleteLabel one after
\* the other: a card never keeps a milestone that is gone or of another project, nor a label
\* of another project that nobody asked for, though no constraint of the tables compares them.
THEOREM TiesHome == TiesSpec => []TiesAreHome
<1>1. TieInv => TiesAreHome
  BY DEF TieInv
<1> QED BY <1>1, TieInvariant, PTL

-----------------------------------------------------------------------------
\* Retries of a creating request under one idempotency key (Idempotency).

Busy(r) == idemStep[r] \in {"fresh", "committed"}

\* Keys are looked up in order, what is there is no edit, and who has not begun has no answer.
KeyOrder ==
    /\ \A r \in IdemRequest : idemStep[r] # "idle" => \A q \in 1..(r - 1) : idemStep[q] # "idle"
    /\ \A r \in there : family[r] # "edit"
    /\ \A r \in IdemRequest : idemStep[r] = "idle" => reply[r].kind = "none"
    /\ \A r \in IdemRequest : idemStep[r] = "committed" => r \in made

\* What the ghost rules out did not happen.
Unlapsed ==
    /\ "overlap" \notin lapses => \A q, r \in IdemRequest : Busy(q) /\ Busy(r) => q = r
    /\ "mixed" \notin lapses =>
          \A q, r \in IdemRequest : idemStep[q] # "idle" /\ idemStep[r] # "idle" => family[q] = family[r]
    /\ "lost" \notin lapses => \A r \in made : idemStep[r] = "done" => stored # NoThing
    /\ "deleted" \notin lapses => \A r \in made : family[r] # "edit" => r \in there

Lasting == {"card", "edit"}

\* Whoever is about to work finds nothing done under its key.
OneEffect ==
    /\ lapses = {} =>
         /\ \A q, r \in made : q = r
         /\ \A r \in IdemRequest : idemStep[r] = "fresh" => made = {}
    /\ lapses \subseteq {"deleted"} =>
         /\ \A q, r \in made : family[q] \in Lasting /\ family[r] \in Lasting => q = r
         /\ \A r \in IdemRequest : idemStep[r] = "fresh" /\ family[r] \in Lasting => made = {}

\* The answers that were given.
Vouched ==
    /\ \A r \in IdemRequest : reply[r].kind = "replay" => stored # NoThing
    /\ RetriesAgree /\ AnswersOwnFamily /\ ReplayVouches

IdemInv == IdemTypeOK /\ KeyOrder /\ Unlapsed /\ OneEffect /\ Vouched

\* No request has come, nothing is made and the key has no answer.
LEMMA InitIdemInv == IdemInit => IdemInv
<1> SUFFICES ASSUME IdemInit PROVE IdemInv
  OBVIOUS
<1>1. IdemTypeOK
  BY DEF IdemInit, IdemTypeOK, NoReply, NoThing, Family
<1>2. \A r \in IdemRequest : reply[r].kind = "none"
  BY DEF IdemInit, NoReply
<1> QED
  BY <1>1, <1>2 DEF IdemInit, IdemInv, KeyOrder, Unlapsed, OneEffect, Vouched, Busy,
                    RetriesAgree, AnswersOwnFamily, ReplayVouches

\* Requests are numbers, and nothing is none of them.
LEMMA NumbersOfRequests == IdemRequest \subseteq Nat /\ NoThing \notin IdemRequest
BY IdemAssumption DEF IdemRequest, NoThing

\* The lookup, when nothing had lapsed: the requests before this one asked for the same.
LEMMA LooksUpDoes ==
    ASSUME IdemInv, NEW r \in IdemRequest, NEW f \in Family, LooksUp(r, f)
    PROVE  /\ idemStep[r] = "idle" /\ r \notin made /\ stored # r
           /\ family' = [family EXCEPT ![r] = f]
           /\ lapses \subseteq lapses'
           /\ "deleted" \in lapses' => "deleted" \in lapses
           /\ "overlap" \notin lapses' => \A q \in IdemRequest : ~Busy(q)
           /\ "mixed" \notin lapses' => \A q \in IdemRequest : idemStep[q] # "idle" => family[q] = f
           /\ \A q \in IdemRequest : q # r => family'[q] = family[q]
           /\ family'[r] = f
<1>1. /\ idemStep[r] = "idle" /\ \A q \in 1..(r - 1) : idemStep[q] # "idle"
      /\ family' = [family EXCEPT ![r] = f]
      /\ lapses' = lapses
           \cup (IF \E q \in IdemRequest : idemStep[q] \in {"fresh", "committed"} THEN {"overlap"} ELSE {})
           \cup (IF \E q \in 1..(r - 1) : family[q] # f THEN {"mixed"} ELSE {})
  BY DEF LooksUp
<1>2. r \notin made /\ stored # r
  BY <1>1, NumbersOfRequests DEF IdemInv, IdemTypeOK
<1>3. "overlap" \notin lapses' => \A q \in IdemRequest : ~Busy(q)
  BY <1>1 DEF Busy
<1>4. ASSUME "mixed" \notin lapses', NEW q \in IdemRequest, idemStep[q] # "idle" PROVE family[q] = f
  <2>1. q # r /\ ~(q > r)
    BY <1>1, <1>4, NumbersOfRequests DEF IdemInv, KeyOrder, IdemRequest
  <2>2. q \in 1..(r - 1)
    BY <2>1, IdemAssumption DEF IdemRequest
  <2> QED BY <1>1, <1>4, <2>2
<1>5. lapses \subseteq lapses' /\ ("deleted" \in lapses' => "deleted" \in lapses)
  BY <1>1
<1>6. /\ \A q \in IdemRequest : q # r => family'[q] = family[q]
      /\ family'[r] = f
  BY <1>1 DEF IdemInv, IdemTypeOK
<1> QED BY <1>1, <1>2, <1>3, <1>4, <1>5, <1>6

\* Nothing lapsed and nothing to replay: nothing was made.
LEMMA NothingMade ==
    ASSUME IdemInv, NEW r \in IdemRequest, NEW f \in Family, LooksUp(r, f), ~Replays(f),
           \/ lapses' = {}
           \/ lapses' \subseteq {"deleted"} /\ f \in Lasting
    PROVE  made = {}
<1>1. /\ "overlap" \notin lapses' /\ "mixed" \notin lapses' /\ lapses \subseteq {"deleted"}
      /\ f \in Lasting \/ lapses = {}
  BY LooksUpDoes
<1>2. /\ \A q \in IdemRequest : ~Busy(q)
      /\ \A q \in IdemRequest : idemStep[q] # "idle" => family[q] = f
  BY <1>1, LooksUpDoes
<1>3. \A q \in made : q \in IdemRequest /\ idemStep[q] = "done" /\ family[q] = f
  BY <1>2 DEF IdemInv, IdemTypeOK, Busy
<1>4. made # {} => stored # NoThing
  BY <1>1, <1>3 DEF IdemInv, Unlapsed
<1>5. stored # NoThing => stored \in made /\ family[stored] = f
  BY <1>3 DEF IdemInv, IdemTypeOK
<1>6. stored # NoThing /\ f \notin Lasting => stored \in there
  BY <1>1, <1>5 DEF IdemInv, Unlapsed, Lasting
<1>7. stored # NoThing => Replays(f)
  BY <1>5, <1>6 DEF Replays, Recorded, StillThere, Lasting
<1> QED BY <1>4, <1>7

\* The lookup, whether it replays or starts afresh.
LEMMA LookUpKeeps ==
    ASSUME IdemInv, NEW r \in IdemRequest, LookUpReplay(r) \/ LookUpFresh(r)
    PROVE  IdemInv'
<1>1. PICK f \in Family, to \in {"fresh", "done"} :
        /\ LooksUp(r, f) /\ UNCHANGED <<made, there, stored>>
        /\ idemStep' = [idemStep EXCEPT ![r] = to]
        /\ to = "fresh" => ~Replays(f) /\ UNCHANGED reply
        /\ to = "done" => /\ Replays(f)
                          /\ IF f = "edit" \/ StillThere(f) THEN Answers(r, "replay", stored)
                             ELSE Answers(r, "notFound", NoThing)
  BY DEF LookUpReplay, LookUpFresh, idemTables
<1>2. /\ idemStep[r] = "idle" /\ r \notin made /\ stored # r
      /\ family' = [family EXCEPT ![r] = f]
      /\ lapses \subseteq lapses'
      /\ "deleted" \in lapses' => "deleted" \in lapses
      /\ "overlap" \notin lapses' => \A q \in IdemRequest : ~Busy(q)
      /\ "mixed" \notin lapses' => \A q \in IdemRequest : idemStep[q] # "idle" => family[q] = f
      /\ \A q \in IdemRequest : q # r => family'[q] = family[q]
      /\ family'[r] = f
  BY <1>1, LooksUpDoes
<1>3. /\ idemStep'[r] = to /\ \A q \in IdemRequest : q # r => idemStep'[q] = idemStep[q]
      /\ made \subseteq IdemRequest /\ there \subseteq made /\ stored \in made \cup {NoThing}
      /\ \A q \in made : idemStep[q] \in {"committed", "done"}
  BY <1>1 DEF IdemInv, IdemTypeOK
<1>4. PICK kind \in {"none", "replay", "notFound"}, of \in IdemRequest \cup {NoThing} :
        /\ reply' = [reply EXCEPT ![r] = [kind |-> kind, of |-> of]] \/ (UNCHANGED reply /\ to = "fresh")
        /\ to = "done" => reply' = [reply EXCEPT ![r] = [kind |-> kind, of |-> of]]
        /\ kind = "replay" => of = stored /\ Recorded(f) /\ (f = "edit" \/ StillThere(f))
        /\ kind = "notFound" => f = "card" /\ Recorded(f) /\ ~StillThere(f)
  <2>1. CASE to = "fresh"
    BY <1>1, <2>1
  <2>2. CASE to = "done" /\ (f = "edit" \/ StillThere(f))
    BY <1>1, <1>3, <2>2 DEF Answers, Replays
  <2>3. CASE to = "done" /\ ~(f = "edit" \/ StillThere(f))
    BY <1>1, <2>3 DEF Answers, Replays, Family
  <2> QED BY <2>1, <2>2, <2>3
<1>5. IdemTypeOK'
  BY <1>1, <1>2, <1>3, <1>4 DEF IdemInv, IdemTypeOK
<1>6. KeyOrder'
  <2>1. ASSUME NEW q \in IdemRequest, idemStep'[q] # "idle", NEW p \in 1..(q - 1) PROVE idemStep'[p] # "idle"
    <3>1. p \in IdemRequest
      BY <2>1, IdemAssumption DEF IdemRequest
    <3>2. idemStep[p] # "idle"
      BY <1>1, <1>3, <2>1, <3>1 DEF LooksUp, IdemInv, KeyOrder
    <3> QED BY <1>3, <3>1, <3>2
  <2>2. \A q \in there : family'[q] # "edit"
    BY <1>2, <1>3 DEF IdemInv, KeyOrder
  <2>3. \A q \in IdemRequest : idemStep'[q] = "idle" => reply'[q].kind = "none"
    BY <1>3, <1>4 DEF IdemInv, IdemTypeOK, KeyOrder
  <2>4. \A q \in IdemRequest : idemStep'[q] = "committed" => q \in made'
    BY <1>1, <1>3 DEF IdemInv, KeyOrder
  <2> QED BY <1>1, <2>1, <2>2, <2>3, <2>4 DEF KeyOrder
<1>7. Unlapsed'
  <2>1. "overlap" \notin lapses' => \A q, p \in IdemRequest : Busy(q)' /\ Busy(p)' => q = p
    BY <1>2, <1>3 DEF Busy
  <2>2. "mixed" \notin lapses' =>
          \A q, p \in IdemRequest : idemStep'[q] # "idle" /\ idemStep'[p] # "idle" => family'[q] = family'[p]
    BY <1>2, <1>3
  <2>3. "lost" \notin lapses' => \A q \in made' : idemStep'[q] = "done" => stored' # NoThing
    BY <1>1, <1>2, <1>3 DEF IdemInv, Unlapsed
  <2>4. "deleted" \notin lapses' => \A q \in made' : family'[q] # "edit" => q \in there'
    BY <1>1, <1>2, <1>3 DEF IdemInv, Unlapsed
  <2> QED BY <2>1, <2>2, <2>3, <2>4 DEF Unlapsed, Busy
<1>8. OneEffect'
  <2>1. ASSUME lapses' = {}
        PROVE  /\ \A q, p \in made' : q = p
               /\ \A q \in IdemRequest : idemStep'[q] = "fresh" => made' = {}
    <3>1. lapses = {}
      BY <1>2, <2>1
    <3>2. to = "fresh" => made = {}
      BY <1>1, <2>1, NothingMade
    <3> QED BY <1>1, <1>3, <3>1, <3>2 DEF IdemInv, OneEffect
  <2>2. ASSUME lapses' \subseteq {"deleted"}
        PROVE  /\ \A q, p \in made' : family'[q] \in Lasting /\ family'[p] \in Lasting => q = p
               /\ \A q \in IdemRequest : idemStep'[q] = "fresh" /\ family'[q] \in Lasting => made' = {}
    <3>1. lapses \subseteq {"deleted"}
      BY <1>2, <2>2
    <3>2. to = "fresh" /\ f \in Lasting => made = {}
      BY <1>1, <2>2, NothingMade
    <3>3. \A q \in made : q \in IdemRequest /\ family'[q] = family[q]
      BY <1>2, <1>3
    <3>4. \A q, p \in made' : family'[q] \in Lasting /\ family'[p] \in Lasting => q = p
      BY <1>1, <3>1, <3>3 DEF IdemInv, OneEffect
    <3>5. \A q \in IdemRequest : idemStep'[q] = "fresh" /\ family'[q] \in Lasting => made' = {}
      BY <1>1, <1>2, <1>3, <3>1, <3>2 DEF IdemInv, OneEffect
    <3> QED BY <3>4, <3>5
  <2> QED BY <2>1, <2>2 DEF OneEffect
<1>9. /\ \A q \in IdemRequest : q # r => reply'[q] = reply[q]
      /\ reply'[r] = reply[r] \/ reply'[r] = [kind |-> kind, of |-> of]
      /\ reply'[r] # reply[r] => reply'[r] = [kind |-> kind, of |-> of]
  BY <1>4 DEF IdemInv, IdemTypeOK
<1>10. Vouched'
  <2>1. \A q \in IdemRequest : reply'[q].kind = "replay" => stored' # NoThing
    BY <1>1, <1>4, <1>9 DEF IdemInv, Vouched, Recorded
  <2>2. RetriesAgree'
    BY <1>1, <1>4, <1>9 DEF IdemInv, Vouched, RetriesAgree
  <2>3. ASSUME NEW q \in IdemRequest, reply'[q].kind = "replay", family'[q] # "edit"
        PROVE  family'[reply'[q].of] = family'[q]
    <3>1. CASE q # r
      <4>1. reply[q].of = stored /\ stored # NoThing /\ family[stored] = family[q] /\ family'[q] = family[q]
        BY <1>2, <1>9, <2>3, <3>1 DEF IdemInv, Vouched, AnswersOwnFamily, RetriesAgree
      <4>2. family'[stored] = family[stored]
        BY <1>2, <1>3, <4>1
      <4> QED BY <1>9, <3>1, <4>1, <4>2
    <3>2. CASE q = r
      <4>1. reply[r].kind = "none"
        BY <1>2 DEF IdemInv, KeyOrder
      <4>2. reply'[r].of = stored /\ f # "edit" /\ stored \in there /\ family[stored] = f
        BY <1>2, <1>4, <1>9, <2>3, <3>2, <4>1 DEF StillThere
      <4>3. family'[stored] = family[stored]
        BY <1>2, <1>3, <4>2
      <4> QED BY <1>2, <3>2, <4>2, <4>3
    <3> QED BY <3>1, <3>2
  <2>4. ReplayVouches'
    BY <1>1, <1>2, <1>3, <1>4, <1>9 DEF IdemInv, Vouched, ReplayVouches, Recorded, StillThere, Unlapsed
  <2> QED BY <2>1, <2>2, <2>3, <2>4 DEF Vouched, AnswersOwnFamily
<1> QED BY <1>5, <1>6, <1>7, <1>8, <1>10 DEF IdemInv

\* A request that ends with its own answer, or with none.
LEMMA EndingKeeps ==
    ASSUME IdemInv, NEW r \in IdemRequest, Busy(r), UNCHANGED <<made, there, family>>,
           idemStep' = [idemStep EXCEPT ![r] = "done"],
           NEW kind \in {"own", "conflict", "error"}, NEW of \in IdemRequest \cup {NoThing}, Answers(r, kind, of),
           stored' = stored \/ (stored = NoThing /\ stored' = r /\ r \in made),
           lapses' = lapses \/ lapses' = lapses \cup {"lost"},
           r \in made /\ "lost" \notin lapses' => stored' # NoThing
    PROVE  IdemInv'
<1>1. /\ idemStep'[r] = "done" /\ \A q \in IdemRequest : q # r => idemStep'[q] = idemStep[q]
      /\ made \subseteq IdemRequest /\ there \subseteq made /\ stored \in made \cup {NoThing}
      /\ \A q \in made : idemStep[q] \in {"committed", "done"}
      /\ reply' = [reply EXCEPT ![r] = [kind |-> kind, of |-> of]]
      /\ lapses \subseteq lapses'
  BY DEF IdemInv, IdemTypeOK, Answers
<1>2. /\ reply'[r].kind = kind /\ \A q \in IdemRequest : q # r => reply'[q] = reply[q]
  BY <1>1 DEF IdemInv, IdemTypeOK
<1>3. IdemTypeOK'
  BY <1>1 DEF IdemInv, IdemTypeOK
<1>4. KeyOrder'
  <2>1. ASSUME NEW q \in IdemRequest, idemStep'[q] # "idle", NEW p \in 1..(q - 1) PROVE idemStep'[p] # "idle"
    <3>1. p \in IdemRequest
      BY <2>1, IdemAssumption DEF IdemRequest
    <3>2. idemStep[q] # "idle"
      BY <1>1, <2>1 DEF Busy
    <3>3. idemStep[p] # "idle"
      BY <2>1, <3>1, <3>2 DEF IdemInv, KeyOrder
    <3> QED BY <1>1, <3>1, <3>3
  <2>2. \A q \in IdemRequest : idemStep'[q] = "idle" => reply'[q].kind = "none"
    BY <1>1, <1>2 DEF IdemInv, KeyOrder
  <2> QED BY <2>1, <2>2 DEF IdemInv, KeyOrder
<1>5. Unlapsed'
  <2>1. "overlap" \notin lapses' => \A q, p \in IdemRequest : Busy(q)' /\ Busy(p)' => q = p
    BY <1>1 DEF IdemInv, Unlapsed, Busy
  <2>2. "mixed" \notin lapses' =>
          \A q, p \in IdemRequest : idemStep'[q] # "idle" /\ idemStep'[p] # "idle" => family'[q] = family'[p]
    BY <1>1 DEF IdemInv, Unlapsed, Busy
  <2>3. "lost" \notin lapses' => \A q \in made' : idemStep'[q] = "done" => stored' # NoThing
    BY <1>1, NumbersOfRequests DEF IdemInv, Unlapsed
  <2>4. "deleted" \notin lapses' => \A q \in made' : family'[q] # "edit" => q \in there'
    BY <1>1 DEF IdemInv, Unlapsed
  <2> QED BY <2>1, <2>2, <2>3, <2>4 DEF Unlapsed, Busy
<1>6. OneEffect'
  BY <1>1 DEF IdemInv, OneEffect
<1>7. Vouched'
  <2>1. \A q \in IdemRequest : reply'[q].kind = "replay" =>
           q # r /\ reply[q].kind = "replay" /\ reply'[q].of = stored /\ stored' = stored /\ stored # NoThing
    BY <1>2 DEF IdemInv, Vouched, RetriesAgree
  <2>2. \A q \in IdemRequest : reply'[q].kind = "notFound" => reply[q].kind = "notFound"
    BY <1>2
  <2>3. RetriesAgree' /\ \A q \in IdemRequest : reply'[q].kind = "replay" => stored' # NoThing
    BY <2>1 DEF RetriesAgree
  <2>4. AnswersOwnFamily'
    BY <1>2, <2>1 DEF IdemInv, Vouched, AnswersOwnFamily
  <2>5. ReplayVouches'
    BY <1>1, <1>2, <2>1, <2>2 DEF IdemInv, Vouched, ReplayVouches
  <2> QED BY <2>3, <2>4, <2>5 DEF Vouched
<1> QED BY <1>3, <1>4, <1>5, <1>6, <1>7 DEF IdemInv

\* The transaction: whoever is alone in it has found nothing made.
LEMMA ThingMadeKeeps == ASSUME IdemInv, NEW r \in IdemRequest, CommitThing(r) PROVE IdemInv'
<1>1. /\ idemStep[r] = "fresh" /\ made' = made \cup {r}
      /\ there' = IF family[r] = "edit" THEN there ELSE there \cup {r}
      /\ idemStep' = [idemStep EXCEPT ![r] = "committed"]
      /\ UNCHANGED <<stored, family, reply, lapses>>
  BY DEF CommitThing
<1>2. /\ idemStep'[r] = "committed" /\ \A q \in IdemRequest : q # r => idemStep'[q] = idemStep[q]
      /\ made \subseteq IdemRequest /\ there \subseteq made
  BY <1>1 DEF IdemInv, IdemTypeOK
<1>3. IdemTypeOK'
  BY <1>1, <1>2 DEF IdemInv, IdemTypeOK
<1>4. KeyOrder'
  <2>1. ASSUME NEW q \in IdemRequest, idemStep'[q] # "idle", NEW p \in 1..(q - 1) PROVE idemStep'[p] # "idle"
    <3>1. p \in IdemRequest
      BY <2>1, IdemAssumption DEF IdemRequest
    <3>2. idemStep[q] # "idle"
      BY <1>1, <1>2, <2>1
    <3>3. idemStep[p] # "idle"
      BY <2>1, <3>1, <3>2 DEF IdemInv, KeyOrder
    <3> QED BY <1>2, <3>1, <3>3
  <2>2. \A q \in IdemRequest : idemStep'[q] = "idle" => reply'[q].kind = "none"
    BY <1>1, <1>2 DEF IdemInv, KeyOrder
  <2>3. \A q \in there' : family'[q] # "edit"
    BY <1>1 DEF IdemInv, KeyOrder
  <2>4. \A q \in IdemRequest : idemStep'[q] = "committed" => q \in made'
    BY <1>1, <1>2 DEF IdemInv, KeyOrder
  <2> QED BY <2>1, <2>2, <2>3, <2>4 DEF KeyOrder
<1>5. Unlapsed'
  <2>1. "overlap" \notin lapses' => \A q, p \in IdemRequest : Busy(q)' /\ Busy(p)' => q = p
    BY <1>1, <1>2 DEF IdemInv, Unlapsed, Busy
  <2>2. "mixed" \notin lapses' =>
          \A q, p \in IdemRequest : idemStep'[q] # "idle" /\ idemStep'[p] # "idle" => family'[q] = family'[p]
    BY <1>1, <1>2 DEF IdemInv, Unlapsed
  <2>3. "lost" \notin lapses' => \A q \in made' : idemStep'[q] = "done" => stored' # NoThing
    BY <1>1, <1>2 DEF IdemInv, Unlapsed
  <2>4. "deleted" \notin lapses' => \A q \in made' : family'[q] # "edit" => q \in there'
    BY <1>1 DEF IdemInv, Unlapsed
  <2> QED BY <2>1, <2>2, <2>3, <2>4 DEF Unlapsed, Busy
<1>6. OneEffect'
  <2>1. lapses = {} => made = {} /\ \A q \in IdemRequest : idemStep'[q] # "fresh"
    BY <1>1, <1>2 DEF IdemInv, OneEffect, Unlapsed, Busy
  <2>2. lapses \subseteq {"deleted"} => \A q \in IdemRequest : idemStep'[q] # "fresh"
    BY <1>1, <1>2 DEF IdemInv, Unlapsed, Busy
  <2>3. lapses \subseteq {"deleted"} /\ family[r] \in Lasting => made = {}
    BY <1>1 DEF IdemInv, OneEffect
  <2> QED BY <1>1, <2>1, <2>2, <2>3 DEF IdemInv, OneEffect
<1>7. Vouched'
  BY <1>1, <1>2 DEF IdemInv, Vouched, RetriesAgree, AnswersOwnFamily, ReplayVouches
<1> QED BY <1>3, <1>4, <1>5, <1>6, <1>7 DEF IdemInv

\* Somebody deletes what was made.
LEMMA ThingGoneKeeps == ASSUME IdemInv, NEW r \in IdemRequest, DeleteThing(r) PROVE IdemInv'
<1>1. /\ there' = there \ {r} /\ lapses' = lapses \cup {"deleted"}
      /\ UNCHANGED <<made, stored, idemStep, family, reply>>
  BY DEF DeleteThing
<1>2. IdemTypeOK' /\ KeyOrder'
  BY <1>1 DEF IdemInv, IdemTypeOK, KeyOrder
<1>3. Unlapsed'
  BY <1>1 DEF IdemInv, Unlapsed, Busy
<1>4. OneEffect'
  BY <1>1 DEF IdemInv, OneEffect
<1>5. Vouched'
  BY <1>1 DEF IdemInv, Vouched, RetriesAgree, AnswersOwnFamily, ReplayVouches
<1> QED BY <1>2, <1>3, <1>4, <1>5 DEF IdemInv

\* Every step keeps the invariant.
LEMMA NextIdemInv == IdemInv /\ [IdemNext]_idemVars => IdemInv'
<1> SUFFICES ASSUME IdemInv, [IdemNext]_idemVars PROVE IdemInv'
  OBVIOUS
<1>1. CASE UNCHANGED idemVars
  BY <1>1 DEF idemVars, idemTables, IdemInv, IdemTypeOK, KeyOrder, Unlapsed, Busy, OneEffect, Vouched,
              RetriesAgree, AnswersOwnFamily, ReplayVouches
<1>2. ASSUME NEW r \in IdemRequest, RefuseBoard(r) \/ FailEarly(r) PROVE IdemInv'
  <2>1. PICK kind \in {"conflict", "error"} : Answers(r, kind, NoThing)
    BY <1>2 DEF RefuseBoard, FailEarly
  <2>2. /\ idemStep[r] = "fresh" /\ idemStep' = [idemStep EXCEPT ![r] = "done"]
        /\ UNCHANGED <<made, there, stored, family, lapses>>
    BY <1>2 DEF RefuseBoard, FailEarly, idemTables
  <2>3. r \notin made
    BY <2>2 DEF IdemInv, IdemTypeOK
  <2> QED BY <2>1, <2>2, <2>3, EndingKeeps DEF Busy
<1>3. ASSUME NEW r \in IdemRequest, KeepKey(r) PROVE IdemInv'
  <2>1. /\ idemStep[r] = "committed" /\ idemStep' = [idemStep EXCEPT ![r] = "done"]
        /\ Answers(r, "own", r) /\ stored' = IF stored = NoThing THEN r ELSE stored
        /\ UNCHANGED <<made, there, family, lapses>>
    BY <1>3 DEF KeepKey, KeptAnswer
  <2>2. r \in made
    BY <2>1 DEF IdemInv, KeyOrder
  <2> QED BY <2>1, <2>2, NumbersOfRequests, EndingKeeps DEF Busy
<1>4. ASSUME NEW r \in IdemRequest, LoseKey(r) PROVE IdemInv'
  <2>1. /\ idemStep[r] = "committed" /\ idemStep' = [idemStep EXCEPT ![r] = "done"]
        /\ Answers(r, "own", r) /\ lapses' = lapses \cup {"lost"}
        /\ UNCHANGED <<made, there, stored, family>>
    BY <1>4 DEF LoseKey, idemTables
  <2> QED BY <2>1, EndingKeeps DEF Busy
<1> QED
  BY <1>1, <1>2, <1>3, <1>4, LookUpKeeps, ThingMadeKeeps, ThingGoneKeeps DEF IdemNext

\* A set without two members is of one at most.
LEMMA AtMostOne == ASSUME NEW S, \A x, y \in S : x = y PROVE Cardinality(S) <= 1
<1>1. CASE S = {}
  BY <1>1, FS_EmptySet
<1>2. CASE S # {}
  <2>1. PICK x : S = {x}
    BY <1>2
  <2>2. Cardinality({x}) = 1
    BY FS_Singleton
  <2> QED BY <2>1, <2>2
<1> QED BY <1>1, <1>2

\* check_idempotency and store_idempotency: a request that is tried again with its key, one try
\* after the other and every key stored, has one effect; however tries overlap, keys are shared
\* or things are deleted, a replay answers with the one stored thing, of its own kind, that was
\* committed.
THEOREM RetriesSafe == IdemSpec => []RetriesAreSafe
<1>1. IdemInv => RetriesAreSafe
  <2> SUFFICES ASSUME IdemInv PROVE RetriesAreSafe
    OBVIOUS
  <2>1. lapses = {} => Cardinality(made) <= 1
    BY AtMostOne DEF IdemInv, OneEffect
  <2>2. ASSUME lapses \subseteq {"deleted"}
        PROVE  Cardinality({r \in made : family[r] \in {"card", "edit"}}) <= 1
    <3>1. \A x, y \in {r \in made : family[r] \in {"card", "edit"}} : x = y
      BY <2>2 DEF IdemInv, OneEffect, Lasting
    <3> QED BY <3>1, AtMostOne
  <2> QED BY <2>1, <2>2 DEF IdemInv, Vouched, RetriesAreSafe, RetryAppliedOnce
<1> QED BY <1>1, InitIdemInv, NextIdemInv, PTL DEF IdemSpec

-----------------------------------------------------------------------------
(***************************************************************************)
(* BoardSnapshot: what a client that resumes does not miss.                *)
(***************************************************************************)

SnapTypes ==
    /\ col \in [Card -> Place] /\ snap \in [Card -> Place]
    /\ elsewhere \subseteq Card /\ arrived \subseteq Card /\ todo \subseteq Card
    /\ snapLog \in Seq(SnapEvent)
    /\ reading \in -1..(Columns + 1)
    /\ boundary \in Nat /\ boundary <= Len(snapLog)
    /\ \A c \in elsewhere : col[c] = Off
    /\ \A c \in arrived : col[c] \in Column

\* What the read has of a card that stands still: nothing of a column ahead, its id or
\* its row of the column being read, its row of a column behind.
IsReadSoFar(c) ==
    /\ c \in todo => col[c] = reading
    /\ snap[c] = Off \/ snap[c] = col[c]
    /\ col[c] \in 1..(reading - 1) => snap[c] = col[c]
    /\ col[c] = reading => c \in todo \/ snap[c] = col[c]

ReadSoFar ==
    reading \in 1..(Columns + 1) =>
        \A c \in Card \ arrived : ~Announced(c) => IsReadSoFar(c)

NothingYet == reading = 0 => \A c \in Card : snap[c] = Off

SnapInv == SnapTypes /\ ReadSoFar /\ NothingYet

\* A commit on the board adds its event behind the boundary of any snapshot.
LEMMA CommitAnnounces ==
    ASSUME SnapInv, NEW kind \in {"created", "moved", "deleted"}, NEW c \in Card, Insert(kind, c),
           boundary' = boundary
    PROVE  /\ snapLog' \in Seq(SnapEvent) /\ boundary' <= Len(snapLog')
           /\ Announced(c)'
           /\ \A d \in Card : Announced(d) => Announced(d)'
<1>1. PICK e : e = [kind |-> kind, card |-> c] /\ snapLog' = Append(snapLog, e)
  BY DEF Insert
<1>2. e \in SnapEvent /\ e.card = c
  BY <1>1 DEF SnapEvent
<1>3. snapLog \in Seq(SnapEvent) /\ boundary \in Nat /\ boundary <= Len(snapLog)
  BY DEF SnapInv, SnapTypes
<1>4. /\ snapLog' \in Seq(SnapEvent) /\ Len(snapLog') = Len(snapLog) + 1 /\ snapLog'[Len(snapLog) + 1] = e
      /\ \A i \in 1..Len(snapLog) : snapLog'[i] = snapLog[i]
      /\ DOMAIN snapLog = 1..Len(snapLog) /\ DOMAIN snapLog' = 1..(Len(snapLog) + 1)
  BY <1>1, <1>2, <1>3
<1>5. boundary' <= Len(snapLog')
  BY <1>3, <1>4
<1>6. Announced(c)'
  <2>1. Len(snapLog) + 1 \in DOMAIN snapLog' /\ Len(snapLog) + 1 > boundary'
    BY <1>3, <1>4
  <2> QED BY <1>2, <1>4, <2>1 DEF Announced
<1>7. ASSUME NEW d \in Card, Announced(d) PROVE Announced(d)'
  <2>1. PICK i \in 1..Len(snapLog) : i > boundary /\ snapLog[i].card = d
    BY <1>4, <1>7 DEF Announced
  <2>2. i \in DOMAIN snapLog' /\ snapLog'[i].card = d
    BY <1>3, <1>4, <2>1
  <2> QED BY <2>1, <2>2 DEF Announced
<1> QED BY <1>4, <1>5, <1>6, <1>7

\* A handler changes one card, and announces it or lets it arrive; the read does not move.
LEMMA HandlerKeeps ==
    ASSUME SnapInv, NEW c \in Card, NEW k \in Place, col' = [col EXCEPT ![c] = k],
           UNCHANGED <<reading, todo, boundary, snap>>,
           elsewhere' \subseteq Card, arrived' \subseteq Card,
           \A d \in Card : d # c => (d \in elsewhere' <=> d \in elsewhere) /\ (d \in arrived' <=> d \in arrived),
           c \in elsewhere' => k = Off, c \in arrived' => k \in Column,
           \/ c \in arrived' /\ UNCHANGED snapLog
           \/ \E kind \in {"created", "moved", "deleted"} : Insert(kind, c)
    PROVE  SnapInv'
<1>1. /\ snapLog' \in Seq(SnapEvent) /\ boundary' <= Len(snapLog')
      /\ c \in arrived' \/ Announced(c)'
      /\ \A d \in Card : Announced(d) => Announced(d)'
  <2>1. CASE c \in arrived' /\ UNCHANGED snapLog
    BY <2>1 DEF SnapInv, SnapTypes, Announced
  <2>2. CASE \E kind \in {"created", "moved", "deleted"} : Insert(kind, c)
    BY <2>2, CommitAnnounces
  <2> QED BY <2>1, <2>2
<1>2. \A d \in Card : d # c => col'[d] = col[d]
  BY DEF SnapInv, SnapTypes
<1>3. SnapTypes'
  <2>1. col' \in [Card -> Place] /\ col'[c] = k
    BY DEF SnapInv, SnapTypes
  <2>2. \A d \in elsewhere' : col'[d] = Off
    BY <1>2, <2>1 DEF SnapInv, SnapTypes
  <2>3. \A d \in arrived' : col'[d] \in Column
    BY <1>2, <2>1 DEF SnapInv, SnapTypes
  <2> QED BY <1>1, <2>1, <2>2, <2>3 DEF SnapInv, SnapTypes
<1>4. ReadSoFar'
  <2> SUFFICES ASSUME reading' \in 1..(Columns + 1), NEW d \in Card \ arrived', ~Announced(d)'
               PROVE  IsReadSoFar(d)'
    BY DEF ReadSoFar
  <2>1. d # c /\ d \in Card \ arrived /\ ~Announced(d)
    BY <1>1
  <2>2. IsReadSoFar(d)
    BY <2>1 DEF SnapInv, ReadSoFar
  <2> QED BY <1>2, <2>1, <2>2 DEF IsReadSoFar
<1>5. NothingYet'
  BY DEF SnapInv, NothingYet
<1> QED BY <1>3, <1>4, <1>5 DEF SnapInv

\* MoveCard, MoveAway, MoveHere, CreateCard and DeleteCard.
LEMMA HandlersKeep ==
    ASSUME SnapInv, NEW c \in Card, NEW k \in Column,
           CreateCard(c, k) \/ MoveCard(c, k) \/ MoveHere(c, k) \/ MoveAway(c) \/ DeleteCard(c)
    PROVE  SnapInv'
<1>0. k \in Place /\ Off \in Place /\ Off \notin Column /\ Column \subseteq Place
  BY SnapshotAssumption DEF Place, Off, Column
<1>1. CASE CreateCard(c, k)
  <2>1. c \notin arrived
    BY <1>0, <1>1 DEF CreateCard, SnapInv, SnapTypes
  <2> QED BY <1>0, <1>1, <2>1, HandlerKeeps DEF CreateCard, SnapInv, SnapTypes
<1>2. CASE MoveCard(c, k)
  <2>1. c \notin elsewhere
    BY <1>0, <1>2 DEF MoveCard, SnapInv, SnapTypes
  <2> QED BY <1>0, <1>2, <2>1, HandlerKeeps DEF MoveCard, SnapInv, SnapTypes
<1>3. CASE MoveHere(c, k)
  BY <1>0, <1>3, HandlerKeeps DEF MoveHere, SnapInv, SnapTypes
<1>4. CASE MoveAway(c)
  BY <1>0, <1>4, HandlerKeeps DEF MoveAway, SnapInv, SnapTypes
<1>5. CASE DeleteCard(c)
  BY <1>0, <1>5, HandlerKeeps DEF DeleteCard, SnapInv, SnapTypes
<1> QED BY <1>1, <1>2, <1>3, <1>4, <1>5

\* The reads of the snapshot.
LEMMA SnapshotKeeps ==
    ASSUME SnapInv, ReadBoundary \/ FinishColumn \/ \E c \in Card : FetchCard(c)
    PROVE  SnapInv'
<1>0. UNCHANGED <<col, elsewhere, arrived, snapLog>>
  BY DEF ReadBoundary, FinishColumn, FetchCard
<1>1. Columns \in Nat \ {0} /\ Column = 1..Columns /\ reading \in -1..(Columns + 1)
  BY SnapshotAssumption DEF Column, SnapInv, SnapTypes
<1>2. \A c \in Card : col[c] \in 0..Columns /\ snap[c] \in 0..Columns
  BY <1>1 DEF SnapInv, SnapTypes, Place, Off
<1>3. CASE ReadBoundary
  <2>1. reading = 0 /\ reading' = 1 /\ boundary' = Len(snapLog) /\ todo' = In(1) /\ snap' = snap
    BY <1>3 DEF ReadBoundary
  <2>2. Len(snapLog) \in Nat
    BY DEF SnapInv, SnapTypes
  <2>3. SnapTypes'
    BY <1>0, <1>1, <2>1, <2>2 DEF SnapInv, SnapTypes, In
  <2>4. ReadSoFar' /\ NothingYet'
    BY <1>0, <1>2, <2>1 DEF SnapInv, NothingYet, ReadSoFar, IsReadSoFar, In
  <2> QED BY <2>3, <2>4 DEF SnapInv
<1>4. CASE FinishColumn
  <2>1. /\ reading \in 1..Columns /\ todo = {} /\ reading' = reading + 1 /\ boundary' = boundary /\ snap' = snap
        /\ todo' = IF reading < Columns THEN In(reading + 1) ELSE {}
    BY <1>1, <1>4 DEF FinishColumn
  <2>2. SnapTypes'
    BY <1>0, <1>1, <2>1 DEF SnapInv, SnapTypes, In
  <2>3. ReadSoFar'
    <3> SUFFICES ASSUME NEW d \in Card \ arrived, ~Announced(d) PROVE IsReadSoFar(d)'
      BY <1>0, <2>1 DEF ReadSoFar, Announced
    <3>1. IsReadSoFar(d)
      BY <1>1, <2>1 DEF SnapInv, ReadSoFar
    <3>2. d \in todo' => col[d] = reading + 1
      BY <2>1 DEF In
    <3>3. col[d] = reading + 1 => d \in todo'
      BY <1>1, <1>2, <2>1 DEF In
    <3>4. col[d] \in 1..reading => snap[d] = col[d]
      BY <1>1, <1>2, <2>1, <3>1 DEF IsReadSoFar
    <3> QED BY <1>0, <1>1, <1>2, <2>1, <3>1, <3>2, <3>3, <3>4 DEF IsReadSoFar
  <2>4. NothingYet'
    BY <1>1, <2>1 DEF NothingYet
  <2> QED BY <2>2, <2>3, <2>4 DEF SnapInv
<1>5. ASSUME NEW c \in Card, FetchCard(c) PROVE SnapInv'
  <2>1. reading \in 1..Columns /\ c \in todo /\ boundary' = boundary
    BY <1>1, <1>5 DEF FetchCard
  <2>2. CASE col[c] = Off /\ c \notin elsewhere
    <3>1. reading' = -1 /\ todo' = {} /\ snap' = snap
      BY <1>5, <2>2 DEF FetchCard
    <3> QED BY <1>0, <1>1, <2>1, <3>1 DEF SnapInv, SnapTypes, ReadSoFar, NothingYet
  <2>3. CASE ~(col[c] = Off /\ c \notin elsewhere)
    <3>1. todo' = todo \ {c} /\ snap' = [snap EXCEPT ![c] = col[c]] /\ reading' = reading
      BY <1>5, <2>3 DEF FetchCard
    <3>2. snap' \in [Card -> Place] /\ snap'[c] = col[c] /\ \A d \in Card : d # c => snap'[d] = snap[d]
      BY <3>1 DEF SnapInv, SnapTypes
    <3>3. SnapTypes'
      BY <1>0, <2>1, <3>1, <3>2 DEF SnapInv, SnapTypes
    <3>4. ReadSoFar'
      <4> SUFFICES ASSUME NEW d \in Card \ arrived, ~Announced(d) PROVE IsReadSoFar(d)'
        BY <1>0, <2>1 DEF ReadSoFar, Announced
      <4>1. IsReadSoFar(d)
        BY <1>1, <2>1 DEF SnapInv, ReadSoFar
      <4> QED BY <1>0, <2>1, <3>1, <3>2, <4>1 DEF IsReadSoFar
    <3>5. NothingYet'
      BY <1>1, <2>1, <3>1 DEF NothingYet
    <3> QED BY <3>3, <3>4, <3>5 DEF SnapInv
  <2> QED BY <2>2, <2>3
<1> QED BY <1>3, <1>4, <1>5

\* Every commit and every query of the snapshot keeps the invariant.
LEMMA SnapInvariant == SnapSpec => []SnapInv
<1>1. SnapInit => SnapInv
  <2> SUFFICES ASSUME SnapInit PROVE SnapInv
    OBVIOUS
  <2>1. /\ <<>> \in Seq(SnapEvent) /\ Len(<<>>) = 0 /\ 0 \in -1..(Columns + 1) /\ Off \in Place
    BY SnapshotAssumption DEF Place
  <2>2. SnapTypes
    BY <2>1 DEF SnapInit, SnapTypes
  <2>3. ReadSoFar /\ NothingYet
    BY SnapshotAssumption DEF SnapInit, ReadSoFar, NothingYet
  <2> QED BY <2>2, <2>3 DEF SnapInv
<1>2. SnapInv /\ [SnapNext]_snapVars => SnapInv'
  <2> SUFFICES ASSUME SnapInv, [SnapNext]_snapVars PROVE SnapInv'
    OBVIOUS
  <2>1. CASE UNCHANGED snapVars
    BY <2>1 DEF SnapInv, SnapTypes, ReadSoFar, IsReadSoFar, Announced, NothingYet, snapVars
  <2>2. CASE SnapNext
    <3>1. 1 \in Column
      BY SnapshotAssumption DEF Column
    <3> QED BY <2>2, <3>1, HandlersKeep, SnapshotKeeps DEF SnapNext
  <2> QED BY <2>1, <2>2
<1> QED BY <1>1, <1>2, PTL DEF SnapSpec

\* What a finished snapshot shows wrongly has its event behind the boundary, unless the
\* card arrived from another board while it was read.
THEOREM SnapshotMisses == SnapSpec => []MissesOnlyArrivals
<1>1. SnapInv => MissesOnlyArrivals
  <2> SUFFICES ASSUME SnapInv, Done, NEW c \in Card \ arrived, ~Announced(c) PROVE snap[c] = col[c]
    BY DEF MissesOnlyArrivals
  <2>1. IsReadSoFar(c)
    BY SnapshotAssumption DEF Done, SnapInv, ReadSoFar
  <2>2. col[c] \in 0..Columns
    BY SnapshotAssumption DEF SnapInv, SnapTypes, Place, Off, Column
  <2>3. col[c] = 0 \/ col[c] \in 1..(reading - 1)
    BY <2>2, SnapshotAssumption DEF Done
  <2> QED BY <2>1, <2>3 DEF IsReadSoFar, Off
<1> QED BY <1>1, SnapInvariant, PTL

-----------------------------------------------------------------------------
(***************************************************************************)
(* CardParts: labels, assignees, checklist, comments, dependencies.        *)
(***************************************************************************)
\* The events of a card that change it.
Changes(c) == {e \in said : e.card = c /\ e.change}

PartRow == [board : PartBoard \cup {NoPartBoard}, rev : Nat]

PartAnswer == [card : PartCard \cup {NoCard}, rev : Nat, parts : [Part -> Nat], lost : SUBSET Part]

UnderWay(r) == step[r] \notin {"idle", "done"}

StampsPast == \A c \in PartCard, p \in Part : stamp[c][p] <= cardRow[c].rev

\* The tables and the requests, and what a handler knows of the arguments of its
\* request.
PartShapes ==
    /\ cardRow \in [PartCard -> PartRow] /\ stamp \in [PartCard -> [Part -> Nat]]
    /\ StampsPast
    /\ step \in [PartRequest -> {"idle", "read", "saved", "row", "done"}]
    /\ ask = [r \in PartRequest |-> ask[r]]
    /\ read \in [PartRequest -> [PartCard -> PartRow]]
    /\ answer \in [PartRequest -> PartAnswer]
    /\ mayOverlap \in BOOLEAN
    /\ \A r \in PartRequest : UnderWay(r) => ask[r].card \in PartCard
    /\ \A r \in PartRequest : step[r] = "read" =>
         /\ ask[r].kind \in {"depend", "undepend"} => ask[r].on \in PartCard /\ ask[r].on # ask[r].card
         /\ ask[r].kind = "label" => ask[r].also \in PartCard
         /\ ask[r].kind = "addItem" => ask[r].item \in Item /\ ask[r].pos \in Nat
         /\ ask[r].kind = "move" => ask[r].to \in PartBoard

\* An event has a revision its card has had.
EventsPast ==
    \A e \in said : /\ e.card \in PartCard /\ e.rev \in Nat /\ e.rev <= cardRow[e.card].rev
                    /\ e.change \in BOOLEAN /\ IsFiniteSet(Changes(e.card))

\* What a handler has read of a card that is there still is older, or still so.
ReadsAgree ==
    \A r \in PartRequest, c \in PartCard : (step[r] = "read" /\ There(c)) =>
        /\ read[r][c].rev <= cardRow[c].rev
        /\ read[r][c].rev = cardRow[c].rev => read[r][c].board = cardRow[c].board

\* A request that is alone still sees what it has read.
AloneSeesAll ==
    ~mayOverlap => \A r \in PartRequest :
        /\ UnderWay(r) => \A q \in PartRequest : UnderWay(q) => q = r
        /\ step[r] = "read" => read[r] = cardRow

\* A part of a card is as new as what was announced of it.
PartsStamped ==
    \A e \in said : (e.change /\ e.part \in Part /\ There(e.card)) => e.rev <= stamp[e.card][e.part]

\* A reply is built once, of a card whose revision it had read before its parts.
AnswersPast ==
    \A r \in PartRequest :
        /\ answer[r].card \in PartCard => answer[r].rev <= cardRow[answer[r].card].rev
        /\ step[r] = "row" => answer[r].card = ask[r].card
        /\ step[r] \in {"idle", "read", "saved"} => answer[r] = NoAnswer

\* The positions of the items do not grow beyond some bound, so there is a last one.
ItemsBounded ==
    /\ items \in [Item -> [card : PartCard \cup {NoCard}, pos : Nat]]
    /\ \E n \in Nat : \A i \in Item : items[i].pos <= n

RevisionsCounted == RevisionsAnnouncedOnce /\ \A c \in PartCard : IsFiniteSet(Changes(c))

PartsToldInv ==
    /\ PartShapes /\ EventsPast /\ RevisionsCounted /\ ReadsAgree /\ AloneSeesAll /\ PartsStamped
    /\ AnswersPast /\ StrayEventShowsGap /\ ToldAtHome /\ ReplyHasItsParts

\* A dependency goes with either of its cards.
DepsStand == \A d \in deps : d \in PartCard \X PartCard /\ There(d[1]) /\ There(d[2])

PartsInv == PartsToldInv /\ ItemsBounded /\ ChecklistOrdered /\ DepsStand

\* Every set of natural numbers that is not empty has a least element (what MIN gives).
LEMMA LeastNatural == ASSUME NEW T, T \subseteq Nat, T # {} PROVE \E x \in T : \A y \in T : x <= y
<1>1. PICK x \in T : \A y \in T : ~ (<<y, x>> \in OpToRel(<, Nat))
  BY NatLessThanWellFounded, WFMin, Zenon
<1>2. ASSUME NEW y \in T PROVE x <= y
  <2>1. x \in Nat /\ y \in Nat
    OBVIOUS
  <2>2. ~(y < x)
    BY <1>1, <2>1 DEF OpToRel
  <2> QED BY <2>1, <2>2
<1> QED BY <1>2

\* A bounded set of natural numbers that is not empty has a greatest one (what MAX gives).
LEMMA GreatestNatural ==
  ASSUME NEW T, T \subseteq Nat, T # {}, NEW B \in Nat, \A y \in T : y <= B
  PROVE \E x \in T : \A y \in T : y <= x
<1>1. PICK U : U = {n \in Nat : \A y \in T : y <= n}
  OBVIOUS
<1>2. PICK m \in U : \A n \in U : m <= n
  BY <1>1, LeastNatural
<1>3. m \in Nat /\ \A y \in T : y <= m
  BY <1>1, <1>2
<1>4. ASSUME m \notin T PROVE FALSE
  <2>1. \A y \in T : y <= m - 1 /\ m - 1 \in Nat
    BY <1>3, <1>4
  <2>2. m - 1 \in U
    BY <1>1, <1>3, <2>1
  <2> QED BY <1>2, <1>3, <2>2
<1> QED BY <1>3, <1>4

\* Nothing has happened yet, and there is one item.
LEMMA InitPartsInv == PartsInit => PartsInv
<1> SUFFICES ASSUME PartsInit PROVE PartsInv
  OBVIOUS
<1>1. Blank \in [Part -> Nat] /\ \A c \in PartCard : stamp[c] = Blank /\ cardRow[c].rev = 0
  BY DEF PartsInit, Blank
<1>2. PartShapes
  <2>1. cardRow \in [PartCard -> PartRow] /\ stamp \in [PartCard -> [Part -> Nat]]
    BY <1>1 DEF PartsInit, PartRow
  <2>2. read \in [PartRequest -> [PartCard -> PartRow]]
    BY DEF PartsInit, Unread, PartRow
  <2>3. answer \in [PartRequest -> PartAnswer]
    BY <1>1 DEF PartsInit, NoAnswer, PartAnswer
  <2>4. /\ step \in [PartRequest -> {"idle", "read", "saved", "row", "done"}] /\ mayOverlap \in BOOLEAN
        /\ ask = [r \in PartRequest |-> ask[r]] /\ \A r \in PartRequest : step[r] = "idle"
    BY DEF PartsInit
  <2>5. StampsPast
    BY <1>1 DEF Blank, StampsPast
  <2> QED BY <2>1, <2>2, <2>3, <2>4, <2>5 DEF PartShapes, UnderWay
<1>3. EventsPast /\ PartsStamped /\ StrayEventShowsGap /\ ToldAtHome /\ ReplyHasItsParts
  BY DEF PartsInit, EventsPast, PartsStamped, StrayEventShowsGap, ToldAtHome, ReplyHasItsParts
<1>4. RevisionsCounted
  <2>1. \A c \in PartCard : Changes(c) = {} /\ {e \in said : e.card = c /\ e.change} = {}
    BY DEF PartsInit, Changes
  <2>2. ASSUME NEW c \in PartCard
        PROVE  {e.rev : e \in {}} = 1..cardRow[c].rev /\ Cardinality({}) = cardRow[c].rev
    BY <1>1, FS_EmptySet
  <2> QED BY <2>1, <2>2, FS_EmptySet DEF RevisionsCounted, RevisionsAnnouncedOnce
<1>5. ReadsAgree /\ AloneSeesAll
  BY DEF PartsInit, ReadsAgree, AloneSeesAll, UnderWay
<1>6. AnswersPast
  BY PartsAssumption DEF PartsInit, AnswersPast, NoAnswer
<1>7. ItemsBounded /\ ChecklistOrdered
  <2>1. PICK i \in Item, c \in PartCard, p \in {0, 1} :
            items = [j \in Item |-> IF j = i THEN [card |-> c, pos |-> p]
                                             ELSE [card |-> NoCard, pos |-> 0]]
    BY DEF PartsInit
  <2>2. items \in [Item -> [card : PartCard \cup {NoCard}, pos : Nat]]
    BY <2>1
  <2>3. \A j \in Item : items[j].pos <= 1
    BY <2>1
  <2>4. \A j, k \in Item : (j # k /\ items[j].card = items[k].card) => items[j].card = NoCard
    BY <2>1, PartsAssumption
  <2> QED BY <2>2, <2>3, <2>4 DEF ItemsBounded, ChecklistOrdered
<1>8. DepsStand
  BY PartsAssumption DEF PartsInit, DepsStand, There
<1> QED BY <1>2, <1>3, <1>4, <1>5, <1>6, <1>7, <1>8 DEF PartsInv, PartsToldInv

\* What a transaction of a request does to the cards in C: each gets one more revision,
\* and one event that tells of it from what the request has read.
Written(r, C, events) ==
    /\ C \subseteq PartCard /\ StampsPast' /\ cardRow' \in [PartCard -> PartRow] /\ stamp' \in [PartCard -> [Part -> Nat]]
    /\ \A c \in C : There(c) /\ There(c)' /\ cardRow'[c].rev = cardRow[c].rev + 1
    /\ \A c \in PartCard \ C : cardRow'[c] = cardRow[c]
    /\ \A c \in PartCard, p \in Part : stamp[c][p] <= stamp'[c][p]
    /\ said' = said \cup events
    /\ \A e \in events :
         /\ e.card \in C /\ e.change = TRUE /\ e.rev = cardRow[e.card].rev + 1
         /\ e.home = cardRow[e.card].board /\ e.board = read[r][e.card].board
         /\ e.prev = -1 \/ e.prev = read[r][e.card].rev
         /\ e.part \in Part => stamp'[e.card][e.part] = e.rev
    /\ \A c \in C : \E e \in events : e.card = c
    /\ \A e, f \in events : e.card = f.card => e = f

\* The events of a card grow by the one that tells of its new revision.
LEMMA RevisionsGrow ==
  ASSUME PartsInv, NEW r \in PartRequest, NEW C, NEW events, Written(r, C, events)
  PROVE  RevisionsCounted'
<1> DEFINE Told(c) == {e \in said : e.card = c /\ e.change}
           ToldNow(c) == {e \in said' : e.card = c /\ e.change}
<1>1. ASSUME NEW c \in PartCard
      PROVE  /\ IsFiniteSet(ToldNow(c)) /\ {e.rev : e \in ToldNow(c)} = 1..cardRow'[c].rev
             /\ Cardinality(ToldNow(c)) = cardRow'[c].rev
  <2>1. /\ IsFiniteSet(Told(c)) /\ {e.rev : e \in Told(c)} = 1..cardRow[c].rev
        /\ Cardinality(Told(c)) = cardRow[c].rev
    BY DEF PartsInv, PartsToldInv, RevisionsCounted, RevisionsAnnouncedOnce, Changes
  <2>2. cardRow[c].rev \in Nat
    BY DEF PartsInv, PartsToldInv, PartShapes, PartRow
  <2>3. CASE c \in C
    <3>1. PICK f \in events : f.card = c
      BY <2>3 DEF Written
    <3>2. f.change /\ f.rev = cardRow[c].rev + 1 /\ cardRow'[c].rev = cardRow[c].rev + 1
      BY <2>3, <3>1 DEF Written
    <3>3. ToldNow(c) = Told(c) \cup {f}
      <4>1. \A e \in events : e.card = c => e = f
        BY <3>1 DEF Written
      <4>2. said' = said \cup events
        BY DEF Written
      <4> QED BY <3>1, <3>2, <4>1, <4>2
    <3>4. f \notin Told(c)
      <4>1. f \in Told(c) => f.rev \in 1..cardRow[c].rev
        BY <2>1
      <4> QED BY <2>2, <3>2, <4>1
    <3>5. IsFiniteSet(ToldNow(c)) /\ Cardinality(ToldNow(c)) = cardRow[c].rev + 1
      <4> HIDE DEF Told, ToldNow
      <4> QED BY <2>1, <3>3, <3>4, FS_AddElement
    <3>6. {e.rev : e \in ToldNow(c)} = 1..(cardRow[c].rev + 1)
      <4> HIDE DEF Told, ToldNow
      <4>1. {e.rev : e \in ToldNow(c)} = {e.rev : e \in Told(c)} \cup {f.rev}
        BY <3>3
      <4>2. PICK n \in Nat : n = cardRow[c].rev
        BY <2>2
      <4>3. {e.rev : e \in ToldNow(c)} = (1..n) \cup {n + 1}
        BY <2>1, <3>2, <4>1, <4>2
      <4>4. (1..n) \cup {n + 1} = 1..(n + 1)
        OBVIOUS
      <4> QED BY <4>2, <4>3, <4>4
    <3> QED BY <3>2, <3>5, <3>6
  <2>4. CASE c \notin C
    <3>1. ToldNow(c) = Told(c) /\ cardRow'[c] = cardRow[c]
      BY <2>4 DEF Written
    <3> HIDE DEF Told, ToldNow
    <3> QED BY <2>1, <3>1
  <2> QED BY <2>3, <2>4
<1> QED BY <1>1 DEF RevisionsCounted, RevisionsAnnouncedOnce, Changes

\* The events of a transaction: they tell the board where the card is, unless it went since
\* the request has read it, which then shows in the revisions.
LEMMA EventsKept ==
  ASSUME PartsInv, NEW r \in PartRequest, NEW C, NEW events, Written(r, C, events),
         step[r] = "read", mayOverlap' = mayOverlap
  PROVE  EventsPast' /\ PartsStamped' /\ StrayEventShowsGap' /\ ToldAtHome'
<1>1. \A c \in PartCard : cardRow[c].rev \in Nat /\ cardRow'[c].rev \in Nat /\ cardRow[c].rev <= cardRow'[c].rev
  <2> SUFFICES ASSUME NEW c \in PartCard
               PROVE  cardRow[c].rev \in Nat /\ cardRow'[c].rev \in Nat /\ cardRow[c].rev <= cardRow'[c].rev
    OBVIOUS
  <2>1. cardRow[c].rev \in Nat /\ cardRow'[c].rev \in Nat
    BY DEF PartsInv, PartsToldInv, PartShapes, PartRow, Written
  <2>2. cardRow'[c].rev = cardRow[c].rev + 1 \/ cardRow'[c].rev = cardRow[c].rev
    BY DEF Written
  <2> QED BY <2>1, <2>2
<1>2. \A c \in PartCard, p \in Part : stamp[c][p] \in Nat /\ stamp'[c][p] \in Nat /\ stamp[c][p] <= stamp'[c][p]
  BY DEF PartsInv, PartsToldInv, PartShapes, Written
<1>3. \A c \in PartCard : There(c)' => There(c)
  BY DEF Written, There
<1>4. said' = said \cup events /\ C \subseteq PartCard
  BY DEF Written
<1>5. EventsPast'
  <2>1. ASSUME NEW e \in said'
        PROVE  e.card \in PartCard /\ e.rev \in Nat /\ e.rev <= cardRow'[e.card].rev /\ e.change \in BOOLEAN
    <3>1. CASE e \in said
      BY <1>1, <3>1 DEF PartsInv, PartsToldInv, EventsPast
    <3>2. CASE e \in events
      <4>1. e.card \in PartCard /\ e.card \in C /\ e.change = TRUE /\ e.rev = cardRow[e.card].rev + 1
        BY <1>4, <3>2 DEF Written
      <4>2. cardRow'[e.card].rev = cardRow[e.card].rev + 1 /\ cardRow[e.card].rev \in Nat
        BY <1>1, <4>1 DEF Written
      <4>3. e.rev \in Nat /\ e.rev = cardRow'[e.card].rev /\ cardRow'[e.card].rev \in Nat
        BY <4>1, <4>2
      <4>4. e.rev <= cardRow'[e.card].rev
        BY <4>3
      <4> QED BY <4>1, <4>3, <4>4
    <3> QED BY <1>4, <3>1, <3>2
  <2>2. \A c \in PartCard : IsFiniteSet(Changes(c)')
    BY RevisionsGrow DEF RevisionsCounted
  <2> QED BY <2>1, <2>2 DEF EventsPast, Changes
<1>6. PartsStamped'
  <2> SUFFICES ASSUME NEW e \in said', e.change, e.part \in Part, There(e.card)'
               PROVE  e.rev <= stamp'[e.card][e.part]
    BY DEF PartsStamped, There
  <2>1. CASE e \in said
    <3>1. e.card \in PartCard /\ e.rev \in Nat /\ e.rev <= stamp[e.card][e.part]
      BY <1>3, <2>1 DEF PartsInv, PartsToldInv, EventsPast, PartsStamped
    <3> QED BY <1>2, <3>1
  <2>2. CASE e \in events
    BY <1>1, <1>4, <2>2 DEF Written
  <2> QED BY <1>4, <2>1, <2>2
<1>7. StrayEventShowsGap'
  <2> SUFFICES ASSUME NEW e \in said', e.change, e.board # e.home, e.prev # -1
               PROVE  e.rev > e.prev + 1
    BY DEF StrayEventShowsGap
  <2>1. CASE e \in said
    BY <2>1 DEF PartsInv, PartsToldInv, StrayEventShowsGap
  <2>2. CASE e \in events
    <3>1. e.card \in PartCard /\ There(e.card) /\ e.rev = cardRow[e.card].rev + 1 /\ e.prev = read[r][e.card].rev
          /\ e.home = cardRow[e.card].board /\ e.board = read[r][e.card].board
      BY <1>4, <2>2 DEF Written
    <3>2. read[r][e.card].rev \in Nat
      BY <3>1 DEF PartsInv, PartsToldInv, PartShapes, PartRow
    <3>3. /\ read[r][e.card].rev <= cardRow[e.card].rev
          /\ read[r][e.card].rev = cardRow[e.card].rev => read[r][e.card].board = cardRow[e.card].board
      BY <3>1 DEF PartsInv, PartsToldInv, ReadsAgree
    <3> QED BY <1>1, <3>1, <3>2, <3>3
  <2> QED BY <1>4, <2>1, <2>2
<1>8. ToldAtHome'
  <2> SUFFICES ASSUME ~mayOverlap, NEW e \in said' PROVE e.board = e.home
    BY DEF ToldAtHome
  <2>1. CASE e \in said
    BY <2>1 DEF PartsInv, PartsToldInv, ToldAtHome
  <2>2. CASE e \in events
    BY <2>2 DEF Written, PartsInv, PartsToldInv, AloneSeesAll
  <2> QED BY <1>4, <2>1, <2>2
<1> QED BY <1>5, <1>6, <1>7, <1>8

\* The cards grow older, and what is announced now is newer than all that was read.
RowsAge ==
    /\ StampsPast' /\ cardRow' \in [PartCard -> PartRow] /\ stamp' \in [PartCard -> [Part -> Nat]]
    /\ \A c \in PartCard : /\ cardRow[c].rev <= cardRow'[c].rev
                           /\ There(c)' => There(c)
                           /\ There(c)' /\ cardRow[c].rev = cardRow'[c].rev => cardRow'[c].board = cardRow[c].board
    /\ \A e \in said' : e \in said \/ (e.change => e.card \in PartCard /\ e.rev = cardRow[e.card].rev + 1)

\* The end of a transaction, or of a request that rolled back, disturbs no other request,
\* and no reply that was built before.
LEMMA EndOfWrite ==
  ASSUME PartsInv, NEW r \in PartRequest, step[r] = "read", RowsAge,
         ThenFetch(r) \/ ThenAnswer(r)
  PROVE  PartShapes' /\ ReadsAgree' /\ AloneSeesAll' /\ AnswersPast' /\ ReplyHasItsParts'
<1>1. /\ step' \in [PartRequest -> {"idle", "read", "saved", "row", "done"}] /\ step'[r] \in {"saved", "done"}
      /\ \A q \in PartRequest : q # r => step'[q] = step[q]
  BY DEF PartsInv, PartsToldInv, PartShapes, ThenFetch, ThenAnswer, Answered
<1>2. /\ ask' = [q \in PartRequest |-> ask'[q]] /\ (step'[r] = "saved" => ask'[r] = ask[r])
      /\ \A q \in PartRequest : q # r => ask'[q] = ask[q]
  <2>1. ask = [q \in PartRequest |-> ask[q]]
    BY DEF PartsInv, PartsToldInv, PartShapes
  <2>2. CASE ThenFetch(r)
    BY <2>1, <2>2 DEF ThenFetch
  <2>3. CASE ThenAnswer(r)
    <3>1. ask' = [ask EXCEPT ![r] = [kind |-> "none"]] /\ step'[r] = "done"
      BY <2>3 DEF ThenAnswer, Answered, PartsInv, PartsToldInv, PartShapes
    <3> QED BY <2>1, <3>1
  <2> QED BY <2>2, <2>3
<1>3. read' \in [PartRequest -> [PartCard -> PartRow]] /\ \A q \in PartRequest : q # r => read'[q] = read[q]
  <2>1. read \in [PartRequest -> [PartCard -> PartRow]] /\ Unread \in [PartCard -> PartRow]
    BY DEF PartsInv, PartsToldInv, PartShapes, Unread, PartRow
  <2>2. read' = read \/ read' = [read EXCEPT ![r] = Unread]
    BY DEF ThenFetch, ThenAnswer, Answered
  <2> QED BY <2>1, <2>2
<1>4. answer' = answer /\ mayOverlap' = mayOverlap
  BY DEF ThenFetch, ThenAnswer
<1>5. PartShapes'
  <2>1. \A q \in PartRequest : step'[q] \notin {"idle", "done"} => ask'[q].card \in PartCard
    BY <1>1, <1>2 DEF PartsInv, PartsToldInv, PartShapes, UnderWay
  <2>2. \A q \in PartRequest : step'[q] = "read" => step[q] = "read" /\ ask'[q] = ask[q]
    BY <1>1, <1>2
  <2>3. \A q \in PartRequest : step'[q] = "read" =>
          /\ ask'[q].kind \in {"depend", "undepend"} => ask'[q].on \in PartCard /\ ask'[q].on # ask'[q].card
          /\ ask'[q].kind = "label" => ask'[q].also \in PartCard
          /\ ask'[q].kind = "addItem" => ask'[q].item \in Item /\ ask'[q].pos \in Nat
          /\ ask'[q].kind = "move" => ask'[q].to \in PartBoard
    BY <2>2 DEF PartsInv, PartsToldInv, PartShapes
  <2>4. answer' \in [PartRequest -> PartAnswer] /\ mayOverlap' \in BOOLEAN
        /\ cardRow' \in [PartCard -> PartRow] /\ stamp' \in [PartCard -> [Part -> Nat]]
    BY <1>4 DEF PartsInv, PartsToldInv, PartShapes, RowsAge
  <2>5. StampsPast'
    BY DEF RowsAge
  <2> QED BY <1>1, <1>2, <1>3, <2>1, <2>3, <2>4, <2>5 DEF PartShapes, UnderWay
<1>6. ReadsAgree'
  <2> SUFFICES ASSUME NEW q \in PartRequest, NEW c \in PartCard, step'[q] = "read", There(c)'
               PROVE  /\ read'[q][c].rev <= cardRow'[c].rev
                      /\ read'[q][c].rev = cardRow'[c].rev => read'[q][c].board = cardRow'[c].board
    BY DEF ReadsAgree, There
  <2>1. step[q] = "read" /\ read'[q] = read[q]
    BY <1>1, <1>3
  <2>2. /\ read[q][c].rev <= cardRow[c].rev
        /\ read[q][c].rev = cardRow[c].rev => read[q][c].board = cardRow[c].board
    BY <2>1 DEF PartsInv, PartsToldInv, ReadsAgree, RowsAge
  <2>3. read[q][c].rev \in Nat /\ cardRow[c].rev \in Nat /\ cardRow'[c].rev \in Nat
    BY DEF PartsInv, PartsToldInv, PartShapes, PartRow, RowsAge
  <2>4. cardRow[c].rev <= cardRow'[c].rev /\ (cardRow[c].rev = cardRow'[c].rev => cardRow'[c].board = cardRow[c].board)
    BY DEF RowsAge
  <2> QED BY <2>1, <2>2, <2>3, <2>4
<1>7. AloneSeesAll'
  BY <1>1, <1>4 DEF PartsInv, PartsToldInv, AloneSeesAll, UnderWay
<1>8. AnswersPast'
  <2> SUFFICES ASSUME NEW q \in PartRequest
               PROVE  /\ answer[q].card \in PartCard => answer[q].rev <= cardRow'[answer[q].card].rev
                      /\ step'[q] = "row" => answer[q].card = ask'[q].card
                      /\ step'[q] \in {"idle", "read", "saved"} => answer[q] = NoAnswer
    BY <1>4 DEF AnswersPast
  <2>1. ASSUME answer[q].card \in PartCard PROVE answer[q].rev <= cardRow'[answer[q].card].rev
    <3>1. PICK c \in PartCard : c = answer[q].card
      BY <2>1
    <3>2. answer[q].rev <= cardRow[c].rev /\ cardRow[c].rev <= cardRow'[c].rev
      BY <3>1 DEF PartsInv, PartsToldInv, AnswersPast, RowsAge
    <3>3. answer[q].rev \in Nat /\ cardRow[c].rev \in Nat /\ cardRow'[c].rev \in Nat
      BY DEF PartsInv, PartsToldInv, PartShapes, PartRow, PartAnswer, RowsAge
    <3> QED BY <3>1, <3>2, <3>3
  <2>2. step'[q] = "row" => answer[q].card = ask'[q].card
    BY <1>1, <1>2 DEF PartsInv, PartsToldInv, AnswersPast
  <2>3. step'[q] \in {"idle", "read", "saved"} => answer[q] = NoAnswer
    BY <1>1 DEF PartsInv, PartsToldInv, AnswersPast
  <2> QED BY <2>1, <2>2, <2>3
<1>9. ReplyHasItsParts'
  <2> SUFFICES ASSUME NEW q \in PartRequest, NEW e \in said', step'[q] = "done", answer[q].card = e.card,
                      e.change, e.part \in Part \ answer[q].lost, e.rev <= answer[q].rev, cardRow'[answer[q].card].board # NoPartBoard
               PROVE  answer[q].parts[e.part] >= e.rev
    BY <1>4 DEF ReplyHasItsParts, There
  <2>1. CASE e \in said
    <3>1. e.card \in PartCard /\ There(e.card)
      <4>1. PICK c \in PartCard : c = e.card
        BY <2>1 DEF PartsInv, PartsToldInv, EventsPast
      <4>2. There(c)' => There(c)
        BY DEF RowsAge
      <4> QED BY <4>1, <4>2 DEF There
    <3>2. q # r
      BY <2>1, <3>1, PartsAssumption DEF PartsInv, PartsToldInv, AnswersPast, NoAnswer
    <3> QED BY <1>1, <2>1, <3>1, <3>2 DEF PartsInv, PartsToldInv, ReplyHasItsParts
  <2>2. CASE e \notin said
    <3>1. e.card \in PartCard /\ e.rev = cardRow[e.card].rev + 1
      BY <2>2 DEF RowsAge
    <3>2. answer[q].rev <= cardRow[e.card].rev /\ cardRow[e.card].rev \in Nat /\ answer[q].rev \in Nat
      BY <3>1 DEF PartsInv, PartsToldInv, AnswersPast, PartShapes, PartRow, PartAnswer
    <3> QED BY <3>1, <3>2
  <2> QED BY <2>1, <2>2
<1> QED BY <1>5, <1>6, <1>7, <1>8, <1>9

\* A transaction makes cards older only.
LEMMA WrittenAges ==
  ASSUME PartsInv, NEW r \in PartRequest, NEW C, NEW events, Written(r, C, events)
  PROVE  RowsAge
<1>1. cardRow' \in [PartCard -> PartRow] /\ stamp' \in [PartCard -> [Part -> Nat]]
  BY DEF Written
<1>4. StampsPast'
  BY DEF Written
<1>2. ASSUME NEW c \in PartCard
      PROVE  /\ cardRow[c].rev <= cardRow'[c].rev
             /\ There(c)' => There(c)
             /\ There(c)' /\ cardRow[c].rev = cardRow'[c].rev => cardRow'[c].board = cardRow[c].board
  <2>1. cardRow[c].rev \in Nat
    BY DEF PartsInv, PartsToldInv, PartShapes, PartRow
  <2>2. CASE c \in C
    <3>1. There(c) /\ cardRow'[c].rev = cardRow[c].rev + 1
      BY <2>2 DEF Written
    <3> QED BY <2>1, <3>1
  <2>3. CASE c \notin C
    BY <2>1, <2>3 DEF Written, There
  <2> QED BY <2>2, <2>3
<1>3. ASSUME NEW e \in said', e \notin said
      PROVE  e.card \in PartCard /\ e.rev = cardRow[e.card].rev + 1
  BY <1>3 DEF Written
<1> QED BY <1>1, <1>2, <1>3, <1>4 DEF RowsAge

\* Save, with either kind of event, is a transaction on the cards whose parts it names.
LEMMA SaveWrites ==
  ASSUME PartsInv, NEW r \in PartRequest, NEW parts, NEW C, NEW events, DOMAIN parts = C, C \subseteq PartCard,
         \A c \in C : There(c) /\ parts[c] \in Part, Save(r, parts, events),
         events = Announce(r, parts) \/ events = {Said(r, c, parts[c], -1) : c \in C}
  PROVE  Written(r, C, events)
<1>1. /\ cardRow' \in [PartCard -> PartRow] /\ \A c \in PartCard \ C : cardRow'[c] = cardRow[c]
      /\ \A c \in C : There(c) /\ There(c)' /\ cardRow'[c].rev = cardRow[c].rev + 1
  <2>1. /\ cardRow \in [PartCard -> PartRow]
        /\ cardRow' = [c \in PartCard |-> IF c \in C THEN [cardRow[c] EXCEPT !.rev = @ + 1] ELSE cardRow[c]]
    BY DEF PartsInv, PartsToldInv, PartShapes, Save
  <2>2. ASSUME NEW c \in PartCard
        PROVE  /\ cardRow'[c] \in PartRow /\ (c \notin C => cardRow'[c] = cardRow[c])
               /\ c \in C => cardRow'[c].rev = cardRow[c].rev + 1 /\ cardRow'[c].board = cardRow[c].board
    <3>1. PICK entry \in PartRow : entry = cardRow[c]
      BY <2>1
    <3>2. cardRow'[c] = IF c \in C THEN [entry EXCEPT !.rev = entry.rev + 1] ELSE entry
      BY <2>1, <3>1
    <3> QED BY <3>1, <3>2 DEF PartRow
  <2>3. cardRow' = [c \in PartCard |-> cardRow'[c]]
    BY <2>1
  <2> QED BY <2>2, <2>3 DEF There
<1>2. /\ stamp' \in [PartCard -> [Part -> Nat]]
      /\ \A c \in PartCard, p \in Part : stamp[c][p] <= stamp'[c][p]
      /\ \A c \in C : stamp'[c][parts[c]] = cardRow[c].rev + 1
      /\ StampsPast'
  <2>1. /\ stamp \in [PartCard -> [Part -> Nat]]
        /\ stamp' = [c \in PartCard |-> IF c \in C THEN [stamp[c] EXCEPT ![parts[c]] = cardRow[c].rev + 1] ELSE stamp[c]]
    BY DEF PartsInv, PartsToldInv, PartShapes, Save
  <2>2. ASSUME NEW c \in PartCard
        PROVE  /\ stamp'[c] \in [Part -> Nat] /\ \A p \in Part : stamp[c][p] <= stamp'[c][p]
               /\ c \in C => stamp'[c][parts[c]] = cardRow[c].rev + 1
               /\ \A p \in Part : stamp'[c][p] <= cardRow'[c].rev
    <3>1. PICK n \in Nat : n = cardRow[c].rev
      BY DEF PartsInv, PartsToldInv, PartShapes, PartRow
    <3>2. stamp[c] \in [Part -> Nat] /\ \A p \in Part : stamp[c][p] <= n
      BY <2>1, <3>1 DEF PartsInv, PartsToldInv, PartShapes, StampsPast
    <3>3. CASE c \in C
      <4>1. parts[c] \in Part /\ stamp'[c] = [stamp[c] EXCEPT ![parts[c]] = n + 1]
        BY <2>1, <3>1, <3>3
      <4>2. cardRow'[c].rev = n + 1
        BY <1>1, <3>1, <3>3
      <4> QED BY <3>1, <3>2, <3>3, <4>1, <4>2
    <3>4. CASE c \notin C
      BY <1>1, <2>1, <3>1, <3>2, <3>4
    <3> QED BY <3>3, <3>4
  <2>3. stamp' = [c \in PartCard |-> stamp'[c]]
    BY <2>1
  <2> QED BY <2>2, <2>3 DEF StampsPast
<1>3. \E prev \in [C -> {-1} \cup {read[r][c].rev : c \in C}] :
          /\ \A c \in C : prev[c] \in {-1, read[r][c].rev}
          /\ events = {Said(r, c, parts[c], prev[c]) : c \in C}
  <2>1. CASE events = Announce(r, parts)
    <3> WITNESS [c \in C |-> read[r][c].rev] \in [C -> {-1} \cup {read[r][c].rev : c \in C}]
    <3> QED BY <2>1 DEF Announce
  <2>2. CASE events = {Said(r, c, parts[c], -1) : c \in C}
    <3> WITNESS [c \in C |-> -1] \in [C -> {-1} \cup {read[r][c].rev : c \in C}]
    <3> QED BY <2>2
  <2> QED BY <2>1, <2>2
<1>4. PICK prev \in [C -> {-1} \cup {read[r][c].rev : c \in C}] :
          /\ \A c \in C : prev[c] \in {-1, read[r][c].rev}
          /\ events = {Said(r, c, parts[c], prev[c]) : c \in C}
  BY <1>3
<1>5. ASSUME NEW e \in events
      PROVE  /\ e.card \in C /\ e = Said(r, e.card, parts[e.card], prev[e.card])
             /\ e.change = TRUE /\ e.rev = cardRow[e.card].rev + 1
             /\ e.home = cardRow[e.card].board /\ e.board = read[r][e.card].board
             /\ e.prev = -1 \/ e.prev = read[r][e.card].rev
             /\ e.part = parts[e.card]
  <2>1. PICK c \in C : e = Said(r, c, parts[c], prev[c])
    BY <1>4
  <2>2. e.card = c
    BY <2>1 DEF Said
  <2> QED BY <1>4, <2>1, <2>2 DEF Said
<1>6. \A c \in C : \E e \in events : e.card = c
  <2> TAKE c \in C
  <2>1. Said(r, c, parts[c], prev[c]) \in events
    BY <1>4
  <2> QED BY <2>1 DEF Said
<1>7. \A e, f \in events : e.card = f.card => e = f
  <2> SUFFICES ASSUME NEW e \in events, NEW f \in events, e.card = f.card PROVE e = f
    OBVIOUS
  <2>1. e = Said(r, e.card, parts[e.card], prev[e.card])
    BY <1>5
  <2>2. f = Said(r, f.card, parts[f.card], prev[f.card])
    BY <1>5
  <2> QED BY <2>1, <2>2
<1>8. said' = said \cup events
  BY DEF Save
<1>9. \A e \in events :
         /\ e.card \in C /\ e.change = TRUE /\ e.rev = cardRow[e.card].rev + 1
         /\ e.home = cardRow[e.card].board /\ e.board = read[r][e.card].board
         /\ e.prev = -1 \/ e.prev = read[r][e.card].rev
         /\ e.part \in Part => stamp'[e.card][e.part] = e.rev
  <2> TAKE e \in events
  <2>1. stamp'[e.card][parts[e.card]] = cardRow[e.card].rev + 1
    BY <1>2, <1>5
  <2> QED BY <1>5, <2>1
<1> QED BY <1>1, <1>2, <1>6, <1>7, <1>8, <1>9, Zenon DEF Written

\* A transaction keeps all that is not about the items.
LEMMA TransactionKeeps ==
  ASSUME PartsInv, NEW r \in PartRequest, step[r] = "read", NEW C, NEW events, Written(r, C, events),
         ThenFetch(r) \/ ThenAnswer(r)
  PROVE  PartsToldInv'
<1>1. RowsAge
  BY WrittenAges
<1>2. mayOverlap' = mayOverlap
  BY DEF ThenFetch, ThenAnswer
<1> QED BY <1>1, <1>2, RevisionsGrow, EventsKept, EndOfWrite DEF PartsToldInv

\* What the handlers are asked for.
LEMMA AskShapes ==
  ASSUME NEW a \in Asks, Accepted(a)
  PROVE  /\ a.card \in PartCard
         /\ a.kind \in {"depend", "undepend"} => a.on \in PartCard /\ a.on # a.card
         /\ a.kind = "label" => a.also \in PartCard
         /\ a.kind = "addItem" => a.item \in Item /\ a.pos \in Nat
         /\ a.kind = "move" => a.to \in PartBoard
<1>1. CASE a \in [kind : {"depend", "undepend"}, card : PartCard, on : PartCard]
  BY <1>1 DEF Accepted
<1>2. CASE a \in [kind : {"label"}, card : PartCard, also : PartCard]
  BY <1>2
<1>3. CASE a \in [kind : {"assign", "unassign", "delete"}, card : PartCard]
  BY <1>3
<1>4. CASE a \in [kind : {"addItem"}, card : PartCard, item : Item, pos : 0..MaxItemPos]
  BY <1>4
<1>5. CASE a \in [kind : {"updateItem", "removeItem"}, card : PartCard, item : Item]
  BY <1>5
<1>6. CASE a \in [kind : {"comment"}, card : PartCard, comment : Comment, by : Person]
  BY <1>6
<1>7. CASE a \in [kind : {"editComment", "deleteComment"}, card : PartCard, comment : Comment, by : Person]
  BY <1>7
<1>8. CASE a \in [kind : {"move"}, card : PartCard, to : PartBoard]
  BY <1>8
<1> QED BY <1>1, <1>2, <1>3, <1>4, <1>5, <1>6, <1>7, <1>8 DEF Asks

\* Steps that leave the tables alone keep what is said of them.
LEMMA TablesStand ==
  ASSUME PartsInv, UNCHANGED <<partTables, mayOverlap>>
  PROVE  EventsPast' /\ RevisionsCounted' /\ PartsStamped' /\ StrayEventShowsGap' /\ ToldAtHome'
         /\ StampsPast' /\ ItemsBounded' /\ ChecklistOrdered' /\ DepsStand'
<1> USE DEF PartsInv, PartsToldInv, partTables
<1>1. EventsPast' /\ RevisionsCounted' /\ PartsStamped'
  BY DEF EventsPast, RevisionsCounted, RevisionsAnnouncedOnce, PartsStamped, Changes, There
<1>2. StrayEventShowsGap' /\ ToldAtHome' /\ StampsPast'
  BY DEF StrayEventShowsGap, ToldAtHome, PartShapes, StampsPast
<1>3. ItemsBounded' /\ ChecklistOrdered' /\ DepsStand'
  BY DEF ItemsBounded, ChecklistOrdered, DepsStand, There
<1> QED BY <1>1, <1>2, <1>3

\* A handler reads its card.
LEMMA BeginKeeps ==
  ASSUME PartsInv, NEW r \in PartRequest, NEW a, NEW next \in {"read", "saved"}, Begin(r, a, next),
         a.card \in PartCard,
         next = "read" => /\ a.kind \in {"depend", "undepend"} => a.on \in PartCard /\ a.on # a.card
                          /\ a.kind = "label" => a.also \in PartCard
                          /\ a.kind = "addItem" => a.item \in Item /\ a.pos \in Nat
                          /\ a.kind = "move" => a.to \in PartBoard
  PROVE  PartsInv'
<1>1. /\ step' \in [PartRequest -> {"idle", "read", "saved", "row", "done"}] /\ step[r] = "idle" /\ step'[r] = next
      /\ \A q \in PartRequest : q # r => step'[q] = step[q]
  BY DEF PartsInv, PartsToldInv, PartShapes, Begin
<1>2. /\ ask' = [q \in PartRequest |-> ask'[q]] /\ ask'[r] = a
      /\ \A q \in PartRequest : q # r => ask'[q] = ask[q]
  <2>1. ask = [q \in PartRequest |-> ask[q]] /\ ask' = [ask EXCEPT ![r] = a]
    BY DEF PartsInv, PartsToldInv, PartShapes, Begin
  <2> QED BY <2>1
<1>3. /\ read' \in [PartRequest -> [PartCard -> PartRow]] /\ read'[r] = cardRow
      /\ \A q \in PartRequest : q # r => read'[q] = read[q]
  BY DEF PartsInv, PartsToldInv, PartShapes, Begin
<1>4. /\ UNCHANGED <<partTables, mayOverlap>> /\ answer' = answer
      /\ mayOverlap \/ \A q \in PartRequest : step[q] \in {"idle", "done"}
  BY DEF Begin
<1>5. PartShapes'
  <2>1. \A q \in PartRequest : step'[q] \notin {"idle", "done"} => ask'[q].card \in PartCard
    BY <1>1, <1>2 DEF PartsInv, PartsToldInv, PartShapes, UnderWay
  <2>2. ASSUME NEW q \in PartRequest, step'[q] = "read"
        PROVE  /\ ask'[q].kind \in {"depend", "undepend"} => ask'[q].on \in PartCard /\ ask'[q].on # ask'[q].card
               /\ ask'[q].kind = "label" => ask'[q].also \in PartCard
               /\ ask'[q].kind = "addItem" => ask'[q].item \in Item /\ ask'[q].pos \in Nat
               /\ ask'[q].kind = "move" => ask'[q].to \in PartBoard
    <3>1. CASE q = r
      BY <1>1, <1>2, <2>2, <3>1
    <3>2. CASE q # r
      BY <1>1, <1>2, <2>2, <3>2 DEF PartsInv, PartsToldInv, PartShapes
    <3> QED BY <3>1, <3>2
  <2>3. answer' \in [PartRequest -> PartAnswer] /\ mayOverlap' \in BOOLEAN
        /\ cardRow' \in [PartCard -> PartRow] /\ stamp' \in [PartCard -> [Part -> Nat]] /\ StampsPast'
    BY <1>4 DEF PartsInv, PartsToldInv, PartShapes, partTables, StampsPast
  <2> QED BY <1>1, <1>2, <1>3, <2>1, <2>2, <2>3 DEF PartShapes, UnderWay
<1>6. ReadsAgree'
  <2>1. \A c \in PartCard : cardRow[c].rev \in Nat
    BY DEF PartsInv, PartsToldInv, PartShapes, PartRow
  <2> QED BY <1>1, <1>3, <1>4, <2>1 DEF PartsInv, PartsToldInv, ReadsAgree, partTables, There
<1>7. AloneSeesAll'
  BY <1>1, <1>3, <1>4 DEF PartsInv, PartsToldInv, AloneSeesAll, UnderWay, partTables
<1>8. AnswersPast'
  BY <1>1, <1>2, <1>4 DEF PartsInv, PartsToldInv, AnswersPast, partTables
<1>9. ReplyHasItsParts'
  BY <1>1, <1>4 DEF PartsInv, PartsToldInv, ReplyHasItsParts, partTables, There
<1> QED BY <1>4, <1>5, <1>6, <1>7, <1>8, <1>9, TablesStand DEF PartsInv, PartsToldInv

\* A transaction that leaves the items alone.
LEMMA ItemsStand ==
  ASSUME PartsInv, items' = items, mayOverlap' = mayOverlap PROVE ItemsBounded' /\ ChecklistOrdered'
BY DEF PartsInv, ItemsBounded, ChecklistOrdered

\* No card goes, and a new dependency is between cards that are there.
LEMMA DepsAfter ==
  ASSUME PartsInv, \A c \in PartCard : There(c) => There(c)',
         \A d \in deps' : d \in deps \/ (d \in PartCard \X PartCard /\ There(d[1]) /\ There(d[2]))
  PROVE  DepsStand'
<1> SUFFICES ASSUME NEW d \in deps' PROVE d \in PartCard \X PartCard /\ There(d[1])' /\ There(d[2])'
  BY DEF DepsStand, There
<1>1. d \in PartCard \X PartCard /\ There(d[1]) /\ There(d[2])
  BY DEF PartsInv, DepsStand
<1> QED BY <1>1

\* Save leaves every card where it is.
LEMMA SaveStays ==
  ASSUME PartsInv, NEW r, NEW parts, NEW events, Save(r, parts, events)
  PROVE  \A c \in PartCard : There(c) => There(c)'
<1> SUFFICES ASSUME NEW c \in PartCard PROVE cardRow'[c].board = cardRow[c].board
  BY DEF There
<1>1. PICK entry \in PartRow : entry = cardRow[c]
  BY DEF PartsInv, PartsToldInv, PartShapes
<1>2. cardRow'[c] = IF c \in DOMAIN parts THEN [entry EXCEPT !.rev = entry.rev + 1] ELSE entry
  BY <1>1 DEF Save
<1> QED BY <1>1, <1>2 DEF PartRow

\* A request under way in its transaction, whose cards are there.
LEMMA SavedKeeps ==
  ASSUME PartsInv, NEW r \in PartRequest, step[r] = "read", NEW parts, NEW C, NEW events, DOMAIN parts = C, C \subseteq PartCard,
         \A c \in C : There(c) /\ parts[c] \in Part, Save(r, parts, events),
         events = Announce(r, parts) \/ events = {Said(r, c, parts[c], -1) : c \in C},
         ThenFetch(r) \/ ThenAnswer(r)
  PROVE  PartsToldInv'
BY SaveWrites, TransactionKeeps

\* Dependencies: both ends are announced.
LEMMA DependencySaved ==
  ASSUME PartsInv, NEW r \in PartRequest, NEW kind \in {"depend", "undepend"}, Ready(r, kind), There(ask[r].on),
         Save(r, BothEnds(ask[r]), Announce(r, BothEnds(ask[r]))), ThenFetch(r)
  PROVE  PartsToldInv'
<1>1. step[r] = "read" /\ There(ask[r].card) /\ ask[r].card \in PartCard /\ ask[r].on \in PartCard
  BY DEF PartsInv, PartsToldInv, PartShapes, Ready, UnderWay
<1>2. PICK parts, C : parts = BothEnds(ask[r]) /\ C = {ask[r].card, ask[r].on}
  OBVIOUS
<1>3. DOMAIN parts = C /\ C \subseteq PartCard /\ \A c \in C : There(c) /\ parts[c] \in Part
  BY <1>1, <1>2 DEF BothEnds, Part
<1> QED BY <1>1, <1>2, <1>3, SavedKeeps

\* A part of one card.
LEMMA PartSaved ==
  ASSUME PartsInv, NEW r \in PartRequest, step[r] = "read", There(ask[r].card), NEW kept \in Part, SavePart(r, kept),
         ThenFetch(r) \/ ThenAnswer(r)
  PROVE  PartsToldInv'
<1>1. ask[r].card \in PartCard
  BY DEF PartsInv, PartsToldInv, PartShapes, UnderWay
<1>2. PICK parts, C : parts = Each({ask[r].card}, kept) /\ C = {ask[r].card}
  OBVIOUS
<1>3. DOMAIN parts = C /\ C \subseteq PartCard /\ \A c \in C : There(c) /\ parts[c] \in Part
  BY <1>1, <1>2 DEF Each
<1>4. Save(r, parts, Announce(r, parts))
  BY <1>2 DEF SavePart
<1> QED BY <1>3, <1>4, SavedKeeps

\* Labels of several cards at once, announced without the revision before.
LEMMA LabelsSaved ==
  ASSUME PartsInv, NEW r \in PartRequest, BulkUpdateCardLabels(r) PROVE PartsToldInv'
<1>1. PICK C : C = {ask[r].card, ask[r].also}
  OBVIOUS
<1>2. PICK parts : parts = Each(C, "labels")
  OBVIOUS
<1>3. /\ step[r] = "read" /\ C \subseteq PartCard /\ \A c \in C : There(c)
  BY <1>1 DEF BulkUpdateCardLabels, Ready, PartsInv, PartsToldInv, PartShapes, UnderWay
<1>4. Save(r, parts, {Said(r, c, "labels", -1) : c \in C}) /\ ThenFetch(r)
  BY <1>1, <1>2 DEF BulkUpdateCardLabels
<1>5. DOMAIN parts = C /\ \A c \in C : There(c) /\ parts[c] \in Part /\ parts[c] = "labels"
  BY <1>2, <1>3 DEF Each, Part
<1>6. {Said(r, c, "labels", -1) : c \in C} = {Said(r, c, parts[c], -1) : c \in C}
  BY <1>5
<1>7. PICK events : events = {Said(r, c, "labels", -1) : c \in C}
  OBVIOUS
<1>8. Save(r, parts, events) /\ events = {Said(r, c, parts[c], -1) : c \in C}
  BY <1>4, <1>6, <1>7
<1> QED BY <1>3, <1>4, <1>5, <1>8, SavedKeeps

\* Nothing to remove: the event that is written all the same tells of no change.
LEMMA NothingRemoved ==
  ASSUME PartsInv, NEW r \in PartRequest, Ready(r, "undepend"), ThenFetch(r), UNCHANGED <<cardRow, stamp>>,
         said' = said \cup {[Said(r, ask[r].card, "dependencies", read[r][ask[r].card].rev)
                                EXCEPT !.rev = read[r][ask[r].card].rev, !.change = FALSE]}
  PROVE  PartsToldInv'
<1>1. /\ step[r] = "read" /\ There(ask[r].card) /\ ask[r].card \in PartCard /\ mayOverlap' = mayOverlap
      /\ cardRow' = cardRow /\ stamp' = stamp
  BY DEF PartsInv, PartsToldInv, PartShapes, Ready, UnderWay, ThenFetch
<1>2. PICK c \in PartCard : c = ask[r].card
  BY <1>1
<1>3. PICK n : n = [Said(r, c, "dependencies", read[r][c].rev) EXCEPT !.rev = read[r][c].rev, !.change = FALSE]
  OBVIOUS
<1>4. /\ n.card = c /\ n.rev = read[r][c].rev /\ n.change = FALSE /\ n.board = read[r][c].board
      /\ n.home = cardRow[c].board
  BY <1>3 DEF Said
<1>5. said' = said \cup {n}
  BY <1>2, <1>3
<1>6. n.rev \in Nat /\ n.rev <= cardRow[c].rev
  BY <1>1, <1>2, <1>4 DEF PartsInv, PartsToldInv, ReadsAgree, PartShapes, PartRow
<1>7. \A d : Changes(d)' = Changes(d) /\ {e \in said' : e.card = d /\ e.change} = {e \in said : e.card = d /\ e.change}
  BY <1>4, <1>5 DEF Changes
<1>8. EventsPast'
  <2>1. \A e \in said' : e.card \in PartCard /\ e.rev \in Nat /\ e.rev <= cardRow'[e.card].rev /\ e.change \in BOOLEAN
    BY <1>1, <1>4, <1>5, <1>6 DEF PartsInv, PartsToldInv, EventsPast
  <2>2. \A d \in PartCard : IsFiniteSet(Changes(d)')
    BY <1>7 DEF PartsInv, PartsToldInv, RevisionsCounted
  <2> QED BY <2>1, <2>2 DEF EventsPast, Changes
<1>9. RevisionsCounted'
  <2>1. \A d \in PartCard : IsFiniteSet(Changes(d)')
    BY <1>7 DEF PartsInv, PartsToldInv, RevisionsCounted
  <2>2. ASSUME NEW d \in PartCard
        PROVE  LET events == {e \in said' : e.card = d /\ e.change}
               IN  /\ {e.rev : e \in events} = 1..cardRow'[d].rev
                   /\ Cardinality(events) = cardRow'[d].rev
    BY <1>1, <1>7 DEF PartsInv, PartsToldInv, RevisionsCounted, RevisionsAnnouncedOnce
  <2> QED BY <2>1, <2>2 DEF RevisionsCounted, RevisionsAnnouncedOnce, Changes
<1>10. PartsStamped' /\ StrayEventShowsGap'
  BY <1>1, <1>4, <1>5 DEF PartsInv, PartsToldInv, PartsStamped, StrayEventShowsGap, There
<1>11. ToldAtHome'
  BY <1>1, <1>4, <1>5 DEF PartsInv, PartsToldInv, ToldAtHome, AloneSeesAll
<1>12. RowsAge
  BY <1>1, <1>4, <1>5 DEF PartsInv, PartsToldInv, PartShapes, RowsAge, StampsPast, There, PartRow
<1> QED BY <1>1, <1>8, <1>9, <1>10, <1>11, <1>12, EndOfWrite DEF PartsToldInv

\* A card moves to another board.
LEMMA MoveKeepsParts == ASSUME PartsInv, NEW r \in PartRequest, MoveToBoard(r) PROVE PartsInv'
<1>1. PICK c, b : c = ask[r].card /\ b = ask[r].to
  OBVIOUS
<1>2. /\ step[r] = "read" /\ There(c) /\ c \in PartCard /\ b \in PartBoard
  BY <1>1 DEF MoveToBoard, Ready, PartsInv, PartsToldInv, PartShapes, UnderWay
<1>3. /\ cardRow' = [cardRow EXCEPT ![c] = [board |-> b, rev |-> cardRow[c].rev + 1]]
      /\ said' = said \cup {Said(r, c, "none", read[r][c].rev)} /\ ThenFetch(r)
      /\ UNCHANGED <<stamp, items>>
  BY <1>1 DEF MoveToBoard
<1>4. PICK e : e = Said(r, c, "none", read[r][c].rev)
  OBVIOUS
<1>5. /\ cardRow' \in [PartCard -> PartRow] /\ cardRow'[c].rev = cardRow[c].rev + 1 /\ cardRow'[c].board = b
      /\ \A d \in PartCard : d # c => cardRow'[d] = cardRow[d]
  <2>1. cardRow \in [PartCard -> PartRow] /\ cardRow[c].rev \in Nat
    BY <1>2 DEF PartsInv, PartsToldInv, PartShapes, PartRow
  <2>2. PICK entry \in PartRow : entry = [board |-> b, rev |-> cardRow[c].rev + 1]
    <3>1. [board |-> b, rev |-> cardRow[c].rev + 1] \in PartRow
      BY <1>2, <2>1 DEF PartRow
    <3> QED BY <3>1, Zenon
  <2>3. cardRow' = [cardRow EXCEPT ![c] = entry]
    BY <1>3, <2>2
  <2> QED BY <1>2, <2>1, <2>2, <2>3
<1>6. StampsPast' /\ stamp' \in [PartCard -> [Part -> Nat]] /\ \A d \in PartCard, p \in Part : stamp[d][p] <= stamp'[d][p]
  <2>1. \A d \in PartCard : cardRow[d].rev \in Nat /\ cardRow'[d].rev \in Nat /\ cardRow[d].rev <= cardRow'[d].rev
    BY <1>5 DEF PartsInv, PartsToldInv, PartShapes, PartRow
  <2>2. \A d \in PartCard, p \in Part : stamp[d][p] \in Nat /\ stamp[d][p] <= cardRow[d].rev
    BY DEF PartsInv, PartsToldInv, PartShapes, StampsPast
  <2> QED BY <1>3, <2>1, <2>2 DEF PartsInv, PartsToldInv, PartShapes, StampsPast
<1>7. /\ e.card = c /\ e.change = TRUE /\ e.rev = cardRow[c].rev + 1 /\ e.home = cardRow[c].board
      /\ e.board = read[r][c].board /\ e.prev = read[r][c].rev /\ e.part \notin Part
  BY <1>4 DEF Said, Part
<1>8. PICK C, events : C = {c} /\ events = {e}
  OBVIOUS
<1>9. Written(r, C, events)
  <2>1. C \subseteq PartCard /\ \A d \in PartCard \ C : cardRow'[d] = cardRow[d]
    BY <1>2, <1>5, <1>8
  <2>2. \A d \in C : There(d) /\ There(d)' /\ cardRow'[d].rev = cardRow[d].rev + 1
    BY <1>2, <1>5, <1>8, PartsAssumption DEF There
  <2>3. said' = said \cup events
    BY <1>3, <1>4, <1>8
  <2>4. \A f \in events :
         /\ f.card \in C /\ f.change = TRUE /\ f.rev = cardRow[f.card].rev + 1
         /\ f.home = cardRow[f.card].board /\ f.board = read[r][f.card].board
         /\ f.prev = -1 \/ f.prev = read[r][f.card].rev
         /\ f.part \in Part => stamp'[f.card][f.part] = f.rev
    BY <1>7, <1>8
  <2>5. (\A d \in C : \E f \in events : f.card = d) /\ (\A f, g \in events : f.card = g.card => f = g)
    BY <1>7, <1>8
  <2> QED BY <1>5, <1>6, <2>1, <2>2, <2>3, <2>4, <2>5, Zenon DEF Written
<1>10. mayOverlap' = mayOverlap
  BY <1>3 DEF ThenFetch
<1>11. DepsStand'
  <2>1. \A d \in PartCard : There(d) => There(d)'
    BY <1>2, <1>5, PartsAssumption DEF There
  <2>2. deps' = deps
    BY DEF MoveToBoard
  <2> QED BY <2>1, <2>2, DepsAfter
<1>12. PartsToldInv' /\ ItemsBounded' /\ ChecklistOrdered'
  BY <1>2, <1>3, <1>9, <1>10, TransactionKeeps, ItemsStand
<1> QED BY <1>11, <1>12 DEF PartsInv

\* The items of a card are gone with it, or one of them is: nothing moves.
LEMMA ItemsGo ==
  ASSUME PartsInv, NEW S, mayOverlap' = mayOverlap,
         items' = [i \in Item |-> IF i \in S THEN [card |-> NoCard, pos |-> 0] ELSE items[i]]
  PROVE  ItemsBounded' /\ ChecklistOrdered'
<1>1. items \in [Item -> [card : PartCard \cup {NoCard}, pos : Nat]]
  BY DEF PartsInv, ItemsBounded
<1>2. PICK n \in Nat : \A i \in Item : items[i].pos <= n
  BY DEF PartsInv, ItemsBounded
<1>3. items' \in [Item -> [card : PartCard \cup {NoCard}, pos : Nat]] /\ \A i \in Item : items'[i].pos <= n
  BY <1>1, <1>2
<1>4. \A i \in Item : items'[i].card # NoCard => items'[i] = items[i]
  BY <1>1
<1> QED BY <1>2, <1>3, <1>4 DEF PartsInv, ItemsBounded, ChecklistOrdered

\* A card is deleted with its parts.
LEMMA DeleteKeepsParts == ASSUME PartsInv, NEW r \in PartRequest, DeleteWithParts(r) PROVE PartsInv'
<1>1. PICK c : c = ask[r].card
  OBVIOUS
<1>2. step[r] = "read" /\ There(c) /\ c \in PartCard
  BY <1>1 DEF DeleteWithParts, Ready, PartsInv, PartsToldInv, PartShapes, UnderWay
<1>3. /\ cardRow' = [cardRow EXCEPT ![c].board = NoPartBoard] /\ stamp' = [stamp EXCEPT ![c] = Blank]
      /\ items' = [i \in Item |-> IF items[i].card = c THEN [card |-> NoCard, pos |-> 0] ELSE items[i]]
      /\ ThenAnswer(r) /\ said' = said /\ mayOverlap' = mayOverlap
  BY <1>1 DEF DeleteWithParts, ThenAnswer
<1>4. /\ cardRow' \in [PartCard -> PartRow] /\ cardRow'[c].rev = cardRow[c].rev /\ ~There(c)'
      /\ \A d \in PartCard : d # c => cardRow'[d] = cardRow[d]
  <2>1. cardRow \in [PartCard -> PartRow]
    BY DEF PartsInv, PartsToldInv, PartShapes
  <2>2. PICK entry \in PartRow : entry = [cardRow[c] EXCEPT !.board = NoPartBoard] /\ entry.board = NoPartBoard /\ entry.rev = cardRow[c].rev
    <3>1. cardRow[c] \in PartRow
      BY <1>2, <2>1
    <3>2. [cardRow[c] EXCEPT !.board = NoPartBoard] \in PartRow
      BY <3>1 DEF PartRow
    <3> QED BY <3>1, <3>2 DEF PartRow
  <2>3. cardRow' = [cardRow EXCEPT ![c] = entry]
    BY <1>3, <2>2
  <2> QED BY <1>2, <2>1, <2>2, <2>3 DEF There
<1>5. /\ stamp' \in [PartCard -> [Part -> Nat]] /\ \A d \in PartCard : d # c => stamp'[d] = stamp[d]
      /\ \A p \in Part : stamp'[c][p] = 0
  <2>1. Blank \in [Part -> Nat] /\ \A p \in Part : Blank[p] = 0
    BY DEF Blank
  <2>2. stamp \in [PartCard -> [Part -> Nat]]
    BY DEF PartsInv, PartsToldInv, PartShapes
  <2> QED BY <1>2, <1>3, <2>1, <2>2
<1>6. \A d \in PartCard : cardRow[d].rev \in Nat /\ cardRow'[d].rev = cardRow[d].rev
  BY <1>4 DEF PartsInv, PartsToldInv, PartShapes, PartRow
<1>7. StampsPast'
  <2> SUFFICES ASSUME NEW d \in PartCard, NEW p \in Part PROVE stamp'[d][p] <= cardRow'[d].rev
    BY DEF StampsPast
  <2>1. stamp[d][p] <= cardRow[d].rev
    BY DEF PartsInv, PartsToldInv, PartShapes, StampsPast
  <2> QED BY <1>5, <1>6, <2>1
<1>8. RowsAge
  BY <1>3, <1>4, <1>5, <1>6, <1>7 DEF RowsAge, There
<1>9. EventsPast' /\ RevisionsCounted'
  BY <1>3, <1>6 DEF PartsInv, PartsToldInv, EventsPast, RevisionsCounted, RevisionsAnnouncedOnce, Changes
<1>10. PartsStamped' /\ StrayEventShowsGap' /\ ToldAtHome'
  <2>1. PartsStamped'
    BY <1>3, <1>4, <1>5 DEF PartsInv, PartsToldInv, PartsStamped, EventsPast, There
  <2> QED BY <1>3, <2>1 DEF PartsInv, PartsToldInv, StrayEventShowsGap, ToldAtHome
<1>11. ItemsBounded' /\ ChecklistOrdered'
  <2>1. PICK S : S = {i \in Item : items[i].card = c}
    OBVIOUS
  <2>2. items' = [i \in Item |-> IF i \in S THEN [card |-> NoCard, pos |-> 0] ELSE items[i]]
    BY <1>3, <2>1
  <2> QED BY <1>3, <2>2, ItemsGo
<1>12. DepsStand'
  <2> SUFFICES ASSUME NEW d \in deps' PROVE d \in PartCard \X PartCard /\ There(d[1])' /\ There(d[2])'
    BY DEF DepsStand, There
  <2>1. d \in deps /\ d[1] # c /\ d[2] # c
    BY <1>1 DEF DeleteWithParts
  <2>2. d \in PartCard \X PartCard /\ There(d[1]) /\ There(d[2])
    BY <2>1 DEF PartsInv, DepsStand
  <2> QED BY <1>4, <2>1, <2>2 DEF There
<1> QED BY <1>2, <1>3, <1>8, <1>9, <1>10, <1>11, <1>12, EndOfWrite DEF PartsInv, PartsToldInv

\* The next position of a checklist is behind every item.
LEMMA NextBehind ==
  ASSUME ItemsBounded, NEW c
  PROVE  NextItemPos(c) \in Nat /\ \A i \in Checklist(c) : items[i].pos < NextItemPos(c)
<1>1. PICK P : P = {items[i].pos : i \in Checklist(c)}
  OBVIOUS
<1>2. PICK n \in Nat : \A i \in Item : items[i].pos <= n
  BY DEF ItemsBounded
<1>3. P \subseteq Nat /\ \A p \in P : p <= n
  BY <1>1, <1>2 DEF Checklist, ItemsBounded
<1>4. PICK N : N = {0} \cup {items[i].pos + 1 : i \in Checklist(c)}
  OBVIOUS
<1>5. \E m \in N : \A i \in Checklist(c) : items[i].pos < m
  <2>1. CASE Checklist(c) = {}
    BY <1>4, <2>1
  <2>2. CASE Checklist(c) # {}
    <3>1. PICK x \in P : \A y \in P : y <= x
      BY <1>1, <1>2, <1>3, <2>2, GreatestNatural
    <3>2. x + 1 \in N /\ x \in Nat
      BY <1>1, <1>3, <1>4, <3>1
    <3>3. \A i \in Checklist(c) : items[i].pos < x + 1
      <4> TAKE i \in Checklist(c)
      <4>1. PICK y \in P : y = items[i].pos
        BY <1>1
      <4> QED BY <1>3, <3>1, <3>2, <4>1
    <3> QED BY <3>2, <3>3
  <2> QED BY <2>1, <2>2
<1>6. NextItemPos(c) = CHOOSE m \in N : \A i \in Checklist(c) : items[i].pos < m
  BY <1>4 DEF NextItemPos
<1>7. NextItemPos(c) \in N /\ \A i \in Checklist(c) : items[i].pos < NextItemPos(c)
  BY <1>5, <1>6
<1>8. N \subseteq Nat
  BY <1>4 DEF Checklist, ItemsBounded
<1> QED BY <1>7, <1>8

\* An item at the end, or one that the others make room for.
LEMMA ItemMade ==
  ASSUME PartsInv, NEW a, a.item \in Item, a.card \in PartCard, a.pos \in Nat, items[a.item].card = NoCard,
         mayOverlap' = mayOverlap,
         items' = IF a.pos = 0
                  THEN [items EXCEPT ![a.item] = [card |-> a.card, pos |-> NextItemPos(a.card)]]
                  ELSE InsertedItem(a.card, a.item, a.pos)
  PROVE  ItemsBounded' /\ ChecklistOrdered'
<1>1. items \in [Item -> [card : PartCard \cup {NoCard}, pos : Nat]] /\ ItemsBounded
  BY DEF PartsInv, ItemsBounded
<1>2. PICK n \in Nat : \A i \in Item : items[i].pos <= n
  BY DEF PartsInv, ItemsBounded
<1>3. \A i \in Item : items[i].pos \in Nat /\ items[i].card \in PartCard \cup {NoCard}
  BY <1>1
<1>4. PICK new \in Item, c \in PartCard, p \in Nat : new = a.item /\ c = a.card /\ p = a.pos
  OBVIOUS
<1>5. CASE p = 0
  <2>1. PICK last \in Nat : last = NextItemPos(c) /\ \A i \in Item : items[i].card = c => items[i].pos < last
    BY <1>1, NextBehind DEF Checklist
  <2>2. items' = [items EXCEPT ![new] = [card |-> c, pos |-> last]]
    BY <1>4, <1>5, <2>1
  <2>3. items'[new] = [card |-> c, pos |-> last] /\ \A i \in Item : i # new => items'[i] = items[i]
    BY <1>1, <2>2
  <2>4. items' \in [Item -> [card : PartCard \cup {NoCard}, pos : Nat]]
    BY <1>1, <2>2
  <2>5. ItemsBounded'
    <3>1. \A i \in Item : items'[i].pos <= n + last
      BY <1>2, <1>3, <2>3
    <3> QED BY <2>4, <3>1 DEF ItemsBounded
  <2>6. ChecklistOrdered'
    <3> SUFFICES ASSUME ~mayOverlap, NEW i \in Item, NEW j \in Item, i # j, items'[i].card = items'[j].card, items'[i].card # NoCard
                 PROVE  items'[i].pos # items'[j].pos
      BY DEF ChecklistOrdered
    <3>1. CASE i # new /\ j # new
      BY <2>3, <3>1 DEF PartsInv, ChecklistOrdered
    <3>2. CASE i = new
      BY <1>3, <2>1, <2>3, <3>2
    <3>3. CASE j = new
      BY <1>3, <2>1, <2>3, <3>3
    <3> QED BY <3>1, <3>2, <3>3
  <2> QED BY <2>5, <2>6
<1>6. CASE p # 0
  <2>1. items' = [i \in Item |-> IF i = new THEN [card |-> c, pos |-> p]
                    ELSE IF items[i].card = c /\ items[i].pos >= p THEN [items[i] EXCEPT !.pos = @ + 1] ELSE items[i]]
    BY <1>4, <1>6 DEF InsertedItem
  <2>2. items'[new].card = c /\ items'[new].pos = p
    BY <2>1
  <2>3. ASSUME NEW i \in Item, i # new
        PROVE  /\ items'[i] \in [card : PartCard \cup {NoCard}, pos : Nat] /\ items'[i].card = items[i].card
               /\ items[i].card = c => items'[i].pos = (IF items[i].pos >= p THEN items[i].pos + 1 ELSE items[i].pos)
               /\ items[i].card # c => items'[i].pos = items[i].pos
    <3>1. PICK it \in [card : PartCard \cup {NoCard}, pos : Nat] : it = items[i]
      BY <1>1
    <3>2. items'[i] = IF it.card = c /\ it.pos >= p THEN [it EXCEPT !.pos = it.pos + 1] ELSE it
      BY <2>1, <2>3, <3>1
    <3> QED BY <3>1, <3>2
  <2>4. items' \in [Item -> [card : PartCard \cup {NoCard}, pos : Nat]]
    <3>1. items'[new] \in [card : PartCard \cup {NoCard}, pos : Nat]
      BY <2>1
    <3>2. items' = [i \in Item |-> items'[i]]
      BY <2>1
    <3> QED BY <2>3, <3>1, <3>2
  <2>5. ItemsBounded'
    <3>1. \A i \in Item : items'[i].pos <= n + p + 1
      BY <1>2, <1>3, <2>2, <2>3
    <3>2. n + p + 1 \in Nat
      OBVIOUS
    <3> QED BY <2>4, <3>1, <3>2 DEF ItemsBounded
  <2>6. ChecklistOrdered'
    <3> SUFFICES ASSUME ~mayOverlap, NEW i \in Item, NEW j \in Item, i # j, items'[i].card = items'[j].card, items'[i].card # NoCard
                 PROVE  items'[i].pos # items'[j].pos
      BY DEF ChecklistOrdered
    <3>1. CASE i # new /\ j # new
      <4>1. items[i].card = items[j].card /\ items[i].pos # items[j].pos
        BY <2>3, <3>1 DEF PartsInv, ChecklistOrdered
      <4> QED BY <1>3, <2>3, <3>1, <4>1
    <3>2. CASE i = new
      BY <1>3, <2>2, <2>3, <3>2
    <3>3. CASE j = new
      BY <1>3, <2>2, <2>3, <3>3
    <3> QED BY <3>1, <3>2, <3>3
  <2> QED BY <2>5, <2>6
<1> QED BY <1>5, <1>6

\* AddChecklistItem.
LEMMA AddItemKeeps == ASSUME PartsInv, NEW r \in PartRequest, AddChecklistItem(r) PROVE PartsInv'
<1>1. PICK a : a = ask[r]
  OBVIOUS
<1>2. step[r] = "read" /\ There(ask[r].card) /\ a.card \in PartCard /\ a.item \in Item /\ a.pos \in Nat
  BY <1>1 DEF AddChecklistItem, Ready, PartsInv, PartsToldInv, PartShapes, UnderWay
<1>3. /\ items[a.item].card = NoCard /\ SavePart(r, "checklist") /\ ThenFetch(r)
      /\ items' = IF a.pos = 0
                  THEN [items EXCEPT ![a.item] = [card |-> a.card, pos |-> NextItemPos(a.card)]]
                  ELSE InsertedItem(a.card, a.item, a.pos)
  BY <1>1 DEF AddChecklistItem
<1>4. mayOverlap' = mayOverlap /\ "checklist" \in Part
  BY <1>3 DEF ThenFetch, Part
<1>5. PartsToldInv'
  BY <1>2, <1>3, <1>4, PartSaved
<1>6. ItemsBounded' /\ ChecklistOrdered'
  BY <1>2, <1>3, <1>4, ItemMade
<1>7. DepsStand'
  BY <1>3, SaveStays, DepsAfter DEF SavePart, AddChecklistItem
<1> QED BY <1>5, <1>6, <1>7 DEF PartsInv

\* RemoveChecklistItem.
LEMMA RemoveItemKeeps == ASSUME PartsInv, NEW r \in PartRequest, RemoveChecklistItem(r) PROVE PartsInv'
<1>1. step[r] = "read" /\ There(ask[r].card) /\ ask[r].item \in Item
  BY DEF RemoveChecklistItem, Ready, Checklist
<1>2. /\ items' = [items EXCEPT ![ask[r].item] = [card |-> NoCard, pos |-> 0]]
      /\ SavePart(r, "checklist") /\ ThenAnswer(r) /\ mayOverlap' = mayOverlap /\ "checklist" \in Part
  BY DEF RemoveChecklistItem, ThenAnswer, Part
<1>3. PartsToldInv'
  BY <1>1, <1>2, PartSaved
<1>4. ItemsBounded' /\ ChecklistOrdered'
  <2>1. PICK S : S = {ask[r].item}
    OBVIOUS
  <2>2. items \in [Item -> [card : PartCard \cup {NoCard}, pos : Nat]]
    BY DEF PartsInv, ItemsBounded
  <2>3. items' = [i \in Item |-> IF i \in S THEN [card |-> NoCard, pos |-> 0] ELSE items[i]]
    BY <1>2, <2>1, <2>2
  <2> QED BY <1>2, <2>3, ItemsGo
<1>5. DepsStand'
  BY <1>2, SaveStays, DepsAfter DEF SavePart, RemoveChecklistItem
<1> QED BY <1>3, <1>4, <1>5 DEF PartsInv

\* The transactions that change one part of one card, and no item.
LEMMA OnePartKeeps ==
  ASSUME PartsInv, NEW r \in PartRequest,
         \/ AssignOrUnassign(r) \/ UpdateChecklistItem(r) \/ AddComment(r) \/ EditComment(r) \/ DeleteComment(r)
  PROVE  PartsInv'
<1>1. step[r] = "read" /\ There(ask[r].card) /\ items' = items
  BY DEF AssignOrUnassign, UpdateChecklistItem, AddComment, EditComment, DeleteComment, Ready
<1>2. PICK kept \in {"assignees", "checklist", "comments"} : SavePart(r, kept)
  BY DEF AssignOrUnassign, UpdateChecklistItem, AddComment, EditComment, DeleteComment
<1>3. ThenFetch(r) \/ ThenAnswer(r)
  BY DEF AssignOrUnassign, UpdateChecklistItem, AddComment, EditComment, DeleteComment
<1>4. mayOverlap' = mayOverlap /\ kept \in Part
  BY <1>3 DEF ThenFetch, ThenAnswer, Part
<1>5. PartsToldInv'
  BY <1>1, <1>2, <1>3, <1>4, PartSaved
<1>6. deps' = deps
  BY DEF AssignOrUnassign, UpdateChecklistItem, AddComment, EditComment, DeleteComment
<1>7. DepsStand'
  BY <1>2, <1>6, SaveStays, DepsAfter DEF SavePart
<1> QED BY <1>1, <1>4, <1>5, <1>7, ItemsStand DEF PartsInv

\* Dependencies and labels.
LEMMA SeveralCardsKeep ==
  ASSUME PartsInv, NEW r \in PartRequest,
         AddCardDependency(r) \/ RemoveCardDependency(r) \/ BulkUpdateCardLabels(r)
  PROVE  PartsInv'
<1>1. items' = items /\ ThenFetch(r)
  BY DEF AddCardDependency, RemoveCardDependency, BulkUpdateCardLabels
<1>2. mayOverlap' = mayOverlap
  BY <1>1 DEF ThenFetch
<1>3. CASE AddCardDependency(r)
  <2>1. Ready(r, "depend") /\ There(ask[r].on) /\ Save(r, BothEnds(ask[r]), Announce(r, BothEnds(ask[r])))
    BY <1>3 DEF AddCardDependency
  <2>2. PartsToldInv'
    BY <1>1, <2>1, DependencySaved
  <2>3. DepsStand'
    <3>1. deps' = deps \cup {<<ask[r].card, ask[r].on>>} /\ step[r] = "read" /\ ask[r].kind = "depend" /\ There(ask[r].card)
      BY <1>3 DEF AddCardDependency, Ready
    <3>2. ask[r].card \in PartCard /\ ask[r].on \in PartCard
      BY <3>1 DEF PartsInv, PartsToldInv, PartShapes, UnderWay
    <3>3. \A d \in deps' : d \in deps \/ (d \in PartCard \X PartCard /\ There(d[1]) /\ There(d[2]))
      BY <2>1, <3>1, <3>2
    <3> QED BY <2>1, <3>3, SaveStays, DepsAfter
  <2> QED BY <1>1, <1>2, <2>2, <2>3, ItemsStand DEF PartsInv
<1>4. CASE RemoveCardDependency(r)
  <2>1. Ready(r, "undepend")
    BY <1>4 DEF RemoveCardDependency
  <2>4. deps' \subseteq deps
    BY <1>4 DEF RemoveCardDependency
  <2>2. CASE <<ask[r].card, ask[r].on>> \in deps /\ Save(r, BothEnds(ask[r]), Announce(r, BothEnds(ask[r])))
    <3>1. There(ask[r].on)
      BY <2>2 DEF PartsInv, DepsStand
    <3>2. PartsToldInv'
      BY <1>1, <2>1, <2>2, <3>1, DependencySaved
    <3>3. DepsStand'
      BY <2>2, <2>4, SaveStays, DepsAfter
    <3> QED BY <1>1, <1>2, <3>2, <3>3, ItemsStand DEF PartsInv
  <2>3. CASE /\ UNCHANGED <<cardRow, stamp>>
             /\ said' = said \cup {[Said(r, ask[r].card, "dependencies", read[r][ask[r].card].rev)
                                       EXCEPT !.rev = read[r][ask[r].card].rev, !.change = FALSE]}
    <3>1. PartsToldInv'
      BY <1>1, <2>1, <2>3, NothingRemoved
    <3>2. DepsStand'
      BY <2>3, <2>4 DEF PartsInv, DepsStand, There
    <3> QED BY <1>1, <1>2, <3>1, <3>2, ItemsStand DEF PartsInv
  <2> QED BY <1>4, <2>2, <2>3 DEF RemoveCardDependency
<1>5. CASE BulkUpdateCardLabels(r)
  <2>1. PartsToldInv'
    BY <1>5, LabelsSaved
  <2>2. DepsStand'
    BY <1>5, SaveStays, DepsAfter DEF BulkUpdateCardLabels
  <2> QED BY <1>1, <1>2, <2>1, <2>2, ItemsStand DEF PartsInv
<1> QED BY <1>3, <1>4, <1>5

\* A transaction rolls back.
LEMMA RollbackKeepsParts == ASSUME PartsInv, NEW r \in PartRequest, Rollback(r) PROVE PartsInv'
<1>1. step[r] = "read" /\ ThenAnswer(r) /\ UNCHANGED partTables
  BY DEF Rollback
<1>2. UNCHANGED <<partTables, mayOverlap>>
  BY <1>1 DEF ThenAnswer
<1>3. EventsPast' /\ RevisionsCounted' /\ PartsStamped' /\ StrayEventShowsGap' /\ ToldAtHome'
         /\ StampsPast' /\ ItemsBounded' /\ ChecklistOrdered' /\ DepsStand'
  BY <1>2, TablesStand
<1>4. RowsAge
  BY <1>1, <1>3 DEF RowsAge, partTables, PartsInv, PartsToldInv, PartShapes, PartRow, There
<1> QED BY <1>1, <1>3, <1>4, EndOfWrite DEF PartsInv, PartsToldInv

\* A request that ends without a write.
LEMMA RequestEnds ==
  ASSUME PartsInv, NEW r \in PartRequest, Answered(r), UNCHANGED <<partTables, mayOverlap>>, StampsPast',
         answer' \in [PartRequest -> PartAnswer]
  PROVE  PartShapes' /\ ReadsAgree' /\ AloneSeesAll'
<1>1. /\ step' \in [PartRequest -> {"idle", "read", "saved", "row", "done"}] /\ step'[r] = "done"
      /\ \A q \in PartRequest : q # r => step'[q] = step[q]
  BY DEF PartsInv, PartsToldInv, PartShapes, Answered
<1>2. /\ ask' = [q \in PartRequest |-> ask'[q]] /\ \A q \in PartRequest : q # r => ask'[q] = ask[q]
  <2>1. ask = [q \in PartRequest |-> ask[q]] /\ ask' = [ask EXCEPT ![r] = [kind |-> "none"]]
    BY DEF PartsInv, PartsToldInv, PartShapes, Answered
  <2> QED BY <2>1
<1>3. /\ read' \in [PartRequest -> [PartCard -> PartRow]] /\ \A q \in PartRequest : q # r => read'[q] = read[q]
  <2>1. read \in [PartRequest -> [PartCard -> PartRow]] /\ Unread \in [PartCard -> PartRow]
    BY DEF PartsInv, PartsToldInv, PartShapes, Unread, PartRow
  <2> QED BY <2>1 DEF Answered
<1>4. PartShapes'
  <2>1. \A q \in PartRequest : step'[q] \notin {"idle", "done"} => step[q] = step'[q] /\ ask'[q] = ask[q]
    BY <1>1, <1>2
  <2>2. \A q \in PartRequest : step'[q] \notin {"idle", "done"} => ask'[q].card \in PartCard
    BY <2>1 DEF PartsInv, PartsToldInv, PartShapes, UnderWay
  <2>3. \A q \in PartRequest : step'[q] = "read" =>
          /\ ask'[q].kind \in {"depend", "undepend"} => ask'[q].on \in PartCard /\ ask'[q].on # ask'[q].card
          /\ ask'[q].kind = "label" => ask'[q].also \in PartCard
          /\ ask'[q].kind = "addItem" => ask'[q].item \in Item /\ ask'[q].pos \in Nat
          /\ ask'[q].kind = "move" => ask'[q].to \in PartBoard
    BY <2>1 DEF PartsInv, PartsToldInv, PartShapes
  <2>4. mayOverlap' \in BOOLEAN /\ cardRow' \in [PartCard -> PartRow] /\ stamp' \in [PartCard -> [Part -> Nat]]
    BY DEF PartsInv, PartsToldInv, PartShapes, partTables
  <2> QED BY <1>1, <1>2, <1>3, <2>2, <2>3, <2>4 DEF PartShapes, UnderWay
<1>5. ReadsAgree' /\ AloneSeesAll'
  <2>1. ReadsAgree'
    BY <1>1, <1>3, SMTT(30) DEF PartsInv, PartsToldInv, ReadsAgree, UnderWay, There, partTables
  <2>2. AloneSeesAll'
    BY <1>1, <1>3, SMTT(30) DEF PartsInv, PartsToldInv, AloneSeesAll, UnderWay, There, partTables
  <2> QED BY <2>1, <2>2
<1> QED BY <1>4, <1>5

\* A request that ends with the answer it had.
LEMMA AnswerGiven ==
  ASSUME PartsInv, NEW r \in PartRequest, Answered(r), UNCHANGED <<partTables, mayOverlap>>,
         answer' = answer, answer[r] = NoAnswer
  PROVE  PartsInv'
<1>1. EventsPast' /\ RevisionsCounted' /\ PartsStamped' /\ StrayEventShowsGap' /\ ToldAtHome'
         /\ StampsPast' /\ ItemsBounded' /\ ChecklistOrdered' /\ DepsStand'
  BY TablesStand
<1>2. /\ step' \in [PartRequest -> {"idle", "read", "saved", "row", "done"}] /\ step'[r] = "done"
      /\ \A q \in PartRequest : q # r => step'[q] = step[q]
  BY DEF PartsInv, PartsToldInv, PartShapes, Answered
<1>3. answer' \in [PartRequest -> PartAnswer]
  BY DEF PartsInv, PartsToldInv, PartShapes
<1>4. PartShapes' /\ ReadsAgree' /\ AloneSeesAll'
  BY <1>1, <1>3, RequestEnds
<1>5. AnswersPast'
  <2>1. \A q \in PartRequest : step'[q] = "row" => ask'[q] = ask[q]
    <3>1. ask = [q \in PartRequest |-> ask[q]]
      BY DEF PartsInv, PartsToldInv, PartShapes
    <3> QED BY <1>2, <3>1 DEF Answered
  <2> QED BY <1>2, <2>1 DEF PartsInv, PartsToldInv, AnswersPast, partTables
<1>6. ReplyHasItsParts'
  <2>1. \A e \in said : e.card # NoCard
    BY PartsAssumption DEF PartsInv, PartsToldInv, EventsPast
  <2>2. answer[r].card = NoCard
    BY DEF NoAnswer
  <2> QED BY <1>2, <2>1, <2>2 DEF PartsInv, PartsToldInv, ReplyHasItsParts, partTables, There
<1> QED BY <1>1, <1>4, <1>5, <1>6 DEF PartsInv, PartsToldInv

\* The reply: the row first.
LEMMA FetchRowKeeps == ASSUME PartsInv, NEW r \in PartRequest, FetchRow(r) PROVE PartsInv'
<1>1. step[r] = "saved" /\ UNCHANGED <<partTables, mayOverlap>> /\ ask[r].card \in PartCard
  BY DEF FetchRow, PartsInv, PartsToldInv, PartShapes, UnderWay
<1>2. EventsPast' /\ RevisionsCounted' /\ PartsStamped' /\ StrayEventShowsGap' /\ ToldAtHome'
         /\ StampsPast' /\ ItemsBounded' /\ ChecklistOrdered' /\ DepsStand'
  BY <1>1, TablesStand
<1>3. answer[r] = NoAnswer
  BY <1>1 DEF PartsInv, PartsToldInv, AnswersPast
<1>4. CASE There(ask[r].card)
  <2>1. PICK c \in PartCard : c = ask[r].card
    BY <1>1
  <2>2. PICK a \in PartAnswer : a = [NoAnswer EXCEPT !.card = c, !.rev = cardRow[c].rev] /\ a.card = c /\ a.rev = cardRow[c].rev
    <3>1. cardRow[c].rev \in Nat
      BY DEF PartsInv, PartsToldInv, PartShapes, PartRow
    <3>2. [NoAnswer EXCEPT !.card = c, !.rev = cardRow[c].rev] \in PartAnswer
      BY <3>1 DEF NoAnswer, PartAnswer, Blank
    <3> QED BY <3>2 DEF NoAnswer
  <2>3. /\ step' = [step EXCEPT ![r] = "row"] /\ answer' = [answer EXCEPT ![r] = a] /\ ask' = ask /\ read' = read
    BY <1>4, <2>1, <2>2 DEF FetchRow
  <2>4. /\ step' \in [PartRequest -> {"idle", "read", "saved", "row", "done"}] /\ step'[r] = "row"
        /\ \A q \in PartRequest : q # r => step'[q] = step[q]
    BY <2>3 DEF PartsInv, PartsToldInv, PartShapes
  <2>5. /\ answer' \in [PartRequest -> PartAnswer] /\ answer'[r] = a
        /\ \A q \in PartRequest : q # r => answer'[q] = answer[q]
    BY <2>2, <2>3 DEF PartsInv, PartsToldInv, PartShapes
  <2>6. PartShapes'
    BY <1>1, <1>2, <2>3, <2>4, <2>5 DEF PartsInv, PartsToldInv, PartShapes, UnderWay, partTables
  <2>7. ReadsAgree' /\ AloneSeesAll'
    BY <1>1, <2>3, <2>4 DEF PartsInv, PartsToldInv, ReadsAgree, AloneSeesAll, UnderWay, There, partTables
  <2>8. AnswersPast'
    <3>1. cardRow[c].rev \in Nat
      BY DEF PartsInv, PartsToldInv, PartShapes, PartRow
    <3> QED BY <1>1, <2>1, <2>2, <2>3, <2>4, <2>5, <3>1 DEF PartsInv, PartsToldInv, AnswersPast, partTables
  <2>9. ReplyHasItsParts'
    BY <1>1, <2>4, <2>5 DEF PartsInv, PartsToldInv, ReplyHasItsParts, partTables, There
  <2> QED BY <1>2, <2>6, <2>7, <2>8, <2>9 DEF PartsInv, PartsToldInv
<1>5. CASE ~There(ask[r].card)
  <2>1. Answered(r) /\ answer' = answer
    BY <1>5 DEF FetchRow
  <2>2. /\ step' \in [PartRequest -> {"idle", "read", "saved", "row", "done"}] /\ step'[r] = "done"
        /\ \A q \in PartRequest : q # r => step'[q] = step[q]
    BY <2>1 DEF PartsInv, PartsToldInv, PartShapes, Answered
  <2> QED BY <1>1, <1>2, <1>3, <2>1, <2>2, AnswerGiven
<1> QED BY <1>4, <1>5

\* The reply: then the parts.
LEMMA FetchPartsKeeps == ASSUME PartsInv, NEW r \in PartRequest, FetchParts(r) PROVE PartsInv'
<1>1. step[r] = "row" /\ Answered(r) /\ UNCHANGED <<partTables, mayOverlap>> /\ ask[r].card \in PartCard
  BY DEF FetchParts, PartsInv, PartsToldInv, PartShapes, UnderWay
<1>2. EventsPast' /\ RevisionsCounted' /\ PartsStamped' /\ StrayEventShowsGap' /\ ToldAtHome'
         /\ StampsPast' /\ ItemsBounded' /\ ChecklistOrdered' /\ DepsStand'
  BY <1>1, TablesStand
<1>3. /\ step' \in [PartRequest -> {"idle", "read", "saved", "row", "done"}] /\ step'[r] = "done"
      /\ \A q \in PartRequest : q # r => step'[q] = step[q]
  BY <1>1 DEF PartsInv, PartsToldInv, PartShapes, Answered
<1>4. PICK c \in PartCard : c = ask[r].card
  BY <1>1
<1>5. answer[r] \in PartAnswer /\ answer[r].card = c /\ answer[r].rev <= cardRow[c].rev
  BY <1>1, <1>4 DEF PartsInv, PartsToldInv, PartShapes, AnswersPast
<1>6. PICK lost \in SUBSET Part : answer' = [answer EXCEPT ![r].lost = lost, ![r].parts =
                                                [p \in Part |-> IF p \in lost THEN 0 ELSE stamp[c][p]]]
  <2>1. PICK lost \in {{}, Part} : answer' = [answer EXCEPT ![r].lost = lost, ![r].parts =
                                                [p \in Part |-> IF p \in lost THEN 0 ELSE stamp[c][p]]]
    BY <1>4, Zenon DEF FetchParts
  <2>2. lost \in SUBSET Part
    OBVIOUS
  <2> QED BY <2>1, <2>2, Zenon
<1>7. PICK found \in [Part -> Nat] : found = [p \in Part |-> IF p \in lost THEN 0 ELSE stamp[c][p]]
  BY DEF PartsInv, PartsToldInv, PartShapes
<1>8. PICK a : a = [answer[r] EXCEPT !.lost = lost, !.parts = found]
  OBVIOUS
<1>9. a \in PartAnswer /\ a.card = c /\ a.rev = answer[r].rev /\ a.lost = lost /\ a.parts = found
  BY <1>5, <1>6, <1>7, <1>8 DEF PartAnswer
<1>10. /\ answer' \in [PartRequest -> PartAnswer] /\ answer'[r] = a
       /\ \A q \in PartRequest : q # r => answer'[q] = answer[q]
  <2>1. answer \in [PartRequest -> PartAnswer]
    BY DEF PartsInv, PartsToldInv, PartShapes
  <2>2. answer' = [answer EXCEPT ![r] = a]
    BY <1>6, <1>7, <1>8, <2>1
  <2> QED BY <1>9, <2>1, <2>2
<1>11. \A e \in said : (e.change /\ e.card = c /\ e.part \in Part \ lost /\ There(c)) => a.parts[e.part] >= e.rev
  <2> TAKE e \in said
  <2> HAVE e.change /\ e.card = c /\ e.part \in Part \ lost /\ There(c)
  <2>1. e.rev \in Nat /\ e.rev <= stamp[c][e.part]
    BY DEF PartsInv, PartsToldInv, PartsStamped, EventsPast
  <2>2. a.parts[e.part] = stamp[c][e.part] /\ stamp[c][e.part] \in Nat
    BY <1>7, <1>9 DEF PartsInv, PartsToldInv, PartShapes
  <2> QED BY <2>1, <2>2
<1>12. \A q \in PartRequest : answer'[q].card = answer[q].card /\ answer'[q].rev = answer[q].rev
  BY <1>5, <1>9, <1>10
<1>13. PartShapes' /\ ReadsAgree' /\ AloneSeesAll'
  BY <1>1, <1>2, <1>3, <1>10, RequestEnds
<1>14. AnswersPast'
  <2>1. \A q \in PartRequest : step'[q] \in {"idle", "read", "saved"} => answer'[q] = answer[q] /\ step'[q] = step[q]
    BY <1>3, <1>10
  <2>2. \A q \in PartRequest : step'[q] = "row" => ask'[q] = ask[q] /\ step[q] = "row"
    <3>1. ask = [q \in PartRequest |-> ask[q]]
      BY DEF PartsInv, PartsToldInv, PartShapes
    <3> QED BY <1>1, <1>3, <3>1 DEF Answered
  <2> QED BY <1>1, <1>12, <2>1, <2>2 DEF PartsInv, PartsToldInv, AnswersPast, partTables
<1>15. ReplyHasItsParts'
  <2> SUFFICES ASSUME NEW q \in PartRequest, NEW e \in said, step'[q] = "done", answer'[q].card = e.card, e.change,
                      e.part \in Part \ answer'[q].lost, e.rev <= answer'[q].rev, There(answer'[q].card)
               PROVE  answer'[q].parts[e.part] >= e.rev
    BY <1>1 DEF ReplyHasItsParts, partTables, There
  <2>1. CASE q = r
    BY <1>9, <1>10, <1>11, <2>1
  <2>2. CASE q # r
    BY <1>3, <1>10, <2>2 DEF PartsInv, PartsToldInv, ReplyHasItsParts
  <2> QED BY <2>1, <2>2
<1> QED BY <1>2, <1>13, <1>14, <1>15 DEF PartsInv, PartsToldInv

\* Every step keeps the invariant.
LEMMA PartsStep == PartsInv /\ [PartsNext]_partVars => PartsInv'
<1> SUFFICES ASSUME PartsInv, [PartsNext]_partVars PROVE PartsInv'
  OBVIOUS
<1>1. CASE UNCHANGED partVars
  <2>1. UNCHANGED <<partTables, mayOverlap>> /\ UNCHANGED partRequests
    BY <1>1 DEF partVars, partRequests
  <2>2. EventsPast' /\ RevisionsCounted' /\ PartsStamped' /\ StrayEventShowsGap' /\ ToldAtHome'
         /\ StampsPast' /\ ItemsBounded' /\ ChecklistOrdered' /\ DepsStand'
    BY <2>1, TablesStand
  <2>3. PartShapes' /\ ReadsAgree' /\ AloneSeesAll'
    BY <2>1, <2>2 DEF PartsInv, PartsToldInv, PartShapes, ReadsAgree, AloneSeesAll, UnderWay, There, partTables, partRequests
  <2>4. AnswersPast' /\ ReplyHasItsParts'
    BY <2>1 DEF PartsInv, PartsToldInv, AnswersPast, ReplyHasItsParts, There, partTables, partRequests
  <2> QED BY <2>2, <2>3, <2>4 DEF PartsInv, PartsToldInv
<1>2. ASSUME NEW r \in PartRequest, PartsHandle(r) PROVE PartsInv'
  <2>1. CASE BeginWrite(r)
    <3>1. PICK a \in Asks : Accepted(a) /\ Begin(r, a, "read")
      BY <2>1 DEF BeginWrite
    <3> QED BY <3>1, AskShapes, BeginKeeps
  <2>2. CASE BeginGet(r)
    <3>1. PICK c \in PartCard : Begin(r, [kind |-> "get", card |-> c], "saved")
      BY <2>2 DEF BeginGet
    <3>2. PICK a : a = [kind |-> "get", card |-> c]
      OBVIOUS
    <3>3. Begin(r, a, "saved") /\ a.card \in PartCard
      BY <3>1, <3>2
    <3> QED BY <3>3, BeginKeeps
  <2>3. CASE AddCardDependency(r) \/ RemoveCardDependency(r) \/ BulkUpdateCardLabels(r)
    BY <2>3, SeveralCardsKeep
  <2>4. CASE AssignOrUnassign(r) \/ UpdateChecklistItem(r) \/ AddComment(r) \/ EditComment(r) \/ DeleteComment(r)
    BY <2>4, OnePartKeeps
  <2>5. CASE AddChecklistItem(r)
    BY <2>5, AddItemKeeps
  <2>6. CASE RemoveChecklistItem(r)
    BY <2>6, RemoveItemKeeps
  <2>7. CASE MoveToBoard(r)
    BY <2>7, MoveKeepsParts
  <2>8. CASE DeleteWithParts(r)
    BY <2>8, DeleteKeepsParts
  <2>9. CASE Rollback(r)
    BY <2>9, RollbackKeepsParts
  <2>10. CASE FetchRow(r)
    BY <2>10, FetchRowKeeps
  <2>11. CASE FetchParts(r)
    BY <2>11, FetchPartsKeeps
  <2> QED BY <1>2, <2>1, <2>2, <2>3, <2>4, <2>5, <2>6, <2>7, <2>8, <2>9, <2>10, <2>11 DEF PartsHandle
<1> QED BY <1>1, <1>2 DEF PartsNext

\* PartsAreTold: every change of a part, a move or a delete of a card is announced with
\* the revision it gave the card, once, and to the board where the card is or else with
\* a gap; a reply keeps no part older than its revision; requests one after the other
\* leave a checklist in order.  For any cards, boards, items and requests.
THEOREM PartsTold == PartsSpec => []PartsAreTold
<1>1. PartsInv => PartsAreTold
  BY DEF PartsInv, PartsToldInv, PartsAreTold, RevisionsCounted
<1> QED BY <1>1, InitPartsInv, PartsStep, PTL DEF PartsSpec

-----------------------------------------------------------------------------
(***************************************************************************)
(* MCCards: the types of all the components, side by side.                 *)
(***************************************************************************)
\* What the handlers of parts know of their arguments besides, so that rows keep their
\* columns: who writes a comment is a person, and a card depends on another one.
PartRests ==
    /\ deps \subseteq {d \in PartCard \X PartCard : d[1] # d[2]}
    /\ comments \in [Comment -> [card : PartCard \cup {NoCard}, author : Person]]
    /\ \A r \in PartRequest : step[r] = "read" /\ ask[r].kind = "comment" =>
         ask[r].comment \in Comment /\ ask[r].by \in Person

\* There is at most one dependency, and one comment.
LEMMA InitPartRests == PartsInit => PartRests
<1> SUFFICES ASSUME PartsInit PROVE PartRests
  OBVIOUS
<1>1. deps \subseteq {d \in PartCard \X PartCard : d[1] # d[2]}
  BY DEF PartsInit
<1>2. PICK k \in Comment, c \in PartCard, p \in Person :
         comments = [j \in Comment |-> [card |-> IF j = k THEN c ELSE NoCard, author |-> p]]
  BY DEF PartsInit
<1>3. comments \in [Comment -> [card : PartCard \cup {NoCard}, author : Person]]
  BY <1>2
<1>4. \A r \in PartRequest : step[r] # "read"
  BY DEF PartsInit
<1> QED BY <1>1, <1>3, <1>4 DEF PartRests

\* A request that names a comment of a person, when it is one that writes it.
LEMMA CommentAsks == \A a \in Asks : a.kind = "comment" => a.comment \in Comment /\ a.by \in Person
BY DEF Asks

\* A request that arrives changes no row.
LEMMA BeginKeepsRests ==
  ASSUME PartsInv, PartRests, NEW r \in PartRequest, BeginWrite(r) \/ BeginGet(r) PROVE PartRests'
<1>1. UNCHANGED <<deps, comments>>
  BY DEF BeginWrite, BeginGet, Begin, partTables
<1>2. step \in [PartRequest -> {"idle", "read", "saved", "row", "done"}] /\ ask = [q \in PartRequest |-> ask[q]]
  BY DEF PartsInv, PartsToldInv, PartShapes
<1>3. PICK a, next : /\ Begin(r, a, next)
                     /\ next = "read" => a \in Asks
  <2>1. CASE BeginWrite(r)
    <3>1. PICK a \in Asks : Begin(r, a, "read")
      BY <2>1 DEF BeginWrite
    <3> QED BY <3>1
  <2>2. CASE BeginGet(r)
    <3>1. PICK c \in PartCard : Begin(r, [kind |-> "get", card |-> c], "saved")
      BY <2>2 DEF BeginGet
    <3> QED BY <3>1
  <2> QED BY <2>1, <2>2
<1>4. step' = [step EXCEPT ![r] = next] /\ ask' = [ask EXCEPT ![r] = a]
  BY <1>3 DEF Begin
<1>5. ASSUME NEW q \in PartRequest, step'[q] = "read", ask'[q].kind = "comment"
      PROVE  ask'[q].comment \in Comment /\ ask'[q].by \in Person
  <2>1. CASE q = r
    <3>1. next = "read" /\ ask'[q] = a
      BY <1>2, <1>4, <1>5, <2>1
    <3> QED BY <1>3, <1>5, <3>1, CommentAsks
  <2>2. CASE q # r
    <3>1. step[q] = "read" /\ ask'[q] = ask[q]
      BY <1>2, <1>4, <1>5, <2>2
    <3> QED BY <1>5, <3>1 DEF PartRests
  <2> QED BY <2>1, <2>2
<1> QED BY <1>1, <1>5 DEF PartRests

\* Nor does one that goes on or ends ask for something else.
LEMMA AsksStand ==
  ASSUME PartsInv, PartRests, NEW r \in PartRequest,
         \/ ThenFetch(r) \/ Answered(r)
         \/ step' = [step EXCEPT ![r] = "row"] /\ ask' = ask
  PROVE  \A q \in PartRequest : step'[q] = "read" /\ ask'[q].kind = "comment" =>
           ask'[q].comment \in Comment /\ ask'[q].by \in Person
<1> TAKE q \in PartRequest
<1> HAVE step'[q] = "read" /\ ask'[q].kind = "comment"
<1>1. step \in [PartRequest -> {"idle", "read", "saved", "row", "done"}] /\ ask = [p \in PartRequest |-> ask[p]]
  BY DEF PartsInv, PartsToldInv, PartShapes
<1>2. q # r /\ step[q] = "read" /\ ask'[q] = ask[q]
  BY <1>1 DEF ThenFetch, Answered
<1> QED BY <1>2 DEF PartRests

\* The transactions.
LEMMA WritesKeepRests ==
  ASSUME PartsInv, PartRests, NEW r \in PartRequest, PartsHandle(r), ~(BeginWrite(r) \/ BeginGet(r))
  PROVE  PartRests'
<1>1. \/ ThenFetch(r) \/ Answered(r)
      \/ step' = [step EXCEPT ![r] = "row"] /\ ask' = ask
  BY Zenon DEF PartsHandle, AddCardDependency, RemoveCardDependency, BulkUpdateCardLabels, AssignOrUnassign,
         AddChecklistItem, UpdateChecklistItem, RemoveChecklistItem, AddComment, EditComment, DeleteComment,
         MoveToBoard, DeleteWithParts, Rollback, FetchRow, FetchParts, ThenAnswer
<1>2. \A q \in PartRequest : step'[q] = "read" /\ ask'[q].kind = "comment" =>
           ask'[q].comment \in Comment /\ ask'[q].by \in Person
  BY <1>1, AsksStand
<1>3. deps' \subseteq {d \in PartCard \X PartCard : d[1] # d[2]}
  <2>1. CASE AddCardDependency(r)
    <3>1. deps' = deps \cup {<<ask[r].card, ask[r].on>>} /\ step[r] = "read" /\ ask[r].kind = "depend"
      BY <2>1 DEF AddCardDependency, Ready
    <3>2. ask[r].card \in PartCard /\ ask[r].on \in PartCard /\ ask[r].on # ask[r].card
      BY <3>1, SMTT(40) DEF PartsInv, PartsToldInv, PartShapes, UnderWay
    <3> QED BY <3>1, <3>2 DEF PartRests
  <2>2. CASE ~AddCardDependency(r)
    <3>1. deps' \subseteq deps
      BY <2>2 DEF PartsHandle, RemoveCardDependency, BulkUpdateCardLabels, AssignOrUnassign,
         AddChecklistItem, UpdateChecklistItem, RemoveChecklistItem, AddComment, EditComment, DeleteComment,
         MoveToBoard, DeleteWithParts, Rollback, FetchRow, FetchParts, partTables
    <3> QED BY <3>1 DEF PartRests
  <2> QED BY <2>1, <2>2
<1>4. comments' \in [Comment -> [card : PartCard \cup {NoCard}, author : Person]]
  <2>0. comments \in [Comment -> [card : PartCard \cup {NoCard}, author : Person]]
    BY DEF PartRests
  <2>1. CASE AddComment(r)
    <3>1. /\ comments' = [comments EXCEPT ![ask[r].comment] = [card |-> ask[r].card, author |-> ask[r].by]]
          /\ step[r] = "read" /\ ask[r].kind = "comment"
      BY <2>1 DEF AddComment, Ready
    <3>2. ask[r].card \in PartCard /\ ask[r].by \in Person
      BY <3>1 DEF PartRests, PartsInv, PartsToldInv, PartShapes, UnderWay
    <3> QED BY <2>0, <3>1, <3>2
  <2>2. CASE DeleteComment(r)
    <3>1. comments' = [comments EXCEPT ![ask[r].comment].card = NoCard]
      BY <2>2 DEF DeleteComment
    <3> QED BY <2>0, <3>1
  <2>3. CASE DeleteWithParts(r)
    <3>1. PICK c : comments' = [k \in Comment |-> IF comments[k].card = c THEN [comments[k] EXCEPT !.card = NoCard]
                                                                   ELSE comments[k]]
      BY <2>3 DEF DeleteWithParts
    <3> QED BY <2>0, <3>1
  <2>4. CASE ~AddComment(r) /\ ~DeleteComment(r) /\ ~DeleteWithParts(r)
    <3>1. comments' = comments
      BY <2>4 DEF PartsHandle, AddCardDependency, RemoveCardDependency, BulkUpdateCardLabels, AssignOrUnassign,
         AddChecklistItem, UpdateChecklistItem, RemoveChecklistItem, EditComment,
         MoveToBoard, Rollback, FetchRow, FetchParts, partTables
    <3> QED BY <2>0, <3>1
  <2> QED BY <2>1, <2>2, <2>3, <2>4
<1> QED BY <1>2, <1>3, <1>4 DEF PartRests

\* The tables of parts keep their types, whatever requests overlap.
THEOREM PartsTypes == PartsSpec => []PartsTypeOK
<1>1. PartsInit => PartsInv /\ PartRests
  BY InitPartsInv, InitPartRests
<1>2. (PartsInv /\ PartRests) /\ [PartsNext]_partVars => (PartsInv /\ PartRests)'
  <2> SUFFICES ASSUME PartsInv, PartRests, [PartsNext]_partVars PROVE PartsInv' /\ PartRests'
    OBVIOUS
  <2>1. CASE UNCHANGED partVars
    BY <2>1, PartsStep DEF PartRests, partVars, partTables, partRequests
  <2>2. CASE PartsNext
    BY <2>2, PartsStep, BeginKeepsRests, WritesKeepRests DEF PartsNext
  <2> QED BY <2>1, <2>2
<1>3. PartsInv /\ PartRests => PartsTypeOK
  <2> SUFFICES ASSUME PartsInv, PartRests PROVE PartsTypeOK
    OBVIOUS
  <2>1. \A c \in PartCard, p \in Part : stamp[c][p] \in 0..cardRow[c].rev
    BY DEF PartsInv, PartsToldInv, PartShapes, StampsPast, PartRow
  <2>2. \A e \in said : e.card \in PartCard /\ e.rev <= cardRow[e.card].rev
    BY DEF PartsInv, PartsToldInv, EventsPast
  <2>3. /\ cardRow \in [PartCard -> [board : PartBoard \cup {NoPartBoard}, rev : Nat]]
        /\ step \in [PartRequest -> {"idle", "read", "saved", "row", "done"}]
        /\ items \in [Item -> [card : PartCard \cup {NoCard}, pos : Nat]]
    BY DEF PartsInv, PartsToldInv, PartShapes, PartRow, ItemsBounded
  <2> QED BY <2>1, <2>2, <2>3 DEF PartsTypeOK, PartRests
<1> QED BY <1>1, <1>2, <1>3, PTL DEF PartsSpec

\* The card is edited within the bound, and its log and its viewer stay behind it.
THEOREM PatchTypesHold == PatchSpec => []PatchTypeOK
<1> DEFINE Bounded == row.rev <= MaxEdits
<1>1. PatchInit => Bounded
  BY PatchAssumption DEF PatchInit, Blank0
<1>2. PatchInv /\ Bounded /\ [PatchNext]_patchVars => Bounded'
  <2> SUFFICES ASSUME PatchInv, Bounded, [PatchNext]_patchVars PROVE Bounded'
    OBVIOUS
  <2>1. row \in PatchedRow
    BY DEF PatchInv, PatchTypes
  <2>2. CASE EditCard
    <3>1. PICK p \in Patch : row.rev < MaxEdits /\ row' = Updated(p)
      BY <2>2 DEF EditCard, Writes
    <3>2. row'.rev = row.rev + 1
      BY <2>1, <3>1 DEF Updated, PatchedRow
    <3> QED BY <2>1, <3>1, <3>2, PatchAssumption DEF PatchedRow
  <2>3. CASE RelabelCard
    <3>1. row.rev < MaxEdits /\ row'.rev = row.rev + 1
      BY <2>1, <2>3 DEF RelabelCard, Writes, PatchedRow
    <3> QED BY <2>1, <3>1, PatchAssumption DEF PatchedRow
  <2>4. CASE DropCard
    BY <2>1, <2>4 DEF DropCard, PatchedRow
  <2>5. CASE DispatchNext \/ UNCHANGED patchVars
    BY <2>5 DEF DispatchNext, patchVars
  <2> QED BY <2>2, <2>3, <2>4, <2>5 DEF PatchNext
<1>3. PatchInv /\ Bounded => PatchTypeOK
  <2> SUFFICES ASSUME PatchInv, Bounded PROVE PatchTypeOK
    OBVIOUS
  <2>1. row.rev \in Nat /\ viewer.rev \in Nat /\ Len(outbox) \in Nat
    BY DEF PatchInv, PatchTypes, PatchedRow
  <2> QED BY <2>1, PatchAssumption DEF PatchInv, PatchTypes, ViewerStands, PatchTypeOK
<1> QED BY <1>1, <1>2, <1>3, PatchInvariant, PTL DEF PatchSpec

\* A step of the whole is a step of one component, or leaves it alone.
LEMMA CardsSides ==
    /\ CardsInit => Init /\ SnapInit /\ PartsInit /\ RefsInit /\ TiesInit /\ PatchInit /\ IdemInit
    /\ [CardsNext]_cardsVars =>
         /\ [Next]_vars /\ [SnapNext]_snapVars /\ [PartsNext]_partVars /\ [RefsNext]_refVars
         /\ [TiesNext]_tieVars /\ [PatchNext]_patchVars /\ [IdemNext]_idemVars
<1>1. CardsInit => Init /\ SnapInit /\ PartsInit /\ RefsInit /\ TiesInit /\ PatchInit /\ IdemInit
  BY Zenon DEF CardsInit, MCPartsInit
<1>2. ASSUME CardsNext
      PROVE  /\ Next \/ UNCHANGED vars
             /\ SnapNext \/ UNCHANGED snapVars
             /\ PartsNext \/ UNCHANGED partVars
             /\ RefsNext \/ UNCHANGED refVars
             /\ TiesNext \/ UNCHANGED tieVars
             /\ PatchNext \/ UNCHANGED patchVars
             /\ IdemNext \/ UNCHANGED idemVars
  BY <1>2, Zenon DEF CardsNext
<1>3. UNCHANGED cardsVars =>
        /\ UNCHANGED vars /\ UNCHANGED snapVars /\ UNCHANGED partVars /\ UNCHANGED refVars
        /\ UNCHANGED tieVars /\ UNCHANGED patchVars /\ UNCHANGED idemVars
  BY DEF cardsVars
<1> QED BY <1>1, <1>2, <1>3, Zenon

\* Every row, event, request, reply and client of the card service keeps its type, for any
\* cards, boards, projects and number of requests.
THEOREM CardsTypes == CardsSpec => []CardsTypeOK
<1>1. CardsSpec => Spec /\ SnapSpec /\ PartsSpec /\ RefsSpec /\ TiesSpec /\ PatchSpec /\ IdemSpec
  BY CardsSides, PTL DEF CardsSpec, Spec, SnapSpec, PartsSpec, RefsSpec, TiesSpec, PatchSpec, IdemSpec
<1>2. EventsInv => TypeOK
  BY DEF EventsInv, EventTypes
<1>3. SnapInv => SnapTypeOK
  BY DEF SnapInv, SnapTypes, SnapTypeOK
<1>4. TieInv => TiesTypeOK
  BY DEF TieInv
<1>5. IdemInv => IdemTypeOK
  BY DEF IdemInv
<1>6. IdemSpec => []IdemInv
  BY InitIdemInv, NextIdemInv, PTL DEF IdemSpec
<1> QED BY <1>1, <1>2, <1>3, <1>4, <1>5, <1>6, EventsInvariant, SnapInvariant, TieInvariant, PartsTypes, RefTypes,
           PatchTypesHold, PTL DEF CardsTypeOK
=============================================================================
