----------------------------- MODULE Serving_proofs -----------------------------
(***************************************************************************)
(* Proofs about the server around the handlers: the start of the pods      *)
(* (StartUp), the checks of a request (Requests), the search index         *)
(* (SearchIndex), the cutover tracker (Cutover), the permission client     *)
(* (Permissions), attachments (Attachments), the pages of a search         *)
(* (SearchPaging) and of the lists of cards and comments (Paging), each    *)
(* for all values of its bounds; and of the types of their composition     *)
(* with the registry (MCServing, ServingTypes).                            *)
(*                                                                         *)
(* The inductive invariants:                                               *)
(*   UpInv      how far a pod has come by what the ledger holds; a pod     *)
(*              never goes back, since only its own boot sets nextMig;     *)
(*   HandInv    unless two pods looked at the stream at once, what the one *)
(*              that looks saw is still so; what a pod's final drain owes  *)
(*              and nobody has published it has yet to come to;            *)
(*   ReqInv     whatever is so was so at some time since a request         *)
(*              arrived, and the second attempt to introspect has a new    *)
(*              token;                                                     *)
(*   IxInv      whoever reads a card for its document has what the card    *)
(*              is, or there is word of the change that is still to be     *)
(*              worked off; a document that lacks is of a card yet to be   *)
(*              indexed;                                                   *)
(*   TrackerInv what the ring holds are the last insertions and was sent;  *)
(*              phase and last sequence bound what was emitted;            *)
(*   PermInv    a cell that is set holds a ready client; what a removal    *)
(*              has yet to delete lies on its page or beyond its token, or *)
(*              was granted since;                                         *)
(*   AttInv     whatever lies under a key was uploaded, and a row has a    *)
(*              size that was; what is gone from S3 a DeleteAttachment     *)
(*              took;                                                      *)
(*   SearchInv  what was shown lies up to the cursor, what was read are    *)
(*              the first documents beyond it, and none is left out        *)
(*              before;                                                    *)
(*   PageInv    the rows that nothing touched are in the order, and those  *)
(*              the listing has passed were listed, once, unless something *)
(*              upset it.                                                  *)
(*                                                                         *)
(* ServingTypes needs no more than these and the bounds each part keeps:   *)
(* PermBounds, TokensWere, PodsWork, IxBounds, ShownWithin and             *)
(* ListingTypes.                                                           *)
(***************************************************************************)
EXTENDS MCServing, Registry_proofs, FiniteSetTheorems, SequenceTheorems, WellFoundedInduction, TLAPS

\* Every set of natural numbers that is not empty has a least element (what MIN gives).
LEMMA LeastNatural == ASSUME NEW T, T \subseteq Nat, T # {} PROVE \E x \in T : \A y \in T : x <= y
<1>1. PICK x \in T : \A y \in T : ~ (<<y, x>> \in OpToRel(<, Nat))
  BY NatLessThanWellFounded, WFMin, Zenon
<1>2. ASSUME NEW y \in T PROVE x <= y
  <2>1. x \in Nat /\ y \in Nat
    OBVIOUS
  <2>2. ~(y < x)
    BY <1>1, <2>1 DEF OpToRel
  <2> QED BY <2>1, <2>2
<1> QED BY <1>2

Afterwards == {"signalled", "draining", "drained", "gone", "abandoned"}
Started == {"wiring", "serving"} \cup Afterwards
PastMigrations == {"stream", "looked", "missing"} \cup Started

UpTypes ==
    /\ phase \in [ServerPod -> Phase]
    /\ nextMig \in [ServerPod -> 1..(Migrations + 1)]
    /\ running \in [ServerPod -> {"no", "runs", "ran"}]
    /\ \A p \in ServerPod : running[p] # "no" => phase[p] = "migrating" /\ nextMig[p] <= Migrations
    /\ ledger \subseteq 1..Migrations /\ effects \subseteq 1..Migrations

\* What lies behind a pod is in the ledger, and what it is about to record was run.
WhatIsBehind ==
    \A p \in ServerPod :
        /\ \A m \in 1..Migrations : m < nextMig[p] => m \in ledger
        /\ running[p] = "ran" => nextMig[p] \in effects
        /\ phase[p] \in PastMigrations => nextMig[p] = Migrations + 1

\* What is recorded was run; with WhatIsBehind, and so was all before it.
RecordedWasRun == \A m \in ledger : m \in effects /\ \A i \in 1..Migrations : i < m => i \in ledger

\* What other steps of the boot leave behind is never taken away again.
Prepared ==
    \A p \in ServerPod :
        /\ phase[p] \in {"migrating"} \cup PastMigrations => namespace
        /\ phase[p] \in {"looked"} \cup Started => streamCfg # 0

UpInv == UpTypes /\ WhatIsBehind /\ RecordedWasRun /\ Prepared

\* The initial states satisfy the invariant.
LEMMA InitUpInv == UpInit => UpInv
BY StartUpAssumption
   DEF UpInit, UpInv, UpTypes, Phase, WhatIsBehind, RecordedWasRun, Prepared, PastMigrations, Started, Afterwards

\* The steps of a pod that only change where it stands, between phases that promise the same.
LEMMA MovesKeepInv ==
    ASSUME UpInv, NEW p \in ServerPod,
           \/ BuildServices(p) \/ Signal(p) \/ FinalDrain(p) \/ DrainEnds(p) \/ Exit(p)
           \/ Abandon(p) \/ MigrationsDone(p)
    PROVE  UpInv'
<1> USE StartUpAssumption DEF UpInv, UpTypes, Phase, Goes, bootVars, PastMigrations, Started, Afterwards
<1>1. UNCHANGED bootVars
  BY DEF BuildServices, Signal, FinalDrain, DrainEnds, Exit, Abandon, MigrationsDone
<1>2. PICK from \in Phase, to \in Phase :
           /\ Goes(p, from, to)
           /\ \/ from \in Started /\ to \in Started
              \/ from = "migrating" /\ to = "stream" /\ nextMig[p] > Migrations
  BY DEF BuildServices, Signal, FinalDrain, DrainEnds, Exit, Abandon, MigrationsDone
<1>3. \A q \in ServerPod : phase'[q] = IF q = p THEN to ELSE phase[q]
  BY <1>2
<1>4. from = "migrating" => running[p] = "no"
  BY <1>2
<1>5. UpTypes'
  BY <1>1, <1>2, <1>3, <1>4
<1>6. WhatIsBehind'
  BY <1>1, <1>2, <1>3 DEF WhatIsBehind
<1>7. RecordedWasRun'
  BY <1>1 DEF RecordedWasRun
<1>8. Prepared'
  BY <1>1, <1>2, <1>3 DEF Prepared
<1> QED
  BY <1>5, <1>6, <1>7, <1>8

\* The steps of the boot before the stream: the migrations and their ledger.
LEMMA MigrationsKeepInv ==
    ASSUME UpInv, NEW p \in ServerPod,
           \/ BootSchema(p) \/ EnsureNamespace(p) \/ CheckLedger(p)
           \/ RunMigration(p) \/ RecordMigration(p)
    PROVE  UpInv'
<1> USE StartUpAssumption
    DEF UpInv, UpTypes, Phase, Goes, WhatIsBehind, RecordedWasRun, Prepared, PastMigrations, Started, Afterwards
<1>1. CASE BootSchema(p)
  BY <1>1 DEF BootSchema
<1>2. CASE EnsureNamespace(p)
  <2>1. \A q \in ServerPod : phase'[q] = IF q = p THEN "migrating" ELSE phase[q]
    BY <1>2 DEF EnsureNamespace
  <2>2. UpTypes'
    BY <1>2, <2>1 DEF EnsureNamespace
  <2>3. WhatIsBehind'
    BY <1>2, <2>1 DEF EnsureNamespace
  <2>4. RecordedWasRun'
    BY <1>2, <2>1 DEF EnsureNamespace
  <2>5. Prepared'
    BY <1>2, <2>1 DEF EnsureNamespace
  <2> QED
    BY <2>2, <2>3, <2>4, <2>5
<1>3. CASE CheckLedger(p)
  <2>1. CASE nextMig[p] \in ledger
    <3>1. nextMig' = [nextMig EXCEPT ![p] = nextMig[p] + 1] /\ nextMig[p] + 1 \in 1..(Migrations + 1)
      BY <1>3, <2>1 DEF CheckLedger
    <3>2. UNCHANGED <<phase, running, namespace, ledger, effects, streamCfg>>
      BY <1>3, <2>1 DEF CheckLedger
    <3>3. \A q \in ServerPod : nextMig'[q] = IF q = p THEN nextMig[p] + 1 ELSE nextMig[q]
      BY <3>1
    <3>4. running[p] = "no" /\ phase[p] = "migrating"
      BY <1>3 DEF CheckLedger
    <3>5. UpTypes'
      BY <3>1, <3>2, <3>3, <3>4
    <3>6. WhatIsBehind' /\ RecordedWasRun' /\ Prepared'
      BY <2>1, <3>2, <3>3, <3>4
    <3> QED
      BY <3>5, <3>6
  <2>2. CASE nextMig[p] \notin ledger
    BY <1>3, <2>2, ZenonT(60) DEF CheckLedger
  <2> QED
    BY <2>1, <2>2
<1>4. CASE RunMigration(p)
  <2>1. /\ \A q \in ServerPod : running'[q] = IF q = p THEN "ran" ELSE running[q]
        /\ nextMig[p] \in 1..Migrations
    BY <1>4 DEF RunMigration
  <2>2. UpTypes'
    BY <1>4, <2>1 DEF RunMigration
  <2>3. WhatIsBehind'
    BY <1>4, <2>1 DEF RunMigration
  <2>4. RecordedWasRun'
    BY <1>4, <2>1 DEF RunMigration
  <2>5. Prepared'
    BY <1>4, <2>1 DEF RunMigration
  <2> QED
    BY <2>2, <2>3, <2>4, <2>5
<1>5. CASE RecordMigration(p)
  <2>1. /\ nextMig' = [nextMig EXCEPT ![p] = nextMig[p] + 1]
        /\ nextMig[p] \in 1..Migrations /\ nextMig[p] \in effects
    BY <1>5 DEF RecordMigration, MayRecord
  <2>2. /\ ledger' = ledger \cup {nextMig[p]} /\ running' = [running EXCEPT ![p] = "no"]
        /\ UNCHANGED <<phase, namespace, effects, streamCfg>>
    BY <1>5 DEF RecordMigration
  <2>3. phase[p] = "migrating"
    BY <1>5 DEF RecordMigration, MayRecord
  <2>4. UpTypes'
    <3>1. /\ \A q \in ServerPod : nextMig'[q] = IF q = p THEN nextMig[p] + 1 ELSE nextMig[q]
          /\ \A q \in ServerPod : running'[q] = IF q = p THEN "no" ELSE running[q]
      BY <2>1, <2>2
    <3>2. nextMig' \in [ServerPod -> 1..(Migrations + 1)] /\ running' \in [ServerPod -> {"no", "runs", "ran"}]
      BY <2>1, <2>2
    <3> QED
      BY <2>1, <2>2, <2>3, <3>1, <3>2
  <2>5. WhatIsBehind'
    BY <2>1, <2>2, <2>3
  <2>6. RecordedWasRun'
    BY <2>1, <2>2
  <2>7. Prepared'
    BY <2>2
  <2> QED
    BY <2>4, <2>5, <2>6, <2>7
<1> QED
  BY <1>1, <1>2, <1>3, <1>4, <1>5

\* The steps of the boot at the stream: none of them leaves the cluster without one.
LEMMA StreamKeepsInv ==
    ASSUME UpInv, NEW p \in ServerPod,
           LookUpStream(p) \/ CreateStream(p) \/ CreateCollides(p) \/ CorrectDrift(p)
    PROVE  UpInv'
<1> USE StartUpAssumption
    DEF UpInv, UpTypes, Phase, Goes, Looks, Starts, WhatIsBehind, RecordedWasRun, Prepared,
        PastMigrations, Started, Afterwards
<1>1. CASE LookUpStream(p)
  <2>1. UpTypes'
    BY <1>1 DEF LookUpStream
  <2>2. WhatIsBehind'
    BY <1>1 DEF LookUpStream
  <2>3. RecordedWasRun'
    BY <1>1 DEF LookUpStream
  <2>4. Prepared'
    BY <1>1 DEF LookUpStream
  <2> QED
    BY <2>1, <2>2, <2>3, <2>4
<1>2. CASE CreateStream(p)
  <2>1. UpTypes'
    BY <1>2 DEF CreateStream
  <2>2. WhatIsBehind'
    BY <1>2 DEF CreateStream
  <2>3. RecordedWasRun'
    BY <1>2 DEF CreateStream
  <2>4. Prepared'
    <3>1. streamCfg' # 0 /\ UNCHANGED namespace
      BY <1>2 DEF CreateStream, ServerPod
    <3>2. \A q \in ServerPod : phase'[q] = IF q = p THEN "wiring" ELSE phase[q]
      BY <1>2 DEF CreateStream
    <3>3. namespace
      BY <1>2 DEF CreateStream
    <3> QED
      BY <3>1, <3>2, <3>3
  <2> QED
    BY <2>1, <2>2, <2>3, <2>4
<1>3. CASE CreateCollides(p)
  <2>1. UpTypes'
    BY <1>3 DEF CreateCollides
  <2>2. WhatIsBehind'
    BY <1>3 DEF CreateCollides
  <2>3. RecordedWasRun'
    BY <1>3 DEF CreateCollides
  <2>4. Prepared'
    BY <1>3 DEF CreateCollides
  <2> QED
    BY <2>1, <2>2, <2>3, <2>4
<1>4. CASE CorrectDrift(p)
  <2>1. UpTypes'
    BY <1>4 DEF CorrectDrift
  <2>2. WhatIsBehind'
    BY <1>4 DEF CorrectDrift
  <2>3. RecordedWasRun'
    BY <1>4 DEF CorrectDrift
  <2>4. Prepared'
    <3>1. streamCfg' # 0 /\ UNCHANGED namespace
      BY <1>4 DEF CorrectDrift, Drifted, ServerPod
    <3>2. \A q \in ServerPod : phase'[q] = IF q = p THEN "wiring" ELSE phase[q]
      BY <1>4 DEF CorrectDrift
    <3>3. namespace
      BY <1>4 DEF CorrectDrift
    <3> QED
      BY <3>1, <3>2, <3>3
  <2> QED
    BY <2>1, <2>2, <2>3, <2>4
<1> QED
  BY <1>1, <1>2, <1>3, <1>4

\* A pod that stops forgets where it stood, and nothing else of this.
LEMMA StopKeepsInv ==
    ASSUME UpInv, NEW p \in ServerPod, Stop(p)
    PROVE  UpInv'
BY StartUpAssumption
   DEF Stop, UpInv, UpTypes, Phase, WhatIsBehind, RecordedWasRun, Prepared, PastMigrations, Started, Afterwards

\* What a pod does with a row.
RowStep(p) == \E r \in LogRow : CommitRow(p, r) \/ Dispatch(p, r) \/ PublishRow(p, r) \/ SkipRow(p, r)

\* Every step keeps the invariant.
LEMMA NextUpInv == UpInv /\ [UpNext]_upVars => UpInv'
<1> SUFFICES ASSUME UpInv, [UpNext]_upVars PROVE UpInv'
  OBVIOUS
<1>1. CASE UNCHANGED upVars
  BY <1>1 DEF upVars, UpInv, UpTypes, WhatIsBehind, RecordedWasRun, Prepared
<1>2. ASSUME UpNext PROVE UpInv'
  <2> PICK p \in ServerPod :
        \/ BootSchema(p) \/ EnsureNamespace(p) \/ CheckLedger(p) \/ RunMigration(p) \/ RecordMigration(p)
        \/ MigrationsDone(p) \/ LookUpStream(p) \/ CreateStream(p) \/ CreateCollides(p) \/ CorrectDrift(p) \/ BuildServices(p)
        \/ Serve(p) \/ EndRequest(p) \/ RowStep(p)
        \/ Signal(p) \/ FinalDrain(p) \/ DrainEnds(p) \/ Exit(p) \/ Abandon(p) \/ Stop(p)
    BY <1>2 DEF UpNext, RowStep
  <2>1. CASE BootSchema(p) \/ EnsureNamespace(p) \/ CheckLedger(p) \/ RunMigration(p) \/ RecordMigration(p)
    BY <2>1, MigrationsKeepInv
  <2>2. CASE LookUpStream(p) \/ CreateStream(p) \/ CreateCollides(p) \/ CorrectDrift(p)
    BY <2>2, StreamKeepsInv
  <2>3. CASE \/ BuildServices(p) \/ Signal(p) \/ FinalDrain(p) \/ DrainEnds(p) \/ Exit(p)
             \/ Abandon(p) \/ MigrationsDone(p)
    BY <2>3, MovesKeepInv
  <2>4. CASE Serve(p) \/ EndRequest(p) \/ RowStep(p)
    <3>1. UNCHANGED <<phase, bootVars>>
      BY <2>4 DEF Serve, EndRequest, RowStep, CommitRow, Dispatch, PublishRow, SkipRow
    <3> QED
      BY <3>1 DEF bootVars, UpInv, UpTypes, WhatIsBehind, RecordedWasRun, Prepared
  <2>5. CASE Stop(p)
    BY <2>5, StopKeepsInv
  <2> QED
    BY <2>1, <2>2, <2>3, <2>4, <2>5
<1> QED
  BY <1>1, <1>2

\* The invariant holds of every behaviour.
LEMMA UpInvariant == UpSpec => []UpInv
<1>1. UpInit => UpInv
  BY InitUpInv
<1>2. UpInv /\ [UpNext]_upVars => UpInv'
  BY NextUpInv
<1> QED
  BY <1>1, <1>2, PTL DEF UpSpec

\* runner.rs, run_all: however many pods run migrations side by side and die at it, a
\* migration that the ledger records was run to its end by some pod, and so were those before.
THEOREM LedgerTrue == UpSpec => []LedgerIsTrue
<1>1. UpInv => LedgerIsTrue
  BY StartUpAssumption DEF UpInv, UpTypes, RecordedWasRun, LedgerIsTrue
<1> QED
  BY <1>1, UpInvariant, PTL

\* run_with_config: a pod serves only with the namespace, the stream and every migration in
\* place, whoever of the pods did the work.
THEOREM ReadyToServe == UpSpec => []ServesWhenReady
<1>1. UpInv => ServesWhenReady
  <2> SUFFICES ASSUME UpInv, NEW p \in ServerPod, phase[p] \in {"wiring", "serving"}
               PROVE  namespace /\ streamCfg # 0 /\ effects = 1..Migrations
    BY DEF ServesWhenReady
  <2>1. namespace /\ streamCfg # 0
    BY DEF UpInv, Prepared, PastMigrations, Started
  <2>2. nextMig[p] = Migrations + 1
    BY DEF UpInv, WhatIsBehind, PastMigrations, Started
  <2>3. \A m \in 1..Migrations : m \in ledger
    BY <2>2, StartUpAssumption DEF UpInv, WhatIsBehind
  <2>4. effects = 1..Migrations
    BY <2>3 DEF UpInv, UpTypes, RecordedWasRun
  <2> QED
    BY <2>1, <2>4
<1> QED
  BY <1>1, UpInvariant, PTL

\* Together, for the boot and the runner of migrations.
THEOREM BootSound == UpSpec => []BootIsSound
<1>1. LedgerIsTrue /\ ServesWhenReady => BootIsSound
  BY DEF BootIsSound
<1> QED
  BY <1>1, LedgerTrue, ReadyToServe, PTL

-----------------------------------------------------------------------------
\* What one pod leaves to the next.

\* Unless two pods looked at the stream at once, one does at a time, and what it saw is so.
OneLooks ==
    ~overlapped => \A p \in ServerPod : phase[p] = "looked" =>
        /\ sawCfg[p] = streamCfg
        /\ \A q \in ServerPod : phase[q] = "looked" => q = p

\* What a final drain owes and is still pending it has yet to come to; a pod whose loop has
\* ended owes none of that.
LeftLater ==
    /\ logged \subseteq LogRow /\ pending \subseteq logged
    /\ toPublish \in [ServerPod -> SUBSET logged] /\ owed \in [ServerPod -> SUBSET logged]
    /\ \A p \in ServerPod : toPublish[p] # {} => phase[p] = "draining"
    /\ \A p \in ServerPod : owed[p] # {} => phase[p] \in {"draining", "drained", "gone", "abandoned"}
    /\ \A p \in ServerPod : phase[p] = "draining" => owed[p] \cap pending \subseteq toPublish[p]
    /\ \A p \in ServerPod : phase[p] \in {"drained", "gone"} => owed[p] \cap pending = {}

HandTypes == sawCfg = [p \in ServerPod |-> sawCfg[p]] /\ lastBoot \in {0} \cup ServerPod

HandInv == HandTypes /\ OneLooks /\ LeftLater /\ LastBootSetsStream

\* No pod was ever started.
LEMMA InitHandInv == UpInit => HandInv
BY StartUpAssumption DEF UpInit, HandInv, HandTypes, OneLooks, LeftLater, LastBootSetsStream

\* LookUpStream, CreateStream, CreateCollides, CorrectDrift: whoever writes the configuration
\* is the last to come up, and nobody else is looking.
LEMMA StreamHandsOver ==
    ASSUME UpInv, HandInv, NEW p \in ServerPod,
           LookUpStream(p) \/ CreateStream(p) \/ CreateCollides(p) \/ CorrectDrift(p)
    PROVE  HandInv'
<1>1. phase \in [ServerPod -> Phase] /\ ReleaseOf[p] # 0 /\ p # 0
  BY StartUpAssumption DEF UpInv, UpTypes, ServerPod
<1>2. PICK to \in {"looked", "missing", "wiring"} :
         /\ \A q \in ServerPod : phase'[q] = IF q = p THEN to ELSE phase[q]
         /\ phase[p] \in {"stream", "missing", "looked"}
  BY <1>1 DEF LookUpStream, CreateStream, CreateCollides, CorrectDrift, Goes
<1>3. \A q \in ServerPod : phase[q] = "looked" => streamCfg # 0
  BY DEF UpInv, Prepared
<1>4. UNCHANGED rowVars
  BY DEF LookUpStream, CreateStream, CreateCollides, CorrectDrift, Starts, workVars
<1>5. LeftLater'
  BY <1>2, <1>4 DEF HandInv, LeftLater, rowVars
<1>6. CASE LookUpStream(p) /\ UNCHANGED <<sawCfg, overlapped>> /\ phase'[p] = "missing"
  <2>1. UNCHANGED <<streamCfg, lastBoot>>
    BY <1>6 DEF LookUpStream
  <2> QED BY <1>2, <1>5, <1>6, <2>1 DEF HandInv, HandTypes, OneLooks, LastBootSetsStream
<1>7. CASE (LookUpStream(p) \/ CreateCollides(p)) /\ Looks(p)
  <2>1. /\ sawCfg' = [sawCfg EXCEPT ![p] = streamCfg]
        /\ overlapped' = (overlapped \/ \E q \in ServerPod \ {p} : phase[q] = "looked")
        /\ UNCHANGED <<streamCfg, lastBoot>>
    BY <1>7 DEF LookUpStream, CreateCollides, Looks
  <2>2. HandTypes'
    BY <2>1 DEF HandInv, HandTypes
  <2>3. OneLooks'
    BY <1>2, <2>1 DEF HandInv, HandTypes, OneLooks
  <2>4. LastBootSetsStream'
    BY <2>1 DEF HandInv, LastBootSetsStream
  <2> QED BY <1>5, <2>2, <2>3, <2>4 DEF HandInv
<1>8. CASE CreateStream(p) \/ CorrectDrift(p)
  <2>1. /\ lastBoot' = p /\ UNCHANGED overlapped
        /\ phase'[p] = "wiring"
        /\ sawCfg' \in {sawCfg, [sawCfg EXCEPT ![p] = 0]}
    BY <1>1, <1>8 DEF CreateStream, CorrectDrift, Starts, Goes
  <2>2. \/ streamCfg = 0 /\ streamCfg' = ReleaseOf[p]
        \/ phase[p] = "looked" /\ streamCfg' = IF sawCfg[p] # ReleaseOf[p] THEN ReleaseOf[p] ELSE streamCfg
    BY <1>8 DEF CreateStream, CorrectDrift, Drifted, Goes
  <2>3. OneLooks'
    BY <1>2, <1>3, <2>1, <2>2 DEF HandInv, HandTypes, OneLooks
  <2>4. LastBootSetsStream'
    BY <2>1, <2>2 DEF HandInv, LastBootSetsStream, OneLooks
  <2>5. HandTypes'
    BY <2>1 DEF HandInv, HandTypes
  <2> QED BY <1>5, <2>3, <2>4, <2>5 DEF HandInv
<1>9. LookUpStream(p) => (UNCHANGED <<sawCfg, overlapped>> /\ phase'[p] = "missing") \/ Looks(p)
  BY <1>1 DEF LookUpStream, Goes
<1>10. CreateCollides(p) => Looks(p)
  BY DEF CreateCollides
<1> QED BY <1>6, <1>7, <1>8, <1>9, <1>10

\* CommitRow, Dispatch, PublishRow, SkipRow: what is committed is nobody's debt, what is marked
\* or failed no longer is.
LEMMA RowsHandOver ==
    ASSUME UpInv, HandInv, NEW p \in ServerPod, RowStep(p)
    PROVE  LeftLater'
<1>1. PICK r \in LogRow : CommitRow(p, r) \/ Dispatch(p, r) \/ PublishRow(p, r) \/ SkipRow(p, r)
  BY DEF RowStep
<1>2. UNCHANGED phase
  BY <1>1 DEF CommitRow, Dispatch, PublishRow, SkipRow
<1>3. CASE CommitRow(p, r)
  BY <1>2, <1>3 DEF CommitRow, HandInv, LeftLater
<1>4. CASE Dispatch(p, r)
  BY <1>2, <1>4 DEF Dispatch, HandInv, LeftLater
<1>5. CASE PublishRow(p, r)
  <2>1. /\ toPublish' = [toPublish EXCEPT ![p] = toPublish[p] \ {r}]
        /\ pending' = pending \ {r} /\ UNCHANGED <<logged, owed>>
    BY <1>5 DEF PublishRow
  <2> QED BY <1>2, <2>1 DEF HandInv, LeftLater
<1>6. CASE SkipRow(p, r)
  <2>1. /\ toPublish' = [toPublish EXCEPT ![p] = toPublish[p] \ {r}]
        /\ owed' = [owed EXCEPT ![p] = owed[p] \ {r}] /\ UNCHANGED <<logged, pending>>
    BY <1>6 DEF SkipRow, AfterFailure
  <2> QED BY <1>2, <2>1 DEF HandInv, LeftLater
<1> QED BY <1>1, <1>3, <1>4, <1>5, <1>6

\* FinalDrain, DrainEnds, Abandon, Exit, Stop: a final drain reads all that it owes, and the loop
\* ends when it has come through that.
LEMMA DrainHandsOver ==
    ASSUME UpInv, HandInv, NEW p \in ServerPod,
           FinalDrain(p) \/ DrainEnds(p) \/ Abandon(p) \/ Exit(p) \/ Stop(p)
    PROVE  LeftLater'
<1>1. phase \in [ServerPod -> Phase]
  BY DEF UpInv, UpTypes
<1>2. CASE FinalDrain(p)
  <2>1. /\ phase[p] = "signalled" /\ \A q \in ServerPod : phase'[q] = IF q = p THEN "draining" ELSE phase[q]
        /\ toPublish' = [toPublish EXCEPT ![p] = FirstBatch(pending)]
        /\ owed' = [owed EXCEPT ![p] = FirstBatch(pending)]
        /\ UNCHANGED <<logged, pending>>
    BY <1>1, <1>2 DEF FinalDrain, Goes, FirstBatch
  <2>2. FirstBatch(pending) \subseteq logged
    BY DEF FirstBatch, HandInv, LeftLater
  <2> QED BY <2>1, <2>2 DEF HandInv, LeftLater
<1>3. CASE DrainEnds(p)
  <2>1. /\ toPublish[p] = {} /\ phase[p] \in {"draining", "signalled"}
        /\ \A q \in ServerPod : phase'[q] = IF q = p THEN "drained" ELSE phase[q]
        /\ UNCHANGED <<toPublish, owed, logged, pending>>
    BY <1>1, <1>3 DEF DrainEnds, Goes, rowVars
  <2>2. owed[p] \cap pending = {}
    BY <2>1 DEF HandInv, LeftLater
  <2> QED BY <2>1, <2>2 DEF HandInv, LeftLater
<1>4. CASE Abandon(p)
  <2>1. /\ \A q \in ServerPod : phase'[q] = IF q = p THEN "abandoned" ELSE phase[q]
        /\ toPublish' = [toPublish EXCEPT ![p] = {}]
        /\ UNCHANGED <<owed, logged, pending>>
    BY <1>1, <1>4 DEF Abandon, Goes
  <2> QED BY <2>1 DEF HandInv, LeftLater
<1>5. CASE Exit(p)
  <2>1. /\ phase[p] = "drained" /\ \A q \in ServerPod : phase'[q] = IF q = p THEN "gone" ELSE phase[q]
        /\ UNCHANGED <<toPublish, owed, logged, pending>>
    BY <1>1, <1>5 DEF Exit, Goes, workVars, rowVars
  <2> QED BY <2>1 DEF HandInv, LeftLater
<1>6. CASE Stop(p)
  <2>1. /\ \A q \in ServerPod : phase'[q] = IF q = p THEN "down" ELSE phase[q]
        /\ toPublish' = [toPublish EXCEPT ![p] = {}] /\ owed' = [owed EXCEPT ![p] = {}]
        /\ UNCHANGED <<logged, pending>>
    BY <1>1, <1>6 DEF Stop
  <2> QED BY <2>1 DEF HandInv, LeftLater
<1> QED BY <1>2, <1>3, <1>4, <1>5, <1>6

\* The dispatcher, the requests, the shutdown and a crash leave the stream to those who boot.
LEMMA WorkHandsOver ==
    ASSUME UpInv, HandInv, NEW p \in ServerPod,
           \/ Serve(p) \/ EndRequest(p) \/ RowStep(p)
           \/ FinalDrain(p) \/ DrainEnds(p) \/ Abandon(p) \/ Exit(p) \/ Stop(p)
    PROVE  HandInv'
<1>1. phase \in [ServerPod -> Phase]
  BY DEF UpInv, UpTypes
<1>2. UNCHANGED <<streamCfg, lastBoot, overlapped>> /\ (UNCHANGED sawCfg \/ Stop(p))
  BY DEF Serve, EndRequest, RowStep, CommitRow, Dispatch, PublishRow, SkipRow, FinalDrain, DrainEnds, Abandon, Exit,
         Stop, bootVars
<1>3. \A q \in ServerPod : phase'[q] = "looked" => phase[q] = "looked" /\ (Stop(p) => q # p)
  BY <1>1 DEF Serve, EndRequest, RowStep, CommitRow, Dispatch, PublishRow, SkipRow, FinalDrain, DrainEnds, Abandon,
              Exit, Stop, Goes
<1>4. /\ sawCfg' \in {sawCfg, [sawCfg EXCEPT ![p] = 0]}
      /\ \A q \in ServerPod : phase'[q] = "looked" => sawCfg'[q] = sawCfg[q]
  BY <1>2, <1>3 DEF Stop, HandInv, HandTypes
<1>5. HandTypes' /\ OneLooks' /\ LastBootSetsStream'
  BY <1>2, <1>3, <1>4 DEF HandInv, HandTypes, OneLooks, LastBootSetsStream
<1>6. LeftLater'
  <2>1. CASE Serve(p) \/ EndRequest(p)
    BY <2>1 DEF Serve, EndRequest, HandInv, LeftLater, rowVars
  <2> QED BY <2>1, RowsHandOver, DrainHandsOver
<1> QED BY <1>5, <1>6 DEF HandInv

\* The rest of the boot, and the signal.
LEMMA RestHandsOver ==
    ASSUME UpInv, HandInv, NEW p \in ServerPod,
           \/ BootSchema(p) \/ EnsureNamespace(p) \/ CheckLedger(p) \/ RunMigration(p) \/ RecordMigration(p)
           \/ MigrationsDone(p) \/ BuildServices(p) \/ Signal(p)
    PROVE  HandInv'
<1>1. phase \in [ServerPod -> Phase]
  BY DEF UpInv, UpTypes
<1>2. UNCHANGED <<streamCfg, sawCfg, lastBoot, overlapped, logged, pending, toPublish, owed>>
  BY DEF BootSchema, EnsureNamespace, CheckLedger, RunMigration, RecordMigration, MigrationsDone, BuildServices,
         Signal, bootVars, workVars, rowVars
<1>3. \A q \in ServerPod :
         LET ending == {"draining", "drained", "gone", "abandoned"} IN
         /\ phase'[q] = "looked" => phase[q] = "looked"
         /\ phase'[q] # phase[q] => phase'[q] \notin ending /\ phase[q] \notin ending
  <2>1. CASE CheckLedger(p) \/ RunMigration(p) \/ RecordMigration(p)
    BY <2>1 DEF CheckLedger, RunMigration, RecordMigration
  <2>2. CASE BootSchema(p) \/ EnsureNamespace(p) \/ MigrationsDone(p) \/ BuildServices(p) \/ Signal(p)
    BY <1>1, <2>2 DEF BootSchema, EnsureNamespace, MigrationsDone, BuildServices, Signal, Goes
  <2> QED BY <2>1, <2>2
<1>4. LeftLater'
  BY <1>2, <1>3 DEF HandInv, LeftLater
<1> QED BY <1>2, <1>3, <1>4 DEF HandInv, HandTypes, OneLooks, LastBootSetsStream

\* The invariant holds of every behaviour.
LEMMA HandInvariant == UpSpec => []HandInv
<1>1. UpInv /\ HandInv /\ [UpNext]_upVars => HandInv'
  <2> SUFFICES ASSUME UpInv, HandInv, [UpNext]_upVars PROVE HandInv'
    OBVIOUS
  <2>1. CASE UNCHANGED upVars
    BY <2>1 DEF upVars, HandInv, HandTypes, OneLooks, LeftLater, LastBootSetsStream
  <2>2. ASSUME NEW p \in ServerPod,
           \/ BootSchema(p) \/ EnsureNamespace(p) \/ CheckLedger(p) \/ RunMigration(p) \/ RecordMigration(p)
           \/ MigrationsDone(p) \/ LookUpStream(p) \/ CreateStream(p) \/ CreateCollides(p) \/ CorrectDrift(p) \/ BuildServices(p)
           \/ Serve(p) \/ EndRequest(p) \/ RowStep(p)
           \/ Signal(p) \/ FinalDrain(p) \/ DrainEnds(p) \/ Exit(p) \/ Abandon(p) \/ Stop(p)
        PROVE HandInv'
    BY <2>2, StreamHandsOver, WorkHandsOver, RestHandsOver
  <2> QED BY <2>1, <2>2 DEF UpNext, RowStep
<1> QED
  BY <1>1, InitHandInv, UpInvariant, PTL DEF UpSpec

\* correct_drift and final_drain: pods of two releases leave each other the stream of the one
\* that came up last, unless they looked at it at once, and a pod whose loop has ended leaves none
\* of the one batch it read last, save the rows that failed in it.
THEOREM PodsHandOverAll == UpSpec => []PodsHandOver
<1>1. HandInv => PodsHandOver
  BY DEF HandInv, LeftLater, PodsHandOver, ExitLeavesLate
<1> QED
  BY <1>1, HandInvariant, PTL

-----------------------------------------------------------------------------
\* The checks of a request (Requests).

Took == {"nothing", "none", "unknown", "view", "edit", "manage"}
ReqSteps == {"idle", "token", "sent", "known", "runs", "unauthenticated", "refused"}
ReqRecord == [took : Took, step : ReqSteps, token : Nat, tries : Nat, object : ReqObject \cup {Absent}]
WitnessRecord == [active : BOOLEAN, ended : BOOLEAN, held : SUBSET GrantRelation, troubled : BOOLEAN]

ReqTypes ==
    /\ session \in BOOLEAN /\ holds \subseteq GrantRelation
    /\ svcValid \in Nat \ {0} /\ svcCached \in Nat
    /\ request \in [Arrival -> ReqRecord]
    /\ sinceThen \in [Arrival -> WitnessRecord]

\* What is so was so at some time since a request arrived.
WitnessedNow ==
    \A r \in Arrival : request[r].step # "idle" =>
        /\ holds \subseteq sinceThen[r].held
        /\ session => sinceThen[r].active
        /\ ~session => sinceThen[r].ended

KnownWasActive == \A r \in Arrival : request[r].step \in {"known", "runs"} => sinceThen[r].active

\* The second attempt has a new service token, or will have one.
SecondIsFresh ==
    \A r \in Arrival : request[r].tries # 0 /\ ~sinceThen[r].troubled =>
        /\ request[r].step = "token" => svcCached \in {0, svcValid}
        /\ request[r].step = "sent" => request[r].token = svcValid

IdleIsEmpty == \A r \in Arrival : request[r].step = "idle" => request[r] = NoRequest

ReqInv ==
    /\ ReqTypes /\ IdleIsEmpty /\ WitnessedNow /\ KnownWasActive /\ SecondIsFresh
    /\ RunsOnlyIfHeld /\ RevokedTokenIsReplaced

-----------------------------------------------------------------------------
\* permission_dispatch.rs, MATRIX: an entry takes nothing, or one of three relations on the object in the header.
LEMMA EntriesOfMatrix ==
    ASSUME NEW rule \in Matrix
    PROVE  \/ rule.source = "none" /\ rule.relation = "none"
           \/ rule.source = "header" /\ rule.relation \in {"view", "edit", "manage"}
<1>1. CASE rule \in ProjectMethods
  BY <1>1 DEF ProjectMethods, Anyone, Takes
<1>2. CASE rule \in BoardMethods
  BY <1>2 DEF BoardMethods, Anyone, Takes
<1>3. CASE rule \in CardMethods
  BY <1>3 DEF CardMethods, Anyone, Takes
<1>4. CASE rule \in AttachmentMethods
  BY <1>4 DEF AttachmentMethods, Anyone, Takes
<1>5. CASE rule \in GithubLinkMethods
  BY <1>5 DEF GithubLinkMethods, Anyone, Takes
<1>6. CASE rule \in AggregatedBoardMethods
  BY <1>6 DEF AggregatedBoardMethods, Anyone, Takes
<1>7. CASE rule \in CatalogueMethods
  BY <1>7 DEF CatalogueMethods, Anyone, Takes
<1> QED BY <1>1, <1>2, <1>3, <1>4, <1>5, <1>6, <1>7 DEF Matrix

\* A request that is turned away, or that has not arrived, holds nothing.
LEMMA EmptyRequests ==
    /\ NoRequest \in ReqRecord
    /\ NoRequest.step = "idle" /\ NoRequest.tries = 0 /\ NoRequest.object = Absent
    /\ \A step \in ReqSteps : /\ TurnedAway(step) \in ReqRecord
                              /\ TurnedAway(step).step = step /\ TurnedAway(step).tries = 0
                              /\ TurnedAway(step).object = Absent
BY DEF NoRequest, TurnedAway, ReqRecord, ReqSteps, Took

\* No request has arrived.
LEMMA InitReqInv == ReqInit => ReqInv
<1> SUFFICES ASSUME ReqInit PROVE ReqInv
  OBVIOUS
<1>1. ReqTypes
  BY EmptyRequests DEF ReqInit, ReqTypes, WitnessRecord
<1> QED
  BY <1>1, EmptyRequests
     DEF ReqInit, ReqInv, IdleIsEmpty, WitnessedNow, KnownWasActive, SecondIsFresh, RunsOnlyIfHeld, RevokedTokenIsReplaced

\* A request that moves keeps what holds of the others.
LEMMA MovesKeep ==
    ASSUME ReqInv, NEW r \in Arrival, NEW to \in ReqRecord, to.step # "idle",
           request' = [request EXCEPT ![r] = to], UNCHANGED <<session, holds, svcValid>>,
           svcCached' \in {svcCached, 0, svcValid}, svcCached' # svcCached => svcCached' = 0 \/ svcCached = 0,
           NEW was \in WitnessRecord, sinceThen' = [sinceThen EXCEPT ![r] = was],
           holds \subseteq was.held, session => was.active, ~session => was.ended,
           to.step \in {"known", "runs"} => was.active,
           to.tries # 0 /\ ~was.troubled => /\ to.step = "token" => svcCached' \in {0, svcValid}
                                            /\ to.step = "sent" => to.token = svcValid,
           to.step = "runs" => /\ to.took # "unknown"
                               /\ to.object # Absent => <<NamespaceOf[to.object], to.object, to.took>> \in was.held,
           to.step = "unauthenticated" => was.ended \/ was.troubled
    PROVE  ReqInv'
<1> USE DEF ReqInv
<1>1. ReqTypes'
  BY DEF ReqTypes
<1>2. /\ request'[r] = to /\ sinceThen'[r] = was
      /\ \A q \in Arrival \ {r} : request'[q] = request[q] /\ sinceThen'[q] = sinceThen[q]
  BY DEF ReqTypes
<1>3. IdleIsEmpty'
  BY <1>2 DEF IdleIsEmpty
<1>4. WitnessedNow'
  BY <1>2 DEF WitnessedNow
<1>5. KnownWasActive'
  BY <1>2 DEF KnownWasActive
<1>6. SecondIsFresh'
  BY <1>2 DEF SecondIsFresh
<1>7. RunsOnlyIfHeld'
  BY <1>2 DEF RunsOnlyIfHeld
<1>8. RevokedTokenIsReplaced'
  BY <1>2 DEF RevokedTokenIsReplaced
<1> QED BY <1>1, <1>3, <1>4, <1>5, <1>6, <1>7, <1>8

\* A request arrives and sees how things are.
LEMMA ArriveInv == ASSUME ReqInv, NEW r \in Arrival, Arrive(r) PROVE ReqInv'
<1>1. PICK to : to = [request[r] EXCEPT !.step = "token"]
  OBVIOUS
<1>2. PICK was : was = [active |-> session, ended |-> ~session, held |-> holds, troubled |-> FALSE]
  OBVIOUS
<1>3. /\ request[r] = NoRequest /\ request' = [request EXCEPT ![r] = to]
      /\ sinceThen' = [sinceThen EXCEPT ![r] = was]
      /\ UNCHANGED <<session, holds, svcValid, svcCached>>
  BY <1>1, <1>2 DEF Arrive, ReqInv, ReqTypes
<1>4. to \in ReqRecord /\ to.step = "token" /\ to.tries = 0
  BY <1>1, <1>3, EmptyRequests DEF ReqRecord, ReqSteps
<1>5. was \in WitnessRecord
  BY <1>2 DEF WitnessRecord, ReqInv, ReqTypes
<1> QED BY <1>2, <1>3, <1>4, <1>5, MovesKeep

\* A request that moves without a fault: what was seen since it arrived stays as it is.
LEMMA GoesOn ==
    ASSUME ReqInv, NEW r \in Arrival, NEW to \in ReqRecord, request[r].step # "idle", to.step # "idle",
           request' = [request EXCEPT ![r] = to], UNCHANGED <<session, holds, svcValid, sinceThen>>,
           svcCached' \in {svcCached, 0, svcValid}, svcCached' # svcCached => svcCached' = 0 \/ svcCached = 0,
           to.step \in {"known", "runs"} => sinceThen[r].active,
           to.tries # 0 /\ ~sinceThen[r].troubled =>
              /\ to.step = "token" => svcCached' \in {0, svcValid}
              /\ to.step = "sent" => to.token = svcValid,
           to.step = "runs" =>
              /\ to.took # "unknown"
              /\ to.object # Absent => <<NamespaceOf[to.object], to.object, to.took>> \in sinceThen[r].held,
           to.step = "unauthenticated" => sinceThen[r].ended \/ sinceThen[r].troubled
    PROVE  ReqInv'
<1>1. PICK was \in WitnessRecord : was = sinceThen[r]
  BY DEF ReqInv, ReqTypes
<1>2. sinceThen' = [sinceThen EXCEPT ![r] = was]
  BY <1>1 DEF ReqInv, ReqTypes
<1>3. holds \subseteq was.held /\ (session => was.active) /\ (~session => was.ended)
  BY <1>1 DEF ReqInv, WitnessedNow
<1> QED BY <1>1, <1>2, <1>3, MovesKeep

\* provider.token(): on the second attempt the cache is empty or has what another request got anew.
LEMMA TakeInv == ASSUME ReqInv, NEW r \in Arrival, TakeServiceToken(r) PROVE ReqInv'
<1>1. request[r] \in ReqRecord /\ request \in [Arrival -> ReqRecord] /\ svcValid \in Nat \ {0} /\ svcCached \in Nat
  BY DEF ReqInv, ReqTypes
<1>2. PICK to : to = [request[r] EXCEPT !.step = "sent", !.token = svcCached']
  OBVIOUS
<1>3. /\ request[r].step = "token" /\ request' = [request EXCEPT ![r] = to]
      /\ svcCached' = IF svcCached = 0 THEN svcValid ELSE svcCached
      /\ UNCHANGED <<session, holds, svcValid, sinceThen>>
  BY <1>1, <1>2 DEF TakeServiceToken
<1>4. /\ to \in ReqRecord /\ to.step = "sent" /\ to.token = svcCached' /\ to.tries = request[r].tries
  BY <1>1, <1>2, <1>3 DEF ReqRecord, ReqSteps
<1>5. to.tries # 0 /\ ~sinceThen[r].troubled => to.token = svcValid
  BY <1>1, <1>3, <1>4 DEF ReqInv, SecondIsFresh
<1> QED BY <1>1, <1>3, <1>4, <1>5, GoesOn

\* introspect: a gateway that refuses the token of a second attempt has been rotated meanwhile.
LEMMA IntrospectedInv == ASSUME ReqInv, NEW r \in Arrival, Introspected(r) PROVE ReqInv'
<1>1. request[r] \in ReqRecord /\ request \in [Arrival -> ReqRecord] /\ svcValid \in Nat \ {0} /\ svcCached \in Nat
  BY DEF ReqInv, ReqTypes
<1>2. request[r].step = "sent" /\ UNCHANGED <<session, holds, svcValid, sinceThen>>
  BY DEF Introspected
<1>3. (session => sinceThen[r].active) /\ (~session => sinceThen[r].ended)
  BY <1>2 DEF ReqInv, WitnessedNow
<1>4. CASE request[r].token = svcValid /\ session
  <2>1. PICK to : to = [request[r] EXCEPT !.step = "known", !.token = 0, !.tries = 0]
    OBVIOUS
  <2>2. request' = [request EXCEPT ![r] = to] /\ UNCHANGED svcCached
    BY <1>1, <1>4, <2>1 DEF Introspected
  <2>3. to \in ReqRecord /\ to.step = "known" /\ to.tries = 0
    BY <1>1, <2>1 DEF ReqRecord, ReqSteps
  <2> QED BY <1>2, <1>3, <1>4, <2>2, <2>3, GoesOn
<1>5. CASE request[r].token = svcValid /\ ~session
  <2>1. PICK to : to = TurnedAway("unauthenticated")
    OBVIOUS
  <2>2. request' = [request EXCEPT ![r] = to] /\ UNCHANGED svcCached
    BY <1>1, <1>5, <2>1 DEF Introspected
  <2>3. to \in ReqRecord /\ to.step = "unauthenticated" /\ to.tries = 0
    BY <2>1, EmptyRequests DEF ReqSteps
  <2> QED BY <1>2, <1>3, <1>5, <2>2, <2>3, GoesOn
<1>6. CASE request[r].token # svcValid /\ request[r].tries = 0
  <2>1. PICK to : to = [request[r] EXCEPT !.step = "token", !.tries = @ + 1, !.token = 0]
    OBVIOUS
  <2>2. request' = [request EXCEPT ![r] = to] /\ svcCached' = 0
    BY <1>1, <1>6, <2>1 DEF Introspected, MayRetry, Invalidated
  <2>3. to \in ReqRecord /\ to.step = "token"
    <3>1. request[r].tries + 1 \in Nat
      BY <1>1 DEF ReqRecord
    <3> QED BY <1>1, <2>1, <3>1 DEF ReqRecord, ReqSteps
  <2> QED BY <1>2, <2>2, <2>3, GoesOn
<1>7. CASE request[r].token # svcValid /\ request[r].tries # 0
  <2>1. PICK to : to = TurnedAway("unauthenticated")
    OBVIOUS
  <2>2. request' = [request EXCEPT ![r] = to] /\ UNCHANGED svcCached
    BY <1>1, <1>7, <2>1 DEF Introspected, MayRetry
  <2>3. to \in ReqRecord /\ to.step = "unauthenticated" /\ to.tries = 0
    BY <2>1, EmptyRequests DEF ReqSteps
  <2>4. sinceThen[r].troubled
    BY <1>2, <1>7 DEF ReqInv, SecondIsFresh
  <2> QED BY <1>2, <2>2, <2>3, <2>4, GoesOn
<1> QED BY <1>4, <1>5, <1>6, <1>7

\* dispatch_check: a handler runs on the object that was checked, for the relation of its entry.
LEMMA DispatchedInv == ASSUME ReqInv, NEW r \in Arrival, Dispatched(r) PROVE ReqInv'
<1>1. request \in [Arrival -> ReqRecord] /\ holds \subseteq GrantRelation
  BY DEF ReqInv, ReqTypes
<1>2. PICK rule \in Matrix \cup {Unlisted}, h \in ReqObject \cup {Absent} : \E took :
        /\ took = (IF rule.methods \subseteq Methods THEN rule.relation ELSE "unknown")
        /\ request[r].step = "known"
        /\ request' = [request EXCEPT ![r] =
             IF rule.source = "none" THEN Runs(took, Absent)
             ELSE IF rule.source = "header" /\ h # Absent /\ <<rule.namespace, h, rule.relation>> \in holds
             THEN Runs(took, h)
             ELSE TurnedAway("refused")]
        /\ UNCHANGED <<session, holds, svcValid, svcCached, sinceThen>>
  BY DEF Dispatched, CheckedObject
<1>8. PICK took :
        /\ took = (IF rule.methods \subseteq Methods THEN rule.relation ELSE "unknown")
        /\ request[r].step = "known"
        /\ request' = [request EXCEPT ![r] =
             IF rule.source = "none" THEN Runs(took, Absent)
             ELSE IF rule.source = "header" /\ h # Absent /\ <<rule.namespace, h, rule.relation>> \in holds
             THEN Runs(took, h)
             ELSE TurnedAway("refused")]
        /\ UNCHANGED <<session, holds, svcValid, svcCached, sinceThen>>
  BY <1>2
<1>3. sinceThen[r].active /\ holds \subseteq sinceThen[r].held
  BY <1>8 DEF ReqInv, KnownWasActive, WitnessedNow
<1>4. CASE \/ rule.source = "none"
           \/ rule.source = "header" /\ h # Absent /\ <<rule.namespace, h, rule.relation>> \in holds
  <2>1. rule \in Matrix
    BY <1>4 DEF Unlisted
  <2>2. rule.methods \subseteq Methods
    BY <2>1 DEF Methods
  <2>3. \/ rule.source = "none" /\ rule.relation = "none"
        \/ rule.source = "header" /\ rule.relation \in {"view", "edit", "manage"}
    BY <2>1, EntriesOfMatrix
  <2>4. PICK o \in ReqObject \cup {Absent} :
          /\ o = IF rule.source = "none" THEN Absent ELSE h
          /\ request' = [request EXCEPT ![r] = Runs(rule.relation, o)]
    BY <1>8, <1>4, <2>2
  <2>5. PICK to : to = Runs(rule.relation, o)
    OBVIOUS
  <2>6. /\ to \in ReqRecord /\ to.step = "runs" /\ to.tries = 0
        /\ to.took = rule.relation /\ to.object = o
    BY <2>3, <2>5 DEF Runs, NoRequest, ReqRecord, ReqSteps, Took
  <2>7. o # Absent => <<NamespaceOf[o], o, rule.relation>> \in sinceThen[r].held
    <3> SUFFICES ASSUME o # Absent PROVE <<NamespaceOf[o], o, rule.relation>> \in sinceThen[r].held
      OBVIOUS
    <3>1. o = h /\ <<rule.namespace, o, rule.relation>> \in holds
      BY <1>4, <2>4
    <3>2. <<rule.namespace, o, rule.relation>> \in GrantRelation
      BY <1>1, <3>1
    <3>3. rule.namespace = NamespaceOf[o]
      BY <3>2 DEF GrantRelation
    <3> QED BY <1>3, <3>1, <3>3
  <2>8. /\ request[r].step # "idle" /\ request' = [request EXCEPT ![r] = to]
        /\ UNCHANGED <<session, holds, svcValid, svcCached, sinceThen>>
    BY <1>8, <2>4, <2>5
  <2>9. to.took # "unknown"
    BY <2>3, <2>6
  <2> QED BY <1>3, <2>6, <2>7, <2>8, <2>9, GoesOn
<1>5. CASE ~(\/ rule.source = "none"
             \/ rule.source = "header" /\ h # Absent /\ <<rule.namespace, h, rule.relation>> \in holds)
  <2>1. PICK to : to = TurnedAway("refused")
    OBVIOUS
  <2>2. request' = [request EXCEPT ![r] = to]
    BY <1>8, <1>5, <2>1
  <2>3. to \in ReqRecord /\ to.step = "refused" /\ to.tries = 0
    BY <2>1, EmptyRequests DEF ReqSteps
  <2> QED BY <1>8, <2>2, <2>3, GoesOn
<1> QED BY <1>4, <1>5

\* A fault is seen, and the request fails closed.
LEMMA FaultInv == ASSUME ReqInv, NEW r \in Arrival, GatewayFault(r) PROVE ReqInv'
<1>1. request \in [Arrival -> ReqRecord] /\ sinceThen \in [Arrival -> WitnessRecord]
  BY DEF ReqInv, ReqTypes
<1>0. PICK step \in {"refused", "unauthenticated"} : \E to :
         to = TurnedAway(step) /\ request' = [request EXCEPT ![r] = to]
  BY <1>1 DEF GatewayFault
<1>2. PICK to :
         to = TurnedAway(step) /\ request' = [request EXCEPT ![r] = to]
  BY <1>0
<1>3. PICK was : was = [sinceThen[r] EXCEPT !.troubled = TRUE]
  OBVIOUS
<1>4. sinceThen' = [sinceThen EXCEPT ![r] = was] /\ UNCHANGED <<session, holds, svcValid, svcCached>>
  BY <1>1, <1>3 DEF GatewayFault
<1>5. /\ was \in WitnessRecord /\ was.troubled /\ was.held = sinceThen[r].held
      /\ was.active = sinceThen[r].active /\ was.ended = sinceThen[r].ended
  BY <1>1, <1>3 DEF WitnessRecord
<1>6. holds \subseteq was.held /\ (session => was.active) /\ (~session => was.ended)
  <2>1. request[r].step # "idle"
    BY DEF GatewayFault
  <2> QED BY <1>5, <2>1 DEF ReqInv, WitnessedNow
<1>7. to \in ReqRecord /\ to.step \in {"refused", "unauthenticated"} /\ to.tries = 0
  BY <1>2, EmptyRequests DEF ReqSteps
<1> QED BY <1>2, <1>4, <1>5, <1>6, <1>7, MovesKeep

\* The session, the relations and the service token change for every request that has arrived.
LEMMA TurnsInv == ReqInv /\ (SessionEnds \/ RelationChanges) => ReqInv'
<1> SUFFICES ASSUME ReqInv, SessionEnds \/ RelationChanges PROVE ReqInv'
  OBVIOUS
<1>1. sinceThen \in [Arrival -> WitnessRecord] /\ holds \in SUBSET GrantRelation /\ session \in BOOLEAN
  BY DEF ReqInv, ReqTypes
<1>2. PICK h \in SUBSET GrantRelation :
        /\ sinceThen' = Witnessed(session', h)
        /\ UNCHANGED <<svcValid, svcCached, request>>
        /\ session' \in BOOLEAN /\ holds' \in SUBSET GrantRelation
        /\ holds' \subseteq holds \cup h
  <2>1. CASE SessionEnds
    <3>1. session' = FALSE /\ sinceThen' = Witnessed(FALSE, {}) /\ UNCHANGED <<holds, svcValid, svcCached, request>>
      BY <2>1 DEF SessionEnds
    <3>2. sinceThen' = Witnessed(session', {})
      BY <3>1 DEF Witnessed
    <3>3. {} \in SUBSET GrantRelation /\ holds' \subseteq holds \cup {}
      BY <3>1
    <3>4. session' \in BOOLEAN /\ holds' \in SUBSET GrantRelation
      BY <1>1, <3>1
    <3> QED BY <3>1, <3>2, <3>3, <3>4
  <2>2. CASE RelationChanges
    BY <1>1, <2>2 DEF RelationChanges
  <2> QED BY <2>1, <2>2
<1>3. \A r \in Arrival : 
        /\ request[r].step = "idle" => sinceThen'[r] = sinceThen[r]
        /\ request[r].step # "idle" =>
             /\ sinceThen'[r].active = (sinceThen[r].active \/ session')
             /\ sinceThen'[r].ended = (sinceThen[r].ended \/ ~session')
             /\ sinceThen'[r].held = sinceThen[r].held \cup h
             /\ sinceThen'[r].troubled = sinceThen[r].troubled
  <2> SUFFICES ASSUME NEW r \in Arrival
               PROVE  /\ request[r].step = "idle" => sinceThen'[r] = sinceThen[r]
                      /\ request[r].step # "idle" =>
                           /\ sinceThen'[r].active = (sinceThen[r].active \/ session')
                           /\ sinceThen'[r].ended = (sinceThen[r].ended \/ ~session')
                           /\ sinceThen'[r].held = sinceThen[r].held \cup h
                           /\ sinceThen'[r].troubled = sinceThen[r].troubled
    OBVIOUS
  <2>1. CASE request[r].step = "idle"
    BY <1>2, <2>1 DEF Witnessed, ReqInv, IdleIsEmpty
  <2>2. CASE request[r].step # "idle"
    <3>1. request[r] # NoRequest
      BY <2>2 DEF NoRequest
    <3>2. sinceThen'[r] = [sinceThen[r] EXCEPT !.active = @ \/ session', !.ended = @ \/ ~session', !.held = @ \cup h]
      BY <1>2, <3>1 DEF Witnessed
    <3> QED BY <1>1, <2>2, <3>2 DEF WitnessRecord
  <2> QED BY <2>1, <2>2
<1>4. ReqTypes'
  <2>1. \A r \in Arrival : sinceThen'[r] \in WitnessRecord
    <3> SUFFICES ASSUME NEW r \in Arrival PROVE sinceThen'[r] \in WitnessRecord
      OBVIOUS
    <3>1. CASE request[r] = NoRequest
      BY <1>1, <1>2, <3>1 DEF Witnessed
    <3>2. CASE request[r] # NoRequest
      <4>1. sinceThen'[r] = [sinceThen[r] EXCEPT !.active = @ \/ session', !.ended = @ \/ ~session', !.held = @ \cup h]
        BY <1>2, <3>2 DEF Witnessed
      <4> QED BY <1>1, <4>1, ZenonT(60) DEF WitnessRecord
    <3> QED BY <3>1, <3>2
  <2>2. sinceThen' \in [Arrival -> WitnessRecord]
    BY <1>2, <2>1 DEF Witnessed
  <2> QED BY <1>2, <2>2 DEF ReqInv, ReqTypes
<1>5. IdleIsEmpty'
  BY <1>2 DEF ReqInv, IdleIsEmpty
<1>6. WitnessedNow'
  BY <1>2, <1>3 DEF ReqInv, WitnessedNow
<1>7. KnownWasActive'
  BY <1>2, <1>3 DEF ReqInv, KnownWasActive
<1>8. SecondIsFresh'
  BY <1>2, <1>3 DEF ReqInv, SecondIsFresh
<1>9. RunsOnlyIfHeld'
  BY <1>2, <1>3 DEF ReqInv, RunsOnlyIfHeld
<1>10. RevokedTokenIsReplaced'
  BY <1>2, <1>3 DEF ReqInv, RevokedTokenIsReplaced
<1> QED BY <1>4, <1>5, <1>6, <1>7, <1>8, <1>9, <1>10 DEF ReqInv

\* A new service token troubles whoever has yet to be introspected.
LEMMA RotateInv == ReqInv /\ Rotate => ReqInv'
<1> SUFFICES ASSUME ReqInv, Rotate PROVE ReqInv'
  OBVIOUS
<1>1. sinceThen \in [Arrival -> WitnessRecord]
  BY DEF ReqInv, ReqTypes
<1>2. /\ svcValid' = svcValid + 1 /\ sinceThen' = Troubled({"token", "sent"})
      /\ UNCHANGED <<session, holds, svcCached, request>>
  BY DEF Rotate
<1>3. \A r \in Arrival :
        /\ sinceThen'[r] \in WitnessRecord
        /\ sinceThen'[r].active = sinceThen[r].active /\ sinceThen'[r].ended = sinceThen[r].ended
        /\ sinceThen'[r].held = sinceThen[r].held
        /\ sinceThen[r].troubled => sinceThen'[r].troubled
        /\ request[r].step \in {"token", "sent"} => sinceThen'[r].troubled
  <2> SUFFICES ASSUME NEW r \in Arrival
               PROVE  /\ sinceThen'[r] \in WitnessRecord
                      /\ sinceThen'[r].active = sinceThen[r].active /\ sinceThen'[r].ended = sinceThen[r].ended
                      /\ sinceThen'[r].held = sinceThen[r].held
                      /\ sinceThen[r].troubled => sinceThen'[r].troubled
                      /\ request[r].step \in {"token", "sent"} => sinceThen'[r].troubled
    OBVIOUS
  <2>1. CASE request[r].step \in {"token", "sent"}
    <3>1. sinceThen'[r] = [sinceThen[r] EXCEPT !.troubled = TRUE]
      BY <1>2, <2>1 DEF Troubled
    <3> QED BY <1>1, <3>1 DEF WitnessRecord
  <2>2. CASE request[r].step \notin {"token", "sent"}
    BY <1>1, <1>2, <2>2 DEF Troubled
  <2> QED BY <2>1, <2>2
<1>4. ReqTypes'
  <2>1. sinceThen' \in [Arrival -> WitnessRecord]
    BY <1>2, <1>3 DEF Troubled
  <2> QED BY <1>2, <2>1 DEF ReqInv, ReqTypes
<1>5. IdleIsEmpty'
  BY <1>2 DEF ReqInv, IdleIsEmpty
<1>6. WitnessedNow'
  BY <1>2, <1>3 DEF ReqInv, WitnessedNow
<1>7. KnownWasActive'
  BY <1>2, <1>3 DEF ReqInv, KnownWasActive
<1>8. SecondIsFresh'
  BY <1>2, <1>3 DEF ReqInv, SecondIsFresh
<1>9. RunsOnlyIfHeld'
  BY <1>2, <1>3 DEF ReqInv, RunsOnlyIfHeld
<1>10. RevokedTokenIsReplaced'
  BY <1>2, <1>3 DEF ReqInv, RevokedTokenIsReplaced
<1> QED BY <1>4, <1>5, <1>6, <1>7, <1>8, <1>9, <1>10 DEF ReqInv

\* Every request, and whatever changes meanwhile, keeps the invariant.
LEMMA ReqInvariant == ReqSpec => []ReqInv
<1>1. ReqInv /\ [ReqNext]_reqVars => ReqInv'
  <2> SUFFICES ASSUME ReqInv, [ReqNext]_reqVars PROVE ReqInv'
    OBVIOUS
  <2>1. CASE UNCHANGED reqVars
    BY <2>1 DEF reqVars, ReqInv, ReqTypes, IdleIsEmpty, WitnessedNow, KnownWasActive, SecondIsFresh,
                RunsOnlyIfHeld, RevokedTokenIsReplaced
  <2>2. ASSUME NEW r \in Arrival,
               Arrive(r) \/ TakeServiceToken(r) \/ Introspected(r) \/ GatewayFault(r) \/ Dispatched(r)
        PROVE  ReqInv'
    BY <2>2, ArriveInv, TakeInv, IntrospectedInv, FaultInv, DispatchedInv
  <2>3. CASE SessionEnds \/ RelationChanges \/ Rotate
    BY <2>3, TurnsInv, RotateInv
  <2> QED BY <2>1, <2>2, <2>3 DEF ReqNext
<1> QED BY <1>1, InitReqInv, PTL DEF ReqSpec

\* session_client.rs and permission_dispatch.rs: whatever sessions, relations and service tokens do
\* meanwhile, a handler runs only for a caller who, since the request arrived, had a session and
\* held the relation of the method on the very object the handler acts on; and a service token
\* that was revoked before a request arrived turns nobody away.
THEOREM RequestsChecked == ReqSpec => []RequestsAreChecked
<1>1. ReqInv => RequestsAreChecked
  BY DEF ReqInv, RequestsAreChecked
<1> QED BY <1>1, ReqInvariant, PTL

-----------------------------------------------------------------------------
(***************************************************************************)
(* SearchIndex: the document of a card.                                    *)
(***************************************************************************)
IxDoc == [fields : Nat, names : Nat]
IxEvent == [id : Nat, card : IxCard, kind : EventKind]
IxWork == [step : {"free", "marked", "row read", "names read"}, card : {0} \cup IxCard,
           kind : {"none"} \cup EventKind, doc : IxDoc]

ReadsDoc(i, c) == work[i].card = c /\ work[i].step \in {"row read", "names read"}

IxShapes ==
    /\ cardRow \in [IxCard -> IxDoc] /\ docs \in [IxCard -> IxDoc]
    /\ work \in [Indexer -> IxWork]
    /\ events \subseteq IxEvent /\ batch \in [IxPod -> SUBSET IxEvent]
    /\ ixChanges \in Nat /\ scanned \in Nat /\ backfill \in {"due", "runs", "recorded"}
    /\ \A c \in IxCard : cardRow[c].fields = 0 <=> cardRow[c] = NoDoc
    /\ \A i \in Indexer :
        /\ work[i].step # "free" => work[i].card \in IxCard
        /\ \A c \in IxCard : ReadsDoc(i, c) => work[i].doc.fields # 0
    /\ work[0].step # "free" => backfill = "runs" /\ work[0].kind # "CardDeleted"

\* A card is never made again.
Stands(card, kind) == card \in born /\ (kind = "CardDeleted" => cardRow[card] = NoDoc)

DeletedForGood ==
    /\ \A c \in IxCard : cardRow[c] # NoDoc => c \in born
    /\ \A e \in events : Stands(e.card, e.kind)
    /\ \A p \in IxPod : \A e \in batch[p] : Stands(e.card, e.kind)
    /\ \A i \in Indexer : work[i].step = "marked" => Stands(work[i].card, work[i].kind)

MarkedBy(p, c) == work[p].card = c /\ work[p].step = "marked"

Pending(c) == (\E e \in events : e.card = c) \/ \E p \in IxPod : MarkedBy(p, c)

DelPending(c) ==
    \/ \E e \in events : e.card = c /\ e.kind = "CardDeleted"
    \/ \E p \in IxPod : MarkedBy(p, c) /\ work[p].kind = "CardDeleted"

Told(c) == IF cardRow[c] = NoDoc THEN DelPending(c) ELSE Pending(c)

ToScan(c) ==
    /\ c \in OldCard
    /\ \/ backfill = "due"
       \/ backfill = "runs" /\ (c > scanned \/ (work[0].step # "free" /\ work[0].card = c))

IsMended(c) ==
    docs[c] # NoDoc /\ docs[c] # cardRow[c] =>
        Told(c) \/ (cardRow[c] # NoDoc /\ \E p \in IxPod : ReadsDoc(p, c))

ReadTrue(c) ==
    \A i \in Indexer : ReadsDoc(i, c) =>
        \/ Told(c)
        \/ /\ work[i].doc.fields = cardRow[c].fields
           /\ work[i].step = "names read" => work[i].doc = cardRow[c]

OneReads(c) == \A i, j \in Indexer : ReadsDoc(i, c) /\ ReadsDoc(j, c) => i = j

IsFound(c) ==
    docs[c] = NoDoc /\ cardRow[c] # NoDoc =>
        Pending(c) \/ (\E p \in IxPod : ReadsDoc(p, c)) \/ ToScan(c)

FollowsCard(c) == IsMended(c) /\ ReadTrue(c) /\ OneReads(c) /\ IsFound(c)

IxInv == IxShapes /\ DeletedForGood /\ \A c \in IxCard \ Excused : FollowsCard(c)

\* What a step tells nothing new about stays as it was.
LEMMA NothingOfTheCard ==
    ASSUME IxInv, NEW c \in IxCard, FollowsCard(c),
           cardRow'[c] = cardRow[c], docs'[c] = docs[c],
           Pending(c) => Pending(c)', DelPending(c) => DelPending(c)',
           \A i \in Indexer : ReadsDoc(i, c)' =>
               ReadsDoc(i, c) /\ work'[i].doc = work[i].doc /\ work'[i].step = work[i].step,
           \A p \in IxPod : ReadsDoc(p, c) => ReadsDoc(p, c)',
           ToScan(c) /\ cardRow[c] # NoDoc => ToScan(c)'
    PROVE  FollowsCard(c)'
<1>1. Told(c) => Told(c)'
  BY DEF Told
<1>2. IsMended(c)'
  BY <1>1 DEF FollowsCard, IsMended
<1>3. ReadTrue(c)'
  BY <1>1 DEF FollowsCard, ReadTrue
<1>4. OneReads(c)'
  BY DEF FollowsCard, OneReads
<1>5. IsFound(c)'
  BY DEF FollowsCard, IsFound
<1> QED BY <1>2, <1>3, <1>4, <1>5 DEF FollowsCard

\* Before the first change there is no document, and only the scan will find the old cards.
LEMMA InitIxInv == IxInit => IxInv
<1> SUFFICES ASSUME IxInit PROVE IxInv
  OBVIOUS
<1>1. NoDoc \in IxDoc /\ NoDoc.fields = 0 /\ Free \in IxWork /\ Free.step = "free"
      /\ Free.card = 0 /\ Free.kind = "none" /\ Free.doc = NoDoc
  BY DEF NoDoc, Free, IxDoc, IxWork
<1>2. \A i \in Indexer : work[i] = Free
  BY DEF IxInit
<1>3. \A c \in IxCard : \/ c \in born /\ cardRow[c] \in IxDoc /\ cardRow[c].fields = 1
                       \/ cardRow[c] = NoDoc
  BY DEF IxInit, IxDoc
<1>4. IxShapes
  <2>1. cardRow \in [IxCard -> IxDoc]
    BY <1>1 DEF IxInit, IxDoc
  <2>2. docs \in [IxCard -> IxDoc] /\ work \in [Indexer -> IxWork]
        /\ events \subseteq IxEvent /\ batch \in [IxPod -> SUBSET IxEvent]
        /\ ixChanges \in Nat /\ scanned \in Nat /\ backfill \in {"due", "runs", "recorded"}
    BY <1>1 DEF IxInit
  <2>3. \A c \in IxCard : cardRow[c].fields = 0 <=> cardRow[c] = NoDoc
    BY <1>1, <1>3
  <2>4. 0 \in Indexer
    BY DEF Indexer
  <2> QED BY <1>1, <1>2, <2>1, <2>2, <2>3, <2>4 DEF IxShapes, ReadsDoc
<1>5. DeletedForGood
  BY <1>1, <1>2, <1>3 DEF IxInit, DeletedForGood
<1>6. ASSUME NEW c \in IxCard PROVE FollowsCard(c)
  <2>1. docs[c] = NoDoc /\ backfill = "due" /\ \A i \in Indexer : ~ReadsDoc(i, c)
    BY <1>1, <1>2 DEF IxInit, ReadsDoc
  <2>2. cardRow[c] # NoDoc => c \in OldCard
    BY DEF IxInit
  <2> QED BY <2>1, <2>2 DEF FollowsCard, IsMended, ReadTrue, OneReads, IsFound, ToScan
<1> QED BY <1>4, <1>5, <1>6 DEF IxInv

\* A mutation and its event: whatever the index holds of the card will be read again.
LEMMA ChangeKeepsIx ==
    ASSUME IxInv, NEW c \in IxCard, NEW kind \in EventKind, NEW row \in IxDoc, Change(c, kind, row),
           row.fields = 0 <=> row = NoDoc,
           row = NoDoc <=> kind = "CardDeleted",
           born' = born \cup {c}, c \notin born \/ cardRow[c] # NoDoc
    PROVE  IxInv'
<1>1. PICK e : e = [id |-> ixChanges + 1, card |-> c, kind |-> kind]
  OBVIOUS
<1>2. e.card = c /\ e.kind = kind /\ events' = events \cup {e} /\ ixChanges' = ixChanges + 1
      /\ cardRow' = [cardRow EXCEPT ![c] = row]
      /\ UNCHANGED <<docs, batch, work, scanned, backfill, missed, overtaken, unannounced>>
  BY <1>1 DEF Change, ixGhosts
<1>3. cardRow' \in [IxCard -> IxDoc] /\ cardRow'[c] = row /\ \A d \in IxCard \ {c} : cardRow'[d] = cardRow[d]
  BY <1>2 DEF IxInv, IxShapes
<1>4. IxShapes'
  <2>1. e \in IxEvent
    BY <1>1 DEF IxInv, IxShapes, IxEvent
  <2>2. events' \subseteq IxEvent /\ ixChanges' \in Nat
    BY <1>2, <2>1 DEF IxInv, IxShapes
  <2>3. \A d \in IxCard : cardRow'[d].fields = 0 <=> cardRow'[d] = NoDoc
    <3>1. \A d \in IxCard : cardRow[d].fields = 0 <=> cardRow[d] = NoDoc
      BY DEF IxInv, IxShapes
    <3> QED BY <1>3, <3>1
  <2> QED BY <1>2, <1>3, <2>2, <2>3 DEF IxInv, IxShapes, ReadsDoc
<1>5. ASSUME NEW d, NEW k, Stands(d, k), d \in IxCard PROVE Stands(d, k)'
  <2>1. CASE d = c
    <3>1. k = "CardDeleted" => FALSE
      BY <1>5, <2>1 DEF Stands
    <3> QED BY <1>5, <2>1, <3>1 DEF Stands
  <2>2. CASE d # c
    BY <1>3, <1>5, <2>2 DEF Stands
  <2> QED BY <2>1, <2>2
<1>6. DeletedForGood'
  <2>1. \A d \in IxCard : cardRow'[d] # NoDoc => d \in born'
    BY <1>3 DEF IxInv, DeletedForGood
  <2>2. Stands(c, kind)'
    BY <1>3 DEF Stands
  <2>3. \A f \in events' : Stands(f.card, f.kind)'
    <3>1. \A f \in events : f.card \in IxCard /\ Stands(f.card, f.kind)
      BY DEF IxInv, DeletedForGood, IxShapes, IxEvent
    <3> QED BY <1>2, <1>5, <2>2, <3>1
  <2>4. \A p \in IxPod : \A f \in batch[p] : Stands(f.card, f.kind)'
    <3>1. \A p \in IxPod : \A f \in batch[p] : f.card \in IxCard /\ Stands(f.card, f.kind)
      BY DEF IxInv, DeletedForGood, IxShapes, IxEvent
    <3> QED BY <1>5, <3>1
  <2>5. \A i \in Indexer : work[i].step = "marked" =>
          \E d, k : d = work[i].card /\ k = work[i].kind /\ Stands(d, k)'
    <3>1. \A i \in Indexer : work[i].step = "marked" => work[i].card \in IxCard /\ Stands(work[i].card, work[i].kind)
      BY DEF IxInv, DeletedForGood, IxShapes
    <3> QED BY <1>5, <3>1
  <2> QED BY <1>2, <2>1, <2>3, <2>4, <2>5 DEF DeletedForGood, Stands
<1>7. Excused' = Excused
  BY <1>2 DEF Excused
<1>8. ASSUME NEW d \in IxCard, d \notin Excused PROVE FollowsCard(d)'
  <2>1. FollowsCard(d)
    BY <1>8 DEF IxInv
  <2>2. CASE d = c
    <3>1. e \in events'
      BY <1>2
    <3>2. Pending(c)'
      BY <1>2, <3>1 DEF Pending
    <3>3. cardRow'[c] = NoDoc => DelPending(c)'
      BY <1>2, <1>3, <3>1 DEF DelPending
    <3>4. Told(c)'
      BY <3>2, <3>3 DEF Told
    <3>5. OneReads(c)'
      BY <1>2, <2>1, <2>2 DEF FollowsCard, OneReads, ReadsDoc
    <3> QED BY <2>2, <3>2, <3>4, <3>5 DEF FollowsCard, IsMended, ReadTrue, IsFound
  <2>3. CASE d # c
    <3>1. cardRow'[d] = cardRow[d] /\ docs'[d] = docs[d]
      BY <1>2, <1>3, <2>3
    <3>2. Pending(d) => Pending(d)'
      BY <1>2 DEF Pending, MarkedBy
    <3>3. DelPending(d) => DelPending(d)'
      BY <1>2 DEF DelPending, MarkedBy
    <3>4. \A i \in Indexer : ReadsDoc(i, d)' =>
            ReadsDoc(i, d) /\ work'[i].doc = work[i].doc /\ work'[i].step = work[i].step
      BY <1>2 DEF ReadsDoc
    <3>5. \A p \in IxPod : ReadsDoc(p, d) => ReadsDoc(p, d)'
      BY <1>2 DEF ReadsDoc
    <3>6. ToScan(d) /\ cardRow[d] # NoDoc => ToScan(d)'
      BY <1>2 DEF ToScan
    <3> QED BY <2>1, <3>1, <3>2, <3>3, <3>4, <3>5, <3>6, NothingOfTheCard, Zenon
  <2> QED BY <2>2, <2>3
<1> QED BY <1>4, <1>6, <1>7, <1>8 DEF IxInv

\* UpdateLabel, DeleteLabel: the card is excused from then on.
LEMMA SilentKeepsIx == ASSUME IxInv, NEW c \in IxCard, Silently(c) PROVE IxInv'
<1>1. PICK row \in IxDoc :
        /\ cardRow' = [cardRow EXCEPT ![c] = row]
        /\ row.fields = 0 <=> row = NoDoc
  <2>1. cardRow[c] \in IxDoc /\ cardRow[c] # NoDoc /\ ixChanges + 2 \in Nat /\ cardRow[c].fields # 0
    BY DEF IxInv, IxShapes, Silently
  <2>2. CASE cardRow' = [cardRow EXCEPT ![c].names = ixChanges + 2]
    <3>1. PICK row : row = [cardRow[c] EXCEPT !.names = ixChanges + 2]
      OBVIOUS
    <3>2. row \in IxDoc /\ row.fields # 0
      BY <2>1, <3>1 DEF IxDoc
    <3>3. row # NoDoc
      BY <3>2 DEF NoDoc
    <3>4. cardRow' = [cardRow EXCEPT ![c] = row]
      BY <2>2, <3>1
    <3> QED BY <3>2, <3>3, <3>4
  <2>3. CASE cardRow' = [cardRow EXCEPT ![c] = NoDoc]
    <3>1. NoDoc \in IxDoc /\ NoDoc.fields = 0
      BY DEF NoDoc, IxDoc
    <3> QED BY <2>3, <3>1
  <2> QED BY <2>2, <2>3 DEF Silently
<1>2. /\ cardRow[c] # NoDoc /\ ixChanges' = ixChanges + 1 /\ unannounced' = unannounced \cup {c}
      /\ UNCHANGED <<born, events, docs, batch, work, scanned, backfill, missed, overtaken>>
  BY DEF Silently
<1>3. cardRow' \in [IxCard -> IxDoc] /\ cardRow'[c] = row /\ \A d \in IxCard \ {c} : cardRow'[d] = cardRow[d]
  BY <1>1 DEF IxInv, IxShapes
<1>4. IxShapes'
  <2>1. \A d \in IxCard : cardRow'[d].fields = 0 <=> cardRow'[d] = NoDoc
    <3>1. \A d \in IxCard : cardRow[d].fields = 0 <=> cardRow[d] = NoDoc
      BY DEF IxInv, IxShapes
    <3> QED BY <1>1, <1>3, <3>1
  <2>2. ixChanges' \in Nat
    BY <1>2 DEF IxInv, IxShapes
  <2> QED BY <1>2, <1>3, <2>1, <2>2 DEF IxInv, IxShapes, ReadsDoc
<1>5. ASSUME NEW d, NEW k, Stands(d, k), d \in IxCard PROVE Stands(d, k)'
  BY <1>2, <1>3, <1>5 DEF Stands
<1>6. DeletedForGood'
  <2>1. \A d \in IxCard : cardRow'[d] # NoDoc => d \in born'
    BY <1>2, <1>3 DEF IxInv, DeletedForGood
  <2>2. \A f \in events : Stands(f.card, f.kind)'
    <3>1. \A f \in events : f.card \in IxCard /\ Stands(f.card, f.kind)
      BY DEF IxInv, DeletedForGood, IxShapes, IxEvent
    <3> QED BY <1>5, <3>1
  <2>3. \A p \in IxPod : \A f \in batch[p] : Stands(f.card, f.kind)'
    <3>1. \A p \in IxPod : \A f \in batch[p] : f.card \in IxCard /\ Stands(f.card, f.kind)
      BY DEF IxInv, DeletedForGood, IxShapes, IxEvent
    <3> QED BY <1>5, <3>1
  <2>4. \A i \in Indexer : work[i].step = "marked" =>
          \E d, k : d = work[i].card /\ k = work[i].kind /\ Stands(d, k)'
    <3>1. \A i \in Indexer : work[i].step = "marked" => work[i].card \in IxCard /\ Stands(work[i].card, work[i].kind)
      BY DEF IxInv, DeletedForGood, IxShapes
    <3> QED BY <1>5, <3>1
  <2> QED BY <1>2, <2>1, <2>2, <2>3, <2>4 DEF DeletedForGood, Stands
<1>7. Excused' = Excused \cup {c}
  BY <1>2 DEF Excused
<1>8. ASSUME NEW d \in IxCard, d \notin Excused, d # c PROVE FollowsCard(d)'
  <2>1. FollowsCard(d)
    BY <1>8 DEF IxInv
  <2>2. cardRow'[d] = cardRow[d] /\ docs'[d] = docs[d]
    BY <1>2, <1>3, <1>8
  <2>3. Pending(d) => Pending(d)'
    BY <1>2 DEF Pending, MarkedBy
  <2>4. DelPending(d) => DelPending(d)'
    BY <1>2 DEF DelPending, MarkedBy
  <2>5. \A i \in Indexer : ReadsDoc(i, d)' =>
          ReadsDoc(i, d) /\ work'[i].doc = work[i].doc /\ work'[i].step = work[i].step
    BY <1>2 DEF ReadsDoc
  <2>6. \A p \in IxPod : ReadsDoc(p, d) => ReadsDoc(p, d)'
    BY <1>2 DEF ReadsDoc
  <2>7. ToScan(d) /\ cardRow[d] # NoDoc => ToScan(d)'
    BY <1>2 DEF ToScan
  <2> QED BY <2>1, <2>2, <2>3, <2>4, <2>5, <2>6, <2>7, NothingOfTheCard, Zenon
<1> QED BY <1>4, <1>6, <1>7, <1>8 DEF IxInv

\* What an indexer may be about.
WorkFits(i, w) ==
    /\ w.step # "free" => w.card \in IxCard
    /\ w.step \in {"row read", "names read"} => w.doc.fields # 0
    /\ i = 0 /\ w.step # "free" => w.kind # "CardDeleted"
    /\ w.step = "marked" => Stands(w.card, w.kind)

\* A step of an indexer leaves the cards alone, and takes its work from events.
LEMMA IndexerKeepsShapes ==
    ASSUME IxInv, NEW i \in Indexer, NEW w \in IxWork, work' = [work EXCEPT ![i] = w],
           UNCHANGED <<born, cardRow, ixChanges>>,
           events' \subseteq events, batch' \in [IxPod -> SUBSET IxEvent],
           \A p \in IxPod : batch'[p] \subseteq batch[p] \cup events,
           docs' \in [IxCard -> IxDoc], scanned' \in Nat, backfill' \in {"due", "runs", "recorded"},
           WorkFits(i, w), work'[0].step # "free" => backfill' = "runs"
    PROVE  IxShapes' /\ DeletedForGood'
<1>1. work' \in [Indexer -> IxWork] /\ work'[i] = w /\ \A j \in Indexer \ {i} : work'[j] = work[j]
  BY DEF IxInv, IxShapes
<1>2. \A j \in Indexer : WorkFits(j, work'[j])
  <2>1. \A j \in Indexer : WorkFits(j, work[j])
    <3> SUFFICES ASSUME NEW j \in Indexer PROVE WorkFits(j, work[j])
      OBVIOUS
    <3>1. work[j].step # "free" => work[j].card \in IxCard
      BY DEF IxInv, IxShapes
    <3>2. work[j].step \in {"row read", "names read"} => work[j].doc.fields # 0
      BY <3>1 DEF IxInv, IxShapes, ReadsDoc
    <3>3. j = 0 /\ work[j].step # "free" => work[j].kind # "CardDeleted"
      BY DEF IxInv, IxShapes
    <3>4. work[j].step = "marked" => Stands(work[j].card, work[j].kind)
      BY DEF IxInv, DeletedForGood
    <3> QED BY <3>1, <3>2, <3>3, <3>4 DEF WorkFits
  <2> QED BY <1>1, <2>1
<1>3. IxShapes'
  <2>1. /\ cardRow \in [IxCard -> IxDoc] /\ events \subseteq IxEvent /\ ixChanges \in Nat
        /\ \A c \in IxCard : cardRow[c].fields = 0 <=> cardRow[c] = NoDoc
    BY DEF IxInv, IxShapes
  <2>2. 0 \in Indexer
    BY DEF Indexer
  <2>3. \A j \in Indexer :
          /\ work'[j].step # "free" => work'[j].card \in IxCard
          /\ \A c \in IxCard : ReadsDoc(j, c)' => work'[j].doc.fields # 0
    BY <1>2 DEF WorkFits, ReadsDoc
  <2>4. work'[0].step # "free" => work'[0].kind # "CardDeleted"
    BY <1>2, <2>2 DEF WorkFits
  <2> QED BY <1>1, <2>1, <2>3, <2>4 DEF IxShapes
<1>4. DeletedForGood'
  <2>1. \A d, k : Stands(d, k) <=> Stands(d, k)'
    BY DEF Stands
  <2>2. \A c \in IxCard : cardRow'[c] # NoDoc => c \in born'
    BY DEF IxInv, DeletedForGood
  <2>3. \A f \in events : Stands(f.card, f.kind)
    BY DEF IxInv, DeletedForGood
  <2>4. \A p \in IxPod : \A f \in batch'[p] : Stands(f.card, f.kind)
    BY <2>3 DEF IxInv, DeletedForGood
  <2>5. \A j \in Indexer : work'[j].step = "marked" => Stands(work'[j].card, work'[j].kind)
    BY <1>2 DEF WorkFits
  <2> QED BY <2>2, <2>3, <2>4, <2>5 DEF DeletedForGood, Stands
<1> QED BY <1>3, <1>4

\* A card the indexer is not about, before or after, is followed as it was.
LEMMA IndexerOnAnother ==
    ASSUME IxInv, NEW i \in Indexer, NEW w \in IxWork, work' = [work EXCEPT ![i] = w],
           events' = events, cardRow' = cardRow,
           NEW c \in IxCard, FollowsCard(c), docs'[c] = docs[c],
           work[i].card # c \/ work[i].step = "free",
           w.card # c \/ w.step \in {"free", "marked"},
           ToScan(c) /\ cardRow[c] # NoDoc => ToScan(c)'
    PROVE  FollowsCard(c)'
<1>1. work'[i] = w /\ \A j \in Indexer \ {i} : work'[j] = work[j]
  BY DEF IxInv, IxShapes
<1>2. IxPod \subseteq Indexer
  BY DEF Indexer
<1>3. \A p \in IxPod : MarkedBy(p, c) => MarkedBy(p, c)' /\ work'[p] = work[p]
  BY <1>1, <1>2 DEF MarkedBy
<1>4. Pending(c) => Pending(c)'
  BY <1>3 DEF Pending
<1>5. DelPending(c) => DelPending(c)'
  BY <1>3 DEF DelPending
<1>6. \A j \in Indexer : ReadsDoc(j, c)' =>
        ReadsDoc(j, c) /\ work'[j].doc = work[j].doc /\ work'[j].step = work[j].step
  BY <1>1 DEF ReadsDoc
<1>7. \A p \in IxPod : ReadsDoc(p, c) => ReadsDoc(p, c)'
  BY <1>1, <1>2 DEF ReadsDoc
<1>8. cardRow'[c] = cardRow[c]
  OBVIOUS
<1> QED BY <1>4, <1>5, <1>6, <1>7, <1>8, NothingOfTheCard, Zenon

\* Selecting events and the backfill's own bookkeeping leave every document's story alone.
LEMMA SelectKeepsIx ==
    ASSUME IxInv,
           (\E p \in IxPod : SelectEvents(p)) \/ BackfillStarts \/ BackfillRecorded
    PROVE  IxInv'
<1>1. UNCHANGED <<born, cardRow, ixChanges, events, docs, work, missed, overtaken, unannounced>>
  BY DEF SelectEvents, BackfillStarts, BackfillRecorded, ixGhosts
<1>2. 0 \in Indexer /\ work[0] \in IxWork /\ work' = [work EXCEPT ![0] = work[0]]
  BY <1>1 DEF Indexer, IxInv, IxShapes
<1>3. /\ batch' \in [IxPod -> SUBSET IxEvent]
      /\ \A p \in IxPod : batch'[p] \subseteq batch[p] \cup events
      /\ docs' \in [IxCard -> IxDoc] /\ scanned' \in Nat /\ backfill' \in {"due", "runs", "recorded"}
  <2>1. events \subseteq IxEvent /\ batch \in [IxPod -> SUBSET IxEvent] /\ docs \in [IxCard -> IxDoc]
        /\ scanned \in Nat /\ backfill \in {"due", "runs", "recorded"}
    BY DEF IxInv, IxShapes
  <2>2. CASE \E p \in IxPod : SelectEvents(p)
    <3>1. PICK q \in IxPod : SelectEvents(q)
      BY <2>2
    <3>2. batch' = [batch EXCEPT ![q] = events] /\ scanned' = scanned /\ backfill' = backfill
      BY <3>1 DEF SelectEvents
    <3> QED BY <1>1, <2>1, <3>2
  <2>3. CASE BackfillStarts \/ BackfillRecorded
    <3>1. batch' = batch /\ backfill' \in {"runs", "recorded"} /\ (scanned' = scanned \/ scanned' = 0)
      BY <2>3 DEF BackfillStarts, BackfillRecorded, ScanFrom
    <3> QED BY <1>1, <2>1, <3>1
  <2> QED BY <2>2, <2>3
<1>4. WorkFits(0, work[0])
  <2>1. work[0].step # "free" => work[0].card \in IxCard
    BY <1>2 DEF IxInv, IxShapes
  <2>2. work[0].step \in {"row read", "names read"} => work[0].doc.fields # 0
    BY <1>2, <2>1 DEF IxInv, IxShapes, ReadsDoc
  <2>3. work[0].step = "marked" => Stands(work[0].card, work[0].kind)
    BY <1>2 DEF IxInv, DeletedForGood
  <2> QED BY <2>1, <2>2, <2>3 DEF WorkFits, IxInv, IxShapes
<1>5. work'[0].step # "free" => backfill' = "runs"
  <2>1. work[0].step # "free" => backfill = "runs"
    BY DEF IxInv, IxShapes
  <2>2. Free.step = "free"
    BY DEF Free
  <2> QED BY <1>1, <2>1, <2>2 DEF SelectEvents, BackfillStarts, BackfillRecorded, ScanEnded
<1>6. events' \subseteq events /\ UNCHANGED <<born, cardRow, ixChanges>>
  BY <1>1
<1>7. IxShapes' /\ DeletedForGood'
  BY <1>2, <1>3, <1>4, <1>5, <1>6, IndexerKeepsShapes, Zenon
<1>8. ASSUME NEW c \in IxCard, c \notin Excused PROVE FollowsCard(c)'
  <2>1. FollowsCard(c)
    BY <1>8 DEF IxInv
  <2>2. cardRow'[c] = cardRow[c] /\ docs'[c] = docs[c]
    BY <1>1
  <2>3. Pending(c) => Pending(c)'
    BY <1>1 DEF Pending, MarkedBy
  <2>4. DelPending(c) => DelPending(c)'
    BY <1>1 DEF DelPending, MarkedBy
  <2>5. \A i \in Indexer : ReadsDoc(i, c)' =>
          ReadsDoc(i, c) /\ work'[i].doc = work[i].doc /\ work'[i].step = work[i].step
    BY <1>1 DEF ReadsDoc
  <2>6. \A p \in IxPod : ReadsDoc(p, c) => ReadsDoc(p, c)'
    BY <1>1 DEF ReadsDoc
  <2>7. ToScan(c) /\ cardRow[c] # NoDoc => ToScan(c)'
    <3>1. CASE \E p \in IxPod : SelectEvents(p)
      BY <1>1, <3>1 DEF ToScan, SelectEvents
    <3>2. CASE BackfillStarts
      <4>1. c > 0
        BY IndexAssumption DEF IxCard
      <4> QED BY <3>2, <4>1 DEF ToScan, BackfillStarts, ScanFrom
    <3>3. CASE BackfillRecorded
      <4>1. backfill = "runs" /\ Left = {} /\ work[0].step = "free"
        BY <3>3 DEF BackfillRecorded, ScanEnded, Free
      <4>2. cardRow[c] # NoDoc => ~(c > scanned)
        BY <4>1 DEF Left, ScanAfter
      <4> QED BY <4>1, <4>2 DEF ToScan
    <3> QED BY <3>1, <3>2, <3>3
  <2> QED BY <2>1, <2>2, <2>3, <2>4, <2>5, <2>6, <2>7, NothingOfTheCard, Zenon
<1>9. Excused' = Excused
  BY <1>1 DEF Excused
<1> QED BY <1>7, <1>8, <1>9 DEF IxInv

\* The scan finds the next card: whatever it passes over is gone.
LEMMA ScanKeepsIx == ASSUME IxInv, ScanDoc PROVE IxInv'
<1>1. PICK c \in Left :
        /\ \A d \in Left : c <= d
        /\ scanned' = c
        /\ work' = [work EXCEPT ![0] = [step |-> "marked", card |-> c, kind |-> "CardUpdated", doc |-> NoDoc]]
  BY DEF ScanDoc
<1>2. PICK w : w = [step |-> "marked", card |-> c, kind |-> "CardUpdated", doc |-> NoDoc]
  OBVIOUS
<1>3. /\ backfill = "runs" /\ work[0].step = "free"
      /\ UNCHANGED <<born, cardRow, ixChanges, events, docs, batch, backfill, missed, overtaken, unannounced>>
  BY DEF ScanDoc, Free, ixGhosts
<1>4. c \in IxCard /\ cardRow[c] # NoDoc /\ c \in Nat
  BY IndexAssumption DEF Left, IxCard
<1>5. w \in IxWork /\ w.step = "marked" /\ w.card = c /\ w.kind = "CardUpdated"
  BY <1>2, <1>4 DEF IxWork, IxDoc, NoDoc, EventKind
<1>6. 0 \in Indexer /\ work' = [work EXCEPT ![0] = w]
  BY <1>1, <1>2 DEF Indexer
<1>7. work'[0] = w
  BY <1>6 DEF IxInv, IxShapes
<1>8. WorkFits(0, w)
  BY <1>4, <1>5 DEF WorkFits, Stands, IxInv, DeletedForGood
<1>9. events' \subseteq events /\ UNCHANGED <<born, cardRow, ixChanges>>
  BY <1>3
<1>10. /\ batch' \in [IxPod -> SUBSET IxEvent]
       /\ \A p \in IxPod : batch'[p] \subseteq batch[p] \cup events
       /\ docs' \in [IxCard -> IxDoc] /\ scanned' \in Nat /\ backfill' \in {"due", "runs", "recorded"}
  BY <1>1, <1>3, <1>4 DEF IxInv, IxShapes
<1>11. work'[0].step # "free" => backfill' = "runs"
  BY <1>3
<1>12. IxShapes' /\ DeletedForGood'
  BY <1>5, <1>6, <1>8, <1>9, <1>10, <1>11, IndexerKeepsShapes, Zenon
<1>13. ASSUME NEW d \in IxCard, d \notin Excused PROVE FollowsCard(d)'
  <2>1. FollowsCard(d)
    BY <1>13 DEF IxInv
  <2>2. ToScan(d) /\ cardRow[d] # NoDoc => ToScan(d)'
    <3> SUFFICES ASSUME ToScan(d), cardRow[d] # NoDoc PROVE d > c \/ d = c
      BY <1>1, <1>3, <1>5, <1>7 DEF ToScan
    <3>1. d > scanned
      BY <1>3 DEF ToScan
    <3>2. c <= d
      BY <1>1, <3>1 DEF Left, ScanAfter
    <3>3. d \in Nat
      BY IndexAssumption DEF IxCard
    <3> QED BY <1>4, <3>2, <3>3
  <2>3. docs'[d] = docs[d] /\ events' = events /\ cardRow' = cardRow
    BY <1>3
  <2>4. work[0].card # d \/ work[0].step = "free"
    BY <1>3
  <2>5. w.card # d \/ w.step \in {"free", "marked"}
    BY <1>5
  <2> QED BY <1>5, <1>6, <2>1, <2>2, <2>3, <2>4, <2>5, IndexerOnAnother, Zenon
<1>14. Excused' = Excused
  BY <1>3 DEF Excused
<1> QED BY <1>12, <1>13, <1>14 DEF IxInv

\* An idle indexer fits.
LEMMA FreeFits == Free \in IxWork /\ Free.step = "free" /\ Free.card = 0 /\ \A i \in Indexer : WorkFits(i, Free)
<1>1. Free \in IxWork /\ Free.step = "free" /\ Free.card = 0
  BY DEF Free, IxWork, IxDoc, NoDoc
<1> QED BY <1>1 DEF WorkFits

\* A failure and a crash: the card is excused, but for the backfill, which is due again.
LEMMA FailKeepsIx ==
    ASSUME IxInv, NEW i \in Indexer, IndexFails(i) \/ (i \in IxPod /\ PodDies(i))
    PROVE  IxInv'
<1>1. /\ work' = [work EXCEPT ![i] = Free]
      /\ UNCHANGED <<born, cardRow, ixChanges, events, docs, scanned, overtaken, unannounced>>
  BY DEF IndexFails, PodDies
<1>2. work'[i] = Free /\ \A j \in Indexer \ {i} : work'[j] = work[j]
  BY <1>1 DEF IxInv, IxShapes
<1>3. /\ batch' \in [IxPod -> SUBSET IxEvent]
      /\ \A p \in IxPod : batch'[p] \subseteq batch[p] \cup events
      /\ docs' \in [IxCard -> IxDoc] /\ scanned' \in Nat
  <2>1. batch \in [IxPod -> SUBSET IxEvent] /\ docs \in [IxCard -> IxDoc] /\ scanned \in Nat
    BY DEF IxInv, IxShapes
  <2>2. CASE IndexFails(i)
    BY <1>1, <2>1, <2>2 DEF IndexFails
  <2>3. CASE i \in IxPod /\ PodDies(i)
    <3>1. batch' = [batch EXCEPT ![i] = {}]
      BY <2>3 DEF PodDies
    <3> QED BY <1>1, <2>1, <3>1
  <2> QED BY <2>2, <2>3
<1>4. /\ backfill' \in {"due", "runs", "recorded"}
      /\ \/ backfill' = backfill
         \/ i = 0 /\ backfill' = "due"
  BY DEF IndexFails, PodDies, IxInv, IxShapes
<1>5. work'[0].step # "free" => backfill' = "runs"
  <2>1. 0 \in Indexer
    BY DEF Indexer
  <2>2. work[0].step # "free" => backfill = "runs"
    BY DEF IxInv, IxShapes
  <2> QED BY <1>2, <1>4, <2>1, <2>2, FreeFits
<1>6. events' \subseteq events /\ UNCHANGED <<born, cardRow, ixChanges>>
  BY <1>1
<1>7. IxShapes' /\ DeletedForGood'
  <2>1. Free \in IxWork /\ WorkFits(i, Free)
    BY FreeFits
  <2> QED BY <1>1, <1>3, <1>4, <1>5, <1>6, <2>1, IndexerKeepsShapes, Zenon
<1>8. /\ Excused \subseteq Excused'
      /\ work[i].step # "free" /\ i # 0 => work[i].card \in Excused'
  <2>1. CASE IndexFails(i)
    BY <1>1, <2>1 DEF IndexFails, Excused
  <2>2. CASE i \in IxPod /\ PodDies(i)
    BY <1>1, <2>2, FreeFits DEF PodDies, Excused
  <2> QED BY <2>1, <2>2
<1>9. ASSUME NEW c \in IxCard, c \notin Excused' PROVE FollowsCard(c)'
  <2>1. FollowsCard(c) /\ cardRow'[c] = cardRow[c] /\ docs'[c] = docs[c]
    BY <1>1, <1>8, <1>9 DEF IxInv
  <2>2. i \in IxPod => ~MarkedBy(i, c) /\ ~ReadsDoc(i, c)
    <3>1. i \in IxPod => i # 0
      BY DEF IxPod
    <3> QED BY <1>8, <1>9, <3>1 DEF MarkedBy, ReadsDoc
  <2>3. IxPod \subseteq Indexer
    BY DEF Indexer
  <2>4. Pending(c) => Pending(c)'
    BY <1>1, <1>2, <2>2, <2>3 DEF Pending, MarkedBy
  <2>5. DelPending(c) => DelPending(c)'
    BY <1>1, <1>2, <2>2, <2>3 DEF DelPending, MarkedBy
  <2>6. \A j \in Indexer : ReadsDoc(j, c)' =>
          ReadsDoc(j, c) /\ work'[j].doc = work[j].doc /\ work'[j].step = work[j].step
    BY <1>2, FreeFits DEF ReadsDoc
  <2>7. \A p \in IxPod : ReadsDoc(p, c) => ReadsDoc(p, c)'
    BY <1>2, <2>2, <2>3 DEF ReadsDoc
  <2>8. ToScan(c) /\ cardRow[c] # NoDoc => ToScan(c)'
    <3>1. CASE i = 0 /\ backfill' = "due"
      BY <3>1 DEF ToScan
    <3>2. CASE backfill' = backfill
      <4>1. i # 0 => work'[0] = work[0]
        BY <1>2 DEF Indexer
      <4>2. i = 0 => backfill' = "due"
        BY DEF IndexFails, PodDies, IxPod
      <4> QED BY <1>1, <3>2, <4>1, <4>2 DEF ToScan
    <3> QED BY <1>4, <3>1, <3>2
  <2> QED BY <2>1, <2>4, <2>5, <2>6, <2>7, <2>8, NothingOfTheCard, Zenon
<1> QED BY <1>7, <1>9 DEF IxInv

\* An event that is marked is work of the pod that marked it.
LEMMA MarkKeepsIx == ASSUME IxInv, NEW p \in IxPod, MarkEvent(p) PROVE IxInv'
<1>1. PICK e \in batch[p] :
        /\ work[p] = Free
        /\ batch' = [batch EXCEPT ![p] = @ \ {e}]
        /\ \/ /\ events' = events \ {e}
              /\ work' = IF Indexes(e.kind)
                         THEN [work EXCEPT ![p] = [step |-> "marked", card |-> e.card, kind |-> e.kind, doc |-> NoDoc]]
                         ELSE work
           \/ UNCHANGED <<events, work>>
  BY DEF MarkEvent
<1>2. UNCHANGED <<born, cardRow, ixChanges, docs, scanned, backfill, missed, overtaken, unannounced>>
  BY DEF MarkEvent, ixGhosts
<1>3. e \in IxEvent /\ e.card \in IxCard /\ e.kind \in EventKind /\ Stands(e.card, e.kind)
  BY DEF IxInv, IxShapes, IxEvent, DeletedForGood
<1>4. p \in Indexer /\ p # 0 /\ work[p].step = "free"
  BY <1>1, FreeFits DEF Indexer, IxPod
<1>5. PICK m : m = [step |-> "marked", card |-> e.card, kind |-> e.kind, doc |-> NoDoc]
  OBVIOUS
<1>6. m \in IxWork /\ m.step = "marked" /\ m.card = e.card /\ m.kind = e.kind
  BY <1>3, <1>5 DEF IxWork, IxDoc, NoDoc
<1>7. PICK w \in IxWork :
        /\ work' = [work EXCEPT ![p] = w] /\ WorkFits(p, w)
        /\ w.step \in {"free", "marked"}
        /\ \/ events' = events \ {e} /\ w = m
           \/ events' = events
  <2>1. CASE work' = [work EXCEPT ![p] = m] /\ events' = events \ {e}
    <3>1. WorkFits(p, m)
      BY <1>3, <1>4, <1>6 DEF WorkFits
    <3> QED BY <1>6, <2>1, <3>1
  <2>2. CASE UNCHANGED <<events, work>>
    <3>1. work' = [work EXCEPT ![p] = Free]
      BY <1>1, <1>4, <2>2 DEF IxInv, IxShapes
    <3> QED BY <1>4, <2>2, <3>1, FreeFits
  <2> QED BY <1>1, <1>3, <1>5, <2>1, <2>2 DEF Indexes
<1>8. work'[p] = w /\ \A j \in Indexer \ {p} : work'[j] = work[j]
  BY <1>4, <1>7 DEF IxInv, IxShapes
<1>9. /\ batch' \in [IxPod -> SUBSET IxEvent]
      /\ \A q \in IxPod : batch'[q] \subseteq batch[q] \cup events
      /\ docs' \in [IxCard -> IxDoc] /\ scanned' \in Nat /\ backfill' \in {"due", "runs", "recorded"}
  <2>1. batch \in [IxPod -> SUBSET IxEvent]
    BY DEF IxInv, IxShapes
  <2> QED BY <1>1, <1>2, <2>1 DEF IxInv, IxShapes
<1>10. work'[0].step # "free" => backfill' = "runs"
  BY <1>2, <1>4, <1>8 DEF Indexer, IxInv, IxShapes
<1>11. events' \subseteq events /\ UNCHANGED <<born, cardRow, ixChanges>>
  BY <1>2, <1>7
<1>12. IxShapes' /\ DeletedForGood'
  BY <1>4, <1>7, <1>9, <1>10, <1>11, IndexerKeepsShapes, Zenon
<1>13. ASSUME NEW c \in IxCard, c \notin Excused PROVE FollowsCard(c)'
  <2>1. FollowsCard(c) /\ cardRow'[c] = cardRow[c] /\ docs'[c] = docs[c]
    BY <1>2, <1>13 DEF IxInv
  <2>2. IxPod \subseteq Indexer
    BY DEF Indexer
  <2>3. e.card = c /\ events' = events \ {e} /\ w = m => MarkedBy(p, c)' /\ work'[p].kind = e.kind
    BY <1>6, <1>8 DEF MarkedBy
  <2>4. \A q \in IxPod : MarkedBy(q, c) => MarkedBy(q, c)' /\ work'[q] = work[q]
    BY <1>4, <1>8, <2>2 DEF MarkedBy
  <2>5. Pending(c) => Pending(c)'
    BY <1>7, <2>3, <2>4 DEF Pending
  <2>6. DelPending(c) => DelPending(c)'
    BY <1>7, <2>3, <2>4 DEF DelPending
  <2>7. \A j \in Indexer : ReadsDoc(j, c)' =>
          ReadsDoc(j, c) /\ work'[j].doc = work[j].doc /\ work'[j].step = work[j].step
    BY <1>7, <1>8 DEF ReadsDoc
  <2>8. \A q \in IxPod : ReadsDoc(q, c) => ReadsDoc(q, c)'
    BY <1>4, <1>8, <2>2 DEF ReadsDoc
  <2>9. ToScan(c) /\ cardRow[c] # NoDoc => ToScan(c)'
    <3>1. work'[0] = work[0]
      BY <1>4, <1>8 DEF Indexer
    <3> QED BY <1>2, <3>1 DEF ToScan
  <2> QED BY <2>1, <2>5, <2>6, <2>7, <2>8, <2>9, NothingOfTheCard, Zenon
<1>14. Excused' = Excused
  BY <1>2 DEF Excused
<1> QED BY <1>12, <1>13, <1>14 DEF IxInv

\* An indexer that goes on with its card disturbs no other card.
LEMMA StepOnOneCard ==
    ASSUME IxInv, NEW i \in Indexer, NEW w \in IxWork, work' = [work EXCEPT ![i] = w],
           UNCHANGED <<born, cardRow, ixChanges, events, batch, scanned, backfill>>,
           docs' \in [IxCard -> IxDoc], WorkFits(i, w), work[i].step # "free",
           w.step = "free" \/ w.card = work[i].card
    PROVE  /\ IxShapes' /\ DeletedForGood'
           /\ work[i].card \in IxCard /\ work'[i] = w /\ \A j \in Indexer \ {i} : work'[j] = work[j]
           /\ \A c \in IxCard \ {work[i].card} : FollowsCard(c) /\ docs'[c] = docs[c] => FollowsCard(c)'
<1>1. work[i].card \in IxCard /\ work'[i] = w /\ \A j \in Indexer \ {i} : work'[j] = work[j]
  BY DEF IxInv, IxShapes
<1>2. IxShapes' /\ DeletedForGood'
  <2>1. /\ batch' \in [IxPod -> SUBSET IxEvent]
        /\ \A p \in IxPod : batch'[p] \subseteq batch[p] \cup events
        /\ scanned' \in Nat /\ backfill' \in {"due", "runs", "recorded"}
    BY DEF IxInv, IxShapes
  <2>2. work'[0].step # "free" => backfill' = "runs"
    <3>1. (work[0].step # "free" => backfill = "runs") /\ 0 \in Indexer
      BY DEF IxInv, IxShapes, Indexer
    <3> QED BY <1>1, <3>1
  <2>3. events' \subseteq events /\ UNCHANGED <<born, cardRow, ixChanges>>
    OBVIOUS
  <2> QED BY <2>1, <2>2, <2>3, IndexerKeepsShapes, Zenon
<1>3. ASSUME NEW c \in IxCard, c # work[i].card, FollowsCard(c), docs'[c] = docs[c] PROVE FollowsCard(c)'
  <2>1. work[i].card # c \/ work[i].step = "free"
    BY <1>3
  <2>2. w.card # c \/ w.step \in {"free", "marked"}
    BY <1>3
  <2>3. ToScan(c) /\ cardRow[c] # NoDoc => ToScan(c)'
    <3>1. i # 0 => work'[0] = work[0]
      BY <1>1 DEF Indexer
    <3>2. ~(work[0].step # "free" /\ work[0].card = c) \/ i # 0
      BY <1>3
    <3> QED BY <3>1, <3>2 DEF ToScan
  <2>4. events' = events /\ cardRow' = cardRow
    OBVIOUS
  <2> QED BY <1>3, <2>1, <2>2, <2>3, <2>4, IndexerOnAnother, Zenon
<1> QED BY <1>1, <1>2, <1>3

\* What is told of a card is told still, unless it was this indexer's own mark.
LEMMA StillTold ==
    ASSUME NEW i \in Indexer, NEW c \in IxCard, \A j \in Indexer \ {i} : work'[j] = work[j],
           events' = events, cardRow' = cardRow, ~MarkedBy(i, c) \/ i \notin IxPod
    PROVE  /\ Pending(c) => Pending(c)'
           /\ DelPending(c) => DelPending(c)'
           /\ Told(c) => Told(c)'
<1>1. IxPod \subseteq Indexer
  BY DEF Indexer
<1>2. Pending(c) => Pending(c)'
  BY <1>1 DEF Pending, MarkedBy
<1>3. DelPending(c) => DelPending(c)'
  BY <1>1 DEF DelPending, MarkedBy
<1> QED BY <1>2, <1>3 DEF Told

\* The row is read: from here on the reader has it, or is told of a change.
LEMMA ReadRowKeepsIx == ASSUME IxInv, NEW i \in Indexer, ReadCardRow(i) PROVE IxInv'
<1>1. PICK c : c = work[i].card
  OBVIOUS
<1>2. /\ work[i].step = "marked" /\ work[i].kind # "CardDeleted"
      /\ work' = IF cardRow[c] = NoDoc
                 THEN [work EXCEPT ![i] = Free]
                 ELSE [work EXCEPT ![i].step = "row read", ![i].doc.fields = cardRow[c].fields]
      /\ overtaken' = Overtaken(i, c)
      /\ UNCHANGED <<born, cardRow, ixChanges, events, docs, batch, scanned, backfill, missed, unannounced>>
  BY <1>1 DEF ReadCardRow
<1>3. work[i] \in IxWork /\ c \in IxCard /\ cardRow[c] \in IxDoc /\ cardRow \in [IxCard -> IxDoc]
      /\ (cardRow[c].fields = 0 <=> cardRow[c] = NoDoc) /\ docs \in [IxCard -> IxDoc]
  BY <1>1, <1>2 DEF IxInv, IxShapes
<1>4. PICK r : r = [work[i] EXCEPT !.step = "row read", !.doc.fields = cardRow[c].fields]
  OBVIOUS
<1>5. r \in IxWork /\ r.step = "row read" /\ r.card = c /\ r.kind = work[i].kind /\ r.doc.fields = cardRow[c].fields
  BY <1>1, <1>3, <1>4 DEF IxWork, IxDoc
<1>6. PICK w \in IxWork :
        /\ work' = [work EXCEPT ![i] = w]
        /\ w = IF cardRow[c] = NoDoc THEN Free ELSE r
  <2>1. CASE cardRow[c] = NoDoc
    BY <1>2, <2>1, FreeFits
  <2>2. CASE cardRow[c] # NoDoc
    <3>1. work' = [work EXCEPT ![i] = r]
      BY <1>2, <1>4, <2>2
    <3> QED BY <1>5, <2>2, <3>1
  <2> QED BY <2>1, <2>2
<1>7. WorkFits(i, w)
  BY <1>2, <1>3, <1>5, <1>6, FreeFits DEF WorkFits, IxInv, IxShapes
<1>8. w.step = "free" \/ w.card = work[i].card
  BY <1>1, <1>5, <1>6, FreeFits
<1>9. work[i].step # "free" /\ docs' \in [IxCard -> IxDoc]
      /\ UNCHANGED <<born, cardRow, ixChanges, events, batch, scanned, backfill>>
  BY <1>2, <1>3
<1>10. /\ IxShapes' /\ DeletedForGood'
       /\ work'[i] = w /\ \A j \in Indexer \ {i} : work'[j] = work[j]
       /\ \A d \in IxCard \ {work[i].card} : FollowsCard(d) /\ docs'[d] = docs[d] => FollowsCard(d)'
  BY <1>6, <1>7, <1>8, <1>9, StepOnOneCard, Zenon
<1>11. Excused \subseteq Excused'
  BY <1>2 DEF Excused, Overtaken
<1>12. ASSUME c \notin Excused' PROVE FollowsCard(c)'
  <2>1. FollowsCard(c) /\ cardRow'[c] = cardRow[c] /\ docs'[c] = docs[c]
    BY <1>2, <1>3, <1>11, <1>12 DEF IxInv
  <2>2. OtherDocs(i, c) = {}
    BY <1>2, <1>12 DEF Excused, Overtaken
  <2>3. \A j \in Indexer \ {i} : ~ReadsDoc(j, c)
    BY <2>2 DEF OtherDocs, ReadsDoc
  <2>4. ~ReadsDoc(i, c)
    BY <1>2 DEF ReadsDoc
  <2>5. IxPod \subseteq Indexer /\ (i \notin IxPod => i = 0)
    BY DEF Indexer
  <2>6. \A j \in Indexer \ {i} : ~ReadsDoc(j, c)'
    BY <1>10, <2>3 DEF ReadsDoc
  <2>7. CASE cardRow[c] = NoDoc
    <3>1. ~ReadsDoc(i, c)'
      BY <1>6, <1>10, <2>7, FreeFits DEF ReadsDoc
    <3>2. DelPending(c) => DelPending(c)'
      BY <1>1, <1>2, <1>10, <2>5 DEF DelPending, MarkedBy
    <3>3. Told(c) => Told(c)'
      BY <1>2, <2>7, <3>2 DEF Told
    <3>4. IsMended(c)'
      BY <2>1, <2>7, <3>3 DEF IsMended, FollowsCard
    <3>5. ReadTrue(c)' /\ OneReads(c)'
      BY <2>6, <3>1 DEF ReadTrue, OneReads
    <3>6. IsFound(c)'
      BY <2>1, <2>7 DEF IsFound
    <3> QED BY <3>4, <3>5, <3>6 DEF FollowsCard
  <2>8. CASE cardRow[c] # NoDoc
    <3>1. work'[i] = r /\ ReadsDoc(i, c)'
      BY <1>5, <1>6, <1>10, <2>8 DEF ReadsDoc
    <3>2. OneReads(c)'
      BY <2>6 DEF OneReads
    <3>3. ReadTrue(c)'
      BY <1>5, <2>1, <2>6, <3>1 DEF ReadTrue
    <3>4. CASE i \in IxPod
      BY <2>1, <2>8, <3>1, <3>2, <3>3, <3>4 DEF FollowsCard, IsMended, IsFound
    <3>5. CASE i = 0 /\ i \notin IxPod
      <4>1. \A p \in IxPod : ~ReadsDoc(p, c)
        BY <2>3, <2>5, <3>5
      <4>2. (Pending(c) => Pending(c)') /\ (Told(c) => Told(c)')
        BY <1>2, <1>3, <1>10, <3>5, StillTold
      <4>3. IsMended(c)'
        BY <2>1, <4>1, <4>2 DEF IsMended, FollowsCard
      <4>4. ToScan(c) => ToScan(c)'
        BY <1>2, <1>5, <3>1, <3>5 DEF ToScan
      <4>5. IsFound(c)'
        BY <2>1, <4>1, <4>2, <4>4 DEF IsFound, FollowsCard
      <4> QED BY <3>2, <3>3, <4>3, <4>5 DEF FollowsCard
    <3> QED BY <2>5, <3>4, <3>5
  <2> QED BY <2>7, <2>8
<1>13. ASSUME NEW d \in IxCard, d \notin Excused' PROVE FollowsCard(d)'
  <2>1. FollowsCard(d) /\ docs'[d] = docs[d]
    BY <1>2, <1>11, <1>13 DEF IxInv
  <2> QED BY <1>1, <1>10, <1>12, <1>13, <2>1
<1> QED BY <1>10, <1>13 DEF IxInv

\* The names are read: the document is the card's, or there is word of a change.
LEMMA ReadNamesKeepsIx == ASSUME IxInv, NEW i \in Indexer, ReadNames(i) PROVE IxInv'
<1>1. PICK c : c = work[i].card
  OBVIOUS
<1>2. /\ work[i].step = "row read"
      /\ work' = [work EXCEPT ![i].step = "names read", ![i].doc.names = cardRow[c].names]
      /\ UNCHANGED <<born, cardRow, ixChanges, events, docs, batch, scanned, backfill, missed, overtaken, unannounced>>
  BY <1>1 DEF ReadNames, ixGhosts
<1>3. work[i] \in IxWork /\ c \in IxCard /\ cardRow[c] \in IxDoc /\ docs \in [IxCard -> IxDoc]
  BY <1>1, <1>2 DEF IxInv, IxShapes
<1>4. PICK w : w = [work[i] EXCEPT !.step = "names read", !.doc.names = cardRow[c].names]
  OBVIOUS
<1>5. w \in IxWork /\ w.step = "names read" /\ w.card = c /\ w.kind = work[i].kind
      /\ w.doc = [fields |-> work[i].doc.fields, names |-> cardRow[c].names]
  BY <1>1, <1>3, <1>4 DEF IxWork, IxDoc
<1>6. work' = [work EXCEPT ![i] = w]
  BY <1>2, <1>4
<1>7. ReadsDoc(i, c) /\ work[i].doc.fields # 0
  BY <1>1, <1>2, <1>3 DEF ReadsDoc, IxInv, IxShapes
<1>8. WorkFits(i, w)
  <2>1. i = 0 => work[i].kind # "CardDeleted"
    BY <1>2 DEF IxInv, IxShapes
  <2>2. w.doc.fields # 0
    <3>1. PICK f : f = work[i].doc.fields
      OBVIOUS
    <3>2. w.doc = [fields |-> f, names |-> cardRow[c].names] /\ f # 0
      BY <1>5, <1>7, <3>1
    <3> QED BY <3>2
  <2> QED BY <1>3, <1>5, <2>1, <2>2 DEF WorkFits
<1>9. work[i].step # "free" /\ docs' \in [IxCard -> IxDoc] /\ (w.step = "free" \/ w.card = work[i].card)
      /\ UNCHANGED <<born, cardRow, ixChanges, events, batch, scanned, backfill>>
  BY <1>1, <1>2, <1>3, <1>5
<1>10. /\ IxShapes' /\ DeletedForGood'
       /\ work'[i] = w /\ \A j \in Indexer \ {i} : work'[j] = work[j]
       /\ \A d \in IxCard \ {work[i].card} : FollowsCard(d) /\ docs'[d] = docs[d] => FollowsCard(d)'
  BY <1>5, <1>6, <1>8, <1>9, StepOnOneCard, Zenon
<1>11. Excused' = Excused
  BY <1>2 DEF Excused
<1>12. ASSUME c \notin Excused PROVE FollowsCard(c)'
  <2>1. FollowsCard(c) /\ cardRow'[c] = cardRow[c] /\ docs'[c] = docs[c]
    BY <1>2, <1>3, <1>12 DEF IxInv
  <2>2. ~MarkedBy(i, c)
    BY <1>2 DEF MarkedBy
  <2>3. (Pending(c) => Pending(c)') /\ (Told(c) => Told(c)')
    BY <1>2, <1>3, <1>10, <2>2, StillTold
  <2>4. \A j \in Indexer : ReadsDoc(j, c)' <=> ReadsDoc(j, c)
    BY <1>5, <1>7, <1>10 DEF ReadsDoc
  <2>5. IxPod \subseteq Indexer
    BY DEF Indexer
  <2>6. IsMended(c)'
    BY <2>1, <2>3, <2>4, <2>5 DEF IsMended, FollowsCard
  <2>7. OneReads(c)'
    BY <2>1, <2>4 DEF OneReads, FollowsCard
  <2>8. ReadTrue(c)'
    <3> SUFFICES ASSUME NEW j \in Indexer, ReadsDoc(j, c), ~Told(c)
                 PROVE  /\ work'[j].doc.fields = cardRow[c].fields
                        /\ work'[j].step = "names read" => work'[j].doc = cardRow[c]
      BY <2>1, <2>3, <2>4 DEF ReadTrue
    <3>1. j = i
      BY <1>7, <2>1 DEF FollowsCard, OneReads
    <3>2. work[i].doc.fields = cardRow[c].fields
      BY <3>1, <2>1 DEF FollowsCard, ReadTrue
    <3>3. w.doc = cardRow[c]
      BY <1>3, <1>5, <3>2 DEF IxDoc
    <3> QED BY <1>10, <3>1, <3>3
  <2>9. IsFound(c)'
    <3>1. ToScan(c) => ToScan(c)'
      BY <1>1, <1>2, <1>5, <1>10 DEF ToScan, Indexer
    <3> QED BY <2>1, <2>3, <2>4, <2>5, <3>1 DEF IsFound, FollowsCard
  <2> QED BY <2>6, <2>7, <2>8, <2>9 DEF FollowsCard
<1>13. ASSUME NEW d \in IxCard, d \notin Excused PROVE FollowsCard(d)'
  <2>1. FollowsCard(d) /\ docs'[d] = docs[d]
    BY <1>2, <1>13 DEF IxInv
  <2> QED BY <1>1, <1>10, <1>12, <1>13, <2>1
<1> QED BY <1>10, <1>11, <1>13 DEF IxInv

\* The document is written, or deleted.
LEMMA WriteKeepsIx == ASSUME IxInv, NEW i \in Indexer, IndexCard(i) \/ DeleteDoc(i) PROVE IxInv'
<1>1. PICK c : c = work[i].card
  OBVIOUS
<1>2. /\ work[i].step \in {"marked", "names read"} /\ work' = [work EXCEPT ![i] = Free]
      /\ UNCHANGED <<born, cardRow, ixChanges, events, batch, scanned, backfill, missed, unannounced>>
  BY DEF IndexCard, DeleteDoc, ixGhosts
<1>3. work[i] \in IxWork /\ c \in IxCard /\ cardRow[c] \in IxDoc /\ docs \in [IxCard -> IxDoc]
  BY <1>1, <1>2 DEF IxInv, IxShapes
<1>4. PICK doc \in IxDoc :
        /\ docs' = [docs EXCEPT ![c] = doc]
        /\ \/ IndexCard(i) /\ doc = work[i].doc
           \/ DeleteDoc(i) /\ doc = NoDoc
  <2>1. NoDoc \in IxDoc /\ work[i].doc \in IxDoc
    BY <1>3 DEF NoDoc, IxDoc, IxWork
  <2> QED BY <1>1, <2>1 DEF IndexCard, DeleteDoc, DeletedDoc
<1>5. docs' \in [IxCard -> IxDoc] /\ docs'[c] = doc /\ \A d \in IxCard \ {c} : docs'[d] = docs[d]
  BY <1>3, <1>4
<1>6. Free \in IxWork /\ WorkFits(i, Free) /\ Free.step = "free"
  BY FreeFits
<1>7. work[i].step # "free" /\ (Free.step = "free" \/ Free.card = work[i].card)
      /\ UNCHANGED <<born, cardRow, ixChanges, events, batch, scanned, backfill>>
  BY <1>2, <1>6
<1>8. /\ IxShapes' /\ DeletedForGood'
      /\ work'[i] = Free /\ \A j \in Indexer \ {i} : work'[j] = work[j]
      /\ \A d \in IxCard \ {work[i].card} : FollowsCard(d) /\ docs'[d] = docs[d] => FollowsCard(d)'
  BY <1>2, <1>5, <1>6, <1>7, StepOnOneCard, Zenon
<1>9. Excused \subseteq Excused'
  <2>1. overtaken \subseteq overtaken'
    BY DEF IndexCard, DeleteDoc, ixGhosts, Overtaken
  <2> QED BY <1>2, <2>1 DEF Excused
<1>10. ASSUME c \notin Excused' PROVE FollowsCard(c)'
  <2>1. FollowsCard(c) /\ cardRow'[c] = cardRow[c]
    BY <1>2, <1>3, <1>9, <1>10 DEF IxInv
  <2>2. \A j \in Indexer \ {i} : ~ReadsDoc(j, c)
    <3>1. CASE IndexCard(i)
      <4>1. ReadsDoc(i, c)
        BY <1>1, <3>1 DEF IndexCard, ReadsDoc
      <4> QED BY <2>1, <4>1 DEF FollowsCard, OneReads
    <3>2. CASE DeleteDoc(i)
      <4>1. OtherDocs(i, c) = {}
        BY <1>1, <1>10, <3>2 DEF DeleteDoc, Excused, Overtaken
      <4> QED BY <4>1 DEF OtherDocs, ReadsDoc
    <3> QED BY <1>4, <3>1, <3>2
  <2>3. \A j \in Indexer : ~ReadsDoc(j, c)'
    BY <1>6, <1>8, <2>2 DEF ReadsDoc
  <2>4. ReadTrue(c)' /\ OneReads(c)'
    BY <2>3 DEF ReadTrue, OneReads
  <2>5. CASE IndexCard(i) /\ doc = work[i].doc
    <3>1. work[i].step = "names read" /\ ReadsDoc(i, c) /\ ~MarkedBy(i, c)
      BY <1>1, <2>5 DEF IndexCard, ReadsDoc, MarkedBy
    <3>2. doc # NoDoc
      <4>1. work[i].doc.fields # 0
        BY <1>3, <3>1 DEF IxInv, IxShapes
      <4> QED BY <2>5, <4>1 DEF NoDoc
    <3>3. Told(c) => Told(c)'
      BY <1>2, <1>3, <1>8, <3>1, StillTold
    <3>4. doc # cardRow[c] => Told(c)
      BY <2>1, <2>5, <3>1 DEF FollowsCard, ReadTrue
    <3> QED BY <1>5, <2>1, <2>4, <3>2, <3>3, <3>4 DEF FollowsCard, IsMended, IsFound
  <2>6. CASE DeleteDoc(i) /\ doc = NoDoc
    <3>1. cardRow[c] = NoDoc
      BY <1>1, <2>6 DEF DeleteDoc, IxInv, DeletedForGood, Stands
    <3> QED BY <1>5, <2>1, <2>4, <2>6, <3>1 DEF FollowsCard, IsMended, IsFound
  <2> QED BY <1>4, <2>5, <2>6
<1>11. ASSUME NEW d \in IxCard, d \notin Excused' PROVE FollowsCard(d)'
  <2>1. FollowsCard(d)
    BY <1>9, <1>11 DEF IxInv
  <2> QED BY <1>1, <1>5, <1>8, <1>10, <1>11, <2>1
<1> QED BY <1>8, <1>11 DEF IxInv

\* Every step keeps the invariant.
LEMMA NextIxInv == IxInv /\ [IxNext]_ixVars => IxInv'
<1> SUFFICES ASSUME IxInv, [IxNext]_ixVars PROVE IxInv'
  OBVIOUS
<1>1. CASE UNCHANGED ixVars
  <2>1. UNCHANGED <<born, cardRow, ixChanges, events, docs, batch, work, scanned, backfill>>
        /\ UNCHANGED <<missed, overtaken, unannounced>>
    BY <1>1 DEF ixVars
  <2>2. IxShapes'
    BY <2>1 DEF IxInv, IxShapes, ReadsDoc
  <2>3. DeletedForGood'
    BY <2>1 DEF IxInv, DeletedForGood, Stands
  <2>4. Excused' = Excused
    BY <2>1 DEF Excused
  <2>5. ASSUME NEW c \in IxCard, FollowsCard(c) PROVE FollowsCard(c)'
    <3>1. cardRow'[c] = cardRow[c] /\ docs'[c] = docs[c]
      BY <2>1
    <3>2. Pending(c) => Pending(c)'
      BY <2>1 DEF Pending, MarkedBy
    <3>3. DelPending(c) => DelPending(c)'
      BY <2>1 DEF DelPending, MarkedBy
    <3>4. \A i \in Indexer : ReadsDoc(i, c)' =>
            ReadsDoc(i, c) /\ work'[i].doc = work[i].doc /\ work'[i].step = work[i].step
      BY <2>1 DEF ReadsDoc
    <3>5. \A p \in IxPod : ReadsDoc(p, c) => ReadsDoc(p, c)'
      BY <2>1 DEF ReadsDoc
    <3>6. ToScan(c) /\ cardRow[c] # NoDoc => ToScan(c)'
      BY <2>1 DEF ToScan
    <3> QED BY <2>5, <3>1, <3>2, <3>3, <3>4, <3>5, <3>6, NothingOfTheCard, Zenon
  <2> QED BY <2>2, <2>3, <2>4, <2>5 DEF IxInv
<1>2. ASSUME NEW c \in IxCard, CardChanged(c) PROVE IxInv'
  <2>1. PICK v : v = ixChanges + 2
    OBVIOUS
  <2>2. v \in Nat /\ v # 0 /\ cardRow[c] \in IxDoc /\ (cardRow[c].fields = 0 <=> cardRow[c] = NoDoc)
        /\ (cardRow[c] # NoDoc => c \in born)
    BY <2>1 DEF IxInv, IxShapes, DeletedForGood
  <2>3. CASE c \notin born /\ born' = born \cup {c} /\ Change(c, "CardCreated", [fields |-> v, names |-> 1])
    <3>1. PICK row : row = [fields |-> v, names |-> 1]
      OBVIOUS
    <3>2. row \in IxDoc /\ row.fields # 0 /\ row # NoDoc /\ "CardCreated" \in EventKind
      BY <2>2, <3>1 DEF IxDoc, NoDoc, EventKind
    <3> QED BY <2>3, <3>1, <3>2, ChangeKeepsIx
  <2>4. CASE cardRow[c] # NoDoc /\ born' = born
    <3>1. born' = born \cup {c}
      BY <2>2, <2>4
    <3>2. ASSUME NEW kind \in {"CardUpdated", "CardMoved", "CardTransferred"},
                 Change(c, kind, [cardRow[c] EXCEPT !.fields = v])
          PROVE  IxInv'
      <4>1. PICK row : row = [cardRow[c] EXCEPT !.fields = v]
        OBVIOUS
      <4>2. row \in IxDoc /\ row.fields # 0 /\ row # NoDoc /\ kind \in EventKind /\ kind # "CardDeleted"
        BY <2>2, <4>1 DEF IxDoc, NoDoc, EventKind
      <4> QED BY <2>4, <3>1, <3>2, <4>1, <4>2, ChangeKeepsIx
    <3>3. CASE Change(c, "CardUpdated", [cardRow[c] EXCEPT !.names = v])
      <4>1. PICK row : row = [cardRow[c] EXCEPT !.names = v]
        OBVIOUS
      <4>2. row \in IxDoc /\ row.fields # 0 /\ row # NoDoc /\ "CardUpdated" \in EventKind
        BY <2>2, <2>4, <4>1 DEF IxDoc, NoDoc, EventKind
      <4> QED BY <2>4, <3>1, <3>3, <4>1, <4>2, ChangeKeepsIx
    <3>4. CASE Change(c, "CardDeleted", NoDoc)
      <4>1. NoDoc \in IxDoc /\ NoDoc.fields = 0 /\ "CardDeleted" \in EventKind
        BY DEF IxDoc, NoDoc, EventKind
      <4> QED BY <2>4, <3>1, <3>4, <4>1, ChangeKeepsIx
    <3> QED BY <1>2, <2>1, <2>3, <2>4, <3>2, <3>3, <3>4 DEF CardChanged
  <2> QED BY <1>2, <2>1, <2>3, <2>4 DEF CardChanged
<1>3. ASSUME NEW c \in IxCard, Silently(c) PROVE IxInv'
  BY <1>3, SilentKeepsIx
<1>4. ASSUME NEW p \in IxPod, SelectEvents(p) \/ MarkEvent(p) \/ PodDies(p) PROVE IxInv'
  <2>1. p \in Indexer
    BY DEF Indexer
  <2> QED BY <1>4, <2>1, SelectKeepsIx, MarkKeepsIx, FailKeepsIx
<1>5. ASSUME NEW i \in Indexer, ReadCardRow(i) \/ ReadNames(i) \/ IndexCard(i) \/ DeleteDoc(i) \/ IndexFails(i)
      PROVE  IxInv'
  BY <1>5, ReadRowKeepsIx, ReadNamesKeepsIx, WriteKeepsIx, FailKeepsIx
<1>6. CASE BackfillStarts \/ BackfillRecorded
  BY <1>6, SelectKeepsIx
<1>7. CASE ScanDoc
  BY <1>7, ScanKeepsIx
<1> QED BY <1>1, <1>2, <1>3, <1>4, <1>5, <1>6, <1>7 DEF IxNext

\* search_indexing.rs with the drain pass and the backfill, in every behaviour: when nothing is
\* under way for a card, its document is what the card is, and once the backfill is recorded
\* there is one for every card; but for cards of which a write failed, on which two
\* indexers met, or which changed without an event.
THEOREM IndexFollowed == IxSpec => []IndexFollows
<1>1. IxInv => IndexFollows
  <2> SUFFICES ASSUME IxInv PROVE IndexFollows
    OBVIOUS
  <2>1. ASSUME NEW c \in IxCard, c \notin Excused, IxSettled(c)
        PROVE  /\ docs[c] # NoDoc => docs[c] = cardRow[c]
               /\ backfill = "recorded" /\ cardRow[c] # NoDoc => docs[c] # NoDoc
    <3>1. IsMended(c) /\ IsFound(c)
      BY <2>1 DEF IxInv, FollowsCard
    <3>2. ~Pending(c) /\ ~DelPending(c) /\ \A p \in IxPod : ~ReadsDoc(p, c)
      BY <2>1 DEF IxSettled, Pending, DelPending, MarkedBy, ReadsDoc, Indexer
    <3>3. ~Told(c)
      BY <3>2 DEF Told
    <3> QED BY <3>1, <3>2, <3>3 DEF IsMended, IsFound, ToScan
  <2> QED BY <2>1 DEF IndexFollows, DocsFollowRows, FoundAfterBackfill
<1> QED BY <1>1, InitIxInv, NextIxInv, PTL DEF IxSpec

-----------------------------------------------------------------------------
(***************************************************************************)
(* Cutover: the tracker of a stream, in whatever order and however often   *)
(* its caller shows it the events.                                         *)
(***************************************************************************)
\* The phase and the last sequence of the tracker bound what was emitted.
Progress ==
    /\ tracker.phase = "replay" <=> boundary = -1
    /\ boundary <= tracker.last
    /\ emitted # <<>> => boundary # -1
    /\ \A i \in DOMAIN emitted : boundary < emitted[i] /\ emitted[i] <= tracker.last
    /\ \A i, j \in DOMAIN emitted : i < j => emitted[i] < emitted[j]

\* The ring is the tail of the history of insertions.
RingIsTail ==
    /\ Len(tracker.ring) <= SeenCapacity
    /\ Len(tracker.ring) <= Len(inserted)
    /\ Len(tracker.ring) < SeenCapacity => Len(tracker.ring) = Len(inserted)
    /\ \A i \in DOMAIN tracker.ring :
         tracker.ring[i] = inserted[Len(inserted) - Len(tracker.ring) + i]

\* Somebody was sent what the ring holds.
Known(id) == id \in replayed \/ \E k \in DOMAIN emitted : id = carries[emitted[k]]

RingKnown == \A i \in DOMAIN tracker.ring : Known(tracker.ring[i])

TrackerInv ==
    /\ CutoverTypeOK
    /\ Progress
    /\ RingIsTail
    /\ RingIsRecentWindow
    /\ RingKnown

Tracker == [phase : {"replay", "live"}, ring : Seq(EventId), last : 0..MaxSeq]

-----------------------------------------------------------------------------
\* What Remember does to the ring of a tracker: the oldest id leaves a full ring
\* (it makes room for one), the new id comes last, the rest keeps its order.
Pushed(old, new, id) ==
    /\ new \in Seq(EventId)
    /\ IF Len(old) = SeenCapacity
       THEN /\ Len(new) = Len(old)
            /\ \A i \in 1..(Len(old) - 1) : new[i] = old[i + 1]
       ELSE /\ Len(new) = Len(old) + 1
            /\ \A i \in 1..Len(old) : new[i] = old[i]
    /\ new[Len(new)] = id
    /\ new # old

\* Inserting an id that the ring does not hold pushes it, and changes nothing
\* else of the tracker.
LEMMA RememberPushes ==
    ASSUME NEW t \in Tracker, NEW id \in EventId, ~Seen(t, id),
           Len(t.ring) <= SeenCapacity
    PROVE  /\ Pushed(t.ring, Remember(t, id).ring, id)
           /\ Remember(t, id) \in Tracker
           /\ Remember(t, id).phase = t.phase
           /\ Remember(t, id).last = t.last
<1> USE SeenCapacityAssumption
<1>1. t.ring \in Seq(EventId) /\ Len(t.ring) \in Nat
  BY DEF Tracker
<1>2. \A i \in 1..Len(t.ring) : t.ring[i] # id
  BY <1>1 DEF Seen
<1>3. PICK new : new = Remember(t, id).ring /\ Remember(t, id) = [t EXCEPT !.ring = new]
  BY DEF Remember, Tracker
<1>4. Pushed(t.ring, new, id)
  <2>1. CASE Len(t.ring) < SeenCapacity
    <3>1. new = Append(t.ring, id)
      BY <1>1, <1>3, <2>1 DEF Remember, Tracker
    <3> QED BY <1>1, <2>1, <3>1 DEF Pushed
  <2>2. CASE Len(t.ring) = SeenCapacity
    <3>1. new = Append(Tail(t.ring), id)
      BY <1>1, <1>3, <2>2 DEF Remember, Tracker
    <3>2. /\ Tail(t.ring) \in Seq(EventId) /\ Len(Tail(t.ring)) = Len(t.ring) - 1
          /\ \A i \in 1..(Len(t.ring) - 1) : Tail(t.ring)[i] = t.ring[i + 1]
      BY <1>1, <2>2
    <3>3. /\ new \in Seq(EventId) /\ Len(new) = Len(t.ring) /\ new[Len(new)] = id
          /\ \A i \in 1..(Len(t.ring) - 1) : new[i] = t.ring[i + 1]
      BY <1>1, <3>1, <3>2
    <3>4. new # t.ring
      BY <1>1, <1>2, <2>2, <3>3
    <3> QED BY <2>2, <3>3, <3>4 DEF Pushed
  <2> QED BY <1>1, <2>1, <2>2
<1>5. new \in Seq(EventId)
  BY <1>4 DEF Pushed
<1> QED BY <1>3, <1>4, <1>5 DEF Tracker

\* What is in the ring afterwards was there before or is the new id.
LEMMA PushedIsOldOrNew ==
    ASSUME NEW old \in Seq(EventId), NEW new, NEW id \in EventId, Pushed(old, new, id),
           NEW i \in DOMAIN new
    PROVE  new[i] = id \/ \E k \in DOMAIN old : new[i] = old[k]
<1>1. Len(old) \in Nat /\ DOMAIN old = 1..Len(old) /\ i \in 1..Len(new) /\ Len(new) \in Nat
  BY DEF Pushed
<1>2. CASE i = Len(new)
  BY <1>2 DEF Pushed
<1>3. CASE i # Len(new) /\ Len(old) = SeenCapacity
  <2>1. i \in 1..(Len(old) - 1) /\ i + 1 \in DOMAIN old
    BY <1>1, <1>3 DEF Pushed
  <2> QED BY <1>3, <2>1 DEF Pushed
<1>4. CASE i # Len(new) /\ Len(old) # SeenCapacity
  <2>1. i \in 1..Len(old)
    BY <1>1, <1>4 DEF Pushed
  <2> QED BY <1>1, <1>4, <2>1 DEF Pushed
<1> QED BY <1>2, <1>3, <1>4

\* Pushing an id keeps the ring the tail of the insertions, and an id comes back
\* only after the capacity of the ring.
LEMMA PushKeepsRing ==
    ASSUME tracker \in Tracker, inserted \in Seq(EventId), RingIsTail, RingIsRecentWindow,
           NEW id \in EventId, ~Seen(tracker, id),
           Pushed(tracker.ring, tracker'.ring, id),
           inserted' = Append(inserted, id)
    PROVE  RingIsTail' /\ RingIsRecentWindow'
<1>1. PICK n \in Nat, l \in Nat, c \in Nat \ {0} :
        /\ n = Len(inserted) /\ DOMAIN inserted = 1..n
        /\ l = Len(tracker.ring) /\ DOMAIN tracker.ring = 1..l
        /\ c = SeenCapacity
  BY SeenCapacityAssumption DEF Tracker
<1>2. /\ Len(inserted') = n + 1 /\ DOMAIN inserted' = 1..(n + 1)
      /\ \A i \in 1..n : inserted'[i] = inserted[i]
      /\ inserted'[n + 1] = id
  BY <1>1
<1>3. /\ l <= c /\ l <= n /\ (l < c => l = n)
      /\ \A i \in 1..l : tracker.ring[i] = inserted[n - l + i]
  BY <1>1 DEF RingIsTail
<1>4. tracker'.ring \in Seq(EventId) /\ DOMAIN tracker'.ring = 1..Len(tracker'.ring)
  BY DEF Pushed
<1>5. RingIsTail'
  <2>1. CASE l = c
    <3>1. /\ Len(tracker'.ring) = c
          /\ \A i \in 1..(c - 1) : tracker'.ring[i] = tracker.ring[i + 1]
          /\ tracker'.ring[c] = id
      BY <1>1, <2>1 DEF Pushed
    <3>2. ASSUME NEW i \in 1..c PROVE tracker'.ring[i] = inserted'[n + 1 - c + i]
      <4>1. CASE i = c
        BY <1>2, <3>1, <4>1
      <4>2. CASE i # c
        <5>1. /\ i + 1 \in 1..l /\ i \in 1..(c - 1)
              /\ n - l + (i + 1) \in 1..n
              /\ n - l + (i + 1) = n + 1 - c + i
          BY <1>3, <2>1, <4>2
        <5>2. tracker.ring[i + 1] = inserted[n + 1 - c + i]
          BY <1>3, <5>1
        <5> QED BY <1>2, <3>1, <5>1, <5>2
      <4> QED BY <4>1, <4>2
    <3>3. /\ Len(tracker'.ring) <= SeenCapacity
          /\ Len(tracker'.ring) <= Len(inserted')
          /\ ~ (Len(tracker'.ring) < SeenCapacity)
      BY <1>1, <1>2, <1>3, <2>1, <3>1
    <3>4. \A i \in DOMAIN tracker'.ring :
            tracker'.ring[i] = inserted'[Len(inserted') - Len(tracker'.ring) + i]
      <4>1. DOMAIN tracker'.ring = 1..c /\ Len(inserted') - Len(tracker'.ring) = n + 1 - c
        BY <1>2, <1>4, <3>1
      <4> QED BY <3>2, <4>1
    <3> QED BY <3>3, <3>4 DEF RingIsTail
  <2>2. CASE l < c
    <3>1. /\ l = n /\ Len(tracker'.ring) = n + 1
          /\ \A i \in 1..n : tracker'.ring[i] = tracker.ring[i]
          /\ tracker'.ring[n + 1] = id
      BY <1>1, <1>3, <2>2 DEF Pushed
    <3>2. ASSUME NEW i \in 1..(n + 1) PROVE tracker'.ring[i] = inserted'[i]
      <4>1. CASE i = n + 1
        BY <1>2, <3>1, <4>1
      <4>2. CASE i # n + 1
        <5>1. i \in 1..n /\ n - l + i = i
          BY <3>1, <4>2
        <5>2. tracker'.ring[i] = tracker.ring[i]
          BY <3>1, <5>1
        <5>3. tracker.ring[i] = inserted[i]
          BY <1>3, <3>1, <5>1
        <5>4. inserted'[i] = inserted[i]
          BY <1>2, <5>1
        <5> QED BY <5>2, <5>3, <5>4
      <4> QED BY <4>1, <4>2
    <3>3. \A i \in 1..(n + 1) : (n + 1) - (n + 1) + i = i
      OBVIOUS
    <3> QED BY <1>1, <1>2, <1>4, <2>2, <3>1, <3>2, <3>3 DEF RingIsTail
  <2> QED BY <1>3, <2>1, <2>2
<1>6. ASSUME NEW i \in 1..n, inserted[i] = id PROVE n + 1 - i > c
  <2>1. i <= n - l
    <3> SUFFICES ASSUME i > n - l PROVE FALSE
      OBVIOUS
    <3>1. PICK k \in 1..l : n - l + k = i
      <4>1. i - (n - l) \in 1..l /\ n - l + (i - (n - l)) = i
        BY <1>3
      <4> QED BY <4>1
    <3>2. tracker.ring[k] = id
      BY <1>3, <1>6, <3>1
    <3> QED BY <1>1, <3>2 DEF Seen
  <2> QED BY <1>3, <2>1
<1>7. Len(tracker'.ring) <= SeenCapacity
  BY <1>5 DEF RingIsTail
<1>8. ASSUME NEW i \in 1..(n + 1), NEW j \in 1..(n + 1), i < j, inserted'[i] = inserted'[j]
      PROVE  j - i > SeenCapacity
  <2>1. CASE j = n + 1
    BY <1>1, <1>2, <1>6, <1>8, <2>1
  <2>2. CASE j # n + 1
    <3>1. i \in 1..n /\ j \in 1..n
      BY <1>8, <2>2
    <3> QED BY <1>1, <1>2, <1>8, <3>1 DEF RingIsRecentWindow
  <2> QED BY <2>1, <2>2
<1> QED BY <1>2, <1>5, <1>7, <1>8 DEF RingIsRecentWindow

-----------------------------------------------------------------------------
(* Each observation keeps the invariant.                                   *)

\* A new tracker has emitted nothing.
LEMMA InitTrackerInv == CutoverInit => TrackerInv
BY SeenCapacityAssumption, CutoverAssumption
   DEF CutoverInit, TrackerInv, CutoverTypeOK, Progress, RingIsTail, RingIsRecentWindow,
       RingKnown, NewTracker

\* An observation that is skipped without a trace keeps the invariant.
LEMMA StutterTrackerInv == ASSUME TrackerInv, UNCHANGED cutoverVars PROVE TrackerInv'
BY DEF cutoverVars, TrackerInv, CutoverTypeOK, Progress, RingIsTail, RingIsRecentWindow,
       RingKnown, Known

\* What an observation of a replayed event does.
LEMMA ReplayInv == ASSUME TrackerInv, NEW id \in EventId, Replay(id) PROVE TrackerInv'
<1>1. tracker \in Tracker /\ inserted \in Seq(EventId) /\ Len(tracker.ring) <= SeenCapacity
  BY DEF TrackerInv, CutoverTypeOK, Tracker, RingIsTail
<1>2. CASE Seen(tracker, id)
  <2>1. tracker' = tracker /\ replayed' = replayed /\ inserted' = inserted \o <<>>
    BY <1>2 DEF Replay, ObserveReplay, Skip, Inserted
  <2>2. inserted' = inserted
    BY <1>1, <2>1
  <2> QED BY <2>1, <2>2, StutterTrackerInv DEF Replay, cutoverVars
<1>3. CASE ~Seen(tracker, id)
  <2>1. tracker' = Remember(tracker, id) /\ replayed' = replayed \cup {id}
    BY <1>3 DEF Replay, ObserveReplay, Emit
  <2>2. /\ Pushed(tracker.ring, tracker'.ring, id) /\ tracker' \in Tracker
        /\ tracker'.phase = tracker.phase /\ tracker'.last = tracker.last
    BY <1>1, <1>3, <2>1, RememberPushes
  <2>3. inserted' = inserted \o <<id>>
    BY <2>2 DEF Replay, Inserted, Pushed
  <2>4. inserted' = Append(inserted, id)
    BY <1>1, <2>3
  <2>5. RingIsTail' /\ RingIsRecentWindow'
    BY <1>1, <1>3, <2>2, <2>4, PushKeepsRing DEF TrackerInv
  <2>6. CutoverTypeOK'
    <3>1. inserted' \in Seq(EventId)
      BY <1>1, <2>4
    <3> QED BY <2>1, <2>2, <3>1 DEF Replay, TrackerInv, CutoverTypeOK, Tracker
  <2>7. Progress'
    BY <2>2 DEF Replay, TrackerInv, Progress
  <2>8. RingKnown'
    <3> SUFFICES ASSUME NEW i \in DOMAIN tracker'.ring
                 PROVE  \/ tracker'.ring[i] \in replayed'
                        \/ \E k \in DOMAIN emitted' : tracker'.ring[i] = carries'[emitted'[k]]
      BY DEF RingKnown, Known
    <3>1. tracker'.ring[i] = id \/ \E k \in DOMAIN tracker.ring : tracker'.ring[i] = tracker.ring[k]
      BY <1>1, <2>2, PushedIsOldOrNew DEF Tracker
    <3>2. UNCHANGED <<carries, emitted>>
      BY DEF Replay
    <3>3. CASE tracker'.ring[i] = id
      BY <2>1, <3>3
    <3>4. CASE \E k \in DOMAIN tracker.ring : tracker'.ring[i] = tracker.ring[k]
      BY <2>1, <3>2, <3>4 DEF TrackerInv, RingKnown, Known
    <3> QED BY <3>1, <3>3, <3>4
  <2> QED BY <2>5, <2>6, <2>7, <2>8 DEF TrackerInv
<1> QED BY <1>2, <1>3

\* The first cutover fixes the boundary; a later one changes nothing.
LEMMA GoLiveInv == ASSUME TrackerInv, NEW seq \in 0..MaxSeq, GoLive(seq) PROVE TrackerInv'
<1>1. tracker \in Tracker /\ boundary \in -1..MaxSeq
  BY DEF TrackerInv, CutoverTypeOK, Tracker
<1>2. CASE tracker.phase = "live"
  <2>1. tracker' = tracker /\ boundary' = boundary
    BY <1>1, <1>2 DEF GoLive, CutoverToLive, TrackerInv, Progress
  <2> QED BY <2>1, StutterTrackerInv DEF GoLive, cutoverVars
<1>3. CASE tracker.phase = "replay"
  <2>1. /\ tracker' \in Tracker /\ tracker'.phase = "live" /\ tracker'.last = seq
        /\ tracker'.ring = tracker.ring
        /\ boundary' = seq /\ emitted = <<>>
    BY <1>1, <1>3 DEF GoLive, CutoverToLive, TrackerInv, Progress, Tracker
  <2>2. CutoverTypeOK'
    BY <2>1, CutoverAssumption DEF GoLive, TrackerInv, CutoverTypeOK, Tracker
  <2>3. Progress'
    BY <2>1 DEF GoLive, Progress
  <2>4. RingIsTail' /\ RingIsRecentWindow' /\ RingKnown'
    BY <2>1 DEF GoLive, TrackerInv, RingIsTail, RingIsRecentWindow, RingKnown, Known
  <2> QED BY <2>2, <2>3, <2>4 DEF TrackerInv
<1> QED BY <1>1, <1>2, <1>3 DEF Tracker

\* An entry of a sequence is one of its values.
LEMMA EntryInSet ==
    ASSUME NEW S, NEW s \in Seq(S) PROVE \A k \in DOMAIN s : s[k] \in S
OBVIOUS

\* A live event is emitted when it is beyond the last sequence and its id is new.
LEMMA LiveInv == ASSUME TrackerInv, NEW seq \in 1..MaxSeq, Live(seq) PROVE TrackerInv'
<1> DEFINE id == carries[seq]
<1>1. /\ tracker \in Tracker /\ inserted \in Seq(EventId) /\ Len(tracker.ring) <= SeenCapacity
      /\ id \in EventId /\ boundary \in -1..MaxSeq /\ emitted \in Seq(1..MaxSeq)
  BY DEF TrackerInv, CutoverTypeOK, Tracker, RingIsTail
<1> HIDE DEF id
<1>2. CASE tracker.phase = "replay" \/ seq <= tracker.last \/ Seen(tracker, id)
  <2>1. tracker' = tracker /\ emitted' = emitted /\ inserted' = inserted \o <<>>
    BY <1>2 DEF Live, ObserveLive, Skip, Inserted, id
  <2>2. inserted' = inserted
    BY <1>1, <2>1
  <2> QED BY <2>1, <2>2, StutterTrackerInv DEF Live, cutoverVars
<1>3. CASE ~ (tracker.phase = "replay" \/ seq <= tracker.last \/ Seen(tracker, id))
  <2>1. /\ tracker' = [Remember(tracker, id) EXCEPT !.last = seq]
        /\ emitted' = Append(emitted, seq)
    BY <1>3 DEF Live, ObserveLive, Emit, id
  <2>2. /\ Pushed(tracker.ring, Remember(tracker, id).ring, id)
        /\ Remember(tracker, id) \in Tracker
        /\ Remember(tracker, id).phase = tracker.phase
    BY <1>1, <1>3, RememberPushes
  <2>3. /\ Pushed(tracker.ring, tracker'.ring, id) /\ tracker' \in Tracker
        /\ tracker'.phase = "live" /\ tracker'.last = seq /\ seq > tracker.last
        /\ tracker.phase = "live"
    <3>1. PICK t : t = Remember(tracker, id)
      OBVIOUS
    <3>2. t \in Tracker /\ t.phase = tracker.phase /\ Pushed(tracker.ring, t.ring, id)
      BY <2>2, <3>1
    <3>3. tracker' = [t EXCEPT !.last = seq]
      BY <2>1, <3>1
    <3>4. /\ tracker'.ring = t.ring /\ tracker'.phase = t.phase /\ tracker'.last = seq
          /\ tracker' \in Tracker
      BY <3>2, <3>3, CutoverAssumption DEF Tracker
    <3>5. tracker.phase = "live" /\ seq > tracker.last
      BY <1>1, <1>3, CutoverAssumption DEF Tracker
    <3> QED BY <3>2, <3>4, <3>5
  <2>4. inserted' = inserted \o <<id>>
    BY <2>3 DEF Live, Inserted, Pushed, id
  <2>5. inserted' = Append(inserted, id)
    BY <1>1, <2>4
  <2>6. RingIsTail' /\ RingIsRecentWindow'
    BY <1>1, <1>3, <2>3, <2>5, PushKeepsRing DEF TrackerInv
  <2>7. PICK n \in Nat :
          /\ n = Len(emitted) /\ DOMAIN emitted = 1..n /\ DOMAIN emitted' = 1..(n + 1)
          /\ emitted' \in Seq(1..MaxSeq)
          /\ \A k \in 1..n : emitted'[k] = emitted[k] /\ emitted[k] \in 1..MaxSeq
          /\ emitted'[n + 1] = seq
    <3>1. Append(emitted, seq) \in Seq(1..MaxSeq) /\ Len(emitted) \in Nat
      BY <1>1
    <3>2. PICK n \in Nat : n = Len(emitted)
      BY <3>1
    <3>3. /\ DOMAIN emitted = 1..n /\ Len(emitted') = n + 1
          /\ \A k \in 1..n : emitted[k] \in 1..MaxSeq
      <4>1. DOMAIN emitted = 1..n
        BY <1>1, <3>2
      <4>2. \A k \in 1..n : emitted[k] \in 1..MaxSeq
        <5>1. \A k \in DOMAIN emitted : emitted[k] \in 1..MaxSeq
          BY <1>1, EntryInSet
        <5> QED BY <4>1, <5>1
      <4>3. Len(emitted') = n + 1
        BY <1>1, <2>1, <3>2
      <4> QED BY <4>1, <4>2, <4>3
    <3>4. DOMAIN emitted' = 1..(n + 1)
      BY <2>1, <3>1, <3>3
    <3>5. emitted'[n + 1] = seq /\ \A k \in 1..n : emitted'[k] = emitted[k]
      BY <1>1, <2>1, <3>2
    <3> QED BY <2>1, <3>1, <3>2, <3>3, <3>4, <3>5
  <2>8. UNCHANGED <<carries, boundary, replayed>>
    BY DEF Live
  <2>9. CutoverTypeOK'
    <3>1. inserted' \in Seq(EventId)
      BY <1>1, <2>5
    <3> QED BY <2>3, <2>7, <2>8, <3>1 DEF TrackerInv, CutoverTypeOK, Tracker
  <2>10. Progress'
    <3>1. /\ boundary # -1 /\ boundary' = boundary /\ boundary < seq
          /\ \A k \in 1..n : boundary < emitted[k] /\ emitted[k] < seq
      <4>1. tracker.last \in 0..MaxSeq /\ boundary' = boundary
        BY <1>1, <2>8 DEF Tracker
      <4>2. boundary # -1 /\ boundary < seq
        BY <1>1, <2>3, <4>1, CutoverAssumption DEF TrackerInv, Progress
      <4>3. ASSUME NEW k \in 1..n PROVE boundary < emitted[k] /\ emitted[k] < seq
        <5>1. boundary < emitted[k] /\ emitted[k] <= tracker.last /\ emitted[k] \in 1..MaxSeq
          BY <2>7 DEF TrackerInv, Progress
        <5> QED BY <2>3, <4>1, <5>1
      <4> QED BY <4>1, <4>2, <4>3
    <3>2. \A k \in DOMAIN emitted' : boundary' < emitted'[k] /\ emitted'[k] <= tracker'.last
      BY <2>3, <2>7, <3>1
    <3>3. \A k, m \in DOMAIN emitted' : k < m => emitted'[k] < emitted'[m]
      <4> SUFFICES ASSUME NEW k \in DOMAIN emitted', NEW m \in DOMAIN emitted', k < m
                   PROVE  emitted'[k] < emitted'[m]
        OBVIOUS
      <4>1. k \in 1..n
        BY <2>7
      <4>2. CASE m = n + 1
        BY <2>7, <3>1, <4>1, <4>2
      <4>3. CASE m # n + 1
        BY <2>7, <4>1, <4>3 DEF TrackerInv, Progress
      <4> QED BY <4>2, <4>3
    <3> QED BY <1>1, <2>3, <3>1, <3>2, <3>3 DEF Progress
  <2>11. RingKnown'
    <3> SUFFICES ASSUME NEW i \in DOMAIN tracker'.ring
                 PROVE  \/ tracker'.ring[i] \in replayed'
                        \/ \E k \in DOMAIN emitted' : tracker'.ring[i] = carries'[emitted'[k]]
      BY DEF RingKnown, Known
    <3>1. tracker'.ring[i] = id \/ \E k \in DOMAIN tracker.ring : tracker'.ring[i] = tracker.ring[k]
      BY <1>1, <2>3, PushedIsOldOrNew DEF Tracker
    <3>2. CASE tracker'.ring[i] = id
      <4>1. n + 1 \in DOMAIN emitted' /\ carries'[emitted'[n + 1]] = id
        BY <2>7, <2>8 DEF id
      <4> QED BY <3>2, <4>1
    <3>3. CASE \E k \in DOMAIN tracker.ring : tracker'.ring[i] = tracker.ring[k]
      <4>1. \/ tracker'.ring[i] \in replayed
            \/ \E k \in 1..n : tracker'.ring[i] = carries[emitted[k]]
        BY <2>7, <3>3 DEF TrackerInv, RingKnown, Known
      <4>2. ASSUME NEW k \in 1..n
            PROVE  k \in DOMAIN emitted' /\ carries'[emitted'[k]] = carries[emitted[k]]
        BY <2>7, <2>8
      <4> QED BY <2>8, <4>1, <4>2
    <3> QED BY <3>1, <3>2, <3>3
  <2> QED BY <2>6, <2>9, <2>10, <2>11 DEF TrackerInv
<1> QED BY <1>2, <1>3

\* The invariant holds whatever the tracker observes.
LEMMA TrackerInductive == CutoverSpec => []TrackerInv
<1>1. TrackerInv /\ [CutoverNext]_cutoverVars => TrackerInv'
  BY ReplayInv, GoLiveInv, LiveInv, StutterTrackerInv DEF CutoverNext
<1> QED BY InitTrackerInv, <1>1, PTL DEF CutoverSpec

-----------------------------------------------------------------------------
(* The theorems.                                                           *)

\* The tracker and its histories keep their types.
THEOREM TrackerTypes == CutoverSpec => []CutoverTypeOK
BY TrackerInductive, PTL DEF TrackerInv

\* In whatever order events arrive, the client gets them in increasing order
\* and none that its snapshot contains.
THEOREM EmitsInOrder == CutoverSpec => []EmittedInOrder
<1>1. TrackerInv => EmittedInOrder
  BY DEF TrackerInv, Progress, EmittedInOrder
<1> QED BY TrackerInductive, <1>1, PTL

\* Memory is bounded by the capacity, and an id comes back only after as many
\* others as the ring has room for.
THEOREM RingWindow == CutoverSpec => []RingIsRecentWindow
BY TrackerInductive, PTL DEF TrackerInv

\* No event is suppressed as a duplicate unless the client got it.
THEOREM RingEmitted == CutoverSpec => []RingHoldsOnlyEmitted
<1>1. TrackerInv => RingHoldsOnlyEmitted
  BY DEF TrackerInv, RingKnown, Known, RingHoldsOnlyEmitted
<1> QED BY TrackerInductive, <1>1, PTL

\* Together: the tracker passes on in order and suppresses nothing the client lacks.
THEOREM TrackerSound == CutoverSpec => []TrackerIsSound
<1>1. EmittedInOrder /\ RingIsRecentWindow /\ RingHoldsOnlyEmitted => TrackerIsSound
  BY DEF TrackerIsSound
<1> QED
  BY <1>1, EmitsInOrder, RingWindow, RingEmitted, PTL

-----------------------------------------------------------------------------
(* Permissions: the client of a tenant, grants that are retried, removals. *)

PermRecord ==
    [op : {"none", "grant", "remove"}, subject : Subject \cup {All},
     step : {"idle", "client", "asking", "list", "delete", "ok", "failed"},
     attempt : Nat, page : SUBSET Subject, after : 0..Subjects, from : SUBSET Subject, last : BOOLEAN]

PermTypes ==
    /\ cell \in Call \cup {Unset, IsSet} /\ ensured \in BOOLEAN
    /\ tuples \subseteq Subject /\ errors \in Nat
    /\ call \in [Call -> PermRecord]
    /\ everHeld \in [Call -> SUBSET Subject] /\ gaveBack \subseteq Call

\* Only a cell that is set gives a client back, and what is set is ready.
ClientMade ==
    /\ cell = IsSet => ensured
    /\ gaveBack # {} => cell = IsSet

\* Where a call can stand, and that a grant which was answered was there.
CallStands(k) ==
    /\ call[k].step = "idle" <=> call[k].op = "none"
    /\ call[k].step = "client" => call[k].after = 0
    /\ cell = k => call[k].step = "client"
    /\ call[k].op = "grant" => call[k].subject \in Subject
    /\ call[k].step = "asking" => call[k].op = "grant"
    /\ call[k].step \in {"list", "delete"} => call[k].op = "remove"
    /\ call[k].op = "grant" /\ call[k].step = "ok" => call[k].subject \in everHeld[k]

GrantedByOther(k, s) == \E j \in Call \ {k} : call[j].op = "grant" /\ call[j].subject = s

\* What a removal has yet to remove of what it found.
LeftOver(k) == {s \in call[k].from \cap tuples : Matches(k, s)}

\* A removal finds the rest on its page or beyond its token, or it was granted since.
RemovedSoFar(k) ==
    call[k].op = "remove" =>
        \A s \in LeftOver(k) :
            \/ GrantedByOther(k, s)
            \/ call[k].step = "list" /\ s > call[k].after
            \/ call[k].step = "delete" /\ (s \in call[k].page \/ (~call[k].last /\ s > call[k].after))
            \/ call[k].step \notin {"list", "delete", "ok"}

PermInv == PermTypes /\ ClientMade /\ \A k \in Call : CallStands(k) /\ RemovedSoFar(k)

\* A call leaves the others where they are: it only removes tuples, or grants one.
LEMMA OthersStand ==
    ASSUME PermInv, PermTypes', NEW k \in Call, ClientMade',
           \A j \in Call \ {k} : call'[j] = call[j] /\ everHeld[j] \subseteq everHeld'[j],
           call[k].op = "none" \/ (call'[k].op = call[k].op /\ call'[k].subject = call[k].subject),
           \A s \in tuples' \ tuples : call[k].op = "grant" /\ call[k].subject = s,
           cell' \in {cell, k, Unset, IsSet}, CallStands(k)', RemovedSoFar(k)'
    PROVE  PermInv'
<1>1. ASSUME NEW j \in Call \ {k} PROVE CallStands(j)'
  <2>1. cell' = j => cell = j
    BY <1>1, PermAssumption DEF Unset, IsSet, Call
  <2> QED BY <1>1, <2>1 DEF PermInv, CallStands
<1>2. ASSUME NEW j \in Call \ {k} PROVE RemovedSoFar(j)'
  <2>1. ASSUME NEW s, GrantedByOther(j, s) PROVE GrantedByOther(j, s)'
    <3>1. PICK i \in Call \ {j} : call[i].op = "grant" /\ call[i].subject = s
      BY <2>1 DEF GrantedByOther
    <3>2. call'[i].op = "grant" /\ call'[i].subject = s
      BY <3>1
    <3> QED BY <3>1, <3>2 DEF GrantedByOther
  <2>2. ASSUME NEW s \in LeftOver(j)', s \notin LeftOver(j) PROVE GrantedByOther(j, s)'
    <3>1. s \in tuples' \ tuples
      BY <1>2, <2>2 DEF LeftOver, Matches
    <3>2. call'[k].op = "grant" /\ call'[k].subject = s
      BY <3>1
    <3> QED BY <1>2, <3>2 DEF GrantedByOther
  <2>3. RemovedSoFar(j)
    BY DEF PermInv
  <2>4. call'[j] = call[j]
    BY <1>2
  <2> QED BY <2>1, <2>2, <2>3, <2>4 DEF RemovedSoFar
<1>3. \A j \in Call : CallStands(j)' /\ RemovedSoFar(j)'
  BY <1>1, <1>2
<1> QED BY <1>3 DEF PermInv

\* Nobody has a client, and no call has begun.
LEMMA InitPermInv == PermInit => PermInv
<1> SUFFICES ASSUME PermInit PROVE PermInv
  OBVIOUS
<1>1. NoCall \in PermRecord
  BY PermAssumption DEF NoCall, PermRecord, All, Subject
<1>2. PermTypes
  BY <1>1 DEF PermInit, PermTypes
<1>3. ClientMade
  BY PermAssumption DEF PermInit, ClientMade, Unset, IsSet
<1>4. \A k \in Call : CallStands(k) /\ RemovedSoFar(k)
  BY PermAssumption DEF PermInit, CallStands, RemovedSoFar, NoCall, Unset, Call
<1> QED BY <1>2, <1>3, <1>4 DEF PermInv

\* A call begins, as a grant to somebody or as a removal.
LEMMA BeginStands == ASSUME PermInv, NEW k \in Call, Begin(k) PROVE PermInv'
<1>1. PICK op \in {"grant", "remove"}, s \in Subject \cup {All} :
        /\ call' = [call EXCEPT ![k] = [NoCall EXCEPT !.op = op, !.subject = s, !.step = "client"]]
        /\ op = "grant" => s # All
  BY DEF Begin
<1>2. call[k].step = "idle" /\ call[k].op = "none" /\ UNCHANGED <<cell, ensured, tuples, errors, everHeld, gaveBack>>
  BY DEF Begin, PermInv, CallStands
<1>3. PICK w : w = [NoCall EXCEPT !.op = op, !.subject = s, !.step = "client"]
  OBVIOUS
<1>4. w \in PermRecord /\ w.op = op /\ w.step = "client" /\ w.subject = s /\ w.after = 0
  <2>1. NoCall \in PermRecord /\ NoCall.after = 0
    BY PermAssumption DEF NoCall, PermRecord, All, Subject
  <2>2. PICK u : u = [NoCall EXCEPT !.op = op, !.subject = s]
    OBVIOUS
  <2>3. u \in PermRecord /\ u.op = op /\ u.subject = s /\ u.after = 0
    BY <2>1, <2>2 DEF PermRecord
  <2>4. w = [u EXCEPT !.step = "client"]
    BY <1>3, <2>2, Zenon
  <2> QED BY <2>3, <2>4 DEF PermRecord
<1>5. call' = [call EXCEPT ![k] = w] /\ call \in [Call -> PermRecord]
  BY <1>1, <1>3 DEF PermInv, PermTypes
<1>6. call'[k] = w /\ \A j \in Call \ {k} : call'[j] = call[j]
  BY <1>5
<1>7. PermTypes'
  BY <1>2, <1>4, <1>5 DEF PermInv, PermTypes
<1>8. ClientMade'
  BY <1>2 DEF PermInv, ClientMade
<1>9. CallStands(k)' /\ RemovedSoFar(k)'
  BY <1>1, <1>4, <1>6 DEF CallStands, RemovedSoFar
<1> QED BY <1>2, <1>6, <1>7, <1>8, <1>9, OthersStand

\* The first call of a tenant starts to build its client.
LEMMA StartInitStands == ASSUME PermInv, NEW k \in Call, StartInit(k) PROVE PermInv'
<1>1. cell = Unset /\ cell' = k /\ UNCHANGED <<ensured, tuples, call, errors, everHeld, gaveBack>>
  BY DEF StartInit
<1>2. PermTypes'
  BY <1>1 DEF PermInv, PermTypes
<1>3. ClientMade'
  BY <1>1, PermAssumption DEF PermInv, ClientMade, Unset, IsSet, Call
<1>4. CallStands(k)'
  BY <1>1 DEF PermInv, CallStands, StartInit
<1>5. RemovedSoFar(k)'
  BY <1>1 DEF PermInv, RemovedSoFar, LeftOver, Matches, GrantedByOther
<1> QED BY <1>1, <1>2, <1>3, <1>4, <1>5, OthersStand

\* The client is made and kept, or the attempt fails and leaves the cell empty.
LEMMA EndInitStands == ASSUME PermInv, NEW k \in Call, EndInit(k) PROVE PermInv'
<1>1. cell = k /\ UNCHANGED <<tuples, everHeld, gaveBack>>
  BY DEF EndInit
<1>2. CASE ensured' = TRUE /\ cell' = IsSet /\ UNCHANGED <<call, errors>>
  <2>1. PermTypes'
    BY <1>1, <1>2 DEF PermInv, PermTypes
  <2>2. ClientMade'
    BY <1>1, <1>2 DEF ClientMade
  <2>3. CallStands(k)' /\ RemovedSoFar(k)'
    BY <1>1, <1>2 DEF PermInv, CallStands, RemovedSoFar, LeftOver, Matches, GrantedByOther
  <2> QED BY <1>1, <1>2, <2>1, <2>2, <2>3, OthersStand
<1>3. CASE errors' = errors + 1 /\ cell' = KeptAfter /\ UNCHANGED ensured /\ call' = [call EXCEPT ![k].step = "failed"]
  <2>1. call \in [Call -> PermRecord] /\ call[k] \in PermRecord
    BY DEF PermInv, PermTypes
  <2>2. call'[k] \in PermRecord /\ call'[k].step = "failed" /\ call'[k].op = call[k].op /\ call'[k].subject = call[k].subject
    BY <1>3, <2>1 DEF PermRecord
  <2>3. call' \in [Call -> PermRecord] /\ \A j \in Call \ {k} : call'[j] = call[j]
    BY <1>3, <2>1, <2>2
  <2>4. PermTypes'
    BY <1>1, <1>3, <2>3 DEF PermInv, PermTypes, KeptAfter
  <2>5. ClientMade'
    BY <1>1, <1>3, PermAssumption DEF PermInv, ClientMade, KeptAfter, Unset, IsSet, Call
  <2>6. cell' # k /\ call[k].op # "none"
    BY <1>1, <1>3, PermAssumption DEF PermInv, CallStands, KeptAfter, Unset, Call
  <2>7. cell' \in {cell, k, Unset, IsSet} /\ CallStands(k)
    BY <1>3 DEF KeptAfter, PermInv
  <2>8. CallStands(k)' /\ RemovedSoFar(k)'
    BY <2>2, <2>6, <2>7 DEF CallStands, RemovedSoFar
  <2> QED BY <1>1, <2>2, <2>3, <2>4, <2>5, <2>7, <2>8, OthersStand
<1> QED BY <1>2, <1>3 DEF EndInit

\* A call gets the client and goes on with its grant or its removal.
LEMMA HasClientStands == ASSUME PermInv, NEW k \in Call, HasClient(k) PROVE PermInv'
<1>1. /\ call[k].step = "client" /\ cell = IsSet
      /\ gaveBack' = gaveBack \cup {k}
      /\ call' = [call EXCEPT ![k].step = IF call[k].op = "grant" THEN "asking" ELSE "list", ![k].from = tuples]
      /\ everHeld' = [everHeld EXCEPT ![k] = tuples]
      /\ UNCHANGED <<cell, ensured, tuples, errors>>
  BY DEF HasClient
<1>2. call \in [Call -> PermRecord] /\ call[k] \in PermRecord /\ tuples \in SUBSET Subject
      /\ everHeld \in [Call -> SUBSET Subject]
  BY DEF PermInv, PermTypes
<1>3. PICK w : w = [call[k] EXCEPT !.step = IF call[k].op = "grant" THEN "asking" ELSE "list", !.from = tuples]
  OBVIOUS
<1>4. /\ w \in PermRecord /\ w.op = call[k].op /\ w.subject = call[k].subject /\ w.after = call[k].after
      /\ w.step = IF call[k].op = "grant" THEN "asking" ELSE "list"
  BY <1>2, <1>3 DEF PermRecord
<1>5. call' = [call EXCEPT ![k] = w]
  BY <1>1, <1>2, <1>3
<1>6. call'[k] = w /\ call' \in [Call -> PermRecord] /\ \A j \in Call \ {k} : call'[j] = call[j] /\ everHeld'[j] = everHeld[j]
  BY <1>1, <1>2, <1>4, <1>5
<1>7. PermTypes'
  BY <1>1, <1>2, <1>6 DEF PermInv, PermTypes
<1>8. ClientMade'
  BY <1>1 DEF PermInv, ClientMade
<1>9. call[k].after = 0 /\ call[k].op # "none" /\ cell # k /\ (call[k].op = "grant" => call[k].subject \in Subject)
  BY <1>1, PermAssumption DEF PermInv, CallStands, IsSet, Call
<1>10. call[k].op \in {"grant", "remove"}
  BY <1>2, <1>9 DEF PermRecord
<1>11. CallStands(k)'
  BY <1>1, <1>4, <1>6, <1>9, <1>10 DEF CallStands
<1>12. ASSUME call'[k].op = "remove", NEW s \in LeftOver(k)' PROVE call'[k].step = "list" /\ s > call'[k].after
  <2>1. s \in Subject
    BY <1>1, <1>2, <1>12 DEF LeftOver
  <2> QED BY <1>4, <1>6, <1>9, <1>12, <2>1 DEF Subject
<1>13. RemovedSoFar(k)'
  BY <1>12 DEF RemovedSoFar
<1> QED BY <1>1, <1>4, <1>6, <1>7, <1>8, <1>11, <1>13, OthersStand

-----------------------------------------------------------------------------
\* An attempt of a grant writes the tuple, and fails or not; what was answered is there.
LEMMA GrantStands == ASSUME PermInv, NEW k \in Call, Grant(k) PROVE PermInv'
<1>1. /\ call[k].step = "asking" /\ everHeld' = Holds(tuples') /\ UNCHANGED <<cell, ensured, gaveBack>>
      /\ tuples' \in {tuples, tuples \cup {call[k].subject}} /\ errors' \in {errors, errors + 1}
  BY DEF Grant
<1>2. call \in [Call -> PermRecord] /\ call[k] \in PermRecord /\ everHeld \in [Call -> SUBSET Subject]
  BY DEF PermInv, PermTypes
<1>3. call[k].op = "grant" /\ call[k].subject \in Subject /\ cell # k
  BY <1>1 DEF PermInv, CallStands
<1>4. PICK w \in PermRecord :
        /\ call' = [call EXCEPT ![k] = w] /\ w.op = "grant" /\ w.subject = call[k].subject
        /\ w.step \in {"asking", "failed"} \/ (w.step = "ok" /\ tuples' = tuples \cup {call[k].subject})
  <2>1. CASE tuples' = tuples \cup {call[k].subject} /\ call' = [call EXCEPT ![k].step = "ok"]
    <3>1. PICK w : w = [call[k] EXCEPT !.step = "ok"]
      OBVIOUS
    <3>2. w \in PermRecord /\ w.op = "grant" /\ w.subject = call[k].subject /\ w.step = "ok"
      BY <1>2, <1>3, <3>1 DEF PermRecord
    <3>3. call' = [call EXCEPT ![k] = w]
      BY <1>2, <2>1, <3>1
    <3> QED BY <2>1, <3>2, <3>3
  <2>2. CASE \E next \in {"asking", "failed"} :
               call' = [call EXCEPT ![k].attempt = @ + 1,
                                    ![k].step = IF Tolerated THEN "ok"
                                                ELSE IF Exhausted(call[k].attempt + 1) THEN "failed" ELSE next]
    <3>1. PICK step \in {"asking", "failed"} :
            call' = [call EXCEPT ![k].attempt = call[k].attempt + 1, ![k].step = step]
      BY <1>2, <2>2, Zenon DEF Tolerated
    <3>2. PICK w : w = [call[k] EXCEPT !.attempt = call[k].attempt + 1, !.step = step]
      OBVIOUS
    <3>3. w \in PermRecord /\ w.op = "grant" /\ w.subject = call[k].subject /\ w.step = step
      <4>1. PICK u : u = [call[k] EXCEPT !.attempt = call[k].attempt + 1]
        OBVIOUS
      <4>2. u \in PermRecord /\ u.op = "grant" /\ u.subject = call[k].subject
        BY <1>2, <1>3, <4>1 DEF PermRecord
      <4>3. w = [u EXCEPT !.step = step]
        BY <3>2, <4>1, Zenon
      <4> QED BY <4>2, <4>3 DEF PermRecord
    <3>4. call' = [call EXCEPT ![k] = w]
      BY <1>2, <3>1, <3>2
    <3> QED BY <3>3, <3>4
  <2> QED BY <2>1, <2>2 DEF Grant
<1>5. call'[k] = w /\ call' \in [Call -> PermRecord] /\ \A j \in Call \ {k} : call'[j] = call[j]
  BY <1>2, <1>4
<1>6. tuples' \subseteq Subject
  BY <1>1, <1>3 DEF PermInv, PermTypes
<1>7. everHeld' \in [Call -> SUBSET Subject] /\ \A j \in Call : everHeld[j] \subseteq everHeld'[j]
  BY <1>1, <1>2, <1>6 DEF Holds
<1>8. PermTypes'
  BY <1>1, <1>5, <1>6, <1>7 DEF PermInv, PermTypes
<1>9. ClientMade'
  BY <1>1 DEF PermInv, ClientMade
<1>10. w.step = "ok" => call[k].subject \in everHeld'[k]
  BY <1>1, <1>4 DEF Holds
<1>11. CallStands(k)' /\ RemovedSoFar(k)'
  BY <1>1, <1>3, <1>4, <1>5, <1>10 DEF CallStands, RemovedSoFar
<1>12. \A s \in tuples' \ tuples : call[k].op = "grant" /\ call[k].subject = s
  BY <1>1, <1>3
<1> QED BY <1>1, <1>3, <1>4, <1>5, <1>7, <1>8, <1>9, <1>11, <1>12, OthersStand

-----------------------------------------------------------------------------
\* What is beyond a page is beyond every subject on it: the page is made of the first ones.
LEMMA FirstComeFirst ==
    ASSUME PermTypes, NEW k \in Call, NEW first,
           first = {s \in Listed(k) : Cardinality({t \in Listed(k) : t <= s}) <= TuplePage},
           NEW s \in Listed(k) \ first, NEW t \in first
    PROVE  t < s
<1>1. Listed(k) \subseteq 1..Subjects /\ IsFiniteSet(Listed(k))
  <2>1. Listed(k) \subseteq 1..Subjects
    BY DEF PermTypes, Listed, Subject
  <2>2. IsFiniteSet(1..Subjects)
    BY PermAssumption, FS_Interval
  <2> QED BY <2>1, <2>2, FS_Subset
<1>2. SUFFICES ASSUME s <= t PROVE FALSE
  BY <1>1
<1>3. {u \in Listed(k) : u <= s} \subseteq {u \in Listed(k) : u <= t}
  BY <1>1, <1>2
<1>4. IsFiniteSet({u \in Listed(k) : u <= t}) /\ IsFiniteSet({u \in Listed(k) : u <= s})
  BY <1>1, FS_Subset
<1>5. /\ Cardinality({u \in Listed(k) : u <= s}) \in Nat /\ Cardinality({u \in Listed(k) : u <= t}) \in Nat
      /\ Cardinality({u \in Listed(k) : u <= s}) <= Cardinality({u \in Listed(k) : u <= t})
  BY <1>3, <1>4, FS_Subset, FS_CardinalityType
<1>6. Cardinality({u \in Listed(k) : u <= t}) <= TuplePage
  OBVIOUS
<1> QED BY <1>5, <1>6, PermAssumption

\* The token of a page is its last subject.
LEMMA LastOfPage ==
    ASSUME NEW T \in SUBSET Subject, T # {}
    PROVE  \E s \in T : \A t \in T : t <= s
<1>1. PICK S : S = {u \in Nat : \A t \in T : t <= u}
  OBVIOUS
<1>2. Subjects \in S /\ S \subseteq Nat
  BY <1>1, PermAssumption DEF Subject
<1>3. PICK u \in S : \A x \in S : u <= x
  BY <1>2, LeastNatural
<1>4. PICK t \in T : t >= u
  <2>1. SUFFICES ASSUME \A t \in T : t < u PROVE FALSE
    BY <1>2, <1>3 DEF Subject
  <2>2. u \in Nat /\ u > 0
    <3>1. PICK t \in T : t < u
      BY <2>1
    <3> QED BY <1>2, <3>1 DEF Subject
  <2>3. u - 1 \in S
    BY <1>1, <2>1, <2>2 DEF Subject
  <2> QED BY <1>3, <2>2, <2>3
<1> QED BY <1>1, <1>3, <1>4 DEF Subject

\* A page is listed: what is left is on it or beyond it.
LEMMA ListPageStands == ASSUME PermInv, NEW k \in Call, ListPage(k) PROVE PermInv'
<1>1. call[k].step = "list" /\ UNCHANGED <<cell, ensured, tuples, everHeld, gaveBack>> /\ errors' \in {errors, errors + 1}
  BY DEF ListPage
<1>2. call \in [Call -> PermRecord] /\ call[k] \in PermRecord
  BY DEF PermInv, PermTypes
<1>3. call[k].op = "remove" /\ CallStands(k) /\ RemovedSoFar(k)
  BY <1>1 DEF PermInv, CallStands
<1>4. PICK first :
        /\ first = {s \in Listed(k) : Cardinality({t \in Listed(k) : t <= s}) <= TuplePage}
        /\ \/ call' = [call EXCEPT ![k].page = first, ![k].step = "delete", ![k].last = (first = Listed(k)),
                                  ![k].after = IF first = {} THEN @ ELSE CHOOSE s \in first : \A t \in first : t <= s]
           \/ call' = [call EXCEPT ![k].step = "failed", ![k].page = {}]
  BY Zenon DEF ListPage
<1>5. first \subseteq Listed(k) /\ Listed(k) \subseteq tuples /\ first \in SUBSET Subject
  BY <1>4 DEF Listed, PermInv, PermTypes
<1>6. PICK token \in 0..Subjects :
        /\ token = IF first = {} THEN call[k].after ELSE CHOOSE s \in first : \A t \in first : t <= s
        /\ first # {} => token \in first
  <2>1. CASE first = {}
    <3>1. call[k].after \in 0..Subjects
      BY <1>2 DEF PermRecord
    <3> QED BY <2>1, <3>1
  <2>2. CASE first # {}
    <3>1. \E s \in first : \A t \in first : t <= s
      BY <1>5, <2>2, LastOfPage
    <3>2. (CHOOSE s \in first : \A t \in first : t <= s) \in first
      BY <3>1
    <3>3. PICK chosen : chosen = CHOOSE s \in first : \A t \in first : t <= s
      OBVIOUS
    <3>4. chosen \in first /\ chosen \in 0..Subjects
      <4>1. chosen \in first
        BY <3>2, <3>3
      <4> QED BY <1>5, <4>1 DEF Subject
    <3>5. chosen = IF first = {} THEN call[k].after ELSE CHOOSE s \in first : \A t \in first : t <= s
      BY <2>2, <3>3
    <3> QED BY <3>4, <3>5
  <2> QED BY <2>1, <2>2
<1>7. PICK w \in PermRecord :
        /\ call' = [call EXCEPT ![k] = w] /\ w.op = "remove" /\ w.subject = call[k].subject /\ w.from = call[k].from
        /\ w.step = "failed" \/ (w.step = "delete" /\ w.page = first /\ w.last = (first = Listed(k)) /\ w.after = token)
  <2>1. CASE call' = [call EXCEPT ![k].page = first, ![k].step = "delete", ![k].last = (first = Listed(k)),
                                  ![k].after = IF first = {} THEN @ ELSE CHOOSE s \in first : \A t \in first : t <= s]
    <3>1. PICK last \in BOOLEAN : last = (first = Listed(k))
      BY Zenon
    <3>2. PICK w : w = [call[k] EXCEPT !.page = first, !.step = "delete", !.last = last, !.after = token]
      OBVIOUS
    <3>3. call' = [call EXCEPT ![k].page = first, ![k].step = "delete", ![k].last = last, ![k].after = token]
      BY <1>2, <1>6, <2>1, <3>1
    <3>4. call' = [call EXCEPT ![k] = w]
      BY <1>2, <3>2, <3>3
    <3>5. /\ w \in PermRecord /\ w.op = "remove" /\ w.subject = call[k].subject /\ w.from = call[k].from
          /\ w.step = "delete" /\ w.page = first /\ w.last = last /\ w.after = token
      BY <1>2, <1>3, <1>5, <3>2 DEF PermRecord
    <3>6. w.last = (first = Listed(k))
      BY <3>1, <3>5, Zenon
    <3> QED BY <3>4, <3>5, <3>6, Zenon
  <2>2. CASE call' = [call EXCEPT ![k].step = "failed", ![k].page = {}]
    <3>1. PICK w : w = [call[k] EXCEPT !.step = "failed", !.page = {}]
      OBVIOUS
    <3>2. w \in PermRecord /\ w.op = "remove" /\ w.subject = call[k].subject /\ w.from = call[k].from /\ w.step = "failed"
      BY <1>2, <1>3, <3>1 DEF PermRecord
    <3>3. call' = [call EXCEPT ![k] = w]
      BY <1>2, <2>2, <3>1
    <3> QED BY <3>2, <3>3, Zenon
  <2> QED BY <1>4, <2>1, <2>2, Zenon
<1>8. call'[k] = w /\ call' \in [Call -> PermRecord] /\ \A j \in Call \ {k} : call'[j] = call[j]
  BY <1>2, <1>7
<1>9. PermTypes'
  BY <1>1, <1>8 DEF PermInv, PermTypes
<1>10. ClientMade'
  BY <1>1 DEF PermInv, ClientMade
<1>11. CallStands(k)'
  BY <1>1, <1>3, <1>7, <1>8 DEF CallStands
<1>12. ASSUME w.step = "delete", NEW s \in LeftOver(k)', ~GrantedByOther(k, s)
       PROVE s \in w.page \/ (~w.last /\ s > w.after)
  <2>1. s \in LeftOver(k)
    BY <1>1, <1>7, <1>8, <1>12 DEF LeftOver, Matches
  <2>2. s > call[k].after /\ s \in tuples
    BY <1>1, <1>3, <1>12, <2>1 DEF RemovedSoFar, LeftOver
  <2>3. s \in Listed(k)
    BY <2>2 DEF Listed
  <2>4. CASE s \in first
    BY <1>7, <1>12, <2>4
  <2>5. CASE s \notin first
    <3>1. ~w.last
      BY <1>7, <1>12, <2>3, <2>5, Zenon
    <3>2. PermTypes
      BY DEF PermInv
    <3>3. \A t \in first : t < s
      BY <1>4, <2>3, <2>5, <3>2, FirstComeFirst
    <3>4. s > token
      BY <1>6, <2>2, <3>3
    <3> QED BY <1>7, <1>12, <3>1, <3>4
  <2> QED BY <2>4, <2>5
<1>13. \A s : GrantedByOther(k, s) => GrantedByOther(k, s)'
  BY <1>8 DEF GrantedByOther
<1>14. RemovedSoFar(k)'
  BY <1>7, <1>8, <1>12, <1>13 DEF RemovedSoFar
<1> QED BY <1>1, <1>3, <1>7, <1>8, <1>9, <1>10, <1>11, <1>14, OthersStand, SMTT(40)

\* A tuple of the page is removed if it matches; an error ends the removal.
LEMMA DeleteTupleStands == ASSUME PermInv, NEW k \in Call, DeleteTuple(k) PROVE PermInv'
<1>1. PICK d \in call[k].page :
        /\ call[k].step = "delete" /\ UNCHANGED <<cell, ensured, everHeld, gaveBack>>
        /\ \/ /\ tuples' = IF Matches(k, d) THEN tuples \ {d} ELSE tuples
              /\ call' = [call EXCEPT ![k].page = call[k].page \ {d}]
              /\ UNCHANGED errors
           \/ /\ errors' = errors + 1
              /\ call' = [call EXCEPT ![k].step = "failed", ![k].page = {}]
              /\ UNCHANGED tuples
  BY DEF DeleteTuple, PermInv, PermTypes
<1>2. call \in [Call -> PermRecord] /\ call[k] \in PermRecord
  BY DEF PermInv, PermTypes
<1>3. call[k].op = "remove" /\ CallStands(k) /\ RemovedSoFar(k)
  BY <1>1 DEF PermInv, CallStands
<1>4. PICK w \in PermRecord :
        /\ call' = [call EXCEPT ![k] = w] /\ w.op = "remove" /\ w.subject = call[k].subject /\ w.from = call[k].from
        /\ \/ w.step = "failed" /\ UNCHANGED tuples /\ errors' = errors + 1
           \/ /\ w.step = "delete" /\ w.page = call[k].page \ {d} /\ w.last = call[k].last /\ w.after = call[k].after
              /\ tuples' = (IF Matches(k, d) THEN tuples \ {d} ELSE tuples) /\ UNCHANGED errors
  <2>1. CASE /\ call' = [call EXCEPT ![k].page = call[k].page \ {d}] /\ UNCHANGED errors
             /\ tuples' = IF Matches(k, d) THEN tuples \ {d} ELSE tuples
    <3>1. PICK w : w = [call[k] EXCEPT !.page = call[k].page \ {d}]
      OBVIOUS
    <3>2. /\ w \in PermRecord /\ w.op = "remove" /\ w.subject = call[k].subject /\ w.from = call[k].from
          /\ w.step = "delete" /\ w.page = call[k].page \ {d} /\ w.last = call[k].last /\ w.after = call[k].after
      BY <1>1, <1>2, <1>3, <3>1 DEF PermRecord
    <3>3. call' = [call EXCEPT ![k] = w]
      BY <1>2, <2>1, <3>1
    <3> QED BY <2>1, <3>2, <3>3, Zenon
  <2>2. CASE call' = [call EXCEPT ![k].step = "failed", ![k].page = {}] /\ UNCHANGED tuples /\ errors' = errors + 1
    <3>1. PICK w : w = [call[k] EXCEPT !.step = "failed", !.page = {}]
      OBVIOUS
    <3>2. w \in PermRecord /\ w.op = "remove" /\ w.subject = call[k].subject /\ w.from = call[k].from /\ w.step = "failed"
      BY <1>2, <1>3, <3>1 DEF PermRecord
    <3>3. call' = [call EXCEPT ![k] = w]
      BY <1>2, <2>2, <3>1
    <3> QED BY <2>2, <3>2, <3>3, Zenon
  <2> QED BY <1>1, <2>1, <2>2, Zenon
<1>5. call'[k] = w /\ call' \in [Call -> PermRecord] /\ \A j \in Call \ {k} : call'[j] = call[j]
  BY <1>2, <1>4
<1>6. tuples' \subseteq tuples
  BY <1>4
<1>7. PermTypes'
  BY <1>1, <1>4, <1>5, <1>6 DEF PermInv, PermTypes
<1>8. ClientMade'
  BY <1>1 DEF PermInv, ClientMade
<1>9. CallStands(k)'
  BY <1>1, <1>3, <1>4, <1>5 DEF CallStands
<1>10. ASSUME w.step = "delete", NEW s \in LeftOver(k)', ~GrantedByOther(k, s)
       PROVE s \in w.page \/ (~w.last /\ s > w.after)
  <2>1. s \in LeftOver(k) /\ s \in tuples' /\ Matches(k, s)
    BY <1>4, <1>5, <1>6, <1>10 DEF LeftOver, Matches
  <2>2. s # d
    BY <1>4, <1>10, <2>1
  <2> QED BY <1>1, <1>3, <1>4, <1>10, <2>1, <2>2 DEF RemovedSoFar
<1>11. \A s : GrantedByOther(k, s) => GrantedByOther(k, s)'
  BY <1>5 DEF GrantedByOther
<1>12. RemovedSoFar(k)'
  BY <1>4, <1>5, <1>10, <1>11 DEF RemovedSoFar
<1> QED BY <1>1, <1>3, <1>4, <1>5, <1>6, <1>7, <1>8, <1>9, <1>12, OthersStand

\* An empty page leads on to the next one, or the removal is over.
LEMMA NextPageStands == ASSUME PermInv, NEW k \in Call, NextPage(k) PROVE PermInv'
<1>1. /\ call[k].step = "delete" /\ call[k].page = {} /\ UNCHANGED <<cell, ensured, tuples, errors, everHeld, gaveBack>>
      /\ call' = [call EXCEPT ![k].step = IF call[k].last THEN "ok" ELSE "list"]
  BY DEF NextPage, IsLastPage
<1>2. call \in [Call -> PermRecord] /\ call[k] \in PermRecord
  BY DEF PermInv, PermTypes
<1>3. call[k].op = "remove" /\ CallStands(k) /\ RemovedSoFar(k)
  BY <1>1 DEF PermInv, CallStands
<1>4. /\ call'[k] \in PermRecord /\ call'[k].op = "remove" /\ call'[k].subject = call[k].subject
      /\ call'[k].from = call[k].from /\ call'[k].after = call[k].after
      /\ call'[k].step = IF call[k].last THEN "ok" ELSE "list"
  BY <1>1, <1>2, <1>3 DEF PermRecord
<1>5. call' \in [Call -> PermRecord] /\ \A j \in Call \ {k} : call'[j] = call[j]
  BY <1>1, <1>2, <1>4
<1>6. PermTypes'
  BY <1>1, <1>5 DEF PermInv, PermTypes
<1>7. ClientMade'
  BY <1>1 DEF PermInv, ClientMade
<1>8. CallStands(k)'
  BY <1>1, <1>3, <1>4 DEF CallStands
<1>9. LeftOver(k)' = LeftOver(k)
  BY <1>1, <1>4 DEF LeftOver, Matches
<1>10. \A s : GrantedByOther(k, s) => GrantedByOther(k, s)'
  BY <1>5 DEF GrantedByOther
<1>11. RemovedSoFar(k)'
  BY <1>1, <1>3, <1>4, <1>9, <1>10 DEF RemovedSoFar
<1> QED BY <1>1, <1>3, <1>4, <1>5, <1>6, <1>7, <1>8, <1>11, OthersStand

\* No step of the permission client disturbs PermInv.
LEMMA PermInductive == PermInv /\ [PermNext]_permVars => PermInv'
<1> SUFFICES ASSUME PermInv, [PermNext]_permVars PROVE PermInv'
  OBVIOUS
<1>1. CASE UNCHANGED permVars
  BY <1>1 DEF permVars, PermInv, PermTypes, ClientMade, CallStands, RemovedSoFar, LeftOver, Matches, GrantedByOther
<1>2. ASSUME NEW k \in Call,
             \/ Begin(k) \/ StartInit(k) \/ EndInit(k) \/ HasClient(k)
             \/ Grant(k) \/ ListPage(k) \/ DeleteTuple(k) \/ NextPage(k)
      PROVE PermInv'
  BY <1>2, BeginStands, StartInitStands, EndInitStands, HasClientStands, GrantStands, ListPageStands,
     DeleteTupleStands, NextPageStands
<1> QED BY <1>1, <1>2 DEF PermNext

\* What the permission client answered is so, whatever failed and was tried again
\* (permission_client.rs, permission_retry.rs): a client is ready, a grant holds, a removal
\* removed all that matched and nothing else.
THEOREM AnswersTrue == PermSpec => AnswersAreTrue
<1>1. PermInv => ClientIsReady /\ GrantMeansHeld /\ RemovalIsComplete
  <2> SUFFICES ASSUME PermInv PROVE ClientIsReady /\ GrantMeansHeld /\ RemovalIsComplete
    OBVIOUS
  <2>1. ClientIsReady
    BY DEF PermInv, ClientMade, ClientIsReady
  <2>2. GrantMeansHeld
    BY DEF PermInv, CallStands, GrantMeansHeld
  <2>3. RemovalIsComplete
    BY DEF PermInv, RemovedSoFar, LeftOver, Matches, GrantedByOther, RemovalIsComplete
  <2> QED BY <2>1, <2>2, <2>3
<1>2. PermInv /\ [PermNext]_permVars =>
        [\A s \in tuples \ tuples' : \E k \in Call : call[k].op = "remove" /\ call[k].subject \in {All, s}]_permVars
  <2> SUFFICES ASSUME PermInv, PermNext, NEW s \in tuples \ tuples'
               PROVE \E k \in Call : call[k].op = "remove" /\ call[k].subject \in {All, s}
    BY ZenonT(40)
  <2>1. PICK k \in Call : DeleteTuple(k)
    BY DEF PermNext, Begin, StartInit, EndInit, HasClient, Grant, ListPage, NextPage
  <2>2. Matches(k, s) /\ call[k].step = "delete"
    BY <2>1 DEF DeleteTuple
  <2> QED BY <2>2 DEF PermInv, CallStands, Matches
<1> QED BY InitPermInv, PermInductive, <1>1, <1>2, PTL DEF PermSpec, AnswersAreTrue, RemovesOnlyMatches

-----------------------------------------------------------------------------
(* Attachments: rows, objects and uploads.                                 *)

\* A request that has not ended is about an attachment.
RequestsAim ==
    \A r \in AttRequest : attReq[r].step \in {"row read", "head", "object gone"} => attReq[r].att \in Attachment

\* Whatever lies under the key of an attachment, its own client put there.
ObjectsUploaded == \A a \in Attachment : object[a] # 0 => object[a] \in stored[a]

\* What a confirmation was told of by S3 was uploaded, and so was what a row says.
SizesUploaded ==
    /\ \A r \in AttRequest : At(r, "confirm", "head") => attReq[r].size \in stored[attReq[r].att]
    /\ \A a \in Attachment : IsRow(a) /\ attRow[a].size > 0 => attRow[a].size \in stored[a]

\* What was uploaded is there, unless a DeleteAttachment got to S3.
UploadsStay == \A a \in Attachment : stored[a] # {} /\ object[a] = 0 => a \in removing

\* What is there in spite of a DeleteAttachment is known as a stray, and so is what has no row.
StraysKnown ==
    /\ \A r \in AttRequest : At(r, "delete", "object gone") => attReq[r].att \in removing
    /\ \A a \in Attachment : object[a] # 0 /\ (a \in removing \/ attRow[a] = NoRow) => a \in strays

AttTypes ==
    /\ attCards \subseteq AttCard
    /\ attRow \in [Attachment -> AttRowSet(attCards)]
    /\ object \in [Attachment -> 0..puts] /\ puts \in 0..MaxPuts
    /\ putUrl \subseteq {a \in Attachment : attRow[a] # NotAsked}
    /\ attReq \in [AttRequest -> AttReqSet]
    /\ stored \in [Attachment -> SUBSET (1..puts)]

AttInv == AttTypes /\ RequestsAim /\ ObjectsUploaded /\ SizesUploaded /\ UploadsStay /\ StraysKnown

\* Rows are of three kinds, told apart by what they are.
LEMMA RowKinds == NotAsked.is = "not asked" /\ NoRow.is = "gone" /\ NotAsked # NoRow
  BY DEF NotAsked, NoRow

\* A row has a card and a size, and is none of the others.
LEMMA RowOf ==
    ASSUME NEW c, NEW n
    PROVE  Row(c, n).is = "row" /\ Row(c, n).card = c /\ Row(c, n).size = n /\ Row(c, n) # NotAsked /\ Row(c, n) # NoRow
<1>1. Row(c, n).is = "row" /\ Row(c, n).card = c /\ Row(c, n).size = n
  BY DEF Row
<1> QED BY <1>1, RowKinds

\* What can stand in the table.
LEMMA RowsOfCards ==
    ASSUME NEW cards
    PROVE  /\ NotAsked \in AttRowSet(cards) /\ NoRow \in AttRowSet(cards)
           /\ \A c \in cards, n \in 0..MaxPuts : Row(c, n) \in AttRowSet(cards)
           /\ \A x \in AttRowSet(cards) : x.is = "row" => \E c \in cards, n \in 0..MaxPuts : x = Row(c, n)
           /\ \A x \in AttRowSet(cards) : x.is # "row" => x \in {NotAsked, NoRow}
<1>1. NotAsked \in AttRowSet(cards) /\ NoRow \in AttRowSet(cards)
  BY DEF AttRowSet
<1>2. \A c \in cards, n \in 0..MaxPuts : Row(c, n) \in AttRowSet(cards)
  <2> SUFFICES ASSUME NEW c \in cards, NEW n \in 0..MaxPuts PROVE Row(c, n) \in {Row(d, m) : d \in cards, m \in 0..MaxPuts}
    BY DEF AttRowSet
  <2> QED OBVIOUS
<1>3. ASSUME NEW x \in AttRowSet(cards), x \notin {NotAsked, NoRow} PROVE \E c \in cards, n \in 0..MaxPuts : x = Row(c, n)
  <2>1. x \in {Row(d, m) : d \in cards, m \in 0..MaxPuts}
    BY <1>3 DEF AttRowSet
  <2> QED BY <2>1
<1>4. \A x \in AttRowSet(cards) : x.is = "row" => \E c \in cards, n \in 0..MaxPuts : x = Row(c, n)
  <2> SUFFICES ASSUME NEW x \in AttRowSet(cards), x.is = "row" PROVE \E c \in cards, n \in 0..MaxPuts : x = Row(c, n)
    OBVIOUS
  <2>1. x \notin {NotAsked, NoRow}
    BY RowKinds
  <2> QED BY <1>3, <2>1, Zenon
<1>5. \A x \in AttRowSet(cards) : x.is # "row" => x \in {NotAsked, NoRow}
  <2> SUFFICES ASSUME NEW x \in AttRowSet(cards), x.is # "row", x \notin {NotAsked, NoRow} PROVE FALSE
    OBVIOUS
  <2>1. PICK c \in cards, n \in 0..MaxPuts : x = Row(c, n)
    BY <1>3, Zenon
  <2> QED BY <2>1, RowOf
<1> QED BY <1>1, <1>2, <1>4, <1>5

\* No attachment is asked for, and nothing is stored.
LEMMA InitAttInv == AttInit => AttInv
<1> SUFFICES ASSUME AttInit PROVE AttInv
  OBVIOUS
<1>1. IdleRequest \in AttReqSet /\ IdleRequest.step = "none"
  BY AttAssumption DEF IdleRequest, AttReqSet
<1>2. AttTypes
  BY <1>1, AttAssumption DEF AttInit, AttTypes, AttRowSet
<1>3. \A r \in AttRequest : attReq[r].step = "none"
  BY <1>1 DEF AttInit
<1>4. \A a \in Attachment : attRow[a].is = "not asked" /\ attRow[a] # NoRow
  BY RowKinds DEF AttInit
<1>5. RequestsAim /\ SizesUploaded
  BY <1>3, <1>4 DEF RequestsAim, SizesUploaded, At, IsRow
<1>6. ObjectsUploaded /\ UploadsStay /\ StraysKnown
  BY <1>3 DEF AttInit, ObjectsUploaded, UploadsStay, StraysKnown, At
<1> QED BY <1>2, <1>5, <1>6 DEF AttInv

\* A row and a URL are made for an attachment that nobody asked for before.
LEMMA RequestUploadStands ==
    ASSUME AttInv, NEW a \in Attachment, NEW c \in AttCard, RequestUpload(a, c) PROVE AttInv'
<1>1. /\ attRow[a] = NotAsked /\ c \in attCards /\ attRow' = [attRow EXCEPT ![a] = Row(c, 0)]
      /\ putUrl' = putUrl \cup {a} /\ UNCHANGED <<attCards, object, puts, attReq, stored, removing, strays>>
  BY DEF RequestUpload, attGhosts
<1>2. attRow \in [Attachment -> AttRowSet(attCards)]
  BY DEF AttInv, AttTypes
<1>3. Row(c, 0) \in AttRowSet(attCards) /\ Row(c, 0) # NotAsked /\ Row(c, 0) # NoRow /\ Row(c, 0).size = 0
  <2>1. 0 \in 0..MaxPuts
    BY AttAssumption
  <2>2. Row(c, 0) \in AttRowSet(attCards)
    BY <1>1, <2>1, RowsOfCards
  <2> QED BY <2>2, RowOf
<1>4. attRow' \in [Attachment -> AttRowSet(attCards)] /\ attRow'[a] = Row(c, 0) /\ \A b \in Attachment \ {a} : attRow'[b] = attRow[b]
  BY <1>1, <1>2, <1>3
<1>5. AttTypes'
  BY <1>1, <1>3, <1>4 DEF AttInv, AttTypes, AttRowSet
<1>6. RequestsAim' /\ ObjectsUploaded' /\ UploadsStay'
  BY <1>1 DEF AttInv, RequestsAim, ObjectsUploaded, UploadsStay
<1>7. SizesUploaded'
  BY <1>1, <1>3, <1>4 DEF AttInv, SizesUploaded, At, IsRow
<1>8. StraysKnown'
  BY <1>1, <1>3, <1>4 DEF AttInv, StraysKnown, At
<1> QED BY <1>5, <1>6, <1>7, <1>8 DEF AttInv

\* The client uploads to the key of its own attachment.
LEMMA PutStands == ASSUME AttInv, NEW a \in Attachment, Put(a) PROVE AttInv'
<1>1. /\ puts < MaxPuts /\ puts' = puts + 1
      /\ object' = [object EXCEPT ![a] = puts + 1]
      /\ stored' = [stored EXCEPT ![a] = stored[a] \cup {puts + 1}]
      /\ strays' = (IF a \in removing \/ ~IsRow(a) THEN strays \cup {a} ELSE strays)
      /\ UNCHANGED <<attCards, attRow, putUrl, attReq, removing>>
  BY DEF Put, KeyOf, AttInv, AttTypes
<1>2. object \in [Attachment -> 0..puts] /\ stored \in [Attachment -> SUBSET (1..puts)] /\ puts \in 0..MaxPuts
  BY DEF AttInv, AttTypes
<1>3. object' \in [Attachment -> 0..(puts + 1)] /\ stored' \in [Attachment -> SUBSET (1..(puts + 1))] /\ puts' \in 0..MaxPuts
  BY <1>1, <1>2, AttAssumption
<1>4. AttTypes'
  BY <1>1, <1>3 DEF AttInv, AttTypes
<1>5. object'[a] = puts + 1 /\ puts + 1 # 0 /\ puts + 1 \in stored'[a] /\ \A b \in Attachment \ {a} : object'[b] = object[b]
  BY <1>1, <1>2
<1>6. \A b \in Attachment : stored[b] \subseteq stored'[b]
  BY <1>1, <1>2
<1>7. \A b \in Attachment \ {a} : stored'[b] = stored[b]
  BY <1>1, <1>2
<1>8. RequestsAim' /\ ObjectsUploaded'
  BY <1>1, <1>5, <1>6 DEF AttInv, RequestsAim, ObjectsUploaded
<1>9. SizesUploaded'
  BY <1>1, <1>6 DEF AttInv, SizesUploaded, RequestsAim, At, IsRow
<1>10. UploadsStay'
  BY <1>1, <1>5, <1>7 DEF AttInv, UploadsStay
<1>11. attRow[a] = NoRow => ~IsRow(a)
  BY RowKinds DEF IsRow
<1>12. StraysKnown'
  BY <1>1, <1>5, <1>11 DEF AttInv, StraysKnown, At
<1> QED BY <1>4, <1>8, <1>9, <1>10, <1>12 DEF AttInv

\* With a card go its rows, and what they leave behind is known.
LEMMA CardDeletedStands == ASSUME AttInv, NEW c \in AttCard, CardDeleted(c) PROVE AttInv'
<1>1. /\ attCards' = attCards \ {c}
      /\ attRow' = [a \in Attachment |-> IF IsRow(a) /\ attRow[a].card = c THEN NoRow ELSE attRow[a]]
      /\ strays' = strays \cup {a \in Attachment : IsRow(a) /\ attRow[a].card = c}
      /\ UNCHANGED <<object, putUrl, puts, attReq, stored, removing>>
  BY DEF CardDeleted
<1>2. \A a \in Attachment : attRow[a] \in AttRowSet(attCards)
  BY DEF AttInv, AttTypes
<1>3. ASSUME NEW a \in Attachment
      PROVE  /\ attRow'[a] \in AttRowSet(attCards \ {c})
             /\ attRow'[a] = attRow[a] \/ (attRow'[a] = NoRow /\ IsRow(a) /\ a \in strays')
             /\ attRow'[a] = NotAsked => attRow[a] = NotAsked
  <2>1. CASE IsRow(a) /\ attRow[a].card = c
    BY <1>1, <2>1, RowKinds, RowsOfCards
  <2>2. CASE ~IsRow(a)
    <3>1. attRow[a] \in {NotAsked, NoRow}
      BY <1>2, <2>2, RowsOfCards DEF IsRow
    <3> QED BY <1>1, <2>2, <3>1, RowsOfCards
  <2>3. CASE IsRow(a) /\ attRow[a].card # c
    <3>1. PICK d \in attCards, n \in 0..MaxPuts : attRow[a] = Row(d, n)
      BY <1>2, <2>3, RowsOfCards DEF IsRow
    <3>2. d # c
      BY <2>3, <3>1, RowOf
    <3>3. attRow'[a] = attRow[a] /\ d \in attCards \ {c}
      BY <1>1, <2>3, <3>2
    <3> QED BY <3>1, <3>3, RowsOfCards
  <2> QED BY <2>1, <2>2, <2>3
<1>4. attRow' \in [Attachment -> AttRowSet(attCards')]
  BY <1>1, <1>3
<1>5. AttTypes'
  BY <1>1, <1>3, <1>4 DEF AttInv, AttTypes
<1>6. RequestsAim' /\ ObjectsUploaded' /\ UploadsStay'
  BY <1>1 DEF AttInv, RequestsAim, ObjectsUploaded, UploadsStay
<1>7. SizesUploaded'
  BY <1>1, <1>3, RowKinds DEF AttInv, SizesUploaded, At, IsRow
<1>8. StraysKnown'
  BY <1>1, <1>3 DEF AttInv, StraysKnown, At
<1> QED BY <1>5, <1>6, <1>7, <1>8 DEF AttInv

-----------------------------------------------------------------------------
\* A step of a request that writes neither rows nor objects.
LEMMA AskStands ==
    ASSUME AttInv, NEW r \in AttRequest, NEW w \in AttReqSet, attReq' = [attReq EXCEPT ![r] = w],
           UNCHANGED <<attCards, attRow, object, putUrl, puts, stored, removing, strays>>,
           w.step \in {"row read", "head", "object gone"} => w.att \in Attachment,
           w.op = "confirm" /\ w.step = "head" => w.size \in stored[w.att],
           w.step # "object gone"
    PROVE  AttInv'
<1>1. attReq \in [AttRequest -> AttReqSet]
  BY DEF AttInv, AttTypes
<1>2. attReq' \in [AttRequest -> AttReqSet] /\ attReq'[r] = w /\ \A q \in AttRequest \ {r} : attReq'[q] = attReq[q]
  BY <1>1
<1>3. AttTypes'
  BY <1>2 DEF AttInv, AttTypes
<1>4. RequestsAim' /\ ObjectsUploaded' /\ UploadsStay'
  BY <1>2 DEF AttInv, RequestsAim, ObjectsUploaded, UploadsStay
<1>5. SizesUploaded'
  BY <1>2 DEF AttInv, SizesUploaded, At, IsRow
<1>6. StraysKnown'
  BY <1>2 DEF AttInv, StraysKnown, At
<1> QED BY <1>3, <1>4, <1>5, <1>6 DEF AttInv

\* What a request that has ended still says.
LEMMA EndedRequest ==
    /\ [op |-> "confirm", att |-> 0, step |-> "done", size |-> 0] \in AttReqSet
    /\ [op |-> "confirm", att |-> 0, step |-> "done", size |-> 0].step = "done"
  BY AttAssumption DEF AttReqSet

\* A request reads the row of an attachment.
LEMMA ReadRowStands ==
    ASSUME AttInv, NEW r \in AttRequest, NEW op \in {"confirm", "delete"}, NEW a \in Attachment, NEW c \in AttCard,
           ReadRow(r, op, a, c)
    PROVE  AttInv'
<1>1. PICK w : w = [op |-> op, att |-> a, step |-> "row read", size |-> 0]
  OBVIOUS
<1>2. w \in AttReqSet /\ w.step = "row read" /\ w.att = a
  <2>1. op \in {"idle", "confirm", "delete"} /\ a \in Attachment \cup {0} /\ 0 \in 0..MaxPuts
    BY AttAssumption
  <2> QED BY <1>1, <2>1 DEF AttReqSet
<1>3. attReq' = [attReq EXCEPT ![r] = w] /\ UNCHANGED <<attCards, attRow, object, putUrl, puts, stored, removing, strays>>
  BY <1>1 DEF ReadRow, attGhosts
<1> QED BY <1>2, <1>3, AskStands

\* S3 tells of an object, or the request ends.
LEMMA HeadObjectStands == ASSUME AttInv, NEW r \in AttRequest, HeadObject(r) PROVE AttInv'
<1>1. UNCHANGED <<attCards, attRow, object, putUrl, puts, stored, removing, strays>> /\ At(r, "confirm", "row read")
  BY DEF HeadObject, attGhosts
<1>2. CASE Ends(r)
  <2>1. PICK w : w = [op |-> "confirm", att |-> 0, step |-> "done", size |-> 0]
    OBVIOUS
  <2>2. w \in AttReqSet /\ w.step = "done" /\ attReq' = [attReq EXCEPT ![r] = w]
    BY <1>2, <2>1, EndedRequest, Zenon DEF Ends
  <2> QED BY <1>1, <2>2, AskStands
<1>3. CASE /\ object[attReq[r].att] # 0
           /\ attReq' = [attReq EXCEPT ![r].step = "head", ![r].size = object[attReq[r].att]]
  <2>1. attReq \in [AttRequest -> AttReqSet] /\ attReq[r] \in AttReqSet /\ attReq[r].att \in Attachment
    BY <1>1 DEF AttInv, AttTypes, RequestsAim, At
  <2>2. PICK n \in 0..MaxPuts : n = object[attReq[r].att] /\ n \in stored[attReq[r].att]
    BY <1>3, <2>1, AttAssumption DEF AttInv, AttTypes, ObjectsUploaded
  <2>3. PICK w : w = [attReq[r] EXCEPT !.step = "head", !.size = n]
    OBVIOUS
  <2>4. w \in AttReqSet /\ w.step = "head" /\ w.size = n /\ w.att = attReq[r].att
    BY <2>1, <2>3 DEF AttReqSet
  <2>5. attReq' = [attReq EXCEPT ![r] = w]
    BY <1>3, <2>1, <2>2, <2>3
  <2> QED BY <1>1, <2>1, <2>2, <2>4, <2>5, AskStands
<1> QED BY <1>2, <1>3 DEF HeadObject, KeyOf

\* The size goes into the row, if the row is still there.
LEMMA WriteSizeStands == ASSUME AttInv, NEW r \in AttRequest, WriteSize(r) PROVE AttInv'
<1>1. PICK a, n : a = attReq[r].att /\ n = attReq[r].size
  OBVIOUS
<1>2. /\ At(r, "confirm", "head") /\ Ends(r) /\ UNCHANGED <<attCards, object, putUrl, puts, stored, removing, strays>>
      /\ attRow' = IF IsRow(a) THEN [attRow EXCEPT ![a].size = n] ELSE attRow
  BY <1>1 DEF WriteSize, Sized, attGhosts
<1>3. a \in Attachment /\ n \in 0..MaxPuts /\ n \in stored[a] /\ attReq \in [AttRequest -> AttReqSet]
      /\ attRow \in [Attachment -> AttRowSet(attCards)]
  BY <1>1, <1>2 DEF AttInv, AttTypes, AttReqSet, RequestsAim, SizesUploaded, At
<1>4. ASSUME IsRow(a)
      PROVE  attRow' \in [Attachment -> AttRowSet(attCards)] /\ IsRow(a)' /\ attRow'[a].size = n /\ attRow'[a] \notin {NotAsked, NoRow}
             /\ \A b \in Attachment \ {a} : attRow'[b] = attRow[b]
  <2>1. PICK d \in attCards, m \in 0..MaxPuts : attRow[a] = Row(d, m)
    BY <1>3, <1>4, RowsOfCards DEF IsRow
  <2>2. [attRow[a] EXCEPT !.size = n] = Row(d, n)
    BY <2>1 DEF Row
  <2>3. attRow' = [attRow EXCEPT ![a] = Row(d, n)]
    BY <1>2, <1>3, <1>4, <2>2
  <2>4. Row(d, n) \in AttRowSet(attCards)
    BY <1>3, <2>1, RowsOfCards
  <2> QED BY <1>3, <2>3, <2>4, RowOf DEF IsRow
<1>5. PICK w : w = [op |-> "confirm", att |-> 0, step |-> "done", size |-> 0]
  OBVIOUS
<1>6. w \in AttReqSet /\ w.step = "done" /\ attReq' = [attReq EXCEPT ![r] = w]
  BY <1>2, <1>5, EndedRequest, Zenon DEF Ends
<1>7. attReq' \in [AttRequest -> AttReqSet] /\ attReq'[r] = w /\ \A q \in AttRequest \ {r} : attReq'[q] = attReq[q]
  BY <1>3, <1>6
<1>8. AttTypes'
  <2>1. attRow' \in [Attachment -> AttRowSet(attCards)]
    BY <1>2, <1>3, <1>4
  <2>2. \A b \in Attachment : attRow'[b] = NotAsked => attRow[b] = NotAsked
    BY <1>2, <1>4
  <2> QED BY <1>2, <1>7, <2>1, <2>2 DEF AttInv, AttTypes
<1>9. RequestsAim' /\ ObjectsUploaded' /\ UploadsStay'
  BY <1>2, <1>6, <1>7 DEF AttInv, RequestsAim, ObjectsUploaded, UploadsStay
<1>10. SizesUploaded'
  <2>1. \A q \in AttRequest : At(q, "confirm", "head")' => attReq'[q].size \in stored'[attReq'[q].att]
    BY <1>2, <1>6, <1>7 DEF AttInv, SizesUploaded, At
  <2>2. \A b \in Attachment : IsRow(b)' /\ attRow'[b].size > 0 => attRow'[b].size \in stored'[b]
    BY <1>2, <1>3, <1>4 DEF AttInv, SizesUploaded, IsRow
  <2> QED BY <2>1, <2>2 DEF SizesUploaded
<1>11. StraysKnown'
  <2>1. \A b \in Attachment : attRow'[b] = NoRow => attRow[b] = NoRow
    BY <1>2, <1>4
  <2> QED BY <1>2, <1>6, <1>7, <2>1 DEF AttInv, StraysKnown, At
<1> QED BY <1>8, <1>9, <1>10, <1>11 DEF AttInv

\* S3 removes the object, or it fails to and what stays is a stray.
LEMMA RemoveObjectStands == ASSUME AttInv, NEW r \in AttRequest, RemoveObject(r) PROVE AttInv'
<1>1. PICK a : a = attReq[r].att
  OBVIOUS
<1>2. /\ At(r, "delete", "row read") /\ removing' = removing \cup {a}
      /\ \/ object' = [object EXCEPT ![a] = 0] /\ strays' = strays
         \/ object' = object /\ strays' = strays \cup {a}
      /\ attReq' = [attReq EXCEPT ![r].step = "object gone"]
      /\ UNCHANGED <<attCards, attRow, putUrl, puts, stored>>
  BY <1>1 DEF RemoveObject, RemovesObject, KeyOf
<1>3. a \in Attachment /\ attReq \in [AttRequest -> AttReqSet] /\ attReq[r] \in AttReqSet /\ attReq[r].op = "delete"
      /\ object \in [Attachment -> 0..puts] /\ puts \in Nat
  <2>1. attReq \in [AttRequest -> AttReqSet] /\ attReq[r] \in AttReqSet /\ object \in [Attachment -> 0..puts]
    BY DEF AttInv, AttTypes
  <2>2. a \in Attachment /\ attReq[r].op = "delete"
    BY <1>1, <1>2 DEF AttInv, RequestsAim, At
  <2>3. puts \in Nat
    BY AttAssumption DEF AttInv, AttTypes
  <2> QED BY <2>1, <2>2, <2>3
<1>4. /\ attReq'[r] \in AttReqSet /\ attReq'[r].step = "object gone" /\ attReq'[r].att = a /\ attReq'[r].op = "delete"
      /\ attReq' \in [AttRequest -> AttReqSet] /\ \A q \in AttRequest \ {r} : attReq'[q] = attReq[q]
  <2>1. PICK w : w = [attReq[r] EXCEPT !.step = "object gone"]
    OBVIOUS
  <2>2. w \in AttReqSet /\ w.step = "object gone" /\ w.att = a /\ w.op = "delete"
    BY <1>1, <1>3, <2>1 DEF AttReqSet
  <2>3. attReq' = [attReq EXCEPT ![r] = w]
    BY <1>2, <1>3, <2>1
  <2> QED BY <1>3, <2>2, <2>3
<1>5. /\ object' \in [Attachment -> 0..puts] /\ \A b \in Attachment \ {a} : object'[b] = object[b]
      /\ object'[a] = 0 \/ (a \in strays' /\ object'[a] = object[a])
  <2>1. CASE object' = [object EXCEPT ![a] = 0]
    BY <1>3, <2>1
  <2>2. CASE object' = object /\ strays' = strays \cup {a}
    BY <1>3, <2>2
  <2> QED BY <1>2, <2>1, <2>2
<1>6. AttTypes'
  BY <1>2, <1>4, <1>5 DEF AttInv, AttTypes
<1>7. RequestsAim' /\ ObjectsUploaded'
  BY <1>2, <1>3, <1>4, <1>5 DEF AttInv, RequestsAim, ObjectsUploaded
<1>8. SizesUploaded'
  BY <1>2, <1>4 DEF AttInv, SizesUploaded, At, IsRow
<1>9. UploadsStay'
  BY <1>2, <1>5 DEF AttInv, UploadsStay
<1>10. StraysKnown'
  <2>1. strays \subseteq strays' /\ removing' = removing \cup {a}
    BY <1>2
  <2>2. \A q \in AttRequest : At(q, "delete", "object gone")' => attReq'[q].att \in removing'
    <3>1. ASSUME NEW q \in AttRequest, At(q, "delete", "object gone")' PROVE attReq'[q].att \in removing'
      <4>1. CASE q = r
        BY <1>4, <2>1, <4>1
      <4>2. CASE q # r
        <5>1. attReq'[q] = attReq[q] /\ At(q, "delete", "object gone")
          BY <1>4, <3>1, <4>2 DEF At
        <5>2. attReq[q].att \in removing
          BY <5>1 DEF AttInv, StraysKnown
        <5> QED BY <2>1, <5>1, <5>2
      <4> QED BY <4>1, <4>2
    <3> QED BY <3>1
  <2>3. \A b \in Attachment : object'[b] # 0 /\ (b \in removing' \/ attRow'[b] = NoRow) => b \in strays'
    BY <1>2, <1>5, <2>1 DEF AttInv, StraysKnown
  <2> QED BY <2>2, <2>3 DEF StraysKnown
<1> QED BY <1>6, <1>7, <1>8, <1>9, <1>10 DEF AttInv

\* The row goes after its object, or it stays.
LEMMA RemoveRowStands == ASSUME AttInv, NEW r \in AttRequest, RemoveRow(r) PROVE AttInv'
<1>1. PICK a : a = attReq[r].att
  OBVIOUS
<1>2. /\ At(r, "delete", "object gone") /\ Ends(r)
      /\ attRow' = [attRow EXCEPT ![a] = NoRow] \/ attRow' = attRow
      /\ UNCHANGED <<attCards, object, putUrl, puts, stored, removing, strays>>
  BY <1>1 DEF RemoveRow, attGhosts
<1>3. a \in Attachment /\ a \in removing /\ attReq \in [AttRequest -> AttReqSet] /\ attRow \in [Attachment -> AttRowSet(attCards)]
  BY <1>1, <1>2 DEF AttInv, AttTypes, RequestsAim, StraysKnown, At
<1>4. /\ attRow' \in [Attachment -> AttRowSet(attCards)] /\ \A b \in Attachment \ {a} : attRow'[b] = attRow[b]
      /\ attRow'[a] \in {attRow[a], NoRow}
  BY <1>2, <1>3, RowsOfCards
<1>5. PICK w : w = [op |-> "confirm", att |-> 0, step |-> "done", size |-> 0]
  OBVIOUS
<1>6. w \in AttReqSet /\ w.step = "done" /\ attReq' = [attReq EXCEPT ![r] = w]
  BY <1>2, <1>5, EndedRequest, Zenon DEF Ends
<1>7. attReq' \in [AttRequest -> AttReqSet] /\ attReq'[r] = w /\ \A q \in AttRequest \ {r} : attReq'[q] = attReq[q]
  BY <1>3, <1>6
<1>8. AttTypes'
  BY <1>2, <1>4, <1>7, RowKinds DEF AttInv, AttTypes
<1>9. RequestsAim' /\ ObjectsUploaded' /\ UploadsStay'
  BY <1>2, <1>6, <1>7 DEF AttInv, RequestsAim, ObjectsUploaded, UploadsStay
<1>10. SizesUploaded'
  BY <1>2, <1>4, <1>6, <1>7, RowKinds DEF AttInv, SizesUploaded, At, IsRow
<1>11. StraysKnown'
  BY <1>2, <1>3, <1>4, <1>6, <1>7 DEF AttInv, StraysKnown, At
<1> QED BY <1>8, <1>9, <1>10, <1>11 DEF AttInv

\* No step on attachments disturbs AttInv.
LEMMA AttInductive == AttInv /\ [AttNext]_attVars => AttInv'
<1> SUFFICES ASSUME AttInv, [AttNext]_attVars PROVE AttInv'
  OBVIOUS
<1>1. CASE UNCHANGED attVars
  BY <1>1 DEF attVars, AttInv, AttTypes, RequestsAim, ObjectsUploaded, SizesUploaded, UploadsStay, StraysKnown, At, IsRow
<1>2. ASSUME NEW a \in Attachment, UrlExpires(a) PROVE AttInv'
  BY <1>2 DEF UrlExpires, attGhosts, AttInv, AttTypes, RequestsAim, ObjectsUploaded, SizesUploaded, UploadsStay,
              StraysKnown, At, IsRow
<1> QED BY <1>1, <1>2, RequestUploadStands, PutStands, CardDeletedStands, ReadRowStands, HeadObjectStands,
           WriteSizeStands, RemoveObjectStands, RemoveRowStands DEF AttNext

\* Row and object of an attachment agree but for the reasons the code leaves to a sweeper
\* (attachments.rs, s3.rs), and a row that is gone does not come back.
THEOREM AttachmentsWhole == AttSpec => AttachmentsAreWhole
<1>1. AttInv => SizeWasUploaded /\ LostOnlyWhenDeleted /\ OrphansExplained
  <2> SUFFICES ASSUME AttInv PROVE SizeWasUploaded /\ LostOnlyWhenDeleted /\ OrphansExplained
    OBVIOUS
  <2>1. SizeWasUploaded
    BY DEF AttInv, SizesUploaded, SizeWasUploaded
  <2>2. LostOnlyWhenDeleted
    BY DEF AttInv, SizesUploaded, UploadsStay, LostOnlyWhenDeleted, KeyOf
  <2>3. OrphansExplained
    BY DEF AttInv, StraysKnown, OrphansExplained, KeyOf
  <2> QED BY <2>1, <2>2, <2>3
<1>2. AttInv /\ [AttNext]_attVars => [\A a \in Attachment : attRow[a] = NoRow => attRow'[a] = NoRow]_attVars
  <2> SUFFICES ASSUME AttInv, AttNext, NEW a \in Attachment, attRow[a] = NoRow PROVE attRow'[a] = NoRow
    BY Zenon
  <2>1. attRow[a].is = "gone" /\ attRow[a] # NotAsked /\ attRow \in [Attachment -> AttRowSet(attCards)]
    BY RowKinds DEF AttInv, AttTypes
  <2>2. ASSUME NEW b \in Attachment, NEW c \in AttCard, RequestUpload(b, c) PROVE attRow'[a] = NoRow
    BY <2>1, <2>2 DEF RequestUpload
  <2>3. ASSUME NEW c \in AttCard, CardDeleted(c) PROVE attRow'[a] = NoRow
    BY <2>3 DEF CardDeleted
  <2>4. ASSUME NEW r \in AttRequest, WriteSize(r) PROVE attRow'[a] = NoRow
    BY <2>1, <2>4 DEF WriteSize, Sized, IsRow
  <2>5. ASSUME NEW r \in AttRequest, RemoveRow(r) PROVE attRow'[a] = NoRow
    BY <2>1, <2>5 DEF RemoveRow
  <2> QED BY <2>2, <2>3, <2>4, <2>5 DEF AttNext, Put, UrlExpires, HeadObject, RemoveObject, ReadRow
<1> QED BY InitAttInv, AttInductive, <1>1, <1>2, PTL DEF AttSpec, AttachmentsAreWhole, RowsStayGone

-----------------------------------------------------------------------------
(***************************************************************************)
(* SearchPaging: the pages of a search.                                    *)
(***************************************************************************)
SearchTypes ==
    /\ searchable \subseteq FoundCard /\ openBoards \subseteq FoundBoard /\ granted \subseteq FoundBoard
    /\ searchStep \in {"asking", "hits read", "grants read", "over"}
    /\ hitCursor \in 0..FoundCards /\ disturbed \in Nat
    /\ rawHits \subseteq FoundCard /\ Cardinality(rawHits) <= HitLimit
    /\ pagesShown \in Seq(SUBSET FoundCard)

HitsRead == searchStep \in {"hits read", "grants read"}

\* What was shown lies up to the cursor, and what was read lies beyond it.
ShownToCursor ==
    /\ searchStep # "over" => \A k \in 1..Len(pagesShown) : \A d \in pagesShown[k] : d <= hitCursor
    /\ HitsRead => \A d \in rawHits : d > hitCursor

\* What was read are the first documents beyond the cursor, while nothing has changed.
ReadFromCursor ==
    (HitsRead /\ disturbed = 0) =>
        \A d \in searchable, e \in rawHits : hitCursor < d /\ d <= e => d \in rawHits

\* And up to the cursor, no document the caller may see was left out.
NoneLeftOut ==
    (searchStep # "over" /\ disturbed = 0) =>
        \A d \in searchable : d <= hitCursor /\ BoardOfFound[d] \in Visible =>
            \E k \in 1..Len(pagesShown) : d \in pagesShown[k]

\* What the filter of a page goes by is what could be seen since the page was asked for.
SeenSince ==
    /\ HitsRead => Visible \subseteq seenOpen
    /\ searchStep = "grants read" => allowedByGrant \subseteq seenOpen

SearchInv == SearchTypes /\ HitsInOrder /\ ShownToCursor /\ ReadFromCursor /\ NoneLeftOut /\ SeenSince

\* The numbers of the model: places in the order, and the cursors made of them.
LEMMA SearchNumbers ==
    /\ HitLimit \in Nat /\ HitLimit >= 1 /\ FoundCards \in Nat
    /\ \A d \in FoundCard : d \in Nat /\ d \in 0..FoundCards
    /\ \A c \in 0..FoundCards : c \in Nat
BY SearchAssumption DEF FoundCard

\* Nothing is asked for, and nothing shown.
LEMMA InitSearchInv == SearchInit => SearchInv
<1> SUFFICES ASSUME SearchInit PROVE SearchInv
  OBVIOUS
<1>1. searchStep = "asking" /\ pagesShown = <<>> /\ Len(pagesShown) = 0 /\ hitCursor = 0 /\ rawHits = {}
  BY DEF SearchInit
<1>2. SearchTypes
  <2>1. Cardinality({}) = 0
    BY FS_EmptySet
  <2> QED BY <1>1, <2>1, SearchAssumption DEF SearchInit, SearchTypes
<1>3. HitsInOrder /\ ShownToCursor
  BY <1>1 DEF HitsInOrder, ShownToCursor, HitsRead
<1>4. NoneLeftOut
  BY <1>1, <1>2 DEF NoneLeftOut, SearchTypes, FoundCard
<1>5. ReadFromCursor /\ SeenSince
  BY <1>1 DEF ReadFromCursor, SeenSince, HitsRead
<1> QED BY <1>2, <1>3, <1>4, <1>5 DEF SearchInv

\* Documents that are not none have a last one (what a cursor is made of).
LEMMA LastDocument ==
    ASSUME NEW T \in SUBSET FoundCard, T # {}
    PROVE  \E d \in T : \A e \in T : e <= d
<1>1. PICK S : S = {u \in Nat : \A t \in T : t <= u}
  OBVIOUS
<1>2. FoundCards \in S /\ S \subseteq Nat
  BY <1>1, SearchAssumption DEF FoundCard
<1>3. PICK u \in S : \A x \in S : u <= x
  BY <1>2, LeastNatural
<1>4. PICK t \in T : t >= u
  <2>1. SUFFICES ASSUME \A t \in T : t < u PROVE FALSE
    BY <1>2, <1>3 DEF FoundCard
  <2>2. u \in Nat /\ u > 0
    <3>1. PICK t \in T : t < u
      BY <2>1
    <3> QED BY <1>2, <3>1 DEF FoundCard
  <2>3. u - 1 \in S
    BY <1>1, <2>1, <2>2 DEF FoundCard
  <2> QED BY <1>3, <2>2, <2>3
<1> QED BY <1>1, <1>3, <1>4 DEF FoundCard

\* The first n of a set of documents are at most n, and none is left out before one of them.
LEMMA FirstOnes ==
    ASSUME NEW found \in SUBSET FoundCard, NEW n \in Nat, NEW first,
           \A d : d \in first <=> d \in found /\ Cardinality({e \in found : e <= d}) <= n
    PROVE  /\ first \subseteq found /\ Cardinality(first) <= n
           /\ \A d \in found, e \in first : d <= e => d \in first
<1>1. IsFiniteSet(found) /\ IsFiniteSet(first) /\ first \subseteq found
  <2>1. IsFiniteSet(1..FoundCards)
    BY SearchAssumption, FS_Interval
  <2> QED BY <2>1, FS_Subset DEF FoundCard
<1>2. \A d \in found : IsFiniteSet({e \in found : e <= d}) /\ Cardinality({e \in found : e <= d}) \in Nat
  BY <1>1, FS_Subset, FS_CardinalityType
<1>3. ASSUME NEW d \in found, NEW e \in first, d <= e PROVE d \in first
  <2>1. {x \in found : x <= d} \subseteq {x \in found : x <= e}
    <3>1. first \subseteq found
      BY <1>1
    <3>2. \A x \in found : x \in Nat
      BY SearchAssumption DEF FoundCard
    <3>3. d \in Nat /\ e \in Nat
      BY <3>1, <3>2
    <3>4. ASSUME NEW x \in found, x <= d PROVE x <= e
      BY <1>3, <3>2, <3>3, <3>4
    <3> QED BY <3>4
  <2>2. e \in found /\ Cardinality({x \in found : x <= e}) <= n
    BY <1>1
  <2>3. Cardinality({x \in found : x <= d}) <= Cardinality({x \in found : x <= e})
    BY <1>2, <2>1, <2>2, FS_Subset
  <2>4. Cardinality({x \in found : x <= d}) <= n
    <3>1. PICK a : a = Cardinality({x \in found : x <= d})
      OBVIOUS
    <3>2. PICK b : b = Cardinality({x \in found : x <= e})
      OBVIOUS
    <3>3. a \in Nat /\ b \in Nat
      BY <1>2, <2>2, <3>1, <3>2
    <3>4. a <= b /\ b <= n
      BY <2>2, <2>3, <3>1, <3>2
    <3> QED BY <3>1, <3>3, <3>4
  <2> QED BY <2>4
<1>4. Cardinality(first) <= n
  <2>1. CASE first = {}
    <3>1. Cardinality(first) = 0
      BY <2>1, FS_EmptySet
    <3> QED BY <3>1
  <2>2. CASE first # {}
    <3>1. PICK m \in first : \A d \in first : d <= m
      BY <1>1, <2>2, LastDocument
    <3>2. first \subseteq {x \in found : x <= m}
      BY <1>1, <3>1
    <3>3. IsFiniteSet({x \in found : x <= m}) /\ Cardinality({x \in found : x <= m}) <= n
      BY <1>1, <1>2, <3>1
    <3>4. Cardinality(first) <= Cardinality({x \in found : x <= m})
      BY <3>2, <3>3, FS_Subset
    <3> QED BY <1>1, <1>2, <3>1, <3>3, <3>4, FS_CardinalityType
  <2> QED BY <2>1, <2>2
<1> QED BY <1>1, <1>3, <1>4

\* A page after those shown: the others stay, and it is the last.
LEMMA PageAdded ==
    ASSUME NEW before \in Seq(SUBSET FoundCard), NEW hits \in SUBSET FoundCard, NEW more, more = Append(before, hits)
    PROVE  /\ more \in Seq(SUBSET FoundCard) /\ Len(before) \in Nat /\ Len(more) = Len(before) + 1 /\ more[Len(more)] = hits
           /\ \A k \in 1..Len(before) : k \in 1..Len(more) /\ more[k] = before[k]
           /\ more # before
<1>1. Len(before) \in Nat
  OBVIOUS
<1>2. Len(more) = Len(before) + 1 /\ more \in Seq(SUBSET FoundCard)
  OBVIOUS
<1>3. more[Len(more)] = hits
  OBVIOUS
<1> QED BY <1>1, <1>2, <1>3

\* A page that is shown lies beyond those shown before it (search_after).
LEMMA PageInOrder ==
    ASSUME SearchTypes, HitsInOrder, ShownToCursor, searchStep # "over",
           NEW hits \in SUBSET FoundCard, \A d \in hits : d > hitCursor, pagesShown' = Append(pagesShown, hits)
    PROVE  HitsInOrder' /\ pagesShown' \in Seq(SUBSET FoundCard)
<1>1. /\ pagesShown' \in Seq(SUBSET FoundCard) /\ Len(pagesShown) \in Nat
      /\ Len(pagesShown') = Len(pagesShown) + 1 /\ pagesShown'[Len(pagesShown')] = hits
      /\ \A k \in 1..Len(pagesShown) : k \in 1..Len(pagesShown') /\ pagesShown'[k] = pagesShown[k]
  <2>1. pagesShown \in Seq(SUBSET FoundCard)
    BY DEF SearchTypes
  <2> QED BY <2>1, PageAdded
<1>2. ASSUME NEW i \in 1..Len(pagesShown'), NEW j \in 1..Len(pagesShown'), i < j,
             NEW d \in pagesShown'[i], NEW e \in pagesShown'[j]
      PROVE d < e
  <2>1. i \in 1..Len(pagesShown) /\ d \in pagesShown[i]
    BY <1>1, <1>2
  <2>2. d \in FoundCard /\ e \in FoundCard
    <3>1. \A k \in 1..Len(pagesShown') : pagesShown'[k] \in SUBSET FoundCard
      BY <1>1
    <3>2. pagesShown'[i] \in SUBSET FoundCard /\ pagesShown'[j] \in SUBSET FoundCard
      BY <3>1
    <3> QED BY <1>2, <3>2
  <2>3. CASE j \in 1..Len(pagesShown)
    BY <1>1, <1>2, <2>1, <2>3 DEF HitsInOrder
  <2>4. CASE j = Len(pagesShown')
    <3>1. d <= hitCursor
      BY <2>1 DEF ShownToCursor
    <3>2. e > hitCursor
      BY <1>1, <2>4
    <3>3. d \in Nat /\ e \in Nat /\ hitCursor \in Nat
      BY <2>2, SearchNumbers DEF SearchTypes
    <3> QED BY <3>1, <3>2, <3>3
  <2> QED BY <1>1, <2>3, <2>4
<1> QED BY <1>1, <1>2 DEF HitsInOrder

\* The index answers: the first documents beyond the cursor, or an empty page at the end.
LEMMA AskIndexStands == ASSUME SearchInv, AskIndex PROVE SearchInv'
<1>1. /\ searchStep = "asking" /\ seenOpen' = Visible
      /\ UNCHANGED <<searchable, openBoards, granted, hitCursor, allowedByGrant, disturbed>>
  BY DEF AskIndex
<1>2. PICK found : found = {d \in searchable : d > hitCursor}
  OBVIOUS
<1>3. /\ rawHits' = {d \in found : Cardinality({e \in found : e <= d}) <= HitLimit}
      /\ IF rawHits' = {}
         THEN searchStep' = "over" /\ pagesShown' = Append(pagesShown, {})
         ELSE searchStep' = "hits read" /\ UNCHANGED pagesShown
  BY <1>2 DEF AskIndex, After, HitsAskedFor
<1>4. found \in SUBSET FoundCard /\ HitLimit \in Nat
  BY <1>2, SearchAssumption DEF SearchInv, SearchTypes
<1>5. /\ rawHits' \subseteq found /\ Cardinality(rawHits') <= HitLimit
      /\ \A d \in found, e \in rawHits' : d <= e => d \in rawHits'
  <2>1. rawHits' = {d \in found : Cardinality({e \in found : e <= d}) <= HitLimit}
    BY <1>3
  <2>2. PICK first : first = rawHits'
    OBVIOUS
  <2>3. \A d : d \in first <=> d \in found /\ Cardinality({e \in found : e <= d}) <= HitLimit
    BY <2>1, <2>2
  <2>4. /\ first \subseteq found /\ Cardinality(first) <= HitLimit
        /\ \A d \in found, e \in first : d <= e => d \in first
    BY <1>4, <2>3, FirstOnes
  <2> QED BY <2>2, <2>4, Zenon
<1>6. HitsInOrder' /\ pagesShown' \in Seq(SUBSET FoundCard)
  <2>1. CASE rawHits' = {}
    <3>1. pagesShown' = Append(pagesShown, {}) /\ {} \in SUBSET FoundCard /\ searchStep # "over"
      BY <1>1, <1>3, <2>1
    <3>2. \A d \in {} : d > hitCursor
      OBVIOUS
    <3> QED BY <3>1, <3>2, PageInOrder DEF SearchInv
  <2>2. CASE rawHits' # {}
    BY <1>3, <2>2 DEF SearchInv, SearchTypes, HitsInOrder
  <2> QED BY <2>1, <2>2
<1>7. SearchTypes'
  BY <1>1, <1>3, <1>4, <1>5, <1>6 DEF SearchInv, SearchTypes
<1>8. ShownToCursor'
  BY <1>1, <1>2, <1>3, <1>5 DEF SearchInv, ShownToCursor, HitsRead
<1>9. ReadFromCursor'
  BY <1>1, <1>2, <1>3, <1>5 DEF ReadFromCursor, HitsRead
<1>10. NoneLeftOut'
  BY <1>1, <1>3 DEF SearchInv, NoneLeftOut, Visible
<1>11. SeenSince'
  BY <1>1, <1>3 DEF SeenSince, HitsRead, Visible
<1> QED BY <1>6, <1>7, <1>8, <1>9, <1>10, <1>11 DEF SearchInv

\* The boards of a grant are read, or the search fails.
LEMMA ReadGrantsStands == ASSUME SearchInv, ReadGrants PROVE SearchInv'
<1>1. /\ searchStep = "hits read" /\ allowedByGrant' = granted /\ searchStep' \in {"grants read", "over"}
      /\ UNCHANGED <<searchable, openBoards, granted, hitCursor, rawHits, pagesShown, disturbed, seenOpen>>
  BY DEF ReadGrants, GrantsRead
<1>2. SearchTypes'
  BY <1>1 DEF SearchInv, SearchTypes
<1>3. HitsInOrder'
  BY <1>1 DEF SearchInv, HitsInOrder
<1>4. ShownToCursor'
  BY <1>1 DEF SearchInv, ShownToCursor, HitsRead
<1>5. ReadFromCursor'
  BY <1>1 DEF SearchInv, ReadFromCursor, HitsRead
<1>6. NoneLeftOut'
  BY <1>1 DEF SearchInv, NoneLeftOut, Visible
<1>7. SeenSince'
  BY <1>1 DEF SearchInv, SeenSince, HitsRead, Visible
<1> QED BY <1>2, <1>3, <1>4, <1>5, <1>6, <1>7 DEF SearchInv

\* A page is shown.  With a cursor it shows every hit read: none was dropped before it.
LEMMA ShowHitsStands == ASSUME SearchInv, ShowHits PROVE SearchInv'
<1>1. /\ searchStep = "grants read" /\ rawHits' = {}
      /\ UNCHANGED <<searchable, openBoards, granted, allowedByGrant, disturbed, seenOpen>>
  BY DEF ShowHits
<1>2. PICK hits : hits = {d \in rawHits : BoardOfFound[d] \in Allowed}
  OBVIOUS
<1>3. /\ pagesShown' = Append(pagesShown, hits)
      /\ IF HasNext(hits)
         THEN searchStep' = "asking" /\ hitCursor' = LastHit(hits)
         ELSE searchStep' = "over" /\ UNCHANGED hitCursor
  BY <1>2 DEF ShowHits
<1>4. hits \in SUBSET FoundCard /\ hits \subseteq rawHits /\ rawHits \subseteq FoundCard /\ \A d \in hits : d > hitCursor
  BY <1>1, <1>2 DEF SearchInv, SearchTypes, ShownToCursor, HitsRead
<1>5. HitsInOrder' /\ pagesShown' \in Seq(SUBSET FoundCard)
  BY <1>1, <1>3, <1>4, PageInOrder DEF SearchInv
<1>6. /\ Len(pagesShown) \in Nat /\ Len(pagesShown') = Len(pagesShown) + 1 /\ pagesShown'[Len(pagesShown')] = hits
      /\ \A k \in 1..Len(pagesShown) : k \in 1..Len(pagesShown') /\ pagesShown'[k] = pagesShown[k]
  <2>1. pagesShown \in Seq(SUBSET FoundCard)
    BY DEF SearchInv, SearchTypes
  <2> QED BY <1>3, <1>4, <2>1, PageAdded
<1>7. Cardinality({}) = 0
  BY FS_EmptySet
<1>8. CASE ~HasNext(hits)
  <2>1. searchStep' = "over" /\ hitCursor' = hitCursor
    BY <1>3, <1>8
  <2>2. SearchTypes'
    <3>1. rawHits' \subseteq FoundCard /\ Cardinality(rawHits') <= HitLimit
      <4>1. Cardinality(rawHits') = 0
        BY <1>1, <1>7, Zenon
      <4>2. 0 <= HitLimit
        BY SearchNumbers
      <4>3. rawHits' \subseteq FoundCard
        BY <1>1
      <4> QED BY <4>1, <4>2, <4>3, Zenon
    <3>2. SearchTypes
      BY DEF SearchInv
    <3>3. UNCHANGED <<searchable, openBoards, granted, hitCursor, disturbed>> /\ searchStep' = "over"
      BY <1>1, <2>1
    <3> QED BY <1>5, <3>1, <3>2, <3>3 DEF SearchTypes
  <2>3. ShownToCursor' /\ ReadFromCursor' /\ NoneLeftOut' /\ SeenSince'
    BY <2>1 DEF ShownToCursor, ReadFromCursor, NoneLeftOut, SeenSince, HitsRead
  <2> QED BY <1>5, <2>2, <2>3 DEF SearchInv
<1>9. CASE HasNext(hits)
  <2>1. hits = rawHits
    <3>1. IsFiniteSet(rawHits)
      <4>1. IsFiniteSet(1..FoundCards)
        BY SearchAssumption, FS_Interval
      <4> QED BY <1>4, <4>1, FS_Subset DEF FoundCard
    <3>2. Cardinality(rawHits) <= HitLimit /\ Cardinality(hits) >= HitLimit
      BY <1>9 DEF SearchInv, SearchTypes, HasNext
    <3>3. /\ IsFiniteSet(hits) /\ Cardinality(hits) <= Cardinality(rawHits)
          /\ Cardinality(hits) = Cardinality(rawHits) => hits = rawHits
      BY <1>4, <3>1, FS_Subset, Zenon
    <3>4. Cardinality(hits) \in Nat /\ Cardinality(rawHits) \in Nat /\ HitLimit \in Nat
      BY <3>1, <3>3, FS_CardinalityType, SearchAssumption
    <3> QED BY <3>2, <3>3, <3>4
  <2>2. hits # {}
    BY <1>7, <1>9, SearchAssumption DEF HasNext
  <2>3. PICK last : last = LastHit(hits)
    OBVIOUS
  <2>4. last \in hits /\ \A e \in hits : e <= last
    <3>1. \E d \in hits : \A e \in hits : e <= d
      BY <1>4, <2>2, LastDocument
    <3> QED BY <2>3, <3>1 DEF LastHit
  <2>5. searchStep' = "asking" /\ hitCursor' = last /\ last \in FoundCard
    BY <1>3, <1>4, <1>9, <2>3, <2>4
  <2>6. last > hitCursor /\ hitCursor \in Nat /\ last \in Nat
    <3>1. hitCursor \in Nat /\ last \in Nat
      BY <2>5, SearchNumbers DEF SearchInv, SearchTypes
    <3> QED BY <1>4, <2>4, <3>1
  <2>7. SearchTypes'
    <3>1. rawHits' \subseteq FoundCard /\ Cardinality(rawHits') <= HitLimit
      <4>1. Cardinality(rawHits') = 0
        BY <1>1, <1>7, Zenon
      <4>2. 0 <= HitLimit
        BY SearchNumbers
      <4>3. rawHits' \subseteq FoundCard
        BY <1>1
      <4> QED BY <4>1, <4>2, <4>3, Zenon
    <3>2. SearchTypes
      BY DEF SearchInv
    <3>3. UNCHANGED <<searchable, openBoards, granted, disturbed>> /\ searchStep' = "asking" /\ hitCursor' \in 0..FoundCards
      BY <1>1, <2>5, SearchNumbers
    <3> QED BY <1>5, <3>1, <3>2, <3>3 DEF SearchTypes
  <2>8. ShownToCursor'
    <3>1. ASSUME NEW k \in 1..Len(pagesShown'), NEW d \in pagesShown'[k] PROVE d <= last
      <4>1. CASE k \in 1..Len(pagesShown)
        <5>1. d \in pagesShown[k] /\ d <= hitCursor /\ d \in FoundCard
          <6>1. d \in pagesShown[k]
            BY <1>6, <3>1, <4>1
          <6>2. pagesShown[k] \in SUBSET FoundCard
            <7>1. pagesShown \in Seq(SUBSET FoundCard)
              BY DEF SearchInv, SearchTypes
            <7> QED BY <4>1, <7>1
          <6>3. d <= hitCursor
            BY <1>1, <4>1, <6>1 DEF SearchInv, ShownToCursor
          <6> QED BY <6>1, <6>2, <6>3
        <5> QED BY <2>6, <5>1 DEF FoundCard
      <4>2. CASE k = Len(pagesShown')
        BY <1>6, <2>4, <3>1, <4>2
      <4> QED BY <1>6, <4>1, <4>2
    <3> QED BY <2>5, <3>1 DEF ShownToCursor, HitsRead
  <2>9. ReadFromCursor' /\ SeenSince'
    BY <2>5 DEF ReadFromCursor, SeenSince, HitsRead
  <2>10. ASSUME disturbed = 0, NEW d \in searchable, d <= last, BoardOfFound[d] \in Visible
         PROVE \E k \in 1..Len(pagesShown') : d \in pagesShown'[k]
    <3>1. CASE d <= hitCursor
      <4>1. PICK k \in 1..Len(pagesShown) : d \in pagesShown[k]
        BY <1>1, <2>10, <3>1 DEF SearchInv, NoneLeftOut
      <4> QED BY <1>6, <4>1
    <3>2. CASE d > hitCursor
      <4>1. d \in rawHits
        BY <1>1, <2>1, <2>4, <2>10, <3>2 DEF SearchInv, ReadFromCursor, HitsRead
      <4>2. Len(pagesShown') \in 1..Len(pagesShown') /\ d \in pagesShown'[Len(pagesShown')]
        BY <1>6, <2>1, <4>1
      <4> QED BY <4>2
    <3>3. d \in Nat
      BY SearchNumbers DEF SearchInv, SearchTypes
    <3> QED BY <2>6, <3>1, <3>2, <3>3
  <2>11. NoneLeftOut'
    BY <1>1, <2>5, <2>10 DEF NoneLeftOut, Visible
  <2> QED BY <1>5, <2>7, <2>8, <2>9, <2>11 DEF SearchInv
<1> QED BY <1>8, <1>9

\* Boards are opened, closed, granted and revoked, and documents come and go.
LEMMA DisturbStands == ASSUME SearchInv, Disturb PROVE SearchInv'
<1>1. /\ disturbed' = disturbed + 1 /\ seenOpen' = seenOpen \cup openBoards' \cup granted'
      /\ UNCHANGED <<searchStep, hitCursor, rawHits, allowedByGrant, pagesShown>>
  BY DEF Disturb
<1>2. disturbed \in Nat /\ disturbed' \in Nat /\ disturbed' # 0
  <2>1. disturbed \in Nat
    BY DEF SearchInv, SearchTypes
  <2> QED BY <1>1, <2>1
<1>3. searchable' \subseteq FoundCard /\ openBoards' \subseteq FoundBoard /\ granted' \subseteq FoundBoard
  <2>1. ASSUME NEW S, NEW T \in SUBSET S, NEW x \in S PROVE SymDiff(T, {x}) \subseteq S
    BY DEF SymDiff
  <2>2. searchable \in SUBSET FoundCard /\ openBoards \in SUBSET FoundBoard /\ granted \in SUBSET FoundBoard
    BY DEF SearchInv, SearchTypes
  <2> QED BY <2>1, <2>2 DEF Disturb
<1>4. SearchTypes'
  BY <1>1, <1>2, <1>3 DEF SearchInv, SearchTypes
<1>5. HitsInOrder'
  BY <1>1 DEF SearchInv, HitsInOrder
<1>6. ShownToCursor'
  BY <1>1 DEF SearchInv, ShownToCursor, HitsRead
<1>7. ReadFromCursor' /\ NoneLeftOut'
  BY <1>2 DEF ReadFromCursor, NoneLeftOut
<1>8. SeenSince'
  BY <1>1 DEF SearchInv, SeenSince, HitsRead, Visible
<1> QED BY <1>4, <1>5, <1>6, <1>7, <1>8 DEF SearchInv

\* Each step of a search, and each change meanwhile, keeps the invariant.
LEMMA SearchInductive == SearchInv /\ [SearchNext]_searchVars => SearchInv'
<1> SUFFICES ASSUME SearchInv, [SearchNext]_searchVars PROVE SearchInv'
  OBVIOUS
<1>1. CASE AskIndex
  BY <1>1, AskIndexStands
<1>2. CASE ReadGrants
  BY <1>2, ReadGrantsStands
<1>3. CASE ShowHits
  BY <1>3, ShowHitsStands
<1>4. CASE Disturb
  BY <1>4, DisturbStands
<1>5. CASE UNCHANGED searchVars
  <2>1. UNCHANGED <<searchable, openBoards, granted, searchStep, hitCursor, rawHits, allowedByGrant, pagesShown,
                    disturbed, seenOpen>>
    BY <1>5 DEF searchVars
  <2>2. SearchTypes' /\ HitsInOrder' /\ ShownToCursor'
    BY <2>1 DEF SearchInv, SearchTypes, HitsInOrder, ShownToCursor, HitsRead
  <2>3. ReadFromCursor' /\ NoneLeftOut' /\ SeenSince'
    BY <2>1 DEF SearchInv, ReadFromCursor, NoneLeftOut, SeenSince, HitsRead, Visible
  <2> QED BY <2>2, <2>3 DEF SearchInv
<1> QED BY <1>1, <1>2, <1>3, <1>4, <1>5 DEF SearchNext

\* A page shows only what could be seen at some moment since it was asked for.
LEMMA ShowsVisible ==
    ASSUME SearchInv, [SearchNext]_searchVars, pagesShown' # pagesShown
    PROVE  {BoardOfFound[d] : d \in pagesShown'[Len(pagesShown')]} \subseteq seenOpen
<1>1. CASE AskIndex
  <2>1. pagesShown' = Append(pagesShown, {})
    BY <1>1 DEF AskIndex
  <2>2. pagesShown'[Len(pagesShown')] = {}
    <3>1. pagesShown \in Seq(SUBSET FoundCard) /\ {} \in SUBSET FoundCard
      BY DEF SearchInv, SearchTypes
    <3> QED BY <2>1, <3>1, PageAdded
  <2> QED BY <2>2
<1>2. CASE ShowHits
  <2>1. PICK hits : hits = {d \in rawHits : BoardOfFound[d] \in Allowed}
    OBVIOUS
  <2>2. pagesShown' = Append(pagesShown, hits) /\ searchStep = "grants read"
    BY <1>2, <2>1 DEF ShowHits
  <2>3. pagesShown'[Len(pagesShown')] = hits
    <3>1. hits \in SUBSET FoundCard
      BY <2>1 DEF SearchInv, SearchTypes
    <3>2. pagesShown \in Seq(SUBSET FoundCard)
      BY DEF SearchInv, SearchTypes
    <3>3. PICK more : more = pagesShown'
      OBVIOUS
    <3>4. more = Append(pagesShown, hits)
      BY <2>2, <3>3
    <3>5. more[Len(more)] = hits
      BY <3>1, <3>2, <3>4, PageAdded
    <3> QED BY <3>3, <3>5, Zenon
  <2>4. Allowed \subseteq seenOpen
    BY <2>2 DEF SearchInv, SeenSince, HitsRead, Visible, Allowed
  <2> QED BY <2>1, <2>3, <2>4
<1> QED BY <1>1, <1>2 DEF SearchNext, ReadGrants, Disturb, searchVars

\* The pages of a search (what PagesAreSound says of them): the hits come once and in
\* order whatever changes between the pages, while nothing changes none is skipped that the
\* caller may see, and none is shown of a board that could not be seen since the page was
\* asked for.
THEOREM SearchSound == SearchSpec => [](HitsInOrder /\ NoneSkipped) /\ HitsWereVisible
<1>1. SearchInit => SearchInv
  BY InitSearchInv
<1>2. SearchInv /\ [SearchNext]_searchVars => SearchInv'
  BY SearchInductive
<1>3. SearchInv => HitsInOrder /\ NoneSkipped
  BY DEF SearchInv, NoneLeftOut, NoneSkipped
<1>4. SearchInv /\ [SearchNext]_searchVars =>
          [pagesShown' # pagesShown =>
              {BoardOfFound[d] : d \in pagesShown'[Len(pagesShown')]} \subseteq seenOpen]_searchVars
  BY ShowsVisible
<1> QED BY <1>1, <1>2, <1>3, <1>4, PTL DEF SearchSpec, HitsWereVisible

-----------------------------------------------------------------------------
(***************************************************************************)
(* Paging: the pages of a listing.                                         *)
(***************************************************************************)
Once(s) == \A i, j \in 1..Len(s) : s[i] = s[j] => i = j

StandsIn(s, a) == \E i \in 1..Len(s) : s[i] = a

Before(s, a, b) == \E i, j \in 1..Len(s) : i < j /\ s[i] = a /\ s[j] = b

\* Rows that were there at first and that nothing has touched.
Staying == (1..(PagedRows - 1)) \ touched

\* A listing with this cursor is beyond a row.
PassedBy(row, mark) ==
    IF listing = "cards" THEN row = mark \/ Before(order, row, mark) ELSE idOf[row] <= idOf[mark]

Passed(row) == cursor # NoCursor /\ PassedBy(row, cursor)

PagingTypes ==
    /\ listing \in {"cards", "comments"}
    /\ idOf \in [PageRow -> PageRow] /\ \A a, b \in PageRow : idOf[a] = idOf[b] => a = b
    /\ order \in Seq(PageRow) /\ cursor \in {NoCursor} \cup PageRow /\ pages \in Seq(PageRow)

\* No row is twice in the order, the last one comes once, and comments are in the order of
\* their ids.
OrderStands ==
    /\ Once(order)
    /\ StandsIn(order, PagedRows) => PagedRows \in touched
    /\ listing = "comments" => ~Inverted(order)

\* The card of the cursor is still there, and so are the rows that were left alone.
RowsStay ==
    /\ listing = "cards" /\ cursor # NoCursor => StandsIn(order, cursor)
    /\ \A u \in Staying : StandsIn(order, u)

\* Of those, the rows that the listing has passed were listed, once, and no others.
ListedSoFar ==
    \A u \in Staying :
        /\ StandsIn(pages, u) <=> Passed(u)
        /\ \A i, j \in 1..Len(pages) : pages[i] = u /\ pages[j] = u => i = j

ListingOn == ended = FALSE /\ upset = FALSE /\ PagingTypes /\ OrderStands /\ RowsStay /\ ListedSoFar

IsDone == ended = TRUE /\ \A u \in Staying : TimesListed(u) = 1

PageInv == upset = TRUE \/ ListingOn \/ IsDone

\* The numbers of the model: the rows that may stay are rows, and the cursor of none is not one.
LEMMA PageNumbers ==
    /\ PagedRows \in Nat /\ PagedRows \in PageRow /\ PageLimit \in Nat /\ PageLimit >= 1
    /\ \A u \in 1..(PagedRows - 1) : u \in PageRow /\ u # PagedRows
    /\ NoCursor \notin PageRow /\ PageRow \subseteq Nat
BY PagingAssumption DEF PageRow, NoCursor

\* Rows after rows.
LEMMA RowsAfterRows ==
    ASSUME NEW a \in Seq(PageRow), NEW b \in Seq(PageRow)
    PROVE  /\ a \o b \in Seq(PageRow) /\ Len(a \o b) = Len(a) + Len(b)
           /\ \A k \in 1..Len(a) : (a \o b)[k] = a[k]
           /\ \A k \in 1..Len(b) : (a \o b)[Len(a) + k] = b[k]
<1>1. /\ a \o b \in Seq(PageRow) /\ Len(a \o b) = Len(a) + Len(b)
      /\ \A i \in 1..(Len(a) + Len(b)) : (a \o b)[i] = IF i <= Len(a) THEN a[i] ELSE b[i - Len(a)]
  BY ConcatProperties
<1>2. Len(a) \in Nat /\ Len(b) \in Nat
  OBVIOUS
<1>3. PICK c : c = a \o b
  OBVIOUS
<1>4. \A i \in 1..(Len(a) + Len(b)) : c[i] = IF i <= Len(a) THEN a[i] ELSE b[i - Len(a)]
  BY <1>1, <1>3
<1>5. \A k \in 1..Len(b) : c[Len(a) + k] = b[k]
  BY <1>2, <1>4
<1>6. \A k \in 1..Len(a) : c[k] = a[k]
  BY <1>2, <1>4
<1> QED BY <1>1, <1>3, <1>5, <1>6

\* A row that comes is at its place, and those behind it one further.
LEMMA PutAtIs ==
    ASSUME NEW s \in Seq(PageRow), NEW i \in 1..(Len(s) + 1), NEW row \in PageRow
    PROVE  /\ PutAt(s, i, row) \in Seq(PageRow) /\ Len(PutAt(s, i, row)) = Len(s) + 1 /\ PutAt(s, i, row)[i] = row
           /\ \A k \in 1..Len(s) : (k < i => PutAt(s, i, row)[k] = s[k]) /\ (k >= i => PutAt(s, i, row)[k + 1] = s[k])
<1>1. Len(s) \in Nat /\ i \in Nat /\ \A k \in 1..Len(s) : s[k] \in PageRow
  OBVIOUS
<1>2. PICK front : front = SubSeq(s, 1, i - 1)
  OBVIOUS
<1>3. PICK rest : rest = SubSeq(s, i, Len(s))
  OBVIOUS
<1>4. /\ front \in Seq(PageRow) /\ Len(front) = i - 1
      /\ \A k \in 1..(i - 1) : front[k] = s[k]
  <2>1. 1 \in Int /\ i - 1 \in Int /\ \A k \in 1..(i - 1) : s[k] \in PageRow
    BY <1>1
  <2>2. /\ SubSeq(s, 1, i - 1) \in Seq(PageRow)
        /\ Len(SubSeq(s, 1, i - 1)) = IF 1 <= i - 1 THEN (i - 1) - 1 + 1 ELSE 0
        /\ \A k \in 1..((i - 1) - 1 + 1) : SubSeq(s, 1, i - 1)[k] = s[1 + k - 1]
    BY <2>1, SubSeqProperties
  <2> QED BY <1>1, <1>2, <2>2
<1>5. /\ rest \in Seq(PageRow) /\ Len(rest) = Len(s) - i + 1
      /\ \A k \in 1..(Len(s) - i + 1) : rest[k] = s[i + k - 1]
  <2>1. i \in Int /\ Len(s) \in Int /\ \A k \in i..Len(s) : s[k] \in PageRow
    BY <1>1
  <2>2. /\ SubSeq(s, i, Len(s)) \in Seq(PageRow)
        /\ Len(SubSeq(s, i, Len(s))) = IF i <= Len(s) THEN Len(s) - i + 1 ELSE 0
        /\ \A k \in 1..(Len(s) - i + 1) : SubSeq(s, i, Len(s))[k] = s[i + k - 1]
    BY <2>1, SubSeqProperties
  <2> QED BY <1>1, <1>3, <2>2
<1>6. PICK one : one = <<row>>
  OBVIOUS
<1>7. one \in Seq(PageRow) /\ Len(one) = 1 /\ one[1] = row
  BY <1>6
<1>8. PICK both : both = front \o one
  OBVIOUS
<1>9. /\ both \in Seq(PageRow) /\ Len(both) = i
      /\ \A k \in 1..i : both[k] = IF k <= i - 1 THEN front[k] ELSE one[k - (i - 1)]
  <2>1. /\ front \o one \in Seq(PageRow) /\ Len(front \o one) = Len(front) + Len(one)
        /\ \A k \in 1..Len(front) : (front \o one)[k] = front[k]
        /\ \A k \in 1..Len(one) : (front \o one)[Len(front) + k] = one[k]
    BY <1>4, <1>7, RowsAfterRows
  <2>2. both[Len(front) + 1] = one[1]
    BY <1>7, <1>8, <2>1
  <2> QED BY <1>1, <1>4, <1>7, <1>8, <2>1, <2>2
<1>10. PICK all : all = both \o rest
  OBVIOUS
<1>11. /\ all \in Seq(PageRow) /\ Len(all) = i + (Len(s) - i + 1)
       /\ \A k \in 1..(i + (Len(s) - i + 1)) : all[k] = IF k <= i THEN both[k] ELSE rest[k - i]
  <2>1. /\ both \o rest \in Seq(PageRow) /\ Len(both \o rest) = Len(both) + Len(rest)
        /\ \A k \in 1..Len(both) : (both \o rest)[k] = both[k]
        /\ \A k \in 1..Len(rest) : (both \o rest)[Len(both) + k] = rest[k]
    BY <1>5, <1>9, RowsAfterRows
  <2>2. ASSUME NEW k \in 1..(i + (Len(s) - i + 1)), ~(k <= i) PROVE all[k] = rest[k - i]
    <3>1. k - i \in 1..Len(rest) /\ Len(both) + (k - i) = k
      BY <1>1, <1>5, <1>9, <2>2
    <3> QED BY <1>10, <2>1, <3>1
  <2> QED BY <1>1, <1>5, <1>9, <1>10, <2>1, <2>2
<1>12. PutAt(s, i, row) = all
  BY <1>2, <1>3, <1>6, <1>8, <1>10 DEF PutAt
<1>13. Len(all) = Len(s) + 1 /\ all[i] = row
  <2>1. all[i] = both[i]
    BY <1>1, <1>11
  <2>2. both[i] = one[1]
    BY <1>1, <1>9
  <2> QED BY <1>1, <1>7, <1>11, <2>1, <2>2
<1>14. ASSUME NEW k \in 1..Len(s), k < i PROVE all[k] = s[k]
  <2>1. all[k] = both[k]
    BY <1>1, <1>11, <1>14
  <2>2. both[k] = front[k]
    BY <1>1, <1>9, <1>14
  <2> QED BY <1>1, <1>4, <1>14, <2>1, <2>2
<1>15. ASSUME NEW k \in 1..Len(s), k >= i PROVE all[k + 1] = s[k]
  <2>1. all[k + 1] = rest[k + 1 - i]
    BY <1>1, <1>11, <1>15
  <2>2. rest[k + 1 - i] = s[i + (k + 1 - i) - 1]
    BY <1>1, <1>5, <1>15
  <2> QED BY <1>1, <1>15, <2>1, <2>2
<1> QED BY <1>11, <1>12, <1>13, <1>14, <1>15

\* A row that goes leaves the others in their order.
LEMMA WithoutIs ==
    ASSUME order \in Seq(PageRow), NEW p \in 1..Len(order), PlaceOf(order[p]) = p
    PROVE  /\ Without(order[p]) \in Seq(PageRow) /\ Len(Without(order[p])) = Len(order) - 1
           /\ \A k \in 1..(Len(order) - 1) :
                  Without(order[p])[k] = IF k < p THEN order[k] ELSE order[k + 1]
<1>1. Len(order) \in Nat /\ p \in Nat /\ \A k \in 1..Len(order) : order[k] \in PageRow
  OBVIOUS
<1>2. PICK front : front = SubSeq(order, 1, p - 1)
  OBVIOUS
<1>3. PICK rest : rest = SubSeq(order, p + 1, Len(order))
  OBVIOUS
<1>4. /\ front \in Seq(PageRow) /\ Len(front) = p - 1
      /\ \A k \in 1..(p - 1) : front[k] = order[k]
  <2>1. 1 \in Int /\ p - 1 \in Int /\ \A k \in 1..(p - 1) : order[k] \in PageRow
    BY <1>1
  <2>2. /\ SubSeq(order, 1, p - 1) \in Seq(PageRow)
        /\ Len(SubSeq(order, 1, p - 1)) = IF 1 <= p - 1 THEN (p - 1) - 1 + 1 ELSE 0
        /\ \A k \in 1..((p - 1) - 1 + 1) : SubSeq(order, 1, p - 1)[k] = order[1 + k - 1]
    BY <2>1, SubSeqProperties
  <2> QED BY <1>1, <1>2, <2>2
<1>5. /\ rest \in Seq(PageRow) /\ Len(rest) = Len(order) - p
      /\ \A k \in 1..(Len(order) - p) : rest[k] = order[p + k]
  <2>1. p + 1 \in Int /\ Len(order) \in Int /\ \A k \in (p + 1)..Len(order) : order[k] \in PageRow
    BY <1>1
  <2>2. /\ SubSeq(order, p + 1, Len(order)) \in Seq(PageRow)
        /\ Len(SubSeq(order, p + 1, Len(order))) = IF p + 1 <= Len(order) THEN Len(order) - (p + 1) + 1 ELSE 0
        /\ \A k \in 1..(Len(order) - (p + 1) + 1) : SubSeq(order, p + 1, Len(order))[k] = order[(p + 1) + k - 1]
    BY <2>1, SubSeqProperties
  <2>3. ASSUME NEW k \in 1..(Len(order) - p) PROVE rest[k] = order[p + k]
    <3>1. k \in 1..(Len(order) - (p + 1) + 1) /\ (p + 1) + k - 1 = p + k
      BY <1>1
    <3> QED BY <1>3, <2>2, <3>1
  <2> QED BY <1>1, <1>3, <2>2, <2>3
<1>6. PICK left : left = front \o rest
  OBVIOUS
<1>7. /\ left \in Seq(PageRow) /\ Len(left) = (p - 1) + (Len(order) - p)
      /\ \A k \in 1..((p - 1) + (Len(order) - p)) : left[k] = IF k <= p - 1 THEN front[k] ELSE rest[k - (p - 1)]
  <2>1. /\ front \o rest \in Seq(PageRow) /\ Len(front \o rest) = Len(front) + Len(rest)
        /\ \A k \in 1..Len(front) : (front \o rest)[k] = front[k]
        /\ \A k \in 1..Len(rest) : (front \o rest)[Len(front) + k] = rest[k]
    BY <1>4, <1>5, RowsAfterRows
  <2>2. ASSUME NEW k \in 1..((p - 1) + (Len(order) - p)), ~(k <= p - 1) PROVE left[k] = rest[k - (p - 1)]
    <3>1. k - (p - 1) \in 1..Len(rest) /\ Len(front) + (k - (p - 1)) = k
      <4>1. k \in Nat /\ k >= p /\ k <= Len(order) - 1
        BY <1>1, <2>2
      <4> QED BY <1>1, <1>4, <1>5, <4>1
    <3> QED BY <1>6, <2>1, <3>1
  <2> QED BY <1>1, <1>4, <1>5, <1>6, <2>1, <2>2
<1>8. Without(order[p]) = left
  BY <1>2, <1>3, <1>6 DEF Without
<1>9. ASSUME NEW k \in 1..(Len(order) - 1) PROVE left[k] = IF k < p THEN order[k] ELSE order[k + 1]
  <2>1. CASE k < p
    <3>1. left[k] = front[k]
      BY <1>1, <1>7, <2>1
    <3> QED BY <1>1, <1>4, <2>1, <3>1
  <2>2. CASE k >= p
    <3>1. left[k] = rest[k - (p - 1)]
      BY <1>1, <1>7, <2>2, SMTT(40)
    <3>2. rest[k - (p - 1)] = order[p + (k - (p - 1))]
      BY <1>1, <1>5, <2>2
    <3> QED BY <1>1, <2>2, <3>1, <3>2
  <2> QED BY <1>1, <2>1, <2>2
<1>10. Len(left) = Len(order) - 1
  BY <1>1, <1>7
<1> QED BY <1>7, <1>8, <1>9, <1>10

\* How a row that comes stands among the others: their order stays.
LEMMA PutAtStands ==
    ASSUME NEW s \in Seq(PageRow), Once(s), NEW i \in 1..(Len(s) + 1), NEW row \in PageRow, ~StandsIn(s, row)
    PROVE  /\ Once(PutAt(s, i, row)) /\ PutAt(s, i, row) \in Seq(PageRow)
           /\ \A a : StandsIn(PutAt(s, i, row), a) <=> (a = row \/ StandsIn(s, a))
           /\ \A a, b : a # row /\ b # row => (Before(PutAt(s, i, row), a, b) <=> Before(s, a, b))
<1>1. PICK t : t = PutAt(s, i, row)
  OBVIOUS
<1>2. /\ t \in Seq(PageRow) /\ Len(t) = Len(s) + 1 /\ t[i] = row
      /\ \A k \in 1..Len(s) : (k < i => t[k] = s[k]) /\ (k >= i => t[k + 1] = s[k])
  BY <1>1, PutAtIs
<1>3. Len(s) \in Nat /\ i \in Nat /\ i \in 1..Len(t)
  BY <1>2
<1>4. ASSUME NEW k \in 1..Len(s) PROVE \E m \in 1..Len(t) : m # i /\ t[m] = s[k] /\ m = IF k < i THEN k ELSE k + 1
  <2>1. CASE k < i
    BY <1>2, <1>3, <2>1
  <2>2. CASE k >= i
    <3>1. k + 1 \in 1..Len(t) /\ t[k + 1] = s[k] /\ k + 1 # i /\ ~(k < i)
      BY <1>2, <1>3, <2>2
    <3> QED BY <3>1
  <2> QED BY <1>3, <2>1, <2>2
<1>5. ASSUME NEW m \in 1..Len(t), m # i PROVE \E k \in 1..Len(s) : t[m] = s[k] /\ k = IF m < i THEN m ELSE m - 1
  <2>1. CASE m < i
    BY <1>2, <1>3, <2>1
  <2>2. CASE m > i
    <3>1. m - 1 \in 1..Len(s) /\ m - 1 >= i /\ (m - 1) + 1 = m /\ ~(m < i)
      BY <1>2, <1>3, <2>2
    <3>2. t[m] = s[m - 1]
      BY <1>2, <3>1
    <3> QED BY <3>1, <3>2
  <2> QED BY <1>3, <1>5, <2>1, <2>2
<1>6. \A k \in 1..Len(s) : s[k] # row
  BY DEF StandsIn
<1>7. \A a : StandsIn(t, a) <=> (a = row \/ StandsIn(s, a))
  <2>1. ASSUME NEW a, StandsIn(t, a) PROVE a = row \/ StandsIn(s, a)
    <3>1. PICK m \in 1..Len(t) : t[m] = a
      BY <2>1 DEF StandsIn
    <3>2. CASE m = i
      BY <1>2, <3>1, <3>2
    <3>3. CASE m # i
      <4>1. PICK k \in 1..Len(s) : t[m] = s[k]
        BY <1>5, <3>3
      <4> QED BY <3>1, <4>1 DEF StandsIn
    <3> QED BY <3>2, <3>3
  <2>2. StandsIn(t, row)
    BY <1>2, <1>3 DEF StandsIn
  <2>3. ASSUME NEW a, StandsIn(s, a) PROVE StandsIn(t, a)
    <3>1. PICK k \in 1..Len(s) : s[k] = a
      BY <2>3 DEF StandsIn
    <3>2. PICK m \in 1..Len(t) : t[m] = s[k]
      BY <1>4
    <3> QED BY <3>1, <3>2 DEF StandsIn
  <2> QED BY <2>1, <2>2, <2>3
<1>8. Once(t)
  <2>1. ASSUME NEW m \in 1..Len(t), NEW n \in 1..Len(t), t[m] = t[n] PROVE m = n
    <3>1. CASE m = i
      <4>1. n = i
        <5>1. SUFFICES ASSUME n # i PROVE FALSE
          OBVIOUS
        <5>2. PICK k \in 1..Len(s) : t[n] = s[k]
          BY <1>5, <5>1
        <5> QED BY <1>2, <1>6, <2>1, <3>1, <5>2
      <4> QED BY <3>1, <4>1
    <3>2. CASE n = i
      <4>1. m = i
        <5>1. SUFFICES ASSUME m # i PROVE FALSE
          OBVIOUS
        <5>2. PICK k \in 1..Len(s) : t[m] = s[k]
          BY <1>5, <5>1
        <5> QED BY <1>2, <1>6, <2>1, <3>2, <5>2
      <4> QED BY <3>2, <4>1
    <3>3. CASE m # i /\ n # i
      <4>1. PICK k \in 1..Len(s) : t[m] = s[k] /\ k = IF m < i THEN m ELSE m - 1
        BY <1>5, <3>3
      <4>2. PICK j \in 1..Len(s) : t[n] = s[j] /\ j = IF n < i THEN n ELSE n - 1
        BY <1>5, <3>3
      <4>3. k = j
        BY <2>1, <4>1, <4>2 DEF Once
      <4> QED BY <1>3, <3>3, <4>1, <4>2, <4>3
    <3> QED BY <3>1, <3>2, <3>3
  <2> QED BY <2>1 DEF Once
<1>9. ASSUME NEW a, NEW b, a # row, b # row PROVE Before(t, a, b) <=> Before(s, a, b)
  <2>1. ASSUME Before(s, a, b) PROVE Before(t, a, b)
    <3>1. PICK k \in 1..Len(s), j \in 1..Len(s) : k < j /\ s[k] = a /\ s[j] = b
      BY <2>1 DEF Before
    <3>2. PICK m \in 1..Len(t) : t[m] = s[k] /\ m = IF k < i THEN k ELSE k + 1
      BY <1>4
    <3>3. PICK n \in 1..Len(t) : t[n] = s[j] /\ n = IF j < i THEN j ELSE j + 1
      BY <1>4
    <3>4. m < n
      BY <1>3, <3>1, <3>2, <3>3
    <3> QED BY <3>1, <3>2, <3>3, <3>4 DEF Before
  <2>2. ASSUME Before(t, a, b) PROVE Before(s, a, b)
    <3>1. PICK m \in 1..Len(t), n \in 1..Len(t) : m < n /\ t[m] = a /\ t[n] = b
      BY <2>2 DEF Before
    <3>2. m # i /\ n # i
      BY <1>2, <1>9, <3>1
    <3>3. PICK k \in 1..Len(s) : t[m] = s[k] /\ k = IF m < i THEN m ELSE m - 1
      BY <1>5, <3>2
    <3>4. PICK j \in 1..Len(s) : t[n] = s[j] /\ j = IF n < i THEN n ELSE n - 1
      BY <1>5, <3>2
    <3>5. k < j
      BY <1>3, <3>1, <3>2, <3>3, <3>4
    <3> QED BY <3>1, <3>3, <3>4, <3>5 DEF Before
  <2> QED BY <2>1, <2>2
<1> QED BY <1>1, <1>2, <1>7, <1>8, <1>9

\* In an order that has no row twice, the place of a row is found.
LEMMA PlaceFound ==
    ASSUME order \in Seq(PageRow), Once(order), NEW p \in 1..Len(order)
    PROVE  PlaceOf(order[p]) = p
<1>1. DOMAIN order = 1..Len(order)
  OBVIOUS
<1> QED BY <1>1 DEF Once, PlaceOf

\* How the others stand when a row goes: as they stood.
LEMMA WithoutStands ==
    ASSUME order \in Seq(PageRow), Once(order), NEW row, StandsIn(order, row)
    PROVE  /\ Once(Without(row)) /\ Without(row) \in Seq(PageRow) /\ Len(Without(row)) = Len(order) - 1
           /\ \A a : StandsIn(Without(row), a) <=> (a # row /\ StandsIn(order, a))
           /\ \A a, b : a # row /\ b # row => (Before(Without(row), a, b) <=> Before(order, a, b))
<1>1. PICK p \in 1..Len(order) : order[p] = row
  BY DEF StandsIn
<1>2. PICK t : t = Without(row)
  OBVIOUS
<1>3. PlaceOf(order[p]) = p
  BY PlaceFound
<1>4. /\ t \in Seq(PageRow) /\ Len(t) = Len(order) - 1
      /\ \A k \in 1..(Len(order) - 1) : t[k] = IF k < p THEN order[k] ELSE order[k + 1]
  <2>1. /\ Without(order[p]) \in Seq(PageRow) /\ Len(Without(order[p])) = Len(order) - 1
        /\ \A k \in 1..(Len(order) - 1) : Without(order[p])[k] = IF k < p THEN order[k] ELSE order[k + 1]
    BY <1>3, WithoutIs
  <2> QED BY <1>1, <1>2, <2>1
<1>5. Len(order) \in Nat /\ p \in Nat
  OBVIOUS
<1>6. ASSUME NEW k \in 1..Len(t)
      PROVE \E m \in 1..Len(order) : m # p /\ t[k] = order[m] /\ m = IF k < p THEN k ELSE k + 1
  <2>1. CASE k < p
    BY <1>4, <1>5, <2>1
  <2>2. CASE k >= p
    <3>1. k + 1 \in 1..Len(order) /\ t[k] = order[k + 1] /\ k + 1 # p /\ ~(k < p)
      BY <1>4, <1>5, <2>2
    <3> QED BY <3>1
  <2> QED BY <1>4, <1>5, <2>1, <2>2
<1>7. ASSUME NEW m \in 1..Len(order), m # p
      PROVE \E k \in 1..Len(t) : t[k] = order[m] /\ k = IF m < p THEN m ELSE m - 1
  <2>1. CASE m < p
    BY <1>4, <1>5, <2>1
  <2>2. CASE m > p
    <3>1. m - 1 \in 1..Len(t) /\ ~(m - 1 < p) /\ (m - 1) + 1 = m /\ ~(m < p)
      BY <1>4, <1>5, <2>2
    <3>2. t[m - 1] = order[m]
      BY <1>4, <3>1
    <3> QED BY <3>1, <3>2
  <2> QED BY <1>5, <1>7, <2>1, <2>2
<1>8. \A a : StandsIn(t, a) <=> (a # row /\ StandsIn(order, a))
  <2>1. ASSUME NEW a, StandsIn(t, a) PROVE a # row /\ StandsIn(order, a)
    <3>1. PICK k \in 1..Len(t) : t[k] = a
      BY <2>1 DEF StandsIn
    <3>2. PICK m \in 1..Len(order) : m # p /\ t[k] = order[m]
      BY <1>6
    <3> QED BY <1>1, <3>1, <3>2 DEF StandsIn, Once
  <2>2. ASSUME NEW a, a # row, StandsIn(order, a) PROVE StandsIn(t, a)
    <3>1. PICK m \in 1..Len(order) : order[m] = a
      BY <2>2 DEF StandsIn
    <3>2. PICK k \in 1..Len(t) : t[k] = order[m]
      BY <1>1, <1>7, <2>2, <3>1
    <3> QED BY <3>1, <3>2 DEF StandsIn
  <2> QED BY <2>1, <2>2
<1>9. Once(t)
  <2>1. ASSUME NEW k \in 1..Len(t), NEW j \in 1..Len(t), t[k] = t[j] PROVE k = j
    <3>1. PICK m \in 1..Len(order) : t[k] = order[m] /\ m = IF k < p THEN k ELSE k + 1
      BY <1>6
    <3>2. PICK n \in 1..Len(order) : t[j] = order[n] /\ n = IF j < p THEN j ELSE j + 1
      BY <1>6
    <3>3. m = n
      BY <2>1, <3>1, <3>2 DEF Once
    <3>4. k \in Nat /\ j \in Nat
      BY <1>4
    <3> QED BY <1>5, <3>1, <3>2, <3>3, <3>4
  <2> QED BY <2>1 DEF Once
<1>10. ASSUME NEW a, NEW b, a # row, b # row PROVE Before(t, a, b) <=> Before(order, a, b)
  <2>1. ASSUME Before(t, a, b) PROVE Before(order, a, b)
    <3>1. PICK k \in 1..Len(t), j \in 1..Len(t) : k < j /\ t[k] = a /\ t[j] = b
      BY <2>1 DEF Before
    <3>2. PICK m \in 1..Len(order) : t[k] = order[m] /\ m = IF k < p THEN k ELSE k + 1
      BY <1>6
    <3>3. PICK n \in 1..Len(order) : t[j] = order[n] /\ n = IF j < p THEN j ELSE j + 1
      BY <1>6
    <3>4. m < n
      BY <1>4, <1>5, <3>1, <3>2, <3>3
    <3> QED BY <3>1, <3>2, <3>3, <3>4 DEF Before
  <2>2. ASSUME Before(order, a, b) PROVE Before(t, a, b)
    <3>1. PICK m \in 1..Len(order), n \in 1..Len(order) : m < n /\ order[m] = a /\ order[n] = b
      BY <2>2 DEF Before
    <3>2. m # p /\ n # p
      BY <1>1, <1>10, <3>1
    <3>3. PICK k \in 1..Len(t) : t[k] = order[m] /\ k = IF m < p THEN m ELSE m - 1
      BY <1>7, <3>2
    <3>4. PICK j \in 1..Len(t) : t[j] = order[n] /\ j = IF n < p THEN n ELSE n - 1
      BY <1>7, <3>2
    <3>5. k < j
      BY <1>5, <3>1, <3>2, <3>3, <3>4
    <3> QED BY <3>1, <3>3, <3>4, <3>5 DEF Before
  <2> QED BY <2>1, <2>2
<1> QED BY <1>2, <1>4, <1>8, <1>9, <1>10

\* What comes before the row of a cursor, or is it, lies up to its place.
LEMMA PassedUpTo ==
    ASSUME PagingTypes, OrderStands, NEW c \in 1..Len(order), NEW i \in 1..Len(order)
    PROVE  PassedBy(order[i], order[c]) <=> i <= c
<1>1. Once(order) /\ Len(order) \in Nat /\ i \in Nat /\ c \in Nat /\ DOMAIN order = 1..Len(order)
  BY DEF OrderStands, PagingTypes
<1>2. CASE listing = "cards"
  <2>1. ASSUME Before(order, order[i], order[c]) PROVE i < c
    <3>1. PICK k \in 1..Len(order), j \in 1..Len(order) : k < j /\ order[k] = order[i] /\ order[j] = order[c]
      BY <2>1 DEF Before
    <3>2. k = i /\ j = c
      BY <1>1, <3>1 DEF Once
    <3> QED BY <3>1, <3>2
  <2>2. ASSUME i < c PROVE Before(order, order[i], order[c])
    BY <2>2 DEF Before
  <2>3. order[i] = order[c] <=> i = c
    BY <1>1 DEF Once
  <2> QED BY <1>1, <1>2, <2>1, <2>2, <2>3 DEF PassedBy
<1>3. CASE listing = "comments"
  <2>1. \A a, b \in 1..Len(order) : a < b => ~(idOf[order[a]] > idOf[order[b]])
    BY <1>1, <1>3 DEF OrderStands, Inverted
  <2>2. /\ idOf[order[i]] \in Nat /\ idOf[order[c]] \in Nat
        /\ idOf[order[i]] = idOf[order[c]] => order[i] = order[c]
    <3>1. order[i] \in PageRow /\ order[c] \in PageRow
      BY DEF PagingTypes
    <3>2. idOf[order[i]] \in PageRow /\ idOf[order[c]] \in PageRow
      BY <3>1 DEF PagingTypes
    <3> QED BY <3>1, <3>2, PageNumbers DEF PagingTypes
  <2>3. order[i] = order[c] => i = c
    BY <1>1 DEF Once
  <2>4. i < c => ~(idOf[order[i]] > idOf[order[c]])
    BY <2>1
  <2>5. c < i => ~(idOf[order[c]] > idOf[order[i]])
    BY <2>1
  <2>6. PassedBy(order[i], order[c]) <=> idOf[order[i]] <= idOf[order[c]]
    BY <1>3 DEF PassedBy
  <2> QED BY <1>1, <2>2, <2>3, <2>4, <2>5, <2>6
<1> QED BY <1>2, <1>3 DEF PagingTypes

\* What an up-set of places is: those from one on.
LEMMA PlacesFromOneOn ==
    ASSUME NEW n \in Nat, NEW T \in SUBSET (1..n), \A i \in T, j \in 1..n : i <= j => j \in T
    PROVE  \E p \in 0..n : T = (p + 1)..n
<1>1. CASE T = {}
  <2>1. n \in 0..n /\ T = (n + 1)..n
    BY <1>1
  <2> QED BY <2>1
<1>2. CASE T # {}
  <2>1. T \subseteq Nat
    OBVIOUS
  <2>2. PICK x \in T : \A y \in T : x <= y
    BY <1>2, <2>1, LeastNatural
  <2>3. x \in Nat /\ x - 1 \in 0..n /\ (x - 1) + 1 = x
    OBVIOUS
  <2>4. T = x..n
    <3>1. ASSUME NEW y \in T PROVE y \in x..n
      BY <2>1, <2>2
    <3>2. ASSUME NEW y \in x..n PROVE y \in T
      BY <2>2, <2>3
    <3> QED BY <3>1, <3>2
  <2> QED BY <2>3, <2>4
<1> QED BY <1>1, <1>2

\* The comments beyond the cursor are the last ones of the order, when that is the order
\* of the ids (id > cursor).
LEMMA LaterIs ==
    ASSUME PagingTypes, OrderStands, listing = "comments", cursor # NoCursor
    PROVE  \E p \in 0..Len(order) :
              /\ LaterRows = [k \in 1..(Len(order) - p) |-> order[p + k]]
              /\ \A i \in 1..Len(order) : Passed(order[i]) <=> i <= p
<1>1. Len(order) \in Nat /\ DOMAIN order = 1..Len(order) /\ Once(order) /\ cursor \in PageRow
  BY DEF PagingTypes, OrderStands
<1>2. \A row \in PageRow : idOf[row] \in Nat
  <2>1. \A row \in PageRow : idOf[row] \in PageRow
    BY DEF PagingTypes
  <2> QED BY <2>1, PageNumbers
<1>3. \A i \in 1..Len(order) : order[i] \in PageRow /\ idOf[order[i]] \in Nat
  BY <1>2 DEF PagingTypes
<1>4. idOf[cursor] \in Nat
  BY <1>1, <1>2
<1>5. Later = {i \in 1..Len(order) : idOf[order[i]] > idOf[cursor]}
  BY <1>1 DEF Later, NotYet
<1>6. Later \in SUBSET (1..Len(order))
  BY <1>5
<1>7. \A i, j \in 1..Len(order) : i < j => ~(idOf[order[i]] > idOf[order[j]])
  BY <1>1 DEF OrderStands, Inverted
<1>8. ASSUME NEW i \in Later, NEW j \in 1..Len(order), i <= j PROVE j \in Later
  <2>1. i \in 1..Len(order) /\ idOf[order[i]] > idOf[cursor]
    BY <1>5, <1>6
  <2>2. idOf[order[i]] <= idOf[order[j]]
    <3>1. CASE i = j
      BY <1>3, <2>1, <3>1
    <3>2. CASE i < j
      <4>1. ~(idOf[order[i]] > idOf[order[j]])
        BY <1>7, <2>1, <3>2
      <4> QED BY <1>3, <2>1, <4>1
    <3> QED BY <1>1, <1>8, <2>1, <3>1, <3>2
  <2>3. idOf[order[j]] > idOf[cursor]
    BY <1>3, <1>4, <2>1, <2>2
  <2> QED BY <1>5, <1>6, <2>3
<1>9. PICK p \in 0..Len(order) : Later = (p + 1)..Len(order)
  <2>1. Len(order) \in Nat /\ Later \in SUBSET (1..Len(order))
    BY <1>1, <1>6
  <2>2. \A i \in Later, j \in 1..Len(order) : i <= j => j \in Later
    BY <1>8
  <2> QED BY <2>1, <2>2, PlacesFromOneOn
<1>10. p \in Nat
  BY <1>1
<1>11. Cardinality(Later) = Len(order) - p
  <2>1. Cardinality((p + 1)..Len(order)) = IF p + 1 > Len(order) THEN 0 ELSE Len(order) - (p + 1) + 1
    <3>1. p + 1 \in Int /\ Len(order) \in Int
      BY <1>1, <1>10
    <3> QED BY <3>1, FS_Interval
  <2> QED BY <1>1, <1>9, <1>10, <2>1
<1>12. ASSUME NEW k \in 1..(Len(order) - p)
       PROVE (CHOOSE i \in Later : Cardinality({j \in Later : j <= i}) = k) = p + k
  <2>1. ASSUME NEW i \in Later PROVE Cardinality({j \in Later : j <= i}) = i - p
    <3>1. i \in Nat /\ i > p /\ i <= Len(order)
      BY <1>1, <1>9, <1>10
    <3>2. {j \in Later : j <= i} = (p + 1)..i
      BY <1>1, <1>9, <1>10, <3>1
    <3>3. Cardinality((p + 1)..i) = IF p + 1 > i THEN 0 ELSE i - (p + 1) + 1
      <4>1. p + 1 \in Int /\ i \in Int
        BY <1>10, <3>1
      <4> QED BY <4>1, FS_Interval
    <3>4. Cardinality((p + 1)..i) = i - p
      BY <1>10, <3>1, <3>3
    <3> QED BY <3>2, <3>4, Zenon
  <2>2. p + k \in Later /\ (p + k) - p = k
    BY <1>1, <1>9, <1>10
  <2>3. \E i \in Later : Cardinality({j \in Later : j <= i}) = k
    BY <2>1, <2>2
  <2>4. PICK chosen : chosen = CHOOSE i \in Later : Cardinality({j \in Later : j <= i}) = k
    OBVIOUS
  <2>5. chosen \in Later /\ Cardinality({j \in Later : j <= chosen}) = k
    BY <2>3, <2>4
  <2>6. chosen - p = k /\ chosen \in Nat
    <3>1. Cardinality({j \in Later : j <= chosen}) = chosen - p
      BY <2>1, <2>5, Zenon
    <3>2. chosen \in Nat
      BY <1>6, <2>5
    <3> QED BY <2>5, <3>1, <3>2, Zenon
  <2>7. chosen = p + k
    BY <1>10, <2>6
  <2> QED BY <2>4, <2>7, Zenon
<1>13. LaterRows = [k \in 1..(Len(order) - p) |-> order[p + k]]
  <2>1. LaterRows = [k \in 1..Cardinality(Later) |-> order[CHOOSE i \in Later : Cardinality({j \in Later : j <= i}) = k]]
    BY Zenon DEF LaterRows
  <2>2. \A k \in 1..(Len(order) - p) :
            order[CHOOSE i \in Later : Cardinality({j \in Later : j <= i}) = k] = order[p + k]
    BY <1>12, Zenon
  <2>3. 1..Cardinality(Later) = 1..(Len(order) - p)
    BY <1>11, Zenon
  <2> QED BY <2>1, <2>2, <2>3, Zenon
<1>14. ASSUME NEW i \in 1..Len(order) PROVE Passed(order[i]) <=> i <= p
  <2>1. i \in Later <=> ~(i <= p)
    BY <1>1, <1>9, <1>10
  <2>2. i \in Later <=> idOf[order[i]] > idOf[cursor]
    BY <1>5, <1>6
  <2>3. Passed(order[i]) <=> idOf[order[i]] <= idOf[cursor]
    BY DEF Passed, PassedBy
  <2> QED BY <1>3, <1>4, <2>1, <2>2, <2>3
<1> QED BY <1>13, <1>14

\* The rest of a listing that can be relied on: what a query returns without its limit are
\* the rows that the listing has not passed, in their order.
LEMMA RestOfListing ==
    ASSUME ListingOn, NEW rows \in Candidates
    PROVE  \E p \in 0..Len(order) :
              /\ rows \in Seq(PageRow) /\ Len(rows) = Len(order) - p
              /\ \A k \in 1..Len(rows) : rows[k] = order[p + k]
              /\ \A i \in 1..Len(order) : Passed(order[i]) <=> i <= p
<1>1. PagingTypes /\ OrderStands /\ RowsStay
  BY DEF ListingOn
<1>2. order \in Seq(PageRow) /\ Len(order) \in Nat /\ DOMAIN order = 1..Len(order) /\ Once(order)
  BY <1>1 DEF PagingTypes, OrderStands
<1>3. \A i \in 1..Len(order) : order[i] \in PageRow
  BY <1>2, SMTT(40)
<1>4. CASE cursor = NoCursor
  <2>1. rows = order
    BY <1>4 DEF Candidates
  <2>2. 0 \in 0..Len(order) /\ \A i \in 1..Len(order) : ~Passed(order[i]) /\ ~(i <= 0)
    BY <1>2, <1>4 DEF Passed
  <2>3. Len(rows) = Len(order) - 0 /\ \A k \in 1..Len(rows) : rows[k] = order[0 + k]
    BY <1>2, <2>1
  <2> QED BY <1>2, <2>1, <2>2, <2>3
<1>5. CASE cursor # NoCursor /\ listing = "comments"
  <2>1. rows = LaterRows
    BY <1>5 DEF Candidates
  <2>2. PICK p \in 0..Len(order) :
              /\ LaterRows = [k \in 1..(Len(order) - p) |-> order[p + k]]
              /\ \A i \in 1..Len(order) : Passed(order[i]) <=> i <= p
    BY <1>1, <1>5, LaterIs
  <2>3. p \in Nat /\ Len(order) - p \in Nat /\ \A k \in 1..(Len(order) - p) : p + k \in 1..Len(order)
    BY <1>2
  <2>4. rows = [k \in 1..(Len(order) - p) |-> order[p + k]]
    BY <2>1, <2>2
  <2>5. rows \in [1..(Len(order) - p) -> PageRow]
    BY <1>3, <2>3, <2>4
  <2>6. rows \in Seq(PageRow) /\ Len(rows) = Len(order) - p
    BY <2>3, <2>5
  <2>7. \A k \in 1..Len(rows) : rows[k] = order[p + k]
    BY <2>4, <2>6
  <2> QED BY <2>2, <2>6, <2>7
<1>6. CASE cursor # NoCursor /\ listing = "cards"
  <2>1. StandsIn(order, cursor)
    BY <1>1, <1>6 DEF RowsStay
  <2>2. PICK p \in 1..Len(order) : order[p] = cursor
    BY <2>1 DEF StandsIn
  <2>3. cursor \in InOrder(order)
    BY <1>2, <2>2 DEF InOrder
  <2>4. rows = SubSeq(order, p + 1, Len(order))
    <3>1. rows = Behind(cursor)
      BY <1>6, <2>3 DEF Candidates
    <3>2. PlaceOf(cursor) = p
      BY <1>2, <2>2, PlaceFound
    <3> QED BY <3>1, <3>2 DEF Behind, From
  <2>5. p \in Nat /\ p \in 0..Len(order) /\ p + 1 \in Int /\ Len(order) \in Int
        /\ \A k \in (p + 1)..Len(order) : order[k] \in PageRow
    BY <1>2, <1>3
  <2>6. /\ SubSeq(order, p + 1, Len(order)) \in Seq(PageRow)
        /\ Len(SubSeq(order, p + 1, Len(order))) = IF p + 1 <= Len(order) THEN Len(order) - (p + 1) + 1 ELSE 0
        /\ \A k \in 1..(Len(order) - (p + 1) + 1) : SubSeq(order, p + 1, Len(order))[k] = order[(p + 1) + k - 1]
    BY <2>5, SubSeqProperties
  <2>7. rows \in Seq(PageRow) /\ Len(rows) = Len(order) - p
    <3>1. CASE p + 1 <= Len(order)
      BY <1>2, <2>4, <2>5, <2>6, <3>1
    <3>2. CASE p = Len(order)
      <4>1. Len(SubSeq(order, p + 1, Len(order))) = 0
        BY <1>2, <2>5, <2>6, <3>2
      <4>2. Len(order) - p = 0
        BY <1>2, <3>2
      <4> QED BY <2>4, <2>6, <4>1, <4>2
    <3>3. p + 1 <= Len(order) \/ p = Len(order)
      <4>1. p <= Len(order)
        BY <1>2, <2>2
      <4>2. p \in Int /\ Len(order) \in Int
        BY <1>2, <2>5
      <4> QED BY <4>1, <4>2
    <3> QED BY <3>1, <3>2, <3>3
  <2>8. ASSUME NEW k \in 1..Len(rows) PROVE rows[k] = order[p + k]
    <3>1. k \in 1..(Len(order) - (p + 1) + 1) /\ (p + 1) + k - 1 = p + k
      BY <1>2, <2>5, <2>7
    <3> QED BY <2>4, <2>6, <3>1
  <2>9. ASSUME NEW i \in 1..Len(order) PROVE Passed(order[i]) <=> i <= p
    <3>1. PassedBy(order[i], order[p]) <=> i <= p
      BY <1>1, PassedUpTo
    <3> QED BY <1>6, <2>2, <3>1 DEF Passed
  <2> QED BY <2>5, <2>7, <2>8, <2>9
<1> QED BY <1>1, <1>4, <1>5, <1>6 DEF PagingTypes

\* The rows of a page come behind those the client got.
LEMMA PageIsListed ==
    ASSUME PagingTypes, NEW rows \in Seq(PageRow), NEW n \in 0..Len(rows), pages' = pages \o SubSeq(rows, 1, n)
    PROVE  /\ pages' \in Seq(PageRow) /\ Len(pages) \in Nat /\ Len(pages') = Len(pages) + n
           /\ \A k \in 1..Len(pages) : pages'[k] = pages[k]
           /\ \A k \in 1..n : pages'[Len(pages) + k] = rows[k]
           /\ n > 0 => SubSeq(rows, 1, n)[Len(SubSeq(rows, 1, n))] = rows[n]
<1>1. PICK page : page = SubSeq(rows, 1, n)
  OBVIOUS
<1>2. pages \in Seq(PageRow) /\ Len(pages) \in Nat /\ Len(rows) \in Nat /\ n \in Nat
  BY DEF PagingTypes
<1>3. page \in Seq(PageRow) /\ Len(page) = n /\ \A k \in 1..n : page[k] = rows[k]
  <2>1. 1 \in Int /\ n \in Int /\ \A k \in 1..n : rows[k] \in PageRow
    BY <1>2
  <2>2. /\ SubSeq(rows, 1, n) \in Seq(PageRow)
        /\ Len(SubSeq(rows, 1, n)) = IF 1 <= n THEN n - 1 + 1 ELSE 0
        /\ \A k \in 1..(n - 1 + 1) : SubSeq(rows, 1, n)[k] = rows[1 + k - 1]
    BY <2>1, SubSeqProperties
  <2>3. Len(page) = n
    <3>1. CASE 1 <= n
      BY <1>1, <1>2, <2>2, <3>1
    <3>2. CASE n = 0
      BY <1>1, <2>2, <3>2
    <3> QED BY <1>2, <3>1, <3>2
  <2>4. ASSUME NEW k \in 1..n PROVE page[k] = rows[k]
    <3>1. k \in 1..(n - 1 + 1) /\ 1 + k - 1 = k
      BY <1>2
    <3> QED BY <1>1, <2>2, <3>1
  <2> QED BY <1>1, <2>2, <2>3, <2>4
<1>4. /\ pages \o page \in Seq(PageRow) /\ Len(pages \o page) = Len(pages) + Len(page)
      /\ \A k \in 1..Len(pages) : (pages \o page)[k] = pages[k]
      /\ \A k \in 1..Len(page) : (pages \o page)[Len(pages) + k] = page[k]
  BY <1>2, <1>3, RowsAfterRows
<1>5. PICK more : more = pages'
  OBVIOUS
<1>6. more = pages \o page
  BY <1>1, <1>5
<1>7. /\ more \in Seq(PageRow) /\ Len(more) = Len(pages) + n
      /\ \A k \in 1..Len(pages) : more[k] = pages[k]
      /\ \A k \in 1..n : more[Len(pages) + k] = rows[k]
  BY <1>3, <1>4, <1>6
<1>8. n > 0 => page[Len(page)] = rows[n]
  BY <1>2, <1>3
<1> QED BY <1>1, <1>2, <1>5, <1>7, <1>8, Zenon

\* Of the rows that were left alone the listing has taken those up to a place, each once.
TakenUpTo(listed, upTo) ==
    /\ listed \in Seq(PageRow)
    /\ \A m \in 1..Len(order) : order[m] \in Staying =>
          /\ StandsIn(listed, order[m]) <=> m <= upTo
          /\ \A i, j \in 1..Len(listed) : listed[i] = order[m] /\ listed[j] = order[m] => i = j

\* A row that a listing has passed is on the page, or it was listed before.
LEMMA PageGoesOn ==
    ASSUME ListingOn, NEW rows \in Candidates, NEW p \in 0..Len(order),
           rows \in Seq(PageRow), Len(rows) = Len(order) - p,
           \A k \in 1..Len(rows) : rows[k] = order[p + k],
           \A i \in 1..Len(order) : Passed(order[i]) <=> i <= p,
           NEW n \in 0..Len(rows), pages' = pages \o SubSeq(rows, 1, n)
    PROVE  /\ pages' \in Seq(PageRow)
           /\ \A m \in 1..Len(order) : order[m] \in Staying =>
                  /\ StandsIn(pages', order[m]) <=> m <= p + n
                  /\ \A i, j \in 1..Len(pages') : pages'[i] = order[m] /\ pages'[j] = order[m] => i = j
<1>1. PagingTypes /\ Once(order) /\ Len(order) \in Nat /\ p \in Nat /\ n \in Nat
  <2>1. PagingTypes /\ Once(order)
    BY DEF ListingOn, OrderStands
  <2>2. Len(order) \in Nat /\ Len(rows) \in Nat
    BY <2>1 DEF PagingTypes
  <2> QED BY <2>1, <2>2
<1>2. PICK more : more = pages'
  OBVIOUS
<1>3. /\ more \in Seq(PageRow) /\ Len(pages) \in Nat /\ Len(more) = Len(pages) + n
      /\ \A k \in 1..Len(pages) : more[k] = pages[k]
      /\ \A k \in 1..n : more[Len(pages) + k] = rows[k]
  BY <1>1, <1>2, PageIsListed
<1>4. ASSUME NEW m \in 1..Len(order), order[m] \in Staying
      PROVE /\ StandsIn(more, order[m]) <=> m <= p + n
            /\ \A i, j \in 1..Len(more) : more[i] = order[m] /\ more[j] = order[m] => i = j
  <2>1. /\ StandsIn(pages, order[m]) <=> m <= p
        /\ \A i, j \in 1..Len(pages) : pages[i] = order[m] /\ pages[j] = order[m] => i = j
    BY <1>4 DEF ListingOn, ListedSoFar
  <2>2. ASSUME NEW i \in 1..Len(more), more[i] = order[m]
        PROVE (i <= Len(pages) /\ i \in 1..Len(pages) /\ pages[i] = order[m] /\ m <= p) \/ (m = p + (i - Len(pages)) /\ m <= p + n)
    <3>1. CASE i <= Len(pages)
      <4>1. i \in 1..Len(pages) /\ pages[i] = order[m]
        BY <1>3, <2>2, <3>1
      <4>2. m <= p
        BY <2>1, <4>1 DEF StandsIn
      <4> QED BY <3>1, <4>1, <4>2
    <3>2. CASE i > Len(pages)
      <4>1. PICK k \in 1..n : k = i - Len(pages)
        <5>1. i - Len(pages) \in 1..n
          BY <1>1, <1>3, <3>2
        <5> QED BY <5>1
      <4>2. i = Len(pages) + k /\ k \in 1..Len(rows) /\ p + k \in 1..Len(order)
        BY <1>1, <1>3, <4>1
      <4>3. order[p + k] = order[m]
        <5>1. more[i] = rows[k]
          BY <1>3, <4>2
        <5>2. rows[k] = order[p + k]
          BY <4>2
        <5> QED BY <2>2, <5>1, <5>2
      <4>4. m = p + k
        BY <1>1, <4>2, <4>3 DEF Once
      <4> QED BY <1>1, <4>1, <4>4
    <3> QED BY <1>3, <3>1, <3>2
  <2>3. ASSUME m <= p + n PROVE StandsIn(more, order[m])
    <3>1. CASE m <= p
      <4>1. PICK i \in 1..Len(pages) : pages[i] = order[m]
        BY <2>1, <3>1 DEF StandsIn
      <4>2. i \in 1..Len(more) /\ more[i] = order[m]
        BY <1>1, <1>3, <4>1
      <4> QED BY <4>2 DEF StandsIn
    <3>2. CASE m > p
      <4>1. PICK k \in 1..n : m = p + k
        <5>1. m - p \in 1..n /\ m = p + (m - p)
          BY <1>1, <2>3, <3>2
        <5> QED BY <5>1
      <4>2. k \in 1..Len(rows) /\ Len(pages) + k \in 1..Len(more)
        BY <1>1, <1>3
      <4>3. more[Len(pages) + k] = order[m]
        BY <1>3, <4>1, <4>2
      <4> QED BY <4>2, <4>3 DEF StandsIn
    <3> QED BY <1>1, <3>1, <3>2
  <2>4. ASSUME StandsIn(more, order[m]) PROVE m <= p + n
    <3>1. PICK i \in 1..Len(more) : more[i] = order[m]
      BY <2>4 DEF StandsIn
    <3> QED BY <1>1, <2>2, <3>1
  <2>5. ASSUME NEW i \in 1..Len(more), NEW j \in 1..Len(more), more[i] = order[m], more[j] = order[m] PROVE i = j
    <3>1. (i <= Len(pages) /\ i \in 1..Len(pages) /\ pages[i] = order[m] /\ m <= p) \/ (m = p + (i - Len(pages)) /\ m <= p + n)
      BY <2>2, <2>5
    <3>2. (j <= Len(pages) /\ j \in 1..Len(pages) /\ pages[j] = order[m] /\ m <= p) \/ (m = p + (j - Len(pages)) /\ m <= p + n)
      BY <2>2, <2>5
    <3>3. CASE m <= p
      <4>1. i <= Len(pages) /\ j <= Len(pages)
        BY <1>1, <1>3, <3>1, <3>2, <3>3, SMTT(40)
      <4>2. i \in 1..Len(pages) /\ pages[i] = order[m] /\ j \in 1..Len(pages) /\ pages[j] = order[m]
        BY <1>3, <2>5, <4>1, SMTT(40)
      <4> QED BY <2>1, <4>2
    <3>4. CASE m > p
      <4>1. m = p + (i - Len(pages)) /\ m = p + (j - Len(pages))
        BY <1>1, <3>1, <3>2, <3>4
      <4>2. i \in Int /\ j \in Int
        BY <1>3
      <4> QED BY <1>1, <1>3, <4>1, <4>2, SMTT(40)
    <3> QED BY <1>1, <3>3, <3>4
  <2> QED BY <2>3, <2>4, <2>5
<1>5. TakenUpTo(more, p + n)
  <2>1. more \in Seq(PageRow)
    BY <1>3
  <2> QED BY <1>4, <2>1 DEF TakenUpTo
<1>6. TakenUpTo(pages', p + n)
  BY <1>2, <1>5
<1> QED BY <1>6 DEF TakenUpTo

\* A page is read: with more to come the listing has passed its rows, and without it has
\* passed them all.
LEMMA ReadPageStands == ASSUME ListingOn, ReadPage PROVE PageInv'
<1>1. PICK rows \in Candidates :
        /\ pages' = pages \o SubSeq(rows, 1, IF Len(rows) > PageLimit THEN PageLimit ELSE Len(rows))
        /\ cursor' = IF HasMore(rows)
                     THEN SubSeq(rows, 1, IF Len(rows) > PageLimit THEN PageLimit ELSE Len(rows))
                              [Len(SubSeq(rows, 1, IF Len(rows) > PageLimit THEN PageLimit ELSE Len(rows)))]
                     ELSE NoCursor
        /\ ended' = ~HasMore(rows)
        /\ UNCHANGED <<listing, idOf, order, away, touched, upset, changes>>
  BY Zenon DEF ReadPage
<1>2. PICK n : n = IF Len(rows) > PageLimit THEN PageLimit ELSE Len(rows)
  OBVIOUS
<1>3. PICK p \in 0..Len(order) :
        /\ rows \in Seq(PageRow) /\ Len(rows) = Len(order) - p
        /\ \A k \in 1..Len(rows) : rows[k] = order[p + k]
        /\ \A i \in 1..Len(order) : Passed(order[i]) <=> i <= p
  BY RestOfListing
<1>4. PagingTypes /\ OrderStands /\ RowsStay /\ upset = FALSE
  BY DEF ListingOn
<1>5. Len(order) \in Nat /\ p \in Nat /\ Len(rows) \in Nat
  <2>1. Len(order) \in Nat
    BY <1>4 DEF PagingTypes
  <2> QED BY <1>3, <2>1
<1>6. n \in 0..Len(rows) /\ n \in Nat
  BY <1>2, <1>5, PageNumbers
<1>7. pages' = pages \o SubSeq(rows, 1, n)
  BY <1>1, <1>2, Zenon
<1>8. /\ pages' \in Seq(PageRow)
      /\ \A m \in 1..Len(order) : order[m] \in Staying =>
             /\ StandsIn(pages', order[m]) <=> m <= p + n
             /\ \A i, j \in 1..Len(pages') : pages'[i] = order[m] /\ pages'[j] = order[m] => i = j
  BY <1>3, <1>6, <1>7, PageGoesOn
<1>9. /\ listing' = listing /\ idOf' = idOf /\ order' = order /\ touched' = touched /\ upset' = FALSE
      /\ Staying' = Staying
  BY <1>1, <1>4 DEF Staying
<1>10. CASE HasMore(rows)
  <2>1. n = PageLimit /\ Len(rows) > n /\ n > 0 /\ p + n \in 1..Len(order)
    BY <1>2, <1>3, <1>5, <1>10, PageNumbers DEF HasMore
  <2>2. SubSeq(rows, 1, n)[Len(SubSeq(rows, 1, n))] = rows[n]
    BY <1>3, <1>4, <1>6, <1>7, <2>1, PageIsListed
  <2>3. rows[n] = order[p + n]
    BY <1>3, <1>6, <2>1
  <2>4. cursor' = order[p + n] /\ cursor' \in PageRow /\ cursor' # NoCursor
    <3>1. cursor' = SubSeq(rows, 1, n)[Len(SubSeq(rows, 1, n))]
      BY <1>1, <1>2, <1>10, Zenon
    <3>2. order[p + n] \in PageRow
      BY <1>4, <2>1 DEF PagingTypes
    <3> QED BY <2>2, <2>3, <3>1, <3>2, PageNumbers
  <2>5. ended' = FALSE
    BY <1>1, <1>10, Zenon
  <2>6. PagingTypes'
    BY <1>4, <1>8, <1>9, <2>4 DEF PagingTypes
  <2>7. OrderStands'
    BY <1>4, <1>9 DEF OrderStands, Once, StandsIn, Inverted
  <2>8. RowsStay'
    BY <1>4, <1>9, <2>1, <2>4 DEF RowsStay, StandsIn
  <2>9. ASSUME NEW u \in Staying
        PROVE /\ StandsIn(pages', u) <=> Passed(u)'
              /\ \A i, j \in 1..Len(pages') : pages'[i] = u /\ pages'[j] = u => i = j
    <3>1. PICK m \in 1..Len(order) : order[m] = u
      BY <1>4 DEF RowsStay, StandsIn
    <3>2. PassedBy(order[m], order[p + n]) <=> m <= p + n
      BY <1>4, <2>1, PassedUpTo
    <3>3. Passed(u)' <=> PassedBy(order[m], order[p + n])
      BY <1>9, <2>4, <3>1 DEF Passed, PassedBy, Before
    <3> QED BY <1>8, <3>1, <3>2, <3>3
  <2>10. ListedSoFar'
    BY <1>9, <2>9 DEF ListedSoFar, StandsIn
  <2> QED BY <1>9, <2>5, <2>6, <2>7, <2>8, <2>10 DEF ListingOn, PageInv
<1>11. CASE ~HasMore(rows)
  <2>1. n = Len(rows) /\ p + n = Len(order)
    BY <1>2, <1>3, <1>5, <1>11 DEF HasMore
  <2>2. ended' = TRUE
    BY <1>1, <1>11, Zenon
  <2>3. ASSUME NEW u \in Staying PROVE TimesListed(u)' = 1
    <3>1. PICK m \in 1..Len(order) : order[m] = u
      BY <1>4 DEF RowsStay, StandsIn
    <3>2. m <= p + n
      BY <1>5, <2>1
    <3>3. PICK i \in 1..Len(pages') : pages'[i] = u
      BY <1>8, <3>1, <3>2 DEF StandsIn
    <3>4. {j \in 1..Len(pages') : pages'[j] = u} = {i}
      BY <1>8, <3>1, <3>3
    <3>5. DOMAIN pages' = 1..Len(pages')
      BY <1>8
    <3>6. {j \in DOMAIN pages' : pages'[j] = u} = {i}
      BY <3>4, <3>5
    <3>7. Cardinality({i}) = 1
      BY FS_Singleton
    <3> QED BY <3>6, <3>7, Zenon DEF TimesListed
  <2> QED BY <1>9, <2>2, <2>3 DEF IsDone, PageInv
<1> QED BY <1>10, <1>11

\* What a change leaves: the rows that none has touched, in their order.  A change of the
\* card of the cursor, or a comment out of the order of the ids, is what upsets a listing.
LEMMA ChangeStands ==
    ASSUME ListingOn, NEW row \in PageRow, touched' = touched \cup {row}, upset' = FALSE,
           UNCHANGED <<listing, idOf, cursor, pages, ended>>,
           order' \in Seq(PageRow), OrderStands',
           listing = "cards" => row # cursor,
           \A a : a # row => (StandsIn(order', a) <=> StandsIn(order, a)),
           \A a, b : a # row /\ b # row => (Before(order', a, b) <=> Before(order, a, b))
    PROVE  PageInv'
<1>1. PagingTypes /\ OrderStands /\ RowsStay /\ ListedSoFar /\ ended = FALSE
  BY DEF ListingOn
<1>2. PagingTypes'
  BY <1>1 DEF PagingTypes
<1>3. Staying' \subseteq Staying /\ row \notin Staying'
  BY DEF Staying
<1>4. RowsStay'
  <2>1. ASSUME listing = "cards", cursor # NoCursor PROVE StandsIn(order', cursor)
    BY <1>1, <2>1 DEF RowsStay
  <2>2. ASSUME NEW u \in Staying' PROVE StandsIn(order', u)
    BY <1>1, <1>3 DEF RowsStay
  <2> QED BY <2>1, <2>2 DEF RowsStay, StandsIn
<1>5. ASSUME NEW u \in Staying' PROVE Passed(u)' <=> Passed(u)
  <2>1. CASE listing = "cards"
    <3>1. u # row /\ cursor # row
      BY <1>3, <2>1
    <3>2. Before(order', u, cursor) <=> Before(order, u, cursor)
      BY <3>1
    <3> QED BY <2>1, <3>2 DEF Passed, PassedBy, Before
  <2>2. CASE listing # "cards"
    BY <2>2 DEF Passed, PassedBy
  <2> QED BY <2>1, <2>2
<1>6. ListedSoFar'
  BY <1>1, <1>3, <1>5 DEF ListedSoFar, StandsIn
<1> QED BY <1>1, <1>2, <1>4, <1>6 DEF ListingOn, PageInv

\* At the start nothing is listed, and all rows but the last are there.
LEMMA InitPageInv == PagingInit => PageInv
<1> SUFFICES ASSUME PagingInit PROVE PageInv
  OBVIOUS
<1>1. order = [i \in 1..(PagedRows - 1) |-> i] /\ pages = <<>> /\ cursor = NoCursor /\ touched = {} /\ ended = FALSE
  BY DEF PagingInit
<1>2. CASE listing = "comments" /\ Inverted(order)
  <2>1. upset = TRUE
    BY <1>2, Zenon DEF PagingInit
  <2> QED BY <2>1 DEF PageInv
<1>3. CASE ~(listing = "comments" /\ Inverted(order))
  <2>1. upset = FALSE
    BY <1>3, Zenon DEF PagingInit
  <2>2. PagedRows - 1 \in Nat
    BY PagingAssumption
  <2>3. order \in Seq(PageRow) /\ Len(order) = PagedRows - 1 /\ \A i \in 1..Len(order) : order[i] = i
    <3>1. order \in [1..(PagedRows - 1) -> PageRow]
      BY <1>1, PageNumbers
    <3> QED BY <1>1, <2>2, <3>1
  <2>4. PagingTypes
    BY <1>1, <2>3 DEF PagingInit, PagingTypes
  <2>5. OrderStands
    <3>1. Once(order)
      BY <2>3 DEF Once
    <3>2. ~StandsIn(order, PagedRows)
      BY <2>3, PageNumbers DEF StandsIn
    <3> QED BY <1>3, <3>1, <3>2 DEF OrderStands
  <2>6. RowsStay
    BY <1>1, <2>3 DEF RowsStay, StandsIn, Staying
  <2>7. ListedSoFar
    BY <1>1 DEF ListedSoFar, StandsIn, Passed
  <2> QED BY <1>1, <2>1, <2>4, <2>5, <2>6, <2>7 DEF ListingOn, PageInv
<1> QED BY <1>2, <1>3

\* The last row is not there before it has come, so no cursor is made of it.
LEMMA CursorIsAnother == ASSUME ListingOn, PagedRows \notin touched PROVE listing = "cards" => PagedRows # cursor
<1>1. ~StandsIn(order, PagedRows)
  BY DEF ListingOn, OrderStands
<1>2. PagedRows # NoCursor
  BY PageNumbers
<1> QED BY <1>1, <1>2 DEF ListingOn, RowsStay

\* A row comes anywhere.
LEMMA RowComesStands == ASSUME ListingOn, RowComes PROVE PageInv'
<1>1. PICK i \in 1..(Len(order) + 1) :
        /\ order' = PutAt(order, i, PagedRows)
        /\ upset' = (upset \/ (listing = "comments" /\ Inverted(PutAt(order, i, PagedRows))))
  BY Zenon DEF RowComes
<1>2. /\ touched' = touched \cup {PagedRows} /\ PagedRows \notin touched
      /\ UNCHANGED <<listing, idOf, cursor, pages, ended>>
  BY DEF RowComes, Changes
<1>3. upset = FALSE /\ PagingTypes /\ OrderStands
  BY DEF ListingOn
<1>4. CASE listing = "comments" /\ Inverted(PutAt(order, i, PagedRows))
  <2>1. upset' = TRUE
    BY <1>1, <1>4, Zenon
  <2> QED BY <2>1 DEF PageInv
<1>5. CASE ~(listing = "comments" /\ Inverted(PutAt(order, i, PagedRows)))
  <2>1. upset' = FALSE
    BY <1>1, <1>3, <1>5, Zenon
  <2>2. order \in Seq(PageRow) /\ Once(order) /\ PagedRows \in PageRow /\ ~StandsIn(order, PagedRows)
    BY <1>2, <1>3, PageNumbers DEF PagingTypes, OrderStands
  <2>3. PICK t : t = PutAt(order, i, PagedRows)
    OBVIOUS
  <2>4. /\ Once(t) /\ t \in Seq(PageRow)
        /\ \A a : StandsIn(t, a) <=> (a = PagedRows \/ StandsIn(order, a))
        /\ \A a, b : a # PagedRows /\ b # PagedRows => (Before(t, a, b) <=> Before(order, a, b))
    BY <2>2, <2>3, PutAtStands
  <2>5. order' = t
    BY <1>1, <2>3
  <2>6. OrderStands'
    <3>1. listing' = "comments" => ~Inverted(t)'
      BY <1>2, <1>5, <2>3 DEF Inverted
    <3> QED BY <1>2, <2>4, <2>5, <3>1 DEF OrderStands, Once, StandsIn, Inverted
  <2>7. listing = "cards" => PagedRows # cursor
    BY <1>2, CursorIsAnother
  <2>8. order' \in Seq(PageRow)
    BY <2>4, <2>5
  <2>9. \A a : a # PagedRows => (StandsIn(order', a) <=> StandsIn(order, a))
    BY <2>4, <2>5
  <2>10. \A a, b : a # PagedRows /\ b # PagedRows => (Before(order', a, b) <=> Before(order, a, b))
    BY <2>4, <2>5
  <2> QED BY <1>2, <2>1, <2>2, <2>6, <2>7, <2>8, <2>9, <2>10, ChangeStands
<1> QED BY <1>4, <1>5

\* What a row that goes leaves behind: an order as before.
LEMMA OrderWithout ==
    ASSUME PagingTypes, OrderStands, NEW row \in PageRow, StandsIn(order, row), order' = Without(row),
           touched' = touched \cup {row}, UNCHANGED <<listing, idOf>>
    PROVE  /\ OrderStands' /\ order' \in Seq(PageRow)
           /\ \A a : a # row => (StandsIn(order', a) <=> StandsIn(order, a))
           /\ \A a, b : a # row /\ b # row => (Before(order', a, b) <=> Before(order, a, b))
<1>1. order \in Seq(PageRow) /\ Once(order)
  BY DEF PagingTypes, OrderStands
<1>2. PICK t : t = Without(row)
  OBVIOUS
<1>3. /\ Once(t) /\ t \in Seq(PageRow)
      /\ \A a : StandsIn(t, a) <=> (a # row /\ StandsIn(order, a))
      /\ \A a, b : a # row /\ b # row => (Before(t, a, b) <=> Before(order, a, b))
  BY <1>1, <1>2, WithoutStands
<1>4. order' = t
  BY <1>2
<1>5. ASSUME listing = "comments", NEW i \in DOMAIN t, NEW j \in DOMAIN t, i < j PROVE ~(idOf[t[i]] > idOf[t[j]])
  <2>1. DOMAIN t = 1..Len(t) /\ DOMAIN order = 1..Len(order)
    BY <1>1, <1>3
  <2>2. StandsIn(t, t[i]) /\ StandsIn(t, t[j]) /\ Before(t, t[i], t[j])
    BY <1>5, <2>1 DEF StandsIn, Before
  <2>3. Before(order, t[i], t[j])
    BY <1>3, <2>2
  <2>4. PICK k \in 1..Len(order), m \in 1..Len(order) : k < m /\ order[k] = t[i] /\ order[m] = t[j]
    BY <2>3 DEF Before
  <2>5. ~(idOf[order[k]] > idOf[order[m]])
    BY <1>5, <2>1, <2>4 DEF OrderStands, Inverted
  <2> QED BY <2>4, <2>5
<1>6. OrderStands'
  <2>1. listing = "comments" => ~Inverted(t)
    BY <1>5 DEF Inverted
  <2>2. StandsIn(t, PagedRows) => PagedRows \in touched'
    BY <1>3 DEF OrderStands
  <2> QED BY <1>3, <1>4, <2>1, <2>2 DEF OrderStands, Once, StandsIn, Inverted
<1> QED BY <1>3, <1>4, <1>6

\* A row goes, and the cards of the listing behind the row of the cursor are lost if it is that.
LEMMA RowGoesStands == ASSUME ListingOn, NEW row \in PageRow, RowGoes(row) PROVE PageInv'
<1>1. /\ order' = Without(row) /\ row \in InOrder(order) /\ touched' = touched \cup {row}
      /\ UNCHANGED <<listing, idOf, cursor, pages, ended>>
  BY DEF RowGoes, Changes
<1>2. upset' = (upset \/ (listing = "cards" /\ row = cursor))
  BY Zenon DEF RowGoes
<1>3. upset = FALSE /\ PagingTypes /\ OrderStands
  BY DEF ListingOn
<1>4. CASE listing = "cards" /\ row = cursor
  <2>1. upset' = TRUE
    BY <1>2, <1>4, Zenon
  <2> QED BY <2>1 DEF PageInv
<1>5. CASE ~(listing = "cards" /\ row = cursor)
  <2>1. upset' = FALSE
    BY <1>2, <1>3, <1>5, Zenon
  <2>2. StandsIn(order, row)
    BY <1>1, <1>3 DEF InOrder, StandsIn, PagingTypes
  <2>3. /\ OrderStands' /\ order' \in Seq(PageRow)
        /\ \A a : a # row => (StandsIn(order', a) <=> StandsIn(order, a))
        /\ \A a, b : a # row /\ b # row => (Before(order', a, b) <=> Before(order, a, b))
    BY <1>1, <1>3, <2>2, OrderWithout
  <2>4. listing = "cards" => row # cursor
    BY <1>5
  <2> QED BY <1>1, <2>1, <2>3, <2>4, ChangeStands
<1> QED BY <1>4, <1>5

\* A card moves, on the board or to another one.
LEMMA CardMovesStands == ASSUME ListingOn, NEW row \in PageRow, CardMoves(row) PROVE PageInv'
<1>1. /\ listing = "cards" /\ row \in InOrder(order) /\ touched' = touched \cup {row}
      /\ UNCHANGED <<listing, idOf, cursor, pages, ended>>
      /\ (\E i \in 1..Len(order) : order' = PutAt(Without(row), i, row)) \/ order' = Without(row)
  BY DEF CardMoves, Changes
<1>2. upset' = (upset \/ row = cursor)
  BY Zenon DEF CardMoves
<1>3. upset = FALSE /\ PagingTypes /\ OrderStands
  BY DEF ListingOn
<1>4. CASE row = cursor
  <2>1. upset' = TRUE
    BY <1>2, <1>4, Zenon
  <2> QED BY <2>1 DEF PageInv
<1>5. CASE row # cursor
  <2>1. upset' = FALSE
    BY <1>2, <1>3, <1>5, Zenon
  <2>2. StandsIn(order, row) /\ order \in Seq(PageRow) /\ Once(order)
    BY <1>1, <1>3 DEF InOrder, StandsIn, PagingTypes, OrderStands
  <2>3. CASE order' = Without(row)
    <3>1. /\ OrderStands' /\ order' \in Seq(PageRow)
          /\ \A a : a # row => (StandsIn(order', a) <=> StandsIn(order, a))
          /\ \A a, b : a # row /\ b # row => (Before(order', a, b) <=> Before(order, a, b))
      BY <1>1, <1>3, <2>2, <2>3, OrderWithout
    <3> QED BY <1>1, <1>5, <2>1, <3>1, ChangeStands
  <2>4. CASE \E i \in 1..Len(order) : order' = PutAt(Without(row), i, row)
    <3>1. PICK i \in 1..Len(order) : order' = PutAt(Without(row), i, row)
      BY <2>4
    <3>2. PICK t : t = Without(row)
      OBVIOUS
    <3>3. /\ Once(t) /\ t \in Seq(PageRow) /\ Len(t) = Len(order) - 1
          /\ \A a : StandsIn(t, a) <=> (a # row /\ StandsIn(order, a))
          /\ \A a, b : a # row /\ b # row => (Before(t, a, b) <=> Before(order, a, b))
      BY <2>2, <3>2, WithoutStands
    <3>4. i \in 1..(Len(t) + 1) /\ ~StandsIn(t, row)
      <4>1. Len(order) \in Nat
        BY <2>2
      <4> QED BY <3>3, <4>1
    <3>5. PICK u : u = PutAt(t, i, row)
      OBVIOUS
    <3>6. /\ Once(u) /\ u \in Seq(PageRow)
          /\ \A a : StandsIn(u, a) <=> (a = row \/ StandsIn(t, a))
          /\ \A a, b : a # row /\ b # row => (Before(u, a, b) <=> Before(t, a, b))
      BY <3>3, <3>4, <3>5, PutAtStands
    <3>7. order' = u
      BY <3>1, <3>2, <3>5
    <3>8. OrderStands'
      <4>1. StandsIn(u, PagedRows) => PagedRows \in touched'
        BY <1>1, <1>3, <3>3, <3>6 DEF OrderStands
      <4>2. listing' # "comments"
        BY <1>1
      <4> QED BY <3>6, <3>7, <4>1, <4>2 DEF OrderStands, Once, StandsIn
    <3>9. \A a : a # row => (StandsIn(order', a) <=> StandsIn(order, a))
      BY <3>3, <3>6, <3>7
    <3>10. \A a, b : a # row /\ b # row => (Before(order', a, b) <=> Before(order, a, b))
      BY <3>3, <3>6, <3>7
    <3>11. order' \in Seq(PageRow)
      BY <3>6, <3>7
    <3> QED BY <1>1, <1>5, <2>1, <3>8, <3>9, <3>10, <3>11, ChangeStands
  <2> QED BY <1>1, <2>3, <2>4
<1> QED BY <1>4, <1>5

\* What is upset stays so, and a listing that has ended is not read on.
LEMMA PageStays == ASSUME PagingNext, upset = TRUE \/ IsDone PROVE PageInv'
<1>1. CASE upset = TRUE
  <2>1. upset' = TRUE
    BY <1>1, Zenon DEF PagingNext, ReadPage, RowComes, RowGoes, CardMoves
  <2> QED BY <2>1 DEF PageInv
<1>2. CASE IsDone
  <2>1. ended = TRUE /\ ~ended
    BY <1>2, Zenon DEF IsDone, PagingNext, ReadPage, RowComes, RowGoes, CardMoves, Changes
  <2> QED BY <2>1
<1> QED BY <1>1, <1>2

\* Each page that is read, and each change between two, keeps the invariant.
LEMMA PageInductive == PageInv /\ [PagingNext]_pageVars => PageInv'
<1> SUFFICES ASSUME PageInv, [PagingNext]_pageVars PROVE PageInv'
  OBVIOUS
<1>1. CASE UNCHANGED pageVars
  <2>1. /\ listing' = listing /\ idOf' = idOf /\ order' = order /\ cursor' = cursor /\ pages' = pages
        /\ ended' = ended /\ touched' = touched /\ upset' = upset
    BY <1>1 DEF pageVars
  <2>2. CASE upset = TRUE
    BY <2>1, <2>2 DEF PageInv
  <2>3. CASE ListingOn
    <3>1. PagingTypes' /\ OrderStands' /\ RowsStay' /\ ListedSoFar'
      BY <2>1, <2>3 DEF ListingOn, PagingTypes, OrderStands, RowsStay, ListedSoFar, Once, StandsIn, Inverted, Staying,
                        Passed, PassedBy, Before
    <3> QED BY <2>1, <2>3, <3>1 DEF ListingOn, PageInv
  <2>4. CASE IsDone
    <3>1. \A u : TimesListed(u)' = TimesListed(u)
      BY <2>1 DEF TimesListed
    <3>2. Staying' = Staying
      BY <2>1 DEF Staying
    <3>3. IsDone'
      BY <2>1, <2>4, <3>1, <3>2, Zenon DEF IsDone
    <3> QED BY <3>3 DEF PageInv
  <2> QED BY <2>2, <2>3, <2>4 DEF PageInv
<1>2. CASE PagingNext
  <2>1. CASE ~ListingOn
    BY <1>2, <2>1, PageStays DEF PageInv
  <2>2. CASE ListingOn /\ ReadPage
    BY <2>2, ReadPageStands
  <2>3. CASE ListingOn /\ RowComes
    BY <2>3, RowComesStands
  <2>4. ASSUME ListingOn, NEW row \in PageRow, RowGoes(row) PROVE PageInv'
    BY <2>4, RowGoesStands
  <2>5. ASSUME ListingOn, NEW row \in PageRow, CardMoves(row) PROVE PageInv'
    BY <2>5, CardMovesStands
  <2> QED BY <1>2, <2>1, <2>2, <2>3, <2>4, <2>5 DEF PagingNext
<1> QED BY <1>1, <1>2

\* A listing is whole when it ends (ListCardsByBoard, ListComments): every row that stayed in
\* its place was listed once, whatever came, moved and went between the pages.
THEOREM ListsOnce == PagingSpec => []ListedOnce
<1>1. PagingInit => PageInv
  BY InitPageInv
<1>2. PageInv /\ [PagingNext]_pageVars => PageInv'
  BY PageInductive
<1>3. PageInv => ListedOnce
  <2> SUFFICES ASSUME PageInv, ended, ~upset PROVE \A row \in Staying : TimesListed(row) = 1
    BY DEF ListedOnce, Staying
  <2>1. upset # TRUE
    BY Zenon
  <2>2. ~ListingOn
    BY Zenon DEF ListingOn
  <2> QED BY <2>1, <2>2 DEF PageInv, IsDone
<1> QED BY <1>1, <1>2, <1>3, PTL DEF PagingSpec

-----------------------------------------------------------------------------
(***************************************************************************)
(* The types of the components, which take more facts than their          *)
(* invariants state: the bounds of counters, what a call has gathered, and *)
(* who may be at work in which phase.                                     *)
(***************************************************************************)
\* What a call has tried and listed so far keeps to the limits of a client.
WithinLimits(w) ==
    /\ w.attempt <= MaxRetries
    /\ w.step = "asking" => w.attempt < MaxRetries
    /\ w.step \in {"idle", "client"} => w.attempt = 0
    /\ Cardinality(w.page) <= TuplePage

PermBounds == errors <= MaxErrors /\ \A k \in Call : WithinLimits(call[k])

\* Every part of a page, and every page of the first so many tuples, is within the limit.
LEMMA PagesWithin ==
  /\ Cardinality({}) <= TuplePage
  /\ \A page \in SUBSET Subject : Cardinality(page) <= TuplePage =>
       \A some \in SUBSET page : Cardinality(some) <= TuplePage
<1>1. Cardinality({}) <= TuplePage
  BY FS_EmptySet, PermAssumption
<1>2. ASSUME NEW page \in SUBSET Subject, NEW some \in SUBSET page, Cardinality(page) <= TuplePage
      PROVE  Cardinality(some) <= TuplePage
  <2>1. IsFiniteSet(page)
    <3>1. IsFiniteSet(1..Subjects)
      BY FS_Interval, PermAssumption
    <3> QED BY <3>1, FS_Subset DEF Subject
  <2>2. IsFiniteSet(some) /\ Cardinality(some) <= Cardinality(page)
    BY <2>1, FS_Subset
  <2> QED BY <1>2, <2>1, <2>2, FS_CardinalityType, PermAssumption
<1> QED BY <1>1, <1>2

\* Nothing else moves than the call that takes a step.
LEMMA OneCallMoves ==
  ASSUME PermInv, PermBounds, NEW k \in Call, NEW w, call' = [call EXCEPT ![k] = w], WithinLimits(w),
         errors' = errors \/ (errors < MaxErrors /\ errors' = errors + 1)
  PROVE  PermBounds'
<1>1. call \in [Call -> PermRecord] /\ errors \in Nat
  BY DEF PermInv, PermTypes
<1>2. call'[k] = w /\ \A j \in Call \ {k} : call'[j] = call[j]
  BY <1>1
<1>3. \A j \in Call : WithinLimits(call'[j])
  BY <1>2 DEF PermBounds
<1>4. errors' <= MaxErrors
  BY <1>1, PermAssumption DEF PermBounds
<1> QED BY <1>3, <1>4 DEF PermBounds, WithinLimits

\* Attempts are counted, and a page is made of the first so many tuples, of which some go.
LEMMA PermBoundsKept == ASSUME PermInv, PermBounds, [PermNext]_permVars PROVE PermBounds'
<1>0. call \in [Call -> PermRecord] /\ errors \in Nat /\ tuples \subseteq Subject
  BY DEF PermInv, PermTypes
<1>1. CASE UNCHANGED permVars
  BY <1>1 DEF permVars, PermBounds, WithinLimits
<1>2. ASSUME NEW k \in Call,
             Begin(k) \/ StartInit(k) \/ EndInit(k) \/ HasClient(k) \/ Grant(k) \/ ListPage(k) \/ DeleteTuple(k) \/ NextPage(k)
      PROVE  PermBounds'
  <2>0. call[k] \in PermRecord /\ WithinLimits(call[k])
    BY <1>0 DEF PermBounds
  <2>1. CASE Begin(k)
    <3>1. PICK op, s : call' = [call EXCEPT ![k] = [NoCall EXCEPT !.op = op, !.subject = s, !.step = "client"]]
      BY <2>1 DEF Begin
    <3>2. PICK w : w = [NoCall EXCEPT !.op = op, !.subject = s, !.step = "client"]
      OBVIOUS
    <3>3. w.attempt = 0 /\ w.step = "client" /\ w.page = {}
      BY <3>2 DEF NoCall
    <3>4. WithinLimits(w)
      BY <3>3, PagesWithin, PermAssumption DEF WithinLimits
    <3>5. errors' = errors
      BY <2>1 DEF Begin
    <3> QED BY <3>1, <3>2, <3>4, <3>5, OneCallMoves
  <2>2. CASE call' = call /\ (errors' = errors \/ (errors < MaxErrors /\ errors' = errors + 1))
    BY <1>0, <2>2, PermAssumption DEF PermBounds, WithinLimits
  <2>3. CASE StartInit(k)
    BY <2>2, <2>3 DEF StartInit
  <2>4. CASE EndInit(k) /\ call' # call
    <3>1. call' = [call EXCEPT ![k] = [call[k] EXCEPT !.step = "failed"]] /\ errors < MaxErrors /\ errors' = errors + 1
      BY <2>4 DEF EndInit
    <3>2. WithinLimits([call[k] EXCEPT !.step = "failed"])
      BY <2>0 DEF WithinLimits, PermRecord
    <3> QED BY <3>1, <3>2, OneCallMoves
  <2>5. CASE EndInit(k) /\ call' = call
    BY <2>2, <2>5 DEF EndInit
  <2>6. CASE HasClient(k)
    <3>1. PICK w : w = [call[k] EXCEPT !.step = IF call[k].op = "grant" THEN "asking" ELSE "list", !.from = tuples]
      OBVIOUS
    <3>2. call' = [call EXCEPT ![k] = w] /\ errors' = errors /\ call[k].step = "client"
      BY <2>6, <3>1 DEF HasClient
    <3>3. w.attempt = call[k].attempt /\ w.page = call[k].page /\ w.step \in {"asking", "list"}
      BY <2>0, <3>1 DEF PermRecord
    <3>4. WithinLimits(w)
      BY <2>0, <3>2, <3>3, PermAssumption DEF WithinLimits
    <3> QED BY <3>2, <3>4, OneCallMoves
  <2>7. CASE Grant(k)
    <3>1. CASE call' = [call EXCEPT ![k].step = "ok"] /\ errors' = errors
      <4>1. call' = [call EXCEPT ![k] = [call[k] EXCEPT !.step = "ok"]]
        BY <3>1
      <4>2. WithinLimits([call[k] EXCEPT !.step = "ok"])
        BY <2>0 DEF WithinLimits, PermRecord
      <4> QED BY <3>1, <4>1, <4>2, OneCallMoves
    <3>2. CASE ~(call' = [call EXCEPT ![k].step = "ok"] /\ errors' = errors)
      <4>1. PICK next \in {"asking", "failed"} :
               call' = [call EXCEPT ![k].attempt = @ + 1,
                                    ![k].step = IF Tolerated THEN "ok"
                                                ELSE IF Exhausted(call[k].attempt + 1) THEN "failed" ELSE next]
        BY <2>7, <3>2 DEF Grant
      <4>2. PICK w : w = [call[k] EXCEPT !.attempt = @ + 1,
                                         !.step = IF Exhausted(call[k].attempt + 1) THEN "failed" ELSE next]
        OBVIOUS
      <4>3. call' = [call EXCEPT ![k] = w]
        BY <1>0, <4>1, <4>2 DEF Tolerated
      <4>4. /\ w.attempt = call[k].attempt + 1 /\ w.page = call[k].page
            /\ w.step = IF call[k].attempt + 1 = MaxRetries THEN "failed" ELSE next
        BY <2>0, <4>2 DEF PermRecord, Exhausted
      <4>5. call[k].attempt \in Nat /\ call[k].attempt < MaxRetries
        BY <2>0, <2>7 DEF Grant, WithinLimits, PermRecord
      <4>6. WithinLimits(w)
        BY <2>0, <4>4, <4>5, PermAssumption DEF WithinLimits
      <4>7. errors < MaxErrors /\ errors' = errors + 1
        BY <2>7, <3>2 DEF Grant
      <4> QED BY <4>3, <4>6, <4>7, OneCallMoves
    <3> QED BY <3>1, <3>2
  <2>8. CASE ListPage(k)
    <3>1. PICK first :
            /\ first = {s \in Listed(k) : Cardinality({t \in Listed(k) : t <= s}) <= TuplePage}
            /\ \/ call' = [call EXCEPT ![k].page = first, ![k].step = "delete", ![k].last = (first = Listed(k)),
                                      ![k].after = IF first = {} THEN @ ELSE CHOOSE s \in first : \A t \in first : t <= s]
               \/ call' = [call EXCEPT ![k].step = "failed", ![k].page = {}]
      BY <2>8, Zenon DEF ListPage
    <3>2. Cardinality(first) <= TuplePage
      <4>1. CASE first = {}
        BY <4>1, PagesWithin
      <4>2. CASE first # {}
        <5>1. first \in SUBSET Subject /\ Listed(k) \in SUBSET Subject
          BY <1>0, <3>1 DEF Listed
        <5>2. PICK m \in first : \A s \in first : s <= m
          BY <4>2, <5>1, LastOfPage
        <5>3. PICK upTo : upTo = {t \in Listed(k) : t <= m}
          OBVIOUS
        <5>4. first \in SUBSET upTo /\ upTo \in SUBSET Subject /\ Cardinality(upTo) <= TuplePage
          BY <3>1, <5>1, <5>2, <5>3
        <5> QED BY <5>4, PagesWithin, Zenon
      <4> QED BY <4>1, <4>2
    <3>3. PICK w : /\ call' = [call EXCEPT ![k] = w] /\ w.attempt = call[k].attempt
                   /\ w.page \in {first, {}} /\ w.step \in {"delete", "failed"}
      <4>1. CASE call' = [call EXCEPT ![k].page = first, ![k].step = "delete", ![k].last = (first = Listed(k)),
                                      ![k].after = IF first = {} THEN @ ELSE CHOOSE s \in first : \A t \in first : t <= s]
        <5>1. PICK token : token = IF first = {} THEN call[k].after ELSE CHOOSE s \in first : \A t \in first : t <= s
          OBVIOUS
        <5>0. PICK last \in BOOLEAN : last = (first = Listed(k))
          BY Zenon
        <5>2. PICK w : w = [call[k] EXCEPT !.page = first, !.step = "delete", !.last = last, !.after = token]
          OBVIOUS
        <5>5. call' = [call EXCEPT ![k].page = first, ![k].step = "delete", ![k].last = last, ![k].after = token]
          BY <1>0, <4>1, <5>0, <5>1
        <5>3. call' = [call EXCEPT ![k] = w]
          BY <1>0, <5>2, <5>5
        <5>4. w.attempt = call[k].attempt /\ w.page = first /\ w.step = "delete"
          BY <2>0, <5>2 DEF PermRecord
        <5> QED BY <5>3, <5>4
      <4>2. CASE call' = [call EXCEPT ![k].step = "failed", ![k].page = {}]
        <5>1. call' = [call EXCEPT ![k] = [call[k] EXCEPT !.step = "failed", !.page = {}]]
          BY <4>2
        <5>2. PICK w : w = [call[k] EXCEPT !.step = "failed", !.page = {}]
          OBVIOUS
        <5>3. w.attempt = call[k].attempt /\ w.page = {} /\ w.step = "failed"
          BY <2>0, <5>2 DEF PermRecord
        <5> QED BY <5>1, <5>2, <5>3
      <4> QED BY <3>1, <4>1, <4>2
    <3>4. WithinLimits(w)
      BY <2>0, <3>2, <3>3, PagesWithin DEF WithinLimits
    <3>5. errors' = errors \/ (errors < MaxErrors /\ errors' = errors + 1)
      BY <2>8 DEF ListPage
    <3> QED BY <3>3, <3>4, <3>5, OneCallMoves
  <2>9. CASE DeleteTuple(k)
    <3>1. PICK w : /\ call' = [call EXCEPT ![k] = w] /\ w.attempt = call[k].attempt
                   /\ w.page \subseteq call[k].page /\ w.step \in {"delete", "failed"}
      <4>1. PICK s \in call[k].page :
              \/ call' = [call EXCEPT ![k].page = @ \ {s}]
              \/ call' = [call EXCEPT ![k].step = "failed", ![k].page = {}]
        BY <2>9 DEF DeleteTuple
      <4>2. PICK w : /\ call' = [call EXCEPT ![k] = w]
                     /\ w \in {[call[k] EXCEPT !.page = @ \ {s}], [call[k] EXCEPT !.step = "failed", !.page = {}]}
        BY <1>0, <4>1
      <4>3. w.attempt = call[k].attempt /\ w.page \subseteq call[k].page /\ w.step \in {call[k].step, "failed"}
        BY <2>0, <4>2 DEF PermRecord
      <4>4. call[k].step = "delete"
        BY <2>9 DEF DeleteTuple
      <4> QED BY <4>2, <4>3, <4>4
    <3>2. call[k].page \in SUBSET Subject /\ w.page \in SUBSET call[k].page /\ Cardinality(call[k].page) <= TuplePage
      BY <2>0, <3>1 DEF PermRecord, WithinLimits
    <3>3. Cardinality(w.page) <= TuplePage
      BY <3>2, PagesWithin, Zenon
    <3>4. WithinLimits(w)
      BY <2>0, <3>1, <3>3 DEF WithinLimits
    <3>5. errors' = errors \/ (errors < MaxErrors /\ errors' = errors + 1)
      BY <2>9 DEF DeleteTuple
    <3> QED BY <3>1, <3>4, <3>5, OneCallMoves
  <2>10. CASE NextPage(k)
    <3>1. PICK w : w = [call[k] EXCEPT !.step = IF IsLastPage(k) THEN "ok" ELSE "list"]
      OBVIOUS
    <3>2. call' = [call EXCEPT ![k] = w] /\ errors' = errors
      BY <2>10, <3>1 DEF NextPage
    <3>3. w.attempt = call[k].attempt /\ w.page = call[k].page /\ w.step \in {"ok", "list"}
      BY <2>0, <3>1 DEF PermRecord
    <3>4. WithinLimits(w)
      BY <2>0, <3>3 DEF WithinLimits
    <3> QED BY <3>2, <3>4, OneCallMoves
  <2> QED BY <1>2, <2>1, <2>3, <2>4, <2>5, <2>6, <2>7, <2>8, <2>9, <2>10
<1> QED BY <1>1, <1>2 DEF PermNext

\* A client of a tenant and its calls keep their types, and within their limits.
THEOREM PermTypesHold == PermSpec => []PermTypeOK
<1>1. PermInit => PermBounds
  <2> SUFFICES ASSUME PermInit PROVE PermBounds
    OBVIOUS
  <2>1. NoCall.attempt = 0 /\ NoCall.step = "idle" /\ NoCall.page = {}
    BY DEF NoCall
  <2> QED BY <2>1, PagesWithin, PermAssumption DEF PermInit, PermBounds, WithinLimits
<1>2. PermInv /\ PermBounds => PermTypeOK
  <2> SUFFICES ASSUME PermInv, PermBounds PROVE PermTypeOK
    OBVIOUS
  <2>1. \A k \in Call : call[k] \in PermRecord /\ WithinLimits(call[k])
    BY DEF PermInv, PermTypes, PermBounds
  <2>2. \A k \in Call :
         /\ call[k].op \in {"none", "grant", "remove"} /\ call[k].subject \in Subject \cup {All}
         /\ call[k].step \in {"idle", "client", "asking", "list", "delete", "ok", "failed"}
         /\ call[k].step = "asking" => call[k].attempt < MaxRetries
         /\ call[k].attempt <= MaxRetries /\ Cardinality(call[k].page) <= TuplePage
    BY <2>1 DEF PermRecord, WithinLimits
  <2>3. cell \in Call => call[cell].step = "client"
    BY DEF PermInv, CallStands
  <2> QED BY <2>2, <2>3 DEF PermInv, PermTypes, PermBounds, PermTypeOK
<1> QED BY <1>1, <1>2, InitPermInv, PermInductive, PermBoundsKept, PTL DEF PermSpec

-----------------------------------------------------------------------------
\* The service tokens of requests were valid once, and their attempts are counted.
TokensWere ==
    /\ svcCached <= svcValid /\ svcValid <= rotations + 1
    /\ rotations \in 0..MaxRotations /\ faults \in 0..MaxFaults /\ turns \in 0..MaxTurns
    /\ \A r \in Arrival : request[r].tries \in 0..1 /\ request[r].token <= svcValid

\* A request that ends is forgotten, and the others hold what they held.
LEMMA OneRequestMoves ==
  ASSUME ReqInv, TokensWere, NEW r \in Arrival, NEW q \in ReqRecord, request' = [request EXCEPT ![r] = q],
         q.tries \in 0..1, q.token <= svcValid, svcCached' \in {0, svcCached, svcValid},
         UNCHANGED <<svcValid, rotations, turns>>, faults' \in 0..MaxFaults
  PROVE  TokensWere'
<1>1. /\ request \in [Arrival -> ReqRecord] /\ svcValid \in Nat \ {0} /\ svcCached \in Nat
  BY DEF ReqInv, ReqTypes
<1>2. request'[r] = q /\ \A p \in Arrival \ {r} : request'[p] = request[p]
  BY <1>1
<1>3. \A p \in Arrival : request'[p].tries \in 0..1 /\ request'[p].token <= svcValid
  BY <1>2 DEF TokensWere
<1>4. svcCached' <= svcValid
  BY <1>1 DEF TokensWere
<1> QED BY <1>3, <1>4 DEF TokensWere

\* Whoever turns a request away or runs it leaves it without a token.
LEMMA EndsWithoutToken ==
  /\ \A step \in ReqSteps : TurnedAway(step).tries = 0 /\ TurnedAway(step).token = 0
  /\ \A took, o : Runs(took, o).tries = 0 /\ Runs(took, o).token = 0
BY DEF TurnedAway, Runs, NoRequest

\* Arrivals, tokens, answers and rotations of the service token all keep to it.
LEMMA TokensKept == ASSUME ReqInv, ReqInv', TokensWere, [ReqNext]_reqVars PROVE TokensWere'
<1>0. /\ request \in [Arrival -> ReqRecord] /\ request' \in [Arrival -> ReqRecord]
      /\ svcValid \in Nat \ {0} /\ svcCached \in Nat
      /\ svcCached <= svcValid /\ rotations \in 0..MaxRotations /\ faults \in 0..MaxFaults /\ turns \in 0..MaxTurns
  BY DEF ReqInv, ReqTypes, TokensWere
<1>1. ASSUME NEW r \in Arrival, Arrive(r) \/ TakeServiceToken(r) \/ Introspected(r) \/ GatewayFault(r) \/ Dispatched(r)
      PROVE  TokensWere'
  <2>0. /\ request[r] \in ReqRecord /\ request'[r] \in ReqRecord
        /\ request[r].tries \in 0..1 /\ request[r].token <= svcValid /\ request[r].token \in Nat
    BY <1>0 DEF TokensWere, ReqRecord
  <2>1. UNCHANGED <<svcValid, rotations, turns>> /\ faults' \in 0..MaxFaults
    <3>1. CASE Arrive(r) \/ TakeServiceToken(r) \/ Introspected(r) \/ Dispatched(r)
      <4>1. svcValid' = svcValid /\ rotations' = rotations /\ turns' = turns /\ faults' = faults
        BY <3>1, Zenon DEF Arrive, TakeServiceToken, Introspected, Dispatched
      <4> QED BY <1>0, <4>1
    <3>2. CASE GatewayFault(r)
      <4>1. UNCHANGED <<svcValid, rotations, turns>> /\ faults < MaxFaults /\ faults' = faults + 1
        BY <3>2 DEF GatewayFault
      <4> QED BY <1>0, <4>1, RequestsAssumption
    <3> QED BY <1>1, <3>1, <3>2
  <2>2. svcCached' \in {0, svcCached, svcValid}
    <3>1. CASE Introspected(r)
      <4>1. svcCached' = svcCached \/ svcCached' = 0
        BY <3>1, Zenon DEF Introspected, Invalidated
      <4> QED BY <4>1
    <3>2. CASE TakeServiceToken(r)
      BY <3>2 DEF TakeServiceToken
    <3>3. CASE Arrive(r) \/ GatewayFault(r) \/ Dispatched(r)
      <4>1. svcCached' = svcCached
        BY <3>3, Zenon DEF Arrive, GatewayFault, Dispatched
      <4> QED BY <4>1
    <3> QED BY <1>1, <3>1, <3>2, <3>3
  <2>3. request' = [request EXCEPT ![r] = request'[r]]
    <3>1. \E x : request' = [request EXCEPT ![r] = x]
      <4>1. CASE Arrive(r) \/ TakeServiceToken(r)
        BY <4>1 DEF Arrive, TakeServiceToken
      <4>2. CASE Introspected(r)
        BY <1>0, <4>2 DEF Introspected
      <4>3. CASE GatewayFault(r) \/ Dispatched(r)
        BY <4>3, Zenon DEF GatewayFault, Dispatched
      <4> QED BY <1>1, <4>1, <4>2, <4>3
    <3> QED BY <1>0, <3>1
  <2>4. request'[r].tries \in 0..1 /\ request'[r].token <= svcValid
    <3>1. CASE Arrive(r)
      <4>1. request'[r] = [request[r] EXCEPT !.step = "token"]
        BY <1>0, <3>1 DEF Arrive
      <4>2. request'[r].tries = request[r].tries /\ request'[r].token = request[r].token
        BY <2>0, <4>1 DEF ReqRecord
      <4> QED BY <2>0, <4>2
    <3>2. CASE TakeServiceToken(r)
      <4>1. request'[r] = [request[r] EXCEPT !.step = "sent", !.token = svcCached'] /\ svcCached' \in {svcCached, svcValid}
        BY <1>0, <3>2 DEF TakeServiceToken
      <4>2. request'[r].tries = request[r].tries /\ request'[r].token = svcCached'
        BY <2>0, <4>1 DEF ReqRecord
      <4> QED BY <1>0, <2>0, <4>1, <4>2
    <3>3. CASE Introspected(r)
      <4>1. \/ request'[r] = [request[r] EXCEPT !.step = "known", !.token = 0, !.tries = 0]
            \/ request'[r] = TurnedAway("unauthenticated")
            \/ request[r].tries = 0 /\ request'[r] = [request[r] EXCEPT !.step = "token", !.tries = @ + 1, !.token = 0]
        BY <1>0, <3>3 DEF Introspected, MayRetry
      <4>2. "unauthenticated" \in ReqSteps
        BY DEF ReqSteps
      <4>3. CASE request'[r] = TurnedAway("unauthenticated")
        BY <1>0, <4>2, <4>3, EndsWithoutToken
      <4>4. CASE request'[r] # TurnedAway("unauthenticated")
        <5>1. request'[r].token = 0 /\ request'[r].tries \in 0..1
          <6>1. CASE request'[r] = [request[r] EXCEPT !.step = "known", !.token = 0, !.tries = 0]
            BY <2>0, <6>1 DEF ReqRecord
          <6>2. CASE request[r].tries = 0 /\ request'[r] = [request[r] EXCEPT !.step = "token", !.tries = @ + 1, !.token = 0]
            <7>1. request'[r].tries = request[r].tries + 1 /\ request'[r].token = 0
              BY <2>0, <6>2 DEF ReqRecord
            <7> QED BY <6>2, <7>1
          <6> QED BY <4>1, <4>4, <6>1, <6>2
        <5> QED BY <1>0, <5>1
      <4> QED BY <4>3, <4>4
    <3>4. CASE GatewayFault(r)
      <4>1. PICK step \in {"refused", "unauthenticated"} : request'[r] = TurnedAway(step)
        BY <1>0, <3>4 DEF GatewayFault
      <4>2. step \in ReqSteps
        BY <4>1 DEF ReqSteps
      <4> QED BY <1>0, <4>1, <4>2, EndsWithoutToken
    <3>5. CASE Dispatched(r)
      <4>1. \/ \E took, o : request'[r] = Runs(took, o)
            \/ request'[r] = TurnedAway("refused")
        BY <1>0, <3>5 DEF Dispatched
      <4>2. "refused" \in ReqSteps
        BY DEF ReqSteps
      <4> QED BY <1>0, <4>1, <4>2, EndsWithoutToken
    <3> QED BY <1>1, <3>1, <3>2, <3>3, <3>4, <3>5
  <2> QED BY <2>0, <2>1, <2>2, <2>3, <2>4, OneRequestMoves
<1>2. CASE SessionEnds \/ RelationChanges
  <2>1. UNCHANGED <<svcValid, svcCached, request, rotations, faults>> /\ turns < MaxTurns /\ turns' = turns + 1
    BY <1>2 DEF SessionEnds, RelationChanges
  <2> QED BY <1>0, <2>1, RequestsAssumption DEF TokensWere
<1>3. CASE Rotate
  <2>1. /\ UNCHANGED <<svcCached, request, faults, turns>>
        /\ rotations < MaxRotations /\ rotations' = rotations + 1 /\ svcValid' = svcValid + 1
    BY <1>3 DEF Rotate
  <2>2. \A p \in Arrival : request[p].token \in Nat /\ request[p].token <= svcValid
    BY <1>0 DEF TokensWere, ReqRecord
  <2>3. \A p \in Arrival : request'[p].token <= svcValid'
    BY <1>0, <2>1, <2>2
  <2> QED BY <1>0, <2>1, <2>3, RequestsAssumption DEF TokensWere
<1>4. CASE UNCHANGED reqVars
  BY <1>4 DEF reqVars, TokensWere
<1> QED BY <1>1, <1>2, <1>3, <1>4 DEF ReqNext

\* Sessions, relations, service tokens and requests keep their types.
THEOREM ReqTypesHold == ReqSpec => []ReqTypeOK
<1>1. ReqInit => TokensWere
  <2> SUFFICES ASSUME ReqInit PROVE TokensWere
    OBVIOUS
  <2>1. NoRequest.tries = 0 /\ NoRequest.token = 0
    BY DEF NoRequest
  <2> QED BY <2>1, RequestsAssumption DEF ReqInit, TokensWere
<1>2. ReqInv /\ ReqInv' /\ TokensWere /\ [ReqNext]_reqVars => TokensWere'
  BY TokensKept
<1>3. ReqInv /\ TokensWere => ReqTypeOK
  <2> SUFFICES ASSUME ReqInv, TokensWere PROVE ReqTypeOK
    OBVIOUS
  <2>1. \A r \in Arrival :
         /\ request[r].step \in {"idle", "token", "sent", "known", "runs", "unauthenticated", "refused"}
         /\ request[r].tries \in 0..1 /\ request[r].token \in Nat /\ request[r].token <= svcValid
         /\ request[r].object \in ReqObject \cup {Absent}
    BY DEF ReqInv, ReqTypes, ReqRecord, ReqSteps, TokensWere
  <2>2. /\ svcCached \in Nat /\ svcCached <= svcValid /\ svcValid \in Nat \ {0} /\ svcValid <= rotations + 1
        /\ rotations \in Nat /\ rotations <= MaxRotations /\ faults <= MaxFaults /\ turns <= MaxTurns
        /\ session \in BOOLEAN /\ holds \subseteq GrantRelation
    BY RequestsAssumption DEF ReqInv, ReqTypes, TokensWere
  <2>3. svcCached \in 0..svcValid /\ svcValid \in 1..(MaxRotations + 1) /\ \A r \in Arrival : request[r].token \in 0..svcValid
    BY <2>1, <2>2, RequestsAssumption
  <2> QED BY <2>1, <2>2, <2>3 DEF ReqTypeOK
<1> QED BY <1>1, <1>2, <1>3, ReqInvariant, PTL DEF ReqSpec

\* Requests are of pods that serve, or are on their way down; a dispatcher runs in a pod that is
\* up and has not drained.
PodsWork ==
    /\ namespace \in BOOLEAN
    /\ streamCfg \in {0} \cup {ReleaseOf[p] : p \in ServerPod}
    /\ handler \in [ServerPod -> {"none", "busy"}]
    /\ \A p \in ServerPod : handler[p] # "none" => phase[p] \in InService
    /\ dispatcher \subseteq ServerPod /\ \A p \in dispatcher : phase[p] \in {"wiring", "serving", "signalled", "draining"}
    /\ stops \in Nat /\ stops <= MaxStops

\* A pod that moves between phases takes what it has in service along, and its dispatcher runs
\* from before it serves to its final drain.
LEMMA OnePodMoves ==
  ASSUME UpInv, PodsWork, NEW p \in ServerPod, NEW from, NEW to, Goes(p, from, to),
         namespace' \in BOOLEAN, streamCfg' \in {0} \cup {ReleaseOf[q] : q \in ServerPod},
         UNCHANGED <<handler, stops>>,
         dispatcher' \in {dispatcher, dispatcher \cup {p}, dispatcher \ {p}},
         from \in InService => to \in InService \/ handler[p] = "none",
         p \in dispatcher' => to \in {"wiring", "serving", "signalled", "draining"}
  PROVE  PodsWork'
<1>1. \A q \in ServerPod : phase'[q] = IF q = p THEN to ELSE phase[q]
  BY DEF Goes, UpInv, UpTypes
<1>2. phase[p] = from
  BY DEF Goes
<1>3. \A q \in ServerPod : handler[q] # "none" => phase'[q] \in InService
  BY <1>1, <1>2 DEF PodsWork
<1>4. dispatcher' \subseteq ServerPod /\ \A q \in dispatcher' : q \in dispatcher \/ q = p
  BY DEF PodsWork
<1>5. \A q \in dispatcher' : phase'[q] \in {"wiring", "serving", "signalled", "draining"}
  BY <1>1, <1>4 DEF PodsWork
<1> QED BY <1>3, <1>4, <1>5 DEF PodsWork

\* Every step of a pod keeps it so.
LEMMA PodsWorkKept ==
  ASSUME UpInv, PodsWork, [UpNext]_upVars
  PROVE  PodsWork'
<1>1. CASE UNCHANGED upVars
  BY <1>1 DEF upVars, PodsWork
<1>2. ASSUME NEW p \in ServerPod,
        \/ BootSchema(p) \/ EnsureNamespace(p) \/ MigrationsDone(p) \/ LookUpStream(p) \/ CreateCollides(p)
        \/ BuildServices(p) \/ Signal(p) \/ FinalDrain(p) \/ DrainEnds(p) \/ Exit(p) \/ Abandon(p)
      PROVE PodsWork'
  <2>1. /\ UNCHANGED <<handler, stops, streamCfg>> /\ namespace' \in {namespace, TRUE}
        /\ dispatcher' = dispatcher \/ dispatcher' = dispatcher \ {p}
    BY <1>2 DEF BootSchema, EnsureNamespace, MigrationsDone, LookUpStream, CreateCollides, BuildServices, Signal,
         FinalDrain, DrainEnds, Exit, Abandon, bootVars, workVars
  <2>2. PICK from, to :
          /\ Goes(p, from, to)
          /\ \/ from \notin {"wiring", "serving", "signalled", "draining", "drained"}
             \/ from \in {"wiring", "serving", "signalled"} /\ to \in {"serving", "signalled", "draining"}
             \/ from \in {"signalled", "draining"} /\ to = "drained" /\ dispatcher' = dispatcher \ {p}
             \/ from = "drained" /\ handler[p] = "none"
             \/ to = "abandoned" /\ handler[p] = "none" /\ dispatcher' = dispatcher \ {p}
    BY <1>2 DEF BootSchema, EnsureNamespace, MigrationsDone, LookUpStream, CreateCollides, BuildServices, Signal,
         FinalDrain, DrainEnds, Exit, Abandon, Idle
  <2>3. phase[p] = from
    BY <2>2 DEF Goes
  <2>4. p \in dispatcher => from \in {"wiring", "serving", "signalled", "draining"}
    BY <2>3 DEF PodsWork
  <2>5. p \in dispatcher' => to \in {"wiring", "serving", "signalled", "draining"}
    BY <2>1, <2>2, <2>4
  <2>6. namespace' \in BOOLEAN /\ streamCfg' \in {0} \cup {ReleaseOf[q] : q \in ServerPod}
    BY <2>1 DEF PodsWork
  <2>7. from \in InService => to \in InService \/ handler[p] = "none"
    BY <2>2 DEF InService
  <2>8. dispatcher' \in {dispatcher, dispatcher \cup {p}, dispatcher \ {p}}
    BY <2>1
  <2> QED BY <2>1, <2>2, <2>5, <2>6, <2>7, <2>8, OnePodMoves
<1>3. ASSUME NEW p \in ServerPod, CreateStream(p) \/ CorrectDrift(p)
      PROVE PodsWork'
  <2>1. /\ UNCHANGED <<handler, stops, namespace>> /\ streamCfg' \in {streamCfg, ReleaseOf[p]}
        /\ dispatcher' = dispatcher \cup {p}
    BY <1>3 DEF CreateStream, CorrectDrift, Starts
  <2>2. PICK from \in {"missing", "looked"} : Goes(p, from, "wiring")
    BY <1>3 DEF CreateStream, CorrectDrift
  <2>3. namespace' \in BOOLEAN /\ streamCfg' \in {0} \cup {ReleaseOf[q] : q \in ServerPod}
    BY <2>1 DEF PodsWork
  <2>4. from \notin InService
    BY <2>2 DEF InService
  <2> QED BY <2>1, <2>2, <2>3, <2>4, OnePodMoves
<1>4. ASSUME NEW p \in ServerPod,
        \/ CheckLedger(p) \/ RunMigration(p) \/ RecordMigration(p)
        \/ Serve(p) \/ EndRequest(p) \/ RowStep(p)
      PROVE PodsWork'
  <2>1. UNCHANGED <<phase, namespace, streamCfg, dispatcher, stops>>
    BY <1>4 DEF CheckLedger, RunMigration, RecordMigration, Serve, EndRequest, RowStep, CommitRow, Dispatch,
         PublishRow, SkipRow, bootVars, workVars
  <2>2. PICK h \in {"none", "busy"} :
          handler' = handler \/ (handler' = [handler EXCEPT ![p] = h] /\ (h # "none" => phase[p] = "serving"))
    BY <1>4 DEF CheckLedger, RunMigration, RecordMigration, Serve, EndRequest, RowStep, CommitRow, Dispatch,
         PublishRow, SkipRow, workVars
  <2>3. /\ handler' \in [ServerPod -> {"none", "busy"}]
        /\ \A q \in ServerPod : handler'[q] # "none" => phase[q] \in InService
    BY <2>2 DEF PodsWork, InService
  <2> QED BY <2>1, <2>3 DEF PodsWork
<1>5. ASSUME NEW p \in ServerPod, Stop(p)
      PROVE PodsWork'
  <2>1. /\ phase' = [phase EXCEPT ![p] = "down"] /\ handler' = [handler EXCEPT ![p] = "none"]
        /\ dispatcher' = dispatcher \ {p}
        /\ stops < MaxStops /\ stops' = stops + 1 /\ UNCHANGED <<namespace, streamCfg>>
    BY <1>5 DEF Stop
  <2>2. \A q \in ServerPod : q # p => phase'[q] = phase[q] /\ handler'[q] = handler[q]
    BY <2>1 DEF UpInv, UpTypes, PodsWork
  <2>3. handler' \in [ServerPod -> {"none", "busy"}] /\ handler'[p] = "none"
    BY <2>1 DEF PodsWork
  <2>4. stops' \in Nat /\ stops' <= MaxStops
    BY <2>1, StartUpAssumption DEF PodsWork
  <2> QED BY <2>1, <2>2, <2>3, <2>4 DEF PodsWork
<1> QED BY <1>1, <1>2, <1>3, <1>4, <1>5 DEF UpNext, RowStep

\* What the pods, the ledger and the stream hold keeps its type.
THEOREM UpTypesHold == UpSpec => []UpTypeOK
<1>1. UpInit => PodsWork
  <2> SUFFICES ASSUME UpInit PROVE PodsWork
    OBVIOUS
  <2>1. handler = [p \in ServerPod |-> "none"] /\ dispatcher = {}
        /\ stops = 0 /\ streamCfg = 0 /\ namespace = FALSE
    BY DEF UpInit
  <2>2. handler \in [ServerPod -> {"none", "busy"}] /\ \A p \in ServerPod : handler[p] = "none"
    BY <2>1
  <2>3. stops \in Nat /\ stops <= MaxStops
    BY <2>1, StartUpAssumption
  <2> QED BY <2>1, <2>2, <2>3 DEF PodsWork
<1>2. UpInv /\ PodsWork /\ [UpNext]_upVars => PodsWork'
  BY PodsWorkKept
<1>3. UpInv /\ HandInv /\ PodsWork => UpTypeOK
  BY DEF UpInv, UpTypes, HandInv, LeftLater, PodsWork, UpTypeOK
<1> QED BY <1>1, <1>2, <1>3, UpInvariant, HandInvariant, PTL DEF UpSpec

\* What attachments, their objects and requests hold keeps its type.
THEOREM AttTypesHold == AttSpec => []AttTypeOK
<1>1. AttInv => AttTypeOK
  BY DEF AttInv, AttTypes, AttTypeOK
<1> QED BY InitAttInv, AttInductive, <1>1, PTL DEF AttSpec

\* A document is of a version that was.
Dated(d, n) == d.fields <= n + 1 /\ d.names <= n + 1

IxBounds ==
    /\ OldCard \subseteq born /\ ixChanges <= CardChanges /\ scanned <= IndexedCards
    /\ \A c \in IxCard : Dated(cardRow[c], ixChanges)
    /\ \A c \in IxCard : Dated(docs[c], ixChanges) /\ (docs[c] # NoDoc => c \in born) /\ (docs[c].fields = 0 => docs[c] = NoDoc)
    /\ \A i \in Indexer :
        /\ Dated(work[i].doc, ixChanges)
        /\ work[i].step = "free" => work[i] = Free
        /\ work[i].step # "free" => work[i].card \in born
    /\ \A e \in events : e.id \in 1..ixChanges
    /\ \A p \in IxPod : \A e \in batch[p] : e.id \in 1..ixChanges
    /\ backfill = "recorded" => work[0] = Free

\* What a version is compared with only grows.
LEMMA StillDated ==
  /\ IxInv => NoDoc \in IxDoc /\ Dated(NoDoc, ixChanges) /\ NoDoc.fields = 0 /\ Free.doc = NoDoc /\ Free.step = "free" /\ Free \in IxWork
  /\ IxInv /\ ixChanges' \in {ixChanges, ixChanges + 1} => \A d \in IxDoc : Dated(d, ixChanges) => Dated(d, ixChanges')
<1>1. NoDoc \in IxDoc /\ NoDoc.fields = 0 /\ NoDoc.names = 0 /\ Free.doc = NoDoc /\ Free.step = "free" /\ Free \in IxWork
  BY DEF NoDoc, IxDoc, Free, IxWork
<1>2. IxInv => ixChanges \in Nat
  BY DEF IxInv, IxShapes
<1>3. IxInv => Dated(NoDoc, ixChanges)
  BY <1>1, <1>2 DEF Dated
<1>4. ASSUME IxInv, ixChanges' \in {ixChanges, ixChanges + 1}, NEW d \in IxDoc, Dated(d, ixChanges) PROVE Dated(d, ixChanges')
  BY <1>2, <1>4 DEF Dated, IxDoc
<1> QED BY <1>1, <1>3, <1>4

\* A mutation counts the versions up by one, and touches no document.
LEMMA ChangesBound ==
  ASSUME IxInv, IxBounds, NEW c \in IxCard, NEW row \in IxDoc,
         row.fields <= ixChanges + 2, row.names <= ixChanges + 2,
         ixChanges < CardChanges, ixChanges' = ixChanges + 1, cardRow' = [cardRow EXCEPT ![c] = row],
         born \subseteq born',
         \A e \in events' : e \in events \/ e.id = ixChanges + 1,
         UNCHANGED <<docs, batch, work, scanned, backfill>>
  PROVE  IxBounds'
<1>1. ixChanges \in Nat /\ cardRow \in [IxCard -> IxDoc] /\ docs \in [IxCard -> IxDoc] /\ work \in [Indexer -> IxWork]
  BY DEF IxInv, IxShapes
<1>2. Dated(row, ixChanges')
  BY <1>1 DEF Dated, IxDoc
<1>3. \A d \in IxDoc : Dated(d, ixChanges) => Dated(d, ixChanges')
  BY StillDated
<1>4. \A d \in IxCard : cardRow'[d] = IF d = c THEN row ELSE cardRow[d]
  BY <1>1
<1>5. \A d \in IxCard : cardRow[d] \in IxDoc /\ Dated(cardRow[d], ixChanges) /\ docs[d] \in IxDoc /\ Dated(docs[d], ixChanges)
  BY <1>1 DEF IxBounds
<1>6. \A d \in IxCard : Dated(cardRow'[d], ixChanges') /\ Dated(docs[d], ixChanges')
  BY <1>2, <1>3, <1>4, <1>5
<1>7. \A i \in Indexer : work[i].doc \in IxDoc /\ Dated(work[i].doc, ixChanges)
  BY <1>1 DEF IxBounds, IxWork
<1>8. \A i \in Indexer : Dated(work[i].doc, ixChanges')
  BY <1>3, <1>7
<1>9. ixChanges' <= CardChanges
  BY <1>1, IndexAssumption
<1>10. \A e \in events' : e.id \in 1..(ixChanges')
  BY <1>1 DEF IxBounds
<1>11. \A p \in IxPod : \A e \in batch'[p] : e.id \in 1..(ixChanges')
  BY <1>1 DEF IxBounds
<1>12. \A d \in IxCard : Dated(docs'[d], ixChanges') /\ (docs'[d] # NoDoc => d \in born') /\ (docs'[d].fields = 0 => docs'[d] = NoDoc)
  BY <1>6 DEF IxBounds
<1>13. \A i \in Indexer : Dated(work'[i].doc, ixChanges') /\ (work'[i].step = "free" => work'[i] = Free) /\ (work'[i].step # "free" => work'[i].card \in born')
  BY <1>8 DEF IxBounds
<1>14. OldCard \subseteq born' /\ scanned' <= IndexedCards /\ (backfill' = "recorded" => work'[0] = Free)
  BY DEF IxBounds
<1> QED BY <1>6, <1>9, <1>10, <1>11, <1>12, <1>13, <1>14 DEF IxBounds

\* An indexer goes on with a card that was, and what it has read is of a version that was.
LEMMA WorkBounds ==
  ASSUME IxInv, IxBounds, NEW i \in Indexer, NEW now, work' = [work EXCEPT ![i] = now],
         Dated(now.doc, ixChanges), now.step = "free" => now = Free, now.step # "free" => now.card \in born,
         UNCHANGED <<born, cardRow, ixChanges>>,
         events' \subseteq events, \A p \in IxPod : batch'[p] \subseteq batch[p],
         scanned' <= IndexedCards,
         backfill' = "recorded" => backfill = "recorded" /\ (i = 0 => now = Free),
         \A c \in IxCard : docs'[c] = docs[c] \/
            (Dated(docs'[c], ixChanges') /\ (docs'[c] # NoDoc => c \in born) /\ (docs'[c].fields = 0 => docs'[c] = NoDoc))
  PROVE  IxBounds'
<1>1. work \in [Indexer -> IxWork] /\ 0 \in Indexer
  BY DEF IxInv, IxShapes, Indexer
<1>2. \A j \in Indexer : work'[j] = IF j = i THEN now ELSE work[j]
  BY <1>1
<1>3. \A d : Dated(d, ixChanges) => Dated(d, ixChanges')
  BY DEF Dated
<1>4. \A j \in Indexer : Dated(work'[j].doc, ixChanges') /\ (work'[j].step = "free" => work'[j] = Free) /\ (work'[j].step # "free" => work'[j].card \in born')
  BY <1>2, <1>3 DEF IxBounds
<1>5. \A c \in IxCard : Dated(docs'[c], ixChanges') /\ (docs'[c] # NoDoc => c \in born') /\ (docs'[c].fields = 0 => docs'[c] = NoDoc)
  BY <1>3 DEF IxBounds
<1>6. \A c \in IxCard : Dated(cardRow'[c], ixChanges')
  BY <1>3 DEF IxBounds
<1>7. backfill' = "recorded" => work'[0] = Free
  BY <1>1, <1>2 DEF IxBounds
<1>8. /\ \A e \in events' : e.id \in 1..(ixChanges')
      /\ \A p \in IxPod : \A e \in batch'[p] : e.id \in 1..(ixChanges')
  BY DEF IxBounds
<1>9. OldCard \subseteq born' /\ ixChanges' <= CardChanges
  BY DEF IxBounds
<1> QED BY <1>4, <1>5, <1>6, <1>7, <1>8, <1>9 DEF IxBounds

\* What changes a card, a selected or a marked event, and what an indexer does keep it so.
LEMMA IxBoundsKept ==
  ASSUME IxInv, IxBounds, [IxNext]_ixVars
  PROVE  IxBounds'
<1>0. /\ NoDoc \in IxDoc /\ Dated(NoDoc, ixChanges) /\ NoDoc.fields = 0 /\ NoDoc.names = 0
      /\ Free.doc = NoDoc /\ Free.step = "free" /\ Free.card = 0 /\ 0 \in Indexer
      /\ \A p \in IxPod : p \in Indexer /\ p # 0
  BY StillDated DEF NoDoc, Free, Indexer, IxPod
<1>t. /\ ixChanges \in Nat /\ cardRow \in [IxCard -> IxDoc] /\ docs \in [IxCard -> IxDoc] /\ work \in [Indexer -> IxWork]
      /\ events \subseteq IxEvent /\ batch \in [IxPod -> SUBSET IxEvent] /\ scanned \in Nat
  BY DEF IxInv, IxShapes
<1>1. CASE UNCHANGED ixVars
  BY <1>1 DEF ixVars, IxBounds
<1>2. ASSUME NEW c \in IxCard, CardChanged(c) PROVE IxBounds'
  <2>1. cardRow[c] \in IxDoc /\ cardRow[c].fields \in Nat /\ cardRow[c].names \in Nat
        /\ cardRow[c].fields <= ixChanges + 1 /\ cardRow[c].names <= ixChanges + 1
    BY <1>t DEF IxBounds, Dated, IxDoc
  <2>2. PICK row, kind : Change(c, kind, row) /\ born \subseteq born' /\
          \/ row = [fields |-> ixChanges + 2, names |-> 1]
          \/ row = [cardRow[c] EXCEPT !.fields = ixChanges + 2]
          \/ row = [cardRow[c] EXCEPT !.names = ixChanges + 2]
          \/ row = NoDoc
    BY <1>2, Zenon DEF CardChanged
  <2>3. row \in IxDoc /\ row.fields <= ixChanges + 2 /\ row.names <= ixChanges + 2
    BY <1>0, <1>t, <2>1, <2>2 DEF IxDoc
  <2>4. /\ ixChanges < CardChanges /\ ixChanges' = ixChanges + 1 /\ cardRow' = [cardRow EXCEPT ![c] = row]
        /\ events' = events \cup {[id |-> ixChanges + 1, card |-> c, kind |-> kind]}
        /\ UNCHANGED <<docs, batch, work, scanned, backfill>>
    BY <2>2 DEF Change
  <2>5. \A e \in events' : e \in events \/ e.id = ixChanges + 1
    BY <2>4
  <2> QED BY <2>2, <2>3, <2>4, <2>5, ChangesBound
<1>3. ASSUME NEW c \in IxCard, Silently(c) PROVE IxBounds'
  <2>1. cardRow[c] \in IxDoc /\ cardRow[c].fields \in Nat /\ cardRow[c].names \in Nat
        /\ cardRow[c].fields <= ixChanges + 1 /\ cardRow[c].names <= ixChanges + 1
    BY <1>t DEF IxBounds, Dated, IxDoc
  <2>2. PICK row \in {NoDoc, [cardRow[c] EXCEPT !.names = ixChanges + 2]} : cardRow' = [cardRow EXCEPT ![c] = row]
    BY <1>3 DEF Silently
  <2>3. row \in IxDoc /\ row.fields <= ixChanges + 2 /\ row.names <= ixChanges + 2
    BY <1>0, <1>t, <2>1, <2>2 DEF IxDoc
  <2>4. /\ ixChanges < CardChanges /\ ixChanges' = ixChanges + 1
        /\ UNCHANGED <<born, events, docs, batch, work, scanned, backfill>>
    BY <1>3 DEF Silently
  <2>5. \A e \in events' : e \in events \/ e.id = ixChanges + 1
    BY <2>4
  <2> QED BY <2>2, <2>3, <2>4, <2>5, ChangesBound
<1>4. ASSUME NEW p \in IxPod, SelectEvents(p) PROVE IxBounds'
  <2>1. batch' = [batch EXCEPT ![p] = events] /\ UNCHANGED <<born, cardRow, ixChanges, events, docs, work, scanned, backfill>>
    BY <1>4 DEF SelectEvents
  <2>2. \A q \in IxPod : \A e \in batch'[q] : e \in batch[q] \/ e \in events
    BY <1>t, <2>1
  <2>3. \A q \in IxPod : \A e \in batch'[q] : e.id \in 1..ixChanges
    BY <2>2 DEF IxBounds
  <2> QED BY <2>1, <2>3 DEF IxBounds
<1>5. ASSUME NEW p \in IxPod, MarkEvent(p) PROVE IxBounds'
  <2>1. PICK e \in batch[p] :
          /\ work[p] = Free
          /\ batch' = [batch EXCEPT ![p] = @ \ {e}]
          /\ \/ /\ events' = events \ {e}
                /\ work' = IF Indexes(e.kind)
                           THEN [work EXCEPT ![p] = [step |-> "marked", card |-> e.card, kind |-> e.kind, doc |-> NoDoc]]
                           ELSE work
             \/ UNCHANGED <<events, work>>
          /\ UNCHANGED <<born, cardRow, ixChanges, docs, scanned, backfill>>
    BY <1>5 DEF MarkEvent
  <2>2. \A q \in IxPod : batch'[q] \subseteq batch[q]
    BY <1>t, <2>1
  <2>3. e.card \in born
    BY <1>5 DEF IxInv, DeletedForGood, Stands
  <2>4. work' = [work EXCEPT ![p] = Free] \/
        work' = [work EXCEPT ![p] = [step |-> "marked", card |-> e.card, kind |-> e.kind, doc |-> NoDoc]]
    BY <1>0, <1>t, <2>1
  <2>5. PICK now : work' = [work EXCEPT ![p] = now] /\ now.doc = NoDoc /\ (now.step = "free" => now = Free)
                   /\ (now.step # "free" => now.card = e.card)
    BY <1>0, <2>4
  <2>6. scanned' <= IndexedCards /\ (backfill' = "recorded" => backfill = "recorded" /\ (p = 0 => now = Free))
    BY <1>0, <2>1 DEF IxBounds
  <2>7. Dated(now.doc, ixChanges) /\ (now.step # "free" => now.card \in born) /\ events' \subseteq events
        /\ UNCHANGED <<born, cardRow, ixChanges>> /\ \A c \in IxCard : docs'[c] = docs[c]
    BY <1>0, <2>1, <2>3, <2>5
  <2>8. p \in Indexer
    BY <1>0
  <2> QED BY <2>2, <2>5, <2>6, <2>7, <2>8, WorkBounds
<1>6. ASSUME NEW i \in Indexer,
        ReadCardRow(i) \/ ReadNames(i) \/ IndexCard(i) \/ DeleteDoc(i) \/ IndexFails(i) \/ (i \in IxPod /\ PodDies(i))
      PROVE IxBounds'
  <2>1. work[i] \in IxWork /\ work[i].doc \in IxDoc /\ Dated(work[i].doc, ixChanges)
    BY <1>t DEF IxBounds, IxWork
  <2>2. UNCHANGED <<born, cardRow, ixChanges, scanned, events>>
    BY <1>6 DEF ReadCardRow, ReadNames, IndexCard, DeleteDoc, IndexFails, PodDies
  <2>3. /\ \A p \in IxPod : batch'[p] \subseteq batch[p]
        /\ backfill' = backfill \/ backfill' = "due"
    BY <1>6, <1>t DEF ReadCardRow, ReadNames, IndexCard, DeleteDoc, IndexFails, PodDies
  <2>4. i = 0 /\ backfill = "recorded" => work[i] = Free
    BY DEF IxBounds
  <2>5. scanned' <= IndexedCards
    BY <2>2 DEF IxBounds
  <2>6. CASE (ReadCardRow(i) /\ cardRow[work[i].card] # NoDoc) \/ ReadNames(i)
    <3>1. work[i].step \in {"marked", "row read"} /\ UNCHANGED docs
      BY <2>6 DEF ReadCardRow, ReadNames
    <3>2. work[i].card \in IxCard /\ work[i].card \in born
      BY <3>1 DEF IxInv, IxShapes, IxBounds
    <3>3. PICK to \in {"row read", "names read"}, doc \in {[work[i].doc EXCEPT !.fields = cardRow[work[i].card].fields],
                                                          [work[i].doc EXCEPT !.names = cardRow[work[i].card].names]} :
            work' = [work EXCEPT ![i].step = to, ![i].doc = doc]
      <4>1. CASE ReadCardRow(i) /\ cardRow[work[i].card] # NoDoc
        BY <4>1, <1>t, <2>1 DEF ReadCardRow, IxWork, IxDoc
      <4>2. CASE ReadNames(i)
        BY <4>2, <1>t, <2>1 DEF ReadNames, IxWork, IxDoc
      <4> QED BY <2>6, <4>1, <4>2
    <3>4. PICK now : now = [work[i] EXCEPT !.step = to, !.doc = doc]
      OBVIOUS
    <3>5. now.step = to /\ now.doc = doc /\ now.card = work[i].card
      BY <2>1, <3>4 DEF IxWork
    <3>6. work' = [work EXCEPT ![i] = now]
      BY <1>t, <2>1, <3>3, <3>4
    <3>7. Dated(cardRow[work[i].card], ixChanges) /\ cardRow[work[i].card] \in IxDoc
      BY <1>t, <3>2 DEF IxBounds
    <3>8. Dated(now.doc, ixChanges)
      BY <2>1, <3>3, <3>5, <3>7 DEF Dated, IxDoc
    <3>9. i = 0 => backfill' # "recorded"
      BY <1>0, <2>3, <2>4, <3>1
    <3>10. \A c \in IxCard : docs'[c] = docs[c]
      BY <3>1
    <3>11. now.step # "free" /\ now.card \in born /\ (backfill' = "recorded" => backfill = "recorded")
      BY <2>3, <3>2, <3>3, <3>5
    <3> QED BY <2>2, <2>3, <2>5, <3>6, <3>8, <3>9, <3>10, <3>11, WorkBounds
  <2>7. CASE work' = [work EXCEPT ![i] = Free]
    <3>1. \A c \in IxCard : docs'[c] = docs[c] \/
            (Dated(docs'[c], ixChanges') /\ (docs'[c] # NoDoc => c \in born) /\ (docs'[c].fields = 0 => docs'[c] = NoDoc))
      <4>1. CASE UNCHANGED docs
        BY <4>1
      <4>2. CASE IndexCard(i)
        <5>1. work[i].step = "names read" /\ docs' = [docs EXCEPT ![work[i].card] = work[i].doc]
          BY <4>2 DEF IndexCard
        <5>2. work[i].card \in IxCard /\ work[i].card \in born /\ work[i].doc.fields # 0
          BY <5>1 DEF IxInv, IxShapes, IxBounds, ReadsDoc
        <5> QED BY <1>t, <2>1, <2>2, <5>1, <5>2
      <4>3. CASE DeleteDoc(i)
        <5>1. docs' = [docs EXCEPT ![work[i].card] = NoDoc]
          BY <4>3 DEF DeleteDoc, DeletedDoc
        <5> QED BY <1>0, <1>t, <2>2, <5>1
      <4> QED BY <1>6, <4>1, <4>2, <4>3 DEF ReadCardRow, ReadNames, IndexFails, PodDies
    <3>2. backfill' = "recorded" => backfill = "recorded" /\ (i = 0 => Free = Free)
      BY <2>3
    <3> QED BY <1>0, <2>2, <2>3, <2>5, <2>7, <3>1, <3>2, WorkBounds
  <2> QED BY <1>6, <2>6, <2>7 DEF ReadCardRow, IndexCard, DeleteDoc, IndexFails, PodDies
<1>7. CASE BackfillStarts
  <2>1. backfill' = "runs" /\ scanned' = 0 /\ UNCHANGED <<born, cardRow, ixChanges, events, docs, batch, work>>
    BY <1>7 DEF BackfillStarts, ScanFrom
  <2>2. scanned' <= IndexedCards
    BY <2>1, IndexAssumption
  <2> QED BY <2>1, <2>2 DEF IxBounds
<1>8. CASE ScanDoc
  <2>1. PICK c \in Left :
          /\ backfill = "runs" /\ scanned' = c
          /\ work' = [work EXCEPT ![0] = [step |-> "marked", card |-> c, kind |-> "CardUpdated", doc |-> NoDoc]]
          /\ UNCHANGED <<born, cardRow, ixChanges, events, docs, batch, backfill>>
    BY <1>8 DEF ScanDoc
  <2>2. c \in IxCard /\ c <= IndexedCards /\ c \in born
    BY <2>1, IndexAssumption DEF Left, IxInv, DeletedForGood, IxCard
  <2>3. PICK now : now = [step |-> "marked", card |-> c, kind |-> "CardUpdated", doc |-> NoDoc]
    OBVIOUS
  <2>4. now.step = "marked" /\ now.card = c /\ now.doc = NoDoc /\ work' = [work EXCEPT ![0] = now]
    BY <2>1, <2>3
  <2>5. (\A p \in IxPod : batch'[p] \subseteq batch[p]) /\ (\A d \in IxCard : docs'[d] = docs[d]) /\ events' \subseteq events
        /\ scanned' <= IndexedCards /\ backfill' # "recorded"
    BY <2>1, <2>2
  <2>6. Dated(now.doc, ixChanges) /\ now.step # "free" /\ now.card \in born /\ 0 \in Indexer
    BY <1>0, <2>2, <2>4
  <2> QED BY <2>1, <2>4, <2>5, <2>6, WorkBounds
<1>9. CASE BackfillRecorded
  <2>1. work[0] = Free /\ backfill' = "recorded" /\ UNCHANGED <<born, cardRow, ixChanges, events, docs, batch, work, scanned>>
    BY <1>9 DEF BackfillRecorded, ScanEnded
  <2> QED BY <2>1 DEF IxBounds
<1> QED BY <1>0, <1>1, <1>2, <1>3, <1>4, <1>5, <1>6, <1>7, <1>8, <1>9 DEF IxNext

\* Cards, documents, events and indexers keep their types.
THEOREM IxTypesHold == IxSpec => []IxTypeOK
<1>1. IxInit => IxBounds
  <2> SUFFICES ASSUME IxInit PROVE IxBounds
    OBVIOUS
  <2>1. NoDoc.fields = 0 /\ NoDoc.names = 0 /\ Free.doc = NoDoc /\ Free.step = "free" /\ 0 \in Indexer
    BY DEF NoDoc, Free, Indexer
  <2>2. /\ born = OldCard /\ ixChanges = 0 /\ scanned = 0 /\ backfill = "due" /\ events = {}
        /\ \A c \in IxCard : docs[c] = NoDoc
        /\ \A i \in Indexer : work[i] = Free
        /\ \A p \in IxPod : batch[p] = {}
    BY DEF IxInit
  <2>3. \A c \in IxCard : cardRow[c].fields \in 0..1 /\ cardRow[c].names \in 0..1
    BY <2>1 DEF IxInit
  <2> QED BY <2>1, <2>2, <2>3, IndexAssumption DEF IxBounds, Dated
<1>2. IxInv /\ IxBounds /\ [IxNext]_ixVars => IxBounds'
  BY IxBoundsKept
<1>3. IxInv /\ IxBounds => IxTypeOK
  <2> SUFFICES ASSUME IxInv, IxBounds PROVE IxTypeOK
    OBVIOUS
  <2>1. /\ ixChanges \in Nat /\ cardRow \in [IxCard -> IxDoc] /\ docs \in [IxCard -> IxDoc] /\ work \in [Indexer -> IxWork]
        /\ events \subseteq IxEvent /\ scanned \in Nat /\ backfill \in {"due", "runs", "recorded"}
        /\ \A i \in Indexer : work[i].step # "free" => work[i].card \in IxCard
        /\ \A c \in IxCard : cardRow[c] # NoDoc => c \in born
    BY DEF IxInv, IxShapes, DeletedForGood
  <2>2. \A d \in IxDoc : Dated(d, ixChanges) => d \in Doc
    <3>1. ixChanges <= CardChanges
      BY DEF IxBounds
    <3> QED BY <2>1, <3>1, IndexAssumption DEF Dated, IxDoc, Doc
  <2>3. \A c \in IxCard : cardRow[c] \in Doc /\ docs[c] \in Doc
    BY <2>1, <2>2 DEF IxBounds
  <2>4. cardRow \in [IxCard -> Doc] /\ docs \in [IxCard -> Doc]
    BY <2>1, <2>3
  <2>5. \A c \in IxCard \ born : cardRow[c] = NoDoc /\ docs[c] = NoDoc
    BY <2>1 DEF IxBounds
  <2>6. \A e \in events : e.card \in IxCard /\ e.kind \in EventKind /\ e.id \in 1..ixChanges
    BY <2>1 DEF IxBounds, IxEvent
  <2>7. \A i \in Indexer : work[i].step \in {"free", "marked", "row read", "names read"}
    BY <2>1 DEF IxWork
  <2>8. scanned \in 0..IndexedCards
    BY <2>1, IndexAssumption DEF IxBounds
  <2>9. \A c \in IxCard : docs[c].fields = 0 <=> docs[c] = NoDoc
    BY DEF IxBounds, NoDoc
  <2>10. OldCard \subseteq born /\ (\A p \in IxPod : \A e \in batch[p] : e.id \in 1..ixChanges)
         /\ (backfill = "recorded" => work[0] = Free)
    BY DEF IxBounds
  <2> QED BY <2>1, <2>4, <2>5, <2>6, <2>7, <2>8, <2>9, <2>10 DEF IxTypeOK
<1> QED BY <1>1, <1>2, <1>3, InitIxInv, NextIxInv, PTL DEF IxSpec

\* A page of a search shows no more than was asked for, granted boards are boards, and changes
\* are counted.
ShownWithin ==
    /\ disturbed <= SearchChanges /\ allowedByGrant \subseteq FoundBoard
    /\ \A k \in 1..Len(pagesShown) : Cardinality(pagesShown[k]) <= HitLimit

\* Every page is a part of the hits that were read, of which there are no more than were asked for.
LEMMA ShownWithinKept == ASSUME SearchInv, ShownWithin, [SearchNext]_searchVars PROVE ShownWithin'
<1>0. pagesShown \in Seq(SUBSET FoundCard) /\ rawHits \subseteq FoundCard /\ Cardinality(rawHits) <= HitLimit
      /\ disturbed \in Nat
  BY DEF SearchInv, SearchTypes
<1>1. ASSUME NEW hits \in SUBSET FoundCard, Cardinality(hits) <= HitLimit, pagesShown' = Append(pagesShown, hits),
             UNCHANGED <<disturbed, allowedByGrant>>
      PROVE ShownWithin'
  <2>1. Len(pagesShown) \in Nat /\ Len(pagesShown') = Len(pagesShown) + 1 /\ pagesShown'[Len(pagesShown')] = hits
        /\ \A k \in 1..Len(pagesShown) : pagesShown'[k] = pagesShown[k]
    BY <1>0, <1>1, PageAdded
  <2>2. ASSUME NEW k \in 1..Len(pagesShown') PROVE Cardinality(pagesShown'[k]) <= HitLimit
    <3>1. CASE k \in 1..Len(pagesShown)
      <4>1. pagesShown'[k] = pagesShown[k] /\ Cardinality(pagesShown[k]) <= HitLimit
        BY <2>1, <3>1 DEF ShownWithin
      <4> QED BY <4>1, Zenon
    <3>2. CASE k = Len(pagesShown')
      BY <1>1, <2>1, <3>2, Zenon
    <3> QED BY <2>1, <3>1, <3>2
  <2> QED BY <1>1, <2>2 DEF ShownWithin
<1>2. CASE AskIndex
  <2>1. UNCHANGED <<disturbed, allowedByGrant>> /\ (pagesShown' = Append(pagesShown, {}) \/ pagesShown' = pagesShown)
    BY <1>2, Zenon DEF AskIndex
  <2>2. {} \in SUBSET FoundCard /\ Cardinality({}) <= HitLimit
    BY FS_EmptySet, SearchNumbers
  <2> QED BY <1>1, <2>1, <2>2 DEF ShownWithin
<1>3. CASE ReadGrants
  <2>1. allowedByGrant' = granted /\ granted \subseteq FoundBoard /\ UNCHANGED <<disturbed, pagesShown>>
    BY <1>3 DEF ReadGrants, GrantsRead, SearchInv, SearchTypes
  <2> QED BY <2>1 DEF ShownWithin
<1>4. CASE ShowHits
  <2>1. PICK hits : hits = {d \in rawHits : BoardOfFound[d] \in Allowed}
    OBVIOUS
  <2>2. pagesShown' = Append(pagesShown, hits) /\ UNCHANGED <<disturbed, allowedByGrant>>
    BY <1>4, <2>1 DEF ShowHits
  <2>3. hits \subseteq rawHits /\ hits \in SUBSET FoundCard
    BY <1>0, <2>1
  <2>4. IsFiniteSet(rawHits)
    <3>1. IsFiniteSet(1..FoundCards)
      BY SearchNumbers, FS_Interval
    <3> QED BY <1>0, <3>1, FS_Subset DEF FoundCard
  <2>5. Cardinality(hits) \in Nat /\ Cardinality(rawHits) \in Nat /\ Cardinality(hits) <= Cardinality(rawHits)
    BY <2>3, <2>4, FS_Subset, FS_CardinalityType
  <2>6. Cardinality(hits) <= HitLimit
    BY <1>0, <2>5, SearchNumbers
  <2> QED BY <1>1, <2>2, <2>3, <2>6
<1>5. CASE Disturb
  <2>1. disturbed < SearchChanges /\ disturbed' = disturbed + 1 /\ UNCHANGED <<pagesShown, allowedByGrant>>
    BY <1>5 DEF Disturb
  <2>2. disturbed' <= SearchChanges
    BY <1>0, <2>1, SearchAssumption
  <2> QED BY <2>1, <2>2 DEF ShownWithin
<1>6. CASE UNCHANGED searchVars
  BY <1>6 DEF searchVars, ShownWithin
<1> QED BY <1>2, <1>3, <1>4, <1>5, <1>6 DEF SearchNext

\* What a search has asked, read and shown keeps its type.
THEOREM SearchTypesHold == SearchSpec => []SearchTypeOK
<1>1. SearchInit => ShownWithin
  BY SearchAssumption DEF SearchInit, ShownWithin
<1>2. SearchInv /\ ShownWithin /\ [SearchNext]_searchVars => ShownWithin'
  BY ShownWithinKept
<1>3. SearchInv /\ ShownWithin => SearchTypeOK
  <2> SUFFICES ASSUME SearchInv, ShownWithin PROVE SearchTypeOK
    OBVIOUS
  <2>1. \A k \in 1..Len(pagesShown) : pagesShown[k] \subseteq FoundCard /\ Cardinality(pagesShown[k]) <= HitLimit
    <3>1. pagesShown \in Seq(SUBSET FoundCard)
      BY DEF SearchInv, SearchTypes
    <3>2. \A k \in 1..Len(pagesShown) : pagesShown[k] \subseteq FoundCard
      BY <3>1
    <3> QED BY <3>2 DEF ShownWithin
  <2>2. disturbed \in 0..SearchChanges
    <3>1. disturbed \in Nat /\ disturbed <= SearchChanges
      BY DEF SearchInv, SearchTypes, ShownWithin
    <3> QED BY <3>1, SearchAssumption
  <2>3. allowedByGrant \subseteq FoundBoard
    BY DEF ShownWithin
  <2> QED BY <2>1, <2>2, <2>3 DEF SearchInv, SearchTypes, SearchTypeOK
<1> QED BY <1>1, <1>2, <1>3, InitSearchInv, SearchInductive, PTL DEF SearchSpec

\* What a listing holds whatever upsets it: rows that are in the order once or on another board,
\* and a cursor that is the last row listed.
ListingTypes ==
    /\ PagingTypes /\ Once(order)
    /\ touched \subseteq PageRow /\ (StandsIn(order, PagedRows) => PagedRows \in touched)
    /\ away \subseteq touched /\ \A a \in away : ~StandsIn(order, a)
    /\ cursor # NoCursor => Len(pages) > 0 /\ cursor = pages[Len(pages)]

\* Of a set of numbers, as of the rows with a later id, there is one for every number up to
\* its size that has so many up to it.
LEMMA NthPlace ==
    ASSUME NEW n \in Nat, NEW T \in SUBSET (1..n), NEW k \in 1..Cardinality(T)
    PROVE  \E i \in T : Cardinality({j \in T : j <= i}) = k
<1> DEFINE upTo(i) == {j \in T : j <= i}
<1>0. \A j \in T : j \in Nat /\ 1 <= j /\ j <= n
  OBVIOUS
<1>1. IsFiniteSet(T) /\ Cardinality(T) \in Nat /\ k \in Nat /\ k >= 1
  <2>1. IsFiniteSet(1..n)
    BY FS_Interval
  <2>2. IsFiniteSet(T)
    BY <2>1, FS_Subset
  <2>3. Cardinality(T) \in Nat
    BY <2>2, FS_CardinalityType
  <2> QED BY <2>2, <2>3
<1>2. ASSUME NEW i \in Nat
      PROVE IsFiniteSet(upTo(i)) /\ Cardinality(upTo(i)) \in Nat
  <2>1. upTo(i) \subseteq T
    OBVIOUS
  <2>2. IsFiniteSet(upTo(i))
    BY <1>1, <2>1, FS_Subset, Zenon
  <2> QED BY <2>2, FS_CardinalityType, Zenon
<1>3. PICK enough : enough = {i \in 1..n : Cardinality(upTo(i)) >= k}
  OBVIOUS
<1>4. T # {}
  <2>1. Cardinality({}) = 0
    BY FS_EmptySet
  <2> QED BY <1>1, <2>1
<1>5. n \in enough
  <2>1. n \in 1..n
    <3>1. PICK some : some \in T
      BY <1>4
    <3> QED BY <1>0, <3>1
  <2>2. upTo(n) = T
    BY <1>0
  <2>3. Cardinality(upTo(n)) >= k
    <3>1. Cardinality(T) >= k
      BY <1>1
    <3> QED BY <2>2, <3>1, Zenon
  <2> QED BY <1>3, <2>1, <2>3
<1>6. PICK least \in enough : \A j \in enough : least <= j
  <2>1. enough \subseteq Nat /\ enough # {}
    BY <1>3, <1>5
  <2> HIDE DEF upTo
  <2> QED BY <2>1, LeastNatural
<1>7. least \in 1..n /\ least \in Nat /\ Cardinality(upTo(least)) >= k
  BY <1>3, <1>6
<1>8. PICK below : below = least - 1 /\ below \in Nat
  BY <1>7
<1>9. Cardinality(upTo(below)) \in Nat /\ Cardinality(upTo(below)) < k
  <2>1. Cardinality(upTo(below)) \in Nat
    BY <1>2, <1>8
  <2>2. CASE below = 0
    <3>1. upTo(below) = {}
      <4>1. \A j \in T : ~(j <= below)
        BY <1>0, <2>2
      <4> QED BY <4>1
    <3>2. Cardinality(upTo(below)) = 0
      BY <3>1, FS_EmptySet, Zenon
    <3> QED BY <1>1, <2>1, <3>2
  <2>3. CASE below # 0
    <3>1. below \in 1..n /\ below \notin enough
      BY <1>6, <1>7, <1>8, <2>3
    <3>2. ~(Cardinality(upTo(below)) >= k)
      BY <1>3, <3>1
    <3> QED BY <1>1, <2>1, <3>2
  <2> QED BY <2>2, <2>3
<1>10. least \in T
  <2> SUFFICES ASSUME least \notin T PROVE FALSE
    OBVIOUS
  <2>1. upTo(least) = upTo(below)
    <3>1. \A j \in T : j <= least <=> j <= below
      BY <1>0, <1>7, <1>8
    <3> QED BY <3>1, Zenon
  <2>2. Cardinality(upTo(least)) = Cardinality(upTo(below))
    BY <2>1, Zenon
  <2> HIDE DEF upTo
  <2> QED BY <1>1, <1>7, <1>9, <2>2
<1>11. Cardinality(upTo(least)) = Cardinality(upTo(below)) + 1
  <2>1. upTo(least) = upTo(below) \cup {least} /\ least \notin upTo(below)
    <3>1. \A j \in T : j <= least <=> j <= below \/ j = least
      BY <1>0, <1>7, <1>8
    <3>2. least <= least /\ ~(least <= below)
      BY <1>7, <1>8
    <3>3. \A j : j \in upTo(least) <=> j \in upTo(below) \cup {least}
      BY <1>10, <3>1, <3>2
    <3>4. upTo(least) = upTo(below) \cup {least}
      <4> HIDE DEF upTo
      <4> QED BY <3>3
    <3> QED BY <3>2, <3>4
  <2>2. IsFiniteSet(upTo(below))
    BY <1>2, <1>8
  <2>3. Cardinality(upTo(below) \cup {least}) = Cardinality(upTo(below)) + 1
    BY <2>1, <2>2, FS_AddElement, Zenon
  <2> QED BY <2>1, <2>3, Zenon
<1>12. Cardinality(upTo(least)) = k
  <2> HIDE DEF upTo
  <2> QED BY <1>1, <1>7, <1>9, <1>11
<1> QED BY <1>10, <1>12, Zenon

\* Whatever the ids are, what a query of comments returns are rows.
LEMMA LaterAreRows == ASSUME order \in Seq(PageRow) PROVE LaterRows \in Seq(PageRow)
<1>1. Len(order) \in Nat /\ DOMAIN order = 1..Len(order) /\ \A i \in 1..Len(order) : order[i] \in PageRow
  OBVIOUS
<1>2. Later \in SUBSET (1..Len(order))
  BY <1>1 DEF Later
<1>3. Cardinality(Later) \in Nat
  <2>1. IsFiniteSet(1..Len(order))
    BY <1>1, FS_Interval
  <2>2. IsFiniteSet(Later)
    BY <1>2, <2>1, FS_Subset
  <2> QED BY <2>2, FS_CardinalityType
<1>4. ASSUME NEW k \in 1..Cardinality(Later)
      PROVE order[CHOOSE i \in Later : Cardinality({j \in Later : j <= i}) = k] \in PageRow
  <2>1. \E i \in Later : Cardinality({j \in Later : j <= i}) = k
    BY <1>1, <1>2, NthPlace
  <2>2. (CHOOSE i \in Later : Cardinality({j \in Later : j <= i}) = k) \in Later
    BY <2>1, Zenon
  <2>3. PICK place : place = (CHOOSE i \in Later : Cardinality({j \in Later : j <= i}) = k)
    OBVIOUS
  <2>4. order[place] \in PageRow
    BY <1>1, <1>2, <2>2, <2>3
  <2> QED BY <2>3, <2>4, Zenon
<1>5. PICK m : m = Cardinality(Later)
  OBVIOUS
<1>6. LaterRows \in [1..m -> PageRow]
  BY <1>4, <1>5, Zenon DEF LaterRows
<1> QED BY <1>3, <1>5, <1>6

\* What follows in a sequence of rows are rows.
LEMMA FromIs == ASSUME order \in Seq(PageRow), NEW i \in 1..(Len(order) + 1) PROVE From(i) \in Seq(PageRow)
  BY DEF From

\* What any query returns are rows.
LEMMA CandidatesAreRows == ASSUME ListingTypes, NEW rows \in Candidates PROVE rows \in Seq(PageRow)
<1>1. order \in Seq(PageRow) /\ Len(order) \in Nat /\ DOMAIN order = 1..Len(order) /\ Once(order)
  BY DEF ListingTypes, PagingTypes
<1>2. CASE cursor = NoCursor
  BY <1>1, <1>2 DEF Candidates
<1>3. CASE cursor # NoCursor /\ listing = "comments"
  BY <1>1, <1>3, LaterAreRows DEF Candidates
<1>4. CASE cursor # NoCursor /\ listing # "comments"
  <2>1. CASE cursor \in InOrder(order)
    <3>1. PICK p \in 1..Len(order) : order[p] = cursor
      BY <1>1, <2>1 DEF InOrder
    <3>2. PlaceOf(cursor) = p
      BY <1>1, <3>1, PlaceFound
    <3>3. rows = From(p + 1)
      BY <1>4, <2>1, <3>2 DEF Candidates, Behind
    <3>4. p + 1 \in 1..(Len(order) + 1)
      BY <1>1
    <3> QED BY <1>1, <3>3, <3>4, FromIs
  <2>2. CASE cursor \notin InOrder(order) /\ cursor \in away
    <3>1. PICK i \in 1..(Len(order) + 1) : rows = From(i)
      BY <1>4, <2>2 DEF Candidates
    <3> QED BY <1>1, <3>1, FromIs
  <2>3. CASE cursor \notin InOrder(order) /\ cursor \notin away
    BY <1>4, <2>3 DEF Candidates
  <2> QED BY <2>1, <2>2, <2>3
<1> QED BY <1>2, <1>3, <1>4

\* A page is read: the cursor, if there is one, is the last row of it.
LEMMA ReadPageTypes == ASSUME ListingTypes, ReadPage PROVE ListingTypes'
<1>a. PICK rows \in Candidates :
        LET page == SubSeq(rows, 1, IF Len(rows) > PageLimit THEN PageLimit ELSE Len(rows))
        IN  /\ pages' = pages \o page
            /\ cursor' = IF HasMore(rows) THEN page[Len(page)] ELSE NoCursor
            /\ UNCHANGED <<listing, idOf, order, away, touched>>
  BY DEF ReadPage
<1>b. PICK n : n = IF Len(rows) > PageLimit THEN PageLimit ELSE Len(rows)
  OBVIOUS
<1>1. /\ n = IF Len(rows) > PageLimit THEN PageLimit ELSE Len(rows)
      /\ pages' = pages \o SubSeq(rows, 1, n)
      /\ cursor' = IF Len(rows) > PageLimit THEN SubSeq(rows, 1, n)[Len(SubSeq(rows, 1, n))] ELSE NoCursor
      /\ UNCHANGED <<listing, idOf, order, away, touched>>
  BY <1>a, <1>b DEF HasMore
<1>2. rows \in Seq(PageRow) /\ Len(rows) \in Nat
  BY CandidatesAreRows
<1>3. n \in 0..Len(rows) /\ (Len(rows) > PageLimit => n > 0)
  BY <1>1, <1>2, PageNumbers
<1>4. PagingTypes
  BY DEF ListingTypes
<1>5. /\ pages' \in Seq(PageRow) /\ Len(pages) \in Nat /\ Len(pages') = Len(pages) + n
      /\ \A k \in 1..n : pages'[Len(pages) + k] = rows[k]
      /\ n > 0 => SubSeq(rows, 1, n)[Len(SubSeq(rows, 1, n))] = rows[n]
  BY <1>1, <1>2, <1>3, <1>4, PageIsListed
<1>6. CASE Len(rows) > PageLimit
  <2>1. n \in 1..Len(rows) /\ n \in 1..n
    BY <1>2, <1>3, <1>6
  <2>2. cursor' = rows[n] /\ rows[n] \in PageRow /\ pages'[Len(pages) + n] = rows[n]
    BY <1>1, <1>2, <1>5, <1>6, <2>1
  <2>3. Len(pages') > 0 /\ cursor' = pages'[Len(pages')]
    BY <1>5, <2>1, <2>2
  <2> QED BY <1>1, <1>5, <2>2, <2>3 DEF ListingTypes, PagingTypes, StandsIn
<1>7. CASE ~(Len(rows) > PageLimit)
  <2>1. cursor' = NoCursor
    BY <1>1, <1>7
  <2> QED BY <1>1, <1>5, <2>1 DEF ListingTypes, PagingTypes, StandsIn
<1> QED BY <1>6, <1>7

\* A row that comes was nowhere; one that goes or moves is still once in the order, or on another board.
LEMMA ChangeTypes ==
  ASSUME ListingTypes, NEW row \in PageRow, touched' = touched \cup {row}, UNCHANGED <<listing, idOf, cursor, pages>>,
         order' \in Seq(PageRow), Once(order'),
         \A a : StandsIn(order', a) => a = row \/ StandsIn(order, a),
         (away' = away /\ row \notin away) \/ (away' = away \cup {row} /\ ~StandsIn(order', row))
  PROVE  ListingTypes'
<1>1. PagingTypes'
  BY DEF ListingTypes, PagingTypes
<1>2. StandsIn(order', PagedRows) => PagedRows \in touched'
  BY DEF ListingTypes
<1>3. touched' \subseteq PageRow /\ away' \subseteq touched'
  BY DEF ListingTypes
<1>4. \A a \in away' : ~StandsIn(order', a)
  BY DEF ListingTypes
<1>5. cursor' # NoCursor => Len(pages') > 0 /\ cursor' = pages'[Len(pages')]
  BY DEF ListingTypes
<1> QED BY <1>1, <1>2, <1>3, <1>4, <1>5 DEF ListingTypes, StandsIn, Once

\* Every page, and every change between two pages, keeps the types.
LEMMA ListingTypesKept == ASSUME ListingTypes, [PagingNext]_pageVars PROVE ListingTypes'
<1>0. PagingTypes /\ order \in Seq(PageRow) /\ Once(order) /\ Len(order) \in Nat /\ DOMAIN order = 1..Len(order)
  BY DEF ListingTypes, PagingTypes
<1>1. CASE RowComes
  <2>1. /\ touched' = touched \cup {PagedRows} /\ PagedRows \notin touched /\ UNCHANGED <<listing, idOf, cursor, pages>>
        /\ UNCHANGED away
    BY <1>1 DEF RowComes, Changes
  <2>2. PICK i \in 1..(Len(order) + 1) : order' = PutAt(order, i, PagedRows)
    BY <1>1 DEF RowComes
  <2>3. ~StandsIn(order, PagedRows) /\ PagedRows \notin away /\ PagedRows \in PageRow
    BY <2>1, PageNumbers DEF ListingTypes
  <2>4. /\ Once(order') /\ order' \in Seq(PageRow)
        /\ \A a : StandsIn(order', a) => a = PagedRows \/ StandsIn(order, a)
    BY <1>0, <2>2, <2>3, PutAtStands, SMTT(40)
  <2> QED BY <2>1, <2>3, <2>4, ChangeTypes
<1>2. ASSUME NEW row \in PageRow, StandsIn(order, row)
      PROVE /\ Once(Without(row)) /\ Without(row) \in Seq(PageRow) /\ Len(Without(row)) = Len(order) - 1
            /\ \A a : StandsIn(Without(row), a) <=> (a # row /\ StandsIn(order, a))
            /\ row \notin away
  BY <1>0, <1>2, WithoutStands DEF ListingTypes
<1>3. ASSUME NEW row \in PageRow, RowGoes(row) PROVE ListingTypes'
  <2>1. /\ touched' = touched \cup {row} /\ UNCHANGED <<listing, idOf, cursor, pages>> /\ UNCHANGED away
        /\ row \in InOrder(order) /\ order' = Without(row)
    BY <1>3 DEF RowGoes, Changes
  <2>2. StandsIn(order, row)
    BY <1>0, <2>1 DEF InOrder, StandsIn
  <2>3. /\ Once(order') /\ order' \in Seq(PageRow) /\ row \notin away
        /\ \A a : StandsIn(order', a) => a = row \/ StandsIn(order, a)
    BY <1>2, <2>1, <2>2
  <2> QED BY <2>1, <2>3, ChangeTypes
<1>4. ASSUME NEW row \in PageRow, CardMoves(row) PROVE ListingTypes'
  <2>1. /\ touched' = touched \cup {row} /\ UNCHANGED <<listing, idOf, cursor, pages>>
        /\ row \in InOrder(order)
        /\ \/ \E i \in 1..Len(order) : order' = PutAt(Without(row), i, row) /\ UNCHANGED away
           \/ order' = Without(row) /\ away' = away \cup {row}
    BY <1>4 DEF CardMoves, Changes
  <2>2. StandsIn(order, row)
    BY <1>0, <2>1 DEF InOrder, StandsIn
  <2>3. /\ Once(Without(row)) /\ Without(row) \in Seq(PageRow) /\ Len(Without(row)) = Len(order) - 1 /\ row \notin away
        /\ \A a : StandsIn(Without(row), a) <=> (a # row /\ StandsIn(order, a))
    BY <1>2, <2>2
  <2>4. CASE order' = Without(row) /\ away' = away \cup {row}
    <3>1. /\ Once(order') /\ order' \in Seq(PageRow) /\ ~StandsIn(order', row)
          /\ \A a : StandsIn(order', a) => a = row \/ StandsIn(order, a)
      BY <2>3, <2>4
    <3> QED BY <2>1, <2>4, <3>1, ChangeTypes
  <2>5. ASSUME NEW i \in 1..Len(order), order' = PutAt(Without(row), i, row), UNCHANGED away PROVE ListingTypes'
    <3>1. PICK rest : rest = Without(row)
      OBVIOUS
    <3>2. rest \in Seq(PageRow) /\ Once(rest) /\ ~StandsIn(rest, row) /\ i \in 1..(Len(rest) + 1)
      BY <1>0, <2>3, <3>1
    <3>3. /\ Once(PutAt(rest, i, row)) /\ PutAt(rest, i, row) \in Seq(PageRow)
          /\ \A a : StandsIn(PutAt(rest, i, row), a) <=> (a = row \/ StandsIn(rest, a))
      BY <3>2, PutAtStands
    <3>4. /\ Once(order') /\ order' \in Seq(PageRow)
          /\ \A a : StandsIn(order', a) => a = row \/ StandsIn(order, a)
      BY <2>3, <2>5, <3>1, <3>3
    <3> QED BY <2>1, <2>3, <2>5, <3>4, ChangeTypes
  <2> QED BY <2>1, <2>4, <2>5
<1>5. CASE ReadPage
  BY <1>5, ReadPageTypes
<1>6. CASE UNCHANGED pageVars
  BY <1>6 DEF pageVars, ListingTypes, PagingTypes, Once, StandsIn
<1> QED BY <1>1, <1>3, <1>4, <1>5, <1>6 DEF PagingNext

\* A sequence in which nothing is twice has as many rows as places.
LEMMA OncePerPlace == ASSUME NEW s \in Seq(PageRow), Once(s) PROVE Cardinality(InOrder(s)) = Len(s)
<1>1. Len(s) \in Nat /\ DOMAIN s = 1..Len(s) /\ \A i, j \in 1..Len(s) : s[i] = s[j] => i = j
  BY DEF Once
<1>2. PICK f : f = [i \in 1..Len(s) |-> s[i]]
  OBVIOUS
<1>3. DOMAIN f = 1..Len(s) /\ \A i \in 1..Len(s) : f[i] = s[i] /\ s[i] \in InOrder(s)
  BY <1>1, <1>2 DEF InOrder
<1>4. f \in Bijection(1..Len(s), InOrder(s))
  <2>1. f \in [1..Len(s) -> InOrder(s)]
    BY <1>2, <1>3
  <2>2. \A i, j \in 1..Len(s) : f[i] = f[j] => i = j
    BY <1>1, <1>3
  <2>3. \A t \in InOrder(s) : \E i \in 1..Len(s) : f[i] = t
    BY <1>1, <1>3 DEF InOrder
  <2>4. \A i, j \in DOMAIN f : f[i] = f[j] => i = j
    BY <1>3, <2>2
  <2> QED BY <2>1, <2>3, <2>4, Zenon DEF Bijection, Injection, Surjection, IsInjective
<1>5. ExistsBijection(1..Len(s), InOrder(s))
  BY <1>4, Zenon DEF ExistsBijection
<1> QED BY <1>1, <1>5, FS_CountingElements

\* The rows of a listing, its pages and its cursor keep their types, whatever upsets it.
THEOREM PagingTypesHold == PagingSpec => []PagingTypeOK
<1>1. PagingInit => ListingTypes
  <2> SUFFICES ASSUME PagingInit PROVE ListingTypes
    OBVIOUS
  <2>1. /\ order = [i \in 1..(PagedRows - 1) |-> i] /\ touched = {} /\ away = {} /\ cursor = NoCursor /\ pages = << >>
        /\ listing \in {"cards", "comments"} /\ idOf \in [PageRow -> PageRow]
        /\ \A a, b \in PageRow : idOf[a] = idOf[b] => a = b
    BY DEF PagingInit
  <2>2. PICK n \in Nat : n = PagedRows - 1
    BY PagingAssumption
  <2>3. order \in Seq(PageRow) /\ Len(order) = n /\ \A i \in 1..n : order[i] = i
    BY <2>1, <2>2, PagingAssumption DEF PageRow
  <2>4. Once(order) /\ ~StandsIn(order, PagedRows)
    BY <2>2, <2>3, PagingAssumption DEF Once, StandsIn
  <2> QED BY <2>1, <2>3, <2>4 DEF ListingTypes, PagingTypes
<1>2. ListingTypes /\ [PagingNext]_pageVars => ListingTypes'
  BY ListingTypesKept
<1>3. ListingTypes => PagingTypeOK
  <2> SUFFICES ASSUME ListingTypes PROVE PagingTypeOK
    OBVIOUS
  <2>1. order \in Seq(PageRow) /\ pages \in Seq(PageRow) /\ listing \in {"cards", "comments"} /\ cursor \in {NoCursor} \cup PageRow
        /\ Once(order)
    BY DEF ListingTypes, PagingTypes
  <2>2. Cardinality(InOrder(order)) = Len(order)
    BY <2>1, OncePerPlace
  <2>3. InOrder(order) \subseteq PageRow /\ InOrder(pages) \subseteq PageRow
    BY <2>1 DEF InOrder
  <2>4. away \subseteq PageRow \ InOrder(order)
    BY <2>1 DEF ListingTypes, InOrder, StandsIn
  <2>5. cursor = NoCursor \/ (cursor \in PageRow /\ pages # << >> /\ cursor = pages[Len(pages)])
    BY <2>1 DEF ListingTypes
  <2>6. touched \subseteq PageRow
    BY DEF ListingTypes
  <2> QED BY <2>1, <2>2, <2>3, <2>4, <2>5, <2>6, Zenon DEF PagingTypeOK
<1> QED BY <1>1, <1>2, <1>3, PTL DEF PagingSpec

-----------------------------------------------------------------------------
(***************************************************************************)
(* MCServing: the components side by side.                                 *)
(***************************************************************************)
\* A step of the whole is a step of one component, or leaves it alone.
LEMMA ServingSides ==
    /\ ServingInit => /\ CutoverInit /\ RegInit /\ PermInit /\ ReqInit /\ UpInit /\ AttInit
                      /\ IxInit /\ SearchInit /\ PagingInit
    /\ [ServingNext]_servingVars =>
         /\ [CutoverNext]_cutoverVars /\ [RegNext]_regVars /\ [PermNext]_permVars
         /\ [ReqNext]_reqVars /\ [UpNext]_upVars /\ [AttNext]_attVars
         /\ [IxNext]_ixVars /\ [SearchNext]_searchVars /\ [PagingNext]_pageVars
<1>1. ServingInit => /\ CutoverInit /\ RegInit /\ PermInit /\ ReqInit /\ UpInit /\ AttInit
                     /\ IxInit /\ SearchInit /\ PagingInit
  BY Zenon DEF ServingInit
<1>2. ASSUME ServingNext
      PROVE  /\ CutoverNext \/ UNCHANGED cutoverVars
             /\ RegNext \/ UNCHANGED regVars
             /\ PermNext \/ UNCHANGED permVars
             /\ ReqNext \/ UNCHANGED reqVars
             /\ UpNext \/ UNCHANGED upVars
             /\ AttNext \/ UNCHANGED attVars
             /\ IxNext \/ UNCHANGED ixVars
             /\ SearchNext \/ UNCHANGED searchVars
             /\ PagingNext \/ UNCHANGED pageVars
  BY <1>2, Zenon DEF ServingNext
<1>3. UNCHANGED servingVars =>
        /\ UNCHANGED cutoverVars /\ UNCHANGED regVars /\ UNCHANGED permVars /\ UNCHANGED reqVars
        /\ UNCHANGED upVars /\ UNCHANGED attVars /\ UNCHANGED ixVars /\ UNCHANGED searchVars /\ UNCHANGED pageVars
  BY DEF servingVars
<1> QED BY <1>1, <1>2, <1>3, Zenon

\* Every behaviour of the whole is one of each component.
LEMMA ServingParts ==
    ServingSpec => /\ CutoverSpec /\ RegSpec /\ PermSpec /\ ReqSpec /\ UpSpec /\ AttSpec
                   /\ IxSpec /\ SearchSpec /\ PagingSpec
BY ServingSides, PTL
   DEF ServingSpec, CutoverSpec, RegSpec, PermSpec, ReqSpec, UpSpec, AttSpec, IxSpec, SearchSpec, PagingSpec

\* Pages show what they promise, of a listing and of a search (ListCardsByBoard, ListComments,
\* SearchCards): each row once and in order, none skipped, and no hit that could not be seen.
THEOREM PagesSound == ServingSpec => PagesAreSound
BY ServingParts, ListsOnce, SearchSound, PTL DEF PagesAreSound

\* Every component that serves requests keeps its types, for any pods, calls, cards and rows.
THEOREM ServingTypes == ServingSpec => []ServingTypeOK
BY ServingParts, TrackerTypes, RegTypes, PermTypesHold, ReqTypesHold, UpTypesHold, AttTypesHold,
   IxTypesHold, SearchTypesHold, PagingTypesHold, PTL DEF ServingTypeOK
=============================================================================
