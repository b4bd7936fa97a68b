-------------------------------- MODULE StartUp --------------------------------
(***************************************************************************)
(* The life of a pod (run_with_config in src/src/server.rs): its boot,     *)
(* step by step, each failure fatal; the system migrations and their       *)
(* ledger (src/src/system_migrations/runner.rs), which pods that boot      *)
(* together may both run; the stream whose configuration every pod         *)
(* corrects to its own (src/src/realtime/jetstream_bootstrap.rs); and the  *)
(* shutdown, in which the dispatcher drains one batch more while the       *)
(* requests in service go on.  What dies is started again.                 *)
(*                                                                         *)
(* Abstracted: a configuration is a version, that of the pod's release; a  *)
(* migration is one step that finishes or stops half-way (CardParentTuples *)
(* is part of ParentTuples, OpenSearchCards of SearchIndex); one request   *)
(* in service per pod; a row is its id, and a drain that is not the final  *)
(* one has its own module (Outbox).                                        *)
(***************************************************************************)
EXTENDS Naturals, FiniteSets

CONSTANTS
    ServerPods,     \* bound: pods
    ReleaseOf,      \* the release of a pod
    Migrations,     \* system migrations, in the order of their registration
    MaxRows,        \* bound: rows of event_log
    DrainBatch,     \* batch_size: rows a drain reads
    MaxStops        \* bound: boots that fail and pods that die

ASSUME StartUpAssumption ==
    /\ ServerPods \in Nat /\ Migrations \in Nat /\ MaxStops \in Nat /\ ReleaseOf \in [1..ServerPods -> Nat \ {0}]
    /\ MaxRows \in Nat /\ DrainBatch \in Nat \ {0}

ServerPod == 1..ServerPods
LogRow == 1..MaxRows   \* ids, in their order

VARIABLES
    phase,        \* where a pod stands
    nextMig,      \* the migration it has come to
    running,      \* whether it has begun it, or has run it to its end
    namespace,    \* the permission backend has the namespace
    ledger,       \* system_migrations
    effects,      \* migrations some pod has run to the end
    streamCfg,    \* the release the configuration of the stream belongs to, 0 for no stream
    sawCfg,       \* what a pod that has looked saw of it
    handler,      \* the request or the subscription a pod has in service
    logged,       \* rows of event_log
    pending,      \* those without a nats_seq
    toPublish,    \* rows a pod's final drain has read and not come to yet
    dispatcher,   \* pods whose dispatcher runs
    stops,
    owed,         \* ghost: the oldest rows that were pending when a pod's final drain read, up to
                  \* one batch, without those whose publish, ack or UPDATE failed in it
    lastBoot,     \* ghost: the pod that came up last
    overlapped    \* ghost: two pods looked at the stream at once

upVars == <<phase, nextMig, running, namespace, ledger, effects, streamCfg, sawCfg, handler,
            logged, pending, toPublish, dispatcher, stops, owed, lastBoot, overlapped>>
bootVars == <<nextMig, running, namespace, ledger, effects, streamCfg, sawCfg, lastBoot, overlapped>>
rowVars == <<logged, pending, toPublish, owed>>
workVars == <<handler, dispatcher, rowVars>>

Phase == {"down", "schema", "migrating", "stream", "looked", "missing", "wiring", "serving",
          "signalled", "draining", "drained", "gone", "abandoned"}
InService == {"serving", "signalled", "draining", "drained"}

UpTypeOK ==
    /\ phase \in [ServerPod -> Phase]
    /\ nextMig \in [ServerPod -> 1..(Migrations + 1)]
    /\ \A p \in ServerPod : running[p] # "no" => phase[p] = "migrating" /\ nextMig[p] <= Migrations
    /\ namespace \in BOOLEAN /\ ledger \subseteq 1..Migrations /\ effects \subseteq 1..Migrations
    /\ streamCfg \in {0} \cup {ReleaseOf[p] : p \in ServerPod}
    /\ handler \in [ServerPod -> {"none", "busy"}]
    /\ \A p \in ServerPod : handler[p] # "none" => phase[p] \in InService
    /\ \A p \in dispatcher : phase[p] \in {"wiring", "serving", "signalled", "draining"}
    /\ \A p \in ServerPod : toPublish[p] # {} => phase[p] = "draining"
    /\ logged \subseteq LogRow /\ pending \subseteq logged
    /\ toPublish \in [ServerPod -> SUBSET logged] /\ owed \in [ServerPod -> SUBSET logged]
    /\ stops <= MaxStops

UpInit ==
    /\ phase = [p \in ServerPod |-> "down"]
    /\ nextMig = [p \in ServerPod |-> 1] /\ running = [p \in ServerPod |-> "no"]
    /\ namespace = FALSE /\ ledger = {} /\ effects = {}
    /\ streamCfg = 0 /\ sawCfg = [p \in ServerPod |-> 0]
    /\ handler = [p \in ServerPod |-> "none"]
    /\ logged = {} /\ pending = {} /\ toPublish = [p \in ServerPod |-> {}] /\ owed = [p \in ServerPod |-> {}]
    /\ dispatcher = {} /\ stops = 0
    /\ lastBoot = 0 /\ overlapped = FALSE

Goes(p, from, to) == phase[p] = from /\ phase' = [phase EXCEPT ![p] = to]

-----------------------------------------------------------------------------
\* Postgres and its migrations
BootSchema(p) ==
    /\ Goes(p, "down", "schema")
    /\ nextMig' = [nextMig EXCEPT ![p] = 1] /\ running' = [running EXCEPT ![p] = "no"]
    /\ UNCHANGED <<namespace, ledger, effects, streamCfg, sawCfg, lastBoot, overlapped, workVars, stops>>

EnsureNamespace(p) ==
    /\ Goes(p, "schema", "migrating")
    /\ namespace' = TRUE
    /\ UNCHANGED <<nextMig, running, ledger, effects, streamCfg, sawCfg, lastBoot, overlapped, workVars, stops>>

\* is_applied
CheckLedger(p) ==
    /\ phase[p] = "migrating" /\ running[p] = "no" /\ nextMig[p] <= Migrations
    /\ IF nextMig[p] \in ledger
       THEN nextMig' = [nextMig EXCEPT ![p] = @ + 1] /\ UNCHANGED running
       ELSE running' = [running EXCEPT ![p] = "runs"] /\ UNCHANGED nextMig
    /\ UNCHANGED <<phase, namespace, ledger, effects, streamCfg, sawCfg, lastBoot, overlapped, workVars, stops>>

\* Variant: the migration is recorded when it begins.
MayRecord_Early(p) == running[p] # "no"

\* It is recorded when it has ended.
MayRecord(p) == running[p] = "ran"

\* The migration runs to its end; two pods may both do so.
RunMigration(p) ==
    /\ running[p] = "runs"
    /\ running' = [running EXCEPT ![p] = "ran"]
    /\ effects' = effects \cup {nextMig[p]}
    /\ UNCHANGED <<phase, nextMig, namespace, ledger, streamCfg, sawCfg, lastBoot, overlapped, workVars, stops>>

\* record_applied: the second of two pods violates the primary key, and its boot fails.
RecordMigration(p) ==
    /\ MayRecord(p) /\ nextMig[p] \notin ledger
    /\ ledger' = ledger \cup {nextMig[p]}
    /\ running' = [running EXCEPT ![p] = "no"]
    /\ nextMig' = [nextMig EXCEPT ![p] = @ + 1]
    /\ UNCHANGED <<phase, namespace, effects, streamCfg, sawCfg, lastBoot, overlapped, workVars, stops>>

MigrationsDone(p) ==
    /\ nextMig[p] > Migrations /\ Goes(p, "migrating", "stream")
    /\ UNCHANGED <<bootVars, workVars, stops>>

-----------------------------------------------------------------------------
Looks(p) ==
    /\ sawCfg' = [sawCfg EXCEPT ![p] = streamCfg]
    /\ overlapped' = (overlapped \/ \E q \in ServerPod \ {p} : phase[q] = "looked")

\* ensure_kanban_stream looks the stream up; whatever goes wrong counts as not found.
LookUpStream(p) ==
    /\ \/ streamCfg # 0 /\ Goes(p, "stream", "looked") /\ Looks(p)
       \/ Goes(p, "stream", "missing") /\ UNCHANGED <<sawCfg, overlapped>>
    /\ UNCHANGED <<nextMig, running, namespace, ledger, effects, streamCfg, lastBoot, workVars, stops>>

\* The dispatcher runs before there is anything to serve.
Starts(p) ==
    /\ dispatcher' = dispatcher \cup {p} /\ lastBoot' = p
    /\ UNCHANGED <<handler, rowVars, overlapped>>

CreateStream(p) ==
    /\ streamCfg = 0 /\ Goes(p, "missing", "wiring")
    /\ streamCfg' = ReleaseOf[p]
    /\ Starts(p)
    /\ UNCHANGED <<nextMig, running, namespace, ledger, effects, sawCfg, stops>>

\* Another pod made it meanwhile: it is looked up again.
CreateCollides(p) ==
    /\ streamCfg # 0 /\ Goes(p, "missing", "looked")
    /\ Looks(p)
    /\ UNCHANGED <<nextMig, running, namespace, ledger, effects, streamCfg, lastBoot, workVars, stops>>

\* Variant: a stream that is there is good enough.
Drifted_Never(p) == FALSE

\* The configuration that was read is not the pod's own.
Drifted(p) == sawCfg[p] # ReleaseOf[p]

\* correct_drift
CorrectDrift(p) ==
    /\ Goes(p, "looked", "wiring")
    /\ streamCfg' = IF Drifted(p) THEN ReleaseOf[p] ELSE streamCfg
    /\ sawCfg' = [sawCfg EXCEPT ![p] = 0]
    /\ Starts(p)
    /\ UNCHANGED <<nextMig, running, namespace, ledger, effects, stops>>

\* The registry, the clients, the services behind their two middlewares, and the routes.
BuildServices(p) ==
    /\ Goes(p, "wiring", "serving")
    /\ UNCHANGED <<bootVars, workVars, stops>>

-----------------------------------------------------------------------------
\* A request arrives, or a subscription.  The guard bounds the rows.
Serve(p) ==
    /\ phase[p] = "serving" /\ handler[p] = "none"
    /\ Cardinality(logged) + Cardinality({q \in ServerPod : handler[q] = "busy"}) < MaxRows
    /\ handler' = [handler EXCEPT ![p] = "busy"]
    /\ UNCHANGED <<phase, bootVars, dispatcher, rowVars, stops>>

\* It commits its row; ids are drawn before the commit, which may come in any order.
CommitRow(p, r) ==
    /\ handler[p] = "busy" /\ r \notin logged
    /\ handler' = [handler EXCEPT ![p] = "none"]
    /\ logged' = logged \cup {r} /\ pending' = pending \cup {r}
    /\ UNCHANGED <<phase, bootVars, dispatcher, toPublish, owed, stops>>

\* It ends without one: it failed, only read, or was a stream whose client went away, which
\* is all that ends a stream.
EndRequest(p) ==
    /\ handler[p] = "busy"
    /\ handler' = [handler EXCEPT ![p] = "none"]
    /\ UNCHANGED <<phase, bootVars, dispatcher, rowVars, stops>>

-----------------------------------------------------------------------------
\* Variant: the newest rows are read.
FirstBatch_Newest(rows) == {r \in rows : Cardinality({q \in rows : q > r}) < DrainBatch}

\* The rows a drain reads: ORDER BY id LIMIT batch_size.
FirstBatch(rows) == {r \in rows : Cardinality({q \in rows : q < r}) < DrainBatch}

\* A regular drain publishes a row, whichever pod wrote it, and marks it; those it fails at stay.
\* It read a batch before (Outbox has that): any row that is still pending may be of it.
Dispatch(p, r) ==
    /\ p \in dispatcher /\ phase[p] # "draining" /\ r \in pending
    /\ pending' = pending \ {r}
    /\ UNCHANGED <<phase, bootVars, handler, logged, toPublish, owed, dispatcher, stops>>

\* SIGTERM: nothing new is accepted, and the dispatcher is told.
Signal(p) ==
    /\ Goes(p, "serving", "signalled")
    /\ UNCHANGED <<bootVars, workVars, stops>>

\* Whatever drain was under way, final_drain reads one batch more, however much is pending.
FinalDrain(p) ==
    /\ Goes(p, "signalled", "draining")
    /\ toPublish' = [toPublish EXCEPT ![p] = FirstBatch(pending)]
    /\ owed' = [owed EXCEPT ![p] = {r \in pending : Cardinality({q \in pending : q < r}) < DrainBatch}]
    /\ UNCHANGED <<bootVars, handler, logged, pending, dispatcher, stops>>

\* The row whose turn it is.
IsNext(p, r) == r \in toPublish[p] /\ \A q \in toPublish[p] : r <= q

\* It is published and marked, whoever else has done so.
PublishRow(p, r) ==
    /\ IsNext(p, r)
    /\ toPublish' = [toPublish EXCEPT ![p] = @ \ {r}]
    /\ pending' = pending \ {r}
    /\ UNCHANGED <<phase, bootVars, handler, logged, owed, dispatcher, stops>>

\* Variant: the first failure ends the drain.
AfterFailure_Ends(rows, r) == {}

\* A failed row is skipped, and the drain goes on with the rest.
AfterFailure(rows, r) == rows \ {r}

\* Its publish, its ack or its UPDATE fails.
SkipRow(p, r) ==
    /\ IsNext(p, r)
    /\ toPublish' = [toPublish EXCEPT ![p] = AfterFailure(@, r)]
    /\ owed' = [owed EXCEPT ![p] = @ \ {r}]
    /\ UNCHANGED <<phase, bootVars, handler, logged, pending, dispatcher, stops>>

\* It has come through its batch, or its SELECT failed: the loop ends.
DrainEnds(p) ==
    /\ toPublish[p] = {} /\ (Goes(p, "draining", "drained") \/ Goes(p, "signalled", "drained"))
    /\ dispatcher' = dispatcher \ {p}
    /\ UNCHANGED <<bootVars, handler, rowVars, stops>>

\* Variant: what is in service is cut off.
Idle_AtOnce(p) == TRUE

\* Requests and streams alike are waited for.
Idle(p) == handler[p] = "none"

\* serve returns when the requests and the streams have ended.
Exit(p) ==
    /\ Idle(p) /\ Goes(p, "drained", "gone")
    /\ UNCHANGED <<bootVars, workVars, stops>>

\* Ten seconds after that a dispatcher that still works is abandoned.
Abandon(p) ==
    /\ Idle(p) /\ (Goes(p, "signalled", "abandoned") \/ Goes(p, "draining", "abandoned"))
    /\ toPublish' = [toPublish EXCEPT ![p] = {}] /\ dispatcher' = dispatcher \ {p}
    /\ UNCHANGED <<bootVars, handler, logged, pending, owed, stops>>

\* A boot fails, at any step, or the pod dies; it is started again.
Stop(p) ==
    /\ phase[p] \notin {"down", "gone", "abandoned"} /\ stops < MaxStops
    /\ stops' = stops + 1
    /\ phase' = [phase EXCEPT ![p] = "down"]
    /\ running' = [running EXCEPT ![p] = "no"]
    /\ handler' = [handler EXCEPT ![p] = "none"]
    /\ dispatcher' = dispatcher \ {p}
    /\ toPublish' = [toPublish EXCEPT ![p] = {}] /\ owed' = [owed EXCEPT ![p] = {}]
    /\ sawCfg' = [sawCfg EXCEPT ![p] = 0]
    /\ UNCHANGED <<nextMig, namespace, ledger, effects, streamCfg, logged, pending, lastBoot, overlapped>>

UpNext ==
    \E p \in ServerPod :
        \/ BootSchema(p) \/ EnsureNamespace(p) \/ CheckLedger(p) \/ RunMigration(p) \/ RecordMigration(p)
        \/ MigrationsDone(p) \/ LookUpStream(p) \/ CreateStream(p) \/ CreateCollides(p) \/ CorrectDrift(p) \/ BuildServices(p)
        \/ Serve(p) \/ EndRequest(p)
        \/ \E r \in LogRow : CommitRow(p, r) \/ Dispatch(p, r) \/ PublishRow(p, r) \/ SkipRow(p, r)
        \/ Signal(p) \/ FinalDrain(p) \/ DrainEnds(p) \/ Exit(p) \/ Abandon(p) \/ Stop(p)

UpSpec == UpInit /\ [][UpNext]_upVars

-----------------------------------------------------------------------------
(* Properties.                                                             *)

\* A pod that serves can rely on everything its handlers assume, whoever set it up and
\* whatever failed on the way: the namespace, the stream, and every migration run to the end.
ServesWhenReady ==
    \A p \in ServerPod : phase[p] \in {"wiring", "serving"} => namespace /\ streamCfg # 0 /\ effects = 1..Migrations

\* The ledger never runs ahead: what it records was run to the end, in order, even when
\* two pods boot together or the one that ran it died.
LedgerIsTrue == \A m \in ledger : 1..m \subseteq effects

\* The stream has the configuration of the pod that came up last, unless two pods were
\* looking at it at once: then the one that looked first may undo what the other did.
LastBootSetsStream ==
    lastBoot # 0 /\ ~overlapped => streamCfg = ReleaseOf[lastBoot]

\* A pod whose loop has ended (final_drain read its batch or failed, and nobody gave up waiting)
\* leaves without a nats_seq none of the oldest batch_size rows that were pending when that
\* drain read, unless that row itself failed in it: whoever else drains the same rows,
\* whatever its neighbours in the batch did, and whatever was committed meanwhile.  A backlog beyond
\* one batch, and rows committed later, are left to other pods.
ExitLeavesLate ==
    \A p \in ServerPod : phase[p] \in {"drained", "gone"} => owed[p] \cap pending = {}

\* A pod that serves has all its handlers assume, and the ledger it went by is true.
BootIsSound == LedgerIsTrue /\ ServesWhenReady

\* What pods of two releases leave to each other: the stream as the one that came up last
\* wants it, and no row that the final drain read and could publish.
PodsHandOver == LastBootSetsStream /\ ExitLeavesLate
=============================================================================
