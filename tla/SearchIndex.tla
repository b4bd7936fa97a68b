------------------------------ MODULE SearchIndex ------------------------------
(***************************************************************************)
(* The search index of cards (src/src/search_indexing.rs, step 6 of the    *)
(* drain pass in src/src/realtime/outbox.rs, the backfill in               *)
(* src/src/system_migrations/migrations/opensearch_cards.rs).  Every pod   *)
(* that dispatches a card event reads the card again and writes its        *)
(* document; nothing orders the writers of one document, a document has no *)
(* version, and what fails is logged and not tried again.                  *)
(*                                                                         *)
(* Abstracted: a card is the number of the change that made it so, its     *)
(* labels and assignees another; the passes of a dispatcher other than the *)
(* card events it indexes (see Outbox); the order of the rows of a batch.  *)
(***************************************************************************)
EXTENDS Naturals, FiniteSets

CONSTANTS
    IndexedCards,    \* bound: cards, in the order of their ids
    OldCard,         \* those that were there before the index
    IndexPods,       \* bound: pods that dispatch; indexer 0 is the backfill
    CardChanges      \* bound: ixChanges of cards

ASSUME IndexAssumption ==
    IndexedCards \in Nat /\ OldCard \subseteq 1..IndexedCards /\ IndexPods \in Nat /\ CardChanges \in Nat

IxCard == 1..IndexedCards
IxPod == 1..IndexPods
Indexer == IxPod \cup {0}

VARIABLES
    born,        \* the cards that ever were
    cardRow,     \* cards, with their labels and assignees
    ixChanges,     \* number of changes so far
    events,      \* event_log: the card events with no nats_seq
    docs,        \* the index
    batch,       \* the events a pod selected and has not come to yet
    work,        \* what an indexer does
    scanned,     \* the backfill: the last id of its scan
    backfill,    \* whether the backfill runs, and whether system_migrations records it
    missed,      \* ghost: cards of which an index write failed or was cut short
    overtaken,   \* ghost: cards two indexers worked on at once
    unannounced  \* ghost: cards that changed without an event since they were read

ixVars == <<born, cardRow, ixChanges, events, docs, batch, work, scanned, backfill, missed, overtaken, unannounced>>
ixGhosts == <<missed, overtaken, unannounced>>

NoDoc == [fields |-> 0, names |-> 0]
Free == [step |-> "free", card |-> 0, kind |-> "none", doc |-> NoDoc]
EventKind == {"CardCreated", "CardUpdated", "CardMoved", "CardTransferred", "CardDeleted"}
Doc == [fields : 0..CardChanges + 1, names : 0..CardChanges + 1]

IxTypeOK ==
    /\ OldCard \subseteq born /\ \A c \in IxCard \ born : cardRow[c] = NoDoc /\ docs[c] = NoDoc
    /\ cardRow \in [IxCard -> Doc] /\ docs \in [IxCard -> Doc]
    /\ \A e \in events : e.card \in IxCard /\ e.kind \in EventKind /\ e.id \in 1..ixChanges
    /\ \A p \in IxPod : \A e \in batch[p] : e.id \in 1..ixChanges
    /\ \A i \in Indexer : work[i].step \in {"free", "marked", "row read", "names read"}
    /\ \A i \in Indexer : work[i].step # "free" => work[i].card \in IxCard
    /\ scanned \in 0..IndexedCards /\ backfill \in {"due", "runs", "recorded"}
    /\ backfill = "recorded" => work[0] = Free
    /\ \A c \in IxCard : docs[c].fields = 0 <=> docs[c] = NoDoc

IxInit ==
    /\ born = OldCard
    /\ cardRow = [c \in IxCard |-> IF c \in OldCard THEN [fields |-> 1, names |-> 1] ELSE NoDoc]
    /\ ixChanges = 0 /\ events = {}
    /\ docs = [c \in IxCard |-> NoDoc]
    /\ batch = [p \in IxPod |-> {}]
    /\ work = [i \in Indexer |-> Free]
    /\ scanned = 0 /\ backfill = "due"
    /\ missed = {} /\ overtaken = {} /\ unannounced = {}

-----------------------------------------------------------------------------
\* A mutation commits a change of a card together with its event.
Change(c, kind, row) ==
    /\ ixChanges < CardChanges
    /\ ixChanges' = ixChanges + 1
    /\ cardRow' = [cardRow EXCEPT ![c] = row]
    /\ events' = events \cup {[id |-> ixChanges + 1, card |-> c, kind |-> kind]}
    /\ UNCHANGED <<docs, batch, work, scanned, backfill, ixGhosts>>

CardChanged(c) ==
    LET v == ixChanges + 2
    IN  \/ /\ c \notin born /\ born' = born \cup {c}
           /\ Change(c, "CardCreated", [fields |-> v, names |-> 1])
        \/ /\ cardRow[c] # NoDoc /\ UNCHANGED born
           /\ \/ \E kind \in {"CardUpdated", "CardMoved", "CardTransferred"} :
                    Change(c, kind, [cardRow[c] EXCEPT !.fields = v])
              \/ Change(c, "CardUpdated", [cardRow[c] EXCEPT !.names = v])
              \/ Change(c, "CardDeleted", NoDoc)

\* UpdateLabel and DeleteLabel (and a board that is deleted with its cards) say nothing.
Silently(c) ==
    /\ cardRow[c] # NoDoc /\ ixChanges < CardChanges
    /\ ixChanges' = ixChanges + 1
    /\ \/ cardRow' = [cardRow EXCEPT ![c].names = ixChanges + 2]
       \/ cardRow' = [cardRow EXCEPT ![c] = NoDoc]
    /\ unannounced' = unannounced \cup {c}
    /\ UNCHANGED <<born, events, docs, batch, work, scanned, backfill, missed, overtaken>>

-----------------------------------------------------------------------------
\* A pass selects the events that nobody has marked; another pod may select them too.
SelectEvents(p) ==
    /\ work[p] = Free /\ batch[p] = {} /\ events # {}
    /\ batch' = [batch EXCEPT ![p] = events]
    /\ UNCHANGED <<born, cardRow, ixChanges, events, docs, work, scanned, backfill, ixGhosts>>

\* Variant: a transfer is not among the events that index.
Indexes_NoTransfer(kind) == kind \in {"CardCreated", "CardUpdated", "CardMoved", "CardDeleted"}

\* The events after which the document is written or deleted.
Indexes(kind) == kind \in EventKind

\* The event was published and is marked; or one of the two failed, and it stays for a
\* later pass.
MarkEvent(p) ==
    \E e \in batch[p] :
        /\ work[p] = Free
        /\ batch' = [batch EXCEPT ![p] = @ \ {e}]
        /\ \/ /\ events' = events \ {e}
              /\ work' = IF Indexes(e.kind)
                         THEN [work EXCEPT ![p] = [step |-> "marked", card |-> e.card, kind |-> e.kind, doc |-> NoDoc]]
                         ELSE work
           \/ UNCHANGED <<events, work>>
        /\ UNCHANGED <<born, cardRow, ixChanges, docs, scanned, backfill, ixGhosts>>

OtherDocs(i, c) == {j \in Indexer \ {i} : work[j].card = c /\ work[j].step \in {"row read", "names read"}}

Overtaken(i, c) == IF OtherDocs(i, c) # {} THEN overtaken \cup {c} ELSE overtaken

\* card_document_from_db: the row first; a card that is gone by now is left alone.
ReadCardRow(i) ==
    LET c == work[i].card
    IN  /\ work[i].step = "marked" /\ work[i].kind # "CardDeleted"
        /\ work' = IF cardRow[c] = NoDoc
                   THEN [work EXCEPT ![i] = Free]
                   ELSE [work EXCEPT ![i].step = "row read", ![i].doc.fields = cardRow[c].fields]
        /\ overtaken' = Overtaken(i, c)
        /\ UNCHANGED <<born, cardRow, ixChanges, events, docs, batch, scanned, backfill, missed, unannounced>>

\* Then labels and assignees, in statements of their own.
ReadNames(i) ==
    LET c == work[i].card
    IN  /\ work[i].step = "row read"
        /\ work' = [work EXCEPT ![i].step = "names read", ![i].doc.names = cardRow[c].names]
        /\ UNCHANGED <<born, cardRow, ixChanges, events, docs, batch, scanned, backfill, ixGhosts>>

\* PUT, whatever is there.
IndexCard(i) ==
    /\ work[i].step = "names read"
    /\ docs' = [docs EXCEPT ![work[i].card] = work[i].doc]
    /\ work' = [work EXCEPT ![i] = Free]
    /\ UNCHANGED <<born, cardRow, ixChanges, events, batch, scanned, backfill, ixGhosts>>

\* DELETE; a document that is not there is only a warning.
DeletedDoc(c) == [docs EXCEPT ![c] = NoDoc]

DeleteDoc(i) ==
    LET c == work[i].card
    IN  /\ work[i].step = "marked" /\ work[i].kind = "CardDeleted"
        /\ docs' = DeletedDoc(c)
        /\ overtaken' = Overtaken(i, c)
        /\ work' = [work EXCEPT ![i] = Free]
        /\ UNCHANGED <<born, cardRow, ixChanges, events, batch, scanned, backfill, missed, unannounced>>

\* A read or a write fails.  A dispatcher goes on with its batch; the backfill ends
\* without a record, and the next boot runs it again.
IndexFails(i) ==
    /\ work[i].step # "free"
    /\ work' = [work EXCEPT ![i] = Free]
    /\ backfill' = IF i = 0 THEN "due" ELSE backfill
    /\ missed' = IF i = 0 THEN missed ELSE missed \cup {work[i].card}
    /\ UNCHANGED <<born, cardRow, ixChanges, events, docs, batch, scanned, overtaken, unannounced>>

\* The pod dies: what it marked and did not index is never indexed.
PodDies(p) ==
    /\ work[p] # Free \/ batch[p] # {}
    /\ work' = [work EXCEPT ![p] = Free]
    /\ batch' = [batch EXCEPT ![p] = {}]
    /\ missed' = IF work[p] = Free THEN missed ELSE missed \cup {work[p].card}
    /\ UNCHANGED <<born, cardRow, ixChanges, events, docs, scanned, backfill, overtaken, unannounced>>

-----------------------------------------------------------------------------
\* Variant: the next boot goes on where the failed run stopped.
ScanFrom_WhereItStopped == scanned

\* last_id = None: nothing of a failed run is kept.
ScanFrom == 0

BackfillStarts ==
    /\ backfill = "due" /\ backfill' = "runs"
    /\ scanned' = ScanFrom
    /\ UNCHANGED <<born, cardRow, ixChanges, events, docs, batch, work, ixGhosts>>

\* WHERE id > last ORDER BY id
ScanAfter(c) == c > scanned

Left == {c \in IxCard : cardRow[c] # NoDoc /\ ScanAfter(c)}

\* The next card of the scan is read like any other.
ScanDoc ==
    /\ backfill = "runs" /\ work[0] = Free
    /\ \E c \in Left :
         /\ \A d \in Left : c <= d
         /\ scanned' = c
         /\ work' = [work EXCEPT ![0] = [step |-> "marked", card |-> c, kind |-> "CardUpdated", doc |-> NoDoc]]
    /\ UNCHANGED <<born, cardRow, ixChanges, events, docs, batch, backfill, ixGhosts>>

\* Variant: recorded when the last card has been found.
ScanEnded_Found == Left = {}

\* Recorded when the last card has been indexed.
ScanEnded == work[0] = Free /\ Left = {}

BackfillRecorded ==
    /\ backfill = "runs" /\ ScanEnded
    /\ backfill' = "recorded"
    /\ UNCHANGED <<born, cardRow, ixChanges, events, docs, batch, work, scanned, ixGhosts>>

IxNext ==
    \/ \E c \in IxCard : CardChanged(c) \/ Silently(c)
    \/ \E p \in IxPod : SelectEvents(p) \/ MarkEvent(p) \/ PodDies(p)
    \/ \E i \in Indexer : ReadCardRow(i) \/ ReadNames(i) \/ IndexCard(i) \/ DeleteDoc(i) \/ IndexFails(i)
    \/ BackfillStarts \/ ScanDoc \/ BackfillRecorded

IxSpec == IxInit /\ [][IxNext]_ixVars

-----------------------------------------------------------------------------
(* Properties.                                                             *)

\* Nothing is under way for a card.
IxSettled(c) ==
    /\ \A e \in events : e.card # c
    /\ \A i \in Indexer : work[i].card # c

Excused == missed \cup overtaken \cup unannounced

\* When the events of a card have been dispatched, its document, if it has one, is what
\* the card is now; it is not, and no later pass mends it, only if an index write
\* failed, two indexers met on the card, or it changed without an event.
DocsFollowRows ==
    \A c \in IxCard \ Excused : IxSettled(c) /\ docs[c] # NoDoc => docs[c] = cardRow[c]

\* Once the backfill is recorded, every card can be found: those older than the index
\* by the scan, younger ones by their event, and a run that failed was run again.
FoundAfterBackfill ==
    \A c \in IxCard \ Excused :
        backfill = "recorded" /\ IxSettled(c) /\ cardRow[c] # NoDoc => docs[c] # NoDoc

\* Every card of a recorded backfill or a dispatched event has its document, and the
\* document is what the card is.
IndexFollows == DocsFollowRows /\ FoundAfterBackfill
=============================================================================
