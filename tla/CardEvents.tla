----------------------------- MODULE CardEvents -----------------------------
(***************************************************************************)
(* One card, the requests that change it (src/src/services/cards.rs) and a *)
(* client that follows it by the conflict-resolution policy of             *)
(* src/proto/sunbeam/kanban/v1/events.proto.                               *)
(*                                                                         *)
(* Every handler first reads the card outside of a transaction and works   *)
(* with what it read.  MoveCard, TransferCard and DeleteCard then change   *)
(* the card and append to event_log in one transaction; UpdateCard commits *)
(* the UPDATE of the card by itself and appends CardUpdated in a second    *)
(* transaction.  A handler may be dropped between any two of these steps   *)
(* (the pod dies, the client disconnects, a statement fails).              *)
(*                                                                         *)
(* Abstracted: the fields of a patch are one field, whose value is the     *)
(* request that wrote it last; columns and positions; the outbox between   *)
(* event_log and the client, here a stream in commit order without loss    *)
(* (Outbox has its reordering).  Requests for a card that is not found     *)
(* change nothing and are left out.                                        *)
(***************************************************************************)
EXTENDS Integers, Sequences, FiniteSets

CONSTANTS
    Request,     \* bound: the requests ever made
    Board,
    Project,
    Home,        \* the project of a board
    NoBoard,     \* where a deleted card is
    NoRequest    \* the value of the field before any update

ASSUME CardAssumption ==
    /\ Home \in [Board -> Project]
    /\ NoBoard \notin Board /\ NoRequest \notin Request

VARIABLES
    card,      \* the row of the card
    log,       \* event_log: the events of this card, in commit order
    pc,        \* where the handler of a request stands
    op,        \* what the request asks for
    target,    \* the board the card is to go to
    seen,      \* the card as the handler read it
    newRev,    \* the revision that UPDATE ... RETURNING gave to UpdateCard
    client,    \* what the client has
    overlap    \* whether requests for the card may overlap

vars == <<card, log, pc, op, target, seen, newRev, client, overlap>>
requestVars == <<op, target, seen, newRev>>
clientVars == <<client, overlap>>

Row == [board : Board \cup {NoBoard}, project : Project, rev : Nat,
        value : Request \cup {NoRequest}]

Entry == [kind : {"updated", "moved", "transferred", "deleted"}, board : Board,
          request : Request, to : Board, rev : Nat]

TypeOK ==
    /\ card \in Row
    /\ log \in Seq(Entry)
    /\ \A i \in DOMAIN log : log[i].rev <= card.rev
    /\ pc \in [Request -> {"idle", "read", "applied", "done", "dropped", "cut"}]
    /\ op \in [Request -> {"none", "update", "move", "transfer", "delete"}]
    /\ target \in [Request -> Board]
    /\ seen \in [Request -> Row]
    /\ newRev \in [Request -> 0..card.rev]
    /\ client.next \in 1..(Len(log) + 1)
    /\ client.confirmed \in 0..card.rev
    /\ overlap \in BOOLEAN

Init ==
    /\ \E b \in Board :
        /\ card = [board |-> b, project |-> Home[b], rev |-> 0, value |-> NoRequest]
        /\ target = [r \in Request |-> b]
    /\ log = <<>>
    /\ pc = [r \in Request |-> "idle"]
    /\ op = [r \in Request |-> "none"]
    /\ seen = [r \in Request |-> card]
    /\ newRev = [r \in Request |-> 0]
    /\ client = [next |-> 1, confirmed |-> 0, value |-> NoRequest, board |-> card.board, has |-> TRUE]
    /\ overlap \in BOOLEAN

Exists == card.board # NoBoard
Running == {r \in Request : pc[r] \in {"read", "applied"}}

-----------------------------------------------------------------------------
(* The first query of each handler, and the checks made on its result.     *)

Read(r, what, b) ==
    /\ pc[r] = "idle"
    /\ overlap \/ Running = {}
    /\ Exists
    /\ pc' = [pc EXCEPT ![r] = "read"]
    /\ op' = [op EXCEPT ![r] = what]
    /\ target' = [target EXCEPT ![r] = b]
    /\ seen' = [seen EXCEPT ![r] = card]
    /\ UNCHANGED <<card, log, newRev, clientVars>>

ReadForUpdate(r) == Read(r, "update", card.board)

ReadForDelete(r) == Read(r, "delete", card.board)

\* Variant: the project of the target board is not compared.
ReadForMove_AnyProject(r, b) == Read(r, "move", b)

\* "cards do not move between projects"
ReadForMove(r, b) == Home[b] = card.project /\ Read(r, "move", b)

\* "target board is in the same project; use MoveCard"
ReadForTransfer(r, b) == Home[b] # card.project /\ Read(r, "transfer", b)

-----------------------------------------------------------------------------
(* The writes.                                                             *)

Step(r, what) == pc[r] = "read" /\ op[r] = what

\* The row is gone when the statement runs: NotFound.
FoundNoRow(r) ==
    /\ pc[r] = "read"
    /\ ~Exists
    /\ pc' = [pc EXCEPT ![r] = "done"]
    /\ UNCHANGED <<card, log, requestVars, clientVars>>

\* Variant: the revision is computed from the one that was read.
ApplyUpdate_FromRead(r) ==
    /\ Step(r, "update") /\ Exists
    /\ card' = [card EXCEPT !.rev = seen[r].rev + 1, !.value = r]
    /\ newRev' = [newRev EXCEPT ![r] = seen[r].rev + 1]
    /\ pc' = [pc EXCEPT ![r] = "applied"]
    /\ UNCHANGED <<log, op, target, seen, clientVars>>

\* UpdateCard, first transaction: the card only.
ApplyUpdate(r) ==
    /\ Step(r, "update") /\ Exists
    /\ card' = [card EXCEPT !.rev = @ + 1, !.value = r]
    /\ newRev' = [newRev EXCEPT ![r] = card.rev + 1]
    /\ pc' = [pc EXCEPT ![r] = "applied"]
    /\ UNCHANGED <<log, op, target, seen, clientVars>>

EntryOf(r, kind, b, rev) ==
    [kind |-> kind, board |-> b, request |-> r, to |-> target[r], rev |-> rev]

\* Variant: the event carries the revision before the update.
RecordUpdate_PrevRevision(r) ==
    /\ pc[r] = "applied"
    /\ log' = Append(log, EntryOf(r, "updated", seen[r].board, seen[r].rev))
    /\ pc' = [pc EXCEPT ![r] = "done"]
    /\ UNCHANGED <<card, requestVars, clientVars>>

\* Variant: the event carries one revision too many.
RecordUpdate_NextRevision(r) ==
    /\ pc[r] = "applied"
    /\ log' = Append(log, EntryOf(r, "updated", seen[r].board, newRev[r] + 1))
    /\ pc' = [pc EXCEPT ![r] = "done"]
    /\ UNCHANGED <<card, requestVars, clientVars>>

\* UpdateCard, second transaction: the event, on the board that was read.
RecordUpdate(r) ==
    /\ pc[r] = "applied"
    /\ log' = Append(log, EntryOf(r, "updated", seen[r].board, newRev[r]))
    /\ pc' = [pc EXCEPT ![r] = "done"]
    /\ UNCHANGED <<card, requestVars, clientVars>>

\* Variant: fetch_one tolerates that the card is gone.
CommitMove_Unchecked(r) ==
    /\ Step(r, "move")
    /\ card' = [card EXCEPT !.rev = @ + 1, !.board = target[r]]
    /\ log' = Append(log, EntryOf(r, "moved", seen[r].board, card.rev + 1))
    /\ pc' = [pc EXCEPT ![r] = "done"]
    /\ UNCHANGED <<requestVars, clientVars>>

\* MoveCard re-homes the card within its project; CardMoved goes to the board
\* that was read.
CommitMove(r) ==
    /\ Step(r, "move") /\ Exists
    /\ card' = [card EXCEPT !.rev = @ + 1, !.board = target[r]]
    /\ log' = Append(log, EntryOf(r, "moved", seen[r].board, card.rev + 1))
    /\ pc' = [pc EXCEPT ![r] = "done"]
    /\ UNCHANGED <<requestVars, clientVars>>

\* TransferCard re-homes it to another project, with one event on each board.
CommitTransfer(r) ==
    /\ Step(r, "transfer") /\ Exists
    /\ card' = [card EXCEPT !.rev = @ + 1, !.board = target[r], !.project = Home[target[r]]]
    /\ log' = log \o <<EntryOf(r, "transferred", seen[r].board, card.rev + 1),
                       EntryOf(r, "transferred", target[r], card.rev + 1)>>
    /\ pc' = [pc EXCEPT ![r] = "done"]
    /\ UNCHANGED <<requestVars, clientVars>>

CommitDelete(r) ==
    /\ Step(r, "delete") /\ Exists
    /\ card' = [card EXCEPT !.board = NoBoard]
    /\ log' = Append(log, EntryOf(r, "deleted", seen[r].board, seen[r].rev))
    /\ pc' = [pc EXCEPT ![r] = "done"]
    /\ UNCHANGED <<requestVars, clientVars>>

\* The handler is dropped: an open transaction rolls back, a committed one
\* stays ("cut": the card has changed and no event will say so).
Drop(r) ==
    /\ r \in Running
    /\ pc' = [pc EXCEPT ![r] = IF @ = "applied" THEN "cut" ELSE "dropped"]
    /\ UNCHANGED <<card, log, requestVars, clientVars>>

-----------------------------------------------------------------------------
(* The client: "If a stream event has new_revision <= confirmed_revision   *)
(* -> ignore".  CardTransferred carries the whole card as it is when the   *)
(* event is dispatched, or no card once it is deleted.                     *)

Pending == client.next <= Len(log)
Event == log[client.next]

Apply(change) ==
    /\ client' = change
    /\ UNCHANGED <<card, log, pc, requestVars, overlap>>

DeliverPatch ==
    /\ Pending
    /\ client.has
    /\ Event.kind \in {"updated", "moved"}
    /\ LET fresh == Event.rev > client.confirmed
           next  == [client EXCEPT !.next = @ + 1]
           newer == [next EXCEPT !.confirmed = Event.rev]
       IN  Apply(IF ~fresh THEN next
                 ELSE IF Event.kind = "updated" THEN [newer EXCEPT !.value = Event.request]
                 ELSE [newer EXCEPT !.board = Event.to])

DeliverTransfer ==
    /\ Pending
    /\ client.has
    /\ Event.kind = "transferred"
    /\ Apply(IF Exists /\ card.rev > client.confirmed
             THEN [client EXCEPT !.next = @ + 1, !.confirmed = card.rev, !.value = card.value,
                                 !.board = card.board]
             ELSE [client EXCEPT !.next = @ + 1])

\* CardDeleted, and every event about a card the client no longer has.
DeliverDelete ==
    /\ Pending
    /\ Event.kind = "deleted" \/ ~client.has
    /\ Apply([client EXCEPT !.next = @ + 1, !.has = FALSE])

-----------------------------------------------------------------------------
Handle(r) ==
    \/ ReadForUpdate(r) \/ ReadForDelete(r)
    \/ \E b \in Board : ReadForMove(r, b) \/ ReadForTransfer(r, b)
    \/ FoundNoRow(r)
    \/ ApplyUpdate(r) \/ RecordUpdate(r)
    \/ CommitMove(r) \/ CommitTransfer(r) \/ CommitDelete(r)
    \/ Drop(r)

Next == (\E r \in Request : Handle(r)) \/ DeliverPatch \/ DeliverTransfer \/ DeliverDelete

Spec == Init /\ [][Next]_vars

-----------------------------------------------------------------------------
(* Properties.                                                             *)

\* Nothing is under way, everything was delivered, and no update was cut
\* between its two transactions.
Settled == ~Pending /\ Running = {} /\ \A r \in Request : pc[r] # "cut"

\* However requests overlap, no two of them report the same revision of the
\* card: the policy of the client can tell their events apart.
RevisionsDistinct ==
    \A i, j \in DOMAIN log :
        (log[i].request # log[j].request /\ "deleted" \notin {log[i].kind, log[j].kind})
            => log[i].rev # log[j].rev

\* However requests overlap, a client that has everything has confirmed the
\* last revision, so it never takes an old event for a new one later on.
ConfirmsLatest == Settled /\ Exists => client.confirmed = card.rev

\* CardDeleted is final: what commits after it on event_log is at most the
\* second half of an update that was applied before.
DeleteIsFinal ==
    \A i, j \in DOMAIN log :
        (i < j /\ log[i].kind = "deleted") => log[j].kind = "updated"

\* When requests do not overlap, a client that has everything has the card of the
\* server (when they do, the policy can drop a patch for good).
ClientConverges ==
    ~overlap /\ Settled /\ Exists =>
        client.has /\ client.value = card.value /\ client.board = card.board

\* move_card: "Cross-project moves rejected (card ref is immutable +
\* project-scoped)".  As long as requests do not overlap, a card is
\* on a board of its project, whatever is moved, transferred or dropped.
ProjectOfBoard == ~overlap /\ Exists => card.project = Home[card.board]

\* event_log.rs: a handler inserts its event_log row "in the same database
\* transaction as the entity write".
WriteIsLogged == [][card' # card => log' # log]_vars

\* The events of a card tell its requests apart, end with its deletion and leave a client
\* with the last revision; when requests do not overlap, also with the card itself, on a
\* board of its project.
EventsTellTheCard ==
    RevisionsDistinct /\ ConfirmsLatest /\ DeleteIsFinal /\ ClientConverges /\ ProjectOfBoard
=============================================================================
