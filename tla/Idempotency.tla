------------------------------ MODULE Idempotency ------------------------------
(***************************************************************************)
(* One idempotency key of one tenant (table idempotency_keys) and the      *)
(* requests that carry it: CreateCard and the card edits (src/src/services *)
(* /cards.rs), CreateBoard and AddColumn (boards.rs), AddComment.          *)
(*                                                                         *)
(* Every handler looks the key up before it starts, does its work in a     *)
(* transaction, and stores the key after the commit, outside of it.  All   *)
(* of them share the table: the answer is the id of a card, board or       *)
(* column in response_card_id, or of a comment in response_payload.        *)
(*                                                                         *)
(* Abstracted: a request makes at most one thing, named after it; the      *)
(* requests of a key ask for the same thing, so the boards they make have  *)
(* one slug; keys are rows that never meet, so one of them is modelled.    *)
(***************************************************************************)
EXTENDS FiniteSets, Naturals

CONSTANTS
    IdemRequests   \* bound: the requests that carry the key

ASSUME IdemAssumption == IdemRequests \in Nat

\* The requests, in the order in which they look the key up.
IdemRequest == 1..IdemRequests

NoThing == 0

Family == {"card", "edit", "board", "column", "comment"}

VARIABLES
    made,         \* what the requests committed: rows made, edits applied
    there,        \* the rows still there
    stored,       \* the answer of the key: the request that stored it
    idemStep,     \* where a request stands
    family,       \* what it asks for
    reply,        \* the outcome it answers with
    lapses        \* what befell the key: overlap, a lost store, a deleted thing, mixed families

idemTables == <<made, there, stored>>
idemVars == <<idemTables, idemStep, family, reply, lapses>>

NoReply == [kind |-> "none", of |-> NoThing]

IdemTypeOK ==
    /\ there \subseteq made /\ made \subseteq IdemRequest
    /\ stored \in made \cup {NoThing}
    /\ idemStep \in [IdemRequest -> {"idle", "fresh", "committed", "done"}]
    /\ \A r \in made : idemStep[r] \in {"committed", "done"}
    /\ family \in [IdemRequest -> Family]
    /\ reply \in [IdemRequest -> [kind : {"none", "replay", "own", "notFound", "conflict", "error"},
                                  of : IdemRequest \cup {NoThing}]]

IdemInit ==
    /\ made = {} /\ there = {} /\ stored = NoThing
    /\ idemStep = [r \in IdemRequest |-> "idle"]
    /\ family = [r \in IdemRequest |-> "card"]
    /\ reply = [r \in IdemRequest |-> NoReply]
    /\ lapses = {}

Answers(r, kind, of) == reply' = [reply EXCEPT ![r] = [kind |-> kind, of |-> of]]

-----------------------------------------------------------------------------
(* What the lookup of request r finds, which asks for a f.                 *)

\* The stored id: only the column that the handler reads counts.
Recorded(f) == stored # NoThing /\ (f = "comment") = (family[stored] = "comment")

\* Variant: the id alone decides, whatever table it is of.
StillThere_AnyTable(f) == stored \in there

\* The row of the stored id in the table of the handler.
StillThere(f) == stored \in there /\ family[stored] = f

\* Variant: every handler wants to find the row of the stored id.
Replays_WhileThere(f) == Recorded(f) /\ StillThere(f)

\* CreateCard answers with the stored card or NotFound; an edit of a card is
\* taken for applied; the others start afresh when the row is not found.
Replays(f) == Recorded(f) /\ (f \in {"card", "edit"} \/ StillThere(f))

\* The lookup of the next request, before anything is locked.
LooksUp(r, f) ==
    /\ idemStep[r] = "idle" /\ \A q \in 1..(r - 1) : idemStep[q] # "idle"
    /\ family' = [family EXCEPT ![r] = f]
    /\ lapses' = lapses
         \cup (IF \E q \in IdemRequest : idemStep[q] \in {"fresh", "committed"} THEN {"overlap"} ELSE {})
         \cup (IF \E q \in 1..(r - 1) : family[q] # f THEN {"mixed"} ELSE {})

LookUpReplay(r) ==
    \E f \in Family :
        /\ LooksUp(r, f) /\ Replays(f)
        /\ IF f = "edit" \/ StillThere(f) THEN Answers(r, "replay", stored)
           ELSE Answers(r, "notFound", NoThing)
        /\ idemStep' = [idemStep EXCEPT ![r] = "done"]
        /\ UNCHANGED idemTables

LookUpFresh(r) ==
    \E f \in Family :
        /\ LooksUp(r, f) /\ ~Replays(f)
        /\ idemStep' = [idemStep EXCEPT ![r] = "fresh"]
        /\ UNCHANGED <<idemTables, reply>>

-----------------------------------------------------------------------------
(* The transaction, and the key after it.                                  *)

\* UNIQUE (project_id, slug): the second board of the name is refused.
SlugTaken(r) == family[r] = "board" /\ \E q \in there : family[q] = "board"

CommitThing(r) ==
    /\ idemStep[r] = "fresh" /\ ~SlugTaken(r)
    /\ made' = made \cup {r}
    /\ there' = IF family[r] = "edit" THEN there ELSE there \cup {r}
    /\ idemStep' = [idemStep EXCEPT ![r] = "committed"]
    /\ UNCHANGED <<stored, family, reply, lapses>>

RefuseBoard(r) ==
    /\ idemStep[r] = "fresh" /\ SlugTaken(r)
    /\ Answers(r, "conflict", NoThing)
    /\ idemStep' = [idemStep EXCEPT ![r] = "done"]
    /\ UNCHANGED <<idemTables, family, lapses>>

\* Variant: the key is stored although the transaction is rolled back.
FailEarly_Stores(r) ==
    /\ idemStep[r] = "fresh"
    /\ stored' = IF stored = NoThing THEN r ELSE stored
    /\ Answers(r, "error", NoThing)
    /\ idemStep' = [idemStep EXCEPT ![r] = "done"]
    /\ UNCHANGED <<made, there, family, lapses>>

\* The transaction is rolled back, or the pod dies before it commits.
FailEarly(r) ==
    /\ idemStep[r] = "fresh"
    /\ Answers(r, "error", NoThing)
    /\ idemStep' = [idemStep EXCEPT ![r] = "done"]
    /\ UNCHANGED <<idemTables, family, lapses>>

\* Variant: ON CONFLICT DO UPDATE.
KeptAnswer_Last(r) == r

\* ON CONFLICT DO NOTHING: the first answer stays.
KeptAnswer(r) == IF stored = NoThing THEN r ELSE stored

KeepKey(r) ==
    /\ idemStep[r] = "committed"
    /\ stored' = KeptAnswer(r)
    /\ Answers(r, "own", r)
    /\ idemStep' = [idemStep EXCEPT ![r] = "done"]
    /\ UNCHANGED <<made, there, family, lapses>>

\* A failed store is logged, and a handler that dies here stores nothing either.
LoseKey(r) ==
    /\ idemStep[r] = "committed"
    /\ Answers(r, "own", r)
    /\ lapses' = lapses \cup {"lost"}
    /\ idemStep' = [idemStep EXCEPT ![r] = "done"]
    /\ UNCHANGED <<idemTables, family>>

\* Somebody deletes what a request made; its key stays.
DeleteThing(r) ==
    /\ r \in there
    /\ there' = there \ {r}
    /\ lapses' = lapses \cup {"deleted"}
    /\ UNCHANGED <<made, stored, idemStep, family, reply>>

-----------------------------------------------------------------------------
IdemNext ==
    \E r \in IdemRequest :
        \/ LookUpReplay(r) \/ LookUpFresh(r) \/ CommitThing(r) \/ RefuseBoard(r) \/ FailEarly(r)
        \/ KeepKey(r) \/ LoseKey(r) \/ DeleteThing(r)

IdemSpec == IdemInit /\ [][IdemNext]_idemVars

-----------------------------------------------------------------------------
(* Properties.                                                             *)

\* A request and its retries, one after the other and with every key stored, have
\* one effect.  Cards are not even made again after they were deleted; a board, a
\* column or a comment is.
RetryAppliedOnce ==
    /\ lapses = {} => Cardinality(made) <= 1
    /\ lapses \subseteq {"deleted"} => Cardinality({r \in made : family[r] \in {"card", "edit"}}) <= 1

\* Requests that overlapped may each have made a card, but once one of them has
\* answered a retry, no later retry is answered with another.
RetriesAgree ==
    \A r \in IdemRequest : reply[r].kind = "replay" => reply[r].of = stored

\* However keys are shared between the services, a request is never answered with
\* the id of a thing of another kind.
AnswersOwnFamily ==
    \A r \in IdemRequest :
        (reply[r].kind = "replay" /\ family[r] # "edit") => family[reply[r].of] = family[r]

\* A replay vouches for work that was committed, and a card created with the key
\* is missed only when somebody deleted it.
ReplayVouches ==
    /\ \A r \in IdemRequest : reply[r].kind = "replay" => reply[r].of \in made
    /\ (lapses \cap {"deleted", "mixed"} = {}) => \A r \in IdemRequest : reply[r].kind # "notFound"

\* A request that is tried again with its key has one effect, is answered alike each time,
\* with a thing of its own kind that was committed.
RetriesAreSafe == RetryAppliedOnce /\ RetriesAgree /\ AnswersOwnFamily /\ ReplayVouches
=============================================================================
