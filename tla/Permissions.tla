------------------------------ MODULE Permissions ------------------------------
(***************************************************************************)
(* The client of the permission backend (src/src/auth/permission_client.rs *)
(* with the retries of src/src/auth/permission_retry.rs): the client of a  *)
(* tenant, built once however many requests ask for it first; grants that  *)
(* are retried after an error that may have come after the write; and the  *)
(* removal of the tuples of an object, page by page and one by one, while  *)
(* others grant and remove.                                                *)
(*                                                                         *)
(* Abstracted: a tuple is a number that stands for its subject; one tenant *)
(* and one object; every error is one that is_retryable; the delays.       *)
(***************************************************************************)
EXTENDS Naturals, FiniteSets

CONSTANTS
    Calls,        \* bound: calls of the service
    Subjects,     \* bound: subjects with a tuple on the object
    TuplePage,    \* tuples on a page (200 in production)
    MaxRetries,   \* attempts of one grant (8 in production)
    MaxErrors     \* bound: errors of the backend

ASSUME PermAssumption ==
    /\ Calls \in Nat /\ Subjects \in Nat /\ MaxErrors \in Nat
    /\ TuplePage \in Nat \ {0} /\ MaxRetries \in Nat \ {0}

Call == 1..Calls
Subject == 1..Subjects
\* The cell: nothing in it, somebody initialises it (a call), or it is set.
Unset == 0
IsSet == Calls + 1

All == 0   \* a removal with no subject filter

VARIABLES
    cell,       \* the OnceCell of the tenant: who initialises it, or whether it is set
    ensured,    \* the backend has the model of the namespace
    tuples,     \* the backend: subjects with the relation
    call,       \* what a call does and where it stands
    errors,
    everHeld,   \* ghost: subjects that had the relation while a call ran
    gaveBack    \* ghost: calls that hold a client of the tenant

permVars == <<cell, ensured, tuples, call, errors, everHeld, gaveBack>>

NoCall == [op |-> "none", subject |-> 0, step |-> "idle", attempt |-> 0, page |-> {}, after |-> 0, from |-> {}, last |-> TRUE]

PermTypeOK ==
    /\ cell \in Call \cup {Unset, IsSet}
    /\ ensured \in BOOLEAN
    /\ tuples \subseteq Subject
    /\ \A k \in Call :
         /\ call[k].op \in {"none", "grant", "remove"} /\ call[k].subject \in Subject \cup {All}
         /\ call[k].step \in {"idle", "client", "asking", "list", "delete", "ok", "failed"}
         /\ call[k].step = "asking" => call[k].attempt < MaxRetries
         /\ call[k].attempt <= MaxRetries /\ Cardinality(call[k].page) <= TuplePage
    /\ cell \in Call => call[cell].step = "client"
    /\ errors <= MaxErrors

PermInit ==
    /\ cell = Unset /\ ensured = FALSE
    /\ tuples \in SUBSET Subject
    /\ call = [k \in Call |-> NoCall]
    /\ errors = 0 /\ everHeld = [k \in Call |-> {}] /\ gaveBack = {}

Holds(ts) == [k \in Call |-> IF call[k].step \in {"asking", "list", "delete"} THEN everHeld[k] \cup ts ELSE everHeld[k]]

-----------------------------------------------------------------------------
\* A call needs the client of the tenant first.
Begin(k) ==
    /\ call[k].step = "idle" /\ \A j \in 1..(k - 1) : call[j].step # "idle"
    /\ \E op \in {"grant", "remove"}, s \in Subject \cup {All} :
         /\ op = "grant" => s # All
         /\ call' = [call EXCEPT ![k] = [NoCall EXCEPT !.op = op, !.subject = s, !.step = "client"]]
    /\ UNCHANGED <<cell, ensured, tuples, errors, everHeld, gaveBack>>

\* get_or_try_init: one call at a time builds the client and registers the namespace.
StartInit(k) ==
    /\ call[k].step = "client" /\ cell = Unset
    /\ cell' = k
    /\ UNCHANGED <<ensured, tuples, call, errors, everHeld, gaveBack>>

\* Variant: the client is kept before the namespace is registered.
KeptAfter_Error == IsSet

\* An initialisation that fails leaves the cell empty for the next call.
KeptAfter == Unset

EndInit(k) ==
    /\ cell = k
    /\ \/ /\ ensured' = TRUE /\ cell' = IsSet /\ UNCHANGED <<call, errors>>
       \/ /\ errors < MaxErrors /\ errors' = errors + 1
          /\ cell' = KeptAfter /\ UNCHANGED ensured
          /\ call' = [call EXCEPT ![k].step = "failed"]
    /\ UNCHANGED <<tuples, everHeld, gaveBack>>

HasClient(k) ==
    /\ call[k].step = "client" /\ cell = IsSet
    /\ gaveBack' = gaveBack \cup {k}
    /\ call' = [call EXCEPT ![k].step = IF call[k].op = "grant" THEN "asking" ELSE "list", ![k].from = tuples]
    /\ everHeld' = [everHeld EXCEPT ![k] = tuples]
    /\ UNCHANGED <<cell, ensured, tuples, errors>>

-----------------------------------------------------------------------------
\* Variant: an error that is not about the subject counts as "already there".
Tolerated_AnyError == TRUE

\* Only the refusal of a tuple that exists already is no error.
Tolerated == FALSE

\* Variant: one attempt too many.
Exhausted_After(attempts) == attempts > MaxRetries

Exhausted(attempts) == attempts = MaxRetries

\* grant_with_retry: each attempt may write the tuple, and its answer may be lost; an
\* error that does not look transient ends the call.
Grant(k) ==
    LET s == call[k].subject
    IN  /\ call[k].step = "asking"
        /\ \/ /\ tuples' = tuples \cup {s}
              /\ call' = [call EXCEPT ![k].step = "ok"]
              /\ UNCHANGED errors
           \/ /\ errors < MaxErrors /\ errors' = errors + 1
              /\ tuples' \in {tuples, tuples \cup {s}}
              /\ \E next \in {"asking", "failed"} :
                   call' = [call EXCEPT ![k].attempt = @ + 1,
                                        ![k].step = IF Tolerated THEN "ok"
                                                    ELSE IF Exhausted(call[k].attempt + 1) THEN "failed" ELSE next]
        /\ everHeld' = Holds(tuples')
        /\ UNCHANGED <<cell, ensured, gaveBack>>

\* The listing ignores the subject; the page begins after the token.
Listed(k) == {s \in tuples : s > call[k].after}

ListPage(k) ==
    LET first == {s \in Listed(k) : Cardinality({t \in Listed(k) : t <= s}) <= TuplePage}
    IN  /\ call[k].step = "list"
        /\ \/ /\ call' = [call EXCEPT ![k].page = first, ![k].step = "delete", ![k].last = (first = Listed(k)),
                                      ![k].after = IF first = {} THEN @ ELSE CHOOSE s \in first : \A t \in first : t <= s]
              /\ UNCHANGED errors
           \/ /\ errors < MaxErrors /\ errors' = errors + 1
              /\ call' = [call EXCEPT ![k].step = "failed", ![k].page = {}]
        /\ UNCHANGED <<cell, ensured, tuples, everHeld, gaveBack>>

\* Variant: the filter is lost on the way.
Matches_Any(k, s) == TRUE

\* The filter of the subject is applied to the page.
Matches(k, s) == call[k].subject \in {All, s}

\* Those of the page that match go one by one; an error leaves the rest.
DeleteTuple(k) ==
    \E s \in call[k].page :
        /\ call[k].step = "delete" /\ \A t \in call[k].page : s <= t
        /\ \/ /\ tuples' = IF Matches(k, s) THEN tuples \ {s} ELSE tuples
              /\ call' = [call EXCEPT ![k].page = @ \ {s}]
              /\ UNCHANGED errors
           \/ /\ Matches(k, s) /\ errors < MaxErrors /\ errors' = errors + 1
              /\ call' = [call EXCEPT ![k].step = "failed", ![k].page = {}]
              /\ UNCHANGED tuples
        /\ UNCHANGED <<cell, ensured, everHeld, gaveBack>>

\* Variant: a page on which nothing matched is taken for the end.
IsLastPage_Unmatched(k) == call[k].last \/ ~\E s \in call[k].from : Matches(k, s) /\ s <= call[k].after

\* next_page_token is empty
IsLastPage(k) == call[k].last

NextPage(k) ==
    /\ call[k].step = "delete" /\ call[k].page = {}
    /\ call' = [call EXCEPT ![k].step = IF IsLastPage(k) THEN "ok" ELSE "list"]
    /\ UNCHANGED <<cell, ensured, tuples, errors, everHeld, gaveBack>>

PermNext ==
    \E k \in Call :
        \/ Begin(k) \/ StartInit(k) \/ EndInit(k) \/ HasClient(k)
        \/ Grant(k) \/ ListPage(k) \/ DeleteTuple(k) \/ NextPage(k)

PermSpec == PermInit /\ [][PermNext]_permVars

-----------------------------------------------------------------------------
(* Properties.                                                             *)

\* Whoever holds the client of a tenant can rely on its namespace: the initialisations
\* of concurrent first calls fail and are taken over, and none passes on a half-made client.
ClientIsReady == gaveBack # {} => ensured

\* A grant that was answered is there, unless somebody removed it: an error that came
\* after the write, and the refusals it makes of the next attempt, change nothing.
GrantMeansHeld ==
    \A k \in Call : call[k].op = "grant" /\ call[k].step = "ok" => call[k].subject \in everHeld[k]

\* A removal that succeeded removed every matching tuple that was there when it began,
\* on whichever page, unless it was granted again meanwhile or afterwards.
RemovalIsComplete ==
    \A k \in Call : call[k].op = "remove" /\ call[k].step = "ok" =>
        \A s \in call[k].from \cap tuples : call[k].subject \in {All, s} =>
            \E j \in Call \ {k} : call[j].op = "grant" /\ call[j].subject = s

\* ... and nobody else's.
RemovesOnlyMatches ==
    [][\A s \in tuples \ tuples' : \E k \in Call : call[k].op = "remove" /\ call[k].subject \in {All, s}]_permVars

\* What the permission client answered is so, whatever failed and was tried again: a client
\* is ready, a grant holds, a removal removed all that matched and nothing else.
AnswersAreTrue ==
    [](ClientIsReady /\ GrantMeansHeld /\ RemovalIsComplete) /\ RemovesOnlyMatches
=============================================================================
