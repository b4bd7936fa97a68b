----------------------------- MODULE MCServing -----------------------------
(* Small instances of what serves every request: start-up and shutdown,    *)
(* authentication and permission checks, permission clients, the           *)
(* subscriber registry and the cutover tracker, attachments, the search    *)
(* index, and the pages of listings and searches.  They share no state:    *)
(* `part` says which of them a behaviour is of, the others rest in an      *)
(* initial state.                                                          *)
EXTENDS Cutover, Registry, Permissions, Requests, StartUp, Attachments,
        SearchIndex, SearchPaging, Paging, TLC

CONSTANTS key1, key2, m1, m2, m3, w1, w2, w3

VARIABLE part

servingVars ==
    <<part, cutoverVars, regVars, permVars, reqVars, upVars, attVars, ixVars, searchVars, pageVars>>

MCSymmetry == Permutations(Stream) \cup Permutations(Key)

\* The release of each pod: the second is a newer one.
MCReleaseOf == <<1, 2>>

MCNamespaceOf == [o \in ReqObject |-> IF o = "x" THEN "KanbanCard" ELSE "KanbanBoard"]

MCBoardOfFound == [d \in FoundCard |-> IF d % 2 = 0 THEN "b" ELSE "a"]

ServingInit ==
    /\ part \in {"cutover", "registry", "permissions", "requests", "startup", "attachments",
                "index", "search", "paging"}
    /\ CutoverInit
    /\ part # "cutover" => carries = [n \in 1..MaxSeq |-> m1]
    /\ RegInit
    /\ PermInit
    /\ part # "permissions" => tuples = {}
    /\ ReqInit /\ holds = {<<"KanbanCard", "x", "view">>}
    /\ UpInit
    /\ AttInit
    /\ IxInit
    /\ SearchInit
    /\ part # "search" => searchable = {} /\ openBoards = {} /\ granted = {}
    /\ PagingInit
    /\ part # "paging" => listing = "cards"

ServingNext ==
    /\ UNCHANGED part
    /\ \/ /\ part = "cutover" /\ CutoverNext
          /\ UNCHANGED <<regVars, permVars, reqVars, upVars, attVars, ixVars, searchVars, pageVars>>
       \/ /\ part = "registry" /\ RegNext
          /\ UNCHANGED <<cutoverVars, permVars, reqVars, upVars, attVars, ixVars, searchVars, pageVars>>
       \/ /\ part = "permissions" /\ PermNext
          /\ UNCHANGED <<cutoverVars, regVars, reqVars, upVars, attVars, ixVars, searchVars, pageVars>>
       \/ /\ part = "requests" /\ ReqNext
          /\ UNCHANGED <<cutoverVars, regVars, permVars, upVars, attVars, ixVars, searchVars, pageVars>>
       \/ /\ part = "startup" /\ UpNext
          /\ UNCHANGED <<cutoverVars, regVars, permVars, reqVars, attVars, ixVars, searchVars, pageVars>>
       \/ /\ part = "attachments" /\ AttNext
          /\ UNCHANGED <<cutoverVars, regVars, permVars, reqVars, upVars, ixVars, searchVars, pageVars>>
       \/ /\ part = "index" /\ IxNext
          /\ UNCHANGED <<cutoverVars, regVars, permVars, reqVars, upVars, attVars, searchVars, pageVars>>
       \/ /\ part = "search" /\ SearchNext
          /\ UNCHANGED <<cutoverVars, regVars, permVars, reqVars, upVars, attVars, ixVars, pageVars>>
       \/ /\ part = "paging" /\ PagingNext
          /\ UNCHANGED <<cutoverVars, regVars, permVars, reqVars, upVars, attVars, ixVars, searchVars>>

ServingSpec == ServingInit /\ [][ServingNext]_servingVars

-----------------------------------------------------------------------------
(* Properties.                                                             *)

\* Every component keeps its type.
ServingTypeOK ==
    /\ CutoverTypeOK /\ RegTypeOK /\ PermTypeOK /\ ReqTypeOK /\ UpTypeOK
    /\ AttTypeOK /\ IxTypeOK /\ SearchTypeOK /\ PagingTypeOK

\* Page by page a list or a search shows each row once and in order, none is left out
\* before it ends, and no hit is shown that could not be seen.
PagesAreSound ==
    [](ListedOnce /\ HitsInOrder /\ NoneSkipped) /\ HitsWereVisible
=============================================================================
