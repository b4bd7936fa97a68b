------------------------------ MODULE MCCards ------------------------------
(* Small instances of the models of the card service and of the board      *)
(* snapshot.  They share no state: `part` says which of them a behaviour   *)
(* is of, the others rest in an initial state.                             *)
EXTENDS CardEvents, BoardSnapshot, CardParts, CardRefs, CardProject, CardPatch, Idempotency, TLC

CONSTANTS b1, b2, b3, j1, j2, m1, m2, m3, q1, q2, c1, c2, i1, i2

VARIABLE part

cardsVars == <<part, vars, snapVars, partVars, refVars, tieVars, patchVars, idemVars>>

MCSymmetry == Permutations({m1, m2, m3}) \cup Permutations({q1, q2})

MCHome == (b1 :> j1) @@ (b2 :> j1) @@ (b3 :> j2)
MCMilestoneOf(m) == IF m = "mP" THEN "P" ELSE "Q"
MCLabelOf(l) == CASE l = "lP" -> "P" [] l = "lQ" -> "Q" [] l = "lG" -> "-"

\* The cards, boards and items are named so that c1 is on b1 and has i1.
MCPartsInit ==
    /\ PartsInit
    /\ cardRow[c1].board = b1
    /\ deps \in {{}, {<<c1, c2>>}}
    /\ items[i1].card = c1
    /\ \A k \in Comment : comments[k].card = c1

CardsInit ==
    /\ part \in {"events", "snapshot", "parts", "refs", "project", "patch", "idempotency"}
    /\ Init
    /\ part # "events" => target = [r \in Request |-> b1] /\ ~overlap
    /\ SnapInit
    /\ part # "snapshot" => col = [c \in Card |-> Off] /\ elsewhere = {}
    /\ MCPartsInit
    /\ part # "parts" => deps = {} /\ cardRow[c2].board = b1 /\ items[i1].pos = 0 /\ ~mayOverlap
    /\ RefsInit
    /\ TiesInit
    /\ part # "project" => home = "P"
    /\ PatchInit
    /\ IdemInit

CardsNext ==
    /\ UNCHANGED part
    /\ \/ /\ part = "events" /\ Next
          /\ UNCHANGED <<snapVars, partVars, refVars, tieVars, patchVars, idemVars>>
       \/ /\ part = "snapshot" /\ SnapNext
          /\ UNCHANGED <<vars, partVars, refVars, tieVars, patchVars, idemVars>>
       \/ /\ part = "parts" /\ PartsNext
          /\ UNCHANGED <<vars, snapVars, refVars, tieVars, patchVars, idemVars>>
       \/ /\ part = "refs" /\ RefsNext
          /\ UNCHANGED <<vars, snapVars, partVars, tieVars, patchVars, idemVars>>
       \/ /\ part = "project" /\ TiesNext
          /\ UNCHANGED <<vars, snapVars, partVars, refVars, patchVars, idemVars>>
       \/ /\ part = "patch" /\ PatchNext
          /\ UNCHANGED <<vars, snapVars, partVars, refVars, tieVars, idemVars>>
       \/ /\ part = "idempotency" /\ IdemNext
          /\ UNCHANGED <<vars, snapVars, partVars, refVars, tieVars, patchVars>>

CardsSpec == CardsInit /\ [][CardsNext]_cardsVars

-----------------------------------------------------------------------------
(* Properties.                                                             *)

\* Every row, event, request and client keeps its type.
CardsTypeOK ==
    TypeOK /\ SnapTypeOK /\ PartsTypeOK /\ RefsTypeOK /\ TiesTypeOK /\ PatchTypeOK /\ IdemTypeOK
=============================================================================
