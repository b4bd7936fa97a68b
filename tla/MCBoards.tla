------------------------------ MODULE MCBoards ------------------------------
(* Small instances of what keeps boards, projects and aggregates in shape  *)
(* and of who is shown what and may change it: the layout of boards, the   *)
(* tuples of cards, the members of projects, the sources of aggregates;    *)
(* visibility, the catalogue, settings and GitHub links.  They share no    *)
(* state: `part` says which of them a behaviour is of, the others rest in  *)
(* an initial state.                                                       *)
EXTENDS BoardLayout, ParentTuples, ProjectMembers, AggregateSources,
        Visibility, Catalogue, Settings, GithubLinks, TLC

CONSTANTS m1, m2, m3, q1, q2, c1, c2, c3, b1, b2, b3, k1, k2, k3, owner, member

VARIABLE part

boardsVars == <<part, layVars, tupVars, memVars, srcVars, visVars, catVars, setVars, ghVars>>

MCSymmetry == Permutations({m1, m2, m3})

\* The cards, columns and boards are named so that c1 and c2 are on k1 of b1,
\* and k2 is on b2.  Requests one at a time find one column done and one not; when they
\* overlap no property looks at is_done.
MCLayInit ==
    /\ LayInit
    /\ layCards[c1].pos = 0 /\ layCards[c1].col = k1 /\ layCards[c1].board = b1
    /\ layCards[c2].pos = 1
    /\ layColumns[k2].board = b2
    /\ IF mode = "serial" THEN layColumns[k1].done # layColumns[k2].done
       ELSE ~layColumns[k1].done /\ ~layColumns[k2].done

\* Likewise the items i and j and the projects p and q: with an item of some project,
\* i is one, and of p.
MCHomes ==
    /\ itemHome["i"] # "q"
    /\ itemHome["i"] = EveryProject => itemHome["j"] = EveryProject

BoardsInit ==
    /\ part \in {"layout", "tuples", "members", "sources",
                "visibility", "catalogue", "settings", "links"}
    /\ MCLayInit
    /\ part # "layout" => mode = "any" /\ oneProject
    /\ TuplesInit /\ home[1] = b1
    /\ part # "tuples" => legacy = {}
    /\ MembersInit
    /\ part # "members" => ~memAlone
    /\ SourcesInit /\ place["a"] = 0 /\ place["b"] = 1
    /\ part # "sources" => place["c"] = Nowhere
    /\ VisInit /\ onBoard["c"] = "a"
    /\ part # "visibility" => viewable = {} /\ \A b \in VisBoard : visOf[b] = "private"
    /\ CatInit /\ MCHomes
    /\ part # "catalogue" => /\ catKind = "label" /\ there = {} /\ viewOf = {}
                            /\ itemHome["i"] = EveryProject
    /\ SetInit /\ scope # "q"
    /\ part # "settings" => setKind = "label" /\ scope = Tenant /\ manages = {}
    /\ GhInit /\ cardOn = "a"

BoardsNext ==
    /\ UNCHANGED part
    /\ \/ /\ part = "layout" /\ LayNext
          /\ UNCHANGED <<tupVars, memVars, srcVars, visVars, catVars, setVars, ghVars>>
       \/ /\ part = "tuples" /\ TuplesNext
          /\ UNCHANGED <<layVars, memVars, srcVars, visVars, catVars, setVars, ghVars>>
       \/ /\ part = "members" /\ MembersNext
          /\ UNCHANGED <<layVars, tupVars, srcVars, visVars, catVars, setVars, ghVars>>
       \/ /\ part = "sources" /\ SourcesNext
          /\ UNCHANGED <<layVars, tupVars, memVars, visVars, catVars, setVars, ghVars>>
       \/ /\ part = "visibility" /\ VisNext
          /\ UNCHANGED <<layVars, tupVars, memVars, srcVars, catVars, setVars, ghVars>>
       \/ /\ part = "catalogue" /\ CatNext
          /\ UNCHANGED <<layVars, tupVars, memVars, srcVars, visVars, setVars, ghVars>>
       \/ /\ part = "settings" /\ SetNext
          /\ UNCHANGED <<layVars, tupVars, memVars, srcVars, visVars, catVars, ghVars>>
       \/ /\ part = "links" /\ GhNext
          /\ UNCHANGED <<layVars, tupVars, memVars, srcVars, visVars, catVars, setVars>>

BoardsSpec == BoardsInit /\ [][BoardsNext]_boardsVars

-----------------------------------------------------------------------------
(* Properties.                                                             *)

\* Every table, request and reply keeps its type.
BoardsTypeOK ==
    /\ LayTypeOK /\ TuplesTypeOK /\ MembersTypeOK /\ SourcesTypeOK
    /\ VisTypeOK /\ CatTypeOK /\ SetTypeOK /\ GhTypeOK
=============================================================================
