------------------------------ MODULE MCOutbox ------------------------------
(* Small instances of Outbox for TLC.                                      *)
EXTENDS OutboxFeed, TLC

CONSTANTS b1, b2, j1, p1, p2

MCHome == (b1 :> j1) @@ (b2 :> j1)
MCHome1 == (b1 :> j1)
MCPods == Permutations({p1, p2})
=============================================================================
