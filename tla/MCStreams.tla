----------------------------- MODULE MCStreams -----------------------------
(* Small instances of the three kinds of stream, and of who may follow     *)
(* one, for properties that need fairness.  The parts share no state:      *)
(* `stream` says which of them a behaviour is of, the others rest in an    *)
(* initial state.                                                          *)
EXTENDS BoardStream, AggregateStream, ProjectStream, StreamAccess, TLC

CONSTANTS k1, s1, e1, src1, src2, bd1, bd2

VARIABLE stream

boardStreamVars == vars
streamsVars == <<stream, boardStreamVars, aggVars, streamVars, accVars>>

MCProjectBoards == [b \in StreamBoard |-> IF b = bd1 THEN "there" ELSE "unborn"]

\* One of the initial states of StreamAccess
AtRest == following = "project" /\ ~openToAll /\ views

StreamsInit ==
    /\ stream \in {"board", "aggregate", "project", "access"}
    /\ Init
    /\ AggInit
    /\ StreamInit /\ boardIs = MCProjectBoards
    /\ AccInit /\ (stream # "access" => AtRest)

StreamsNext ==
    \/ stream = "board" /\ Next /\ UNCHANGED <<stream, aggVars, streamVars, accVars>>
    \/ stream = "aggregate" /\ AggNext /\ UNCHANGED <<stream, boardStreamVars, streamVars, accVars>>
    \/ stream = "project" /\ StreamNext /\ UNCHANGED <<stream, boardStreamVars, aggVars, accVars>>
    \/ stream = "access" /\ AccNext /\ UNCHANGED <<stream, boardStreamVars, aggVars, streamVars>>

\* At rest, no action that fairness is assumed of is enabled.
StreamsSpec ==
    StreamsInit /\ [][StreamsNext]_streamsVars
    /\ Fairness /\ AggFairness /\ StreamFairness /\ AccFairness

-----------------------------------------------------------------------------
(* Properties.                                                             *)

\* Every stream, channel and task keeps its type.
StreamsTypeOK == TypeOK /\ AggTypeOK /\ StreamTypeOK /\ AccTypeOK

\* What must end ends: the tasks of a merge with the next event after their client went, a
\* project stream with its last source, a stream with the view of its reader.
StreamsEnd == ReleasedByNextEvent /\ ChildReleased /\ EndsWithItsSources /\ RevokedStreamEnds
=============================================================================
