---------------------------- MODULE PublishBoard ----------------------------
(***************************************************************************)
(* What publishing promises.  A message leaves the node in one step, in    *)
(* which the node has enough covers and the path it takes; afterwards its  *)
(* job is decided once, success or timeout.  Covers and paths come and go; *)
(* a process that ends forgets everything.                                 *)
(***************************************************************************)
EXTENDS Naturals, FiniteSets

CONSTANTS Cover, Path, Job, MinCovers

VARIABLES
    covers,   \* the covers of the node
    paths,    \* the paths of the node
    board     \* job -> its outcome so far

vars == <<covers, paths, board>>

Init == covers = {} /\ paths = {} /\ board = [j \in Job |-> "none"]

NeighboursChange ==
    /\ covers' \in SUBSET Cover /\ paths' \in SUBSET Path
    /\ covers' = covers \/ paths' = paths
    /\ UNCHANGED board

Publish(j) ==
    /\ Cardinality(covers) >= MinCovers /\ paths # {}
    /\ board[j] = "none"
    /\ board' = [board EXCEPT ![j] = "published"]
    /\ UNCHANGED <<covers, paths>>

Decide(j) ==
    /\ board[j] = "published"
    /\ \E outcome \in {"success", "timeout"} : board' = [board EXCEPT ![j] = outcome]
    /\ UNCHANGED <<covers, paths>>

End ==
    /\ covers' = {} /\ paths' = {}
    /\ board' = [j \in Job |-> "none"]

Next == NeighboursChange \/ End \/ \E j \in Job : Publish(j) \/ Decide(j)

Spec == Init /\ [][Next]_vars
=============================================================================
