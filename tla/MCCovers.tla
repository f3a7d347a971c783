------------------------------ MODULE MCCovers ------------------------------
(* Small instances of Covers for TLC. *)
EXTENDS Covers, TLC

(* Connections, addresses and the node's own trees are interchangeable.    *)
(* Used for invariants and for the refinement, whose every step keeps its  *)
(* truth when they are exchanged; not for liveness.                        *)
Interchangeable ==
    Permutations(Conn) \cup Permutations(IP) \cup Permutations(ProxyTree)
=============================================================================
