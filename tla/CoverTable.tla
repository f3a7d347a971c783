----------------------------- MODULE CoverTable -----------------------------
(***************************************************************************)
(* What a node promises about its cover table (n.covers in p2p/node.go):   *)
(* a set of at most MaxCovers peers, a peer enters only when it is not in  *)
(* the set and there is room, and it leaves one at a time.  A restart of   *)
(* the process loses the table, which is kept in memory only.              *)
(***************************************************************************)
EXTENDS Naturals, FiniteSets

CONSTANTS IP,         \* the addresses of the peers
          MaxCovers   \* MAXIMUM_NUMBER_OF_COVER_NODES

VARIABLE members      \* the peers that are covers of this node

Init == members = {}

Admit(ip) ==
    /\ ip \notin members
    /\ Cardinality(members) < MaxCovers
    /\ members' = members \cup {ip}

Release(ip) ==
    /\ ip \in members
    /\ members' = members \ {ip}

Lose == members' = {}

Next == Lose \/ \E ip \in IP : Admit(ip) \/ Release(ip)

Spec == Init /\ [][Next]_members
=============================================================================
