------------------------------ MODULE MCPaths ------------------------------
(* Small instances of Paths for TLC: one tree that peer a offers, t1, one  *)
(* that b opens on request, n1, and one of the node's own, o1.              *)
EXTENDS Paths, TLC

CONSTANTS a, b, t1, n1, o1

(* Every tree is offered by one peer, which never changes its next hop.    *)
StaticOffers ==
    {[ip |-> a, tree |-> t1, next |-> b],
     [ip |-> b, tree |-> n1, next |-> ImmutableStorage]}

ASSUME StaticOffersAssumption ==
    Offers = StaticOffers => OneOfferer /\ SteadyOffers

(* Tree t1 is offered by both peers, a moves up in it, and a is a child of  *)
(* this node in tree o1.                                                   *)
ChangingOffers ==
    {[ip |-> a, tree |-> t1, next |-> b],
     [ip |-> a, tree |-> t1, next |-> ImmutableStorage],
     [ip |-> b, tree |-> t1, next |-> ImmutableStorage],
     [ip |-> a, tree |-> o1, next |-> Self]}

(* Tree t1 is offered by peer a alone, which moves up in it: every path of  *)
(* the tree leads to the peer at its connection, and a fix is all that can  *)
(* go wrong.                                                               *)
FixOffers == {o \in ChangingOffers : o.ip = a /\ o.tree = t1}

ASSUME FixOffersAssumption == Offers = FixOffers => OneOfferer
=============================================================================
