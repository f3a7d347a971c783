---------------------------- MODULE MCHealthRounds ----------------------------
(* Two nodes, each the next hop of the other, in different trees. *)
EXTENDS HealthRounds

CONSTANTS a, b, w1

EachOther == [n \in Node |-> Node \ {n}]
=============================================================================
