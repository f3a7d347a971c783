------------------------------ MODULE PathTable ------------------------------
(***************************************************************************)
(* What a node promises about its path of one tree: its entry of n.paths   *)
(* and its open connection in n.openConnections (p2p/node.go).  Within one *)
(* life of the process a connection becomes the path once, by the peer it  *)
(* was opened to, and then the open connection once; a path that is gone   *)
(* or replaced does not come back; a tree of the node's own stays.         *)
(***************************************************************************)
CONSTANTS Hop, Conn,
          ImmutableStorage, None  \* the next hop of the node's own path; nothing

VARIABLES
    entry,    \* the path: None, or its next hop and its connection
    open,     \* the open connection, or None
    pending,  \* the connections that are paths, or were, and are to be opened
    used,     \* the connections of this life
    life      \* which life of the process this is

vars == <<entry, open, pending, used, life>>

Own == [next |-> ImmutableStorage, conn |-> None]

Init == entry = None /\ open = None /\ pending = {} /\ used = {}

(* A fresh connection becomes the path, over one that may be there, but not *)
(* over the node's own.                                                    *)
Connect(next, c) ==
    /\ entry = None \/ entry.conn # None
    /\ c \notin used
    /\ entry' = [next |-> next, conn |-> c]
    /\ pending' = pending \cup {c} /\ used' = used \cup {c}
    /\ UNCHANGED <<open, life>>

(* An accepted connection whose requester has given up. *)
Waste(c) ==
    /\ c \notin used /\ used' = used \cup {c}
    /\ UNCHANGED <<entry, open, pending, life>>

Open(c) ==
    /\ c \in pending
    /\ open' = c /\ pending' = pending \ {c}
    /\ UNCHANGED <<entry, used, life>>

Drop ==
    /\ entry \notin {None, Own} /\ entry' = None
    /\ UNCHANGED <<open, pending, used, life>>

BecomeProxy ==
    /\ entry = None /\ entry' = Own
    /\ UNCHANGED <<open, pending, used, life>>

(* The process ends, or starts anew; its connections may not be told apart  *)
(* from those of the life before.                                          *)
Lose ==
    /\ life' # life
    /\ entry' = None /\ open' = None /\ pending' = {} /\ used' \in {{}, used}

Next ==
    \/ \E c \in Conn : Waste(c) \/ Open(c) \/ \E next \in Hop : Connect(next, c)
    \/ Drop \/ BecomeProxy \/ Lose

Spec == Init /\ [][Next]_vars
=============================================================================
