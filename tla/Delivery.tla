------------------------------- MODULE Delivery -------------------------------
(***************************************************************************)
(* What the overlay promises for the messages given to it: once accepted,  *)
(* a message is settled at most once, stored by the proxy or given up, and *)
(* that is never revised.                                                  *)
(***************************************************************************)
CONSTANT Msg

VARIABLES accepted, settled, stored

vars == <<accepted, settled, stored>>

Init == accepted = {} /\ settled = {} /\ stored = {}

(* Publish returns a job. *)
Accept(m) ==
    /\ m \notin accepted
    /\ accepted' = accepted \cup {m}
    /\ UNCHANGED <<settled, stored>>

(* Publish has the message stored, or sends it to where nobody reads. *)
AcceptAndSettle(m) ==
    /\ m \notin accepted
    /\ accepted' = accepted \cup {m} /\ settled' = settled \cup {m}
    /\ stored' \in {stored, stored \cup {m}}

(* A worker that has ended may leave several messages behind. *)
GiveUp(gone) ==
    /\ gone \subseteq accepted \ settled
    /\ settled' = settled \cup gone
    /\ UNCHANGED <<accepted, stored>>

Store(m) ==
    /\ m \in accepted \ settled
    /\ settled' = settled \cup {m} /\ stored' = stored \cup {m}
    /\ UNCHANGED accepted

Next ==
    \/ \E m \in Msg : Accept(m) \/ AcceptAndSettle(m) \/ Store(m)
    \/ \E gone \in SUBSET Msg : GiveUp(gone)

Spec == Init /\ [][Next]_vars
=============================================================================
