------------------------------ MODULE MCRelay ------------------------------
(* Small instances of Relay for TLC: a proxy, two nodes below it, and a     *)
(* message.                                                                *)
EXTENDS Relay, TLC

CONSTANTS p, a, b, m1

(* The secrets of the two ends of each connection; g = 2, p = 13 give the   *)
(* keys 10, 5, 12, and 3, which has one digit less.                        *)
Secrets == <<<<5, 2>>, <<3, 3>>, <<2, 3>>, <<2, 2>>>>
Key(i) == [g |-> 2, p |-> 13, mine |-> Secrets[i][1], theirs |-> Secrets[i][2]]

LastKeyShort == [c \in Conn |-> Key(IF \A d \in Conn : d <= c THEN 4 ELSE c)]
FullKeys == [c \in Conn |-> Key(c)]

(* What follows once every message is settled says nothing new of messages. *)
Unsettled == \E m \in Msg : fate[m] = "unsent" \/ \E c \in Conn : m \in OnWire(c)

Leaves == Permutations({a, b})

(* The full keys are keys as the properties suppose them. *)
ASSUME FullKeysAssumption == Exchange = FullKeys => DistinctKeys /\ KeysEncrypt
=============================================================================
