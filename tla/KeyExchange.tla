----------------------------- MODULE KeyExchange -----------------------------
(***************************************************************************)
(* The Diffie-Hellman exchange that gives a connection its symmetric key,  *)
(* and the length of that key as bytes (p2p/codec.go).  A digit stands for *)
(* a byte: Base digits are told apart, KeySize of them make a key that     *)
(* aes.NewCipher takes.                                                    *)
(***************************************************************************)
EXTENDS Naturals

CONSTANTS Base, KeySize

ASSUME KeyExchangeAssumption == Base \in Nat \ {0, 1} /\ KeySize \in Nat \ {0}

(* big.Int.Exp(b, e, p) *)
ModExp(b, e, p) ==
    LET power[i \in 0..e] == IF i = 0 THEN 1 % p ELSE (b * power[i - 1]) % p
    IN  power[e]

NewKeyExchange(g, p, secret) ==
    [g |-> g, p |-> p, half |-> ModExp(g, secret, p)]

(* Mutant: the half key is built from the half key received. *)
ReturnFromHalf(dh, secret) == [dh EXCEPT !.half = ModExp(dh.half, secret, dh.p)]

(* The other end answers with the same g and p and its own half. *)
GenerateReturn(dh, secret) == [dh EXCEPT !.half = ModExp(dh.g, secret, dh.p)]

GetSymKey(dh, secret) == ModExp(dh.half, secret, dh.p)

(* len(key.Bytes()): leading zeros are dropped, and zero has no bytes. *)
KeyLength(key) ==
    CHOOSE l \in 0..KeySize : key < Base^l /\ (l = 0 \/ key >= Base^(l - 1))

(* SymmetricEncrypt and SymmetricDecrypt fail with any other key. *)
UsableKey(key) == KeyLength(key) = KeySize
=============================================================================
