-------------------------- MODULE KeyExchangeProofs --------------------------
(***************************************************************************)
(* The two ends of a key exchange get the same key, whatever the secrets,  *)
(* the base and the modulus.                                               *)
(*                                                                         *)
(* The powers that ModExp computes are a recursive function, so facts      *)
(* about them go by induction, here over a set of naturals (EveryNatural). *)
(***************************************************************************)
EXTENDS KeyExchange, Integers, TLAPS, WellFoundedInduction

(* Any set of natural numbers has a smallest one. *)
LEMMA Smallest ==
  ASSUME NEW T \in SUBSET Nat, T # {}
  PROVE  \E x \in T : \A y \in T : x <= y
<1>1. PICK x \in T : \A y \in T : <<y, x>> \notin OpToRel(<, Nat)
  BY NatLessThanWellFounded, WFMin
<1>2. ASSUME NEW y \in T PROVE x <= y
  <2>1. <<y, x>> \in Nat \X Nat
    OBVIOUS
  <2>2. ~(y < x)
    BY <1>1, <2>1 DEF OpToRel
  <2> QED BY <2>2
<1> QED BY <1>2

(* Induction: a set with 0 and all successors has every natural number. *)
LEMMA EveryNatural ==
  ASSUME NEW S \in SUBSET Nat, 0 \in S, \A n \in S : n + 1 \in S
  PROVE  S = Nat
<1> SUFFICES ASSUME Nat \ S # {} PROVE FALSE
  OBVIOUS
<1>1. PICK x \in Nat \ S : \A y \in Nat \ S : x <= y
  BY Smallest
<1>2. x # 0 /\ x - 1 \in Nat /\ x - 1 < x
  BY <1>1
<1>3. x - 1 \in S
  BY <1>1, <1>2
<1>4. x - 1 + 1 \in S
  BY <1>3
<1> QED BY <1>1, <1>2, <1>4

-----------------------------------------------------------------------------
(* Remainders *)

LEMMA Quotient ==
  ASSUME NEW x \in Nat, NEW p \in Nat \ {0}
  PROVE  /\ (x % p) \in 0..(p - 1) /\ (x % p) \in Nat
         /\ \E q \in Nat : x = p * q + (x % p)
<1>1. x = p * (x \div p) + (x % p) /\ (x % p) \in 0..(p - 1)
  OBVIOUS
<1>2. x \div p \in Nat
  OBVIOUS
<1>3. PICK q \in Nat : q = x \div p
  BY <1>2
<1>4. PICK r \in Nat : r = x % p
  OBVIOUS
<1>5. x = p * q + r
  BY <1>1, <1>3, <1>4
<1>6. r \in 0..(p - 1)
  BY <1>1, <1>4
<1> QED BY <1>3, <1>4, <1>5, <1>6

LEMMA Remainder ==
  ASSUME NEW p \in Nat \ {0}, NEW q \in Nat, NEW k \in Nat, NEW r \in Nat, NEW s \in Nat,
         r < p, s < p, p * q + r = p * k + s
  PROVE  r = s
<1>1. CASE q = k
  BY <1>1
<1>2. CASE q < k
  <2>1. PICK d \in Nat : d # 0 /\ k = q + d
    <3>1. k - q \in Nat /\ k - q # 0 /\ k = q + (k - q)
      BY <1>2
    <3> QED BY <3>1
  <2>2. p * k = p * q + p * d
    BY <2>1
  <2>3. p * d >= p
    BY <2>1
  <2> QED BY <2>2, <2>3
<1>3. CASE k < q
  <2>1. PICK d \in Nat : d # 0 /\ q = k + d
    <3>1. q - k \in Nat /\ q - k # 0 /\ q = k + (q - k)
      BY <1>3
    <3> QED BY <3>1
  <2>2. p * q = p * k + p * d
    BY <2>1
  <2>3. p * d >= p
    BY <2>1
  <2> QED BY <2>2, <2>3
<1> QED BY <1>1, <1>2, <1>3

LEMMA SameRemainder ==
  ASSUME NEW p \in Nat \ {0}, NEW q \in Nat, NEW z \in Nat
  PROVE  (p * q + z) % p = (z % p)
<1>1. PICK k \in Nat : z = p * k + (z % p)
  BY Quotient
<1>2. PICK x \in Nat : x = p * q + z
  OBVIOUS
<1>3. PICK l \in Nat : x = p * l + (x % p)
  BY Quotient
<1>4. x = p * (q + k) + (z % p)
  BY <1>1, <1>2
<1>5. (x % p) \in Nat /\ (x % p) < p /\ (z % p) \in Nat /\ (z % p) < p
  BY Quotient
<1>6. q + k \in Nat
  OBVIOUS
<1>7. (x % p) = (z % p)
  BY <1>3, <1>4, <1>5, <1>6, Remainder
<1> QED BY <1>2, <1>7

(* A factor may be reduced first. *)
LEMMA RemainderTimes ==
  ASSUME NEW x \in Nat, NEW y \in Nat, NEW p \in Nat \ {0}
  PROVE  (x * (y % p)) % p = (x * y) % p
<1>1. PICK q \in Nat : y = p * q + (y % p)
  BY Quotient
<1>2. PICK r \in Nat : r = (y % p)
  BY Quotient
<1>3. x * y = p * (x * q) + x * r
  BY <1>1, <1>2
<1>4. x * q \in Nat /\ x * r \in Nat
  OBVIOUS
<1>5. PICK z \in Nat : z = x * q
  BY <1>4
<1>6. PICK w \in Nat : w = x * r
  BY <1>4
<1>7. (p * z + w) % p = w % p
  BY SameRemainder
<1>8. (x * y) % p = (x * r) % p
  BY <1>3, <1>5, <1>6, <1>7
<1> QED BY <1>2, <1>8

LEMMA RemainderSmall ==
  ASSUME NEW p \in Nat \ {0}, NEW r \in Nat, r < p
  PROVE  r % p = r
<1>1. PICK q \in Nat : r = p * q + (r % p)
  BY Quotient
<1>2. (r % p) \in Nat /\ (r % p) < p
  BY Quotient
<1>3. p * q + (r % p) = p * 0 + r
  BY <1>1
<1> QED BY <1>2, <1>3, Remainder

-----------------------------------------------------------------------------
(* What ModExp computes *)

PowerStep(f, b, p, i) == IF i = 0 THEN 1 % p ELSE (b * f[i - 1]) % p
IsPowers(f, b, e, p) == f = [i \in 0..e |-> PowerStep(f, b, p, i)]

(* The function of the recursive definition exists and is unique. *)
LEMMA PowersUnique ==
  ASSUME NEW b, NEW e \in Nat, NEW p, NEW f, NEW h, IsPowers(f, b, e, p), IsPowers(h, b, e, p)
  PROVE  f = h
<1> DEFINE S == {i \in Nat : i \in 0..e => f[i] = h[i]}
<1>1. \A i \in 0..e : f[i] = PowerStep(f, b, p, i) /\ h[i] = PowerStep(h, b, p, i)
  BY DEF IsPowers
<1>2. 0 \in S
  BY <1>1 DEF PowerStep
<1>3. ASSUME NEW i \in S, i + 1 \in 0..e PROVE f[i + 1] = h[i + 1]
  <2>1. i \in 0..e /\ f[i] = h[i] /\ i + 1 # 0 /\ (i + 1) - 1 = i
    BY <1>3
  <2>2. f[i + 1] = (b * f[i]) % p /\ h[i + 1] = (b * h[i]) % p
    BY <1>1, <1>3, <2>1 DEF PowerStep
  <2> QED BY <2>1, <2>2
<1>4. \A i \in S : i + 1 \in S
  BY <1>3
<1>5. S \in SUBSET Nat
  OBVIOUS
<1> HIDE DEF S
<1>6. S = Nat
  BY <1>2, <1>4, <1>5, EveryNatural
<1>7. \A i \in 0..e : f[i] = h[i]
  BY <1>6 DEF S
<1> QED BY <1>7 DEF IsPowers

LEMMA PowersExist ==
  ASSUME NEW b \in Nat, NEW p \in Nat \ {0}, NEW e \in Nat
  PROVE  \E f \in [0..e -> Nat] : IsPowers(f, b, e, p)
<1> DEFINE S == {n \in Nat : \E f \in [0..n -> Nat] : IsPowers(f, b, n, p)}
<1>1. 0 \in S
  <2>1. PICK f : f = [i \in 0..0 |-> 1 % p]
    OBVIOUS
  <2>2. f \in [0..0 -> Nat] /\ IsPowers(f, b, 0, p)
    BY <2>1 DEF IsPowers, PowerStep
  <2> QED BY <2>2
<1>2. ASSUME NEW n \in S PROVE n + 1 \in S
  <2>1. PICK f \in [0..n -> Nat] : IsPowers(f, b, n, p)
    OBVIOUS
  <2>2. PICK h : h = [i \in 0..(n + 1) |-> IF i = n + 1 THEN (b * f[n]) % p ELSE f[i]]
    OBVIOUS
  <2>3. (b * f[n]) % p \in Nat /\ n \in Nat
    <3>1. b * f[n] \in Nat
      BY <2>1
    <3> QED BY <3>1, Quotient
  <2>4. h \in [0..(n + 1) -> Nat]
    BY <2>2, <2>3
  <2>5. ASSUME NEW i \in 0..(n + 1) PROVE h[i] = PowerStep(h, b, p, i)
    <3>1. CASE i = n + 1
      <4>1. i # 0 /\ i - 1 = n /\ h[n] = f[n] /\ h[i] = (b * f[n]) % p
        BY <2>2, <2>3, <3>1
      <4> QED BY <4>1 DEF PowerStep
    <3>2. CASE i # n + 1
      <4>1. i \in 0..n /\ h[i] = f[i] /\ (i # 0 => h[i - 1] = f[i - 1])
        BY <2>2, <2>3, <3>2
      <4>2. f[i] = PowerStep(f, b, p, i)
        BY <2>1, <4>1 DEF IsPowers
      <4> QED BY <4>1, <4>2 DEF PowerStep
    <3> QED BY <3>1, <3>2
  <2>6. IsPowers(h, b, n + 1, p)
    BY <2>2, <2>5 DEF IsPowers
  <2>7. n + 1 \in Nat
    BY <2>3
  <2> QED BY <2>4, <2>6, <2>7
<1>3. S \in SUBSET Nat
  OBVIOUS
<1> HIDE DEF S
<1>4. e \in S
  BY <1>1, <1>2, <1>3, EveryNatural
<1> QED BY <1>4 DEF S

(* So ModExp obeys it, for any length. *)
LEMMA IsModExp ==
  ASSUME NEW b \in Nat, NEW e \in Nat, NEW p \in Nat \ {0}, NEW f, IsPowers(f, b, e, p)
  PROVE  ModExp(b, e, p) = f[e]
<1> DEFINE power == CHOOSE h : h = [i \in 0..e |-> IF i = 0 THEN 1 % p ELSE (b * h[i - 1]) % p]
<1>1. power = f
  BY PowersUnique DEF IsPowers, PowerStep
<1>2. ModExp(b, e, p) = power[e]
  BY Zenon DEF ModExp
<1> QED BY <1>1, <1>2

LEMMA ModExpDef ==
  ASSUME NEW b \in Nat, NEW e \in Nat, NEW p \in Nat \ {0}
  PROVE  /\ ModExp(b, e, p) \in Nat
         /\ ModExp(b, 0, p) = 1 % p
         /\ ModExp(b, e + 1, p) = (b * ModExp(b, e, p)) % p
<1>1. e + 1 \in Nat /\ e \in 0..(e + 1) /\ e + 1 \in 0..(e + 1) /\ e + 1 # 0 /\ (e + 1) - 1 = e
  OBVIOUS
<1>2. PICK f \in [0..(e + 1) -> Nat] : IsPowers(f, b, e + 1, p)
  BY <1>1, PowersExist
<1>3. \A i \in 0..(e + 1) : f[i] = PowerStep(f, b, p, i)
  BY <1>2 DEF IsPowers
<1>4. ModExp(b, e + 1, p) = (b * f[e]) % p
  BY <1>1, <1>2, <1>3, IsModExp DEF PowerStep
<1>5. PICK h : h = [i \in 0..e |-> f[i]]
  OBVIOUS
<1>6. ASSUME NEW i \in 0..e PROVE h[i] = PowerStep(h, b, p, i)
  <2>1. i \in 0..(e + 1) /\ h[i] = f[i] /\ (i # 0 => h[i - 1] = f[i - 1])
    BY <1>5
  <2> QED BY <1>3, <2>1 DEF PowerStep
<1>7. IsPowers(h, b, e, p)
  BY <1>5, <1>6 DEF IsPowers
<1>8. ModExp(b, e, p) = f[e]
  BY <1>5, <1>7, IsModExp
<1>9. ModExp(b, 0, p) = 1 % p
  <2>1. PICK k \in [0..0 -> Nat] : IsPowers(k, b, 0, p)
    BY PowersExist
  <2>2. k[0] = 1 % p
    BY <2>1 DEF IsPowers, PowerStep
  <2> QED BY <2>1, <2>2, IsModExp
<1> QED BY <1>1, <1>2, <1>4, <1>8, <1>9

LEMMA ModExpSmall ==
  ASSUME NEW b \in Nat, NEW e \in Nat, NEW p \in Nat \ {0}
  PROVE  ModExp(b, e, p) % p = ModExp(b, e, p)
<1>1. PICK x \in Nat : ModExp(b, e, p) = x % p
  <2>1. CASE e = 0
    BY <2>1, ModExpDef
  <2>2. CASE e # 0
    <3>1. e - 1 \in Nat /\ (e - 1) + 1 = e
      BY <2>2
    <3>2. ModExp(b, e - 1, p) \in Nat /\ ModExp(b, e, p) = (b * ModExp(b, e - 1, p)) % p
      BY <3>1, ModExpDef
    <3> QED BY <3>2
  <2> QED BY <2>1, <2>2
<1>2. PICK y \in Nat : y = x % p
  OBVIOUS
<1>3. y < p
  BY <1>2, Quotient
<1>4. y % p = y
  BY <1>3, RemainderSmall
<1> QED BY <1>1, <1>2, <1>4

(* Powers are added and multiplied as exponents are. *)
LEMMA ModExpSum ==
  ASSUME NEW b \in Nat, NEW m \in Nat, NEW n \in Nat, NEW p \in Nat \ {0}
  PROVE  ModExp(b, m + n, p) = (ModExp(b, m, p) * ModExp(b, n, p)) % p
<1> DEFINE S == {k \in Nat : ModExp(b, m + k, p) = (ModExp(b, m, p) * ModExp(b, k, p)) % p}
<1>1. 0 \in S
  <2>1. PICK x \in Nat : x = ModExp(b, m, p)
    BY ModExpDef
  <2>2. (x * (1 % p)) % p = (x * 1) % p
    BY RemainderTimes
  <2>3. x % p = x
    BY <2>1, ModExpSmall
  <2>4. m + 0 = m /\ x * 1 = x /\ ModExp(b, 0, p) = 1 % p
    BY ModExpDef
  <2> QED BY <2>1, <2>2, <2>3, <2>4
<1>2. ASSUME NEW k \in S PROVE k + 1 \in S
  <2>1. k \in Nat /\ m + k \in Nat /\ m + (k + 1) = (m + k) + 1
    OBVIOUS
  <2>2. PICK x \in Nat : x = ModExp(b, m, p)
    BY ModExpDef
  <2>3. PICK y \in Nat : y = ModExp(b, k, p)
    BY <2>1, ModExpDef
  <2>4. ModExp(b, m + k, p) = (x * y) % p
    BY <2>2, <2>3
  <2>5. ModExp(b, m + (k + 1), p) = (b * ((x * y) % p)) % p
    <3>1. ModExp(b, (m + k) + 1, p) = (b * ModExp(b, m + k, p)) % p
      BY <2>1, ModExpDef
    <3> QED BY <2>1, <2>4, <3>1
  <2>6. x * y \in Nat /\ b * y \in Nat /\ b * (x * y) = x * (b * y)
    OBVIOUS
  <2>7. (b * ((x * y) % p)) % p = (b * (x * y)) % p
    BY <2>6, RemainderTimes
  <2>8. (x * ((b * y) % p)) % p = (x * (b * y)) % p
    BY <2>6, RemainderTimes
  <2>9. ModExp(b, k + 1, p) = (b * y) % p
    BY <2>1, <2>3, ModExpDef
  <2>10. ModExp(b, m + (k + 1), p) = (ModExp(b, m, p) * ModExp(b, k + 1, p)) % p
    BY <2>2, <2>5, <2>6, <2>7, <2>8, <2>9
  <2> QED BY <2>1, <2>10
<1>3. S \in SUBSET Nat
  OBVIOUS
<1> HIDE DEF S
<1>4. n \in S
  BY <1>1, <1>2, <1>3, EveryNatural
<1> QED BY <1>4 DEF S

LEMMA ModExpProduct ==
  ASSUME NEW b \in Nat, NEW m \in Nat, NEW n \in Nat, NEW p \in Nat \ {0}
  PROVE  ModExp(ModExp(b, m, p), n, p) = ModExp(b, m * n, p)
<1> DEFINE S == {k \in Nat : ModExp(ModExp(b, m, p), k, p) = ModExp(b, m * k, p)}
<1>1. PICK x \in Nat : x = ModExp(b, m, p)
  BY ModExpDef
<1>2. 0 \in S
  <2>1. ModExp(x, 0, p) = 1 % p /\ ModExp(b, 0, p) = 1 % p /\ m * 0 = 0
    BY ModExpDef
  <2> QED BY <1>1, <2>1
<1>3. ASSUME NEW k \in S PROVE k + 1 \in S
  <2>1. k \in Nat /\ m * k \in Nat /\ m * (k + 1) = m + m * k
    OBVIOUS
  <2>2. ModExp(x, k, p) = ModExp(b, m * k, p)
    BY <1>1
  <2>3. ModExp(x, k + 1, p) = (x * ModExp(b, m * k, p)) % p
    BY <2>1, <2>2, ModExpDef
  <2>4. ModExp(b, m + m * k, p) = (x * ModExp(b, m * k, p)) % p
    BY <1>1, <2>1, ModExpSum
  <2> QED BY <1>1, <2>1, <2>3, <2>4
<1>4. S \in SUBSET Nat
  OBVIOUS
<1> HIDE DEF S
<1>5. n \in S
  BY <1>2, <1>3, <1>4, EveryNatural
<1> QED BY <1>5 DEF S

(* NewKeyExchange, GenerateReturn and GetSymKey (codec.go): the node that   *)
(* asks and the node that answers get the same key, whatever the exchange. *)
THEOREM EndsAgree ==
  ASSUME NEW g \in Nat, NEW p \in Nat \ {0}, NEW mine \in Nat, NEW theirs \in Nat,
         NEW request, request = NewKeyExchange(g, p, mine)
  PROVE  GetSymKey(GenerateReturn(request, theirs), mine) = GetSymKey(request, theirs)
<1>1. GetSymKey(request, theirs) = ModExp(ModExp(g, mine, p), theirs, p)
  BY DEF GetSymKey, NewKeyExchange
<1>2. GetSymKey(GenerateReturn(request, theirs), mine)
        = ModExp(ModExp(g, theirs, p), mine, p)
  BY DEF GetSymKey, GenerateReturn, NewKeyExchange
<1>3. mine * theirs = theirs * mine
  OBVIOUS
<1> QED BY <1>1, <1>2, <1>3, ModExpProduct
=============================================================================
