--------------------------- MODULE CampaignProofs ---------------------------
(***************************************************************************)
(* Theorems about Campaign, for every protocol model (Injector, Width,     *)
(* Eager, Walk), both generators, and any width of the integers, and about *)
(* the generators (TSGenerator), for any number of injectors that an int   *)
(* has room for.                                                           *)
(***************************************************************************)
EXTENDS Campaign, Descent, TLAPS, FiniteSetTheorems, WellFoundedInduction

-----------------------------------------------------------------------------
(* What the test-case generators promise, for any number of injectors: the *)
(* EXECs below the next id go through the sets of faults, each set in      *)
(* exactly one EXEC.  For the exponential generator these are all sets of  *)
(* injectors, for the sequential one the sets with at most one injector.   *)

-----------------------------------------------------------------------------
(* Powers of two *)

\* The number of subsets doubles with every element.
LEMMA SubsetsDouble ==
  ASSUME NEW S, IsFiniteSet(S), NEW x, x \notin S
  PROVE  Cardinality(SUBSET (S \cup {x})) = 2 * Cardinality(SUBSET S)
<1> DEFINE P == (SUBSET S) \X (0 .. 1)
           f == [p \in P |-> IF p[2] = 1 THEN p[1] \cup {x} ELSE p[1]]
<1>1. IsFiniteSet(SUBSET S) /\ IsFiniteSet(0 .. 1) /\ Cardinality(0 .. 1) = 2
  <2>1. IsFiniteSet(SUBSET S)
    BY FS_SUBSET
  <2>2. {0} \cup {1} = 0 .. 1 /\ 1 \notin {0}
    OBVIOUS
  <2>3. IsFiniteSet({0}) /\ Cardinality({0}) = 1
    BY FS_Singleton
  <2>4. IsFiniteSet({0} \cup {1}) /\ Cardinality({0} \cup {1}) = 1 + 1
    BY <2>2, <2>3, FS_AddElement
  <2>5. IsFiniteSet(0 .. 1) /\ Cardinality(0 .. 1) = 1 + 1
    BY <2>2, <2>4, Zenon
  <2>6. 1 + 1 = 2
    OBVIOUS
  <2> QED BY <2>1, <2>5, <2>6, Zenon
<1>2. IsFiniteSet(P) /\ Cardinality(P) = Cardinality(SUBSET S) * 2
  BY <1>1, FS_Product
<1>3. f \in [P -> SUBSET (S \cup {x})]
  OBVIOUS
<1>4. ASSUME NEW p \in P, NEW q \in P, f[p] = f[q] PROVE p = q
  <2>1. /\ p[1] \in SUBSET S /\ q[1] \in SUBSET S
        /\ p[2] \in 0 .. 1 /\ q[2] \in 0 .. 1
        /\ p = <<p[1], p[2]>> /\ q = <<q[1], q[2]>>
    OBVIOUS
  <2>2. /\ f[p] = IF p[2] = 1 THEN p[1] \cup {x} ELSE p[1]
        /\ f[q] = IF q[2] = 1 THEN q[1] \cup {x} ELSE q[1]
    OBVIOUS
  <2> HIDE DEF f, P
  <2>3. p[2] = q[2]
    <3>1. x \notin p[1] /\ x \notin q[1]
      BY <2>1
    <3>2. (x \in f[p] <=> p[2] = 1) /\ (x \in f[q] <=> q[2] = 1)
      BY <2>2, <3>1
    <3>3. p[2] = 1 <=> q[2] = 1
      BY <1>4, <3>2
    <3>4. p[2] \in {0, 1} /\ q[2] \in {0, 1}
      BY <2>1
    <3> QED BY <3>3, <3>4
  <2>4. p[1] = q[1]
    BY <1>4, <2>1, <2>2, <2>3
  <2> QED BY <2>1, <2>3, <2>4
<1>5. ASSUME NEW A \in SUBSET (S \cup {x}) PROVE \E p \in P : f[p] = A
  <2>1. CASE x \in A
    <3>1. <<A \ {x}, 1>> \in P /\ f[<<A \ {x}, 1>>] = A
      BY <2>1
    <3> QED BY <3>1
  <2>2. CASE x \notin A
    <3>1. <<A, 0>> \in P /\ f[<<A, 0>>] = A
      BY <2>2
    <3> QED BY <3>1
  <2> QED BY <2>1, <2>2
<1> HIDE DEF f, P
<1>6. f \in Bijection(P, SUBSET (S \cup {x}))
  <2>1. f \in Injection(P, SUBSET (S \cup {x}))
    <3>1. \A p, q \in P : f[p] = f[q] => p = q
      BY <1>4, Zenon
    <3> QED BY <1>3, <3>1 DEF Injection, IsInjective
  <2>2. f \in Surjection(P, SUBSET (S \cup {x}))
    BY <1>3, <1>5, Zenon DEF Surjection
  <2> QED BY <2>1, <2>2, Zenon DEF Bijection
<1>7. Cardinality(SUBSET (S \cup {x})) = Cardinality(P)
  BY <1>2, <1>6, FS_Bijection DEF ExistsBijection
<1>8. Cardinality(SUBSET S) \in Nat
  BY <1>1, FS_CardinalityType
<1> QED BY <1>2, <1>7, <1>8

\* The laws of powers of two, from the numbers of subsets.
LEMMA Powers ==
  /\ 2 ^ 0 = 1
  /\ \A e \in Nat : 2 ^ e \in Nat \ {0} /\ 2 ^ (e + 1) = 2 * 2 ^ e
<1>1. ASSUME NEW e \in Nat
      PROVE  IsFiniteSet(1 .. e) /\ Cardinality(1 .. e) = e
  BY FS_Interval
<1>2. ASSUME NEW e \in Nat
      PROVE  2 ^ e = Cardinality(SUBSET (1 .. e)) /\ 2 ^ e \in Nat \ {0}
  <2>1. IsFiniteSet(SUBSET (1 .. e)) /\ Cardinality(SUBSET (1 .. e)) = 2 ^ e
    BY <1>1, FS_SUBSET
  <2>2. {} \in SUBSET (1 .. e)
    OBVIOUS
  <2> QED BY <2>1, <2>2, FS_CardinalityType, FS_EmptySet
<1>3. ASSUME NEW e \in Nat PROVE 2 ^ (e + 1) = 2 * 2 ^ e
  <2>1. 1 .. e + 1 = (1 .. e) \cup {e + 1} /\ e + 1 \notin 1 .. e /\ e + 1 \in Nat
    OBVIOUS
  <2>2. Cardinality(SUBSET ((1 .. e) \cup {e + 1})) = 2 * Cardinality(SUBSET (1 .. e))
    BY <1>1, <2>1, SubsetsDouble
  <2> QED BY <1>2, <2>1, <2>2
<1>4. 2 ^ 0 = 1
  OBVIOUS
<1> QED BY <1>2, <1>3, <1>4

\* int has at least one value.
LEMMA IntModulusType == IntModulus \in Nat \ {0}
BY Powers, IntBitsAssumption DEF IntModulus

-----------------------------------------------------------------------------
(* Bits *)

\* Integer division.
LEMMA Quotient ==
  ASSUME NEW a \in Nat, NEW p \in Nat \ {0}
  PROVE  /\ a \div p \in Nat
         /\ p * (a \div p) <= a
         /\ a < p * (a \div p) + p
BY Z3

\* A quotient is determined by these bounds.
LEMMA QuotientIs ==
  ASSUME NEW a \in Nat, NEW p \in Nat \ {0}, NEW q \in Nat,
         p * q <= a, a < p * q + p
  PROVE  a \div p = q
<1> DEFINE r == a \div p
<1>1. r \in Nat /\ p * r <= a /\ a < p * r + p
  BY Quotient
<1> HIDE DEF r
<1>2. CASE r < q
  <2>1. p * (r + 1) <= p * q
    BY <1>1, <1>2
  <2>2. p * (r + 1) = p * r + p
    BY <1>1
  <2> QED BY <1>1, <2>1, <2>2
<1>3. CASE q < r
  <2>1. p * (q + 1) <= p * r
    BY <1>1, <1>3
  <2>2. p * (q + 1) = p * q + p
    BY <1>1
  <2> QED BY <1>1, <2>1, <2>2
<1>4. r = q
  BY <1>1, <1>2, <1>3
<1> QED BY <1>4 DEF r

\* Dividing by the next power of two is halving once more.
LEMMA Halves ==
  ASSUME NEW a \in Nat, NEW p \in Nat \ {0}
  PROVE  a \div (2 * p) = (a \div p) \div 2
<1> DEFINE r == a \div p
           h == r \div 2
<1>1. r \in Nat /\ p * r <= a /\ a < p * r + p
  BY Quotient
<1>2. h \in Nat /\ 2 * h <= r /\ r < 2 * h + 2
  BY <1>1 DEF h
<1> HIDE DEF r, h
<1>3. p * (2 * h) <= p * r /\ p * (2 * h) = (2 * p) * h
  BY <1>1, <1>2
<1>4. p * (r + 1) <= p * (2 * h + 2)
  BY <1>1, <1>2
<1>5. p * (r + 1) = p * r + p /\ p * (2 * h + 2) = (2 * p) * h + 2 * p
  BY <1>1, <1>2
<1>6. (2 * p) * h <= a /\ a < (2 * p) * h + 2 * p /\ 2 * p \in Nat \ {0}
  <2>1. PICK x \in Int, y \in Int : x = (2 * p) * h /\ y = p * r
    BY <1>1, <1>2
  <2>2. x <= y /\ y + p <= x + 2 * p
    BY <1>3, <1>4, <1>5, <2>1
  <2>3. y <= a /\ a < y + p
    BY <1>1, <2>1
  <2>4. x <= a /\ a < x + 2 * p /\ 2 * p \in Nat \ {0}
    BY <2>2, <2>3
  <2> QED BY <2>1, <2>4
<1>7. a \div (2 * p) = h
  BY <1>2, <1>6, QuotientIs
<1> QED BY <1>7 DEF h, r

\* A set of numbers that is not empty has a least one.
LEMMA LeastNumber ==
  ASSUME NEW T \in SUBSET Nat, T # {}
  PROVE  \E x \in T : \A y \in T : x <= y
<1>1. PICK x \in T : \A y \in T : ~ (<<y, x>> \in OpToRel(<, Nat))
  BY NatLessThanWellFounded, WFMin, Zenon
<1>2. ASSUME NEW y \in T, y < x
      PROVE  <<y, x>> \in OpToRel(<, Nat)
  <2>1. <<y, x>> \in Nat \X Nat /\ <<y, x>>[1] < <<y, x>>[2]
    BY <1>2
  <2> QED BY <2>1, Zenon DEF OpToRel
<1>3. \A y \in T : ~ (y < x)
  BY <1>1, <1>2, Zenon
<1> QED BY <1>3

\* Exponents add up.
LEMMA PowerOfSum ==
  ASSUME NEW b \in Nat, NEW c \in Nat
  PROVE  2 ^ (b + c) = 2 ^ b * 2 ^ c
<1> DEFINE T == {x \in Nat : 2 ^ (b + x) # 2 ^ b * 2 ^ x}
<1>1. SUFFICES ASSUME T # {} PROVE FALSE
  OBVIOUS
<1>2. PICK x \in T : \A y \in T : x <= y
  BY <1>1, LeastNumber
<1>3. x \in Nat /\ 2 ^ (b + x) # 2 ^ b * 2 ^ x
  OBVIOUS
<1>4. 2 ^ b \in Nat /\ 2 ^ x \in Nat
  BY <1>3, Powers
<1>5. x # 0
  <2>1. b + 0 = b /\ 2 ^ b * 1 = 2 ^ b
    BY <1>4
  <2> QED BY <1>3, <2>1, Powers
<1>6. PICK y \in Nat : x = y + 1
  <2>1. x - 1 \in Nat /\ x = (x - 1) + 1
    BY <1>3, <1>5
  <2> QED BY <2>1
<1>7. 2 ^ (b + y) = 2 ^ b * 2 ^ y
  BY <1>2, <1>6
<1>8. /\ 2 ^ (y + 1) = 2 * 2 ^ y /\ 2 ^ y \in Nat
      /\ 2 ^ ((b + y) + 1) = 2 * 2 ^ (b + y)
      /\ b + (y + 1) = (b + y) + 1
  BY Powers
<1>9. PICK p \in Nat, q \in Nat : p = 2 ^ b /\ q = 2 ^ y
  BY <1>4, <1>8
<1>10. 2 * (p * q) = p * (2 * q)
  OBVIOUS
<1>11. 2 ^ (b + x) = 2 * (p * q) /\ 2 ^ x = 2 * q
  BY <1>6, <1>7, <1>8, <1>9
<1> QED BY <1>3, <1>9, <1>10, <1>11

\* A power of two has one bit.
LEMMA BitOfPower ==
  ASSUME NEW e \in Nat, NEW b \in Nat
  PROVE  Bit(2 ^ e, b) = IF b = e THEN 1 ELSE 0
<1>1. 2 ^ e \in Nat \ {0} /\ 2 ^ b \in Nat \ {0}
  BY Powers
<1>2. CASE b = e
  <2>1. PICK p \in Nat \ {0} : p = 2 ^ e
    BY <1>1
  <2>2. p * 1 <= p /\ p < p * 1 + p
    OBVIOUS
  <2>3. p \div p = 1
    BY <2>2, QuotientIs
  <2> QED BY <1>2, <2>1, <2>3 DEF Bit
<1>3. CASE b < e
  <2>1. PICK d \in Nat : e = b + (d + 1)
    <3>1. e - b - 1 \in Nat /\ e = b + ((e - b - 1) + 1)
      BY <1>3
    <3> QED BY <3>1
  <2>2. 2 ^ e = 2 ^ b * 2 ^ (d + 1) /\ 2 ^ (d + 1) = 2 * 2 ^ d /\ 2 ^ d \in Nat
    BY <2>1, Powers, PowerOfSum
  <2>3. PICK p \in Nat \ {0}, q \in Nat : p = 2 ^ b /\ q = 2 ^ d
    BY <1>1, <2>2
  <2>4. 2 ^ e = p * (2 * q)
    BY <2>2, <2>3
  <2>5. p * (2 * q) \in Nat /\ p * (2 * q) < p * (2 * q) + p /\ 2 * q \in Nat
    OBVIOUS
  <2>6. (p * (2 * q)) \div p = 2 * q
    BY <2>5, QuotientIs
  <2>7. (2 * q) % 2 = 0
    OBVIOUS
  <2>8. Bit(2 ^ e, b) = (2 * q) % 2
    BY <2>3, <2>4, <2>6, Zenon DEF Bit
  <2>9. b # e
    BY <1>3
  <2> QED BY <2>7, <2>8, <2>9, Zenon
<1>4. CASE e < b
  <2>1. PICK d \in Nat : b = e + (d + 1)
    <3>1. b - e - 1 \in Nat /\ b = e + ((b - e - 1) + 1)
      BY <1>4
    <3> QED BY <3>1
  <2>2. /\ 2 ^ b = 2 ^ e * 2 ^ (d + 1) /\ 2 ^ (d + 1) = 2 * 2 ^ d
        /\ 2 ^ d \in Nat \ {0}
    BY <2>1, Powers, PowerOfSum
  <2>3. PICK p \in Nat \ {0}, q \in Nat \ {0} : p = 2 ^ e /\ q = 2 ^ d
    BY <1>1, <2>2
  <2>4. 2 ^ b = p * (2 * q)
    BY <2>2, <2>3
  <2>5. p < p * (2 * q)
    OBVIOUS
  <2>6. p \div 2 ^ b = 0
    BY <1>1, <2>4, <2>5, QuotientIs
  <2>7. Bit(2 ^ e, b) = 0 % 2
    BY <2>3, <2>6, Zenon DEF Bit
  <2>8. b # e /\ 0 % 2 = 0
    BY <1>4
  <2> QED BY <2>7, <2>8, Zenon
<1> QED BY <1>2, <1>3, <1>4

\* Numbers below 2^k with the same k bits are equal.
LEMMA SameBits ==
  ASSUME NEW k \in Nat, NEW u \in 0 .. 2 ^ k - 1, NEW v \in 0 .. 2 ^ k - 1,
         \A e \in 0 .. k - 1 : Bit(u, e) = Bit(v, e)
  PROVE  u = v
<1> DEFINE T == {e \in 0 .. k : u \div 2 ^ e = v \div 2 ^ e}
<1>1. 2 ^ k \in Nat \ {0}
  BY Powers
<1>2. u \in Nat /\ v \in Nat /\ u < 2 ^ k /\ v < 2 ^ k
  BY <1>1
<1>3. k \in T
  <2>1. PICK p \in Nat \ {0} : p = 2 ^ k
    BY <1>1
  <2>2. p * 0 = 0
    OBVIOUS
  <2>3. u \div p = 0 /\ v \div p = 0
    BY <1>2, <2>1, <2>2, QuotientIs
  <2> QED BY <2>1, <2>3
<1>4. PICK e \in T : \A y \in T : e <= y
  <2>1. T \subseteq Nat
    OBVIOUS
  <2> QED BY <1>3, <2>1, LeastNumber
<1>5. e = 0
  <2>1. SUFFICES ASSUME e # 0 PROVE FALSE
    OBVIOUS
  <2>2. PICK d \in 0 .. k - 1 : e = d + 1
    <3>1. e - 1 \in 0 .. k - 1 /\ e = (e - 1) + 1
      BY <2>1
    <3> QED BY <3>1
  <2>3. 2 ^ e = 2 * 2 ^ d /\ 2 ^ d \in Nat \ {0}
    BY <2>2, Powers
  <2>4. PICK p \in Nat \ {0} : p = 2 ^ d
    BY <2>3
  <2>5. PICK a \in Nat, b \in Nat : a = u \div p /\ b = v \div p
    BY <1>2, Quotient
  <2>6. a \div 2 = b \div 2
    <3>1. u \div (2 * p) = v \div (2 * p)
      BY <2>3, <2>4
    <3>2. u \div (2 * p) = a \div 2 /\ v \div (2 * p) = b \div 2
      BY <1>2, <2>5, Halves
    <3> QED BY <3>1, <3>2
  <2>7. a % 2 = b % 2
    BY <2>2, <2>4, <2>5, Zenon DEF Bit
  <2>8. a = b
    BY <2>6, <2>7
  <2>9. d \in T
    BY <2>4, <2>5, <2>8
  <2> QED BY <1>4, <2>2, <2>9
<1>6. u \div 1 = v \div 1
  BY <1>5, Powers
<1> QED BY <1>2, <1>6

\* Every set of bits is the set of bits of one of these numbers.
LEMMA EverySetOfBits ==
  ASSUME NEW k \in Nat, NEW A \in SUBSET (0 .. k - 1)
  PROVE  \E u \in 0 .. 2 ^ k - 1 : \A e \in 0 .. k - 1 : Bit(u, e) = 1 <=> e \in A
<1> DEFINE U == 0 .. 2 ^ k - 1
           B == SUBSET (0 .. k - 1)
           f == [u \in U |-> {e \in 0 .. k - 1 : Bit(u, e) = 1}]
<1>1. 2 ^ k \in Nat \ {0}
  BY Powers
<1>2. IsFiniteSet(U) /\ Cardinality(U) = 2 ^ k
  <2>1. ASSUME NEW n \in Nat \ {0}
        PROVE  IsFiniteSet(0 .. n - 1) /\ Cardinality(0 .. n - 1) = n
    BY FS_Interval
  <2> QED BY <1>1, <2>1
<1>3. IsFiniteSet(B) /\ Cardinality(B) = 2 ^ k
  <2>1. IsFiniteSet(0 .. k - 1) /\ Cardinality(0 .. k - 1) = k
    BY FS_Interval
  <2> QED BY <2>1, FS_SUBSET
<1>4. f \in [U -> B]
  OBVIOUS
<1>5. ASSUME NEW u \in U, NEW v \in U, f[u] = f[v] PROVE u = v
  <2>1. ASSUME NEW e \in 0 .. k - 1 PROVE Bit(u, e) = Bit(v, e)
    <3>1. Bit(u, e) = 1 <=> Bit(v, e) = 1
      <4>1. e \in f[u] <=> e \in f[v]
        BY <1>5
      <4> QED BY <4>1
    <3>2. \A x \in U : Bit(x, e) \in {0, 1}
      <4>1. \A x \in U : x \in Nat
        BY <1>1
      <4>2. 2 ^ e \in Nat \ {0}
        BY Powers
      <4>3. \A x \in U : x \div 2 ^ e \in Nat
        BY <4>1, <4>2, Quotient
      <4>4. \A q \in Nat : q % 2 \in {0, 1}
        OBVIOUS
      <4> QED BY <4>3, <4>4 DEF Bit
    <3> QED BY <3>1, <3>2
  <2> QED BY <2>1, SameBits
<1> HIDE DEF U, B, f
<1>6. f \in Injection(U, B)
  <2>1. \A u, v \in U : f[u] = f[v] => u = v
    BY <1>5, Zenon
  <2> QED BY <1>4, <2>1 DEF Injection, IsInjective
<1>7. f \in Surjection(U, B)
  BY <1>2, <1>3, <1>6, FS_Injection
<1>8. PICK u \in U : f[u] = A
  BY <1>7 DEF Surjection, B
<1> QED BY <1>8 DEF f, U

-----------------------------------------------------------------------------
(* The promise of the generators *)

\* The first k ids that getNextInjectionId returns, and the one after them.
FirstIds(k) == IF Generator = "exp" THEN {2 ^ e : e \in 0 .. k - 1} ELSE 1 .. k
NextId(k) == IF Generator = "exp" THEN 2 ^ k ELSE k + 1

\* The number of injectors whose ids survive the conversion to int.
MaxFaults == IF Generator = "exp" THEN IntBits ELSE IntModulus - 1

\* The injectors of D that EXEC number u activates.
Active(u, D) == {id \in D : Enable(u, id)}

\* The sets of injectors that the generator is to activate together.
FaultSets(D) ==
    {A \in SUBSET D : Generator = "seq" => \A x, y \in A : x = y}

\* The ids of the exponential generator are enabled by their bit.
LEMMA EnabledBit ==
  ASSUME NEW e \in 0 .. IntBits - 1, NEW u \in Nat
  PROVE  ExpEnable(u, 2 ^ e) <=> Bit(u, e) = 1
<1>1. \A b \in 0 .. IntBits - 1 : Bit(2 ^ e, b) = IF b = e THEN 1 ELSE 0
  <2>1. ASSUME NEW b \in 0 .. IntBits - 1 PROVE b \in Nat /\ e \in Nat
    BY IntBitsAssumption
  <2> QED BY <2>1, BitOfPower
<1> QED BY <1>1 DEF ExpEnable

\* Handing out one more id.
LEMMA OneMoreId ==
  ASSUME NEW k \in Nat, k < MaxFaults
  PROVE  /\ FirstIds(k + 1) = FirstIds(k) \cup {NextId(k)}
         /\ NextId(k + 1) = AfterId(NextId(k))
<1>1. CASE Generator = "exp"
  <2>1. 0 .. (k + 1) - 1 = (0 .. k - 1) \cup {k}
    OBVIOUS
  <2>2. FirstIds(k + 1) = FirstIds(k) \cup {NextId(k)}
    BY <1>1, <2>1 DEF FirstIds, NextId
  <2>3. 2 ^ k # MaxId
    <3>1. k \in 0 .. IntBits - 1
      BY <1>1, IntBitsAssumption DEF MaxFaults
    <3>2. Bit(MaxId, k) = 0 /\ Bit(2 ^ k, k) = 1
      BY <3>1, MaxIdAssumption, BitOfPower
    <3> QED BY <3>2
  <2>4. NextId(k + 1) = AfterId(NextId(k))
    BY <1>1, <2>3, Powers DEF NextId, AfterId
  <2> QED BY <2>2, <2>4
<1>2. CASE Generator # "exp"
  BY <1>2 DEF FirstIds, NextId, AfterId
<1> QED BY <1>1, <1>2

\* Every set of faults that the generator is to enable is enabled in exactly
\* one EXEC, and in EXEC 0 none is: main's loop over u64 leaves out nothing
\* and repeats nothing, as long as the ids fit an int.
THEOREM EachFaultSetOnce ==
  ASSUME NEW k \in Nat, k <= MaxFaults
  PROVE  /\ Active(0, FirstIds(k)) = {}
         /\ \A u \in 0 .. NextId(k) - 1 :
               Active(u, FirstIds(k)) \in FaultSets(FirstIds(k))
         /\ \A A \in FaultSets(FirstIds(k)) :
               \E u \in 0 .. NextId(k) - 1 : Active(u, FirstIds(k)) = A
         /\ \A u, v \in 0 .. NextId(k) - 1 :
               Active(u, FirstIds(k)) = Active(v, FirstIds(k)) => u = v
<1> DEFINE D == FirstIds(k)
           U == 0 .. NextId(k) - 1
<1>1. CASE Generator = "exp"
  <2>1. 0 .. k - 1 \subseteq 0 .. IntBits - 1 /\ 2 ^ k \in Nat \ {0}
    BY <1>1, IntBitsAssumption, Powers DEF MaxFaults
  <2>2. D = {2 ^ e : e \in 0 .. k - 1} /\ U = 0 .. 2 ^ k - 1 /\ U \subseteq Nat
    BY <1>1, <2>1 DEF FirstIds, NextId
  <2> HIDE DEF D, U
  <2>3. ASSUME NEW u \in Nat, NEW e \in 0 .. k - 1
        PROVE  2 ^ e \in Active(u, D) <=> Bit(u, e) = 1
    BY <1>1, <2>1, <2>2, EnabledBit DEF Active, Enable
  <2>4. \A u : Active(u, D) \subseteq D
    BY DEF Active
  <2>5. Active(0, D) = {}
    <3>1. ASSUME NEW e \in 0 .. k - 1 PROVE Bit(0, e) # 1
      <4>1. PICK p \in Nat \ {0} : p = 2 ^ e
        BY Powers
      <4>2. p * 0 = 0 /\ 0 < p
        OBVIOUS
      <4>3. 0 \div p = 0 /\ 0 % 2 = 0
        BY <4>2, QuotientIs
      <4> QED BY <4>1, <4>3 DEF Bit
    <3> QED BY <2>2, <2>3, <2>4, <3>1
  <2>6. ASSUME NEW u \in U PROVE Active(u, D) \in FaultSets(D)
    BY <1>1, <2>4 DEF FaultSets
  <2>7. ASSUME NEW A \in FaultSets(D)
        PROVE  \E u \in U : Active(u, D) = A
    <3> DEFINE E == {e \in 0 .. k - 1 : 2 ^ e \in A}
    <3>1. PICK u \in U : \A e \in 0 .. k - 1 : Bit(u, e) = 1 <=> e \in E
      BY <2>2, EverySetOfBits
    <3>2. \A e \in 0 .. k - 1 : 2 ^ e \in Active(u, D) <=> 2 ^ e \in A
      BY <2>2, <2>3, <3>1
    <3>3. A \subseteq D
      BY DEF FaultSets
    <3>4. Active(u, D) = A
      <4>1. \A id \in D : id \in Active(u, D) <=> id \in A
        BY <2>2, <3>2
      <4>2. Active(u, D) \subseteq D
        BY <2>4
      <4> QED BY <3>3, <4>1, <4>2
    <3> QED BY <3>4
  <2>8. ASSUME NEW u \in U, NEW v \in U, Active(u, D) = Active(v, D)
        PROVE  u = v
    <3>1. ASSUME NEW e \in 0 .. k - 1 PROVE Bit(u, e) = Bit(v, e)
      <4>1. Bit(u, e) = 1 <=> Bit(v, e) = 1
        BY <2>2, <2>3, <2>8
      <4>2. u \div 2 ^ e \in Nat /\ v \div 2 ^ e \in Nat
        BY <2>2, Powers, Quotient
      <4>3. \A q \in Nat : q % 2 \in {0, 1}
        OBVIOUS
      <4> QED BY <4>1, <4>2, <4>3 DEF Bit
    <3> QED BY <2>2, <3>1, SameBits
  <2> QED BY <2>5, <2>6, <2>7, <2>8 DEF D, U
<1>2. CASE Generator = "seq"
  <2>1. D = 1 .. k /\ U = 0 .. k /\ k < IntModulus /\ IntModulus \in Nat \ {0}
    BY <1>2, IntModulusType DEF FirstIds, NextId, MaxFaults
  <2> HIDE DEF D, U
  <2>2. ASSUME NEW m \in Nat \ {0}, NEW x \in 0 .. m - 1 PROVE x % m = x
    BY Z3
  <2>3. ASSUME NEW u \in U, NEW id \in D
        PROVE  id \in Active(u, D) <=> u = id
    <3>1. u \in 0 .. IntModulus - 1 /\ id \in 0 .. IntModulus - 1
      BY <2>1
    <3>2. u % IntModulus = u /\ id % IntModulus = id
      BY <2>1, <2>2, <3>1
    <3> QED BY <1>2, <3>2 DEF Active, Enable, SeqEnable
  <2>4. \A u : Active(u, D) \subseteq D
    BY DEF Active
  <2>5. Active(0, D) = {} /\ \A u \in D : u \in U /\ Active(u, D) = {u}
    BY <2>1, <2>3, <2>4
  <2>6. \A u \in U : u = 0 \/ u \in D
    BY <2>1
  <2>7. ASSUME NEW u \in U PROVE Active(u, D) \in FaultSets(D)
    BY <2>4, <2>5, <2>6 DEF FaultSets
  <2>8. ASSUME NEW A \in FaultSets(D)
        PROVE  \E u \in U : Active(u, D) = A
    <3>1. A \subseteq D /\ \A x, y \in A : x = y
      BY <1>2 DEF FaultSets
    <3>2. CASE A = {}
      BY <2>1, <2>5, <3>2
    <3>3. CASE A # {}
      <4>1. PICK x \in A : TRUE
        BY <3>3
      <4>2. A = {x} /\ x \in D
        BY <3>1
      <4> QED BY <2>5, <4>2
    <3> QED BY <3>2, <3>3
  <2>9. ASSUME NEW u \in U, NEW v \in U, Active(u, D) = Active(v, D)
        PROVE  u = v
    BY <2>5, <2>6, <2>9
  <2> QED BY <2>5, <2>7, <2>8, <2>9 DEF D, U
<1> QED BY <1>1, <1>2, GeneratorAssumption

-----------------------------------------------------------------------------
(* TestCaseManager::updateInjectorState is a correct odometer: for any set  *)
(* of active injectors and any number of alternatives of each of them, one  *)
(* call moves the counters to the immediate successor, in lexicographic     *)
(* order, of the combination of anomalies they stood for, or back to the    *)
(* first combination when there is no successor.                            *)

\* The combinations of the wheels S, wheel k showing 1 .. n[k] - 1.
Digits(S, n) == {c \in [S -> Nat] : \A k \in S : 1 <= c[k] /\ c[k] < n[k]}

\* Lexicographic order; the greatest id is the most significant.
LexLess(S, c, d) ==
    \E k \in S : c[k] < d[k] /\ \A j \in S : k < j => c[j] = d[j]

\* The combinations before s.
Before(S, n, s) == {c \in Digits(S, n) : LexLess(S, c, s)}

\* The combination after s, wheel by wheel.
Wraps(n, s, k) == s[k] + 1 >= n[k]
Successor(S, n, s) ==
    [k \in S |-> IF \A j \in S : j < k => Wraps(n, s, j)
                 THEN IF Wraps(n, s, k) THEN 1 ELSE s[k] + 1
                 ELSE s[k]]

\* A nonempty set of naturals has a least element.
LEMMA LeastElement ==
  ASSUME NEW T, T \subseteq Nat, T # {}
  PROVE  \E x \in T : \A y \in T : x <= y
<1> DEFINE R == {ss \in Nat \X Nat : ss[1] < ss[2]}
<1>1. OpToRel(<, Nat) = R
  BY Zenon DEF OpToRel
<1>2. IsWellFoundedOn(R, Nat)
  BY <1>1, NatLessThanWellFounded, Zenon
<1> HIDE DEF R
<1>3. PICK x \in T : \A y \in T : ~ (<<y, x>> \in R)
  BY <1>2, WFMin, Zenon
<1>4. ASSUME NEW y \in T PROVE x <= y
  <2>1. ~ (<<y, x>> \in R)
    BY <1>3
  <2>2. <<y, x>> \in Nat \X Nat
    OBVIOUS
  <2>3. ~ (y < x)
    BY <2>1, <2>2 DEF R
  <2> QED BY <2>3
<1> QED BY <1>4

\* A nonempty set of naturals with an upper bound has a greatest element.
LEMMA GreatestElement ==
  ASSUME NEW T, T \subseteq Nat, T # {}, NEW m \in Nat, \A y \in T : y <= m
  PROVE  \E x \in T : \A y \in T : y <= x
<1> DEFINE U == {m - y : y \in T}
<1>1. U \subseteq Nat /\ U # {}
  <2>1. ASSUME NEW y \in T PROVE m - y \in Nat
    OBVIOUS
  <2>2. PICK y \in T : TRUE
    OBVIOUS
  <2>3. m - y \in U
    OBVIOUS
  <2> QED BY <2>1, <2>3
<1>2. PICK u \in U : \A w \in U : u <= w
  BY <1>1, LeastElement
<1>3. PICK x \in T : u = m - x
  OBVIOUS
<1>4. ASSUME NEW y \in T PROVE y <= x
  <2>1. m - y \in U
    OBVIOUS
  <2>2. m - x <= m - y
    BY <1>2, <1>3, <2>1
  <2>3. x \in Nat /\ y \in Nat
    OBVIOUS
  <2> HIDE DEF U
  <2> QED BY <2>2, <2>3, SMT
<1> QED BY <1>4

\* Two combinations that agree on every wheel are equal.
LEMMA SameCombination ==
  ASSUME NEW S, NEW c \in [S -> Nat], NEW s \in [S -> Nat],
         \A j \in S : c[j] = s[j]
  PROVE  c = s
OBVIOUS

\* Among the wheels up to m, k is the highest on which c and s differ.
HighestAt(S, m, c, s, k) ==
    /\ k <= m
    /\ c[k] # s[k]
    /\ \A j \in S : k < j /\ j <= m => c[j] = s[j]

\* Up to a wheel m, two combinations that differ have a highest difference.
LEMMA HighestDifference ==
  ASSUME NEW S, S \subseteq Nat, NEW m \in Nat,
         NEW c \in [S -> Nat], NEW s \in [S -> Nat],
         \E j \in S : j <= m /\ c[j] # s[j]
  PROVE  \E k \in S : HighestAt(S, m, c, s, k)
<1> DEFINE D == {j \in S : j <= m /\ c[j] # s[j]}
<1>1. D \subseteq Nat /\ D # {} /\ \A y \in D : y <= m
  OBVIOUS
<1>2. PICK k \in D : \A y \in D : y <= k
  BY <1>1, GreatestElement
<1>3. ASSUME NEW j \in S, k < j, j <= m PROVE c[j] = s[j]
  <2>1. j \notin D
    BY <1>2, <1>3
  <2> QED BY <2>1, <1>3
<1> QED BY <1>2, <1>3 DEF HighestAt

-----------------------------------------------------------------------------

\* The odometer step when some wheel does not wrap: nothing lies between a
\* combination and its successor.
LEMMA SuccessorIsNext ==
  ASSUME NEW S, S \subseteq Nat,
         NEW n \in [S -> Int], NEW s \in Digits(S, n),
         NEW k \in S, ~ Wraps(n, s, k),
         \A j \in S : j < k => Wraps(n, s, j)
  PROVE  /\ Successor(S, n, s) \in Digits(S, n)
         /\ Before(S, n, Successor(S, n, s)) = Before(S, n, s) \cup {s}
<1> DEFINE t == Successor(S, n, s)
<1>1. s \in [S -> Nat] /\ \A j \in S : 1 <= s[j] /\ s[j] < n[j]
  BY DEF Digits
<1>2. /\ \A j \in S : j < k => t[j] = 1 /\ s[j] + 1 >= n[j]
      /\ t[k] = s[k] + 1
      /\ \A j \in S : k < j => t[j] = s[j]
  BY <1>1 DEF Successor, Wraps
<1>3. t \in Digits(S, n)
  BY <1>1 DEF Successor, Wraps, Digits
<1> HIDE DEF t
<1>4. ASSUME NEW c \in Digits(S, n), LexLess(S, c, t)
      PROVE  LexLess(S, c, s) \/ c = s
  <2>1. PICK p \in S : c[p] < t[p] /\ \A j \in S : p < j => c[j] = t[j]
    BY <1>4 DEF LexLess
  <2>2. c \in [S -> Nat] /\ \A j \in S : 1 <= c[j] /\ c[j] < n[j]
    BY DEF Digits
  <2>3. CASE p < k
    BY <1>2, <2>1, <2>2, <2>3
  <2>4. CASE k < p
    BY <1>1, <1>2, <2>1, <2>2, <2>4 DEF LexLess
  <2>5. CASE p = k
    <3>1. c[k] <= s[k] /\ \A j \in S : k < j => c[j] = s[j]
      BY <1>1, <1>2, <2>1, <2>2, <2>5
    <3>2. CASE \A j \in S : j <= k => c[j] = s[j]
      <4>1. \A j \in S : c[j] = s[j]
        BY <3>1, <3>2
      <4>2. c = s
        <5>1. c \in [S -> Nat] /\ s \in [S -> Nat]
          BY <1>1, <2>2
        <5> QED BY ONLY <4>1, <5>1, SameCombination
      <4> QED BY <4>2
    <3>3. CASE \E j \in S : j <= k /\ c[j] # s[j]
      <4>1. PICK h \in S : HighestAt(S, k, c, s, h)
        <5>1. k \in Nat /\ c \in [S -> Nat] /\ s \in [S -> Nat]
          BY <1>1, <2>2
        <5>2. S \subseteq Nat
          OBVIOUS
        <5> QED BY <5>1, <5>2, <3>3, HighestDifference
      <4>2. c[h] < s[h]
        BY <4>1, <3>1, <1>1, <1>2, <2>2 DEF HighestAt
      <4>3. \A j \in S : h < j => c[j] = s[j]
        BY <4>1, <3>1 DEF HighestAt
      <4> QED BY <4>2, <4>3 DEF LexLess
    <3> QED BY <3>2, <3>3
  <2> QED BY <2>3, <2>4, <2>5
<1>5. ASSUME NEW c \in Digits(S, n), LexLess(S, c, s) \/ c = s
      PROVE  LexLess(S, c, t)
  <2>1. c \in [S -> Nat] /\ \A j \in S : 1 <= c[j] /\ c[j] < n[j]
    BY DEF Digits
  <2>2. CASE c = s
    BY <1>1, <1>2, <2>2 DEF LexLess
  <2>3. CASE LexLess(S, c, s)
    <3>1. PICK p \in S : c[p] < s[p] /\ \A j \in S : p < j => c[j] = s[j]
      BY <2>3 DEF LexLess
    <3>2. CASE k < p
      BY <1>1, <1>2, <2>1, <3>1, <3>2 DEF LexLess
    <3>3. CASE p <= k
      <4>1. c[k] < t[k] /\ \A j \in S : k < j => c[j] = t[j]
        BY <1>1, <1>2, <2>1, <3>1, <3>3
      <4> QED BY <4>1 DEF LexLess
    <3> QED BY <3>2, <3>3
  <2> QED BY <1>5, <2>2, <2>3
<1> QED BY <1>3, <1>4, <1>5 DEF t, Before

\* The odometer step when every wheel wraps: s was the last combination.
LEMMA LastCombination ==
  ASSUME NEW S, S \subseteq Nat, NEW m \in Nat, \A j \in S : j <= m,
         NEW n \in [S -> Int], NEW s \in Digits(S, n),
         \A j \in S : Wraps(n, s, j)
  PROVE  Before(S, n, s) \cup {s} = Digits(S, n)
<1>1. s \in [S -> Nat] /\ \A j \in S : 1 <= s[j] /\ s[j] < n[j]
  BY DEF Digits
<1>2. ASSUME NEW c \in Digits(S, n), c # s PROVE LexLess(S, c, s)
  <2>1. c \in [S -> Nat] /\ \A j \in S : 1 <= c[j] /\ c[j] < n[j]
    BY DEF Digits
  <2>2. \E j \in S : j <= m /\ c[j] # s[j]
    <3>1. \E j \in S : c[j] # s[j]
      <4>1. c \in [S -> Nat] /\ s \in [S -> Nat]
        BY <1>1, <2>1
      <4> QED BY ONLY <4>1, <1>2, SameCombination
    <3> QED BY <3>1
  <2>3. PICK h \in S : HighestAt(S, m, c, s, h)
    <3>1. c \in [S -> Nat] /\ s \in [S -> Nat]
      BY <1>1, <2>1
    <3>2. S \subseteq Nat /\ m \in Nat
      OBVIOUS
    <3> QED BY <3>1, <3>2, <2>2, HighestDifference
  <2>4. c[h] < s[h]
    BY <2>3, <1>1, <2>1 DEF Wraps, HighestAt
  <2> QED BY <2>3, <2>4 DEF LexLess, HighestAt
<1> QED BY <1>2 DEF Before

-----------------------------------------------------------------------------
(* Types *)

USE DEF injectors, loops, testcase

\* The id counter stays a positive number.
LEMMA AfterIdType ==
  ASSUME NEW next \in Nat \ {0}
  PROVE  AfterId(next) \in Nat \ {0}
BY GeneratorAssumption DEF AfterId

\* int arithmetic yields an int.
LEMMA ToIntType ==
  ASSUME NEW n \in Int
  PROVE  ToInt(n) \in Int
<1>1. IntModulus \in Nat \ {0}
  BY IntModulusType
<1> HIDE DEF IntModulus
<1>2. (n + IntModulus \div 2) % IntModulus \in Int
  BY <1>1
<1> QED BY <1>1, <1>2 DEF ToInt

\* What is created while registering an injector has the right type.
LEMMA RegisterType ==
  ASSUME TypeOK, NEW o \in Injector, RegisterInjector(o)
  PROVE  /\ next_injection_id' \in Nat \ {0}
         /\ injection_id' \in [Injector -> Nat]
         /\ DOMAIN observer' = DOMAIN observer \cup {next_injection_id}
         /\ DOMAIN observer' \subseteq Nat \ {0}
         /\ observer' \in [DOMAIN observer' -> InjectStateType]
         /\ test_case_state' = test_case_state
BY AfterIdType DEF TypeOK, RegisterInjector, NewInjectState, InjectStateType

\* The variables have their types at first,
LEMMA InitType == Init => TypeOK
BY DEF Init, TypeOK, InjectStateType

\* The items of the walk are of the kinds WalkAssumption says.
LEMMA WalkItem ==
  ASSUME TypeOK, NEW ops, AtItem(ops)
  PROVE  /\ pos \in 1 .. Len(Walk)
         /\ Walk[pos].op \in ops
         /\ Walk[pos].op \in {"getAction", "inject"} => Walk[pos].arg \in Injector
         /\ Walk[pos].op = "read" => Walk[pos].arg \in pos + 1 .. Len(Walk) + 1
         /\ Walk[pos].op = "variable" => Walk[pos].arg \in Variable
BY WalkAssumption DEF TypeOK, AtItem

\* and every step keeps them.
LEMMA NextType == TypeOK /\ [Next]_vars => TypeOK'
<1> SUFFICES ASSUME TypeOK, [Next]_vars PROVE TypeOK'
  OBVIOUS
<1>1. CASE CreateAction
  <2>1. Eager[pos] \in Injector
    BY <1>1, TreeAssumption DEF CreateAction, TypeOK
  <2>2. RegisterInjector(Eager[pos])
    BY <1>1 DEF CreateAction
  <2>3. /\ next_injection_id' \in Nat \ {0}
        /\ injection_id' \in [Injector -> Nat]
        /\ DOMAIN observer \subseteq DOMAIN observer'
        /\ DOMAIN observer' \subseteq Nat \ {0}
        /\ observer' \in [DOMAIN observer' -> InjectStateType]
        /\ test_case_state' = test_case_state
    BY <2>1, <2>2, RegisterType
  <2> QED BY <1>1, <2>3 DEF CreateAction, TypeOK
<1>2. CASE CheckParsing
  BY <1>2 DEF CheckParsing, TypeOK
<1>3. CASE StartExec
  BY <1>3 DEF StartExec, TypeOK
<1>4. ASSUME NEW id \in to_visit, VisitObserver(id) PROVE TypeOK'
  <2>1. CASE Enable(u64, id)
    <3>1. Anomalies(observer[id]) \in Int /\ observer[id] \in InjectStateType
      BY <1>4 DEF TypeOK, InjectStateType, Anomalies
    <3>2. num_run' \in Int
      BY <1>4, <2>1, <3>1, ToIntType DEF VisitObserver, TypeOK
    <3>3. /\ DOMAIN observer' = DOMAIN observer
          /\ observer' \in [DOMAIN observer -> InjectStateType]
      BY <1>4, <2>1, <3>1 DEF VisitObserver, TypeOK, ResetState, InjectStateType
    <3> QED BY <1>4, <2>1, <3>2, <3>3 DEF VisitObserver, TypeOK
  <2>2. CASE ~ Enable(u64, id)
    BY <1>4, <2>2 DEF VisitObserver, TypeOK
  <2> QED BY <2>1, <2>2
<1>5. CASE EnterRuns
  BY <1>5 DEF EnterRuns, TypeOK
<1>6. CASE EndExec
  BY <1>6, AfterIdType DEF EndExec, TypeOK
<1>7. CASE EndMain
  BY <1>7 DEF EndMain, TypeOK
<1>8. CASE StartTestCase
  BY <1>8 DEF StartTestCase, TypeOK
<1>9. CASE CreateLateAction
  <2>1. Walk[pos].arg \in Injector
    BY <1>9, WalkItem DEF CreateLateAction
  <2>2. RegisterInjector(Walk[pos].arg)
    BY <1>9 DEF CreateLateAction
  <2> QED BY <1>9, <2>1, <2>2, RegisterType DEF CreateLateAction, TypeOK
<1>10. CASE EnterSubtree
  BY <1>10 DEF EnterSubtree, TypeOK
<1>11. CASE RunInjectAction
  <2> DEFINE o == Walk[pos].arg
             id == injection_id[o]
  <2>1. o \in Injector
    BY <1>11, WalkItem DEF RunInjectAction
  <2>2. \A k \in DOMAIN observer : observer[k] \in InjectStateType
    BY DEF TypeOK
  <2>3. \A k \in DOMAIN observer :
          SetSonsNumber(observer[k], Width[o]) \in InjectStateType
    BY <2>1, <2>2, TreeAssumption DEF SetSonsNumber, InjectStateType
  <2>4. UpdateInjector(observer, test_case_state, id) \in Nat
    BY <2>2 DEF UpdateInjector, TypeOK, InjectStateType
  <2>5. /\ DOMAIN observer' = DOMAIN observer
        /\ observer' \in [DOMAIN observer -> InjectStateType]
    BY <1>11, <2>2, <2>3 DEF RunInjectAction, TypeOK
  <2>6. DOMAIN chosen' \subseteq Injector /\ chosen' \in [DOMAIN chosen' -> Nat]
    BY <1>11, <2>1, <2>4 DEF RunInjectAction, TypeOK
  <2> QED BY <1>11, <2>1, <2>5, <2>6 DEF RunInjectAction, TypeOK
<1>12. CASE RunRead
  <2>1. /\ Walk[pos].op \in {"read"} /\ pos \in 1 .. Len(Walk)
        /\ Walk[pos].op = "read" => Walk[pos].arg \in pos + 1 .. Len(Walk) + 1
    BY <1>12, WalkItem DEF RunRead
  <2>2. pos' \in Nat \ {0}
    BY <1>12, <2>1, WalkAssumption DEF RunRead
  <2> QED BY <1>12, <2>2 DEF RunRead, TypeOK
<1>13. CASE RunVariable
  <2>1. Walk[pos].arg \in Variable
    BY <1>13, WalkItem DEF RunVariable
  <2> QED BY <1>13, <2>1 DEF RunVariable, TypeOK, Test
<1>14. CASE FinishTestCase
  <2>1. \A k \in DOMAIN observer : IncreaseState(observer[k]) \in InjectStateType
    BY DEF IncreaseState, ResetState, InjectStateType, TypeOK
  <2>2. /\ DOMAIN observer' = DOMAIN observer
        /\ observer' \in [DOMAIN observer -> InjectStateType]
    BY <1>14, <2>1 DEF FinishTestCase, PrepareNextTestCase,
                       UpdateInjectorState, TypeOK
  <2> QED BY <1>14, <2>2 DEF FinishTestCase, PrepareNextTestCase, TypeOK
<1>15. CASE UNCHANGED vars
  BY <1>15 DEF vars, TypeOK
<1> QED BY <1>1, <1>2, <1>3, <1>4, <1>5, <1>6, <1>7, <1>8, <1>9, <1>10,
           <1>11, <1>12, <1>13, <1>14, <1>15 DEF Next, Step, Stopped

\* Type correctness: whatever the model and the failures of its reads, the
\* variables of main, TestCaseManager and ActionFactory keep their types.
THEOREM TypeCorrect == Spec => []TypeOK
<1>1. Init => TypeOK
  BY InitType
<1>2. TypeOK /\ [Next]_vars => TypeOK'
  BY NextType
<1> QED BY <1>1, <1>2, PTL DEF Spec

-----------------------------------------------------------------------------
(* The inductive invariant *)

\* The one id that the exponential generator hands out more than once.
Shared(id) == Generator = "exp" /\ id = MaxId

\* Ids are fresh: registered ids lie below the next one, and two or nodes
\* have the same id only if it is the shared one.
IdInv ==
    /\ \A o \in Injector : injection_id[o] # 0 => injection_id[o] \in DOMAIN observer
    /\ \A id \in DOMAIN observer :
         \/ id < next_injection_id
         \/ Shared(id) /\ next_injection_id = MaxId
    /\ \A o, p \in Injector :
         injection_id[o] = injection_id[p] /\ injection_id[o] # 0 =>
            o = p \/ Shared(injection_id[o])

\* The counters: the shared id is never active, num_sons is unknown or the
\* width of the node, and an active counter shows 1 or a known alternative.
CountInv ==
    /\ \A id \in test_case_state : ~ Shared(id)
    /\ \A id \in DOMAIN observer :
         /\ observer[id].num_sons = -1 \/ observer[id].num_sons >= 2
         /\ observer[id].last >= 1
    /\ \A o \in Injector :
         injection_id[o] # 0 /\ ~ Shared(injection_id[o]) =>
            observer[injection_id[o]].num_sons \in {-1, Width[o]}
    /\ \A id \in test_case_state :
         observer[id].last = 1 \/ observer[id].last < observer[id].num_sons

\* What the sequential generator activates.
FaultInv ==
    /\ Generator = "seq" /\ pc \in {"getRun", "run", "walk"} =>
         \A id \in test_case_state : id % IntModulus = u64 % IntModulus
    /\ pc = "walk" =>
         \A o \in DOMAIN chosen : chosen[o] # 0 => injection_id[o] \in test_case_state
    /\ Generator = "seq" =>
         \A o, p \in DOMAIN chosen :
            chosen[o] # 0 /\ chosen[p] # 0 =>
                /\ injection_id[o] # 0
                /\ injection_id[o] % IntModulus = injection_id[p] % IntModulus

\* No variable is bound between tests.
VariableInv ==
    /\ VariablesOfThisTest
    /\ pc # "walk" => variables = << >>

-----------------------------------------------------------------------------

\* A step that creates no injector keeps the ids apart.
LEMMA KeepIds ==
  ASSUME IdInv, UNCHANGED <<injection_id, next_injection_id>>,
         DOMAIN observer' = DOMAIN observer
  PROVE  IdInv'
BY DEF IdInv, Shared

\* A new id is not in use, unless it is the shared one.
LEMMA RegisterIds ==
  ASSUME TypeOK, IdInv, NEW o \in Injector, RegisterInjector(o)
  PROVE  IdInv'
<1>1. /\ injection_id' = [injection_id EXCEPT ![o] = next_injection_id]
      /\ next_injection_id' = AfterId(next_injection_id)
      /\ DOMAIN observer' = DOMAIN observer \cup {next_injection_id}
  BY DEF RegisterInjector
<1>2. \/ next_injection_id < next_injection_id'
      \/ Shared(next_injection_id) /\ next_injection_id' = MaxId
  BY <1>1, GeneratorAssumption DEF AfterId, Shared, TypeOK
<1>3. \A p \in Injector : injection_id'[p] # 0 => injection_id'[p] \in DOMAIN observer'
  BY <1>1 DEF IdInv, TypeOK
<1>4. ASSUME NEW id \in DOMAIN observer'
      PROVE  \/ id < next_injection_id'
             \/ Shared(id) /\ next_injection_id' = MaxId
  <2>1. CASE id = next_injection_id
    BY <1>2, <2>1
  <2>2. CASE id \in DOMAIN observer
    BY <1>1, <1>2, <2>2, MaxIdAssumption DEF IdInv, Shared, TypeOK, AfterId
  <2> QED BY <1>1, <2>1, <2>2
<1>5. ASSUME NEW p \in Injector, NEW q \in Injector,
             injection_id'[p] = injection_id'[q], injection_id'[p] # 0
      PROVE  p = q \/ Shared(injection_id'[p])
  BY <1>1, <1>5 DEF IdInv, TypeOK, Shared
<1> QED BY <1>3, <1>4, <1>5 DEF IdInv, Shared

\* Every step keeps the ids apart.
LEMMA NextIds == TypeOK /\ IdInv /\ [Next]_vars => IdInv'
<1> SUFFICES ASSUME TypeOK, IdInv, [Next]_vars PROVE IdInv'
  OBVIOUS
<1>1. CASE CreateAction
  <2>1. Eager[pos] \in Injector /\ RegisterInjector(Eager[pos])
    BY <1>1, TreeAssumption DEF CreateAction, TypeOK
  <2> QED BY <2>1, RegisterIds
<1>2. CASE CheckParsing
  BY <1>2, KeepIds DEF CheckParsing
<1>3. CASE StartExec
  BY <1>3, KeepIds DEF StartExec
<1>4. ASSUME NEW id \in to_visit, VisitObserver(id) PROVE IdInv'
  <2>1. /\ DOMAIN observer' = DOMAIN observer
        /\ UNCHANGED <<injection_id, next_injection_id>>
    BY <1>4 DEF VisitObserver, TypeOK
  <2> QED BY <2>1, KeepIds
<1>5. CASE EnterRuns
  BY <1>5, KeepIds DEF EnterRuns
<1>6. CASE EndExec
  <2>1. UNCHANGED <<injection_id, observer>>
    BY <1>6 DEF EndExec
  <2>2. next_injection_id' \in {next_injection_id, AfterId(next_injection_id)}
    BY <1>6 DEF EndExec
  <2> QED BY <2>1, <2>2, MaxIdAssumption, GeneratorAssumption
          DEF IdInv, Shared, AfterId, TypeOK
<1>7. CASE EndMain
  BY <1>7, KeepIds DEF EndMain
<1>8. CASE StartTestCase
  BY <1>8, KeepIds DEF StartTestCase
<1>9. CASE CreateLateAction
  <2>1. Walk[pos].arg \in Injector /\ RegisterInjector(Walk[pos].arg)
    BY <1>9, WalkItem DEF CreateLateAction
  <2> QED BY <2>1, RegisterIds
<1>10. CASE EnterSubtree
  BY <1>10, KeepIds DEF EnterSubtree
<1>11. CASE RunInjectAction
  <2>1. /\ DOMAIN observer' = DOMAIN observer
        /\ UNCHANGED <<injection_id, next_injection_id>>
    BY <1>11 DEF RunInjectAction, TypeOK
  <2> QED BY <2>1, KeepIds
<1>12. CASE RunRead
  BY <1>12, KeepIds DEF RunRead
<1>13. CASE RunVariable
  BY <1>13, KeepIds DEF RunVariable
<1>14. CASE FinishTestCase
  <2>1. /\ DOMAIN observer' = DOMAIN observer
        /\ UNCHANGED <<injection_id, next_injection_id>>
    BY <1>14 DEF FinishTestCase, PrepareNextTestCase, UpdateInjectorState
  <2> QED BY <2>1, KeepIds
<1>15. CASE UNCHANGED vars
  BY <1>15, KeepIds DEF vars
<1> QED BY <1>1, <1>2, <1>3, <1>4, <1>5, <1>6, <1>7, <1>8, <1>9, <1>10,
           <1>11, <1>12, <1>13, <1>14, <1>15 DEF Next, Step, Stopped

-----------------------------------------------------------------------------

\* The shared id is lost in the conversion to int: it is never enabled.
LEMMA SharedNotEnabled ==
  ASSUME NEW id, NEW n, Shared(id)
  PROVE  ~ Enable(n, id)
BY MaxIdAssumption DEF Shared, Enable, ExpEnable

\* A step that leaves the counters alone keeps their bounds.
LEMMA KeepCounts ==
  ASSUME CountInv, UNCHANGED <<injection_id, observer>>,
         test_case_state' = test_case_state \/ test_case_state' = {}
  PROVE  CountInv'
BY DEF CountInv, Shared

\* A new injector starts within the bounds.
LEMMA RegisterCounts ==
  ASSUME TypeOK, IdInv, CountInv, NEW o \in Injector, RegisterInjector(o)
  PROVE  CountInv'
<1> DEFINE new == next_injection_id
<1>1. /\ injection_id' = [injection_id EXCEPT ![o] = new]
      /\ observer' = [id \in DOMAIN observer \cup {new} |->
                         IF id = new THEN NewInjectState ELSE observer[id]]
      /\ test_case_state' = test_case_state
  BY DEF RegisterInjector
<1>2. \A id \in DOMAIN observer : id = new => Shared(id)
  BY DEF IdInv, TypeOK
<1>3. \A id \in test_case_state : id # new /\ id \in DOMAIN observer
  BY <1>2 DEF CountInv, TypeOK
<1>4. \A id \in test_case_state :
        /\ ~ Shared(id)
        /\ observer'[id] = observer[id]
  BY <1>1, <1>3 DEF CountInv
<1>5. \A id \in DOMAIN observer' :
         /\ observer'[id].num_sons = -1 \/ observer'[id].num_sons >= 2
         /\ observer'[id].last >= 1
  BY <1>1 DEF CountInv, NewInjectState
<1>6. ASSUME NEW p \in Injector,
             injection_id'[p] # 0, ~ Shared(injection_id'[p])
      PROVE  observer'[injection_id'[p]].num_sons \in {-1, Width[p]}
  <2>1. CASE p = o
    BY <1>1, <2>1 DEF NewInjectState, TypeOK
  <2>2. CASE p # o
    <3>1. injection_id'[p] = injection_id[p]
      BY <1>1, <2>2 DEF TypeOK
    <3>2. injection_id[p] \in DOMAIN observer /\ injection_id[p] # new
      BY <1>2, <1>6, <3>1 DEF IdInv
    <3> QED BY <1>1, <1>6, <3>1, <3>2 DEF CountInv
  <2> QED BY <2>1, <2>2
<1> QED BY <1>1, <1>4, <1>5, <1>6 DEF CountInv, Shared

\* One call of increaseState keeps a counter among its alternatives.
LEMMA IncreaseBounds ==
  ASSUME NEW s \in InjectStateType
  PROVE  /\ IncreaseState(s).num_sons = s.num_sons
         /\ s.last >= 1 => IncreaseState(s).last >= 1
         /\ \/ IncreaseState(s).last = 1
            \/ IncreaseState(s).last < s.num_sons
BY DEF IncreaseState, ResetState, WrapsAround, InjectStateType

\* Every step keeps the counters within their bounds.
LEMMA NextCounts == TypeOK /\ IdInv /\ CountInv /\ [Next]_vars => CountInv'
<1> SUFFICES ASSUME TypeOK, IdInv, CountInv, [Next]_vars PROVE CountInv'
  OBVIOUS
<1>1. CASE CreateAction
  <2>1. Eager[pos] \in Injector /\ RegisterInjector(Eager[pos])
    BY <1>1, TreeAssumption DEF CreateAction, TypeOK
  <2> QED BY <2>1, RegisterCounts
<1>2. CASE CheckParsing
  BY <1>2, KeepCounts DEF CheckParsing
<1>3. CASE StartExec
  BY <1>3, KeepCounts DEF StartExec
<1>4. ASSUME NEW id \in to_visit, VisitObserver(id) PROVE CountInv'
  <2>1. CASE Enable(u64, id)
    <3>1. ~ Shared(id)
      BY <2>1, SharedNotEnabled
    <3>2. /\ test_case_state' = test_case_state \cup {id}
          /\ observer' = [observer EXCEPT ![id] = ResetState(@)]
          /\ injection_id' = injection_id
          /\ id \in DOMAIN observer
      BY <1>4, <2>1 DEF VisitObserver, TypeOK
    <3>3. \A k \in DOMAIN observer :
             /\ observer'[k].num_sons = observer[k].num_sons
             /\ observer'[k].last = IF k = id THEN 1 ELSE observer[k].last
      BY <3>2 DEF ResetState, TypeOK
    <3>4. DOMAIN observer' = DOMAIN observer
      BY <3>2 DEF TypeOK
    <3> QED BY <3>1, <3>2, <3>3, <3>4 DEF CountInv, Shared, IdInv, TypeOK
  <2>2. CASE ~ Enable(u64, id)
    BY <1>4, <2>2, KeepCounts DEF VisitObserver
  <2> QED BY <2>1, <2>2
<1>5. CASE EnterRuns
  BY <1>5, KeepCounts DEF EnterRuns
<1>6. CASE EndExec
  BY <1>6, KeepCounts DEF EndExec
<1>7. CASE EndMain
  BY <1>7, KeepCounts DEF EndMain
<1>8. CASE StartTestCase
  BY <1>8, KeepCounts DEF StartTestCase
<1>9. CASE CreateLateAction
  <2>1. Walk[pos].arg \in Injector /\ RegisterInjector(Walk[pos].arg)
    BY <1>9, WalkItem DEF CreateLateAction
  <2> QED BY <2>1, RegisterCounts
<1>10. CASE EnterSubtree
  BY <1>10, KeepCounts DEF EnterSubtree
<1>11. CASE RunInjectAction
  <2> DEFINE o == Walk[pos].arg
             id == injection_id[o]
  <2>1. o \in Injector /\ id # 0 /\ Width[o] \in Nat /\ Width[o] >= 2
    <3>1. o \in Injector
      BY <1>11, WalkItem DEF RunInjectAction
    <3>2. id # 0
      BY <1>11 DEF RunInjectAction
    <3>3. Width[o] \in Nat \ {0, 1}
      BY <3>1, TreeAssumption
    <3> HIDE DEF o, id
    <3> QED BY <3>1, <3>2, <3>3
  <2>2. id \in DOMAIN observer
    BY <2>1 DEF IdInv
  <2>3. /\ observer' = [observer EXCEPT ![id] = SetSonsNumber(@, Width[o])]
        /\ UNCHANGED <<injection_id, test_case_state>>
        /\ DOMAIN observer' = DOMAIN observer
    BY <1>11 DEF RunInjectAction, TypeOK
  <2> HIDE DEF o, id
  <2>4. ASSUME NEW k \in DOMAIN observer
        PROVE  /\ observer'[k].last = observer[k].last
               /\ \/ observer'[k].num_sons = observer[k].num_sons
                  \/ k = id /\ observer[k].num_sons = -1 /\ observer'[k].num_sons = Width[o]
    BY <2>3 DEF SetSonsNumber, TypeOK, InjectStateType, CountInv
  <2>5. \A k \in DOMAIN observer' :
           /\ observer'[k].num_sons = -1 \/ observer'[k].num_sons >= 2
           /\ observer'[k].last >= 1
    BY <2>1, <2>3, <2>4 DEF CountInv
  <2>6. ASSUME NEW p \in Injector,
               injection_id[p] # 0, ~ Shared(injection_id[p])
        PROVE  observer'[injection_id[p]].num_sons \in {-1, Width[p]}
    <3>1. injection_id[p] \in DOMAIN observer
      BY <2>6 DEF IdInv
    <3>2. injection_id[p] = id => p = o
      BY <2>1, <2>6 DEF IdInv, id
    <3> QED BY <2>4, <2>6, <3>1, <3>2 DEF CountInv
  <2>7. \A k \in test_case_state :
           observer'[k].last = 1 \/ observer'[k].last < observer'[k].num_sons
    <3>1. \A k \in test_case_state : k \in DOMAIN observer /\ observer[k].last \in Nat /\ observer[k].last >= 1
      BY DEF TypeOK, CountInv, InjectStateType
    <3> QED BY <2>1, <2>4, <3>1 DEF CountInv
  <2> QED BY <2>3, <2>5, <2>6, <2>7 DEF CountInv, Shared
<1>12. CASE RunRead
  BY <1>12, KeepCounts DEF RunRead
<1>13. CASE RunVariable
  BY <1>13, KeepCounts DEF RunVariable
<1>14. CASE FinishTestCase
  <2>1. /\ observer' = UpdateInjectorState(observer, test_case_state)
        /\ UNCHANGED <<injection_id, test_case_state>>
    BY <1>14 DEF FinishTestCase, PrepareNextTestCase
  <2>2. DOMAIN observer' = DOMAIN observer
    BY <2>1 DEF UpdateInjectorState
  <2>3. ASSUME NEW k \in DOMAIN observer
        PROVE  /\ observer'[k].num_sons = observer[k].num_sons
               /\ observer'[k].last >= 1
               /\ \/ observer'[k].last = observer[k].last
                  \/ observer'[k].last = 1
                  \/ observer'[k].last < observer[k].num_sons
    <3>1. observer[k] \in InjectStateType /\ observer[k].last >= 1
      BY DEF TypeOK, CountInv
    <3>2. observer'[k] \in {observer[k], IncreaseState(observer[k])}
      BY <2>1 DEF UpdateInjectorState
    <3> QED BY <3>1, <3>2, IncreaseBounds
  <2> QED BY <2>1, <2>2, <2>3 DEF CountInv, Shared, TypeOK, IdInv
<1>15. CASE UNCHANGED vars
  BY <1>15, KeepCounts DEF vars
<1> QED BY <1>1, <1>2, <1>3, <1>4, <1>5, <1>6, <1>7, <1>8, <1>9, <1>10,
           <1>11, <1>12, <1>13, <1>14, <1>15 DEF Next, Step, Stopped

-----------------------------------------------------------------------------

\* At first there are no injectors.
LEMMA InitCounts == Init => IdInv /\ CountInv /\ IndexInBounds
BY DEF Init, IdInv, CountInv, IndexInBounds

\* The alternative an injector is told to take exists, when the counters do:
\* the or node that asks is the only owner of its id while the id is active.
LEMMA SelectionInBounds ==
  ASSUME TypeOK, IdInv, CountInv, NEW o \in Injector, injection_id[o] # 0
  PROVE  UpdateInjector(observer, test_case_state, injection_id[o]) < Width[o]
<1> DEFINE id == injection_id[o]
<1>1. Width[o] \in Nat \ {0, 1}
  BY TreeAssumption
<1>2. CASE id \notin test_case_state
  BY <1>1, <1>2 DEF UpdateInjector
<1>3. CASE id \in test_case_state
  <2>1. ~ Shared(id) /\ id \in DOMAIN observer
    BY <1>3 DEF CountInv, TypeOK
  <2>2. observer[id].num_sons \in {-1, Width[o]}
    BY <2>1 DEF CountInv
  <2>3. observer[id].last = 1 \/ observer[id].last < observer[id].num_sons
    BY <1>3 DEF CountInv
  <2>4. observer[id].last \in Nat
    BY <2>1 DEF TypeOK, InjectStateType
  <2>5. UpdateInjector(observer, test_case_state, id) = observer[id].last
    BY <1>3 DEF UpdateInjector
  <2>6. observer[id].last >= 1
    BY <2>1 DEF CountInv
  <2> HIDE DEF id
  <2>7. observer[id].last < Width[o]
    BY <1>1, <2>2, <2>3, <2>4, <2>6
  <2> QED BY <2>5, <2>7 DEF id
<1> QED BY <1>2, <1>3

\* Only RunInjectAction and StartTestCase touch the selections of a test.
LEMMA KeepsChosen ==
  ASSUME [Next]_vars
  PROVE  chosen' = chosen \/ RunInjectAction \/ StartTestCase
BY DEF Next, Step, Stopped, vars, CreateAction, CheckParsing, StartExec,
       VisitObserver, EnterRuns, EndExec, EndMain, CreateLateAction,
       EnterSubtree, RunRead, RunVariable, FinishTestCase

\* Every step keeps the alternatives in bounds.
LEMMA NextBounds ==
  TypeOK /\ IdInv /\ CountInv /\ IndexInBounds /\ [Next]_vars => IndexInBounds'
<1> SUFFICES ASSUME TypeOK, IdInv, CountInv, IndexInBounds, [Next]_vars
             PROVE  IndexInBounds'
  OBVIOUS
<1>1. CASE chosen' = chosen
  BY <1>1 DEF IndexInBounds
<1>2. CASE StartTestCase
  BY <1>2 DEF StartTestCase, IndexInBounds
<1>3. CASE RunInjectAction
  <2> DEFINE o == Walk[pos].arg
  <2>1. o \in Injector
    BY <1>3, WalkItem DEF RunInjectAction
  <2>2. injection_id[o] # 0
    BY <1>3 DEF RunInjectAction
  <2>3. UpdateInjector(observer, test_case_state, injection_id[o]) < Width[o]
    BY <2>1, <2>2, SelectionInBounds
  <2>4. chosen' = [x \in DOMAIN chosen \cup {o} |->
                     IF x = o
                     THEN UpdateInjector(observer, test_case_state, injection_id[o])
                     ELSE chosen[x]]
    BY <1>3 DEF RunInjectAction
  <2> HIDE DEF o
  <2> QED BY <2>3, <2>4 DEF IndexInBounds
<1> QED BY <1>1, <1>2, <1>3, KeepsChosen

\* result[value_num] in InjectAction::runAction never leaves the vector of
\* the results, for every protocol model, both generators, any pattern of
\* failing reads and any overflow of getRun's product.
THEOREM NeverOutOfBounds == Spec => []IndexInBounds
<1> DEFINE Inv == TypeOK /\ IdInv /\ CountInv /\ IndexInBounds
<1>1. Init => Inv
  BY InitType, InitCounts
<1>2. Inv /\ [Next]_vars => Inv'
  <2> SUFFICES ASSUME Inv, [Next]_vars PROVE Inv'
    OBVIOUS
  <2>1. TypeOK'
    BY NextType
  <2>2. IdInv'
    BY NextIds
  <2>3. CountInv'
    BY NextCounts
  <2>4. IndexInBounds'
    BY NextBounds
  <2> QED BY <2>1, <2>2, <2>3, <2>4
<1>3. Inv => IndexInBounds
  OBVIOUS
<1> QED BY <1>1, <1>2, <1>3, PTL DEF Spec
-----------------------------------------------------------------------------

\* Which steps disturb FaultInv.
LEMMA RegisterKeepsIds ==
  ASSUME TypeOK, NEW o \in Injector, RegisterInjector(o)
  PROVE  \A p \in Injector :
           injection_id[p] # 0 => injection_id'[p] = injection_id[p]
BY DEF RegisterInjector, TypeOK

\* A step that activates and selects nothing keeps the faults single.
LEMMA KeepFaults ==
  ASSUME TypeOK, FaultInv, UNCHANGED <<u64, test_case_state, chosen>>,
         \A p \in Injector :
           injection_id[p] # 0 => injection_id'[p] = injection_id[p],
         \/ pc' = pc
         \/ pc' \notin {"getRun", "walk", "run"}
         \/ pc' = "run" /\ pc \in {"getRun", "walk"}
  PROVE  FaultInv'
<1>1. 0 \notin test_case_state
  BY DEF TypeOK
<1>2. \A o \in DOMAIN chosen : o \in Injector
  BY DEF TypeOK
<1>3. (Generator = "seq" /\ pc \in {"getRun", "run", "walk"} =>
         \A id \in test_case_state : id % IntModulus = u64 % IntModulus)'
  BY DEF FaultInv
<1>4. (pc = "walk" =>
         \A o \in DOMAIN chosen : chosen[o] # 0 => injection_id[o] \in test_case_state)'
  BY <1>1, <1>2 DEF FaultInv
<1>5. ASSUME Generator = "seq", NEW o \in DOMAIN chosen, NEW p \in DOMAIN chosen,
             chosen[o] # 0, chosen[p] # 0
      PROVE  /\ injection_id'[o] # 0
             /\ injection_id'[o] % IntModulus = injection_id'[p] % IntModulus
  <2>1. /\ injection_id[o] # 0
        /\ injection_id[p] # 0
        /\ injection_id[o] % IntModulus = injection_id[p] % IntModulus
    BY <1>5 DEF FaultInv
  <2> QED BY <1>2, <2>1
<1> QED BY <1>3, <1>4, <1>5 DEF FaultInv

\* Every step does.
LEMMA NextFaults == TypeOK /\ FaultInv /\ [Next]_vars => FaultInv'
<1> SUFFICES ASSUME TypeOK, FaultInv, [Next]_vars PROVE FaultInv'
  OBVIOUS
<1>1. CASE CreateAction
  <2>1. Eager[pos] \in Injector /\ RegisterInjector(Eager[pos])
    BY <1>1, TreeAssumption DEF CreateAction, TypeOK
  <2>2. UNCHANGED <<pc, u64, test_case_state, chosen>>
    BY <1>1 DEF CreateAction, RegisterInjector
  <2> QED BY <2>1, <2>2, RegisterKeepsIds, KeepFaults
<1>2. CASE CheckParsing
  BY <1>2, KeepFaults DEF CheckParsing
<1>3. CASE StartExec
  BY <1>3 DEF StartExec, FaultInv
<1>4. ASSUME NEW id \in to_visit, VisitObserver(id) PROVE FaultInv'
  <2>1. CASE Enable(u64, id)
    <3>1. Generator = "seq" => id % IntModulus = u64 % IntModulus
      BY <2>1 DEF Enable, SeqEnable
    <3>2. /\ test_case_state' = test_case_state \cup {id}
          /\ pc = "getRun"
          /\ UNCHANGED <<pc, u64, chosen, injection_id>>
      BY <1>4, <2>1 DEF VisitObserver
    <3> QED BY <3>1, <3>2 DEF FaultInv
  <2>2. CASE ~ Enable(u64, id)
    BY <1>4, <2>2, KeepFaults DEF VisitObserver
  <2> QED BY <2>1, <2>2
<1>5. CASE EnterRuns
  BY <1>5, KeepFaults DEF EnterRuns
<1>6. CASE EndExec
  BY <1>6 DEF EndExec, FaultInv
<1>7. CASE EndMain
  BY <1>7, KeepFaults DEF EndMain
<1>8. CASE StartTestCase
  BY <1>8 DEF StartTestCase, FaultInv
<1>9. CASE CreateLateAction
  <2>1. Walk[pos].arg \in Injector /\ RegisterInjector(Walk[pos].arg)
    BY <1>9, WalkItem DEF CreateLateAction
  <2>2. UNCHANGED <<pc, u64, test_case_state, chosen>>
    BY <1>9 DEF CreateLateAction, RegisterInjector
  <2> QED BY <2>1, <2>2, RegisterKeepsIds, KeepFaults
<1>10. CASE EnterSubtree
  BY <1>10, KeepFaults DEF EnterSubtree
<1>11. CASE RunInjectAction
  <2> DEFINE o == Walk[pos].arg
             new == UpdateInjector(observer, test_case_state, injection_id[o])
  <2>1. /\ chosen' = [x \in DOMAIN chosen \cup {o} |-> IF x = o THEN new ELSE chosen[x]]
        /\ UNCHANGED <<pc, u64, test_case_state, injection_id>>
        /\ pc = "walk"
    BY <1>11 DEF RunInjectAction, AtItem
  <2>2. new # 0 => injection_id[o] \in test_case_state
    BY DEF UpdateInjector
  <2> HIDE DEF o, new
  <2>3. \A x \in DOMAIN chosen' : chosen'[x] # 0 => injection_id[x] \in test_case_state
    BY <2>1, <2>2 DEF FaultInv
  <2>4. Generator = "seq" =>
          \A id \in test_case_state : id # 0 /\ id % IntModulus = u64 % IntModulus
    BY <2>1 DEF FaultInv, TypeOK
  <2> QED BY <2>1, <2>3, <2>4 DEF FaultInv
<1>12. CASE RunRead
  BY <1>12, KeepFaults DEF RunRead
<1>13. CASE RunVariable
  BY <1>13, KeepFaults DEF RunVariable
<1>14. CASE FinishTestCase
  BY <1>14, KeepFaults DEF FinishTestCase, PrepareNextTestCase
<1>15. CASE UNCHANGED vars
  BY <1>15, KeepFaults DEF vars
<1> QED BY <1>1, <1>2, <1>3, <1>4, <1>5, <1>6, <1>7, <1>8, <1>9, <1>10,
           <1>11, <1>12, <1>13, <1>14, <1>15 DEF Next, Step, Stopped

\* Ids that agree as ints are equal as long as the ids handed out fit an int.
LEMMA FaultsAreSingle == TypeOK /\ IdInv /\ FaultInv => SingleFault
<1> SUFFICES ASSUME TypeOK, IdInv, FaultInv, Generator = "seq",
                    next_injection_id <= IntModulus,
                    NEW o \in DOMAIN chosen, NEW p \in DOMAIN chosen,
                    chosen[o] # 0, chosen[p] # 0
             PROVE  o = p
  BY DEF SingleFault
<1>1. /\ injection_id[o] # 0 /\ injection_id[p] # 0
      /\ injection_id[o] % IntModulus = injection_id[p] % IntModulus
  BY DEF FaultInv
<1>2. o \in Injector /\ p \in Injector
  BY DEF TypeOK
<1>3. /\ injection_id[o] \in Nat /\ injection_id[p] \in Nat
      /\ injection_id[o] < IntModulus /\ injection_id[p] < IntModulus
  BY <1>1, <1>2, IntModulusType DEF IdInv, TypeOK, Shared
<1>4. injection_id[o] = injection_id[p]
  <2>1. \A a \in Nat : a < IntModulus => a % IntModulus = a
    BY IntModulusType
  <2> QED BY <1>1, <1>3, <2>1
<1> QED BY <1>1, <1>2, <1>4 DEF IdInv, Shared

\* "Enables only one fault each test case" (usage of -g 1): with the
\* sequential generator, no test selects the anomalies of two or nodes.
THEOREM OneFaultPerTest == Spec => []SingleFault
<1> DEFINE Inv == TypeOK /\ IdInv /\ FaultInv
<1>1. Init => Inv
  BY InitType, InitCounts DEF Init, FaultInv
<1>2. Inv /\ [Next]_vars => Inv'
  BY NextType, NextIds, NextFaults
<1>3. Inv => SingleFault
  BY FaultsAreSingle
<1> QED BY <1>1, <1>2, <1>3, PTL DEF Spec

-----------------------------------------------------------------------------

\* Every step keeps the variables of its test.
LEMMA NextVariables == VariableInv /\ [Next]_vars => VariableInv'
<1> SUFFICES ASSUME VariableInv, [Next]_vars PROVE VariableInv'
  OBVIOUS
<1> USE DEF VariableInv, VariablesOfThisTest, Test
<1>1. CASE StartTestCase
  BY <1>1 DEF StartTestCase
<1>2. CASE RunVariable
  BY <1>2 DEF RunVariable, AtItem
<1>3. CASE FinishTestCase
  BY <1>3 DEF FinishTestCase, PrepareNextTestCase
<1>4. CASE UNCHANGED <<pc, u64, i, variables>>
  BY <1>4
<1>5. CASE pc \notin {"run", "walk"} \/ EndExec
  BY <1>5 DEF Next, Step, Stopped, vars, CreateAction, CheckParsing, StartExec,
       VisitObserver, EnterRuns, EndExec, EndMain, CreateLateAction,
       EnterSubtree, RunInjectAction, RunRead, AtItem, StartTestCase,
       RunVariable, FinishTestCase
<1> QED BY <1>1, <1>2, <1>3, <1>4, <1>5 DEF Next, Step, Stopped, vars,
       CreateAction, CheckParsing, StartExec, VisitObserver, EnterRuns,
       EndMain, CreateLateAction, EnterSubtree, RunInjectAction, RunRead

\* prepareNextTestCase isolates the tests: no variable bound in one test is
\* used in another one.
THEOREM VariablesAreLocal == Spec => []VariablesOfThisTest
<1>1. Init => VariableInv
  BY DEF Init, VariableInv, VariablesOfThisTest
<1>2. VariableInv /\ [Next]_vars => VariableInv'
  BY NextVariables
<1>3. VariableInv => VariablesOfThisTest
  BY DEF VariableInv
<1> QED BY <1>1, <1>2, <1>3, PTL DEF Spec
-----------------------------------------------------------------------------
(* The order in which an EXEC goes through the combinations *)

\* The numbers of alternatives of the active injectors.
Sons == [id \in test_case_state |-> observer[id].num_sons]

\* The tests of the current EXEC are those before the planned one, in the
\* order of the odometer, until all of them have been made.
InOrder ==
    \/ Tried = Before(test_case_state, Sons, Plan)
    \/ Tried = Digits(test_case_state, Sons)

\* The files are those of the EXECs up to the current one.
LogInv ==
    \A l \in log :
        /\ l.test[1] \in Nat
        /\ l.test[1] <= u64
        /\ pc \in {"getAction", "exec", "getRun"} => l.test[1] < u64

\* blind holds every active injector that has not run yet, and getRun turns
\* the wheels back to 1.
BlindInv ==
    /\ \A id \in test_case_state : observer[id].num_sons < 0 => id \in blind
    /\ pc = "getRun" => \A id \in test_case_state : observer[id].last = 1

\* An EXEC that is not blind enumerates in order.
EnumInv == pc \in {"run", "walk"} /\ blind = {} => InOrder

\* Every step keeps that.
LEMMA NextLog == TypeOK /\ LogInv /\ [Next]_vars => LogInv'
<1> SUFFICES ASSUME TypeOK, LogInv, [Next]_vars PROVE LogInv'
  OBVIOUS
<1>0. u64 \in Nat
  BY DEF TypeOK
<1>1. CASE EndExec
  <2>1. UNCHANGED log /\ u64' = u64 + 1
    BY <1>1 DEF EndExec
  <2> QED BY <1>0, <2>1 DEF LogInv
<1>2. CASE FinishTestCase
  <2>1. /\ log' = log \cup {[test |-> <<u64, i>>, plan |-> Plan]}
        /\ pc' = "run" /\ u64' = u64
    BY <1>2 DEF FinishTestCase, Test
  <2> QED BY <1>0, <2>1 DEF LogInv
<1>3. CASE /\ UNCHANGED <<log, u64>>
           /\ pc' \in {"getAction", "exec", "getRun"} => pc \in {"getAction", "exec", "getRun"}
  BY <1>3 DEF LogInv
<1> QED BY <1>1, <1>2, <1>3 DEF Next, Step, Stopped, vars,
       CreateAction, CheckParsing, StartExec, VisitObserver, EnterRuns,
       EndMain, StartTestCase, CreateLateAction, EnterSubtree, RunInjectAction,
       RunRead, RunVariable, AtItem

\* A step that moves neither a wheel nor the set of wheels.
WheelsStill ==
    /\ UNCHANGED <<test_case_state, blind>>
    /\ \A id \in test_case_state :
         /\ observer'[id].last = observer[id].last
         /\ \/ observer'[id].num_sons = observer[id].num_sons
            \/ observer[id].num_sons < 0

\* Creating an injector moves no wheel.
LEMMA RegisterStill ==
  ASSUME TypeOK, IdInv, CountInv, NEW o \in Injector, RegisterInjector(o)
  PROVE  \A id \in test_case_state : observer'[id] = observer[id]
<1>1. \A id \in test_case_state : id # next_injection_id /\ id \in DOMAIN observer
  BY DEF IdInv, CountInv, TypeOK
<1> QED BY <1>1 DEF RegisterInjector

\* The steps other than getRun's and the end of a test leave the wheels.
LEMMA StillOrMoves ==
  ASSUME TypeOK, IdInv, CountInv, [Next]_vars
  PROVE  \/ WheelsStill /\ UNCHANGED <<pc, u64, log>>
         \/ WheelsStill /\ pc' \notin {"getRun", "run", "walk"}
         \/ WheelsStill /\ StartTestCase
         \/ WheelsStill /\ EnterRuns
         \/ StartExec
         \/ \E id \in to_visit : VisitObserver(id)
         \/ FinishTestCase
<1>1. CASE CreateAction
  <2>1. Eager[pos] \in Injector /\ RegisterInjector(Eager[pos])
    BY <1>1, TreeAssumption DEF CreateAction, TypeOK
  <2>2. UNCHANGED <<pc, u64, log, test_case_state, blind>>
    BY <1>1 DEF CreateAction, RegisterInjector
  <2> QED BY <2>1, <2>2, RegisterStill DEF WheelsStill
<1>2. CASE CreateLateAction
  <2>1. Walk[pos].arg \in Injector /\ RegisterInjector(Walk[pos].arg)
    BY <1>2, WalkItem DEF CreateLateAction
  <2>2. UNCHANGED <<pc, u64, log, test_case_state, blind>>
    BY <1>2 DEF CreateLateAction, RegisterInjector
  <2> QED BY <2>1, <2>2, RegisterStill DEF WheelsStill
<1>3. CASE RunInjectAction
  <2> DEFINE id == injection_id[Walk[pos].arg]
             w == Width[Walk[pos].arg]
  <2>1. /\ observer' = [observer EXCEPT ![id] = SetSonsNumber(@, w)]
        /\ UNCHANGED <<pc, u64, log, test_case_state, blind>>
    BY <1>3 DEF RunInjectAction
  <2> HIDE DEF id, w
  <2>2. \A k \in test_case_state :
          /\ observer'[k].last = observer[k].last
          /\ observer'[k].num_sons = observer[k].num_sons \/ observer[k].num_sons < 0
    BY <2>1 DEF TypeOK, SetSonsNumber
  <2> QED BY <2>1, <2>2 DEF WheelsStill
<1>4. CASE UNCHANGED <<observer, test_case_state, blind>>
  <2>1. WheelsStill
    BY <1>4 DEF WheelsStill
  <2> QED BY <1>1, <1>2, <1>3, <2>1 DEF Next, Step, Stopped, vars,
             CheckParsing, EndExec, EndMain, EnterSubtree, RunRead, RunVariable
<1> QED BY <1>1, <1>2, <1>3, <1>4 DEF Next, Step, Stopped, vars,
       CheckParsing, EnterRuns, EndExec, EndMain, StartTestCase,
       EnterSubtree, RunRead, RunVariable
\* What the end of a test does to the wheels is the odometer step.
LEMMA FinishMoves ==
  ASSUME TypeOK, FinishTestCase
  PROVE  /\ UNCHANGED <<test_case_state, blind, u64>>
         /\ Sons' = Sons
         /\ Plan' = Successor(test_case_state, Sons, Plan)
         /\ \A id \in test_case_state : observer'[id].num_sons = observer[id].num_sons
<1>1. /\ observer' = UpdateInjectorState(observer, test_case_state)
      /\ UNCHANGED <<test_case_state, blind, u64>>
  BY DEF FinishTestCase, PrepareNextTestCase
<1>2. \A id \in test_case_state : id \in DOMAIN observer /\ observer[id] \in InjectStateType
  BY DEF TypeOK
<1>3. \A id \in test_case_state :
        WrapsAround(observer[id]) <=> Wraps(Sons, Plan, id)
  BY DEF WrapsAround, Wraps, Sons, Plan
<1>4. ASSUME NEW id \in test_case_state
      PROVE  /\ observer'[id].num_sons = observer[id].num_sons
             /\ observer'[id].last = Successor(test_case_state, Sons, Plan)[id]
  <2>1. observer'[id] = IF \A k \in test_case_state : k < id => WrapsAround(observer[k])
                        THEN IncreaseState(observer[id]) ELSE observer[id]
    BY <1>1, <1>2 DEF UpdateInjectorState
  <2>2. /\ IncreaseState(observer[id]).num_sons = observer[id].num_sons
        /\ IncreaseState(observer[id]).last =
             IF WrapsAround(observer[id]) THEN 1 ELSE observer[id].last + 1
    BY DEF IncreaseState, ResetState
  <2>3. Plan[id] = observer[id].last
    BY DEF Plan
  <2>4. Successor(test_case_state, Sons, Plan)[id] =
          IF \A j \in test_case_state : j < id => Wraps(Sons, Plan, j)
          THEN IF Wraps(Sons, Plan, id) THEN 1 ELSE Plan[id] + 1
          ELSE Plan[id]
    BY DEF Successor
  <2> QED BY <1>3, <2>1, <2>2, <2>3, <2>4
<1>5. Sons' = Sons
  BY <1>1, <1>4 DEF Sons
<1>6. Plan' = Successor(test_case_state, Sons, Plan)
  <2>1. Plan' = [id \in test_case_state |-> observer'[id].last]
    BY <1>1 DEF Plan
  <2>2. Plan' = [id \in test_case_state |-> Successor(test_case_state, Sons, Plan)[id]]
    BY <1>4, <2>1
  <2> QED BY <2>2 DEF Successor
<1> QED BY <1>1, <1>4, <1>5, <1>6

\* Every step keeps blind up to date.
LEMMA NextBlind ==
  TypeOK /\ IdInv /\ CountInv /\ BlindInv /\ [Next]_vars => BlindInv'
<1> SUFFICES ASSUME TypeOK, IdInv, CountInv, BlindInv, [Next]_vars PROVE BlindInv'
  OBVIOUS
<1>1. CASE WheelsStill /\ (UNCHANGED <<pc, u64, log>> \/ pc' # "getRun")
  <2>1. \A id \in test_case_state : observer[id].num_sons < 0 => id \in blind
    BY DEF BlindInv
  <2> QED BY <1>1, <2>1 DEF WheelsStill, BlindInv
<1>2. CASE StartExec
  BY <1>2 DEF StartExec, BlindInv
<1>3. ASSUME NEW id \in to_visit, VisitObserver(id) PROVE BlindInv'
  <2>1. CASE Enable(u64, id)
    <3>1. /\ test_case_state' = test_case_state \cup {id}
          /\ observer' = [observer EXCEPT ![id] = ResetState(@)]
          /\ blind' = IF observer[id].num_sons < 0 THEN blind \cup {id} ELSE blind
          /\ id \in DOMAIN observer
          /\ pc = "getRun"
      BY <1>3, <2>1 DEF VisitObserver, TypeOK
    <3>2. \A k \in DOMAIN observer :
             /\ observer'[k].num_sons = observer[k].num_sons
             /\ observer'[k].last = IF k = id THEN 1 ELSE observer[k].last
      BY <3>1 DEF ResetState, TypeOK
    <3>3. test_case_state \subseteq DOMAIN observer
      BY DEF TypeOK
    <3> QED BY <3>1, <3>2, <3>3 DEF BlindInv
  <2>2. CASE ~ Enable(u64, id)
    BY <1>3, <2>2 DEF VisitObserver, BlindInv
  <2> QED BY <2>1, <2>2
<1>4. CASE FinishTestCase
  <2>1. pc' = "run"
    BY <1>4 DEF FinishTestCase
  <2> QED BY <1>4, <2>1, FinishMoves DEF BlindInv
<1> QED BY <1>1, <1>2, <1>3, <1>4, StillOrMoves DEF StartTestCase, EnterRuns

\* The wheels of an EXEC that is not blind show one of their combinations.
LEMMA PlanIsACombination ==
  ASSUME TypeOK, CountInv, BlindInv, blind = {}
  PROVE  /\ Plan \in Digits(test_case_state, Sons)
         /\ Sons \in [test_case_state -> Int]
<1>1. \A id \in test_case_state :
        /\ observer[id].num_sons \in Int
        /\ observer[id].num_sons >= 2
        /\ observer[id].last \in Nat
        /\ observer[id].last >= 1
        /\ observer[id].last < observer[id].num_sons
  <2>1. \A id \in test_case_state :
          /\ observer[id].num_sons \in Int
          /\ observer[id].last \in Nat
          /\ observer[id].last >= 1
          /\ observer[id].num_sons = -1 \/ observer[id].num_sons >= 2
    BY DEF TypeOK, InjectStateType, CountInv
  <2>2. \A id \in test_case_state : ~ (observer[id].num_sons < 0)
    BY DEF BlindInv
  <2>3. \A id \in test_case_state :
          observer[id].last = 1 \/ observer[id].last < observer[id].num_sons
    BY DEF CountInv
  <2> QED BY <2>1, <2>2, <2>3
<1> QED BY <1>1 DEF Plan, Sons, Digits

\* Nothing comes before the combination with which getRun starts.
LEMMA FirstCombination ==
  ASSUME NEW S, NEW n, NEW s, \A k \in S : s[k] = 1
  PROVE  Before(S, n, s) = {}
BY DEF Before, Digits, LexLess

\* The combinations that ExecExhaustive and NoRepeatedTest speak of.
LEMMA CombinationsAreDigits ==
  ASSUME TypeOK
  PROVE  Combinations = Digits(test_case_state, Sons)
<1>1. \A id \in test_case_state : observer[id].num_sons \in Int
  BY DEF TypeOK, InjectStateType
<1> DEFINE U == UNION {1 .. observer[id].num_sons - 1 : id \in test_case_state}
<1>2. \A x \in U : x \in Nat /\ x >= 1
  BY <1>1
<1>3. ASSUME NEW c \in Digits(test_case_state, Sons)
      PROVE  c \in Combinations
  <2>1. /\ c \in [test_case_state -> Nat]
        /\ \A id \in test_case_state : 1 <= c[id] /\ c[id] < observer[id].num_sons
    BY DEF Digits, Sons
  <2>2. \A id \in test_case_state : c[id] \in 1 .. observer[id].num_sons - 1
    BY <1>1, <2>1
  <2>3. c \in [test_case_state -> U]
    BY <2>1, <2>2
  <2> QED BY <2>1, <2>3 DEF Combinations
<1>4. ASSUME NEW c \in Combinations
      PROVE  c \in Digits(test_case_state, Sons)
  <2>1. c \in [test_case_state -> U] /\ \A id \in test_case_state : c[id] < observer[id].num_sons
    BY DEF Combinations
  <2> HIDE DEF U
  <2> QED BY <1>2, <2>1 DEF Digits, Sons
<1> QED BY <1>3, <1>4
\* A step that leaves the wheels of an EXEC that is not blind, its number and
\* the log leaves InOrder.
LEMMA StillInOrder ==
  ASSUME BlindInv, blind = {}, WheelsStill, UNCHANGED <<u64, log>>, InOrder
  PROVE  InOrder'
<1>1. \A id \in test_case_state : observer'[id].num_sons = observer[id].num_sons
  BY DEF WheelsStill, BlindInv
<1>2. Sons' = Sons /\ Plan' = Plan /\ test_case_state' = test_case_state
  BY <1>1 DEF Sons, Plan, WheelsStill
<1>3. Tried' = Tried
  BY DEF Tried
<1> QED BY <1>2, <1>3 DEF InOrder

\* The end of a test adds its plan to those that were tried.
LEMMA TriedFinish ==
  ASSUME FinishTestCase
  PROVE  Tried' = Tried \cup {Plan}
<1>0. u64' = u64
  BY DEF FinishTestCase
<1>1. log' = log \cup {[test |-> <<u64, i>>, plan |-> Plan]}
  BY DEF FinishTestCase, Test
<1> DEFINE e == [test |-> <<u64, i>>, plan |-> Plan]
           now == {l \in log : l.test[1] = u64}
<1>2. e.test[1] = u64 /\ e.plan = Plan
  OBVIOUS
<1>3. log' = log \cup {e}
  BY <1>1
<1> HIDE DEF e
<1>4. {l \in log' : l.test[1] = u64} = now \cup {e}
  BY <1>2, <1>3
<1>5. Tried' = {x.plan : x \in now \cup {e}}
  BY <1>0, <1>4 DEF Tried
<1>6. Tried = {x.plan : x \in now}
  BY DEF Tried
<1> HIDE DEF now
<1> QED BY <1>2, <1>5, <1>6

\* The combination after the planned one is the next in the order, unless
\* the planned one is the last.
LEMMA OdometerStep ==
  ASSUME TypeOK, IdInv, CountInv, BlindInv, blind = {}
  PROVE  \/ Before(test_case_state, Sons, Plan) \cup {Plan}
              = Digits(test_case_state, Sons)
         \/ Before(test_case_state, Sons, Plan) \cup {Plan}
              = Before(test_case_state, Sons, Successor(test_case_state, Sons, Plan))
<1> DEFINE S == test_case_state
           n == Sons
           s == Plan
           t == Successor(S, n, s)
<1>1. s \in Digits(S, n) /\ n \in [S -> Int]
  BY PlanIsACombination
<1>2. S \subseteq Nat /\ next_injection_id \in Nat
  BY DEF TypeOK
<1>3. \A j \in S : j <= next_injection_id
  BY <1>2 DEF IdInv, TypeOK, Shared
<1> HIDE DEF S, n, s, t
<1>4. CASE \A j \in S : Wraps(n, s, j)
  <2>1. Before(S, n, s) \cup {s} = Digits(S, n)
    BY <1>1, <1>2, <1>3, <1>4, LastCombination
  <2> QED BY <2>1 DEF S, n, s
<1>5. CASE ~ (\A j \in S : Wraps(n, s, j))
  <2> DEFINE W == {j \in S : ~ Wraps(n, s, j)}
  <2>1. W \subseteq Nat /\ W # {}
    BY <1>2, <1>5
  <2>2. PICK k \in W : \A y \in W : k <= y
    BY <2>1, LeastElement
  <2>3. k \in S /\ ~ Wraps(n, s, k) /\ \A j \in S : j < k => Wraps(n, s, j)
    BY <1>2, <2>2
  <2>4. Before(S, n, t) = Before(S, n, s) \cup {s}
    BY <1>1, <1>2, <2>3, SuccessorIsNext DEF t
  <2> QED BY <2>4 DEF S, n, s, t
<1> QED BY <1>4, <1>5

\* No combination was tried while getRun is counting them.
LEMMA NothingTried ==
  ASSUME TypeOK, LogInv, pc = "getRun"
  PROVE  Tried = {}
<1>1. \A l \in log : l.test[1] \in Nat /\ l.test[1] < u64 /\ u64 \in Nat
  BY DEF LogInv, TypeOK
<1>2. \A l \in log : l.test[1] # u64
  BY <1>1
<1> QED BY <1>2 DEF Tried

\* One more test of an EXEC that is not blind.
LEMMA FinishInOrder ==
  ASSUME TypeOK, IdInv, CountInv, BlindInv, blind = {}, InOrder, FinishTestCase
  PROVE  InOrder'
<1> DEFINE S == test_case_state
           n == Sons
           s == Plan
           t == Successor(S, n, s)
<1>1. s \in Digits(S, n) /\ n \in [S -> Int]
  BY PlanIsACombination
<1>2. test_case_state' = S /\ Sons' = n /\ Plan' = t /\ u64' = u64
  BY FinishMoves
<1>3. Tried' = Tried \cup {s}
  BY TriedFinish
<1>4. \/ Before(S, n, s) \cup {s} = Digits(S, n)
      \/ Before(S, n, s) \cup {s} = Before(S, n, t)
  BY OdometerStep
<1> HIDE DEF S, n, s, t
<1>5. Tried = Before(S, n, s) \/ Tried = Digits(S, n)
  BY DEF InOrder, S, n, s
<1>6. Tried' = Before(S, n, t) \/ Tried' = Digits(S, n)
  BY <1>1, <1>3, <1>4, <1>5
<1> QED BY <1>2, <1>6 DEF InOrder

\* Every step keeps the order of the enumeration.
LEMMA NextEnum ==
  TypeOK /\ IdInv /\ CountInv /\ LogInv /\ BlindInv /\ EnumInv /\ [Next]_vars
    => EnumInv'
<1> SUFFICES ASSUME TypeOK, IdInv, CountInv, LogInv, BlindInv, EnumInv, [Next]_vars,
                    pc' \in {"run", "walk"}, blind' = {}
             PROVE  InOrder'
  BY DEF EnumInv
<1>1. CASE WheelsStill /\ UNCHANGED <<pc, u64, log>>
  BY <1>1, StillInOrder DEF EnumInv, WheelsStill
<1>2. CASE WheelsStill /\ StartTestCase
  <2>1. pc = "run" /\ UNCHANGED <<u64, log>>
    BY <1>2 DEF StartTestCase
  <2> QED BY <1>2, <2>1, StillInOrder DEF EnumInv, WheelsStill
<1>3. CASE WheelsStill /\ EnterRuns
  <2>1. pc = "getRun" /\ UNCHANGED <<u64, log>> /\ blind = {}
    BY <1>3 DEF EnterRuns
  <2>2. Tried = {}
    BY <2>1, NothingTried
  <2>3. \A id \in test_case_state : Plan[id] = 1
    BY <2>1 DEF BlindInv, Plan
  <2>4. Before(test_case_state, Sons, Plan) = {}
    BY <2>3, FirstCombination
  <2>5. InOrder
    BY <2>2, <2>4 DEF InOrder
  <2> QED BY <1>3, <2>1, <2>5, StillInOrder
<1>4. CASE FinishTestCase
  <2>1. pc = "walk" /\ blind = {}
    BY <1>4 DEF FinishTestCase
  <2>2. InOrder
    BY <2>1 DEF EnumInv
  <2> QED BY <1>4, <2>1, <2>2, FinishInOrder
<1>5. CASE StartExec
  BY <1>5 DEF StartExec
<1>6. CASE \E id \in to_visit : VisitObserver(id)
  BY <1>6 DEF VisitObserver
<1> QED BY <1>1, <1>2, <1>3, <1>4, <1>5, <1>6, StillOrMoves

\* What is enumerated in order is not repeated.
LEMMA NotRepeated ==
  ASSUME TypeOK, CountInv, BlindInv, EnumInv
  PROVE  NoRepeatedTest
<1> SUFFICES ASSUME pc = "walk", blind = {}, Plan \in Tried
             PROVE  Tried = Combinations
  BY DEF NoRepeatedTest
<1>1. Plan \in Digits(test_case_state, Sons)
  BY PlanIsACombination
<1>2. Plan \notin Before(test_case_state, Sons, Plan)
  BY <1>1 DEF Before, LexLess, Digits
<1>3. Tried = Digits(test_case_state, Sons)
  BY <1>2 DEF EnumInv, InOrder
<1> QED BY <1>3, CombinationsAreDigits

\* For every model and both generators: an EXEC whose active injectors had
\* all run when getRun started it goes through the combinations of their
\* anomalies without a repetition, until there is none left.
THEOREM EnumeratesWithoutRepetition == Spec => []NoRepeatedTest
<1> DEFINE Inv == /\ TypeOK /\ IdInv /\ CountInv
                  /\ LogInv /\ BlindInv /\ EnumInv
<1>1. Init => Inv
  <2>1. Init => LogInv /\ BlindInv /\ EnumInv
    BY DEF Init, LogInv, BlindInv, EnumInv
  <2> QED BY <2>1, InitType, InitCounts
<1>2. Inv /\ [Next]_vars => Inv'
  <2> SUFFICES ASSUME Inv, [Next]_vars PROVE Inv'
    OBVIOUS
  <2>1. TypeOK' /\ IdInv' /\ CountInv'
    BY NextType, NextIds, NextCounts
  <2>2. LogInv'
    BY NextLog
  <2>3. BlindInv'
    BY NextBlind
  <2>4. EnumInv'
    BY NextEnum
  <2> QED BY <2>1, <2>2, <2>3, <2>4
<1>3. Inv => NoRepeatedTest
  BY NotRepeated
<1> QED BY <1>1, <1>2, <1>3, PTL DEF Spec

-----------------------------------------------------------------------------
(* Lexicographic order *)

\* x agrees with m up to k.
Agrees(x, m, k) == \A j \in 1 .. k : x[j] = m[j]

\* m is least in T as far as the first k components tell.
LeastUpTo(T, m, k) ==
    \A x \in T : ~ \E l \in 1 .. k : x[l] < m[l] /\ Agrees(x, m, l - 1)

LEMMA LeastOneMore ==
  ASSUME NEW size \in Nat, NEW T \in SUBSET Tuples(size), NEW m \in T,
         NEW k \in 0 .. size - 1, LeastUpTo(T, m, k)
  PROVE  \E n \in T : LeastUpTo(T, n, k + 1)
<1> DEFINE same == {x \in T : Agrees(x, m, k)}
           values == {x[k + 1] : x \in same}
<1>1. k + 1 \in 1 .. size /\ k \in Nat
  OBVIOUS
<1>2. \A x \in T : \A j \in 1 .. size : x[j] \in Nat
  BY DEF Tuples
<1>3. m \in same
  BY DEF Agrees
<1>4. values \subseteq Nat /\ values # {}
  BY <1>1, <1>2, <1>3
<1>5. PICK v \in values : \A w \in values : v <= w
  BY <1>4, LeastElement
<1>6. PICK n \in same : v = n[k + 1]
  BY <1>5
<1>7. ASSUME NEW x \in T, NEW l \in 1 .. k + 1,
             x[l] < n[l], Agrees(x, n, l - 1)
      PROVE  FALSE
  <2>1. CASE l = k + 1
    <3>1. x \in same
      BY <1>1, <1>6, <1>7, <2>1 DEF Agrees
    <3>2. n[k + 1] <= x[k + 1]
      BY <1>5, <1>6, <3>1
    <3> QED BY <1>1, <1>2, <1>6, <1>7, <2>1, <3>2
  <2>2. CASE l \in 1 .. k
    <3>1. x[l] < m[l] /\ Agrees(x, m, l - 1)
      BY <1>6, <1>7, <2>2 DEF Agrees
    <3> QED BY <2>2, <3>1 DEF LeastUpTo
  <2> QED BY <1>7, <2>1, <2>2
<1> QED BY <1>6, <1>7 DEF LeastUpTo

\* Every nonempty set of tuples has an element with none of the set below it:
\* there is no infinite descent.
THEOREM DescentEnds ==
  ASSUME NEW size \in Nat, NEW T \in SUBSET Tuples(size), T # {}
  PROVE  \E m \in T : \A x \in T : ~ Below(x, m)
<1> DEFINE bad == {k \in 0 .. size : \A m \in T : ~ LeastUpTo(T, m, k)}
<1>1. bad = {}
  <2> SUFFICES ASSUME bad # {} PROVE FALSE
    OBVIOUS
  <2>1. bad \subseteq Nat
    OBVIOUS
  <2>2. PICK k \in bad : \A l \in bad : k <= l
    BY <2>1, LeastElement
  <2>3. CASE k = 0
    <3>1. \A m \in T : LeastUpTo(T, m, 0)
      BY DEF LeastUpTo
    <3> QED BY <2>2, <2>3, <3>1
  <2>4. CASE k # 0
    <3>1. k - 1 \in 0 .. size - 1 /\ k - 1 \notin bad
      BY <2>2, <2>4
    <3>2. PICK m \in T : LeastUpTo(T, m, k - 1)
      BY <3>1
    <3>3. \E n \in T : LeastUpTo(T, n, (k - 1) + 1)
      BY <3>1, <3>2, LeastOneMore
    <3> QED BY <2>2, <2>4, <3>3
  <2> QED BY <2>3, <2>4
<1>2. PICK m \in T : LeastUpTo(T, m, size)
  BY <1>1
<1>3. ASSUME NEW x \in T, Below(x, m) PROVE FALSE
  <2>1. PICK k \in 1 .. size : x[k] < m[k] /\ \A j \in 1 .. k - 1 : x[j] = m[j]
    BY <1>3 DEF Below, Tuples
  <2> QED BY <1>2, <2>1 DEF LeastUpTo, Agrees
<1> QED BY <1>3

-----------------------------------------------------------------------------
(* main ends *)

\* The places of the walk where an injector is yet to be created.
Uncreated ==
    {p \in 1 .. Len(Walk) : /\ Walk[p].op \in {"getAction", "inject"}
                            /\ injection_id[Walk[p].arg] = 0}

\* What main has left to do: the visit of the tree and EXEC 0, whose end
\* tells how many EXECs there are; the EXECs; in one of them getRun, then the
\* tests; in a test the injectors to create and the rest of the walk.
Measure ==
    << IF pc = "getAction" THEN 2 ELSE IF u64 = 0 THEN 1 ELSE 0,
       IF u64 = 0 THEN 0 ELSE Left(u64, number_injector),
       IF pc = "exec" THEN 3 ELSE IF pc = "getRun" THEN 2
          ELSE IF pc \in {"run", "walk"} THEN 1 ELSE 0,
       IF pc = "getAction" THEN Left(pos, Len(Eager) + 1)
          ELSE IF pc = "getRun" THEN Cardinality(to_visit)
          ELSE IF pc \in {"run", "walk"} THEN Left(i, num_run) ELSE 0,
       IF pc = "run" THEN 1 ELSE 0,
       IF pc = "walk" THEN Cardinality(Uncreated) ELSE 0,
       IF pc = "walk" THEN Left(pos, Len(Walk) + 1) ELSE 0 >>

LoopInv ==
    /\ IsFiniteSet(DOMAIN observer)
    /\ u64 = 0 => number_injector = 1
    /\ pc = "getAction" => u64 = 0 /\ pos <= Len(Eager) + 1
    /\ pc \in {"getRun", "run", "walk"} => u64 < number_injector
    /\ pc = "walk" => i < num_run /\ pos <= Len(Walk) + 1

LEMMA InitLoop == Init => LoopInv
BY TreeAssumption, FS_EmptySet DEF Init, LoopInv

LEMMA RegisterFinite ==
  ASSUME IsFiniteSet(DOMAIN observer), NEW o, RegisterInjector(o)
  PROVE  IsFiniteSet(DOMAIN observer')
<1>1. DOMAIN observer' = DOMAIN observer \cup {next_injection_id}
  BY DEF RegisterInjector
<1> QED BY <1>1, FS_AddElement

LEMMA NextLoop == TypeOK /\ LoopInv /\ [Next]_vars => LoopInv'
<1> SUFFICES ASSUME TypeOK, LoopInv, [Next]_vars
             PROVE  LoopInv'
  OBVIOUS
<1> USE DEF LoopInv
<1>0. Len(Eager) \in Nat /\ Len(Walk) \in Nat
  BY TreeAssumption, WalkAssumption
<1>1. CASE CreateAction
  BY <1>0, <1>1, RegisterFinite DEF CreateAction, TypeOK
<1>2. CASE CheckParsing
  BY <1>2 DEF CheckParsing
<1>3. CASE StartExec
  BY <1>3 DEF StartExec
<1>4. ASSUME NEW id \in to_visit, VisitObserver(id) PROVE LoopInv'
  <2>1. DOMAIN observer' = DOMAIN observer
    BY <1>4 DEF VisitObserver
  <2> QED BY <1>4, <2>1 DEF VisitObserver
<1>5. CASE EnterRuns
  BY <1>5 DEF EnterRuns
<1>6. CASE EndExec
  BY <1>6 DEF EndExec, TypeOK
<1>7. CASE EndMain
  BY <1>7 DEF EndMain
<1>8. CASE StartTestCase
  BY <1>0, <1>8 DEF StartTestCase
<1>9. CASE CreateLateAction
  BY <1>9, RegisterFinite DEF CreateLateAction, AtItem
<1>10. CASE EnterSubtree
  BY <1>0, <1>10 DEF EnterSubtree, AtItem, TypeOK
<1>11. CASE RunInjectAction
  <2>1. DOMAIN observer' = DOMAIN observer
    BY <1>11 DEF RunInjectAction
  <2> QED BY <1>0, <1>11, <2>1 DEF RunInjectAction, AtItem, TypeOK
<1>12. CASE RunRead
  <2>1. pos' <= Len(Walk) + 1
    <3>1. AtItem({"read"}) /\ pos' \in {pos + 1, Walk[pos].arg}
      BY <1>12 DEF RunRead
    <3>2. /\ pos \in 1 .. Len(Walk) /\ Walk[pos].op = "read"
          /\ Walk[pos].arg \in pos + 1 .. Len(Walk) + 1
      BY <3>1, WalkItem
    <3> QED BY <1>0, <3>1, <3>2
  <2> QED BY <1>12, <2>1 DEF RunRead, AtItem
<1>13. CASE RunVariable
  BY <1>0, <1>13 DEF RunVariable, AtItem, TypeOK
<1>14. CASE FinishTestCase
  BY <1>14 DEF FinishTestCase, PrepareNextTestCase, UpdateInjectorState
<1>15. CASE UNCHANGED vars
  BY <1>15 DEF vars
<1> QED BY <1>1, <1>2, <1>3, <1>4, <1>5, <1>6, <1>7, <1>8, <1>9, <1>10,
           <1>11, <1>12, <1>13, <1>14, <1>15 DEF Next, Step, Stopped

LEMMA UncreatedFinite ==
  /\ IsFiniteSet(Uncreated)
  /\ Cardinality(Uncreated) \in Nat
<1>1. Uncreated \subseteq 1 .. Len(Walk) /\ Len(Walk) \in Nat
  BY WalkAssumption DEF Uncreated
<1>2. IsFiniteSet(1 .. Len(Walk))
  BY <1>1, FS_Interval
<1> QED BY <1>1, <1>2, FS_Subset, FS_CardinalityType

LEMMA MeasureType ==
  ASSUME TypeOK, LoopInv
  PROVE  Measure \in Tuples(7)
<1>1. Cardinality(Uncreated) \in Nat
  BY UncreatedFinite
<1>2. Cardinality(to_visit) \in Nat
  BY FS_Subset, FS_CardinalityType DEF TypeOK, LoopInv
<1>3. Len(Eager) \in Nat /\ Len(Walk) \in Nat
  BY TreeAssumption, WalkAssumption
<1>4. /\ u64 \in Nat /\ number_injector \in Nat /\ i \in Nat /\ num_run \in Int
      /\ pos \in Nat
  BY DEF TypeOK
<1>5. /\ Measure[1] \in Nat /\ Measure[3] \in Nat /\ Measure[5] \in Nat
      /\ Measure[6] \in Nat
  BY <1>1 DEF Measure
<1>6. Measure[2] \in Nat /\ Measure[7] \in Nat
  BY <1>3, <1>4 DEF Measure, Left
<1>7. Measure[4] \in Nat
  BY <1>2, <1>3, <1>4 DEF Measure, Left
<1>8. DOMAIN Measure = 1 .. 7 /\ Measure = [k \in 1 .. 7 |-> Measure[k]]
  BY DEF Measure
<1>9. \A k \in 1 .. 7 : Measure[k] \in Nat
  <2>1. \A k \in 1 .. 7 : \/ k = 1 \/ k = 2 \/ k = 3 \/ k = 4
                          \/ k = 5 \/ k = 6 \/ k = 7
    OBVIOUS
  <2> QED BY <1>5, <1>6, <1>7, <2>1
<1> QED BY <1>8, <1>9 DEF Tuples

\* To descend it is enough that the first component that changes gets less.
LEMMA LessAt ==
  ASSUME NEW a, NEW b, NEW size \in Nat, NEW k \in 1 .. size,
         a \in Tuples(size), b \in Tuples(size),
         a[k] < b[k], \A j \in 1 .. k - 1 : a[j] = b[j]
  PROVE  Below(a, b)
BY DEF Below, Tuples

\* Every step of main's.
LEMMA StepDescends ==
  ASSUME TypeOK, LoopInv, TypeOK', Measure \in Tuples(7), Measure' \in Tuples(7), Step
  PROVE  Below(Measure', Measure)
<1>1. Len(Eager) \in Nat /\ Len(Walk) \in Nat
  BY TreeAssumption, WalkAssumption
<1>2. /\ u64 \in Nat /\ number_injector \in Nat /\ i \in Nat /\ num_run \in Int
      /\ pos \in Nat \ {0} /\ pos' \in Nat \ {0}
  BY DEF TypeOK
<1>3. CASE CreateAction
  <2>1. /\ Measure'[1] = Measure[1] /\ Measure'[2] = Measure[2] /\ Measure'[3] = Measure[3]
        /\ Measure'[4] < Measure[4]
    BY <1>1, <1>2, <1>3 DEF CreateAction, Measure, Left, LoopInv
  <2> QED BY <2>1, LessAt
<1>4. CASE CheckParsing
  <2>1. Measure'[1] < Measure[1]
    BY <1>2, <1>4 DEF CheckParsing, Measure, Left, LoopInv
  <2> QED BY <2>1, LessAt
<1>5. CASE StartExec \/ EnterRuns \/ EndMain
  <2>1. /\ Measure'[1] = Measure[1] /\ Measure'[2] = Measure[2]
        /\ Measure'[3] < Measure[3]
    BY <1>2, <1>5 DEF StartExec, EnterRuns, EndMain, Measure, Left
  <2> QED BY <2>1, LessAt
<1>6. ASSUME NEW id \in to_visit, VisitObserver(id) PROVE Below(Measure', Measure)
  <2>1. IsFiniteSet(to_visit) /\ Cardinality(to_visit) \in Nat
    BY FS_Subset, FS_CardinalityType DEF TypeOK, LoopInv
  <2>2. to_visit' = to_visit \ {id}
    BY <1>6 DEF VisitObserver
  <2>3. Cardinality(to_visit') = Cardinality(to_visit) - 1
    BY <2>1, <2>2, FS_RemoveElement
  <2>4. /\ Measure'[1] = Measure[1] /\ Measure'[2] = Measure[2] /\ Measure'[3] = Measure[3]
        /\ Measure'[4] < Measure[4]
    BY <1>2, <1>6, <2>1, <2>3 DEF VisitObserver, Measure, Left
  <2> QED BY <2>4, LessAt
<1>7. CASE EndExec
  <2>1. \/ Measure'[1] < Measure[1]
        \/ Measure'[1] = Measure[1] /\ Measure'[2] < Measure[2]
    BY <1>2, <1>7 DEF EndExec, Measure, Left, LoopInv
  <2> QED BY <2>1, LessAt
<1>8. CASE StartTestCase
  <2>1. /\ Measure'[1] = Measure[1] /\ Measure'[2] = Measure[2] /\ Measure'[3] = Measure[3]
        /\ Measure'[4] = Measure[4] /\ Measure'[5] < Measure[5]
    BY <1>2, <1>8 DEF StartTestCase, Measure, Left
  <2> QED BY <2>1, LessAt
<1>9. CASE CreateLateAction
  <2>1. /\ Measure'[1] = Measure[1] /\ Measure'[2] = Measure[2] /\ Measure'[3] = Measure[3]
        /\ Measure'[4] = Measure[4] /\ Measure'[5] = Measure[5]
    BY <1>2, <1>9 DEF CreateLateAction, AtItem, Measure, Left
  <2>2. /\ pos \in 1 .. Len(Walk) /\ Walk[pos].op \in {"getAction", "inject"}
        /\ Walk[pos].arg \in Injector /\ RegisterInjector(Walk[pos].arg)
    BY <1>9, WalkItem DEF CreateLateAction
  <2>3. /\ injection_id[Walk[pos].arg] = 0
        /\ injection_id' = [injection_id EXCEPT ![Walk[pos].arg] = next_injection_id]
        /\ next_injection_id # 0
        /\ injection_id \in [Injector -> Nat]
    BY <2>2 DEF RegisterInjector, TypeOK
  <2>4. \A p \in 1 .. Len(Walk) :
           Walk[p].op \in {"getAction", "inject"} => Walk[p].arg \in Injector
    BY WalkAssumption
  <2>5. Uncreated' \subseteq Uncreated \ {pos} /\ pos \in Uncreated
    BY <2>2, <2>3, <2>4 DEF Uncreated
  <2>6. /\ Cardinality(Uncreated') \in Nat
        /\ Cardinality(Uncreated') < Cardinality(Uncreated)
    <3>1. IsFiniteSet(Uncreated) /\ Cardinality(Uncreated) \in Nat
      BY UncreatedFinite
    <3>2. /\ IsFiniteSet(Uncreated \ {pos})
          /\ Cardinality(Uncreated \ {pos}) = Cardinality(Uncreated) - 1
      BY <2>5, <3>1, FS_RemoveElement
    <3>3. /\ IsFiniteSet(Uncreated')
          /\ Cardinality(Uncreated') <= Cardinality(Uncreated \ {pos})
      BY <2>5, <3>2, FS_Subset
    <3> QED BY <3>1, <3>2, <3>3, FS_CardinalityType
  <2>7. pc = "walk" /\ pc' = "walk"
    BY <1>9 DEF CreateLateAction, AtItem
  <2>8. Measure'[6] < Measure[6]
    BY <2>6, <2>7 DEF Measure
  <2> QED BY <2>1, <2>8, LessAt
<1>10. CASE EnterSubtree \/ RunInjectAction \/ RunRead \/ RunVariable
  <2>1. /\ Measure'[1] = Measure[1] /\ Measure'[2] = Measure[2] /\ Measure'[3] = Measure[3]
        /\ Measure'[4] = Measure[4] /\ Measure'[5] = Measure[5]
    BY <1>2, <1>10 DEF EnterSubtree, RunInjectAction, RunRead, RunVariable, AtItem,
                       Measure, Left
  <2>2. /\ pc = "walk" /\ pc' = "walk" /\ UNCHANGED injection_id
        /\ pos <= Len(Walk)
    BY <1>10 DEF EnterSubtree, RunInjectAction, RunRead, RunVariable, AtItem
  <2>3. Uncreated' = Uncreated
    BY <2>2 DEF Uncreated
  <2>4. Measure'[6] = Measure[6]
    BY <2>2, <2>3 DEF Measure
  <2>5. pos' > pos
    <3>1. CASE RunRead
      <4>1. AtItem({"read"}) /\ pos' \in {pos + 1, Walk[pos].arg}
        BY <3>1 DEF RunRead
      <4>2. Walk[pos].arg \in pos + 1 .. Len(Walk) + 1
        BY <4>1, WalkItem
      <4> QED BY <1>1, <1>2, <4>1, <4>2
    <3> QED BY <1>2, <1>10, <3>1 DEF EnterSubtree, RunInjectAction, RunVariable
  <2>6. Measure'[7] < Measure[7]
    BY <1>1, <1>2, <2>2, <2>5 DEF Measure, Left
  <2> QED BY <2>1, <2>4, <2>6, LessAt
<1>11. CASE FinishTestCase
  <2>1. /\ Measure'[1] = Measure[1] /\ Measure'[2] = Measure[2] /\ Measure'[3] = Measure[3]
        /\ Measure'[4] < Measure[4]
    BY <1>2, <1>11 DEF FinishTestCase, Measure, Left, LoopInv
  <2> QED BY <2>1, LessAt
<1> QED BY <1>3, <1>4, <1>5, <1>6, <1>7, <1>8, <1>9, <1>10, <1>11 DEF Step

Descends ==
    /\ Measure \in Tuples(7)
    /\ Measure' \in Tuples(7)
    /\ Below(Measure', Measure)

\* main's loops end, whatever the walks are and whatever getRun's product is,
\* which is learnt while tests run: every step that changes anything leaves
\* main less to do (and DescentEnds).
THEOREM MainDescends == Spec => [][Descends]_vars
<1>1. Init => TypeOK /\ LoopInv
  BY InitType, InitLoop
<1>2. TypeOK /\ LoopInv /\ [Next]_vars => TypeOK' /\ LoopInv'
  BY NextType, NextLoop
<1> DEFINE Typed == Measure \in Tuples(7)
<1>3. TypeOK /\ LoopInv => Typed
  BY MeasureType
<1>4. TypeOK /\ LoopInv /\ TypeOK' /\ Typed /\ Typed' /\ [Next]_vars => [Descends]_vars
  BY StepDescends DEF Next, Stopped, Descends
<1> HIDE DEF Typed
<1> QED BY <1>1, <1>2, <1>3, <1>4, PTL DEF Spec
=============================================================================
