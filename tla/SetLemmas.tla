------------------------------ MODULE SetLemmas ------------------------------
(***************************************************************************)
(* Facts about numbers and finite sets that the proofs of the components   *)
(* share.                                                                  *)
(***************************************************************************)
EXTENDS Integers, Sequences, FiniteSets, FunctionTheorems, FiniteSetTheorems, SequenceTheorems,
        TLAPS

\* A non-empty set of naturals has a least element: the loops of the code that
\* stop at the first match are defined by it.
LEMMA LeastNat ==
    ASSUME NEW S \in SUBSET Nat, S # {}
    PROVE  \E n \in S : \A m \in S : n <= m
<1>1. PICK n \in S : \A m \in S : <<m, n>> \notin OpToRel(<, Nat)
  BY NatLessThanWellFounded, WFMin, Zenon
<1>2. \A m \in S : ~ (m < n)
  BY <1>1, Zenon DEF OpToRel
<1> QED
  BY <1>2

\* The interval from 1 to n has n elements.
LEMMA UpTo ==
    ASSUME NEW n \in Nat
    PROVE  IsFiniteSet(1 .. n) /\ Cardinality(1 .. n) = n
BY FS_Interval

\* A function on 1 .. n is a sequence of length n.
LEMMA FunctionIsSeq ==
    ASSUME NEW S, NEW n \in Nat, NEW f \in [1 .. n -> S]
    PROVE  f \in Seq(S) /\ Len(f) = n
<1>1. f \in Seq(S)
  BY SeqDef, Zenon
<1>2. Len(f) \in Nat /\ DOMAIN f = 1 .. Len(f) /\ DOMAIN f = 1 .. n
  BY <1>1, LenProperties
<1> QED
  BY <1>1, <1>2

\* A sequence without repetitions is as long as the set of its elements.
LEMMA DistinctLength ==
    ASSUME NEW T, NEW s \in Seq(T),
           \A p, q \in 1 .. Len(s) : s[p] = s[q] => p = q
    PROVE  /\ IsFiniteSet({s[p] : p \in 1 .. Len(s)})
           /\ Cardinality({s[p] : p \in 1 .. Len(s)}) = Len(s)
<1> DEFINE S == {s[p] : p \in 1 .. Len(s)}
           f == [p \in 1 .. Len(s) |-> s[p]]
<1>1. f \in Bijection(1 .. Len(s), S)
  BY Fun_IsBij
<1>2. ExistsBijection(1 .. Len(s), S)
  BY <1>1, Fun_ExistsBij
<1>3. IsFiniteSet(1 .. Len(s)) /\ Cardinality(1 .. Len(s)) = Len(s)
  <2>1. Len(s) \in Nat
    OBVIOUS
  <2> QED
    BY <2>1, UpTo
<1> QED
  BY <1>2, <1>3, FS_Bijection

\* Disjoint finite sets: the cardinality of their union is the sum.
LEMMA DisjointUnion ==
    ASSUME NEW S, NEW T, IsFiniteSet(S), IsFiniteSet(T), S \cap T = {}
    PROVE  /\ IsFiniteSet(S \cup T)
           /\ Cardinality(S \cup T) = Cardinality(S) + Cardinality(T)
<1>1. /\ IsFiniteSet(S \cup T)
      /\ Cardinality(S \cup T) = Cardinality(S) + Cardinality(T) - Cardinality(S \cap T)
  BY FS_Union
<1>2. Cardinality(S) \in Nat /\ Cardinality(T) \in Nat /\ Cardinality(S \cap T) = 0
  BY FS_CardinalityType, FS_EmptySet
<1> QED
  BY <1>1, <1>2

\* A counter that goes round modulo n, with n at least 2, always changes.
LEMMA ModStep ==
    ASSUME NEW n \in Nat, n > 1, NEW x \in 0 .. n - 1
    PROVE  (x + 1) % n \in 0 .. n - 1 /\ (x + 1) % n # x
OBVIOUS

\* Quotient and remainder, for a divisor that is not a literal.
LEMMA DivMod ==
    ASSUME NEW c \in Int, NEW w \in Int, w > 0
    PROVE  /\ c \div w \in Int
           /\ c % w \in 0 .. w - 1
           /\ c = w * (c \div w) + (c % w)
<1>1. c = w * (c \div w) + (c % w)
  OBVIOUS
<1>2. c \div w \in Int /\ c % w \in 0 .. w - 1
  OBVIOUS
<1> QED
  BY <1>1, <1>2

\* They are the only ones.
LEMMA DivModUnique ==
    ASSUME NEW w \in Int, w > 0, NEW q \in Int, NEW r \in 0 .. w - 1
    PROVE  (w * q + r) \div w = q /\ (w * q + r) % w = r
<1> DEFINE c == w * q + r
<1>1. c \in Int /\ w * q \in Int
  OBVIOUS
<1>2. w * q <= c /\ c < w * q + w
  BY <1>1
<1> HIDE DEF c
<1>3. c \div w = q
  BY <1>1, <1>2
<1>4. c = w * (c \div w) + (c % w) /\ c % w \in 0 .. w - 1
  BY <1>1, DivMod
<1>5. c = w * q + r
  BY DEF c
<1>6. c % w = r
  BY <1>1, <1>3, <1>4, <1>5
<1> QED
  BY <1>3, <1>6 DEF c

\* Different multiples of w differ by w at least.
LEMMA Multiples ==
    ASSUME NEW w \in Int, w > 0, NEW p \in Int, NEW q \in Int, p < q
    PROVE  w * p + w <= w * q
OBVIOUS

\* Among w numbers in a row no two have the same remainder, and every remainder
\* occurs: a ring has one slot for each.
LEMMA RingSlots ==
    ASSUME NEW w \in Int, w > 0, NEW k \in Int
    PROVE  /\ \A m, n \in k .. k + w - 1 : m % w = n % w => m = n
           /\ \A i \in 0 .. w - 1 : \E n \in k .. k + w - 1 : n % w = i
<1>1. ASSUME NEW m \in Int, NEW n \in Int, m % w = n % w, m < n
      PROVE  m + w <= n
  <2>1. /\ m = w * (m \div w) + (m % w)
        /\ n = w * (n \div w) + (n % w)
        /\ m \div w \in Int /\ n \div w \in Int
        /\ m % w \in 0 .. w - 1
        /\ n % w = m % w
    BY <1>1, DivMod
  <2> DEFINE p == m \div w
             q == n \div w
             r == m % w
  <2>2. m = w * p + r /\ n = w * q + r /\ p \in Int /\ q \in Int /\ r \in 0 .. w - 1
    BY <2>1
  <2> HIDE DEF p, q, r
  <2>3. w * p \in Int /\ w * q \in Int /\ m < n
    BY <1>1, <2>2
  <2>4. p < q
    <3>1. ASSUME q <= p PROVE w * q <= w * p
      BY <2>2, <3>1
    <3> QED
      BY <2>2, <2>3, <3>1
  <2>5. w * p + w <= w * q
    BY <2>2, <2>4, Multiples
  <2> QED
    BY <2>2, <2>3, <2>5
<1>2. \A m, n \in k .. k + w - 1 : m % w = n % w => m = n
  <2>1. \A m, n \in Int : m % w = n % w /\ m < n => m + w <= n
    BY <1>1
  <2>2. TAKE m, n \in k .. k + w - 1
  <2>3. HAVE m % w = n % w
  <2>4. m \in Int /\ n \in Int /\ m + w > n /\ n + w > m
    OBVIOUS
  <2>5. m % w = n % w /\ m < n => m + w <= n
    BY <2>1, <2>4, Zenon
  <2>6. n % w = m % w /\ n < m => n + w <= m
    BY <2>1, <2>4, Zenon
  <2>7. ~ (m < n) /\ ~ (n < m)
    BY <2>3, <2>4, <2>5, <2>6
  <2> QED
    BY <2>4, <2>7
<1>3. ASSUME NEW i \in 0 .. w - 1
      PROVE  \E n \in k .. k + w - 1 : n % w = i
  <2> DEFINE d == (k - i) \div w
             r == (k - i) % w
  <2>1. k - i = w * d + r /\ d \in Int /\ r \in 0 .. w - 1
    BY DivMod
  <2> HIDE DEF d, r
  <2>2. w * d \in Int /\ w * (d + 1) = w * d + w /\ w * (d + 1) \in Int
    BY <2>1
  <2>3. (w * d + i) % w = i /\ (w * (d + 1) + i) % w = i
    BY <2>1, DivModUnique
  <2>4. CASE r = 0
    <3>1. w * d + i \in k .. k + w - 1
      BY <2>1, <2>2, <2>4
    <3> QED
      BY <3>1, <2>3
  <2>5. CASE r > 0
    <3>1. w * (d + 1) + i \in k .. k + w - 1
      BY <2>1, <2>2, <2>5
    <3> QED
      BY <3>1, <2>3
  <2> QED
    BY <2>1, <2>4, <2>5
<1> QED
  BY <1>2, <1>3
=============================================================================
