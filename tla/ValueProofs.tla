---------------------------- MODULE ValueProofs -----------------------------
(***************************************************************************)
(* Facts about the values of the lifter as numbers: the number a set of    *)
(* positions stands for, unsigned and signed, the bits of a number, and    *)
(* what addition, subtraction and complement do to it, for every width.    *)
(***************************************************************************)
EXTENDS Bits, WellFoundedInduction, FiniteSetTheorems, TLAPS

\* A set of numbers has a least one.
LEMMA LeastNumber ==
    ASSUME NEW T \in SUBSET Nat, T # {}
    PROVE  \E m \in T : \A k \in T : m <= k
<1>1. PICK R : IsWellFoundedOn(R, Nat) /\ \A k, n \in Nat : k < n => <<k, n>> \in R
  <2>1. IsWellFoundedOn(OpToRel(<, Nat), Nat)
    BY NatLessThanWellFounded
  <2>2. \A k, n \in Nat : k < n => <<k, n>> \in OpToRel(<, Nat)
    BY DEF OpToRel
  <2> QED
    BY <2>1, <2>2, Zenon
<1>2. PICK m \in T : \A k \in T : <<k, m>> \notin R
  <2>1. IsWellFoundedOn(R, Nat) /\ T \subseteq Nat /\ T # {}
    BY <1>1
  <2> QED
    BY <2>1, WFMin, Zenon
<1>3. \A k \in T : ~(k < m)
  BY <1>1, <1>2
<1> QED
  BY <1>2, <1>3

\* So a set that has, with each of its numbers, the one before it, and not 0, is
\* empty: the numbers where something fails.
LEMMA NoneFails ==
    ASSUME NEW T \in SUBSET Nat, \A k \in T : k # 0 /\ k - 1 \in T
    PROVE  T = {}
<1> SUFFICES ASSUME T # {} PROVE FALSE
  OBVIOUS
<1>1. PICK m \in T : \A k \in T : m <= k
  BY LeastNumber
<1> QED
  BY <1>1

\* Division with a remainder, and the remainders of a number and the next.
LEMMA QuotientAndRemainder ==
    ASSUME NEW p \in Nat \ {0}, NEW k \in Nat
    PROVE  \E q \in Nat, r \in 0 .. p - 1 : k = q * p + r
<1> DEFINE T == {n \in Nat : ~ \E q \in Nat, r \in 0 .. p - 1 : n = q * p + r}
<1>1. 0 \notin T
  <2>1. 0 = 0 * p + 0 /\ 0 \in 0 .. p - 1
    OBVIOUS
  <2> QED
    BY <2>1
<1>2. ASSUME NEW n \in Nat, n \notin T
      PROVE  n + 1 \notin T
  <2>1. PICK q \in Nat, r \in 0 .. p - 1 : n = q * p + r
    BY <1>2
  <2>2. CASE r < p - 1
    BY <2>1, <2>2
  <2>3. CASE r = p - 1
    <3>1. n + 1 = (q + 1) * p + 0 /\ q + 1 \in Nat /\ 0 \in 0 .. p - 1
      BY <2>1, <2>3
    <3> QED
      BY <3>1
  <2> QED
    BY <2>2, <2>3
<1>3. T = {}
  <2>1. ASSUME NEW n \in T PROVE n # 0 /\ n - 1 \in T
    <3>1. n # 0 /\ n \in Nat /\ n - 1 \in Nat /\ (n - 1) + 1 = n
      BY <1>1
    <3>2. n - 1 \notin T => (n - 1) + 1 \notin T
      BY <3>1, <1>2
    <3> QED
      BY <3>1, <3>2
  <2> HIDE DEF T
  <2>2. T \in SUBSET Nat
    BY DEF T
  <2> QED
    BY <2>1, <2>2, NoneFails
<1> QED
  BY <1>3

\* A number q * p + r with r below p has the remainder r.
LEMMA Remainder ==
    ASSUME NEW p \in Nat \ {0}, NEW q \in Nat, NEW r \in 0 .. p - 1, NEW k, k = q * p + r
    PROVE  k % p = r
  OBVIOUS

\* The remainder of the next number is one more, or 0 after the last: a rotation by
\* one more place.
LEMMA NextRemainder ==
    ASSUME NEW p \in Nat \ {0}, NEW k \in Nat
    PROVE  (k + 1) % p = IF k % p = p - 1 THEN 0 ELSE (k % p) + 1
<1>1. PICK q \in Nat, r \in 0 .. p - 1 : k = q * p + r
  BY QuotientAndRemainder
<1>2. k % p = r
  BY <1>1, Remainder
<1> DEFINE next == k + 1
           turns == q + 1
<1>3. CASE r = p - 1
  <2>1. next = turns * p + 0 /\ turns \in Nat /\ 0 \in 0 .. p - 1
    BY <1>1, <1>3
  <2> HIDE DEF next, turns
  <2>2. next % p = 0
    BY <2>1, Remainder
  <2> QED
    BY <1>2, <1>3, <2>2 DEF next
<1>4. CASE r # p - 1
  <2> DEFINE s == r + 1
  <2>1. next = q * p + s /\ s \in 0 .. p - 1
    BY <1>1, <1>4
  <2> HIDE DEF next, s
  <2>2. next % p = s
    BY <2>1, Remainder
  <2> QED
    BY <1>2, <1>4, <2>2 DEF next, s
<1> QED
  BY <1>3, <1>4

\* Powers of two, from the number of the subsets of a set.
LEMMA PowerStep ==
    ASSUME NEW n \in Nat
    PROVE  2^n \in Nat \ {0} /\ 2^(n + 1) = 2 * 2^n
<1> DEFINE S == 1 .. n
           m == n + 1
           U == SUBSET S
           V == {s \union {m} : s \in U}
           f == [s \in U |-> s \union {m}]
<1>1. IsFiniteSet(S) /\ Cardinality(S) = n
  BY FS_Interval
<1>2. IsFiniteSet(U) /\ Cardinality(U) = 2^n
  BY <1>1, FS_SUBSET
<1>3. m \notin S
  OBVIOUS
<1>4. IsFiniteSet(V) /\ Cardinality(V) = Cardinality(U)
  <2>1. f \in Bijection(U, V)
    <3>1. f \in [U -> V]
      OBVIOUS
    <3>2. \A s, t \in U : f[s] = f[t] => s = t
      BY <1>3
    <3>3. \A v \in V : \E s \in U : f[s] = v
      OBVIOUS
    <3> HIDE DEF U, V, f
    <3> QED
      BY <3>1, <3>2, <3>3 DEF Bijection, Injection, Surjection, IsInjective
  <2>2. ExistsBijection(U, V)
    BY <2>1 DEF ExistsBijection
  <2> QED
    BY <1>2, <2>2, FS_Bijection
<1>5. U \intersect V = {}
  BY <1>3
<1>6. U \union V = SUBSET (S \union {m})
  <2>1. ASSUME NEW s \in SUBSET (S \union {m}) PROVE s \in U \union V
    <3>1. CASE m \in s
      <4>1. s = (s \ {m}) \union {m} /\ s \ {m} \in U
        BY <3>1
      <4> QED
        BY <4>1
    <3>2. CASE m \notin s
      BY <3>2
    <3> QED
      BY <3>1, <3>2
  <2> QED
    BY <2>1
<1>7. S \union {m} = 1 .. m
  OBVIOUS
<1>8. IsFiniteSet(1 .. m) /\ Cardinality(1 .. m) = m
  BY FS_Interval
<1>9. Cardinality(SUBSET (1 .. m)) = 2^m
  BY <1>8, FS_SUBSET
<1> HIDE DEF U, V
<1>10. Cardinality(U \union V) = Cardinality(U) + Cardinality(V)
  <2>1. Cardinality(U \union V) = Cardinality(U) + Cardinality(V) - Cardinality(U \intersect V)
    BY <1>2, <1>4, FS_Union
  <2>2. Cardinality(U \intersect V) = 0
    BY <1>5, FS_EmptySet
  <2>3. Cardinality(U) \in Nat
    BY <1>2, FS_CardinalityType
  <2> QED
    BY <1>4, <2>1, <2>2, <2>3
<1>11. Cardinality(U) \in Nat /\ Cardinality(U) # 0
  <2>1. {} \in U
    BY DEF U
  <2> QED
    BY <1>2, <2>1, FS_EmptySet, FS_CardinalityType
<1>12. 2^m = 2^n + 2^n
  BY <1>2, <1>4, <1>6, <1>7, <1>9, <1>10
<1> QED
  BY <1>2, <1>11, <1>12

\* Division of any number, and the multiples in a range.
LEMMA Division ==
    ASSUME NEW P \in Nat \ {0}, NEW q \in Int, NEW r \in 0 .. P - 1, NEW n, n = q * P + r
    PROVE  n \div P = q /\ n % P = r
  OBVIOUS

\* A number is twice its half and a last bit.
LEMMA OddOrEven ==
    ASSUME NEW q \in Int
    PROVE  q % 2 \in 0 .. 1 /\ q \div 2 \in Int /\ q = 2 * (q \div 2) + (q % 2)
  OBVIOUS

\* Between -P and P only 0 is a multiple of P.
LEMMA NoMultiple ==
    ASSUME NEW P \in Nat \ {0}, NEW q \in Int, q * P < P, q * P > -P
    PROVE  q = 0
<1>1. q >= 1 => (q - 1) * P >= 0
  OBVIOUS
<1>2. q <= -1 => (-q - 1) * P >= 0
  OBVIOUS
<1>3. (q - 1) * P = q * P - P /\ (-q - 1) * P = -(q * P) - P
  OBVIOUS
<1>4. q * P \in Int
  OBVIOUS
<1> QED
  BY <1>1, <1>2, <1>3, <1>4

\* One step of the sum that gives a value its number.
Element(s)   == CHOOSE x \in s : TRUE
SumOf(h, s)  == IF s = {} THEN 0 ELSE 2^Element(s) + h[s \ {Element(s)}]
Summed(h, v, n) == \A s \in SUBSET v : Cardinality(s) <= n => h[s] = SumOf(h, s)

\* The sum exists for every finite set.
LEMMA SumExists ==
    ASSUME NEW v, IsFiniteSet(v)
    PROVE  \A n \in Nat : \E h : Summed(h, v, n)
<1> DEFINE T == {n \in Nat : ~ \E h : Summed(h, v, n)}
<1>1. \A s \in SUBSET v : IsFiniteSet(s) /\ Cardinality(s) \in Nat
  BY FS_Subset, FS_CardinalityType
<1>2. 0 \notin T
  <2>1. ASSUME NEW s \in SUBSET v, Cardinality(s) <= 0
        PROVE  [t \in SUBSET v |-> 0][s] = SumOf([t \in SUBSET v |-> 0], s)
    <3>1. s = {}
      BY <1>1, <2>1, FS_EmptySet
    <3> QED
      BY <3>1 DEF SumOf
  <2>2. Summed([t \in SUBSET v |-> 0], v, 0)
    BY <2>1 DEF Summed
  <2> QED
    BY <2>2
<1>3. ASSUME NEW n \in Nat, NEW h, Summed(h, v, n)
      PROVE  \E g : Summed(g, v, n + 1)
  <2> DEFINE g == [s \in SUBSET v |-> IF Cardinality(s) <= n THEN h[s] ELSE SumOf(h, s)]
  <2>1. \A s \in SUBSET v : g[s] = SumOf(h, s)
    BY <1>3 DEF Summed
  <2>2. ASSUME NEW s \in SUBSET v, Cardinality(s) <= n + 1
        PROVE  SumOf(g, s) = SumOf(h, s)
    <3>1. CASE s = {}
      BY <3>1 DEF SumOf
    <3>2. CASE s # {}
      <4> DEFINE t == s \ {Element(s)}
      <4>1. Element(s) \in s
        BY <3>2 DEF Element
      <4>2. t \in SUBSET v /\ Cardinality(t) = Cardinality(s) - 1
        BY <1>1, <4>1, FS_RemoveElement
      <4>3. Cardinality(t) <= n
        BY <1>1, <2>2, <4>2
      <4>4. g[t] = h[t]
        BY <4>2, <4>3
      <4> QED
        BY <3>2, <4>4 DEF SumOf
    <3> QED
      BY <3>1, <3>2
  <2> HIDE DEF g
  <2>3. Summed(g, v, n + 1)
    BY <2>1, <2>2 DEF Summed
  <2> QED
    BY <2>3
<1>4. T = {}
  <2>1. ASSUME NEW n \in T PROVE n # 0 /\ n - 1 \in T
    <3>1. n \in Nat /\ n # 0 /\ n - 1 \in Nat /\ (n - 1) + 1 = n
      BY <1>2
    <3>2. ASSUME NEW h, Summed(h, v, n - 1) PROVE \E g : Summed(g, v, n)
      BY <3>1, <3>2, <1>3
    <3> QED
      BY <3>1, <3>2
  <2>2. T \in SUBSET Nat
    OBVIOUS
  <2> HIDE DEF T
  <2> QED
    BY <2>1, <2>2, NoneFails
<1> QED
  BY <1>4

\* NatOf of a finite set of positions is the sum that SumOf defines step by step.
LEMMA NatOfIsSum ==
    ASSUME NEW v, IsFiniteSet(v)
    PROVE  \E h : NatOf(v) = h[v] /\ \A s \in SUBSET v : h[s] = SumOf(h, s)
<1> DEFINE Sum(h) == [s \in SUBSET v |->
                        IF s = {} THEN 0
                        ELSE 2^(CHOOSE x \in s : TRUE) + h[s \ {CHOOSE x \in s : TRUE}]]
           iter   == CHOOSE h : h = Sum(h)
<1>1. NatOf(v) = iter[v]
  BY DEF NatOf
<1>2. \A h : Sum(h) = [s \in SUBSET v |-> SumOf(h, s)]
  BY DEF SumOf, Element
<1>3. \E h : h = Sum(h)
  <2>1. PICK h : Summed(h, v, Cardinality(v))
    BY SumExists, FS_CardinalityType
  <2> DEFINE g == [s \in SUBSET v |-> h[s]]
  <2>2. ASSUME NEW s \in SUBSET v PROVE h[s] = SumOf(h, s)
    <3>1. Cardinality(s) <= Cardinality(v)
      BY FS_Subset
    <3> QED
      BY <2>1, <3>1 DEF Summed
  <2>3. ASSUME NEW s \in SUBSET v PROVE SumOf(g, s) = SumOf(h, s)
    BY DEF SumOf
  <2>4. g = [s \in SUBSET v |-> SumOf(g, s)]
    BY <2>2, <2>3
  <2> HIDE DEF Sum, g
  <2>5. g = Sum(g)
    BY <1>2, <2>4
  <2> QED
    BY <2>5
<1>4. iter = Sum(iter)
  <2> HIDE DEF Sum
  <2> QED
    BY <1>3
<1> HIDE DEF iter, Sum
<1>5. iter = [s \in SUBSET v |-> SumOf(iter, s)]
  BY <1>2, <1>4
<1>6. \A s \in SUBSET v : iter[s] = SumOf(iter, s)
  BY <1>5, Zenon
<1> QED
  BY <1>1, <1>6

\* The number of a value is one.
LEMMA NatOfIsNumber ==
    ASSUME NEW v \in SUBSET Nat, IsFiniteSet(v)
    PROVE  NatOf(v) \in Int
<1>1. PICK h : NatOf(v) = h[v] /\ \A s \in SUBSET v : h[s] = SumOf(h, s)
  BY NatOfIsSum
<1> DEFINE T == {n \in Nat : \E s \in SUBSET v : Cardinality(s) = n /\ h[s] \notin Int}
<1>2. \A s \in SUBSET v : IsFiniteSet(s) /\ Cardinality(s) \in Nat
  BY FS_Subset, FS_CardinalityType
<1>3. T = {}
  <2>1. ASSUME NEW n \in T PROVE n # 0 /\ n - 1 \in T
    <3>1. PICK s \in SUBSET v : Cardinality(s) = n /\ h[s] \notin Int
      OBVIOUS
    <3>2. h[s] = SumOf(h, s)
      BY <1>1
    <3>3. s # {}
      BY <3>1, <3>2 DEF SumOf
    <3> DEFINE x == Element(s)
               t == s \ {x}
    <3>4. x \in s /\ x \in Nat
      BY <3>3 DEF Element
    <3>5. IsFiniteSet(s) /\ Cardinality(s) \in Nat
      BY <1>2
    <3>6. t \in SUBSET v /\ Cardinality(t) = n - 1 /\ n \in Nat /\ Cardinality(t) \in Nat
      BY <1>2, <3>1, <3>4, <3>5, FS_RemoveElement
    <3>7. h[s] = 2^x + h[t]
      BY <3>2, <3>3 DEF SumOf
    <3>8. 2^x \in Int
      BY <3>4
    <3>9. h[t] \notin Int
      BY <3>1, <3>7, <3>8
    <3> QED
      BY <3>6, <3>9
  <2>2. T \in SUBSET Nat
    OBVIOUS
  <2> HIDE DEF T
  <2> QED
    BY <2>1, <2>2, NoneFails
<1>4. h[v] \in Int
  BY <1>2, <1>3
<1> QED
  BY <1>1, <1>4

\* The sum does not depend on the order the elements are taken in.
LEMMA SumsAgree ==
    ASSUME NEW v, IsFiniteSet(v), NEW g, NEW h,
           \A s \in SUBSET v : g[s] = SumOf(g, s), \A s \in SUBSET v : h[s] = SumOf(h, s)
    PROVE  g[v] = h[v]
<1> DEFINE T == {n \in Nat : \E s \in SUBSET v : Cardinality(s) = n /\ g[s] # h[s]}
<1>1. \A s \in SUBSET v : IsFiniteSet(s) /\ Cardinality(s) \in Nat
  BY FS_Subset, FS_CardinalityType
<1>2. ASSUME NEW n \in T PROVE n # 0 /\ n - 1 \in T
  <2>1. PICK s \in SUBSET v : Cardinality(s) = n /\ g[s] # h[s]
    OBVIOUS
  <2>2. s # {}
    BY <2>1 DEF SumOf
  <2> DEFINE x == Element(s)
             t == s \ {x}
  <2>3. x \in s
    BY <2>2 DEF Element
  <2>4. t \in SUBSET v /\ Cardinality(t) = n - 1 /\ n \in Nat /\ Cardinality(t) \in Nat
    <3>1. IsFiniteSet(s) /\ t \in SUBSET v
      BY <1>1
    <3> QED
      BY <1>1, <2>1, <2>3, <3>1, FS_RemoveElement
  <2>5. g[t] # h[t]
    <3>1. g[s] = 2^x + g[t] /\ h[s] = 2^x + h[t]
      BY <2>2 DEF SumOf
    <3> QED
      BY <2>1, <3>1
  <2> HIDE DEF t
  <2>6. n - 1 \in T
    BY <2>4, <2>5
  <2>7. n # 0
    BY <2>4
  <2> QED
    BY <2>6, <2>7
<1>3. T = {}
  <2>1. T \in SUBSET Nat
    OBVIOUS
  <2> HIDE DEF T
  <2> QED
    BY <1>2, <2>1, NoneFails
<1> QED
  BY <1>1, <1>3

\* The number of a value is the power of one of its positions and the number of the
\* rest.
LEMMA NatOfStep ==
    ASSUME NEW v, IsFiniteSet(v), v # {}
    PROVE  NatOf(v) = 2^Element(v) + NatOf(v \ {Element(v)})
<1> DEFINE t == v \ {Element(v)}
<1>1. PICK h : NatOf(v) = h[v] /\ \A s \in SUBSET v : h[s] = SumOf(h, s)
  BY NatOfIsSum
<1>2. t \in SUBSET v /\ IsFiniteSet(t)
  BY FS_Subset
<1>3. PICK g : NatOf(t) = g[t] /\ \A s \in SUBSET t : g[s] = SumOf(g, s)
  BY <1>2, NatOfIsSum
<1>4. \A s \in SUBSET t : h[s] = SumOf(h, s)
  BY <1>1, <1>2
<1> HIDE DEF t
<1>5. g[t] = h[t]
  BY <1>2, <1>3, <1>4, SumsAgree
<1>6. h[v] = SumOf(h, v)
  BY <1>1
<1> QED
  BY <1>1, <1>3, <1>5, <1>6 DEF SumOf, t

\* One more bit adds its power.
LEMMA NatOfEmpty == NatOf({}) = 0
<1>1. PICK h : NatOf({}) = h[{}] /\ \A s \in SUBSET {} : h[s] = SumOf(h, s)
  BY NatOfIsSum, FS_EmptySet
<1> QED
  BY <1>1 DEF SumOf

\* Setting a bit that is clear adds its power.
LEMMA NatOfAdd ==
    ASSUME NEW v \in SUBSET Nat, IsFiniteSet(v), NEW x \in Nat, x \notin v
    PROVE  NatOf(v \union {x}) = NatOf(v) + 2^x
<1> DEFINE S == v \union {x}
           Holds(t, y) == NatOf(t \union {y}) = NatOf(t) + 2^y
           T == {n \in Nat : \E t \in SUBSET S, y \in S :
                    y \notin t /\ Cardinality(t) = n /\ ~Holds(t, y)}
<1>1. S \in SUBSET Nat /\ IsFiniteSet(S)
  BY FS_AddElement
<1>2. \A s \in SUBSET S : IsFiniteSet(s) /\ Cardinality(s) \in Nat /\ NatOf(s) \in Int
  BY <1>1, FS_Subset, FS_CardinalityType, NatOfIsNumber
<1> HIDE DEF S
<1>3. ASSUME NEW n \in T PROVE n # 0 /\ n - 1 \in T
  <2>1. PICK t \in SUBSET S, y \in S : y \notin t /\ Cardinality(t) = n /\ ~Holds(t, y)
    OBVIOUS
  <2> DEFINE u == t \union {y}
             e == Element(u)
             r == t \ {e}
  <2>2. NatOf(u) = 2^e + NatOf(u \ {e}) /\ e \in u
    <3>1. u # {} /\ u \in SUBSET S
      OBVIOUS
    <3> QED
      BY <1>2, <3>1, NatOfStep DEF Element
  <2>3. e # y
    <3> SUFFICES ASSUME e = y PROVE FALSE
      OBVIOUS
    <3>1. u \ {e} = t
      BY <2>1
    <3>2. NatOf(u) = NatOf(t) + 2^y
      <4>1. NatOf(t) \in Int /\ 2^y \in Int
        BY <1>1, <1>2
      <4> HIDE DEF u, e
      <4>2. NatOf(u) = 2^y + NatOf(t)
        BY <2>2, <3>1, Zenon
      <4> QED
        BY <4>1, <4>2
    <3> QED
      BY <2>1, <3>2
  <2>4. e \in t /\ r \in SUBSET S /\ u \ {e} = r \union {y} /\ t = r \union {e} /\ e \in S
    BY <2>2, <2>3
  <2>5. Cardinality(r) = n - 1 /\ Cardinality(r) \in Nat
    <3>1. IsFiniteSet(t) /\ IsFiniteSet(r) /\ Cardinality(r) \in Nat
      BY <1>2
    <3> HIDE DEF e
    <3> QED
      BY <2>1, <2>4, <3>1, FS_RemoveElement
  <2> HIDE DEF e
  <2>6. ~Holds(r, y) \/ ~Holds(r, e)
    <3> SUFFICES ASSUME Holds(r, y), Holds(r, e) PROVE FALSE
      OBVIOUS
    <3>1. NatOf(r \union {y}) = NatOf(r) + 2^y /\ NatOf(t) = NatOf(r) + 2^e
      BY <2>4
    <3>2. NatOf(u) = 2^e + (NatOf(r) + 2^y)
      BY <2>2, <2>4, <3>1
    <3>3. NatOf(r) \in Int /\ 2^y \in Int /\ 2^e \in Int
      BY <1>1, <1>2, <2>4
    <3> HIDE DEF u, r
    <3>4. NatOf(u) = NatOf(t) + 2^y
      BY <3>1, <3>2, <3>3
    <3> QED
      BY <2>1, <3>4 DEF u
  <2>7. y \notin r /\ e \notin r
    BY <2>1
  <2> HIDE DEF r
  <2>8. \E k \in S : k \notin r /\ ~Holds(r, k)
    BY <2>4, <2>6, <2>7
  <2> HIDE DEF Holds
  <2>9. n - 1 \in T
    BY <2>4, <2>5, <2>8
  <2>10. n # 0
    BY <2>5
  <2> QED
    BY <2>9, <2>10
<1>4. T = {}
  <2>1. T \in SUBSET Nat
    OBVIOUS
  <2> HIDE DEF T
  <2> QED
    BY <1>3, <2>1, NoneFails
<1>5. v \in SUBSET S /\ x \in S
  BY DEF S
<1> QED
  BY <1>2, <1>4, <1>5

-----------------------------------------------------------------------------
(* Values of a width *)

\* A value of a width is a finite set of positions, and its number is an integer.
LEMMA ValueIsFinite ==
    ASSUME NEW w \in Nat, NEW v \in SUBSET Positions(w)
    PROVE  v \in SUBSET Nat /\ IsFiniteSet(v) /\ NatOf(v) \in Int
<1>1. v \in SUBSET Nat /\ IsFiniteSet(v)
  <2>1. IsFiniteSet(Positions(w)) /\ Positions(w) \subseteq Nat
    BY FS_Interval DEF Positions
  <2> QED
    BY <2>1, FS_Subset
<1> QED
  BY <1>1, NatOfIsNumber

\* A value without its top bit, and the power that bit stands for.
TopPart(k, v) == IF k \in v THEN 2^k ELSE 0

\* A value of k + 1 bits is its low k bits and its top bit.
LEMMA SplitTop ==
    ASSUME NEW k \in Nat, NEW v \in SUBSET Positions(k + 1)
    PROVE  /\ Trunc(k, v) \in SUBSET Positions(k)
           /\ NatOf(v) = NatOf(Trunc(k, v)) + TopPart(k, v)
<1> DEFINE u == Trunc(k, v)
<1>1. u \in SUBSET Positions(k)
  BY DEF Trunc
<1>2. u \in SUBSET Nat /\ IsFiniteSet(u) /\ NatOf(u) \in Int
  BY <1>1, ValueIsFinite
<1>3. k \notin u
  BY DEF Trunc, Positions
<1>4. IF k \in v THEN v = u \union {k} ELSE v = u
  <2>1. Positions(k + 1) = Positions(k) \union {k}
    BY DEF Positions
  <2> HIDE DEF Positions
  <2> QED
    BY <2>1 DEF Trunc
<1> HIDE DEF u
<1>5. NatOf(u \union {k}) = NatOf(u) + 2^k
  BY <1>2, <1>3, NatOfAdd
<1>6. NatOf(v) = NatOf(u) + TopPart(k, v)
  <2> DEFINE P == 2^k
  <2>1. CASE k \in v
    BY <1>4, <1>5, <2>1 DEF TopPart
  <2>2. CASE k \notin v
    BY <1>2, <1>4, <2>2 DEF TopPart
  <2> QED
    BY <2>1, <2>2
<1> QED
  BY <1>1, <1>6 DEF u

\* The number of a value fits in its width.
LEMMA NatOfBound ==
    ASSUME NEW w \in Nat, NEW v \in SUBSET Positions(w)
    PROVE  NatOf(v) \in 0 .. 2^w - 1
<1> DEFINE Fits(k, u) == NatOf(u) \in 0 .. 2^k - 1
           T == {k \in Nat : \E u \in SUBSET Positions(k) : ~Fits(k, u)}
<1>1. 0 \notin T
  <2>1. \A u \in SUBSET Positions(0) : u = {}
    BY DEF Positions
  <2>2. 2^0 \in Nat \ {0}
    BY PowerStep
  <2> QED
    BY <2>1, <2>2, NatOfEmpty
<1>2. ASSUME NEW n \in T PROVE n # 0 /\ n - 1 \in T
  <2> DEFINE k == n - 1
  <2>0. n \in Nat
    OBVIOUS
  <2> HIDE DEF T
  <2>1. n \in Nat /\ n # 0 /\ k \in Nat /\ k + 1 = n
    BY <1>1, <2>0
  <2> USE DEF T
  <2>2. PICK v1 \in SUBSET Positions(n) : ~Fits(n, v1)
    OBVIOUS
  <2> HIDE DEF k
  <2>3. v1 \in SUBSET Positions(k + 1)
    BY <2>1, <2>2
  <2> DEFINE u == Trunc(k, v1)
             P == 2^k
  <2>4. u \in SUBSET Positions(k) /\ NatOf(v1) = NatOf(u) + TopPart(k, v1)
    BY <2>1, <2>3, SplitTop
  <2>5. NatOf(u) \in Int
    BY <2>1, <2>4, ValueIsFinite
  <2>6. P \in Nat \ {0} /\ 2^n = 2 * P
    BY <2>1, PowerStep
  <2>7. TopPart(k, v1) \in {0, P}
    BY DEF TopPart
  <2> HIDE DEF P, u
  <2>8. ~Fits(k, u)
    <3> SUFFICES ASSUME NatOf(u) \in 0 .. P - 1 PROVE FALSE
      BY DEF P
    <3>1. NatOf(v1) \in 0 .. 2 * P - 1
      BY <2>4, <2>5, <2>6, <2>7
    <3> QED
      BY <2>2, <2>6, <3>1
  <2>9. k \in T
    <3> HIDE DEF Fits
    <3> QED
      BY <2>1, <2>4, <2>8
  <2> QED
    BY <2>1, <2>9 DEF k
<1>3. T = {}
  <2>1. T \in SUBSET Nat
    OBVIOUS
  <2> HIDE DEF T
  <2> QED
    BY <1>2, <2>1, NoneFails
<1> QED
  BY <1>3

\* The top bit is half of the range.
LEMMA TopBitIsHalf ==
    ASSUME NEW k \in Nat, NEW v \in SUBSET Positions(k + 1)
    PROVE  k \in v <=> NatOf(v) >= 2^k
<1> DEFINE u == Trunc(k, v)
           P == 2^k
<1>1. u \in SUBSET Positions(k) /\ NatOf(v) = NatOf(u) + TopPart(k, v)
  BY SplitTop
<1>2. NatOf(u) \in 0 .. P - 1
  BY <1>1, NatOfBound
<1>3. P \in Nat \ {0}
  BY PowerStep
<1> HIDE DEF u
<1>4. TopPart(k, v) = IF k \in v THEN P ELSE 0
  BY DEF TopPart
<1> HIDE DEF P
<1>5. CASE k \in v
  BY <1>1, <1>2, <1>3, <1>4, <1>5 DEF P
<1>6. CASE k \notin v
  BY <1>1, <1>2, <1>3, <1>4, <1>6 DEF P
<1> QED
  BY <1>5, <1>6

\* The low k of k + 1 bits of a number are its k bits, and the top one is that of its
\* quotient.
LEMMA BitsOfTop ==
    ASSUME NEW k \in Nat, NEW n
    PROVE  /\ BitsOf(k, n) \in SUBSET Positions(k)
           /\ BitsOf(k + 1, n) \in SUBSET Positions(k + 1)
           /\ Trunc(k, BitsOf(k + 1, n)) = BitsOf(k, n)
           /\ k \in BitsOf(k + 1, n) <=> (n \div 2^k) % 2 = 1
<1>1. Positions(k + 1) = Positions(k) \union {k} /\ k \notin Positions(k)
  BY DEF Positions
<1> HIDE DEF Positions
<1> QED
  BY <1>1 DEF BitsOf, Trunc

\* A value is what its number has as bits, whatever is above the width.
LEMMA BitsOfNumber ==
    ASSUME NEW w \in Nat, NEW v \in SUBSET Positions(w), NEW q \in Int
    PROVE  BitsOf(w, q * 2^w + NatOf(v)) = v
<1> DEFINE Same(k, u, m) == BitsOf(k, m * 2^k + NatOf(u)) = u
           T == {k \in Nat : \E u \in SUBSET Positions(k), m \in Int : ~Same(k, u, m)}
<1>1. 0 \notin T
  <2>1. \A u \in SUBSET Positions(0) : u = {}
    BY DEF Positions
  <2>2. \A m : BitsOf(0, m) = {}
    BY DEF BitsOf, Positions
  <2> QED
    BY <2>1, <2>2
<1>2. ASSUME NEW n \in T PROVE n # 0 /\ n - 1 \in T
  <2> DEFINE k == n - 1
  <2>0. n \in Nat
    OBVIOUS
  <2> HIDE DEF T
  <2>1. n \in Nat /\ n # 0 /\ k \in Nat /\ k + 1 = n
    BY <1>1, <2>0
  <2> USE DEF T
  <2>2. PICK x \in SUBSET Positions(n), m \in Int : ~Same(n, x, m)
    OBVIOUS
  <2> HIDE DEF k
  <2>3. x \in SUBSET Positions(k + 1)
    BY <2>1, <2>2
  <2> DEFINE u == Trunc(k, x)
             P == 2^k
             b == IF k \in x THEN 1 ELSE 0
             q2 == 2 * m + b
             N == m * 2^n + NatOf(x)
  <2>4. u \in SUBSET Positions(k) /\ NatOf(x) = NatOf(u) + TopPart(k, x)
    BY <2>1, <2>3, SplitTop
  <2>5. NatOf(u) \in 0 .. P - 1
    BY <2>1, <2>4, NatOfBound
  <2>6. P \in Nat \ {0} /\ 2^n = 2 * P
    BY <2>1, PowerStep
  <2>7. TopPart(k, x) = b * P /\ b \in 0 .. 1
    BY <2>6 DEF TopPart
  <2>8. N = q2 * P + NatOf(u) /\ q2 \in Int
    <3> HIDE DEF P, u, b
    <3>1. N = m * (2 * P) + (NatOf(u) + b * P)
      BY <2>4, <2>6, <2>7
    <3>2. b \in Int /\ P \in Int /\ NatOf(u) \in Int
      BY <2>5, <2>6, <2>7
    <3> QED
      BY <3>1, <3>2
  <2> HIDE DEF P, N, q2, u
  <2>9. N \div P = q2
    BY <2>5, <2>6, <2>8, Division
  <2>10. (k \in BitsOf(k + 1, N)) <=> k \in x
    <3>1. q2 % 2 = b
      BY <2>7 DEF q2
    <3>2. k \in BitsOf(k + 1, N) <=> (N \div P) % 2 = 1
      BY <2>1, BitsOfTop DEF P
    <3> QED
      BY <2>9, <3>1, <3>2
  <2>11. ~Same(k, u, q2)
    <3> SUFFICES ASSUME BitsOf(k, q2 * P + NatOf(u)) = u PROVE FALSE
      BY DEF P
    <3>1. BitsOf(k, N) = u
      BY <2>8
    <3>2. Trunc(k, BitsOf(k + 1, N)) = u /\ BitsOf(k + 1, N) \in SUBSET Positions(k + 1)
      BY <2>1, <3>1, BitsOfTop
    <3>3. Positions(k + 1) = Positions(k) \union {k}
      BY <2>1 DEF Positions
    <3>4. BitsOf(k + 1, N) = x
      BY <2>3, <2>10, <3>2, <3>3 DEF Trunc, u
    <3> QED
      BY <2>1, <2>2, <3>4 DEF N
  <2>12. k \in T
    <3> HIDE DEF Same
    <3> QED
      BY <2>1, <2>4, <2>8, <2>11
  <2> QED
    BY <2>1, <2>12 DEF k
<1>3. T = {}
  <2>1. T \in SUBSET Nat
    OBVIOUS
  <2> HIDE DEF T
  <2> QED
    BY <1>2, <2>1, NoneFails
<1> QED
  BY <1>3

\* A number is some whole ranges and the number of its bits.
LEMMA NumberOfBits ==
    ASSUME NEW w \in Nat, NEW n \in Int
    PROVE  \E q \in Int : n = q * 2^w + NatOf(BitsOf(w, n))
<1> DEFINE Whole(k) == \E q \in Int : n = q * 2^k + NatOf(BitsOf(k, n))
           T == {k \in Nat : ~Whole(k)}
<1>1. 0 \notin T
  <2>1. BitsOf(0, n) = {}
    BY DEF BitsOf, Positions
  <2>2. 2^0 = 1
    OBVIOUS
  <2>3. n = n * 2^0 + NatOf(BitsOf(0, n))
    BY <2>1, <2>2, NatOfEmpty
  <2> QED
    BY <2>3
<1>2. ASSUME NEW j \in T PROVE j # 0 /\ j - 1 \in T
  <2> DEFINE k == j - 1
  <2>0. j \in Nat
    OBVIOUS
  <2> HIDE DEF T
  <2>1. j \in Nat /\ j # 0 /\ k \in Nat /\ k + 1 = j
    BY <1>1, <2>0
  <2> USE DEF T
  <2> HIDE DEF k
  <2> SUFFICES ASSUME Whole(k) PROVE FALSE
    BY <2>1 DEF k
  <2> DEFINE P == 2^k
             u == BitsOf(k, n)
             x == BitsOf(k + 1, n)
  <2>2. PICK q \in Int : n = q * P + NatOf(u)
    OBVIOUS
  <2>3. /\ u \in SUBSET Positions(k) /\ x \in SUBSET Positions(k + 1)
        /\ Trunc(k, x) = u
        /\ k \in x <=> (n \div P) % 2 = 1
    BY <2>1, BitsOfTop
  <2> HIDE DEF u, x
  <2>4. NatOf(x) = NatOf(u) + TopPart(k, x)
    BY <2>1, <2>3, SplitTop
  <2>5. NatOf(u) \in 0 .. P - 1
    BY <2>1, <2>3, NatOfBound
  <2>6. P \in Nat \ {0} /\ 2^j = 2 * P
    BY <2>1, PowerStep
  <2>7. n \div P = q
    <3> HIDE DEF P
    <3> QED
      BY <2>2, <2>5, <2>6, Division
  <2>8. TopPart(k, x) = (q % 2) * P
    <3>1. q % 2 \in 0 .. 1
      BY OddOrEven
    <3>2. TopPart(k, x) = IF k \in x THEN P ELSE 0
      BY DEF TopPart
    <3> HIDE DEF P
    <3>3. CASE k \in x
      <4>1. q % 2 = 1
        BY <2>3, <2>7, <3>3
      <4>2. (q % 2) * P = P
        BY <2>6, <4>1
      <4> QED
        BY <3>2, <3>3, <4>2
    <3>4. CASE k \notin x
      <4>1. q % 2 = 0
        BY <2>3, <2>7, <3>1, <3>4
      <4>2. (q % 2) * P = 0
        BY <2>6, <4>1
      <4> QED
        BY <3>2, <3>4, <4>2
    <3> QED
      BY <3>3, <3>4
  <2>9. q \div 2 \in Int /\ q = 2 * (q \div 2) + (q % 2) /\ q % 2 \in Int
    BY OddOrEven
  <2> DEFINE h == q \div 2
             b == q % 2
  <2>10. n = h * (2 * P) + (NatOf(u) + b * P)
    <3>1. n = (2 * h + b) * P + NatOf(u) /\ h \in Int /\ b \in Int /\ P \in Int /\ NatOf(u) \in Int
      BY <2>2, <2>5, <2>6, <2>9
    <3> HIDE DEF h, b, P
    <3> QED
      BY <3>1
  <2>11. n = h * 2^j + NatOf(x)
    BY <2>4, <2>6, <2>8, <2>10
  <2>12. Whole(j)
    BY <2>1, <2>9, <2>11 DEF x
  <2> QED
    BY <2>12
<1>3. T = {}
  <2>1. T \in SUBSET Nat
    OBVIOUS
  <2> HIDE DEF T
  <2> QED
    BY <1>2, <2>1, NoneFails
<1> QED
  BY <1>3

\* The low w bits of a number are its remainder by 2^w.
LEMMA BitsOfIsValue ==
    ASSUME NEW w \in Nat, NEW n \in Int
    PROVE  /\ BitsOf(w, n) \in SUBSET Positions(w)
           /\ NatOf(BitsOf(w, n)) = n % 2^w
<1>1. BitsOf(w, n) \in SUBSET Positions(w)
  BY DEF BitsOf
<1>2. PICK q \in Int : n = q * 2^w + NatOf(BitsOf(w, n))
  BY NumberOfBits
<1> DEFINE P == 2^w
           r == NatOf(BitsOf(w, n))
<1>3. P \in Nat \ {0} /\ r \in 0 .. P - 1 /\ n = q * P + r
  BY <1>1, <1>2, PowerStep, NatOfBound
<1> HIDE DEF P, r
<1>4. n % P = r
  BY <1>3, Division
<1> QED
  BY <1>1, <1>4 DEF P, r

\* The bits of a number tell it apart from others of the same range, and other
\* numbers by whole ranges.
LEMMA BitsOfSame ==
    ASSUME NEW w \in Nat, NEW m \in Int, NEW n \in Int, NEW q \in Int, m = n + q * 2^w
    PROVE  BitsOf(w, m) = BitsOf(w, n)
<1> DEFINE P == 2^w
           v == BitsOf(w, n)
<1>1. v \in SUBSET Positions(w)
  BY BitsOfIsValue
<1>2. PICK j \in Int : n = j * P + NatOf(v)
  BY NumberOfBits
<1>3. P \in Int /\ NatOf(v) \in Int
  BY <1>1, PowerStep, ValueIsFinite
<1> DEFINE t == j + q
<1>4. t \in Int /\ m = t * P + NatOf(v)
  <2> HIDE DEF P, v
  <2> QED
    BY <1>2, <1>3 DEF P
<1> HIDE DEF v, t
<1>5. BitsOf(w, t * P + NatOf(v)) = v
  BY <1>1, <1>4, BitsOfNumber
<1> QED
  BY <1>4, <1>5 DEF v

\* The bits of a value's number are the value.
LEMMA BitsOfNatOf ==
    ASSUME NEW w \in Nat, NEW v \in SUBSET Positions(w)
    PROVE  BitsOf(w, NatOf(v)) = v
<1> DEFINE P == 2^w
           z == 0
<1>1. P \in Int /\ NatOf(v) \in Int /\ z \in Int
  BY PowerStep, ValueIsFinite
<1> HIDE DEF z
<1>2. BitsOf(w, z * P + NatOf(v)) = v
  BY <1>1, BitsOfNumber
<1>3. z * P + NatOf(v) = NatOf(v)
  BY <1>1 DEF z
<1> QED
  BY <1>2, <1>3

\* Two values of one width with the same number are the same value.
LEMMA SameNumber ==
    ASSUME NEW w \in Nat, NEW u \in SUBSET Positions(w), NEW v \in SUBSET Positions(w)
    PROVE  NatOf(u) = NatOf(v) <=> u = v
  BY BitsOfNatOf

\* Only the empty value is zero.
LEMMA ZeroNumber ==
    ASSUME NEW w \in Nat, NEW v \in SUBSET Positions(w)
    PROVE  NatOf(v) = 0 <=> v = {}
<1>1. {} \in SUBSET Positions(w)
  OBVIOUS
<1> QED
  BY <1>1, SameNumber, NatOfEmpty

\* What a number of at most one range to either side is as bits.
LEMMA OneTurn ==
    ASSUME NEW w \in Nat, NEW n \in Int, -(2^w) <= n, n < 2 * 2^w
    PROVE  NatOf(BitsOf(w, n)) = IF n < 0 THEN n + 2^w ELSE IF n >= 2^w THEN n - 2^w ELSE n
<1> DEFINE P == 2^w
           r == NatOf(BitsOf(w, n))
<1>1. P \in Nat \ {0}
  BY PowerStep
<1>2. r = n % P
  BY BitsOfIsValue
<1> HIDE DEF P
<1>3. CASE n < 0
  <2> DEFINE q == -1
             d == n + P
  <2>1. n = q * P + d /\ d \in 0 .. P - 1 /\ q \in Int
    BY <1>1, <1>3 DEF P
  <2> HIDE DEF q, d
  <2>2. n % P = d
    BY <1>1, <2>1, Division
  <2> QED
    BY <1>2, <1>3, <2>2 DEF P, d
<1>4. CASE n >= P
  <2> DEFINE q == 1
             d == n - P
  <2>1. n = q * P + d /\ d \in 0 .. P - 1 /\ q \in Int
    BY <1>1, <1>4 DEF P
  <2> HIDE DEF q, d
  <2>2. n % P = d
    BY <1>1, <2>1, Division
  <2> QED
    BY <1>1, <1>2, <1>4, <2>2 DEF P, d
<1>5. CASE 0 <= n /\ n < P
  <2>1. n = 0 * P + n /\ n \in 0 .. P - 1
    BY <1>1, <1>5
  <2>2. n % P = n
    BY <1>1, <2>1, Division
  <2> QED
    BY <1>1, <1>2, <1>5, <2>2 DEF P
<1> QED
  BY <1>1, <1>3, <1>4, <1>5

\* The low part of a value is the low part of its number.
LEMMA LowPart ==
    ASSUME NEW w \in Nat, NEW k \in Nat, k <= w, NEW v \in SUBSET Positions(w)
    PROVE  /\ Trunc(k, v) \in SUBSET Positions(k)
           /\ Trunc(k, v) = BitsOf(k, NatOf(v))
           /\ NatOf(Trunc(k, v)) = NatOf(v) % 2^k
           /\ \E q \in Int : NatOf(v) = q * 2^k + NatOf(Trunc(k, v))
<1> DEFINE n == NatOf(v)
<1>1. n \in Int /\ BitsOf(w, n) = v
  BY ValueIsFinite, BitsOfNatOf
<1>2. Positions(k) \subseteq Positions(w)
  BY DEF Positions
<1> HIDE DEF n
<1>3. Trunc(k, v) = BitsOf(k, n)
  BY <1>1, <1>2 DEF BitsOf, Trunc
<1>4. NatOf(BitsOf(k, n)) = n % 2^k /\ BitsOf(k, n) \in SUBSET Positions(k)
  BY <1>1, BitsOfIsValue
<1>5. \E q \in Int : n = q * 2^k + NatOf(BitsOf(k, n))
  BY <1>1, NumberOfBits
<1> QED
  BY <1>3, <1>4, <1>5 DEF n

\* A number is below its power, and a power of a sum is a product.
LEMMA BelowPower ==
    ASSUME NEW n \in Nat
    PROVE  n < 2^n
<1> DEFINE T == {k \in Nat : ~(k < 2^k)}
<1>1. 0 \notin T
  <2>1. 2^0 \in Nat \ {0}
    BY PowerStep
  <2> QED
    BY <2>1
<1>2. ASSUME NEW j \in T PROVE j # 0 /\ j - 1 \in T
  <2> DEFINE k == j - 1
  <2>1. j \in Nat /\ ~(j < 2^j)
    OBVIOUS
  <2>2. j # 0
    BY <1>1
  <2>3. k \in Nat /\ k + 1 = j
    BY <2>1, <2>2
  <2> HIDE DEF k, T
  <2>4. 2^k \in Nat \ {0} /\ 2^j = 2 * 2^k
    BY <2>3, PowerStep
  <2>5. ~(k < 2^k)
    BY <2>1, <2>3, <2>4
  <2> QED
    BY <2>2, <2>3, <2>5 DEF k, T
<1>3. T = {}
  <2>1. T \in SUBSET Nat
    OBVIOUS
  <2> HIDE DEF T
  <2> QED
    BY <1>2, <2>1, NoneFails
<1> QED
  BY <1>3

\* Powers of a sum are products: a shift by m + n is a shift by m and one by n.
LEMMA PowerSum ==
    ASSUME NEW m \in Nat, NEW n \in Nat
    PROVE  2^(m + n) = 2^m * 2^n
<1> DEFINE Holds(k) == 2^(m + k) = 2^m * 2^k
           T == {k \in Nat : ~Holds(k)}
<1>0. \A k \in Nat : 2^k \in Nat \ {0}
  BY PowerStep
<1>1. 0 \notin T
  <2>1. 2^0 = 1 /\ m + 0 = m
    OBVIOUS
  <2>2. 2^m * 1 = 2^m
    BY <1>0
  <2> QED
    BY <2>1, <2>2
<1>2. ASSUME NEW j \in T PROVE j # 0 /\ j - 1 \in T
  <2> DEFINE k == j - 1
             t == m + k
             a == 2^m
             b == 2^k
  <2>1. j \in Nat /\ ~Holds(j)
    OBVIOUS
  <2>2. j # 0
    BY <1>1
  <2>3. k \in Nat /\ k + 1 = j /\ t \in Nat /\ t + 1 = m + j
    BY <2>1, <2>2
  <2> HIDE DEF k, t
  <2>4. 2^j = 2 * b /\ 2^(m + j) = 2 * 2^t
    BY <2>3, PowerStep
  <2>5. a \in Nat /\ b \in Nat
    BY <1>0, <2>3
  <2> HIDE DEF a, b
  <2>6. a * (2 * b) = 2 * (a * b)
    BY <2>5
  <2>7. ~Holds(k)
    <3> SUFFICES ASSUME Holds(k) PROVE FALSE
      OBVIOUS
    <3>1. 2^t = a * b
      BY DEF t, a, b
    <3>2. 2^(m + j) = a * 2^j
      BY <2>4, <2>6, <3>1
    <3> QED
      BY <2>1, <3>2 DEF a
  <2> HIDE DEF Holds
  <2> QED
    BY <2>2, <2>3, <2>7 DEF k
<1>3. T = {}
  <2>1. T \in SUBSET Nat
    OBVIOUS
  <2> HIDE DEF T
  <2> QED
    BY <1>2, <2>1, NoneFails
<1> QED
  BY <1>3

\* Numbers of values that share no bit add up.
LEMMA NatOfDisjoint ==
    ASSUME NEW u \in SUBSET Nat, IsFiniteSet(u), NEW v \in SUBSET Nat, IsFiniteSet(v),
           u \intersect v = {}
    PROVE  NatOf(u \union v) = NatOf(u) + NatOf(v)
<1> DEFINE Holds(t) == NatOf(u \union t) = NatOf(u) + NatOf(t)
           T == {n \in Nat : \E t \in SUBSET v : Cardinality(t) = n /\ ~Holds(t)}
<1>1. \A s \in SUBSET v : /\ IsFiniteSet(s) /\ Cardinality(s) \in Nat /\ NatOf(s) \in Int
                          /\ IsFiniteSet(u \union s)
  BY FS_Subset, FS_CardinalityType, NatOfIsNumber, FS_Union
<1>2. NatOf(u) \in Int
  BY NatOfIsNumber
<1>3. ASSUME NEW n \in T PROVE n # 0 /\ n - 1 \in T
  <2>1. PICK t \in SUBSET v : Cardinality(t) = n /\ ~Holds(t)
    OBVIOUS
  <2>2. t # {}
    <3>1. u \union {} = u /\ NatOf(u) + 0 = NatOf(u)
      BY <1>2
    <3> QED
      BY <2>1, <3>1, NatOfEmpty
  <2>3. PICK x \in t : TRUE
    BY <2>2
  <2> DEFINE r == t \ {x}
             ur == u \union r
  <2>4. /\ r \in SUBSET v /\ t = r \union {x} /\ x \notin r /\ u \union t = ur \union {x}
        /\ x \notin ur /\ ur \in SUBSET Nat /\ x \in Nat
    OBVIOUS
  <2>5. Cardinality(r) = n - 1 /\ Cardinality(r) \in Nat
    <3>1. IsFiniteSet(t)
      BY <1>1
    <3>2. Cardinality(r) \in Nat
      BY <1>1, <2>4
    <3> HIDE DEF r
    <3> QED
      BY <2>1, <3>1, <3>2, FS_RemoveElement DEF r
  <2>6. NatOf(t) = NatOf(r) + 2^x
    <3>1. IsFiniteSet(r) /\ r \in SUBSET Nat
      BY <1>1, <2>4
    <3> HIDE DEF r
    <3> QED
      BY <2>4, <3>1, NatOfAdd
  <2>7. NatOf(u \union t) = NatOf(ur) + 2^x
    <3>1. IsFiniteSet(ur)
      BY <1>1, <2>4
    <3> HIDE DEF ur
    <3> QED
      BY <2>4, <3>1, NatOfAdd
  <2>8. ~Holds(r)
    <3> SUFFICES ASSUME NatOf(ur) = NatOf(u) + NatOf(r) PROVE FALSE
      OBVIOUS
    <3>1. NatOf(r) \in Int /\ 2^x \in Int
      BY <1>1, <2>4
    <3> HIDE DEF ur, r
    <3>2. NatOf(u \union t) = NatOf(u) + NatOf(t)
      BY <1>2, <2>6, <2>7, <3>1
    <3> QED
      BY <2>1, <3>2
  <2> HIDE DEF r, Holds
  <2>9. n - 1 \in T
    BY <2>4, <2>5, <2>8
  <2>10. n # 0
    BY <2>5
  <2> QED
    BY <2>9, <2>10
<1>4. T = {}
  <2>1. T \in SUBSET Nat
    OBVIOUS
  <2> HIDE DEF T
  <2> QED
    BY <1>3, <2>1, NoneFails
<1> QED
  BY <1>1, <1>4

\* A value and the rest of its width make the greatest number.
LEMMA AllOnes ==
    ASSUME NEW w \in Nat
    PROVE  NatOf(Positions(w)) = 2^w - 1
<1> DEFINE T == {k \in Nat : NatOf(Positions(k)) # 2^k - 1}
<1>1. 0 \notin T
  <2>1. Positions(0) = {}
    BY DEF Positions
  <2>2. 2^0 = 1
    OBVIOUS
  <2> QED
    BY <2>1, <2>2, NatOfEmpty
<1>2. ASSUME NEW j \in T PROVE j # 0 /\ j - 1 \in T
  <2> DEFINE k == j - 1
  <2>1. j \in Nat /\ NatOf(Positions(j)) # 2^j - 1
    OBVIOUS
  <2>2. j # 0
    BY <1>1
  <2>3. k \in Nat /\ k + 1 = j
    BY <2>1, <2>2
  <2> HIDE DEF k, T
  <2>4. 2^k \in Nat \ {0} /\ 2^j = 2 * 2^k
    BY <2>3, PowerStep
  <2>5. Positions(j) = Positions(k) \union {k} /\ k \notin Positions(k)
    BY <2>1, <2>3 DEF Positions
  <2>6. Positions(k) \in SUBSET Nat /\ IsFiniteSet(Positions(k)) /\ NatOf(Positions(k)) \in Int
    BY <2>3, ValueIsFinite
  <2>7. NatOf(Positions(j)) = NatOf(Positions(k)) + 2^k
    BY <2>3, <2>5, <2>6, NatOfAdd
  <2>8. NatOf(Positions(k)) # 2^k - 1
    BY <2>1, <2>4, <2>6, <2>7
  <2> QED
    BY <2>2, <2>3, <2>8 DEF k, T
<1>3. T = {}
  <2>1. T \in SUBSET Nat
    OBVIOUS
  <2> HIDE DEF T
  <2> QED
    BY <1>2, <2>1, NoneFails
<1> QED
  BY <1>3

\* Complementing every bit subtracts from the largest number.
LEMMA NatOfNot ==
    ASSUME NEW w \in Nat, NEW v \in SUBSET Positions(w)
    PROVE  NatOf(Not(w, v)) = 2^w - 1 - NatOf(v)
<1>1. Not(w, v) \in SUBSET Positions(w) /\ Not(w, v) \union v = Positions(w)
      /\ Not(w, v) \intersect v = {}
  BY DEF Not
<1> HIDE DEF Not
<1>2. /\ v \in SUBSET Nat /\ IsFiniteSet(v) /\ NatOf(v) \in Int
      /\ Not(w, v) \in SUBSET Nat /\ IsFiniteSet(Not(w, v)) /\ NatOf(Not(w, v)) \in Int
  BY <1>1, ValueIsFinite
<1>3. NatOf(Not(w, v) \union v) = NatOf(Not(w, v)) + NatOf(v)
  BY <1>1, <1>2, NatOfDisjoint
<1>4. NatOf(Positions(w)) = 2^w - 1 /\ 2^w \in Int
  BY AllOnes, PowerStep
<1>5. NatOf(Not(w, v)) + NatOf(v) = 2^w - 1
  BY <1>1, <1>3, <1>4
<1> DEFINE a == NatOf(Not(w, v))
           b == NatOf(v)
           P == 2^w
<1>6. a + b = P - 1 /\ a \in Int /\ b \in Int /\ P \in Int
  BY <1>2, <1>4, <1>5
<1> HIDE DEF a, b, P
<1>7. a = P - 1 - b
  BY <1>6
<1> QED
  BY <1>7 DEF a, b, P

\* The sign is the top bit, and a signed number is in the upper or the lower half.
LEMMA SignedIs ==
    ASSUME NEW w \in Nat \ {0}, NEW v \in SUBSET Positions(w)
    PROVE  /\ 2^(w - 1) \in Nat \ {0} /\ 2^w = 2 * 2^(w - 1)
           /\ NatOf(v) \in 0 .. 2 * 2^(w - 1) - 1
           /\ w - 1 \in v <=> NatOf(v) >= 2^(w - 1)
           /\ SignedOf(w, v) = IF NatOf(v) >= 2^(w - 1) THEN NatOf(v) - 2 * 2^(w - 1)
                               ELSE NatOf(v)
           /\ SignedOf(w, v) < 0 <=> w - 1 \in v
<1> DEFINE k == w - 1
           H == 2^k
           n == NatOf(v)
<1>1. k \in Nat /\ k + 1 = w
  OBVIOUS
<1> HIDE DEF k
<1>2. H \in Nat \ {0} /\ 2^w = 2 * H
  BY <1>1, PowerStep
<1>3. n \in 0 .. 2 * H - 1
  BY <1>2, NatOfBound
<1>4. k \in v <=> n >= H
  BY <1>1, TopBitIsHalf
<1>5. SignedOf(w, v) = n - (IF k \in v THEN 2^w ELSE 0)
  BY DEF SignedOf, k
<1> HIDE DEF H, n
<1>6. SignedOf(w, v) = IF n >= H THEN n - 2 * H ELSE n
  BY <1>2, <1>3, <1>4, <1>5
<1>7. SignedOf(w, v) < 0 <=> k \in v
  BY <1>2, <1>3, <1>4, <1>6
<1> QED
  BY <1>2, <1>3, <1>4, <1>6, <1>7 DEF H, n, k
=============================================================================
