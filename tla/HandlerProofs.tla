--------------------------- MODULE HandlerProofs ----------------------------
(***************************************************************************)
(* That the handlers of arithmetic, logic, products, divisions, bit scans  *)
(* and bit fields compute the processor's results and flags, for every size*)
(* of a byte, every width and every operand: their flags are computed from *)
(* carries, masks and multiplications where the manual has comparisons of  *)
(* numbers.                                                                *)
(*                                                                         *)
(* Then the same for shifts and rotations: the handlers shift by the whole *)
(* count and treat counts of 0, of 1 and past the width apart, the loops of*)
(* the manual go one place at a time.                                      *)
(***************************************************************************)
EXTENDS DataInstructions, ValueProofs

-----------------------------------------------------------------------------
(* Parity *)

\* A power of the base of the digits is one more than a multiple of their greatest.
LEMMA PowersLeaveOne ==
    ASSUME NEW d \in Nat \ {0}, NEW i \in Nat
    PROVE  \E t \in Int : 2^(d * i) = t * (2^d - 1) + 1
<1> DEFINE One(k) == \E t \in Int : 2^(d * k) = t * (2^d - 1) + 1
           T == {k \in Nat : ~One(k)}
           M == 2^d - 1
<1>0. M \in Int /\ 2^d = M + 1
  BY PowerStep
<1>1. 0 \notin T
  <2>1. d * 0 = 0 /\ 2^0 = 1
    OBVIOUS
  <2>2. 0 * M + 1 = 1 /\ 0 \in Int
    BY <1>0
  <2> QED
    BY <2>1, <2>2
<1>2. ASSUME NEW j \in T PROVE j # 0 /\ j - 1 \in T
  <2> DEFINE k == j - 1
             e == d * k
  <2>1. j \in Nat /\ ~One(j)
    OBVIOUS
  <2>2. j # 0
    BY <1>1
  <2>3. k \in Nat /\ e \in Nat /\ d * j = e + d /\ j - 1 = k
    BY <2>1, <2>2
  <2> HIDE DEF k, T, e
  <2>4. 2^(d * j) = 2^e * (M + 1)
    BY <1>0, <2>3, PowerSum
  <2>5. ~One(k)
    <3> SUFFICES ASSUME One(k) PROVE FALSE
      OBVIOUS
    <3>1. PICK t \in Int : 2^e = t * M + 1
      BY DEF e
    <3> DEFINE u == t * (M + 1) + 1
    <3> HIDE DEF M
    <3>2. (t * M + 1) * (M + 1) = u * M + 1 /\ u \in Int
      BY <1>0
    <3>3. 2^(d * j) = u * M + 1
      BY <2>4, <3>1, <3>2
    <3> QED
      BY <2>1, <3>2, <3>3 DEF M
  <2> QED
    BY <2>2, <2>3, <2>5 DEF T
<1>3. T = {}
  <2>1. T \in SUBSET Nat
    OBVIOUS
  <2> HIDE DEF T
  <2> QED
    BY <1>2, <2>1, NoneFails
<1> QED
  BY <1>3

\* The bits of a value, a digit apart.
Spread(d, s) == {d * i : i \in s}

\* Spread over places d apart, the bits of a value leave their count modulo 2^d - 1:
\* the multiplication in computeParityFlag counts bits this way.
LEMMA SpreadCounts ==
    ASSUME NEW d \in Nat \ {0}, NEW v \in SUBSET Nat, IsFiniteSet(v)
    PROVE  \E t \in Int : NatOf(Spread(d, v)) = t * (2^d - 1) + Cardinality(v)
<1> DEFINE M == 2^d - 1
           Holds(s) == \E t \in Int : NatOf(Spread(d, s)) = t * M + Cardinality(s)
           T == {n \in Nat : \E s \in SUBSET v : Cardinality(s) = n /\ ~Holds(s)}
<1>0. M \in Int
  BY PowerStep
<1>1. \A s \in SUBSET v : IsFiniteSet(s) /\ Cardinality(s) \in Nat
  BY FS_Subset, FS_CardinalityType
<1>2. ASSUME NEW n \in T PROVE n # 0 /\ n - 1 \in T
  <2>1. PICK s \in SUBSET v : Cardinality(s) = n /\ ~Holds(s)
    OBVIOUS
  <2>2. s # {}
    <3> SUFFICES ASSUME s = {} PROVE FALSE
      OBVIOUS
    <3>1. Spread(d, s) = {}
      BY DEF Spread
    <3>2. NatOf(Spread(d, s)) = 0 /\ Cardinality(s) = 0
      BY <3>1, NatOfEmpty, FS_EmptySet
    <3> HIDE DEF M
    <3>3. 0 \in Int /\ 0 * M + 0 = 0
      BY <1>0
    <3> QED
      BY <2>1, <3>2, <3>3
  <2>3. PICK x \in s : TRUE
    BY <2>2
  <2> DEFINE r == s \ {x}
             y == d * x
             sp == Spread(d, r)
  <2>4. r \in SUBSET v /\ s = r \union {x} /\ x \notin r /\ x \in Nat
    OBVIOUS
  <2>5. Cardinality(s) = Cardinality(r) + 1 /\ Cardinality(r) \in Nat /\ IsFiniteSet(r)
    <3>1. IsFiniteSet(r) /\ Cardinality(r) \in Nat
      BY <1>1, <2>4
    <3> HIDE DEF r
    <3> QED
      BY <2>4, <3>1, FS_AddElement
  <2>6. /\ Spread(d, s) = sp \union {y} /\ y \notin sp /\ y \in Nat
        /\ sp \in SUBSET Nat /\ IsFiniteSet(sp)
    <3>1. Spread(d, s) = sp \union {y}
      BY <2>4 DEF Spread
    <3>2. y \notin sp
      <4>1. ASSUME NEW i \in r PROVE d * i # y
        <5>1. i \in Nat /\ i # x
          BY <2>4
        <5> HIDE DEF r
        <5>2. d * (i - x) # 0
          BY <2>4, <5>1
        <5>3. d * (i - x) = d * i - d * x /\ d * i \in Int /\ d * x \in Int
          BY <2>4, <5>1
        <5> QED
          BY <5>2, <5>3
      <4> QED
        BY <4>1 DEF Spread
    <3>3. y \in Nat /\ \A i \in Nat : d * i \in Nat
      BY <2>4
    <3>4. r \in SUBSET Nat
      BY <2>4
    <3>5. sp \in SUBSET Nat
      <4> HIDE DEF r
      <4> QED
        BY <3>3, <3>4 DEF Spread
    <3>6. IsFiniteSet(sp)
      <4> DEFINE f == [i \in r |-> d * i]
      <4> HIDE DEF r
      <4>1. f \in Surjection(r, sp)
        BY DEF Surjection, Spread
      <4> HIDE DEF f, sp
      <4> QED
        BY <2>5, <4>1, FS_Surjection
    <3> QED
      BY <3>1, <3>2, <3>3, <3>5, <3>6
  <2> HIDE DEF sp, y, r
  <2>7. NatOf(Spread(d, s)) = NatOf(sp) + 2^y
    BY <2>6, NatOfAdd
  <2>8. PICK t \in Int : 2^y = t * M + 1
    BY <2>4, PowersLeaveOne DEF y
  <2>9. ~Holds(r)
    <3> SUFFICES ASSUME Holds(r) PROVE FALSE
      OBVIOUS
    <3>1. PICK p \in Int : NatOf(sp) = p * M + Cardinality(r)
      BY DEF sp
    <3> DEFINE q == p + t
               c == Cardinality(r)
    <3> HIDE DEF M
    <3>2. q \in Int /\ (p * M + c) + (t * M + 1) = q * M + (c + 1)
      BY <1>0, <2>5
    <3>3. NatOf(Spread(d, s)) = q * M + Cardinality(s)
      BY <2>5, <2>7, <2>8, <3>1, <3>2
    <3> HIDE DEF q
    <3> QED
      BY <2>1, <3>2, <3>3
  <2> HIDE DEF Holds
  <2>10. n - 1 = Cardinality(r) /\ n # 0
    BY <2>1, <2>5
  <2> QED
    BY <2>4, <2>5, <2>9, <2>10
<1>3. T = {}
  <2>1. T \in SUBSET Nat
    OBVIOUS
  <2> HIDE DEF T
  <2> QED
    BY <1>2, <2>1, NoneFails
<1> QED
  BY <1>1, <1>3

\* What computeParityFlag has after the multiplication, and its mask.
Copies(s)  == {i + ByteBits * k : i \in s, k \in Positions(ByteBits)}
ParityMask == {(ByteBits + 1) * k : k \in Positions(ByteBits)}

\* Of the copies of the low byte the mask keeps one bit of each, a different one.
LEMMA KeptBits ==
    ASSUME NEW s \in SUBSET Positions(ByteBits)
    PROVE  Copies(s) \intersect ParityMask = Spread(ByteBits + 1, s)
<1> DEFINE B == ByteBits
           copies == {i + B * k : i \in s, k \in Positions(B)}
           mask == {(B + 1) * k : k \in Positions(B)}
<1>0. B \in Nat \ {0} /\ \A i \in Positions(B) : i \in 0 .. B - 1 /\ i \in Int
  BY ByteAssumption DEF Positions
<1> HIDE DEF B
<1>1. ASSUME NEW i \in s, NEW k \in Positions(B), NEW j \in Positions(B),
             i + B * k = (B + 1) * j
      PROVE  i = j
  <2>0. i \in 0 .. B - 1 /\ k \in 0 .. B - 1 /\ j \in 0 .. B - 1
    BY <1>0 DEF B
  <2>1. i + B * k = B * j + j /\ B * k \in Int /\ B * j \in Int
    BY <1>0, <1>1, <2>0
  <2>2. (k - j) * B = B * k - B * j
    BY <1>0, <2>0
  <2> DEFINE q == k - j
  <2>3. q * B = j - i /\ q \in Int /\ q * B < B /\ q * B > -B
    BY <1>0, <2>0, <2>1, <2>2
  <2>4. q = 0
    <3> HIDE DEF q
    <3> QED
      BY <1>0, <2>3, NoMultiple
  <2> QED
    BY <1>0, <2>0, <2>3, <2>4
<1>2. ASSUME NEW i \in s PROVE (B + 1) * i \in copies \intersect mask
  <2>1. i \in Positions(B) /\ (B + 1) * i = i + B * i
    BY <1>0 DEF B
  <2> QED
    BY <2>1
<1>3. ASSUME NEW x \in copies \intersect mask PROVE x \in Spread(B + 1, s)
  <2>1. PICK i \in s, k \in Positions(B) : x = i + B * k
    OBVIOUS
  <2>2. PICK j \in Positions(B) : x = (B + 1) * j
    OBVIOUS
  <2>3. i = j
    BY <1>1, <2>1, <2>2
  <2> QED
    BY <2>2, <2>3 DEF Spread
<1>4. copies \intersect mask = Spread(B + 1, s)
  <2> HIDE DEF copies, mask
  <2> QED
    BY <1>2, <1>3 DEF Spread
<1> QED
  BY <1>4 DEF B, Copies, ParityMask

\* The product and the remainder by which lift_* finds the parity of a byte give it,
\* for bytes of any size: the number of the bits that were kept and spread leaves
\* their count.
THEOREM ParityAgrees ==
    ASSUME NEW w \in Nat, NEW v \in SUBSET Positions(w)
    PROVE  computeParityFlag(v) = EvenParity(v)
<1> DEFINE lsb == Trunc(ByteBits, v)
           d == ByteBits + 1
           M == 2^d - 1
           c == Cardinality(lsb)
<1>1. lsb \in SUBSET Positions(ByteBits) /\ ByteBits \in Nat /\ d \in Nat \ {0}
  BY ByteAssumption DEF Trunc
<1>2. lsb = {i \in v : i < ByteBits}
  <2>1. v \in SUBSET Nat
    BY ValueIsFinite
  <2>2. ByteBits \in Nat /\ lsb = v \intersect (0 .. ByteBits - 1)
    BY ByteAssumption DEF Trunc, Positions
  <2>3. \A i \in v : i \in 0 .. ByteBits - 1 <=> i < ByteBits
    BY <2>1, <2>2
  <2> HIDE DEF lsb
  <2> QED
    BY <2>2, <2>3
<1>3. lsb \in SUBSET Nat /\ IsFiniteSet(lsb) /\ c \in Nat
  BY <1>1, ValueIsFinite, FS_CardinalityType
<1>4. computeParityFlag(v) = ((NatOf(Spread(d, lsb)) % M) % 2 = 0)
  <2> HIDE DEF lsb
  <2>1. computeParityFlag(v) = ((NatOf(Copies(lsb) \intersect ParityMask) % M) % 2 = 0)
    BY DEF computeParityFlag, lsb, Copies, ParityMask
  <2>2. Copies(lsb) \intersect ParityMask = Spread(d, lsb)
    BY <1>1, KeptBits
  <2> QED
    BY <2>1, <2>2
<1>5. EvenParity(v) = (c % 2 = 0)
  BY <1>2 DEF EvenParity
<1> HIDE DEF lsb
<1>6. c \in 0 .. M - 1
  <2>1. Cardinality(Positions(ByteBits)) = ByteBits /\ IsFiniteSet(Positions(ByteBits))
    BY <1>1, FS_Interval DEF Positions
  <2>2. c <= ByteBits
    BY <1>1, <2>1, FS_Subset
  <2>3. 2^d = 2 * 2^ByteBits /\ 2^ByteBits \in Nat /\ ByteBits < 2^ByteBits
    BY <1>1, PowerStep, BelowPower
  <2>4. ByteBits >= 2
    BY ByteAssumption
  <2> QED
    BY <1>1, <1>3, <2>2, <2>3, <2>4
<1>7. PICK t \in Int : NatOf(Spread(d, lsb)) = t * M + c
  BY <1>1, <1>3, SpreadCounts
<1>8. M \in Nat \ {0}
  BY <1>1, <1>3, <1>6, PowerStep
<1> HIDE DEF M, c
<1>9. NatOf(Spread(d, lsb)) % M = c
  BY <1>6, <1>7, <1>8, Division
<1> QED
  BY <1>4, <1>5, <1>9

-----------------------------------------------------------------------------
(* Sums, differences and their flags *)

\* A larger exponent has a power at least as large.
LEMMA PowerOrder ==
    ASSUME NEW m \in Nat, NEW n \in Nat, m <= n
    PROVE  2^m <= 2^n
<1> DEFINE k == n - m
           a == 2^m
           b == 2^k
<1>1. k \in Nat /\ m + k = n
  OBVIOUS
<1> HIDE DEF k
<1>2. 2^n = a * b
  BY <1>1, PowerSum
<1>3. a \in Nat \ {0} /\ b \in Nat \ {0}
  BY <1>1, PowerStep
<1> HIDE DEF a, b
<1>4. a * (b - 1) >= 0 /\ a * (b - 1) = a * b - a /\ a * b \in Int
  BY <1>3
<1> QED
  BY <1>2, <1>3, <1>4 DEF a

\* computeSignFlag, computeZeroFlag and computeParityFlag set the flags of a result
\* as the processor does.
LEMMA ResultFlagsAgree ==
    ASSUME NEW w \in Nat \ {0}, NEW v \in SUBSET Positions(w), NEW f
    PROVE  SignZeroParity(w, v, f) = ByResult(w, v, f)
<1>1. computeSignFlag(w, v) = (SignedOf(w, v) < 0)
  BY SignedIs DEF computeSignFlag
<1>2. computeZeroFlag(v) = (NatOf(v) = 0)
  BY ZeroNumber DEF computeZeroFlag
<1>3. computeParityFlag(v) = EvenParity(v)
  BY ParityAgrees
<1> QED
  BY <1>1, <1>2, <1>3 DEF SignZeroParity, ByResult

\* The carry and the overflow of a sum and of a difference, with a carry in.
LEMMA SumIs ==
    ASSUME NEW w \in Nat \ {0}, NEW L \in SUBSET Positions(w), NEW R \in SUBSET Positions(w),
           NEW c \in {0, 1}
    PROVE  LET n == NatOf(L) + NatOf(R) + c
               s == BitsOf(w, n)
           IN /\ s \in SUBSET Positions(w)
              /\ NatOf(s) = IF n >= 2^w THEN n - 2^w ELSE n
              /\ computeOverflowFlagAdd(w, L, R, s)
                    = ~InRange(w, SignedOf(w, L) + SignedOf(w, R) + c)
<1> DEFINE H == 2^(w - 1)
           a == NatOf(L)
           b == NatOf(R)
           n == a + b + c
           s == BitsOf(w, n)
           d == NatOf(s)
           k == w - 1
<1>1. /\ H \in Nat \ {0} /\ 2^w = 2 * H
      /\ a \in 0 .. 2 * H - 1
      /\ k \in L <=> a >= H
      /\ SignedOf(w, L) = IF a >= H THEN a - 2 * H ELSE a
  BY SignedIs
<1>2. /\ b \in 0 .. 2 * H - 1
      /\ k \in R <=> b >= H
      /\ SignedOf(w, R) = IF b >= H THEN b - 2 * H ELSE b
  BY SignedIs
<1>3. n \in Int /\ -(2^w) <= n /\ n < 2 * 2^w
  BY <1>1, <1>2
<1> HIDE DEF a, b, n, H
<1>4. s \in SUBSET Positions(w) /\ d = IF n >= 2^w THEN n - 2^w ELSE n
  <2>1. s \in SUBSET Positions(w)
    BY <1>3, BitsOfIsValue
  <2>2. d = IF n < 0 THEN n + 2^w ELSE IF n >= 2^w THEN n - 2^w ELSE n
    BY <1>3, OneTurn
  <2>3. n >= 0
    BY <1>1, <1>2 DEF n
  <2> QED
    BY <1>3, <2>1, <2>2, <2>3
<1>5. k \in s <=> d >= H
  <2> HIDE DEF s
  <2> QED
    BY <1>4, SignedIs DEF H
<1> HIDE DEF s, d
<1>6. (k \in L) = (k \in R) /\ (k \in L) # (k \in s)
            <=> ~InRange(w, SignedOf(w, L) + SignedOf(w, R) + c)
  BY <1>1, <1>2, <1>4, <1>5 DEF InRange, n, H
<1>7. computeOverflowFlagAdd(w, L, R, s)
            <=> (k \in L) = (k \in R) /\ (k \in L) # (k \in s)
  BY DEF computeOverflowFlagAdd, Xor
<1>8. computeOverflowFlagAdd(w, L, R, s) = ~InRange(w, SignedOf(w, L) + SignedOf(w, R) + c)
  BY <1>6, <1>7 DEF computeOverflowFlagAdd, InRange
<1> QED
  BY <1>4, <1>8 DEF s, n, a, b, d

\* A difference that wraps once, and computeOverflowFlagSub, which says when the
\* signed difference leaves the range.
LEMMA DifferenceIs ==
    ASSUME NEW w \in Nat \ {0}, NEW L \in SUBSET Positions(w), NEW R \in SUBSET Positions(w),
           NEW c \in {0, 1}
    PROVE  LET n == NatOf(L) - NatOf(R) - c
               s == BitsOf(w, n)
           IN /\ s \in SUBSET Positions(w)
              /\ NatOf(s) = IF n < 0 THEN n + 2^w ELSE n
              /\ computeOverflowFlagSub(w, L, R, s)
                    = ~InRange(w, SignedOf(w, L) - SignedOf(w, R) - c)
<1> DEFINE H == 2^(w - 1)
           a == NatOf(L)
           b == NatOf(R)
           n == a - b - c
           s == BitsOf(w, n)
           d == NatOf(s)
           k == w - 1
<1>1. /\ H \in Nat \ {0} /\ 2^w = 2 * H
      /\ a \in 0 .. 2 * H - 1
      /\ k \in L <=> a >= H
      /\ SignedOf(w, L) = IF a >= H THEN a - 2 * H ELSE a
  BY SignedIs
<1>2. /\ b \in 0 .. 2 * H - 1
      /\ k \in R <=> b >= H
      /\ SignedOf(w, R) = IF b >= H THEN b - 2 * H ELSE b
  BY SignedIs
<1>3. n \in Int /\ -(2^w) <= n /\ n < 2 * 2^w /\ n < 2^w
  BY <1>1, <1>2
<1> HIDE DEF a, b, n, H
<1>4. s \in SUBSET Positions(w) /\ d = IF n < 0 THEN n + 2^w ELSE n
  <2>1. s \in SUBSET Positions(w)
    BY <1>3, BitsOfIsValue
  <2>2. d = IF n < 0 THEN n + 2^w ELSE IF n >= 2^w THEN n - 2^w ELSE n
    BY <1>3, OneTurn
  <2> QED
    BY <1>1, <1>3, <2>1, <2>2
<1>5. k \in s <=> d >= H
  <2> HIDE DEF s
  <2> QED
    BY <1>4, SignedIs DEF H
<1> HIDE DEF s, d
<1>6. (k \in L) # (k \in R) /\ (k \in L) # (k \in s)
            <=> ~InRange(w, SignedOf(w, L) - SignedOf(w, R) - c)
  BY <1>1, <1>2, <1>4, <1>5 DEF InRange, n, H
<1>7. computeOverflowFlagSub(w, L, R, s)
            <=> (k \in L) # (k \in R) /\ (k \in L) # (k \in s)
  BY DEF computeOverflowFlagSub, Xor
<1>8. computeOverflowFlagSub(w, L, R, s) = ~InRange(w, SignedOf(w, L) - SignedOf(w, R) - c)
  BY <1>6, <1>7 DEF computeOverflowFlagSub, InRange
<1> QED
  BY <1>4, <1>8 DEF s, n, a, b, d

\* The low half of a byte as a number.
LEMMA NibbleIs ==
    ASSUME NEW w \in Nat, w >= ByteBits, NEW v \in SUBSET Positions(w)
    PROVE  /\ LowNibble(v) \in SUBSET Positions(ByteBits \div 2)
           /\ LowNibble(v) \in SUBSET Positions(w)
           /\ NatOf(LowNibble(v)) = Nibble(v)
           /\ Nibble(v) \in 0 .. 2^(ByteBits \div 2) - 1
<1> DEFINE h == ByteBits \div 2
<1>1. h \in Nat /\ h <= w
  BY ByteAssumption
<1> HIDE DEF h
<1>2. Trunc(h, v) \in SUBSET Positions(h) /\ NatOf(Trunc(h, v)) = NatOf(v) % 2^h
  BY <1>1, LowPart
<1>3. NatOf(Trunc(h, v)) \in 0 .. 2^h - 1
  BY <1>1, <1>2, NatOfBound
<1>4. Trunc(h, v) \in SUBSET Positions(w)
  BY DEF Trunc
<1> QED
  BY <1>2, <1>3, <1>4 DEF h, LowNibble, Nibble

\* Half a byte holds fewer numbers than any operand.
LEMMA NibblePower ==
    ASSUME NEW w \in Nat, w >= ByteBits
    PROVE  /\ ByteBits \div 2 \in Nat \ {0} /\ (ByteBits \div 2) + 1 <= w
           /\ 2^(ByteBits \div 2) \in Nat \ {0, 1}
           /\ 2^((ByteBits \div 2) + 1) = 2 * 2^(ByteBits \div 2)
           /\ 2 * 2^(ByteBits \div 2) <= 2^w
<1> DEFINE h == ByteBits \div 2
           j == h + 1
<1>1. h \in Nat \ {0} /\ j <= w /\ j \in Nat
  BY ByteAssumption
<1> HIDE DEF h
<1>2. 2^j = 2 * 2^h /\ 2^h \in Nat /\ 2^h > h
  BY <1>1, PowerStep, BelowPower
<1>3. 2^j <= 2^w
  BY <1>1, PowerOrder
<1> QED
  BY <1>1, <1>2, <1>3 DEF h

\* lift_add sets AF when the low nibbles carry.
LEMMA AddAuxiliary ==
    ASSUME NEW w \in Nat, w >= ByteBits, NEW L \in SUBSET Positions(w),
           NEW R \in SUBSET Positions(w)
    PROVE  ULT(NibbleMask, Add(w, LowNibble(L), LowNibble(R)))
               = (Nibble(L) + Nibble(R) >= 2^(ByteBits \div 2))
<1> DEFINE h == ByteBits \div 2
           H == 2^h
           n == Nibble(L) + Nibble(R)
<1>1. h \in Nat /\ H \in Nat \ {0, 1} /\ 2 * H <= 2^w
  BY NibblePower
<1>2. /\ NatOf(LowNibble(L)) = Nibble(L) /\ Nibble(L) \in 0 .. H - 1
      /\ NatOf(LowNibble(R)) = Nibble(R) /\ Nibble(R) \in 0 .. H - 1
  BY NibbleIs
<1>3. NatOf(NibbleMask) = H - 1
  BY <1>1, AllOnes DEF NibbleMask
<1>4. Add(w, LowNibble(L), LowNibble(R)) = BitsOf(w, n)
  BY <1>2 DEF Add
<1>5. NatOf(BitsOf(w, n)) = n
  <2>1. 2^w \in Nat
    BY PowerStep
  <2>2. n \in Int /\ -(2^w) <= n /\ n < 2 * 2^w /\ n >= 0 /\ n < 2^w
    BY <1>1, <1>2, <2>1
  <2> HIDE DEF n
  <2>3. NatOf(BitsOf(w, n)) = IF n < 0 THEN n + 2^w ELSE IF n >= 2^w THEN n - 2^w ELSE n
    BY <2>2, OneTurn
  <2> QED
    BY <2>1, <2>2, <2>3
<1>6. n \in Int
  BY <1>1, <1>2
<1> HIDE DEF n, H
<1>7. ULT(NibbleMask, Add(w, LowNibble(L), LowNibble(R))) = (H - 1 < n)
  BY <1>3, <1>4, <1>5 DEF ULT
<1> QED
  BY <1>1, <1>6, <1>7 DEF n, H

\* lift_sub sets AF when the low nibbles borrow.
LEMMA SubAuxiliary ==
    ASSUME NEW w \in Nat, w >= ByteBits, NEW L \in SUBSET Positions(w),
           NEW R \in SUBSET Positions(w)
    PROVE  ULT(LowNibble(L), LowNibble(R)) = (Nibble(L) < Nibble(R) + 0)
<1>1. /\ NatOf(LowNibble(L)) = Nibble(L) /\ Nibble(L) \in Int
      /\ NatOf(LowNibble(R)) = Nibble(R) /\ Nibble(R) \in Int
  BY NibbleIs
<1> QED
  BY <1>1 DEF ULT

\* Setting three flags in one order or another.
LEMMA FlagOrder ==
    ASSUME NEW f \in FlagSets, NEW a \in BOOLEAN, NEW c \in BOOLEAN, NEW o \in BOOLEAN
    PROVE  [f EXCEPT !.AF = a, !.CF = c, !.OF = o] = [f EXCEPT !.CF = c, !.OF = o, !.AF = a]
  BY DEF FlagSets, FlagNames

\* Setting three flags keeps a set of flags.
LEMMA ResultFlagsType ==
    ASSUME NEW f \in FlagSets, NEW s \in BOOLEAN, NEW z \in BOOLEAN, NEW p \in BOOLEAN
    PROVE  [f EXCEPT !.SF = s, !.ZF = z, !.PF = p] \in FlagSets
  BY DEF FlagSets, FlagNames

\* The flags by result, the lifter's and the processor's, are flags.
LEMMA SignZeroParityType ==
    ASSUME NEW w, NEW v, NEW f \in FlagSets
    PROVE  SignZeroParity(w, v, f) \in FlagSets /\ ByResult(w, v, f) \in FlagSets
<1>1. /\ computeSignFlag(w, v) \in BOOLEAN /\ computeZeroFlag(v) \in BOOLEAN
      /\ computeParityFlag(v) \in BOOLEAN
  BY DEF computeSignFlag, computeZeroFlag, computeParityFlag
<1>2. (SignedOf(w, v) < 0) \in BOOLEAN /\ (NatOf(v) = 0) \in BOOLEAN /\ EvenParity(v) \in BOOLEAN
  BY DEF EvenParity
<1>3. SignZeroParity(w, v, f) \in FlagSets
  BY <1>1, ResultFlagsType DEF SignZeroParity
<1>4. ByResult(w, v, f) \in FlagSets
  BY <1>2, ResultFlagsType DEF ByResult
<1> QED
  BY <1>3, <1>4

\* An addition and a subtraction of two values, with the carry and the borrow found by
\* comparing the result with the operands.
LEMMA AddIsRight ==
    ASSUME NEW w \in Nat, w >= ByteBits, NEW L \in SUBSET Positions(w),
           NEW R \in SUBSET Positions(w), NEW f \in FlagSets
    PROVE  lift_add(w, L, R, f) = CpuAdd(w, L, R, 0, f)
<1> DEFINE n == NatOf(L) + NatOf(R) + 0
           s == BitsOf(w, n)
           r == ByResult(w, s, f)
           af == Nibble(L) + Nibble(R) + 0 >= 2^(ByteBits \div 2)
           cf == n >= 2^w
           of == ~InRange(w, SignedOf(w, L) + SignedOf(w, R) + 0)
<1>0. w \in Nat \ {0} /\ 0 \in {0, 1}
  BY ByteAssumption
<1>1. /\ s \in SUBSET Positions(w)
      /\ NatOf(s) = IF n >= 2^w THEN n - 2^w ELSE n
      /\ computeOverflowFlagAdd(w, L, R, s) = of
  BY <1>0, SumIs
<1>2. NatOf(L) \in 0 .. 2^w - 1 /\ NatOf(R) \in 0 .. 2^w - 1 /\ 2^w \in Nat
  BY NatOfBound, PowerStep
<1>3. Add(w, L, R) = s
  BY <1>2 DEF Add
<1>4. (ULT(s, L) \/ ULT(s, R)) = cf
  BY <1>1, <1>2 DEF ULT
<1>5. ULT(NibbleMask, Add(w, LowNibble(L), LowNibble(R))) = af
  <2>1. Nibble(L) \in Int /\ Nibble(R) \in Int
    BY NibbleIs
  <2> QED
    BY <2>1, AddAuxiliary
<1>6. SignZeroParity(w, s, f) = r /\ r \in FlagSets
  BY <1>0, <1>1, ResultFlagsAgree, SignZeroParityType
<1>7. lift_add(w, L, R, f) = Result(s, [r EXCEPT !.AF = af, !.CF = cf, !.OF = of])
  <2> HIDE DEF s, r, af, cf, of
  <2> QED
    BY <1>1, <1>3, <1>4, <1>5, <1>6 DEF lift_add
<1>8. CpuAdd(w, L, R, 0, f) = Result(s, [r EXCEPT !.CF = cf, !.OF = of, !.AF = af])
  BY DEF CpuAdd, Result
<1>9. af \in BOOLEAN /\ cf \in BOOLEAN /\ of \in BOOLEAN
  BY DEF InRange
<1> HIDE DEF s, r, af, cf, of
<1> QED
  BY <1>6, <1>7, <1>8, <1>9, FlagOrder

\* lift_sub has the processor's result and flags.
LEMMA SubIsRight ==
    ASSUME NEW w \in Nat, w >= ByteBits, NEW L \in SUBSET Positions(w),
           NEW R \in SUBSET Positions(w), NEW f \in FlagSets
    PROVE  lift_sub(w, L, R, f) = CpuSub(w, L, R, 0, f)
<1> DEFINE n == NatOf(L) - NatOf(R) - 0
           s == BitsOf(w, n)
           r == ByResult(w, s, f)
           af == Nibble(L) < Nibble(R) + 0
           cf == n < 0
           of == ~InRange(w, SignedOf(w, L) - SignedOf(w, R) - 0)
<1>0. w \in Nat \ {0} /\ 0 \in {0, 1}
  BY ByteAssumption
<1>1. /\ s \in SUBSET Positions(w)
      /\ NatOf(s) = IF n < 0 THEN n + 2^w ELSE n
      /\ computeOverflowFlagSub(w, L, R, s) = of
  BY <1>0, DifferenceIs
<1>2. NatOf(L) \in 0 .. 2^w - 1 /\ NatOf(R) \in 0 .. 2^w - 1 /\ 2^w \in Nat
  BY NatOfBound, PowerStep
<1>3. Sub(w, L, R) = s
  BY <1>2 DEF Sub
<1>4. ULT(L, R) = cf
  BY <1>2 DEF ULT
<1>5. ULT(LowNibble(L), LowNibble(R)) = af
  BY SubAuxiliary
<1>6. SignZeroParity(w, s, f) = r /\ r \in FlagSets
  BY <1>0, <1>1, ResultFlagsAgree, SignZeroParityType
<1>7. lift_sub(w, L, R, f) = Result(s, [r EXCEPT !.AF = af, !.CF = cf, !.OF = of])
  <2> HIDE DEF s, r, af, cf, of
  <2> QED
    BY <1>1, <1>3, <1>4, <1>5, <1>6 DEF lift_sub
<1>8. CpuSub(w, L, R, 0, f) = Result(s, [r EXCEPT !.CF = cf, !.OF = of, !.AF = af])
  BY DEF CpuSub, Result
<1>9. af \in BOOLEAN /\ cf \in BOOLEAN /\ of \in BOOLEAN
  BY DEF InRange
<1> HIDE DEF s, r, af, cf, of
<1> QED
  BY <1>6, <1>7, <1>8, <1>9, FlagOrder

\* lift_cmp, which repeats the flags of lift_sub in code of its own, has the same
\* flags.
LEMMA CmpIsRight ==
    ASSUME NEW w \in Nat, w >= ByteBits, NEW L \in SUBSET Positions(w),
           NEW R \in SUBSET Positions(w), NEW f \in FlagSets
    PROVE  lift_cmp(w, L, R, f) = CpuSub(w, L, R, 0, f).flags
<1> DEFINE s == Sub(w, L, R)
           r == SignZeroParity(w, s, f)
           af == ULT(LowNibble(L), LowNibble(R))
           cf == ULT(L, R)
           of == computeOverflowFlagSub(w, L, R, s)
           k == w - 1
           of2 == (k \in L /\ ~(k \in R) /\ ~(k \in s)) \/ (~(k \in L) /\ k \in R /\ k \in s)
<1>1. lift_sub(w, L, R, f).flags = [r EXCEPT !.AF = af, !.CF = cf, !.OF = of]
  BY DEF lift_sub, Result
<1>2. lift_cmp(w, L, R, f) = [r EXCEPT !.OF = of2, !.CF = cf, !.AF = af]
  BY DEF lift_cmp, computeSignFlag
<1>3. of2 = of
  BY DEF computeOverflowFlagSub, Xor
<1>4. r \in FlagSets
  BY SignZeroParityType
<1>5. af \in BOOLEAN /\ cf \in BOOLEAN /\ of2 \in BOOLEAN
  BY DEF ULT
<1> HIDE DEF r, af, cf, of, of2
<1>6. [r EXCEPT !.OF = of2, !.CF = cf, !.AF = af] = [r EXCEPT !.AF = af, !.CF = cf, !.OF = of]
  BY <1>3, <1>4, <1>5 DEF FlagSets, FlagNames
<1> QED
  BY <1>1, <1>2, <1>6, SubIsRight

\* xadd finds the overflow by the signs.
LEMMA XaddIsRight ==
    ASSUME NEW w \in Nat, w >= ByteBits, NEW L \in SUBSET Positions(w),
           NEW R \in SUBSET Positions(w), NEW f \in FlagSets
    PROVE  lift_xadd(w, L, R, f) = CpuAdd(w, L, R, 0, f)
<1> DEFINE s == Add(w, L, R)
           r == SignZeroParity(w, s, f)
           af == ULT(NibbleMask, Add(w, LowNibble(L), LowNibble(R)))
           cf == ULT(s, L) \/ ULT(s, R)
           of == computeOverflowFlagAdd(w, L, R, s)
           k == w - 1
           of2 == (k \in L) = (k \in R) /\ (k \in L) # (k \in s)
<1>1. lift_add(w, L, R, f) = Result(s, [r EXCEPT !.AF = af, !.CF = cf, !.OF = of])
  BY DEF lift_add
<1>2. lift_xadd(w, L, R, f) = Result(s, [r EXCEPT !.OF = of2, !.AF = af, !.CF = cf])
  BY DEF lift_xadd, computeSignFlag
<1>3. of2 = of
  BY DEF computeOverflowFlagAdd, Xor
<1>4. r \in FlagSets
  BY SignZeroParityType
<1>5. af \in BOOLEAN /\ cf \in BOOLEAN /\ of2 \in BOOLEAN
  BY DEF ULT
<1> HIDE DEF s, r, af, cf, of, of2
<1>6. [r EXCEPT !.OF = of2, !.AF = af, !.CF = cf] = [r EXCEPT !.AF = af, !.CF = cf, !.OF = of]
  BY <1>3, <1>4, <1>5 DEF FlagSets, FlagNames
<1> QED
  BY <1>1, <1>2, <1>6, AddIsRight

\* The value 1 is the lowest position.
LEMMA OneBit ==
    ASSUME NEW w \in Nat \ {0}
    PROVE  {0} \in SUBSET Positions(w) /\ {} \in SUBSET Positions(w) /\ NatOf({0}) = 1
<1>1. {0} \in SUBSET Positions(w)
  BY DEF Positions
<1>2. NatOf({} \union {0}) = NatOf({}) + 2^0
  <2>1. {} \in SUBSET Nat /\ 0 \in Nat /\ 0 \notin {} /\ IsFiniteSet({})
    BY FS_EmptySet
  <2> DEFINE e == {}
             z == 0
  <2>2. e \in SUBSET Nat /\ z \in Nat /\ z \notin e /\ IsFiniteSet(e)
    BY <2>1
  <2> HIDE DEF e, z
  <2>3. NatOf(e \union {z}) = NatOf(e) + 2^z
    BY <2>2, NatOfAdd
  <2> QED
    BY <2>3 DEF e, z
<1>3. {} \union {0} = {0} /\ 2^0 = 1
  OBVIOUS
<1> QED
  BY <1>1, <1>2, <1>3, NatOfEmpty

\* The bit above the low half of a byte tells, with those of the operands, whether
\* there was a carry out of that half.
BitAt(h, v) == IF h \in v THEN 2^h ELSE 0

\* The low h + 1 bits of a value are the remainder of its low h bits and the bit at
\* h.
LEMMA LowBitsOf ==
    ASSUME NEW h \in Nat, NEW w \in Nat, h + 1 <= w, NEW v \in SUBSET Positions(w)
    PROVE  /\ NatOf(Trunc(h + 1, v)) = (NatOf(v) % 2^h) + BitAt(h, v)
           /\ NatOf(v) % 2^h \in 0 .. 2^h - 1
           /\ \E q \in Int : NatOf(v) = q * 2^(h + 1) + NatOf(Trunc(h + 1, v))
<1> DEFINE j == h + 1
           t == Trunc(j, v)
<1>1. j \in Nat /\ j <= w /\ h <= w
  OBVIOUS
<1>2. /\ t \in SUBSET Positions(j)
      /\ \E q \in Int : NatOf(v) = q * 2^j + NatOf(t)
  <2> HIDE DEF j
  <2> QED
    BY <1>1, LowPart
<1>3. NatOf(t) = NatOf(Trunc(h, t)) + TopPart(h, t)
  <2> HIDE DEF t
  <2> QED
    BY <1>2, SplitTop
<1>4. Trunc(h, t) = Trunc(h, v) /\ (h \in t <=> h \in v)
  <2>1. Positions(h) \subseteq Positions(j) /\ h \in Positions(j)
    BY DEF Positions
  <2> QED
    BY <2>1 DEF Trunc
<1>5. /\ Trunc(h, v) \in SUBSET Positions(h)
      /\ NatOf(Trunc(h, v)) = NatOf(v) % 2^h
  BY <1>1, LowPart
<1>6. NatOf(Trunc(h, v)) \in 0 .. 2^h - 1
  BY <1>5, NatOfBound
<1> HIDE DEF t, j
<1>7. TopPart(h, t) = BitAt(h, v)
  BY <1>4 DEF TopPart, BitAt
<1>8. NatOf(t) = (NatOf(v) % 2^h) + BitAt(h, v)
  BY <1>3, <1>4, <1>5, <1>7
<1> QED
  BY <1>2, <1>5, <1>6, <1>8 DEF t, j

\* The low j bits of the low w bits of a number are its low j bits.
LEMMA BitsOfPart ==
    ASSUME NEW j \in Nat, NEW w \in Nat, j <= w, NEW n
    PROVE  Trunc(j, BitsOf(w, n)) = BitsOf(j, n)
<1>1. Positions(j) \subseteq Positions(w)
  BY DEF Positions
<1> QED
  BY <1>1 DEF Trunc, BitsOf

\* computeAuxFlag, which compares bit 4 of two operands and their sum, finds the
\* carry out of the low nibble, a carry in included.
LEMMA AuxiliaryOfSum ==
    ASSUME NEW w \in Nat, w >= ByteBits, NEW L \in SUBSET Positions(w),
           NEW R \in SUBSET Positions(w), NEW c \in {0, 1}
    PROVE  computeAuxFlag(L, R, BitsOf(w, NatOf(L) + NatOf(R) + c))
               = (Nibble(L) + Nibble(R) + c >= 2^(ByteBits \div 2))
<1> DEFINE h == ByteBits \div 2
           j == h + 1
           H == 2^h
           n == NatOf(L) + NatOf(R) + c
           s == BitsOf(w, n)
           a == NatOf(Trunc(j, L))
           b == NatOf(Trunc(j, R))
           m == a + b + c
           d == NatOf(Trunc(j, s))
<1>1. /\ h \in Nat \ {0} /\ j \in Nat /\ j <= w /\ H \in Nat \ {0, 1}
      /\ 2^j = 2 * H
  BY NibblePower
<1>2. /\ a = Nibble(L) + BitAt(h, L) /\ Nibble(L) \in 0 .. H - 1
      /\ \E q \in Int : NatOf(L) = q * 2^j + a
  <2> HIDE DEF h
  <2> QED
    BY <1>1, LowBitsOf DEF h, Nibble
<1>3. /\ b = Nibble(R) + BitAt(h, R) /\ Nibble(R) \in 0 .. H - 1
      /\ \E q \in Int : NatOf(R) = q * 2^j + b
  <2> HIDE DEF h
  <2> QED
    BY <1>1, LowBitsOf DEF h, Nibble
<1>4. NatOf(L) \in Int /\ NatOf(R) \in Int /\ n \in Int
  BY ValueIsFinite
<1>5. s \in SUBSET Positions(w) /\ Trunc(j, s) = BitsOf(j, n)
  <2> HIDE DEF j, n
  <2> QED
    BY <1>1, <1>4, BitsOfIsValue, BitsOfPart
<1>6. /\ d = (NatOf(s) % 2^h) + BitAt(h, s)
      /\ NatOf(s) % 2^h \in 0 .. H - 1
  <2> HIDE DEF h, s
  <2> QED
    BY <1>1, <1>5, LowBitsOf DEF h
<1>7. BitAt(h, L) \in {0, H} /\ BitAt(h, R) \in {0, H}
  BY DEF BitAt
<1> HIDE DEF a, b, s, d
<1>8. m \in Int /\ m >= 0 /\ m < 4 * H
  BY <1>1, <1>2, <1>3, <1>7
<1>9. BitsOf(j, n) = BitsOf(j, m)
  <2>1. PICK p \in Int : NatOf(L) = p * 2^j + a
    BY <1>2
  <2>2. PICK q \in Int : NatOf(R) = q * 2^j + b
    BY <1>3
  <2> DEFINE t == p + q
             P == 2^j
  <2>3. a \in Int /\ b \in Int /\ P \in Int /\ c \in Int
    BY <1>1, <1>2, <1>3, <1>7
  <2>4. t \in Int /\ n = m + t * P
    <3> HIDE DEF P
    <3>1. n = (p * P + a) + (q * P + b) + c
      BY <2>1, <2>2 DEF P
    <3> QED
      BY <2>3, <3>1
  <2> HIDE DEF t, m, n, j
  <2> QED
    BY <1>1, <1>4, <1>8, <2>4, BitsOfSame
<1>10. d = IF m >= 2 * H THEN m - 2 * H ELSE m
  <2> HIDE DEF m, n, j, H
  <2>1. -(2^j) <= m /\ m < 2 * 2^j /\ m \in Int
    BY <1>1, <1>8
  <2>2. NatOf(BitsOf(j, m)) = IF m < 0 THEN m + 2^j ELSE IF m >= 2^j THEN m - 2^j ELSE m
    BY <1>1, <2>1, OneTurn
  <2> QED
    BY <1>1, <1>5, <1>8, <1>9, <2>1, <2>2 DEF d
<1>11. h \in s <=> d >= H
  BY <1>1, <1>6 DEF BitAt
<1>12. (h \in s) # ((h \in L) # (h \in R)) <=> Nibble(L) + Nibble(R) + c >= H
  <2>1. BitAt(h, L) = IF h \in L THEN H ELSE 0
    BY DEF BitAt
  <2>2. BitAt(h, R) = IF h \in R THEN H ELSE 0
    BY DEF BitAt
  <2> HIDE DEF h, H
  <2> QED
    BY <1>1, <1>2, <1>3, <1>10, <1>11, <2>1, <2>2
<1>13. computeAuxFlag(L, R, s) <=> (h \in s) # ((h \in L) # (h \in R))
  BY DEF computeAuxFlag, Xor
<1>14. computeAuxFlag(L, R, s) = (Nibble(L) + Nibble(R) + c >= H)
  BY <1>12, <1>13 DEF computeAuxFlag
<1> QED
  BY <1>14 DEF s

\* computeAuxFlag finds the borrow out of the low nibble, a borrow in included.
LEMMA AuxiliaryOfDifference ==
    ASSUME NEW w \in Nat, w >= ByteBits, NEW L \in SUBSET Positions(w),
           NEW R \in SUBSET Positions(w), NEW c \in {0, 1}
    PROVE  computeAuxFlag(L, R, BitsOf(w, NatOf(L) - NatOf(R) - c))
               = (Nibble(L) < Nibble(R) + c)
<1> DEFINE h == ByteBits \div 2
           j == h + 1
           H == 2^h
           n == NatOf(L) - NatOf(R) - c
           s == BitsOf(w, n)
           a == NatOf(Trunc(j, L))
           b == NatOf(Trunc(j, R))
           m == a - b - c
           d == NatOf(Trunc(j, s))
<1>1. /\ h \in Nat \ {0} /\ j \in Nat /\ j <= w /\ H \in Nat \ {0, 1}
      /\ 2^j = 2 * H
  BY NibblePower
<1>2. /\ a = Nibble(L) + BitAt(h, L) /\ Nibble(L) \in 0 .. H - 1
      /\ \E q \in Int : NatOf(L) = q * 2^j + a
  <2> HIDE DEF h
  <2> QED
    BY <1>1, LowBitsOf DEF h, Nibble
<1>3. /\ b = Nibble(R) + BitAt(h, R) /\ Nibble(R) \in 0 .. H - 1
      /\ \E q \in Int : NatOf(R) = q * 2^j + b
  <2> HIDE DEF h
  <2> QED
    BY <1>1, LowBitsOf DEF h, Nibble
<1>4. NatOf(L) \in Int /\ NatOf(R) \in Int /\ n \in Int
  BY ValueIsFinite
<1>5. s \in SUBSET Positions(w) /\ Trunc(j, s) = BitsOf(j, n)
  <2> HIDE DEF j, n
  <2> QED
    BY <1>1, <1>4, BitsOfIsValue, BitsOfPart
<1>6. /\ d = (NatOf(s) % 2^h) + BitAt(h, s)
      /\ NatOf(s) % 2^h \in 0 .. H - 1
  <2> HIDE DEF h, s
  <2> QED
    BY <1>1, <1>5, LowBitsOf DEF h
<1>7. BitAt(h, L) \in {0, H} /\ BitAt(h, R) \in {0, H}
  BY DEF BitAt
<1> HIDE DEF a, b, s, d
<1>8. m \in Int /\ m >= -(2 * H) /\ m < 2 * H
  BY <1>1, <1>2, <1>3, <1>7
<1>9. BitsOf(j, n) = BitsOf(j, m)
  <2>1. PICK p \in Int : NatOf(L) = p * 2^j + a
    BY <1>2
  <2>2. PICK q \in Int : NatOf(R) = q * 2^j + b
    BY <1>3
  <2> DEFINE t == p - q
             P == 2^j
  <2>3. a \in Int /\ b \in Int /\ P \in Int /\ c \in Int
    BY <1>1, <1>2, <1>3, <1>7
  <2>4. t \in Int /\ n = m + t * P
    <3> HIDE DEF P
    <3>1. n = (p * P + a) - (q * P + b) - c
      BY <2>1, <2>2 DEF P
    <3> QED
      BY <2>3, <3>1
  <2> HIDE DEF t, m, n, j
  <2> QED
    BY <1>1, <1>4, <1>8, <2>4, BitsOfSame
<1>10. d = IF m < 0 THEN m + 2 * H ELSE m
  <2> HIDE DEF m, n, j, H
  <2>1. -(2^j) <= m /\ m < 2 * 2^j /\ m < 2^j /\ m \in Int
    BY <1>1, <1>8
  <2>2. NatOf(BitsOf(j, m)) = IF m < 0 THEN m + 2^j ELSE IF m >= 2^j THEN m - 2^j ELSE m
    BY <1>1, <2>1, OneTurn
  <2> QED
    BY <1>1, <1>5, <1>8, <1>9, <2>1, <2>2 DEF d
<1>11. h \in s <=> d >= H
  BY <1>1, <1>6 DEF BitAt
<1>12. (h \in s) # ((h \in L) # (h \in R)) <=> Nibble(L) < Nibble(R) + c
  <2>1. BitAt(h, L) = IF h \in L THEN H ELSE 0
    BY DEF BitAt
  <2>2. BitAt(h, R) = IF h \in R THEN H ELSE 0
    BY DEF BitAt
  <2> HIDE DEF h, H
  <2> QED
    BY <1>1, <1>2, <1>3, <1>10, <1>11, <2>1, <2>2
<1>13. computeAuxFlag(L, R, s) <=> (h \in s) # ((h \in L) # (h \in R))
  BY DEF computeAuxFlag, Xor
<1>14. computeAuxFlag(L, R, s) = (Nibble(L) < Nibble(R) + c)
  BY <1>12, <1>13 DEF computeAuxFlag
<1> QED
  BY <1>14 DEF s

\* The carry flag as the value lift_adc and lift_sbb add is 0 or 1.
LEMMA CarryIs ==
    ASSUME NEW f \in FlagSets
    PROVE  LET c == IF f.CF THEN 1 ELSE 0
           IN c \in {0, 1} /\ NatOf(Pick(f.CF, {0}, {})) = c
<1>1. ByteBits \in Nat \ {0} /\ NatOf({0}) = 1 /\ NatOf({}) = 0
  BY ByteAssumption, OneBit, NatOfEmpty
<1>2. f.CF \in BOOLEAN
  BY DEF FlagSets, FlagNames
<1> QED
  BY <1>1, <1>2 DEF Pick

\* lift_adc has the processor's result and flags, from either carry.
LEMMA AdcIsRight ==
    ASSUME NEW w \in Nat, w >= ByteBits, NEW L \in SUBSET Positions(w),
           NEW R \in SUBSET Positions(w), NEW f \in FlagSets
    PROVE  lift_adc(w, L, R, f) = CpuAdd(w, L, R, IF f.CF THEN 1 ELSE 0, f)
<1> DEFINE c == IF f.CF THEN 1 ELSE 0
           cfv == Pick(f.CF, {0}, {})
           n == NatOf(L) + NatOf(R) + c
           n0 == NatOf(L) + NatOf(R) + 0
           t == BitsOf(w, n0)
           s == BitsOf(w, n)
           r == ByResult(w, s, f)
           af == Nibble(L) + Nibble(R) + c >= 2^(ByteBits \div 2)
           cf == n >= 2^w
           of == ~InRange(w, SignedOf(w, L) + SignedOf(w, R) + c)
<1>0. w \in Nat \ {0} /\ 0 \in {0, 1} /\ c \in {0, 1} /\ NatOf(cfv) = c
  BY ByteAssumption, CarryIs
<1> HIDE DEF c, cfv
<1>1. /\ s \in SUBSET Positions(w)
      /\ NatOf(s) = IF n >= 2^w THEN n - 2^w ELSE n
      /\ computeOverflowFlagAdd(w, L, R, s) = of
  BY <1>0, SumIs
<1>2. NatOf(t) = IF n0 >= 2^w THEN n0 - 2^w ELSE n0
  BY <1>0, SumIs
<1>3. NatOf(L) \in 0 .. 2^w - 1 /\ NatOf(R) \in 0 .. 2^w - 1 /\ 2^w \in Nat
  BY NatOfBound, PowerStep
<1>4. Add(w, L, R) = t
  BY <1>3 DEF Add
<1>5. Add(w, t, cfv) = s
  <2> DEFINE q == IF n0 >= 2^w THEN -1 ELSE 0
             m == NatOf(t) + c
             P == 2^w
  <2>1. m \in Int /\ n \in Int /\ q \in Int /\ m = n + q * P
    <3>1. n0 = NatOf(L) + NatOf(R) /\ n = NatOf(L) + NatOf(R) + c
      BY <1>0, <1>3
    <3> HIDE DEF n0, n, P, t
    <3>2. CASE n0 >= P
      BY <1>0, <1>2, <1>3, <3>1, <3>2 DEF P
    <3>3. CASE ~(n0 >= P)
      BY <1>0, <1>2, <1>3, <3>1, <3>3 DEF P
    <3> QED
      BY <3>2, <3>3
  <2> HIDE DEF q, m, n
  <2>2. BitsOf(w, m) = BitsOf(w, n)
    BY <2>1, BitsOfSame
  <2> QED
    BY <1>0, <2>2 DEF Add, m
<1>6. (ULT(t, L) \/ ULT(t, R) \/ ULT(s, cfv)) = cf
  <2> HIDE DEF s, t
  <2> QED
    BY <1>0, <1>1, <1>2, <1>3 DEF ULT
<1>7. computeAuxFlag(L, R, s) = af
  BY <1>0, AuxiliaryOfSum
<1>8. SignZeroParity(w, s, f) = r /\ r \in FlagSets
  BY <1>0, <1>1, ResultFlagsAgree, SignZeroParityType
<1>9. lift_adc(w, L, R, f) = Result(s, [r EXCEPT !.CF = cf, !.AF = af, !.OF = of])
  <2> HIDE DEF s, t, r, af, cf, of
  <2> QED
    BY <1>1, <1>4, <1>5, <1>6, <1>7, <1>8 DEF lift_adc, cfv
<1>10. CpuAdd(w, L, R, c, f) = Result(s, [r EXCEPT !.CF = cf, !.OF = of, !.AF = af])
  BY DEF CpuAdd, Result
<1>11. af \in BOOLEAN /\ cf \in BOOLEAN /\ of \in BOOLEAN
  BY DEF InRange
<1> HIDE DEF s, r, af, cf, of
<1>12. [r EXCEPT !.CF = cf, !.AF = af, !.OF = of] = [r EXCEPT !.CF = cf, !.OF = of, !.AF = af]
  BY <1>8, <1>11 DEF FlagSets, FlagNames
<1> QED
  BY <1>9, <1>10, <1>12 DEF c

\* The overflow of lift_sbb, computed from the top bits in another way, is that of
\* lift_sub.
LEMMA SbbOverflow ==
    ASSUME NEW w \in Nat \ {0, 1}, NEW L \in SUBSET Positions(w), NEW R \in SUBSET Positions(w),
           NEW s \in SUBSET Positions(w)
    PROVE  computeOverflowFlagSbb(w, L, R, s) = computeOverflowFlagSub(w, L, R, s)
<1> DEFINE k == w - 1
           Bit(p) == IF p THEN {0} ELSE {}
           x == (k \in L) # (k \in R)
           y == (k \in L) # (k \in s)
           X == Bit(x)
           Y == Bit(y)
<1>1. \A v \in SUBSET Positions(w) : LShr(v, k) = Bit(k \in v)
  <2> SUFFICES ASSUME NEW v \in SUBSET Positions(w) PROVE LShr(v, k) = Bit(k \in v)
    OBVIOUS
  <2>1. {j \in v : j >= k} = IF k \in v THEN {k} ELSE {}
    <3>1. v \subseteq 0 .. k /\ k \in Int
      BY DEF Positions
    <3> HIDE DEF k
    <3>2. \A j \in v : j >= k <=> j = k
      BY <3>1
    <3> QED
      BY <3>1, <3>2
  <2>2. k - k = 0
    OBVIOUS
  <2> HIDE DEF k
  <2>3. LShr(v, k) = {i - k : i \in {j \in v : j >= k}}
    BY DEF LShr
  <2> QED
    BY <2>1, <2>2, <2>3
<1>2. Xor(LShr(L, k), LShr(R, k)) = X /\ Xor(LShr(L, k), LShr(s, k)) = Y
  <2>1. \A p, q \in BOOLEAN : Xor(Bit(p), Bit(q)) = Bit(p # q)
    BY DEF Xor
  <2>2. /\ LShr(L, k) = Bit(k \in L) /\ LShr(R, k) = Bit(k \in R) /\ LShr(s, k) = Bit(k \in s)
    BY <1>1
  <2>3. (k \in L) \in BOOLEAN /\ (k \in R) \in BOOLEAN /\ (k \in s) \in BOOLEAN
    OBVIOUS
  <2> HIDE DEF Bit, k
  <2> QED
    BY <2>1, <2>2, <2>3
<1>3. NatOf({0}) = 1 /\ NatOf({}) = 0
  BY OneBit, NatOfEmpty
<1>4. NatOf(X) = (IF x THEN 1 ELSE 0) /\ NatOf(Y) = (IF y THEN 1 ELSE 0)
  BY <1>3
<1> DEFINE n == NatOf(X) + NatOf(Y)
<1>5. n \in 0 .. 2 /\ (n = 2 <=> x /\ y)
  BY <1>4
<1> HIDE DEF X, Y, n
<1>6. NatOf(BitsOf(w, n)) = n
  <2>1. 2^w \in Nat /\ 2^w > w
    BY PowerStep, BelowPower
  <2>2. n \in Int /\ -(2^w) <= n /\ n < 2 * 2^w /\ n >= 0 /\ n < 2^w
    BY <1>5, <2>1
  <2>3. NatOf(BitsOf(w, n)) = IF n < 0 THEN n + 2^w ELSE IF n >= 2^w THEN n - 2^w ELSE n
    BY <2>2, OneTurn
  <2> QED
    BY <2>1, <2>2, <2>3
<1>7. computeOverflowFlagSbb(w, L, R, s) = (NatOf(BitsOf(w, n)) = 2)
  BY <1>2 DEF computeOverflowFlagSbb, Add, n
<1>8. computeOverflowFlagSub(w, L, R, s) <=> x /\ y
  BY DEF computeOverflowFlagSub, Xor
<1>9. computeOverflowFlagSbb(w, L, R, s) <=> computeOverflowFlagSub(w, L, R, s)
  BY <1>5, <1>6, <1>7, <1>8
<1>10. computeOverflowFlagSub(w, L, R, s) \in BOOLEAN
  BY DEF computeOverflowFlagSub
<1>11. computeOverflowFlagSbb(w, L, R, s) \in BOOLEAN
  BY <1>7
<1> QED
  BY <1>9, <1>10, <1>11

\* lift_sbb has the processor's result and flags, from either carry.
THEOREM SbbIsRight ==
    ASSUME NEW w \in Nat, w >= ByteBits, NEW L \in SUBSET Positions(w),
           NEW R \in SUBSET Positions(w), NEW f \in FlagSets
    PROVE  lift_sbb(w, L, R, f) = CpuSub(w, L, R, IF f.CF THEN 1 ELSE 0, f)
<1> DEFINE c == IF f.CF THEN 1 ELSE 0
           cfv == Pick(f.CF, {0}, {})
           n == NatOf(L) - NatOf(R) - c
           n0 == NatOf(L) - NatOf(R) - 0
           t == BitsOf(w, n0)
           s == BitsOf(w, n)
           r == ByResult(w, s, f)
           af == Nibble(L) < Nibble(R) + c
           cf == n < 0
           of == ~InRange(w, SignedOf(w, L) - SignedOf(w, R) - c)
<1>0. w \in Nat \ {0, 1} /\ 0 \in {0, 1} /\ c \in {0, 1} /\ NatOf(cfv) = c
  BY ByteAssumption, CarryIs
<1> HIDE DEF c, cfv
<1>1. /\ s \in SUBSET Positions(w)
      /\ NatOf(s) = IF n < 0 THEN n + 2^w ELSE n
      /\ computeOverflowFlagSub(w, L, R, s) = of
  BY <1>0, DifferenceIs
<1>2. NatOf(t) = IF n0 < 0 THEN n0 + 2^w ELSE n0
  BY <1>0, DifferenceIs
<1>3. NatOf(L) \in 0 .. 2^w - 1 /\ NatOf(R) \in 0 .. 2^w - 1 /\ 2^w \in Nat
  BY NatOfBound, PowerStep
<1>4. Sub(w, L, R) = t
  BY <1>3 DEF Sub
<1>5. Sub(w, t, cfv) = s
  <2> DEFINE q == IF n0 < 0 THEN 1 ELSE 0
             m == NatOf(t) - c
             P == 2^w
  <2>1. m \in Int /\ n \in Int /\ q \in Int /\ m = n + q * P
    <3>1. n0 = NatOf(L) - NatOf(R) /\ n = NatOf(L) - NatOf(R) - c
      BY <1>0, <1>3
    <3> HIDE DEF n0, n, P, t
    <3>2. CASE n0 < 0
      BY <1>0, <1>2, <1>3, <3>1, <3>2 DEF P
    <3>3. CASE ~(n0 < 0)
      BY <1>0, <1>2, <1>3, <3>1, <3>3 DEF P
    <3> QED
      BY <3>2, <3>3
  <2> HIDE DEF q, m, n
  <2>2. BitsOf(w, m) = BitsOf(w, n)
    BY <2>1, BitsOfSame
  <2> QED
    BY <1>0, <2>2 DEF Sub, m
<1>6. SbbCarry(L, R, t, cfv) = cf
  <2> HIDE DEF s, t
  <2> QED
    BY <1>0, <1>1, <1>2, <1>3 DEF ULT, SbbCarry
<1>7. computeAuxFlag(L, R, s) = af
  BY <1>0, AuxiliaryOfDifference
<1>8. SignZeroParity(w, s, f) = r /\ r \in FlagSets
  BY <1>0, <1>1, ResultFlagsAgree, SignZeroParityType
<1>13. computeOverflowFlagSbb(w, L, R, s) = of
  <2> HIDE DEF s
  <2> QED
    BY <1>0, <1>1, SbbOverflow
<1>9. lift_sbb(w, L, R, f) = Result(s, [r EXCEPT !.CF = cf, !.AF = af, !.OF = of])
  <2> HIDE DEF s, t, r, af, cf, of
  <2> QED
    BY <1>13, <1>4, <1>5, <1>6, <1>7, <1>8 DEF lift_sbb, cfv
<1>10. CpuSub(w, L, R, c, f) = Result(s, [r EXCEPT !.CF = cf, !.OF = of, !.AF = af])
  BY DEF CpuSub, Result
<1>11. af \in BOOLEAN /\ cf \in BOOLEAN /\ of \in BOOLEAN
  BY DEF InRange
<1> HIDE DEF s, r, af, cf, of
<1>12. [r EXCEPT !.CF = cf, !.AF = af, !.OF = of] = [r EXCEPT !.CF = cf, !.OF = of, !.AF = af]
  BY <1>8, <1>11 DEF FlagSets, FlagNames
<1> QED
  BY <1>9, <1>10, <1>12 DEF c

\* The low nibble of 1 is 1.
LEMMA LowNibbleOfOne == LowNibble({0}) = {0}
<1>1. ByteBits \div 2 \in Nat \ {0}
  BY ByteAssumption
<1> QED
  BY <1>1 DEF LowNibble, Trunc, Positions

\* inc and dec set every flag but the carry.
LEMMA KeptCarry ==
    ASSUME NEW f \in FlagSets, NEW r \in FlagSets, r.CF = f.CF,
           NEW a \in BOOLEAN, NEW c \in BOOLEAN, NEW o \in BOOLEAN
    PROVE  [r EXCEPT !.OF = o, !.AF = a]
               = [[r EXCEPT !.AF = a, !.CF = c, !.OF = o] EXCEPT !.CF = f.CF]
  BY DEF FlagSets, FlagNames

\* The flags by result leave the carry as it was.
LEMMA SignZeroParityCarry ==
    ASSUME NEW w, NEW v, NEW f \in FlagSets
    PROVE  SignZeroParity(w, v, f).CF = f.CF
  BY DEF SignZeroParity, FlagSets, FlagNames

\* inc and dec are an addition and a subtraction of one that keep the carry.
LEMMA IncIsRight ==
    ASSUME NEW w \in Nat, w >= ByteBits, NEW L \in SUBSET Positions(w), NEW f \in FlagSets
    PROVE  lift_inc(w, L, f)
               = [CpuAdd(w, L, {0}, 0, f) EXCEPT !.flags = [@ EXCEPT !.CF = f.CF]]
<1> DEFINE s == Add(w, L, {0})
           r == SignZeroParity(w, s, f)
           af == ULT(NibbleMask, Add(w, LowNibble(L), LowNibble({0})))
           cf == ULT(s, L) \/ ULT(s, {0})
           of == computeOverflowFlagAdd(w, L, {0}, s)
<1>1. w \in Nat \ {0} /\ {0} \in SUBSET Positions(w)
  BY ByteAssumption, OneBit
<1>2. lift_add(w, L, {0}, f) = Result(s, [r EXCEPT !.AF = af, !.CF = cf, !.OF = of])
  BY DEF lift_add
<1>3. lift_inc(w, L, f) = Result(s, [r EXCEPT !.OF = of, !.AF = af])
  BY LowNibbleOfOne DEF lift_inc
<1>4. r \in FlagSets /\ r.CF = f.CF
  BY SignZeroParityType, SignZeroParityCarry
<1>5. af \in BOOLEAN /\ cf \in BOOLEAN /\ of \in BOOLEAN
  BY DEF ULT, computeOverflowFlagAdd
<1>6. lift_add(w, L, {0}, f) = CpuAdd(w, L, {0}, 0, f)
  BY <1>1, AddIsRight
<1> HIDE DEF s, r, af, cf, of
<1>7. [r EXCEPT !.OF = of, !.AF = af] = [[r EXCEPT !.AF = af, !.CF = cf, !.OF = of] EXCEPT !.CF = f.CF]
  BY <1>4, <1>5, KeptCarry
<1> DEFINE F == [r EXCEPT !.AF = af, !.CF = cf, !.OF = of]
           G == [r EXCEPT !.OF = of, !.AF = af]
<1>8. G = [F EXCEPT !.CF = f.CF]
  BY <1>7
<1> HIDE DEF F, G
<1>9. Result(s, G) = [Result(s, F) EXCEPT !.flags = [@ EXCEPT !.CF = f.CF]]
  BY <1>8 DEF Result
<1> QED
  BY <1>2, <1>3, <1>6, <1>9 DEF F, G

\* lift_dec is a subtraction of 1 that keeps the carry.
LEMMA DecIsRight ==
    ASSUME NEW w \in Nat, w >= ByteBits, NEW L \in SUBSET Positions(w), NEW f \in FlagSets
    PROVE  lift_dec(w, L, f)
               = [CpuSub(w, L, {0}, 0, f) EXCEPT !.flags = [@ EXCEPT !.CF = f.CF]]
<1> DEFINE s == Sub(w, L, {0})
           r == SignZeroParity(w, s, f)
           af == ULT(LowNibble(L), LowNibble({0}))
           cf == ULT(L, {0})
           of == computeOverflowFlagSub(w, L, {0}, s)
<1>1. w \in Nat \ {0} /\ {0} \in SUBSET Positions(w)
  BY ByteAssumption, OneBit
<1>2. lift_sub(w, L, {0}, f) = Result(s, [r EXCEPT !.AF = af, !.CF = cf, !.OF = of])
  BY DEF lift_sub
<1>3. lift_dec(w, L, f) = Result(s, [r EXCEPT !.OF = of, !.AF = af])
  BY LowNibbleOfOne DEF lift_dec
<1>4. r \in FlagSets /\ r.CF = f.CF
  BY SignZeroParityType, SignZeroParityCarry
<1>5. af \in BOOLEAN /\ cf \in BOOLEAN /\ of \in BOOLEAN
  BY DEF ULT, computeOverflowFlagSub
<1>6. lift_sub(w, L, {0}, f) = CpuSub(w, L, {0}, 0, f)
  BY <1>1, SubIsRight
<1> HIDE DEF s, r, af, cf, of
<1>7. [r EXCEPT !.OF = of, !.AF = af] = [[r EXCEPT !.AF = af, !.CF = cf, !.OF = of] EXCEPT !.CF = f.CF]
  BY <1>4, <1>5, KeptCarry
<1> DEFINE F == [r EXCEPT !.AF = af, !.CF = cf, !.OF = of]
           G == [r EXCEPT !.OF = of, !.AF = af]
<1>8. G = [F EXCEPT !.CF = f.CF]
  BY <1>7
<1> HIDE DEF F, G
<1>9. Result(s, G) = [Result(s, F) EXCEPT !.flags = [@ EXCEPT !.CF = f.CF]]
  BY <1>8 DEF Result
<1> QED
  BY <1>2, <1>3, <1>6, <1>9 DEF F, G

\* neg finds the carry, the half carry and the overflow by comparing its operand
\* with zero and with the result.
LEMMA NegIsRight ==
    ASSUME NEW w \in Nat, w >= ByteBits, NEW L \in SUBSET Positions(w), NEW f \in FlagSets
    PROVE  lift_neg(w, L, f) = CpuSub(w, {}, L, 0, f)
<1> DEFINE s == Sub(w, {}, L)
           r == SignZeroParity(w, s, f)
           af == ULT(LowNibble({}), LowNibble(L))
           cf == ULT({}, L)
           of == computeOverflowFlagSub(w, {}, L, s)
           af2 == LowNibble(L) # {}
           cf2 == L # {}
           of2 == L # {} /\ s = L
           k == w - 1
<1>1. w \in Nat \ {0} /\ {} \in SUBSET Positions(w) /\ 0 \in {0, 1}
  BY ByteAssumption, OneBit
<1>2. lift_sub(w, {}, L, f) = Result(s, [r EXCEPT !.AF = af, !.CF = cf, !.OF = of])
  BY DEF lift_sub
<1>3. lift_neg(w, L, f) = Result(s, [r EXCEPT !.CF = cf2, !.AF = af2, !.OF = of2])
  BY DEF lift_neg
<1>4. r \in FlagSets
  BY SignZeroParityType
<1>5. NatOf({}) = 0 /\ NatOf(L) \in Nat /\ (NatOf(L) = 0 <=> L = {})
  BY NatOfEmpty, ZeroNumber, NatOfBound, PowerStep
<1>6. cf = cf2
  BY <1>5 DEF ULT
<1>7. af = af2
  <2>1. LowNibble({}) = {} /\ LowNibble(L) \in SUBSET Positions(w)
    BY NibbleIs DEF LowNibble, Trunc
  <2>2. NatOf(LowNibble(L)) \in Nat /\ (NatOf(LowNibble(L)) = 0 <=> LowNibble(L) = {})
    BY <2>1, ZeroNumber, NatOfBound, PowerStep
  <2> QED
    BY <1>5, <2>1, <2>2 DEF ULT
<1>8. of = of2
  <2> DEFINE n == NatOf({}) - NatOf(L) - 0
             H == 2^(w - 1)
             a == NatOf(L)
  <2>1. BitsOf(w, n) = s
    BY <1>5 DEF Sub
  <2>2. /\ s \in SUBSET Positions(w)
        /\ NatOf(s) = IF n < 0 THEN n + 2^w ELSE n
    BY <1>1, <2>1, DifferenceIs
  <2>3. /\ H \in Nat \ {0} /\ 2^w = 2 * H
        /\ a \in 0 .. 2 * H - 1
        /\ k \in L <=> a >= H
    BY <1>1, SignedIs
  <2>4. k \in s <=> NatOf(s) >= H
    BY <1>1, <2>2, SignedIs
  <2>5. NatOf(s) = a <=> s = L
    BY <2>2, SameNumber
  <2>6. of <=> k \in L /\ k \in s
    BY DEF computeOverflowFlagSub, Xor
  <2>7. n = 0 - a
    BY <1>5
  <2> HIDE DEF H, a, n, k, s
  <2>8. (k \in L /\ k \in s) <=> (a # 0 /\ NatOf(s) = a)
    BY <2>2, <2>3, <2>4, <2>7
  <2>9. a # 0 <=> L # {}
    BY <1>5 DEF a
  <2>10. of <=> of2
    BY <2>5, <2>6, <2>8, <2>9
  <2>11. of \in BOOLEAN /\ of2 \in BOOLEAN
    BY DEF computeOverflowFlagSub
  <2> QED
    BY <2>10, <2>11
<1>9. af \in BOOLEAN /\ cf \in BOOLEAN /\ of \in BOOLEAN
  BY DEF ULT, computeOverflowFlagSub
<1> HIDE DEF s, r, af, cf, of, af2, cf2, of2
<1>10. [r EXCEPT !.CF = cf, !.AF = af, !.OF = of] = [r EXCEPT !.AF = af, !.CF = cf, !.OF = of]
  BY <1>4, <1>9 DEF FlagSets, FlagNames
<1>11. lift_sub(w, {}, L, f) = CpuSub(w, {}, L, 0, f)
  BY <1>1, SubIsRight
<1> QED
  BY <1>2, <1>3, <1>6, <1>7, <1>8, <1>10, <1>11

\* not flips every bit: the number is what is left of all ones.
LEMMA NotIsRight ==
    ASSUME NEW w \in Nat, NEW L \in SUBSET Positions(w), NEW f
    PROVE  lift_not(w, L, f) = Result(BitsOf(w, -1 - NatOf(L)), f)
<1> DEFINE v == Xor(L, Positions(w))
           q == -1
           n == -1 - NatOf(L)
           P == 2^w
<1>1. v = Not(w, L) /\ v \in SUBSET Positions(w)
  BY DEF Xor, Not
<1>2. NatOf(v) = P - 1 - NatOf(L) /\ NatOf(L) \in Int /\ P \in Int
  BY <1>1, NatOfNot, ValueIsFinite, PowerStep
<1>3. n = q * P + NatOf(v) /\ q \in Int
  <2> HIDE DEF P, v
  <2> QED
    BY <1>2
<1> HIDE DEF q, n
<1>4. BitsOf(w, q * 2^w + NatOf(v)) = v
  BY <1>1, <1>3, BitsOfNumber
<1>5. BitsOf(w, n) = v
  BY <1>3, <1>4
<1> QED
  BY <1>5 DEF lift_not, n

\* The logical operations: the flags of the result, with CF and OF cleared.
LEMMA LogicIsRight ==
    ASSUME NEW w \in Nat \ {0}, NEW v \in SUBSET Positions(w), NEW f \in FlagSets
    PROVE  Logic(w, v, f) = CpuLogic(w, v, f)
<1> DEFINE r == ByResult(w, v, f)
<1>1. SignZeroParity(w, v, f) = r /\ r \in FlagSets
  BY ResultFlagsAgree, SignZeroParityType
<1> HIDE DEF r
<1>2. Clears(r, {"OF", "CF"}) = [r EXCEPT !.CF = FALSE, !.OF = FALSE]
  BY <1>1 DEF Clears, FlagSets, FlagNames
<1> QED
  BY <1>1, <1>2 DEF Logic, CpuLogic, Result, r

\* The results of and, or, xor and andn, position by position.
LEMMA LogicResults ==
    ASSUME NEW w \in Nat, NEW L \in SUBSET Positions(w), NEW R \in SUBSET Positions(w)
    PROVE  /\ L \intersect R = {i \in L : i \in R}
           /\ L \union R = {i \in Positions(w) : i \in L \/ i \in R}
           /\ Xor(L, R) = {i \in Positions(w) : (i \in L) # (i \in R)}
           /\ Not(w, L) \intersect R = {i \in R : i \notin L}
           /\ L \intersect R \in SUBSET Positions(w) /\ L \union R \in SUBSET Positions(w)
           /\ Xor(L, R) \in SUBSET Positions(w)
           /\ Not(w, L) \intersect R \in SUBSET Positions(w)
  BY DEF Xor, Not

\* The comparison of cmpxchg sets the flags of a subtraction, PF excepted.
LEMMA CmpxchgIsRight ==
    ASSUME NEW w \in Nat, w >= ByteBits, NEW accum \in SUBSET Positions(w),
           NEW L \in SUBSET Positions(w), NEW f \in FlagSets
    PROVE  /\ CmpxchgFlags(w, accum, L, f) \in FlagSets
           /\ \A g \in FlagNames \ {"PF"} :
                CmpxchgFlags(w, accum, L, f)[g] = CpuSub(w, accum, L, 0, f).flags[g]
<1> DEFINE s == Sub(w, accum, L)
           pf == computeParityFlag(s)
           zf == computeZeroFlag(s)
           sf == computeSignFlag(w, s)
           af == ULT(LowNibble(accum), LowNibble(L))
           cf == ULT(accum, L)
           of == computeOverflowFlagSub(w, accum, L, s)
           zf2 == accum = L
<1>0. w \in Nat \ {0} /\ 0 \in {0, 1}
  BY ByteAssumption
<1>1. lift_sub(w, accum, L, f) = CpuSub(w, accum, L, 0, f)
  BY SubIsRight
<1>2. lift_sub(w, accum, L, f).flags
          = [[f EXCEPT !.SF = sf, !.ZF = zf, !.PF = pf] EXCEPT !.AF = af, !.CF = cf, !.OF = of]
  BY DEF lift_sub, Result, SignZeroParity
<1>3. CmpxchgFlags(w, accum, L, f)
          = [f EXCEPT !.OF = of, !.CF = cf, !.AF = af, !.SF = sf, !.ZF = zf2]
  BY DEF CmpxchgFlags
<1>4. zf = zf2
  <2> DEFINE n == NatOf(accum) - NatOf(L) - 0
             P == 2^w
  <2>1. NatOf(accum) \in 0 .. P - 1 /\ NatOf(L) \in 0 .. P - 1 /\ P \in Int
    BY NatOfBound, PowerStep
  <2>2. s = BitsOf(w, n)
    BY <2>1 DEF Sub
  <2>3. /\ s \in SUBSET Positions(w)
        /\ NatOf(s) = IF n < 0 THEN n + P ELSE n
    BY <1>0, <2>2, DifferenceIs
  <2>4. (NatOf(s) = 0 <=> s = {}) /\ (NatOf(accum) = NatOf(L) <=> accum = L)
    BY <2>3, ZeroNumber, SameNumber
  <2>6. NatOf(accum) \in Int /\ NatOf(L) \in Int
    BY ValueIsFinite
  <2> HIDE DEF s, P
  <2>5. NatOf(s) = 0 <=> NatOf(accum) = NatOf(L)
    <3> DEFINE a == NatOf(accum)
               b == NatOf(L)
               c == NatOf(s)
    <3>1. /\ a \in Int /\ b \in Int /\ P \in Int /\ a >= 0 /\ a < P /\ b >= 0 /\ b < P
          /\ c = IF a - b - 0 < 0 THEN (a - b - 0) + P ELSE a - b - 0
      BY <2>1, <2>3, <2>6
    <3> HIDE DEF a, b, c
    <3>2. c = 0 <=> a = b
      BY <3>1
    <3> QED
      BY <3>2 DEF a, b, c
  <2> QED
    BY <2>4, <2>5 DEF computeZeroFlag
<1>5. /\ af \in BOOLEAN /\ cf \in BOOLEAN /\ of \in BOOLEAN /\ zf \in BOOLEAN
      /\ sf \in BOOLEAN /\ pf \in BOOLEAN
  BY DEF ULT, computeOverflowFlagSub, computeZeroFlag, computeSignFlag, computeParityFlag
<1> HIDE DEF s, pf, zf, sf, af, cf, of, zf2
<1>6. [f EXCEPT !.OF = of, !.CF = cf, !.AF = af, !.SF = sf, !.ZF = zf] \in FlagSets
  BY <1>5 DEF FlagSets, FlagNames
<1>7. \A g \in FlagNames \ {"PF"} :
         [f EXCEPT !.OF = of, !.CF = cf, !.AF = af, !.SF = sf, !.ZF = zf][g]
            = [[f EXCEPT !.SF = sf, !.ZF = zf, !.PF = pf] EXCEPT !.AF = af, !.CF = cf, !.OF = of][g]
  BY <1>5 DEF FlagSets, FlagNames
<1> QED
  BY <1>1, <1>2, <1>3, <1>4, <1>6, <1>7

-----------------------------------------------------------------------------
(* Products and quotients *)

\* The signed number of a value is in the range of its width, and gives the value back.
LEMMA SignedRange ==
    ASSUME NEW w \in Nat \ {0}, NEW v \in SUBSET Positions(w)
    PROVE  /\ SignedOf(w, v) \in Int /\ InRange(w, SignedOf(w, v))
           /\ BitsOf(w, SignedOf(w, v)) = v
<1> DEFINE H == 2^(w - 1)
           a == NatOf(v)
           n == SignedOf(w, v)
           q == IF a >= H THEN -1 ELSE 0
<1>1. /\ H \in Nat \ {0} /\ 2^w = 2 * H
      /\ a \in 0 .. 2 * H - 1
      /\ n = IF a >= H THEN a - 2 * H ELSE a
  BY SignedIs
<1> HIDE DEF H, a, n
<1>2. n \in Int /\ -H <= n /\ n < H /\ n = a + q * (2 * H) /\ q \in Int /\ a \in Int
  BY <1>1
<1>3. n = a + q * 2^w
  BY <1>1, <1>2
<1>6. q \in Int
  OBVIOUS
<1> HIDE DEF q
<1>7. w \in Nat /\ n \in Int /\ a \in Int
  BY <1>2
<1>4. BitsOf(w, n) = BitsOf(w, a)
  BY <1>3, <1>6, <1>7, BitsOfSame
<1>5. BitsOf(w, a) = v
  BY BitsOfNatOf DEF a
<1> QED
  BY <1>2, <1>4, <1>5 DEF InRange, n, H

\* A number in the range comes back.
LEMMA SignedOfBits ==
    ASSUME NEW w \in Nat \ {0}, NEW n \in Int, InRange(w, n)
    PROVE  SignedOf(w, BitsOf(w, n)) = n
<1> DEFINE H == 2^(w - 1)
           v == BitsOf(w, n)
           a == NatOf(v)
           m == SignedOf(w, v)
<1>1. v \in SUBSET Positions(w)
  BY BitsOfIsValue
<1>2. /\ H \in Nat \ {0} /\ 2^w = 2 * H
      /\ a \in 0 .. 2 * H - 1
      /\ m = IF a >= H THEN a - 2 * H ELSE a
  BY <1>1, SignedIs
<1>3. -H <= n /\ n < H
  BY DEF InRange
<1>4. a = IF n < 0 THEN n + 2^w ELSE IF n >= 2^w THEN n - 2^w ELSE n
  <2> HIDE DEF H
  <2>1. -(2^w) <= n /\ n < 2 * 2^w
    BY <1>2, <1>3
  <2> QED
    BY <2>1, OneTurn
<1> HIDE DEF H, a, m
<1>5. m = n
  BY <1>2, <1>3, <1>4
<1> QED
  BY <1>5 DEF m

\* The number of the positions that a sign extension sets.
LEMMA UpperOnes ==
    ASSUME NEW from \in Nat, NEW to \in Nat, from <= to
    PROVE  NatOf(from .. to - 1) = 2^to - 2^from
<1> DEFINE u == Positions(from)
           v == from .. to - 1
<1>1. Positions(to) = u \union v /\ u \intersect v = {}
  BY DEF Positions
<1>2. u \in SUBSET Nat /\ IsFiniteSet(u) /\ NatOf(u) \in Int
  BY ValueIsFinite
<1>3. v \in SUBSET Nat /\ IsFiniteSet(v) /\ NatOf(v) \in Int
  <2>1. v \in SUBSET Positions(to)
    BY DEF Positions
  <2> QED
    BY <2>1, ValueIsFinite
<1>4. NatOf(Positions(to)) = 2^to - 1 /\ NatOf(u) = 2^from - 1
  BY AllOnes
<1> HIDE DEF u, v
<1>5. NatOf(u \union v) = NatOf(u) + NatOf(v)
  BY <1>1, <1>2, <1>3, NatOfDisjoint
<1>6. 2^to \in Int /\ 2^from \in Int
  BY PowerStep
<1>7. NatOf(v) = 2^to - 2^from
  BY <1>1, <1>2, <1>3, <1>4, <1>5, <1>6
<1> QED
  BY <1>7 DEF v

\* Widening with copies of the sign keeps the signed number.
LEMMA SExtIs ==
    ASSUME NEW from \in Nat \ {0}, NEW to \in Nat, from <= to, NEW v \in SUBSET Positions(from)
    PROVE  /\ SExt(from, to, v) \in SUBSET Positions(to)
           /\ SignedOf(to, SExt(from, to, v)) = SignedOf(from, v)
           /\ SExt(from, to, v) = BitsOf(to, SignedOf(from, v))
<1> DEFINE s == SExt(from, to, v)
           u == from .. to - 1
<1>1. s \in SUBSET Positions(to)
  BY DEF SExt, Positions
<1>2. SignedOf(to, s) = SignedOf(from, v)
  <2>1. CASE from - 1 \in v
    <3>1. s = v \union u /\ v \intersect u = {} /\ to - 1 \in s
      BY <2>1 DEF SExt, Positions
    <3>2. v \in SUBSET Nat /\ IsFiniteSet(v) /\ NatOf(v) \in Int
      BY ValueIsFinite
    <3>3. u \in SUBSET Nat /\ IsFiniteSet(u) /\ NatOf(u) = 2^to - 2^from
      <4>1. u \in SUBSET Positions(to)
        BY DEF Positions
      <4> QED
        BY <4>1, ValueIsFinite, UpperOnes
    <3>4. 2^to \in Int /\ 2^from \in Int
      BY PowerStep
    <3> HIDE DEF s, u
    <3>5. NatOf(s) = NatOf(v) + NatOf(u)
      BY <3>1, <3>2, <3>3, NatOfDisjoint
    <3> QED
      BY <2>1, <3>1, <3>2, <3>3, <3>4, <3>5 DEF SignedOf
  <2>2. CASE from - 1 \notin v
    <3>1. s = v /\ to - 1 \notin v
      BY <2>2 DEF SExt, Positions
    <3> QED
      BY <2>2, <3>1 DEF SignedOf
  <2> QED
    BY <2>1, <2>2
<1>3. BitsOf(to, SignedOf(to, s)) = s
  BY <1>1, SignedRange
<1> QED
  BY <1>1, <1>2, <1>3

\* There are bits at a place or above when the number reaches its power.
LEMMA UpperBits ==
    ASSUME NEW w \in Nat, NEW k \in Nat, k <= w, NEW v \in SUBSET Positions(w)
    PROVE  LShr(v, k) # {} <=> NatOf(v) >= 2^k
<1> DEFINE t == Trunc(k, v)
           P == 2^k
<1>1. t \in SUBSET Positions(k) /\ t \in SUBSET Positions(w)
  BY DEF Trunc
<1>2. \E q \in Int : NatOf(v) = q * P + NatOf(t)
  BY LowPart
<1>3. NatOf(t) \in 0 .. P - 1 /\ P \in Nat \ {0} /\ NatOf(t) \in Int /\ NatOf(v) \in Int /\ NatOf(v) >= 0
  BY <1>1, NatOfBound, PowerStep, ValueIsFinite
<1>4. NatOf(v) = NatOf(t) <=> v = t
  BY <1>1, SameNumber
<1>5. LShr(v, k) # {} <=> v # t
  <2>1. v \in SUBSET (0 .. w - 1)
    BY DEF Positions
  <2>4. \A j \in v : j \in Positions(k) <=> ~(j >= k)
    BY <2>1 DEF Positions
  <2>2. t = {j \in v : ~(j >= k)}
    BY <2>4 DEF Trunc
  <2>3. LShr(v, k) # {} <=> \E j \in v : j >= k
    BY DEF LShr
  <2> HIDE DEF t
  <2> QED
    BY <2>2, <2>3
<1> HIDE DEF t, P
<1>6. PICK q \in Int : NatOf(v) = q * P + NatOf(t)
  BY <1>2
<1>7. NatOf(v) = NatOf(t) <=> ~(NatOf(v) >= P)
  <2>1. CASE NatOf(v) >= P
    BY <1>3, <2>1
  <2>2. CASE ~(NatOf(v) >= P)
    <3>1. q * P < P /\ q * P > -P
      BY <1>3, <1>6, <2>2
    <3>2. q = 0
      BY <1>3, <3>1, NoMultiple
    <3> QED
      BY <1>3, <1>6, <2>2, <3>2
  <2> QED
    BY <2>1, <2>2
<1> QED
  BY <1>4, <1>5, <1>7 DEF P

\* A product of two w-bit numbers has 2 * w bits.
LEMMA ProductBound ==
    ASSUME NEW P \in Nat, NEW a \in Nat, NEW b \in Nat, a < P, b < P
    PROVE  a * b \in Nat /\ a * b < P * P
<1>1. a * b <= a * P
  OBVIOUS
<1>2. a * P < P * P
  OBVIOUS
<1>3. a * b \in Nat /\ a * P \in Nat /\ P * P \in Nat
  OBVIOUS
<1> QED
  BY <1>1, <1>2, <1>3

\* mul multiplies at twice the width, where the signs are not set.
LEMMA MulIsRight ==
    ASSUME NEW w \in Nat \ {0}, NEW L \in SUBSET Positions(w), NEW R \in SUBSET Positions(w),
           NEW f \in FlagSets
    PROVE  LET n == NatOf(L) * NatOf(R)
               wrong == n >= 2^w
           IN lift_mul(w, L, R, f) = Result(BitsOf(2 * w, n), [f EXCEPT !.CF = wrong, !.OF = wrong])
<1> DEFINE a == NatOf(L)
           b == NatOf(R)
           n == a * b
           s == BitsOf(2 * w, n)
           P == 2^w
           wide == 2 * w
<1>1. SignedOf(wide, L) = a /\ SignedOf(wide, R) = b
  <2>1. wide - 1 \notin L /\ wide - 1 \notin R
    BY DEF Positions
  <2>2. a \in Int /\ b \in Int
    BY ValueIsFinite
  <2> HIDE DEF a, b, wide
  <2>3. SignedOf(wide, L) = a - 0 /\ SignedOf(wide, R) = b - 0
    BY <2>1 DEF SignedOf, a, b
  <2> QED
    BY <2>2, <2>3
<1>2. a \in Nat /\ b \in Nat /\ a < P /\ b < P /\ P \in Nat \ {0}
  BY NatOfBound, PowerStep
<1>3. 2^wide = P * P
  <2>1. wide = w + w
    OBVIOUS
  <2> QED
    BY <2>1, PowerSum
<1>4. n \in Nat /\ n < P * P
  <2> HIDE DEF a, b, P
  <2> QED
    BY <1>2, ProductBound
<1>5. s \in SUBSET Positions(wide)
  BY <1>4, BitsOfIsValue
<1>6. NatOf(s) = n
  <2>1. wide \in Nat /\ n \in Int
    BY <1>4
  <2> HIDE DEF n, wide, P
  <2>2. P * P \in Int /\ P * P >= 0
    BY <1>2
  <2>3. -(2^wide) <= n /\ n < 2 * 2^wide /\ n < 2^wide /\ n >= 0
    BY <1>3, <1>4, <2>2
  <2>4. NatOf(BitsOf(wide, n)) = IF n < 0 THEN n + 2^wide ELSE IF n >= 2^wide THEN n - 2^wide ELSE n
    BY <2>1, <2>3, OneTurn
  <2>5. s = BitsOf(wide, n)
    BY DEF wide
  <2> HIDE DEF s
  <2>6. NatOf(s) = IF n < 0 THEN n + 2^wide ELSE IF n >= 2^wide THEN n - 2^wide ELSE n
    BY <2>4, <2>5
  <2> QED
    BY <2>1, <2>3, <2>6
<1>7. LShr(s, w) # {} <=> n >= P
  <2>1. wide \in Nat /\ w <= wide
    OBVIOUS
  <2> HIDE DEF s, wide, n
  <2> QED
    BY <1>5, <1>6, <2>1, UpperBits
<1>8. Mul(wide, L, R) = s
  BY <1>1 DEF Mul
<1>9. (LShr(s, w) # {}) = (n >= P)
  BY <1>7
<1> HIDE DEF s
<1> QED
  BY <1>8, <1>9 DEF lift_mul, s

\* A product of two signed numbers has twice their range.
LEMMA SignedProductBound ==
    ASSUME NEW H \in Nat \ {0}, NEW a \in Int, NEW b \in Int,
           -H <= a, a < H, -H <= b, b < H
    PROVE  a * b \in Int /\ -(2 * (H * H)) <= a * b /\ a * b < 2 * (H * H)
<1> DEFINE x == IF a < 0 THEN -a ELSE a
           y == IF b < 0 THEN -b ELSE b
           K == H + 1
<1>1. x \in Nat /\ y \in Nat /\ x <= H /\ y <= H
  OBVIOUS
<1>2. a * b = x * y \/ a * b = -(x * y)
  <2>1. CASE a < 0 /\ b < 0
    BY <2>1
  <2>2. CASE a < 0 /\ ~(b < 0)
    BY <2>2
  <2>3. CASE ~(a < 0) /\ b < 0
    BY <2>3
  <2>4. CASE ~(a < 0) /\ ~(b < 0)
    BY <2>4
  <2> QED
    BY <2>1, <2>2, <2>3, <2>4
<1> HIDE DEF x, y
<1>3. x * y <= x * H
  BY <1>1
<1>4. x * H <= H * H
  BY <1>1
<1>5. x * y \in Nat /\ x * H \in Nat /\ H * H \in Nat \ {0} /\ a * b \in Int
  BY <1>1
<1> QED
  BY <1>2, <1>3, <1>4, <1>5

\* The signed product at twice the width; CF and OF say that it does not fit.
SignedProduct(w, L, R, f) ==
    LET n == SignedOf(w, L) * SignedOf(w, R)
        wrong == ~InRange(w, n)
    IN Result(BitsOf(2 * w, n), [f EXCEPT !.CF = wrong, !.OF = wrong])

\* imul multiplies at twice the width the values widened with their signs, and compares
\* the product with its lower half, widened again.
THEOREM ImulIsRight ==
    ASSUME NEW w \in Nat \ {0}, NEW L \in SUBSET Positions(w), NEW R \in SUBSET Positions(w),
           NEW f \in FlagSets
    PROVE  lift_imul(w, L, R, f) = SignedProduct(w, L, R, f)
<1> DEFINE a == SignedOf(w, L)
           b == SignedOf(w, R)
           n == a * b
           wide == 2 * w
           s == BitsOf(wide, n)
           t == BitsOf(w, n)
           m == SignedOf(w, t)
           H == 2^(w - 1)
<1>1. wide \in Nat \ {0} /\ w <= wide
  OBVIOUS
<1> HIDE DEF wide
<1>2. SignedOf(wide, SExt(w, wide, L)) = a /\ SignedOf(wide, SExt(w, wide, R)) = b
  BY <1>1, SExtIs
<1>3. /\ a \in Int /\ b \in Int /\ -H <= a /\ a < H /\ -H <= b /\ b < H
      /\ H \in Nat \ {0} /\ 2^w = 2 * H
  BY SignedRange, SignedIs DEF InRange
<1>4. n \in Int /\ InRange(wide, n)
  <2>1. n \in Int /\ -(2 * (H * H)) <= n /\ n < 2 * (H * H)
    <3> HIDE DEF a, b, H
    <3> QED
      BY <1>3, SignedProductBound
  <2>2. 2^(wide - 1) = 2 * (H * H)
    <3>1. wide - 1 = w + (w - 1) /\ w - 1 \in Nat
      BY DEF wide
    <3>2. 2^(w + (w - 1)) = 2^w * H
      BY <3>1, PowerSum
    <3> HIDE DEF H
    <3> QED
      BY <1>3, <3>1, <3>2
  <2> QED
    BY <2>1, <2>2 DEF InRange
<1> HIDE DEF a, b, n
<1>5. s \in SUBSET Positions(wide) /\ t \in SUBSET Positions(w)
  BY <1>1, <1>4, BitsOfIsValue
<1>6. Trunc(w, s) = t
  BY <1>1, BitsOfPart
<1>7. SExt(w, wide, t) = BitsOf(wide, m) /\ m \in Int /\ InRange(w, m)
  BY <1>1, <1>5, SExtIs, SignedRange
<1>8. InRange(wide, m)
  BY <1>1, <1>5, <1>7, SExtIs, SignedRange
<1>9. (s # SExt(w, wide, Trunc(w, s))) = ~InRange(w, n)
  <2>1. CASE InRange(w, n)
    <3>1. m = n
      BY <1>4, <2>1, SignedOfBits
    <3> QED
      BY <1>6, <1>7, <2>1, <3>1
  <2>2. CASE ~InRange(w, n)
    <3>1. s # BitsOf(wide, m)
      <4>1. SignedOf(wide, s) = n /\ SignedOf(wide, BitsOf(wide, m)) = m
        BY <1>1, <1>4, <1>7, <1>8, SignedOfBits
      <4> QED
        BY <1>7, <2>2, <4>1
    <3> QED
      BY <1>6, <1>7, <2>2, <3>1
  <2> QED
    BY <2>1, <2>2 DEF InRange
<1>10. Mul(wide, SExt(w, wide, L), SExt(w, wide, R)) = s
  BY <1>2 DEF Mul, n
<1> HIDE DEF s
<1>11. lift_imul(w, L, R, f)
          = Result(s, [f EXCEPT !.CF = s # SExt(w, wide, Trunc(w, s)), !.OF = s # SExt(w, wide, Trunc(w, s))])
  BY <1>10 DEF lift_imul, wide
<1> QED
  BY <1>9, <1>11 DEF SignedProduct, s, n, a, b, wide

\* The dividend is put together from two registers.
LEMMA DividendIs ==
    ASSUME NEW w \in Nat \ {0}, NEW high \in SUBSET Positions(w), NEW low \in SUBSET Positions(w)
    PROVE  /\ Dividend(w, high, low) = {i + w : i \in high} \union low
           /\ Dividend(w, high, low) \in SUBSET Positions(2 * w)
<1>1. {i + w : i \in high} \in SUBSET Positions(2 * w)
  BY DEF Positions
<1>2. low \in SUBSET Positions(2 * w)
  BY DEF Positions
<1> QED
  BY <1>1, <1>2 DEF Dividend, Shl

\* A whole division leaves what the quotient does not account for.
LEMMA WholeDivision ==
    ASSUME NEW n \in Nat, NEW m \in Nat \ {0}
    PROVE  n \div m \in Int /\ n % m = n - (n \div m) * m
<1>1. PICK q \in Nat, r \in 0 .. m - 1 : n = q * m + r
  BY QuotientAndRemainder
<1>2. n \div m = q /\ n % m = r
  BY <1>1, Division
<1>3. q * m \in Int
  OBVIOUS
<1> QED
  BY <1>1, <1>2, <1>3

\* div computes the quotient and the remainder of unsigned numbers.
LEMMA DivIsRight ==
    ASSUME NEW w \in Nat \ {0}, NEW high \in SUBSET Positions(w), NEW low \in SUBSET Positions(w),
           NEW divisor \in SUBSET Positions(w), NatOf(divisor) # 0
    PROVE  LET n == NatOf({i + w : i \in high} \union low)
               m == NatOf(divisor)
               q == Quotient(n, m)
           IN lift_div(w, high, low, divisor)
                = [quotient |-> BitsOf(w, q), remainder |-> BitsOf(w, n - q * m)]
<1> DEFINE n == NatOf(Dividend(w, high, low))
           m == NatOf(divisor)
           q == Quotient(n, m)
<1>1. n \in Nat
  <2>1. 2 * w \in Nat
    OBVIOUS
  <2>2. Dividend(w, high, low) \in SUBSET Positions(2 * w)
    BY DividendIs
  <2> DEFINE wide == 2 * w
  <2> HIDE DEF wide
  <2>3. n \in 0 .. 2^wide - 1 /\ n \in Int
    BY <2>1, <2>2, NatOfBound, ValueIsFinite DEF wide
  <2> QED
    BY <2>3
<1>2. m \in Nat \ {0}
  BY NatOfBound, ValueIsFinite, PowerStep
<1>3. lift_div(w, high, low, divisor) = [quotient |-> BitsOf(w, n \div m), remainder |-> BitsOf(w, n % m)]
  BY DEF lift_div
<1>4. Dividend(w, high, low) = {i + w : i \in high} \union low
  BY DividendIs
<1> HIDE DEF n, m
<1>5. q = n \div m
  <2>1. Magnitude(n) = n /\ Magnitude(m) = m
    BY <1>1, <1>2 DEF Magnitude
  <2>2. (n < 0) = FALSE /\ (m < 0) = FALSE
    BY <1>1, <1>2
  <2> QED
    BY <2>1, <2>2 DEF Quotient
<1>6. n % m = n - q * m
  BY <1>1, <1>2, <1>5, WholeDivision
<1> QED
  BY <1>3, <1>4, <1>5, <1>6 DEF n, m

\* idiv computes those of signed numbers.
THEOREM IdivIsRight ==
    ASSUME NEW w \in Nat \ {0}, NEW high \in SUBSET Positions(w), NEW low \in SUBSET Positions(w),
           NEW divisor \in SUBSET Positions(w), SignedOf(w, divisor) # 0
    PROVE  LET n == SignedOf(2 * w, {i + w : i \in high} \union low)
               m == SignedOf(w, divisor)
               q == Quotient(n, m)
           IN lift_idiv(w, high, low, divisor)
                = [quotient |-> BitsOf(w, q), remainder |-> BitsOf(w, n - q * m)]
<1> DEFINE wide == 2 * w
           n == SignedOf(wide, Dividend(w, high, low))
           m == SignedOf(w, divisor)
           q == Quotient(n, m)
<1>1. n \in Int
  <2>1. wide \in Nat \ {0}
    OBVIOUS
  <2>2. Dividend(w, high, low) \in SUBSET Positions(wide)
    BY DividendIs
  <2> HIDE DEF wide
  <2> QED
    BY <2>1, <2>2, SignedRange
<1>2. m \in Int /\ m # 0
  BY SignedRange
<1>3. lift_idiv(w, high, low, divisor)
        = [quotient |-> BitsOf(w, q), remainder |-> BitsOf(w, n - m * q)]
  BY DEF lift_idiv
<1>4. Dividend(w, high, low) = {i + w : i \in high} \union low
  BY DividendIs
<1> HIDE DEF n, m
<1>5. q \in Int
  <2>1. Magnitude(n) \in Nat /\ Magnitude(m) \in Nat \ {0}
    BY <1>1, <1>2 DEF Magnitude
  <2>2. Magnitude(n) \div Magnitude(m) \in Int
    BY <2>1, WholeDivision
  <2> QED
    BY <2>2 DEF Quotient
<1> HIDE DEF q
<1>6. m * q = q * m
  BY <1>2, <1>5
<1> QED
  BY <1>3, <1>4, <1>6 DEF n, m, q, wide

-----------------------------------------------------------------------------
(* Extension and addresses *)

\* An immediate is widened with its sign.
LEMMA AllBits ==
    ASSUME NEW w \in Nat
    PROVE  BitsOf(w, -1) = Positions(w) /\ BitsOf(w, 0) = {}
<1>1. BitsOf(w, 0) = {}
  <2>1. {} \in SUBSET Positions(w)
    OBVIOUS
  <2>2. BitsOf(w, NatOf({})) = {}
    BY <2>1, BitsOfNatOf
  <2> QED
    BY <2>2, NatOfEmpty
<1>2. BitsOf(w, -1) = Positions(w)
  <2> DEFINE v == Positions(w)
             q == -1
             n == -1
             P == 2^w
  <2>1. NatOf(v) = P - 1 /\ P \in Int
    BY AllOnes, PowerStep
  <2>2. n = q * P + NatOf(v) /\ q \in Int
    <3> HIDE DEF P, v
    <3> QED
      BY <2>1
  <2>3. v \in SUBSET Positions(w)
    OBVIOUS
  <2> HIDE DEF q, n, v
  <2>4. BitsOf(w, q * 2^w + NatOf(v)) = v
    BY <2>2, <2>3, BitsOfNumber
  <2> QED
    BY <2>2, <2>4 DEF v, n
<1> QED
  BY <1>1, <1>2

\* cwd, cdq and cqo: all bits are the sign.
LEMMA SignFill ==
    ASSUME NEW w \in Nat \ {0}, NEW v \in SUBSET Positions(w)
    PROVE  Pick(~computeSignFlag(w, v), {}, Positions(w))
               = BitsOf(w, IF SignedOf(w, v) < 0 THEN -1 ELSE 0)
<1>1. SignedOf(w, v) < 0 <=> w - 1 \in v
  BY SignedIs
<1> QED
  BY <1>1, AllBits DEF Pick, computeSignFlag

\* A widening with zeroes is the number at another width.
LEMMA ZeroWidened ==
    ASSUME NEW from \in Nat, NEW to \in Nat, from <= to, NEW v \in SUBSET Positions(from)
    PROVE  v = BitsOf(to, NatOf(v)) /\ v \in SUBSET Positions(to)
<1>1. v \in SUBSET Positions(to)
  BY DEF Positions
<1> QED
  BY <1>1, BitsOfNatOf

\* An index is one position of the operand.
LEMMA BitIndexIs ==
    ASSUME NEW w \in Nat \ {0}, NEW u \in Nat, NEW index \in SUBSET Positions(u)
    PROVE  NatOf(index) % w \in Positions(w)
<1>1. NatOf(index) \in Int
  BY ValueIsFinite
<1> DEFINE a == NatOf(index)
<1> HIDE DEF a
<1>2. a % w \in 0 .. w - 1
  BY <1>1 DEF a
<1> QED
  BY <1>2 DEF Positions, a

\* Congruent numbers have the same bits: two numbers that differ by whole turns.
Congruent(w, m, n) == \E q \in Int : m = n + q * 2^w

\* Numbers that differ by a multiple of 2^w have the same low bits.
LEMMA CongruentBits ==
    ASSUME NEW w \in Nat, NEW m \in Int, NEW n \in Int, Congruent(w, m, n)
    PROVE  BitsOf(w, m) = BitsOf(w, n)
  BY BitsOfSame DEF Congruent

\* The low w bits of a number differ from it by a multiple of 2^w.
LEMMA BitsCongruent ==
    ASSUME NEW w \in Nat, NEW n \in Int
    PROVE  NatOf(BitsOf(w, n)) \in Int /\ Congruent(w, NatOf(BitsOf(w, n)), n)
<1> DEFINE a == NatOf(BitsOf(w, n))
           P == 2^w
<1>1. PICK q \in Int : n = q * P + a
  BY NumberOfBits
<1>2. a \in Int /\ P \in Int
  <2>1. BitsOf(w, n) \in SUBSET Positions(w)
    BY BitsOfIsValue
  <2> QED
    BY <2>1, ValueIsFinite, PowerStep
<1> HIDE DEF a, P
<1>3. a = n + (-q) * P /\ -q \in Int
  BY <1>1, <1>2
<1> QED
  BY <1>2, <1>3 DEF Congruent, a, P

\* Addition keeps numbers congruent.
LEMMA CongruentSum ==
    ASSUME NEW w \in Nat, NEW m \in Int, NEW n \in Int, NEW k \in Int, Congruent(w, m, n)
    PROVE  Congruent(w, m + k, n + k) /\ Congruent(w, k + m, k + n)
<1> DEFINE P == 2^w
<1>1. P \in Int
  BY PowerStep
<1> HIDE DEF P
<1>2. PICK q \in Int : m = n + q * P
  BY DEF Congruent, P
<1>3. q * P \in Int
  BY <1>1
<1>4. m + k = (n + k) + q * P /\ k + m = (k + n) + q * P
  BY <1>2, <1>3
<1> QED
  BY <1>4 DEF Congruent, P

\* Multiplication keeps numbers congruent.
LEMMA CongruentMultiple ==
    ASSUME NEW w \in Nat, NEW m \in Int, NEW n \in Int, NEW k \in Int, Congruent(w, m, n)
    PROVE  Congruent(w, k * m, k * n)
<1> DEFINE P == 2^w
<1>1. P \in Int
  BY PowerStep
<1> HIDE DEF P
<1>2. PICK q \in Int : m = n + q * P
  BY DEF Congruent, P
<1>3. k * q \in Int
  OBVIOUS
<1>4. k * m = k * n + (k * q) * P
  <2>1. k * (n + q * P) = k * n + k * (q * P)
    BY <1>1
  <2>2. k * (q * P) = (k * q) * P
    BY <1>1
  <2> QED
    BY <1>2, <2>1, <2>2
<1> QED
  BY <1>3, <1>4 DEF Congruent, P

\* Congruence is transitive.
LEMMA CongruentTrans ==
    ASSUME NEW w \in Nat, NEW m \in Int, NEW n \in Int, NEW k \in Int,
           Congruent(w, m, n), Congruent(w, n, k)
    PROVE  Congruent(w, m, k)
<1> DEFINE P == 2^w
<1>1. P \in Int
  BY PowerStep
<1> HIDE DEF P
<1>2. PICK q \in Int : m = n + q * P
  BY DEF Congruent, P
<1>3. PICK r \in Int : n = k + r * P
  BY DEF Congruent, P
<1>4. m = k + (r + q) * P /\ r + q \in Int
  BY <1>1, <1>2, <1>3
<1> QED
  BY <1>4 DEF Congruent, P

\* A value as a signed and as an unsigned number are congruent.
LEMMA SignedCongruent ==
    ASSUME NEW w \in Nat \ {0}, NEW v \in SUBSET Positions(w)
    PROVE  /\ SignedOf(w, v) \in Int /\ NatOf(v) \in Int
           /\ Congruent(w, SignedOf(w, v), NatOf(v))
<1> DEFINE P == 2^w
           q == IF w - 1 \in v THEN -1 ELSE 0
           a == NatOf(v)
           m == SignedOf(w, v)
<1>1. P \in Int /\ a \in Int /\ m \in Int
  BY PowerStep, ValueIsFinite, SignedRange
<1>2. m = a - (IF w - 1 \in v THEN P ELSE 0)
  BY DEF SignedOf
<1> HIDE DEF P, a, m
<1>3. m = a + q * P /\ q \in Int
  BY <1>1, <1>2
<1> QED
  BY <1>1, <1>3 DEF Congruent, P, a, m

\* A scale fits the quad word.
LEMMA ScaleFits ==
    ASSUME NEW scale \in {1, 2, 4, 8}
    PROVE  InRange(QwordBits, scale)
<1> DEFINE k == QwordBits - 1
           H == 2^k
<1>1. k \in Nat /\ 8 <= k
  BY ByteAssumption DEF QwordBits
<1> HIDE DEF k
<1>2. k < H /\ H \in Int
  BY <1>1, BelowPower, PowerStep
<1> HIDE DEF H
<1>3. -H <= scale /\ scale < H
  BY <1>1, <1>2
<1> QED
  BY <1>3 DEF InRange, H, k

\* The sum of an address is taken modulo the quad word, once or after every step.
LEMMA AddressIsRight ==
    ASSUME NEW a \in SUBSET Positions(QwordBits), NEW b \in SUBSET Positions(QwordBits),
           NEW scale \in {1, 2, 4, 8}, NEW disp \in {0, -1}
    PROVE  Add(QwordBits, Add(QwordBits, a, Mul(QwordBits, b, BitsOf(QwordBits, scale))),
               BitsOf(QwordBits, disp))
               = BitsOf(QwordBits, NatOf(a) + scale * NatOf(b) + disp)
<1> DEFINE w  == QwordBits
           x  == NatOf(a)
           y  == NatOf(b)
           sy == SignedOf(w, b)
           m  == Mul(w, b, BitsOf(w, scale))
           s  == Add(w, a, m)
           d  == BitsOf(w, disp)
<1>0. w \in Nat \ {0} /\ scale \in Int /\ disp \in Int
  BY ByteAssumption DEF QwordBits
<1>00. InRange(w, scale)
  BY ScaleFits
<1> HIDE DEF w
<1>1. x \in Int /\ y \in Int /\ sy \in Int /\ Congruent(w, sy, y)
  BY <1>0, SignedCongruent DEF w
<1>2. SignedOf(w, BitsOf(w, scale)) = scale
  BY <1>0, <1>00, SignedOfBits
<1> HIDE DEF x, y, sy, d
<1>3. m = BitsOf(w, sy * scale)
  BY <1>2 DEF Mul, sy
<1>4. scale * y \in Int /\ sy * scale \in Int /\ sy * scale = scale * sy
  BY <1>0, <1>1
<1>5. Congruent(w, scale * sy, scale * y)
  BY <1>0, <1>1, CongruentMultiple
<1> DEFINE z == scale * y
           zs == sy * scale
           nm == NatOf(m)
           ns == NatOf(s)
           nd == NatOf(d)
<1>6. z \in Int /\ zs \in Int /\ Congruent(w, zs, z)
  BY <1>4, <1>5
<1>7. nm \in Int /\ Congruent(w, nm, zs)
  <2> HIDE DEF zs, m
  <2> QED
    BY <1>0, <1>3, <1>6, BitsCongruent DEF zs
<1> HIDE DEF z, zs, m, nm
<1>8. Congruent(w, nm, z)
  BY <1>0, <1>6, <1>7, CongruentTrans
<1>9. s = BitsOf(w, x + nm)
  BY DEF Add, x, nm
<1>10. Congruent(w, x + nm, x + z) /\ x + nm \in Int /\ x + z \in Int
  <2>1. x \in Int /\ nm \in Int /\ z \in Int /\ w \in Nat
    BY <1>0, <1>1, <1>6, <1>7
  <2>2. Congruent(w, x + nm, x + z)
    BY <2>1, <1>8, CongruentSum
  <2> QED
    BY <2>1, <2>2
<1> DEFINE u == x + nm
           v == x + z
<1>11. ns \in Int /\ Congruent(w, ns, u)
  <2> HIDE DEF u, s
  <2> QED
    BY <1>0, <1>9, <1>10, BitsCongruent DEF u
<1> HIDE DEF u, v, s, ns
<1>12. Congruent(w, ns, v) /\ v \in Int
  BY <1>0, <1>10, <1>11, CongruentTrans DEF u, v
<1>13. nd \in Int /\ Congruent(w, nd, disp)
  BY <1>0, BitsCongruent DEF d
<1> HIDE DEF nd
<1>14. Congruent(w, ns + nd, v + nd)
  BY <1>0, <1>11, <1>12, <1>13, CongruentSum
<1>15. Congruent(w, v + nd, v + disp)
  BY <1>0, <1>12, <1>13, CongruentSum
<1>16. Congruent(w, ns + nd, v + disp)
  <2>1. ns + nd \in Int /\ v + nd \in Int /\ v + disp \in Int
    BY <1>0, <1>11, <1>12, <1>13
  <2> QED
    BY <1>0, <1>14, <1>15, <2>1, CongruentTrans
<1>17. BitsOf(w, ns + nd) = BitsOf(w, v + disp)
  <2>1. ns + nd \in Int /\ v + disp \in Int
    BY <1>0, <1>11, <1>12, <1>13
  <2> QED
    BY <1>0, <1>16, <2>1, CongruentBits
<1>18. Add(w, s, d) = BitsOf(w, ns + nd)
  BY DEF Add, ns, nd
<1> QED
  BY <1>17, <1>18 DEF v, z, x, y, s, m, d, w

-----------------------------------------------------------------------------
(* Bits, masks and fields *)

\* The lowest and the highest place of a value that is not zero.
LEMMA LowestIs ==
    ASSUME NEW w \in Nat, NEW v \in SUBSET Positions(w), v # {}
    PROVE  LowestBit(v) \in v /\ \A j \in v : LowestBit(v) <= j
<1>1. v \in SUBSET Nat
  BY DEF Positions
<1>2. \E i \in v : \A j \in v : i <= j
  BY <1>1, LeastNumber
<1> QED
  BY <1>2 DEF LowestBit

\* The highest bit of a value that is not zero.
LEMMA HighestIs ==
    ASSUME NEW w \in Nat, NEW v \in SUBSET Positions(w), v # {}
    PROVE  HighestBit(v) \in v /\ \A j \in v : j <= HighestBit(v)
<1> DEFINE T == {k \in Nat : w - 1 - k \in v}
<1>1. v \in SUBSET (0 .. w - 1)
  BY DEF Positions
<1>2. T \in SUBSET Nat /\ T # {}
  <2>1. PICK i : i \in v
    OBVIOUS
  <2>2. i \in 0 .. w - 1
    BY <1>1, <2>1
  <2>3. w - 1 - i \in Nat /\ w - 1 - (w - 1 - i) = i
    BY <2>2
  <2>4. w - 1 - i \in T
    BY <2>1, <2>3
  <2> QED
    BY <2>4
<1>3. PICK m \in T : \A k \in T : m <= k
  <2> HIDE DEF T
  <2> QED
    BY <1>2, LeastNumber
<1>4. \A j \in v : j <= w - 1 - m
  <2> SUFFICES ASSUME NEW j \in v PROVE j <= w - 1 - m
    OBVIOUS
  <2>1. j \in 0 .. w - 1
    BY <1>1
  <2>2. w - 1 - j \in Nat /\ w - 1 - (w - 1 - j) = j
    BY <2>1
  <2>3. w - 1 - j \in T
    BY <2>2
  <2>4. m \in Nat /\ m <= w - 1 - j
    BY <1>3, <2>3
  <2> QED
    BY <2>1, <2>4
<1>5. \E i \in v : \A j \in v : j <= i
  BY <1>3, <1>4
<1> QED
  BY <1>5 DEF HighestBit

\* The loop of bsr goes down from the top and keeps the first place it finds.
LEMMA TopBitIs ==
    ASSUME NEW w \in Nat \ {0}, NEW R \in SUBSET Positions(w), R # {}
    PROVE  TopBit(w, R) = BitsOf(w, HighestBit(R))
<1> DEFINE unset == NatOf(Positions(w))
           top == HighestBit(R)
           Loop(h) == [i \in 0 .. w |->
                          IF i = 0 THEN unset
                          ELSE IF h[i - 1] # unset THEN h[i - 1]
                          ELSE IF w - i \in R THEN w - i ELSE unset]
           found == CHOOSE h : h = Loop(h)
           known == [i \in 0 .. w |-> IF w - i <= top THEN top ELSE unset]
           T == {i \in 0 .. w : found[i] # known[i]}
<1>1. TopBit(w, R) = BitsOf(w, found[w])
  BY DEF TopBit
<1>2. /\ top \in R /\ top \in 0 .. w - 1
      /\ \A j \in R : j <= top
  BY HighestIs DEF Positions
<1>3. unset # top /\ unset \in Int
  <2>1. unset = 2^w - 1 /\ w < 2^w /\ 2^w \in Int
    BY AllOnes, BelowPower, PowerStep
  <2> HIDE DEF unset, top
  <2> QED
    BY <1>2, <2>1
<1> HIDE DEF unset, top
<1>4. known = Loop(known)
  <2>1. ASSUME NEW i \in 0 .. w
        PROVE  known[i] = IF i = 0 THEN unset
                          ELSE IF known[i - 1] # unset THEN known[i - 1]
                          ELSE IF w - i \in R THEN w - i ELSE unset
    <3>1. CASE i = 0
      BY <1>2, <3>1
    <3>2. CASE i # 0
      <4>1. i - 1 \in 0 .. w
        BY <3>2
      <4>2. known[i - 1] = IF w - (i - 1) <= top THEN top ELSE unset
        BY <4>1
      <4>3. CASE w - (i - 1) <= top
        BY <1>2, <1>3, <3>2, <4>2, <4>3
      <4>4. CASE ~(w - (i - 1) <= top)
        <5>1. w - i \in R <=> w - i = top
          <6>1. w - i \in Int /\ w - i >= top
            BY <1>2, <4>4
          <6> QED
            BY <1>2, <6>1 DEF Positions
        <5> QED
          BY <1>2, <1>3, <3>2, <4>2, <4>4, <5>1
      <4> QED
        BY <4>3, <4>4
    <3> QED
      BY <3>1, <3>2
  <2> QED
    BY <2>1
<1>5. found = Loop(found)
  <2> HIDE DEF Loop, known
  <2> QED
    BY <1>4
<1>6. T = {}
  <2>1. ASSUME NEW i \in T PROVE i # 0 /\ i - 1 \in T
    <3>1. i \in 0 .. w /\ found[i] # known[i]
      OBVIOUS
    <3>2. found[i] = IF i = 0 THEN unset
                     ELSE IF found[i - 1] # unset THEN found[i - 1]
                     ELSE IF w - i \in R THEN w - i ELSE unset
      <4> HIDE DEF found
      <4> QED
        BY <1>5, <3>1
    <3>3. known[i] = IF i = 0 THEN unset
                     ELSE IF known[i - 1] # unset THEN known[i - 1]
                     ELSE IF w - i \in R THEN w - i ELSE unset
      <4> HIDE DEF known
      <4> QED
        BY <1>4, <3>1
    <3> HIDE DEF found, known
    <3>4. i # 0 /\ found[i - 1] # known[i - 1]
      BY <3>1, <3>2, <3>3
    <3>5. i - 1 \in 0 .. w
      BY <3>1, <3>4
    <3> QED
      BY <3>4, <3>5
  <2>2. T \in SUBSET Nat
    OBVIOUS
  <2> HIDE DEF T
  <2> QED
    BY <2>1, <2>2, NoneFails
<1>7. known[w] = top
  BY <1>2
<1> HIDE DEF found, known
<1>8. found[w] = top
  BY <1>6, <1>7
<1> QED
  BY <1>1, <1>8 DEF top

\* The number of bits of a value fits its width, and is zero for no bits alone.
LEMMA PopulationIs ==
    ASSUME NEW w \in Nat \ {0}, NEW R \in SUBSET Positions(w)
    PROVE  computeZeroFlag(BitsOf(w, Cardinality(R))) = (R = {})
<1> DEFINE c == Cardinality(R)
           v == BitsOf(w, c)
<1>1. IsFiniteSet(Positions(w)) /\ Cardinality(Positions(w)) = w
  <2>1. IsFiniteSet(Positions(w))
    BY FS_Interval DEF Positions
  <2>2. Cardinality(Positions(w)) = IF 0 > w - 1 THEN 0 ELSE (w - 1) - 0 + 1
    BY FS_Interval DEF Positions
  <2> QED
    BY <2>1, <2>2
<1>2. c \in Nat /\ c <= w /\ (c = 0 <=> R = {})
  BY <1>1, FS_Subset, FS_CardinalityType, FS_EmptySet
<1>3. w < 2^w /\ 2^w \in Int
  BY BelowPower, PowerStep
<1> HIDE DEF c
<1>4. -(2^w) <= c /\ c < 2 * 2^w /\ c < 2^w /\ c >= 0 /\ c \in Int
  BY <1>2, <1>3
<1>5. NatOf(v) = IF c < 0 THEN c + 2^w ELSE IF c >= 2^w THEN c - 2^w ELSE c
  BY <1>4, OneTurn
<1>6. v \in SUBSET Positions(w)
  BY <1>4, BitsOfIsValue
<1> HIDE DEF v
<1>7. NatOf(v) = c
  BY <1>4, <1>5
<1>8. NatOf(v) = 0 <=> v = {}
  BY <1>6, ZeroNumber
<1> QED
  BY <1>2, <1>7, <1>8 DEF computeZeroFlag, v, c

\* The rank of a place grows by one at every bit of the mask.
LEMMA RankStep ==
    ASSUME NEW w \in Nat, NEW mask \in SUBSET Positions(w), NEW k \in Nat
    PROVE  /\ RankIn(mask, k) \in Nat
           /\ RankIn(mask, k + 1) = RankIn(mask, k) + (IF k \in mask THEN 1 ELSE 0)
<1> DEFINE S == {j \in mask : j < k}
           U == {j \in mask : j < k + 1}
<1>1. IsFiniteSet(mask) /\ mask \in SUBSET Nat
  BY ValueIsFinite
<1>2. IsFiniteSet(S) /\ k \notin S
  <2>1. S \in SUBSET mask
    OBVIOUS
  <2>2. k \notin S
    OBVIOUS
  <2> HIDE DEF S
  <2> QED
    BY <1>1, <2>1, <2>2, FS_Subset
<1>3. Cardinality(S) \in Nat
  BY <1>2, FS_CardinalityType
<1>4. U = IF k \in mask THEN S \union {k} ELSE S
  <2>1. \A j \in mask : j < k + 1 <=> j < k \/ j = k
    <3>1. \A j \in mask : j \in Int
      BY <1>1
    <3> QED
      BY <3>1
  <2> QED
    BY <2>1
<1>5. Cardinality(S \union {k}) = Cardinality(S) + 1
  BY <1>2, FS_AddElement
<1> HIDE DEF S, U
<1>6. Cardinality(U) = Cardinality(S) + (IF k \in mask THEN 1 ELSE 0)
  BY <1>3, <1>4, <1>5
<1> QED
  BY <1>3, <1>6 DEF RankIn, S, U

\* No position of a mask is below the first.
LEMMA RankOfFirst ==
    ASSUME NEW w \in Nat, NEW mask \in SUBSET Positions(w)
    PROVE  RankIn(mask, 0) = 0
<1>1. {j \in mask : j < 0} = {}
  <2>1. \A j \in mask : ~(j < 0)
    BY DEF Positions
  <2> QED
    BY <2>1
<1> QED
  BY <1>1, FS_EmptySet DEF RankIn

\* A position has at most as many places of the mask below it as positions.
LEMMA RankBound ==
    ASSUME NEW w \in Nat, NEW mask \in SUBSET Positions(w), NEW n \in Nat
    PROVE  RankIn(mask, n) <= n
<1> DEFINE T == {k \in Nat : ~(RankIn(mask, k) <= k)}
<1>1. ASSUME NEW k \in T PROVE k # 0 /\ k - 1 \in T
  <2>1. k # 0
    BY RankOfFirst
  <2> DEFINE m == k - 1
  <2>2. m \in Nat /\ m + 1 = k
    BY <2>1
  <2> HIDE DEF m
  <2>3. RankIn(mask, m) \in Nat /\ RankIn(mask, m + 1) <= RankIn(mask, m) + 1
    BY <2>2, RankStep
  <2>4. RankIn(mask, m + 1) \in Nat /\ ~(RankIn(mask, m + 1) <= m + 1)
    <3>1. RankIn(mask, k) \in Nat
      BY RankStep
    <3> QED
      BY <2>2, <3>1
  <2>5. m \in T
    BY <2>2, <2>3, <2>4
  <2> QED
    BY <2>1, <2>5 DEF m
<1>2. T \in SUBSET Nat
  OBVIOUS
<1> HIDE DEF T
<1>3. T = {}
  BY <1>1, <1>2, NoneFails
<1> QED
  BY <1>3 DEF T

\* The loop of alternative_pext packs the bits under the mask in the order of their ranks.
LEMMA ExtractIs ==
    ASSUME NEW w \in Nat \ {0}, NEW source \in SUBSET Positions(w),
           NEW mask \in SUBSET Positions(w)
    PROVE  /\ lift_pext(w, source, mask) = CpuExtract(source, mask)
           /\ CpuExtract(source, mask) \in SUBSET Positions(w)
<1> DEFINE Start == [result |-> {}, bit_position |-> 0]
           Step(i, s) == IF i - 1 \notin mask THEN s
                         ELSE [result |-> IF i - 1 \in source
                                          THEN s.result \union {s.bit_position} ELSE s.result,
                               bit_position |-> s.bit_position + 1]
           Loop(h) == [i \in 0 .. w |-> IF i = 0 THEN Start ELSE Step(i, h[i - 1])]
           after == CHOOSE h : h = Loop(h)
           Packed(i) == {RankIn(mask, x) : x \in {y \in source \intersect mask : y < i}}
           known == [i \in 0 .. w |-> [result |-> Packed(i), bit_position |-> RankIn(mask, i)]]
           T == {i \in 0 .. w : after[i] # known[i]}
<1>0. \A y \in mask : y \in Int /\ y >= 0 /\ y < w
  <2>1. mask \in SUBSET (0 .. w - 1)
    BY DEF Positions
  <2> QED
    BY <2>1
<1>1. lift_pext(w, source, mask) = after[w].result
  BY DEF lift_pext
<1>2. known[0] = Start
  <2>1. {y \in source \intersect mask : y < 0} = {}
    <3>1. \A y \in mask : ~(y < 0)
      BY <1>0
    <3> QED
      BY <3>1
  <2>2. Packed(0) = {}
    BY <2>1
  <2> QED
    BY <2>2, RankOfFirst
<1>3. ASSUME NEW i \in 1 .. w
      PROVE  known[i] = Step(i, known[i - 1])
  <2> DEFINE m == i - 1
  <2>1. m \in Nat /\ m \in 0 .. w - 1 /\ m + 1 = i /\ m \in 0 .. w
    OBVIOUS
  <2>2. known[m] = [result |-> Packed(m), bit_position |-> RankIn(mask, m)]
    BY <2>1
  <2>3. RankIn(mask, m + 1) = RankIn(mask, m) + (IF m \in mask THEN 1 ELSE 0) /\ RankIn(mask, m) \in Nat
    BY <2>1, RankStep
  <2>4. {y \in source \intersect mask : y < i}
            = {y \in source \intersect mask : y < m}
                \union (IF m \in mask /\ m \in source THEN {m} ELSE {})
    <3> HIDE DEF m
    <3>1. \A y \in mask : y < i <=> y < m \/ y = m
      BY <1>0, <2>1
    <3>2. ~(m < m) /\ m < i
      BY <2>1
    <3> QED
      BY <3>1, <3>2
  <2>5. Packed(i) = Packed(m) \union (IF m \in mask /\ m \in source THEN {RankIn(mask, m)} ELSE {})
    BY <2>4
  <2> HIDE DEF Packed
  <2>6. known[i] = [result |-> Packed(i), bit_position |-> RankIn(mask, i)]
    OBVIOUS
  <2> HIDE DEF known, m
  <2>7. CASE m \notin mask
    <3>1. Step(i, known[m]) = known[m]
      BY <2>7 DEF m
    <3> QED
      BY <2>1, <2>2, <2>3, <2>5, <2>6, <2>7, <3>1 DEF m
  <2>8. CASE m \in mask
    <3>1. Step(i, known[m]) = [result |-> IF m \in source THEN Packed(m) \union {RankIn(mask, m)}
                                          ELSE Packed(m),
                               bit_position |-> RankIn(mask, m) + 1]
      BY <2>2, <2>8 DEF m
    <3>2. RankIn(mask, i) = RankIn(mask, m) + 1
      BY <2>1, <2>3, <2>8
    <3>3. Packed(i) = IF m \in source THEN Packed(m) \union {RankIn(mask, m)} ELSE Packed(m)
      BY <2>5, <2>8
    <3> HIDE DEF Step
    <3>4. known[i] = Step(i, known[m])
      BY <2>6, <3>1, <3>2, <3>3
    <3> QED
      BY <3>4 DEF m
  <2> QED
    BY <2>7, <2>8
<1>4. known = Loop(known)
  <2> HIDE DEF Start, Step
  <2>1. \A i \in 0 .. w : known[i] = IF i = 0 THEN Start ELSE Step(i, known[i - 1])
    <3> SUFFICES ASSUME NEW i \in 0 .. w
                 PROVE  known[i] = IF i = 0 THEN Start ELSE Step(i, known[i - 1])
      OBVIOUS
    <3>1. i = 0 \/ i \in 1 .. w
      OBVIOUS
    <3> HIDE DEF known
    <3> QED
      BY <1>2, <1>3, <3>1
  <2> QED
    BY <2>1
<1>5. after = Loop(after)
  <2> HIDE DEF Loop, known
  <2> QED
    BY <1>4
<1>6. T = {}
  <2>1. ASSUME NEW i \in T PROVE i # 0 /\ i - 1 \in T
    <3>1. i \in 0 .. w /\ after[i] # known[i]
      OBVIOUS
    <3> HIDE DEF Start, Step
    <3>2. after[i] = IF i = 0 THEN Start ELSE Step(i, after[i - 1])
      <4> HIDE DEF after
      <4> QED
        BY <1>5, <3>1
    <3>3. known[i] = IF i = 0 THEN Start ELSE Step(i, known[i - 1])
      <4> HIDE DEF known
      <4> QED
        BY <1>4, <3>1
    <3> HIDE DEF after, known
    <3>4. i # 0 /\ after[i - 1] # known[i - 1]
      BY <3>1, <3>2, <3>3
    <3>5. i - 1 \in 0 .. w
      BY <3>1, <3>4
    <3> QED
      BY <3>4, <3>5
  <2>2. T \in SUBSET Nat
    OBVIOUS
  <2> HIDE DEF T
  <2> QED
    BY <2>1, <2>2, NoneFails
<1>7. after[w].result = Packed(w)
  <2>1. known[w].result = Packed(w)
    OBVIOUS
  <2> HIDE DEF after, known, Packed
  <2> QED
    BY <1>6, <2>1
<1>8. {y \in source \intersect mask : y < w} = source \intersect mask
  BY <1>0
<1>9. CpuExtract(source, mask) \in SUBSET Positions(w)
  <2>1. \A i \in mask : RankIn(mask, i) \in Positions(w)
    <3> SUFFICES ASSUME NEW i \in mask PROVE RankIn(mask, i) \in Positions(w)
      OBVIOUS
    <3>1. i \in Nat /\ i < w
      BY DEF Positions
    <3>2. RankIn(mask, i) \in Nat /\ RankIn(mask, i) <= i
      BY <3>1, RankStep, RankBound
    <3> QED
      BY <3>1, <3>2 DEF Positions
  <2> QED
    BY <2>1 DEF CpuExtract
<1> QED
  BY <1>1, <1>7, <1>8, <1>9 DEF CpuExtract

\* The loop of lift_pdep takes the bits of the source in order.
THEOREM DepositIs ==
    ASSUME NEW w \in Nat \ {0}, NEW src \in SUBSET Positions(w), NEW mask \in SUBSET Positions(w)
    PROVE  /\ lift_pdep(w, src, mask) = CpuDeposit(src, mask)
           /\ CpuDeposit(src, mask) \in SUBSET Positions(w)
<1> DEFINE Start == [result |-> {}, srcPos |-> 0]
           Step(i, s) ==
                LET srcBit == LShr(src, s.srcPos) \intersect {0}
                    isMaskBitSet == i - 1 \in mask
                IN [result |-> s.result
                        \union (IF isMaskBitSet THEN Shl(w, srcBit, i - 1) ELSE {}),
                    srcPos |-> s.srcPos + Pick(isMaskBitSet, 1, 0)]
           Loop(h) == [i \in 0 .. w |-> IF i = 0 THEN Start ELSE Step(i, h[i - 1])]
           after == CHOOSE h : h = Loop(h)
           Placed(i) == {x \in mask : x < i /\ RankIn(mask, x) \in src}
           known == [i \in 0 .. w |-> [result |-> Placed(i), srcPos |-> RankIn(mask, i)]]
           T == {i \in 0 .. w : after[i] # known[i]}
<1>0. \A y \in mask : y \in Int /\ y >= 0 /\ y < w
  <2>1. mask \in SUBSET (0 .. w - 1)
    BY DEF Positions
  <2> QED
    BY <2>1
<1>1. lift_pdep(w, src, mask) = after[w].result
  BY DEF lift_pdep
<1>2. known[0] = Start
  <2>1. Placed(0) = {}
    <3>1. \A y \in mask : ~(y < 0)
      BY <1>0
    <3> QED
      BY <3>1
  <2> QED
    BY <2>1, RankOfFirst
<1>3. ASSUME NEW i \in 1 .. w
      PROVE  known[i] = Step(i, known[i - 1])
  <2> DEFINE m == i - 1
             r == RankIn(mask, m)
             bit == LShr(src, r) \intersect {0}
  <2>1. m \in Nat /\ m \in 0 .. w - 1 /\ m + 1 = i /\ m \in 0 .. w
    OBVIOUS
  <2>2. known[m] = [result |-> Placed(m), srcPos |-> r]
    BY <2>1
  <2>3. RankIn(mask, m + 1) = r + (IF m \in mask THEN 1 ELSE 0) /\ r \in Nat
    BY <2>1, RankStep
  <2>4. bit = IF r \in src THEN {0} ELSE {}
    BY <2>3 DEF LShr, Positions
  <2>5. Shl(w, bit, m) = IF r \in src THEN {m} ELSE {}
    BY <2>1, <2>4 DEF Shl, Positions
  <2>6. Placed(i) = Placed(m) \union (IF m \in mask /\ r \in src THEN {m} ELSE {})
    <3> HIDE DEF m
    <3>1. \A y \in mask : y < i <=> y < m \/ y = m
      BY <1>0, <2>1
    <3>2. ~(m < m) /\ m < i
      BY <2>1
    <3> QED
      BY <3>1, <3>2
  <2>7. known[i] = [result |-> Placed(i), srcPos |-> RankIn(mask, i)]
    OBVIOUS
  <2> HIDE DEF Placed, known, r
  <2>8. Step(i, known[m]) = [result |-> Placed(m) \union (IF m \in mask THEN Shl(w, bit, m) ELSE {}),
                             srcPos |-> r + (IF m \in mask THEN 1 ELSE 0)]
    BY <2>2 DEF Pick
  <2> HIDE DEF Step, bit, m
  <2>9. Placed(i) = Placed(m) \union (IF m \in mask THEN Shl(w, bit, m) ELSE {})
    BY <2>5, <2>6
  <2>10. known[i] = Step(i, known[m])
    BY <2>1, <2>3, <2>7, <2>8, <2>9
  <2> QED
    BY <2>10 DEF m
<1>4. known = Loop(known)
  <2> HIDE DEF Start, Step
  <2>1. \A i \in 0 .. w : known[i] = IF i = 0 THEN Start ELSE Step(i, known[i - 1])
    <3> SUFFICES ASSUME NEW i \in 0 .. w
                 PROVE  known[i] = IF i = 0 THEN Start ELSE Step(i, known[i - 1])
      OBVIOUS
    <3>1. i = 0 \/ i \in 1 .. w
      OBVIOUS
    <3> HIDE DEF known
    <3> QED
      BY <1>2, <1>3, <3>1
  <2> QED
    BY <2>1
<1>5. after = Loop(after)
  <2> HIDE DEF Loop, known
  <2> QED
    BY <1>4
<1>6. T = {}
  <2>1. ASSUME NEW i \in T PROVE i # 0 /\ i - 1 \in T
    <3>1. i \in 0 .. w /\ after[i] # known[i]
      OBVIOUS
    <3> HIDE DEF Start, Step
    <3>2. after[i] = IF i = 0 THEN Start ELSE Step(i, after[i - 1])
      <4> HIDE DEF after
      <4> QED
        BY <1>5, <3>1
    <3>3. known[i] = IF i = 0 THEN Start ELSE Step(i, known[i - 1])
      <4> HIDE DEF known
      <4> QED
        BY <1>4, <3>1
    <3> HIDE DEF after, known
    <3>4. i # 0 /\ after[i - 1] # known[i - 1]
      BY <3>1, <3>2, <3>3
    <3>5. i - 1 \in 0 .. w
      BY <3>1, <3>4
    <3> QED
      BY <3>4, <3>5
  <2>2. T \in SUBSET Nat
    OBVIOUS
  <2> HIDE DEF T
  <2> QED
    BY <2>1, <2>2, NoneFails
<1>7. after[w].result = Placed(w)
  <2>1. known[w].result = Placed(w)
    OBVIOUS
  <2> HIDE DEF after, known, Placed
  <2> QED
    BY <1>6, <2>1
<1>8. Placed(w) = CpuDeposit(src, mask)
  BY <1>0 DEF CpuDeposit
<1>9. CpuDeposit(src, mask) \in SUBSET Positions(w)
  BY DEF CpuDeposit
<1> QED
  BY <1>1, <1>7, <1>8, <1>9

\* One less than a value: its lowest bit goes and all bits below it come.
LEMMA PlaceIsNumber ==
    ASSUME NEW w \in Nat, NEW v \in SUBSET Positions(w)
    PROVE  \A i \in v : i \in Int /\ i \in Nat /\ 0 <= i /\ i < w
<1>1. v \in SUBSET (0 .. w - 1)
  BY DEF Positions
<1> QED
  BY <1>1

\* Subtracting 1 clears the lowest bit and sets the ones below it.
LEMMA OneLess ==
    ASSUME NEW w \in Nat \ {0}, NEW L \in SUBSET Positions(w), L # {}
    PROVE  LET m == LowestBit(L)
               u == (L \ {m}) \union {i \in Positions(w) : i < m}
           IN /\ u \in SUBSET Positions(w)
              /\ NatOf(u) = NatOf(L) - 1
              /\ Sub(w, L, {0}) = u
<1> DEFINE m == LowestBit(L)
           t == L \ {m}
           b == {i \in Positions(w) : i < m}
           u == t \union b
<1>1. m \in L /\ \A j \in L : m <= j
  BY LowestIs
<1>2. m \in Nat /\ m < w
  BY <1>1, PlaceIsNumber
<1> HIDE DEF m
<1>3. b = Positions(m)
  BY <1>2 DEF Positions
<1>4. NatOf(b) = 2^m - 1 /\ 2^m \in Int
  <2>1. NatOf(Positions(m)) = 2^m - 1 /\ 2^m \in Nat \ {0}
    BY <1>2, AllOnes, PowerStep
  <2> QED
    BY <1>3, <2>1
<1>5. t \in SUBSET Positions(w) /\ b \in SUBSET Positions(w)
  OBVIOUS
<1>6. t \intersect b = {}
  <2>1. \A j \in t : ~(j < m)
    <3>1. \A j \in t : j \in Int /\ m <= j
      BY <1>1 DEF Positions
    <3> QED
      BY <1>2, <3>1
  <2> QED
    BY <2>1
<1>7. /\ t \in SUBSET Nat /\ IsFiniteSet(t) /\ NatOf(t) \in Int
      /\ b \in SUBSET Nat /\ IsFiniteSet(b) /\ NatOf(b) \in Int
  BY <1>5, ValueIsFinite
<1>8. NatOf(L) = NatOf(t) + 2^m
  <2>1. L = t \union {m} /\ m \notin t
    BY <1>1
  <2> HIDE DEF t
  <2>2. NatOf(t \union {m}) = NatOf(t) + 2^m
    BY <1>2, <1>7, <2>1, NatOfAdd
  <2> QED
    BY <2>1, <2>2
<1> HIDE DEF t, b
<1>9. NatOf(t \union b) = NatOf(t) + NatOf(b)
  BY <1>6, <1>7, NatOfDisjoint
<1>10. NatOf(u) = NatOf(L) - 1
  BY <1>4, <1>7, <1>8, <1>9
<1>11. u \in SUBSET Positions(w)
  BY <1>5
<1> HIDE DEF u
<1>12. Sub(w, L, {0}) = u
  <2>1. NatOf({0}) = 1
    BY OneBit
  <2>2. BitsOf(w, NatOf(u)) = u
    BY <1>11, BitsOfNatOf
  <2> QED
    BY <1>10, <2>1, <2>2 DEF Sub
<1> QED
  BY <1>10, <1>11, <1>12 DEF u, t, b, m

\* blsi: the value and its negation have the lowest bit in common.
LEMMA BlsiIs ==
    ASSUME NEW w \in Nat \ {0}, NEW L \in SUBSET Positions(w)
    PROVE  Sub(w, {}, L) \intersect L = IF L = {} THEN {} ELSE {LowestBit(L)}
<1>1. CASE L = {}
  BY <1>1
<1>2. CASE L # {}
  <2> DEFINE m == LowestBit(L)
             b == {i \in Positions(w) : i < m}
             u == (L \ {m}) \union b
  <2>1. u \in SUBSET Positions(w) /\ NatOf(u) = NatOf(L) - 1
    BY <1>2, OneLess
  <2>2. m \in L /\ \A j \in L : m <= j
    BY <1>2, LowestIs
  <2>3. Sub(w, {}, L) = Not(w, u)
    <3>1. lift_not(w, u, flags) = Result(BitsOf(w, -1 - NatOf(u)), flags)
      BY <2>1, NotIsRight
    <3>2. Xor(u, Positions(w)) = Not(w, u)
      BY <2>1 DEF Xor, Not
    <3>3. Not(w, u) = BitsOf(w, -1 - NatOf(u))
      BY <3>1, <3>2 DEF lift_not, Result
    <3>4. NatOf(L) \in Int /\ NatOf({}) = 0
      BY ValueIsFinite, NatOfEmpty
    <3>5. -1 - NatOf(u) = NatOf({}) - NatOf(L)
      BY <2>1, <3>4
    <3> QED
      BY <3>3, <3>5 DEF Sub
  <2>4. m \notin u
    <3>1. m \in Int
      BY <2>2, PlaceIsNumber
    <3> QED
      BY <3>1
  <2> HIDE DEF m
  <2>5. L \ {m} \subseteq u
    OBVIOUS
  <2> HIDE DEF u
  <2>6. Not(w, u) \intersect L = {m}
    BY <2>2, <2>4, <2>5 DEF Not
  <2> QED
    BY <1>2, <2>3, <2>6 DEF m
<1> QED
  BY <1>1, <1>2

\* blsr: one less keeps all the bits but the lowest.
LEMMA BlsrIs ==
    ASSUME NEW w \in Nat \ {0}, NEW L \in SUBSET Positions(w)
    PROVE  Sub(w, L, {0}) \intersect L = L \ (IF L = {} THEN {} ELSE {LowestBit(L)})
<1>1. CASE L = {}
  BY <1>1
<1>2. CASE L # {}
  <2> DEFINE m == LowestBit(L)
             b == {i \in Positions(w) : i < m}
  <2>1. Sub(w, L, {0}) = (L \ {m}) \union b
    BY <1>2, OneLess
  <2>2. m \in L /\ \A j \in L : m <= j /\ j \in Int
    BY <1>2, LowestIs, PlaceIsNumber
  <2> HIDE DEF m
  <2>3. \A j \in L : j \notin b
    BY <2>2
  <2> HIDE DEF b
  <2> QED
    BY <1>2, <2>1, <2>3 DEF m
<1> QED
  BY <1>1, <1>2

\* blsmsk: one less differs from the value up to its lowest bit.
LEMMA BlsmskIs ==
    ASSUME NEW w \in Nat \ {0}, NEW L \in SUBSET Positions(w)
    PROVE  LET lowest == IF L = {} THEN {} ELSE {LowestBit(L)}
           IN /\ Xor(Sub(w, L, {0}), L) = {i \in Positions(w) : \A j \in lowest : i <= j}
              /\ 0 \in Xor(Sub(w, L, {0}), L)
<1>0. 0 \in Positions(w)
  BY DEF Positions
<1>1. CASE L = {}
  <2>1. Sub(w, L, {0}) = BitsOf(w, -1)
    BY <1>1, OneBit, NatOfEmpty DEF Sub
  <2>2. Sub(w, L, {0}) = Positions(w)
    BY <2>1, AllBits
  <2> QED
    BY <1>0, <1>1, <2>2 DEF Xor
<1>2. CASE L # {}
  <2> DEFINE m == LowestBit(L)
             b == {i \in Positions(w) : i < m}
  <2>1. Sub(w, L, {0}) = (L \ {m}) \union b
    BY <1>2, OneLess
  <2>2. m \in L /\ m \in Positions(w) /\ \A j \in L : m <= j /\ j \in Int
    BY <1>2, LowestIs, PlaceIsNumber
  <2> HIDE DEF m
  <2>3. \A j \in L : j \notin b
    BY <2>2
  <2>4. Xor((L \ {m}) \union b, L) = b \union {m}
    BY <2>2, <2>3 DEF Xor
  <2>5. b \union {m} = {i \in Positions(w) : i <= m}
    BY <2>2 DEF Positions
  <2>6. 0 <= m
    BY <2>2 DEF Positions
  <2>7. {i \in Positions(w) : \A j \in {m} : i <= j} = {i \in Positions(w) : i <= m}
    OBVIOUS
  <2> QED
    BY <1>0, <1>2, <2>1, <2>4, <2>5, <2>6, <2>7 DEF m
<1> QED
  BY <1>1, <1>2

\* Byte i of a value goes to the place of byte k - 1 - i, of k bytes in all.
LEMMA SwapIs ==
    ASSUME NEW k \in Nat \ {0}, NEW w, w = k * ByteBits, NEW L \in SUBSET Positions(w),
           w # 2 * ByteBits
    PROVE  lift_bswap(w, L) = CpuSwapBytes(w, L)
<1> DEFINE B == ByteBits
           byte(i) == LShr(L \intersect (i * B .. (i + 1) * B - 1), i * B)
           moved(i) == Shl(w, byte(i), w - (i + 1) * B)
           from(p) == (k - 1 - (p \div B)) * B + (p % B)
<1>1. B \in Nat \ {0} /\ w \in Nat
  BY ByteAssumption
<1>2. w \div B = k
  <2>1. w = k * B + 0 /\ 0 \in 0 .. B - 1 /\ k \in Int
    BY <1>1
  <2> HIDE DEF B
  <2> QED
    BY <1>1, <2>1, Division
<1>3. lift_bswap(w, L) = UNION {moved(i) : i \in 0 .. k - 1}
  BY <1>2 DEF lift_bswap
<1>4. CpuSwapBytes(w, L) = {p \in Positions(w) : from(p) \in L}
  BY <1>2 DEF CpuSwapBytes
<1> HIDE DEF B
<1>5. ASSUME NEW i \in 0 .. k - 1, NEW p \in Int
      PROVE  p \in moved(i) <=>
                /\ p \in Positions(w)
                /\ p - (w - (i + 1) * B) >= 0
                /\ p - (w - (i + 1) * B) + i * B \in L
                /\ p - (w - (i + 1) * B) + i * B <= (i + 1) * B - 1
  <2> DEFINE m == w - (i + 1) * B
             a == i * B
             z == (i + 1) * B
             S == L \intersect (a .. z - 1)
             x == p - m
  <2>1. m \in Int /\ a \in Int /\ z \in Int /\ a >= 0
    BY <1>1
  <2>2. S \in SUBSET Int /\ byte(i) \in SUBSET Int
    BY <2>1 DEF Positions, LShr
  <2>3. x \in Int
    BY <2>1
  <2>4. byte(i) = LShr(S, a)
    OBVIOUS
  <2>5. moved(i) = Shl(w, byte(i), m)
    OBVIOUS
  <2> HIDE DEF m, a, z, x, byte, moved
  <2>6. p \in moved(i) <=> p \in Positions(w) /\ x \in byte(i)
    BY <1>1, <2>1, <2>2, <2>5 DEF Shl, Positions, x
  <2>7. x \in byte(i) <=> x \in Nat /\ x + a \in S
    <3> HIDE DEF S
    <3> QED
      BY <2>1, <2>2, <2>3, <2>4 DEF LShr
  <2>8. x \in Nat /\ x + a \in S <=> x >= 0 /\ x + a \in L /\ x + a <= z - 1
    BY <2>1, <2>3
  <2> QED
    BY <2>6, <2>7, <2>8 DEF x, m, a, z
<1>6. ASSUME NEW p \in Positions(w)
      PROVE  (\E i \in 0 .. k - 1 : p \in moved(i)) <=> from(p) \in L
  <2>1. p \in Nat /\ p < w
    BY <1>1 DEF Positions
  <2>2. PICK q \in Nat, r \in 0 .. B - 1 : p = q * B + r
    BY <1>1, <2>1, QuotientAndRemainder
  <2>3. p \div B = q /\ p % B = r
    <3>1. q \in Int /\ r \in 0 .. B - 1 /\ p = q * B + r
      BY <2>2
    <3> HIDE DEF from
    <3> QED
      BY <1>1, <3>1, Division
  <2>4. from(p) = (k - 1 - q) * B + r
    BY <2>3
  <2>5. q <= k - 1
    <3>1. CASE q >= k
      <4>1. (q - k) * B >= 0
        BY <1>1, <3>1
      <4>2. q * B >= k * B
        BY <1>1, <4>1
      <4> QED
        BY <1>1, <2>1, <2>2, <4>2 DEF B
    <3> QED
      BY <3>1
  <2>6. ASSUME NEW i \in 0 .. k - 1
        PROVE  p \in moved(i) <=> i = k - 1 - q /\ from(p) \in L
    <3> DEFINE d == q - k + i + 1
               dB == d * B
    <3>1. w = k * B
      BY DEF B
    <3>2. p - (w - (i + 1) * B) = dB + r
      BY <1>1, <2>2, <3>1
    <3>3. d \in Int /\ dB \in Int /\ (i + 1) * B = i * B + B /\ i * B \in Int
      BY <1>1
    <3>4. p \in moved(i) <=> /\ dB + r >= 0
                             /\ dB + r + i * B \in L
                             /\ dB + r + i * B <= (i + 1) * B - 1
      BY <1>5, <2>1, <3>2
    <3>5. (dB + r >= 0 /\ dB + r + i * B <= (i + 1) * B - 1) <=> d = 0
      <4>1. CASE d = 0
        <5>1. dB = 0
          BY <1>1, <4>1
        <5> HIDE DEF dB
        <5> QED
          BY <1>1, <3>3, <4>1, <5>1
      <4>2. CASE d # 0
        <5>1. SUFFICES ASSUME dB + r >= 0, dB + r + i * B <= (i + 1) * B - 1 PROVE FALSE
          BY <4>2
        <5> DEFINE e == i * B
        <5>2. dB + r <= B - 1
          <6> HIDE DEF dB
          <6>1. e \in Int /\ (i + 1) * B = e + B
            BY <3>3
          <6>2. dB + r + e <= e + B - 1
            BY <1>1, <3>3, <5>1, <6>1
          <6> HIDE DEF e
          <6> QED
            BY <1>1, <3>3, <6>1, <6>2
        <5>3. d * B < B /\ d * B > -B
          <6> HIDE DEF dB
          <6>1. dB < B /\ dB > -B
            BY <1>1, <3>3, <5>1, <5>2
          <6> QED
            BY <6>1 DEF dB
        <5> HIDE DEF d
        <5>4. d = 0
          BY <1>1, <3>3, <5>3, NoMultiple
        <5> QED
          BY <4>2, <5>4
      <4> QED
        BY <4>1, <4>2
    <3>6. d = 0 <=> i = k - 1 - q
      OBVIOUS
    <3>7. d = 0 => dB + r + i * B = from(p)
      <4> SUFFICES ASSUME d = 0 PROVE dB + r + i * B = from(p)
        OBVIOUS
      <4>1. i = k - 1 - q
        BY <3>6
      <4>2. dB = 0
        BY <1>1
      <4>3. from(p) = i * B + r
        BY <2>4, <4>1
      <4> HIDE DEF dB
      <4> QED
        BY <1>1, <3>3, <4>2, <4>3
    <3> HIDE DEF d, dB, from
    <3> QED
      BY <3>4, <3>5, <3>6, <3>7
  <2>7. k - 1 - q \in 0 .. k - 1
    BY <2>5
  <2> HIDE DEF moved, from
  <2> QED
    BY <2>6, <2>7
<1>7. \A i \in 0 .. k - 1 : moved(i) \subseteq Positions(w)
  BY DEF Shl
<1> HIDE DEF moved, from
<1> QED
  BY <1>3, <1>4, <1>6, <1>7

\* The distance to the other end is not changed by being made a value of the operand's width.
LEMMA ComplementIs ==
    ASSUME NEW w \in Nat \ {0}, NEW n \in Nat
    PROVE  /\ NatOf(BitsOf(w, w - n)) \in Nat
           /\ n <= w => NatOf(BitsOf(w, w - n)) = w - n
<1>1. w < 2^w /\ 2^w \in Int
  BY BelowPower, PowerStep
<1>2. w - n \in Int
  OBVIOUS
<1>3. BitsOf(w, w - n) \in SUBSET Positions(w)
  BY <1>2, BitsOfIsValue
<1>4. NatOf(BitsOf(w, w - n)) \in Nat
  <2>1. NatOf(BitsOf(w, w - n)) \in 0 .. 2^w - 1 /\ NatOf(BitsOf(w, w - n)) \in Int
    BY <1>3, NatOfBound, ValueIsFinite
  <2> QED
    BY <2>1
<1>5. ASSUME n <= w PROVE NatOf(BitsOf(w, w - n)) = w - n
  <2> DEFINE c == w - n
             P == 2^w
  <2>1. c \in Int /\ c >= 0 /\ c < P /\ P \in Int
    BY <1>1, <1>5
  <2> HIDE DEF c
  <2>2. -P <= c /\ c < 2 * P
    <3> HIDE DEF P
    <3> QED
      BY <2>1
  <2>3. NatOf(BitsOf(w, c)) = IF c < 0 THEN c + 2^w ELSE IF c >= 2^w THEN c - 2^w ELSE c
    BY <2>1, <2>2, OneTurn
  <2>4. NatOf(BitsOf(w, c)) = c
    BY <2>1, <2>3
  <2> QED
    BY <2>4 DEF c
<1> QED
  BY <1>4, <1>5

\* What shld and shrd put together from two operands.
ShldBits(w, L, src, n) ==
    {i - (w - n) : i \in src \union {i + w : i \in L}} \intersect Positions(w)
ShrdBits(w, L, src, n) == {i - n : i \in L \union {i + w : i \in src}} \intersect Positions(w)

\* The two shifts that lift_shld and lift_shrd join bring in the bits of the source.
LEMMA DoubleResults ==
    ASSUME NEW w \in Nat \ {0}, NEW L \in SUBSET Positions(w), NEW src \in SUBSET Positions(w),
           NEW n \in 1 .. w
    PROVE  /\ Shl(w, L, n) \union LShr(src, w - n) = ShldBits(w, L, src, n)
           /\ LShr(L, n) \union Shl(w, src, w - n) = ShrdBits(w, L, src, n)
<1>1. L \in SUBSET (0 .. w - 1) /\ src \in SUBSET (0 .. w - 1)
  BY DEF Positions
<1>2. n \in Int /\ w - n \in Int /\ w - n >= 0 /\ n - 1 >= 0 /\ n - 1 \in Int
  OBVIOUS
<1>3. Shl(w, L, n) \union LShr(src, w - n) = ShldBits(w, L, src, n)
  BY <1>1, <1>2 DEF Shl, LShr, Positions, ShldBits
<1>4. LShr(L, n) \union Shl(w, src, w - n) = ShrdBits(w, L, src, n)
  BY <1>1, <1>2 DEF Shl, LShr, Positions, ShrdBits
<1> QED
  BY <1>3, <1>4

\* The bit that was shifted out last.
LEMMA DoubleCarries ==
    ASSUME NEW w \in Nat \ {0}, NEW L \in SUBSET Positions(w), NEW n \in 1 .. w
    PROVE  /\ 0 \in LShr(L, w - n) <=> w - n \in L
           /\ 0 \in LShr(L, n - 1) <=> n - 1 \in L
<1>1. L \in SUBSET (0 .. w - 1)
  BY DEF Positions
<1>2. n \in Int /\ w - n \in Int /\ w - n >= 0 /\ n - 1 >= 0 /\ n - 1 \in Int
  OBVIOUS
<1> QED
  BY <1>1, <1>2 DEF LShr
-----------------------------------------------------------------------------
(* The manual's loops *)

\* What the loop of the manual holds after each of its rounds.
IsLoop(g, op, w, dest, cf) ==
    /\ g[0] = [dest |-> dest, cf |-> cf]
    /\ \A k \in Nat : g[k + 1] = Round(op, w, g[k])

\* The manual's loop, a recursive function, has after n rounds what any function that
\* takes its steps has.
LEMMA RoundsAre ==
    ASSUME NEW op, NEW w, NEW dest, NEW cf, NEW n \in Nat, NEW g,
           IsLoop(g, op, w, dest, cf)
    PROVE  Rounds(op, w, dest, cf, n) = g[n]
<1> DEFINE Loop(h)  == [k \in 0 .. n |->
                          IF k = 0 THEN [dest |-> dest, cf |-> cf] ELSE Round(op, w, h[k - 1])]
           after    == CHOOSE h : h = Loop(h)
           known    == [k \in 0 .. n |-> g[k]]
           T        == {k \in 0 .. n : after[k] # g[k]}
<1>1. Rounds(op, w, dest, cf, n) = after[n]
  BY DEF Rounds
<1>2. known = Loop(known)
  <2>1. ASSUME NEW k \in 0 .. n
        PROVE  g[k] = IF k = 0 THEN [dest |-> dest, cf |-> cf] ELSE Round(op, w, known[k - 1])
    <3>1. CASE k = 0
      BY <3>1 DEF IsLoop
    <3>2. CASE k # 0
      <4>1. k - 1 \in 0 .. n /\ k - 1 \in Nat /\ (k - 1) + 1 = k
        BY <3>2
      <4>2. g[(k - 1) + 1] = Round(op, w, g[k - 1])
        BY <4>1 DEF IsLoop
      <4> QED
        BY <3>2, <4>1, <4>2
    <3> QED
      BY <3>1, <3>2
  <2> QED
    BY <2>1
<1>3. after = Loop(after)
  <2> HIDE DEF Loop, known
  <2> QED
    BY <1>2
<1>4. T = {}
  <2>1. ASSUME NEW k \in T PROVE k # 0 /\ k - 1 \in T
    <3>1. k \in 0 .. n /\ after[k] # g[k]
      OBVIOUS
    <3>2. after[k] = IF k = 0 THEN [dest |-> dest, cf |-> cf] ELSE Round(op, w, after[k - 1])
      <4> HIDE DEF after
      <4> QED
        BY <1>3, <3>1
    <3>3. k # 0
      BY <3>1, <3>2 DEF IsLoop
    <3>4. k - 1 \in 0 .. n /\ k - 1 \in Nat /\ (k - 1) + 1 = k
      BY <3>1, <3>3
    <3>5. g[(k - 1) + 1] = Round(op, w, g[k - 1])
      BY <3>4 DEF IsLoop
    <3> HIDE DEF after
    <3> QED
      BY <3>1, <3>2, <3>3, <3>4, <3>5
  <2>2. T \in SUBSET Nat
    OBVIOUS
  <2> HIDE DEF T
  <2> QED
    BY <2>1, <2>2, NoneFails
<1> HIDE DEF after
<1> QED
  BY <1>1, <1>4

\* A value after a rotation of p positions by r of them.
Left(p, v, r)  == {i \in Positions(p) : i - r \in v \/ i - r + p \in v}
Right(p, v, r) == {i \in Positions(p) : i + r \in v \/ i + r - p \in v}

\* One more position.
LeftTurn(p, a, b) ==
    /\ a \subseteq Positions(p)
    /\ b = {i \in Positions(p) : IF i = 0 THEN p - 1 \in a ELSE i - 1 \in a}
RightTurn(p, a, b) ==
    /\ a \subseteq Positions(p)
    /\ b = {i \in Positions(p) : IF i = p - 1 THEN 0 \in a ELSE i + 1 \in a}

\* One more place of a rotation turns the bits by one.
LEMMA TurnOn ==
    ASSUME NEW p \in Nat \ {0}, NEW v \in SUBSET Positions(p), NEW k \in Nat
    PROVE  /\ LeftTurn(p, Left(p, v, k % p), Left(p, v, (k + 1) % p))
           /\ RightTurn(p, Right(p, v, k % p), Right(p, v, (k + 1) % p))
<1>1. PICK r : r = k % p /\ r \in 0 .. p - 1
  <2>1. k % p \in 0 .. p - 1
    OBVIOUS
  <2> QED
    BY <2>1
<1>2. PICK s : s = (k + 1) % p /\ s = IF r = p - 1 THEN 0 ELSE r + 1
  BY <1>1, NextRemainder
<1>3. LeftTurn(p, Left(p, v, r), Left(p, v, s))
  BY <1>1, <1>2 DEF LeftTurn, Left, Positions
<1>4. RightTurn(p, Right(p, v, r), Right(p, v, s))
  BY <1>1, <1>2 DEF RightTurn, Right, Positions
<1> QED
  BY <1>1, <1>2, <1>3, <1>4

\* A rotation by no place changes nothing.
LEMMA NoTurn ==
    ASSUME NEW p \in Nat \ {0}, NEW v \in SUBSET Positions(p)
    PROVE  Left(p, v, 0) = v /\ Right(p, v, 0) = v /\ 0 % p = 0
<1>1. 0 % p = 0
  OBVIOUS
<1>2. \A i \in Positions(p) : /\ i - 0 = i /\ i + 0 = i
                              /\ i - 0 + p \notin Positions(p)
                              /\ i + 0 - p \notin Positions(p)
  BY DEF Positions
<1> QED
  BY <1>1, <1>2 DEF Left, Right

\* The operand with the carry as one more position, at its bottom or at its top.
CarryBelow(v, c)    == {i + 1 : i \in v} \union (IF c THEN {0} ELSE {})
CarryAbove(w, v, c) == v \union (IF c THEN {w} ELSE {})

\* Each loop as a shift or a rotation by the whole count.
AfterShl(w, v, c, n) ==
    [dest |-> {i \in Positions(w) : i - n \in v},
     cf   |-> IF n = 0 THEN c ELSE w - n \in v]
AfterShr(w, v, c, n) ==
    [dest |-> {i \in Positions(w) : i + n \in v},
     cf   |-> IF n = 0 THEN c ELSE n - 1 \in v]
AfterSar(w, v, c, n) ==
    [dest |-> {i \in Positions(w) : i + n \in v \/ (i + n >= w /\ w - 1 \in v)},
     cf   |-> IF n = 0 THEN c ELSE n - 1 \in v \/ (n - 1 >= w /\ w - 1 \in v)]
AfterRol(w, v, c, n) ==
    LET rotated == Left(w, v, n % w)
    IN [dest |-> rotated, cf |-> IF n = 0 THEN c ELSE 0 \in rotated]
AfterRor(w, v, c, n) ==
    LET rotated == Right(w, v, n % w)
    IN [dest |-> rotated, cf |-> IF n = 0 THEN c ELSE w - 1 \in rotated]
AfterRcl(w, v, c, n) ==
    LET rotated == Left(w + 1, CarryBelow(v, c), n % (w + 1))
    IN [dest |-> {i \in Positions(w) : i + 1 \in rotated},
        cf   |-> IF n = 0 THEN c ELSE 0 \in rotated]
AfterRcr(w, v, c, n) ==
    LET rotated == Right(w + 1, CarryAbove(w, v, c), n % (w + 1))
    IN [dest |-> Positions(w) \intersect rotated,
        cf   |-> IF n = 0 THEN c ELSE w \in rotated]

\* n rounds of shl move every bit up n places and out at the top.
LEMMA ShlRounds ==
    ASSUME NEW w \in Nat \ {0, 1}, NEW v \in SUBSET Positions(w), NEW c \in BOOLEAN, NEW n \in Nat
    PROVE  Rounds("shl", w, v, c, n) = AfterShl(w, v, c, n)
<1> DEFINE g == [k \in Nat |-> AfterShl(w, v, c, k)]
<1>1. g[0] = [dest |-> v, cf |-> c]
  <2>1. {i \in Positions(w) : i - 0 \in v} = v
    <3>1. \A i \in Positions(w) : i - 0 = i
      BY DEF Positions
    <3> QED
      BY <3>1
  <2> QED
    BY <2>1 DEF AfterShl
<1>2. ASSUME NEW k \in Nat
      PROVE  g[k + 1] = Round("shl", w, g[k])
  <2> DEFINE d == {i \in Positions(w) : i - k \in v}
  <2>1. Round("shl", w, g[k]) = [dest |-> {i + 1 : i \in d \ {w - 1}}, cf |-> w - 1 \in d]
    BY DEF Round, AfterShl
  <2>2. {i \in Positions(w) : i - (k + 1) \in v} = {i + 1 : i \in d \ {w - 1}}
    BY DEF Positions
  <2>3. (w - (k + 1) \in v) = (w - 1 \in d)
    BY DEF Positions
  <2>4. k + 1 \in Nat /\ k + 1 # 0
    OBVIOUS
  <2> QED
    BY <2>1, <2>2, <2>3, <2>4 DEF AfterShl
<1> HIDE DEF g
<1>3. IsLoop(g, "shl", w, v, c)
  BY <1>1, <1>2 DEF IsLoop
<1>4. Rounds("shl", w, v, c, n) = g[n]
  BY <1>3, RoundsAre
<1> QED
  BY <1>4 DEF g

\* n rounds of shr move every bit down n places.
LEMMA ShrRounds ==
    ASSUME NEW w \in Nat \ {0, 1}, NEW v \in SUBSET Positions(w), NEW c \in BOOLEAN, NEW n \in Nat
    PROVE  Rounds("shr", w, v, c, n) = AfterShr(w, v, c, n)
<1> DEFINE g == [k \in Nat |-> AfterShr(w, v, c, k)]
<1>1. g[0] = [dest |-> v, cf |-> c]
  <2>1. {i \in Positions(w) : i + 0 \in v} = v
    <3>1. \A i \in Positions(w) : i + 0 = i
      BY DEF Positions
    <3> QED
      BY <3>1
  <2> QED
    BY <2>1 DEF AfterShr
<1>2. ASSUME NEW k \in Nat
      PROVE  g[k + 1] = Round("shr", w, g[k])
  <2> DEFINE d == {i \in Positions(w) : i + k \in v}
  <2>1. Round("shr", w, g[k]) = [dest |-> {i - 1 : i \in d \ {0}}, cf |-> 0 \in d]
    BY DEF Round, AfterShr
  <2>2. {i \in Positions(w) : i + (k + 1) \in v} = {i - 1 : i \in d \ {0}}
    BY DEF Positions
  <2>3. ((k + 1) - 1 \in v) = (0 \in d)
    BY DEF Positions
  <2>4. k + 1 \in Nat /\ k + 1 # 0
    OBVIOUS
  <2> QED
    BY <2>1, <2>2, <2>3, <2>4 DEF AfterShr
<1> HIDE DEF g
<1>3. IsLoop(g, "shr", w, v, c)
  BY <1>1, <1>2 DEF IsLoop
<1>4. Rounds("shr", w, v, c, n) = g[n]
  BY <1>3, RoundsAre
<1> QED
  BY <1>4 DEF g

\* n rounds of sar move every bit down and fill with the sign.
LEMMA SarRounds ==
    ASSUME NEW w \in Nat \ {0, 1}, NEW v \in SUBSET Positions(w), NEW c \in BOOLEAN, NEW n \in Nat
    PROVE  Rounds("sar", w, v, c, n) = AfterSar(w, v, c, n)
<1> DEFINE g == [k \in Nat |-> AfterSar(w, v, c, k)]
<1>1. g[0] = [dest |-> v, cf |-> c]
  <2>1. {i \in Positions(w) : i + 0 \in v \/ (i + 0 >= w /\ w - 1 \in v)} = v
    <3>1. \A i \in Positions(w) : i + 0 = i /\ ~(i + 0 >= w)
      BY DEF Positions
    <3> QED
      BY <3>1
  <2> QED
    BY <2>1 DEF AfterSar
<1>2. ASSUME NEW k \in Nat
      PROVE  g[k + 1] = Round("sar", w, g[k])
  <2> DEFINE d == {i \in Positions(w) : i + k \in v \/ (i + k >= w /\ w - 1 \in v)}
  <2>1. Round("sar", w, g[k])
          = [dest |-> {i - 1 : i \in d \ {0}} \union (IF w - 1 \in d THEN {w - 1} ELSE {}),
             cf |-> 0 \in d]
    BY DEF Round, AfterSar
  <2>2. {i \in Positions(w) : i + (k + 1) \in v \/ (i + (k + 1) >= w /\ w - 1 \in v)}
          = {i - 1 : i \in d \ {0}} \union (IF w - 1 \in d THEN {w - 1} ELSE {})
    BY DEF Positions
  <2>3. ((k + 1) - 1 \in v \/ ((k + 1) - 1 >= w /\ w - 1 \in v)) = (0 \in d)
    BY DEF Positions
  <2>4. k + 1 \in Nat /\ k + 1 # 0
    OBVIOUS
  <2> QED
    BY <2>1, <2>2, <2>3, <2>4 DEF AfterSar
<1> HIDE DEF g
<1>3. IsLoop(g, "sar", w, v, c)
  BY <1>1, <1>2 DEF IsLoop
<1>4. Rounds("sar", w, v, c, n) = g[n]
  BY <1>3, RoundsAre
<1> QED
  BY <1>4 DEF g

\* n rounds of rol turn the bits of the operand, its width at a time.
LEMMA RolRounds ==
    ASSUME NEW w \in Nat \ {0, 1}, NEW v \in SUBSET Positions(w), NEW c \in BOOLEAN, NEW n \in Nat
    PROVE  Rounds("rol", w, v, c, n) = AfterRol(w, v, c, n)
<1> DEFINE rot(k) == Left(w, v, k % w)
           g == [k \in Nat |-> AfterRol(w, v, c, k)]
<1>1. v \in SUBSET Positions(w) /\ w \in Nat \ {0}
  BY DEF Positions
<1>2. rot(0) = v
  BY <1>1, NoTurn
<1>3. ASSUME NEW k \in Nat
      PROVE  LeftTurn(w, rot(k), rot(k + 1))
  BY <1>1, TurnOn
<1>4. ASSUME NEW k \in Nat
      PROVE  g[k] = [dest |-> rot(k), cf |-> IF k = 0 THEN c ELSE 0 \in rot(k)]
  BY DEF AfterRol
<1> HIDE DEF rot, g
<1>5. g[0] = [dest |-> v, cf |-> c]
  <2>1. v = v
    OBVIOUS
  <2> QED
    BY <1>2, <1>4, <2>1
<1>6. ASSUME NEW k \in Nat
      PROVE  g[k + 1] = Round("rol", w, g[k])
  <2> DEFINE a == rot(k)
             b == rot(k + 1)
             d == a
             s == IF k = 0 THEN c ELSE 0 \in a
  <2>1. g[k] = [dest |-> d, cf |-> s]
    BY <1>4
  <2>2. g[k + 1] = [dest |-> b, cf |-> 0 \in b]
    <3>1. k + 1 \in Nat /\ k + 1 # 0
      OBVIOUS
    <3> QED
      BY <3>1, <1>4
  <2>3. Round("rol", w, g[k])
          = [dest |-> {i + 1 : i \in d \ {w - 1}} \union (IF w - 1 \in d THEN {0} ELSE {}),
             cf |-> w - 1 \in d]
    <3> HIDE DEF d, s
    <3> QED
      BY <2>1 DEF Round
  <2>4. LeftTurn(w, a, b)
    BY <1>3
  <2> HIDE DEF a, b
  <2>5. b = {i + 1 : i \in d \ {w - 1}} \union (IF w - 1 \in d THEN {0} ELSE {})
    BY <2>4 DEF LeftTurn, Positions
  <2>6. (0 \in b) = (w - 1 \in d)
    BY <2>4 DEF LeftTurn, Positions
  <2> QED
    BY <2>2, <2>3, <2>5, <2>6
<1>7. IsLoop(g, "rol", w, v, c)
  BY <1>5, <1>6 DEF IsLoop
<1>8. Rounds("rol", w, v, c, n) = g[n]
  BY <1>7, RoundsAre
<1> QED
  BY <1>8 DEF g

\* n rounds of ror turn the bits the other way.
LEMMA RorRounds ==
    ASSUME NEW w \in Nat \ {0, 1}, NEW v \in SUBSET Positions(w), NEW c \in BOOLEAN, NEW n \in Nat
    PROVE  Rounds("ror", w, v, c, n) = AfterRor(w, v, c, n)
<1> DEFINE rot(k) == Right(w, v, k % w)
           g == [k \in Nat |-> AfterRor(w, v, c, k)]
<1>1. v \in SUBSET Positions(w) /\ w \in Nat \ {0}
  BY DEF Positions
<1>2. rot(0) = v
  BY <1>1, NoTurn
<1>3. ASSUME NEW k \in Nat
      PROVE  RightTurn(w, rot(k), rot(k + 1))
  BY <1>1, TurnOn
<1>4. ASSUME NEW k \in Nat
      PROVE  g[k] = [dest |-> rot(k), cf |-> IF k = 0 THEN c ELSE w - 1 \in rot(k)]
  BY DEF AfterRor
<1> HIDE DEF rot, g
<1>5. g[0] = [dest |-> v, cf |-> c]
  <2>1. v = v
    OBVIOUS
  <2> QED
    BY <1>2, <1>4, <2>1
<1>6. ASSUME NEW k \in Nat
      PROVE  g[k + 1] = Round("ror", w, g[k])
  <2> DEFINE a == rot(k)
             b == rot(k + 1)
             d == a
             s == IF k = 0 THEN c ELSE w - 1 \in a
  <2>1. g[k] = [dest |-> d, cf |-> s]
    BY <1>4
  <2>2. g[k + 1] = [dest |-> b, cf |-> w - 1 \in b]
    <3>1. k + 1 \in Nat /\ k + 1 # 0
      OBVIOUS
    <3> QED
      BY <3>1, <1>4
  <2>3. Round("ror", w, g[k])
          = [dest |-> {i - 1 : i \in d \ {0}} \union (IF 0 \in d THEN {w - 1} ELSE {}),
             cf |-> 0 \in d]
    <3> HIDE DEF d, s
    <3> QED
      BY <2>1 DEF Round
  <2>4. RightTurn(w, a, b)
    BY <1>3
  <2> HIDE DEF a, b
  <2>5. b = {i - 1 : i \in d \ {0}} \union (IF 0 \in d THEN {w - 1} ELSE {})
    BY <2>4 DEF RightTurn, Positions
  <2>6. (w - 1 \in b) = (0 \in d)
    BY <2>4 DEF RightTurn, Positions
  <2> QED
    BY <2>2, <2>3, <2>5, <2>6
<1>7. IsLoop(g, "ror", w, v, c)
  BY <1>5, <1>6 DEF IsLoop
<1>8. Rounds("ror", w, v, c, n) = g[n]
  BY <1>7, RoundsAre
<1> QED
  BY <1>8 DEF g

\* n rounds of rcl turn the w bits and the carry, w + 1 places at a time.
LEMMA RclRounds ==
    ASSUME NEW w \in Nat \ {0, 1}, NEW v \in SUBSET Positions(w), NEW c \in BOOLEAN, NEW n \in Nat
    PROVE  Rounds("rcl", w, v, c, n) = AfterRcl(w, v, c, n)
<1> DEFINE rot(k) == Left(w + 1, CarryBelow(v, c), k % (w + 1))
           g == [k \in Nat |-> AfterRcl(w, v, c, k)]
<1>1. CarryBelow(v, c) \in SUBSET Positions(w + 1) /\ w + 1 \in Nat \ {0}
  BY DEF Positions, CarryBelow
<1>2. rot(0) = CarryBelow(v, c)
  BY <1>1, NoTurn
<1>3. ASSUME NEW k \in Nat
      PROVE  LeftTurn(w + 1, rot(k), rot(k + 1))
  BY <1>1, TurnOn
<1>4. ASSUME NEW k \in Nat
      PROVE  g[k] = [dest |-> {i \in Positions(w) : i + 1 \in rot(k)},
                     cf |-> IF k = 0 THEN c ELSE 0 \in rot(k)]
  BY DEF AfterRcl
<1> HIDE DEF rot, g
<1>5. g[0] = [dest |-> v, cf |-> c]
  <2>1. {i \in Positions(w) : i + 1 \in CarryBelow(v, c)} = v
    <3>1. \A i \in Positions(w) : i + 1 \in CarryBelow(v, c) <=> i \in v
      BY DEF Positions, CarryBelow
    <3> QED
      BY <3>1
  <2> QED
    BY <1>2, <1>4, <2>1
<1>6. ASSUME NEW k \in Nat
      PROVE  g[k + 1] = Round("rcl", w, g[k])
  <2> DEFINE a == rot(k)
             b == rot(k + 1)
             d == {i \in Positions(w) : i + 1 \in a}
             s == IF k = 0 THEN c ELSE 0 \in a
  <2>1. g[k] = [dest |-> d, cf |-> s]
    BY <1>4
  <2>2. g[k + 1] = [dest |-> {i \in Positions(w) : i + 1 \in b}, cf |-> 0 \in b]
    <3>1. k + 1 \in Nat /\ k + 1 # 0
      OBVIOUS
    <3> QED
      BY <3>1, <1>4
  <2>3. Round("rcl", w, g[k])
          = [dest |-> {i + 1 : i \in d \ {w - 1}} \union (IF s THEN {0} ELSE {}),
             cf |-> w - 1 \in d]
    <3> HIDE DEF d, s
    <3> QED
      BY <2>1 DEF Round
  <2>4. LeftTurn(w + 1, a, b)
    BY <1>3
  <2>5. s = (0 \in a)
    BY <1>2 DEF CarryBelow, Positions
  <2> HIDE DEF a, b
  <2>6. {i \in Positions(w) : i + 1 \in b} = {i + 1 : i \in d \ {w - 1}} \union (IF s THEN {0} ELSE {})
    BY <2>4, <2>5 DEF LeftTurn, Positions
  <2>7. (0 \in b) = (w - 1 \in d)
    BY <2>4, <2>5 DEF LeftTurn, Positions
  <2> QED
    BY <2>2, <2>3, <2>6, <2>7
<1>7. IsLoop(g, "rcl", w, v, c)
  BY <1>5, <1>6 DEF IsLoop
<1>8. Rounds("rcl", w, v, c, n) = g[n]
  BY <1>7, RoundsAre
<1> QED
  BY <1>8 DEF g

\* n rounds of rcr turn the w bits and the carry the other way.
LEMMA RcrRounds ==
    ASSUME NEW w \in Nat \ {0, 1}, NEW v \in SUBSET Positions(w), NEW c \in BOOLEAN, NEW n \in Nat
    PROVE  Rounds("rcr", w, v, c, n) = AfterRcr(w, v, c, n)
<1> DEFINE rot(k) == Right(w + 1, CarryAbove(w, v, c), k % (w + 1))
           g == [k \in Nat |-> AfterRcr(w, v, c, k)]
<1>1. CarryAbove(w, v, c) \in SUBSET Positions(w + 1) /\ w + 1 \in Nat \ {0}
  BY DEF Positions, CarryAbove
<1>2. rot(0) = CarryAbove(w, v, c)
  BY <1>1, NoTurn
<1>3. ASSUME NEW k \in Nat
      PROVE  RightTurn(w + 1, rot(k), rot(k + 1))
  BY <1>1, TurnOn
<1>4. ASSUME NEW k \in Nat
      PROVE  g[k] = [dest |-> Positions(w) \intersect rot(k), cf |-> IF k = 0 THEN c ELSE w \in rot(k)]
  BY DEF AfterRcr
<1> HIDE DEF rot, g
<1>5. g[0] = [dest |-> v, cf |-> c]
  <2>1. Positions(w) \intersect CarryAbove(w, v, c) = v
    <3>1. \A i \in Positions(w) : i \in CarryAbove(w, v, c) <=> i \in v
      BY DEF Positions, CarryAbove
    <3> QED
      BY <3>1
  <2> QED
    BY <1>2, <1>4, <2>1
<1>6. ASSUME NEW k \in Nat
      PROVE  g[k + 1] = Round("rcr", w, g[k])
  <2> DEFINE a == rot(k)
             b == rot(k + 1)
             d == Positions(w) \intersect a
             s == IF k = 0 THEN c ELSE w \in a
  <2>1. g[k] = [dest |-> d, cf |-> s]
    BY <1>4
  <2>2. g[k + 1] = [dest |-> Positions(w) \intersect b, cf |-> w \in b]
    <3>1. k + 1 \in Nat /\ k + 1 # 0
      OBVIOUS
    <3> QED
      BY <3>1, <1>4
  <2>3. Round("rcr", w, g[k])
          = [dest |-> {i - 1 : i \in d \ {0}} \union (IF s THEN {w - 1} ELSE {}),
             cf |-> 0 \in d]
    <3> HIDE DEF d, s
    <3> QED
      BY <2>1 DEF Round
  <2>4. RightTurn(w + 1, a, b)
    BY <1>3
  <2>5. s = (w \in a)
    BY <1>2 DEF CarryAbove, Positions
  <2> HIDE DEF a, b
  <2>6. Positions(w) \intersect b = {i - 1 : i \in d \ {0}} \union (IF s THEN {w - 1} ELSE {})
    BY <2>4, <2>5 DEF RightTurn, Positions
  <2>7. (w \in b) = (0 \in d)
    BY <2>4, <2>5 DEF RightTurn, Positions
  <2> QED
    BY <2>2, <2>3, <2>6, <2>7
<1>7. IsLoop(g, "rcr", w, v, c)
  BY <1>5, <1>6 DEF IsLoop
<1>8. Rounds("rcr", w, v, c, n) = g[n]
  BY <1>7, RoundsAre
<1> QED
  BY <1>8 DEF g

-----------------------------------------------------------------------------
(* The handlers *)

\* The counts of the lifter and of the processor are the same number.
LEMMA CountsAgree ==
    ASSUME NEW w, NEW count \in SUBSET Positions(QwordBits)
    PROVE  /\ Masked(w, count) = NatOf(count) % CountMask(w)
           /\ Masked(w, count) \in Nat
<1>1. IsFiniteSet(count) /\ count \in SUBSET Nat
  <2>1. IsFiniteSet(Positions(QwordBits)) /\ Positions(QwordBits) \subseteq Nat
    BY FS_Interval, ByteAssumption DEF Positions, QwordBits
  <2> QED
    BY <2>1, FS_Subset
<1>2. NatOf(count) \in Int
  BY <1>1, NatOfIsNumber
<1>3. CountMask(w) \in Nat \ {0}
  BY ByteAssumption DEF CountMask
<1> QED
  BY <1>2, <1>3 DEF Masked, CountMask

\* What is in a value after a shift.
LEMMA ShlHas ==
    ASSUME NEW w \in Nat, NEW v \in SUBSET Int, NEW m \in Int, NEW i \in Int
    PROVE  i \in Shl(w, v, m) <=> i \in Positions(w) /\ i - m \in v
  BY DEF Shl, Positions

\* A position of a value shifted down.
LEMMA LShrHas ==
    ASSUME NEW v \in SUBSET Int, NEW m \in Int, NEW i \in Int
    PROVE  i \in LShr(v, m) <=> i \in Nat /\ i + m \in v
  BY DEF LShr

\* A value shifted down with its sign, position by position.
LEMMA AShrIs ==
    ASSUME NEW w \in Nat \ {0}, NEW v \in SUBSET Positions(w), NEW m \in Nat
    PROVE  AShr(w, v, m)
               = {i \in Positions(w) : i + m \in v \/ (i + m >= w /\ w - 1 \in v)}
<1>1. LShr(v, m) = {i \in Positions(w) : i + m \in v}
  BY DEF LShr, Positions
<1>2. (IF w - 1 \in v THEN {i \in Positions(w) : i >= w - m} ELSE {})
          = {i \in Positions(w) : i + m >= w /\ w - 1 \in v}
  BY DEF Positions
<1> QED
  BY <1>1, <1>2 DEF AShr

\* The flags a handler computes as the processor does, when the count is n: the
\* carry, except after whole turns, the overflow where it is defined, and those an
\* instruction leaves alone.
SameShift(op, w, v, f, n, lifted) ==
    LET s == Rounds(op, w, v, f.CF, n)
    IN /\ lifted.result = s.dest
       /\ (op \in {"rol", "ror"} /\ n # 0 /\ n % w = 0) \/ lifted.flags.CF = s.cf
       /\ n = 1 => lifted.flags.OF = CpuOverflow(op, w, v, s)
       /\ n = 0 /\ op # "sar" => lifted.flags.OF = f.OF
       /\ \A g \in {"AF", "DF", "IF"} : lifted.flags[g] = f[g]
       /\ op \in Rotates => \A g \in {"SF", "ZF", "PF"} : lifted.flags[g] = f[g]

\* lift_shl has the processor's result, carry and, for one place, overflow, for every
\* count.
LEMMA ShlIsRight ==
    ASSUME NEW w \in Nat \ {0, 1}, NEW v \in SUBSET Positions(w), NEW f \in FlagSets,
           NEW count, Masked(w, count) \in Nat
    PROVE  SameShift("shl", w, v, f, Masked(w, count), lift_shl(w, v, count, f))
<1> DEFINE n == Masked(w, count)
           s == Rounds("shl", w, v, f.CF, n)
           lifted == lift_shl(w, v, count, f)
<1>1. f.CF \in BOOLEAN /\ n \in Nat /\ v \in SUBSET Int
  BY DEF FlagSets, FlagNames, Positions
<1> HIDE DEF n
<1>2. /\ s.dest = {i \in Positions(w) : i - n \in v}
      /\ n = 0 => s.cf = f.CF
      /\ n # 0 => s.cf = (w - n \in v)
  <2>1. s = AfterShl(w, v, f.CF, n)
    BY <1>1, ShlRounds
  <2> QED
    BY <2>1 DEF AfterShl
<1> HIDE DEF s
<1>3. lifted.result = s.dest
  <2>1. lifted.result = IF n > w - 1 THEN {} ELSE Shl(w, v, n)
    BY DEF lift_shl, Result, Pick, SignZeroParity, FlagSets, FlagNames, n
  <2>2. Shl(w, v, n) = {i \in Positions(w) : i - n \in v}
    BY <1>1 DEF Shl, Positions
  <2>3. n > w - 1 => {i \in Positions(w) : i - n \in v} = {}
    BY <1>1 DEF Positions
  <2> QED
    BY <1>2, <2>1, <2>2, <2>3
<1>4. lifted.flags.CF = s.cf
  <2>1. lifted.flags.CF = IF n # 0 THEN 0 \in LShr(Shl(w, v, n - 1), w - 1) ELSE f.CF
    BY DEF lift_shl, Result, Pick, SignZeroParity, FlagSets, FlagNames, n
  <2>2. n - 1 \in Int /\ w - 1 \in Int /\ Shl(w, v, n - 1) \in SUBSET Int
    BY <1>1 DEF Positions, Shl
  <2>3. 0 \in LShr(Shl(w, v, n - 1), w - 1) <=> 0 + (w - 1) \in Shl(w, v, n - 1)
    BY <2>2, LShrHas
  <2>4. 0 + (w - 1) \in Shl(w, v, n - 1)
            <=> 0 + (w - 1) \in Positions(w) /\ 0 + (w - 1) - (n - 1) \in v
    BY <1>1, <2>2, ShlHas
  <2> QED
    BY <1>1, <1>2, <2>1, <2>3, <2>4 DEF Positions
<1>5. /\ n = 1 => lifted.flags.OF = CpuOverflow("shl", w, v, s)
      /\ n = 0 => lifted.flags.OF = f.OF
  <2>1. lifted.flags.OF = IF n = 1 THEN Xor1(w - 1 \in lifted.result, w - 1 \in v) ELSE f.OF
    BY DEF lift_shl, Result, Pick, SignZeroParity, FlagSets, FlagNames, n
  <2> HIDE DEF lifted
  <2> QED
    BY <1>2, <1>3, <2>1 DEF CpuOverflow, Xor1
<1>6. \A g \in {"AF", "DF", "IF"} : lifted.flags[g] = f[g]
  BY DEF lift_shl, Result, Pick, SignZeroParity, FlagSets, FlagNames
<1> HIDE DEF lifted
<1>7. SameShift("shl", w, v, f, n, lifted)
  BY <1>3, <1>4, <1>5, <1>6 DEF SameShift, Shifts, Rotates, s
<1> QED
  BY <1>7 DEF n, lifted

\* lift_shr has the processor's result, carry and, for one place, overflow, for every
\* count.
LEMMA ShrIsRight ==
    ASSUME NEW w \in Nat \ {0, 1}, NEW v \in SUBSET Positions(w), NEW f \in FlagSets,
           NEW count, Masked(w, count) \in Nat
    PROVE  SameShift("shr", w, v, f, Masked(w, count), lift_shr(w, v, count, f))
<1> DEFINE n == Masked(w, count)
           s == Rounds("shr", w, v, f.CF, n)
           lifted == lift_shr(w, v, count, f)
<1>1. f.CF \in BOOLEAN /\ n \in Nat /\ v \in SUBSET Int
  BY DEF FlagSets, FlagNames, Positions
<1> HIDE DEF n
<1>2. /\ s.dest = {i \in Positions(w) : i + n \in v}
      /\ n = 0 => s.cf = f.CF
      /\ n # 0 => s.cf = (n - 1 \in v)
  <2>1. s = AfterShr(w, v, f.CF, n)
    BY <1>1, ShrRounds
  <2> QED
    BY <2>1 DEF AfterShr
<1> HIDE DEF s
<1>3. lifted.result = s.dest
  <2>1. lifted.result = IF n > w - 1 THEN {} ELSE LShr(v, n)
    BY DEF lift_shr, Result, Pick, SignZeroParity, FlagSets, FlagNames, n
  <2>2. LShr(v, n) = {i \in Positions(w) : i + n \in v}
    BY <1>1, LShrHas DEF Positions, LShr
  <2>3. n > w - 1 => {i \in Positions(w) : i + n \in v} = {}
    BY <1>1 DEF Positions
  <2> QED
    BY <1>2, <2>1, <2>2, <2>3
<1>4. lifted.flags.CF = s.cf
  <2>1. lifted.flags.CF = IF n # 0 THEN 0 \in LShr(v, n - 1) ELSE f.CF
    BY DEF lift_shr, Result, Pick, SignZeroParity, FlagSets, FlagNames, n
  <2>2. n - 1 \in Int
    BY <1>1
  <2>3. 0 \in LShr(v, n - 1) <=> 0 + (n - 1) \in v
    BY <1>1, <2>2, LShrHas
  <2> QED
    BY <1>1, <1>2, <2>1, <2>3
<1>5. /\ n = 1 => lifted.flags.OF = CpuOverflow("shr", w, v, s)
      /\ n = 0 => lifted.flags.OF = f.OF
  <2>1. lifted.flags.OF = IF n = 1 THEN computeSignFlag(w, v) ELSE f.OF
    BY DEF lift_shr, Result, Pick, SignZeroParity, FlagSets, FlagNames, n
  <2> HIDE DEF lifted
  <2> QED
    BY <2>1 DEF CpuOverflow, computeSignFlag
<1>6. \A g \in {"AF", "DF", "IF"} : lifted.flags[g] = f[g]
  BY DEF lift_shr, Result, Pick, SignZeroParity, FlagSets, FlagNames
<1> HIDE DEF lifted
<1>7. SameShift("shr", w, v, f, n, lifted)
  BY <1>3, <1>4, <1>5, <1>6 DEF SameShift, Shifts, Rotates, s
<1> QED
  BY <1>7 DEF n, lifted

\* lift_sar has the processor's result and carry for every count, those past the
\* width included.
LEMMA SarIsRight ==
    ASSUME NEW w \in Nat \ {0, 1}, NEW v \in SUBSET Positions(w), NEW f \in FlagSets,
           NEW count, Masked(w, count) \in Nat
    PROVE  SameShift("sar", w, v, f, Masked(w, count), lift_sar(w, v, count, f))
<1> DEFINE n == Masked(w, count)
           s == Rounds("sar", w, v, f.CF, n)
           lifted == lift_sar(w, v, count, f)
<1>1. f.CF \in BOOLEAN /\ n \in Nat /\ v \in SUBSET Int
  BY DEF FlagSets, FlagNames, Positions
<1> HIDE DEF n
<1>2. /\ s.dest = {i \in Positions(w) : i + n \in v \/ (i + n >= w /\ w - 1 \in v)}
      /\ n = 0 => s.cf = f.CF
      /\ n # 0 => s.cf = (n - 1 \in v \/ (n - 1 >= w /\ w - 1 \in v))
  <2>1. s = AfterSar(w, v, f.CF, n)
    BY <1>1, SarRounds
  <2> QED
    BY <2>1 DEF AfterSar
<1> HIDE DEF s
<1>3. lifted.result = s.dest
  <2>1. lifted.result = AShr(w, v, IF n > w - 1 THEN w - 1 ELSE n)
    BY DEF lift_sar, Result, Pick, SignZeroParity, FlagSets, FlagNames, n
  <2>2. ASSUME NEW m \in Nat
        PROVE  AShr(w, v, m) = {i \in Positions(w) : i + m \in v \/ (i + m >= w /\ w - 1 \in v)}
    BY <1>1, AShrIs
  <2>3. n > w - 1 => {i \in Positions(w) : i + n \in v \/ (i + n >= w /\ w - 1 \in v)}
                        = {i \in Positions(w) : i + (w - 1) \in v \/ (i + (w - 1) >= w /\ w - 1 \in v)}
    BY <1>1 DEF Positions
  <2>4. w - 1 \in Nat
    OBVIOUS
  <2> QED
    BY <1>1, <1>2, <2>1, <2>2, <2>3, <2>4
<1>4. lifted.flags.CF = s.cf
  <2>1. lifted.flags.CF = IF n > w - 1 THEN 0 \in AShr(w, v, w - 1)
                          ELSE IF n # 0 THEN 0 \in AShr(w, v, n - 1) ELSE f.CF
    BY DEF lift_sar, Result, Pick, SignZeroParity, FlagSets, FlagNames, n
  <2>2. 0 \in AShr(w, v, w - 1) <=> w - 1 \in v
    BY <1>1, AShrIs DEF Positions
  <2>3. n # 0 => (0 \in AShr(w, v, n - 1) <=> n - 1 \in v \/ (n - 1 >= w /\ w - 1 \in v))
    <3> DEFINE m == n - 1
    <3> SUFFICES ASSUME n # 0 PROVE 0 \in AShr(w, v, m) <=> m \in v \/ (m >= w /\ w - 1 \in v)
      OBVIOUS
    <3>1. m \in Nat /\ 0 + m = m /\ 0 \in Positions(w)
      BY <1>1 DEF Positions
    <3> HIDE DEF m
    <3>2. AShr(w, v, m) = {i \in Positions(w) : i + m \in v \/ (i + m >= w /\ w - 1 \in v)}
      BY <3>1, AShrIs
    <3> QED
      BY <3>1, <3>2
  <2>4. n > w - 1 => (n - 1 \in v \/ (n - 1 >= w /\ w - 1 \in v) <=> w - 1 \in v)
    BY <1>1 DEF Positions
  <2> QED
    BY <1>1, <1>2, <2>1, <2>2, <2>3, <2>4
<1>5. lifted.flags.OF = CpuOverflow("sar", w, v, s)
  <2>1. lifted.flags.OF = FALSE
    BY DEF lift_sar, Result, Pick, SignZeroParity, FlagSets, FlagNames, n
  <2> HIDE DEF lifted
  <2> QED
    BY <2>1 DEF CpuOverflow
<1>6. \A g \in {"AF", "DF", "IF"} : lifted.flags[g] = f[g]
  BY DEF lift_sar, Result, Pick, SignZeroParity, FlagSets, FlagNames
<1> HIDE DEF lifted
<1>7. SameShift("sar", w, v, f, n, lifted)
  BY <1>3, <1>4, <1>5, <1>6 DEF SameShift, Shifts, Rotates, s
<1> QED
  BY <1>7 DEF n, lifted

\* lift_rol has the processor's result and carry, for counts below and above the
\* width.
LEMMA RolIsRight ==
    ASSUME NEW w \in Nat \ {0, 1}, NEW v \in SUBSET Positions(w), NEW f \in FlagSets,
           NEW count, Masked(w, count) \in Nat
    PROVE  SameShift("rol", w, v, f, Masked(w, count), lift_rol(w, v, count, f))
<1> DEFINE n == Masked(w, count)
           s == Rounds("rol", w, v, f.CF, n)
           lifted == lift_rol(w, v, count, f)
<1>1. f.CF \in BOOLEAN /\ n \in Nat /\ v \in SUBSET Int
  BY DEF FlagSets, FlagNames, Positions
<1> HIDE DEF n
<1> DEFINE r == n % w
<1>0. /\ r \in 0 .. w - 1
      /\ n = 0 => r = 0
      /\ n = 1 => r = 1
  BY <1>1
<1>2. /\ s.dest = Left(w, v, r)
      /\ n = 0 => s.cf = f.CF
      /\ n # 0 => s.cf = (0 \in Left(w, v, r))
  <2>1. s = AfterRol(w, v, f.CF, n)
    BY <1>1, RolRounds
  <2> QED
    BY <2>1 DEF AfterRol
<1> HIDE DEF s, r
<1>3. lifted.result = s.dest
  <2>1. lifted.result = IF r = 0 THEN v ELSE Shl(w, v, r) \union LShr(v, w - r)
    BY DEF lift_rol, Result, Pick, SignZeroParity, FlagSets, FlagNames, n, r
  <2>2. r = 0 => Left(w, v, r) = v
    BY <1>1, NoTurn
  <2>3. r # 0 => Shl(w, v, r) \union LShr(v, w - r) = Left(w, v, r)
    <3> SUFFICES ASSUME r # 0 PROVE Shl(w, v, r) \union LShr(v, w - r) = Left(w, v, r)
      OBVIOUS
    <3>1. Shl(w, v, r) = {i \in Positions(w) : i - r \in v}
      BY <1>0, <1>1 DEF Shl, Positions
    <3>2. LShr(v, w - r) = {i \in Positions(w) : i - r + w \in v}
      BY <1>0, <1>1 DEF LShr, Positions
    <3> QED
      BY <3>1, <3>2 DEF Left
  <2> QED
    BY <1>2, <2>1, <2>2, <2>3
<1>4. lifted.flags.CF = s.cf \/ (n # 0 /\ n % w = 0)
  <2>1. lifted.flags.CF = IF r = 0 THEN f.CF ELSE 0 \in LShr(v, w - r)
    BY DEF lift_rol, Result, Pick, SignZeroParity, FlagSets, FlagNames, n, r
  <2>2. r # 0 => (0 \in LShr(v, w - r) <=> 0 \in Left(w, v, r))
    <3>1. 0 \in LShr(v, w - r) <=> 0 + (w - r) \in v
      BY <1>0, <1>1, LShrHas
    <3> QED
      BY <1>0, <1>1, <3>1 DEF Left, Positions
  <2>3. n = 0 => r = 0
    BY <1>0
  <2> QED
    BY <1>0, <1>2, <2>1, <2>2, <2>3 DEF r
<1>5. /\ n = 1 => lifted.flags.OF = CpuOverflow("rol", w, v, s)
      /\ n = 0 => lifted.flags.OF = f.OF
  <2>1. lifted.flags.OF = IF r = 1 THEN Xor1(lifted.flags.CF, w - 1 \in lifted.result) ELSE f.OF
    BY DEF lift_rol, Result, Pick, SignZeroParity, FlagSets, FlagNames, n, r
  <2> HIDE DEF lifted
  <2> QED
    BY <1>0, <1>3, <1>4, <2>1 DEF CpuOverflow, Xor1
<1>6. \A g \in FlagNames \ {"CF", "OF"} : lifted.flags[g] = f[g]
  BY DEF lift_rol, Result, Pick, SignZeroParity, FlagSets, FlagNames
<1> HIDE DEF lifted
<1>7. SameShift("rol", w, v, f, n, lifted)
  BY <1>3, <1>4, <1>5, <1>6 DEF SameShift, Shifts, Rotates, s, FlagNames
<1> QED
  BY <1>7 DEF n, lifted

\* lift_ror has the processor's result and carry, for counts below and above the
\* width.
LEMMA RorIsRight ==
    ASSUME NEW w \in Nat \ {0, 1}, NEW v \in SUBSET Positions(w), NEW f \in FlagSets,
           NEW count, Masked(w, count) \in Nat
    PROVE  SameShift("ror", w, v, f, Masked(w, count), lift_ror(w, v, count, f))
<1> DEFINE n == Masked(w, count)
           s == Rounds("ror", w, v, f.CF, n)
           lifted == lift_ror(w, v, count, f)
<1>1. f.CF \in BOOLEAN /\ n \in Nat /\ v \in SUBSET Int
  BY DEF FlagSets, FlagNames, Positions
<1> HIDE DEF n
<1> DEFINE r == n % w
<1>0. /\ r \in 0 .. w - 1
      /\ n = 0 => r = 0
      /\ n = 1 => r = 1
  BY <1>1
<1>2. /\ s.dest = Right(w, v, r)
      /\ n = 0 => s.cf = f.CF
      /\ n # 0 => s.cf = (w - 1 \in Right(w, v, r))
  <2>1. s = AfterRor(w, v, f.CF, n)
    BY <1>1, RorRounds
  <2> QED
    BY <2>1 DEF AfterRor
<1> HIDE DEF s, r
<1>3. lifted.result = s.dest
  <2>1. lifted.result = IF r = 0 THEN v ELSE LShr(v, r) \union Shl(w, v, w - r)
    BY DEF lift_ror, Result, Pick, SignZeroParity, FlagSets, FlagNames, n, r
  <2>2. r = 0 => Right(w, v, r) = v
    BY <1>1, NoTurn
  <2>3. r # 0 => LShr(v, r) \union Shl(w, v, w - r) = Right(w, v, r)
    <3> SUFFICES ASSUME r # 0 PROVE LShr(v, r) \union Shl(w, v, w - r) = Right(w, v, r)
      OBVIOUS
    <3>1. LShr(v, r) = {i \in Positions(w) : i + r \in v}
      BY <1>0, <1>1 DEF LShr, Positions
    <3>2. Shl(w, v, w - r) = {i \in Positions(w) : i + r - w \in v}
      BY <1>0, <1>1 DEF Shl, Positions
    <3> QED
      BY <3>1, <3>2 DEF Right
  <2> QED
    BY <1>2, <2>1, <2>2, <2>3
<1>4. lifted.flags.CF = s.cf \/ (n # 0 /\ n % w = 0)
  <2>1. lifted.flags.CF = IF r = 0 THEN f.CF ELSE w - 1 \in lifted.result
    BY DEF lift_ror, Result, Pick, SignZeroParity, FlagSets, FlagNames, n, r
  <2>2. n = 0 => r = 0
    BY <1>0
  <2> QED
    BY <1>0, <1>2, <1>3, <2>1, <2>2 DEF r
<1>5. /\ n = 1 => lifted.flags.OF = CpuOverflow("ror", w, v, s)
      /\ n = 0 => lifted.flags.OF = f.OF
  <2>1. lifted.flags.OF = IF r = 1
                          THEN LET t == LShr(v, r) \union Shl(w, v, w - r)
                               IN Xor1(w - 1 \in t, w - 2 \in t)
                          ELSE f.OF
    BY DEF lift_ror, Result, Pick, SignZeroParity, FlagSets, FlagNames, n, r
  <2> HIDE DEF lifted
  <2>2. r = 1 => s.dest = LShr(v, r) \union Shl(w, v, w - r)
    BY <1>3 DEF r, n, lifted, lift_ror, Result, Pick
  <2> QED
    BY <1>0, <2>1, <2>2 DEF CpuOverflow, Xor1
<1>6. \A g \in FlagNames \ {"CF", "OF"} : lifted.flags[g] = f[g]
  BY DEF lift_ror, Result, Pick, SignZeroParity, FlagSets, FlagNames
<1> HIDE DEF lifted
<1>7. SameShift("ror", w, v, f, n, lifted)
  BY <1>3, <1>4, <1>5, <1>6 DEF SameShift, Shifts, Rotates, s, FlagNames
<1> QED
  BY <1>7 DEF n, lifted

\* lift_rcl, which rotates a value one bit wider, has the processor's result and
\* carry.
LEMMA RclIsRight ==
    ASSUME NEW w \in Nat \ {0, 1}, NEW v \in SUBSET Positions(w), NEW f \in FlagSets,
           NEW count, Masked(w, count) \in Nat
    PROVE  SameShift("rcl", w, v, f, Masked(w, count), lift_rcl(w, v, count, f))
<1> DEFINE n == Masked(w, count)
           s == Rounds("rcl", w, v, f.CF, n)
           lifted == lift_rcl(w, v, count, f)
           r == n % (w + 1)
           both == CarryBelow(v, f.CF)
           turned == Left(w + 1, both, r)
           rotated == Shl(2 * w, both, r) \union LShr(both, w + 1 - r)
           result == Trunc(w, LShr(rotated, 1))
<1>1. f.CF \in BOOLEAN /\ n \in Nat
  BY DEF FlagSets, FlagNames
<1>2. r \in 0 .. w /\ (n = 0 => r = 0) /\ (n = 1 => r = 1)
  BY <1>1
<1>3. s = AfterRcl(w, v, f.CF, n)
  <2> HIDE DEF n
  <2> QED
    BY <1>1, RclRounds
<1>4. /\ both \in SUBSET Positions(w + 1)
      /\ both = Shl(2 * w, v, 1) \union Pick(f.CF, {0}, {})
      /\ v = {i \in Positions(w) : i + 1 \in both}
      /\ f.CF = (0 \in both)
  <2> DEFINE up == {i + 1 : i \in v}
  <2>1. up \in SUBSET (1 .. w) /\ Shl(2 * w, v, 1) = up /\ v = {i \in Positions(w) : i + 1 \in up}
    <3>1. up \in SUBSET (1 .. w)
      BY DEF Positions
    <3>2. Shl(2 * w, v, 1) = up
      BY DEF Shl, Positions
    <3>3. \A i \in Positions(w) : i + 1 \in up <=> i \in v
      BY DEF Positions
    <3> QED
      BY <3>1, <3>2, <3>3
  <2> HIDE DEF up
  <2>2. both = up \union Pick(f.CF, {0}, {})
    BY DEF CarryBelow, Pick, up
  <2>3. \A i \in Positions(w) : i + 1 # 0
    BY DEF Positions
  <2>4. 1 .. w \subseteq Positions(w + 1) /\ 0 \in Positions(w + 1) /\ 0 \notin 1 .. w
    BY DEF Positions
  <2>5. CASE f.CF
    BY <1>1, <2>1, <2>2, <2>3, <2>4, <2>5 DEF Pick
  <2>6. CASE ~f.CF
    <3>1. Pick(f.CF, {0}, {}) = {} /\ both = up
      BY <2>2, <2>6 DEF Pick
    <3>2. f.CF = (0 \in both)
      BY <1>1, <2>1, <2>4, <2>6, <3>1
    <3>3. both \in SUBSET Positions(w + 1)
      BY <2>1, <2>4, <3>1
    <3>4. Shl(2 * w, v, 1) \union Pick(f.CF, {0}, {}) = both
      BY <2>1, <3>1
    <3> QED
      BY <2>1, <3>1, <3>2, <3>3, <3>4
  <2> QED
    BY <2>5, <2>6
<1>5. /\ s.dest = {i \in Positions(w) : i + 1 \in turned}
      /\ n = 0 => s.cf = f.CF
      /\ n # 0 => s.cf = (0 \in turned)
  BY <1>3 DEF AfterRcl
<1>6. /\ lifted.result = IF r = 0 THEN v ELSE result
      /\ lifted.flags.CF = IF r = 0 THEN f.CF ELSE 0 \in rotated
      /\ lifted.flags.OF = IF r = 1 THEN Xor1(w - 1 \in result, 0 \in rotated) ELSE f.OF
      /\ \A g \in FlagNames \ {"CF", "OF"} : lifted.flags[g] = f[g]
  BY <1>4 DEF lift_rcl, RotateCount, Result, Pick, FlagSets, FlagNames
<1> HIDE DEF n, s, lifted, both, r
<1>7. r = 0 => turned = both
  <2>1. w + 1 \in Nat \ {0}
    OBVIOUS
  <2> QED
    BY <1>4, <2>1, NoTurn
<1>8. r # 0 => turned = rotated \intersect Positions(w + 1)
  <2> SUFFICES ASSUME r # 0 PROVE turned = rotated \intersect Positions(w + 1)
    OBVIOUS
  <2>1. Shl(2 * w, both, r) \intersect Positions(w + 1) = {i \in Positions(w + 1) : i - r \in both}
    BY <1>2, <1>4 DEF Shl, Positions
  <2>2. LShr(both, w + 1 - r) \intersect Positions(w + 1)
            = {i \in Positions(w + 1) : i - r + (w + 1) \in both}
    BY <1>2, <1>4 DEF LShr, Positions
  <2> QED
    BY <2>1, <2>2 DEF Left
<1> HIDE DEF turned
<1>9. r # 0 => result = {i \in Positions(w) : i + 1 \in turned} /\ (0 \in rotated <=> 0 \in turned)
  <2> SUFFICES ASSUME r # 0
               PROVE  result = {i \in Positions(w) : i + 1 \in turned} /\ (0 \in rotated <=> 0 \in turned)
    OBVIOUS
  <2>1. rotated \in SUBSET Int
    BY <1>2, <1>4 DEF Shl, LShr, Positions
  <2> HIDE DEF rotated
  <2>2. \A i \in Int : i \in LShr(rotated, 1) <=> i \in Nat /\ i + 1 \in rotated
    BY <2>1, LShrHas
  <2>3. result = {i \in Positions(w) : i + 1 \in rotated}
    BY <2>2 DEF Trunc, Positions
  <2>4. \A i \in Positions(w) : i + 1 \in Positions(w + 1)
    BY DEF Positions
  <2>5. 0 \in Positions(w + 1)
    BY DEF Positions
  <2> QED
    BY <1>8, <2>3, <2>4, <2>5
<1> HIDE DEF rotated, result
<1>10. lifted.result = s.dest
  BY <1>4, <1>5, <1>6, <1>7, <1>9
<1>11. lifted.flags.CF = s.cf
  <2>1. CASE r = 0
    BY <1>4, <1>5, <1>6, <1>7, <2>1
  <2>2. CASE r # 0
    BY <1>2, <1>5, <1>6, <1>9, <2>2
  <2> QED
    BY <2>1, <2>2
<1>12. /\ n = 1 => lifted.flags.OF = CpuOverflow("rcl", w, v, s)
       /\ n = 0 => lifted.flags.OF = f.OF
  BY <1>2, <1>5, <1>6, <1>9 DEF CpuOverflow, Xor1
<1>13. SameShift("rcl", w, v, f, n, lifted)
  BY <1>6, <1>10, <1>11, <1>12 DEF SameShift, Rotates, FlagNames, s
<1> QED
  BY <1>13 DEF n, lifted

\* lift_rcr, which rotates a value one bit wider, has the processor's result and
\* carry.
LEMMA RcrIsRight ==
    ASSUME NEW w \in Nat \ {0, 1}, NEW v \in SUBSET Positions(w), NEW f \in FlagSets,
           NEW count, Masked(w, count) \in Nat
    PROVE  SameShift("rcr", w, v, f, Masked(w, count), lift_rcr(w, v, count, f))
<1> DEFINE n == Masked(w, count)
           s == Rounds("rcr", w, v, f.CF, n)
           lifted == lift_rcr(w, v, count, f)
           r == n % (w + 1)
           both == CarryAbove(w, v, f.CF)
           turned == Right(w + 1, both, r)
           rotated == LShr(both, r) \union Shl(2 * w, both, w + 1 - r)
           result == Trunc(w, rotated)
<1>1. f.CF \in BOOLEAN /\ n \in Nat
  BY DEF FlagSets, FlagNames
<1>2. r \in 0 .. w /\ (n = 0 => r = 0) /\ (n = 1 => r = 1)
  BY <1>1
<1>3. s = AfterRcr(w, v, f.CF, n)
  <2> HIDE DEF n
  <2> QED
    BY <1>1, RcrRounds
<1>4. /\ both \in SUBSET Positions(w + 1)
      /\ both = v \union Shl(2 * w, Pick(f.CF, {0}, {}), w)
      /\ v = Positions(w) \intersect both
      /\ f.CF = (w \in both)
  <2>1. both = v \union Pick(f.CF, {w}, {})
    BY DEF CarryAbove, Pick
  <2>2. Shl(2 * w, Pick(f.CF, {0}, {}), w) = Pick(f.CF, {w}, {})
    <3>1. Shl(2 * w, {0}, w) = {w} /\ Shl(2 * w, {}, w) = {}
      BY DEF Shl, Positions
    <3> QED
      BY <3>1 DEF Pick
  <2>3. v \subseteq Positions(w) /\ w \notin Positions(w) /\ w \in Positions(w + 1)
           /\ Positions(w) \subseteq Positions(w + 1)
    BY DEF Positions
  <2>4. CASE f.CF
    BY <1>1, <2>1, <2>2, <2>3, <2>4 DEF Pick
  <2>5. CASE ~f.CF
    BY <1>1, <2>1, <2>2, <2>3, <2>5 DEF Pick
  <2> QED
    BY <2>4, <2>5
<1>5. /\ s.dest = Positions(w) \intersect turned
      /\ n = 0 => s.cf = f.CF
      /\ n # 0 => s.cf = (w \in turned)
  BY <1>3 DEF AfterRcr
<1>6. /\ lifted.result = IF r = 0 THEN v ELSE result
      /\ lifted.flags.CF = IF r = 0 THEN f.CF ELSE w \in rotated
      /\ lifted.flags.OF = IF r = 1 THEN Xor1(w - 1 \in result, w - 2 \in result) ELSE f.OF
      /\ \A g \in FlagNames \ {"CF", "OF"} : lifted.flags[g] = f[g]
  BY <1>4 DEF lift_rcr, RotateCount, Result, Pick, FlagSets, FlagNames
<1> HIDE DEF n, s, lifted, both, r
<1>7. r = 0 => turned = both
  <2>1. w + 1 \in Nat \ {0}
    OBVIOUS
  <2> QED
    BY <1>4, <2>1, NoTurn
<1>8. r # 0 => turned = rotated \intersect Positions(w + 1)
  <2> SUFFICES ASSUME r # 0 PROVE turned = rotated \intersect Positions(w + 1)
    OBVIOUS
  <2>1. LShr(both, r) \intersect Positions(w + 1) = {i \in Positions(w + 1) : i + r \in both}
    BY <1>2, <1>4 DEF LShr, Positions
  <2>2. Shl(2 * w, both, w + 1 - r) \intersect Positions(w + 1)
            = {i \in Positions(w + 1) : i + r - (w + 1) \in both}
    <3>1. /\ 2 * w \in Nat /\ both \in SUBSET Int /\ w + 1 - r \in Int
          /\ Positions(w + 1) \subseteq Positions(2 * w) \intersect Int
      BY <1>2, <1>4 DEF Positions
    <3>2. \A i \in Positions(w + 1) : i - (w + 1 - r) = i + r - (w + 1)
      BY <1>2 DEF Positions
    <3>3. \A i \in Positions(w + 1) : i \in Shl(2 * w, both, w + 1 - r) <=> i - (w + 1 - r) \in both
      BY <3>1, ShlHas
    <3> QED
      BY <3>2, <3>3
  <2> QED
    BY <2>1, <2>2 DEF Right
<1> HIDE DEF turned
<1>9. r # 0 => result = Positions(w) \intersect turned /\ (w \in rotated <=> w \in turned)
  <2>1. Positions(w) \subseteq Positions(w + 1) /\ w \in Positions(w + 1)
    BY DEF Positions
  <2> HIDE DEF rotated
  <2> QED
    BY <1>8, <2>1 DEF Trunc
<1> HIDE DEF rotated, result
<1>10. lifted.result = s.dest
  BY <1>4, <1>5, <1>6, <1>7, <1>9
<1>11. lifted.flags.CF = s.cf
  <2>1. CASE r = 0
    BY <1>4, <1>5, <1>6, <1>7, <2>1
  <2>2. CASE r # 0
    BY <1>2, <1>5, <1>6, <1>9, <2>2
  <2> QED
    BY <2>1, <2>2
<1>12. /\ n = 1 => lifted.flags.OF = CpuOverflow("rcr", w, v, s)
       /\ n = 0 => lifted.flags.OF = f.OF
  BY <1>2, <1>5, <1>6, <1>9 DEF CpuOverflow, Xor1
<1>13. SameShift("rcr", w, v, f, n, lifted)
  BY <1>6, <1>10, <1>11, <1>12 DEF SameShift, Rotates, FlagNames, s
<1> QED
  BY <1>13 DEF n, lifted

-----------------------------------------------------------------------------
(* Their flags *)

\* Choices between conditions are conditions.
LEMMA ChoiceBoolean ==
    ASSUME NEW c \in BOOLEAN, NEW a \in BOOLEAN, NEW b \in BOOLEAN
    PROVE  Pick(c, a, b) \in BOOLEAN /\ Xor1(a, b) \in BOOLEAN /\ (IF c THEN a ELSE b) \in BOOLEAN
  BY DEF Pick, Xor1

\* The values and the flags of the processor's loops are of their types.
LEMMA RoundsType ==
    ASSUME NEW op \in Shifts \union Rotates, NEW w \in Nat \ {0, 1},
           NEW v \in SUBSET Positions(w), NEW c \in BOOLEAN, NEW n \in Nat
    PROVE  /\ Rounds(op, w, v, c, n).dest \in SUBSET Positions(w)
           /\ Rounds(op, w, v, c, n).cf \in BOOLEAN
<1>1. CASE op = "shl"
  <2> DEFINE s == AfterShl(w, v, c, n)
  <2>1. s.dest \in SUBSET Positions(w)
    BY DEF AfterShl
  <2>2. s.cf = IF n = 0 THEN c ELSE w - n \in v
    BY DEF AfterShl
  <2>3. (w - n \in v) \in BOOLEAN /\ (n = 0) \in BOOLEAN
    OBVIOUS
  <2>4. (IF n = 0 THEN c ELSE w - n \in v) \in BOOLEAN
    BY <2>3, ChoiceBoolean
  <2> HIDE DEF s
  <2>5. Rounds("shl", w, v, c, n) = s
    BY ShlRounds DEF s
  <2> QED
    BY <1>1, <2>1, <2>2, <2>4, <2>5
<1>2. CASE op = "shr"
  <2> DEFINE s == AfterShr(w, v, c, n)
  <2>1. s.dest \in SUBSET Positions(w)
    BY DEF AfterShr
  <2>2. s.cf = IF n = 0 THEN c ELSE n - 1 \in v
    BY DEF AfterShr
  <2>3. (n - 1 \in v) \in BOOLEAN /\ (n = 0) \in BOOLEAN
    OBVIOUS
  <2>4. (IF n = 0 THEN c ELSE n - 1 \in v) \in BOOLEAN
    BY <2>3, ChoiceBoolean
  <2> HIDE DEF s
  <2>5. Rounds("shr", w, v, c, n) = s
    BY ShrRounds DEF s
  <2> QED
    BY <1>2, <2>1, <2>2, <2>4, <2>5
<1>3. CASE op = "sar"
  <2> DEFINE s == AfterSar(w, v, c, n)
  <2>1. s.dest \in SUBSET Positions(w)
    BY DEF AfterSar
  <2>2. s.cf = IF n = 0 THEN c ELSE n - 1 \in v \/ (n - 1 >= w /\ w - 1 \in v)
    BY DEF AfterSar
  <2>3. (n - 1 \in v \/ (n - 1 >= w /\ w - 1 \in v)) \in BOOLEAN /\ (n = 0) \in BOOLEAN
    OBVIOUS
  <2>4. (IF n = 0 THEN c ELSE n - 1 \in v \/ (n - 1 >= w /\ w - 1 \in v)) \in BOOLEAN
    BY <2>3, ChoiceBoolean
  <2> HIDE DEF s
  <2>5. Rounds("sar", w, v, c, n) = s
    BY SarRounds DEF s
  <2> QED
    BY <1>3, <2>1, <2>2, <2>4, <2>5
<1>4. CASE op = "rol"
  <2> DEFINE s == AfterRol(w, v, c, n)
  <2>1. s.dest \in SUBSET Positions(w)
    BY DEF AfterRol, Left
  <2>2. s.cf = IF n = 0 THEN c ELSE 0 \in Left(w, v, n % w)
    BY DEF AfterRol
  <2>3. (0 \in Left(w, v, n % w)) \in BOOLEAN /\ (n = 0) \in BOOLEAN
    OBVIOUS
  <2>4. (IF n = 0 THEN c ELSE 0 \in Left(w, v, n % w)) \in BOOLEAN
    BY <2>3, ChoiceBoolean
  <2> HIDE DEF s
  <2>5. Rounds("rol", w, v, c, n) = s
    BY RolRounds DEF s
  <2> QED
    BY <1>4, <2>1, <2>2, <2>4, <2>5
<1>5. CASE op = "ror"
  <2> DEFINE s == AfterRor(w, v, c, n)
  <2>1. s.dest \in SUBSET Positions(w)
    BY DEF AfterRor, Right
  <2>2. s.cf = IF n = 0 THEN c ELSE w - 1 \in Right(w, v, n % w)
    BY DEF AfterRor
  <2>3. (w - 1 \in Right(w, v, n % w)) \in BOOLEAN /\ (n = 0) \in BOOLEAN
    OBVIOUS
  <2>4. (IF n = 0 THEN c ELSE w - 1 \in Right(w, v, n % w)) \in BOOLEAN
    BY <2>3, ChoiceBoolean
  <2> HIDE DEF s
  <2>5. Rounds("ror", w, v, c, n) = s
    BY RorRounds DEF s
  <2> QED
    BY <1>5, <2>1, <2>2, <2>4, <2>5
<1>6. CASE op = "rcl"
  <2> DEFINE s == AfterRcl(w, v, c, n)
  <2>1. s.dest \in SUBSET Positions(w)
    BY DEF AfterRcl
  <2>2. s.cf = IF n = 0 THEN c ELSE 0 \in Left(w + 1, CarryBelow(v, c), n % (w + 1))
    BY DEF AfterRcl
  <2>3. (0 \in Left(w + 1, CarryBelow(v, c), n % (w + 1))) \in BOOLEAN /\ (n = 0) \in BOOLEAN
    OBVIOUS
  <2>4. (IF n = 0 THEN c ELSE 0 \in Left(w + 1, CarryBelow(v, c), n % (w + 1))) \in BOOLEAN
    BY <2>3, ChoiceBoolean
  <2> HIDE DEF s
  <2>5. Rounds("rcl", w, v, c, n) = s
    BY RclRounds DEF s
  <2> QED
    BY <1>6, <2>1, <2>2, <2>4, <2>5
<1>7. CASE op = "rcr"
  <2> DEFINE s == AfterRcr(w, v, c, n)
  <2>1. s.dest \in SUBSET Positions(w)
    BY DEF AfterRcr
  <2>2. s.cf = IF n = 0 THEN c ELSE w \in Right(w + 1, CarryAbove(w, v, c), n % (w + 1))
    BY DEF AfterRcr
  <2>3. (w \in Right(w + 1, CarryAbove(w, v, c), n % (w + 1))) \in BOOLEAN /\ (n = 0) \in BOOLEAN
    OBVIOUS
  <2>4. (IF n = 0 THEN c ELSE w \in Right(w + 1, CarryAbove(w, v, c), n % (w + 1))) \in BOOLEAN
    BY <2>3, ChoiceBoolean
  <2> HIDE DEF s
  <2>5. Rounds("rcr", w, v, c, n) = s
    BY RcrRounds DEF s
  <2> QED
    BY <1>7, <2>1, <2>2, <2>4, <2>5
<1> QED
  BY <1>1, <1>2, <1>3, <1>4, <1>5, <1>6, <1>7 DEF Shifts, Rotates

\* Setting CF and OF keeps a set of flags.
LEMMA CarryAndOverflowType ==
    ASSUME NEW f \in FlagSets, NEW c \in BOOLEAN, NEW o \in BOOLEAN
    PROVE  [f EXCEPT !.CF = c, !.OF = o] \in FlagSets
  BY DEF FlagSets, FlagNames

\* The processor's flags after a shift or rotation are flags.
LEMMA CpuShiftType ==
    ASSUME NEW op \in Shifts \union Rotates, NEW w \in Nat \ {0, 1},
           NEW v \in SUBSET Positions(w), NEW count \in SUBSET Positions(QwordBits),
           NEW f \in FlagSets
    PROVE  CpuShift(op, w, v, count, f).flags \in FlagSets
<1> DEFINE n == NatOf(count) % CountMask(w)
           s == Rounds(op, w, v, f.CF, n)
           base == IF op \in Shifts THEN ByResult(w, s.dest, f) ELSE f
           of == CpuOverflow(op, w, v, s)
<1>1. n \in Nat /\ f.CF \in BOOLEAN
  BY CountsAgree DEF FlagSets, FlagNames
<1> HIDE DEF n
<1>2. s.cf \in BOOLEAN
  BY <1>1, RoundsType
<1>3. of \in BOOLEAN
  <2>1. CASE op \in {"shl", "rol", "rcl"}
    BY <2>1 DEF CpuOverflow
  <2>2. CASE op = "sar"
    BY <2>2 DEF CpuOverflow
  <2>3. CASE op = "shr"
    BY <2>3 DEF CpuOverflow
  <2>4. CASE op \in {"ror", "rcr"}
    BY <2>4 DEF CpuOverflow
  <2> QED
    BY <2>1, <2>2, <2>3, <2>4 DEF Shifts, Rotates
<1>4. base \in FlagSets
  BY SignZeroParityType
<1> HIDE DEF s, base, of
<1>5. [base EXCEPT !.CF = s.cf, !.OF = of] \in FlagSets
  BY <1>2, <1>3, <1>4, CarryAndOverflowType
<1>6. CpuShift(op, w, v, count, f).flags
          = IF n = 0 THEN f ELSE [base EXCEPT !.CF = s.cf, !.OF = of]
  BY DEF CpuShift, base, of, s, n
<1> QED
  BY <1>5, <1>6

\* The flags of the result, after a count that is not zero, and the other flags.
ResultFlags == {"SF", "ZF", "PF"}

\* lift_shl sets the flags by result for a count other than 0 and none for 0.
LEMMA ShlFlags ==
    ASSUME NEW w, NEW L, NEW count, NEW f \in FlagSets
    PROVE  LET lifted == lift_shl(w, L, count, f)
               n == Masked(w, count)
           IN /\ lifted.flags \in FlagSets
              /\ n # 0 => \A g \in ResultFlags :
                    lifted.flags[g] = SignZeroParity(w, lifted.result, f)[g]
              /\ n = 0 => \A g \in ResultFlags : lifted.flags[g] = f[g]
<1> DEFINE n == Masked(w, count)
           result == Pick(n > w - 1, {}, Shl(w, L, n))
           r == Pick(n # 0, SignZeroParity(w, result, f), f)
           c == Pick(n # 0, 0 \in LShr(Shl(w, L, n - 1), w - 1), f.CF)
           o == Pick(n = 1, Xor1(w - 1 \in result, w - 1 \in L), f.OF)
<1>1. lift_shl(w, L, count, f) = Result(result, [r EXCEPT !.CF = c, !.OF = o])
  BY DEF lift_shl
<1>2. c \in BOOLEAN /\ o \in BOOLEAN
  <2>1. /\ (n # 0) \in BOOLEAN /\ (0 \in LShr(Shl(w, L, n - 1), w - 1)) \in BOOLEAN
        /\ f.CF \in BOOLEAN /\ f.OF \in BOOLEAN /\ (n = 1) \in BOOLEAN
        /\ Xor1(w - 1 \in result, w - 1 \in L) \in BOOLEAN
    BY DEF Xor1, FlagSets, FlagNames
  <2> QED
    BY <2>1, ChoiceBoolean
<1>3. r \in FlagSets
  BY SignZeroParityType DEF Pick
<1>4. r = IF n # 0 THEN SignZeroParity(w, result, f) ELSE f
  BY DEF Pick
<1> HIDE DEF n, result, r, c, o
<1>5. [r EXCEPT !.CF = c, !.OF = o] \in FlagSets
  BY <1>2, <1>3, CarryAndOverflowType
<1>6. \A g \in ResultFlags : [r EXCEPT !.CF = c, !.OF = o][g] = r[g]
  BY <1>3 DEF ResultFlags, FlagSets, FlagNames
<1> QED
  BY <1>1, <1>4, <1>5, <1>6 DEF Result, n

\* lift_shr sets the flags by result for a count other than 0 and none for 0.
LEMMA ShrFlags ==
    ASSUME NEW w, NEW L, NEW count, NEW f \in FlagSets
    PROVE  LET lifted == lift_shr(w, L, count, f)
               n == Masked(w, count)
           IN /\ lifted.flags \in FlagSets
              /\ n # 0 => \A g \in ResultFlags :
                    lifted.flags[g] = SignZeroParity(w, lifted.result, f)[g]
              /\ n = 0 => \A g \in ResultFlags : lifted.flags[g] = f[g]
<1> DEFINE n == Masked(w, count)
           result == Pick(n > w - 1, {}, LShr(L, n))
           r == Pick(n # 0, SignZeroParity(w, result, f), f)
           c == Pick(n # 0, 0 \in LShr(L, n - 1), f.CF)
           o == Pick(n = 1, computeSignFlag(w, L), f.OF)
<1>1. lift_shr(w, L, count, f) = Result(result, [r EXCEPT !.CF = c, !.OF = o])
  BY DEF lift_shr
<1>2. c \in BOOLEAN /\ o \in BOOLEAN
  <2>1. /\ (n # 0) \in BOOLEAN /\ (0 \in LShr(L, n - 1)) \in BOOLEAN
        /\ f.CF \in BOOLEAN /\ f.OF \in BOOLEAN /\ (n = 1) \in BOOLEAN
        /\ computeSignFlag(w, L) \in BOOLEAN
    BY DEF computeSignFlag, FlagSets, FlagNames
  <2> QED
    BY <2>1, ChoiceBoolean
<1>3. r \in FlagSets
  BY SignZeroParityType DEF Pick
<1>4. r = IF n # 0 THEN SignZeroParity(w, result, f) ELSE f
  BY DEF Pick
<1> HIDE DEF n, result, r, c, o
<1>5. [r EXCEPT !.CF = c, !.OF = o] \in FlagSets
  BY <1>2, <1>3, CarryAndOverflowType
<1>6. \A g \in ResultFlags : [r EXCEPT !.CF = c, !.OF = o][g] = r[g]
  BY <1>3 DEF ResultFlags, FlagSets, FlagNames
<1> QED
  BY <1>1, <1>4, <1>5, <1>6 DEF Result, n

\* lift_sar sets the flags by result for a count other than 0; for 0 it keeps SF
\* alone.
LEMMA SarFlags ==
    ASSUME NEW w \in Nat \ {0, 1}, NEW L, NEW count, NEW f \in FlagSets, Masked(w, count) \in Nat
    PROVE  LET lifted == lift_sar(w, L, count, f)
               n == Masked(w, count)
           IN /\ lifted.flags \in FlagSets
              /\ n # 0 => \A g \in ResultFlags :
                    lifted.flags[g] = SignZeroParity(w, lifted.result, f)[g]
              /\ n = 0 => lifted.flags["SF"] = f["SF"]
<1> DEFINE n == Masked(w, count)
           isZeroed == n > w - 1
           clampedCount == Pick(isZeroed, w - 1, n)
           result == AShr(w, L, clampedCount)
           isNotZero == clampedCount # 0
           sf == Pick(isNotZero, computeSignFlag(w, result), f.SF)
           zf == Pick(isNotZero, computeZeroFlag(result), f.PF)
           pf == Pick(isNotZero, computeParityFlag(result), f.ZF)
           cf == Pick(isZeroed, 0 \in AShr(w, L, w - 1), Pick(isNotZero, 0 \in AShr(w, L, n - 1), f.CF))
           set == [f EXCEPT !.SF = sf, !.ZF = zf, !.PF = pf, !.CF = cf, !.OF = FALSE]
           szp == [f EXCEPT !.SF = computeSignFlag(w, result), !.ZF = computeZeroFlag(result),
                            !.PF = computeParityFlag(result)]
<1>1. lift_sar(w, L, count, f) = Result(result, set)
  BY DEF lift_sar
<1>2. isNotZero <=> n # 0
  BY DEF Pick
<1>3. SignZeroParity(w, result, f) = szp
  BY DEF SignZeroParity
<1>4. /\ sf \in BOOLEAN /\ zf \in BOOLEAN /\ pf \in BOOLEAN /\ cf \in BOOLEAN
  <2> DEFINE c2 == Pick(isNotZero, 0 \in AShr(w, L, n - 1), f.CF)
  <2>1. /\ computeSignFlag(w, result) \in BOOLEAN /\ computeZeroFlag(result) \in BOOLEAN
        /\ computeParityFlag(result) \in BOOLEAN
        /\ f.SF \in BOOLEAN /\ f.PF \in BOOLEAN /\ f.ZF \in BOOLEAN /\ f.CF \in BOOLEAN
        /\ isNotZero \in BOOLEAN /\ isZeroed \in BOOLEAN
        /\ (0 \in AShr(w, L, n - 1)) \in BOOLEAN /\ (0 \in AShr(w, L, w - 1)) \in BOOLEAN
    BY DEF computeSignFlag, computeZeroFlag, computeParityFlag, FlagSets, FlagNames
  <2>2. sf \in BOOLEAN /\ zf \in BOOLEAN /\ pf \in BOOLEAN /\ c2 \in BOOLEAN
    BY <2>1, ChoiceBoolean
  <2>3. cf \in BOOLEAN
    <3> HIDE DEF c2, isNotZero, isZeroed
    <3>1. cf = Pick(isZeroed, 0 \in AShr(w, L, w - 1), c2)
      BY DEF c2
    <3> QED
      BY <2>1, <2>2, <3>1, ChoiceBoolean
  <2> QED
    BY <2>2, <2>3
<1>5. /\ isNotZero => /\ sf = computeSignFlag(w, result) /\ zf = computeZeroFlag(result)
                      /\ pf = computeParityFlag(result)
      /\ ~isNotZero => sf = f.SF
  BY DEF Pick
<1> DEFINE x == computeSignFlag(w, result)
           y == computeZeroFlag(result)
           z == computeParityFlag(result)
<1> HIDE DEF n, isNotZero, sf, zf, pf, cf, x, y, z, result
<1>6. set \in FlagSets
  BY <1>4 DEF FlagSets, FlagNames
<1>7. set["SF"] = sf /\ set["ZF"] = zf /\ set["PF"] = pf
  BY DEF FlagSets, FlagNames
<1>8. szp["SF"] = x /\ szp["ZF"] = y /\ szp["PF"] = z
  BY DEF FlagSets, FlagNames, x, y, z
<1>9. isNotZero => \A g \in ResultFlags : set[g] = szp[g]
  <2> HIDE DEF set, szp
  <2> QED
    BY <1>5, <1>7, <1>8 DEF ResultFlags, x, y, z
<1>10. ~isNotZero => set["SF"] = f["SF"]
  <2> HIDE DEF set
  <2> QED
    BY <1>5, <1>7
<1> HIDE DEF set, szp
<1> QED
  BY <1>1, <1>2, <1>3, <1>6, <1>9, <1>10 DEF Result, n

\* The rotations change two flags.
LEMMA RotateFlags ==
    ASSUME NEW w, NEW L, NEW count, NEW f \in FlagSets
    PROVE  /\ lift_rol(w, L, count, f).flags \in FlagSets
           /\ lift_ror(w, L, count, f).flags \in FlagSets
           /\ lift_rcl(w, L, count, f).flags \in FlagSets
           /\ lift_rcr(w, L, count, f).flags \in FlagSets
<1>0. f.CF \in BOOLEAN /\ f.OF \in BOOLEAN
  BY DEF FlagSets, FlagNames
<1>1. lift_rol(w, L, count, f).flags \in FlagSets
  <2> DEFINE n == Masked(w, count) % w
             result == Pick(n = 0, L, Shl(w, L, n) \union LShr(L, w - n))
             cf == Pick(n = 0, f.CF, 0 \in LShr(L, w - n))
             of == Pick(n = 1, Xor1(cf, w - 1 \in result), f.OF)
  <2>1. lift_rol(w, L, count, f).flags = [f EXCEPT !.CF = cf, !.OF = of]
    BY DEF lift_rol, Result
  <2>2. cf \in BOOLEAN /\ of \in BOOLEAN
    <3>1. /\ (0 \in LShr(L, w - n)) \in BOOLEAN /\ Xor1(cf, w - 1 \in result) \in BOOLEAN
          /\ (n = 0) \in BOOLEAN /\ (n = 1) \in BOOLEAN
      BY DEF Xor1
    <3> QED
      BY <1>0, <3>1, ChoiceBoolean
  <2> HIDE DEF cf, of
  <2> QED
    BY <2>1, <2>2, CarryAndOverflowType
<1>2. lift_ror(w, L, count, f).flags \in FlagSets
  <2> DEFINE n == Masked(w, count) % w
             rotated == LShr(L, n) \union Shl(w, L, w - n)
             cf == Pick(n = 0, f.CF, w - 1 \in rotated)
             of == Pick(n = 1, Xor1(w - 1 \in rotated, w - 2 \in rotated), f.OF)
  <2>1. lift_ror(w, L, count, f).flags = [f EXCEPT !.CF = cf, !.OF = of]
    BY DEF lift_ror, Result
  <2>2. cf \in BOOLEAN /\ of \in BOOLEAN
    <3>1. /\ (w - 1 \in rotated) \in BOOLEAN /\ Xor1(w - 1 \in rotated, w - 2 \in rotated) \in BOOLEAN
          /\ (n = 0) \in BOOLEAN /\ (n = 1) \in BOOLEAN
      BY DEF Xor1
    <3> QED
      BY <1>0, <3>1, ChoiceBoolean
  <2> HIDE DEF cf, of
  <2> QED
    BY <2>1, <2>2, CarryAndOverflowType
<1>3. lift_rcl(w, L, count, f).flags \in FlagSets
  <2> DEFINE n == RotateCount(w, count)
             both == Shl(2 * w, L, 1) \union Pick(f.CF, {0}, {})
             rotated == Shl(2 * w, both, n) \union LShr(both, w + 1 - n)
             result == Trunc(w, LShr(rotated, 1))
             cf == Pick(n = 0, f.CF, 0 \in rotated)
             of == Pick(n = 1, Xor1(w - 1 \in result, 0 \in rotated), f.OF)
  <2>1. lift_rcl(w, L, count, f).flags = [f EXCEPT !.CF = cf, !.OF = of]
    BY DEF lift_rcl, Result
  <2>2. cf \in BOOLEAN /\ of \in BOOLEAN
    <3>1. /\ (0 \in rotated) \in BOOLEAN /\ Xor1(w - 1 \in result, 0 \in rotated) \in BOOLEAN
          /\ (n = 0) \in BOOLEAN /\ (n = 1) \in BOOLEAN
      BY DEF Xor1
    <3> QED
      BY <1>0, <3>1, ChoiceBoolean
  <2> HIDE DEF cf, of
  <2> QED
    BY <2>1, <2>2, CarryAndOverflowType
<1>4. lift_rcr(w, L, count, f).flags \in FlagSets
  <2> DEFINE n == RotateCount(w, count)
             both == L \union Shl(2 * w, Pick(f.CF, {0}, {}), w)
             rotated == LShr(both, n) \union Shl(2 * w, both, w + 1 - n)
             result == Trunc(w, rotated)
             cf == Pick(n = 0, f.CF, w \in rotated)
             of == Pick(n = 1, Xor1(w - 1 \in result, w - 2 \in result), f.OF)
  <2>1. lift_rcr(w, L, count, f).flags = [f EXCEPT !.CF = cf, !.OF = of]
    BY DEF lift_rcr, Result
  <2>2. cf \in BOOLEAN /\ of \in BOOLEAN
    <3>1. /\ (w \in rotated) \in BOOLEAN /\ Xor1(w - 1 \in result, w - 2 \in result) \in BOOLEAN
          /\ (n = 0) \in BOOLEAN /\ (n = 1) \in BOOLEAN
      BY DEF Xor1
    <3> QED
      BY <1>0, <3>1, ChoiceBoolean
  <2> HIDE DEF cf, of
  <2> QED
    BY <2>1, <2>2, CarryAndOverflowType
<1> QED
  BY <1>1, <1>2, <1>3, <1>4

\* The flags in which an instruction is not the processor's (WrongFlags), for any instruction.
WrongOf(i) ==
    LET noCount == i.count = 0
        wholeTurn == i.count # 0 /\ i.count % i.width = 0
    IN CASE i.name = "sar" /\ noCount  -> {"ZF", "PF", "OF"}
         [] i.name = "shld" /\ noCount -> {"SF", "ZF", "PF"}
         [] i.name = "shrd" /\ noCount -> {"SF", "ZF", "PF", "CF", "OF"}
         [] i.name \in {"rol", "ror"} /\ wholeTurn -> {"CF"}
         [] i.name = "cmpxchg" -> {"PF"}
         [] i.name \in {"lzcnt", "tzcnt"} -> {"CF", "ZF"}
         [] i.name \in {"blsi", "blsr"} -> {"CF", "OF"}
         [] i.name = "blsmsk" -> {"OF"}
         [] i.name = "bzhi" -> {"CF", "ZF", "SF"}
         [] i.name = "bextr" -> {"CF", "ZF", "OF"}
         [] OTHER -> {}

\* Two sets of flags agree where they are defined and right.
Agree(lifted, cpu, undefined, wrong) ==
    \A g \in FlagNames : lifted[g] = cpu[g] \/ g \in undefined \/ g \in wrong

\* No round of the manual's loop changes nothing.
LEMMA NoRounds ==
    ASSUME NEW op, NEW w, NEW v, NEW c
    PROVE  Rounds(op, w, v, c, 0) = [dest |-> v, cf |-> c]
<1> DEFINE Loop(h)  == [k \in 0 .. 0 |->
                          IF k = 0 THEN [dest |-> v, cf |-> c] ELSE Round(op, w, h[k - 1])]
           after    == CHOOSE h : h = Loop(h)
           known    == [k \in 0 .. 0 |-> [dest |-> v, cf |-> c]]
<1>1. Rounds(op, w, v, c, 0) = after[0]
  BY DEF Rounds
<1>2. known = Loop(known)
  <2>1. ASSUME NEW k \in 0 .. 0 PROVE k = 0
    OBVIOUS
  <2> QED
    BY <2>1
<1>3. after = Loop(after)
  <2> HIDE DEF Loop, known
  <2> QED
    BY <1>2
<1>4. after[0] = [dest |-> v, cf |-> c]
  <2> HIDE DEF after
  <2> QED
    BY <1>3
<1> QED
  BY <1>1, <1>4

\* What the seven shifts and rotations have in common, the count of 0 included.
LEMMA LiftedShiftFlags ==
    ASSUME NEW op \in Shifts \union Rotates, NEW w \in Nat \ {0, 1},
           NEW v \in SUBSET Positions(w), NEW count, Masked(w, count) \in Nat, flags \in FlagSets
    PROVE  LET lifted == LiftShift(op, w, v, count)
               n == Masked(w, count)
           IN /\ SameShift(op, w, v, flags, n, lifted)
              /\ lifted.flags \in FlagSets
              /\ op \in Shifts /\ n # 0 => \A g \in ResultFlags :
                    lifted.flags[g] = SignZeroParity(w, lifted.result, flags)[g]
              /\ op \in {"shl", "shr"} /\ n = 0 => \A g \in ResultFlags :
                    lifted.flags[g] = flags[g]
              /\ op = "sar" /\ n = 0 => lifted.flags["SF"] = flags["SF"]
<1>1. CASE op = "shl"
  <2>1. LiftShift(op, w, v, count) = lift_shl(w, v, count, flags)
    BY <1>1 DEF LiftShift
  <2> QED
    BY <1>1, <2>1, ShlIsRight, ShlFlags
<1>2. CASE op = "shr"
  <2>1. LiftShift(op, w, v, count) = lift_shr(w, v, count, flags)
    BY <1>2 DEF LiftShift
  <2> QED
    BY <1>2, <2>1, ShrIsRight, ShrFlags
<1>3. CASE op = "sar"
  <2>1. LiftShift(op, w, v, count) = lift_sar(w, v, count, flags)
    BY <1>3 DEF LiftShift
  <2> QED
    BY <1>3, <2>1, SarIsRight, SarFlags
<1>4. CASE op = "rol"
  <2>1. LiftShift(op, w, v, count) = lift_rol(w, v, count, flags) /\ op \notin Shifts
    BY <1>4 DEF LiftShift, Shifts
  <2> QED
    BY <1>4, <2>1, RolIsRight, RotateFlags
<1>5. CASE op = "ror"
  <2>1. LiftShift(op, w, v, count) = lift_ror(w, v, count, flags) /\ op \notin Shifts
    BY <1>5 DEF LiftShift, Shifts
  <2> QED
    BY <1>5, <2>1, RorIsRight, RotateFlags
<1>6. CASE op = "rcl"
  <2>1. LiftShift(op, w, v, count) = lift_rcl(w, v, count, flags) /\ op \notin Shifts
    BY <1>6 DEF LiftShift, Shifts
  <2> QED
    BY <1>6, <2>1, RclIsRight, RotateFlags
<1>7. CASE op = "rcr"
  <2>1. LiftShift(op, w, v, count) = lift_rcr(w, v, count, flags) /\ op \notin Shifts
    BY <1>7 DEF LiftShift, Shifts
  <2> QED
    BY <1>7, <2>1, RcrIsRight, RotateFlags
<1> QED
  BY <1>1, <1>2, <1>3, <1>4, <1>5, <1>6, <1>7 DEF Shifts, Rotates

\* A shift and a rotation: the result, and every flag the manual defines, but for the
\* counts of zero and the whole turns.
THEOREM ShiftAgrees ==
    ASSUME NEW op \in Shifts \union Rotates, NEW w \in Nat \ {0, 1},
           NEW v \in SUBSET Positions(w), NEW count \in SUBSET Positions(QwordBits),
           flags \in FlagSets
    PROVE  LET lifted == LiftShift(op, w, v, count)
               c == CpuShift(op, w, v, count, flags)
           IN /\ lifted.result = c.result
              /\ lifted.result \in SUBSET Positions(w)
              /\ lifted.flags \in FlagSets
              /\ Agree(lifted.flags, c.flags, c.undefined,
                       WrongOf(Instruction(op, w, v, {}, Masked(w, count))))
<1> DEFINE n == Masked(w, count)
           s == Rounds(op, w, v, flags.CF, n)
           lifted == LiftShift(op, w, v, count)
           c == CpuShift(op, w, v, count, flags)
           base == IF op \in Shifts THEN ByResult(w, s.dest, flags) ELSE flags
           of == CpuOverflow(op, w, v, s)
           undef == (IF n > 1 THEN {"OF"} ELSE {})
            \union (IF n > 0 /\ op \in Shifts THEN {"AF"} ELSE {})
            \union (IF n >= w /\ op \in {"shl", "shr"} THEN {"CF"} ELSE {})
           wrong == WrongOf(Instruction(op, w, v, {}, n))
<1>1. n = NatOf(count) % CountMask(w) /\ n \in Nat /\ flags.CF \in BOOLEAN
  BY CountsAgree DEF FlagSets, FlagNames
<1>2. /\ SameShift(op, w, v, flags, n, lifted)
      /\ lifted.flags \in FlagSets
      /\ op \in Shifts /\ n # 0 => \A g \in ResultFlags :
                    lifted.flags[g] = SignZeroParity(w, lifted.result, flags)[g]
      /\ op \in {"shl", "shr"} /\ n = 0 => \A g \in ResultFlags :
                    lifted.flags[g] = flags[g]
      /\ op = "sar" /\ n = 0 => lifted.flags["SF"] = flags["SF"]
  BY <1>1, LiftedShiftFlags
<1>3. /\ c.result = s.dest
      /\ c.flags = IF n = 0 THEN flags ELSE [base EXCEPT !.CF = s.cf, !.OF = of]
      /\ c.undefined = undef
  BY <1>1 DEF CpuShift
<1>4. wrong = IF op = "sar" /\ n = 0 THEN {"ZF", "PF", "OF"}
              ELSE IF op \in {"rol", "ror"} /\ n # 0 /\ n % w = 0 THEN {"CF"} ELSE {}
  BY DEF WrongOf, Instruction, Shifts, Rotates
<1> HIDE DEF n, wrong
<1>5. s.dest \in SUBSET Positions(w) /\ s.cf \in BOOLEAN
  BY <1>1, RoundsType
<1>6. n = 0 => s.cf = flags.CF
  BY NoRounds
<1>7. /\ lifted.result = s.dest
      /\ (op \in {"rol", "ror"} /\ n # 0 /\ n % w = 0) \/ lifted.flags["CF"] = s.cf
      /\ n = 1 => lifted.flags["OF"] = of
      /\ n = 0 /\ op # "sar" => lifted.flags["OF"] = flags["OF"]
      /\ \A g \in {"AF", "DF", "IF"} : lifted.flags[g] = flags[g]
      /\ op \in Rotates => \A g \in {"SF", "ZF", "PF"} : lifted.flags[g] = flags[g]
  <2> HIDE DEF lifted
  <2> QED
    BY <1>2 DEF SameShift
<1>8. SignZeroParity(w, lifted.result, flags) = ByResult(w, s.dest, flags)
  BY <1>5, <1>7, ResultFlagsAgree
<1>9. base \in FlagSets
  BY SignZeroParityType
<1>10. \A g \in {"AF", "DF", "IF"} : base[g] = flags[g]
  BY DEF ByResult, FlagSets, FlagNames
<1>11. of \in BOOLEAN /\ [base EXCEPT !.CF = s.cf, !.OF = of] \in FlagSets
  <2>1. of \in BOOLEAN
    <3>1. CASE op \in {"shl", "rol", "rcl"}
      BY <3>1 DEF CpuOverflow
    <3>2. CASE op = "sar"
      BY <3>2 DEF CpuOverflow
    <3>3. CASE op = "shr"
      BY <3>3 DEF CpuOverflow
    <3>4. CASE op \in {"ror", "rcr"}
      BY <3>4 DEF CpuOverflow
    <3> QED
      BY <3>1, <3>2, <3>3, <3>4 DEF Shifts, Rotates
  <2> HIDE DEF s, base, of
  <2> QED
    BY <1>5, <1>9, <2>1, CarryAndOverflowType
<1> DEFINE set == [base EXCEPT !.CF = s.cf, !.OF = of]
<1> HIDE DEF s, lifted, c, of
<1>12. Shifts \intersect Rotates = {}
  BY DEF Shifts, Rotates
<1>13. ASSUME n # 0
       PROVE  Agree(lifted.flags, set, undef, wrong)
  <2>1. \A g \in ResultFlags : lifted.flags[g] = base[g]
    <3>1. CASE op \in Shifts
      BY <1>2, <1>8, <1>13, <3>1
    <3>2. CASE op \in Rotates
      BY <1>7, <1>12, <3>2 DEF ResultFlags
    <3> QED
      BY <3>1, <3>2
  <2> HIDE DEF base
  <2>2. /\ set["CF"] = s.cf /\ set["OF"] = of
        /\ \A g \in FlagNames \ {"CF", "OF"} : set[g] = base[g]
    BY <1>9 DEF FlagSets, FlagNames
  <2> HIDE DEF set
  <2>3. \A g \in FlagNames \ {"CF", "OF"} : lifted.flags[g] = set[g]
    BY <1>7, <1>10, <2>1, <2>2 DEF FlagNames, ResultFlags
  <2>4. lifted.flags["CF"] = set["CF"] \/ "CF" \in wrong
    BY <1>4, <1>7, <2>2
  <2>5. lifted.flags["OF"] = set["OF"] \/ "OF" \in undef
    BY <1>1, <1>7, <1>13, <2>2
  <2> HIDE DEF undef
  <2> QED
    BY <2>3, <2>4, <2>5 DEF Agree
<1>14. ASSUME n = 0
       PROVE  Agree(lifted.flags, flags, undef, wrong)
  <2> HIDE DEF undef
  <2>1. CASE op \in {"shl", "shr"}
    BY <1>2, <1>6, <1>7, <1>14, <2>1 DEF Agree, FlagNames, ResultFlags
  <2>2. CASE op = "sar"
    BY <1>2, <1>4, <1>6, <1>7, <1>14, <2>2 DEF Agree, FlagNames, ResultFlags
  <2>3. CASE op \in Rotates
    <3>1. op # "sar"
      BY <2>3 DEF Rotates
    <3> QED
      BY <1>2, <1>6, <1>7, <1>14, <2>3, <3>1 DEF Agree, FlagNames, ResultFlags
  <2> QED
    BY <2>1, <2>2, <2>3 DEF Shifts
<1>15. Agree(lifted.flags, c.flags, c.undefined, wrong)
  <2> HIDE DEF undef, base, set
  <2>1. c.flags = IF n = 0 THEN flags ELSE set
    BY <1>3 DEF set
  <2> QED
    BY <1>3, <1>13, <1>14, <2>1
<1> QED
  BY <1>2, <1>3, <1>5, <1>7, <1>15 DEF lifted, c, wrong, n
=============================================================================
