-------------------------------- MODULE Bits --------------------------------
(***************************************************************************)
(* Integer values of a given width as LLVM's folders compute them on       *)
(* constants.  A value is the set of the positions of its one bits, so     *)
(* the logical operations are those of sets.  A byte has ByteBits bits:    *)
(* eight in the code, fewer in a small instance, and every constant of     *)
(* the code that is about bytes (0xF, 0xFF, 0x1F, 0x3F) scales with it.    *)
(***************************************************************************)
EXTENDS Integers, FiniteSets

CONSTANT ByteBits

ASSUME ByteAssumption == ByteBits \in Nat \ {0, 1}

Positions(w) == 0 .. w - 1
QwordBits    == 8 * ByteBits

\* The number a value stands for, unsigned and signed, and back.
\* The sum is not MapThenSumSet's, whose operator arguments cost too much where TLC
\* counts how often each expression is evaluated.
NatOf(v) ==
    LET sum[s \in SUBSET v] ==
            IF s = {} THEN 0 ELSE 2^(CHOOSE x \in s : TRUE) + sum[s \ {CHOOSE x \in s : TRUE}]
    IN sum[v]
SignedOf(w, v) == NatOf(v) - (IF w - 1 \in v THEN 2^w ELSE 0)
BitsOf(w, n)   == {i \in Positions(w) : (n \div 2^i) % 2 = 1}

Xor(a, b)    == (a \ b) \union (b \ a)
Not(w, v)    == Positions(w) \ v
\* Fault: the bits shifted out at the top stay in the value.
ShlUncut(w, v, n) == {i + n : i \in v}

Shl(w, v, n) == {i + n : i \in v} \intersect Positions(w)
LShr(v, n)   == {i - n : i \in {j \in v : j >= n}}
AShr(w, v, n) ==
    LShr(v, n) \union (IF w - 1 \in v THEN {i \in Positions(w) : i >= w - n} ELSE {})

\* Widening with zeroes changes no position, so it has no operator here.
Trunc(w, v)       == v \intersect Positions(w)
SExt(from, to, v) == IF from - 1 \in v THEN v \union (from .. to - 1) ELSE v

Add(w, a, b) == BitsOf(w, NatOf(a) + NatOf(b))
Sub(w, a, b) == BitsOf(w, NatOf(a) - NatOf(b))
Mul(w, a, b) == BitsOf(w, SignedOf(w, a) * SignedOf(w, b))
ULT(a, b)    == NatOf(a) < NatOf(b)

\* One of two: createSelectFolder on a constant condition.
Pick(c, a, b) == IF c THEN a ELSE b

\* The i1 constants as conditions.
Xor1(p, q) == p # q
=============================================================================
