---------------------------- MODULE FolderProofs ----------------------------
(***************************************************************************)
(* Proofs about Folders: whatever the widths, the operands and the unknown *)
(* values are, a folder returns a term of the width it was asked for, with *)
(* the value of the operation it was asked for unless one of four patterns *)
(* went wrong, and computePossibleValues misses no value of it that it did *)
(* not look for in an argument, a sext or a trunc.                         *)
(*                                                                         *)
(* Every fold is shown to replace the operation: to be built from terms    *)
(* all the way down, of its width, and to have its value where it has one. *)
(* What the lifter knows of a term is shown by induction on its size.      *)
(***************************************************************************)
EXTENDS Folders, ValueProofs

-----------------------------------------------------------------------------
(* Values and operations *)

\* A width of a term is a number above zero, and no more than a register's.
LEMMA WidthIsNumber ==
    ASSUME NEW w \in 1 .. LongBits
    PROVE  w \in Nat \ {0} /\ Positions(w) \subseteq Positions(LongBits)
BY FolderAssumption DEF Positions

\* What stands for no value, and for the lifter's stop, is no set of positions.
LEMMA PoisonIsNoValue ==
    ASSUME NEW w \in Nat, NEW v \in SUBSET Positions(w)
    PROVE  v # Poison /\ v # Stopped
BY DEF Poison, Stopped, Positions

\* The kinds of operations have no operation in common.
LEMMA OpsAreApart ==
    /\ BinaryOps \intersect (Predicates \union Casts \union Leaves \union {"const", "select"})
         = {}
    /\ Operations \intersect (Leaves \union {"const"}) = {}
    /\ Predicates \intersect (Casts \union Leaves \union {"const", "select"}) = {}
    /\ Casts \intersect (Leaves \union {"const", "select"}) = {}
    /\ Leaves \intersect {"const", "select"} = {}
BY DEF BinaryOps, Predicates, Casts, Leaves, Operations

\* The signed number of a value is an integer.
LEMMA SignedOfIsNumber ==
    ASSUME NEW w \in Nat \ {0}, NEW v \in SUBSET Positions(w)
    PROVE  SignedOf(w, v) \in Int
<1>1. NatOf(v) \in Int /\ 2^w \in Int
  BY NatOfBound, PowerStep
<1> QED BY <1>1 DEF SignedOf

\* A shift to the left has a value of the width.
LEMMA ShlIsValue ==
    ASSUME NEW w \in Nat, NEW a, NEW n
    PROVE  Shl(w, a, n) \in SUBSET Positions(w)
BY DEF Shl

\* A shift to the right has no bit above the width.
LEMMA LShrIsValue ==
    ASSUME NEW w \in Nat, NEW a \in SUBSET Positions(w), NEW n \in Nat
    PROVE  LShr(a, n) \in SUBSET Positions(w)
BY DEF LShr, Positions

\* An operation that has a value has one of its width.
LEMMA ComputeIsValue ==
    ASSUME NEW op \in BinaryOps, NEW w \in Nat \ {0},
           NEW a \in SUBSET Positions(w), NEW b \in SUBSET Positions(w), Defined(op, w, b)
    PROVE  Compute(op, w, a, b) \in SUBSET Positions(w)
<1>1. NatOf(a) \in Nat /\ NatOf(b) \in Nat /\ (b # {} => NatOf(b) # 0)
  BY NatOfBound, ZeroNumber
<1>2. SignedOf(w, a) \in Int /\ SignedOf(w, b) \in Int
  BY SignedOfIsNumber
<1>3. CASE op \in {"add", "sub", "mul"}
  BY <1>1, <1>2, <1>3, BitsOfIsValue DEF Compute, Add, Sub, Mul, Predicates
<1>4. CASE op \in {"and", "or", "xor"}
  BY <1>4 DEF Compute, Xor, Predicates
<1>5. CASE op = "shl"
  BY <1>5, ShlIsValue DEF Compute, Predicates
<1>6. CASE op = "lshr"
  BY <1>1, <1>6, LShrIsValue DEF Compute, Predicates
<1>7. CASE op = "ashr"
  <2>1. AShr(w, a, NatOf(b)) \in SUBSET Positions(w)
    BY <1>1, LShrIsValue DEF AShr
  <2> QED BY <1>7, <2>1 DEF Compute, Predicates
<1>8. CASE op \in {"udiv", "urem"}
  <2>1. NatOf(b) \in Nat \ {0}
    BY <1>1, <1>8 DEF Defined
  <2>2. NatOf(a) \div NatOf(b) \in Int /\ NatOf(a) % NatOf(b) \in Int
    BY <1>1, <2>1
  <2> QED BY <1>8, <2>2, BitsOfIsValue DEF Compute, Predicates
<1> QED BY <1>3, <1>4, <1>5, <1>6, <1>7, <1>8 DEF BinaryOps

\* A comparison is always defined, and is a value of one bit.
LEMMA CompareIsValue ==
    ASSUME NEW op \in Predicates, NEW w, NEW a, NEW b
    PROVE  /\ Compute(op, w, a, b) = IF Holds(op, w, a, b) THEN {0} ELSE {}
           /\ Compute(op, w, a, b) \in SUBSET Positions(1)
           /\ Defined(op, w, b)
BY DEF Compute, Predicates, Positions, Defined

\* A comparison holds or does not.
LEMMA HoldsIsBoolean ==
    ASSUME NEW op \in Predicates, NEW w \in Nat \ {0},
           NEW a \in SUBSET Positions(w), NEW b \in SUBSET Positions(w)
    PROVE  Holds(op, w, a, b) \in BOOLEAN
<1>1. /\ NatOf(a) \in Int /\ NatOf(b) \in Int
      /\ SignedOf(w, a) \in Int /\ SignedOf(w, b) \in Int
  <2>1. NatOf(a) \in Int /\ NatOf(b) \in Int
    BY NatOfBound
  <2>2. \A v \in SUBSET Positions(w) : SignedOf(w, v) \in Int
    BY SignedOfIsNumber
  <2> QED BY <2>1, <2>2
<1>2. \A m, n \in Int : op \notin {"eq", "ne"} => Ordered(op, m, n) \in BOOLEAN
  <2> SUFFICES ASSUME NEW m \in Int, NEW n \in Int, op \notin {"eq", "ne"}
               PROVE  Ordered(op, m, n) \in BOOLEAN
    OBVIOUS
  <2>1. /\ op \in {"ult", "slt"} => Ordered(op, m, n) = (m < n)
        /\ op \in {"uge", "sge"} => Ordered(op, m, n) = (m >= n)
        /\ op \in {"ule", "sle"} => Ordered(op, m, n) = (m <= n)
        /\ op \in {"ugt", "sgt"} => Ordered(op, m, n) = (m > n)
    BY DEF Ordered
  <2>2. /\ (m < n) \in BOOLEAN /\ (m >= n) \in BOOLEAN
        /\ (m <= n) \in BOOLEAN /\ (m > n) \in BOOLEAN
    OBVIOUS
  <2>3. \/ op \in {"ult", "slt"} \/ op \in {"uge", "sge"}
        \/ op \in {"ule", "sle"} \/ op \in {"ugt", "sgt"}
    BY DEF Predicates
  <2> QED BY <2>1, <2>2, <2>3, Zenon
<1>3. CASE op = "eq" \/ op = "ne"
  BY <1>3 DEF Holds
<1>4. CASE op \in {"ult", "uge", "ule", "ugt"}
  <2>1. Holds(op, w, a, b) = Ordered(op, NatOf(a), NatOf(b))
    BY <1>4 DEF Holds
  <2> QED BY <1>1, <1>2, <1>4, <2>1
<1>5. CASE op \in {"slt", "sge", "sle", "sgt"}
  <2>1. Holds(op, w, a, b) = Ordered(op, SignedOf(w, a), SignedOf(w, b))
    BY <1>5 DEF Holds
  <2> QED BY <1>1, <1>2, <1>5, <2>1
<1> QED BY <1>3, <1>4, <1>5 DEF Predicates

\* A cast has a value of the width it is a cast to.
LEMMA ConvertedIsValue ==
    ASSUME NEW op \in Casts, NEW from \in Nat \ {0}, NEW to \in Nat \ {0},
           NEW v \in SUBSET Positions(from), op # "trunc" => from <= to
    PROVE  Converted(op, from, to, v) \in SUBSET Positions(to)
BY DEF Converted, Casts, SExt, Trunc, Positions

-----------------------------------------------------------------------------
(* Known bits *)

\* What may be known of a value: bits that are one and bits that are zero.
KnownBits(w) == [one : SUBSET Positions(w), zero : SUBSET Positions(w)]
Fits(k, v)   == k.one \subseteq v /\ k.zero \intersect v = {}

\* Every value fits no known bits.
LEMMA UnknownFits ==
    ASSUME NEW w, NEW v
    PROVE  Unknown \in KnownBits(w) /\ Fits(Unknown, v)
BY DEF Unknown, KnownBits, Fits

\* A constant fits its own bits.
LEMMA KnownConstFits ==
    ASSUME NEW w, NEW v \in SUBSET Positions(w)
    PROVE  KnownConst(w, v) \in KnownBits(w) /\ Fits(KnownConst(w, v), v)
BY DEF KnownConst, KnownBits, Fits

\* Where all bits are known there is one value.
LEMMA KnownIsValue ==
    ASSUME NEW w, NEW k \in KnownBits(w), UnknownBits(w, k) = {},
           NEW v \in SUBSET Positions(w), Fits(k, v)
    PROVE  v = k.one
BY DEF KnownBits, UnknownBits, Fits

\* A value that fits is one of those that are enumerated.
LEMMA ConcreteFits ==
    ASSUME NEW w, NEW k \in KnownBits(w), NEW v \in SUBSET Positions(w), Fits(k, v)
    PROVE  v \in Concretes(w, k)
<1>1. v \ k.one \in SUBSET UnknownBits(w, k) /\ v = k.one \union (v \ k.one)
  BY DEF UnknownBits, Fits
<1> QED BY <1>1 DEF Concretes

\* A shift to the left of more bits has more bits.
LEMMA ShlKeepsOrder ==
    ASSUME NEW w, NEW n, NEW a, NEW b, a \subseteq b
    PROVE  Shl(w, a, n) \subseteq Shl(w, b, n)
BY DEF Shl

\* So has a shift to the right.
LEMMA LShrKeepsOrder ==
    ASSUME NEW n, NEW a, NEW b, a \subseteq b
    PROVE  LShr(a, n) \subseteq LShr(b, n)
BY DEF LShr

\* What is known of the result of an operation fits what it computes, from all that
\* fits what is known of the operands (computeKnownBits).
LEMMA KnownBinaryIs ==
    ASSUME NEW op \in BinaryOps, NEW w \in Nat \ {0},
           NEW l \in KnownBits(w), NEW r \in KnownBits(w)
    PROVE  /\ KnownBinary(op, w, l, r) \in KnownBits(w)
           /\ \A a, b \in SUBSET Positions(w) :
                Fits(l, a) /\ Fits(r, b) /\ Defined(op, w, b)
                    => Fits(KnownBinary(op, w, l, r), Compute(op, w, a, b))
<1>1. l.one \in SUBSET Positions(w) /\ l.zero \in SUBSET Positions(w)
      /\ r.one \in SUBSET Positions(w) /\ r.zero \in SUBSET Positions(w)
  BY DEF KnownBits
<1>2. NatOf(r.one) \in Nat
  BY <1>1, NatOfBound
<1>3. CASE UnknownBits(w, r) = {} /\ ~Defined(op, w, r.one)
  BY <1>3, UnknownFits DEF KnownBinary
<1>4. CASE /\ ~(UnknownBits(w, r) = {} /\ ~Defined(op, w, r.one))
           /\ UnknownBits(w, l) = {} /\ UnknownBits(w, r) = {}
  <2>1. KnownBinary(op, w, l, r) = KnownConst(w, Compute(op, w, l.one, r.one))
    BY <1>4 DEF KnownBinary
  <2>2. Compute(op, w, l.one, r.one) \in SUBSET Positions(w)
    BY <1>1, <1>4, ComputeIsValue
  <2>3. ASSUME NEW a \in SUBSET Positions(w), NEW b \in SUBSET Positions(w),
               Fits(l, a), Fits(r, b)
        PROVE  a = l.one /\ b = r.one
    BY <1>4, <2>3, KnownIsValue
  <2> QED BY <2>1, <2>2, <2>3, KnownConstFits
<1>5. CASE /\ ~(UnknownBits(w, r) = {} /\ ~Defined(op, w, r.one))
           /\ ~(UnknownBits(w, l) = {} /\ UnknownBits(w, r) = {})
  <2>1. CASE op = "and"
    <3>1. KnownBinary(op, w, l, r)
            = [one |-> l.one \intersect r.one, zero |-> l.zero \union r.zero]
      BY <1>5, <2>1 DEF KnownBinary
    <3>2. \A a, b : Compute(op, w, a, b) = a \intersect b
      BY <2>1 DEF Compute, Predicates
    <3> QED BY <1>1, <3>1, <3>2 DEF KnownBits, Fits
  <2>2. CASE op = "or"
    <3>1. KnownBinary(op, w, l, r)
            = [one |-> l.one \union r.one, zero |-> l.zero \intersect r.zero]
      BY <1>5, <2>2 DEF KnownBinary
    <3>2. \A a, b : Compute(op, w, a, b) = a \union b
      BY <2>2 DEF Compute, Predicates
    <3> QED BY <1>1, <3>1, <3>2 DEF KnownBits, Fits
  <2>3. CASE op = "xor"
    <3>1. KnownBinary(op, w, l, r)
            = [one  |-> (l.one \intersect r.zero) \union (l.zero \intersect r.one),
               zero |-> (l.one \intersect r.one) \union (l.zero \intersect r.zero)]
      BY <1>5, <2>3 DEF KnownBinary
    <3>2. \A a, b : Compute(op, w, a, b) = (a \ b) \union (b \ a)
      BY <2>3 DEF Compute, Xor, Predicates
    <3> QED BY <1>1, <3>1, <3>2 DEF KnownBits, Fits
  <2>4. CASE op = "shl" /\ UnknownBits(w, r) = {}
    <3> DEFINE n == NatOf(r.one)
    <3>1. KnownBinary(op, w, l, r)
            = [one  |-> Shl(w, l.one, n),
                zero |-> Positions(w) \ Shl(w, Positions(w) \ l.zero, n)]
      BY <1>5, <2>4 DEF KnownBinary
    <3>2. ASSUME NEW a \in SUBSET Positions(w), NEW b \in SUBSET Positions(w),
                 Fits(l, a), Fits(r, b)
          PROVE  /\ Compute(op, w, a, b) = Shl(w, a, n)
                 /\ l.one \subseteq a /\ a \subseteq Positions(w) \ l.zero
      <4>1. b = r.one
        BY <2>4, <3>2, KnownIsValue
      <4>2. Compute(op, w, a, b) = Shl(w, a, NatOf(b))
        BY <2>4 DEF Compute, Predicates
      <4>3. l.one \subseteq a /\ a \subseteq Positions(w) \ l.zero
        BY <3>2 DEF Fits
      <4> QED BY <4>1, <4>2, <4>3
    <3> HIDE DEF n
    <3>3. Shl(w, l.one, n) \in SUBSET Positions(w)
      BY ShlIsValue
    <3>4. ASSUME NEW a \in SUBSET Positions(w), NEW b \in SUBSET Positions(w),
                 Fits(l, a), Fits(r, b)
          PROVE  Fits(KnownBinary(op, w, l, r), Compute(op, w, a, b))
      <4>1. Shl(w, l.one, n) \subseteq Shl(w, a, n)
            /\ Shl(w, a, n) \subseteq Shl(w, Positions(w) \ l.zero, n)
        BY <3>2, <3>4, ShlKeepsOrder
      <4>2. Compute(op, w, a, b) = Shl(w, a, n)
        BY <3>2, <3>4
      <4> QED BY <3>1, <4>1, <4>2 DEF Fits
    <3>5. KnownBinary(op, w, l, r) \in KnownBits(w)
      BY <3>1, <3>3 DEF KnownBits
    <3> QED BY <3>4, <3>5
  <2>5. CASE op = "lshr" /\ UnknownBits(w, r) = {}
    <3> DEFINE n == NatOf(r.one)
    <3>1. KnownBinary(op, w, l, r)
            = [one  |-> LShr(l.one, n), zero |-> Positions(w) \ LShr(Positions(w) \ l.zero, n)]
      BY <1>5, <2>5 DEF KnownBinary
    <3>2. ASSUME NEW a \in SUBSET Positions(w), NEW b \in SUBSET Positions(w),
                 Fits(l, a), Fits(r, b)
          PROVE  /\ Compute(op, w, a, b) = LShr(a, n)
                 /\ l.one \subseteq a /\ a \subseteq Positions(w) \ l.zero
      <4>1. b = r.one
        BY <2>5, <3>2, KnownIsValue
      <4>2. Compute(op, w, a, b) = LShr(a, NatOf(b))
        BY <2>5 DEF Compute, Predicates
      <4>3. l.one \subseteq a /\ a \subseteq Positions(w) \ l.zero
        BY <3>2 DEF Fits
      <4> QED BY <4>1, <4>2, <4>3
    <3>3. LShr(l.one, n) \in SUBSET Positions(w)
      BY <1>1, <1>2, LShrIsValue
    <3> HIDE DEF n
    <3>4. ASSUME NEW a \in SUBSET Positions(w), NEW b \in SUBSET Positions(w),
                 Fits(l, a), Fits(r, b)
          PROVE  Fits(KnownBinary(op, w, l, r), Compute(op, w, a, b))
      <4>1. LShr(l.one, n) \subseteq LShr(a, n)
            /\ LShr(a, n) \subseteq LShr(Positions(w) \ l.zero, n)
        BY <3>2, <3>4, LShrKeepsOrder
      <4>2. Compute(op, w, a, b) = LShr(a, n)
        BY <3>2, <3>4
      <4> QED BY <3>1, <4>1, <4>2 DEF Fits
    <3>5. KnownBinary(op, w, l, r) \in KnownBits(w)
      BY <3>1, <3>3 DEF KnownBits
    <3> QED BY <3>4, <3>5
  <2>6. CASE /\ op \notin {"and", "or", "xor"}
             /\ ~(op = "shl" /\ UnknownBits(w, r) = {})
             /\ ~(op = "lshr" /\ UnknownBits(w, r) = {})
    <3>1. KnownBinary(op, w, l, r) = Unknown
      BY <1>5, <2>6 DEF KnownBinary
    <3> QED BY <3>1, UnknownFits
  <2> QED BY <2>1, <2>2, <2>3, <2>4, <2>5, <2>6
<1> QED BY <1>3, <1>4, <1>5

-----------------------------------------------------------------------------
(* Terms *)

\* The fields of an operation that is made.
LEMMA TermIs ==
    ASSUME NEW op, NEW w, NEW args
    PROVE  /\ Term(op, w, args).op = op
           /\ Term(op, w, args).w = w
           /\ Term(op, w, args).args = args
           /\ Term(op, w, args).bits = {}
           /\ Term(op, w, args).known = Known(op, w, args)
           /\ Term(op, w, args).possible
                = computePossibleValues(op, w, args, Known(op, w, args))
           /\ Term(op, w, args).enumerable
                = Enumerable(op, w, args, Known(op, w, args))
BY Zenon DEF Term

\* The fields of a constant.
LEMMA ConstantIs ==
    ASSUME NEW w, NEW v
    PROVE  /\ Constant(w, v).op = "const" /\ Constant(w, v).w = w
           /\ Constant(w, v).args = <<>> /\ Constant(w, v).bits = v
           /\ Constant(w, v).known = KnownConst(w, v) /\ Constant(w, v).possible = {v}
           /\ Constant(w, v).size = 1 /\ Constant(w, v).enumerable
BY Zenon DEF Constant

\* The fields of a leaf.
LEMMA LeafIs ==
    ASSUME NEW op, NEW w, NEW possible
    PROVE  /\ Leaf(op, w, possible).op = op /\ Leaf(op, w, possible).w = w
           /\ Leaf(op, w, possible).args = <<>> /\ Leaf(op, w, possible).known = Unknown
           /\ Leaf(op, w, possible).possible = possible
           /\ Leaf(op, w, possible).size = 1
           /\ op = "argument" => ~Leaf(op, w, possible).enumerable
BY Zenon DEF Leaf

\* What an operation that is made evaluates to.
LEMMA TermEval ==
    ASSUME NEW op, NEW w, NEW args, NEW val \in Valuations
    PROVE  Term(op, w, args).eval[val] = Eval(op, w, args, val)
BY Zenon DEF Term

\* How many operations there are in one that is made.
LEMMA TermSize ==
    ASSUME NEW op, NEW w, NEW args
    PROVE  LET size(i) == IF i \in DOMAIN args THEN args[i].size ELSE 0
           IN Term(op, w, args).size = 1 + size(1) + size(2) + size(3)
BY Zenon DEF Term

\* A set of terms that has the operands of each, and a term with all below it.
Closed(S) == \A t \in S : IsTerm(t) /\ \A i \in DOMAIN t.args : t.args[i] \in S
Good(t)   == \E S : Closed(S) /\ t \in S

\* What is built from terms is a term, and so are its operands.
LEMMA GoodIs ==
    ASSUME NEW t, Good(t)
    PROVE  IsTerm(t) /\ \A i \in DOMAIN t.args : Good(t.args[i])
BY Zenon DEF Good, Closed

\* A term whose operands are built from terms is.
LEMMA TermIsGood ==
    ASSUME NEW t, IsTerm(t), \A i \in DOMAIN t.args : Good(t.args[i])
    PROVE  Good(t)
<1> DEFINE S == [i \in DOMAIN t.args |-> CHOOSE C : Closed(C) /\ t.args[i] \in C]
           U == {t} \union UNION {S[i] : i \in DOMAIN t.args}
<1>1. \A i \in DOMAIN t.args : Closed(S[i]) /\ t.args[i] \in S[i]
  BY Zenon DEF Good
<1> HIDE DEF S
<1>2. Closed(U)
  BY <1>1 DEF Closed
<1> QED BY <1>2, Zenon DEF Good

\* The operands of a folder are: theirs are there too.
LEMMA OperandsAreGood ==
    ASSUME NEW t \in Operands
    PROVE  Good(t)
<1>1. Closed(Operands)
  BY FolderAssumption DEF Closed
<1> QED BY <1>1, Zenon DEF Good

\* What terms of each kind evaluate to.
LEMMA ConstEval ==
    ASSUME NEW w, NEW v, NEW val \in Valuations
    PROVE  Constant(w, v).eval[val] = v
BY Zenon DEF Constant

\* A leaf is what the program has there.
LEMMA LeafEval ==
    ASSUME NEW op, NEW w, NEW possible, NEW val \in Valuations
    PROVE  Leaf(op, w, possible).eval[val] = val[op]
BY Zenon DEF Leaf

\* An operation is computed from its two operands.
LEMMA BinaryEval ==
    ASSUME NEW op \in BinaryOps \union Predicates, NEW w, NEW l, NEW r, NEW val
    PROVE  LET a == l.eval[val]
               b == r.eval[val]
           IN Eval(op, w, <<l, r>>, val) =
                IF a = Poison \/ b = Poison \/ ~Defined(op, l.w, b) THEN Poison
                ELSE Compute(op, l.w, a, b)
<1>1. op # "const" /\ op \notin Leaves /\ op \notin Casts /\ op # "select"
  BY OpsAreApart
<1> QED BY <1>1 DEF Eval

\* A cast is computed from its one operand.
LEMMA CastEval ==
    ASSUME NEW op \in Casts, NEW w, NEW t, NEW val
    PROVE  Eval(op, w, <<t>>, val) =
             IF t.eval[val] = Poison THEN Poison ELSE Converted(op, t.w, w, t.eval[val])
<1>1. op # "const" /\ op \notin Leaves /\ op # "select"
  BY OpsAreApart
<1> QED BY <1>1 DEF Eval

\* A select is one of its arms.
LEMMA SelectEval ==
    ASSUME NEW w, NEW c, NEW l, NEW r, NEW val
    PROVE  Eval("select", w, <<c, l, r>>, val) =
             IF c.eval[val] = Poison THEN Poison
             ELSE IF c.eval[val] # {} THEN l.eval[val] ELSE r.eval[val]
<1>1. "select" # "const" /\ "select" \notin Leaves /\ "select" \notin Casts
  BY OpsAreApart
<1> QED BY <1>1 DEF Eval

\* What is known of an operation, and what is enumerated.
LEMMA TermKinds ==
    ASSUME NEW t, IsTerm(t), t.op \in Operations
    PROVE  /\ t.w \in 1 .. LongBits /\ t.size \in Nat
           /\ t.known = Known(t.op, t.w, t.args)
           /\ t.possible = computePossibleValues(t.op, t.w, t.args, t.known)
           /\ t.enumerable = Enumerable(t.op, t.w, t.args, t.known)
           /\ \A val \in Valuations : t.eval[val] = Eval(t.op, t.w, t.args, val)
<1>1. t = Term(t.op, t.w, t.args) /\ t.w \in 1 .. LongBits /\ t.size \in Nat
  BY DEF IsTerm
<1>2. Term(t.op, t.w, t.args).known = Known(t.op, t.w, t.args)
  BY TermIs
<1>3. \A val \in Valuations : Term(t.op, t.w, t.args).eval[val]
                                 = Eval(t.op, t.w, t.args, val)
  BY TermEval
<1>4. Term(t.op, t.w, t.args).possible
        = computePossibleValues(t.op, t.w, t.args, Known(t.op, t.w, t.args))
  BY TermIs
<1>5. Term(t.op, t.w, t.args).enumerable
        = Enumerable(t.op, t.w, t.args, Known(t.op, t.w, t.args))
  BY TermIs
<1> QED BY <1>1, <1>2, <1>3, <1>4, <1>5, Zenon

\* A constant is made from its bits.
LEMMA ConstTerm ==
    ASSUME NEW t, IsTerm(t), IsConst(t)
    PROVE  t = Constant(t.w, t.bits) /\ t.args = <<>> /\ t.bits \in SUBSET Positions(t.w)
<1>1. t = Constant(t.w, t.bits) /\ t.bits \in SUBSET Positions(t.w)
  BY DEF IsTerm
<1> QED BY <1>1, ConstantIs

\* A leaf has no operands.
LEMMA LeafTerm ==
    ASSUME NEW t, IsTerm(t), t.op \in Leaves
    PROVE  t.args = <<>>
<1>1. t \in {Loaded, Argument, Flag}
  BY DEF IsTerm
<1> QED BY <1>1, LeafIs DEF Loaded, Argument, Flag

\* An operation has two operands of its width.
LEMMA BinaryTerm ==
    ASSUME NEW t, IsTerm(t), t.op \in BinaryOps
    PROVE  /\ t.args = <<t.args[1], t.args[2]>>
           /\ t.args[1].w = t.w /\ t.args[2].w = t.w
BY DEF IsTerm

\* A comparison has two operands of one width.
LEMMA CompareTerm ==
    ASSUME NEW t, IsTerm(t), t.op \in Predicates
    PROVE  /\ t.args = <<t.args[1], t.args[2]>>
           /\ t.w = 1 /\ t.args[1].w = t.args[2].w
BY DEF IsTerm

\* A cast has an operand that is wider or narrower.
LEMMA CastTerm ==
    ASSUME NEW t, IsTerm(t), t.op \in Casts
    PROVE  /\ t.args = <<t.args[1]>>
           /\ IF t.op = "trunc" THEN t.args[1].w > t.w ELSE t.args[1].w < t.w
BY DEF IsTerm

\* A select has a condition of one bit and two arms of its width.
LEMMA SelectTerm ==
    ASSUME NEW t, IsTerm(t), IsSelect(t)
    PROVE  /\ t.args = <<t.args[1], t.args[2], t.args[3]>>
           /\ t.args[1].w = 1 /\ t.args[2].w = t.w /\ t.args[3].w = t.w
BY DEF IsTerm

-----------------------------------------------------------------------------
(* What is known of a term, and what is enumerated, is true of its values *)

\* The value fits the bits that are known, and is among the possible values if the
\* enumeration did not go through an argument, a sext or a trunc and did not stop.
Has(t, v) ==
    /\ v \in SUBSET Positions(t.w)
    /\ Fits(t.known, v)
    /\ t.enumerable /\ Stopped \notin t.possible => v \in t.possible

\* What the lifter works out of a term holds of every value the term has.
Sound(t) ==
    /\ t.w \in 1 .. LongBits /\ t.w \in Nat \ {0}
    /\ t.known \in KnownBits(t.w)
    /\ \A val \in Valuations : t.eval[val] # Poison => Has(t, t.eval[val])

\* The known bits and the possible values of a constant are right.
LEMMA ConstIsSound ==
    ASSUME NEW t, IsTerm(t), IsConst(t)
    PROVE  Sound(t)
<1>1. t = Constant(t.w, t.bits) /\ t.bits \in SUBSET Positions(t.w)
  BY ConstTerm
<1>2. t.w \in 1 .. LongBits /\ t.w \in Nat \ {0}
  BY WidthIsNumber DEF IsTerm
<1>3. t.known = KnownConst(t.w, t.bits) /\ t.possible = {t.bits}
  BY <1>1, ConstantIs
<1>4. \A val \in Valuations : t.eval[val] = t.bits
  BY <1>1, ConstEval
<1> QED BY <1>1, <1>2, <1>3, <1>4, KnownConstFits DEF Sound, Has

\* The unknown values have the widths of their leaves.
LEMMA ValuationIs ==
    ASSUME NEW val \in Valuations
    PROVE  /\ val["loaded"] \in SUBSET Positions(LongBits)
           /\ val["argument"] \in SUBSET Positions(LongBits)
           /\ val["flag"] \in {{}, {0}}
<1> \A f \in SUBSET {0} : f \in {{}, {0}}
  OBVIOUS
<1> QED BY DEF Valuations

\* Those of a leaf are.
LEMMA LeafIsSound ==
    ASSUME NEW t, IsTerm(t), t.op \in Leaves
    PROVE  Sound(t)
<1>1. t.w \in 1 .. LongBits /\ t.w \in Nat \ {0}
  BY WidthIsNumber DEF IsTerm
<1>2. t \in {Loaded, Argument, Flag}
  BY DEF IsTerm
<1>3. CASE t = Loaded
  <2>1. t.w = LongBits /\ t.known = Unknown /\ t.possible = {Stopped}
    BY <1>3, LeafIs DEF Loaded
  <2>2. \A val \in Valuations : t.eval[val] = val["loaded"]
    BY <1>3, LeafEval DEF Loaded
  <2>3. \A val \in Valuations : val["loaded"] \in SUBSET Positions(LongBits)
    BY ValuationIs
  <2> QED BY <1>1, <2>1, <2>2, <2>3, UnknownFits DEF Sound, Has
<1>4. CASE t = Argument
  <2>1. t.w = LongBits /\ t.known = Unknown /\ ~t.enumerable
    BY <1>4, LeafIs DEF Argument
  <2>2. \A val \in Valuations : t.eval[val] = val["argument"]
    BY <1>4, LeafEval DEF Argument
  <2>3. \A val \in Valuations : val["argument"] \in SUBSET Positions(LongBits)
    BY ValuationIs
  <2> QED BY <1>1, <2>1, <2>2, <2>3, UnknownFits DEF Sound, Has
<1>5. CASE t = Flag
  <2>1. t.w = 1 /\ t.known = Unknown /\ t.possible = {{}, {0}}
    BY <1>5, LeafIs DEF Flag
  <2>2. \A val \in Valuations : t.eval[val] = val["flag"]
    BY <1>5, LeafEval DEF Flag
  <2>3. \A val \in Valuations : val["flag"] \in {{}, {0}}
    BY ValuationIs
  <2>4. \A v \in {{}, {0}} : v \in SUBSET Positions(1)
    BY DEF Positions
  <2> QED BY <1>1, <2>1, <2>2, <2>3, <2>4, UnknownFits DEF Sound, Has
<1> QED BY <1>2, <1>3, <1>4, <1>5

\* Those of a cast are where those of its operand are.
LEMMA CastIsSound ==
    ASSUME NEW t, IsTerm(t), t.op \in Casts, Sound(t.args[1])
    PROVE  Sound(t)
<1> DEFINE a == t.args[1]
<1>0. t.op \in Operations
  BY DEF Operations
<1>1. t.w \in 1 .. LongBits /\ t.w \in Nat \ {0} /\ a.w \in Nat \ {0}
  BY <1>0, TermKinds, WidthIsNumber DEF Sound
<1>2. t.args = <<a>> /\ (t.op = "trunc" => t.w < a.w) /\ (t.op # "trunc" => a.w < t.w)
  BY CastTerm, <1>1
<1>3. t.enumerable => t.op = "zext" /\ a.enumerable /\ t.possible = a.possible
  <2>1. t.enumerable = Enumerable(t.op, t.w, t.args, t.known)
        /\ t.possible = computePossibleValues(t.op, t.w, t.args, t.known)
    BY <1>0, TermKinds
  <2>2. t.op # "select"
    BY DEF Casts
  <2>3. t.enumerable => t.op = "zext" /\ a.enumerable
    BY <2>1, <2>2 DEF Enumerable
  <2>4. t.possible = a.possible
    BY <2>1, <2>2 DEF computePossibleValues
  <2> QED BY <2>3, <2>4
<1>4. \A val \in Valuations : t.eval[val] = IF a.eval[val] = Poison THEN Poison
                                            ELSE Converted(t.op, a.w, t.w, a.eval[val])
  <2>1. \A val \in Valuations : t.eval[val] = Eval(t.op, t.w, <<a>>, val)
    BY <1>2, <1>0, TermKinds, Zenon
  <2> QED BY <2>1, CastEval
<1>5. a.known \in KnownBits(a.w)
      /\ \A val \in Valuations : a.eval[val] # Poison
            => /\ a.eval[val] \in SUBSET Positions(a.w) /\ Fits(a.known, a.eval[val])
               /\ a.enumerable /\ Stopped \notin a.possible => a.eval[val] \in a.possible
  BY DEF Sound, Has
<1>6. t.known = Known(t.op, t.w, t.args)
  BY <1>0, TermKinds
<1> HIDE DEF a
<1>7. \A v \in SUBSET Positions(a.w) :
        Converted(t.op, a.w, t.w, v) \in SUBSET Positions(t.w)
  BY <1>1, <1>2, ConvertedIsValue
<1>8. /\ t.known \in KnownBits(t.w)
      /\ \A v \in SUBSET Positions(a.w) :
            Fits(a.known, v) => Fits(t.known, Converted(t.op, a.w, t.w, v))
  <2>1. a.known.one \in SUBSET Positions(a.w) /\ a.known.zero \in SUBSET Positions(a.w)
    BY <1>5 DEF KnownBits
  <2>2. CASE t.op = "zext"
    <3>1. t.known = [one |-> a.known.one, zero |-> a.known.zero \union (a.w .. t.w - 1)]
      BY <1>2, <1>6, <2>2, OpsAreApart DEF Known, Leaves, Predicates, Casts, a
    <3>2. \A v : Converted(t.op, a.w, t.w, v) = v
      BY <2>2 DEF Converted
    <3> QED BY <1>1, <1>2, <2>1, <2>2, <3>1, <3>2 DEF KnownBits, Fits, Positions
  <2>3. CASE t.op = "sext"
    <3>1. t.known = [one  |-> SExt(a.w, t.w, a.known.one),
                     zero |-> SExt(a.w, t.w, a.known.zero)]
      BY <1>2, <1>6, <2>3, OpsAreApart DEF Known, Leaves, Predicates, Casts, a
    <3>2. \A v : Converted(t.op, a.w, t.w, v) = SExt(a.w, t.w, v)
      BY <2>3 DEF Converted
    <3>3. ASSUME NEW v \in SUBSET Positions(a.w)
          PROVE  /\ SExt(a.w, t.w, v) \subseteq Positions(t.w)
                 /\ v \subseteq SExt(a.w, t.w, v)
                 /\ \A i : i \in SExt(a.w, t.w, v) <=>
                          i \in v \/ (i \in a.w .. t.w - 1 /\ a.w - 1 \in v)
      <4>1. SExt(a.w, t.w, v) = IF a.w - 1 \in v THEN v \union (a.w .. t.w - 1) ELSE v
        BY DEF SExt
      <4>2. v \subseteq Positions(t.w) /\ (a.w .. t.w - 1) \subseteq Positions(t.w)
        BY <1>1, <1>2, <2>3 DEF Positions
      <4>3. CASE a.w - 1 \in v
        BY <4>1, <4>2, <4>3
      <4>4. CASE a.w - 1 \notin v
        BY <4>1, <4>2, <4>4
      <4> QED BY <4>3, <4>4
    <3>4. t.known \in KnownBits(t.w)
      BY <2>1, <3>1, <3>3 DEF KnownBits
    <3>5. \A v \in SUBSET Positions(a.w) : \A i \in v : i \notin a.w .. t.w - 1
      BY <1>1 DEF Positions
    <3>6. ASSUME NEW v \in SUBSET Positions(a.w), Fits(a.known, v)
          PROVE  Fits(t.known, SExt(a.w, t.w, v))
      <4>1. SExt(a.w, t.w, a.known.one) \subseteq SExt(a.w, t.w, v)
        BY <2>1, <3>3, <3>6 DEF Fits
      <4>2. SExt(a.w, t.w, a.known.zero) \intersect SExt(a.w, t.w, v) = {}
        BY <2>1, <3>3, <3>5, <3>6 DEF Fits
      <4> QED BY <3>1, <4>1, <4>2 DEF Fits
    <3> QED BY <3>2, <3>4, <3>6
  <2>4. CASE t.op = "trunc"
    <3>1. t.known = [one |-> Trunc(t.w, a.known.one), zero |-> Trunc(t.w, a.known.zero)]
      BY <1>2, <1>6, <2>4, OpsAreApart DEF Known, Leaves, Predicates, Casts, a
    <3>2. \A v : Converted(t.op, a.w, t.w, v) = Trunc(t.w, v)
      BY <2>4 DEF Converted
    <3> QED BY <1>1, <1>2, <2>1, <2>4, <3>1, <3>2 DEF KnownBits, Fits, Positions, Trunc
  <2> QED BY <2>2, <2>3, <2>4 DEF Casts
<1>9. ASSUME NEW val \in Valuations, t.eval[val] # Poison
      PROVE  Has(t, t.eval[val])
  <2>1. a.eval[val] # Poison /\ t.eval[val] = Converted(t.op, a.w, t.w, a.eval[val])
    BY <1>4, <1>9
  <2>2. t.enumerable /\ Stopped \notin t.possible => t.eval[val] \in t.possible
    BY <1>3, <1>5, <2>1 DEF Converted
  <2> QED BY <1>5, <1>7, <1>8, <2>1, <2>2 DEF Has
<1> QED BY <1>1, <1>8, <1>9 DEF Sound

\* Those of a select are where those of its condition and arms are.
LEMMA SelectIsSound ==
    ASSUME NEW t, IsTerm(t), IsSelect(t),
           Sound(t.args[1]), Sound(t.args[2]), Sound(t.args[3])
    PROVE  Sound(t)
<1> DEFINE c == t.args[1]
           l == t.args[2]
           r == t.args[3]
<1>0. t.op \in Operations
  BY DEF Operations, IsSelect
<1>1. t.w \in 1 .. LongBits /\ t.w \in Nat \ {0} /\ t.op = "select"
  BY <1>0, TermKinds, WidthIsNumber DEF IsSelect
<1>2. t.args = <<c, l, r>> /\ c.w = 1 /\ l.w = t.w /\ r.w = t.w
  BY SelectTerm
<1>3. t.enumerable => \A i \in Arms(c) : t.args[i].enumerable
  <2>1. t.enumerable = Enumerable(t.op, t.w, t.args, t.known)
    BY <1>0, TermKinds
  <2> QED BY <1>1, <2>1, OpsAreApart DEF Enumerable
<1>4. t.known = [one  |-> l.known.one \intersect r.known.one,
                 zero |-> l.known.zero \intersect r.known.zero]
  BY <1>1, <1>2, <1>0, TermKinds, OpsAreApart DEF Known, Leaves, Predicates, Casts
<1>5. t.possible = UNION {t.args[i].possible : i \in Arms(c)}
  <2>1. t.possible = computePossibleValues(t.op, t.w, t.args, t.known)
    BY <1>0, TermKinds
  <2> QED BY <1>1, <2>1, OpsAreApart DEF computePossibleValues
<1>6. \A val \in Valuations :
        t.eval[val] = IF c.eval[val] = Poison THEN Poison
                      ELSE IF c.eval[val] # {} THEN l.eval[val] ELSE r.eval[val]
  <2>1. \A val \in Valuations : t.eval[val] = Eval("select", t.w, <<c, l, r>>, val)
    BY <1>1, <1>2, <1>0, TermKinds, Zenon
  <2> QED BY <2>1, SelectEval
<1>7. Sound(c) /\ Sound(l) /\ Sound(r)
  OBVIOUS
<1>10. /\ 2 \in Arms(c) => (t.enumerable => l.enumerable) /\ l.possible \subseteq t.possible
       /\ 3 \in Arms(c) => (t.enumerable => r.enumerable) /\ r.possible \subseteq t.possible
  BY <1>3, <1>5
<1> HIDE DEF c, l, r
<1>8. t.known \in KnownBits(t.w)
  BY <1>2, <1>4, <1>7 DEF KnownBits, Sound
<1>9. ASSUME NEW val \in Valuations, t.eval[val] # Poison
      PROVE  Has(t, t.eval[val])
  <2> DEFINE v == t.eval[val]
  <2>1. c.eval[val] # Poison /\ Has(c, c.eval[val])
    BY <1>6, <1>7, <1>9 DEF Sound
  <2>2. \/ c.eval[val] # {} /\ v = l.eval[val] /\ Has(l, v)
        \/ c.eval[val] = {} /\ v = r.eval[val] /\ Has(r, v)
    BY <1>6, <1>7, <1>9, <2>1 DEF Sound
  <2>3. v \in SUBSET Positions(t.w) /\ Fits(t.known, v)
    BY <1>2, <1>4, <2>2 DEF Has, Fits
  <2>4. ASSUME c.known # Unknown
        PROVE  c.known.one = {} <=> c.eval[val] = {}
    <3>1. c.known \in [one : SUBSET {0}, zero : SUBSET {0}]
      BY <1>2, <1>7 DEF Sound, KnownBits, Positions
    <3>2. c.known.one # {} \/ c.known.zero # {}
      BY <2>4, <3>1 DEF Unknown
    <3>3. c.eval[val] \in SUBSET {0} /\ Fits(c.known, c.eval[val])
      BY <1>2, <2>1 DEF Has, Positions
    <3> QED BY <3>1, <3>2, <3>3 DEF Fits
  <2>5. ASSUME t.enumerable, Stopped \notin t.possible
        PROVE  v \in t.possible
    <3>1. (c.eval[val] # {} => 2 \in Arms(c)) /\ (c.eval[val] = {} => 3 \in Arms(c))
      BY <2>4 DEF Arms
    <3>2. CASE c.eval[val] # {}
      BY <1>10, <2>2, <2>5, <3>1, <3>2 DEF Has
    <3>3. CASE c.eval[val] = {}
      BY <1>10, <2>2, <2>5, <3>1, <3>3 DEF Has
    <3> QED BY <3>2, <3>3
  <2> QED BY <2>3, <2>5 DEF Has
<1> QED BY <1>1, <1>8, <1>9 DEF Sound

\* An operation with two operands has the results of their values, or the numbers
\* that fit the bits known of it.
LEMMA BinaryPossible ==
    ASSUME NEW op \in BinaryOps \union Predicates, NEW w, NEW l, NEW r, NEW known
    PROVE  \/ /\ computePossibleValues(op, w, <<l, r>>, known)
                   = calculatePossibleValues(op, l.w, l.possible, r.possible)
              /\ Enumerable(op, w, <<l, r>>, known) => l.enumerable /\ r.enumerable
           \/ computePossibleValues(op, w, <<l, r>>, known) = getPossibleValues(w, known)
<1>1. op \notin Casts /\ op # "select"
  BY OpsAreApart
<1>2. CASE FromOperands(w, <<l, r>>, known)
  BY <1>1, <1>2 DEF computePossibleValues, Enumerable
<1>3. CASE ~FromOperands(w, <<l, r>>, known)
  BY <1>1, <1>3 DEF computePossibleValues
<1> QED BY <1>2, <1>3

\* What an operation computes from two values is among what it computes from all of
\* them (calculatePossibleValues).
LEMMA CalculatedIsThere ==
    ASSUME NEW op, NEW w, NEW v1, NEW v2, NEW a, NEW b, Defined(op, w, b),
           Stopped \notin v1 => a \in v1, Stopped \notin v2 => b \in v2,
           Stopped \notin calculatePossibleValues(op, w, v1, v2)
    PROVE  Compute(op, w, a, b) \in calculatePossibleValues(op, w, v1, v2)
<1>1. v1 # {} /\ v2 # {}
  OBVIOUS
<1>2. ~(Stopped \in v1 \union v2 \/ (op = "urem" /\ {} \in v2))
  BY <1>1 DEF calculatePossibleValues
<1>3. a \in v1 /\ b \in v2 /\ (op = "udiv" => b # {})
  BY <1>2 DEF Defined
<1>4. calculatePossibleValues(op, w, v1, v2)
        = {Compute(op, w, p[1], p[2]) : p \in {q \in v1 \X v2 : op # "udiv" \/ q[2] # {}}}
  BY <1>2, Zenon DEF calculatePossibleValues
<1>5. <<a, b>> \in {q \in v1 \X v2 : op # "udiv" \/ q[2] # {}}
  BY <1>3
<1>6. Compute(op, w, <<a, b>>[1], <<a, b>>[2]) \in calculatePossibleValues(op, w, v1, v2)
  BY <1>4, <1>5
<1> QED BY <1>6

\* A value that fits the known bits is among those made from them (getPossibleValues).
LEMMA FittingIsThere ==
    ASSUME NEW w, NEW k \in KnownBits(w), NEW v \in SUBSET Positions(w), Fits(k, v),
           Stopped \notin getPossibleValues(w, k)
    PROVE  v \in getPossibleValues(w, k)
<1>1. Stopped \in {Stopped}
  OBVIOUS
<1>2. getPossibleValues(w, k) = Concretes(w, k)
  BY <1>1 DEF getPossibleValues
<1> QED BY <1>2, ConcreteFits

\* The known bits and the possible values of an operation are right where those of its
\* operands are.
LEMMA BinaryIsSound ==
    ASSUME NEW t, IsTerm(t), t.op \in BinaryOps \union Predicates,
           Sound(t.args[1]), Sound(t.args[2])
    PROVE  Sound(t)
<1> DEFINE l == t.args[1]
           r == t.args[2]
<1>0. t.op \in Operations
  BY DEF Operations
<1>1. t.w \in 1 .. LongBits /\ t.w \in Nat \ {0} /\ l.w \in Nat \ {0}
  BY <1>0, TermKinds, WidthIsNumber DEF Sound
<1>2. /\ t.args = <<l, r>> /\ r.w = l.w
      /\ t.op \in BinaryOps => l.w = t.w
      /\ t.op \in Predicates => t.w = 1
  BY BinaryTerm, CompareTerm
<1>3. t.enumerable = Enumerable(t.op, t.w, <<l, r>>, t.known)
  BY <1>2, <1>0, TermKinds, Zenon
<1>4. t.known = Known(t.op, t.w, <<l, r>>)
  BY <1>2, <1>0, TermKinds, Zenon
<1>5. /\ t.op \in BinaryOps => t.known = KnownBinary(t.op, t.w, l.known, r.known)
      /\ t.op \in Predicates => t.known = Unknown
  <2>1. t.op # "const" /\ t.op \notin Leaves /\ t.op \notin Casts /\ t.op # "select"
    BY OpsAreApart
  <2>2. t.op \in BinaryOps => t.op \notin Predicates
    BY OpsAreApart
  <2>3. t.op # "zext" /\ t.op # "sext" /\ t.op # "trunc"
    BY <2>1 DEF Casts
  <2> QED BY <1>4, <2>1, <2>2, <2>3 DEF Known
<1>6. \A val \in Valuations :
        t.eval[val] = IF l.eval[val] = Poison \/ r.eval[val] = Poison
                         \/ ~Defined(t.op, l.w, r.eval[val]) THEN Poison
                      ELSE Compute(t.op, l.w, l.eval[val], r.eval[val])
  <2>1. \A val \in Valuations : t.eval[val] = Eval(t.op, t.w, <<l, r>>, val)
    BY <1>2, <1>0, TermKinds, Zenon
  <2> QED BY <2>1, BinaryEval
<1>7. \/ /\ t.possible = calculatePossibleValues(t.op, l.w, l.possible, r.possible)
         /\ t.enumerable => l.enumerable /\ r.enumerable
      \/ t.possible = getPossibleValues(t.w, t.known)
  <2>1. t.possible = computePossibleValues(t.op, t.w, <<l, r>>, t.known)
    BY <1>2, <1>0, TermKinds, Zenon
  <2> QED BY <1>3, <2>1, BinaryPossible
<1>8. Sound(l) /\ Sound(r)
  OBVIOUS
<1> HIDE DEF l, r
<1>9. l.known \in KnownBits(l.w) /\ r.known \in KnownBits(l.w)
  BY <1>2, <1>8 DEF Sound
<1>10. t.known \in KnownBits(t.w)
  BY <1>1, <1>2, <1>5, <1>9, KnownBinaryIs, UnknownFits
<1>11. ASSUME NEW val \in Valuations, t.eval[val] # Poison
       PROVE  Has(t, t.eval[val])
  <2> DEFINE a == l.eval[val]
             b == r.eval[val]
             v == t.eval[val]
  <2>1. a # Poison /\ b # Poison /\ Defined(t.op, l.w, b) /\ v = Compute(t.op, l.w, a, b)
    BY <1>6, <1>11
  <2>2. Has(l, a) /\ Has(r, b)
    BY <1>8, <2>1 DEF Sound
  <2>3. a \in SUBSET Positions(l.w) /\ b \in SUBSET Positions(l.w)
        /\ Fits(l.known, a) /\ Fits(r.known, b)
    BY <1>2, <2>2 DEF Has
  <2>4. (l.enumerable /\ Stopped \notin l.possible => a \in l.possible)
        /\ (r.enumerable /\ Stopped \notin r.possible => b \in r.possible)
    BY <2>2 DEF Has
  <2> HIDE DEF a, b, v
  <2>5. v \in SUBSET Positions(t.w)
    BY <1>1, <1>2, <2>1, <2>3, ComputeIsValue, CompareIsValue
  <2>6. Fits(t.known, v)
    <3>1. CASE t.op \in BinaryOps
      BY <1>1, <1>2, <1>5, <1>9, <2>1, <2>3, <3>1, KnownBinaryIs
    <3>2. CASE t.op \in Predicates
      BY <1>5, <3>2, UnknownFits
    <3> QED BY <3>1, <3>2
  <2>7. ASSUME t.enumerable, Stopped \notin t.possible
        PROVE  v \in t.possible
    <3>1. CASE /\ t.possible = calculatePossibleValues(t.op, l.w, l.possible, r.possible)
               /\ l.enumerable /\ r.enumerable
      BY <2>1, <2>4, <2>7, <3>1, CalculatedIsThere
    <3>2. CASE t.possible = getPossibleValues(t.w, t.known)
      BY <1>10, <2>5, <2>6, <2>7, <3>2, FittingIsThere
    <3> QED BY <1>7, <2>7, <3>1, <3>2
  <2> QED BY <2>5, <2>6, <2>7 DEF Has, v
<1> QED BY <1>1, <1>10, <1>11 DEF Sound

\* A term is larger than its operands.
LEMMA OperandIsSmaller ==
    ASSUME NEW t, Good(t), NEW i \in DOMAIN t.args, i \in 1 .. 3
    PROVE  Good(t.args[i]) /\ t.args[i].size \in Nat /\ t.size \in Nat
           /\ t.args[i].size < t.size
<1> DEFINE size(j) == IF j \in DOMAIN t.args THEN t.args[j].size ELSE 0
<1>1. IsTerm(t) /\ \A j \in DOMAIN t.args : Good(t.args[j])
  BY GoodIs
<1>2. t = Term(t.op, t.w, t.args) /\ t.size \in Nat
  <2>1. t.op \in Operations
    <3>1. IsConst(t) => t.args = <<>>
      BY <1>1, ConstTerm
    <3>2. t.op \in Leaves => t.args = <<>>
      BY <1>1, LeafTerm
    <3>3. DOMAIN <<>> = {}
      OBVIOUS
    <3> QED BY <1>1, <3>1, <3>2, <3>3 DEF IsTerm, IsConst
  <2> QED BY <1>1, <2>1 DEF IsTerm
<1>3. Term(t.op, t.w, t.args).size = 1 + size(1) + size(2) + size(3)
  BY TermSize
<1>4. t.size = 1 + size(1) + size(2) + size(3)
  BY <1>2, <1>3, Zenon
<1>5. \A j : size(j) \in Nat
  <2>1. \A j \in DOMAIN t.args : t.args[j].size \in Nat
    BY <1>1, GoodIs DEF IsTerm
  <2> QED BY <2>1
<1>6. size(i) = t.args[i].size
  OBVIOUS
<1> HIDE DEF size
<1> QED BY <1>1, <1>2, <1>4, <1>5, <1>6

\* The operands a term has.
LEMMA ArgsAreThere ==
    ASSUME NEW t, IsTerm(t)
    PROVE  /\ \A i \in DOMAIN t.args : i \in 1 .. 3
           /\ t.op \in Casts => 1 \in DOMAIN t.args
           /\ t.op \in BinaryOps \union Predicates
                => 1 \in DOMAIN t.args /\ 2 \in DOMAIN t.args
           /\ IsSelect(t) => 1 \in DOMAIN t.args /\ 2 \in DOMAIN t.args /\ 3 \in DOMAIN t.args
<1>1. IsTerm(t)
  OBVIOUS
<1>2. IsConst(t) => t.args = <<>>
  BY ConstTerm
<1>3. t.op \in Leaves => t.args = <<>>
  BY LeafTerm
<1>4. t.op \in BinaryOps \union Predicates => t.args = <<t.args[1], t.args[2]>>
  BY BinaryTerm, CompareTerm
<1>5. t.op \in Casts => t.args = <<t.args[1]>>
  BY CastTerm
<1>6. IsSelect(t) => t.args = <<t.args[1], t.args[2], t.args[3]>>
  BY SelectTerm
<1>7. \/ t.op \in BinaryOps \union Predicates \/ t.op \in Leaves
      \/ IsConst(t) \/ t.op \in Casts \/ IsSelect(t)
  BY DEF IsTerm, IsConst, IsSelect, Operations
<1>8. \A a, b, c : /\ DOMAIN <<>> = {}
                   /\ DOMAIN <<a>> = {1} /\ DOMAIN <<a, b>> = {1, 2}
                   /\ DOMAIN <<a, b, c>> = {1, 2, 3}
  <2>1. \A a, b, c : /\ DOMAIN <<>> = 1 .. 0
                     /\ DOMAIN <<a>> = 1 .. 1 /\ DOMAIN <<a, b>> = 1 .. 2
                     /\ DOMAIN <<a, b, c>> = 1 .. 3
    OBVIOUS
  <2> QED BY <2>1
<1>9. t.op \in BinaryOps \union Predicates => DOMAIN t.args = {1, 2}
  BY <1>4, <1>8, Zenon
<1>10. t.op \in Casts => DOMAIN t.args = {1}
  BY <1>5, <1>8, Zenon
<1>11. IsSelect(t) => DOMAIN t.args = {1, 2, 3}
  <2>1. DOMAIN <<t.args[1], t.args[2], t.args[3]>> = {1, 2, 3}
    BY <1>8
  <2> QED BY <1>6, <2>1
<1>12. t.op \in Leaves \/ IsConst(t) => DOMAIN t.args = {}
  BY <1>2, <1>3, <1>8, Zenon
<1> QED BY <1>7, <1>9, <1>10, <1>11, <1>12

\* So those of everything built from terms are: the smallest term where they were not
\* would have operands where they are.
LEMMA GoodIsSound ==
    ASSUME NEW t, Good(t)
    PROVE  Sound(t)
<1> DEFINE T == {n \in Nat : \E u : Good(u) /\ u.size = n /\ ~Sound(u)}
<1>0. /\ T \in SUBSET Nat
      /\ \A n \in T : \E u : Good(u) /\ u.size = n /\ ~Sound(u)
      /\ \A u : Good(u) /\ u.size \in Nat /\ u.size \notin T => Sound(u)
  BY Zenon
<1> HIDE DEF T
<1>1. T = {}
  <2> SUFFICES ASSUME T # {} PROVE FALSE
    OBVIOUS
  <2>1. PICK m \in T : \A k \in T : m <= k
    BY <1>0, LeastNumber
  <2>2. PICK u : Good(u) /\ u.size = m /\ ~Sound(u)
    BY <1>0, <2>1
  <2>3. IsTerm(u)
    BY <2>2, GoodIs
  <2>4. \A i \in DOMAIN u.args : Sound(u.args[i])
    <3> SUFFICES ASSUME NEW i \in DOMAIN u.args PROVE Sound(u.args[i])
      OBVIOUS
    <3>1. i \in 1 .. 3
      BY <2>3, ArgsAreThere
    <3>2. Good(u.args[i]) /\ u.args[i].size \in Nat /\ u.args[i].size < m /\ m \in Nat
      BY <2>2, <3>1, OperandIsSmaller
    <3>3. u.args[i].size \notin T
      BY <2>1, <3>2
    <3> QED BY <1>0, <3>2, <3>3
  <2>5. CASE IsConst(u)
    BY <2>2, <2>3, <2>5, ConstIsSound
  <2>6. CASE u.op \in Leaves
    BY <2>2, <2>3, <2>6, LeafIsSound
  <2>7. CASE u.op \in Casts
    BY <2>2, <2>3, <2>4, <2>7, ArgsAreThere, CastIsSound
  <2>8. CASE IsSelect(u)
    BY <2>2, <2>3, <2>4, <2>8, ArgsAreThere, SelectIsSound
  <2>9. CASE u.op \in BinaryOps \union Predicates
    BY <2>2, <2>3, <2>4, <2>9, ArgsAreThere, BinaryIsSound
  <2> QED BY <2>3, <2>5, <2>6, <2>7, <2>8, <2>9
     DEF IsTerm, IsConst, IsSelect, Operations
<1>2. t.size \in Nat
  BY GoodIs DEF IsTerm
<1> QED BY <1>0, <1>1, <1>2

-----------------------------------------------------------------------------
(* The terms that are built *)

\* A term that is made of terms has their sizes and operands.
LEMMA NewTerm ==
    ASSUME NEW op, NEW w, NEW args, \A i \in DOMAIN args : Good(args[i])
    PROVE  LET t == Term(op, w, args)
           IN /\ t = Term(t.op, t.w, t.args)
              /\ t.size \in Nat
              /\ \A i \in DOMAIN t.args : Good(t.args[i])
<1> DEFINE t == Term(op, w, args)
           size(i) == IF i \in DOMAIN args THEN args[i].size ELSE 0
<1>1. t.op = op /\ t.w = w /\ t.args = args
  BY TermIs
<1>2. t.size = 1 + size(1) + size(2) + size(3)
  BY TermSize
<1>3. \A i : size(i) \in Nat
  <2>1. \A i \in DOMAIN args : args[i].size \in Nat
    BY GoodIs DEF IsTerm
  <2> QED BY <2>1
<1> HIDE DEF size
<1>4. t.size \in Nat
  BY <1>2, <1>3
<1>5. t = Term(t.op, t.w, t.args)
  BY <1>1
<1>6. \A i \in DOMAIN t.args : Good(t.args[i])
  BY <1>1
<1> HIDE DEF t
<1>7. /\ t = Term(t.op, t.w, t.args) /\ t.size \in Nat
      /\ \A i \in DOMAIN t.args : Good(t.args[i])
  BY <1>4, <1>5, <1>6
<1> QED BY <1>7, Zenon DEF t

\* A constant is built from terms.
LEMMA GoodConst ==
    ASSUME NEW w \in 1 .. LongBits, NEW v \in SUBSET Positions(w)
    PROVE  Good(Constant(w, v)) /\ Constant(w, v).w = w
           /\ IsConst(Constant(w, v)) /\ Constant(w, v).bits = v
<1> DEFINE t == Constant(w, v)
<1>1. t.op = "const" /\ t.w = w /\ t.args = <<>> /\ t.bits = v /\ t.size = 1
  BY ConstantIs
<1>2. IsConst(t) /\ t = Constant(t.w, t.bits)
  BY <1>1 DEF IsConst
<1> HIDE DEF t
<1>3. t.op \notin Operations /\ t.op \notin Leaves
  BY <1>1, OpsAreApart
<1>4. t.op \notin BinaryOps /\ t.op \notin Predicates /\ t.op \notin Casts /\ ~IsSelect(t)
  BY <1>3 DEF Operations, IsSelect
<1>5. IsTerm(t)
  BY <1>1, <1>2, <1>3, <1>4 DEF IsTerm
<1>6. \A i \in DOMAIN t.args : Good(t.args[i])
  BY <1>1
<1>7. Good(t) /\ t.w = w /\ IsConst(t) /\ t.bits = v
  BY <1>1, <1>2, <1>5, <1>6, TermIsGood
<1> QED BY <1>7 DEF t

\* An operation on what is built from terms is too.
LEMMA GoodBinary ==
    ASSUME NEW op \in BinaryOps, NEW l, NEW r, Good(l), Good(r), l.w = r.w
    PROVE  Good(Term(op, l.w, <<l, r>>))
<1> DEFINE t == Term(op, l.w, <<l, r>>)
<1>1. t.op = op /\ t.w = l.w /\ t.args = <<l, r>> /\ t.bits = {}
  BY TermIs
<1>2. /\ t = Term(t.op, t.w, t.args) /\ t.size \in Nat
      /\ \A i \in DOMAIN t.args : Good(t.args[i])
  <2>1. \A i \in DOMAIN <<l, r>> : Good(<<l, r>>[i])
    OBVIOUS
  <2> QED BY <2>1, NewTerm
<1>3. t.w \in 1 .. LongBits
  BY <1>1, GoodIs DEF IsTerm
<1> HIDE DEF t
<1>4. t.op \in BinaryOps /\ t.op \notin Predicates /\ t.op \notin Casts /\ t.op \notin Leaves
      /\ ~IsSelect(t) /\ ~IsConst(t)
      /\ t.op \in Operations
  BY <1>1, OpsAreApart DEF IsSelect, IsConst, Operations
<1>5. IsTerm(t)
  BY <1>1, <1>2, <1>3, <1>4 DEF IsTerm
<1> QED BY <1>2, <1>5, TermIsGood DEF t

\* A comparison is.
LEMMA GoodCompare ==
    ASSUME NEW op \in Predicates, NEW l, NEW r, Good(l), Good(r), l.w = r.w
    PROVE  Good(Term(op, 1, <<l, r>>))
<1> DEFINE t == Term(op, 1, <<l, r>>)
<1>1. t.op = op /\ t.w = 1 /\ t.args = <<l, r>> /\ t.bits = {}
  BY TermIs
<1>2. /\ t = Term(t.op, t.w, t.args) /\ t.size \in Nat
      /\ \A i \in DOMAIN t.args : Good(t.args[i])
  <2>1. \A i \in DOMAIN <<l, r>> : Good(<<l, r>>[i])
    OBVIOUS
  <2> QED BY <2>1, NewTerm
<1>3. t.w \in 1 .. LongBits
  BY <1>1, FolderAssumption
<1> HIDE DEF t
<1>4. t.op \in Predicates /\ t.op \notin BinaryOps /\ t.op \notin Casts /\ t.op \notin Leaves
      /\ ~IsSelect(t) /\ ~IsConst(t)
      /\ t.op \in Operations
  BY <1>1, OpsAreApart DEF IsSelect, IsConst, Operations
<1>5. IsTerm(t)
  BY <1>1, <1>2, <1>3, <1>4 DEF IsTerm
<1> QED BY <1>2, <1>5, TermIsGood DEF t

\* A cast is.
LEMMA GoodCast ==
    ASSUME NEW op \in Casts, NEW w \in 1 .. LongBits, NEW a, Good(a),
           IF op = "trunc" THEN a.w > w ELSE a.w < w
    PROVE  Good(Term(op, w, <<a>>))
<1> DEFINE t == Term(op, w, <<a>>)
<1>1. t.op = op /\ t.w = w /\ t.args = <<a>> /\ t.bits = {}
  BY TermIs
<1>2. /\ t = Term(t.op, t.w, t.args) /\ t.size \in Nat
      /\ \A i \in DOMAIN t.args : Good(t.args[i])
  <2>1. \A i \in DOMAIN <<a>> : Good(<<a>>[i])
    OBVIOUS
  <2> QED BY <2>1, NewTerm
<1> HIDE DEF t
<1>4. t.op \in Casts /\ t.op \notin BinaryOps /\ t.op \notin Predicates /\ t.op \notin Leaves
      /\ ~IsSelect(t) /\ ~IsConst(t)
      /\ t.op \in Operations
  BY <1>1, OpsAreApart DEF IsSelect, IsConst, Operations
<1>5. IsTerm(t)
  BY <1>1, <1>2, <1>4 DEF IsTerm
<1> QED BY <1>2, <1>5, TermIsGood DEF t

\* A select is.
LEMMA GoodSelect ==
    ASSUME NEW c, NEW l, NEW r, Good(c), Good(l), Good(r), c.w = 1, l.w = r.w
    PROVE  Good(Term("select", l.w, <<c, l, r>>))
<1> DEFINE t == Term("select", l.w, <<c, l, r>>)
<1>1. t.op = "select" /\ t.w = l.w /\ t.args = <<c, l, r>> /\ t.bits = {}
  BY TermIs
<1>2. /\ t = Term(t.op, t.w, t.args) /\ t.size \in Nat
      /\ \A i \in DOMAIN t.args : Good(t.args[i])
  <2>1. \A i \in DOMAIN <<c, l, r>> : Good(<<c, l, r>>[i])
    OBVIOUS
  <2> QED BY <2>1, NewTerm
<1>3. t.w \in 1 .. LongBits
  BY <1>1, GoodIs DEF IsTerm
<1> HIDE DEF t
<1>4. /\ t.op \notin Casts /\ t.op \notin BinaryOps
      /\ t.op \notin Predicates /\ t.op \notin Leaves
      /\ IsSelect(t) /\ ~IsConst(t)
      /\ t.op \in Operations
  BY <1>1, OpsAreApart DEF IsSelect, IsConst, Operations
<1>5. IsTerm(t)
  BY <1>1, <1>2, <1>3, <1>4 DEF IsTerm
<1> QED BY <1>2, <1>5, TermIsGood DEF t

\* The operations that folderBinOps leaves out.
LEMMA TrivialIs ==
    ASSUME NEW op, NEW l, NEW r
    PROVE  \/ op \in {"shl", "lshr"} /\ IsZero(r) /\ Trivial(op, l, r) = l
           \/ /\ op \in {"shl", "lshr"} /\ IsConst(r) /\ NatOf(r.bits) >= l.w
              /\ Trivial(op, l, r) = Constant(l.w, {})
           \/ op \in {"shl", "lshr", "ashr"} /\ IsZero(l) /\ Trivial(op, l, r) = l
           \/ op \in {"xor", "add", "or"} /\ IsZero(l) /\ Trivial(op, l, r) = r
           \/ op \in {"xor", "add", "or", "sub"} /\ IsZero(r) /\ Trivial(op, l, r) = l
           \/ op = "or" /\ IsMinusOne(l) /\ Trivial(op, l, r) = l
           \/ op = "or" /\ IsMinusOne(r) /\ Trivial(op, l, r) = r
           \/ op = "and" /\ (IsZero(l) \/ IsZero(r)) /\ Trivial(op, l, r) = Constant(l.w, {})
           \/ op = "and" /\ IsMinusOne(l) /\ Trivial(op, l, r) = r
           \/ op = "and" /\ IsMinusOne(r) /\ Trivial(op, l, r) = l
           \/ Trivial(op, l, r) = None
BY DEF Trivial

-----------------------------------------------------------------------------
(* A term that may stand for another: of its width, and of its value where it has one *)

Made(r, w)      == Good(r) /\ r.w = w
Replaces(r, t)  == /\ Made(r, t.w)
                   /\ \A val \in Valuations : t.eval[val] # Poison => r.eval[val] = t.eval[val]
\* The operation a folder is asked for.
Asked(op, l, r) == Term(op, l.w, <<l, r>>)

\* The width of what is built from terms, and the bits known of it.
LEMMA GoodWidth ==
    ASSUME NEW t, Good(t)
    PROVE  t.w \in 1 .. LongBits /\ t.w \in Nat \ {0} /\ t.known \in KnownBits(t.w)
BY GoodIsSound DEF Sound

\* Where it has a value, that is one of its width, and fits the known bits.
LEMMA GoodValue ==
    ASSUME NEW t, Good(t), NEW val \in Valuations, t.eval[val] # Poison
    PROVE  t.eval[val] \in SUBSET Positions(t.w) /\ Fits(t.known, t.eval[val])
BY GoodIsSound DEF Sound, Has

\* What an operation that was asked for evaluates to.
LEMMA AskedIs ==
    ASSUME NEW op \in BinaryOps, NEW l, NEW r
    PROVE  /\ Asked(op, l, r).w = l.w
           /\ \A val \in Valuations :
                Asked(op, l, r).eval[val] =
                    IF l.eval[val] = Poison \/ r.eval[val] = Poison
                       \/ ~Defined(op, l.w, r.eval[val]) THEN Poison
                    ELSE Compute(op, l.w, l.eval[val], r.eval[val])
<1>1. Asked(op, l, r).w = l.w
  BY TermIs DEF Asked
<1>2. \A val \in Valuations :
        Asked(op, l, r).eval[val] = Eval(op, l.w, <<l, r>>, val)
  BY TermEval DEF Asked
<1> QED BY <1>1, <1>2, BinaryEval

\* What an operation that has a value is computed from.
LEMMA AskedFrom ==
    ASSUME NEW op \in BinaryOps, NEW l, NEW r, Good(l), Good(r), l.w = r.w,
           NEW val \in Valuations, Asked(op, l, r).eval[val] # Poison
    PROVE  /\ l.eval[val] # Poison /\ l.eval[val] \in SUBSET Positions(l.w)
           /\ r.eval[val] # Poison /\ r.eval[val] \in SUBSET Positions(l.w)
           /\ Defined(op, l.w, r.eval[val])
           /\ Asked(op, l, r).eval[val] = Compute(op, l.w, l.eval[val], r.eval[val])
<1>1. /\ l.eval[val] # Poison /\ r.eval[val] # Poison /\ Defined(op, l.w, r.eval[val])
      /\ Asked(op, l, r).eval[val] = Compute(op, l.w, l.eval[val], r.eval[val])
  BY AskedIs
<1> QED BY <1>1, GoodValue

\* To replace an operation is to be made, and to have what it computes.
LEMMA ReplacesAsked ==
    ASSUME NEW op \in BinaryOps, NEW l, NEW r, Good(l), Good(r), l.w = r.w,
           NEW t, Made(t, l.w),
           \A val \in Valuations, a, b \in SUBSET Positions(l.w) :
                l.eval[val] = a /\ r.eval[val] = b /\ Defined(op, l.w, b)
                    => t.eval[val] = Compute(op, l.w, a, b)
    PROVE  Replaces(t, Asked(op, l, r))
<1>1. Asked(op, l, r).w = l.w
  BY AskedIs
<1>2. ASSUME NEW val \in Valuations, Asked(op, l, r).eval[val] # Poison
      PROVE  t.eval[val] = Asked(op, l, r).eval[val]
  BY <1>2, AskedFrom
<1> QED BY <1>1, <1>2 DEF Replaces

\* Everything may stay as it is.
LEMMA ReplacesItself ==
    ASSUME NEW t, Good(t)
    PROVE  Replaces(t, t)
BY DEF Replaces, Made

\* What replaces a replacement replaces the first.
LEMMA ReplacesTwice ==
    ASSUME NEW r, NEW s, NEW t, Replaces(r, s), Replaces(s, t)
    PROVE  Replaces(r, t)
BY DEF Replaces, Made

\* An operation may take its operands from what replaces them.
LEMMA AskedReplaced ==
    ASSUME NEW op \in BinaryOps, NEW l, NEW r, NEW a, NEW b, Good(l), Good(r), l.w = r.w,
           Replaces(a, l), Replaces(b, r)
    PROVE  Replaces(Asked(op, a, b), Asked(op, l, r))
<1>1. Good(a) /\ Good(b) /\ a.w = l.w /\ b.w = l.w
  BY DEF Replaces, Made
<1>2. Made(Asked(op, a, b), l.w)
  BY <1>1, GoodBinary, AskedIs DEF Made, Asked
<1>3. ASSUME NEW val \in Valuations,
             NEW x \in SUBSET Positions(l.w), NEW y \in SUBSET Positions(l.w),
             l.eval[val] = x, r.eval[val] = y, Defined(op, l.w, y)
      PROVE  Asked(op, a, b).eval[val] = Compute(op, l.w, x, y)
  <2>1. x # Poison /\ y # Poison
    BY GoodWidth, PoisonIsNoValue
  <2>2. a.eval[val] = x /\ b.eval[val] = y
    BY <1>3, <2>1 DEF Replaces
  <2> QED BY <1>1, <1>3, <2>1, <2>2, AskedIs
<1> QED BY <1>2, <1>3, ReplacesAsked

-----------------------------------------------------------------------------
(* Instructions *)

\* IRBuilder's operation, or the constant it folds it to, replaces the one asked for.
LEMMA CreateBinOpKeeps ==
    ASSUME NEW op \in BinaryOps, NEW l, NEW r, Good(l), Good(r), l.w = r.w
    PROVE  Replaces(CreateBinOp(op, l, r), Asked(op, l, r))
<1>1. Replaces(Asked(op, l, r), Asked(op, l, r))
  BY GoodBinary, ReplacesItself DEF Asked
<1>2. CASE IsConst(l) /\ IsConst(r) /\ Defined(op, l.w, r.bits)
  <2>1. /\ l = Constant(l.w, l.bits) /\ l.bits \in SUBSET Positions(l.w)
        /\ r = Constant(r.w, r.bits) /\ r.bits \in SUBSET Positions(l.w)
    BY <1>2, ConstTerm, GoodIs
  <2>2. \A val \in Valuations : l.eval[val] = l.bits /\ r.eval[val] = r.bits
    BY <2>1, ConstEval
  <2> DEFINE v == Compute(op, l.w, l.bits, r.bits)
  <2>3. v \in SUBSET Positions(l.w)
    BY <1>2, <2>1, GoodWidth, ComputeIsValue
  <2>4. CreateBinOp(op, l, r) = Constant(l.w, v)
    BY <1>2 DEF CreateBinOp
  <2> HIDE DEF v
  <2>5. Made(Constant(l.w, v), l.w)
    BY <2>3, GoodWidth, GoodConst DEF Made
  <2>6. \A val \in Valuations : Constant(l.w, v).eval[val] = v
    BY ConstEval
  <2>7. \A val \in Valuations, a, b \in SUBSET Positions(l.w) :
                l.eval[val] = a /\ r.eval[val] = b /\ Defined(op, l.w, b)
                    => Constant(l.w, v).eval[val] = Compute(op, l.w, a, b)
    BY <2>2, <2>6 DEF v
  <2> QED BY <2>4, <2>5, <2>7, ReplacesAsked
<1>3. CASE ~(IsConst(l) /\ IsConst(r) /\ Defined(op, l.w, r.bits))
  BY <1>1, <1>3 DEF CreateBinOp, Asked
<1> QED BY <1>2, <1>3

\* A widening or a cut, on a value that is narrower or wider.
CastFits(op, w, a) == op \in Casts /\ w \in 1 .. LongBits
                      /\ (IF op = "trunc" THEN a.w > w ELSE a.w < w)

\* What a cast that was asked for evaluates to.
LEMMA CastIs ==
    ASSUME NEW op \in Casts, NEW w, NEW a
    PROVE  /\ Term(op, w, <<a>>).w = w
           /\ \A val \in Valuations :
                Term(op, w, <<a>>).eval[val] =
                    IF a.eval[val] = Poison THEN Poison ELSE Converted(op, a.w, w, a.eval[val])
<1>1. Term(op, w, <<a>>).w = w
  BY TermIs
<1>2. \A val \in Valuations :
        Term(op, w, <<a>>).eval[val] = Eval(op, w, <<a>>, val)
  BY TermEval
<1> QED BY <1>1, <1>2, CastEval

\* IRBuilder's cast, or the constant it folds it to, replaces the one asked for.
LEMMA CreateCastKeeps ==
    ASSUME NEW op, NEW w, NEW a, Good(a), CastFits(op, w, a)
    PROVE  Replaces(CreateCast(op, w, a), Term(op, w, <<a>>))
<1>1. /\ op \in Casts /\ w \in 1 .. LongBits
      /\ op = "trunc" => a.w > w
      /\ op # "trunc" => a.w < w
  BY DEF CastFits
<1>2. CASE IsConst(a)
  <2> DEFINE v == Converted(op, a.w, w, a.bits)
  <2>1. a = Constant(a.w, a.bits) /\ a.bits \in SUBSET Positions(a.w)
    BY <1>2, ConstTerm, GoodIs
  <2>2. \A val \in Valuations : a.eval[val] = a.bits
    BY <2>1, ConstEval
  <2>3. v \in SUBSET Positions(w)
    <3>1. a.w \in Nat \ {0} /\ w \in Nat \ {0} /\ (op # "trunc" => a.w <= w)
      BY <1>1, GoodWidth
    <3> QED BY <1>1, <2>1, <3>1, ConvertedIsValue
  <2>4. CreateCast(op, w, a) = Constant(w, v)
    BY <1>2 DEF CreateCast
  <2>5. \A val \in Valuations : Term(op, w, <<a>>).eval[val] # Poison
            => Term(op, w, <<a>>).eval[val] = v
    BY <1>1, <2>2, CastIs
  <2> HIDE DEF v
  <2>6. \A val \in Valuations : Constant(w, v).eval[val] = v
    BY ConstEval
  <2>7. Made(Constant(w, v), Term(op, w, <<a>>).w)
    BY <1>1, <2>3, CastIs, GoodConst DEF Made
  <2> QED BY <2>4, <2>5, <2>6, <2>7 DEF Replaces
<1>3. CASE ~IsConst(a)
  <2>1. Good(Term(op, w, <<a>>))
    BY <1>1, GoodCast
  <2> QED BY <1>3, <2>1, ReplacesItself DEF CreateCast
<1> QED BY <1>2, <1>3

\* The select a folder is asked for.
Chosen(c, l, r) == Term("select", l.w, <<c, l, r>>)

\* What a select that was asked for evaluates to.
LEMMA ChosenIs ==
    ASSUME NEW c, NEW l, NEW r
    PROVE  /\ Chosen(c, l, r).w = l.w
           /\ \A val \in Valuations :
                Chosen(c, l, r).eval[val] =
                    IF c.eval[val] = Poison THEN Poison
                    ELSE IF c.eval[val] # {} THEN l.eval[val] ELSE r.eval[val]
<1>1. Chosen(c, l, r).w = l.w
  BY TermIs DEF Chosen
<1>2. \A val \in Valuations :
        Chosen(c, l, r).eval[val] = Eval("select", l.w, <<c, l, r>>, val)
  BY TermEval DEF Chosen
<1> QED BY <1>1, <1>2, SelectEval

\* A condition of which a bit is known is that bit.
LEMMA KnownCondition ==
    ASSUME NEW c, Good(c), c.w = 1, c.known # Unknown,
           NEW val \in Valuations, c.eval[val] # Poison
    PROVE  c.eval[val] # {} <=> c.known.one # {}
<1>1. c.known \in [one : SUBSET {0}, zero : SUBSET {0}]
  BY GoodWidth DEF KnownBits, Positions
<1>2. c.known.one # {} \/ c.known.zero # {}
  BY <1>1 DEF Unknown
<1>3. c.eval[val] \in SUBSET {0} /\ Fits(c.known, c.eval[val])
  BY GoodValue DEF Positions
<1> QED BY <1>1, <1>2, <1>3 DEF Fits

\* createSelectFolder: an arm replaces the select where both are one, or where a bit of
\* the condition is known.
LEMMA SelectFolderKeeps ==
    ASSUME NEW c, NEW l, NEW r, Good(c), Good(l), Good(r), c.w = 1, l.w = r.w
    PROVE  Replaces(createSelectFolder(c, l, r), Chosen(c, l, r))
<1>1. Made(l, l.w) /\ Made(r, l.w)
  BY DEF Made
<1>2. CASE l = r
  <2>1. createSelectFolder(c, l, r) = l
    BY <1>2 DEF createSelectFolder
  <2> QED BY <1>1, <1>2, <2>1, ChosenIs DEF Replaces
<1>3. CASE l # r /\ c.known # Unknown
  <2>1. createSelectFolder(c, l, r) = IF c.known.one # {} THEN l ELSE r
    BY <1>3 DEF createSelectFolder, Selected, Pick
  <2>2. \A val \in Valuations : c.eval[val] # Poison => (c.eval[val] # {} <=> c.known.one # {})
    BY <1>3, KnownCondition
  <2> QED BY <1>1, <2>1, <2>2, ChosenIs DEF Replaces
<1>4. CASE l # r /\ c.known = Unknown
  <2>1. createSelectFolder(c, l, r) = Chosen(c, l, r)
    BY <1>4 DEF createSelectFolder, Selected, Chosen
  <2>2. Good(Chosen(c, l, r))
    BY GoodSelect DEF Chosen
  <2> QED BY <2>1, <2>2, ReplacesItself
<1> QED BY <1>2, <1>3, <1>4

\* The arms of a select may be replaced too.
LEMMA ChosenReplaced ==
    ASSUME NEW c, NEW l, NEW r, NEW a, NEW b, Good(c), c.w = 1, l.w = r.w,
           Replaces(a, l), Replaces(b, r)
    PROVE  Replaces(Chosen(c, a, b), Chosen(c, l, r))
<1>1. Good(a) /\ Good(b) /\ a.w = l.w /\ b.w = l.w
  BY DEF Replaces, Made
<1>2. Made(Chosen(c, a, b), Chosen(c, l, r).w)
  BY <1>1, GoodSelect, ChosenIs DEF Made, Chosen
<1>3. ASSUME NEW val \in Valuations, Chosen(c, l, r).eval[val] # Poison
      PROVE  Chosen(c, a, b).eval[val] = Chosen(c, l, r).eval[val]
  <2>1. c.eval[val] # Poison
    BY <1>3, ChosenIs
  <2>2. CASE c.eval[val] # {}
    BY <1>3, <2>1, <2>2, ChosenIs DEF Replaces
  <2>3. CASE c.eval[val] = {}
    BY <1>3, <2>1, <2>3, ChosenIs DEF Replaces
  <2> QED BY <2>2, <2>3
<1> QED BY <1>2, <1>3 DEF Replaces

\* A select, and a constant beside one, are what their arms are.
LEMMA SelectArms ==
    ASSUME NEW t, Good(t), IsSelect(t)
    PROVE  /\ Good(t.args[1]) /\ t.args[1].w = 1
           /\ Good(t.args[2]) /\ t.args[2].w = t.w
           /\ Good(t.args[3]) /\ t.args[3].w = t.w
           /\ t = Chosen(t.args[1], t.args[2], t.args[3])
           /\ Arm(t, 1) = t.args[1] /\ Arm(t, 2) = t.args[2] /\ Arm(t, 3) = t.args[3]
<1>1. IsTerm(t) /\ t.op = "select"
  BY GoodIs DEF IsSelect
<1>2. t.args = <<t.args[1], t.args[2], t.args[3]>>
      /\ t.args[1].w = 1 /\ t.args[2].w = t.w /\ t.args[3].w = t.w
  BY <1>1, SelectTerm
<1>3. Good(t.args[1]) /\ Good(t.args[2]) /\ Good(t.args[3])
  BY <1>1, ArgsAreThere, GoodIs
<1>4. t.op \notin Casts /\ ~IsConst(t)
  BY <1>1, OpsAreApart DEF IsConst
<1>5. t = Term("select", t.w, t.args)
  BY <1>1 DEF IsTerm, Operations
<1>6. t = Chosen(t.args[1], t.args[2], t.args[3])
  BY <1>2, <1>5 DEF Chosen
<1>7. \A i : Arm(t, i) = t.args[i]
  BY <1>4 DEF Arm, Peel
<1> QED BY <1>2, <1>3, <1>6, <1>7

\* Values of which the one an operation uses is the arm of a condition.
Split(t, c) ==
    /\ Good(t) /\ Good(Arm(t, 2)) /\ Arm(t, 2).w = t.w /\ Good(Arm(t, 3)) /\ Arm(t, 3).w = t.w
    /\ \A val \in Valuations : t.eval[val] # Poison =>
         t.eval[val] = IF c.eval[val] # {} THEN Arm(t, 2).eval[val] ELSE Arm(t, 3).eval[val]

\* A constant is one in either arm.
LEMMA ConstIsSplit ==
    ASSUME NEW t, Good(t), IsConst(t), NEW c
    PROVE  Split(t, c)
<1>1. \A i : Arm(t, i) = t
  BY DEF Arm
<1> QED BY <1>1 DEF Split

\* A select is, with its own condition, which has a value where the select has one.
LEMMA SelectIsSplit ==
    ASSUME NEW t, Good(t), IsSelect(t)
    PROVE  /\ Split(t, t.args[1])
           /\ \A val \in Valuations : t.eval[val] # Poison => t.args[1].eval[val] # Poison
<1>1. \A val \in Valuations :
        t.eval[val] = IF t.args[1].eval[val] = Poison THEN Poison
                      ELSE IF t.args[1].eval[val] # {} THEN t.args[2].eval[val]
                      ELSE t.args[3].eval[val]
  BY SelectArms, ChosenIs
<1> QED BY <1>1, SelectArms DEF Split

\* An operation may move into the arms.
LEMMA SplitKeeps ==
    ASSUME NEW op \in BinaryOps, NEW c, NEW l, NEW r, Good(c), c.w = 1, l.w = r.w,
           Split(l, c), Split(r, c),
           \A val \in Valuations : l.eval[val] # Poison /\ r.eval[val] # Poison
                => c.eval[val] # Poison
    PROVE  Replaces(createSelectFolder(c, CreateBinOp(op, Arm(l, 2), Arm(r, 2)),
                                          CreateBinOp(op, Arm(l, 3), Arm(r, 3))),
                    Asked(op, l, r))
<1> DEFINE l2 == Arm(l, 2)
           r2 == Arm(r, 2)
           l3 == Arm(l, 3)
           r3 == Arm(r, 3)
           x == CreateBinOp(op, l2, r2)
           y == CreateBinOp(op, l3, r3)
<1>1. /\ Good(l) /\ Good(r)
      /\ Good(l2) /\ Good(r2) /\ l2.w = l.w /\ r2.w = l.w
      /\ Good(l3) /\ Good(r3) /\ l3.w = l.w /\ r3.w = l.w
  BY DEF Split
<1>2. \A val \in Valuations :
        /\ l.eval[val] # Poison =>
             l.eval[val] = IF c.eval[val] # {} THEN l2.eval[val] ELSE l3.eval[val]
        /\ r.eval[val] # Poison =>
             r.eval[val] = IF c.eval[val] # {} THEN r2.eval[val] ELSE r3.eval[val]
  BY DEF Split
<1>3. Replaces(x, Asked(op, l2, r2)) /\ Replaces(y, Asked(op, l3, r3))
  <2> HIDE DEF l2, r2, l3, r3
  <2> QED BY <1>1, CreateBinOpKeeps
<1> HIDE DEF l2, r2, l3, r3
<1>4. x.w = l.w /\ y.w = l.w /\ Good(x) /\ Good(y)
  BY <1>1, <1>3, AskedIs DEF Replaces, Made
<1> HIDE DEF x, y
<1>5. Replaces(createSelectFolder(c, x, y), Chosen(c, x, y))
  BY <1>4, SelectFolderKeeps
<1>6. Replaces(Chosen(c, x, y), Asked(op, l, r))
  <2>1. Made(Chosen(c, x, y), l.w)
    BY <1>4, GoodSelect, ChosenIs DEF Made, Chosen
  <2>2. ASSUME NEW val \in Valuations,
               NEW a \in SUBSET Positions(l.w), NEW b \in SUBSET Positions(l.w),
               l.eval[val] = a, r.eval[val] = b, Defined(op, l.w, b)
        PROVE  Chosen(c, x, y).eval[val] = Compute(op, l.w, a, b)
    <3>1. a # Poison /\ b # Poison /\ c.eval[val] # Poison
      BY <1>1, <2>2, GoodWidth, PoisonIsNoValue
    <3>2. Compute(op, l.w, a, b) # Poison
      BY <1>1, <2>2, GoodWidth, ComputeIsValue, PoisonIsNoValue
    <3>3. CASE c.eval[val] # {}
      <4>1. l2.eval[val] = a /\ r2.eval[val] = b
        BY <1>2, <2>2, <3>1, <3>3
      <4>2. Asked(op, l2, r2).eval[val] = Compute(op, l.w, a, b)
        BY <1>1, <2>2, <3>1, <4>1, AskedIs
      <4> QED BY <1>3, <3>1, <3>2, <3>3, <4>2, ChosenIs DEF Replaces
    <3>4. CASE c.eval[val] = {}
      <4>1. l3.eval[val] = a /\ r3.eval[val] = b
        BY <1>2, <2>2, <3>1, <3>4
      <4>2. Asked(op, l3, r3).eval[val] = Compute(op, l.w, a, b)
        BY <1>1, <2>2, <3>1, <4>1, AskedIs
      <4> QED BY <1>3, <3>1, <3>2, <3>4, <4>2, ChosenIs DEF Replaces
    <3> QED BY <3>3, <3>4
  <2> QED BY <1>1, <2>1, <2>2, ReplacesAsked
<1>7. Replaces(createSelectFolder(c, x, y), Asked(op, l, r))
  BY <1>5, <1>6, ReplacesTwice
<1> QED BY <1>7 DEF x, y, l2, r2, l3, r3

\* The conditions of the selects there are, with their widths.
Guards == {<<u.args[1], u.w>> : u \in {v \in Operands : IsSelect(v)}}
\* A select with a condition of theirs, or a cast of one with none: no such select is
\* beside such a cast with the same condition.
Plain(t) ==
    /\ IsSelect(t) => <<t.args[1], t.w>> \in Guards
    /\ t.op \in Casts /\ IsSelect(t.args[1]) => <<t.args[1].args[1], t.w>> \notin Guards

\* So the two with the same condition are selects, not under casts.
LEMMA SameConditionIs ==
    ASSUME NEW a, NEW b, Plain(a), Plain(b), a.w = b.w, SameCondition(a, b)
    PROVE  IsSelect(a) /\ IsSelect(b) /\ a.args[1] = b.args[1]
<1>1. PICK ops \in {{"trunc"}, {"zext", "sext"}} :
        IsSelect(b) /\ IsSelect(Peel(ops, a)) /\ Peel(ops, a).args[1] = b.args[1]
  BY DEF SameCondition
<1>2. ops \subseteq Casts
  BY DEF Casts
<1>3. a.op \notin ops
  BY <1>1, <1>2 DEF Plain, Peel
<1>4. Peel(ops, a) = a
  BY <1>3 DEF Peel
<1> QED BY <1>1, <1>4

\* What moves into arms: a select with a constant, or two with the same condition.
LEMMA MovedIs ==
    ASSUME NEW l, NEW r, Good(l), Good(r), l.w = r.w, Plain(l), Plain(r), MovesIntoArms(l, r)
    PROVE  LET c == Arm(IF IsConst(l) THEN r ELSE l, 1)
           IN \/ IsSelect(l) /\ IsConst(r) /\ c = l.args[1]
              \/ IsSelect(r) /\ IsConst(l) /\ c = r.args[1]
              \/ IsSelect(l) /\ IsSelect(r) /\ c = l.args[1] /\ c = r.args[1]
<1>1. CASE IsSelect(l) /\ IsConst(r)
  <2>1. ~IsConst(l)
    BY <1>1 DEF IsSelect, IsConst
  <2> QED BY <1>1, <2>1, SelectArms
<1>2. CASE IsSelect(r) /\ IsConst(l)
  BY <1>2, SelectArms
<1>3. CASE SameCondition(l, r) \/ SameCondition(r, l)
  <2>1. IsSelect(l) /\ IsSelect(r) /\ l.args[1] = r.args[1]
    BY <1>3, SameConditionIs
  <2>2. ~IsConst(l)
    BY <2>1 DEF IsSelect, IsConst
  <2> QED BY <2>1, <2>2, SelectArms
<1> QED BY <1>1, <1>2, <1>3 DEF MovesIntoArms

\* getOrCreate replaces the operation it was asked for, moved into the arms or not.
LEMMA GetOrCreateKeeps ==
    ASSUME NEW op \in BinaryOps, NEW l, NEW r, Good(l), Good(r), l.w = r.w, Plain(l), Plain(r)
    PROVE  Replaces(getOrCreate(op, l, r), Asked(op, l, r))
<1>1. CASE ~MovesIntoArms(l, r)
  BY <1>1, CreateBinOpKeeps DEF getOrCreate
<1>2. CASE MovesIntoArms(l, r)
  <2> DEFINE c == Arm(IF IsConst(l) THEN r ELSE l, 1)
  <2>1. getOrCreate(op, l, r)
          = createSelectFolder(c, CreateBinOp(op, Arm(l, 2), Arm(r, 2)),
                                  CreateBinOp(op, Arm(l, 3), Arm(r, 3)))
    BY <1>2 DEF getOrCreate
  <2>2. \/ IsSelect(l) /\ IsConst(r) /\ c = l.args[1]
        \/ IsSelect(r) /\ IsConst(l) /\ c = r.args[1]
        \/ IsSelect(l) /\ IsSelect(r) /\ c = l.args[1] /\ c = r.args[1]
    BY <1>2, MovedIs
  <2> HIDE DEF c
  <2>3. /\ Good(c) /\ c.w = 1 /\ Split(l, c) /\ Split(r, c)
        /\ \A val \in Valuations : l.eval[val] # Poison /\ r.eval[val] # Poison
             => c.eval[val] # Poison
    BY <2>2, SelectArms, SelectIsSplit, ConstIsSplit
  <2> QED BY <2>1, <2>3, SplitKeeps
<1> QED BY <1>1, <1>2

\* A cast may move into the arms too (getOrCreateCast).
LEMMA GetOrCreateCastKeeps ==
    ASSUME NEW op, NEW w, NEW a, Good(a), CastFits(op, w, a)
    PROVE  Replaces(getOrCreateCast(op, w, a), Term(op, w, <<a>>))
<1>1. CASE ~IsSelect(a)
  BY <1>1, CreateCastKeeps DEF getOrCreateCast
<1>2. CASE IsSelect(a)
  <2> DEFINE c == a.args[1]
             l == a.args[2]
             r == a.args[3]
             x == CreateCast(op, w, l)
             y == CreateCast(op, w, r)
  <2>1. /\ Good(c) /\ c.w = 1 /\ Good(l) /\ l.w = a.w /\ Good(r) /\ r.w = a.w
        /\ a = Chosen(c, l, r)
    BY <1>2, SelectArms
  <2>2. getOrCreateCast(op, w, a) = createSelectFolder(c, x, y)
    BY <1>2 DEF getOrCreateCast
  <2> HIDE DEF c, l, r
  <2>3. op \in Casts /\ CastFits(op, w, l) /\ CastFits(op, w, r)
    BY <2>1 DEF CastFits
  <2>4. Replaces(x, Term(op, w, <<l>>)) /\ Replaces(y, Term(op, w, <<r>>))
    BY <2>1, <2>3, CreateCastKeeps
  <2>5. x.w = w /\ y.w = w /\ Good(x) /\ Good(y)
    BY <2>3, <2>4, CastIs DEF Replaces, Made
  <2> HIDE DEF x, y
  <2>6. Replaces(createSelectFolder(c, x, y), Chosen(c, x, y))
    BY <2>1, <2>5, SelectFolderKeeps
  <2>7. Replaces(Chosen(c, x, y), Term(op, w, <<a>>))
    <3>1. Made(Chosen(c, x, y), Term(op, w, <<a>>).w)
      BY <2>1, <2>3, <2>5, GoodSelect, ChosenIs, CastIs DEF Made, Chosen
    <3>2. ASSUME NEW val \in Valuations, Term(op, w, <<a>>).eval[val] # Poison
          PROVE  Chosen(c, x, y).eval[val] = Term(op, w, <<a>>).eval[val]
      <4>1. a.eval[val] # Poison
            /\ Term(op, w, <<a>>).eval[val] = Converted(op, a.w, w, a.eval[val])
        BY <2>3, <3>2, CastIs
      <4>2. c.eval[val] # Poison
            /\ a.eval[val] = IF c.eval[val] # {} THEN l.eval[val] ELSE r.eval[val]
        <5>1. \A u : u = Chosen(c, l, r) =>
                u.eval[val] = IF c.eval[val] = Poison THEN Poison
                              ELSE IF c.eval[val] # {} THEN l.eval[val] ELSE r.eval[val]
          BY ChosenIs
        <5> QED BY <2>1, <4>1, <5>1
      <4>3. CASE c.eval[val] # {}
        <5>1. Term(op, w, <<l>>).eval[val] = Converted(op, a.w, w, a.eval[val])
          BY <2>1, <2>3, <4>1, <4>2, <4>3, CastIs
        <5> QED BY <2>4, <3>2, <4>1, <4>2, <4>3, <5>1, ChosenIs DEF Replaces
      <4>4. CASE c.eval[val] = {}
        <5>1. Term(op, w, <<r>>).eval[val] = Converted(op, a.w, w, a.eval[val])
          BY <2>1, <2>3, <4>1, <4>2, <4>4, CastIs
        <5> QED BY <2>4, <3>2, <4>1, <4>2, <4>4, <5>1, ChosenIs DEF Replaces
      <4> QED BY <4>3, <4>4
    <3> QED BY <3>1, <3>2 DEF Replaces
  <2> QED BY <2>2, <2>6, <2>7, ReplacesTwice
<1> QED BY <1>1, <1>2

\* The operands of these operations may be swapped.
LEMMA Commutes ==
    ASSUME NEW op, isCommutative(op), NEW w \in Nat \ {0},
           NEW a \in SUBSET Positions(w), NEW b \in SUBSET Positions(w)
    PROVE  /\ Compute(op, w, a, b) = Compute(op, w, b, a)
           /\ Defined(op, w, a) /\ Defined(op, w, b)
<1>1. Defined(op, w, a) /\ Defined(op, w, b)
  BY DEF isCommutative, Defined
<1>2. NatOf(a) \in Int /\ NatOf(b) \in Int /\ SignedOf(w, a) \in Int /\ SignedOf(w, b) \in Int
  BY NatOfBound, SignedOfIsNumber
<1>3. CASE op = "add"
  <2>1. \A u, v : Compute(op, w, u, v) = BitsOf(w, NatOf(u) + NatOf(v))
    BY <1>3 DEF Compute, Add, Predicates
  <2>2. NatOf(a) + NatOf(b) = NatOf(b) + NatOf(a)
    BY <1>2
  <2> QED BY <1>1, <2>1, <2>2
<1>4. CASE op = "mul"
  <2>1. \A u, v : Compute(op, w, u, v) = BitsOf(w, SignedOf(w, u) * SignedOf(w, v))
    BY <1>4 DEF Compute, Mul, Predicates
  <2>2. SignedOf(w, a) * SignedOf(w, b) = SignedOf(w, b) * SignedOf(w, a)
    BY <1>2
  <2> QED BY <1>1, <2>1, <2>2
<1>5. CASE op \in {"and", "or", "xor"}
  BY <1>1, <1>5 DEF Compute, Xor, Predicates
<1> QED BY <1>3, <1>4, <1>5 DEF isCommutative

\* createInstruction replaces the operation, with its operands swapped or not.
LEMMA CreateInstructionKeeps ==
    ASSUME NEW op \in BinaryOps, NEW l, NEW r, Good(l), Good(r), l.w = r.w, Plain(l), Plain(r)
    PROVE  Replaces(createInstruction(op, l, r), Asked(op, l, r))
<1>1. CASE ~(isCommutative(op) /\ getComplexity(l) < getComplexity(r))
  <2>1. createInstruction(op, l, r) = getOrCreate(op, l, r)
    BY <1>1 DEF createInstruction
  <2> QED BY <2>1, GetOrCreateKeeps
<1>2. CASE isCommutative(op) /\ getComplexity(l) < getComplexity(r)
  <2>1. createInstruction(op, l, r) = getOrCreate(op, r, l)
    BY <1>2 DEF createInstruction
  <2>2. Replaces(getOrCreate(op, r, l), Asked(op, r, l))
    BY GetOrCreateKeeps
  <2>3. Made(Asked(op, r, l), l.w)
    BY GoodBinary, AskedIs DEF Made, Asked
  <2>4. ASSUME NEW val \in Valuations,
               NEW a \in SUBSET Positions(l.w), NEW b \in SUBSET Positions(l.w),
               l.eval[val] = a, r.eval[val] = b, Defined(op, l.w, b)
        PROVE  Asked(op, r, l).eval[val] = Compute(op, l.w, a, b)
    <3>1. a # Poison /\ b # Poison
      BY GoodWidth, PoisonIsNoValue
    <3>2. Compute(op, l.w, a, b) = Compute(op, l.w, b, a) /\ Defined(op, l.w, a)
      BY <1>2, GoodWidth, Commutes
    <3> QED BY <2>4, <3>1, <3>2, AskedIs
  <2>5. Replaces(Asked(op, r, l), Asked(op, l, r))
    BY <2>3, <2>4, ReplacesAsked
  <2> QED BY <2>1, <2>2, <2>5, ReplacesTwice
<1> QED BY <1>1, <1>2

-----------------------------------------------------------------------------
(* Comparisons and casts *)

\* What a comparison that was asked for evaluates to.
LEMMA CompareIs ==
    ASSUME NEW P \in Predicates, NEW l, NEW r
    PROVE  /\ Term(P, 1, <<l, r>>).w = 1
           /\ \A val \in Valuations :
                Term(P, 1, <<l, r>>).eval[val] =
                    IF l.eval[val] = Poison \/ r.eval[val] = Poison THEN Poison
                    ELSE IF Holds(P, l.w, l.eval[val], r.eval[val]) THEN {0} ELSE {}
<1>1. Term(P, 1, <<l, r>>).w = 1
  BY TermIs
<1>2. \A val \in Valuations :
        Term(P, 1, <<l, r>>).eval[val] = Eval(P, 1, <<l, r>>, val)
  BY TermEval
<1>3. \A a, b : Defined(P, l.w, b)
                /\ Compute(P, l.w, a, b) = IF Holds(P, l.w, a, b) THEN {0} ELSE {}
  BY CompareIsValue
<1> QED BY <1>1, <1>2, <1>3, BinaryEval

\* Of a set with one truth value, it is the one that is in it.
LEMMA OneBoolean ==
    ASSUME NEW R \in SUBSET BOOLEAN, Cardinality(R) = 1, NEW h \in R
    PROVE  h <=> TRUE \in R
<1>1. IsFiniteSet(BOOLEAN)
  <2>1. IsFiniteSet({TRUE}) /\ IsFiniteSet({FALSE})
    BY FS_Singleton
  <2>2. IsFiniteSet({TRUE} \union {FALSE})
    BY <2>1, FS_Union
  <2>3. BOOLEAN = {TRUE} \union {FALSE}
    OBVIOUS
  <2> QED BY <2>2, <2>3
<1>2. IsFiniteSet(R)
  BY <1>1, FS_Subset
<1>3. PICK z : R = {z}
  BY <1>2, FS_Singleton
<1> QED BY <1>3

\* One result for all that fits what is known is the result.
LEMMA OneResult ==
    ASSUME NEW P \in Predicates, NEW l, NEW r, l.w \in Nat \ {0},
           Concretes(l.w, l.known) \in SUBSET SUBSET Positions(l.w),
           Concretes(r.w, r.known) \in SUBSET SUBSET Positions(l.w),
           NEW a \in Concretes(l.w, l.known), NEW b \in Concretes(r.w, r.known),
           Cardinality(Results(P, l, r)) = 1
    PROVE  Holds(P, l.w, a, b) <=> TRUE \in Results(P, l, r)
<1>1. ASSUME NEW x \in Concretes(l.w, l.known), NEW y \in Concretes(r.w, r.known)
      PROVE  Holds(P, l.w, x, y) \in BOOLEAN
  BY HoldsIsBoolean
<1>2. Results(P, l, r) \in SUBSET BOOLEAN
  BY <1>1 DEF Results
<1>3. Holds(P, l.w, a, b) \in Results(P, l, r)
  BY DEF Results
<1> DEFINE R == Results(P, l, r)
           h == Holds(P, l.w, a, b)
<1>4. R \in SUBSET BOOLEAN /\ Cardinality(R) = 1 /\ h \in R
  BY <1>2, <1>3
<1> HIDE DEF R, h
<1>5. h <=> TRUE \in R
  BY <1>4, OneBoolean, Zenon
<1> QED BY <1>5 DEF R, h

\* A comparison of a select with its own arm, which is wrong where both arms are equal.
ComparesArm(P, l, r) == IsSelect(l) /\ P = "eq" /\ r = l.args[2]

\* What is enumerated from the known bits are values.
LEMMA ConcretesAreValues ==
    ASSUME NEW w, NEW k \in KnownBits(w)
    PROVE  Concretes(w, k) \in SUBSET SUBSET Positions(w)
BY DEF Concretes, KnownBits, UnknownBits

\* createICMPFolder makes a bit, which replaces the comparison if it was not one of a
\* select with its own arm.
LEMMA ICMPFolderKeeps ==
    ASSUME NEW P \in Predicates, NEW l, NEW r, Good(l), Good(r), l.w = r.w
    PROVE  /\ Made(createICMPFolder(P, l, r), 1)
           /\ ~ComparesArm(P, l, r) =>
                Replaces(createICMPFolder(P, l, r), Term(P, 1, <<l, r>>))
<1> DEFINE decided == TRUE \in Results(P, l, r)
           v == IF decided THEN {0} ELSE {}
<1>1. CASE ComparesArm(P, l, r)
  <2>1. createICMPFolder(P, l, r) = l.args[1]
    BY <1>1 DEF createICMPFolder, ComparesArm
  <2> QED BY <1>1, <2>1, SelectArms DEF ComparesArm, Made
<1>2. CASE ~ComparesArm(P, l, r) /\ Cardinality(Results(P, l, r)) = 1
  <2>1. createICMPFolder(P, l, r) = Constant(1, v)
    BY <1>2 DEF createICMPFolder, ComparesArm
  <2>2. v \in SUBSET Positions(1) /\ 1 \in 1 .. LongBits
    <3> HIDE DEF decided
    <3> QED BY FolderAssumption DEF Positions
  <2>3. Made(Constant(1, v), 1) /\ \A val \in Valuations : Constant(1, v).eval[val] = v
    <3> HIDE DEF v
    <3> QED BY <2>2, GoodConst, ConstEval DEF Made
  <2>4. ASSUME NEW val \in Valuations, Term(P, 1, <<l, r>>).eval[val] # Poison
        PROVE  v = Term(P, 1, <<l, r>>).eval[val]
    <3> DEFINE a == l.eval[val]
               b == r.eval[val]
    <3> HIDE DEF decided
    <3>1. a # Poison /\ b # Poison
          /\ Term(P, 1, <<l, r>>).eval[val] = IF Holds(P, l.w, a, b) THEN {0} ELSE {}
      BY <2>4, CompareIs
    <3>2. a \in Concretes(l.w, l.known) /\ b \in Concretes(r.w, r.known) /\ l.w \in Nat \ {0}
      BY <3>1, GoodWidth, GoodValue, ConcreteFits
    <3>3. Concretes(l.w, l.known) \in SUBSET SUBSET Positions(l.w)
          /\ Concretes(r.w, r.known) \in SUBSET SUBSET Positions(l.w)
      BY GoodWidth, ConcretesAreValues
    <3> HIDE DEF a, b
    <3>4. Holds(P, l.w, a, b) <=> decided
      BY <1>2, <3>2, <3>3, OneResult, Zenon DEF decided
    <3> QED BY <3>1, <3>4
  <2> HIDE DEF v, decided
  <2>5. Term(P, 1, <<l, r>>).w = 1
    BY CompareIs
  <2> QED BY <2>1, <2>3, <2>4, <2>5 DEF Replaces
<1>3. CASE ~ComparesArm(P, l, r) /\ Cardinality(Results(P, l, r)) # 1
  <2>1. createICMPFolder(P, l, r) = Term(P, 1, <<l, r>>)
    BY <1>3 DEF createICMPFolder, ComparesArm
  <2>2. Good(Term(P, 1, <<l, r>>)) /\ Term(P, 1, <<l, r>>).w = 1
    BY GoodCompare, CompareIs
  <2> QED BY <2>1, <2>2, ReplacesItself DEF Made
<1> QED BY <1>1, <1>2, <1>3

\* A term of which every bit is known may be the constant.
LEMMA KnownKeeps ==
    ASSUME NEW t, Good(t), IsConstant(t.w, t.known)
    PROVE  Replaces(Constant(t.w, t.known.one), t)
<1>1. t.known \in KnownBits(t.w) /\ t.w \in 1 .. LongBits
  BY GoodWidth
<1>2. t.known.one \in SUBSET Positions(t.w)
  BY <1>1 DEF KnownBits
<1>3. Made(Constant(t.w, t.known.one), t.w)
  BY <1>1, <1>2, GoodConst DEF Made
<1>4. \A val \in Valuations : t.eval[val] # Poison => t.eval[val] = t.known.one
  BY <1>1, GoodValue, KnownIsValue DEF IsConstant
<1> QED BY <1>3, <1>4, ConstEval DEF Replaces

\* The cast that was made, or the constant its known bits are, replaces the cast.
LEMMA CreateCastFolderKeeps ==
    ASSUME NEW op, NEW w, NEW a, Good(a), CastFits(op, w, a)
    PROVE  Replaces(createCast(op, w, a), Term(op, w, <<a>>))
<1> DEFINE t == getOrCreateCast(op, w, a)
<1>1. Replaces(t, Term(op, w, <<a>>))
  BY GetOrCreateCastKeeps
<1>2. Good(t) /\ t.w = w
  BY <1>1, CastIs DEF Replaces, Made, CastFits
<1>3. createCast(op, w, a) = IF ~IsConst(t) /\ w > 1 /\ IsConstant(w, t.known)
                             THEN Constant(w, t.known.one) ELSE t
  BY DEF createCast
<1> HIDE DEF t
<1> QED BY <1>1, <1>2, <1>3, KnownKeeps, ReplacesTwice

\* What a cast folder is asked for: nothing where the width is the same.
AskedCast(op, w, a) ==
    IF w = a.w THEN a ELSE Term(IF w < a.w THEN "trunc" ELSE op, w, <<a>>)

\* So do the folders that cast where the widths differ, and leave what has the width.
LEMMA CastFolderKeeps ==
    ASSUME NEW w \in 1 .. LongBits, NEW a, Good(a)
    PROVE  /\ Replaces(createZExtOrTruncFolder(w, a), AskedCast("zext", w, a))
           /\ Replaces(createSExtOrTruncFolder(w, a), AskedCast("sext", w, a))
<1>1. w \in Nat /\ a.w \in Nat
  BY GoodWidth, WidthIsNumber
<1>2. CASE w = a.w
  <2>1. createZExtOrTruncFolder(w, a) = a /\ createSExtOrTruncFolder(w, a) = a
    BY <1>1, <1>2 DEF createZExtOrTruncFolder, createSExtOrTruncFolder, createTruncFolder
  <2> QED BY <1>2, <2>1, ReplacesItself DEF AskedCast
<1>3. CASE w < a.w
  <2>1. createZExtOrTruncFolder(w, a) = createCast("trunc", w, a)
        /\ createSExtOrTruncFolder(w, a) = createCast("trunc", w, a)
    BY <1>1, <1>3 DEF createZExtOrTruncFolder, createSExtOrTruncFolder, createTruncFolder
  <2>2. CastFits("trunc", w, a)
    BY <1>1, <1>3 DEF CastFits, Casts
  <2>3. AskedCast("zext", w, a) = Term("trunc", w, <<a>>)
        /\ AskedCast("sext", w, a) = Term("trunc", w, <<a>>)
    BY <1>1, <1>3 DEF AskedCast
  <2> QED BY <2>1, <2>2, <2>3, CreateCastFolderKeeps
<1>4. CASE a.w < w
  <2>1. createZExtOrTruncFolder(w, a) = createCast("zext", w, a)
        /\ createSExtOrTruncFolder(w, a) = createCast("sext", w, a)
    BY <1>1, <1>4
       DEF createZExtOrTruncFolder, createSExtOrTruncFolder, createZExtFolder, createSExtFolder
  <2>2. CastFits("zext", w, a) /\ CastFits("sext", w, a)
    BY <1>1, <1>4 DEF CastFits, Casts
  <2>3. AskedCast("zext", w, a) = Term("zext", w, <<a>>)
        /\ AskedCast("sext", w, a) = Term("sext", w, <<a>>)
    BY <1>1, <1>4 DEF AskedCast
  <2> QED BY <2>1, <2>2, <2>3, CreateCastFolderKeeps
<1> QED BY <1>1, <1>2, <1>3, <1>4

-----------------------------------------------------------------------------
(* Operands and bits that are known *)

\* What zero does to an operand.
LEMMA ZeroOperand ==
    ASSUME NEW w \in Nat \ {0}, NEW v \in SUBSET Positions(w)
    PROVE  /\ Add(w, {}, v) = v /\ Add(w, v, {}) = v /\ Sub(w, v, {}) = v
           /\ Shl(w, v, 0) = v /\ LShr(v, 0) = v
           /\ \A n \in Nat : Shl(w, {}, n) = {} /\ LShr({}, n) = {} /\ AShr(w, {}, n) = {}
<1>1. NatOf({}) = 0 /\ NatOf(v) \in Nat
  BY NatOfEmpty, NatOfBound
<1>2. Add(w, {}, v) = v /\ Add(w, v, {}) = v /\ Sub(w, v, {}) = v
  <2>1. NatOf({}) + NatOf(v) = NatOf(v) /\ NatOf(v) + NatOf({}) = NatOf(v)
        /\ NatOf(v) - NatOf({}) = NatOf(v)
    BY <1>1
  <2>2. BitsOf(w, NatOf(v)) = v
    BY BitsOfNatOf
  <2> QED BY <2>1, <2>2 DEF Add, Sub
<1>3. Shl(w, v, 0) = v /\ LShr(v, 0) = v
  <2>1. \A i \in v : i \in Nat /\ i + 0 = i /\ i - 0 = i /\ i >= 0
    BY DEF Positions
  <2> QED BY <2>1 DEF Shl, LShr
<1>4. \A n \in Nat : Shl(w, {}, n) = {} /\ LShr({}, n) = {} /\ AShr(w, {}, n) = {}
  BY DEF Shl, LShr, AShr
<1> QED BY <1>2, <1>3, <1>4

\* A constant operand is its bits, for all values of the rest.
LEMMA ConstOperand ==
    ASSUME NEW t, Good(t), IsConst(t)
    PROVE  /\ t = Constant(t.w, t.bits) /\ t.bits \in SUBSET Positions(t.w)
           /\ \A val \in Valuations : t.eval[val] = t.bits
<1>1. t = Constant(t.w, t.bits) /\ t.bits \in SUBSET Positions(t.w)
  BY GoodIs, ConstTerm
<1> QED BY <1>1, ConstEval

\* Zero is built from terms.
LEMMA ZeroConstant ==
    ASSUME NEW w \in 1 .. LongBits
    PROVE  /\ Made(Constant(w, {}), w)
           /\ \A val \in Valuations : Constant(w, {}).eval[val] = {}
BY GoodConst, ConstEval DEF Made

\* So are all bits.
LEMMA OnesConstant ==
    ASSUME NEW w \in 1 .. LongBits
    PROVE  /\ Made(Ones(w), w) /\ IsMinusOne(Ones(w))
           /\ \A val \in Valuations : Ones(w).eval[val] = Positions(w)
<1>1. Good(Ones(w)) /\ Ones(w).w = w /\ IsConst(Ones(w)) /\ Ones(w).bits = Positions(w)
  BY GoodConst DEF Ones
<1> QED BY <1>1, ConstEval DEF Made, IsMinusOne, Ones

\* An operation with zero or -1 is the operand or the constant that is returned for it.
LEMMA TrivialKeeps ==
    ASSUME NEW op \in BinaryOps, NEW l, NEW r, Good(l), Good(r), l.w = r.w,
           Trivial(op, l, r) # None
    PROVE  Replaces(Trivial(op, l, r), Asked(op, l, r))
<1> DEFINE t == Trivial(op, l, r)
<1>1. l.w \in Nat \ {0} /\ l.w \in 1 .. LongBits
  BY GoodWidth
<1>2. /\ Made(l, l.w) /\ Made(r, l.w)
      /\ Made(Constant(l.w, {}), l.w)
      /\ \A val \in Valuations : Constant(l.w, {}).eval[val] = {}
  BY <1>1, ZeroConstant DEF Made
<1>3. \A val \in Valuations :
        (IsZero(l) => l.eval[val] = {}) /\ (IsZero(r) => r.eval[val] = {})
  BY ConstOperand DEF IsZero
<1>4. \A val \in Valuations : /\ IsMinusOne(l) => l.eval[val] = Positions(l.w)
                              /\ IsMinusOne(r) => r.eval[val] = Positions(l.w)
  BY ConstOperand DEF IsMinusOne
<1>5. \A b \in SUBSET Positions(l.w) : NatOf(b) \in Nat
  BY <1>1, NatOfBound
<1>6. NatOf({}) = 0
  BY NatOfEmpty
<1>7. t # None
  OBVIOUS
<1>8. \/ op \in {"shl", "lshr"} /\ IsZero(r) /\ t = l
      \/ op \in {"shl", "lshr"} /\ IsConst(r) /\ NatOf(r.bits) >= l.w /\ t = Constant(l.w, {})
      \/ op \in {"shl", "lshr", "ashr"} /\ IsZero(l) /\ t = l
      \/ op \in {"xor", "add", "or"} /\ IsZero(l) /\ t = r
      \/ op \in {"xor", "add", "or", "sub"} /\ IsZero(r) /\ t = l
      \/ op = "or" /\ IsMinusOne(l) /\ t = l
      \/ op = "or" /\ IsMinusOne(r) /\ t = r
      \/ op = "and" /\ (IsZero(l) \/ IsZero(r)) /\ t = Constant(l.w, {})
      \/ op = "and" /\ IsMinusOne(l) /\ t = r
      \/ op = "and" /\ IsMinusOne(r) /\ t = l
  BY <1>7, TrivialIs
<1> SUFFICES Replaces(t, Asked(op, l, r))
  OBVIOUS
<1> HIDE DEF t
<1>9. CASE op \in {"shl", "lshr"} /\ IsZero(r) /\ t = l
  <2>1. \A a \in SUBSET Positions(l.w) : Compute(op, l.w, a, {}) = a
    BY <1>1, <1>6, <1>9, ZeroOperand DEF Compute, Predicates
  <2> QED BY <1>2, <1>3, <1>9, <2>1, ReplacesAsked
<1>10. CASE /\ op \in {"shl", "lshr"} /\ IsConst(r) /\ NatOf(r.bits) >= l.w
            /\ t = Constant(l.w, {})
  <2>1. \A val \in Valuations : r.eval[val] = r.bits
    BY <1>10, ConstOperand
  <2>2. NatOf(r.bits) \in Nat
    BY <1>5, <1>10, ConstOperand
  <2>3. ~Defined(op, l.w, r.bits)
    BY <1>1, <1>10, <2>2 DEF Defined
  <2> QED BY <1>2, <1>10, <2>1, <2>3, ReplacesAsked
<1>11. CASE op \in {"shl", "lshr", "ashr"} /\ IsZero(l) /\ t = l
  <2>1. \A b \in SUBSET Positions(l.w) : Compute(op, l.w, {}, b) = {}
    BY <1>1, <1>5, <1>11, ZeroOperand DEF Compute, Predicates
  <2> QED BY <1>2, <1>3, <1>11, <2>1, ReplacesAsked
<1>12. CASE op \in {"xor", "add", "or"} /\ IsZero(l) /\ t = r
  <2>1. \A b \in SUBSET Positions(l.w) : Compute(op, l.w, {}, b) = b
    BY <1>1, <1>12, ZeroOperand DEF Compute, Predicates, Xor
  <2> QED BY <1>2, <1>3, <1>12, <2>1, ReplacesAsked
<1>13. CASE op \in {"xor", "add", "or", "sub"} /\ IsZero(r) /\ t = l
  <2>1. \A a \in SUBSET Positions(l.w) : Compute(op, l.w, a, {}) = a
    BY <1>1, <1>13, ZeroOperand DEF Compute, Predicates, Xor
  <2> QED BY <1>2, <1>3, <1>13, <2>1, ReplacesAsked
<1>14. CASE op = "or" /\ IsMinusOne(l) /\ t = l
  <2>1. \A b \in SUBSET Positions(l.w) : Compute(op, l.w, Positions(l.w), b) = Positions(l.w)
    BY <1>14 DEF Compute, Predicates
  <2> QED BY <1>2, <1>4, <1>14, <2>1, ReplacesAsked
<1>15. CASE op = "or" /\ IsMinusOne(r) /\ t = r
  <2>1. \A a \in SUBSET Positions(l.w) : Compute(op, l.w, a, Positions(l.w)) = Positions(l.w)
    BY <1>15 DEF Compute, Predicates
  <2> QED BY <1>2, <1>4, <1>15, <2>1, ReplacesAsked
<1>16. CASE op = "and" /\ (IsZero(l) \/ IsZero(r)) /\ t = Constant(l.w, {})
  <2>1. \A a, b : Compute(op, l.w, {}, b) = {} /\ Compute(op, l.w, a, {}) = {}
    BY <1>16 DEF Compute, Predicates
  <2> QED BY <1>2, <1>3, <1>16, <2>1, ReplacesAsked
<1>17. CASE op = "and" /\ IsMinusOne(l) /\ t = r
  <2>1. \A b \in SUBSET Positions(l.w) : Compute(op, l.w, Positions(l.w), b) = b
    BY <1>17 DEF Compute, Predicates
  <2> QED BY <1>2, <1>4, <1>17, <2>1, ReplacesAsked
<1>18. CASE op = "and" /\ IsMinusOne(r) /\ t = l
  <2>1. \A a \in SUBSET Positions(l.w) : Compute(op, l.w, a, Positions(l.w)) = a
    BY <1>18 DEF Compute, Predicates
  <2> QED BY <1>2, <1>4, <1>18, <2>1, ReplacesAsked
<1> QED BY <1>8, <1>9, <1>10, <1>11, <1>12, <1>13, <1>14, <1>15, <1>16, <1>17, <1>18

\* So is one whose result is known in every bit.
LEMMA KnownResultKeeps ==
    ASSUME NEW op \in BinaryOps, NEW l, NEW r, Good(l), Good(r), l.w = r.w,
           KnownResult(l.w, KnownBinary(op, l.w, l.known, r.known)) # None
    PROVE  Replaces(KnownResult(l.w, KnownBinary(op, l.w, l.known, r.known)), Asked(op, l, r))
<1> DEFINE k == KnownBinary(op, l.w, l.known, r.known)
<1>1. l.w \in 1 .. LongBits /\ l.w \in Nat \ {0}
      /\ l.known \in KnownBits(l.w) /\ r.known \in KnownBits(l.w)
  BY GoodWidth
<1>2. /\ k \in KnownBits(l.w)
      /\ \A a, b \in SUBSET Positions(l.w) :
            Fits(l.known, a) /\ Fits(r.known, b) /\ Defined(op, l.w, b)
                => Fits(k, Compute(op, l.w, a, b))
  BY <1>1, KnownBinaryIs
<1> HIDE DEF k
<1>3. UnknownBits(l.w, k) = {} /\ KnownResult(l.w, k) = Constant(l.w, k.one)
  BY DEF KnownResult, IsConstant, k
<1>4. Made(Constant(l.w, k.one), l.w)
  BY <1>1, <1>2, GoodConst DEF Made, KnownBits
<1>5. ASSUME NEW val \in Valuations,
             NEW a \in SUBSET Positions(l.w), NEW b \in SUBSET Positions(l.w),
             l.eval[val] = a, r.eval[val] = b, Defined(op, l.w, b)
      PROVE  Constant(l.w, k.one).eval[val] = Compute(op, l.w, a, b)
  <2>1. a # Poison /\ b # Poison
    BY <1>1, PoisonIsNoValue
  <2>2. Fits(l.known, a) /\ Fits(r.known, b)
    BY <1>5, <2>1, GoodValue
  <2>3. Compute(op, l.w, a, b) \in SUBSET Positions(l.w)
    BY <1>1, <1>5, ComputeIsValue
  <2>4. Compute(op, l.w, a, b) = k.one
    BY <1>2, <1>3, <1>5, <2>2, <2>3, KnownIsValue
  <2> QED BY <2>4, ConstEval
<1>6. Replaces(Constant(l.w, k.one), Asked(op, l, r))
  BY <1>4, <1>5, ReplacesAsked
<1> QED BY <1>3, <1>6 DEF k

-----------------------------------------------------------------------------
(* Patterns *)

\* The operands of an operation built from terms are, with its width.
LEMMA BinaryArgs ==
    ASSUME NEW t, Good(t), t.op \in BinaryOps
    PROVE  /\ Good(t.args[1]) /\ t.args[1].w = t.w
           /\ Good(t.args[2]) /\ t.args[2].w = t.w
           /\ t = Asked(t.op, t.args[1], t.args[2])
<1>1. IsTerm(t)
  BY GoodIs
<1>2. t.args = <<t.args[1], t.args[2]>> /\ t.args[1].w = t.w /\ t.args[2].w = t.w
  BY <1>1, BinaryTerm
<1>3. Good(t.args[1]) /\ Good(t.args[2])
  BY <1>1, ArgsAreThere, GoodIs
<1>4. t = Term(t.op, t.w, t.args)
  BY <1>1 DEF IsTerm, Operations
<1>5. t = Term(t.op, t.args[1].w, <<t.args[1], t.args[2]>>)
  BY <1>2, <1>4
<1> QED BY <1>2, <1>3, <1>5 DEF Asked

\* What a term with two operands evaluates to, where it has a value.
LEMMA BinaryValue ==
    ASSUME NEW t, Good(t), t.op \in BinaryOps, NEW val \in Valuations, t.eval[val] # Poison
    PROVE  LET a == t.args[1].eval[val]
               b == t.args[2].eval[val]
           IN /\ a # Poison /\ a \in SUBSET Positions(t.w)
              /\ b # Poison /\ b \in SUBSET Positions(t.w)
              /\ t.eval[val] = Compute(t.op, t.w, a, b)
<1> DEFINE l == t.args[1]
           r == t.args[2]
<1>1. Good(l) /\ l.w = t.w /\ Good(r) /\ r.w = t.w /\ t = Asked(t.op, l, r)
  BY BinaryArgs
<1> HIDE DEF l, r
<1>2. Asked(t.op, l, r).eval[val] # Poison
  BY <1>1
<1>3. /\ l.eval[val] # Poison /\ l.eval[val] \in SUBSET Positions(l.w)
      /\ r.eval[val] # Poison /\ r.eval[val] \in SUBSET Positions(l.w)
      /\ Asked(t.op, l, r).eval[val] = Compute(t.op, l.w, l.eval[val], r.eval[val])
  BY <1>1, <1>2, AskedFrom
<1>4. /\ l.eval[val] # Poison /\ l.eval[val] \in SUBSET Positions(t.w)
      /\ r.eval[val] # Poison /\ r.eval[val] \in SUBSET Positions(t.w)
      /\ t.eval[val] = Compute(t.op, t.w, l.eval[val], r.eval[val])
  BY <1>1, <1>3
<1> QED BY <1>4 DEF l, r

\* What is inverted has all the other bits.
LEMMA NotIs ==
    ASSUME NEW t, Good(t), IsNot(t)
    PROVE  /\ t.op = "xor" /\ Good(t.args[1]) /\ t.args[1].w = t.w
           /\ \A val \in Valuations : t.eval[val] # Poison =>
                /\ t.args[1].eval[val] # Poison
                /\ t.eval[val] = Positions(t.w) \ t.args[1].eval[val]
<1>1. t.op = "xor" /\ t.op \in BinaryOps /\ IsMinusOne(t.args[2])
  BY DEF IsNot, BinaryOps
<1>2. /\ Good(t.args[1]) /\ t.args[1].w = t.w
      /\ Good(t.args[2]) /\ t.args[2].w = t.w
  BY <1>1, BinaryArgs
<1>3. \A val \in Valuations : t.args[2].eval[val] = Positions(t.w)
  BY <1>1, <1>2, ConstOperand DEF IsMinusOne
<1>4. ASSUME NEW val \in Valuations, t.eval[val] # Poison
      PROVE  /\ t.args[1].eval[val] # Poison
             /\ t.eval[val] = Positions(t.w) \ t.args[1].eval[val]
  <2> DEFINE a == t.args[1].eval[val]
             b == t.args[2].eval[val]
  <2>1. a # Poison /\ a \in SUBSET Positions(t.w) /\ t.eval[val] = Compute(t.op, t.w, a, b)
    BY <1>1, <1>4, BinaryValue
  <2>2. b = Positions(t.w)
    BY <1>3
  <2>3. Compute(t.op, t.w, a, b) = Xor(a, b)
    BY <1>1 DEF Compute, Predicates
  <2> HIDE DEF a, b
  <2>4. a # Poison /\ t.eval[val] = Positions(t.w) \ a
    BY <2>1, <2>2, <2>3 DEF Xor
  <2> QED BY <2>4 DEF a
<1> QED BY <1>1, <1>2, <1>4

\* The operand of a cast, and what becomes of its value.
LEMMA CastArg ==
    ASSUME NEW t, Good(t), t.op \in Casts
    PROVE  /\ Good(t.args[1])
           /\ t.op = "trunc" => t.args[1].w > t.w
           /\ t.op # "trunc" => t.args[1].w < t.w
           /\ \A val \in Valuations : t.eval[val] # Poison =>
                /\ t.args[1].eval[val] # Poison
                /\ t.eval[val] = Converted(t.op, t.args[1].w, t.w, t.args[1].eval[val])
<1>1. IsTerm(t)
  BY GoodIs
<1>2. t.args = <<t.args[1]>> /\ (t.op = "trunc" => t.args[1].w > t.w)
      /\ (t.op # "trunc" => t.args[1].w < t.w)
  BY <1>1, CastTerm
<1>3. Good(t.args[1])
  BY <1>1, ArgsAreThere, GoodIs
<1>4. t = Term(t.op, t.w, <<t.args[1]>>)
  BY <1>1, <1>2 DEF IsTerm, Operations
<1>5. \A val \in Valuations :
        t.eval[val] = IF t.args[1].eval[val] = Poison THEN Poison
                      ELSE Converted(t.op, t.args[1].w, t.w, t.args[1].eval[val])
  BY <1>4, CastIs
<1> QED BY <1>2, <1>3, <1>5

\* Widening with zeroes leaves the value.
LEMMA PeelIs ==
    ASSUME NEW t, Good(t)
    PROVE  LET p == Peel({"zext"}, t)
           IN /\ Good(p) /\ (t.op # "zext" => p = t)
              /\ \A val \in Valuations : t.eval[val] # Poison => p.eval[val] = t.eval[val]
<1>1. CASE t.op # "zext"
  BY <1>1 DEF Peel
<1>2. CASE t.op = "zext"
  <2>1. t.op \in Casts /\ Peel({"zext"}, t) = t.args[1]
    BY <1>2 DEF Casts, Peel
  <2>2. \A v : Converted(t.op, t.args[1].w, t.w, v) = v
    BY <1>2 DEF Converted
  <2> QED BY <1>2, <2>1, <2>2, CastArg
<1> QED BY <1>1, <1>2

\* Inverses have no bit in common, and all bits between them unless both are widened.
Inverses(x, y) ==
    \A val \in Valuations : x.eval[val] # Poison /\ y.eval[val] # Poison =>
        /\ x.eval[val] \intersect y.eval[val] = {}
        /\ (x.op # "zext" \/ y.op # "zext") => x.eval[val] \union y.eval[val] = Positions(x.w)

\* What IsInverse takes for inverses are: in all the bits of the narrower.
LEMMA InverseIs ==
    ASSUME NEW x, NEW notX, Good(x), Good(notX), x.w = notX.w, IsInverse(x, notX)
    PROVE  Inverses(x, notX)
<1>1. CASE /\ IsNot(Peel({"zext"}, notX))
           /\ Peel({"zext"}, notX).args[1] \in {x, Peel({"zext"}, x)}
  <2> DEFINE n == Peel({"zext"}, notX)
             p == Peel({"zext"}, x)
             y == n.args[1]
  <2>1. /\ Good(n) /\ (notX.op # "zext" => n = notX)
        /\ \A val \in Valuations : notX.eval[val] # Poison => n.eval[val] = notX.eval[val]
    BY PeelIs
  <2>2. /\ Good(p) /\ (x.op # "zext" => p = x)
        /\ \A val \in Valuations : x.eval[val] # Poison => p.eval[val] = x.eval[val]
    BY PeelIs
  <2>3. IsNot(n) /\ y \in {x, p}
    BY <1>1
  <2> HIDE DEF n, p
  <2>4. /\ y.w = n.w
        /\ \A val \in Valuations : n.eval[val] # Poison =>
             n.eval[val] = Positions(n.w) \ y.eval[val]
    BY <2>1, <2>3, NotIs
  <2> HIDE DEF y
  <2>5. x.op # "zext" \/ notX.op # "zext" => n.w = x.w
    BY <2>1, <2>2, <2>3, <2>4
  <2>6. ASSUME NEW val \in Valuations, x.eval[val] # Poison, notX.eval[val] # Poison
        PROVE  /\ x.eval[val] \intersect notX.eval[val] = {}
               /\ (x.op # "zext" \/ notX.op # "zext")
                    => x.eval[val] \union notX.eval[val] = Positions(x.w)
    <3>1. notX.eval[val] = Positions(n.w) \ x.eval[val]
      BY <2>1, <2>2, <2>3, <2>4, <2>6
    <3>2. x.eval[val] \in SUBSET Positions(x.w)
      BY <2>6, GoodValue
    <3> QED BY <2>5, <3>1, <3>2
  <2> QED BY <2>6 DEF Inverses
<1>2. CASE /\ x.op = "trunc" /\ notX.op = "trunc"
           /\ IsNot(notX.args[1]) /\ notX.args[1].args[1] = x.args[1]
  <2> DEFINE n == notX.args[1]
             z == x.args[1]
  <2>1. x.op \in Casts /\ notX.op \in Casts
    BY <1>2 DEF Casts
  <2>2. Good(z) /\ Good(n) /\ n.w > x.w
    BY <1>2, <2>1, CastArg
  <2>3. \A v, from : Converted("trunc", from, x.w, v) = v \intersect Positions(x.w)
    BY DEF Converted, Trunc
  <2>4. \A val \in Valuations :
          /\ x.eval[val] # Poison => x.eval[val] = z.eval[val] \intersect Positions(x.w)
          /\ notX.eval[val] # Poison => n.eval[val] # Poison
                /\ notX.eval[val] = n.eval[val] \intersect Positions(x.w)
    <3>1. \A val \in Valuations : x.eval[val] # Poison =>
            x.eval[val] = Converted("trunc", z.w, x.w, z.eval[val])
      BY <1>2, <2>1, CastArg
    <3>2. \A val \in Valuations : notX.eval[val] # Poison => n.eval[val] # Poison
            /\ notX.eval[val] = Converted("trunc", n.w, x.w, n.eval[val])
      BY <1>2, <2>1, CastArg
    <3> HIDE DEF n, z
    <3> QED BY <2>3, <3>1, <3>2
  <2>5. IsNot(n) /\ n.args[1] = z
    BY <1>2
  <2> HIDE DEF n, z
  <2>6. \A val \in Valuations : n.eval[val] # Poison
          => n.eval[val] = Positions(n.w) \ z.eval[val]
    BY <2>2, <2>5, NotIs
  <2>7. Positions(x.w) \subseteq Positions(n.w)
    BY <2>2, GoodWidth DEF Positions
  <2>8. ASSUME NEW val \in Valuations, x.eval[val] # Poison, notX.eval[val] # Poison
        PROVE  /\ x.eval[val] \intersect notX.eval[val] = {}
               /\ x.eval[val] \union notX.eval[val] = Positions(x.w)
    BY <2>4, <2>6, <2>7, <2>8
  <2> QED BY <2>8 DEF Inverses
<1> QED BY <1>1, <1>2 DEF IsInverse

\* X & ~X is zero, widened or not.
LEMMA AndPatternKeeps ==
    ASSUME NEW l, NEW r, Good(l), Good(r), l.w = r.w, AndPattern(l, r) # None
    PROVE  Replaces(AndPattern(l, r), Asked("and", l, r))
<1>1. (IsInverse(l, r) \/ IsInverse(r, l)) /\ AndPattern(l, r) = Constant(l.w, {})
  BY DEF AndPattern
<1>2. Inverses(l, r) \/ Inverses(r, l)
  BY <1>1, InverseIs
<1>3. \A a, b : Compute("and", l.w, a, b) = a \intersect b
  BY DEF Compute, Predicates
<1>4. l.w \in 1 .. LongBits /\ l.w \in Nat \ {0} /\ "and" \in BinaryOps
  BY GoodWidth DEF BinaryOps
<1>5. ASSUME NEW val \in Valuations,
             NEW a \in SUBSET Positions(l.w), NEW b \in SUBSET Positions(l.w),
             l.eval[val] = a, r.eval[val] = b, Defined("and", l.w, b)
      PROVE  Constant(l.w, {}).eval[val] = Compute("and", l.w, a, b)
  <2>1. a # Poison /\ b # Poison
    BY <1>4, PoisonIsNoValue
  <2>2. a \intersect b = {}
    BY <1>2, <1>5, <2>1 DEF Inverses
  <2> QED BY <1>3, <1>4, <2>2, ZeroConstant
<1>6. Made(Constant(l.w, {}), l.w)
  BY <1>4, ZeroConstant
<1> QED BY <1>1, <1>4, <1>5, <1>6, ReplacesAsked

\* The four cases of the pattern of xor.
LEMMA XorPatternIs ==
    ASSUME NEW l, NEW r, NEW Negated
    PROVE  \/ (IsInverse(l, r) \/ IsInverse(r, l))
              /\ XorPattern(l, r, Negated) = Constant(r.w, Positions(r.w))
           \/ l = r /\ XorPattern(l, r, Negated) = Constant(r.w, {})
           \/ IsMinusOne(r) /\ l.op = "or" /\ XorPattern(l, r, Negated) = Negated
           \/ XorPattern(l, r, Negated) = None
BY DEF XorPattern

\* X ^ ~X is all bits unless both were widened, X ^ X is zero, and ~(A | B) what negating
\* it made.
LEMMA XorPatternKeeps ==
    ASSUME NEW l, NEW r, NEW Negated, Good(l), Good(r), l.w = r.w,
           IsMinusOne(r) /\ l.op = "or" /\ Negated # None
               => Replaces(Negated, Asked("xor", l, r)),
           XorPattern(l, r, Negated) # None
    PROVE  /\ Made(XorPattern(l, r, Negated), l.w)
           /\ ~WidenedInverses(l, r)
                => Replaces(XorPattern(l, r, Negated), Asked("xor", l, r))
<1> DEFINE t == XorPattern(l, r, Negated)
<1>1. l.w \in 1 .. LongBits /\ l.w \in Nat \ {0} /\ "xor" \in BinaryOps
  BY GoodWidth DEF BinaryOps
<1>2. \A a, b : Compute("xor", l.w, a, b) = (a \ b) \union (b \ a)
  BY DEF Compute, Predicates, Xor
<1>3. CASE (IsInverse(l, r) \/ IsInverse(r, l)) /\ t = Ones(l.w)
  <2>1. Made(Ones(l.w), l.w) /\ \A val \in Valuations : Ones(l.w).eval[val] = Positions(l.w)
    BY <1>1, OnesConstant
  <2>2. Inverses(l, r) \/ Inverses(r, l)
    BY <1>3, InverseIs
  <2>3. ASSUME ~WidenedInverses(l, r), NEW val \in Valuations,
               NEW a \in SUBSET Positions(l.w), NEW b \in SUBSET Positions(l.w),
               l.eval[val] = a, r.eval[val] = b, Defined("xor", l.w, b)
        PROVE  Ones(l.w).eval[val] = Compute("xor", l.w, a, b)
    <3>1. a # Poison /\ b # Poison
      BY <1>1, PoisonIsNoValue
    <3>2. a \intersect b = {} /\ a \union b = Positions(l.w)
      BY <1>3, <2>2, <2>3, <3>1 DEF Inverses, WidenedInverses
    <3>3. Compute("xor", l.w, a, b) = Positions(l.w)
      BY <1>2, <3>2
    <3> QED BY <2>1, <3>3
  <2>4. ~WidenedInverses(l, r) => Replaces(Ones(l.w), Asked("xor", l, r))
    BY <1>1, <2>1, <2>3, ReplacesAsked
  <2> QED BY <1>3, <2>1, <2>4
<1>4. CASE l = r /\ t = Constant(l.w, {})
  <2>1. /\ Made(Constant(l.w, {}), l.w)
        /\ \A val \in Valuations : Constant(l.w, {}).eval[val] = {}
    BY <1>1, ZeroConstant
  <2>2. \A a : Compute("xor", l.w, a, a) = {}
    BY <1>2
  <2>3. Replaces(Constant(l.w, {}), Asked("xor", l, r))
    BY <1>1, <1>4, <2>1, <2>2, ReplacesAsked
  <2> QED BY <1>4, <2>1, <2>3
<1>5. CASE IsMinusOne(r) /\ l.op = "or" /\ t = Negated /\ Negated # None
  <2>1. Replaces(t, Asked("xor", l, r))
    BY <1>5
  <2>2. Asked("xor", l, r).w = l.w
    BY <1>1, AskedIs
  <2> QED BY <2>1, <2>2 DEF Replaces
<1> QED BY <1>3, <1>4, <1>5, XorPatternIs DEF Ones

\* The pattern of or makes a value of the width, if not the right one.
LEMMA OrPatternIsMade ==
    ASSUME NEW l, NEW r, Good(l), Good(r), l.w = r.w, OrPattern(l, r) # None
    PROVE  Made(OrPattern(l, r), l.w)
<1> DEFINE inverted == IF IsInvertedMask(l, r) THEN l ELSE r
           other == IF IsInvertedMask(l, r) THEN r ELSE l
           A == other.args[1]
           c == createICMPFolder("eq", A, Constant(A.w, {}))
<1>1. /\ IsInvertedMask(inverted, other)
      /\ OrPattern(l, r) = createSelectFolder(c, inverted.args[2], other.args[2])
  BY DEF OrPattern
<1>2. Good(inverted) /\ inverted.w = l.w /\ Good(other) /\ other.w = l.w
  OBVIOUS
<1> HIDE DEF inverted, other
<1>3. inverted.op \in BinaryOps /\ other.op \in BinaryOps
  BY <1>1 DEF IsInvertedMask, BinaryOps
<1>4. Good(A) /\ Good(inverted.args[2]) /\ inverted.args[2].w = l.w
      /\ Good(other.args[2]) /\ other.args[2].w = l.w
  BY <1>2, <1>3, BinaryArgs
<1> HIDE DEF A
<1>5. Made(Constant(A.w, {}), A.w) /\ "eq" \in Predicates
  BY <1>4, GoodWidth, ZeroConstant DEF Predicates
<1>6. Made(c, 1)
  BY <1>4, <1>5, ICMPFolderKeeps DEF Made
<1> HIDE DEF c
<1>7. Replaces(createSelectFolder(c, inverted.args[2], other.args[2]),
               Chosen(c, inverted.args[2], other.args[2]))
  BY <1>4, <1>6, SelectFolderKeeps DEF Made
<1> QED BY <1>1, <1>4, <1>7, ChosenIs DEF Replaces

\* A constant with a bit of a value at its place shifted to the lowest one.
AddMatches(l, r) ==
    /\ Good(l) /\ Good(r) /\ l.w = r.w /\ IsConst(l) /\ r.op = "lshr"
    /\ IsConst(r.args[2]) /\ r.args[1].op = "and" /\ IsConst(r.args[1].args[2])

\* A set of one is not empty.
LEMMA OneIsSome ==
    ASSUME NEW S, Cardinality(S) = 1
    PROVE  S # {}
<1>1. Cardinality({}) = 0
  BY FS_EmptySet
<1> QED BY <1>1

\* What the pattern of add matches, and what it makes.
LEMMA AddPatternIs ==
    ASSUME NEW l, NEW r, Good(l), Good(r), l.w = r.w, AddPattern(l, r) # None
    PROVE  LET masked == r.args[1]
               zero == Constant(l.w, {})
           IN /\ AddMatches(l, r)
              /\ AddPattern(l, r)
                   = createSelectFolder(createICMPFolder("eq", r, zero), l, zero)
              /\ \E p \in masked.args[2].bits :
                    LET diff == p - NatOf(r.args[2].bits)
                    IN /\ Cardinality(masked.args[2].bits) = 1 /\ diff >= 0
                       /\ l.bits = MathIsHard(diff) .. l.w - 1
<1> DEFINE masked == r.args[1]
           power == CHOOSE p \in masked.args[2].bits : TRUE
           diff == power - NatOf(r.args[2].bits)
           zero == Constant(l.w, {})
<1>1. /\ IsConst(l) /\ r.op = "lshr" /\ IsConst(r.args[2])
      /\ masked.op = "and" /\ IsConst(masked.args[2]) /\ Cardinality(masked.args[2].bits) = 1
      /\ diff >= 0 /\ l.bits = MathIsHard(diff) .. l.w - 1
      /\ AddPattern(l, r) = createSelectFolder(createICMPFolder("eq", r, zero), l, zero)
  BY DEF AddPattern
<1>2. masked.args[2].bits # {}
  <2>1. Cardinality(masked.args[2].bits) = 1
    BY <1>1
  <2> QED BY <2>1, OneIsSome
<1>3. power \in masked.args[2].bits
  BY <1>2
<1> HIDE DEF power
<1>4. AddMatches(l, r)
  BY <1>1 DEF AddMatches
<1>5. \E p \in masked.args[2].bits :
        LET d == p - NatOf(r.args[2].bits)
        IN /\ Cardinality(masked.args[2].bits) = 1 /\ d >= 0
           /\ l.bits = MathIsHard(d) .. l.w - 1
  <2> WITNESS power \in masked.args[2].bits
  <2> QED BY <1>1
<1> QED BY <1>1, <1>4, <1>5

\* It makes a value of the width: a select on the comparison with zero.
LEMMA AddPatternIsMade ==
    ASSUME NEW l, NEW r, Good(l), Good(r), l.w = r.w, AddPattern(l, r) # None
    PROVE  /\ Made(AddPattern(l, r), l.w)
           /\ Replaces(AddPattern(l, r),
                       Chosen(createICMPFolder("eq", r, Constant(l.w, {})),
                              l, Constant(l.w, {})))
           /\ Replaces(createICMPFolder("eq", r, Constant(l.w, {})),
                       Term("eq", 1, <<r, Constant(l.w, {})>>))
<1> DEFINE zero == Constant(l.w, {})
           c == createICMPFolder("eq", r, zero)
<1>1. AddPattern(l, r) = createSelectFolder(c, l, zero) /\ r.op = "lshr"
  BY AddPatternIs DEF AddMatches
<1>2. Good(zero) /\ zero.w = l.w /\ "eq" \in Predicates
  BY GoodWidth, ZeroConstant DEF Predicates, Made
<1> HIDE DEF zero
<1>3. ~ComparesArm("eq", r, zero)
  BY <1>1 DEF ComparesArm, IsSelect
<1>4. Made(c, 1) /\ Replaces(c, Term("eq", 1, <<r, zero>>))
  BY <1>2, <1>3, ICMPFolderKeeps
<1> HIDE DEF c
<1>5. Replaces(createSelectFolder(c, l, zero), Chosen(c, l, zero))
  BY <1>2, <1>4, SelectFolderKeeps DEF Made
<1>6. Made(createSelectFolder(c, l, zero), l.w)
  BY <1>5, ChosenIs DEF Replaces
<1> QED BY <1>1, <1>4, <1>5, <1>6 DEF c, zero

\* -1 plus zero is -1, and -1 plus one is zero.
LEMMA OnesPlus ==
    ASSUME NEW w \in Nat \ {0}
    PROVE  Add(w, Positions(w), {}) = Positions(w) /\ Add(w, Positions(w), {0}) = {}
<1>1. Add(w, Positions(w), {}) = Positions(w)
  BY ZeroOperand
<1>2. NatOf({0}) = 1
  <2>1. NatOf({} \union {0}) = NatOf({}) + 2^0
    <3>1. {} \in SUBSET Nat /\ IsFiniteSet({}) /\ 0 \in Nat /\ 0 \notin {}
      BY FS_EmptySet
    <3> QED BY <3>1, NatOfAdd
  <2>2. {} \union {0} = {0} /\ 2^0 = 1
    OBVIOUS
  <2> QED BY <2>1, <2>2, NatOfEmpty
<1>3. 2^w \in Nat \ {0} /\ NatOf(Positions(w)) = 2^w - 1
  BY AllOnes, PowerStep
<1> DEFINE P == 2^w
           n == NatOf(Positions(w)) + NatOf({0})
<1>4. P \in Int /\ n = P
  BY <1>2, <1>3
<1>5. Add(w, Positions(w), {0}) = BitsOf(w, n)
  BY DEF Add
<1>6. BitsOf(w, n) = BitsOf(w, 0)
  <2> HIDE DEF n
  <2>1. n = 0 + 1 * 2^w
    BY <1>4
  <2> QED BY <1>4, <2>1, BitsOfSame
<1>7. BitsOf(w, 0) = {}
  BY NatOfEmpty, BitsOfNatOf
<1> QED BY <1>1, <1>5, <1>6, <1>7

\* Where the constant is -1 the bit is the lowest one, and the select is the sum.
LEMMA AddPatternKeeps ==
    ASSUME NEW l, NEW r, Good(l), Good(r), l.w = r.w, AddPattern(l, r) # None, IsMinusOne(l)
    PROVE  Replaces(AddPattern(l, r), Asked("add", l, r))
<1> DEFINE w == l.w
           masked == r.args[1]
           s == NatOf(r.args[2].bits)
           K == masked.args[2].bits
           zero == Constant(w, {})
           c == createICMPFolder("eq", r, zero)
<1>1. w \in 1 .. LongBits /\ w \in Nat \ {0}
  BY GoodWidth
<1>2. AddMatches(l, r) /\ \E p \in K : /\ Cardinality(K) = 1 /\ p - s >= 0
                                       /\ l.bits = MathIsHard(p - s) .. w - 1
  BY AddPatternIs
<1>3. PICK p \in K : /\ Cardinality(K) = 1 /\ p - s >= 0
                     /\ l.bits = MathIsHard(p - s) .. w - 1
  BY <1>2
<1>4. "lshr" \in BinaryOps /\ "and" \in BinaryOps /\ "add" \in BinaryOps /\ "eq" \in Predicates
  BY DEF BinaryOps, Predicates
<1>5. Good(masked) /\ masked.w = w /\ Good(r.args[2]) /\ r.args[2].w = w
  BY <1>2, <1>4, BinaryArgs DEF AddMatches
<1>6. Good(masked.args[1]) /\ Good(masked.args[2]) /\ masked.args[2].w = w
  BY <1>2, <1>4, <1>5, BinaryArgs DEF AddMatches
<1>7. /\ r.args[2].bits \in SUBSET Positions(w) /\ K \in SUBSET Positions(w)
      /\ \A val \in Valuations : r.args[2].eval[val] = r.args[2].bits
      /\ \A val \in Valuations : masked.args[2].eval[val] = K
  BY <1>2, <1>5, <1>6, ConstOperand DEF AddMatches
<1>8. s \in Nat /\ p \in Nat
  BY <1>1, <1>3, <1>7, NatOfBound DEF Positions
<1>9. K = {p}
  <2>1. IsFiniteSet(K)
    BY <1>1, <1>7, ValueIsFinite
  <2>2. PICK z : K = {z}
    BY <1>3, <2>1, FS_Singleton
  <2> QED BY <1>3, <2>2
<1>10. l.bits = Positions(w)
  BY DEF IsMinusOne
<1>11. p = s
  <2> DEFINE m == MathIsHard(p - s)
  <2>1. p - s \in Nat
    BY <1>3, <1>8
  <2>2. m = IF p - s = 0 THEN 0 ELSE p - s + 1
    BY DEF MathIsHard
  <2>3. m \in Nat
    BY <2>1, <2>2
  <2> HIDE DEF m, s, w
  <2>4. 0 \in m .. w - 1
    <3>1. 0 \in Positions(w) /\ l.bits = m .. w - 1
      BY <1>1, <1>3 DEF Positions, m
    <3> QED BY <1>10, <3>1
  <2>5. m = 0
    BY <1>1, <2>3, <2>4
  <2> QED BY <1>8, <2>1, <2>2, <2>5
<1>12. ASSUME NEW val \in Valuations, r.eval[val] # Poison
       PROVE  r.eval[val] \in {{}, {0}}
  <2>1. masked.eval[val] # Poison /\ r.eval[val] = LShr(masked.eval[val], s)
    <3>1. masked.eval[val] # Poison
          /\ r.eval[val] = Compute(r.op, r.w, masked.eval[val], r.args[2].eval[val])
      BY <1>2, <1>4, <1>12, BinaryValue DEF AddMatches
    <3>2. \A a, b : Compute("lshr", r.w, a, b) = LShr(a, NatOf(b))
      BY DEF Compute, Predicates
    <3> QED BY <1>2, <1>7, <3>1, <3>2 DEF AddMatches
  <2>2. masked.eval[val] \in {{}, {p}}
    <3>1. masked.eval[val] = Compute(masked.op, masked.w, masked.args[1].eval[val],
                                     masked.args[2].eval[val])
      BY <1>2, <1>4, <1>5, <2>1, BinaryValue DEF AddMatches
    <3>2. \A a, b : Compute("and", masked.w, a, b) = a \intersect b
      BY DEF Compute, Predicates
    <3>3. masked.eval[val] = masked.args[1].eval[val] \intersect K
      <4>1. masked.op = "and" /\ masked.args[2].eval[val] = K
        BY <1>2, <1>7 DEF AddMatches
      <4> HIDE DEF masked, K
      <4> QED BY <3>1, <3>2, <4>1
    <3> QED BY <1>9, <3>3
  <2>3. LShr({}, p) = {} /\ LShr({p}, p) = {0}
    BY <1>8 DEF LShr
  <2> QED BY <1>11, <2>1, <2>2, <2>3
<1>13. /\ Replaces(AddPattern(l, r), Chosen(c, l, zero))
       /\ Replaces(c, Term("eq", 1, <<r, zero>>))
       /\ Made(AddPattern(l, r), l.w)
  BY AddPatternIsMade
<1>14. \A val \in Valuations : l.eval[val] = Positions(w) /\ zero.eval[val] = {}
  BY <1>1, <1>10, ConstOperand, ZeroConstant DEF IsMinusOne
<1> HIDE DEF c, zero, w
<1>15. ASSUME NEW val \in Valuations,
              NEW a \in SUBSET Positions(w), NEW b \in SUBSET Positions(w),
              l.eval[val] = a, r.eval[val] = b, Defined("add", w, b)
       PROVE  AddPattern(l, r).eval[val] = Compute("add", w, a, b)
  <2>1. b # Poison /\ {} # Poison /\ {0} # Poison
    BY <1>1, PoisonIsNoValue DEF Poison
  <2>2. a = Positions(w) /\ b \in {{}, {0}}
    BY <1>12, <1>14, <1>15, <2>1
  <2>3. Term("eq", 1, <<r, zero>>).eval[val] = IF b = {} THEN {0} ELSE {}
    <3>1. Holds("eq", r.w, b, {}) = (b = {})
      BY DEF Holds
    <3>2. Term("eq", 1, <<r, zero>>).eval[val]
            = IF r.eval[val] = Poison \/ zero.eval[val] = Poison THEN Poison
              ELSE IF Holds("eq", r.w, r.eval[val], zero.eval[val]) THEN {0} ELSE {}
      BY <1>4, CompareIs
    <3>3. r.eval[val] = b /\ zero.eval[val] = {} /\ b # Poison /\ {} # Poison
      BY <1>14, <1>15, <2>1
    <3>4. Term("eq", 1, <<r, zero>>).eval[val]
            = IF Holds("eq", r.w, b, {}) THEN {0} ELSE {}
      BY <3>2, <3>3
    <3> QED BY <3>1, <3>4
  <2>4. c.eval[val] = IF b = {} THEN {0} ELSE {}
    BY <1>13, <2>1, <2>3 DEF Replaces
  <2>5. Chosen(c, l, zero).eval[val] = IF b = {} THEN Positions(w) ELSE {}
    <3>1. Chosen(c, l, zero).eval[val]
            = IF c.eval[val] = Poison THEN Poison
              ELSE IF c.eval[val] # {} THEN l.eval[val] ELSE zero.eval[val]
      BY ChosenIs
    <3>2. {0} # {}
      OBVIOUS
    <3> QED BY <1>14, <2>1, <2>4, <3>1, <3>2
  <2>6. Positions(w) # Poison
    BY <1>1, PoisonIsNoValue
  <2>7. AddPattern(l, r).eval[val] = IF b = {} THEN Positions(w) ELSE {}
    BY <1>13, <2>1, <2>5, <2>6 DEF Replaces
  <2>8. Compute("add", w, a, b) = Add(w, a, b)
    BY DEF Compute, Predicates
  <2> QED BY <1>1, <2>2, <2>7, <2>8, OnesPlus
<1> QED BY <1>4, <1>13, <1>15, ReplacesAsked DEF w

-----------------------------------------------------------------------------
(* folderBinOps *)

\* What folderBinOps returns: the first of these that there is.
LEMMA FoldedIs ==
    ASSUME NEW op, NEW l, NEW r, NEW pattern
    PROVE  LET known == KnownResult(l.w, KnownBinary(op, l.w, l.known, r.known))
               t == Folded(op, l, r, pattern)
           IN \/ Trivial(op, l, r) # None /\ t = Trivial(op, l, r)
              \/ known # None /\ t = known
              \/ pattern # None /\ t = pattern
              \/ t = createInstruction(op, l, r)
BY DEF Folded

\* If the pattern replaces the operation, what folderBinOps returns does.
LEMMA FoldedKeeps ==
    ASSUME NEW op \in BinaryOps, NEW l, NEW r, Good(l), Good(r), l.w = r.w, Plain(l), Plain(r),
           NEW pattern, pattern # None => Replaces(pattern, Asked(op, l, r))
    PROVE  Replaces(Folded(op, l, r, pattern), Asked(op, l, r))
<1> DEFINE known == KnownResult(l.w, KnownBinary(op, l.w, l.known, r.known))
           t == Folded(op, l, r, pattern)
<1>1. \/ Trivial(op, l, r) # None /\ t = Trivial(op, l, r)
      \/ known # None /\ t = known
      \/ pattern # None /\ t = pattern
      \/ t = createInstruction(op, l, r)
  BY FoldedIs
<1>2. known # None => Replaces(known, Asked(op, l, r))
  BY KnownResultKeeps
<1>3. Trivial(op, l, r) # None => Replaces(Trivial(op, l, r), Asked(op, l, r))
  BY TrivialKeeps
<1>4. Replaces(createInstruction(op, l, r), Asked(op, l, r))
  BY CreateInstructionKeeps
<1> HIDE DEF known, t
<1>5. Replaces(t, Asked(op, l, r))
  BY <1>1, <1>2, <1>3, <1>4
<1> QED BY <1>5 DEF t

\* Whatever the pattern makes, folderBinOps returns a value of the width.
LEMMA FoldedIsMade ==
    ASSUME NEW op \in BinaryOps, NEW l, NEW r, Good(l), Good(r), l.w = r.w, Plain(l), Plain(r),
           NEW pattern, pattern # None => Made(pattern, l.w)
    PROVE  Made(Folded(op, l, r, pattern), l.w)
<1> DEFINE known == KnownResult(l.w, KnownBinary(op, l.w, l.known, r.known))
           t == Folded(op, l, r, pattern)
<1>1. \/ Trivial(op, l, r) # None /\ t = Trivial(op, l, r)
      \/ known # None /\ t = known
      \/ pattern # None /\ t = pattern
      \/ t = createInstruction(op, l, r)
  BY FoldedIs
<1>2. known # None => Replaces(known, Asked(op, l, r))
  BY KnownResultKeeps
<1>3. Trivial(op, l, r) # None => Replaces(Trivial(op, l, r), Asked(op, l, r))
  BY TrivialKeeps
<1>4. Replaces(createInstruction(op, l, r), Asked(op, l, r))
  BY CreateInstructionKeeps
<1>5. Asked(op, l, r).w = l.w
  BY AskedIs
<1> HIDE DEF known, t
<1>6. Made(t, l.w)
  BY <1>1, <1>2, <1>3, <1>4, <1>5 DEF Replaces
<1> QED BY <1>6 DEF t

\* What is neither a cast nor a select is plain,
LEMMA NoCastIsPlain ==
    ASSUME NEW t, t.op \notin Casts \union {"select"}
    PROVE  Plain(t)
BY DEF Plain, IsSelect

\* as a constant,
LEMMA ConstIsPlain ==
    ASSUME NEW w, NEW v
    PROVE  Constant(w, v).op \notin Casts \union {"select"}
<1>1. Constant(w, v).op = "const"
  BY TermIs DEF Constant
<1> QED BY <1>1, OpsAreApart

\* and an operation on two operands, or the select into which it moved.
LEMMA InstructionIsPlain ==
    ASSUME NEW op \in BinaryOps, NEW l, NEW r, Good(l), Good(r), l.w = r.w, Plain(l), Plain(r)
    PROVE  Plain(getOrCreate(op, l, r))
<1>1. ASSUME NEW a, NEW b
      PROVE  Plain(CreateBinOp(op, a, b)) /\ CreateBinOp(op, a, b).w = a.w
  <2>1. Term(op, a.w, <<a, b>>).op = op /\ Term(op, a.w, <<a, b>>).w = a.w
    BY TermIs
  <2>2. \A v : Constant(a.w, v).w = a.w
    BY TermIs DEF Constant
  <2> QED BY <2>1, <2>2, ConstIsPlain, NoCastIsPlain, OpsAreApart DEF CreateBinOp
<1>2. CASE ~MovesIntoArms(l, r)
  BY <1>1, <1>2 DEF getOrCreate
<1>3. CASE MovesIntoArms(l, r)
  <2> DEFINE c == Arm(IF IsConst(l) THEN r ELSE l, 1)
             a == CreateBinOp(op, Arm(l, 2), Arm(r, 2))
             b == CreateBinOp(op, Arm(l, 3), Arm(r, 3))
             t == createSelectFolder(c, a, b)
  <2>1. getOrCreate(op, l, r) = t
    BY <1>3 DEF getOrCreate
  <2>2. \/ IsSelect(l) /\ IsConst(r) /\ c = l.args[1]
        \/ IsSelect(r) /\ IsConst(l) /\ c = r.args[1]
        \/ IsSelect(l) /\ IsSelect(r) /\ c = l.args[1] /\ c = r.args[1]
    BY <1>3, MovedIs
  <2>3. Arm(l, 2).w = l.w
    BY <2>2, SelectArms DEF Arm
  <2>4. Plain(a) /\ Plain(b) /\ a.w = l.w
    BY <1>1, <2>3
  <2>5. <<c, l.w>> \in Guards
    <3> HIDE DEF c
    <3> QED BY <2>2 DEF Plain
  <2> HIDE DEF c, a, b
  <2>6. t \in {a, b, Term("select", a.w, <<c, a, b>>)}
    BY DEF createSelectFolder, Selected, Pick
  <2>7. Plain(Term("select", a.w, <<c, a, b>>))
    <3> DEFINE s == Term("select", a.w, <<c, a, b>>)
    <3>1. s.op = "select" /\ s.w = l.w /\ s.args = <<c, a, b>>
      BY <2>4, TermIs
    <3> HIDE DEF s
    <3>2. Plain(s)
      BY <2>5, <3>1, OpsAreApart DEF Plain
    <3> QED BY <3>2 DEF s
  <2> QED BY <2>1, <2>4, <2>6, <2>7
<1> QED BY <1>2, <1>3

\* So what folderBinOps returns is.
LEMMA FoldedIsPlain ==
    ASSUME NEW op \in BinaryOps, NEW l, NEW r, Good(l), Good(r), l.w = r.w, Plain(l), Plain(r),
           NEW pattern, pattern # None => Plain(pattern)
    PROVE  Plain(Folded(op, l, r, pattern))
<1> DEFINE known == KnownResult(l.w, KnownBinary(op, l.w, l.known, r.known))
           t == Folded(op, l, r, pattern)
<1>1. \/ Trivial(op, l, r) # None /\ t = Trivial(op, l, r)
      \/ known # None /\ t = known
      \/ pattern # None /\ t = pattern
      \/ t = createInstruction(op, l, r)
  BY FoldedIs
<1>2. known # None => Plain(known)
  BY ConstIsPlain, NoCastIsPlain DEF KnownResult
<1>3. Trivial(op, l, r) # None => Plain(Trivial(op, l, r))
  <2>1. Trivial(op, l, r) # None => Trivial(op, l, r) \in {l, r, Constant(l.w, {})}
    BY TrivialIs
  <2> QED BY <2>1, ConstIsPlain, NoCastIsPlain
<1>4. Plain(createInstruction(op, l, r))
  BY InstructionIsPlain DEF createInstruction
<1> HIDE DEF known, t
<1>5. Plain(t)
  BY <1>1, <1>2, <1>3, <1>4
<1> QED BY <1>5 DEF t

-----------------------------------------------------------------------------
(* The complement of an operand is defined, for all its ors within ors *)

\* What Complement[t] is, from a function that has the complements of smaller operands.
Step(f, t) ==
    LET A == t.args[1]
        B == t.args[2]
        invert(u) == IF IsNot(u) THEN u.args[1] ELSE f[u]
        negatedOr == IF IsConst(A) \/ IsConst(B) \/ (IsNot(A) /\ IsNot(B))
                     THEN FoldedAnd(invert(A), invert(B)) ELSE None
    IN Folded("xor", t, Ones(t.w), XorPattern(t, Ones(t.w), negatedOr))

\* A function that has them for the operands of fewer than n operations.
Complements(f, n) == \A t \in Operands : t.size < n => f[t] = Step(f, t)

\* One step of Complement asks for smaller operands only.
LEMMA StepDepends ==
    ASSUME NEW t \in Operands, NEW f, NEW g,
           \A u \in Operands : u.size < t.size => f[u] = g[u]
    PROVE  Step(f, t) = Step(g, t)
<1>1. CASE t.op = "or"
  <2>1. Good(t) /\ t.op \in BinaryOps
    BY <1>1, OperandsAreGood DEF BinaryOps
  <2>2. 1 \in DOMAIN t.args /\ 2 \in DOMAIN t.args
    BY <2>1, GoodIs, ArgsAreThere
  <2>3. /\ t.args[1] \in Operands /\ t.args[1].size < t.size
        /\ t.args[2] \in Operands /\ t.args[2].size < t.size
    BY <2>1, <2>2, FolderAssumption, OperandIsSmaller
  <2>4. f[t.args[1]] = g[t.args[1]] /\ f[t.args[2]] = g[t.args[2]]
    BY <2>3
  <2> QED BY <2>4, Zenon DEF Step
<1>2. CASE t.op # "or"
  <2>1. \A r, p, q : XorPattern(t, r, p) = XorPattern(t, r, q)
    BY <1>2 DEF XorPattern
  <2> QED BY <2>1, Zenon DEF Step
<1> QED BY <1>1, <1>2

\* The size of an operand is a number.
LEMMA OperandSize ==
    ASSUME NEW t \in Operands
    PROVE  t.size \in Nat
BY FolderAssumption DEF IsTerm

\* There is a function of the complements of all operands below any size.
LEMMA ComplementsExist ==
    ASSUME NEW n \in Nat
    PROVE  \E f : Complements(f, n)
<1> DEFINE T == {k \in Nat : ~ \E f : Complements(f, k)}
<1>1. T \in SUBSET Nat /\ \A k \in Nat : k \in T <=> ~ \E f : Complements(f, k)
  BY Zenon
<1> HIDE DEF T
<1>2. \A f : Complements(f, 0)
  BY OperandSize DEF Complements
<1>3. ASSUME NEW k \in T PROVE k # 0 /\ k - 1 \in T
  <2>1. k \in Nat /\ ~ \E f : Complements(f, k)
    BY <1>1
  <2>2. k # 0
    BY <1>2, <2>1
  <2>3. k - 1 \in Nat
    BY <2>1, <2>2
  <2>4. ASSUME NEW f, Complements(f, k - 1) PROVE FALSE
    <3> DEFINE g == [t \in Operands |-> Step(f, t)]
    <3>1. \A t \in Operands : g[t] = Step(f, t)
      OBVIOUS
    <3> HIDE DEF g
    <3>2. \A t \in Operands : t.size < k - 1 => g[t] = f[t]
      BY <2>4, <3>1 DEF Complements
    <3>3. ASSUME NEW t \in Operands, t.size < k PROVE g[t] = Step(g, t)
      <4>1. \A u \in Operands : u.size < t.size => f[u] = g[u]
        BY <2>1, <3>2, <3>3, OperandSize
      <4> QED BY <3>1, <4>1, StepDepends
    <3>4. Complements(g, k)
      BY <3>3 DEF Complements
    <3> QED BY <2>1, <3>4
  <2> QED BY <1>1, <2>2, <2>3, <2>4, Zenon
<1>4. T = {}
  BY <1>1, <1>3, NoneFails
<1> QED BY <1>1, <1>4, Zenon

\* Two of them agree where both are defined.
LEMMA ComplementsAgree ==
    ASSUME NEW f, NEW g, NEW m \in Nat, NEW n \in Nat, Complements(f, m), Complements(g, n)
    PROVE  \A t \in Operands : t.size < m /\ t.size < n => f[t] = g[t]
<1> DEFINE T == {k \in Nat : \E t \in Operands : t.size = k /\ k < m /\ k < n /\ f[t] # g[t]}
<1>1. T = {}
  <2> SUFFICES ASSUME T # {} PROVE FALSE
    OBVIOUS
  <2>1. PICK k \in T : \A j \in T : k <= j
    <3>1. T \in SUBSET Nat
      OBVIOUS
    <3> HIDE DEF T
    <3> QED BY <3>1, LeastNumber
  <2>2. PICK t \in Operands : t.size = k /\ k < m /\ k < n /\ f[t] # g[t]
    OBVIOUS
  <2>3. ASSUME NEW u \in Operands, u.size < t.size PROVE f[u] = g[u]
    <3>1. u.size \in Nat /\ u.size < k /\ k \in Nat
      BY <2>2, <2>3, OperandSize
    <3>2. u.size \notin T
      BY <2>1, <3>1
    <3> QED BY <2>2, <3>1, <3>2
  <2>4. f[t] = Step(f, t) /\ g[t] = Step(g, t)
    BY <2>2 DEF Complements
  <2> QED BY <2>2, <2>3, <2>4, StepDepends
<1> QED BY <1>1, OperandSize

\* So there is one for all operands, and Complement, which TLA+ defines as any that
\* satisfies its equation, satisfies it.
LEMMA ComplementIs ==
    ASSUME NEW t \in Operands
    PROVE  Complement[t] = Step(Complement, t)
<1> DEFINE All(f) == [u \in Operands |-> Step(f, u)]
           C(n) == CHOOSE f : Complements(f, n)
           g == [u \in Operands |-> C(u.size + 1)[u]]
<1>1. \A n \in Nat : Complements(C(n), n)
  BY ComplementsExist, Zenon
<1> HIDE DEF C
<1>2. \A u \in Operands : g[u] = C(u.size + 1)[u]
  OBVIOUS
<1>3. ASSUME NEW u \in Operands PROVE g[u] = Step(g, u)
  <2>1. u.size \in Nat /\ u.size + 1 \in Nat
    BY OperandSize
  <2>2. C(u.size + 1)[u] = Step(C(u.size + 1), u)
    BY <1>1, <2>1 DEF Complements
  <2>3. ASSUME NEW v \in Operands, v.size < u.size PROVE C(u.size + 1)[v] = g[v]
    <3>1. v.size \in Nat /\ v.size + 1 \in Nat /\ v.size < v.size + 1 /\ v.size < u.size + 1
      BY <2>1, <2>3, OperandSize
    <3>2. C(u.size + 1)[v] = C(v.size + 1)[v]
      BY <1>1, <2>1, <3>1, ComplementsAgree
    <3> QED BY <1>2, <3>2
  <2> HIDE DEF g
  <2>4. Step(C(u.size + 1), u) = Step(g, u)
    BY <2>3, StepDepends
  <2> QED BY <1>2, <2>2, <2>4
<1>4. g = All(g)
  BY <1>3
<1>5. Complement = CHOOSE f : f = All(f)
  BY Zenon DEF Complement, Step
<1>6. Complement = All(Complement)
  <2> HIDE DEF g, All
  <2> QED BY <1>4, <1>5, Zenon
<1>7. All(Complement)[t] = Step(Complement, t)
  OBVIOUS
<1> HIDE DEF All
<1> QED BY <1>6, <1>7

\* The inverse of a term, as an operation.
Inverted(t) == Asked("xor", t, Ones(t.w))

\* Operands are plain, and theirs are operands.
LEMMA OperandIsPlain ==
    ASSUME NEW t \in Operands
    PROVE  Plain(t) /\ \A i \in DOMAIN t.args : t.args[i] \in Operands
<1>1. IsSelect(t) => <<t.args[1], t.w>> \in Guards
  BY DEF Guards
<1>2. ASSUME t.op \in Casts, IsSelect(t.args[1]), <<t.args[1].args[1], t.w>> \in Guards
      PROVE  FALSE
  <2>1. PICK u \in Operands : IsSelect(u) /\ u.args[1] = t.args[1].args[1] /\ u.w = t.w
    BY <1>2 DEF Guards
  <2>2. \E ops \in {{"trunc"}, {"zext", "sext"}} : t.op \in ops
    BY <1>2 DEF Casts
  <2>3. SameCondition(t, u)
    BY <1>2, <2>1, <2>2 DEF SameCondition, Peel
  <2> QED BY <1>2, <2>1, <2>3, ArmsFit
<1> QED BY <1>1, <1>2, FolderAssumption DEF Plain

\* What the inverse of a term evaluates to.
LEMMA InvertedIs ==
    ASSUME NEW t, Good(t)
    PROVE  /\ Good(Ones(t.w)) /\ Ones(t.w).w = t.w /\ Plain(Ones(t.w)) /\ Ones(t.w).op # "zext"
           /\ Good(Inverted(t)) /\ Inverted(t).w = t.w
           /\ \A val \in Valuations :
                Inverted(t).eval[val] = IF t.eval[val] = Poison THEN Poison
                                        ELSE Positions(t.w) \ t.eval[val]
<1>1. t.w \in 1 .. LongBits /\ t.w \in Nat \ {0} /\ "xor" \in BinaryOps
  BY GoodWidth DEF BinaryOps
<1>2. Made(Ones(t.w), t.w) /\ \A val \in Valuations : Ones(t.w).eval[val] = Positions(t.w)
  BY <1>1, OnesConstant
<1>3. Ones(t.w).op \notin Casts \union {"select"}
  BY ConstIsPlain DEF Ones
<1>4. Plain(Ones(t.w)) /\ Ones(t.w).op # "zext"
  BY <1>3, NoCastIsPlain DEF Casts
<1>5. Good(Inverted(t)) /\ Inverted(t).w = t.w
  BY <1>1, <1>2, GoodBinary, AskedIs DEF Inverted, Asked, Made
<1>6. Positions(t.w) # Poison
  BY <1>1, PoisonIsNoValue
<1>7. ASSUME NEW val \in Valuations
      PROVE  Inverted(t).eval[val] = IF t.eval[val] = Poison THEN Poison
                                     ELSE Positions(t.w) \ t.eval[val]
  <2>1. Inverted(t).eval[val]
          = IF t.eval[val] = Poison \/ Ones(t.w).eval[val] = Poison
               \/ ~Defined("xor", t.w, Ones(t.w).eval[val]) THEN Poison
            ELSE Compute("xor", t.w, t.eval[val], Ones(t.w).eval[val])
    BY <1>1, AskedIs DEF Inverted
  <2>2. \A b : Defined("xor", t.w, b)
    BY DEF Defined
  <2>3. \A a : Compute("xor", t.w, a, Positions(t.w)) = Xor(a, Positions(t.w))
    BY DEF Compute, Predicates
  <2>4. \A a \in SUBSET Positions(t.w) : Xor(a, Positions(t.w)) = Positions(t.w) \ a
    BY DEF Xor
  <2>5. t.eval[val] # Poison => t.eval[val] \in SUBSET Positions(t.w)
    BY GoodValue
  <2> QED BY <1>2, <1>6, <2>1, <2>2, <2>3, <2>4, <2>5
<1> QED BY <1>2, <1>4, <1>5, <1>7 DEF Made

\* What is inverted is the inverse of the inverse.
LEMMA NotKeeps ==
    ASSUME NEW t, Good(t), IsNot(t)
    PROVE  Replaces(t.args[1], Inverted(t))
<1>1. Good(t.args[1]) /\ t.args[1].w = t.w
  BY NotIs
<1>2. ASSUME NEW val \in Valuations, Inverted(t).eval[val] # Poison
      PROVE  t.args[1].eval[val] = Inverted(t).eval[val]
  <2>1. t.eval[val] # Poison /\ Inverted(t).eval[val] = Positions(t.w) \ t.eval[val]
    BY <1>2, InvertedIs
  <2>2. t.args[1].eval[val] # Poison /\ t.eval[val] = Positions(t.w) \ t.args[1].eval[val]
    BY <2>1, NotIs
  <2>3. t.args[1].eval[val] \in SUBSET Positions(t.w)
    BY <1>1, <2>2, GoodValue
  <2> QED BY <2>1, <2>2, <2>3
<1> QED BY <1>1, <1>2, InvertedIs DEF Replaces, Made

\* De Morgan.
LEMMA InvertedOr ==
    ASSUME NEW t, Good(t), t.op = "or"
    PROVE  Replaces(Asked("and", Inverted(t.args[1]), Inverted(t.args[2])), Inverted(t))
<1> DEFINE A == t.args[1]
           B == t.args[2]
<1>1. t.op \in BinaryOps /\ "and" \in BinaryOps
  BY DEF BinaryOps
<1>2. Good(A) /\ A.w = t.w /\ Good(B) /\ B.w = t.w
  BY <1>1, BinaryArgs
<1>3. \A val \in Valuations : t.eval[val] # Poison =>
        /\ A.eval[val] # Poison /\ A.eval[val] \in SUBSET Positions(t.w)
        /\ B.eval[val] # Poison /\ B.eval[val] \in SUBSET Positions(t.w)
        /\ t.eval[val] = A.eval[val] \union B.eval[val]
  <2>1. \A a, b : Compute(t.op, t.w, a, b) = a \union b
    BY DEF Compute, Predicates
  <2> QED BY <1>1, <2>1, BinaryValue
<1> HIDE DEF A, B
<1>4. /\ Good(Inverted(A)) /\ Inverted(A).w = t.w
      /\ Good(Inverted(B)) /\ Inverted(B).w = t.w
      /\ Good(Inverted(t)) /\ Inverted(t).w = t.w
  BY <1>2, InvertedIs
<1>5. Made(Asked("and", Inverted(A), Inverted(B)), t.w)
  BY <1>1, <1>4, GoodBinary, AskedIs DEF Made, Asked
<1>6. ASSUME NEW val \in Valuations, Inverted(t).eval[val] # Poison
      PROVE  Asked("and", Inverted(A), Inverted(B)).eval[val] = Inverted(t).eval[val]
  <2> DEFINE a == Positions(t.w) \ A.eval[val]
             b == Positions(t.w) \ B.eval[val]
  <2>1. t.eval[val] # Poison /\ Inverted(t).eval[val] = Positions(t.w) \ t.eval[val]
    BY <1>6, InvertedIs
  <2>2. Inverted(t).eval[val] = a \intersect b /\ A.eval[val] # Poison /\ B.eval[val] # Poison
    BY <1>3, <2>1
  <2>3. Inverted(A).eval[val] = a /\ Inverted(B).eval[val] = b
    <3>1. Inverted(A).eval[val] = IF A.eval[val] = Poison THEN Poison
                                  ELSE Positions(A.w) \ A.eval[val]
      BY <1>2, InvertedIs
    <3>2. Inverted(B).eval[val] = IF B.eval[val] = Poison THEN Poison
                                  ELSE Positions(B.w) \ B.eval[val]
      BY <1>2, InvertedIs
    <3> QED BY <1>2, <2>2, <3>1, <3>2
  <2>4. a # Poison /\ b # Poison
    BY <1>2, GoodWidth, PoisonIsNoValue
  <2>5. Compute("and", t.w, a, b) = a \intersect b /\ Defined("and", t.w, b)
    BY DEF Compute, Predicates, Defined
  <2> HIDE DEF a, b
  <2> QED BY <1>1, <1>4, <2>2, <2>3, <2>4, <2>5, AskedIs
<1>7. Replaces(Asked("and", Inverted(A), Inverted(B)), Inverted(t))
  BY <1>4, <1>5, <1>6 DEF Replaces
<1> QED BY <1>7 DEF A, B

\* Complement[t] replaces the inverse of t: no smallest operand is one where it does not.
LEMMA ComplementKeeps ==
    ASSUME NEW t \in Operands
    PROVE  Replaces(Complement[t], Inverted(t)) /\ Plain(Complement[t])
<1> DEFINE Right(u) == Replaces(Complement[u], Inverted(u)) /\ Plain(Complement[u])
           T == {n \in Nat : \E u \in Operands : u.size = n /\ ~Right(u)}
<1>1. /\ T \in SUBSET Nat
      /\ \A n \in T : \E u \in Operands : u.size = n /\ ~Right(u)
      /\ \A u \in Operands : u.size \notin T => Right(u)
  <2> HIDE DEF Right
  <2> QED BY OperandSize
<1> HIDE DEF T
<1>2. ASSUME NEW u \in Operands, \A v \in Operands : v.size < u.size => Right(v)
      PROVE  Right(u)
  <2> DEFINE A == u.args[1]
             B == u.args[2]
             invert(v) == IF IsNot(v) THEN v.args[1] ELSE Complement[v]
             negatedOr == IF IsConst(A) \/ IsConst(B) \/ (IsNot(A) /\ IsNot(B))
                          THEN FoldedAnd(invert(A), invert(B)) ELSE None
             ones == Ones(u.w)
  <2>1. Complement[u] = Folded("xor", u, ones, XorPattern(u, ones, negatedOr))
    BY ComplementIs, Zenon DEF Step
  <2>2. /\ Good(u) /\ Plain(u) /\ u.w \in 1 .. LongBits
        /\ "xor" \in BinaryOps /\ "and" \in BinaryOps
    BY OperandsAreGood, OperandIsPlain, GoodWidth DEF BinaryOps
  <2>3. Good(ones) /\ ones.w = u.w /\ Plain(ones) /\ ones.op # "zext"
    BY <2>2, InvertedIs
  <2>4. ASSUME NEW v \in Operands, v.size < u.size
        PROVE  Replaces(invert(v), Inverted(v)) /\ Plain(invert(v))
    <3>1. CASE IsNot(v)
      <4>1. Good(v) /\ v.op \in BinaryOps
        BY <3>1, OperandsAreGood DEF IsNot, BinaryOps
      <4>2. 1 \in DOMAIN v.args
        BY <4>1, GoodIs, ArgsAreThere
      <4>3. Plain(v.args[1])
        BY <4>2, OperandIsPlain
      <4> QED BY <3>1, <4>1, <4>3, NotKeeps
    <3>2. CASE ~IsNot(v)
      BY <1>2, <2>4, <3>2
    <3> QED BY <3>1, <3>2
  <2>5. ASSUME u.op = "or", negatedOr # None
        PROVE  Replaces(negatedOr, Inverted(u)) /\ Plain(negatedOr)
    <3>1. u.op \in BinaryOps
      BY <2>5 DEF BinaryOps
    <3>2. /\ A \in Operands /\ A.size < u.size /\ A.w = u.w /\ Good(A)
          /\ B \in Operands /\ B.size < u.size /\ B.w = u.w /\ Good(B)
      <4>1. 1 \in DOMAIN u.args /\ 2 \in DOMAIN u.args
        BY <2>2, <3>1, GoodIs, ArgsAreThere
      <4> QED BY <2>2, <3>1, <4>1, BinaryArgs, OperandIsPlain, OperandIsSmaller
    <3> DEFINE a == invert(A)
               b == invert(B)
    <3>3. Replaces(a, Inverted(A)) /\ Plain(a) /\ Replaces(b, Inverted(B)) /\ Plain(b)
      BY <2>4, <3>2
    <3>4. negatedOr = FoldedAnd(a, b)
      BY <2>5
    <3> HIDE DEF a, b, invert, negatedOr
    <3>5. /\ Good(Inverted(A)) /\ Inverted(A).w = u.w
          /\ Good(Inverted(B)) /\ Inverted(B).w = u.w
      BY <3>2, InvertedIs
    <3>6. Good(a) /\ Good(b) /\ a.w = u.w /\ b.w = u.w
      BY <3>3, <3>5 DEF Replaces, Made
    <3>7. AndPattern(a, b) # None => Replaces(AndPattern(a, b), Asked("and", a, b))
                                     /\ Plain(AndPattern(a, b))
      BY <3>6, AndPatternKeeps, ConstIsPlain, NoCastIsPlain DEF AndPattern
    <3>8. Replaces(FoldedAnd(a, b), Asked("and", a, b)) /\ Plain(FoldedAnd(a, b))
      BY <2>2, <3>3, <3>6, <3>7, FoldedKeeps, FoldedIsPlain DEF FoldedAnd
    <3>9. Replaces(Asked("and", a, b), Asked("and", Inverted(A), Inverted(B)))
      BY <2>2, <3>3, <3>5, AskedReplaced
    <3>10. Replaces(Asked("and", Inverted(A), Inverted(B)), Inverted(u))
      BY <2>2, <2>5, InvertedOr
    <3> QED BY <3>4, <3>8, <3>9, <3>10, ReplacesTwice
  <2> DEFINE pattern == XorPattern(u, ones, negatedOr)
  <2>6. pattern # None => Replaces(pattern, Asked("xor", u, ones))
    <3> HIDE DEF negatedOr, ones
    <3>1. IsMinusOne(ones) /\ u.op = "or" /\ negatedOr # None
             => Replaces(negatedOr, Asked("xor", u, ones))
      BY <2>5 DEF Inverted, ones
    <3> QED BY <2>2, <2>3, <3>1, XorPatternKeeps DEF WidenedInverses
  <2>7. pattern # None => Plain(pattern)
    <3> HIDE DEF negatedOr, ones
    <3>1. \/ u.op = "or" /\ pattern = negatedOr
          \/ pattern \in {Constant(ones.w, Positions(ones.w)), Constant(ones.w, {})}
          \/ pattern = None
      BY XorPatternIs
    <3> HIDE DEF pattern
    <3> QED BY <2>5, <3>1, ConstIsPlain, NoCastIsPlain
  <2> HIDE DEF pattern, ones, negatedOr
  <2>8. Replaces(Complement[u], Asked("xor", u, ones)) /\ Plain(Complement[u])
    BY <2>1, <2>2, <2>3, <2>6, <2>7, FoldedKeeps, FoldedIsPlain DEF pattern
  <2> QED BY <2>8 DEF Inverted, ones
<1> HIDE DEF Right
<1>3. T = {}
  <2> SUFFICES ASSUME T # {} PROVE FALSE
    OBVIOUS
  <2>1. PICK k \in T : \A j \in T : k <= j
    BY <1>1, LeastNumber
  <2>2. PICK u \in Operands : u.size = k /\ ~Right(u)
    BY <1>1, <2>1
  <2>3. ASSUME NEW v \in Operands, v.size < u.size PROVE Right(v)
    <3>1. v.size \in Nat /\ v.size < k /\ k \in Nat
      BY <1>1, <2>1, <2>2, <2>3, OperandSize
    <3>2. v.size \notin T
      BY <2>1, <3>1
    <3> QED BY <1>1, <3>2
  <2> QED BY <1>2, <2>2, <2>3
<1>4. Right(t)
  <2>1. t \in Operands /\ t.size \notin T
    BY <1>3
  <2> QED BY <1>1, <2>1
<1> QED BY <1>4 DEF Right

\* The patterns that replace an operation by something else.
WrongPattern(op, l, r) ==
    \/ op = "or" /\ OrPattern(l, r) # None
    \/ op = "add" /\ AddPattern(l, r) # None /\ ~IsMinusOne(l)
    \/ op = "xor" /\ WidenedInverses(l, r)

\* doPatternMatching makes a value of the width, which replaces the operation if it is
\* none of the patterns that go wrong.
LEMMA PatternIs ==
    ASSUME NEW op \in BinaryOps, NEW l \in Operands, NEW r \in Operands, l.w = r.w,
           doPatternMatching(op, l, r) # None
    PROVE  /\ Made(doPatternMatching(op, l, r), l.w)
           /\ ~WrongPattern(op, l, r) => Replaces(doPatternMatching(op, l, r), Asked(op, l, r))
<1> DEFINE t == doPatternMatching(op, l, r)
<1>1. Good(l) /\ Good(r)
  BY OperandsAreGood
<1>2. CASE op = "add"
  <2>1. t = AddPattern(l, r)
    BY <1>2 DEF doPatternMatching
  <2> HIDE DEF t
  <2>2. t # None
    BY DEF t
  <2>3. Made(t, l.w) /\ (IsMinusOne(l) => Replaces(t, Asked(op, l, r)))
    BY <1>1, <1>2, <2>1, <2>2, AddPatternIsMade, AddPatternKeeps
  <2> QED BY <1>2, <2>1, <2>2, <2>3 DEF WrongPattern, t
<1>3. CASE op = "or"
  <2>1. t = OrPattern(l, r)
    BY <1>3 DEF doPatternMatching
  <2> QED BY <1>1, <1>3, <2>1, OrPatternIsMade DEF WrongPattern
<1>4. CASE op = "and"
  <2>1. t = AndPattern(l, r)
    BY <1>4 DEF doPatternMatching
  <2>2. Replaces(t, Asked(op, l, r))
    BY <1>1, <1>4, <2>1, AndPatternKeeps
  <2> QED BY <2>2, AskedIs DEF Replaces
<1>5. CASE op = "xor"
  <2>1. t = XorPattern(l, r, Complement[l])
    BY <1>5 DEF doPatternMatching
  <2>2. IsMinusOne(r) => r = Ones(l.w)
    BY <1>1, ConstOperand DEF IsMinusOne, Ones
  <2>3. IsMinusOne(r) => Replaces(Complement[l], Asked("xor", l, r))
    BY <2>2, ComplementKeeps DEF Inverted
  <2> HIDE DEF t
  <2>4. t # None
    BY DEF t
  <2>5. /\ Made(t, l.w)
        /\ ~WidenedInverses(l, r) => Replaces(t, Asked("xor", l, r))
    BY <1>1, <2>1, <2>3, <2>4, XorPatternKeeps
  <2> QED BY <1>5, <2>5 DEF WrongPattern, t
<1>6. CASE op \notin {"add", "or", "and", "xor"}
  BY <1>6 DEF doPatternMatching
<1> QED BY <1>2, <1>3, <1>4, <1>5, <1>6

\* So does folderBinOps.
LEMMA FolderBinOpsKeeps ==
    ASSUME NEW op \in BinaryOps, NEW l \in Operands, NEW r \in Operands, l.w = r.w
    PROVE  /\ Made(folderBinOps(op, l, r), l.w)
           /\ ~WrongPattern(op, l, r) => Replaces(folderBinOps(op, l, r), Asked(op, l, r))
<1> DEFINE pattern == doPatternMatching(op, l, r)
<1>1. Good(l) /\ Good(r) /\ Plain(l) /\ Plain(r)
  BY OperandsAreGood, OperandIsPlain
<1>2. /\ pattern # None => Made(pattern, l.w)
      /\ pattern # None /\ ~WrongPattern(op, l, r) => Replaces(pattern, Asked(op, l, r))
  BY PatternIs
<1>3. folderBinOps(op, l, r) = Folded(op, l, r, pattern)
  BY DEF folderBinOps
<1> HIDE DEF pattern
<1> QED BY <1>1, <1>2, <1>3, FoldedIsMade, FoldedKeeps

-----------------------------------------------------------------------------
(* Every call of a folder *)

\* What was built is a term all the way down, and has the value that was asked for.
BuiltRight == call # NoCall => Made(built, call.w) /\ (WrongFold \/ KeepsValue)

\* What a call leaves, and what keeping the value then says.
LEMMA CalledIs ==
    ASSUME NEW op, NEW w, NEW args, NEW result, Called(op, w, args, result)
    PROVE  /\ call'.op = op /\ call'.w = w /\ call'.args = args /\ built' = result
           /\ KeepsValue' <=> \A val \in Valuations :
                Term(op, w, args).eval[val] # Poison
                    => result.eval[val] = Term(op, w, args).eval[val]
<1>1. call'.op = op /\ call'.w = w /\ call'.args = args /\ built' = result
  BY DEF Called
<1>2. KeepsValue' <=> \A val \in Valuations :
        Eval(op, w, args, val) \in {Poison, result.eval[val]}
  BY <1>1, Zenon DEF KeepsValue
<1>3. \A val \in Valuations : Term(op, w, args).eval[val] = Eval(op, w, args, val)
  BY TermEval
<1> HIDE DEF KeepsValue
<1> QED BY <1>1, <1>2, <1>3

\* createAddFolder and the others build what they were asked for.
LEMMA BinaryFolderIsRight ==
    ASSUME BinaryFolder
    PROVE  BuiltRight'
<1>1. PICK op \in BinaryOps, l \in Operands, r \in Operands :
        l.w = r.w /\ Called(op, l.w, <<l, r>>, folderBinOps(op, l, r))
  BY Zenon DEF BinaryFolder
<1> DEFINE t == folderBinOps(op, l, r)
<1>2. /\ call'.op = op /\ call'.w = l.w /\ call'.args = <<l, r>> /\ built' = t
      /\ KeepsValue' <=> \A val \in Valuations :
           Asked(op, l, r).eval[val] # Poison => t.eval[val] = Asked(op, l, r).eval[val]
  BY <1>1, CalledIs DEF Asked
<1>3. Made(t, l.w) /\ (~WrongPattern(op, l, r) => Replaces(t, Asked(op, l, r)))
  BY <1>1, FolderBinOpsKeeps
<1>4. WrongPattern(op, l, r) => WrongFold'
  <2>1. call'.op = op /\ call'.args[1] = l /\ call'.args[2] = r
    BY <1>2
  <2>2. ASSUME op = "or", OrPattern(l, r) # None PROVE WrongFold'
    BY <2>1, <2>2 DEF WrongFold
  <2>3. ASSUME op = "add", AddPattern(l, r) # None, ~IsMinusOne(l) PROVE WrongFold'
    BY <2>1, <2>3 DEF WrongFold
  <2>4. ASSUME op = "xor", WidenedInverses(l, r) PROVE WrongFold'
    BY <2>1, <2>4 DEF WrongFold
  <2> QED BY <2>2, <2>3, <2>4 DEF WrongPattern
<1> HIDE DEF t
<1> QED BY <1>2, <1>3, <1>4 DEF BuiltRight, Replaces

\* So does createICMPFolder,
LEMMA CompareFolderIsRight ==
    ASSUME CompareFolder
    PROVE  BuiltRight'
<1>1. PICK P \in Predicates, l \in Operands, r \in Operands :
        l.w = r.w /\ Called(P, 1, <<l, r>>, createICMPFolder(P, l, r))
  BY Zenon DEF CompareFolder
<1> DEFINE t == createICMPFolder(P, l, r)
           a == Term(P, 1, <<l, r>>)
<1>2. /\ call'.op = P /\ call'.w = 1 /\ call'.args = <<l, r>> /\ built' = t
      /\ KeepsValue' <=>
           \A val \in Valuations : a.eval[val] # Poison => t.eval[val] = a.eval[val]
  BY <1>1, CalledIs
<1>3. Made(t, 1) /\ (~ComparesArm(P, l, r) => Replaces(t, a))
  BY <1>1, OperandsAreGood, ICMPFolderKeeps
<1>4. ComparesArm(P, l, r) => WrongFold'
  <2>1. call'.op = P /\ call'.args[1] = l /\ call'.args[2] = r
    BY <1>2
  <2> QED BY <2>1 DEF WrongFold, ComparesArm
<1> HIDE DEF t, a
<1> QED BY <1>2, <1>3, <1>4 DEF BuiltRight, Replaces

\* createSelectFolder
LEMMA SelectFolderIsRight ==
    ASSUME SelectFolder
    PROVE  BuiltRight'
<1>1. PICK c \in Operands, l \in Operands, r \in Operands :
        c.w = 1 /\ l.w = r.w /\ Called("select", l.w, <<c, l, r>>, createSelectFolder(c, l, r))
  BY Zenon DEF SelectFolder
<1> DEFINE t == createSelectFolder(c, l, r)
<1>2. /\ call'.w = l.w /\ built' = t
      /\ KeepsValue' <=> \A val \in Valuations :
           Chosen(c, l, r).eval[val] # Poison => t.eval[val] = Chosen(c, l, r).eval[val]
  BY <1>1, CalledIs DEF Chosen
<1>3. Replaces(t, Chosen(c, l, r)) /\ Chosen(c, l, r).w = l.w
  BY <1>1, OperandsAreGood, SelectFolderKeeps, ChosenIs
<1> HIDE DEF t
<1> QED BY <1>2, <1>3 DEF BuiltRight, Replaces

\* A cast to the same width leaves the value.
LEMMA AskedCastIs ==
    ASSUME NEW op \in {"zext", "sext"}, NEW w \in 1 .. LongBits, NEW a, Good(a)
    PROVE  /\ AskedCast(op, w, a).w = w
           /\ \A val \in Valuations :
                Term(IF w < a.w THEN "trunc" ELSE op, w, <<a>>).eval[val] =
                    AskedCast(op, w, a).eval[val]
<1> DEFINE cast == IF w < a.w THEN "trunc" ELSE op
<1>1. cast \in Casts
  BY DEF Casts
<1>2. CASE w # a.w
  BY <1>1, <1>2, CastIs DEF AskedCast
<1>3. CASE w = a.w
  <2>1. AskedCast(op, w, a) = a
    BY <1>3 DEF AskedCast
  <2>2. cast = op /\ a.w \in Nat \ {0}
    BY <1>3, GoodWidth
  <2>3. \A v : Converted(op, w, w, v) = v
    <3>1. w .. w - 1 = {}
      BY <1>3, <2>2
    <3> QED BY <3>1 DEF Converted, SExt
  <2>4. \A val \in Valuations : Term(cast, w, <<a>>).eval[val] = a.eval[val]
    BY <1>1, <1>3, <2>2, <2>3, CastIs
  <2> QED BY <1>3, <2>1, <2>4
<1> QED BY <1>2, <1>3

\* and the casts.
LEMMA CastFolderIsRight ==
    ASSUME CastFolder
    PROVE  BuiltRight'
<1>1. PICK op \in {"zext", "sext"}, w \in 1 .. LongBits, a \in Operands :
        Called(IF w < a.w THEN "trunc" ELSE op, w, <<a>>,
               IF op = "zext" THEN createZExtOrTruncFolder(w, a)
                              ELSE createSExtOrTruncFolder(w, a))
  BY Zenon DEF CastFolder
<1> DEFINE t == IF op = "zext" THEN createZExtOrTruncFolder(w, a)
                               ELSE createSExtOrTruncFolder(w, a)
           cast == Term(IF w < a.w THEN "trunc" ELSE op, w, <<a>>)
<1>2. /\ call'.w = w /\ built' = t
      /\ KeepsValue' <=> \A val \in Valuations :
           cast.eval[val] # Poison => t.eval[val] = cast.eval[val]
  BY <1>1, CalledIs
<1>3. Replaces(t, AskedCast(op, w, a))
  BY OperandsAreGood, CastFolderKeeps
<1>4. AskedCast(op, w, a).w = w
      /\ \A val \in Valuations : cast.eval[val] = AskedCast(op, w, a).eval[val]
  BY OperandsAreGood, AskedCastIs
<1> HIDE DEF t, cast
<1> QED BY <1>2, <1>3, <1>4 DEF BuiltRight, Replaces

\* The inductive invariant of the folders.
LEMMA BuiltRightIsInvariant == Spec => []BuiltRight
<1>1. Init => BuiltRight
  BY DEF Init, BuiltRight
<1>2. BuiltRight /\ [Next]_vars => BuiltRight'
  <2>1. CASE Next
    BY <2>1, BinaryFolderIsRight, CompareFolderIsRight, SelectFolderIsRight, CastFolderIsRight
       DEF Next
  <2>2. CASE UNCHANGED vars
    BY <2>2 DEF vars, BuiltRight, WrongFold, KeepsValue
  <2> QED BY <2>1, <2>2
<1> QED BY <1>1, <1>2, PTL DEF Spec

\* Whatever a folder makes of its operands is a term again, with operands of the widths
\* its operation needs, and of the width that was asked for.
THEOREM FoldersTypeCorrect == Spec => []TypeOK
<1>1. BuiltRight => TypeOK
  BY GoodIs DEF BuiltRight, TypeOK, Made
<1> QED BY <1>1, BuiltRightIsInvariant, PTL

\* Folding constants, known bits, patterns and selects (createInstruction and all it
\* calls, for operands of any depth) never changes a value, but for the four patterns
\* WrongFold names.
THEOREM FoldingKeepsValues == Spec => []FoldsKeepValues
<1>1. BuiltRight => FoldsKeepValues
  BY DEF BuiltRight, FoldsKeepValues
<1> QED BY <1>1, BuiltRightIsInvariant, PTL

\* What computePossibleValues gives for what a folder built from operands of any depth,
\* if it does not stop, has every value there is, but where it went through an argument,
\* a sext or a trunc: constants, flags, comparisons, selects, zexts and everything that
\* is enumerated by the bits that are known, whatever these are of.
THEOREM PossibleValuesComplete == Spec => []PossibleValuesAreComplete
<1>1. BuiltRight => PossibleValuesAreComplete
  <2> SUFFICES ASSUME BuiltRight, call # NoCall,
                      built.enumerable, Stopped \notin built.possible,
                      NEW val \in Valuations, built.eval[val] # Poison
               PROVE  built.eval[val] \in built.possible
    BY DEF PossibleValuesAreComplete
  <2>1. Sound(built)
    BY GoodIsSound DEF BuiltRight, Made
  <2> QED BY <2>1 DEF Sound, Has
<1> QED BY <1>1, BuiltRightIsInvariant, PTL

=============================================================================
