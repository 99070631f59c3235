------------------------------- MODULE Folders -------------------------------
(***************************************************************************)
(* The create...Folder functions, by which the handlers build every value: *)
(* constants are folded, a few patterns are replaced, and what is left     *)
(* becomes an instruction.  A value is a term; its meaning is what it      *)
(* evaluates to for each choice of what the program does not know.         *)
(*                                                                         *)
(* LLVM's own part is external: IRBuilder folds constants, and the known   *)
(* bits of a term are the ones its operators give away.  Terms that are    *)
(* equal are one value, which is what InstructionKey and the cache are for.*)
(***************************************************************************)
EXTENDS Bits, Sequences

CONSTANTS
    LongBits,       \* the width of a register: 64 in the code
    EnumLimit,      \* unknown bits that are too many to enumerate: 4 in the code
    Operands        \* the values there are when a folder is called

BinaryOps  == {"add", "sub", "mul", "and", "or", "xor", "shl", "lshr", "ashr", "udiv", "urem"}
Predicates == {"eq", "ne", "ugt", "uge", "ult", "ule", "sgt", "sge", "slt", "sle"}
Casts      == {"zext", "sext", "trunc"}
Operations == BinaryOps \union Predicates \union Casts \union {"select"}
Leaves     == {"loaded", "argument", "flag"}

VARIABLES
    call,           \* the last call of a folder
    built           \* what it returned

vars == <<call, built>>
-----------------------------------------------------------------------------
(* What a value is *)

\* What the unknown values may be.
Valuations ==
    [loaded : SUBSET Positions(LongBits), argument : SUBSET Positions(LongBits),
     flag : SUBSET {0}]

Ordered(pred, m, n) ==
    CASE pred \in {"ult", "slt"} -> m < n   [] pred \in {"uge", "sge"} -> m >= n
      [] pred \in {"ule", "sle"} -> m <= n  [] pred \in {"ugt", "sgt"} -> m > n

Holds(pred, w, a, b) ==
    CASE pred = "eq" -> a = b   [] pred = "ne" -> a # b
      [] pred \in {"ult", "uge", "ule", "ugt"} -> Ordered(pred, NatOf(a), NatOf(b))
      [] pred \in {"slt", "sge", "sle", "sgt"} -> Ordered(pred, SignedOf(w, a), SignedOf(w, b))

Compute(op, w, a, b) ==
    CASE op = "add" -> Add(w, a, b)   [] op = "sub" -> Sub(w, a, b)
      [] op = "mul" -> Mul(w, a, b)   [] op = "and" -> a \intersect b
      [] op = "or"  -> a \union b     [] op = "xor" -> Xor(a, b)
      [] op = "shl" -> Shl(w, a, NatOf(b))   [] op = "lshr" -> LShr(a, NatOf(b))
      [] op = "ashr" -> AShr(w, a, NatOf(b))
      [] op = "udiv" -> BitsOf(w, NatOf(a) \div NatOf(b))
      [] op = "urem" -> BitsOf(w, NatOf(a) % NatOf(b))
      [] op \in Predicates -> IF Holds(op, w, a, b) THEN {0} ELSE {}

Converted(op, from, to, v) ==
    CASE op = "zext" -> v   [] op = "sext" -> SExt(from, to, v)   [] op = "trunc" -> Trunc(to, v)

\* An instruction has no value when it divides by zero or shifts everything out,
\* and none has what is computed from it.
Poison == {-1}
Defined(op, w, b) ==
    CASE op \in {"udiv", "urem"} -> b # {}
      [] op \in {"shl", "lshr", "ashr"} -> NatOf(b) < w
      [] OTHER -> TRUE

Eval(op, w, args, val) ==
    LET arg(i) == args[i].eval[val]
    IN CASE op \in Casts   -> IF arg(1) = Poison THEN Poison
                              ELSE Converted(op, args[1].w, w, arg(1))
         [] op = "select"  -> IF arg(1) = Poison THEN Poison
                              ELSE IF arg(1) # {} THEN arg(2) ELSE arg(3)
         [] OTHER          -> IF Poison \in {arg(1), arg(2)} \/ ~Defined(op, args[1].w, arg(2))
                              THEN Poison ELSE Compute(op, args[1].w, arg(1), arg(2))
-----------------------------------------------------------------------------
(* Known bits *)

KnownConst(w, v) == [one |-> v, zero |-> Positions(w) \ v]
Unknown          == [one |-> {}, zero |-> {}]
UnknownBits(w, k) == Positions(w) \ (k.one \union k.zero)
Concretes(w, k)  == {k.one \union s : s \in SUBSET UnknownBits(w, k)}

KnownBinary(op, w, l, r) ==
    IF UnknownBits(w, r) = {} /\ ~Defined(op, w, r.one) THEN Unknown
    ELSE IF UnknownBits(w, l) = {} /\ UnknownBits(w, r) = {}
    THEN KnownConst(w, Compute(op, w, l.one, r.one))
    ELSE CASE op = "and" -> [one |-> l.one \intersect r.one, zero |-> l.zero \union r.zero]
           [] op = "or"  -> [one |-> l.one \union r.one, zero |-> l.zero \intersect r.zero]
           [] op = "xor" -> [one  |-> (l.one \intersect r.zero) \union (l.zero \intersect r.one),
                             zero |-> (l.one \intersect r.one) \union (l.zero \intersect r.zero)]
           [] op = "shl" /\ UnknownBits(w, r) = {} ->
                [one  |-> Shl(w, l.one, NatOf(r.one)),
                 zero |-> Positions(w) \ Shl(w, Positions(w) \ l.zero, NatOf(r.one))]
           [] op = "lshr" /\ UnknownBits(w, r) = {} ->
                [one  |-> LShr(l.one, NatOf(r.one)),
                 zero |-> Positions(w) \ LShr(Positions(w) \ l.zero, NatOf(r.one))]
           [] OTHER -> Unknown

Known(op, w, args) ==
    LET arg(i) == args[i].known
        high == args[1].w .. w - 1
    IN CASE op \in Predicates -> Unknown
         [] op = "zext"    -> [one |-> arg(1).one, zero |-> arg(1).zero \union high]
         [] op = "sext"    -> [one  |-> SExt(args[1].w, w, arg(1).one),
                               zero |-> SExt(args[1].w, w, arg(1).zero)]
         [] op = "trunc"   -> [one |-> Trunc(w, arg(1).one), zero |-> Trunc(w, arg(1).zero)]
         [] op = "select"  -> [one  |-> arg(2).one \intersect arg(3).one,
                               zero |-> arg(2).zero \intersect arg(3).zero]
         [] OTHER          -> KnownBinary(op, w, arg(1), arg(2))

IsConstant(w, k) == UnknownBits(w, k) = {}
-----------------------------------------------------------------------------
(* computePossibleValues: what solvePath takes a target's values to be *)

\* The lifter stops, on an assertion or because the bits are too many.
Stopped == {-1}

\* Fault: the bits known to be one are left out.
getPossibleValuesNoBase(w, known) ==
    IF Cardinality(UnknownBits(w, known)) \in 1 .. EnumLimit - 1
    THEN SUBSET UnknownBits(w, known) ELSE {Stopped}

getPossibleValues(w, known) ==
    LET max_unknown == Cardinality(UnknownBits(w, known))
    IN IF max_unknown \in 1 .. EnumLimit - 1 THEN Concretes(w, known) ELSE {Stopped}

calculatePossibleValues(op, w, v1, v2) ==
    IF v1 # {} /\ v2 # {} /\ (Stopped \in v1 \union v2 \/ (op = "urem" /\ {} \in v2))
    THEN {Stopped}
    ELSE {Compute(op, w, p[1], p[2]) :
            p \in {q \in v1 \X v2 : op # "udiv" \/ q[2] # {}}}

\* Bits of the operands that are not known, as a 64-bit number less 64 and more
\* the width: below zero, and so very large, for narrow operands.
TotalUnknown(w, k1, k2) ==
    LET n == Cardinality(UnknownBits(w, k1) \union UnknownBits(w, k2)) - LongBits + w
    IN IF n < 0 THEN 2 * LongBits ELSE n

\* The values come from those of the operands, and not from the known bits.
FromOperands(w, args, known) ==
    LET resUnknown == Cardinality(UnknownBits(w, known))
    IN /\ resUnknown >= TotalUnknown(args[1].w, args[1].known, args[2].known)
       /\ resUnknown # 1

\* The operands a select may be, for what is known of its condition.
Arms(condition) ==
    IF condition.known = Unknown THEN {2, 3}
    ELSE {IF condition.known.one = {} THEN 3 ELSE 2}

\* An instruction with one operand has the values of the operand, whatever it
\* does with them.
computePossibleValues(op, w, args, known) ==
    LET of(i) == args[i].possible
    IN CASE op \in Casts  -> of(1)
         [] op = "select" -> UNION {of(i) : i \in Arms(args[1])}
         [] OTHER         -> IF FromOperands(w, args, known)
                             THEN calculatePossibleValues(op, args[1].w, of(1), of(2))
                             ELSE getPossibleValues(w, known)
-----------------------------------------------------------------------------
(* Terms *)

\* No value that is enumerated is an argument's, which has none for the code, or
\* one of before it was cut or extended by its sign.
Enumerable(op, w, args, known) ==
    CASE op \in Casts  -> op = "zext" /\ args[1].enumerable
      [] op = "select" -> \A i \in Arms(args[1]) : args[i].enumerable
      [] OTHER         -> FromOperands(w, args, known)
                          => args[1].enumerable /\ args[2].enumerable

\* A term has with it what the code works out from its operands whenever it asks
\* for it (known, possible).  How many operations it has, what it evaluates to and
\* whether what is enumerated can be relied on are for the properties.
Term(op, w, args) ==
    LET size(i) == IF i \in DOMAIN args THEN args[i].size ELSE 0
        known == Known(op, w, args)
    IN [op |-> op, w |-> w, args |-> args, bits |-> {},
        known      |-> known,
        possible   |-> computePossibleValues(op, w, args, known),
        size       |-> 1 + size(1) + size(2) + size(3),
        eval       |-> [val \in Valuations |-> Eval(op, w, args, val)],
        enumerable |-> Enumerable(op, w, args, known)]

Constant(w, v) ==
    [op |-> "const", w |-> w, args |-> <<>>, bits |-> v,
     known |-> KnownConst(w, v), possible |-> {v}, size |-> 1,
     eval |-> [val \in Valuations |-> v], enumerable |-> TRUE]

Leaf(op, w, possible) ==
    [op |-> op, w |-> w, args |-> <<>>, bits |-> {},
     known |-> Unknown, possible |-> possible, size |-> 1,
     eval |-> [val \in Valuations |-> val[op]], enumerable |-> op # "argument"]

Ones(w)       == Constant(w, Positions(w))
IsConst(t)    == t.op = "const"
IsZero(t)     == IsConst(t) /\ t.bits = {}
IsMinusOne(t) == IsConst(t) /\ t.bits = Positions(t.w)

\* A value read from memory is an instruction, a register at the entry is an
\* argument of the function, and a flag is an instruction of one bit.  The
\* enumeration finds no values of an argument.
Loaded   == Leaf("loaded", LongBits, {Stopped})
Argument == Leaf("argument", LongBits, {})
Flag     == Leaf("flag", 1, {{}, {0}})
IsInstruction(t) == t.op \notin {"const", "argument"}
IsSelect(t)      == t.op = "select"

\* A term has finitely many operations, each with the operands it needs.
IsTerm(t) ==
    LET args == t.args
        a == args[1]
        b == args[2]
        c == args[3]
    IN /\ t.w \in 1 .. LongBits /\ t.size \in Nat
       /\ t.op \in {"const"} \union Leaves \union Operations
       /\ t.op \in Operations => t = Term(t.op, t.w, args)
       /\ IsConst(t) => t = Constant(t.w, t.bits) /\ t.bits \subseteq Positions(t.w)
       /\ t.op \in Leaves => t \in {Loaded, Argument, Flag}
       /\ t.op \in BinaryOps => args = <<a, b>> /\ a.w = t.w /\ b.w = t.w
       /\ t.op \in Predicates => args = <<a, b>> /\ t.w = 1 /\ a.w = b.w
       /\ t.op \in Casts => args = <<a>> /\ (IF t.op = "trunc" THEN a.w > t.w ELSE a.w < t.w)
       /\ IsSelect(t) => args = <<a, b, c>> /\ a.w = 1 /\ b.w = t.w /\ c.w = t.w

\* The operands of a value are there too.
ASSUME FolderAssumption ==
    /\ LongBits \in Nat \ {0}
    /\ EnumLimit \in Nat \ {0}
    /\ \A t \in Operands : IsTerm(t) /\ \A i \in DOMAIN t.args : t.args[i] \in Operands
-----------------------------------------------------------------------------
(* Instructions *)

\* IRBuilder: an operation on constants is one, if it has a value.
CreateBinOp(op, a, b) ==
    IF IsConst(a) /\ IsConst(b) /\ Defined(op, a.w, b.bits)
    THEN Constant(a.w, Compute(op, a.w, a.bits, b.bits))
    ELSE Term(op, a.w, <<a, b>>)
CreateCast(op, w, a) ==
    IF ~IsConst(a) THEN Term(op, w, <<a>>)
    ELSE Constant(w, Converted(op, a.w, w, a.bits))

\* A constant, and an arm that is the other one too, need no instruction.
Selected(C, known, True, False) ==
    IF known # Unknown THEN Pick(known.one # {}, True, False)
    ELSE Term("select", True.w, <<C, True, False>>)
createSelectFolder(C, True, False) ==
    IF True = False THEN True ELSE Selected(C, C.known, True, False)

Peel(ops, t) == IF t.op \in ops THEN t.args[1] ELSE t

\* A select, or one under casts, beside a select with the same condition.
SameCondition(under, select) ==
    /\ IsSelect(select)
    /\ \E ops \in {{"trunc"}, {"zext", "sext"}} :
        IsSelect(Peel(ops, under)) /\ Peel(ops, under).args[1] = select.args[1]
\* getOrCreate: an operation moves into the arms of a select when the other
\* operand is a constant or a select with the same condition.
MovesIntoArms(a, b) ==
    \/ (IsSelect(a) /\ IsConst(b)) \/ (IsSelect(b) /\ IsConst(a))
    \/ SameCondition(a, b) \/ SameCondition(b, a)
Arm(t, i) == IF IsConst(t) THEN t ELSE Peel(Casts, t).args[i]

\* What is found under a cast is of another width than the arms of a select beside it,
\* and IRBuilder has no operation on two widths: the code needs that no cast of a
\* select meets a select with its condition.
ASSUME ArmsFit ==
    \A t, u \in Operands : t.op \in Casts /\ t.w = u.w => ~SameCondition(t, u)

getOrCreate(op, a, b) ==
    IF MovesIntoArms(a, b)
    THEN createSelectFolder(Arm(IF IsConst(a) THEN b ELSE a, 1),
                            CreateBinOp(op, Arm(a, 2), Arm(b, 2)),
                            CreateBinOp(op, Arm(a, 3), Arm(b, 3)))
    ELSE CreateBinOp(op, a, b)

getOrCreateCast(op, w, a) ==
    IF IsSelect(a) THEN createSelectFolder(a.args[1], CreateCast(op, w, a.args[2]),
                                                      CreateCast(op, w, a.args[3]))
    ELSE CreateCast(op, w, a)

IsNot(t) == t.op = "xor" /\ IsMinusOne(t.args[2])
getComplexity(t) ==
    IF IsConst(t) THEN 1
    ELSE IF t.op \in Casts \/ IsNot(t) \/ (t.op = "sub" /\ IsZero(t.args[1])) THEN 2 ELSE 3
\* Fault: a subtraction may swap its operands too.
isCommutativeOrSub(op) == op \in {"add", "sub", "mul", "and", "or", "xor"}

isCommutative(op) == op \in {"add", "mul", "and", "or", "xor"}

createInstruction(op, a, b) ==
    LET swap == isCommutative(op) /\ getComplexity(a) < getComplexity(b)
    IN getOrCreate(op, IF swap THEN b ELSE a, IF swap THEN a ELSE b)

\* What a comparison may be, for all that fits what is known of its operands.
Results(P, l, r) ==
    {Holds(P, l.w, a, b) : a \in Concretes(l.w, l.known), b \in Concretes(r.w, r.known)}

\* ICMPPatternMatcher, and what the known bits decide.
createICMPFolder(P, l, r) ==
    IF IsSelect(l) /\ P = "eq" /\ r = l.args[2] THEN l.args[1]
    ELSE IF Cardinality(Results(P, l, r)) = 1
    THEN Constant(1, IF TRUE \in Results(P, l, r) THEN {0} ELSE {})
    ELSE Term(P, 1, <<l, r>>)

createCast(op, w, a) ==
    LET t == getOrCreateCast(op, w, a)
    IN IF ~IsConst(t) /\ w > 1 /\ IsConstant(w, t.known) THEN Constant(w, t.known.one) ELSE t

createZExtFolder(w, a)  == IF a.w = w THEN a ELSE createCast("zext", w, a)
createSExtFolder(w, a)  == IF a.w = w THEN a ELSE createCast("sext", w, a)
createTruncFolder(w, a) == IF a.w <= w THEN a ELSE createCast("trunc", w, a)

\* Fault: a value that is too wide is extended too.
createZExtOrTruncFolderExtends(w, a) == createZExtFolder(w, a)
createZExtOrTruncFolder(w, a) ==
    IF a.w < w THEN createZExtFolder(w, a) ELSE createTruncFolder(w, a)
createSExtOrTruncFolder(w, a) ==
    IF a.w < w THEN createSExtFolder(w, a) ELSE createTruncFolder(w, a)
-----------------------------------------------------------------------------
(* doPatternMatching: at most one replacement for an operation *)

None == [op |-> "none"]

\* -(2^k) + ((x & 2^p) >> s): the constant's lowest bit is one above p - s.  It is
\* compared with a constant of the width of a register, and so is one.
MathIsHard(diff) == IF diff = 0 THEN 0 ELSE diff + 1
AddPattern(l, r) ==
    LET masked == r.args[1]
        power == CHOOSE p \in masked.args[2].bits : TRUE
        diff == power - NatOf(r.args[2].bits)
        zero == Constant(r.w, {})
    IN IF /\ IsConst(l) /\ l.w = LongBits /\ l.bits # {}
          /\ r.op = "lshr" /\ IsConst(r.args[2])
          /\ masked.op = "and" /\ IsConst(masked.args[2]) /\ Cardinality(masked.args[2].bits) = 1
          /\ diff >= 0 /\ l.bits = MathIsHard(diff) .. l.w - 1
       THEN createSelectFolder(createICMPFolder("eq", r, zero), l, zero)
       ELSE None

\* (~A & B) | (A & C), in either order, where the second A is matched again and
\* may be any value.
IsInvertedMask(l, r) == l.op = "and" /\ IsNot(l.args[1]) /\ r.op = "and"
OrPattern(l, r) ==
    LET inverted == IF IsInvertedMask(l, r) THEN l ELSE r
        other == IF IsInvertedMask(l, r) THEN r ELSE l
        A == other.args[1]
    IN IF /\ IsInvertedMask(inverted, other)
          /\ IsInstruction(A) /\ A.known = Unknown
       THEN createSelectFolder(createICMPFolder("eq", A, Constant(A.w, {})),
                               inverted.args[2], other.args[2])
       ELSE None

\* X and ~X, both widened or both cut, or neither.
IsInverse(x, notX) ==
    \/ IsNot(Peel({"zext"}, notX)) /\ Peel({"zext"}, notX).args[1] \in {x, Peel({"zext"}, x)}
    \/ /\ x.op = "trunc" /\ notX.op = "trunc"
       /\ IsNot(notX.args[1]) /\ notX.args[1].args[1] = x.args[1]
AndPattern(l, r) ==
    IF IsInverse(l, r) \/ IsInverse(r, l) THEN Constant(r.w, {}) ELSE None

\* Negated is what an inverted `or` is replaced by.
XorPattern(l, r, Negated) ==
    CASE IsInverse(l, r) \/ IsInverse(r, l) -> Constant(r.w, Positions(r.w))
      [] l = r -> Constant(r.w, {})
      [] IsMinusOne(r) /\ l.op = "or" -> Negated
      [] OTHER -> None

\* What folderBinOps returns before it makes anything: zero and -1 as operands.
Trivial(op, l, r) ==
    LET shiftedOut == IsConst(r) /\ NatOf(r.bits) >= l.w
    IN CASE op \in {"shl", "lshr"} /\ IsZero(r) -> l
         [] op \in {"shl", "lshr"} /\ shiftedOut -> Constant(l.w, {})
         [] op \in {"shl", "lshr", "ashr"} /\ IsZero(l) -> l
         [] op \in {"xor", "add", "or"} /\ IsZero(l) -> r
         [] op \in {"xor", "add", "or", "sub"} /\ IsZero(r) -> l
         [] op = "or" /\ IsMinusOne(l) -> l
         [] op = "or" /\ IsMinusOne(r) -> r
         [] op = "and" /\ (IsZero(l) \/ IsZero(r)) -> Constant(l.w, {})
         [] op = "and" /\ IsMinusOne(l) -> r
         [] op = "and" /\ IsMinusOne(r) -> l
         [] OTHER -> None

KnownResult(w, k) == IF IsConstant(w, k) THEN Constant(w, k.one) ELSE None

Folded(op, l, r, pattern) ==
    LET trivial == Trivial(op, l, r)
        known == KnownResult(l.w, KnownBinary(op, l.w, l.known, r.known))
    IN IF trivial # None THEN trivial
       ELSE IF known # None THEN known
       ELSE IF pattern # None THEN pattern ELSE createInstruction(op, l, r)

\* ~(A | B) by De Morgan, when one of them is a constant or both are inverted;
\* what is inverted may be such an `or` again.
FoldedAnd(l, r) == Folded("and", l, r, AndPattern(l, r))
Complement[t \in Operands] ==
    LET A == t.args[1]
        B == t.args[2]
        invert(u) == IF IsNot(u) THEN u.args[1] ELSE Complement[u]
        negatedOr == IF IsConst(A) \/ IsConst(B) \/ (IsNot(A) /\ IsNot(B))
                     THEN FoldedAnd(invert(A), invert(B)) ELSE None
    IN Folded("xor", t, Ones(t.w), XorPattern(t, Ones(t.w), negatedOr))

doPatternMatching(op, l, r) ==
    CASE op = "add" -> AddPattern(l, r)
      [] op = "or"  -> OrPattern(l, r)
      [] op = "and" -> AndPattern(l, r)
      [] op = "xor" -> XorPattern(l, r, Complement[l])
      [] OTHER -> None

folderBinOps(op, l, r) == Folded(op, l, r, doPatternMatching(op, l, r))
-----------------------------------------------------------------------------
NoCall == [op |-> "none", w |-> 0, args |-> <<>>]

Init == call = NoCall /\ built = None

Called(op, w, args, result) ==
    /\ call' = [op |-> op, w |-> w, args |-> args]
    /\ built' = result

\* createAddFolder, createSubFolder and the others.
BinaryFolder ==
    /\ call = NoCall
    /\ \E op \in BinaryOps, l, r \in Operands :
        /\ l.w = r.w
        /\ Called(op, l.w, <<l, r>>, folderBinOps(op, l, r))

CompareFolder ==
    /\ call = NoCall
    /\ \E P \in Predicates, l, r \in Operands :
        /\ l.w = r.w
        /\ Called(P, 1, <<l, r>>, createICMPFolder(P, l, r))

SelectFolder ==
    /\ call = NoCall
    /\ \E c, l, r \in Operands :
        /\ c.w = 1 /\ l.w = r.w
        /\ Called("select", l.w, <<c, l, r>>, createSelectFolder(c, l, r))

\* createZExtOrTruncFolder and createSExtOrTruncFolder.
CastFolder ==
    /\ call = NoCall
    /\ \E op \in {"zext", "sext"}, w \in 1 .. LongBits, t \in Operands :
        Called(IF w < t.w THEN "trunc" ELSE op, w, <<t>>,
               IF op = "zext" THEN createZExtOrTruncFolder(w, t)
                              ELSE createSExtOrTruncFolder(w, t))

Next == BinaryFolder \/ CompareFolder \/ SelectFolder \/ CastFolder

Spec == Init /\ [][Next]_vars
-----------------------------------------------------------------------------
\* Type invariant: a folder returns a term again, of the width of the operation.
TypeOK == call # NoCall => IsTerm(built) /\ built.w = call.w

\* Where the operation that was asked for has a value, what was built has it too.
KeepsValue ==
    \A val \in Valuations :
        Eval(call.op, call.w, call.args, val) \in {Poison, built.eval[val]}

\* The bits above inverses that were both widened are zero in both.
WidenedInverses(l, r) ==
    l.op = "zext" /\ r.op = "zext" /\ (IsInverse(l, r) \/ IsInverse(r, l))

\* The three patterns that replace an operation by something else: the mask that is
\* not the one inverted, a bit that is not the lowest, and widened inverses.  A
\* comparison with the true arm of a select ignores that both arms may be equal.
WrongFold ==
    LET l == call.args[1]
        r == call.args[2]
    IN CASE call.op = "or"  -> OrPattern(l, r) # None
         [] call.op = "add" -> AddPattern(l, r) # None /\ ~IsMinusOne(l)
         [] call.op = "xor" -> WidenedInverses(l, r)
         [] call.op = "eq"  -> IsSelect(l) /\ r = l.args[2]
         [] OTHER -> FALSE

\* Folding never changes what a value is, whatever the unknown values are and
\* whichever of constants, known bits, patterns and selects it went through:
\* everything the lifter says of a program rests on it.
FoldsKeepValues == call # NoCall /\ ~WrongFold => KeepsValue

\* The same for every `or`, as the comment at the pattern has it.
OrKeepsValue == call.op = "or" => KeepsValue

\* The one or two targets solvePath takes from computePossibleValues are all there
\* are, so the program cannot go to an address the lifter does not lift.  Excepted is
\* what the enumeration went through an argument, a sext or a trunc to get at: it is
\* wrong there.  What it finds by the bits that are known is right whatever they are of.
PossibleValuesAreComplete ==
    call # NoCall /\ built.enumerable =>
        LET pv == built.possible
        IN Stopped \notin pv /\ Cardinality(pv) \in {1, 2}
            => \A val \in Valuations : built.eval[val] # Poison => built.eval[val] \in pv
=============================================================================
