------------------------------ MODULE FoldersMC ------------------------------
(***************************************************************************)
(* The values the folders are called with: constants, what the program     *)
(* does not know, and what one or two earlier calls make of them.          *)
(***************************************************************************)
EXTENDS Folders

Const(n)        == Constant(LongBits, BitsOf(LongBits, n))
Binary(op, l, r) == Term(op, l.w, <<l, r>>)
Inverted(t)     == Binary("xor", t, Ones(t.w))
Cast(op, w, t)  == Term(op, w, <<t>>)
Select(l, r)    == Term("select", l.w, <<Flag, l, r>>)

LowBit == Binary("or", Loaded, Const(2))
Ors    == {Binary("or", Argument, Inverted(Loaded)), LowBit, Binary("or", LowBit, Const(4))}
Masks  == {Binary("and", Inverted(Loaded), Const(6)),
           Binary("and", Loaded, Argument),
           Binary("and", Loaded, Const(4))}
Bits1  == {Binary("lshr", Binary("and", Loaded, Const(4)), Const(n)) : n \in {1, 2}}
Narrow == {Cast("trunc", 2, t) : t \in {Loaded, Inverted(Loaded)}}
Wide   == {Cast("zext", LongBits, t) : t \in Narrow}
Selects == {Select(Const(1), Const(6)), Select(Argument, Const(6)), Select(Const(1), Loaded)}

\* A select within an arm of another is under a cast when the other is cut.
IsEqual == Term("eq", 1, <<Loaded, Argument>>)
Inner   == Term("select", LongBits, <<IsEqual, Loaded, Const(6)>>)
Outer   == Select(Inner, Const(1))
Cut     == Term("select", 2, <<Flag, Cast("trunc", 2, Inner), Constant(2, {0})>>)
Nested  == {IsEqual, Inner, Outer, Cut, Cut.args[2], Cut.args[3]}

MCOperands ==
    {Const(n) : n \in {0, 1, 2, 4, 6, 7}} \union {Loaded, Argument, Flag, Inverted(Loaded)}
        \union Ors \union Masks \union Bits1 \union Narrow \union Wide
        \union Selects \union Nested

\* Each is what the folder makes of its operands.
ASSUME OperandsAreBuilt ==
    \A t \in MCOperands :
        /\ t.op \in BinaryOps => t = folderBinOps(t.op, t.args[1], t.args[2])
        /\ t.op = "trunc" /\ t # Cut.args[2] => t = createTruncFolder(t.w, t.args[1])
        /\ t.op = "zext" => t = createZExtFolder(t.w, t.args[1])
        /\ t.op \in Predicates => t = createICMPFolder(t.op, t.args[1], t.args[2])
        /\ IsSelect(t) /\ t # Cut => t = createSelectFolder(t.args[1], t.args[2], t.args[3])
        /\ t = Cut => t = createTruncFolder(2, Outer)
=============================================================================
