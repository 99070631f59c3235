----------------------------- MODULE Semantics -----------------------------
(***************************************************************************)
(* The handlers of the lifter for instructions on data (lift_add_sub,      *)
(* lift_shl, ...), as what they compute when their operands are constants: *)
(* the value for the destination and the flags.  w is the width of the     *)
(* first operand, L and R are the first two operands, f the flags before.  *)
(*                                                                         *)
(* Operators whose comment begins with "Fault:" are changed copies of the  *)
(* definition after them; no action uses them.                             *)
(***************************************************************************)
EXTENDS Processor

Result(v, f) == [result |-> v, flags |-> f]

Clears(f, names) == [g \in FlagNames |-> f[g] /\ g \notin names]

computeZeroFlag(v)    == v = {}
computeSignFlag(w, v) == w - 1 \in v

\* The low byte is copied into every byte of a quad word, one bit of each copy
\* is kept, one place further each time, and the bits are added by a division.
computeParityFlag(v) ==
    LET lsb    == Trunc(ByteBits, v)
        copies == {i + ByteBits * k : i \in lsb, k \in Positions(ByteBits)}
        kept   == copies \intersect {(ByteBits + 1) * k : k \in Positions(ByteBits)}
    IN (NatOf(kept) % (2^(ByteBits + 1) - 1)) % 2 = 0

computeOverflowFlagAdd(w, L, R, sum)  == w - 1 \in Xor(L, sum) \intersect Xor(R, sum)
computeOverflowFlagSub(w, L, R, diff) == w - 1 \in Xor(L, R) \intersect Xor(L, diff)
computeOverflowFlagSbb(w, L, R, diff) ==
    LET sign(v) == LShr(v, w - 1)
    IN NatOf(Add(w, Xor(sign(L), sign(R)), Xor(sign(L), sign(diff)))) = 2
computeAuxFlag(L, R, result) == ByteBits \div 2 \in Xor(result, Xor(L, R))

\* SF, ZF and PF from a result.
SignZeroParity(w, v, f) ==
    [f EXCEPT !.SF = computeSignFlag(w, v), !.ZF = computeZeroFlag(v),
              !.PF = computeParityFlag(v)]

LowNibble(v) == Trunc(ByteBits \div 2, v)
NibbleMask   == Positions(ByteBits \div 2)
-----------------------------------------------------------------------------
(* Addition, subtraction and logic *)

lift_add(w, L, R, f) ==
    LET sum == Add(w, L, R)
    IN Result(sum, [SignZeroParity(w, sum, f) EXCEPT
        !.AF = ULT(NibbleMask, Add(w, LowNibble(L), LowNibble(R))),
        !.CF = ULT(sum, L) \/ ULT(sum, R),
        !.OF = computeOverflowFlagAdd(w, L, R, sum)])

lift_sub(w, L, R, f) ==
    LET diff == Sub(w, L, R)
    IN Result(diff, [SignZeroParity(w, diff, f) EXCEPT
        !.AF = ULT(LowNibble(L), LowNibble(R)),
        !.CF = ULT(L, R),
        !.OF = computeOverflowFlagSub(w, L, R, diff)])

\* Fault: the borrow of the second subtraction is lost.
SbbCarryOnce(L, R, tmpResult, cf) == ULT(L, R)

SbbCarry(L, R, tmpResult, cf) == ULT(L, R) \/ ULT(tmpResult, cf)

lift_sbb(w, L, R, f) ==
    LET cf == Pick(f.CF, {0}, {})
        tmpResult == Sub(w, L, R)
        diff == Sub(w, tmpResult, cf)
    IN Result(diff, [SignZeroParity(w, diff, f) EXCEPT
        !.CF = SbbCarry(L, R, tmpResult, cf),
        !.AF = computeAuxFlag(L, R, diff),
        !.OF = computeOverflowFlagSbb(w, L, R, diff)])

lift_adc(w, L, R, f) ==
    LET cf == Pick(f.CF, {0}, {})
        tempResult == Add(w, L, R)
        sum == Add(w, tempResult, cf)
    IN Result(sum, [SignZeroParity(w, sum, f) EXCEPT
        !.CF = ULT(tempResult, L) \/ ULT(tempResult, R) \/ ULT(sum, cf),
        !.AF = computeAuxFlag(L, R, sum),
        !.OF = computeOverflowFlagAdd(w, L, R, sum)])

lift_cmp(w, L, R, f) ==
    LET diff == Sub(w, L, R)
        signL == computeSignFlag(w, L)
        signR == computeSignFlag(w, R)
        signResult == computeSignFlag(w, diff)
    IN [SignZeroParity(w, diff, f) EXCEPT
        !.OF = (signL /\ ~signR /\ ~signResult) \/ (~signL /\ signR /\ signResult),
        !.CF = ULT(L, R),
        !.AF = ULT(LowNibble(L), LowNibble(R))]

lift_inc(w, L, f) ==
    LET sum == Add(w, L, {0})
    IN Result(sum, [SignZeroParity(w, sum, f) EXCEPT
        !.OF = computeOverflowFlagAdd(w, L, {0}, sum),
        !.AF = ULT(NibbleMask, Add(w, LowNibble(L), {0}))])

lift_dec(w, L, f) ==
    LET diff == Sub(w, L, {0})
    IN Result(diff, [SignZeroParity(w, diff, f) EXCEPT
        !.OF = computeOverflowFlagSub(w, L, {0}, diff),
        !.AF = ULT(LowNibble(L), {0})])

lift_neg(w, R, f) ==
    LET result == Sub(w, {}, R)
    IN Result(result, [SignZeroParity(w, result, f) EXCEPT
        !.CF = R # {}, !.AF = LowNibble(R) # {}, !.OF = (R # {} /\ result = R)])

lift_not(w, R, f) == Result(Xor(R, Positions(w)), f)

\* lift_and, lift_or, lift_xor and lift_andn after they have their result.
Logic(w, v, f) == Result(v, Clears(SignZeroParity(w, v, f), {"OF", "CF"}))

lift_xor(w, L, R, f)  == Logic(w, Xor(L, R), f)
lift_or(w, L, R, f)   == Logic(w, L \union R, f)
lift_and(w, L, R, f)  == Logic(w, L \intersect R, f)
lift_andn(w, L, R, f) == Logic(w, Not(w, L) \intersect R, f)
lift_test(w, L, R, f) == Logic(w, L \intersect R, f).flags

lift_xadd(w, L, R, f) ==
    LET TEMP == Add(w, L, R)
        destSign == computeSignFlag(w, L)
    IN Result(TEMP, [SignZeroParity(w, TEMP, f) EXCEPT
        !.OF = (destSign = computeSignFlag(w, R) /\ destSign # computeSignFlag(w, TEMP)),
        !.AF = ULT(NibbleMask, Add(w, LowNibble(L), LowNibble(R))),
        !.CF = ULT(TEMP, L) \/ ULT(TEMP, R)])

\* The comparison of the accumulator with the destination.  PF is not set.
CmpxchgFlags(w, accum, L, f) ==
    LET sub == Sub(w, accum, L)
    IN [f EXCEPT !.OF = computeOverflowFlagSub(w, accum, L, sub),
                 !.CF = ULT(accum, L),
                 !.AF = ULT(LowNibble(accum), LowNibble(L)),
                 !.SF = computeSignFlag(w, sub),
                 !.ZF = accum = L]
-----------------------------------------------------------------------------
(* Shifts and rotates *)

\* AND with 0x1f or 0x3f.
Masked(w, count) == NatOf(count) % (IF w = QwordBits THEN 8 * ByteBits ELSE 4 * ByteBits)

lift_shl(w, L, count, f) ==
    LET n == Masked(w, count)
        result == Pick(n > w - 1, {}, Shl(w, L, n))
        cfLow  == LShr(Shl(w, L, n - 1), w - 1)
    IN Result(result, [Pick(n # 0, SignZeroParity(w, result, f), f) EXCEPT
        !.CF = Pick(n # 0, 0 \in cfLow, f.CF),
        !.OF = Pick(n = 1, Xor1(w - 1 \in result, w - 1 \in L), f.OF)])

lift_shr(w, L, count, f) ==
    LET n == Masked(w, count)
        result == Pick(n > w - 1, {}, LShr(L, n))
    IN Result(result, [Pick(n # 0, SignZeroParity(w, result, f), f) EXCEPT
        !.CF = Pick(n # 0, 0 \in LShr(L, n - 1), f.CF),
        !.OF = Pick(n = 1, computeSignFlag(w, L), f.OF)])

\* The old ZF and PF are swapped, and OF is cleared for every count.
lift_sar(w, L, count, f) ==
    LET n == Masked(w, count)
        isZeroed == n > w - 1
        clampedCount == Pick(isZeroed, w - 1, n)
        result == AShr(w, L, clampedCount)
        last_shift == AShr(w, L, n - 1)
        signBit == AShr(w, L, w - 1)
        isNotZero == clampedCount # 0
        cf == Pick(isZeroed, 0 \in signBit, Pick(isNotZero, 0 \in last_shift, f.CF))
    IN Result(result, [f EXCEPT
        !.SF = Pick(isNotZero, computeSignFlag(w, result), f.SF),
        !.ZF = Pick(isNotZero, computeZeroFlag(result), f.PF),
        !.PF = Pick(isNotZero, computeParityFlag(result), f.ZF),
        !.CF = cf, !.OF = FALSE])

lift_rol(w, L, count, f) ==
    LET n == Masked(w, count) % w
        shiftedRight == LShr(L, w - n)
        result == Pick(n = 0, L, Shl(w, L, n) \union shiftedRight)
        cf == Pick(n = 0, f.CF, 0 \in shiftedRight)
    IN Result(result, [f EXCEPT
        !.CF = cf, !.OF = Pick(n = 1, Xor1(cf, w - 1 \in result), f.OF)])

lift_ror(w, L, count, f) ==
    LET n == Masked(w, count) % w
        rotated == LShr(L, n) \union Shl(w, L, w - n)
    IN Result(Pick(n = 0, L, rotated), [f EXCEPT
        !.CF = Pick(n = 0, f.CF, w - 1 \in rotated),
        !.OF = Pick(n = 1, Xor1(w - 1 \in rotated, w - 2 \in rotated), f.OF)])

\* The carry counts as a position.
RotateCount(w, count) == Masked(w, count) % (w + 1)

\* The operand and the carry, side by side in an integer of twice the width.
lift_rcl(w, L, count, f) ==
    LET n == RotateCount(w, count)
        combinedValue == Shl(2 * w, L, 1) \union Pick(f.CF, {0}, {})
        rotated == Shl(2 * w, combinedValue, n) \union LShr(combinedValue, w + 1 - n)
        result == Trunc(w, LShr(rotated, 1))
        newCF == 0 \in rotated
    IN Result(Pick(n = 0, L, result), [f EXCEPT
        !.CF = Pick(n = 0, f.CF, newCF),
        !.OF = Pick(n = 1, Xor1(w - 1 \in result, newCF), f.OF)])

lift_rcr(w, L, count, f) ==
    LET n == RotateCount(w, count)
        combinedValue == L \union Shl(2 * w, Pick(f.CF, {0}, {}), w)
        rotated == LShr(combinedValue, n) \union Shl(2 * w, combinedValue, w + 1 - n)
        result == Trunc(w, rotated)
    IN Result(Pick(n = 0, L, result), [f EXCEPT
        !.CF = Pick(n = 0, f.CF, w \in rotated),
        !.OF = Pick(n = 1, Xor1(w - 1 \in result, w - 2 \in result), f.OF)])

\* SF, ZF and PF are set for a count of zero too.
lift_shld(w, L, source, count, f) ==
    LET n == Masked(w, count)
        complement == NatOf(BitsOf(w, w - n))
        result == Pick(n # 0, Shl(w, L, n) \union LShr(source, complement), L)
    IN Result(result, [SignZeroParity(w, result, f) EXCEPT
        !.CF = Pick(n # 0, 0 \in LShr(L, complement), f.CF),
        !.OF = Pick(n = 1, Xor1(w - 1 \in L, w - 1 \in result), f.OF)])

\* For other counts than one OF is undefined in the emitted code: undefOF.
lift_shrd(w, L, source, count, f, undefOF) ==
    LET n == Masked(w, count)
        complement == NatOf(BitsOf(w, w - n))
        result == LShr(L, n) \union Shl(w, source, complement)
    IN Result(result, [SignZeroParity(w, result, f) EXCEPT
        !.CF = n # 0 /\ 0 \in LShr(L, n - 1),
        !.OF = Pick(n = 1, Xor1(w - 1 \in L, w - 1 \in result), undefOF)])
-----------------------------------------------------------------------------
(* Bits *)

BitIndex(w, index) == NatOf(index) % w

lift_bt(w, L, index, f) ==
    [f EXCEPT !.CF = {BitIndex(w, index)} \intersect L # {}]
lift_btr(w, L, index, f) ==
    Result(L \intersect Not(w, {BitIndex(w, index)}), lift_bt(w, L, index, f))
lift_bts(w, L, index, f) ==
    Result(L \union {BitIndex(w, index)}, lift_bt(w, L, index, f))
lift_btc(w, L, index, f) ==
    Result(Xor(L, {BitIndex(w, index)}), lift_bt(w, L, index, f))

\* The loop shared by lift_bsr and lift_lzcnt: down from the top, and what is
\* found stays unless it is -1.
TopBit(w, R) ==
    LET unset == NatOf(Positions(w))
        bitPosition[i \in 0 .. w] ==
            IF i = 0 THEN unset
            ELSE IF bitPosition[i - 1] # unset THEN bitPosition[i - 1]
            ELSE IF w - i \in R THEN w - i ELSE unset
    IN BitsOf(w, bitPosition[w])

lift_bsr(w, R, f)   == Result(TopBit(w, R), [f EXCEPT !.ZF = computeZeroFlag(R)])
lift_lzcnt(w, R, f) ==
    Result(TopBit(w, R), [f EXCEPT !.ZF = computeZeroFlag(R), !.CF = NatOf(R) = w])

\* The loop shared by lift_bsf and lift_tzcnt: counting goes on while the bit
\* before was set, and what is found is replaced unless counting goes on and
\* the bit is zero.
LowBit(w, R) ==
    LET after[i \in 0 .. w] ==
            IF i = 0 THEN [result |-> w, counting |-> TRUE]
            ELSE LET isBitZero == i - 1 \notin R
                 IN [result   |-> Pick(after[i - 1].counting /\ isBitZero,
                                       after[i - 1].result, i - 1),
                     counting |-> ~isBitZero]
    IN BitsOf(w, after[w].result)

lift_bsf(w, R, f)   == Result(LowBit(w, R), [f EXCEPT !.ZF = computeZeroFlag(R)])
lift_tzcnt(w, R, f) ==
    Result(LowBit(w, R), [f EXCEPT !.ZF = computeZeroFlag(R), !.CF = NatOf(R) = w])

lift_popcnt(w, R, f) ==
    LET count == BitsOf(w, Cardinality(R))
    IN Result(count, [Clears(f, {"OF", "SF", "AF", "CF", "PF"})
                        EXCEPT !.ZF = computeZeroFlag(count)])

lift_bswap(w, L) ==
    IF w = 2 * ByteBits THEN {}
    ELSE UNION {LET byte == LShr(L \intersect (i * ByteBits .. (i + 1) * ByteBits - 1),
                                 i * ByteBits)
                IN Shl(w, byte, w - (i + 1) * ByteBits) : i \in 0 .. (w \div ByteBits) - 1}

\* alternative_pext: the bits of the source under the mask, packed.
lift_pext(w, source, mask) ==
    LET after[i \in 0 .. w] ==
            IF i = 0 THEN [result |-> {}, bit_position |-> 0]
            ELSE LET s == after[i - 1]
                 IN IF i - 1 \notin mask THEN s
                    ELSE [result |-> IF i - 1 \in source
                                     THEN s.result \union {s.bit_position} ELSE s.result,
                          bit_position |-> s.bit_position + 1]
    IN after[w].result

lift_pdep(w, src, mask) ==
    LET after[i \in 0 .. w] ==
            IF i = 0 THEN [result |-> {}, srcPos |-> 0]
            ELSE LET s == after[i - 1]
                     srcBit == LShr(src, s.srcPos) \intersect {0}
                     isMaskBitSet == i - 1 \in mask
                 IN [result |-> s.result
                        \union (IF isMaskBitSet THEN Shl(w, srcBit, i - 1) ELSE {}),
                     srcPos |-> s.srcPos + Pick(isMaskBitSet, 1, 0)]
    IN after[w].result

SignZero(w, v, f) == [f EXCEPT !.ZF = computeZeroFlag(v), !.SF = computeSignFlag(w, v)]

lift_blsi(w, source, f) ==
    LET temp == Sub(w, {}, source) \intersect source IN Result(temp, SignZero(w, temp, f))
lift_blsr(w, source, f) ==
    LET temp == Sub(w, source, {0}) \intersect source
    IN Result(temp, SignZero(w, temp, f))
lift_blsmsk(w, source, f) ==
    LET temp == Xor(Sub(w, source, {0}), source)
    IN Result(temp, [f EXCEPT !.ZF = FALSE, !.SF = computeSignFlag(w, temp),
                              !.CF = computeZeroFlag(source)])

\* The second source is not read: the first one gives the position too.
lift_bzhi(w, source, f) ==
    LET n == NatOf(Trunc(3, source))
        result == source \intersect AShr(w, Shl(w, {0}, n), n)
    IN Result(result, [SignZero(w, result, f) EXCEPT !.OF = FALSE, !.CF = n >= w - 1])

\* The start of the field is not read, and the mask is made in a byte.
lift_bextr(w, source, info, f) ==
    LET len == NatOf(Trunc(ByteBits, LShr(info, ByteBits)))
        bitmask == AShr(ByteBits, Shl(ByteBits, {0}, len), len)
        result == source \intersect bitmask
    IN Result(result, [f EXCEPT !.ZF = computeZeroFlag(result)])
-----------------------------------------------------------------------------
(* Multiplication and division *)

\* lift_imul and lift_imul2: the product at twice the width.
lift_imul(w, L, R, f) ==
    LET product == Mul(2 * w, SExt(w, 2 * w, L), SExt(w, 2 * w, R))
        cf == product # SExt(w, 2 * w, Trunc(w, product))
    IN Result(product, [f EXCEPT !.CF = cf, !.OF = cf])

\* lift_mul and lift_mul2.
lift_mul(w, L, R, f) ==
    LET product == Mul(2 * w, L, R)
        cf == LShr(product, w) # {}
    IN Result(product, [f EXCEPT !.CF = cf, !.OF = cf])

Dividend(w, high, low) == Shl(2 * w, high, w) \union low

lift_div(w, high, low, divisor) ==
    LET dividend == NatOf(Dividend(w, high, low))
    IN [quotient  |-> BitsOf(w, dividend \div NatOf(divisor)),
        remainder |-> BitsOf(w, dividend % NatOf(divisor))]

lift_idiv(w, high, low, divisor) ==
    LET n == SignedOf(2 * w, Dividend(w, high, low))
        d == SignedOf(w, divisor)
    IN [quotient  |-> BitsOf(w, Quotient(n, d)),
        remainder |-> BitsOf(w, n - d * Quotient(n, d))]
-----------------------------------------------------------------------------
(* Conditions *)

\* What lift_jcc gives to branchHelper: a condition, and whether it is reversed.
Jcc(cc, f) ==
    CASE cc \in {"z", "nz"}   -> [condition |-> f.ZF, reverse |-> cc = "nz"]
      [] cc \in {"b", "nb"}   -> [condition |-> f.CF, reverse |-> cc = "nb"]
      [] cc \in {"be", "nbe"} -> [condition |-> f.CF \/ f.ZF, reverse |-> cc = "nbe"]
      [] cc \in {"l", "nl"}   -> [condition |-> Xor1(f.SF, f.OF), reverse |-> cc = "nl"]
      [] cc \in {"le", "nle"} -> [condition |-> Xor1(f.SF, f.OF) \/ f.ZF,
                                  reverse |-> cc = "nle"]
      [] cc \in {"o", "no"}   -> [condition |-> f.OF, reverse |-> cc = "no"]
      [] cc \in {"s", "ns"}   -> [condition |-> f.SF, reverse |-> cc = "ns"]
      [] cc \in {"p", "np"}   -> [condition |-> f.PF, reverse |-> cc = "np"]

\* Fault: a reversed condition selects the same address.
branchHelperNotReversed(jcc) == jcc.condition

\* The jump is taken to the true address when the selected address is that.
branchHelper(jcc) == IF jcc.reverse THEN ~jcc.condition ELSE jcc.condition

\* Fault: setl reads the sign alone, which is wrong after an overflow.
SetccSignOnly(cc, f) == IF cc = "l" THEN f.SF ELSE branchHelper(Jcc(cc, f))

\* lift_setcc and lift_cmovcc, each with its own combination of the flags.
Setcc(cc, f) ==
    CASE cc = "nbe" -> ~f.CF /\ ~f.ZF
      [] cc = "nle" -> ~f.ZF /\ f.SF = f.OF
      [] cc = "le"  -> f.ZF \/ f.SF # f.OF
      [] cc = "nl"  -> f.SF = f.OF
      [] cc = "l"   -> f.SF # f.OF
      [] cc = "be"  -> f.CF \/ f.ZF
      [] OTHER      -> branchHelper(Jcc(cc, f))

Cmovcc(cc, f) ==
    CASE cc = "nbe" -> ~(f.CF \/ f.ZF)
      [] cc = "nle" -> ~Xor1(f.SF, f.OF) /\ ~f.ZF
      [] cc = "le"  -> Xor1(f.SF, f.OF) \/ f.ZF
      [] OTHER      -> branchHelper(Jcc(cc, f))
=============================================================================
