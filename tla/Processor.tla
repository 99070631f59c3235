----------------------------- MODULE Processor -----------------------------
(***************************************************************************)
(* What the processor does with its general registers and flags, by the    *)
(* operation sections of the processor manual that src/lifter quotes in    *)
(* its comments.  This is the specification the handlers of the lifter are *)
(* compared with, so it is written with numbers, one-bit steps and         *)
(* permutations of positions where they use masks and folders.             *)
(*                                                                         *)
(* An outcome is a sequence of writes to operands, the new flags, and the  *)
(* flags the manual leaves undefined ("result" when it is the result).     *)
(***************************************************************************)
EXTENDS Bits, Sequences

FlagNames == {"CF", "PF", "AF", "ZF", "SF", "OF", "DF", "IF"}

Parts == {"low", "high", "word", "dword", "qword"}
Width(part) == CASE part \in {"low", "high"} -> ByteBits
                 [] part = "word"  -> 2 * ByteBits
                 [] part = "dword" -> 4 * ByteBits
                 [] part = "qword" -> QwordBits
PartOfSize(w) == CHOOSE p \in Parts \ {"high"} : Width(p) = w

Write(reg, part, value) == [reg |-> reg, part |-> part, value |-> value]
Outcome(writes, flags, undefined) ==
    [writes |-> writes, flags |-> flags, undefined |-> undefined]

\* A part of a register; a double word clears the upper half.
First(part) == IF part = "high" THEN ByteBits ELSE 0
CpuRead(file, reg, part) ==
    {i \in Positions(Width(part)) : i + First(part) \in file[reg]}
CpuWrite(file, wr) ==
    [file EXCEPT ![wr.reg] =
        {i \in Positions(QwordBits) :
            LET j == i - First(wr.part)
            IN IF j \in Positions(Width(wr.part)) THEN j \in wr.value
               ELSE wr.part # "dword" /\ i \in @}]
-----------------------------------------------------------------------------
(* Flags *)

EvenParity(v) == Cardinality({i \in v : i < ByteBits}) % 2 = 0
ByResult(w, v, flags) ==
    [flags EXCEPT !.SF = SignedOf(w, v) < 0, !.ZF = NatOf(v) = 0, !.PF = EvenParity(v)]
Nibble(v)     == NatOf(v) % 2^(ByteBits \div 2)
InRange(w, n) == -(2^(w - 1)) <= n /\ n < 2^(w - 1)

\* Addition and subtraction with a carry c of 0 or 1.
CpuAdd(w, a, b, c, flags) ==
    LET sum == NatOf(a) + NatOf(b) + c
    IN [result |-> BitsOf(w, sum),
        flags  |-> [ByResult(w, BitsOf(w, sum), flags) EXCEPT
            !.CF = sum >= 2^w,
            !.OF = ~InRange(w, SignedOf(w, a) + SignedOf(w, b) + c),
            !.AF = Nibble(a) + Nibble(b) + c >= 2^(ByteBits \div 2)]]
CpuSub(w, a, b, c, flags) ==
    LET diff == NatOf(a) - NatOf(b) - c
    IN [result |-> BitsOf(w, diff),
        flags  |-> [ByResult(w, BitsOf(w, diff), flags) EXCEPT
            !.CF = diff < 0,
            !.OF = ~InRange(w, SignedOf(w, a) - SignedOf(w, b) - c),
            !.AF = Nibble(a) < Nibble(b) + c]]
CpuLogic(w, v, flags) ==
    [result |-> v, flags |-> [ByResult(w, v, flags) EXCEPT !.CF = FALSE, !.OF = FALSE]]

\* The conditions of the conditional instructions, by what they say of the
\* operands of the comparison before them.
Condition(cc, f) ==
    CASE cc = "z" -> f.ZF         [] cc = "nz" -> ~f.ZF
      [] cc = "b" -> f.CF         [] cc = "nb" -> ~f.CF
      [] cc = "be" -> f.CF \/ f.ZF   [] cc = "nbe" -> ~(f.CF \/ f.ZF)
      [] cc = "l" -> f.SF # f.OF     [] cc = "nl" -> f.SF = f.OF
      [] cc = "le" -> f.ZF \/ f.SF # f.OF   [] cc = "nle" -> ~f.ZF /\ f.SF = f.OF
      [] cc = "o" -> f.OF         [] cc = "no" -> ~f.OF
      [] cc = "s" -> f.SF         [] cc = "ns" -> ~f.SF
      [] cc = "p" -> f.PF         [] cc = "np" -> ~f.PF
Conditions == {"z", "nz", "b", "nb", "be", "nbe", "l", "nl", "le", "nle",
               "o", "no", "s", "ns", "p", "np"}
-----------------------------------------------------------------------------
(* Shifts and rotates, a bit at a time: the WHILE loops of the manual *)

CountMask(w) == IF w = QwordBits THEN 8 * ByteBits ELSE 4 * ByteBits

\* One round of the loop on a destination and the carry.
Round(op, w, s) ==
    LET top == w - 1 \in s.dest
        low == 0 \in s.dest
        up(bit) == {i + 1 : i \in s.dest \ {w - 1}} \union (IF bit THEN {0} ELSE {})
        down(bit) == {i - 1 : i \in s.dest \ {0}} \union (IF bit THEN {w - 1} ELSE {})
    IN CASE op = "shl" -> [dest |-> up(FALSE), cf |-> top]
         [] op = "shr" -> [dest |-> down(FALSE), cf |-> low]
         [] op = "sar" -> [dest |-> down(top), cf |-> low]
         [] op = "rol" -> [dest |-> up(top), cf |-> top]
         [] op = "ror" -> [dest |-> down(low), cf |-> low]
         [] op = "rcl" -> [dest |-> up(s.cf), cf |-> top]
         [] op = "rcr" -> [dest |-> down(s.cf), cf |-> low]

Rounds(op, w, dest, cf, n) ==
    LET after[k \in 0 .. n] ==
            IF k = 0 THEN [dest |-> dest, cf |-> cf] ELSE Round(op, w, after[k - 1])
    IN after[n]

Shifts  == {"shl", "shr", "sar"}
Rotates == {"rol", "ror", "rcl", "rcr"}

CpuOverflow(op, w, before, s) ==
    CASE op \in {"shl", "rol", "rcl"} -> (w - 1 \in s.dest) # s.cf
      [] op = "sar" -> FALSE
      [] op = "shr" -> w - 1 \in before
      [] op \in {"ror", "rcr"} -> (w - 1 \in s.dest) # (w - 2 \in s.dest)

CpuShift(op, w, dest, count, flags) ==
    LET n == NatOf(count) % CountMask(w)
        s == Rounds(op, w, dest, flags.CF, n)
        set == [(IF op \in Shifts THEN ByResult(w, s.dest, flags) ELSE flags) EXCEPT
                    !.CF = s.cf, !.OF = CpuOverflow(op, w, dest, s)]
    IN [result |-> s.dest,
        flags  |-> IF n = 0 THEN flags ELSE set,
        undefined |-> (IF n > 1 THEN {"OF"} ELSE {})
            \union (IF n > 0 /\ op \in Shifts THEN {"AF"} ELSE {})
            \union (IF n >= w /\ op \in {"shl", "shr"} THEN {"CF"} ELSE {})]

\* Double shifts: the bits come from a second operand.
CpuDoubleShift(op, w, dest, src, count, flags) ==
    LET n == NatOf(count) % CountMask(w)
        both == IF op = "shld" THEN src \union {i + w : i \in dest}
                               ELSE dest \union {i + w : i \in src}
        start == IF op = "shld" THEN w - n ELSE n
        result == {i - start : i \in both} \intersect Positions(w)
        cf == IF op = "shld" THEN w - n \in dest ELSE n - 1 \in dest
    IN [result |-> IF n = 0 THEN dest ELSE result,
        flags  |-> IF n = 0 THEN flags
                   ELSE [ByResult(w, result, flags) EXCEPT !.CF = cf,
                            !.OF = (w - 1 \in dest) # (w - 1 \in result)],
        undefined |-> IF n > w THEN FlagNames \union {"result"}
                      ELSE IF n = 0 THEN {}
                      ELSE {"AF"} \union (IF n > 1 THEN {"OF"} ELSE {})]
-----------------------------------------------------------------------------
(* Bit scans and bit fields *)

LowestBit(v)  == CHOOSE i \in v : \A j \in v : i <= j
HighestBit(v) == CHOOSE i \in v : \A j \in v : j <= i

\* The place of a position in a mask: how many of its bits are below.
RankIn(mask, i) == Cardinality({j \in mask : j < i})
CpuExtract(src, mask) == {RankIn(mask, i) : i \in src \intersect mask}
CpuDeposit(src, mask) == {i \in mask : RankIn(mask, i) \in src}
CpuSwapBytes(w, v) ==
    {i \in Positions(w) :
        ((w \div ByteBits) - 1 - (i \div ByteBits)) * ByteBits + (i % ByteBits) \in v}

\* Division towards zero, and the remainder with the sign of the dividend.
Magnitude(n) == IF n < 0 THEN -n ELSE n
Quotient(n, d) ==
    LET q == Magnitude(n) \div Magnitude(d)
    IN IF (n < 0) # (d < 0) THEN -q ELSE q
=============================================================================
