-------------------------- MODULE DataInstructions --------------------------
(***************************************************************************)
(* The lifter's registers and flags beside those of the processor, while   *)
(* both carry out the same instructions on data.  A handler of the lifter  *)
(* reads its operands with GetIndexValue, computes (module Semantics), and *)
(* writes with SetIndexValue and setFlag; the processor does what module   *)
(* Processor says.  Operands are registers, parts of them, and immediates. *)
(*                                                                         *)
(* All values are known, so this is the lifter as an interpreter: what it  *)
(* folds.  The flags and results the manual leaves undefined are resolved  *)
(* to what the lifter has.                                                 *)
(***************************************************************************)
EXTENDS Semantics, SequencesExt

CONSTANTS
    Samples,        \* the numbers a register may hold at first
    Immediates,     \* the 8-bit immediates
    Counts,         \* the counts of shifts
    FlagSamples,    \* the sets of flags that may be set at first
    MaxSteps,       \* bound: instructions carried out
    Groups          \* the groups of instructions that are carried out

GroupNames == {"alu", "shift", "bits", "wide", "move", "flag"}

ASSUME DataAssumption ==
    /\ Samples \subseteq Nat
    /\ Immediates \subseteq Nat
    /\ Counts \subseteq Nat
    /\ FlagSamples \subseteq SUBSET FlagNames
    /\ MaxSteps \in Nat
    /\ Groups \subseteq GroupNames

VARIABLES
    regs,           \* the lifter's registers
    flags,          \* the lifter's flags
    cpuRegs,        \* the processor's registers
    cpuFlags,       \* the processor's flags
    jump,           \* the last conditional jump: did the lifter and the processor take it
    last,           \* the last instruction: its name, its width and its operands
    steps           \* instructions carried out

vars == <<regs, flags, cpuRegs, cpuFlags, jump, last, steps>>

Registers == {"rax", "rcx", "rdx"}
Files     == [Registers -> SUBSET Positions(QwordBits)]
FlagSets  == [FlagNames -> BOOLEAN]

NoInstruction == [name |-> "none", width |-> 0, left |-> {}, right |-> {}, count |-> 0]
-----------------------------------------------------------------------------
(* Registers and operands *)

GetValueFromHighByteRegister(file, reg) ==
    Trunc(ByteBits, LShr(file[reg], ByteBits) \intersect Positions(ByteBits))

GetRegisterValue(file, reg, part) ==
    IF part = "high" THEN GetValueFromHighByteRegister(file, reg)
    ELSE Trunc(Width(part), file[reg])

\* Fault: the high byte keeps its old bits.
SetValueToSubRegister_8bOr(old, part, value) ==
    old \union Shl(QwordBits, value, First(part))

SetValueToSubRegister_8b(old, part, value) ==
    LET mask == IF part = "high" THEN ByteBits .. 2 * ByteBits - 1 ELSE Positions(ByteBits)
    IN (old \intersect Not(QwordBits, mask))
        \union (IF part = "high" THEN Shl(QwordBits, value, ByteBits) ELSE value)

SetValueToSubRegister_16b(old, value) ==
    (old \intersect Not(QwordBits, Positions(2 * ByteBits))) \union value

\* A value of 32 bits replaces the register, and reads extend it with zeroes.
SetRegisterValue(file, wr) ==
    [file EXCEPT ![wr.reg] =
        CASE wr.part \in {"low", "high"} -> SetValueToSubRegister_8b(@, wr.part, wr.value)
          [] wr.part = "word" -> SetValueToSubRegister_16b(@, wr.value)
          [] OTHER -> wr.value]

\* An operand is a part of a register or an immediate of one byte.
RegisterOperand(reg, part) == [kind |-> "register", reg |-> reg, part |-> part]
ImmediateOperand(value)    == [kind |-> "immediate", value |-> value]

\* GetIndexValue, with the sign extension to the width of the first operand
\* that most handlers apply to the second.
GetIndexValue(w, o) ==
    IF o.kind = "immediate" THEN SExt(ByteBits, w, o.value)
    ELSE GetRegisterValue(regs, o.reg, o.part)
CpuOperand(w, o) ==
    IF o.kind = "immediate" THEN BitsOf(w, SignedOf(ByteBits, o.value))
    ELSE CpuRead(cpuRegs, o.reg, o.part)

Apply(Set(_, _), file, writes) == FoldLeft(Set, file, writes)
-----------------------------------------------------------------------------
(* One instruction: the lifter's outcome and the processor's *)

To(o, value) == Write(o.reg, o.part, value)

\* Carries out an instruction; out is the lifter's outcome, cpu the processor's.
Execute(out, cpu, instruction) ==
    /\ steps < MaxSteps
    /\ steps' = steps + 1
    /\ last' = instruction
    /\ regs' = Apply(SetRegisterValue, regs, out.writes)
    /\ flags' = out.flags
    /\ cpuRegs' = IF "result" \in cpu.undefined THEN regs'
                  ELSE Apply(CpuWrite, cpuRegs, cpu.writes)
    /\ cpuFlags' = [f \in FlagNames |-> IF f \in cpu.undefined THEN flags'[f] ELSE cpu.flags[f]]

Instruction(name, w, L, R, count) ==
    [name |-> name, width |-> w, left |-> L, right |-> R, count |-> count]

\* An outcome that writes one result to one operand.
Lifted(o, r)          == Outcome(<<To(o, r.result)>>, r.flags, {})
OnCpu(o, r, undefined) == Outcome(<<To(o, r.result)>>, r.flags, undefined)

\* Destinations: parts of rax; sources: rax itself, rcx, and immediates.
Sizes(minimum) == {p \in Parts \ {"high"} : Width(p) >= minimum}
Dests(minimum) ==
    {RegisterOperand("rax", p) : p \in Sizes(minimum)}
        \union (IF minimum = ByteBits THEN {RegisterOperand("rax", "high")} ELSE {})
SourceRegisters(d) ==
    {RegisterOperand(r, d.part) : r \in {"rax", "rcx"}}
        \union (IF d.part = "low" THEN {RegisterOperand("rax", "high")}
                ELSE IF d.part = "high" THEN {RegisterOperand("rax", "low")} ELSE {})
ImmediateOperands == {ImmediateOperand(BitsOf(ByteBits, n)) : n \in Immediates}
Sources(d) == SourceRegisters(d) \union ImmediateOperands

InGroup(group) == group \in Groups /\ UNCHANGED jump
-----------------------------------------------------------------------------
(* Arithmetic and logic *)

LiftAlu(name, w, L, R) ==
    CASE name = "add" -> lift_add(w, L, R, flags)  [] name = "sub" -> lift_sub(w, L, R, flags)
      [] name = "adc" -> lift_adc(w, L, R, flags)  [] name = "sbb" -> lift_sbb(w, L, R, flags)
      [] name = "and" -> lift_and(w, L, R, flags)  [] name = "or"  -> lift_or(w, L, R, flags)
      [] name = "xor" -> lift_xor(w, L, R, flags)  [] name = "andn" -> lift_andn(w, L, R, flags)
CpuAlu(name, w, L, R) ==
    LET carry == IF cpuFlags.CF THEN 1 ELSE 0
    IN CASE name = "add" -> CpuAdd(w, L, R, 0, cpuFlags)
         [] name = "sub" -> CpuSub(w, L, R, 0, cpuFlags)
         [] name = "adc" -> CpuAdd(w, L, R, carry, cpuFlags)
         [] name = "sbb" -> CpuSub(w, L, R, carry, cpuFlags)
         [] name = "and" -> CpuLogic(w, {i \in L : i \in R}, cpuFlags)
         [] name = "or"  -> CpuLogic(w, {i \in Positions(w) : i \in L \/ i \in R}, cpuFlags)
         [] name = "xor" ->
                CpuLogic(w, {i \in Positions(w) : (i \in L) # (i \in R)}, cpuFlags)
         [] name = "andn" -> CpuLogic(w, {i \in R : i \notin L}, cpuFlags)
LogicNames == {"and", "or", "xor", "andn", "test"}
AfUndefined(name) == IF name \in LogicNames THEN {"AF"} ELSE {}

AddSubLogic ==
    /\ InGroup("alu")
    /\ \E name \in {"add", "sub", "adc", "sbb", "and", "or", "xor"},
          d \in Dests(ByteBits) : \E s \in Sources(d) :
        LET w == Width(d.part)
            L == GetIndexValue(w, d)
            R == GetIndexValue(w, s)
        IN Execute(Lifted(d, LiftAlu(name, w, L, R)),
                   OnCpu(d, CpuAlu(name, w, CpuOperand(w, d), CpuOperand(w, s)),
                         AfUndefined(name)),
                   Instruction(name, w, L, R, 0))

\* Three operands: the destination is not a source.
AndNot ==
    /\ InGroup("alu")
    /\ \E d \in Dests(4 * ByteBits) :
        LET w == Width(d.part)
            L == GetRegisterValue(regs, "rcx", d.part)
            R == GetRegisterValue(regs, "rdx", d.part)
        IN Execute(Lifted(d, LiftAlu("andn", w, L, R)),
                   OnCpu(d, CpuAlu("andn", w, CpuRead(cpuRegs, "rcx", d.part),
                                   CpuRead(cpuRegs, "rdx", d.part)), {"AF"}),
                   Instruction("andn", w, L, R, 0))

\* cmp and test only set flags.
Compare ==
    /\ InGroup("alu")
    /\ \E name \in {"cmp", "test"}, d \in Dests(ByteBits) : \E s \in Sources(d) :
        LET w == Width(d.part)
            L == GetIndexValue(w, d)
            R == GetIndexValue(w, s)
            cpu == CpuAlu(IF name = "cmp" THEN "sub" ELSE "and", w, CpuOperand(w, d),
                          CpuOperand(w, s))
        IN Execute(Outcome(<<>>, IF name = "cmp" THEN lift_cmp(w, L, R, flags)
                                 ELSE lift_test(w, L, R, flags), {}),
                   Outcome(<<>>, cpu.flags, AfUndefined(name)),
                   Instruction(name, w, L, R, 0))

LiftOne(name, w, L) ==
    CASE name = "inc" -> lift_inc(w, L, flags) [] name = "dec" -> lift_dec(w, L, flags)
      [] name = "neg" -> lift_neg(w, L, flags) [] name = "not" -> lift_not(w, L, flags)
KeepCarry(r) == [r EXCEPT !.flags = [@ EXCEPT !.CF = cpuFlags.CF]]
CpuOne(name, w, L) ==
    CASE name = "inc" -> KeepCarry(CpuAdd(w, L, {0}, 0, cpuFlags))
      [] name = "dec" -> KeepCarry(CpuSub(w, L, {0}, 0, cpuFlags))
      [] name = "neg" -> CpuSub(w, {}, L, 0, cpuFlags)
      [] name = "not" -> Result(BitsOf(w, -1 - NatOf(L)), cpuFlags)

OneOperand ==
    /\ InGroup("alu")
    /\ \E name \in {"inc", "dec", "neg", "not"}, d \in Dests(ByteBits) :
        LET w == Width(d.part)
            L == GetIndexValue(w, d)
        IN Execute(Lifted(d, LiftOne(name, w, L)),
                   OnCpu(d, CpuOne(name, w, CpuOperand(w, d)), {}),
                   Instruction(name, w, L, {}, 0))

\* The sum goes to the destination, then the old destination to the source.
ExchangeAdd ==
    /\ InGroup("alu")
    /\ \E d \in Dests(ByteBits) : \E s \in SourceRegisters(d) :
        LET w == Width(d.part)
            L == GetIndexValue(w, d)
            R == GetIndexValue(w, s)
            r == lift_xadd(w, L, R, flags)
            c == CpuAdd(w, CpuOperand(w, d), CpuOperand(w, s), 0, cpuFlags)
        IN Execute(Outcome(<<To(d, r.result), To(s, L)>>, r.flags, {}),
                   Outcome(<<To(s, CpuOperand(w, d)), To(d, c.result)>>, c.flags, {}),
                   Instruction(IF s = d THEN "xadd_same" ELSE "xadd", w, L, R, 0))

\* The accumulator is a part of rax, written before the destination.
CompareExchange ==
    /\ InGroup("alu")
    /\ \E d \in {RegisterOperand("rcx", p) : p \in Parts} :
        LET w == Width(d.part)
            acc == RegisterOperand("rax", PartOfSize(w))
            L == GetIndexValue(w, d)
            R == GetRegisterValue(regs, "rdx", PartOfSize(w))
            accum == GetIndexValue(w, acc)
            zf == accum = L
            cpuL == CpuOperand(w, d)
            equal == CpuOperand(w, acc) = cpuL
        IN Execute(Outcome(<<To(acc, Pick(zf, accum, L)), To(d, Pick(zf, R, L))>>,
                           CmpxchgFlags(w, accum, L, flags), {}),
                   Outcome(IF equal THEN <<To(d, CpuRead(cpuRegs, "rdx", PartOfSize(w)))>>
                                    ELSE <<To(acc, cpuL)>>,
                           CpuSub(w, CpuOperand(w, acc), cpuL, 0, cpuFlags).flags, {}),
                   Instruction("cmpxchg", w, L, R, 0))
-----------------------------------------------------------------------------
(* Shifts and rotates.  A count is one byte, and a byte of a small instance *)
(* does not reach the masks, so the counts are given as numbers.            *)

CountOf(n) == BitsOf(QwordBits, n)

LiftShift(op, w, L, count) ==
    CASE op = "shl" -> lift_shl(w, L, count, flags)  [] op = "shr" -> lift_shr(w, L, count, flags)
      [] op = "sar" -> lift_sar(w, L, count, flags)  [] op = "rol" -> lift_rol(w, L, count, flags)
      [] op = "ror" -> lift_ror(w, L, count, flags)  [] op = "rcl" -> lift_rcl(w, L, count, flags)
      [] op = "rcr" -> lift_rcr(w, L, count, flags)

ShiftRotate ==
    /\ InGroup("shift")
    /\ \E op \in Shifts \union Rotates, d \in Dests(ByteBits), n \in Counts :
        LET w == Width(d.part)
            L == GetIndexValue(w, d)
            c == CpuShift(op, w, CpuOperand(w, d), CountOf(n), cpuFlags)
        IN Execute(Lifted(d, LiftShift(op, w, L, CountOf(n))), OnCpu(d, c, c.undefined),
                   Instruction(op, w, L, {}, Masked(w, CountOf(n))))

\* OF after shrd is undefined in the emitted code unless the count is one.
DoubleShift ==
    /\ InGroup("shift")
    /\ \E op \in {"shld", "shrd"}, d \in Dests(2 * ByteBits), n \in Counts,
          undefOF \in BOOLEAN :
        LET w == Width(d.part)
            L == GetIndexValue(w, d)
            source == GetRegisterValue(regs, "rcx", d.part)
            c == CpuDoubleShift(op, w, CpuOperand(w, d), CpuRead(cpuRegs, "rcx", d.part),
                                CountOf(n), cpuFlags)
        IN Execute(Lifted(d, IF op = "shld" THEN lift_shld(w, L, source, CountOf(n), flags)
                             ELSE lift_shrd(w, L, source, CountOf(n), flags, undefOF)),
                   OnCpu(d, c, c.undefined),
                   Instruction(op, w, L, source, Masked(w, CountOf(n))))
-----------------------------------------------------------------------------
(* Bits *)

LiftBitTest(name, w, L, index) ==
    CASE name = "bt"  -> Result(L, lift_bt(w, L, index, flags))
      [] name = "btr" -> lift_btr(w, L, index, flags)
      [] name = "bts" -> lift_bts(w, L, index, flags)
      [] name = "btc" -> lift_btc(w, L, index, flags)
CpuBitTest(name, w, L, index) ==
    LET i == NatOf(index) % w
    IN [result |-> CASE name = "bt"  -> L
                     [] name = "btr" -> L \ {i}
                     [] name = "bts" -> L \union {i}
                     [] name = "btc" -> IF i \in L THEN L \ {i} ELSE L \union {i},
        flags  |-> [cpuFlags EXCEPT !.CF = i \in L]]

BitTest ==
    /\ InGroup("bits")
    /\ \E name \in {"bt", "btr", "bts", "btc"}, d \in Dests(2 * ByteBits) :
       \E s \in {RegisterOperand("rcx", d.part)} \union ImmediateOperands :
        LET w == Width(d.part)
            L == GetIndexValue(w, d)
            lifted == LiftBitTest(name, w, L, GetIndexValue(w, s))
            c == CpuBitTest(name, w, CpuOperand(w, d), CpuOperand(w, s))
            writes(r) == IF name = "bt" THEN <<>> ELSE <<To(d, r.result)>>
        IN Execute(Outcome(writes(lifted), lifted.flags, {}),
                   Outcome(writes(c), c.flags, {"OF", "SF", "AF", "PF"}),
                   Instruction(name, w, L, GetIndexValue(w, s), 0))

LiftScan(name, w, R) ==
    CASE name = "bsr" -> lift_bsr(w, R, flags)  [] name = "lzcnt" -> lift_lzcnt(w, R, flags)
      [] name = "bsf" -> lift_bsf(w, R, flags)  [] name = "tzcnt" -> lift_tzcnt(w, R, flags)
      [] name = "popcnt" -> lift_popcnt(w, R, flags)
CpuScan(name, w, R) ==
    LET found == CASE name = "bsr"   -> IF R = {} THEN 0 ELSE HighestBit(R)
                   [] name = "lzcnt" -> IF R = {} THEN w ELSE w - 1 - HighestBit(R)
                   [] name = "bsf"   -> IF R = {} THEN 0 ELSE LowestBit(R)
                   [] name = "tzcnt" -> IF R = {} THEN w ELSE LowestBit(R)
                   [] name = "popcnt" -> Cardinality(R)
        set == IF name \in {"bsr", "bsf"} THEN [cpuFlags EXCEPT !.ZF = R = {}]
               ELSE IF name = "popcnt"
                    THEN [f \in FlagNames |-> IF f = "ZF" THEN R = {}
                                              ELSE f \in {"DF", "IF"} /\ cpuFlags[f]]
               ELSE [cpuFlags EXCEPT !.CF = R = {}, !.ZF = found = 0]
    IN [result |-> BitsOf(w, found), flags |-> set,
        undefined |-> CASE name \in {"bsr", "bsf"} ->
                               {"CF", "OF", "SF", "AF", "PF"}
                                    \union (IF R = {} THEN {"result"} ELSE {})
                        [] name \in {"lzcnt", "tzcnt"} -> {"OF", "SF", "AF", "PF"}
                        [] name = "popcnt" -> {}]

BitScan ==
    /\ InGroup("bits")
    /\ \E name \in {"bsr", "bsf", "lzcnt", "tzcnt", "popcnt"}, d \in Dests(2 * ByteBits) :
        LET w == Width(d.part)
            R == GetRegisterValue(regs, "rcx", d.part)
            c == CpuScan(name, w, CpuRead(cpuRegs, "rcx", d.part))
        IN Execute(Lifted(d, LiftScan(name, w, R)), OnCpu(d, c, c.undefined),
                   Instruction(name, w, {}, R, 0))

\* The 16-bit form has no result in the manual.
SwapBytes ==
    /\ InGroup("bits")
    /\ \E d \in Dests(2 * ByteBits) :
        LET w == Width(d.part)
            L == GetIndexValue(w, d)
        IN Execute(Outcome(<<To(d, lift_bswap(w, L))>>, flags, {}),
                   Outcome(<<To(d, CpuSwapBytes(w, CpuOperand(w, d)))>>, cpuFlags,
                           IF w = 2 * ByteBits THEN {"result"} ELSE {}),
                   Instruction("bswap", w, L, {}, 0))

LiftField(name, w, L, R) ==
    CASE name = "pext"   -> Result(lift_pext(w, L, R), flags)
      [] name = "pdep"   -> Result(lift_pdep(w, L, R), flags)
      [] name = "blsi"   -> lift_blsi(w, L, flags)
      [] name = "blsr"   -> lift_blsr(w, L, flags)
      [] name = "blsmsk" -> lift_blsmsk(w, L, flags)
      [] name = "bzhi"   -> lift_bzhi(w, L, flags)
      [] name = "bextr"  -> lift_bextr(w, L, R, flags)
CpuFieldResult(name, w, L, R) ==
    LET lowest == IF L = {} THEN {} ELSE {LowestBit(L)}
        byte(k) == NatOf({i - k * ByteBits : i \in R \intersect (k * ByteBits .. (k + 1) * ByteBits - 1)})
    IN CASE name = "pext"   -> CpuExtract(L, R)
         [] name = "pdep"   -> CpuDeposit(L, R)
         [] name = "blsi"   -> lowest
         [] name = "blsr"   -> L \ lowest
         [] name = "blsmsk" -> {i \in Positions(w) : \A j \in lowest : i <= j}
         [] name = "bzhi"   -> {i \in L : i < byte(0)}
         [] name = "bextr"  -> {i - byte(0) : i \in {j \in L : byte(0) <= j /\ j < byte(0) + byte(1)}}
CpuField(name, w, L, R) ==
    LET v == CpuFieldResult(name, w, L, R)
        cf == CASE name = "blsi" -> L # {}
                [] name \in {"blsr", "blsmsk"} -> L = {}
                [] name = "bzhi" -> NatOf({i \in R : i < ByteBits}) >= w
                [] OTHER -> FALSE
    IN [result |-> v,
        flags  |-> IF name \in {"pext", "pdep"} THEN cpuFlags
                   ELSE [ByResult(w, v, cpuFlags) EXCEPT !.CF = cf, !.OF = FALSE],
        undefined |-> CASE name \in {"pext", "pdep"} -> {}
                        [] name = "bextr" -> {"AF", "SF", "PF"}
                        [] OTHER -> {"AF", "PF"}]

BitField ==
    /\ InGroup("bits")
    /\ \E name \in {"pext", "pdep", "blsi", "blsr", "blsmsk", "bzhi", "bextr"},
          d \in Dests(4 * ByteBits) :
        LET w == Width(d.part)
            L == GetRegisterValue(regs, "rcx", d.part)
            R == GetRegisterValue(regs, "rdx", d.part)
            c == CpuField(name, w, CpuRead(cpuRegs, "rcx", d.part),
                          CpuRead(cpuRegs, "rdx", d.part))
        IN Execute(Lifted(d, LiftField(name, w, L, R)), OnCpu(d, c, c.undefined),
                   Instruction(name, w, L, R, 0))
-----------------------------------------------------------------------------
(* Multiplication and division.  TLC's numbers have 32 bits, so in a small   *)
(* instance these are carried out up to the double word.                     *)

WideParts == {"low", "word", "dword"}
Rax(w)    == RegisterOperand("rax", PartOfSize(w))
HighHalf(w) ==
    IF w = ByteBits THEN RegisterOperand("rax", "high") ELSE RegisterOperand("rdx", PartOfSize(w))
Upper(w, v) == LShr(v, w)
Halves(w, low, high) == <<To(Rax(w), low), To(HighHalf(w), high)>>

CpuProduct(w, L, R, signed) ==
    LET n == IF signed THEN SignedOf(w, L) * SignedOf(w, R) ELSE NatOf(L) * NatOf(R)
        wrong == IF signed THEN ~InRange(w, n) ELSE n >= 2^w
    IN Result(BitsOf(2 * w, n), [cpuFlags EXCEPT !.CF = wrong, !.OF = wrong])
UndefinedByMul == {"SF", "ZF", "AF", "PF"}

\* One operand: the product goes to rdx:rax, or to ax.
Multiply ==
    /\ InGroup("wide")
    /\ \E name \in {"mul", "imul"}, p \in WideParts :
        LET w == Width(p)
            L == GetRegisterValue(regs, "rcx", p)
            R == GetIndexValue(w, Rax(w))
            r == IF name = "mul" THEN lift_mul(w, L, R, flags) ELSE lift_imul(w, L, R, flags)
            c == CpuProduct(w, CpuRead(cpuRegs, "rcx", p), CpuOperand(w, Rax(w)),
                            name = "imul")
            ax == RegisterOperand("rax", "word")
        IN Execute(Outcome(IF w = ByteBits THEN <<To(ax, r.result)>>
                           ELSE Halves(w, Trunc(w, r.result), Upper(w, r.result)), r.flags, {}),
                   Outcome(Halves(w, Trunc(w, c.result), Upper(w, c.result)), c.flags,
                           UndefinedByMul),
                   Instruction(name, w, L, R, 0))

\* Two and three operands: the low half goes to the first one.
MultiplyInto ==
    /\ InGroup("wide")
    /\ \E d \in {RegisterOperand("rax", p) : p \in WideParts \ {"low"}} :
       \E s \in {d} \union ImmediateOperands :
        LET w == Width(d.part)
            L == GetRegisterValue(regs, "rcx", d.part)
            R == GetIndexValue(w, s)
            r == lift_imul(w, L, R, flags)
            c == CpuProduct(w, CpuRead(cpuRegs, "rcx", d.part), CpuOperand(w, s), TRUE)
        IN Execute(Outcome(<<To(d, Trunc(w, r.result))>>, r.flags, {}),
                   Outcome(<<To(d, Trunc(w, c.result))>>, c.flags, UndefinedByMul),
                   Instruction(IF s = d THEN "imul2" ELSE "imul3", w, L, R, 0))

\* The processor raises an exception when the divisor is zero or the quotient
\* does not fit, and the program does not go on from there.
Divide ==
    /\ InGroup("wide")
    /\ \E name \in {"div", "idiv"}, p \in WideParts :
        LET w == Width(p)
            divisor == GetRegisterValue(regs, "rcx", p)
            low  == GetIndexValue(w, Rax(w))
            high == GetIndexValue(w, HighHalf(w))
            r == IF name = "div" THEN lift_div(w, high, low, divisor)
                                 ELSE lift_idiv(w, high, low, divisor)
            cpuDivisor == CpuRead(cpuRegs, "rcx", p)
            both == {i + w : i \in CpuOperand(w, HighHalf(w))} \union CpuOperand(w, Rax(w))
            n == IF name = "div" THEN NatOf(both) ELSE SignedOf(2 * w, both)
            m == IF name = "div" THEN NatOf(cpuDivisor) ELSE SignedOf(w, cpuDivisor)
            q == Quotient(n, m)
        IN /\ m # 0
           /\ IF name = "div" THEN q < 2^w ELSE InRange(w, q)
           /\ Execute(Outcome(Halves(w, r.quotient, r.remainder), flags, {}),
                      Outcome(Halves(w, BitsOf(w, q), BitsOf(w, n - q * m)), cpuFlags,
                              UndefinedByMul \union {"CF", "OF"}),
                      Instruction(name, w, low, divisor, 0))
-----------------------------------------------------------------------------
(* Moves *)

\* A handler that writes registers and leaves the flags.
Moves(lifted, cpu, instruction) ==
    Execute(Outcome(lifted, flags, {}), Outcome(cpu, cpuFlags, {}), instruction)

Move ==
    /\ InGroup("move")
    /\ \E d \in Dests(ByteBits) : \E s \in Sources(d) \ {d} :
        LET w == Width(d.part)
        IN Moves(<<To(d, GetIndexValue(w, s))>>, <<To(d, CpuOperand(w, s))>>,
                 Instruction("mov", w, {}, GetIndexValue(w, s), 0))

\* movsx, movsxd and movzx.
MoveExtended ==
    /\ InGroup("move")
    /\ \E signed \in BOOLEAN, d \in Dests(2 * ByteBits),
          s \in {RegisterOperand("rcx", p) : p \in Parts} :
        LET to == Width(d.part)
            from == Width(s.part)
            v == GetIndexValue(from, s)
            c == CpuOperand(from, s)
        IN /\ from < to
           /\ from < 4 * ByteBits \/ signed
           /\ Moves(<<To(d, IF signed THEN SExt(from, to, v) ELSE v)>>,
                    <<To(d, BitsOf(to, IF signed THEN SignedOf(from, c) ELSE NatOf(c)))>>,
                    Instruction("movx", to, {}, v, 0))

\* cbw, cwde and cdqe widen the accumulator in place.
WidenAccumulator ==
    /\ InGroup("move")
    /\ \E p \in Parts \ {"high", "low"} :
        LET w == Width(p) \div 2
        IN Moves(<<To(Rax(2 * w), SExt(w, 2 * w, GetIndexValue(w, Rax(w))))>>,
                 <<To(Rax(2 * w), BitsOf(2 * w, SignedOf(w, CpuOperand(w, Rax(w)))))>>,
                 Instruction("cbw", 2 * w, {}, {}, 0))

\* cwd, cdq and cqo fill rdx with the sign of the accumulator.
SignIntoRdx ==
    /\ InGroup("move")
    /\ \E p \in Parts \ {"high", "low"} :
        LET w == Width(p)
            v == GetIndexValue(w, Rax(w))
        IN Moves(<<To(HighHalf(w), Pick(~computeSignFlag(w, v), {}, Positions(w)))>>,
                 <<To(HighHalf(w), BitsOf(w, IF SignedOf(w, CpuOperand(w, Rax(w))) < 0
                                             THEN -1 ELSE 0))>>,
                 Instruction("cwd", w, v, {}, 0))

Exchange ==
    /\ InGroup("move")
    /\ \E d \in Dests(ByteBits) : \E s \in SourceRegisters(d) \ {d} :
        LET w == Width(d.part)
        IN Moves(<<To(d, GetIndexValue(w, s)), To(s, GetIndexValue(w, d))>>,
                 <<To(s, CpuOperand(w, d)), To(d, CpuOperand(w, s))>>,
                 Instruction("xchg", w, GetIndexValue(w, d), GetIndexValue(w, s), 0))

\* The base and the index at the width of the address; the sum is not cut to it.
GetEffectiveAddress(part, scale, disp) ==
    LET indexValue == Mul(QwordBits, GetRegisterValue(regs, "rcx", part), BitsOf(QwordBits, scale))
    IN Add(QwordBits, Add(QwordBits, GetRegisterValue(regs, "rax", part), indexValue),
           BitsOf(QwordBits, disp))

LoadAddress ==
    /\ InGroup("move")
    /\ \E d \in {RegisterOperand("rdx", p) : p \in Sizes(2 * ByteBits)},
          part \in {"dword", "qword"}, scale \in {1, 2, 4, 8}, disp \in {0, -1} :
        LET w == Width(d.part)
            sum == NatOf(CpuRead(cpuRegs, "rax", part))
                        + scale * NatOf(CpuRead(cpuRegs, "rcx", part)) + disp
        IN Moves(<<To(d, Trunc(w, GetEffectiveAddress(part, scale, disp)))>>,
                 <<To(d, Trunc(w, BitsOf(Width(part), sum)))>>,
                 Instruction(IF part = "dword" THEN "lea32" ELSE "lea", w, {}, {}, 0))

\* The destination is written whatever the condition is.
ConditionalMove ==
    /\ InGroup("move")
    /\ \E cc \in Conditions, d \in Dests(2 * ByteBits) :
        LET w == Width(d.part)
            src == RegisterOperand("rcx", d.part)
        IN Moves(<<To(d, Pick(Cmovcc(cc, flags), GetIndexValue(w, src), GetIndexValue(w, d)))>>,
                 <<To(d, IF Condition(cc, cpuFlags) THEN CpuOperand(w, src) ELSE CpuOperand(w, d))>>,
                 Instruction("cmovcc", w, {}, {}, 0))
-----------------------------------------------------------------------------
(* Instructions about flags *)

SetByte ==
    /\ InGroup("flag")
    /\ \E cc \in Conditions, d \in Dests(ByteBits) :
        /\ d.part \in {"low", "high"}
        /\ Moves(<<To(d, Pick(Setcc(cc, flags), {0}, {}))>>,
                 <<To(d, IF Condition(cc, cpuFlags) THEN {0} ELSE {})>>,
                 Instruction("setcc", ByteBits, {}, {}, 0))

ConditionalJump ==
    /\ "flag" \in Groups
    /\ \E cc \in Conditions :
        /\ jump' = [lifter |-> branchHelper(Jcc(cc, flags)), cpu |-> Condition(cc, cpuFlags)]
        /\ Moves(<<>>, <<>>, Instruction("jcc", 0, {}, {}, 0))

FlagInstruction ==
    /\ InGroup("flag")
    /\ \E change \in {<<"CF", TRUE>>, <<"CF", FALSE>>, <<"DF", TRUE>>, <<"DF", FALSE>>,
                      <<"IF", FALSE>>} :
        Execute(Outcome(<<>>, [flags EXCEPT ![change[1]] = change[2]], {}),
                Outcome(<<>>, [cpuFlags EXCEPT ![change[1]] = change[2]], {}),
                Instruction("setflag", 0, {}, {}, 0))

lift_cmc ==
    /\ InGroup("flag")
    /\ Execute(Outcome(<<>>, [flags EXCEPT !.CF = Xor1(@, TRUE)], {}),
               Outcome(<<>>, [cpuFlags EXCEPT !.CF = ~@], {}),
               Instruction("cmc", 0, {}, {}, 0))
-----------------------------------------------------------------------------
Init ==
    /\ regs \in [Registers -> {BitsOf(QwordBits, n) : n \in Samples}]
    /\ flags \in {[f \in FlagNames |-> f \in set] : set \in FlagSamples}
    /\ cpuRegs = regs /\ cpuFlags = flags
    /\ jump = [lifter |-> FALSE, cpu |-> FALSE]
    /\ last = NoInstruction
    /\ steps = 0

Next ==
    \/ AddSubLogic \/ AndNot \/ Compare \/ OneOperand \/ ExchangeAdd \/ CompareExchange
    \/ ShiftRotate \/ DoubleShift
    \/ BitTest \/ BitScan \/ SwapBytes \/ BitField
    \/ Multiply \/ MultiplyInto \/ Divide
    \/ Move \/ MoveExtended \/ WidenAccumulator \/ SignIntoRdx \/ Exchange \/ LoadAddress
    \/ ConditionalMove
    \/ SetByte \/ ConditionalJump \/ FlagInstruction \/ lift_cmc

Spec == Init /\ [][Next]_vars
-----------------------------------------------------------------------------
\* Registers and flags are values of the processor's sizes.
TypeOK ==
    /\ regs \in Files /\ cpuRegs \in Files
    /\ flags \in FlagSets /\ cpuFlags \in FlagSets
    /\ steps \in 0 .. MaxSteps
-----------------------------------------------------------------------------
(* Where the handlers are not the processor.  RegistersAreRight and           *)
(* FlagsAreRight hold of everything else.                                     *)

\* The loops of bsf and tzcnt go on past the lowest bit; lzcnt gives the place of
\* the highest bit; bzhi and bextr read one operand of two; xadd of a register
\* with itself keeps the old value; an address of 32 bits is not cut; cmpxchg
\* writes the accumulator, and so clears its upper half, when nothing changes.
WrongResult ==
    last.name \in {"bsf", "tzcnt", "lzcnt", "bzhi", "bextr", "xadd_same", "lea32", "cmpxchg"}

\* A count of zero, a rotation by whole turns, and flags no code sets.
WrongFlags ==
    LET noCount == last.count = 0
        wholeTurn == last.count # 0 /\ last.count % last.width = 0
    IN CASE last.name = "sar" /\ noCount  -> {"ZF", "PF", "OF"}
         [] last.name = "shld" /\ noCount -> {"SF", "ZF", "PF"}
         [] last.name = "shrd" /\ noCount -> {"SF", "ZF", "PF", "CF", "OF"}
         [] last.name \in {"rol", "ror"} /\ wholeTurn -> {"CF"}
         [] last.name = "cmpxchg" -> {"PF"}
         [] last.name \in {"lzcnt", "tzcnt"} -> {"CF", "ZF"}
         [] last.name \in {"blsi", "blsr"} -> {"CF", "OF"}
         [] last.name = "blsmsk" -> {"OF"}
         [] last.name = "bzhi" -> {"CF", "ZF", "SF"}
         [] last.name = "bextr" -> {"CF", "ZF", "OF"}
         [] OTHER -> {}
-----------------------------------------------------------------------------
\* After an instruction on data the lifter's registers hold what the processor's
\* hold, in every part: carries, high bytes, the upper halves a double word clears,
\* and the order in which two results are written (lift_* and SetRegisterValue).
RegistersAreRight == regs = cpuRegs \/ WrongResult

\* The flags are those of the processor wherever the manual defines them: each of
\* the six is computed on its own, from masks and signs, by every handler.
FlagsAreRight == \A f \in FlagNames : flags[f] = cpuFlags[f] \/ f \in WrongFlags

\* A conditional jump is taken by the lifter when the processor takes it: where the
\* two have the same flags, the condition lift_jcc computes for one of two opposite
\* jumps, and branchHelper reverses for the other, is what the jump's name says.
JumpsAreRight ==
    last.name = "jcc" /\ flags = cpuFlags => jump.lifter = jump.cpu

\* After a comparison of two operands every conditional instruction tests what
\* its name says of them, signed or unsigned, across overflow: lift_jcc, lift_setcc
\* and lift_cmovcc each combine the flags in their own way.
ComparisonsDecideBranches ==
    last.name \in {"cmp", "sub"} =>
        LET L == last.left  R == last.right  w == last.width
            below == NatOf(L) < NatOf(R)
            less == SignedOf(w, L) < SignedOf(w, R)
            says == [b |-> below, nb |-> ~below, be |-> below \/ L = R, nbe |-> ~below /\ L # R,
                     l |-> less, nl |-> ~less, le |-> less \/ L = R, nle |-> ~less /\ L # R,
                     z |-> L = R, nz |-> L # R]
        IN \A cc \in DOMAIN says :
            /\ branchHelper(Jcc(cc, flags)) = says[cc]
            /\ Setcc(cc, flags) = says[cc]
            /\ Cmovcc(cc, flags) = says[cc]
=============================================================================
