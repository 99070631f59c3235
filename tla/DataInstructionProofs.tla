----------------------- MODULE DataInstructionProofs ------------------------
(***************************************************************************)
(* That the registers and flags of the lifter are the processor's: reading *)
(* and writing parts of registers, conditions, and every instruction of the*)
(* model as a step, for every size of a byte, every operand and every state*)
(* the two share.                                                          *)
(***************************************************************************)
EXTENDS HandlerProofs

-----------------------------------------------------------------------------
(* Reading and writing parts of registers *)

\* The positions of every part, in the numbers of the byte size.
LEMMA Sizes8 ==
    /\ ByteBits \in Nat /\ ByteBits > 1
    /\ QwordBits = 8 * ByteBits
    /\ Width("low") = ByteBits /\ Width("high") = ByteBits
    /\ Width("word") = 2 * ByteBits /\ Width("dword") = 4 * ByteBits
    /\ Width("qword") = 8 * ByteBits
    /\ First("high") = ByteBits
    /\ \A p \in Parts \ {"high"} : First(p) = 0
  BY ByteAssumption DEF QwordBits, Width, First, Parts

\* GetRegisterValue gives the positions of the part that is read: the low ones
\* of a register, and for ah, ch and dh the second byte, moved down.
THEOREM ReadsAgree ==
    ASSUME NEW file \in Files, NEW reg \in Registers, NEW part \in Parts
    PROVE  GetRegisterValue(file, reg, part) = CpuRead(file, reg, part)
<1>1. file[reg] \in SUBSET Positions(QwordBits)
  BY DEF Files
<1>2. CASE part = "high"
  <2>1. CpuRead(file, reg, part) = {i \in 0 .. ByteBits - 1 : i + ByteBits \in file[reg]}
    BY <1>2, Sizes8 DEF CpuRead, Positions
  <2>2. GetRegisterValue(file, reg, part)
            = {i - ByteBits : i \in {j \in file[reg] : j >= ByteBits}} \intersect (0 .. ByteBits - 1)
    BY <1>2, Sizes8 DEF GetRegisterValue, GetValueFromHighByteRegister, Trunc, LShr, Positions
  <2> QED
    BY <1>1, <2>1, <2>2, Sizes8 DEF Positions
<1>3. CASE part # "high"
  <2>1. First(part) = 0 /\ Width(part) \in Nat
    BY <1>3, Sizes8 DEF Parts
  <2>2. CpuRead(file, reg, part) = {i \in Positions(Width(part)) : i \in file[reg]}
    BY <2>1 DEF CpuRead, Positions
  <2> QED
    BY <1>3, <2>2 DEF GetRegisterValue, Trunc
<1> QED
  BY <1>2, <1>3

\* The masks: a byte is cut out of the old value and the new one is put there.
LEMMA ByteWrite ==
    ASSUME NEW old \in SUBSET Positions(QwordBits), NEW part \in {"low", "high"},
           NEW value \in SUBSET Positions(ByteBits)
    PROVE  SetValueToSubRegister_8b(old, part, value)
               = {i \in Positions(QwordBits) :
                    IF i - First(part) \in Positions(ByteBits) THEN i - First(part) \in value
                    ELSE i \in old}
<1>1. CASE part = "high"
  <2>1. SetValueToSubRegister_8b(old, part, value)
            = (old \intersect (Positions(QwordBits) \ (ByteBits .. 2 * ByteBits - 1)))
                \union ({i + ByteBits : i \in value} \intersect Positions(QwordBits))
    BY <1>1 DEF SetValueToSubRegister_8b, Not, Shl
  <2> QED
    BY <1>1, <2>1, Sizes8 DEF Positions
<1>2. CASE part = "low"
  <2>1. SetValueToSubRegister_8b(old, part, value)
            = (old \intersect (Positions(QwordBits) \ Positions(ByteBits))) \union value
    BY <1>2 DEF SetValueToSubRegister_8b, Not
  <2>2. First(part) = 0
    BY <1>2, Sizes8 DEF Parts
  <2>3. Positions(ByteBits) \subseteq Positions(QwordBits) /\ Positions(QwordBits) \subseteq Int
    BY Sizes8 DEF Positions
  <2>4. \A i \in Positions(QwordBits) : i - First(part) = i
    BY <2>2, <2>3
  <2> QED
    BY <2>1, <2>3, <2>4
<1> QED
  BY <1>1, <1>2

\* SetValueToSubRegister_16b replaces the low two bytes and keeps the rest.
LEMMA WordWrite ==
    ASSUME NEW old \in SUBSET Positions(QwordBits), NEW value \in SUBSET Positions(2 * ByteBits)
    PROVE  SetValueToSubRegister_16b(old, value)
               = {i \in Positions(QwordBits) :
                    IF i \in Positions(2 * ByteBits) THEN i \in value ELSE i \in old}
<1>1. Positions(2 * ByteBits) \subseteq Positions(QwordBits)
  BY Sizes8 DEF Positions
<1> QED
  BY <1>1 DEF SetValueToSubRegister_16b, Not

\* SetRegisterValue writes exactly the part it is given: the new value is in its
\* positions, the other bytes of the register keep theirs, except that a double
\* word clears the upper half, and no other register changes.
THEOREM WritesAgree ==
    ASSUME NEW file \in Files, NEW reg \in Registers, NEW part \in Parts,
           NEW value \in SUBSET Positions(Width(part))
    PROVE  SetRegisterValue(file, Write(reg, part, value)) = CpuWrite(file, Write(reg, part, value))
<1> DEFINE old == file[reg]
           wr  == Write(reg, part, value)
           new == IF part \in {"low", "high"} THEN SetValueToSubRegister_8b(old, part, value)
                  ELSE IF part = "word" THEN SetValueToSubRegister_16b(old, value) ELSE value
           cpu == {i \in Positions(QwordBits) :
                     IF i - First(part) \in Positions(Width(part)) THEN i - First(part) \in value
                     ELSE part # "dword" /\ i \in old}
<1>1. old \in SUBSET Positions(QwordBits)
  BY DEF Files
<1>2. wr.reg = reg /\ wr.part = part /\ wr.value = value
  BY DEF Write
<1>3. SetRegisterValue(file, wr) = [file EXCEPT ![reg] = new]
  BY <1>2 DEF SetRegisterValue
<1>4. CpuWrite(file, wr) = [file EXCEPT ![reg] = cpu]
  BY <1>2 DEF CpuWrite
<1>5. new = cpu
  <2>1. CASE part \in {"low", "high"}
    <3>1. Width(part) = ByteBits /\ part # "dword"
      BY <2>1, Sizes8
    <3> QED
      BY <1>1, <2>1, <3>1, ByteWrite
  <2>2. CASE part \in {"word", "dword", "qword"}
    <3>1. /\ First(part) = 0
          /\ Width(part) \in {2 * ByteBits, 4 * ByteBits, 8 * ByteBits}
          /\ part = "word" => Width(part) = 2 * ByteBits
          /\ part = "qword" => Width(part) = QwordBits
      BY <2>2, Sizes8 DEF Parts
    <3>2. /\ Positions(Width(part)) \subseteq Positions(QwordBits)
          /\ \A i \in Positions(QwordBits) : i - First(part) = i
      BY <3>1, Sizes8 DEF Positions
    <3>3. cpu = {i \in Positions(QwordBits) :
                    IF i \in Positions(Width(part)) THEN i \in value
                    ELSE part # "dword" /\ i \in old}
      BY <3>2
    <3>4. CASE part = "word"
      <4>1. cpu = {i \in Positions(QwordBits) :
                     IF i \in Positions(2 * ByteBits) THEN i \in value ELSE i \in old}
        BY <3>1, <3>3, <3>4
      <4>2. value \in SUBSET Positions(2 * ByteBits)
        BY <3>1, <3>4
      <4> QED
        BY <1>1, <3>4, <4>1, <4>2, WordWrite
    <3>5. CASE part = "dword"
      BY <3>2, <3>3, <3>5
    <3>6. CASE part = "qword"
      BY <3>1, <3>2, <3>3, <3>6
    <3> QED
      BY <2>2, <3>4, <3>5, <3>6
  <2> QED
    BY <2>1, <2>2 DEF Parts
<1> QED
  BY <1>3, <1>4, <1>5

\* What was written is read back, and a byte written to ah leaves al, as al
\* leaves ah: the two never share a position.
THEOREM ReadAfterWrite ==
    ASSUME NEW file \in Files, NEW reg \in Registers, NEW part \in Parts,
           NEW value \in SUBSET Positions(Width(part))
    PROVE  LET after == SetRegisterValue(file, Write(reg, part, value))
           IN /\ after \in Files
              /\ GetRegisterValue(after, reg, part) = value
              /\ \A other \in Parts :
                    {part, other} = {"low", "high"} =>
                        GetRegisterValue(after, reg, other) = GetRegisterValue(file, reg, other)
<1> DEFINE wr    == Write(reg, part, value)
           after == SetRegisterValue(file, wr)
           cpu   == {i \in Positions(QwordBits) :
                     IF i - First(part) \in Positions(Width(part)) THEN i - First(part) \in value
                     ELSE part # "dword" /\ i \in file[reg]}
<1>1. after = [file EXCEPT ![reg] = cpu]
  <2>1. after = CpuWrite(file, wr)
    BY WritesAgree
  <2> QED
    BY <2>1 DEF CpuWrite, Write
<1>2. after \in Files
  BY <1>1 DEF Files
<1>3. after[reg] = cpu
  BY <1>1 DEF Files
<1>4. GetRegisterValue(after, reg, part) = value
  <2>1. GetRegisterValue(after, reg, part)
            = {i \in Positions(Width(part)) : i + First(part) \in cpu}
    BY <1>2, <1>3, ReadsAgree DEF CpuRead
  <2>2. /\ First(part) \in Nat /\ Width(part) \in Nat
        /\ First(part) + Width(part) <= QwordBits
    BY Sizes8 DEF Parts
  <2>3. ASSUME NEW i \in Positions(Width(part))
        PROVE  i + First(part) \in cpu <=> i \in value
    <3>1. i + First(part) \in Positions(QwordBits) /\ (i + First(part)) - First(part) = i
      BY <2>2, Sizes8 DEF Positions
    <3> QED
      BY <3>1
  <2> QED
    BY <2>1, <2>3
<1>5. ASSUME NEW other \in Parts, {part, other} = {"low", "high"}
      PROVE  GetRegisterValue(after, reg, other) = GetRegisterValue(file, reg, other)
  <2>1. GetRegisterValue(after, reg, other)
            = {i \in Positions(ByteBits) : i + First(other) \in cpu}
    BY <1>2, <1>3, <1>5, ReadsAgree, Sizes8 DEF CpuRead
  <2>2. GetRegisterValue(file, reg, other)
            = {i \in Positions(ByteBits) : i + First(other) \in file[reg]}
    BY <1>5, ReadsAgree, Sizes8 DEF CpuRead
  <2>3. /\ Width(part) = ByteBits /\ part # "dword"
        /\ \/ First(part) = 0 /\ First(other) = ByteBits
           \/ First(part) = ByteBits /\ First(other) = 0
    BY <1>5, Sizes8
  <2> QED
    BY <2>1, <2>2, <2>3, Sizes8 DEF Positions
<1> QED
  BY <1>2, <1>4, <1>5

\* Writing nothing, one result, or two in their order.
LEMMA Largest == Max({1}) = 1 /\ Max({2}) = 2 /\ Max({1, 2}) = 2
  BY DEF Max

\* One write of the lifter.
LEMMA LiftedWrite ==
    ASSUME NEW file, NEW wr
    PROVE  Apply(SetRegisterValue, file, <<wr>>) = SetRegisterValue(file, wr)
<1> DEFINE seq == <<wr>>
           D == DOMAIN seq
           Step(h) == [s \in SUBSET D |->
                          IF s = {} THEN file
                          ELSE SetRegisterValue(h[s \ {Max(s)}], seq[Max(s)])]
           iter == CHOOSE h : h = Step(h)
           g == [s \in SUBSET {1} |-> IF s = {} THEN file ELSE SetRegisterValue(file, wr)]
<1>1. Apply(SetRegisterValue, file, <<wr>>) = iter[D]
  BY DEF Apply, FoldLeft, MapThenFoldSet
<1>2. D = {1} /\ seq[1] = wr
  OBVIOUS
<1> HIDE DEF D, seq
<1>3. \A h : Step(h) = [s \in SUBSET {1} |->
                           IF s = {} THEN file ELSE SetRegisterValue(h[{}], wr)]
  <2> TAKE h
  <2>1. \A s \in SUBSET {1} : s = {} \/ s = {1}
    OBVIOUS
  <2>2. Max({1}) = 1 /\ {1} \ {1} = {}
    BY Largest
  <2> QED
    BY <1>2, <2>1, <2>2
<1>4. g[{}] = file /\ g[{1}] = SetRegisterValue(file, wr)
  OBVIOUS
<1> HIDE DEF Step, g
<1>5. g = Step(g)
  <2>1. Step(g) = [s \in SUBSET {1} |-> IF s = {} THEN file ELSE SetRegisterValue(file, wr)]
    BY <1>3, <1>4
  <2> QED
    BY <2>1 DEF g
<1>6. iter = Step(iter)
  BY <1>5
<1> HIDE DEF iter
<1>7. iter[{}] = file /\ iter[{1}] = SetRegisterValue(iter[{}], wr)
  BY <1>3, <1>6
<1> QED
  BY <1>1, <1>2, <1>7

\* One write of the processor.
LEMMA CpuOneWrite ==
    ASSUME NEW file, NEW wr
    PROVE  Apply(CpuWrite, file, <<wr>>) = CpuWrite(file, wr)
<1> DEFINE seq == <<wr>>
           D == DOMAIN seq
           Step(h) == [s \in SUBSET D |->
                          IF s = {} THEN file
                          ELSE CpuWrite(h[s \ {Max(s)}], seq[Max(s)])]
           iter == CHOOSE h : h = Step(h)
           g == [s \in SUBSET {1} |-> IF s = {} THEN file ELSE CpuWrite(file, wr)]
<1>1. Apply(CpuWrite, file, <<wr>>) = iter[D]
  BY DEF Apply, FoldLeft, MapThenFoldSet
<1>2. D = {1} /\ seq[1] = wr
  OBVIOUS
<1> HIDE DEF D, seq
<1>3. \A h : Step(h) = [s \in SUBSET {1} |->
                           IF s = {} THEN file ELSE CpuWrite(h[{}], wr)]
  <2> TAKE h
  <2>1. \A s \in SUBSET {1} : s = {} \/ s = {1}
    OBVIOUS
  <2>2. Max({1}) = 1 /\ {1} \ {1} = {}
    BY Largest
  <2> QED
    BY <1>2, <2>1, <2>2
<1>4. g[{}] = file /\ g[{1}] = CpuWrite(file, wr)
  OBVIOUS
<1> HIDE DEF Step, g
<1>5. g = Step(g)
  <2>1. Step(g) = [s \in SUBSET {1} |-> IF s = {} THEN file ELSE CpuWrite(file, wr)]
    BY <1>3, <1>4
  <2> QED
    BY <2>1 DEF g
<1>6. iter = Step(iter)
  BY <1>5
<1> HIDE DEF iter
<1>7. iter[{}] = file /\ iter[{1}] = CpuWrite(iter[{}], wr)
  BY <1>3, <1>6
<1> QED
  BY <1>1, <1>2, <1>7

LiftedTwice(file, wr, wr2) == SetRegisterValue(SetRegisterValue(file, wr), wr2)

\* Two writes of the lifter are made one after the other.
LEMMA LiftedWrites ==
    ASSUME NEW file, NEW wr, NEW wr2
    PROVE  Apply(SetRegisterValue, file, <<wr, wr2>>) = LiftedTwice(file, wr, wr2)
<1> DEFINE seq == <<wr, wr2>>
           D == DOMAIN seq
           Step(h) == [s \in SUBSET D |->
                          IF s = {} THEN file
                          ELSE SetRegisterValue(h[s \ {Max(s)}], seq[Max(s)])]
           iter == CHOOSE h : h = Step(h)
           g == [s \in SUBSET {1, 2} |->
                    IF s = {} THEN file ELSE IF s = {1} THEN SetRegisterValue(file, wr)
                    ELSE IF s = {2} THEN SetRegisterValue(file, wr2)
                    ELSE SetRegisterValue(SetRegisterValue(file, wr), wr2)]
<1>1. Apply(SetRegisterValue, file, <<wr, wr2>>) = iter[D]
  BY DEF Apply, FoldLeft, MapThenFoldSet
<1>2. D = {1, 2} /\ seq[1] = wr /\ seq[2] = wr2
  OBVIOUS
<1> HIDE DEF D, seq
<1>3. \A h : Step(h) = [s \in SUBSET {1, 2} |->
                           IF s = {} THEN file
                           ELSE IF s = {1} THEN SetRegisterValue(h[{}], wr)
                           ELSE IF s = {2} THEN SetRegisterValue(h[{}], wr2)
                           ELSE SetRegisterValue(h[{1}], wr2)]
  <2> TAKE h
  <2>1. \A s \in SUBSET {1, 2} : s = {} \/ s = {1} \/ s = {2} \/ s = {1, 2}
    OBVIOUS
  <2>2. /\ Max({1}) = 1 /\ Max({2}) = 2 /\ Max({1, 2}) = 2
        /\ {1} \ {1} = {} /\ {2} \ {2} = {} /\ {1, 2} \ {2} = {1}
    BY Largest
  <2> QED
    BY <1>2, <2>1, <2>2
<1>4. /\ g[{}] = file /\ g[{1}] = SetRegisterValue(file, wr)
      /\ g[{2}] = SetRegisterValue(file, wr2)
      /\ g[{1, 2}] = SetRegisterValue(SetRegisterValue(file, wr), wr2)
  OBVIOUS
<1> HIDE DEF Step, g
<1>5. g = Step(g)
  <2>1. Step(g) = [s \in SUBSET {1, 2} |->
                      IF s = {} THEN file ELSE IF s = {1} THEN SetRegisterValue(file, wr)
                      ELSE IF s = {2} THEN SetRegisterValue(file, wr2)
                      ELSE SetRegisterValue(SetRegisterValue(file, wr), wr2)]
    BY <1>3, <1>4
  <2> QED
    BY <2>1 DEF g
<1>6. iter = Step(iter)
  BY <1>5
<1> HIDE DEF iter
<1>7. /\ iter[{}] = file
      /\ iter[{1}] = SetRegisterValue(iter[{}], wr)
      /\ iter[{1, 2}] = SetRegisterValue(iter[{1}], wr2)
  BY <1>3, <1>6
<1> QED
  BY <1>1, <1>2, <1>7 DEF LiftedTwice

CpuTwice(file, wr, wr2) == CpuWrite(CpuWrite(file, wr), wr2)

\* Two writes of the processor are made one after the other.
LEMMA CpuTwoWrites ==
    ASSUME NEW file, NEW wr, NEW wr2
    PROVE  Apply(CpuWrite, file, <<wr, wr2>>) = CpuTwice(file, wr, wr2)
<1> DEFINE seq == <<wr, wr2>>
           D == DOMAIN seq
           Step(h) == [s \in SUBSET D |->
                          IF s = {} THEN file
                          ELSE CpuWrite(h[s \ {Max(s)}], seq[Max(s)])]
           iter == CHOOSE h : h = Step(h)
           g == [s \in SUBSET {1, 2} |->
                    IF s = {} THEN file ELSE IF s = {1} THEN CpuWrite(file, wr)
                    ELSE IF s = {2} THEN CpuWrite(file, wr2)
                    ELSE CpuWrite(CpuWrite(file, wr), wr2)]
<1>1. Apply(CpuWrite, file, <<wr, wr2>>) = iter[D]
  BY DEF Apply, FoldLeft, MapThenFoldSet
<1>2. D = {1, 2} /\ seq[1] = wr /\ seq[2] = wr2
  OBVIOUS
<1> HIDE DEF D, seq
<1>3. \A h : Step(h) = [s \in SUBSET {1, 2} |->
                           IF s = {} THEN file
                           ELSE IF s = {1} THEN CpuWrite(h[{}], wr)
                           ELSE IF s = {2} THEN CpuWrite(h[{}], wr2)
                           ELSE CpuWrite(h[{1}], wr2)]
  <2> TAKE h
  <2>1. \A s \in SUBSET {1, 2} : s = {} \/ s = {1} \/ s = {2} \/ s = {1, 2}
    OBVIOUS
  <2>2. /\ Max({1}) = 1 /\ Max({2}) = 2 /\ Max({1, 2}) = 2
        /\ {1} \ {1} = {} /\ {2} \ {2} = {} /\ {1, 2} \ {2} = {1}
    BY Largest
  <2> QED
    BY <1>2, <2>1, <2>2
<1>4. /\ g[{}] = file /\ g[{1}] = CpuWrite(file, wr)
      /\ g[{2}] = CpuWrite(file, wr2) /\ g[{1, 2}] = CpuWrite(CpuWrite(file, wr), wr2)
  OBVIOUS
<1> HIDE DEF Step, g
<1>5. g = Step(g)
  <2>1. Step(g) = [s \in SUBSET {1, 2} |->
                      IF s = {} THEN file ELSE IF s = {1} THEN CpuWrite(file, wr)
                      ELSE IF s = {2} THEN CpuWrite(file, wr2)
                      ELSE CpuWrite(CpuWrite(file, wr), wr2)]
    BY <1>3, <1>4
  <2> QED
    BY <2>1 DEF g
<1>6. iter = Step(iter)
  BY <1>5
<1> HIDE DEF iter
<1>7. /\ iter[{}] = file
      /\ iter[{1}] = CpuWrite(iter[{}], wr)
      /\ iter[{1, 2}] = CpuWrite(iter[{1}], wr2)
  BY <1>3, <1>6
<1> QED
  BY <1>1, <1>2, <1>7 DEF CpuTwice

\* Jumps, bytes set on a condition and conditional moves test the same conditions.
THEOREM ConditionsAgree ==
    ASSUME NEW f, NEW cc \in Conditions
    PROVE  /\ branchHelper(Jcc(cc, f)) = Condition(cc, f)
           /\ Setcc(cc, f) = Condition(cc, f)
           /\ Cmovcc(cc, f) = Condition(cc, f)
<1>1. branchHelper(Jcc(cc, f)) = Condition(cc, f)
  BY DEF Conditions, branchHelper, Jcc, Condition, Xor1
<1>2. Setcc(cc, f) = Condition(cc, f)
  BY <1>1 DEF Conditions, Setcc, Condition
<1>3. Cmovcc(cc, f) = Condition(cc, f)
  BY <1>1 DEF Conditions, Cmovcc, Condition, Xor1
<1> QED
  BY <1>1, <1>2, <1>3

\* The instruction a step carries out is the last one.
LEMMA Executed ==
    ASSUME NEW out, NEW cpu, NEW instruction, Execute(out, cpu, instruction)
    PROVE  last' = instruction
  BY DEF Execute

\* An instruction that only writes registers leaves every flag as it was.
LEMMA Moved ==
    ASSUME NEW out, NEW cpu, NEW instruction, Moves(out, cpu, instruction)
    PROVE  /\ last' = instruction
           /\ flags' = flags
           /\ cpuFlags' = [f \in FlagNames |-> cpuFlags[f]]
  BY DEF Moves, Execute, Outcome

\* Only a conditional jump has the name of one, and only two actions are comparisons.
LEMMA OtherNames ==
    ASSUME Next, ~ConditionalJump
    PROVE  /\ last'.name # "jcc"
           /\ last'.name \in {"cmp", "sub"} => Compare \/ AddSubLogic
<1>1. CASE AddSubLogic
  BY <1>1, Executed DEF AddSubLogic, Instruction
<1>2. CASE AndNot
  BY <1>2, Executed DEF AndNot, Instruction
<1>3. CASE Compare
  BY <1>3, Executed DEF Compare, Instruction
<1>4. CASE OneOperand
  BY <1>4, Executed DEF OneOperand, Instruction
<1>5. CASE ExchangeAdd
  BY <1>5, Executed DEF ExchangeAdd, Instruction
<1>6. CASE CompareExchange
  BY <1>6, Executed DEF CompareExchange, Instruction
<1>7. CASE ShiftRotate
  BY <1>7, Executed DEF ShiftRotate, Instruction, Shifts, Rotates
<1>8. CASE DoubleShift
  BY <1>8, Executed DEF DoubleShift, Instruction
<1>9. CASE BitTest
  BY <1>9, Executed DEF BitTest, Instruction
<1>10. CASE BitScan
  BY <1>10, Executed DEF BitScan, Instruction
<1>11. CASE SwapBytes
  BY <1>11, Executed DEF SwapBytes, Instruction
<1>12. CASE BitField
  BY <1>12, Executed DEF BitField, Instruction
<1>13. CASE Multiply
  BY <1>13, Executed DEF Multiply, Instruction
<1>14. CASE MultiplyInto
  <2>1. \E out, cpu, w, L, R, s, d :
            Execute(out, cpu, Instruction(IF s = d THEN "imul2" ELSE "imul3", w, L, R, 0))
    BY <1>14, Zenon DEF MultiplyInto
  <2>2. PICK out, cpu, w, L, R, s, d :
            Execute(out, cpu, Instruction(IF s = d THEN "imul2" ELSE "imul3", w, L, R, 0))
    BY <2>1
  <2>3. last' = Instruction(IF s = d THEN "imul2" ELSE "imul3", w, L, R, 0)
    BY <2>2, Executed
  <2> QED
    BY <2>3 DEF Instruction
<1>15. CASE Divide
  BY <1>15, Executed DEF Divide, Instruction
<1>16. CASE Move
  BY <1>16, Moved DEF Move, Instruction
<1>17. CASE MoveExtended
  BY <1>17, Moved DEF MoveExtended, Instruction
<1>18. CASE WidenAccumulator
  BY <1>18, Moved DEF WidenAccumulator, Instruction
<1>19. CASE SignIntoRdx
  BY <1>19, Moved DEF SignIntoRdx, Instruction
<1>20. CASE Exchange
  BY <1>20, Moved DEF Exchange, Instruction
<1>21. CASE LoadAddress
  BY <1>21, Moved DEF LoadAddress, Instruction
<1>22. CASE ConditionalMove
  BY <1>22, Moved DEF ConditionalMove, Instruction
<1>23. CASE SetByte
  BY <1>23, Moved DEF SetByte, Instruction
<1>24. CASE FlagInstruction
  BY <1>24, Executed DEF FlagInstruction, Instruction
<1>25. CASE lift_cmc
  BY <1>25, Executed DEF lift_cmc, Instruction
<1> QED
  BY <1>1, <1>2, <1>3, <1>4, <1>5, <1>6, <1>7, <1>8, <1>9, <1>10, <1>11, <1>12, <1>13, <1>14,
     <1>15, <1>16, <1>17, <1>18, <1>19, <1>20, <1>21, <1>22, <1>23, <1>24, <1>25 DEF Next

\* A conditional jump changes no flag, so the two that hold afterwards are the two
\* it was decided by.
THEOREM JumpsAreAlwaysRight == Spec => []JumpsAreRight
<1>1. Init => JumpsAreRight
  BY DEF Init, JumpsAreRight
<1>2. JumpsAreRight /\ [Next]_vars => JumpsAreRight'
  <2> SUFFICES ASSUME JumpsAreRight, [Next]_vars, last'.name = "jcc", flags' = cpuFlags'
               PROVE  jump'.lifter = jump'.cpu
    BY DEF JumpsAreRight
  <2>1. CASE UNCHANGED vars
    BY <2>1 DEF JumpsAreRight, vars
  <2>2. CASE ConditionalJump
    <3>1. PICK cc \in Conditions :
              /\ jump' = [lifter |-> branchHelper(Jcc(cc, flags)), cpu |-> Condition(cc, cpuFlags)]
              /\ Moves(<<>>, <<>>, Instruction("jcc", 0, {}, {}, 0))
      BY <2>2 DEF ConditionalJump
    <3>2. flags = [f \in FlagNames |-> cpuFlags[f]]
      BY <3>1, Moved
    <3>3. Condition(cc, flags) = Condition(cc, cpuFlags)
      BY <3>2 DEF Conditions, Condition, FlagNames
    <3> QED
      BY <3>1, <3>3, ConditionsAgree
  <2> QED
    BY <2>1, <2>2, OtherNames
<1> QED
  BY <1>1, <1>2, PTL DEF Spec

-----------------------------------------------------------------------------
(* Operands, writes and steps *)

\* The widths of operands.
Widths == {ByteBits, 2 * ByteBits, 4 * ByteBits, QwordBits}

\* A part of a register of a given width, and an operand read at that width.
IsPlace(w, o) ==
    o.kind = "register" /\ o.reg \in Registers /\ o.part \in Parts /\ Width(o.part) = w
IsImmediate(o) == o.kind = "immediate" /\ o.value \in SUBSET Positions(ByteBits)
IsOperand(w, o) == IsPlace(w, o) \/ IsImmediate(o)

\* The widths in the numbers the arithmetic lemmas ask for.
LEMMA WidthsAre ==
    /\ \A w \in Widths : w \in Nat /\ w \in Nat \ {0} /\ w \in Nat \ {0, 1} /\ w >= ByteBits
                            /\ w <= QwordBits
    /\ \A p \in Parts : Width(p) \in Widths
    /\ QwordBits \in Nat /\ QwordBits \in Widths
  BY Sizes8 DEF Widths, Parts

\* The part of a size.
LEMMA PartOfSizeIs ==
    ASSUME NEW w \in Widths
    PROVE  PartOfSize(w) \in Parts \ {"high"} /\ Width(PartOfSize(w)) = w
<1>1. \E p \in Parts \ {"high"} : Width(p) = w
  BY Sizes8 DEF Widths, Parts
<1> QED
  BY <1>1 DEF PartOfSize

\* A register operand is the place it names.
LEMMA RegisterPlace ==
    ASSUME NEW r \in Registers, NEW p \in Parts
    PROVE  LET o == RegisterOperand(r, p)
           IN /\ o.reg = r /\ o.part = p /\ o.kind = "register"
              /\ IsPlace(Width(p), o) /\ IsOperand(Width(p), o)
  BY DEF RegisterOperand, IsPlace, IsOperand

\* Destinations are parts of rax.
LEMMA DestIs ==
    ASSUME NEW minimum \in Nat, NEW d \in Dests(minimum)
    PROVE  /\ d.reg = "rax" /\ d.part \in Parts /\ d = RegisterOperand("rax", d.part)
           /\ Width(d.part) \in Widths /\ IsPlace(Width(d.part), d) /\ IsOperand(Width(d.part), d)
           /\ d.part = "high" => minimum = ByteBits
           /\ d.part # "high" => Width(d.part) >= minimum
<1>1. PICK p \in Parts : d = RegisterOperand("rax", p) /\ (p = "high" => minimum = ByteBits)
                            /\ (p # "high" => Width(p) >= minimum)
  BY DEF Dests, Sizes, Parts
<1>2. "rax" \in Registers
  BY DEF Registers
<1> QED
  BY <1>1, <1>2, RegisterPlace, WidthsAre

\* A destination of a word or more is a part of rax, and not ah.
LEMMA WideDestIs ==
    ASSUME NEW d \in Dests(2 * ByteBits)
    PROVE  /\ d.reg = "rax" /\ d.part \in Parts \ {"high"} /\ d = RegisterOperand("rax", d.part)
           /\ Width(d.part) \in Widths /\ IsPlace(Width(d.part), d) /\ IsOperand(Width(d.part), d)
           /\ Width(d.part) >= 2 * ByteBits
<1>1. 2 * ByteBits \in Nat /\ 2 * ByteBits # ByteBits
  BY Sizes8
<1> HIDE DEF Widths, IsPlace, IsOperand
<1> QED
  BY <1>1, DestIs

\* Sources have the width of the destination.
LEMMA SourceIs ==
    ASSUME NEW d, d.part \in Parts, NEW s \in Sources(d)
    PROVE  IsOperand(Width(d.part), s)
<1>1. CASE s \in ImmediateOperands
  <2>1. PICK n \in Immediates : s = ImmediateOperand(BitsOf(ByteBits, n))
    BY <1>1 DEF ImmediateOperands
  <2> QED
    BY <2>1 DEF ImmediateOperand, BitsOf, IsOperand, IsImmediate
<1>2. CASE s \in SourceRegisters(d)
  <2>1. /\ "rax" \in Registers /\ "rcx" \in Registers /\ "high" \in Parts /\ "low" \in Parts
        /\ Width("low") = Width("high")
    BY Sizes8 DEF Registers, Parts
  <2>2. \/ s = RegisterOperand("rax", d.part) \/ s = RegisterOperand("rcx", d.part)
        \/ d.part = "low" /\ s = RegisterOperand("rax", "high")
        \/ d.part = "high" /\ s = RegisterOperand("rax", "low")
    BY <1>2 DEF SourceRegisters
  <2> QED
    BY <2>1, <2>2, RegisterPlace
<1> QED
  BY <1>1, <1>2 DEF Sources

\* A source register has the width of the destination.
LEMMA SourceRegisterIs ==
    ASSUME NEW d, d.part \in Parts, NEW s \in SourceRegisters(d)
    PROVE  IsPlace(Width(d.part), s)
<1>1. /\ "rax" \in Registers /\ "rcx" \in Registers /\ "high" \in Parts /\ "low" \in Parts
      /\ Width("low") = Width("high")
  BY Sizes8 DEF Registers, Parts
<1>2. \/ s = RegisterOperand("rax", d.part) \/ s = RegisterOperand("rcx", d.part)
      \/ d.part = "low" /\ s = RegisterOperand("rax", "high")
      \/ d.part = "high" /\ s = RegisterOperand("rax", "low")
  BY DEF SourceRegisters
<1> QED
  BY <1>1, <1>2, RegisterPlace

\* An immediate is an operand of every width.
LEMMA ImmediateIs ==
    ASSUME NEW s \in ImmediateOperands, NEW w
    PROVE  IsOperand(w, s)
<1>1. PICK n \in Immediates : s = ImmediateOperand(BitsOf(ByteBits, n))
  BY DEF ImmediateOperands
<1> QED
  BY <1>1 DEF ImmediateOperand, BitsOf, IsOperand, IsImmediate

\* What is read of a register has the width of the part, and both read the same.
LEMMA ReadIs ==
    ASSUME NEW file \in Files, NEW reg \in Registers, NEW part \in Parts
    PROVE  /\ GetRegisterValue(file, reg, part) \in SUBSET Positions(Width(part))
           /\ CpuRead(file, reg, part) \in SUBSET Positions(Width(part))
           /\ GetRegisterValue(file, reg, part) = CpuRead(file, reg, part)
<1>1. CpuRead(file, reg, part) \in SUBSET Positions(Width(part))
  BY DEF CpuRead
<1> QED
  BY <1>1, ReadsAgree

\* Operands are read at their width, and the two read the same of the same registers.
LEMMA OperandIs ==
    ASSUME TypeOK, NEW w \in Widths, NEW o, IsOperand(w, o)
    PROVE  /\ GetIndexValue(w, o) \in SUBSET Positions(w)
           /\ CpuOperand(w, o) \in SUBSET Positions(w)
           /\ regs = cpuRegs => CpuOperand(w, o) = GetIndexValue(w, o)
<1>1. regs \in Files /\ cpuRegs \in Files
  BY DEF TypeOK
<1>2. CASE IsPlace(w, o)
  <2>1. /\ GetIndexValue(w, o) = GetRegisterValue(regs, o.reg, o.part)
        /\ CpuOperand(w, o) = CpuRead(cpuRegs, o.reg, o.part)
    BY <1>2 DEF IsPlace, GetIndexValue, CpuOperand
  <2> QED
    BY <1>1, <1>2, <2>1, ReadIs DEF IsPlace
<1>3. CASE IsImmediate(o)
  <2>1. /\ GetIndexValue(w, o) = SExt(ByteBits, w, o.value)
        /\ CpuOperand(w, o) = BitsOf(w, SignedOf(ByteBits, o.value))
    BY <1>3 DEF IsImmediate, GetIndexValue, CpuOperand
  <2>2. ByteBits \in Nat \ {0} /\ w \in Nat /\ ByteBits <= w
    BY WidthsAre, Sizes8
  <2>3. /\ SExt(ByteBits, w, o.value) \in SUBSET Positions(w)
        /\ SExt(ByteBits, w, o.value) = BitsOf(w, SignedOf(ByteBits, o.value))
    BY <1>3, <2>2, SExtIs DEF IsImmediate
  <2> QED
    BY <2>1, <2>3
<1> QED
  BY <1>2, <1>3 DEF IsOperand

\* A part of one register read by both.
LEMMA PartIs ==
    ASSUME TypeOK, NEW reg \in Registers, NEW part \in Parts
    PROVE  /\ GetRegisterValue(regs, reg, part) \in SUBSET Positions(Width(part))
           /\ CpuRead(cpuRegs, reg, part) \in SUBSET Positions(Width(part))
           /\ regs = cpuRegs => CpuRead(cpuRegs, reg, part) = GetRegisterValue(regs, reg, part)
  BY ReadIs DEF TypeOK
----
\* A write of a value to a place of its width.
IsWrite(wr) ==
    /\ wr = Write(wr.reg, wr.part, wr.value)
    /\ wr.reg \in Registers /\ wr.part \in Parts
    /\ wr.value \in SUBSET Positions(Width(wr.part))

\* The writes an instruction makes: none, one or two.
IsWrites(writes) ==
    \/ writes = <<>>
    \/ \E a : IsWrite(a) /\ writes = <<a>>
    \/ \E a, b : IsWrite(a) /\ IsWrite(b) /\ writes = <<a, b>>

\* Writes of which only the number is known.
FewWrites(writes) ==
    writes = <<>> \/ (\E a : writes = <<a>>) \/ (\E a, b : writes = <<a, b>>)

\* A value of the width of an operand can be written to it.
LEMMA ToIs ==
    ASSUME NEW w, NEW o, IsPlace(w, o), NEW v \in SUBSET Positions(w)
    PROVE  IsWrite(To(o, v))
  BY DEF IsPlace, IsWrite, To, Write

\* SetRegisterValue writes what the processor writes, and the registers keep their
\* sizes.
LEMMA WriteIs ==
    ASSUME NEW file \in Files, NEW wr, IsWrite(wr)
    PROVE  SetRegisterValue(file, wr) = CpuWrite(file, wr) /\ SetRegisterValue(file, wr) \in Files
  BY WritesAgree, ReadAfterWrite DEF IsWrite

\* The processor's registers keep their sizes.
LEMMA CpuWriteType ==
    ASSUME NEW file \in Files, NEW wr
    PROVE  CpuWrite(file, wr) \in Files
<1>1. ASSUME NEW old, NEW value, NEW part
      PROVE  {i \in Positions(QwordBits) :
                 LET j == i - First(part)
                 IN IF j \in Positions(Width(part)) THEN j \in value
                    ELSE part # "dword" /\ i \in old} \in SUBSET Positions(QwordBits)
  OBVIOUS
<1> QED
  BY <1>1 DEF CpuWrite, Files

\* No writes change nothing.
LEMMA NoWrite ==
    ASSUME NEW file
    PROVE  Apply(SetRegisterValue, file, <<>>) = file /\ Apply(CpuWrite, file, <<>>) = file
<1> DEFINE seq == <<>>
           D == DOMAIN seq
           Lifted0(h) == [s \in SUBSET D |->
                          IF s = {} THEN file
                          ELSE SetRegisterValue(h[s \ {Max(s)}], seq[Max(s)])]
           Cpu0(h) == [s \in SUBSET D |->
                          IF s = {} THEN file
                          ELSE CpuWrite(h[s \ {Max(s)}], seq[Max(s)])]
           g == [s \in SUBSET {} |-> file]
           lifted == CHOOSE h : h = Lifted0(h)
           cpu == CHOOSE h : h = Cpu0(h)
<1>1. Apply(SetRegisterValue, file, <<>>) = lifted[D] /\ Apply(CpuWrite, file, <<>>) = cpu[D]
  BY DEF Apply, FoldLeft, MapThenFoldSet
<1>2. D = {}
  OBVIOUS
<1> HIDE DEF D, seq
<1>3. \A h : Lifted0(h) = g /\ Cpu0(h) = g
  <2>1. \A s \in SUBSET {} : s = {}
    OBVIOUS
  <2> QED
    BY <1>2, <2>1
<1> HIDE DEF Lifted0, Cpu0
<1>4. lifted = Lifted0(lifted) /\ cpu = Cpu0(cpu)
  BY <1>3
<1>5. lifted[{}] = file /\ cpu[{}] = file
  <2> HIDE DEF lifted, cpu
  <2> QED
    BY <1>3, <1>4
<1> QED
  BY <1>1, <1>2, <1>5

\* The same writes leave the same registers.
LEMMA SameWrites ==
    ASSUME NEW file \in Files, NEW writes, IsWrites(writes)
    PROVE  /\ Apply(SetRegisterValue, file, writes) = Apply(CpuWrite, file, writes)
           /\ Apply(SetRegisterValue, file, writes) \in Files
<1>1. CASE writes = <<>>
  BY <1>1, NoWrite
<1>2. CASE \E a : IsWrite(a) /\ writes = <<a>>
  <2>1. PICK a : IsWrite(a) /\ writes = <<a>>
    BY <1>2
  <2> QED
    BY <2>1, LiftedWrite, CpuOneWrite, WriteIs
<1>3. CASE \E a, b : IsWrite(a) /\ IsWrite(b) /\ writes = <<a, b>>
  <2>1. PICK a, b : IsWrite(a) /\ IsWrite(b) /\ writes = <<a, b>>
    BY <1>3
  <2>2. SetRegisterValue(file, a) = CpuWrite(file, a) /\ SetRegisterValue(file, a) \in Files
    BY <2>1, WriteIs
  <2>3. /\ SetRegisterValue(SetRegisterValue(file, a), b) = CpuWrite(SetRegisterValue(file, a), b)
        /\ SetRegisterValue(SetRegisterValue(file, a), b) \in Files
    BY <2>1, <2>2, WriteIs
  <2>4. Apply(SetRegisterValue, file, <<a, b>>)
            = LiftedTwice(file, a, b)
    BY LiftedWrites
  <2>5. Apply(CpuWrite, file, <<a, b>>) = CpuTwice(file, a, b)
    BY CpuTwoWrites
  <2> QED
    BY <2>1, <2>2, <2>3, <2>4, <2>5 DEF LiftedTwice, CpuTwice
<1> QED
  BY <1>1, <1>2, <1>3 DEF IsWrites

\* The processor's registers keep their sizes after the writes of an instruction.
LEMMA CpuWritesType ==
    ASSUME NEW file \in Files, NEW writes, FewWrites(writes)
    PROVE  Apply(CpuWrite, file, writes) \in Files
<1>1. CASE writes = <<>>
  BY <1>1, NoWrite
<1>2. CASE \E a : writes = <<a>>
  BY <1>2, CpuOneWrite, CpuWriteType
<1>3. CASE \E a, b : writes = <<a, b>>
  <2>1. PICK a, b : writes = <<a, b>>
    BY <1>3
  <2>2. Apply(CpuWrite, file, <<a, b>>) = CpuTwice(file, a, b)
    BY CpuTwoWrites
  <2>3. CpuWrite(file, a) \in Files
    BY CpuWriteType
  <2>4. CpuWrite(CpuWrite(file, a), b) \in Files
    BY <2>3, CpuWriteType
  <2> QED
    BY <2>1, <2>2, <2>4 DEF CpuTwice
<1> QED
  BY <1>1, <1>2, <1>3 DEF FewWrites
----
\* The same registers and the same flags.
Together == regs = cpuRegs /\ flags = cpuFlags

\* The names of the instructions whose results are not the processor's.
WrongNames == {"bsf", "tzcnt", "lzcnt", "bzhi", "bextr", "xadd_same", "lea32", "cmpxchg"}

\* An outcome of the lifter beside one of the processor, from the same registers.
Match(out, cpu, instruction) ==
    /\ \/ "result" \in cpu.undefined
       \/ instruction.name \in WrongNames
       \/ Apply(CpuWrite, regs, out.writes) = Apply(CpuWrite, regs, cpu.writes)
    /\ Agree(out.flags, cpu.flags, cpu.undefined, WrongOf(instruction))

\* Outcomes of the right types.
Typed(out, cpu) ==
    /\ IsWrites(out.writes) /\ out.flags \in FlagSets
    /\ FewWrites(cpu.writes) /\ cpu.flags \in FlagSets

\* What a step does.
StepRight ==
    TypeOK' /\ steps' = steps + 1 /\ (Together => RegistersAreRight' /\ FlagsAreRight')

\* An instruction whose outcome is typed, and matches the processor's from the same
\* state, is right.
LEMMA StepIsRight ==
    ASSUME TypeOK, NEW out, NEW cpu, NEW instruction, Execute(out, cpu, instruction),
           Typed(out, cpu), Together => Match(out, cpu, instruction)
    PROVE  StepRight
<1>1. /\ last' = instruction
      /\ regs' = Apply(SetRegisterValue, regs, out.writes)
      /\ flags' = out.flags
      /\ cpuRegs' = IF "result" \in cpu.undefined THEN regs'
                    ELSE Apply(CpuWrite, cpuRegs, cpu.writes)
      /\ cpuFlags' = [f \in FlagNames |-> IF f \in cpu.undefined THEN flags'[f] ELSE cpu.flags[f]]
      /\ steps' = steps + 1 /\ steps < MaxSteps
  BY DEF Execute
<1>2. regs \in Files /\ cpuRegs \in Files /\ flags \in FlagSets /\ steps \in 0 .. MaxSteps
  BY DEF TypeOK
<1>3. regs' = Apply(CpuWrite, regs, out.writes) /\ regs' \in Files
  BY <1>1, <1>2, SameWrites DEF Typed
<1>4. Apply(CpuWrite, cpuRegs, cpu.writes) \in Files
  BY <1>2, CpuWritesType DEF Typed
<1>5. cpuRegs' \in Files
  BY <1>1, <1>3, <1>4
<1>6. flags' \in FlagSets
  BY <1>1 DEF Typed
<1>7. cpuFlags' \in FlagSets
  <2>1. \A f \in FlagNames : flags'[f] \in BOOLEAN /\ cpu.flags[f] \in BOOLEAN
    BY <1>6 DEF Typed, FlagSets
  <2>2. \A f \in FlagNames : (IF f \in cpu.undefined THEN flags'[f] ELSE cpu.flags[f]) \in BOOLEAN
    BY <2>1
  <2> QED
    BY <1>1, <2>2 DEF FlagSets
<1>8. TypeOK'
  BY <1>1, <1>2, <1>3, <1>5, <1>6, <1>7, DataAssumption DEF TypeOK
<1>9. ASSUME Together PROVE RegistersAreRight'
  <2>1. Match(out, cpu, instruction) /\ cpuRegs = regs
    BY <1>9 DEF Together
  <2>2. WrongResult' <=> instruction.name \in WrongNames
    BY <1>1 DEF WrongResult, WrongNames
  <2> QED
    BY <1>1, <1>3, <2>1, <2>2 DEF Match, RegistersAreRight
<1>10. ASSUME Together PROVE FlagsAreRight'
  <2>1. Agree(out.flags, cpu.flags, cpu.undefined, WrongOf(instruction))
    BY <1>10 DEF Match
  <2>2. WrongFlags' = WrongOf(instruction)
    BY <1>1 DEF WrongFlags, WrongOf
  <2>3. \A f \in FlagNames :
            cpuFlags'[f] = IF f \in cpu.undefined THEN flags'[f] ELSE cpu.flags[f]
    BY <1>1
  <2> QED
    BY <1>1, <2>1, <2>2, <2>3 DEF Agree, FlagsAreRight
<1> QED
  BY <1>1, <1>8, <1>9, <1>10 DEF StepRight

-----------------------------------------------------------------------------
(* Arithmetic and logic *)

\* The flags of sums, differences and logic are flags, and the results fit.
LEMMA CpuAddType ==
    ASSUME NEW w \in Widths, NEW L \in SUBSET Positions(w), NEW R \in SUBSET Positions(w),
           NEW c \in {0, 1}, NEW f \in FlagSets
    PROVE  /\ CpuAdd(w, L, R, c, f).result \in SUBSET Positions(w)
           /\ CpuAdd(w, L, R, c, f).flags \in FlagSets
<1> DEFINE sum == NatOf(L) + NatOf(R) + c
           base == ByResult(w, BitsOf(w, sum), f)
           cf == sum >= 2^w
           of == ~InRange(w, SignedOf(w, L) + SignedOf(w, R) + c)
           af == Nibble(L) + Nibble(R) + c >= 2^(ByteBits \div 2)
<1>1. /\ CpuAdd(w, L, R, c, f).result = BitsOf(w, sum)
      /\ CpuAdd(w, L, R, c, f).flags = [base EXCEPT !.CF = cf, !.OF = of, !.AF = af]
  BY DEF CpuAdd
<1>2. BitsOf(w, sum) \in SUBSET Positions(w)
  BY DEF BitsOf
<1>3. base \in FlagSets
  BY SignZeroParityType
<1>4. cf \in BOOLEAN /\ of \in BOOLEAN /\ af \in BOOLEAN
  OBVIOUS
<1> HIDE DEF base, cf, of, af, sum
<1>5. [base EXCEPT !.CF = cf, !.OF = of, !.AF = af] \in FlagSets
  BY <1>3, <1>4 DEF FlagSets, FlagNames
<1> QED
  BY <1>1, <1>2, <1>5

\* The processor's subtraction has a value of the width and flags.
LEMMA CpuSubType ==
    ASSUME NEW w \in Widths, NEW L \in SUBSET Positions(w), NEW R \in SUBSET Positions(w),
           NEW c \in {0, 1}, NEW f \in FlagSets
    PROVE  /\ CpuSub(w, L, R, c, f).result \in SUBSET Positions(w)
           /\ CpuSub(w, L, R, c, f).flags \in FlagSets
<1> DEFINE diff == NatOf(L) - NatOf(R) - c
           base == ByResult(w, BitsOf(w, diff), f)
           cf == diff < 0
           of == ~InRange(w, SignedOf(w, L) - SignedOf(w, R) - c)
           af == Nibble(L) < Nibble(R) + c
<1>1. /\ CpuSub(w, L, R, c, f).result = BitsOf(w, diff)
      /\ CpuSub(w, L, R, c, f).flags = [base EXCEPT !.CF = cf, !.OF = of, !.AF = af]
  BY DEF CpuSub
<1>2. BitsOf(w, diff) \in SUBSET Positions(w)
  BY DEF BitsOf
<1>3. base \in FlagSets
  BY SignZeroParityType
<1>4. cf \in BOOLEAN /\ of \in BOOLEAN /\ af \in BOOLEAN
  OBVIOUS
<1> HIDE DEF base, cf, of, af, diff
<1>5. [base EXCEPT !.CF = cf, !.OF = of, !.AF = af] \in FlagSets
  BY <1>3, <1>4 DEF FlagSets, FlagNames
<1> QED
  BY <1>1, <1>2, <1>5

\* The processor's logical operation has its value and flags.
LEMMA CpuLogicType ==
    ASSUME NEW w \in Widths, NEW v, NEW f \in FlagSets
    PROVE  CpuLogic(w, v, f).result = v /\ CpuLogic(w, v, f).flags \in FlagSets
<1> DEFINE base == ByResult(w, v, f)
<1>1. CpuLogic(w, v, f).result = v /\ CpuLogic(w, v, f).flags = [base EXCEPT !.CF = FALSE, !.OF = FALSE]
  BY DEF CpuLogic
<1>2. base \in FlagSets
  BY SignZeroParityType
<1> HIDE DEF base
<1> QED
  BY <1>1, <1>2, CarryAndOverflowType

ResultType(w, r) == r.result \in SUBSET Positions(w) /\ r.flags \in FlagSets

AluNames == {"add", "sub", "adc", "sbb", "and", "or", "xor", "andn"}

\* The eight operations of two operands: types, and the same outcome from the same flags.
LEMMA CpuAluType ==
    ASSUME NEW name \in AluNames, NEW w \in Widths, NEW L \in SUBSET Positions(w),
           NEW R \in SUBSET Positions(w), cpuFlags \in FlagSets
    PROVE  ResultType(w, CpuAlu(name, w, L, R))
<1> DEFINE carry == IF cpuFlags.CF THEN 1 ELSE 0
<1>1. carry \in {0, 1} /\ 0 \in {0, 1}
  OBVIOUS
<1>2. ResultType(w, CpuAdd(w, L, R, 0, cpuFlags)) /\ ResultType(w, CpuAdd(w, L, R, carry, cpuFlags))
  BY <1>1, CpuAddType DEF ResultType
<1>3. ResultType(w, CpuSub(w, L, R, 0, cpuFlags)) /\ ResultType(w, CpuSub(w, L, R, carry, cpuFlags))
  BY <1>1, CpuSubType DEF ResultType
<1>4. ASSUME NEW v \in SUBSET Positions(w)
      PROVE  ResultType(w, CpuLogic(w, v, cpuFlags))
  BY CpuLogicType DEF ResultType
<1>5. /\ {i \in L : i \in R} \in SUBSET Positions(w)
      /\ {i \in Positions(w) : i \in L \/ i \in R} \in SUBSET Positions(w)
      /\ {i \in Positions(w) : (i \in L) # (i \in R)} \in SUBSET Positions(w)
      /\ {i \in R : i \notin L} \in SUBSET Positions(w)
  OBVIOUS
<1> QED
  BY <1>2, <1>3, <1>4, <1>5 DEF CpuAlu, AluNames

\* Each of the eight handlers has the processor's outcome from the processor's flags.
LEMMA AluIsRight ==
    ASSUME NEW name \in AluNames, NEW w \in Widths, NEW L \in SUBSET Positions(w),
           NEW R \in SUBSET Positions(w), flags \in FlagSets
    PROVE  /\ ResultType(w, LiftAlu(name, w, L, R))
           /\ flags = cpuFlags => LiftAlu(name, w, L, R) = CpuAlu(name, w, L, R)
<1> DEFINE carry == IF flags.CF THEN 1 ELSE 0
           T(r) == r.result \in SUBSET Positions(w) /\ r.flags \in FlagSets
<1>1. carry \in {0, 1} /\ 0 \in {0, 1} /\ w \in Nat /\ w \in Nat \ {0} /\ w >= ByteBits
  BY WidthsAre
<1>2. /\ LiftAlu("add", w, L, R) = CpuAdd(w, L, R, 0, flags)
      /\ LiftAlu("sub", w, L, R) = CpuSub(w, L, R, 0, flags)
      /\ LiftAlu("adc", w, L, R) = CpuAdd(w, L, R, carry, flags)
      /\ LiftAlu("sbb", w, L, R) = CpuSub(w, L, R, carry, flags)
  BY <1>1, AddIsRight, SubIsRight, AdcIsRight, SbbIsRight DEF LiftAlu
<1>3. /\ LiftAlu("and", w, L, R) = CpuLogic(w, {i \in L : i \in R}, flags)
      /\ LiftAlu("or", w, L, R) = CpuLogic(w, {i \in Positions(w) : i \in L \/ i \in R}, flags)
      /\ LiftAlu("xor", w, L, R) = CpuLogic(w, {i \in Positions(w) : (i \in L) # (i \in R)}, flags)
      /\ LiftAlu("andn", w, L, R) = CpuLogic(w, {i \in R : i \notin L}, flags)
  <2>1. /\ LiftAlu("and", w, L, R) = Logic(w, L \intersect R, flags)
        /\ LiftAlu("or", w, L, R) = Logic(w, L \union R, flags)
        /\ LiftAlu("xor", w, L, R) = Logic(w, Xor(L, R), flags)
        /\ LiftAlu("andn", w, L, R) = Logic(w, Not(w, L) \intersect R, flags)
    BY DEF LiftAlu, lift_and, lift_or, lift_xor, lift_andn
  <2>2. \A v \in SUBSET Positions(w) : Logic(w, v, flags) = CpuLogic(w, v, flags)
    BY <1>1, LogicIsRight
  <2>3. /\ L \intersect R = {i \in L : i \in R}
        /\ L \union R = {i \in Positions(w) : i \in L \/ i \in R}
        /\ Xor(L, R) = {i \in Positions(w) : (i \in L) # (i \in R)}
        /\ Not(w, L) \intersect R = {i \in R : i \notin L}
        /\ L \intersect R \in SUBSET Positions(w) /\ L \union R \in SUBSET Positions(w)
        /\ Xor(L, R) \in SUBSET Positions(w)
        /\ Not(w, L) \intersect R \in SUBSET Positions(w)
    BY <1>1, LogicResults
  <2>4. /\ LiftAlu("and", w, L, R) = CpuLogic(w, L \intersect R, flags)
        /\ LiftAlu("or", w, L, R) = CpuLogic(w, L \union R, flags)
        /\ LiftAlu("xor", w, L, R) = CpuLogic(w, Xor(L, R), flags)
        /\ LiftAlu("andn", w, L, R) = CpuLogic(w, Not(w, L) \intersect R, flags)
    BY <2>1, <2>2, <2>3
  <2> QED
    BY <2>3, <2>4
<1>4. ASSUME NEW c \in {0, 1}
      PROVE  ResultType(w, CpuAdd(w, L, R, c, flags)) /\ ResultType(w, CpuSub(w, L, R, c, flags))
  BY CpuAddType, CpuSubType DEF ResultType
<1>5. ASSUME NEW v \in SUBSET Positions(w)
      PROVE  ResultType(w, CpuLogic(w, v, flags))
  BY CpuLogicType DEF ResultType
<1>6. /\ {i \in L : i \in R} \in SUBSET Positions(w)
      /\ {i \in Positions(w) : i \in L \/ i \in R} \in SUBSET Positions(w)
      /\ {i \in Positions(w) : (i \in L) # (i \in R)} \in SUBSET Positions(w)
      /\ {i \in R : i \notin L} \in SUBSET Positions(w)
  OBVIOUS
<1>7. ResultType(w, LiftAlu(name, w, L, R))
  BY <1>1, <1>2, <1>3, <1>4, <1>5, <1>6 DEF AluNames
<1>8. ASSUME flags = cpuFlags
      PROVE  LiftAlu(name, w, L, R) = CpuAlu(name, w, L, R)
  BY <1>2, <1>3, <1>8 DEF AluNames, CpuAlu
<1> QED
  BY <1>7, <1>8
----
\* One result written to one place, or none.
LEMMA LiftedIs ==
    ASSUME NEW w, NEW d, IsPlace(w, d), NEW r, ResultType(w, r)
    PROVE  IsWrites(Lifted(d, r).writes) /\ Lifted(d, r).flags \in FlagSets
<1>1. IsWrite(To(d, r.result))
  BY ToIs DEF ResultType
<1> QED
  BY <1>1 DEF Lifted, Outcome, IsWrites, ResultType

\* The processor writes one result.
LEMMA OnCpuIs ==
    ASSUME NEW d, NEW r, NEW undefined, r.flags \in FlagSets
    PROVE  FewWrites(OnCpu(d, r, undefined).writes) /\ OnCpu(d, r, undefined).flags \in FlagSets
  BY DEF OnCpu, Outcome, FewWrites

\* The same result and flags that agree match.
LEMMA OneResult ==
    ASSUME NEW d, NEW r, NEW c, NEW undefined, NEW instruction,
           "result" \in undefined \/ instruction.name \in WrongNames \/ r.result = c.result,
           Agree(r.flags, c.flags, undefined, WrongOf(instruction))
    PROVE  Match(Lifted(d, r), OnCpu(d, c, undefined), instruction)
  BY DEF Match, Lifted, OnCpu, Outcome

\* The same flags agree, whatever is undefined.
LEMMA SameAgrees ==
    ASSUME NEW f, NEW undefined, NEW wrong
    PROVE  Agree(f, f, undefined, wrong)
  BY DEF Agree

\* lift_add, lift_sub, lift_adc, lift_sbb, lift_and, lift_or and lift_xor are right
\* for every operand.
LEMMA AddSubLogicIsRight ==
    ASSUME TypeOK, AddSubLogic
    PROVE  StepRight
<1>1. PICK name \in {"add", "sub", "adc", "sbb", "and", "or", "xor"},
           d \in Dests(ByteBits) : \E s \in Sources(d) :
        LET w == Width(d.part)
            L == GetIndexValue(w, d)
            R == GetIndexValue(w, s)
        IN Execute(Lifted(d, LiftAlu(name, w, L, R)),
                   OnCpu(d, CpuAlu(name, w, CpuOperand(w, d), CpuOperand(w, s)),
                         AfUndefined(name)),
                   Instruction(name, w, L, R, 0))
  BY DEF AddSubLogic
<1>0. PICK s \in Sources(d) :
        LET w == Width(d.part)
            L == GetIndexValue(w, d)
            R == GetIndexValue(w, s)
        IN Execute(Lifted(d, LiftAlu(name, w, L, R)),
                   OnCpu(d, CpuAlu(name, w, CpuOperand(w, d), CpuOperand(w, s)),
                         AfUndefined(name)),
                   Instruction(name, w, L, R, 0))
  BY <1>1
<1> DEFINE w == Width(d.part)
           L == GetIndexValue(w, d)
           R == GetIndexValue(w, s)
           r == LiftAlu(name, w, L, R)
           c == CpuAlu(name, w, CpuOperand(w, d), CpuOperand(w, s))
           i == Instruction(name, w, L, R, 0)
<1>2. w \in Widths /\ IsPlace(w, d) /\ IsOperand(w, d) /\ IsOperand(w, s)
  BY Sizes8, DestIs, SourceIs
<1>3. /\ L \in SUBSET Positions(w) /\ R \in SUBSET Positions(w)
      /\ CpuOperand(w, d) \in SUBSET Positions(w) /\ CpuOperand(w, s) \in SUBSET Positions(w)
      /\ Together => CpuOperand(w, d) = L /\ CpuOperand(w, s) = R
  BY <1>2, OperandIs DEF Together
<1>4. name \in AluNames /\ flags \in FlagSets /\ cpuFlags \in FlagSets
  BY DEF AluNames, TypeOK
<1>5. Execute(Lifted(d, r), OnCpu(d, c, AfUndefined(name)), i)
  BY <1>0
<1> HIDE DEF w, L, R
<1>6. ResultType(w, r) /\ ResultType(w, c)
  BY <1>2, <1>3, <1>4, AluIsRight, CpuAluType
<1>7. Together => r = c
  BY <1>2, <1>3, <1>4, AluIsRight DEF Together
<1> HIDE DEF r, c, i
<1>8. Typed(Lifted(d, r), OnCpu(d, c, AfUndefined(name)))
  BY <1>2, <1>6, LiftedIs, OnCpuIs DEF Typed, ResultType
<1>9. Together => Match(Lifted(d, r), OnCpu(d, c, AfUndefined(name)), i)
  BY <1>7, OneResult, SameAgrees
<1> QED
  BY <1>5, <1>8, <1>9, StepIsRight

\* lift_andn is right for every operand.
LEMMA AndNotIsRight ==
    ASSUME TypeOK, AndNot
    PROVE  StepRight
<1>1. PICK d \in Dests(4 * ByteBits) :
        LET w == Width(d.part)
            L == GetRegisterValue(regs, "rcx", d.part)
            R == GetRegisterValue(regs, "rdx", d.part)
        IN Execute(Lifted(d, LiftAlu("andn", w, L, R)),
                   OnCpu(d, CpuAlu("andn", w, CpuRead(cpuRegs, "rcx", d.part),
                                   CpuRead(cpuRegs, "rdx", d.part)), {"AF"}),
                   Instruction("andn", w, L, R, 0))
  BY DEF AndNot
<1> DEFINE w == Width(d.part)
           L == GetRegisterValue(regs, "rcx", d.part)
           R == GetRegisterValue(regs, "rdx", d.part)
           cpuL == CpuRead(cpuRegs, "rcx", d.part)
           cpuR == CpuRead(cpuRegs, "rdx", d.part)
           r == LiftAlu("andn", w, L, R)
           c == CpuAlu("andn", w, cpuL, cpuR)
           i == Instruction("andn", w, L, R, 0)
<1>2. w \in Widths /\ IsPlace(w, d) /\ d.part \in Parts
  BY Sizes8, DestIs
<1>3. "rcx" \in Registers /\ "rdx" \in Registers /\ "andn" \in AluNames
  BY DEF Registers, AluNames
<1>4. /\ L \in SUBSET Positions(w) /\ R \in SUBSET Positions(w)
      /\ cpuL \in SUBSET Positions(w) /\ cpuR \in SUBSET Positions(w)
      /\ Together => cpuL = L /\ cpuR = R
  BY <1>2, <1>3, PartIs DEF Together
<1>5. Execute(Lifted(d, r), OnCpu(d, c, {"AF"}), i)
  BY <1>1
<1>6. flags \in FlagSets /\ cpuFlags \in FlagSets
  BY DEF TypeOK
<1> HIDE DEF w, L, R, cpuL, cpuR
<1>7. ResultType(w, r) /\ ResultType(w, c)
  BY <1>2, <1>3, <1>4, <1>6, AluIsRight, CpuAluType
<1>8. Together => r = c
  BY <1>2, <1>3, <1>4, <1>6, AluIsRight DEF Together
<1> HIDE DEF r, c, i
<1>9. Typed(Lifted(d, r), OnCpu(d, c, {"AF"}))
  BY <1>2, <1>7, LiftedIs, OnCpuIs DEF Typed, ResultType
<1>10. Together => Match(Lifted(d, r), OnCpu(d, c, {"AF"}), i)
  BY <1>8, OneResult, SameAgrees
<1> QED
  BY <1>5, <1>9, <1>10, StepIsRight

\* An instruction that writes no register: its flags are of the right type and agree.
LEMMA OnlyFlags ==
    ASSUME TypeOK, NEW f \in FlagSets, NEW g \in FlagSets, NEW undefined, NEW instruction,
           Execute(Outcome(<<>>, f, {}), Outcome(<<>>, g, undefined), instruction),
           Together => Agree(f, g, undefined, WrongOf(instruction))
    PROVE  StepRight
<1> DEFINE out == Outcome(<<>>, f, {})
           cpu == Outcome(<<>>, g, undefined)
<1>1. /\ out.writes = <<>> /\ out.flags = f
      /\ cpu.writes = <<>> /\ cpu.flags = g /\ cpu.undefined = undefined
  BY DEF Outcome
<1> HIDE DEF out, cpu
<1>2. Typed(out, cpu)
  BY <1>1 DEF Typed, IsWrites, FewWrites
<1>3. Together => Match(out, cpu, instruction)
  BY <1>1 DEF Match
<1> QED
  BY <1>2, <1>3, StepIsRight DEF out, cpu

\* lift_cmp and lift_test are right for every operand.
LEMMA CompareIsRight ==
    ASSUME TypeOK, Compare
    PROVE  StepRight
<1>1. PICK name \in {"cmp", "test"}, d \in Dests(ByteBits) : \E s \in Sources(d) :
        LET w == Width(d.part)
            L == GetIndexValue(w, d)
            R == GetIndexValue(w, s)
            cpu == CpuAlu(IF name = "cmp" THEN "sub" ELSE "and", w, CpuOperand(w, d),
                          CpuOperand(w, s))
        IN Execute(Outcome(<<>>, IF name = "cmp" THEN lift_cmp(w, L, R, flags)
                                 ELSE lift_test(w, L, R, flags), {}),
                   Outcome(<<>>, cpu.flags, AfUndefined(name)),
                   Instruction(name, w, L, R, 0))
  BY DEF Compare
<1>2. PICK s \in Sources(d) :
        LET w == Width(d.part)
            L == GetIndexValue(w, d)
            R == GetIndexValue(w, s)
            cpu == CpuAlu(IF name = "cmp" THEN "sub" ELSE "and", w, CpuOperand(w, d),
                          CpuOperand(w, s))
        IN Execute(Outcome(<<>>, IF name = "cmp" THEN lift_cmp(w, L, R, flags)
                                 ELSE lift_test(w, L, R, flags), {}),
                   Outcome(<<>>, cpu.flags, AfUndefined(name)),
                   Instruction(name, w, L, R, 0))
  BY <1>1
<1> DEFINE w == Width(d.part)
           L == GetIndexValue(w, d)
           R == GetIndexValue(w, s)
           op == IF name = "cmp" THEN "sub" ELSE "and"
           c == CpuAlu(op, w, CpuOperand(w, d), CpuOperand(w, s))
           f == IF name = "cmp" THEN lift_cmp(w, L, R, flags) ELSE lift_test(w, L, R, flags)
           i == Instruction(name, w, L, R, 0)
<1>3. w \in Widths /\ IsOperand(w, d) /\ IsOperand(w, s)
  BY Sizes8, DestIs, SourceIs
<1>4. /\ L \in SUBSET Positions(w) /\ R \in SUBSET Positions(w)
      /\ CpuOperand(w, d) \in SUBSET Positions(w) /\ CpuOperand(w, s) \in SUBSET Positions(w)
      /\ Together => CpuOperand(w, d) = L /\ CpuOperand(w, s) = R
  BY <1>3, OperandIs DEF Together
<1>5. op \in AluNames /\ flags \in FlagSets /\ cpuFlags \in FlagSets
  BY DEF AluNames, TypeOK
<1>6. Execute(Outcome(<<>>, f, {}), Outcome(<<>>, c.flags, AfUndefined(name)), i)
  BY <1>2
<1> HIDE DEF w, L, R, i
<1>7. f = LiftAlu(op, w, L, R).flags
  <2>1. w \in Nat /\ w >= ByteBits
    BY <1>3, WidthsAre
  <2>2. CASE name = "cmp"
    <3>1. f = lift_cmp(w, L, R, flags) /\ LiftAlu(op, w, L, R) = lift_sub(w, L, R, flags)
      BY <2>2 DEF LiftAlu
    <3> QED
      BY <1>4, <1>5, <2>1, <3>1, CmpIsRight, SubIsRight
  <2>3. CASE name = "test"
    BY <2>3 DEF LiftAlu, lift_test, lift_and
  <2> QED
    BY <2>2, <2>3
<1> HIDE DEF op, f
<1>8. ResultType(w, LiftAlu(op, w, L, R)) /\ ResultType(w, c)
  BY <1>3, <1>4, <1>5, AluIsRight, CpuAluType
<1>9. f \in FlagSets /\ c.flags \in FlagSets
  BY <1>7, <1>8 DEF ResultType
<1>10. Together => f = c.flags
  BY <1>3, <1>4, <1>5, <1>7, AluIsRight DEF Together
<1> HIDE DEF c
<1> QED
  BY <1>6, <1>9, <1>10, OnlyFlags, SameAgrees

\* The operations of one operand.
OneNames == {"inc", "dec", "neg", "not"}

\* A result with its carry replaced is a result.
LEMMA KeptType ==
    ASSUME NEW w, NEW r, ResultType(w, r), NEW c \in BOOLEAN, NEW v, NEW f, r = Result(v, f)
    PROVE  ResultType(w, [r EXCEPT !.flags = [@ EXCEPT !.CF = c]])
<1>1. r.flags \in FlagSets /\ r.result \in SUBSET Positions(w)
  BY DEF ResultType
<1>2. [r.flags EXCEPT !.CF = c] \in FlagSets
  BY <1>1 DEF FlagSets, FlagNames
<1>3. [r EXCEPT !.flags = [@ EXCEPT !.CF = c]] = Result(v, [r.flags EXCEPT !.CF = c])
  BY DEF Result
<1> QED
  BY <1>1, <1>2, <1>3 DEF Result, ResultType

\* lift_inc, lift_dec, lift_neg and lift_not have the processor's outcome.
LEMMA OneIsRight ==
    ASSUME NEW name \in OneNames, NEW w \in Widths, NEW L \in SUBSET Positions(w),
           NEW K \in SUBSET Positions(w), flags \in FlagSets, cpuFlags \in FlagSets
    PROVE  /\ ResultType(w, LiftOne(name, w, L)) /\ ResultType(w, CpuOne(name, w, K))
           /\ flags = cpuFlags => LiftOne(name, w, L) = CpuOne(name, w, L)
<1>1. /\ w \in Nat /\ w \in Nat \ {0} /\ w >= ByteBits
      /\ {0} \in SUBSET Positions(w) /\ {} \in SUBSET Positions(w) /\ 0 \in {0, 1}
  BY WidthsAre, OneBit
<1>2. ASSUME NEW f \in FlagSets, NEW v \in SUBSET Positions(w)
      PROVE  /\ ResultType(w, [CpuAdd(w, v, {0}, 0, f) EXCEPT !.flags = [@ EXCEPT !.CF = f.CF]])
             /\ ResultType(w, [CpuSub(w, v, {0}, 0, f) EXCEPT !.flags = [@ EXCEPT !.CF = f.CF]])
             /\ ResultType(w, CpuSub(w, {}, v, 0, f))
             /\ ResultType(w, Result(BitsOf(w, -1 - NatOf(v)), f))
  <2>1. /\ ResultType(w, CpuAdd(w, v, {0}, 0, f)) /\ ResultType(w, CpuSub(w, v, {0}, 0, f))
        /\ ResultType(w, CpuSub(w, {}, v, 0, f))
    BY <1>1, CpuAddType, CpuSubType DEF ResultType
  <2>2. f.CF \in BOOLEAN
    BY DEF FlagSets, FlagNames
  <2>3. /\ CpuAdd(w, v, {0}, 0, f) = Result(CpuAdd(w, v, {0}, 0, f).result, CpuAdd(w, v, {0}, 0, f).flags)
        /\ CpuSub(w, v, {0}, 0, f) = Result(CpuSub(w, v, {0}, 0, f).result, CpuSub(w, v, {0}, 0, f).flags)
    BY DEF CpuAdd, CpuSub, Result
  <2>4. ResultType(w, Result(BitsOf(w, -1 - NatOf(v)), f))
    BY DEF ResultType, Result, BitsOf
  <2>5. ResultType(w, [CpuAdd(w, v, {0}, 0, f) EXCEPT !.flags = [@ EXCEPT !.CF = f.CF]])
    BY <2>1, <2>2, <2>3, KeptType
  <2>6. ResultType(w, [CpuSub(w, v, {0}, 0, f) EXCEPT !.flags = [@ EXCEPT !.CF = f.CF]])
    BY <2>1, <2>2, <2>3, KeptType
  <2> QED
    BY <2>1, <2>4, <2>5, <2>6
<1>3. /\ LiftOne("inc", w, L)
            = [CpuAdd(w, L, {0}, 0, flags) EXCEPT !.flags = [@ EXCEPT !.CF = flags.CF]]
      /\ LiftOne("dec", w, L)
            = [CpuSub(w, L, {0}, 0, flags) EXCEPT !.flags = [@ EXCEPT !.CF = flags.CF]]
      /\ LiftOne("neg", w, L) = CpuSub(w, {}, L, 0, flags)
      /\ LiftOne("not", w, L) = Result(BitsOf(w, -1 - NatOf(L)), flags)
  <2>1. /\ LiftOne("inc", w, L) = lift_inc(w, L, flags) /\ LiftOne("dec", w, L) = lift_dec(w, L, flags)
        /\ LiftOne("neg", w, L) = lift_neg(w, L, flags) /\ LiftOne("not", w, L) = lift_not(w, L, flags)
    BY DEF LiftOne
  <2>2. lift_inc(w, L, flags)
            = [CpuAdd(w, L, {0}, 0, flags) EXCEPT !.flags = [@ EXCEPT !.CF = flags.CF]]
    BY <1>1, IncIsRight
  <2>3. lift_dec(w, L, flags)
            = [CpuSub(w, L, {0}, 0, flags) EXCEPT !.flags = [@ EXCEPT !.CF = flags.CF]]
    BY <1>1, DecIsRight
  <2>4. lift_neg(w, L, flags) = CpuSub(w, {}, L, 0, flags)
    BY <1>1, NegIsRight
  <2>5. lift_not(w, L, flags) = Result(BitsOf(w, -1 - NatOf(L)), flags)
    BY <1>1, NotIsRight
  <2> QED
    BY <2>1, <2>2, <2>3, <2>4, <2>5
<1>4. \A v : /\ CpuOne("inc", w, v)
                    = [CpuAdd(w, v, {0}, 0, cpuFlags) EXCEPT !.flags = [@ EXCEPT !.CF = cpuFlags.CF]]
             /\ CpuOne("dec", w, v)
                    = [CpuSub(w, v, {0}, 0, cpuFlags) EXCEPT !.flags = [@ EXCEPT !.CF = cpuFlags.CF]]
             /\ CpuOne("neg", w, v) = CpuSub(w, {}, v, 0, cpuFlags)
             /\ CpuOne("not", w, v) = Result(BitsOf(w, -1 - NatOf(v)), cpuFlags)
  BY DEF CpuOne, KeepCarry
<1>5. ResultType(w, LiftOne(name, w, L))
  <2>1. ResultType(w, LiftOne("inc", w, L))
    BY <1>2, <1>3
  <2>2. ResultType(w, LiftOne("dec", w, L))
    BY <1>2, <1>3
  <2>3. ResultType(w, LiftOne("neg", w, L)) /\ ResultType(w, LiftOne("not", w, L))
    BY <1>2, <1>3
  <2> QED
    BY <2>1, <2>2, <2>3 DEF OneNames
<1>6. ResultType(w, CpuOne(name, w, K))
  <2>1. ResultType(w, CpuOne("inc", w, K))
    <3>1. ResultType(w, [CpuAdd(w, K, {0}, 0, cpuFlags) EXCEPT !.flags = [@ EXCEPT !.CF = cpuFlags.CF]])
      BY <1>2
    <3>2. CpuOne("inc", w, K)
            = [CpuAdd(w, K, {0}, 0, cpuFlags) EXCEPT !.flags = [@ EXCEPT !.CF = cpuFlags.CF]]
      BY DEF CpuOne, KeepCarry
    <3> QED
      BY <3>1, <3>2
  <2>2. ResultType(w, CpuOne("dec", w, K))
    <3>1. ResultType(w, [CpuSub(w, K, {0}, 0, cpuFlags) EXCEPT !.flags = [@ EXCEPT !.CF = cpuFlags.CF]])
      BY <1>2
    <3>2. CpuOne("dec", w, K)
            = [CpuSub(w, K, {0}, 0, cpuFlags) EXCEPT !.flags = [@ EXCEPT !.CF = cpuFlags.CF]]
      BY DEF CpuOne, KeepCarry
    <3> QED
      BY <3>1, <3>2
  <2>3. ResultType(w, CpuOne("neg", w, K)) /\ ResultType(w, CpuOne("not", w, K))
    <3>1. /\ ResultType(w, CpuSub(w, {}, K, 0, cpuFlags))
          /\ ResultType(w, Result(BitsOf(w, -1 - NatOf(K)), cpuFlags))
      BY <1>2
    <3>2. /\ CpuOne("neg", w, K) = CpuSub(w, {}, K, 0, cpuFlags)
          /\ CpuOne("not", w, K) = Result(BitsOf(w, -1 - NatOf(K)), cpuFlags)
      BY DEF CpuOne, KeepCarry
    <3> QED
      BY <3>1, <3>2
  <2> QED
    BY <2>1, <2>2, <2>3 DEF OneNames
<1>7. ASSUME flags = cpuFlags PROVE LiftOne(name, w, L) = CpuOne(name, w, L)
  BY <1>3, <1>4, <1>7 DEF OneNames
<1> QED
  BY <1>5, <1>6, <1>7

\* The instructions of one operand are right.
LEMMA OneOperandIsRight ==
    ASSUME TypeOK, OneOperand
    PROVE  StepRight
<1>1. PICK name \in {"inc", "dec", "neg", "not"}, d \in Dests(ByteBits) :
        LET w == Width(d.part)
            L == GetIndexValue(w, d)
        IN Execute(Lifted(d, LiftOne(name, w, L)),
                   OnCpu(d, CpuOne(name, w, CpuOperand(w, d)), {}),
                   Instruction(name, w, L, {}, 0))
  BY DEF OneOperand
<1> DEFINE w == Width(d.part)
           L == GetIndexValue(w, d)
           K == CpuOperand(w, d)
           r == LiftOne(name, w, L)
           c == CpuOne(name, w, K)
           i == Instruction(name, w, L, {}, 0)
<1>2. w \in Widths /\ IsPlace(w, d) /\ IsOperand(w, d)
  BY Sizes8, DestIs
<1>3. /\ L \in SUBSET Positions(w) /\ K \in SUBSET Positions(w) /\ (Together => K = L)
  BY <1>2, OperandIs DEF Together
<1>4. name \in OneNames /\ flags \in FlagSets /\ cpuFlags \in FlagSets
  BY DEF OneNames, TypeOK
<1>5. Execute(Lifted(d, r), OnCpu(d, c, {}), i)
  BY <1>1
<1> HIDE DEF w, L, K
<1>6. ResultType(w, r) /\ ResultType(w, c)
  BY <1>2, <1>3, <1>4, OneIsRight
<1>7. Together => r = c
  BY <1>2, <1>3, <1>4, OneIsRight DEF Together
<1> HIDE DEF r, c, i
<1>8. Typed(Lifted(d, r), OnCpu(d, c, {}))
  BY <1>2, <1>6, LiftedIs, OnCpuIs DEF Typed, ResultType
<1>9. Together => Match(Lifted(d, r), OnCpu(d, c, {}), i)
  BY <1>7, OneResult, SameAgrees
<1> QED
  BY <1>5, <1>8, <1>9, StepIsRight

-----------------------------------------------------------------------------
(* Exchanges *)

\* What a write leaves of a register.
Written(old, part, value) ==
    {i \in Positions(QwordBits) :
        LET j == i - First(part)
        IN IF j \in Positions(Width(part)) THEN j \in value
           ELSE part # "dword" /\ i \in old}

\* The processor's write replaces one register by what Written leaves of it.
LEMMA WrittenIs ==
    ASSUME NEW file \in Files, NEW wr, IsWrite(wr)
    PROVE  CpuWrite(file, wr) = [file EXCEPT ![wr.reg] = Written(file[wr.reg], wr.part, wr.value)]
  BY DEF CpuWrite, Written

\* The two low bytes of a register are written in either order.
LEMMA BytesCommute ==
    ASSUME NEW old \in SUBSET Positions(QwordBits), NEW u, NEW v
    PROVE  Written(Written(old, "low", u), "high", v) = Written(Written(old, "high", v), "low", u)
<1> DEFINE both == {i \in Positions(QwordBits) :
                      IF i \in Positions(ByteBits) THEN i \in u
                      ELSE IF i - ByteBits \in Positions(ByteBits) THEN i - ByteBits \in v
                      ELSE i \in old}
<1>1. \A o : Written(o, "low", u) = {i \in Positions(QwordBits) :
                                        IF i \in Positions(ByteBits) THEN i \in u ELSE i \in o}
  <2>1. First("low") = 0 /\ Width("low") = ByteBits
    BY Sizes8 DEF Parts
  <2>2. \A i \in Positions(QwordBits) : i - 0 = i
    BY WidthsAre DEF Positions
  <2> QED
    BY <2>1, <2>2 DEF Written
<1>2. \A o : Written(o, "high", v)
            = {i \in Positions(QwordBits) :
                 IF i - ByteBits \in Positions(ByteBits) THEN i - ByteBits \in v ELSE i \in o}
  BY Sizes8 DEF Written
<1>3. \A i \in Positions(QwordBits) :
            i \in Positions(ByteBits) => i - ByteBits \notin Positions(ByteBits)
  BY Sizes8 DEF Positions
<1>4. Written(Written(old, "low", u), "high", v) = both
  BY <1>1, <1>2, <1>3
<1>5. Written(Written(old, "high", v), "low", u) = both
  BY <1>1, <1>2, <1>3
<1> QED
  BY <1>4, <1>5

\* Two places no bit is in both of.
Apart(a, b) == a.reg # b.reg \/ {a.part, b.part} = {"low", "high"}

\* Registers replaced one after the other.
LEMMA Replaced ==
    ASSUME NEW file \in Files, NEW x \in Registers, NEW y \in Registers, NEW u, NEW v
    PROVE  /\ [file EXCEPT ![x] = u][x] = u
           /\ x # y => /\ [file EXCEPT ![x] = u][y] = file[y]
                       /\ [[file EXCEPT ![x] = u] EXCEPT ![y] = v]
                            = [[file EXCEPT ![y] = v] EXCEPT ![x] = u]
           /\ [[file EXCEPT ![x] = u] EXCEPT ![x] = v] = [file EXCEPT ![x] = v]
  BY DEF Files

\* Writes to two registers, or to the two low bytes of one, can be made in either
\* order.
LEMMA WritesCommute ==
    ASSUME NEW file \in Files, NEW a, NEW b, IsWrite(a), IsWrite(b), Apart(a, b)
    PROVE  CpuWrite(CpuWrite(file, a), b) = CpuWrite(CpuWrite(file, b), a)
<1>1. CpuWrite(file, a) \in Files /\ CpuWrite(file, b) \in Files
  BY CpuWriteType
<1>2. /\ CpuWrite(file, a) = [file EXCEPT ![a.reg] = Written(file[a.reg], a.part, a.value)]
      /\ CpuWrite(file, b) = [file EXCEPT ![b.reg] = Written(file[b.reg], b.part, b.value)]
  BY WrittenIs
<1>3. /\ CpuWrite(CpuWrite(file, a), b)
            = [CpuWrite(file, a) EXCEPT ![b.reg] = Written(CpuWrite(file, a)[b.reg], b.part, b.value)]
      /\ CpuWrite(CpuWrite(file, b), a)
            = [CpuWrite(file, b) EXCEPT ![a.reg] = Written(CpuWrite(file, b)[a.reg], a.part, a.value)]
  BY <1>1, WrittenIs
<1>4. a.reg \in Registers /\ b.reg \in Registers
  BY DEF IsWrite
<1> DEFINE A(old) == Written(old, a.part, a.value)
           B(old) == Written(old, b.part, b.value)
<1> HIDE DEF A, B
<1>5. CASE a.reg # b.reg
  <2>1. /\ CpuWrite(file, a)[b.reg] = file[b.reg]
        /\ CpuWrite(file, b)[a.reg] = file[a.reg]
    BY <1>2, <1>4, <1>5, Replaced
  <2>2. /\ CpuWrite(CpuWrite(file, a), b)
                = [[file EXCEPT ![a.reg] = A(file[a.reg])] EXCEPT ![b.reg] = B(file[b.reg])]
        /\ CpuWrite(CpuWrite(file, b), a)
                = [[file EXCEPT ![b.reg] = B(file[b.reg])] EXCEPT ![a.reg] = A(file[a.reg])]
    BY <1>2, <1>3, <2>1 DEF A, B
  <2> DEFINE u == A(file[a.reg])
             v == B(file[b.reg])
  <2> HIDE DEF u, v
  <2>3. [[file EXCEPT ![a.reg] = u] EXCEPT ![b.reg] = v]
            = [[file EXCEPT ![b.reg] = v] EXCEPT ![a.reg] = u]
    BY <1>4, <1>5 DEF Files
  <2> QED
    BY <2>2, <2>3 DEF u, v
<1>6. CASE a.reg = b.reg /\ {a.part, b.part} = {"low", "high"}
  <2>1. (a.part = "low" /\ b.part = "high") \/ (a.part = "high" /\ b.part = "low")
    <3>1. /\ a.part = "low" \/ a.part = "high"
          /\ b.part = "low" \/ b.part = "high"
          /\ "low" \in {a.part, b.part} /\ "high" \in {a.part, b.part}
      BY <1>6
    <3> QED
      BY <3>1
  <2>2. B(A(file[a.reg])) = A(B(file[a.reg]))
    BY <1>4, <2>1, BytesCommute DEF Files, A, B
  <2>3. /\ CpuWrite(file, a)[a.reg] = A(file[a.reg])
        /\ CpuWrite(file, b)[a.reg] = B(file[a.reg])
    BY <1>2, <1>4, <1>6, Replaced DEF A, B
  <2>4. /\ CpuWrite(CpuWrite(file, a), b)
                = [[file EXCEPT ![a.reg] = A(file[a.reg])] EXCEPT ![a.reg] = B(A(file[a.reg]))]
        /\ CpuWrite(CpuWrite(file, b), a)
                = [[file EXCEPT ![a.reg] = B(file[a.reg])] EXCEPT ![a.reg] = A(B(file[a.reg]))]
    BY <1>2, <1>3, <1>6, <2>3 DEF A, B
  <2> QED
    BY <1>4, <2>2, <2>4, Replaced
<1> QED
  BY <1>5, <1>6 DEF Apart

\* Another source register shares no bit with the destination.
LEMMA SourceApart ==
    ASSUME NEW d \in Dests(ByteBits), NEW s \in SourceRegisters(d), s # d
    PROVE  Apart(d, s)
<1>1. d = RegisterOperand("rax", d.part) /\ d.reg = "rax" /\ d.part \in Parts
  BY DestIs, Sizes8
<1>2. s = RegisterOperand("rcx", d.part)
        \/ (d.part = "low" /\ s = RegisterOperand("rax", "high"))
        \/ (d.part = "high" /\ s = RegisterOperand("rax", "low"))
  BY <1>1 DEF SourceRegisters
<1>3. s = RegisterOperand("rcx", d.part) => s.reg = "rcx"
  BY DEF RegisterOperand
<1>4. \A p : RegisterOperand("rax", p).part = p
  BY DEF RegisterOperand
<1> QED
  BY <1>1, <1>2, <1>3, <1>4 DEF Apart

\* Two results written to two places.
LEMMA TwoWrites ==
    ASSUME NEW w, NEW v, NEW d, NEW s, IsPlace(w, d), IsPlace(v, s),
           NEW x \in SUBSET Positions(w), NEW y \in SUBSET Positions(v)
    PROVE  IsWrites(<<To(d, x), To(s, y)>>)
<1>1. IsWrite(To(d, x)) /\ IsWrite(To(s, y))
  BY ToIs
<1> QED
  BY <1>1 DEF IsWrites

\* Two results written to places apart, in either order.
LEMMA EitherOrder ==
    ASSUME NEW w, NEW v, NEW d, NEW s, IsPlace(w, d), IsPlace(v, s), Apart(d, s),
           NEW x \in SUBSET Positions(w), NEW y \in SUBSET Positions(v), regs \in Files
    PROVE  CpuTwice(regs, To(d, x), To(s, y)) = CpuTwice(regs, To(s, y), To(d, x))
<1>1. IsWrite(To(d, x)) /\ IsWrite(To(s, y))
  BY ToIs
<1>2. Apart(To(d, x), To(s, y))
  BY DEF Apart, To, Write
<1> QED
  BY <1>1, <1>2, WritesCommute DEF CpuTwice

\* lift_xadd writes sum and old value in the processor's order, but for a register
\* added to itself.
LEMMA ExchangeAddIsRight ==
    ASSUME TypeOK, ExchangeAdd
    PROVE  StepRight
<1>1. PICK d \in Dests(ByteBits) : \E s \in SourceRegisters(d) :
        LET w == Width(d.part)
            L == GetIndexValue(w, d)
            R == GetIndexValue(w, s)
            r == lift_xadd(w, L, R, flags)
            c == CpuAdd(w, CpuOperand(w, d), CpuOperand(w, s), 0, cpuFlags)
        IN Execute(Outcome(<<To(d, r.result), To(s, L)>>, r.flags, {}),
                   Outcome(<<To(s, CpuOperand(w, d)), To(d, c.result)>>, c.flags, {}),
                   Instruction(IF s = d THEN "xadd_same" ELSE "xadd", w, L, R, 0))
  BY DEF ExchangeAdd
<1>2. PICK s \in SourceRegisters(d) :
        LET w == Width(d.part)
            L == GetIndexValue(w, d)
            R == GetIndexValue(w, s)
            r == lift_xadd(w, L, R, flags)
            c == CpuAdd(w, CpuOperand(w, d), CpuOperand(w, s), 0, cpuFlags)
        IN Execute(Outcome(<<To(d, r.result), To(s, L)>>, r.flags, {}),
                   Outcome(<<To(s, CpuOperand(w, d)), To(d, c.result)>>, c.flags, {}),
                   Instruction(IF s = d THEN "xadd_same" ELSE "xadd", w, L, R, 0))
  BY <1>1
<1> DEFINE w == Width(d.part)
           L == GetIndexValue(w, d)
           R == GetIndexValue(w, s)
           K == CpuOperand(w, d)
           r == lift_xadd(w, L, R, flags)
           c == CpuAdd(w, K, CpuOperand(w, s), 0, cpuFlags)
           i == Instruction(IF s = d THEN "xadd_same" ELSE "xadd", w, L, R, 0)
           out == Outcome(<<To(d, r.result), To(s, L)>>, r.flags, {})
           cpu == Outcome(<<To(s, K), To(d, c.result)>>, c.flags, {})
<1>3. /\ w \in Widths /\ IsPlace(w, d) /\ IsOperand(w, d) /\ IsPlace(w, s) /\ IsOperand(w, s)
      /\ w \in Nat /\ w >= ByteBits /\ 0 \in {0, 1}
  BY Sizes8, DestIs, SourceRegisterIs, WidthsAre DEF IsOperand
<1>4. /\ L \in SUBSET Positions(w) /\ R \in SUBSET Positions(w)
      /\ K \in SUBSET Positions(w) /\ CpuOperand(w, s) \in SUBSET Positions(w)
      /\ Together => K = L /\ CpuOperand(w, s) = R
  BY <1>3, OperandIs DEF Together
<1>5. flags \in FlagSets /\ cpuFlags \in FlagSets /\ regs \in Files
  BY DEF TypeOK
<1>6. Execute(out, cpu, i)
  BY <1>2
<1>7. s # d => Apart(d, s)
  BY SourceApart
<1>8. s = d => i.name = "xadd_same"
  BY DEF Instruction
<1> HIDE DEF w, L, R, K, i
<1>9. r = CpuAdd(w, L, R, 0, flags)
  BY <1>3, <1>4, <1>5, XaddIsRight
<1>10. ResultType(w, r) /\ ResultType(w, c)
  BY <1>3, <1>4, <1>5, <1>9, CpuAddType DEF ResultType
<1>11. Together => r = c /\ K = L
  BY <1>4, <1>9 DEF Together
<1> HIDE DEF r, c
<1>12. /\ out.writes = <<To(d, r.result), To(s, L)>> /\ out.flags = r.flags
       /\ cpu.writes = <<To(s, K), To(d, c.result)>> /\ cpu.flags = c.flags
  BY DEF Outcome
<1> HIDE DEF out, cpu
<1>13. IsWrites(out.writes) /\ FewWrites(cpu.writes)
  <2>1. r.result \in SUBSET Positions(w)
    BY <1>10 DEF ResultType
  <2>2. IsWrites(<<To(d, r.result), To(s, L)>>)
    BY <1>3, <1>4, <2>1, TwoWrites
  <2> QED
    BY <1>12, <2>2 DEF FewWrites
<1>14. Typed(out, cpu)
  BY <1>10, <1>12, <1>13 DEF Typed, ResultType
<1>15. ASSUME Together
       PROVE  Match(out, cpu, i)
  <2>1. out.flags = cpu.flags
    BY <1>11, <1>12, <1>15
  <2>2. CASE s = d
    BY <1>8, <2>1, <2>2, SameAgrees DEF Match, WrongNames
  <2>3. CASE s # d
    <3>1. Apply(CpuWrite, regs, <<To(d, r.result), To(s, L)>>)
              = Apply(CpuWrite, regs, <<To(s, L), To(d, r.result)>>)
      <4>1. r.result \in SUBSET Positions(w)
        BY <1>10 DEF ResultType
      <4>2. CpuTwice(regs, To(d, r.result), To(s, L)) = CpuTwice(regs, To(s, L), To(d, r.result))
        BY <1>3, <1>4, <1>5, <1>7, <2>3, <4>1, EitherOrder
      <4>3. /\ Apply(CpuWrite, regs, <<To(d, r.result), To(s, L)>>)
                    = CpuTwice(regs, To(d, r.result), To(s, L))
            /\ Apply(CpuWrite, regs, <<To(s, L), To(d, r.result)>>)
                    = CpuTwice(regs, To(s, L), To(d, r.result))
        BY CpuTwoWrites
      <4> QED
        BY <4>2, <4>3
    <3>2. cpu.writes = <<To(s, L), To(d, r.result)>>
      BY <1>11, <1>12, <1>15
    <3> QED
      BY <1>12, <2>1, <3>1, <3>2, SameAgrees DEF Match
  <2> QED
    BY <2>2, <2>3
<1> QED
  BY <1>6, <1>14, <1>15, StepIsRight

\* The accumulator is compared with the destination.  The results differ (the upper
\* half of the accumulator), and PF, which no code sets.
LEMMA CompareExchangeIsRight ==
    ASSUME TypeOK, CompareExchange
    PROVE  StepRight
<1>1. PICK d \in {RegisterOperand("rcx", p) : p \in Parts} :
        LET w == Width(d.part)
            acc == RegisterOperand("rax", PartOfSize(w))
            L == GetIndexValue(w, d)
            R == GetRegisterValue(regs, "rdx", PartOfSize(w))
            accum == GetIndexValue(w, acc)
            zf == accum = L
            cpuL == CpuOperand(w, d)
            equal == CpuOperand(w, acc) = cpuL
        IN Execute(Outcome(<<To(acc, Pick(zf, accum, L)), To(d, Pick(zf, R, L))>>,
                           CmpxchgFlags(w, accum, L, flags), {}),
                   Outcome(IF equal THEN <<To(d, CpuRead(cpuRegs, "rdx", PartOfSize(w)))>>
                                    ELSE <<To(acc, cpuL)>>,
                           CpuSub(w, CpuOperand(w, acc), cpuL, 0, cpuFlags).flags, {}),
                   Instruction("cmpxchg", w, L, R, 0))
  BY DEF CompareExchange
<1> DEFINE w == Width(d.part)
           part == PartOfSize(w)
           acc == RegisterOperand("rax", part)
           L == GetIndexValue(w, d)
           R == GetRegisterValue(regs, "rdx", part)
           accum == GetIndexValue(w, acc)
           zf == accum = L
           cpuL == CpuOperand(w, d)
           cpuAccum == CpuOperand(w, acc)
           u == Pick(zf, accum, L)
           v == Pick(zf, R, L)
           f == CmpxchgFlags(w, accum, L, flags)
           g == CpuSub(w, cpuAccum, cpuL, 0, cpuFlags).flags
           writes == IF cpuAccum = cpuL THEN <<To(d, CpuRead(cpuRegs, "rdx", part))>>
                     ELSE <<To(acc, cpuL)>>
           out == Outcome(<<To(acc, u), To(d, v)>>, f, {})
           cpu == Outcome(writes, g, {})
           i == Instruction("cmpxchg", w, L, R, 0)
<1>2. Execute(out, cpu, i)
  BY <1>1
<1>3. i.name = "cmpxchg" /\ WrongOf(i) = {"PF"}
  BY DEF Instruction, WrongOf
<1>4. "rax" \in Registers /\ "rcx" \in Registers /\ "rdx" \in Registers
  BY DEF Registers
<1>5. PICK p \in Parts : d = RegisterOperand("rcx", p)
  OBVIOUS
<1>6. w \in Widths /\ IsPlace(w, d) /\ IsOperand(w, d)
  BY <1>4, <1>5, RegisterPlace, WidthsAre
<1>7. part \in Parts /\ Width(part) = w
  BY <1>6, PartOfSizeIs
<1>8. IsPlace(w, acc) /\ IsOperand(w, acc)
  BY <1>4, <1>7, RegisterPlace
<1>9. /\ L \in SUBSET Positions(w) /\ accum \in SUBSET Positions(w)
      /\ cpuL \in SUBSET Positions(w) /\ cpuAccum \in SUBSET Positions(w)
      /\ Together => cpuL = L /\ cpuAccum = accum
  BY <1>6, <1>8, OperandIs DEF Together
<1>10. R \in SUBSET Positions(w)
  BY <1>4, <1>7, PartIs
<1>11. w \in Nat /\ w >= ByteBits /\ 0 \in {0, 1} /\ flags \in FlagSets /\ cpuFlags \in FlagSets
  BY <1>6, WidthsAre DEF TypeOK
<1> HIDE DEF w, part, acc, L, R, accum, cpuL, cpuAccum, i
<1>12. f \in FlagSets /\ g \in FlagSets
  BY <1>6, <1>9, <1>11, CmpxchgIsRight, CpuSubType
<1>13. u \in SUBSET Positions(w) /\ v \in SUBSET Positions(w)
  BY <1>9, <1>10 DEF Pick
<1>14. FewWrites(writes)
  BY DEF FewWrites
<1>15. ASSUME Together
       PROVE  Agree(f, g, {}, {"PF"})
  <2>1. \A h \in FlagNames \ {"PF"} : f[h] = CpuSub(w, accum, L, 0, flags).flags[h]
    BY <1>9, <1>11, CmpxchgIsRight
  <2>2. g = CpuSub(w, accum, L, 0, flags).flags
    BY <1>9, <1>15 DEF Together
  <2> QED
    BY <2>1, <2>2 DEF Agree
<1> HIDE DEF u, v, f, g, writes
<1>16. /\ out.writes = <<To(acc, u), To(d, v)>> /\ out.flags = f
       /\ cpu.writes = writes /\ cpu.flags = g /\ cpu.undefined = {}
  BY DEF Outcome
<1> HIDE DEF out, cpu
<1>17. IsWrites(<<To(acc, u), To(d, v)>>)
  BY <1>6, <1>8, <1>13, TwoWrites
<1>18. Typed(out, cpu)
  BY <1>12, <1>14, <1>16, <1>17 DEF Typed
<1>19. Together => Match(out, cpu, i)
  BY <1>3, <1>15, <1>16 DEF Match, WrongNames
<1> QED
  BY <1>2, <1>18, <1>19, StepIsRight

-----------------------------------------------------------------------------
(* Shifts *)

\* A count is a value of a register's width.
LEMMA CountIs ==
    ASSUME NEW n
    PROVE  CountOf(n) \in SUBSET Positions(QwordBits)
  BY DEF CountOf, BitsOf

\* The seven shifts and rotations are right for every operand and count.
LEMMA ShiftRotateIsRight ==
    ASSUME TypeOK, ShiftRotate
    PROVE  StepRight
<1>1. PICK op \in Shifts \union Rotates, d \in Dests(ByteBits), n \in Counts :
        LET w == Width(d.part)
            L == GetIndexValue(w, d)
            c == CpuShift(op, w, CpuOperand(w, d), CountOf(n), cpuFlags)
        IN Execute(Lifted(d, LiftShift(op, w, L, CountOf(n))), OnCpu(d, c, c.undefined),
                   Instruction(op, w, L, {}, Masked(w, CountOf(n))))
  BY DEF ShiftRotate
<1> DEFINE w == Width(d.part)
           L == GetIndexValue(w, d)
           K == CpuOperand(w, d)
           count == CountOf(n)
           r == LiftShift(op, w, L, count)
           c == CpuShift(op, w, K, count, cpuFlags)
           i == Instruction(op, w, L, {}, Masked(w, count))
           j == Instruction(op, w, K, {}, Masked(w, count))
<1>2. w \in Widths /\ IsPlace(w, d) /\ IsOperand(w, d) /\ w \in Nat \ {0, 1}
  BY Sizes8, DestIs, WidthsAre
<1>3. /\ L \in SUBSET Positions(w) /\ K \in SUBSET Positions(w) /\ (Together => K = L)
  BY <1>2, OperandIs DEF Together
<1>4. flags \in FlagSets /\ cpuFlags \in FlagSets /\ count \in SUBSET Positions(QwordBits)
  BY CountIs DEF TypeOK
<1>5. Execute(Lifted(d, r), OnCpu(d, c, c.undefined), i)
  BY <1>1
<1> HIDE DEF w, L, K, count
<1>6. ResultType(w, r)
  BY <1>2, <1>3, <1>4, ShiftAgrees DEF ResultType
<1>7. c.flags \in FlagSets
  BY <1>2, <1>3, <1>4, CpuShiftType
<1>8. ASSUME Together
      PROVE  /\ r.result = c.result
             /\ Agree(r.flags, c.flags, c.undefined, WrongOf(i))
  <2>1. K = L /\ cpuFlags = flags
    BY <1>3, <1>8 DEF Together
  <2>2. c = CpuShift(op, w, L, count, flags)
    BY <2>1
  <2> QED
    BY <1>2, <1>3, <1>4, <2>2, ShiftAgrees
<1> HIDE DEF r, c, i
<1>9. Typed(Lifted(d, r), OnCpu(d, c, c.undefined))
  BY <1>2, <1>6, <1>7, LiftedIs, OnCpuIs DEF Typed
<1>10. Together => Match(Lifted(d, r), OnCpu(d, c, c.undefined), i)
  BY <1>8, OneResult
<1> QED
  BY <1>5, <1>9, <1>10, StepIsRight
----
\* Parts of a value moved down and up stay within its width.
LEMMA ShiftedType ==
    ASSUME NEW w \in Nat, NEW v \in SUBSET Positions(w), NEW m \in Nat
    PROVE  LShr(v, m) \in SUBSET Positions(w) /\ Shl(w, v, m) \in SUBSET Positions(w)
<1>1. \A i \in v : i \in Int /\ 0 <= i /\ i < w
  BY PlaceIsNumber
<1>2. \A i \in v : i >= m => i - m \in Positions(w)
  BY <1>1 DEF Positions
<1> QED
  BY <1>2 DEF LShr, Shl

\* A shift by nothing, and one of everything.
LEMMA ShiftEnds ==
    ASSUME NEW w \in Nat, NEW v \in SUBSET Positions(w)
    PROVE  LShr(v, 0) = v /\ Shl(w, v, w) = {}
<1>1. \A i \in v : i \in Int /\ 0 <= i /\ i < w
  BY PlaceIsNumber
<1>2. \A i \in v : i >= 0 /\ i - 0 = i /\ i + w \notin Positions(w)
  BY <1>1 DEF Positions
<1> QED
  BY <1>2 DEF LShr, Shl

LiftDouble(op, w, L, source, count, f, undefOF) ==
    IF op = "shld" THEN lift_shld(w, L, source, count, f)
    ELSE lift_shrd(w, L, source, count, f, undefOF)

\* The flags a double shift sets.
DoubleSet(w, v, f, cf, of)    == [SignZeroParity(w, v, f) EXCEPT !.CF = cf, !.OF = of]
CpuDoubleSet(w, v, f, cf, of) == [ByResult(w, v, f) EXCEPT !.CF = cf, !.OF = of]

\* The flags lift_shld and lift_shrd set are those by result, CF and OF.
LEMMA DoubleFlags ==
    ASSUME NEW w \in Nat \ {0}, NEW v \in SUBSET Positions(w), NEW f \in FlagSets,
           NEW cf \in BOOLEAN, NEW of \in BOOLEAN
    PROVE  /\ DoubleSet(w, v, f, cf, of) \in FlagSets
           /\ DoubleSet(w, v, f, cf, of) = CpuDoubleSet(w, v, f, cf, of)
           /\ DoubleSet(w, v, f, cf, of)["CF"] = cf /\ DoubleSet(w, v, f, cf, of)["OF"] = of
           /\ \A g \in {"AF", "DF", "IF"} : DoubleSet(w, v, f, cf, of)[g] = f[g]
           /\ \A g \in {"SF", "ZF", "PF"} : DoubleSet(w, v, f, cf, of)[g] = ByResult(w, v, f)[g]
<1> DEFINE base == SignZeroParity(w, v, f)
<1>1. base \in FlagSets /\ base = ByResult(w, v, f)
  BY SignZeroParityType, ResultFlagsAgree
<1>2. \A g \in {"AF", "DF", "IF"} : base[g] = f[g]
  BY DEF SignZeroParity, FlagSets, FlagNames
<1> HIDE DEF base
<1>3. [base EXCEPT !.CF = cf, !.OF = of] \in FlagSets
  BY <1>1, CarryAndOverflowType
<1>4. /\ [base EXCEPT !.CF = cf, !.OF = of]["CF"] = cf
      /\ [base EXCEPT !.CF = cf, !.OF = of]["OF"] = of
      /\ \A g \in FlagNames \ {"CF", "OF"} : [base EXCEPT !.CF = cf, !.OF = of][g] = base[g]
  BY <1>1 DEF FlagSets, FlagNames
<1>5. DoubleSet(w, v, f, cf, of) = [base EXCEPT !.CF = cf, !.OF = of]
  BY DEF DoubleSet, base
<1>6. CpuDoubleSet(w, v, f, cf, of) = [base EXCEPT !.CF = cf, !.OF = of]
  BY <1>1 DEF CpuDoubleSet
<1> QED
  BY <1>1, <1>2, <1>3, <1>4, <1>5, <1>6 DEF FlagNames

\* lift_shld and lift_shrd have the processor's result and flags where it defines
\* them.
LEMMA DoubleShiftAgrees ==
    ASSUME NEW op \in {"shld", "shrd"}, NEW w \in Nat \ {0}, NEW L \in SUBSET Positions(w),
           NEW source \in SUBSET Positions(w), NEW count \in SUBSET Positions(QwordBits),
           NEW f \in FlagSets, NEW undefOF \in BOOLEAN
    PROVE  LET r == LiftDouble(op, w, L, source, count, f, undefOF)
               c == CpuDoubleShift(op, w, L, source, count, f)
           IN /\ ResultType(w, r)
              /\ c.flags \in FlagSets
              /\ "result" \in c.undefined \/ r.result = c.result
              /\ Agree(r.flags, c.flags, c.undefined,
                       WrongOf(Instruction(op, w, L, source, Masked(w, count))))
<1> DEFINE n == Masked(w, count)
           complement == NatOf(BitsOf(w, w - n))
           v == IF op = "shld" THEN Pick(n # 0, Shl(w, L, n) \union LShr(source, complement), L)
                ELSE LShr(L, n) \union Shl(w, source, complement)
           cf == IF op = "shld" THEN Pick(n # 0, 0 \in LShr(L, complement), f.CF)
                 ELSE n # 0 /\ 0 \in LShr(L, n - 1)
           of == Pick(n = 1, Xor1(w - 1 \in L, w - 1 \in v), IF op = "shld" THEN f.OF ELSE undefOF)
           set == DoubleSet(w, v, f, cf, of)
           r == LiftDouble(op, w, L, source, count, f, undefOF)
           both == IF op = "shld" THEN source \union {i + w : i \in L}
                                  ELSE L \union {i + w : i \in source}
           start == IF op = "shld" THEN w - n ELSE n
           result == {i - start : i \in both} \intersect Positions(w)
           cpucf == IF op = "shld" THEN w - n \in L ELSE n - 1 \in L
           cpuof == (w - 1 \in L) # (w - 1 \in result)
           cpuset == CpuDoubleSet(w, result, f, cpucf, cpuof)
           undef == IF n > w THEN FlagNames \union {"result"}
                    ELSE IF n = 0 THEN {} ELSE {"AF"} \union (IF n > 1 THEN {"OF"} ELSE {})
           c == CpuDoubleShift(op, w, L, source, count, f)
           wrong == WrongOf(Instruction(op, w, L, source, n))
<1>1. n = NatOf(count) % CountMask(w) /\ n \in Nat
  BY CountsAgree
<1>2. r = Result(v, set)
  <2>1. CASE op = "shld"
    BY <2>1 DEF LiftDouble, lift_shld, DoubleSet
  <2>2. CASE op = "shrd"
    BY <2>2 DEF LiftDouble, lift_shrd, DoubleSet
  <2> QED
    BY <2>1, <2>2
<1>3. /\ c.result = IF n = 0 THEN L ELSE result
      /\ c.flags = IF n = 0 THEN f ELSE cpuset
      /\ c.undefined = undef
  BY <1>1 DEF CpuDoubleShift, CpuDoubleSet
<1>4. n = 0 => wrong = IF op = "shld" THEN {"SF", "ZF", "PF"} ELSE {"SF", "ZF", "PF", "CF", "OF"}
  BY DEF WrongOf, Instruction
<1> HIDE DEF n, wrong, r, c
<1>5. /\ complement \in Nat
      /\ n <= w => complement = w - n
  BY <1>1, ComplementIs
<1>6. f.CF \in BOOLEAN /\ f.OF \in BOOLEAN
  BY DEF FlagSets, FlagNames
<1> HIDE DEF complement
<1>7. v \in SUBSET Positions(w)
  <2>1. /\ LShr(source, complement) \in SUBSET Positions(w) /\ Shl(w, L, n) \in SUBSET Positions(w)
        /\ LShr(L, n) \in SUBSET Positions(w) /\ Shl(w, source, complement) \in SUBSET Positions(w)
    BY <1>1, <1>5, ShiftedType
  <2> QED
    BY <2>1 DEF Pick
<1>8. cf \in BOOLEAN
  <2>1. (0 \in LShr(L, complement)) \in BOOLEAN /\ (n # 0) \in BOOLEAN
    OBVIOUS
  <2>2. Pick(n # 0, 0 \in LShr(L, complement), f.CF) \in BOOLEAN
    BY <1>6, <2>1, ChoiceBoolean
  <2>3. (n # 0 /\ 0 \in LShr(L, n - 1)) \in BOOLEAN
    OBVIOUS
  <2>4. CASE op = "shld"
    BY <2>2, <2>4
  <2>5. CASE op = "shrd"
    BY <2>3, <2>5
  <2> QED
    BY <2>4, <2>5
<1>9. of \in BOOLEAN
  <2>1. (n = 1) \in BOOLEAN /\ (w - 1 \in L) \in BOOLEAN /\ (w - 1 \in v) \in BOOLEAN
    OBVIOUS
  <2>2. Xor1(w - 1 \in L, w - 1 \in v) \in BOOLEAN
    BY <2>1, ChoiceBoolean
  <2>3. (IF op = "shld" THEN f.OF ELSE undefOF) \in BOOLEAN
    BY <1>6
  <2> QED
    BY <2>1, <2>2, <2>3, ChoiceBoolean
<1>10. cpucf \in BOOLEAN /\ cpuof \in BOOLEAN /\ result \in SUBSET Positions(w)
  <2>1. (w - n \in L) \in BOOLEAN /\ (n - 1 \in L) \in BOOLEAN
    OBVIOUS
  <2>2. cpucf \in BOOLEAN
    <3>1. CASE op = "shld"
      BY <2>1, <3>1
    <3>2. CASE op = "shrd"
      BY <2>1, <3>2
    <3> QED
      BY <3>1, <3>2
  <2>3. cpuof \in BOOLEAN
    OBVIOUS
  <2>4. result \in SUBSET Positions(w)
    OBVIOUS
  <2> QED
    BY <2>2, <2>3, <2>4
<1>11. CASE n = 0
  <2>1. complement = w
    BY <1>5, <1>11
  <2>2. v = L
    <3>1. CASE op = "shld"
      BY <1>11, <3>1 DEF Pick
    <3>2. CASE op = "shrd"
      BY <1>11, <2>1, <3>2, ShiftEnds
    <3> QED
      BY <3>1, <3>2
  <2>3. op = "shld" => cf = f.CF
    BY <1>11 DEF Pick
  <2>4. op = "shld" => of = f.OF
    BY <1>11 DEF Pick
  <2> HIDE DEF v, cf, of
  <2>5. /\ set \in FlagSets /\ set["CF"] = cf /\ set["OF"] = of
        /\ \A g \in {"AF", "DF", "IF"} : set[g] = f[g]
    BY <1>7, <1>8, <1>9, DoubleFlags
  <2> HIDE DEF set
  <2>6. Agree(set, f, undef, wrong)
    <3> HIDE DEF undef
    <3>1. CASE op = "shld"
      BY <1>4, <1>11, <2>3, <2>4, <2>5, <3>1 DEF Agree, FlagNames
    <3>2. CASE op = "shrd"
      BY <1>4, <1>11, <2>5, <3>2 DEF Agree, FlagNames
    <3> QED
      BY <3>1, <3>2
  <2>7. r.result = v /\ r.flags = set
    BY <1>2 DEF Result
  <2>8. c.result = L /\ c.flags = f
    BY <1>3, <1>11
  <2> HIDE DEF undef
  <2> QED
    BY <1>3, <1>7, <2>2, <2>5, <2>6, <2>7, <2>8 DEF ResultType, r, c, wrong, n
<1>12. CASE n # 0
  <2> HIDE DEF v, cf, of
  <2>1. set \in FlagSets
    BY <1>7, <1>8, <1>9, DoubleFlags
  <2>2. cpuset \in FlagSets
    <3> HIDE DEF cpucf, cpuof, result
    <3> QED
      BY <1>10, DoubleFlags
  <2>3. r.result = v /\ r.flags = set
    BY <1>2 DEF Result
  <2>4. c.result = result /\ c.flags = cpuset
    BY <1>3, <1>12
  <2>5. CASE n > w
    <3>1. "result" \in undef /\ FlagNames \subseteq undef
      BY <2>5
    <3> HIDE DEF undef, set, cpuset
    <3> QED
      BY <1>3, <1>7, <2>1, <2>2, <2>3, <2>4, <3>1 DEF ResultType, Agree, r, c, wrong, n
  <2>6. CASE n <= w
    <3>1. n \in 1 .. w /\ complement = w - n
      BY <1>1, <1>5, <1>12, <2>6
    <3>2. /\ Shl(w, L, n) \union LShr(source, w - n) = ShldBits(w, L, source, n)
          /\ LShr(L, n) \union Shl(w, source, w - n) = ShrdBits(w, L, source, n)
          /\ 0 \in LShr(L, w - n) <=> w - n \in L
          /\ 0 \in LShr(L, n - 1) <=> n - 1 \in L
      BY <3>1, DoubleResults, DoubleCarries
    <3>3. v = result
      <4>1. CASE op = "shld"
        BY <1>12, <3>1, <3>2, <4>1 DEF v, Pick, ShldBits
      <4>2. CASE op = "shrd"
        BY <1>12, <3>1, <3>2, <4>2 DEF v, ShrdBits
      <4> QED
        BY <4>1, <4>2
    <3>4. cf = cpucf
      <4>1. CASE op = "shld"
        BY <1>12, <3>1, <3>2, <4>1 DEF cf, Pick
      <4>2. CASE op = "shrd"
        BY <1>12, <3>2, <4>2 DEF cf
      <4> QED
        BY <4>1, <4>2
    <3>5. n = 1 => of = cpuof
      BY <3>3 DEF of, Pick, Xor1
    <3> HIDE DEF result, cpucf, cpuof
    <3>6. /\ set["CF"] = cf /\ set["OF"] = of
          /\ \A g \in {"DF", "IF"} : set[g] = f[g]
          /\ \A g \in {"SF", "ZF", "PF"} : set[g] = ByResult(w, v, f)[g]
      BY <1>7, <1>8, <1>9, DoubleFlags
    <3>7. /\ cpuset["CF"] = cpucf /\ cpuset["OF"] = cpuof
          /\ \A g \in {"DF", "IF"} : cpuset[g] = f[g]
          /\ \A g \in {"SF", "ZF", "PF"} : cpuset[g] = ByResult(w, result, f)[g]
      <4>1. cpuset = DoubleSet(w, result, f, cpucf, cpuof)
        BY <1>10, DoubleFlags
      <4> HIDE DEF cpuset
      <4> QED
        BY <1>10, <4>1, DoubleFlags
    <3>8. n > 1 => "OF" \in undef
      BY <1>1, <1>12, <2>6
    <3>9. "AF" \in undef
      BY <1>1, <1>12, <2>6
    <3>10. set["OF"] = cpuset["OF"] \/ "OF" \in undef
      BY <1>1, <1>12, <3>5, <3>6, <3>7, <3>8
    <3> HIDE DEF set, cpuset, undef
    <3>11. Agree(set, cpuset, undef, wrong)
      BY <3>3, <3>4, <3>6, <3>7, <3>9, <3>10 DEF Agree, FlagNames
    <3> QED
      BY <1>3, <1>7, <2>1, <2>2, <2>3, <2>4, <3>3, <3>11 DEF ResultType, r, c, wrong, n
  <2> QED
    BY <1>1, <2>5, <2>6
<1> QED
  BY <1>11, <1>12

\* The double shifts are right for every operand and count.
LEMMA DoubleShiftIsRight ==
    ASSUME TypeOK, DoubleShift
    PROVE  StepRight
<1>1. PICK op \in {"shld", "shrd"}, d \in Dests(2 * ByteBits), n \in Counts,
          undefOF \in BOOLEAN :
        LET w == Width(d.part)
            L == GetIndexValue(w, d)
            source == GetRegisterValue(regs, "rcx", d.part)
            c == CpuDoubleShift(op, w, CpuOperand(w, d), CpuRead(cpuRegs, "rcx", d.part),
                                CountOf(n), cpuFlags)
        IN Execute(Lifted(d, IF op = "shld" THEN lift_shld(w, L, source, CountOf(n), flags)
                             ELSE lift_shrd(w, L, source, CountOf(n), flags, undefOF)),
                   OnCpu(d, c, c.undefined),
                   Instruction(op, w, L, source, Masked(w, CountOf(n))))
  BY DEF DoubleShift
<1> DEFINE w == Width(d.part)
           L == GetIndexValue(w, d)
           K == CpuOperand(w, d)
           source == GetRegisterValue(regs, "rcx", d.part)
           cpuSource == CpuRead(cpuRegs, "rcx", d.part)
           count == CountOf(n)
           r == LiftDouble(op, w, L, source, count, flags, undefOF)
           c == CpuDoubleShift(op, w, K, cpuSource, count, cpuFlags)
           i == Instruction(op, w, L, source, Masked(w, count))
<1>2. /\ w \in Widths /\ IsPlace(w, d) /\ IsOperand(w, d) /\ w \in Nat \ {0} /\ d.part \in Parts
      /\ "rcx" \in Registers
  BY WideDestIs, WidthsAre DEF Registers
<1>3. /\ L \in SUBSET Positions(w) /\ K \in SUBSET Positions(w) /\ (Together => K = L)
  BY <1>2, OperandIs DEF Together
<1>4. /\ source \in SUBSET Positions(w) /\ cpuSource \in SUBSET Positions(w)
      /\ Together => cpuSource = source
  BY <1>2, PartIs DEF Together
<1>5. flags \in FlagSets /\ cpuFlags \in FlagSets /\ count \in SUBSET Positions(QwordBits)
  BY CountIs DEF TypeOK
<1>6. Execute(Lifted(d, r), OnCpu(d, c, c.undefined), i)
  BY <1>1 DEF LiftDouble
<1> HIDE DEF w, L, K, count, source, cpuSource
<1>7. ResultType(w, r)
  BY <1>2, <1>3, <1>4, <1>5, DoubleShiftAgrees
<1>8. c.flags \in FlagSets
  BY <1>2, <1>3, <1>4, <1>5, DoubleShiftAgrees
<1>9. ASSUME Together
      PROVE  /\ "result" \in c.undefined \/ r.result = c.result
             /\ Agree(r.flags, c.flags, c.undefined, WrongOf(i))
  <2>1. c = CpuDoubleShift(op, w, L, source, count, flags)
    BY <1>3, <1>4, <1>9 DEF Together
  <2> QED
    BY <1>2, <1>3, <1>4, <1>5, <2>1, DoubleShiftAgrees
<1> HIDE DEF r, c, i
<1>10. Typed(Lifted(d, r), OnCpu(d, c, c.undefined))
  BY <1>2, <1>7, <1>8, LiftedIs, OnCpuIs DEF Typed
<1>11. Together => Match(Lifted(d, r), OnCpu(d, c, c.undefined), i)
  BY <1>9, OneResult
<1> QED
  BY <1>6, <1>10, <1>11, StepIsRight
----
\* Bit tests change the carry alone.
TestNames == {"bt", "btr", "bts", "btc"}

\* Setting CF keeps a set of flags.
LEMMA CarryType ==
    ASSUME NEW f \in FlagSets, NEW c \in BOOLEAN
    PROVE  [f EXCEPT !.CF = c] \in FlagSets
  BY DEF FlagSets, FlagNames

\* lift_bt, lift_btr, lift_bts and lift_btc have the processor's outcome, the index
\* taken modulo the width.
LEMMA TestIsRight ==
    ASSUME NEW name \in TestNames, NEW w \in Nat \ {0}, NEW L \in SUBSET Positions(w),
           NEW u \in Nat, NEW index \in SUBSET Positions(u), flags \in FlagSets, cpuFlags \in FlagSets
    PROVE  /\ ResultType(w, LiftBitTest(name, w, L, index))
           /\ CpuBitTest(name, w, L, index).flags \in FlagSets
           /\ flags = cpuFlags => LiftBitTest(name, w, L, index) = CpuBitTest(name, w, L, index)
<1> DEFINE i == NatOf(index) % w
           cf == i \in L
           v == CASE name = "bt"  -> L
                  [] name = "btr" -> L \ {i}
                  [] name = "bts" -> L \union {i}
                  [] name = "btc" -> IF i \in L THEN L \ {i} ELSE L \union {i}
           F(f) == [f EXCEPT !.CF = cf]
<1>1. i \in Positions(w)
  BY BitIndexIs
<1>2. CpuBitTest(name, w, L, index) = [result |-> v, flags |-> F(cpuFlags)]
  BY DEF CpuBitTest
<1>3. BitIndex(w, index) = i
  BY DEF BitIndex
<1> HIDE DEF i
<1>4. /\ ({i} \intersect L # {}) = cf
      /\ L \intersect Not(w, {i}) = L \ {i}
      /\ Xor(L, {i}) = IF i \in L THEN L \ {i} ELSE L \union {i}
  BY <1>1 DEF Not, Xor
<1>5. lift_bt(w, L, index, flags) = F(flags)
  BY <1>3, <1>4 DEF lift_bt
<1> HIDE DEF F
<1>6. LiftBitTest(name, w, L, index) = [result |-> v, flags |-> F(flags)]
  BY <1>3, <1>4, <1>5 DEF LiftBitTest, TestNames, lift_btr, lift_bts, lift_btc, Result
<1>7. v \in SUBSET Positions(w)
  BY <1>1 DEF TestNames
<1>8. F(flags) \in FlagSets /\ F(cpuFlags) \in FlagSets
  <2>1. cf \in BOOLEAN
    OBVIOUS
  <2> HIDE DEF cf
  <2> QED
    BY <2>1, CarryType DEF F
<1> HIDE DEF v
<1> QED
  BY <1>2, <1>6, <1>7, <1>8 DEF ResultType

\* The bit tests are right for every operand and index.
LEMMA BitTestIsRight ==
    ASSUME TypeOK, BitTest
    PROVE  StepRight
<1>1. PICK name \in {"bt", "btr", "bts", "btc"}, d \in Dests(2 * ByteBits) :
       \E s \in {RegisterOperand("rcx", d.part)} \union ImmediateOperands :
        LET w == Width(d.part)
            L == GetIndexValue(w, d)
            lifted == LiftBitTest(name, w, L, GetIndexValue(w, s))
            c == CpuBitTest(name, w, CpuOperand(w, d), CpuOperand(w, s))
            writes(r) == IF name = "bt" THEN <<>> ELSE <<To(d, r.result)>>
        IN Execute(Outcome(writes(lifted), lifted.flags, {}),
                   Outcome(writes(c), c.flags, {"OF", "SF", "AF", "PF"}),
                   Instruction(name, w, L, GetIndexValue(w, s), 0))
  BY DEF BitTest
<1>2. PICK s \in {RegisterOperand("rcx", d.part)} \union ImmediateOperands :
        LET w == Width(d.part)
            L == GetIndexValue(w, d)
            lifted == LiftBitTest(name, w, L, GetIndexValue(w, s))
            c == CpuBitTest(name, w, CpuOperand(w, d), CpuOperand(w, s))
            writes(r) == IF name = "bt" THEN <<>> ELSE <<To(d, r.result)>>
        IN Execute(Outcome(writes(lifted), lifted.flags, {}),
                   Outcome(writes(c), c.flags, {"OF", "SF", "AF", "PF"}),
                   Instruction(name, w, L, GetIndexValue(w, s), 0))
  BY <1>1
<1> DEFINE w == Width(d.part)
           L == GetIndexValue(w, d)
           K == CpuOperand(w, d)
           index == GetIndexValue(w, s)
           cpuIndex == CpuOperand(w, s)
           r == LiftBitTest(name, w, L, index)
           c == CpuBitTest(name, w, K, cpuIndex)
           undefined == {"OF", "SF", "AF", "PF"}
           writes == IF name = "bt" THEN <<>> ELSE <<To(d, r.result)>>
           cpuWrites == IF name = "bt" THEN <<>> ELSE <<To(d, c.result)>>
           out == Outcome(writes, r.flags, {})
           cpu == Outcome(cpuWrites, c.flags, undefined)
           i == Instruction(name, w, L, index, 0)
<1>3. Execute(out, cpu, i)
  BY <1>2
<1>4. /\ w \in Widths /\ IsPlace(w, d) /\ IsOperand(w, d) /\ w \in Nat \ {0} /\ w \in Nat
      /\ d.part \in Parts /\ "rcx" \in Registers
  BY WideDestIs, WidthsAre DEF Registers
<1>5. IsOperand(w, s)
  <2>1. CASE s \in ImmediateOperands
    BY <2>1, ImmediateIs
  <2>2. CASE s = RegisterOperand("rcx", d.part)
    BY <1>4, <2>2, RegisterPlace
  <2> QED
    BY <2>1, <2>2
<1>6. /\ L \in SUBSET Positions(w) /\ K \in SUBSET Positions(w)
      /\ index \in SUBSET Positions(w) /\ cpuIndex \in SUBSET Positions(w)
      /\ Together => K = L /\ cpuIndex = index
  BY <1>4, <1>5, OperandIs DEF Together
<1>7. flags \in FlagSets /\ cpuFlags \in FlagSets /\ name \in TestNames
  BY DEF TypeOK, TestNames
<1> HIDE DEF w, L, K, index, cpuIndex, i
<1>8. ResultType(w, r)
  BY <1>4, <1>6, <1>7, TestIsRight
<1>9. c.flags \in FlagSets
  BY <1>4, <1>6, <1>7, TestIsRight
<1>10. Together => r = c
  BY <1>4, <1>6, <1>7, TestIsRight DEF Together
<1> HIDE DEF r, c
<1>11. Together => writes = cpuWrites
  BY <1>10
<1>12. FewWrites(cpuWrites)
  BY DEF FewWrites
<1>13. IsWrites(writes)
  <2>1. IsWrite(To(d, r.result))
    BY <1>4, <1>8, ToIs DEF ResultType
  <2>2. CASE name = "bt"
    BY <2>2 DEF IsWrites
  <2>3. CASE name # "bt"
    BY <2>1, <2>3 DEF IsWrites
  <2> QED
    BY <2>2, <2>3
<1> HIDE DEF writes, cpuWrites
<1>14. /\ out.writes = writes /\ out.flags = r.flags
       /\ cpu.writes = cpuWrites /\ cpu.flags = c.flags
  BY DEF Outcome
<1> HIDE DEF out, cpu
<1>15. Typed(out, cpu)
  BY <1>8, <1>9, <1>12, <1>13, <1>14 DEF Typed, ResultType
<1>16. Together => Match(out, cpu, i)
  BY <1>10, <1>11, <1>14, SameAgrees DEF Match
<1> QED
  BY <1>3, <1>15, <1>16, StepIsRight

-----------------------------------------------------------------------------
(* Bits *)

\* Setting ZF keeps a set of flags.
LEMMA ZeroType ==
    ASSUME NEW f \in FlagSets, NEW z \in BOOLEAN
    PROVE  [f EXCEPT !.ZF = z] \in FlagSets
  BY DEF FlagSets, FlagNames

\* Setting ZF and CF, in either order, keeps the others.
LEMMA ZeroAndCarryType ==
    ASSUME NEW f \in FlagSets, NEW z \in BOOLEAN, NEW c \in BOOLEAN
    PROVE  /\ [f EXCEPT !.ZF = z, !.CF = c] \in FlagSets
           /\ [f EXCEPT !.CF = c, !.ZF = z] \in FlagSets
           /\ \A g \in FlagNames \ {"CF", "ZF"} : /\ [f EXCEPT !.ZF = z, !.CF = c][g] = f[g]
                                                  /\ [f EXCEPT !.CF = c, !.ZF = z][g] = f[g]
  BY DEF FlagSets, FlagNames

\* popcnt clears every flag but ZF.
PopulationFlags(f, z) ==
    [Clears(f, {"OF", "SF", "AF", "CF", "PF"}) EXCEPT !.ZF = z]
CpuPopulationFlags(f, z) ==
    [g \in FlagNames |-> IF g = "ZF" THEN z ELSE g \in {"DF", "IF"} /\ f[g]]

\* lift_popcnt clears every status flag but ZF.
LEMMA PopulationFlagsAre ==
    ASSUME NEW f \in FlagSets, NEW z \in BOOLEAN
    PROVE  /\ PopulationFlags(f, z) = CpuPopulationFlags(f, z)
           /\ PopulationFlags(f, z) \in FlagSets
<1>1. \A g \in FlagNames : f[g] \in BOOLEAN
  BY DEF FlagSets
<1>2. \A g \in FlagNames : (IF g = "ZF" THEN z ELSE g \in {"DF", "IF"} /\ f[g]) \in BOOLEAN
  OBVIOUS
<1>3. CpuPopulationFlags(f, z) \in FlagSets
  BY <1>2 DEF CpuPopulationFlags, FlagSets
<1>4. \A g \in FlagNames \ {"ZF"} :
          (f[g] /\ g \notin {"OF", "SF", "AF", "CF", "PF"}) = (g \in {"DF", "IF"} /\ f[g])
  BY <1>1 DEF FlagNames
<1>5. PopulationFlags(f, z) = CpuPopulationFlags(f, z)
  BY <1>4 DEF PopulationFlags, CpuPopulationFlags, Clears, FlagNames
<1> QED
  BY <1>3, <1>5

ScanNames == {"bsr", "bsf", "lzcnt", "tzcnt", "popcnt"}

\* The bit scans have a value of the width and flags.
LEMMA ScanType ==
    ASSUME NEW name \in ScanNames, NEW w \in Widths, NEW R \in SUBSET Positions(w),
           flags \in FlagSets
    PROVE  ResultType(w, LiftScan(name, w, R))
<1> DEFINE z == computeZeroFlag(R)
           c == NatOf(R) = w
           y == computeZeroFlag(BitsOf(w, Cardinality(R)))
<1>1. \A n : BitsOf(w, n) \in SUBSET Positions(w)
  BY DEF BitsOf
<1>2. TopBit(w, R) \in SUBSET Positions(w) /\ LowBit(w, R) \in SUBSET Positions(w)
  BY <1>1 DEF TopBit, LowBit
<1>3. z \in BOOLEAN /\ c \in BOOLEAN /\ y \in BOOLEAN
  BY DEF computeZeroFlag
<1>4. /\ LiftScan("bsr", w, R) = Result(TopBit(w, R), [flags EXCEPT !.ZF = z])
      /\ LiftScan("lzcnt", w, R) = Result(TopBit(w, R), [flags EXCEPT !.ZF = z, !.CF = c])
      /\ LiftScan("bsf", w, R) = Result(LowBit(w, R), [flags EXCEPT !.ZF = z])
      /\ LiftScan("tzcnt", w, R) = Result(LowBit(w, R), [flags EXCEPT !.ZF = z, !.CF = c])
      /\ LiftScan("popcnt", w, R) = Result(BitsOf(w, Cardinality(R)), PopulationFlags(flags, y))
  BY DEF LiftScan, lift_bsr, lift_lzcnt, lift_bsf, lift_tzcnt, lift_popcnt, PopulationFlags
<1> HIDE DEF z, c, y
<1>5. /\ [flags EXCEPT !.ZF = z] \in FlagSets
      /\ [flags EXCEPT !.ZF = z, !.CF = c] \in FlagSets
      /\ PopulationFlags(flags, y) \in FlagSets
  BY <1>3, ZeroType, ZeroAndCarryType, PopulationFlagsAre
<1>6. \A v, f : Result(v, f).result = v /\ Result(v, f).flags = f
  BY DEF Result
<1> QED
  BY <1>1, <1>2, <1>4, <1>5, <1>6 DEF ResultType, ScanNames

\* The processor's flags after a bit scan are flags.
LEMMA CpuScanType ==
    ASSUME NEW name \in ScanNames, NEW w \in Widths, NEW R \in SUBSET Positions(w),
           cpuFlags \in FlagSets
    PROVE  CpuScan(name, w, R).flags \in FlagSets
<1> DEFINE found == CASE name = "bsr"   -> IF R = {} THEN 0 ELSE HighestBit(R)
                   [] name = "lzcnt" -> IF R = {} THEN w ELSE w - 1 - HighestBit(R)
                   [] name = "bsf"   -> IF R = {} THEN 0 ELSE LowestBit(R)
                   [] name = "tzcnt" -> IF R = {} THEN w ELSE LowestBit(R)
                   [] name = "popcnt" -> Cardinality(R)
           set == IF name \in {"bsr", "bsf"} THEN [cpuFlags EXCEPT !.ZF = R = {}]
                  ELSE IF name = "popcnt" THEN CpuPopulationFlags(cpuFlags, R = {})
                  ELSE [cpuFlags EXCEPT !.CF = R = {}, !.ZF = found = 0]
<1>1. CpuScan(name, w, R).flags = set
  BY DEF CpuScan, CpuPopulationFlags
<1> DEFINE z == R = {}
           y == found = 0
<1>2. z \in BOOLEAN /\ y \in BOOLEAN
  OBVIOUS
<1>3. set = IF name \in {"bsr", "bsf"} THEN [cpuFlags EXCEPT !.ZF = z]
            ELSE IF name = "popcnt" THEN CpuPopulationFlags(cpuFlags, z)
            ELSE [cpuFlags EXCEPT !.CF = z, !.ZF = y]
  OBVIOUS
<1> HIDE DEF set, z, y
<1>4. /\ [cpuFlags EXCEPT !.ZF = z] \in FlagSets
      /\ [cpuFlags EXCEPT !.CF = z, !.ZF = y] \in FlagSets
      /\ CpuPopulationFlags(cpuFlags, z) \in FlagSets
  BY <1>2, ZeroType, ZeroAndCarryType, PopulationFlagsAre
<1> QED
  BY <1>1, <1>3, <1>4

\* The bit scans have the processor's result and flags, but for the names and flags
\* listed as wrong.
LEMMA ScanAgrees ==
    ASSUME NEW name \in ScanNames, NEW w \in Widths, NEW R \in SUBSET Positions(w),
           flags \in FlagSets, flags = cpuFlags
    PROVE  LET r == LiftScan(name, w, R)
               c == CpuScan(name, w, R)
           IN /\ "result" \in c.undefined \/ name \in WrongNames \/ r.result = c.result
              /\ Agree(r.flags, c.flags, c.undefined, WrongOf(Instruction(name, w, {}, R, 0)))
<1> DEFINE r == LiftScan(name, w, R)
           c == CpuScan(name, w, R)
           i == Instruction(name, w, {}, R, 0)
<1>1. w \in Nat \ {0}
  BY WidthsAre
<1>2. computeZeroFlag(R) = (R = {})
  BY DEF computeZeroFlag
<1>3. ASSUME name \in {"bsr", "bsf"}
      PROVE  /\ "result" \in c.undefined \/ name \in WrongNames \/ r.result = c.result
             /\ r.flags = c.flags
  <2>1. CASE name = "bsr"
    <3>1. /\ r = Result(TopBit(w, R), [flags EXCEPT !.ZF = computeZeroFlag(R)])
          /\ c.flags = [cpuFlags EXCEPT !.ZF = R = {}]
          /\ c.result = BitsOf(w, IF R = {} THEN 0 ELSE HighestBit(R))
          /\ R = {} => "result" \in c.undefined
      BY <2>1 DEF LiftScan, lift_bsr, CpuScan
    <3>2. r.result = TopBit(w, R) /\ r.flags = [flags EXCEPT !.ZF = computeZeroFlag(R)]
      BY <3>1 DEF Result
    <3>3. R # {} => r.result = c.result
      BY <1>1, <3>1, <3>2, TopBitIs
    <3> QED
      BY <1>2, <3>1, <3>2, <3>3
  <2>2. CASE name = "bsf"
    <3>1. /\ r = Result(LowBit(w, R), [flags EXCEPT !.ZF = computeZeroFlag(R)])
          /\ c.flags = [cpuFlags EXCEPT !.ZF = R = {}]
      BY <2>2 DEF LiftScan, lift_bsf, CpuScan
    <3>2. name \in WrongNames
      BY <2>2 DEF WrongNames
    <3> QED
      BY <1>2, <3>1, <3>2 DEF Result
  <2> QED
    BY <1>3, <2>1, <2>2
<1>4. ASSUME name = "popcnt"
      PROVE  r.result = c.result /\ r.flags = c.flags
  <2> DEFINE z == computeZeroFlag(BitsOf(w, Cardinality(R)))
  <2>1. /\ r = Result(BitsOf(w, Cardinality(R)), PopulationFlags(flags, z))
        /\ c.result = BitsOf(w, Cardinality(R))
        /\ c.flags = CpuPopulationFlags(cpuFlags, R = {})
    BY <1>4 DEF LiftScan, lift_popcnt, CpuScan, PopulationFlags, CpuPopulationFlags
  <2>2. z = (R = {})
    BY <1>1, PopulationIs
  <2>3. z \in BOOLEAN
    BY DEF computeZeroFlag
  <2> HIDE DEF z
  <2>4. PopulationFlags(flags, z) = CpuPopulationFlags(flags, z)
    BY <2>3, PopulationFlagsAre
  <2> QED
    BY <2>1, <2>2, <2>4 DEF Result
<1>5. ASSUME name \in {"lzcnt", "tzcnt"}
      PROVE  Agree(r.flags, c.flags, c.undefined, WrongOf(i)) /\ name \in WrongNames
  <2>1. WrongOf(i) = {"CF", "ZF"} /\ name \in WrongNames
    BY <1>5 DEF WrongOf, Instruction, WrongNames
  <2> DEFINE z == computeZeroFlag(R)
             cf == NatOf(R) = w
             cpuz == CpuScan(name, w, R).flags["ZF"]
             found == IF name = "lzcnt" THEN IF R = {} THEN w ELSE w - 1 - HighestBit(R)
                      ELSE IF R = {} THEN w ELSE LowestBit(R)
             zf == found = 0
             e == R = {}
  <2>2. /\ r.flags = [flags EXCEPT !.ZF = z, !.CF = cf]
        /\ c.flags = [cpuFlags EXCEPT !.CF = e, !.ZF = zf]
        /\ c.undefined = {"OF", "SF", "AF", "PF"}
    <3>1. CASE name = "lzcnt"
      BY <3>1 DEF LiftScan, lift_lzcnt, CpuScan, Result
    <3>2. CASE name = "tzcnt"
      BY <3>2 DEF LiftScan, lift_tzcnt, CpuScan, Result
    <3> QED
      BY <1>5, <3>1, <3>2
  <2>3. z \in BOOLEAN /\ cf \in BOOLEAN /\ zf \in BOOLEAN /\ e \in BOOLEAN
    BY DEF computeZeroFlag
  <2> HIDE DEF r, c, i, z, cf, zf, e
  <2>4. /\ \A g \in FlagNames \ {"CF", "ZF"} : [flags EXCEPT !.ZF = z, !.CF = cf][g] = flags[g]
        /\ \A g \in FlagNames \ {"CF", "ZF"} : [flags EXCEPT !.CF = e, !.ZF = zf][g] = flags[g]
    <3> HIDE DEF Agree
    <3> QED
      BY <2>3 DEF FlagSets, FlagNames
  <2>5. \A g \in FlagNames \ {"CF", "ZF"} : r.flags[g] = c.flags[g]
    BY <2>2, <2>4
  <2> QED
    BY <2>1, <2>5 DEF Agree
<1> HIDE DEF r, c, i
<1>6. CASE name \in {"bsr", "bsf"}
  BY <1>3, <1>6, SameAgrees DEF r, c, i
<1>7. CASE name = "popcnt"
  BY <1>4, <1>7, SameAgrees DEF r, c, i
<1>8. CASE name \in {"lzcnt", "tzcnt"}
  BY <1>5, <1>8 DEF r, c, i
<1> QED
  BY <1>6, <1>7, <1>8 DEF ScanNames

\* The bit scans are right, but for what is listed as wrong.
LEMMA BitScanIsRight ==
    ASSUME TypeOK, BitScan
    PROVE  StepRight
<1>1. PICK name \in {"bsr", "bsf", "lzcnt", "tzcnt", "popcnt"}, d \in Dests(2 * ByteBits) :
        LET w == Width(d.part)
            R == GetRegisterValue(regs, "rcx", d.part)
            c == CpuScan(name, w, CpuRead(cpuRegs, "rcx", d.part))
        IN Execute(Lifted(d, LiftScan(name, w, R)), OnCpu(d, c, c.undefined),
                   Instruction(name, w, {}, R, 0))
  BY DEF BitScan
<1> DEFINE w == Width(d.part)
           R == GetRegisterValue(regs, "rcx", d.part)
           K == CpuRead(cpuRegs, "rcx", d.part)
           r == LiftScan(name, w, R)
           c == CpuScan(name, w, K)
           i == Instruction(name, w, {}, R, 0)
<1>2. /\ w \in Widths /\ IsPlace(w, d) /\ d.part \in Parts /\ "rcx" \in Registers
      /\ name \in ScanNames
  BY WideDestIs DEF Registers, ScanNames
<1>3. /\ R \in SUBSET Positions(w) /\ K \in SUBSET Positions(w) /\ (Together => K = R)
  BY <1>2, PartIs DEF Together
<1>4. flags \in FlagSets /\ cpuFlags \in FlagSets
  BY DEF TypeOK
<1>5. Execute(Lifted(d, r), OnCpu(d, c, c.undefined), i)
  BY <1>1
<1>6. i.name = name
  BY DEF Instruction
<1> HIDE DEF w, R, K
<1>7. ResultType(w, r) /\ c.flags \in FlagSets
  BY <1>2, <1>3, <1>4, ScanType, CpuScanType
<1>8. ASSUME Together
      PROVE  /\ "result" \in c.undefined \/ name \in WrongNames \/ r.result = c.result
             /\ Agree(r.flags, c.flags, c.undefined, WrongOf(i))
  <2>1. c = CpuScan(name, w, R) /\ flags = cpuFlags
    BY <1>3, <1>8 DEF Together
  <2> QED
    BY <1>2, <1>3, <1>4, <2>1, ScanAgrees
<1> HIDE DEF r, c, i
<1>9. Typed(Lifted(d, r), OnCpu(d, c, c.undefined))
  BY <1>2, <1>7, LiftedIs, OnCpuIs DEF Typed
<1>10. Together => Match(Lifted(d, r), OnCpu(d, c, c.undefined), i)
  BY <1>6, <1>8, OneResult
<1> QED
  BY <1>5, <1>9, <1>10, StepIsRight

\* lift_bswap is right for the widths the processor defines.
LEMMA SwapBytesIsRight ==
    ASSUME TypeOK, SwapBytes
    PROVE  StepRight
<1>1. PICK d \in Dests(2 * ByteBits) :
        LET w == Width(d.part)
            L == GetIndexValue(w, d)
        IN Execute(Outcome(<<To(d, lift_bswap(w, L))>>, flags, {}),
                   Outcome(<<To(d, CpuSwapBytes(w, CpuOperand(w, d)))>>, cpuFlags,
                           IF w = 2 * ByteBits THEN {"result"} ELSE {}),
                   Instruction("bswap", w, L, {}, 0))
  BY DEF SwapBytes
<1> DEFINE w == Width(d.part)
           L == GetIndexValue(w, d)
           K == CpuOperand(w, d)
           r == Result(lift_bswap(w, L), flags)
           c == Result(CpuSwapBytes(w, K), cpuFlags)
           undefined == IF w = 2 * ByteBits THEN {"result"} ELSE {}
           i == Instruction("bswap", w, L, {}, 0)
<1>2. w \in Widths /\ IsPlace(w, d) /\ IsOperand(w, d)
  BY WideDestIs
<1>3. /\ L \in SUBSET Positions(w) /\ K \in SUBSET Positions(w) /\ (Together => K = L)
  BY <1>2, OperandIs DEF Together
<1>4. flags \in FlagSets /\ cpuFlags \in FlagSets
  BY DEF TypeOK
<1>5. /\ r.result = lift_bswap(w, L) /\ r.flags = flags
      /\ c.result = CpuSwapBytes(w, K) /\ c.flags = cpuFlags
  BY DEF Result
<1>6. Execute(Lifted(d, r), OnCpu(d, c, undefined), i)
  BY <1>1 DEF Lifted, OnCpu, Result
<1> HIDE DEF w, L, K, i
<1>7. w = 2 * ByteBits \/ lift_bswap(w, L) = CpuSwapBytes(w, L)
  <2>1. \E k \in Nat \ {0} : w = k * ByteBits
    <3>1. w = 1 * ByteBits \/ w = 2 * ByteBits \/ w = 4 * ByteBits \/ w = 8 * ByteBits
      BY <1>2, Sizes8 DEF Widths
    <3>2. 1 \in Nat \ {0} /\ 2 \in Nat \ {0} /\ 4 \in Nat \ {0} /\ 8 \in Nat \ {0}
      OBVIOUS
    <3> QED
      BY <3>1, <3>2
  <2>2. PICK k \in Nat \ {0} : w = k * ByteBits
    BY <2>1
  <2> QED
    BY <1>3, <2>2, SwapIs
<1>8. lift_bswap(w, L) \in SUBSET Positions(w)
  <2>1. CASE w = 2 * ByteBits
    BY <2>1 DEF lift_bswap
  <2>2. CASE w # 2 * ByteBits
    <3>1. CpuSwapBytes(w, L) \in SUBSET Positions(w)
      BY DEF CpuSwapBytes
    <3> QED
      BY <1>7, <2>2, <3>1
  <2> QED
    BY <2>1, <2>2
<1>9. Together => "result" \in undefined \/ r.result = c.result
  BY <1>3, <1>5, <1>7
<1> HIDE DEF r, c, undefined
<1>10. ResultType(w, r)
  BY <1>4, <1>5, <1>8 DEF ResultType
<1>11. Typed(Lifted(d, r), OnCpu(d, c, undefined))
  BY <1>2, <1>4, <1>5, <1>10, LiftedIs, OnCpuIs DEF Typed
<1>12. Together => r.flags = c.flags
  BY <1>5 DEF Together
<1>13. Together => Match(Lifted(d, r), OnCpu(d, c, undefined), i)
  BY <1>9, <1>12, OneResult, SameAgrees
<1> QED
  BY <1>6, <1>11, <1>13, StepIsRight
----
FieldNames == {"pext", "pdep", "blsi", "blsr", "blsmsk", "bzhi", "bextr"}

\* Setting SF and ZF keeps a set of flags.
LEMMA SignAndZeroType ==
    ASSUME NEW f \in FlagSets, NEW w, NEW v
    PROVE  SignZero(w, v, f) \in FlagSets
<1> DEFINE z == computeZeroFlag(v)
           s == computeSignFlag(w, v)
<1>1. z \in BOOLEAN /\ s \in BOOLEAN
  BY DEF computeZeroFlag, computeSignFlag
<1>2. SignZero(w, v, f) = [f EXCEPT !.ZF = z, !.SF = s]
  BY DEF SignZero
<1> HIDE DEF z, s
<1> QED
  BY <1>1, <1>2 DEF FlagSets, FlagNames

\* The bit field instructions have a value of the width and flags.
LEMMA FieldType ==
    ASSUME NEW name \in FieldNames, NEW w \in Widths, NEW L \in SUBSET Positions(w),
           NEW R \in SUBSET Positions(w), flags \in FlagSets
    PROVE  ResultType(w, LiftField(name, w, L, R))
<1>1. w \in Nat \ {0}
  BY WidthsAre
<1>2. \A v, f : Result(v, f).result = v /\ Result(v, f).flags = f
  BY DEF Result
<1>3. CASE name \in {"pext", "pdep"}
  <2>1. /\ LiftField("pext", w, L, R) = Result(lift_pext(w, L, R), flags)
        /\ LiftField("pdep", w, L, R) = Result(lift_pdep(w, L, R), flags)
    BY DEF LiftField
  <2>2. lift_pext(w, L, R) \in SUBSET Positions(w) /\ lift_pdep(w, L, R) \in SUBSET Positions(w)
    BY <1>1, ExtractIs, DepositIs
  <2> QED
    BY <1>2, <1>3, <2>1, <2>2 DEF ResultType
<1>4. CASE name = "blsi"
  <2> DEFINE v == Sub(w, {}, L) \intersect L
  <2>1. LiftField(name, w, L, R) = Result(v, SignZero(w, v, flags))
    BY <1>4 DEF LiftField, lift_blsi
  <2>2. v \in SUBSET Positions(w)
    OBVIOUS
  <2> HIDE DEF v
  <2>3. SignZero(w, v, flags) \in FlagSets
    BY SignAndZeroType
  <2> QED
    BY <1>2, <2>1, <2>2, <2>3 DEF ResultType
<1>5. CASE name = "blsr"
  <2> DEFINE v == Sub(w, L, {0}) \intersect L
  <2>1. LiftField(name, w, L, R) = Result(v, SignZero(w, v, flags))
    BY <1>5 DEF LiftField, lift_blsr
  <2>2. v \in SUBSET Positions(w)
    OBVIOUS
  <2> HIDE DEF v
  <2>3. SignZero(w, v, flags) \in FlagSets
    BY SignAndZeroType
  <2> QED
    BY <1>2, <2>1, <2>2, <2>3 DEF ResultType
<1>6. CASE name = "blsmsk"
  <2> DEFINE v == Xor(Sub(w, L, {0}), L)
             s == computeSignFlag(w, v)
             z == computeZeroFlag(L)
  <2>1. LiftField(name, w, L, R) = Result(v, [flags EXCEPT !.ZF = FALSE, !.SF = s, !.CF = z])
    BY <1>6 DEF LiftField, lift_blsmsk
  <2>2. v \in SUBSET Positions(w)
    BY DEF Xor, Sub, BitsOf
  <2>3. s \in BOOLEAN /\ z \in BOOLEAN
    BY DEF computeSignFlag, computeZeroFlag
  <2> HIDE DEF s, z
  <2>4. [flags EXCEPT !.ZF = FALSE, !.SF = s, !.CF = z] \in FlagSets
    BY <2>3 DEF FlagSets, FlagNames
  <2> HIDE DEF v
  <2> QED
    BY <1>2, <2>1, <2>2, <2>4 DEF ResultType
<1>7. CASE name = "bzhi"
  <2> DEFINE n == NatOf(Trunc(3, L))
             v == L \intersect AShr(w, Shl(w, {0}, n), n)
             c == n >= w - 1
  <2>1. LiftField(name, w, L, R) = Result(v, [SignZero(w, v, flags) EXCEPT !.OF = FALSE, !.CF = c])
    BY <1>7 DEF LiftField, lift_bzhi
  <2>2. v \in SUBSET Positions(w) /\ c \in BOOLEAN
    OBVIOUS
  <2> HIDE DEF v, c
  <2>3. SignZero(w, v, flags) \in FlagSets
    BY SignAndZeroType
  <2>4. [SignZero(w, v, flags) EXCEPT !.OF = FALSE, !.CF = c] \in FlagSets
    BY <2>2, <2>3 DEF FlagSets, FlagNames
  <2> QED
    BY <1>2, <2>1, <2>2, <2>4 DEF ResultType
<1>8. CASE name = "bextr"
  <2> DEFINE len == NatOf(Trunc(ByteBits, LShr(R, ByteBits)))
             v == L \intersect AShr(ByteBits, Shl(ByteBits, {0}, len), len)
             z == computeZeroFlag(v)
  <2>1. LiftField(name, w, L, R) = Result(v, [flags EXCEPT !.ZF = z])
    BY <1>8 DEF LiftField, lift_bextr
  <2>2. v \in SUBSET Positions(w) /\ z \in BOOLEAN
    BY DEF computeZeroFlag
  <2> HIDE DEF v, z
  <2> QED
    BY <1>2, <2>1, <2>2, ZeroType DEF ResultType
<1> QED
  BY <1>3, <1>4, <1>5, <1>6, <1>7, <1>8 DEF FieldNames

CpuFieldCarry(name, w, L, R) ==
    CASE name = "blsi" -> L # {}
      [] name \in {"blsr", "blsmsk"} -> L = {}
      [] name = "bzhi" -> NatOf({i \in R : i < ByteBits}) >= w
      [] OTHER -> FALSE

\* The flags the processor has after a bit field.
FieldSet(w, v, f, cf) == [ByResult(w, v, f) EXCEPT !.CF = cf, !.OF = FALSE]

IsFieldSet(s, w, v, f, cf) ==
    /\ s \in FlagSets
    /\ s["CF"] = cf /\ s["OF"] = FALSE /\ s["DF"] = f["DF"] /\ s["IF"] = f["IF"]
    /\ s["SF"] = ByResult(w, v, f)["SF"] /\ s["ZF"] = ByResult(w, v, f)["ZF"]

\* The processor's flags after a bit field instruction, one by one.
LEMMA FieldSetIs ==
    ASSUME NEW w, NEW v, NEW f \in FlagSets, NEW cf \in BOOLEAN
    PROVE  IsFieldSet(FieldSet(w, v, f, cf), w, v, f, cf)
<1> DEFINE base == ByResult(w, v, f)
           set == [base EXCEPT !.CF = cf, !.OF = FALSE]
<1>1. base \in FlagSets
  BY SignZeroParityType
<1>2. \A g \in {"AF", "DF", "IF"} : base[g] = f[g]
  BY DEF ByResult, FlagSets, FlagNames
<1> HIDE DEF base
<1>3. /\ set["CF"] = cf /\ set["OF"] = FALSE /\ set \in FlagSets
      /\ \A g \in FlagNames \ {"CF", "OF"} : set[g] = base[g]
  BY <1>1 DEF FlagSets, FlagNames
<1>4. FieldSet(w, v, f, cf) = set
  BY DEF FieldSet, base
<1> HIDE DEF set
<1> QED
  BY <1>2, <1>3, <1>4 DEF base, FlagNames, IsFieldSet

\* What the processor leaves undefined after a bit field.
FieldUndefined(name) == CASE name \in {"pext", "pdep"} -> {}
                          [] name = "bextr" -> {"AF", "SF", "PF"}
                          [] OTHER -> {"AF", "PF"}

\* The processor's outcome of a bit field instruction: result, flags and what is
\* undefined.
LEMMA CpuFieldIs ==
    ASSUME NEW name \in FieldNames, NEW w, NEW L, NEW R, cpuFlags \in FlagSets
    PROVE  /\ CpuField(name, w, L, R).result = CpuFieldResult(name, w, L, R)
           /\ CpuFieldCarry(name, w, L, R) \in BOOLEAN
           /\ name \in {"pext", "pdep"} => CpuField(name, w, L, R).flags = cpuFlags
           /\ name \notin {"pext", "pdep"} =>
                CpuField(name, w, L, R).flags
                    = FieldSet(w, CpuFieldResult(name, w, L, R), cpuFlags,
                               CpuFieldCarry(name, w, L, R))
           /\ CpuField(name, w, L, R).flags \in FlagSets
           /\ CpuField(name, w, L, R).undefined = FieldUndefined(name)
<1> DEFINE c == CpuField(name, w, L, R)
           v == CpuFieldResult(name, w, L, R)
           cf == CpuFieldCarry(name, w, L, R)
<1>1. /\ c.result = v
      /\ name \in {"pext", "pdep"} => c.flags = cpuFlags
      /\ name \notin {"pext", "pdep"} => c.flags = FieldSet(w, v, cpuFlags, cf)
      /\ c.undefined = FieldUndefined(name)
  BY DEF CpuField, FieldSet, CpuFieldCarry, FieldUndefined
<1>2. cf \in BOOLEAN
  <2>1. (L # {}) \in BOOLEAN /\ (L = {}) \in BOOLEAN
        /\ (NatOf({i \in R : i < ByteBits}) >= w) \in BOOLEAN
    OBVIOUS
  <2> QED
    BY <2>1 DEF CpuFieldCarry, FieldNames
<1> HIDE DEF c, v, cf
<1>3. FieldSet(w, v, cpuFlags, cf) \in FlagSets
  BY <1>2, FieldSetIs DEF IsFieldSet
<1> QED
  BY <1>1, <1>2, <1>3 DEF c, v, cf

\* SF and ZF of a result.
LEMMA SignAndZeroAre ==
    ASSUME NEW w \in Nat \ {0}, NEW v \in SUBSET Positions(w), NEW f \in FlagSets
    PROVE  /\ SignZero(w, v, f)["SF"] = ByResult(w, v, f)["SF"]
           /\ SignZero(w, v, f)["ZF"] = ByResult(w, v, f)["ZF"]
           /\ \A g \in FlagNames \ {"SF", "ZF"} : SignZero(w, v, f)[g] = f[g]
           /\ ByResult(w, v, f)["SF"] = computeSignFlag(w, v)
           /\ ByResult(w, v, f)["ZF"] = computeZeroFlag(v)
<1>1. SignZeroParity(w, v, f) = ByResult(w, v, f)
  BY ResultFlagsAgree
<1>2. /\ SignZeroParity(w, v, f)["SF"] = computeSignFlag(w, v)
      /\ SignZeroParity(w, v, f)["ZF"] = computeZeroFlag(v)
  BY DEF SignZeroParity, FlagSets, FlagNames
<1>3. /\ SignZero(w, v, f)["SF"] = computeSignFlag(w, v)
      /\ SignZero(w, v, f)["ZF"] = computeZeroFlag(v)
      /\ \A g \in FlagNames \ {"SF", "ZF"} : SignZero(w, v, f)[g] = f[g]
  BY DEF SignZero, FlagSets, FlagNames
<1> QED
  BY <1>1, <1>2, <1>3

\* The bits of blsi, blsr and blsmsk, and of pext and pdep, are the processor's.
LEMMA FieldResults ==
    ASSUME NEW name \in {"pext", "pdep", "blsi", "blsr", "blsmsk"}, NEW w \in Nat \ {0},
           NEW L \in SUBSET Positions(w), NEW R \in SUBSET Positions(w)
    PROVE  LiftField(name, w, L, R).result = CpuFieldResult(name, w, L, R)
<1>1. \A v, f : Result(v, f).result = v
  BY DEF Result
<1>2. CASE name \in {"pext", "pdep"}
  <2>1. /\ LiftField("pext", w, L, R) = Result(lift_pext(w, L, R), flags)
        /\ LiftField("pdep", w, L, R) = Result(lift_pdep(w, L, R), flags)
        /\ CpuFieldResult("pext", w, L, R) = CpuExtract(L, R)
        /\ CpuFieldResult("pdep", w, L, R) = CpuDeposit(L, R)
    BY DEF LiftField, CpuFieldResult
  <2>2. lift_pext(w, L, R) = CpuExtract(L, R) /\ lift_pdep(w, L, R) = CpuDeposit(L, R)
    BY ExtractIs, DepositIs
  <2> QED
    BY <1>1, <1>2, <2>1, <2>2
<1> DEFINE lowest == IF L = {} THEN {} ELSE {LowestBit(L)}
           temp == Xor(Sub(w, L, {0}), L)
<1>3. CASE name = "blsi"
  <2>1. LiftField(name, w, L, R).result = Sub(w, {}, L) \intersect L
    BY <1>1, <1>3 DEF LiftField, lift_blsi
  <2>2. CpuFieldResult(name, w, L, R) = lowest
    BY <1>3 DEF CpuFieldResult
  <2> QED
    BY <2>1, <2>2, BlsiIs
<1>4. CASE name = "blsr"
  <2>1. LiftField(name, w, L, R).result = Sub(w, L, {0}) \intersect L
    BY <1>1, <1>4 DEF LiftField, lift_blsr
  <2>2. CpuFieldResult(name, w, L, R) = L \ lowest
    BY <1>4 DEF CpuFieldResult
  <2> QED
    BY <2>1, <2>2, BlsrIs
<1>5. CASE name = "blsmsk"
  <2>1. LiftField(name, w, L, R).result = temp
    BY <1>1, <1>5 DEF LiftField, lift_blsmsk
  <2>2. CpuFieldResult(name, w, L, R) = {i \in Positions(w) : \A j \in lowest : i <= j}
    BY <1>5 DEF CpuFieldResult
  <2>3. temp = {i \in Positions(w) : \A j \in lowest : i <= j}
    BY BlsmskIs
  <2> QED
    BY <2>1, <2>2, <2>3
<1> QED
  BY <1>2, <1>3, <1>4, <1>5

\* Where the flags of the lifter and of the processor agree after a bit field.
LEMMA FieldAgrees ==
    ASSUME NEW name \in FieldNames, NEW w \in Widths, NEW L \in SUBSET Positions(w),
           NEW R \in SUBSET Positions(w), flags \in FlagSets, flags = cpuFlags
    PROVE  LET r == LiftField(name, w, L, R)
               c == CpuField(name, w, L, R)
           IN /\ name \in WrongNames \/ r.result = c.result
              /\ Agree(r.flags, c.flags, c.undefined, WrongOf(Instruction(name, w, L, R, 0)))
<1> DEFINE r == LiftField(name, w, L, R)
           c == CpuField(name, w, L, R)
           v == CpuFieldResult(name, w, L, R)
           cf == CpuFieldCarry(name, w, L, R)
           set == FieldSet(w, v, flags, cf)
           i == Instruction(name, w, L, R, 0)
<1>1. w \in Nat \ {0}
  BY WidthsAre
<1>2. \A u, f : Result(u, f).result = u /\ Result(u, f).flags = f
  BY DEF Result
<1>3. /\ c.result = v /\ cf \in BOOLEAN
      /\ name \in {"pext", "pdep"} => c.flags = flags
      /\ name \notin {"pext", "pdep"} => c.flags = set
      /\ c.undefined = FieldUndefined(name)
  BY CpuFieldIs
<1>4. name \in {"pext", "pdep", "blsi", "blsr", "blsmsk"} => r.result = v
  BY <1>1, FieldResults
<1>5. /\ set["CF"] = cf /\ set["OF"] = FALSE
      /\ \A g \in {"DF", "IF"} : set[g] = flags[g]
      /\ \A g \in {"SF", "ZF"} : set[g] = ByResult(w, v, flags)[g]
  <2>1. cf \in BOOLEAN
    BY <1>3
  <2> HIDE DEF v, cf
  <2>2. IsFieldSet(FieldSet(w, v, flags, cf), w, v, flags, cf)
    BY <2>1, FieldSetIs
  <2> QED
    BY <2>2 DEF IsFieldSet
<1>6. i.name = name
  BY DEF Instruction
<1>7. CASE name \in {"pext", "pdep"}
  <2>1. r.flags = flags
    BY <1>2, <1>7 DEF LiftField
  <2> QED
    BY <1>3, <1>4, <1>7, <2>1, SameAgrees
<1>8. CASE name \in {"blsi", "blsr"}
  <2> DEFINE u == r.result
  <2>1. u = v /\ u \in SUBSET Positions(w)
    <3>1. ResultType(w, r)
      BY FieldType
    <3> QED
      BY <1>4, <1>8, <3>1 DEF ResultType
  <2>2. r.flags = SignZero(w, u, flags)
    <3>1. LiftField("blsi", w, L, R).flags
              = SignZero(w, LiftField("blsi", w, L, R).result, flags)
      BY <1>2 DEF LiftField, lift_blsi
    <3>2. LiftField("blsr", w, L, R).flags
              = SignZero(w, LiftField("blsr", w, L, R).result, flags)
      BY <1>2 DEF LiftField, lift_blsr
    <3> QED
      BY <1>8, <3>1, <3>2
  <2>3. WrongOf(i) = {"CF", "OF"}
    BY <1>6, <1>8 DEF WrongOf
  <2> HIDE DEF r, c, i, cf, set, v, u
  <2>4. /\ SignZero(w, u, flags)["SF"] = ByResult(w, u, flags)["SF"]
        /\ SignZero(w, u, flags)["ZF"] = ByResult(w, u, flags)["ZF"]
        /\ \A g \in FlagNames \ {"SF", "ZF"} : SignZero(w, u, flags)[g] = flags[g]
    BY <1>1, <2>1, SignAndZeroAre
  <2>5. c.flags = set /\ c.undefined = {"AF", "PF"}
    BY <1>3, <1>8 DEF FieldUndefined
  <2>6. \A g \in {"SF", "ZF", "DF", "IF"} : r.flags[g] = c.flags[g]
    BY <1>5, <2>1, <2>2, <2>4, <2>5 DEF FlagNames
  <2>7. Agree(r.flags, c.flags, c.undefined, WrongOf(i))
    BY <2>3, <2>5, <2>6 DEF Agree, FlagNames
  <2> QED
    BY <1>3, <1>4, <1>8, <2>7 DEF r, c, i
<1>9. CASE name = "blsmsk"
  <2> DEFINE u == Xor(Sub(w, L, {0}), L)
             s == computeSignFlag(w, u)
             z == computeZeroFlag(L)
             f == [flags EXCEPT !.ZF = FALSE, !.SF = s, !.CF = z]
  <2>1. r = Result(u, f)
    BY <1>9 DEF LiftField, lift_blsmsk
  <2>2. r.result = u /\ r.flags = f
    BY <1>2, <2>1
  <2>3. u = v /\ 0 \in u
    BY <1>1, <1>4, <1>9, <2>2, BlsmskIs
  <2>4. u \in SUBSET Positions(w)
    <3>1. ResultType(w, r)
      BY FieldType
    <3> QED
      BY <2>2, <3>1 DEF ResultType
  <2>5. z = cf
    BY <1>9 DEF CpuFieldCarry, computeZeroFlag
  <2>6. s \in BOOLEAN /\ z \in BOOLEAN
    BY DEF computeSignFlag, computeZeroFlag
  <2>7. WrongOf(i) = {"OF"}
    BY <1>6, <1>9 DEF WrongOf
  <2> HIDE DEF z, s
  <2>8. /\ f["ZF"] = FALSE /\ f["SF"] = s /\ f["CF"] = z
        /\ \A g \in {"DF", "IF"} : f[g] = flags[g]
    BY <2>6 DEF FlagSets, FlagNames
  <2> HIDE DEF r, c, i, cf, set, v, u, f
  <2>9. /\ ByResult(w, u, flags)["SF"] = computeSignFlag(w, u)
        /\ ByResult(w, u, flags)["ZF"] = computeZeroFlag(u)
    BY <1>1, <2>4, SignAndZeroAre
  <2>10. computeZeroFlag(u) = FALSE
    BY <2>3 DEF computeZeroFlag
  <2>11. c.flags = set /\ c.undefined = {"AF", "PF"}
    BY <1>3, <1>9 DEF FieldUndefined
  <2>12. r.flags["SF"] = c.flags["SF"]
    BY <1>5, <2>2, <2>3, <2>8, <2>9, <2>11 DEF s
  <2>13. r.flags["ZF"] = c.flags["ZF"]
    BY <1>5, <2>2, <2>3, <2>8, <2>9, <2>10, <2>11
  <2>14. r.flags["CF"] = c.flags["CF"] /\ \A g \in {"DF", "IF"} : r.flags[g] = c.flags[g]
    BY <1>5, <2>2, <2>5, <2>8, <2>11
  <2>15. Agree(r.flags, c.flags, c.undefined, WrongOf(i))
    BY <2>7, <2>11, <2>12, <2>13, <2>14 DEF Agree, FlagNames
  <2> QED
    BY <1>3, <1>4, <1>9, <2>15 DEF r, c, i
<1>10. CASE name = "bzhi"
  <2> DEFINE n == NatOf(Trunc(3, L))
             u == L \intersect AShr(w, Shl(w, {0}, n), n)
             t == n >= w - 1
             base == SignZero(w, u, flags)
             f == [base EXCEPT !.OF = FALSE, !.CF = t]
  <2>1. r = Result(u, f)
    BY <1>10 DEF LiftField, lift_bzhi
  <2>2. r.flags = f /\ name \in WrongNames
    BY <1>2, <1>10, <2>1 DEF WrongNames
  <2>3. u \in SUBSET Positions(w) /\ t \in BOOLEAN
    OBVIOUS
  <2>4. WrongOf(i) = {"CF", "ZF", "SF"}
    BY <1>6, <1>10 DEF WrongOf
  <2> HIDE DEF u, t
  <2>5. /\ base \in FlagSets
        /\ \A g \in FlagNames \ {"SF", "ZF"} : base[g] = flags[g]
    BY <1>1, <2>3, SignAndZeroAre, SignAndZeroType
  <2> HIDE DEF base
  <2>6. f["OF"] = FALSE /\ \A g \in {"DF", "IF"} : f[g] = base[g]
    BY <2>3, <2>5 DEF FlagSets, FlagNames
  <2> HIDE DEF r, c, i, cf, set, v, f
  <2>7. c.flags = set /\ c.undefined = {"AF", "PF"}
    BY <1>3, <1>10 DEF FieldUndefined
  <2>8. \A g \in {"OF", "DF", "IF"} : r.flags[g] = c.flags[g]
    BY <1>5, <2>2, <2>5, <2>6, <2>7 DEF FlagNames
  <2>9. Agree(r.flags, c.flags, c.undefined, WrongOf(i))
    BY <2>4, <2>7, <2>8 DEF Agree, FlagNames
  <2> QED
    BY <2>2, <2>9 DEF r, c, i
<1>11. CASE name = "bextr"
  <2> DEFINE len == NatOf(Trunc(ByteBits, LShr(R, ByteBits)))
             u == L \intersect AShr(ByteBits, Shl(ByteBits, {0}, len), len)
             z == computeZeroFlag(u)
             f == [flags EXCEPT !.ZF = z]
  <2>1. r = Result(u, f)
    BY <1>11 DEF LiftField, lift_bextr
  <2>2. r.flags = f /\ name \in WrongNames
    BY <1>2, <1>11, <2>1 DEF WrongNames
  <2>3. z \in BOOLEAN
    BY DEF computeZeroFlag
  <2>4. WrongOf(i) = {"CF", "ZF", "OF"}
    BY <1>6, <1>11 DEF WrongOf
  <2> HIDE DEF z
  <2>5. \A g \in {"DF", "IF"} : f[g] = flags[g]
    BY <2>3 DEF FlagSets, FlagNames
  <2> HIDE DEF r, c, i, cf, set, v, f
  <2>6. c.flags = set /\ c.undefined = {"AF", "SF", "PF"}
    BY <1>3, <1>11 DEF FieldUndefined
  <2>7. \A g \in {"DF", "IF"} : r.flags[g] = c.flags[g]
    BY <1>5, <2>2, <2>5, <2>6
  <2>8. Agree(r.flags, c.flags, c.undefined, WrongOf(i))
    BY <2>4, <2>6, <2>7 DEF Agree, FlagNames
  <2> QED
    BY <2>2, <2>8 DEF r, c, i
<1> QED
  BY <1>7, <1>8, <1>9, <1>10, <1>11 DEF FieldNames

\* The bit field instructions are right, but for bzhi and bextr and the flags listed
\* as wrong.
LEMMA BitFieldIsRight ==
    ASSUME TypeOK, BitField
    PROVE  StepRight
<1>1. PICK name \in {"pext", "pdep", "blsi", "blsr", "blsmsk", "bzhi", "bextr"},
          d \in Dests(4 * ByteBits) :
        LET w == Width(d.part)
            L == GetRegisterValue(regs, "rcx", d.part)
            R == GetRegisterValue(regs, "rdx", d.part)
            c == CpuField(name, w, CpuRead(cpuRegs, "rcx", d.part),
                          CpuRead(cpuRegs, "rdx", d.part))
        IN Execute(Lifted(d, LiftField(name, w, L, R)), OnCpu(d, c, c.undefined),
                   Instruction(name, w, L, R, 0))
  BY DEF BitField
<1> DEFINE w == Width(d.part)
           L == GetRegisterValue(regs, "rcx", d.part)
           R == GetRegisterValue(regs, "rdx", d.part)
           K == CpuRead(cpuRegs, "rcx", d.part)
           M == CpuRead(cpuRegs, "rdx", d.part)
           r == LiftField(name, w, L, R)
           c == CpuField(name, w, K, M)
           i == Instruction(name, w, L, R, 0)
<1>2. 4 * ByteBits \in Nat
  BY Sizes8
<1>3. /\ w \in Widths /\ IsPlace(w, d) /\ d.part \in Parts
      /\ "rcx" \in Registers /\ "rdx" \in Registers /\ name \in FieldNames
  BY <1>2, DestIs DEF Registers, FieldNames
<1>4. /\ L \in SUBSET Positions(w) /\ K \in SUBSET Positions(w) /\ (Together => K = L)
      /\ R \in SUBSET Positions(w) /\ M \in SUBSET Positions(w) /\ (Together => M = R)
  BY <1>3, PartIs DEF Together
<1>5. flags \in FlagSets /\ cpuFlags \in FlagSets
  BY DEF TypeOK
<1>6. Execute(Lifted(d, r), OnCpu(d, c, c.undefined), i)
  BY <1>1
<1>7. i.name = name
  BY DEF Instruction
<1> HIDE DEF w, L, R, K, M
<1>8. ResultType(w, r) /\ c.flags \in FlagSets
  BY <1>3, <1>4, <1>5, FieldType, CpuFieldIs
<1>9. ASSUME Together
      PROVE  /\ name \in WrongNames \/ r.result = c.result
             /\ Agree(r.flags, c.flags, c.undefined, WrongOf(i))
  <2>1. c = CpuField(name, w, L, R) /\ flags = cpuFlags
    BY <1>4, <1>9 DEF Together
  <2> QED
    BY <1>3, <1>4, <1>5, <2>1, FieldAgrees
<1> HIDE DEF r, c, i
<1>10. Typed(Lifted(d, r), OnCpu(d, c, c.undefined))
  BY <1>3, <1>8, LiftedIs, OnCpuIs DEF Typed
<1>11. Together => Match(Lifted(d, r), OnCpu(d, c, c.undefined), i)
  BY <1>7, <1>9, OneResult
<1> QED
  BY <1>6, <1>10, <1>11, StepIsRight

-----------------------------------------------------------------------------
(* Moves and flags *)

\* An instruction that leaves the flags, by its writes.
LEMMA MoveAgrees ==
    ASSUME TypeOK, NEW writes, NEW cpuWrites, NEW i, Moves(writes, cpuWrites, i),
           IsWrites(writes), FewWrites(cpuWrites),
           Together => \/ i.name \in WrongNames
                       \/ Apply(CpuWrite, regs, writes) = Apply(CpuWrite, regs, cpuWrites)
    PROVE  StepRight
<1> DEFINE out == Outcome(writes, flags, {})
           cpu == Outcome(cpuWrites, cpuFlags, {})
<1>1. Execute(out, cpu, i)
  BY DEF Moves
<1>2. /\ out.writes = writes /\ out.flags = flags
      /\ cpu.writes = cpuWrites /\ cpu.flags = cpuFlags /\ cpu.undefined = {}
  BY DEF Outcome
<1> HIDE DEF out, cpu
<1>3. Typed(out, cpu)
  BY <1>2 DEF Typed, TypeOK
<1>4. Together => Match(out, cpu, i)
  BY <1>2, SameAgrees DEF Match, Together
<1> QED
  BY <1>1, <1>3, <1>4, StepIsRight

\* One write of the same value by both.
LEMMA OneMove ==
    ASSUME TypeOK, NEW w, NEW d, IsPlace(w, d), NEW v \in SUBSET Positions(w), NEW u, NEW i,
           Moves(<<To(d, v)>>, <<To(d, u)>>, i), Together => i.name \in WrongNames \/ u = v
    PROVE  StepRight
<1> DEFINE writes == <<To(d, v)>>
           cpuWrites == <<To(d, u)>>
<1>1. IsWrite(To(d, v))
  BY ToIs
<1>2. IsWrites(writes) /\ FewWrites(cpuWrites)
  BY <1>1 DEF IsWrites, FewWrites
<1>3. Moves(writes, cpuWrites, i)
  OBVIOUS
<1>4. Together => i.name \in WrongNames \/ writes = cpuWrites
  OBVIOUS
<1> HIDE DEF writes, cpuWrites
<1> QED
  BY <1>2, <1>3, <1>4, MoveAgrees

\* lift_mov between registers and from immediates is right.
LEMMA MoveIsRight ==
    ASSUME TypeOK, Move
    PROVE  StepRight
<1>1. PICK d \in Dests(ByteBits) : \E s \in Sources(d) \ {d} :
        LET w == Width(d.part)
        IN Moves(<<To(d, GetIndexValue(w, s))>>, <<To(d, CpuOperand(w, s))>>,
                 Instruction("mov", w, {}, GetIndexValue(w, s), 0))
  BY DEF Move
<1>2. PICK s \in Sources(d) \ {d} :
        LET w == Width(d.part)
        IN Moves(<<To(d, GetIndexValue(w, s))>>, <<To(d, CpuOperand(w, s))>>,
                 Instruction("mov", w, {}, GetIndexValue(w, s), 0))
  BY <1>1
<1> DEFINE w == Width(d.part)
           v == GetIndexValue(w, s)
           u == CpuOperand(w, s)
           i == Instruction("mov", w, {}, v, 0)
<1>3. ByteBits \in Nat /\ s \in Sources(d)
  BY Sizes8
<1>4. w \in Widths /\ IsPlace(w, d) /\ d.part \in Parts
  BY <1>3, DestIs
<1>5. IsOperand(w, s)
  BY <1>3, <1>4, SourceIs
<1>6. v \in SUBSET Positions(w) /\ (Together => u = v)
  BY <1>4, <1>5, OperandIs DEF Together
<1>7. Moves(<<To(d, v)>>, <<To(d, u)>>, i)
  BY <1>2
<1> HIDE DEF w, v, u, i
<1> QED
  BY <1>4, <1>6, <1>7, OneMove

\* lift_movsx and lift_movzx extend as the processor does.
LEMMA MoveExtendedIsRight ==
    ASSUME TypeOK, MoveExtended
    PROVE  StepRight
<1>1. PICK signed \in BOOLEAN, d \in Dests(2 * ByteBits),
          s \in {RegisterOperand("rcx", p) : p \in Parts} :
        LET to == Width(d.part)
            from == Width(s.part)
            v == GetIndexValue(from, s)
            c == CpuOperand(from, s)
        IN /\ from < to
           /\ from < 4 * ByteBits \/ signed
           /\ Moves(<<To(d, IF signed THEN SExt(from, to, v) ELSE v)>>,
                    <<To(d, BitsOf(to, IF signed THEN SignedOf(from, c) ELSE NatOf(c)))>>,
                    Instruction("movx", to, {}, v, 0))
  BY DEF MoveExtended
<1> DEFINE to == Width(d.part)
           from == Width(s.part)
           v == GetIndexValue(from, s)
           c == CpuOperand(from, s)
           x == IF signed THEN SExt(from, to, v) ELSE v
           y == BitsOf(to, IF signed THEN SignedOf(from, c) ELSE NatOf(c))
           i == Instruction("movx", to, {}, v, 0)
<1>2. PICK p \in Parts : s = RegisterOperand("rcx", p)
  OBVIOUS
<1>3. "rcx" \in Registers
  BY DEF Registers
<1>4. from \in Widths /\ IsOperand(from, s)
  BY <1>2, <1>3, RegisterPlace, WidthsAre
<1>5. to \in Widths /\ IsPlace(to, d)
  BY WideDestIs
<1>6. v \in SUBSET Positions(from) /\ (Together => c = v)
  BY <1>4, OperandIs DEF Together
<1>7. from < to /\ Moves(<<To(d, x)>>, <<To(d, y)>>, i)
  BY <1>1
<1>8. from \in Nat \ {0} /\ from \in Nat /\ to \in Nat /\ from <= to
  BY <1>4, <1>5, <1>7, WidthsAre
<1> HIDE DEF to, from, v, c, i
<1>9. /\ SExt(from, to, v) \in SUBSET Positions(to)
      /\ SExt(from, to, v) = BitsOf(to, SignedOf(from, v))
  BY <1>6, <1>8, SExtIs
<1>10. v = BitsOf(to, NatOf(v)) /\ v \in SUBSET Positions(to)
  BY <1>6, <1>8, ZeroWidened
<1>11. x \in SUBSET Positions(to) /\ (Together => y = x)
  BY <1>6, <1>9, <1>10
<1> HIDE DEF x, y
<1> QED
  BY <1>5, <1>7, <1>11, OneMove

\* The halves of the widths above a byte.
LEMMA HalfWidths ==
    ASSUME NEW p \in Parts \ {"high", "low"}
    PROVE  LET w == Width(p) \div 2
           IN w \in Widths /\ 2 * w = Width(p) /\ 2 * w \in Widths /\ w \in Nat \ {0}
<1>1. ByteBits \in Nat
  BY Sizes8
<1>2. /\ (2 * ByteBits) \div 2 = ByteBits /\ (4 * ByteBits) \div 2 = 2 * ByteBits
      /\ (8 * ByteBits) \div 2 = 4 * ByteBits
  BY <1>1
<1>3. \/ Width(p) = 2 * ByteBits \/ Width(p) = 4 * ByteBits \/ Width(p) = 8 * ByteBits
  BY Sizes8 DEF Parts
<1>4. QwordBits = 8 * ByteBits /\ ByteBits > 1
  BY Sizes8
<1>5. Width(p) \div 2 = ByteBits \/ Width(p) \div 2 = 2 * ByteBits \/ Width(p) \div 2 = 4 * ByteBits
  BY <1>2, <1>3
<1>6. 2 * (Width(p) \div 2) = Width(p)
  BY <1>1, <1>2, <1>3
<1> DEFINE w == Width(p) \div 2
<1>7. w \in Widths /\ Width(p) \in Widths
  BY <1>3, <1>4, <1>5 DEF Widths
<1> QED
  BY <1>6, <1>7, WidthsAre

\* The accumulator of a width, and the other half of a double one.
LEMMA AccumulatorIs ==
    ASSUME NEW w \in Widths
    PROVE  /\ IsPlace(w, Rax(w)) /\ IsOperand(w, Rax(w)) /\ Rax(w).reg = "rax"
           /\ Rax(w).part = PartOfSize(w)
           /\ IsPlace(w, HighHalf(w)) /\ IsOperand(w, HighHalf(w)) /\ Apart(Rax(w), HighHalf(w))
<1>1. "rax" \in Registers /\ "rdx" \in Registers /\ "high" \in Parts /\ Width("high") = ByteBits
  BY Sizes8 DEF Registers, Parts
<1>2. PartOfSize(w) \in Parts /\ Width(PartOfSize(w)) = w /\ PartOfSize(w) # "high"
  BY PartOfSizeIs
<1>3. /\ IsPlace(w, Rax(w)) /\ IsOperand(w, Rax(w)) /\ Rax(w).reg = "rax"
      /\ Rax(w).part = PartOfSize(w)
  BY <1>1, <1>2, RegisterPlace DEF Rax
<1>4. CASE w = ByteBits
  <2>1. HighHalf(w) = RegisterOperand("rax", "high")
    BY <1>4 DEF HighHalf
  <2>2. /\ IsPlace(w, HighHalf(w)) /\ IsOperand(w, HighHalf(w)) /\ HighHalf(w).part = "high"
    BY <1>1, <1>4, <2>1, RegisterPlace
  <2>3. PartOfSize(w) = "low"
    BY <1>2, <1>4, Sizes8 DEF Parts
  <2> QED
    BY <1>3, <2>2, <2>3 DEF Apart
<1>5. CASE w # ByteBits
  <2>1. HighHalf(w) = RegisterOperand("rdx", PartOfSize(w))
    BY <1>5 DEF HighHalf
  <2>2. /\ IsPlace(w, HighHalf(w)) /\ IsOperand(w, HighHalf(w)) /\ HighHalf(w).reg = "rdx"
    BY <1>1, <1>2, <2>1, RegisterPlace
  <2> QED
    BY <1>3, <2>2 DEF Apart
<1> QED
  BY <1>4, <1>5

\* cbw, cwde and cdqe extend the accumulator as the processor does.
LEMMA WidenAccumulatorIsRight ==
    ASSUME TypeOK, WidenAccumulator
    PROVE  StepRight
<1>1. PICK p \in Parts \ {"high", "low"} :
        LET w == Width(p) \div 2
        IN Moves(<<To(Rax(2 * w), SExt(w, 2 * w, GetIndexValue(w, Rax(w))))>>,
                 <<To(Rax(2 * w), BitsOf(2 * w, SignedOf(w, CpuOperand(w, Rax(w)))))>>,
                 Instruction("cbw", 2 * w, {}, {}, 0))
  BY DEF WidenAccumulator
<1> DEFINE w == Width(p) \div 2
           to == 2 * w
           v == GetIndexValue(w, Rax(w))
           c == CpuOperand(w, Rax(w))
           x == SExt(w, to, v)
           y == BitsOf(to, SignedOf(w, c))
           i == Instruction("cbw", to, {}, {}, 0)
<1>2. w \in Widths /\ to \in Widths /\ w \in Nat \ {0} /\ to \in Nat /\ w <= to
  <2>1. w \in Widths /\ to \in Widths /\ w \in Nat \ {0}
    BY HalfWidths
  <2> HIDE DEF w
  <2> QED
    BY <2>1
<1>3. Moves(<<To(Rax(to), x)>>, <<To(Rax(to), y)>>, i)
  BY <1>1
<1> HIDE DEF w, to, i
<1>4. IsPlace(to, Rax(to)) /\ IsOperand(w, Rax(w))
  BY <1>2, AccumulatorIs
<1>5. v \in SUBSET Positions(w) /\ (Together => c = v)
  BY <1>2, <1>4, OperandIs DEF Together
<1> HIDE DEF v, c
<1>6. x \in SUBSET Positions(to) /\ x = BitsOf(to, SignedOf(w, v))
  BY <1>2, <1>5, SExtIs
<1>7. Together => y = x
  BY <1>5, <1>6
<1> HIDE DEF x, y
<1> QED
  BY <1>3, <1>4, <1>6, <1>7, OneMove

\* cwd, cdq and cqo fill rdx with the sign of the accumulator.
LEMMA SignIntoRdxIsRight ==
    ASSUME TypeOK, SignIntoRdx
    PROVE  StepRight
<1>1. PICK p \in Parts \ {"high", "low"} :
        LET w == Width(p)
            v == GetIndexValue(w, Rax(w))
        IN Moves(<<To(HighHalf(w), Pick(~computeSignFlag(w, v), {}, Positions(w)))>>,
                 <<To(HighHalf(w), BitsOf(w, IF SignedOf(w, CpuOperand(w, Rax(w))) < 0
                                             THEN -1 ELSE 0))>>,
                 Instruction("cwd", w, v, {}, 0))
  BY DEF SignIntoRdx
<1> DEFINE w == Width(p)
           v == GetIndexValue(w, Rax(w))
           c == CpuOperand(w, Rax(w))
           x == Pick(~computeSignFlag(w, v), {}, Positions(w))
           y == BitsOf(w, IF SignedOf(w, c) < 0 THEN -1 ELSE 0)
           i == Instruction("cwd", w, v, {}, 0)
<1>2. w \in Widths /\ w \in Nat \ {0}
  BY WidthsAre
<1>3. Moves(<<To(HighHalf(w), x)>>, <<To(HighHalf(w), y)>>, i)
  BY <1>1
<1> HIDE DEF w, i
<1>4. IsPlace(w, HighHalf(w)) /\ IsOperand(w, Rax(w))
  BY <1>2, AccumulatorIs
<1>5. v \in SUBSET Positions(w) /\ (Together => c = v)
  BY <1>2, <1>4, OperandIs DEF Together
<1> HIDE DEF v, c
<1>6. x \in SUBSET Positions(w)
  BY DEF Pick
<1>7. x = BitsOf(w, IF SignedOf(w, v) < 0 THEN -1 ELSE 0)
  BY <1>2, <1>5, SignFill
<1>8. Together => y = x
  BY <1>5, <1>7
<1> HIDE DEF x, y
<1> QED
  BY <1>3, <1>4, <1>6, <1>8, OneMove

\* lift_xchg exchanges the old values, ah with al too.
LEMMA ExchangeIsRight ==
    ASSUME TypeOK, Exchange
    PROVE  StepRight
<1>1. PICK d \in Dests(ByteBits) : \E s \in SourceRegisters(d) \ {d} :
        LET w == Width(d.part)
        IN Moves(<<To(d, GetIndexValue(w, s)), To(s, GetIndexValue(w, d))>>,
                 <<To(s, CpuOperand(w, d)), To(d, CpuOperand(w, s))>>,
                 Instruction("xchg", w, GetIndexValue(w, d), GetIndexValue(w, s), 0))
  BY DEF Exchange
<1>2. PICK s \in SourceRegisters(d) \ {d} :
        LET w == Width(d.part)
        IN Moves(<<To(d, GetIndexValue(w, s)), To(s, GetIndexValue(w, d))>>,
                 <<To(s, CpuOperand(w, d)), To(d, CpuOperand(w, s))>>,
                 Instruction("xchg", w, GetIndexValue(w, d), GetIndexValue(w, s), 0))
  BY <1>1
<1> DEFINE w == Width(d.part)
           L == GetIndexValue(w, d)
           R == GetIndexValue(w, s)
           K == CpuOperand(w, d)
           M == CpuOperand(w, s)
           writes == <<To(d, R), To(s, L)>>
           cpuWrites == <<To(s, K), To(d, M)>>
           i == Instruction("xchg", w, L, R, 0)
<1>3. ByteBits \in Nat /\ s \in SourceRegisters(d) /\ s # d
  BY Sizes8
<1>4. w \in Widths /\ IsPlace(w, d) /\ IsOperand(w, d) /\ d.part \in Parts
  BY <1>3, DestIs
<1>5. IsPlace(w, s) /\ IsOperand(w, s)
  BY <1>3, <1>4, SourceRegisterIs DEF IsOperand
<1>6. /\ L \in SUBSET Positions(w) /\ R \in SUBSET Positions(w)
      /\ Together => K = L /\ M = R
  BY <1>4, <1>5, OperandIs DEF Together
<1>7. Moves(writes, cpuWrites, i)
  BY <1>2
<1>8. Apart(d, s)
  BY <1>3, SourceApart
<1>9. regs \in Files
  BY DEF TypeOK
<1> HIDE DEF w, L, R, K, M, i
<1>10. IsWrites(writes)
  BY <1>4, <1>5, <1>6, TwoWrites
<1>11. FewWrites(cpuWrites)
  BY DEF FewWrites
<1>12. ASSUME Together
       PROVE  Apply(CpuWrite, regs, writes) = Apply(CpuWrite, regs, cpuWrites)
  <2>1. cpuWrites = <<To(s, L), To(d, R)>>
    BY <1>6, <1>12
  <2>2. Apply(CpuWrite, regs, <<To(d, R), To(s, L)>>) = CpuTwice(regs, To(d, R), To(s, L))
    BY CpuTwoWrites
  <2>3. Apply(CpuWrite, regs, <<To(s, L), To(d, R)>>) = CpuTwice(regs, To(s, L), To(d, R))
    BY CpuTwoWrites
  <2>4. CpuTwice(regs, To(d, R), To(s, L)) = CpuTwice(regs, To(s, L), To(d, R))
    BY <1>4, <1>5, <1>6, <1>8, <1>9, EitherOrder
  <2> QED
    BY <2>1, <2>2, <2>3, <2>4
<1> HIDE DEF writes, cpuWrites
<1> QED
  BY <1>7, <1>10, <1>11, <1>12, MoveAgrees

\* lift_lea computes the processor's address, but for an address of 32 bits.
LEMMA LoadAddressIsRight ==
    ASSUME TypeOK, LoadAddress
    PROVE  StepRight
<1>1. PICK d \in {RegisterOperand("rdx", p) : p \in Sizes(2 * ByteBits)},
          part \in {"dword", "qword"}, scale \in {1, 2, 4, 8}, disp \in {0, -1} :
        LET w == Width(d.part)
            sum == NatOf(CpuRead(cpuRegs, "rax", part))
                        + scale * NatOf(CpuRead(cpuRegs, "rcx", part)) + disp
        IN Moves(<<To(d, Trunc(w, GetEffectiveAddress(part, scale, disp)))>>,
                 <<To(d, Trunc(w, BitsOf(Width(part), sum)))>>,
                 Instruction(IF part = "dword" THEN "lea32" ELSE "lea", w, {}, {}, 0))
  BY DEF LoadAddress
<1> DEFINE w == Width(d.part)
           a == CpuRead(cpuRegs, "rax", part)
           b == CpuRead(cpuRegs, "rcx", part)
           sum == NatOf(a) + scale * NatOf(b) + disp
           address == GetEffectiveAddress(part, scale, disp)
           v == Trunc(w, address)
           u == Trunc(w, BitsOf(Width(part), sum))
           i == Instruction(IF part = "dword" THEN "lea32" ELSE "lea", w, {}, {}, 0)
<1>2. PICK p \in Sizes(2 * ByteBits) : d = RegisterOperand("rdx", p)
  OBVIOUS
<1>3. p \in Parts /\ "rdx" \in Registers /\ "rax" \in Registers /\ "rcx" \in Registers
  BY DEF Sizes, Registers
<1>4. IsPlace(w, d)
  BY <1>2, <1>3, RegisterPlace
<1>5. Moves(<<To(d, v)>>, <<To(d, u)>>, i)
  BY <1>1
<1>6. v \in SUBSET Positions(w)
  BY DEF Trunc
<1>7. part = "dword" => i.name \in WrongNames
  BY DEF Instruction, WrongNames
<1>8. ASSUME Together, part = "qword"
      PROVE  u = v
  <2>1. Width(part) = QwordBits /\ part \in Parts
    BY <1>8, Sizes8 DEF Parts
  <2>2. /\ a \in SUBSET Positions(QwordBits) /\ b \in SUBSET Positions(QwordBits)
        /\ GetRegisterValue(regs, "rax", part) = a /\ GetRegisterValue(regs, "rcx", part) = b
    BY <1>3, <1>8, <2>1, PartIs DEF Together
  <2> HIDE DEF a, b
  <2>3. address = Add(QwordBits,
                      Add(QwordBits, a, Mul(QwordBits, b, BitsOf(QwordBits, scale))),
                      BitsOf(QwordBits, disp))
    BY <2>2 DEF GetEffectiveAddress
  <2>4. address = BitsOf(QwordBits, sum)
    BY <2>2, <2>3, AddressIsRight
  <2> QED
    BY <2>1, <2>4
<1>9. Together => i.name \in WrongNames \/ u = v
  BY <1>7, <1>8
<1> HIDE DEF w, a, b, sum, address, v, u, i
<1> QED
  BY <1>4, <1>5, <1>6, <1>9, OneMove

\* The conditional moves write, or keep and still widen, as the processor does.
LEMMA ConditionalMoveIsRight ==
    ASSUME TypeOK, ConditionalMove
    PROVE  StepRight
<1>1. PICK cc \in Conditions, d \in Dests(2 * ByteBits) :
        LET w == Width(d.part)
            src == RegisterOperand("rcx", d.part)
        IN Moves(<<To(d, Pick(Cmovcc(cc, flags), GetIndexValue(w, src), GetIndexValue(w, d)))>>,
                 <<To(d, IF Condition(cc, cpuFlags) THEN CpuOperand(w, src) ELSE CpuOperand(w, d))>>,
                 Instruction("cmovcc", w, {}, {}, 0))
  BY DEF ConditionalMove
<1> DEFINE w == Width(d.part)
           src == RegisterOperand("rcx", d.part)
           L == GetIndexValue(w, d)
           R == GetIndexValue(w, src)
           K == CpuOperand(w, d)
           M == CpuOperand(w, src)
           v == Pick(Cmovcc(cc, flags), R, L)
           u == IF Condition(cc, cpuFlags) THEN M ELSE K
           i == Instruction("cmovcc", w, {}, {}, 0)
<1>2. w \in Widths /\ IsPlace(w, d) /\ IsOperand(w, d) /\ d.part \in Parts
  BY WideDestIs
<1>3. "rcx" \in Registers
  BY DEF Registers
<1>4. IsOperand(w, src)
  BY <1>2, <1>3, RegisterPlace
<1>5. /\ L \in SUBSET Positions(w) /\ R \in SUBSET Positions(w)
      /\ Together => K = L /\ M = R
  BY <1>2, <1>4, OperandIs DEF Together
<1>6. Moves(<<To(d, v)>>, <<To(d, u)>>, i)
  BY <1>1
<1> HIDE DEF w, L, R, K, M, i
<1>7. v \in SUBSET Positions(w)
  BY <1>5 DEF Pick
<1>8. ASSUME Together PROVE u = v
  <2>1. Cmovcc(cc, flags) = Condition(cc, flags) /\ flags = cpuFlags
    BY <1>8, ConditionsAgree DEF Together
  <2> QED
    BY <1>5, <1>8, <2>1 DEF Pick
<1> HIDE DEF v, u
<1> QED
  BY <1>2, <1>6, <1>7, <1>8, OneMove

\* The conditional sets write 1 or 0 as the processor does.
LEMMA SetByteIsRight ==
    ASSUME TypeOK, SetByte
    PROVE  StepRight
<1>1. PICK cc \in Conditions, d \in Dests(ByteBits) :
        /\ d.part \in {"low", "high"}
        /\ Moves(<<To(d, Pick(Setcc(cc, flags), {0}, {}))>>,
                 <<To(d, IF Condition(cc, cpuFlags) THEN {0} ELSE {})>>,
                 Instruction("setcc", ByteBits, {}, {}, 0))
  BY DEF SetByte
<1> DEFINE v == Pick(Setcc(cc, flags), {0}, {})
           u == IF Condition(cc, cpuFlags) THEN {0} ELSE {}
           i == Instruction("setcc", ByteBits, {}, {}, 0)
<1>2. ByteBits \in Nat /\ ByteBits > 1 /\ Width(d.part) = ByteBits
  BY <1>1, Sizes8
<1>3. IsPlace(ByteBits, d)
  BY <1>2, DestIs
<1>4. v \in SUBSET Positions(ByteBits)
  BY <1>2, OneBit DEF Pick
<1>5. Moves(<<To(d, v)>>, <<To(d, u)>>, i)
  BY <1>1
<1>6. ASSUME Together PROVE u = v
  <2>1. Setcc(cc, flags) = Condition(cc, flags) /\ flags = cpuFlags
    BY <1>6, ConditionsAgree DEF Together
  <2> QED
    BY <2>1 DEF Pick
<1> HIDE DEF v, u, i
<1> QED
  BY <1>3, <1>4, <1>5, <1>6, OneMove

\* A conditional jump changes no register and no flag.
LEMMA ConditionalJumpIsRight ==
    ASSUME TypeOK, ConditionalJump
    PROVE  StepRight
<1> DEFINE i == Instruction("jcc", 0, {}, {}, 0)
           none == <<>>
<1>1. Moves(none, none, i)
  BY DEF ConditionalJump
<1>2. IsWrites(none) /\ FewWrites(none)
  BY DEF IsWrites, FewWrites
<1> HIDE DEF i, none
<1> QED
  BY <1>1, <1>2, MoveAgrees

\* clc, stc, cld, std and cli change one flag.
LEMMA FlagInstructionIsRight ==
    ASSUME TypeOK, FlagInstruction
    PROVE  StepRight
<1>1. PICK change \in {<<"CF", TRUE>>, <<"CF", FALSE>>, <<"DF", TRUE>>, <<"DF", FALSE>>,
                      <<"IF", FALSE>>} :
        Execute(Outcome(<<>>, [flags EXCEPT ![change[1]] = change[2]], {}),
                Outcome(<<>>, [cpuFlags EXCEPT ![change[1]] = change[2]], {}),
                Instruction("setflag", 0, {}, {}, 0))
  BY DEF FlagInstruction
<1> DEFINE name == change[1]
           value == change[2]
           f == [flags EXCEPT ![name] = value]
           g == [cpuFlags EXCEPT ![name] = value]
           i == Instruction("setflag", 0, {}, {}, 0)
<1>2. Execute(Outcome(<<>>, f, {}), Outcome(<<>>, g, {}), i)
  BY <1>1
<1>3. name \in FlagNames /\ value \in BOOLEAN
  <2>1. "CF" \in FlagNames /\ "DF" \in FlagNames /\ "IF" \in FlagNames
    BY DEF FlagNames
  <2>2. \E x \in {"CF", "DF", "IF"}, y \in BOOLEAN : change = <<x, y>>
    OBVIOUS
  <2>3. PICK x \in {"CF", "DF", "IF"}, y \in BOOLEAN : change = <<x, y>>
    BY <2>2
  <2>4. name = x /\ value = y
    BY <2>3
  <2> QED
    BY <2>1, <2>4
<1>4. flags \in FlagSets /\ cpuFlags \in FlagSets
  BY DEF TypeOK
<1> HIDE DEF name, value
<1>5. f \in FlagSets /\ g \in FlagSets
  BY <1>3, <1>4 DEF FlagSets
<1>6. Together => f = g
  BY DEF Together
<1>7. Together => Agree(f, g, {}, WrongOf(i))
  BY <1>6, SameAgrees
<1> HIDE DEF f, g, i
<1> QED
  BY <1>2, <1>5, <1>7, OnlyFlags

\* lift_cmc inverts the carry.
LEMMA ComplementCarryIsRight ==
    ASSUME TypeOK, lift_cmc
    PROVE  StepRight
<1> DEFINE f == [flags EXCEPT !.CF = Xor1(@, TRUE)]
           g == [cpuFlags EXCEPT !.CF = ~@]
           i == Instruction("cmc", 0, {}, {}, 0)
           c == Xor1(flags.CF, TRUE)
           b == ~cpuFlags.CF
<1>1. Execute(Outcome(<<>>, f, {}), Outcome(<<>>, g, {}), i)
  BY DEF lift_cmc
<1>2. flags \in FlagSets /\ cpuFlags \in FlagSets
  BY DEF TypeOK
<1>3. "CF" \in FlagNames
  BY DEF FlagNames
<1>4. flags.CF \in BOOLEAN
  BY <1>2, <1>3 DEF FlagSets
<1>5. c \in BOOLEAN /\ b \in BOOLEAN /\ (Together => (c <=> b))
  BY <1>4 DEF Xor1, Together
<1>6. f = [flags EXCEPT !.CF = c] /\ g = [cpuFlags EXCEPT !.CF = b]
  OBVIOUS
<1> HIDE DEF f, g, i, c, b
<1>7. f \in FlagSets /\ g \in FlagSets
  BY <1>2, <1>5, <1>6, CarryType
<1>8. Together => f = g
  BY <1>5, <1>6 DEF Together
<1>9. Together => Agree(f, g, {}, WrongOf(i))
  BY <1>8, SameAgrees
<1> QED
  BY <1>1, <1>7, <1>9, OnlyFlags

-----------------------------------------------------------------------------
(* Products and quotients *)

\* A product of the lifter and of the processor.
LiftProduct(w, L, R, signed) ==
    IF signed THEN lift_imul(w, L, R, flags) ELSE lift_mul(w, L, R, flags)

\* lift_mul and lift_imul have the processor's double-width product and flags.
LEMMA ProductIs ==
    ASSUME NEW w \in Nat \ {0}, NEW L \in SUBSET Positions(w), NEW R \in SUBSET Positions(w),
           NEW signed \in BOOLEAN, flags \in FlagSets
    PROVE  /\ ResultType(2 * w, LiftProduct(w, L, R, signed))
           /\ flags = cpuFlags => LiftProduct(w, L, R, signed) = CpuProduct(w, L, R, signed)
<1>1. \A n : BitsOf(2 * w, n) \in SUBSET Positions(2 * w)
  BY DEF BitsOf
<1>2. \A u, f : Result(u, f).result = u /\ Result(u, f).flags = f
  BY DEF Result
<1>3. CASE signed
  <2> DEFINE n == SignedOf(w, L) * SignedOf(w, R)
             wrong == ~InRange(w, n)
             f == [flags EXCEPT !.CF = wrong, !.OF = wrong]
  <2>1. LiftProduct(w, L, R, signed) = Result(BitsOf(2 * w, n), f)
    <3>1. lift_imul(w, L, R, flags) = SignedProduct(w, L, R, flags)
      BY ImulIsRight
    <3>2. SignedProduct(w, L, R, flags) = Result(BitsOf(2 * w, n), f)
      BY DEF SignedProduct
    <3> QED
      BY <1>3, <3>1, <3>2 DEF LiftProduct
  <2>2. flags = cpuFlags => CpuProduct(w, L, R, signed) = Result(BitsOf(2 * w, n), f)
    BY <1>3 DEF CpuProduct
  <2>3. wrong \in BOOLEAN
    BY DEF InRange
  <2> HIDE DEF wrong
  <2>4. f \in FlagSets
    BY <2>3, CarryAndOverflowType
  <2> HIDE DEF n, f
  <2> QED
    BY <1>1, <1>2, <2>1, <2>2, <2>4 DEF ResultType
<1>4. CASE ~signed
  <2> DEFINE n == NatOf(L) * NatOf(R)
             wrong == n >= 2^w
             f == [flags EXCEPT !.CF = wrong, !.OF = wrong]
  <2>1. LiftProduct(w, L, R, signed) = Result(BitsOf(2 * w, n), f)
    BY <1>4, MulIsRight DEF LiftProduct
  <2>2. flags = cpuFlags => CpuProduct(w, L, R, signed) = Result(BitsOf(2 * w, n), f)
    BY <1>4 DEF CpuProduct
  <2>3. wrong \in BOOLEAN
    OBVIOUS
  <2> HIDE DEF wrong
  <2>4. f \in FlagSets
    BY <2>3, CarryAndOverflowType
  <2> HIDE DEF n, f
  <2> QED
    BY <1>1, <1>2, <2>1, <2>2, <2>4 DEF ResultType
<1> QED
  BY <1>3, <1>4

\* The flags the processor has after a product.
LEMMA CpuProductType ==
    ASSUME NEW w, NEW L, NEW R, NEW signed \in BOOLEAN, cpuFlags \in FlagSets
    PROVE  CpuProduct(w, L, R, signed).flags \in FlagSets
<1> DEFINE n == IF signed THEN SignedOf(w, L) * SignedOf(w, R) ELSE NatOf(L) * NatOf(R)
           wrong == IF signed THEN ~InRange(w, n) ELSE n >= 2^w
           f == [cpuFlags EXCEPT !.CF = wrong, !.OF = wrong]
<1>1. CpuProduct(w, L, R, signed).flags = f
  BY DEF CpuProduct, Result
<1>2. wrong \in BOOLEAN
  <2>1. (~InRange(w, n)) \in BOOLEAN /\ (n >= 2^w) \in BOOLEAN
    BY DEF InRange
  <2> QED
    BY <2>1
<1> HIDE DEF wrong
<1>3. f \in FlagSets
  BY <1>2, CarryAndOverflowType
<1> QED
  BY <1>1, <1>3

\* The two halves of a value of twice the width.
LEMMA HalvesType ==
    ASSUME NEW w \in Nat \ {0}, NEW v \in SUBSET Positions(2 * w)
    PROVE  Trunc(w, v) \in SUBSET Positions(w) /\ Upper(w, v) \in SUBSET Positions(w)
<1>1. \A i \in v : i \in Int /\ i < 2 * w
  <2>1. 2 * w \in Nat
    OBVIOUS
  <2> QED
    BY <2>1, PlaceIsNumber
<1>2. \A i \in LShr(v, w) : i \in Positions(w)
  <2>1. ASSUME NEW j \in v, j >= w PROVE j - w \in Positions(w)
    <3>1. j \in Int /\ j < 2 * w
      BY <1>1
    <3> QED
      BY <2>1, <3>1 DEF Positions
  <2> QED
    BY <2>1 DEF LShr
<1> QED
  BY <1>2 DEF Trunc, Upper

\* A word written to ax is a byte written to al and one written to ah.
LEMMA WordIsBytes ==
    ASSUME NEW old \in SUBSET Positions(QwordBits), NEW v \in SUBSET Positions(2 * ByteBits)
    PROVE  Written(old, "word", v)
               = Written(Written(old, "low", Trunc(ByteBits, v)), "high", Upper(ByteBits, v))
<1>1. ByteBits \in Nat /\ QwordBits = 8 * ByteBits
  BY Sizes8
<1> DEFINE both == {i \in Positions(QwordBits) :
                      IF i \in Positions(2 * ByteBits) THEN i \in v ELSE i \in old}
<1>2. Written(old, "word", v) = both
  <2>1. First("word") = 0 /\ Width("word") = 2 * ByteBits
    BY Sizes8 DEF Parts
  <2>2. \A i \in Positions(QwordBits) : i - 0 = i
    BY WidthsAre DEF Positions
  <2> QED
    BY <2>1, <2>2 DEF Written
<1>3. \A o, u : Written(o, "low", u) = {i \in Positions(QwordBits) :
                                        IF i \in Positions(ByteBits) THEN i \in u ELSE i \in o}
  <2>1. First("low") = 0 /\ Width("low") = ByteBits
    BY Sizes8 DEF Parts
  <2>2. \A i \in Positions(QwordBits) : i - 0 = i
    BY WidthsAre DEF Positions
  <2> QED
    BY <2>1, <2>2 DEF Written
<1>4. \A o, u : Written(o, "high", u)
            = {i \in Positions(QwordBits) :
                 IF i - ByteBits \in Positions(ByteBits) THEN i - ByteBits \in u ELSE i \in o}
  BY Sizes8 DEF Written
<1>5. ASSUME NEW i \in Positions(QwordBits)
      PROVE  /\ i \in Positions(ByteBits) => i - ByteBits \notin Positions(ByteBits)
             /\ i \in Positions(2 * ByteBits) <=>
                    i \in Positions(ByteBits) \/ i - ByteBits \in Positions(ByteBits)
             /\ i - ByteBits \in Positions(ByteBits) =>
                    (i - ByteBits \in Upper(ByteBits, v) <=> i \in v)
             /\ i \in Positions(ByteBits) => (i \in Trunc(ByteBits, v) <=> i \in v)
  <2>1. v \in SUBSET Int /\ ByteBits \in Int /\ i - ByteBits \in Int
    BY <1>1 DEF Positions
  <2>2. i - ByteBits \in LShr(v, ByteBits)
            <=> i - ByteBits \in Nat /\ (i - ByteBits) + ByteBits \in v
    BY <2>1, LShrHas
  <2>3. (i - ByteBits) + ByteBits = i /\ i \in Nat
    BY <1>1 DEF Positions
  <2> QED
    BY <1>1, <2>2, <2>3 DEF Positions, Trunc, Upper
<1> DEFINE low == Written(old, "low", Trunc(ByteBits, v))
<1>6. \A i \in Positions(QwordBits) :
        i \in low <=> IF i \in Positions(ByteBits) THEN i \in v ELSE i \in old
  BY <1>3, <1>5
<1> HIDE DEF low
<1>7. Written(low, "high", Upper(ByteBits, v)) = both
  BY <1>4, <1>5, <1>6
<1> QED
  BY <1>2, <1>7 DEF low

\* A product of bytes, which goes to ax, is written as its two halves to al and ah.
LEMMA AxIsHalves ==
    ASSUME NEW file \in Files, NEW v \in SUBSET Positions(2 * ByteBits)
    PROVE  CpuWrite(file, To(RegisterOperand("rax", "word"), v))
               = CpuTwice(file, To(Rax(ByteBits), Trunc(ByteBits, v)),
                          To(HighHalf(ByteBits), Upper(ByteBits, v)))
<1> DEFINE ax == To(RegisterOperand("rax", "word"), v)
           al == To(Rax(ByteBits), Trunc(ByteBits, v))
           ah == To(HighHalf(ByteBits), Upper(ByteBits, v))
           low == Written(file["rax"], "low", Trunc(ByteBits, v))
<1>1. ByteBits \in Widths /\ ByteBits \in Nat \ {0} /\ "rax" \in Registers
  BY Sizes8 DEF Widths, Registers
<1>2. PartOfSize(ByteBits) = "low"
  BY <1>1, PartOfSizeIs, Sizes8 DEF Parts
<1>3. Trunc(ByteBits, v) \in SUBSET Positions(ByteBits) /\ Upper(ByteBits, v) \in SUBSET Positions(ByteBits)
  BY <1>1, HalvesType
<1>4. IsWrite(al) /\ IsWrite(ah)
  BY <1>1, <1>3, AccumulatorIs, ToIs
<1>5. IsWrite(ax)
  <2>1. "word" \in Parts /\ Width("word") = 2 * ByteBits
    BY Sizes8 DEF Parts
  <2> QED
    BY <1>1, <2>1, RegisterPlace, ToIs
<1>6. /\ ax.reg = "rax" /\ ax.part = "word" /\ ax.value = v
      /\ al.reg = "rax" /\ al.part = "low" /\ al.value = Trunc(ByteBits, v)
      /\ ah.reg = "rax" /\ ah.part = "high" /\ ah.value = Upper(ByteBits, v)
  BY <1>2 DEF To, Write, RegisterOperand, Rax, HighHalf
<1> HIDE DEF ax, al, ah
<1>7. CpuWrite(file, ax) = [file EXCEPT !["rax"] = Written(file["rax"], "word", v)]
  BY <1>5, <1>6, WrittenIs
<1>8. CpuWrite(file, al) = [file EXCEPT !["rax"] = low]
  BY <1>4, <1>6, WrittenIs
<1>9. CpuWrite(file, al) \in Files
  BY CpuWriteType
<1> DEFINE next == CpuWrite(file, al)
<1>10. next \in Files /\ next = [file EXCEPT !["rax"] = low]
  BY <1>8, <1>9
<1> HIDE DEF next
<1>110. next \in Files
  BY <1>10
<1>11. CpuWrite(next, ah) = [next EXCEPT !["rax"] = Written(next["rax"], "high", Upper(ByteBits, v))]
  BY <1>4, <1>6, <1>110, WrittenIs
<1>12. next["rax"] = low
  BY <1>1, <1>10 DEF Files
<1>13. Written(file["rax"], "word", v) = Written(low, "high", Upper(ByteBits, v))
  BY <1>1, WordIsBytes DEF Files
<1>14. CpuWrite(next, ah) = [file EXCEPT !["rax"] = Written(file["rax"], "word", v)]
  <2> DEFINE u == Written(file["rax"], "word", v)
  <2>1. CpuWrite(next, ah) = [next EXCEPT !["rax"] = u]
    BY <1>11, <1>12, <1>13
  <2> HIDE DEF u, low
  <2>2. [next EXCEPT !["rax"] = u] = [file EXCEPT !["rax"] = u]
    BY <1>1, <1>10 DEF Files
  <2> QED
    BY <2>1, <2>2 DEF u
<1> QED
  BY <1>7, <1>14 DEF CpuTwice, next, ax, al, ah

\* imul with two and three operands truncates the product as the processor does.
LEMMA MultiplyIntoIsRight ==
    ASSUME TypeOK, MultiplyInto
    PROVE  StepRight
<1>1. PICK d \in {RegisterOperand("rax", p) : p \in WideParts \ {"low"}} :
       \E s \in {d} \union ImmediateOperands :
        LET w == Width(d.part)
            L == GetRegisterValue(regs, "rcx", d.part)
            R == GetIndexValue(w, s)
            r == lift_imul(w, L, R, flags)
            c == CpuProduct(w, CpuRead(cpuRegs, "rcx", d.part), CpuOperand(w, s), TRUE)
        IN Execute(Outcome(<<To(d, Trunc(w, r.result))>>, r.flags, {}),
                   Outcome(<<To(d, Trunc(w, c.result))>>, c.flags, UndefinedByMul),
                   Instruction(IF s = d THEN "imul2" ELSE "imul3", w, L, R, 0))
  BY DEF MultiplyInto
<1>2. PICK s \in {d} \union ImmediateOperands :
        LET w == Width(d.part)
            L == GetRegisterValue(regs, "rcx", d.part)
            R == GetIndexValue(w, s)
            r == lift_imul(w, L, R, flags)
            c == CpuProduct(w, CpuRead(cpuRegs, "rcx", d.part), CpuOperand(w, s), TRUE)
        IN Execute(Outcome(<<To(d, Trunc(w, r.result))>>, r.flags, {}),
                   Outcome(<<To(d, Trunc(w, c.result))>>, c.flags, UndefinedByMul),
                   Instruction(IF s = d THEN "imul2" ELSE "imul3", w, L, R, 0))
  BY <1>1
<1> DEFINE w == Width(d.part)
           L == GetRegisterValue(regs, "rcx", d.part)
           K == CpuRead(cpuRegs, "rcx", d.part)
           R == GetIndexValue(w, s)
           M == CpuOperand(w, s)
           signed == TRUE
           whole == LiftProduct(w, L, R, signed)
           cpuWhole == CpuProduct(w, K, M, signed)
           r == Result(Trunc(w, whole.result), whole.flags)
           c == Result(Trunc(w, cpuWhole.result), cpuWhole.flags)
           i == Instruction(IF s = d THEN "imul2" ELSE "imul3", w, L, R, 0)
<1>3. PICK p \in WideParts \ {"low"} : d = RegisterOperand("rax", p)
  OBVIOUS
<1>4. p \in Parts /\ "rax" \in Registers /\ "rcx" \in Registers
  BY DEF WideParts, Parts, Registers
<1>5. w \in Widths /\ w \in Nat \ {0} /\ IsPlace(w, d) /\ IsOperand(w, d) /\ d.part \in Parts
  BY <1>3, <1>4, RegisterPlace, WidthsAre
<1>6. IsOperand(w, s)
  BY <1>5, ImmediateIs
<1>7. /\ L \in SUBSET Positions(w) /\ R \in SUBSET Positions(w)
      /\ Together => K = L /\ M = R
  BY <1>4, <1>5, <1>6, PartIs, OperandIs DEF Together
<1>8. flags \in FlagSets /\ cpuFlags \in FlagSets /\ signed \in BOOLEAN
  BY DEF TypeOK
<1>9. whole = lift_imul(w, L, R, flags)
  BY DEF LiftProduct
<1>10. Execute(Lifted(d, r), OnCpu(d, c, UndefinedByMul), i)
  BY <1>2, <1>9 DEF Lifted, OnCpu, Result
<1> HIDE DEF w, L, R, K, M, i, signed
<1>11. ResultType(2 * w, whole) /\ cpuWhole.flags \in FlagSets
  BY <1>5, <1>7, <1>8, ProductIs, CpuProductType
<1>12. Together => whole = cpuWhole
  BY <1>5, <1>7, <1>8, ProductIs DEF Together
<1> HIDE DEF whole, cpuWhole
<1>13. ResultType(w, r) /\ c.flags \in FlagSets
  BY <1>11 DEF ResultType, Result, Trunc
<1>14. Together => r = c
  BY <1>12
<1> HIDE DEF r, c
<1>15. Typed(Lifted(d, r), OnCpu(d, c, UndefinedByMul))
  BY <1>5, <1>13, LiftedIs, OnCpuIs DEF Typed
<1>16. Together => Match(Lifted(d, r), OnCpu(d, c, UndefinedByMul), i)
  BY <1>14, OneResult, SameAgrees
<1> QED
  BY <1>10, <1>15, <1>16, StepIsRight

\* The two halves written to the accumulator and beside it.
LEMMA HalvesAre ==
    ASSUME NEW w \in Widths, NEW low \in SUBSET Positions(w), NEW high \in SUBSET Positions(w)
    PROVE  IsWrites(Halves(w, low, high))
<1>1. IsPlace(w, Rax(w)) /\ IsPlace(w, HighHalf(w))
  BY AccumulatorIs
<1>2. IsWrites(<<To(Rax(w), low), To(HighHalf(w), high)>>)
  BY <1>1, TwoWrites
<1> QED
  BY <1>2 DEF Halves

\* A product and a division write two registers.
LEMMA FewHalves ==
    ASSUME NEW w, NEW low, NEW high
    PROVE  FewWrites(Halves(w, low, high))
  BY DEF FewWrites, Halves

\* mul and imul with one operand are right for every width.
LEMMA MultiplyIsRight ==
    ASSUME TypeOK, Multiply
    PROVE  StepRight
<1>1. PICK name \in {"mul", "imul"}, p \in WideParts :
        LET w == Width(p)
            L == GetRegisterValue(regs, "rcx", p)
            R == GetIndexValue(w, Rax(w))
            r == IF name = "mul" THEN lift_mul(w, L, R, flags) ELSE lift_imul(w, L, R, flags)
            c == CpuProduct(w, CpuRead(cpuRegs, "rcx", p), CpuOperand(w, Rax(w)),
                            name = "imul")
            ax == RegisterOperand("rax", "word")
        IN Execute(Outcome(IF w = ByteBits THEN <<To(ax, r.result)>>
                           ELSE Halves(w, Trunc(w, r.result), Upper(w, r.result)), r.flags, {}),
                   Outcome(Halves(w, Trunc(w, c.result), Upper(w, c.result)), c.flags,
                           UndefinedByMul),
                   Instruction(name, w, L, R, 0))
  BY DEF Multiply
<1> DEFINE w == Width(p)
           L == GetRegisterValue(regs, "rcx", p)
           K == CpuRead(cpuRegs, "rcx", p)
           R == GetIndexValue(w, Rax(w))
           M == CpuOperand(w, Rax(w))
           signed == name = "imul"
           r == LiftProduct(w, L, R, signed)
           c == CpuProduct(w, K, M, signed)
           ax == RegisterOperand("rax", "word")
           both(v) == Halves(w, Trunc(w, v), Upper(w, v))
           writes == IF w = ByteBits THEN <<To(ax, r.result)>> ELSE both(r.result)
           out == Outcome(writes, r.flags, {})
           cpu == Outcome(both(c.result), c.flags, UndefinedByMul)
           i == Instruction(name, w, L, R, 0)
<1>2. r = IF name = "mul" THEN lift_mul(w, L, R, flags) ELSE lift_imul(w, L, R, flags)
  BY DEF LiftProduct
<1>3. Execute(out, cpu, i)
  BY <1>1, <1>2
<1>4. p \in Parts /\ "rax" \in Registers /\ "rcx" \in Registers /\ "word" \in Parts
  BY DEF WideParts, Parts, Registers
<1>5. w \in Widths /\ w \in Nat \ {0}
  BY <1>4, WidthsAre
<1>6. IsOperand(w, Rax(w))
  BY <1>5, AccumulatorIs
<1>7. /\ L \in SUBSET Positions(w) /\ R \in SUBSET Positions(w)
      /\ Together => K = L /\ M = R
  BY <1>4, <1>5, <1>6, PartIs, OperandIs DEF Together
<1>8. flags \in FlagSets /\ cpuFlags \in FlagSets /\ signed \in BOOLEAN /\ regs \in Files
  BY DEF TypeOK
<1> HIDE DEF w, L, R, K, M, i, signed
<1>9. ResultType(2 * w, r) /\ c.flags \in FlagSets
  BY <1>5, <1>7, <1>8, ProductIs, CpuProductType
<1>10. Together => r = c
  BY <1>5, <1>7, <1>8, ProductIs DEF Together
<1> HIDE DEF r, c
<1>11. r.result \in SUBSET Positions(2 * w) /\ r.flags \in FlagSets
  BY <1>9 DEF ResultType
<1>12. Trunc(w, r.result) \in SUBSET Positions(w) /\ Upper(w, r.result) \in SUBSET Positions(w)
  BY <1>5, <1>11, HalvesType
<1>13. IsWrites(both(r.result)) /\ FewWrites(both(c.result))
  BY <1>5, <1>12, HalvesAre, FewHalves
<1>14. w = ByteBits => IsWrite(To(ax, r.result))
  <2>1. Width("word") = 2 * ByteBits
    BY Sizes8
  <2>2. IsPlace(2 * ByteBits, ax)
    BY <1>4, <2>1, RegisterPlace
  <2> QED
    BY <1>11, <2>2, ToIs
<1>15. IsWrites(writes)
  <2>1. CASE w = ByteBits
    BY <1>14, <2>1 DEF IsWrites
  <2>2. CASE w # ByteBits
    BY <1>13, <2>2
  <2> QED
    BY <2>1, <2>2
<1>16. Apply(CpuWrite, regs, writes) = Apply(CpuWrite, regs, both(r.result))
  <2>1. CASE w = ByteBits
    <3>1. Apply(CpuWrite, regs, <<To(ax, r.result)>>) = CpuWrite(regs, To(ax, r.result))
      BY CpuOneWrite
    <3>2. CpuWrite(regs, To(ax, r.result))
            = CpuTwice(regs, To(Rax(w), Trunc(w, r.result)), To(HighHalf(w), Upper(w, r.result)))
      BY <1>8, <1>11, <2>1, AxIsHalves
    <3>3. Apply(CpuWrite, regs, <<To(Rax(w), Trunc(w, r.result)), To(HighHalf(w), Upper(w, r.result))>>)
            = CpuTwice(regs, To(Rax(w), Trunc(w, r.result)), To(HighHalf(w), Upper(w, r.result)))
      BY CpuTwoWrites
    <3> QED
      BY <2>1, <3>1, <3>2, <3>3 DEF Halves
  <2>2. CASE w # ByteBits
    BY <2>2
  <2> QED
    BY <2>1, <2>2
<1>17. /\ out.writes = writes /\ out.flags = r.flags
       /\ cpu.writes = both(c.result) /\ cpu.flags = c.flags /\ cpu.undefined = UndefinedByMul
  BY DEF Outcome
<1> HIDE DEF out, cpu, writes, both
<1>18. Typed(out, cpu)
  BY <1>9, <1>11, <1>13, <1>15, <1>17 DEF Typed
<1>19. Together => Match(out, cpu, i)
  BY <1>10, <1>16, <1>17, SameAgrees DEF Match
<1> QED
  BY <1>3, <1>18, <1>19, StepIsRight

\* div and idiv write quotient and remainder as the processor does, where it does not
\* fault.
LEMMA DivideIsRight ==
    ASSUME TypeOK, Divide
    PROVE  StepRight
<1>1. PICK name \in {"div", "idiv"}, p \in WideParts :
        LET w == Width(p)
            divisor == GetRegisterValue(regs, "rcx", p)
            low  == GetIndexValue(w, Rax(w))
            high == GetIndexValue(w, HighHalf(w))
            r == IF name = "div" THEN lift_div(w, high, low, divisor)
                                 ELSE lift_idiv(w, high, low, divisor)
            cpuDivisor == CpuRead(cpuRegs, "rcx", p)
            both == {i + w : i \in CpuOperand(w, HighHalf(w))} \union CpuOperand(w, Rax(w))
            n == IF name = "div" THEN NatOf(both) ELSE SignedOf(2 * w, both)
            m == IF name = "div" THEN NatOf(cpuDivisor) ELSE SignedOf(w, cpuDivisor)
            q == Quotient(n, m)
        IN /\ m # 0
           /\ IF name = "div" THEN q < 2^w ELSE InRange(w, q)
           /\ Execute(Outcome(Halves(w, r.quotient, r.remainder), flags, {}),
                      Outcome(Halves(w, BitsOf(w, q), BitsOf(w, n - q * m)), cpuFlags,
                              UndefinedByMul \union {"CF", "OF"}),
                      Instruction(name, w, low, divisor, 0))
  BY DEF Divide
<1> DEFINE w == Width(p)
           divisor == GetRegisterValue(regs, "rcx", p)
           low  == GetIndexValue(w, Rax(w))
           high == GetIndexValue(w, HighHalf(w))
           r == IF name = "div" THEN lift_div(w, high, low, divisor)
                                ELSE lift_idiv(w, high, low, divisor)
           cpuDivisor == CpuRead(cpuRegs, "rcx", p)
           cpuLow == CpuOperand(w, Rax(w))
           cpuHigh == CpuOperand(w, HighHalf(w))
           both == {j + w : j \in cpuHigh} \union cpuLow
           n == IF name = "div" THEN NatOf(both) ELSE SignedOf(2 * w, both)
           m == IF name = "div" THEN NatOf(cpuDivisor) ELSE SignedOf(w, cpuDivisor)
           q == Quotient(n, m)
           c == [quotient |-> BitsOf(w, q), remainder |-> BitsOf(w, n - q * m)]
           undefined == UndefinedByMul \union {"CF", "OF"}
           out == Outcome(Halves(w, r.quotient, r.remainder), flags, {})
           cpu == Outcome(Halves(w, c.quotient, c.remainder), cpuFlags, undefined)
           i == Instruction(name, w, low, divisor, 0)
<1>2. m # 0 /\ Execute(out, cpu, i)
  BY <1>1
<1>3. p \in Parts /\ "rcx" \in Registers
  BY DEF WideParts, Parts, Registers
<1>4. w \in Widths /\ w \in Nat \ {0}
  BY <1>3, WidthsAre
<1>5. IsOperand(w, Rax(w)) /\ IsOperand(w, HighHalf(w))
  BY <1>4, AccumulatorIs
<1>6. /\ divisor \in SUBSET Positions(w) /\ low \in SUBSET Positions(w)
      /\ high \in SUBSET Positions(w)
      /\ Together => cpuDivisor = divisor /\ cpuLow = low /\ cpuHigh = high
  BY <1>3, <1>4, <1>5, PartIs, OperandIs DEF Together
<1>7. flags \in FlagSets /\ cpuFlags \in FlagSets
  BY DEF TypeOK
<1> HIDE DEF w, divisor, low, high, cpuDivisor, cpuLow, cpuHigh, i
<1>8. r.quotient \in SUBSET Positions(w) /\ r.remainder \in SUBSET Positions(w)
  BY DEF lift_div, lift_idiv, BitsOf
<1>9. ASSUME Together PROVE r = c
  <2>1. both = {j + w : j \in high} \union low
    BY <1>6, <1>9
  <2> DEFINE dividend == {j + w : j \in high} \union low
  <2>2. both = dividend
    BY <2>1
  <2>3. CASE name = "div"
    <3>1. NatOf(divisor) # 0
      BY <1>2, <1>6, <1>9, <2>3
    <3>2. lift_div(w, high, low, divisor)
            = [quotient |-> BitsOf(w, Quotient(NatOf(dividend), NatOf(divisor))),
               remainder |-> BitsOf(w, NatOf(dividend) -
                                Quotient(NatOf(dividend), NatOf(divisor)) * NatOf(divisor))]
      BY <1>4, <1>6, <3>1, DivIsRight
    <3>3. n = NatOf(dividend) /\ m = NatOf(divisor)
      BY <1>6, <1>9, <2>2, <2>3
    <3> HIDE DEF dividend, both, n, m
    <3> QED
      BY <2>3, <3>2, <3>3
  <2>4. CASE name = "idiv"
    <3>1. SignedOf(w, divisor) # 0
      BY <1>2, <1>6, <1>9, <2>4
    <3>2. lift_idiv(w, high, low, divisor)
            = [quotient |-> BitsOf(w, Quotient(SignedOf(2 * w, dividend), SignedOf(w, divisor))),
               remainder |-> BitsOf(w, SignedOf(2 * w, dividend) -
                    Quotient(SignedOf(2 * w, dividend), SignedOf(w, divisor)) * SignedOf(w, divisor))]
      BY <1>4, <1>6, <3>1, IdivIsRight
    <3>3. n = SignedOf(2 * w, dividend) /\ m = SignedOf(w, divisor)
      BY <1>6, <1>9, <2>2, <2>4
    <3> HIDE DEF dividend, both, n, m
    <3> QED
      BY <2>4, <3>2, <3>3
  <2> QED
    BY <2>3, <2>4
<1> HIDE DEF r, c, both, n, m, q
<1>10. IsWrites(Halves(w, r.quotient, r.remainder)) /\ FewWrites(Halves(w, c.quotient, c.remainder))
  BY <1>4, <1>8, HalvesAre, FewHalves
<1>11. /\ out.writes = Halves(w, r.quotient, r.remainder) /\ out.flags = flags
       /\ cpu.writes = Halves(w, c.quotient, c.remainder) /\ cpu.flags = cpuFlags
       /\ cpu.undefined = undefined
  BY DEF Outcome
<1> HIDE DEF out, cpu, undefined
<1>12. Typed(out, cpu)
  BY <1>7, <1>10, <1>11 DEF Typed
<1>13. Together => Match(out, cpu, i)
  BY <1>9, <1>11, SameAgrees DEF Match, Together
<1> QED
  BY <1>2, <1>12, <1>13, StepIsRight

-----------------------------------------------------------------------------
(* Every step *)

\* Every instruction keeps the types, and what was right before it is right after it.
LEMMA NextIsRight ==
    ASSUME TypeOK, Next
    PROVE  StepRight
<1>1. CASE AddSubLogic
  BY <1>1, AddSubLogicIsRight
<1>2. CASE AndNot
  BY <1>2, AndNotIsRight
<1>3. CASE Compare
  BY <1>3, CompareIsRight
<1>4. CASE OneOperand
  BY <1>4, OneOperandIsRight
<1>5. CASE ExchangeAdd
  BY <1>5, ExchangeAddIsRight
<1>6. CASE CompareExchange
  BY <1>6, CompareExchangeIsRight
<1>7. CASE ShiftRotate
  BY <1>7, ShiftRotateIsRight
<1>8. CASE DoubleShift
  BY <1>8, DoubleShiftIsRight
<1>9. CASE BitTest
  BY <1>9, BitTestIsRight
<1>10. CASE BitScan
  BY <1>10, BitScanIsRight
<1>11. CASE SwapBytes
  BY <1>11, SwapBytesIsRight
<1>12. CASE BitField
  BY <1>12, BitFieldIsRight
<1>13. CASE Multiply
  BY <1>13, MultiplyIsRight
<1>14. CASE MultiplyInto
  BY <1>14, MultiplyIntoIsRight
<1>15. CASE Divide
  BY <1>15, DivideIsRight
<1>16. CASE Move
  BY <1>16, MoveIsRight
<1>17. CASE MoveExtended
  BY <1>17, MoveExtendedIsRight
<1>18. CASE WidenAccumulator
  BY <1>18, WidenAccumulatorIsRight
<1>19. CASE SignIntoRdx
  BY <1>19, SignIntoRdxIsRight
<1>20. CASE Exchange
  BY <1>20, ExchangeIsRight
<1>21. CASE LoadAddress
  BY <1>21, LoadAddressIsRight
<1>22. CASE ConditionalMove
  BY <1>22, ConditionalMoveIsRight
<1>23. CASE SetByte
  BY <1>23, SetByteIsRight
<1>24. CASE ConditionalJump
  BY <1>24, ConditionalJumpIsRight
<1>25. CASE FlagInstruction
  BY <1>25, FlagInstructionIsRight
<1>26. CASE lift_cmc
  BY <1>26, ComplementCarryIsRight
<1> QED
  BY <1>1, <1>2, <1>3, <1>4, <1>5, <1>6, <1>7, <1>8, <1>9, <1>10, <1>11, <1>12, <1>13, <1>14,
     <1>15, <1>16, <1>17, <1>18, <1>19, <1>20, <1>21, <1>22, <1>23, <1>24, <1>25, <1>26 DEF Next

\* The registers start as values of their size, and the two start with the same.
LEMMA StartIsRight ==
    ASSUME Init
    PROVE  TypeOK /\ Together /\ steps = 0
<1>1. {BitsOf(QwordBits, n) : n \in Samples} \subseteq SUBSET Positions(QwordBits)
  BY DEF BitsOf
<1>2. regs \in Files
  BY <1>1 DEF Init, Files
<1>3. flags \in FlagSets
  <2>1. PICK set \in FlagSamples : flags = [f \in FlagNames |-> f \in set]
    BY DEF Init
  <2>2. \A f \in FlagNames : (f \in set) \in BOOLEAN
    OBVIOUS
  <2> QED
    BY <2>1, <2>2 DEF FlagSets
<1>4. cpuRegs = regs /\ cpuFlags = flags /\ steps = 0
  BY DEF Init
<1>5. 0 \in 0 .. MaxSteps
  BY DataAssumption
<1> QED
  BY <1>2, <1>3, <1>4, <1>5 DEF TypeOK, Together

\* Whatever instructions are carried out, registers and flags stay values of the
\* processor's sizes: no handler writes past the width of its operand.
THEOREM ValuesFit == Spec => []TypeOK
<1>1. Init => TypeOK
  BY StartIsRight
<1>2. TypeOK /\ [Next]_vars => TypeOK'
  <2> SUFFICES ASSUME TypeOK, [Next]_vars PROVE TypeOK'
    OBVIOUS
  <2>1. CASE Next
    BY <2>1, NextIsRight DEF StepRight
  <2>2. CASE UNCHANGED vars
    BY <2>2 DEF TypeOK, vars
  <2> QED
    BY <2>1, <2>2
<1> QED
  BY <1>1, <1>2, PTL DEF Spec

\* Where the lifter and the processor have the same registers and flags, every
\* instruction leaves them with the same, but for the names and flags listed as wrong.
THEOREM StepsAreRight == Spec => [][Together => RegistersAreRight' /\ FlagsAreRight']_vars
<1>1. TypeOK /\ [Next]_vars => [Together => RegistersAreRight' /\ FlagsAreRight']_vars
  BY NextIsRight DEF StepRight
<1> QED
  BY <1>1, ValuesFit, PTL DEF Spec

\* A step with no wrong result and no wrong flag keeps the two together, so a program
\* of such instructions, of any length, is lifted to what the processor does.
THEOREM RightStepsStayTogether ==
    Spec => [][Together /\ ~WrongResult' /\ WrongFlags' = {} => Together']_vars
<1>1. ASSUME TypeOK, Next, Together, ~WrongResult', WrongFlags' = {}
      PROVE  Together'
  <2>1. TypeOK' /\ RegistersAreRight' /\ FlagsAreRight'
    BY <1>1, NextIsRight DEF StepRight
  <2>2. regs' = cpuRegs'
    BY <1>1, <2>1 DEF RegistersAreRight
  <2>3. \A f \in FlagNames : flags'[f] = cpuFlags'[f]
    BY <1>1, <2>1 DEF FlagsAreRight
  <2>4. flags' = cpuFlags'
    BY <2>1, <2>3 DEF TypeOK, FlagSets
  <2> QED
    BY <2>2, <2>4 DEF Together
<1>2. TypeOK /\ [Next]_vars
        => [Together /\ ~WrongResult' /\ WrongFlags' = {} => Together']_vars
  BY <1>1
<1> QED
  BY <1>2, ValuesFit, PTL DEF Spec

\* The first instruction starts from the same registers and flags, whatever they are.
FirstIsRight ==
    /\ TypeOK
    /\ steps = 0 => Together
    /\ steps <= 1 => RegistersAreRight /\ FlagsAreRight

\* The invariant of the first instruction: the two start the same, and one step keeps
\* them right.
LEMMA FirstIsKept == Spec => []FirstIsRight
<1>1. Init => FirstIsRight
  <2> SUFFICES ASSUME Init PROVE FirstIsRight
    OBVIOUS
  <2>1. TypeOK /\ Together /\ steps = 0
    BY StartIsRight
  <2> QED
    BY <2>1 DEF FirstIsRight, Together, RegistersAreRight, FlagsAreRight
<1>2. FirstIsRight /\ [Next]_vars => FirstIsRight'
  <2> SUFFICES ASSUME FirstIsRight, [Next]_vars PROVE FirstIsRight'
    OBVIOUS
  <2>1. CASE Next
    <3>1. StepRight
      BY <2>1, NextIsRight DEF FirstIsRight
    <3>2. steps \in Nat
      BY DEF FirstIsRight, TypeOK
    <3>3. steps' <= 1 => steps = 0
      BY <3>1, <3>2 DEF StepRight
    <3>4. steps' # 0
      BY <3>1, <3>2 DEF StepRight
    <3> QED
      BY <3>1, <3>3, <3>4 DEF StepRight, FirstIsRight
  <2>2. CASE UNCHANGED vars
    BY <2>2 DEF FirstIsRight, TypeOK, Together, RegistersAreRight, FlagsAreRight, WrongResult,
                WrongFlags, vars
  <2> QED
    BY <2>1, <2>2
<1> QED
  BY <1>1, <1>2, PTL DEF Spec

\* After one instruction, from any registers and flags, the registers are right.
THEOREM OneInstructionIsRight == Spec => [](steps <= 1 => RegistersAreRight)
<1>1. FirstIsRight => (steps <= 1 => RegistersAreRight)
  BY DEF FirstIsRight
<1> QED
  BY <1>1, FirstIsKept, PTL

\* And so are the flags the processor defines.
THEOREM FlagsAreRightAtOnce == Spec => [](steps <= 1 => FlagsAreRight)
<1>1. FirstIsRight => (steps <= 1 => FlagsAreRight)
  BY DEF FirstIsRight
<1> QED
  BY <1>1, FirstIsKept, PTL

-----------------------------------------------------------------------------
(* Comparisons and the conditions that test them *)

\* What the flags say of two operands: below unsigned, equal, less signed.
Compared(w, L, R, f) ==
    /\ f \in FlagSets
    /\ f.CF <=> NatOf(L) < NatOf(R)
    /\ f.ZF <=> L = R
    /\ (f.SF # f.OF) <=> SignedOf(w, L) < SignedOf(w, R)

\* The flags of a subtraction compare its operands, across signed overflow.
LEMMA SubCompares ==
    ASSUME NEW w \in Widths, NEW L \in SUBSET Positions(w), NEW R \in SUBSET Positions(w),
           NEW f \in FlagSets
    PROVE  Compared(w, L, R, CpuSub(w, L, R, 0, f).flags)
<1> DEFINE g == CpuSub(w, L, R, 0, f).flags
           H == 2^(w - 1)
           a == NatOf(L)
           b == NatOf(R)
           n == a - b - 0
           s == BitsOf(w, n)
           d == NatOf(s)
           cf == n < 0
           of == ~InRange(w, SignedOf(w, L) - SignedOf(w, R) - 0)
           af == Nibble(L) < Nibble(R) + 0
           sf == SignedOf(w, s) < 0
           zf == NatOf(s) = 0
           pf == EvenParity(s)
<1>1. w \in Nat /\ w \in Nat \ {0}
  BY WidthsAre
<1>2. g \in FlagSets
  BY CpuSubType
<1>3. g = [[f EXCEPT !.SF = sf, !.ZF = zf, !.PF = pf] EXCEPT !.CF = cf, !.OF = of, !.AF = af]
  BY DEF CpuSub, ByResult
<1>4. /\ H \in Nat \ {0} /\ 2^w = 2 * H
      /\ a \in 0 .. 2 * H - 1
      /\ SignedOf(w, L) = IF a >= H THEN a - 2 * H ELSE a
  BY <1>1, SignedIs
<1>5. /\ b \in 0 .. 2 * H - 1
      /\ SignedOf(w, R) = IF b >= H THEN b - 2 * H ELSE b
  BY <1>1, SignedIs
<1>6. s \in SUBSET Positions(w) /\ d = IF n < 0 THEN n + 2^w ELSE n
  BY <1>1, DifferenceIs
<1>7. d \in 0 .. 2 * H - 1 /\ SignedOf(w, s) = IF d >= H THEN d - 2 * H ELSE d
  <2> HIDE DEF s
  <2> QED
    BY <1>1, <1>6, SignedIs
<1>8. cf <=> a < b
  BY <1>4, <1>5
<1>9. zf <=> L = R
  <2>1. zf <=> a = b
    BY <1>4, <1>5, <1>6
  <2> QED
    BY <1>1, <2>1, SameNumber
<1>10. (sf # of) <=> SignedOf(w, L) < SignedOf(w, R)
  <2>1. of <=> ~(-H <= SignedOf(w, L) - SignedOf(w, R) /\ SignedOf(w, L) - SignedOf(w, R) < H)
    BY <1>4, <1>5 DEF InRange
  <2> HIDE DEF H, a, b, s, d, of
  <2>2. sf <=> d >= H
    BY <1>4, <1>7
  <2>3. d = IF a - b < 0 THEN a - b + 2 * H ELSE a - b
    BY <1>4, <1>5, <1>6
  <2> HIDE DEF n, sf
  <2>4. of \in BOOLEAN /\ sf \in BOOLEAN
    BY DEF of, sf, InRange
  <2> QED
    BY <1>4, <1>5, <2>1, <2>2, <2>3, <2>4
<1> HIDE DEF cf, of, af, sf, zf, pf
<1>11. DOMAIN f = FlagNames
  BY DEF FlagSets
<1>12. g.CF = cf /\ g.ZF = zf /\ g.SF = sf /\ g.OF = of
  BY <1>3, <1>11 DEF FlagNames
<1> QED
  BY <1>2, <1>8, <1>9, <1>10, <1>12 DEF Compared

\* What the name of a condition says of two operands.
Says(w, L, R) ==
    LET below == NatOf(L) < NatOf(R)
        less == SignedOf(w, L) < SignedOf(w, R)
    IN [b |-> below, nb |-> ~below, be |-> below \/ L = R, nbe |-> ~below /\ L # R,
        l |-> less, nl |-> ~less, le |-> less \/ L = R, nle |-> ~less /\ L # R,
        z |-> L = R, nz |-> L # R]

\* Every conditional instruction tests it.
Decided(says, f) ==
    \A cc \in DOMAIN says :
        /\ branchHelper(Jcc(cc, f)) = says[cc]
        /\ Setcc(cc, f) = says[cc]
        /\ Cmovcc(cc, f) = says[cc]

\* Flags that compare two operands decide each of the ten conditions as it is named.
LEMMA ComparedDecides ==
    ASSUME NEW w, NEW L, NEW R, NEW f, Compared(w, L, R, f)
    PROVE  Decided(Says(w, L, R), f)
<1> DEFINE below == NatOf(L) < NatOf(R)
           less == SignedOf(w, L) < SignedOf(w, R)
           equal == L = R
           says == Says(w, L, R)
<1>1. /\ f.CF \in BOOLEAN /\ f.ZF \in BOOLEAN /\ f.SF \in BOOLEAN /\ f.OF \in BOOLEAN
      /\ below \in BOOLEAN /\ less \in BOOLEAN /\ equal \in BOOLEAN
  BY DEF Compared, FlagSets, FlagNames
<1>2. (f.CF <=> below) /\ (f.ZF <=> equal) /\ ((f.SF # f.OF) <=> less)
  BY DEF Compared
<1>3. /\ DOMAIN says = {"b", "nb", "be", "nbe", "l", "nl", "le", "nle", "z", "nz"}
      /\ says["b"] = below /\ says["nb"] = ~below
      /\ says["be"] = (below \/ equal) /\ says["nbe"] = (~below /\ ~equal)
      /\ says["l"] = less /\ says["nl"] = ~less
      /\ says["le"] = (less \/ equal) /\ says["nle"] = (~less /\ ~equal)
      /\ says["z"] = equal /\ says["nz"] = ~equal
  BY DEF Says
<1> HIDE DEF below, less, equal, says
<1>4. \A cc \in DOMAIN says : Condition(cc, f) = says[cc]
  <2> TAKE cc \in DOMAIN says
  <2>1. CASE cc = "b"
    BY <1>1, <1>2, <1>3, <2>1 DEF Condition
  <2>2. CASE cc = "nb"
    BY <1>1, <1>2, <1>3, <2>2 DEF Condition
  <2>3. CASE cc = "be"
    BY <1>1, <1>2, <1>3, <2>3 DEF Condition
  <2>4. CASE cc = "nbe"
    BY <1>1, <1>2, <1>3, <2>4 DEF Condition
  <2>5. CASE cc = "l"
    BY <1>1, <1>2, <1>3, <2>5 DEF Condition
  <2>6. CASE cc = "nl"
    BY <1>1, <1>2, <1>3, <2>6 DEF Condition
  <2>7. CASE cc = "le"
    BY <1>1, <1>2, <1>3, <2>7 DEF Condition
  <2>8. CASE cc = "nle"
    BY <1>1, <1>2, <1>3, <2>8 DEF Condition
  <2>9. CASE cc = "z"
    BY <1>1, <1>2, <1>3, <2>9 DEF Condition
  <2>10. CASE cc = "nz"
    BY <1>1, <1>2, <1>3, <2>10 DEF Condition
  <2> QED
    BY <1>3, <2>1, <2>2, <2>3, <2>4, <2>5, <2>6, <2>7, <2>8, <2>9, <2>10
<1>5. DOMAIN says \subseteq Conditions
  BY <1>3 DEF Conditions
<1> QED
  BY <1>4, <1>5, ConditionsAgree DEF Decided, says

\* What holds of the last instruction's operands and the lifter's flags.
LastCompared ==
    last.name \in {"cmp", "sub"} => Compared(last.width, last.left, last.right, flags)

\* Flags that compare the last operands decide every condition.
LEMMA LastDecides ==
    ASSUME LastCompared
    PROVE  ComparisonsDecideBranches
<1> SUFFICES ASSUME last.name \in {"cmp", "sub"}
             PROVE  Decided(Says(last.width, last.left, last.right), flags)
  BY DEF ComparisonsDecideBranches, Decided, Says
<1> QED
  BY ComparedDecides DEF LastCompared

\* lift_cmp sets flags that compare its operands.
LEMMA CompareCompares ==
    ASSUME TypeOK, Compare
    PROVE  LastCompared'
<1>1. PICK name \in {"cmp", "test"}, d \in Dests(ByteBits) : \E s \in Sources(d) :
        LET w == Width(d.part)
            L == GetIndexValue(w, d)
            R == GetIndexValue(w, s)
            cpu == CpuAlu(IF name = "cmp" THEN "sub" ELSE "and", w, CpuOperand(w, d),
                          CpuOperand(w, s))
        IN Execute(Outcome(<<>>, IF name = "cmp" THEN lift_cmp(w, L, R, flags)
                                 ELSE lift_test(w, L, R, flags), {}),
                   Outcome(<<>>, cpu.flags, AfUndefined(name)),
                   Instruction(name, w, L, R, 0))
  BY DEF Compare
<1>2. PICK s \in Sources(d) :
        LET w == Width(d.part)
            L == GetIndexValue(w, d)
            R == GetIndexValue(w, s)
            cpu == CpuAlu(IF name = "cmp" THEN "sub" ELSE "and", w, CpuOperand(w, d),
                          CpuOperand(w, s))
        IN Execute(Outcome(<<>>, IF name = "cmp" THEN lift_cmp(w, L, R, flags)
                                 ELSE lift_test(w, L, R, flags), {}),
                   Outcome(<<>>, cpu.flags, AfUndefined(name)),
                   Instruction(name, w, L, R, 0))
  BY <1>1
<1> DEFINE w == Width(d.part)
           L == GetIndexValue(w, d)
           R == GetIndexValue(w, s)
           f == IF name = "cmp" THEN lift_cmp(w, L, R, flags) ELSE lift_test(w, L, R, flags)
<1>3. last' = Instruction(name, w, L, R, 0) /\ flags' = f
  BY <1>2 DEF Execute, Outcome
<1>4. w \in Widths /\ IsOperand(w, d) /\ IsOperand(w, s)
  BY Sizes8, DestIs, SourceIs
<1>5. L \in SUBSET Positions(w) /\ R \in SUBSET Positions(w) /\ flags \in FlagSets
  BY <1>4, OperandIs DEF TypeOK
<1>6. w \in Nat /\ w >= ByteBits
  BY <1>4, WidthsAre
<1>7. name = "cmp" => f = lift_cmp(w, L, R, flags)
  OBVIOUS
<1> HIDE DEF w, L, R, f
<1>8. last'.name = name /\ last'.width = w /\ last'.left = L /\ last'.right = R
  BY <1>3 DEF Instruction
<1>9. name = "cmp" => Compared(w, L, R, f)
  <2>1. Compared(w, L, R, CpuSub(w, L, R, 0, flags).flags)
    BY <1>4, <1>5, SubCompares
  <2>2. lift_cmp(w, L, R, flags) = CpuSub(w, L, R, 0, flags).flags
    BY <1>5, <1>6, CmpIsRight
  <2> QED
    BY <1>7, <2>1, <2>2
<1> QED
  BY <1>3, <1>8, <1>9 DEF LastCompared

\* lift_sub sets flags that compare its operands as they were before the write.
LEMMA SubtractCompares ==
    ASSUME TypeOK, AddSubLogic
    PROVE  LastCompared'
<1>1. PICK name \in {"add", "sub", "adc", "sbb", "and", "or", "xor"},
           d \in Dests(ByteBits) : \E s \in Sources(d) :
        LET w == Width(d.part)
            L == GetIndexValue(w, d)
            R == GetIndexValue(w, s)
        IN Execute(Lifted(d, LiftAlu(name, w, L, R)),
                   OnCpu(d, CpuAlu(name, w, CpuOperand(w, d), CpuOperand(w, s)),
                         AfUndefined(name)),
                   Instruction(name, w, L, R, 0))
  BY DEF AddSubLogic
<1>2. PICK s \in Sources(d) :
        LET w == Width(d.part)
            L == GetIndexValue(w, d)
            R == GetIndexValue(w, s)
        IN Execute(Lifted(d, LiftAlu(name, w, L, R)),
                   OnCpu(d, CpuAlu(name, w, CpuOperand(w, d), CpuOperand(w, s)),
                         AfUndefined(name)),
                   Instruction(name, w, L, R, 0))
  BY <1>1
<1> DEFINE w == Width(d.part)
           L == GetIndexValue(w, d)
           R == GetIndexValue(w, s)
           r == LiftAlu(name, w, L, R)
<1>3. last' = Instruction(name, w, L, R, 0) /\ flags' = r.flags
  BY <1>2 DEF Execute, Lifted, Outcome
<1>4. w \in Widths /\ IsOperand(w, d) /\ IsOperand(w, s)
  BY Sizes8, DestIs, SourceIs
<1>5. L \in SUBSET Positions(w) /\ R \in SUBSET Positions(w) /\ flags \in FlagSets
  BY <1>4, OperandIs DEF TypeOK
<1>6. w \in Nat /\ w >= ByteBits
  BY <1>4, WidthsAre
<1>7. name = "sub" => r = lift_sub(w, L, R, flags)
  BY DEF LiftAlu
<1> HIDE DEF w, L, R, r
<1>8. last'.name = name /\ last'.width = w /\ last'.left = L /\ last'.right = R
  BY <1>3 DEF Instruction
<1>9. name = "sub" => Compared(w, L, R, r.flags)
  <2>1. Compared(w, L, R, CpuSub(w, L, R, 0, flags).flags)
    BY <1>4, <1>5, SubCompares
  <2>2. lift_sub(w, L, R, flags) = CpuSub(w, L, R, 0, flags)
    BY <1>5, <1>6, SubIsRight
  <2> QED
    BY <1>7, <2>1, <2>2
<1>10. name # "cmp"
  OBVIOUS
<1> QED
  BY <1>3, <1>8, <1>9, <1>10 DEF LastCompared

\* After cmp or sub of two operands, of any width and from any state, each conditional
\* jump, set and move tests what its name says of them, signed or unsigned.
THEOREM ComparisonsAlwaysDecide == Spec => []ComparisonsDecideBranches
<1>1. Init => LastCompared
  BY DEF Init, LastCompared, NoInstruction, Instruction
<1>2. TypeOK /\ LastCompared /\ [Next]_vars => LastCompared'
  <2> SUFFICES ASSUME TypeOK, LastCompared, [Next]_vars PROVE LastCompared'
    OBVIOUS
  <2>1. CASE Compare
    BY <2>1, CompareCompares
  <2>2. CASE AddSubLogic
    BY <2>2, SubtractCompares
  <2>3. CASE ConditionalJump
    <3>1. last'.name = "jcc"
      BY <2>3, Moved DEF ConditionalJump, Instruction
    <3> QED
      BY <3>1 DEF LastCompared
  <2>4. CASE Next /\ ~ConditionalJump /\ ~Compare /\ ~AddSubLogic
    <3>1. last'.name \notin {"cmp", "sub"}
      BY <2>4, OtherNames
    <3> QED
      BY <3>1 DEF LastCompared
  <2>5. CASE UNCHANGED vars
    BY <2>5 DEF LastCompared, vars
  <2> QED
    BY <2>1, <2>2, <2>3, <2>4, <2>5
<1>3. LastCompared => ComparisonsDecideBranches
  BY LastDecides
<1> QED
  BY <1>1, <1>2, <1>3, ValuesFit, PTL DEF Spec
=============================================================================
