-------------------------- MODULE PathExploration --------------------------
(***************************************************************************)
(* The path explorer of the concolic lifter: the worklist of basic blocks  *)
(* that asm_to_zydis_to_lift pops, the instruction loop of                 *)
(* liftBasicBlockFromAddress, solvePath, which turns a jump target into    *)
(* one or two new blocks, and the backups that let the lifter come back to *)
(* the second side of a branch.  Control flow is in Unflatten mode, the    *)
(* only mode lifterConcolic has: every jump creates a new block.           *)
(*                                                                         *)
(* The program being lifted is arbitrary: the instruction found at an      *)
(* address is any of the classes in Instrs.  A constant is kept where the  *)
(* code branches on it (addresses, RSP, a condition assumed true or        *)
(* false), any other value is Unknown.                                     *)
(*                                                                         *)
(* cpu, entry and usedPointer are history variables: nothing the lifter    *)
(* does depends on them.  cpu and entry say what the processor would hold  *)
(* at the same point of the same path, for the properties to compare.      *)
(*                                                                         *)
(* A stack word the program reads without having stored it is the one the  *)
(* caller left there for the processor, but for the lifter it is whatever  *)
(* the executable file answers.  From that word on cpu follows the lifter, *)
(* and says so in astray.                                                  *)
(***************************************************************************)
EXTENDS Integers, Sequences

CONSTANTS
    Addrs,          \* the addresses code may be lifted at
    EntryAddr,      \* runtime_address, where lifting starts
    Conds,          \* the i1 instructions a path may be split on
    Unknown,        \* a value that is not a constant
    None,           \* no block, no backup, no assumption, nothing stored
    EntryRbp,       \* the argument of the lifted function that RBP starts with
    FileWord,       \* slot -> the word file.readMemory answers for it
    Instrs,         \* the classes of instructions the program uses
    MaxBlocks,      \* bound: basic blocks created
    StackBelow,     \* bound: slots of the stack below STACKP_VALUE
    StackAbove      \* bound: slots of the stack above STACKP_VALUE

InstrClasses == {"compute", "compare", "push", "pop", "popfq", "set_rsp", "leave",
                 "jmp", "jmp_register", "jmp_wide", "jcc", "call",
                 "call_register", "call_outlined", "ret", "stop"}

ASSUME ConstantsAssumption ==
    /\ Addrs \subseteq Int
    /\ EntryAddr \in Addrs
    /\ Unknown \notin Int
    /\ None \notin Int \cup Conds \cup {Unknown}
    /\ EntryRbp \notin Int \cup {Unknown}
    /\ {0, 1} \cap Conds = {}
    /\ Instrs \subseteq InstrClasses
    /\ MaxBlocks \in Nat \ {0}
    /\ StackBelow \in Nat /\ StackAbove \in Nat

VARIABLES
    unvisited,      \* unvisitedBlocks: the worklist, a vector used as a stack
    filter,         \* the filter of asm_to_zydis_to_lift, 0 for the first block
    run,            \* 0 when the current block is complete
    finished,       \* 1 when the current block ends its path
    aborted,        \* an UNREACHABLE was reached
    blockInfo,      \* the block getOrCreateBB draws its edge from
    cur,            \* the block the IR builder inserts into
    nblocks,        \* blocks created so far
    blocks,         \* block -> [addr, dtParent, lifted, term]
    computed,       \* the conditions computed so far
    live,           \* the lifter's registers, flags, memory, cache, assumptions
    BBbackup,       \* block -> backup_point
    GEPcache,       \* the block that holds the pointer to [EntryRbp]
    usedPointer,    \* history: the block that defines the pointer of the last
                    \* load popStack emitted on this path
    cpu,            \* history: what the processor holds on this path
    entry           \* history: block -> what it holds on entering the block

control == <<unvisited, filter, run, finished, aborted, blockInfo, cur>>
graph   == <<nblocks, blocks>>
caches  == <<BBbackup, GEPcache, usedPointer>>
vars    == <<unvisited, filter, run, finished, aborted, blockInfo, cur,
             nblocks, blocks, computed, live, BBbackup, GEPcache, usedPointer,
             cpu, entry>>
-----------------------------------------------------------------------------
(* Data *)

Blocks      == 1 .. MaxBlocks
Slots       == -StackBelow .. StackAbove    \* 8-byte slots; STACKP_VALUE is 0
Rsps        == Slots \cup {Unknown}
Values      == Addrs \cup {Unknown}
Memory      == [Slots -> Values \cup {None}]
Flags       == Conds \cup {0, 1}
Assumptions == [Conds -> {0, 1, None}]

\* backup_point, and the part of the lifter it saves.  vec holds RSP and one
\* more register, known by the block that computed its value; vecflag is the
\* flag a jcc tests; cache is the block of one cached instruction.
BackupPoint == [vec         : [rsp : Rsps, def : Blocks],
                vecflag     : Flags,
                buffer      : Memory,
                cache       : Blocks \cup {None},
                assumptions : Assumptions]

ASSUME NoneAssumption == None \notin BackupPoint

ASSUME FileWordAssumption == FileWord \in [Slots -> Addrs]

\* astray: the path has read a stack word that nothing on it stored.
CpuState == [pc     : Values,
             rsp    : Rsps,
             stack  : Memory,
             flag   : Flags,
             taken  : Assumptions,
             path   : SUBSET Blocks,
             astray : BOOLEAN]

Terminators == [kind : {"none", "ret", "br", "condbr"},
                cond : Conds \cup {None},
                yes  : Blocks \cup {None},
                no   : Blocks \cup {None}]

BBInfos == [addr : Addrs, block : Blocks]

BlockRecords == [addr     : Addrs,
                 dtParent : Blocks,
                 lifted   : BOOLEAN,
                 term     : Terminators]

NoTerm == [kind |-> "none", cond |-> None, yes |-> None, no |-> None]
Ret    == [NoTerm EXCEPT !.kind = "ret"]
Br(b)  == [NoTerm EXCEPT !.kind = "br", !.yes = b, !.no = b]
CondBr(c, yes, no) == [kind |-> "condbr", cond |-> c, yes |-> yes, no |-> no]

NewBlock(addr) == [addr     |-> addr,
                   dtParent |-> blockInfo.block,
                   lifted   |-> FALSE,
                   term     |-> NoTerm]

\* Stack arithmetic and tracked memory.  A store through an RSP that is not a
\* constant leaves the tracked bytes alone.  The stack is registered as concrete
\* memory, so retrieveCombinedValue takes a slot that nothing was stored to from
\* the file; only a load through an RSP that is not a constant is a real one.
Add(rsp, n)        == IF rsp = Unknown THEN Unknown ELSE rsp + n
Fits(rsp)          == rsp \in Rsps
Load(mem, rsp)     == IF rsp = Unknown THEN Unknown
                      ELSE IF mem[rsp] = None THEN FileWord[rsp] ELSE mem[rsp]
Store(mem, rsp, v) == IF rsp = Unknown THEN mem ELSE [mem EXCEPT ![rsp] = v]

\* A jump target as IR: a constant, a select, or another value of which only
\* the set of possible values is known.
Const(a) == [kind |-> "const", cond |-> None, yes |-> a, no |-> a,
             targets |-> {a}]
Select(c, yes, no) == [kind |-> "select", cond |-> c, yes |-> yes, no |-> no,
                       targets |-> {yes, no}]
Opaque(S) == [kind |-> "opaque", cond |-> None, yes |-> None, no |-> None,
              targets |-> S]

\* What analyzeValueKnownBits knows of a condition.
KnownBit(c, assumptions) == IF c \in {0, 1} THEN c ELSE assumptions[c]

\* createSelectFolder
SelectFolder(c, yes, no) ==
    IF yes = no \/ KnownBit(c, live.assumptions) = 1 THEN Const(yes)
    ELSE IF KnownBit(c, live.assumptions) = 0 THEN Const(no)
    ELSE Select(c, yes, no)

\* computePossibleValues.  Fault: what is assumed of the condition is ignored.
PossibleValuesOfArms(v) == v.targets

PossibleValues(v) ==
    IF v.kind # "select" THEN v.targets
    ELSE CASE KnownBit(v.cond, live.assumptions) = 1 -> {v.yes}
           [] KnownBit(v.cond, live.assumptions) = 0 -> {v.no}
           [] OTHER -> {v.yes, v.no}

\* Where the processor goes: w is the target before any folding, a is where
\* the lifter goes, which decides nothing unless w leaves it open.
CpuTarget(w, a) ==
    IF w.kind = "const" THEN w.yes
    ELSE IF w.kind = "select" /\ KnownBit(w.cond, cpu.taken) = 1 THEN w.yes
    ELSE IF w.kind = "select" /\ KnownBit(w.cond, cpu.taken) = 0 THEN w.no
    ELSE a

Enter(c, b, pc) == [c EXCEPT !.pc = pc, !.path = @ \cup {b}]
-----------------------------------------------------------------------------
(* The worklist *)

Lifting == ~aborted /\ run = 1 /\ finished = 0

Is(class) == Lifting /\ class \in Instrs

\* The entry block already holds the code that sets up the arguments.
NonEmpty(b) == b = 1 \/ blocks[b].lifted

\* load_backup_impl.  Faults: the contains test is missing, or the instruction
\* cache is not restored.
LoadBackupUnchecked(b) == BBbackup[b]

LoadBackupNoCache(b) ==
    IF BBbackup[b] # None THEN [BBbackup[b] EXCEPT !.cache = live.cache] ELSE live

LoadBackup(b) == IF BBbackup[b] # None THEN BBbackup[b] ELSE live

\* What getUnvisitedAddr takes, and what it leaves on the worklist.  Faults: it
\* takes the oldest block instead of the newest, or does not remove it.
TakeOldest == [info |-> Head(unvisited), rest |-> Tail(unvisited)]

TakeWithoutRemoving == [info |-> unvisited[Len(unvisited)], rest |-> unvisited]

TakeUnvisited == [info |-> unvisited[Len(unvisited)],
                  rest |-> SubSeq(unvisited, 1, Len(unvisited) - 1)]

\* getUnvisitedAddr makes the block the source of new edges.  Fault: it does not.
KeepBlockInfo(out) == blockInfo

NextBlockInfo(out) == out

\* finished when a block starts.  Fault: it is not reset.
FinishedNotReset == finished

FinishedAtStart == 0

\* The body of the loop of asm_to_zydis_to_lift, up to the first instruction.
StartBlock(b) ==
    /\ filter' = TRUE
    /\ live' = LoadBackup(b)
    /\ finished' = FinishedAtStart
    /\ cur' = b
    /\ run' = 1
    /\ blocks' = [blocks EXCEPT ![b].lifted = TRUE]
    /\ usedPointer' = None
    /\ cpu' = entry[b]

\* One turn of that loop.
PopBlock ==
    /\ ~aborted /\ ~Lifting
    /\ unvisited # <<>>
    /\ unvisited' = TakeUnvisited.rest
    /\ blockInfo' = NextBlockInfo(TakeUnvisited.info)
    /\ LET b == TakeUnvisited.info.block
       IN IF NonEmpty(b) /\ filter
          THEN UNCHANGED <<filter, run, finished, cur, blocks, live, usedPointer, cpu>>
          ELSE StartBlock(b)
    /\ UNCHANGED <<aborted, nblocks, computed, BBbackup, GEPcache, entry>>

\* getOrCreateBB, CreateBr and a push on the worklist, with no backup.
BranchTo(a, pc, s, c) ==
    LET b == nblocks + 1
    IN /\ b \in Blocks
       /\ run' = 0
       /\ nblocks' = b
       /\ blocks' = [blocks EXCEPT ![cur].term = Br(b), ![b] = NewBlock(a)]
       /\ blockInfo' = [addr |-> a, block |-> b]
       /\ unvisited' = Append(unvisited, [addr |-> a, block |-> b])
       /\ live' = s
       /\ cpu' = c
       /\ entry' = [entry EXCEPT ![b] = Enter(c, b, pc)]
       /\ UNCHANGED <<filter, finished, aborted, cur, computed, caches>>

\* The two-way branch of solvePath: yes is where the path goes when cond is 1.
\* The false block is pushed first, so the true block is lifted next.
SplitOn(cond, yes, no, pcYes, pcNo, s, c) ==
    LET bbTrue   == nblocks + 1
        bbFalse  == nblocks + 2
        assume(bit) == [s EXCEPT !.assumptions[cond] = bit]
        taken(bit)  == [c EXCEPT !.taken[cond] = bit]
    IN /\ bbFalse \in Blocks
       /\ run' = 0
       /\ nblocks' = bbFalse
       /\ blocks' = [blocks EXCEPT ![cur].term = CondBr(cond, bbTrue, bbFalse),
                                   ![bbTrue]   = NewBlock(yes),
                                   ![bbFalse]  = NewBlock(no)]
       /\ blockInfo' = [addr |-> no, block |-> bbFalse]
       /\ unvisited' = Append(Append(unvisited, [addr |-> no, block |-> bbFalse]),
                              [addr |-> yes, block |-> bbTrue])
       /\ BBbackup' = [BBbackup EXCEPT ![bbFalse] = assume(0),
                                       ![bbTrue]  = assume(1)]
       /\ live' = assume(1)
       /\ cpu' = c
       /\ entry' = [entry EXCEPT ![bbTrue]  = Enter(taken(1), bbTrue, pcYes),
                                 ![bbFalse] = Enter(taken(0), bbFalse, pcNo)]
       /\ UNCHANGED <<filter, finished, aborted, cur, GEPcache, usedPointer>>

\* The order of the two blocks when pv has two values, first the smaller: the
\* condition of a select when one of its arms is the value tried, otherwise a
\* new comparison of the target with the smaller value.
\* Fault: the values are not swapped when the larger one is the true arm.
SplitTwoUnswapped(v, first, second, s, c) ==
    \/ /\ v.kind = "select"
       /\ SplitOn(v.cond, first, second, v.yes, v.no, s, c)
       /\ UNCHANGED computed
    \/ /\ v.kind = "opaque"
       /\ \E isFirst \in Conds \ computed :
             /\ SplitOn(isFirst, first, second, first, second, s, c)
             /\ computed' = computed \cup {isFirst}

SplitTwo(v, first, second, s, c) ==
    \/ /\ v.kind = "select" /\ v.yes = first
       /\ SplitOn(v.cond, first, second, v.yes, v.no, s, c)
       /\ UNCHANGED computed
    \/ /\ v.kind = "select" /\ v.yes = second
       /\ SplitOn(v.cond, second, first, v.yes, v.no, s, c)
       /\ UNCHANGED computed
    \/ /\ v.kind = "opaque"
       /\ \E isFirst \in Conds \ computed :
             /\ SplitOn(isFirst, first, second, first, second, s, c)
             /\ computed' = computed \cup {isFirst}

\* No possible value is known: the block is left without a terminator.
LeaveUnsolved(s, c) ==
    /\ run' = 0
    /\ live' = s
    /\ cpu' = c
    /\ UNCHANGED <<unvisited, filter, finished, aborted, blockInfo, cur, graph,
                   computed, caches, entry>>

\* llvm_unreachable_internal ends the program.
Abort ==
    /\ aborted' = TRUE
    /\ UNCHANGED <<unvisited, filter, run, finished, blockInfo, cur, graph,
                   computed, live, caches, cpu, entry>>

\* solvePath on the target v; w is the same target before folding, s and c are
\* the lifter's and the processor's state after the rest of the instruction.
SolvePath(v, w, s, c) ==
    IF v.kind = "const" THEN BranchTo(v.yes, CpuTarget(w, v.yes), s, c)
    ELSE LET pv == PossibleValues(v)
         IN \/ pv = {} /\ LeaveUnsolved(s, c)
            \/ \E a \in Addrs :
                  pv = {a} /\ BranchTo(a, CpuTarget(w, a), s, c)
            \/ \E first, second \in Addrs :
                  /\ first < second /\ pv = {first, second}
                  /\ SplitTwo(v, first, second, s, c)
            \/ /\ \E x, y, z \in pv : x # y /\ y # z /\ x # z
               /\ Abort
-----------------------------------------------------------------------------
(* The instructions: one action for each class, one instruction for each step. *)

\* An instruction that stays in its block: only the two machine states change.
Straight(s, c) ==
    /\ live' = s
    /\ cpu' = c
    /\ UNCHANGED <<control, graph, BBbackup, entry>>

\* A value is computed, or found in the instruction cache (getOrCreate).
LiftCompute ==
    /\ Is("compute")
    /\ \/ Straight([live EXCEPT !.vec.def = cur, !.cache = cur], cpu)
       \/ /\ live.cache # None
          /\ Straight([live EXCEPT !.vec.def = live.cache], cpu)
    /\ UNCHANGED <<computed, GEPcache, usedPointer>>

\* The flag becomes a constant or a new comparison.
LiftCompare ==
    /\ Is("compare")
    /\ \E flag \in Flags \ computed :
          /\ Straight([live EXCEPT !.vecflag = flag], [cpu EXCEPT !.flag = flag])
          /\ computed' = computed \cup ({flag} \cap Conds)
    /\ UNCHANGED <<GEPcache, usedPointer>>

\* RSP is lowered, then the value is stored.
PushLive(v) == LET rsp == Add(live.vec.rsp, -1)
               IN [live EXCEPT !.vec.rsp = rsp,
                               !.buffer = Store(@, rsp, v)]

PushCpu(v)  == LET rsp == Add(cpu.rsp, -1)
               IN [cpu EXCEPT !.rsp = rsp, !.stack = Store(@, rsp, v)]

CanPush == Fits(Add(live.vec.rsp, -1)) /\ Fits(Add(cpu.rsp, -1))

\* lift_push, lift_pushfq
LiftPush ==
    /\ Is("push") /\ CanPush
    /\ \E v \in Values : Straight(PushLive(v), PushCpu(v))
    /\ UNCHANGED <<computed, GEPcache, usedPointer>>

CanPop(n) == Fits(Add(live.vec.rsp, n)) /\ Fits(Add(cpu.rsp, n))

\* RSP after n slots are popped.  Fault: the operand of ret imm16 is forgotten.
PopLiveOneSlot(n) == [live EXCEPT !.vec.rsp = Add(@, 1)]

PopLive(n) == [live EXCEPT !.vec.rsp = Add(@, n)]

\* The word at an address as the processor has it; None is the caller's.
StackWord(rsp) == IF rsp = Unknown THEN Unknown ELSE cpu.stack[rsp]

Strays(rsp) == cpu.astray \/ StackWord(rsp) = None

PopCpu(n) == [cpu EXCEPT !.rsp = Add(@, n), !.astray = Strays(cpu.rsp)]

\* lift_pop: the value goes to a register.
LiftPop ==
    /\ Is("pop") /\ CanPop(1)
    /\ Straight([PopLive(1) EXCEPT !.vec.def = cur], PopCpu(1))
    /\ UNCHANGED <<computed, GEPcache, usedPointer>>

\* lift_popfq: a bit of the value, constant or new, becomes the flag.
PoppedFlags == IF Load(live.buffer, live.vec.rsp) = Unknown THEN Flags \ computed
               ELSE {0, 1}

LiftPopfq ==
    /\ Is("popfq") /\ CanPop(1)
    /\ \E flag \in PoppedFlags :
          /\ Straight([PopLive(1) EXCEPT !.vecflag = flag],
                      [PopCpu(1) EXCEPT !.flag = flag])
          /\ computed' = computed \cup ({flag} \cap Conds)
    /\ UNCHANGED <<GEPcache, usedPointer>>

\* An arithmetic instruction or a mov whose destination is RSP.
LiftSetRsp ==
    /\ Is("set_rsp")
    /\ \E rsp \in Rsps :
          Straight([live EXCEPT !.vec.rsp = rsp], [cpu EXCEPT !.rsp = rsp])
    /\ UNCHANGED <<computed, GEPcache, usedPointer>>

\* popStack: the pointer to [rsp] comes from createGEPFolder, which keeps it in
\* GEPcache under the address.  At a constant address solveLoad answers and no
\* load goes through the pointer.  At another one a load is emitted: the argument
\* RBP starts with is the same key on every path, any other value is one of this
\* path.
PopStack(address) ==
    LET pointer == IF address = EntryRbp /\ GEPcache # None THEN GEPcache ELSE cur
    IN /\ GEPcache' = IF address = EntryRbp THEN pointer ELSE GEPcache
       /\ usedPointer' = IF address \in Slots THEN usedPointer ELSE pointer

\* lift_leave: RSP takes the value of RBP, whatever it is, then popStack.
LiftLeave ==
    /\ Is("leave")
    /\ \E rbp \in Rsps \cup {EntryRbp} :
          LET from == IF rbp = EntryRbp THEN Unknown ELSE rbp
              rsp  == Add(from, 1)
          IN /\ Fits(rsp)
             /\ Straight([live EXCEPT !.vec.rsp = rsp],
                         [cpu EXCEPT !.rsp = rsp, !.astray = Strays(from)])
             /\ PopStack(rbp)
    /\ UNCHANGED computed

\* lift_jmp to a constant
LiftJmp ==
    /\ Is("jmp")
    /\ \E a \in Addrs : SolvePath(Const(a), Const(a), live, cpu)

\* The possible values of a target that depends on the input.
TargetSets == {{a, b} : a, b \in Addrs}
                \cup IF "jmp_wide" \in Instrs
                     THEN {{}} \cup {{a, b, c} : a, b, c \in Addrs} ELSE {}

\* lift_jmp through a register or memory: a select made by a cmov, on the flag
\* as it is now or as it was before a branch, or any other value.
LiftJmpRegister ==
    /\ Is("jmp_register")
    /\ \/ /\ live.vecflag \in Conds /\ cpu.flag \in Conds
          /\ \E yes, no \in Addrs :
                /\ yes # no
                /\ SolvePath(Select(live.vecflag, yes, no),
                             Select(cpu.flag, yes, no), live, cpu)
       \/ \E S \in TargetSets : SolvePath(Opaque(S), Opaque(S), live, cpu)

\* The jcc handlers and branchHelper: reverse is set for the negated ones.
LiftJcc ==
    /\ Is("jcc")
    /\ \E target, next \in Addrs, reverse \in BOOLEAN :
          LET yes == IF reverse THEN next ELSE target
              no  == IF reverse THEN target ELSE next
          IN SolvePath(SelectFolder(live.vecflag, yes, no),
                       IF yes = no THEN Const(yes) ELSE Select(cpu.flag, yes, no),
                       live, cpu)

\* lift_call with an immediate operand, relative to RIP, that is not outlined
LiftCall ==
    /\ Is("call") /\ CanPush
    /\ \E target, next \in Addrs :
          BranchTo(target, target, PushLive(next), PushCpu(next))

\* lift_call through a register or memory that holds a constant: the cases of the
\* switch fall through, so RIP is added to this operand as well.
LiftCallRegister ==
    /\ Is("call_register") /\ CanPush
    /\ \E function, next \in Addrs :
          /\ function + next \in Addrs
          /\ BranchTo(function + next, function, PushLive(next), PushCpu(next))

\* lift_call with an outlined or unknown target: a call instruction is emitted,
\* then the path goes on at the next address.  The processor is back from the
\* callee, which has popped the return address.
LiftCallOutlined ==
    /\ Is("call_outlined") /\ CanPush
    /\ \E next \in Addrs :
          BranchTo(next, next, PushLive(next), [PushCpu(next) EXCEPT !.rsp = cpu.rsp])

\* The end of the path: a ret instruction of the IR.  Fault: the instruction loop
\* is not told.
EndPathKeepsRunning ==
    /\ blocks' = [blocks EXCEPT ![cur].term = Ret]
    /\ UNCHANGED <<unvisited, filter, run, finished, aborted, blockInfo, cur,
                   nblocks, computed, live, caches, cpu, entry>>

EndPath ==
    /\ run' = 0
    /\ finished' = 1
    /\ blocks' = [blocks EXCEPT ![cur].term = Ret]
    /\ UNCHANGED <<unvisited, filter, aborted, blockInfo, cur, nblocks, computed,
                   live, caches, cpu, entry>>

AtEntryRsp == live.vec.rsp \in {0, Unknown}

\* lift_ret when it returns from the lifted function
LiftRetReal == Is("ret") /\ AtEntryRsp /\ EndPath

\* The address lift_ret reads
ReturnTarget == Load(live.buffer, live.vec.rsp)

\* lift_ret as a jump to [rsp]; imm is the operand of ret imm16, in slots.  Where
\* the processor goes at the caller's word is not known.
LiftRetRop ==
    /\ Is("ret") /\ ~AtEntryRsp
    /\ \E imm \in {0, 1} :
          /\ CanPop(1 + imm)
          /\ LET a == ReturnTarget
                 p == StackWord(cpu.rsp)
             IN IF a = Unknown
                THEN \E S \in TargetSets :
                        SolvePath(Opaque(S), IF p \in Addrs THEN Const(p) ELSE Opaque(S),
                                  PopLive(1 + imm), PopCpu(1 + imm))
                ELSE SolvePath(Const(a), Const(IF p = None THEN Unknown ELSE p),
                               PopLive(1 + imm), PopCpu(1 + imm))

\* liftInstructionSemantics: ud2, an invalid or an unimplemented instruction
LiftStop == Is("stop") /\ EndPath

Lift == \/ LiftCompute \/ LiftCompare \/ LiftPush \/ LiftPop \/ LiftPopfq
        \/ LiftSetRsp \/ LiftLeave \/ LiftJmp \/ LiftJmpRegister \/ LiftJcc \/ LiftCall
        \/ LiftCallRegister \/ LiftCallOutlined \/ LiftRetReal \/ LiftRetRop \/ LiftStop

Next == PopBlock \/ Lift
-----------------------------------------------------------------------------
NoAssumption == [c \in Conds |-> None]
NothingStored == [slot \in Slots |-> None]

InitLive == [vec         |-> [rsp |-> 0, def |-> 1],
             vecflag     |-> 0,
             buffer      |-> NothingStored,
             cache       |-> None,
             assumptions |-> NoAssumption]

InitCpu == [pc |-> EntryAddr, rsp |-> 0, stack |-> NothingStored, flag |-> 0,
            taken |-> NoAssumption, path |-> {1}, astray |-> FALSE]

InitBlock == [addr |-> EntryAddr, dtParent |-> 1, lifted |-> FALSE,
              term |-> NoTerm]

\* After the constructor and InitFunction_and_LiftInstructions
Init ==
    /\ unvisited = <<[addr |-> EntryAddr, block |-> 1]>>
    /\ filter = FALSE
    /\ run = 0
    /\ finished = 0
    /\ aborted = FALSE
    /\ blockInfo = [addr |-> EntryAddr, block |-> 1]
    /\ cur = 1
    /\ nblocks = 1
    /\ blocks = [b \in Blocks |-> InitBlock]
    /\ computed = {}
    /\ live = InitLive
    /\ BBbackup = [b \in Blocks |-> None]
    /\ GEPcache = None
    /\ usedPointer = None
    /\ cpu = InitCpu
    /\ entry = [b \in Blocks |-> InitCpu]

Spec == Init /\ [][Next]_vars
-----------------------------------------------------------------------------
(* Properties *)

\* Every variable holds a value of the kind its code has.
TypeOK ==
    /\ unvisited \in Seq(BBInfos)
    /\ filter \in BOOLEAN
    /\ run \in {0, 1}
    /\ finished \in {0, 1}
    /\ aborted \in BOOLEAN
    /\ blockInfo \in BBInfos
    /\ cur \in Blocks
    /\ nblocks \in Blocks
    /\ blocks \in [Blocks -> BlockRecords]
    /\ computed \subseteq Conds
    /\ live \in BackupPoint
    /\ BBbackup \in [Blocks -> BackupPoint \cup {None}]
    /\ GEPcache \in Blocks \cup {None}
    /\ usedPointer \in Blocks \cup {None}
    /\ cpu \in CpuState
    /\ entry \in [Blocks -> CpuState]

Created == 1 .. nblocks

Succs(b) == {blocks[b].term.yes, blocks[b].term.no} \ {None}

\* What the lifter knows of the machine is what the machine holds: the same
\* stack pointer, stack, flag and path condition.
Agrees(s, c) ==
    /\ s.vec.rsp = c.rsp
    /\ s.buffer = c.stack
    /\ s.vecflag = c.flag
    /\ s.assumptions = c.taken

\* While a block is lifted, the lifter's state is that of its own path, however
\* many other paths were lifted since the block was queued: branchHelper's
\* "save the current state ... return to latest state" (Semantics.ipp:246).
LiveMatchesPath == Lifting => Agrees(live, cpu)

\* A value held in a register or in the instruction cache is defined in a block
\* of the current path, so the IR that uses it is dominated by its definition.
ValuesAreOnPath ==
    Lifting => /\ live.vec.def \in cpu.path
               /\ live.cache # None => live.cache \in cpu.path

\* The pointer popStack last loaded from is defined on the path that loads.
PointersAreOnPath ==
    usedPointer # None => usedPointer \in cpu.path

\* A block is lifted at the address the processor reaches when it takes the
\* edge into the block: solvePath never crosses the two sides of a branch, and a
\* return goes where the call, or the push, left it.  Excepted is a path that has
\* read a stack word it did not store: ReturnsGoToRsp fails on it.
BlocksAreWhereTheCpuGoes ==
    \A b \in Created : entry[b].astray \/ blocks[b].addr = entry[b].pc

\* lift_ret: "[2] = [rsp]" (Semantics.ipp:749) is where a return goes, and every
\* block is lifted where the processor is, on every path.
ReturnsGoToRsp ==
    \A b \in Created : blocks[b].addr = entry[b].pc

\* A condition is split on at most once on any path: what has been assumed is
\* folded away from then on (createSelectFolder, computePossibleValues).
ConditionsSplitOnce ==
    \A b \in Created : blocks[b].term.kind = "condbr"
                         => entry[b].taken[blocks[b].term.cond] = None

\* Every block ends up lifted to its terminator: a block that is neither queued
\* nor being lifted has one.
EveryBlockIsLifted ==
    aborted \/ \A b \in Created :
        \/ blocks[b].term.kind # "none"
        \/ Lifting /\ cur = b
        \/ \E i \in DOMAIN unvisited : unvisited[i].block = b

\* No block is lifted twice: the worklist holds each block once, and only
\* blocks whose lifting has not begun.
EachBlockOnce ==
    /\ \A i \in DOMAIN unvisited : ~blocks[unvisited[i].block].lifted
    /\ \A i, j \in DOMAIN unvisited :
          unvisited[i].block = unvisited[j].block => i = j

\* The edges getOrCreateBB gives to the dominator tree, which start at blockInfo
\* and not at the insertion point, are the edges of the control-flow graph.
DomTreeFollowsCfg ==
    \A b \in Created \ {1} : b \in Succs(blocks[b].dtParent)

\* Only the top of the worklist may lack a backup, and then the lifter still
\* holds the state that block starts from.
BackupOrLive ==
    \A i \in DOMAIN unvisited :
        LET b == unvisited[i].block
        IN IF BBbackup[b] # None THEN Agrees(BBbackup[b], entry[b])
           ELSE i = Len(unvisited) /\ ~Lifting /\ (aborted \/ Agrees(live, entry[b]))

\* The blocks not created yet are on no worklist, have no backup, are not lifted.
QueueIsCreated   == \A i \in DOMAIN unvisited : unvisited[i].block \in Created
NoEarlyBackup    == \A b \in Blocks \ Created : BBbackup[b] = None
NothingLiftedYet == \A b \in Blocks \ Created : ~blocks[b].lifted

\* Every queued block finds its own state again when it is taken: in its backup
\* or, on top of the worklist, in the lifter itself (branch_backup and
\* load_backup).  LiveMatchesPath with what makes it inductive.
BackupInv == QueueIsCreated /\ NoEarlyBackup /\ BackupOrLive /\ LiveMatchesPath

\* No block is lifted twice, and none is queued or lifted before getOrCreateBB
\* made it.  EachBlockOnce with what makes it inductive.
QueueInv == QueueIsCreated /\ NothingLiftedYet /\ EachBlockOnce

\* A terminator is never replaced, and nothing follows it in its block.
TerminatedOnce ==
    [][\A b \in Blocks : blocks[b].term # NoTerm
          => blocks'[b].term = blocks[b].term]_vars
=============================================================================
