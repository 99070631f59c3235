----------------------------- MODULE PathProofs -----------------------------
(***************************************************************************)
(* What PathExploration guarantees for every program and every value of    *)
(* the constants. Every jump goes through BranchTo or SplitOn, so the      *)
(* proofs settle these two once and then visit the actions.                *)
(* Why coming back to the other side of a branch is sound. The lifter      *)
(* keeps one machine state and overwrites it while it lifts other paths. A *)
(* queued block is safe because either a backup of its state was stored    *)
(* when it was queued, or it is on top of the worklist and nothing has     *)
(* been lifted since.                                                      *)
(* And the graph of blocks that comes out. Only the block under the        *)
(* builder gets a terminator, and gets it once; blocks are created         *)
(* together with the edge that leads to them; and a block that has no      *)
(* terminator is still queued, unless a target was not solved.             *)
(* Why a block is lifted at the address the processor goes to. A target is *)
(* folded with what is assumed on the path, its values come sorted by      *)
(* size, and solvePath crosses them back; since the lifter and the         *)
(* processor agree on the flag, the stack and the assumptions, each side   *)
(* of the branch that comes out leads where the processor would go. Where  *)
(* they part is at a stack word nothing on the path has stored.            *)
(* And why the two sides of a branch stay apart: a backup holds what was   *)
(* assumed and computed on its own path, and nothing else.                 *)
(***************************************************************************)
EXTENDS PathExploration, TLAPS

-----------------------------------------------------------------------------
(* Types *)

\* Pushing and popping keep the two machine states well typed.
LEMMA PushPopTypes ==
    ASSUME TypeOK
    PROVE  /\ \A v \in Values : CanPush => /\ PushLive(v) \in BackupPoint
                                           /\ PushCpu(v) \in CpuState
           /\ \A n \in {1, 2} : CanPop(n) => /\ PopLive(n) \in BackupPoint
                                             /\ PopCpu(n) \in CpuState
  BY DEF TypeOK, BackupPoint, CpuState, PushLive, PushCpu, PopLive, PopCpu,
         CanPush, CanPop, Fits, Add, Store, Strays, Memory, Values, Rsps

\* The types of what Straight, BranchTo and SplitOn leave.
LEMMA StraightType ==
    ASSUME TypeOK, NEW s \in BackupPoint, NEW c \in CpuState, Straight(s, c),
           computed' \subseteq Conds,
           GEPcache' \in Blocks \cup {None},
           usedPointer' \in Blocks \cup {None}
    PROVE  TypeOK'
  BY DEF TypeOK, Straight, control, graph

\* Entering a block keeps the processor's state well typed.
LEMMA EnterType ==
    ASSUME NEW c \in CpuState, NEW b \in Blocks, NEW pc \in Values
    PROVE  Enter(c, b, pc) \in CpuState
  BY DEF Enter, CpuState

\* getOrCreateBB makes a block record, with the current blockInfo as parent.
LEMMA NewBlockType ==
    ASSUME TypeOK, NEW a \in Addrs
    PROVE  NewBlock(a) \in BlockRecords
  BY DEF TypeOK, NewBlock, BlockRecords, BBInfos, NoTerm, Terminators

\* The terminators solvePath and lift_ret emit.
LEMMA TerminatorTypes ==
    /\ NoTerm \in Terminators
    /\ Ret \in Terminators
    /\ \A b \in Blocks : Br(b) \in Terminators
    /\ \A c \in Conds, b1, b2 \in Blocks : CondBr(c, b1, b2) \in Terminators
  BY DEF NoTerm, Ret, Br, CondBr, Terminators

\* Giving a block a terminator keeps the blocks well typed.
LEMMA TerminateType ==
    ASSUME NEW f \in [Blocks -> BlockRecords], NEW b \in Blocks,
           NEW t \in Terminators
    PROVE  [f EXCEPT ![b].term = t] \in [Blocks -> BlockRecords]
  BY DEF BlockRecords

\* A branch to one new block keeps the types (PathSolver.ipp:24).
LEMMA BranchToType ==
    ASSUME TypeOK, NEW a \in Addrs, NEW pc \in Values,
           NEW s \in BackupPoint, NEW c \in CpuState, BranchTo(a, pc, s, c)
    PROVE  TypeOK'
  <1> DEFINE b == nblocks + 1
  <1>1. b \in Blocks
    BY DEF BranchTo
  <1>2. blocks' \in [Blocks -> BlockRecords]
    <2>1. blocks' = [[blocks EXCEPT ![cur].term = Br(b)] EXCEPT ![b] = NewBlock(a)]
      BY DEF BranchTo
    <2>2. [blocks EXCEPT ![cur].term = Br(b)] \in [Blocks -> BlockRecords]
      BY <1>1, TerminatorTypes, TerminateType DEF TypeOK
    <2>3. QED
      BY <1>1, <2>1, <2>2, NewBlockType
  <1>3. unvisited' \in Seq(BBInfos) /\ blockInfo' \in BBInfos
    BY <1>1 DEF TypeOK, BranchTo, BBInfos
  <1>4. entry' \in [Blocks -> CpuState]
    BY <1>1, EnterType DEF TypeOK, BranchTo
  <1>5. QED
    BY <1>1, <1>2, <1>3, <1>4 DEF TypeOK, BranchTo, caches

\* A conditional branch to two new blocks keeps the types (PathSolver.ipp:127).
LEMMA SplitOnType ==
    ASSUME TypeOK, NEW cond \in Conds, NEW yes \in Addrs, NEW no \in Addrs,
           NEW pcYes \in Addrs, NEW pcNo \in Addrs,
           NEW s \in BackupPoint, NEW c \in CpuState,
           SplitOn(cond, yes, no, pcYes, pcNo, s, c),
           computed' \subseteq Conds
    PROVE  TypeOK'
  <1> DEFINE t == nblocks + 1
             f == nblocks + 2
             S(bit) == [s EXCEPT !.assumptions[cond] = bit]
             C(bit) == [c EXCEPT !.taken[cond] = bit]
  <1>1. t \in Blocks /\ f \in Blocks /\ t # f
    <2>1. f \in Blocks
      BY DEF SplitOn
    <2>2. nblocks \in Blocks
      BY DEF TypeOK
    <2>3. QED
      BY <2>1, <2>2, ConstantsAssumption DEF Blocks
  <1>2. \A bit \in {0, 1} : S(bit) \in BackupPoint
    BY DEF BackupPoint, Assumptions
  <1>3. \A bit \in {0, 1} : C(bit) \in CpuState
    BY DEF CpuState, Assumptions
  <1>4. blocks' \in [Blocks -> BlockRecords]
    <2>1. NewBlock(yes) \in BlockRecords /\ NewBlock(no) \in BlockRecords
      BY NewBlockType
    <2>2. CondBr(cond, t, f) \in Terminators
      BY <1>1, TerminatorTypes
    <2>3. blocks' = [[blocks EXCEPT ![cur].term = CondBr(cond, t, f)]
                        EXCEPT ![t] = NewBlock(yes), ![f] = NewBlock(no)]
      BY DEF SplitOn
    <2>4. [blocks EXCEPT ![cur].term = CondBr(cond, t, f)] \in [Blocks -> BlockRecords]
      BY <2>2, TerminateType DEF TypeOK
    <2>5. QED
      BY <1>1, <2>1, <2>3, <2>4
  <1>5. /\ unvisited' \in Seq(BBInfos)
        /\ blockInfo' \in BBInfos
    <2>1. [addr |-> no, block |-> f] \in BBInfos /\ [addr |-> yes, block |-> t] \in BBInfos
      BY <1>1 DEF BBInfos
    <2>2. /\ unvisited' = Append(Append(unvisited, [addr |-> no, block |-> f]),
                                 [addr |-> yes, block |-> t])
          /\ blockInfo' = [addr |-> no, block |-> f]
      BY DEF SplitOn
    <2>3. QED
      BY <2>1, <2>2 DEF TypeOK
  <1>6. BBbackup' \in [Blocks -> BackupPoint \cup {None}]
    BY <1>1, <1>2 DEF SplitOn, TypeOK
  <1>7. entry' \in [Blocks -> CpuState]
    <2>1. Enter(C(1), t, pcYes) \in CpuState /\ Enter(C(0), f, pcNo) \in CpuState
      BY <1>1, <1>3, EnterType DEF Values
    <2>2. entry' = [entry EXCEPT ![t] = Enter(C(1), t, pcYes),
                                 ![f] = Enter(C(0), f, pcNo)]
      BY DEF SplitOn
    <2>3. QED
      BY <1>1, <2>1, <2>2 DEF TypeOK
  <1>8. live' \in BackupPoint /\ cpu' \in CpuState
    BY <1>2 DEF SplitOn
  <1>9. /\ run' = 0 /\ nblocks' = f
        /\ UNCHANGED <<filter, finished, aborted, cur, GEPcache, usedPointer>>
    BY DEF SplitOn
  <1>10. QED
    BY <1>1, <1>4, <1>5, <1>6, <1>7, <1>8, <1>9 DEF TypeOK

\* The kinds of value a jump target can be, with the addresses they lead to.
Targets == [kind : {"const"}, cond : {None}, yes : Addrs, no : Addrs,
            targets : SUBSET Addrs]
       \cup [kind : {"select"}, cond : Flags, yes : Addrs, no : Addrs,
            targets : SUBSET Addrs]
       \cup [kind : {"opaque"}, cond : {None}, yes : {None}, no : {None},
            targets : SUBSET Addrs]

\* The same before folding; the processor's may be a word of the caller.
CpuTargets == Targets \cup {Const(Unknown)}

\* The jump targets the instructions hand to solvePath.
LEMMA TargetTypes ==
    /\ \A a \in Addrs : Const(a) \in Targets
    /\ \A c \in Flags, a1, a2 \in Addrs : /\ Select(c, a1, a2) \in Targets
                                           /\ SelectFolder(c, a1, a2) \in Targets
    /\ \A S \in SUBSET Addrs : Opaque(S) \in Targets
    /\ Targets \subseteq CpuTargets /\ Const(Unknown) \in CpuTargets
  BY DEF Const, Select, SelectFolder, Opaque, Targets, CpuTargets

\* The processor jumps to an address of the program, or where a caller's word is.
LEMMA CpuTargetType ==
    ASSUME NEW w \in CpuTargets, NEW a \in Addrs
    PROVE  CpuTarget(w, a) \in Values
  BY DEF CpuTarget, CpuTargets, Targets, Const, Values

\* A jump changes nothing but what BranchTo, SplitOn, LeaveUnsolved or Abort do:
\* solvePath is a case split over these four.
LEMMA SolvePathCases ==
    ASSUME NEW v \in Targets, NEW w \in CpuTargets, NEW s, NEW c,
           SolvePath(v, w, s, c)
    PROVE  \/ \E a \in Addrs, pc \in Values : BranchTo(a, pc, s, c)
           \/ \E cond \in Conds, a1, a2, a3, a4 \in Addrs :
                 /\ SplitOn(cond, a1, a2, a3, a4, s, c)
                 /\ computed' \in {computed, computed \cup {cond}}
           \/ LeaveUnsolved(s, c)
           \/ Abort
  <1>1. CASE v.kind = "const"
    <2>1. v.yes \in Addrs /\ CpuTarget(w, v.yes) \in Values
      BY <1>1, CpuTargetType DEF Targets
    <2>2. BranchTo(v.yes, CpuTarget(w, v.yes), s, c)
      BY <1>1 DEF SolvePath
    <2>3. QED
      BY <2>1, <2>2
  <1>2. CASE v.kind # "const"
    <2>1. CASE LeaveUnsolved(s, c) \/ Abort
      BY <2>1
    <2>2. CASE \E a \in Addrs : BranchTo(a, CpuTarget(w, a), s, c)
      BY <2>2, CpuTargetType
    <2>3. CASE \E first, second \in Addrs :
                  /\ first < second /\ PossibleValues(v) = {first, second}
                  /\ SplitTwo(v, first, second, s, c)
      <3>1. PICK first \in Addrs, second \in Addrs :
                  /\ first < second /\ PossibleValues(v) = {first, second}
                  /\ SplitTwo(v, first, second, s, c)
        BY <2>3
      <3>2. first # second
        BY <3>1, ConstantsAssumption
      <3>3. CASE v.kind = "select"
        <4>1. v.cond \in Conds
          BY <3>1, <3>2, <3>3 DEF PossibleValues, KnownBit, Targets, Flags
        <4>2. v.yes \in Addrs /\ v.no \in Addrs
          BY <3>3 DEF Targets
        <4>3. QED
          BY <3>1, <3>3, <4>1, <4>2 DEF SplitTwo
      <3>4. CASE v.kind = "opaque"
        BY <3>1, <3>4 DEF SplitTwo
      <3>5. QED
        BY <1>2, <3>3, <3>4 DEF Targets
    <2>4. QED
      BY <1>2, <2>1, <2>2, <2>3 DEF SolvePath
  <1>3. QED
    BY <1>1, <1>2

\* Ending the path keeps the types.
LEMMA EndPathType ==
    ASSUME TypeOK, EndPath
    PROVE  TypeOK'
  <1>1. blocks' \in [Blocks -> BlockRecords]
    BY TerminatorTypes, TerminateType DEF EndPath, TypeOK
  <1>2. QED
    BY <1>1 DEF EndPath, TypeOK, caches

\* popStack keeps the pointer cache well typed.
LEMMA PopStackType ==
    ASSUME TypeOK, NEW address, PopStack(address)
    PROVE  /\ GEPcache' \in Blocks \cup {None}
           /\ usedPointer' \in Blocks \cup {None}
  BY DEF TypeOK, PopStack

\* What is loaded from the stack is a value, for the lifter and the processor.
LEMMA LoadType ==
    ASSUME TypeOK
    PROVE  /\ ReturnTarget \in Values
           /\ StackWord(cpu.rsp) \in Values \cup {None}
  BY ConstantsAssumption, FileWordAssumption
  DEF TypeOK, ReturnTarget, Load, StackWord, BackupPoint, CpuState, Memory, Values, Rsps

\* Setting one part of a machine state keeps it well typed.
LEMMA UpdateTypes ==
    ASSUME NEW s \in BackupPoint, NEW c \in CpuState
    PROVE  /\ \A b \in Blocks : /\ [s EXCEPT !.vec.def = b] \in BackupPoint
                               /\ [s EXCEPT !.vec.def = b, !.cache = b] \in BackupPoint
           /\ \A f \in Flags : /\ [s EXCEPT !.vecflag = f] \in BackupPoint
                              /\ [c EXCEPT !.flag = f] \in CpuState
           /\ \A r \in Rsps : /\ [s EXCEPT !.vec.rsp = r] \in BackupPoint
                             /\ [c EXCEPT !.rsp = r] \in CpuState
           /\ \A r \in Rsps, e \in BOOLEAN : [c EXCEPT !.rsp = r, !.astray = e] \in CpuState
  BY DEF BackupPoint, CpuState

\* The possible targets of an indirect jump are addresses.
LEMMA TargetSetsType == \A S \in TargetSets : S \subseteq Addrs
  BY DEF TargetSets

\* The part of a flag that is a condition is a set of conditions.
LEMMA FlagPartType == \A f \in Flags : ({f} \cap Conds) \subseteq Conds
  OBVIOUS

\* Taking the next block keeps the types: load_backup is only reached with a
\* backup, or falls back on the state there is.
LEMMA PopBlockType ==
    ASSUME TypeOK, PopBlock
    PROVE  TypeOK'
  <1> DEFINE n == Len(unvisited)
  <1>1. /\ unvisited \in Seq(BBInfos)
        /\ unvisited # <<>>
        /\ unvisited' = SubSeq(unvisited, 1, n - 1)
        /\ blockInfo' = unvisited[n]
    BY DEF TypeOK, PopBlock, TakeUnvisited, NextBlockInfo
  <1>2. n \in Nat /\ n \in 1 .. n
    BY <1>1
  <1>3. unvisited[n] \in BBInfos
    BY <1>1, <1>2
  <1>4. unvisited' \in Seq(BBInfos)
    BY <1>1, <1>2
  <1> DEFINE b == unvisited[n].block
  <1>5. b \in Blocks
    BY <1>3 DEF BBInfos
  <1>6. UNCHANGED <<aborted, nblocks, computed, BBbackup, GEPcache, entry>>
    BY DEF PopBlock
  <1>7. CASE UNCHANGED <<filter, run, finished, cur, blocks, live, usedPointer, cpu>>
    BY <1>1, <1>3, <1>4, <1>6, <1>7 DEF TypeOK
  <1>8. CASE StartBlock(b)
    <2>1. live' \in BackupPoint
      BY <1>5, <1>8 DEF StartBlock, LoadBackup, TypeOK
    <2>2. blocks' \in [Blocks -> BlockRecords]
      <3>1. blocks[b] \in BlockRecords
        BY <1>5 DEF TypeOK
      <3>2. [blocks[b] EXCEPT !.lifted = TRUE] \in BlockRecords
        BY <3>1 DEF BlockRecords
      <3>3. blocks' = [blocks EXCEPT ![b] = [blocks[b] EXCEPT !.lifted = TRUE]]
        BY <1>5, <1>8 DEF StartBlock, TypeOK
      <3>4. QED
        BY <3>2, <3>3 DEF TypeOK
    <2>3. cpu' \in CpuState
      BY <1>5, <1>8 DEF StartBlock, TypeOK
    <2>4. filter' = TRUE /\ finished' = 0 /\ cur' = b /\ run' = 1 /\ usedPointer' = None
      BY <1>8 DEF StartBlock, FinishedAtStart
    <2>5. QED
      BY <1>1, <1>3, <1>4, <1>5, <1>6, <2>1, <2>2, <2>3, <2>4 DEF TypeOK
  <1>9. QED
    BY <1>7, <1>8 DEF PopBlock, TakeUnvisited

\* The initial states are well typed.
LEMMA InitType == Init => TypeOK
  <1> SUFFICES ASSUME Init PROVE TypeOK
    OBVIOUS
  <1>1. 1 \in Blocks /\ 0 \in Slots
    BY ConstantsAssumption DEF Blocks, Slots
  <1>2. InitLive \in BackupPoint
    BY <1>1 DEF InitLive, BackupPoint, NoAssumption, NothingStored, Assumptions,
                Flags, Memory, Rsps
  <1>3. InitCpu \in CpuState
    BY <1>1, ConstantsAssumption
    DEF InitCpu, CpuState, NoAssumption, NothingStored, Assumptions, Flags,
        Memory, Rsps, Values
  <1>4. InitBlock \in BlockRecords
    BY <1>1, ConstantsAssumption, TerminatorTypes DEF InitBlock, BlockRecords
  <1>5. [addr |-> EntryAddr, block |-> 1] \in BBInfos
    BY <1>1, ConstantsAssumption DEF BBInfos
  <1>6. unvisited \in Seq(BBInfos)
    BY <1>5 DEF Init
  <1>7. /\ live \in BackupPoint /\ cpu \in CpuState
        /\ blocks \in [Blocks -> BlockRecords]
        /\ entry \in [Blocks -> CpuState]
        /\ blockInfo \in BBInfos
    BY <1>2, <1>3, <1>4, <1>5 DEF Init
  <1>8. /\ BBbackup \in [Blocks -> BackupPoint \cup {None}]
        /\ GEPcache \in Blocks \cup {None}
        /\ computed \subseteq Conds
    BY DEF Init
  <1>9. QED
    BY <1>1, <1>6, <1>7, <1>8 DEF Init, TypeOK

-----------------------------------------------------------------------------
(* One step of the lifter *)

\* A step that changes the machine state, with what it does to the worklist.
Shape(s, c) ==
    \/ /\ Straight(s, c)
       /\ computed' \subseteq Conds
       /\ GEPcache' \in Blocks \cup {None}
       /\ usedPointer' \in Blocks \cup {None}
    \/ \E a \in Addrs, pc \in Values : BranchTo(a, pc, s, c)
    \/ \E cond \in Conds, a1, a2, a3, a4 \in Addrs :
          /\ SplitOn(cond, a1, a2, a3, a4, s, c)
          /\ computed' \in {computed, computed \cup {cond}}
    \/ LeaveUnsolved(s, c)

\* The states after a step agree when those before do, if the stack is balanced.
Balanced(s, c) == "call_outlined" \notin Instrs /\ Agrees(live, cpu) => Agrees(s, c)

\* solvePath branches, splits, leaves the jump unsolved, or aborts.
LEMMA SolvePathShape ==
    ASSUME NEW v \in Targets, NEW w \in CpuTargets, NEW s, NEW c,
           SolvePath(v, w, s, c)
    PROVE  Shape(s, c) \/ Abort
  BY SolvePathCases DEF Shape

\* Pushing the same value and popping the same number of slots keep agreement.
LEMMA PushPopAgree ==
    ASSUME TypeOK, Agrees(live, cpu)
    PROVE  /\ \A v \in Values : CanPush => Agrees(PushLive(v), PushCpu(v))
           /\ \A n \in {1, 2} : CanPop(n) => Agrees(PopLive(n), PopCpu(n))
  BY DEF TypeOK, BackupPoint, CpuState, Agrees, PushLive, PushCpu, PopLive, PopCpu

\* Setting the same part on both sides keeps agreement.
LEMMA UpdatesAgree ==
    ASSUME NEW s \in BackupPoint, NEW c \in CpuState, Agrees(s, c)
    PROVE  /\ \A b \in Blocks : /\ Agrees([s EXCEPT !.vec.def = b], c)
                               /\ Agrees([s EXCEPT !.vec.def = b, !.cache = b], c)
           /\ \A f \in Flags : Agrees([s EXCEPT !.vecflag = f], [c EXCEPT !.flag = f])
           /\ \A r \in Rsps : Agrees([s EXCEPT !.vec.rsp = r], [c EXCEPT !.rsp = r])
           /\ \A r \in Rsps, e \in BOOLEAN :
                 Agrees([s EXCEPT !.vec.rsp = r], [c EXCEPT !.rsp = r, !.astray = e])
  BY DEF BackupPoint, CpuState, Agrees

\* Every instruction ends the path, stops the lifter, or has one of the shapes
\* above.
LEMMA LiftCases ==
    ASSUME TypeOK, Lift
    PROVE  \/ Abort \/ EndPath
           \/ \E s \in BackupPoint, c \in CpuState : Shape(s, c) /\ Balanced(s, c)
  <1> USE DEF Is
  <1> DEFINE Goal == \E s \in BackupPoint, c \in CpuState : Shape(s, c) /\ Balanced(s, c)
  <1>a. /\ live \in BackupPoint /\ cpu \in CpuState
        /\ cur \in Blocks /\ computed \subseteq Conds
        /\ GEPcache \in Blocks \cup {None}
        /\ usedPointer \in Blocks \cup {None}
    BY DEF TypeOK
  <1>b. live.vecflag \in Flags /\ cpu.flag \in Flags /\ live.vec.rsp \in Rsps
    BY <1>a DEF BackupPoint, CpuState
  <1>c. Balanced(live, cpu)
    BY DEF Balanced
  <1>1. CASE LiftCompute
    <2>1. live.cache # None => live.cache \in Blocks
      BY <1>a DEF BackupPoint
    <2>2. \E s \in BackupPoint : Straight(s, cpu) /\ Balanced(s, cpu)
      BY <1>1, <1>a, <2>1, UpdateTypes, UpdatesAgree DEF LiftCompute, Balanced
    <2>3. Goal
      BY <1>1, <1>a, <2>2 DEF LiftCompute, Shape
    <2>4. QED
      BY <2>3
  <1>2. CASE LiftCompare
    <2>1. \E s \in BackupPoint, c \in CpuState : Straight(s, c) /\ Balanced(s, c)
      BY <1>2, <1>a, UpdateTypes, UpdatesAgree DEF LiftCompare, Balanced
    <2>2. computed' \subseteq Conds
      BY <1>2, <1>a DEF LiftCompare
    <2>3. Goal
      BY <1>2, <1>a, <2>1, <2>2 DEF LiftCompare, Shape
    <2>4. QED
      BY <2>3
  <1>3. CASE LiftPush
    <2>1. \E s \in BackupPoint, c \in CpuState : Straight(s, c) /\ Balanced(s, c)
      BY <1>3, PushPopTypes, PushPopAgree DEF LiftPush, Balanced
    <2>2. UNCHANGED <<computed, GEPcache, usedPointer>>
      BY <1>3 DEF LiftPush
    <2>3. QED
      BY <1>a, <2>1, <2>2 DEF Shape
  <1>4. CASE LiftPop
    <2>1. PopLive(1) \in BackupPoint /\ PopCpu(1) \in CpuState
      BY <1>4, PushPopTypes DEF LiftPop
    <2>2. [PopLive(1) EXCEPT !.vec.def = cur] \in BackupPoint
      BY <1>a, <2>1, UpdateTypes
    <2>3. Balanced([PopLive(1) EXCEPT !.vec.def = cur], PopCpu(1))
      BY <1>4, <1>a, <2>1, PushPopAgree, UpdatesAgree DEF LiftPop, Balanced
    <2>4. /\ Straight([PopLive(1) EXCEPT !.vec.def = cur], PopCpu(1))
          /\ UNCHANGED <<computed, GEPcache, usedPointer>>
      BY <1>4 DEF LiftPop
    <2>5. Shape([PopLive(1) EXCEPT !.vec.def = cur], PopCpu(1))
      BY <1>a, <2>4 DEF Shape
    <2>6. QED
      BY <2>1, <2>2, <2>3, <2>5
  <1>5. CASE LiftPopfq
    <2>1. PopLive(1) \in BackupPoint /\ PopCpu(1) \in CpuState
      BY <1>5, PushPopTypes DEF LiftPopfq
    <2>2. Agrees(live, cpu) => Agrees(PopLive(1), PopCpu(1))
      BY <1>5, PushPopAgree DEF LiftPopfq
    <2>3. PICK flag \in Flags :
             /\ Straight([PopLive(1) EXCEPT !.vecflag = flag],
                         [PopCpu(1) EXCEPT !.flag = flag])
             /\ computed' = computed \cup ({flag} \cap Conds)
             /\ UNCHANGED <<GEPcache, usedPointer>>
      BY <1>5 DEF LiftPopfq, PoppedFlags, Flags
    <2> DEFINE S == [PopLive(1) EXCEPT !.vecflag = flag]
               C == [PopCpu(1) EXCEPT !.flag = flag]
    <2>4. S \in BackupPoint /\ C \in CpuState
      BY <2>1, UpdateTypes
    <2>5. Balanced(S, C)
      BY <2>1, <2>2, UpdatesAgree DEF Balanced
    <2>6. Shape(S, C)
      BY <1>a, <2>3 DEF Shape
    <2>7. QED
      BY <2>4, <2>5, <2>6
  <1>6. CASE LiftSetRsp
    <2>1. PICK rsp \in Rsps :
             /\ Straight([live EXCEPT !.vec.rsp = rsp], [cpu EXCEPT !.rsp = rsp])
             /\ UNCHANGED <<computed, GEPcache, usedPointer>>
      BY <1>6 DEF LiftSetRsp
    <2> DEFINE S == [live EXCEPT !.vec.rsp = rsp]
               C == [cpu EXCEPT !.rsp = rsp]
    <2>2. S \in BackupPoint /\ C \in CpuState
      BY <1>a, UpdateTypes
    <2>3. Balanced(S, C)
      BY <1>a, UpdatesAgree DEF Balanced
    <2>4. Shape(S, C)
      BY <1>a, <2>1 DEF Shape
    <2>5. QED
      BY <2>2, <2>3, <2>4
  <1>7. CASE LiftLeave
    <2>1. PICK rsp \in Rsps, astray \in BOOLEAN, rbp \in Rsps \cup {EntryRbp} :
             /\ Straight([live EXCEPT !.vec.rsp = rsp],
                         [cpu EXCEPT !.rsp = rsp, !.astray = astray])
             /\ PopStack(rbp)
             /\ UNCHANGED computed
      BY <1>7, <1>a DEF LiftLeave, Fits, Strays, CpuState
    <2> DEFINE S == [live EXCEPT !.vec.rsp = rsp]
               C == [cpu EXCEPT !.rsp = rsp, !.astray = astray]
    <2>2. S \in BackupPoint /\ C \in CpuState
      BY <1>a, <2>1, UpdateTypes
    <2>3. Balanced(S, C)
      BY <1>a, <2>1, UpdatesAgree DEF Balanced
    <2>4. Shape(S, C)
      BY <1>a, <2>1, PopStackType DEF Shape
    <2>5. QED
      BY <2>2, <2>3, <2>4
  <1>8. CASE LiftJmp
    <2>1. PICK v \in Targets, w \in CpuTargets : SolvePath(v, w, live, cpu)
      BY <1>8, TargetTypes DEF LiftJmp
    <2>2. QED
      BY <1>a, <1>c, <2>1, SolvePathShape
  <1>9. CASE LiftJmpRegister
    <2>1. PICK v \in Targets, w \in CpuTargets : SolvePath(v, w, live, cpu)
      BY <1>9, <1>b, TargetTypes, TargetSetsType DEF LiftJmpRegister
    <2>2. QED
      BY <1>a, <1>c, <2>1, SolvePathShape
  <1>10. CASE LiftJcc
    <2>1. PICK v \in Targets, w \in CpuTargets : SolvePath(v, w, live, cpu)
      BY <1>10, <1>b, TargetTypes DEF LiftJcc
    <2>2. QED
      BY <1>a, <1>c, <2>1, SolvePathShape
  <1>11. CASE LiftCall
    <2>1. PICK target \in Addrs, next \in Addrs :
             BranchTo(target, target, PushLive(next), PushCpu(next))
      BY <1>11 DEF LiftCall
    <2>2. PushLive(next) \in BackupPoint /\ PushCpu(next) \in CpuState
      BY <1>11, PushPopTypes DEF LiftCall, Values
    <2>3. Balanced(PushLive(next), PushCpu(next))
      BY <1>11, PushPopAgree DEF LiftCall, Balanced, Values
    <2>4. Shape(PushLive(next), PushCpu(next))
      BY <2>1 DEF Shape, Values
    <2>5. QED
      BY <2>2, <2>3, <2>4
  <1>12. CASE LiftCallOutlined
    <2>1. PICK next \in Addrs :
             BranchTo(next, next, PushLive(next), [PushCpu(next) EXCEPT !.rsp = cpu.rsp])
      BY <1>12 DEF LiftCallOutlined
    <2> DEFINE C == [PushCpu(next) EXCEPT !.rsp = cpu.rsp]
    <2>2. PushLive(next) \in BackupPoint /\ PushCpu(next) \in CpuState
      BY <1>12, PushPopTypes DEF LiftCallOutlined, Values
    <2>3. C \in CpuState
      BY <1>a, <2>2 DEF CpuState
    <2>4. Balanced(PushLive(next), C)
      BY <1>12 DEF LiftCallOutlined, Balanced
    <2>5. Shape(PushLive(next), C)
      BY <2>1 DEF Shape, Values
    <2>6. QED
      BY <2>2, <2>3, <2>4, <2>5
  <1>13. CASE LiftRetReal
    BY <1>13 DEF LiftRetReal
  <1>14. CASE LiftRetRop
    <2>1. PICK imm \in {0, 1} :
             /\ CanPop(1 + imm)
             /\ \E v \in Targets, w \in CpuTargets :
                   SolvePath(v, w, PopLive(1 + imm), PopCpu(1 + imm))
      <3>1. \A a \in Addrs : Const(a) \in Targets
        BY TargetTypes
      <3>2. \A S \in TargetSets : Opaque(S) \in Targets
        BY TargetTypes, TargetSetsType
      <3>3. /\ ReturnTarget # Unknown => ReturnTarget \in Addrs
            /\ StackWord(cpu.rsp) \in Addrs \cup {Unknown, None}
        BY LoadType DEF Values
      <3>4. /\ \A S \in TargetSets : (IF StackWord(cpu.rsp) \in Addrs THEN Const(StackWord(cpu.rsp))
                                     ELSE Opaque(S)) \in CpuTargets
            /\ Const(IF StackWord(cpu.rsp) = None THEN Unknown ELSE StackWord(cpu.rsp))
                  \in CpuTargets
        BY <3>1, <3>2, <3>3, TargetTypes
      <3>5. QED
        BY <1>14, <3>1, <3>2, <3>3, <3>4 DEF LiftRetRop
    <2>2. PopLive(1 + imm) \in BackupPoint /\ PopCpu(1 + imm) \in CpuState
      BY <2>1, PushPopTypes
    <2>3. Balanced(PopLive(1 + imm), PopCpu(1 + imm))
      BY <2>1, PushPopAgree DEF Balanced
    <2>4. QED
      BY <2>1, <2>2, <2>3, SolvePathShape
  <1>16. CASE LiftStop
    BY <1>16 DEF LiftStop
  <1>17. CASE LiftCallRegister
    <2>1. PICK function \in Addrs, next \in Addrs :
             /\ function + next \in Addrs
             /\ BranchTo(function + next, function, PushLive(next), PushCpu(next))
      BY <1>17 DEF LiftCallRegister
    <2>2. PushLive(next) \in BackupPoint /\ PushCpu(next) \in CpuState
      BY <1>17, PushPopTypes DEF LiftCallRegister, Values
    <2>3. Balanced(PushLive(next), PushCpu(next))
      BY <1>17, PushPopAgree DEF LiftCallRegister, Balanced, Values
    <2>4. Shape(PushLive(next), PushCpu(next))
      BY <2>1 DEF Shape, Values
    <2>5. QED
      BY <2>2, <2>3, <2>4
  <1>18. QED
    BY <1>1, <1>2, <1>3, <1>4, <1>5, <1>6, <1>7, <1>8, <1>9, <1>10, <1>11,
       <1>12, <1>13, <1>14, <1>16, <1>17 DEF Lift

\* Lifting any instruction keeps the types.
LEMMA LiftType ==
    ASSUME TypeOK, Lift
    PROVE  TypeOK'
  <1>1. CASE Abort
    BY <1>1 DEF Abort, TypeOK, graph, caches
  <1>2. CASE EndPath
    BY <1>2, EndPathType
  <1>4. ASSUME NEW s \in BackupPoint, NEW c \in CpuState, Shape(s, c)
        PROVE  TypeOK'
    <2>1. CASE \E cond \in Conds, a1, a2, a3, a4 \in Addrs :
                 /\ SplitOn(cond, a1, a2, a3, a4, s, c)
                 /\ computed' \in {computed, computed \cup {cond}}
      <3>1. computed' \subseteq Conds
        BY <2>1 DEF TypeOK
      <3>2. QED
        BY <2>1, <3>1, SplitOnType
    <2>2. CASE LeaveUnsolved(s, c)
      BY <2>2 DEF LeaveUnsolved, TypeOK, graph, caches
    <2>3. QED
      BY <1>4, <2>1, <2>2, StraightType, BranchToType DEF Shape
  <1>5. QED
    BY <1>1, <1>2, <1>4, LiftCases

\* Type correctness: whatever program is lifted, every variable keeps the shape
\* its code gives it; no backup is ever read that was not written.
THEOREM TypeCorrect == Spec => []TypeOK
  <1>1. Init => TypeOK
    BY InitType
  <1>2. TypeOK /\ [Next]_vars => TypeOK'
    <2> SUFFICES ASSUME TypeOK, [Next]_vars PROVE TypeOK'
      OBVIOUS
    <2>1. CASE PopBlock
      BY <2>1, PopBlockType
    <2>2. CASE Lift
      BY <2>2, LiftType
    <2>3. CASE UNCHANGED vars
      BY <2>3 DEF TypeOK, vars
    <2>4. QED
      BY <2>1, <2>2, <2>3 DEF Next
  <1>3. QED
    BY <1>1, <1>2, PTL DEF Spec

-----------------------------------------------------------------------------
(* The worklist *)

\* What appending one element does.
LEMMA AppendFacts ==
    ASSUME NEW q \in Seq(BBInfos), NEW e \in BBInfos
    PROVE  /\ Append(q, e) \in Seq(BBInfos)
           /\ Len(q) \in Nat
           /\ DOMAIN q = 1 .. Len(q)
           /\ DOMAIN Append(q, e) = 1 .. Len(q) + 1
           /\ Len(Append(q, e)) = Len(q) + 1
           /\ \A i \in 1 .. Len(q) : Append(q, e)[i] = q[i]
           /\ Append(q, e)[Len(q) + 1] = e
  OBVIOUS

\* What appending two elements does: the two sides of a branch.
LEMMA AppendTwoFacts ==
    ASSUME NEW p \in Seq(BBInfos), NEW e1 \in BBInfos, NEW e2 \in BBInfos
    PROVE  LET q == Append(Append(p, e1), e2)
               n == Len(p)
           IN /\ n \in Nat
              /\ DOMAIN p = 1 .. n
              /\ DOMAIN q = 1 .. n + 2
              /\ Len(q) = n + 2
              /\ \A i \in 1 .. n : q[i] = p[i]
              /\ q[n + 1] = e1
              /\ q[n + 2] = e2
  <1> DEFINE m == Append(p, e1)
  <1>1. /\ m \in Seq(BBInfos) /\ Len(m) = Len(p) + 1 /\ Len(p) \in Nat
        /\ \A i \in 1 .. Len(p) : m[i] = p[i]
        /\ m[Len(p) + 1] = e1
        /\ DOMAIN p = 1 .. Len(p)
    BY AppendFacts
  <1>2. /\ DOMAIN Append(m, e2) = 1 .. Len(m) + 1
        /\ Len(Append(m, e2)) = Len(m) + 1
        /\ \A i \in 1 .. Len(m) : Append(m, e2)[i] = m[i]
        /\ Append(m, e2)[Len(m) + 1] = e2
    BY <1>1, AppendFacts
  <1>3. QED
    BY <1>1, <1>2

\* What is queued is a block.
LEMMA QueuedBlocks ==
    ASSUME TypeOK
    PROVE  /\ unvisited \in Seq(BBInfos)
           /\ \A i \in DOMAIN unvisited : unvisited[i].block \in Blocks
  <1>1. unvisited \in Seq(BBInfos)
    BY DEF TypeOK
  <1>2. \A i \in DOMAIN unvisited : unvisited[i] \in BBInfos
    BY <1>1
  <1>3. QED
    BY <1>1, <1>2 DEF BBInfos

\* The numbers of new blocks are fresh.
LEMMA FreshBlocks ==
    ASSUME TypeOK
    PROVE  /\ nblocks \in Nat
           /\ nblocks + 1 \notin Created /\ nblocks + 2 \notin Created
           /\ nblocks + 1 # nblocks + 2
           /\ Created \subseteq Blocks
           /\ nblocks + 2 \in Blocks => nblocks + 1 \in Blocks
           /\ \A x : x \in 1 .. nblocks + 1 <=> x \in Created \/ x = nblocks + 1
           /\ \A x : x \in 1 .. nblocks + 2 <=> \/ x \in Created
                                              \/ x = nblocks + 1 \/ x = nblocks + 2
  <1>1. nblocks \in Nat /\ nblocks >= 1 /\ nblocks <= MaxBlocks /\ MaxBlocks \in Nat
    BY ConstantsAssumption DEF TypeOK, Blocks
  <1>2. QED
    BY <1>1 DEF Created, Blocks

\* What is left when the top is taken.
LEMMA TakeFacts ==
    ASSUME TypeOK, unvisited # <<>>
    PROVE  LET n == Len(unvisited)
           IN /\ n \in Nat /\ n \in DOMAIN unvisited
              /\ DOMAIN unvisited = 1 .. n
              /\ Len(TakeUnvisited.rest) = n - 1
              /\ DOMAIN TakeUnvisited.rest = 1 .. n - 1
              /\ \A i \in 1 .. n - 1 : TakeUnvisited.rest[i] = unvisited[i]
              /\ TakeUnvisited.info = unvisited[n]
              /\ unvisited[n].block \in Blocks
  <1> DEFINE n == Len(unvisited)
  <1>1. unvisited \in Seq(BBInfos) /\ n \in Nat /\ n >= 1 /\ DOMAIN unvisited = 1 .. n
    BY DEF TypeOK
  <1>2. unvisited[n] \in BBInfos
    BY <1>1
  <1>3. QED
    BY <1>1, <1>2 DEF TakeUnvisited, BBInfos

\* Which blocks have been entered after a step that creates blocks.
LEMMA BranchToLifted ==
    ASSUME TypeOK, NEW a, NEW pc, NEW s, NEW c, BranchTo(a, pc, s, c)
    PROVE  \A x \in Blocks : blocks'[x].lifted = (x # nblocks + 1 /\ blocks[x].lifted)
  <1>1. /\ nblocks + 1 \in Blocks
        /\ blocks' = [[blocks EXCEPT ![cur].term = Br(nblocks + 1)]
                         EXCEPT ![nblocks + 1] = NewBlock(a)]
    BY DEF BranchTo
  <1>2. NewBlock(a).lifted = FALSE
    BY DEF NewBlock
  <1>3. \A x \in Blocks : blocks[x].lifted \in BOOLEAN
    BY DEF TypeOK, BlockRecords
  <1>4. QED
    BY <1>1, <1>2, <1>3 DEF TypeOK, BlockRecords

\* Splitting creates two blocks and lifts none.
LEMMA SplitOnLifted ==
    ASSUME TypeOK, NEW cond \in Conds, NEW yes, NEW no, NEW pcYes, NEW pcNo,
           NEW s, NEW c, SplitOn(cond, yes, no, pcYes, pcNo, s, c)
    PROVE  \A x \in Blocks : blocks'[x].lifted =
              (x # nblocks + 1 /\ x # nblocks + 2 /\ blocks[x].lifted)
  <1> DEFINE t == nblocks + 1
             f == nblocks + 2
  <1>1. /\ t \in Blocks /\ f \in Blocks /\ t # f
        /\ blocks' = [[blocks EXCEPT ![cur].term = CondBr(cond, t, f)]
                         EXCEPT ![t] = NewBlock(yes), ![f] = NewBlock(no)]
    <2>1. f \in Blocks
      BY DEF SplitOn
    <2>2. QED
      BY <2>1, FreshBlocks DEF SplitOn
  <1>2. NewBlock(yes).lifted = FALSE /\ NewBlock(no).lifted = FALSE
    BY DEF NewBlock
  <1>3. \A x \in Blocks : blocks[x].lifted \in BOOLEAN
    BY DEF TypeOK, BlockRecords
  <1>4. QED
    BY <1>1, <1>2, <1>3 DEF TypeOK, BlockRecords

-----------------------------------------------------------------------------
(* Each block is lifted once *)

\* A branch to one new block keeps the worklist's invariant.
LEMMA BranchToQueue ==
    ASSUME TypeOK, QueueInv, NEW a \in Addrs, NEW pc, NEW s, NEW c,
           BranchTo(a, pc, s, c)
    PROVE  QueueInv'
  <1> DEFINE n == Len(unvisited)
             b == nblocks + 1
             e == [addr |-> a, block |-> b]
  <1>1. /\ b \in Blocks /\ nblocks' = b /\ unvisited' = Append(unvisited, e)
        /\ e \in BBInfos
    BY DEF BranchTo, BBInfos
  <1>2. /\ DOMAIN unvisited = 1 .. n /\ n \in Nat
        /\ DOMAIN unvisited' = 1 .. n + 1
        /\ \A i \in 1 .. n : unvisited'[i] = unvisited[i]
        /\ unvisited'[n + 1].block = b
    BY <1>1, AppendFacts, QueuedBlocks
  <1>3. \A i \in 1 .. n : unvisited[i].block \in Created
    BY <1>2 DEF QueueInv, QueueIsCreated
  <1>4. QueueIsCreated'
    BY <1>1, <1>2, <1>3, FreshBlocks DEF QueueIsCreated, Created
  <1>5. NothingLiftedYet'
    BY <1>1, FreshBlocks, BranchToLifted DEF QueueInv, NothingLiftedYet, Created
  <1>6. EachBlockOnce'
    <2>1. \A i \in DOMAIN unvisited' : ~blocks'[unvisited'[i].block].lifted
      <3> TAKE i \in DOMAIN unvisited'
      <3>1. CASE i \in 1 .. n
        BY <1>2, <1>3, <3>1, FreshBlocks, BranchToLifted DEF QueueInv, EachBlockOnce
      <3>2. CASE i = n + 1
        BY <1>1, <1>2, <3>2, BranchToLifted
      <3>3. QED
        BY <1>2, <3>1, <3>2
    <2>2. \A i, j \in DOMAIN unvisited' :
              unvisited'[i].block = unvisited'[j].block => i = j
      BY <1>2, <1>3, FreshBlocks DEF QueueInv, EachBlockOnce
    <2>3. QED
      BY <2>1, <2>2 DEF EachBlockOnce
  <1>7. QED
    BY <1>4, <1>5, <1>6 DEF QueueInv

\* A split into two new blocks keeps the worklist's invariant.
LEMMA SplitOnQueue ==
    ASSUME TypeOK, QueueInv, NEW cond \in Conds, NEW yes \in Addrs, NEW no \in Addrs,
           NEW pcYes, NEW pcNo, NEW s, NEW c,
           SplitOn(cond, yes, no, pcYes, pcNo, s, c)
    PROVE  QueueInv'
  <1> DEFINE n == Len(unvisited)
             t == nblocks + 1
             f == nblocks + 2
             e1 == [addr |-> no, block |-> f]
             e2 == [addr |-> yes, block |-> t]
  <1>1. /\ f \in Blocks /\ nblocks' = f
        /\ unvisited' = Append(Append(unvisited, e1), e2)
    BY DEF SplitOn
  <1>2. t \in Blocks /\ e1 \in BBInfos /\ e2 \in BBInfos
    BY <1>1, FreshBlocks DEF BBInfos
  <1>3. /\ DOMAIN unvisited = 1 .. n /\ n \in Nat
        /\ DOMAIN unvisited' = 1 .. n + 2
        /\ \A i \in 1 .. n : unvisited'[i] = unvisited[i]
        /\ unvisited'[n + 1].block = f
        /\ unvisited'[n + 2].block = t
    BY <1>1, <1>2, AppendTwoFacts, QueuedBlocks
  <1>4. \A i \in 1 .. n : unvisited[i].block \in Created
    BY <1>3 DEF QueueInv, QueueIsCreated
  <1>5. QueueIsCreated'
    BY <1>1, <1>3, <1>4, FreshBlocks DEF QueueIsCreated, Created
  <1>6. NothingLiftedYet'
    BY <1>1, FreshBlocks, SplitOnLifted DEF QueueInv, NothingLiftedYet, Created
  <1>7. EachBlockOnce'
    <2>1. \A i \in DOMAIN unvisited' : ~blocks'[unvisited'[i].block].lifted
      <3> TAKE i \in DOMAIN unvisited'
      <3>1. CASE i \in 1 .. n
        BY <1>3, <1>4, <3>1, FreshBlocks, SplitOnLifted DEF QueueInv, EachBlockOnce
      <3>2. CASE i = n + 1 \/ i = n + 2
        BY <1>1, <1>2, <1>3, <3>2, SplitOnLifted
      <3>3. QED
        BY <1>3, <3>1, <3>2
    <2>2. \A i, j \in DOMAIN unvisited' :
              unvisited'[i].block = unvisited'[j].block => i = j
      <3>1. f \notin Created /\ t \notin Created /\ f # t
        BY FreshBlocks
      <3>2. \A i \in 1 .. n : unvisited'[i].block \in Created
        BY <1>3, <1>4
      <3>3. \A i, j \in 1 .. n : unvisited'[i].block = unvisited'[j].block => i = j
        BY <1>3 DEF QueueInv, EachBlockOnce
      <3>4. \A i \in DOMAIN unvisited' : i \in 1 .. n \/ i = n + 1 \/ i = n + 2
        BY <1>3
      <3> HIDE DEF n, t, f
      <3>5. QED
        BY <1>3, <3>1, <3>2, <3>3, <3>4
    <2>3. QED
      BY <2>1, <2>2 DEF EachBlockOnce
  <1>8. QED
    BY <1>5, <1>6, <1>7 DEF QueueInv

\* Taking the next block keeps the worklist's invariant.
LEMMA PopBlockQueue ==
    ASSUME TypeOK, QueueInv, PopBlock
    PROVE  QueueInv'
  <1> DEFINE n == Len(unvisited)
             b == unvisited[n].block
  <1>1. /\ unvisited # <<>> /\ unvisited' = TakeUnvisited.rest
        /\ UNCHANGED nblocks
        /\ TakeUnvisited.info = unvisited[n]
    BY DEF PopBlock, TakeUnvisited
  <1>2. /\ n \in Nat /\ n \in DOMAIN unvisited /\ DOMAIN unvisited = 1 .. n
        /\ DOMAIN unvisited' = 1 .. n - 1
        /\ \A i \in 1 .. n - 1 : unvisited'[i] = unvisited[i]
        /\ b \in Blocks
    BY <1>1, TakeFacts
  <1>3. \A x \in Blocks : x # b => blocks'[x].lifted = blocks[x].lifted
    <2>1. CASE UNCHANGED blocks
      BY <2>1
    <2>2. CASE blocks' = [blocks EXCEPT ![b].lifted = TRUE]
      BY <1>2, <2>2 DEF TypeOK
    <2>3. QED
      BY <1>1, <2>1, <2>2 DEF PopBlock, StartBlock
  <1>4. \A i \in 1 .. n - 1 : /\ i \in DOMAIN unvisited
                              /\ unvisited[i].block # b
                              /\ unvisited[i].block \in Blocks
    BY <1>2, QueuedBlocks DEF QueueInv, EachBlockOnce
  <1>5. QueueIsCreated'
    BY <1>1, <1>2, <1>4 DEF QueueInv, QueueIsCreated, Created
  <1>6. b \in Created
    BY <1>2 DEF QueueInv, QueueIsCreated
  <1>7. NothingLiftedYet'
    BY <1>1, <1>3, <1>6 DEF QueueInv, NothingLiftedYet, Created
  <1>8. EachBlockOnce'
    BY <1>2, <1>3, <1>4 DEF QueueInv, EachBlockOnce
  <1>9. QED
    BY <1>5, <1>7, <1>8 DEF QueueInv

\* A step that leaves the worklist and the set of created blocks alone.
LEMMA SameQueue ==
    ASSUME TypeOK, QueueInv, UNCHANGED <<unvisited, nblocks>>,
           \A x \in Blocks : blocks'[x].lifted = blocks[x].lifted
    PROVE  QueueInv'
  BY QueuedBlocks
  DEF QueueInv, QueueIsCreated, NothingLiftedYet, EachBlockOnce, Created

\* Lifting any instruction keeps the worklist's invariant.
LEMMA LiftQueue ==
    ASSUME TypeOK, QueueInv, Lift
    PROVE  QueueInv'
  <1>1. CASE Abort
    BY <1>1, SameQueue DEF Abort, graph
  <1>2. CASE EndPath
    <2>1. \A x \in Blocks : blocks'[x].lifted = blocks[x].lifted
      BY <1>2 DEF EndPath, TypeOK, BlockRecords
    <2>2. QED
      BY <1>2, <2>1, SameQueue DEF EndPath
  <1>4. ASSUME NEW s \in BackupPoint, NEW c \in CpuState, Shape(s, c)
        PROVE  QueueInv'
    <2>1. CASE Straight(s, c)
      BY <2>1, SameQueue DEF Straight, control, graph
    <2>2. CASE LeaveUnsolved(s, c)
      BY <2>2, SameQueue DEF LeaveUnsolved, graph
    <2>3. QED
      BY <1>4, <2>1, <2>2, BranchToQueue, SplitOnQueue DEF Shape
  <1>5. QED
    BY <1>1, <1>2, <1>4, LiftCases

\* The worklist holds only blocks getOrCreateBB has made, each of them once, and
\* none that was lifted, however it grows.
THEOREM WorklistIsInOrder == Spec => []QueueInv
  <1>1. Init => QueueInv
    <2> SUFFICES ASSUME Init PROVE QueueInv
      OBVIOUS
    <2>1. DOMAIN unvisited = {1} /\ unvisited[1].block = 1 /\ Created = {1}
      BY DEF Init, Created
    <2>2. \A x \in Blocks : ~blocks[x].lifted
      BY DEF Init, InitBlock
    <2>3. 1 \in Blocks
      BY ConstantsAssumption DEF Blocks
    <2>4. QED
      BY <2>1, <2>2, <2>3 DEF QueueInv, QueueIsCreated, NothingLiftedYet, EachBlockOnce
  <1>2. TypeOK /\ QueueInv /\ [Next]_vars => QueueInv'
    <2> SUFFICES ASSUME TypeOK, QueueInv, [Next]_vars PROVE QueueInv'
      OBVIOUS
    <2>1. CASE PopBlock
      BY <2>1, PopBlockQueue
    <2>2. CASE Lift
      BY <2>2, LiftQueue
    <2>3. CASE UNCHANGED vars
      BY <2>3, SameQueue DEF vars
    <2>4. QED
      BY <2>1, <2>2, <2>3 DEF Next
  <1>3. QED
    BY <1>1, <1>2, TypeCorrect, PTL DEF Spec

\* No block is lifted twice, whatever the jumps of the program: the lifter emits
\* each block of the output once.
THEOREM BlocksLiftedOnce == Spec => []EachBlockOnce
  <1>1. QueueInv => EachBlockOnce
    BY DEF QueueInv
  <1>2. QED
    BY <1>1, WorklistIsInOrder, PTL

-----------------------------------------------------------------------------
(* Coming back to the other side of a branch *)

\* Entering a block does not change what the lifter and the processor compare.
LEMMA EnterAgrees ==
    ASSUME NEW s \in BackupPoint, NEW c \in CpuState, Agrees(s, c), NEW b, NEW pc
    PROVE  Agrees(s, Enter(c, b, pc))
  BY DEF Agrees, Enter, CpuState

\* Assuming the same bit of a condition on both sides keeps them in agreement.
LEMMA AssumeAgrees ==
    ASSUME NEW s \in BackupPoint, NEW c \in CpuState, Agrees(s, c),
           NEW cond \in Conds, NEW bit \in {0, 1}
    PROVE  /\ [s EXCEPT !.assumptions[cond] = bit] \in BackupPoint
           /\ [c EXCEPT !.taken[cond] = bit] \in CpuState
           /\ Agrees([s EXCEPT !.assumptions[cond] = bit],
                     [c EXCEPT !.taken[cond] = bit])
  BY DEF Agrees, BackupPoint, CpuState, Assumptions

\* While a block is lifted, every queued block has a backup.
LEMMA QueueWhileLifting ==
    ASSUME TypeOK, BackupInv, Lifting
    PROVE  \A i \in DOMAIN unvisited :
              /\ unvisited[i].block \in Created
              /\ unvisited[i].block \in Blocks
              /\ BBbackup[unvisited[i].block] # None
              /\ Agrees(BBbackup[unvisited[i].block], entry[unvisited[i].block])
  BY QueuedBlocks DEF BackupInv, BackupOrLive, QueueIsCreated

\* Agrees of the primed backup and entry of a block neither of which changes.
LEMMA SameBackups ==
    ASSUME TypeOK, BackupInv, Lifting, UNCHANGED <<unvisited, BBbackup>>,
           nblocks' \in {nblocks, nblocks + 1},
           \A x \in Created : entry'[x] = entry[x],
           Lifting' => Agrees(live, cpu)'
    PROVE  BackupInv'
  <1>1. QueueIsCreated'
    BY FreshBlocks, QueueWhileLifting DEF QueueIsCreated, Created
  <1>2. NoEarlyBackup'
    BY FreshBlocks DEF BackupInv, NoEarlyBackup, Created
  <1>3. BackupOrLive'
    BY QueueWhileLifting DEF BackupOrLive, Agrees
  <1>4. LiveMatchesPath'
    BY DEF LiveMatchesPath
  <1>5. QED
    BY <1>1, <1>2, <1>3, <1>4 DEF BackupInv

\* The block a branch goes to gets a backup that agrees with its entry.
LEMMA BranchToBackup ==
    ASSUME TypeOK, BackupInv, Lifting, NEW a \in Addrs, NEW pc \in Values,
           NEW s \in BackupPoint, NEW c \in CpuState, Agrees(s, c),
           BranchTo(a, pc, s, c)
    PROVE  BackupInv'
  <1> DEFINE n == Len(unvisited)
             b == nblocks + 1
             e == [addr |-> a, block |-> b]
  <1>1. /\ b \in Blocks /\ nblocks' = b /\ unvisited' = Append(unvisited, e)
        /\ run' = 0 /\ live' = s
        /\ BBbackup' = BBbackup
        /\ entry' = [entry EXCEPT ![b] = Enter(c, b, pc)]
        /\ e \in BBInfos
    BY DEF BranchTo, BBInfos, caches
  <1>2. /\ n \in Nat
        /\ DOMAIN unvisited = 1 .. n
        /\ DOMAIN unvisited' = 1 .. n + 1
        /\ Len(unvisited') = n + 1
        /\ \A i \in 1 .. n : unvisited'[i] = unvisited[i]
        /\ unvisited'[n + 1].block = b
    BY <1>1, AppendFacts, QueuedBlocks
  <1>3. /\ b \notin Created
        /\ \A x \in Blocks : x # b => entry'[x] = entry[x]
        /\ entry'[b] = Enter(c, b, pc)
    BY <1>1, FreshBlocks DEF TypeOK
  <1>4. ~Lifting'
    BY <1>1 DEF Lifting
  <1>5. QueueIsCreated'
    BY <1>1, <1>2, FreshBlocks, QueueWhileLifting DEF QueueIsCreated, Created
  <1>6. NoEarlyBackup'
    BY <1>1, FreshBlocks DEF BackupInv, NoEarlyBackup, Created
  <1>7. BBbackup[b] = None
    BY <1>1, <1>3 DEF BackupInv, NoEarlyBackup
  <1>8. Agrees(live', entry'[b])
    BY <1>1, <1>3, EnterAgrees
  <1>9. BackupOrLive'
    <2> SUFFICES ASSUME NEW i \in DOMAIN unvisited'
                 PROVE  LET x == unvisited'[i].block
                        IN IF BBbackup'[x] # None THEN Agrees(BBbackup'[x], entry'[x])
                           ELSE i = Len(unvisited') /\ ~Lifting'
                                /\ (aborted' \/ Agrees(live', entry'[x]))
      BY DEF BackupOrLive, Agrees
    <2>1. CASE i \in 1 .. n
      BY <1>1, <1>2, <1>3, <2>1, QueueWhileLifting
    <2>2. CASE i = n + 1
      BY <1>1, <1>2, <1>4, <1>7, <1>8, <2>2
    <2>3. QED
      BY <1>2, <2>1, <2>2
  <1>10. LiveMatchesPath'
    BY <1>4 DEF LiveMatchesPath
  <1>11. QED
    BY <1>5, <1>6, <1>9, <1>10 DEF BackupInv

\* Both sides of a split get backups that agree with their entries.
LEMMA SplitOnBackup ==
    ASSUME TypeOK, BackupInv, Lifting, NEW cond \in Conds,
           NEW yes \in Addrs, NEW no \in Addrs, NEW pcYes \in Addrs, NEW pcNo \in Addrs,
           NEW s \in BackupPoint, NEW c \in CpuState, Agrees(s, c),
           SplitOn(cond, yes, no, pcYes, pcNo, s, c)
    PROVE  BackupInv'
  <1> DEFINE n == Len(unvisited)
             t == nblocks + 1
             f == nblocks + 2
             e1 == [addr |-> no, block |-> f]
             e2 == [addr |-> yes, block |-> t]
             S(bit) == [s EXCEPT !.assumptions[cond] = bit]
             C(bit) == [c EXCEPT !.taken[cond] = bit]
  <1>1. /\ f \in Blocks /\ nblocks' = f /\ run' = 0
        /\ unvisited' = Append(Append(unvisited, e1), e2)
        /\ BBbackup' = [BBbackup EXCEPT ![f] = S(0), ![t] = S(1)]
        /\ entry' = [entry EXCEPT ![t] = Enter(C(1), t, pcYes),
                                  ![f] = Enter(C(0), f, pcNo)]
    BY DEF SplitOn
  <1>2. /\ t \in Blocks /\ t # f /\ t \notin Created /\ f \notin Created
        /\ e1 \in BBInfos /\ e2 \in BBInfos
    BY <1>1, FreshBlocks DEF BBInfos
  <1>3. /\ n \in Nat
        /\ DOMAIN unvisited = 1 .. n
        /\ DOMAIN unvisited' = 1 .. n + 2
        /\ \A i \in 1 .. n : unvisited'[i] = unvisited[i]
        /\ unvisited'[n + 1].block = f
        /\ unvisited'[n + 2].block = t
    BY <1>1, <1>2, AppendTwoFacts, QueuedBlocks
  <1>4. /\ Agrees(S(0), Enter(C(0), f, pcNo)) /\ S(0) \in BackupPoint
        /\ Agrees(S(1), Enter(C(1), t, pcYes)) /\ S(1) \in BackupPoint
    BY AssumeAgrees, EnterAgrees
  <1>5. S(0) # None /\ S(1) # None
    BY <1>4, NoneAssumption
  <1> HIDE DEF S, C
  <1>6. /\ \A x \in Blocks : x # t /\ x # f => /\ entry'[x] = entry[x]
                                               /\ BBbackup'[x] = BBbackup[x]
        /\ BBbackup'[f] = S(0) /\ entry'[f] = Enter(C(0), f, pcNo)
        /\ BBbackup'[t] = S(1) /\ entry'[t] = Enter(C(1), t, pcYes)
    BY <1>1, <1>2 DEF TypeOK
  <1>7. ~Lifting'
    BY <1>1 DEF Lifting
  <1>8. QueueIsCreated'
    BY <1>1, <1>3, FreshBlocks, QueueWhileLifting DEF QueueIsCreated, Created
  <1>9. NoEarlyBackup'
    BY <1>1, <1>6, FreshBlocks DEF BackupInv, NoEarlyBackup, Created
  <1>10. BackupOrLive'
    <2> SUFFICES ASSUME NEW i \in DOMAIN unvisited'
                 PROVE  LET x == unvisited'[i].block
                        IN IF BBbackup'[x] # None THEN Agrees(BBbackup'[x], entry'[x])
                           ELSE i = Len(unvisited') /\ ~Lifting'
                                /\ (aborted' \/ Agrees(live', entry'[x]))
      BY DEF BackupOrLive, Agrees
    <2>1. CASE i \in 1 .. n
      <3>1. LET x == unvisited[i].block
            IN x \in Blocks /\ x # t /\ x # f /\ BBbackup[x] # None
               /\ Agrees(BBbackup[x], entry[x])
        BY <1>2, <1>3, <2>1, QueueWhileLifting
      <3>2. QED
        BY <1>3, <1>6, <2>1, <3>1
    <2>2. CASE i = n + 1
      BY <1>3, <1>4, <1>5, <1>6, <2>2
    <2>3. CASE i = n + 2
      BY <1>3, <1>4, <1>5, <1>6, <2>3
    <2>4. QED
      BY <1>3, <2>1, <2>2, <2>3
  <1>11. LiveMatchesPath'
    BY <1>7 DEF LiveMatchesPath
  <1>12. QED
    BY <1>8, <1>9, <1>10, <1>11 DEF BackupInv

\* The block that is taken starts from its own backup.
LEMMA PopBlockBackup ==
    ASSUME TypeOK, BackupInv, PopBlock
    PROVE  BackupInv'
  <1> DEFINE n == Len(unvisited)
             b == unvisited[n].block
  <1>1. /\ unvisited # <<>> /\ unvisited' = TakeUnvisited.rest
        /\ UNCHANGED <<nblocks, BBbackup, entry>>
        /\ TakeUnvisited.info = unvisited[n]
        /\ ~aborted
    BY DEF PopBlock, TakeUnvisited
  <1>2. /\ n \in Nat /\ n \in DOMAIN unvisited /\ DOMAIN unvisited = 1 .. n
        /\ DOMAIN unvisited' = 1 .. n - 1
        /\ \A i \in 1 .. n - 1 : unvisited'[i] = unvisited[i]
    BY <1>1, TakeFacts
  <1>3. \A i \in 1 .. n - 1 :
           /\ unvisited[i].block \in Created
           /\ BBbackup[unvisited[i].block] # None
           /\ Agrees(BBbackup[unvisited[i].block], entry[unvisited[i].block])
    BY <1>2 DEF BackupInv, BackupOrLive, QueueIsCreated
  <1>4. QueueIsCreated'
    BY <1>1, <1>2, <1>3 DEF QueueIsCreated, Created
  <1>5. NoEarlyBackup'
    BY <1>1 DEF BackupInv, NoEarlyBackup, Created
  <1>6. BackupOrLive'
    BY <1>1, <1>2, <1>3 DEF BackupOrLive, Agrees
  <1>7. Agrees(LoadBackup(b), entry[b])
    BY <1>1, <1>2 DEF LoadBackup, BackupInv, BackupOrLive
  <1>8. LiveMatchesPath'
    <2>1. CASE UNCHANGED <<run, finished>>
      BY <1>1, <2>1 DEF PopBlock, Lifting, LiveMatchesPath
    <2>2. CASE StartBlock(b)
      BY <1>7, <2>2 DEF StartBlock, LiveMatchesPath, Agrees
    <2>3. QED
      BY <1>1, <2>1, <2>2 DEF PopBlock
  <1>9. QED
    BY <1>4, <1>5, <1>6, <1>8 DEF BackupInv

\* Lifting any instruction of a balanced program keeps the backups right.
LEMMA LiftBackup ==
    ASSUME TypeOK, BackupInv, Lift, "call_outlined" \notin Instrs
    PROVE  BackupInv'
  <1>1. Lifting /\ Agrees(live, cpu)
    <2>1. Lifting
      BY DEF Lift, Is, LiftCompute, LiftCompare, LiftPush, LiftPop, LiftPopfq,
             LiftSetRsp, LiftLeave, LiftJmp, LiftJmpRegister, LiftJcc, LiftCall,
             LiftCallRegister, LiftCallOutlined, LiftRetReal, LiftRetRop, LiftStop
    <2>2. QED
      BY <2>1 DEF BackupInv, LiveMatchesPath
  <1>2. CASE Abort
    <2>1. ~Lifting'
      BY <1>2 DEF Abort, Lifting
    <2>2. QED
      BY <1>1, <1>2, <2>1, SameBackups DEF Abort, graph, caches
  <1>3. CASE EndPath
    <2>1. ~Lifting'
      BY <1>3 DEF EndPath, Lifting
    <2>2. QED
      BY <1>1, <1>3, <2>1, SameBackups DEF EndPath, caches
  <1>5. ASSUME NEW s \in BackupPoint, NEW c \in CpuState, Shape(s, c), Agrees(s, c)
        PROVE  BackupInv'
    <2>1. CASE Straight(s, c)
      <3>1. Agrees(live, cpu)'
        BY <1>5, <2>1 DEF Straight, Agrees
      <3>2. UNCHANGED <<unvisited, BBbackup, nblocks, entry>>
        BY <2>1 DEF Straight, control, graph
      <3>3. QED
        BY <1>1, <3>1, <3>2, SameBackups
    <2>2. CASE LeaveUnsolved(s, c)
      <3>1. ~Lifting'
        BY <2>2 DEF LeaveUnsolved, Lifting
      <3>2. QED
        BY <1>1, <2>2, <3>1, SameBackups DEF LeaveUnsolved, graph, caches
    <2>3. QED
      BY <1>1, <1>5, <2>1, <2>2, BranchToBackup, SplitOnBackup DEF Shape
  <1>6. QED
    BY <1>1, <1>2, <1>3, <1>5, LiftCases DEF Balanced

\* A queued block will start from the state of its own path: solvePath made a
\* backup of it, or it is the newest and the lifter still holds that state.  The
\* calls of the program are followed; one that is not leaves RSP one slot low.
THEOREM QueuedStatesAreThePaths ==
    ASSUME "call_outlined" \notin Instrs
    PROVE  Spec => []BackupInv
  <1>1. Init => BackupInv
    <2> SUFFICES ASSUME Init PROVE BackupInv
      OBVIOUS
    <2>1. DOMAIN unvisited = {1} /\ unvisited[1].block = 1 /\ Len(unvisited) = 1
      BY DEF Init
    <2>2. Created = {1} /\ 1 \in Blocks
      BY ConstantsAssumption DEF Init, Created, Blocks
    <2>3. Agrees(InitLive, InitCpu)
      BY DEF Agrees, InitLive, InitCpu
    <2>4. /\ live = InitLive /\ entry[1] = InitCpu /\ ~Lifting
          /\ \A x \in Blocks : BBbackup[x] = None
      BY <2>2 DEF Init, Lifting
    <2>5. QED
      BY <2>1, <2>2, <2>3, <2>4
      DEF BackupInv, QueueIsCreated, NoEarlyBackup, BackupOrLive, LiveMatchesPath
  <1>2. TypeOK /\ BackupInv /\ [Next]_vars => BackupInv'
    <2> SUFFICES ASSUME TypeOK, BackupInv, [Next]_vars PROVE BackupInv'
      OBVIOUS
    <2>1. CASE PopBlock
      BY <2>1, PopBlockBackup
    <2>2. CASE Lift
      BY <2>2, LiftBackup
    <2>3. CASE UNCHANGED vars
      BY <2>3 DEF vars, BackupInv, QueueIsCreated, NoEarlyBackup, BackupOrLive,
                  LiveMatchesPath, Lifting, Agrees, Created
    <2>4. QED
      BY <2>1, <2>2, <2>3 DEF Next
  <1>3. QED
    BY <1>1, <1>2, TypeCorrect, PTL DEF Spec

\* While a block is lifted, registers, flags, tracked memory and assumptions are
\* those of its own path, in every program whose calls are followed.
THEOREM LiveStateIsThePaths ==
    ASSUME "call_outlined" \notin Instrs
    PROVE  Spec => []LiveMatchesPath
  <1>1. BackupInv => LiveMatchesPath
    BY DEF BackupInv
  <1>2. QED
    BY <1>1, QueuedStatesAreThePaths, PTL

-----------------------------------------------------------------------------
(* The graph of blocks *)

\* Lifting a block is what gives it its terminator.
UnliftedIsOpen == \A x \in Blocks : ~blocks[x].lifted => blocks[x].term = NoTerm

\* The block being lifted has no terminator yet, and is the source of new edges
\* of the dominator tree.
BuilderIsOpen ==
    Lifting => /\ cur \in Created /\ blocks[cur].lifted
               /\ blocks[cur].term = NoTerm
               /\ blockInfo.block = cur

GraphInv == UnliftedIsOpen /\ BuilderIsOpen /\ DomTreeFollowsCfg

\* A step that ends the current block with the terminator t, creating the blocks
\* of N, to which t leads.
EndsBlock(N, t) ==
    /\ Lifting /\ ~Lifting'
    /\ \A x \in N : x \in Blocks /\ x \notin Created /\ x \in {t.yes, t.no}
    /\ \A x \in Blocks : x \in Created' <=> x \in Created \/ x \in N
    /\ Created' \subseteq Blocks
    /\ \A x \in Blocks \ N : x # cur => blocks'[x] = blocks[x]
    /\ blocks'[cur].term = t
    /\ blocks'[cur].dtParent = blocks[cur].dtParent
    /\ blocks'[cur].lifted = blocks[cur].lifted
    /\ \A x \in N : /\ blocks'[x].term = NoTerm
                    /\ blocks'[x].dtParent = cur

-----------------------------------------------------------------------------
(* The ways a block ends *)

\* The records the code makes.
LEMMA NewBlockParts ==
    ASSUME TypeOK, GraphInv, Lifting, NEW a
    PROVE  /\ NewBlock(a).term = NoTerm
           /\ NewBlock(a).dtParent = cur
           /\ cur \in Blocks /\ cur \in Created
  BY DEF NewBlock, GraphInv, BuilderIsOpen, TypeOK

\* Blocks are records with these parts.
LEMMA BlockParts ==
    ASSUME TypeOK
    PROVE  /\ DOMAIN blocks = Blocks
           /\ \A x \in Blocks : \A t : LET r == [blocks[x] EXCEPT !.term = t]
                                       IN /\ r.term = t
                                          /\ r.dtParent = blocks[x].dtParent
                                          /\ r.lifted = blocks[x].lifted
  BY DEF TypeOK, BlockRecords

\* A step to one new block.
LEMMA OneNewBlock ==
    ASSUME TypeOK, GraphInv, Lifting, NEW a, run' = 0,
           nblocks + 1 \in Blocks, nblocks' = nblocks + 1,
           blocks' = [[blocks EXCEPT ![cur].term = Br(nblocks + 1)]
                         EXCEPT ![nblocks + 1] = NewBlock(a)]
    PROVE  EndsBlock({nblocks + 1}, Br(nblocks + 1))
  <1> DEFINE b == nblocks + 1
  <1>1. b \notin Created /\ cur # b /\ cur \in Blocks
    BY FreshBlocks, NewBlockParts
  <1>2. ~Lifting'
    BY DEF Lifting
  <1>3. Created' = 1 .. b
    BY DEF Created
  <1>4. \A x : x \in Created' <=> x \in Created \/ x = b
    BY <1>3, FreshBlocks
  <1>5. Created' \subseteq Blocks
    BY <1>4, FreshBlocks
  <1>6. b \in {Br(b).yes, Br(b).no}
    BY DEF Br, NoTerm
  <1>7. /\ blocks'[b] = NewBlock(a)
        /\ blocks'[cur] = [blocks[cur] EXCEPT !.term = Br(b)]
        /\ \A x \in Blocks : x # b /\ x # cur => blocks'[x] = blocks[x]
    BY <1>1, BlockParts
  <1> HIDE DEF b
  <1>8. QED
    BY <1>1, <1>2, <1>4, <1>5, <1>6, <1>7, BlockParts, NewBlockParts DEF EndsBlock, b

\* BranchTo is such a step.
LEMMA BranchToEnds ==
    ASSUME TypeOK, GraphInv, Lifting, NEW a, NEW pc, NEW s, NEW c, BranchTo(a, pc, s, c)
    PROVE  EndsBlock({nblocks + 1}, Br(nblocks + 1))
  BY OneNewBlock DEF BranchTo

\* SplitOn makes two new blocks.
LEMMA SplitOnEnds ==
    ASSUME TypeOK, GraphInv, Lifting, NEW cond, NEW yes, NEW no, NEW pcYes, NEW pcNo,
           NEW s, NEW c, SplitOn(cond, yes, no, pcYes, pcNo, s, c)
    PROVE  EndsBlock({nblocks + 1, nblocks + 2}, CondBr(cond, nblocks + 1, nblocks + 2))
  <1> DEFINE t == nblocks + 1
             f == nblocks + 2
  <1>1. /\ f \in Blocks /\ run' = 0 /\ nblocks' = f
        /\ blocks' = [[blocks EXCEPT ![cur].term = CondBr(cond, t, f)]
                         EXCEPT ![t] = NewBlock(yes), ![f] = NewBlock(no)]
    BY DEF SplitOn
  <1>2. /\ t \in Blocks /\ t \notin Created /\ f \notin Created /\ t # f
        /\ cur # t /\ cur # f /\ cur \in Blocks
    BY <1>1, FreshBlocks, NewBlockParts
  <1>3. ~Lifting'
    BY <1>1 DEF Lifting
  <1>4. \A x : x \in Created' <=> x \in Created \/ x = t \/ x = f
    BY <1>1, FreshBlocks DEF Created
  <1>5. Created' \subseteq Blocks
    BY <1>1, <1>2, <1>4, FreshBlocks
  <1>6. t = CondBr(cond, t, f).yes /\ f = CondBr(cond, t, f).no
    BY DEF CondBr
  <1>7. /\ blocks'[t] = NewBlock(yes) /\ blocks'[f] = NewBlock(no)
        /\ blocks'[cur] = [blocks[cur] EXCEPT !.term = CondBr(cond, t, f)]
        /\ \A x \in Blocks : x # t /\ x # f /\ x # cur => blocks'[x] = blocks[x]
    BY <1>1, <1>2, BlockParts
  <1> DEFINE N == {t, f}
             e == CondBr(cond, t, f)
  <1> HIDE DEF t, f, e
  <1>8. EndsBlock(N, e)
    <2>1. \A x \in N : x \in Blocks /\ x \notin Created /\ x \in {e.yes, e.no}
      BY <1>1, <1>2, <1>6 DEF e
    <2>2. \A x \in N : blocks'[x].term = NoTerm /\ blocks'[x].dtParent = cur
      BY <1>7, NewBlockParts
    <2>3. /\ blocks'[cur].term = e
          /\ blocks'[cur].dtParent = blocks[cur].dtParent
          /\ blocks'[cur].lifted = blocks[cur].lifted
      BY <1>2, <1>7, BlockParts DEF e
    <2>4. /\ \A x \in Blocks : x \in Created' <=> x \in Created \/ x \in N
          /\ \A x \in Blocks \ N : x # cur => blocks'[x] = blocks[x]
      BY <1>4, <1>7
    <2>5. QED
      BY <1>3, <1>5, <2>1, <2>2, <2>3, <2>4 DEF EndsBlock
  <1>9. QED
    BY <1>8 DEF t, f, e

\* Whatever an instruction does to the graph: nothing, or it ends the block.
LEMMA LiftGraphCases ==
    ASSUME TypeOK, GraphInv, Lift
    PROVE  \/ UNCHANGED <<graph, blockInfo, cur>>
           \/ \E N, t : EndsBlock(N, t)
  <1>0. Lifting
    BY DEF Lift, Is, LiftCompute, LiftCompare, LiftPush, LiftPop, LiftPopfq,
           LiftSetRsp, LiftLeave, LiftJmp, LiftJmpRegister, LiftJcc, LiftCall,
           LiftCallRegister, LiftCallOutlined, LiftRetReal, LiftRetRop, LiftStop
  <1>1. CASE Abort
    BY <1>1 DEF Abort
  <1>2. CASE EndPath
    <2>1. /\ blocks' = [blocks EXCEPT ![cur].term = Ret]
          /\ run' = 0 /\ nblocks' = nblocks
      BY <1>2 DEF EndPath
    <2>2. ~Lifting' /\ Created' = Created /\ Created \subseteq Blocks
      BY <2>1, FreshBlocks DEF Lifting, Created
    <2>3. EndsBlock({}, Ret)
      BY <1>0, <2>1, <2>2, BlockParts, NewBlockParts DEF EndsBlock
    <2>4. QED
      BY <2>3
  <1>4. ASSUME NEW s \in BackupPoint, NEW c \in CpuState, Shape(s, c)
        PROVE  \/ UNCHANGED <<graph, blockInfo, cur>>
               \/ \E N, t : EndsBlock(N, t)
    <2>1. CASE Straight(s, c)
      BY <2>1 DEF Straight, control
    <2>2. CASE LeaveUnsolved(s, c)
      BY <2>2 DEF LeaveUnsolved
    <2>3. QED
      BY <1>0, <1>4, <2>1, <2>2, BranchToEnds, SplitOnEnds DEF Shape
  <1>5. QED
    BY <1>1, <1>2, <1>4, LiftCases

-----------------------------------------------------------------------------
(* The graph is kept *)

\* Ending a block keeps the graph in order: nothing leads out of a block without
\* terminator, so no edge is lost when it gets one.
LEMMA EndsBlockKeeps ==
    ASSUME TypeOK, GraphInv, QueueInv, NEW N, NEW t, EndsBlock(N, t)
    PROVE  GraphInv'
  <1>1. /\ cur \in Created /\ cur \in Blocks
        /\ blocks[cur].lifted /\ blocks[cur].term = NoTerm
    BY DEF EndsBlock, GraphInv, BuilderIsOpen, TypeOK
  <1>2. UnliftedIsOpen'
    BY <1>1 DEF EndsBlock, GraphInv, UnliftedIsOpen
  <1>3. BuilderIsOpen'
    BY DEF EndsBlock, BuilderIsOpen
  <1>4. \A x \in Blocks : blocks[x].term = NoTerm => Succs(x) = {}
    BY DEF Succs, NoTerm
  <1>5. \A x \in Blocks : x # None
    BY ConstantsAssumption DEF Blocks
  <1>6. DomTreeFollowsCfg'
    <2> SUFFICES ASSUME NEW x \in Created', x # 1
                 PROVE  LET p == blocks'[x].dtParent
                        IN x \in {blocks'[p].term.yes, blocks'[p].term.no} \ {None}
      BY DEF DomTreeFollowsCfg, Succs
    <2>1. CASE x \in N
      BY <2>1, <1>5 DEF EndsBlock
    <2>2. CASE x \notin N
      <3> DEFINE p == blocks[x].dtParent
      <3>1. x \in Created /\ x \in Blocks
        BY <2>2 DEF EndsBlock
      <3>2. x \in Succs(p) /\ p \in Blocks
        BY <3>1 DEF GraphInv, DomTreeFollowsCfg, TypeOK, BlockRecords
      <3>3. p # cur
        BY <3>2, <1>1, <1>4
      <3>4. p \notin N
        <4>1. \A y \in N : blocks[y].term = NoTerm
          BY DEF EndsBlock, GraphInv, UnliftedIsOpen, QueueInv, NothingLiftedYet
        <4>2. QED
          BY <3>2, <4>1, <1>4
      <3>5. blocks'[p] = blocks[p] /\ blocks'[x].dtParent = p
        BY <3>1, <3>2, <3>3, <3>4, <2>2 DEF EndsBlock
      <3>6. QED
        BY <3>2, <3>5 DEF Succs
    <2>3. QED
      BY <2>1, <2>2
  <1>7. QED
    BY <1>2, <1>3, <1>6 DEF GraphInv

\* Starting a block makes it the block under the builder.
LEMMA PopBlockGraph ==
    ASSUME TypeOK, GraphInv, QueueInv, PopBlock
    PROVE  GraphInv'
  <1> DEFINE n == Len(unvisited)
             b == unvisited[n].block
  <1>1. /\ ~aborted /\ ~Lifting /\ unvisited # <<>>
        /\ blockInfo' = unvisited[n]
        /\ TakeUnvisited.info = unvisited[n]
        /\ UNCHANGED <<aborted, nblocks>>
    BY DEF PopBlock, NextBlockInfo, TakeUnvisited
  <1>2. n \in DOMAIN unvisited /\ b \in Blocks
    BY <1>1, TakeFacts
  <1>3. b \in Created /\ ~blocks[b].lifted
    BY <1>2 DEF QueueInv, QueueIsCreated, EachBlockOnce
  <1>4. Created' = Created
    BY <1>1 DEF Created
  <1>5. CASE UNCHANGED <<run, finished, cur, blocks>>
    <2>1. ~Lifting'
      BY <1>1, <1>5 DEF Lifting
    <2>2. QED
      BY <1>4, <1>5, <2>1
      DEF GraphInv, UnliftedIsOpen, BuilderIsOpen, DomTreeFollowsCfg, Succs
  <1>6. CASE cur' = b /\ blocks' = [blocks EXCEPT ![b].lifted = TRUE]
    <2>1. \A x \in Blocks : /\ blocks'[x].term = blocks[x].term
                            /\ blocks'[x].dtParent = blocks[x].dtParent
                            /\ x # b => blocks'[x] = blocks[x]
                            /\ x = b => blocks'[x].lifted
      <3>1. \A x \in Blocks : x # b => blocks'[x] = blocks[x]
        BY <1>2, <1>6, BlockParts
      <3>2. blocks'[b] = [blocks[b] EXCEPT !.lifted = TRUE]
        BY <1>2, <1>6, BlockParts
      <3>3. blocks[b] \in BlockRecords
        BY <1>2 DEF TypeOK
      <3>4. /\ blocks'[b].term = blocks[b].term /\ blocks'[b].lifted
            /\ blocks'[b].dtParent = blocks[b].dtParent
        BY <3>2, <3>3 DEF BlockRecords
      <3>5. QED
        BY <3>1, <3>4
    <2>2. \A x \in Created : x \in Blocks /\ blocks[x].dtParent \in Blocks
      BY FreshBlocks DEF TypeOK, BlockRecords
    <2>3. UnliftedIsOpen'
      BY <2>1 DEF GraphInv, UnliftedIsOpen
    <2>4. BuilderIsOpen'
      BY <1>1, <1>2, <1>3, <1>4, <1>6, <2>1 DEF GraphInv, UnliftedIsOpen, BuilderIsOpen
    <2>5. DomTreeFollowsCfg'
      BY <1>4, <2>1, <2>2 DEF GraphInv, DomTreeFollowsCfg, Succs
    <2>6. QED
      BY <2>3, <2>4, <2>5 DEF GraphInv
  <1>7. QED
    BY <1>1, <1>5, <1>6 DEF PopBlock, StartBlock

\* Every step keeps the graph in order.
LEMMA GraphStep ==
    ASSUME TypeOK, QueueInv, GraphInv, [Next]_vars
    PROVE  GraphInv'
  <1>1. CASE PopBlock
    BY <1>1, PopBlockGraph
  <1>2. CASE Lift
    <2>1. Lifting
      BY <1>2 DEF Lift, Is, LiftCompute, LiftCompare, LiftPush, LiftPop, LiftPopfq,
             LiftSetRsp, LiftLeave, LiftJmp, LiftJmpRegister, LiftJcc, LiftCall,
             LiftCallRegister, LiftCallOutlined, LiftRetReal, LiftRetRop, LiftStop
    <2>2. CASE UNCHANGED <<graph, blockInfo, cur>>
      BY <2>1, <2>2 DEF graph, GraphInv, UnliftedIsOpen, BuilderIsOpen,
                        DomTreeFollowsCfg, Succs, Created
    <2>3. QED
      BY <1>2, <2>2, LiftGraphCases, EndsBlockKeeps
  <1>3. CASE UNCHANGED vars
    BY <1>3 DEF vars, GraphInv, UnliftedIsOpen, BuilderIsOpen, DomTreeFollowsCfg, Succs,
                Created, Lifting
  <1>4. QED
    BY <1>1, <1>2, <1>3 DEF Next

\* The entry block is alone and open.
LEMMA GraphAtStart == Init => GraphInv
  <1> SUFFICES ASSUME Init PROVE GraphInv
    OBVIOUS
  <1>1. ~Lifting /\ Created = {1}
    BY DEF Init, Lifting, Created
  <1>2. UnliftedIsOpen
    BY DEF Init, InitBlock, UnliftedIsOpen
  <1>3. QED
    BY <1>1, <1>2 DEF GraphInv, BuilderIsOpen, DomTreeFollowsCfg

\* In every reachable state the graph is in order.
LEMMA GraphIsInOrder == Spec => []GraphInv
  BY GraphAtStart, GraphStep, WorklistIsInOrder, TypeCorrect, PTL DEF Spec

\* The edge getOrCreateBB gives to the dominator tree is an edge of the graph of
\* blocks, for every program: known bits and assumptions are looked up along it.
THEOREM DomTreeIsTheCfg == Spec => []DomTreeFollowsCfg
  <1>1. GraphInv => DomTreeFollowsCfg
    BY DEF GraphInv
  <1>2. QED
    BY <1>1, GraphIsInOrder, PTL

\* No instruction gives a second terminator to a block, and no block is entered
\* again once it has one (solvePath, lift_ret, and the worklist between them).
THEOREM TerminatorsAreFinal == Spec => TerminatedOnce
  <1> DEFINE Kept == \A b \in Blocks : blocks[b].term # NoTerm
                                          => blocks'[b].term = blocks[b].term
  <1>1. TypeOK /\ QueueInv /\ GraphInv /\ [Next]_vars => [Kept]_vars
    <2> SUFFICES ASSUME TypeOK, QueueInv, GraphInv, Next
                 PROVE  Kept
      OBVIOUS
    <2>1. CASE PopBlock
      <3>1. CASE UNCHANGED blocks
        BY <3>1
      <3>2. ASSUME NEW b, blocks' = [blocks EXCEPT ![b].lifted = TRUE]
            PROVE  Kept
        BY <3>2 DEF TypeOK, BlockRecords
      <3>3. QED
        BY <2>1, <3>1, <3>2 DEF PopBlock, StartBlock
    <2>2. CASE Lift
      <3>1. CASE UNCHANGED blocks
        BY <3>1
      <3>2. ASSUME NEW N, NEW t, EndsBlock(N, t)
            PROVE  Kept
        BY <3>2 DEF EndsBlock, GraphInv, UnliftedIsOpen, BuilderIsOpen, QueueInv,
                    NothingLiftedYet
      <3>3. QED
        BY <2>2, <3>1, <3>2, LiftGraphCases DEF graph
    <2>3. QED
      BY <2>1, <2>2 DEF Next
  <1>2. QED
    BY <1>1, GraphIsInOrder, WorklistIsInOrder, TypeCorrect, PTL DEF Spec, TerminatedOnce

-----------------------------------------------------------------------------
(* No block is forgotten *)

\* The filter of the worklist loop is off for the entry block only: it would drop
\* that block, which already holds code.
FilterInv ==
    /\ filter => blocks[1].lifted
    /\ ~filter => Created = {1} /\ ~Lifting

Queued(x) == \E i \in DOMAIN unvisited : unvisited[i].block = x

\* Each jump has a possible target.
NothingUnsolved == "jmp_wide" \notin Instrs

\* A target that is not opaque with three or with no values has one.
LEMMA SomeValue ==
    ASSUME NothingUnsolved
    PROVE  /\ \A S \in TargetSets : PossibleValues(Opaque(S)) # {}
           /\ \A c, x, y : PossibleValues(Select(c, x, y)) # {}
  BY DEF NothingUnsolved, TargetSets, PossibleValues, Opaque, Select

\* solvePath on a target that has a value does not end the block without saying so.
LEMMA SolvePathEnds ==
    ASSUME TypeOK, NEW v, NEW w, NEW s, NEW c, SolvePath(v, w, s, c),
           v.kind = "const" \/ PossibleValues(v) # {}
    PROVE  nblocks' # nblocks \/ aborted'
  <1>1. nblocks \in Nat
    BY FreshBlocks
  <1>2. \A a, pc : BranchTo(a, pc, s, c) => nblocks' # nblocks
    BY <1>1 DEF BranchTo
  <1>3. \A cond, a1, a2, a3, a4 : SplitOn(cond, a1, a2, a3, a4, s, c) => nblocks' # nblocks
    BY <1>1 DEF SplitOn
  <1>4. \A a1, a2 : SplitTwo(v, a1, a2, s, c) => nblocks' # nblocks
    BY <1>3 DEF SplitTwo
  <1>5. Abort => aborted'
    BY DEF Abort
  <1>6. QED
    BY <1>2, <1>4, <1>5 DEF SolvePath

\* An instruction goes on, ends the path, stops the lifter, or creates blocks.
LEMMA RunEnds ==
    ASSUME TypeOK, Lift, NothingUnsolved
    PROVE  run' = run \/ nblocks' # nblocks \/ finished' # finished \/ aborted'
  <1>1. nblocks \in Nat
    BY FreshBlocks
  <1>2. Is("ret") \/ Is("stop") => finished = 0
    BY DEF Is, Lifting
  <1>3. \A s, c : Straight(s, c) => run' = run
    BY DEF Straight, control
  <1>4. \A a, pc, s, c : BranchTo(a, pc, s, c) => nblocks' # nblocks
    BY <1>1 DEF BranchTo
  <1>5. \A a : Const(a).kind = "const"
    BY DEF Const
  <1>6. CASE LiftJmp
    BY <1>5, <1>6, SolvePathEnds DEF LiftJmp
  <1>7. CASE LiftJmpRegister
    BY <1>7, SomeValue, SolvePathEnds DEF LiftJmpRegister
  <1>8. CASE LiftJcc
    <2>1. \A f, yes, no : \/ SelectFolder(f, yes, no).kind = "const"
                         \/ PossibleValues(SelectFolder(f, yes, no)) # {}
      BY <1>5, SomeValue DEF SelectFolder
    <2>2. QED
      BY <1>8, <2>1, SolvePathEnds DEF LiftJcc
  <1>9. CASE LiftRetRop
    BY <1>5, <1>9, SomeValue, SolvePathEnds DEF LiftRetRop
  <1>10. CASE LiftRetReal \/ LiftStop
    BY <1>2, <1>10 DEF LiftRetReal, LiftStop, EndPath
  <1>12. CASE LiftCall \/ LiftCallRegister \/ LiftCallOutlined
    BY <1>4, <1>12 DEF LiftCall, LiftCallRegister, LiftCallOutlined
  <1>13. CASE \/ LiftCompute \/ LiftCompare \/ LiftPush \/ LiftPop \/ LiftPopfq
              \/ LiftSetRsp \/ LiftLeave
    BY <1>3, <1>13 DEF LiftCompute, LiftCompare, LiftPush, LiftPop, LiftPopfq, LiftSetRsp,
                       LiftLeave
  <1>14. QED
    BY <1>6, <1>7, <1>8, <1>9, <1>10, <1>12, <1>13 DEF Lift

\* What is queued stays queued while the worklist only grows.
LEMMA GrowingQueue ==
    ASSUME TypeOK, NEW e1 \in BBInfos, NEW e2 \in BBInfos
    PROVE  /\ unvisited' = Append(unvisited, e1)
                 => /\ \A x : Queued(x) => Queued(x)'
                    /\ Queued(e1.block)'
           /\ unvisited' = Append(Append(unvisited, e2), e1)
                 => /\ \A x : Queued(x) => Queued(x)'
                    /\ Queued(e1.block)' /\ Queued(e2.block)'
  <1>1. unvisited \in Seq(BBInfos)
    BY QueuedBlocks
  <1>2. CASE unvisited' = Append(unvisited, e1)
    <2>1. /\ Len(unvisited) \in Nat
          /\ DOMAIN unvisited = 1 .. Len(unvisited)
          /\ DOMAIN unvisited' = 1 .. Len(unvisited) + 1
          /\ \A i \in 1 .. Len(unvisited) : unvisited'[i] = unvisited[i]
          /\ unvisited'[Len(unvisited) + 1] = e1
      BY <1>1, <1>2, AppendFacts
    <2>2. /\ Len(unvisited) + 1 \in DOMAIN unvisited'
          /\ \A i \in DOMAIN unvisited : i \in DOMAIN unvisited'
      BY <2>1
    <2>3. (\A x : Queued(x) => Queued(x)') /\ Queued(e1.block)'
      BY <2>1, <2>2 DEF Queued
    <2>4. ~(unvisited' = Append(Append(unvisited, e2), e1))
      BY <1>1, <2>1, AppendTwoFacts
    <2>5. QED
      BY <2>3, <2>4
  <1>3. CASE unvisited' = Append(Append(unvisited, e2), e1)
    <2>1. /\ Len(unvisited) \in Nat
          /\ DOMAIN unvisited = 1 .. Len(unvisited)
          /\ DOMAIN unvisited' = 1 .. Len(unvisited) + 2
          /\ \A i \in 1 .. Len(unvisited) : unvisited'[i] = unvisited[i]
          /\ unvisited'[Len(unvisited) + 1] = e2
          /\ unvisited'[Len(unvisited) + 2] = e1
      BY <1>1, <1>3, AppendTwoFacts
    <2>2. /\ Len(unvisited) + 1 \in DOMAIN unvisited'
          /\ Len(unvisited) + 2 \in DOMAIN unvisited'
          /\ \A i \in DOMAIN unvisited : i \in DOMAIN unvisited'
      BY <2>1
    <2>3. /\ \A x : Queued(x) => Queued(x)'
          /\ Queued(e1.block)' /\ Queued(e2.block)'
      BY <2>1, <2>2 DEF Queued
    <2>4. ~(unvisited' = Append(unvisited, e1))
      BY <1>1, <2>1, AppendFacts
    <2>5. QED
      BY <2>3, <2>4
  <1>4. QED
    BY <1>2, <1>3

\* A step that ends the current block and queues what it creates forgets nothing.
LEMMA EndedAndQueued ==
    ASSUME TypeOK, EveryBlockIsLifted, NEW N, NEW t, EndsBlock(N, t), ~aborted,
           t.kind # "none",
           \A x : Queued(x) => Queued(x)',
           \A x \in N : Queued(x)'
    PROVE  EveryBlockIsLifted'
  <1> SUFFICES ASSUME NEW x \in Created', x \notin N, x # cur
               PROVE  blocks'[x].term.kind # "none" \/ Queued(x)'
    BY DEF EveryBlockIsLifted, EndsBlock, Queued
  <1>1. x \in Created /\ x \in Blocks /\ blocks'[x] = blocks[x]
    BY DEF EndsBlock
  <1>2. blocks[x].term.kind # "none" \/ Queued(x)
    BY <1>1 DEF EveryBlockIsLifted, Queued
  <1>3. QED
    BY <1>1, <1>2

\* Lifting an instruction forgets no block, when each jump has a possible target.
LEMMA LiftForgetsNone ==
    ASSUME TypeOK, GraphInv, EveryBlockIsLifted, Lift, NothingUnsolved
    PROVE  EveryBlockIsLifted'
  <1>1. Lifting /\ ~aborted /\ run = 1
    BY DEF Lift, Is, LiftCompute, LiftCompare, LiftPush, LiftPop, LiftPopfq,
           LiftSetRsp, LiftLeave, LiftJmp, LiftJmpRegister, LiftJcc, LiftCall, Lifting,
           LiftCallRegister, LiftCallOutlined, LiftRetReal, LiftRetRop, LiftStop
  <1>2. CASE Abort
    BY <1>2 DEF Abort, EveryBlockIsLifted
  <1>3. CASE EndPath
    <2>1. EndsBlock({}, Ret)
      <3>1. /\ blocks' = [blocks EXCEPT ![cur].term = Ret]
            /\ run' = 0 /\ nblocks' = nblocks
        BY <1>3 DEF EndPath
      <3>2. ~Lifting' /\ Created' = Created /\ Created \subseteq Blocks
        BY <3>1, FreshBlocks DEF Lifting, Created
      <3>3. QED
        BY <1>1, <3>1, <3>2, BlockParts, NewBlockParts DEF EndsBlock
    <2>2. unvisited' = unvisited /\ Ret.kind = "ret"
      BY <1>3 DEF EndPath, Ret, NoTerm
    <2>3. \A x : Queued(x) => Queued(x)'
      BY <2>2 DEF Queued
    <2>4. QED
      BY <1>1, <2>1, <2>2, <2>3, EndedAndQueued
  <1>5. ASSUME NEW s \in BackupPoint, NEW c \in CpuState, Shape(s, c)
        PROVE  EveryBlockIsLifted'
    <2>1. CASE Straight(s, c)
      BY <2>1 DEF Straight, control, graph, EveryBlockIsLifted, Lifting, Created
    <2>2. CASE LeaveUnsolved(s, c)
      BY <1>1, <2>2, RunEnds DEF LeaveUnsolved, graph
    <2>3. ASSUME NEW a \in Addrs, NEW pc, BranchTo(a, pc, s, c)
          PROVE  EveryBlockIsLifted'
      <3> DEFINE b == nblocks + 1
                 e == [addr |-> a, block |-> b]
      <3>1. EndsBlock({b}, Br(b)) /\ Br(b).kind = "br"
        BY <1>1, <2>3, BranchToEnds DEF Br, NoTerm
      <3>2. unvisited' = Append(unvisited, e) /\ e \in BBInfos
        BY <2>3 DEF BranchTo, BBInfos
      <3>3. (\A x : Queued(x) => Queued(x)') /\ \A x \in {b} : Queued(x)'
        BY <3>2, GrowingQueue
      <3>4. QED
        BY <1>1, <3>1, <3>3, EndedAndQueued
    <2>4. ASSUME NEW cond, NEW yes \in Addrs, NEW no \in Addrs, NEW p, NEW q,
                 SplitOn(cond, yes, no, p, q, s, c)
          PROVE  EveryBlockIsLifted'
      <3> DEFINE x1 == nblocks + 1
                 x2 == nblocks + 2
                 e1 == [addr |-> yes, block |-> x1]
                 e2 == [addr |-> no, block |-> x2]
      <3>1. EndsBlock({x1, x2}, CondBr(cond, x1, x2)) /\ CondBr(cond, x1, x2).kind = "condbr"
        BY <1>1, <2>4, SplitOnEnds DEF CondBr
      <3>2. x2 \in Blocks /\ unvisited' = Append(Append(unvisited, e2), e1)
        BY <2>4 DEF SplitOn
      <3>3. e1 \in BBInfos /\ e2 \in BBInfos
        BY <3>2, FreshBlocks DEF BBInfos
      <3>4. (\A x : Queued(x) => Queued(x)') /\ \A x \in {x1, x2} : Queued(x)'
        BY <3>2, <3>3, GrowingQueue
      <3>5. QED
        BY <1>1, <3>1, <3>4, EndedAndQueued
    <2>5. QED
      BY <1>5, <2>1, <2>2, <2>3, <2>4 DEF Shape
  <1>6. QED
    BY <1>2, <1>3, <1>5, LiftCases

\* The block taken from the worklist is the one that is lifted next: the filter
\* passes it, as it is off as long as the entry block is queued.
LEMMA PopBlockForgetsNone ==
    ASSUME TypeOK, QueueInv, FilterInv, EveryBlockIsLifted, PopBlock
    PROVE  EveryBlockIsLifted' /\ FilterInv'
  <1> DEFINE n == Len(unvisited)
             b == unvisited[n].block
  <1>1. /\ ~aborted /\ ~Lifting /\ unvisited # <<>>
        /\ unvisited' = TakeUnvisited.rest
        /\ TakeUnvisited.info = unvisited[n]
        /\ UNCHANGED <<aborted, nblocks>>
    BY DEF PopBlock, TakeUnvisited
  <1>2. /\ n \in DOMAIN unvisited /\ DOMAIN unvisited = 1 .. n /\ n \in Nat
        /\ DOMAIN unvisited' = 1 .. n - 1
        /\ \A i \in 1 .. n - 1 : unvisited'[i] = unvisited[i]
        /\ b \in Blocks
    BY <1>1, TakeFacts
  <1>3. b \in Created /\ ~blocks[b].lifted
    BY <1>2 DEF QueueInv, QueueIsCreated, EachBlockOnce
  <1>4. ~(NonEmpty(b) /\ filter)
    BY <1>3 DEF NonEmpty, FilterInv
  <1>5. StartBlock(b)
    BY <1>1, <1>4 DEF PopBlock
  <1>6. /\ cur' = b /\ run' = 1 /\ finished' = 0 /\ filter' = TRUE
        /\ blocks' = [blocks EXCEPT ![b].lifted = TRUE]
    BY <1>5 DEF StartBlock, FinishedAtStart
  <1>7. Lifting' /\ Created' = Created /\ Created \subseteq Blocks
    BY <1>1, <1>6, FreshBlocks DEF Lifting, Created
  <1>8. /\ \A x \in Blocks : x # b => blocks'[x] = blocks[x]
        /\ blocks'[b].lifted
    <2>1. blocks'[b] = [blocks[b] EXCEPT !.lifted = TRUE] /\ blocks[b] \in BlockRecords
      BY <1>2, <1>6 DEF TypeOK
    <2>2. QED
      BY <1>2, <1>6, <2>1, BlockParts DEF BlockRecords
  <1>9. FilterInv'
    <2>1. CASE filter
      BY <2>1, <1>3, <1>6, <1>7, <1>8 DEF FilterInv, Created
    <2>2. CASE ~filter
      BY <2>2, <1>3, <1>6, <1>8 DEF FilterInv
    <2>3. QED
      BY <2>1, <2>2
  <1>10. EveryBlockIsLifted'
    <2> SUFFICES ASSUME NEW x \in Created, x # b
                 PROVE  blocks'[x].term.kind # "none" \/ Queued(x)'
      BY <1>6, <1>7 DEF EveryBlockIsLifted, Queued
    <2>1. blocks[x].term.kind # "none" \/ Queued(x)
      BY <1>1 DEF EveryBlockIsLifted, Queued
    <2>2. Queued(x) => Queued(x)'
      <3> SUFFICES ASSUME NEW i \in DOMAIN unvisited, unvisited[i].block = x
                   PROVE  Queued(x)'
        BY DEF Queued
      <3>1. i # n /\ i \in 1 .. n
        BY <1>2
      <3>2. i \in DOMAIN unvisited' /\ unvisited'[i] = unvisited[i]
        BY <3>1, <1>2
      <3>3. QED
        BY <3>2 DEF Queued
    <2>3. QED
      BY <1>7, <1>8, <2>1, <2>2
  <1>11. QED
    BY <1>9, <1>10

\* The filter stays on, and lifting keeps the entry block lifted.
LEMMA LiftKeepsFilter ==
    ASSUME TypeOK, QueueInv, GraphInv, FilterInv, Lift
    PROVE  FilterInv'
  <1>1. Lifting /\ filter
    BY DEF FilterInv, Lift, Is, LiftCompute, LiftCompare, LiftPush, LiftPop, LiftPopfq,
           LiftSetRsp, LiftLeave, LiftJmp, LiftJmpRegister, LiftJcc, LiftCall,
           LiftCallRegister, LiftCallOutlined, LiftRetReal, LiftRetRop, LiftStop
  <1>2. filter' = filter
    <2>1. ASSUME NEW s, NEW c, Shape(s, c)
          PROVE  filter' = filter
      <3>1. Straight(s, c) \/ LeaveUnsolved(s, c) => filter' = filter
        BY DEF Straight, control, LeaveUnsolved
      <3>2. \A a, pc : BranchTo(a, pc, s, c) => filter' = filter
        BY DEF BranchTo
      <3>3. \A d, a1, a2, a3, a4 : SplitOn(d, a1, a2, a3, a4, s, c) => filter' = filter
        BY DEF SplitOn
      <3>4. QED
        BY <2>1, <3>1, <3>2, <3>3 DEF Shape
    <2>2. QED
      BY <2>1, LiftCases DEF Abort, EndPath
  <1>3. blocks[1].lifted /\ 1 \in Blocks
    BY <1>1, ConstantsAssumption DEF FilterInv, Blocks
  <1>4. 1 \in Created
    BY <1>3 DEF QueueInv, NothingLiftedYet
  <1>5. blocks'[1].lifted
    <2>1. CASE UNCHANGED graph
      BY <1>3, <2>1 DEF graph
    <2>2. ASSUME NEW N, NEW t, EndsBlock(N, t)
          PROVE  blocks'[1].lifted
      BY <1>3, <1>4, <2>2 DEF EndsBlock
    <2>3. QED
      BY <2>1, <2>2, LiftGraphCases
  <1>6. QED
    BY <1>1, <1>2, <1>5 DEF FilterInv

\* No path is lost: when the worklist runs empty, every block that was created has
\* its terminator.  Left out is the one kind of instruction that breaks this, a jump
\* with no possible target.
THEOREM NoBlockIsForgotten ==
    ASSUME NothingUnsolved
    PROVE  Spec => []EveryBlockIsLifted
  <1> DEFINE Inv == EveryBlockIsLifted /\ FilterInv
  <1>1. Init => Inv
    <2> SUFFICES ASSUME Init PROVE Inv
      OBVIOUS
    <2>1. Created = {1} /\ ~Lifting /\ filter = FALSE
      BY DEF Init, Created, Lifting
    <2>2. 1 \in DOMAIN unvisited /\ unvisited[1].block = 1
      BY DEF Init
    <2>3. QED
      BY <2>1, <2>2 DEF EveryBlockIsLifted, FilterInv
  <1>2. TypeOK /\ QueueInv /\ GraphInv /\ Inv /\ [Next]_vars => Inv'
    <2> SUFFICES ASSUME TypeOK, QueueInv, GraphInv, Inv, [Next]_vars PROVE Inv'
      OBVIOUS
    <2>1. CASE PopBlock
      BY <2>1, PopBlockForgetsNone
    <2>2. CASE Lift
      BY <2>2, LiftForgetsNone, LiftKeepsFilter
    <2>3. CASE UNCHANGED vars
      BY <2>3 DEF vars, EveryBlockIsLifted, FilterInv, Lifting, Created
    <2>4. QED
      BY <2>1, <2>2, <2>3 DEF Next
  <1>3. Inv => EveryBlockIsLifted
    OBVIOUS
  <1>4. QED
    BY <1>1, <1>2, <1>3, GraphIsInOrder, WorklistIsInOrder, TypeCorrect, PTL DEF Spec

-----------------------------------------------------------------------------
(* Where solvePath goes *)

\* A step that creates no block, or each block where the processor goes, unless the
\* path has read a stack word it did not store.
GoesRight(s, c) ==
    \/ UNCHANGED <<graph, entry>>
    \/ /\ c \in CpuState
       /\ \/ \E a, pc : (c.astray \/ pc = a) /\ BranchTo(a, pc, s, c)
          \/ \E cond, yes, no : SplitOn(cond, yes, no, yes, no, s, c)

\* v is what folding made of w: the lifter and the processor choose alike.
SameTarget(v, w) ==
    /\ \A a : v.kind = "const" /\ a = v.yes => CpuTarget(w, a) = a
    /\ \A a : v.kind # "const" /\ PossibleValues(v) = {a} => CpuTarget(w, a) = a
    /\ v.kind = "select" => PossibleValues(v) \subseteq {v.yes, v.no}

\* solvePath never crosses the two sides of a branch.
LEMMA SolvePathGoesRight ==
    ASSUME NEW v, NEW w, NEW s, NEW c \in CpuState, SolvePath(v, w, s, c), SameTarget(v, w),
           v.kind = "const" => v.yes \in Addrs
    PROVE  GoesRight(s, c)
  <1>1. CASE v.kind = "const"
    <2>1. BranchTo(v.yes, v.yes, s, c)
      BY <1>1 DEF SolvePath, SameTarget
    <2>2. QED
      BY <1>1, <2>1 DEF GoesRight
  <1>2. CASE v.kind # "const"
    <2> DEFINE pv == PossibleValues(v)
    <2>1. CASE LeaveUnsolved(s, c)
      BY <2>1 DEF LeaveUnsolved, GoesRight
    <2>2. CASE Abort
      BY <2>2 DEF Abort, GoesRight
    <2>3. ASSUME NEW a \in Addrs, pv = {a}, BranchTo(a, CpuTarget(w, a), s, c)
          PROVE  GoesRight(s, c)
      <3>1. CpuTarget(w, a) = a
        BY <1>2, <2>3 DEF SameTarget
      <3>2. QED
        BY <2>3, <3>1 DEF GoesRight
    <2>4. ASSUME NEW first \in Addrs, NEW second \in Addrs, first # second,
                 pv = {first, second}, SplitTwo(v, first, second, s, c)
          PROVE  GoesRight(s, c)
      <3>1. CASE v.kind = "opaque"
        BY <2>4, <3>1 DEF SplitTwo, GoesRight
      <3>2. CASE v.kind = "select"
        <4>1. {first, second} \subseteq {v.yes, v.no}
          BY <2>4, <3>2 DEF SameTarget
        <4>2. CASE v.yes = first
          <5>1. v.no = second
            BY <4>1, <4>2, <2>4
          <5>2. SplitOn(v.cond, first, second, first, second, s, c)
            BY <2>4, <3>2, <4>2, <5>1 DEF SplitTwo
          <5>3. QED
            BY <5>2 DEF GoesRight
        <4>3. CASE v.yes = second
          <5>1. v.no = first
            BY <4>1, <4>3, <2>4
          <5>2. SplitOn(v.cond, second, first, second, first, s, c)
            BY <2>4, <3>2, <4>3, <5>1 DEF SplitTwo
          <5>3. QED
            BY <5>2 DEF GoesRight
        <4>4. QED
          BY <2>4, <3>2, <4>2, <4>3 DEF SplitTwo
      <3>3. QED
        BY <2>4, <3>1, <3>2 DEF SplitTwo
    <2>5. \A a, b \in Addrs : a < b => a # b
      BY ConstantsAssumption
    <2>6. QED
      BY <1>2, <2>1, <2>2, <2>3, <2>4, <2>5 DEF SolvePath
  <1>3. QED
    BY <1>1, <1>2

\* Constants and opaque values are not folded at all.
LEMMA UnfoldedTarget ==
    /\ \A a : SameTarget(Const(a), Const(a)) /\ Const(a).kind = "const" /\ Const(a).yes = a
    /\ \A S : SameTarget(Opaque(S), Opaque(S)) /\ Opaque(S).kind = "opaque"
  BY DEF SameTarget, Const, Opaque, CpuTarget

\* A select on the same condition, assumed alike on both sides.
LEMMA SelectTarget ==
    ASSUME Agrees(live, cpu), NEW f \in Flags, NEW yes, NEW no, yes # no
    PROVE  SameTarget(Select(f, yes, no), Select(f, yes, no))
  <1>1. live.assumptions = cpu.taken
    BY DEF Agrees
  <1>2. PossibleValues(Select(f, yes, no)) \subseteq {yes, no}
    BY DEF PossibleValues, Select
  <1>3. ASSUME NEW a, PossibleValues(Select(f, yes, no)) = {a}
        PROVE  CpuTarget(Select(f, yes, no), a) = a
    <2>1. CASE KnownBit(f, live.assumptions) = 1
      BY <1>1, <1>3, <2>1 DEF PossibleValues, Select, CpuTarget
    <2>2. CASE KnownBit(f, live.assumptions) = 0
      BY <1>1, <1>3, <2>2 DEF PossibleValues, Select, CpuTarget
    <2>3. CASE KnownBit(f, live.assumptions) # 1 /\ KnownBit(f, live.assumptions) # 0
      <3>1. {yes, no} = {a}
        BY <1>3, <2>3 DEF PossibleValues, Select
      <3>2. QED
        BY <3>1
    <2>4. QED
      BY <2>1, <2>2, <2>3
  <1>4. Select(f, yes, no).kind = "select" /\ Select(f, yes, no).yes = yes
        /\ Select(f, yes, no).no = no
    BY DEF Select
  <1>5. QED
    BY <1>2, <1>3, <1>4 DEF SameTarget

\* createSelectFolder folds a jcc to the side the processor takes.
LEMMA FoldedTarget ==
    ASSUME Agrees(live, cpu), NEW f \in Flags, NEW yes, NEW no
    PROVE  SameTarget(SelectFolder(f, yes, no),
                      IF yes = no THEN Const(yes) ELSE Select(f, yes, no))
  <1>1. live.assumptions = cpu.taken
    BY DEF Agrees
  <1>2. CASE yes = no
    BY <1>2, UnfoldedTarget DEF SelectFolder
  <1>3. CASE yes # no /\ KnownBit(f, live.assumptions) = 1
    BY <1>1, <1>3 DEF SelectFolder, SameTarget, Const, Select, CpuTarget
  <1>4. CASE yes # no /\ KnownBit(f, live.assumptions) = 0
    BY <1>1, <1>4 DEF SelectFolder, SameTarget, Const, Select, CpuTarget
  <1>5. CASE yes # no /\ KnownBit(f, live.assumptions) # 1 /\ KnownBit(f, live.assumptions) # 0
    BY <1>5, SelectTarget DEF SelectFolder
  <1>6. QED
    BY <1>2, <1>3, <1>4, <1>5

-----------------------------------------------------------------------------
(* One instruction *)

\* Only instructions whose target the lifter knows how to find: lift_call adds RIP to
\* the target of a call through a register, and a call that is not followed leaves
\* RSP one slot low.
CallsAreFollowed == Instrs \cap {"call_register", "call_outlined"} = {}

\* Every instruction that creates blocks creates them where the processor goes: where
\* the lifter and the processor agree, a return reads the word that was stored.
LEMMA LiftGoesRight ==
    ASSUME TypeOK, Agrees(live, cpu), Lift, CallsAreFollowed
    PROVE  EndPath \/ \E s, c : GoesRight(s, c)
  <1> USE DEF Is
  <1>1. /\ live.vec.rsp = cpu.rsp /\ live.buffer = cpu.stack /\ live.vecflag = cpu.flag
    BY DEF Agrees
  <1>2. live.vecflag \in Flags /\ Conds \subseteq Flags
    BY DEF TypeOK, BackupPoint, Flags
  <1>3. /\ StackWord(cpu.rsp) # None => ReturnTarget = StackWord(cpu.rsp)
        /\ StackWord(cpu.rsp) = None => ReturnTarget # Unknown
    BY <1>1, ConstantsAssumption, FileWordAssumption
    DEF ReturnTarget, Load, StackWord, TypeOK, CpuState, Rsps
  <1>4. ReturnTarget # Unknown => ReturnTarget \in Addrs
    BY LoadType DEF Values
  <1>a. cpu \in CpuState
    BY DEF TypeOK
  <1>5. CASE LiftJmp
    <2>1. PICK a \in Addrs : SolvePath(Const(a), Const(a), live, cpu)
      BY <1>5 DEF LiftJmp
    <2>2. QED
      BY <1>a, <2>1, UnfoldedTarget, SolvePathGoesRight
  <1>6. CASE LiftJmpRegister
    <2>1. ASSUME NEW yes \in Addrs, NEW no \in Addrs, yes # no, live.vecflag \in Conds,
                 SolvePath(Select(live.vecflag, yes, no), Select(cpu.flag, yes, no), live, cpu)
          PROVE  GoesRight(live, cpu)
      <3>1. SameTarget(Select(live.vecflag, yes, no), Select(cpu.flag, yes, no))
        BY <1>1, <1>2, <2>1, SelectTarget
      <3>2. Select(live.vecflag, yes, no).kind = "select"
        BY DEF Select
      <3>3. QED
        BY <1>a, <2>1, <3>1, <3>2, SolvePathGoesRight
    <2>2. ASSUME NEW S \in TargetSets, SolvePath(Opaque(S), Opaque(S), live, cpu)
          PROVE  GoesRight(live, cpu)
      BY <1>a, <2>2, UnfoldedTarget, SolvePathGoesRight
    <2>3. QED
      BY <1>6, <2>1, <2>2 DEF LiftJmpRegister
  <1>7. CASE LiftJcc
    <2>1. PICK yes \in Addrs, no \in Addrs :
             SolvePath(SelectFolder(live.vecflag, yes, no),
                       IF yes = no THEN Const(yes) ELSE Select(cpu.flag, yes, no), live, cpu)
      BY <1>7 DEF LiftJcc
    <2>2. SameTarget(SelectFolder(live.vecflag, yes, no),
                     IF yes = no THEN Const(yes) ELSE Select(cpu.flag, yes, no))
      BY <1>1, <1>2, FoldedTarget
    <2>3. /\ SelectFolder(live.vecflag, yes, no).kind = "const"
              => SelectFolder(live.vecflag, yes, no).yes \in Addrs
      BY <2>1 DEF SelectFolder, Const, Select
    <2>4. QED
      BY <1>a, <2>1, <2>2, <2>3, SolvePathGoesRight
  <1>8. CASE LiftRetRop
    <2>1. PICK n \in {1, 2} :
             /\ CanPop(n)
             /\ \/ \E S \in TargetSets : SolvePath(Opaque(S), Opaque(S), PopLive(n), PopCpu(n))
                \/ /\ ReturnTarget \in Addrs
                   /\ \/ SolvePath(Const(ReturnTarget), Const(ReturnTarget),
                                   PopLive(n), PopCpu(n))
                      \/ /\ StackWord(cpu.rsp) = None
                         /\ SolvePath(Const(ReturnTarget), Const(Unknown),
                                      PopLive(n), PopCpu(n))
      <3>1. PICK imm \in {0, 1} :
               /\ CanPop(1 + imm)
               /\ IF ReturnTarget = Unknown
                  THEN \E S \in TargetSets :
                          SolvePath(Opaque(S),
                                    IF StackWord(cpu.rsp) \in Addrs THEN Const(StackWord(cpu.rsp))
                                    ELSE Opaque(S),
                                    PopLive(1 + imm), PopCpu(1 + imm))
                  ELSE SolvePath(Const(ReturnTarget),
                                 Const(IF StackWord(cpu.rsp) = None THEN Unknown
                                       ELSE StackWord(cpu.rsp)),
                                 PopLive(1 + imm), PopCpu(1 + imm))
        BY <1>8 DEF LiftRetRop
      <3>2. Unknown \notin Addrs
        BY ConstantsAssumption
      <3>a. 1 + imm \in {1, 2}
        OBVIOUS
      <3>3. CASE StackWord(cpu.rsp) = None
        BY <1>3, <1>4, <3>1, <3>2, <3>a, <3>3
      <3>4. CASE StackWord(cpu.rsp) # None
        BY <1>3, <1>4, <3>1, <3>2, <3>a, <3>4
      <3>5. QED
        BY <3>3, <3>4
    <2>2. PopCpu(n) \in CpuState
      BY <2>1, PushPopTypes
    <2>3. CASE StackWord(cpu.rsp) = None /\ ReturnTarget \in Addrs
               /\ SolvePath(Const(ReturnTarget), Const(Unknown), PopLive(n), PopCpu(n))
      <3>1. PopCpu(n).astray
        BY <1>a, <2>3 DEF PopCpu, Strays, CpuState
      <3>2. BranchTo(ReturnTarget, Unknown, PopLive(n), PopCpu(n))
        BY <2>3 DEF SolvePath, Const, CpuTarget
      <3>3. QED
        BY <2>2, <2>3, <3>1, <3>2 DEF GoesRight
    <2>4. QED
      BY <2>1, <2>2, <2>3, UnfoldedTarget, SolvePathGoesRight
  <1>10. CASE LiftCall
    BY <1>10, PushPopTypes DEF LiftCall, GoesRight, Values
  <1>11. CASE LiftCallRegister \/ LiftCallOutlined
    BY <1>11 DEF LiftCallRegister, LiftCallOutlined, CallsAreFollowed
  <1>12. CASE LiftRetReal \/ LiftStop
    BY <1>12 DEF LiftRetReal, LiftStop
  <1>13. \A s, c : Straight(s, c) => GoesRight(s, c)
    BY DEF Straight, GoesRight
  <1>14. CASE \/ LiftCompute \/ LiftCompare \/ LiftPush \/ LiftPop \/ LiftPopfq
              \/ LiftSetRsp \/ LiftLeave
    BY <1>13, <1>14 DEF LiftCompute, LiftCompare, LiftPush, LiftPop, LiftPopfq, LiftSetRsp,
                        LiftLeave
  <1>15. QED
    BY <1>5, <1>6, <1>7, <1>8, <1>10, <1>11, <1>12, <1>14 DEF Lift

-----------------------------------------------------------------------------
(* Every block *)

\* The parts of the records the code and the processor make.
LEMMA RecordParts ==
    ASSUME TypeOK
    PROVE  /\ \A t : \A x \in Blocks : [blocks[x] EXCEPT !.term = t].addr = blocks[x].addr
           /\ \A a : NewBlock(a).addr = a
           /\ \A x, a : \A c \in CpuState : /\ Enter(c, x, a).pc = a
                                            /\ Enter(c, x, a).astray = c.astray
           /\ DOMAIN blocks = Blocks /\ DOMAIN entry = Blocks /\ cur \in Blocks
  BY DEF TypeOK, BlockRecords, NewBlock, Enter, CpuState

\* One new block.
LEMMA OneBlockRight ==
    ASSUME TypeOK, BlocksAreWhereTheCpuGoes, NEW a, NEW pc, NEW c \in CpuState,
           c.astray \/ pc = a,
           nblocks + 1 \in Blocks, nblocks' = nblocks + 1,
           blocks' = [[blocks EXCEPT ![cur].term = Br(nblocks + 1)]
                         EXCEPT ![nblocks + 1] = NewBlock(a)],
           entry' = [entry EXCEPT ![nblocks + 1] = Enter(c, nblocks + 1, pc)]
    PROVE  BlocksAreWhereTheCpuGoes'
  <1> DEFINE b == nblocks + 1
  <1>1. \A x \in Created' : x \in Created \/ x \in {b}
    BY FreshBlocks DEF Created
  <1>2. ASSUME NEW x \in Created, x # b
        PROVE  blocks'[x].addr = blocks[x].addr /\ entry'[x] = entry[x]
    <2>1. x \in Blocks
      BY <1>2, FreshBlocks
    <2>2. entry'[x] = entry[x]
      BY <1>2, <2>1, RecordParts
    <2>3. blocks'[x] = blocks[x] \/ blocks'[x] = [blocks[x] EXCEPT !.term = Br(b)]
      BY <1>2, <2>1, RecordParts
    <2>4. blocks[x] \in BlockRecords
      BY <2>1 DEF TypeOK
    <2>5. QED
      BY <2>2, <2>3, <2>4 DEF BlockRecords
  <1>3. blocks'[b].addr = a /\ entry'[b].pc = pc /\ entry'[b].astray = c.astray
    BY RecordParts
  <1> HIDE DEF b
  <1>4. QED
    BY <1>1, <1>2, <1>3 DEF BlocksAreWhereTheCpuGoes

\* The two sides of a branch.
LEMMA TwoBlocksRight ==
    ASSUME TypeOK, BlocksAreWhereTheCpuGoes, NEW cond, NEW yes, NEW no,
           NEW s, NEW c \in CpuState, SplitOn(cond, yes, no, yes, no, s, c)
    PROVE  BlocksAreWhereTheCpuGoes'
  <1> DEFINE t == nblocks + 1
             f == nblocks + 2
             taken(bit) == [c EXCEPT !.taken[cond] = bit]
  <1>1. /\ f \in Blocks /\ nblocks' = f
        /\ blocks' = [[blocks EXCEPT ![cur].term = CondBr(cond, t, f)]
                         EXCEPT ![t] = NewBlock(yes), ![f] = NewBlock(no)]
        /\ entry' = [entry EXCEPT ![t] = Enter(taken(1), t, yes),
                                  ![f] = Enter(taken(0), f, no)]
    BY DEF SplitOn
  <1>2. t \in Blocks /\ t # f
    BY <1>1, FreshBlocks
  <1>3. \A x \in Created' : x \in Created \/ x = t \/ x = f
    BY <1>1, FreshBlocks DEF Created
  <1>4. ASSUME NEW x \in Created, x # t, x # f
        PROVE  blocks'[x].addr = blocks[x].addr /\ entry'[x] = entry[x]
    <2>1. x \in Blocks
      BY FreshBlocks
    <2>2. entry'[x] = entry[x]
      BY <1>1, <1>4, <2>1, RecordParts
    <2>3. blocks'[x] = blocks[x] \/ blocks'[x] = [blocks[x] EXCEPT !.term = CondBr(cond, t, f)]
      BY <1>1, <1>4, <2>1, RecordParts
    <2>4. blocks[x] \in BlockRecords
      BY <2>1 DEF TypeOK
    <2>5. QED
      BY <2>2, <2>3, <2>4 DEF BlockRecords
  <1>5. /\ blocks'[t] = NewBlock(yes) /\ blocks'[f] = NewBlock(no)
        /\ entry'[t] = Enter(taken(1), t, yes) /\ entry'[f] = Enter(taken(0), f, no)
    BY <1>1, <1>2, RecordParts
  <1>6. /\ Enter(taken(1), t, yes).pc = yes /\ Enter(taken(0), f, no).pc = no
    BY DEF Enter, CpuState
  <1>7. blocks'[t].addr = entry'[t].pc /\ blocks'[f].addr = entry'[f].pc
    BY <1>5, <1>6 DEF NewBlock
  <1> HIDE DEF t, f
  <1>8. QED
    BY <1>3, <1>4, <1>7 DEF BlocksAreWhereTheCpuGoes

\* Each block is lifted at the address the processor reaches when it takes the edge
\* into the block, whatever branches, folded targets and returns lead there, on every
\* path that has read no stack word it did not store.
THEOREM BlocksAreTheProcessors ==
    ASSUME CallsAreFollowed
    PROVE  Spec => []BlocksAreWhereTheCpuGoes
  <1>1. Init => BlocksAreWhereTheCpuGoes
    <2>1. 1 \in Blocks
      BY ConstantsAssumption DEF Blocks
    <2>2. Init => Created = {1} /\ blocks[1].addr = EntryAddr /\ entry[1].pc = EntryAddr
      BY <2>1 DEF Init, InitBlock, InitCpu, Created
    <2>3. QED
      BY <2>2 DEF BlocksAreWhereTheCpuGoes
  <1>2. TypeOK /\ BackupInv /\ BlocksAreWhereTheCpuGoes /\ [Next]_vars
            => BlocksAreWhereTheCpuGoes'
    <2> SUFFICES ASSUME TypeOK, BackupInv, BlocksAreWhereTheCpuGoes, [Next]_vars
                 PROVE  BlocksAreWhereTheCpuGoes'
      OBVIOUS
    <2> DEFINE Kept == /\ UNCHANGED <<nblocks, entry>>
                       /\ \A x \in Blocks : blocks'[x].addr = blocks[x].addr
    <2>1. Kept => BlocksAreWhereTheCpuGoes'
      BY FreshBlocks DEF BlocksAreWhereTheCpuGoes, Created
    <2>2. CASE PopBlock
      <3>1. UNCHANGED <<nblocks, entry>>
        BY <2>2 DEF PopBlock
      <3>2. \A b : blocks' = [blocks EXCEPT ![b].lifted = TRUE] => Kept
        BY <3>1 DEF TypeOK, BlockRecords
      <3>3. QED
        BY <2>1, <2>2, <3>1, <3>2 DEF PopBlock, StartBlock
    <2>3. CASE Lift
      <3>1. Lifting
        BY <2>3 DEF Lift, Is, LiftCompute, LiftCompare, LiftPush, LiftPop, LiftPopfq,
           LiftSetRsp, LiftLeave, LiftJmp, LiftJmpRegister, LiftJcc, LiftCall, Lifting,
           LiftCallRegister, LiftCallOutlined, LiftRetReal, LiftRetRop, LiftStop
      <3>2. Agrees(live, cpu)
        BY <3>1 DEF BackupInv, LiveMatchesPath
      <3>3. CASE EndPath
        <4>1. Kept
          BY <3>3 DEF EndPath, TypeOK, BlockRecords
        <4>2. QED
          BY <4>1, <2>1
      <3>4. ASSUME NEW s, NEW c, GoesRight(s, c)
            PROVE  BlocksAreWhereTheCpuGoes'
        <4>1. CASE UNCHANGED <<graph, entry>>
          BY <2>1, <4>1 DEF graph
        <4>2. ASSUME c \in CpuState, NEW a, NEW pc, c.astray \/ pc = a, BranchTo(a, pc, s, c)
              PROVE  BlocksAreWhereTheCpuGoes'
          BY <4>2, OneBlockRight DEF BranchTo
        <4>3. QED
          BY <3>4, <4>1, <4>2, TwoBlocksRight DEF GoesRight
      <3>6. QED
        BY <2>3, <3>2, <3>3, <3>4, LiftGoesRight
    <2>4. CASE UNCHANGED vars
      BY <2>1, <2>4 DEF vars
    <2>5. QED
      BY <2>2, <2>3, <2>4 DEF Next
  <1>3. "call_outlined" \notin Instrs
    BY DEF CallsAreFollowed
  <1>4. QED
    BY <1>1, <1>2, <1>3, QueuedStatesAreThePaths, TypeCorrect, PTL DEF Spec

-----------------------------------------------------------------------------
(* The two sides of a branch are kept apart *)

\* The state s stands for a point of the path of c when it assumes what the path
\* took, of conditions in K only, and holds no value from another path.
Follows(s, c, K) ==
    /\ s.assumptions = c.taken
    /\ \A x \in Conds : s.assumptions[x] # None => x \in K
    /\ s.vecflag \in Conds => s.vecflag \in K
    /\ s.vec.def \in c.path
    /\ s.cache # None => s.cache \in c.path

\* Every queued block will start from such a state.
QueuedFollow ==
    \A i \in DOMAIN unvisited :
        LET b == unvisited[i].block
        IN IF BBbackup[b] # None THEN Follows(BBbackup[b], entry[b], computed)
           ELSE i = Len(unvisited) /\ ~Lifting /\ (aborted \/ Follows(live, entry[b], computed))

\* The block being lifted is in one, and has assumed nothing since it was entered.
LiveFollows ==
    Lifting => /\ Follows(live, cpu, computed)
               /\ cpu.taken = entry[cur].taken
               /\ cur \in cpu.path

\* The path into a block ends with it.
OnOwnPath == \A b \in Created : b \in entry[b].path

\* ConditionsSplitOnce and ValuesAreOnPath with what makes them inductive.
SideInv == /\ QueueIsCreated /\ NoEarlyBackup /\ cur \in Created
           /\ QueuedFollow /\ LiveFollows /\ OnOwnPath /\ ConditionsSplitOnce

\* How an instruction goes on: in the block, in a new one, or in two, on a condition
\* of which nothing was assumed yet.
Onward(s, c) ==
    \/ Straight(s, c)
    \/ \E a \in Addrs, pc \in Values : BranchTo(a, pc, s, c)
    \/ \E cond \in Conds, a1, a2, a3, a4 \in Addrs :
          /\ SplitOn(cond, a1, a2, a3, a4, s, c)
          /\ cond \in computed' /\ live.assumptions[cond] = None
    \/ LeaveUnsolved(s, c)

\* What every instruction leaves: the path is the same, and s follows it.
Along(s, c) ==
    /\ c.taken = cpu.taken /\ c.path = cpu.path
    /\ Follows(s, c, computed')
    /\ computed \subseteq computed'

\* More conditions may be computed, and a block may be added to the path.
LEMMA FollowsMore ==
    ASSUME NEW s, NEW c \in CpuState, NEW K, NEW L, Follows(s, c, K), K \subseteq L,
           NEW b, NEW pc
    PROVE  Follows(s, c, L) /\ Follows(s, Enter(c, b, pc), L)
  <1>1. /\ Enter(c, b, pc).taken = c.taken
        /\ Enter(c, b, pc).path = c.path \cup {b}
    BY DEF Enter, CpuState
  <1>2. Follows(s, c, L)
    BY DEF Follows
  <1>3. QED
    BY <1>1, <1>2 DEF Follows

\* Assuming one more condition, on both sides.
LEMMA FollowsAssumed ==
    ASSUME NEW s \in BackupPoint, NEW c \in CpuState, NEW K, Follows(s, c, K),
           NEW cond \in Conds, cond \in K, NEW bit \in {0, 1}
    PROVE  /\ Follows([s EXCEPT !.assumptions[cond] = bit],
                      [c EXCEPT !.taken[cond] = bit], K)
           /\ [s EXCEPT !.assumptions[cond] = bit] \in BackupPoint
           /\ [c EXCEPT !.taken[cond] = bit] \in CpuState
  <1> DEFINE S == [s EXCEPT !.assumptions[cond] = bit]
             C == [c EXCEPT !.taken[cond] = bit]
  <1>1. S \in BackupPoint /\ C \in CpuState
    BY DEF BackupPoint, CpuState, Assumptions
  <1>2. /\ S.assumptions = [s.assumptions EXCEPT ![cond] = bit]
        /\ C.taken = [c.taken EXCEPT ![cond] = bit]
        /\ S.vecflag = s.vecflag /\ S.vec = s.vec /\ S.cache = s.cache
        /\ C.path = c.path
    BY DEF BackupPoint, CpuState
  <1>3. s.assumptions \in Assumptions
    BY DEF BackupPoint
  <1>4. \A x \in Conds : S.assumptions[x] # None => x \in K
    BY <1>2, <1>3 DEF Follows, Assumptions
  <1> HIDE DEF S, C
  <1>5. Follows(S, C, K)
    BY <1>2, <1>4 DEF Follows
  <1>6. QED
    BY <1>1, <1>5 DEF S, C

\* solvePath splits only on a condition nothing was assumed of: what was assumed is
\* folded away, and the comparison of a target with a value is new.
LEMMA SolvePathOnward ==
    ASSUME TypeOK, NEW v \in Targets, NEW w \in CpuTargets, NEW s, NEW c,
           Follows(live, cpu, computed), v.kind = "select" => v.cond = live.vecflag,
           SolvePath(v, w, s, c)
    PROVE  Abort \/ (Onward(s, c) /\ computed \subseteq computed')
  <1>1. CASE v.kind = "const"
    <2>1. v.yes \in Addrs /\ CpuTarget(w, v.yes) \in Values
      BY <1>1, CpuTargetType DEF Targets
    <2>2. BranchTo(v.yes, CpuTarget(w, v.yes), s, c)
      BY <1>1 DEF SolvePath
    <2>3. QED
      BY <2>1, <2>2 DEF Onward, BranchTo
  <1>2. CASE v.kind # "const"
    <2>1. CASE LeaveUnsolved(s, c) \/ Abort
      BY <2>1 DEF LeaveUnsolved, Onward
    <2>2. CASE \E a \in Addrs : BranchTo(a, CpuTarget(w, a), s, c)
      BY <2>2, CpuTargetType DEF Onward, BranchTo
    <2>3. ASSUME NEW first \in Addrs, NEW second \in Addrs, first # second,
                 PossibleValues(v) = {first, second}, SplitTwo(v, first, second, s, c)
          PROVE  Onward(s, c) /\ computed \subseteq computed'
      <3>1. CASE v.kind = "select"
        <4>1. v.cond \in Flags /\ v.yes \in Addrs /\ v.no \in Addrs
          BY <3>1 DEF Targets
        <4>2. /\ KnownBit(v.cond, live.assumptions) # 1
              /\ KnownBit(v.cond, live.assumptions) # 0
          BY <2>3, <3>1 DEF PossibleValues
        <4>3. v.cond \in Conds
          BY <4>1, <4>2 DEF KnownBit, Flags
        <4>4. live.assumptions[v.cond] \in {0, 1, None}
          BY <4>3 DEF TypeOK, BackupPoint, Assumptions
        <4>5. live.assumptions[v.cond] = None
          BY <4>2, <4>3, <4>4, ConstantsAssumption DEF KnownBit
        <4>6. v.cond \in computed
          BY <3>1, <4>3 DEF Follows
        <4>7. /\ computed' = computed
              /\ \E a1, a2, a3, a4 \in Addrs : SplitOn(v.cond, a1, a2, a3, a4, s, c)
          BY <2>3, <3>1, <4>1 DEF SplitTwo
        <4>8. QED
          BY <4>3, <4>5, <4>6, <4>7 DEF Onward
      <3>2. CASE v.kind = "opaque"
        <4>1. PICK isFirst \in Conds \ computed :
                 /\ SplitOn(isFirst, first, second, first, second, s, c)
                 /\ computed' = computed \cup {isFirst}
          BY <2>3, <3>2 DEF SplitTwo
        <4>2. live.assumptions[isFirst] = None
          BY <4>1 DEF Follows
        <4>3. QED
          BY <4>1, <4>2 DEF Onward
      <3>3. QED
        BY <1>2, <3>1, <3>2 DEF Targets
    <2>4. \A a, b \in Addrs : a < b => a # b
      BY ConstantsAssumption
    <2>5. QED
      BY <1>2, <2>1, <2>2, <2>3, <2>4 DEF SolvePath
  <1>3. QED
    BY <1>1, <1>2

\* Pushes, pops and a new RSP do not touch what Follows looks at.
LEMMA StackAlong ==
    ASSUME TypeOK, Follows(live, cpu, computed)
    PROVE  /\ \A v \in Values : /\ Follows(PushLive(v), PushCpu(v), computed)
                                /\ PushCpu(v).taken = cpu.taken /\ PushCpu(v).path = cpu.path
           /\ \A n \in {1, 2} : /\ Follows(PopLive(n), PopCpu(n), computed)
                                /\ PopCpu(n).taken = cpu.taken /\ PopCpu(n).path = cpu.path
           /\ \A r, e : LET c == [cpu EXCEPT !.rsp = r, !.astray = e]
                        IN /\ Follows([live EXCEPT !.vec.rsp = r], c, computed)
                           /\ c.taken = cpu.taken /\ c.path = cpu.path
  BY DEF TypeOK, BackupPoint, CpuState, Follows, PushLive, PushCpu, PopLive, PopCpu

\* A new flag is a constant or a condition computed just now; a new value is defined
\* here, or where the instruction cache found it.
LEMMA ValuesAlong ==
    ASSUME NEW s \in BackupPoint, NEW c \in CpuState, NEW K, Follows(s, c, K)
    PROVE  /\ \A f \in Flags : \A L :
                 K \cup ({f} \cap Conds) \subseteq L =>
                    Follows([s EXCEPT !.vecflag = f], [c EXCEPT !.flag = f], L)
           /\ \A f : /\ [c EXCEPT !.flag = f].taken = c.taken
                     /\ [c EXCEPT !.flag = f].path = c.path
           /\ \A b \in c.path : /\ Follows([s EXCEPT !.vec.def = b], c, K)
                                /\ Follows([s EXCEPT !.vec.def = b, !.cache = b], c, K)
  <1>1. \A f : /\ [c EXCEPT !.flag = f].taken = c.taken
               /\ [c EXCEPT !.flag = f].path = c.path
    BY DEF CpuState
  <1>2. \A b \in c.path : /\ Follows([s EXCEPT !.vec.def = b], c, K)
                          /\ Follows([s EXCEPT !.vec.def = b, !.cache = b], c, K)
    BY DEF BackupPoint, Follows
  <1>3. ASSUME NEW f \in Flags, NEW L, K \cup ({f} \cap Conds) \subseteq L
        PROVE  Follows([s EXCEPT !.vecflag = f], [c EXCEPT !.flag = f], L)
    <2> DEFINE S == [s EXCEPT !.vecflag = f]
               C == [c EXCEPT !.flag = f]
    <2>1. /\ S.vec = s.vec /\ S.cache = s.cache /\ S.assumptions = s.assumptions
          /\ S.vecflag = f /\ C.taken = c.taken /\ C.path = c.path
      BY <1>1 DEF BackupPoint
    <2> HIDE DEF S, C
    <2>2. Follows(S, C, L)
      BY <1>3, <2>1 DEF Follows
    <2>3. QED
      BY <2>2 DEF S, C
  <1>4. QED
    BY <1>1, <1>2, <1>3

\* Every instruction keeps to the path it is on.
LEMMA LiftAlong ==
    ASSUME TypeOK, Lift, Follows(live, cpu, computed), cur \in cpu.path
    PROVE  \/ Abort \/ EndPath
           \/ \E s \in BackupPoint, c \in CpuState : Onward(s, c) /\ Along(s, c)
  <1> USE DEF Is
  <1> DEFINE Goal == \E s \in BackupPoint, c \in CpuState : Onward(s, c) /\ Along(s, c)
  <1>a. /\ live \in BackupPoint /\ cpu \in CpuState
        /\ cur \in Blocks /\ computed \subseteq Conds
    BY DEF TypeOK
  <1>b. live.vecflag \in Flags /\ cpu.flag \in Flags /\ live.vec.rsp \in Rsps
    BY <1>a DEF BackupPoint, CpuState
  <1>c. ASSUME NEW v \in Targets, NEW w \in CpuTargets, NEW s \in BackupPoint, NEW c \in CpuState,
               SolvePath(v, w, s, c), v.kind = "select" => v.cond = live.vecflag,
               Follows(s, c, computed), c.taken = cpu.taken, c.path = cpu.path
        PROVE  Abort \/ Goal
    <2>1. CASE Abort
      BY <2>1
    <2>2. CASE Onward(s, c) /\ computed \subseteq computed'
      <3>1. Follows(s, c, computed')
        BY <1>c, <2>2, FollowsMore
      <3>2. Along(s, c)
        BY <1>c, <2>2, <3>1 DEF Along
      <3>3. QED
        BY <2>2, <3>2
    <2>3. QED
      BY <1>c, <2>1, <2>2, SolvePathOnward
  <1>d. ASSUME NEW s \in BackupPoint, NEW c \in CpuState, Onward(s, c),
               Follows(s, c, computed), c.taken = cpu.taken, c.path = cpu.path,
               computed' = computed
        PROVE  Goal
    BY <1>d DEF Along
  <1>1. CASE LiftCompute
    <2>1. /\ \A b \in cpu.path : /\ Follows([live EXCEPT !.vec.def = b], cpu, computed)
                                 /\ Follows([live EXCEPT !.vec.def = b, !.cache = b], cpu, computed)
          /\ live.cache # None => live.cache \in cpu.path
      BY <1>a, ValuesAlong DEF Follows
    <2>2. cpu.path \subseteq Blocks
      BY <1>a DEF CpuState
    <2>3. CASE Straight([live EXCEPT !.vec.def = cur, !.cache = cur], cpu)
      BY <1>1, <1>a, <1>d, <2>1, <2>2, <2>3, UpdateTypes DEF LiftCompute, Onward
    <2>4. CASE live.cache # None /\ Straight([live EXCEPT !.vec.def = live.cache], cpu)
      <3>1. [live EXCEPT !.vec.def = live.cache] \in BackupPoint
        BY <1>a, <2>1, <2>2, <2>4, UpdateTypes
      <3>2. Onward([live EXCEPT !.vec.def = live.cache], cpu)
        BY <2>4 DEF Onward
      <3>3. computed' = computed
        BY <1>1 DEF LiftCompute
      <3>4. Goal
        BY <1>a, <1>d, <2>1, <2>4, <3>1, <3>2, <3>3
      <3>5. QED
        BY <3>4
    <2>5. QED
      BY <1>1, <2>3, <2>4 DEF LiftCompute
  <1>2. CASE LiftCompare
    <2>1. PICK flag \in Flags : 
             /\ Straight([live EXCEPT !.vecflag = flag], [cpu EXCEPT !.flag = flag])
             /\ computed' = computed \cup ({flag} \cap Conds)
      BY <1>2 DEF LiftCompare
    <2> DEFINE S == [live EXCEPT !.vecflag = flag]
               C == [cpu EXCEPT !.flag = flag]
    <2>2. S \in BackupPoint /\ C \in CpuState
      BY <1>a, UpdateTypes
    <2>3. Follows(S, C, computed') /\ C.taken = cpu.taken /\ C.path = cpu.path
      BY <1>a, <2>1, ValuesAlong
    <2>4. Onward(S, C) /\ Along(S, C)
      BY <2>1, <2>3 DEF Onward, Along
    <2>5. QED
      BY <2>2, <2>4
  <1>3. CASE LiftPush
    <2>1. PICK v \in Values : Straight(PushLive(v), PushCpu(v))
      BY <1>3 DEF LiftPush
    <2>2. PushLive(v) \in BackupPoint /\ PushCpu(v) \in CpuState
      BY <1>3, PushPopTypes DEF LiftPush
    <2>3. Onward(PushLive(v), PushCpu(v)) /\ computed' = computed
      BY <1>3, <2>1 DEF Onward, LiftPush
    <2>4. QED
      BY <1>d, <2>2, <2>3, StackAlong
  <1>4. CASE LiftPop
    <2> DEFINE S == [PopLive(1) EXCEPT !.vec.def = cur]
    <2>1. PopLive(1) \in BackupPoint /\ PopCpu(1) \in CpuState
      BY <1>4, PushPopTypes DEF LiftPop
    <2>2. S \in BackupPoint
      BY <1>a, <2>1, UpdateTypes
    <2>3. /\ Follows(PopLive(1), PopCpu(1), computed)
          /\ PopCpu(1).taken = cpu.taken /\ PopCpu(1).path = cpu.path
      BY StackAlong
    <2>4. Follows(S, PopCpu(1), computed)
      BY <2>1, <2>3, ValuesAlong
    <2>5. Onward(S, PopCpu(1)) /\ computed' = computed
      BY <1>4 DEF LiftPop, Onward
    <2>6. QED
      BY <1>d, <2>1, <2>2, <2>3, <2>4, <2>5
  <1>5. CASE LiftPopfq
    <2>1. PopLive(1) \in BackupPoint /\ PopCpu(1) \in CpuState
      BY <1>5, PushPopTypes DEF LiftPopfq
    <2>2. /\ Follows(PopLive(1), PopCpu(1), computed)
          /\ PopCpu(1).taken = cpu.taken /\ PopCpu(1).path = cpu.path
      BY StackAlong
    <2>3. PICK flag \in Flags :
             /\ Straight([PopLive(1) EXCEPT !.vecflag = flag],
                         [PopCpu(1) EXCEPT !.flag = flag])
             /\ computed' = computed \cup ({flag} \cap Conds)
      BY <1>5 DEF LiftPopfq, PoppedFlags, Flags
    <2> DEFINE S == [PopLive(1) EXCEPT !.vecflag = flag]
               C == [PopCpu(1) EXCEPT !.flag = flag]
    <2>4. S \in BackupPoint /\ C \in CpuState
      BY <2>1, UpdateTypes
    <2>5. Follows(S, C, computed') /\ C.taken = cpu.taken /\ C.path = cpu.path
      BY <2>1, <2>2, <2>3, ValuesAlong
    <2>6. Onward(S, C) /\ Along(S, C)
      BY <2>3, <2>5 DEF Onward, Along
    <2>7. QED
      BY <2>4, <2>6
  <1>6. CASE LiftSetRsp \/ LiftLeave
    <2>1. PICK rsp \in Rsps, astray \in BOOLEAN :
             /\ Straight([live EXCEPT !.vec.rsp = rsp],
                         [cpu EXCEPT !.rsp = rsp, !.astray = astray])
             /\ UNCHANGED computed
      <3>1. cpu.astray \in BOOLEAN
        BY <1>a DEF CpuState
      <3>2. \A x : Strays(x) \in BOOLEAN
        BY <3>1 DEF Strays
      <3>3. \A x : [cpu EXCEPT !.rsp = x, !.astray = cpu.astray] = [cpu EXCEPT !.rsp = x]
        BY <1>a DEF CpuState
      <3>4. CASE LiftSetRsp
        BY <3>1, <3>3, <3>4 DEF LiftSetRsp
      <3>5. CASE LiftLeave
        BY <3>2, <3>5 DEF LiftLeave, Fits
      <3>6. QED
        BY <1>6, <3>4, <3>5
    <2> DEFINE S == [live EXCEPT !.vec.rsp = rsp]
               C == [cpu EXCEPT !.rsp = rsp, !.astray = astray]
    <2>2. S \in BackupPoint /\ C \in CpuState
      BY <1>a, UpdateTypes
    <2>3. Follows(S, C, computed) /\ C.taken = cpu.taken /\ C.path = cpu.path
      BY StackAlong
    <2>4. Onward(S, C)
      BY <2>1 DEF Onward
    <2>5. QED
      BY <1>d, <2>1, <2>2, <2>3, <2>4
  <1>7. CASE LiftJmp
    <2>1. PICK a \in Addrs : SolvePath(Const(a), Const(a), live, cpu)
      BY <1>7 DEF LiftJmp
    <2>2. Const(a) \in Targets /\ Const(a).kind # "select"
      BY TargetTypes DEF Const
    <2>3. QED
      BY <1>a, <1>c, <2>1, <2>2, TargetTypes
  <1>8. CASE LiftJmpRegister
    <2>1. ASSUME NEW yes \in Addrs, NEW no \in Addrs,
                 SolvePath(Select(live.vecflag, yes, no), Select(cpu.flag, yes, no), live, cpu)
          PROVE  Abort \/ Goal
      <3>1. /\ Select(live.vecflag, yes, no) \in Targets /\ Select(cpu.flag, yes, no) \in Targets
            /\ Select(live.vecflag, yes, no).cond = live.vecflag
        BY <1>b, TargetTypes DEF Select
      <3>2. QED
        BY <1>a, <1>c, <2>1, <3>1, TargetTypes
    <2>2. ASSUME NEW S \in TargetSets, SolvePath(Opaque(S), Opaque(S), live, cpu)
          PROVE  Abort \/ Goal
      <3>1. Opaque(S) \in Targets /\ Opaque(S).kind # "select"
        BY TargetTypes, TargetSetsType DEF Opaque
      <3>2. QED
        BY <1>a, <1>c, <2>2, <3>1, TargetTypes
    <2>3. QED
      BY <1>8, <2>1, <2>2 DEF LiftJmpRegister
  <1>9. CASE LiftJcc
    <2>1. PICK yes \in Addrs, no \in Addrs :
             SolvePath(SelectFolder(live.vecflag, yes, no),
                       IF yes = no THEN Const(yes) ELSE Select(cpu.flag, yes, no), live, cpu)
      BY <1>9 DEF LiftJcc
    <2> DEFINE v == SelectFolder(live.vecflag, yes, no)
               w == IF yes = no THEN Const(yes) ELSE Select(cpu.flag, yes, no)
    <2>2. v \in Targets /\ w \in CpuTargets
      BY <1>b, TargetTypes
    <2>3. v.kind = "select" => v.cond = live.vecflag
      BY DEF SelectFolder, Const, Select
    <2> HIDE DEF v, w
    <2>4. SolvePath(v, w, live, cpu)
      BY <2>1 DEF v, w
    <2>5. QED
      BY <1>a, <1>c, <2>2, <2>3, <2>4
  <1>10. CASE LiftCall \/ LiftCallRegister
    <2>1. PICK target \in Addrs, pc \in Addrs, next \in Addrs :
             BranchTo(target, pc, PushLive(next), PushCpu(next))
      BY <1>10 DEF LiftCall, LiftCallRegister
    <2>2. PushLive(next) \in BackupPoint /\ PushCpu(next) \in CpuState /\ next \in Values
      BY <1>10, PushPopTypes DEF LiftCall, LiftCallRegister, Values
    <2>3. Onward(PushLive(next), PushCpu(next)) /\ computed' = computed
      BY <2>1 DEF Onward, BranchTo, Values
    <2>4. QED
      BY <1>d, <2>2, <2>3, StackAlong
  <1>11. CASE LiftCallOutlined
    <2>1. PICK next \in Addrs :
             BranchTo(next, next, PushLive(next), [PushCpu(next) EXCEPT !.rsp = cpu.rsp])
      BY <1>11 DEF LiftCallOutlined
    <2> DEFINE C == [PushCpu(next) EXCEPT !.rsp = cpu.rsp]
    <2>2. PushLive(next) \in BackupPoint /\ PushCpu(next) \in CpuState /\ next \in Values
      BY <1>11, PushPopTypes DEF LiftCallOutlined, Values
    <2>3. C \in CpuState
      BY <1>a, <2>2 DEF CpuState
    <2>4. C.taken = PushCpu(next).taken /\ C.path = PushCpu(next).path
      BY <2>2 DEF CpuState
    <2>5. Follows(PushLive(next), C, computed) /\ C.taken = cpu.taken /\ C.path = cpu.path
      BY <2>2, <2>4, StackAlong DEF Follows
    <2>6. Onward(PushLive(next), C) /\ computed' = computed
      BY <2>1 DEF Onward, BranchTo, Values
    <2>7. QED
      BY <1>d, <2>2, <2>3, <2>5, <2>6
  <1>12. CASE LiftRetReal \/ LiftStop
    BY <1>12 DEF LiftRetReal, LiftStop
  <1>13. CASE LiftRetRop
    <2>1. PICK n \in {1, 2} :
             /\ CanPop(n)
             /\ \E v \in Targets, w \in CpuTargets :
                   v.kind # "select" /\ SolvePath(v, w, PopLive(n), PopCpu(n))
      <3>1. \A a \in Addrs : Const(a) \in Targets /\ Const(a).kind # "select"
        BY TargetTypes DEF Const
      <3>2. \A S \in TargetSets : Opaque(S) \in Targets /\ Opaque(S).kind # "select"
        BY TargetTypes, TargetSetsType DEF Opaque
      <3>3. /\ ReturnTarget # Unknown => ReturnTarget \in Addrs
            /\ StackWord(cpu.rsp) \in Addrs \cup {Unknown, None}
        BY LoadType DEF Values
      <3>4. /\ \A S \in TargetSets : (IF StackWord(cpu.rsp) \in Addrs THEN Const(StackWord(cpu.rsp))
                                     ELSE Opaque(S)) \in CpuTargets
            /\ Const(IF StackWord(cpu.rsp) = None THEN Unknown ELSE StackWord(cpu.rsp))
                  \in CpuTargets
        BY <3>1, <3>2, <3>3, TargetTypes
      <3>5. QED
        BY <1>13, <3>1, <3>2, <3>3, <3>4 DEF LiftRetRop
    <2>2. PopLive(n) \in BackupPoint /\ PopCpu(n) \in CpuState
      BY <2>1, PushPopTypes
    <2>3. QED
      BY <1>c, <2>1, <2>2, StackAlong
  <1>14. QED
    BY <1>1, <1>2, <1>3, <1>4, <1>5, <1>6, <1>7, <1>8, <1>9, <1>10, <1>11, <1>12, <1>13 DEF Lift

\* While a block is lifted, every queued block has a backup that follows its path.
LEMMA FollowWhileLifting ==
    ASSUME TypeOK, SideInv, Lifting
    PROVE  \A i \in DOMAIN unvisited :
              /\ unvisited[i].block \in Created
              /\ unvisited[i].block \in Blocks
              /\ BBbackup[unvisited[i].block] # None
              /\ Follows(BBbackup[unvisited[i].block], entry[unvisited[i].block], computed)
  BY QueuedBlocks DEF SideInv, QueuedFollow, QueueIsCreated

\* A condition may be computed meanwhile.
LEMMA QueueFollowsMore ==
    ASSUME TypeOK, SideInv, Lifting, computed \subseteq computed'
    PROVE  \A i \in DOMAIN unvisited :
              Follows(BBbackup[unvisited[i].block], entry[unvisited[i].block], computed')
  <1> TAKE i \in DOMAIN unvisited
  <1> DEFINE b == unvisited[i].block
  <1>1. b \in Blocks /\ Follows(BBbackup[b], entry[b], computed)
    BY FollowWhileLifting
  <1>2. entry[b] \in CpuState
    BY <1>1 DEF TypeOK
  <1>3. QED
    BY <1>1, <1>2, FollowsMore

\* The terminators a step leaves: only that of the current block is new.
OthersAsBefore(new) ==
    \A b \in Created' : \/ b \in new /\ blocks'[b].term.kind = "none"
                        \/ b \in Created /\ b # cur /\ blocks'[b].term = blocks[b].term
                        \/ b \in Created /\ b = cur

\* A block is created, whose terminator is still to come.
LEMMA OthersAfterOne ==
    ASSUME TypeOK, NEW a, nblocks + 1 \in Blocks, nblocks' = nblocks + 1, cur \in Created,
           blocks' = [[blocks EXCEPT ![cur].term = Br(nblocks + 1)]
                         EXCEPT ![nblocks + 1] = NewBlock(a)]
    PROVE  OthersAsBefore({nblocks + 1}) /\ blocks'[cur].term.kind = "br"
  <1> DEFINE b == nblocks + 1
             B == [blocks EXCEPT ![cur].term = Br(b)]
  <1>1. /\ b \notin Created /\ Created \subseteq Blocks /\ cur \in Blocks
        /\ \A x \in Created' : x \in Created \/ x = b
    BY FreshBlocks DEF Created
  <1>2. NewBlock(a).term.kind = "none" /\ Br(b).kind = "br"
    BY DEF NewBlock, NoTerm, Br
  <1>3. /\ \A x \in Blocks : x # cur => B[x] = blocks[x]
        /\ B[cur].term = Br(b)
        /\ DOMAIN B = Blocks
    BY <1>1 DEF TypeOK, BlockRecords
  <1> HIDE DEF B, b
  <1>4. blocks' = [B EXCEPT ![b] = NewBlock(a)] /\ b \in Blocks
    BY DEF B, b
  <1>5. blocks'[b] = NewBlock(a) /\ \A x \in Blocks : x # b => blocks'[x] = B[x]
    BY <1>3, <1>4
  <1>6. QED
    BY <1>1, <1>2, <1>3, <1>5 DEF OthersAsBefore, b

\* Two blocks are created.
LEMMA OthersAfterTwo ==
    ASSUME TypeOK, cur \in Created, NEW cond \in Conds, NEW yes, NEW no, NEW pcYes, NEW pcNo,
           NEW s, NEW c, SplitOn(cond, yes, no, pcYes, pcNo, s, c)
    PROVE  OthersAsBefore({nblocks + 1, nblocks + 2}) /\ blocks'[cur].term.cond = cond
  <1> DEFINE t == nblocks + 1
             f == nblocks + 2
             B == [blocks EXCEPT ![cur].term = CondBr(cond, t, f)]
  <1>1. /\ f \in Blocks /\ nblocks' = f
        /\ blocks' = [B EXCEPT ![t] = NewBlock(yes), ![f] = NewBlock(no)]
    BY DEF SplitOn
  <1>2. /\ t \in Blocks /\ t # f /\ t \notin Created /\ f \notin Created
        /\ Created \subseteq Blocks /\ cur \in Blocks
        /\ \A x \in Created' : x \in Created \/ x = t \/ x = f
    BY <1>1, FreshBlocks DEF Created
  <1>3. /\ NewBlock(yes).term.kind = "none" /\ NewBlock(no).term.kind = "none"
        /\ CondBr(cond, t, f).cond = cond
    BY DEF NewBlock, NoTerm, CondBr
  <1>4. /\ \A x \in Blocks : x # cur => B[x] = blocks[x]
        /\ B[cur].term = CondBr(cond, t, f)
        /\ DOMAIN B = Blocks
    BY <1>2 DEF TypeOK, BlockRecords
  <1> HIDE DEF B, t, f
  <1>5. /\ blocks'[t] = NewBlock(yes) /\ blocks'[f] = NewBlock(no)
        /\ \A x \in Blocks : x # t /\ x # f => blocks'[x] = B[x]
    BY <1>1, <1>2, <1>4
  <1>6. QED
    BY <1>2, <1>3, <1>4, <1>5 DEF OthersAsBefore, t, f

\* One branch is new: it splits on a condition its path assumed nothing of.
LEMMA SplitsStayOnce ==
    ASSUME TypeOK, SideInv, NEW new, OthersAsBefore(new),
           \A b \in Created : entry'[b] = entry[b],
           blocks'[cur].term.kind = "condbr"
              => entry[cur].taken[blocks'[cur].term.cond] = None
    PROVE  ConditionsSplitOnce'
  <1> SUFFICES ASSUME NEW b \in Created', blocks'[b].term.kind = "condbr"
               PROVE  entry'[b].taken[blocks'[b].term.cond] = None
    BY DEF ConditionsSplitOnce
  <1>1. CASE b \in Created /\ b # cur /\ blocks'[b].term = blocks[b].term
    BY <1>1 DEF SideInv, ConditionsSplitOnce
  <1>2. CASE b \in Created /\ b = cur
    BY <1>2
  <1>3. QED
    BY <1>1, <1>2 DEF OthersAsBefore

\* A step that leaves the worklist, the backups and the paths of the blocks alone.
LEMMA SameSides ==
    ASSUME TypeOK, SideInv, Lifting, UNCHANGED <<unvisited, BBbackup, cur>>,
           nblocks' = nblocks, computed \subseteq computed', entry' = entry,
           \A b \in Created : /\ b # cur => blocks'[b].term = blocks[b].term
                              /\ b = cur => \/ blocks'[b].term = blocks[b].term
                                            \/ blocks'[b].term.kind # "condbr",
           Lifting' => /\ Follows(live', cpu', computed')
                       /\ cpu'.taken = cpu.taken /\ cpu'.path = cpu.path
    PROVE  SideInv'
  <1>1. QueueIsCreated' /\ NoEarlyBackup' /\ (cur \in Created)' /\ OnOwnPath'
    BY DEF SideInv, QueueIsCreated, NoEarlyBackup, OnOwnPath, Created
  <1>2. QueuedFollow'
    <2>1. \A i \in DOMAIN unvisited' :
             /\ BBbackup'[unvisited'[i].block] # None
             /\ Follows(BBbackup'[unvisited'[i].block], entry'[unvisited'[i].block], computed')
      BY FollowWhileLifting, QueueFollowsMore
    <2>2. QED
      BY <2>1 DEF QueuedFollow, Follows
  <1>3. LiveFollows'
    BY DEF LiveFollows, SideInv, Follows
  <1>4. ConditionsSplitOnce'
    BY DEF ConditionsSplitOnce, SideInv, Created
  <1>5. QED
    BY <1>1, <1>2, <1>3, <1>4 DEF SideInv

\* The block a branch goes to starts from the state the lifter is in.
LEMMA BranchToSides ==
    ASSUME TypeOK, SideInv, Lifting, NEW a \in Addrs, NEW pc \in Values,
           NEW s \in BackupPoint, NEW c \in CpuState, Along(s, c), BranchTo(a, pc, s, c)
    PROVE  SideInv'
  <1> DEFINE n == Len(unvisited)
             b == nblocks + 1
             e == [addr |-> a, block |-> b]
  <1>1. /\ b \in Blocks /\ nblocks' = b /\ unvisited' = Append(unvisited, e)
        /\ run' = 0 /\ live' = s
        /\ BBbackup' = BBbackup
        /\ entry' = [entry EXCEPT ![b] = Enter(c, b, pc)]
        /\ blocks' = [[blocks EXCEPT ![cur].term = Br(b)] EXCEPT ![b] = NewBlock(a)]
        /\ UNCHANGED <<cur, computed>>
        /\ e \in BBInfos
    BY DEF BranchTo, BBInfos, caches
  <1>2. /\ n \in Nat
        /\ DOMAIN unvisited = 1 .. n
        /\ DOMAIN unvisited' = 1 .. n + 1
        /\ Len(unvisited') = n + 1
        /\ \A i \in 1 .. n : unvisited'[i] = unvisited[i]
        /\ unvisited'[n + 1].block = b
    BY <1>1, AppendFacts, QueuedBlocks
  <1>3. /\ b \notin Created
        /\ \A x \in Created : entry'[x] = entry[x] /\ x \in Created'
        /\ \A x \in Created' : x \in Created \/ x = b
        /\ entry'[b] = Enter(c, b, pc) /\ b \in Created'
    BY <1>1, FreshBlocks DEF TypeOK, Created
  <1>4. ~Lifting' /\ cur \in Created
    BY <1>1 DEF Lifting, SideInv
  <1>5. QueueIsCreated'
    BY <1>1, <1>2, <1>3, FollowWhileLifting DEF QueueIsCreated
  <1>6. NoEarlyBackup'
    BY <1>1, <1>3 DEF SideInv, NoEarlyBackup
  <1>7. BBbackup[b] = None
    BY <1>1, <1>3 DEF SideInv, NoEarlyBackup
  <1>8. /\ Follows(live', entry'[b], computed')
        /\ b \in entry'[b].path
    <2>1. Follows(s, Enter(c, b, pc), computed')
      BY FollowsMore DEF Along
    <2>2. b \in Enter(c, b, pc).path
      BY DEF Enter, CpuState
    <2>3. QED
      BY <1>1, <1>3, <2>1, <2>2
  <1>9. QueuedFollow'
    <2> SUFFICES ASSUME NEW i \in DOMAIN unvisited'
                 PROVE  LET x == unvisited'[i].block
                        IN IF BBbackup'[x] # None THEN Follows(BBbackup'[x], entry'[x], computed')
                           ELSE i = Len(unvisited') /\ ~Lifting'
                                /\ (aborted' \/ Follows(live', entry'[x], computed'))
      BY DEF QueuedFollow, Follows
    <2>1. CASE i \in 1 .. n
      <3>1. /\ BBbackup'[unvisited'[i].block] # None
            /\ Follows(BBbackup'[unvisited'[i].block], entry'[unvisited'[i].block], computed')
        BY <1>1, <1>2, <1>3, <2>1, FollowWhileLifting
      <3>2. QED
        BY <3>1
    <2>2. CASE i = n + 1
      BY <1>1, <1>2, <1>4, <1>7, <1>8, <2>2
    <2>3. QED
      BY <1>2, <2>1, <2>2
  <1>10. LiveFollows'
    BY <1>4 DEF LiveFollows
  <1>11. OnOwnPath'
    BY <1>3, <1>8 DEF SideInv, OnOwnPath
  <1>12. ConditionsSplitOnce'
    <2>1. OthersAsBefore({b}) /\ blocks'[cur].term.kind = "br"
      BY <1>1, <1>4, OthersAfterOne
    <2>2. QED
      BY <1>3, <2>1, SplitsStayOnce
  <1>13. (cur \in Created)'
    BY <1>1, <1>3, <1>4
  <1>14. QED
    BY <1>5, <1>6, <1>9, <1>10, <1>11, <1>12, <1>13 DEF SideInv

\* Each side of a split starts from a state that assumes its own bit.
LEMMA SplitOnSides ==
    ASSUME TypeOK, SideInv, Lifting, NEW cond \in Conds,
           NEW yes \in Addrs, NEW no \in Addrs, NEW pcYes \in Addrs, NEW pcNo \in Addrs,
           NEW s \in BackupPoint, NEW c \in CpuState, Along(s, c),
           cond \in computed', live.assumptions[cond] = None,
           SplitOn(cond, yes, no, pcYes, pcNo, s, c)
    PROVE  SideInv'
  <1> DEFINE n == Len(unvisited)
             t == nblocks + 1
             f == nblocks + 2
             e1 == [addr |-> no, block |-> f]
             e2 == [addr |-> yes, block |-> t]
             S(bit) == [s EXCEPT !.assumptions[cond] = bit]
             C(bit) == [c EXCEPT !.taken[cond] = bit]
  <1>1. /\ f \in Blocks /\ nblocks' = f /\ run' = 0 /\ UNCHANGED cur
        /\ unvisited' = Append(Append(unvisited, e1), e2)
        /\ BBbackup' = [BBbackup EXCEPT ![f] = S(0), ![t] = S(1)]
        /\ entry' = [entry EXCEPT ![t] = Enter(C(1), t, pcYes),
                                  ![f] = Enter(C(0), f, pcNo)]
    BY DEF SplitOn
  <1>2. /\ t \in Blocks /\ t # f /\ t \notin Created /\ f \notin Created
        /\ e1 \in BBInfos /\ e2 \in BBInfos
    BY <1>1, FreshBlocks DEF BBInfos
  <1>3. /\ n \in Nat
        /\ DOMAIN unvisited = 1 .. n
        /\ DOMAIN unvisited' = 1 .. n + 2
        /\ \A i \in 1 .. n : unvisited'[i] = unvisited[i]
        /\ unvisited'[n + 1].block = f
        /\ unvisited'[n + 2].block = t
    BY <1>1, <1>2, AppendTwoFacts, QueuedBlocks
  <1>4. /\ Follows(S(0), C(0), computed') /\ S(0) \in BackupPoint /\ C(0) \in CpuState
        /\ Follows(S(1), C(1), computed') /\ S(1) \in BackupPoint /\ C(1) \in CpuState
    BY FollowsAssumed DEF Along
  <1>5. S(0) # None /\ S(1) # None
    BY <1>4, NoneAssumption
  <1> HIDE DEF S, C
  <1>6. /\ \A x \in Created : /\ entry'[x] = entry[x]
                              /\ x \in Created'
        /\ \A x \in Blocks : x # t /\ x # f => BBbackup'[x] = BBbackup[x]
        /\ BBbackup'[f] = S(0) /\ entry'[f] = Enter(C(0), f, pcNo)
        /\ BBbackup'[t] = S(1) /\ entry'[t] = Enter(C(1), t, pcYes)
        /\ \A x \in Created' : x \in Created \/ x = t \/ x = f
        /\ t \in Created' /\ f \in Created'
    BY <1>1, <1>2, FreshBlocks DEF TypeOK, Created
  <1>7. ~Lifting' /\ cur \in Created
    BY <1>1 DEF Lifting, SideInv
  <1>8. /\ Follows(BBbackup'[f], entry'[f], computed') /\ f \in entry'[f].path
        /\ Follows(BBbackup'[t], entry'[t], computed') /\ t \in entry'[t].path
    <2>1. /\ Follows(S(0), Enter(C(0), f, pcNo), computed')
          /\ Follows(S(1), Enter(C(1), t, pcYes), computed')
      BY <1>4, FollowsMore
    <2>2. f \in Enter(C(0), f, pcNo).path /\ t \in Enter(C(1), t, pcYes).path
      BY <1>4 DEF Enter, CpuState
    <2>3. QED
      BY <1>6, <2>1, <2>2
  <1>9. QueueIsCreated'
    <2>1. \A i \in DOMAIN unvisited' : unvisited'[i].block \in Created'
      <3> TAKE i \in DOMAIN unvisited'
      <3>1. CASE i \in 1 .. n
        BY <1>3, <1>6, <3>1, FollowWhileLifting
      <3>2. CASE i = n + 1 \/ i = n + 2
        BY <1>3, <1>6, <3>2
      <3>3. QED
        BY <1>3, <3>1, <3>2
    <2>2. QED
      BY <2>1 DEF QueueIsCreated
  <1>10. NoEarlyBackup'
    BY <1>6 DEF SideInv, NoEarlyBackup
  <1>11. QueuedFollow'
    <2>1. ASSUME NEW i \in 1 .. n
          PROVE  /\ BBbackup'[unvisited'[i].block] # None
                 /\ Follows(BBbackup'[unvisited'[i].block], entry'[unvisited'[i].block], computed')
      <3> DEFINE x == unvisited[i].block
      <3>1. /\ x \in Blocks /\ x \in Created /\ BBbackup[x] # None
            /\ Follows(BBbackup[x], entry[x], computed')
        BY <1>3, FollowWhileLifting, QueueFollowsMore DEF Along
      <3>2. x # t /\ x # f /\ unvisited'[i] = unvisited[i]
        BY <1>2, <1>3, <3>1
      <3>3. BBbackup'[x] = BBbackup[x] /\ entry'[x] = entry[x]
        BY <1>6, <3>1, <3>2
      <3>4. QED
        BY <3>1, <3>2, <3>3
    <2>2. /\ BBbackup'[unvisited'[n + 1].block] # None
          /\ BBbackup'[unvisited'[n + 2].block] # None
      BY <1>3, <1>5, <1>6
    <2>3. \A i \in DOMAIN unvisited' :
             /\ BBbackup'[unvisited'[i].block] # None
             /\ Follows(BBbackup'[unvisited'[i].block], entry'[unvisited'[i].block], computed')
      <3> TAKE i \in DOMAIN unvisited'
      <3>1. CASE i \in 1 .. n
        BY <2>1, <3>1
      <3>2. CASE i = n + 1 \/ i = n + 2
        BY <1>3, <1>8, <2>2, <3>2
      <3>3. QED
        BY <1>3, <3>1, <3>2
    <2>4. QED
      BY <2>3 DEF QueuedFollow, Follows
  <1>12. LiveFollows'
    BY <1>7 DEF LiveFollows
  <1>13. OnOwnPath'
    BY <1>6, <1>8 DEF SideInv, OnOwnPath
  <1>14. ConditionsSplitOnce'
    <2>1. OthersAsBefore({t, f}) /\ blocks'[cur].term.cond = cond
      BY <1>7, OthersAfterTwo
    <2>2. live.assumptions = cpu.taken /\ cpu.taken = entry[cur].taken
      BY DEF SideInv, LiveFollows, Follows
    <2>3. QED
      BY <1>6, <2>1, <2>2, SplitsStayOnce
  <1>15. (cur \in Created)'
    BY <1>1, <1>6, <1>7
  <1>16. QED
    BY <1>9, <1>10, <1>11, <1>12, <1>13, <1>14, <1>15 DEF SideInv

\* The block that is taken starts from its own state, and nothing from another path
\* is left.
LEMMA PopBlockSides ==
    ASSUME TypeOK, SideInv, PopBlock
    PROVE  SideInv'
  <1> DEFINE n == Len(unvisited)
             b == unvisited[n].block
  <1>1. /\ unvisited # <<>> /\ unvisited' = TakeUnvisited.rest
        /\ UNCHANGED <<nblocks, BBbackup, entry, computed>>
        /\ TakeUnvisited.info = unvisited[n]
        /\ ~aborted
    BY DEF PopBlock, TakeUnvisited
  <1>2. /\ n \in Nat /\ n \in DOMAIN unvisited /\ DOMAIN unvisited = 1 .. n
        /\ DOMAIN unvisited' = 1 .. n - 1
        /\ \A i \in 1 .. n - 1 : unvisited'[i] = unvisited[i]
        /\ b \in Blocks
    BY <1>1, TakeFacts
  <1>3. \A i \in 1 .. n - 1 :
           /\ unvisited[i].block \in Created
           /\ BBbackup[unvisited[i].block] # None
           /\ Follows(BBbackup[unvisited[i].block], entry[unvisited[i].block], computed)
    BY <1>2 DEF SideInv, QueuedFollow, QueueIsCreated
  <1>4. QueueIsCreated' /\ NoEarlyBackup' /\ OnOwnPath'
    BY <1>1, <1>2, <1>3 DEF SideInv, QueueIsCreated, NoEarlyBackup, OnOwnPath, Created
  <1>5. QueuedFollow'
    BY <1>1, <1>2, <1>3 DEF QueuedFollow, Follows
  <1>6. b \in Created /\ Follows(LoadBackup(b), entry[b], computed) /\ b \in entry[b].path
    BY <1>1, <1>2 DEF LoadBackup, SideInv, QueuedFollow, QueueIsCreated, OnOwnPath
  <1>7. \/ UNCHANGED <<filter, run, finished, cur, blocks, live, usedPointer, cpu>>
        \/ StartBlock(b)
    BY <1>1 DEF PopBlock
  <1>8. LiveFollows' /\ (cur \in Created)'
    <2>1. CASE UNCHANGED <<filter, run, finished, cur, blocks, live, usedPointer, cpu>>
      <3>1. ~Lifting' /\ cur \in Created'
        BY <1>1, <2>1 DEF PopBlock, Lifting, SideInv, Created
      <3>2. QED
        BY <2>1, <3>1 DEF LiveFollows
    <2>2. CASE StartBlock(b)
      BY <1>1, <1>6, <2>2 DEF StartBlock, LiveFollows, Follows, Created
    <2>3. QED
      BY <1>7, <2>1, <2>2
  <1>9. ConditionsSplitOnce'
    <2>1. \A x \in Blocks : blocks'[x].term = blocks[x].term
      <3>1. CASE blocks' = [blocks EXCEPT ![b].lifted = TRUE]
        BY <3>1 DEF TypeOK, BlockRecords
      <3>2. QED
        BY <1>7, <3>1 DEF StartBlock
    <2>2. QED
      BY <1>1, <2>1, FreshBlocks DEF SideInv, ConditionsSplitOnce, Created
  <1>10. QED
    BY <1>4, <1>5, <1>8, <1>9 DEF SideInv

\* Lifting any instruction keeps the sides apart.
LEMMA LiftSides ==
    ASSUME TypeOK, SideInv, Lift
    PROVE  SideInv'
  <1>1. Lifting /\ Follows(live, cpu, computed) /\ cur \in cpu.path
    <2>1. Lifting
      BY DEF Lift, Is, LiftCompute, LiftCompare, LiftPush, LiftPop, LiftPopfq,
             LiftSetRsp, LiftLeave, LiftJmp, LiftJmpRegister, LiftJcc, LiftCall,
             LiftCallRegister, LiftCallOutlined, LiftRetReal, LiftRetRop, LiftStop
    <2>2. QED
      BY <2>1 DEF SideInv, LiveFollows
  <1>2. CASE Abort
    <2>1. ~Lifting'
      BY <1>2 DEF Abort, Lifting
    <2>2. QED
      BY <1>1, <1>2, <2>1, SameSides DEF Abort, graph, caches
  <1>3. CASE EndPath
    <2>1. ~Lifting'
      BY <1>3 DEF EndPath, Lifting
    <2>2. \A b \in Created : /\ b # cur => blocks'[b].term = blocks[b].term
                             /\ b = cur => blocks'[b].term.kind = "ret"
      BY <1>3, FreshBlocks DEF EndPath, TypeOK, BlockRecords, Ret, NoTerm
    <2>3. QED
      BY <1>1, <1>3, <2>1, <2>2, SameSides DEF EndPath, caches
  <1>5. ASSUME NEW s \in BackupPoint, NEW c \in CpuState, Onward(s, c), Along(s, c)
        PROVE  SideInv'
    <2>1. CASE Straight(s, c)
      <3>1. UNCHANGED <<unvisited, BBbackup, cur, nblocks, entry, blocks>>
        BY <2>1 DEF Straight, control, graph
      <3>2. /\ Follows(live', cpu', computed') /\ computed \subseteq computed'
            /\ cpu'.taken = cpu.taken /\ cpu'.path = cpu.path
        BY <1>5, <2>1 DEF Straight, Along
      <3>3. QED
        BY <1>1, <3>1, <3>2, SameSides
    <2>2. CASE LeaveUnsolved(s, c)
      <3>1. ~Lifting'
        BY <2>2 DEF LeaveUnsolved, Lifting
      <3>2. QED
        BY <1>1, <2>2, <3>1, SameSides DEF LeaveUnsolved, graph, caches
    <2>3. QED
      BY <1>1, <1>5, <2>1, <2>2, BranchToSides, SplitOnSides DEF Onward
  <1>6. QED
    BY <1>1, <1>2, <1>3, <1>5, LiftAlong

\* Queued and current blocks follow their own paths, whatever was lifted in between:
\* no condition and no value of the one side of a branch is seen on the other.
THEOREM SidesAreApart == Spec => []SideInv
  <1>1. Init => SideInv
    <2> SUFFICES ASSUME Init PROVE SideInv
      OBVIOUS
    <2>1. DOMAIN unvisited = {1} /\ unvisited[1].block = 1 /\ Len(unvisited) = 1
      BY DEF Init
    <2>2. Created = {1} /\ 1 \in Blocks /\ cur = 1
      BY ConstantsAssumption DEF Init, Created, Blocks
    <2>3. Follows(InitLive, InitCpu, {}) /\ 1 \in InitCpu.path
      BY ConstantsAssumption DEF Follows, InitLive, InitCpu, NoAssumption
    <2>4. /\ live = InitLive /\ entry[1] = InitCpu /\ ~Lifting /\ computed = {}
          /\ \A x \in Blocks : BBbackup[x] = None
          /\ blocks[1].term.kind = "none"
      BY <2>2 DEF Init, Lifting, InitBlock, NoTerm
    <2>5. QED
      BY <2>1, <2>2, <2>3, <2>4
      DEF SideInv, QueueIsCreated, NoEarlyBackup, QueuedFollow, LiveFollows, OnOwnPath,
          ConditionsSplitOnce
  <1>2. TypeOK /\ SideInv /\ [Next]_vars => SideInv'
    <2> SUFFICES ASSUME TypeOK, SideInv, [Next]_vars PROVE SideInv'
      OBVIOUS
    <2>1. CASE PopBlock
      BY <2>1, PopBlockSides
    <2>2. CASE Lift
      BY <2>2, LiftSides
    <2>3. CASE UNCHANGED vars
      BY <2>3 DEF vars, SideInv, QueueIsCreated, NoEarlyBackup, QueuedFollow, LiveFollows,
                  OnOwnPath, ConditionsSplitOnce, Lifting, Follows, Created
    <2>4. QED
      BY <2>1, <2>2, <2>3 DEF Next
  <1>3. QED
    BY <1>1, <1>2, TypeCorrect, PTL DEF Spec

\* No path is split on the same condition twice: the second test of a flag is folded
\* to the side the path took at the first.
THEOREM SplitOnceOnAPath == Spec => []ConditionsSplitOnce
  <1>1. SideInv => ConditionsSplitOnce
    BY DEF SideInv
  <1>2. QED
    BY <1>1, SidesAreApart, PTL

\* The lifter never uses a value, from a register or from the instruction cache, that
\* was computed on another path: its definition dominates its use.
THEOREM ValuesStayOnTheirPath == Spec => []ValuesAreOnPath
  <1>1. SideInv => ValuesAreOnPath
    BY DEF SideInv, LiveFollows, Follows, ValuesAreOnPath
  <1>2. QED
    BY <1>1, SidesAreApart, PTL
=============================================================================
