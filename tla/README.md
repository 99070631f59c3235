# Formal model of the Mergen lifter

Mergen lifts a function of an x86-64 PE file to LLVM IR: it executes the function
symbolically, follows every path it can, and lets LLVM simplify what comes out.
This directory holds TLA+ models of the parts of the lifter where it can go wrong
without crashing, the TLC configurations that check them on small instances, and
proofs, checked by TLAPS, that hold for every instance. Paths below are relative to
`src/lifter/` of the repository.

## 1. The system

The lifter is one thread in one process and persists nothing, so there are no races
and no crash recovery. What makes it hard is that one mutable state (registers,
flags, tracked memory, caches) is shared by all paths and is saved and restored
between them, and that what it knows of memory is kept in parts, by several rules.

| component | state | operations | talks to |
|---|---|---|---|
| path explorer (`lifter.cpp`, `lifterClass.hpp`, `lifterClass_concolic.hpp`, `PathSolver.ipp`) | worklist `unvisitedBlocks`, `run`, `finished`, `blockInfo`, `BBbackup`, IR blocks, dominator tree | pop a block, restore its backup, lift until the block ends; `solvePath`; back up both sides of a branch | instructions call `solvePath`; LLVM's dominator tree |
| control-flow and stack instructions (`Semantics.ipp`) | RSP, the tracked stack, `GEPcache` | push, pop, call, ret, jmp, jcc, leave | explorer, memory tracker, signatures, inline policy |
| memory policy (`MemoryPolicy.hpp`) | sorted set of ranges, default mode | `addRange`, `getAccessMode`, `isRangeFullyCovered` | filled from the PE sections, read by the tracker |
| memory tracker (`GEPTracker.ipp`) | `buffer`: address to byte of a value | `insertMemoryOp` for stores, `solveLoad` for loads, `createMemcpy` | policy, file reader; is part of the backup |
| possible values, known bits (`GEPTracker.ipp`, `OperandUtils.ipp`) | assumptions, value cache | `computePossibleValues`, `analyzeValueKnownBits` | used by `solvePath` and by loads |
| IR folders (`OperandUtils.ipp`) | `InstructionCache`, `GEPcache` | `getOrCreate`, `create*Folder` | used by everything; needs dominance |
| data instructions (`Semantics.ipp`) | none of their own | a handler per mnemonic: read operands, compute, write, set flags | registers and flags, folders, tracker |
| page map (`lifterClass.hpp`) | `pageMap` | `markMemPaged`, `isMemPaged`, `isValuePaged` | filled from PE headers, read by loads |
| registers and flags (`RegisterManager.hpp`, `OperandUtils.ipp`) | `vec`, `vecflag` | sub-register reads and writes, `setFlag`, `getFlag` | data instructions |
| PE reader (`fileReader.hpp`, `lifter.cpp`) | sections, sorted by address | RVA to file offset and back, `readMemory` | policy, tracker, signatures |
| function signatures (`FunctionSignatures.hpp`) | Aho-Corasick trie, table of offsets | build, search, look up an address | PE reader, explorer |
| inline policy (`InlinePolicy.hpp`) | ranges, default mode | inline or outline a call | call |
| optimisation passes (`CustomPasses.hpp`) | the finished IR | `run_opts` until nothing changes | after the lifting |

Behaviours that are hard to test: coming back to the second side of a branch after
any number of other paths; values cached on one path and used on another; jump
targets folded away by assumptions; the stack seen by a `ret` that is used as a jump;
stores that overwrite part of an older value; loads over bytes of different origin;
range edges and 64-bit wrap-around; what is unknown (RSP, a store's address); the
flags at the counts and signs where their rules change; patterns that replace a value
by one that is nearly the same; files whose parts touch or lie in another order.
`PROJECT.json` lists them at their lines under `hazards`.

## 2. Modules

| module | models | role |
|---|---|---|
| `PathExploration` | worklist, backups, `solvePath`, stack and control-flow instructions | state machine |
| `PathExplorationMC` | | constants of its runs |
| `PathProofs` | | type correctness; worklist, backups, blocks and edges; the processor's way, sides kept apart |
| `AddressModes` | what the policy promises: one mode per address | abstract specification |
| `MemoryPolicy` | `MemoryPolicyDynamic` | state machine, implements `AddressModes` |
| `MemoryPolicyProofs` | | disjointness, refinement, soundness of queries |
| `MemoryTracker` | stores, loads, copies and the byte buffer | state machine |
| `MemoryTrackerProofs` | | tracked bytes are memory, loads are right |
| `Image` | sections, RVA and offsets, pages; extends `MemoryPolicy` | state machine of the start |
| `Signatures`, `SignaturesMC` | automaton, search, table; extends `Image` | state machine, composed with the start |
| `SignatureProofs` | | links are the longest, the search finds every signature; the policy is the file's; believed bytes, pages and functions are found |
| `Bits` | integers of a width, as sets of positions | operators |
| `Processor` | registers, flags and operations of x86-64 | reference definition |
| `Semantics` | what each handler computes | operators |
| `DataInstructions` | an action per group of handlers, beside the processor | state machine |
| `ValueProofs` | | values as numbers: what the operators of `Bits` compute, for every width |
| `HandlerProofs` | | each handler of `Semantics` computes what `Processor` defines |
| `DataInstructionProofs` | | registers, conditions, and each action of `DataInstructions` |
| `Folders`, `FoldersMC` | folders, known bits, possible values | one call per behaviour, against evaluation |
| `FolderProofs` | | folds keep values, known bits hold, possible values are complete |

### PathExploration

One step is one lifted instruction, or one iteration of `asm_to_zydis_to_lift`
(`PopBlock`). The program is arbitrary: at each step any class of `Instrs` may come
next. Straight-line instructions fall in three classes that matter to the properties:
`compute` defines a value or finds it in the instruction cache, `compare` makes a
flag a condition, `set_rsp` moves RSP. All control-flow and stack instructions have
an action each, down to the operand forms the code treats differently
(`jmp`/`jmp_register`, `call`/`call_register`/`call_outlined`). A value is kept
where the code branches on it: addresses, RSP in slots, a condition assumed true or
false. Everything else is `Unknown`.

| variables | code |
|---|---|
| `unvisited`, `filter`, `run`, `finished`, `blockInfo` | the same names in `lifterClass.hpp:318-321, 520` and `lifter.cpp:46` |
| `live` | `vec`, `vecflag`, `buffer`, `cache`, `assumptions`: what `backup_point` holds |
| `BBbackup`, `GEPcache` | `lifterClass_concolic.hpp:171`, `lifterClass.hpp:517` |
| `cur`, `nblocks`, `blocks` | insertion point, blocks, dominator-tree parent and terminator of each |
| `aborted` | an `UNREACHABLE` |
| `cpu`, `entry`, `usedPointer` | history: what the processor would hold on this path, at the entry of each block, and which pointer was used |

The tracked stack is the slots from `-StackBelow` to `StackAbove` around `STACKP_VALUE`,
each with the value last stored or nothing. It is registered as concrete memory
(`lifter.cpp:98`), so a load of a slot nothing was stored to is answered from the file
(`GEPTracker.ipp:114-150`; `readMemory` never fails): `FileWord` is that answer, any
address for each slot. The processor finds the caller's word there, which the lifter
cannot know; from then on the path is `astray` and the processor's registers follow the
lifter's, so that the properties can tell these paths from the others. A load is
emitted only for an RSP that is not a constant. `PopStack` then goes through the pointer
`GEPcache` has for this RSP; the one such RSP that is the same key on two paths is an
argument of the lifted function, `EntryRbp`, the value RBP starts with.

The processor is the reference: it takes the side of each branch that the lifter
follows and executes the same instruction from its own state, so a difference between
`live` and `cpu` is an error of the lifter. Only the Unflatten control flow is modelled, the
only one `lifterConcolic` has (`getControlFlow`), in which every jump makes a new block.

### MemoryPolicy and AddressModes

`range` is the `std::set`, ordered by start; `addRange_impl` and
`setDefaultMode_impl` are one step each. `isRangeFullyCovered_impl` is a loop, and
takes one step per iteration (`ScanGap`, `ScanRange`, `ScanEnd`), with `cursor`
modulo `MaxAddr + 1`, the 64-bit wrap-around. `AddressModes` knows an optional mode
per address; the refinement reads it through the predecessor lookup of the code.

### MemoryTracker

`buffer` maps an address to a reference to a byte of a value, a null reference, or
nothing. `Groups` and `Combined` are `retrieveCombinedValue`, `AfterRetrieve` its
side effect (looking at the next byte adds a null reference). A store goes to a
constant address, to a select with at least one constant arm, or elsewhere. A byte's content is
named by the store that wrote it. The memory of the running program is a history
variable, and so is `known`: no store at an unknown address so far, and no select
store over bytes the tracker did not hold. `Copy` is `createMemcpy`: it writes no IR, so
`missed` records which bytes of the program's memory the emitted stores do not have.
The mode of each address is fixed, as it
is in the lifter after start-up. The policy's early exit may miss (section 5), so a
symbolic load may take either branch. The value of a select is the arm the condition
chooses when the program runs.

### Image and Signatures

These are the start of the lifter, from `loadFile` to `createOffsetMap`, as one state
machine: a step adds a section's range to the policy (`AddSection` uses the `Put` of
`MemoryPolicy`, so the two are composed), adds the stack's, marks the pages, builds the
links of one node of the trie (`BuildStep`), or reads one byte of the file
(`SearchStep`). After that `ReadMemory` reads any address. A file is a set of sections
and a sequence of bytes; a node of the trie is the path that leads to it, which is what
its number stands for. `SetToSeq` stands for the order of the children in the map,
which nothing depends on.

### Bits, Processor, Semantics and DataInstructions

A value is the set of its one bits, and a byte has `ByteBits` of them, so that an
instance may be small; the constants of the code that are about bytes (0xF, 0x1F, the
multipliers of the parity) scale with it. `Semantics` has one operator per handler,
with the names and the intermediate values of the code: what the folders compute when
operands are constants. `Processor` defines the same instructions by numbers, rounds of
one bit and ranks of positions, after the processor's manual. `DataInstructions` holds
the lifter's registers and flags beside the processor's and carries out the same
instruction on both, with the operand forms and the order of writes of the code. What
the manual leaves undefined is resolved to what the lifter has. `WrongResult` and
`WrongFlags` name the instructions and flags that are not the processor's; the
properties hold of everything else:

- results of `bsf`, `tzcnt` (their loops go on past the lowest bit), `lzcnt` (a position,
  not a count), `bzhi`, `bextr` (read one operand of two), `xadd` of a register with
  itself, `lea` with 32-bit addresses (not cut), `cmpxchg` (writes both operands);
- flags of `sar`, `shld`, `shrd` by zero, of rotations by whole turns, of `cmpxchg`,
  `lzcnt`, `tzcnt`, `blsi`, `blsr`, `blsmsk`, `bzhi`, `bextr`.

### Folders

A value is a term (`Constant`, `Leaf` for the unknown values, `Term` for an operation),
and a behaviour is one call of a folder on `Operands`, a set of terms that has the
operands of each of its terms, so what earlier calls made. `folderBinOps`,
`createSelectFolder`, `createICMPFolder`, the casts, `doPatternMatching`, `getOrCreate`
with its selects, `analyzeValueKnownBits` and `computePossibleValues` are operators with
the order of tests of the code. A term has
with it what the code would work out of its operands again and again: the known bits and
the possible values. The reference is in it too: `eval`, what it is for each choice of the
unknown values. A division by zero and a shift past the width have no value (`Poison`), nor
has what is computed from them, and a fold may make of them what it likes, as LLVM has
it. `WrongFold` names four patterns that change a value (see section 5 for one of them).
Folding of constants is LLVM's, and is external.

Two things about the operands are assumed. `FolderAssumption`: they are terms of the
right widths, and finite. `ArmsFit`: no cast of a select has the width and the condition
of another select. `getOrCreate` looks for a select under a cast and takes its arms without
the cast (`OperandUtils.ipp:436-494`), so such a pair would give an operation on two
widths, which LLVM does not have. A cast moves into the arms of a select, so casts of
selects are rare: they stay where an arm is a select itself, and the run has one.

## 3. Runs

| run | checks | shows |
|---|---|---|
| `PathBranches` | `TypeOK`, `ValuesAreOnPath`, `ConditionsSplitOnce`, `EachBlockOnce`, `EveryBlockIsLifted`, `DomTreeFollowsCfg`, `BackupInv`, `TerminatedOnce` | nested branches: each path gets its own state back, uses only its own values, never asks a condition twice; each block is lifted once, to one terminator |
| `PathStack` | `LiveMatchesPath`, `BlocksAreWhereTheCpuGoes` | calls, returns used as jumps, and branches between them: same stack, and the same way as the processor until a word is read that the path did not store |
| `PathLimits` | `QueueInv` | wide jumps that abort, unsolved jumps, stops, arbitrary RSP: the worklist stays in order |
| `PolicyRanges` | `TypeOK`, `ScanIsSound`, `NoIsRight`, `ImplementsAddressModes`, `QueriesAreAnswered` | ranges over ranges implement modes of addresses; queries are sound and end |
| `TrackerLoads` | `TypeOK`, `BufferIsMemory`, `LoadsAreRight`, `SymbolicLoadsAreReal` | overlapping stores, also through selects, copies, and loads across values and modes |
| `DataFolds` | `TypeOK`, `RegistersAreRight`, `FlagsAreRight`, `JumpsAreRight`, `ComparisonsDecideBranches` | each instruction at each operand size leaves the processor's registers and flags; after a comparison the three kinds of conditional instructions say what their names say |
| `FoldedValues` | `TypeOK`, `FoldsKeepValues`, `PossibleValuesAreComplete` | every folder on every pair of values keeps the value; the targets enumerated are all there are, unless an argument, a sext or a trunc was gone through |
| `SignatureSearch` | `PolicyFollowsSections`, `ConcreteBytesAreFound`, `PagesAreFound`, `SearchTypeOK`, `LinksAreLongest`, `SearchIsExact`, `FlatFunctionsAreFound` | files of two sections in every layout: policy, reader and pages agree with the sections; every occurrence of a signature is found once |
| `PathUnstored`, `PathLeave`, `TrackerGap`, `FoldOr` | one property each, violated | section 5 |

Every property of the first eight has a mutant in `PROJECT.json`: a definition changed
the way a slip in that code would change it, which breaks the property.

Bounds. `MaxBlocks` bounds the blocks: five hold a branch with a branch on both its sides'
paths, the least in which another path is explored between a backup and its use; four
hold a branch with a call or a return on each side. `StackBelow` and `StackAbove` bound
the stack on both sides of the entry's RSP: one below holds a call, two above hold a pop
and a return through the caller's words. Two addresses tell two sides of a branch apart and three make a
jump too wide. Two conditions are needed for nested branches, and are symmetric. In
the policy, four addresses hold a range with a neighbour and a gap on both sides; in
the tracker, three addresses and four stored values hold a value whose middle or ends
are overwritten, and a select store (which uses three) over an older value.
After a store the tracker was not told of only loads are followed (`Followed`), and a
second copy only when nothing of the first is left (`MaxMissed`).
`DataFolds` takes bytes of two bits, the least with a nibble (0xF scales to one bit),
so a register has 16; its registers start from four samples (zero, ones, and two mixed
patterns), its flags from three sets, and it carries out one instruction (`MaxSteps`):
longer sequences start from states that are of the same kind. Counts are given as
numbers, as a byte of two bits does not reach the masks, and cover zero, one, a whole
turn, the width and more than the masks. TLC's integers have 32 bits, so multiplication
and division stop at the double word. `FoldedValues` takes registers of three bits and
`EnumLimit` three, so that one, two and three unknown bits fall on both sides of it, and
about forty values: constants, unknown values, masks, inverses, cut, widened and
selected ones, and a select in an arm of another, cut. `SignatureSearch` has 16 addresses, an image of eight at four with an
RVA of three bits, so that the cut to 32 bits happens; sections touch, overlap in
nothing, are longer in memory or on disk, and lie in the file in either order; texts of
five bytes and signatures of up to three hold overlaps, prefixes and suffixes.
`CHECK_DEADLOCK` is off where the lifter ends: its worklist is empty, an `UNREACHABLE`
ends the program, or a bound is reached.

Fairness. Only `FairSpec` of `MemoryPolicy` has any: `WF_vars(ScanStep)`, since the
loop of `isRangeFullyCovered_impl` runs until it returns and nothing interrupts it. A
query that ends at UINT64_MAX is excluded: accepted up to the end it wraps its cursor
and starts again. The explorer has no liveness property because the code promises
none: in Unflatten mode each turn of a loop makes new blocks, and as the worklist is
a stack, the other side of a branch is never lifted when the first does not end.

## 4. Proofs

All theorems hold for all values of the constants; what they assume of these is in
the `ASSUME` of each module (the constants have the types their code gives them).

`TypeCorrect` (`Spec => []TypeOK`) is inductive as it stands. The actions are reduced
to a few shapes first (`LiftCases`): straight on, branch to one block, split in two,
end of the path, abort. Each later proof has a case for each shape
instead of one for each instruction. Backups are well typed because
`load_backup_impl` tests that there is one.

`WorklistIsInOrder` (`[]QueueInv`) and from it `BlocksLiftedOnce` (`[]EachBlockOnce`): queued
blocks exist, and blocks that do not exist yet are not lifted. Without it the new
block of a branch might be one that is queued already.

`QueuedStatesAreThePaths` (`[]BackupInv`) and `LiveStateIsThePaths` (`[]LiveMatchesPath`),
when no call is outlined, are the main result: whatever was lifted in between, a path goes on with its own registers, flags,
tracked stack and assumptions. `LiveMatchesPath` says nothing of queued blocks, so
`BackupInv` adds what they will be started from: a backup that agrees with the
block's entry or, for the newest block only and while nothing is lifted, the state in
the lifter itself. The second case is real: `solvePath` makes no backup for a jump
with one target, and it works only because the worklist is a stack. The hypothesis is needed:
a call that is not followed leaves its return address on the tracked stack.

`BlocksAreTheProcessors` (`[]BlocksAreWhereTheCpuGoes`, when calls are followed and their
targets are immediates) is inductive with the same invariant: the target a handler
computes is the one the processor computes from the same state (`SameTarget`), and the
sides of a branch get the address and the assumption of the same side. It excepts the blocks of
paths that are `astray`, which read a word from the stack they did not store:
`PathUnstored` shows that they may be lifted at another address than the processor's. `lift_call` adds
RIP to the target of a call through a register or memory too (`Semantics.ipp:656-679`),
so such calls are excluded.

`DomTreeIsTheCfg`, `TerminatorsAreFinal` and `NoBlockIsForgotten` share `GraphInv`: a block that
was not lifted has no terminator, and while a block is lifted it has none yet and is
the one `blockInfo` names, so a new edge starts at the block that gets the branch.
The ways a block ends are one shape (`EndsBlock`). `NoBlockIsForgotten`
(`[]EveryBlockIsLifted`) assumes no jump with three or more targets or none; it also
needs that `run` stays 1 only while something is lifted.

`PolicyTypeCorrect`, `PolicyImplementsModes`, `YesIsAlwaysRight`: disjointness of
the ranges is kept by `Put` (each part of an old range lies inside it and outside the
new one); with it, the predecessor of an address is the only range that can hold it,
so the lookup sees what `AddressModes` says. `ScanInv` adds how far the scan is: all
addresses below the cursor have the mode, unless the cursor wrapped around, and then
all of the query has been covered.

`SidesAreApart` (`[]SideInv`), `SplitOnceOnAPath` (`[]ConditionsSplitOnce`) and
`ValuesStayOnTheirPath` (`[]ValuesAreOnPath`) have no hypothesis on the program: where a
call is outlined the stack is wrong, but no value and no condition of the other side of
a branch is seen. `Follows` says when a state may stand for a point of a path: it
assumes what the path took, only of conditions that were computed, and holds no value
from elsewhere. The backups and the entries of queued blocks follow, and so does the state
in the lifter. Only conditions that were computed before have been assumed, so a new one
is split on for the first time, and an old one that was assumed is folded.

`NoIsAlwaysRight` (`[]NoIsRight`) adds `ScanIsUseful` to the invariant of the scan: the
cursor is in the query and in front of the end of the next range, or it wrapped around
in a last gap of the right mode. So what the scan stops at is an address of the query. The
conditions of `NoIsRight` are used where the first range is visited and where the cursor
goes on behind a range.

`TrackerInvariant` (`[]TrackerInv`), and from it `TrackerTypeOK` (`[]TypeOK`) and
`TrackedBytesAreMemory` (`[]BufferIsMemory`): a store moves both sides in step, a copy moves
reference and content from the same source, and reading adds only null references. A
store through a select reads both places first, so the invariant must say of every
reference which value and which byte it has (`BufferOK`). What a read makes of the bytes
depends on how they group, and the group of a byte is a recursive function of the one
before. The proofs of groups are by a least byte for which a claim fails
(`LeastNumber`, `ByteInduction`). `LoadsGiveMemory` (`[]LoadsAreRight`) and
`SymbolicLoadsGiveMemory` (`[]SymbolicLoadsAreReal`) follow from the invariant and what a group
is read from.

`PolicyIsOfTheFile` (`[]PolicyFollowsSections`): each range is one byte too long, but the
sections are added by address, so the next one takes that byte back; `LoadInv` therefore
says that what was added lies in front of what was not. It rests on `PutLookup` of
`MemoryPolicyProofs`, the effect of one range on the mode of an address.
`PagesAreAlwaysFound` (`[]PagesAreFound`): stack and image are marked once, each at its
start; they do not overlap, so the page that starts last before an address is the one
that can hold it. `BelievedBytesAreFound` (`[]ConcreteBytesAreFound`): in a section the section before
`upper_bound` is the one, because sections are apart; elsewhere the answer is zero. The
assumption `IsFile` is what the Windows loader accepts.

The proofs of the data instructions hold for every size of a byte of at least two
bits, so for the real eight. They come in four layers.

- `ValueProofs`: what `Bits` computes. `NatOf` is a sum over a set, written as a recursive
  function on its subsets: the library's sums take operators as parameters, which no rule
  here can instantiate. It exists for every finite set (`SumExists`), and adds one power at
  a time (`NatOfIsSum`, `NatOfStep`). Where an induction is needed, it is on a set of numbers that
  would have no least one (`NoneFails`). From there a value is its number modulo
  2^w (`BitsOfIsValue`, `BitsOfNatOf`, `OneTurn`), a cut is a remainder, and the top bit is the
  upper half (`SignedIs`).
- `HandlerProofs`: each handler against the manual. The code finds flags in roundabout
  ways, and these are the theorems: the auxiliary carry as bit 4 of three values exclusive-ored
  (`AuxiliaryOfSum`), overflow as the top bit of a mask (`SumIs`, `DifferenceIs`) or as a
  sum of two signs (`SbbOverflow`), parity by a product, a mask and a remainder
  (`ParityAgrees`: powers of 2^9 leave 1 modulo 2^9 - 1, so the spread bits are counted), signed
  overflow of a product by a widened copy (`ImulIsRight`), the loops of `pext` and `pdep`
  by the rank of a bit in the mask (`ExtractIs`, `DepositIs`).
  Its last part is about shifts: the manual shifts and rotates one place at a time, the code by the whole
  count. What n rounds leave is given in closed form for each of the seven (`ShlRounds` to
  `RcrRounds`; the carry is a place of its own for `rcl` and `rcr`) and the code is compared
  with that, for counts of 0, of 1, of whole turns and past the width (`ShiftAgrees`).
- `DataInstructionProofs`: parts of registers (`ReadsAgree`, `WritesAgree`,
  `ReadAfterWrite`), the sixteen conditions (`ConditionsAgree`), the order of two writes to
  one register (`WritesCommute`), and then one lemma for each action of `Next`. All have the
  shape `StepRight`: types are kept, and if lifter and processor were together before
  the step (`Together`), registers and flags are right after it.

`ValuesFit` (`[]TypeOK`) is inductive with these. `StepsAreRight` says of every step what the
run shows of the first: from a common state the next instruction leaves the
same registers and flags, but for `WrongResult` and `WrongFlags`. `RegistersAreRight` is not
invariant over longer sequences, because a listed instruction takes the two apart and what
follows starts from different states; so `OneInstructionIsRight` and `FlagsAreRightAtOnce`
state the invariants for the first instruction (the run has `MaxSteps` 1, but the start is any), and
`RightStepsStayTogether` is what they mean for programs: as long as no listed instruction or
flag occurs, the two stay together for any number of steps.

`ComparisonsAlwaysDecide` (`[]ComparisonsDecideBranches`) needs no common state: the
invariant is `LastCompared`, that after `cmp` or `sub` the flags of the lifter order the operands
it read. It rests on `SubCompares`: sign and overflow of a difference differ exactly when
it is negative without the wrap. `JumpsAreAlwaysRight` (`[]JumpsAreRight`) follows from
`ConditionsAgree`, as a jump changes no flag.

`AutomatonInvariant` (`[]AutomatonInv`), for every file and every set of signatures. A link is
read while those of other nodes are not set yet, so `LinksAreLongest` alone is not inductive.
`BuildInv` adds the order of the queue (`QueueOK`): queued nodes differ in length by one at
most, and a node without a link is below a queued one, so all nodes not longer than the
next in the queue have theirs (`ShortNodes`). Then a walk along the links visits the nodes that
end its start, the longest first (`FollowLinksFinds`; the walk is a recursive function, and
`LinkInduction` takes a shortest node for which a claim fails), and the link of a child is the
one found for its parent with one byte more (`LinkOfIsLink`). `SearchInv` says that the search
is at the longest node that ends what it has read and has each signature in it once. From it follow `LinksAreAlwaysLongest`
(`[]LinksAreLongest`), `SearchIsAlwaysExact` (`[]SearchIsExact`), `SearchAlwaysTypeOK`
(`[]SearchTypeOK`) and, with `LoadInv`, `FlatFunctionsAreAlwaysFound` (`[]FlatFunctionsAreFound`). The
last asks that sections share no bytes of the file (`RawApart`): where one lies inside another
in the file, an offset of the outer one may be taken for one behind the inner one.

The folders (`FolderProofs`) hold for every width, every limit of the enumeration and
operands of any size. `FoldersTypeCorrect` (`[]TypeOK`), `FoldingKeepsValues`
(`[]FoldsKeepValues`) and `PossibleValuesComplete` (`[]PossibleValuesAreComplete`) follow from
one invariant, `BuiltRight`: what was built is of the width that was asked for, has the
value that was asked for unless `WrongFold`, and is *built from terms all the way down*
(`Good`: in a set of terms that has the operands of each). `TypeOK` speaks of the first
term only, and says nothing of what is known of it.

- `Sound`: each value of a term fits its known bits, and is among its possible values
  if it is `enumerable`: if what `computePossibleValues` looked at to get them was no argument, sext
  or trunc. What it enumerates by the bits that are known is right whatever they are of, so
  `x & 4` has its two values also when x is an argument. The exception is real: an
  argument has no values for `computePossibleValues`, so of a select of an argument and a constant it finds
  only the constant, and a sext or a trunc has the values of its operand (`GEPTracker.ipp:617-648`). It holds of constants and leaves, and of a term if it holds
  of its operands (`CastIsSound`, `SelectIsSound`, `BinaryIsSound`, on `KnownBinaryIs` for the bits
  of each operation), so of everything built from terms: a smallest one without it would
  have operands with it (`GoodIsSound`).
- `Replaces(r, t)`: r is built from terms, has the width of t, and its value where t has one.
  It goes on from fold to fold (`ReplacesTwice`) and under operations and selects
  (`AskedReplaced`, `ChosenReplaced`). Every function of the code has a lemma that what it
  returns replaces what it was asked for: `TrivialKeeps`, `KnownResultKeeps`,
  `AndPatternKeeps`, `XorPatternKeeps`, `AddPatternKeeps`, `CreateInstructionKeeps`,
  `SelectFolderKeeps`, `ICMPFolderKeeps`, `CastFolderKeeps`.
- An operation moves into the arms of two selects only when both are there, not under
  casts. That needs `ArmsFit` also of values made on the way, so `Plain` says of each that its
  condition is one of the operands' selects, or not, if it is a cast.
- `~(A | B)` is folded by De Morgan, and the inverses of A and B in the same way, to any
  depth. `Complement` is a recursive function, which TLA+ defines as any function that
  satisfies its equation; that there is one is proved by the size of the operands
  (`ComplementsExist`, `ComplementsAgree`, `ComplementIs`). That it replaces the inverse
  (`ComplementKeeps`) is shown of a smallest operand where it would not.

Only model-checked: `QueriesAreAnswered`, which is out of the prover's reach (liveness under
fairness). Every safety invariant of the passing runs is a theorem.

## 5. Where code and comments part

Each run below finds a behaviour of the code that contradicts a comment of it, quoted
in `PROJECT.json`. Each also shows why a property above has a hypothesis.

- `PathUnstored`: a pop or a return of a stack word that nothing on the path stored is
  answered from the file, so the lifter goes on at an address made of its bytes.
- `PathLeave`: `GEPcache` is in no backup, so after a branch `popStack` loads through a pointer
  of the other side, when RSP is an argument of the lifted function: after `leave`
  while RBP is what it was at the entry. At a constant RSP no load uses the pointer.
- `TrackerGap`: tracked bytes after an untracked one are read from the file.
- `FoldOr`: the pattern for `(~A & B) | (A & C)` (`OperandUtils.ipp:172-193`) matches any
  two masks, as the second match binds `A` again, and tests `A` for zero only.

The deviations named by `WrongResult`, `WrongFlags`, `WrongFold`, `enumerable` and by the hypotheses of
the path properties contradict the processor or LLVM, not a comment.

## 6. Not modelled

The disassembler front ends and tables (no state), the iced binding and Zydis (third
party, by far the largest files of the repository), `lifterClass_symbolic.hpp` (never
instantiated), the test driver, printing, timers and build files. The inline policy
gives its default for every address, as nothing adds a range to it, so
`PathExploration` takes both answers. `CustomPasses.hpp` rewrites finished IR by LLVM's
pass manager: what is right there is LLVM's semantics of loads and stores. The Basic
control-flow mode of the worklist is never chosen, and the mode that is makes new
blocks for every turn of a loop, so there is no termination to state.

Left out of components that are modelled in part:

- `movs`, `stos`: their pointers are wrong every time (`Semantics.ipp:374-375` crosses RSI
  and RDI; with a prefix both move by one element and RCX stays), so only the bytes
  `createMemcpy` moves are modelled; copies downwards and overlapping elements of more
  than one byte are not.
- `lahf`, `sahf`, `pushfq`, `cpuid`, `rdtsc`, memory operands of data instructions, and
  the shifts and multiplications that leave flags alone, whose results are those of
  their counterparts. A flag given as a closure is a value here, as `setFlag` calls the
  closure at once (`OperandUtils.ipp:1502`).
- `isValuePaged`: its callers ignore its answer.
- The 32-bit `x86FileReader`: only its offset is printed.
- Loads with more than two possible addresses, and reads across a section's edge.
- The call of a function known by its signature (`Semantics.ipp:4404-4425`): the table is
  keyed by RVA and looked up by `current_address`, which is already that of the next
  instruction (`lifterClass.hpp:380`), so nothing is found and the instruction is lifted
  like any other. The handler would not queue the block it creates.
- What an LLVM with assertions stops at, where one without goes on: `lift_mul2` compares an
  i8 with a zero of 16 bits (`Semantics.ipp:2282`), `lift_div` and `lift_idiv` make a constant of a
  width from a wider `APInt` (2559, 2647), and the pattern for an add compares a
  constant of any width with one of 64 bits (`OperandUtils.ipp:141`). The models follow a
  build without assertions, in which the pattern matches 64-bit constants only.
- LLVM's dominance is taken as it is documented, and a tracked value has no arithmetic.
  A store through an RSP that is not constant leaves the tracked stack alone, on both
  sides of the comparison with the processor; what such a store does to tracked
  memory is `StoreUnknown` of `MemoryTracker`.

What would come next: memory operands by composing `DataInstructions` with
`MemoryTracker`.
