------------------------- MODULE PathExplorationMC -------------------------
(***************************************************************************)
(* Values of the constants of PathExploration for model checking.  Each    *)
(* set of instruction classes is chosen so that one run answers one        *)
(* question with as few states as possible.                                *)
(***************************************************************************)
EXTENDS PathExploration, TLC

\* Branches, on the flag and on values computed on either side of them.
BranchInstrs == {"compute", "compare", "jmp_register", "jcc", "stop"}

\* Branches with different stacks on their sides, and returns used as jumps.
StackInstrs == {"compare", "pop", "popfq", "jcc", "call", "ret"}

\* Everything else a block can end with, or that moves RSP.
LimitInstrs == {"push", "set_rsp", "leave", "jmp", "jmp_register", "jmp_wide",
                "call_register", "call_outlined"}

\* The programs that show where code and comments part.
UnstoredInstrs == {"pop", "ret"}
LeaveInstrs == {"compare", "jcc", "leave", "stop"}

\* The file answers the same bytes for every address outside its sections.
HeaderWord == [slot \in Slots |-> 2]

CondSymmetry == Permutations(Conds)
=============================================================================
