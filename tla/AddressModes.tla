---------------------------- MODULE AddressModes ----------------------------
(***************************************************************************)
(* What the memory policy promises: every address has an access mode, the  *)
(* one of the last range added over it, or the default mode if there is    *)
(* none.  MemoryPolicy implements it with a sorted set of ranges.          *)
(***************************************************************************)
EXTENDS Naturals

CONSTANTS MaxAddr, Modes, Unset

VARIABLES
    explicit,       \* address -> the mode of the last range over it, or Unset
    default         \* the mode of the other addresses

Addresses == 0 .. MaxAddr

ModeOf(a) == IF explicit[a] = Unset THEN default ELSE explicit[a]

SetDefault ==
    /\ default' \in Modes
    /\ UNCHANGED explicit

Add(start, end, mode) ==
    /\ explicit' = [a \in Addresses |-> IF start <= a /\ a <= end THEN mode
                                       ELSE explicit[a]]
    /\ UNCHANGED default

Init == explicit = [a \in Addresses |-> Unset] /\ default \in Modes

Next == \/ SetDefault
        \/ \E start, end \in Addresses, mode \in Modes : Add(start, end, mode)

Spec == Init /\ [][Next]_<<explicit, default>>
=============================================================================
