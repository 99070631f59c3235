---------------------------- MODULE MemoryPolicy ----------------------------
(***************************************************************************)
(* MemoryPolicyDynamic: which addresses the lifter may read from the file  *)
(* (CONCRETE) and which hold unknown values (SYMBOLIC).  Ranges are kept   *)
(* in a std::set ordered by their start; the ordering is all that lookups  *)
(* and insertions rely on, so each looks only at the neighbours of an      *)
(* address.                                                                *)
(*                                                                         *)
(* addRange and setDefaultMode are one step each.  isRangeFullyCovered is  *)
(* a loop whose cursor is a uint64_t, here modulo MaxAddr + 1, so it takes *)
(* one step for each iteration.                                            *)
(***************************************************************************)
EXTENDS Integers

CONSTANT MaxAddr        \* UINT64_MAX

ASSUME MaxAddrAssumption == MaxAddr \in Nat

VARIABLES
    range,          \* the std::set
    defaultMode,
    query,          \* the arguments of isRangeFullyCovered, once ordered
    cursor, it,     \* its local variables; it is the start of a range or End
    answer          \* "idle" before the first query, "scanning", or its result

scan == <<query, cursor, it, answer>>
vars == <<range, defaultMode, query, cursor, it, answer>>

Addrs   == 0 .. MaxAddr
Modes   == {"SYMBOLIC", "CONCRETE"}
Ranges  == [start : Addrs, end : Addrs, mode : Modes]
End     == MaxAddr + 1          \* range.end()
Unset   == "unset"
Wrap(n) == n % (MaxAddr + 1)    \* uint64_t arithmetic
-----------------------------------------------------------------------------
(* addRange_impl *)

\* The ranges the loop may visit: those from lower_bound(start) on, and the one
\* before it.  Fault: the one before it is not visited.
FromLowerBound(start) == {r \in range : r.start >= start}

FromPredecessor(start) ==
    {r \in range : \A q \in range : q.start < start => q.start <= r.start}

Overlapping(start, end) ==
    {r \in FromPredecessor(start) : r.start <= end /\ r.end >= start}

\* What is kept of the overlapping ranges R.  Faults: the part on the right is
\* forgotten, or a part on the left is kept that may be empty.
KeepLeft(R, start, end) ==
    {[r EXCEPT !.end = start - 1] : r \in {q \in R : q.start < start}}

KeepEmpty(R, start, end) ==
    {[r EXCEPT !.end = start - 1] : r \in {q \in R : q.start <= start}}
        \cup {[r EXCEPT !.start = end + 1] : r \in {q \in R : q.end > end}}

KeepOutside(R, start, end) ==
    {[r EXCEPT !.end = start - 1] : r \in {q \in R : q.start < start}}
        \cup {[r EXCEPT !.start = end + 1] : r \in {q \in R : q.end > end}}

Put(start, end, mode) ==
    LET R == Overlapping(start, end)
    IN range' = (range \ R) \cup KeepOutside(R, start, end)
                    \cup {[start |-> start, end |-> end, mode |-> mode]}

Idle == answer # "scanning"

\* The query and the local variables of the last scan are gone.
NoQuery == [start |-> 0, end |-> 0, mode |-> "SYMBOLIC"]

Forget ==
    /\ query' = NoQuery
    /\ cursor' = 0
    /\ it' = End
    /\ answer' = "idle"

AddRange ==
    /\ Idle
    /\ \E x, y \in Addrs, mode \in Modes :
          IF x > y THEN Put(y, x, mode) ELSE Put(x, y, mode)
    /\ Forget
    /\ UNCHANGED defaultMode

\* setDefaultMode_impl
SetDefaultMode ==
    /\ Idle
    /\ defaultMode' \in Modes
    /\ Forget
    /\ UNCHANGED range
-----------------------------------------------------------------------------
(* getAccessMode_impl *)

\* The range of S before upper_bound(address), if there is one.
Candidate(S, address) ==
    {r \in S : /\ r.start <= address
               /\ \A q \in S : q.start <= address => q.start <= r.start}

ModeIn(S, address) ==
    IF \E r \in Candidate(S, address) : address <= r.end
    THEN (CHOOSE r \in Candidate(S, address) : address <= r.end).mode
    ELSE Unset

Explicit(address) == ModeIn(range, address)

GetAccessMode(address) ==
    IF Explicit(address) = Unset THEN defaultMode ELSE Explicit(address)
-----------------------------------------------------------------------------
(* isRangeFullyCovered_impl *)

Positions == {r.start : r \in range} \cup {End}

\* x is the range before upper_bound(start), or the first when there is none.
IsFirstVisited(x, start) ==
    /\ x \in Positions
    /\ IF \E y \in Positions : y <= start
       THEN x <= start /\ \A y \in Positions : y <= start => y <= x
       ELSE \A y \in Positions : x <= y

\* x follows it in the set.
IsNext(x) == x \in Positions /\ x > it /\ \A y \in Positions : y > it => x <= y

IsRangeFullyCovered ==
    /\ Idle
    /\ \E x, y \in Addrs, mode \in Modes :
          query' = IF x > y THEN [start |-> y, end |-> x, mode |-> mode]
                   ELSE [start |-> x, end |-> y, mode |-> mode]
    /\ cursor' = query'.start
    /\ \E x \in Positions : IsFirstVisited(x, query'.start) /\ it' = x
    /\ answer' = "scanning"
    /\ UNCHANGED <<range, defaultMode>>

Scanning == answer = "scanning"
More     == Scanning /\ cursor <= query.end
InGap    == it = End \/ it > cursor

Answer(a) == answer' = a /\ UNCHANGED <<range, defaultMode, query, cursor, it>>

\* The last address of a gap.  Fault: the end of the query is not the limit.
WholeGap == IF it = End THEN MaxAddr ELSE it - 1

GapEnd == IF it # End /\ it - 1 < query.end THEN it - 1 ELSE query.end

\* After a range, the cursor is behind it.  Fault: it stays on its last address.
AtEndOf(r) == r.end

AfterEndOf(r) == Wrap(r.end + 1)

\* What the loop compares with the mode of the query in a gap.  Fault: nothing.
GapAccepted == TRUE

GapHasMode == defaultMode = query.mode

ScanGap ==
    /\ More /\ InGap
    /\ IF GapHasMode
       THEN /\ cursor' = Wrap(GapEnd + 1)
            /\ UNCHANGED <<range, defaultMode, query, it, answer>>
       ELSE Answer("no")

ScanRange ==
    /\ More /\ ~InGap
    /\ \E r \in range :
          /\ r.start = it
          /\ IF r.mode = query.mode
             THEN /\ cursor' = AfterEndOf(r)
                  /\ \E x \in Positions : IsNext(x) /\ it' = x
                  /\ UNCHANGED <<range, defaultMode, query, answer>>
             ELSE Answer("no")

ScanEnd == Scanning /\ ~More /\ Answer("yes")

ScanStep == ScanGap \/ ScanRange \/ ScanEnd
-----------------------------------------------------------------------------
Init ==
    /\ range = {}
    /\ defaultMode = "SYMBOLIC"
    /\ query = NoQuery
    /\ cursor = 0
    /\ it = End
    /\ answer = "idle"

Next == AddRange \/ SetDefaultMode \/ IsRangeFullyCovered \/ ScanStep

Spec == Init /\ [][Next]_vars

\* The loop runs on until it returns.
FairSpec == Spec /\ WF_vars(ScanStep)
-----------------------------------------------------------------------------
(* Properties *)

\* Every variable holds a value of the kind its code has.
TypeOK ==
    /\ range \subseteq Ranges
    /\ defaultMode \in Modes
    /\ query \in Ranges
    /\ cursor \in Addrs
    /\ it \in Addrs \cup {End}
    /\ answer \in {"idle", "scanning", "yes", "no"}

\* What a sorted set of intervals has to be: none is empty and no two overlap.
Disjoint(S) ==
    /\ \A r \in S : r.start <= r.end
    /\ \A r, q \in S : r.start <= q.end /\ q.start <= r.end => r = q

\* The predecessor of an address is the only range that can hold it: addRange_impl
\* and getAccessMode_impl rely on it when they step back only once.
RangesAreDisjoint == Disjoint(range)

\* The modes that the ranges give to the addresses.
Abstract == INSTANCE AddressModes WITH explicit <- [a \in Addrs |-> Explicit(a)],
                                       default <- defaultMode

\* Splitting, erasing and inserting ranges (addRange_impl), and looking an address
\* up through its predecessor (getAccessMode_impl), come to what AddressModes says.
ImplementsAddressModes == Abstract!Spec

Covered == \A a \in query.start .. query.end : GetAccessMode(a) = query.mode

\* "yes" is only answered when every address of the query has its mode, also when
\* the cursor wraps around at UINT64_MAX.
YesIsRight == answer = "yes" => Covered

\* Where the scan is: all addresses below the cursor have the mode, and the ranges
\* behind the iterator are behind the cursor; or the cursor has wrapped around
\* and nothing is left to check.
ScanInv ==
    Scanning => \/ Covered
                \/ /\ \A a \in query.start .. query.end :
                         a < cursor => GetAccessMode(a) = query.mode
                   /\ \A r \in range : r.start < it => r.end < cursor

\* A query is answered "yes" only with reason, by a scan that can rely on the
\* order of the ranges (isRangeFullyCovered_impl).
ScanIsSound == RangesAreDisjoint /\ ScanInv /\ YesIsRight

\* When the first range visited holds the start of the query or comes after it,
\* and no range ends at UINT64_MAX, "no" is only answered for a good reason.
NoIsRight ==
    /\ answer = "no"
    /\ \A r \in Candidate(range, query.start) : query.start <= r.end
    /\ \A r \in range : r.end # MaxAddr
    => ~Covered

\* A query that stops before UINT64_MAX is answered.
QueriesAreAnswered == (Scanning /\ query.end # MaxAddr) ~> ~Scanning
=============================================================================
