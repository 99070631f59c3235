------------------------- MODULE MemoryPolicyProofs -------------------------
(***************************************************************************)
(* MemoryPolicy for every size of the address space.  The key fact is      *)
(* LookupByContainment: because the ranges are disjoint, looking only at   *)
(* the predecessor of an address finds the range that holds it.            *)
(***************************************************************************)
EXTENDS MemoryPolicy, TLAPS

NewRange(start, end, mode) == [start |-> start, end |-> end, mode |-> mode]

\* A step that adds a range is Put on ordered arguments, any other keeps range.
LEMMA AddRangeIsPut ==
    ASSUME TypeOK, AddRange
    PROVE  /\ \E start, end \in Addrs, mode \in Modes :
                 start <= end /\ Put(start, end, mode)
           /\ UNCHANGED defaultMode /\ Forget
  <1>1. \A x, y \in Addrs : x > y => y <= x
    BY MaxAddrAssumption DEF Addrs
  <1>2. \A x, y \in Addrs : ~(x > y) => x <= y
    BY MaxAddrAssumption DEF Addrs
  <1>3. QED
    BY <1>1, <1>2 DEF AddRange

\* The ranges that overlap the new one are exactly those the loop visits.
LEMMA OverlappingIsExact ==
    ASSUME TypeOK, RangesAreDisjoint, NEW start \in Addrs, NEW end \in Addrs,
           start <= end
    PROVE  Overlapping(start, end) = {r \in range : r.start <= end /\ r.end >= start}
  <1>1. SUFFICES ASSUME NEW r \in range, r.start <= end, r.end >= start,
                        NEW q \in range, q.start < start
                 PROVE  q.start <= r.start
    BY DEF Overlapping, FromPredecessor
  <1>2. r \in Ranges /\ q \in Ranges
    BY DEF TypeOK
  <1>3. q.start \in Int /\ q.end \in Int /\ r.start \in Int /\ r.end \in Int /\ start \in Int
    BY <1>2, MaxAddrAssumption DEF Ranges, Addrs
  <1>4. q.start <= q.end /\ (r.start <= q.end /\ q.start <= r.end => r = q)
    BY DEF RangesAreDisjoint, Disjoint
  <1>5. QED
    BY <1>1, <1>3, <1>4

\* What Put leaves: the new range, and the parts of the old ones outside it.
LEMMA PutRanges ==
    ASSUME TypeOK, RangesAreDisjoint, NEW start \in Addrs, NEW end \in Addrs,
           start <= end, NEW mode \in Modes, Put(start, end, mode)
    PROVE  /\ NewRange(start, end, mode) \in range'
           /\ \A p \in range' :
                 \/ p = NewRange(start, end, mode)
                 \/ p \in range /\ (p.end < start \/ p.start > end)
                 \/ \E r \in range : /\ r.start < start /\ r.end >= start
                                     /\ p = [r EXCEPT !.end = start - 1]
                 \/ \E r \in range : /\ r.start <= end /\ r.end > end
                                     /\ p = [r EXCEPT !.start = end + 1]
           /\ \A r \in range :
                 /\ (r.end < start \/ r.start > end) => r \in range'
                 /\ r.start < start /\ r.end >= start
                       => [r EXCEPT !.end = start - 1] \in range'
                 /\ r.start <= end /\ r.end > end
                       => [r EXCEPT !.start = end + 1] \in range'
  <1> DEFINE R == {r \in range : r.start <= end /\ r.end >= start}
  <1>1. \A r \in range : r.start \in Int /\ r.end \in Int
    BY MaxAddrAssumption DEF TypeOK, Ranges, Addrs
  <1>2. start \in Int /\ end \in Int
    BY MaxAddrAssumption DEF Addrs
  <1>3. range' = (range \ R) \cup KeepOutside(R, start, end)
                    \cup {NewRange(start, end, mode)}
    BY OverlappingIsExact DEF Put, NewRange
  <1>4. NewRange(start, end, mode) \in range'
    BY <1>3
  <1>5. ASSUME NEW p \in range'
        PROVE  \/ p = NewRange(start, end, mode)
               \/ p \in range /\ (p.end < start \/ p.start > end)
               \/ \E r \in range : /\ r.start < start /\ r.end >= start
                                   /\ p = [r EXCEPT !.end = start - 1]
               \/ \E r \in range : /\ r.start <= end /\ r.end > end
                                   /\ p = [r EXCEPT !.start = end + 1]
    <2>1. CASE p \in range \ R
      BY <1>1, <1>2, <2>1
    <2>2. CASE p \in KeepOutside(R, start, end)
      BY <2>2 DEF KeepOutside
    <2>3. QED
      BY <1>3, <1>5, <2>1, <2>2
  <1>6. ASSUME NEW r \in range
        PROVE  /\ (r.end < start \/ r.start > end) => r \in range'
               /\ r.start < start /\ r.end >= start
                     => [r EXCEPT !.end = start - 1] \in range'
               /\ r.start <= end /\ r.end > end
                     => [r EXCEPT !.start = end + 1] \in range'
    <2>1. CASE r.end < start \/ r.start > end
      <3>1. r \notin R
        BY <1>1, <1>2, <2>1
      <3>2. ~(r.start < start /\ r.end >= start) /\ ~(r.start <= end /\ r.end > end)
        BY <1>1, <1>2, <2>1
      <3>3. QED
        BY <1>3, <3>1, <3>2
    <2>2. CASE ~(r.end < start \/ r.start > end)
      <3>1. r \in R
        BY <1>1, <1>2, <2>2
      <3>2. /\ r.start < start => [r EXCEPT !.end = start - 1] \in KeepOutside(R, start, end)
            /\ r.end > end => [r EXCEPT !.start = end + 1] \in KeepOutside(R, start, end)
        BY <3>1 DEF KeepOutside
      <3>3. QED
        BY <1>3, <2>2, <3>2
    <2>3. QED
      BY <2>1, <2>2
  <1>7. QED
    BY <1>4, <1>5, <1>6

\* Adding a range leaves well-formed ranges.
LEMMA PutType ==
    ASSUME TypeOK, RangesAreDisjoint, NEW start \in Addrs, NEW end \in Addrs,
           start <= end, NEW mode \in Modes, Put(start, end, mode)
    PROVE  range' \subseteq Ranges
  <1> SUFFICES ASSUME NEW p \in range' PROVE p \in Ranges
    OBVIOUS
  <1>1. \A r \in range : r \in Ranges
    BY DEF TypeOK
  <1>2. CASE p = NewRange(start, end, mode)
    BY <1>2 DEF NewRange, Ranges
  <1>3. CASE p \in range
    BY <1>1, <1>3
  <1>4. CASE \E r \in range : r.start < start /\ p = [r EXCEPT !.end = start - 1]
    <2>1. PICK r \in range : r.start < start /\ p = [r EXCEPT !.end = start - 1]
      BY <1>4
    <2>2. r \in Ranges
      BY <1>1
    <2>3. start - 1 \in Addrs
      BY <2>1, <2>2, MaxAddrAssumption DEF Ranges, Addrs
    <2>4. QED
      BY <2>1, <2>2, <2>3 DEF Ranges
  <1>5. CASE \E r \in range : r.end > end /\ p = [r EXCEPT !.start = end + 1]
    <2>1. PICK r \in range : r.end > end /\ p = [r EXCEPT !.start = end + 1]
      BY <1>5
    <2>2. r \in Ranges
      BY <1>1
    <2>3. end + 1 \in Addrs
      BY <2>1, <2>2, MaxAddrAssumption DEF Ranges, Addrs
    <2>4. QED
      BY <2>1, <2>2, <2>3 DEF Ranges
  <1>6. QED
    BY <1>2, <1>3, <1>4, <1>5, PutRanges

\* Each part of a range is inside it, so parts of different ranges do not meet.
LEMMA PutDisjoint ==
    ASSUME TypeOK, RangesAreDisjoint, NEW start \in Addrs, NEW end \in Addrs,
           start <= end, NEW mode \in Modes, Put(start, end, mode)
    PROVE  Disjoint(range')
  <1>1. \A r \in range : r \in Ranges /\ r.start \in Int /\ r.end \in Int
    BY MaxAddrAssumption DEF TypeOK, Ranges, Addrs
  <1>2. start \in Int /\ end \in Int
    BY MaxAddrAssumption DEF Addrs
  <1> DEFINE new == NewRange(start, end, mode)
             Part(p, r) == \/ p = r /\ (r.end < start \/ r.start > end)
                           \/ /\ r.start < start /\ r.end >= start
                              /\ p = [r EXCEPT !.end = start - 1]
                           \/ /\ r.start <= end /\ r.end > end
                              /\ p = [r EXCEPT !.start = end + 1]
  <1>3. \A p \in range' : p = new \/ \E r \in range : Part(p, r)
    BY PutRanges
  <1>4. ASSUME NEW r \in range, NEW p, Part(p, r)
        PROVE  /\ p.start \in Int /\ p.end \in Int
               /\ p.start <= p.end /\ r.start <= p.start /\ p.end <= r.end
               /\ p.end < start \/ p.start > end
    <2>1. r.start <= r.end
      BY DEF RangesAreDisjoint, Disjoint
    <2>2. /\ [r EXCEPT !.end = start - 1].start = r.start
          /\ [r EXCEPT !.end = start - 1].end = start - 1
          /\ [r EXCEPT !.start = end + 1].start = end + 1
          /\ [r EXCEPT !.start = end + 1].end = r.end
      BY <1>1 DEF Ranges
    <2>3. CASE p = r /\ (r.end < start \/ r.start > end)
      BY <1>1, <2>1, <2>3
    <2>4. CASE r.start < start /\ r.end >= start /\ p = [r EXCEPT !.end = start - 1]
      <3>1. p.start = r.start /\ p.end = start - 1
        BY <2>2, <2>4
      <3>2. QED
        BY <1>1, <1>2, <2>4, <3>1
    <2>5. CASE r.start <= end /\ r.end > end /\ p = [r EXCEPT !.start = end + 1]
      <3>1. p.start = end + 1 /\ p.end = r.end
        BY <2>2, <2>5
      <3>2. QED
        BY <1>1, <1>2, <2>5, <3>1
    <2>6. QED
      BY <1>4, <2>3, <2>4, <2>5
  <1>5. new.start = start /\ new.end = end
    BY DEF NewRange
  <1>6. ASSUME NEW p \in range', NEW q \in range', p.start <= q.end, q.start <= p.end
        PROVE  p = q
    <2>1. \A x \in range' : x = new \/ (x.start \in Int /\ x.end \in Int
                                       /\ (x.end < start \/ x.start > end))
      BY <1>3, <1>4
    <2>2. CASE p = new \/ q = new
      BY <1>2, <1>5, <1>6, <2>1, <2>2
    <2>3. CASE p # new /\ q # new
      <3>1. PICK r1 \in range : Part(p, r1)
        BY <1>3, <2>3
      <3>2. PICK r2 \in range : Part(q, r2)
        BY <1>3, <2>3
      <3>3. r1.start <= r2.end /\ r2.start <= r1.end
        BY <1>1, <1>4, <1>6, <3>1, <3>2
      <3>4. r1 = r2
        BY <3>3 DEF RangesAreDisjoint, Disjoint
      <3>5. QED
        BY <1>1, <1>2, <1>6, <3>1, <3>2, <3>4 DEF Ranges
    <2>4. QED
      BY <2>2, <2>3
  <1>7. \A p \in range' : p.start <= p.end
    BY <1>2, <1>3, <1>4, <1>5
  <1>8. QED
    BY <1>6, <1>7 DEF Disjoint

\* The predecessor of an address is the range that holds it, if any range does.
LEMMA LookupByContainment ==
    ASSUME NEW S \in SUBSET Ranges, Disjoint(S), NEW a \in Addrs,
           NEW r \in S, r.start <= a, a <= r.end
    PROVE  ModeIn(S, a) = r.mode
  <1>1. a \in Int /\ \A q \in S : q.start \in Int /\ q.end \in Int
    BY MaxAddrAssumption DEF Ranges, Addrs
  <1>2. \A q \in S : q.start <= a /\ a <= q.end => q = r
    BY <1>1 DEF Disjoint
  <1>3. \A q \in S : q.start <= a => q.start <= r.start
    BY <1>1 DEF Disjoint
  <1>4. r \in Candidate(S, a)
    BY <1>3 DEF Candidate
  <1>5. \A q \in Candidate(S, a) : a <= q.end => q = r
    BY <1>2 DEF Candidate
  <1>6. (CHOOSE q \in Candidate(S, a) : a <= q.end) = r
    BY <1>4, <1>5
  <1>7. QED
    BY <1>4, <1>6 DEF ModeIn

\* An address outside every range has no explicit mode.
LEMMA LookupOutside ==
    ASSUME NEW S \in SUBSET Ranges, NEW a \in Addrs,
           \A r \in S : ~(r.start <= a /\ a <= r.end)
    PROVE  ModeIn(S, a) = Unset
  BY DEF ModeIn, Candidate

\* Adding a range sets the mode of its addresses and of no other.
LEMMA PutLookup ==
    ASSUME TypeOK, RangesAreDisjoint, NEW start \in Addrs, NEW end \in Addrs,
           start <= end, NEW mode \in Modes, Put(start, end, mode), NEW a \in Addrs
    PROVE  ModeIn(range', a) = IF start <= a /\ a <= end THEN mode ELSE ModeIn(range, a)
  <1> DEFINE new == NewRange(start, end, mode)
  <1>1. /\ range \in SUBSET Ranges /\ Disjoint(range)
        /\ range' \in SUBSET Ranges /\ Disjoint(range')
    BY PutType, PutDisjoint DEF TypeOK, RangesAreDisjoint
  <1>2. /\ start \in Int /\ end \in Int /\ a \in Int
        /\ \A r \in Ranges : r.start \in Int /\ r.end \in Int
    BY MaxAddrAssumption DEF Addrs, Ranges
  <1>3. CASE start <= a /\ a <= end
    <2>1. new \in range' /\ new.start = start /\ new.end = end /\ new.mode = mode
      BY PutRanges DEF NewRange
    <2>2. QED
      BY <1>1, <1>3, <2>1, LookupByContainment
  <1>4. CASE ~(start <= a /\ a <= end) /\ \E r \in range : r.start <= a /\ a <= r.end
    <2>1. PICK r \in range : r.start <= a /\ a <= r.end
      BY <1>4
    <2>2. r \in Ranges /\ ModeIn(range, a) = r.mode
      BY <1>1, <2>1, LookupByContainment
    <2>3. CASE r.end < start \/ r.start > end
      <3>1. r \in range'
        BY <2>3, PutRanges
      <3>2. QED
        BY <1>1, <1>4, <2>1, <2>2, <3>1, LookupByContainment
    <2>4. CASE ~(r.end < start \/ r.start > end) /\ a < start
      <3> DEFINE p == [r EXCEPT !.end = start - 1]
      <3>1. p.start = r.start /\ p.end = start - 1 /\ p.mode = r.mode
        BY <2>2 DEF Ranges
      <3>2. r.start < start /\ r.end >= start
        BY <1>2, <2>1, <2>2, <2>4
      <3>3. p \in range'
        BY <3>2, PutRanges
      <3>4. p.start <= a /\ a <= p.end
        BY <1>2, <2>1, <2>4, <3>1
      <3> HIDE DEF p
      <3>5. QED
        BY <1>1, <1>4, <2>2, <3>1, <3>3, <3>4, LookupByContainment
    <2>5. CASE ~(r.end < start \/ r.start > end) /\ a > end
      <3> DEFINE p == [r EXCEPT !.start = end + 1]
      <3>1. p.start = end + 1 /\ p.end = r.end /\ p.mode = r.mode
        BY <2>2 DEF Ranges
      <3>2. r.start <= end /\ r.end > end
        BY <1>2, <2>1, <2>2, <2>5
      <3>3. p \in range'
        BY <3>2, PutRanges
      <3>4. p.start <= a /\ a <= p.end
        BY <1>2, <2>1, <2>5, <3>1
      <3> HIDE DEF p
      <3>5. QED
        BY <1>1, <1>4, <2>2, <3>1, <3>3, <3>4, LookupByContainment
    <2>6. QED
      BY <1>2, <1>4, <2>3, <2>4, <2>5
  <1>5. CASE /\ ~(start <= a /\ a <= end)
             /\ \A r \in range : ~(r.start <= a /\ a <= r.end)
    <2>1. ASSUME NEW p \in range' PROVE ~(p.start <= a /\ a <= p.end)
      <3>1. CASE p = new
        BY <1>5, <3>1 DEF NewRange
      <3>2. CASE p \in range
        BY <1>5, <3>2
      <3>3. CASE \E r \in range : r.end >= start /\ p = [r EXCEPT !.end = start - 1]
        <4>1. PICK r \in range : r.end >= start /\ p = [r EXCEPT !.end = start - 1]
          BY <3>3
        <4>2. r \in Ranges /\ p.start = r.start /\ p.end = start - 1
          BY <1>1, <4>1 DEF Ranges
        <4>3. QED
          BY <1>2, <1>5, <4>1, <4>2
      <3>4. CASE \E r \in range : r.start <= end /\ p = [r EXCEPT !.start = end + 1]
        <4>1. PICK r \in range : r.start <= end /\ p = [r EXCEPT !.start = end + 1]
          BY <3>4
        <4>2. r \in Ranges /\ p.start = end + 1 /\ p.end = r.end
          BY <1>1, <4>1 DEF Ranges
        <4>3. QED
          BY <1>2, <1>5, <4>1, <4>2
      <3>5. QED
        BY <2>1, <3>1, <3>2, <3>3, <3>4, PutRanges
    <2>2. ModeIn(range', a) = Unset /\ ModeIn(range, a) = Unset
      BY <1>1, <1>5, <2>1, LookupOutside
    <2>3. QED
      BY <1>5, <2>2
  <1>6. QED
    BY <1>3, <1>4, <1>5

-----------------------------------------------------------------------------
(* Types and disjointness *)

\* 64-bit arithmetic stays within the addresses.
LEMMA WrapType == \A n \in Nat : Wrap(n) \in Addrs
  BY MaxAddrAssumption DEF Wrap, Addrs

\* The iterator's positions are starts of ranges, or the end.
LEMMA PositionsType == TypeOK => Positions \subseteq Addrs \cup {End}
  BY DEF TypeOK, Positions, Ranges

\* Forgetting the query keeps the types.
LEMMA ForgetType ==
    ASSUME Forget
    PROVE  /\ query' \in Ranges /\ cursor' \in Addrs /\ it' \in Addrs \cup {End}
           /\ answer' = "idle"
  BY MaxAddrAssumption DEF Forget, NoQuery, Ranges, Addrs, Modes

\* What the first step of isRangeFullyCovered sets up.
LEMMA QueryStep ==
    ASSUME TypeOK, IsRangeFullyCovered
    PROVE  /\ query' \in Ranges /\ query'.start <= query'.end
           /\ cursor' = query'.start /\ it' \in Positions
           /\ IsFirstVisited(it', query'.start)
           /\ answer' = "scanning" /\ UNCHANGED <<range, defaultMode>>
  BY MaxAddrAssumption DEF IsRangeFullyCovered, IsFirstVisited, Ranges, Addrs

\* A step of the scan keeps the types.
LEMMA ScanType ==
    ASSUME TypeOK, ScanStep
    PROVE  TypeOK'
  <1>1. query.end \in Nat /\ query.end + 1 \in Nat
    BY MaxAddrAssumption DEF TypeOK, Ranges, Addrs
  <1>2. CASE ScanGap
    <2>1. GapEnd + 1 \in Nat
      <3>1. it # End => it \in Nat
        BY MaxAddrAssumption DEF TypeOK, Addrs
      <3>2. it # End => it - 1 + 1 \in Nat
        BY <3>1
      <3>3. QED
        BY <1>1, <3>2 DEF GapEnd
    <2>2. Wrap(GapEnd + 1) \in Addrs
      BY <2>1, WrapType
    <2>3. QED
      BY <1>2, <2>2 DEF ScanGap, Answer, TypeOK
  <1>3. CASE ScanRange
    <2>1. PICK r \in range :
             IF r.mode = query.mode
             THEN /\ cursor' = AfterEndOf(r)
                  /\ \E x \in Positions : IsNext(x) /\ it' = x
                  /\ UNCHANGED <<range, defaultMode, query, answer>>
             ELSE Answer("no")
      BY <1>3 DEF ScanRange
    <2>2. r.end + 1 \in Nat
      BY MaxAddrAssumption DEF TypeOK, Ranges, Addrs
    <2>3. AfterEndOf(r) \in Addrs
      BY <2>2, WrapType DEF AfterEndOf
    <2>4. QED
      BY <2>1, <2>3, PositionsType DEF Answer, TypeOK
  <1>4. CASE ScanEnd
    BY <1>4 DEF ScanEnd, Answer, TypeOK
  <1>5. QED
    BY <1>2, <1>3, <1>4 DEF ScanStep

\* The scan does not change the policy.
LEMMA AnswerKeepsRanges ==
    ASSUME ScanStep
    PROVE  UNCHANGED <<range, defaultMode, query>>
  BY DEF ScanStep, ScanGap, ScanRange, ScanEnd, Answer

\* The set of ranges stays what a sorted set of intervals has to be, whatever
\* ranges are added and in whatever order.
THEOREM PolicyTypeCorrect == Spec => [](TypeOK /\ RangesAreDisjoint)
  <1>1. Init => TypeOK /\ RangesAreDisjoint
    BY MaxAddrAssumption
    DEF Init, TypeOK, RangesAreDisjoint, Disjoint, NoQuery, Ranges, Addrs, Modes
  <1>2. TypeOK /\ RangesAreDisjoint /\ [Next]_vars => (TypeOK /\ RangesAreDisjoint)'
    <2> SUFFICES ASSUME TypeOK, RangesAreDisjoint, [Next]_vars
                 PROVE  TypeOK' /\ RangesAreDisjoint'
      OBVIOUS
    <2>1. CASE AddRange
      <3>1. PICK start \in Addrs, end \in Addrs, mode \in Modes :
               start <= end /\ Put(start, end, mode)
        BY <2>1, AddRangeIsPut
      <3>2. range' \subseteq Ranges /\ Disjoint(range')
        BY <3>1, PutType, PutDisjoint
      <3>3. UNCHANGED defaultMode /\ Forget
        BY <2>1 DEF AddRange
      <3>4. QED
        BY <3>2, <3>3, ForgetType DEF TypeOK, RangesAreDisjoint
    <2>2. CASE SetDefaultMode
      BY <2>2, ForgetType DEF SetDefaultMode, TypeOK, RangesAreDisjoint
    <2>3. CASE IsRangeFullyCovered
      <3>1. cursor' \in Addrs /\ it' \in Addrs \cup {End}
        BY <2>3, QueryStep, PositionsType DEF Ranges
      <3>2. QED
        BY <2>3, <3>1, QueryStep DEF TypeOK, RangesAreDisjoint
    <2>4. CASE ScanStep
      BY <2>4, ScanType, AnswerKeepsRanges DEF RangesAreDisjoint
    <2>5. CASE UNCHANGED vars
      BY <2>5 DEF vars, TypeOK, RangesAreDisjoint
    <2>6. QED
      BY <2>1, <2>2, <2>3, <2>4, <2>5 DEF Next
  <1>3. QED
    BY <1>1, <1>2, PTL DEF Spec

-----------------------------------------------------------------------------
(* The abstract specification *)

\* The policy implements AddressModes: after any sequence of calls every address
\* has the mode of the last range added over it.
THEOREM PolicyImplementsModes == Spec => ImplementsAddressModes
  <1> DEFINE modes == [a \in Addrs |-> Explicit(a)]
  <1>1. Init => Abstract!Init
    <2> SUFFICES ASSUME Init PROVE Abstract!Init
      OBVIOUS
    <2>1. range = {} /\ defaultMode \in Modes
      BY DEF Init, Modes
    <2>2. \A a \in Addrs : Explicit(a) = Unset
      BY <2>1 DEF Explicit, ModeIn, Candidate
    <2>3. QED
      BY <2>1, <2>2 DEF Abstract!Init, Abstract!Addresses, Addrs
  <1>2. /\ TypeOK /\ RangesAreDisjoint /\ [Next]_vars
        => [Abstract!Next]_<<modes, defaultMode>>
    <2> SUFFICES ASSUME TypeOK, RangesAreDisjoint, [Next]_vars
                 PROVE  Abstract!Next \/ UNCHANGED <<modes, defaultMode>>
      OBVIOUS
    <2>1. CASE AddRange
      <3>1. PICK start \in Addrs, end \in Addrs, mode \in Modes :
               start <= end /\ Put(start, end, mode)
        BY <2>1, AddRangeIsPut
      <3>2. \A a \in Addrs : Explicit(a)' =
               IF start <= a /\ a <= end THEN mode ELSE Explicit(a)
        BY <3>1, PutLookup DEF Explicit
      <3>3. Abstract!Add(start, end, mode)
        BY <2>1, <3>2 DEF Abstract!Add, Abstract!Addresses, Addrs, AddRange
      <3>4. QED
        BY <3>1, <3>3 DEF Abstract!Next, Abstract!Addresses, Addrs
    <2>2. CASE SetDefaultMode
      BY <2>2 DEF SetDefaultMode, Explicit, Abstract!Next, Abstract!SetDefault
    <2>3. CASE UNCHANGED <<range, defaultMode>>
      BY <2>3 DEF Explicit
    <2>4. QED
      BY <2>1, <2>2, <2>3, QueryStep, AnswerKeepsRanges DEF Next, vars
  <1>3. QED
    BY <1>1, <1>2, PolicyTypeCorrect, PTL
    DEF Spec, ImplementsAddressModes, Abstract!Spec

-----------------------------------------------------------------------------
(* The scan *)

\* The second part of ScanInv: the scan has not wrapped around.
ScannedBelow ==
    /\ \A a \in query.start .. query.end : a < cursor => GetAccessMode(a) = query.mode
    /\ \A r \in range : r.start < it => r.end < cursor

\* What the types say of a scan that is under way.
LEMMA ScanTypes ==
    ASSUME TypeOK
    PROVE  /\ MaxAddr \in Int /\ cursor \in Int /\ it \in Int
           /\ query.start \in Int /\ query.end \in Int /\ query.mode \in Modes
           /\ 0 <= cursor /\ 0 <= query.start /\ query.end <= MaxAddr
           /\ \A a \in query.start .. query.end : a \in Addrs /\ a \in Int
           /\ \A r \in range : /\ r.start \in Int /\ r.end \in Int /\ r.start >= 0
                               /\ r.end <= MaxAddr /\ r.mode \in Modes
           /\ range \in SUBSET Ranges
  BY MaxAddrAssumption DEF TypeOK, Ranges, Addrs, End

\* The only addition that wraps is that at UINT64_MAX.
LEMMA WrapValue ==
    /\ \A n \in Nat : n <= MaxAddr => Wrap(n) = n
    /\ Wrap(MaxAddr + 1) = 0
  BY MaxAddrAssumption DEF Wrap

\* Nothing but the machine registers of the scan changes during it.
LEMMA ModesAreKept ==
    ASSUME UNCHANGED <<range, defaultMode, query>>
    PROVE  /\ \A a : GetAccessMode(a)' = GetAccessMode(a)
           /\ Covered' = Covered
  BY DEF GetAccessMode, Explicit, Covered

\* The addresses of a range have its mode.
LEMMA ModeOfRange ==
    ASSUME TypeOK, RangesAreDisjoint, NEW r \in range, NEW a \in Addrs,
           r.start <= a, a <= r.end
    PROVE  GetAccessMode(a) = r.mode
  <1>1. Explicit(a) = r.mode
    BY LookupByContainment DEF TypeOK, RangesAreDisjoint, Explicit
  <1>2. r.mode # Unset
    BY ScanTypes DEF Modes, Unset
  <1>3. QED
    BY <1>1, <1>2 DEF GetAccessMode

\* The addresses between the cursor and the next range have the default mode.
LEMMA ModeInGap ==
    ASSUME TypeOK, ScannedBelow, InGap, NEW a \in Addrs, cursor <= a, a <= GapEnd
    PROVE  GetAccessMode(a) = defaultMode
  <1>1. a \in Int
    BY MaxAddrAssumption DEF Addrs
  <1>2. \A r \in range : ~(r.start <= a /\ a <= r.end)
    BY <1>1, ScanTypes DEF ScannedBelow, InGap, GapEnd, End
  <1>3. Explicit(a) = Unset
    BY <1>2, LookupOutside, ScanTypes DEF Explicit
  <1>4. QED
    BY <1>3 DEF GetAccessMode

\* A query starts with nothing checked, at the first range that matters.
LEMMA QueryStarts ==
    ASSUME TypeOK, RangesAreDisjoint, IsRangeFullyCovered
    PROVE  ScannedBelow'
  <1>1. /\ cursor' = query'.start /\ UNCHANGED range
        /\ query'.start \in Int /\ query'.start <= MaxAddr
        /\ it' \in Positions /\ IsFirstVisited(it', query'.start)
    BY QueryStep, MaxAddrAssumption DEF Ranges, Addrs
  <1>2. it' \in Int
    BY <1>1, PositionsType, MaxAddrAssumption DEF Addrs, End
  <1>3. ASSUME NEW r \in range, r.start < it'
        PROVE  r.end < cursor'
    <2>1. r.start \in Positions
      BY DEF Positions
    <2>2. it' <= query'.start
      BY <1>1, <1>2, <1>3, <2>1, ScanTypes DEF IsFirstVisited
    <2>3. PICK q \in range : q.start = it'
      BY <1>1, <2>2, MaxAddrAssumption DEF Positions, End
    <2>4. q.start <= q.end
      BY DEF RangesAreDisjoint, Disjoint
    <2>5. q # r
      BY <1>2, <1>3, <2>3
    <2>6. ~(q.start <= r.end)
      BY <1>3, <2>3, <2>4, <2>5, ScanTypes DEF RangesAreDisjoint, Disjoint
    <2>7. QED
      BY <1>1, <1>2, <2>2, <2>3, <2>6, ScanTypes
  <1>4. \A a \in (query.start .. query.end)' : ~(a < cursor')
    BY <1>1
  <1>5. QED
    BY <1>1, <1>3, <1>4 DEF ScannedBelow

\* Accepting a gap keeps the scan's invariant.
LEMMA GapKeepsScanInv ==
    ASSUME TypeOK, RangesAreDisjoint, ScannedBelow, ScanGap, GapHasMode
    PROVE  \/ GapEnd = MaxAddr /\ Covered'
           \/ cursor' = GapEnd + 1 /\ ScannedBelow'
  <1>1. /\ cursor' = Wrap(GapEnd + 1) /\ cursor <= query.end /\ InGap
        /\ UNCHANGED <<range, defaultMode, query, it, answer>>
    BY DEF ScanGap, More
  <1>2. cursor <= GapEnd /\ GapEnd <= query.end /\ GapEnd \in Int
    BY <1>1, ScanTypes DEF GapEnd, InGap
  <1>3. ASSUME NEW a \in query.start .. query.end, a <= GapEnd
        PROVE  GetAccessMode(a) = query.mode
    <2>1. CASE a < cursor
      BY <2>1 DEF ScannedBelow
    <2>2. CASE cursor <= a
      BY <1>1, <1>3, <2>2, ModeInGap, ScanTypes DEF GapHasMode
    <2>3. QED
      BY <2>1, <2>2, ScanTypes
  <1>4. CASE GapEnd = MaxAddr
    <2>1. Covered
      BY <1>2, <1>3, <1>4, ScanTypes DEF Covered
    <2>2. QED
      BY <1>1, <1>4, <2>1, ModesAreKept
  <1>5. CASE GapEnd # MaxAddr
    <2>1. cursor' = GapEnd + 1
      BY <1>1, <1>2, <1>5, ScanTypes, WrapValue
    <2>2. \A a \in query.start .. query.end : a < cursor' => GetAccessMode(a) = query.mode
      BY <1>2, <1>3, <2>1, ScanTypes
    <2>3. \A r \in range : r.start < it => r.end < cursor'
      BY <1>2, <2>1, ScanTypes DEF ScannedBelow
    <2>4. QED
      BY <1>1, <2>1, <2>2, <2>3, ModesAreKept DEF ScannedBelow
  <1>6. QED
    BY <1>4, <1>5

\* Accepting a range keeps the scan's invariant, also when the cursor wraps.
LEMMA RangeKeepsScanInv ==
    ASSUME TypeOK, RangesAreDisjoint, ScannedBelow, More, ~InGap,
           NEW r \in range, r.start = it, r.mode = query.mode,
           cursor' = AfterEndOf(r), NEW x \in Positions, IsNext(x), it' = x,
           UNCHANGED <<range, defaultMode, query>>
    PROVE  \/ r.end = MaxAddr /\ Covered'
           \/ cursor' = r.end + 1 /\ ScannedBelow'
  <1>1. it <= cursor
    BY ScanTypes DEF InGap
  <1>2. ASSUME NEW a \in query.start .. query.end, a <= r.end
        PROVE  GetAccessMode(a) = query.mode
    <2>1. CASE a < cursor
      BY <2>1 DEF ScannedBelow
    <2>2. CASE cursor <= a
      BY <1>1, <1>2, <2>2, ModeOfRange, ScanTypes
    <2>3. QED
      BY <2>1, <2>2, ScanTypes
  <1>3. CASE r.end = MaxAddr
    <2>1. Covered
      BY <1>2, <1>3, ScanTypes DEF Covered
    <2>2. QED
      BY <1>3, <2>1, ModesAreKept
  <1>4. CASE r.end # MaxAddr
    <2>1. r.start <= r.end
      BY DEF RangesAreDisjoint, Disjoint
    <2>2. cursor' = r.end + 1
      BY <1>4, <2>1, ScanTypes, WrapValue DEF AfterEndOf
    <2>3. \A a \in query.start .. query.end : a < cursor' => GetAccessMode(a) = query.mode
      BY <1>2, <2>2, ScanTypes
    <2>4. ASSUME NEW q \in range, q.start < x
          PROVE  q.end < cursor'
      <3>1. q.start <= r.start
        <4>1. x \in Int
          BY PositionsType, MaxAddrAssumption DEF Addrs, End
        <4>2. q.start \in Positions
          BY DEF Positions
        <4>3. ~(q.start > it)
          BY <2>4, <4>1, <4>2, ScanTypes DEF IsNext
        <4>4. QED
          BY <4>3, ScanTypes
      <3>2. CASE q = r
        BY <2>2, <3>2, ScanTypes
      <3>3. CASE q # r
        <4>1. ~(q.start <= r.end /\ r.start <= q.end)
          BY <3>3 DEF RangesAreDisjoint, Disjoint
        <4>2. QED
          BY <2>1, <2>2, <3>1, <4>1, ScanTypes
      <3>4. QED
        BY <3>2, <3>3
    <2>5. QED
      BY <2>2, <2>3, <2>4, ModesAreKept DEF ScannedBelow
  <1>5. QED
    BY <1>3, <1>4

\* Every step of the scan keeps its invariant.
LEMMA ScanStepKeepsInv ==
    ASSUME TypeOK, RangesAreDisjoint, ScanInv, ScanStep
    PROVE  ScanInv' /\ YesIsRight'
  <1>1. Covered \/ ScannedBelow
    BY DEF ScanInv, ScannedBelow, ScanStep, ScanGap, ScanRange, ScanEnd, More, Scanning
  <1>2. Covered => Covered'
    BY AnswerKeepsRanges, ModesAreKept
  <1>3. CASE ScanGap
    <2>1. Covered' \/ ScannedBelow' \/ answer' = "no"
      BY <1>1, <1>2, <1>3, GapKeepsScanInv DEF ScanGap, Answer
    <2>2. answer' \in {"no", "scanning"}
      BY <1>3 DEF ScanGap, Answer, More, Scanning
    <2>3. QED
      BY <2>1, <2>2 DEF ScanInv, ScannedBelow, YesIsRight, Scanning
  <1>4. CASE ScanRange
    <2>1. Covered' \/ ScannedBelow' \/ answer' = "no"
      <3>1. PICK r \in range :
               /\ r.start = it
               /\ IF r.mode = query.mode
                  THEN /\ cursor' = AfterEndOf(r)
                       /\ \E x \in Positions : IsNext(x) /\ it' = x
                       /\ UNCHANGED <<range, defaultMode, query, answer>>
                  ELSE Answer("no")
        BY <1>4 DEF ScanRange
      <3>2. More /\ ~InGap
        BY <1>4 DEF ScanRange
      <3>3. CASE r.mode # query.mode
        BY <3>1, <3>3 DEF Answer
      <3>4. CASE r.mode = query.mode
        BY <1>1, <1>2, <3>1, <3>2, <3>4, RangeKeepsScanInv
      <3>5. QED
        BY <3>3, <3>4
    <2>2. answer' \in {"no", "scanning"}
      BY <1>4 DEF ScanRange, Answer, More, Scanning
    <2>3. QED
      BY <2>1, <2>2 DEF ScanInv, ScannedBelow, YesIsRight, Scanning
  <1>5. CASE ScanEnd
    <2>1. ScannedBelow => Covered
      BY <1>5, ScanTypes DEF ScanEnd, More, ScannedBelow, Covered
    <2>2. answer' = "yes"
      BY <1>5 DEF ScanEnd, Answer
    <2>3. QED
      BY <1>1, <1>2, <2>1, <2>2 DEF ScanInv, YesIsRight, Scanning
  <1>6. QED
    BY <1>3, <1>4, <1>5 DEF ScanStep

\* "yes" is never answered for a range that holds an address of another mode, for
\* every address space, also when the 64-bit cursor wraps around.
THEOREM YesIsAlwaysRight == Spec => [](ScanIsSound)
  <1> DEFINE Inv == ScanInv /\ YesIsRight
  <1>1. Init => Inv
    BY DEF Init, ScanInv, YesIsRight, Scanning
  <1>2. TypeOK /\ RangesAreDisjoint /\ Inv /\ [Next]_vars => Inv'
    <2> SUFFICES ASSUME TypeOK, RangesAreDisjoint, Inv, [Next]_vars PROVE Inv'
      OBVIOUS
    <2>1. CASE AddRange \/ SetDefaultMode
      <3>1. answer' = "idle"
        BY <2>1, ForgetType DEF AddRange, SetDefaultMode
      <3>2. QED
        BY <3>1 DEF ScanInv, YesIsRight, Scanning
    <2>2. CASE IsRangeFullyCovered
      BY <2>2, QueryStarts, QueryStep DEF ScanInv, ScannedBelow, YesIsRight, Scanning
    <2>3. CASE ScanStep
      BY <2>3, ScanStepKeepsInv
    <2>4. CASE UNCHANGED vars
      <3>1. UNCHANGED <<range, defaultMode, query, cursor, it, answer>>
        BY <2>4 DEF vars
      <3>2. QED
        BY <3>1, ModesAreKept DEF ScanInv, YesIsRight, Scanning
    <2>5. QED
      BY <2>1, <2>2, <2>3, <2>4 DEF Next
  <1>3. QED
    BY <1>1, <1>2, PolicyTypeCorrect, PTL DEF Spec, ScanIsSound

-----------------------------------------------------------------------------
(* The reasons for "no" *)

\* The conditions of NoIsRight: the first range visited does not lie in front of the
\* query, and the cursor never wraps around behind a range.
StartIsHeld  == \A r \in Candidate(range, query.start) : query.start <= r.end
NoneAtTheEnd == \A r \in range : r.end # MaxAddr

\* The cursor is in the query, and in front of the end of the next range.
AtOrBeforeNext ==
    /\ query.start <= cursor
    /\ \A r \in range : r.start = it => cursor <= r.end

\* Until the cursor wraps around in the last gap, whose mode is the right one, the
\* address at the cursor is still to be checked.
ScanIsUseful ==
    Scanning /\ StartIsHeld /\ NoneAtTheEnd =>
        (it = End /\ GapHasMode) \/ (ScannedBelow /\ AtOrBeforeNext)

\* The conditions are those of the policy and the query, which a scan keeps.
LEMMA ConditionsAreKept ==
    ASSUME UNCHANGED <<range, query>>
    PROVE  StartIsHeld' = StartIsHeld /\ NoneAtTheEnd' = NoneAtTheEnd
  BY DEF StartIsHeld, NoneAtTheEnd, Candidate

\* One address of another mode is enough.
LEMMA OneIsEnough ==
    ASSUME NEW a \in query.start .. query.end, GetAccessMode(a) # query.mode
    PROVE  ~Covered
  BY DEF Covered

\* A query starts in front of the end of the first range that is visited.
LEMMA QueryStartsUseful ==
    ASSUME TypeOK, RangesAreDisjoint, IsRangeFullyCovered, StartIsHeld'
    PROVE  AtOrBeforeNext'
  <1>1. /\ cursor' = query'.start /\ UNCHANGED range
        /\ query'.start \in Int /\ query'.start <= MaxAddr
        /\ it' \in Positions /\ IsFirstVisited(it', query'.start)
    BY QueryStep, MaxAddrAssumption DEF Ranges, Addrs
  <1>2. it' \in Int
    BY <1>1, PositionsType, MaxAddrAssumption DEF Addrs, End
  <1>3. ASSUME NEW r \in range, r.start = it'
        PROVE  cursor' <= r.end
    <2>1. r.start <= r.end /\ r.start \in Int /\ r.end \in Int
      BY ScanTypes DEF RangesAreDisjoint, Disjoint
    <2>2. CASE it' <= query'.start
      <3>1. ASSUME NEW q \in range, q.start <= query'.start
            PROVE  q.start <= it'
        <4>1. q.start \in Positions
          BY DEF Positions
        <4>2. QED
          BY <1>1, <2>2, <3>1, <4>1 DEF IsFirstVisited
      <3>2. r \in Candidate(range, query'.start)
        BY <1>3, <2>2, <3>1 DEF Candidate
      <3>3. query'.start <= r.end
        BY <1>1, <3>2 DEF StartIsHeld
      <3>4. QED
        BY <1>1, <3>3
    <2>3. CASE ~(it' <= query'.start)
      BY <1>1, <1>2, <1>3, <2>1, <2>3
    <2>4. QED
      BY <2>2, <2>3
  <1>4. QED
    BY <1>1, <1>3 DEF AtOrBeforeNext

\* "no" in a gap: the address at the cursor has the default mode.
LEMMA GapSaysNo ==
    ASSUME TypeOK, ScannedBelow, AtOrBeforeNext, More, InGap, ~GapHasMode
    PROVE  ~Covered
  <1>1. cursor <= query.end /\ cursor \in Addrs /\ cursor \in Int
    BY ScanTypes DEF More, TypeOK
  <1>2. cursor <= GapEnd
    BY <1>1, ScanTypes DEF GapEnd, InGap
  <1>3. GetAccessMode(cursor) = defaultMode
    BY <1>1, <1>2, ModeInGap
  <1>4. cursor \in query.start .. query.end
    BY <1>1, ScanTypes DEF AtOrBeforeNext
  <1>5. QED
    BY <1>3, <1>4, OneIsEnough DEF GapHasMode

\* "no" in a range: the address at the cursor has the mode of the range.
LEMMA RangeSaysNo ==
    ASSUME TypeOK, RangesAreDisjoint, AtOrBeforeNext, More, ~InGap,
           NEW r \in range, r.start = it, r.mode # query.mode
    PROVE  ~Covered
  <1>1. cursor <= query.end /\ cursor \in Addrs /\ cursor \in Int
    BY ScanTypes DEF More, TypeOK
  <1>2. r.start <= cursor /\ cursor <= r.end
    BY <1>1, ScanTypes DEF InGap, AtOrBeforeNext
  <1>3. GetAccessMode(cursor) = r.mode
    BY <1>1, <1>2, ModeOfRange
  <1>4. cursor \in query.start .. query.end
    BY <1>1, ScanTypes DEF AtOrBeforeNext
  <1>5. QED
    BY <1>3, <1>4, OneIsEnough

\* Behind a gap the cursor is at the next range, or it has wrapped around.
LEMMA GapStaysUseful ==
    ASSUME TypeOK, RangesAreDisjoint, ScannedBelow, AtOrBeforeNext, ScanGap, GapHasMode
    PROVE  (it = End /\ GapHasMode)' \/ (ScannedBelow /\ AtOrBeforeNext)'
  <1>1. /\ cursor <= query.end /\ InGap
        /\ UNCHANGED <<range, defaultMode, query, it, answer>>
    BY DEF ScanGap, More
  <1>2. CASE GapEnd = MaxAddr
    <2>1. it = End
      <3>1. it # End => it - 1 < MaxAddr
        BY MaxAddrAssumption DEF TypeOK, Addrs
      <3>2. QED
        BY <1>2, <3>1, ScanTypes DEF GapEnd
    <2>2. QED
      BY <1>1, <2>1 DEF GapHasMode
  <1>3. CASE cursor' = GapEnd + 1 /\ ScannedBelow'
    <2>1. cursor <= GapEnd /\ GapEnd \in Int /\ (it # End => GapEnd <= it - 1)
      BY <1>1, ScanTypes DEF GapEnd, InGap
    <2>2. query.start <= cursor'
      BY <1>3, <2>1, ScanTypes DEF AtOrBeforeNext
    <2>3. ASSUME NEW r \in range, r.start = it
          PROVE  cursor' <= r.end
      <3>1. it # End
        BY <2>3, ScanTypes DEF End, TypeOK, Ranges, Addrs
      <3>2. r.start <= r.end
        BY DEF RangesAreDisjoint, Disjoint
      <3>3. QED
        BY <1>3, <2>1, <2>3, <3>1, <3>2, ScanTypes
    <2>4. QED
      BY <1>1, <1>3, <2>2, <2>3 DEF AtOrBeforeNext
  <1>4. QED
    BY <1>2, <1>3, GapKeepsScanInv

\* Behind a range the cursor is not behind the start of the next one.
LEMMA RangeStaysUseful ==
    ASSUME TypeOK, RangesAreDisjoint, ScannedBelow, AtOrBeforeNext, NoneAtTheEnd,
           More, ~InGap, NEW r \in range, r.start = it, r.mode = query.mode,
           cursor' = AfterEndOf(r), NEW x \in Positions, IsNext(x), it' = x,
           UNCHANGED <<range, defaultMode, query>>
    PROVE  (ScannedBelow /\ AtOrBeforeNext)'
  <1>1. cursor' = r.end + 1 /\ ScannedBelow'
    BY RangeKeepsScanInv DEF NoneAtTheEnd
  <1>2. query.start <= cursor'
    BY <1>1, ScanTypes DEF AtOrBeforeNext, InGap
  <1>3. ASSUME NEW q \in range, q.start = x
        PROVE  cursor' <= q.end
    <2>1. q.start > r.start
      BY <1>3 DEF IsNext
    <2>2. q.start <= q.end /\ r.start <= r.end
      BY DEF RangesAreDisjoint, Disjoint
    <2>3. ~(r.start <= q.end /\ q.start <= r.end)
      BY <2>1, ScanTypes DEF RangesAreDisjoint, Disjoint
    <2>4. QED
      BY <1>1, <2>1, <2>2, <2>3, ScanTypes
  <1>4. QED
    BY <1>1, <1>2, <1>3 DEF AtOrBeforeNext

\* Every step of the scan keeps the reason for its next "no".
LEMMA ScanStepKeepsReason ==
    ASSUME TypeOK, RangesAreDisjoint, ScanIsUseful, ScanStep
    PROVE  ScanIsUseful' /\ NoIsRight'
  <1>1. UNCHANGED <<range, defaultMode, query>> /\ Scanning
    BY AnswerKeepsRanges DEF ScanStep, ScanGap, ScanRange, ScanEnd, More
  <1>2. Covered' = Covered
    BY <1>1, ModesAreKept
  <1>3. NoIsRight' = (answer' = "no" /\ StartIsHeld /\ NoneAtTheEnd => ~Covered)
    BY <1>1, <1>2, ConditionsAreKept DEF NoIsRight, StartIsHeld, NoneAtTheEnd
  <1> DEFINE Reason == (it = End /\ GapHasMode) \/ (ScannedBelow /\ AtOrBeforeNext)
  <1>a. ScanIsUseful' = (answer' = "scanning" /\ StartIsHeld /\ NoneAtTheEnd => Reason')
    <2>1. (StartIsHeld' = StartIsHeld) /\ (NoneAtTheEnd' = NoneAtTheEnd)
      BY <1>1, ConditionsAreKept
    <2>2. ScanIsUseful' = (answer' = "scanning" /\ StartIsHeld' /\ NoneAtTheEnd' => Reason')
      BY DEF ScanIsUseful, Scanning
    <2> HIDE DEF Reason
    <2>3. QED
      BY <2>1, <2>2
  <1>4. SUFFICES ASSUME StartIsHeld, NoneAtTheEnd
                 PROVE  /\ answer' = "no" => ~Covered
                        /\ answer' = "scanning" => Reason'
    <2> HIDE DEF Reason
    <2>1. QED
      BY <1>3, <1>a
  <1>5. Reason
    BY <1>1, <1>4 DEF ScanIsUseful
  <1>6. CASE ScanGap /\ GapHasMode
    <2>1. answer' = "scanning" /\ UNCHANGED it
      BY <1>6 DEF ScanGap, More, Scanning
    <2>2. QED
      BY <1>1, <1>5, <1>6, <2>1, GapStaysUseful DEF GapHasMode
  <1>7. CASE ScanGap /\ ~GapHasMode
    <2>1. answer' = "no" /\ More /\ InGap
      BY <1>7 DEF ScanGap, Answer
    <2>2. QED
      BY <1>5, <1>7, <2>1, GapSaysNo
  <1>8. CASE ScanRange
    <2>1. PICK r \in range :
             /\ r.start = it
             /\ IF r.mode = query.mode
                THEN /\ cursor' = AfterEndOf(r)
                     /\ \E x \in Positions : IsNext(x) /\ it' = x
                     /\ UNCHANGED <<range, defaultMode, query, answer>>
                ELSE Answer("no")
      BY <1>8 DEF ScanRange
    <2>2. More /\ ~InGap /\ it # End
      BY <1>8 DEF ScanRange, InGap
    <2>3. CASE r.mode # query.mode
      <3>1. answer' = "no"
        BY <2>1, <2>3 DEF Answer
      <3>2. QED
        BY <1>5, <2>1, <2>2, <2>3, <3>1, RangeSaysNo
    <2>4. CASE r.mode = query.mode
      <3>1. answer' = "scanning"
        BY <2>1, <2>4, <1>1 DEF Scanning
      <3>2. QED
        BY <1>4, <1>5, <2>1, <2>2, <2>4, <3>1, RangeStaysUseful
    <2>5. QED
      BY <2>3, <2>4
  <1>9. CASE ScanEnd
    BY <1>9 DEF ScanEnd, Answer
  <1>10. QED
    BY <1>6, <1>7, <1>8, <1>9 DEF ScanStep

\* "no" is only answered when some address of the query has another mode, unless the
\* first range visited ends in front of the query or a range ends at UINT64_MAX: for
\* every address space.
THEOREM NoIsAlwaysRight == Spec => []NoIsRight
  <1> DEFINE Inv == ScanIsUseful /\ NoIsRight
  <1>1. Init => Inv
    BY DEF Init, ScanIsUseful, NoIsRight, Scanning
  <1>2. TypeOK /\ RangesAreDisjoint /\ Inv /\ [Next]_vars => Inv'
    <2> SUFFICES ASSUME TypeOK, RangesAreDisjoint, Inv, [Next]_vars PROVE Inv'
      OBVIOUS
    <2>1. CASE AddRange \/ SetDefaultMode
      <3>1. answer' = "idle"
        BY <2>1, ForgetType DEF AddRange, SetDefaultMode
      <3>2. QED
        BY <3>1 DEF ScanIsUseful, NoIsRight, Scanning
    <2>2. CASE IsRangeFullyCovered
      BY <2>2, QueryStarts, QueryStartsUseful, QueryStep DEF ScanIsUseful, NoIsRight, Scanning
    <2>3. CASE ScanStep
      BY <2>3, ScanStepKeepsReason
    <2>4. CASE UNCHANGED vars
      <3>1. UNCHANGED <<range, defaultMode, query, cursor, it, answer>>
        BY <2>4 DEF vars
      <3>2. QED
        BY <3>1, ModesAreKept, ConditionsAreKept
        DEF ScanIsUseful, NoIsRight, Scanning, ScannedBelow, AtOrBeforeNext, GapHasMode, Candidate
    <2>5. QED
      BY <2>1, <2>2, <2>3, <2>4 DEF Next
  <1>3. QED
    BY <1>1, <1>2, PolicyTypeCorrect, PTL DEF Spec
=============================================================================
