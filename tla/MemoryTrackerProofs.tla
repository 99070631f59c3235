------------------------ MODULE MemoryTrackerProofs ------------------------
(***************************************************************************)
(* What is proved of MemoryTracker, for every size of the memory, every    *)
(* file and every number of stores.                                        *)
(***************************************************************************)
EXTENDS MemoryTracker, WellFoundedInduction, TLAPS

\* Induction over the bytes of a load: a property that fails for some byte fails
\* for a first one.
LEMMA LeastNumber ==
    ASSUME NEW T \in SUBSET Nat, T # {}
    PROVE  \E m \in T : \A k \in T : m <= k
<1>1. PICK R : IsWellFoundedOn(R, Nat) /\ \A k, n \in Nat : k < n => <<k, n>> \in R
    <2>1. IsWellFoundedOn(OpToRel(<, Nat), Nat)
        BY NatLessThanWellFounded
    <2>2. \A k, n \in Nat : k < n => <<k, n>> \in OpToRel(<, Nat)
        BY DEF OpToRel
    <2> QED BY <2>1, <2>2, Zenon
<1>2. PICK m \in T : \A k \in T : <<k, m>> \notin R
    <2>1. IsWellFoundedOn(R, Nat) /\ T \subseteq Nat /\ T # {}
        BY <1>1
    <2> QED BY <2>1, WFMin, Zenon
<1>3. \A k \in T : ~(k < m)
    BY <1>1, <1>2
<1> QED BY <1>2, <1>3

\* So a property holds of every byte if it never fails for one without failing
\* for the byte before it.
LEMMA ByteInduction ==
    ASSUME NEW n \in Nat, NEW T \in SUBSET (0 .. n - 1),
           \A i \in T : i # 0 /\ i - 1 \in T
    PROVE  T = {}
<1> SUFFICES ASSUME T # {}
             PROVE  FALSE
    OBVIOUS
<1>1. PICK m \in T : \A k \in T : m <= k
    <2>1. T \in SUBSET Nat
        OBVIOUS
    <2> QED BY <2>1, LeastNumber
<1> QED BY <1>1
-----------------------------------------------------------------------------
(* The groups of retrieveCombinedValue *)

GroupSet == [start : Nat, isRef : BOOLEAN]

\* Each byte's group comes from the group of the byte before it.
AreGroups(f, buf, a, n) ==
    /\ f \in [0 .. n - 1 -> GroupSet]
    /\ \A i \in 0 .. n - 1 : f[i] = GroupOf(buf, a, f[i - 1], i)

\* The group of a byte is a group; that of the first byte is new, whatever the
\* group before it.
LEMMA GroupOfType ==
    ASSUME NEW buf, NEW a
    PROVE  /\ \A i \in Nat : \A g \in GroupSet : GroupOf(buf, a, g, i) \in GroupSet
           /\ \A g : /\ GroupOf(buf, a, g, 0) \in GroupSet
                    /\ GroupOf(buf, a, g, 0)
                         = [start |-> 0, isRef |-> UsesBuffer(buf[a + 0] # Absent, mode[a + 0])]
<1>1. \A i \in Nat : \A g \in GroupSet : GroupOf(buf, a, g, i) \in GroupSet
    BY DEF GroupSet, GroupOf, UsesBuffer
<1>2. \A g : GroupOf(buf, a, g, 0)
               = [start |-> 0, isRef |-> UsesBuffer(buf[a + 0] # Absent, mode[a + 0])]
    BY DEF GroupOf, NewGroup
<1>3. [start |-> 0, isRef |-> UsesBuffer(buf[a + 0] # Absent, mode[a + 0])] \in GroupSet
    BY DEF GroupSet, UsesBuffer
<1> QED BY <1>1, <1>2, <1>3

\* A new group is a reference if the byte is in the buffer, or the group before it
\* is a reference, and its mode lets the buffer be used.
LEMMA NewGroupIs ==
    ASSUME NEW buf, NEW a, NEW g, NEW i, NewGroup(buf, a, g, i)
    PROVE  LET contained == buf[a + i] # Absent \/ (i > 0 /\ g.isRef)
           IN /\ GroupOf(buf, a, g, i).start = i
              /\ GroupOf(buf, a, g, i).isRef <=> contained /\ mode[a + i] # "SYMBOLIC"
<1> DEFINE contained == buf[a + i] # Absent \/ (i > 0 /\ g.isRef)
           uses == UsesBuffer(contained, mode[a + i])
<1>1. GroupOf(buf, a, g, i) = [start |-> i, isRef |-> uses]
    BY DEF GroupOf
<1>2. uses <=> contained /\ mode[a + i] # "SYMBOLIC"
    BY DEF UsesBuffer
<1> HIDE DEF uses
<1>3. GroupOf(buf, a, g, i).start = i /\ GroupOf(buf, a, g, i).isRef = uses
    BY <1>1
<1> QED BY <1>2, <1>3

\* Groups in which each byte's comes from that of the byte before it exist.
LEMMA GroupsExist ==
    ASSUME NEW buf, NEW a, NEW n \in Nat
    PROVE  \E f : AreGroups(f, buf, a, n)
<1> DEFINE T == {k \in 0 .. n : ~ \E f : AreGroups(f, buf, a, k)}
<1>1. ASSUME NEW m \in T, \A k \in T : m <= k
      PROVE  FALSE
    <2>0. m \in 0 .. n /\ ~ \E f : AreGroups(f, buf, a, m)
        OBVIOUS
    <2>1. CASE m = 0
        <3>1. AreGroups([i \in 0 .. -1 |-> 0], buf, a, 0)
            BY DEF AreGroups
        <3> QED BY <2>0, <2>1, <3>1
    <2>2. CASE m # 0
        <3>1. m - 1 \in 0 .. n /\ ~(m <= m - 1)
            BY <2>0, <2>2
        <3>2. PICK f : AreGroups(f, buf, a, m - 1)
            BY <1>1, <3>1
        <3>3. /\ f \in [0 .. m - 2 -> GroupSet]
              /\ \A i \in 0 .. m - 2 : f[i] = GroupOf(buf, a, f[i - 1], i)
            BY <2>0, <2>2, <3>2 DEF AreGroups
        <3> DEFINE last == GroupOf(buf, a, f[m - 2], m - 1)
                   g == [i \in 0 .. m - 1 |-> IF i = m - 1 THEN last ELSE f[i]]
        <3>4. last \in GroupSet
            <4>1. CASE m = 1
                <5>1. GroupOf(buf, a, f[m - 2], 0) \in GroupSet
                    BY GroupOfType
                <5> QED BY <4>1, <5>1
            <4>2. CASE m # 1
                <5>1. f[m - 2] \in GroupSet /\ m - 1 \in Nat
                    BY <2>0, <2>2, <3>3, <4>2
                <5> QED BY <5>1, GroupOfType
            <4> QED BY <4>1, <4>2
        <3> HIDE DEF last
        <3>5. g \in [0 .. m - 1 -> GroupSet]
            BY <2>0, <2>2, <3>3, <3>4
        <3>6. \A i \in 0 .. m - 1 : g[i] = GroupOf(buf, a, g[i - 1], i)
            <4> SUFFICES ASSUME NEW i \in 0 .. m - 1
                         PROVE  g[i] = GroupOf(buf, a, g[i - 1], i)
                OBVIOUS
            <4>1. g[i] = GroupOf(buf, a, f[i - 1], i)
                BY <2>0, <2>2, <3>3 DEF last
            <4>2. CASE i = 0
                <5>1. GroupOf(buf, a, f[i - 1], 0) = GroupOf(buf, a, g[i - 1], 0)
                    BY DEF GroupOf, NewGroup
                <5> QED BY <4>1, <4>2, <5>1
            <4>3. CASE i # 0
                <5>1. g[i - 1] = f[i - 1]
                    BY <2>0, <4>3
                <5> QED BY <4>1, <5>1
            <4> QED BY <4>2, <4>3
        <3> QED BY <2>0, <3>5, <3>6 DEF AreGroups
    <2> QED BY <2>1, <2>2
<1>2. T = {}
    <2>1. T \in SUBSET Nat
        OBVIOUS
    <2> HIDE DEF T
    <2> QED BY <1>1, <2>1, LeastNumber
<1> QED BY <1>2

\* Each byte's group comes from the group of the byte before it: the recursion of
\* Groups, which the loop of retrieveCombinedValue is (GEPTracker.ipp:87).
LEMMA GroupsStep ==
    ASSUME NEW buf, NEW a, NEW n \in Nat
    PROVE  AreGroups(Groups(buf, a, n), buf, a, n)
<1> DEFINE Body(f) == [i \in 0 .. n - 1 |-> GroupOf(buf, a, f[i - 1], i)]
<1>6. PICK f : f = Body(f)
    <2>1. PICK f : AreGroups(f, buf, a, n)
        BY GroupsExist
    <2>2. f = Body(f)
        BY <2>1 DEF AreGroups
    <2> QED BY <2>2
<1>7. Groups(buf, a, n) = Body(Groups(buf, a, n))
    <2> DEFINE H == CHOOSE last : last = [i \in 0 .. n - 1 |-> GroupOf(buf, a, last[i - 1], i)]
    <2>1. Groups(buf, a, n) = H
        BY DEF Groups
    <2>2. H = Body(H)
        BY <1>6, Zenon
    <2> HIDE DEF H
    <2> QED BY <2>1, <2>2
<1> HIDE DEF Body
<1> DEFINE G == Groups(buf, a, n)
           T == {i \in 0 .. n - 1 : G[i] \notin GroupSet}
<1>8. \A i \in 0 .. n - 1 : G[i] = GroupOf(buf, a, G[i - 1], i)
    <2>1. G = Body(G)
        BY <1>7
    <2> HIDE DEF G
    <2> QED BY <2>1 DEF Body
<1> HIDE DEF G
<1>9. ASSUME NEW m \in T
      PROVE  m # 0 /\ m - 1 \in T
    <2>1. CASE m = 0
        BY <1>8, <2>1, GroupOfType
    <2>2. CASE m # 0
        <3>1. G[m] = GroupOf(buf, a, G[m - 1], m) /\ m \in Nat
            BY <1>8
        <3> QED BY <2>2, <3>1, GroupOfType
    <2> QED BY <2>1, <2>2
<1>10. T = {}
    <2>1. T \in SUBSET (0 .. n - 1)
        OBVIOUS
    <2> HIDE DEF T
    <2> QED BY <1>9, <2>1, ByteInduction
<1>11. G = [i \in 0 .. n - 1 |-> G[i]]
    BY <1>7 DEF G, Body
<1> QED BY <1>8, <1>10, <1>11 DEF G, AreGroups

\* A byte that does not start a group has the mode of the first byte, and goes on
\* with the value the group refers to (GEPTracker.ipp:94, 103).
GroupIsContinued(buf, a, g, i) ==
    /\ g.start \in 0 .. i
    /\ g.isRef => mode[a + g.start] # "SYMBOLIC"
    /\ g.start # i => /\ mode[a + i] = mode[a]
                      /\ g.isRef => ~Discontinuous(buf, a, g, i)

\* The groups are so from the first byte on.
LEMMA GroupsAreContinued ==
    ASSUME NEW buf, NEW a, NEW n \in Nat, NEW i \in 0 .. n - 1
    PROVE  GroupIsContinued(buf, a, Groups(buf, a, n)[i], i)
<1> DEFINE G == Groups(buf, a, n)
           T == {j \in 0 .. n - 1 : ~GroupIsContinued(buf, a, G[j], j)}
<1>1. /\ \A j \in 0 .. n - 1 : G[j] \in GroupSet
      /\ \A j \in 0 .. n - 1 : G[j] = GroupOf(buf, a, G[j - 1], j)
    BY GroupsStep DEF AreGroups
<1> HIDE DEF G
<1>2. ASSUME NEW m \in 0 .. n - 1, m = 0 \/ GroupIsContinued(buf, a, G[m - 1], m - 1)
      PROVE  GroupIsContinued(buf, a, G[m], m)
    <2>1. G[m] = GroupOf(buf, a, G[m - 1], m)
        BY <1>1
    <2>2. CASE NewGroup(buf, a, G[m - 1], m)
        <3>1. /\ G[m].start = m
              /\ G[m].isRef => mode[a + m] # "SYMBOLIC"
            BY <2>1, <2>2, NewGroupIs
        <3> QED BY <3>1 DEF GroupIsContinued
    <2>3. CASE ~NewGroup(buf, a, G[m - 1], m)
        <3>1. /\ m # 0 /\ mode[a + m] = mode[a] /\ G[m] = G[m - 1]
              /\ G[m].isRef => ~Discontinuous(buf, a, G[m], m)
            BY <2>1, <2>3 DEF GroupOf, NewGroup, OtherMode
        <3>2. GroupIsContinued(buf, a, G[m], m - 1)
            BY <1>2, <3>1
        <3>3. G[m].start \in 0 .. m
            BY <3>1, <3>2 DEF GroupIsContinued
        <3> QED BY <3>1, <3>2, <3>3 DEF GroupIsContinued
    <2> QED BY <2>2, <2>3
<1>3. \A m \in T : m # 0 /\ m - 1 \in T
    BY <1>2
<1>4. T = {}
    <2>1. T \in SUBSET (0 .. n - 1)
        OBVIOUS
    <2> HIDE DEF T
    <2> QED BY <1>3, <2>1, ByteInduction
<1> QED BY <1>4 DEF G

\* What a tracked byte refers to, and what the program finds there, agree.
Agree(buf, mem) ==
    \A a \in Addrs : buf[a].value > 0 => ExtractByte(buf[a], buf[a].byteOffset) = mem[a]

\* Two references to a value refer to the same bytes.
SameBytes(buf) ==
    \A x, y \in Addrs : buf[x].value > 0 /\ buf[x].value = buf[y].value
                        => buf[x].bytes = buf[y].bytes

\* Where the mode changes once only, a byte has the mode of the byte its group
\* starts with, although lastAccessMode is never updated (GEPTracker.ipp:126).
LEMMA GroupsKeepMode ==
    ASSUME NEW buf, NEW a \in Addrs, NEW n \in Nat, OneBoundary(a, n),
           NEW i \in 0 .. n - 1
    PROVE  mode[a + Groups(buf, a, n)[i].start] = mode[a + i]
<1> DEFINE s == Groups(buf, a, n)[i].start
<1>0. a \in Int
    BY ConstantsAssumption DEF Addrs
<1>1. s \in 0 .. i /\ (s # i => mode[a + i] = mode[a])
    BY GroupsAreContinued DEF GroupIsContinued
<1> HIDE DEF s
<1>2. CASE s = i
    BY <1>2 DEF s
<1>3. CASE s = 0 /\ s # i
    <2>1. a + s = a
        BY <1>0, <1>3
    <2> QED BY <1>1, <1>3, <2>1 DEF s
<1>4. CASE 0 < s /\ s # i
    <2>1. /\ a \in Span(a, n) /\ a + s \in Span(a, n) /\ a + i \in Span(a, n)
          /\ a < a + s /\ a + s < a + i
        BY <1>0, <1>1, <1>4 DEF Span
    <2>2. mode[a + s] = mode[a]
        BY <1>1, <1>4, <2>1 DEF OneBoundary
    <2> QED BY <1>1, <1>4, <2>2 DEF s
<1> QED BY <1>1, <1>2, <1>3, <1>4

\* A group that is a reference is of bytes that are not symbolic.
LEMMA RefsAreConcrete ==
    ASSUME NEW buf, NEW a \in Addrs, NEW n \in Nat, OneBoundary(a, n),
           mode \in [Addrs -> Modes], Span(a, n) \subseteq Addrs,
           NEW i \in 0 .. n - 1, Groups(buf, a, n)[i].isRef
    PROVE  mode[a + i] = "CONCRETE"
<1>1. mode[a + Groups(buf, a, n)[i].start] # "SYMBOLIC"
    BY GroupsAreContinued DEF GroupIsContinued
<1>2. a + i \in Addrs
    BY ConstantsAssumption DEF Addrs, Span
<1>3. mode[a + i] \in Modes
    BY <1>2
<1> QED BY <1>1, <1>3, GroupsKeepMode DEF Modes

\* The bytes that are concrete are read from the buffer if it has them all.
LEMMA ConcreteAreRefs ==
    ASSUME NEW buf, NEW a \in Addrs, NEW n \in Nat, OneBoundary(a, n),
           \A x \in Concrete(a, n) : buf[x] # Absent,
           NEW i \in 0 .. n - 1, mode[a + i] = "CONCRETE"
    PROVE  Groups(buf, a, n)[i].isRef
<1> DEFINE G == Groups(buf, a, n)
           T == {j \in 0 .. n - 1 : mode[a + j] = "CONCRETE" /\ ~G[j].isRef}
<1>0. a \in Int
    BY ConstantsAssumption DEF Addrs
<1>1. \A j \in 0 .. n - 1 : G[j] = GroupOf(buf, a, G[j - 1], j)
    BY GroupsStep DEF AreGroups
<1>2. \A j \in 0 .. n - 1 : mode[a + G[j].start] = mode[a + j]
    BY GroupsKeepMode
<1> HIDE DEF G
<1>3. ASSUME NEW m \in T
      PROVE  m # 0 /\ m - 1 \in T
    <2>1. buf[a + m] # Absent
        BY <1>0 DEF Concrete, Span
    <2>2. ~NewGroup(buf, a, G[m - 1], m)
        BY <1>1, <2>1, NewGroupIs
    <2>3. m # 0 /\ G[m] = G[m - 1]
        BY <1>1, <2>2 DEF GroupOf, NewGroup
    <2>4. m - 1 \in 0 .. n - 1 /\ mode[a + (m - 1)] = mode[a + m]
        BY <1>2, <2>3
    <2> QED BY <2>3, <2>4
<1>4. T = {}
    <2>1. T \in SUBSET (0 .. n - 1)
        OBVIOUS
    <2> HIDE DEF T
    <2> QED BY <1>3, <2>1, ByteInduction
<1> QED BY <1>4 DEF G

\* Nothing is read from the buffer if it has none of the concrete bytes.
LEMMA AbsentAreNoRefs ==
    ASSUME NEW buf, NEW a \in Addrs, NEW n \in Nat,
           mode \in [Addrs -> Modes], Span(a, n) \subseteq Addrs,
           \A x \in Concrete(a, n) : buf[x] = Absent,
           NEW i \in 0 .. n - 1
    PROVE  ~Groups(buf, a, n)[i].isRef
<1> DEFINE G == Groups(buf, a, n)
           T == {j \in 0 .. n - 1 : G[j].isRef}
<1>0. a \in Int
    BY ConstantsAssumption DEF Addrs
<1>1. \A j \in 0 .. n - 1 : G[j] = GroupOf(buf, a, G[j - 1], j)
    BY GroupsStep DEF AreGroups
<1> HIDE DEF G
<1>3. ASSUME NEW m \in T
      PROVE  m # 0 /\ m - 1 \in T
    <2>1. a + m \in Span(a, n)
        BY <1>0 DEF Span
    <2>2. mode[a + m] \in Modes
        BY <2>1
    <2>3. buf[a + m] = Absent \/ mode[a + m] = "SYMBOLIC"
        BY <2>1, <2>2 DEF Concrete, Modes
    <2>4. CASE NewGroup(buf, a, G[m - 1], m)
        BY <1>1, <2>3, <2>4, NewGroupIs
    <2>5. CASE ~NewGroup(buf, a, G[m - 1], m)
        <3>1. m # 0 /\ G[m] = G[m - 1]
            BY <1>1, <2>5 DEF GroupOf, NewGroup
        <3> QED BY <3>1
    <2> QED BY <2>4, <2>5
<1>4. T = {}
    <2>1. T \in SUBSET (0 .. n - 1)
        OBVIOUS
    <2> HIDE DEF T
    <2> QED BY <1>3, <2>1, ByteInduction
<1> QED BY <1>4 DEF G

\* The load that was asked for gives the symbolic bytes as the program finds them.
RealWhereSymbolic(real, mem, a, n) ==
    \A i \in 0 .. n - 1 : mode[a + i] = "SYMBOLIC" => real[i] = mem[a + i]

\* The buffer has the concrete bytes of a load.
FromBuffer(buf, a, n) == \A x \in Concrete(a, n) : buf[x].value > 0

OffsetsOK(buf) == \A x \in Addrs : buf[x].byteOffset \in Nat

\* A load whose concrete bytes the buffer has comes out as the program finds it.
LEMMA TrackedLoad ==
    ASSUME NEW buf, NEW mem, NEW real, NEW a \in Addrs, NEW n \in Nat, OneBoundary(a, n),
           mode \in [Addrs -> Modes], Span(a, n) \subseteq Addrs,
           Agree(buf, mem), SameBytes(buf),
           OffsetsOK(buf), FromBuffer(buf, a, n),
           RealWhereSymbolic(real, mem, a, n)
    PROVE  Combined(buf, a, n, real) = [i \in 0 .. n - 1 |-> mem[a + i]]
<1>0. a \in Int
    BY ConstantsAssumption DEF Addrs
<1>1. Absent.value = -1
    BY DEF Absent, Ref
<1>2. \A x \in Concrete(a, n) : buf[x] # Absent /\ buf[x].value > 0
    BY <1>1 DEF FromBuffer
<1> SUFFICES ASSUME NEW i \in 0 .. n - 1
             PROVE  Combined(buf, a, n, real)[i] = mem[a + i]
    BY DEF Combined
<1> DEFINE g == Groups(buf, a, n)[i]
<1>3. Combined(buf, a, n, real)[i] =
          IF g.isRef THEN ExtractByte(buf[a + g.start], buf[a + g.start].byteOffset + (i - g.start))
          ELSE IF mode[a + g.start] = "SYMBOLIC" THEN real[i] ELSE FileByte(a + i)
    BY DEF Combined
<1>4. a + i \in Span(a, n) /\ mode[a + i] \in Modes
    BY <1>0 DEF Span
<1>5. CASE mode[a + i] = "SYMBOLIC"
    <2>1. ~g.isRef
        BY <1>5, RefsAreConcrete
    <2>2. mode[a + g.start] = "SYMBOLIC"
        BY <1>5, GroupsKeepMode
    <2> HIDE DEF g
    <2> QED BY <1>3, <1>5, <2>1, <2>2 DEF RealWhereSymbolic
<1>6. CASE mode[a + i] = "CONCRETE"
    <2>1. g.isRef
        BY <1>2, <1>6, ConcreteAreRefs
    <2>2. g.start \in 0 .. i /\ (g.start # i => ~Discontinuous(buf, a, g, i))
        BY <2>1, GroupsAreContinued DEF GroupIsContinued
    <2> HIDE DEF g
    <2>3. buf[a + i].value > 0 /\ buf[a + i] # Absent
        BY <1>2, <1>4, <1>6 DEF Concrete
    <2>4. ExtractByte(buf[a + i], buf[a + i].byteOffset) = mem[a + i]
        BY <1>4, <2>3 DEF Agree
    <2>5. CASE g.start = i
        <3>1. buf[a + i].byteOffset + (i - i) = buf[a + i].byteOffset
            BY <1>4 DEF OffsetsOK
        <3> QED BY <1>3, <2>1, <2>4, <2>5, <3>1
    <2>6. CASE g.start # i
        <3>1. /\ buf[a + g.start].value = buf[a + i].value
              /\ buf[a + i].byteOffset = buf[a + g.start].byteOffset + (i - g.start)
            BY <2>2, <2>3, <2>6 DEF Discontinuous, AtOrNull
        <3>2. a + g.start \in Addrs
            BY <1>0, <2>2 DEF Span
        <3>3. buf[a + g.start].bytes = buf[a + i].bytes
            BY <1>4, <2>3, <3>1, <3>2 DEF SameBytes
        <3> QED BY <1>3, <2>1, <2>4, <3>1, <3>3 DEF ExtractByte
    <2> QED BY <2>5, <2>6
<1> QED BY <1>4, <1>5, <1>6 DEF Modes

\* The buffer has none of the concrete bytes of a load, but the file has them.
FromFile(buf, mem, a, n) == \A x \in Concrete(a, n) : buf[x] = Absent /\ FileByte(x) = mem[x]

\* A load of which the buffer has none of the concrete bytes comes out as the
\* program finds it if the file has them.
LEMMA FileLoad ==
    ASSUME NEW buf, NEW mem, NEW real, NEW a \in Addrs, NEW n \in Nat, OneBoundary(a, n),
           mode \in [Addrs -> Modes], Span(a, n) \subseteq Addrs,
           FromFile(buf, mem, a, n),
           RealWhereSymbolic(real, mem, a, n)
    PROVE  Combined(buf, a, n, real) = [i \in 0 .. n - 1 |-> mem[a + i]]
<1>0. a \in Int
    BY ConstantsAssumption DEF Addrs
<1> SUFFICES ASSUME NEW i \in 0 .. n - 1
             PROVE  Combined(buf, a, n, real)[i] = mem[a + i]
    BY DEF Combined
<1> DEFINE g == Groups(buf, a, n)[i]
<1>1. ~g.isRef
    BY AbsentAreNoRefs DEF FromFile
<1>2. Combined(buf, a, n, real)[i] =
          IF mode[a + g.start] = "SYMBOLIC" THEN real[i] ELSE FileByte(a + i)
    BY <1>1 DEF Combined
<1>3. mode[a + g.start] = mode[a + i]
    BY GroupsKeepMode
<1>4. a + i \in Span(a, n) /\ mode[a + i] \in Modes
    BY <1>0 DEF Span
<1> HIDE DEF g
<1> QED BY <1>2, <1>3, <1>4 DEF Concrete, Modes, FromFile, RealWhereSymbolic

-----------------------------------------------------------------------------
(* The buffer and the memory of the program *)
\* ValueByteReference, or a null reference, or none.
IsRef(ref) == ref \in {NullRef, Absent} \/ \E n \in Sizes : ref \in RefsOf(n)

\* What the tracker holds after nv values: a reference or none for each address,
\* to values stored so far, and to the same bytes for the same value.
BufferOK(buf, nv) ==
    /\ DOMAIN buf = Addrs
    /\ \A x \in Addrs : IsRef(buf[x]) /\ buf[x].value <= nv
    /\ SameBytes(buf)

\* The buffer and the memory of the program in step: a byte that was tracked is
\* what the program finds there, one that never was is as at first.
InStep(buf, mem) ==
    /\ Agree(buf, mem)
    /\ \A x \in Addrs : buf[x] = Absent => mem[x] = Initial(x)

\* A reference to bytes, to a null value or to none: what it gives are contents.
LEMMA RefFacts ==
    ASSUME NEW ref, IsRef(ref)
    PROVE  /\ ref.value \in Int /\ ref.byteOffset \in Nat
           /\ \A i : ExtractByte(ref, i) \in Contents
           /\ ref.value > 0 => ref # NullRef /\ ref # Absent
<1>1. NullRef.value = 0 /\ NullRef.byteOffset = 0 /\ NullRef.bytes = <<>>
    BY DEF NullRef, Ref
<1>2. Absent.value = -1 /\ Absent.byteOffset = 0 /\ Absent.bytes = <<>>
    BY DEF Absent, Ref
<1>3. Zero \in Contents
    BY ConstantsAssumption DEF Zero, Contents
<1>4. DOMAIN <<>> = {}
    OBVIOUS
<1>5. CASE ref \in {NullRef, Absent}
    <2>1. ref.bytes = <<>>
        BY <1>1, <1>2, <1>5
    <2> QED BY <1>1, <1>2, <1>3, <1>4, <1>5, <2>1 DEF ExtractByte
<1>6. CASE \E n \in Sizes : ref \in RefsOf(n)
    <2>1. PICK n \in Sizes : ref \in RefsOf(n)
        BY <1>6
    <2>2. /\ ref.value \in Values /\ ref.byteOffset \in 0 .. n - 1
          /\ ref.bytes \in [0 .. n - 1 -> Contents]
        BY <2>1 DEF RefsOf
    <2>3. \A i : ExtractByte(ref, i) \in Contents
        BY <1>3, <2>2 DEF ExtractByte
    <2> QED BY <1>1, <1>2, <2>2, <2>3 DEF Values
<1> QED BY <1>5, <1>6 DEF IsRef

\* A null reference, which a load may leave, is not the absence of one.
LEMMA NullIsNotAbsent == /\ NullRef # Absent /\ NullRef.value = 0 /\ Absent.value = -1
                         /\ IsRef(NullRef) /\ IsRef(Absent)
<1>1. NullRef.value = 0 /\ Absent.value = -1
    BY DEF NullRef, Absent, Ref
<1> QED BY <1>1 DEF IsRef

\* Reading the buffer only adds null references, and only where there is none
\* (GEPTracker.ipp:97).
LEMMA RetrieveAdds ==
    ASSUME NEW buf, NEW a, NEW n, NEW x \in Addrs
    PROVE  \/ AfterRetrieve(buf, a, n)[x] = buf[x]
           \/ buf[x] = Absent /\ AfterRetrieve(buf, a, n)[x] = NullRef
BY DEF AfterRetrieve, AtOrNull

\* So it does not disturb the tracked bytes.
LEMMA RetrieveKeeps ==
    ASSUME NEW buf, NEW mem, NEW nv \in Nat, NEW a, NEW n
    PROVE  /\ BufferOK(buf, nv) => BufferOK(AfterRetrieve(buf, a, n), nv)
           /\ InStep(buf, mem) => InStep(AfterRetrieve(buf, a, n), mem)
<1> DEFINE new == AfterRetrieve(buf, a, n)
<1>1. \A x \in Addrs : new[x] = buf[x] \/ (buf[x] = Absent /\ new[x] = NullRef)
    BY RetrieveAdds
<1>2. DOMAIN new = Addrs
    BY DEF AfterRetrieve
<1> HIDE DEF new
<1>3. \A x \in Addrs : new[x].value > 0 => new[x] = buf[x]
    BY <1>1, NullIsNotAbsent
<1>4. BufferOK(buf, nv) => BufferOK(new, nv)
    <2> SUFFICES ASSUME BufferOK(buf, nv) PROVE BufferOK(new, nv)
        OBVIOUS
    <2>1. \A x \in Addrs : IsRef(new[x]) /\ new[x].value <= nv
        BY <1>1, NullIsNotAbsent DEF BufferOK
    <2>2. SameBytes(new)
        BY <1>3 DEF BufferOK, SameBytes
    <2> QED BY <1>2, <2>1, <2>2 DEF BufferOK
<1>5. InStep(buf, mem) => InStep(new, mem)
    BY <1>1, <1>3, NullIsNotAbsent DEF InStep, Agree
<1> QED BY <1>4, <1>5 DEF new

\* A value that is new has bytes of its own.
LEMMA AddKeepsBuffer ==
    ASSUME NEW buf, NEW nv \in Nat, NEW v \in Values, NEW a \in Addrs, NEW n \in Sizes,
           BufferOK(buf, nv), v > nv, NEW bytes \in [0 .. n - 1 -> Contents]
    PROVE  BufferOK(AddValueReference(buf, v, a, n, bytes), v)
<1> DEFINE new == AddValueReference(buf, v, a, n, bytes)
<1>0. Addrs \subseteq Int /\ n \in Nat /\ v \in Nat
    BY ConstantsAssumption DEF Addrs, Values
<1>1. \A x \in Addrs : new[x] = IF x \in Span(a, n) THEN Ref(v, x - a, bytes) ELSE buf[x]
    BY DEF AddValueReference
<1>2. DOMAIN new = Addrs
    BY DEF AddValueReference
<1> HIDE DEF new
<1>3. ASSUME NEW x \in Addrs, x \in Span(a, n)
      PROVE  /\ new[x].value = v /\ new[x].bytes = bytes /\ new[x] \in RefsOf(n)
    <2>1. new[x] = Ref(v, x - a, bytes) /\ x - a \in 0 .. n - 1
        BY <1>0, <1>1, <1>3 DEF Span
    <2> QED BY <2>1 DEF Ref, RefsOf
<1>4. ASSUME NEW x \in Addrs, x \notin Span(a, n)
      PROVE  new[x] = buf[x] /\ IsRef(buf[x]) /\ new[x].value \in Int /\ new[x].value <= nv
    BY <1>1, <1>4, RefFacts DEF BufferOK
<1>5. \A x \in Addrs : IsRef(new[x]) /\ new[x].value <= v
    BY <1>0, <1>3, <1>4 DEF IsRef
<1>6. ASSUME NEW x \in Addrs, NEW y \in Addrs, new[x].value > 0, new[x].value = new[y].value
      PROVE  new[x].bytes = new[y].bytes
    <2>1. CASE x \in Span(a, n)
        <3>1. y \in Span(a, n)
            BY <1>0, <1>3, <1>4, <1>6, <2>1
        <3> QED BY <1>3, <2>1, <3>1
    <2>2. CASE x \notin Span(a, n)
        <3>1. y \notin Span(a, n)
            BY <1>0, <1>3, <1>4, <1>6, <2>2
        <3> QED BY <1>4, <1>6, <2>2, <3>1 DEF BufferOK, SameBytes
    <2> QED BY <2>1, <2>2
<1> QED BY <1>2, <1>5, <1>6 DEF BufferOK, SameBytes, new

\* What a store leaves in memory.
AfterWrite(mem, v, a, n) ==
    [x \in Addrs |-> IF x \in Span(a, n) THEN Stored(v, x - a) ELSE mem[x]]

\* A store that is tracked and also emitted keeps the two in step, whatever part
\* of an older value it overwrites (GEPTracker.ipp:19, 351).
LEMMA AddKeepsInStep ==
    ASSUME NEW buf, NEW mem, NEW mem2, NEW w \in Nat \ {0}, NEW a \in Addrs, NEW n \in Nat,
           InStep(buf, mem), NEW bytes, DOMAIN bytes = 0 .. n - 1,
           \A x \in Addrs : mem2[x] = IF x \in Span(a, n) THEN bytes[x - a] ELSE mem[x]
    PROVE  InStep(AddValueReference(buf, w, a, n, bytes), mem2)
<1> DEFINE new == AddValueReference(buf, w, a, n, bytes)
<1>0. Addrs \subseteq Int
    BY ConstantsAssumption DEF Addrs
<1> SUFFICES ASSUME NEW x \in Addrs
             PROVE  /\ new[x].value > 0 => ExtractByte(new[x], new[x].byteOffset) = mem2[x]
                    /\ new[x] = Absent => mem2[x] = Initial(x)
    BY DEF InStep, Agree
<1>1. CASE x \in Span(a, n)
    <2>1. new[x] = Ref(w, x - a, bytes)
        BY <1>1 DEF AddValueReference
    <2>2. x - a \in 0 .. n - 1
        BY <1>0, <1>1 DEF Span
    <2>3. new[x].value = w /\ new[x].byteOffset = x - a /\ new[x].bytes = bytes
        BY <2>1 DEF Ref
    <2>4. ExtractByte(new[x], new[x].byteOffset) = bytes[x - a]
        BY <2>2, <2>3 DEF ExtractByte
    <2>5. new[x] # Absent
        BY <2>3, NullIsNotAbsent
    <2> QED BY <1>1, <2>4, <2>5
<1>2. CASE x \notin Span(a, n)
    <2>1. new[x] = buf[x] /\ mem2[x] = mem[x]
        BY <1>2 DEF AddValueReference
    <2> QED BY <2>1 DEF InStep, Agree
<1> QED BY <1>1, <1>2

\* So does a store of a new value.
LEMMA StoreKeepsInStep ==
    ASSUME NEW buf, NEW mem, NEW w \in Nat \ {0}, NEW v, NEW a \in Addrs, NEW n \in Nat,
           InStep(buf, mem)
    PROVE  InStep(AddValueReference(buf, w, a, n, Bytes(v, n)), AfterWrite(mem, v, a, n))
<1>0. Addrs \subseteq Int
    BY ConstantsAssumption DEF Addrs
<1>1. DOMAIN Bytes(v, n) = 0 .. n - 1
    BY DEF Bytes
<1>2. \A x \in Addrs : AfterWrite(mem, v, a, n)[x] =
                           IF x \in Span(a, n) THEN Bytes(v, n)[x - a] ELSE mem[x]
    BY <1>0 DEF AfterWrite, Span, Bytes
<1> QED BY <1>1, <1>2, AddKeepsInStep

-----------------------------------------------------------------------------
(* Arms of a select, and copies *)
\* Whatever comes out of the buffer, the file and a load is a content.
LEMMA CombinedType ==
    ASSUME NEW buf, NEW nv, BufferOK(buf, nv), NEW a \in Addrs, NEW n \in Nat,
           Span(a, n) \subseteq Addrs, NEW real \in [0 .. n - 1 -> Contents]
    PROVE  Combined(buf, a, n, real) \in [0 .. n - 1 -> Contents]
<1>0. Addrs \subseteq Nat
    BY ConstantsAssumption DEF Addrs
<1> SUFFICES ASSUME NEW i \in 0 .. n - 1
             PROVE  Combined(buf, a, n, real)[i] \in Contents
    BY DEF Combined
<1> DEFINE g == Groups(buf, a, n)[i]
<1>1. Combined(buf, a, n, real)[i] =
          IF g.isRef THEN ExtractByte(buf[a + g.start], buf[a + g.start].byteOffset + (i - g.start))
          ELSE IF mode[a + g.start] = "SYMBOLIC" THEN real[i] ELSE FileByte(a + i)
    BY DEF Combined
<1>2. g.start \in 0 .. i
    BY GroupsAreContinued DEF GroupIsContinued
<1> HIDE DEF g
<1>3. a + g.start \in Addrs /\ a + i \in Addrs
    BY <1>0, <1>2 DEF Span
<1>4. IsRef(buf[a + g.start])
    BY <1>3 DEF BufferOK
<1>5. ExtractByte(buf[a + g.start], buf[a + g.start].byteOffset + (i - g.start)) \in Contents
    BY <1>4, RefFacts
<1>6. FileByte(a + i) \in Contents
    BY <1>0, <1>3, ConstantsAssumption DEF FileByte, Initial, Header, Contents
<1> QED BY <1>1, <1>5, <1>6

\* What is in memory is at addresses.
LEMMA SpanInside ==
    ASSUME NEW a, NEW n, InMemory(a, n)
    PROVE  a \in Addrs /\ n \in Sizes /\ n \in Nat \ {0} /\ Span(a, n) \subseteq Addrs
BY ConstantsAssumption DEF InMemory, Addrs, Span

\* The bytes of a value that is stored are contents.
LEMMA BytesType ==
    ASSUME NEW v \in Values, NEW n \in Nat
    PROVE  Bytes(v, n) \in [0 .. n - 1 -> Contents]
BY ConstantsAssumption DEF Bytes, Stored, Contents, Values

\* An arm of a store through a select leaves a buffer the tracker can be in.
LEMMA ArmKeepsBuffer ==
    ASSUME NEW buf, NEW nv \in Nat, NEW v \in Values, BufferOK(buf, nv), v > nv,
           NEW a \in Addrs \cup {Elsewhere}, NEW n \in Sizes, a # Elsewhere => InMemory(a, n),
           NEW taken \in BOOLEAN, NEW stored \in [0 .. n - 1 -> Contents]
    PROVE  BufferOK(Arm(buf, v, a, n, taken, stored), v)
<1>1. CASE a = Elsewhere
    <2>1. Arm(buf, v, a, n, taken, stored) = buf
        BY <1>1 DEF Arm
    <2>2. \A x \in Addrs : buf[x].value \in Int /\ buf[x].value <= nv
        BY RefFacts DEF BufferOK
    <2>3. v \in Int
        BY DEF Values
    <2>4. \A x \in Addrs : buf[x].value <= v
        BY <2>2, <2>3
    <2> QED BY <2>1, <2>4 DEF BufferOK
<1>2. CASE a # Elsewhere
    <2> DEFINE zeros == [i \in 0 .. n - 1 |-> Zero]
               old == Combined(buf, a, n, zeros)
               new == AfterRetrieve(buf, a, n)
               bytes == IF taken THEN stored ELSE old
    <2>1. a \in Addrs /\ n \in Nat /\ Span(a, n) \subseteq Addrs
        BY <1>2, SpanInside
    <2>2. zeros \in [0 .. n - 1 -> Contents]
        BY ConstantsAssumption DEF Zero, Contents
    <2> HIDE DEF zeros
    <2>3. old \in [0 .. n - 1 -> Contents]
        BY <2>1, <2>2, CombinedType
    <2> HIDE DEF old
    <2>4. bytes \in [0 .. n - 1 -> Contents]
        BY <2>3
    <2>5. BufferOK(new, nv)
        BY RetrieveKeeps
    <2>6. Arm(buf, v, a, n, taken, stored) = AddValueReference(new, v, a, n, bytes)
        BY <1>2 DEF Arm, old, zeros
    <2> HIDE DEF new, bytes
    <2> QED BY <2>1, <2>4, <2>5, <2>6, AddKeepsBuffer
<1> QED BY <1>1, <1>2

\* The arm the program takes holds the value stored.
LEMMA TakenArmInStep ==
    ASSUME NEW buf, NEW mem, NEW w \in Nat \ {0}, NEW v, NEW a, NEW n, InMemory(a, n),
           a # Elsewhere, InStep(buf, mem)
    PROVE  InStep(Arm(buf, w, a, n, TRUE, Bytes(v, n)), AfterWrite(mem, v, a, n))
<1>1. Arm(buf, w, a, n, TRUE, Bytes(v, n))
         = AddValueReference(AfterRetrieve(buf, a, n), w, a, n, Bytes(v, n))
    BY DEF Arm
<1>2. InStep(AfterRetrieve(buf, a, n), mem)
    BY RetrieveKeeps
<1>3. a \in Addrs /\ n \in Nat
    BY SpanInside
<1> HIDE DEF AfterWrite
<1> QED BY <1>1, <1>2, <1>3, StoreKeepsInStep

HeldBy(buf, a, n) == \A x \in Span(a, n) : buf[x].value > 0 /\ mode[x] = "CONCRETE"

\* The arm it does not take holds what it held, where the tracker has all of it.
LEMMA OtherArmInStep ==
    ASSUME NEW buf, NEW nv, NEW mem, NEW w \in Nat \ {0}, NEW a, NEW n, InMemory(a, n),
           a # Elsewhere, BufferOK(buf, nv), InStep(buf, mem), NEW stored,
           mode \in [Addrs -> Modes],
           HeldBy(buf, a, n)
    PROVE  InStep(Arm(buf, w, a, n, FALSE, stored), mem)
<1> DEFINE zeros == [i \in 0 .. n - 1 |-> Zero]
           old == Combined(buf, a, n, zeros)
           new == AfterRetrieve(buf, a, n)
<1>1. a \in Addrs /\ n \in Nat /\ Span(a, n) \subseteq Addrs /\ Addrs \subseteq Int
    BY SpanInside, ConstantsAssumption DEF Addrs
<1>2. OneBoundary(a, n)
    BY DEF OneBoundary, HeldBy
<1>3. RealWhereSymbolic(zeros, mem, a, n)
    BY <1>1 DEF Span, HeldBy, RealWhereSymbolic
<1>4. OffsetsOK(buf)
    BY RefFacts DEF BufferOK, OffsetsOK
<1>5. Agree(buf, mem) /\ SameBytes(buf) /\ FromBuffer(buf, a, n)
    BY DEF InStep, BufferOK, Concrete, HeldBy, FromBuffer
<1> HIDE DEF zeros
<1>6. old = [i \in 0 .. n - 1 |-> mem[a + i]]
    BY <1>1, <1>2, <1>3, <1>4, <1>5, TrackedLoad
<1>7. Arm(buf, w, a, n, FALSE, stored) = AddValueReference(new, w, a, n, old)
    BY DEF Arm, zeros
<1>8. InStep(new, mem)
    BY <1>1, RetrieveKeeps
<1> HIDE DEF old, new
<1>9. \A x \in Addrs : mem[x] = IF x \in Span(a, n) THEN old[x - a] ELSE mem[x]
    BY <1>1, <1>6 DEF Span
<1>10. DOMAIN old = 0 .. n - 1
    BY <1>6
<1>11. InStep(AddValueReference(new, w, a, n, old), mem)
    BY <1>1, <1>8, <1>9, <1>10, AddKeepsInStep
<1> QED BY <1>7, <1>11

\* The byte a copied byte comes from is one of the source's.
LEMMA SourceIsInside ==
    ASSUME NEW src \in Addrs, NEW dest \in Addrs, NEW n \in Nat, InMemory(src, n),
           NEW x \in Span(dest, n)
    PROVE  Source(src, dest, n, x) \in Addrs
<1>1. MaxAddr \in Nat /\ src \in Nat /\ dest \in Nat /\ x \in Int
      /\ src + n - 1 <= MaxAddr /\ dest <= x /\ x <= dest + n - 1
    BY ConstantsAssumption DEF Addrs, Span, InMemory
<1>2. CASE src < dest /\ dest < src + n
    <2>1. x - dest \in Nat /\ dest - src \in Nat \ {0} /\ dest - src < n
        BY <1>1, <1>2
    <2>2. (x - dest) % (dest - src) \in 0 .. (dest - src) - 1
        BY <2>1
    <2>3. src + ((x - dest) % (dest - src)) \in 0 .. MaxAddr
        BY <1>1, <2>1, <2>2
    <2> QED BY <1>2, <2>3 DEF Source, Addrs
<1>3. CASE ~(src < dest /\ dest < src + n)
    BY <1>1, <1>3 DEF Source, Addrs
<1> QED BY <1>2, <1>3

\* Copying references as the program copies bytes keeps the two in step, whatever
\* was tracked of the source and however source and destination overlap
\* (GEPTracker.ipp:55).
LEMMA CopyKeeps ==
    ASSUME NEW buf, NEW mem, NEW nv \in Nat, NEW src \in Addrs, NEW dest \in Addrs,
           NEW n \in Sizes, InMemory(src, n), BufferOK(buf, nv)
    PROVE  /\ BufferOK(CopiedRefs(buf, src, dest, n), nv)
           /\ InStep(buf, mem) => InStep(CopiedRefs(buf, src, dest, n), Copied(mem, src, dest, n))
           /\ mem \in [Addrs -> Contents] => Copied(mem, src, dest, n) \in [Addrs -> Contents]
<1> DEFINE new == CopiedRefs(buf, src, dest, n)
           from(x) == IF x \in Span(dest, n) THEN Source(src, dest, n, x) ELSE x
<1>1. \A x \in Addrs : from(x) \in Addrs
    BY ConstantsAssumption, SourceIsInside
<1>2. DOMAIN new = Addrs /\ DOMAIN Copied(mem, src, dest, n) = Addrs
    BY DEF CopiedRefs, Copied
<1>3. \A x \in Addrs : Copied(mem, src, dest, n)[x] = mem[from(x)]
    BY DEF Copied
<1>4. \A x \in Addrs : \/ new[x] = buf[from(x)] /\ (x \in Span(dest, n) => new[x] # Absent)
                       \/ new[x] = NullRef
    BY NullIsNotAbsent DEF CopiedRefs, AtOrNull
<1>5. \A x \in Addrs : IsRef(new[x]) /\ new[x].value <= nv
    BY <1>1, <1>4, NullIsNotAbsent DEF BufferOK
<1>6. \A x \in Addrs : new[x].value > 0 => new[x] = buf[from(x)]
    BY <1>4, NullIsNotAbsent
<1>7. BufferOK(new, nv)
    <2> HIDE DEF new, from
    <2>1. SameBytes(new)
        BY <1>1, <1>6 DEF BufferOK, SameBytes
    <2> QED BY <1>2, <1>5, <2>1 DEF BufferOK
<1>8. InStep(buf, mem) => InStep(new, Copied(mem, src, dest, n))
    <2> SUFFICES ASSUME InStep(buf, mem), NEW x \in Addrs
                 PROVE  /\ new[x].value > 0 => ExtractByte(new[x], new[x].byteOffset)
                                                  = Copied(mem, src, dest, n)[x]
                        /\ new[x] = Absent => Copied(mem, src, dest, n)[x] = Initial(x)
        BY DEF InStep, Agree
    <2>1. new[x].value > 0 => ExtractByte(new[x], new[x].byteOffset) = mem[from(x)]
        <3> HIDE DEF new, from
        <3> QED BY <1>1, <1>6 DEF InStep, Agree
    <2>2. CASE x \notin Span(dest, n)
        <3>1. new[x] = buf[x] /\ Copied(mem, src, dest, n)[x] = mem[x]
            BY <2>2 DEF CopiedRefs, Copied
        <3> HIDE DEF new
        <3> QED BY <1>3, <2>1, <3>1 DEF InStep
    <2>3. CASE x \in Span(dest, n)
        <3>1. new[x] # Absent
            BY <1>4, <2>3, NullIsNotAbsent
        <3> HIDE DEF new
        <3> QED BY <1>3, <2>1, <3>1
    <2> QED BY <2>2, <2>3
<1>9. mem \in [Addrs -> Contents] => Copied(mem, src, dest, n) \in [Addrs -> Contents]
    <2> HIDE DEF from
    <2>1. Copied(mem, src, dest, n) = [x \in Addrs |-> Copied(mem, src, dest, n)[x]]
        BY DEF Copied
    <2> QED BY <1>1, <1>3, <2>1
<1> QED BY <1>7, <1>8, <1>9

-----------------------------------------------------------------------------
(* The invariant *)
\* The inductive invariant: types, references of known values whose bytes agree, and
\* the tracked bytes in step with the program as long as every store was known.
TrackerInv ==
    /\ TypeOK
    /\ BufferOK(buffer, nvalues)
    /\ known => InStep(buffer, memory)

\* The tracker starts with nothing, and the memory with its first content.
LEMMA InitInv == Init => TrackerInv
<1> SUFFICES ASSUME Init PROVE TrackerInv
    OBVIOUS
<1>1. DOMAIN buffer = Addrs /\ \A x \in Addrs : buffer[x] = Absent
    BY DEF Init
<1>2. memory \in [Addrs -> Contents] /\ \A x \in Addrs : memory[x] = Initial(x)
    BY ConstantsAssumption DEF Init, Initial, Contents, Addrs
<1>3. TypeOK
    <2>1. nvalues \in 0 .. MaxStores /\ missed \subseteq Addrs
        BY ConstantsAssumption DEF Init
    <2>2. crashed \in BOOLEAN /\ known \in BOOLEAN /\ mode \in [Addrs -> Modes]
        BY DEF Init
    <2> QED BY <1>1, <1>2, <2>1, <2>2 DEF TypeOK
<1>4. BufferOK(buffer, nvalues)
    BY <1>1, NullIsNotAbsent DEF Init, BufferOK, SameBytes
<1>5. InStep(buffer, memory)
    BY <1>1, <1>2, NullIsNotAbsent DEF InStep, Agree
<1> QED BY <1>3, <1>4, <1>5 DEF TrackerInv

\* A store leaves contents in memory.
LEMMA WriteType ==
    ASSUME NEW mem \in [Addrs -> Contents], NEW v \in Values, NEW a \in Addrs, NEW n \in Nat
    PROVE  AfterWrite(mem, v, a, n) \in [Addrs -> Contents]
BY ConstantsAssumption DEF AfterWrite, Stored, Contents, Values, Addrs, Span

\* insertMemoryOp at a constant address (GEPTracker.ipp:351).
LEMMA StoreStep ==
    ASSUME TrackerInv, Store PROVE TrackerInv'
<1>1. PICK a \in Addrs, n \in Sizes :
         /\ InMemory(a, n)
         /\ buffer' = AddValueReference(buffer, nvalues', a, n, Bytes(nvalues', n))
         /\ Write(nvalues', a, n)
    BY DEF Store
<1>2. nvalues \in Nat /\ nvalues' \in Values /\ nvalues' > nvalues /\ nvalues' \in 0 .. MaxStores
      /\ nvalues' \in Nat \ {0}
    BY ConstantsAssumption DEF TrackerInv, TypeOK, Store, Values
<1>3. n \in Nat /\ a \in Addrs
    BY ConstantsAssumption
<1>4. memory' = AfterWrite(memory, nvalues', a, n) /\ missed' \subseteq missed
    BY <1>1 DEF Write, AfterWrite
<1>5. BufferOK(buffer, nvalues) /\ memory \in [Addrs -> Contents]
    BY DEF TrackerInv, TypeOK
<1>6. BufferOK(buffer', nvalues')
    BY <1>1, <1>2, <1>3, <1>5, BytesType, AddKeepsBuffer
<1>7. memory' \in [Addrs -> Contents]
    BY <1>2, <1>3, <1>4, <1>5, WriteType
<1>8. known' = known /\ known' => InStep(buffer', memory')
    <2>1. known' => InStep(buffer, memory)
        BY DEF TrackerInv, Store
    <2> QED BY <1>1, <1>2, <1>3, <1>4, <2>1, StoreKeepsInStep
<1>9. UNCHANGED <<mode, crashed, known>>
    BY DEF Store
<1>10. TypeOK'
    BY <1>2, <1>4, <1>6, <1>7, <1>9 DEF TrackerInv, TypeOK, BufferOK, IsRef
<1> QED BY <1>6, <1>8, <1>9, <1>10 DEF TrackerInv

\* insertMemoryOp at an address that is not known.
LEMMA StoreUnknownStep ==
    ASSUME TrackerInv, StoreUnknown PROVE TrackerInv'
<1>1. PICK a \in Addrs, n \in Sizes : InMemory(a, n) /\ Write(nvalues', a, n)
    BY DEF StoreUnknown
<1>2. nvalues \in Nat /\ nvalues' \in Values /\ nvalues' > nvalues /\ nvalues' \in 0 .. MaxStores
    BY ConstantsAssumption DEF TrackerInv, TypeOK, StoreUnknown, Values
<1>3. n \in Nat
    BY ConstantsAssumption
<1>4. memory' = AfterWrite(memory, nvalues', a, n) /\ missed' \subseteq missed
    BY <1>1 DEF Write, AfterWrite
<1>5. memory' \in [Addrs -> Contents]
    BY <1>2, <1>3, <1>4, WriteType DEF TrackerInv, TypeOK
<1>6. UNCHANGED <<mode, buffer, crashed>> /\ known' = FALSE
    BY DEF StoreUnknown
<1>7. BufferOK(buffer', nvalues')
    <2>1. \A x \in Addrs : buffer[x].value \in Int /\ buffer[x].value <= nvalues
        BY RefFacts DEF TrackerInv, BufferOK
    <2>2. \A x \in Addrs : buffer[x].value <= nvalues'
        BY <1>2, <2>1
    <2> QED BY <1>6, <2>2 DEF TrackerInv, BufferOK
<1>8. TypeOK'
    BY <1>2, <1>4, <1>5, <1>6 DEF TrackerInv, TypeOK
<1> QED BY <1>6, <1>7, <1>8 DEF TrackerInv

\* createMemcpy (GEPTracker.ipp:55).
LEMMA CopyStep ==
    ASSUME TrackerInv, Copy PROVE TrackerInv'
<1>1. PICK src \in Addrs, dest \in Addrs, n \in Sizes :
         /\ InMemory(src, n) /\ InMemory(dest, n)
         /\ memory' = Copied(memory, src, dest, n)
         /\ missed' = missed \union Span(dest, n)
         /\ \/ known' = FALSE /\ buffer' = buffer /\ crashed' = crashed
            \/ /\ buffer' = CopiedRefs(buffer, src, dest, n) /\ known' = known
               /\ crashed' \in {FALSE, MayGrow(src, dest, n)}
    BY DEF Copy
<1>2. MayGrow(src, dest, n) \in BOOLEAN
    BY DEF MayGrow
<1>3. nvalues' = nvalues /\ mode' = mode
    BY DEF Copy
<1>4. nvalues \in Nat /\ BufferOK(buffer, nvalues) /\ memory \in [Addrs -> Contents]
      /\ (known => InStep(buffer, memory))
    BY ConstantsAssumption DEF TrackerInv, TypeOK
<1>5. memory' \in [Addrs -> Contents] /\ missed' \subseteq Addrs
    BY <1>1, <1>4, CopyKeeps, SpanInside DEF TrackerInv, TypeOK
<1>6. BufferOK(buffer', nvalues')
    BY <1>1, <1>3, <1>4, CopyKeeps
<1>7. known' => InStep(buffer', memory')
    BY <1>1, <1>4, CopyKeeps
<1>8. known' \in BOOLEAN /\ crashed' \in BOOLEAN
    BY <1>1, <1>2 DEF TrackerInv, TypeOK
<1>9. TypeOK'
    BY <1>3, <1>5, <1>6, <1>8 DEF TrackerInv, TypeOK, BufferOK, IsRef
<1> QED BY <1>6, <1>7, <1>9 DEF TrackerInv

\* solveLoad: what a load reads it leaves as it was, but for null references.
LEMMA LoadStep ==
    ASSUME TrackerInv, Load \/ LoadSelect PROVE TrackerInv'
<1>1. UNCHANGED <<mode, nvalues, crashed, memory, missed, known>>
    BY DEF Load, LoadSelect
<1>2. \/ buffer' = buffer
      \/ \E a, n : buffer' = AfterRetrieve(buffer, a, n)
      \/ \E a, b, n : buffer' = AfterRetrieve(AfterRetrieve(buffer, a, n), b, n)
    BY DEF Load, LoadSelect
<1>3. nvalues \in Nat /\ BufferOK(buffer, nvalues) /\ (known => InStep(buffer, memory))
    BY DEF TrackerInv, TypeOK
<1>4. BufferOK(buffer', nvalues) /\ (known => InStep(buffer', memory))
    <2>1. ASSUME NEW a, NEW n
          PROVE  /\ BufferOK(AfterRetrieve(buffer, a, n), nvalues)
                 /\ known => InStep(AfterRetrieve(buffer, a, n), memory)
        BY <1>3, RetrieveKeeps
    <2>2. ASSUME NEW a, NEW b, NEW n
          PROVE  /\ BufferOK(AfterRetrieve(AfterRetrieve(buffer, a, n), b, n), nvalues)
                 /\ known => InStep(AfterRetrieve(AfterRetrieve(buffer, a, n), b, n), memory)
        BY <1>3, <2>1, RetrieveKeeps
    <2> QED BY <1>2, <1>3, <2>1, <2>2
<1>5. TypeOK'
    BY <1>1, <1>4 DEF TrackerInv, TypeOK, BufferOK, IsRef
<1> QED BY <1>1, <1>4, <1>5 DEF TrackerInv

\* insertMemoryOp at a select (GEPTracker.ipp:313): the arm the program takes has
\* the value stored, the other arm what it had.
LEMMA SelectStep ==
    ASSUME TrackerInv, StoreSelect PROVE TrackerInv'
<1>1. PICK yes \in Addrs \cup {Elsewhere}, no \in Addrs \cup {Elsewhere}, n \in Sizes, cond \in BOOLEAN :
          LET arms   == {yes, no} \ {Elsewhere}
              target == IF cond THEN yes ELSE no
          IN /\ yes # no
             /\ \A a \in arms : InMemory(a, n)
             /\ \/ /\ \E a \in arms : FullySymbolic(a, n)
                   /\ crashed' = TRUE
                   /\ UNCHANGED <<buffer, nvalues, memory, missed, known>>
                \/ /\ nvalues' = nvalues + 3
                   /\ buffer' = SelectArms(yes, no, n, cond, nvalues + 1)
                   /\ \E a \in Addrs : /\ InMemory(a, n) /\ target \in {a, Elsewhere}
                                       /\ Write(nvalues + 1, a, n)
                   /\ known' = /\ known /\ target # Elsewhere
                               /\ \A a \in arms : HeldByBuffer(a, n)
                   /\ UNCHANGED crashed
    BY DEF StoreSelect
<1> DEFINE target == IF cond THEN yes ELSE no
           v == nvalues + 1
           first == Arm(buffer, v + 1, yes, n, cond, Bytes(v, n))
<1>2. UNCHANGED mode /\ nvalues + 2 < MaxStores
    BY DEF StoreSelect
<1>3. /\ nvalues \in Nat /\ BufferOK(buffer, nvalues) /\ memory \in [Addrs -> Contents]
      /\ mode \in [Addrs -> Modes]
      /\ known => InStep(buffer, memory)
    BY DEF TrackerInv, TypeOK
<1>4. CASE crashed' = TRUE /\ UNCHANGED <<buffer, nvalues, memory, missed, known>>
    BY <1>2, <1>4 DEF TrackerInv, TypeOK
<1>5. ASSUME nvalues' = nvalues + 3,
             buffer' = SelectArms(yes, no, n, cond, nvalues + 1),
             NEW a \in Addrs, InMemory(a, n), target \in {a, Elsewhere},
             Write(nvalues + 1, a, n),
             known' = /\ known /\ target # Elsewhere
                      /\ \A x \in {yes, no} \ {Elsewhere} : HeldByBuffer(x, n),
             UNCHANGED crashed
      PROVE  TrackerInv'
    <2>1. /\ v \in Values /\ v + 1 \in Values /\ v + 2 \in Values /\ nvalues' \in 0 .. MaxStores
          /\ v + 1 \in Nat \ {0} /\ v + 2 \in Nat \ {0}
          /\ v + 1 > nvalues /\ v + 2 > v + 1 /\ nvalues' = v + 2
        BY <1>2, <1>3, <1>5, ConstantsAssumption DEF Values
    <2>2. /\ yes # Elsewhere => InMemory(yes, n)
          /\ no # Elsewhere => InMemory(no, n)
          /\ n \in Nat
        BY <1>1, ConstantsAssumption
    <2>3. memory' = AfterWrite(memory, v, a, n) /\ missed' \subseteq missed
        BY <1>5 DEF Write, AfterWrite
    <2> HIDE DEF v
    <2>4. memory' \in [Addrs -> Contents]
        BY <1>3, <2>1, <2>2, <2>3, WriteType
    <2>5. Bytes(v, n) \in [0 .. n - 1 -> Contents]
        BY <2>1, <2>2, BytesType
    <2>6. BufferOK(first, v + 1)
        BY <1>1, <1>3, <2>1, <2>2, <2>5, ArmKeepsBuffer
    <2>7. buffer' = Arm(first, v + 2, no, n, ~cond, Bytes(v, n))
        BY <1>5 DEF SelectArms, v
    <2>8. BufferOK(buffer', nvalues')
        <3>1. (~cond) \in BOOLEAN
            OBVIOUS
        <3> HIDE DEF first
        <3> QED BY <2>1, <2>2, <2>5, <2>6, <2>7, <3>1, ArmKeepsBuffer
    <2>9. TypeOK'
        BY <1>2, <1>5, <2>1, <2>3, <2>4, <2>8 DEF TrackerInv, TypeOK, BufferOK, IsRef
    <2>10. ASSUME known'
           PROVE  InStep(buffer', memory')
        <3>1. InStep(buffer, memory) /\ target = a /\ a # Elsewhere
            BY <1>3, <1>5, <2>10
        <3>2. \A x \in {yes, no} \ {Elsewhere} : HeldBy(buffer, x, n)
            BY <1>5, <2>10 DEF HeldByBuffer, HeldBy, Tracked
        <3>3. CASE cond
            <4>1. yes = a
                BY <3>1, <3>3
            <4>2. first = Arm(buffer, v + 1, a, n, TRUE, Bytes(v, n))
                BY <3>3, <4>1
            <4>3. InStep(first, memory')
                BY <1>5, <2>1, <2>3, <3>1, <4>2, TakenArmInStep
            <4>4. buffer' = Arm(first, v + 2, no, n, FALSE, Bytes(v, n))
                BY <2>7, <3>3
            <4>5. CASE no = Elsewhere
                <5>1. buffer' = first
                    BY <4>4, <4>5 DEF Arm
                <5> QED BY <4>3, <5>1
            <4>6. CASE no # Elsewhere
                <5>1. \A y \in Span(no, n) : y \in Addrs /\ mode[y] = "CONCRETE" /\ buffer[y].value > 0
                    BY <2>2, <3>2, <4>6, SpanInside DEF HeldBy
                <5>2. \A y \in Addrs : buffer[y].value > 0 => first[y].value > 0
                    <6> DEFINE ret == AfterRetrieve(buffer, a, n)
                    <6>1. first = AddValueReference(ret, v + 1, a, n, Bytes(v, n))
                        BY <3>1, <4>2 DEF Arm
                    <6>2. \A y \in Addrs : buffer[y].value > 0 => ret[y].value > 0
                        BY RetrieveAdds, NullIsNotAbsent
                    <6> HIDE DEF ret, first
                    <6> QED BY <2>1, <6>1, <6>2 DEF AddValueReference, Ref
                <5>3. HeldBy(first, no, n)
                    BY <5>1, <5>2 DEF HeldBy
                <5> HIDE DEF first
                <5>4. InStep(Arm(first, v + 2, no, n, FALSE, Bytes(v, n)), memory')
                    BY <1>3, <2>1, <2>2, <2>6, <4>3, <4>6, <5>3, OtherArmInStep
                <5> QED BY <4>4, <5>4
            <4> QED BY <4>5, <4>6
        <3>4. CASE ~cond
            <4>1. no = a
                BY <3>1, <3>4
            <4>2. first = Arm(buffer, v + 1, yes, n, FALSE, Bytes(v, n))
                BY <3>4
            <4>3. InStep(first, memory)
                <5>1. CASE yes = Elsewhere
                    <6>1. first = buffer
                        BY <4>2, <5>1 DEF Arm
                    <6> QED BY <3>1, <6>1
                <5>2. CASE yes # Elsewhere
                    <6>1. HeldBy(buffer, yes, n)
                        BY <3>2, <5>2
                    <6>2. InStep(Arm(buffer, v + 1, yes, n, FALSE, Bytes(v, n)), memory)
                        BY <1>3, <2>1, <2>2, <3>1, <5>2, <6>1, OtherArmInStep
                    <6> QED BY <4>2, <6>2
                <5> QED BY <5>1, <5>2
            <4>4. buffer' = Arm(first, v + 2, a, n, TRUE, Bytes(v, n))
                BY <2>7, <3>4, <4>1
            <4> HIDE DEF first
            <4>5. InStep(Arm(first, v + 2, a, n, TRUE, Bytes(v, n)), memory')
                BY <1>5, <2>1, <2>3, <3>1, <4>3, TakenArmInStep
            <4> QED BY <4>4, <4>5
        <3> QED BY <3>3, <3>4
    <2> QED BY <2>8, <2>9, <2>10 DEF TrackerInv
<1> QED BY <1>1, <1>4, <1>5

\* No store, no copy and no load, however they overlap, leads out of the invariant
\* (GEPTracker.ipp:19, 55, 304, 701).
THEOREM TrackerInvariant == Spec => []TrackerInv
<1>1. ASSUME TrackerInv, [Next]_vars
      PROVE  TrackerInv'
    <2>1. CASE UNCHANGED vars
        BY <1>1, <2>1 DEF vars, TrackerInv, TypeOK
    <2> QED BY <1>1, <2>1, StoreStep, StoreUnknownStep, SelectStep, CopyStep, LoadStep DEF Next
<1> QED BY <1>1, InitInv, PTL DEF Spec

\* Every variable holds a value of the kind its code has, whatever is stored,
\* copied and loaded (GEPTracker.ipp:19, 55, 304, 701).
THEOREM TrackerTypeOK == Spec => []TypeOK
<1>1. TrackerInv => TypeOK
    BY DEF TrackerInv
<1> QED BY <1>1, TrackerInvariant, PTL

\* Stores at constants and at selects, copies and loads, however they overlap, keep
\* the tracked bytes those of the program as long as every store was known
\* (GEPTracker.ipp:19, 55, 304, 701).
THEOREM TrackedBytesAreMemory == Spec => []BufferIsMemory
<1>1. TrackerInv => BufferIsMemory
    BY DEF TrackerInv, InStep, Agree, BufferIsMemory, Tracked
<1> QED BY <1>1, TrackerInvariant, PTL

-----------------------------------------------------------------------------
(* Loads *)
\* A load of the IR gives the symbolic bytes as the program finds them, unless a
\* copy changed them.
LEMMA LoadedIsMemory ==
    ASSUME NEW a \in Addrs, NEW n \in Nat, NothingMissed(a, n)
    PROVE  RealWhereSymbolic(Loaded(a, n), memory, a, n)
<1> SUFFICES ASSUME NEW i \in 0 .. n - 1, mode[a + i] = "SYMBOLIC"
             PROVE  Loaded(a, n)[i] = memory[a + i]
    BY DEF RealWhereSymbolic
<1>1. a + i \in Span(a, n)
    BY ConstantsAssumption DEF Addrs, Span
<1>2. a + i \notin missed
    BY <1>1 DEF NothingMissed, Concrete
<1> QED BY <1>2 DEF Loaded

\* What comes out of the buffer, the file and the load of the IR is what the
\* program finds, if the buffer has all the bytes it may have, or none.
LEMMA CombinedIsReal ==
    ASSUME NEW buf, NEW nv, BufferOK(buf, nv), mode \in [Addrs -> Modes],
           NEW a, NEW n, InMemory(a, n), NothingMissed(a, n), OneBoundary(a, n),
           \/ InStep(buf, memory) /\ FromBuffer(buf, a, n)
           \/ FromFile(buf, memory, a, n)
    PROVE  Combined(buf, a, n, Loaded(a, n)) = Real(a, n)
<1> DEFINE real == Loaded(a, n)
<1>1. a \in Addrs /\ n \in Nat /\ Span(a, n) \subseteq Addrs
    BY SpanInside
<1>2. RealWhereSymbolic(real, memory, a, n)
    BY <1>1, LoadedIsMemory
<1> HIDE DEF real
<1>3. Combined(buf, a, n, real) = [i \in 0 .. n - 1 |-> memory[a + i]]
    <2>1. CASE InStep(buf, memory) /\ FromBuffer(buf, a, n)
        <3>1. OffsetsOK(buf)
            BY RefFacts DEF BufferOK, OffsetsOK
        <3>2. Agree(buf, memory) /\ SameBytes(buf)
            BY <2>1 DEF InStep, BufferOK
        <3> QED BY <1>1, <1>2, <2>1, <3>1, <3>2, TrackedLoad
    <2>2. CASE FromFile(buf, memory, a, n)
        BY <1>1, <1>2, <2>2, FileLoad
    <2> QED BY <2>1, <2>2
<1> QED BY <1>3 DEF Real, real

\* What a load leaves in got, where buf is the buffer it reads.
LoadOf(buf, a, n) ==
    /\ InMemory(a, n)
    /\ got' = Got(a, n, Combined(buf, a, n, Loaded(a, n)), Real(a, n))
    /\ UNCHANGED <<mode, memory, missed, known>>
    /\ \A x \in Addrs : /\ buffer'[x].value > 0 => buf[x].value > 0
                        /\ buffer'[x] = Absent => buf[x] = Absent

\* One load, from the buffer or from the arms of a select.
LEMMA LoadIsRight ==
    ASSUME TrackerInv, NEW buf, BufferOK(buf, nvalues), known => InStep(buf, memory),
           NEW a, NEW n, LoadOf(buf, a, n)
    PROVE  LoadsAreRight' /\ SymbolicLoadsAreReal'
<1>1. InMemory(a, n) /\ Span(a, n) \subseteq Addrs /\ mode \in [Addrs -> Modes]
    BY SpanInside DEF LoadOf, TrackerInv, TypeOK
<1>2. /\ got'.addr = a /\ got'.size = n
      /\ got'.bytes = Combined(buf, a, n, Loaded(a, n)) /\ got'.real = Real(a, n)
    BY DEF LoadOf, Got
<1>3. mode' = mode /\ missed' = missed /\ known' = known
    BY DEF LoadOf
<1>4. /\ Concrete(got.addr, got.size)' = Concrete(a, n)
      /\ NothingMissed(got.addr, got.size)' = NothingMissed(a, n)
      /\ OneBoundary(got.addr, got.size)' = OneBoundary(a, n)
    BY <1>2, <1>3 DEF Concrete, NothingMissed, OneBoundary, Span
<1>5. Concrete(a, n) \subseteq Addrs
    BY <1>1 DEF Concrete
<1>6. LoadsAreRight'
    <2> SUFFICES ASSUME known, NothingMissed(a, n), OneBoundary(a, n),
                        \/ \A x \in Concrete(a, n) : Tracked(x)'
                        \/ \A x \in Concrete(a, n) : buffer'[x] = Absent /\ x \in Image
                 PROVE  got'.bytes = got'.real
        BY <1>3, <1>4 DEF LoadsAreRight
    <2>1. InStep(buf, memory)
        OBVIOUS
    <2>2. \/ FromBuffer(buf, a, n)
          \/ FromFile(buf, memory, a, n)
        BY <1>5, <2>1 DEF LoadOf, Tracked, InStep, FileByte, FromFile, FromBuffer
    <2> QED BY <1>1, <1>2, <2>1, <2>2, CombinedIsReal
<1>7. SymbolicLoadsAreReal'
    <2> SUFFICES ASSUME Concrete(a, n) = {}, NothingMissed(a, n)
                 PROVE  got'.bytes = got'.real
        BY <1>3, <1>4 DEF SymbolicLoadsAreReal
    <2>1. \A x \in Span(a, n) : mode[x] = "SYMBOLIC"
        BY <1>1 DEF Concrete, Modes
    <2>2. OneBoundary(a, n)
        BY <2>1 DEF OneBoundary
    <2>3. FromFile(buf, memory, a, n)
        BY DEF FromFile
    <2> QED BY <1>1, <1>2, <2>2, <2>3, CombinedIsReal
<1> QED BY <1>6, <1>7

\* solveLoad at a constant address, also by way of the early exit
\* (GEPTracker.ipp:701).
LEMMA LoadStepIsRight ==
    ASSUME TrackerInv, Load
    PROVE  LoadsAreRight' /\ SymbolicLoadsAreReal'
<1>1. nvalues \in Nat /\ BufferOK(buffer, nvalues) /\ (known => InStep(buffer, memory))
    BY DEF TrackerInv, TypeOK
<1>2. PICK a \in Addrs, n \in Sizes :
          /\ InMemory(a, n)
          /\ \/ /\ FullySymbolic(a, n)
                /\ got' = Got(a, n, Loaded(a, n), Real(a, n))
             \/ /\ got' = Got(a, n, Combined(buffer, a, n, Loaded(a, n)), Real(a, n))
                /\ buffer' = AfterRetrieve(buffer, a, n)
    BY DEF Load
<1>3. UNCHANGED <<mode, memory, missed, known>>
    BY DEF Load
<1>4. CASE FullySymbolic(a, n) /\ got' = Got(a, n, Loaded(a, n), Real(a, n))
    <2>1. got'.addr = a /\ got'.size = n /\ got'.bytes = Loaded(a, n) /\ got'.real = Real(a, n)
        BY <1>4 DEF Got
    <2>2. NothingMissed(got.addr, got.size)' = NothingMissed(a, n)
        BY <1>3, <2>1 DEF Concrete, NothingMissed, Span
    <2>3. ASSUME NothingMissed(a, n)
          PROVE  Loaded(a, n) = Real(a, n)
        <3>1. n \in Nat
            BY <1>2, SpanInside
        <3>2. \A i \in 0 .. n - 1 : mode[a + i] = "SYMBOLIC"
            BY <1>4, ConstantsAssumption DEF FullySymbolic, Span, Addrs
        <3>3. \A i \in 0 .. n - 1 : Loaded(a, n)[i] = memory[a + i]
            BY <1>2, <2>3, <3>1, <3>2, LoadedIsMemory DEF RealWhereSymbolic
        <3> QED BY <3>3 DEF Loaded, Real
    <2> QED BY <2>1, <2>2, <2>3 DEF LoadsAreRight, SymbolicLoadsAreReal
<1>5. CASE /\ got' = Got(a, n, Combined(buffer, a, n, Loaded(a, n)), Real(a, n))
           /\ buffer' = AfterRetrieve(buffer, a, n)
    <2>1. LoadOf(buffer, a, n)
        BY <1>2, <1>3, <1>5, RetrieveAdds, NullIsNotAbsent DEF LoadOf
    <2> QED BY <1>1, <2>1, LoadIsRight
<1> QED BY <1>2, <1>4, <1>5

\* solveLoad at a select of two constants: the second arm reads a buffer the first
\* has read already.
LEMMA LoadSelectStepIsRight ==
    ASSUME TrackerInv, LoadSelect
    PROVE  LoadsAreRight' /\ SymbolicLoadsAreReal'
<1>1. nvalues \in Nat /\ BufferOK(buffer, nvalues) /\ (known => InStep(buffer, memory))
    BY DEF TrackerInv, TypeOK
<1>2. PICK first \in Addrs, second \in Addrs, n \in Sizes :
          /\ InMemory(first, n) /\ InMemory(second, n)
          /\ buffer' = AfterRetrieve(AfterRetrieve(buffer, first, n), second, n)
          /\ \/ got' = Got(first, n, Combined(buffer, first, n, Loaded(first, n)),
                           Real(first, n))
             \/ got' = Got(second, n, Combined(AfterRetrieve(buffer, first, n), second, n,
                                               Loaded(second, n)),
                           Real(second, n))
    BY DEF LoadSelect
<1> DEFINE buf == AfterRetrieve(buffer, first, n)
<1>3. UNCHANGED <<mode, memory, missed, known>>
    BY DEF LoadSelect
<1>4. BufferOK(buf, nvalues) /\ (known => InStep(buf, memory))
    BY <1>1, RetrieveKeeps
<1>5. /\ \A x \in Addrs : buf[x] = buffer[x] \/ (buffer[x] = Absent /\ buf[x] = NullRef)
      /\ \A x \in Addrs : buffer'[x] = buf[x] \/ (buf[x] = Absent /\ buffer'[x] = NullRef)
    BY <1>2, RetrieveAdds
<1>6. CASE got' = Got(first, n, Combined(buffer, first, n, Loaded(first, n)), Real(first, n))
    <2> HIDE DEF buf
    <2>1. LoadOf(buffer, first, n)
        BY <1>2, <1>3, <1>5, <1>6, NullIsNotAbsent DEF LoadOf
    <2> QED BY <1>1, <2>1, LoadIsRight
<1>7. CASE got' = Got(second, n, Combined(buf, second, n, Loaded(second, n)), Real(second, n))
    <2> HIDE DEF buf
    <2>1. LoadOf(buf, second, n)
        BY <1>2, <1>3, <1>5, <1>7, NullIsNotAbsent DEF LoadOf
    <2> QED BY <1>4, <2>1, LoadIsRight
<1> QED BY <1>2, <1>6, <1>7

\* No step makes the last load wrong.
LEMMA LoadsStayRight ==
    ASSUME TrackerInv, LoadsAreRight /\ SymbolicLoadsAreReal, [Next]_vars
    PROVE  LoadsAreRight' /\ SymbolicLoadsAreReal'
<1>1. CASE got' = NoLoad
    BY <1>1 DEF NoLoad, LoadsAreRight, SymbolicLoadsAreReal
<1>2. CASE UNCHANGED vars
    BY <1>2 DEF vars, LoadsAreRight, SymbolicLoadsAreReal, Concrete, NothingMissed, OneBoundary,
        Tracked
<1>3. Store \/ StoreUnknown \/ StoreSelect \/ Copy => got' = NoLoad
    BY DEF Store, StoreUnknown, StoreSelect, Copy
<1> QED BY <1>1, <1>2, <1>3, LoadStepIsRight, LoadSelectStepIsRight DEF Next

\* A load is put together right from bytes of any number of values, of the file and
\* of memory, whatever was overwritten or copied in between and wherever the mode
\* changes (GEPTracker.ipp:87, 781).
THEOREM LoadsGiveMemory == Spec => []LoadsAreRight
<1>1. Init => LoadsAreRight /\ SymbolicLoadsAreReal
    BY DEF Init, NoLoad, LoadsAreRight, SymbolicLoadsAreReal
<1> QED BY <1>1, TrackerInvariant, LoadsStayRight, PTL DEF Spec

\* A load of memory that is symbolic as a whole is real, whatever the tracker holds
\* and whatever it missed (GEPTracker.ipp:701).
THEOREM SymbolicLoadsGiveMemory == Spec => []SymbolicLoadsAreReal
<1>1. Init => LoadsAreRight /\ SymbolicLoadsAreReal
    BY DEF Init, NoLoad, LoadsAreRight, SymbolicLoadsAreReal
<1> QED BY <1>1, TrackerInvariant, LoadsStayRight, PTL DEF Spec
=============================================================================
