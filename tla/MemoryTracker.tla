--------------------------- MODULE MemoryTracker ---------------------------
(***************************************************************************)
(* The memory tracker of the lifter (GEPTracker): for every address the    *)
(* buffer holds a reference to a byte of the value last stored there, and  *)
(* a load is put together from such bytes, from bytes of the file, and     *)
(* from bytes of a real load, as the memory policy says.                   *)
(*                                                                         *)
(* A value is an identity; what a byte of memory contains is named by the  *)
(* store that wrote it.  Every store of the program is also emitted, but a *)
(* copy (rep movs) is not: only the tracker knows of it.  memory, missed   *)
(* and known are history variables, the lifter reads none of them.         *)
(***************************************************************************)
EXTENDS Integers, Sequences, FiniteSets

CONSTANTS
    MaxAddr,        \* bound: the last address
    Image,          \* the addresses whose first content is that of the file
    Sizes,          \* the sizes of loads and stores, in bytes
    MaxStores,      \* bound: values stored
    MaxMissed,      \* bound: addresses that have copies before another copy
    Ops             \* the kinds of loads and stores the program uses

OpKinds == {"store", "store_select", "store_unknown", "load", "load_select", "copy"}

ASSUME ConstantsAssumption ==
    /\ MaxAddr \in Nat
    /\ Image \subseteq 0 .. MaxAddr
    /\ Sizes \subseteq Nat \ {0}
    /\ MaxStores \in Nat
    /\ MaxMissed \in Nat
    /\ Ops \subseteq OpKinds

VARIABLES
    mode,           \* address -> its mode in the memory policy, fixed
    buffer,         \* address -> the byte it refers to, or Absent
    nvalues,        \* values stored so far
    crashed,        \* a null value was used, or a reference into freed memory
    got,            \* the last load: its address, its size, what the lifter
                    \* takes its bytes to be, and what they are
    memory,         \* history: address -> its content
    missed,         \* history: the addresses whose content the IR did not store
    known           \* history: the tracker was told of every store

vars == <<mode, buffer, nvalues, crashed, got, memory, missed, known>>

Addrs  == 0 .. MaxAddr
Modes  == {"SYMBOLIC", "CONCRETE"}
Values == 1 .. MaxStores

\* The contents of a byte: what the program finds there, a byte of a store, and
\* what the lifter may read instead.
Initial(a)    == [store |-> 0, byte |-> a]
Stored(v, i)  == [store |-> v, byte |-> i]
Zero          == [store |-> -1, byte |-> 0]
Header        == [store |-> -2, byte |-> 0]
Stale         == [store |-> -3, byte |-> 0]
Contents      == [store : -2 .. MaxStores, byte : Nat]

\* ValueByteReference: a value, a byte of it, and what the bytes of the value are.
Ref(v, i, bytes) == [value |-> v, byteOffset |-> i, bytes |-> bytes]
NullRef == Ref(0, 0, <<>>)
Absent  == Ref(-1, 0, <<>>)
RefsOf(n) == [value : Values, byteOffset : 0 .. n - 1, bytes : [0 .. n - 1 -> Contents]]

\* extractBytes, one byte: a null value has only zeroes.
ExtractByte(ref, i) == IF i \in DOMAIN ref.bytes THEN ref.bytes[i] ELSE Zero

\* readMemory always succeeds; outside the sections it reads the file's header.
FileByte(a) == IF a \in Image THEN Initial(a) ELSE Header

Span(a, n)    == a .. a + n - 1
InMemory(a, n) == a \in Addrs /\ n \in Sizes /\ a + n - 1 \in Addrs
Tracked(a)    == buffer[a].value > 0
-----------------------------------------------------------------------------
(* retrieveCombinedValue *)

\* buffer[currentAddress] adds a null reference where there is none.
AtOrNull(buf, a) == IF buf[a] = Absent THEN NullRef ELSE buf[a]

\* Byte i does not continue the reference the group g starts with.  Fault: only
\* the offset is compared.
OffsetContinues(buf, a, g, i) ==
    AtOrNull(buf, a + i).byteOffset # buf[a + g.start].byteOffset + (i - g.start)

Discontinuous(buf, a, g, i) ==
    \/ buf[a + g.start].value # AtOrNull(buf, a + i).value
    \/ AtOrNull(buf, a + i).byteOffset # buf[a + g.start].byteOffset + (i - g.start)

\* Only bytes that are not symbolic are taken from the buffer.  Fault: all are.
UsesBufferAlways(contained, m) == contained

UsesBuffer(contained, m) == contained /\ m # "SYMBOLIC"

\* A byte whose mode is not that of the first byte is a group of its own.
OtherMode(a, i) == mode[a + i] # mode[a]

\* The group of byte i: a new one, or the group g of the byte before it.
NewGroup(buf, a, g, i) ==
    i = 0 \/ (g.isRef /\ Discontinuous(buf, a, g, i)) \/ OtherMode(a, i)

GroupOf(buf, a, g, i) ==
    LET contained == buf[a + i] # Absent \/ (i > 0 /\ g.isRef)
    IN IF NewGroup(buf, a, g, i)
       THEN [start |-> i, isRef |-> UsesBuffer(contained, mode[a + i])]
       ELSE g

\* The group each of the n bytes from a on belongs to: where it starts, and
\* whether it is a reference or a range of memory.
Groups(buf, a, n) ==
    LET last[i \in 0 .. n - 1] == GroupOf(buf, a, last[i - 1], i)
    IN last

\* The addresses that get a null reference while the groups are formed.
Touched(buf, a, n) ==
    {a + i : i \in {j \in 1 .. n - 1 : Groups(buf, a, n)[j - 1].isRef}}

AfterRetrieve(buf, a, n) ==
    [x \in Addrs |-> IF x \in Touched(buf, a, n) THEN AtOrNull(buf, x) ELSE buf[x]]

\* The bytes that come out; real[i] is what the load that was asked for gives.
Combined(buf, a, n, real) ==
    [i \in 0 .. n - 1 |->
        LET g == Groups(buf, a, n)[i]
        IN IF g.isRef
           THEN ExtractByte(buf[a + g.start],
                            buf[a + g.start].byteOffset + (i - g.start))
           ELSE IF mode[a + g.start] = "SYMBOLIC" THEN real[i]
           ELSE FileByte(a + i)]

\* The early exit, which the policy may miss (see NoIsRight in MemoryPolicy): the
\* value is the load that was asked for, which a store does not have.
FullySymbolic(a, n) == \A x \in Span(a, n) : mode[x] = "SYMBOLIC"

\* What the program finds, and what a load of the emitted IR finds.
Real(a, n)   == [i \in 0 .. n - 1 |-> memory[a + i]]
Loaded(a, n) == [i \in 0 .. n - 1 |-> IF a + i \in missed THEN Stale ELSE memory[a + i]]
-----------------------------------------------------------------------------
(* Stores *)

\* addValueReference.  Fault: the offsets start at one.
AddFromOffsetOne(buf, v, a, n, bytes) ==
    [x \in Addrs |-> IF x \in Span(a, n) THEN Ref(v, x - a + 1, bytes) ELSE buf[x]]

AddValueReference(buf, v, a, n, bytes) ==
    [x \in Addrs |-> IF x \in Span(a, n) THEN Ref(v, x - a, bytes) ELSE buf[x]]

Bytes(v, n) == [i \in 0 .. n - 1 |-> Stored(v, i)]

Write(v, a, n) ==
    /\ memory' = [x \in Addrs |-> IF x \in Span(a, n) THEN Stored(v, x - a) ELSE memory[x]]
    /\ missed' = missed \ Span(a, n)

\* Bound: after a store the tracker was not told of, only loads are followed.  What
\* the tracker holds is not claimed to be right from then on.
Followed == known

NoLoad == [addr |-> 0, size |-> 0, bytes |-> <<>>, real |-> <<>>]

\* insertMemoryOp at a constant address
Store ==
    /\ "store" \in Ops /\ ~crashed /\ Followed
    /\ nvalues < MaxStores
    /\ nvalues' = nvalues + 1
    /\ \E a \in Addrs, n \in Sizes :
          /\ InMemory(a, n)
          /\ buffer' = AddValueReference(buffer, nvalues', a, n, Bytes(nvalues', n))
          /\ Write(nvalues', a, n)
    /\ got' = NoLoad
    /\ UNCHANGED <<mode, crashed, known>>

\* insertMemoryOp at any other address: the tracker keeps what it has.
StoreUnknown ==
    /\ "store_unknown" \in Ops /\ ~crashed /\ Followed
    /\ nvalues < MaxStores
    /\ nvalues' = nvalues + 1
    /\ \E a \in Addrs, n \in Sizes : InMemory(a, n) /\ Write(nvalues', a, n)
    /\ got' = NoLoad
    /\ known' = FALSE
    /\ UNCHANGED <<mode, buffer, crashed>>

\* One arm of a store through a select: the new value is a select between the
\* value stored and what the arm held, so its bytes are one or the other.  An
\* arm that is not a constant address is passed over.
Elsewhere == -1

Arm(buf, v, a, n, taken, stored) ==
    LET old == Combined(buf, a, n, [i \in 0 .. n - 1 |-> Zero])
    IN IF a = Elsewhere THEN buf
       ELSE AddValueReference(AfterRetrieve(buf, a, n), v, a, n,
                              IF taken THEN stored ELSE old)

\* The order of the arms is that of the code.  Fault: the values of the arms are
\* the same way round for both.
SelectFalseArmSwapped(yes, no, n, cond, v) ==
    Arm(Arm(buffer, v + 1, yes, n, cond, Bytes(v, n)),
        v + 2, no, n, cond, Bytes(v, n))

SelectArms(yes, no, n, cond, v) ==
    Arm(Arm(buffer, v + 1, yes, n, cond, Bytes(v, n)),
        v + 2, no, n, ~cond, Bytes(v, n))

\* The old content of an arm is only right when it is read from the buffer.
HeldByBuffer(a, n) ==
    \A x \in Span(a, n) : Tracked(x) /\ mode[x] = "CONCRETE"

\* insertMemoryOp at a select of two addresses, at least one of them constant;
\* cond is what the condition is when the program runs.
StoreSelect ==
    /\ "store_select" \in Ops /\ ~crashed /\ Followed
    /\ nvalues + 2 < MaxStores
    /\ \E yes, no \in Addrs \cup {Elsewhere}, n \in Sizes, cond \in BOOLEAN :
          LET arms   == {yes, no} \ {Elsewhere}
              target == IF cond THEN yes ELSE no
          IN /\ yes # no
             /\ \A a \in arms : InMemory(a, n)
             /\ \/ /\ \E a \in arms : FullySymbolic(a, n)
                   /\ crashed' = TRUE
                   /\ UNCHANGED <<buffer, nvalues, memory, missed, known>>
                \/ /\ nvalues' = nvalues + 3
                   /\ buffer' = SelectArms(yes, no, n, cond, nvalues + 1)
                   /\ \E a \in Addrs : /\ InMemory(a, n) /\ target \in {a, Elsewhere}
                                       /\ Write(nvalues + 1, a, n)
                   /\ known' = /\ known /\ target # Elsewhere
                               /\ \A a \in arms : HeldByBuffer(a, n)
                   /\ UNCHANGED crashed
    /\ got' = NoLoad
    /\ UNCHANGED mode
-----------------------------------------------------------------------------
(* createMemcpy: rep movs of n bytes at constant addresses, upwards *)

\* The byte that comes to x when bytes are copied one after the other: a copy to
\* just behind its source repeats what is in between.
Source(src, dest, n, x) ==
    IF src < dest /\ dest < src + n THEN src + ((x - dest) % (dest - src)) ELSE x - dest + src

Copied(mem, src, dest, n) ==
    [x \in Addrs |-> IF x \in Span(dest, n) THEN mem[Source(src, dest, n, x)] ELSE mem[x]]

\* A byte that is not tracked becomes a null reference.  Fault: it is passed over.
CopiedIfTracked(buf, src, dest, n) ==
    [x \in Addrs |-> LET from == Source(src, dest, n, x)
                     IN IF x \in Span(dest, n) /\ buf[from] # Absent THEN buf[from] ELSE buf[x]]

CopiedRefs(buf, src, dest, n) ==
    [x \in Addrs |-> IF x \in Span(dest, n) THEN AtOrNull(buf, Source(src, dest, n, x))
                     ELSE buf[x]]

\* A DenseMap that grows for the destination leaves the reference to the source
\* dangling: what is copied then may still be the byte, or crash the lifter.
MayGrow(src, dest, n) ==
    \E x \in Span(dest, n) : buffer[x] = Absent /\ buffer[Source(src, dest, n, x)] # Absent

\* Only the first bytes are looked up in the policy.  Left out: elements of more
\* than one byte that overlap their own copies, and copying downwards.
Copy ==
    /\ "copy" \in Ops /\ ~crashed /\ Followed
    /\ Cardinality(missed) <= MaxMissed
    /\ \E src, dest \in Addrs, n \in Sizes :
          /\ InMemory(src, n) /\ InMemory(dest, n) /\ src # dest
          /\ memory' = Copied(memory, src, dest, n)
          /\ missed' = missed \union Span(dest, n)
          /\ IF mode[src] = "SYMBOLIC" \/ mode[dest] = "SYMBOLIC"
             THEN known' = FALSE /\ UNCHANGED <<buffer, crashed>>
             ELSE /\ buffer' = CopiedRefs(buffer, src, dest, n)
                  /\ crashed' \in {FALSE, MayGrow(src, dest, n)}
                  /\ UNCHANGED known
    /\ got' = NoLoad
    /\ UNCHANGED <<mode, nvalues>>
-----------------------------------------------------------------------------
(* Loads *)

Got(a, n, bytes, real) == [addr |-> a, size |-> n, bytes |-> bytes, real |-> real]

\* solveLoad at a constant address
Load ==
    /\ "load" \in Ops /\ ~crashed
    /\ \E a \in Addrs, n \in Sizes :
          /\ InMemory(a, n)
          /\ \/ /\ FullySymbolic(a, n)
                /\ got' = Got(a, n, Loaded(a, n), Real(a, n))
                /\ UNCHANGED buffer
             \/ /\ got' = Got(a, n, Combined(buffer, a, n, Loaded(a, n)), Real(a, n))
                /\ buffer' = AfterRetrieve(buffer, a, n)
    /\ UNCHANGED <<mode, nvalues, crashed, memory, missed, known>>

\* solveLoad at a select of two constant addresses, or at an address with two
\* possible values, first then second; the program loads from the address a.
LoadSelect ==
    /\ "load_select" \in Ops /\ ~crashed
    /\ \E first, second \in Addrs, n \in Sizes :
          /\ InMemory(first, n) /\ InMemory(second, n) /\ first # second
          /\ LET buf == AfterRetrieve(buffer, first, n)
             IN /\ buffer' = AfterRetrieve(buf, second, n)
                /\ \/ got' = Got(first, n, Combined(buffer, first, n, Loaded(first, n)),
                                 Real(first, n))
                   \/ got' = Got(second, n, Combined(buf, second, n, Loaded(second, n)),
                                 Real(second, n))
    /\ UNCHANGED <<mode, nvalues, crashed, memory, missed, known>>
-----------------------------------------------------------------------------
\* The policy is set once, before the first instruction is lifted.
Init ==
    /\ mode \in [Addrs -> Modes]
    /\ buffer = [a \in Addrs |-> Absent]
    /\ nvalues = 0
    /\ crashed = FALSE
    /\ got = NoLoad
    /\ memory = [a \in Addrs |-> Initial(a)]
    /\ missed = {}
    /\ known = TRUE

Next == Store \/ StoreUnknown \/ StoreSelect \/ Copy \/ Load \/ LoadSelect

Spec == Init /\ [][Next]_vars
-----------------------------------------------------------------------------
(* Properties *)

\* Every variable holds a value of the kind its code has.
TypeOK ==
    /\ mode \in [Addrs -> Modes]
    /\ DOMAIN buffer = Addrs
    /\ \A a \in Addrs : \/ buffer[a] \in {NullRef, Absent}
                        \/ \E n \in Sizes : buffer[a] \in RefsOf(n)
    /\ nvalues \in 0 .. MaxStores
    /\ crashed \in BOOLEAN
    /\ memory \in [Addrs -> Contents]
    /\ missed \subseteq Addrs
    /\ known \in BOOLEAN

\* As long as the tracker was told of every store, each byte it tracks is what
\* the program finds at that address, whatever was overwritten in part.
BufferIsMemory ==
    known => \A a \in Addrs : Tracked(a) => ExtractByte(buffer[a], buffer[a].byteOffset) = memory[a]

Concrete(a, n) == {x \in Span(a, n) : mode[x] = "CONCRETE"}

\* The modes change at most once within the load: lastAccessMode is always the
\* mode of the first byte (GEPTracker.ipp:126).
OneBoundary(a, n) ==
    \A i, j, k \in Span(a, n) : i < j /\ j < k /\ mode[i] = mode[k] => mode[j] = mode[i]

\* The loads of the IR that a load of n bytes needs are of what the program has.
NothingMissed(a, n) == (Span(a, n) \ Concrete(a, n)) \intersect missed = {}

\* A load is put together right from bytes of several values, of the file and of
\* memory, when the tracker was told of every store and has either all the bytes
\* the policy lets it know, or none of them and the file has them: the examples
\* of GEPTracker.ipp:781, also where the mode changes.
LoadsAreRight ==
    LET C == Concrete(got.addr, got.size)
    IN /\ known
       /\ NothingMissed(got.addr, got.size)
       /\ OneBoundary(got.addr, got.size)
       /\ (\A x \in C : Tracked(x)) \/ (\A x \in C : buffer[x] = Absent /\ x \in Image)
       => got.bytes = got.real

\* A load of memory that is symbolic as a whole is a real load, whatever the
\* tracker missed and whatever it holds for these addresses: it is right unless
\* a copy changed them, which no store of the IR does.
SymbolicLoadsAreReal ==
    /\ Concrete(got.addr, got.size) = {}
    /\ NothingMissed(got.addr, got.size)
    => got.bytes = got.real

\* "if we know all the stores, we can use our buffer" (GEPTracker.ipp:713): when
\* every store was known, the bytes the tracker has come out of a load.
KnownStoresSuffice ==
    known => \A x \in Span(got.addr, got.size) :
                Tracked(x) => got.bytes[x - got.addr] = got.real[x - got.addr]
=============================================================================
