------------------------------- MODULE Image -------------------------------
(***************************************************************************)
(* The start of the lifter: InitFunction_and_LiftInstructions loads a PE   *)
(* file, tells the memory policy about its sections and about the stack,   *)
(* and marks the pages of both.  Afterwards the bytes at an address are    *)
(* found through RvaToFileOffset.                                          *)
(*                                                                         *)
(* A file is its sections, each with an address relative to ImageBase      *)
(* (va), a size in memory, an offset and a size in the file, and whether   *)
(* it is writable; headers are at offset zero.  The policy is the module   *)
(* MemoryPolicy, whose ranges the sections are added to.                   *)
(***************************************************************************)
EXTENDS MemoryPolicy

CONSTANTS
    Files,          \* the files that are lifted
    ImageBase,
    SizeImage,
    RvaLimit,       \* 2^32: an RVA is a uint32_t
    StackLow, StackHigh,            \* STACKP_VALUE - 0x1000, and + 0x1000
    StackPagesStart, StackPagesEnd  \* STACKP_VALUE - stackSize, and + stackSize

Sections == [va : Nat \ {0}, vsize : Nat \ {0}, raw : Nat \ {0}, rawSize : Nat, writable : BOOLEAN]

\* What the Windows loader accepts: sections apart from one another, inside the
\* image and in front of the end of the address space.
IsFile(file) ==
    /\ file \subseteq Sections
    /\ \A s \in file : s.va + s.vsize <= SizeImage
    /\ \A s, t \in file : s = t \/ s.va + s.vsize <= t.va \/ t.va + t.vsize <= s.va

ASSUME ImageAssumption ==
    /\ \A f \in Files : IsFile(f)
    /\ {ImageBase, SizeImage, StackLow, StackHigh, StackPagesStart, StackPagesEnd} \subseteq Nat
    /\ RvaLimit \in Nat \ {0}
    /\ SizeImage <= RvaLimit /\ ImageBase + SizeImage <= MaxAddr
    /\ StackPagesStart <= StackLow /\ StackLow <= StackHigh
    /\ StackHigh <= StackPagesEnd /\ StackPagesEnd <= ImageBase

VARIABLES
    file,           \* the sections of the file, sections_v
    added,          \* those whose range the policy has
    stage,          \* "sections", "pages", "search", "lifting": what comes next
    pageMap,        \* start of a page -> its end
    got             \* the last address read, and the offset it was read from

imageVars == <<file, added, stage, pageMap, got>>

Start(s) == ImageBase + s.va
Past(s)  == ImageBase + s.va + s.vsize
InSection(s, a) == Start(s) <= a /\ a < Past(s)
InStack(a)      == StackLow <= a /\ a <= StackHigh
ModeOfSection(s) == IF s.writable THEN "SYMBOLIC" ELSE "CONCRETE"
-----------------------------------------------------------------------------
(* RvaToFileOffset, fileOffsetToRVA, readMemory *)

\* The section before upper_bound(n), if there is one: only it can hold n.
SectionBefore(n) ==
    {s \in file : s.va <= n /\ \A t \in file : t.va <= n => t.va <= s.va}

Shifted(s, n) == n - s.va + s.raw

\* Fault: the first byte after a section belongs to it.
RvaToFileOffsetInclusive(rva) ==
    IF \E s \in SectionBefore(rva) : rva <= s.va + s.vsize
    THEN Shifted(CHOOSE s \in SectionBefore(rva) : TRUE, rva) ELSE 0

RvaToFileOffset(rva) ==
    IF \E s \in SectionBefore(rva) : rva < s.va + s.vsize
    THEN Shifted(CHOOSE s \in SectionBefore(rva) : TRUE, rva) ELSE 0

\* The same search by virtual address, for an offset.  Fault: the end of the
\* section's bytes is not looked at.
fileOffsetToRVAUnbounded(offset) ==
    IF SectionBefore(offset) # {}
    THEN Shifted(CHOOSE s \in SectionBefore(offset) : TRUE, offset) ELSE 0

fileOffsetToRVA(offset) ==
    IF \E s \in SectionBefore(offset) : offset < s.raw + s.rawSize
    THEN Shifted(CHOOSE s \in SectionBefore(offset) : TRUE, offset) ELSE 0

\* address - imageBase, in 64 bits and then cut to 32.
Rva(address) == Wrap(address - ImageBase) % RvaLimit

\* FileBase + offset is never zero, so readMemory never fails.
readMemory(address) == RvaToFileOffset(Rva(address))

NotRead == [addr |-> -1, offset |-> 0]

\* Bound: one read, as it changes nothing.
ReadMemory ==
    /\ stage = "lifting" /\ got = NotRead
    /\ \E address \in Addrs : got' = [addr |-> address, offset |-> readMemory(address)]
    /\ UNCHANGED <<file, added, stage, pageMap>> /\ UNCHANGED vars
-----------------------------------------------------------------------------
(* The policy and the pages *)

\* The section with the lowest address that has not been added: sections_v is
\* sorted.  Fault: it is not.
AnyOrder(s) == s \in file \ added

InOrder(s) == s \in file \ added /\ \A t \in file \ added : s.va <= t.va

\* addRange takes its end inclusive.
AddSection ==
    /\ stage = "sections"
    /\ \E s \in file :
          /\ InOrder(s)
          /\ Put(Start(s), Past(s), ModeOfSection(s))
          /\ added' = added \union {s}
    /\ Forget
    /\ UNCHANGED <<defaultMode, file, stage, pageMap, got>>

AddStack ==
    /\ stage = "sections" /\ added = file
    /\ Put(StackLow, StackHigh, "CONCRETE")
    /\ stage' = "pages"
    /\ Forget
    /\ UNCHANGED <<defaultMode, file, added, pageMap, got>>

\* markMemPaged
WithPage(map, start, end) ==
    [k \in DOMAIN map \union {start} |-> IF k = start THEN end ELSE map[k]]

\* Fault: the pages of the stack are replaced.
ImagePageOnly == WithPage(<<>>, ImageBase, ImageBase + SizeImage)

BothPages ==
    WithPage(WithPage(pageMap, StackPagesStart, StackPagesEnd),
             ImageBase, ImageBase + SizeImage)

MarkPages ==
    /\ stage = "pages"
    /\ pageMap' = BothPages
    /\ stage' = "search"
    /\ UNCHANGED <<file, added, got>> /\ UNCHANGED vars

\* The page before upper_bound(address).
isMemPaged(address) ==
    \E start \in DOMAIN pageMap :
        /\ start <= address /\ address < pageMap[start]
        /\ \A k \in DOMAIN pageMap : k <= address => k <= start

ImageInit ==
    /\ Init /\ defaultMode = "SYMBOLIC"
    /\ file \in Files
    /\ added = {}
    /\ stage = "sections"
    /\ pageMap = <<>>
    /\ got = NotRead

LoadStep == AddSection \/ AddStack \/ MarkPages \/ ReadMemory
-----------------------------------------------------------------------------
(* Properties *)

\* Every variable holds a value of the kind its code has.
ImageTypeOK ==
    /\ file \in Files
    /\ added \subseteq file
    /\ stage \in {"sections", "pages", "search", "lifting"}
    /\ \A k \in DOMAIN pageMap : k \in Nat /\ pageMap[k] \in Nat
    /\ got.addr \in Addrs \union {-1} /\ got.offset \in Nat

\* Each address of a section has the section's mode, also where the range of the
\* section in front of it ends on it (lifter.cpp:86, 94), and the lifter believes
\* only bytes it has a reason to: the stack, the sections that are not writable,
\* and the first byte after each.
PolicyFollowsSections ==
    \A a \in Addrs :
        ~(stage # "sections" /\ InStack(a)) =>
            /\ \A s \in added : InSection(s, a) => GetAccessMode(a) = ModeOfSection(s)
            /\ GetAccessMode(a) = "CONCRETE" =>
                    \E s \in added : ~s.writable /\ (InSection(s, a) \/ a = Past(s))

\* A byte the lifter believes is read where the file has it: inside a section
\* readMemory finds the section's own bytes, although it looks only at the section
\* that starts before it, and on the first byte after one it reads the header.
ConcreteBytesAreFound ==
    got.addr \in Addrs /\ ~InStack(got.addr) /\ GetAccessMode(got.addr) = "CONCRETE" =>
        IF \E s \in file : InSection(s, got.addr)
        THEN \E s \in file : /\ InSection(s, got.addr)
                             /\ got.offset = got.addr - Start(s) + s.raw
        ELSE got.offset = 0

\* What the lifter takes for paged is the stack and the image: looking only at
\* the page before an address misses none (lifterClass.hpp:825).
PagesAreFound ==
    stage \in {"search", "lifting"} =>
        \A a \in Addrs : isMemPaged(a) <=>
            \/ StackPagesStart <= a /\ a < StackPagesEnd
            \/ ImageBase <= a /\ a < ImageBase + SizeImage
=============================================================================
