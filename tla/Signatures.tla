----------------------------- MODULE Signatures -----------------------------
(***************************************************************************)
(* The search for known functions, between the loading of the image and    *)
(* the first lifted block: the Aho-Corasick automaton that finds every     *)
(* signature in the file, and the table the offsets end up in.             *)
(*                                                                         *)
(* A node of the trie is the sequence of bytes that leads to it; the root  *)
(* is empty.  The links are built breadth first, a node at a time, and the *)
(* file is searched a byte at a time.                                      *)
(***************************************************************************)
EXTENDS Image, Sequences, SequencesExt

CONSTANTS
    Starts          \* the files, their bytes and the signatures looked for

ASSUME StartsAssumption ==
    \A p \in Starts : /\ p.file \in Files /\ p.text \in Seq(Nat)
                      /\ p.signatures \subseteq Seq(Nat) \ {<<>>} /\ IsFiniteSet(p.signatures)

VARIABLES
    text, siglookup,        \* the bytes of the file, the signatures
    fail, output, queue,    \* the links of build, and its queue
    current, results,       \* of search; results are <<position, signature>>
    searched,               \* bytes searched
    functions               \* RVA -> the signature it is a function of

searchVars == <<fail, output, queue, current, results, searched, functions>>
allVars    == <<vars, imageVars, text, siglookup, searchVars>>

Root  == <<>>
NoNode == <<-1>>            \* fail = -1
Nodes == {Root} \union UNION {Prefixes(p) : p \in siglookup}
HasChild(n, c) == n # NoNode /\ Append(n, c) \in Nodes
Children(n)    == {m \in Nodes : m # Root /\ Front(m) = n}

\* The first node with a child c on the way along the links from n, or NoNode.
\* Fault: only the first link is tried.
OneLink(n, c) == IF HasChild(n, c) THEN n ELSE NoNode

FollowLinks(n, c) ==
    LET walk[m \in DOMAIN fail \union {NoNode}] ==
            IF m = NoNode \/ HasChild(m, c) THEN m ELSE walk[fail[m]]
    IN walk[n]
-----------------------------------------------------------------------------
(* AhoCorasick: the constructor and build *)

\* The links of the root's children are set and the children queued.
StartBuild ==
    /\ stage = "search" /\ fail = <<>>
    /\ fail' = [n \in {Root} \union Children(Root) |-> IF n = Root THEN NoNode ELSE Root]
    /\ output' = [n \in Nodes |-> IF n \in siglookup THEN <<n>> ELSE <<>>]
    /\ queue' = SetToSeq(Children(Root))
    /\ UNCHANGED <<current, results, searched, functions, text, siglookup, imageVars, vars>>

LinkOf(parent, child) ==
    LET f == FollowLinks(fail[parent], Last(child))
    IN IF f = NoNode THEN Root ELSE Append(f, Last(child))

\* A node also has the output of the node its link goes to.  Fault: it has not.
OwnOutput(n, link) == output[n]

InheritedOutput(n, link) == output[n] \o output[link]

BuildStep ==
    /\ stage = "search" /\ queue # <<>>
    /\ LET parent == Head(queue)
           of == [n \in Children(parent) |-> LinkOf(parent, n)]
       IN /\ fail' = [n \in DOMAIN fail \union Children(parent) |->
                        IF n \in Children(parent) THEN of[n] ELSE fail[n]]
          /\ output' = [n \in Nodes |-> IF n \in Children(parent)
                                        THEN InheritedOutput(n, of[n]) ELSE output[n]]
          /\ queue' = Tail(queue) \o SetToSeq(Children(parent))
    /\ UNCHANGED <<current, results, searched, functions, text, siglookup, imageVars, vars>>
-----------------------------------------------------------------------------
(* search, search_signatures and createOffsetMap *)

Built == stage = "search" /\ fail # <<>> /\ queue = <<>>

\* Where a signature starts that ends with the byte just read.  Fault: one too
\* early.
PositionTooEarly(n) == searched - Len(n)

Position(n) == searched + 1 - Len(n)

SearchStep ==
    /\ Built /\ searched < Len(text)
    /\ LET c == text[searched + 1]
           n == FollowLinks(current, c)
           next == Append(n, c)
       IN IF n = NoNode
          THEN current' = Root /\ UNCHANGED results
          ELSE /\ current' = next
               /\ results' = results \o
                    [k \in DOMAIN output[next] |->
                        <<Position(output[next][k]), output[next][k]>>]
    /\ searched' = searched + 1
    /\ UNCHANGED <<fail, output, queue, functions, text, siglookup, imageVars, vars>>

\* offsets is one vector for all signatures, so every signature claims all of
\* them, and the one that comes last in the table keeps them.
Offsets == {fileOffsetToRVA(r[1]) : r \in ToSet(results)}

CreateOffsetMap ==
    /\ Built /\ searched = Len(text)
    /\ \E last \in siglookup : functions' = [o \in Offsets |-> last]
    /\ stage' = "lifting"
    /\ UNCHANGED <<fail, output, queue, current, results, searched, text, siglookup,
                   file, added, pageMap, got, vars>>
-----------------------------------------------------------------------------
SearchInit ==
    /\ ImageInit
    /\ \E p \in Starts : file = p.file /\ text = p.text /\ siglookup = p.signatures
    /\ fail = <<>> /\ output = <<>> /\ queue = <<>>
    /\ current = Root /\ results = <<>> /\ searched = 0
    /\ functions = <<>>

SearchNext ==
    \/ LoadStep /\ UNCHANGED <<text, siglookup, searchVars>>
    \/ StartBuild \/ BuildStep \/ SearchStep \/ CreateOffsetMap

SearchSpec == SearchInit /\ [][SearchNext]_allVars
-----------------------------------------------------------------------------
(* Properties *)

Matches == {<<i - 1, s>> : i \in 1 .. Len(text), s \in siglookup}
IsMatch(m) ==
    /\ m[1] + Len(m[2]) <= Len(text)
    /\ SubSeq(text, m[1] + 1, m[1] + Len(m[2])) = m[2]

ProperSuffixes(n) == {m \in Nodes : m # n /\ IsSuffix(m, n)}

\* Type invariant: links go from nodes to nodes, and a match is a position.
SearchTypeOK ==
    /\ ImageTypeOK
    /\ \A n \in DOMAIN fail : fail[n] \in Nodes \union {NoNode}
    /\ \A n \in DOMAIN output : ToSet(output[n]) \subseteq siglookup
    /\ ToSet(queue) \subseteq Nodes /\ current \in Nodes
    /\ ToSet(results) \subseteq Nat \X siglookup
    /\ \A k \in DOMAIN functions : functions[k] \in siglookup

\* The link of a node is the longest other node that ends it, and its output is
\* every signature that ends it: build (FunctionSignatures.hpp:146) reads links
\* of shorter nodes only, which are there because it goes breadth first.
LinksAreLongest ==
    \A n \in DOMAIN fail \ {Root} :
        /\ fail[n] \in ProperSuffixes(n)
        /\ \A m \in ProperSuffixes(n) : Len(m) <= Len(fail[n])
        /\ ToSet(output[n]) = {s \in siglookup : IsSuffix(s, n)}

\* The search (FunctionSignatures.hpp:121) finds every place where a signature
\* is, also one inside another or overlapping it, once, and nothing else.
SearchIsExact ==
    /\ Len(results) = Cardinality(ToSet(results))
    /\ ToSet(results) = {m \in Matches : IsMatch(m) /\ m[1] + Len(m[2]) <= searched}

\* In a file that lies in memory as on disk (raw = va), whose sections share no bytes,
\* and with one signature, the functions are the places in sections where it is; a
\* place outside of every section is recorded at zero.
RawApart == \A s, t \in file : \/ s = t
                               \/ s.raw + s.rawSize <= t.raw \/ t.raw + t.rawSize <= s.raw

FlatFunctionsAreFound ==
    /\ stage = "lifting" /\ Cardinality(siglookup) = 1
    /\ RawApart /\ \A s \in file : s.raw = s.va
    =>
        LET inside(m) == \E s \in file : s.raw <= m[1] /\ m[1] < s.raw + s.rawSize
            found == {m \in Matches : IsMatch(m)}
        IN DOMAIN functions = {IF inside(m) THEN m[1] ELSE 0 : m \in found}
=============================================================================
