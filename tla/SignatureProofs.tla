-------------------------- MODULE SignatureProofs ---------------------------
(***************************************************************************)
(* Why the search finds every signature, for every file and every set of   *)
(* signatures. The links are built breadth first, so that all nodes that   *)
(* are not longer than the next queued one have theirs, and a walk along   *)
(* them passes through all nodes that end where it starts, the longest     *)
(* first. That makes the link of a child the longest node that ends it,    *)
(* and the node of the search the longest that ends what it has read.      *)
(* Then the policy the lifter starts with, for every file, and where it    *)
(* reads the bytes it believes. A step of the start adds one range, and    *)
(* what a range does to the mode of an address is PutLookup of the policy. *)
(* At the end is what the search leaves: the table of functions.           *)
(***************************************************************************)
EXTENDS Signatures, MemoryPolicyProofs, SequenceTheorems, FiniteSetTheorems, WellFoundedInduction

-----------------------------------------------------------------------------
(* Words *)

\* The bytes of a file, of a signature or up to a node.
Words == Seq(Nat)

\* s ends t.
Ends(s, t) == /\ Len(s) <= Len(t)
              /\ \A i \in 1 .. Len(s) : s[i] = t[Len(t) - Len(s) + i]

\* Words are sequences of numbers.
LEMMA WordFacts ==
    ASSUME NEW s \in Words
    PROVE  /\ Len(s) \in Nat /\ \A i \in 1 .. Len(s) : s[i] \in Nat
           /\ Len(s) = 0 <=> s = <<>>
BY EmptySeq, LenProperties, ElementOfSeq DEF Words

\* Only the root has no bytes.
LEMMA RootIsShortest ==
    \A s \in Words : Len(s) \in Nat /\ (Len(s) < 1 <=> s = Root)
<1> TAKE s \in Words
<1>1. Len(s) \in Nat /\ (Len(s) = 0 <=> s = Root)
    BY WordFacts DEF Root
<1> DEFINE k == Len(s)
<1>2. k \in Nat /\ (k = 0 <=> s = Root)
    BY <1>1
<1> HIDE DEF k
<1>3. k < 1 <=> s = Root
    BY <1>2
<1> QED BY <1>2, <1>3 DEF k

\* Equal lengths and equal bytes make equal words.
LEMMA WordEqual ==
    ASSUME NEW s \in Words, NEW t \in Words, Len(s) = Len(t),
           \A i \in 1 .. Len(s) : s[i] = t[i]
    PROVE  s = t
BY SeqEqual DEF Words

\* That one word ends another is what the library calls a suffix.
LEMMA IsSuffixIsEnds ==
    ASSUME NEW s \in Words, NEW t \in Words
    PROVE  IsSuffix(s, t) <=> Ends(s, t)
<1>1. Len(s) \in Nat /\ Len(t) \in Nat
    BY WordFacts
<1>2. /\ Reverse(s) = [i \in 1 .. Len(s) |-> s[Len(s) - i + 1]]
      /\ Reverse(t) = [i \in 1 .. Len(t) |-> t[Len(t) - i + 1]]
    BY DEF Reverse
<1>3. \A w \in Words : /\ Reverse(w) \in Words /\ Len(Reverse(w)) = Len(w)
                       /\ \A i \in 1 .. Len(w) : Reverse(w)[i] = w[Len(w) - i + 1]
    <2> TAKE w \in Words
    <2>1. Len(w) \in Nat /\ \A i \in 1 .. Len(w) : w[i] \in Nat
        BY WordFacts
    <2>2. Reverse(w) = [i \in 1 .. Len(w) |-> w[Len(w) - i + 1]]
        BY DEF Reverse
    <2>3. Reverse(w) \in [1 .. Len(w) -> Nat]
        BY <2>1, <2>2
    <2> QED BY <2>1, <2>2, <2>3 DEF Words
<1> DEFINE r == Reverse(s)
           u == Reverse(t)
<1>4. /\ r \in Words /\ u \in Words /\ Len(r) = Len(s) /\ Len(u) = Len(t)
      /\ \A i \in 1 .. Len(s) : r[i] = s[Len(s) - i + 1]
      /\ \A i \in 1 .. Len(t) : u[i] = t[Len(t) - i + 1]
    BY <1>3
<1>5. IsSuffix(s, t) <=> IsPrefix(r, u)
    BY DEF IsSuffix
<1> HIDE DEF r, u
<1>6. IsPrefix(r, u) <=> Len(r) <= Len(u) /\ SubSeq(r, 1, Len(r)) = SubSeq(u, 1, Len(r))
    BY DEF IsPrefix
<1>7. SubSeq(r, 1, Len(r)) = r
    BY <1>4, SubSeqFull DEF Words
<1>8. ASSUME Len(s) <= Len(t)
      PROVE  IsPrefix(r, u) <=> \A i \in 1 .. Len(s) : r[i] = u[i]
    <2> DEFINE v == SubSeq(u, 1, Len(r))
    <2>1. /\ v \in Words /\ Len(v) = Len(s) /\ \A i \in 1 .. Len(s) : v[i] = u[i]
        <3>1. \A i \in 1 .. Len(r) : u[i] \in Nat
            BY <1>1, <1>4, <1>8, WordFacts
        <3>2. /\ v \in Seq(Nat)
              /\ Len(v) = IF 1 <= Len(r) THEN Len(r) - 1 + 1 ELSE 0
              /\ \A i \in 1 .. Len(r) - 1 + 1 : v[i] = u[1 + i - 1]
            BY <1>1, <1>4, <3>1, SubSeqProperties
        <3> QED BY <1>1, <1>4, <3>2 DEF Words
    <2> HIDE DEF v
    <2>2. IsPrefix(r, u) <=> r = v
        BY <1>1, <1>4, <1>6, <1>7, <1>8 DEF v
    <2>3. r = v <=> \A i \in 1 .. Len(s) : r[i] = v[i]
        BY <1>4, <2>1, WordEqual
    <2> QED BY <2>1, <2>2, <2>3
<1>9. ASSUME Len(s) <= Len(t)
      PROVE  (\A i \in 1 .. Len(s) : r[i] = u[i])
                <=> \A i \in 1 .. Len(s) : s[i] = t[Len(t) - Len(s) + i]
    <2>1. \A i \in 1 .. Len(s) : /\ r[i] = s[Len(s) - i + 1]
                                 /\ u[i] = t[Len(t) - i + 1]
        BY <1>1, <1>4, <1>9
    <2>2. ASSUME \A i \in 1 .. Len(s) : r[i] = u[i], NEW i \in 1 .. Len(s)
          PROVE  s[i] = t[Len(t) - Len(s) + i]
        <3> DEFINE j == Len(s) - i + 1
        <3>1. j \in 1 .. Len(s) /\ Len(s) - j + 1 = i /\ Len(t) - j + 1 = Len(t) - Len(s) + i
            BY <1>1
        <3>2. r[j] = u[j] /\ r[j] = s[Len(s) - j + 1] /\ u[j] = t[Len(t) - j + 1]
            BY <2>1, <2>2, <3>1
        <3> QED BY <3>1, <3>2
    <2>3. ASSUME \A i \in 1 .. Len(s) : s[i] = t[Len(t) - Len(s) + i], NEW i \in 1 .. Len(s)
          PROVE  r[i] = u[i]
        <3> DEFINE j == Len(s) - i + 1
        <3>1. j \in 1 .. Len(s) /\ Len(t) - Len(s) + j = Len(t) - i + 1
            BY <1>1
        <3>2. s[j] = t[Len(t) - Len(s) + j]
            BY <2>3, <3>1
        <3> QED BY <2>1, <3>1, <3>2
    <2> QED BY <2>2, <2>3
<1> QED BY <1>4, <1>5, <1>6, <1>8, <1>9 DEF Ends

\* Of two words that end a third, the shorter one ends the longer one.
LEMMA EndsOfOne ==
    ASSUME NEW s \in Words, NEW t \in Words, NEW w \in Words,
           Ends(s, w), Ends(t, w), Len(s) <= Len(t)
    PROVE  Ends(s, t)
<1>1. Len(s) \in Nat /\ Len(t) \in Nat /\ Len(w) \in Nat
    BY WordFacts
<1>2. ASSUME NEW i \in 1 .. Len(s)
      PROVE  s[i] = t[Len(t) - Len(s) + i]
    <2> DEFINE j == Len(t) - Len(s) + i
    <2>1. j \in 1 .. Len(t) /\ Len(w) - Len(t) + j = Len(w) - Len(s) + i
        BY <1>1
    <2>2. t[j] = w[Len(w) - Len(t) + j] /\ s[i] = w[Len(w) - Len(s) + i]
        BY <2>1 DEF Ends
    <2> QED BY <2>1, <2>2
<1> QED BY <1>2 DEF Ends

\* What ends an end ends the whole.
LEMMA EndsTransitive ==
    ASSUME NEW s \in Words, NEW t \in Words, NEW w \in Words, Ends(s, t), Ends(t, w)
    PROVE  Ends(s, w)
<1>1. Len(s) \in Nat /\ Len(t) \in Nat /\ Len(w) \in Nat /\ Len(s) <= Len(t) /\ Len(t) <= Len(w)
    BY WordFacts DEF Ends
<1>2. ASSUME NEW i \in 1 .. Len(s)
      PROVE  s[i] = w[Len(w) - Len(s) + i]
    <2> DEFINE j == Len(t) - Len(s) + i
    <2>1. j \in 1 .. Len(t) /\ Len(w) - Len(t) + j = Len(w) - Len(s) + i
        BY <1>1
    <2>2. t[j] = w[Len(w) - Len(t) + j] /\ s[i] = t[j]
        BY <2>1 DEF Ends
    <2> QED BY <2>1, <2>2
<1> QED BY <1>1, <1>2 DEF Ends

\* A word and the root end a word, and nothing else of its length does.
LEMMA EndsSelf ==
    ASSUME NEW s \in Words
    PROVE  /\ Ends(s, s) /\ Ends(Root, s)
           /\ \A t \in Words : Ends(t, s) /\ Len(t) = Len(s) => t = s
           /\ \A t \in Words : Ends(t, s) /\ t # s => Len(t) < Len(s)
<1>1. Len(s) \in Nat
    BY WordFacts
<1>2. Ends(s, s)
    BY <1>1 DEF Ends
<1>3. Ends(Root, s)
    BY <1>1, EmptySeq DEF Ends, Root
<1>4. ASSUME NEW t \in Words, Ends(t, s), Len(t) = Len(s)
      PROVE  t = s
    <2>1. \A i \in 1 .. Len(t) : t[i] = s[i]
        BY <1>1, <1>4 DEF Ends
    <2> QED BY <1>4, <2>1, WordEqual
<1>5. ASSUME NEW t \in Words, Ends(t, s), t # s
      PROVE  Len(t) < Len(s)
    <2>1. Len(t) \in Nat /\ Len(t) <= Len(s) /\ Len(t) # Len(s)
        BY <1>4, <1>5, WordFacts DEF Ends
    <2> QED BY <1>1, <2>1
<1> QED BY <1>2, <1>3, <1>4, <1>5

\* Appending bytes.
LEMMA EndsAppend ==
    ASSUME NEW s \in Words, NEW t \in Words, NEW c \in Nat, NEW d \in Nat
    PROVE  Ends(Append(s, c), Append(t, d)) <=> c = d /\ Ends(s, t)
<1> DEFINE sc == Append(s, c)
           td == Append(t, d)
<1>1. Len(s) \in Nat /\ Len(t) \in Nat
    BY WordFacts
<1>2. /\ Len(sc) = Len(s) + 1 /\ sc[Len(s) + 1] = c /\ \A i \in 1 .. Len(s) : sc[i] = s[i]
      /\ Len(td) = Len(t) + 1 /\ td[Len(t) + 1] = d /\ \A i \in 1 .. Len(t) : td[i] = t[i]
    BY AppendProperties DEF Words
<1> HIDE DEF sc, td
<1>3. ASSUME Ends(sc, td)
      PROVE  c = d /\ Ends(s, t)
    <2>1. /\ Len(s) <= Len(t)
          /\ \A i \in 1 .. Len(s) + 1 : sc[i] = td[Len(t) - Len(s) + i]
        BY <1>1, <1>2, <1>3 DEF Ends
    <2>2. c = d
        <3>1. Len(s) + 1 \in 1 .. Len(s) + 1 /\ Len(t) - Len(s) + (Len(s) + 1) = Len(t) + 1
            BY <1>1
        <3> QED BY <1>2, <2>1, <3>1
    <2>3. ASSUME NEW i \in 1 .. Len(s)
          PROVE  s[i] = t[Len(t) - Len(s) + i]
        <3>1. i \in 1 .. Len(s) + 1 /\ Len(t) - Len(s) + i \in 1 .. Len(t)
            BY <1>1, <2>1
        <3> QED BY <1>2, <2>1, <3>1
    <2> QED BY <2>1, <2>2, <2>3 DEF Ends
<1>4. ASSUME c = d, Ends(s, t)
      PROVE  Ends(sc, td)
    <2>1. Len(s) <= Len(t) /\ \A i \in 1 .. Len(s) : s[i] = t[Len(t) - Len(s) + i]
        BY <1>4 DEF Ends
    <2>2. ASSUME NEW i \in 1 .. Len(s) + 1
          PROVE  sc[i] = td[Len(td) - Len(sc) + i]
        <3>1. CASE i = Len(s) + 1
            <4>1. Len(td) - Len(sc) + i = Len(t) + 1
                BY <1>1, <1>2, <3>1
            <4> QED BY <1>2, <1>4, <3>1, <4>1
        <3>2. CASE i # Len(s) + 1
            <4>1. /\ i \in 1 .. Len(s) /\ Len(td) - Len(sc) + i = Len(t) - Len(s) + i
                  /\ Len(t) - Len(s) + i \in 1 .. Len(t)
                BY <1>1, <1>2, <2>1, <3>2
            <4> QED BY <1>2, <2>1, <4>1
        <3> QED BY <3>1, <3>2
    <2> QED BY <1>1, <1>2, <2>1, <2>2 DEF Ends
<1> QED BY <1>3, <1>4 DEF sc, td

\* A word that is not empty is its front and its last byte.
LEMMA FrontLast ==
    ASSUME NEW s \in Words, s # Root
    PROVE  /\ Front(s) \in Words /\ Last(s) \in Nat /\ s = Append(Front(s), Last(s))
           /\ Len(Front(s)) = Len(s) - 1 /\ Len(s) \in Nat \ {0}
           /\ \A i \in 1 .. Len(s) - 1 : Front(s)[i] = s[i]
<1>1. Len(s) \in Nat \ {0} /\ \A i \in 1 .. Len(s) : s[i] \in Nat
    BY WordFacts DEF Root
<1>2. Last(s) \in Nat
    BY <1>1 DEF Last
<1>3. /\ Front(s) \in Words /\ Len(Front(s)) = Len(s) - 1
      /\ \A i \in 1 .. Len(s) - 1 : Front(s)[i] = s[i]
    <2> DEFINE v == SubSeq(s, 1, Len(s) - 1)
    <2>1. /\ v \in Seq(Nat)
          /\ Len(v) = IF 1 <= Len(s) - 1 THEN Len(s) - 1 - 1 + 1 ELSE 0
          /\ \A i \in 1 .. Len(s) - 1 - 1 + 1 : v[i] = s[1 + i - 1]
        BY <1>1, SubSeqProperties
    <2>2. v = Front(s)
        BY DEF Front
    <2> HIDE DEF v
    <2> QED BY <1>1, <2>1, <2>2 DEF Words
<1>4. s = Append(Front(s), Last(s))
    <2> DEFINE a == Append(Front(s), Last(s))
    <2>1. /\ a \in Words /\ Len(a) = Len(Front(s)) + 1
          /\ \A i \in 1 .. Len(Front(s)) : a[i] = Front(s)[i]
          /\ a[Len(Front(s)) + 1] = Last(s)
        BY <1>2, <1>3, AppendProperties DEF Words
    <2> HIDE DEF a
    <2>2. Len(a) = Len(s)
        BY <1>1, <1>3, <2>1
    <2>3. ASSUME NEW i \in 1 .. Len(s)
          PROVE  s[i] = a[i]
        <3>1. CASE i = Len(s)
            BY <1>1, <1>3, <2>1, <3>1 DEF Last
        <3>2. CASE i # Len(s)
            BY <1>1, <1>3, <2>1, <3>2
        <3> QED BY <3>1, <3>2
    <2>4. s = a
        BY <2>1, <2>2, <2>3, WordEqual
    <2> QED BY <2>4 DEF a
<1> QED BY <1>1, <1>2, <1>3, <1>4

-----------------------------------------------------------------------------
(* The trie *)

\* The signatures are finitely many words of at least a byte, and the file is one.
WordsOK == siglookup \subseteq Words \ {Root} /\ IsFiniteSet(siglookup) /\ text \in Words

\* The nodes are words, the fronts of nodes are nodes.
LEMMA PrefixIsWord ==
    ASSUME NEW p \in Words, NEW k \in 0 .. Len(p)
    PROVE  /\ SubSeq(p, 1, k) \in Words /\ Len(SubSeq(p, 1, k)) = k
           /\ \A i \in 1 .. k : SubSeq(p, 1, k)[i] = p[i]
<1>1. Len(p) \in Nat /\ \A i \in 1 .. Len(p) : p[i] \in Nat
    BY WordFacts
<1> DEFINE v == SubSeq(p, 1, k)
<1>2. /\ v \in Seq(Nat)
      /\ Len(v) = IF 1 <= k THEN k - 1 + 1 ELSE 0
      /\ \A i \in 1 .. k - 1 + 1 : v[i] = p[1 + i - 1]
    BY <1>1, SubSeqProperties
<1> HIDE DEF v
<1>3. v \in Words /\ Len(v) = k /\ \A i \in 1 .. k : v[i] = p[i]
    BY <1>1, <1>2 DEF Words
<1> QED BY <1>3 DEF v

\* A node is a word that a signature starts with, or the root.
StartsWith(p, n) == /\ Len(n) <= Len(p)
                    /\ \A i \in 1 .. Len(n) : n[i] = p[i]

\* Prefixes, as the trie has them.
LEMMA NodeIs ==
    ASSUME WordsOK
    PROVE  \A n : n \in Nodes <=> \/ n = Root
                                  \/ n \in Words /\ \E p \in siglookup : StartsWith(p, n)
<1> TAKE n
<1>1. \A p \in siglookup : p \in Words
    BY DEF WordsOK
<1>2. ASSUME NEW p \in siglookup, n \in Prefixes(p)
      PROVE  n \in Words /\ StartsWith(p, n)
    <2>1. PICK k \in 0 .. Len(p) : n = SubSeq(p, 1, k)
        BY <1>2 DEF Prefixes
    <2>2. n \in Words /\ Len(n) = k /\ \A i \in 1 .. k : n[i] = p[i]
        BY <1>1, <2>1, PrefixIsWord
    <2>3. Len(p) \in Nat
        BY <1>1, WordFacts
    <2> QED BY <2>2, <2>3 DEF StartsWith
<1>3. ASSUME NEW p \in siglookup, n \in Words, StartsWith(p, n)
      PROVE  n \in Prefixes(p)
    <2>1. Len(n) \in 0 .. Len(p)
        BY <1>1, <1>3, WordFacts DEF StartsWith
    <2> DEFINE v == SubSeq(p, 1, Len(n))
    <2>2. v \in Words /\ Len(v) = Len(n) /\ \A i \in 1 .. Len(n) : v[i] = p[i]
        BY <1>1, <2>1, PrefixIsWord
    <2>3. v \in Prefixes(p)
        BY <2>1 DEF Prefixes
    <2> HIDE DEF v
    <2>4. n = v
        BY <1>3, <2>2, WordEqual DEF StartsWith
    <2> QED BY <2>3, <2>4
<1> QED BY <1>2, <1>3 DEF Nodes

\* The fronts of nodes are nodes, the signatures are nodes, and NoNode is none.
LEMMA NodeFacts ==
    ASSUME WordsOK
    PROVE  /\ Nodes \subseteq Words /\ Root \in Nodes /\ Root \in Words
           /\ siglookup \subseteq Nodes /\ Root \notin siglookup
           /\ NoNode \notin Nodes
           /\ \A n \in Nodes \ {Root} : Front(n) \in Nodes
<1>1. Root \in Words
    BY EmptySeq DEF Root, Words
<1>2. Nodes \subseteq Words /\ Root \in Nodes
    BY <1>1, NodeIs
<1>3. siglookup \subseteq Nodes /\ Root \notin siglookup
    <2>1. ASSUME NEW p \in siglookup
          PROVE  StartsWith(p, p) /\ p \in Words
        BY WordFacts DEF WordsOK, StartsWith
    <2> QED BY <2>1, NodeIs DEF WordsOK
<1>4. NoNode \notin Nodes
    <2>1. Len(NoNode) = 1 /\ NoNode[1] = -1
        BY DEF NoNode
    <2>2. ASSUME NoNode \in Words
          PROVE  FALSE
        <3>1. NoNode[1] \in Nat
            BY <2>1, <2>2, WordFacts
        <3> QED BY <2>1, <3>1
    <2> QED BY <1>2, <2>2
<1>5. ASSUME NEW n \in Nodes, n # Root
      PROVE  Front(n) \in Nodes
    <2>1. PICK p \in siglookup : StartsWith(p, n)
        BY <1>5, NodeIs
    <2>2. /\ Front(n) \in Words /\ Len(Front(n)) = Len(n) - 1 /\ Len(n) \in Nat \ {0}
          /\ \A i \in 1 .. Len(n) - 1 : Front(n)[i] = n[i]
        BY <1>2, <1>5, FrontLast
    <2>3. Len(p) \in Nat
        BY WordFacts DEF WordsOK
    <2>4. StartsWith(p, Front(n))
        BY <2>1, <2>2, <2>3 DEF StartsWith
    <2> QED BY <2>2, <2>4, NodeIs
<1> QED BY <1>1, <1>2, <1>3, <1>4, <1>5

\* A node starts with every shorter word that a longer node has in front.
LEMMA FrontPart ==
    ASSUME WordsOK, NEW m \in Nodes, NEW k \in 0 .. Len(m)
    PROVE  SubSeq(m, 1, k) \in Nodes
<1>1. m \in Words
    BY NodeFacts
<1> DEFINE v == SubSeq(m, 1, k)
<1>2. v \in Words /\ Len(v) = k /\ \A i \in 1 .. k : v[i] = m[i]
    BY <1>1, PrefixIsWord
<1> HIDE DEF v
<1>3. CASE m = Root
    <2>1. Len(v) = 0
        BY <1>2, <1>3, EmptySeq DEF Root
    <2>2. v = Root
        BY <1>2, <2>1, WordFacts DEF Root
    <2> QED BY <2>2, NodeFacts DEF v
<1>4. CASE m # Root
    <2>1. PICK p \in siglookup : StartsWith(p, m)
        BY <1>4, NodeIs
    <2>2. Len(p) \in Nat /\ Len(m) \in Nat
        BY <1>1, WordFacts DEF WordsOK
    <2>3. StartsWith(p, v)
        BY <1>2, <2>1, <2>2 DEF StartsWith
    <2> QED BY <1>2, <2>3, NodeIs DEF v
<1> QED BY <1>3, <1>4

\* The children of a node are one byte longer.
LEMMA ChildrenAre ==
    ASSUME WordsOK, NEW n \in Nodes
    PROVE  /\ \A m \in Children(n) : /\ m \in Nodes \ {Root} /\ Front(m) = n
                                     /\ Last(m) \in Nat /\ m = Append(n, Last(m))
                                     /\ Len(m) = Len(n) + 1
                                     /\ \A i \in 1 .. Len(n) : m[i] = n[i]
           /\ IsFiniteSet(Children(n))
<1>1. n \in Words /\ Len(n) \in Nat
    BY NodeFacts, WordFacts
<1>2. ASSUME NEW m \in Children(n)
      PROVE  /\ m \in Nodes \ {Root} /\ Front(m) = n /\ Last(m) \in Nat
             /\ m = Append(n, Last(m)) /\ Len(m) = Len(n) + 1 /\ m \in Words
             /\ \A i \in 1 .. Len(n) : m[i] = n[i]
    <2>1. m \in Nodes \ {Root} /\ Front(m) = n /\ m \in Words
        BY NodeFacts DEF Children
    <2> QED BY <2>1, FrontLast
<1>3. IsFiniteSet(Children(n))
    <2> DEFINE f == [m \in Children(n) |-> CHOOSE p \in siglookup : StartsWith(p, m)]
    <2>1. \A m \in Children(n) : f[m] \in siglookup /\ StartsWith(f[m], m)
        <3> TAKE m \in Children(n)
        <3>1. \E p \in siglookup : StartsWith(p, m)
            BY <1>2, NodeIs
        <3> QED BY <3>1
    <2>2. f = [m \in Children(n) |-> f[m]]
        OBVIOUS
    <2> HIDE DEF f
    <2>3. ASSUME NEW m \in Children(n), NEW k \in Children(n), f[m] = f[k]
          PROVE  m = k
        <3>1. Len(m) = Len(k) /\ m \in Words /\ k \in Words
            BY <1>2
        <3>2. \A i \in 1 .. Len(m) : m[i] = k[i]
            BY <2>1, <2>3, <3>1 DEF StartsWith
        <3> QED BY <3>1, <3>2, WordEqual
    <2>4. f \in [Children(n) -> siglookup]
        BY <2>1, <2>2
    <2>5. f \in Injection(Children(n), siglookup)
        BY <2>3, <2>4 DEF Injection, IsInjective
    <2> QED BY <2>5, FS_Injection DEF WordsOK
<1> QED BY <1>2, <1>3

\* Where a node's word comes from when a byte is added.
LEMMA HasChildIs ==
    ASSUME WordsOK, NEW n \in Nodes, NEW c \in Nat
    PROVE  /\ HasChild(n, c) <=> Append(n, c) \in Nodes
           /\ ~HasChild(NoNode, c)
BY NodeFacts DEF HasChild

\* A finite set in some order, each element once.
LEMMA InSomeOrder ==
    ASSUME NEW S, IsFiniteSet(S)
    PROVE  /\ SetToSeq(S) \in Seq(S)
           /\ \A i, j \in DOMAIN SetToSeq(S) : SetToSeq(S)[i] = SetToSeq(S)[j] => i = j
           /\ \A x \in S : \E i \in DOMAIN SetToSeq(S) : SetToSeq(S)[i] = x
<1> DEFINE n == Cardinality(S)
           q == SetToSeq(S)
<1>1. n \in Nat /\ ExistsBijection(1 .. n, S)
    BY FS_CardinalityType
<1>2. PICK b : b \in [1 .. n -> S] /\ IsInjective(b)
    BY <1>1 DEF ExistsBijection, Bijection, Injection
<1>3. q = CHOOSE f \in [1 .. n -> S] : IsInjective(f)
    BY DEF SetToSeq
<1>4. q \in [1 .. n -> S] /\ IsInjective(q)
    BY <1>2, <1>3
<1> HIDE DEF q
<1>5. q \in Injection(1 .. n, S)
    BY <1>4 DEF Injection
<1>6. Cardinality(1 .. n) = n
    BY <1>1, FS_Interval
<1>7. q \in Surjection(1 .. n, S)
    BY <1>5, <1>6, FS_Injection
<1>8. \A x \in S : \E i \in 1 .. n : q[i] = x
    BY <1>7 DEF Surjection
<1>9. q \in Seq(S) /\ DOMAIN q = 1 .. n
    BY <1>1, <1>4
<1> QED BY <1>4, <1>8, <1>9 DEF q, IsInjective

\* A set of numbers has a least one.
LEMMA LeastNumber ==
    ASSUME NEW T \in SUBSET Nat, T # {}
    PROVE  \E m \in T : \A k \in T : m <= k
<1>1. PICK R : IsWellFoundedOn(R, Nat) /\ \A k, n \in Nat : k < n => <<k, n>> \in R
    <2>1. IsWellFoundedOn(OpToRel(<, Nat), Nat)
        BY NatLessThanWellFounded
    <2>2. \A k, n \in Nat : k < n => <<k, n>> \in OpToRel(<, Nat)
        BY DEF OpToRel
    <2> QED BY <2>1, <2>2, Zenon
<1>2. PICK m \in T : \A k \in T : <<k, m>> \notin R
    <2>1. IsWellFoundedOn(R, Nat) /\ T \subseteq Nat /\ T # {}
        BY <1>1
    <2> QED BY <2>1, WFMin, Zenon
<1>3. \A k \in T : ~(k < m)
    BY <1>1, <1>2
<1> QED BY <1>2, <1>3
-----------------------------------------------------------------------------
(* Following the links *)

\* The link of n is the longest other node that ends it.
IsLink(n, l) ==
    /\ l \in Nodes /\ l # n /\ Ends(l, n)
    /\ \A m \in Nodes : m # n /\ Ends(m, n) => Len(m) <= Len(l)

\* Every node that has a link has it to a node that has one, up to the root.
LinksOK ==
    /\ DOMAIN fail \subseteq Nodes /\ Root \in DOMAIN fail /\ fail[Root] = NoNode
    /\ \A n \in DOMAIN fail \ {Root} : fail[n] \in DOMAIN fail /\ IsLink(n, fail[n])

\* r is the longest node that ends n and has a child c, or there is none.
NoneEnds(n, c) == \A m \in Nodes : Ends(m, n) => ~HasChild(m, c)

LongestEnd(n, c, r) ==
    /\ r \in Nodes /\ Ends(r, n) /\ HasChild(r, c)
    /\ \A m \in Nodes : Ends(m, n) /\ HasChild(m, c) => Len(m) <= Len(r)

LongestIs(n, c, r) ==
    IF n = NoNode \/ NoneEnds(n, c) THEN r = NoNode ELSE LongestEnd(n, c, r)

\* There is one longest end at most.
LEMMA LongestUnique ==
    ASSUME WordsOK, NEW n \in Nodes \union {NoNode}, NEW c \in Nat, NEW r, NEW s,
           LongestIs(n, c, r), LongestIs(n, c, s)
    PROVE  r = s
<1>1. CASE n = NoNode \/ NoneEnds(n, c)
    BY <1>1 DEF LongestIs
<1>2. CASE ~(n = NoNode \/ NoneEnds(n, c))
    <2>1. n \in Words /\ LongestEnd(n, c, r) /\ LongestEnd(n, c, s)
        BY <1>2, NodeFacts DEF LongestIs
    <2>2. r \in Words /\ s \in Words /\ Len(r) <= Len(s) /\ Len(s) <= Len(r)
          /\ Ends(r, n) /\ Ends(s, n)
        BY <2>1, NodeFacts DEF LongestEnd
    <2>3. Len(r) = Len(s)
        BY <2>2, WordFacts
    <2>4. Ends(r, s)
        BY <2>1, <2>2, EndsOfOne
    <2> QED BY <2>2, <2>3, <2>4, EndsSelf
<1> QED BY <1>1, <1>2

\* A node with the child is the longest itself; what ends another ends its link, or
\* is that node.
LEMMA LongestStep ==
    ASSUME WordsOK, LinksOK, NEW n \in DOMAIN fail, NEW c \in Nat
    PROVE  /\ HasChild(n, c) => LongestIs(n, c, n)
           /\ ~HasChild(n, c) => \A r : LongestIs(fail[n], c, r) => LongestIs(n, c, r)
<1>1. n \in Nodes /\ n \in Words /\ n # NoNode
    BY NodeFacts DEF LinksOK
<1>2. ASSUME HasChild(n, c)
      PROVE  LongestIs(n, c, n)
    <2>1. Ends(n, n) /\ \A m : Ends(m, n) => Len(m) <= Len(n)
        BY <1>1, EndsSelf DEF Ends
    <2>2. LongestEnd(n, c, n) /\ ~NoneEnds(n, c)
        BY <1>1, <1>2, <2>1 DEF LongestEnd, NoneEnds
    <2> QED BY <1>1, <2>2 DEF LongestIs
<1>3. ASSUME ~HasChild(n, c), n = Root
      PROVE  \A r : LongestIs(fail[n], c, r) => LongestIs(n, c, r)
    <2>1. fail[n] = NoNode
        BY <1>3 DEF LinksOK
    <2>2. NoneEnds(n, c)
        <3>1. ASSUME NEW m \in Nodes, Ends(m, n)
              PROVE  m = n
            <4>1. m \in Words /\ Len(n) = 0 /\ Len(m) <= Len(n) /\ Len(m) \in Nat
                BY <1>1, <1>3, <3>1, NodeFacts, WordFacts DEF Ends, Root
            <4> QED BY <1>1, <3>1, <4>1, EndsSelf
        <3> QED BY <1>3, <3>1 DEF NoneEnds
    <2> QED BY <2>1, <2>2 DEF LongestIs
<1>4. ASSUME ~HasChild(n, c), n # Root
      PROVE  \A r : LongestIs(fail[n], c, r) => LongestIs(n, c, r)
    <2> DEFINE l == fail[n]
    <2>1. IsLink(n, l) /\ l \in Nodes /\ l \in Words /\ l # NoNode /\ Ends(l, n)
        BY <1>4, NodeFacts DEF LinksOK, IsLink
    <2> HIDE DEF l
    <2>2. ASSUME NEW m \in Nodes, Ends(m, n), m # n
          PROVE  Ends(m, l)
        <3>1. Len(m) <= Len(l) /\ m \in Words
            BY <2>1, <2>2, NodeFacts DEF IsLink
        <3> QED BY <1>1, <2>1, <2>2, <3>1, EndsOfOne
    <2>3. ASSUME NEW m \in Nodes, Ends(m, l)
          PROVE  Ends(m, n)
        <3>1. m \in Words
            BY NodeFacts
        <3> QED BY <1>1, <2>1, <2>3, <3>1, EndsTransitive
    <2>4. \A m \in Nodes : HasChild(m, c) => (Ends(m, n) <=> Ends(m, l))
        BY <1>4, <2>2, <2>3
    <2>5. NoneEnds(n, c) <=> NoneEnds(l, c)
        BY <2>4 DEF NoneEnds
    <2>6. \A r : LongestEnd(l, c, r) => LongestEnd(n, c, r)
        BY <2>4 DEF LongestEnd
    <2>7. \A r : LongestIs(l, c, r) => LongestIs(n, c, r)
        BY <1>1, <2>1, <2>5, <2>6 DEF LongestIs
    <2> QED BY <2>7 DEF l
<1> QED BY <1>2, <1>3, <1>4

\* The links lead to shorter nodes, so what fails for a node fails for a shortest.
LEMMA LinkInduction ==
    ASSUME WordsOK, LinksOK, NEW T \in SUBSET DOMAIN fail,
           \A n \in T : n # Root /\ fail[n] \in T
    PROVE  T = {}
<1> SUFFICES ASSUME T # {}
             PROVE  FALSE
    OBVIOUS
<1>1. \A n \in T : n \in Words /\ Len(n) \in Nat
    BY NodeFacts, WordFacts DEF LinksOK
<1> DEFINE L == {Len(n) : n \in T}
<1>2. L \in SUBSET Nat /\ L # {}
    BY <1>1
<1>3. PICK k \in L : \A j \in L : k <= j
    <2> HIDE DEF L
    <2> QED BY <1>2, LeastNumber
<1>4. PICK n \in T : k = Len(n)
    OBVIOUS
<1>5. fail[n] \in T /\ IsLink(n, fail[n])
    BY <1>4 DEF LinksOK
<1>6. Len(fail[n]) < Len(n)
    BY <1>1, <1>4, <1>5, EndsSelf DEF IsLink
<1>7. Len(n) <= Len(fail[n])
    BY <1>3, <1>4, <1>5
<1> QED BY <1>1, <1>4, <1>5, <1>6, <1>7

\* There is a longest end for each node that has a link.
LEMMA LongestExists ==
    ASSUME WordsOK, LinksOK, NEW c \in Nat
    PROVE  \A n \in DOMAIN fail \union {NoNode} : \E r : LongestIs(n, c, r)
<1> DEFINE T == {n \in DOMAIN fail : ~ \E r : LongestIs(n, c, r)}
<1>1. ASSUME NEW n \in T
      PROVE  n # Root /\ fail[n] \in T
    <2>1. ~HasChild(n, c) /\ ~ \E r : LongestIs(fail[n], c, r)
        BY LongestStep
    <2>2. fail[n] # NoNode
        BY <2>1 DEF LongestIs
    <2> QED BY <2>1, <2>2 DEF LinksOK
<1>2. T = {}
    <2>1. T \in SUBSET DOMAIN fail
        OBVIOUS
    <2> HIDE DEF T
    <2> QED BY <1>1, <2>1, LinkInduction
<1>3. LongestIs(NoNode, c, NoNode)
    BY DEF LongestIs
<1> QED BY <1>2, <1>3

\* The walk along the links from a node is one function that follows its own
\* definition, as the links end at the root.
LEMMA WalkExists ==
    ASSUME WordsOK, LinksOK, NEW c \in Nat
    PROVE  \E w : w = [m \in DOMAIN fail \union {NoNode} |->
                            IF m = NoNode \/ HasChild(m, c) THEN m ELSE w[fail[m]]]
<1> DEFINE D == DOMAIN fail \union {NoNode}
           g == [m \in D |-> CHOOSE r : LongestIs(m, c, r)]
           h == [m \in D |-> IF m = NoNode \/ HasChild(m, c) THEN m ELSE g[fail[m]]]
<1>1. \A m \in D : LongestIs(m, c, g[m])
    BY LongestExists
<1>2. ASSUME NEW m \in D
      PROVE  g[m] = h[m]
    <2>1. CASE m = NoNode
        BY <1>1, <2>1 DEF LongestIs
    <2>2. CASE m # NoNode
        <3>1. m \in DOMAIN fail /\ fail[m] \in D /\ m \in Nodes
            BY <2>2 DEF LinksOK
        <3> HIDE DEF g
        <3>2. LongestIs(m, c, IF HasChild(m, c) THEN m ELSE g[fail[m]])
            BY <1>1, <3>1, LongestStep
        <3>3. LongestIs(m, c, g[m])
            BY <1>1
        <3>4. g[m] = IF HasChild(m, c) THEN m ELSE g[fail[m]]
            BY <3>1, <3>2, <3>3, LongestUnique
        <3> QED BY <2>2, <3>4
    <2> QED BY <2>1, <2>2
<1>3. g = [m \in D |-> g[m]] /\ h = [m \in D |-> h[m]]
    OBVIOUS
<1> HIDE DEF g, h
<1>4. g = h
    BY <1>2, <1>3
<1>5. g = [m \in D |-> IF m = NoNode \/ HasChild(m, c) THEN m ELSE g[fail[m]]]
    BY <1>4 DEF h
<1> QED BY <1>5

\* FollowLinks finds it.
LEMMA FollowLinksFinds ==
    ASSUME WordsOK, LinksOK, NEW c \in Nat, NEW n \in DOMAIN fail \union {NoNode}
    PROVE  LongestIs(n, c, FollowLinks(n, c))
<1> DEFINE D == DOMAIN fail \union {NoNode}
           Body(w) == [m \in D |-> IF m = NoNode \/ HasChild(m, c) THEN m ELSE w[fail[m]]]
           H == CHOOSE w : w = [m \in DOMAIN fail \union {NoNode} |->
                                   IF m = NoNode \/ HasChild(m, c) THEN m ELSE w[fail[m]]]
<1>1. FollowLinks(n, c) = H[n]
    BY DEF FollowLinks
<1>2. H = Body(H)
    BY WalkExists, Zenon
<1> HIDE DEF H
<1>3. \A m \in D : H[m] = IF m = NoNode \/ HasChild(m, c) THEN m ELSE H[fail[m]]
    <2>1. \A m \in D : Body(H)[m] = IF m = NoNode \/ HasChild(m, c) THEN m ELSE H[fail[m]]
        OBVIOUS
    <2> HIDE DEF Body
    <2> QED BY <1>2, <2>1
<1>4. LongestIs(NoNode, c, H[NoNode])
    BY <1>3 DEF LongestIs
<1> DEFINE T == {m \in DOMAIN fail : ~ LongestIs(m, c, H[m])}
<1>5. ASSUME NEW m \in T
      PROVE  m # Root /\ fail[m] \in T
    <2>1. m \in DOMAIN fail /\ m # NoNode
        BY NodeFacts DEF LinksOK
    <2>2. ~HasChild(m, c) /\ H[m] = H[fail[m]]
        BY <1>3, <2>1, LongestStep
    <2>3. ~LongestIs(fail[m], c, H[fail[m]])
        BY <2>1, <2>2, LongestStep
    <2>4. fail[m] # NoNode
        BY <1>4, <2>3
    <2> QED BY <2>1, <2>3, <2>4 DEF LinksOK
<1>6. T = {}
    <2>1. T \in SUBSET DOMAIN fail
        OBVIOUS
    <2> HIDE DEF T
    <2> QED BY <1>5, <2>1, LinkInduction
<1> QED BY <1>1, <1>4, <1>6

-----------------------------------------------------------------------------
(* The build *)

\* No element comes twice.
Once(q) == \A i, j \in DOMAIN q : q[i] = q[j] => i = j

\* q has x among its elements.
Has(q, x) == \E i \in DOMAIN q : q[i] = x

\* Of two sequences without a common element and without repetitions, one behind the
\* other has none either.
LEMMA OnceConcat ==
    ASSUME NEW T, NEW a \in Seq(T), NEW b \in Seq(T), Once(a), Once(b),
           \A x : ~(Has(a, x) /\ Has(b, x))
    PROVE  LET o == a \o b
           IN o \in Seq(T) /\ Once(o) /\ \A x : Has(o, x) <=> Has(a, x) \/ Has(b, x)
<1> DEFINE o == a \o b
           m == Len(a)
           k == Len(b)
<1>1. /\ o \in Seq(T) /\ m \in Nat /\ k \in Nat
      /\ DOMAIN a = 1 .. m /\ DOMAIN b = 1 .. k /\ DOMAIN o = 1 .. m + k
    <2>1. o \in Seq(T) /\ Len(o) = m + k
        BY ConcatProperties
    <2> HIDE DEF o
    <2>2. DOMAIN o = 1 .. Len(o)
        BY <2>1, LenProperties
    <2> QED BY <2>1, <2>2, LenProperties
<1>2. \A i \in 1 .. m + k : o[i] = IF i <= m THEN a[i] ELSE b[i - m]
    BY ConcatProperties
<1> HIDE DEF o, m, k
<1>3. \A i \in 1 .. m : i \in 1 .. m + k /\ o[i] = a[i]
    BY <1>1, <1>2
<1>4. \A i \in 1 .. k : m + i \in 1 .. m + k /\ o[m + i] = b[i]
    <2>1. \A i \in 1 .. k : m + i \in 1 .. m + k /\ ~(m + i <= m) /\ (m + i) - m = i
        BY <1>1
    <2> QED BY <1>2, <2>1
<1>5. \A i \in 1 .. m + k : \/ i \in 1 .. m /\ o[i] = a[i]
                            \/ i \notin 1 .. m /\ i - m \in 1 .. k /\ o[i] = b[i - m]
    BY <1>1, <1>2
<1>6. ASSUME NEW i \in DOMAIN o, NEW j \in DOMAIN o, o[i] = o[j]
      PROVE  i = j
    <2>1. ASSUME i \in 1 .. m, j \in 1 .. m
          PROVE  i = j
        BY <1>1, <1>3, <1>6, <2>1 DEF Once
    <2>2. ASSUME i \notin 1 .. m, j \notin 1 .. m
          PROVE  i = j
        <3>1. i - m \in DOMAIN b /\ j - m \in DOMAIN b /\ b[i - m] = b[j - m]
            BY <1>1, <1>5, <1>6, <2>2
        <3>2. i - m = j - m
            BY <3>1 DEF Once
        <3> QED BY <1>1, <1>6, <3>2
    <2>3. ASSUME NEW x \in 1 .. m, NEW y \in 1 .. m + k, y \notin 1 .. m
          PROVE  o[x] # o[y]
        <3>1. Has(a, o[x])
            BY <1>1, <1>3, <2>3 DEF Has
        <3>2. Has(b, o[y])
            BY <1>1, <1>5, <2>3 DEF Has
        <3> QED BY <3>1, <3>2
    <2> QED BY <1>1, <1>6, <2>1, <2>2, <2>3
<1>7. Once(o)
    BY <1>6 DEF Once
<1>8. ASSUME NEW x
      PROVE  Has(o, x) <=> Has(a, x) \/ Has(b, x)
    <2>1. Has(o, x) => Has(a, x) \/ Has(b, x)
        <3>1. ASSUME NEW i \in 1 .. m + k, o[i] = x
              PROVE  Has(a, x) \/ Has(b, x)
            <4>1. CASE i \in 1 .. m
                BY <1>1, <1>3, <3>1, <4>1 DEF Has
            <4>2. CASE i \notin 1 .. m
                BY <1>1, <1>5, <3>1, <4>2 DEF Has
            <4> QED BY <4>1, <4>2
        <3> QED BY <1>1, <3>1 DEF Has
    <2>2. Has(a, x) => Has(o, x)
        BY <1>1, <1>3 DEF Has
    <2>3. Has(b, x) => Has(o, x)
        BY <1>1, <1>4 DEF Has
    <2> QED BY <2>1, <2>2, <2>3
<1> QED BY <1>1, <1>7, <1>8 DEF o

\* n is a part of m in front of its last byte.
IsFront(n, m) == Len(n) < Len(m) /\ \A i \in 1 .. Len(n) : n[i] = m[i]

\* Nodes with a link have all their output, the others their own signature.
OutputsOK ==
    /\ DOMAIN output = Nodes
    /\ \A n \in Nodes : output[n] \in Seq(siglookup) /\ Once(output[n])
    /\ \A n \in DOMAIN fail : \A s \in siglookup :
          Ends(s, n) <=> Has(output[n], s)
    /\ \A n \in Nodes \ DOMAIN fail : output[n] = IF n \in siglookup THEN <<n>> ELSE <<>>

\* Links are made breadth first: queued nodes differ in length by one at most, their
\* children have none, and each node without one is below a queued node.
QueueOK ==
    /\ queue \in Seq(DOMAIN fail \ {Root}) /\ Once(queue)
    /\ \A i, j \in 1 .. Len(queue) : i < j => Len(queue[i]) <= Len(queue[j])
    /\ \A j \in 1 .. Len(queue) : Len(queue[j]) <= Len(queue[1]) + 1
    /\ \A n \in DOMAIN fail \ {Root} : Front(n) \in DOMAIN fail
    /\ \A i \in 1 .. Len(queue) : \A m \in DOMAIN fail : m \notin Children(queue[i])
    /\ \A m \in Nodes \ DOMAIN fail : \E i \in 1 .. Len(queue) : IsFront(queue[i], m)

\* Before the build there is nothing, during it the three parts hold.
BuildInv ==
    /\ WordsOK
    /\ fail = <<>> => output = <<>> /\ queue = <<>>
    /\ fail # <<>> => LinksOK /\ OutputsOK /\ QueueOK

\* A function with something in its domain is not the empty one.
LEMMA NotEmpty ==
    ASSUME NEW f, NEW x \in DOMAIN f
    PROVE  f # <<>>
<1>1. DOMAIN <<>> = {}
    OBVIOUS
<1> QED BY <1>1

\* The trie stays.
LEMMA TrieStays ==
    ASSUME UNCHANGED siglookup
    PROVE  /\ Nodes' = Nodes
           /\ \A n : Children(n)' = Children(n)
           /\ \A n, l : IsLink(n, l)' = IsLink(n, l)
           /\ UNCHANGED text => WordsOK' = WordsOK
<1>1. Nodes' = Nodes
    BY DEF Nodes
<1> QED BY <1>1 DEF Children, IsLink, WordsOK

\* All nodes that are not longer than the next one in the queue have their links.
LEMMA ShortNodes ==
    ASSUME WordsOK, LinksOK, QueueOK, queue # <<>>
    PROVE  /\ Len(queue) \in Nat \ {0} /\ queue[1] = Head(queue)
           /\ Head(queue) \in DOMAIN fail \ {Root}
           /\ \A m \in Nodes : Len(m) <= Len(Head(queue)) => m \in DOMAIN fail
<1>1. Len(queue) \in Nat \ {0} /\ queue[1] = Head(queue) /\ 1 \in 1 .. Len(queue)
    BY DEF QueueOK
<1>2. \A i \in 1 .. Len(queue) : queue[i] \in DOMAIN fail \ {Root}
    BY DEF QueueOK
<1>3. ASSUME NEW m \in Nodes, Len(m) <= Len(Head(queue)), m \notin DOMAIN fail
      PROVE  FALSE
    <2>1. PICK i \in 1 .. Len(queue) : IsFront(queue[i], m)
        BY <1>3 DEF QueueOK
    <2>2. Len(queue[1]) <= Len(queue[i])
        <3>1. \A j \in 1 .. Len(queue) : queue[j] \in Words
            BY <1>2, NodeFacts DEF LinksOK
        <3>2. Len(queue[1]) \in Nat
            BY <1>1, <3>1, WordFacts
        <3>3. i = 1 \/ 1 < i
            BY <1>1
        <3> QED BY <1>1, <3>2, <3>3 DEF QueueOK
    <2>3. Len(queue[1]) \in Nat /\ Len(queue[i]) \in Nat /\ Len(m) \in Nat
        BY <1>1, <1>2, NodeFacts, WordFacts DEF LinksOK
    <2> QED BY <1>1, <1>3, <2>1, <2>2, <2>3 DEF IsFront
<1> QED BY <1>1, <1>2, <1>3

\* What ends a child without being it is a child of what ends its parent's link.
LEMMA EndOfChild ==
    ASSUME WordsOK, NEW p \in Nodes, NEW l \in Nodes, IsLink(p, l), NEW n \in Children(p),
           NEW m \in Nodes, m # Root, m # n, Ends(m, n)
    PROVE  /\ Front(m) \in Nodes /\ Ends(Front(m), l) /\ HasChild(Front(m), Last(n))
           /\ Len(m) = Len(Front(m)) + 1
<1>1. /\ Last(n) \in Nat /\ n = Append(p, Last(n)) /\ n \in Words /\ p \in Words
      /\ m \in Words /\ l \in Words
    BY NodeFacts, ChildrenAre
<1>2. /\ Front(m) \in Nodes /\ Front(m) \in Words /\ Last(m) \in Nat
      /\ m = Append(Front(m), Last(m)) /\ Len(m) = Len(Front(m)) + 1
    BY <1>1, NodeFacts, FrontLast
<1>3. Last(m) = Last(n) /\ Ends(Front(m), p)
    <2> DEFINE f == Front(m)
               a == Last(m)
               c == Last(n)
    <2>1. f \in Words /\ a \in Nat /\ c \in Nat /\ m = Append(f, a) /\ n = Append(p, c)
        BY <1>1, <1>2
    <2> HIDE DEF f, a, c
    <2>2. Ends(Append(f, a), Append(p, c))
        BY <2>1
    <2>3. a = c /\ Ends(f, p)
        BY <1>1, <2>1, <2>2, EndsAppend
    <2> QED BY <2>3 DEF f, a, c
<1>4. Front(m) # p
    BY <1>1, <1>2, <1>3
<1>5. Ends(Front(m), l)
    <2>1. Len(Front(m)) <= Len(l) /\ Ends(l, p)
        BY <1>2, <1>3, <1>4 DEF IsLink
    <2> QED BY <1>1, <1>2, <1>3, <2>1, EndsOfOne
<1>6. HasChild(Front(m), Last(n))
    BY <1>1, <1>2, <1>3, HasChildIs
<1> QED BY <1>2, <1>5, <1>6

\* build makes the link of a child from that of its parent.
LEMMA LinkOfIsLink ==
    ASSUME WordsOK, LinksOK, QueueOK, queue # <<>>, NEW n \in Children(Head(queue))
    PROVE  IsLink(n, LinkOf(Head(queue), n)) /\ LinkOf(Head(queue), n) \in DOMAIN fail
<1> DEFINE p == Head(queue)
           l == fail[p]
           c == Last(n)
           r == FollowLinks(l, c)
           k == LinkOf(p, n)
<1>1. /\ p \in DOMAIN fail \ {Root} /\ p \in Nodes /\ p \in Words
      /\ l \in DOMAIN fail /\ l \in Nodes /\ l \in Words /\ IsLink(p, l) /\ l # NoNode
    BY ShortNodes, NodeFacts DEF LinksOK
<1>2. k = IF r = NoNode THEN Root ELSE Append(r, c)
    BY DEF LinkOf
<1> HIDE DEF k, r, l, p
<1>3. /\ n \in Nodes /\ n # Root /\ n \in Words /\ c \in Nat /\ n = Append(p, c)
      /\ Len(n) = Len(p) + 1 /\ Len(p) \in Nat /\ n \in Children(p)
    BY <1>1, NodeFacts, ChildrenAre, WordFacts DEF p
<1>4. LongestIs(l, c, r)
    BY <1>1, <1>3, FollowLinksFinds DEF r
<1>5. IsLink(n, k)
    <2>1. CASE NoneEnds(l, c)
        <3>1. k = Root
            BY <1>2, <1>4, <2>1 DEF LongestIs
        <3>2. ASSUME NEW m \in Nodes, m # n, Ends(m, n)
              PROVE  m = Root
            BY <1>1, <1>3, <2>1, <3>2, EndOfChild DEF NoneEnds
        <3>3. Root \in Nodes /\ Ends(Root, n) /\ Len(Root) <= Len(Root)
            BY <1>3, NodeFacts, EndsSelf, WordFacts
        <3> QED BY <1>3, <3>1, <3>2, <3>3 DEF IsLink
    <2>2. CASE ~NoneEnds(l, c)
        <3>1. LongestEnd(l, c, r)
            BY <1>1, <1>4, <2>2 DEF LongestIs
        <3>2. r \in Nodes /\ r \in Words /\ Ends(r, l) /\ Append(r, c) \in Nodes /\ r # NoNode
            BY <1>3, <3>1, NodeFacts, HasChildIs DEF LongestEnd
        <3>3. k = Append(r, c) /\ k \in Words /\ Len(k) = Len(r) + 1 /\ Len(r) \in Nat
            BY <1>2, <1>3, <3>2, NodeFacts, AppendProperties, WordFacts DEF Words
        <3>4. Ends(k, n)
            <4>1. Ends(r, p)
                BY <1>1, <3>2, EndsTransitive DEF IsLink
            <4>2. Ends(Append(r, c), Append(p, c))
                <5> HIDE DEF c
                <5> QED BY <1>1, <1>3, <3>2, <4>1, EndsAppend
            <4> QED BY <1>3, <3>3, <4>2
        <3>5. k # n
            <4>1. Len(r) <= Len(l) /\ Len(l) < Len(p) /\ Len(l) \in Nat
                BY <1>1, <3>2, EndsSelf, WordFacts DEF Ends, IsLink
            <4> QED BY <1>3, <3>3, <4>1
        <3>6. ASSUME NEW m \in Nodes, m # n, Ends(m, n)
              PROVE  Len(m) <= Len(k)
            <4>1. CASE m = Root
                BY <3>3, <4>1, EmptySeq DEF Root
            <4>2. CASE m # Root
                <5>1. /\ Front(m) \in Nodes /\ Ends(Front(m), l) /\ HasChild(Front(m), c)
                      /\ Len(m) = Len(Front(m)) + 1
                    BY <1>1, <1>3, <3>6, <4>2, EndOfChild
                <5>2. Len(Front(m)) <= Len(r) /\ Len(Front(m)) \in Nat
                    BY <3>1, <5>1, NodeFacts, WordFacts DEF LongestEnd
                <5> QED BY <3>3, <5>1, <5>2
            <4> QED BY <4>1, <4>2
        <3> QED BY <3>2, <3>3, <3>4, <3>5, <3>6 DEF IsLink
    <2> QED BY <2>1, <2>2
<1>6. k \in DOMAIN fail
    <2>1. k \in Nodes /\ k \in Words /\ Len(k) < Len(n) /\ Len(k) \in Nat
        BY <1>3, <1>5, NodeFacts, EndsSelf, WordFacts DEF IsLink
    <2>2. Len(k) <= Len(p)
        BY <1>3, <2>1
    <2> QED BY <2>1, <2>2, ShortNodes DEF p
<1> QED BY <1>5, <1>6 DEF k, p

\* A node ends with what its link ends with, and with itself.
LEMMA EndsByLink ==
    ASSUME WordsOK, NEW n \in Nodes, NEW l, IsLink(n, l), NEW m \in Nodes
    PROVE  Ends(m, n) <=> m = n \/ Ends(m, l)
<1>1. n \in Words /\ l \in Words /\ m \in Words /\ Ends(l, n)
    BY NodeFacts DEF IsLink
<1>2. ASSUME Ends(m, n), m # n
      PROVE  Ends(m, l)
    BY <1>1, <1>2, EndsOfOne DEF IsLink
<1>3. Ends(m, l) => Ends(m, n)
    BY <1>1, EndsTransitive
<1>4. m = n => Ends(m, n)
    BY <1>1, EndsSelf
<1> QED BY <1>2, <1>3, <1>4

\* The children of the root are linked to it and queued.
LEMMA StartBuildBuilds ==
    ASSUME BuildInv, StartBuild
    PROVE  BuildInv'
<1> DEFINE C == Children(Root)
           S == SetToSeq(C)
<1>1. /\ fail' = [n \in {Root} \union C |-> IF n = Root THEN NoNode ELSE Root]
      /\ output' = [n \in Nodes |-> IF n \in siglookup THEN <<n>> ELSE <<>>]
      /\ queue' = S
      /\ UNCHANGED <<text, siglookup>>
    BY DEF StartBuild
<1>2. WordsOK /\ WordsOK'
    BY <1>1, TrieStays DEF BuildInv
<1>3. /\ Root \in Nodes /\ Root \in Words /\ Len(Root) \in Nat /\ Len(Root) < 1
      /\ \A m \in Nodes : m \in Words /\ Len(m) \in Nat /\ (Len(m) < 1 <=> m = Root)
    <2>1. Root \in Nodes /\ \A m \in Nodes : m \in Words
        BY <1>2, NodeFacts
    <2> QED BY <2>1, RootIsShortest
<1>4. \A m \in C : /\ m \in Nodes \ {Root} /\ Front(m) = Root /\ Len(m) < 2 /\ ~(Len(m) < 1)
    <2> TAKE m \in C
    <2>1. m \in Nodes \ {Root} /\ Front(m) = Root /\ Len(m) = Len(Root) + 1
        BY <1>2, <1>3, ChildrenAre
    <2> QED BY <1>3, <2>1
<1>5. /\ S \in Seq(C) /\ Len(S) \in Nat /\ DOMAIN S = 1 .. Len(S)
      /\ \A i \in 1 .. Len(S) : S[i] \in C
      /\ Once(S) /\ \A x \in C : \E i \in 1 .. Len(S) : S[i] = x
    <2>1. /\ S \in Seq(C) /\ Once(S) /\ \A x \in C : \E i \in DOMAIN S : S[i] = x
        BY <1>2, <1>3, ChildrenAre, InSomeOrder DEF Once
    <2> HIDE DEF S, C
    <2>2. Len(S) \in Nat /\ DOMAIN S = 1 .. Len(S) /\ \A i \in 1 .. Len(S) : S[i] \in C
        BY <2>1
    <2> QED BY <2>1, <2>2
<1>6. /\ DOMAIN fail' = {Root} \union C /\ fail'[Root] = NoNode
      /\ \A n \in C : fail'[n] = Root
    BY <1>1, <1>4
<1>7. Nodes' = Nodes /\ \A n : Children(n)' = Children(n)
    BY <1>1, TrieStays
<1> HIDE DEF S
<1>8. LinksOK'
    <2>1. ASSUME NEW n \in C
          PROVE  IsLink(n, Root)
        <3>1. n \in Words /\ n # Root /\ Ends(Root, n)
            BY <1>3, <1>4, EndsSelf
        <3>2. ASSUME NEW m \in Nodes, m # n, Ends(m, n)
              PROVE  Len(m) <= Len(Root)
            <4>1. Len(m) < Len(n) /\ Len(m) \in Nat
                BY <1>3, <3>1, <3>2, EndsSelf
            <4>2. Len(n) < 2
                BY <1>4
            <4>3. m = Root
                BY <1>3, <4>1, <4>2
            <4> QED BY <1>3, <4>3
        <3> QED BY <1>3, <3>1, <3>2 DEF IsLink
    <2>2. \A n \in C : IsLink(n, Root)'
        BY <1>1, <2>1, TrieStays
    <2>3. DOMAIN fail' \subseteq Nodes'
        BY <1>3, <1>4, <1>6, <1>7
    <2> HIDE DEF C
    <2> QED BY <1>6, <2>2, <2>3 DEF LinksOK
<1>9. OutputsOK'
    <2>1. DOMAIN output' = Nodes'
        BY <1>1, <1>7
    <2>2. \A n \in Nodes : output'[n] = IF n \in siglookup THEN <<n>> ELSE <<>>
        BY <1>1
    <2>3. ASSUME NEW n \in Nodes
          PROVE  /\ output'[n] \in Seq(siglookup) /\ Once(output'[n])
                 /\ \A s \in siglookup : s = n <=> Has(output'[n], s)
        <3>1. CASE n \in siglookup
            <4>1. output'[n] = <<n>>
                BY <2>2, <3>1
            <4>2. DOMAIN <<n>> = {1} /\ <<n>>[1] = n /\ <<n>> \in Seq(siglookup)
                BY <3>1
            <4> QED BY <4>1, <4>2 DEF Once, Has
        <3>2. CASE n \notin siglookup
            <4>1. output'[n] = <<>>
                BY <2>2, <3>2
            <4>2. DOMAIN <<>> = {} /\ <<>> \in Seq(siglookup)
                OBVIOUS
            <4> QED BY <3>2, <4>1, <4>2 DEF Once, Has
        <3> QED BY <3>1, <3>2
    <2>4. ASSUME NEW n \in DOMAIN fail', NEW s \in siglookup
          PROVE  Ends(s, n) <=> s = n
        <3>1. s \in Nodes /\ s \in Words /\ s # Root /\ n \in Nodes /\ n \in Words
            BY <1>2, <1>3, <1>4, <1>6, NodeFacts
        <3>2. s = n => Ends(s, n)
            BY <3>1, EndsSelf
        <3>3. ASSUME Ends(s, n), s # n
              PROVE  FALSE
            <4>1. Len(s) < Len(n) /\ ~(Len(s) < 1) /\ Len(s) \in Nat /\ Len(n) \in Nat
                BY <1>3, <3>1, <3>3, EndsSelf
            <4>2. Len(n) < 2
                BY <1>3, <1>4, <1>6
            <4> QED BY <4>1, <4>2
        <3> QED BY <3>2, <3>3
    <2>5. DOMAIN fail' \subseteq Nodes
        BY <1>3, <1>4, <1>6
    <2>6. siglookup' = siglookup
        BY <1>1
    <2> QED BY <1>7, <2>1, <2>2, <2>3, <2>4, <2>5, <2>6 DEF OutputsOK
<1>10. QueueOK'
    <2>1. queue' = S
        BY <1>1
    <2>2. /\ S \in Seq(DOMAIN fail' \ {Root}) /\ Once(S)
        <3>1. \A i \in 1 .. Len(S) : S[i] \in DOMAIN fail' \ {Root}
            BY <1>4, <1>5, <1>6
        <3> QED BY <1>5, <3>1
    <2>3. \A i \in 1 .. Len(S) : Len(S[i]) \in Nat /\ Len(S[i]) < 2 /\ ~(Len(S[i]) < 1)
        BY <1>3, <1>4, <1>5
    <2>4. \A n \in DOMAIN fail' \ {Root} : Front(n) \in DOMAIN fail'
        BY <1>4, <1>6
    <2>5. ASSUME NEW i \in 1 .. Len(S), NEW m \in DOMAIN fail', m \in Children(S[i])
          PROVE  FALSE
        <3>1. Len(m) = Len(S[i]) + 1
            BY <1>2, <1>4, <1>5, <2>5, ChildrenAre
        <3> QED BY <1>3, <1>4, <1>6, <2>3, <3>1
    <2>6. ASSUME NEW m \in Nodes, m \notin DOMAIN fail'
          PROVE  \E i \in 1 .. Len(S) : IsFront(S[i], m)
        <3>1. m \in Words /\ m # Root /\ m \notin C /\ Len(m) \in Nat /\ ~(Len(m) < 1)
            BY <1>3, <1>6, <2>6
        <3> DEFINE x == SubSeq(m, 1, 1)
        <3>2. /\ x \in Nodes /\ x \in Words /\ x[1] = m[1]
              /\ Len(x) \in Nat /\ Len(x) < 2 /\ ~(Len(x) < 1)
            <4>1. 1 \in 0 .. Len(m)
                BY <3>1
            <4>2. x \in Nodes
                BY <1>2, <4>1, FrontPart
            <4>3. Len(x) = 1 /\ x \in Words /\ \A i \in 1 .. 1 : x[i] = m[i]
                BY <3>1, <4>1, PrefixIsWord
            <4> HIDE DEF x
            <4>4. Len(x) \in Nat /\ Len(x) < 2 /\ ~(Len(x) < 1)
                BY <4>3
            <4> QED BY <4>2, <4>3, <4>4
        <3> HIDE DEF x
        <3>3. x \in C
            <4>1. x # Root
                BY <1>3, <3>2
            <4>2. Len(Front(x)) < 1 /\ Front(x) \in Nodes
                BY <1>2, <3>2, <4>1, NodeFacts, FrontLast
            <4> QED BY <1>3, <3>2, <4>1, <4>2 DEF Children
        <3>4. ~(Len(m) < 2)
            <4>1. ASSUME Len(m) < 2
                  PROVE  FALSE
                <5>1. Len(x) = Len(m) /\ \A i \in 1 .. Len(x) : i = 1
                    BY <3>1, <3>2, <4>1
                <5>2. x = m
                    BY <3>1, <3>2, <5>1, WordEqual
                <5> QED BY <3>1, <3>3, <5>2
            <4> QED BY <4>1
        <3>5. IsFront(x, m)
            <4>1. Len(x) < Len(m) /\ \A i \in 1 .. Len(x) : i = 1
                BY <3>1, <3>2, <3>4
            <4> QED BY <3>2, <4>1 DEF IsFront
        <3> QED BY <1>5, <3>3, <3>5
    <2> HIDE DEF C
    <2>7. /\ \A i, j \in 1 .. Len(S) : i < j => Len(S[i]) <= Len(S[j])
          /\ \A j \in 1 .. Len(S) : Len(S[j]) <= Len(S[1]) + 1
        BY <1>5, <2>3
    <2> QED BY <1>7, <2>1, <2>2, <2>4, <2>5, <2>6, <2>7 DEF QueueOK
<1>11. fail' # <<>>
    BY <1>6, NotEmpty
<1> QED BY <1>2, <1>8, <1>9, <1>10, <1>11 DEF BuildInv

-----------------------------------------------------------------------------
(* A step of build *)

\* A step of build: the children of the next node get links and outputs and are
\* queued.
BuildStepDoes(p, C) ==
    /\ p \in DOMAIN fail \ {Root} /\ C = Children(p)
    /\ \A n \in C : /\ n \in Nodes \ {Root} /\ n \notin DOMAIN fail /\ Front(n) = p
                    /\ Len(n) = Len(p) + 1
    /\ DOMAIN fail' = DOMAIN fail \union C
    /\ \A n \in DOMAIN fail : fail'[n] = fail[n]
    /\ \A n \in C : fail'[n] \in DOMAIN fail /\ IsLink(n, fail'[n])
    /\ DOMAIN output' = Nodes
    /\ \A n \in Nodes \ C : output'[n] = output[n]
    /\ \A n \in C : output'[n] = output[n] \o output[fail'[n]]

\* BuildStep does that, for the first node in the queue.
LEMMA BuildStepIs ==
    ASSUME BuildInv, BuildStep
    PROVE  /\ BuildStepDoes(Head(queue), Children(Head(queue)))
           /\ queue' = Tail(queue) \o SetToSeq(Children(Head(queue)))
           /\ queue # <<>> /\ UNCHANGED <<text, siglookup>>
           /\ WordsOK /\ LinksOK /\ OutputsOK /\ QueueOK
<1> DEFINE p == Head(queue)
           C == Children(p)
           of == [n \in C |-> LinkOf(p, n)]
<1>1. /\ fail' = [n \in DOMAIN fail \union C |-> IF n \in C THEN of[n] ELSE fail[n]]
      /\ output' = [n \in Nodes |-> IF n \in C THEN InheritedOutput(n, of[n]) ELSE output[n]]
      /\ queue' = Tail(queue) \o SetToSeq(C)
      /\ queue # <<>> /\ UNCHANGED <<text, siglookup>>
    BY DEF BuildStep
<1>2. WordsOK /\ LinksOK /\ OutputsOK /\ QueueOK
    BY <1>1 DEF BuildInv
<1>3. p \in DOMAIN fail \ {Root} /\ p \in Nodes /\ queue[1] = p /\ 1 \in 1 .. Len(queue)
    BY <1>1, <1>2, ShortNodes DEF LinksOK
<1>4. \A n \in C : /\ n \in Nodes \ {Root} /\ Front(n) = p /\ Len(n) = Len(p) + 1
    BY <1>2, <1>3, ChildrenAre
<1>5. \A n \in C : n \notin DOMAIN fail
    BY <1>3, <1>2 DEF QueueOK
<1>6. \A n \in C : of[n] \in DOMAIN fail /\ IsLink(n, of[n])
    BY <1>1, <1>2, LinkOfIsLink
<1> HIDE DEF of, C, p
<1>7. /\ DOMAIN fail' = DOMAIN fail \union C
      /\ \A n \in C : fail'[n] = of[n]
      /\ \A n \in DOMAIN fail : fail'[n] = fail[n]
    BY <1>1, <1>5
<1>8. /\ DOMAIN output' = Nodes
      /\ \A n \in Nodes \ C : output'[n] = output[n]
      /\ \A n \in C : output'[n] = output[n] \o output[of[n]]
    BY <1>1, <1>4 DEF InheritedOutput
<1>9. BuildStepDoes(p, C)
    BY <1>3, <1>4, <1>5, <1>6, <1>7, <1>8 DEF BuildStepDoes, C
<1> QED BY <1>1, <1>2, <1>9 DEF C, p

\* The new links are the longest ends, and the old ones stay.
LEMMA BuildStepLinks ==
    ASSUME WordsOK, LinksOK, NEW p, NEW C, BuildStepDoes(p, C), UNCHANGED <<text, siglookup>>
    PROVE  LinksOK'
<1>1. Nodes' = Nodes /\ \A n, l : IsLink(n, l)' = IsLink(n, l)
    BY TrieStays
<1>2. DOMAIN fail' \subseteq Nodes /\ Root \in DOMAIN fail' /\ fail'[Root] = NoNode
    BY DEF LinksOK, BuildStepDoes
<1>3. ASSUME NEW n \in DOMAIN fail' \ {Root}
      PROVE  fail'[n] \in DOMAIN fail' /\ IsLink(n, fail'[n])
    <2>1. CASE n \in C
        BY <2>1 DEF BuildStepDoes
    <2>2. CASE n \in DOMAIN fail
        BY <1>3, <2>2 DEF BuildStepDoes, LinksOK
    <2> QED BY <1>3, <2>1, <2>2 DEF BuildStepDoes
<1> QED BY <1>1, <1>2, <1>3 DEF LinksOK, IsLink

\* The new outputs have every signature that ends their node: the node itself, if it
\* is one, and those that end its link.
LEMMA BuildStepOutputs ==
    ASSUME WordsOK, LinksOK, OutputsOK, NEW p, NEW C, BuildStepDoes(p, C),
           UNCHANGED <<text, siglookup>>
    PROVE  OutputsOK'
<1>1. Nodes' = Nodes /\ siglookup' = siglookup /\ siglookup \subseteq Nodes
    BY TrieStays, NodeFacts
<1>2. ASSUME NEW n \in Nodes \ C
      PROVE  /\ output'[n] = output[n]
             /\ n \in DOMAIN fail' <=> n \in DOMAIN fail
    BY DEF BuildStepDoes
<1>3. ASSUME NEW n \in C
      PROVE  /\ output'[n] \in Seq(siglookup) /\ Once(output'[n]) /\ n \in DOMAIN fail'
             /\ \A s \in siglookup : Ends(s, n) <=> Has(output'[n], s)
    <2> DEFINE l == fail'[n]
               a == output[n]
               b == output[l]
    <2>1. /\ n \in Nodes /\ n \notin DOMAIN fail /\ n \in DOMAIN fail' /\ n # l
          /\ l \in DOMAIN fail /\ l \in Nodes /\ IsLink(n, l) /\ output'[n] = a \o b
        BY DEF BuildStepDoes, LinksOK, IsLink
    <2> HIDE DEF l
    <2>2. /\ a \in Seq(siglookup) /\ Once(a) /\ b \in Seq(siglookup) /\ Once(b)
          /\ a = IF n \in siglookup THEN <<n>> ELSE <<>>
          /\ \A s \in siglookup : Ends(s, l) <=> Has(b, s)
        BY <2>1 DEF OutputsOK
    <2>3. \A s \in siglookup : Ends(s, n) <=> s = n \/ Ends(s, l)
        BY <1>1, <2>1, EndsByLink
    <2>4. ~Ends(n, l)
        <3>1. n \in Words /\ l \in Words /\ Len(n) \in Nat /\ Len(l) \in Nat
            BY <2>1, NodeFacts, WordFacts
        <3>2. Len(l) < Len(n)
            BY <2>1, <3>1, EndsSelf DEF IsLink
        <3> QED BY <3>1, <3>2 DEF Ends
    <2> HIDE DEF a, b
    <2>5. \A x : Has(a, x) <=> n \in siglookup /\ x = n
        BY <2>2 DEF Has
    <2>6. \A x : ~(Has(a, x) /\ Has(b, x))
        BY <2>2, <2>4, <2>5
    <2>7. LET o == a \o b
          IN o \in Seq(siglookup) /\ Once(o) /\ \A x : Has(o, x) <=> Has(a, x) \/ Has(b, x)
        BY <2>2, <2>6, OnceConcat
    <2> DEFINE o == a \o b
    <2>8. o \in Seq(siglookup) /\ Once(o) /\ \A x : Has(o, x) <=> Has(a, x) \/ Has(b, x)
        BY <2>7
    <2> HIDE DEF o
    <2>9. output'[n] = o
        BY <2>1 DEF o
    <2>10. \A s \in siglookup : s = n => n \in siglookup
        OBVIOUS
    <2> QED BY <2>1, <2>2, <2>3, <2>5, <2>8, <2>9, <2>10
<1>4. DOMAIN output' = Nodes /\ DOMAIN fail' \subseteq Nodes /\ C \subseteq DOMAIN fail'
    BY DEF BuildStepDoes, LinksOK
<1>5. \A n \in Nodes : output'[n] \in Seq(siglookup) /\ Once(output'[n])
    BY <1>2, <1>3 DEF OutputsOK
<1>6. \A n \in DOMAIN fail' : \A s \in siglookup :
            Ends(s, n) <=> Has(output'[n], s)
    BY <1>2, <1>3, <1>4 DEF OutputsOK
<1>7. \A n \in Nodes \ DOMAIN fail' :
            output'[n] = IF n \in siglookup THEN <<n>> ELSE <<>>
    BY <1>2, <1>4 DEF OutputsOK
<1> QED BY <1>1, <1>4, <1>5, <1>6, <1>7 DEF OutputsOK

\* What the queue holds after a step: the rest of it, then the children.
LEMMA QueueAfter ==
    ASSUME NEW T, NEW q \in Seq(T), q # <<>>, NEW S \in Seq(T),
           NEW r, r = Tail(q) \o S, NEW m, m = Len(q) - 1, NEW k, k = Len(S)
    PROVE  /\ r \in Seq(T) /\ Len(r) = m + k /\ m \in Nat /\ k \in Nat
           /\ \A i \in 1 .. m : r[i] = q[i + 1]
           /\ \A i \in 1 .. k : r[m + i] = S[i]
<1> DEFINE t == Tail(q)
<1>1. /\ t \in Seq(T) /\ Len(t) = Len(q) - 1 /\ Len(q) \in Nat \ {0}
      /\ \A i \in 1 .. Len(t) : t[i] = q[i + 1] /\ r = t \o S
    BY HeadTailProperties, EmptySeq
<1> HIDE DEF t
<1>2. /\ r \in Seq(T) /\ Len(r) = Len(t) + Len(S)
      /\ \A i \in 1 .. Len(t) + Len(S) : r[i] = IF i <= Len(t) THEN t[i] ELSE S[i - Len(t)]
    BY <1>1, ConcatProperties
<1>3. m \in Nat /\ k \in Nat /\ Len(t) = m
    BY <1>1, LenProperties
<1>4. \A i \in 1 .. m + k : r[i] = IF i <= m THEN t[i] ELSE S[i - m]
    BY <1>2, <1>3
<1>5. \A i \in 1 .. m : r[i] = q[i + 1]
    BY <1>1, <1>3, <1>4
<1>6. \A i \in 1 .. k : r[m + i] = S[i]
    <2> TAKE i \in 1 .. k
    <2>1. m + i \in 1 .. m + k /\ ~(m + i <= m) /\ (m + i) - m = i
        BY <1>3
    <2> QED BY <1>4, <2>1
<1> QED BY <1>2, <1>3, <1>5, <1>6

\* The children go behind the rest of the queue, and are longer by one.
LEMMA BuildStepQueue ==
    ASSUME WordsOK, LinksOK, QueueOK, queue # <<>>,
           NEW C, C = Children(Head(queue)), BuildStepDoes(Head(queue), C),
           queue' = Tail(queue) \o SetToSeq(C), UNCHANGED <<text, siglookup>>
    PROVE  QueueOK'
<1> DEFINE p == Head(queue)
           S == SetToSeq(C)
           D == DOMAIN fail
           E == DOMAIN fail'
           q == queue
           r == queue'
           m == Len(q) - 1
           k == Len(S)
           L == Len(p)
<1>1. Nodes' = Nodes /\ \A n : Children(n)' = Children(n)
    BY TrieStays
<1>2. /\ q[1] = p /\ p \in D \ {Root} /\ p \in Nodes /\ p \in Words /\ L \in Nat
      /\ E = D \union C /\ D \subseteq Nodes /\ Root \in D
    BY ShortNodes, NodeFacts, WordFacts DEF LinksOK, BuildStepDoes
<1>3. \A n \in C : /\ n \in Nodes \ {Root} /\ n \notin D /\ Front(n) = p
                   /\ Len(n) = L + 1 /\ n \in E \ {Root}
    BY <1>2 DEF BuildStepDoes
<1>4. /\ S \in Seq(C) /\ k \in Nat /\ DOMAIN S = 1 .. k
      /\ \A i \in 1 .. k : S[i] \in C
      /\ \A i, j \in 1 .. k : S[i] = S[j] => i = j
      /\ \A x \in C : \E i \in 1 .. k : S[i] = x
    <2>1. IsFiniteSet(C)
        BY <1>2, ChildrenAre
    <2>2. /\ S \in Seq(C) /\ \A x \in C : \E i \in DOMAIN S : S[i] = x
          /\ \A i, j \in DOMAIN S : S[i] = S[j] => i = j
        BY <2>1, InSomeOrder
    <2> HIDE DEF S
    <2>3. Len(S) \in Nat /\ DOMAIN S = 1 .. Len(S) /\ \A i \in 1 .. Len(S) : S[i] \in C
        BY <2>2
    <2> QED BY <2>2, <2>3
<1>5. /\ q \in Seq(E \ {Root}) /\ S \in Seq(E \ {Root})
    <2>1. q \in Seq(D \ {Root})
        BY DEF QueueOK
    <2>2. D \ {Root} \subseteq E \ {Root} /\ C \subseteq E \ {Root}
        BY <1>2, <1>3
    <2> QED BY <1>4, <2>1, <2>2, SeqMonotonic
<1>6. /\ r \in Seq(E \ {Root}) /\ Len(r) = m + k /\ m \in Nat
      /\ \A i \in 1 .. m : r[i] = q[i + 1]
      /\ \A i \in 1 .. k : r[m + i] = S[i]
    <2>1. r = Tail(q) \o S
        OBVIOUS
    <2> HIDE DEF S, E, r, m, k
    <2>2. m = Len(q) - 1 /\ k = Len(S)
        BY DEF m, k
    <2> QED BY <1>5, <2>1, <2>2, QueueAfter
<1>7. \A i \in 1 .. m : /\ i + 1 \in 1 .. Len(q) /\ q[i + 1] \in D \ {Root} /\ q[i + 1] # p
                        /\ Len(q[i + 1]) \in Nat
                        /\ L <= Len(q[i + 1]) /\ Len(q[i + 1]) <= L + 1
    <2> TAKE i \in 1 .. m
    <2>1. Len(q) \in Nat /\ i + 1 \in 1 .. Len(q) /\ 1 \in 1 .. Len(q) /\ 1 < i + 1
        BY <1>6, ShortNodes
    <2>2. q[i + 1] \in D \ {Root} /\ DOMAIN q = 1 .. Len(q)
        BY <2>1 DEF QueueOK
    <2>3. q[i + 1] # q[1]
        BY <2>1, <2>2 DEF QueueOK, Once
    <2>4. Len(q[1]) <= Len(q[i + 1]) /\ Len(q[i + 1]) <= Len(q[1]) + 1
        BY <2>1 DEF QueueOK
    <2>5. Len(q[i + 1]) \in Nat
        BY <1>2, <2>2, NodeFacts, WordFacts
    <2> QED BY <1>2, <2>1, <2>2, <2>3, <2>4, <2>5
\* A place in the new queue is one of the old queue or of a child.
<1>8. \A i \in 1 .. m + k : \/ i \in 1 .. m /\ r[i] = q[i + 1]
                            \/ i - m \in 1 .. k /\ r[i] = S[i - m] /\ r[i] \in C /\ i > m
    <2> TAKE i \in 1 .. m + k
    <2> HIDE DEF S, r, m, k
    <2>1. CASE i <= m
        BY <1>6, <2>1
    <2>2. CASE ~(i <= m)
        <3>1. i - m \in 1 .. k /\ m + (i - m) = i /\ i > m
            BY <1>4, <1>6, <2>2
        <3> QED BY <1>4, <1>6, <3>1
    <2> QED BY <2>1, <2>2
<1>9. DOMAIN r = 1 .. m + k
    BY <1>6
<1> HIDE DEF p, S, D, E, r, m, k, L
<1>10. Once(r)
    <2> SUFFICES ASSUME NEW i \in 1 .. m + k, NEW j \in 1 .. m + k, r[i] = r[j]
                 PROVE  i = j
        BY <1>9 DEF Once
    <2>1. CASE i \in 1 .. m /\ j \in 1 .. m
        <3>1. q[i + 1] = q[j + 1] /\ i + 1 \in DOMAIN q /\ j + 1 \in DOMAIN q
            <4>1. DOMAIN q = 1 .. Len(q)
                BY DEF QueueOK
            <4> QED BY <1>6, <1>7, <2>1, <4>1
        <3>2. i + 1 = j + 1
            BY <3>1 DEF QueueOK, Once
        <3> QED BY <1>6, <3>2
    <2>2. CASE i \notin 1 .. m /\ j \notin 1 .. m
        <3>1. i - m \in 1 .. k /\ j - m \in 1 .. k /\ S[i - m] = S[j - m]
            BY <1>8, <2>2
        <3>2. i - m = j - m
            BY <1>4, <3>1
        <3> QED BY <1>4, <1>6, <3>2
    <2>3. ASSUME NEW x \in 1 .. m, NEW y \in 1 .. m + k, y \notin 1 .. m, r[x] = r[y]
          PROVE  FALSE
        <3>1. r[x] = q[x + 1] /\ q[x + 1] \in D
            BY <1>6, <1>7
        <3>2. r[y] \in C
            BY <1>8, <2>3
        <3> QED BY <1>3, <2>3, <3>1, <3>2
    <2> QED BY <2>1, <2>2, <2>3
<1>11. \A i \in 1 .. m + k : /\ Len(r[i]) \in Nat /\ L <= Len(r[i]) /\ Len(r[i]) <= L + 1
                             /\ i \notin 1 .. m => Len(r[i]) = L + 1
    <2> TAKE i \in 1 .. m + k
    <2>1. CASE i \in 1 .. m
        BY <1>6, <1>7, <2>1
    <2>2. CASE i \notin 1 .. m
        BY <1>2, <1>3, <1>8, <2>2
    <2> QED BY <2>1, <2>2
<1>12. \A i, j \in 1 .. m + k : i < j => Len(r[i]) <= Len(r[j])
    <2> SUFFICES ASSUME NEW i \in 1 .. m + k, NEW j \in 1 .. m + k, i < j
                 PROVE  Len(r[i]) <= Len(r[j])
        OBVIOUS
    <2>1. CASE j \in 1 .. m
        <3>1. i \in 1 .. m /\ i + 1 < j + 1
            BY <1>4, <1>6, <2>1
        <3>2. Len(q[i + 1]) <= Len(q[j + 1])
            BY <1>7, <2>1, <3>1 DEF QueueOK
        <3> QED BY <1>6, <2>1, <3>1, <3>2
    <2>2. CASE j \notin 1 .. m
        BY <1>2, <1>11, <2>2
    <2> QED BY <2>1, <2>2
<1>13. \A j \in 1 .. m + k : Len(r[j]) <= Len(r[1]) + 1
    <2> TAKE j \in 1 .. m + k
    <2>1. 1 \in 1 .. m + k
        BY <1>4, <1>6
    <2>2. L <= Len(r[1]) /\ Len(r[j]) <= L + 1 /\ Len(r[1]) \in Nat /\ Len(r[j]) \in Nat
        BY <1>11, <2>1
    <2> QED BY <1>2, <2>2
<1>14. \A n \in E \ {Root} : Front(n) \in E
    BY <1>2, <1>3 DEF QueueOK, D
<1>15. ASSUME NEW i \in 1 .. m + k, NEW n \in E
       PROVE  n \notin Children(r[i])
    <2> SUFFICES ASSUME n \in Children(r[i]) PROVE FALSE
        OBVIOUS
    <2>1. n \in Nodes /\ n # Root /\ Front(n) = r[i]
        BY DEF Children
    <2>2. CASE n \in C
        <3>1. r[i] = p
            BY <1>3, <2>1, <2>2
        <3> QED BY <1>2, <1>3, <1>6, <1>7, <1>8, <3>1
    <2>3. CASE n \in D
        <3>1. Front(n) \in D
            BY <2>1, <2>3 DEF QueueOK, D
        <3>2. i \in 1 .. m
            BY <1>3, <1>8, <2>1, <3>1
        <3>3. i + 1 \in 1 .. Len(q) /\ n \in Children(q[i + 1])
            BY <1>6, <1>7, <3>2
        <3> QED BY <2>3, <3>3 DEF QueueOK, D
    <2> QED BY <1>2, <2>2, <2>3
<1>16. ASSUME NEW n \in Nodes, n \notin E
       PROVE  \E i \in 1 .. m + k : IsFront(r[i], n)
    <2>1. PICK i \in 1 .. Len(q) : IsFront(q[i], n)
        BY <1>2, <1>16 DEF QueueOK, D
    <2>2. CASE i # 1
        <3>1. i - 1 \in 1 .. m /\ (i - 1) + 1 = i /\ i - 1 \in 1 .. m + k
            BY <1>4, <1>6, <2>2 DEF m
        <3> QED BY <1>6, <2>1, <3>1
    <2>3. CASE i = 1
        <3>1. /\ IsFront(p, n) /\ n \in Words /\ Len(n) \in Nat /\ L < Len(n)
              /\ \A j \in 1 .. L : p[j] = n[j]
            BY <1>2, <2>1, <2>3, NodeFacts, WordFacts DEF IsFront, L
        <3> DEFINE x == SubSeq(n, 1, L + 1)
        <3>2. /\ x \in Nodes /\ x \in Words /\ Len(x) = L + 1
              /\ \A j \in 1 .. L + 1 : x[j] = n[j]
            <4>1. L + 1 \in 0 .. Len(n)
                BY <1>2, <3>1
            <4> QED BY <3>1, <4>1, FrontPart, PrefixIsWord
        <3> HIDE DEF x
        <3>3. x # Root /\ ~(Len(x) < 1)
            BY <1>2, <3>2, RootIsShortest
        <3>4. Front(x) = p
            <4>1. /\ Front(x) \in Words /\ Len(Front(x)) = L
                  /\ \A j \in 1 .. L : Front(x)[j] = x[j]
                <5>1. /\ Front(x) \in Words /\ Len(Front(x)) = Len(x) - 1
                      /\ \A j \in 1 .. Len(x) - 1 : Front(x)[j] = x[j]
                    BY <3>2, <3>3, FrontLast
                <5>2. Len(x) - 1 = L
                    BY <1>2, <3>2
                <5> QED BY <5>1, <5>2
            <4>2. \A j \in 1 .. L : Front(x)[j] = p[j]
                BY <1>2, <3>1, <3>2, <4>1
            <4> QED BY <1>2, <4>1, <4>2, WordEqual DEF L
        <3>5. x \in C
            BY <3>2, <3>3, <3>4 DEF Children, p
        <3>6. Len(x) < Len(n)
            <4>1. ASSUME ~(L + 1 < Len(n))
                  PROVE  FALSE
                <5>1. Len(n) = L + 1
                    BY <1>2, <3>1, <4>1
                <5>2. x = n
                    BY <3>1, <3>2, <5>1, WordEqual
                <5> QED BY <1>2, <1>16, <3>5, <5>2
            <4> QED BY <3>2, <4>1
        <3>7. IsFront(x, n)
            BY <3>2, <3>6 DEF IsFront
        <3>8. PICK j \in 1 .. k : S[j] = x
            BY <1>4, <3>5
        <3>9. m + j \in 1 .. m + k /\ r[m + j] = x
            BY <1>4, <1>6, <3>8
        <3> QED BY <3>7, <3>9
    <2> QED BY <2>2, <2>3
<1>17. Len(r) = m + k /\ r \in Seq(E \ {Root})
    BY <1>6
<1> QED BY <1>1, <1>10, <1>12, <1>13, <1>14, <1>15, <1>16, <1>17 DEF QueueOK, r, E

\* So a step of build keeps the invariant.
LEMMA BuildStepBuilds ==
    ASSUME BuildInv, BuildStep
    PROVE  BuildInv'
<1>1. /\ BuildStepDoes(Head(queue), Children(Head(queue)))
      /\ queue' = Tail(queue) \o SetToSeq(Children(Head(queue)))
      /\ queue # <<>> /\ UNCHANGED <<text, siglookup>>
      /\ WordsOK /\ LinksOK /\ OutputsOK /\ QueueOK
    BY BuildStepIs
<1>2. LinksOK' /\ OutputsOK' /\ QueueOK'
    BY <1>1, BuildStepLinks, BuildStepOutputs, BuildStepQueue
<1>3. fail' # <<>>
    BY <1>2, NotEmpty DEF LinksOK
<1>4. WordsOK'
    BY <1>1, TrieStays
<1> QED BY <1>2, <1>3, <1>4 DEF BuildInv

-----------------------------------------------------------------------------
(* The search *)

\* What has been read of the file.
Read(e) == SubSeq(text, 1, e)

\* The places where a signature is in the first e bytes.
Found(e) == {m \in Nat \X siglookup :
                /\ m[1] + Len(m[2]) <= e
                /\ Ends(m[2], Read(m[1] + Len(m[2])))}

\* The search is at the longest node that ends what was read, and has found every
\* signature in it once.
SearchInv ==
    /\ searched \in 0 .. Len(text)
    /\ current \in Nodes /\ Ends(current, Read(searched))
    /\ \A m \in Nodes : Ends(m, Read(searched)) => Len(m) <= Len(current)
    /\ results \in Seq(Nat \X siglookup) /\ Once(results)
    /\ \A x : x \in Found(searched) <=> Has(results, x)

\* Reading one byte more appends it.
LEMMA ReadIs ==
    ASSUME WordsOK, NEW e \in 0 .. Len(text)
    PROVE  /\ Read(e) \in Words /\ Len(Read(e)) = e
           /\ \A i \in 1 .. e : Read(e)[i] = text[i]
           /\ e < Len(text) => text[e + 1] \in Nat /\ Read(e + 1) = Append(Read(e), text[e + 1])
<1>1. text \in Words /\ Len(text) \in Nat
    BY WordFacts DEF WordsOK
<1>2. /\ Read(e) \in Words /\ Len(Read(e)) = e
      /\ \A i \in 1 .. e : Read(e)[i] = text[i]
    BY <1>1, PrefixIsWord DEF Read
<1>3. ASSUME e < Len(text)
      PROVE  text[e + 1] \in Nat /\ Read(e + 1) = Append(Read(e), text[e + 1])
    <2>1. e + 1 \in 1 .. Len(text) /\ e + 1 \in 0 .. Len(text) /\ e \in Nat
        BY <1>1, <1>3
    <2>2. text[e + 1] \in Nat
        BY <1>1, <2>1, WordFacts
    <2> DEFINE a == Append(Read(e), text[e + 1])
               r == Read(e + 1)
    <2>3. /\ r \in Words /\ Len(r) = e + 1 /\ \A i \in 1 .. e + 1 : r[i] = text[i]
        BY <1>1, <2>1, PrefixIsWord DEF Read
    <2>4. /\ a \in Words /\ Len(a) = Len(Read(e)) + 1
          /\ \A i \in 1 .. Len(Read(e)) : a[i] = Read(e)[i]
          /\ a[Len(Read(e)) + 1] = text[e + 1]
        BY <1>2, <2>2, AppendProperties DEF Words
    <2> HIDE DEF a, r
    <2>5. Len(a) = e + 1 /\ a[e + 1] = text[e + 1] /\ \A i \in 1 .. e : a[i] = text[i]
        BY <1>2, <2>4
    <2>6. \A i \in 1 .. e + 1 : r[i] = a[i]
        <3> TAKE i \in 1 .. e + 1
        <3>1. i \in 1 .. e \/ i = e + 1
            BY <2>1
        <3> QED BY <2>3, <2>5, <3>1
    <2>7. r = a
        <3>1. Len(r) = Len(a) /\ \A i \in 1 .. Len(r) : r[i] = a[i]
            BY <2>3, <2>5, <2>6
        <3> QED BY <2>3, <2>4, <3>1, WordEqual
    <2> QED BY <2>2, <2>7 DEF a, r
<1> QED BY <1>2, <1>3

\* What is found with one byte more ends with it.
LEMMA FoundAfter ==
    ASSUME WordsOK, NEW e \in 0 .. Len(text), e < Len(text)
    PROVE  /\ \A x : x \in Found(e + 1) <=>
                \/ x \in Found(e)
                \/ \E s \in siglookup : Ends(s, Read(e + 1)) /\ x = <<e + 1 - Len(s), s>>
           /\ \A s \in siglookup : Ends(s, Read(e + 1)) =>
                e + 1 - Len(s) \in Nat /\ <<e + 1 - Len(s), s>> \notin Found(e)
<1>1. Len(text) \in Nat /\ e \in Nat /\ e + 1 \in 0 .. Len(text) /\ Len(Read(e + 1)) = e + 1
    <2>1. Len(text) \in Nat
        BY WordFacts DEF WordsOK
    <2>2. e \in Nat /\ e + 1 \in 0 .. Len(text)
        BY <2>1
    <2> QED BY <2>1, <2>2, ReadIs
<1>2. \A s \in siglookup : Len(s) \in Nat
    BY WordFacts DEF WordsOK
<1>3. ASSUME NEW s \in siglookup, Ends(s, Read(e + 1))
      PROVE  /\ e + 1 - Len(s) \in Nat /\ (e + 1 - Len(s)) + Len(s) = e + 1
             /\ <<e + 1 - Len(s), s>> \in Found(e + 1)
             /\ <<e + 1 - Len(s), s>> \notin Found(e)
    <2>1. Len(s) <= e + 1 /\ Len(s) \in Nat
        BY <1>1, <1>2, <1>3 DEF Ends
    <2> DEFINE k == Len(s)
               a == e + 1 - k
    <2>2. k \in Nat /\ k <= e + 1
        BY <2>1
    <2> HIDE DEF k
    <2>3. a \in Nat /\ a + k = e + 1 /\ ~(a + k <= e)
        BY <1>1, <2>2
    <2> HIDE DEF a
    <2>4. <<a, s>> \in Nat \X siglookup /\ <<a, s>>[1] = a /\ <<a, s>>[2] = s
        BY <2>3
    <2>5. <<a, s>>[1] + Len(<<a, s>>[2]) = e + 1
        BY <2>3, <2>4 DEF k
    <2>6. <<a, s>> \in Found(e + 1)
        BY <1>1, <1>3, <2>4, <2>5 DEF Found
    <2>7. <<a, s>> \notin Found(e)
        BY <1>1, <2>5 DEF Found
    <2> QED BY <2>3, <2>6, <2>7 DEF a, k
<1>4. ASSUME NEW x \in Found(e)
      PROVE  x \in Found(e + 1)
    <2>1. /\ x \in Nat \X siglookup /\ x[1] \in Nat /\ Len(x[2]) \in Nat
          /\ x[1] + Len(x[2]) <= e /\ Ends(x[2], Read(x[1] + Len(x[2])))
        BY <1>2 DEF Found
    <2>2. x[1] + Len(x[2]) <= e + 1
        BY <1>1, <2>1
    <2> QED BY <2>1, <2>2 DEF Found
<1>5. ASSUME NEW x \in Found(e + 1), x \notin Found(e)
      PROVE  \E s \in siglookup : Ends(s, Read(e + 1)) /\ x = <<e + 1 - Len(s), s>>
    <2>1. /\ x \in Nat \X siglookup /\ x[1] \in Nat /\ x[2] \in siglookup /\ Len(x[2]) \in Nat
          /\ x[1] + Len(x[2]) <= e + 1 /\ Ends(x[2], Read(x[1] + Len(x[2])))
          /\ x = <<x[1], x[2]>>
        BY <1>2 DEF Found
    <2>2. ~(x[1] + Len(x[2]) <= e)
        BY <1>5, <2>1 DEF Found
    <2>3. x[1] + Len(x[2]) = e + 1
        BY <1>1, <2>1, <2>2
    <2>4. x[1] = e + 1 - Len(x[2])
        BY <1>1, <2>1, <2>3
    <2> QED BY <2>1, <2>3, <2>4
<1> QED BY <1>3, <1>4, <1>5

-----------------------------------------------------------------------------
(* A step of search *)

\* When the build is done, all nodes have their links.
LEMMA AllLinked ==
    ASSUME BuildInv, Built
    PROVE  WordsOK /\ LinksOK /\ OutputsOK /\ DOMAIN fail = Nodes
<1>1. WordsOK /\ LinksOK /\ OutputsOK /\ QueueOK /\ queue = <<>>
    BY DEF BuildInv, Built
<1>2. 1 .. Len(queue) = {}
    BY <1>1
<1>3. \A m \in Nodes : m \in DOMAIN fail
    BY <1>1, <1>2 DEF QueueOK
<1> QED BY <1>1, <1>3 DEF LinksOK

\* Every node that ends the next text, but for the root, is a child of a node that
\* ends the current node.
LEMMA NextEnds ==
    ASSUME WordsOK, NEW e \in 0 .. Len(text), e < Len(text),
           NEW cur \in Nodes, Ends(cur, Read(e)),
           \A m \in Nodes : Ends(m, Read(e)) => Len(m) <= Len(cur),
           NEW m \in Nodes, m # Root, Ends(m, Read(e + 1))
    PROVE  /\ Front(m) \in Nodes /\ Ends(Front(m), cur) /\ HasChild(Front(m), text[e + 1])
           /\ Len(m) = Len(Front(m)) + 1
<1>1. /\ text[e + 1] \in Nat /\ Read(e + 1) = Append(Read(e), text[e + 1])
      /\ Read(e) \in Words /\ cur \in Words /\ m \in Words
    BY ReadIs, NodeFacts
<1>2. /\ Front(m) \in Nodes /\ Front(m) \in Words /\ Last(m) \in Nat
      /\ m = Append(Front(m), Last(m)) /\ Len(m) = Len(Front(m)) + 1
    BY <1>1, NodeFacts, FrontLast
<1>3. Last(m) = text[e + 1] /\ Ends(Front(m), Read(e))
    <2> DEFINE f == Front(m)
               a == Last(m)
               w == Read(e)
               c == text[e + 1]
    <2>1. /\ f \in Words /\ a \in Nat /\ c \in Nat /\ w \in Words /\ m = Append(f, a)
          /\ Read(e + 1) = Append(w, c)
        BY <1>1, <1>2
    <2>2. Ends(m, Read(e + 1))
        OBVIOUS
    <2> HIDE DEF f, a, c, w
    <2>3. Ends(Append(f, a), Append(w, c))
        BY <2>1, <2>2
    <2>4. a = c /\ Ends(f, w)
        BY <2>1, <2>3, EndsAppend
    <2> QED BY <2>4 DEF f, a, c, w
<1>4. Ends(Front(m), cur)
    BY <1>1, <1>2, <1>3, EndsOfOne
<1>5. HasChild(Front(m), text[e + 1])
    BY <1>1, <1>2, <1>3, HasChildIs
<1> QED BY <1>2, <1>4, <1>5

\* A step of the search keeps its invariant.
LEMMA SearchStepFinds ==
    ASSUME BuildInv, SearchInv, SearchStep
    PROVE  SearchInv'
<1> DEFINE e == searched
           c == text[e + 1]
           n == FollowLinks(current, c)
           next == Append(n, c)
           new == [k \in DOMAIN output[next] |->
                       <<Position(output[next][k]), output[next][k]>>]
<1>1. /\ Built /\ e < Len(text) /\ e' = e + 1
      /\ IF n = NoNode THEN current' = Root /\ UNCHANGED results
         ELSE current' = next /\ results' = results \o new
      /\ UNCHANGED <<text, siglookup>>
    BY DEF SearchStep
<1>2. WordsOK /\ LinksOK /\ OutputsOK /\ DOMAIN fail = Nodes
    BY <1>1, AllLinked
<1>3. /\ e \in 0 .. Len(text) /\ Len(text) \in Nat /\ e + 1 \in 0 .. Len(text)
      /\ current \in Nodes /\ current \in Words /\ current # NoNode /\ Ends(current, Read(e))
      /\ c \in Nat /\ Read(e) \in Words /\ Read(e + 1) \in Words
      /\ Read(e + 1) = Append(Read(e), c)
    <2>1. /\ e \in 0 .. Len(text) /\ current \in Nodes /\ Ends(current, Read(e))
          /\ Len(text) \in Nat
        BY <1>2, WordFacts DEF SearchInv, WordsOK
    <2>2. e + 1 \in 0 .. Len(text)
        BY <1>1, <2>1
    <2> QED BY <1>1, <1>2, <2>1, <2>2, ReadIs, NodeFacts
<1>4. LongestIs(current, c, n)
    BY <1>2, <1>3, FollowLinksFinds
<1>5. /\ Nodes' = Nodes
      /\ \A i \in 0 .. Len(text) : Read(i)' = Read(i)
      /\ \A i : Found(i)' = Found(i)
    BY <1>1, TrieStays DEF Read, Found
<1>6. \A m \in Nodes : m # Root /\ Ends(m, Read(e + 1)) =>
            /\ Front(m) \in Nodes /\ Ends(Front(m), current) /\ HasChild(Front(m), c)
            /\ Len(m) = Len(Front(m)) + 1
    BY <1>1, <1>2, <1>3, NextEnds DEF SearchInv
<1>7. Root \in Nodes /\ siglookup \subseteq Nodes /\ Root \notin siglookup
    BY <1>2, NodeFacts
<1>8. /\ \A x : x \in Found(e + 1) <=>
                \/ x \in Found(e)
                \/ \E s \in siglookup : Ends(s, Read(e + 1)) /\ x = <<e + 1 - Len(s), s>>
      /\ \A s \in siglookup : Ends(s, Read(e + 1)) =>
                e + 1 - Len(s) \in Nat /\ <<e + 1 - Len(s), s>> \notin Found(e)
    BY <1>1, <1>2, <1>3, FoundAfter
<1>9. /\ results \in Seq(Nat \X siglookup) /\ Once(results)
      /\ \A x : x \in Found(e) <=> Has(results, x)
    BY DEF SearchInv
<1> HIDE DEF e, c, n, next, new
<1>10. CASE n = NoNode
    <2>1. current' = Root /\ results' = results
        BY <1>1, <1>10
    <2>2. NoneEnds(current, c)
        <3>1. n \notin Nodes
            BY <1>2, <1>10, NodeFacts
        <3> QED BY <1>3, <1>4, <3>1 DEF LongestIs, LongestEnd
    <2>3. \A m \in Nodes : Ends(m, Read(e + 1)) => m = Root
        BY <1>6, <2>2 DEF NoneEnds
    <2>4. Ends(Root, Read(e + 1)) /\ Len(Root) <= Len(Root)
        BY <1>2, <1>3, EndsSelf, NodeFacts, WordFacts
    <2>5. \A x : x \in Found(e + 1) <=> Has(results, x)
        BY <1>7, <1>8, <1>9, <2>3
    <2>6. /\ searched' = e + 1 /\ (0 .. Len(text))' = 0 .. Len(text) /\ siglookup' = siglookup
          /\ Read(searched)' = Read(e + 1) /\ Found(searched)' = Found(e + 1)
        BY <1>1, <1>3 DEF e, Read, Found
    <2>7. searched' \in (0 .. Len(text))'
        BY <1>3, <2>6
    <2> QED BY <1>5, <1>7, <1>9, <2>1, <2>3, <2>4, <2>5, <2>6, <2>7 DEF SearchInv
<1>11. CASE n # NoNode
    <2>1. current' = next /\ results' = results \o new
        BY <1>1, <1>11
    <2>2. LongestEnd(current, c, n)
        BY <1>3, <1>4, <1>11 DEF LongestIs
    <2>3. /\ n \in Nodes /\ n \in Words /\ next \in Nodes /\ next \in Words
          /\ Len(next) = Len(n) + 1 /\ Len(n) \in Nat /\ Ends(n, Read(e))
        <3>1. n \in Nodes /\ n \in Words /\ HasChild(n, c) /\ Ends(n, current)
            BY <1>2, <2>2, NodeFacts DEF LongestEnd
        <3>2. next \in Nodes /\ next \in Words /\ Len(next) = Len(n) + 1
            BY <1>2, <1>3, <3>1, NodeFacts, HasChildIs, AppendProperties DEF next, Words
        <3>3. Ends(n, Read(e))
            BY <1>3, <3>1, EndsTransitive
        <3> QED BY <3>1, <3>2, <3>3, WordFacts
    <2>4. Ends(next, Read(e + 1))
        <3>1. Ends(Append(n, c), Append(Read(e), c))
            BY <1>3, <2>3, EndsAppend
        <3> QED BY <1>3, <3>1 DEF next
    <2>5. ASSUME NEW m \in Nodes, Ends(m, Read(e + 1))
          PROVE  Len(m) <= Len(next)
        <3>1. CASE m = Root
            <4>1. Len(Root) \in Nat /\ Len(Root) < 1
                BY <1>2, NodeFacts, RootIsShortest
            <4> QED BY <2>3, <3>1, <4>1
        <3>2. CASE m # Root
            <4>1. Len(Front(m)) <= Len(n) /\ Len(m) = Len(Front(m)) + 1 /\ Len(Front(m)) \in Nat
                BY <1>2, <1>6, <2>2, <2>5, <3>2, NodeFacts, WordFacts DEF LongestEnd
            <4> QED BY <2>3, <4>1
        <3> QED BY <3>1, <3>2
    \* The new results are those of the signatures that end here.
    <2> DEFINE q == output[next]
    <2>6. /\ q \in Seq(siglookup) /\ Once(q)
          /\ \A s \in siglookup : Ends(s, next) <=> \E i \in DOMAIN q : q[i] = s
        BY <1>2, <2>3 DEF OutputsOK, Has
    <2>7. \A s \in siglookup : Ends(s, next) <=> Ends(s, Read(e + 1))
        <3> TAKE s \in siglookup
        <3>1. s \in Nodes /\ s \in Words
            BY <1>2, <1>7, NodeFacts
        <3>2. Ends(s, next) => Ends(s, Read(e + 1))
            BY <1>3, <2>3, <2>4, <3>1, EndsTransitive
        <3>3. Ends(s, Read(e + 1)) => Ends(s, next)
            BY <1>3, <2>3, <2>4, <2>5, <3>1, EndsOfOne
        <3> QED BY <3>2, <3>3
    <2>8. new = [k \in DOMAIN q |-> <<e + 1 - Len(q[k]), q[k]>>]
        BY DEF new, Position, e
    <2> HIDE DEF q
    <2>9. \A k \in DOMAIN q : q[k] \in siglookup
        BY <2>6
    <2>10. \A k \in DOMAIN q : e + 1 - Len(q[k]) \in Nat
                               /\ <<e + 1 - Len(q[k]), q[k]>> \notin Found(e)
        BY <1>8, <2>6, <2>7, <2>9
    <2>11. new \in Seq(Nat \X siglookup) /\ DOMAIN new = DOMAIN q
        <3>1. Len(q) \in Nat /\ DOMAIN q = 1 .. Len(q)
            BY <2>6
        <3>2. \A k \in DOMAIN q : <<e + 1 - Len(q[k]), q[k]>> \in Nat \X siglookup
            BY <2>9, <2>10
        <3>3. new \in [1 .. Len(q) -> Nat \X siglookup]
            BY <2>8, <3>1, <3>2
        <3> QED BY <3>1, <3>3
    <2>12. Once(new)
        <3> SUFFICES ASSUME NEW i \in DOMAIN q, NEW j \in DOMAIN q, new[i] = new[j]
                     PROVE  i = j
            BY <2>11 DEF Once
        <3>1. new[i][2] = q[i] /\ new[j][2] = q[j]
            BY <2>8
        <3> QED BY <2>6, <3>1 DEF Once
    <2>13. \A x : Has(new, x) <=>
                    \E s \in siglookup : Ends(s, Read(e + 1)) /\ x = <<e + 1 - Len(s), s>>
        BY <2>6, <2>7, <2>8, <2>9, <2>11 DEF Has
    <2>14. \A x : ~(Has(results, x) /\ Has(new, x))
        BY <1>8, <1>9, <2>13
    <2>15. /\ results' \in Seq(Nat \X siglookup) /\ Once(results')
           /\ \A x : Has(results', x) <=> Has(results, x) \/ Has(new, x)
        <3> DEFINE T == Nat \X siglookup
        <3>1. /\ results \in Seq(T) /\ new \in Seq(T) /\ Once(results) /\ Once(new)
              /\ \A x : ~(Has(results, x) /\ Has(new, x))
            BY <1>9, <2>11, <2>12, <2>14
        <3> HIDE DEF T
        <3>2. LET o == results \o new
              IN /\ o \in Seq(T) /\ Once(o)
                 /\ \A x : Has(o, x) <=> Has(results, x) \/ Has(new, x)
            BY <3>1, OnceConcat
        <3> QED BY <2>1, <3>2 DEF T
    <2>16. \A x : x \in Found(e + 1) <=> Has(results', x)
        BY <1>8, <1>9, <2>13, <2>15
    <2>17. /\ searched' = e + 1 /\ (0 .. Len(text))' = 0 .. Len(text) /\ siglookup' = siglookup
           /\ Read(searched)' = Read(e + 1) /\ Found(searched)' = Found(e + 1)
        BY <1>1, <1>3 DEF e, Read, Found
    <2>18. searched' \in (0 .. Len(text))'
        BY <1>3, <2>17
    <2> QED BY <1>5, <2>1, <2>3, <2>4, <2>5, <2>15, <2>16, <2>17, <2>18 DEF SearchInv
<1> QED BY <1>10, <1>11

-----------------------------------------------------------------------------
(* The search as a whole *)

\* The table is empty until the search is at the end of the file.
OffsetsInv ==
    /\ stage # "lifting" => functions = <<>>
    /\ stage = "lifting" => searched = Len(text) /\ DOMAIN functions = Offsets
    /\ \A k \in DOMAIN functions : functions[k] \in siglookup

\* The three together.
AutomatonInv == BuildInv /\ SearchInv /\ OffsetsInv

\* A step that leaves the variables of a part alone keeps its invariant.
LEMMA BuildIsKept ==
    ASSUME BuildInv, UNCHANGED <<text, siglookup, fail, output, queue>>
    PROVE  BuildInv'
<1>1. Nodes' = Nodes /\ \A n : Children(n)' = Children(n)
    BY TrieStays
<1>2. WordsOK' = WordsOK
    BY TrieStays
<1>3. LinksOK' = LinksOK
    BY <1>1 DEF LinksOK, IsLink
<1>4. OutputsOK' = OutputsOK
    BY <1>1 DEF OutputsOK
<1>5. QueueOK' = QueueOK
    BY <1>1 DEF QueueOK
<1> QED BY <1>2, <1>3, <1>4, <1>5 DEF BuildInv

\* The same for the search,
LEMMA SearchIsKept ==
    ASSUME SearchInv, UNCHANGED <<text, siglookup, current, results, searched>>
    PROVE  SearchInv'
<1>1. Nodes' = Nodes /\ Read(searched)' = Read(searched) /\ Found(searched)' = Found(searched)
    BY TrieStays DEF Read, Found
<1> QED BY <1>1 DEF SearchInv

\* and for the table.
LEMMA OffsetsAreKept ==
    ASSUME OffsetsInv, UNCHANGED <<file, results, searched, text, siglookup, functions>>,
           stage' = "lifting" <=> stage = "lifting"
    PROVE  OffsetsInv'
<1>1. Offsets' = Offsets
    BY DEF Offsets, fileOffsetToRVA, SectionBefore
<1> QED BY <1>1 DEF OffsetsInv

\* Before anything is read, the search is at the root and nothing is found.
LEMMA AutomatonInvAtStart == SearchInit => AutomatonInv
<1> SUFFICES ASSUME SearchInit
             PROVE  AutomatonInv
    OBVIOUS
<1>1. /\ fail = <<>> /\ output = <<>> /\ queue = <<>> /\ current = Root /\ results = <<>>
      /\ searched = 0 /\ functions = <<>> /\ stage = "sections"
    BY DEF SearchInit, ImageInit
<1>2. WordsOK
    <2>1. PICK p \in Starts : file = p.file /\ text = p.text /\ siglookup = p.signatures
        BY DEF SearchInit
    <2> QED BY <2>1, StartsAssumption DEF WordsOK, Words, Root
<1>3. BuildInv
    BY <1>1, <1>2 DEF BuildInv
<1>4. Root \in Nodes /\ Root \in Words /\ Len(text) \in Nat
    BY <1>2, NodeFacts, WordFacts DEF WordsOK
<1>5. Read(0) \in Words /\ Len(Read(0)) = 0 /\ 0 \in 0 .. Len(text)
    BY <1>2, <1>4, ReadIs
<1>6. Read(0) = Root
    BY <1>5, WordFacts DEF Root
<1>7. \A m \in Nodes : Ends(m, Root) => Len(m) <= Len(Root)
    BY DEF Ends
<1>8. Ends(Root, Root)
    BY <1>4, EndsSelf
<1>9. \A x : x \notin Found(0)
    <2> SUFFICES ASSUME NEW x \in Found(0)
                 PROVE  FALSE
        OBVIOUS
    <2>1. x[1] \in Nat /\ x[2] \in siglookup /\ x[1] + Len(x[2]) <= 0
        BY DEF Found
    <2>2. Len(x[2]) \in Nat /\ ~(Len(x[2]) < 1)
        BY <1>2, <2>1, RootIsShortest DEF WordsOK
    <2> QED BY <2>1, <2>2
<1>10. SearchInv
    <2>1. results \in Seq(Nat \X siglookup) /\ Once(results) /\ \A x : ~Has(results, x)
        BY <1>1 DEF Once, Has
    <2> QED BY <1>1, <1>4, <1>5, <1>6, <1>7, <1>8, <1>9, <2>1 DEF SearchInv
<1>11. OffsetsInv
    BY <1>1 DEF OffsetsInv
<1> QED BY <1>3, <1>10, <1>11 DEF AutomatonInv

\* Every step keeps the three.
LEMMA AutomatonInvIsKept ==
    ASSUME AutomatonInv, [SearchNext]_allVars
    PROVE  AutomatonInv'
<1> USE DEF imageVars, searchVars, vars
<1>1. BuildInv /\ SearchInv /\ OffsetsInv
    BY DEF AutomatonInv
<1>2. CASE LoadStep /\ UNCHANGED <<text, siglookup, searchVars>>
    <2>1. UNCHANGED file /\ (stage' = "lifting" <=> stage = "lifting")
        BY <1>2 DEF LoadStep, AddSection, AddStack, MarkPages, ReadMemory
    <2> QED BY <1>1, <1>2, <2>1, BuildIsKept, SearchIsKept, OffsetsAreKept DEF AutomatonInv
<1>3. CASE StartBuild
    <2>1. BuildInv'
        BY <1>1, <1>3, StartBuildBuilds
    <2>2. UNCHANGED <<current, results, searched, functions, text, siglookup, file, stage>>
        BY <1>3 DEF StartBuild
    <2> QED BY <1>1, <2>1, <2>2, SearchIsKept, OffsetsAreKept DEF AutomatonInv
<1>4. CASE BuildStep
    <2>1. BuildInv'
        BY <1>1, <1>4, BuildStepBuilds
    <2>2. UNCHANGED <<current, results, searched, functions, text, siglookup, file, stage>>
        BY <1>4 DEF BuildStep
    <2> QED BY <1>1, <2>1, <2>2, SearchIsKept, OffsetsAreKept DEF AutomatonInv
<1>5. CASE SearchStep
    <2>1. SearchInv'
        BY <1>1, <1>5, SearchStepFinds
    <2>2. /\ UNCHANGED <<fail, output, queue, functions, text, siglookup, file, stage>>
          /\ stage = "search"
        BY <1>5 DEF SearchStep, Built
    <2>3. OffsetsInv'
        BY <1>1, <2>2 DEF OffsetsInv
    <2> QED BY <1>1, <2>1, <2>2, <2>3, BuildIsKept DEF AutomatonInv
<1>6. CASE CreateOffsetMap
    <2>1. /\ UNCHANGED <<fail, output, queue, current, results, searched, text, siglookup, file>>
          /\ searched = Len(text) /\ stage' = "lifting"
        BY <1>6 DEF CreateOffsetMap
    <2>2. PICK last \in siglookup : functions' = [o \in Offsets |-> last]
        BY <1>6 DEF CreateOffsetMap
    <2>3. Offsets' = Offsets
        BY <2>1 DEF Offsets, fileOffsetToRVA, SectionBefore
    <2>4. OffsetsInv'
        BY <2>1, <2>2, <2>3 DEF OffsetsInv
    <2> QED BY <1>1, <2>1, <2>4, BuildIsKept, SearchIsKept DEF AutomatonInv
<1>7. CASE UNCHANGED allVars
    BY <1>1, <1>7, BuildIsKept, SearchIsKept, OffsetsAreKept DEF AutomatonInv, allVars
<1> QED BY <1>2, <1>3, <1>4, <1>5, <1>6, <1>7 DEF SearchNext

\* The automaton and its search keep their invariant: during build every node in the
\* queue and every shorter one has its longest link (FunctionSignatures.hpp:147), and
\* search is at the longest node that ends what it has read (:119).
THEOREM AutomatonInvariant == SearchSpec => []AutomatonInv
<1>1. SearchInit => AutomatonInv
    BY AutomatonInvAtStart
<1>2. AutomatonInv /\ [SearchNext]_allVars => AutomatonInv'
    BY AutomatonInvIsKept
<1> QED BY <1>1, <1>2, PTL DEF SearchSpec

\* The link of every node is the longest other node that ends it, and its output
\* is every signature that does, for every set of signatures.
THEOREM LinksAreAlwaysLongest == SearchSpec => []LinksAreLongest
<1>1. AutomatonInv => LinksAreLongest
    <2> SUFFICES ASSUME AutomatonInv, NEW n \in DOMAIN fail \ {Root}
                 PROVE  /\ fail[n] \in ProperSuffixes(n)
                        /\ \A m \in ProperSuffixes(n) : Len(m) <= Len(fail[n])
                        /\ ToSet(output[n]) = {s \in siglookup : IsSuffix(s, n)}
        BY DEF LinksAreLongest
    <2>1. fail # <<>>
        BY NotEmpty
    <2>2. WordsOK /\ LinksOK /\ OutputsOK
        BY <2>1 DEF AutomatonInv, BuildInv
    <2>3. n \in Words /\ Nodes \subseteq Words /\ siglookup \subseteq Nodes
        BY <2>2, NodeFacts DEF LinksOK
    <2>4. \A m \in Nodes : IsSuffix(m, n) <=> Ends(m, n)
        BY <2>3, IsSuffixIsEnds
    <2>5. IsLink(n, fail[n])
        BY <2>2 DEF LinksOK
    <2>6. output[n] \in Seq(siglookup)
          /\ \A s \in siglookup : Ends(s, n) <=> \E i \in DOMAIN output[n] : output[n][i] = s
        BY <2>2 DEF OutputsOK, LinksOK, Has
    <2>7. \A i \in DOMAIN output[n] : output[n][i] \in siglookup
        BY <2>6
    <2>8. ToSet(output[n]) = {s \in siglookup : IsSuffix(s, n)}
        BY <2>3, <2>4, <2>6, <2>7 DEF ToSet
    <2> QED BY <2>4, <2>5, <2>8 DEF IsLink, ProperSuffixes
<1> QED BY <1>1, AutomatonInvariant, PTL

\* A place where the bytes of s are is one where s ends what was read up to its end.
LEMMA MatchIsEnds ==
    ASSUME WordsOK, NEW a \in Nat, NEW s \in Words, a + Len(s) <= Len(text)
    PROVE  SubSeq(text, a + 1, a + Len(s)) = s <=> Ends(s, Read(a + Len(s)))
<1> DEFINE k == Len(s)
           n == Len(text)
           w == SubSeq(text, a + 1, a + k)
           r == Read(a + k)
<1>1. k \in Nat /\ n \in Nat /\ \A i \in 1 .. n : text[i] \in Nat
    BY WordFacts DEF WordsOK
<1>2. a + k <= n
    OBVIOUS
<1>3. Len(s) = k
    OBVIOUS
<1>4. r \in Words /\ Len(r) = a + k /\ \A i \in 1 .. a + k : r[i] = text[i]
    <2>1. a + k \in 0 .. Len(text)
        BY <1>1, <1>2
    <2> QED BY <2>1, ReadIs
<1>5. w \in Words /\ Len(w) = k /\ \A i \in 1 .. k : w[i] = text[a + i]
    <2>1. \A i \in a + 1 .. a + k : text[i] \in Nat
        <3> HIDE DEF k, n
        <3>1. \A i \in a + 1 .. a + k : i \in 1 .. n
            BY <1>1, <1>2
        <3> QED BY <1>1, <3>1
    <2>2. a + 1 \in Int /\ a + k \in Int
        BY <1>1
    <2>3. /\ w \in Seq(Nat)
          /\ Len(w) = IF a + 1 <= a + k THEN a + k - (a + 1) + 1 ELSE 0
          /\ \A i \in 1 .. a + k - (a + 1) + 1 : w[i] = text[a + 1 + i - 1]
        BY <2>1, <2>2, SubSeqProperties
    <2> HIDE DEF w, k, n
    <2>4. a + k - (a + 1) + 1 = k /\ Len(w) = k
        BY <1>1, <2>3
    <2>5. \A i \in 1 .. k : w[i] = text[a + 1 + i - 1] /\ a + 1 + i - 1 = a + i
        BY <2>3, <2>4
    <2> QED BY <2>3, <2>4, <2>5 DEF Words
<1> HIDE DEF k, n, w, r
<1>6. Ends(s, r) <=> \A i \in 1 .. k : s[i] = text[a + i]
    <2>1. Len(s) \in Nat /\ Len(s) <= Len(r)
        BY <1>1, <1>3, <1>4
    <2>2. \A i \in 1 .. k : i \in 1 .. Len(s) /\ r[Len(r) - Len(s) + i] = text[a + i]
        <3> TAKE i \in 1 .. k
        <3>1. Len(r) - Len(s) + i = a + i /\ a + i \in 1 .. a + k
            BY <1>1, <1>3, <1>4
        <3> QED BY <1>3, <1>4, <3>1
    <2>3. Ends(s, r) <=> \A i \in 1 .. Len(s) : s[i] = r[Len(r) - Len(s) + i]
        BY <2>1 DEF Ends
    <2>4. \A i \in 1 .. Len(s) : i \in 1 .. k
        BY <1>3
    <2> QED BY <2>2, <2>3, <2>4
<1>7. w = s <=> \A i \in 1 .. k : s[i] = text[a + i]
    BY <1>3, <1>5, WordEqual
<1> QED BY <1>6, <1>7 DEF k, w, r

\* What is found is what matches.
LEMMA FoundAreMatches ==
    ASSUME WordsOK, NEW e \in 0 .. Len(text)
    PROVE  Found(e) = {m \in Matches : IsMatch(m) /\ m[1] + Len(m[2]) <= e}
<1>1. Len(text) \in Nat /\ e \in Nat /\ e <= Len(text)
    BY WordFacts DEF WordsOK
<1>2. \A s \in siglookup : s \in Words /\ Len(s) \in Nat /\ ~(Len(s) < 1)
    BY RootIsShortest DEF WordsOK
<1>3. ASSUME NEW m \in Found(e)
      PROVE  m \in Matches /\ IsMatch(m) /\ m[1] + Len(m[2]) <= e
    <2>1. /\ m[1] \in Nat /\ m[2] \in siglookup /\ m = <<m[1], m[2]>>
          /\ m[1] + Len(m[2]) <= e /\ Ends(m[2], Read(m[1] + Len(m[2])))
        BY DEF Found
    <2>2. m[1] + Len(m[2]) <= Len(text) /\ m[1] + 1 \in 1 .. Len(text) /\ m[1] + 1 - 1 = m[1]
        BY <1>1, <1>2, <2>1
    <2>3. m \in Matches
        BY <2>1, <2>2 DEF Matches
    <2>4. IsMatch(m)
        BY <1>2, <2>1, <2>2, MatchIsEnds DEF IsMatch
    <2> QED BY <2>1, <2>3, <2>4
<1>4. ASSUME NEW m \in Matches, IsMatch(m), m[1] + Len(m[2]) <= e
      PROVE  m \in Found(e)
    <2>1. PICK i \in 1 .. Len(text), s \in siglookup : m = <<i - 1, s>>
        BY DEF Matches
    <2>2. m[1] \in Nat /\ m[2] \in siglookup /\ m \in Nat \X siglookup
        BY <1>1, <2>1
    <2>3. Ends(m[2], Read(m[1] + Len(m[2])))
        BY <1>2, <1>4, <2>2, MatchIsEnds DEF IsMatch
    <2> QED BY <1>4, <2>2, <2>3 DEF Found
<1> QED BY <1>3, <1>4

\* A sequence without repetitions is as long as it has elements.
LEMMA OnceIsCounted ==
    ASSUME NEW T, NEW q \in Seq(T), Once(q)
    PROVE  Len(q) = Cardinality(ToSet(q))
<1> DEFINE n == Len(q)
           S == ToSet(q)
<1>1. n \in Nat /\ DOMAIN q = 1 .. n
    BY LenProperties
<1>2. S = {q[i] : i \in 1 .. n}
    BY <1>1 DEF ToSet
<1>3. q = [i \in 1 .. n |-> q[i]]
    BY <1>1
<1> HIDE DEF n, S
<1>4. q \in [1 .. n -> S]
    BY <1>2, <1>3
<1>5. q \in Bijection(1 .. n, S)
    <2>1. IsInjective(q)
        BY <1>1 DEF Once, IsInjective
    <2>2. \A t \in S : \E s \in 1 .. n : q[s] = t
        BY <1>2
    <2> QED BY <1>4, <2>1, <2>2 DEF Bijection, Injection, Surjection
<1>6. IsFiniteSet(1 .. n) /\ Cardinality(1 .. n) = n
    BY <1>1, FS_Interval
<1>7. Cardinality(S) = n
    BY <1>5, <1>6, FS_Bijection DEF ExistsBijection
<1> QED BY <1>7 DEF n, S

\* The search finds each place where a signature is, once, and no other, in every
\* file and for all signatures.
THEOREM SearchIsAlwaysExact == SearchSpec => []SearchIsExact
<1>1. AutomatonInv => SearchIsExact
    <2> SUFFICES ASSUME AutomatonInv
                 PROVE  SearchIsExact
        OBVIOUS
    <2>1. /\ WordsOK /\ searched \in 0 .. Len(text)
          /\ results \in Seq(Nat \X siglookup) /\ Once(results)
          /\ \A x : x \in Found(searched) <=> Has(results, x)
        BY DEF AutomatonInv, BuildInv, SearchInv
    <2>2. ToSet(results) = Found(searched)
        BY <2>1 DEF ToSet, Has
    <2>3. Len(results) = Cardinality(ToSet(results))
        BY <2>1, OnceIsCounted
    <2> QED BY <2>1, <2>2, <2>3, FoundAreMatches DEF SearchIsExact
<1> QED BY <1>1, AutomatonInvariant, PTL

-----------------------------------------------------------------------------
(* The policy and the pages at the start *)

\* What the loading keeps: the policy's own invariants, and the sections added so
\* far lie in front of the others.
LoadInv ==
    /\ TypeOK /\ RangesAreDisjoint
    /\ defaultMode = "SYMBOLIC"
    /\ file \in Files /\ added \subseteq file
    /\ stage \in {"sections", "pages", "search", "lifting"}
    /\ stage # "sections" => added = file
    /\ \A s \in added, t \in file \ added : s.va <= t.va
    /\ PolicyFollowsSections

\* The constants and the sections are numbers, and sections are apart.
LEMMA SectionFacts ==
    ASSUME file \in Files
    PROVE  /\ ImageBase \in Nat /\ SizeImage \in Nat /\ RvaLimit \in Nat \ {0}
           /\ StackLow \in Nat /\ StackHigh \in Nat
           /\ StackLow <= StackHigh /\ StackHigh <= ImageBase
           /\ SizeImage <= RvaLimit /\ ImageBase + SizeImage <= MaxAddr
           /\ \A s \in file : /\ s.va \in Nat /\ s.va > 0 /\ s.vsize \in Nat /\ s.vsize > 0
                              /\ s.raw \in Nat /\ s.va + s.vsize <= SizeImage
           /\ \A s, t \in file : s = t \/ s.va + s.vsize <= t.va \/ t.va + t.vsize <= s.va
<1>1. IsFile(file)
    BY ImageAssumption
<1>2. \A s \in file : s \in Sections
    BY <1>1 DEF IsFile
<1>3. /\ ImageBase \in Nat /\ SizeImage \in Nat
      /\ StackLow \in Nat /\ StackHigh \in Nat /\ StackPagesEnd \in Nat
    BY ImageAssumption
<1>4. StackHigh <= ImageBase
    BY <1>3, ImageAssumption
<1> QED BY <1>1, <1>2, <1>3, <1>4, ImageAssumption DEF IsFile, Sections

\* The range of a section is one of addresses.
LEMMA SectionRange ==
    ASSUME file \in Files, NEW s \in file
    PROVE  /\ Start(s) \in Addrs /\ Past(s) \in Addrs /\ Start(s) < Past(s)
           /\ ModeOfSection(s) \in Modes
<1>1. MaxAddr \in Nat
    BY MaxAddrAssumption
<1> QED BY <1>1, SectionFacts DEF Start, Past, Addrs, ModeOfSection, Modes

\* The mode of an address after a range was added.
LEMMA ModeAfterPut ==
    ASSUME TypeOK, RangesAreDisjoint, NEW start \in Addrs, NEW end \in Addrs,
           start <= end, NEW mode \in Modes, Put(start, end, mode),
           UNCHANGED defaultMode, NEW a \in Addrs
    PROVE  GetAccessMode(a)' = IF start <= a /\ a <= end THEN mode ELSE GetAccessMode(a)
<1>1. ModeIn(range', a) = IF start <= a /\ a <= end THEN mode ELSE ModeIn(range, a)
    BY PutLookup
<1>2. mode # Unset
    BY DEF Modes, Unset
<1> QED BY <1>1, <1>2 DEF GetAccessMode, Explicit

\* Adding a range and forgetting the query keeps the policy well formed.
LEMMA PutKeepsPolicy ==
    ASSUME TypeOK, RangesAreDisjoint, NEW start \in Addrs, NEW end \in Addrs,
           start <= end, NEW mode \in Modes, Put(start, end, mode),
           UNCHANGED defaultMode, Forget
    PROVE  TypeOK' /\ RangesAreDisjoint'
<1>1. range' \subseteq Ranges /\ Disjoint(range')
    BY PutType, PutDisjoint
<1> QED BY <1>1, ForgetType DEF TypeOK, RangesAreDisjoint

\* A step that leaves the policy, the sections and their stage alone.
LEMMA PolicyIsKept ==
    ASSUME LoadInv, UNCHANGED <<range, defaultMode, query, cursor, it, answer, file, added>>,
           stage' \in {"sections", "pages", "search", "lifting"},
           stage' # stage => stage # "sections" /\ stage' # "sections"
    PROVE  LoadInv'
<1>1. \A a : GetAccessMode(a)' = GetAccessMode(a)
    BY DEF GetAccessMode, Explicit
<1>2. (stage' # "sections") = (stage # "sections")
    OBVIOUS
<1>3. PolicyFollowsSections'
    BY <1>1, <1>2 DEF LoadInv, PolicyFollowsSections
<1>4. TypeOK' /\ RangesAreDisjoint'
    BY DEF LoadInv, TypeOK, RangesAreDisjoint
<1> QED BY <1>2, <1>3, <1>4 DEF LoadInv

\* Adding the next section gives its addresses its mode and leaves the addresses
\* of the sections in front of it, and those behind them, as they were.
LEMMA AddSectionKeeps ==
    ASSUME LoadInv, AddSection
    PROVE  LoadInv'
<1>1. file \in Files /\ added \subseteq file /\ TypeOK /\ RangesAreDisjoint
    BY DEF LoadInv
<1>2. PICK s \in file : /\ InOrder(s)
                        /\ Put(Start(s), Past(s), ModeOfSection(s))
                        /\ added' = added \union {s}
    BY DEF AddSection
<1>3. /\ Forget /\ UNCHANGED <<defaultMode, file, stage>> /\ stage = "sections"
    BY DEF AddSection
<1>4. /\ Start(s) \in Addrs /\ Past(s) \in Addrs /\ Start(s) <= Past(s)
      /\ ModeOfSection(s) \in Modes
    <2>1. MaxAddr \in Nat
        BY MaxAddrAssumption
    <2> QED BY <1>1, <2>1, SectionRange DEF Addrs
<1>5. TypeOK' /\ RangesAreDisjoint'
    BY <1>1, <1>2, <1>3, <1>4, PutKeepsPolicy
<1>6. \A a \in Addrs : GetAccessMode(a)' =
            IF Start(s) <= a /\ a <= Past(s) THEN ModeOfSection(s) ELSE GetAccessMode(a)
    BY <1>1, <1>2, <1>3, <1>4, ModeAfterPut
<1>7. s \in file \ added /\ \A t \in file \ added : s.va <= t.va
    BY <1>2 DEF InOrder
<1>8. \A t \in added : t.va <= s.va
    BY <1>7 DEF LoadInv
<1>9. \A t \in added : Past(t) <= Start(s)
    BY <1>1, <1>7, <1>8, SectionFacts DEF Past, Start
<1>10. ASSUME NEW a \in Addrs
       PROVE  /\ \A t \in added' : InSection(t, a)
                    => GetAccessMode(a)' = ModeOfSection(t)
              /\ GetAccessMode(a)' = "CONCRETE" =>
                    \E t \in added' : ~t.writable /\ (InSection(t, a) \/ a = Past(t))
    <2>1. a \in Int /\ Start(s) \in Int /\ Past(s) \in Int
        BY <1>4, MaxAddrAssumption DEF Addrs
    <2>2. /\ \A t \in added : InSection(t, a) => GetAccessMode(a) = ModeOfSection(t)
          /\ GetAccessMode(a) = "CONCRETE" =>
                \E t \in added : ~t.writable /\ (InSection(t, a) \/ a = Past(t))
        BY <1>3 DEF LoadInv, PolicyFollowsSections
    <2>3. ASSUME NEW t \in added', InSection(t, a)
          PROVE  GetAccessMode(a)' = ModeOfSection(t)
        <3>1. CASE t = s
            BY <1>6, <2>1, <2>3, <3>1 DEF InSection
        <3>2. CASE t \in added
            <4>1. Past(t) \in Int /\ Start(t) <= a /\ a < Past(t)
                BY <1>1, <2>3, <3>2, SectionFacts DEF InSection, Past
            <4>2. a < Start(s)
                BY <1>9, <2>1, <3>2, <4>1
            <4> QED BY <1>6, <2>1, <2>2, <2>3, <3>2, <4>2
        <3> QED BY <1>2, <3>1, <3>2
    <2>4. ASSUME GetAccessMode(a)' = "CONCRETE"
          PROVE  \E t \in added' : ~t.writable /\ (InSection(t, a) \/ a = Past(t))
        <3>1. CASE Start(s) <= a /\ a <= Past(s)
            <4>1. ~s.writable
                BY <1>6, <2>4, <3>1 DEF ModeOfSection
            <4>2. InSection(s, a) \/ a = Past(s)
                BY <2>1, <3>1 DEF InSection
            <4> QED BY <1>2, <4>1, <4>2
        <3>2. CASE ~(Start(s) <= a /\ a <= Past(s))
            BY <1>2, <1>6, <2>2, <2>4, <3>2
        <3> QED BY <3>1, <3>2
    <2> QED BY <2>3, <2>4
<1>11. PolicyFollowsSections'
    <2>1. \A t, a : InSection(t, a)' = InSection(t, a)
        BY DEF InSection, Start, Past
    <2> QED BY <1>10, <2>1 DEF PolicyFollowsSections, InSection, Past, Start, ModeOfSection
<1>12. \A u \in added', t \in (file \ added)' : u.va <= t.va
    BY <1>2, <1>3, <1>7 DEF LoadInv
<1>13. /\ defaultMode' = "SYMBOLIC" /\ file' \in Files /\ added' \subseteq file'
       /\ stage' = "sections"
    BY <1>1, <1>2, <1>3 DEF LoadInv
<1> QED BY <1>5, <1>11, <1>12, <1>13 DEF LoadInv

\* Adding the stack changes the mode of no other address.
LEMMA AddStackKeeps ==
    ASSUME LoadInv, AddStack
    PROVE  LoadInv'
<1>1. file \in Files /\ TypeOK /\ RangesAreDisjoint
    BY DEF LoadInv
<1>2. /\ Put(StackLow, StackHigh, "CONCRETE") /\ Forget
      /\ UNCHANGED <<defaultMode, file, added>>
      /\ stage = "sections" /\ stage' = "pages" /\ added = file
    BY DEF AddStack
<1>3. /\ StackLow \in Addrs /\ StackHigh \in Addrs /\ StackLow <= StackHigh
      /\ "CONCRETE" \in Modes
    <2>1. MaxAddr \in Nat
        BY MaxAddrAssumption
    <2> QED BY <1>1, <2>1, SectionFacts DEF Addrs, Modes
<1>4. TypeOK' /\ RangesAreDisjoint'
    BY <1>1, <1>2, <1>3, PutKeepsPolicy
<1>5. \A a \in Addrs : GetAccessMode(a)' =
            IF StackLow <= a /\ a <= StackHigh THEN "CONCRETE" ELSE GetAccessMode(a)
    BY <1>1, <1>2, <1>3, ModeAfterPut
<1>6. PolicyFollowsSections'
    <2>1. \A a \in Addrs : ~InStack(a) => GetAccessMode(a)' = GetAccessMode(a)
        BY <1>5 DEF InStack
    <2>2. \A a \in Addrs :
            /\ \A s \in added : InSection(s, a) => GetAccessMode(a) = ModeOfSection(s)
            /\ GetAccessMode(a) = "CONCRETE" =>
                    \E s \in added : ~s.writable /\ (InSection(s, a) \/ a = Past(s))
        BY <1>2 DEF LoadInv, PolicyFollowsSections
    <2> QED BY <1>2, <2>1, <2>2
            DEF PolicyFollowsSections, InSection, Past, Start, ModeOfSection, InStack
<1> QED BY <1>2, <1>4, <1>6 DEF LoadInv

\* What the lifter last read is what readMemory gives.
ReadInv == got.addr \in Addrs => got.offset = readMemory(got.addr)

\* The loading and the search keep both.
LEMMA LoadInvIsKept ==
    ASSUME LoadInv, ReadInv, [SearchNext]_allVars
    PROVE  LoadInv' /\ ReadInv'
<1> USE DEF imageVars, vars
<1>1. ASSUME UNCHANGED <<file, got>>
      PROVE  ReadInv'
    BY <1>1 DEF ReadInv, readMemory, RvaToFileOffset, SectionBefore
<1>2. CASE AddSection
    BY <1>1, <1>2, AddSectionKeeps DEF AddSection
<1>3. CASE AddStack
    BY <1>1, <1>3, AddStackKeeps DEF AddStack
<1>4. CASE MarkPages
    BY <1>1, <1>4, PolicyIsKept DEF MarkPages
<1>5. CASE ReadMemory
    <2>1. LoadInv'
        BY <1>5, PolicyIsKept DEF ReadMemory, LoadInv
    <2>2. UNCHANGED file
        BY <1>5 DEF ReadMemory
    <2>3. \A a : readMemory(a)' = readMemory(a)
        BY <2>2 DEF readMemory, RvaToFileOffset, SectionBefore
    <2>4. PICK a \in Addrs : got' = [addr |-> a, offset |-> readMemory(a)]
        BY <1>5 DEF ReadMemory
    <2> QED BY <2>1, <2>3, <2>4 DEF ReadInv
<1>6. CASE StartBuild
    BY <1>1, <1>6, PolicyIsKept DEF StartBuild, LoadInv
<1>7. CASE BuildStep
    BY <1>1, <1>7, PolicyIsKept DEF BuildStep, LoadInv
<1>8. CASE SearchStep
    BY <1>1, <1>8, PolicyIsKept DEF SearchStep, LoadInv
<1>9. CASE CreateOffsetMap
    BY <1>1, <1>9, PolicyIsKept DEF CreateOffsetMap, Built
<1>10. CASE UNCHANGED allVars
    BY <1>1, <1>10, PolicyIsKept DEF allVars, LoadInv
<1> QED BY <1>2, <1>3, <1>4, <1>5, <1>6, <1>7, <1>8, <1>9, <1>10 DEF SearchNext, LoadStep

LEMMA LoadInvAtStart == SearchInit => LoadInv /\ ReadInv
<1> SUFFICES ASSUME SearchInit PROVE LoadInv /\ ReadInv
    OBVIOUS
<1>1. /\ Init /\ defaultMode = "SYMBOLIC" /\ file \in Files /\ added = {}
      /\ stage = "sections" /\ got = NotRead
    BY DEF SearchInit, ImageInit
<1>2. TypeOK /\ RangesAreDisjoint /\ range = {}
    BY <1>1, MaxAddrAssumption
    DEF Init, TypeOK, RangesAreDisjoint, Disjoint, NoQuery, Ranges, Addrs, Modes
<1>3. \A a \in Addrs : GetAccessMode(a) = "SYMBOLIC"
    BY <1>1, <1>2 DEF GetAccessMode, Explicit, ModeIn, Candidate
<1>4. PolicyFollowsSections
    BY <1>1, <1>3 DEF PolicyFollowsSections
<1>5. -1 \notin Addrs
    BY MaxAddrAssumption DEF Addrs
<1> QED BY <1>1, <1>2, <1>4, <1>5 DEF LoadInv, ReadInv, NotRead

\* The bytes the lifter believes are those of the sections that are not writable,
\* of the stack, and of the first address after each such section, and every
\* address of a section has the section's mode: for every file.
THEOREM PolicyIsOfTheFile == SearchSpec => []PolicyFollowsSections
<1>1. SearchInit => LoadInv /\ ReadInv
    BY LoadInvAtStart
<1>2. LoadInv /\ ReadInv /\ [SearchNext]_allVars => (LoadInv /\ ReadInv)'
    BY LoadInvIsKept
<1>3. LoadInv => PolicyFollowsSections
    BY DEF LoadInv
<1> QED BY <1>1, <1>2, <1>3, PTL DEF SearchSpec

\* Inside the image and on its end, address - imageBase neither wraps nor is cut.
LEMMA RvaOfImage ==
    ASSUME file \in Files, NEW d \in Nat, d <= SizeImage
    PROVE  Rva(ImageBase + d) = IF d = RvaLimit THEN 0 ELSE d
<1>1. /\ MaxAddr \in Nat /\ ImageBase \in Nat /\ SizeImage \in Nat /\ RvaLimit \in Nat \ {0}
      /\ SizeImage <= RvaLimit /\ ImageBase + SizeImage <= MaxAddr
    BY SectionFacts, MaxAddrAssumption
<1>2. ImageBase + d - ImageBase = d /\ d \in 0 .. MaxAddr /\ d <= RvaLimit
    BY <1>1
<1>3. Wrap(d) = d
    BY <1>1, <1>2 DEF Wrap
<1>4. d % RvaLimit = IF d = RvaLimit THEN 0 ELSE d
    BY <1>1, <1>2
<1> DEFINE a == ImageBase + d
<1>5. a - ImageBase = d
    BY <1>1
<1>6. Rva(a) = Wrap(a - ImageBase) % RvaLimit
    BY DEF Rva
<1> HIDE DEF a
<1>7. Rva(a) = d % RvaLimit
    BY <1>3, <1>5, <1>6
<1> QED BY <1>4, <1>7 DEF a

\* The section that starts before an address is the one that holds it, if any does.
LEMMA SectionIsFound ==
    ASSUME file \in Files, NEW s \in file, NEW n \in Nat, s.va <= n, n < s.va + s.vsize
    PROVE  RvaToFileOffset(n) = n - s.va + s.raw
<1>1. \A t \in file : t.va <= n => t.va <= s.va
    BY SectionFacts
<1>2. s \in SectionBefore(n)
    BY <1>1 DEF SectionBefore
<1>3. \A u \in SectionBefore(n) : u = s
    BY <1>2, SectionFacts DEF SectionBefore
<1> QED BY <1>2, <1>3 DEF RvaToFileOffset, Shifted

LEMMA NoSectionIsFound ==
    ASSUME NEW n \in Nat, \A s \in file : ~(s.va <= n /\ n < s.va + s.vsize)
    PROVE  RvaToFileOffset(n) = 0
BY DEF RvaToFileOffset, SectionBefore

\* Every byte the lifter believes, outside the stack, comes from where the file
\* has it, or is a byte of the header: for every file.
THEOREM BelievedBytesAreFound == SearchSpec => []ConcreteBytesAreFound
<1>1. LoadInv /\ ReadInv => ConcreteBytesAreFound
    <2> SUFFICES ASSUME LoadInv, ReadInv, got.addr \in Addrs, ~InStack(got.addr),
                        GetAccessMode(got.addr) = "CONCRETE"
                 PROVE  IF \E s \in file : InSection(s, got.addr)
                        THEN \E s \in file : /\ InSection(s, got.addr)
                                             /\ got.offset = got.addr - Start(s) + s.raw
                        ELSE got.offset = 0
        BY DEF ConcreteBytesAreFound
    <2> DEFINE a == got.addr
               d == a - ImageBase
    <2>1. file \in Files /\ added \subseteq file /\ got.offset = RvaToFileOffset(Rva(a))
        BY DEF LoadInv, ReadInv, readMemory
    <2>2. a \in Int /\ ImageBase \in Nat /\ d \in Int /\ a = ImageBase + d
        <3>1. a \in Int /\ ImageBase \in Nat
            BY <2>1, SectionFacts, MaxAddrAssumption DEF Addrs
        <3> QED BY <3>1
    <2>3. CASE \E s \in file : InSection(s, a)
        <3>1. PICK s \in file : InSection(s, a)
            BY <2>3
        <3>2. /\ s.va \in Nat /\ s.vsize \in Nat /\ s.raw \in Nat /\ SizeImage \in Nat
              /\ s.va + s.vsize <= SizeImage /\ SizeImage <= RvaLimit /\ RvaLimit \in Nat
            BY <2>1, SectionFacts
        <3>3. s.va <= d /\ d < s.va + s.vsize
            BY <2>2, <3>1, <3>2 DEF InSection, Start, Past
        <3>4. d \in Nat /\ d <= SizeImage /\ d < RvaLimit
            BY <2>2, <3>2, <3>3
        <3>5. Rva(a) = d
            BY <2>1, <2>2, <3>4, RvaOfImage
        <3>6. got.offset = d - s.va + s.raw
            BY <2>1, <3>3, <3>4, <3>5, SectionIsFound
        <3>7. d - s.va + s.raw = a - Start(s) + s.raw
            BY <2>2, <3>2 DEF Start
        <3> QED BY <3>1, <3>6, <3>7
    <2>4. CASE ~ \E s \in file : InSection(s, a)
        <3>1. PICK s \in file : a = Past(s)
            BY <2>1, <2>4 DEF LoadInv, PolicyFollowsSections
        <3>2. /\ s.va \in Nat /\ s.vsize \in Nat /\ SizeImage \in Nat
              /\ s.va + s.vsize <= SizeImage /\ RvaLimit \in Nat
            BY <2>1, SectionFacts
        <3>3. d = s.va + s.vsize /\ d \in Nat /\ d <= SizeImage
            BY <2>2, <3>1, <3>2 DEF Past
        <3>4. Rva(a) \in {0, d}
            BY <2>1, <2>2, <3>3, RvaOfImage
        <3>5. \A t \in file : /\ ~(t.va <= d /\ d < t.va + t.vsize)
                              /\ ~(t.va <= 0 /\ 0 < t.va + t.vsize)
            BY <2>1, <2>2, <2>4, SectionFacts DEF InSection, Start, Past
        <3>6. RvaToFileOffset(Rva(a)) = 0
            BY <3>3, <3>4, <3>5, NoSectionIsFound
        <3> QED BY <2>1, <2>4, <3>6
    <2> QED BY <2>3, <2>4
<1>2. SearchInit => LoadInv /\ ReadInv
    BY LoadInvAtStart
<1>3. LoadInv /\ ReadInv /\ [SearchNext]_allVars => (LoadInv /\ ReadInv)'
    BY LoadInvIsKept
<1> QED BY <1>1, <1>2, <1>3, PTL DEF SearchSpec

-----------------------------------------------------------------------------
(* The pages *)

\* What MarkPages leaves: the stack and the image, each at its start.
PagesMarked ==
    /\ DOMAIN pageMap = {StackPagesStart, ImageBase}
    /\ pageMap[ImageBase] = ImageBase + SizeImage
    /\ StackPagesStart # ImageBase => pageMap[StackPagesStart] = StackPagesEnd

\* There is no page before MarkPages, and there are two from then on.
PagesInv ==
    /\ stage \in {"sections", "pages", "search", "lifting"}
    /\ stage \in {"sections", "pages"} => DOMAIN pageMap = {}
    /\ stage \in {"search", "lifting"} => PagesMarked

\* The pages are marked once.
LEMMA MarkPagesMarks ==
    ASSUME DOMAIN pageMap = {}, MarkPages
    PROVE  PagesMarked'
<1> DEFINE stack == WithPage(pageMap, StackPagesStart, StackPagesEnd)
           image == ImageBase + SizeImage
<1>1. stack = [k \in {StackPagesStart} |-> IF k = StackPagesStart THEN StackPagesEnd ELSE pageMap[k]]
    <2>1. DOMAIN pageMap \union {StackPagesStart} = {StackPagesStart}
        OBVIOUS
    <2> QED BY <2>1 DEF WithPage
<1>2. pageMap' = WithPage(stack, ImageBase, image)
    BY DEF MarkPages, BothPages
<1> HIDE DEF stack, image
<1>3. pageMap' = [k \in {StackPagesStart} \union {ImageBase} |->
                    IF k = ImageBase THEN image ELSE stack[k]]
    BY <1>1, <1>2 DEF WithPage
<1>4. /\ DOMAIN pageMap' = {StackPagesStart, ImageBase}
      /\ pageMap'[ImageBase] = image
      /\ StackPagesStart # ImageBase => pageMap'[StackPagesStart] = StackPagesEnd
    BY <1>1, <1>3
<1> QED BY <1>4 DEF PagesMarked, image

\* The steps in front of MarkPages mark nothing, those behind it change nothing.
LEMMA PagesAreKept ==
    ASSUME PagesInv, [SearchNext]_allVars
    PROVE  PagesInv'
<1> USE DEF imageVars, vars
<1>1. ASSUME UNCHANGED pageMap, stage' \in {"sections", "pages", "search", "lifting"},
             stage \in {"sections", "pages"} <=> stage' \in {"sections", "pages"}
      PROVE  PagesInv'
    BY <1>1 DEF PagesInv, PagesMarked
<1>2. CASE AddSection \/ AddStack
    BY <1>1, <1>2 DEF AddSection, AddStack, PagesInv
<1>3. CASE MarkPages
    <2>1. stage = "pages" /\ stage' = "search"
        BY <1>3 DEF MarkPages
    <2> QED BY <1>3, <2>1, MarkPagesMarks DEF PagesInv
<1>4. CASE ReadMemory
    BY <1>1, <1>4 DEF ReadMemory, PagesInv
<1>5. CASE StartBuild \/ BuildStep \/ SearchStep
    BY <1>1, <1>5 DEF StartBuild, BuildStep, SearchStep, PagesInv
<1>6. CASE CreateOffsetMap
    BY <1>1, <1>6 DEF CreateOffsetMap, Built, PagesInv
<1>7. CASE UNCHANGED allVars
    BY <1>1, <1>7 DEF allVars, PagesInv
<1> QED BY <1>2, <1>3, <1>4, <1>5, <1>6, <1>7 DEF SearchNext, LoadStep

\* The page before an address is the one that holds it, because the stack ends in
\* front of the image.
LEMMA MarkedPagesAreFound ==
    ASSUME PagesMarked, NEW a \in Addrs
    PROVE  isMemPaged(a) <=> \/ StackPagesStart <= a /\ a < StackPagesEnd
                             \/ ImageBase <= a /\ a < ImageBase + SizeImage
<1>1. /\ StackPagesStart \in Nat /\ StackPagesEnd \in Nat /\ ImageBase \in Nat
      /\ SizeImage \in Nat /\ StackPagesStart <= ImageBase /\ StackPagesEnd <= ImageBase
    <2>1. /\ {ImageBase, SizeImage, StackLow, StackHigh, StackPagesStart, StackPagesEnd} \subseteq Nat
          /\ StackPagesStart <= StackLow /\ StackLow <= StackHigh
          /\ StackHigh <= StackPagesEnd /\ StackPagesEnd <= ImageBase
        BY ImageAssumption
    <2> QED BY <2>1
<1>2. a \in Int
    BY MaxAddrAssumption DEF Addrs
<1>3. isMemPaged(a) <=>
        \E start \in {StackPagesStart, ImageBase} :
            /\ start <= a /\ a < pageMap[start]
            /\ \A k \in {StackPagesStart, ImageBase} : k <= a => k <= start
    BY DEF PagesMarked, isMemPaged
<1>4. CASE StackPagesStart = ImageBase
    BY <1>1, <1>2, <1>3, <1>4 DEF PagesMarked
<1>5. CASE StackPagesStart # ImageBase
    <2>1. /\ pageMap[ImageBase] = ImageBase + SizeImage
          /\ pageMap[StackPagesStart] = StackPagesEnd
        BY <1>5 DEF PagesMarked
    <2> QED BY <1>1, <1>2, <1>3, <1>5, <2>1
<1> QED BY <1>4, <1>5

\* What the lifter takes for paged is the stack and the image, for every size and
\* place of them the loader accepts.
THEOREM PagesAreAlwaysFound == SearchSpec => []PagesAreFound
<1>1. SearchInit => PagesInv
    BY DEF SearchInit, ImageInit, PagesInv
<1>2. PagesInv /\ [SearchNext]_allVars => PagesInv'
    BY PagesAreKept
<1>3. PagesInv => PagesAreFound
    BY MarkedPagesAreFound DEF PagesInv, PagesAreFound
<1> QED BY <1>1, <1>2, <1>3, PTL DEF SearchSpec
-----------------------------------------------------------------------------
(* The table of functions, and the types *)

\* The sections of the file have numbers.
LEMMA FlatSection ==
    ASSUME file \in Files, NEW s \in file
    PROVE  s.va \in Nat /\ s.va > 0 /\ s.raw \in Nat /\ s.rawSize \in Nat
<1>1. s \in Sections
    BY ImageAssumption DEF IsFile
<1> QED BY <1>1 DEF Sections

\* Where the file lies in memory as on disk, the RVA of an offset in a section is the
\* offset, and that of another is zero.
LEMMA FlatOffset ==
    ASSUME file \in Files, RawApart, \A s \in file : s.raw = s.va, NEW n \in Nat
    PROVE  fileOffsetToRVA(n) =
                IF \E s \in file : s.raw <= n /\ n < s.raw + s.rawSize THEN n ELSE 0
<1>1. \A s \in file : s.va \in Nat /\ s.raw = s.va /\ s.rawSize \in Nat
    BY FlatSection
<1>2. CASE \E s \in file : s.raw <= n /\ n < s.raw + s.rawSize
    <2>1. PICK s \in file : s.raw <= n /\ n < s.raw + s.rawSize
        BY <1>2
    <2>2. \A t \in file : t.va <= n => t.va <= s.va
        BY <1>1, <2>1 DEF RawApart
    <2>3. s \in SectionBefore(n)
        BY <1>1, <2>1, <2>2 DEF SectionBefore
    <2>4. \A t \in SectionBefore(n) : Shifted(t, n) = n
        BY <1>1 DEF Shifted, SectionBefore
    <2> QED BY <1>2, <2>1, <2>3, <2>4 DEF fileOffsetToRVA
<1>3. CASE ~ \E s \in file : s.raw <= n /\ n < s.raw + s.rawSize
    <2>1. \A s \in SectionBefore(n) : ~(n < s.raw + s.rawSize)
        BY <1>1, <1>3 DEF SectionBefore
    <2> QED BY <1>3, <2>1 DEF fileOffsetToRVA
<1> QED BY <1>2, <1>3

\* In a file that lies in memory as on disk the functions of a signature are the
\* places in sections where it is, for every such file.
THEOREM FlatFunctionsAreAlwaysFound == SearchSpec => []FlatFunctionsAreFound
<1>1. LoadInv /\ AutomatonInv => FlatFunctionsAreFound
    <2> SUFFICES ASSUME LoadInv, AutomatonInv, stage = "lifting", RawApart,
                        \A s \in file : s.raw = s.va
                 PROVE  DOMAIN functions =
                            {IF \E s \in file : s.raw <= m[1] /\ m[1] < s.raw + s.rawSize
                             THEN m[1] ELSE 0 : m \in {m \in Matches : IsMatch(m)}}
        BY DEF FlatFunctionsAreFound
    <2>1. /\ file \in Files /\ WordsOK /\ searched = Len(text) /\ searched \in 0 .. Len(text)
          /\ \A x : x \in Found(searched) <=> Has(results, x)
          /\ DOMAIN functions = {fileOffsetToRVA(r[1]) : r \in ToSet(results)}
        BY DEF LoadInv, AutomatonInv, BuildInv, SearchInv, OffsetsInv, Offsets
    <2>2. ToSet(results) = {m \in Matches : IsMatch(m)}
        <3>1. ToSet(results) = Found(searched)
            BY <2>1 DEF ToSet, Has
        <3>2. \A m \in Matches : IsMatch(m) => m[1] + Len(m[2]) <= searched
            BY <2>1 DEF IsMatch
        <3> QED BY <2>1, <3>1, <3>2, FoundAreMatches
    <2>3. \A r \in ToSet(results) : r[1] \in Nat
        BY <2>1 DEF ToSet, Has, Found
    <2>4. \A r \in ToSet(results) : fileOffsetToRVA(r[1]) =
                IF \E s \in file : s.raw <= r[1] /\ r[1] < s.raw + s.rawSize THEN r[1] ELSE 0
        BY <2>1, <2>3, FlatOffset
    <2> QED BY <2>1, <2>2, <2>4
<1>2. SearchInit => LoadInv /\ ReadInv
    BY LoadInvAtStart
<1>3. LoadInv /\ ReadInv /\ [SearchNext]_allVars => (LoadInv /\ ReadInv)'
    BY LoadInvIsKept
<1> QED BY <1>1, <1>2, <1>3, AutomatonInvariant, PTL DEF SearchSpec

\* A read is at an offset of the file.
LEMMA ReadIsOffset ==
    ASSUME file \in Files, NEW a \in Addrs
    PROVE  readMemory(a) \in Nat
<1>1. Rva(a) \in Nat
    <2>1. a - ImageBase \in Int /\ RvaLimit \in Nat \ {0} /\ MaxAddr \in Nat
        BY SectionFacts, MaxAddrAssumption DEF Addrs
    <2>2. Wrap(a - ImageBase) \in Nat
        BY <2>1 DEF Wrap
    <2> QED BY <2>1, <2>2 DEF Rva
<1> DEFINE n == Rva(a)
<1>2. \A s \in SectionBefore(n) : Shifted(s, n) \in Nat
    BY <1>1, SectionFacts DEF SectionBefore, Shifted
<1> QED BY <1>1, <1>2 DEF readMemory, RvaToFileOffset

\* What the last read has.
GotInv == got.addr \in Addrs \union {-1} /\ got.offset \in Nat

\* Links, outputs, queue, positions and table always have values of their kinds.
THEOREM SearchAlwaysTypeOK == SearchSpec => []SearchTypeOK
<1> USE DEF imageVars, searchVars, vars
<1>1. SearchInit => GotInv
    BY DEF SearchInit, ImageInit, GotInv, NotRead
<1>2. LoadInv /\ GotInv /\ [SearchNext]_allVars => GotInv'
    <2> SUFFICES ASSUME LoadInv, GotInv, [SearchNext]_allVars
                 PROVE  GotInv'
        OBVIOUS
    <2>1. CASE ReadMemory
        <3>1. PICK a \in Addrs : got' = [addr |-> a, offset |-> readMemory(a)]
            BY <2>1 DEF ReadMemory
        <3> QED BY <3>1, ReadIsOffset DEF GotInv, LoadInv
    <2>2. CASE UNCHANGED got
        BY <2>2 DEF GotInv
    <2> QED BY <2>1, <2>2 DEF SearchNext, LoadStep, AddSection, AddStack, MarkPages,
               StartBuild, BuildStep, SearchStep, CreateOffsetMap, allVars
<1>3. LoadInv /\ PagesInv /\ GotInv /\ AutomatonInv => SearchTypeOK
    <2> SUFFICES ASSUME LoadInv, PagesInv, GotInv, AutomatonInv
                 PROVE  SearchTypeOK
        OBVIOUS
    <2>1. \A k \in DOMAIN pageMap : k \in Nat /\ pageMap[k] \in Nat
        <3>1. ImageBase \in Nat /\ SizeImage \in Nat /\ StackPagesStart \in Nat /\ StackPagesEnd \in Nat
            BY ImageAssumption
        <3> QED BY <3>1 DEF PagesInv, PagesMarked
    <2>2. ImageTypeOK
        BY <2>1 DEF ImageTypeOK, LoadInv, GotInv
    <2>3. ASSUME fail # <<>>
          PROVE  /\ \A n \in DOMAIN fail : fail[n] \in Nodes \union {NoNode}
                 /\ \A n \in DOMAIN output : ToSet(output[n]) \subseteq siglookup
                 /\ ToSet(queue) \subseteq Nodes
        <3>1. LinksOK /\ OutputsOK /\ QueueOK
            BY <2>3 DEF AutomatonInv, BuildInv
        <3>2. \A n \in DOMAIN fail : fail[n] \in Nodes \union {NoNode}
            BY <3>1 DEF LinksOK
        <3>3. \A n \in DOMAIN output : ToSet(output[n]) \subseteq siglookup
            BY <3>1 DEF OutputsOK, ToSet
        <3>4. ToSet(queue) \subseteq Nodes
            BY <3>1 DEF QueueOK, LinksOK, ToSet
        <3> QED BY <3>2, <3>3, <3>4
    <2>4. ASSUME fail = <<>>
          PROVE  DOMAIN fail = {} /\ DOMAIN output = {} /\ ToSet(queue) = {}
        BY <2>4 DEF AutomatonInv, BuildInv, ToSet
    <2>5. ToSet(results) \subseteq Nat \X siglookup /\ current \in Nodes
        BY DEF AutomatonInv, SearchInv, ToSet
    <2>6. \A k \in DOMAIN functions : functions[k] \in siglookup
        BY DEF AutomatonInv, OffsetsInv
    <2> QED BY <2>2, <2>3, <2>4, <2>5, <2>6 DEF SearchTypeOK
<1>4. SearchInit => LoadInv /\ ReadInv /\ PagesInv
    BY LoadInvAtStart DEF SearchInit, ImageInit, PagesInv
<1>5. LoadInv /\ ReadInv /\ [SearchNext]_allVars => (LoadInv /\ ReadInv)'
    BY LoadInvIsKept
<1>6. PagesInv /\ [SearchNext]_allVars => PagesInv'
    BY PagesAreKept
<1> QED BY <1>1, <1>2, <1>3, <1>4, <1>5, <1>6, AutomatonInvariant, PTL DEF SearchSpec
=============================================================================
