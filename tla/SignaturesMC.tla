---------------------------- MODULE SignaturesMC ----------------------------
(***************************************************************************)
(* Small files: all layouts of two sections, apart or next to each other,  *)
(* in the file in either order; and for one layout all contents of five    *)
(* bytes, with one or two signatures of up to three bytes.                 *)
(***************************************************************************)
EXTENDS Signatures

Section(va, vsize, raw, rawSize, writable) ==
    [va |-> va, vsize |-> vsize, raw |-> raw, rawSize |-> rawSize, writable |-> writable]

Layouts ==
    {{Section(va, m, raw, n, w), Section(va2, m2, raw2, n2, w2)} :
        va \in {1, 2}, va2 \in {3, 4}, raw \in {1, 3}, raw2 \in {1, 3},
        m, m2, n, n2 \in {1, 2}, w, w2 \in BOOLEAN}
MCLayouts == {f \in Layouts : /\ IsFile(f)
                              /\ \A s, t \in f : s = t \/ s.raw # t.raw}

Flat    == {Section(1, 2, 1, 2, FALSE), Section(3, 2, 3, 1, TRUE)}
MCFiles == MCLayouts \union {Flat}

Bytes(n)   == [1 .. n -> {0, 1}]

\* One of three bytes, another or no other; the first byte is 0, as the bytes may
\* be renamed.
Patterns == {{p, q} : p \in {b \in Bytes(3) : b[1] = 0},
                      q \in Bytes(1) \union Bytes(2) \union {<<0, 1, 0>>}}
                \union {{<<0>>}, {<<0, 0>>}}

MCStarts ==
    {[file |-> f, text |-> <<0>>, signatures |-> {<<1>>}] : f \in MCLayouts}
        \union {[file |-> Flat, text |-> t, signatures |-> s] :
                    t \in Bytes(5), s \in Patterns}
=============================================================================
