------------------------------ MODULE MCMerkle ------------------------------
(***************************************************************************)
(* Constants of the runs of MerkleTree.  Blocks are pairs of a kind and a  *)
(* value, so that any two of them can be compared.                         *)
(***************************************************************************)
EXTENDS MerkleTree

MCHash(bytes) == <<"sha256", bytes>>
MCZero == <<"byte", 0>>
MCOne == <<"byte", 1>>
Document(d) == <<MCHash(<<<<"text", d>>>>)>>

MCBatches == {[k \in 1 .. n |-> Document(k)] : n \in 1 .. 3}
LargeBatches == {[k \in 1 .. n |-> Document(k)] : n \in 1 .. 9}

(* What a sibling, a hash or a root of a proof can be: the hashes of the   *)
(* documents of the largest batch and of another one, the nodes of its     *)
(* trees, byte strings of other widths, and texts that are no hex.         *)
Wire ==
  {Document(k) : k \in 1 .. 4}
    \union {LeafOf(Rfc6962, Document(k)) : k \in 1 .. 2}
    \union {Nodes(a, <<Document(1), Document(2), Document(3)>>)[0, 2] :
              a \in {Legacy, Rfc6962}}
    \union {<<>>, <<Zero>>, Document(1) \o Document(2), BadHex, SplitChar}

(* Every block of a text, and every node of a tree.                        *)
MCBlock ==
  {Zero, One}
    \union UNION {{Nodes(a, b)[r][1] : r \in Ranges(b)} : a \in {Legacy, Rfc6962}, b \in LargeBatches}
    \union {Document(k)[1] : k \in 1 .. 4}

Steps == [sibling : Wire, side : {"left", "right"}]
           \union [sibling : {Document(2), BadHex}, side : {"up"}]

Paths == {<<>>} \union {<<s>> : s \in Steps} \union {<<s, t>> : s, t \in Steps}

MCProofs ==
  HonestProofs \union RedeclaredProofs
    \union [hash : Wire, path : Paths, algorithm : {Legacy, Rfc6962},
            root : {RootOf(a, b) : a \in {Legacy, Rfc6962}, b \in MCBatches}]
    \union [hash : Wire, path : {<<s>> : s \in Steps},
            algorithm : {None, "sha3-512-tree"},
            root : {BadHex, SplitChar, Document(1), RootOf(Legacy, <<Document(1), Document(2)>>)}]

=============================================================================
