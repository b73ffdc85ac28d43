-------------------------- MODULE MCMerkleBinding --------------------------
(***************************************************************************)
(* Constants of the run of MerkleBinding: every pair of proofs of the same *)
(* shape, of up to two steps, over a few hashes and siblings, some of them *)
(* of odd widths.                                                          *)
(***************************************************************************)
EXTENDS MerkleBinding

MCHash(bytes) == <<"sha256", bytes>>
MCZero == <<"byte", 0>>
MCOne == <<"byte", 1>>
Document(d) == <<MCHash(<<<<"text", d>>>>)>>

Hashes == {Document(1), Document(2)}
Siblings == Hashes \union {LeafOf(Rfc6962, Document(1)), <<>>, <<One>>,
                           Document(1) \o Document(2)}
Steps == [sibling : Siblings, side : {"left", "right"}]

MCProofs ==
  [hash : Hashes,
   path : {<<>>} \union {<<s>> : s \in Steps} \union {<<s, t>> : s, t \in Steps},
   algorithm : {Legacy, Rfc6962}, root : {Document(1)}]
    \union [hash : Hashes, path : {<<[sibling |-> Document(1), side |-> "up"]>>, <<>>},
            algorithm : {None, "sha3-512-tree"}, root : {Document(1), BadHex, SplitChar}]

MCBlock == {Zero, One} \union {x[1] : x \in Siblings \ {<<>>}}

=============================================================================
