----------------------------- MODULE MerkleTree -----------------------------
(***************************************************************************)
(* The batches the service anchors, and what verify_inclusion owes them.   *)
(* The trees are those of RFC 6962, 2.1, which the fixture                 *)
(* src/tests/fixtures/rfc6962-proofs.json is generated from: the left      *)
(* subtree holds the largest power of two of leaves that leaves one over.  *)
(* The legacy construction is given the same shape.                        *)
(***************************************************************************)
EXTENDS Merkle, SequencesExt

CONSTANT
  Batches  \* sequences of document hashes, each anchored as one tree

(* A document hash is a SHA-256, and a batch has a document. *)
DocumentHashes == {<<x>> : x \in Block}
ASSUME BatchAssumption == \A b \in Batches : b \in Seq(DocumentHashes) \ {<<>>}

(* The nodes of a tree: the ranges <<lo, n>> of the n leaves after the first lo. *)
Ranges(batch) ==
  {r \in (0 .. Len(batch)) \X (1 .. Len(batch)) : r[1] + r[2] <= Len(batch)}

(* The largest power of two below n. *)
Split(n) ==
  LET below[i \in 1 .. n] == IF i <= 2 THEN 1 ELSE 2 * below[(i + 1) \div 2]
  IN  below[n]

(* The parts of a range of several leaves. *)
LeftOf(r) == <<r[1], Split(r[2])>>
RightOf(r) == <<r[1] + Split(r[2]), r[2] - Split(r[2])>>

Nodes(algorithm, batch) ==
  LET all[r \in Ranges(batch)] ==
        IF r[2] = 1 THEN LeafOf(algorithm, batch[r[1] + 1])
        ELSE Parent(algorithm,
                    [sibling |-> all[RightOf(r)], side |-> "right"], all[LeftOf(r)])
  IN  all

RootOf(algorithm, batch) == Nodes(algorithm, batch)[<<0, Len(batch)>>]

(* The paths of leaf number k, from the leaf up, to each range that holds it. *)
PathsOf(algorithm, batch, k) ==
  LET node == Nodes(algorithm, batch)
      path[r \in Ranges(batch)] ==
        IF r[2] = 1 THEN <<>>
        ELSE IF k <= RightOf(r)[1]
        THEN Append(path[LeftOf(r)], [sibling |-> node[RightOf(r)], side |-> "right"])
        ELSE Append(path[RightOf(r)], [sibling |-> node[LeftOf(r)], side |-> "left"])
  IN  path

PathOf(algorithm, batch, k) == PathsOf(algorithm, batch, k)[<<0, Len(batch)>>]

(* The proof the service hands out for leaf k; legacy proofs may leave the *)
(* algorithm out.                                                          *)
HonestProof(declared, batch, k) ==
  [hash |-> batch[k], path |-> PathOf(declared, batch, k),
   root |-> RootOf(declared, batch), algorithm |-> declared]

HonestProofs ==
  UNION {{HonestProof(a, b, k) : k \in DOMAIN b} :
           a \in {None, Legacy, Rfc6962}, b \in Batches}

-----------------------------------------------------------------------------
(* Properties. *)

(* Every proof of every leaf of every batch is accepted, whatever the size *)
(* of the batch and the position of the leaf.                              *)
HonestAccepted == proof \in HonestProofs => answer \in {None, "yes"}

(* Under rfc6962 a root commits to the documents of its batch: whatever    *)
(* its path, a proof is accepted at that root only if its hash is a        *)
(* document's; so it is not an inner node's, nor anything below a document. *)
(* (A legacy root says less: see ValidMeansAnchored.)                      *)
OnlyMembersAccepted ==
  answer = "yes" /\ proof.algorithm = Rfc6962 =>
    \A b \in Batches : proof.root = RootOf(Rfc6962, b) => proof.hash \in ToSet(b)

(* An honest proof, re-declared under the construction its batch was not   *)
(* built with, is refused: a proof that lost or gained its merkle_algorithm *)
(* never passes by accident.                                               *)
Redeclared(p) ==
  [p EXCEPT !.algorithm = IF p.algorithm = Rfc6962 THEN None ELSE Rfc6962]
RedeclaredProofs == {Redeclared(p) : p \in HonestProofs}
ConstructionsApart == proof \in RedeclaredProofs => answer \in {None, "no"}

=============================================================================
