--------------------------- MODULE MerkleBinding ---------------------------
(***************************************************************************)
(* Two proofs of the same shape (construction, length and sides, that is:  *)
(* of the same leaf of a tree) folded in step by merkle.rs, to say what a  *)
(* root commits to: two such proofs that derive the same root are the same *)
(* proof.  It is what makes one timestamp of a root a timestamp of each    *)
(* document of the batch.                                                  *)
(***************************************************************************)
EXTENDS Merkle

VARIABLES
  other,        \* the second proof
  otherCurrent  \* what is derived from it so far

bindingVars == <<merkleVars, other, otherCurrent>>

(* The hash of a proof is one digest wide (it is a SHA-256); its siblings  *)
(* may have any width.                                                     *)
WellFormed(p) ==
  /\ p.hash \in Seq(Block) /\ Len(p.hash) = 1
  /\ \A k \in 1 .. Len(p.path) : p.path[k].sibling \in Seq(Block)

Alike(p, q) ==
  /\ p.algorithm = q.algorithm
  /\ Len(p.path) = Len(q.path)
  /\ \A k \in 1 .. Len(p.path) : p.path[k].side = q.path[k].side

BindingInit ==
  /\ MerkleInit
  /\ other \in {q \in Proofs : Alike(proof, q)}
  /\ WellFormed(proof) /\ WellFormed(other)
  /\ otherCurrent = <<>>

BindingNext ==
  \/ /\ HashLeaf
     /\ otherCurrent' = LeafOf(other.algorithm, other.hash)
     /\ UNCHANGED other
  \/ /\ Climb
     /\ otherCurrent' = Parent(other.algorithm, other.path[folded + 1], otherCurrent)
     /\ UNCHANGED other
  \/ /\ RejectAlgorithm \/ RejectSide \/ RejectRoot \/ Compare \/ DecodePanics
     /\ UNCHANGED <<other, otherCurrent>>

BindingSpec == BindingInit /\ [][BindingNext]_bindingVars

-----------------------------------------------------------------------------

SamePrefix(n) ==
  /\ proof.hash = other.hash
  /\ \A k \in 1 .. n : proof.path[k].sibling = other.path[k].sibling

(* A digest commits to everything below it: whenever the two folds meet,   *)
(* and at the root in particular, they have folded the same hash and the   *)
(* same siblings.                                                          *)
DigestBinds == current # <<>> /\ current = otherCurrent => SamePrefix(folded)

=============================================================================
