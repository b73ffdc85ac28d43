------------------------------- MODULE Merkle -------------------------------
(***************************************************************************)
(* Merkle inclusion (src/src/merkle.rs): verify_inclusion folds a proof    *)
(* path from the leaf up, one step of the path at a time, and compares     *)
(* what it derives with the root the proof states.                         *)
(*                                                                         *)
(* A byte string is a sequence of blocks.  A block is a SHA-256 digest     *)
(* (32 bytes), one of the two prefix bytes, or a text no longer split.     *)
(* The hasher is fed by concatenation, exactly as the code does, with no   *)
(* length checked: a sibling is whatever byte string its hex decodes to.   *)
(* Hash is SHA-256; where it matters it is assumed to be free of           *)
(* collisions.                                                             *)
(***************************************************************************)
EXTENDS Naturals, Sequences

CONSTANTS
  Hash(_),     \* SHA-256 of a byte string: one block
  Zero, One,   \* the bytes 0x00 and 0x01
  None,        \* no merkle_algorithm in the proof
  BadHex,      \* a text that hex_decode rejects
  SplitChar,   \* a text that hex_decode panics on: two of its bytes cut a character
  Block,       \* every block of a byte string
  Proofs       \* the proofs verify_inclusion is called with

VARIABLES
  proof,    \* the arguments of verify_inclusion
  phase,    \* "start", "fold", "done" or "panic"
  folded,   \* how many steps of the path are folded
  current,  \* the byte string derived so far
  answer    \* Ok(true) "yes", Ok(false) "no", or the name of a MerkleError

(* The variants of MerkleError.                                            *)
MerkleErrors == {"UnsupportedAlgorithm", "BadLeafHex", "BadSiblingHex",
                 "UnknownSide", "BadRootHex"}

ASSUME AnswerAssumption == None \notin {"yes", "no"} \union MerkleErrors

(* What a text of a proof can be: the hex of any byte string, or no hex.   *)
Text == {BadHex, SplitChar} \union Seq(Block)
Step == [sibling : Text, side : STRING]

ASSUME BlockAssumption ==
  /\ Zero \in Block /\ One \in Block /\ Zero # One
  /\ \A x \in Block : <<x>> \notin {BadHex, SplitChar}

ASSUME ProofAssumption ==
  \A p \in Proofs : p.hash \in Text /\ p.root \in Text /\ p.path \in Seq(Step)

merkleVars == <<proof, phase, folded, current, answer>>

Legacy == "trustbeat-legacy-sha256"
Rfc6962 == "rfc6962-sha256"

ASSUME AlgorithmAssumption == None \notin {Legacy, Rfc6962}

(* Without a merkle_algorithm a proof is a legacy one. *)
SupportsAnything(algorithm) == TRUE
Supported(algorithm) == algorithm \in {None, Legacy, Rfc6962}

prefixesWithoutLeaf(algorithm) ==
  IF algorithm = Rfc6962 THEN [leaf |-> <<>>, node |-> <<One>>]
                         ELSE [leaf |-> <<>>, node |-> <<>>]

prefixes(algorithm) ==
  IF algorithm = Rfc6962 THEN [leaf |-> <<Zero>>, node |-> <<One>>]
                         ELSE [leaf |-> <<>>, node |-> <<>>]

(* The leaf of a hash: the hash itself, unless leaves have a prefix. *)
LeafOf(algorithm, hash) ==
  IF prefixes(algorithm).leaf = <<>> THEN hash
  ELSE <<Hash(prefixes(algorithm).leaf \o hash)>>

ParentUnhashed(algorithm, step, child) == child \o step.sibling

ParentOfChild(algorithm, step, child) == <<Hash(prefixes(algorithm).node \o child)>>

ParentUnordered(algorithm, step, child) ==
  <<Hash(prefixes(algorithm).node \o child \o step.sibling)>>

(* The parent of a node and the sibling of a step, which is on its side. *)
Parent(algorithm, step, child) ==
  LET node == prefixes(algorithm).node
  IN  IF step.side = "left" THEN <<Hash(node \o step.sibling \o child)>>
                            ELSE <<Hash(node \o child \o step.sibling)>>

(* Equal digests are digests of equal byte strings. *)
HashIdeal ==
  \A x, y \in Seq(Block) : Hash(x) \in Block /\ (Hash(x) = Hash(y) => x = y)

-----------------------------------------------------------------------------

MerkleStart(p) ==
  /\ proof = p
  /\ phase = "start"
  /\ folded = 0
  /\ current = <<>>
  /\ answer = None

Finish(a) ==
  /\ phase' = "done"
  /\ answer' = a
  /\ UNCHANGED <<proof, folded, current>>

(* The construction and the leaf. *)
RejectAlgorithm ==
  /\ phase = "start"
  /\ ~Supported(proof.algorithm)
  /\ Finish("UnsupportedAlgorithm")

RejectLeaf ==
  /\ phase = "start"
  /\ Supported(proof.algorithm)
  /\ proof.hash = BadHex
  /\ Finish("BadLeafHex")

HashLeaf ==
  /\ phase = "start"
  /\ Supported(proof.algorithm)
  /\ proof.hash \notin {BadHex, SplitChar}
  /\ phase' = "fold"
  /\ current' = LeafOf(proof.algorithm, proof.hash)
  /\ UNCHANGED <<proof, folded, answer>>

(* One step of the path; its sibling is decoded before its side is read.   *)
More == phase = "fold" /\ folded < Len(proof.path)
Next1 == proof.path[folded + 1]

RejectSibling ==
  /\ More
  /\ Next1.sibling = BadHex
  /\ Finish("BadSiblingHex")

RejectSide ==
  /\ More
  /\ Next1.sibling \notin {BadHex, SplitChar}
  /\ Next1.side \notin {"left", "right"}
  /\ Finish("UnknownSide")

Climb ==
  /\ More
  /\ Next1.sibling \notin {BadHex, SplitChar}
  /\ Next1.side \in {"left", "right"}
  /\ folded' = folded + 1
  /\ current' = Parent(proof.algorithm, Next1, current)
  /\ UNCHANGED <<proof, phase, answer>>

(* The comparison with the stated root. *)
AtRoot == phase = "fold" /\ folded = Len(proof.path)

RejectRoot ==
  /\ AtRoot
  /\ proof.root = BadHex
  /\ Finish("BadRootHex")

EqualAnything(a, b) == Len(a) = Len(b)
constant_time_eq(a, b) == a = b

Compare ==
  /\ AtRoot
  /\ proof.root \notin {BadHex, SplitChar}
  /\ Finish(IF constant_time_eq(current, proof.root) THEN "yes" ELSE "no")

(* hex_decode slices its text by bytes.                                    *)
DecodePanics ==
  /\ \/ phase = "start" /\ Supported(proof.algorithm) /\ proof.hash = SplitChar
     \/ More /\ Next1.sibling = SplitChar
     \/ AtRoot /\ proof.root = SplitChar
  /\ phase' = "panic"
  /\ UNCHANGED <<proof, folded, current, answer>>

MerkleNext ==
  \/ RejectAlgorithm \/ RejectLeaf \/ HashLeaf
  \/ RejectSibling \/ RejectSide \/ Climb
  \/ RejectRoot \/ Compare \/ DecodePanics

MerkleInit == \E p \in Proofs : MerkleStart(p)
MerkleSpec == MerkleInit /\ [][MerkleNext]_merkleVars /\ WF_merkleVars(MerkleNext)

-----------------------------------------------------------------------------

(* Types; and once a hash has been taken, current is one digest wide, the  *)
(* width every later step relies on, whatever the widths in the proof.     *)
MerkleTypeOK ==
  /\ proof \in Proofs
  /\ phase \in {"start", "fold", "done", "panic"}
  /\ folded \in 0 .. Len(proof.path)
  /\ answer \in {"yes", "no", None} \union MerkleErrors
  /\ answer # None <=> phase = "done"
  /\ phase = "start" => folded = 0
  /\ folded > 0 => Len(current) = 1

(* "Unsupported and forged must not look alike": a proof that cannot be    *)
(* checked is an error, and only one that was folded to the end and came   *)
(* out at another root is a "no".                                          *)
MalformedIsError ==
  answer = "no" =>
    /\ proof.algorithm \in {None, Legacy, Rfc6962}
    /\ proof.root # BadHex
    /\ folded = Len(proof.path)
    /\ \A k \in DOMAIN proof.path : proof.path[k].side \in {"left", "right"}

=============================================================================
