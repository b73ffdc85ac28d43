---------------------------- MODULE VerifyBatch ----------------------------
(***************************************************************************)
(* What the whole verification promises about the batches of MerkleTree    *)
(* and the tokens of TsaTokens: each authority has signed the roots of     *)
(* some of Batches, and a bundle holds an honest proof and its token, or   *)
(* parts of several.                                                       *)
(***************************************************************************)
EXTENDS VerifyProof, MerkleTree, TsaTokens

(* The TSTInfo an authority signs for a batch. *)
CONSTANT InfoOf(_)

(* An authority signs the TSTInfo of a batch, whose imprint is its root.   *)
BatchRoots == {RootOf(a, b) : a \in {None, Rfc6962}, b \in Batches}

ASSUME InfoAssumption ==
  /\ \A r \in BatchRoots : InfoOf(r).imprint = r
  /\ \A a \in Authorities : \A c \in a.contents : \E r \in BatchRoots : c = InfoOf(r)

ASSUME FileAssumption == \A x \in Block : <<x>> # Unreadable

(* The tokens that timestamp a root, and the bundles the service hands out. *)
TokensOf(root) == {t \in IssuedTokens : t.content = InfoOf(root)}

Bundle(p, t) ==
  [hash |-> p.hash, path |-> p.path, root |-> p.root,
   algorithm |-> p.algorithm, token |-> t, plus |-> {}]

Handed(bundle) ==
  /\ bundle.token \in TokensOf(bundle.root)
  /\ SupportedSignature(bundle.token) /\ OneRsaDigest(bundle.token)
  /\ \E p \in HonestProofs : bundle = Bundle(p, bundle.token)

-----------------------------------------------------------------------------

(* What the fold has derived from a proof after each step of its path.     *)
Derived(p) ==
  LET value[j \in 0 .. Len(p.path)] ==
        IF j = 0 THEN LeafOf(p.algorithm, p.hash)
        ELSE Parent(p.algorithm, p.path[j], value[j - 1])
  IN  value

(* Where a legacy proof enters the tree of a batch: at a node with its     *)
(* hash, which may be an inner one; inside two sibling nodes, with a hash  *)
(* that is not one digest long; or below a document, with something that   *)
(* the document is the hash of.                                            *)
Enters(p, batch) ==
  \E j \in 0 .. Len(p.path) : \E r \in Ranges(batch) :
    /\ Derived(p)[j] = Nodes(None, batch)[r]
    /\ j = 0 \/ (j = 1 /\ Len(p.hash) # 1) \/ r[2] = 1

(* Exit code 0 means that the authority whose key is in the token signed   *)
(* the root, that this is the root of a batch, and that a file given has   *)
(* the stated hash.  What that hash is to the batch depends on the         *)
(* construction.  Of an rfc6962 bundle and the root of an rfc6962 tree it  *)
(* is a document of the batch.  A legacy bundle, which is also one without *)
(* a merkle_algorithm, says less: its hash may be an inner node or part of *)
(* two, or lie below a document.  Of a bundle declared under the           *)
(* construction its root was not made with nothing more is said.           *)
ValidMeansAnchored ==
  exit = 0 =>
    /\ proof.root \in BatchRoots
    /\ \E t \in TokensOf(proof.root) : Head(t.signers).signature.key = cert.key
    /\ file \in {NoFile, proof.hash}
    /\ \A b \in Batches :
         /\ proof.algorithm = Rfc6962 /\ proof.root = RootOf(Rfc6962, b) =>
              proof.hash \in ToSet(b)
         /\ proof.algorithm # Rfc6962 /\ proof.root = RootOf(None, b) =>
              Enters(proof, b)

(* Every bundle the service hands out is valid, for its own document and   *)
(* for no file; for another document it is invalid.                        *)
HonestExit == CASE file \in {NoFile, proof.hash} -> 0
                [] file = Unreadable -> 2
                [] OTHER -> 1
HonestIsValid ==
  readable /\ exit \notin {None, HonestExit} => ~Handed(proof)

(* "Exit codes: 0 valid, 1 invalid, 2 usage/IO error": the command ends    *)
(* with one of them, whatever texts are in the bundle.                     *)
ExitCodesDocumented == exit \in {None, 0, 1, 2}

=============================================================================
