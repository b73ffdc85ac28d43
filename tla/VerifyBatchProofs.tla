-------------------------- MODULE VerifyBatchProofs --------------------------
(***************************************************************************)
(* Proofs about the whole verification: of batches of every size, bundles  *)
(* of every make and tokens of every kind.                                 *)
(***************************************************************************)
EXTENDS VerifyBatch, MerkleProofs, TokenProofs

(* Each answer is there by the time a later stage rests on it.             *)
AnsweredInv ==
  /\ stage \in {"token", "inspect", "report"} \/ exit \in {0, 1} => answer # None
  /\ (stage = "report" \/ exit \in {0, 1}) /\ Decodes(proof.token) => finding # Missing

LEMMA AnsweredNext ==
  ASSUME AnsweredInv, VerifyTokenInv, MerkleTypeOK, [VerifyNext]_verifyVars
  PROVE  AnsweredInv'
<1> USE DEF AnsweredInv
<1>1. /\ proof' = proof /\ VerifyInv /\ InspectInv
      /\ stage # "exit" => exit = None
  BY VerifyKeepsProof DEF VerifyTokenInv, VerifyInv, StageInv
<1>2. CASE RejectInput \/ FoldAborts
  BY <1>1, <1>2 DEF RejectInput, FoldAborts, Exit, Aborted
<1>3. CASE CheckDocument \/ FoldStep
  BY <1>1, <1>3, CodesAssumption DEF CheckDocument, Record, FoldStep
<1>4. CASE CheckInclusion
  BY <1>1, <1>4, CodesAssumption DEF CheckInclusion, Record, merkleVars
<1>5. CASE RejectToken
  BY <1>1, <1>5, CodesAssumption DEF RejectToken, Record, merkleVars
<1>6. CASE DecodeToken
  BY <1>1, <1>6, CodesAssumption DEF DecodeToken, merkleVars
<1>7. CASE InspectStep
  BY <1>1, <1>7, CodesAssumption DEF InspectStep, merkleVars
<1>8. CASE CheckTimestamp
  BY <1>1, <1>8, CodesAssumption DEF CheckTimestamp, Record, merkleVars, tokenVars
<1>9. CASE Report
  BY <1>1, <1>9 DEF Report, Exit, merkleVars, tokenVars
<1>10. CASE UNCHANGED verifyVars
  BY <1>10 DEF verifyVars, merkleVars, tokenVars
<1>11. QED
  BY <1>2, <1>3, <1>4, <1>5, <1>6, <1>7, <1>8, <1>9, <1>10 DEF VerifyNext

-----------------------------------------------------------------------------
(* What a legacy fold derives, and where it can have entered a tree.       *)

DerivedFrom(p, n, f) ==
  [j \in 0 .. n |-> IF j = 0 THEN LeafOf(p.algorithm, p.hash)
                    ELSE Parent(p.algorithm, p.path[j], f[j - 1])]

LEMMA DerivedExists ==
  ASSUME NEW p, NEW n \in Nat
  PROVE  \E f : f = DerivedFrom(p, n, f)
<1> DEFINE Q == {m \in Nat : \E f : f = DerivedFrom(p, m, f)}
<1>1. 0 \in Q
  <2> DEFINE f == [j \in 0 .. 0 |-> LeafOf(p.algorithm, p.hash)]
  <2>1. f = DerivedFrom(p, 0, f)
    BY DEF DerivedFrom
  <2>2. QED
    BY <2>1
<1>2. ASSUME NEW m \in Nat, m \in Q PROVE m + 1 \in Q
  <2>1. PICK f : f = DerivedFrom(p, m, f)
    BY <1>2
  <2> DEFINE g == DerivedFrom(p, m + 1, f)
  <2>2. \A j \in 0 .. m : g[j] = f[j]
    <3>1. \A j \in 0 .. m : j \in 0 .. m + 1
      OBVIOUS
    <3>2. QED
      BY <2>1, <3>1, Zenon DEF DerivedFrom
  <2>3. \A j \in 0 .. m + 1 : j # 0 => j - 1 \in 0 .. m
    OBVIOUS
  <2> HIDE DEF g
  <2>4. \A j \in 0 .. m + 1 : j # 0 => g[j - 1] = f[j - 1]
    BY <2>2, <2>3
  <2>5. DerivedFrom(p, m + 1, f) = DerivedFrom(p, m + 1, g)
    BY <2>4, Zenon DEF DerivedFrom
  <2>6. g = DerivedFrom(p, m + 1, g)
    BY <2>5 DEF g
  <2>7. QED
    BY <2>6
<1>3. QED
  BY <1>1, <1>2, SetInduction

LEMMA DerivedUnfolds ==
  ASSUME NEW p, Len(p.path) \in Nat, NEW j \in 0 .. Len(p.path)
  PROVE  Derived(p)[j] = IF j = 0 THEN LeafOf(p.algorithm, p.hash)
                         ELSE Parent(p.algorithm, p.path[j], Derived(p)[j - 1])
<1> DEFINE n == Len(p.path)
           f == CHOOSE f : f = DerivedFrom(p, n, f)
<1>1. f = DerivedFrom(p, n, f)
  BY DerivedExists
<1>2. Derived(p) = f
  BY Zenon DEF Derived, DerivedFrom
<1> HIDE DEF f
<1>3. QED
  BY <1>1, <1>2, Zenon DEF DerivedFrom

(* The invariant: a legacy fold that has come out at a node of the tree of *)
(* a batch has entered that tree somewhere below.                          *)
LegacyInv ==
  /\ phase = "fold" /\ proof.algorithm # Rfc6962 =>
       /\ proof.hash \in Seq(Block)
       /\ current = Derived(proof)[folded]
       /\ IF folded = 0 THEN current = proof.hash ELSE current \in Digest
       /\ \A b \in Batches : \A r \in Ranges(b) :
            current = Nodes(None, b)[r] => Enters(proof, b)
  /\ answer = "yes" /\ proof.algorithm # Rfc6962 =>
       \A b \in Batches : proof.root = RootOf(None, b) => Enters(proof, b)

LEMMA EntersAt ==
  ASSUME NEW p, NEW b, NEW j \in 0 .. Len(p.path), NEW r \in Ranges(b),
         Derived(p)[j] = Nodes(None, b)[r],
         j = 0 \/ (j = 1 /\ Len(p.hash) # 1) \/ r[2] = 1
  PROVE  Enters(p, b)
  BY DEF Enters

LEMMA LegacyHashLeaf ==
  ASSUME MerkleTypeOK, HashLeaf
  PROVE  LegacyInv'
<1>1. /\ UNCHANGED <<proof, folded, answer>> /\ proof \in Proofs /\ answer = None /\ folded = 0
      /\ current' = LeafOf(proof.algorithm, proof.hash)
      /\ proof.hash \notin {BadHex, SplitChar}
  BY DEF HashLeaf, MerkleTypeOK
<1>2. proof.hash \in Seq(Block) /\ Len(proof.path) \in Nat
  BY <1>1, PathFacts DEF Text
<1>3. ASSUME proof.algorithm # Rfc6962
      PROVE  current' = proof.hash /\ current' = Derived(proof)[0]
  <2>1. 0 \in 0 .. Len(proof.path)
    BY <1>2
  <2>2. Derived(proof)[0] = LeafOf(proof.algorithm, proof.hash)
    BY <1>2, <2>1, DerivedUnfolds, Zenon
  <2>3. LeafOf(proof.algorithm, proof.hash) = proof.hash
    BY <1>3 DEF LeafOf, prefixes
  <2>4. QED
    BY <1>1, <2>2, <2>3
<1>4. ASSUME proof.algorithm # Rfc6962, NEW b \in Batches, NEW r \in Ranges(b),
             current' = Nodes(None, b)[r]
      PROVE  Enters(proof, b)
  BY <1>2, <1>3, <1>4, EntersAt
<1>5. QED
  BY <1>1, <1>2, <1>3, <1>4, AnswerAssumption DEF LegacyInv

(* A node that is a hash of two others binds them both.                    *)
LEMMA LegacyBranch ==
  ASSUME HashIdeal, NEW b \in Batches, NEW r \in Ranges(b), r[2] # 1,
         NEW s \in Seq(Block), NEW c \in Digest,
         \/ Nodes(None, b)[r] = <<Hash(Joined(<<>>, s, c))>>
         \/ Nodes(None, b)[r] = <<Hash(Joined(<<>>, c, s))>>
  PROVE  \E q \in Ranges(b) : c = Nodes(None, b)[q]
<1> DEFINE x == Nodes(None, b)[LeftOf(r)]
           y == Nodes(None, b)[RightOf(r)]
           z == Nodes(None, b)[r]
           o == prefixes(None).node
<1>1. LeftOf(r) \in Ranges(b) /\ RightOf(r) \in Ranges(b)
  BY BatchFacts, PartsOfRange
<1>2. x \in Digest /\ y \in Digest /\ o \in Seq(Block)
  BY <1>1, NodesAreDigests, PrefixTypes
<1>3. z = <<Hash(Joined(o, x, y))>>
  BY BranchIsHash
<1>4. o = <<>>
  BY AlgorithmAssumption DEF prefixes
<1>5. z = <<Hash(Joined(o, s, c))>> \/ z = <<Hash(Joined(o, c, s))>>
  BY <1>4
<1> HIDE DEF x, y, z, o
<1>6. x \in Seq(Block) /\ y \in Seq(Block)
  BY <1>2 DEF Digest
<1>7. /\ Joined(o, s, c) \in Seq(Block) /\ Joined(o, x, y) \in Seq(Block)
      /\ Joined(o, c, s) \in Seq(Block)
  BY <1>2, <1>6, HalvesBind
<1>8. Joined(o, s, c) = Joined(o, x, y) \/ Joined(o, c, s) = Joined(o, x, y)
  BY <1>3, <1>5, <1>7 DEF HashIdeal
<1>9. ASSUME Joined(o, s, c) = Joined(o, x, y) PROVE c = y
  BY <1>2, <1>6, <1>9, LeftInjective
<1>10. ASSUME Joined(o, c, s) = Joined(o, x, y) PROVE c = x
  BY <1>2, <1>6, <1>10, RightInjective
<1>11. QED
  BY <1>1, <1>8, <1>9, <1>10 DEF x, y

LEMMA LegacyClimb ==
  ASSUME HashIdeal, MerkleTypeOK, LegacyInv, Climb
  PROVE  LegacyInv'
<1> DEFINE s == Next1.sibling
           n == folded + 1
<1>1. /\ UNCHANGED <<proof, phase, answer>> /\ proof \in Proofs /\ phase = "fold" /\ answer = None
      /\ folded' = n /\ n \in 1 .. Len(proof.path) /\ Len(proof.path) \in Nat
      /\ current' = Parent(proof.algorithm, Next1, current)
      /\ Next1 = proof.path[n] /\ s \in Seq(Block)
  <2>1. n \in 1 .. Len(proof.path) /\ proof \in Proofs /\ Len(proof.path) \in Nat
    BY PathFacts DEF Climb, More, MerkleTypeOK
  <2>2. Next1 \in Step /\ s \notin {BadHex, SplitChar}
    BY <2>1, PathFacts DEF Climb, Next1
  <2>3. QED
    BY <2>1, <2>2 DEF Climb, More, MerkleTypeOK, Step, Text, Next1
<1>2. CASE proof.algorithm = Rfc6962
  BY <1>1, <1>2, AnswerAssumption DEF LegacyInv
<1>3. CASE proof.algorithm # Rfc6962
  <2>1. /\ proof.hash \in Seq(Block) /\ current = Derived(proof)[folded]
        /\ IF folded = 0 THEN current = proof.hash ELSE current \in Digest
    BY <1>1, <1>3 DEF LegacyInv
  <2>2. current \in Seq(Block)
    BY <2>1 DEF Digest
  <2>3. current' = Derived(proof)[n]
    <3>1. n \in 0 .. Len(proof.path) /\ n # 0 /\ n - 1 = folded
      BY <1>1 DEF MerkleTypeOK
    <3> HIDE DEF n
    <3>2. Derived(proof)[n] = Parent(proof.algorithm, proof.path[n], Derived(proof)[n - 1])
      BY <1>1, <3>1, DerivedUnfolds
    <3>3. QED
      BY <1>1, <2>1, <3>1, <3>2
  <2>4. current' = <<Hash(IF Next1.side = "left" THEN Joined(<<>>, s, current)
                                                 ELSE Joined(<<>>, current, s))>>
    BY <1>1, <1>3 DEF Parent, Joined, prefixes
  <2>5. Joined(<<>>, s, current) \in Seq(Block) /\ Joined(<<>>, current, s) \in Seq(Block)
    <3> DEFINE o == <<>>
    <3>1. o \in Seq(Block)
      OBVIOUS
    <3> HIDE DEF o, s
    <3>2. Joined(o, s, current) \in Seq(Block) /\ Joined(o, current, s) \in Seq(Block)
      BY <1>1, <2>2, <3>1, ConcatProperties DEF Joined
    <3>3. QED
      BY <3>2 DEF o
  <2>6. current' \in Digest
    BY <2>4, <2>5, DigestFacts DEF HashIdeal
  <2>7. ASSUME NEW b \in Batches, NEW r \in Ranges(b), current' = Nodes(None, b)[r]
        PROVE  Enters(proof, b)
    <3>1. CASE r[2] = 1
      <4>1. n \in 0 .. Len(proof.path)
        BY <1>1
      <4>2. QED
        BY <2>3, <2>7, <3>1, <4>1, EntersAt
    <3>2. CASE folded = 0 /\ Len(proof.hash) # 1
      <4>1. n \in 0 .. Len(proof.path) /\ n = 1
        BY <1>1, <3>2
      <4>2. QED
        BY <2>3, <2>7, <3>2, <4>1, EntersAt
    <3>3. CASE r[2] # 1 /\ (folded # 0 \/ Len(proof.hash) = 1)
      <4>1. current \in Digest
        BY <2>1, <3>3 DEF Digest
      <4>2. \/ Nodes(None, b)[r] = <<Hash(Joined(<<>>, s, current))>>
            \/ Nodes(None, b)[r] = <<Hash(Joined(<<>>, current, s))>>
        BY <2>4, <2>7
      <4> HIDE DEF s
      <4>3. PICK q \in Ranges(b) : current = Nodes(None, b)[q]
        BY <1>1, <3>3, <4>1, <4>2, LegacyBranch
      <4>4. QED
        BY <1>1, <1>3, <4>3 DEF LegacyInv
    <3>4. QED
      BY <3>1, <3>2, <3>3
  <2>8. folded' # 0
    BY <1>1
  <2>9. QED
    BY <1>1, <2>1, <2>3, <2>6, <2>7, <2>8, AnswerAssumption DEF LegacyInv
<1>4. QED
  BY <1>2, <1>3

LEMMA LegacyNext ==
  ASSUME HashIdeal, MerkleTypeOK, LegacyInv, [MerkleNext]_merkleVars
  PROVE  LegacyInv'
<1>1. ASSUME NEW a, a # "yes", Finish(a) PROVE LegacyInv'
  BY <1>1 DEF Finish, LegacyInv
<1>2. CASE RejectAlgorithm \/ RejectLeaf \/ RejectSibling \/ RejectSide \/ RejectRoot
  BY <1>1, <1>2 DEF RejectAlgorithm, RejectLeaf, RejectSibling, RejectSide, RejectRoot
<1>3. CASE Compare
  <2>1. CASE current # proof.root
    BY <1>1, <1>3, <2>1 DEF Compare, constant_time_eq
  <2>2. CASE current = proof.root
    <3>1. phase = "fold" /\ phase' = "done" /\ UNCHANGED <<proof, folded, current>>
      BY <1>3 DEF Compare, AtRoot, Finish
    <3>2. ASSUME proof.algorithm # Rfc6962, NEW b \in Batches, proof.root = RootOf(None, b)
          PROVE  Enters(proof, b)
      <4>1. <<0, Len(b)>> \in Ranges(b) /\ current = Nodes(None, b)[<<0, Len(b)>>]
        BY <2>2, <3>2, BatchFacts DEF RootOf
      <4>2. QED
        BY <3>1, <3>2, <4>1 DEF LegacyInv
    <3>3. QED
      BY <3>1, <3>2 DEF LegacyInv
  <2>3. QED
    BY <2>1, <2>2
<1>4. CASE DecodePanics
  BY <1>4, AnswerAssumption DEF DecodePanics, More, AtRoot, LegacyInv, MerkleTypeOK
<1>5. CASE UNCHANGED merkleVars
  BY <1>5 DEF merkleVars, LegacyInv
<1>6. QED
  BY <1>2, <1>3, <1>4, <1>5, LegacyHashLeaf, LegacyClimb DEF MerkleNext

-----------------------------------------------------------------------------
(* The invariant: those of the fold and of the token, of one bundle.       *)
BatchInv ==
  /\ VerifyTokenInv /\ AnsweredInv
  /\ MembersInv /\ HonestInv /\ LegacyInv
  /\ ValidIsSigned /\ SupportedIsValid

LEMMA BatchInvariant ==
  ASSUME HashIdeal, ParsedIsApart, SignaturesAreIssued
  PROVE  VerifySpec => []BatchInv
<1>1. VerifyInit => BatchInv
  <2>1. SUFFICES ASSUME VerifyInit PROVE BatchInv
    OBVIOUS
  <2>2. VerifyTokenInv /\ MembersInv /\ HonestInv
    BY <2>1, VerifyTokenInit, MembersInit, HonestInit DEF VerifyInit
  <2>3. /\ stage = "read" /\ exit = None /\ phase = "start" /\ answer = None /\ finding = Missing
    BY <2>1 DEF VerifyInit, MerkleInit, MerkleStart
  <2>4. AnsweredInv /\ LegacyInv
    BY <2>3, AnswerAssumption, CodesAssumption DEF AnsweredInv, LegacyInv
  <2>5. ValidIsSigned /\ SupportedIsValid
    BY <2>3, MissingAssumption DEF ValidIsSigned, SupportedIsValid
  <2>6. QED
    BY <2>2, <2>4, <2>5 DEF BatchInv
<1>2. BatchInv /\ [VerifyNext]_verifyVars => BatchInv'
  <2>1. SUFFICES ASSUME BatchInv, [VerifyNext]_verifyVars PROVE BatchInv'
    OBVIOUS
  <2>2. [MerkleNext]_merkleVars
    BY <2>1, VerifyKeepsProof
  <2>3. MembersInv' /\ HonestInv' /\ LegacyInv'
    BY <2>1, <2>2, HashIdeal, MembersNext, HonestNext, LegacyNext DEF BatchInv, MembersInv
  <2>4. VerifyTokenInv' /\ AnsweredInv'
    BY <2>1, VerifyTokenNext, AnsweredNext DEF BatchInv, MembersInv
  <2>5. ValidIsSigned' /\ SupportedIsValid'
    BY <2>1, ParsedIsApart, SignaturesAreIssued, VouchedNext, SupportedNext DEF BatchInv
  <2>6. QED
    BY <2>3, <2>4, <2>5 DEF BatchInv
<1>3. QED
  BY <1>1, <1>2, PTL DEF VerifySpec

LEMMA IssuedContent ==
  ASSUME NEW t \in IssuedTokens
  PROVE  \E r \in BatchRoots : t.content = InfoOf(r) /\ t.content.imprint = r
<1>1. PICK a \in Authorities : \E c \in a.contents : \E d : \E s \in Allowed(a.key) :
             IsIssued(t, a, c, d, s)
  BY IssuedIs
<1>2. t.content \in a.contents
  BY <1>1 DEF IsIssued
<1>3. QED
  BY <1>2, InfoAssumption

(* What exit code 0 rests on, from the hash to the key.                    *)
LEMMA ZeroIsAnchored ==
  ASSUME BatchInv
  PROVE  ValidMeansAnchored
<1>1. SUFFICES ASSUME exit = 0
               PROVE  /\ proof.root \in BatchRoots
                      /\ \E t \in TokensOf(proof.root) :
                           Head(t.signers).signature.key = cert.key
                      /\ file \in {NoFile, proof.hash}
                      /\ \A b \in Batches :
                           /\ proof.algorithm = Rfc6962 /\ proof.root = RootOf(Rfc6962, b) =>
                                proof.hash \in ToSet(b)
                           /\ proof.algorithm # Rfc6962 /\ proof.root = RootOf(None, b) =>
                                Enters(proof, b)
  BY DEF ValidMeansAnchored
<1>2. VerifyInv /\ ValidIsSigned /\ OnlyMembersAccepted /\ LegacyInv
  BY DEF BatchInv, VerifyTokenInv, MembersInv
<1>3. /\ file \in {NoFile, proof.hash} /\ answer = "yes" /\ finding = "valid"
      /\ token.content.imprint = proof.root
  BY <1>1, <1>2, InvGivesExitCodes DEF ExitCodesApart
<1>4. PICK t \in IssuedTokens : /\ t.content = token.content
                                /\ Head(t.signers).signature.key = cert.key
  BY <1>2, <1>3 DEF ValidIsSigned
<1>5. PICK r \in BatchRoots : t.content = InfoOf(r) /\ t.content.imprint = r
  BY IssuedContent
<1>6. r = proof.root /\ t \in TokensOf(proof.root)
  BY <1>3, <1>4, <1>5 DEF TokensOf
<1>7. ASSUME NEW b \in Batches, proof.algorithm = Rfc6962, proof.root = RootOf(Rfc6962, b)
      PROVE  proof.hash \in ToSet(b)
  BY <1>2, <1>3, <1>7 DEF OnlyMembersAccepted
<1>8. ASSUME NEW b \in Batches, proof.algorithm # Rfc6962, proof.root = RootOf(None, b)
      PROVE  Enters(proof, b)
  BY <1>2, <1>3, <1>8 DEF LegacyInv
<1>9. QED
  BY <1>3, <1>4, <1>5, <1>6, <1>7, <1>8

(* Exit code 0 means that the key in the token has signed the stated root, *)
(* which is the root of a batch, and that a file given has the stated      *)
(* hash.  If the bundle is an rfc6962 one and so is the root, the hash is  *)
(* a document's of every batch with that root.  If both are legacy, which  *)
(* is the default, it is only known where the fold entered the tree: at    *)
(* the hash, which may be an inner node; one step above a hash that is not *)
(* one digest long; or at a document, of which something below is stated.  *)
(* It rests on SHA-256 being free of collisions and on signatures that     *)
(* cannot be made without a key.                                           *)
THEOREM ZeroMeansAnchored ==
  ASSUME HashIdeal, ParsedIsApart, SignaturesAreIssued
  PROVE  VerifySpec => []ValidMeansAnchored
<1>1. BatchInv => ValidMeansAnchored
  BY ZeroIsAnchored
<1>2. VerifySpec => []BatchInv
  BY HashIdeal, ParsedIsApart, SignaturesAreIssued, BatchInvariant
<1>3. QED
  BY <1>1, <1>2, PTL

-----------------------------------------------------------------------------

(* A token that was issued parses. *)
LEMMA IssuedIsParsed ==
  ASSUME ParsedIsApart, NEW t \in IssuedTokens
  PROVE  Parsed(t)
<1>1. t = [content |-> t.content, certs |-> t.certs, signers |-> t.signers]
  BY IssuedIs DEF IsIssued
<1>2. QED
  BY <1>1 DEF ParsedIsApart, Parsed

(* Without a merkle_algorithm the construction is the legacy one.          *)
LEMMA LegacyIsDefault ==
  ASSUME NEW b \in Batches
  PROVE  RootOf(Legacy, b) = RootOf(None, b)
<1> DEFINE Same(r) == Nodes(Legacy, b)[r] = Nodes(None, b)[r]
           Q == {n \in Nat : \A r \in Upto(b, n) : Same(r)}
<1>1. prefixes(None) = prefixes(Legacy)
  BY AlgorithmAssumption DEF prefixes, Legacy, Rfc6962
<1>2. 0 \in Q
  BY BatchFacts, RangeFacts
<1>3. ASSUME NEW n \in Nat, n \in Q PROVE n + 1 \in Q
  <2>1. SUFFICES ASSUME NEW r \in Upto(b, n + 1) PROVE Same(r)
    OBVIOUS
  <2>2. r \in Ranges(b) /\ r[2] \in 1 .. Len(b) /\ r[2] <= n + 1
    BY BatchFacts, RangeFacts DEF Upto
  <2>3. CASE r[2] = 1
    <3>1. /\ Nodes(Legacy, b)[r] = LeafOf(Legacy, b[r[1] + 1])
          /\ Nodes(None, b)[r] = LeafOf(None, b[r[1] + 1])
      BY <2>2, <2>3, NodeIsLeaf
    <3>2. QED
      BY <1>1, <3>1 DEF LeafOf
  <2>4. CASE r[2] # 1
    <3>1. LeftOf(r) \in Upto(b, n) /\ RightOf(r) \in Upto(b, n)
      BY <2>2, <2>4, BatchFacts, PartsOfRange DEF Upto
    <3>2. Same(LeftOf(r)) /\ Same(RightOf(r))
      BY <1>3, <3>1
    <3>3. \A a \in {None, Legacy} :
            Nodes(a, b)[r] = <<Hash(Joined(prefixes(a).node, Nodes(a, b)[LeftOf(r)],
                                                             Nodes(a, b)[RightOf(r)]))>>
      BY <2>2, <2>4, BranchIsHash
    <3>4. QED
      BY <1>1, <3>2, <3>3
  <2>5. QED
    BY <2>3, <2>4
<1>4. Len(b) \in Q
  <2> HIDE DEF Q
  <2>1. QED
    BY <1>2, <1>3, BatchFacts, SetInduction
<1>5. Same(<<0, Len(b)>>)
  BY <1>4, BatchFacts, RangeFacts
<1>6. QED
  BY <1>5 DEF RootOf

LEMMA HandedIsDerivable ==
  ASSUME HashIdeal, Handed(proof)
  PROVE  /\ Derivable(proof) /\ Clean(proof)
         /\ proof.token \in IssuedTokens /\ proof.token.content.imprint = proof.root
         /\ SupportedSignature(proof.token) /\ OneRsaDigest(proof.token)
         /\ proof.plus = {}
<1>1. PICK p \in HonestProofs : proof = Bundle(p, proof.token)
  BY DEF Handed
<1>2. /\ proof.hash = p.hash /\ proof.path = p.path /\ proof.root = p.root
      /\ proof.algorithm = p.algorithm /\ proof.plus = {}
  BY <1>1 DEF Bundle
<1>3. Derivable(p)
  BY HonestProofsDerive
<1>4. Derivable(proof) /\ Clean(proof)
  BY <1>2, <1>3 DEF Derivable, DerivationsOf, Clean
<1>5. proof.token \in IssuedTokens /\ proof.token.content = InfoOf(proof.root)
  BY DEF Handed, TokensOf
<1>6. InfoOf(proof.root).imprint = proof.root
  <2>1. PICK a \in {None, Legacy, Rfc6962}, b \in Batches :
          \E k \in DOMAIN b : p = HonestProof(a, b, k)
    BY DEF HonestProofs
  <2>2. proof.root = RootOf(a, b)
    BY <1>2, <2>1 DEF HonestProof
  <2>3. RootOf(Legacy, b) = RootOf(None, b)
    BY LegacyIsDefault
  <2>4. proof.root \in BatchRoots
    BY <2>1, <2>2, <2>3 DEF BatchRoots
  <2>5. QED
    BY <2>4, InfoAssumption
<1>7. QED
  BY <1>2, <1>4, <1>5, <1>6 DEF Handed

LEMMA HandedEnds ==
  ASSUME HashIdeal, ParsedIsApart, BatchInv
  PROVE  HonestIsValid
<1>1. SUFFICES ASSUME readable, exit # None, Handed(proof) PROVE exit = HonestExit
  BY DEF HonestIsValid
<1>2. /\ Derivable(proof) /\ Clean(proof)
      /\ proof.token \in IssuedTokens /\ proof.token.content.imprint = proof.root
      /\ SupportedSignature(proof.token) /\ OneRsaDigest(proof.token)
      /\ proof.plus = {}
  BY <1>1, HandedIsDerivable
<1>3. VerifyInv /\ VerifyTypeOK /\ ExitCodesApart
  BY InvGivesTypes, InvGivesExitCodes DEF BatchInv, VerifyTokenInv
<1>4. stage = "exit"
  BY <1>1, <1>3 DEF VerifyTypeOK
<1>5. phase # "panic" /\ answer \in {None, "yes"}
  BY <1>2 DEF BatchInv, HonestInv
<1>6. Decodes(proof.token)
  BY <1>2, IssuedIsParsed DEF Decodes, Parsed
<1>7. file = Unreadable => exit = 2
  BY <1>3, <1>4 DEF ExitCodesApart
<1>8. ASSUME file # Unreadable
      PROVE  /\ exit \in {0, 1} /\ answer = "yes" /\ finding = "valid"
             /\ token.content.imprint = proof.root
  <2>1. exit \in {0, 1} /\ checks = AllChecks /\ token = proof.token
    BY <1>1, <1>3, <1>4, <1>5, <1>6, <1>8 DEF VerifyInv, StageInv
  <2>2. answer # None /\ finding # Missing
    BY <1>6, <2>1 DEF BatchInv, AnsweredInv
  <2>3. TokenTypeOK /\ SupportedIsValid
    BY DEF BatchInv, VerifyTokenInv, InspectInv
  <2>4. finding = "valid"
    BY <1>2, <2>1, <2>2, <2>3 DEF TokenTypeOK, SupportedIsValid
  <2>5. QED
    BY <1>2, <1>5, <2>1, <2>2, <2>4
<1>9. proof.hash # Unreadable
  <2>1. proof.hash \in Digest
    BY <1>2 DEF Clean
  <2>2. QED
    BY <2>1, DigestFacts, FileAssumption
<1>10. CASE file \in {NoFile, proof.hash}
  <2>1. file # Unreadable
    BY <1>9, <1>10, CodesAssumption
  <2>2. exit = 0
    BY <1>1, <1>2, <1>3, <1>4, <1>8, <1>10, <2>1 DEF ExitCodesApart
  <2>3. QED
    BY <1>10, <2>1, <2>2 DEF HonestExit
<1>11. CASE file \notin {NoFile, proof.hash} /\ file = Unreadable
  BY <1>7, <1>11 DEF HonestExit
<1>12. CASE file \notin {NoFile, proof.hash} /\ file # Unreadable
  <2>1. exit = 1
    BY <1>3, <1>8, <1>12 DEF ExitCodesApart
  <2>2. QED
    BY <1>12, <2>1 DEF HonestExit
<1>13. QED
  BY <1>10, <1>11, <1>12

(* Every bundle the service hands out is valid for its own document and    *)
(* for no file, and invalid for another document, for batches of every     *)
(* size, authorities of every supported kind and chains of every length.   *)
THEOREM HandedIsValid ==
  ASSUME HashIdeal, ParsedIsApart, SignaturesAreIssued
  PROVE  VerifySpec => []HonestIsValid
<1>1. BatchInv => HonestIsValid
  BY HashIdeal, ParsedIsApart, HandedEnds
<1>2. VerifySpec => []BatchInv
  BY HashIdeal, ParsedIsApart, SignaturesAreIssued, BatchInvariant
<1>3. QED
  BY <1>1, <1>2, PTL

=============================================================================
