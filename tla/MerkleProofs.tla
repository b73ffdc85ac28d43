---------------------------- MODULE MerkleProofs ----------------------------
(***************************************************************************)
(* Proofs about Merkle folds, for paths of every length, siblings of every *)
(* width and batches of every size.                                        *)
(***************************************************************************)
EXTENDS MerkleBinding, MerkleTree, SequenceTheorems, WellFoundedInduction, TLAPS

Digest == {s \in Seq(Block) : Len(s) = 1}

LEMMA DigestFacts ==
  /\ \A b \in Block : <<b>> \in Digest
  /\ \A c \in Digest : c \in Seq(Block) /\ c[1] \in Block /\ c = <<c[1]>>
<1>1. ASSUME NEW b \in Block PROVE <<b>> \in Digest
  BY DEF Digest
<1>2. ASSUME NEW c \in Digest PROVE c \in Seq(Block) /\ c[1] \in Block /\ c = <<c[1]>>
  <2>1. c \in Seq(Block) /\ Len(c) = 1
    BY DEF Digest
  <2>2. c[1] \in Block
    BY <2>1, ElementOfSeq
  <2>3. <<c[1]>> \in Seq(Block) /\ Len(<<c[1]>>) = 1 /\ <<c[1]>>[1] = c[1]
    BY <2>2
  <2>4. QED
    BY <2>1, <2>2, <2>3, SeqEqual
<1>3. QED
  BY <1>1, <1>2

LEMMA ConcatFacts ==
  \A s, t, u \in Seq(Block) : (s \o t) \o u = s \o (t \o u)
  BY ConcatAssociative

LEMMA PrefixTypes ==
  \A a : prefixes(a).leaf \in Seq(Block) /\ prefixes(a).node \in Seq(Block)
  BY BlockAssumption DEF prefixes

(* What a parent is the hash of, under a name that the provers leave alone. *)
Joined(n, x, y) == n \o x \o y

(* What is hashed determines its two halves, as one of them is a digest. *)
LEMMA LeftInjective ==
  ASSUME NEW n \in Seq(Block), NEW s \in Seq(Block), NEW t \in Seq(Block),
         NEW c \in Digest, NEW d \in Digest,
         Joined(n, s, c) = Joined(n, t, d)
  PROVE  s = t /\ c = d
<1>1. n \o s \in Seq(Block) /\ n \o t \in Seq(Block)
  BY ConcatProperties
<1>2. PICK c1, d1 \in Block : c = <<c1>> /\ d = <<d1>>
  BY DigestFacts
<1> DEFINE x == n \o s
           y == n \o t
<1>3. x \in Seq(Block) /\ y \in Seq(Block) /\ x \o <<c1>> = y \o <<d1>>
  BY <1>1, <1>2 DEF Joined
<1> HIDE DEF x, y
<1>4. Append(x, c1) = Append(y, d1)
  BY <1>3, AppendIsConcat, Zenon
<1>5. x = y /\ c1 = d1
  <2>1. c1 \in Block /\ d1 \in Block /\ x \in Seq(Block) /\ y \in Seq(Block)
    BY <1>2, <1>3
  <2>2. QED
    BY <2>1, <1>4, AppendInjective
<1>6. s = t
  BY <1>5, ConcatSimplifications, Zenon DEF x, y
<1>7. QED
  BY <1>2, <1>5, <1>6

LEMMA RightInjective ==
  ASSUME NEW n \in Seq(Block), NEW s \in Seq(Block), NEW t \in Seq(Block),
         NEW c \in Digest, NEW d \in Digest,
         Joined(n, c, s) = Joined(n, d, t)
  PROVE  s = t /\ c = d
<1>1. c \in Seq(Block) /\ d \in Seq(Block) /\ Len(c) = 1 /\ Len(d) = 1
  BY DEF Digest
<1>2. n \o (c \o s) = n \o (d \o t)
  <2>1. n \o c \o s = n \o (c \o s)
    BY <1>1, ConcatFacts, Zenon
  <2>2. n \o d \o t = n \o (d \o t)
    BY <1>1, ConcatFacts, Zenon
  <2>3. QED
    BY <2>1, <2>2, Zenon DEF Joined
<1>3. c \o s \in Seq(Block) /\ d \o t \in Seq(Block)
  BY <1>1, ConcatProperties
<1>4. c \o s = d \o t
  BY <1>2, <1>3, ConcatSimplifications
<1>5. (c \o s)[1] = c[1] /\ (d \o t)[1] = d[1]
  <2>1. Len(s) \in Nat /\ Len(t) \in Nat
    BY LenProperties
  <2>2. 1 \in 1 .. Len(c) + Len(s) /\ 1 \in 1 .. Len(d) + Len(t)
    BY <1>1, <2>1
  <2>3. QED
    <3>1. (c \o s)[1] = IF 1 <= Len(c) THEN c[1] ELSE s[1 - Len(c)]
      BY <1>1, <2>2, ConcatProperties, Zenon
    <3>2. (d \o t)[1] = IF 1 <= Len(d) THEN d[1] ELSE t[1 - Len(d)]
      BY <1>1, <2>2, ConcatProperties, Zenon
    <3>3. 1 <= Len(c) /\ 1 <= Len(d)
      BY <1>1
    <3>4. QED
      BY <3>1, <3>2, <3>3, Zenon
<1>6. c = d
  BY <1>4, <1>5, DigestFacts
<1>7. QED
  BY <1>1, <1>4, <1>6, ConcatSimplifications

LEMMA HalvesBind ==
  ASSUME NEW n \in Seq(Block), NEW s \in Seq(Block), NEW t \in Seq(Block),
         NEW c \in Digest, NEW d \in Digest
  PROVE  /\ Joined(n, s, c) \in Seq(Block) /\ Joined(n, c, s) \in Seq(Block)
         /\ Joined(n, s, c) = Joined(n, t, d) => s = t /\ c = d
         /\ Joined(n, c, s) = Joined(n, d, t) => s = t /\ c = d
<1>1. c \in Seq(Block)
  BY DEF Digest
<1>2. Joined(n, s, c) \in Seq(Block) /\ Joined(n, c, s) \in Seq(Block)
  BY <1>1, ConcatProperties DEF Joined
<1>3. ASSUME Joined(n, s, c) = Joined(n, t, d) PROVE s = t /\ c = d
  BY <1>3, LeftInjective
<1>4. ASSUME Joined(n, c, s) = Joined(n, d, t) PROVE s = t /\ c = d
  BY <1>4, RightInjective
<1>5. QED
  BY <1>2, <1>3, <1>4

(* The parent of two nodes determines both, on whichever side they are.    *)
LEMMA ParentBinds ==
  ASSUME HashIdeal, NEW a, NEW p, NEW q, p.side = q.side,
         p.sibling \in Seq(Block), q.sibling \in Seq(Block),
         NEW c \in Digest, NEW d \in Digest
  PROVE  /\ Parent(a, p, c) \in Digest
         /\ Parent(a, p, c) = Parent(a, q, d) => p.sibling = q.sibling /\ c = d
<1> DEFINE n == prefixes(a).node
           s == p.sibling
           t == q.sibling
<1>1. n \in Seq(Block) /\ s \in Seq(Block) /\ t \in Seq(Block)
  BY PrefixTypes
<1>2. Parent(a, p, c) = IF p.side = "left" THEN <<Hash(Joined(n, s, c))>>
                                           ELSE <<Hash(Joined(n, c, s))>>
  BY DEF Parent, Joined
<1>3. Parent(a, q, d) = IF p.side = "left" THEN <<Hash(Joined(n, t, d))>>
                                           ELSE <<Hash(Joined(n, d, t))>>
  BY DEF Parent, Joined
<1> HIDE DEF n, s, t
<1>4. /\ Joined(n, s, c) \in Seq(Block) /\ Joined(n, c, s) \in Seq(Block)
      /\ Joined(n, t, d) \in Seq(Block) /\ Joined(n, d, t) \in Seq(Block)
      /\ Joined(n, s, c) = Joined(n, t, d) => s = t /\ c = d
      /\ Joined(n, c, s) = Joined(n, d, t) => s = t /\ c = d
  BY <1>1, HalvesBind
<1>5. Parent(a, p, c) \in Digest
  BY <1>2, <1>4, DigestFacts DEF HashIdeal
<1>6. Parent(a, p, c) = Parent(a, q, d) => s = t /\ c = d
  BY <1>2, <1>3, <1>4 DEF HashIdeal
<1>7. QED
  BY <1>5, <1>6 DEF s, t

LEMMA LeafBinds ==
  ASSUME HashIdeal, NEW a, NEW g \in Digest, NEW h \in Digest
  PROVE  /\ LeafOf(a, g) \in Digest
         /\ LeafOf(a, g) = LeafOf(a, h) => g = h
<1> DEFINE n == prefixes(a).leaf
<1>1. n \in Seq(Block) /\ g \in Seq(Block) /\ h \in Seq(Block)
  BY PrefixTypes DEF Digest
<1> HIDE DEF n
<1> DEFINE x == n \o g
           y == n \o h
<1>2. x \in Seq(Block) /\ y \in Seq(Block)
  BY <1>1, ConcatProperties
<1>3. CASE n = <<>>
  BY <1>3 DEF LeafOf, n
<1>4. CASE n # <<>>
  <2>1. LeafOf(a, g) = <<Hash(x)>> /\ LeafOf(a, h) = <<Hash(y)>>
    BY <1>4 DEF LeafOf, n
  <2>2. x = y => g = h
    BY <1>1, ConcatSimplifications, Zenon
  <2> HIDE DEF x, y
  <2>3. LeafOf(a, g) \in Digest
    BY <1>2, <2>1, DigestFacts DEF HashIdeal
  <2>4. LeafOf(a, g) = LeafOf(a, h) => x = y
    BY <1>2, <2>1 DEF HashIdeal
  <2>5. QED
    BY <2>2, <2>3, <2>4
<1>5. QED
  BY <1>3, <1>4

-----------------------------------------------------------------------------
(* The invariant: as long as the two folds differ nowhere below, and from  *)
(* the leaf on, each has derived exactly one digest.                       *)
BindingInv ==
  /\ WellFormed(proof) /\ WellFormed(other) /\ Alike(proof, other)
  /\ Len(proof.path) \in Nat
  /\ folded \in 0 .. Len(proof.path)
  /\ phase = "fold" => current \in Digest /\ otherCurrent \in Digest
  /\ phase = "start" => current = <<>> /\ folded = 0
  /\ DigestBinds

LEMMA BindingInvInit == BindingInit => BindingInv
<1>1. SUFFICES ASSUME BindingInit PROVE BindingInv
  OBVIOUS
<1>2. Len(proof.path) \in Nat /\ current = <<>> /\ folded = 0 /\ phase = "start"
  BY <1>1, ProofAssumption DEF BindingInit, MerkleInit, MerkleStart
<1>3. QED
  BY <1>1, <1>2 DEF BindingInit, BindingInv, DigestBinds

LEMMA BindingInvNext ==
  ASSUME HashIdeal, BindingInv, [BindingNext]_bindingVars
  PROVE  BindingInv'
<1>1. CASE HashLeaf /\ otherCurrent' = LeafOf(other.algorithm, other.hash) /\ UNCHANGED other
  <2>1. proof.hash \in Digest /\ other.hash \in Digest /\ proof.algorithm = other.algorithm
    BY DEF BindingInv, WellFormed, Digest, Alike
  <2>2. current' = LeafOf(proof.algorithm, proof.hash) /\ folded' = 0 /\ phase' = "fold"
        /\ proof' = proof
    BY <1>1 DEF HashLeaf, BindingInv
  <2>3. /\ current' \in Digest /\ otherCurrent' \in Digest
        /\ current' = otherCurrent' => proof.hash = other.hash
    BY <1>1, <2>1, <2>2, LeafBinds
  <2>4. QED
    BY <1>1, <2>2, <2>3 DEF BindingInv, DigestBinds, SamePrefix, WellFormed, Alike
<1>2. CASE /\ Climb
           /\ otherCurrent' = Parent(other.algorithm, other.path[folded + 1], otherCurrent)
           /\ UNCHANGED other
  <2> DEFINE n == folded + 1
  <2>1. /\ n \in 1 .. Len(proof.path) /\ n \in 1 .. Len(other.path)
        /\ folded' = n /\ phase' = "fold" /\ proof' = proof
        /\ current \in Digest /\ otherCurrent \in Digest
    BY <1>2 DEF Climb, More, BindingInv, Alike
  <2>2. /\ proof.path[n].side = other.path[n].side
        /\ proof.path[n].sibling \in Seq(Block) /\ other.path[n].sibling \in Seq(Block)
        /\ proof.algorithm = other.algorithm
    BY <2>1 DEF BindingInv, Alike, WellFormed
  <2>3. current' = Parent(proof.algorithm, proof.path[n], current)
    BY <1>2 DEF Climb, Next1
  <2>4. otherCurrent' = Parent(proof.algorithm, other.path[n], otherCurrent)
    BY <1>2, <2>2
  <2>5. current' \in Digest /\ otherCurrent' \in Digest
    BY <2>1, <2>2, <2>3, <2>4, ParentBinds
  <2>6. current' = otherCurrent'
          => proof.path[n].sibling = other.path[n].sibling /\ current = otherCurrent
    <3> HIDE DEF n
    <3>1. Parent(proof.algorithm, proof.path[n], current)
            = Parent(proof.algorithm, other.path[n], otherCurrent)
          => proof.path[n].sibling = other.path[n].sibling /\ current = otherCurrent
      BY <2>1, <2>2, ParentBinds
    <3>2. QED
      BY <2>3, <2>4, <3>1
  <2>7. DigestBinds'
    <3>1. SUFFICES ASSUME current' = otherCurrent' PROVE SamePrefix(n)
      BY <1>2, <2>1 DEF DigestBinds, SamePrefix
    <3>2. SamePrefix(folded)
      <4>1. current # <<>>
        <5>1. Len(current) = 1
          BY <2>1 DEF Digest
        <5>2. QED
          BY <5>1, EmptySeq
      <4>2. QED
        BY <2>6, <3>1, <4>1 DEF BindingInv, DigestBinds
    <3>3. \A k \in 1 .. n : k \in 1 .. folded \/ k = n
      BY DEF BindingInv
    <3>4. QED
      BY <2>6, <3>1, <3>2, <3>3 DEF SamePrefix
  <2>8. QED
    BY <1>2, <2>1, <2>5, <2>7 DEF BindingInv, WellFormed, Alike
<1>3. CASE /\ RejectAlgorithm \/ RejectSide \/ RejectRoot \/ Compare \/ DecodePanics
           /\ UNCHANGED <<other, otherCurrent>>
  BY <1>3 DEF RejectAlgorithm, RejectSide, RejectRoot, Compare, DecodePanics, Finish,
              BindingInv, DigestBinds, SamePrefix, WellFormed, Alike
<1>4. CASE UNCHANGED bindingVars
  BY <1>4 DEF bindingVars, merkleVars, BindingInv, DigestBinds, SamePrefix,
              WellFormed, Alike
<1>5. QED
  BY <1>1, <1>2, <1>3, <1>4 DEF BindingNext

(* A digest commits to the hash and to every sibling that was folded into  *)
(* it, for paths of every length, siblings of every width and both         *)
(* constructions, if SHA-256 has no collisions.                            *)
THEOREM DigestsBind == ASSUME HashIdeal PROVE BindingSpec => []DigestBinds
<1>1. BindingInv => DigestBinds
  BY DEF BindingInv
<1>2. BindingInv /\ [BindingNext]_bindingVars => BindingInv'
  BY HashIdeal, BindingInvNext
<1>3. QED
  BY <1>1, <1>2, BindingInvInit, PTL DEF BindingSpec

-----------------------------------------------------------------------------
(* What every step keeps, for paths of every length and texts of every     *)
(* kind.  The steps are those of [MerkleNext]_merkleVars, which verify     *)
(* takes too.                                                              *)

LEMMA PathFacts ==
  ASSUME NEW p \in Proofs
  PROVE  /\ p.hash \in Text /\ p.root \in Text
         /\ Len(p.path) \in Nat /\ DOMAIN p.path = 1 .. Len(p.path)
         /\ \A k \in 1 .. Len(p.path) : p.path[k] \in Step
<1>1. p.path \in Seq(Step) /\ p.hash \in Text /\ p.root \in Text
  BY ProofAssumption
<1>2. QED
  BY <1>1, LenProperties, ElementOfSeq

LEMMA MerkleTypesInit == ASSUME MerkleInit PROVE MerkleTypeOK
<1>1. Len(proof.path) \in Nat /\ proof \in Proofs
  BY PathFacts DEF MerkleInit, MerkleStart
<1>2. QED
  BY <1>1 DEF MerkleInit, MerkleStart, MerkleTypeOK

LEMMA MerkleTypesNext ==
  ASSUME MerkleTypeOK, [MerkleNext]_merkleVars
  PROVE  MerkleTypeOK'
<1> USE DEF MerkleTypeOK
<1>1. ASSUME NEW a \in {"yes", "no"} \union MerkleErrors, Finish(a) PROVE MerkleTypeOK'
  BY <1>1, AnswerAssumption DEF Finish
<1>2. CASE RejectAlgorithm \/ RejectLeaf \/ RejectSibling \/ RejectSide \/ RejectRoot
  BY <1>1, <1>2 DEF RejectAlgorithm, RejectLeaf, RejectSibling, RejectSide, RejectRoot,
                    MerkleErrors
<1>3. CASE Compare
  BY <1>1, <1>3 DEF Compare
<1>4. CASE HashLeaf
  BY <1>4 DEF HashLeaf, MerkleErrors
<1>5. CASE Climb
  <2>1. current' = Parent(proof.algorithm, Next1, current) /\ folded' \in 1 .. Len(proof.path)
        /\ UNCHANGED <<proof, phase, answer>> /\ phase = "fold"
    BY <1>5, PathFacts DEF Climb, More
  <2>2. Len(current') = 1
    BY <2>1 DEF Parent
  <2>3. QED
    BY <2>1, <2>2, PathFacts
<1>6. CASE DecodePanics
  BY <1>6 DEF DecodePanics, More, AtRoot, MerkleErrors
<1>7. CASE UNCHANGED merkleVars
  BY <1>7 DEF merkleVars
<1>8. QED
  BY <1>2, <1>3, <1>4, <1>5, <1>6, <1>7 DEF MerkleNext

(* verify_inclusion answers once, at its end, and from the first hash on   *)
(* what it has derived is one digest wide.                                 *)
THEOREM MerkleTypes == MerkleSpec => []MerkleTypeOK
  BY MerkleTypesInit, MerkleTypesNext, PTL DEF MerkleSpec

(* Inductive: what is past a check has passed it.                          *)
CheckedInv ==
  /\ MerkleTypeOK
  /\ phase = "fold" => Supported(proof.algorithm)
  /\ \A k \in 1 .. folded : proof.path[k].side \in {"left", "right"}
  /\ MalformedIsError

LEMMA CheckedNext ==
  ASSUME CheckedInv, [MerkleNext]_merkleVars
  PROVE  CheckedInv'
<1> USE DEF CheckedInv
<1>1. MerkleTypeOK'
  BY MerkleTypesNext
<1>2. ASSUME NEW a, a # "no", Finish(a) PROVE CheckedInv'
  BY <1>1, <1>2 DEF Finish, MalformedIsError, MerkleTypeOK
<1>3. CASE RejectAlgorithm \/ RejectLeaf \/ RejectSibling \/ RejectSide \/ RejectRoot
  BY <1>2, <1>3 DEF RejectAlgorithm, RejectLeaf, RejectSibling, RejectSide, RejectRoot
<1>4. CASE Compare
  <2>1. folded = Len(proof.path) /\ DOMAIN proof.path = 1 .. folded /\ phase' = "done"
        /\ proof.root # BadHex /\ Supported(proof.algorithm) /\ UNCHANGED <<proof, folded>>
    BY <1>4, PathFacts DEF Compare, AtRoot, Finish, MerkleTypeOK
  <2>2. QED
    BY <1>1, <2>1 DEF MalformedIsError, Supported
<1>5. CASE HashLeaf
  BY <1>1, <1>5, AnswerAssumption DEF HashLeaf, MalformedIsError, MerkleTypeOK
<1>6. CASE Climb
  <2>1. \A k \in 1 .. folded + 1 : k \in 1 .. folded \/ k = folded + 1
    BY DEF MerkleTypeOK
  <2>2. /\ folded' = folded + 1 /\ UNCHANGED <<proof, phase, answer>> /\ phase = "fold"
        /\ proof.path[folded + 1].side \in {"left", "right"}
    BY <1>6 DEF Climb, More, Next1
  <2>3. answer # "no"
    BY <2>2, AnswerAssumption DEF MerkleTypeOK
  <2>4. QED
    BY <1>1, <2>1, <2>2, <2>3 DEF MalformedIsError
<1>7. CASE DecodePanics
  BY <1>1, <1>7, AnswerAssumption DEF DecodePanics, More, AtRoot, MalformedIsError, MerkleTypeOK
<1>8. CASE UNCHANGED merkleVars
  BY <1>1, <1>8 DEF merkleVars, MalformedIsError
<1>9. QED
  BY <1>3, <1>4, <1>5, <1>6, <1>7, <1>8 DEF MerkleNext

(* Unsupported and forged do not look alike, for proofs of every kind: a   *)
(* "no" is only said of a proof that was folded to its end.                *)
THEOREM MalformedNeverNo == MerkleSpec => []MalformedIsError
<1>1. MerkleInit => CheckedInv
  <2>1. SUFFICES ASSUME MerkleInit PROVE CheckedInv
    OBVIOUS
  <2>2. QED
    BY <2>1, MerkleTypesInit, AnswerAssumption
       DEF CheckedInv, MerkleInit, MerkleStart, MalformedIsError
<1>2. CheckedInv /\ [MerkleNext]_merkleVars => CheckedInv'
  BY CheckedNext
<1>3. CheckedInv => MalformedIsError
  BY DEF CheckedInv
<1>4. QED
  BY <1>1, <1>2, <1>3, PTL DEF MerkleSpec

-----------------------------------------------------------------------------
(* The trees of batches of every size.  Their nodes are functions defined  *)
(* by recursion on the size of a range: by induction on that size they     *)
(* exist, and are what the recursion says.                                 *)

Less == {ss \in Nat \X Nat : ss[1] < ss[2]}

LEMMA LessIsWellFounded == IsWellFoundedOn(Less, Nat)
  BY NatLessThanWellFounded DEF OpToRel, Less

(* Induction, over a set of numbers. *)
LEMMA SetInduction ==
  ASSUME NEW S, 0 \in S, \A n \in Nat : n \in S => n + 1 \in S
  PROVE  Nat \subseteq S
<1> DEFINE T == Nat \ S
<1>1. SUFFICES ASSUME T # {} PROVE FALSE
  OBVIOUS
<1>2. PICK x \in T : \A y \in T : ~(<<y, x>> \in Less)
  BY <1>1, LessIsWellFounded, WFMin
<1>3. x \in Nat /\ x # 0
  OBVIOUS
<1>4. x - 1 \in Nat /\ (x - 1) + 1 = x /\ x - 1 < x
  BY <1>3
<1>5. x - 1 \in T
  BY <1>4
<1>6. QED
  BY <1>2, <1>4, <1>5 DEF Less

Halves(n, f) == [i \in 1 .. n |-> IF i <= 2 THEN 1 ELSE 2 * f[(i + 1) \div 2]]

LEMMA HalvesExist == ASSUME NEW n \in Nat PROVE \E f : f = Halves(n, f)
<1> DEFINE Q == {m \in Nat : \E f : f = Halves(m, f)}
<1>1. 0 \in Q
  <2> DEFINE f == [i \in 1 .. 0 |-> 1]
  <2>1. f = Halves(0, f)
    BY DEF Halves
  <2>2. QED
    BY <2>1
<1>2. ASSUME NEW m \in Nat, m \in Q PROVE m + 1 \in Q
  <2>1. PICK f : f = Halves(m, f)
    BY <1>2
  <2> DEFINE g == Halves(m + 1, f)
  <2>2. ASSUME NEW i \in 1 .. m + 1, ~(i <= 2)
        PROVE  (i + 1) \div 2 \in 1 .. m /\ (i + 1) \div 2 \in 1 .. m + 1
    BY <2>2
  <2>3. \A j \in 1 .. m : g[j] = f[j]
    BY <2>1 DEF Halves
  <2>4. g = Halves(m + 1, g)
    <3>1. \A i \in 1 .. m + 1 : ~(i <= 2) => g[(i + 1) \div 2] = f[(i + 1) \div 2]
      BY <2>2, <2>3
    <3> HIDE DEF g
    <3>2. Halves(m + 1, f) = Halves(m + 1, g)
      BY <3>1 DEF Halves
    <3>3. QED
      BY <3>2 DEF g
  <2>5. QED
    BY <2>4
<1>3. QED
  BY <1>1, <1>2, SetInduction

(* Split leaves leaves on both sides. *)
LEMMA SplitBounds ==
  ASSUME NEW n \in Nat, n >= 2
  PROVE  Split(n) \in 1 .. n - 1
<1> DEFINE f == CHOOSE f : f = Halves(n, f)
<1>1. f = Halves(n, f)
  BY HalvesExist
<1>2. Split(n) = f[n]
  BY DEF Split, Halves
<1> HIDE DEF f
<1>3. \A i \in 1 .. n : f[i] = IF i <= 2 THEN 1 ELSE 2 * f[(i + 1) \div 2]
  BY <1>1 DEF Halves
<1> DEFINE Q == {m \in Nat : \A i \in 2 .. n : i <= m => f[i] \in 1 .. i - 1}
<1>4. 0 \in Q
  OBVIOUS
<1>5. ASSUME NEW m \in Nat, m \in Q PROVE m + 1 \in Q
  <2>1. SUFFICES ASSUME m + 1 \in 3 .. n PROVE f[m + 1] \in 1 .. m
    BY <1>3, <1>5
  <2>2. (m + 2) \div 2 \in 2 .. m /\ (m + 1 + 1) \div 2 = (m + 2) \div 2
        /\ 2 * ((m + 2) \div 2) <= m + 2
    BY <2>1
  <2>3. f[m + 1] = 2 * f[(m + 2) \div 2]
    BY <1>3, <2>1, <2>2
  <2>4. f[(m + 2) \div 2] \in 1 .. ((m + 2) \div 2) - 1
    BY <1>5, <2>1, <2>2
  <2>5. QED
    BY <2>2, <2>3, <2>4
<1>6. n \in Q
  BY <1>4, <1>5, SetInduction
<1>7. QED
  BY <1>2, <1>6

(* A range of several leaves is that of its left part, then its right one. *)
LEMMA PartsOfRange ==
  ASSUME NEW b, Len(b) \in Nat, NEW r \in Ranges(b), r[2] # 1
  PROVE  /\ LeftOf(r) \in Ranges(b) /\ RightOf(r) \in Ranges(b)
         /\ LeftOf(r)[2] \in 1 .. r[2] - 1 /\ RightOf(r)[2] \in 1 .. r[2] - 1
         /\ LeftOf(r)[1] = r[1] /\ RightOf(r)[1] = r[1] + LeftOf(r)[2]
         /\ RightOf(r)[2] = r[2] - LeftOf(r)[2]
<1>1. r \in (0 .. Len(b)) \X (1 .. Len(b)) /\ r[1] + r[2] <= Len(b)
  BY DEF Ranges
<1>2. r[1] \in 0 .. Len(b) /\ r[2] \in 2 .. Len(b)
  BY <1>1
<1>3. Split(r[2]) \in 1 .. r[2] - 1
  BY <1>2, SplitBounds
<1>4. QED
  BY <1>1, <1>2, <1>3 DEF LeftOf, RightOf, Ranges

NodeFrom(a, b, f, r) ==
  IF r[2] = 1 THEN LeafOf(a, b[r[1] + 1])
  ELSE Parent(a, [sibling |-> f[RightOf(r)], side |-> "right"], f[LeftOf(r)])

Upto(b, n) == {r \in Ranges(b) : r[2] <= n}
NodesUpto(a, b, n, f) == [r \in Upto(b, n) |-> NodeFrom(a, b, f, r)]

LEMMA RangeFacts ==
  ASSUME NEW b, Len(b) \in Nat
  PROVE  /\ Upto(b, 0) = {} /\ Upto(b, Len(b)) = Ranges(b)
         /\ \A r \in Ranges(b) : r[1] \in 0 .. Len(b) /\ r[2] \in 1 .. Len(b)
                                   /\ r[1] + r[2] <= Len(b) /\ r = <<r[1], r[2]>>
  BY DEF Upto, Ranges

LEMMA NodesExist ==
  ASSUME NEW a, NEW b, Len(b) \in Nat
  PROVE  \E f : f = NodesUpto(a, b, Len(b), f)
<1> DEFINE Q == {n \in Nat : \E f : f = NodesUpto(a, b, n, f)}
<1>1. 0 \in Q
  <2> DEFINE f == [r \in {} |-> 0]
  <2>1. f = NodesUpto(a, b, 0, f)
    BY RangeFacts DEF NodesUpto
  <2>2. QED
    BY <2>1
<1>2. ASSUME NEW n \in Nat, n \in Q PROVE n + 1 \in Q
  <2>1. PICK f : f = NodesUpto(a, b, n, f)
    BY <1>2
  <2> DEFINE g == NodesUpto(a, b, n + 1, f)
  <2>2. Upto(b, n) \subseteq Upto(b, n + 1)
    BY RangeFacts DEF Upto
  <2>3. \A r \in Upto(b, n) : g[r] = f[r]
    BY <2>1, <2>2, Zenon DEF NodesUpto
  <2>4. \A r \in Upto(b, n + 1) : r[2] # 1 => LeftOf(r) \in Upto(b, n) /\ RightOf(r) \in Upto(b, n)
    <3>1. SUFFICES ASSUME NEW r \in Ranges(b), r[2] <= n + 1, r[2] # 1
                   PROVE  LeftOf(r) \in Upto(b, n) /\ RightOf(r) \in Upto(b, n)
      BY DEF Upto
    <3>2. QED
      BY <3>1, PartsOfRange, RangeFacts DEF Upto
  <2> HIDE DEF g
  <2>5. \A r \in Upto(b, n + 1) : NodeFrom(a, b, f, r) = NodeFrom(a, b, g, r)
    BY <2>3, <2>4, Zenon DEF NodeFrom
  <2>6. g = NodesUpto(a, b, n + 1, g)
    BY <2>5, Zenon DEF NodesUpto, g
  <2>7. QED
    BY <2>6
<1>3. QED
  BY <1>1, <1>2, SetInduction

(* A node is the leaf of its only document, or the parent of its parts.    *)
LEMMA NodeUnfolds ==
  ASSUME NEW a, NEW b, Len(b) \in Nat, NEW r \in Ranges(b)
  PROVE  Nodes(a, b)[r] = NodeFrom(a, b, Nodes(a, b), r)
<1> DEFINE f == CHOOSE f : f = NodesUpto(a, b, Len(b), f)
<1>1. f = NodesUpto(a, b, Len(b), f)
  BY NodesExist
<1>2. Upto(b, Len(b)) = Ranges(b)
  BY RangeFacts
<1>3. Nodes(a, b) = f
  BY <1>2 DEF Nodes, NodesUpto, NodeFrom
<1> HIDE DEF f
<1>4. QED
  BY <1>1, <1>2, <1>3, Zenon DEF NodesUpto

-----------------------------------------------------------------------------
(* What the nodes of a batch are. *)

LEMMA BatchFacts ==
  ASSUME NEW b \in Batches
  PROVE  /\ Len(b) \in Nat \ {0} /\ DOMAIN b = 1 .. Len(b)
         /\ \A k \in 1 .. Len(b) : b[k] \in Digest
         /\ <<0, Len(b)>> \in Ranges(b)
         /\ \A r \in Ranges(b) : \A k \in r[1] + 1 .. r[1] + r[2] : k \in 1 .. Len(b)
<1>1. b \in Seq(DocumentHashes) /\ b # <<>>
  BY BatchAssumption
<1>2. Len(b) \in Nat \ {0} /\ DOMAIN b = 1 .. Len(b)
  BY <1>1, EmptySeq, LenProperties
<1>3. \A k \in 1 .. Len(b) : b[k] \in Digest
  BY <1>1, DigestFacts, ElementOfSeq DEF DocumentHashes
<1>4. QED
  BY <1>2, <1>3, RangeFacts DEF Ranges

(* A node of one leaf is that leaf, one of several a hash of its parts.    *)
LEMMA NodeIsLeaf ==
  ASSUME NEW a, NEW b \in Batches, NEW r \in Ranges(b), r[2] = 1
  PROVE  /\ r[1] \in Nat /\ r[1] + 1 \in 1 .. Len(b) /\ b[r[1] + 1] \in Digest
         /\ Nodes(a, b)[r] = LeafOf(a, b[r[1] + 1])
<1>1. Len(b) \in Nat /\ \A k \in 1 .. Len(b) : b[k] \in Digest
  BY BatchFacts
<1>2. r[1] \in Nat /\ r[1] + 1 \in 1 .. Len(b)
  BY <1>1, RangeFacts
<1>3. Nodes(a, b)[r] = NodeFrom(a, b, Nodes(a, b), r)
  BY <1>1, NodeUnfolds
<1>4. QED
  BY <1>1, <1>2, <1>3 DEF NodeFrom

LEMMA BranchIsHash ==
  ASSUME NEW a, NEW b \in Batches, NEW r \in Ranges(b), r[2] # 1
  PROVE  Nodes(a, b)[r] = <<Hash(Joined(prefixes(a).node, Nodes(a, b)[LeftOf(r)],
                                                          Nodes(a, b)[RightOf(r)]))>>
<1>1. Len(b) \in Nat
  BY BatchFacts
<1>2. Nodes(a, b)[r] = NodeFrom(a, b, Nodes(a, b), r)
  BY <1>1, NodeUnfolds
<1>3. QED
  BY <1>2 DEF NodeFrom, Parent, Joined

LEMMA NodesAreDigests ==
  ASSUME HashIdeal, NEW a, NEW b \in Batches
  PROVE  \A r \in Ranges(b) : Nodes(a, b)[r] \in Digest
<1> DEFINE Q == {n \in Nat : \A r \in Upto(b, n) : Nodes(a, b)[r] \in Digest}
<1>1. 0 \in Q
  BY BatchFacts, RangeFacts
<1>2. ASSUME NEW n \in Nat, n \in Q PROVE n + 1 \in Q
  <2>1. SUFFICES ASSUME NEW r \in Upto(b, n + 1) PROVE Nodes(a, b)[r] \in Digest
    OBVIOUS
  <2>2. r \in Ranges(b) /\ r[1] \in 0 .. Len(b) /\ r[2] \in 1 .. Len(b) /\ r[2] <= n + 1
        /\ r[1] + r[2] <= Len(b)
    BY BatchFacts, RangeFacts DEF Upto
  <2>3. CASE r[2] = 1
    <3>1. b[r[1] + 1] \in Digest /\ Nodes(a, b)[r] = LeafOf(a, b[r[1] + 1])
      BY <2>2, <2>3, NodeIsLeaf
    <3>2. QED
      BY <3>1, LeafBinds
  <2>4. CASE r[2] # 1
    <3> DEFINE x == Nodes(a, b)[LeftOf(r)]
               y == Nodes(a, b)[RightOf(r)]
    <3>1. LeftOf(r) \in Upto(b, n) /\ RightOf(r) \in Upto(b, n)
      BY <2>2, <2>4, BatchFacts, PartsOfRange DEF Upto
    <3>2. x \in Digest /\ y \in Digest
      BY <1>2, <3>1
    <3>3. Nodes(a, b)[r] = <<Hash(Joined(prefixes(a).node, x, y))>>
      BY <2>2, <2>4, BranchIsHash
    <3> HIDE DEF x, y
    <3>4. Joined(prefixes(a).node, x, y) \in Seq(Block)
      BY <3>2, PrefixTypes, HalvesBind DEF Digest
    <3>5. QED
      BY <3>3, <3>4, DigestFacts DEF HashIdeal
  <2>5. QED
    BY <2>3, <2>4
<1>3. Len(b) \in Q
  BY <1>1, <1>2, BatchFacts, SetInduction
<1>4. QED
  BY <1>3, BatchFacts, RangeFacts

-----------------------------------------------------------------------------
(* Under rfc6962 the first byte of what is hashed tells a leaf from a node. *)

LEMMA LeafIsNoParent ==
  ASSUME HashIdeal, NEW h \in Seq(Block)
  PROVE  /\ LeafOf(Rfc6962, h) = <<Hash(<<Zero>> \o h)>> /\ <<Zero>> \o h \in Seq(Block)
         /\ \A x, y \in Seq(Block) : LeafOf(Rfc6962, h) # <<Hash(Joined(<<One>>, x, y))>>
         /\ \A g \in Seq(Block) : LeafOf(Rfc6962, h) = LeafOf(Rfc6962, g) => g = h
<1>1. <<Zero>> \in Seq(Block) /\ <<One>> \in Seq(Block) /\ <<Zero>> # <<>> /\ Zero # One
  BY BlockAssumption
<1>2. \A g \in Seq(Block) : LeafOf(Rfc6962, g) = <<Hash(<<Zero>> \o g)>>
  BY <1>1 DEF LeafOf, prefixes
<1>3. \A g \in Seq(Block) : <<Zero>> \o g \in Seq(Block) /\ (<<Zero>> \o g)[1] = Zero
  <2>1. SUFFICES ASSUME NEW g \in Seq(Block)
                 PROVE  <<Zero>> \o g \in Seq(Block) /\ (<<Zero>> \o g)[1] = Zero
    OBVIOUS
  <2>2. Len(g) \in Nat /\ Len(<<Zero>>) = 1 /\ <<Zero>>[1] = Zero
    BY <1>1, LenProperties
  <2>3. QED
    BY <1>1, <2>2, ConcatProperties
<1>4. ASSUME NEW x \in Seq(Block), NEW y \in Seq(Block)
      PROVE  Joined(<<One>>, x, y) \in Seq(Block) /\ Joined(<<One>>, x, y)[1] = One
  <2>1. x \o y \in Seq(Block) /\ Joined(<<One>>, x, y) = <<One>> \o (x \o y)
    BY <1>1, ConcatFacts, ConcatProperties, Zenon DEF Joined
  <2> DEFINE z == x \o y
  <2> HIDE DEF z
  <2>2. z \in Seq(Block) /\ Len(z) \in Nat /\ Len(<<One>>) = 1 /\ <<One>>[1] = One
    BY <1>1, <2>1, LenProperties DEF z
  <2>3. <<One>> \o z \in Seq(Block) /\ (<<One>> \o z)[1] = One
    BY <1>1, <2>2, ConcatProperties
  <2>4. QED
    BY <2>1, <2>3 DEF z
<1>5. ASSUME NEW x \in Seq(Block), NEW y \in Seq(Block)
      PROVE  LeafOf(Rfc6962, h) # <<Hash(Joined(<<One>>, x, y))>>
  <2> DEFINE u == <<Zero>> \o h
             v == Joined(<<One>>, x, y)
  <2>1. u \in Seq(Block) /\ v \in Seq(Block) /\ u # v
    <3>1. u \in Seq(Block) /\ u[1] = Zero
      BY <1>3
    <3>2. v \in Seq(Block) /\ v[1] = One
      BY <1>4
    <3> HIDE DEF u, v
    <3>3. QED
      BY <1>1, <3>1, <3>2
  <2>2. LeafOf(Rfc6962, h) = <<Hash(u)>>
    BY <1>2
  <2> HIDE DEF u, v
  <2>3. Hash(u) # Hash(v)
    BY <2>1 DEF HashIdeal
  <2>4. QED
    BY <2>2, <2>3 DEF v
<1>6. ASSUME NEW g \in Seq(Block), LeafOf(Rfc6962, h) = LeafOf(Rfc6962, g) PROVE g = h
  <2>1. Hash(<<Zero>> \o h) = Hash(<<Zero>> \o g)
    BY <1>2, <1>6
  <2>2. <<Zero>> \o h = <<Zero>> \o g
    BY <1>3, <2>1 DEF HashIdeal
  <2>3. QED
    BY <1>1, <2>2, ConcatSimplifications
<1>7. QED
  BY <1>2, <1>3, <1>5, <1>6

(* The hashes of the documents below a node. *)
Beneath(b, r) == {b[k] : k \in r[1] + 1 .. r[1] + r[2]}

(* The invariant: if what has been derived is a node of the tree of any    *)
(* batch, then the hash the fold began with is a document's below it.      *)
MembersInv ==
  /\ MerkleTypeOK
  /\ phase = "fold" /\ proof.algorithm = Rfc6962 =>
       /\ current \in Digest /\ proof.hash \in Seq(Block)
       /\ \A b \in Batches : \A r \in Ranges(b) :
            current = Nodes(Rfc6962, b)[r] => proof.hash \in Beneath(b, r)
  /\ OnlyMembersAccepted

LEMMA MembersHashLeaf ==
  ASSUME HashIdeal, MembersInv, HashLeaf
  PROVE  MembersInv'
<1>1. MerkleTypeOK'
  BY MerkleTypesNext DEF MembersInv, MerkleNext
<1>2. /\ UNCHANGED <<proof, folded, answer>> /\ proof \in Proofs /\ answer = None
      /\ current' = LeafOf(proof.algorithm, proof.hash)
      /\ proof.hash \notin {BadHex, SplitChar}
  BY DEF HashLeaf, MembersInv, MerkleTypeOK
<1>3. proof.hash \in Seq(Block)
  BY <1>2, PathFacts DEF Text
<1>4. ASSUME proof.algorithm = Rfc6962, NEW b \in Batches, NEW r \in Ranges(b),
             current' = Nodes(Rfc6962, b)[r]
      PROVE  proof.hash \in Beneath(b, r)
  <2> DEFINE N == Nodes(Rfc6962, b)
  <2>1. CASE r[2] = 1
    <3>1. /\ r[1] \in Nat /\ b[r[1] + 1] \in Seq(Block)
          /\ N[r] = LeafOf(Rfc6962, b[r[1] + 1])
      BY <2>1, NodeIsLeaf DEF Digest
    <3>2. proof.hash = b[r[1] + 1]
      BY <1>2, <1>3, <1>4, <3>1, LeafIsNoParent
    <3>3. r[1] + 1 \in r[1] + 1 .. r[1] + r[2]
      BY <2>1, <3>1
    <3>4. QED
      BY <3>2, <3>3 DEF Beneath
  <2>2. CASE r[2] # 1
    <3>1. N[r] = <<Hash(Joined(<<One>>, N[LeftOf(r)], N[RightOf(r)]))>>
      BY <2>2, BranchIsHash DEF prefixes
    <3>2. LeftOf(r) \in Ranges(b) /\ RightOf(r) \in Ranges(b)
      BY <2>2, BatchFacts, PartsOfRange
    <3>3. N[LeftOf(r)] \in Seq(Block) /\ N[RightOf(r)] \in Seq(Block)
      BY <3>2, NodesAreDigests DEF Digest
    <3>4. QED
      BY <1>2, <1>3, <1>4, <3>1, <3>3, LeafIsNoParent
  <2>3. QED
    BY <2>1, <2>2
<1>5. ASSUME proof.algorithm = Rfc6962 PROVE current' \in Digest
  <2> DEFINE u == <<Zero>> \o proof.hash
  <2>1. current' = <<Hash(u)>> /\ u \in Seq(Block)
    BY <1>2, <1>3, <1>5, LeafIsNoParent
  <2> HIDE DEF u
  <2>2. QED
    BY <2>1, DigestFacts DEF HashIdeal
<1>6. QED
  BY <1>1, <1>2, <1>3, <1>4, <1>5, AnswerAssumption DEF MembersInv, OnlyMembersAccepted

LEMMA MembersClimb ==
  ASSUME HashIdeal, MembersInv, Climb
  PROVE  MembersInv'
<1>1. MerkleTypeOK'
  BY MerkleTypesNext DEF MembersInv, MerkleNext
<1> DEFINE s == Next1.sibling
<1>2. /\ UNCHANGED <<proof, phase, answer>> /\ proof \in Proofs /\ phase = "fold" /\ answer = None
      /\ current' = Parent(proof.algorithm, Next1, current)
      /\ s \in Seq(Block)
  <2>1. folded + 1 \in 1 .. Len(proof.path) /\ proof \in Proofs
    BY PathFacts DEF Climb, More, MembersInv, MerkleTypeOK
  <2>2. Next1 \in Step /\ s \notin {BadHex, SplitChar}
    BY <2>1, PathFacts DEF Climb, Next1
  <2>3. QED
    BY <2>1, <2>2 DEF Climb, More, MembersInv, MerkleTypeOK, Step, Text
<1>3. CASE proof.algorithm # Rfc6962
  BY <1>1, <1>2, <1>3, AnswerAssumption DEF MembersInv, OnlyMembersAccepted
<1>4. CASE proof.algorithm = Rfc6962
  <2>1. current \in Digest /\ proof.hash \in Seq(Block)
    BY <1>2, <1>4 DEF MembersInv
  <2>2. current' \in Digest
    BY <1>2, <2>1, ParentBinds
  <2>3. current' = <<Hash(IF Next1.side = "left" THEN Joined(<<One>>, s, current)
                                                 ELSE Joined(<<One>>, current, s))>>
    BY <1>2, <1>4 DEF Parent, Joined, prefixes
  <2>4. ASSUME NEW b \in Batches, NEW r \in Ranges(b), current' = Nodes(Rfc6962, b)[r]
        PROVE  proof.hash \in Beneath(b, r)
    <3> DEFINE N == Nodes(Rfc6962, b)
               x == N[LeftOf(r)]
               y == N[RightOf(r)]
    <3>1. <<One>> \in Seq(Block) /\ current \in Seq(Block)
      BY <2>1, BlockAssumption DEF Digest
    <3>2. CASE r[2] = 1
      <4>1. N[r] = LeafOf(Rfc6962, b[r[1] + 1]) /\ b[r[1] + 1] \in Seq(Block)
        BY <3>2, NodeIsLeaf DEF Digest
      <4>2. QED
        BY <1>2, <2>3, <2>4, <3>1, <4>1, LeafIsNoParent
    <3>3. CASE r[2] # 1
      <4>1. LeftOf(r) \in Ranges(b) /\ RightOf(r) \in Ranges(b)
        BY <3>3, BatchFacts, PartsOfRange
      <4>2. x \in Digest /\ y \in Digest
        BY <4>1, NodesAreDigests
      <4>3. x \in Seq(Block) /\ y \in Seq(Block)
        BY <4>2 DEF Digest
      <4>4. N[r] = <<Hash(Joined(<<One>>, x, y))>>
        BY <3>3, BranchIsHash DEF prefixes
      <4> HIDE DEF x, y, s
      <4>5. \/ Joined(<<One>>, s, current) = Joined(<<One>>, x, y)
            \/ Joined(<<One>>, current, s) = Joined(<<One>>, x, y)
        <5>1. /\ Joined(<<One>>, s, current) \in Seq(Block) /\ Joined(<<One>>, x, y) \in Seq(Block)
              /\ Joined(<<One>>, current, s) \in Seq(Block)
          BY <1>2, <2>1, <3>1, <4>2, <4>3, HalvesBind
        <5>2. QED
          BY <2>3, <2>4, <4>4, <5>1 DEF HashIdeal
      <4> DEFINE o == <<One>>
      <4>6. ASSUME NEW c \in Digest, c = current PROVE c = y \/ c = x
        <5>1. s \in Seq(Block) /\ o \in Seq(Block)
          BY <1>2, <3>1
        <5>2. Joined(o, s, c) = Joined(o, x, y) \/ Joined(o, c, s) = Joined(o, x, y)
          BY <4>5, <4>6
        <5> HIDE DEF o
        <5>3. ASSUME Joined(o, s, c) = Joined(o, x, y) PROVE c = y
          BY <4>2, <4>3, <5>1, <5>3, LeftInjective
        <5>4. ASSUME Joined(o, c, s) = Joined(o, x, y) PROVE c = x
          BY <4>2, <4>3, <5>1, <5>4, RightInjective
        <5>5. QED
          BY <5>2, <5>3, <5>4
      <4>7. proof.hash \in Beneath(b, LeftOf(r)) \union Beneath(b, RightOf(r))
        BY <1>2, <1>4, <2>1, <4>1, <4>6 DEF MembersInv, x, y
      <4>8. Beneath(b, LeftOf(r)) \union Beneath(b, RightOf(r)) \subseteq Beneath(b, r)
        <5>1. r[1] \in Nat /\ r[2] \in Nat /\ Len(b) \in Nat
          BY BatchFacts, RangeFacts
        <5>2. /\ LeftOf(r)[2] \in 1 .. r[2] - 1 /\ LeftOf(r)[1] = r[1]
              /\ RightOf(r)[1] = r[1] + LeftOf(r)[2] /\ RightOf(r)[2] = r[2] - LeftOf(r)[2]
          BY <3>3, <5>1, PartsOfRange
        <5>3. ASSUME NEW k \in Int,
                     \/ k \in LeftOf(r)[1] + 1 .. LeftOf(r)[1] + LeftOf(r)[2]
                     \/ k \in RightOf(r)[1] + 1 .. RightOf(r)[1] + RightOf(r)[2]
              PROVE  k \in r[1] + 1 .. r[1] + r[2]
          BY <5>1, <5>2, <5>3
        <5>4. QED
          BY <5>3 DEF Beneath
      <4>9. QED
        BY <4>7, <4>8
    <3>4. QED
      BY <3>2, <3>3
  <2>5. QED
    BY <1>1, <1>2, <2>1, <2>2, <2>4, AnswerAssumption DEF MembersInv, OnlyMembersAccepted
<1>5. QED
  BY <1>3, <1>4

LEMMA MembersNext ==
  ASSUME HashIdeal, MembersInv, [MerkleNext]_merkleVars
  PROVE  MembersInv'
<1>1. MerkleTypeOK'
  BY MerkleTypesNext DEF MembersInv
<1>2. ASSUME NEW a, a # "yes", Finish(a) PROVE MembersInv'
  BY <1>1, <1>2 DEF Finish, MembersInv, OnlyMembersAccepted
<1>3. CASE RejectAlgorithm \/ RejectLeaf \/ RejectSibling \/ RejectSide \/ RejectRoot
  BY <1>2, <1>3 DEF RejectAlgorithm, RejectLeaf, RejectSibling, RejectSide, RejectRoot
<1>4. CASE Compare
  <2>1. CASE current # proof.root
    BY <1>2, <1>4, <2>1 DEF Compare, constant_time_eq
  <2>2. CASE current = proof.root
    <3>1. phase = "fold" /\ phase' = "done" /\ UNCHANGED <<proof, folded, current>>
      BY <1>4 DEF Compare, AtRoot, Finish
    <3>2. ASSUME proof.algorithm = Rfc6962, NEW b \in Batches, proof.root = RootOf(Rfc6962, b)
          PROVE  proof.hash \in ToSet(b)
      <4>1. <<0, Len(b)>> \in Ranges(b) /\ current = Nodes(Rfc6962, b)[<<0, Len(b)>>]
        BY <2>2, <3>2, BatchFacts DEF RootOf
      <4>2. proof.hash \in Beneath(b, <<0, Len(b)>>)
        BY <3>1, <3>2, <4>1 DEF MembersInv
      <4>3. QED
        BY <4>2, BatchFacts DEF Beneath, ToSet
    <3>3. QED
      BY <1>1, <3>1, <3>2 DEF MembersInv, OnlyMembersAccepted
  <2>3. QED
    BY <2>1, <2>2
<1>5. CASE DecodePanics
  BY <1>1, <1>5, AnswerAssumption
     DEF DecodePanics, More, AtRoot, MembersInv, OnlyMembersAccepted, MerkleTypeOK
<1>6. CASE UNCHANGED merkleVars
  BY <1>1, <1>6 DEF merkleVars, MembersInv, OnlyMembersAccepted
<1>7. QED
  BY <1>3, <1>4, <1>5, <1>6, MembersHashLeaf, MembersClimb DEF MerkleNext

LEMMA MembersInit == ASSUME MerkleInit PROVE MembersInv
  BY MerkleTypesInit, AnswerAssumption
     DEF MembersInv, MerkleInit, MerkleStart, OnlyMembersAccepted

(* An rfc6962 root commits to the documents of its batch: whatever a proof *)
(* holds, of whatever length, a yes for a batch's root is a yes for one of *)
(* its documents, for batches of every size, if SHA-256 has no collisions. *)
THEOREM RootsCommit == ASSUME HashIdeal PROVE MerkleSpec => []OnlyMembersAccepted
<1>1. MerkleInit => MembersInv
  BY MembersInit
<1>2. MembersInv /\ [MerkleNext]_merkleVars => MembersInv'
  BY HashIdeal, MembersNext
<1>3. MembersInv => OnlyMembersAccepted
  BY DEF MembersInv
<1>4. QED
  BY <1>1, <1>2, <1>3, PTL DEF MerkleSpec

-----------------------------------------------------------------------------
(* The paths the service hands out.  They are folded back to the root.     *)

PathFrom(a, b, k, f, r) ==
  IF r[2] = 1 THEN <<>>
  ELSE IF k <= RightOf(r)[1]
  THEN Append(f[LeftOf(r)], [sibling |-> Nodes(a, b)[RightOf(r)], side |-> "right"])
  ELSE Append(f[RightOf(r)], [sibling |-> Nodes(a, b)[LeftOf(r)], side |-> "left"])

PathsUpto(a, b, k, n, f) == [r \in Upto(b, n) |-> PathFrom(a, b, k, f, r)]

LEMMA PathsExist ==
  ASSUME NEW a, NEW b, Len(b) \in Nat, NEW k
  PROVE  \E f : f = PathsUpto(a, b, k, Len(b), f)
<1> DEFINE Q == {n \in Nat : \E f : f = PathsUpto(a, b, k, n, f)}
<1>1. 0 \in Q
  <2> DEFINE f == [r \in {} |-> 0]
  <2>1. f = PathsUpto(a, b, k, 0, f)
    BY RangeFacts DEF PathsUpto
  <2>2. QED
    BY <2>1
<1>2. ASSUME NEW n \in Nat, n \in Q PROVE n + 1 \in Q
  <2>1. PICK f : f = PathsUpto(a, b, k, n, f)
    BY <1>2
  <2> DEFINE g == PathsUpto(a, b, k, n + 1, f)
  <2>2. Upto(b, n) \subseteq Upto(b, n + 1)
    BY RangeFacts DEF Upto
  <2>3. \A r \in Upto(b, n) : g[r] = f[r]
    BY <2>1, <2>2, Zenon DEF PathsUpto
  <2>4. \A r \in Upto(b, n + 1) : r[2] # 1 => LeftOf(r) \in Upto(b, n) /\ RightOf(r) \in Upto(b, n)
    <3>1. SUFFICES ASSUME NEW r \in Ranges(b), r[2] <= n + 1, r[2] # 1
                   PROVE  LeftOf(r) \in Upto(b, n) /\ RightOf(r) \in Upto(b, n)
      BY DEF Upto
    <3>2. QED
      BY <3>1, PartsOfRange, RangeFacts DEF Upto
  <2> HIDE DEF g
  <2>5. \A r \in Upto(b, n + 1) : PathFrom(a, b, k, f, r) = PathFrom(a, b, k, g, r)
    BY <2>3, <2>4, Zenon DEF PathFrom
  <2>6. g = PathsUpto(a, b, k, n + 1, g)
    BY <2>5, Zenon DEF PathsUpto, g
  <2>7. QED
    BY <2>6
<1>3. QED
  BY <1>1, <1>2, SetInduction

LEMMA PathUnfolds ==
  ASSUME NEW a, NEW b, Len(b) \in Nat, NEW k, NEW r \in Ranges(b)
  PROVE  PathsOf(a, b, k)[r] = PathFrom(a, b, k, PathsOf(a, b, k), r)
<1> DEFINE f == CHOOSE f : f = PathsUpto(a, b, k, Len(b), f)
<1>1. f = PathsUpto(a, b, k, Len(b), f)
  BY PathsExist
<1>2. Upto(b, Len(b)) = Ranges(b)
  BY RangeFacts
<1>3. PathsOf(a, b, k) = f
  BY <1>2 DEF PathsOf, PathsUpto, PathFrom
<1> HIDE DEF f
<1>4. QED
  BY <1>1, <1>2, <1>3, Zenon DEF PathsUpto

(* The digests that a path of digests derives, from a hash to a top.       *)
DigestStep == [sibling : Digest, side : {"left", "right"}]
Derives(a, h, p, v) ==
  v[0] = LeafOf(a, h) /\ \A i \in 1 .. Len(p) : v[i] = Parent(a, p[i], v[i - 1])
Derivations(a, h, p, top) ==
  {v \in [0 .. Len(p) -> Digest] : Derives(a, h, p, v) /\ v[Len(p)] = top}

LEMMA DerivesOne ==
  ASSUME NEW a, NEW h, NEW p \in Seq(DigestStep), NEW t \in Digest, NEW s \in DigestStep,
         Derivations(a, h, p, t) # {}, Parent(a, s, t) \in Digest
  PROVE  /\ Append(p, s) \in Seq(DigestStep)
         /\ Derivations(a, h, Append(p, s), Parent(a, s, t)) # {}
<1> DEFINE q == Append(p, s)
           u == Parent(a, s, t)
<1>1. /\ q \in Seq(DigestStep) /\ Len(p) \in Nat /\ Len(q) = Len(p) + 1 /\ q[Len(p) + 1] = s
      /\ \A i \in 1 .. Len(p) : q[i] = p[i]
  BY AppendProperties, LenProperties
<1>2. PICK v \in [0 .. Len(p) -> Digest] : Derives(a, h, p, v) /\ v[Len(p)] = t
  BY DEF Derivations
<1> DEFINE w == [i \in 0 .. Len(p) + 1 |-> IF i <= Len(p) THEN v[i] ELSE u]
<1> HIDE DEF q, u
<1>3. u \in Digest
  BY DEF u
<1>4. w \in [0 .. Len(q) -> Digest] /\ w[Len(q)] = u
  BY <1>1, <1>2, <1>3
<1>5. Derives(a, h, q, w)
  <2>1. w[0] = LeafOf(a, h)
    BY <1>1, <1>2 DEF Derives
  <2>2. ASSUME NEW i \in 1 .. Len(q) PROVE w[i] = Parent(a, q[i], w[i - 1])
    <3>1. CASE i <= Len(p)
      <4>1. w[i] = v[i] /\ w[i - 1] = v[i - 1] /\ q[i] = p[i] /\ i \in 1 .. Len(p)
        BY <1>1, <3>1
      <4>2. QED
        BY <1>2, <4>1 DEF Derives
    <3>2. CASE ~(i <= Len(p))
      <4>1. i = Len(p) + 1 /\ w[i] = u /\ w[i - 1] = t /\ q[i] = s
        BY <1>1, <1>2, <3>2
      <4>2. QED
        BY <4>1 DEF u
    <3>3. QED
      BY <3>1, <3>2
  <2>3. QED
    BY <2>1, <2>2 DEF Derives
<1>6. w \in Derivations(a, h, q, u)
  BY <1>4, <1>5 DEF Derivations
<1>7. QED
  BY <1>1, <1>6 DEF q, u

(* The path of a document to any range that holds it derives its node, by  *)
(* induction on the size of the range.                                     *)
LEMMA PathsDerive ==
  ASSUME HashIdeal, NEW a, NEW b \in Batches, NEW k \in 1 .. Len(b)
  PROVE  \A r \in Ranges(b) : k \in r[1] + 1 .. r[1] + r[2] =>
           /\ PathsOf(a, b, k)[r] \in Seq(DigestStep)
           /\ Len(PathsOf(a, b, k)[r]) > 0 <=> r[2] > 1
           /\ Derivations(a, b[k], PathsOf(a, b, k)[r], Nodes(a, b)[r]) # {}
<1> DEFINE P == PathsOf(a, b, k)
           N == Nodes(a, b)
           Good(r) == /\ P[r] \in Seq(DigestStep) /\ (Len(P[r]) > 0 <=> r[2] > 1)
                      /\ Derivations(a, b[k], P[r], N[r]) # {}
           Q == {n \in Nat : \A r \in Upto(b, n) : k \in r[1] + 1 .. r[1] + r[2] => Good(r)}
<1>1. 0 \in Q
  BY BatchFacts, RangeFacts
<1>2. ASSUME NEW n \in Nat, n \in Q PROVE n + 1 \in Q
  <2>1. SUFFICES ASSUME NEW r \in Upto(b, n + 1), k \in r[1] + 1 .. r[1] + r[2]
                 PROVE  Good(r)
    OBVIOUS
  <2>2. r \in Ranges(b) /\ r[1] \in 0 .. Len(b) /\ r[2] \in 1 .. Len(b) /\ r[2] <= n + 1
        /\ Len(b) \in Nat
    BY BatchFacts, RangeFacts DEF Upto
  <2>3. P[r] = PathFrom(a, b, k, P, r)
    BY <2>2, PathUnfolds
  <2>4. CASE r[2] = 1
    <3>1. k = r[1] + 1
      BY <2>1, <2>2, <2>4
    <3>2. N[r] = LeafOf(a, b[k]) /\ b[k] \in Digest
      BY <2>2, <2>4, <3>1, NodeIsLeaf
    <3>3. N[r] \in Digest
      BY <2>2, NodesAreDigests
    <3>4. P[r] = <<>>
      BY <2>3, <2>4 DEF PathFrom
    <3> HIDE DEF P, N
    <3> DEFINE v == [i \in 0 .. 0 |-> N[r]]
    <3>5. v \in Derivations(a, b[k], <<>>, N[r])
      BY <3>2, <3>3 DEF Derivations, Derives
    <3>6. P[r] \in Seq(DigestStep) /\ (Len(P[r]) > 0 <=> r[2] > 1)
      BY <2>4, <3>4
    <3>7. QED
      BY <3>4, <3>5, <3>6
  <2>5. CASE r[2] # 1
    <3> DEFINE lr == LeftOf(r)
               rr == RightOf(r)
               x == N[lr]
               y == N[rr]
    <3>1. /\ lr \in Ranges(b) /\ rr \in Ranges(b)
          /\ lr[2] \in 1 .. r[2] - 1 /\ rr[2] \in 1 .. r[2] - 1
          /\ lr[1] = r[1] /\ rr[1] = r[1] + lr[2] /\ rr[2] = r[2] - lr[2]
      BY <2>2, <2>5, PartsOfRange
    <3>2. lr \in Upto(b, n) /\ rr \in Upto(b, n)
      BY <2>2, <3>1 DEF Upto
    <3>3. x \in Digest /\ y \in Digest /\ N[r] \in Digest
      BY <2>2, <3>1, NodesAreDigests
    <3>4. N[r] = <<Hash(Joined(prefixes(a).node, x, y))>>
      BY <2>2, <2>5, BranchIsHash
    <3>5. CASE k <= rr[1]
      <4> DEFINE s == [sibling |-> y, side |-> "right"]
      <4>1. P[r] = Append(P[lr], s)
        BY <2>3, <2>5, <3>5 DEF PathFrom
      <4>2. k \in lr[1] + 1 .. lr[1] + lr[2]
        BY <2>1, <2>2, <3>1, <3>5
      <4>3. Good(lr)
        BY <1>2, <3>2, <4>2
      <4>4. s \in DigestStep
        BY <3>3 DEF DigestStep
      <4>5. Parent(a, s, x) = N[r]
        BY <3>4 DEF Parent, Joined
      <4> HIDE DEF x, y, s, lr, rr, P, N
      <4>6. Append(P[lr], s) \in Seq(DigestStep)
            /\ Derivations(a, b[k], Append(P[lr], s), N[r]) # {}
        BY <3>3, <4>3, <4>4, <4>5, DerivesOne DEF x
      <4>7. Len(P[r]) > 0
        BY <4>1, <4>3, <4>4, AppendProperties, LenProperties
      <4>8. QED
        BY <2>2, <2>5, <4>1, <4>6, <4>7
    <3>6. CASE ~(k <= rr[1])
      <4> DEFINE s == [sibling |-> x, side |-> "left"]
      <4>1. P[r] = Append(P[rr], s)
        BY <2>3, <2>5, <3>6 DEF PathFrom
      <4>2. k \in rr[1] + 1 .. rr[1] + rr[2]
        BY <2>1, <2>2, <3>1, <3>6
      <4>3. Good(rr)
        BY <1>2, <3>2, <4>2
      <4>4. s \in DigestStep
        BY <3>3 DEF DigestStep
      <4>5. Parent(a, s, y) = N[r]
        BY <3>4 DEF Parent, Joined
      <4> HIDE DEF x, y, s, lr, rr, P, N
      <4>6. Append(P[rr], s) \in Seq(DigestStep)
            /\ Derivations(a, b[k], Append(P[rr], s), N[r]) # {}
        BY <3>3, <4>3, <4>4, <4>5, DerivesOne DEF y
      <4>7. Len(P[r]) > 0
        BY <4>1, <4>3, <4>4, AppendProperties, LenProperties
      <4>8. QED
        BY <2>2, <2>5, <4>1, <4>6, <4>7
    <3>7. QED
      BY <3>5, <3>6
  <2>6. QED
    BY <2>4, <2>5
<1>3. Len(b) \in Q
  BY <1>1, <1>2, BatchFacts, SetInduction
<1>4. QED
  BY <1>3, BatchFacts, RangeFacts

-----------------------------------------------------------------------------
(* A clean proof, every part of it a digest, is folded to its end.         *)
Clean(p) ==
  /\ Supported(p.algorithm) /\ p.hash \in Digest /\ p.root \in Digest
  /\ p.path \in Seq(DigestStep)

LEMMA DigestsAreNoBadTexts == \A c \in Digest : c \notin {BadHex, SplitChar}
<1>1. SUFFICES ASSUME NEW c \in Digest PROVE c \notin {BadHex, SplitChar}
  OBVIOUS
<1>2. PICK x \in Block : c = <<x>>
  BY DigestFacts
<1>3. QED
  BY <1>2, BlockAssumption

LEMMA CleanSteps ==
  ASSUME Clean(proof), MerkleTypeOK, MerkleNext
  PROVE  /\ HashLeaf \/ Climb \/ Compare
         /\ Climb => folded' \in 1 .. Len(proof.path) /\ proof.path[folded'] \in DigestStep
<1>1. /\ \A k \in 1 .. Len(proof.path) : proof.path[k] \in DigestStep
      /\ Len(proof.path) \in Nat /\ proof \in Proofs
  BY ElementOfSeq, LenProperties DEF Clean, MerkleTypeOK
<1>2. More => /\ Next1 \in DigestStep /\ folded + 1 \in 1 .. Len(proof.path)
              /\ Next1 = proof.path[folded + 1]
  BY <1>1 DEF More, Next1, MerkleTypeOK
<1>3. More => Next1.sibling \notin {BadHex, SplitChar} /\ Next1.side \in {"left", "right"}
  BY <1>2, DigestsAreNoBadTexts DEF DigestStep
<1>4. proof.hash \notin {BadHex, SplitChar} /\ proof.root \notin {BadHex, SplitChar}
      /\ Supported(proof.algorithm)
  BY DigestsAreNoBadTexts DEF Clean
<1>5. ~RejectAlgorithm /\ ~RejectLeaf /\ ~RejectRoot
  BY <1>4 DEF RejectAlgorithm, RejectLeaf, RejectRoot
<1>6. ~RejectSibling /\ ~RejectSide
  BY <1>3 DEF RejectSibling, RejectSide
<1>7. ~DecodePanics
  BY <1>3, <1>4 DEF DecodePanics
<1>8. QED
  BY <1>2, <1>5, <1>6, <1>7 DEF MerkleNext, Climb

(* The proof of every leaf of every batch is clean, and derives its root.  *)
DerivationsOf(p) == Derivations(p.algorithm, p.hash, p.path, p.root)
Derivable(p) == Clean(p) /\ DerivationsOf(p) # {}

LEMMA HonestProofsDerive ==
  ASSUME HashIdeal, NEW p \in HonestProofs
  PROVE  Derivable(p)
<1>1. PICK a \in {None, Legacy, Rfc6962}, b \in Batches :
        \E k \in DOMAIN b : p = HonestProof(a, b, k)
  BY DEF HonestProofs
<1> PICK k \in DOMAIN b : p = HonestProof(a, b, k)
  BY <1>1
<1> DEFINE r == <<0, Len(b)>>
<1>2. /\ k \in 1 .. Len(b) /\ Len(b) \in Nat /\ r \in Ranges(b) /\ b[k] \in Digest
      /\ k \in r[1] + 1 .. r[1] + r[2]
  BY BatchFacts
<1>3. /\ PathsOf(a, b, k)[r] \in Seq(DigestStep)
      /\ Derivations(a, b[k], PathsOf(a, b, k)[r], Nodes(a, b)[r]) # {}
  BY <1>2, PathsDerive
<1>4. Nodes(a, b)[r] \in Digest
  BY <1>2, NodesAreDigests
<1>5. /\ p.algorithm = a /\ p.hash = b[k] /\ p.path = PathsOf(a, b, k)[r]
      /\ p.root = Nodes(a, b)[r]
  BY DEF HonestProof, PathOf, RootOf
<1> HIDE DEF r
<1>6. QED
  BY <1>2, <1>3, <1>4, <1>5, Zenon DEF Derivable, DerivationsOf, Clean, Supported

(* The invariant: the fold is somewhere along such a derivation.           *)
HonestInv ==
  /\ MerkleTypeOK
  /\ Derivable(proof) =>
       /\ answer \in {None, "yes"} /\ phase # "panic"
       /\ phase = "fold" =>
            \E v \in DerivationsOf(proof) : current = v[folded]

LEMMA HonestNext ==
  ASSUME HonestInv, [MerkleNext]_merkleVars
  PROVE  HonestInv'
<1>1. MerkleTypeOK'
  BY MerkleTypesNext DEF HonestInv
<1>2. proof' = proof
  BY DEF MerkleNext, merkleVars, RejectAlgorithm, RejectLeaf, HashLeaf, RejectSibling,
         RejectSide, Climb, RejectRoot, Compare, DecodePanics, Finish
<1>3. CASE UNCHANGED merkleVars
  BY <1>1, <1>3 DEF merkleVars, HonestInv
<1>4. CASE ~Derivable(proof)
  <2>1. ~Derivable(proof')
    BY <1>2, <1>4
  <2>2. QED
    BY <1>1, <2>1 DEF HonestInv
<1>5. CASE Derivable(proof) /\ MerkleNext
  <2> DEFINE D == DerivationsOf(proof)
  <2>1. Clean(proof) /\ D # {} /\ MerkleTypeOK /\ answer \in {None, "yes"} /\ phase # "panic"
    BY <1>5 DEF HonestInv, Derivable
  <2>2. D' = D
    BY <1>2
  <2>3. CASE HashLeaf
    <3>1. PICK v \in D : TRUE
      BY <2>1
    <3>2. current' = v[folded'] /\ UNCHANGED answer /\ phase' = "fold"
      BY <2>1, <2>3 DEF HashLeaf, MerkleTypeOK, DerivationsOf, Derivations, Derives
    <3> HIDE DEF D
    <3>3. \E u \in D' : current' = u[folded']
      BY <2>2, <3>1, <3>2
    <3>4. QED
      BY <1>1, <2>1, <3>2, <3>3 DEF HonestInv, D
  <2>4. CASE Climb
    <3>1. PICK v \in D : current = v[folded]
      BY <1>5, <2>4 DEF HonestInv, Climb, More
    <3>2. /\ folded' = folded + 1 /\ folded' \in 1 .. Len(proof.path) /\ folded \in Nat
          /\ UNCHANGED <<phase, answer>> /\ phase = "fold"
          /\ current' = Parent(proof.algorithm, proof.path[folded'], current)
      BY <2>1, <2>4, CleanSteps DEF Climb, More, Next1, MerkleTypeOK
    <3>3. current' = v[folded']
      BY <3>1, <3>2 DEF DerivationsOf, Derivations, Derives
    <3> HIDE DEF D
    <3>4. \E u \in D' : current' = u[folded']
      BY <2>2, <3>1, <3>3
    <3>5. QED
      BY <1>1, <2>1, <3>2, <3>4 DEF HonestInv, D
  <2>5. CASE Compare
    <3>1. PICK v \in D : current = v[folded]
      BY <1>5, <2>5 DEF HonestInv, Compare, AtRoot
    <3>2. folded = Len(proof.path)
      BY <2>5 DEF Compare, AtRoot
    <3>3. current = proof.root
      BY <3>1, <3>2 DEF DerivationsOf, Derivations
    <3>4. answer' = "yes" /\ phase' = "done"
      BY <2>5, <3>3 DEF Compare, Finish, constant_time_eq
    <3>5. QED
      BY <1>1, <3>4 DEF HonestInv
  <2>6. QED
    BY <1>5, <2>1, <2>3, <2>4, <2>5, CleanSteps
<1>6. QED
  BY <1>3, <1>4, <1>5

LEMMA HonestInit == ASSUME MerkleInit PROVE HonestInv
  BY MerkleTypesInit DEF MerkleInit, MerkleStart, HonestInv

(* The proof of every leaf of every batch is accepted: verify_inclusion    *)
(* agrees with the trees of RFC 6962, for batches of every size.           *)
THEOREM EveryLeafAccepted == ASSUME HashIdeal PROVE MerkleSpec => []HonestAccepted
<1>1. MerkleInit => HonestInv
  BY HonestInit
<1>2. HonestInv /\ [MerkleNext]_merkleVars => HonestInv'
  BY HonestNext
<1>3. HonestInv => HonestAccepted
  BY HashIdeal, HonestProofsDerive DEF HonestInv, HonestAccepted
<1>4. QED
  BY <1>1, <1>2, <1>3, PTL DEF MerkleSpec

-----------------------------------------------------------------------------
(* The two constructions. *)

(* No document hash is its own leaf hash.                                  *)
NoFixpoint ==
  \A b \in Batches : \A k \in DOMAIN b : b[k] # LeafOf(Rfc6962, b[k])

(* What a fold under one construction derives is not a root of the other.  *)
Crossed(p) ==
  /\ Clean(p)
  /\ IF Len(p.path) = 0 THEN p.root # LeafOf(p.algorithm, p.hash)
     ELSE \A s \in DigestStep : \A c \in Digest : p.root # Parent(p.algorithm, s, c)

LEMMA JoinedLength ==
  ASSUME NEW n \in Seq(Block), NEW x \in Digest, NEW y \in Digest
  PROVE  Joined(n, x, y) \in Seq(Block) /\ Len(Joined(n, x, y)) = Len(n) + 2
<1>1. x \in Seq(Block) /\ y \in Seq(Block) /\ Len(x) = 1 /\ Len(y) = 1 /\ Len(n) \in Nat
  BY LenProperties DEF Digest
<1>2. n \o x \in Seq(Block) /\ Len(n \o x) = Len(n) + Len(x)
  BY <1>1, ConcatProperties
<1> DEFINE m == n \o x
<1> HIDE DEF m
<1>3. m \o y \in Seq(Block) /\ Len(m \o y) = Len(m) + Len(y)
  BY <1>1, <1>2, ConcatProperties DEF m
<1>4. QED
  BY <1>1, <1>2, <1>3 DEF m, Joined

LEMMA ParentIsHash ==
  ASSUME NEW a, NEW s \in DigestStep, NEW c \in Digest
  PROVE  \E x, y \in Digest : Parent(a, s, c) = <<Hash(Joined(prefixes(a).node, x, y))>>
<1>1. s.sibling \in Digest
  BY DEF DigestStep
<1>2. Parent(a, s, c) = IF s.side = "left"
                        THEN <<Hash(Joined(prefixes(a).node, s.sibling, c))>>
                        ELSE <<Hash(Joined(prefixes(a).node, c, s.sibling))>>
  BY DEF Parent, Joined
<1>3. QED
  BY <1>1, <1>2

LEMMA LegacyLeaf ==
  \A h : LeafOf(None, h) = h /\ LeafOf(Legacy, h) = h
  BY AlgorithmAssumption DEF LeafOf, prefixes, Legacy, Rfc6962

LEMMA RedeclaredIsCrossed ==
  ASSUME HashIdeal, NoFixpoint, NEW p \in RedeclaredProofs
  PROVE  Crossed(p)
<1>1. PICK h \in HonestProofs : p = Redeclared(h)
  BY DEF RedeclaredProofs
<1>2. PICK a \in {None, Legacy, Rfc6962}, b \in Batches :
        \E k \in DOMAIN b : h = HonestProof(a, b, k)
  BY DEF HonestProofs
<1> PICK k \in DOMAIN b : h = HonestProof(a, b, k)
  BY <1>2
<1> DEFINE r == <<0, Len(b)>>
           N == Nodes(a, b)
           c == IF a = Rfc6962 THEN None ELSE Rfc6962
<1>3. /\ k \in 1 .. Len(b) /\ Len(b) \in Nat \ {0} /\ r \in Ranges(b) /\ b[k] \in Digest
      /\ r[1] = 0 /\ r[2] = Len(b)
  BY BatchFacts
<1>4. /\ p.algorithm = c /\ p.hash = b[k] /\ p.path = PathsOf(a, b, k)[r] /\ p.root = N[r]
  BY <1>1, <1>2 DEF Redeclared, HonestProof, PathOf, RootOf
<1>5. /\ p.path \in Seq(DigestStep) /\ (Len(p.path) > 0 <=> Len(b) > 1)
      /\ Len(p.path) \in Nat
  BY <1>3, <1>4, PathsDerive, LenProperties
<1>6. N[r] \in Digest
  BY <1>3, NodesAreDigests
<1>7. Clean(p)
  BY <1>3, <1>4, <1>5, <1>6 DEF Clean, Supported
<1>8. CASE Len(b) = 1
  <2>1. Len(p.path) = 0 /\ k = 1 /\ N[r] = LeafOf(a, b[k])
    BY <1>3, <1>5, <1>8, NodeIsLeaf
  <2>2. LeafOf(a, b[k]) # LeafOf(c, b[k])
    <3>1. b[k] # LeafOf(Rfc6962, b[k])
      BY DEF NoFixpoint
    <3>2. QED
      BY <1>2, <3>1, LegacyLeaf
  <2>3. QED
    BY <1>4, <1>7, <2>1, <2>2 DEF Crossed
<1>9. CASE Len(b) # 1
  <2>1. Len(p.path) # 0 /\ r[2] # 1
    BY <1>3, <1>5, <1>9
  <2> DEFINE m == prefixes(a).node
             n == prefixes(c).node
             x == N[LeftOf(r)]
             y == N[RightOf(r)]
  <2>2. N[r] = <<Hash(Joined(m, x, y))>>
    BY <1>3, <2>1, BranchIsHash
  <2>3. x \in Digest /\ y \in Digest
    BY <1>3, <2>1, PartsOfRange, NodesAreDigests
  <2>4. m \in Seq(Block) /\ n \in Seq(Block) /\ Len(m) # Len(n)
    BY <1>2, PrefixTypes, AlgorithmAssumption DEF prefixes, Rfc6962, Legacy
  <2>5. ASSUME NEW s \in DigestStep, NEW d \in Digest PROVE p.root # Parent(c, s, d)
    <3>1. PICK u, w \in Digest : Parent(c, s, d) = <<Hash(Joined(n, u, w))>>
      BY ParentIsHash
    <3> HIDE DEF m, n, x, y, N, r, c
    <3>2. Joined(m, x, y) # Joined(n, u, w)
          /\ Joined(m, x, y) \in Seq(Block) /\ Joined(n, u, w) \in Seq(Block)
      <4>1. Len(Joined(m, x, y)) = Len(m) + 2 /\ Len(Joined(n, u, w)) = Len(n) + 2
            /\ Len(m) \in Nat /\ Len(n) \in Nat
            /\ Joined(m, x, y) \in Seq(Block) /\ Joined(n, u, w) \in Seq(Block)
        BY <2>3, <2>4, JoinedLength, LenProperties
      <4>2. QED
        BY <2>4, <4>1
    <3>3. QED
      BY <1>4, <2>2, <3>1, <3>2 DEF HashIdeal
  <2>6. QED
    BY <1>4, <1>7, <2>1, <2>5 DEF Crossed
<1>10. QED
  BY <1>8, <1>9

(* The invariant: a fold that has derived something has derived a leaf or  *)
(* a parent under the construction that is declared.                       *)
CrossedInv ==
  /\ MerkleTypeOK
  /\ proof \in RedeclaredProofs =>
       /\ answer \in {None, "no"} /\ phase # "panic"
       /\ phase = "fold" =>
            /\ current \in Digest
            /\ IF folded = 0 THEN current = LeafOf(proof.algorithm, proof.hash)
               ELSE \E s \in DigestStep : \E c \in Digest :
                      current = Parent(proof.algorithm, s, c)

LEMMA CrossedNext ==
  ASSUME HashIdeal, NoFixpoint, CrossedInv, [MerkleNext]_merkleVars
  PROVE  CrossedInv'
<1>1. MerkleTypeOK'
  BY MerkleTypesNext DEF CrossedInv
<1>2. proof' = proof
  BY DEF MerkleNext, merkleVars, RejectAlgorithm, RejectLeaf, HashLeaf, RejectSibling,
         RejectSide, Climb, RejectRoot, Compare, DecodePanics, Finish
<1>3. CASE UNCHANGED merkleVars
  BY <1>1, <1>3 DEF merkleVars, CrossedInv
<1>4. CASE proof \notin RedeclaredProofs
  <2>1. proof' \notin RedeclaredProofs
    BY <1>2, <1>4
  <2>2. RedeclaredProofs' = RedeclaredProofs
    OBVIOUS
  <2>3. QED
    BY <1>1, <2>1, <2>2 DEF CrossedInv
<1>5. CASE proof \in RedeclaredProofs /\ MerkleNext
  <2>1. /\ Crossed(proof) /\ Clean(proof) /\ MerkleTypeOK
        /\ answer \in {None, "no"} /\ phase # "panic"
    BY <1>5, RedeclaredIsCrossed DEF CrossedInv, Crossed
  <2>2. CASE HashLeaf
    <3>1. /\ current' = LeafOf(proof.algorithm, proof.hash) /\ folded' = 0
          /\ UNCHANGED answer /\ phase' = "fold"
      BY <2>1, <2>2 DEF HashLeaf, MerkleTypeOK
    <3>2. current' \in Digest
      BY <2>1, <3>1, LeafBinds DEF Clean
    <3>3. QED
      BY <1>1, <1>2, <2>1, <3>1, <3>2 DEF CrossedInv
  <2>3. CASE Climb
    <3> DEFINE s == proof.path[folded']
    <3>1. /\ folded' # 0 /\ UNCHANGED <<phase, answer>> /\ phase = "fold"
          /\ current' = Parent(proof.algorithm, s, current) /\ s \in DigestStep
      <4>1. /\ folded' = folded + 1 /\ UNCHANGED <<phase, answer>> /\ phase = "fold"
            /\ current' = Parent(proof.algorithm, proof.path[folded + 1], current)
        BY <2>3 DEF Climb, More, Next1
      <4>2. folded' \in 1 .. Len(proof.path) /\ s \in DigestStep
        BY <1>5, <2>1, <2>3, CleanSteps
      <4>3. QED
        BY <4>1, <4>2
    <3>2. current \in Digest
      BY <1>5, <3>1 DEF CrossedInv
    <3> HIDE DEF s
    <3>3. s.sibling \in Seq(Block)
      BY <3>1 DEF DigestStep, Digest
    <3>4. current' \in Digest
      BY <3>1, <3>2, <3>3, ParentBinds
    <3>5. \E t \in DigestStep : \E c \in Digest : current' = Parent(proof.algorithm, t, c)
      BY <3>1, <3>2
    <3>6. QED
      BY <1>1, <1>2, <2>1, <3>1, <3>4, <3>5 DEF CrossedInv
  <2>4. CASE Compare
    <3>1. phase = "fold" /\ folded = Len(proof.path)
      BY <2>4 DEF Compare, AtRoot
    <3>2. current # proof.root
      BY <1>5, <2>1, <3>1 DEF CrossedInv, Crossed
    <3>3. answer' = "no" /\ phase' = "done"
      BY <2>4, <3>2 DEF Compare, Finish, constant_time_eq
    <3>4. QED
      BY <1>1, <3>3 DEF CrossedInv
  <2>5. QED
    BY <1>5, <2>1, <2>2, <2>3, <2>4, CleanSteps
<1>6. QED
  BY <1>3, <1>4, <1>5

(* A proof that lost or gained its merkle_algorithm is refused, whatever   *)
(* the batch, if no document hash is its own leaf hash.                    *)
THEOREM RedeclaredRefused ==
  ASSUME HashIdeal, NoFixpoint PROVE MerkleSpec => []ConstructionsApart
<1>1. MerkleInit => CrossedInv
  BY MerkleTypesInit DEF MerkleInit, MerkleStart, CrossedInv
<1>2. CrossedInv /\ [MerkleNext]_merkleVars => CrossedInv'
  BY HashIdeal, NoFixpoint, CrossedNext
<1>3. CrossedInv => ConstructionsApart
  BY DEF CrossedInv, ConstructionsApart
<1>4. QED
  BY <1>1, <1>2, <1>3, PTL DEF MerkleSpec

=============================================================================
