--------------------------- MODULE MCVerifyBatch ---------------------------
(***************************************************************************)
(* Constants of the runs of VerifyBatch: batches of up to three documents, *)
(* five authorities, and bundles made of the proof of one leaf, the root   *)
(* of any batch and the token of any other; the tokens the authorities     *)
(* issue, every mixture of the parts of two of them, and each with a part  *)
(* missing or broken.                                                      *)
(***************************************************************************)
EXTENDS VerifyBatch

MCHash(bytes) == <<"sha256", bytes>>
MCZero == <<"byte", 0>>
MCOne == <<"byte", 1>>
Document(d) == <<MCHash(<<<<"text", d>>>>)>>
MCBatches == {[k \in 1 .. n |-> Document(k)] : n \in 1 .. 3}

(* Every document, its hash, and every node of a tree. *)
MCBlock ==
  {Zero, One} \union {<<"text", k>> : k \in 1 .. 4} \union {Document(k)[1] : k \in 1 .. 4}
    \union UNION {{Nodes(a, b)[r][1] : r \in Ranges(b)} : a \in {Legacy, Rfc6962}, b \in MCBatches}

Key(id, alg, curve) == [id |-> id, alg |-> alg, curve |-> curve]
Cert(key, usages) == [choice |-> "certificate", usages |-> usages, key |-> key]
Leaf(key) == Cert(key, {"timeStamping"})
CaCert == Cert(Key("ca", "rsa", Missing), {"ocspSigning"})
OddCert == Cert(Key("odd", "ec", "p256"), Broken)
OtherChoice == [choice |-> "other", usages |-> {"timeStamping"},
                key |-> Key("attribute", "rsa", Missing)]

Sk == Key("sk", "ec", "p256")
Eurocert == Key("eurocert", "rsa", Missing)
Brainpool == Key("brainpool", "ec", "brainpool")
Edwards == Key("edwards", "ed25519", Missing)
Plain == Key("plain", "ec", "p384")

(* The roots of the batches of some sizes, and the tokens' times: a        *)
(* fraction of a second for the batch of three.                            *)
Roots(sizes) == {RootOf(a, b) : a \in {None, Rfc6962},
                                b \in {c \in Batches : Len(c) \in sizes}}
Time(fraction) == [utc |-> TRUE, digits |-> TRUE, fraction |-> fraction, real |-> TRUE]
MCInfoOf(root) ==
  [imprint |-> root, imprintAlg |-> "sha256",
   genTime |-> Time(IF root \in Roots({3}) THEN "digits" ELSE Missing)]

(* The leaf first or last in its chain, or alone and without the usage.  No *)
(* authority has signed every root, and one none of the batch of three.    *)
Authority(key, chain, sizes) ==
  [key |-> key, chain |-> chain, contents |-> {InfoOf(r) : r \in Roots(sizes)}]
MCAuthorities ==
  {Authority(Sk, <<OtherChoice, CaCert, OddCert, Leaf(Sk)>>, {1, 3}),
   Authority(Eurocert, <<Leaf(Eurocert), CaCert>>, {2, 3}),
   Authority(Brainpool, <<Leaf(Brainpool)>>, {1, 3}),
   Authority(Edwards, <<CaCert, Leaf(Edwards)>>, {1, 3}),
   Authority(Plain, <<Cert(Plain, Missing)>>, {1, 2})}

(* Authorities whose tokens are not supported: one with a supported key    *)
(* names its imprint after another hash, one with an RSA key signs with PSS. *)
Sha3InfoOf(root) ==
  [MCInfoOf(root) EXCEPT !.imprintAlg = IF root \in Roots({1}) THEN "sha3-256" ELSE @]
OddAuthorities ==
  {Authority(Sk, <<Leaf(Sk)>>, {1}), Authority(Eurocert, <<Leaf(Eurocert)>>, {2})}

(* A document, and a file that is the preimage of an inner node.           *)
ThreeDocuments == [k \in 1 .. 3 |-> Document(k)]
InnerNode == Nodes(None, ThreeDocuments)[<<0, 2>>]
MCFiles == {Document(1), InnerNode, NoFile, Unreadable}

-----------------------------------------------------------------------------
(* Tokens. *)

TokenChoices ==
  {t \in IssuedTokens :
     /\ Head(t.signers).digestAlg = "sha256"
     /\ Head(t.signers).sigAlg \in {"ecdsa-sha512", "rsa-sha256", "rsa-pss"}
     /\ Head(t.signers).signature.key \in {Sk, Eurocert}}
BadTokens(t) == {Missing, NotBase64, Broken, [t EXCEPT !.signers[1].attrs = Missing],
                 [t EXCEPT !.content.imprint = Document(4)]}
OneToken == CHOOSE t \in TokenChoices : TRUE

BadTimes == {[Time(Missing) EXCEPT !.utc = FALSE], [Time(Missing) EXCEPT !.digits = FALSE],
             Time("other"), [Time("digits") EXCEPT !.real = FALSE]}

(* Mixtures of two tokens: content, attributes, signature or chain of the  *)
(* other one, as long as the signature still parses for the kind of key.   *)
Mixtures(t, u) ==
  LET s == Head(u.signers)
  IN  {t, [t EXCEPT !.content = u.content],
       [t EXCEPT !.signers[1].attrs = s.attrs],
       [t EXCEPT !.signers[1].attrs = s.attrs \o @],
       [t EXCEPT !.signers[1].digestAlg = s.digestAlg],
       [t EXCEPT !.signers[1].attrs = s.attrs, !.content = u.content],
       [t EXCEPT !.signers = u.signers \o @, !.certs = u.certs \o @]}
      \union (IF s.signature.key.alg = Head(t.signers).signature.key.alg
              THEN {[t EXCEPT !.certs = u.certs],
                    [t EXCEPT !.signers[1].signature = s.signature],
                    [t EXCEPT !.signers[1].sigAlg = s.sigAlg]}
              ELSE {})

Damaged(t) ==
  {Broken, [t EXCEPT !.content = Missing], [t EXCEPT !.content = Broken],
   [t EXCEPT !.signers = <<>>], [t EXCEPT !.certs = <<>>],
   [t EXCEPT !.certs = <<OtherChoice>>], [t EXCEPT !.certs[1].key.id = Broken],
   [t EXCEPT !.signers[1].attrs = Missing],
   [t EXCEPT !.signers[1].attrs = <<>>],
   [t EXCEPT !.signers[1].attrs[2].value = Missing],
   [t EXCEPT !.signers[1].attrs[2].value = Broken],
   [t EXCEPT !.signers[1].signature = Broken]}
  \union {[t EXCEPT !.content.genTime = bad] : bad \in BadTimes}

(* Tokens of two roots; mixtures with one choice of content and algorithms *)
(* of each second key are enough, as the first token has them all.         *)
Mixed ==
  {t \in IssuedTokens :
     t.content.imprint \in {RootOf(Rfc6962, b) : b \in {c \in Batches : Len(c) # 2}}}
Partners == {u \in Mixed : u.content.genTime.fraction = "digits"
                             /\ Head(u.signers).digestAlg = "sha512"
                             /\ Head(u.signers).sigAlg \in {"ecdsa-sha256", "rsa-sha512", "ed25519"}}
OddTokens ==
  UNION {Mixtures(t, u) : t \in Mixed, u \in Partners} \union UNION {Damaged(t) : t \in Mixed}

-----------------------------------------------------------------------------
(* Bundles. *)

BadProofs ==
  {[p EXCEPT !.path = <<[sibling |-> Document(4), side |-> "left"]>> \o @] : p \in HonestProofs}
    \union {[p EXCEPT !.hash = Document(4)] : p \in HonestProofs}
    \union {[p EXCEPT !.root = BadHex] : p \in HonestProofs}
    \union {[p EXCEPT !.hash = SplitChar] : p \in HonestProofs}
    \union {[p EXCEPT !.algorithm = "sha3-512-tree"] : p \in HonestProofs}

OneProof == HonestProof(Rfc6962, <<Document(1)>>, 1)

(* Proofs that begin at an inner node of a legacy tree, inside two sibling *)
(* nodes, and below a document, under every declared algorithm.            *)
EnteringProofs ==
  LET above == [sibling |-> Document(3), side |-> "right"]
      beside == [sibling |-> Document(2), side |-> "right"]
      nothing == [sibling |-> <<>>, side |-> "left"]
      starts == {[hash |-> InnerNode, path |-> <<above>>],
                 [hash |-> Document(1) \o Document(2), path |-> <<nothing, above>>],
                 [hash |-> <<<<"text", 1>>>>, path |-> <<nothing, beside, above>>]}
  IN  {[hash |-> s.hash, path |-> s.path, root |-> RootOf(None, ThreeDocuments), algorithm |-> a] :
         s \in starts, a \in {None, Legacy, Rfc6962}}

(* Handed-out bundles with a plus sign in the hash, the root or both.      *)
PlusBundles ==
  {[Bundle(OneProof, t) EXCEPT !.plus = plus] :
     t \in TokenChoices \intersect TokensOf(OneProof.root),
     plus \in SUBSET {"hash", "root"} \ {{}}}

MCBundles ==
  {Bundle(p, t) : p \in HonestProofs, t \in TokenChoices \union BadTokens(OneToken)}
    \union {Bundle(p, t) : p \in RedeclaredProofs \union BadProofs, t \in TokenChoices}
    \union {Bundle(OneProof, t) : t \in OddTokens}
    \union {Bundle(p, t) : p \in EnteringProofs, t \in TokenChoices}
    \union PlusBundles
    \union UNION {{b \in {Bundle(p, t) : t \in TokensOf(p.root)} : Handed(b)} : p \in HonestProofs}

OddBundles == {Bundle(p, OneToken) : p \in BadProofs}

SomeBundles == {Bundle(p, t) : p \in HonestProofs, t \in IssuedTokens}

=============================================================================
