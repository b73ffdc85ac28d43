----------------------------- MODULE TokenProofs -----------------------------
(***************************************************************************)
(* Proofs about the check of a token as verify runs it, for tokens of      *)
(* every kind: any number of signers, certificates and attributes.         *)
(***************************************************************************)
EXTENDS VerifyProofs, TsaTokens, WellFoundedInduction

LEMMA LeastExists ==
  ASSUME NEW S, S \subseteq Nat, S # {}
  PROVE  First(S) \in S /\ \A j \in S : First(S) <= j
<1> DEFINE L == {ss \in Nat \X Nat : ss[1] < ss[2]}
<1>1. IsWellFoundedOn(L, Nat)
  BY NatLessThanWellFounded DEF OpToRel
<1>2. PICK k \in S : \A j \in S : ~(<<j, k>> \in L)
  BY <1>1, WFMin
<1>3. ASSUME NEW j \in S PROVE k <= j
  <2>1. j \in Nat /\ k \in Nat /\ ~(j < k)
    BY <1>2
  <2>2. QED
    BY <2>1
<1>4. QED
  BY <1>3 DEF First

(* The certificates of a token that parses are certificates.               *)
Certified(t) ==
  Parsed(t) => \A k \in DOMAIN t.certs : k \in Nat /\ t.certs[k] # Missing

LEMMA SignerIsCandidate ==
  ASSUME Certified(token), Parsed(token), Candidates # {}
  PROVE  find_signer_cert \in Candidates /\ token.certs[find_signer_cert] # Missing
<1> DEFINE T == {k \in Candidates : has_timestamping_eku(token.certs[k])}
           S == IF T = {} THEN Candidates ELSE T
<1>1. Candidates \subseteq Nat /\ \A k \in Candidates : token.certs[k] # Missing
  BY DEF Certified, Candidates
<1>2. S \subseteq Nat /\ S # {} /\ S \subseteq Candidates
  BY <1>1
<1>3. find_signer_cert = First(S)
  BY DEF find_signer_cert
<1> HIDE DEF S
<1>4. First(S) \in S
  BY <1>2, LeastExists
<1>5. QED
  BY <1>1, <1>2, <1>3, <1>4

-----------------------------------------------------------------------------
(* The invariant: what is past a check of the token has passed it.         *)
InspectInv ==
  /\ TokenTypeOK
  /\ step \notin {"idle", "done"} => Certified(token) /\ token \notin {Missing, NotBase64}
  /\ step \in {"signer", "digest", "signature"} => Readable /\ Parsed(token)
  /\ step \in {"digest", "signature"} =>
       token.signers # <<>> /\ Candidates # {} /\ cert = token.certs[find_signer_cert]
  /\ step = "signature" => Signer.attrs # Missing /\ Signer.digestAlg \in Digests

LEMMA SameToken ==
  ASSUME token' = token
  PROVE  /\ Readable' = Readable /\ Candidates' = Candidates /\ Signer' = Signer
         /\ find_signer_cert' = find_signer_cert /\ digest_bound' = digest_bound
  BY DEF Readable, Candidates, Signer, find_signer_cert, digest_bound, MessageDigests

LEMMA InspectNext ==
  ASSUME InspectInv, TokenNext
  PROVE  InspectInv'
<1> USE DEF InspectInv
<1>1. ASSUME NEW f \in {"valid", "invalid", "malformed", "unsupported"}, Conclude(f)
      PROVE  InspectInv'
  BY <1>1, MissingAssumption DEF Conclude, TokenTypeOK
<1>2. CASE RejectContent \/ RejectSigner \/ RejectAttributes \/ RejectDigestAlgorithm
             \/ RejectMessageDigest \/ Unbound \/ RejectKey
  BY <1>1, <1>2 DEF RejectContent, RejectSigner, RejectAttributes, RejectDigestAlgorithm,
                    RejectMessageDigest, Unbound, RejectKey
<1>3. CASE verify_ecdsa
  BY <1>1, <1>3 DEF verify_ecdsa
<1>4. CASE verify_rsa
  BY <1>1, <1>4 DEF verify_rsa
<1>5. CASE ReadContent
  <2>1. step = "content" /\ step' = "signer" /\ Readable /\ UNCHANGED <<token, cert, finding>>
    BY <1>5 DEF ReadContent, Proceed
  <2>2. Parsed(token)
    BY <2>1 DEF Readable, Parsed
  <2>3. QED
    BY <2>1, <2>2, SameToken DEF TokenTypeOK
<1>6. CASE ChooseSigner
  <2>1. /\ step = "signer" /\ step' = "digest" /\ UNCHANGED <<token, finding>>
        /\ token.signers # <<>> /\ Candidates # {} /\ cert' = token.certs[find_signer_cert]
    BY <1>6 DEF ChooseSigner, Proceed
  <2>2. cert' # Missing
    BY <2>1, SignerIsCandidate
  <2>3. QED
    BY <2>1, <2>2, SameToken DEF TokenTypeOK
<1>7. CASE Bound
  <2>1. /\ step = "digest" /\ step' = "signature" /\ UNCHANGED <<token, cert, finding>>
        /\ Signer.attrs # Missing /\ Signer.digestAlg \in Digests /\ digest_bound
    BY <1>7 DEF Bound, WellDigested, Digestible, Proceed
  <2>2. QED
    BY <2>1, SameToken DEF TokenTypeOK
<1>8. QED
  BY <1>2, <1>3, <1>4, <1>5, <1>6, <1>7 DEF TokenNext

(* verify runs it once, on the token of the bundle. *)
VerifyTokenInv ==
  /\ VerifyInv /\ InspectInv
  /\ proof \in Proofs
  /\ stage \in {"read", "merkle", "token"} => step = "idle"

LEMMA TokenVarsKept ==
  ASSUME InspectInv, UNCHANGED tokenVars
  PROVE  InspectInv'
<1>1. token' = token /\ UNCHANGED <<step, cert, finding>>
  BY DEF tokenVars
<1>2. QED
  BY <1>1, SameToken DEF InspectInv, TokenTypeOK

(* Every step of verify inspects, decodes the token, or leaves it alone.   *)
LEMMA VerifySteps ==
  ASSUME [VerifyNext]_verifyVars
  PROVE  \/ InspectStep \/ DecodeToken
         \/ UNCHANGED tokenVars /\ (stage' \in {"read", "merkle", "token"} =>
                                     stage \in {"read", "merkle", "token"})
<1>1. CASE RejectInput \/ FoldAborts \/ Report
  BY <1>1 DEF RejectInput, FoldAborts, Report, Exit
<1>2. CASE CheckDocument \/ CheckInclusion \/ RejectToken \/ CheckTimestamp
  BY <1>2 DEF CheckDocument, CheckInclusion, RejectToken, CheckTimestamp, Record
<1>3. CASE FoldStep
  BY <1>3 DEF FoldStep
<1>4. CASE UNCHANGED verifyVars
  BY <1>4 DEF verifyVars
<1>5. QED
  BY <1>1, <1>2, <1>3, <1>4 DEF VerifyNext

LEMMA VerifyKeepsProof ==
  ASSUME [VerifyNext]_verifyVars
  PROVE  proof' = proof /\ [MerkleNext]_merkleVars
<1>1. CASE RejectInput \/ FoldAborts \/ Report
  BY <1>1 DEF RejectInput, FoldAborts, Report, Exit, merkleVars
<1>2. CASE CheckDocument \/ CheckInclusion \/ RejectToken \/ CheckTimestamp
  BY <1>2 DEF CheckDocument, CheckInclusion, RejectToken, CheckTimestamp, Record, merkleVars
<1>3. CASE FoldStep
  BY <1>3, ProofKept DEF FoldStep
<1>4. CASE DecodeToken \/ InspectStep
  BY <1>4 DEF DecodeToken, InspectStep, merkleVars
<1>5. CASE UNCHANGED verifyVars
  BY <1>5 DEF verifyVars, merkleVars
<1>6. QED
  BY <1>1, <1>2, <1>3, <1>4, <1>5 DEF VerifyNext

LEMMA TokenDecoded ==
  ASSUME VerifyTokenInv, DecodeToken
  PROVE  /\ token' = proof.token /\ step' = "content" /\ finding' = Missing
         /\ UNCHANGED cert /\ stage' = "inspect" /\ InspectInv'
<1>1. /\ stage = "token" /\ stage' = "inspect" /\ Decodes(proof.token)
      /\ token' = proof.token /\ step' = "content" /\ UNCHANGED <<cert, finding>>
  BY DEF DecodeToken, TokenStart
<1>2. finding = Missing /\ proof \in Proofs
  BY <1>1 DEF VerifyTokenInv, VerifyInv, StageInv
<1>3. Certified(token')
  BY <1>1, <1>2, TokenAssumption DEF Certified
<1>4. TokenTypeOK'
  BY <1>1, <1>2 DEF TokenTypeOK
<1>5. QED
  BY <1>1, <1>2, <1>3, <1>4 DEF InspectInv, Decodes

LEMMA VerifyTokenNext ==
  ASSUME VerifyTokenInv, [VerifyNext]_verifyVars
  PROVE  VerifyTokenInv'
<1>1. VerifyInv' /\ proof' \in Proofs
  BY VerifyInvNext, VerifyKeepsProof DEF VerifyTokenInv
<1>2. CASE InspectStep
  BY <1>1, <1>2, InspectNext DEF InspectStep, VerifyTokenInv
<1>3. CASE DecodeToken
  BY <1>1, <1>3, TokenDecoded DEF VerifyTokenInv
<1>4. CASE /\ UNCHANGED tokenVars
           /\ stage' \in {"read", "merkle", "token"} => stage \in {"read", "merkle", "token"}
  BY <1>1, <1>4, TokenVarsKept DEF VerifyTokenInv, tokenVars
<1>5. QED
  BY <1>2, <1>3, <1>4, VerifySteps

LEMMA VerifyTokenInit == VerifyInit => VerifyTokenInv
<1>1. SUFFICES ASSUME VerifyInit PROVE VerifyTokenInv
  OBVIOUS
<1>2. VerifyInv
  BY <1>1, VerifyInvInit
<1>3. /\ proof \in Proofs /\ step = "idle" /\ finding = Missing /\ stage = "read"
  BY <1>1 DEF VerifyInit, MerkleInit, MerkleStart
<1>4. QED
  BY <1>2, <1>3 DEF VerifyTokenInv, InspectInv, TokenTypeOK

LEMMA VerifyTokenInvariant == VerifySpec => []VerifyTokenInv
<1>1. VerifyTokenInv /\ [VerifyNext]_verifyVars => VerifyTokenInv'
  BY VerifyTokenNext
<1>2. QED
  BY <1>1, VerifyTokenInit, PTL DEF VerifySpec

(* inspect concludes once, and looks at a signature only after it has      *)
(* chosen a certificate and found the attributes to bind the content: for  *)
(* tokens of every number of signers, certificates and attributes.         *)
THEOREM TokenTypes == VerifySpec => []TokenTypeOK
<1>1. VerifyTokenInv => TokenTypeOK
  BY DEF VerifyTokenInv, InspectInv
<1>2. QED
  BY <1>1, VerifyTokenInvariant, PTL

-----------------------------------------------------------------------------
(* The tokens the authorities issue. *)

(* What parses is not absent, and no bytes that do not decode.             *)
ParsedIsApart ==
  /\ \A c, g, s : [content |-> c, certs |-> g, signers |-> s] \notin {Missing, NotBase64, Broken}
  /\ \A x, k, d : [scheme |-> x, key |-> k, digest |-> d] # Broken
  /\ \A x, y : <<x, y>> # Missing
  /\ \A a, x : DigestOf(a, x) \notin {Missing, Broken}

AttrsOf(d, c) == <<[type |-> "contentType", value |-> "TSTInfo"],
                   [type |-> "messageDigest", value |-> DigestOf(d, c)]>>

IsIssued(t, a, c, d, s) ==
  LET signer == Head(t.signers)
      how == SignatureAlgorithms[s]
  IN  /\ t.content = c /\ t.certs = a.chain /\ t.signers # <<>>
      /\ t = [content |-> t.content, certs |-> t.certs, signers |-> t.signers]
      /\ signer.digestAlg = d /\ signer.sigAlg = s /\ signer.attrs = AttrsOf(d, c)
      /\ signer.signature = [scheme |-> how.scheme, key |-> a.key,
                             digest |-> DigestOf(how.digest, tbs(AttrsOf(d, c)))]

LEMMA IssuedIs ==
  ASSUME NEW t \in IssuedTokens
  PROVE  \E a \in Authorities : \E c \in a.contents : \E d : \E s \in Allowed(a.key) :
           IsIssued(t, a, c, d, s)
<1>1. PICK a \in Authorities : \E c \in a.contents, d \in {"sha1", "sha256", "sha512"},
                                  s \in Allowed(a.key) : t = Issue(a, c, d, s)
  BY DEF IssuedTokens
<1>2. PICK c \in a.contents, d \in {"sha1", "sha256", "sha512"}, s \in Allowed(a.key) :
        t = Issue(a, c, d, s)
  BY <1>1
<1>3. IsIssued(t, a, c, d, s)
  <2> DEFINE how == SignatureAlgorithms[s]
             sig == [scheme |-> how.scheme, key |-> a.key,
                     digest |-> DigestOf(how.digest, tbs(AttrsOf(d, c)))]
             signer == [digestAlg |-> d, sigAlg |-> s, attrs |-> AttrsOf(d, c),
                        signature |-> sig]
  <2>1. t = [content |-> c, certs |-> a.chain, signers |-> <<signer>>]
    BY <1>2 DEF Issue, AttrsOf, tbs
  <2>2. Head(<<signer>>) = signer /\ <<signer>> # <<>>
    OBVIOUS
  <2>3. /\ signer.digestAlg = d /\ signer.sigAlg = s /\ signer.attrs = AttrsOf(d, c)
        /\ signer.signature = sig
    OBVIOUS
  <2> HIDE DEF signer
  <2>4. t.content = c /\ t.certs = a.chain /\ t.signers = <<signer>>
    BY <2>1
  <2>5. QED
    BY <2>1, <2>2, <2>3, <2>4 DEF IsIssued
<1>4. QED
  BY <1>3

(* The one messageDigest of an issued token. *)
LEMMA AttrsFacts ==
  ASSUME NEW d, NEW c
  PROVE  /\ DOMAIN AttrsOf(d, c) = {1, 2}
         /\ AttrsOf(d, c)[1].type = "contentType" /\ AttrsOf(d, c)[2].type = "messageDigest"
         /\ AttrsOf(d, c)[2].value = DigestOf(d, c)
  BY DEF AttrsOf

LEMMA AlgorithmFacts ==
  /\ \A s \in DOMAIN SignatureAlgorithms :
       /\ SignatureAlgorithms[s].scheme = "ecdsa" <=> SignatureAlgorithms[s].alg = "ec"
       /\ SignatureAlgorithms[s].scheme = "pkcs1" => SignatureAlgorithms[s].alg = "rsa"
       /\ SignatureAlgorithms[s].alg = "ec" /\ SignatureAlgorithms[s].digest \in Digests =>
            s \in DOMAIN EcdsaDigest /\ EcdsaDigest[s] = SignatureAlgorithms[s].digest
  /\ \A s \in DOMAIN EcdsaDigest : EcdsaDigest[s] \in Digests
<1>1. /\ DOMAIN SignatureAlgorithms = {"ecdsa-sha256", "ecdsa-sha512", "ecdsa-sha3",
                                       "rsa-sha256", "rsa-sha512", "rsa-pss", "ed25519"}
      /\ DOMAIN EcdsaDigest = {"ecdsa-sha256", "ecdsa-sha384", "ecdsa-sha512"}
  BY DEF SignatureAlgorithms, EcdsaDigest
<1>2. /\ SignatureAlgorithms["ecdsa-sha256"] = [alg |-> "ec", scheme |-> "ecdsa", digest |-> "sha256"]
      /\ SignatureAlgorithms["ecdsa-sha512"] = [alg |-> "ec", scheme |-> "ecdsa", digest |-> "sha512"]
      /\ SignatureAlgorithms["ecdsa-sha3"] = [alg |-> "ec", scheme |-> "ecdsa", digest |-> "sha3"]
      /\ SignatureAlgorithms["rsa-sha256"] = [alg |-> "rsa", scheme |-> "pkcs1", digest |-> "sha256"]
      /\ SignatureAlgorithms["rsa-sha512"] = [alg |-> "rsa", scheme |-> "pkcs1", digest |-> "sha512"]
      /\ SignatureAlgorithms["rsa-pss"] = [alg |-> "rsa", scheme |-> "pss", digest |-> "sha256"]
      /\ SignatureAlgorithms["ed25519"] = [alg |-> "ed25519", scheme |-> "eddsa", digest |-> "sha512"]
  BY DEF SignatureAlgorithms
<1>3. /\ EcdsaDigest["ecdsa-sha256"] = "sha256" /\ EcdsaDigest["ecdsa-sha384"] = "sha384"
      /\ EcdsaDigest["ecdsa-sha512"] = "sha512"
  BY DEF EcdsaDigest
<1>4. QED
  BY <1>1, <1>2, <1>3 DEF Digests

-----------------------------------------------------------------------------
(* What a valid signature is worth. *)

(* The signatures in the bundles are those of issued tokens, in whatever   *)
(* mixture: nobody has made one without the key.                           *)
SignaturesAreIssued ==
  \A p \in Proofs : Parsed(p.token) /\ p.token.signers # <<>> =>
    LET signature == Head(p.token.signers).signature
    IN  signature = Broken \/ \E t \in IssuedTokens : Head(t.signers).signature = signature

Vouched ==
  \E t \in IssuedTokens : /\ t.content = token.content
                          /\ Head(t.signers).signature.key = cert.key
                          /\ SupportedSignature(t)

LEMMA SignedBy ==
  ASSUME ParsedIsApart, SignaturesAreIssued, VerifyTokenInv,
         stage = "inspect", step = "signature",
         NEW scheme \in {"ecdsa", "pkcs1"}, NEW alg \in Digests,
         scheme = "ecdsa" => cert.key.curve \in Curves,
         scheme = "pkcs1" => cert.key.alg = "rsa",
         Signer.signature = [scheme |-> scheme, key |-> cert.key,
                             digest |-> DigestOf(alg, tbs(Signer.attrs))]
  PROVE  Vouched
<1>1. /\ token = proof.token /\ proof \in Proofs /\ Parsed(token) /\ token.signers # <<>>
      /\ digest_bound /\ Signer.digestAlg \in Digests
  BY DEF VerifyTokenInv, VerifyInv, StageInv, InspectInv, TokenTypeOK
<1>2. Signer.signature # Broken
  BY DEF ParsedIsApart
<1>3. PICK t \in IssuedTokens : Head(t.signers).signature = Signer.signature
  BY <1>1, <1>2 DEF SignaturesAreIssued, Signer
<1>4. PICK a \in Authorities : \E c \in a.contents : \E d : \E s \in Allowed(a.key) :
             IsIssued(t, a, c, d, s)
  BY IssuedIs
<1>5. PICK c \in a.contents : \E d : \E s \in Allowed(a.key) : IsIssued(t, a, c, d, s)
  BY <1>4
<1> PICK d : \E s \in Allowed(a.key) : IsIssued(t, a, c, d, s)
  BY <1>5
<1> PICK s \in Allowed(a.key) : IsIssued(t, a, c, d, s)
  OBVIOUS
<1> DEFINE how == SignatureAlgorithms[s]
           x == tbs(AttrsOf(d, c))
           y == tbs(Signer.attrs)
           sig == Head(t.signers).signature
<1>6. sig = [scheme |-> how.scheme, key |-> a.key, digest |-> DigestOf(how.digest, x)]
  BY DEF IsIssued
<1>7. sig = [scheme |-> scheme, key |-> cert.key, digest |-> DigestOf(alg, y)]
  BY <1>3
<1>8. /\ sig.key = a.key /\ a.key = cert.key /\ how.scheme = scheme
      /\ DigestOf(how.digest, x) = DigestOf(alg, y)
  <2> HIDE DEF sig, how, x, y
  <2>1. /\ sig.scheme = how.scheme /\ sig.key = a.key /\ sig.digest = DigestOf(how.digest, x)
    BY <1>6
  <2>2. /\ sig.scheme = scheme /\ sig.key = cert.key /\ sig.digest = DigestOf(alg, y)
    BY <1>7
  <2>3. QED
    BY <2>1, <2>2
<1>9. how.digest = alg /\ x = y
  <2> HIDE DEF how, x, y
  <2>1. DigestOf(how.digest, x).alg = how.digest /\ DigestOf(how.digest, x).data = x
        /\ DigestOf(alg, y).alg = alg /\ DigestOf(alg, y).data = y
    BY DEF DigestOf
  <2>2. QED
    BY <1>8, <2>1
<1>10. AttrsOf(d, c) = Signer.attrs
  <2>1. x.attrs = AttrsOf(d, c) /\ y.attrs = Signer.attrs
    BY DEF tbs
  <2>2. QED
    BY <1>9, <2>1
<1>11. DigestOf(d, c) = DigestOf(Signer.digestAlg, token.content)
  <2>1. PICK k \in MessageDigests :
          Signer.attrs[k].value = DigestOf(Signer.digestAlg, token.content)
    BY <1>1 DEF digest_bound
  <2>2. k \in DOMAIN AttrsOf(d, c) /\ AttrsOf(d, c)[k].type = "messageDigest"
    BY <1>10 DEF MessageDigests
  <2>3. k = 2
    BY <2>2, AttrsFacts
  <2>4. QED
    BY <1>10, <2>1, <2>3, AttrsFacts
<1>12. d = Signer.digestAlg /\ c = token.content
  BY <1>11 DEF DigestOf
<1>13. SupportedSignature(t)
  <2>1. Head(t.signers).digestAlg = d /\ Head(t.signers).sigAlg = s
    BY DEF IsIssued
  <2>2. sig.key.curve \in Curves \union {Missing}
    BY <1>8, KeyAssumption
  <2>3. QED
    BY <1>1, <1>8, <1>9, <1>12, <2>1, <2>2 DEF SupportedSignature
<1>14. t.content = token.content
  BY <1>12 DEF IsIssued
<1>15. QED
  BY <1>8, <1>13, <1>14 DEF Vouched

LEMMA VouchedNext ==
  ASSUME ParsedIsApart, SignaturesAreIssued, VerifyTokenInv, ValidIsSigned,
         [VerifyNext]_verifyVars
  PROVE  ValidIsSigned'
<1>1. ASSUME UNCHANGED <<token, cert>>, finding' = "valid", Vouched PROVE ValidIsSigned'
  BY <1>1 DEF ValidIsSigned, Vouched
<1>2. CASE InspectStep
  <2>1. stage = "inspect" /\ TokenNext
    BY <1>2 DEF InspectStep
  <2>2. step # "done" => finding = Missing
    BY DEF VerifyTokenInv, InspectInv, TokenTypeOK
  <2>3. ASSUME NEW f, f # "valid", Conclude(f) PROVE ValidIsSigned'
    BY <2>3 DEF Conclude, ValidIsSigned
  <2>4. CASE RejectContent \/ RejectSigner \/ RejectAttributes \/ RejectDigestAlgorithm
               \/ RejectMessageDigest \/ Unbound \/ RejectKey
    BY <2>3, <2>4 DEF RejectContent, RejectSigner, RejectAttributes, RejectDigestAlgorithm,
                      RejectMessageDigest, Unbound, RejectKey
  <2>5. CASE ReadContent \/ ChooseSigner \/ Bound
    <3>1. finding' = Missing
      BY <2>2, <2>5 DEF ReadContent, ChooseSigner, Bound, WellDigested, Digestible, Proceed
    <3>2. QED
      BY <3>1, MissingAssumption DEF ValidIsSigned
  <2>6. CASE verify_ecdsa
    <3>1. /\ step = "signature" /\ UNCHANGED <<token, cert>>
          /\ finding' = "valid" =>
               /\ Signer.sigAlg \in DOMAIN EcdsaDigest /\ cert.key.curve \in Curves
               /\ Signer.signature = EcdsaMade
      BY <2>6 DEF verify_ecdsa, Conclude
    <3>2. SUFFICES ASSUME finding' = "valid" PROVE ValidIsSigned'
      BY DEF ValidIsSigned
    <3>3. EcdsaDigest[Signer.sigAlg] \in Digests
      BY <3>1, <3>2, AlgorithmFacts
    <3>4. Vouched
      BY <2>1, <3>1, <3>2, <3>3, SignedBy DEF EcdsaMade
    <3>5. QED
      BY <1>1, <3>1, <3>2, <3>4
  <2>7. CASE verify_rsa
    <3>1. /\ step = "signature" /\ UNCHANGED <<token, cert>> /\ cert.key.alg = "rsa"
          /\ finding' = "valid" => Signer.signature = RsaMade
      BY <2>7 DEF verify_rsa, Conclude
    <3>2. SUFFICES ASSUME finding' = "valid" PROVE ValidIsSigned'
      BY DEF ValidIsSigned
    <3>3. Signer.digestAlg \in Digests
      BY <3>1 DEF VerifyTokenInv, InspectInv
    <3>4. Vouched
      BY <2>1, <3>1, <3>2, <3>3, SignedBy DEF RsaMade
    <3>5. QED
      BY <1>1, <3>1, <3>2, <3>4
  <2>8. QED
    BY <2>1, <2>4, <2>5, <2>6, <2>7 DEF TokenNext
<1>3. CASE DecodeToken
  BY <1>3, TokenDecoded, MissingAssumption DEF ValidIsSigned
<1>4. CASE UNCHANGED tokenVars
  BY <1>4 DEF tokenVars, ValidIsSigned
<1>5. QED
  BY <1>2, <1>3, <1>4, VerifySteps

(* "valid" means that the key in the chosen certificate has signed this    *)
(* very TSTInfo with supported algorithms: no mixture of the parts of any  *)
(* number of issued tokens passes.                                         *)
THEOREM ValidSignaturesSign ==
  ASSUME ParsedIsApart, SignaturesAreIssued
  PROVE  VerifySpec => []ValidIsSigned
<1>1. VerifyInit => ValidIsSigned
  BY MissingAssumption DEF VerifyInit, ValidIsSigned
<1>2. VerifyTokenInv /\ ValidIsSigned /\ [VerifyNext]_verifyVars => ValidIsSigned'
  BY ParsedIsApart, SignaturesAreIssued, VouchedNext
<1>3. QED
  BY <1>1, <1>2, VerifyTokenInvariant, PTL DEF VerifySpec

-----------------------------------------------------------------------------
(* What a supported token is given. *)

Checkable(t) == t \in IssuedTokens /\ SupportedSignature(t) /\ OneRsaDigest(t)

LEMMA OwnIsChosen ==
  ASSUME NEW k \in DOMAIN token.certs, Own(token.certs, k), DOMAIN token.certs \subseteq Nat
  PROVE  Candidates # {} /\ find_signer_cert = k
<1> DEFINE T == {j \in Candidates : has_timestamping_eku(token.certs[j])}
           S == IF T = {} THEN Candidates ELSE T
<1>1. S \subseteq Nat /\ k \in Candidates /\ find_signer_cert = First(S)
  BY DEF Own, Candidates, find_signer_cert
<1>2. k \in S /\ \A j \in S : k <= j
  <2>1. CASE has_timestamping_eku(token.certs[k])
    <3>1. k \in T /\ S = T
      BY <1>1, <2>1
    <3>2. ASSUME NEW j \in T PROVE k <= j
      <4>1. ~(j < k) /\ j \in Nat /\ k \in Nat
        BY <1>1, <2>1, <3>1 DEF Own, Candidates
      <4>2. QED
        BY <4>1
    <3>3. QED
      BY <3>1, <3>2
  <2>2. CASE ~has_timestamping_eku(token.certs[k])
    <3>1. T = {} /\ \A j \in Candidates : k <= j
      BY <2>2 DEF Own, Candidates
    <3>2. QED
      BY <1>1, <3>1
  <2>3. QED
    BY <2>1, <2>2
<1> HIDE DEF S
<1>3. First(S) \in S /\ First(S) <= k
  BY <1>1, <1>2, LeastExists
<1>4. First(S) \in Nat /\ k \in Nat /\ k <= First(S)
  BY <1>1, <1>2, <1>3
<1>5. QED
  BY <1>1, <1>3, <1>4

(* Nothing that inspect could reject such a token for is there.            *)
LEMMA NothingToReject ==
  ASSUME ParsedIsApart, Checkable(token)
  PROVE  /\ Readable /\ token.signers # <<>> /\ Candidates # {}
         /\ Signer.attrs # Missing /\ Signer.digestAlg \in Digests
         /\ \A k \in MessageDigests : Signer.attrs[k].value \notin {Missing, Broken}
         /\ digest_bound
         /\ LET key == token.certs[find_signer_cert].key
                made(scheme, alg) ==
                  [scheme |-> scheme, key |-> key, digest |-> DigestOf(alg, tbs(Signer.attrs))]
            IN  /\ key.id # Broken /\ Signer.signature # Broken
                /\ \/ /\ key.alg = "ec" /\ key.curve \in Curves
                      /\ Signer.sigAlg \in DOMAIN EcdsaDigest
                      /\ Signer.signature = made("ecdsa", EcdsaDigest[Signer.sigAlg])
                   \/ /\ key.alg = "rsa"
                      /\ Signer.signature = made("pkcs1", Signer.digestAlg)
<1>1. PICK a \in Authorities : \E c \in a.contents : \E d : \E s \in Allowed(a.key) :
             IsIssued(token, a, c, d, s)
  BY IssuedIs DEF Checkable
<1>2. PICK c \in a.contents : \E d : \E s \in Allowed(a.key) : IsIssued(token, a, c, d, s)
  BY <1>1
<1> PICK d : \E s \in Allowed(a.key) : IsIssued(token, a, c, d, s)
  BY <1>2
<1> PICK s \in Allowed(a.key) : IsIssued(token, a, c, d, s)
  OBVIOUS
<1> DEFINE how == SignatureAlgorithms[s]
<1>3. /\ token.content = c /\ token.certs = a.chain /\ token.signers # <<>>
      /\ token = [content |-> token.content, certs |-> token.certs, signers |-> token.signers]
      /\ Signer.digestAlg = d /\ Signer.sigAlg = s /\ Signer.attrs = AttrsOf(d, c)
      /\ Signer.signature = [scheme |-> how.scheme, key |-> a.key,
                             digest |-> DigestOf(how.digest, tbs(Signer.attrs))]
  BY DEF IsIssued, Signer
<1>4. Readable
  <2>1. token # Broken
    BY <1>3 DEF ParsedIsApart
  <2>2. QED
    BY <1>3, <2>1, ContentAssumption DEF Readable, parse_generalized_time
<1>5. PICK k \in DOMAIN a.chain : Own(a.chain, k) /\ a.chain[k].key = a.key
  BY ChainAssumption
<1>6. Candidates # {} /\ find_signer_cert = k /\ token.certs[find_signer_cert].key = a.key
  BY <1>3, <1>5, OwnIsChosen, ChainAssumption
<1>7. MessageDigests = {2} /\ Signer.attrs[2].value = DigestOf(d, c) /\ Signer.attrs # Missing
  <2>1. Signer.attrs # Missing
    BY <1>3 DEF AttrsOf, ParsedIsApart
  <2>2. QED
    BY <1>3, <2>1, AttrsFacts DEF MessageDigests
<1>8. digest_bound /\ \A j \in MessageDigests : Signer.attrs[j].value \notin {Missing, Broken}
  BY <1>3, <1>7 DEF digest_bound, ParsedIsApart
<1>9. /\ how.scheme \in {"ecdsa", "pkcs1"} /\ how.digest \in Digests /\ d \in Digests
      /\ a.key.curve \in Curves \union {Missing}
      /\ how.scheme = "pkcs1" => d = how.digest
  <2>1. Head(token.signers) = Signer
    BY DEF Signer
  <2>2. Signer.signature.key = a.key /\ Signer.signature.scheme = how.scheme
    BY <1>3
  <2>3. QED
    BY <1>3, <2>1, <2>2 DEF Checkable, SupportedSignature, OneRsaDigest
<1>10. s \in DOMAIN SignatureAlgorithms /\ how.alg = a.key.alg
  BY DEF Allowed
<1>11. a.key.id # Broken /\ Signer.signature # Broken
  BY <1>3, KeyAssumption DEF ParsedIsApart
<1>12. CASE how.scheme = "ecdsa"
  <2>1. a.key.alg = "ec" /\ s \in DOMAIN EcdsaDigest /\ EcdsaDigest[s] = how.digest
    BY <1>9, <1>10, <1>12, AlgorithmFacts
  <2>2. a.key.curve \in Curves
    BY <1>9, <2>1, KeyAssumption
  <2>3. QED
    BY <1>3, <1>4, <1>6, <1>7, <1>8, <1>9, <1>11, <1>12, <2>1, <2>2
<1>13. CASE how.scheme = "pkcs1"
  <2>1. a.key.alg = "rsa"
    BY <1>10, <1>13, AlgorithmFacts
  <2>2. QED
    BY <1>3, <1>4, <1>6, <1>7, <1>8, <1>9, <1>11, <1>13, <2>1
<1>14. QED
  BY <1>9, <1>12, <1>13

LEMMA SupportedNext ==
  ASSUME ParsedIsApart, VerifyTokenInv, SupportedIsValid, [VerifyNext]_verifyVars
  PROVE  SupportedIsValid'
<1>1. SUFFICES ASSUME Checkable(token'), finding' \notin {Missing, "valid"} PROVE FALSE
  BY MissingAssumption DEF SupportedIsValid, Checkable
<1>2. CASE UNCHANGED tokenVars
  <2>1. finding \in {"invalid", "malformed", "unsupported"} /\ Checkable(token)
    BY <1>1, <1>2 DEF tokenVars, VerifyTokenInv, InspectInv, TokenTypeOK
  <2>2. QED
    BY <2>1 DEF SupportedIsValid, Checkable
<1>3. CASE DecodeToken
  BY <1>1, <1>3, TokenDecoded
<1>4. CASE InspectStep
  <2>1. TokenNext /\ token' = token /\ Checkable(token)
    BY <1>1, <1>4, TokenKept DEF InspectStep
  <2>2. step # "done" => finding = Missing
    BY DEF VerifyTokenInv, InspectInv, TokenTypeOK
  <2>3. step \in {"digest", "signature"} => cert = token.certs[find_signer_cert]
    BY DEF VerifyTokenInv, InspectInv
  <2>4. ~RejectContent /\ ~RejectSigner
    BY <2>1, NothingToReject DEF RejectContent, RejectSigner
  <2>5. ~RejectAttributes /\ ~RejectDigestAlgorithm /\ ~RejectMessageDigest /\ ~Unbound
    BY <2>1, NothingToReject
       DEF RejectAttributes, RejectDigestAlgorithm, RejectMessageDigest, Unbound
  <2>6. CASE ReadContent \/ ChooseSigner \/ Bound
    BY <1>1, <2>2, <2>6 DEF ReadContent, ChooseSigner, Bound, WellDigested, Digestible, Proceed
  <2>7. CASE verify_ecdsa \/ verify_rsa \/ RejectKey
    <3>1. step = "signature" /\ cert = token.certs[find_signer_cert]
      BY <2>3, <2>7 DEF verify_ecdsa, verify_rsa, RejectKey
    <3>2. /\ cert.key.id # Broken /\ Signer.signature # Broken
          /\ \/ /\ cert.key.alg = "ec" /\ cert.key.curve \in Curves
                /\ Signer.sigAlg \in DOMAIN EcdsaDigest /\ Signer.signature = EcdsaMade
             \/ cert.key.alg = "rsa" /\ Signer.signature = RsaMade
      BY <2>1, <3>1, NothingToReject DEF EcdsaMade, RsaMade
    <3>3. finding' = "valid"
      BY <2>7, <3>2 DEF verify_ecdsa, verify_rsa, RejectKey, Conclude
    <3>4. QED
      BY <1>1, <3>3
  <2>8. QED
    BY <2>1, <2>4, <2>5, <2>6, <2>7 DEF TokenNext
<1>5. QED
  BY <1>2, <1>3, <1>4, VerifySteps

(* Every token of a supported kind is found valid, whatever the order and  *)
(* the length of its chain, its digest and signature algorithms and the    *)
(* precision of its genTime.                                               *)
THEOREM SupportedTokensPass ==
  ASSUME ParsedIsApart PROVE VerifySpec => []SupportedIsValid
<1>1. VerifyInit => SupportedIsValid
  BY MissingAssumption DEF VerifyInit, SupportedIsValid
<1>2. VerifyTokenInv /\ SupportedIsValid /\ [VerifyNext]_verifyVars => SupportedIsValid'
  BY ParsedIsApart, SupportedNext
<1>3. QED
  BY <1>1, <1>2, VerifyTokenInvariant, PTL DEF VerifySpec

=============================================================================
