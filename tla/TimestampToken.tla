--------------------------- MODULE TimestampToken ---------------------------
(***************************************************************************)
(* The offline check of an RFC 3161 token (src/src/rfc3161.rs): inspect,   *)
(* find_signer_cert, verify_signer, verify_ecdsa and verify_rsa, in the    *)
(* order in which they can give up.                                        *)
(*                                                                         *)
(* DER is taken as parsed: a token is a record, or Broken.  Digests and    *)
(* signatures are what they were made of: a digest is an algorithm and     *)
(* what was digested, a signature a scheme, a key and a digest, so that a  *)
(* signature verifies exactly when it was made by that key over that.      *)
(*   token    [content, signers, certs], or Broken                         *)
(*   content  a TSTInfo [imprint, imprintAlg, genTime], Broken or Missing  *)
(*   signer   [digestAlg, sigAlg, attrs (Missing, or a sequence of         *)
(*            [type, value]), signature (Broken, or [scheme, key, digest])]*)
(*   cert     [choice, usages (a set, Missing or Broken), key],            *)
(*            key [id (or Broken), alg, curve]                             *)
(***************************************************************************)
EXTENDS Naturals, Sequences

CONSTANTS
  Missing,  \* an optional field that is absent
  Broken    \* bytes that do not decode

ASSUME MissingAssumption == Missing \notin {"valid", "invalid", "malformed", "unsupported"}

VARIABLES
  token,    \* the argument of inspect
  step,     \* "idle", "content", "signer", "digest", "signature" or "done"
  cert,     \* the certificate find_signer_cert chose
  finding   \* Ok with signature_valid "valid" or "invalid"; "malformed", "unsupported"

tokenVars == <<token, step, cert, finding>>

Digests == {"sha256", "sha384", "sha512"}
Curves == {"p256", "p384"}

(* The digest an ECDSA signature algorithm names. *)
EcdsaDigest ==
  [a \in {"ecdsa-sha256", "ecdsa-sha384", "ecdsa-sha512"} |->
     CASE a = "ecdsa-sha256" -> "sha256"
       [] a = "ecdsa-sha384" -> "sha384"
       [] a = "ecdsa-sha512" -> "sha512"]

DigestOf(alg, data) == [alg |-> alg, data |-> data]

(* genTime as [utc, digits, fraction, real]: ends in Z, fourteen digits    *)
(* before a separator, Missing or what follows it, a date of the calendar. *)
OnlyWholeSeconds(t) == t.utc /\ t.digits /\ t.fraction = Missing /\ t.real

parse_generalized_time(t) ==
  /\ t.utc
  /\ t.digits
  /\ t.fraction \in {Missing, "digits"}
  /\ t.real

-----------------------------------------------------------------------------
(* The answer. *)

TokenStart(t) ==
  /\ token' = t
  /\ step' = "content"
  /\ UNCHANGED <<cert, finding>>

Conclude(f) ==
  /\ step' = "done"
  /\ finding' = f
  /\ UNCHANGED <<token, cert>>

OptimisticProceed(next) ==
  /\ step' = next
  /\ finding' = "valid"
  /\ UNCHANGED token

Proceed(next) ==
  /\ step' = next
  /\ UNCHANGED <<token, finding>>

(* ContentInfo, SignedData, eContent and TSTInfo. *)
Readable ==
  /\ token # Broken
  /\ token.content \notin {Missing, Broken}
  /\ parse_generalized_time(token.content.genTime)

RejectContent ==
  /\ step = "content"
  /\ ~Readable
  /\ Conclude("malformed")

ReadContent ==
  /\ step = "content"
  /\ Readable
  /\ Proceed("signer")
  /\ UNCHANGED cert

(* The certificate with the time-stamping EKU, or else the first one.      *)
Candidates == {k \in DOMAIN token.certs : token.certs[k].choice = "certificate"}

has_timestamping_eku(c) ==
  c.usages \notin {Missing, Broken} /\ "timeStamping" \in c.usages

First(S) == CHOOSE k \in S : \A j \in S : k <= j

find_signer_cert ==
  LET timestamping == {k \in Candidates : has_timestamping_eku(token.certs[k])}
  IN  First(IF timestamping = {} THEN Candidates ELSE timestamping)

RejectSigner ==
  /\ step = "signer"
  /\ token.signers = <<>> \/ Candidates = {}
  /\ Conclude("malformed")

ChooseSigner ==
  /\ step = "signer"
  /\ token.signers # <<>> /\ Candidates # {}
  /\ cert' = token.certs[find_signer_cert]
  /\ Proceed("digest")

-----------------------------------------------------------------------------
(* verify_signer. *)

Signer == Head(token.signers)

MessageDigests == {k \in DOMAIN Signer.attrs : Signer.attrs[k].type = "messageDigest"}

(* The last messageDigest attribute decides. *)
NeverUnbound == TRUE
digest_bound ==
  \E k \in MessageDigests :
    /\ \A j \in MessageDigests : j <= k
    /\ Signer.attrs[k].value = DigestOf(Signer.digestAlg, token.content)

(* What the signature covers: the attributes under the tag of a SET OF,    *)
(* not under the [0] they have on the wire.                                *)
tbs(attrs) == [tag |-> "SET OF", attrs |-> attrs]

RejectAttributes ==
  /\ step = "digest"
  /\ Signer.attrs = Missing
  /\ Conclude("malformed")

RejectDigestAlgorithm ==
  /\ step = "digest"
  /\ Signer.attrs # Missing
  /\ Signer.digestAlg \notin Digests
  /\ Conclude("unsupported")

Digestible == step = "digest" /\ Signer.attrs # Missing /\ Signer.digestAlg \in Digests

RejectMessageDigest ==
  /\ Digestible
  /\ \E k \in MessageDigests : Signer.attrs[k].value \in {Missing, Broken}
  /\ Conclude("malformed")

WellDigested ==
  /\ Digestible
  /\ \A k \in MessageDigests : Signer.attrs[k].value \notin {Missing, Broken}

Unbound ==
  /\ WellDigested
  /\ ~digest_bound
  /\ Conclude("invalid")

Bound ==
  /\ WellDigested
  /\ digest_bound
  /\ Proceed("signature")
  /\ UNCHANGED cert

ByDigestAlgorithm == [scheme |-> "ecdsa", key |-> cert.key,
                      digest |-> DigestOf(Signer.digestAlg, tbs(Signer.attrs))]

(* verify_ecdsa: the prehash is the one of the signature algorithm.        *)
EcdsaMade == [scheme |-> "ecdsa", key |-> cert.key,
              digest |-> DigestOf(EcdsaDigest[Signer.sigAlg], tbs(Signer.attrs))]

(* verify_rsa: PKCS#1 v1.5, with the digest of the SignerInfo.             *)
RsaMade == [scheme |-> "pkcs1", key |-> cert.key,
            digest |-> DigestOf(Signer.digestAlg, tbs(Signer.attrs))]

verify_ecdsa ==
  /\ step = "signature"
  /\ cert.key.alg = "ec"
  /\ Conclude(IF \/ Signer.sigAlg \notin DOMAIN EcdsaDigest
                 \/ cert.key.curve \notin Curves
              THEN "unsupported"
              ELSE IF Broken \in {cert.key.id, Signer.signature} THEN "malformed"
              ELSE IF Signer.signature = EcdsaMade THEN "valid" ELSE "invalid")

(* Any bytes are taken for an RSA signature.                               *)
verify_rsa ==
  /\ step = "signature"
  /\ cert.key.alg = "rsa"
  /\ Conclude(IF cert.key.id = Broken THEN "malformed"
              ELSE IF Signer.signature = RsaMade THEN "valid" ELSE "invalid")

RejectKey ==
  /\ step = "signature"
  /\ cert.key.alg \notin {"ec", "rsa"}
  /\ Conclude("unsupported")

TokenNext ==
  \/ RejectContent \/ ReadContent \/ RejectSigner \/ ChooseSigner
  \/ RejectAttributes \/ RejectDigestAlgorithm \/ RejectMessageDigest
  \/ Unbound \/ Bound \/ verify_ecdsa \/ verify_rsa \/ RejectKey

-----------------------------------------------------------------------------

(* Types; a token has a certificate from the moment one is chosen, and a   *)
(* signature is looked at only under attributes that bind the content.     *)
TokenTypeOK ==
  /\ step \in {"idle", "content", "signer", "digest", "signature", "done"}
  /\ finding \in {Missing, "valid", "invalid", "malformed", "unsupported"}
  /\ finding # Missing <=> step = "done"
  /\ step \in {"digest", "signature"} => cert # Missing
  /\ step = "signature" => digest_bound

=============================================================================
