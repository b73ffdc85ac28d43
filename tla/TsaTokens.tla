----------------------------- MODULE TsaTokens -----------------------------
(***************************************************************************)
(* The tokens time-stamping authorities issue, and what inspect owes them. *)
(* An authority has a key and the chain it embeds; it signs with any       *)
(* algorithm its key allows and digests with any, each chosen apart from   *)
(* the other and from the algorithm of the imprint.                        *)
(***************************************************************************)
EXTENDS TimestampToken

CONSTANT
  Authorities  \* records [key, chain, contents]: contents are the TSTInfos it signs

(* The curve of an authority's key, if it is an EC key and only then.      *)
ASSUME KeyAssumption ==
  \A a \in Authorities :
    /\ a.key.id # Broken
    /\ a.key.alg = "ec" => a.key.curve # Missing
    /\ a.key.alg = "rsa" => a.key.curve = Missing

(* Which certificate of the chain is the authority's: the first with the   *)
(* time-stamping usage, or the first of all where none has it.             *)
Own(chain, k) ==
  /\ chain[k].choice = "certificate"
  /\ \A j \in DOMAIN chain : chain[j].choice = "certificate" =>
       IF has_timestamping_eku(chain[k])
       THEN j < k => ~has_timestamping_eku(chain[j])
       ELSE k <= j /\ ~has_timestamping_eku(chain[j])

ASSUME ChainAssumption ==
  \A a \in Authorities :
    /\ DOMAIN a.chain \subseteq Nat
    /\ \E k \in DOMAIN a.chain : Own(a.chain, k) /\ a.chain[k].key = a.key

(* An authority's genTime is a date in UTC, with or without a fraction.    *)
ASSUME ContentAssumption ==
  \A a \in Authorities : \A c \in a.contents :
    /\ c \notin {Missing, Broken}
    /\ c.genTime.utc /\ c.genTime.digits /\ c.genTime.real
    /\ c.genTime.fraction \in {Missing, "digits"}

(* A signature algorithm: what it signs with, and what it digests with.    *)
SignatureAlgorithms ==
  [a \in {"ecdsa-sha256", "ecdsa-sha512", "ecdsa-sha3", "rsa-sha256",
          "rsa-sha512", "rsa-pss", "ed25519"} |->
     CASE a = "ecdsa-sha256" -> [alg |-> "ec",      scheme |-> "ecdsa", digest |-> "sha256"]
       [] a = "ecdsa-sha512" -> [alg |-> "ec",      scheme |-> "ecdsa", digest |-> "sha512"]
       [] a = "ecdsa-sha3"   -> [alg |-> "ec",      scheme |-> "ecdsa", digest |-> "sha3"]
       [] a = "rsa-sha256"   -> [alg |-> "rsa",     scheme |-> "pkcs1", digest |-> "sha256"]
       [] a = "rsa-sha512"   -> [alg |-> "rsa",     scheme |-> "pkcs1", digest |-> "sha512"]
       [] a = "rsa-pss"      -> [alg |-> "rsa",     scheme |-> "pss",   digest |-> "sha256"]
       [] a = "ed25519"      -> [alg |-> "ed25519", scheme |-> "eddsa", digest |-> "sha512"]]

Allowed(key) ==
  {a \in DOMAIN SignatureAlgorithms : SignatureAlgorithms[a].alg = key.alg}

Issue(authority, content, digestAlg, sigAlg) ==
  LET attrs == <<[type |-> "contentType", value |-> "TSTInfo"],
                 [type |-> "messageDigest", value |-> DigestOf(digestAlg, content)]>>
      how == SignatureAlgorithms[sigAlg]
  IN  [content |-> content, certs |-> authority.chain,
       signers |-> <<[digestAlg |-> digestAlg, sigAlg |-> sigAlg, attrs |-> attrs,
                      signature |->
                        [scheme |-> how.scheme, key |-> authority.key,
                         digest |-> DigestOf(how.digest,
                                             [tag |-> "SET OF", attrs |-> attrs])]]>>]

IssuedTokens ==
  UNION {{Issue(a, c, d, s) : c \in a.contents, d \in {"sha1", "sha256", "sha512"},
                              s \in Allowed(a.key)} : a \in Authorities}

-----------------------------------------------------------------------------
(* Properties.                                                             *)

(* What the README lists as supported, of the signature of an issued token.*)
SupportedSignature(t) ==
  LET s == Head(t.signers)
  IN  /\ SignatureAlgorithms[s.sigAlg].scheme \in {"ecdsa", "pkcs1"}
      /\ SignatureAlgorithms[s.sigAlg].digest \in Digests
      /\ s.digestAlg \in Digests
      /\ s.signature.key.curve \in Curves \union {Missing}

(* RSA tokens are checked with the digest of the SignerInfo, so theirs have *)
(* to agree.                                                               *)
OneRsaDigest(t) ==
  LET s == Head(t.signers)
  IN  s.signature.scheme = "pkcs1" =>
        s.digestAlg = SignatureAlgorithms[s.sigAlg].digest

(* Every token of a supported kind is found valid, whatever its algorithm  *)
(* slots, the order of its chain and the precision of its genTime.         *)
SupportedIsValid ==
  finding \in {"invalid", "malformed", "unsupported"} /\ token \in IssuedTokens =>
    ~(SupportedSignature(token) /\ OneRsaDigest(token))

(* A finding of "valid" means that the key of the chosen certificate signed *)
(* this very TSTInfo: no mixture of the parts of several tokens passes,    *)
(* and nothing does that is unsupported.                                   *)
ValidIsSigned ==
  finding = "valid" =>
    \E t \in IssuedTokens :
      /\ t.content = token.content
      /\ Head(t.signers).signature.key = cert.key
      /\ SupportedSignature(t)

(* An issued token of an unsupported kind is reported as unsupported, as   *)
(* the README says of the algorithms it lists, the one of the imprint      *)
(* among them: "Anything unsupported fails closed - it is reported as an   *)
(* unsupported token".                                                     *)
UnsupportedIsReported ==
  token \in IssuedTokens
  /\ ~(SupportedSignature(token) /\ token.content.imprintAlg \in Digests) =>
    finding \in {Missing, "unsupported"}

=============================================================================
