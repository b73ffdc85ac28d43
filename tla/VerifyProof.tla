---------------------------- MODULE VerifyProof ----------------------------
(***************************************************************************)
(* trustbeat verify PROOF [FILE]: cmd_verify (src/src/main.rs) reads the   *)
(* bundle and hashes the file, verify_proof (src/src/verify.rs) runs its   *)
(* checks one after the other on the fold of Merkle and the inspection of  *)
(* TimestampToken, and the exit code tells the outcome.                    *)
(*                                                                         *)
(* A bundle is a proof of Merkle with two more fields: the token; and      *)
(* plus, which of the texts of hash and root have a plus sign in the place *)
(* of a zero.  The fold decodes these texts; the other checks compare them, *)
(* in either case, with a hex text the program has written itself.  Texts  *)
(* that decode to the same bytes differ in nothing but case and plus signs *)
(* (see HexMeansBytes), so the bytes and plus tell what is compared.       *)
(***************************************************************************)
EXTENDS Merkle, TimestampToken

CONSTANTS
  Files,      \* what FILE can be: the SHA-256 of a file, NoFile or Unreadable
  NoFile,     \* no FILE was given
  Unreadable, \* a PROOF or a FILE that cannot be read
  NotBase64   \* a token that decode_base64 refuses

VARIABLES
  readable, \* whether PROOF can be read and is a bundle
  file,     \* what FILE is
  stage,    \* "read", "merkle", "token", "inspect", "report" or "exit"
  checks,   \* the checks that ran: records [name, status]
  exit      \* the exit code, None before

verifyVars == <<merkleVars, tokenVars, readable, file, stage, checks, exit>>

(* The exit code of a process that aborts, as it does on a panic.          *)
Aborted == 134

(* The codes and the absent code are different things, and so are a file   *)
(* that is not given and one that cannot be read.                          *)
ASSUME CodesAssumption == None \notin {0, 1, 2, Aborted} /\ NoFile # Unreadable

(* A token that parses is made as TimestampToken says.                     *)
Parsed(t) == t \notin {Missing, NotBase64, Broken}

ASSUME TokenAssumption ==
  \A p \in Proofs : Parsed(p.token) =>
    \A k \in DOMAIN p.token.certs : k \in Nat /\ p.token.certs[k] # Missing

Check(name, status) == [name |-> name, status |-> status]

PassIf(name, holds) == Check(name, IF holds THEN "pass" ELSE "fail")

is_valid(done) ==
  /\ \A c \in done : c.status # "fail"
  /\ \E c \in done : c.status = "pass"

(* The texts that are compared, and may be written with a plus sign.       *)
ASSUME PlusAssumption == \A p \in Proofs : p.plus \subseteq {"hash", "root"}

-----------------------------------------------------------------------------

VerifyInit ==
  /\ MerkleInit
  /\ token = Missing /\ step = "idle" /\ cert = Missing /\ finding = Missing
  /\ readable \in BOOLEAN
  /\ file \in Files
  /\ stage = "read"
  /\ checks = {}
  /\ exit = None

Exit(code) ==
  /\ stage' = "exit"
  /\ exit' = code
  /\ UNCHANGED <<merkleVars, tokenVars, readable, file, checks>>

Record(done, next) ==
  /\ checks' = checks \union done
  /\ stage' = next
  /\ UNCHANGED <<merkleVars, tokenVars, readable, file, exit>>

(* Err: main reports it and exits 2.                                       *)
RejectInput ==
  /\ stage = "read"
  /\ ~readable \/ file = Unreadable
  /\ Exit(2)

(* Of the hex that the program writes for a digest, without a plus sign,   *)
(* and the text of the bundle.                                             *)
EqualBytes(digest, field) == digest = proof[field]
eq_ignore_ascii_case(digest, field) == digest = proof[field] /\ field \notin proof.plus

DocumentCheck ==
  IF file = NoFile THEN Check("document", "skip")
  ELSE PassIf("document", eq_ignore_ascii_case(file, "hash"))

CheckDocument ==
  /\ stage = "read"
  /\ readable /\ file # Unreadable
  /\ Record({DocumentCheck}, "merkle")

FoldStep ==
  /\ stage = "merkle"
  /\ MerkleNext
  /\ UNCHANGED <<tokenVars, readable, file, stage, checks, exit>>

(* The panic of hex_decode ends the process.                               *)
FoldAborts ==
  /\ stage = "merkle"
  /\ phase = "panic"
  /\ Exit(Aborted)

InclusionMisnamed == PassIf("document", answer = "yes")
InclusionForgiving == Check("merkle", IF answer = "no" THEN "fail" ELSE "pass")
InclusionCheck == PassIf("merkle", answer = "yes")

RecordVerdict ==
  /\ stage = "merkle"
  /\ answer \in {"yes", "no"}
  /\ Record({InclusionCheck}, "token")

CheckInclusion ==
  /\ stage = "merkle"
  /\ answer # None
  /\ Record({InclusionCheck}, "token")

Decodes(t) == t \notin {Missing, NotBase64}

RejectToken ==
  /\ stage = "token"
  /\ ~Decodes(proof.token)
  /\ Record({Check("timestamp", "fail")}, "report")

DecodeToken ==
  /\ stage = "token"
  /\ Decodes(proof.token)
  /\ TokenStart(proof.token)
  /\ stage' = "inspect"
  /\ UNCHANGED <<merkleVars, readable, file, checks, exit>>

InspectStep ==
  /\ stage = "inspect"
  /\ TokenNext
  /\ UNCHANGED <<merkleVars, readable, file, stage, checks, exit>>

(* A token that inspect gave an error for fails one check; one that it     *)
(* understood has two.                                                     *)
Understood == finding \in {"valid", "invalid"}

CoversAnything(imprint) == TRUE
CoversRoot(imprint) == eq_ignore_ascii_case(imprint, "root")

CheckTimestamp ==
  /\ stage = "inspect"
  /\ finding # Missing
  /\ Record(IF Understood
            THEN {PassIf("timestamp", CoversRoot(token.content.imprint)),
                  PassIf("signature", finding = "valid")}
            ELSE {Check("timestamp", "fail")},
            "report")

Report ==
  /\ stage = "report"
  /\ Exit(IF is_valid(checks) THEN 0 ELSE 1)

VerifyNext ==
  \/ RejectInput \/ CheckDocument \/ FoldStep \/ FoldAborts
  \/ CheckInclusion \/ RejectToken \/ DecodeToken \/ InspectStep \/ CheckTimestamp \/ Report

VerifySpec == VerifyInit /\ [][VerifyNext]_verifyVars /\ WF_verifyVars(VerifyNext)

-----------------------------------------------------------------------------

Names == {"document", "merkle", "timestamp", "signature"}

Ran(name) == \E c \in checks : c.name = name
Said(name, status) == Check(name, status) \in checks

(* Types; and every check says one thing. *)
VerifyTypeOK ==
  /\ checks \subseteq [name : Names, status : {"pass", "fail", "skip"}]
  /\ \A c, d \in checks : c.name = d.name => c = d
  /\ stage \in {"read", "merkle", "token", "inspect", "report", "exit"}
  /\ exit \in {None, 0, 1, 2, Aborted}
  /\ exit # None <=> stage = "exit"

(* What each check that ran says of what it looked at: the ones before     *)
(* "exit" are never rewritten or left out, and a verdict rests on them all. *)
ChecksMean ==
  /\ Said("document", "pass") => file = proof.hash /\ "hash" \notin proof.plus
  /\ Said("document", "skip") => file = NoFile
  /\ Said("merkle", "pass") => answer = "yes" /\ current = proof.root
  /\ Said("timestamp", "pass") =>
       /\ token = proof.token /\ token.content.imprint = proof.root
       /\ "root" \notin proof.plus
  /\ Said("signature", "pass") => finding = "valid"
  /\ Said("timestamp", "pass") <=> Ran("signature") /\ ~Said("timestamp", "fail")
  /\ exit \in {0, 1} => Ran("document") /\ Ran("merkle") /\ Ran("timestamp")

(* "0 valid, 1 invalid, 2 usage/IO error": 2 is for what could not be      *)
(* looked at, and a proof that fails or cannot be checked is a 1 (or, with *)
(* a hex text that panics, no code of the program at all).  0 asks more    *)
(* than that the bytes agree: a root with a plus sign in it is no token's, *)
(* and a hash with one no file's, but is not looked at without a file.     *)
ExitCodesApart ==
  /\ exit = 2 <=> stage = "exit" /\ (~readable \/ file = Unreadable)
  /\ exit = 0 <=> stage = "exit" /\ readable /\ file # Unreadable
                  /\ (file = NoFile \/ (file = proof.hash /\ "hash" \notin proof.plus))
                  /\ answer = "yes" /\ finding = "valid"
                  /\ token.content.imprint = proof.root /\ "root" \notin proof.plus

(* Every verification ends, with an exit code. *)
VerifyEnds == <>(exit # None)

=============================================================================
