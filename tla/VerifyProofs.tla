---------------------------- MODULE VerifyProofs ----------------------------
(***************************************************************************)
(* Proofs about VerifyProof, for every bundle and every file: what the     *)
(* checks say and what the exit code rests on.                             *)
(***************************************************************************)
EXTENDS VerifyProof, TLAPS

(* The answer of the fold is "yes" only where it came out at the root.     *)
FoldInv ==
  /\ answer = "yes" => current = proof.root /\ phase = "done"
  /\ phase = "done" => answer # None

TimestampChecks ==
  IF ~Decodes(proof.token) THEN {Check("timestamp", "fail")}
  ELSE IF Understood
  THEN {PassIf("timestamp", CoversRoot(token.content.imprint)),
        PassIf("signature", finding = "valid")}
  ELSE {Check("timestamp", "fail")}

AllChecks == {DocumentCheck, InclusionCheck} \union TimestampChecks

(* The invariant: which checks have run at which stage, each told by the   *)
(* state it looked at, which no later step changes.                        *)
StageInv ==
  /\ stage \in {"read", "merkle", "token", "inspect", "report", "exit"}
  /\ stage = "read" => checks = {}
  /\ stage = "merkle" => checks = {DocumentCheck}
  /\ stage \in {"token", "inspect"} => checks = {DocumentCheck, InclusionCheck}
  /\ stage \in {"read", "merkle", "token"} => finding = Missing
  /\ stage = "inspect" => token = proof.token /\ Decodes(proof.token)
  /\ stage = "report" =>
       checks = AllChecks /\ (Decodes(proof.token) => token = proof.token)
  /\ ~Decodes(proof.token) => finding = Missing
  /\ stage \notin {"read", "exit"} => readable /\ file # Unreadable
  /\ stage # "exit" => exit = None
  /\ stage = "exit" =>
       \/ exit = 2 /\ checks = {} /\ (~readable \/ file = Unreadable)
       \/ /\ readable /\ file # Unreadable
          /\ checks = AllChecks /\ (Decodes(proof.token) => token = proof.token)
          /\ exit = IF is_valid(checks) THEN 0 ELSE 1
       \/ /\ readable /\ file # Unreadable
          /\ checks = {DocumentCheck}
          /\ phase = "panic"
          /\ exit = Aborted

VerifyInv == FoldInv /\ StageInv

LEMMA VerifyInvInit == VerifyInit => VerifyInv
<1>1. VerifyInit => FoldInv
  BY AnswerAssumption DEF VerifyInit, MerkleInit, MerkleStart, FoldInv
<1>2. VerifyInit => StageInv
  BY DEF VerifyInit, StageInv
<1>3. QED
  BY <1>1, <1>2 DEF VerifyInv

LEMMA FoldStepInv ==
  ASSUME FoldInv, MerkleNext
  PROVE  FoldInv'
<1>1. CASE HashLeaf \/ Climb \/ DecodePanics
  BY <1>1 DEF FoldInv, HashLeaf, Climb, More, AtRoot, DecodePanics
<1>2. CASE RejectAlgorithm \/ RejectLeaf \/ RejectSibling \/ RejectSide \/ RejectRoot
  BY <1>2, AnswerAssumption
     DEF FoldInv, RejectAlgorithm, RejectLeaf, RejectSibling, RejectSide, RejectRoot,
         Finish, MerkleErrors
<1>3. CASE Compare
  BY <1>3, AnswerAssumption DEF FoldInv, Compare, Finish, constant_time_eq
<1>4. QED
  BY <1>1, <1>2, <1>3 DEF MerkleNext

LEMMA ProofKept == MerkleNext => proof' = proof
  BY DEF MerkleNext, RejectAlgorithm, RejectLeaf, HashLeaf, RejectSibling, RejectSide,
         Climb, RejectRoot, Compare, DecodePanics, Finish

LEMMA TokenKept == TokenNext => token' = token
  BY DEF TokenNext, RejectContent, ReadContent, RejectSigner, ChooseSigner,
         RejectAttributes, RejectDigestAlgorithm, RejectMessageDigest, Unbound, Bound,
         verify_ecdsa, verify_rsa, RejectKey, Conclude, Proceed

LEMMA VerifyInvNext ==
  ASSUME VerifyInv, [VerifyNext]_verifyVars
  PROVE  VerifyInv'
<1> USE DEF VerifyInv
<1>1. CASE RejectInput
  BY <1>1 DEF RejectInput, Exit, FoldInv, StageInv, merkleVars, tokenVars
<1>2. CASE CheckDocument
  <2>1. /\ stage = "read" /\ stage' = "merkle" /\ checks' = {DocumentCheck}
        /\ readable /\ file # Unreadable
        /\ UNCHANGED <<merkleVars, tokenVars, readable, file, exit>>
    BY <1>2 DEF CheckDocument, Record, StageInv
  <2>2. DocumentCheck' = DocumentCheck
    BY <2>1 DEF DocumentCheck, eq_ignore_ascii_case, merkleVars
  <2>3. QED
    BY <2>1, <2>2 DEF FoldInv, StageInv, merkleVars, tokenVars
<1>3. CASE FoldStep
  <2>1. /\ stage = "merkle" /\ MerkleNext /\ proof' = proof
        /\ UNCHANGED <<tokenVars, readable, file, stage, checks, exit>>
    BY <1>3, ProofKept DEF FoldStep
  <2>2. DocumentCheck' = DocumentCheck
    BY <2>1 DEF DocumentCheck, eq_ignore_ascii_case
  <2>3. FoldInv'
    BY <2>1, FoldStepInv
  <2>4. QED
    BY <2>1, <2>2, <2>3 DEF StageInv, tokenVars
<1>4. CASE CheckInclusion
  <2>1. /\ stage = "merkle" /\ stage' = "token" /\ checks' = {DocumentCheck, InclusionCheck}
        /\ UNCHANGED <<merkleVars, tokenVars, readable, file, exit>>
    BY <1>4 DEF CheckInclusion, Record, StageInv
  <2>2. DocumentCheck' = DocumentCheck /\ InclusionCheck' = InclusionCheck
    BY <2>1 DEF DocumentCheck, eq_ignore_ascii_case, InclusionCheck, merkleVars
  <2>3. QED
    BY <2>1, <2>2 DEF FoldInv, StageInv, merkleVars, tokenVars
<1>5. CASE RejectToken
  <2>1. /\ stage = "token" /\ stage' = "report" /\ checks' = AllChecks
        /\ UNCHANGED <<merkleVars, tokenVars, readable, file, exit>>
    BY <1>5 DEF RejectToken, Record, StageInv, AllChecks, TimestampChecks
  <2>2. AllChecks' = AllChecks
    BY <2>1 DEF AllChecks, TimestampChecks, DocumentCheck, eq_ignore_ascii_case, InclusionCheck,
                Understood, CoversRoot, merkleVars, tokenVars
  <2>3. ~Decodes(proof.token)
    BY <1>5 DEF RejectToken
  <2>4. QED
    BY <2>1, <2>2, <2>3 DEF FoldInv, StageInv, merkleVars, tokenVars
<1>6. CASE DecodeToken
  <2>1. /\ stage = "token" /\ stage' = "inspect"
        /\ Decodes(proof.token) /\ token' = proof.token
        /\ UNCHANGED <<merkleVars, finding, readable, file, checks, exit>>
    BY <1>6 DEF DecodeToken, TokenStart
  <2>2. DocumentCheck' = DocumentCheck /\ InclusionCheck' = InclusionCheck
    BY <2>1 DEF DocumentCheck, eq_ignore_ascii_case, InclusionCheck, merkleVars
  <2>3. QED
    BY <2>1, <2>2 DEF FoldInv, StageInv, merkleVars
<1>7. CASE InspectStep
  <2>1. /\ stage = "inspect" /\ token' = token
        /\ UNCHANGED <<merkleVars, readable, file, stage, checks, exit>>
    BY <1>7, TokenKept DEF InspectStep
  <2>2. DocumentCheck' = DocumentCheck /\ InclusionCheck' = InclusionCheck
    BY <2>1 DEF DocumentCheck, eq_ignore_ascii_case, InclusionCheck, merkleVars
  <2>3. QED
    BY <2>1, <2>2 DEF FoldInv, StageInv, merkleVars
<1>8. CASE CheckTimestamp
  <2>1. /\ stage = "inspect" /\ stage' = "report" /\ checks' = AllChecks
        /\ UNCHANGED <<merkleVars, tokenVars, readable, file, exit>>
    BY <1>8 DEF CheckTimestamp, Record, StageInv, AllChecks, TimestampChecks
  <2>2. AllChecks' = AllChecks
    BY <2>1 DEF AllChecks, TimestampChecks, DocumentCheck, eq_ignore_ascii_case, InclusionCheck,
                Understood, CoversRoot, merkleVars, tokenVars
  <2>3. QED
    BY <2>1, <2>2 DEF FoldInv, StageInv, merkleVars, tokenVars
<1>9. CASE Report
  <2>1. /\ stage = "report" /\ stage' = "exit" /\ checks' = checks
        /\ exit' = IF is_valid(checks) THEN 0 ELSE 1
        /\ UNCHANGED <<merkleVars, tokenVars, readable, file>>
    BY <1>9 DEF Report, Exit
  <2>2. AllChecks' = AllChecks
    BY <2>1 DEF AllChecks, TimestampChecks, DocumentCheck, eq_ignore_ascii_case, InclusionCheck,
                Understood, CoversRoot, merkleVars, tokenVars
  <2>3. QED
    BY <2>1, <2>2 DEF FoldInv, StageInv, merkleVars, tokenVars, is_valid
<1>10. CASE UNCHANGED verifyVars
  <2>1. AllChecks' = AllChecks /\ DocumentCheck' = DocumentCheck /\ InclusionCheck' = InclusionCheck
    BY <1>10 DEF verifyVars, AllChecks, TimestampChecks, DocumentCheck, eq_ignore_ascii_case,
                 InclusionCheck, Understood, CoversRoot, merkleVars, tokenVars
  <2>2. QED
    BY <1>10, <2>1 DEF verifyVars, FoldInv, StageInv, merkleVars, tokenVars, is_valid
<1>11. CASE FoldAborts
  <2>1. /\ stage = "merkle" /\ stage' = "exit" /\ exit' = Aborted
        /\ checks' = {DocumentCheck} /\ phase' = "panic"
        /\ readable' /\ file' # Unreadable
        /\ UNCHANGED <<merkleVars, tokenVars, readable, file>>
    BY <1>11 DEF FoldAborts, Exit, StageInv, merkleVars
  <2>2. DocumentCheck' = DocumentCheck
    BY <2>1 DEF DocumentCheck, eq_ignore_ascii_case, merkleVars
  <2>3. QED
    BY <2>1, <2>2 DEF FoldInv, StageInv, merkleVars, tokenVars
<1>12. QED
  BY <1>11, <1>1, <1>2, <1>3, <1>4, <1>5, <1>6, <1>7, <1>8, <1>9, <1>10 DEF VerifyNext

LEMMA VerifyInvariant == VerifySpec => []VerifyInv
<1>1. VerifyInv /\ [VerifyNext]_verifyVars => VerifyInv'
  BY VerifyInvNext
<1>2. QED
  BY <1>1, VerifyInvInit, PTL DEF VerifySpec

-----------------------------------------------------------------------------

(* The checks that have run, whatever the stage, are among these.          *)
LEMMA ChecksKnown ==
  ASSUME VerifyInv
  PROVE  /\ \/ checks \in {{}, {DocumentCheck}, {DocumentCheck, InclusionCheck}}
            \/ /\ stage \in {"report", "exit"} /\ checks = AllChecks
               /\ Decodes(proof.token) => token = proof.token
         /\ exit \in {0, 1} => checks = AllChecks
  BY CodesAssumption DEF VerifyInv, StageInv, AllChecks, Aborted

LEMMA FewerThanAll ==
  ASSUME VerifyInv
  PROVE  checks \subseteq AllChecks
  BY ChecksKnown DEF AllChecks

LEMMA StatusKnown ==
  /\ \A s : Check("document", s) \in AllChecks <=> Check("document", s) = DocumentCheck
  /\ \A s : Check("merkle", s) \in AllChecks <=> Check("merkle", s) = InclusionCheck
  /\ \A n, s : Check(n, s) \in AllChecks /\ n \notin {"document", "merkle"} =>
       Check(n, s) \in TimestampChecks
<1>1. \A n, m, s, t : Check(n, s) = Check(m, t) => n = m /\ s = t
  BY DEF Check
<1>2. (\E s : DocumentCheck = Check("document", s)) /\ (\E s : InclusionCheck = Check("merkle", s))
  BY DEF DocumentCheck, InclusionCheck, PassIf
<1>3. \A c \in TimestampChecks : \E n \in {"timestamp", "signature"} : \E s : c = Check(n, s)
  BY DEF TimestampChecks, PassIf
<1>4. QED
  BY <1>1, <1>2, <1>3 DEF AllChecks

LEMMA InvGivesMeaning == ASSUME VerifyInv PROVE ChecksMean
<1>1. \A n, m, s, t : Check(n, s) = Check(m, t) => n = m /\ s = t
  BY DEF Check
<1>2. /\ Said("document", "pass") => file = proof.hash /\ "hash" \notin proof.plus
      /\ Said("document", "skip") => file = NoFile
  BY <1>1, FewerThanAll, StatusKnown DEF Said, DocumentCheck, PassIf, eq_ignore_ascii_case
<1>3. Said("merkle", "pass") => answer = "yes" /\ current = proof.root
  BY <1>1, FewerThanAll, StatusKnown DEF Said, InclusionCheck, PassIf, VerifyInv, FoldInv
<1>4. ASSUME NEW s, Said("timestamp", s) \/ Said("signature", s)
      PROVE  /\ stage \in {"report", "exit"} /\ checks = AllChecks
             /\ Decodes(proof.token) => token = proof.token
  <2>1. checks # {} /\ checks # {DocumentCheck} /\ checks # {DocumentCheck, InclusionCheck}
    BY <1>1, <1>4 DEF Said, DocumentCheck, InclusionCheck, PassIf
  <2>2. QED
    BY <2>1, ChecksKnown
<1>5. /\ Said("timestamp", "pass") =>
           /\ Decodes(proof.token) /\ Understood
           /\ token.content.imprint = proof.root /\ "root" \notin proof.plus
      /\ Said("signature", "pass") => finding = "valid"
  BY <1>1, FewerThanAll, StatusKnown
     DEF Said, TimestampChecks, PassIf, CoversRoot, eq_ignore_ascii_case
<1>6. Said("timestamp", "pass") => token = proof.token
  BY <1>4, <1>5
<1>7. Said("timestamp", "pass") <=> Ran("signature") /\ ~Said("timestamp", "fail")
  <2>1. ASSUME Said("timestamp", "pass")
        PROVE  Ran("signature") /\ ~Said("timestamp", "fail")
    <3>1. PassIf("signature", finding = "valid") \in checks
      BY <2>1, <1>4, <1>5 DEF AllChecks, TimestampChecks
    <3>2. ~Said("timestamp", "fail")
      BY <1>1, <1>5, <2>1, FewerThanAll, StatusKnown
         DEF Said, TimestampChecks, PassIf, CoversRoot, eq_ignore_ascii_case
    <3>3. QED
      BY <3>1, <3>2 DEF Ran, PassIf, Check
  <2>2. ASSUME Ran("signature"), ~Said("timestamp", "fail")
        PROVE  Said("timestamp", "pass")
    <3>1. PICK c \in checks : c.name = "signature"
      BY <2>2 DEF Ran
    <3>2. c \notin {DocumentCheck, InclusionCheck}
      BY <3>1 DEF DocumentCheck, InclusionCheck, PassIf, Check
    <3>3. checks = AllChecks /\ c \in TimestampChecks
      BY <3>1, <3>2, ChecksKnown DEF AllChecks
    <3>4. PassIf("timestamp", CoversRoot(token.content.imprint)) \in checks
      BY <3>1, <3>3 DEF AllChecks, TimestampChecks, Check
    <3>5. QED
      BY <2>2, <3>4 DEF Said, PassIf
  <2>3. QED
    BY <2>1, <2>2
<1>8. exit \in {0, 1} => Ran("document") /\ Ran("merkle") /\ Ran("timestamp")
  <2>1. SUFFICES ASSUME checks = AllChecks
                 PROVE  Ran("document") /\ Ran("merkle") /\ Ran("timestamp")
    BY ChecksKnown
  <2>2. DocumentCheck.name = "document" /\ InclusionCheck.name = "merkle"
    BY DEF DocumentCheck, InclusionCheck, PassIf, Check
  <2>3. \E c \in TimestampChecks : c.name = "timestamp"
    BY DEF TimestampChecks, PassIf, Check
  <2>4. QED
    BY <2>1, <2>2, <2>3 DEF Ran, AllChecks
<1>9. QED
  BY <1>2, <1>3, <1>5, <1>6, <1>7, <1>8 DEF ChecksMean

LEMMA ValidMeansAllPass ==
  ASSUME VerifyInv
  PROVE  is_valid(AllChecks) <=>
           /\ file = NoFile \/ (file = proof.hash /\ "hash" \notin proof.plus)
           /\ answer = "yes" /\ finding = "valid"
           /\ token.content.imprint = proof.root /\ "root" \notin proof.plus
<1>1. DocumentCheck.status # "fail" <=>
        file = NoFile \/ (file = proof.hash /\ "hash" \notin proof.plus)
  BY DEF DocumentCheck, PassIf, Check, eq_ignore_ascii_case
<1>2. /\ InclusionCheck.status # "fail" <=> answer = "yes"
      /\ InclusionCheck.status # "fail" => InclusionCheck.status = "pass"
  BY DEF InclusionCheck, PassIf, Check
<1>3. (\A c \in TimestampChecks : c.status # "fail") <=>
        /\ Decodes(proof.token) /\ Understood
        /\ token.content.imprint = proof.root /\ "root" \notin proof.plus
        /\ finding = "valid"
  <2>1. CASE Decodes(proof.token) /\ Understood
    <3>1. TimestampChecks = {PassIf("timestamp", CoversRoot(token.content.imprint)),
                             PassIf("signature", finding = "valid")}
      BY <2>1 DEF TimestampChecks
    <3>2. \A n, h : PassIf(n, h).status # "fail" <=> h
      BY DEF PassIf, Check
    <3>3. QED
      BY <2>1, <3>1, <3>2 DEF CoversRoot, eq_ignore_ascii_case
  <2>2. CASE ~(Decodes(proof.token) /\ Understood)
    BY <2>2 DEF TimestampChecks, Check
  <2>3. QED
    BY <2>1, <2>2
<1>4. finding = "valid" => Decodes(proof.token) /\ Understood
  BY MissingAssumption DEF VerifyInv, StageInv, Understood
<1>5. QED
  BY <1>1, <1>2, <1>3, <1>4 DEF is_valid, AllChecks

LEMMA InvGivesExitCodes == ASSUME VerifyInv PROVE ExitCodesApart
<1>1. CASE stage # "exit"
  BY <1>1, CodesAssumption DEF VerifyInv, StageInv, ExitCodesApart
<1>2. CASE stage = "exit"
  BY <1>2, ValidMeansAllPass DEF VerifyInv, FoldInv, StageInv, ExitCodesApart, Aborted
<1>3. QED
  BY <1>1, <1>2

LEMMA InvGivesTypes == ASSUME VerifyInv PROVE VerifyTypeOK
<1>1. checks \subseteq AllChecks
  BY FewerThanAll
<1>2. \A c \in AllChecks : c \in [name : Names, status : {"pass", "fail", "skip"}]
  BY DEF AllChecks, DocumentCheck, InclusionCheck, TimestampChecks, PassIf, Check, Names
<1>3. DocumentCheck.name = "document" /\ InclusionCheck.name = "merkle"
  BY DEF DocumentCheck, InclusionCheck, PassIf, Check
<1>4. /\ \A c \in TimestampChecks : c.name \in {"timestamp", "signature"}
      /\ \A c, d \in TimestampChecks : c.name = d.name => c = d
  BY DEF TimestampChecks, PassIf, Check
<1>5. \A c, d \in AllChecks : c.name = d.name => c = d
  BY <1>3, <1>4 DEF AllChecks
<1>6. /\ exit \in {None, 0, 1, 2, Aborted} /\ (exit # None <=> stage = "exit")
      /\ stage \in {"read", "merkle", "token", "inspect", "report", "exit"}
  BY CodesAssumption DEF VerifyInv, StageInv, Aborted
<1>7. QED
  BY <1>1, <1>2, <1>5, <1>6 DEF VerifyTypeOK

(* Each check says one thing, and the exit code is set once, at the end.   *)
THEOREM VerifyTypes == VerifySpec => []VerifyTypeOK
  BY VerifyInvariant, InvGivesTypes, PTL

(* A check says "pass" or "skip" only of what it looked at, nothing that   *)
(* happens after it makes it untrue, and every verdict rests on all of     *)
(* them: for every bundle, every path and every token.                     *)
THEOREM ChecksAreMeant == VerifySpec => []ChecksMean
  BY VerifyInvariant, InvGivesMeaning, PTL

(* The exit code is 2 exactly when there was nothing to look at.  It is 0  *)
(* exactly when the fold comes out at the root, the signature is valid,    *)
(* and the imprint and the file agree with the texts of the bundle: as     *)
(* bytes, and without a plus sign in a text they are compared with.        *)
THEOREM ExitCodesTell == VerifySpec => []ExitCodesApart
  BY VerifyInvariant, InvGivesExitCodes, PTL

=============================================================================
