--------------------------- MODULE SessionProofs ---------------------------
(***************************************************************************)
(* Proofs about the commands that talk to the service, for any number of   *)
(* commands, any set of tracking ids and any timeout and poll interval.    *)
(***************************************************************************)
EXTENDS Session, ApiCallProofs

(* The network's steps that move the call, and the client's. *)
CallMoves == NetworkStep \/ CallStep

LEMMA AnswerTypes ==
  /\ \A b \in Body \union {Garbage, None} : \A c \in Codes : Plain(c, b) \in Answer
  /\ \A a \in Refusals \union Failures : a \in Answer /\ a.code # 200
<1>1. ASSUME NEW b \in Body \union {Garbage, None}, NEW c \in Codes
      PROVE  Plain(c, b) \in Answer
  BY DEF Plain, Answer
<1>2. \A a \in Refusals : a \in Answer /\ a.code = 429
  BY DEF Refusals, Answer, Codes
<1>3. \A a \in Failures : a \in Answer /\ a.code # 200
  BY DEF Failures, Plain, Answer, Codes
<1>4. QED
  BY <1>1, <1>2, <1>3

(* Every step of the network or of the client inside a call is a step of   *)
(* ApiCall, and leaves the command where it is.                            *)
LEMMA CallMovesFacts ==
  ASSUME SessionTypeOK, CallMoves
  PROVE  /\ InCall
         /\ pc \in {"post", "poll"}
         /\ UNCHANGED <<pc, exit, commandVars, outputVars>>
<1>1. CASE SubmissionQueued
  <2>1. PICK j \in JobIds : \/ ServiceAnswers(Plain(200, [id |-> j, ready |-> FALSE]))
                            \/ ServiceAnswers(Plain(200, Garbage))
                            \/ ServiceAnswers(Plain(503, None))
    BY <1>1 DEF SubmissionQueued
  <2>2. [id |-> j, ready |-> FALSE] \in Body
    BY DEF Body
  <2>3. \E a \in Answer : ServiceAnswers(a)
    BY <2>1, <2>2, AnswerTypes DEF Codes
  <2>4. QED
    BY <1>1, <2>3 DEF SubmissionQueued, InCall
<1>2. CASE SubmissionRefused
  BY <1>2, AnswerTypes DEF SubmissionRefused, InCall
<1>3. CASE ProofAnswered
  <2>1. [id |-> id, ready |-> status[id] = "anchored"] \in Body
    BY <1>3 DEF Body, ProofAnswered, SessionTypeOK
  <2>2. \E a \in Answer : ServiceAnswers(a)
    BY <1>3, <2>1, AnswerTypes DEF Codes, ProofAnswered
  <2>3. QED
    BY <1>3, <2>2 DEF ProofAnswered, InCall
<1>4. CASE CallFails
  BY <1>4 DEF CallFails, InCall
<1>5. CASE CallStep
  BY <1>5 DEF CallStep, InCall
<1>6. QED
  BY <1>1, <1>2, <1>3, <1>4, <1>5 DEF CallMoves, NetworkStep

LEMMA CallMovesType == ASSUME SessionTypeOK, SleepAllowed, CallMoves
                       PROVE  SessionTypeOK' /\ SleepAllowed'
<1>1. CallTypeOK' /\ SleepAllowed'
  BY CallMovesFacts, InCallType DEF SessionTypeOK
<1>2. pc' = pc /\ exit' = exit /\ args' = args /\ run' = run /\ id' = id
      /\ shown' = shown /\ disk' = disk /\ report' = report
  BY CallMovesFacts DEF commandVars, outputVars
<1>3. status' \in [JobIds -> {"unused", "queued", "anchored"}]
      /\ owner' \in [JobIds -> 0 .. MaxRuns]
  BY DEF CallMoves, NetworkStep, CallStep, SubmissionQueued, SubmissionRefused,
         ProofAnswered, CallFails, serviceVars, Queue, SessionTypeOK
<1>4. orphans' \in SUBSET Runs
  <2>1. CASE CallFails
    BY <2>1
       DEF CallFails, Abandon, InFlight, SessionTypeOK, Runs
  <2>2. CASE ~CallFails
    BY <2>2 DEF CallMoves, NetworkStep, CallStep, SubmissionQueued,
                SubmissionRefused, ProofAnswered, serviceVars, SessionTypeOK
  <2>3. QED
    BY <2>1, <2>2
<1>5. QED
  BY <1>1, <1>2, <1>3, <1>4 DEF SessionTypeOK, Runs

(* A step of the command that leaves the call and the service alone. *)
LEMMA CommandType ==
  ASSUME SessionTypeOK, SleepAllowed,
         UNCHANGED <<callVars, serviceVars, run>>,
         args' = args, id' \in JobIds \union {None},
         pc' \in {"shell", "write", "writing", "nap"}, pc # "shell",
         pc' # "shell" => id' \in JobIds,
         exit' \in {None, 0, 2, 3, Aborted, Killed},
         shown' \in SUBSET JobIds,
         disk' \in JobIds \union {"absent", "torn"},
         report' \in [Runs -> {"none", "accepted", "refused", "unknown"}]
  PROVE  SessionTypeOK' /\ SleepAllowed'
<1>1. CallTypeOK' /\ SleepAllowed'
  BY DEF SessionTypeOK, CallTypeOK, SleepAllowed, BudgetSpent, TooLong, Wait,
         retry_after, callVars
<1>2. QED
  BY <1>1 DEF SessionTypeOK, serviceVars, Runs

LEMMA CommandStepType ==
  ASSUME SessionTypeOK, SleepAllowed, SubmitInv, CommandStep
  PROVE  SessionTypeOK' /\ SleepAllowed'
<1> USE DEF SessionTypeOK, Exit, commandVars, outputVars
<1>1. CASE CallStep
  BY <1>1, CallMovesType DEF CallMoves
<1>2. CASE Accepted
  <2>1. result.value.id \in JobIds
    BY <1>2 DEF Accepted, SubmitInv, PostInv, Body
  <2>2. report' \in [Runs -> {"none", "accepted", "refused", "unknown"}]
    BY <1>2 DEF Accepted
  <2>3. shown' \in SUBSET JobIds
    BY <1>2, <2>1 DEF Accepted
  <2>4. CASE ~args.wait
    <3>1. pc' = "shell" /\ exit' = 0 /\ UNCHANGED callVars
      BY <1>2, <2>4 DEF Accepted
    <3>2. QED
      BY <1>2, <2>1, <2>2, <2>3, <3>1, CommandType DEF Accepted
  <2>5. CASE args.wait
    <3>1. pc' = "poll" /\ StartCall(0) /\ UNCHANGED exit
      BY <1>2, <2>5 DEF Accepted
    <3>2. CallTypeOK' /\ SleepAllowed'
      BY <3>1, StartType
    <3>3. QED
      BY <1>2, <2>1, <2>2, <2>3, <3>1, <3>2 DEF Accepted, serviceVars, Runs
  <2>6. QED
    BY <2>4, <2>5
<1>3. CASE NotAccepted
  BY <1>3, CommandType DEF NotAccepted, Verdict
<1>4. CASE ProofReady \/ PollFailed \/ StillPending \/ TimedOut \/ PollLater
  BY <1>4, CommandType DEF ProofReady, PollFailed, StillPending, TimedOut,
                           PollLater, Polled
<1>5. CASE NapEnds
  <2>1. PICK s \in 0 .. Slack : StartCall(clock + Poll + s)
    BY <1>5 DEF NapEnds, TimeAfterNap
  <2>2. clock + Poll + s \in Nat
    BY SessionAssumption, TimeAssumption DEF CallTypeOK
  <2>3. CallTypeOK' /\ SleepAllowed'
    BY <2>1, <2>2, StartType
  <2>4. QED
    BY <1>5, <2>3 DEF NapEnds, serviceVars, Runs
<1>6. CASE PrintProof \/ OpenFails \/ Truncate \/ WriteFails \/ WriteDone
  <2>1. pc \in {"write", "writing"} /\ id \in JobIds
    BY <1>6 DEF PrintProof, OpenFails, Truncate, WriteFails, WriteDone
  <2>2. CASE PrintProof
    BY <2>1, <2>2, CommandType DEF PrintProof
  <2>3. CASE OpenFails \/ Truncate \/ WriteFails
    BY <2>1, <2>3, CommandType DEF OpenFails, Truncate, WriteFails
  <2>4. CASE WriteDone
    BY <2>1, <2>4, CommandType DEF WriteDone
  <2>5. QED
    BY <1>6, <2>2, <2>3, <2>4
<1>7. CASE Abort
  <2>1. orphans' \in SUBSET Runs /\ pc # "shell"
    BY <1>7 DEF Abort, Die, Abandon, InFlight, Runs
  <2>2. CallTypeOK' /\ SleepAllowed'
    BY <1>7 DEF Abort, Die, CallTypeOK, SleepAllowed, BudgetSpent, TooLong,
                Wait, retry_after, callVars
  <2>3. QED
    BY <1>7, <2>1, <2>2 DEF Abort, Die, Runs
<1>8. QED
  BY <1>1, <1>2, <1>3, <1>4, <1>5, <1>6, <1>7 DEF CommandStep

LEMMA SessionTypeInit == SessionInit => SessionTypeOK /\ SleepAllowed
<1>1. SUFFICES ASSUME SessionInit PROVE SessionTypeOK /\ SleepAllowed
  OBVIOUS
<1>2. CallTypeOK /\ SleepAllowed
  BY <1>1, CallInvInit DEF SessionInit, CallInv
<1>3. QED
  BY <1>1, <1>2, SessionAssumption DEF SessionInit, SessionTypeOK, Runs

LEMMA SessionTypeNext ==
  ASSUME SessionTypeOK, SleepAllowed, SubmitInv, [SessionNext]_sessionVars
  PROVE  SessionTypeOK' /\ SleepAllowed'
<1> DEFINE CallKept == UNCHANGED callVars
<1>1. CallKept => CallTypeOK' /\ SleepAllowed'
  BY DEF SessionTypeOK, CallTypeOK, SleepAllowed, BudgetSpent, TooLong, Wait,
         retry_after, callVars
<1>2. CASE \E a \in Args : Begin(a)
  <2>1. CallTypeOK' /\ SleepAllowed'
    BY <1>2, StartType DEF Begin
  <2>2. run' \in Runs
    BY <1>2, SessionAssumption DEF Begin, SessionTypeOK, Runs
  <2>3. QED
    BY <1>2, <2>1, <2>2 DEF Begin, SessionTypeOK, outputVars, serviceVars, Runs
<1>3. CASE \E a \in Args : BeginFails(a)
  <2>1. run' \in Runs
    BY <1>3, SessionAssumption DEF BeginFails, SessionTypeOK, Runs
  <2>2. report' \in [Runs -> {"none", "accepted", "refused", "unknown"}]
    BY <1>3 DEF BeginFails, SessionTypeOK
  <2>3. QED
    BY <1>1, <1>3, <2>1, <2>2 DEF BeginFails, SessionTypeOK, serviceVars, Runs
<1>4. CASE CommandStep
  BY <1>4, CommandStepType
<1>5. CASE NetworkStep
  BY <1>5, CallMovesType DEF CallMoves
<1>6. CASE \E r \in orphans : OrphanQueued(r) \/ OrphanDropped(r)
  <2>1. PICK r \in orphans : OrphanQueued(r) \/ OrphanDropped(r)
    BY <1>6
  <2>2. r \in 0 .. MaxRuns
    <3>1. r \in 1 .. MaxRuns
      BY DEF SessionTypeOK, Runs
    <3>2. QED
      BY <3>1, SessionAssumption
  <2>3. /\ status' \in [JobIds -> {"unused", "queued", "anchored"}]
        /\ owner' \in [JobIds -> 0 .. MaxRuns]
    BY <2>1, <2>2 DEF OrphanQueued, OrphanDropped, Queue, SessionTypeOK
  <2>4. /\ UNCHANGED <<callVars, pc, exit, commandVars, outputVars>>
        /\ orphans' \in SUBSET Runs
    BY <2>1 DEF OrphanQueued, OrphanDropped, SessionTypeOK
  <2>5. QED
    BY <1>1, <2>3, <2>4 DEF SessionTypeOK, commandVars, outputVars, Runs
<1>7. CASE AnchorBatch
  BY <1>1, <1>7 DEF AnchorBatch, SessionTypeOK, commandVars, outputVars, Runs
<1>8. CASE Kill
  <2>1. orphans' \in SUBSET Runs /\ pc # "shell"
    BY <1>8 DEF Kill, Die, Abandon, InFlight, SessionTypeOK, Runs
  <2>2. QED
    BY <1>1, <1>8, <2>1 DEF Kill, Die, Exit, SessionTypeOK, commandVars, Runs
<1>9. CASE UNCHANGED sessionVars
  BY <1>1, <1>9 DEF sessionVars, SessionTypeOK, commandVars, outputVars,
                    serviceVars, Runs
<1>10. QED
  BY <1>2, <1>3, <1>4, <1>5, <1>6, <1>7, <1>8, <1>9 DEF SessionNext

-----------------------------------------------------------------------------
(* SubmitInv is inductive. *)

LEMMA VerdictOf == /\ Verdict("Transport") = "unknown"
                   /\ Verdict("Unauthorized") = "refused"
                   /\ Verdict("RateLimited") = "refused"
                   /\ \A k : Verdict(k) \in {"refused", "unknown"}
                   /\ \A k : Verdict(k) = "refused" <=> k \in {"Unauthorized", "RateLimited"}
  BY DEF Verdict

LEMMA HandleVerdict ==
  \A a \in Answer :
    /\ handle(a).is = "Ok" => a.code = 200 /\ a.body # Garbage /\ handle(a).value = a.body
    /\ Verdict(handle(a).is) = "refused" => a.code \in {401, 403, 429}
  BY DEF handle, Ok, Err, Verdict, Answer, Codes

(* What a POST that arrives does to the tables. *)
LEMMA QueueFacts ==
  ASSUME SessionTypeOK, TablesInv, NEW r \in Runs, Queue(r)
  PROVE  \E j \in JobIds :
           /\ owner[j] = 0 /\ owner'[j] = r /\ status'[j] = "queued"
           /\ \A k \in JobIds \ {j} : owner'[k] = owner[k] /\ status'[k] = status[k]
           /\ \A q \in Runs : JobsOf(q)' = IF q = r THEN JobsOf(q) \union {j} ELSE JobsOf(q)
<1>1. PICK j \in JobIds : /\ status[j] = "unused"
                          /\ status' = [status EXCEPT ![j] = "queued"]
                          /\ owner' = [owner EXCEPT ![j] = r]
  BY DEF Queue
<1>2. owner[j] = 0
  BY <1>1 DEF TablesInv
<1>3. owner'[j] = r /\ status'[j] = "queued"
  BY <1>1 DEF SessionTypeOK
<1>4. \A k \in JobIds \ {j} : owner'[k] = owner[k] /\ status'[k] = status[k]
  BY <1>1 DEF SessionTypeOK
<1>5. 0 \notin Runs
  BY SessionAssumption DEF Runs
<1>6. \A q \in Runs : JobsOf(q)' = IF q = r THEN JobsOf(q) \union {j} ELSE JobsOf(q)
  BY <1>2, <1>3, <1>4, <1>5 DEF JobsOf
<1>7. QED
  BY <1>2, <1>3, <1>4, <1>6

(* A new job of a command that has none keeps the tables in order. *)
LEMMA QueueTables ==
  ASSUME SessionTypeOK, TablesInv, NEW r \in Runs, Queue(r), JobsOf(r) = {},
         orphans' \in SUBSET (orphans \ {r})
  PROVE  TablesInv'
<1>1. PICK j \in JobIds :
        /\ owner[j] = 0 /\ owner'[j] = r /\ status'[j] = "queued"
        /\ \A k \in JobIds \ {j} : owner'[k] = owner[k] /\ status'[k] = status[k]
        /\ \A q \in Runs : JobsOf(q)' = IF q = r THEN JobsOf(q) \union {j} ELSE JobsOf(q)
  BY QueueFacts
<1>2. r # 0 /\ \A k \in JobIds : owner[k] # r
  BY SessionAssumption DEF Runs, JobsOf
<1>3. \A k \in JobIds : status'[k] = "unused" <=> owner'[k] = 0
  BY <1>1, <1>2 DEF TablesInv
<1>4. \A k, l \in JobIds : owner'[k] = owner'[l] /\ owner'[k] # 0 => k = l
  <2>1. ASSUME NEW k \in JobIds, NEW l \in JobIds, owner'[k] = owner'[l], owner'[k] # 0
        PROVE  k = l
    <3>1. CASE k # j /\ l # j
      BY <1>1, <2>1, <3>1 DEF TablesInv
    <3>2. CASE k = j \/ l = j
      BY <1>1, <1>2, <2>1, <3>2
    <3>3. QED
      BY <3>1, <3>2
  <2>2. QED
    BY <2>1
<1>5. \A q \in orphans' : JobsOf(q)' = {}
  BY <1>1 DEF TablesInv, SessionTypeOK
<1>6. QED
  BY <1>3, <1>4, <1>5 DEF TablesInv

(* Steps that touch neither the submission nor the tables. *)
LEMMA QuietSubmit ==
  ASSUME SubmitInv, UNCHANGED <<run, report, serviceVars>>, pc' # "post"
  PROVE  SubmitInv'
  BY DEF SubmitInv, TablesInv, FutureInv, VerdictInv, PostInv, JobsOf, Runs,
         serviceVars

(* The same when only the call of the submission moves. *)
LEMMA PostInvSuffices ==
  ASSUME SubmitInv, UNCHANGED <<run, report, serviceVars>>, PostInv'
  PROVE  SubmitInv'
  BY DEF SubmitInv, TablesInv, FutureInv, VerdictInv, JobsOf, Runs, serviceVars

LEMMA CallStepSubmit ==
  ASSUME SessionTypeOK, SubmitInv, CallStep
  PROVE  SubmitInv'
<1>1. UNCHANGED <<run, report, serviceVars, pc>>
  BY DEF CallStep, commandVars, outputVars
<1>2. CASE pc # "post"
  BY <1>1, <1>2, QuietSubmit
<1>3. CASE pc = "post"
  <2>1. JobsOf(run)' = JobsOf(run) /\ orphans' = orphans
    BY <1>1 DEF JobsOf, serviceVars
  <2>2. CASE RefusalPanics \/ GiveUp \/ BackOff
    <3>1. phase = "reply" /\ reply.code = 429 /\ reply' = reply
      BY <2>2 DEF RefusalPanics, GiveUp, BackOff, ReadRefusal, Refused
    <3>2. JobsOf(run) = {} /\ run \notin orphans
      BY <1>3, <3>1 DEF SubmitInv, PostInv, NothingQueued
    <3>3. \/ phase' \in {"panic", "sleep"}
          \/ phase' = "done" /\ result'.is = "RateLimited"
      BY <2>2 DEF RefusalPanics, GiveUp, BackOff, ReadRefusal, Err
    <3>4. PostInv'
      BY <1>1, <1>3, <2>1, <3>2, <3>3 DEF SubmitInv, PostInv
    <3>5. QED
      BY <1>1, <3>4, PostInvSuffices
  <2>3. CASE Retry
    <3>1. phase = "sleep" /\ phase' = "request"
      BY <2>3 DEF Retry
    <3>2. PostInv'
      BY <1>1, <1>3, <2>1, <3>1 DEF SubmitInv, PostInv, NothingQueued
    <3>3. QED
      BY <1>1, <3>2, PostInvSuffices
  <2>4. CASE ReadFinal
    <3>1. phase = "reply" /\ phase' = "done" /\ result' = handle(reply)
      BY <2>4 DEF ReadFinal
    <3>2. reply \in Answer
      BY DEF SessionTypeOK, CallTypeOK
    <3>3. result'.is = "Ok" => result'.value \in Body /\ result'.value.id \in JobsOf(run)
      BY <1>3, <3>1, <3>2, HandleVerdict DEF SubmitInv, PostInv
    <3>4. Verdict(result'.is) = "refused" => reply.code \in {401, 403, 429}
      BY <3>1, <3>2, HandleVerdict
    <3>5. Verdict(result'.is) = "refused" => JobsOf(run) = {} /\ run \notin orphans
      BY <1>3, <3>1, <3>4 DEF SubmitInv, PostInv, NothingQueued
    <3>6. NothingQueued' => Verdict(result'.is) = "refused"
      BY <3>1 DEF NothingQueued, Verdict
    <3>7. PostInv'
      BY <1>1, <1>3, <2>1, <3>1, <3>3, <3>5, <3>6 DEF SubmitInv, PostInv
    <3>8. QED
      BY <1>1, <3>7, PostInvSuffices
  <2>5. QED
    BY <2>2, <2>3, <2>4 DEF CallStep, ClientStep
<1>4. QED
  BY <1>2, <1>3

LEMMA SubmissionQueuedSubmit ==
  ASSUME SessionTypeOK, SubmitInv, SubmissionQueued
  PROVE  SubmitInv'
<1>1. /\ pc = "post" /\ phase = "request" /\ run \in Runs /\ Queue(run)
      /\ UNCHANGED <<orphans, pc, run, report>>
  BY DEF SubmissionQueued, ServiceAnswers, SessionTypeOK, commandVars, outputVars
<1>2. JobsOf(run) = {} /\ run \notin orphans /\ report[run] = "none"
  BY <1>1 DEF SubmitInv, PostInv, NothingQueued
<1>3. TablesInv'
  BY <1>1, <1>2, QueueTables DEF SubmitInv
<1>4. \A q \in Runs : q # run => JobsOf(q)' = JobsOf(q)
  BY <1>1, QueueFacts DEF SubmitInv
<1>5. FutureInv'
  BY <1>1, <1>4, SessionAssumption DEF SubmitInv, FutureInv, Runs
<1>6. VerdictInv'
  BY <1>1, <1>2, <1>4 DEF SubmitInv, VerdictInv, Runs
<1>7. PostInv'
  <2>1. PICK j \in JobIds :
          /\ owner'[j] = run
          /\ \/ ServiceAnswers(Plain(200, [id |-> j, ready |-> FALSE]))
             \/ ServiceAnswers(Plain(200, Garbage))
             \/ ServiceAnswers(Plain(503, None))
    BY DEF SubmissionQueued
  <2>2. phase' = "reply" /\ ~NothingQueued'
    BY <2>1 DEF ServiceAnswers, Plain, NothingQueued
  <2>3. reply'.code = 200 /\ reply'.body # Garbage => reply'.body = [id |-> j, ready |-> FALSE]
    <3> DEFINE job == [id |-> j, ready |-> FALSE]
    <3>1. reply' \in {Plain(200, job), Plain(200, Garbage), Plain(503, None)}
      BY <2>1 DEF ServiceAnswers
    <3>2. \A b : Plain(200, b).body = b /\ Plain(503, b).code # 200
      BY DEF Plain
    <3> HIDE DEF job
    <3>3. reply'.code = 200 /\ reply'.body # Garbage => reply'.body = job
      BY <3>1, <3>2
    <3>4. QED
      BY <3>3 DEF job
  <2>4. j \in JobsOf(run)' /\ [id |-> j, ready |-> FALSE] \in Body
    BY <1>1, <2>1 DEF JobsOf, Body
  <2>5. QED
    BY <1>1, <1>2, <2>2, <2>3, <2>4 DEF PostInv
<1>8. QED
  BY <1>3, <1>5, <1>6, <1>7 DEF SubmitInv

LEMMA SubmissionRefusedSubmit ==
  ASSUME SessionTypeOK, SubmitInv, SubmissionRefused
  PROVE  SubmitInv'
<1>1. /\ pc = "post" /\ phase = "request" /\ phase' = "reply"
      /\ UNCHANGED <<pc, run, report, serviceVars>>
  BY DEF SubmissionRefused, ServiceAnswers, commandVars, outputVars
<1>2. reply'.code # 200
  BY AnswerTypes DEF SubmissionRefused, ServiceAnswers
<1>3. JobsOf(run) = {} /\ run \notin orphans /\ report[run] = "none"
  BY <1>1 DEF SubmitInv, PostInv, NothingQueued
<1>4. JobsOf(run)' = JobsOf(run) /\ orphans' = orphans
  BY <1>1 DEF JobsOf, serviceVars
<1>5. PostInv'
  BY <1>1, <1>2, <1>3, <1>4 DEF PostInv
<1>6. QED
  BY <1>1, <1>5, PostInvSuffices

(* A command that leaves a POST in flight has created nothing yet. *)
LEMMA AbandonSubmit ==
  ASSUME SessionTypeOK, SubmitInv, pc = "post", Abandon,
         UNCHANGED <<run, status, owner>>,
         \/ report' = report
         \/ pc' # "post" /\ report' = [report EXCEPT ![run] = "unknown"],
         PostInv'
  PROVE  SubmitInv'
<1>1. run \in Runs /\ report[run] = "none"
  BY DEF SessionTypeOK, SubmitInv, PostInv
<1>2. \A q \in Runs : JobsOf(q)' = JobsOf(q)
  BY DEF JobsOf
<1>3. /\ orphans' \in {orphans, orphans \union {run}}
      /\ orphans' # orphans => JobsOf(run) = {}
  BY DEF Abandon, InFlight, SubmitInv, PostInv, NothingQueued
<1>4. TablesInv'
  BY <1>2, <1>3 DEF SubmitInv, TablesInv, JobsOf
<1>5. /\ \A q \in Runs : q # run => report'[q] = report[q]
      /\ report'[run] \in {"none", "unknown"}
  BY <1>1 DEF SessionTypeOK
<1>6. FutureInv'
  BY <1>1, <1>2, <1>3, <1>5, SessionAssumption DEF SubmitInv, FutureInv, Runs
<1>7. VerdictInv'
  BY <1>1, <1>2, <1>3, <1>5 DEF SubmitInv, VerdictInv, Runs
<1>8. QED
  BY <1>4, <1>6, <1>7 DEF SubmitInv

LEMMA CallFailsSubmit ==
  ASSUME SessionTypeOK, SubmitInv, CallFails
  PROVE  SubmitInv'
<1>1. UNCHANGED <<run, report, status, owner, pc>>
  BY DEF CallFails, commandVars, outputVars
<1>2. CASE pc # "post"
  <2>1. orphans' = orphans
    BY <1>2 DEF CallFails, Abandon, InFlight
  <2>2. QED
    BY <1>1, <1>2, <2>1, QuietSubmit DEF serviceVars
<1>3. CASE pc = "post"
  <2>1. phase' = "done" /\ result'.is = "Transport"
    BY DEF CallFails, TransportFails, Err
  <2>2. PostInv'
    BY <1>1, <1>3, <2>1, VerdictOf
       DEF SubmitInv, PostInv, NothingQueued, Verdict
  <2>3. QED
    BY <1>1, <1>3, <2>2, AbandonSubmit DEF CallFails
<1>4. QED
  BY <1>2, <1>3

LEMMA DieSubmit ==
  ASSUME SessionTypeOK, SubmitInv, NEW code, Die(code)
  PROVE  SubmitInv'
<1>1. UNCHANGED <<run, status, owner>> /\ pc' = "shell" /\ Abandon
  BY DEF Die, Exit, commandVars
<1>2. CASE pc # "post"
  <2>1. orphans' = orphans /\ report' = report
    BY <1>2 DEF Die, Abandon, InFlight
  <2>2. QED
    BY <1>1, <2>1, QuietSubmit DEF serviceVars
<1>3. CASE pc = "post"
  <2>1. report' = [report EXCEPT ![run] = "unknown"]
    BY <1>3 DEF Die
  <2>2. PostInv'
    BY <1>1 DEF PostInv
  <2>3. QED
    BY <1>1, <1>3, <2>1, <2>2, AbandonSubmit
<1>4. QED
  BY <1>2, <1>3

(* A verdict that is true of what the tables say now. *)
LEMMA TellSubmit ==
  ASSUME SessionTypeOK, SubmitInv, NEW r \in Runs, r <= run', run' >= run,
         run' \in 0 .. MaxRuns,
         report[r] = "none", pc' # "post", UNCHANGED serviceVars,
         NEW v \in {"accepted", "refused", "unknown"},
         report' = [report EXCEPT ![r] = v],
         v = "accepted" => JobsOf(r) # {},
         v = "refused" => JobsOf(r) = {} /\ r \notin orphans
  PROVE  SubmitInv'
<1>1. /\ \A q \in Runs : JobsOf(q)' = JobsOf(q)
      /\ orphans' = orphans
  BY DEF JobsOf, serviceVars
<1>2. /\ \A q \in Runs : q # r => report'[q] = report[q]
      /\ report'[r] = v
  BY DEF SessionTypeOK
<1>3. TablesInv'
  BY <1>1 DEF SubmitInv, TablesInv, serviceVars, JobsOf
<1>4. FutureInv'
  BY <1>1, <1>2, SessionAssumption DEF SubmitInv, FutureInv, Runs, SessionTypeOK
<1>5. r \in orphans => v = "unknown"
  BY DEF SubmitInv, TablesInv
<1>6. VerdictInv'
  BY <1>1, <1>2, <1>5 DEF SubmitInv, VerdictInv, Runs
<1>7. QED
  BY <1>3, <1>4, <1>6 DEF SubmitInv, PostInv

LEMMA VerdictStepSubmit ==
  ASSUME SessionTypeOK, SubmitInv, Accepted \/ NotAccepted
  PROVE  SubmitInv'
<1>1. run \in Runs /\ report[run] = "none" /\ run <= run /\ run \in 0 .. MaxRuns
  BY DEF Accepted, NotAccepted, SessionTypeOK, SubmitInv, PostInv
<1>2. CASE Accepted
  <2>1. JobsOf(run) # {} /\ pc' # "post" /\ run' = run /\ UNCHANGED serviceVars
    BY <1>2 DEF Accepted, SubmitInv, PostInv, Exit, serviceVars
  <2>2. report' = [report EXCEPT ![run] = "accepted"]
    BY <1>2 DEF Accepted
  <2>3. QED
    BY <1>1, <2>1, <2>2, TellSubmit
<1>3. CASE NotAccepted
  <2>1. pc' # "post" /\ run' = run /\ UNCHANGED serviceVars
    BY <1>3 DEF NotAccepted, Exit, commandVars, serviceVars
  <2>2. report' = [report EXCEPT ![run] = Verdict(result.is)]
    BY <1>3 DEF NotAccepted
  <2>3. Verdict(result.is) = "refused" => JobsOf(run) = {} /\ run \notin orphans
    BY <1>3 DEF NotAccepted, SubmitInv, PostInv, NothingQueued
  <2>4. Verdict(result.is) \in {"refused", "unknown"}
    BY VerdictOf
  <2>5. QED
    BY <1>1, <2>1, <2>2, <2>3, <2>4, TellSubmit
<1>4. QED
  BY <1>2, <1>3

LEMMA BeginSubmit ==
  ASSUME SessionTypeOK, SubmitInv, NEW a \in Args, Begin(a) \/ BeginFails(a)
  PROVE  SubmitInv'
<1>1. run' = run + 1 /\ run' \in Runs /\ UNCHANGED serviceVars /\ pc = "shell"
  BY SessionAssumption DEF Begin, BeginFails, SessionTypeOK, Runs
<1>2. JobsOf(run') = {} /\ run' \notin orphans /\ report[run'] = "none"
  BY <1>1 DEF SubmitInv, FutureInv, SessionTypeOK
<1>3. CASE Begin(a)
  <2>1. report' = report /\ phase' = "request"
    BY <1>3 DEF Begin, outputVars, StartCall
  <2>2. \A q \in Runs : JobsOf(q)' = JobsOf(q)
    BY <1>1 DEF JobsOf, serviceVars
  <2>3. TablesInv' /\ VerdictInv'
    BY <1>1, <2>1 DEF SubmitInv, TablesInv, VerdictInv, JobsOf, Runs, serviceVars
  <2>4. FutureInv'
    BY <1>1, <2>1, <2>2, SessionAssumption
       DEF SubmitInv, FutureInv, Runs, serviceVars, SessionTypeOK
  <2>5. PostInv'
    BY <1>1, <1>2, <2>1, <2>2 DEF PostInv, serviceVars
  <2>6. QED
    BY <2>3, <2>4, <2>5 DEF SubmitInv
<1>4. CASE BeginFails(a) /\ a.name = "anchor"
  <2>1. report' = [report EXCEPT ![run'] = "refused"] /\ pc' # "post"
    BY <1>1, <1>4 DEF BeginFails
  <2>2. run' >= run /\ run' <= run' /\ run' \in 0 .. MaxRuns
    BY <1>1, SessionAssumption DEF SessionTypeOK, Runs
  <2>3. QED
    BY <1>1, <1>2, <2>1, <2>2, TellSubmit
<1>5. CASE BeginFails(a) /\ a.name # "anchor"
  <2>1. report' = report /\ pc' # "post"
    BY <1>1, <1>5 DEF BeginFails
  <2>2. \A q \in Runs : JobsOf(q)' = JobsOf(q)
    BY <1>1 DEF JobsOf, serviceVars
  <2>3. TablesInv' /\ VerdictInv'
    BY <1>1, <2>1 DEF SubmitInv, TablesInv, VerdictInv, JobsOf, Runs, serviceVars
  <2>4. FutureInv'
    BY <1>1, <2>1, <2>2, SessionAssumption
       DEF SubmitInv, FutureInv, Runs, serviceVars, SessionTypeOK
  <2>5. QED
    BY <2>1, <2>3, <2>4 DEF SubmitInv, PostInv
<1>6. QED
  BY <1>3, <1>4, <1>5

LEMMA OrphanSubmit ==
  ASSUME SessionTypeOK, SubmitInv, NEW r \in orphans,
         OrphanQueued(r) \/ OrphanDropped(r)
  PROVE  SubmitInv'
<1>1. /\ r \in Runs /\ orphans' = orphans \ {r} /\ JobsOf(r) = {}
      /\ report[r] \in {"none", "unknown"}
      /\ r <= run
      /\ UNCHANGED <<callVars, run, report, pc>>
  <2>1. r \in Runs /\ orphans' = orphans \ {r} /\ UNCHANGED <<callVars, run, report, pc>>
    BY DEF OrphanQueued, OrphanDropped, commandVars, outputVars, SessionTypeOK
  <2>2. r <= run
    BY <2>1, SessionAssumption DEF SubmitInv, FutureInv, Runs, SessionTypeOK
  <2>3. QED
    BY <2>1, <2>2 DEF SubmitInv, TablesInv, VerdictInv
<1>2. CASE OrphanQueued(r)
  <2>1. Queue(r)
    BY <1>2 DEF OrphanQueued
  <2>2. TablesInv'
    BY <1>1, <2>1, QueueTables DEF SubmitInv
  <2>3. \A q \in Runs : q # r => JobsOf(q)' = JobsOf(q)
    BY <1>1, <2>1, QueueFacts DEF SubmitInv
  <2>4. JobsOf(r)' # {}
    BY <1>1, <2>1, QueueFacts DEF SubmitInv
  <2>5. FutureInv'
    BY <1>1, <2>3, SessionAssumption DEF SubmitInv, FutureInv, Runs, SessionTypeOK
  <2>6. VerdictInv'
    BY <1>1, <2>3, <2>4 DEF SubmitInv, VerdictInv, Runs
  <2>7. PostInv'
    <3>1. SUFFICES ASSUME pc = "post" PROVE PostInv'
      BY <1>1 DEF PostInv
    <3>2. run \in Runs
      BY <3>1 DEF SessionTypeOK
    <3>3. /\ NothingQueued' = NothingQueued
          /\ phase' = phase /\ reply' = reply /\ result' = result /\ run' = run /\ pc' = pc
          /\ report' = report
      BY <1>1 DEF NothingQueued, callVars, Verdict
    <3>4. CASE r = run
      <4>1. /\ ~NothingQueued /\ phase # "reply" /\ result.is # "Ok"
            /\ phase = "done" /\ report[run] = "none"
        BY <1>1, <3>1, <3>4 DEF SubmitInv, PostInv, NothingQueued
      <4>2. QED
        BY <1>1, <3>3, <4>1 DEF PostInv
    <3>5. CASE r # run
      <4>1. JobsOf(run)' = JobsOf(run) /\ (run \in orphans' <=> run \in orphans)
        BY <1>1, <2>3, <3>2, <3>5
      <4>2. PostInv
        BY DEF SubmitInv
      <4>3. QED
        BY <3>1, <3>3, <4>1, <4>2 DEF PostInv
    <3>6. QED
      BY <3>4, <3>5
  <2>8. QED
    BY <2>2, <2>5, <2>6, <2>7 DEF SubmitInv
<1>3. CASE OrphanDropped(r)
  <2>1. UNCHANGED <<status, owner>>
    BY <1>3 DEF OrphanDropped
  <2>2. \A q \in Runs : JobsOf(q)' = JobsOf(q)
    BY <2>1 DEF JobsOf
  <2>3. TablesInv' /\ FutureInv' /\ VerdictInv'
    BY <1>1, <2>1, <2>2 DEF SubmitInv, TablesInv, FutureInv, VerdictInv, Runs, JobsOf
  <2>4. NothingQueued' = NothingQueued /\ JobsOf(run)' = JobsOf(run)
    BY <1>1, <2>1 DEF NothingQueued, callVars, Verdict, JobsOf
  <2>5. PostInv'
    BY <1>1, <2>4 DEF SubmitInv, PostInv, callVars
  <2>6. QED
    BY <2>3, <2>5 DEF SubmitInv
<1>4. QED
  BY <1>2, <1>3

LEMMA AnchorBatchSubmit ==
  ASSUME SessionTypeOK, SubmitInv, AnchorBatch
  PROVE  SubmitInv'
<1>1. UNCHANGED <<callVars, pc, run, report, owner, orphans>>
  BY DEF AnchorBatch, commandVars, outputVars
<1>2. \A j \in JobIds : status'[j] = "unused" <=> status[j] = "unused"
  BY DEF AnchorBatch, SessionTypeOK
<1>3. TablesInv'
  BY <1>1, <1>2 DEF SubmitInv, TablesInv, JobsOf
<1>4. FutureInv' /\ VerdictInv'
  BY <1>1 DEF SubmitInv, FutureInv, VerdictInv, JobsOf, Runs
<1>5. PostInv'
  BY <1>1 DEF SubmitInv, PostInv, NothingQueued, Verdict, JobsOf, callVars
<1>6. QED
  BY <1>3, <1>4, <1>5 DEF SubmitInv

LEMMA SubmitInvInit == SessionInit => SubmitInv
<1>1. SUFFICES ASSUME SessionInit PROVE SubmitInv
  OBVIOUS
<1>2. \A r \in Runs : JobsOf(r) = {}
  BY <1>1, SessionAssumption DEF SessionInit, JobsOf, Runs
<1>3. QED
  BY <1>1, <1>2 DEF SessionInit, SubmitInv, TablesInv, FutureInv, VerdictInv, PostInv

LEMMA SubmitInvNext ==
  ASSUME SessionTypeOK, SubmitInv, [SessionNext]_sessionVars
  PROVE  SubmitInv'
<1>1. CASE \E a \in Args : Begin(a) \/ BeginFails(a)
  BY <1>1, BeginSubmit
<1>2. CASE CallStep
  BY <1>2, CallStepSubmit
<1>3. CASE Accepted \/ NotAccepted
  BY <1>3, VerdictStepSubmit
<1>4. CASE ProofReady \/ PollFailed \/ StillPending \/ TimedOut \/ PollLater \/ NapEnds
  BY <1>4, QuietSubmit
     DEF ProofReady, PollFailed, StillPending, TimedOut, PollLater, NapEnds,
         Exit, commandVars, outputVars
<1>5. CASE PrintProof \/ OpenFails \/ Truncate \/ WriteFails \/ WriteDone
  BY <1>5, QuietSubmit
     DEF PrintProof, OpenFails, Truncate, WriteFails, WriteDone, Exit,
         commandVars, outputVars
<1>6. CASE Abort \/ Kill
  BY <1>6, DieSubmit DEF Abort, Kill
<1>7. CASE SubmissionQueued
  BY <1>7, SubmissionQueuedSubmit
<1>8. CASE SubmissionRefused
  BY <1>8, SubmissionRefusedSubmit
<1>9. CASE ProofAnswered
  BY <1>9, QuietSubmit DEF ProofAnswered, commandVars, outputVars
<1>10. CASE CallFails
  BY <1>10, CallFailsSubmit
<1>11. CASE \E r \in orphans : OrphanQueued(r) \/ OrphanDropped(r)
  BY <1>11, OrphanSubmit
<1>12. CASE AnchorBatch
  BY <1>12, AnchorBatchSubmit
<1>13. CASE UNCHANGED sessionVars
  BY <1>13 DEF sessionVars, callVars, commandVars, outputVars, serviceVars,
               SubmitInv, TablesInv, FutureInv, VerdictInv, PostInv,
               NothingQueued, Verdict, JobsOf, Runs
<1>14. QED
  BY <1>1, <1>2, <1>3, <1>4, <1>5, <1>6, <1>7, <1>8, <1>9, <1>10, <1>11,
     <1>12, <1>13 DEF SessionNext, CommandStep, NetworkStep

-----------------------------------------------------------------------------
(* TimeInv is inductive. *)

LEMMA SameCallTime ==
  ASSUME SpentSince(Timeout + Slack), UNCHANGED callVars
  PROVE  SpentSince(Timeout + Slack)'
  BY DEF SpentSince, AttemptMax, callVars

LEMMA TimeInvInit == SessionInit => TimeInv
<1>1. SUFFICES ASSUME SessionInit PROVE TimeInv
  OBVIOUS
<1>2. attempt * AttemptMax = 0
  BY <1>1, AttemptMaxType DEF SessionInit, CallInit
<1>3. QED
  BY <1>1, <1>2, SessionAssumption, TimeAssumption
     DEF SessionInit, CallInit, TimeInv, SpentSince

LEMMA TimeInvNext ==
  ASSUME SessionTypeOK, SleepAllowed, TimeInv, [SessionNext]_sessionVars
  PROVE  TimeInv'
<1> DEFINE base == Timeout + Slack
<1>1. base \in Nat /\ CallTypeOK /\ SpentSince(base)
  BY SessionAssumption, TimeAssumption DEF TimeInv, SessionTypeOK
<1>2. CASE NetworkStep \/ CallStep
  <2>1. InCall /\ pc' = pc /\ pc # "nap"
    BY <1>2, CallMovesFacts DEF CallMoves
  <2>2. SpentSince(base)'
    BY <1>1, <2>1, InCallSpent
  <2>3. QED
    BY <2>1, <2>2 DEF TimeInv
<1>3. CASE NapEnds
  <2>1. PICK s \in 0 .. Slack : StartCall(clock + Poll + s)
    BY <1>3 DEF NapEnds, TimeAfterNap
  <2>2. clock + Poll + s \in Nat /\ clock + Poll + s <= base
    BY <1>1, <1>3, SessionAssumption, TimeAssumption DEF NapEnds, TimeInv, CallTypeOK
  <2>3. SpentSince(base)'
    BY <1>1, <2>1, <2>2, StartSpent
  <2>4. QED
    BY <1>3, <2>3 DEF TimeInv, NapEnds
<1>4. CASE StartCall(0) /\ pc' # "nap"
  <2>1. SpentSince(base)'
    BY <1>1, <1>4, StartSpent
  <2>2. QED
    BY <1>4, <2>1 DEF TimeInv
<1>5. CASE UNCHANGED callVars /\ (pc' = "nap" => pc = "nap" \/ PollLater)
  <2>1. SpentSince(base)'
    BY <1>1, <1>5, SameCallTime
  <2>2. pc' = "nap" => clock' + Poll <= Timeout
    <3>1. clock' = clock /\ clock \in Nat
      BY <1>5 DEF callVars, SessionTypeOK, CallTypeOK
    <3>2. PollLater => clock + Poll <= Timeout
      BY <3>1, SessionAssumption DEF PollLater, TimeUp
    <3>3. QED
      BY <1>5, <3>1, <3>2 DEF TimeInv
  <2>3. QED
    BY <2>1, <2>2 DEF TimeInv
<1>6. CASE \E a \in Args : Begin(a) \/ BeginFails(a)
  BY <1>4, <1>5, <1>6 DEF Begin, BeginFails
<1>7. CASE Accepted \/ NotAccepted
  BY <1>4, <1>5, <1>7 DEF Accepted, NotAccepted, Exit
<1>8. CASE ProofReady \/ PollFailed \/ StillPending \/ TimedOut \/ PollLater
  BY <1>5, <1>8 DEF ProofReady, PollFailed, StillPending, TimedOut, PollLater, Exit
<1>9. CASE PrintProof \/ OpenFails \/ Truncate \/ WriteFails \/ WriteDone \/ Abort \/ Kill
  BY <1>5, <1>9 DEF PrintProof, OpenFails, Truncate, WriteFails, WriteDone, Exit,
                    Abort, Kill, Die
<1>10. CASE AnchorBatch \/ UNCHANGED sessionVars
  BY <1>5, <1>10 DEF AnchorBatch, sessionVars
<1>11. CASE \E r \in orphans : OrphanQueued(r) \/ OrphanDropped(r)
  BY <1>5, <1>11 DEF OrphanQueued, OrphanDropped
<1>12. QED
  BY <1>2, <1>3, <1>6, <1>7, <1>8, <1>9, <1>10, <1>11 DEF SessionNext, CommandStep

-----------------------------------------------------------------------------
(* OutcomeInv is inductive. *)

(* The service forgets no job. *)
JobsKept ==
  /\ \A j \in JobIds : status[j] = "anchored" => status'[j] = "anchored"
  /\ \A r \in Runs : \A j \in JobsOf(r) : j \in JobsOf(r)'

LEMMA QueueKeeps ==
  ASSUME SessionTypeOK, TablesInv, NEW r \in Runs, Queue(r)
  PROVE  JobsKept
<1>1. PICK j \in JobIds :
        /\ owner[j] = 0 /\ owner'[j] = r /\ status'[j] = "queued"
        /\ \A k \in JobIds \ {j} : owner'[k] = owner[k] /\ status'[k] = status[k]
        /\ \A q \in Runs : JobsOf(q)' = IF q = r THEN JobsOf(q) \union {j} ELSE JobsOf(q)
  BY QueueFacts
<1>2. status[j] # "anchored"
  BY <1>1 DEF TablesInv
<1>3. QED
  BY <1>1, <1>2 DEF JobsKept

LEMMA SameTablesKeep == ASSUME UNCHANGED <<status, owner>> PROVE JobsKept
  BY DEF JobsKept, JobsOf

LEMMA StepsKeep ==
  ASSUME SessionTypeOK, TablesInv, [SessionNext]_sessionVars
  PROVE  JobsKept
<1>1. CASE SubmissionQueued
  BY <1>1, QueueKeeps DEF SubmissionQueued, SessionTypeOK
<1>2. CASE \E r \in orphans : OrphanQueued(r) \/ OrphanDropped(r)
  BY <1>2, QueueKeeps, SameTablesKeep DEF OrphanQueued, OrphanDropped, SessionTypeOK
<1>3. CASE AnchorBatch
  BY <1>3 DEF AnchorBatch, JobsKept, JobsOf, SessionTypeOK
<1>4. CASE UNCHANGED <<status, owner>>
  BY <1>4, SameTablesKeep
<1>5. CASE (\E a \in Args : Begin(a) \/ BeginFails(a)) \/ CommandStep \/ Kill
  BY <1>4, <1>5
     DEF Begin, BeginFails, CommandStep, CallStep, Accepted, NotAccepted, ProofReady,
         PollFailed, StillPending, TimedOut, PollLater, NapEnds, PrintProof, OpenFails,
         Truncate, WriteFails, WriteDone, Abort, Kill, Die, serviceVars
<1>6. CASE SubmissionRefused \/ ProofAnswered \/ CallFails \/ UNCHANGED sessionVars
  BY <1>4, <1>6 DEF SubmissionRefused, ProofAnswered, CallFails, sessionVars, serviceVars
<1>7. QED
  BY <1>1, <1>2, <1>3, <1>5, <1>6 DEF SessionNext, NetworkStep

(* Steps of others: the command and its call stay where they are. *)
LEMMA OthersOutcome ==
  ASSUME SessionTypeOK, OutcomeInv, JobsKept,
         UNCHANGED <<callVars, pc, exit, commandVars, outputVars>>
  PROVE  OutcomeInv'
<1>1. /\ id' = id /\ run' = run /\ args' = args /\ pc' = pc /\ exit' = exit
      /\ shown' = shown /\ disk' = disk /\ report' = report
      /\ phase' = phase /\ reply' = reply /\ result' = result
  BY DEF commandVars, outputVars, callVars
<1>2. /\ pc # "shell" => run \in Runs
      /\ exit = 0 => run \in Runs
      /\ id \in shown => id \in JobIds
  BY JobIdAssumption, HeaderAssumption DEF SessionTypeOK, OutcomeInv, RunningInv
<1>5. RunningInv'
  BY <1>1, <1>2 DEF OutcomeInv, RunningInv, JobsKept, Following, Runs
<1>6. ReadyInv'
  BY <1>1, <1>2 DEF OutcomeInv, ReadyInv, JobsKept, Ready, SessionTypeOK
<1>7. SuccessIsDurable'
  BY <1>1, <1>2 DEF OutcomeInv, SuccessIsDurable, JobsKept
<1>8. AcceptedIdShown'
  BY <1>1 DEF OutcomeInv, AcceptedIdShown, Ended, GaveUpWaiting, Pending, Ready
<1>9. QED
  BY <1>5, <1>6, <1>7, <1>8 DEF OutcomeInv

(* Steps of the network, and of the client inside a call. *)
LEMMA CallMovesOutcome ==
  ASSUME SessionTypeOK, OutcomeInv, JobsKept, CallMoves
  PROVE  OutcomeInv'
<1>1. /\ id' = id /\ run' = run /\ args' = args /\ pc' = pc /\ exit' = exit
      /\ shown' = shown /\ disk' = disk /\ report' = report
      /\ pc \in {"post", "poll"}
  BY CallMovesFacts DEF commandVars, outputVars
<1>2. run \in Runs /\ exit = None /\ id \in JobIds \union {None}
  BY <1>1 DEF SessionTypeOK, OutcomeInv, RunningInv
<1>3. RunningInv'
  BY <1>1, <1>2 DEF OutcomeInv, RunningInv, JobsKept, Following
<1>4. SuccessIsDurable' /\ AcceptedIdShown'
  BY <1>1 DEF SuccessIsDurable, AcceptedIdShown, Ended
<1>5. ReadyInv'
  <2>1. CASE pc = "post"
    BY <1>1, <2>1 DEF ReadyInv
  <2>2. CASE pc = "poll"
    <3>1. id \in JobIds /\ (status[id] = "anchored" => status'[id] = "anchored")
      BY <2>2 DEF SessionTypeOK, JobsKept
    <3>2. CASE ProofAnswered
      <4>1. phase' = "reply" /\ status' = status
        BY <3>2 DEF ProofAnswered, ServiceAnswers, serviceVars
      <4>2. \/ reply' = Plain(200, [id |-> id, ready |-> status[id] = "anchored"])
            \/ reply' = Plain(200, Garbage)
            \/ reply'.code # 200
        BY <3>2, AnswerTypes DEF ProofAnswered, ServiceAnswers
      <4>3. [id |-> id, ready |-> status[id] = "anchored"] \in Body
        BY <3>1 DEF Body
      <4>4. reply'.code = 200 /\ reply'.body # Garbage =>
              reply'.body = [id |-> id, ready |-> status[id] = "anchored"]
        BY <4>2 DEF Plain
      <4>5. reply'.code = 200 /\ reply'.body # Garbage =>
              reply'.body \in Body /\ (reply'.body.ready => status'[id'] = "anchored")
        <5> DEFINE b == [id |-> id, ready |-> status[id] = "anchored"]
        <5>1. b.ready => status'[id'] = "anchored"
          BY <1>1, <4>1
        <5>2. QED
          BY <4>3, <4>4, <5>1, Zenon
      <4>6. QED
        BY <1>1, <2>2, <4>1, <4>5 DEF ReadyInv
    <3>3. CASE CallFails
      BY <1>1, <2>2, <3>3 DEF CallFails, TransportFails, Err, ReadyInv, Ready
    <3>4. CASE CallStep
      <4>1. CASE ReadFinal
        <5>1. /\ phase = "reply" /\ phase' = "done" /\ result' = handle(reply)
              /\ reply \in Answer
          BY <4>1 DEF ReadFinal, SessionTypeOK, CallTypeOK
        <5>2. Ready' => reply.code = 200 /\ reply.body # Garbage /\ reply.body.ready
          BY <5>1, HandleVerdict DEF Ready
        <5>3. Ready' => status[id] = "anchored"
          BY <2>2, <5>1, <5>2 DEF OutcomeInv, ReadyInv
        <5>4. QED
          BY <1>1, <2>2, <3>1, <5>1, <5>3 DEF ReadyInv
      <4>2. CASE RefusalPanics \/ GiveUp \/ BackOff
        <5>1. \/ phase' \in {"panic", "sleep"}
              \/ phase' = "done" /\ result'.is = "RateLimited"
          BY <4>2 DEF RefusalPanics, GiveUp, BackOff, ReadRefusal, Err
        <5>2. QED
          BY <1>1, <2>2, <5>1 DEF ReadyInv, Ready
      <4>3. CASE Retry
        BY <1>1, <2>2, <4>3 DEF Retry, ReadyInv
      <4>4. QED
        BY <3>4, <4>1, <4>2, <4>3 DEF CallStep, ClientStep
    <3>5. QED
      BY <2>2, <3>2, <3>3, <3>4
         DEF CallMoves, NetworkStep, SubmissionQueued, SubmissionRefused
  <2>3. QED
    BY <1>1, <2>1, <2>2
<1>6. QED
  BY <1>3, <1>4, <1>5 DEF OutcomeInv

(* The ends of commands: what the shell is left with. *)
LEMMA EndOutcome ==
  ASSUME run' \in Runs, pc' = "shell", SuccessIsDurable', AcceptedIdShown'
  PROVE  OutcomeInv'
  BY DEF OutcomeInv, RunningInv, ReadyInv, Following

(* A command goes on with what it has. *)
LEMMA GoesOnOutcome ==
  ASSUME pc' # "shell", exit' = None, RunningInv', ReadyInv'
  PROVE  OutcomeInv'
  BY DEF OutcomeInv, SuccessIsDurable, AcceptedIdShown, Ended

LEMMA BeginOutcome ==
  ASSUME SessionTypeOK, OutcomeInv, \E a \in Args : Begin(a) \/ BeginFails(a)
  PROVE  OutcomeInv'
<1>1. PICK a \in Args : Begin(a) \/ BeginFails(a)
  OBVIOUS
<1>2. run' \in Runs
  BY <1>1, SessionAssumption DEF Begin, BeginFails, SessionTypeOK, Runs
<1>3. CASE Begin(a)
  <2>1. RunningInv'
    BY <1>3 DEF Begin, RunningInv, Following
  <2>2. phase' = "request" /\ pc' \in {"post", "poll"} /\ exit' = None
    BY <1>3 DEF Begin, StartCall
  <2>3. ReadyInv'
    BY <2>2 DEF ReadyInv
  <2>4. QED
    BY <2>1, <2>2, <2>3, GoesOnOutcome
<1>4. CASE BeginFails(a)
  <2>1. pc' = "shell" /\ exit' = 2 /\ args' = a
    BY <1>4 DEF BeginFails
  <2>2. a.name = "anchor" => report'[run'] = "refused"
    BY <1>2, <1>4 DEF BeginFails, SessionTypeOK
  <2>3. QED
    BY <1>2, <2>1, <2>2, EndOutcome DEF SuccessIsDurable, AcceptedIdShown, Ended
<1>5. QED
  BY <1>1, <1>3, <1>4

LEMMA AcceptedOutcome ==
  ASSUME SessionTypeOK, SubmitInv, OutcomeInv, Accepted
  PROVE  OutcomeInv'
<1>1. /\ run' = run /\ run \in Runs /\ args' = args /\ args.name = "anchor"
      /\ owner' = owner /\ exit = None
  BY DEF Accepted, serviceVars, SessionTypeOK, OutcomeInv, RunningInv
<1>2. id' \in JobsOf(run)'
  BY <1>1 DEF Accepted, SubmitInv, PostInv, JobsOf
<1>3. id' \in shown' \/ (args.wait /\ args.json)
  BY DEF Accepted
<1>4. CASE ~args.wait
  <2>1. pc' = "shell"
    BY <1>4 DEF Accepted, Exit
  <2>2. SuccessIsDurable' /\ AcceptedIdShown'
    BY <1>1, <1>2, <1>3, <1>4 DEF SuccessIsDurable, AcceptedIdShown
  <2>3. QED
    BY <1>1, <2>1, <2>2, EndOutcome
<1>5. CASE args.wait
  <2>1. pc' = "poll" /\ phase' = "request" /\ exit' = None
    BY <1>1, <1>5 DEF Accepted, StartCall
  <2>2. RunningInv'
    BY <1>1, <1>2, <1>3, <1>5, <2>1 DEF RunningInv, Following
  <2>3. ReadyInv'
    BY <2>1 DEF ReadyInv
  <2>4. QED
    BY <2>1, <2>2, <2>3, GoesOnOutcome
<1>6. QED
  BY <1>4, <1>5

LEMMA NotAcceptedOutcome ==
  ASSUME SessionTypeOK, OutcomeInv, NotAccepted
  PROVE  OutcomeInv'
<1>1. /\ run' = run /\ run \in Runs /\ pc' = "shell" /\ exit' = 2
      /\ report' = [report EXCEPT ![run] = Verdict(result.is)]
  BY DEF NotAccepted, Exit, commandVars, SessionTypeOK
<1>2. report'[run'] # "accepted"
  BY <1>1, VerdictOf DEF SessionTypeOK
<1>3. QED
  BY <1>1, <1>2, EndOutcome DEF SuccessIsDurable, AcceptedIdShown

(* A proof was asked for and does not come, yet. *)
LEMMA PollOutcome ==
  ASSUME SessionTypeOK, OutcomeInv,
         ProofReady \/ PollFailed \/ StillPending \/ TimedOut \/ PollLater
  PROVE  OutcomeInv'
<1>1. /\ pc = "poll" /\ phase = "done" /\ run \in Runs /\ exit = None
      /\ run' = run /\ args' = args /\ id' = id /\ report' = report
      /\ UNCHANGED <<callVars, serviceVars>>
  BY DEF ProofReady, PollFailed, StillPending, TimedOut, PollLater, Polled,
         commandVars, outputVars, SessionTypeOK, OutcomeInv, RunningInv
<1>2. JobsOf(run)' = JobsOf(run) /\ result' = result /\ status' = status
  BY <1>1 DEF JobsOf, callVars, serviceVars
<1>3. args.name = "anchor" => args.wait /\ (id \in shown \/ args.json)
  BY <1>1 DEF OutcomeInv, RunningInv, Following
<1>4. CASE ProofReady \/ PollLater
  <2>1. /\ pc' \in {"write", "nap"} /\ exit' = None /\ shown' = shown
        /\ pc' = "write" => Ready
    BY <1>1, <1>4 DEF ProofReady, PollLater, outputVars
  <2>2. RunningInv'
    BY <1>1, <1>2, <2>1 DEF OutcomeInv, RunningInv, Following
  <2>3. ReadyInv'
    BY <1>1, <1>2, <2>1 DEF OutcomeInv, ReadyInv, Ready
  <2>4. QED
    BY <2>1, <2>2, <2>3, GoesOnOutcome
<1>5. CASE PollFailed \/ StillPending \/ TimedOut
  <2>1. /\ pc' = "shell" /\ exit' \in {2, 3}
        /\ \/ shown' = shown /\ (Pending => ~args.wait)
           \/ shown' = shown \union {id}
    BY <1>5 DEF PollFailed, StillPending, TimedOut, Exit, outputVars, Pending
  <2>2. Pending' = Pending
    BY <1>2 DEF Pending, Ready
  <2>3. SuccessIsDurable'
    BY <2>1 DEF SuccessIsDurable
  <2>4. AcceptedIdShown'
    BY <1>1, <1>3, <2>1, <2>2 DEF AcceptedIdShown, Ended, GaveUpWaiting
  <2>5. QED
    BY <1>1, <2>1, <2>3, <2>4, EndOutcome
<1>6. QED
  BY <1>4, <1>5

LEMMA NapEndsOutcome ==
  ASSUME SessionTypeOK, OutcomeInv, NapEnds
  PROVE  OutcomeInv'
<1>1. /\ pc = "nap" /\ pc' = "poll" /\ phase' = "request" /\ exit = None
      /\ run' = run /\ run \in Runs /\ args' = args /\ id' = id
      /\ shown' = shown /\ exit' = exit /\ owner' = owner
  BY DEF NapEnds, StartCall, commandVars, outputVars, serviceVars, SessionTypeOK,
         OutcomeInv, RunningInv
<1>2. RunningInv'
  BY <1>1 DEF OutcomeInv, RunningInv, Following, JobsOf
<1>3. ReadyInv'
  BY <1>1 DEF ReadyInv
<1>4. QED
  BY <1>1, <1>2, <1>3, GoesOnOutcome

LEMMA WriteOutcome ==
  ASSUME SessionTypeOK, OutcomeInv,
         PrintProof \/ OpenFails \/ Truncate \/ WriteFails \/ WriteDone
  PROVE  OutcomeInv'
<1>1. /\ pc \in {"write", "writing"} /\ run \in Runs /\ exit = None
      /\ run' = run /\ args' = args /\ id' = id /\ report' = report
      /\ UNCHANGED <<callVars, serviceVars>>
      /\ Ready /\ status[id] = "anchored" /\ (pc = "writing" => args.out)
  BY DEF PrintProof, OpenFails, Truncate, WriteFails, WriteDone,
         commandVars, outputVars, SessionTypeOK, OutcomeInv, RunningInv, ReadyInv
<1>2. JobsOf(run)' = JobsOf(run) /\ result' = result /\ status' = status
  BY <1>1 DEF JobsOf, callVars, serviceVars
<1>3. args.name = "anchor" => args.wait /\ id \in JobsOf(run) /\ (id \in shown \/ args.json)
  BY <1>1 DEF OutcomeInv, RunningInv, Following
<1>4. CASE Truncate
  <2>1. pc' = "writing" /\ exit' = None /\ shown' = shown /\ args.out
    BY <1>1, <1>4 DEF Truncate
  <2>2. RunningInv'
    BY <1>1, <1>2, <1>3, <2>1 DEF RunningInv, Following
  <2>3. ReadyInv'
    BY <1>1, <1>2, <2>1 DEF ReadyInv, Ready
  <2>4. QED
    BY <2>1, <2>2, <2>3, GoesOnOutcome
<1>5. CASE OpenFails \/ WriteFails
  <2>1. pc' = "shell" /\ exit' = 2 /\ shown' = shown
    BY <1>5 DEF OpenFails, WriteFails, Exit, outputVars
  <2>2. ~Pending'
    BY <1>1, <1>2 DEF Pending, Ready
  <2>3. SuccessIsDurable' /\ AcceptedIdShown'
    BY <1>1, <1>3, <2>1, <2>2 DEF SuccessIsDurable, AcceptedIdShown, Ended, GaveUpWaiting
  <2>4. QED
    BY <1>1, <2>1, <2>3, EndOutcome
<1>6. CASE PrintProof \/ WriteDone
  <2>1. pc' = "shell" /\ exit' = 0 /\ id \in shown' /\ (args.out => disk' = id)
    BY <1>1, <1>6 DEF PrintProof, WriteDone, Exit
  <2>2. SuccessIsDurable' /\ AcceptedIdShown'
    BY <1>1, <1>2, <1>3, <2>1 DEF SuccessIsDurable, AcceptedIdShown
  <2>3. QED
    BY <1>1, <2>1, <2>2, EndOutcome
<1>7. QED
  BY <1>4, <1>5, <1>6

LEMMA DieOutcome ==
  ASSUME SessionTypeOK, OutcomeInv, pc # "shell", NEW code \in {Aborted, Killed}, Die(code)
  PROVE  OutcomeInv'
<1>1. /\ run' = run /\ run \in Runs /\ pc' = "shell" /\ exit' = code
      /\ args' = args /\ id' = id /\ shown' = shown /\ code \notin {0, 2}
  BY DEF Die, Exit, commandVars, SessionTypeOK, Aborted, Killed
<1>2. pc = "post" => report'[run] = "unknown"
  BY <1>1 DEF Die, SessionTypeOK
<1>3. Following /\ args.name = "anchor" => args.wait /\ (id \in shown \/ args.json)
  BY DEF OutcomeInv, RunningInv
<1>4. pc = "post" \/ Following
  BY DEF Following, SessionTypeOK
<1>5. SuccessIsDurable' /\ AcceptedIdShown'
  BY <1>1, <1>2, <1>3, <1>4 DEF SuccessIsDurable, AcceptedIdShown, Ended, GaveUpWaiting
<1>6. QED
  BY <1>1, <1>5, EndOutcome

LEMMA OutcomeInvInit == SessionInit => OutcomeInv
  BY HeaderAssumption
     DEF SessionInit, OutcomeInv, RunningInv, ReadyInv, Following, SuccessIsDurable,
         AcceptedIdShown, Ended

LEMMA OutcomeInvNext ==
  ASSUME SessionTypeOK, SubmitInv, OutcomeInv, [SessionNext]_sessionVars
  PROVE  OutcomeInv'
<1>1. JobsKept
  BY StepsKeep DEF SubmitInv
<1>2. CASE \E a \in Args : Begin(a) \/ BeginFails(a)
  BY <1>2, BeginOutcome
<1>3. CASE NetworkStep \/ CallStep
  BY <1>1, <1>3, CallMovesOutcome DEF CallMoves
<1>4. CASE Accepted \/ NotAccepted
  BY <1>4, AcceptedOutcome, NotAcceptedOutcome
<1>5. CASE ProofReady \/ PollFailed \/ StillPending \/ TimedOut \/ PollLater
  BY <1>5, PollOutcome
<1>6. CASE NapEnds
  BY <1>6, NapEndsOutcome
<1>7. CASE PrintProof \/ OpenFails \/ Truncate \/ WriteFails \/ WriteDone
  BY <1>7, WriteOutcome
<1>8. CASE Abort \/ Kill
  BY <1>8, DieOutcome DEF Abort, Kill
<1>9. CASE (\E r \in orphans : OrphanQueued(r) \/ OrphanDropped(r)) \/ AnchorBatch
  BY <1>1, <1>9, OthersOutcome DEF OrphanQueued, OrphanDropped, AnchorBatch
<1>10. CASE UNCHANGED sessionVars
  BY <1>1, <1>10, OthersOutcome DEF sessionVars
<1>11. QED
  BY <1>2, <1>3, <1>4, <1>5, <1>6, <1>7, <1>8, <1>9, <1>10 DEF SessionNext, CommandStep

-----------------------------------------------------------------------------
(* The theorems. *)

(* The invariant of SessionSubmit is one: of sessions of any length, with  *)
(* any number of lost, late and refused requests, kills and torn writes.   *)
THEOREM SessionInvariant == SessionSpec => []SessionInv
<1>1. SessionInit => SessionInv
  BY SessionTypeInit, SubmitInvInit, TimeInvInit, OutcomeInvInit DEF SessionInv
<1>2. SessionInv /\ [SessionNext]_sessionVars => SessionInv'
  BY SessionTypeNext, SubmitInvNext, TimeInvNext, OutcomeInvNext DEF SessionInv
<1>3. QED
  BY <1>1, <1>2, PTL DEF SessionSpec

(* Every variable of the commands and of the service has its type, always. *)
THEOREM SessionTypes == SessionSpec => []SessionTypeOK
<1>1. SessionInv => SessionTypeOK
  BY DEF SessionInv
<1>2. QED
  BY <1>1, SessionInvariant, PTL

(* A command creates at most one job, for any number of commands, retries  *)
(* and ids, and whatever the network loses or delays.                      *)
THEOREM NeverTwice == SessionSpec => []AtMostOncePerRun
<1>1. SessionInv => AtMostOncePerRun
  <2>1. 0 \notin Runs
    BY SessionAssumption DEF Runs
  <2>2. QED
    BY <2>1 DEF SessionInv, SubmitInv, TablesInv, AtMostOncePerRun, JobsOf
<1>2. QED
  BY <1>1, SessionInvariant, PTL

(* No --wait outlasts the timeout by more than a late wake-up and a call.  *)
THEOREM WaitEndsInTime == SessionSpec => []WaitTimeBound
<1>1. SessionInv => WaitTimeBound
  BY SpentIsBounded, SessionAssumption, TimeAssumption
     DEF SessionInv, SessionTypeOK, TimeInv, WaitTimeBound
<1>2. QED
  BY <1>1, SessionInvariant, PTL

(* What exit code 0 says is so and stays so: the hash is queued, its id is *)
(* out, and the proof asked for is of an anchored job and is in the file.  *)
THEOREM SuccessLasts == SessionSpec => []SuccessIsDurable
<1>1. SessionInv => SuccessIsDurable
  BY DEF SessionInv, OutcomeInv
<1>2. QED
  BY <1>1, SessionInvariant, PTL

(* No ending of a command hides the id of an accepted job, other than a    *)
(* failure after the submission under --wait --json.                       *)
THEOREM IdsAreShown == SessionSpec => []AcceptedIdShown
<1>1. SessionInv => AcceptedIdShown
  BY DEF SessionInv, OutcomeInv
<1>2. QED
  BY <1>1, SessionInvariant, PTL

(* The file is touched by nothing but the saving of an anchored proof.     *)
THEOREM OldProofsAreKept == SessionSpec => OldProofKept
<1>1. ASSUME SessionInv, [SessionNext]_sessionVars, disk' # disk
      PROVE  pc \in {"write", "writing"} /\ status[id] = "anchored"
  <2>1. Truncate \/ WriteDone
    BY <1>1, CallMovesFacts
       DEF SessionInv, SessionNext, CommandStep, CallMoves, Begin, BeginFails, Accepted,
           NotAccepted, ProofReady, PollFailed, StillPending, TimedOut, PollLater, NapEnds,
           PrintProof, OpenFails, WriteFails, Abort, Kill, Die, OrphanQueued,
           OrphanDropped, AnchorBatch, outputVars, sessionVars
  <2>2. pc \in {"write", "writing"}
    BY <2>1 DEF Truncate, WriteDone
  <2>3. QED
    BY <1>1, <2>2 DEF SessionInv, OutcomeInv, ReadyInv
<1>2. SessionInv /\ [SessionNext]_sessionVars =>
        [disk' # disk => pc \in {"write", "writing"} /\ status[id] = "anchored"]_sessionVars
  BY <1>1
<1>3. QED
  BY <1>2, SessionInvariant, PTL DEF SessionSpec, OldProofKept

-----------------------------------------------------------------------------
(* Submissions implement the abstract specification SubmitOnce. *)

Abstract == <<[r \in Runs |-> JobsOf(r)], report>>

LEMMA PromiseInit == SessionInit => Promise!Init
<1>1. SUFFICES ASSUME SessionInit PROVE Promise!Init
  OBVIOUS
<1>2. \A r \in Runs : JobsOf(r) = {}
  BY <1>1, SessionAssumption DEF SessionInit, JobsOf, Runs
<1>3. QED
  BY <1>1, <1>2 DEF SessionInit, Promise!Init

(* A POST that arrives is a Create of the abstract specification. *)
LEMMA QueueCreates ==
  ASSUME SessionTypeOK, TablesInv, NEW r \in Runs, Queue(r), JobsOf(r) = {},
         report[r] \in {"none", "unknown"}, report' = report
  PROVE  Promise!Next
<1>1. PICK j \in JobIds :
        /\ owner[j] = 0 /\ owner'[j] = r /\ status'[j] = "queued"
        /\ \A k \in JobIds \ {j} : owner'[k] = owner[k] /\ status'[k] = status[k]
        /\ \A q \in Runs : JobsOf(q)' = IF q = r THEN JobsOf(q) \union {j} ELSE JobsOf(q)
  BY QueueFacts
<1> DEFINE J == [q \in Runs |-> JobsOf(q)]
<1>2. \A q \in Runs : j \notin J[q]
  BY <1>1, SessionAssumption DEF JobsOf, Runs
<1>3. J' = [J EXCEPT ![r] = {j}]
  <2>1. J' = [q \in Runs |-> JobsOf(q)']
    BY DEF Runs
  <2>2. QED
    BY <1>1, <2>1
<1>4. J[r] = {}
  OBVIOUS
<1>5. Promise!Create(r)
  BY <1>2, <1>3, <1>4 DEF Promise!Create
<1>6. QED
  BY <1>5 DEF Promise!Next

(* A verdict is a Tell. *)
LEMMA VerdictTells ==
  ASSUME NEW r \in Runs, report[r] = "none",
         NEW v \in {"accepted", "refused", "unknown"},
         report' = [report EXCEPT ![r] = v], owner' = owner,
         v = "accepted" => JobsOf(r) # {},
         v = "refused" => JobsOf(r) = {}
  PROVE  Promise!Next
<1> DEFINE J == [q \in Runs |-> JobsOf(q)]
<1>1. J' = J
  BY DEF JobsOf, Runs
<1>2. J[r] = JobsOf(r)
  OBVIOUS
<1>3. Promise!Tell(r, v)
  BY <1>1, <1>2 DEF Promise!Tell
<1>4. QED
  BY <1>3 DEF Promise!Next

LEMMA SameAbstract == ASSUME UNCHANGED <<owner, report>> PROVE UNCHANGED Abstract
  BY DEF Abstract, JobsOf, Runs

LEMMA PromiseNext ==
  ASSUME SessionInv, [SessionNext]_sessionVars
  PROVE  Promise!Next \/ UNCHANGED Abstract
<1> USE DEF SessionInv, SubmitInv
<1>1. CASE \E a \in Args : Begin(a) \/ BeginFails(a)
  <2>1. PICK a \in Args : Begin(a) \/ BeginFails(a)
    BY <1>1
  <2>2. CASE report' = report
    BY <2>1, <2>2, SameAbstract DEF Begin, BeginFails, serviceVars
  <2>3. CASE report' # report
    <3>1. report' = [report EXCEPT ![run'] = "refused"] /\ owner' = owner /\ run' = run + 1
      BY <2>1, <2>3 DEF Begin, BeginFails, serviceVars, outputVars
    <3>2. run' \in Runs
      BY <2>1, SessionAssumption DEF Begin, BeginFails, SessionTypeOK, Runs
    <3>3. JobsOf(run') = {} /\ report[run'] = "none"
      BY <3>1, <3>2 DEF FutureInv, SessionTypeOK
    <3>4. QED
      BY <3>1, <3>2, <3>3, VerdictTells
  <2>4. QED
    BY <2>2, <2>3
<1>2. CASE Accepted \/ NotAccepted
  <2>1. run \in Runs /\ report[run] = "none" /\ owner' = owner
    BY <1>2 DEF Accepted, NotAccepted, PostInv, SessionTypeOK, serviceVars
  <2>2. CASE Accepted
    BY <2>1, <2>2, VerdictTells DEF Accepted, PostInv
  <2>3. CASE NotAccepted
    <3>1. Verdict(result.is) = "refused" => JobsOf(run) = {}
      BY <2>3 DEF NotAccepted, PostInv, NothingQueued
    <3>2. report' = [report EXCEPT ![run] = Verdict(result.is)]
      BY <2>3 DEF NotAccepted
    <3>3. QED
      BY <2>1, <3>1, <3>2, VerdictOf, VerdictTells
  <2>4. QED
    BY <1>2, <2>2, <2>3
<1>3. CASE Abort \/ Kill
  <2>1. UNCHANGED <<status, owner>>
    BY <1>3 DEF Abort, Kill, Die
  <2>2. CASE pc = "post"
    <3>1. run \in Runs /\ report[run] = "none"
      BY <2>2 DEF PostInv, SessionTypeOK
    <3>2. report' = [report EXCEPT ![run] = "unknown"]
      BY <1>3, <2>2 DEF Abort, Kill, Die
    <3>3. QED
      BY <2>1, <3>1, <3>2, VerdictTells
  <2>3. CASE pc # "post"
    BY <1>3, <2>1, <2>3, SameAbstract DEF Abort, Kill, Die
  <2>4. QED
    BY <2>2, <2>3
<1>4. CASE SubmissionQueued
  <2>1. Queue(run) /\ run \in Runs /\ report' = report
    BY <1>4 DEF SubmissionQueued, SessionTypeOK, outputVars
  <2>2. JobsOf(run) = {} /\ report[run] = "none"
    BY <1>4 DEF SubmissionQueued, ServiceAnswers, PostInv, NothingQueued
  <2>3. QED
    BY <2>1, <2>2, QueueCreates
<1>5. CASE \E r \in orphans : OrphanQueued(r) \/ OrphanDropped(r)
  <2>1. PICK r \in orphans : OrphanQueued(r) \/ OrphanDropped(r)
    BY <1>5
  <2>2. r \in Runs /\ JobsOf(r) = {} /\ report[r] \in {"none", "unknown"} /\ report' = report
    BY <2>1 DEF OrphanQueued, OrphanDropped, SessionTypeOK, TablesInv, VerdictInv, outputVars
  <2>3. CASE OrphanQueued(r)
    BY <2>2, <2>3, QueueCreates DEF OrphanQueued
  <2>4. CASE OrphanDropped(r)
    BY <2>4, SameAbstract DEF OrphanDropped, outputVars
  <2>5. QED
    BY <2>1, <2>3, <2>4
<1>6. CASE UNCHANGED <<owner, report>>
  BY <1>6, SameAbstract
<1>7. CASE CallStep \/ SubmissionRefused \/ ProofAnswered \/ CallFails \/ AnchorBatch
  BY <1>6, <1>7 DEF CallStep, SubmissionRefused, ProofAnswered, CallFails,
                    AnchorBatch, outputVars, serviceVars
<1>8. CASE ProofReady \/ PollFailed \/ StillPending \/ TimedOut \/ PollLater \/ NapEnds
  BY <1>6, <1>8 DEF ProofReady, PollFailed, StillPending, TimedOut, PollLater,
                    NapEnds, outputVars, serviceVars
<1>9. CASE PrintProof \/ OpenFails \/ Truncate \/ WriteFails \/ WriteDone
  BY <1>6, <1>9 DEF PrintProof, OpenFails, Truncate, WriteFails, WriteDone,
                    outputVars, serviceVars
<1>10. CASE UNCHANGED sessionVars
  BY <1>6, <1>10 DEF sessionVars, outputVars, serviceVars
<1>11. QED
  BY <1>1, <1>2, <1>3, <1>4, <1>5, <1>7, <1>8, <1>9, <1>10
     DEF SessionNext, CommandStep, NetworkStep

(* The verdict of every submission is true and stays true, and no          *)
(* submission ever creates two jobs: the commands implement SubmitOnce.    *)
THEOREM SubmissionsKeepPromise == SessionSpec => PromiseKept
<1>1. SessionInv /\ [SessionNext]_sessionVars => [Promise!Next]_Abstract
  BY PromiseNext
<1>2. QED
  BY <1>1, PromiseInit, SessionInvariant, PTL
     DEF SessionSpec, PromiseKept, Promise!Spec, Abstract

=============================================================================
