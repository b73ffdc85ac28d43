------------------------------ MODULE Session ------------------------------
(***************************************************************************)
(* The commands that talk to the service, `trustbeat anchor` and           *)
(* `trustbeat proof` (cmd_anchor, cmd_proof and write_proof of             *)
(* src/src/main.rs, wait_for_proof of src/src/client.rs), run one after    *)
(* the other from a shell, against the service they submit hashes to.      *)
(* Each call a command makes is a call of module ApiCall.                  *)
(*                                                                         *)
(* The service queues a submitted hash as a job and anchors all the queued *)
(* jobs of a cycle together.  It may queue a hash and fail to say so: the  *)
(* answer is lost, or is a 5xx, or the client timed out or was killed      *)
(* while the request was still on its way.                                 *)
(***************************************************************************)
EXTENDS ApiCall

CONSTANTS
  MaxRuns,   \* bound on the commands that are run
  Timeout,   \* --timeout, in seconds
  Poll       \* the poll argument of wait_for_proof (15 s)

ASSUME SessionAssumption == MaxRuns \in Nat /\ Timeout \in Nat /\ Poll \in Nat \ {0}

VARIABLES
  pc,       \* where the running command is, or "shell"
  args,     \* its command line
  run,      \* how many commands have been started
  id,       \* the tracking id the command works on
  exit,     \* the exit code of the last command
  shown,    \* the tracking ids that some command has printed
  disk,     \* the file proofs are written to: absent, torn, or whose proof
  report,   \* what each command said of its submission
  status,   \* of every job of the service
  owner,    \* the command whose POST created a job, or 0
  orphans   \* commands that ended or timed out with their POST in flight

serviceVars == <<status, owner, orphans>>
commandVars == <<args, run, id>>
outputVars == <<shown, disk, report>>
sessionVars ==
  <<callVars, pc, exit, commandVars, outputVars, serviceVars>>

Runs == 1 .. MaxRuns

(* out: --out is given, or FILE is and the proof goes to FILE.proof.json.  *)
Args == [name : {"anchor", "proof"}, wait : BOOLEAN, json : BOOLEAN,
         out : BOOLEAN]

Aborted == 134
Killed == 137

SessionInit ==
  /\ CallInit
  /\ pc = "shell" /\ run = 0 /\ id = None /\ exit = None
  /\ args \in {a \in Args : a.name = "proof" /\ ~a.wait /\ ~a.json /\ ~a.out}
  /\ shown = {} /\ disk = "absent"
  /\ report = [r \in Runs |-> "none"]
  /\ status = [j \in JobIds |-> "unused"]
  /\ owner = [j \in JobIds |-> 0]
  /\ orphans = {}

-----------------------------------------------------------------------------
(* The service and the network (external). *)

(* The POST of command r creates a job. *)
Queue(r) ==
  \E j \in JobIds :
    /\ status[j] = "unused"
    /\ status' = [status EXCEPT ![j] = "queued"]
    /\ owner' = [owner EXCEPT ![j] = r]

Plain(code, body) == [code |-> code, header |-> None, body |-> body]
Refusals == {[code |-> 429, header |-> h, body |-> None] : h \in Headers}
Failures == {Plain(c, None) : c \in {401, 403, 503}}

(* A submission is queued, and the answer is the job, a body that does not *)
(* decode, or a 5xx.                                                       *)
SubmissionQueued ==
  /\ pc = "post"
  /\ Queue(run)
  /\ \E j \in JobIds :
       /\ owner'[j] = run /\ owner[j] # run
       /\ \/ ServiceAnswers(Plain(200, [id |-> j, ready |-> FALSE]))
          \/ ServiceAnswers(Plain(200, Garbage))
          \/ ServiceAnswers(Plain(503, None))
  /\ UNCHANGED <<orphans, pc, exit, commandVars, outputVars>>

(* A submission is turned down; a 429 always is, before it is queued. *)
SubmissionRefused ==
  /\ pc = "post"
  /\ \E a \in Refusals \union Failures : ServiceAnswers(a)
  /\ UNCHANGED <<serviceVars, pc, exit, commandVars, outputVars>>

(* GET /anchor/{id}/proof: the job, with its root and token once anchored. *)
ProofAnswered ==
  /\ pc = "poll"
  /\ \/ /\ status[id] # "unused"
        /\ ServiceAnswers(Plain(200, [id |-> id,
                                      ready |-> status[id] = "anchored"]))
     \/ ServiceAnswers(Plain(200, Garbage))
     \/ \E a \in Refusals \union Failures : ServiceAnswers(a)
  /\ UNCHANGED <<serviceVars, pc, exit, commandVars, outputVars>>

(* The anchoring cycle: every queued job is anchored. *)
AnchorBatch ==
  /\ \E j \in JobIds : status[j] = "queued"
  /\ status' = [j \in JobIds |->
                  IF status[j] = "queued" THEN "anchored" ELSE status[j]]
  /\ UNCHANGED <<callVars, pc, exit, commandVars, outputVars, owner, orphans>>

(* A POST that the client gave up on is in flight still. *)
InFlight == pc = "post" /\ phase = "request"
Abandon == orphans' = IF InFlight THEN orphans \union {run} ELSE orphans

(* It arrives after all, or is lost. *)
OrphanQueued(r) ==
  /\ Queue(r)
  /\ orphans' = orphans \ {r}
  /\ UNCHANGED <<callVars, pc, exit, commandVars, outputVars>>

OrphanDropped(r) ==
  /\ orphans' = orphans \ {r}
  /\ UNCHANGED <<callVars, pc, exit, commandVars, outputVars, status, owner>>

CallFails ==
  /\ pc \in {"post", "poll"}
  /\ TransportFails
  /\ Abandon
  /\ UNCHANGED <<status, owner, pc, exit, commandVars, outputVars>>

-----------------------------------------------------------------------------
(* The commands. *)

(* The process ends; its last call is left as it was. *)
Exit(code) == pc' = "shell" /\ exit' = code

Begin(a) ==
  /\ pc = "shell"
  /\ run < MaxRuns
  /\ run' = run + 1
  /\ args' = a
  /\ exit' = None
  /\ \/ a.name = "anchor" /\ pc' = "post" /\ id' = None
     \/ a.name = "proof" /\ pc' = "poll" /\ id' \in JobIds
  /\ StartCall(0)
  /\ UNCHANGED <<outputVars, serviceVars>>

(* The file cannot be read, --hash is not a hash or there is no API key:   *)
(* the command ends before it sends anything.                              *)
BeginFails(a) ==
  /\ pc = "shell"
  /\ run < MaxRuns
  /\ run' = run + 1
  /\ args' = a
  /\ id' = None
  /\ exit' = 2
  /\ report' = IF a.name = "anchor" THEN [report EXCEPT ![run'] = "refused"]
                                    ELSE report
  /\ UNCHANGED <<callVars, pc, shown, disk, serviceVars>>

(* A step of the client inside a call of the command. *)
CallStep ==
  /\ pc \in {"post", "poll"}
  /\ ClientStep
  /\ UNCHANGED <<pc, exit, commandVars, outputVars, serviceVars>>

(* The submission was accepted.  Without --wait the command prints the id  *)
(* and ends; with it, it prints the id unless --json, and polls.           *)
Accepted ==
  /\ pc = "post" /\ phase = "done" /\ result.is = "Ok"
  /\ id' = result.value.id
  /\ report' = [report EXCEPT ![run] = "accepted"]
  /\ shown' = IF args.wait /\ args.json THEN shown ELSE shown \union {id'}
  /\ \/ ~args.wait /\ Exit(0) /\ UNCHANGED callVars
     \/ args.wait /\ pc' = "poll" /\ StartCall(0) /\ UNCHANGED exit
  /\ UNCHANGED <<args, run, disk, serviceVars>>

VerdictTrustingSilence(kind) == IF kind = "Decode" THEN "unknown" ELSE "refused"

(* What the error message of a failed submission tells its reader: that    *)
(* nothing was queued, or nothing certain.                                 *)
Verdict(kind) ==
  IF kind \in {"Unauthorized", "RateLimited"} THEN "refused" ELSE "unknown"

NotAccepted ==
  /\ pc = "post" /\ phase = "done" /\ result.is # "Ok"
  /\ report' = [report EXCEPT ![run] = Verdict(result.is)]
  /\ Exit(2)
  /\ UNCHANGED <<callVars, commandVars, shown, disk, serviceVars>>

Polled == pc = "poll" /\ phase = "done"

ReadyIfSuccess == result.is = "Ok"
Ready == result.is = "Ok" /\ result.value.ready
Pending == result.is = "Ok" /\ ~Ready

ProofReady ==
  /\ Polled /\ Ready
  /\ pc' = "write"
  /\ UNCHANGED <<callVars, exit, commandVars, outputVars, serviceVars>>

PollFailed ==
  /\ Polled /\ result.is # "Ok"
  /\ Exit(2)
  /\ UNCHANGED <<callVars, commandVars, outputVars, serviceVars>>

(* `proof` without --wait reports a pending anchor with exit code 3. *)
StillPending ==
  /\ Polled /\ Pending /\ ~args.wait
  /\ Exit(3)
  /\ UNCHANGED <<callVars, commandVars, outputVars, serviceVars>>

TimeUpAfterPoll == clock > Timeout
TimeUp == clock + Poll > Timeout

TimedOutSilently ==
  /\ Polled /\ Pending /\ args.wait /\ TimeUp
  /\ Exit(2)
  /\ UNCHANGED <<callVars, commandVars, outputVars, serviceVars>>

(* The next poll would be too late: a Timeout error that names the id. *)
TimedOut ==
  /\ Polled /\ Pending /\ args.wait /\ TimeUp
  /\ shown' = shown \union {id}
  /\ Exit(2)
  /\ UNCHANGED <<callVars, commandVars, disk, report, serviceVars>>

PollLater ==
  /\ Polled /\ Pending /\ args.wait /\ ~TimeUp
  /\ pc' = "nap"
  /\ UNCHANGED <<callVars, exit, commandVars, outputVars, serviceVars>>

TimeAfterNapRestarted(s) == Poll + s
TimeAfterNap(s) == clock + Poll + s

NapEnds ==
  /\ pc = "nap"
  /\ pc' = "poll"
  /\ \E s \in 0 .. Slack : StartCall(TimeAfterNap(s))
  /\ UNCHANGED <<exit, commandVars, outputVars, serviceVars>>

(* write_proof: without a path the proof is printed. *)
PrintProof ==
  /\ pc = "write" /\ ~args.out
  /\ shown' = shown \union {id}
  /\ Exit(0)
  /\ UNCHANGED <<callVars, commandVars, disk, report, serviceVars>>

(* fs::write creates or truncates the file, then writes it; any of its     *)
(* steps may fail.                                                         *)
OpenFails ==
  /\ pc = "write" /\ args.out
  /\ Exit(2)
  /\ UNCHANGED <<callVars, commandVars, outputVars, serviceVars>>

Truncate ==
  /\ pc = "write" /\ args.out
  /\ disk' = "torn"
  /\ pc' = "writing"
  /\ UNCHANGED <<callVars, exit, commandVars, shown, report, serviceVars>>

WriteFailureIgnored ==
  /\ pc = "writing"
  /\ Exit(0)
  /\ UNCHANGED <<callVars, commandVars, outputVars, serviceVars>>

WriteFails ==
  /\ pc = "writing"
  /\ Exit(2)
  /\ UNCHANGED <<callVars, commandVars, outputVars, serviceVars>>

(* The id is part of the file, and is printed too with --json. *)
WriteDone ==
  /\ pc = "writing"
  /\ disk' = id
  /\ shown' = shown \union {id}
  /\ Exit(0)
  /\ UNCHANGED <<callVars, commandVars, report, serviceVars>>

(* The process dies: of the panic of its call, or of a signal, a lost      *)
(* terminal or a broken pipe at any moment.                                *)
Die(code) ==
  /\ Exit(code)
  /\ Abandon
  /\ report' = IF pc = "post" THEN [report EXCEPT ![run] = "unknown"] ELSE report
  /\ UNCHANGED <<callVars, commandVars, shown, disk, status, owner>>

Abort == pc \in {"post", "poll"} /\ phase = "panic" /\ Die(Aborted)
Kill == pc # "shell" /\ Die(Killed)

-----------------------------------------------------------------------------
(* The specification. *)

CommandStep ==
  \/ CallStep \/ Accepted \/ NotAccepted
  \/ ProofReady \/ PollFailed \/ StillPending
  \/ TimedOut \/ PollLater \/ NapEnds
  \/ PrintProof \/ OpenFails \/ Truncate \/ WriteFails \/ WriteDone
  \/ Abort

NetworkStep ==
  SubmissionQueued \/ SubmissionRefused \/ ProofAnswered \/ CallFails

SessionNext ==
  \/ \E a \in Args : Begin(a) \/ BeginFails(a)
  \/ CommandStep
  \/ NetworkStep
  \/ \E r \in orphans : OrphanQueued(r) \/ OrphanDropped(r)
  \/ AnchorBatch
  \/ Kill

(* A command that can go on does, and a request is answered or times out.  *)
(* Nobody has to start or kill a command, or to anchor a batch.            *)
SessionFairness ==
  /\ WF_sessionVars(CommandStep)
  /\ WF_sessionVars(phase = "request" /\ NetworkStep)

SessionSpec == SessionInit /\ [][SessionNext]_sessionVars /\ SessionFairness

-----------------------------------------------------------------------------
(* Properties. *)

(* Every variable has its type. *)
SessionTypeOK ==
  /\ CallTypeOK
  /\ pc \in {"shell", "post", "poll", "nap", "write", "writing"}
  /\ args \in Args
  /\ run \in 0 .. MaxRuns
  /\ pc # "shell" => run \in Runs
  /\ id \in JobIds \union {None}
  /\ pc \in {"poll", "nap", "write", "writing"} => id \in JobIds
  /\ exit \in {None, 0, 2, 3, Aborted, Killed}
  /\ shown \in SUBSET JobIds
  /\ disk \in JobIds \union {"absent", "torn"}
  /\ report \in [Runs -> {"none", "accepted", "refused", "unknown"}]
  /\ status \in [JobIds -> {"unused", "queued", "anchored"}]
  /\ owner \in [JobIds -> 0 .. MaxRuns]
  /\ orphans \in SUBSET Runs

JobsOf(r) == {j \in JobIds : owner[j] = r}

(* "A retry can never anchor a hash twice" (client.rs, MAX_RETRIES): one   *)
(* command creates at most one job, however often it sends its POST, and   *)
(* whatever is lost, late or answered with an error.                       *)
AtMostOncePerRun == \A r \in Runs : \A j, k \in JobsOf(r) : j = k

(* Submissions keep the promise of module SubmitOnce: a command that says  *)
(* its hash was refused never anchors it, not even later, one that says it *)
(* was accepted has, and no verdict is taken back.                         *)
Promise == INSTANCE SubmitOnce WITH
  jobs <- [r \in Runs |-> JobsOf(r)], told <- report
PromiseKept == Promise!Spec

Ended(name) == pc = "shell" /\ exit # None /\ args.name = name

(* Exit code 0 can be relied on: the hash was accepted and its id is out;  *)
(* and when a proof was to be fetched it is anchored, and the file holds   *)
(* that very proof, whole.                                                 *)
SuccessIsDurable ==
  pc = "shell" /\ exit = 0 =>
    /\ id \in shown
    /\ args.name = "anchor" => id \in JobsOf(run)
    /\ args.name = "proof" \/ args.wait => status[id] = "anchored"
    /\ args.out /\ (args.name = "proof" \/ args.wait) => disk = id

(* A user who got a verdict can always come back for the proof: the id of  *)
(* an accepted job was printed when the command ends, timeouts included.   *)
(* The exception is what the code does under --wait --json, where any      *)
(* other failure after the submission loses the id.                        *)
GaveUpWaiting == exit = 2 /\ Pending
AcceptedIdShown ==
  Ended("anchor") /\ report[run] = "accepted" =>
    \/ id \in shown
    \/ args.wait /\ args.json /\ exit # 0 /\ ~GaveUpWaiting

(* The file of an earlier proof is left alone until a complete new proof   *)
(* has arrived: no failing submission, poll or timeout damages it.         *)
OldProofKept ==
  [][disk' # disk => pc \in {"write", "writing"} /\ status[id] = "anchored"]_sessionVars

(* --wait ends in time: a command takes no longer than the timeout, one    *)
(* late wake-up and one call with all its retries.                         *)
WaitTimeBound == clock <= Timeout + Slack + CallMax

(* Every command ends, whatever the service does. *)
CommandEnds == pc # "shell" ~> pc = "shell"

-----------------------------------------------------------------------------
(* The inductive invariant behind AtMostOncePerRun, PromiseKept,           *)
(* WaitTimeBound, SuccessIsDurable, AcceptedIdShown and OldProofKept.      *)

(* The service's tables agree, and hold at most one job per command: a     *)
(* command that has one has no request in flight that could make another.  *)
TablesInv ==
  /\ \A j \in JobIds : status[j] = "unused" <=> owner[j] = 0
  /\ \A j, k \in JobIds : owner[j] = owner[k] /\ owner[j] # 0 => j = k
  /\ \A r \in orphans : JobsOf(r) = {}

(* Commands that have not started have left no trace. *)
FutureInv == \A r \in Runs : r > run =>
  JobsOf(r) = {} /\ r \notin orphans /\ report[r] = "none"

(* The verdicts given are right for good. *)
VerdictInv == \A r \in Runs :
  /\ report[r] = "refused" => JobsOf(r) = {} /\ r \notin orphans
  /\ report[r] = "accepted" => JobsOf(r) # {}
  /\ r \in orphans => report[r] \in {"none", "unknown"}

(* The request under way can still create a job, so there is none yet: it  *)
(* has not been answered, or only with refusals.                           *)
NothingQueued ==
  \/ phase \in {"request", "sleep", "panic"}
  \/ phase = "reply" /\ reply.code \in {401, 403, 429}
  \/ phase = "done" /\ Verdict(result.is) = "refused"

PostInv == pc = "post" =>
  /\ report[run] = "none"
  /\ phase \in {"request", "sleep", "panic", "reply", "done"}
  /\ NothingQueued => JobsOf(run) = {} /\ run \notin orphans
  /\ phase = "reply" => run \notin orphans
  /\ phase = "reply" /\ reply.code = 200 /\ reply.body # Garbage =>
        reply.body \in Body /\ reply.body.id \in JobsOf(run)
  /\ phase = "done" /\ result.is = "Ok" =>
        result.value \in Body /\ result.value.id \in JobsOf(run)

SubmitInv == TablesInv /\ FutureInv /\ VerdictInv /\ PostInv

(* Every call starts by the time the timeout and one late wake-up allow.   *)
TimeInv ==
  /\ SpentSince(Timeout + Slack)
  /\ pc = "nap" => clock + Poll <= Timeout

(* A command that follows a job follows the one its own submission made,   *)
(* and has said its id unless told to keep quiet.                          *)
Following == pc \in {"poll", "nap", "write", "writing"}

RunningInv ==
  /\ pc # "shell" => exit = None
  /\ exit # None => run \in Runs
  /\ pc = "post" => args.name = "anchor"
  /\ Following /\ args.name = "anchor" =>
       args.wait /\ id \in JobsOf(run) /\ (id \in shown \/ args.json)

(* Only of an anchored job is it said that its proof is ready, and only a  *)
(* ready proof is written.                                                 *)
ReadyInv ==
  /\ pc = "poll" /\ phase = "reply" /\ reply.code = 200 /\ reply.body # Garbage =>
       reply.body \in Body /\ (reply.body.ready => status[id] = "anchored")
  /\ pc = "poll" /\ phase = "done" /\ Ready => status[id] = "anchored"
  /\ pc \in {"write", "writing"} => Ready /\ status[id] = "anchored"
  /\ pc = "writing" => args.out

OutcomeInv == RunningInv /\ ReadyInv /\ SuccessIsDurable /\ AcceptedIdShown

SessionInv == SessionTypeOK /\ SleepAllowed /\ SubmitInv /\ TimeInv /\ OutcomeInv

-----------------------------------------------------------------------------
(* What the documentation says and the code does not do. *)

(* README.md: "Exits 3 when the anchor is still pending." *)
PendingProofExitsThree ==
  Ended("proof") /\ exit \in {2, 3} /\ id # None /\ Pending => exit = 3

=============================================================================
