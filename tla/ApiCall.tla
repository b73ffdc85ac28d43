------------------------------ MODULE ApiCall ------------------------------
(***************************************************************************)
(* One call of Client::send (src/src/client.rs): an HTTP request to the    *)
(* TrustBeat API that is sent again when, and only when, the API answers   *)
(* 429.  The request is in flight ("request") until the service processes  *)
(* it, its answer is in flight ("reply") until the client reads it, and    *)
(* either leg may be lost or time out.                                     *)
(*                                                                         *)
(* Time is counted in whole seconds by clock.  A request and its answer    *)
(* take at most MaxLatency seconds, and a sleep of n seconds lasts between *)
(* n and n + Slack.                                                        *)
(***************************************************************************)
EXTENDS Integers

CONSTANTS
  MaxRetries,    \* Client.max_retries (MAX_RETRIES = 2)
  MaxRetryWait,  \* MAX_RETRY_WAIT (60 s)
  MaxDuration,   \* the seconds above which Duration::from_secs_f64 panics
  Headers,       \* Retry-After headers of a 429: a number of seconds or None
  JobIds,        \* the tracking ids the service hands out
  MaxLatency,    \* bound on the seconds one request takes
  Slack,         \* bound on how much longer than asked a sleep lasts
  None,          \* Option::None: no header, no id, no value
  Garbage        \* a body that is not the JSON the caller decodes

ASSUME RetryAssumption ==
  /\ MaxRetries \in Nat
  /\ MaxRetryWait \in Nat
  /\ MaxDuration \in Nat
  /\ MaxRetryWait <= MaxDuration
ASSUME TimeAssumption == MaxLatency \in Nat /\ Slack \in Nat
ASSUME HeaderAssumption == Headers \subseteq Int \union {None} /\ None \notin Int
ASSUME JobIdAssumption ==
  {None, Garbage, "absent", "torn"} \intersect JobIds = {}

VARIABLES
  phase,    \* where the call is: idle, request, reply, sleep, done or panic
  attempt,  \* how many 429 answers have been waited out
  reply,    \* the last answer of the service
  result,   \* what send and the decoding of its value returned
  clock     \* seconds since the caller's Instant::now()

callVars == <<phase, attempt, reply, result, clock>>

-----------------------------------------------------------------------------
(* Answers and results. *)

(* The part of a job or of a proof that the commands look at: its id, and  *)
(* whether merkle_root and token are both there (Proof::is_pending).       *)
Body == [id : JobIds, ready : BOOLEAN]
Codes == {200, 401, 403, 429, 503}  \* 503: every other error status
Answer == [code : Codes, header : Headers \union {None},
           body : Body \union {Garbage, None}]
ErrorKinds == {"Unauthorized", "RateLimited", "Status", "Transport", "Decode"}
Result == [is : ErrorKinds \union {"Ok", "none"}, value : Body \union {None}]

NoAnswer == [code |-> 503, header |-> None, body |-> None]
Ok(v) == [is |-> "Ok", value |-> v]
Err(kind) == [is |-> kind, value |-> None]
NoResult == Err("none")

(* Maps every outcome but a 429 to the result of the call.  A 2xx body that *)
(* is not JSON, or not the JSON the caller wants, is a Decode error.       *)
handle(a) ==
  CASE a.code = 200 /\ a.body # Garbage -> Ok(a.body)
    [] a.code = 200 /\ a.body = Garbage -> Err("Decode")
    [] a.code \in {401, 403} -> Err("Unauthorized")
    [] a.code = 429 -> Err("RateLimited")
    [] OTHER -> Err("Status")

(* The header as a duration: None when absent, not a number or negative.   *)
retry_after(a) == IF a.header # None /\ a.header >= 0 THEN a.header ELSE None

(* How long to wait before the next attempt: what the server asked, or the *)
(* doubling backoff of 1, 2, ... seconds.                                  *)
Wait == IF retry_after(reply) # None THEN retry_after(reply) ELSE 2 ^ attempt

-----------------------------------------------------------------------------
(* The steps of a call. *)

CallInit ==
  /\ phase = "idle"
  /\ attempt = 0
  /\ reply = NoAnswer
  /\ result = NoResult
  /\ clock = 0

(* The first request of a call; the caller says what the clock then shows. *)
StartCall(time) ==
  /\ phase' = "request"
  /\ attempt' = 0
  /\ reply' = NoAnswer
  /\ result' = NoResult
  /\ clock' = time

(* External: the service processes the request and answers a. *)
ServiceAnswers(a) ==
  /\ phase = "request"
  /\ phase' = "reply"
  /\ reply' = a
  /\ UNCHANGED <<attempt, result, clock>>

(* The request or its answer is lost, or a connect or read timeout fires. *)
TransportFails ==
  /\ phase \in {"request", "reply"}
  /\ phase' = "done"
  /\ result' = Err("Transport")
  /\ \E d \in 0 .. MaxLatency : clock' = clock + d
  /\ UNCHANGED <<attempt, reply>>

Overflows == retry_after(reply) # None /\ retry_after(reply) > MaxDuration

LateBudgetSpent == attempt > MaxRetries
BudgetSpent == attempt >= MaxRetries

NeverTooLong == FALSE
TooLong == Wait \notin 0 .. MaxRetryWait

RefusedOr5xx == reply.code \in {429, 503}
Refused == reply.code = 429

(* The client reads a 429.  Duration::from_secs_f64 panics on a number of  *)
(* seconds no Duration holds; otherwise the call gives up with RateLimited *)
(* or sleeps.                                                              *)
ReadRefusal(next) ==
  /\ phase = "reply"
  /\ Refused
  /\ phase' = next
  /\ \E d \in 0 .. MaxLatency : clock' = clock + d
  /\ UNCHANGED <<attempt, reply>>

RefusalPanics ==
  /\ Overflows
  /\ ReadRefusal("panic")
  /\ UNCHANGED result

GiveUp ==
  /\ ~Overflows
  /\ BudgetSpent \/ TooLong
  /\ ReadRefusal("done")
  /\ result' = Err("RateLimited")

BackOff ==
  /\ ~Overflows
  /\ ~BudgetSpent /\ ~TooLong
  /\ ReadRefusal("sleep")
  /\ UNCHANGED result

(* The sleep is over and the same request is sent again. *)
Retry ==
  /\ phase = "sleep"
  /\ phase' = "request"
  /\ attempt' = attempt + 1
  /\ \E s \in 0 .. Slack : clock' = clock + Wait + s
  /\ UNCHANGED <<reply, result>>

FinalIgnoring5xx == reply.code \in {200, 401, 403}
Final == reply.code # 429

(* The client reads any other answer: the call returns. *)
ReadFinal ==
  /\ phase = "reply"
  /\ Final
  /\ phase' = "done"
  /\ result' = handle(reply)
  /\ \E d \in 0 .. MaxLatency : clock' = clock + d
  /\ UNCHANGED <<attempt, reply>>

(* What the client itself does once the network has answered. *)
ClientStep == RefusalPanics \/ GiveUp \/ BackOff \/ Retry \/ ReadFinal

(* A call on its own, against a service that may answer anything. *)
CallNext ==
  \/ phase = "idle" /\ StartCall(0)
  \/ \E a \in Answer : (a.code = 200 <=> a.body # None) /\ ServiceAnswers(a)
  \/ TransportFails
  \/ ClientStep

(* The connect and read timeouts of the agent end a request that nobody    *)
(* answers.  Nothing is assumed of an answer that is trickled in for ever. *)
CallFairness ==
  /\ WF_callVars(phase = "idle" /\ StartCall(0))
  /\ WF_callVars(/\ phase = "request"
                 /\ TransportFails \/ \E a \in Answer : ServiceAnswers(a))
  /\ WF_callVars(ClientStep)

CallSpec == CallInit /\ [][CallNext]_callVars /\ CallFairness

-----------------------------------------------------------------------------
(* Properties. *)

(* Every variable has its type; in particular attempt never passes         *)
(* MaxRetries, so a call sends at most MaxRetries + 1 requests.            *)
CallTypeOK ==
  /\ phase \in {"idle", "request", "reply", "sleep", "done", "panic"}
  /\ attempt \in 0 .. MaxRetries
  /\ reply \in Answer
  /\ result \in Result
  /\ clock \in Nat

(* The longest a call can take: every request as slow as it may be, every  *)
(* wait the longest the client accepts.                                    *)
CallMax == (MaxRetries + 1) * MaxLatency + MaxRetries * (MaxRetryWait + Slack)

(* Whatever the service answers, and whatever waits it asks for, a call    *)
(* returns within CallMax seconds: the bound that every --wait relies on.  *)
CallTimeBound == clock <= CallMax

(* What CallTimeBound rests on, from a call that starts when clock is at    *)
(* most base: a sleep is within the budget of retries and the accepted     *)
(* waits, and each attempt has used up one latency, one wait and one slack *)
(* at most.                                                                *)
SleepAllowed == phase = "sleep" => ~BudgetSpent /\ ~TooLong

AttemptMax == MaxLatency + (MaxRetryWait + Slack)
SpentSince(base) ==
  clock <= base + attempt * AttemptMax
             + (IF phase \in {"sleep", "done", "panic"} THEN MaxLatency ELSE 0)

CallInv == CallTypeOK /\ SleepAllowed /\ SpentSince(0)

(* Every call returns or aborts, whatever the service answers (the loop of *)
(* send ends because attempt grows and is bounded).                        *)
CallReturns == <>(phase \in {"done", "panic"})

(* What the comment on MAX_RETRY_WAIT says: a 429 that asks for a longer   *)
(* wait than MaxRetryWait is reported at once, as RateLimited.             *)
OverlongWaitReported ==
  \/ phase \notin {"done", "panic"}
  \/ reply.code # 429
  \/ retry_after(reply) = None
  \/ retry_after(reply) <= MaxRetryWait
  \/ result.is \in {"RateLimited", "Transport"}

=============================================================================
