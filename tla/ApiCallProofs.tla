--------------------------- MODULE ApiCallProofs ---------------------------
(***************************************************************************)
(* Proofs about one call of Client::send, for every retry budget, every    *)
(* set of headers and every bound on waits and latencies.  The lemmas on   *)
(* single steps serve the commands of module Session too.                  *)
(***************************************************************************)
EXTENDS ApiCall, TLAPS

(* A step of a call that is not its first request. *)
InCall == ClientStep \/ TransportFails \/ \E a \in Answer : ServiceAnswers(a)

(* Natural multiplication, as the time bounds need it. *)
LEMMA TimesSucc == \A a, k \in Nat : (a + 1) * k = a * k + k /\ a * k \in Nat
  OBVIOUS

LEMMA TimesMono == \A a, b, k \in Nat : a <= b => a * k <= b * k
<1>1. SUFFICES ASSUME NEW a \in Nat, NEW b \in Nat, NEW k \in Nat, a <= b
               PROVE  a * k <= b * k
  OBVIOUS
<1>2. PICK d \in Nat : b = a + d
  <2>1. b - a \in Nat /\ b = a + (b - a)
    BY <1>1
  <2>2. QED
    BY <2>1
<1>3. b * k = a * k + d * k
  BY <1>2
<1>4. a * k \in Nat /\ d * k \in Nat
  BY TimesSucc
<1>5. QED
  BY <1>3, <1>4

LEMMA HandleType == \A a \in Answer : handle(a) \in Result
  BY DEF handle, Answer, Result, Ok, Err, Body, Codes, ErrorKinds

LEMMA ErrType == \A k \in ErrorKinds \union {"none"} : Err(k) \in Result
  BY DEF Err, Result

LEMMA NoAnswerType == NoAnswer \in Answer
  BY DEF NoAnswer, Answer, Codes

(* Each step of a call keeps the types, and a sleep is always allowed. *)
LEMMA StartType == ASSUME NEW t \in Nat, StartCall(t)
                   PROVE  CallTypeOK' /\ SleepAllowed'
<1>1. result' \in Result
  BY ErrType DEF StartCall, NoResult
<1>2. reply' \in Answer
  BY NoAnswerType DEF StartCall
<1>3. attempt' \in 0 .. MaxRetries
  BY RetryAssumption DEF StartCall
<1>4. QED
  BY <1>1, <1>2, <1>3 DEF StartCall, CallTypeOK, SleepAllowed

LEMMA WaitRange == ASSUME CallTypeOK, SleepAllowed, phase = "sleep"
                   PROVE  /\ Wait \in 0 .. MaxRetryWait
                          /\ attempt + 1 \in 0 .. MaxRetries
<1>1. Wait \in 0 .. MaxRetryWait
  BY DEF SleepAllowed, TooLong
<1>2. attempt + 1 \in 0 .. MaxRetries
  BY RetryAssumption DEF SleepAllowed, BudgetSpent, CallTypeOK
<1>3. QED
  BY <1>1, <1>2

LEMMA InCallType == ASSUME CallTypeOK, SleepAllowed, InCall
                    PROVE  CallTypeOK' /\ SleepAllowed'
<1> USE DEF CallTypeOK
<1>1. CASE TransportFails
  <2>1. result' \in Result /\ phase' = "done"
    BY <1>1, ErrType DEF TransportFails, ErrorKinds
  <2>2. clock' \in Nat
    BY <1>1, TimeAssumption DEF TransportFails
  <2>3. QED
    BY <1>1, <2>1, <2>2 DEF TransportFails, SleepAllowed
<1>2. CASE \E a \in Answer : ServiceAnswers(a)
  BY <1>2 DEF ServiceAnswers, SleepAllowed
<1>3. CASE RefusalPanics
  <2>1. clock' \in Nat
    BY <1>3, TimeAssumption DEF RefusalPanics, ReadRefusal
  <2>2. QED
    BY <1>3, <2>1 DEF RefusalPanics, ReadRefusal, SleepAllowed
<1>4. CASE GiveUp
  <2>1. clock' \in Nat
    BY <1>4, TimeAssumption DEF GiveUp, ReadRefusal
  <2>2. result' \in Result
    BY <1>4, ErrType DEF GiveUp, ErrorKinds
  <2>3. QED
    BY <1>4, <2>1, <2>2 DEF GiveUp, ReadRefusal, SleepAllowed
<1>5. CASE BackOff
  <2>1. clock' \in Nat
    BY <1>5, TimeAssumption DEF BackOff, ReadRefusal
  <2>2. ~BudgetSpent' /\ ~TooLong'
    <3>1. attempt' = attempt /\ reply' = reply
      BY <1>5 DEF BackOff, ReadRefusal
    <3>2. ~BudgetSpent /\ ~TooLong
      BY <1>5 DEF BackOff
    <3>3. QED
      BY <3>1, <3>2 DEF BudgetSpent, TooLong, Wait, retry_after
  <2>3. QED
    BY <1>5, <2>1, <2>2 DEF BackOff, ReadRefusal, SleepAllowed
<1>6. CASE Retry
  <2>1. Wait \in 0 .. MaxRetryWait /\ attempt + 1 \in 0 .. MaxRetries
    BY <1>6, WaitRange DEF Retry
  <2>2. clock' \in Nat
    BY <1>6, <2>1, TimeAssumption, RetryAssumption DEF Retry
  <2>3. QED
    BY <1>6, <2>1, <2>2 DEF Retry, SleepAllowed
<1>7. CASE ReadFinal
  <2>1. clock' \in Nat
    BY <1>7, TimeAssumption DEF ReadFinal
  <2>2. result' \in Result
    BY <1>7, HandleType DEF ReadFinal
  <2>3. QED
    BY <1>7, <2>1, <2>2 DEF ReadFinal, SleepAllowed
<1>8. QED
  BY <1>1, <1>2, <1>3, <1>4, <1>5, <1>6, <1>7 DEF InCall, ClientStep

(* The time a call has used, since a start at base or earlier. *)
LEMMA AttemptMaxType == AttemptMax \in Nat
  BY TimeAssumption, RetryAssumption DEF AttemptMax

LEMMA StartSpent == ASSUME NEW base \in Nat, NEW t \in Nat, t <= base, StartCall(t)
                    PROVE  SpentSince(base)'
<1>1. attempt' * AttemptMax = 0
  BY AttemptMaxType DEF StartCall
<1>2. QED
  BY <1>1 DEF StartCall, SpentSince, AttemptMax

LEMMA InCallSpent ==
  ASSUME NEW base \in Nat, CallTypeOK, SleepAllowed, SpentSince(base), InCall
  PROVE  SpentSince(base)'
<1> DEFINE used == attempt * AttemptMax
<1>1. used \in Nat /\ clock \in Nat
  BY AttemptMaxType, TimesSucc, RetryAssumption DEF CallTypeOK
<1>2. ASSUME phase \in {"request", "reply"}, attempt' = attempt,
             \/ clock' = clock
             \/ \E d \in 0 .. MaxLatency : clock' = clock + d
                /\ phase' \in {"sleep", "done", "panic"}
      PROVE  SpentSince(base)'
  <2>1. clock <= base + used
    BY <1>1, <1>2, TimeAssumption DEF SpentSince
  <2>2. AttemptMax' = AttemptMax
    BY DEF AttemptMax
  <2>3. CASE clock' = clock
    BY <1>1, <1>2, <2>1, <2>2, <2>3, TimeAssumption DEF SpentSince
  <2>4. CASE \E d \in 0 .. MaxLatency : clock' = clock + d
                /\ phase' \in {"sleep", "done", "panic"}
    BY <1>1, <1>2, <2>1, <2>2, <2>4, TimeAssumption DEF SpentSince
  <2>5. QED
    BY <1>2, <2>3, <2>4
<1>3. CASE TransportFails
  BY <1>2, <1>3 DEF TransportFails
<1>4. CASE \E a \in Answer : ServiceAnswers(a)
  BY <1>2, <1>4 DEF ServiceAnswers
<1>5. CASE RefusalPanics \/ GiveUp \/ BackOff
  BY <1>2, <1>5 DEF RefusalPanics, GiveUp, BackOff, ReadRefusal
<1>6. CASE ReadFinal
  BY <1>2, <1>6 DEF ReadFinal
<1>7. CASE Retry
  <2>1. Wait \in 0 .. MaxRetryWait
    BY <1>7, WaitRange DEF Retry
  <2>2. (attempt + 1) * AttemptMax = used + AttemptMax
    BY AttemptMaxType, TimesSucc, RetryAssumption DEF CallTypeOK
  <2>3. clock <= base + used + MaxLatency
    BY <1>1, <1>7 DEF SpentSince, Retry
  <2>4. PICK s \in 0 .. Slack : clock' = clock + Wait + s
    BY <1>7 DEF Retry
  <2>5. clock' <= base + (used + AttemptMax)
    BY <1>1, <2>1, <2>3, <2>4, TimeAssumption, RetryAssumption DEF AttemptMax
  <2>6. attempt' * AttemptMax = used + AttemptMax /\ phase' = "request"
    BY <1>7, <2>2 DEF Retry
  <2>7. base + (used + AttemptMax) = base + attempt' * AttemptMax + 0
    BY <1>1, <2>6, AttemptMaxType
  <2>8. QED
    BY <2>5, <2>6, <2>7 DEF SpentSince, AttemptMax
<1>8. QED
  BY <1>3, <1>4, <1>5, <1>6, <1>7 DEF InCall, ClientStep

(* However a call goes, it takes CallMax seconds at most. *)
LEMMA SpentIsBounded ==
  ASSUME NEW base \in Nat, CallTypeOK, SpentSince(base)
  PROVE  clock <= base + CallMax
<1> DEFINE used == attempt * AttemptMax
<1>1. used \in Nat /\ used <= MaxRetries * AttemptMax
  BY AttemptMaxType, TimesSucc, TimesMono, RetryAssumption DEF CallTypeOK
<1>2. MaxRetries * AttemptMax
        = MaxRetries * MaxLatency + MaxRetries * (MaxRetryWait + Slack)
  BY TimeAssumption, RetryAssumption DEF AttemptMax
<1>3. (MaxRetries + 1) * MaxLatency = MaxRetries * MaxLatency + MaxLatency
  BY TimesSucc, TimeAssumption, RetryAssumption
<1>4. CallMax = MaxRetries * AttemptMax + MaxLatency
  <2>1. /\ MaxRetries * MaxLatency \in Nat
        /\ MaxRetries * (MaxRetryWait + Slack) \in Nat
    BY TimesSucc, TimeAssumption, RetryAssumption
  <2>2. QED
    BY <1>2, <1>3, <2>1, TimeAssumption DEF CallMax
<1>5. clock <= base + used + MaxLatency
  BY <1>1, TimeAssumption DEF SpentSince, CallTypeOK
<1>6. MaxRetries * AttemptMax \in Nat
  BY AttemptMaxType, TimesSucc, RetryAssumption
<1>7. QED
  BY <1>1, <1>4, <1>5, <1>6, TimeAssumption DEF CallTypeOK

(* CallInv is inductive: the next three facts. *)
LEMMA CallInvInit == CallInit => CallInv
<1>1. SUFFICES ASSUME CallInit PROVE CallInv
  OBVIOUS
<1>2. CallTypeOK
  <2>1. result \in Result /\ reply \in Answer
    BY <1>1, ErrType, NoAnswerType DEF CallInit, NoResult
  <2>2. QED
    BY <1>1, <2>1, RetryAssumption DEF CallInit, CallTypeOK
<1>3. SpentSince(0)
  BY <1>1, AttemptMaxType DEF CallInit, SpentSince
<1>4. QED
  BY <1>1, <1>2, <1>3 DEF CallInit, CallInv, SleepAllowed

LEMMA CallInvNext == CallInv /\ [CallNext]_callVars => CallInv'
<1>1. SUFFICES ASSUME CallInv, [CallNext]_callVars PROVE CallInv'
  OBVIOUS
<1>2. CASE StartCall(0)
  BY <1>2, StartType, StartSpent DEF CallInv
<1>3. CASE InCall
  BY <1>1, <1>3, InCallType, InCallSpent DEF CallInv
<1>4. CASE UNCHANGED callVars
  BY <1>1, <1>4 DEF CallInv, CallTypeOK, SleepAllowed, SpentSince, AttemptMax,
                    BudgetSpent, TooLong, Wait, retry_after, callVars
<1>5. QED
  BY <1>1, <1>2, <1>3, <1>4 DEF CallNext, InCall

LEMMA CallInvAlways == CallSpec => []CallInv
  BY CallInvInit, CallInvNext, PTL DEF CallSpec

(* The types hold of every call; in particular no call ever sends more     *)
(* than MaxRetries + 1 requests, whatever the service answers.             *)
THEOREM CallTypes == CallSpec => []CallTypeOK
<1>1. CallInv => CallTypeOK
  BY DEF CallInv
<1>2. QED
  BY <1>1, CallInvAlways, PTL

(* Every call returns within CallMax seconds, for every retry budget and   *)
(* every wait the service may ask for.                                     *)
THEOREM CallEndsInTime == CallSpec => []CallTimeBound
<1>1. CallInv => CallTimeBound
  <2>1. SUFFICES ASSUME CallInv PROVE CallTimeBound
    OBVIOUS
  <2>2. clock <= 0 + CallMax
    BY <2>1, SpentIsBounded DEF CallInv
  <2>3. CallMax \in Int
    <3>1. MaxRetries + 1 \in Nat
      BY RetryAssumption
    <3>2. QED
      BY <3>1, TimesSucc, TimeAssumption, RetryAssumption DEF CallMax
  <2>4. QED
    BY <2>2, <2>3 DEF CallTimeBound
<1>2. QED
  BY <1>1, CallInvAlways, PTL

=============================================================================
