----------------------------- MODULE SubmitOnce -----------------------------
(***************************************************************************)
(* What `trustbeat anchor` promises of a submission, whatever happens on   *)
(* the way to the service: it creates at most one job, and the verdict it  *)
(* ends with is true and stays true.  "unknown" is the only verdict after  *)
(* which a job may or may not appear.                                      *)
(***************************************************************************)
CONSTANTS Runs, JobIds

VARIABLES
  jobs,   \* the jobs each run has created
  told    \* the verdict each run has ended with, or "none"

Init ==
  /\ jobs = [r \in Runs |-> {}]
  /\ told = [r \in Runs |-> "none"]

Create(r) ==
  /\ jobs[r] = {}
  /\ told[r] \in {"none", "unknown"}
  /\ \E j \in JobIds :
       /\ \A q \in Runs : j \notin jobs[q]
       /\ jobs' = [jobs EXCEPT ![r] = {j}]
  /\ UNCHANGED told

Tell(r, verdict) ==
  /\ told[r] = "none"
  /\ verdict = "accepted" => jobs[r] # {}
  /\ verdict = "refused" => jobs[r] = {}
  /\ told' = [told EXCEPT ![r] = verdict]
  /\ UNCHANGED jobs

Next == \E r \in Runs :
  \/ Create(r)
  \/ \E v \in {"accepted", "refused", "unknown"} : Tell(r, v)

Spec == Init /\ [][Next]_<<jobs, told>>

=============================================================================
