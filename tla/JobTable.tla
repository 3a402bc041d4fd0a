------------------------------ MODULE JobTable ------------------------------
(***************************************************************************)
(* What the bridge promises the code that calls Transfer and then polls     *)
(* GetProgress: a job gets an id of its own, is "in_progress" at once, and  *)
(* settles at most once, as "completed" or "failed"; a settled job never    *)
(* changes again, and a failed one reports no bytes.  Nothing says that a   *)
(* job settles at all, or how many bytes a completed one reports beyond     *)
(* their coming from JobBytes.                                              *)
(***************************************************************************)
EXTENDS Naturals, Sequences

CONSTANTS
    Requests,   \* what a transfer can be asked for
    JobBytes    \* the byte counts a completed job may report

VARIABLE jobs   \* Bridge.jobs: the i-th element is the job "job-i"

Settled == {"completed", "failed"}
Job     == [req : Requests, status : {"in_progress"} \cup Settled, bytes : Nat]

JobTypeOK == jobs \in Seq(Job)

JobInit == jobs = <<>>

\* Bridge.Transfer: it never returns an error, and its job is visible to
\* GetProgress when it returns.
Transfer(req) ==
    jobs' = Append(jobs, [req |-> req, status |-> "in_progress", bytes |-> 0])

\* The last updateProgress call of executeTransfer.
Complete(i) ==
    /\ jobs[i].status = "in_progress"
    /\ \E b \in JobBytes :
          jobs' = [jobs EXCEPT ![i] =
                     [@ EXCEPT !.status = "completed", !.bytes = b]]

Fail(i) ==
    /\ jobs[i].status = "in_progress"
    /\ jobs' = [jobs EXCEPT ![i] = [@ EXCEPT !.status = "failed"]]

Settle == \E i \in DOMAIN jobs : Complete(i) \/ Fail(i)

JobNext == (\E req \in Requests : Transfer(req)) \/ Settle

JobSpec == JobInit /\ [][JobNext]_jobs
=============================================================================
