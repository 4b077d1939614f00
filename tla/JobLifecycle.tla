---------------------------- MODULE JobLifecycle ----------------------------
(***************************************************************************)
(* What pipeline/job.py promises of a saved job, with no word about queue, *)
(* threads or copies: a job is submitted once, runs, and every run ends it *)
(* as COMPLETED, FAILED or, while its budget lasts, RETRYING.              *)
(* JobPipeline implements it for the jobs no client cancels or deletes.    *)
(***************************************************************************)
EXTENDS Naturals

CONSTANTS Jobs, MaxRetries

VARIABLES
    status,     \* Job.status, or "absent" before the job is saved
    retries,    \* Job._retry_count
    blemished   \* the jobs whose context holds a failure of this or an earlier run

jobVars == <<status, retries, blemished>>

LifecycleTypeOK ==
    /\ status \in [Jobs -> {"absent", "pending", "running", "completed", "failed", "retrying"}]
    /\ retries \in [Jobs -> 0..MaxRetries]
    /\ blemished \subseteq Jobs

Init ==
    /\ status = [j \in Jobs |-> "absent"]
    /\ retries = [j \in Jobs |-> 0]
    /\ blemished = {}

Submit(j) ==
    /\ status[j] = "absent"
    /\ status' = [status EXCEPT ![j] = "pending"]
    /\ UNCHANGED <<retries, blemished>>

Start(j) ==
    /\ status[j] \in {"pending", "retrying"}
    /\ status' = [status EXCEPT ![j] = "running"]
    /\ UNCHANGED <<retries, blemished>>

\* only a job none of whose runs recorded a failure completes
Complete(j) ==
    /\ status[j] = "running"
    /\ j \notin blemished
    /\ status' = [status EXCEPT ![j] = "completed"]
    /\ UNCHANGED <<retries, blemished>>

MarkRetrying(j) ==
    /\ status[j] = "running"
    /\ retries[j] < MaxRetries
    /\ status' = [status EXCEPT ![j] = "retrying"]
    /\ retries' = [retries EXCEPT ![j] = @ + 1]
    /\ blemished' = blemished \cup {j}

Fail(j) ==
    /\ status[j] = "running"
    /\ status' = [status EXCEPT ![j] = "failed"]
    /\ blemished' = blemished \cup {j}
    /\ UNCHANGED retries

Next == \E j \in Jobs :
    Submit(j) \/ Start(j) \/ Complete(j) \/ MarkRetrying(j) \/ Fail(j)

Spec == Init /\ [][Next]_jobVars
=============================================================================
