---------------------------- MODULE JobPipeline ----------------------------
(***************************************************************************)
(* The background job pipeline: the `jobs` table (pipeline/                *)
(* job_repository.py), the `job_queue` table (pipeline/job_queue.py), the  *)
(* dispatcher threads (pipeline/dispatcher.py), the recovery decision      *)
(* (pipeline/pipeline_context.py), the worker (pipeline/worker.py) and the *)
(* UI threads that start the dispatcher, submit jobs and cancel them       *)
(* (pipeline/pipeline_service.py, ui/services/api_client.py,               *)
(* ui/viewmodels/documents_vm.py).                                         *)
(*                                                                         *)
(* The two tables live on two connections and are never written together,  *)
(* so every operation is split at its writes.  A Job loaded from the table *)
(* is a private copy (`mem` below): the writer that saves it later         *)
(* overwrites whatever the table holds by then.                            *)
(***************************************************************************)
EXTENDS Naturals

CONSTANTS
    Jobs,         \* job ids, each submitted at most once (Job.create draws a fresh id)
    Threads,      \* slots for dispatcher threads alive at the same time
    Clients,      \* UI session threads calling into PipelineService
    MaxRetries,   \* Job._max_retries
    Priority,     \* job -> JobPriority
    CreatedAt,    \* job -> Job.created_at
    Outcomes,     \* the sets of failure kinds one run of a handler may record
    Cancellable,  \* jobs some client may cancel
    Deletable,    \* jobs some client may delete from the repository
    Faults,       \* subset of {"crash", "storage", "stop"}
    NoThread      \* Dispatcher._thread is None

FailureKinds == {"critical", "retryable", "review", "plain"}

ASSUME MaxRetriesAssumption == MaxRetries \in Nat

ASSUME OutcomesAssumption == Outcomes \subseteq SUBSET FailureKinds

ASSUME ThreadsAssumption == NoThread \notin Threads

ASSUME InputsAssumption ==
    /\ Priority \in [Jobs -> Nat]
    /\ CreatedAt \in [Jobs -> Nat]
    /\ Cancellable \subseteq Jobs
    /\ Deletable \subseteq Jobs
    /\ Faults \subseteq {"crash", "storage", "stop"}

VARIABLES
    jobs,       \* the jobs table: the blob last saved for every job
    queue,      \* the job_queue table
    running,    \* Dispatcher._running, a threading.Event
    current,    \* Dispatcher._thread
    thread,     \* the dispatcher threads: pc and the Job each one holds
    client,     \* the UI threads: pc and the Job each one holds
    runs        \* history: how many times the worker executed the job

vars == <<jobs, queue, running, current, thread, client, runs>>
tables == <<jobs, queue>>
starter == <<running, current>>

-----------------------------------------------------------------------------
(* Statuses and rows *)

JobStatus == {"pending", "running", "completed", "failed", "cancelled", "retrying"}
QueueStatus == {"pending", "retrying", "leased", "completed", "failed", "cancelled"}

AllowedTransitions ==
    [ s \in JobStatus |->
        CASE s = "pending"  -> {"running", "cancelled"}
          [] s = "running"  -> {"completed", "failed", "cancelled", "retrying"}
          [] s = "failed"   -> {"retrying", "cancelled"}
          [] s = "retrying" -> {"running", "cancelled"}
          [] OTHER          -> {} ]

JobRecord == [status : JobStatus, retries : 0..MaxRetries, failures : SUBSET FailureKinds]
NoJob == [status |-> "absent", retries |-> 0, failures |-> {}]
NewJob == [status |-> "pending", retries |-> 0, failures |-> {}]

\* `due` stands for available_at <= now
QueueRow == [status : QueueStatus, due : BOOLEAN]
NoRow == [status |-> "absent", due |-> FALSE]

Present(j) == jobs[j].status # "absent"
CanTransition(job, target) ==
    job.status \in JobStatus /\ target \in AllowedTransitions[job.status]
\* Bug variant: the budget is compared with the wrong operator.
CanRetryOnceMore(job) == job.retries <= MaxRetries
CanRetry(job) == job.retries < MaxRetries

\* PipelineContext.recovery_decision
RecoveryDecision(failures) ==
    CASE failures = {}            -> "continue"
      [] "critical" \in failures  -> "abort"
      [] "retryable" \in failures -> "retry"
      [] "review" \in failures    -> "escalate"
      [] OTHER                    -> "abort"

\* Bug variant: mark_retrying forgets to count the retry.
RoutedUncounted(job) ==
    CASE RecoveryDecision(job.failures) = "continue" ->
            [job EXCEPT !.status = "completed"]
      [] RecoveryDecision(job.failures) = "retry" /\ CanRetry(job) ->
            [job EXCEPT !.status = "retrying"]
      [] OTHER ->
            [job EXCEPT !.status = "failed"]

\* Dispatcher._route: the Job it saves before it touches the queue
Routed(job) ==
    CASE RecoveryDecision(job.failures) = "continue" ->
            [job EXCEPT !.status = "completed"]
      [] RecoveryDecision(job.failures) = "retry" /\ CanRetry(job) ->
            [job EXCEPT !.status = "retrying", !.retries = @ + 1]
      [] OTHER ->
            [job EXCEPT !.status = "failed"]

-----------------------------------------------------------------------------
(* Processes *)

Busy == {"load", "started", "execute", "route", "settle"}
ThreadPc == {"none", "created", "idle", "tick"} \cup Busy
ClientPc == {"idle", "guard", "assign", "run", "save", "enqueue", "cancelSave", "cancelQueue"}

Slot(pcs) == [pc : pcs, job : Jobs \cup {"none"}, mem : JobRecord \cup {NoJob}]

\* a process that holds no job
Free(pc) == [pc |-> pc, job |-> "none", mem |-> NoJob]

Alive(t) == thread[t].pc \notin {"none", "created"}

\* Dispatcher.is_running
IsRunning == current # NoThread /\ Alive(current)

Holds(t, j) == thread[t].pc \in Busy /\ thread[t].job = j

TypeOK ==
    /\ jobs \in [Jobs -> JobRecord \cup {NoJob}]
    /\ queue \in [Jobs -> QueueRow \cup {NoRow}]
    /\ running \in BOOLEAN
    /\ current \in Threads \cup {NoThread}
    /\ thread \in [Threads -> Slot(ThreadPc)]
    /\ client \in [Clients -> Slot(ClientPc)]
    /\ runs \in [Jobs -> Nat]

Init ==
    /\ jobs = [j \in Jobs |-> NoJob]
    /\ queue = [j \in Jobs |-> NoRow]
    /\ running = FALSE
    /\ current = NoThread
    /\ thread = [t \in Threads |-> Free("none")]
    /\ client = [c \in Clients |-> Free("idle")]
    /\ runs = [j \in Jobs |-> 0]

-----------------------------------------------------------------------------
(* A UI thread submits a job: _submit_llm_extraction_job calls             *)
(* ensure_background_pipeline_running, then PipelineService.submit; any     *)
(* exception on the way is swallowed and the submission is dropped.         *)

Fresh(j) ==
    /\ jobs[j] = NoJob
    /\ queue[j] = NoRow
    /\ \A c \in Clients : client[c].job # j

EnsureRunning(c, j) ==
    /\ client[c].pc = "idle"
    /\ Fresh(j)
    /\ client' = [client EXCEPT ![c] =
                    [pc |-> IF IsRunning THEN "save" ELSE "guard", job |-> j, mem |-> NewJob]]
    /\ UNCHANGED <<tables, starter, thread, runs>>

\* Dispatcher.start: require(not self.is_running)
StartGuard(c) ==
    /\ client[c].pc = "guard"
    /\ client' = [client EXCEPT ![c] =
                    IF IsRunning THEN Free("idle") ELSE [@ EXCEPT !.pc = "assign"]]
    /\ UNCHANGED <<tables, starter, thread, runs>>

\* Bug variant: start forgets self._running.set().
StartUnset(c) ==
    /\ client[c].pc = "assign"
    /\ \E t \in Threads :
        /\ thread[t].pc = "none"
        /\ thread' = [thread EXCEPT ![t] = Free("created")]
        /\ current' = t
    /\ client' = [client EXCEPT ![c].pc = "run"]
    /\ UNCHANGED <<tables, running, runs>>

\* self._running.set(); self._thread = threading.Thread(...).  A thread object that
\* was created, never started and is no longer referenced is gone.
StartAssign(c) ==
    /\ client[c].pc = "assign"
    /\ \E t \in Threads :
        /\ thread[t].pc = "none" \/ (thread[t].pc = "created" /\ t = current)
        /\ thread' = [s \in Threads |->
                        IF s = t THEN Free("created")
                        ELSE IF thread[s].pc = "created" THEN Free("none") ELSE thread[s]]
        /\ current' = t
    /\ running' = TRUE
    /\ client' = [client EXCEPT ![c].pc = "run"]
    /\ UNCHANGED <<tables, runs>>

\* self._thread.start(): the attribute is read again, so it may be the thread another
\* client has just assigned; starting a thread twice raises RuntimeError.
StartThread(c) ==
    /\ client[c].pc = "run"
    /\ \/ /\ thread[current].pc = "created"
          /\ thread' = [thread EXCEPT ![current] = Free("idle")]
          /\ client' = [client EXCEPT ![c].pc = "save"]
       \/ /\ thread[current].pc # "created"
          /\ client' = [client EXCEPT ![c] = Free("idle")]
          /\ UNCHANGED thread
    /\ UNCHANGED <<tables, starter, runs>>

SubmitSave(c) ==
    /\ client[c].pc = "save"
    /\ jobs' = [jobs EXCEPT ![client[c].job] = client[c].mem]
    /\ client' = [client EXCEPT ![c].pc = "enqueue"]
    /\ UNCHANGED <<queue, starter, thread, runs>>

SubmitEnqueue(c) ==
    /\ client[c].pc = "enqueue"
    /\ queue' = [queue EXCEPT ![client[c].job] = [status |-> "pending", due |-> TRUE]]
    /\ client' = [client EXCEPT ![c] = Free("idle")]
    /\ UNCHANGED <<jobs, starter, thread, runs>>

-----------------------------------------------------------------------------
(* PipelineService.cancel: load, Job.cancel (StateError ends the call when  *)
(* the status does not allow it), save, JobQueue.cancel                     *)

CancelLoad(c, j) ==
    /\ client[c].pc = "idle"
    /\ j \in Cancellable
    /\ CanTransition(jobs[j], "cancelled")
    /\ client' = [client EXCEPT ![c] =
                    [pc |-> "cancelSave", job |-> j,
                     mem |-> [jobs[j] EXCEPT !.status = "cancelled"]]]
    /\ UNCHANGED <<tables, starter, thread, runs>>

CancelSave(c) ==
    /\ client[c].pc = "cancelSave"
    /\ jobs' = [jobs EXCEPT ![client[c].job] = client[c].mem]
    /\ client' = [client EXCEPT ![c].pc = "cancelQueue"]
    /\ UNCHANGED <<queue, starter, thread, runs>>

\* UPDATE ... WHERE job_id = ?: no status guard, and no row is no update
CancelQueue(c) ==
    /\ client[c].pc = "cancelQueue"
    /\ LET j == client[c].job IN
        queue' = [queue EXCEPT ![j] = IF @ = NoRow THEN @ ELSE [@ EXCEPT !.status = "cancelled"]]
    /\ client' = [client EXCEPT ![c] = Free("idle")]
    /\ UNCHANGED <<jobs, starter, thread, runs>>

\* JobRepository.delete; the queue row stays
DeleteJob(j) ==
    /\ j \in Deletable
    /\ Present(j)
    /\ jobs' = [jobs EXCEPT ![j] = NoJob]
    /\ UNCHANGED <<queue, starter, thread, client, runs>>

-----------------------------------------------------------------------------
(* A dispatcher thread: Dispatcher._loop and Dispatcher._tick               *)

\* while self._running.is_set()
Poll(t) ==
    /\ thread[t].pc = "idle"
    /\ thread' = [thread EXCEPT ![t] = Free(IF running THEN "tick" ELSE "none")]
    /\ UNCHANGED <<tables, starter, client, runs>>

\* Bug variant: leased rows are handed out again, as if leases expired.
LeasableAgain(j) == queue[j].status \in {"pending", "retrying", "leased"} /\ queue[j].due

\* Bug variant: the query forgets the status filter.
LeasableByTime(j) == queue[j].due

\* Bug variant: the query excludes the outcomes and forgets CANCELLED.
LeasableUnlessSettled(j) ==
    queue[j].status \notin {"leased", "completed", "failed"} /\ queue[j].due

Leasable(j) == queue[j].status \in {"pending", "retrying"} /\ queue[j].due

\* ORDER BY priority DESC, created_at ASC
Precedes(i, j) ==
    \/ Priority[i] > Priority[j]
    \/ Priority[i] = Priority[j] /\ CreatedAt[i] < CreatedAt[j]

\* Bug variant: lease selects a row and forgets to mark it.
LeaseUnmarked(t) ==
    /\ thread[t].pc = "tick"
    /\ \E j \in Jobs :
        /\ Leasable(j)
        /\ thread' = [thread EXCEPT ![t] = [pc |-> "load", job |-> j, mem |-> NoJob]]
    /\ UNCHANGED <<tables, starter, client, runs>>

\* JobQueue.lease runs under the queue's lock
Lease(t) ==
    /\ thread[t].pc = "tick"
    /\ \E j \in Jobs :
        /\ Leasable(j)
        /\ \A i \in Jobs : Leasable(i) => ~Precedes(i, j)
        /\ queue' = [queue EXCEPT ![j].status = "leased"]
        /\ thread' = [thread EXCEPT ![t] = [pc |-> "load", job |-> j, mem |-> NoJob]]
    /\ UNCHANGED <<jobs, starter, client, runs>>

LeaseNothing(t) ==
    /\ thread[t].pc = "tick"
    /\ \A j \in Jobs : ~Leasable(j)
    /\ thread' = [thread EXCEPT ![t] = Free("idle")]
    /\ UNCHANGED <<tables, starter, client, runs>>

\* repository.load returned None: the row fails
LoadMissing(t) ==
    /\ thread[t].pc = "load"
    /\ ~Present(thread[t].job)
    /\ queue' = [queue EXCEPT ![thread[t].job].status = "failed"]
    /\ thread' = [thread EXCEPT ![t] = Free("idle")]
    /\ UNCHANGED <<jobs, starter, client, runs>>

\* repository.load, then job.start on the private copy
LoadAndStart(t) ==
    /\ thread[t].pc = "load"
    /\ CanTransition(jobs[thread[t].job], "running")
    /\ thread' = [thread EXCEPT ![t].pc = "started",
                                ![t].mem = [jobs[thread[t].job] EXCEPT !.status = "running"]]
    /\ UNCHANGED <<tables, starter, client, runs>>

\* job.start raised StateError: _loop logs it, the row stays leased
LoadRefused(t) ==
    /\ thread[t].pc = "load"
    /\ Present(thread[t].job)
    /\ ~CanTransition(jobs[thread[t].job], "running")
    /\ thread' = [thread EXCEPT ![t] = Free("idle")]
    /\ UNCHANGED <<tables, starter, client, runs>>

SaveStarted(t) ==
    /\ thread[t].pc = "started"
    /\ jobs' = [jobs EXCEPT ![thread[t].job] = thread[t].mem]
    /\ thread' = [thread EXCEPT ![t].pc = "execute"]
    /\ UNCHANGED <<queue, starter, client, runs>>

\* Bug variant: every attempt starts with a clean context.
ExecuteAfresh(t) ==
    /\ thread[t].pc = "execute"
    /\ \E o \in Outcomes :
        thread' = [thread EXCEPT ![t].pc = "route", ![t].mem.failures = o]
    /\ runs' = [runs EXCEPT ![thread[t].job] = @ + 1]
    /\ UNCHANGED <<tables, starter, client>>

\* worker.execute: the failures of this run join those of the earlier runs, which the
\* blob carries from one attempt to the next
Execute(t) ==
    /\ thread[t].pc = "execute"
    /\ \E o \in Outcomes :
        thread' = [thread EXCEPT ![t].pc = "route", ![t].mem.failures = @ \cup o]
    /\ runs' = [runs EXCEPT ![thread[t].job] = @ + 1]
    /\ UNCHANGED <<tables, starter, client>>

\* Bug variant: the outcome reaches the queue without having been saved.
RouteUnsaved(t) ==
    /\ thread[t].pc = "route"
    /\ thread' = [thread EXCEPT ![t].pc = "settle", ![t].mem = Routed(@)]
    /\ UNCHANGED <<tables, starter, client, runs>>

\* Dispatcher._route up to repository.save
RouteSave(t) ==
    /\ thread[t].pc = "route"
    /\ LET job == Routed(thread[t].mem) IN
        /\ jobs' = [jobs EXCEPT ![thread[t].job] = job]
        /\ thread' = [thread EXCEPT ![t].pc = "settle", ![t].mem = job]
    /\ UNCHANGED <<queue, starter, client, runs>>

\* Bug variant: the RETRY branch saves the job and forgets to requeue it.
SettledWithoutRequeue(row, status) ==
    CASE status = "completed" /\ row.status = "leased" -> [row EXCEPT !.status = "completed"]
      [] status = "failed" -> [row EXCEPT !.status = "failed"]
      [] OTHER -> row

\* Dispatcher._route after the save: JobQueue.complete, requeue or fail
Settled(row, status) ==
    CASE status = "completed" /\ row.status = "leased" -> [row EXCEPT !.status = "completed"]
      [] status = "completed" /\ row.status # "leased" -> row
      [] status = "retrying" -> [status |-> "retrying", due |-> FALSE]
      [] OTHER -> [row EXCEPT !.status = "failed"]

RouteQueue(t) ==
    /\ thread[t].pc = "settle"
    /\ queue' = [queue EXCEPT ![thread[t].job] = Settled(@, thread[t].mem.status)]
    /\ thread' = [thread EXCEPT ![t] = Free("idle")]
    /\ UNCHANGED <<jobs, starter, client, runs>>

-----------------------------------------------------------------------------
(* Environment *)

\* retry_delay seconds after requeue
DelayElapses(j) ==
    /\ queue[j].status = "retrying"
    /\ ~queue[j].due
    /\ queue' = [queue EXCEPT ![j].due = TRUE]
    /\ UNCHANGED <<jobs, starter, thread, client, runs>>

\* PipelineService.stop
Stop ==
    /\ "stop" \in Faults
    /\ running
    /\ running' = FALSE
    /\ UNCHANGED <<tables, current, thread, client, runs>>

\* a read or write of the database raises (locked, full, not serialisable), before or
\* after it took effect, or worker.execute raises (PipelineFailure.create refuses a failure
\* without a message or a stage): _loop logs it and the job in hand is dropped
ThreadStorageError(t) ==
    /\ "storage" \in Faults
    /\ thread[t].pc \in {"tick"} \cup Busy
    /\ thread' = [thread EXCEPT ![t] = Free("idle")]
    /\ UNCHANGED <<tables, starter, client, runs>>

ClientStorageError(c) ==
    /\ "storage" \in Faults
    /\ client[c].pc \in {"save", "enqueue", "cancelSave", "cancelQueue"}
    /\ client' = [client EXCEPT ![c] = Free("idle")]
    /\ UNCHANGED <<tables, starter, thread, runs>>

\* the process dies: both tables survive, nothing else does
Crash ==
    /\ "crash" \in Faults
    /\ running' = FALSE
    /\ current' = NoThread
    /\ thread' = [t \in Threads |-> Free("none")]
    /\ client' = [c \in Clients |-> Free("idle")]
    /\ UNCHANGED <<tables, runs>>

-----------------------------------------------------------------------------
ThreadStep(t) ==
    \/ Poll(t)
    \/ Lease(t)
    \/ LeaseNothing(t)
    \/ LoadMissing(t)
    \/ LoadAndStart(t)
    \/ LoadRefused(t)
    \/ SaveStarted(t)
    \/ Execute(t)
    \/ RouteSave(t)
    \/ RouteQueue(t)

ClientStep(c) ==
    \/ StartGuard(c)
    \/ StartAssign(c)
    \/ StartThread(c)
    \/ SubmitSave(c)
    \/ SubmitEnqueue(c)
    \/ CancelSave(c)
    \/ CancelQueue(c)

ClientCall(c) == \E j \in Jobs : EnsureRunning(c, j) \/ CancelLoad(c, j)

Next ==
    \/ \E t \in Threads : ThreadStep(t) \/ ThreadStorageError(t)
    \/ \E c \in Clients : ClientStep(c) \/ ClientCall(c) \/ ClientStorageError(c)
    \/ \E j \in Jobs : DelayElapses(j) \/ DeleteJob(j)
    \/ Stop
    \/ Crash

Spec == Init /\ [][Next]_vars

\* Started threads and calls in progress keep being scheduled by the interpreter, and
\* the clock passes available_at; nothing obliges a client to call, or a fault to occur.
Fairness ==
    /\ \A t \in Threads : WF_vars(ThreadStep(t))
    /\ \A c \in Clients : WF_vars(ClientStep(c))
    /\ \A j \in Jobs : WF_vars(DelayElapses(j))

FairSpec == Spec /\ Fairness
-----------------------------------------------------------------------------
(* Properties *)

\* Two dispatcher threads, which two UI threads can start by racing through
\* Dispatcher.start, never have the same job in hand: JobQueue.lease takes a row out of
\* the leasable statuses and only its holder, or a cancel, moves the row again.
OneHolder ==
    \A t, u \in Threads : \A j \in Jobs : Holds(t, j) /\ Holds(u, j) => t = u

\* The worker executes a job at most 1 + max_retries times, whatever cancels, crashes and
\* stale saves do to the persisted retry counter.
RunsWithinBudget ==
    \A j \in Jobs : runs[j] <= MaxRetries + 1

\* A job persisted as COMPLETED never recorded a failure and was never retried: failures
\* stay in the context from one attempt to the next, so a job that failed once cannot
\* complete however well its later attempts go.
CompletedAtFirstAttempt ==
    \A j \in Jobs : jobs[j].status = "completed" =>
        jobs[j].failures = {} /\ jobs[j].retries = 0

\* A queue row that claims an outcome is backed by the saved job, at every point where the
\* process may die: _route saves the job before it moves the row, submit saves before it
\* enqueues, and only a cancel can have replaced the saved job since.
RowBackedByJob ==
    \A j \in Jobs \ Deletable :
        /\ queue[j].status = "completed" => jobs[j].status \in {"completed", "cancelled"}
        /\ queue[j].status = "failed"    => jobs[j].status \in {"failed", "cancelled"}
        /\ queue[j].status = "retrying"  => jobs[j].status \in {"retrying", "cancelled"}
        /\ queue[j].status = "pending"   => jobs[j].status \in {"pending", "cancelled"}

\* A row that reached COMPLETED or FAILED is never leased or requeued again; the only
\* thing that may still happen to it is a cancel.
SettledRowsStay ==
    [][\A j \in Jobs : queue[j].status \in {"completed", "failed"} =>
            queue'[j].status \in {queue[j].status, "cancelled"}]_queue

\* A cancelled row comes back only through the hands of the thread that had the job in hand
\* when it was cancelled (requeue and fail have no status guard); nothing else revives it.
RevivedOnlyByHolder ==
    [][\A j \in Jobs : queue[j].status = "cancelled" /\ queue'[j].status # "cancelled" =>
            \E t \in Threads : Holds(t, j)]_queue

\* What Job._transition raises StateError for: the status saved for a job only ever moves
\* along _ALLOWED_TRANSITIONS, COMPLETED and CANCELLED being final.
PersistedTransitionsAllowed ==
    [][\A j \in Jobs : Present(j) /\ jobs'[j] # NoJob /\ jobs'[j].status # jobs[j].status =>
            CanTransition(jobs[j], jobs'[j].status)]_jobs

\* the jobs no client cancels or deletes
Undisturbed == Jobs \ (Cancellable \cup Deletable)

\* Without faults every job that is saved and left alone is finally settled in both tables,
\* with the same outcome, whatever races started the dispatcher threads and whatever
\* happens to the other jobs.
BothTablesSettle ==
    \A j \in Undisturbed : Present(j) ~>
        /\ jobs[j].status \in {"completed", "failed"}
        /\ queue[j].status = jobs[j].status

\* With cancels, still without faults, at least one table settles every saved job that is
\* not deleted.  Not both: a cancel that loses the race for the jobs table leaves a RETRYING
\* job under a cancelled row, one that loses the race for the row leaves it leased by nobody.
OneTableSettles ==
    \A j \in Jobs : Present(j) ~>
        \/ ~Present(j)
        \/ jobs[j].status \in {"completed", "failed", "cancelled"}
        \/ queue[j].status \in {"completed", "failed", "cancelled"}

\* The saved jobs, read as the job lifecycle of module JobLifecycle: each save is one of its
\* steps and everything else a stutter, for the jobs that nobody cancels or deletes.
Lifecycle == INSTANCE JobLifecycle WITH
    Jobs <- Undisturbed,
    status <- [j \in Undisturbed |-> jobs[j].status],
    retries <- [j \in Undisturbed |-> jobs[j].retries],
    blemished <- {j \in Undisturbed : jobs[j].failures # {}}

\* Crashes, storage errors, a second dispatcher thread and the cancels and deletes of other
\* jobs included, the jobs table follows the lifecycle of pipeline/job.py: no step skipped,
\* no retry beyond the budget, nothing completed over a failure, no terminal job touched.
ImplementsLifecycle == Lifecycle!Spec

-----------------------------------------------------------------------------
(* The inductive invariant behind OneHolder, RunsWithinBudget,              *)
(* CompletedAtFirstAttempt and RowBackedByJob                               *)

Submitting(c) == client[c].pc \in {"guard", "assign", "run", "save", "enqueue"}
Cancelling(c) == client[c].pc \in {"cancelSave", "cancelQueue"}
Startable(job) == job.status \in {"pending", "retrying"}
RetriedAfterFailure(job) == job.retries > 0 => job.failures # {}

\* a row whose job is in a thread's hands is leased, or was cancelled since
HolderInv ==
    \A t \in Threads : thread[t].pc \in Busy =>
        /\ thread[t].job \in Jobs
        /\ queue[thread[t].job].status \in {"leased", "cancelled"}

\* a job being submitted has no row yet, and one submitter
SubmitterInv ==
    /\ \A c \in Clients : Submitting(c) =>
        /\ client[c].job \in Jobs
        /\ queue[client[c].job] = NoRow
        /\ client[c].mem = NewJob
    /\ \A c, d \in Clients :
        Submitting(c) /\ Submitting(d) /\ client[c].job = client[d].job => c = d

CancellerInv ==
    \A c \in Clients : Cancelling(c) =>
        /\ client[c].job \in Jobs
        /\ client[c].mem.status = "cancelled"

\* the private copies count the attempts: one run per retry spent, one more when the
\* attempt in hand has been executed
CountInv ==
    \A t \in Threads :
        /\ thread[t].pc \in {"started", "execute"} =>
            /\ thread[t].mem.status = "running"
            /\ runs[thread[t].job] <= thread[t].mem.retries
        /\ thread[t].pc = "route" =>
            /\ thread[t].mem.status = "running"
            /\ runs[thread[t].job] <= thread[t].mem.retries + 1
        /\ thread[t].pc \in {"execute", "route"} => ~Startable(jobs[thread[t].job])
        /\ thread[t].pc = "settle" =>
            /\ thread[t].mem.status \in {"completed", "retrying", "failed"}
            /\ thread[t].job \notin Deletable =>
                jobs[thread[t].job].status \in {thread[t].mem.status, "cancelled"}

SavedCountInv ==
    \A j \in Jobs :
        /\ Startable(jobs[j]) => runs[j] <= jobs[j].retries
        /\ queue[j] = NoRow => runs[j] = 0

BlemishInv ==
    /\ \A j \in Jobs : RetriedAfterFailure(jobs[j])
    /\ \A t \in Threads : RetriedAfterFailure(thread[t].mem)
    /\ \A c \in Clients : RetriedAfterFailure(client[c].mem)

\* save before enqueue
EnqueueInv ==
    /\ \A c \in Clients : client[c].pc = "enqueue" /\ client[c].job \notin Deletable =>
        jobs[client[c].job].status \in {"pending", "cancelled"}
    /\ \A j \in Jobs \ Deletable : queue[j] # NoRow => Present(j)

PipelineInv ==
    /\ TypeOK
    /\ HolderInv
    /\ OneHolder
    /\ SubmitterInv
    /\ CancellerInv
    /\ CountInv
    /\ SavedCountInv
    /\ BlemishInv
    /\ EnqueueInv
    /\ RunsWithinBudget
    /\ CompletedAtFirstAttempt
    /\ RowBackedByJob

\* the copy in a thread's hands is the saved job, plus what the thread did to it since
FreshCopy(t) ==
    LET saved == jobs[thread[t].job]
        mem   == thread[t].mem
    IN  /\ thread[t].pc = "started" =>
            Startable(saved) /\ mem = [saved EXCEPT !.status = "running"]
        /\ thread[t].pc = "execute" => mem = saved
        /\ thread[t].pc = "route" =>
            /\ saved.status = "running"
            /\ saved.retries = mem.retries
            /\ saved.failures \subseteq mem.failures

\* No private copy of an undisturbed job goes stale: what the refinement of JobLifecycle
\* needs.
CopyInv ==
    /\ \A j \in Undisturbed : jobs[j].status # "cancelled"
    /\ \A c \in Clients : client[c].job \in Undisturbed =>
        /\ ~Cancelling(c)
        /\ client[c].pc \in {"guard", "assign", "run", "save"} => jobs[client[c].job] = NoJob
    /\ \A t \in Threads : thread[t].job \in Undisturbed => FreshCopy(t)
=============================================================================
