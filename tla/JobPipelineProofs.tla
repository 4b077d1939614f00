------------------------- MODULE JobPipelineProofs -------------------------
(***************************************************************************)
(* Proofs about JobPipeline, for any number of jobs, dispatcher threads    *)
(* and sessions, any retry budget, any mix of faults, cancels and deletes. *)
(***************************************************************************)
EXTENDS JobPipeline, TLAPS

(* The operators of the model *)

\* Job.start accepts exactly the pending and the retrying jobs
\* (_ALLOWED_TRANSITIONS read backwards).
LEMMA StartableTransitions ==
    ASSUME NEW job
    PROVE  CanTransition(job, "running") <=> Startable(job)
BY DEF CanTransition, AllowedTransitions, JobStatus, Startable

\* Dispatcher._route keeps a running job within its type and its retry budget, completes
\* only a job without failures and retries only one with failures.
LEMMA RoutedJob ==
    ASSUME NEW job \in JobRecord \cup {NoJob}, job.status = "running"
    PROVE  /\ Routed(job) \in JobRecord
           /\ Routed(job).failures = job.failures
           /\ Routed(job).status \in {"completed", "retrying", "failed"}
           /\ Routed(job).status = "completed" =>
                job.failures = {} /\ Routed(job).retries = job.retries
           /\ Routed(job).status = "retrying" =>
                job.failures # {} /\ Routed(job).retries = job.retries + 1
           /\ Routed(job).status = "failed" => Routed(job).retries = job.retries
<1> job \in JobRecord  BY DEF NoJob
<1>1. CASE RecoveryDecision(job.failures) = "continue"
    BY <1>1 DEF Routed, RecoveryDecision, JobRecord, JobStatus
<1>2. CASE RecoveryDecision(job.failures) = "retry" /\ CanRetry(job)
    <2>1. Routed(job) = [job EXCEPT !.status = "retrying", !.retries = @ + 1]
        BY <1>2 DEF Routed
    <2>2. job.failures # {}
        BY <1>2 DEF RecoveryDecision
    <2>3. job.retries + 1 \in 0..MaxRetries
        BY <1>2, MaxRetriesAssumption DEF CanRetry, JobRecord
    <2> QED BY <2>1, <2>2, <2>3 DEF JobRecord, JobStatus
<1>3. CASE ~(RecoveryDecision(job.failures) = "continue")
            /\ ~(RecoveryDecision(job.failures) = "retry" /\ CanRetry(job))
    BY <1>3 DEF Routed, JobRecord, JobStatus
<1> QED BY <1>1, <1>2, <1>3

\* The row Dispatcher._route leaves: still a row, never leasable again unless requeued.
LEMMA SettledRow ==
    ASSUME NEW row \in QueueRow, row.status \in {"leased", "cancelled"},
           NEW status \in {"completed", "retrying", "failed"}
    PROVE  /\ Settled(row, status) \in QueueRow
           /\ Settled(row, status).status \in {status, "cancelled"}
BY DEF Settled, QueueRow, QueueStatus

\* A process that lets go of its job is well typed.
LEMMA FreeSlot ==
    ASSUME NEW pcs, NEW pc \in pcs
    PROVE  Free(pc) \in Slot(pcs)
BY DEF Free, Slot

-----------------------------------------------------------------------------
(* The inductive invariant *)

LEMMA InitInv == Init => PipelineInv
<1> SUFFICES ASSUME Init PROVE PipelineInv
    OBVIOUS
<1> USE DEF Init
<1>1. TypeOK
    <2>1. thread \in [Threads -> Slot(ThreadPc)]
        BY FreeSlot DEF ThreadPc
    <2>2. client \in [Clients -> Slot(ClientPc)]
        BY FreeSlot DEF ClientPc
    <2> QED BY <2>1, <2>2 DEF TypeOK
<1>2. \A t \in Threads : thread[t].pc \notin Busy /\ thread[t].mem = NoJob
    BY DEF Free, Busy
<1>3. \A c \in Clients : client[c].pc = "idle" /\ client[c].mem = NoJob
    BY DEF Free
<1>4. HolderInv /\ OneHolder /\ CountInv
    BY <1>2 DEF HolderInv, OneHolder, CountInv, Holds, Busy
<1>5. SubmitterInv /\ CancellerInv /\ EnqueueInv
    BY <1>3 DEF SubmitterInv, CancellerInv, EnqueueInv, Submitting, Cancelling
<1>6. SavedCountInv /\ BlemishInv
    BY <1>2, <1>3 DEF SavedCountInv, BlemishInv, Startable, RetriedAfterFailure, NoJob
<1>7. RunsWithinBudget
    <2>1. \A j \in Jobs : runs[j] = 0
        OBVIOUS
    <2>2. 0 <= MaxRetries + 1
        BY MaxRetriesAssumption
    <2> QED BY <2>1, <2>2 DEF RunsWithinBudget
<1>8. CompletedAtFirstAttempt /\ RowBackedByJob
    BY DEF CompletedAtFirstAttempt, RowBackedByJob, NoJob, NoRow
<1> QED BY <1>1, <1>4, <1>5, <1>6, <1>7, <1>8 DEF PipelineInv

\* Steps that touch no table: a process moves on, or drops the job it has in hand
\* (an exception, a thread that ends, a crash).
LEMMA ProcessStep ==
    ASSUME PipelineInv, TypeOK', UNCHANGED <<jobs, queue, runs>>,
           \A u \in Threads :
                \/ thread'[u] = thread[u]
                \/ thread'[u].pc \notin Busy /\ thread'[u].mem = NoJob,
           \A d \in Clients :
                \/ client'[d] = client[d]
                \/ client'[d] = Free("idle")
                \/ /\ Submitting(d)
                   /\ client'[d].pc \in {"assign", "run", "save"}
                   /\ client'[d].job = client[d].job
                   /\ client'[d].mem = client[d].mem
    PROVE  PipelineInv'
<1> USE DEF PipelineInv
<1>1. HolderInv' /\ OneHolder'
    BY DEF HolderInv, OneHolder, Holds
<1>2. SubmitterInv' /\ CancellerInv'
    BY DEF SubmitterInv, CancellerInv, Submitting, Cancelling, Free
<1>3. CountInv'
    BY DEF CountInv, Busy, Startable
<1>4. SavedCountInv' /\ RunsWithinBudget' /\ CompletedAtFirstAttempt' /\ RowBackedByJob'
    BY DEF SavedCountInv, RunsWithinBudget, CompletedAtFirstAttempt, RowBackedByJob, Startable
<1>5. BlemishInv'
    BY DEF BlemishInv, RetriedAfterFailure, NoJob, Free
<1>6. EnqueueInv'
    BY DEF EnqueueInv, Free, Present
<1> QED BY <1>1, <1>2, <1>3, <1>4, <1>5, <1>6

-----------------------------------------------------------------------------
(* The steps of a UI thread *)

LEMMA EnsureRunningInv ==
    ASSUME PipelineInv, NEW c \in Clients, NEW j \in Jobs, EnsureRunning(c, j)
    PROVE  PipelineInv'
<1> USE DEF PipelineInv
<1> DEFINE pc == IF IsRunning THEN "save" ELSE "guard"
<1>1. /\ client' = [client EXCEPT ![c] = [pc |-> pc, job |-> j, mem |-> NewJob]]
      /\ Fresh(j)
      /\ pc \in {"save", "guard"}
    BY DEF EnsureRunning
<1>2. UNCHANGED <<jobs, queue, running, current, thread, runs>>
    BY DEF EnsureRunning, tables, starter
<1> HIDE DEF pc
<1>3. NewJob \in JobRecord
    BY MaxRetriesAssumption DEF NewJob, JobRecord, JobStatus
<1>4. TypeOK'
    BY <1>1, <1>2, <1>3 DEF TypeOK, Slot, ClientPc
<1>5. HolderInv' /\ OneHolder'
    BY <1>2 DEF HolderInv, OneHolder, Holds
<1>6. SubmitterInv'
    BY <1>1, <1>2 DEF SubmitterInv, Submitting, Fresh, TypeOK
<1>7. CancellerInv'
    BY <1>1, <1>2 DEF CancellerInv, Cancelling, TypeOK
<1>8. CountInv'
    BY <1>2 DEF CountInv, Startable
<1>9. SavedCountInv' /\ RunsWithinBudget' /\ CompletedAtFirstAttempt' /\ RowBackedByJob'
    BY <1>2 DEF SavedCountInv, RunsWithinBudget, CompletedAtFirstAttempt, RowBackedByJob, Startable
<1>10. BlemishInv'
    BY <1>1, <1>2 DEF BlemishInv, RetriedAfterFailure, NewJob, TypeOK
<1>11. EnqueueInv'
    BY <1>1, <1>2 DEF EnqueueInv, Present, TypeOK
<1> QED BY <1>4, <1>5, <1>6, <1>7, <1>8, <1>9, <1>10, <1>11

LEMMA StartGuardInv ==
    ASSUME PipelineInv, NEW c \in Clients, StartGuard(c)
    PROVE  PipelineInv'
<1> USE DEF PipelineInv
<1>1. UNCHANGED <<jobs, queue, running, current, thread, runs>>
    BY DEF StartGuard, tables, starter
<1>2. \/ client' = [client EXCEPT ![c] = Free("idle")]
      \/ Submitting(c) /\ client' = [client EXCEPT ![c].pc = "assign"]
    BY DEF StartGuard, Submitting
<1>3. Free("idle") \in Slot(ClientPc)
    BY FreeSlot DEF ClientPc
<1>4. TypeOK'
    BY <1>1, <1>2, <1>3 DEF TypeOK, Slot, ClientPc
<1> QED BY <1>1, <1>2, <1>4, ProcessStep DEF TypeOK, Slot

LEMMA StartAssignInv ==
    ASSUME PipelineInv, NEW c \in Clients, StartAssign(c)
    PROVE  PipelineInv'
<1> USE DEF PipelineInv
<1>1. UNCHANGED <<jobs, queue, runs>> /\ running' = TRUE
    BY DEF StartAssign, tables
<1>2. Submitting(c) /\ client' = [client EXCEPT ![c].pc = "run"]
    BY DEF StartAssign, Submitting
<1>3. PICK t \in Threads :
        /\ thread[t].pc = "none" \/ (thread[t].pc = "created" /\ t = current)
        /\ thread' = [s \in Threads |->
                        IF s = t THEN Free("created")
                        ELSE IF thread[s].pc = "created" THEN Free("none") ELSE thread[s]]
        /\ current' = t
    BY DEF StartAssign
<1>4. Free("created") \in Slot(ThreadPc) /\ Free("none") \in Slot(ThreadPc)
    BY FreeSlot DEF ThreadPc
<1>5. TypeOK'
    BY <1>1, <1>2, <1>3, <1>4 DEF TypeOK, Slot, ClientPc
<1>6. \A u \in Threads :
        \/ thread'[u] = thread[u]
        \/ thread'[u].pc \notin Busy /\ thread'[u].mem = NoJob
    BY <1>3 DEF Free, Busy
<1> QED BY <1>1, <1>2, <1>5, <1>6, ProcessStep DEF TypeOK, Slot

LEMMA StartThreadInv ==
    ASSUME PipelineInv, NEW c \in Clients, StartThread(c)
    PROVE  PipelineInv'
<1> USE DEF PipelineInv
<1>1. UNCHANGED <<jobs, queue, running, current, runs>>
    BY DEF StartThread, tables, starter
<1>2. \/ /\ thread' = [thread EXCEPT ![current] = Free("idle")]
         /\ Submitting(c) /\ client' = [client EXCEPT ![c].pc = "save"]
      \/ /\ thread' = thread
         /\ client' = [client EXCEPT ![c] = Free("idle")]
    BY DEF StartThread, Submitting
<1>3. Free("idle") \in Slot(ThreadPc) /\ Free("idle") \in Slot(ClientPc)
    BY FreeSlot DEF ThreadPc, ClientPc
<1>4. TypeOK'
    <2>1. client' \in [Clients -> Slot(ClientPc)]
        BY <1>2, <1>3 DEF TypeOK, Slot, ClientPc
    <2>2. thread' \in [Threads -> Slot(ThreadPc)]
        BY <1>2, <1>3 DEF TypeOK
    <2> QED BY <1>1, <2>1, <2>2 DEF TypeOK
<1>5. \A u \in Threads :
        \/ thread'[u] = thread[u]
        \/ thread'[u].pc \notin Busy /\ thread'[u].mem = NoJob
    BY <1>2 DEF Free, Busy, TypeOK
<1> QED BY <1>1, <1>2, <1>4, <1>5, ProcessStep DEF TypeOK, Slot

LEMMA SubmitSaveInv ==
    ASSUME PipelineInv, NEW c \in Clients, SubmitSave(c)
    PROVE  PipelineInv'
<1> USE DEF PipelineInv
<1> DEFINE j == client[c].job
<1>1. /\ client[c].pc = "save"
      /\ jobs' = [jobs EXCEPT ![j] = client[c].mem]
      /\ client' = [client EXCEPT ![c].pc = "enqueue"]
    BY DEF SubmitSave
<1>2. UNCHANGED <<queue, running, current, thread, runs>>
    BY DEF SubmitSave, starter
<1>3. j \in Jobs /\ queue[j] = NoRow /\ runs[j] = 0 /\ client[c].mem = NewJob
    BY <1>1 DEF SubmitterInv, Submitting, SavedCountInv
<1> HIDE DEF j
<1>4. jobs'[j] = NewJob /\ \A i \in Jobs : i # j => jobs'[i] = jobs[i]
    BY <1>1, <1>3 DEF TypeOK
<1>5. \A t \in Threads : ~Holds(t, j)
    BY <1>3 DEF HolderInv, Holds, NoRow
<1>6. NewJob \in JobRecord
    BY MaxRetriesAssumption DEF NewJob, JobRecord, JobStatus
<1>7. TypeOK'
    BY <1>1, <1>2, <1>3, <1>6 DEF TypeOK, Slot, ClientPc
<1>8. HolderInv' /\ OneHolder'
    BY <1>2 DEF HolderInv, OneHolder, Holds
<1>9. SubmitterInv' /\ CancellerInv'
    BY <1>1, <1>2 DEF SubmitterInv, CancellerInv, Submitting, Cancelling, TypeOK, Slot
<1>10. CountInv'
    BY <1>2, <1>4, <1>5 DEF CountInv, Startable, Holds, HolderInv, Busy
<1>11. SavedCountInv'
    BY <1>2, <1>3, <1>4 DEF SavedCountInv, Startable, NewJob
<1>12. RunsWithinBudget' /\ CompletedAtFirstAttempt'
    BY <1>2, <1>4 DEF RunsWithinBudget, CompletedAtFirstAttempt, NewJob
<1>13. RowBackedByJob'
    BY <1>2, <1>3, <1>4 DEF RowBackedByJob, NoRow
<1>14. \A d \in Clients :
        /\ client'[d].mem = client[d].mem
        /\ client'[d].job = client[d].job
        /\ d # c => client'[d].pc = client[d].pc
    BY <1>1 DEF TypeOK, Slot
<1>15. BlemishInv'
    <2>1. \A i \in Jobs : RetriedAfterFailure(jobs[i])'
        BY <1>4 DEF BlemishInv, RetriedAfterFailure, NewJob
    <2> QED BY <1>2, <1>14, <2>1 DEF BlemishInv, RetriedAfterFailure
<1>16. EnqueueInv'
    <2>1. ASSUME NEW d \in Clients, client'[d].pc = "enqueue", client'[d].job \notin Deletable
          PROVE  jobs'[client'[d].job].status \in {"pending", "cancelled"}
        <3>1. CASE d = c
            BY <1>4, <1>14, <3>1 DEF NewJob, j
        <3>2. CASE d # c
            <4>1. client[d].job \in Jobs
                BY <1>14, <2>1, <3>2 DEF SubmitterInv, Submitting
            <4> QED BY <1>4, <1>14, <2>1, <3>2, <4>1 DEF EnqueueInv, NewJob
        <3> QED BY <3>1, <3>2
    <2>2. \A i \in Jobs \ Deletable : queue'[i] # NoRow => jobs'[i].status # "absent"
        BY <1>2, <1>4 DEF EnqueueInv, Present, NewJob
    <2> QED BY <2>1, <2>2 DEF EnqueueInv, Present
<1> QED BY <1>7, <1>8, <1>9, <1>10, <1>11, <1>12, <1>13, <1>15, <1>16

LEMMA SubmitEnqueueInv ==
    ASSUME PipelineInv, NEW c \in Clients, SubmitEnqueue(c)
    PROVE  PipelineInv'
<1> USE DEF PipelineInv
<1> DEFINE j == client[c].job
           row == [status |-> "pending", due |-> TRUE]
<1>1. /\ client[c].pc = "enqueue"
      /\ queue' = [queue EXCEPT ![j] = row]
      /\ client' = [client EXCEPT ![c] = Free("idle")]
    BY DEF SubmitEnqueue
<1>2. UNCHANGED <<jobs, running, current, thread, runs>>
    BY DEF SubmitEnqueue, starter
<1>3. j \in Jobs /\ queue[j] = NoRow
    BY <1>1 DEF SubmitterInv, Submitting
<1>4. \A d \in Clients : Submitting(d) /\ d # c => client[d].job # j
    BY <1>1 DEF SubmitterInv, Submitting
<1>5. j \notin Deletable => jobs[j].status \in {"pending", "cancelled"}
    BY <1>1 DEF EnqueueInv
<1> HIDE DEF j
<1>6. row \in QueueRow /\ row.status = "pending" /\ row # NoRow
    BY DEF QueueRow, QueueStatus, NoRow
<1> HIDE DEF row
<1>7. queue'[j] = row /\ \A i \in Jobs : i # j => queue'[i] = queue[i]
    BY <1>1, <1>3 DEF TypeOK
<1>8. client'[c] = Free("idle") /\ \A d \in Clients : d # c => client'[d] = client[d]
    BY <1>1 DEF TypeOK
<1>9. \A t \in Threads : ~Holds(t, j)
    BY <1>3 DEF HolderInv, Holds, NoRow
<1>10. TypeOK'
    <2>1. Free("idle") \in Slot(ClientPc)
        BY FreeSlot DEF ClientPc
    <2> QED BY <1>1, <1>2, <1>6, <2>1 DEF TypeOK
<1>11. HolderInv' /\ OneHolder'
    BY <1>2, <1>7, <1>9 DEF HolderInv, OneHolder, Holds
<1>12. SubmitterInv' /\ CancellerInv'
    BY <1>4, <1>7, <1>8 DEF SubmitterInv, CancellerInv, Submitting, Cancelling, Free
<1>13. CountInv'
    BY <1>2 DEF CountInv, Startable
<1>14. SavedCountInv'
    BY <1>2, <1>6, <1>7 DEF SavedCountInv, Startable
<1>15. RunsWithinBudget' /\ CompletedAtFirstAttempt'
    BY <1>2 DEF RunsWithinBudget, CompletedAtFirstAttempt
<1>16. RowBackedByJob'
    BY <1>2, <1>5, <1>6, <1>7 DEF RowBackedByJob
<1>17. BlemishInv'
    BY <1>2, <1>8 DEF BlemishInv, RetriedAfterFailure, Free, NoJob
<1>18. EnqueueInv'
    BY <1>2, <1>5, <1>7, <1>8 DEF EnqueueInv, Present, Free
<1> QED BY <1>10, <1>11, <1>12, <1>13, <1>14, <1>15, <1>16, <1>17, <1>18

LEMMA CancelLoadInv ==
    ASSUME PipelineInv, NEW c \in Clients, NEW j \in Jobs, CancelLoad(c, j)
    PROVE  PipelineInv'
<1> USE DEF PipelineInv
<1> DEFINE mem == [jobs[j] EXCEPT !.status = "cancelled"]
<1>1. client' = [client EXCEPT ![c] = [pc |-> "cancelSave", job |-> j, mem |-> mem]]
    BY DEF CancelLoad
<1>2. UNCHANGED <<jobs, queue, running, current, thread, runs>>
    BY DEF CancelLoad, tables, starter
<1>3. /\ mem \in JobRecord
      /\ mem.status = "cancelled"
      /\ mem.retries = jobs[j].retries /\ mem.failures = jobs[j].failures
    <2>1. jobs[j] \in JobRecord
        BY DEF CancelLoad, CanTransition, TypeOK, NoJob, JobStatus
    <2> QED BY <2>1 DEF JobRecord, JobStatus
<1> HIDE DEF mem
<1>4. /\ client'[c] = [pc |-> "cancelSave", job |-> j, mem |-> mem]
      /\ \A d \in Clients : d # c => client'[d] = client[d]
    BY <1>1 DEF TypeOK
<1>5. TypeOK'
    BY <1>1, <1>2, <1>3 DEF TypeOK, Slot, ClientPc
<1>6. HolderInv' /\ OneHolder' /\ CountInv'
    BY <1>2 DEF HolderInv, OneHolder, Holds, CountInv, Startable
<1>7. SubmitterInv' /\ CancellerInv'
    BY <1>2, <1>3, <1>4 DEF SubmitterInv, CancellerInv, Submitting, Cancelling
<1>8. SavedCountInv' /\ RunsWithinBudget' /\ CompletedAtFirstAttempt' /\ RowBackedByJob'
    BY <1>2 DEF SavedCountInv, RunsWithinBudget, CompletedAtFirstAttempt, RowBackedByJob, Startable
<1>9. BlemishInv'
    BY <1>2, <1>3, <1>4 DEF BlemishInv, RetriedAfterFailure
<1>10. EnqueueInv'
    BY <1>2, <1>4 DEF EnqueueInv, Present
<1> QED BY <1>5, <1>6, <1>7, <1>8, <1>9, <1>10

LEMMA CancelSaveInv ==
    ASSUME PipelineInv, NEW c \in Clients, CancelSave(c)
    PROVE  PipelineInv'
<1> USE DEF PipelineInv
<1> DEFINE j == client[c].job
           mem == client[c].mem
<1>1. /\ client[c].pc = "cancelSave"
      /\ jobs' = [jobs EXCEPT ![j] = mem]
      /\ client' = [client EXCEPT ![c].pc = "cancelQueue"]
    BY DEF CancelSave
<1>2. UNCHANGED <<queue, running, current, thread, runs>>
    BY DEF CancelSave, starter
<1>3. j \in Jobs /\ mem.status = "cancelled" /\ RetriedAfterFailure(mem)
    BY <1>1 DEF CancellerInv, Cancelling, BlemishInv
<1>4. mem \in JobRecord \cup {NoJob}
    BY DEF TypeOK, Slot
<1>5. \A d \in Clients :
        /\ client'[d].mem = client[d].mem
        /\ client'[d].job = client[d].job
        /\ d # c => client'[d].pc = client[d].pc
        /\ d = c => client'[d].pc = "cancelQueue"
    BY <1>1 DEF TypeOK, Slot
<1> HIDE DEF j, mem
<1>6. jobs'[j] = mem /\ \A i \in Jobs : i # j => jobs'[i] = jobs[i]
    BY <1>1, <1>3 DEF TypeOK
<1>7. TypeOK'
    BY <1>1, <1>2, <1>3, <1>4 DEF TypeOK, Slot, ClientPc
<1>8. HolderInv' /\ OneHolder'
    BY <1>2 DEF HolderInv, OneHolder, Holds
<1>9. SubmitterInv' /\ CancellerInv'
    BY <1>1, <1>2, <1>5 DEF SubmitterInv, CancellerInv, Submitting, Cancelling
<1>10. CountInv'
    BY <1>2, <1>3, <1>6 DEF CountInv, Startable, HolderInv, Busy
<1>11. SavedCountInv' /\ RunsWithinBudget' /\ CompletedAtFirstAttempt' /\ RowBackedByJob'
    BY <1>2, <1>3, <1>6 DEF SavedCountInv, RunsWithinBudget, CompletedAtFirstAttempt, RowBackedByJob, Startable
<1>12. BlemishInv'
    <2>1. \A i \in Jobs : RetriedAfterFailure(jobs[i])'
        BY <1>3, <1>6 DEF BlemishInv, RetriedAfterFailure
    <2> QED BY <1>2, <1>5, <2>1 DEF BlemishInv, RetriedAfterFailure
<1>13. EnqueueInv'
    <2>1. ASSUME NEW d \in Clients, client'[d].pc = "enqueue", client'[d].job \notin Deletable
          PROVE  jobs'[client'[d].job].status \in {"pending", "cancelled"}
        <3>1. d # c /\ client[d].pc = "enqueue"
            BY <1>5, <2>1
        <3>2. client[d].job \in Jobs
            BY <3>1 DEF SubmitterInv, Submitting
        <3> QED BY <1>3, <1>5, <1>6, <2>1, <3>1, <3>2 DEF EnqueueInv
    <2>2. \A i \in Jobs \ Deletable : queue'[i] # NoRow => jobs'[i].status # "absent"
        BY <1>2, <1>3, <1>6 DEF EnqueueInv, Present
    <2> QED BY <2>1, <2>2 DEF EnqueueInv, Present
<1> QED BY <1>7, <1>8, <1>9, <1>10, <1>11, <1>12, <1>13

LEMMA CancelQueueInv ==
    ASSUME PipelineInv, NEW c \in Clients, CancelQueue(c)
    PROVE  PipelineInv'
<1> USE DEF PipelineInv
<1> DEFINE j == client[c].job
           row == IF queue[j] = NoRow THEN NoRow ELSE [queue[j] EXCEPT !.status = "cancelled"]
<1>1. /\ client[c].pc = "cancelQueue"
      /\ queue' = [queue EXCEPT ![j] = row]
      /\ client' = [client EXCEPT ![c] = Free("idle")]
    BY DEF CancelQueue, TypeOK
<1>2. UNCHANGED <<jobs, running, current, thread, runs>>
    BY DEF CancelQueue, starter
<1>3. j \in Jobs
    BY <1>1 DEF CancellerInv, Cancelling
<1>4. /\ row \in QueueRow \cup {NoRow}
      /\ row = NoRow <=> queue[j] = NoRow
      /\ row # NoRow => row.status = "cancelled"
    BY <1>3 DEF TypeOK, QueueRow, QueueStatus, NoRow
<1> HIDE DEF j, row
<1>5. queue'[j] = row /\ \A i \in Jobs : i # j => queue'[i] = queue[i]
    BY <1>1, <1>3 DEF TypeOK
<1>6. client'[c] = Free("idle") /\ \A d \in Clients : d # c => client'[d] = client[d]
    BY <1>1 DEF TypeOK
<1>7. TypeOK'
    <2>1. Free("idle") \in Slot(ClientPc)
        BY FreeSlot DEF ClientPc
    <2> QED BY <1>1, <1>2, <1>4, <2>1 DEF TypeOK
<1>8. HolderInv' /\ OneHolder'
    BY <1>2, <1>4, <1>5 DEF HolderInv, OneHolder, Holds, NoRow
<1>9. SubmitterInv' /\ CancellerInv'
    BY <1>4, <1>5, <1>6 DEF SubmitterInv, CancellerInv, Submitting, Cancelling, Free
<1>10. CountInv' /\ RunsWithinBudget' /\ CompletedAtFirstAttempt'
    BY <1>2 DEF CountInv, RunsWithinBudget, CompletedAtFirstAttempt, Startable
<1>11. SavedCountInv'
    BY <1>2, <1>4, <1>5 DEF SavedCountInv, Startable
<1>12. RowBackedByJob'
    BY <1>2, <1>4, <1>5 DEF RowBackedByJob, NoRow
<1>13. BlemishInv'
    BY <1>2, <1>6 DEF BlemishInv, RetriedAfterFailure, Free, NoJob
<1>14. EnqueueInv'
    BY <1>2, <1>4, <1>5, <1>6 DEF EnqueueInv, Present, Free
<1> QED BY <1>7, <1>8, <1>9, <1>10, <1>11, <1>12, <1>13, <1>14

LEMMA DeleteJobInv ==
    ASSUME PipelineInv, NEW j \in Jobs, DeleteJob(j)
    PROVE  PipelineInv'
<1> USE DEF PipelineInv
<1>1. j \in Deletable /\ jobs' = [jobs EXCEPT ![j] = NoJob]
    BY DEF DeleteJob
<1>2. UNCHANGED <<queue, running, current, thread, client, runs>>
    BY DEF DeleteJob, starter
<1>3. jobs'[j] = NoJob /\ \A i \in Jobs : i # j => jobs'[i] = jobs[i]
    BY <1>1 DEF TypeOK
<1>4. TypeOK'
    BY <1>1, <1>2 DEF TypeOK
<1>5. HolderInv' /\ OneHolder' /\ SubmitterInv' /\ CancellerInv'
    BY <1>2 DEF HolderInv, OneHolder, Holds, SubmitterInv, CancellerInv, Submitting, Cancelling
<1>6. CountInv'
    BY <1>1, <1>2, <1>3 DEF CountInv, Startable, HolderInv, Busy, NoJob
<1>7. SavedCountInv' /\ RunsWithinBudget' /\ CompletedAtFirstAttempt' /\ RowBackedByJob'
    BY <1>1, <1>2, <1>3 DEF SavedCountInv, RunsWithinBudget, CompletedAtFirstAttempt, RowBackedByJob, Startable, NoJob
<1>8. BlemishInv'
    BY <1>2, <1>3 DEF BlemishInv, RetriedAfterFailure, NoJob
<1>9. EnqueueInv'
    BY <1>1, <1>2, <1>3 DEF EnqueueInv, Present, SubmitterInv, Submitting
<1> QED BY <1>4, <1>5, <1>6, <1>7, <1>8, <1>9

-----------------------------------------------------------------------------
(* The steps of a dispatcher thread *)

LEMMA LeaseInv ==
    ASSUME PipelineInv, NEW t \in Threads, Lease(t)
    PROVE  PipelineInv'
<1> USE DEF PipelineInv
<1>1. PICK j \in Jobs :
        /\ Leasable(j)
        /\ queue' = [queue EXCEPT ![j].status = "leased"]
        /\ thread' = [thread EXCEPT ![t] = [pc |-> "load", job |-> j, mem |-> NoJob]]
    BY DEF Lease
<1>2. UNCHANGED <<jobs, running, current, client, runs>>
    BY DEF Lease, starter
<1>3. /\ queue[j] \in QueueRow /\ queue[j] # NoRow
      /\ queue[j].status \notin {"leased", "cancelled"}
    BY <1>1 DEF TypeOK, Leasable, NoRow
<1>4. /\ queue'[j] \in QueueRow /\ queue'[j] # NoRow /\ queue'[j].status = "leased"
      /\ \A i \in Jobs : i # j => queue'[i] = queue[i]
    BY <1>1, <1>3 DEF TypeOK, QueueRow, QueueStatus, NoRow
<1>5. /\ thread'[t] = [pc |-> "load", job |-> j, mem |-> NoJob]
      /\ \A u \in Threads : u # t => thread'[u] = thread[u]
    BY <1>1 DEF TypeOK
<1>6. \A u \in Threads : ~Holds(u, j)
    BY <1>3 DEF HolderInv, Holds
<1>7. TypeOK'
    BY <1>1, <1>2, <1>3 DEF TypeOK, Slot, ThreadPc, Busy, QueueRow, QueueStatus
<1>8. HolderInv'
    BY <1>4, <1>5, <1>6 DEF HolderInv, Holds
<1>9. OneHolder'
    BY <1>5, <1>6 DEF OneHolder, Holds
<1>10. SubmitterInv' /\ CancellerInv'
    BY <1>2, <1>3, <1>4 DEF SubmitterInv, CancellerInv, Submitting, Cancelling
<1>11. CountInv'
    BY <1>2, <1>5 DEF CountInv, Startable
<1>12. SavedCountInv'
    BY <1>2, <1>3, <1>4 DEF SavedCountInv, Startable
<1>13. BlemishInv'
    BY <1>2, <1>5 DEF BlemishInv, RetriedAfterFailure, NoJob
<1>14. EnqueueInv'
    BY <1>2, <1>3, <1>4 DEF EnqueueInv, Present
<1>15. RunsWithinBudget' /\ CompletedAtFirstAttempt'
    BY <1>2 DEF RunsWithinBudget, CompletedAtFirstAttempt
<1>16. RowBackedByJob'
    BY <1>2, <1>4 DEF RowBackedByJob
<1> QED BY <1>7, <1>8, <1>9, <1>10, <1>11, <1>12, <1>13, <1>14, <1>15, <1>16

LEMMA LoadMissingInv ==
    ASSUME PipelineInv, NEW t \in Threads, LoadMissing(t)
    PROVE  PipelineInv'
<1> USE DEF PipelineInv
<1> DEFINE j == thread[t].job
<1>1. /\ thread[t].pc = "load" /\ ~Present(j)
      /\ queue' = [queue EXCEPT ![j].status = "failed"]
      /\ thread' = [thread EXCEPT ![t] = Free("idle")]
    BY DEF LoadMissing
<1>2. UNCHANGED <<jobs, running, current, client, runs>>
    BY DEF LoadMissing, starter
<1>3. Holds(t, j) /\ j \in Jobs /\ queue[j].status \in {"leased", "cancelled"}
    BY <1>1 DEF HolderInv, Holds, Busy
<1>4. queue[j] \in QueueRow /\ queue[j] # NoRow
    BY <1>3 DEF TypeOK, NoRow
<1>5. j \in Deletable
    BY <1>1, <1>3, <1>4 DEF EnqueueInv
<1>6. \A u \in Threads : Holds(u, j) => u = t
    BY <1>3 DEF OneHolder
<1> HIDE DEF j
<1>7. /\ queue'[j] \in QueueRow /\ queue'[j] # NoRow /\ queue'[j].status = "failed"
      /\ \A i \in Jobs : i # j => queue'[i] = queue[i]
    BY <1>1, <1>3, <1>4 DEF TypeOK, QueueRow, QueueStatus, NoRow
<1>8. /\ thread'[t] = Free("idle")
      /\ \A u \in Threads : u # t => thread'[u] = thread[u]
    BY <1>1 DEF TypeOK
<1>9. TypeOK'
    <2>1. Free("idle") \in Slot(ThreadPc)
        BY FreeSlot DEF ThreadPc
    <2> QED BY <1>1, <1>2, <1>4, <1>7, <2>1 DEF TypeOK
<1>10. HolderInv' /\ OneHolder'
    BY <1>6, <1>7, <1>8 DEF HolderInv, OneHolder, Holds, Free, Busy
<1>11. SubmitterInv' /\ CancellerInv'
    BY <1>2, <1>4, <1>7 DEF SubmitterInv, CancellerInv, Submitting, Cancelling
<1>12. CountInv'
    BY <1>2, <1>8 DEF CountInv, Startable, Free
<1>13. SavedCountInv'
    BY <1>2, <1>4, <1>7 DEF SavedCountInv, Startable
<1>14. BlemishInv'
    BY <1>2, <1>8 DEF BlemishInv, RetriedAfterFailure, NoJob, Free
<1>15. EnqueueInv'
    BY <1>2, <1>4, <1>7 DEF EnqueueInv, Present
<1>16. RunsWithinBudget' /\ CompletedAtFirstAttempt'
    BY <1>2 DEF RunsWithinBudget, CompletedAtFirstAttempt
<1>17. RowBackedByJob'
    BY <1>2, <1>5, <1>7 DEF RowBackedByJob
<1> QED BY <1>9, <1>10, <1>11, <1>12, <1>13, <1>14, <1>15, <1>16, <1>17

LEMMA LoadAndStartInv ==
    ASSUME PipelineInv, NEW t \in Threads, LoadAndStart(t)
    PROVE  PipelineInv'
<1> USE DEF PipelineInv
<1> DEFINE j == thread[t].job
           mem == [jobs[j] EXCEPT !.status = "running"]
<1>1. /\ thread[t].pc = "load" /\ CanTransition(jobs[j], "running")
      /\ thread' = [thread EXCEPT ![t].pc = "started", ![t].mem = mem]
    BY DEF LoadAndStart
<1>2. UNCHANGED <<jobs, queue, running, current, client, runs>>
    BY DEF LoadAndStart, tables, starter
<1>3. Holds(t, j) /\ j \in Jobs
    BY <1>1 DEF HolderInv, Holds, Busy
<1>4. Startable(jobs[j]) /\ jobs[j] \in JobRecord
    BY <1>1, <1>3, StartableTransitions DEF TypeOK, Startable, NoJob
<1>5. /\ mem \in JobRecord /\ mem.status = "running"
      /\ mem.retries = jobs[j].retries /\ mem.failures = jobs[j].failures
    BY <1>4 DEF JobRecord, JobStatus
<1>6. runs[j] <= mem.retries /\ RetriedAfterFailure(mem)
    BY <1>3, <1>4, <1>5 DEF SavedCountInv, BlemishInv, RetriedAfterFailure
<1> HIDE DEF mem
<1>7. /\ thread'[t].pc = "started" /\ thread'[t].job = j /\ thread'[t].mem = mem
      /\ \A u \in Threads : u # t => thread'[u] = thread[u]
    BY <1>1 DEF TypeOK, Slot
<1>8. TypeOK'
    <2>1. thread' \in [Threads -> Slot(ThreadPc)]
        <3>1. thread'[t] = [pc |-> "started", job |-> j, mem |-> mem]
            BY <1>1 DEF TypeOK, Slot
        <3>2. thread'[t] \in Slot(ThreadPc)
            BY <1>3, <1>5, <3>1 DEF Slot, ThreadPc, Busy
        <3> QED BY <1>1, <3>2, <1>7 DEF TypeOK
    <2> QED BY <1>2, <2>1 DEF TypeOK
<1>9. HolderInv' /\ OneHolder'
    BY <1>2, <1>3, <1>7 DEF HolderInv, OneHolder, Holds, Busy
<1>10. SubmitterInv' /\ CancellerInv' /\ SavedCountInv' /\ EnqueueInv' /\ RunsWithinBudget'
        /\ CompletedAtFirstAttempt' /\ RowBackedByJob'
    BY <1>2 DEF SubmitterInv, CancellerInv, Submitting, Cancelling, SavedCountInv, EnqueueInv,
            RunsWithinBudget, CompletedAtFirstAttempt, RowBackedByJob, Startable, Present
<1>11. CountInv'
    BY <1>2, <1>5, <1>6, <1>7 DEF CountInv, Startable
<1>12. BlemishInv'
    BY <1>2, <1>6, <1>7 DEF BlemishInv, RetriedAfterFailure
<1> QED BY <1>8, <1>9, <1>10, <1>11, <1>12

LEMMA SaveStartedInv ==
    ASSUME PipelineInv, NEW t \in Threads, SaveStarted(t)
    PROVE  PipelineInv'
<1> USE DEF PipelineInv
<1> DEFINE j == thread[t].job
           mem == thread[t].mem
<1>1. /\ thread[t].pc = "started"
      /\ jobs' = [jobs EXCEPT ![j] = mem]
      /\ thread' = [thread EXCEPT ![t].pc = "execute"]
    BY DEF SaveStarted
<1>2. UNCHANGED <<queue, running, current, client, runs>>
    BY DEF SaveStarted, starter
<1>3. Holds(t, j) /\ j \in Jobs /\ queue[j].status \in {"leased", "cancelled"}
    BY <1>1 DEF HolderInv, Holds, Busy
<1>4. queue[j] # NoRow
    BY <1>3 DEF NoRow
<1>5. mem \in JobRecord \cup {NoJob} /\ mem.status = "running" /\ RetriedAfterFailure(mem)
    BY <1>1 DEF TypeOK, Slot, CountInv, BlemishInv
<1>6. \A u \in Threads : Holds(u, j) => u = t
    BY <1>3 DEF OneHolder
<1> HIDE DEF mem
<1>7. jobs'[j] = mem /\ \A i \in Jobs : i # j => jobs'[i] = jobs[i]
    BY <1>1, <1>3 DEF TypeOK
<1>8. /\ thread'[t].pc = "execute" /\ thread'[t].job = j /\ thread'[t].mem = mem
      /\ \A u \in Threads : u # t => thread'[u] = thread[u]
    BY <1>1 DEF TypeOK, Slot, mem
<1>9. TypeOK'
    <2>1. thread' \in [Threads -> Slot(ThreadPc)]
        <3>1. thread'[t] = [pc |-> "execute", job |-> j, mem |-> mem]
            BY <1>1 DEF TypeOK, Slot, mem
        <3>2. thread'[t] \in Slot(ThreadPc)
            BY <1>3, <1>5, <3>1 DEF Slot, ThreadPc, Busy
        <3> QED BY <1>1, <3>2, <1>8 DEF TypeOK
    <2> QED BY <1>1, <1>2, <1>5, <2>1 DEF TypeOK
<1>10. HolderInv' /\ OneHolder'
    BY <1>2, <1>3, <1>8 DEF HolderInv, OneHolder, Holds, Busy
<1>11. SubmitterInv' /\ CancellerInv'
    BY <1>2 DEF SubmitterInv, CancellerInv, Submitting, Cancelling
<1>12. CountInv'
    <2>1. \A u \in Threads : u # t /\ thread[u].pc \in Busy =>
            thread[u].job \in Jobs /\ thread[u].job # j
        BY <1>6 DEF HolderInv, Holds
    <2> QED BY <1>1, <1>2, <1>5, <1>7, <1>8, <2>1 DEF CountInv, Startable, Busy, mem
<1>13. SavedCountInv' /\ RunsWithinBudget' /\ CompletedAtFirstAttempt'
    BY <1>2, <1>5, <1>7 DEF SavedCountInv, RunsWithinBudget, CompletedAtFirstAttempt, Startable
<1>14. RowBackedByJob'
    BY <1>2, <1>3, <1>7 DEF RowBackedByJob
<1>15. BlemishInv'
    BY <1>2, <1>5, <1>7, <1>8 DEF BlemishInv, RetriedAfterFailure
<1>16. EnqueueInv'
    BY <1>2, <1>4, <1>5, <1>7 DEF EnqueueInv, Present, SubmitterInv, Submitting
<1> QED BY <1>9, <1>10, <1>11, <1>12, <1>13, <1>14, <1>15, <1>16

LEMMA ExecuteInv ==
    ASSUME PipelineInv, NEW t \in Threads, Execute(t)
    PROVE  PipelineInv'
<1> USE DEF PipelineInv
<1> DEFINE j == thread[t].job
           mem == thread[t].mem
<1>1. PICK o \in Outcomes :
        thread' = [thread EXCEPT ![t].pc = "route", ![t].mem.failures = @ \cup o]
    BY DEF Execute
<1>2. /\ thread[t].pc = "execute"
      /\ runs' = [runs EXCEPT ![j] = @ + 1]
      /\ UNCHANGED <<jobs, queue, running, current, client>>
    BY DEF Execute, tables, starter
<1>3. Holds(t, j) /\ j \in Jobs /\ queue[j] # NoRow
    BY <1>2 DEF HolderInv, Holds, Busy, NoRow
<1>4. /\ mem \in JobRecord /\ mem.status = "running" /\ RetriedAfterFailure(mem)
      /\ runs[j] \in Nat /\ runs[j] <= mem.retries
      /\ ~Startable(jobs[j])
    BY <1>2, <1>3 DEF TypeOK, Slot, CountInv, BlemishInv, NoJob
<1>5. \A u \in Threads : u # t /\ thread[u].pc \in Busy =>
        thread[u].job \in Jobs /\ thread[u].job # j
    BY <1>3 DEF OneHolder, HolderInv, Holds
<1> DEFINE after == [mem EXCEPT !.failures = mem.failures \cup o]
<1>6. /\ after \in JobRecord /\ after.status = "running" /\ after.retries = mem.retries
      /\ RetriedAfterFailure(after)
    BY <1>4, OutcomesAssumption DEF JobRecord, RetriedAfterFailure
<1>7. /\ thread'[t] = [pc |-> "route", job |-> j, mem |-> after]
      /\ \A u \in Threads : u # t => thread'[u] = thread[u]
    BY <1>1 DEF TypeOK, Slot
<1> HIDE DEF after
<1>8. runs'[j] = runs[j] + 1 /\ \A i \in Jobs : i # j => runs'[i] = runs[i]
    BY <1>2, <1>3 DEF TypeOK
<1>9. TypeOK'
    <2>1. thread' \in [Threads -> Slot(ThreadPc)]
        <3>1. thread'[t] \in Slot(ThreadPc)
            BY <1>3, <1>6, <1>7 DEF Slot, ThreadPc, Busy
        <3> QED BY <1>1, <1>7, <3>1 DEF TypeOK
    <2>2. runs' \in [Jobs -> Nat]
        BY <1>2, <1>3, <1>4 DEF TypeOK
    <2> QED BY <1>2, <2>1, <2>2 DEF TypeOK
<1>10. HolderInv' /\ OneHolder'
    BY <1>2, <1>3, <1>7 DEF HolderInv, OneHolder, Holds, Busy
<1>11. SubmitterInv' /\ CancellerInv' /\ EnqueueInv' /\ CompletedAtFirstAttempt' /\ RowBackedByJob'
    BY <1>2 DEF SubmitterInv, CancellerInv, Submitting, Cancelling, EnqueueInv,
            CompletedAtFirstAttempt, RowBackedByJob, Present
<1>12. CountInv'
    <2>1. \A u \in Threads : u # t /\ thread[u].pc \in Busy => runs'[thread[u].job] = runs[thread[u].job]
        BY <1>5, <1>8
    <2>2. runs'[j] <= after.retries + 1
        BY <1>4, <1>6, <1>8 DEF JobRecord
    <2> QED BY <1>2, <1>4, <1>6, <1>7, <2>1, <2>2 DEF CountInv, Startable, Busy
<1>13. SavedCountInv'
    BY <1>2, <1>3, <1>4, <1>8 DEF SavedCountInv, Startable
<1>14. RunsWithinBudget'
    <2>1. runs'[j] <= MaxRetries + 1
        BY <1>4, <1>8, MaxRetriesAssumption DEF JobRecord
    <2> QED BY <1>8, <2>1 DEF RunsWithinBudget
<1>15. BlemishInv'
    BY <1>2, <1>6, <1>7 DEF BlemishInv, RetriedAfterFailure
<1> QED BY <1>9, <1>10, <1>11, <1>12, <1>13, <1>14, <1>15

LEMMA RouteSaveInv ==
    ASSUME PipelineInv, NEW t \in Threads, RouteSave(t)
    PROVE  PipelineInv'
<1> USE DEF PipelineInv
<1> DEFINE j == thread[t].job
           job == Routed(thread[t].mem)
<1>1. /\ thread[t].pc = "route"
      /\ jobs' = [jobs EXCEPT ![j] = job]
      /\ thread' = [thread EXCEPT ![t].pc = "settle", ![t].mem = job]
    BY DEF RouteSave
<1>2. UNCHANGED <<queue, running, current, client, runs>>
    BY DEF RouteSave, starter
<1>3. Holds(t, j) /\ j \in Jobs /\ queue[j].status \in {"leased", "cancelled"} /\ queue[j] # NoRow
    BY <1>1 DEF HolderInv, Holds, Busy, NoRow
<1>4. /\ thread[t].mem \in JobRecord \cup {NoJob} /\ thread[t].mem.status = "running"
      /\ RetriedAfterFailure(thread[t].mem)
      /\ runs[j] \in Nat /\ runs[j] <= thread[t].mem.retries + 1
    BY <1>1, <1>3 DEF TypeOK, Slot, CountInv, BlemishInv
<1>5. \A u \in Threads : u # t /\ thread[u].pc \in Busy =>
        thread[u].job \in Jobs /\ thread[u].job # j
    BY <1>3 DEF OneHolder, HolderInv, Holds
<1>6. /\ job \in JobRecord
      /\ job.status \in {"completed", "retrying", "failed"}
      /\ job.status = "completed" => job.failures = {} /\ job.retries = 0
      /\ job.status = "retrying" => runs[j] <= job.retries
      /\ RetriedAfterFailure(job)
    <2>1. thread[t].mem.retries \in Nat
        BY <1>4, MaxRetriesAssumption DEF JobRecord, NoJob
    <2> QED BY <1>4, <2>1, RoutedJob DEF RetriedAfterFailure
<1> HIDE DEF job
<1>7. jobs'[j] = job /\ \A i \in Jobs : i # j => jobs'[i] = jobs[i]
    BY <1>1, <1>3 DEF TypeOK
<1>8. /\ thread'[t] = [pc |-> "settle", job |-> j, mem |-> job]
      /\ \A u \in Threads : u # t => thread'[u] = thread[u]
    BY <1>1 DEF TypeOK, Slot
<1>9. TypeOK'
    <2>1. jobs' \in [Jobs -> JobRecord \cup {NoJob}]
        BY <1>1, <1>6 DEF TypeOK
    <2>2. thread' \in [Threads -> Slot(ThreadPc)]
        <3>1. thread'[t] \in Slot(ThreadPc)
            BY <1>3, <1>6, <1>8 DEF Slot, ThreadPc, Busy
        <3> QED BY <1>1, <1>8, <3>1 DEF TypeOK
    <2> QED BY <1>2, <2>1, <2>2 DEF TypeOK
<1>10. HolderInv' /\ OneHolder'
    BY <1>2, <1>3, <1>8 DEF HolderInv, OneHolder, Holds, Busy
<1>11. SubmitterInv' /\ CancellerInv' /\ RunsWithinBudget'
    BY <1>2 DEF SubmitterInv, CancellerInv, Submitting, Cancelling, RunsWithinBudget
<1>12. CountInv'
    BY <1>2, <1>5, <1>6, <1>7, <1>8 DEF CountInv, Startable, Busy
<1>13. SavedCountInv'
    BY <1>2, <1>3, <1>6, <1>7 DEF SavedCountInv, Startable
<1>14. CompletedAtFirstAttempt'
    BY <1>6, <1>7 DEF CompletedAtFirstAttempt
<1>15. RowBackedByJob'
    BY <1>2, <1>3, <1>7 DEF RowBackedByJob
<1>16. BlemishInv'
    BY <1>2, <1>6, <1>7, <1>8 DEF BlemishInv, RetriedAfterFailure
<1>17. EnqueueInv'
    BY <1>2, <1>3, <1>6, <1>7 DEF EnqueueInv, Present, SubmitterInv, Submitting
<1> QED BY <1>9, <1>10, <1>11, <1>12, <1>13, <1>14, <1>15, <1>16, <1>17

LEMMA RouteQueueInv ==
    ASSUME PipelineInv, NEW t \in Threads, RouteQueue(t)
    PROVE  PipelineInv'
<1> USE DEF PipelineInv
<1> DEFINE j == thread[t].job
           row == Settled(queue[j], thread[t].mem.status)
<1>1. /\ thread[t].pc = "settle"
      /\ queue' = [queue EXCEPT ![j] = row]
      /\ thread' = [thread EXCEPT ![t] = Free("idle")]
    BY DEF RouteQueue, TypeOK
<1>2. UNCHANGED <<jobs, running, current, client, runs>>
    BY DEF RouteQueue, starter
<1>3. Holds(t, j) /\ j \in Jobs /\ queue[j].status \in {"leased", "cancelled"}
    BY <1>1 DEF HolderInv, Holds, Busy
<1>4. queue[j] \in QueueRow /\ queue[j] # NoRow
    BY <1>3 DEF TypeOK, NoRow
<1>5. /\ thread[t].mem.status \in {"completed", "retrying", "failed"}
      /\ j \notin Deletable => jobs[j].status \in {thread[t].mem.status, "cancelled"}
    BY <1>1 DEF CountInv
<1>6. row \in QueueRow /\ row.status \in {thread[t].mem.status, "cancelled"} /\ row # NoRow
    <2>1. row \in QueueRow /\ row.status \in {thread[t].mem.status, "cancelled"}
        BY <1>3, <1>4, <1>5, SettledRow
    <2> QED BY <1>5, <2>1 DEF NoRow
<1>7. \A u \in Threads : u # t /\ thread[u].pc \in Busy => thread[u].job # j
    BY <1>3 DEF OneHolder, HolderInv, Holds
<1> HIDE DEF row
<1>8. queue'[j] = row /\ \A i \in Jobs : i # j => queue'[i] = queue[i]
    BY <1>1, <1>3 DEF TypeOK
<1>9. thread'[t] = Free("idle") /\ \A u \in Threads : u # t => thread'[u] = thread[u]
    BY <1>1 DEF TypeOK
<1>10. TypeOK'
    <2>1. Free("idle") \in Slot(ThreadPc)
        BY FreeSlot DEF ThreadPc
    <2> QED BY <1>1, <1>2, <1>6, <2>1 DEF TypeOK
<1>11. HolderInv' /\ OneHolder'
    BY <1>7, <1>8, <1>9 DEF HolderInv, OneHolder, Holds, Free, Busy
<1>12. SubmitterInv' /\ CancellerInv'
    BY <1>2, <1>4, <1>8 DEF SubmitterInv, CancellerInv, Submitting, Cancelling
<1>13. CountInv'
    BY <1>2, <1>9 DEF CountInv, Startable, Free
<1>14. SavedCountInv'
    BY <1>2, <1>4, <1>6, <1>8 DEF SavedCountInv, Startable
<1>15. RunsWithinBudget' /\ CompletedAtFirstAttempt'
    BY <1>2 DEF RunsWithinBudget, CompletedAtFirstAttempt
<1>16. RowBackedByJob'
    BY <1>2, <1>5, <1>6, <1>8 DEF RowBackedByJob
<1>17. BlemishInv'
    BY <1>2, <1>9 DEF BlemishInv, RetriedAfterFailure, Free, NoJob
<1>18. EnqueueInv'
    BY <1>2, <1>4, <1>6, <1>8 DEF EnqueueInv, Present
<1> QED BY <1>10, <1>11, <1>12, <1>13, <1>14, <1>15, <1>16, <1>17, <1>18

\* A thread that polls, finds nothing to lease, is refused by Job.start or drops its job on
\* a storage error ends up without a job.
LEMMA ReleaseInv ==
    ASSUME PipelineInv, NEW t \in Threads, NEW pc \in ThreadPc \ Busy,
           thread' = [thread EXCEPT ![t] = Free(pc)],
           UNCHANGED <<tables, starter, client, runs>>
    PROVE  PipelineInv'
<1>1. UNCHANGED <<jobs, queue, running, current, client, runs>>
    BY DEF tables, starter
<1>2. TypeOK'
    <2>1. Free(pc) \in Slot(ThreadPc)
        BY FreeSlot
    <2> QED BY <1>1, <2>1 DEF PipelineInv, TypeOK
<1>3. /\ thread'[t] = Free(pc)
      /\ \A u \in Threads : u # t => thread'[u] = thread[u]
    BY DEF PipelineInv, TypeOK
<1>4. Free(pc).pc \notin Busy /\ Free(pc).mem = NoJob
    BY DEF Free
<1> QED BY <1>1, <1>2, <1>3, <1>4, ProcessStep

LEMMA QuietThreadInv ==
    ASSUME PipelineInv, NEW t \in Threads,
           Poll(t) \/ LeaseNothing(t) \/ LoadRefused(t) \/ ThreadStorageError(t)
    PROVE  PipelineInv'
<1>1. "idle" \in ThreadPc \ Busy /\ "tick" \in ThreadPc \ Busy /\ "none" \in ThreadPc \ Busy
    BY DEF ThreadPc, Busy
<1>2. CASE Poll(t)
    <2> DEFINE pc == IF running THEN "tick" ELSE "none"
    <2>1. pc \in ThreadPc \ Busy
        BY <1>1
    <2>2. thread' = [thread EXCEPT ![t] = Free(pc)] /\ UNCHANGED <<tables, starter, client, runs>>
        BY <1>2 DEF Poll
    <2> HIDE DEF pc
    <2> QED BY <2>1, <2>2, ReleaseInv
<1>3. CASE LeaseNothing(t)
    BY <1>1, <1>3, ReleaseInv DEF LeaseNothing
<1>4. CASE LoadRefused(t)
    BY <1>1, <1>4, ReleaseInv DEF LoadRefused
<1>5. CASE ThreadStorageError(t)
    BY <1>1, <1>5, ReleaseInv DEF ThreadStorageError
<1> QED BY <1>2, <1>3, <1>4, <1>5

-----------------------------------------------------------------------------
(* The environment *)

LEMMA DelayElapsesInv ==
    ASSUME PipelineInv, NEW j \in Jobs, DelayElapses(j)
    PROVE  PipelineInv'
<1> USE DEF PipelineInv
<1>1. /\ queue[j].status = "retrying"
      /\ queue' = [queue EXCEPT ![j].due = TRUE]
      /\ UNCHANGED <<jobs, running, current, thread, client, runs>>
    BY DEF DelayElapses, starter
<1>2. queue[j] \in QueueRow
    BY <1>1 DEF TypeOK, NoRow
<1>3. /\ queue'[j] = [queue[j] EXCEPT !.due = TRUE]
      /\ \A i \in Jobs : i # j => queue'[i] = queue[i]
    BY <1>1 DEF TypeOK
<1>4. /\ \A i \in Jobs : queue'[i].status = queue[i].status
      /\ queue'[j] \in QueueRow /\ queue[j] # NoRow /\ queue'[j] # NoRow
    <2>1. queue'[j] \in QueueRow /\ queue'[j].status = queue[j].status
        BY <1>2, <1>3 DEF QueueRow
    <2>2. queue[j] # NoRow /\ queue'[j] # NoRow
        BY <1>1, <2>1 DEF NoRow
    <2> QED BY <1>3, <2>1, <2>2
<1>5. TypeOK'
    BY <1>1, <1>3, <1>4 DEF TypeOK
<1>6. HolderInv' /\ OneHolder'
    BY <1>1, <1>4 DEF HolderInv, OneHolder, Holds
<1>7. SubmitterInv' /\ CancellerInv'
    BY <1>1, <1>3, <1>4 DEF SubmitterInv, CancellerInv, Submitting, Cancelling
<1>8. CountInv' /\ BlemishInv' /\ RunsWithinBudget' /\ CompletedAtFirstAttempt'
    BY <1>1 DEF CountInv, BlemishInv, RunsWithinBudget, CompletedAtFirstAttempt, Startable,
            RetriedAfterFailure
<1>9. SavedCountInv' /\ EnqueueInv'
    BY <1>1, <1>3, <1>4 DEF SavedCountInv, EnqueueInv, Startable, Present
<1>10. RowBackedByJob'
    BY <1>1, <1>4 DEF RowBackedByJob
<1> QED BY <1>5, <1>6, <1>7, <1>8, <1>9, <1>10

LEMMA ClientStorageErrorInv ==
    ASSUME PipelineInv, NEW c \in Clients, ClientStorageError(c)
    PROVE  PipelineInv'
<1>1. /\ client' = [client EXCEPT ![c] = Free("idle")]
      /\ UNCHANGED <<jobs, queue, running, current, thread, runs>>
    BY DEF ClientStorageError, tables, starter
<1>2. TypeOK'
    <2>1. Free("idle") \in Slot(ClientPc)
        BY FreeSlot DEF ClientPc
    <2> QED BY <1>1, <2>1 DEF PipelineInv, TypeOK
<1>3. \A d \in Clients : client'[d] = client[d] \/ client'[d] = Free("idle")
    BY <1>1 DEF PipelineInv, TypeOK
<1> QED BY <1>1, <1>2, <1>3, ProcessStep

LEMMA StopInv ==
    ASSUME PipelineInv, Stop
    PROVE  PipelineInv'
<1>1. running' = FALSE /\ UNCHANGED <<jobs, queue, current, thread, client, runs>>
    BY DEF Stop, tables
<1>2. TypeOK'
    BY <1>1 DEF PipelineInv, TypeOK
<1> QED BY <1>1, <1>2, ProcessStep

LEMMA CrashInv ==
    ASSUME PipelineInv, Crash
    PROVE  PipelineInv'
<1>1. /\ UNCHANGED <<jobs, queue, runs>>
      /\ running' = FALSE /\ current' = NoThread
      /\ thread' = [t \in Threads |-> Free("none")]
      /\ client' = [c \in Clients |-> Free("idle")]
    BY DEF Crash, tables
<1>2. TypeOK'
    <2>1. thread' \in [Threads -> Slot(ThreadPc)]
        BY <1>1, FreeSlot DEF ThreadPc
    <2>2. client' \in [Clients -> Slot(ClientPc)]
        BY <1>1, FreeSlot DEF ClientPc
    <2> QED BY <1>1, <2>1, <2>2 DEF PipelineInv, TypeOK
<1>3. \A t \in Threads : thread'[t].pc \notin Busy /\ thread'[t].mem = NoJob
    BY <1>1 DEF Free, Busy
<1>4. \A c \in Clients : client'[c] = Free("idle")
    BY <1>1
<1> QED BY <1>1, <1>2, <1>3, <1>4, ProcessStep

-----------------------------------------------------------------------------
(* The invariants of the specification *)

LEMMA ThreadStepInv ==
    ASSUME PipelineInv, NEW t \in Threads, ThreadStep(t)
    PROVE  PipelineInv'
BY QuietThreadInv, LeaseInv, LoadMissingInv, LoadAndStartInv, SaveStartedInv, ExecuteInv,
   RouteSaveInv, RouteQueueInv DEF ThreadStep

LEMMA ClientStepInv ==
    ASSUME PipelineInv, NEW c \in Clients, ClientStep(c) \/ ClientCall(c)
    PROVE  PipelineInv'
BY EnsureRunningInv, CancelLoadInv, StartGuardInv, StartAssignInv, StartThreadInv,
   SubmitSaveInv, SubmitEnqueueInv, CancelSaveInv, CancelQueueInv DEF ClientStep, ClientCall

LEMMA StepInv == PipelineInv /\ [Next]_vars => PipelineInv'
<1> SUFFICES ASSUME PipelineInv, [Next]_vars PROVE PipelineInv'
    OBVIOUS
<1>1. CASE \E t \in Threads : ThreadStep(t) \/ ThreadStorageError(t)
    BY <1>1, ThreadStepInv, QuietThreadInv
<1>2. CASE \E c \in Clients : ClientStep(c) \/ ClientCall(c) \/ ClientStorageError(c)
    BY <1>2, ClientStepInv, ClientStorageErrorInv
<1>3. CASE \E j \in Jobs : DelayElapses(j) \/ DeleteJob(j)
    BY <1>3, DelayElapsesInv, DeleteJobInv
<1>4. CASE Stop
    BY <1>4, StopInv
<1>5. CASE Crash
    BY <1>5, CrashInv
<1>6. CASE UNCHANGED vars
    <2>1. UNCHANGED <<jobs, queue, running, current, thread, client, runs>>
        BY <1>6 DEF vars
    <2>2. TypeOK'
        BY <2>1 DEF PipelineInv, TypeOK
    <2> QED BY <2>1, <2>2, ProcessStep
<1> QED BY <1>1, <1>2, <1>3, <1>4, <1>5, <1>6 DEF Next

\* The inductive invariant holds in every reachable state, whatever crashes, storage
\* errors, cancels, deletes and second dispatcher threads do.
THEOREM PipelineInvariant == Spec => []PipelineInv
BY InitInv, StepInv, PTL DEF Spec

\* Type correctness: in particular a persisted job never counts more retries than
\* Job._max_retries, and the row of a job in a thread's hands is never missing.
THEOREM TypeCorrect == Spec => []TypeOK
<1>1. PipelineInv => TypeOK
    BY DEF PipelineInv
<1> QED BY <1>1, PipelineInvariant, PTL

\* JobQueue.lease hands a job to one dispatcher thread only, even when Dispatcher.start
\* raced and several threads poll.
THEOREM LeaseIsExclusive == Spec => []OneHolder
<1>1. PipelineInv => OneHolder
    BY DEF PipelineInv
<1> QED BY <1>1, PipelineInvariant, PTL

\* The retry budget holds over crashes and stale saves: PipelineWorker.execute runs a job
\* at most 1 + max_retries times.
THEOREM RetryBudgetHolds == Spec => []RunsWithinBudget
<1>1. PipelineInv => RunsWithinBudget
    BY DEF PipelineInv
<1> QED BY <1>1, PipelineInvariant, PTL

\* A job saved as COMPLETED by Dispatcher._route never failed before.
THEOREM CompletionIsClean == Spec => []CompletedAtFirstAttempt
<1>1. PipelineInv => CompletedAtFirstAttempt
    BY DEF PipelineInv
<1> QED BY <1>1, PipelineInvariant, PTL

\* The queue never claims an outcome the jobs table does not back, at every point where
\* the process may die.
THEOREM QueueIsBacked == Spec => []RowBackedByJob
<1>1. PipelineInv => RowBackedByJob
    BY DEF PipelineInv
<1> QED BY <1>1, PipelineInvariant, PTL

-----------------------------------------------------------------------------
(* What a step may never do to a queue row *)

\* What each operation on the queue does to the status of a row.
LEMMA RowStep ==
    ASSUME PipelineInv, [Next]_vars, NEW j \in Jobs
    PROVE  \/ queue'[j].status = queue[j].status
           \/ queue'[j].status = "cancelled"
           \/ queue[j] = NoRow
           \/ queue[j].status \in {"pending", "retrying"} /\ queue'[j].status = "leased"
           \/ \E t \in Threads : Holds(t, j)
<1> USE DEF PipelineInv
<1>1. CASE UNCHANGED queue
    BY <1>1
<1>2. ASSUME NEW t \in Threads, Lease(t)
      PROVE  \/ queue'[j].status = queue[j].status
             \/ queue[j].status \in {"pending", "retrying"} /\ queue'[j].status = "leased"
    BY <1>2 DEF Lease, Leasable, TypeOK
<1>3. ASSUME NEW t \in Threads, LoadMissing(t) \/ RouteQueue(t)
      PROVE  queue'[j].status = queue[j].status \/ Holds(t, j)
    BY <1>3 DEF LoadMissing, RouteQueue, Holds, Busy, TypeOK
<1>4. ASSUME NEW c \in Clients, SubmitEnqueue(c)
      PROVE  queue'[j].status = queue[j].status \/ queue[j] = NoRow
    BY <1>4 DEF SubmitEnqueue, SubmitterInv, Submitting, TypeOK
<1>5. ASSUME NEW c \in Clients, CancelQueue(c)
      PROVE  queue'[j].status \in {queue[j].status, "cancelled"}
    <2>1. queue[j] \in QueueRow \cup {NoRow}
        BY DEF TypeOK
    <2> QED BY <1>5, <2>1 DEF CancelQueue, TypeOK, QueueRow
<1>6. ASSUME NEW i \in Jobs, DelayElapses(i)
      PROVE  queue'[j].status = queue[j].status
    <2>1. queue[i] \in QueueRow
        BY <1>6 DEF DelayElapses, TypeOK, NoRow
    <2> QED BY <1>6, <2>1 DEF DelayElapses, TypeOK, QueueRow
<1>7. ASSUME NEW t \in Threads, ThreadStep(t) \/ ThreadStorageError(t)
      PROVE  UNCHANGED queue \/ Lease(t) \/ LoadMissing(t) \/ RouteQueue(t)
    BY <1>7 DEF ThreadStep, ThreadStorageError, Poll, LeaseNothing, LoadAndStart, LoadRefused,
            SaveStarted, Execute, RouteSave, tables
<1>8. ASSUME NEW c \in Clients, ClientStep(c) \/ ClientCall(c) \/ ClientStorageError(c)
      PROVE  UNCHANGED queue \/ SubmitEnqueue(c) \/ CancelQueue(c)
    BY <1>8 DEF ClientStep, ClientCall, ClientStorageError, EnsureRunning, StartGuard,
            StartAssign, StartThread, SubmitSave, CancelLoad, CancelSave, tables
<1>9. CASE \E i \in Jobs : DelayElapses(i) \/ DeleteJob(i)
    BY <1>1, <1>6, <1>9 DEF DeleteJob
<1>10. CASE Stop \/ Crash \/ UNCHANGED vars
    BY <1>1, <1>10 DEF Stop, Crash, vars, tables
<1> QED BY <1>1, <1>2, <1>3, <1>4, <1>5, <1>7, <1>8, <1>9, <1>10 DEF Next

\* No operation leases, requeues or overturns a COMPLETED or FAILED row: requeue and fail
\* have no status guard, but their callers hold the job, and a held row is not settled.
THEOREM SettledRowsAreFinal == Spec => SettledRowsStay
<1>1. ASSUME PipelineInv, [Next]_vars, NEW j \in Jobs, queue[j].status \in {"completed", "failed"}
      PROVE  queue'[j].status \in {queue[j].status, "cancelled"}
    <2>1. \A t \in Threads : ~Holds(t, j)
        BY <1>1 DEF PipelineInv, HolderInv, Holds
    <2>2. queue[j] # NoRow
        BY <1>1 DEF NoRow
    <2> QED BY <1>1, <2>1, <2>2, RowStep
<1>2. PipelineInv /\ [Next]_vars =>
        [\A j \in Jobs : queue[j].status \in {"completed", "failed"} =>
            queue'[j].status \in {queue[j].status, "cancelled"}]_queue
    BY <1>1
<1> QED BY <1>2, PipelineInvariant, PTL DEF Spec, SettledRowsStay

\* The unguarded requeue and fail can only revive a cancelled row for the thread that was
\* executing the job when it was cancelled.
THEOREM OnlyTheHolderRevives == Spec => RevivedOnlyByHolder
<1>1. ASSUME PipelineInv, [Next]_vars, NEW j \in Jobs,
             queue[j].status = "cancelled", queue'[j].status # "cancelled"
      PROVE  \E t \in Threads : Holds(t, j)
    <2>1. queue[j] # NoRow
        BY <1>1 DEF NoRow
    <2> QED BY <1>1, <2>1, RowStep
<1>2. PipelineInv /\ [Next]_vars =>
        [\A j \in Jobs : queue[j].status = "cancelled" /\ queue'[j].status # "cancelled" =>
            \E t \in Threads : Holds(t, j)]_queue
    BY <1>1
<1> QED BY <1>2, PipelineInvariant, PTL DEF Spec, RevivedOnlyByHolder

-----------------------------------------------------------------------------
(* The refinement.  JobPipeline implements JobLifecycle for the jobs that no client cancels or   *)
(* deletes: crashes, storage errors, stops, racing dispatcher threads and the cancels of other   *)
(* jobs cannot make the jobs table leave the lifecycle of pipeline/job.py.                       *)

\* the pcs at which a process relies on its private copy
Starting == {"guard", "assign", "run", "save"}
Running == {"started", "execute", "route"}

\* A step that saves no undisturbed job and gives no thread a new copy of one.
LEMMA CopyFrame ==
    ASSUME CopyInv,
           \A i \in Undisturbed : jobs'[i] = jobs[i],
           \A u \in Threads :
                \/ thread'[u] = thread[u]
                \/ thread'[u].pc \notin Running
                \/ thread'[u].job \notin Undisturbed,
           \A d \in Clients :
                \/ client'[d] = client[d]
                \/ client'[d].pc \in {"idle", "enqueue"}
                \/ client'[d].pc \in Starting /\ jobs[client'[d].job] = NoJob
                \/ client'[d].job \notin Undisturbed
    PROVE  CopyInv'
<1>1. ASSUME NEW d \in Clients, client'[d].job \in Undisturbed
      PROVE  /\ ~Cancelling(d)'
             /\ client'[d].pc \in Starting => jobs'[client'[d].job] = NoJob
    <2>1. CASE client'[d] = client[d]
        BY <1>1, <2>1 DEF CopyInv, Cancelling, Starting
    <2>2. CASE client'[d] # client[d]
        BY <1>1, <2>2 DEF Cancelling, Starting
    <2> QED BY <2>1, <2>2
<1>2. ASSUME NEW u \in Threads, thread'[u].job \in Undisturbed
      PROVE  FreshCopy(u)'
    <2>1. CASE thread'[u] = thread[u]
        BY <1>2, <2>1 DEF CopyInv, FreshCopy, Startable
    <2>2. CASE thread'[u].pc \notin Running
        BY <2>2 DEF FreshCopy, Running
    <2> QED BY <1>2, <2>1, <2>2
<1>3. \A j \in Undisturbed : jobs'[j].status # "cancelled"
    BY DEF CopyInv
<1> QED BY <1>1, <1>2, <1>3 DEF CopyInv, Starting

\* A step that saves `new` for the undisturbed job j, on behalf of the only process that has
\* it in hand.
LEMMA CopySave ==
    ASSUME PipelineInv, CopyInv, NEW j \in Undisturbed, NEW new,
           jobs' = [jobs EXCEPT ![j] = new], new.status # "cancelled",
           \A u \in Threads :
                \/ thread'[u] = thread[u] /\ ~Holds(u, j)
                \/ thread'[u].pc \notin Running
                \/ thread'[u].pc = "execute" /\ thread'[u].job = j /\ thread'[u].mem = new,
           \A d \in Clients :
                \/ client'[d] = client[d] /\ ~(client[d].pc \in Starting /\ client[d].job = j)
                \/ client'[d].pc = "enqueue"
    PROVE  CopyInv'
<1>1. jobs'[j] = new /\ \A i \in Undisturbed : i # j => jobs'[i] = jobs[i]
    BY DEF PipelineInv, TypeOK, Undisturbed
<1>2. \A i \in Undisturbed : jobs'[i].status # "cancelled"
    BY <1>1 DEF CopyInv
<1>3. ASSUME NEW d \in Clients, client'[d].job \in Undisturbed
      PROVE  /\ ~Cancelling(d)'
             /\ client'[d].pc \in Starting => jobs'[client'[d].job] = NoJob
    <2>1. CASE client'[d].pc = "enqueue"
        BY <2>1 DEF Cancelling, Starting
    <2>2. CASE client'[d] = client[d] /\ ~(client[d].pc \in Starting /\ client[d].job = j)
        <3>1. ~Cancelling(d)'
            BY <1>3, <2>2 DEF CopyInv, Cancelling
        <3>2. ASSUME client[d].pc \in Starting
              PROVE  jobs'[client'[d].job] = NoJob
            BY <1>3, <2>2, <3>2, <1>1 DEF CopyInv, Starting
        <3> QED BY <2>2, <3>1, <3>2
    <2> QED BY <2>1, <2>2
<1>4. ASSUME NEW u \in Threads, thread'[u].job \in Undisturbed
      PROVE  FreshCopy(u)'
    <2>1. CASE thread'[u].pc \notin Running
        BY <2>1 DEF FreshCopy, Running
    <2>2. CASE thread'[u].pc = "execute" /\ thread'[u].job = j /\ thread'[u].mem = new
        BY <2>2, <1>1 DEF FreshCopy
    <2>3. CASE thread'[u] = thread[u] /\ ~Holds(u, j) /\ thread'[u].pc \in Running
        <3>1. jobs'[thread[u].job] = jobs[thread[u].job]
            BY <1>4, <2>3, <1>1 DEF Holds, Running, Busy
        <3> QED BY <1>4, <2>3, <3>1 DEF CopyInv, FreshCopy, Startable
    <2> QED BY <2>1, <2>2, <2>3
<1> QED BY <1>2, <1>3, <1>4 DEF CopyInv, Starting

-----------------------------------------------------------------------------
(* The three steps that save a job *)

\* Saving one job leaves the others alone.
LEMMA SavedElsewhere ==
    ASSUME PipelineInv, NEW j, j \notin Undisturbed, NEW new, jobs' = [jobs EXCEPT ![j] = new]
    PROVE  \A i \in Undisturbed : jobs'[i] = jobs[i]
BY DEF PipelineInv, TypeOK, Undisturbed

LEMMA SubmitSaveCopy ==
    ASSUME PipelineInv, CopyInv, NEW c \in Clients, SubmitSave(c)
    PROVE  CopyInv'
<1> DEFINE j == client[c].job
<1>1. /\ client[c].pc = "save" /\ client[c].mem = NewJob /\ j \in Jobs /\ queue[j] = NoRow
      /\ jobs' = [jobs EXCEPT ![j] = NewJob]
      /\ thread' = thread
    BY DEF SubmitSave, PipelineInv, SubmitterInv, Submitting, starter
<1>2. \A u \in Threads : ~Holds(u, j)
    BY <1>1 DEF PipelineInv, HolderInv, Holds, NoRow
<1>3. /\ client'[c].pc = "enqueue"
      /\ \A d \in Clients : d # c => client'[d] = client[d]
    BY DEF SubmitSave, PipelineInv, TypeOK, Slot
<1>4. \A d \in Clients : d # c => ~(client[d].pc \in Starting /\ client[d].job = j)
    BY <1>1 DEF PipelineInv, SubmitterInv, Submitting, Starting
<1>5. NewJob.status # "cancelled"
    BY DEF NewJob
<1>6. \A u \in Threads : thread'[u] = thread[u] /\ ~Holds(u, j)
    BY <1>1, <1>2
<1>7. \A d \in Clients :
        \/ client'[d] = client[d] /\ ~(client[d].pc \in Starting /\ client[d].job = j)
        \/ client'[d].pc = "enqueue"
    BY <1>3, <1>4
<1>8. CASE j \in Undisturbed
    BY <1>1, <1>5, <1>6, <1>7, <1>8, CopySave
<1>9. CASE j \notin Undisturbed
    BY <1>1, <1>6, <1>7, <1>9, SavedElsewhere, CopyFrame
<1> QED BY <1>8, <1>9

\* a job in a thread's hands is in no submitter's
LEMMA HeldNotStarting ==
    ASSUME PipelineInv, NEW t \in Threads, thread[t].pc \in Busy, NEW d \in Clients
    PROVE  ~(client[d].pc \in Starting /\ client[d].job = thread[t].job)
BY DEF PipelineInv, HolderInv, SubmitterInv, Submitting, Starting, NoRow

LEMMA OthersHoldOthers ==
    ASSUME PipelineInv, NEW t \in Threads, thread[t].pc \in Busy, NEW u \in Threads, u # t
    PROVE  ~Holds(u, thread[t].job)
BY DEF PipelineInv, HolderInv, OneHolder, Holds

LEMMA SaveStartedCopy ==
    ASSUME PipelineInv, CopyInv, NEW t \in Threads, SaveStarted(t)
    PROVE  CopyInv'
<1> DEFINE j == thread[t].job
           mem == thread[t].mem
<1>1. /\ thread[t].pc = "started" /\ thread[t].pc \in Busy /\ j \in Jobs
      /\ mem.status = "running"
      /\ jobs' = [jobs EXCEPT ![j] = mem]
      /\ client' = client
    BY DEF SaveStarted, PipelineInv, HolderInv, CountInv, Busy
<1>2. /\ thread'[t].pc = "execute" /\ thread'[t].job = j /\ thread'[t].mem = mem
      /\ \A u \in Threads : u # t => thread'[u] = thread[u]
    BY DEF SaveStarted, PipelineInv, TypeOK, Slot
<1>3. \A u \in Threads :
        \/ thread'[u] = thread[u] /\ ~Holds(u, j)
        \/ thread'[u].pc = "execute" /\ thread'[u].job = j /\ thread'[u].mem = mem
    BY <1>1, <1>2, OthersHoldOthers
<1>4. \A d \in Clients :
        client'[d] = client[d] /\ ~(client[d].pc \in Starting /\ client[d].job = j)
    BY <1>1, HeldNotStarting
<1>5. CASE j \in Undisturbed
    <2> HIDE DEF mem, j
    <2> QED BY <1>1, <1>3, <1>4, <1>5, CopySave
<1>6. CASE j \notin Undisturbed
    BY <1>1, <1>3, <1>4, <1>6, SavedElsewhere, CopyFrame
<1> QED BY <1>5, <1>6

LEMMA RouteSaveCopy ==
    ASSUME PipelineInv, CopyInv, NEW t \in Threads, RouteSave(t)
    PROVE  CopyInv'
<1> DEFINE j == thread[t].job
           new == Routed(thread[t].mem)
<1>1. /\ thread[t].pc = "route" /\ thread[t].pc \in Busy /\ j \in Jobs
      /\ thread[t].mem.status = "running" /\ thread[t].mem \in JobRecord \cup {NoJob}
      /\ jobs' = [jobs EXCEPT ![j] = new]
      /\ client' = client
    BY DEF RouteSave, PipelineInv, HolderInv, CountInv, Busy, TypeOK, Slot
<1>2. new.status # "cancelled"
    BY <1>1, RoutedJob
<1>3. /\ thread'[t].pc \notin Running
      /\ \A u \in Threads : u # t => thread'[u] = thread[u]
    BY DEF RouteSave, PipelineInv, TypeOK, Slot, Running
<1>4. \A u \in Threads :
        \/ thread'[u] = thread[u] /\ ~Holds(u, j)
        \/ thread'[u].pc \notin Running
    BY <1>1, <1>3, OthersHoldOthers
<1>5. \A d \in Clients :
        client'[d] = client[d] /\ ~(client[d].pc \in Starting /\ client[d].job = j)
    BY <1>1, HeldNotStarting
<1>6. CASE j \in Undisturbed
    <2> HIDE DEF new, j
    <2> QED BY <1>1, <1>2, <1>4, <1>5, <1>6, CopySave
<1>7. CASE j \notin Undisturbed
    BY <1>1, <1>4, <1>5, <1>7, SavedElsewhere, CopyFrame
<1> QED BY <1>6, <1>7

-----------------------------------------------------------------------------
(* The steps that make or move a copy *)

\* A step that changes the copy of thread t alone.
LEMMA OneNewCopy ==
    ASSUME CopyInv, NEW t \in Threads, UNCHANGED <<jobs, client>>,
           \A u \in Threads : u # t => thread'[u] = thread[u],
           thread'[t].job \in Undisturbed => FreshCopy(t)'
    PROVE  CopyInv'
<1>1. \A u \in Threads : u # t /\ thread'[u].job \in Undisturbed => FreshCopy(u)'
    BY DEF CopyInv, FreshCopy, Startable
<1> QED BY <1>1 DEF CopyInv, Cancelling

LEMMA LoadAndStartCopy ==
    ASSUME PipelineInv, CopyInv, NEW t \in Threads, LoadAndStart(t)
    PROVE  CopyInv'
<1> DEFINE j == thread[t].job
<1>1. /\ j \in Jobs /\ Startable(jobs[j])
      /\ UNCHANGED <<jobs, client>>
    BY StartableTransitions DEF LoadAndStart, PipelineInv, HolderInv, Busy, tables
<1>2. /\ thread'[t].pc = "started" /\ thread'[t].job = j
      /\ thread'[t].mem = [jobs[j] EXCEPT !.status = "running"]
      /\ \A u \in Threads : u # t => thread'[u] = thread[u]
    BY DEF LoadAndStart, PipelineInv, TypeOK, Slot
<1>3. FreshCopy(t)'
    BY <1>1, <1>2 DEF FreshCopy, Startable
<1> QED BY <1>1, <1>2, <1>3, OneNewCopy

LEMMA ExecuteCopy ==
    ASSUME PipelineInv, CopyInv, NEW t \in Threads, Execute(t)
    PROVE  CopyInv'
<1> DEFINE j == thread[t].job
           mem == thread[t].mem
<1>1. PICK o \in Outcomes :
        thread' = [thread EXCEPT ![t].pc = "route", ![t].mem.failures = @ \cup o]
    BY DEF Execute
<1>2. thread[t].pc = "execute" /\ UNCHANGED <<jobs, client>>
    BY DEF Execute, tables
<1>3. /\ thread'[t].pc = "route" /\ thread'[t].job = j
      /\ thread'[t].mem = [mem EXCEPT !.failures = mem.failures \cup o]
      /\ \A u \in Threads : u # t => thread'[u] = thread[u]
    BY <1>1 DEF PipelineInv, TypeOK, Slot
<1>4. ASSUME j \in Undisturbed
      PROVE  FreshCopy(t)'
    <2>1. mem = jobs[j] /\ mem.status = "running"
        BY <1>2, <1>4 DEF CopyInv, FreshCopy, PipelineInv, CountInv
    <2>2. mem \in JobRecord
        <3>1. mem \in JobRecord \cup {NoJob}
            BY DEF PipelineInv, TypeOK, Slot
        <3> QED BY <2>1, <3>1 DEF NoJob
    <2>3. /\ thread'[t].mem.retries = mem.retries
          /\ mem.failures \subseteq thread'[t].mem.failures
        BY <1>3, <2>2 DEF JobRecord
    <2> QED BY <1>2, <1>3, <2>1, <2>3 DEF FreshCopy
<1> QED BY <1>2, <1>3, <1>4, OneNewCopy

LEMMA ThreadCopy ==
    ASSUME PipelineInv, CopyInv, NEW t \in Threads, ThreadStep(t) \/ ThreadStorageError(t)
    PROVE  CopyInv'
<1>1. CASE SaveStarted(t) \/ RouteSave(t) \/ LoadAndStart(t) \/ Execute(t)
    BY <1>1, SaveStartedCopy, RouteSaveCopy, LoadAndStartCopy, ExecuteCopy
<1>2. CASE \/ Poll(t) \/ Lease(t) \/ LeaseNothing(t) \/ LoadMissing(t) \/ LoadRefused(t)
           \/ RouteQueue(t) \/ ThreadStorageError(t)
    <2>1. UNCHANGED <<jobs, client>>
        BY <1>2 DEF Poll, Lease, LeaseNothing, LoadMissing, LoadRefused, RouteQueue,
                ThreadStorageError, tables
    <2>2. \A u \in Threads : thread'[u] = thread[u] \/ thread'[u].pc \notin Running
        <3>1. CASE Lease(t)
            BY <3>1 DEF Lease, PipelineInv, TypeOK, Running
        <3>2. CASE Poll(t)
            BY <3>2 DEF Poll, PipelineInv, TypeOK, Free, Running
        <3>3. CASE thread' = [thread EXCEPT ![t] = Free("idle")]
            BY <3>3 DEF PipelineInv, TypeOK, Free, Running
        <3> QED BY <1>2, <3>1, <3>2, <3>3 DEF LeaseNothing, LoadMissing, LoadRefused, RouteQueue,
                ThreadStorageError
    <2> QED BY <2>1, <2>2, CopyFrame
<1> QED BY <1>1, <1>2 DEF ThreadStep

LEMMA ClientCopy ==
    ASSUME PipelineInv, CopyInv, NEW c \in Clients,
           ClientStep(c) \/ ClientCall(c) \/ ClientStorageError(c)
    PROVE  CopyInv'
<1>1. CASE SubmitSave(c)
    BY <1>1, SubmitSaveCopy
<1>2. CASE \E j \in Jobs : EnsureRunning(c, j)
    <2>1. PICK j \in Jobs : EnsureRunning(c, j)
        BY <1>2
    <2>2. UNCHANGED <<jobs, thread>> /\ jobs[j] = NoJob
        BY <2>1 DEF EnsureRunning, Fresh, tables
    <2>3. /\ client'[c].pc \in Starting /\ client'[c].job = j
          /\ \A d \in Clients : d # c => client'[d] = client[d]
        BY <2>1 DEF EnsureRunning, PipelineInv, TypeOK, Starting
    <2> QED BY <2>2, <2>3, CopyFrame
<1>3. CASE StartGuard(c) \/ StartAssign(c) \/ StartThread(c)
    <2>1. /\ UNCHANGED jobs
          /\ client[c].pc \in Starting
          /\ client[c].job \in Undisturbed => jobs[client[c].job] = NoJob
        BY <1>3 DEF StartGuard, StartAssign, StartThread, tables, CopyInv, Starting
    <2>2. \A u \in Threads : thread'[u] = thread[u] \/ thread'[u].pc \notin Running
        BY <1>3 DEF StartGuard, StartAssign, StartThread, PipelineInv, TypeOK, Free, Running
    <2>3. /\ \/ client'[c].pc = "idle"
             \/ client'[c].pc \in Starting /\ client'[c].job = client[c].job
          /\ \A d \in Clients : d # c => client'[d] = client[d]
        <3>1. CASE StartGuard(c)
            <4>1. CASE client' = [client EXCEPT ![c] = Free("idle")]
                BY <4>1 DEF PipelineInv, TypeOK, Free
            <4>2. CASE client' = [client EXCEPT ![c] = [@ EXCEPT !.pc = "assign"]]
                BY <4>2 DEF PipelineInv, TypeOK, Slot, Starting
            <4> QED BY <3>1, <4>1, <4>2 DEF StartGuard
        <3>2. CASE StartAssign(c)
            <4>1. client[c].pc = "assign" /\ client' = [client EXCEPT ![c].pc = "run"]
                BY <3>2 DEF StartAssign
            <4> QED BY <4>1 DEF PipelineInv, TypeOK, Slot, Starting
        <3>3. CASE StartThread(c)
            <4>1. CASE client' = [client EXCEPT ![c].pc = "save"]
                BY <4>1 DEF PipelineInv, TypeOK, Slot, Starting
            <4>2. CASE client' = [client EXCEPT ![c] = Free("idle")]
                BY <4>2 DEF PipelineInv, TypeOK, Free
            <4> QED BY <3>3, <4>1, <4>2 DEF StartThread
        <3> QED BY <1>3, <3>1, <3>2, <3>3
    <2>4. \A d \in Clients :
            \/ client'[d] = client[d]
            \/ client'[d].pc \in {"idle", "enqueue"}
            \/ client'[d].pc \in Starting /\ jobs[client'[d].job] = NoJob
            \/ client'[d].job \notin Undisturbed
        BY <2>1, <2>3
    <2> QED BY <2>1, <2>2, <2>4, CopyFrame
<1>4. CASE SubmitEnqueue(c) \/ ClientStorageError(c)
    <2>1. /\ UNCHANGED <<jobs, thread>>
          /\ client'[c].pc = "idle"
          /\ \A d \in Clients : d # c => client'[d] = client[d]
        BY <1>4 DEF SubmitEnqueue, ClientStorageError, tables, PipelineInv, TypeOK, Free
    <2> QED BY <2>1, CopyFrame
<1>5. CASE CancelSave(c)
    <2>1. /\ client[c].pc = "cancelSave" /\ client[c].job \notin Undisturbed
          /\ jobs' = [jobs EXCEPT ![client[c].job] = client[c].mem]
          /\ thread' = thread
        BY <1>5 DEF CancelSave, CopyInv, Cancelling, starter
    <2>2. /\ client'[c].job = client[c].job
          /\ \A d \in Clients : d # c => client'[d] = client[d]
        BY <1>5 DEF CancelSave, PipelineInv, TypeOK, Slot
    <2> QED BY <2>1, <2>2, SavedElsewhere, CopyFrame
<1>6. CASE CancelQueue(c)
    <2>1. /\ UNCHANGED <<jobs, thread>>
          /\ client'[c].pc = "idle"
          /\ \A d \in Clients : d # c => client'[d] = client[d]
        BY <1>6 DEF CancelQueue, PipelineInv, TypeOK, Free, starter
    <2> QED BY <2>1, CopyFrame
<1>7. CASE \E j \in Jobs : CancelLoad(c, j)
    <2>1. PICK j \in Jobs : CancelLoad(c, j)
        BY <1>7
    <2>2. /\ UNCHANGED <<jobs, thread>>
          /\ j \notin Undisturbed
          /\ client'[c].job = j
          /\ \A d \in Clients : d # c => client'[d] = client[d]
        BY <2>1 DEF CancelLoad, PipelineInv, TypeOK, Undisturbed, tables, starter
    <2> QED BY <2>2, CopyFrame
<1> QED BY <1>1, <1>2, <1>3, <1>4, <1>5, <1>6, <1>7 DEF ClientStep, ClientCall

\* The copies of undisturbed jobs stay the saved jobs.
LEMMA CopyInvariant == Spec => []CopyInv
<1>1. Init => CopyInv
    BY DEF Init, CopyInv, FreshCopy, Cancelling, Free, NoJob, Undisturbed
<1>2. PipelineInv /\ CopyInv /\ [Next]_vars => CopyInv'
    <2> SUFFICES ASSUME PipelineInv, CopyInv, [Next]_vars PROVE CopyInv'
        OBVIOUS
    <2>1. CASE \E t \in Threads : ThreadStep(t) \/ ThreadStorageError(t)
        BY <2>1, ThreadCopy
    <2>2. CASE \E c \in Clients : ClientStep(c) \/ ClientCall(c) \/ ClientStorageError(c)
        BY <2>2, ClientCopy
    <2>3. CASE (\E j \in Jobs : DelayElapses(j)) \/ Stop \/ UNCHANGED vars
        <3>1. UNCHANGED <<jobs, thread, client>>
            BY <2>3 DEF DelayElapses, Stop, vars, tables
        <3> QED BY <3>1, CopyFrame
    <2>4. CASE \E j \in Jobs : DeleteJob(j)
        <3>1. PICK j \in Jobs : DeleteJob(j)
            BY <2>4
        <3>2. /\ UNCHANGED <<thread, client>>
              /\ j \notin Undisturbed
              /\ jobs' = [jobs EXCEPT ![j] = NoJob]
            BY <3>1 DEF DeleteJob, Undisturbed, starter
        <3> QED BY <3>2, SavedElsewhere, CopyFrame
    <2>5. CASE Crash
        <3>1. /\ UNCHANGED jobs
              /\ \A u \in Threads : thread'[u].pc \notin Running
              /\ \A d \in Clients : client'[d].pc = "idle"
            BY <2>5 DEF Crash, tables, Free, Running
        <3> QED BY <3>1, CopyFrame
    <2> QED BY <2>1, <2>2, <2>3, <2>4, <2>5 DEF Next
<1> QED BY <1>1, <1>2, PipelineInvariant, PTL DEF Spec

-----------------------------------------------------------------------------
(* The refinement *)

LStatus == [j \in Undisturbed |-> jobs[j].status]
LRetries == [j \in Undisturbed |-> jobs[j].retries]
LBlemished == {j \in Undisturbed : jobs[j].failures # {}}

\* What saving a job does to the abstract state.
LEMMA AbstractSave ==
    ASSUME TypeOK, NEW j \in Undisturbed, NEW new, jobs' = [jobs EXCEPT ![j] = new]
    PROVE  /\ LStatus' = [LStatus EXCEPT ![j] = new.status]
           /\ LRetries' = [LRetries EXCEPT ![j] = new.retries]
           /\ new.failures = jobs[j].failures => LBlemished' = LBlemished
           /\ new.failures # {} => LBlemished' = LBlemished \cup {j}
           /\ new.failures = {} /\ jobs[j].failures = {} => LBlemished' = LBlemished
BY DEF TypeOK, LStatus, LRetries, LBlemished, Undisturbed

LEMMA SubmitSaveAbstract ==
    ASSUME PipelineInv, CopyInv, NEW c \in Clients, SubmitSave(c),
           client[c].job \in Undisturbed
    PROVE  Lifecycle!Next
<1>1. PICK j \in Undisturbed : jobs[j] = NoJob /\ jobs' = [jobs EXCEPT ![j] = NewJob]
    <2>1. /\ client[c].mem = NewJob /\ jobs[client[c].job] = NoJob
          /\ jobs' = [jobs EXCEPT ![client[c].job] = NewJob]
        BY DEF SubmitSave, PipelineInv, SubmitterInv, Submitting, CopyInv
    <2> QED BY <2>1
<1>2. /\ LStatus[j] = "absent" /\ LRetries[j] = NewJob.retries
      /\ NewJob.status = "pending" /\ NewJob.failures = {} /\ jobs[j].failures = {}
    BY <1>1 DEF LStatus, LRetries, NoJob, NewJob
<1>3. /\ LStatus' = [LStatus EXCEPT ![j] = NewJob.status]
      /\ LRetries' = [LRetries EXCEPT ![j] = NewJob.retries]
      /\ LBlemished' = LBlemished
    <2>1. TypeOK
        BY DEF PipelineInv
    <2> QED BY <1>1, <1>2, <2>1, AbstractSave
<1>4. [LRetries EXCEPT ![j] = NewJob.retries] = LRetries
    BY <1>2 DEF LRetries
<1>5. Lifecycle!Submit(j)
    BY <1>2, <1>3, <1>4 DEF Lifecycle!Submit, LStatus, LRetries, LBlemished
<1> QED BY <1>5 DEF Lifecycle!Next

LEMMA SaveStartedAbstract ==
    ASSUME PipelineInv, CopyInv, NEW t \in Threads, SaveStarted(t),
           thread[t].job \in Undisturbed
    PROVE  Lifecycle!Next
<1>1. PICK j \in Undisturbed : j = thread[t].job
    OBVIOUS
<1>2. PICK mem : mem = thread[t].mem
    OBVIOUS
<1>3. /\ Startable(jobs[j]) /\ mem = [jobs[j] EXCEPT !.status = "running"]
      /\ jobs' = [jobs EXCEPT ![j] = mem]
      /\ jobs[j] \in JobRecord \cup {NoJob}
    BY <1>1, <1>2 DEF SaveStarted, PipelineInv, CopyInv, FreshCopy, TypeOK, Undisturbed
<1>4. mem.status = "running" /\ mem.retries = jobs[j].retries /\ mem.failures = jobs[j].failures
    BY <1>3 DEF JobRecord, NoJob
<1>5. /\ LStatus' = [LStatus EXCEPT ![j] = mem.status]
      /\ LRetries' = [LRetries EXCEPT ![j] = mem.retries]
      /\ LBlemished' = LBlemished
    <2>1. TypeOK
        BY DEF PipelineInv
    <2> QED BY <1>3, <1>4, <2>1, AbstractSave
<1>6. [LRetries EXCEPT ![j] = mem.retries] = LRetries
    BY <1>4 DEF LRetries
<1>7. LStatus[j] \in {"pending", "retrying"}
    BY <1>3 DEF Startable, LStatus
<1>8. Lifecycle!Start(j)
    BY <1>4, <1>5, <1>6, <1>7 DEF Lifecycle!Start, LStatus, LRetries, LBlemished
<1> QED BY <1>8 DEF Lifecycle!Next

LEMMA RouteSaveAbstract ==
    ASSUME PipelineInv, CopyInv, NEW t \in Threads, RouteSave(t),
           thread[t].job \in Undisturbed
    PROVE  Lifecycle!Next
<1>1. PICK j \in Undisturbed : j = thread[t].job
    OBVIOUS
<1>2. PICK mem : mem = thread[t].mem
    OBVIOUS
<1>3. PICK new : new = Routed(mem)
    OBVIOUS
<1>4. /\ mem \in JobRecord \cup {NoJob} /\ mem.status = "running"
      /\ jobs[j].status = "running" /\ jobs[j].retries = mem.retries
      /\ jobs[j].failures \subseteq mem.failures
      /\ jobs' = [jobs EXCEPT ![j] = new]
    BY <1>1, <1>2, <1>3 DEF RouteSave, PipelineInv, CountInv, CopyInv, FreshCopy, TypeOK, Slot
<1>5. /\ new \in JobRecord /\ new.failures = mem.failures
      /\ new.status \in {"completed", "retrying", "failed"}
      /\ new.status = "completed" => mem.failures = {} /\ new.retries = mem.retries
      /\ new.status = "retrying" => mem.failures # {} /\ new.retries = mem.retries + 1
      /\ new.status = "failed" => mem.failures # {} /\ new.retries = mem.retries
    <2>1. new.status = "failed" => mem.failures # {}
        BY <1>3, <1>4 DEF Routed, RecoveryDecision, JobRecord, NoJob
    <2> QED BY <1>3, <1>4, <2>1, RoutedJob
<1>6. /\ LStatus' = [LStatus EXCEPT ![j] = new.status]
      /\ LRetries' = [LRetries EXCEPT ![j] = new.retries]
      /\ new.failures # {} => LBlemished' = LBlemished \cup {j}
      /\ new.failures = {} /\ jobs[j].failures = {} => LBlemished' = LBlemished
    <2>1. TypeOK
        BY DEF PipelineInv
    <2> QED BY <1>4, <2>1, AbstractSave
<1>7. /\ LStatus[j] = "running" /\ LRetries[j] = mem.retries
      /\ [LRetries EXCEPT ![j] = mem.retries] = LRetries
    BY <1>4 DEF LStatus, LRetries
<1>8. CASE new.status = "completed"
    <2>1. j \notin LBlemished /\ LBlemished' = LBlemished
        BY <1>4, <1>5, <1>6, <1>8 DEF LBlemished
    <2>2. Lifecycle!Complete(j)
        BY <1>5, <1>6, <1>7, <1>8, <2>1 DEF Lifecycle!Complete, LStatus, LRetries, LBlemished
    <2> QED BY <2>2 DEF Lifecycle!Next
<1>9. CASE new.status = "retrying"
    <2>1. mem.retries < MaxRetries
        BY <1>4, <1>5, <1>9, MaxRetriesAssumption DEF JobRecord, NoJob
    <2>2. Lifecycle!MarkRetrying(j)
        BY <1>5, <1>6, <1>7, <1>9, <2>1
            DEF Lifecycle!MarkRetrying, LStatus, LRetries, LBlemished
    <2> QED BY <2>2 DEF Lifecycle!Next
<1>10. CASE new.status = "failed"
    <2>1. Lifecycle!Fail(j)
        BY <1>5, <1>6, <1>7, <1>10 DEF Lifecycle!Fail, LStatus, LRetries, LBlemished
    <2> QED BY <2>1 DEF Lifecycle!Next
<1> QED BY <1>5, <1>8, <1>9, <1>10

\* Whatever else is done leaves the undisturbed jobs as they are saved.
LEMMA OnlySaversSave ==
    ASSUME PipelineInv, CopyInv, [Next]_vars
    PROVE  \/ \A i \in Undisturbed : jobs'[i] = jobs[i]
           \/ \E c \in Clients : SubmitSave(c) /\ client[c].job \in Undisturbed
           \/ \E t \in Threads : SaveStarted(t) /\ thread[t].job \in Undisturbed
           \/ \E t \in Threads : RouteSave(t) /\ thread[t].job \in Undisturbed
<1>1. ASSUME NEW t \in Threads, SaveStarted(t) \/ RouteSave(t), thread[t].job \notin Undisturbed
      PROVE  \A i \in Undisturbed : jobs'[i] = jobs[i]
    BY <1>1, SavedElsewhere DEF SaveStarted, RouteSave
<1>2. ASSUME NEW t \in Threads, ThreadStep(t) \/ ThreadStorageError(t),
             ~SaveStarted(t), ~RouteSave(t)
      PROVE  UNCHANGED jobs
    BY <1>2 DEF ThreadStep, ThreadStorageError, Poll, Lease, LeaseNothing, LoadMissing,
            LoadAndStart, LoadRefused, Execute, RouteQueue, tables
<1>3. ASSUME NEW c \in Clients, SubmitSave(c) \/ CancelSave(c), client[c].job \notin Undisturbed
      PROVE  \A i \in Undisturbed : jobs'[i] = jobs[i]
    BY <1>3, SavedElsewhere DEF SubmitSave, CancelSave
<1>4. ASSUME NEW c \in Clients, CancelSave(c)
      PROVE  client[c].job \notin Undisturbed
    BY <1>4 DEF CancelSave, CopyInv, Cancelling
<1>5. ASSUME NEW c \in Clients, ClientStep(c) \/ ClientCall(c) \/ ClientStorageError(c),
             ~SubmitSave(c), ~CancelSave(c)
      PROVE  UNCHANGED jobs
    BY <1>5 DEF ClientStep, ClientCall, ClientStorageError, EnsureRunning, StartGuard,
            StartAssign, StartThread, SubmitEnqueue, CancelLoad, CancelQueue, tables
<1>6. ASSUME NEW j \in Jobs, DeleteJob(j)
      PROVE  \A i \in Undisturbed : jobs'[i] = jobs[i]
    <2>1. j \notin Undisturbed /\ jobs' = [jobs EXCEPT ![j] = NoJob]
        BY <1>6 DEF DeleteJob, Undisturbed
    <2> QED BY <2>1, SavedElsewhere
<1>7. CASE (\E j \in Jobs : DelayElapses(j)) \/ Stop \/ Crash \/ UNCHANGED vars
    BY <1>7 DEF DelayElapses, Stop, Crash, vars, tables
<1> QED BY <1>1, <1>2, <1>3, <1>4, <1>5, <1>6, <1>7 DEF Next

\* The jobs table goes through the lifecycle of pipeline/job.py and no other: for a job that
\* nobody cancels or deletes, no interleaving, crash or storage error, and no cancel or
\* delete of another job, makes the persisted status skip a step, retry past the budget, or
\* complete over a failure.
THEOREM LifecycleImplemented == Spec => ImplementsLifecycle
<1>1. Init => Lifecycle!Init
    BY DEF Init, Lifecycle!Init, NoJob, Undisturbed
<1>2. PipelineInv /\ CopyInv /\ [Next]_vars => [Lifecycle!Next]_(Lifecycle!jobVars)
    <2> SUFFICES ASSUME PipelineInv, CopyInv, [Next]_vars
                 PROVE  [Lifecycle!Next]_(Lifecycle!jobVars)
        OBVIOUS
    <2>1. CASE \A i \in Undisturbed : jobs'[i] = jobs[i]
        BY <2>1 DEF Lifecycle!jobVars
    <2>2. CASE \E c \in Clients : SubmitSave(c) /\ client[c].job \in Undisturbed
        BY <2>2, SubmitSaveAbstract
    <2>3. CASE \E t \in Threads : SaveStarted(t) /\ thread[t].job \in Undisturbed
        BY <2>3, SaveStartedAbstract
    <2>4. CASE \E t \in Threads : RouteSave(t) /\ thread[t].job \in Undisturbed
        BY <2>4, RouteSaveAbstract
    <2> QED BY <2>1, <2>2, <2>3, <2>4, OnlySaversSave
<1> QED BY <1>1, <1>2, PipelineInvariant, CopyInvariant, PTL
        DEF Spec, ImplementsLifecycle, Lifecycle!Spec
=============================================================================
