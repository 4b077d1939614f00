----------------------------- MODULE ReviewDesk -----------------------------
(***************************************************************************)
(* The in-memory review service (review/review_service.py) with the        *)
(* transitions of a case (review/review_case.py) and its priority queue    *)
(* (review/review_queue.py).  The service keeps every case twice, in a     *)
(* dictionary and as a copy in the queue.  An operation stores the new     *)
(* case first and replaces the copy second; when dequeue_next has taken    *)
(* the copy away the second half raises, and the first one stays.          *)
(***************************************************************************)
EXTENDS Naturals, Sequences, FiniteSets, Listings

CONSTANTS
    DeskCases   \* the numbers 1..n of the cases, in the order they are opened

ASSUME DeskAssumption == DeskCases \subseteq Nat /\ IsFiniteSet(DeskCases)

VARIABLES
    deskCase,   \* case -> [status, priority]
    deskQueue,  \* the queue: copies of cases, most urgent first
    decisions   \* case -> how many decisions are stored for it

deskVars == <<deskCase, deskQueue, decisions>>

DeskStatus == {"PENDING", "ASSIGNED", "IN_REVIEW", "COMPLETED", "CANCELLED"}
OpenStatus == {"PENDING", "ASSIGNED", "IN_REVIEW"}

\* ReviewPriority in the order of _PRIORITY_ORDER: CRITICAL is 0, LOW is 3
DeskPriority == 0..3
CaseValue == [status : DeskStatus, priority : DeskPriority]
Unopened == [status |-> "unopened", priority |-> 3]

\* a copy in the queue names its case, whose number stands for created_at
CopyOf(c, value) == [case |-> c, value |-> value]

DeskTypeOK ==
    /\ deskCase \in [DeskCases -> CaseValue \cup {Unopened}]
    /\ deskQueue \in Seq([case : DeskCases, value : CaseValue])
    /\ decisions \in [DeskCases -> Nat]

DeskInit ==
    /\ deskCase = [c \in DeskCases |-> Unopened]
    /\ deskQueue = <<>>
    /\ decisions = [c \in DeskCases |-> 0]

-----------------------------------------------------------------------------
(* ReviewQueue *)

\* the key (_PRIORITY_ORDER, created_at)
MoreUrgent(x, y) ==
    \/ x.value.priority < y.value.priority
    \/ x.value.priority = y.value.priority /\ x.case < y.case

Sorted(queue) ==
    LET order == CHOOSE p \in [DOMAIN queue -> DOMAIN queue] :
                     \A k, m \in DOMAIN queue : k < m => p[k] # p[m] /\ ~MoreUrgent(queue[p[m]], queue[p[k]])
    IN  [k \in DOMAIN queue |-> queue[order[k]]]

Queued(c) == \E k \in DOMAIN deskQueue : deskQueue[k].case = c

\* ReviewQueue.update; a case that is not queued raises and leaves the queue
Replace(c, value) == Sorted([k \in DOMAIN deskQueue |->
    IF deskQueue[k].case = c THEN CopyOf(c, value) ELSE deskQueue[k]])

\* ReviewQueue.remove
Without(c) == AtPlaces(deskQueue, {k \in DOMAIN deskQueue : deskQueue[k].case # c})

-----------------------------------------------------------------------------
(* ReviewService *)

OpenDeskCase(c, priority) ==
    /\ deskCase[c] = Unopened
    /\ \A d \in DeskCases : d < c => deskCase[d] # Unopened
    /\ LET value == [status |-> "PENDING", priority |-> priority] IN
          /\ deskCase' = [deskCase EXCEPT ![c] = value]
          /\ deskQueue' = Sorted(Append(deskQueue, CopyOf(c, value)))
    /\ UNCHANGED decisions

\* store the case, then its copy
Store(c, value) ==
    /\ deskCase' = [deskCase EXCEPT ![c] = value]
    /\ deskQueue' = Replace(c, value)

AssignDeskCase(c) ==
    /\ deskCase[c].status \in OpenStatus
    /\ Store(c, [deskCase[c] EXCEPT !.status = "ASSIGNED"])
    /\ UNCHANGED decisions

StartReview(c) ==
    /\ deskCase[c].status = "ASSIGNED"
    /\ Store(c, [deskCase[c] EXCEPT !.status = "IN_REVIEW"])
    /\ UNCHANGED decisions

\* Bug variant: the queue is updated before the case is stored, and its exception leaves the decision behind.
DecideQueueFirst(c) ==
    /\ deskCase[c].status = "IN_REVIEW"
    /\ decisions' = [decisions EXCEPT ![c] = @ + 1]
    /\ IF Queued(c)
       THEN Store(c, [deskCase[c] EXCEPT !.status = "COMPLETED"])
       ELSE UNCHANGED <<deskCase, deskQueue>>

\* submit_decision with APPROVED, REJECTED or EDITED
DecideDeskCase(c) ==
    /\ deskCase[c].status = "IN_REVIEW"
    /\ decisions' = [decisions EXCEPT ![c] = @ + 1]
    /\ Store(c, [deskCase[c] EXCEPT !.status = "COMPLETED"])

\* Bug variant: escalation raises the priority by one step, from CRITICAL too.
EscalateByOne(c) ==
    /\ deskCase[c].status = "IN_REVIEW"
    /\ Store(c, [status |-> "PENDING", priority |-> deskCase[c].priority - 1])
    /\ UNCHANGED decisions

\* submit_decision with ESCALATED: no decision is stored
EscalateDeskCase(c) ==
    /\ deskCase[c].status = "IN_REVIEW"
    /\ Store(c, [status |-> "PENDING", priority |-> 0])
    /\ UNCHANGED decisions

\* a case that is not queued is cancelled all the same, then remove raises
CancelDeskCase(c) ==
    /\ deskCase[c].status \in OpenStatus
    /\ deskCase' = [deskCase EXCEPT ![c].status = "CANCELLED"]
    /\ deskQueue' = Without(c)
    /\ UNCHANGED decisions

DequeueNext ==
    /\ deskQueue # <<>>
    /\ deskQueue' = Tail(deskQueue)
    /\ UNCHANGED <<deskCase, decisions>>

DeskNext ==
    \/ \E c \in DeskCases :
          \/ \E priority \in DeskPriority : OpenDeskCase(c, priority)
          \/ AssignDeskCase(c)
          \/ StartReview(c)
          \/ DecideDeskCase(c)
          \/ EscalateDeskCase(c)
          \/ CancelDeskCase(c)
    \/ DequeueNext

DeskSpec == DeskInit /\ [][DeskNext]_deskVars

-----------------------------------------------------------------------------
(* Properties *)

\* Whatever was dequeued in the meantime and whatever raised half-way, cases, decisions and
\* queue tell one story.  A case is COMPLETED exactly when one decision is stored for it, and
\* no other case has any.  Every copy in the queue is the stored case, no stale status or
\* priority; no case is queued twice, none is CANCELLED, and the head that dequeue_next
\* hands out is the most urgent one, escalations included.
DeskTellsOneStory ==
    /\ \A c \in DeskCases : decisions[c] = IF deskCase[c].status = "COMPLETED" THEN 1 ELSE 0
    /\ \A k \in DOMAIN deskQueue :
          /\ deskQueue[k].value = deskCase[deskQueue[k].case]
          /\ deskQueue[k].value.status # "CANCELLED"
    /\ \A k, m \in DOMAIN deskQueue : k < m => MoreUrgent(deskQueue[k], deskQueue[m])
=============================================================================
