---------------------------- MODULE HumanReview ----------------------------
(***************************************************************************)
(* The human review of extracted knowledge: the `facts` and `review_cases` *)
(* tables, the acceptance stage that opens a case for every pending fact   *)
(* (processing/fact_acceptance/fact_acceptance_service.py), the producers  *)
(* that open cases without a fact (pipeline/handlers/                      *)
(* llm_extraction_handler.py, ui/viewmodels/advisory_vm.py) and the review *)
(* page on which a person accepts, edits or rejects the selected case      *)
(* (ui/viewmodels/review_vm.py, ui/pages/review.py).                       *)
(*                                                                         *)
(* The connection is in autocommit mode: every statement is a transaction  *)
(* of its own, whatever commit and rollback surround it, so each decision  *)
(* is split at its reads and writes.                                       *)
(***************************************************************************)
EXTENDS Naturals, FiniteSets

CONSTANTS
    Facts,        \* ids of rows of facts
    Cases,        \* ids of rows of review_cases
    Entities,     \* ids an entity row for the external owner may get
    Sessions,     \* browser sessions on the review page
    Uploads,      \* pipeline runs that reach the acceptance stage
    Decisions,    \* subset of {"accept", "reject", "edit"} the sessions take
    Targets,      \* subset of {"self", "external"}: the owners the sessions choose
    Faults,       \* subset of {"crash", "storage"}
    Self,         \* the active entity, to which every case belongs
    None          \* no fact, no case, no entity

ASSUME IdsAssumption ==
    /\ None \notin Facts \cup Cases \cup Entities \cup {Self}
    /\ Self \notin Entities

ASSUME InputsAssumption ==
    /\ Decisions \subseteq {"accept", "reject", "edit"}
    /\ Targets \subseteq {"self", "external"}
    /\ Faults \subseteq {"crash", "storage"}

VARIABLES
    facts,      \* the facts table
    evidenced,  \* facts with a row in fact_evidence
    cases,      \* the review_cases table
    owners,     \* the entities rows that carry the external owner's name
    related,    \* those the active entity has a relationship with
    session,    \* the sessions: the selected case and the decision in progress
    upload      \* the acceptance runs: the facts each one still has to treat

vars == <<facts, evidenced, cases, owners, related, session, upload>>
directory == <<owners, related>>

-----------------------------------------------------------------------------
(* Rows *)

FactStatus == {"pending", "accepted", "rejected"}

\* `case` and `claimed` are review_case_id and owner_entity_id in the metadata that the last
\* accept wrote
FactRow == [status : FactStatus, entity : Entities \cup {Self},
            case : Cases \cup {None}, claimed : Entities \cup {Self, None}]
NoRow == [status |-> "absent", entity |-> None, case |-> None, claimed |-> None]
Extracted == [status |-> "pending", entity |-> Self, case |-> None, claimed |-> None]
Reviewed(c, entity, owner) ==
    [status |-> "accepted", entity |-> entity, case |-> c, claimed |-> owner]

Stored(f) == facts[f] # NoRow

CaseStatus == {"PENDING", "ASSIGNED", "IN_REVIEW", "COMPLETED", "CANCELLED"}

\* `fact` is metadata["fact_id"]
CaseRow == [status : CaseStatus, fact : Facts \cup {None}]
NoCase == [status |-> "absent", fact |-> None]

\* the fact the case was opened for exists
Backed(c) == cases[c].fact # None /\ Stored(cases[c].fact)

\* ReviewCase.is_open
IsOpen(status) == status \in {"PENDING", "ASSIGNED", "IN_REVIEW"}

-----------------------------------------------------------------------------
(* Processes *)

Deciding == {"lookup", "insertOwner", "lookupRelation", "relate", "write", "close",
             "rejectSave", "rejectFact", "editSave"}

\* `selected` is SELECTED_REVIEW_CASE_ID, `copy` the status of the case as it was loaded,
\* `target` the owner selection, `owner` the entity it was resolved to
SessionRecord ==
    [pc : {"idle"} \cup Deciding, selected : Cases \cup {None},
     copy : CaseStatus \cup {"absent"}, target : {"self", "external"},
     owner : Entities \cup {Self, None}]

Waiting(c) == [pc |-> "idle", selected |-> c, copy |-> "absent", target |-> "self", owner |-> None]

TypeOK ==
    /\ facts \in [Facts -> FactRow \cup {NoRow}]
    /\ evidenced \subseteq Facts
    /\ cases \in [Cases -> CaseRow \cup {NoCase}]
    /\ owners \subseteq Entities
    /\ related \subseteq owners
    /\ session \in [Sessions -> SessionRecord]
    /\ \A s \in Sessions : session[s].pc # "idle" =>
        session[s].selected # None /\ session[s].copy # "absent"
    /\ upload \in [Uploads -> SUBSET Facts]

Init ==
    /\ facts = [f \in Facts |-> NoRow]
    /\ evidenced = {}
    /\ cases = [c \in Cases |-> NoCase]
    /\ owners = {}
    /\ related = {}
    /\ session = [s \in Sessions |-> Waiting(None)]
    /\ upload = [u \in Uploads |-> {}]

-----------------------------------------------------------------------------
(* Producers *)

\* KnowledgeApplicationService.persist_knowledge_build: the facts first, then the links
PersistFact(f) ==
    /\ ~Stored(f)
    /\ facts' = [facts EXCEPT ![f] = Extracted]
    /\ UNCHANGED <<evidenced, cases, directory, session, upload>>

LinkEvidence(f) ==
    /\ facts[f].status = "pending"
    /\ f \notin evidenced
    /\ evidenced' = evidenced \cup {f}
    /\ UNCHANGED <<facts, cases, directory, session, upload>>

\* Bug variant: the acceptance stage treats facts of every status.
ListAll(u) ==
    /\ upload[u] = {}
    /\ upload' = [upload EXCEPT ![u] = {f \in Facts : Stored(f)}]
    /\ upload'[u] # {}
    /\ UNCHANGED <<facts, evidenced, cases, directory, session>>

\* FactAcceptanceService.process reads the pending facts once
ListPending(u) ==
    /\ upload[u] = {}
    /\ upload' = [upload EXCEPT ![u] = {f \in Facts : facts[f].status = "pending"}]
    /\ upload'[u] # {}
    /\ UNCHANGED <<facts, evidenced, cases, directory, session>>

\* no evidence: reported as rejected, the row stays pending
SkipFact(u, f) ==
    /\ f \in upload[u] \ evidenced
    /\ upload' = [upload EXCEPT ![u] = @ \ {f}]
    /\ UNCHANGED <<facts, evidenced, cases, directory, session>>

\* the candidate id is drawn afresh, so neither guard of open_case can refuse; nothing is
\* accepted automatically, _should_auto_accept never seeing the evidence's metadata
OpenCase(u, f, c) ==
    /\ f \in upload[u] \cap evidenced
    /\ cases[c] = NoCase
    /\ cases' = [cases EXCEPT ![c] = [status |-> "PENDING", fact |-> f]]
    /\ upload' = [upload EXCEPT ![u] = @ \ {f}]
    /\ UNCHANGED <<facts, evidenced, directory, session>>

\* LLMExtractionHandler._persist_review_cases, _insert_chat_review_case
OpenClaim(c) ==
    /\ cases[c] = NoCase
    /\ cases' = [cases EXCEPT ![c] = [status |-> "PENDING", fact |-> None]]
    /\ UNCHANGED <<facts, evidenced, directory, session, upload>>

-----------------------------------------------------------------------------
(* The review page: the queue lists PENDING cases; the selection survives   *)
(* in the session until a decision succeeds                                 *)

Select(s, c) ==
    /\ session[s].pc = "idle"
    /\ cases[c].status = "PENDING"
    /\ session[s].selected # c
    /\ session' = [session EXCEPT ![s] = Waiting(c)]
    /\ UNCHANGED <<facts, evidenced, cases, directory, upload>>

\* repo.get at the head of submit_decision: the copy every later step works on
Load(s, pc, target) ==
    /\ session[s].pc = "idle"
    /\ session[s].selected # None
    /\ session' = [session EXCEPT ![s] =
                    [@ EXCEPT !.pc = pc, !.target = target,
                              !.copy = cases[session[s].selected].status]]
    /\ UNCHANGED <<facts, evidenced, cases, directory, upload>>

\* submit_decision(ACCEPT): no condition on the status
Accept(s) ==
    /\ "accept" \in Decisions
    /\ \E target \in Targets : Load(s, "lookup", target)

\* submit_decision(REJECT): case.cancel() refuses a closed case
Reject(s) ==
    /\ "reject" \in Decisions
    /\ session[s].selected # None
    /\ IsOpen(cases[session[s].selected].status)
    /\ Load(s, "rejectSave", "self")

\* submit_decision(EDIT): no condition on the status
Edit(s) ==
    /\ "edit" \in Decisions
    /\ Load(s, "editSave", "self")

-----------------------------------------------------------------------------
(* ACCEPT: _resolve_target_entity_id, _accept_fact_from_case,               *)
(* _complete_case_safely                                                    *)

Advance(s, pc, owner) ==
    session' = [session EXCEPT ![s] = [@ EXCEPT !.pc = pc, !.owner = owner]]

CompletedSafely(status) == IF IsOpen(status) THEN "COMPLETED" ELSE status

SaveCase(s, status) == cases' = [cases EXCEPT ![session[s].selected].status = status]

\* Bug variant: the case is saved before the fact is.
CloseEarly(s) ==
    /\ session[s].pc = "lookup"
    /\ SaveCase(s, CompletedSafely(session[s].copy))
    /\ session' = [session EXCEPT ![s].pc = "write", ![s].owner = Self]
    /\ UNCHANGED <<facts, evidenced, directory, upload>>

\* (an external owner with the active entity's own name and type is left out)
KeepActive(s) ==
    /\ session[s].pc = "lookup"
    /\ session[s].target = "self"
    /\ Advance(s, "write", Self)
    /\ UNCHANGED <<facts, evidenced, cases, directory, upload>>

\* Rows of the same owner are ordered by a timestamp taken before the insert, so any of them
\* may come first.
FindOwner(s) ==
    /\ session[s].pc = "lookup"
    /\ session[s].target = "external"
    /\ \/ owners = {} /\ Advance(s, "insertOwner", None)
       \/ \E e \in owners : Advance(s, "lookupRelation", e)
    /\ UNCHANGED <<facts, evidenced, cases, directory, upload>>

InsertOwner(s) ==
    /\ session[s].pc = "insertOwner"
    /\ \E e \in Entities \ owners :
        /\ owners' = owners \cup {e}
        /\ Advance(s, "lookupRelation", e)
    /\ UNCHANGED <<facts, evidenced, cases, related, upload>>

\* Bug variant: an existing owner is taken to be related already.
FindRelationOptimist(s) ==
    /\ session[s].pc = "lookupRelation"
    /\ Advance(s, "write", session[s].owner)
    /\ UNCHANGED <<facts, evidenced, cases, directory, upload>>

FindRelation(s) ==
    /\ session[s].pc = "lookupRelation"
    /\ Advance(s, IF session[s].owner \in related THEN "write" ELSE "relate", session[s].owner)
    /\ UNCHANGED <<facts, evidenced, cases, directory, upload>>

Relate(s) ==
    /\ session[s].pc = "relate"
    /\ session[s].owner \notin related
    /\ related' = related \cup {session[s].owner}
    /\ Advance(s, "write", session[s].owner)
    /\ UNCHANGED <<facts, evidenced, cases, owners, upload>>

\* UNIQUE (source, target, relation): the second of two racing inserts raises, and the
\* decision fails
RelateRefused(s) ==
    /\ session[s].pc = "relate"
    /\ session[s].owner \in related
    /\ session' = [session EXCEPT ![s] = Waiting(session[s].selected)]
    /\ UNCHANGED <<facts, evidenced, cases, directory, upload>>

\* the fact the case was opened for is updated, its entity_id is not
UpdateFact(s) ==
    LET c == session[s].selected
        f == cases[c].fact
    IN  /\ session[s].pc = "write"
        /\ Backed(c)
        /\ facts' = [facts EXCEPT ![f] = Reviewed(c, @.entity, session[s].owner)]
        /\ Advance(s, "close", session[s].owner)
        /\ UNCHANGED <<evidenced, cases, directory, upload>>

\* any other case gets a new fact, every time it is accepted
InsertFact(s, f) ==
    LET c == session[s].selected IN
        /\ session[s].pc = "write"
        /\ ~Backed(c)
        /\ ~Stored(f)
        /\ facts' = [facts EXCEPT ![f] = Reviewed(c, session[s].owner, session[s].owner)]
        /\ Advance(s, "close", session[s].owner)
        /\ UNCHANGED <<evidenced, cases, directory, upload>>

CloseAccepted(s) ==
    /\ session[s].pc = "close"
    /\ SaveCase(s, CompletedSafely(session[s].copy))
    /\ session' = [session EXCEPT ![s] = Waiting(None)]
    /\ UNCHANGED <<facts, evidenced, directory, upload>>

-----------------------------------------------------------------------------
(* REJECT: the case first, then _reject_fact_from_case                      *)

\* Bug variant: the case is cancelled and the fact forgotten.
CancelCaseOnly(s) ==
    /\ session[s].pc = "rejectSave"
    /\ SaveCase(s, "CANCELLED")
    /\ session' = [session EXCEPT ![s] = Waiting(None)]
    /\ UNCHANGED <<facts, evidenced, directory, upload>>

CancelCase(s) ==
    /\ session[s].pc = "rejectSave"
    /\ SaveCase(s, "CANCELLED")
    /\ session' = [session EXCEPT ![s].pc = "rejectFact"]
    /\ UNCHANGED <<facts, evidenced, directory, upload>>

\* candidate_fact_id is tried too, and is the id of no fact
RejectFact(s) ==
    LET f == cases[session[s].selected].fact IN
        /\ session[s].pc = "rejectFact"
        /\ facts' = [g \in Facts |->
                        IF g = f /\ Stored(g) THEN [facts[g] EXCEPT !.status = "rejected"]
                        ELSE facts[g]]
        /\ session' = [session EXCEPT ![s] = Waiting(None)]
        /\ UNCHANGED <<evidenced, cases, directory, upload>>

\* EDIT saves the copy whole, status included, and the case stays selected
SaveEdit(s) ==
    /\ session[s].pc = "editSave"
    /\ SaveCase(s, session[s].copy)
    /\ session' = [session EXCEPT ![s] = Waiting(session[s].selected)]
    /\ UNCHANGED <<facts, evidenced, directory, upload>>

-----------------------------------------------------------------------------
(* Faults *)

\* a statement raises: submit_decision reports a failure and the selection stays
StorageError(s) ==
    /\ "storage" \in Faults
    /\ session[s].pc # "idle"
    /\ session' = [session EXCEPT ![s] = Waiting(session[s].selected)]
    /\ UNCHANGED <<facts, evidenced, cases, directory, upload>>

Crash ==
    /\ "crash" \in Faults
    /\ session' = [s \in Sessions |-> Waiting(None)]
    /\ upload' = [u \in Uploads |-> {}]
    /\ UNCHANGED <<facts, evidenced, cases, directory>>

-----------------------------------------------------------------------------
Produce ==
    \/ \E f \in Facts : PersistFact(f) \/ LinkEvidence(f)
    \/ \E u \in Uploads : ListPending(u)
    \/ \E u \in Uploads, f \in Facts : SkipFact(u, f)
    \/ \E u \in Uploads, f \in Facts, c \in Cases : OpenCase(u, f, c)
    \/ \E c \in Cases : OpenClaim(c)

Decide(s) ==
    \/ \E c \in Cases : Select(s, c)
    \/ Accept(s)
    \/ Reject(s)
    \/ Edit(s)

Execute(s) ==
    \/ KeepActive(s)
    \/ FindOwner(s)
    \/ InsertOwner(s)
    \/ FindRelation(s)
    \/ Relate(s)
    \/ RelateRefused(s)
    \/ UpdateFact(s)
    \/ \E f \in Facts : InsertFact(s, f)
    \/ CloseAccepted(s)
    \/ CancelCase(s)
    \/ RejectFact(s)
    \/ SaveEdit(s)

Next ==
    \/ Produce
    \/ \E s \in Sessions : Decide(s) \/ Execute(s) \/ StorageError(s)
    \/ Crash

Spec == Init /\ [][Next]_vars
-----------------------------------------------------------------------------
(* Properties *)

\* The value of a case reached the facts table: through the fact it was opened for, or
\* through a fact inserted for it.
Treated(c) ==
    IF cases[c].fact # None THEN facts[cases[c].fact].status \in {"accepted", "rejected"}
    ELSE \E f \in Facts : facts[f].status = "accepted" /\ facts[f].case = c

\* No COMPLETED case is without an effect, at whatever statement the process dies: accepting
\* writes the fact before it closes the case.  The fact may have been rejected since, by a
\* session that loaded the case while it was still open.
CompletedCaseTreated ==
    \A c \in Cases : cases[c].status = "COMPLETED" => Treated(c)

\* A fact that claims an external owner finds the owner related to the active entity, at
\* whatever statement the process dies: owner, relationship and fact are written in that
\* order, each looked up again by the next attempt.
ForeignFactIsRelated ==
    \A f \in Facts : facts[f].claimed \in Entities => facts[f].claimed \in related

\* With one session and no fault, facts and cases tell one story.  No pending fact hides
\* behind a cancelled case, where neither the queue nor the profile would show it; a rejected
\* fact has a cancelled case to show for it, the rejection being recorded before it takes
\* effect; and an accepted fact comes from a completed case.  The exception is the case the
\* session is between its two writes for.
FactsAndCasesAgree ==
    /\ \A c \in Cases : cases[c].status = "CANCELLED" /\ cases[c].fact # None =>
          \/ facts[cases[c].fact].status # "pending"
          \/ \E s \in Sessions : session[s].pc = "rejectFact" /\ session[s].selected = c
    /\ \A f \in Facts : facts[f].status = "rejected" =>
          \E c \in Cases : cases[c].fact = f /\ cases[c].status = "CANCELLED"
    /\ \A f \in Facts : facts[f].status = "accepted" =>
          LET c == facts[f].case IN
              \/ cases[c].status = "COMPLETED"
              \/ \E s \in Sessions : session[s].pc = "close" /\ session[s].selected = c

\* nobody is deciding on the case, or on another case of the same fact
Quiet(c) ==
    \A s \in Sessions : session[s].pc # "idle" =>
        LET d == session[s].selected IN
            d # c /\ (cases[c].fact # None => cases[d].fact # cases[c].fact)

\* ui/pages/review.py: "Rejected values stay out of the assistant and auto-fill workflow."
RejectedStaysOut ==
    \A c \in Cases : cases[c].status = "CANCELLED" /\ Quiet(c) =>
        \A f \in Facts : facts[f].status = "accepted" => facts[f].case # c

\* ui/pages/review.py: "Choose who this fact really belongs to. This prevents company/bank
\* data from entering your personal profile."
FactBelongsToOwner ==
    \A f \in Facts : facts[f].status = "accepted" => facts[f].entity = facts[f].claimed

-----------------------------------------------------------------------------
(* The inductive invariant behind CompletedCaseTreated and                  *)
(* ForeignFactIsRelated                                                     *)

\* what a session carries backs what it is about to save
CopyInv ==
    \A s \in Sessions :
        \/ session[s].pc \notin {"idle", "close"} /\ session[s].copy = "COMPLETED"
        \/ session[s].pc = "close"
        => Treated(session[s].selected)

OwnerInv ==
    \A s \in Sessions :
        /\ session[s].pc \in {"lookupRelation", "relate"} => session[s].owner \in owners
        /\ session[s].pc \in {"write", "close"} => session[s].owner \in related \cup {Self}

\* references lead to rows
ReferenceInv ==
    /\ \A s \in Sessions : session[s].selected # None => cases[session[s].selected] # NoCase
    /\ \A f \in Facts : facts[f].case # None => cases[facts[f].case] # NoCase
    /\ \A f \in Facts : facts[f].status \in {"absent", "pending"} => facts[f].case = None
    /\ \A f \in Facts : facts[f].status = "accepted" => facts[f].case # None

\* a fact under review was extracted: only the cases opened for it ever touch it
Extraction(f) == Stored(f) /\ (facts[f].case # None => cases[facts[f].case].fact = f)

ExtractionInv ==
    /\ \A c \in Cases : cases[c].fact # None => Extraction(cases[c].fact)
    /\ \A u \in Uploads : \A f \in upload[u] : Extraction(f)

ReviewInv ==
    /\ TypeOK
    /\ ReferenceInv
    /\ ExtractionInv
    /\ CopyInv
    /\ OwnerInv
    /\ CompletedCaseTreated
    /\ ForeignFactIsRelated

=============================================================================
