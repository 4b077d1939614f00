---------------------------- MODULE DocumentFlow ----------------------------
(***************************************************************************)
(* A document from upload to knowledge: DocumentsVM.upload_document        *)
(* (ui/viewmodels/documents_vm.py) runs on the UI thread of a session and  *)
(* calls the stages of SequentialPipelineHandler one after the other;      *)
(* documents, sources, facts and evidence are written by autocommitted     *)
(* statements, guarded by the foreign keys of schema.sql.                  *)
(*                                                                         *)
(* The documents table keeps one row per file hash: saving a document with *)
(* another id for the same file moves the row, unless a source refers to   *)
(* the id it has.  What the stages read out of a file is left open.  Their *)
(* results matter here in four ways: is there an OCR artifact, was a       *)
(* CRITICAL failure recorded, which facts are built, and has the document  *)
(* been handed to the LLM job (JobPipeline runs it, HumanReview decides    *)
(* what acceptance sends to the review queue).                             *)
(***************************************************************************)
EXTENDS Naturals, FiniteSets

CONSTANTS
    Documents,   \* document ids, one drawn by every upload
    Files,       \* file contents, that is file hashes
    Entities,    \* entity ids
    Sessions,    \* UI threads
    Keys,        \* deduplication keys: field name and value, normalised
    Faults,      \* subset of {"crash", "storage"}
    None

ASSUME NoneAssumption == None \notin Documents \cup Files \cup Entities

ASSUME FaultsAssumption == Faults \subseteq {"crash", "storage"}

VARIABLES
    documents,   \* the documents table, by file hash
    sources,     \* the documents a row of sources refers to
    facts,       \* the facts table
    evidenced,   \* the facts with a row in fact_evidence
    reviewed,    \* the facts a review case was opened for
    llmJobs,     \* the documents an LLM extraction job was submitted for
    session,     \* the UI threads: pc and local variables of upload_document
    told         \* the file the session was last told is uploaded and processed

vars == <<documents, sources, facts, evidenced, reviewed, llmJobs, session, told>>
knowledge == <<facts, evidenced, reviewed>>

-----------------------------------------------------------------------------
DocumentStatus == {"pending", "processing", "processed", "failed"}
Settled == {"processed", "failed"}

DocumentRow == [doc : Documents, entity : Entities, status : DocumentStatus]
NoRow == [doc |-> None, entity |-> None, status |-> "absent"]

\* one fact at most per document and key: _deduplicate_facts looks at the batch too
Fact == [doc : Documents, entity : Entities, key : Keys]

UploadPc == {"idle", "insert", "start", "source", "ocr", "extract", "resolve", "build",
             "dedup", "persist", "accept", "submit", "judge", "save", "fail"}

\* `critical` is failures.has_critical(), `ocr` is bool(metadata), `verdict` the status of
\* the Document in memory once it is decided, `batch` the facts the build stage works on
Upload == [pc : UploadPc, doc : Documents \cup {None}, file : Files \cup {None},
           entity : Entities \cup {None}, critical : BOOLEAN, ocr : BOOLEAN,
           verdict : {"open"} \cup Settled, batch : SUBSET Keys]

Idle == [pc |-> "idle", doc |-> None, file |-> None, entity |-> None, critical |-> FALSE,
         ocr |-> FALSE, verdict |-> "open", batch |-> {}]

TypeOK ==
    /\ documents \in [Files -> DocumentRow \cup {NoRow}]
    /\ sources \subseteq Documents
    /\ facts \subseteq Fact
    /\ evidenced \subseteq facts
    /\ reviewed \subseteq facts
    /\ llmJobs \subseteq Documents
    /\ session \in [Sessions -> Upload]
    /\ told \in [Sessions -> Files \cup {None}]

Init ==
    /\ documents = [h \in Files |-> NoRow]
    /\ sources = {}
    /\ facts = {}
    /\ evidenced = {}
    /\ reviewed = {}
    /\ llmJobs = {}
    /\ session = [s \in Sessions |-> Idle]
    /\ told = [s \in Sessions |-> None]

-----------------------------------------------------------------------------
(* The document row *)

\* generate_document_id: an id no row and no upload has
Fresh(d) ==
    /\ d \notin sources
    /\ \A h \in Files : documents[h].doc # d
    /\ \A s \in Sessions : session[s].doc # d

\* Bug variant: foreign keys are off.
PinnedNever(s) == FALSE

\* sources.document_id REFERENCES documents(document_id): the upsert may not move the row
Pinned(s) ==
    LET row == documents[session[s].file] IN
        row.doc # session[s].doc /\ row.doc \in sources

\* SqliteDocumentRepository.save
SaveDocument(s, status) ==
    /\ ~Pinned(s)
    /\ documents' = [documents EXCEPT ![session[s].file] =
                        [doc |-> session[s].doc, entity |-> session[s].entity,
                         status |-> status]]

Goto(s, pc) == session' = [session EXCEPT ![s].pc = pc]

\* a stage records a CRITICAL failure and the upload goes on behind it
Critical(s, pc) == session' = [session EXCEPT ![s].pc = pc, ![s].critical = TRUE]

AlreadyExists(s, e, h) ==
    /\ session[s].pc = "idle"
    /\ documents[h] # NoRow
    /\ documents[h].entity = e
    /\ told' = [told EXCEPT ![s] = h]
    /\ UNCHANGED <<documents, sources, knowledge, llmJobs, session>>

Begin(s, e, h, d) ==
    /\ session[s].pc = "idle"
    /\ documents[h].entity # e
    /\ Fresh(d)
    /\ session' = [session EXCEPT ![s] =
                    [Idle EXCEPT !.pc = "insert", !.doc = d, !.file = h, !.entity = e]]
    /\ told' = [told EXCEPT ![s] = None]
    /\ UNCHANGED <<documents, sources, knowledge, llmJobs>>

SavePending(s) ==
    /\ session[s].pc = "insert"
    /\ SaveDocument(s, "pending")
    /\ Goto(s, "start")
    /\ UNCHANGED <<sources, knowledge, llmJobs, told>>

SaveProcessing(s) ==
    /\ session[s].pc = "start"
    /\ SaveDocument(s, "processing")
    /\ Goto(s, "source")
    /\ UNCHANGED <<sources, knowledge, llmJobs, told>>

\* save raised: mark_failed and a second save, or, when the Document in memory is settled
\* already, a StateError that is swallowed
SaveRaised(s) ==
    session' = [session EXCEPT ![s] =
                    IF session[s].pc \in {"insert", "start"} THEN [@ EXCEPT !.pc = "fail"]
                    ELSE Idle]

SavePinned(s) ==
    /\ session[s].pc \in {"insert", "start", "save", "fail"}
    /\ Pinned(s)
    /\ SaveRaised(s)
    /\ UNCHANGED <<documents, sources, knowledge, llmJobs, told>>

SaveFailed(s) ==
    /\ session[s].pc = "fail"
    /\ SaveDocument(s, "failed")
    /\ session' = [session EXCEPT ![s] = Idle]
    /\ UNCHANGED <<sources, knowledge, llmJobs, told>>

-----------------------------------------------------------------------------
(* The stages of the pipeline.  A stage that finds no artifact to work on   *)
(* records a failure that is not CRITICAL and writes nothing.               *)

\* Bug variant: the source is inserted as if foreign keys were off.
PersistSourceUnchecked(s) ==
    /\ session[s].pc = "source"
    /\ sources' = sources \cup {session[s].doc}
    /\ Goto(s, "ocr")
    /\ UNCHANGED <<documents, knowledge, llmJobs, told>>

PersistSource(s) ==
    /\ session[s].pc = "source"
    /\ documents[session[s].file].doc = session[s].doc
    /\ sources' = sources \cup {session[s].doc}
    /\ Goto(s, "ocr")
    /\ UNCHANGED <<documents, knowledge, llmJobs, told>>

\* another upload of the file took the row over: the foreign key refuses the source
SourceRefused(s) ==
    /\ session[s].pc = "source"
    /\ documents[session[s].file].doc # session[s].doc
    /\ Critical(s, "judge")
    /\ UNCHANGED <<documents, sources, knowledge, llmJobs, told>>

Ocr(s) ==
    /\ session[s].pc = "ocr"
    /\ \/ session' = [session EXCEPT ![s].pc = "extract", ![s].ocr = TRUE]
       \/ Critical(s, "judge")
    /\ UNCHANGED <<documents, sources, knowledge, llmJobs, told>>

\* ExtractionHandler: candidates were found, for some keys; there are none, and the later
\* stages have nothing to go on; or the service raised
Extract(s) ==
    /\ session[s].pc = "extract"
    /\ \/ \E keys \in (SUBSET Keys) \ {{}} :
            session' = [session EXCEPT ![s].pc = "resolve", ![s].batch = keys]
       \/ Goto(s, "submit")
       \/ Critical(s, "submit")
    /\ UNCHANGED <<documents, sources, knowledge, llmJobs, told>>

\* EntityResolutionHandler: every candidate carries the document's entity, so there is one
\* cluster, no conflict, and nothing but an exception can go wrong
Resolve(s) ==
    /\ session[s].pc = "resolve"
    /\ Goto(s, "build") \/ Critical(s, "submit")
    /\ UNCHANGED <<documents, sources, knowledge, llmJobs, told>>

\* KnowledgeBuildHandler up to the service's write: the quality gate rejects everything, or
\* facts are built of some of the candidates, perhaps of none; or the builder raised
Build(s) ==
    /\ session[s].pc = "build"
    /\ \/ \E keys \in SUBSET session[s].batch :
            session' = [session EXCEPT ![s].pc = "dedup", ![s].batch = keys]
       \/ Goto(s, "submit")
       \/ Critical(s, "submit")
    /\ UNCHANGED <<documents, sources, knowledge, llmJobs, told>>

KnownKeys(e) == { f.key : f \in {g \in facts : g.entity = e} }

\* _load_existing_fact_keys and _deduplicate_facts: facts of any status count as known
Deduplicate(s) ==
    /\ session[s].pc = "dedup"
    /\ session' = [session EXCEPT ![s].pc = "persist",
                                  ![s].batch = @ \ KnownKeys(session[s].entity)]
    /\ UNCHANGED <<documents, sources, knowledge, llmJobs, told>>

Batch(s) ==
    { [doc |-> session[s].doc, entity |-> session[s].entity, key |-> k] :
        k \in session[s].batch }

PersistFact(s, f) ==
    /\ session[s].pc = "persist"
    /\ f \in Batch(s) \ facts
    /\ facts' = facts \cup {f}
    /\ UNCHANGED <<documents, sources, evidenced, reviewed, llmJobs, session, told>>

\* all facts first, then the evidence and its links
LinkEvidence(s, f) ==
    /\ session[s].pc = "persist"
    /\ Batch(s) \subseteq facts
    /\ f \in Batch(s) \ evidenced
    /\ evidenced' = evidenced \cup {f}
    /\ UNCHANGED <<documents, sources, facts, reviewed, llmJobs, session, told>>

\* Bug variant: the stage is over as soon as the facts are stored.
PersistedUnlinked(s) ==
    /\ session[s].pc = "persist"
    /\ Batch(s) \subseteq facts
    /\ Goto(s, "accept")
    /\ UNCHANGED <<documents, sources, knowledge, llmJobs, told>>

Persisted(s) ==
    /\ session[s].pc = "persist"
    /\ Batch(s) \subseteq evidenced
    /\ Goto(s, "accept")
    /\ UNCHANGED <<documents, sources, knowledge, llmJobs, told>>

\* fact_acceptance: every fact of the entity with evidence gets a case, the facts of
\* earlier uploads too
Acceptance(s) ==
    /\ session[s].pc = "accept"
    /\ reviewed' = reviewed \cup {f \in evidenced : f.entity = session[s].entity}
    /\ Goto(s, "submit")
    /\ UNCHANGED <<documents, sources, facts, evidenced, llmJobs, told>>

-----------------------------------------------------------------------------
(* Back in upload_document *)

\* _submit_llm_extraction_job: nothing to submit when OCR read no text
SubmitLlm(s) ==
    /\ session[s].pc = "submit"
    /\ \/ llmJobs' = llmJobs \cup {session[s].doc}
       \/ UNCHANGED llmJobs
    /\ Goto(s, "judge")
    /\ UNCHANGED <<documents, sources, knowledge, told>>

HasKnowledge(e) == \E f \in facts : f.entity = e

Verdict(upload, known) ==
    IF upload.critical /\ ~known /\ ~upload.ocr THEN "failed" ELSE "processed"

\* Bug variant: failures are not looked at.
JudgeLeniently(s) ==
    /\ session[s].pc = "judge"
    /\ session' = [session EXCEPT ![s].pc = "save", ![s].verdict = "processed"]
    /\ UNCHANGED <<documents, sources, knowledge, llmJobs, told>>

\* Bug variant: any critical failure fails the document.
JudgeStrictly(s) ==
    /\ session[s].pc = "judge"
    /\ session' = [session EXCEPT ![s].pc = "save",
                    ![s].verdict = IF session[s].critical THEN "failed" ELSE "processed"]
    /\ UNCHANGED <<documents, sources, knowledge, llmJobs, told>>

Judge(s) ==
    /\ session[s].pc = "judge"
    /\ session' = [session EXCEPT ![s].pc = "save",
                    ![s].verdict = Verdict(session[s], HasKnowledge(session[s].entity))]
    /\ UNCHANGED <<documents, sources, knowledge, llmJobs, told>>

\* Bug variant: a failed pipeline leaves the row as it is.
SaveProcessedOnly(s) ==
    /\ session[s].pc = "save"
    /\ IF session[s].verdict = "processed" THEN SaveDocument(s, "processed")
       ELSE UNCHANGED documents
    /\ session' = [session EXCEPT ![s] = Idle]
    /\ UNCHANGED <<sources, knowledge, llmJobs, told>>

SaveVerdict(s) ==
    /\ session[s].pc = "save"
    /\ SaveDocument(s, session[s].verdict)
    /\ told' = [told EXCEPT ![s] =
                    IF session[s].verdict = "processed" THEN session[s].file ELSE None]
    /\ session' = [session EXCEPT ![s] = Idle]
    /\ UNCHANGED <<sources, knowledge, llmJobs>>

-----------------------------------------------------------------------------
(* Faults *)

\* a statement raises: what upload_document or the stage makes of the exception
StorageError(s) ==
    /\ "storage" \in Faults
    /\ CASE session[s].pc \in {"insert", "start", "save", "fail"} -> SaveRaised(s)
         [] session[s].pc = "source"                              -> Critical(s, "judge")
         [] session[s].pc \in {"dedup", "persist", "accept"}      -> Critical(s, "submit")
         [] session[s].pc = "submit"                              -> Goto(s, "judge")
         [] session[s].pc = "judge" ->
                session' = [session EXCEPT ![s].pc = "save",
                                           ![s].verdict = Verdict(session[s], FALSE)]
         [] OTHER                                                 -> FALSE
    /\ UNCHANGED <<documents, sources, knowledge, llmJobs, told>>

Crash ==
    /\ "crash" \in Faults
    /\ session' = [s \in Sessions |-> Idle]
    /\ told' = [s \in Sessions |-> None]
    /\ UNCHANGED <<documents, sources, knowledge, llmJobs>>

-----------------------------------------------------------------------------
Request(s) ==
    \E e \in Entities, h \in Files :
        AlreadyExists(s, e, h) \/ \E d \in Documents : Begin(s, e, h, d)

Stages(s) ==
    \/ PersistSource(s)
    \/ SourceRefused(s)
    \/ Ocr(s)
    \/ Extract(s)
    \/ Resolve(s)
    \/ Build(s)
    \/ Deduplicate(s)
    \/ \E f \in Fact : PersistFact(s, f) \/ LinkEvidence(s, f)
    \/ Persisted(s)
    \/ Acceptance(s)

\* upload_document once it has begun
Proceed(s) ==
    \/ SavePending(s)
    \/ SaveProcessing(s)
    \/ SavePinned(s)
    \/ SaveFailed(s)
    \/ Stages(s)
    \/ SubmitLlm(s)
    \/ Judge(s)
    \/ SaveVerdict(s)

Next ==
    \/ \E s \in Sessions : Request(s) \/ Proceed(s) \/ StorageError(s)
    \/ Crash

Spec == Init /\ [][Next]_vars

\* an upload that has begun runs to its end
FairSpec == Spec /\ \A s \in Sessions : WF_vars(Proceed(s))

-----------------------------------------------------------------------------
(* Properties *)

\* A document is shown as processed only if something came of it, a source that was read
\* or knowledge of its entity: whatever stage failed, whoever took the row over in between.
ProcessedIsBacked ==
    \A h \in Files : documents[h].status = "processed" =>
        documents[h].doc \in sources \/ HasKnowledge(documents[h].entity)

\* The background LLM job works on a document that keeps its row and never turns out as
\* failed: no other upload of the file may take the row over while the job is queued.
QueuedDocumentKept ==
    \A d \in llmJobs : \E h \in Files :
        documents[h].doc = d /\ documents[h].status \in {"processing", "processed"}

\* The row of a settled document changes only by becoming another upload's row, and only
\* if no source was kept of it: a settled document with a source is there to stay.
SettledDocumentsStay ==
    [][\A h \in Files :
        documents[h].status \in Settled /\ documents'[h] # documents[h] =>
            /\ documents[h].doc \notin sources
            /\ documents'[h].doc # documents[h].doc]_vars

\* Without faults no row stays pending or processing: an upload that loses its row to
\* another one of the same file leaves it to somebody who settles it.
UploadsSettle ==
    \A h \in Files :
        documents[h].status \in {"pending", "processing"} ~> documents[h].status \in Settled

\* Without faults every stored fact reaches the review queue: its evidence is linked
\* before the acceptance stage looks for evidence.
FactsReachReview ==
    \A f \in Fact : f \in facts ~> f \in reviewed

\* ui/pages/documents.py: "Document uploaded and processed", whenever upload_document
\* reports success.
SuccessMeansProcessed ==
    [][\A s \in Sessions :
        told'[s] # told[s] /\ told'[s] # None => documents'[told'[s]].status = "processed"
      ]_vars

\* The tables, read as the archive of module DocumentArchive.
Archive == INSTANCE DocumentArchive WITH
    row <- documents,
    kept <- sources,
    known <- {e \in Entities : HasKnowledge(e)},
    queued <- llmJobs

\* Uploads that overtake each other, stages that fail, crashes and storage errors included, every
\* document goes through the life cycle of archive/document.py: a row changes hands only while
\* nothing was kept of its document, no status is skipped or taken back, knowledge comes only from
\* kept documents in processing, and what the LLM will read never turns out as failed.
ImplementsArchive == Archive!Spec

-----------------------------------------------------------------------------
(* The inductive invariant behind ProcessedIsBacked and QueuedDocumentKept  *)

\* an id belongs to one upload, and a row with that id is the row of its file
IdentityInv ==
    /\ \A s, t \in Sessions :
        session[s].doc # None /\ session[s].doc = session[t].doc => s = t
    /\ \A g, h \in Files :
        documents[g].doc # None /\ documents[g].doc = documents[h].doc => g = h
    /\ \A s \in Sessions, h \in Files :
        session[s].doc # None /\ documents[h].doc = session[s].doc =>
            h = session[s].file /\ documents[h].entity = session[s].entity

\* between the source and the verdict
AtStages == {"ocr", "extract", "resolve", "build", "dedup", "persist", "accept", "submit"}

\* an upload has begun, with a document, or is over
UploadInv ==
    \A s \in Sessions :
        IF session[s].pc = "idle" THEN session[s] = Idle
        ELSE session[s].doc # None /\ session[s].file # None /\ session[s].entity # None

\* the foreign key: the row of a document with a source is pinned
SourceInv == \A d \in sources : \E h \in Files : documents[h].doc = d

RowIs(d, statuses) == \A h \in Files : documents[h].doc = d => documents[h].status \in statuses

\* what the pc says of the source and of the row, if the upload u still has it
Progress(u) ==
    /\ u.pc \in {"insert", "start", "source", "fail"} => u.doc \notin sources
    /\ u.pc \in AtStages \/ u.ocr => u.doc \in sources
    /\ u.pc = "insert" => RowIs(u.doc, {})
    /\ u.pc \in {"start", "fail"} => RowIs(u.doc, {"pending"})
    /\ u.pc \in AtStages \cup {"source", "judge", "save"} => RowIs(u.doc, {"processing"})

ProgressInv == \A s \in Sessions : Progress(session[s])

\* what the verdict rests on: without a critical failure there is an OCR artifact
Founded(u) ==
    /\ u.pc \in AtStages \ {"ocr"} => u.ocr
    /\ u.pc \in {"judge", "save"} => u.critical \/ u.ocr
    /\ u.pc = "save" /\ u.ocr => u.verdict = "processed"
    /\ u.pc = "save" /\ u.verdict = "processed" => u.ocr \/ HasKnowledge(u.entity)
    /\ u.pc = "save" => u.verdict # "open"

VerdictInv == \A s \in Sessions : Founded(session[s])

\* nobody but the upload that submitted the job will save the document again
Submitted(u) == u.doc \in llmJobs => u.pc \in {"judge", "save"} /\ u.ocr

QueueInv ==
    /\ llmJobs \subseteq sources
    /\ \A s \in Sessions : Submitted(session[s])

DocumentInv ==
    /\ TypeOK
    /\ IdentityInv
    /\ UploadInv
    /\ SourceInv
    /\ ProgressInv
    /\ VerdictInv
    /\ QueueInv
    /\ ProcessedIsBacked
    /\ QueuedDocumentKept

=============================================================================
