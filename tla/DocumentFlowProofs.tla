------------------------- MODULE DocumentFlowProofs -------------------------
(***************************************************************************)
(* Proofs about DocumentFlow: type correctness, that a processed document  *)
(* is backed by a source or by knowledge, that a document queued for the   *)
(* LLM keeps its row, that a settled document with a source stays as it    *)
(* is, and that the tables implement DocumentArchive, for any number of    *)
(* uploads, files and sessions, with crashes and storage errors at every   *)
(* statement.                                                              *)
(***************************************************************************)
EXTENDS DocumentFlow, TLAPS

-----------------------------------------------------------------------------
LEMMA NullRow ==
    /\ NoRow.status = "absent" /\ NoRow.doc = None
    /\ NoRow \notin DocumentRow
    /\ None \notin Documents /\ None \notin Files /\ None \notin Entities
  BY NoneAssumption DEF NoRow, DocumentRow, DocumentStatus

LEMMA IdleUpload ==
    /\ Idle \in Upload
    /\ Idle.pc = "idle" /\ Idle.doc = None /\ Idle.ocr = FALSE
  BY DEF Idle, Upload, UploadPc

LEMMA InitDocument == Init => DocumentInv
  <1> SUFFICES ASSUME Init PROVE DocumentInv
    OBVIOUS
  <1> USE NullRow, IdleUpload DEF Init
  <1>1. TypeOK
    BY DEF TypeOK
  <1>2. IdentityInv /\ UploadInv /\ SourceInv
    BY DEF IdentityInv, UploadInv, SourceInv
  <1>3. ProgressInv /\ VerdictInv /\ QueueInv
    BY DEF ProgressInv, Progress, VerdictInv, Founded, QueueInv, Submitted, AtStages
  <1>4. ProcessedIsBacked /\ QueuedDocumentKept
    BY DEF ProcessedIsBacked, QueuedDocumentKept
  <1> QED
    BY <1>1, <1>2, <1>3, <1>4 DEF DocumentInv

-----------------------------------------------------------------------------
(* Steps that leave documents, sources and jobs alone *)

\* A step of session s that at most adds to the knowledge preserves the invariant when the
\* new record of s satisfies what the invariant says of a session.
LEMMA SessionStep ==
    ASSUME DocumentInv,
           NEW s \in Sessions, NEW r \in Upload,
           session' = [session EXCEPT ![s] = r],
           UNCHANGED <<documents, sources, llmJobs>>,
           facts \subseteq facts', facts' \subseteq Fact,
           evidenced' \subseteq facts', reviewed' \subseteq facts',
           told' \in [Sessions -> Files \cup {None}],
           IF r.pc = "idle" THEN r = Idle
           ELSE r.doc # None /\ r.file # None /\ r.entity # None,
           r.doc # None =>
               /\ \A t \in Sessions \ {s} : session[t].doc # r.doc
               /\ \A h \in Files : documents[h].doc = r.doc =>
                    h = r.file /\ documents[h].entity = r.entity,
           Progress(r), Founded(r), Submitted(r)
    PROVE  DocumentInv'
  <1> USE DEF DocumentInv
  <1>0. \A q \in Sessions : session'[q] = IF q = s THEN r ELSE session[q]
    BY DEF TypeOK
  <1>1. TypeOK'
    <2>1. session' \in [Sessions -> Upload]
      BY DEF TypeOK
    <2> QED
      BY <2>1 DEF TypeOK
  <1>2. IdentityInv'
    BY <1>0 DEF IdentityInv
  <1>3. UploadInv' /\ SourceInv'
    BY <1>0 DEF UploadInv, SourceInv
  <1>4. ProgressInv'
    BY <1>0 DEF ProgressInv, Progress, RowIs
  <1>5. \A e : HasKnowledge(e) => HasKnowledge(e)'
    BY DEF HasKnowledge
  <1>6. VerdictInv'
    BY <1>0, <1>5 DEF VerdictInv, Founded, HasKnowledge
  <1>7. QueueInv'
    BY <1>0 DEF QueueInv, Submitted
  <1>8. ProcessedIsBacked' /\ QueuedDocumentKept'
    BY <1>5 DEF ProcessedIsBacked, QueuedDocumentKept, HasKnowledge
  <1> QED
    BY <1>1, <1>2, <1>3, <1>4, <1>6, <1>7, <1>8

\* An upload that goes on keeps its document, file and entity.
LEMMA ProceedStep ==
    ASSUME DocumentInv,
           NEW s \in Sessions, NEW r \in Upload,
           session[s].pc # "idle", r.pc # "idle",
           r.doc = session[s].doc, r.file = session[s].file, r.entity = session[s].entity,
           session' = [session EXCEPT ![s] = r],
           UNCHANGED <<documents, sources, llmJobs, told>>,
           facts \subseteq facts', facts' \subseteq Fact,
           evidenced' \subseteq facts', reviewed' \subseteq facts',
           Progress(r), Founded(r), Submitted(r)
    PROVE  DocumentInv'
  <1>1. r.doc # None /\ r.file # None /\ r.entity # None
    BY DEF DocumentInv, UploadInv
  <1>2. \A t \in Sessions \ {s} : session[t].doc # r.doc
    BY <1>1 DEF DocumentInv, IdentityInv
  <1>3. \A h \in Files : documents[h].doc = r.doc =>
            h = r.file /\ documents[h].entity = r.entity
    BY <1>1 DEF DocumentInv, IdentityInv
  <1>4. told' \in [Sessions -> Files \cup {None}]
    BY DEF DocumentInv, TypeOK
  <1> QED
    BY <1>1, <1>2, <1>3, <1>4, SessionStep

\* An upload that is over forgets everything.
LEMMA IdleStep ==
    ASSUME DocumentInv, NEW s \in Sessions,
           session' = [session EXCEPT ![s] = Idle],
           UNCHANGED <<documents, sources, knowledge, llmJobs, told>>
    PROVE  DocumentInv'
  <1>1. None \notin sources /\ None \notin llmJobs
    BY NullRow DEF DocumentInv, TypeOK
  <1>2. Progress(Idle) /\ Founded(Idle) /\ Submitted(Idle)
    BY <1>1, IdleUpload DEF Progress, Founded, Submitted, AtStages
  <1>3. /\ facts' \subseteq Fact /\ evidenced' \subseteq facts' /\ reviewed' \subseteq facts'
        /\ facts \subseteq facts' /\ told' \in [Sessions -> Files \cup {None}]
    BY DEF DocumentInv, TypeOK, knowledge
  <1> QED
    BY <1>2, <1>3, IdleUpload, SessionStep

LEMMA RequestSteps ==
    ASSUME DocumentInv, NEW s \in Sessions, Request(s)
    PROVE  DocumentInv'
  <1>1. PICK e \in Entities, h \in Files :
            AlreadyExists(s, e, h) \/ \E d \in Documents : Begin(s, e, h, d)
    BY DEF Request
  <1>2. CASE AlreadyExists(s, e, h)
    <2>1. TypeOK'
      BY <1>2 DEF AlreadyExists, DocumentInv, TypeOK, knowledge
    <2> QED
      BY <1>2, <2>1 DEF AlreadyExists, knowledge, DocumentInv, IdentityInv, UploadInv, SourceInv,
          ProgressInv, Progress, RowIs, VerdictInv, Founded, QueueInv, Submitted,
          ProcessedIsBacked, QueuedDocumentKept, HasKnowledge
  <1>3. ASSUME NEW d \in Documents, Begin(s, e, h, d)
        PROVE  DocumentInv'
    <2> DEFINE r == [Idle EXCEPT !.pc = "insert", !.doc = d, !.file = h, !.entity = e]
    <2>1. /\ r \in Upload /\ r.pc = "insert" /\ r.ocr = FALSE
          /\ r.doc = d /\ r.file = h /\ r.entity = e
      BY DEF Idle, Upload, UploadPc
    <2>2. session' = [session EXCEPT ![s] = r]
      BY <1>3 DEF Begin
    <2>3. /\ d # None /\ h # None /\ e # None
          /\ d \notin sources /\ d \notin llmJobs
          /\ \A t \in Sessions : session[t].doc # d
          /\ \A g \in Files : documents[g].doc # d
      BY <1>3, NullRow DEF Begin, Fresh, DocumentInv, QueueInv
    <2>4. told' \in [Sessions -> Files \cup {None}]
      BY <1>3 DEF Begin, DocumentInv, TypeOK
    <2>5. /\ UNCHANGED <<documents, sources, llmJobs>>
          /\ facts' \subseteq Fact /\ evidenced' \subseteq facts' /\ reviewed' \subseteq facts'
          /\ facts \subseteq facts'
      BY <1>3 DEF Begin, knowledge, DocumentInv, TypeOK
    <2> HIDE DEF r
    <2>6. Progress(r) /\ Founded(r) /\ Submitted(r)
      BY <2>1, <2>3 DEF Progress, Founded, Submitted, AtStages, RowIs
    <2> QED
      BY <2>1, <2>2, <2>3, <2>4, <2>5, <2>6, SessionStep
  <1> QED
    BY <1>1, <1>2, <1>3


-----------------------------------------------------------------------------
(* The stages *)

\* The conditions every stage behind the source keeps: it has its source, and either the
\* OCR artifact or a critical failure.
LEMMA StageStep ==
    ASSUME DocumentInv,
           NEW s \in Sessions, NEW r \in Upload,
           session[s].pc \in AtStages,
           r.doc = session[s].doc, r.file = session[s].file, r.entity = session[s].entity,
           session' = [session EXCEPT ![s] = r],
           UNCHANGED <<documents, sources, llmJobs, told>>,
           facts \subseteq facts', facts' \subseteq Fact,
           evidenced' \subseteq facts', reviewed' \subseteq facts',
           \/ r.pc \in AtStages /\ r.ocr
           \/ r.pc = "judge" /\ (r.critical \/ r.ocr)
    PROVE  DocumentInv'
  <1>1. /\ Progress(session[s]) /\ Submitted(session[s])
    BY DEF DocumentInv, ProgressInv, QueueInv
  <1>2. Progress(r)
    BY <1>1 DEF Progress, AtStages
  <1>3. Founded(r) /\ Submitted(r)
    BY <1>1 DEF Founded, Submitted, AtStages
  <1>4. session[s].pc # "idle" /\ r.pc # "idle"
    BY DEF AtStages
  <1> QED
    BY <1>2, <1>3, <1>4, ProceedStep

LEMMA OcrStep ==
    ASSUME DocumentInv, NEW s \in Sessions, Ocr(s)
    PROVE  DocumentInv'
  <1>1. /\ session[s] \in Upload /\ facts \subseteq Fact /\ evidenced \subseteq facts
        /\ reviewed \subseteq facts
    BY DEF DocumentInv, TypeOK
  <1>2. CASE session' = [session EXCEPT ![s].pc = "extract", ![s].ocr = TRUE]
    <2> DEFINE r == [session[s] EXCEPT !.pc = "extract", !.ocr = TRUE]
    <2>1. /\ r \in Upload /\ r.pc = "extract" /\ r.ocr
          /\ r.doc = session[s].doc /\ r.file = session[s].file /\ r.entity = session[s].entity
      BY <1>1 DEF Upload, UploadPc
    <2>2. session' = [session EXCEPT ![s] = r]
      BY <1>2
    <2> HIDE DEF r
    <2> QED
      BY <1>1, <2>1, <2>2, StageStep DEF Ocr, AtStages, knowledge
  <1>3. CASE Critical(s, "judge")
    <2> DEFINE r == [session[s] EXCEPT !.pc = "judge", !.critical = TRUE]
    <2>1. /\ r \in Upload /\ r.pc = "judge" /\ r.critical
          /\ r.doc = session[s].doc /\ r.file = session[s].file /\ r.entity = session[s].entity
      BY <1>1 DEF Upload, UploadPc
    <2>2. session' = [session EXCEPT ![s] = r]
      BY <1>3 DEF Critical
    <2> HIDE DEF r
    <2> QED
      BY <1>1, <2>1, <2>2, StageStep DEF Ocr, AtStages, knowledge
  <1> QED
    BY <1>2, <1>3 DEF Ocr

\* A stage behind OCR moves on, with a batch of its own, without knowledge being lost.
LEMMA MoveOn ==
    ASSUME DocumentInv, NEW s \in Sessions,
           session[s].pc \in AtStages \ {"ocr"},
           NEW pc \in AtStages \cup {"judge"},
           \/ Goto(s, pc)
           \/ Critical(s, pc)
           \/ \E keys \in SUBSET Keys :
                session' = [session EXCEPT ![s].pc = pc, ![s].batch = keys],
           UNCHANGED <<documents, sources, llmJobs, told>>,
           facts \subseteq facts', facts' \subseteq Fact,
           evidenced' \subseteq facts', reviewed' \subseteq facts'
    PROVE  DocumentInv'
  <1>1. session[s] \in Upload /\ session[s].ocr
    BY DEF DocumentInv, TypeOK, VerdictInv, Founded
  <1>2. ASSUME NEW r \in Upload, r.pc = pc, r.ocr,
               r.doc = session[s].doc, r.file = session[s].file, r.entity = session[s].entity,
               session' = [session EXCEPT ![s] = r]
        PROVE  DocumentInv'
    BY <1>1, <1>2, StageStep
  <1>3. CASE Goto(s, pc)
    <2> DEFINE r == [session[s] EXCEPT !.pc = pc]
    <2>1. /\ r \in Upload /\ r.pc = pc /\ r.ocr
          /\ r.doc = session[s].doc /\ r.file = session[s].file /\ r.entity = session[s].entity
      BY <1>1 DEF Upload, UploadPc, AtStages
    <2>2. session' = [session EXCEPT ![s] = r]
      BY <1>3 DEF Goto
    <2> HIDE DEF r
    <2> QED
      BY <1>2, <2>1, <2>2
  <1>4. CASE Critical(s, pc)
    <2> DEFINE r == [session[s] EXCEPT !.pc = pc, !.critical = TRUE]
    <2>1. /\ r \in Upload /\ r.pc = pc /\ r.ocr
          /\ r.doc = session[s].doc /\ r.file = session[s].file /\ r.entity = session[s].entity
      BY <1>1 DEF Upload, UploadPc, AtStages
    <2>2. session' = [session EXCEPT ![s] = r]
      BY <1>4 DEF Critical
    <2> HIDE DEF r
    <2> QED
      BY <1>2, <2>1, <2>2
  <1>5. ASSUME NEW keys \in SUBSET Keys,
               session' = [session EXCEPT ![s].pc = pc, ![s].batch = keys]
        PROVE  DocumentInv'
    <2> DEFINE r == [session[s] EXCEPT !.pc = pc, !.batch = keys]
    <2>1. /\ r \in Upload /\ r.pc = pc /\ r.ocr
          /\ r.doc = session[s].doc /\ r.file = session[s].file /\ r.entity = session[s].entity
      BY <1>1 DEF Upload, UploadPc, AtStages
    <2>2. session' = [session EXCEPT ![s] = r]
      BY <1>5
    <2> HIDE DEF r
    <2> QED
      BY <1>2, <2>1, <2>2
  <1> QED
    BY <1>3, <1>4, <1>5

LEMMA ReadingSteps ==
    ASSUME DocumentInv, NEW s \in Sessions,
           Extract(s) \/ Resolve(s) \/ Build(s) \/ Deduplicate(s) \/ Persisted(s)
    PROVE  DocumentInv'
  <1>1. /\ session[s].batch \subseteq Keys
        /\ facts \subseteq Fact /\ evidenced \subseteq facts /\ reviewed \subseteq facts
    BY DEF DocumentInv, TypeOK, Upload
  <1>2. CASE Extract(s)
    BY <1>1, <1>2, MoveOn DEF Extract, AtStages, knowledge
  <1>3. CASE Resolve(s)
    BY <1>1, <1>3, MoveOn DEF Resolve, AtStages, knowledge
  <1>4. CASE Build(s)
    BY <1>1, <1>4, MoveOn DEF Build, AtStages, knowledge
  <1>5. CASE Deduplicate(s)
    <2>1. session' = [session EXCEPT ![s].pc = "persist",
                        ![s].batch = session[s].batch \ KnownKeys(session[s].entity)]
      BY <1>5 DEF Deduplicate
    <2>2. session[s].batch \ KnownKeys(session[s].entity) \in SUBSET Keys
      BY <1>1
    <2>3. /\ session[s].pc \in AtStages \ {"ocr"} /\ "persist" \in AtStages
          /\ UNCHANGED <<documents, sources, llmJobs, told, facts, evidenced, reviewed>>
      BY <1>5 DEF Deduplicate, AtStages, knowledge
    <2> QED
      BY <1>1, <2>1, <2>2, <2>3, MoveOn
  <1>6. CASE Persisted(s)
    BY <1>1, <1>6, MoveOn DEF Persisted, AtStages, knowledge
  <1> QED
    BY <1>2, <1>3, <1>4, <1>5, <1>6

\* Writing knowledge: facts, links and cases are only ever added.
LEMMA KnowledgeSteps ==
    ASSUME DocumentInv, NEW s \in Sessions,
           \/ \E f \in Fact : PersistFact(s, f) \/ LinkEvidence(s, f)
           \/ Acceptance(s)
    PROVE  DocumentInv'
  <1>1. /\ session \in [Sessions -> Upload] /\ session[s] \in Upload
        /\ facts \subseteq Fact /\ evidenced \subseteq facts /\ reviewed \subseteq facts
    BY DEF DocumentInv, TypeOK
  <1>2. session = [session EXCEPT ![s] = session[s]]
    BY <1>1
  <1>3. session[s].pc \in AtStages \ {"ocr"} => session[s].ocr
    BY DEF DocumentInv, VerdictInv, Founded
  <1>4. ASSUME NEW f \in Fact, PersistFact(s, f)
        PROVE  DocumentInv'
    <2>1. /\ session' = [session EXCEPT ![s] = session[s]]
          /\ session[s].pc \in AtStages /\ session[s].ocr
          /\ facts \subseteq facts' /\ facts' \subseteq Fact
          /\ evidenced' \subseteq facts' /\ reviewed' \subseteq facts'
          /\ UNCHANGED <<documents, sources, llmJobs, told>>
      BY <1>1, <1>2, <1>3, <1>4 DEF PersistFact, AtStages
    <2> QED
      BY <1>1, <2>1, StageStep
  <1>5. ASSUME NEW f \in Fact, LinkEvidence(s, f)
        PROVE  DocumentInv'
    <2>1. /\ session' = [session EXCEPT ![s] = session[s]]
          /\ session[s].pc \in AtStages /\ session[s].ocr
          /\ facts \subseteq facts' /\ facts' \subseteq Fact
          /\ evidenced' \subseteq facts' /\ reviewed' \subseteq facts'
          /\ UNCHANGED <<documents, sources, llmJobs, told>>
      BY <1>1, <1>2, <1>3, <1>5 DEF LinkEvidence, AtStages
    <2> QED
      BY <1>1, <2>1, StageStep
  <1>6. CASE Acceptance(s)
    <2>1. /\ session[s].pc \in AtStages \ {"ocr"} /\ "submit" \in AtStages
          /\ Goto(s, "submit")
          /\ facts \subseteq facts' /\ facts' \subseteq Fact
          /\ evidenced' \subseteq facts' /\ reviewed' \subseteq facts'
          /\ UNCHANGED <<documents, sources, llmJobs, told>>
      BY <1>1, <1>6 DEF Acceptance, AtStages
    <2> QED
      BY <2>1, MoveOn
  <1> QED
    BY <1>4, <1>5, <1>6

-----------------------------------------------------------------------------
(* The source and the LLM job *)

LEMMA PersistSourceStep ==
    ASSUME DocumentInv, NEW s \in Sessions, PersistSource(s)
    PROVE  DocumentInv'
  <1> DEFINE d == session[s].doc
  <1> USE DEF DocumentInv
  <1>1. /\ session[s] \in Upload /\ session[s].pc = "source" /\ session[s].file \in Files
        /\ d \in Documents /\ d # None /\ documents[session[s].file].doc = d
        /\ sources' = sources \cup {d} /\ Progress(session[s])
        /\ UNCHANGED <<documents, facts, evidenced, reviewed, llmJobs, told>>
    BY NullRow DEF PersistSource, TypeOK, UploadInv, ProgressInv, Upload, knowledge
  <1>2. \A q \in Sessions :
            /\ session'[q].pc = IF q = s THEN "ocr" ELSE session[q].pc
            /\ session'[q].doc = session[q].doc /\ session'[q].file = session[q].file
            /\ session'[q].entity = session[q].entity /\ session'[q].ocr = session[q].ocr
            /\ session'[q].critical = session[q].critical
            /\ session'[q].verdict = session[q].verdict
            /\ q # s => session'[q] = session[q]
    BY DEF PersistSource, Goto, TypeOK, Upload
  <1>3. TypeOK'
    <2>1. session' \in [Sessions -> Upload]
      BY DEF PersistSource, Goto, TypeOK, Upload, UploadPc
    <2> QED
      BY <1>1, <2>1 DEF TypeOK
  <1>4. IdentityInv' /\ UploadInv' /\ SourceInv'
    BY <1>1, <1>2 DEF IdentityInv, UploadInv, SourceInv
  <1>5. ProgressInv'
    <2>1. Progress(session[s])'
      BY <1>1, <1>2 DEF Progress, AtStages, RowIs
    <2>2. ASSUME NEW q \in Sessions \ {s}
          PROVE  Progress(session[q])'
      <3>1. session[q].doc # d
        BY <1>1 DEF IdentityInv
      <3> QED
        BY <1>1, <1>2, <3>1 DEF ProgressInv, Progress, RowIs
    <2> QED
      BY <2>1, <2>2 DEF ProgressInv
  <1>6. VerdictInv' /\ QueueInv'
    BY <1>1, <1>2 DEF VerdictInv, Founded, HasKnowledge, AtStages, QueueInv, Submitted
  <1>7. ProcessedIsBacked' /\ QueuedDocumentKept'
    BY <1>1 DEF ProcessedIsBacked, QueuedDocumentKept, HasKnowledge
  <1> QED
    BY <1>3, <1>4, <1>5, <1>6, <1>7

\* The source is there, so the foreign key holds the row from here on.
LEMMA SubmitStep ==
    ASSUME DocumentInv, NEW s \in Sessions, SubmitLlm(s)
    PROVE  DocumentInv'
  <1> DEFINE d == session[s].doc
  <1> USE DEF DocumentInv
  <1>1. /\ session[s] \in Upload /\ session[s].pc = "submit" /\ session[s].ocr
        /\ d \in sources /\ d \in Documents /\ d # None
        /\ llmJobs \subseteq llmJobs' /\ llmJobs' \subseteq llmJobs \cup {d}
        /\ UNCHANGED <<documents, sources, facts, evidenced, reviewed, told>>
        /\ RowIs(d, {"processing"})
    BY NullRow DEF SubmitLlm, TypeOK, UploadInv, ProgressInv, Progress, VerdictInv, Founded,
        AtStages, knowledge
  <1>2. \A q \in Sessions :
            /\ session'[q].pc = IF q = s THEN "judge" ELSE session[q].pc
            /\ session'[q].doc = session[q].doc /\ session'[q].file = session[q].file
            /\ session'[q].entity = session[q].entity /\ session'[q].ocr = session[q].ocr
            /\ session'[q].critical = session[q].critical
            /\ session'[q].verdict = session[q].verdict
            /\ q # s => session'[q] = session[q]
    BY DEF SubmitLlm, Goto, TypeOK, Upload
  <1>3. TypeOK'
    <2>1. session' \in [Sessions -> Upload]
      BY DEF SubmitLlm, Goto, TypeOK, Upload, UploadPc
    <2> QED
      BY <1>1, <2>1 DEF TypeOK
  <1>4. IdentityInv' /\ UploadInv' /\ SourceInv'
    BY <1>1, <1>2 DEF IdentityInv, UploadInv, SourceInv
  <1>5. ProgressInv'
    BY <1>1, <1>2 DEF ProgressInv, Progress, AtStages, RowIs
  <1>6. VerdictInv'
    BY <1>1, <1>2 DEF VerdictInv, Founded, HasKnowledge, AtStages
  <1>7. QueueInv'
    BY <1>1, <1>2 DEF QueueInv, Submitted, IdentityInv
  <1>8. ProcessedIsBacked'
    BY <1>1 DEF ProcessedIsBacked, HasKnowledge
  <1>9. QueuedDocumentKept'
    <2>1. \E h \in Files : documents[h].doc = d /\ documents[h].status = "processing"
      BY <1>1 DEF SourceInv, RowIs
    <2> QED
      BY <1>1, <2>1 DEF QueuedDocumentKept
  <1> QED
    BY <1>3, <1>4, <1>5, <1>6, <1>7, <1>8, <1>9

\* The verdict: processed exactly when there is an OCR artifact, knowledge, or nothing
\* CRITICAL; what is taken for known is no more than what there is.
LEMMA JudgeStep ==
    ASSUME DocumentInv, NEW s \in Sessions, session[s].pc = "judge",
           NEW known \in BOOLEAN, known => HasKnowledge(session[s].entity),
           session' = [session EXCEPT ![s].pc = "save",
                                      ![s].verdict = Verdict(session[s], known)],
           UNCHANGED <<documents, sources, knowledge, llmJobs, told>>
    PROVE  DocumentInv'
  <1> DEFINE r == [session[s] EXCEPT !.pc = "save", !.verdict = Verdict(session[s], known)]
  <1>1. /\ session[s] \in Upload /\ Progress(session[s]) /\ Founded(session[s])
        /\ Submitted(session[s])
    BY DEF DocumentInv, TypeOK, ProgressInv, VerdictInv, QueueInv
  <1>2. Verdict(session[s], known) \in Settled
    BY DEF Verdict, Settled
  <1>3. /\ r \in Upload /\ r.pc = "save" /\ r.verdict = Verdict(session[s], known)
        /\ r.doc = session[s].doc /\ r.file = session[s].file /\ r.entity = session[s].entity
        /\ r.ocr = session[s].ocr /\ r.critical = session[s].critical
    BY <1>1, <1>2 DEF Upload, UploadPc
  <1>4. /\ session' = [session EXCEPT ![s] = r]
        /\ UNCHANGED <<documents, sources, llmJobs, told>>
        /\ facts \subseteq facts' /\ facts' \subseteq Fact
        /\ evidenced' \subseteq facts' /\ reviewed' \subseteq facts'
    BY DEF knowledge, DocumentInv, TypeOK
  <1> HIDE DEF r
  <1>5. Progress(r) /\ Submitted(r)
    BY <1>1, <1>3 DEF Progress, Submitted, AtStages
  <1>6. Founded(r)
    BY <1>1, <1>3 DEF Founded, AtStages, Verdict
  <1> QED
    BY <1>3, <1>4, <1>5, <1>6, ProceedStep

\* The foreign key refused the source: a critical failure, and on to the verdict.
LEMMA RefusedStep ==
    ASSUME DocumentInv, NEW s \in Sessions, session[s].pc = "source",
           Critical(s, "judge"),
           UNCHANGED <<documents, sources, knowledge, llmJobs, told>>
    PROVE  DocumentInv'
  <1> DEFINE r == [session[s] EXCEPT !.pc = "judge", !.critical = TRUE]
  <1>1. session[s] \in Upload /\ Progress(session[s]) /\ Submitted(session[s])
    BY DEF DocumentInv, TypeOK, ProgressInv, QueueInv
  <1>2. /\ r \in Upload /\ r.pc = "judge" /\ r.critical /\ r.ocr = session[s].ocr
        /\ r.doc = session[s].doc /\ r.file = session[s].file /\ r.entity = session[s].entity
    BY <1>1 DEF Upload, UploadPc
  <1>3. /\ session' = [session EXCEPT ![s] = r]
        /\ UNCHANGED <<documents, sources, llmJobs, told>>
        /\ facts \subseteq facts' /\ facts' \subseteq Fact
        /\ evidenced' \subseteq facts' /\ reviewed' \subseteq facts'
    BY DEF Critical, knowledge, DocumentInv, TypeOK
  <1> HIDE DEF r
  <1>4. Progress(r) /\ Founded(r) /\ Submitted(r)
    BY <1>1, <1>2 DEF Progress, Founded, Submitted, AtStages
  <1> QED
    BY <1>2, <1>3, <1>4, ProceedStep

-----------------------------------------------------------------------------
(* Saving the document *)

\* A save that raised leaves every row alone.
LEMMA RaisedStep ==
    ASSUME DocumentInv, NEW s \in Sessions,
           session[s].pc \in {"insert", "start", "save", "fail"}, SaveRaised(s),
           UNCHANGED <<documents, sources, knowledge, llmJobs, told>>
    PROVE  DocumentInv'
  <1>1. CASE session[s].pc \in {"insert", "start"}
    <2> DEFINE r == [session[s] EXCEPT !.pc = "fail"]
    <2>1. session[s] \in Upload /\ Progress(session[s]) /\ Submitted(session[s])
      BY DEF DocumentInv, TypeOK, ProgressInv, QueueInv
    <2>2. /\ r \in Upload /\ r.pc = "fail" /\ r.ocr = session[s].ocr
          /\ r.doc = session[s].doc /\ r.file = session[s].file
          /\ r.entity = session[s].entity
      BY <2>1 DEF Upload, UploadPc
    <2>3. /\ session' = [session EXCEPT ![s] = r]
          /\ UNCHANGED <<documents, sources, llmJobs, told>>
          /\ facts \subseteq facts' /\ facts' \subseteq Fact
          /\ evidenced' \subseteq facts' /\ reviewed' \subseteq facts'
      BY <1>1 DEF SaveRaised, knowledge, DocumentInv, TypeOK
    <2> HIDE DEF r
    <2>4. Progress(r) /\ Founded(r) /\ Submitted(r)
      BY <1>1, <2>1, <2>2 DEF Progress, Founded, Submitted, AtStages, RowIs
    <2> QED
      BY <1>1, <2>2, <2>3, <2>4, ProceedStep
  <1>2. CASE session[s].pc \notin {"insert", "start"}
    BY <1>2, IdleStep DEF SaveRaised
  <1> QED
    BY <1>1, <1>2

\* A save moves the row of the file to the upload, unless the row is pinned to another
\* document.  The conditions are on the status saved and on what becomes of the session.
LEMMA SaveStep ==
    ASSUME DocumentInv, NEW s \in Sessions, session[s].pc # "idle",
           NEW status \in DocumentStatus, SaveDocument(s, status),
           NEW r \in Upload, session' = [session EXCEPT ![s] = r],
           UNCHANGED <<sources, knowledge, llmJobs>>,
           told' \in [Sessions -> Files \cup {None}],
           \/ r = Idle
           \/ /\ session[s].pc \in {"insert", "start"}
              /\ r.pc = IF status = "pending" THEN "start" ELSE "source"
              /\ r.pc = "source" => status = "processing"
              /\ r.doc = session[s].doc /\ r.file = session[s].file
              /\ r.entity = session[s].entity /\ r.ocr = session[s].ocr,
           status = "processed" =>
                session[s].doc \in sources \/ HasKnowledge(session[s].entity),
           session[s].doc \in llmJobs => status = "processed"
    PROVE  DocumentInv'
  <1> DEFINE d == session[s].doc
             f == session[s].file
             row == [doc |-> d, entity |-> session[s].entity, status |-> status]
  <1> USE DEF DocumentInv
  <1>1. /\ session[s] \in Upload /\ d \in Documents /\ f \in Files
        /\ session[s].entity \in Entities /\ d # None
        /\ Progress(session[s]) /\ Submitted(session[s])
    BY NullRow DEF TypeOK, Upload, UploadInv, ProgressInv, QueueInv
  <1>2. \A h \in Files : documents'[h] = IF h = f THEN row ELSE documents[h]
    BY <1>1 DEF SaveDocument, TypeOK
  <1>3. documents[f].doc = d \/ documents[f].doc \notin sources
    BY DEF SaveDocument, Pinned
  <1>4. row.doc = d /\ row.entity = session[s].entity /\ row.status = status
    OBVIOUS
  <1>5. \A q \in Sessions : session'[q] = IF q = s THEN r ELSE session[q]
    BY DEF TypeOK
  <1>6. UNCHANGED <<facts, evidenced, reviewed, sources, llmJobs>>
    BY DEF knowledge
  <1>7. None \notin sources /\ None \notin llmJobs
    BY NullRow DEF TypeOK
  <1>8. TypeOK'
    <2>1. row \in DocumentRow
      BY <1>1 DEF DocumentRow
    <2>2. documents' \in [Files -> DocumentRow \cup {NoRow}]
      BY <2>1 DEF SaveDocument, TypeOK
    <2>3. session' \in [Sessions -> Upload]
      BY DEF TypeOK
    <2> QED
      BY <1>6, <2>2, <2>3 DEF TypeOK
  <1> HIDE DEF row
  <1>9. r.doc # None => r.doc = d /\ r.file = f /\ r.entity = session[s].entity
    BY IdleUpload
  <1>10. \A h \in Files \ {f} : documents[h].doc # d
    BY <1>1 DEF IdentityInv
  <1>11. IdentityInv'
    <2>1. \A p, q \in Sessions :
            session'[p].doc # None /\ session'[p].doc = session'[q].doc => p = q
      BY <1>1, <1>5, <1>9 DEF IdentityInv
    <2>2. \A g, h \in Files :
            documents'[g].doc # None /\ documents'[g].doc = documents'[h].doc => g = h
      BY <1>1, <1>2, <1>4, <1>10 DEF IdentityInv
    <2>3. ASSUME NEW q \in Sessions, NEW h \in Files,
                 session'[q].doc # None, documents'[h].doc = session'[q].doc
          PROVE  h = session'[q].file /\ documents'[h].entity = session'[q].entity
      <3>1. session'[q].doc = session[q].doc /\ session'[q].file = session[q].file
            /\ session'[q].entity = session[q].entity
        BY <1>5, <1>9, <2>3
      <3>2. CASE h = f
        BY <1>1, <1>2, <1>4, <2>3, <3>1, <3>2 DEF IdentityInv
      <3>3. CASE h # f
        BY <1>2, <2>3, <3>1, <3>3 DEF IdentityInv
      <3> QED
        BY <3>2, <3>3
    <2> QED
      BY <2>1, <2>2, <2>3 DEF IdentityInv
  <1>12. UploadInv'
    BY <1>1, <1>5, IdleUpload DEF UploadInv
  <1>13. SourceInv'
    BY <1>1, <1>2, <1>3, <1>4, <1>6 DEF SourceInv
  <1>14. ProgressInv'
    <2>1. Progress(session[s])'
      <3>1. CASE r = Idle
        BY <1>5, <1>7, <3>1, IdleUpload DEF Progress, AtStages
      <3>2. CASE r # Idle
        <4>1. \A h \in Files : documents'[h].doc = d => documents'[h].status = status
          BY <1>2, <1>4, <1>10
        <4> QED
          BY <1>1, <1>5, <1>6, <3>2, <4>1 DEF Progress, AtStages, RowIs
      <3> QED
        BY <3>1, <3>2
    <2>2. ASSUME NEW q \in Sessions \ {s}
          PROVE  Progress(session[q])'
      <3>1. session'[q] = session[q] /\ Progress(session[q])
        BY <1>5 DEF ProgressInv
      <3>2. CASE session[q].doc = None
        <4>1. session[q] = Idle
          BY <3>2 DEF UploadInv
        <4> QED
          BY <1>6, <1>7, <3>1, <4>1, IdleUpload DEF Progress, AtStages
      <3>3. CASE session[q].doc # None
        <4>1. session[q].doc # d
          BY <3>3 DEF IdentityInv
        <4>2. \A h \in Files :
                documents'[h].doc = session[q].doc => documents'[h] = documents[h]
          BY <1>2, <1>4, <4>1
        <4> QED
          BY <1>6, <3>1, <4>2 DEF Progress, RowIs
      <3> QED
        BY <3>2, <3>3
    <2> QED
      BY <2>1, <2>2 DEF ProgressInv
  <1>15. VerdictInv'
    BY <1>5, <1>6, IdleUpload DEF VerdictInv, Founded, HasKnowledge, AtStages
  <1>16. QueueInv'
    <2>1. Submitted(r)
      BY <1>1, <1>7, IdleUpload DEF Submitted
    <2> QED
      BY <1>5, <1>6, <2>1 DEF QueueInv, Submitted
  <1>17. ProcessedIsBacked'
    BY <1>1, <1>2, <1>4, <1>6 DEF ProcessedIsBacked, HasKnowledge
  <1>18. QueuedDocumentKept'
    <2> SUFFICES ASSUME NEW j \in llmJobs
                 PROVE  \E h \in Files : /\ documents'[h].doc = j
                                         /\ documents'[h].status \in {"processing", "processed"}
      BY <1>6 DEF QueuedDocumentKept
    <2>1. PICK h \in Files : documents[h].doc = j
                             /\ documents[h].status \in {"processing", "processed"}
      BY DEF QueuedDocumentKept
    <2>2. CASE h = f
      BY <1>2, <1>3, <1>4, <2>1, <2>2 DEF QueueInv
    <2>3. CASE h # f
      BY <1>2, <2>1, <2>3
    <2> QED
      BY <2>2, <2>3
  <1> QED
    BY <1>8, <1>11, <1>12, <1>13, <1>14, <1>15, <1>16, <1>17, <1>18

LEMMA SaveSteps ==
    ASSUME DocumentInv, NEW s \in Sessions,
           SavePending(s) \/ SaveProcessing(s) \/ SaveFailed(s) \/ SaveVerdict(s)
    PROVE  DocumentInv'
  <1>1. /\ session[s] \in Upload /\ Progress(session[s]) /\ Founded(session[s])
        /\ Submitted(session[s])
    BY DEF DocumentInv, TypeOK, ProgressInv, VerdictInv, QueueInv
  <1>2. ASSUME NEW pc \in {"start", "source"}, session[s].pc \in {"insert", "start"},
               SaveDocument(s, IF pc = "start" THEN "pending" ELSE "processing"), Goto(s, pc),
               UNCHANGED <<sources, knowledge, llmJobs, told>>
        PROVE  DocumentInv'
    <2> DEFINE r == [session[s] EXCEPT !.pc = pc]
               status == IF pc = "start" THEN "pending" ELSE "processing"
    <2>1. /\ r \in Upload /\ r.pc = pc /\ r.ocr = session[s].ocr
          /\ r.doc = session[s].doc /\ r.file = session[s].file
          /\ r.entity = session[s].entity
      BY <1>1 DEF Upload, UploadPc
    <2>2. /\ session' = [session EXCEPT ![s] = r]
          /\ told' \in [Sessions -> Files \cup {None}]
      BY <1>2 DEF Goto, DocumentInv, TypeOK
    <2>3. status \in DocumentStatus /\ status # "processed" /\ SaveDocument(s, status)
          /\ pc = (IF status = "pending" THEN "start" ELSE "source")
          /\ (pc = "source" => status = "processing")
      BY <1>2 DEF DocumentStatus
    <2>4. session[s].doc \notin llmJobs
      BY <1>1, <1>2 DEF Submitted
    <2> HIDE DEF r, status
    <2> QED
      BY <1>2, <2>1, <2>2, <2>3, <2>4, SaveStep
  <1>3. ASSUME NEW status \in Settled, session[s].pc \in {"fail", "save"},
               SaveDocument(s, status), session' = [session EXCEPT ![s] = Idle],
               UNCHANGED <<sources, knowledge, llmJobs>>,
               told' \in [Sessions -> Files \cup {None}],
               session[s].pc = "save" => status = session[s].verdict,
               session[s].pc = "fail" => status = "failed"
        PROVE  DocumentInv'
    <2>1. status = "processed" =>
                session[s].doc \in sources \/ HasKnowledge(session[s].entity)
      BY <1>1, <1>3 DEF Progress, Founded
    <2>2. session[s].doc \in llmJobs => status = "processed"
      BY <1>1, <1>3 DEF Submitted, Founded
    <2>3. status \in DocumentStatus
      BY DEF Settled, DocumentStatus
    <2> QED
      BY <1>3, <2>1, <2>2, <2>3, IdleUpload, SaveStep
  <1>4. CASE SavePending(s)
    BY <1>2, <1>4 DEF SavePending
  <1>5. CASE SaveProcessing(s)
    BY <1>2, <1>5 DEF SaveProcessing
  <1>6. CASE SaveFailed(s)
    <2>1. told' \in [Sessions -> Files \cup {None}]
      BY <1>6 DEF SaveFailed, DocumentInv, TypeOK
    <2> QED
      BY <1>3, <1>6, <2>1 DEF SaveFailed, Settled
  <1>7. CASE SaveVerdict(s)
    <2>1. session[s].verdict \in Settled
      BY <1>1, <1>7 DEF SaveVerdict, Founded, Upload
    <2>2. told' \in [Sessions -> Files \cup {None}]
      BY <1>1, <1>7 DEF SaveVerdict, DocumentInv, TypeOK, Upload
    <2> QED
      BY <1>3, <1>7, <2>1, <2>2 DEF SaveVerdict
  <1> QED
    BY <1>4, <1>5, <1>6, <1>7

-----------------------------------------------------------------------------
(* Faults *)

LEMMA StorageErrorStep ==
    ASSUME DocumentInv, NEW s \in Sessions, StorageError(s)
    PROVE  DocumentInv'
  <1>1. /\ UNCHANGED <<documents, sources, knowledge, llmJobs, told>>
        /\ facts \subseteq facts' /\ facts' \subseteq Fact
        /\ evidenced' \subseteq facts' /\ reviewed' \subseteq facts'
    BY DEF StorageError, knowledge, DocumentInv, TypeOK
  <1>2. CASE session[s].pc \in {"insert", "start", "save", "fail"}
    BY <1>1, <1>2, RaisedStep DEF StorageError
  <1>3. CASE session[s].pc = "source"
    BY <1>1, <1>3, RefusedStep DEF StorageError
  <1>4. CASE session[s].pc \in {"dedup", "persist", "accept"}
    BY <1>1, <1>4, MoveOn DEF StorageError, AtStages
  <1>5. CASE session[s].pc = "submit"
    BY <1>1, <1>5, MoveOn DEF StorageError, AtStages
  <1>6. CASE session[s].pc = "judge"
    BY <1>1, <1>6, JudgeStep DEF StorageError
  <1> QED
    BY <1>2, <1>3, <1>4, <1>5, <1>6 DEF StorageError

LEMMA CrashStep ==
    ASSUME DocumentInv, Crash
    PROVE  DocumentInv'
  <1> USE NullRow, IdleUpload DEF DocumentInv
  <1>1. /\ session' = [s \in Sessions |-> Idle] /\ told' = [s \in Sessions |-> None]
        /\ UNCHANGED <<documents, sources, facts, evidenced, reviewed, llmJobs>>
    BY DEF Crash, knowledge
  <1>2. TypeOK'
    BY <1>1 DEF TypeOK
  <1>3. None \notin sources /\ None \notin llmJobs
    BY DEF TypeOK
  <1>4. IdentityInv' /\ UploadInv' /\ SourceInv'
    BY <1>1 DEF IdentityInv, UploadInv, SourceInv
  <1>5. ProgressInv' /\ VerdictInv' /\ QueueInv'
    BY <1>1, <1>3 DEF ProgressInv, Progress, VerdictInv, Founded, QueueInv, Submitted, AtStages
  <1>6. ProcessedIsBacked' /\ QueuedDocumentKept'
    BY <1>1 DEF ProcessedIsBacked, QueuedDocumentKept, HasKnowledge
  <1> QED
    BY <1>2, <1>4, <1>5, <1>6

-----------------------------------------------------------------------------
(* The theorems *)

LEMMA StageSteps ==
    ASSUME DocumentInv, NEW s \in Sessions, Stages(s)
    PROVE  DocumentInv'
  <1>1. CASE SourceRefused(s)
    BY <1>1, RefusedStep DEF SourceRefused
  <1> QED
    BY <1>1, PersistSourceStep, OcrStep, ReadingSteps, KnowledgeSteps DEF Stages

LEMMA NextDocument ==
    ASSUME DocumentInv, [Next]_vars
    PROVE  DocumentInv'
  <1>1. CASE UNCHANGED vars
    BY <1>1 DEF vars, DocumentInv, TypeOK, IdentityInv, UploadInv, SourceInv, ProgressInv,
        Progress, RowIs, VerdictInv, Founded, QueueInv, Submitted, ProcessedIsBacked,
        QueuedDocumentKept, HasKnowledge
  <1>2. ASSUME NEW s \in Sessions, Proceed(s)
        PROVE  DocumentInv'
    <2>1. CASE SavePinned(s)
      BY <2>1, RaisedStep DEF SavePinned
    <2>2. CASE Judge(s)
      <3>1. HasKnowledge(session[s].entity) \in BOOLEAN
        BY DEF HasKnowledge
      <3> QED
        BY <2>2, <3>1, JudgeStep DEF Judge
    <2> QED
      BY <1>2, <2>1, <2>2, SaveSteps, StageSteps, SubmitStep DEF Proceed
  <1> QED
    BY <1>1, <1>2, RequestSteps, StorageErrorStep, CrashStep DEF Next

\* The rows, the knowledge and the uploads stay within their types, and the invariant that
\* ties the pc of an upload to its row, its source and its verdict holds.
THEOREM DocumentInvariant == Spec => []DocumentInv
  <1>1. Init => DocumentInv
    BY InitDocument
  <1>2. DocumentInv /\ [Next]_vars => DocumentInv'
    BY NextDocument
  <1> QED
    BY <1>1, <1>2, PTL DEF Spec

\* Whatever stage fails and whoever takes the row over, a document shown as processed has
\* a source that was read, or there is knowledge of its entity.
THEOREM ProcessedDocumentsAreBacked == Spec => []ProcessedIsBacked
  BY DocumentInvariant, PTL DEF DocumentInv

\* A document handed to the LLM job keeps its row and never turns out as failed.
THEOREM QueuedDocumentsAreKept == Spec => []QueuedDocumentKept
  BY DocumentInvariant, PTL DEF DocumentInv

\* Only a save changes a row, to the upload's own document; an upload that still has its
\* row finds it pending or processing, and another document's row is not moved once a
\* source refers to it.
LEMMA SettledStay ==
    ASSUME DocumentInv, [Next]_vars, NEW h \in Files,
           documents[h].status \in Settled, documents'[h] # documents[h]
    PROVE  documents[h].doc \notin sources /\ documents'[h].doc # documents[h].doc
  <1>1. PICK s \in Sessions : \E status \in DocumentStatus \cup {"open"} :
            SaveDocument(s, status) /\ session[s].pc \in {"insert", "start", "fail", "save"}
    <2>1. documents' # documents
      OBVIOUS
    <2>2. PICK s \in Sessions : Request(s) \/ Proceed(s) \/ StorageError(s)
      BY <2>1 DEF Next, vars, Crash
    <2>3. SavePending(s) \/ SaveProcessing(s) \/ SaveFailed(s) \/ SaveVerdict(s)
      BY <2>1, <2>2 DEF Request, AlreadyExists, Begin, Proceed, SavePinned, Stages, PersistSource,
          SourceRefused, Ocr, Extract, Resolve, Build, Deduplicate, PersistFact, LinkEvidence,
          Persisted, Acceptance, SubmitLlm, Judge, StorageError
    <2>4. session[s].verdict \in DocumentStatus \cup {"open"}
      BY DEF DocumentInv, TypeOK, Upload, DocumentStatus, Settled
    <2> QED
      BY <2>3, <2>4 DEF SavePending, SaveProcessing, SaveFailed, SaveVerdict, DocumentStatus
  <1>2. /\ session[s].file = h /\ documents'[h].doc = session[s].doc
        /\ documents[h].doc = session[s].doc \/ documents[h].doc \notin sources
    BY <1>1 DEF SaveDocument, Pinned, DocumentInv, TypeOK
  <1>3. Progress(session[s])
    BY DEF DocumentInv, ProgressInv
  <1>4. documents[h].doc # session[s].doc
    BY <1>1, <1>3 DEF Progress, RowIs, Settled
  <1> QED
    BY <1>2, <1>4

\* Whoever uploads the file again, and wherever the process dies, a settled document with a
\* source keeps its row as it is.
THEOREM SettledDocumentsNeverReturn == Spec => SettledDocumentsStay
  <1>1. DocumentInv /\ [Next]_vars =>
            [\A h \in Files :
                documents[h].status \in Settled /\ documents'[h] # documents[h] =>
                    /\ documents[h].doc \notin sources
                    /\ documents'[h].doc # documents[h].doc]_vars
    BY SettledStay
  <1> QED
    BY <1>1, DocumentInvariant, PTL DEF Spec, SettledDocumentsStay

-----------------------------------------------------------------------------
(* The archive *)

\* an upload that has saved its document finds a row for its file, if not its own
Placed(u) == u.pc \in {"start", "source", "judge", "save"} \cup AtStages => documents[u.file] # NoRow

PlacedInv == \A s \in Sessions : Placed(session[s])

\* A save fills the row of the upload's file and leaves the others alone.
LEMMA SaveFills ==
    ASSUME DocumentInv, NEW s \in Sessions, NEW status \in DocumentStatus, SaveDocument(s, status),
           session[s].pc # "idle"
    PROVE  /\ session[s].file \in Files
           /\ documents'[session[s].file] =
                [doc |-> session[s].doc, entity |-> session[s].entity, status |-> status]
           /\ \A h \in Files : documents[h] # NoRow => documents'[h] # NoRow
  <1>1. session[s] \in Upload /\ session[s].doc \in Documents \cup {None} /\ session[s].file \in Files \cup {None}
    BY DEF DocumentInv, TypeOK, Upload
  <1>2. session[s].doc \in Documents /\ session[s].file \in Files
    BY <1>1 DEF DocumentInv, UploadInv
  <1>3. session[s].doc # None
    BY <1>2, NullRow
  <1>4. documents \in [Files -> DocumentRow \cup {NoRow}]
    BY DEF DocumentInv, TypeOK
  <1> QED
    BY <1>2, <1>3, <1>4, NullRow DEF SaveDocument

\* An upload keeps its file, and stays with a row once it is there.
LEMMA PlacedKept ==
    ASSUME DocumentInv, PlacedInv, [Next]_vars
    PROVE  PlacedInv'
  <1> DEFINE late == {"start", "source", "judge", "save"} \cup AtStages
  <1>0. session \in [Sessions -> Upload] /\ documents \in [Files -> DocumentRow \cup {NoRow}]
    BY DEF DocumentInv, TypeOK
  <1>1. ASSUME documents' = documents,
               \A s \in Sessions : session'[s].pc \in late =>
                    session[s].pc \in late /\ session'[s].file = session[s].file
        PROVE  PlacedInv'
    BY <1>1 DEF PlacedInv, Placed
  <1>2. ASSUME NEW s \in Sessions, NEW status \in DocumentStatus, SaveDocument(s, status), session[s].pc # "idle",
               \A t \in Sessions \ {s} : session'[t] = session[t],
               session'[s].file = session[s].file \/ session'[s].pc \notin late
        PROVE  PlacedInv'
    <2>1. /\ documents'[session[s].file] # NoRow
          /\ \A h \in Files : documents[h] # NoRow => documents'[h] # NoRow
      <3> DEFINE new == [doc |-> session[s].doc, entity |-> session[s].entity, status |-> status]
      <3>1. new # NoRow
        <4>1. new.status # NoRow.status
          BY NullRow DEF DocumentStatus
        <4> QED
          BY <4>1
      <3>2. documents'[session[s].file] = new /\ \A h \in Files : documents[h] # NoRow => documents'[h] # NoRow
        BY <1>2, SaveFills
      <3> QED
        BY <3>1, <3>2
    <2>2. Placed(session[s])'
      BY <1>2, <2>1 DEF Placed
    <2>3. ASSUME NEW t \in Sessions, t # s PROVE Placed(session[t])'
      <3>1. session[t].pc \in late => session[t].file \in Files
        BY <1>0 DEF DocumentInv, UploadInv, Upload, AtStages
      <3> QED
        BY <1>2, <2>1, <2>3, <3>1 DEF PlacedInv, Placed
    <2> QED
      BY <2>2, <2>3 DEF PlacedInv
  <1>3. ASSUME NEW s \in Sessions, SavePending(s) \/ SaveProcessing(s) \/ SaveFailed(s) \/ SaveVerdict(s)
        PROVE  PlacedInv'
    <2>1. PICK status \in DocumentStatus : SaveDocument(s, status)
      <3>1. session[s].pc = "save" => session[s].verdict \in DocumentStatus
        BY <1>0 DEF DocumentInv, VerdictInv, Founded, Upload, Settled, DocumentStatus
      <3> QED
        BY <1>3, <3>1 DEF SavePending, SaveProcessing, SaveFailed, SaveVerdict, DocumentStatus
    <2>2. session[s].pc # "idle" /\ \A t \in Sessions \ {s} : session'[t] = session[t]
      BY <1>0, <1>3 DEF SavePending, SaveProcessing, SaveFailed, SaveVerdict, Goto
    <2>3. session'[s].file = session[s].file \/ session'[s].pc \notin late
      BY <1>0, <1>3, IdleUpload DEF SavePending, SaveProcessing, SaveFailed, SaveVerdict, Goto, Upload, AtStages
    <2> QED
      BY <1>2, <2>1, <2>2, <2>3
  <1>4. ASSUME NEW s \in Sessions, Request(s) PROVE PlacedInv'
    <2>1. documents' = documents
      BY <1>4 DEF Request, AlreadyExists, Begin
    <2>2. \/ session' = session
          \/ \E e \in Entities, h \in Files, d \in Documents :
                session' = [session EXCEPT ![s] = [Idle EXCEPT !.pc = "insert", !.doc = d, !.file = h, !.entity = e]]
      BY <1>4 DEF Request, AlreadyExists, Begin
    <2>3. \A t \in Sessions : session'[t] = session[t] \/ session'[t].pc = "insert"
      BY <1>0, <2>2 DEF Idle
    <2> QED
      BY <1>1, <2>1, <2>3 DEF AtStages
  <1>5. ASSUME NEW s \in Sessions, SavePinned(s) \/ Stages(s) \/ SubmitLlm(s) \/ Judge(s)
        PROVE  PlacedInv'
    BY <1>0, <1>1, <1>5, IdleUpload DEF SavePinned, SaveRaised, Stages, PersistSource, SourceRefused, Ocr, Extract,
        Resolve, Build, Deduplicate, PersistFact, LinkEvidence, Persisted, Acceptance, SubmitLlm, Judge,
        Goto, Critical, AtStages, Upload
  <1>6. ASSUME NEW s \in Sessions, StorageError(s) PROVE PlacedInv'
    <2>1. documents' = documents /\ session[s] \in Upload
      BY <1>0, <1>6 DEF StorageError
    <2>2. \A t \in Sessions \ {s} : session'[t] = session[t]
      BY <1>0, <1>6 DEF StorageError, SaveRaised, Goto, Critical
    <2>3. session'[s].pc \in late => session[s].pc \in late /\ session'[s].file = session[s].file
      <3>1. CASE session[s].pc \in {"insert", "start", "save", "fail"}
        <4>1. SaveRaised(s)
          BY <1>6, <3>1 DEF StorageError
        <4>2. session'[s].pc \in {"fail", "idle"}
          BY <1>0, <2>1, <4>1, IdleUpload DEF SaveRaised, Upload
        <4> QED
          BY <4>2 DEF AtStages
      <3>2. CASE session[s].pc \in {"source", "dedup", "persist", "accept", "submit"}
        <4>1. Critical(s, "judge") \/ Critical(s, "submit") \/ Goto(s, "judge")
          BY <1>6, <3>2 DEF StorageError
        <4>2. session'[s].file = session[s].file
          BY <1>0, <2>1, <4>1 DEF Goto, Critical, Upload
        <4> QED
          BY <3>2, <4>2 DEF AtStages
      <3>3. CASE session[s].pc = "judge"
        BY <1>0, <1>6, <2>1, <3>3 DEF StorageError, AtStages, Upload
      <3>4. session[s].pc \in {"insert", "start", "save", "fail", "source", "dedup", "persist", "accept", "submit", "judge"}
        BY <1>6 DEF StorageError
      <3> QED
        BY <3>1, <3>2, <3>3, <3>4
    <2> QED
      BY <1>1, <2>1, <2>2, <2>3
  <1>7. CASE Crash
    BY <1>1, <1>7, IdleUpload DEF Crash, AtStages
  <1>8. CASE UNCHANGED vars
    BY <1>1, <1>8 DEF vars
  <1> QED
    BY <1>3, <1>4, <1>5, <1>6, <1>7, <1>8 DEF Next, Proceed

\* What the archive shows of the knowledge changes with the facts only.
Known == {e \in Entities : HasKnowledge(e)}

LEMMA KnownWithFacts == ASSUME UNCHANGED facts PROVE Known' = Known
  BY DEF Known, HasKnowledge

\* A save brings the document in, or takes it one step on.
LEMMA SaveAbstract ==
    ASSUME DocumentInv, NEW s \in Sessions, NEW status \in DocumentStatus, SaveDocument(s, status),
           session[s].pc # "idle", UNCHANGED <<sources, facts, llmJobs>>,
           RowIs(session[s].doc, {old \in DocumentStatus : status \in Archive!Successors(old)}),
           documents[session[s].file] = NoRow => status \in {"pending", "failed"},
           status = "processed" => session[s].doc \in sources \/ HasKnowledge(session[s].entity),
           status = "failed" => session[s].doc \notin llmJobs
    PROVE  Archive!Next
  <1> DEFINE d == session[s].doc
             e == session[s].entity
             h == session[s].file
  <1>1. d \in Documents /\ h \in Files /\ e \in Entities
    BY DEF DocumentInv, TypeOK, Upload, UploadInv
  <1>2. documents' = [documents EXCEPT ![h] = [doc |-> d, entity |-> e, status |-> status]]
    BY DEF SaveDocument
  <1>3. documents[h].doc # d => documents[h].doc \notin sources
    BY DEF SaveDocument, Pinned
  <1>4. documents[h] \in DocumentRow \cup {NoRow} /\ d # None
    BY <1>1, NullRow DEF DocumentInv, TypeOK
  <1>5. Known' = Known /\ (e \in Known <=> HasKnowledge(e))
    BY <1>1, KnownWithFacts DEF Known
  <1>6. \A g \in Files : documents[g].doc = d => g = h
    BY <1>4 DEF DocumentInv, IdentityInv
  <1>7. CASE documents[h].doc = d
    <2>1. documents[h] \in DocumentRow /\ documents[h].entity = e
      BY <1>1, <1>4, <1>7, NullRow DEF DocumentInv, IdentityInv
    <2>2. status \in Archive!Successors(documents[h].status)
      BY <1>1, <1>7 DEF RowIs
    <2>3. documents' = [documents EXCEPT ![h].status = status]
      <3>1. [doc |-> d, entity |-> e, status |-> status] = [documents[h] EXCEPT !.status = status]
        BY <1>7, <2>1 DEF DocumentRow
      <3> QED
        BY <1>2, <3>1
    <2>4. status \in {"processing", "processed", "failed"}
      BY <2>2 DEF Archive!Successors
    <2>5. Archive!Advance(h, status)
      BY <1>5, <1>7, <2>1, <2>2, <2>3 DEF Archive!Advance, Known
    <2> QED
      BY <1>1, <2>4, <2>5 DEF Archive!Next
  <1>8. CASE documents[h].doc # d
    <2>1. d \notin sources /\ \A g \in Files : documents[g].doc # d
      BY <1>6, <1>8 DEF DocumentInv, SourceInv
    <2>2. documents[h] = Archive!Absent => status \in {"pending", "failed"}
      BY DEF Archive!Absent, NoRow
    <2>3. Archive!Enter(h, d, e, status)
      BY <1>2, <1>3, <1>5, <1>8, <2>1, <2>2 DEF Archive!Enter, Known
    <2> QED
      BY <1>1, <2>3 DEF Archive!Next, DocumentStatus
  <1> QED
    BY <1>7, <1>8

\* What an upload does between the source and the verdict concerns a document that is kept and
\* whose row is in processing.
LEMMA StageOfKept ==
    ASSUME DocumentInv, NEW s \in Sessions, session[s].pc \in AtStages
    PROVE  \E h \in Files : /\ documents[h].doc = session[s].doc /\ documents[h].entity = session[s].entity
                            /\ documents[h].status = "processing" /\ session[s].doc \in sources
  <1>1. session[s].doc \in sources /\ RowIs(session[s].doc, {"processing"})
    BY DEF DocumentInv, ProgressInv, Progress
  <1>2. PICK h \in Files : documents[h].doc = session[s].doc
    BY <1>1 DEF DocumentInv, SourceInv
  <1>3. session[s].doc # None
    BY DEF DocumentInv, UploadInv, AtStages
  <1>4. documents[h].entity = session[s].entity
    BY <1>2, <1>3 DEF DocumentInv, IdentityInv
  <1> QED
    BY <1>1, <1>2, <1>4 DEF RowIs

\* The saves of an upload are steps of the archive.
LEMMA SavesAbstract ==
    ASSUME DocumentInv, PlacedInv, NEW s \in Sessions,
           SavePending(s) \/ SaveProcessing(s) \/ SaveFailed(s) \/ SaveVerdict(s)
    PROVE  Archive!Next
  <1>0. /\ UNCHANGED <<sources, facts, llmJobs>> /\ session[s].pc \in {"insert", "start", "fail", "save"}
        /\ Progress(session[s]) /\ Founded(session[s]) /\ Submitted(session[s]) /\ Placed(session[s])
    BY DEF SavePending, SaveProcessing, SaveFailed, SaveVerdict, knowledge, DocumentInv, ProgressInv, VerdictInv,
        QueueInv, PlacedInv
  <1>1. CASE SavePending(s)
    <2>1. SaveDocument(s, "pending") /\ RowIs(session[s].doc, {})
      BY <1>0, <1>1 DEF SavePending, Progress
    <2> QED
      BY <1>0, <2>1, SaveAbstract DEF RowIs, DocumentStatus
  <1>2. CASE SaveProcessing(s)
    <2>1. SaveDocument(s, "processing") /\ RowIs(session[s].doc, {"pending"}) /\ documents[session[s].file] # NoRow
      BY <1>0, <1>2 DEF SaveProcessing, Progress, Placed
    <2> QED
      BY <1>0, <2>1, SaveAbstract DEF RowIs, DocumentStatus, Archive!Successors
  <1>3. CASE SaveFailed(s)
    <2>1. SaveDocument(s, "failed") /\ RowIs(session[s].doc, {"pending"}) /\ session[s].doc \notin llmJobs
      BY <1>0, <1>3 DEF SaveFailed, Progress, Submitted
    <2> QED
      BY <1>0, <2>1, SaveAbstract DEF RowIs, DocumentStatus, Archive!Successors
  <1>4. CASE SaveVerdict(s)
    <2> DEFINE verdict == session[s].verdict
    <2>1. SaveDocument(s, verdict) /\ session[s].pc = "save"
      BY <1>4 DEF SaveVerdict
    <2>2. RowIs(session[s].doc, {"processing"}) /\ documents[session[s].file] # NoRow
      BY <1>0, <2>1 DEF Progress, Placed
    <2>3. verdict \in {"processed", "failed"}
      BY <1>0, <2>1 DEF DocumentInv, TypeOK, Upload, Settled, Founded
    <2>4. verdict = "processed" => session[s].doc \in sources \/ HasKnowledge(session[s].entity)
      BY <1>0, <2>1 DEF Founded, Progress
    <2>5. verdict = "failed" => session[s].doc \notin llmJobs
      BY <1>0, <2>1 DEF Founded, Submitted
    <2>6. RowIs(session[s].doc, {old \in DocumentStatus : verdict \in Archive!Successors(old)})
      BY <2>2, <2>3 DEF RowIs, DocumentStatus, Archive!Successors
    <2> HIDE DEF verdict
    <2>7. verdict \in DocumentStatus
      BY <2>3 DEF DocumentStatus
    <2> QED
      BY <1>0, <2>1, <2>2, <2>4, <2>5, <2>6, <2>7, SaveAbstract DEF verdict
  <1> QED
    BY <1>1, <1>2, <1>3, <1>4

\* So are the source, the facts and the job.
LEMMA StagesAbstract ==
    ASSUME DocumentInv, NEW s \in Sessions
    PROVE  /\ PersistSource(s) => Archive!Next
           /\ \A f \in Fact : PersistFact(s, f) => Archive!Next
           /\ SubmitLlm(s) => Archive!Next \/ UNCHANGED Archive!archiveVars
  <1>1. ASSUME PersistSource(s) PROVE Archive!Next
    <2> DEFINE h == session[s].file
    <2>1. /\ session[s].pc = "source" /\ documents[h].doc = session[s].doc
          /\ sources' = sources \cup {session[s].doc} /\ UNCHANGED <<documents, facts, llmJobs>>
      BY <1>1 DEF PersistSource, knowledge
    <2>2. session[s].doc \notin sources /\ RowIs(session[s].doc, {"processing"}) /\ h \in Files
      BY <2>1 DEF DocumentInv, ProgressInv, Progress, UploadInv, TypeOK, Upload
    <2>3. documents[h].status = "processing" /\ Known' = Known
      BY <2>1, <2>2, KnownWithFacts DEF RowIs
    <2>4. Archive!Keep(h)
      BY <2>1, <2>2, <2>3 DEF Archive!Keep, Known
    <2> QED
      BY <2>2, <2>4 DEF Archive!Next
  <1>2. ASSUME NEW f \in Fact, PersistFact(s, f) PROVE Archive!Next
    <2>1. /\ session[s].pc = "persist" /\ f.entity = session[s].entity
          /\ facts' = facts \cup {f} /\ UNCHANGED <<documents, sources, llmJobs>>
      BY <1>2 DEF PersistFact, Batch
    <2>2. PICK h \in Files : /\ documents[h].doc = session[s].doc /\ documents[h].entity = session[s].entity
                             /\ documents[h].status = "processing" /\ session[s].doc \in sources
      BY <2>1, StageOfKept DEF AtStages
    <2>3. Known' = Known \cup {documents[h].entity}
      BY <2>1, <2>2 DEF Known, HasKnowledge, Fact
    <2>4. Archive!Learn(h)
      BY <2>1, <2>2, <2>3 DEF Archive!Learn, Known
    <2> QED
      BY <2>2, <2>4 DEF Archive!Next
  <1>3. ASSUME SubmitLlm(s) PROVE Archive!Next \/ UNCHANGED Archive!archiveVars
    <2>1. /\ session[s].pc = "submit" /\ UNCHANGED <<documents, sources, facts>>
          /\ llmJobs' = llmJobs \cup {session[s].doc} \/ llmJobs' = llmJobs
      BY <1>3 DEF SubmitLlm, knowledge
    <2>2. PICK h \in Files : /\ documents[h].doc = session[s].doc /\ documents[h].entity = session[s].entity
                             /\ documents[h].status = "processing" /\ session[s].doc \in sources
      BY <2>1, StageOfKept DEF AtStages
    <2>3. Known' = Known
      BY <2>1, KnownWithFacts
    <2>4. CASE llmJobs' = llmJobs
      BY <2>1, <2>3, <2>4 DEF Archive!archiveVars, Known
    <2>5. CASE llmJobs' = llmJobs \cup {session[s].doc}
      BY <2>1, <2>2, <2>3, <2>5 DEF Archive!Queue, Archive!Next, Known
    <2> QED
      BY <2>1, <2>4, <2>5
  <1> QED
    BY <1>1, <1>2, <1>3

\* Every step of the uploads is one of the archive, or none.
LEMMA NextAbstract ==
    ASSUME DocumentInv, PlacedInv, [Next]_vars
    PROVE  [Archive!Next]_(Archive!archiveVars)
  <1>1. CASE UNCHANGED <<documents, sources, facts, llmJobs>>
    <2>1. Known' = Known
      BY <1>1, KnownWithFacts
    <2> QED
      BY <1>1, <2>1 DEF Archive!archiveVars, Known
  <1>2. ASSUME NEW s \in Sessions, Proceed(s)
        PROVE  [Archive!Next]_(Archive!archiveVars)
    <2>1. CASE SavePending(s) \/ SaveProcessing(s) \/ SaveFailed(s) \/ SaveVerdict(s)
      BY <2>1, SavesAbstract
    <2>2. CASE PersistSource(s) \/ (\E f \in Fact : PersistFact(s, f)) \/ SubmitLlm(s)
      BY <2>2, StagesAbstract
    <2>3. CASE \/ SavePinned(s) \/ SourceRefused(s) \/ Ocr(s) \/ Extract(s) \/ Resolve(s) \/ Build(s) \/ Deduplicate(s)
               \/ (\E f \in Fact : LinkEvidence(s, f)) \/ Persisted(s) \/ Acceptance(s) \/ Judge(s)
      BY <1>1, <2>3 DEF SavePinned, SourceRefused, Ocr, Extract, Resolve, Build, Deduplicate, LinkEvidence,
          Persisted, Acceptance, Judge, knowledge
    <2> QED
      BY <1>2, <2>1, <2>2, <2>3 DEF Proceed, Stages
  <1>3. ASSUME NEW s \in Sessions, Request(s) \/ StorageError(s)
        PROVE  [Archive!Next]_(Archive!archiveVars)
    BY <1>1, <1>3 DEF Request, AlreadyExists, Begin, StorageError, knowledge
  <1>4. CASE Crash \/ UNCHANGED vars
    BY <1>1, <1>4 DEF Crash, vars, knowledge
  <1> QED
    BY <1>2, <1>3, <1>4 DEF Next

\* However uploads overtake each other and wherever they fail, the tables go through the life of an
\* archive: nothing that was kept is replaced, no status is skipped or taken back, knowledge comes
\* from kept documents, and what the LLM will read does not fail.
THEOREM ArchiveImplemented == Spec => ImplementsArchive
  <1>1. Init => Archive!Init
    BY DEF Init, Archive!Init, Archive!Absent, NoRow, HasKnowledge
  <1>2. Init => PlacedInv
    BY IdleUpload DEF Init, PlacedInv, Placed, AtStages
  <1>3. DocumentInv /\ PlacedInv /\ [Next]_vars => PlacedInv'
    BY PlacedKept
  <1>4. DocumentInv /\ PlacedInv /\ [Next]_vars => [Archive!Next]_(Archive!archiveVars)
    BY NextAbstract
  <1> QED
    BY <1>1, <1>2, <1>3, <1>4, DocumentInvariant, PTL DEF Spec, ImplementsArchive, Archive!Spec
=============================================================================
