# NASMI: TLA+ models, model checking and proofs

NASMI (`src/`) is a local, single-user desktop application: a Streamlit user
interface over a Python core that imports identity documents, extracts facts
from them, lets a person review what the machine is unsure of, and fills forms
from the facts that were accepted.  Everything is kept in one SQLite file and in
a document folder.  "Single user" does not mean sequential: every browser tab
is a Streamlit session with a thread of its own, a dispatcher thread runs
background jobs, and every thread has its own database connection in autocommit
mode (`src/infrastructure/db/connection.py`), so that almost no two statements of
an operation are atomic together.

This directory models the parts whose correctness depends on the order of
steps.  TLC checks the models on small instances; TLAPS proves the safety
properties for every value of the constants.

Contents: 1 inventory, 2 modules and how they correspond to the code, 3 runs,
bounds and fairness, 4 where code and documentation disagree, 5 proofs, 6 what
is not modelled, 7 plan.

## 1. Inventory

`PROJECT.json` lists the components with every source file of each, and the
hazards at their lines.  This is the reading guide.

### The live application

`src/app.py` and `src/ui/` create a container (`src/ui/services/api_client.py`) of
view models; the buttons of a page call one view model method each, in the
thread of the session.

| component | state | operations | who calls whom |
|---|---|---|---|
| **Document flow** (`ui/viewmodels/documents_vm.py`, `pipeline/sequential_pipeline_handler.py`, `pipeline/handlers/*`, `application/services/knowledge_service.py`) | tables `documents`, `document_sources`, `facts`, `fact_evidence`; the outcome the page shows | `upload_document`: dedup by file hash, three saves of the row, seven stages that swallow their failures, verdict | the Documents page; inserts facts, runs fact acceptance, submits an LLM job |
| **Job pipeline** (`pipeline/`) | tables `jobs`, `job_queue`; the dispatcher's flag and thread; private `Job` copies | submit, cancel, delete; start the dispatcher; lease, execute, decide, settle or requeue | sessions submit; one daemon thread (in principle) executes handlers, which open review cases |
| **Human review** (`processing/fact_acceptance/`, `ui/viewmodels/review_vm.py`) | tables `review_cases`, `facts` (again), `entities`, `entity_relationships`; the case a page has selected | acceptance run (list, then one case per fact), accept, reject, edit | upload and handlers produce cases; the Review page decides them |
| **Noise queue** (`ui/viewmodels/noise_vm.py`) | table `noise_items` | process with the LLM (check, mark, ask, insert cases, settle), save, mark reviewed, ignore, delete, reopen | extraction fills it; processing opens review cases |
| **Profile page** (`ui/viewmodels/profile_vm.py`) | table of profile fields | build from accepted facts, add, edit, delete, clear | reads what review accepted |
| **Form templates** (`ui/viewmodels/forms_vm.py`) | tables of templates and fields, PDF files | create, analyse, prepare, fill, delete | reads profile and facts |
| **Review service** (`review/review_service.py`, `review/review_queue.py`) | dictionaries of cases and decisions, a sorted list of copies | open, assign, start, decide, escalate, cancel, dequeue | nobody in the application; a service of its own |
| **File transactions** (`core/transactions.py`) | files, backups, undo records | write, copy, move, delete, commit, rollback | nobody in the application |
| **Audit log** (`audit/`, `infrastructure/db/repositories/sqlite_audit_recorder.py`) | table `audit_entries`, chained by hashes | record, verify, query | no recorder is created; the Audit page reads |
| **Extraction** (`processing/extraction/`, `pipeline/handlers/extraction_handler.py`) | nothing of its own; saves review cases and noise items | registry and extractors, machine readable zone, quality gate, hand-over to a case or to the noise queue | a stage of the upload |
| **Text recognition** (`processing/ocr/`) | registry of engines | read a document, fuse two readings, point spans into the result | the OCR stage |
| **Knowledge builder** (`processing/knowledge_build/`), **entity resolution** (`processing/entity_resolution/`) | nothing | which candidates become facts under which name; which candidates are one person | stages of the upload |
| **Pipeline artifacts** (`pipeline/artifact.py`, `failure.py`, the handlers) | the bundle and the failures a job carries | every stage adds an artifact or a failure; the dispatcher reads the verdict off the failures | stages and dispatcher |
| **Facts of a document** (`application/services/knowledge_service.py`) | tables `facts`, `fact_evidence` | deduplication by a key of field and value, statuses of a fact | the build stage |
| **Filling of forms** (`ui/viewmodels/forms_vm.py`) | rows of a template, completed files | map the PDF fields to the profile, preview what is missing, fill a copy | the Forms page |
| **Advisory page and chat** (`ui/viewmodels/advisory_vm.py`, the two advisors) | the cache of a session, `review_cases` | advise, answer questions, open a case per fact the user declares | the Advisory page |
| **Pages and session state** (`ui/layout/topbar.py`, `ui/pages/`, `ui/services/api_client.py`) | `st.session_state`: active entity, page, selected case | create, activate and choose an entity; counts, advice and buttons of the home, profile and review pages | every page acts on the active entity |
| **Schema** (`infrastructure/db/job_migration.py`, `extraction_handler.py`) | the tables themselves | convert the jobs table at start-up, the noise table at an extraction | start-up, extraction |

### Libraries the live application carries

LLM adapters and the structurer of their answers, validation rules, the vault and
conflicts of the knowledge model, report generators and packages, a case
service over a unit of work, a form domain with repositories in memory, core
utilities (locks, retry, cache).  The application never creates or reaches them;
the same holds for the audit recorder, the review service and file
transactions, which are modelled because their state is worth it.

### Which behaviours are hard

* **Two tables, two connections.**  `PipelineService.submit`, `cancel` and the
  dispatcher write `jobs` and `job_queue` one after the other; nothing expires a
  lease or reconciles the tables at start-up.
* **Private copies saved whole.**  A `Job`, a `Document` or a `ReviewCase` is
  loaded, changed and saved as a blob; the last save wins.
* **Check, then act.**  `Dispatcher.start`, the lookup of an owner, of a
  relationship, of the keys of stored facts, of a file hash: none of them is
  covered by a lock, some by a UNIQUE constraint that then refuses a later write.
* **Swallowed failures.**  The stages of an upload catch every exception;
  later stages run on what is left and a verdict is taken at the end.
* **Crashes.**  Every operation can stop between two statements, and a restart
  forgets all threads and sessions.
* **Retries.**  Failures and artifacts accumulate over the attempts of a job; requeued
  rows wait for their delay; cancel races all of it.
* **Long chains of rules.**  What stands on a page passes two extractors, a gate, a
  builder with a dozen word lists, resolution, a deduplication by normalised
  text, and the review.  Each rule is tested by itself; that no reading is lost,
  renamed or taken for somebody else's between them is not.
* **Two judges of one thing.**  Two advisors with thresholds of their own, a preview
  and a Fill button with rules of their own, metrics and a queue with conditions
  of their own, stand side by side on a page and must agree.

### What makes each component correct

* Job pipeline: a job is held by one thread at a time and executed within its
  retry budget; a queue row never claims an outcome the saved job does not have;
  settled rows stay settled; a job nobody cancels goes through a simple life
  cycle and reaches an outcome in both tables.
* Human review: a completed case had its effect on the facts; a fact accepted
  for somebody else finds that person related to the active entity; with one
  session and no fault, facts and cases tell the same story.
* Document flow: "processed" is backed by a source or by knowledge; a document
  with an LLM job keeps its row; a settled document changes only by being taken over, and only
  without a source; every upload settles and every stored fact reaches review.
* Noise queue: an item shown as processing has a session that will settle it;
  what the model finds reaches the review queue.
* Review service: a case has a decision exactly when it is completed, and the
  queue holds the stored cases in order, whatever raised half-way.
* File transactions: rollback puts every file back.
* Audit log: whatever forks recorders make, every link leads back in time.
* Form templates and their filling: a stored template has its file and its fields;
  a form called complete has every required field, from the right person.
* Profile: a build that reports success leaves every accepted fact in the table,
  or somebody changed that field in the meantime.
* Reading: no text either engine made out is lost in fusion; a date whose check
  digit matched is the printed one; what extraction finds on a page ends as a
  case or in the noise queue, or its failure is recorded, unless there is no database.
* Knowledge: facts of other people and organisations stay out of the profile; a date
  under a label keeps the meaning of the label; merged entities agree; a fact
  is dropped as a duplicate only if it says the same.
* Jobs: what a job reports leads back through all stages to the one document,
  whatever was swallowed on the way and however often it was retried.
* Advisory: the two advisors agree on what is urgent; what the chat says it saved is
  saved.
* Pages: they act on the person the user chose, and their advice can be followed.
* Schema: a conversion that is interrupted, repeated or raced keeps the rows.

## 2. Modules

| module | what it is |
|---|---|
| `JobPipeline` | the two tables, dispatcher threads, sessions; properties and invariants |
| `JobLifecycle` | abstract specification: what a job nobody disturbs goes through |
| `HumanReview` | facts, cases, acceptance runs, the decisions of the Review page |
| `DocumentFlow` | upload, stages, deduplication, verdict |
| `DocumentArchive` | abstract specification: the life of a document and what is kept of it, with no word about uploads |
| `NoiseQueue` | the Noise Processing tab and `process_with_llm`, two sessions |
| `ReviewDesk` | the in-memory review service and its queue |
| `FileTransaction` | operations on files, their backups, rollback |
| `AuditLog` | recorders that append to the hash chain |
| `FormTemplates` | creation, deletion, analysis and preparation of form templates |
| `MCJobPipeline`, `MCHumanReview`, `MCDocumentFlow` | constants and symmetry for TLC |
| `Mrz` | the machine readable zone: printing, misreading, parsing, check digits |
| `TextRecognition` | engines, their registry, fusion of two readings, spans |
| `Extraction` | registry, extractors, quality gate, the end of a page |
| `KnowledgeBuild` | which candidates become facts, under which name |
| `EntityResolution` | clusters, matches, conflicts, merging |
| `FactStore` | deduplication of the facts of a document, their statuses |
| `PipelineArtifacts` | the bundle and the failures of a job through stages and retries |
| `ProfileFields` | building the profile while other sessions edit it |
| `FormFilling` | mapping, preview and filling of a form |
| `Advisory` | the cache, the two advisors, the chat |
| `Guidance` | whose data the pages act on, and what they advise |
| `SchemaMigration` | conversion of the jobs and the noise table |
| `MCServices` | the seventeen modules from `NoiseQueue` to `SchemaMigration` side by side, one of them taking steps in each behaviour |
| `Listings` | rows in the order of their numbers: ORDER BY, and what a comprehension keeps of a list |
| `JobPipelineProofs`, `HumanReviewProofs`, `DocumentFlowProofs` | proofs about the three parts at the core |
| `StoreProofs` | proofs about `NoiseQueue`, `ReviewDesk`, `AuditLog`, `FactStore`, `SchemaMigration`, `FileTransaction`, `PipelineArtifacts` |
| `PageProofs` | proofs about `FormTemplates`, `FormFilling`, `ProfileFields`, `Advisory`, `Guidance` |
| `ReadingProofs` | proofs about `Mrz`, `TextRecognition`, `Extraction`, `KnowledgeBuild`, `EntityResolution` |
| `ServicesProofs` | the services side by side: their types, and that each of them runs as on its own |
| `NumberLemmas` | least and greatest numbers, listing a finite set in order, what a listing holds, induction over sets of numbers |

An action is one statement of the code that another thread can see (a write, or
a read whose result is used later) together with the private computation up to
the next one.  A process is a record with a program counter `pc`; its fields are
the local variables that survive the statement.  Operators commented "Bug
variant" are the deviations used to show that a property can fail; nothing
else refers to them.

### JobPipeline

| variable | code |
|---|---|
| `jobs` | `jobs` table: the blob last saved (status, retry count, accumulated failure kinds) |
| `queue` | `job_queue` row; `due` stands for `available_at <= now` |
| `running`, `current` | `Dispatcher._running` (an Event) and `Dispatcher._thread` |
| `thread[t]` | a dispatcher thread: pc and the `Job` it loaded (`mem`) |
| `client[c]` | a session inside `submit`, `cancel` or the start of the dispatcher |
| `runs` | history: executions per job |

Actions: `EnsureRunning`, `StartGuard`, `StartAssign`, `StartThread` (the race in
`Dispatcher.start`), `SubmitSave`, `SubmitEnqueue`, `CancelLoad`, `CancelSave`,
`CancelQueue`, `DeleteJob`, `Poll`, `Lease`, `LeaseNothing`, `LoadMissing`,
`LoadAndStart`, `LoadRefused`, `SaveStarted`, `Execute`, `RouteSave`, `RouteQueue`,
`DelayElapses`, `Stop`, `ThreadStorageError`, `ClientStorageError`, `Crash`.  A
handler is abstracted to the set of failure kinds one run records, because
`PipelineContext.recovery_decision` looks at nothing else.  `lease` is one action: its
SELECT and its UPDATE (`src/pipeline/job_queue.py:69`) are two statements under the lock
of the queue, which all threads of the one process share; a second process on the same
database would not be kept out, and is not modelled.

### HumanReview

`facts` (status, entity, the case that settled it, the owner it was accepted
for), `evidenced` (facts with an evidence link), `cases`, `owners` and `related`
(duplicates of one external owner and their relationship), `session` (the
decision in progress, with the case status it loaded), `upload` (an acceptance
run with the list of pending facts it read).  `PersistFact`, `LinkEvidence` and
`OpenClaim` are the producers; `ListAll`, `ListPending`, `SkipFact`, `OpenCase` the
acceptance stage; `Select`, `Accept`, `Reject`, `Edit` the buttons; the rest the
statements behind them.  The session's copy of the case is the status that the
save writes back.

### DocumentFlow

`documents` (one row per file hash, holding the id of the upload that owns it),
`sources`, `facts`, `evidenced`, `reviewed`, `llmJobs`, `session` (the upload in
progress), `told` (what the page reported).  The foreign keys of
`src/infrastructure/db/schema.sql` decide the alternatives: saving a second upload
of a file rewrites the id of the row, which SQLite refuses once a source
refers to it (`Pinned`).  What OCR and extraction read out of a file is a choice of
candidates; stages that fail mark the upload, exactly as the pipeline's critical
flag does.

`DocumentArchive` is what the tables promise to the other parts: the life cycle of
`archive/document.py` per file.  `Enter` brings a document in, alone or in the place of one
nothing was kept of; `Advance` is `Document._transition` with what a verdict has to show for
it; `Keep`, `Learn` and `Queue` are the source, the facts and the LLM job.  The mapping reads
`row` from `documents`, `kept` from `sources`, `known` from the entities of `facts` and `queued`
from `llmJobs`.  An upload that takes the row of another one, or takes its own back, brings
the status it has reached with it, which is why `Enter` has a status.

### The service modules

* `NoiseQueue`: `noise` is the status column of `noise_items`, `openCases` the values
  an open review case holds, `page` the item a session shows with the status it
  loaded, or the statement of `process_with_llm` it is at.  Which buttons exist
  depends on the status that was loaded.
* `ReviewDesk`: `deskCase` and `decisions` are the dictionaries of the service,
  `deskQueue` the sorted list of copies.  Each operation is one action, because
  nothing else runs between its statements; that its second half raises when the
  copy was dequeued is part of the action.
* `FileTransaction`: `files` and `backup` are contents by path, `undo` the list of
  closures, each reduced to the values it captured.  `Raises` and `CopyTears` are
  operations that fail before and within the change.  `before`, `overwritten` and
  `torn` are history.
* `AuditLog`: `log` is the table in the order of `sequence_number`; `recorder` is what
  a recorder has read so far.  An entry's hash is its number.
* `FormTemplates`: `template` and `fields` are the two tables, `pdf` the files, `editor`
  the statement a session is at.  The foreign key decides whether a deletion or an
  insertion is refused.

### From the page to the profile

These modules model algorithms as much as state: the text of the code is
mostly conditions, and the definitions follow them rule by rule over a small
alphabet of forms.

* `Mrz`: a character is a number, a zone is printed with its check digits (ICAO 9303),
  `Misread` changes up to `MaxMisreadings` characters into look-alikes, `parse_text` is
  one step: which format is recognised, which fields are cut out, compared and
  repaired.
* `TextRecognition`: a printed word is a page, a line and a place.  Engines make out
  any part of it; `FuseLines` follows the index of first occurrences of the code, and
  `InReadingOrder` sorts as `sorted` does, by position and stably; `BuildSpans` follows
  the way spans point into pages.
* `Extraction`: a page is a set of labelled values; `ExtractSheet` is the whole service:
  the registry, the extractor of the type, the universal one, the gate and the
  decision about the language model.  The handler then writes cases (`SaveCases`) or a
  noise item (`KeepNoise`), records a failure (`FailExtraction`, or an exception in one of
  these), or gives up without a word because it found no database (`SkipCases`,
  `SkipNoise`).
* `KnowledgeBuild`: a candidate is a name and a form of value; the word lists of the
  builder are `topics` a form contains a member of.  The filters are applied in the
  order of the code, because several read what an earlier one renamed.
* `EntityResolution`: candidates of up to three entities; similarity of two values is a
  percentage; `AllMatches`, the weighted score and the hard conflicts decide on
  merging.
* `FactStore`: a value is what it means and the form it is written in; `KeyOf` follows the
  normalisation of `knowledge_service.py` digit by digit.
* `PipelineArtifacts`: `bundle` is the list of artifacts by kind and sources, `failures` the
  collection; every handler is an action with each of its exits.  `verdict` is the
  recovery decision.
* `ProfileFields`: the build is split at each look-up and each write, since every
  statement commits by itself; the page of a session holds the ids it showed.
* `FormFilling`: analysis, preview and Fill statement by statement; the labels of fields
  are the sets of words the rules look for.
* `Advisory`: items of both advisors as functions of the day and of the profile; the cache
  keeps what an earlier profile gave.
* `Guidance`: an action is one click with the reruns of the script it causes;
  `Rendered` is what the top bar, and on its page the advisory select box, make of
  the active entity.  `Metrics`, `Queue`, `ProfileStep` and `Stage` are the counts and
  the advice as functions of the tables.
* `SchemaMigration`: tables by name with their rows; every DDL statement is an action
  and a crash may come between any two.

## 3. Runs, bounds and fairness

| run | instance | what it shows |
|---|---|---|
| `pipeline_faults` | 2 jobs of different priority, 2 dispatcher threads, 2 sessions, 1 retry, 4 outcome sets, one job cancellable, crash, storage error and stop at every step | exclusive lease, retry budget, completion only at a clean first attempt, tables agree as far as promised, refinement of `JobLifecycle` |
| `pipeline_progress` | as above with 2 outcome sets, one job cancellable and deletable, no fault, fair | the undisturbed job settles alike in both tables, the other in one at least; the inductive invariant |
| `pipeline_cancel_race` | 1 job, 2 sessions | a persisted CANCELLED is overwritten (section 4) |
| `review_faults` | 1 extracted fact, 2 cases, 3 entities, 2 sessions, 1 acceptance run, all decisions, all owners, crash and storage error | completed cases had their effect, foreign facts are related, inductive invariant |
| `review_alone` | 2 facts, 3 cases, 1 session, 2 acceptance runs, no fault | facts and cases tell the same story |
| `review_stays_out`, `review_owner` | minimal instances | section 4 |
| `documents_faults` | 3 uploads, 3 files, 2 entities, 2 sessions, 1 fact key, crash and storage error | processed is backed, queued rows are kept, inductive invariant, refinement of `DocumentArchive` (hence settled rows stay) |
| `documents_progress` | 3 uploads, 2 files, 1 entity, 2 sessions, fair | every upload settles, every fact reaches review |
| `documents_told` | 2 uploads of 1 file | section 4 |
| `services` | the seventeen parts of the table below, one of them in each behaviour, about 1,000,000 states | the property of each part, listed there |
| `noise_promotes` | 2 items, 2 sessions, 1 value | section 4 |

The parts of `services`:

| part | instance | property |
|---|---|---|
| noise | 2 items, 2 sessions, 1 value | `ProcessingIsAttended` |
| desk | 3 cases, all priorities and states | `DeskTellsOneStory` |
| files | 2 paths, 1 new content, 3 recorded operations, errors | `RollbackRestores` |
| audit | 2 recorders, 4 entries, 2 ticks | `LinksLeadBack` |
| forms | 1 template, 2 field names, 2 sessions, crash | `StoredTemplateIsUsable` |
| zone | 3 formats, 2 dates of birth and of expiry, up to 2 misread characters | `CheckedDatesAreThePrintedOnes` |
| extraction | sheets of up to 2 labelled values, every type of document, every registry; thresholds 2 and 1 for 6 and 4 | `PagesEndSomewhere` |
| knowledge | piles of up to 2 candidates of any name and form | `OthersDataStaysOut`, `LabelledDatesKeepTheirMeaning` |
| entities | up to 4 candidates of as many entities | `MergedEntitiesAgree` |
| profile | 2 sessions, 2 names, 2 facts of one name, 2 rows | `BuildsTellTheTruth` |
| advisory | 1 entity, 1 date of expiry, 2 days, 2 questions | `AdvisorsAgree`, `SavedAsTold` |
| ocr | 4 printed words on 2 pages, 2 engines | `NothingReadIsLost` |
| bundle | 2 retries, 2 types of output | `OutputsLeadBack` |
| store | 4 dates, 2 numbers, 4 names, 2 facts | `NothingNewIsDropped` |
| filling | 3 form fields, 2 people, 2 edits of a profile | `CompletedFormsAreTrue` |
| schema | both tables, an old row and a new one in each, 2 extractions, crash | `MigrationKeepsRows` |
| guidance | 2 entities, 2 cases of 3 kinds, 1 case in a bucket | `PagesGuideTheUser` |

**Why these bounds are enough to be interesting.**  Every race in the code is
between two processes over one row, or between a process and a crash; two
sessions, two threads and two rows of each table reach all of them.  A third
upload lets two sessions race over one file while a third file is left alone; a
third case lets two acceptance runs open cases for one fact and a person open
one by hand.  Three cases of the desk are the least with a queue that can be out
of order in the middle; two files let a move, a copy and a write chain into each
other; two recorders and four entries allow two forks, one after the other; two
field names let two analyses be at different fields.  One retry separates "budget
left" from "budget used"; the bundle needs two, because with one the newest and the
oldest artifact of the earlier attempts are the same.

The modules that follow an algorithm are bounded by what its rules compare.  A
check digit weighs modulo ten with weights 7, 3, 1, so one confusion in a date may
slip through and two may cancel out: the property speaks of one in a date and
its digit, the instance of two in the zone, wherever they fall.  Rules of the gate and
of the builder look at one candidate or at a pair of them.  Entities are merged
along chains, and the shortest chain with a stranger in the middle has three.  Two
advisors differ at the days their thresholds name, all of which are offered.  Two
years of one century and two that share their last digits are all that the keys
of dates tell apart.  A bucket of one shows what a limit hides with two cases.

Ids are drawn once and never reused, so the instance
ends when they run out: the configurations of `HumanReview`,
`DocumentFlow` and the services say `CHECK_DEADLOCK FALSE` for this reason only.  Symmetry is used
in the runs of `HumanReview` and `DocumentFlow` over ids that are
interchangeable, and never together with a liveness property.

**Fairness.**  `ThreadStep` (weak, per thread): a live dispatcher thread is a loop
that blocks on nothing but the database.  `ClientStep` (weak, per session) and
`Proceed` in `DocumentFlow`: once a button was pressed, the view model method
runs to its end.  `DelayElapses` (weak): time passes.  A person is never assumed to
press a button, and no fairness is assumed of crashes, errors or stops; the
liveness runs exclude faults, because nothing in the code recovers from them
(hazards `dispatcher.py:97`, `documents_vm.py:374`, `knowledge_service.py:75`).

Every property of a passing run is also checked to be violable: `PROJECT.json`
lists, for each, a plausible bug in a mapped definition under which TLC refutes
it.

## 4. Where the code disagrees with its own documentation

* `pipeline_cancel_race`: `src/pipeline/job.py:61` gives CANCELLED no successor,
  but `cancel` and the dispatcher each check their private copy and save it
  whole; the persisted status goes from CANCELLED to RUNNING and COMPLETED.
* `review_stays_out`: `src/ui/pages/review.py:592` says rejected values stay out of the
  assistant and auto-fill.  Accepting inserts the fact and then saves the
  case; after a crash between them the case can be rejected, and the fact
  inserted before stays accepted.
* `review_owner`: `src/ui/pages/review.py:407` says the choice of an owner prevents
  foreign data from entering the personal profile.  For a fact that already
  exists, the entity is left as it was; only metadata names the owner.
* `documents_told`: `src/ui/pages/documents.py:136` reports "uploaded and processed"
  for every successful result, and a second upload of a file is successful
  whatever became of the first.

* `noise_promotes`: `src/ui/components/review/noise_processing_panel.py:186` says that
  LLM cleanup moves useful results into the review queue.  The cases are written
  with priority `MEDIUM` (`src/ui/viewmodels/noise_vm.py:406`), which the table refuses
  (`src/infrastructure/db/schema.sql:143`): every item with a new value ends failed.

Some properties say exactly how much of a promise is kept:

* `RollbackRestores` excludes transactions that touched a file twice (the second
  backup replaces the first, `src/core/transactions.py:59`) and copies that failed
  half-way.
* `LinksLeadBack` allows the forks that recorders without a transaction make.
* `PagesEndSomewhere` says where a page is lost: `_resolve_db_connection` turns every
  exception into "no database", and the handler then returns with a line in the log,
  without a case, without a noise item and without a failure
  (`src/pipeline/handlers/extraction_handler.py:276` and `:479`).  Every other page with text on it
  leaves a trace.  The third silent return, for a blank entity (line 289), is never taken: there
  are candidates at this point, and `Source.from_document` and `ExtractionRequest` refuse
  such an entity before.  In the application `_ensure_db` has succeeded before a handler
  exists, so the exits are for pipelines that are wired up in another way, where the import of
  the client, opening the file or its migration may fail.  A page without candidates is missed
  later all the same: the resolution of the entity records a failure (`ResolveEntity` in
  `PipelineArtifacts`), and the job does not complete.
* `CheckedDatesAreThePrintedOnes` leaves an 8 read as an S out of the confusions: S
  weighs as much as 8 modulo ten, the digit matches, and the repair makes a 5 of it
  (`src/processing/extraction/extractors/base/mrz_parser.py:148`).
* `PagesGuideTheUser` speaks of entities that have no older namesake.  A label of the top
  bar stands for the oldest entity that has it, and so does a bare name on the
  advisory page: an entity created with a name and type that exist is never the
  active one, whatever `src/ui/pages/settings.py:79` reports.
* `NothingNewIsDropped` speaks of years with four digits from 1300 on: in earlier ones two dates can
  have one key (`src/application/services/knowledge_service.py`, see section 5).
* `MigrationKeepsRows` promises the jobs only while no conversion is interrupted: a
  crash between renaming and creating makes the next start create the table of the
  old form, and drop the one set aside.

Noticed on the way, and true in the models: the bucket "0% - 50%" of the review page
shows cases that the metric "LLM Hidden" counts as hidden; "Accept facts before
building the profile" may be advised when no fact can be accepted; the home page counts
all entities while the pages behind its buttons act on the active one; a case stays
open on the review page when the top bar turns to another person;
`FactAcceptanceService._metadata_for_fact` calls a method the evidence repository does
not have, so that no fact is accepted by itself; the handler of the language model reads
attributes its response does not have; messages of success vanish in the rerun that
follows them.

## 5. Proofs

Every theorem is for arbitrary sets of jobs, threads, sessions, facts, cases,
documents and any selection of faults.  The assumptions are those declared with
the constants (for example that `NoThread` is not a thread); TLC evaluates them
in every run.

**Job pipeline** (`JobPipelineProofs`).  `RunsWithinBudget` and `RowBackedByJob` are not
inductive: what an execution may still do depends on the private copy its thread
holds, which may be older than the table.  `PipelineInv` therefore relates three
things for every thread and session: its pc, its copy, and the rows
(`HolderInv`, `SubmitterInv`, `CancellerInv`), and counts executions both in the
copy and in the table (`CountInv`, `SavedCountInv`): a stale save can lower the
count in the table only when the row can no longer be leased.  `OneHolder`
follows from the rule that a leased row is named by at most one thread and
that only its holder makes it leasable again.  `BlemishInv` carries the
accumulated failures, from which `CompletedAtFirstAttempt` follows.
`SettledRowsStay` and `RevivedOnlyByHolder` are action properties proved from the
same invariant.

**Refinement** (`JobPipelineProofs`, at its end).  For jobs outside `Cancellable` and
`Deletable` the copy a thread holds is fresh (`CopyInv`, proved inductive on top
of `PipelineInv`); under it every step of the pipeline is a step of
`JobLifecycle` or a stutter.

**Human review** (`HumanReviewProofs`).  `CompletedCaseTreated` needs to know what a
session in the middle of an accept has already written: `CopyInv` ties the pc to
the copy of the case, `OwnerInv` to the owner and the relationship, `ReferenceInv` and
`ExtractionInv` say that cases refer to stored facts and settled facts to their
case.

**Document flow** (`DocumentFlowProofs`).  `IdentityInv` and `UploadInv` say that an id
belongs to one upload and one row; `ProgressInv` which statuses the row can have
at each pc, even after another upload took it; `VerdictInv` that a positive verdict
is founded on a source or a fact; `QueueInv` that an LLM job is submitted only by an
upload whose row cannot be taken over.  `ProcessedIsBacked`, `QueuedDocumentKept` and
`SettledDocumentsStay` follow; the last one is a consequence of the refinement below, and
TLC checks it only as a part of that.

`ArchiveImplemented` shows every step of an upload to be a step of `DocumentArchive` or a
stutter.  It needs one more invariant, `PlacedInv`: an upload that has saved its document
finds a row for its file, if not its own, so that only a first save meets an absent row.
Every save goes through `SaveAbstract`: the row either holds the upload's document, and the
status is a successor (`ProgressInv`), or another one's, of which nothing was kept (`Pinned`);
what is saved as processed is founded (`VerdictInv`), what is saved as failed was not
submitted (`QueueInv`).  `StageOfKept` says that the facts and the job come from a kept
document in processing.

With one session and no failing statement (`Alone`, `Faults = {}`) `OneSessionAgrees`
proves `FactsAndCasesAgree` on top of `ReviewInv`: `SoloInv` says that what the session
has selected is as open as it was loaded.  With a second session, or a crash between two
writes, the property is false; `review_stays_out` shows it for the crash.

**Queues, tables and files** (`StoreProofs`).

* `ProcessingAttended`: inductive with the types.  A session that is past
  `MarkProcessing` leaves only by `Settle`, and no other statement turns an item to
  processing.
* `DeskStoryIsTrue`: `Sorted` is a CHOOSE among permutations, so the proof first shows
  that one exists.  `UrgencyKey` makes one number of priority and age, and the keys
  are listed in order (`NumberLemmas`); that a case is queued once makes the keys
  differ.  Then one lemma for storing a case, in the dictionary and in the queue if
  its copy is there, carries every operation.  `DeskAssumption` says the
  cases are finitely many numbers.
* `ForksLeadBack`: `PreparedInv` says that a recorder's link is in the log and, once its
  time is drawn, that the linked entry is not younger; the time is drawn after the
  link, and the mutant that swaps the two is refuted.  `PastInv` says that no entry is
  from the future.
* `NothingIsDropped`: `KeysTell` is the heart of it, that two readings with one key say
  the same.  Digits in a row have three shapes (year first, day first, plain), and
  two dates could only collide across shapes.  The proof failed for early years,
  which turned out to be a fact about the code: `18101005`, a day in 1810, has the key of a
  day in the year 1005, since four digits are a year from 1900 to 2100 only.
  `StoreAssumption` therefore asks for years from 1300 on.
* `RowsAreKept`: `OneConverts` says that only one extraction converts the table,
  `NoiseAside` where its rows are at each statement, `AsideIsConverted` that a table set
  aside belongs to a conversion unless an earlier one was cut off.
* `RollbackIsExact`: undo records say what to do, not what was there.  `Traceable`
  asserts a history of disks, from the beginning to now, such that each record
  takes the later disk back to the earlier; an operation appends one, `UndoLast`
  removes one, and at the empty list the disk is the first.  It holds while no
  backup was replaced and no copy torn.
* `OutputsAreFounded`: `WellMade` says that an artifact is made from earlier ones of the kind
  before it.  `Lineage` is a recursive function over the bundle; that it is
  defined (`LineageIsDefined`) and reaches a document is proved by taking a least
  number, for any number of retries.

**Pages** (`PageProofs`).

* `TemplateUsable`: `InsertingInv` says that a template being inserted is known to one
  session and has its file, `DeletingInv` that a session that deletes found the row and
  removes the file only after the row is gone.
* `FormsAreTrue`: `FillingInv` follows what Fill carries: a version of the profile of the
  applicant it asked for, and rows as the analysis makes them.
* `BuildsAreTrue`: a build reads, looks up and writes in separate statements.
  `LookedUpInv` and `WrittenInv` hold "unless another session touched that field", which
  every write of another session records; `PlaceInv` keeps the order of the
  list, so that the last fact of a name is the newest.
* `AdvisorsAreOfOneMind`: `ShownInv` says that both lists come from one row, each computed on a
  day of its own.  Agreement is then a lemma about the two functions; it is claimed
  only for one day, since the thresholds differ by the day otherwise.
  `ChatTellsTheTruth` needs only that an answer and its cases are written in one
  step.
* `GuidanceIsTrue`: that the buckets add up and that advice can be followed are lemmas about
  the counts; that the page shows the chosen person is inductive
  (`ChosenStaysActive`): a newcomer of the same name stands behind the
  older one, which the select boxes resolve to.

**From the page to the profile** (`ReadingProofs`).

* `NothingReadGetsLost`: lines are counted.  `HowMany` says how many places of a sequence
  hold a value of a set; `HitsAddUp` that the count of a flattened sequence of sequences is the
  sum of the counts of its parts, `JoinedAlike` that sequences whose parts count alike count
  alike, however they are cut (a block for each line or one for a page), and `ReorderedHolds` that
  sorting keeps it.  `FusionKeepsLines` is the heart: if one reading has a text `a` times and
  the other `b` times, the fusion has it `a + b - 1` times if both have it, since the index of
  first occurrences takes out one secondary line of that text and no other, and `a + b` times
  if not.  The bug variant that takes out all of them is refuted by TLC.  `SpansHoldTheLines`
  carries the count to the spans.  The invariant `OcrInv` is then short: the result is what
  the engines made of `made`, and the spans are those of the result.
* `CheckedDatesArePrinted`: the arithmetic is `OneConfusionIsFound`.  Six digits weighed by 7, 3, 1
  are compared with a digit; if one of the seven was taken for a look-alike and the digit
  still fits, the repair gives back the digit that was printed.  The weights have no factor in
  common with ten, so the sum changes by a multiple that vanishes only if the two
  characters agree modulo ten, and no two of `LookAlikes` do.  Everything else is about places: `MrzInv`
  says that the lines have the printed form (`PrintedZones`) and differ from the reading only where
  `misread` says; a heading may stand above them, which the parser takes for a line of
  the zone; `ParsedDatesAreRight` finds, for each of the types the lines can be taken for,
  the date at the place where it was printed, or a digit that cannot match.  Any number of
  characters outside the date may be misread.
* `NoPageIsLost`: candidates that leave an extractor are finite in number and about the
  entity that asked (`Claimable`), so the handler can make a case of each; a page without
  candidates always calls for the language model, so it leaves a noise item or a failure.
  What is left are the two exits for a missing database, and the theorem says that nothing
  else loses a page.
* `OthersStayOutside`, `LabelsMeanTheirDates`: the rules of the builder are lists from
  which the first that holds is taken; `RulesInOrder` says what that means for a
  list of any length, and the two theorems examine the rule that decided.  The lists of
  words stay as concrete as in the module, so this is a proof over all forms of a
  candidate and all piles.
* `OnePersonAgrees`: the weighted score is a recursive sum over all candidates
  (`SumsAreDefined`), but agreement comes from the hard conflicts alone; a merged value
  is that of the most confident candidate, which exists for any crowd that is not
  empty (`MostConfidentIsThere`).

**All services** (`ServicesProofs`).  `EachOnItsOwn`: a step of `MCServices` is for each service
a step of its own or none, so a behaviour of the run is one of every service, and every theorem
of the modules above holds of it.  `ServicesTyped` joins the types, which the
modules above prove at their ends.  For some services they were part of the safety invariant; the
others need one of their own:

* `RegistryInv`: each OCR engine is registered once, so that taking one out of several leaves at
  least one, which can become the default (`OthersStay`).
* `ScoreIsAPercentage`: the score of a resolution is a mean weighted by type.  Its two sums run over
  the finite set of matches (`MatchesAreFinite`); `TotalsExist` shows that such a sum is defined, by
  approximations that are right on ever larger subsets, and `TotalsCompare` that percentages weighted add
  up to at most a hundred times their weights.  `NumberedInOrder` keeps the entities below the bound.
* `GivenInv`: no row of a profile has an id that was not drawn.  `AskedInv`: who saves facts has a
  question left to tell of it.  `NamedInv`: the cases and entities a session names exist.
* `PlacesInv`: every recorder at work has a place left in the log.  `RecordedInv`: a failure that was
  recorded is of a stage of the pipeline.  `SavedInv`: no candidate is counted twice.
  `FillerTypes`: the rows a session works on are of fields of its form.

**Numbers** (`NumberLemmas`).  The induction theorems of the library take an operator as a
parameter, which the provers cannot instantiate.  The proofs that need induction use sets
instead: `LeastNumber` follows from the well-foundedness of `<` (`WFMin` takes a set), and
`NumbersByInduction` and `FiniteSetsAreListed` from it.

**What the assumptions leave out.**  `MrzAssumption`: a printed date is six digits.
`OcrAssumption`: a document has finitely many words, whose pages, lines and places are
numbers.  `AdvisoryAssumption`: days of expiry are
integers.  `BundleAssumption`: output types are finitely many.  `ExtractionAssumption`: fewer
than at least one accepted candidate is poor quality (the code has 4).
`GuidanceAssumption`: a bucket shows at least one case, a confidence is a percentage.
`ViewerAssumption`: facts are finitely many positive numbers in the order they were
accepted.  `StoreAssumption`: see above.  `AuditAssumption`, `ResolutionAssumption` and parts of
`ViewerAssumption`, `AdvisoryAssumption` say that bounds of the models are numbers.

**Only model-checked.**

* Liveness (`BothTablesSettle`, `OneTableSettles`, `UploadsSettle`, `FactsReachReview`): outside the
  prover's reach, as is ENABLED.
* The runs that expect a violation.

## 6. What is not modelled

* Texts, wording in three languages, prompts, spans, confidences that nothing compares,
  layout and styles.  Regular expressions are represented by the forms they tell apart.
* In the word lists of the knowledge builder and the extractors: names of the same list
  as one that is modelled.  The similarity of two words is given, not computed.
* Conflicts and the vault: `src/pipeline/handlers/entity_resolution_handler.py` refuses
  a batch for more than one entity, so the resolver has one cluster and the conflict
  branches of the build stage have nothing to compare.
* The profile and output stages of the upload write no table before the document
  is saved.  The job of the outputs page carries no profile, and
  `src/application/package_assembler.py` imports a module the repository does not have.
* The structurer of answers of a language model, the validation rules, the locks, the
  retry and the cache of `src/core/`, the case service beyond `open_case`, the form domain
  with its repositories in memory: nothing in the application calls them.
* Repositories and the connection appear through their effect: one statement is one
  step, commits by itself, and foreign keys, UNIQUE and CHECK constraints refuse it.
* A lost or duplicated message has no counterpart: components call each other
  in one process.
* OCR, LLM and PDF engines are external; their answer is a choice.
* The application itself registers the universal extractor and Tesseract alone
  (`src/ui/services/api_client.py:109-130`): the extractors of single types of document, with
  the registries "german" and "empty" of `Extraction`, and the fusion of two engines in
  `TextRecognition` are code of the repository that a caller has to wire up.
* In `PipelineArtifacts`: the recorded errors for snapshots no handler writes, in the stages
  that resolve the entity and build the facts.  The job fails with them as it does with the
  failures that are modelled.
* In the service modules: metadata; errors inside rollback; the HMAC of audit entries
  and the queries over them; reading and drawing PDF files.

`PROJECT.json` gives the reason for each component with status `not_modelled`, and says of
each with status `partly` what is left out.

## 7. Plan

Done, in the order of importance: `JobPipeline` (with `JobLifecycle`), `HumanReview`,
`DocumentFlow` (with `DocumentArchive`), with their invariants proved; then the services
with state of their own (`NoiseQueue`, `ReviewDesk`, `FileTransaction`, `AuditLog`,
`FormTemplates`, `ProfileFields`, `SchemaMigration`), the way from a page to a profile
(`Mrz`, `TextRecognition`, `Extraction`, `KnowledgeBuild`, `EntityResolution`, `FactStore`,
`PipelineArtifacts`), and what the user sees (`FormFilling`, `Advisory`, `Guidance`), each with
its safety property proved.

What could follow:

1. The names and the relaxed lines of the machine readable zone, with `german_dates.py`.
2. The libraries nothing calls, as far as they have state: `core/locking.py` (the file
   of a lock is unlinked under a waiter), `core/cache.py`, the vault with its conflicts,
   the unit of work of the case service, package assembly.
3. Validation rules as operators against reference definitions.
