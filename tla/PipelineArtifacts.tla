-------------------------- MODULE PipelineArtifacts --------------------------
(***************************************************************************)
(* What the stages of a pipeline job leave behind: the artifacts in the    *)
(* bundle of the job and the failures in its collection                    *)
(* (pipeline/artifact.py, failure.py, pipeline_context.py, the handlers    *)
(* behind sequential_pipeline_handler.py).                                 *)
(*                                                                         *)
(* A stage finds its input in the bundle, by kind or by the sources of     *)
(* another artifact, and adds one artifact of its own or a failure; an     *)
(* exception it does not catch is swallowed.  The dispatcher reads the     *)
(* verdict off the failures.  A retry runs every stage again on the bundle *)
(* and the failures of the attempts before.  Upload runs the stages once,  *)
(* inline: that is a first attempt without its verdict.                    *)
(*                                                                         *)
(* An artifact is named by its place in the bundle: generate_artifact_id   *)
(* draws a new id and all() keeps the order of add.  Texts, categories and *)
(* counts are left out.                                                    *)
(***************************************************************************)
EXTENDS Naturals, Sequences, FiniteSets, SequencesExt

CONSTANTS
    MaxRetries,    \* Job.max_retries
    OutputTypes    \* the output types OutputBuildHandler asks for

ASSUME BundleAssumption == MaxRetries \in Nat /\ IsFiniteSet(OutputTypes)

VARIABLES
    upload,      \* the document in the payload of the job
    bundle,      \* ArtifactBundle._order
    failures,    \* what FailureCollection holds, without repetition
    stage,       \* the place in Stages of the stage to run
    retryCount,
    verdict

bundleVars == <<upload, bundle, failures, stage, retryCount, verdict>>

-----------------------------------------------------------------------------
Stages == <<"document_import", "ocr", "classification", "extraction", "entity_resolution",
            "knowledge_build", "fact_acceptance", "profile_build", "output_build">>

MustTry == {"classification", "extraction", "entity_resolution", "knowledge_build",
            "fact_acceptance"}

\* no document or one from_dict refuses, a document with its type, one without
Uploads == {"broken", "typed", "untyped"}

(* The artifacts: what they hold for the stages to come, and the places of   *)
(* their sources.                                                           *)
DocumentArtifact(sources, typed) == [kind |-> "document", from |-> sources, typed |-> typed]
OcrArtifact(source) == [kind |-> "ocr", from |-> {source}]
ExtractionArtifact(source, candidates) ==
    [kind |-> "extraction", from |-> {source}, candidates |-> candidates]
EntityResolutionArtifact(readings) == [kind |-> "resolution", from |-> readings]
KnowledgeBuildArtifact(source) == [kind |-> "knowledge", from |-> {source}]
FactAcceptanceArtifact(source) == [kind |-> "acceptance", from |-> {source}]
ProfileArtifact(source) == [kind |-> "profile", from |-> {source}]
OutputArtifact(source) == [kind |-> "output", from |-> {source}]

Kinds == {"document", "ocr", "extraction", "resolution", "knowledge", "acceptance",
          "profile", "output"}

OfKind(kind) == {i \in DOMAIN bundle : bundle[i].kind = kind}
NewestOf(kind) == CHOOSE i \in OfKind(kind) : \A j \in OfKind(kind) : j <= i

\* BaseArtifact.is_root
IsRoot(i) == bundle[i].from = {}

\* an artifact and everything it was made from
Lineage[i \in DOMAIN bundle] == {i} \cup UNION {Lineage[j] : j \in bundle[i].from}

\* ArtifactBundle.from_dict: the list of to_dict is added again, one artifact at a time
Restored(items) ==
    LET added[n \in 0..Len(items)] == IF n = 0 THEN <<>> ELSE Append(added[n - 1], items[n])
    IN  added[Len(items)]

(* The failures *)
Failure(name, severity, retryable, review) ==
    [stage |-> name, severity |-> severity, retryable |-> retryable, review |-> review]

HasCritical == \E f \in failures : f.severity = "critical"

RecoveryDecision ==
    CASE failures = {} -> "continue"
      [] HasCritical -> "abort"
      [] ~HasCritical /\ \E f \in failures : f.retryable -> "retry"
      [] failures # {} /\ ~HasCritical /\ \A f \in failures : ~f.retryable ->
            IF \E f \in failures : f.review THEN "escalate" ELSE "abort"

BundleTypeOK ==
    /\ upload \in Uploads
    /\ \A i \in DOMAIN bundle : bundle[i].kind \in Kinds /\ bundle[i].from \subseteq 1..(i - 1)
    /\ \A f \in failures : f \in [stage : Range(Stages),
            severity : {"critical", "error", "warning"}, retryable : BOOLEAN, review : BOOLEAN]
    /\ stage \in 1..(Len(Stages) + 1)
    /\ retryCount \in 0..MaxRetries
    /\ verdict \in {"running", "retrying", "completed", "failed"}

BundleInit ==
    /\ upload \in Uploads
    /\ bundle = <<>> /\ failures = {}
    /\ stage = 1 /\ retryCount = 0 /\ verdict = "running"

-----------------------------------------------------------------------------
(* SequentialPipelineHandler.handle *)

\* a stage is run unless a critical failure stands against it
At(name) ==
    /\ verdict = "running"
    /\ stage <= Len(Stages) /\ Stages[stage] = name
    /\ HasCritical => name \in MustTry
    /\ stage' = stage + 1
    /\ UNCHANGED <<upload, retryCount, verdict>>

Skip ==
    /\ verdict = "running" /\ stage <= Len(Stages)
    /\ HasCritical /\ Stages[stage] \notin MustTry
    /\ stage' = stage + 1
    /\ UNCHANGED <<upload, bundle, failures, retryCount, verdict>>

Emits(artifacts) == bundle' = bundle \o artifacts /\ UNCHANGED failures

Fails(name, severity, retryable, review) ==
    /\ failures' = failures \cup {Failure(name, severity, retryable, review)}
    /\ UNCHANGED bundle

\* an exception nobody recorded, or nothing to do
LeavesNothing == UNCHANGED <<bundle, failures>>

ImportDocument ==
    /\ At("document_import")
    /\ IF upload = "broken" THEN Fails("document_import", "critical", FALSE, TRUE)
       ELSE Emits(<<DocumentArtifact({}, upload = "typed")>>)

\* the newest document: on a retry it is the one imported again.  Source.from_document
\* stands outside the handler's try
ReadText ==
    /\ At("ocr")
    /\ \/ Emits(<<OcrArtifact(NewestOf("document"))>>)
       \/ \E retryable \in BOOLEAN : Fails("ocr", "critical", retryable, TRUE)
       \/ LeavesNothing

\* the document the newest text was read from
DocumentOf(text) == CHOOSE i \in bundle[text].from : bundle[i].kind = "document"

Classify ==
    /\ At("classification")
    /\ IF OfKind("ocr") = {} THEN Fails("classification", "error", FALSE, FALSE)
       ELSE LET doc == DocumentOf(NewestOf("ocr")) IN
            IF bundle[doc].typed THEN LeavesNothing
            ELSE Emits(<<DocumentArtifact({doc}, TRUE)>>)

\* request refused, extraction unsuccessful or raised; an artifact with or without
\* candidates, and possibly the failure to save their cases or the noise item
Extract ==
    /\ At("extraction")
    /\ IF OfKind("ocr") = {} THEN Fails("extraction", "error", FALSE, FALSE)
       ELSE \/ Fails("extraction", "error", TRUE, FALSE)
            \/ Fails("extraction", "warning", TRUE, FALSE)
            \/ Fails("extraction", "critical", FALSE, TRUE)
            \/ \E candidates \in BOOLEAN, unsaved \in BOOLEAN :
                /\ bundle' = Append(bundle, ExtractionArtifact(NewestOf("ocr"), candidates))
                /\ failures' = IF unsaved
                               THEN failures \cup {Failure("extraction", "warning", FALSE, FALSE)}
                               ELSE failures

\* every reading there is, those of earlier attempts too
ResolveEntity ==
    /\ At("entity_resolution")
    /\ IF OfKind("extraction") = {} THEN Fails("entity_resolution", "error", FALSE, FALSE)
       ELSE IF \A i \in OfKind("extraction") : ~bundle[i].candidates
            THEN Fails("entity_resolution", "warning", FALSE, FALSE)
       ELSE \/ Fails("entity_resolution", "critical", FALSE, TRUE)
            \/ Emits(<<EntityResolutionArtifact(OfKind("extraction"))>>)

\* the gate refused every candidate, or the service raised
BuildFacts ==
    /\ At("knowledge_build")
    /\ IF OfKind("resolution") = {} THEN Fails("knowledge_build", "error", FALSE, FALSE)
       ELSE \/ Fails("knowledge_build", "warning", FALSE, FALSE)
            \/ Fails("knowledge_build", "critical", FALSE, TRUE)
            \/ Emits(<<KnowledgeBuildArtifact(NewestOf("resolution"))>>)

AcceptFacts ==
    /\ At("fact_acceptance")
    /\ IF OfKind("knowledge") = {} THEN Fails("fact_acceptance", "error", FALSE, FALSE)
       ELSE \/ Fails("fact_acceptance", "critical", FALSE, TRUE)
            \/ Emits(<<FactAcceptanceArtifact(NewestOf("knowledge"))>>)

\* the entity is unknown or the service raised, no fact was accepted yet, or the lookup of
\* the entity, outside the handler's try, raised
ProfileBuild ==
    /\ At("profile_build")
    /\ IF OfKind("acceptance") = {} THEN Fails("profile_build", "warning", FALSE, FALSE)
       ELSE \/ Fails("profile_build", "error", FALSE, TRUE)
            \/ Fails("profile_build", "warning", FALSE, FALSE)
            \/ LeavesNothing
            \/ Emits(<<ProfileArtifact(NewestOf("acceptance"))>>)

\* the types a generator is registered for and succeeds with; the others are only logged
GeneratedOutputs(generated) == [n \in 1..Cardinality(generated) |-> OutputArtifact(NewestOf("profile"))]

\* Bug variant: a job without a profile has nothing to put out, and nothing to report.
OutputBuildSilently ==
    /\ At("output_build")
    /\ IF OfKind("profile") = {} THEN LeavesNothing
       ELSE \E generated \in SUBSET OutputTypes :
            IF generated = {} THEN Fails("output_build", "error", FALSE, TRUE)
            ELSE Emits(GeneratedOutputs(generated))

OutputBuild ==
    /\ At("output_build")
    /\ IF OfKind("profile") = {} THEN Fails("output_build", "error", FALSE, TRUE)
       ELSE \E generated \in SUBSET OutputTypes :
            IF generated = {} THEN Fails("output_build", "error", FALSE, TRUE)
            ELSE Emits(GeneratedOutputs(generated))

-----------------------------------------------------------------------------
(* Dispatcher._route and the next _tick *)
CanRetry == retryCount < MaxRetries

Route ==
    /\ verdict = "running" /\ stage > Len(Stages)
    /\ verdict' = CASE RecoveryDecision = "continue" -> "completed"
                    [] RecoveryDecision = "retry" /\ CanRetry -> "retrying"
                    [] OTHER -> "failed"
    /\ retryCount' = IF verdict' = "retrying" THEN retryCount + 1 ELSE retryCount
    /\ UNCHANGED <<upload, bundle, failures, stage>>

\* the job is loaded from its row again and every stage is run once more
RunAgain ==
    /\ verdict = "retrying"
    /\ bundle' = Restored(bundle)
    /\ stage' = 1 /\ verdict' = "running"
    /\ UNCHANGED <<upload, failures, retryCount>>

BundleNext ==
    \/ Skip \/ ImportDocument \/ ReadText \/ Classify \/ Extract \/ ResolveEntity
    \/ BuildFacts \/ AcceptFacts \/ ProfileBuild \/ OutputBuild \/ Route \/ RunAgain

BundleSpec == BundleInit /\ [][BundleNext]_bundleVars

-----------------------------------------------------------------------------
\* Although stages swallow what goes wrong and the next ones go on with what they find, a
\* job completes only with an output, and every output leads back through each of the
\* stages to the one document that was uploaded: whatever a stage did not do is reported by
\* it or by a stage behind it.
CompletedMeansBuilt ==
    verdict = "completed" =>
        /\ OfKind("output") # {}
        /\ \A out \in OfKind("output") :
            /\ {bundle[i].kind : i \in Lineage[out]} = Kinds
            /\ {i \in Lineage[out] : IsRoot(i)} = {1}

\* Knowledge never loses a reading: what is resolved in a later attempt rests on every
\* text extracted in the attempts before, and on the document each was read from.
ReadingsAreResolved ==
    \A r \in OfKind("resolution") : \A i \in 1..r :
        bundle[i].kind = "extraction" =>
            /\ i \in Lineage[r]
            /\ \E root \in Lineage[r] \cap Lineage[i] : IsRoot(root)

\* What a job reports rests on all it read, attempt after attempt, and on its one document.
OutputsLeadBack == CompletedMeansBuilt /\ ReadingsAreResolved
=============================================================================
