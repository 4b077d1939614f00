----------------------------- MODULE MCServices -----------------------------
(***************************************************************************)
(* The services that share no state with each other, explored side by side *)
(* in one run: `part` names the one whose steps a behaviour takes, and the *)
(* others rest in an initial state.                                        *)
(***************************************************************************)
EXTENDS NoiseQueue, ReviewDesk, FileTransaction, AuditLog, FormTemplates, Mrz, Extraction,
    KnowledgeBuild, EntityResolution, ProfileFields, Advisory, TextRecognition,
    PipelineArtifacts, FactStore, FormFilling, SchemaMigration, Guidance, TLC

VARIABLE part

Parts == {"noise", "desk", "files", "audit", "forms", "zone", "extraction", "knowledge",
          "entities", "profile", "advisory", "ocr", "bundle", "store", "filling", "schema", "guidance"}

allVars == <<part, noiseVars, deskVars, fileVars, auditVars, formVars, mrzVars,
             extractionVars, knowledgeVars, resolutionVars, profileVars, advisoryVars,
             ocrVars, bundleVars, storeVars, fillingVars, migrationVars, guidanceVars>>

Init ==
    /\ part \in Parts
    /\ NoiseInit /\ DeskInit /\ FileInit /\ AuditInit /\ FormInit
    /\ MrzInit /\ ExtractionInit /\ KnowledgeInit /\ ResolutionInit
    /\ ProfileInit /\ AdvisoryInit /\ OcrInit /\ BundleInit /\ StoreInit
    /\ FillingInit /\ MigrationInit /\ GuidanceInit
    \* a part at rest starts in one initial state only
    /\ part # "noise" => \A p \in Pages : page[p].item = CHOOSE i \in Items : TRUE
    /\ part # "files" => files = [p \in Paths |-> p]
    /\ part # "bundle" => upload = "typed"
    /\ part # "schema" => tables = [n \in Tables |-> NoTable]
    /\ part # "filling" => filler.person = CHOOSE p \in Applicants : TRUE

Next ==
    /\ UNCHANGED part
    /\ IF part = "noise" THEN NoiseNext ELSE UNCHANGED noiseVars
    /\ IF part = "desk" THEN DeskNext ELSE UNCHANGED deskVars
    /\ IF part = "files" THEN FileNext ELSE UNCHANGED fileVars
    /\ IF part = "audit" THEN AuditNext ELSE UNCHANGED auditVars
    /\ IF part = "forms" THEN FormNext ELSE UNCHANGED formVars
    /\ IF part = "zone" THEN MrzNext ELSE UNCHANGED mrzVars
    /\ IF part = "extraction" THEN ExtractionNext ELSE UNCHANGED extractionVars
    /\ IF part = "knowledge" THEN KnowledgeNext ELSE UNCHANGED knowledgeVars
    /\ IF part = "entities" THEN ResolutionNext ELSE UNCHANGED resolutionVars
    /\ IF part = "profile" THEN ProfileNext ELSE UNCHANGED profileVars
    /\ IF part = "advisory" THEN AdvisoryNext ELSE UNCHANGED advisoryVars
    /\ IF part = "ocr" THEN OcrNext ELSE UNCHANGED ocrVars
    /\ IF part = "bundle" THEN BundleNext ELSE UNCHANGED bundleVars
    /\ IF part = "store" THEN StoreNext ELSE UNCHANGED storeVars
    /\ IF part = "filling" THEN FillingNext ELSE UNCHANGED fillingVars
    /\ IF part = "schema" THEN MigrationNext ELSE UNCHANGED migrationVars
    /\ IF part = "guidance" THEN GuidanceNext ELSE UNCHANGED guidanceVars

Spec == Init /\ [][Next]_allVars

\* Every table, queue, log, result and process of the services keeps its type.
ServicesTypeOK ==
    /\ NoiseTypeOK /\ DeskTypeOK /\ FileTypeOK /\ AuditTypeOK /\ FormTypeOK
    /\ MrzTypeOK /\ ExtractionTypeOK /\ KnowledgeTypeOK /\ FillingTypeOK /\ MigrationTypeOK
    /\ ResolutionTypeOK /\ ProfileTypeOK /\ AdvisoryTypeOK /\ OcrTypeOK
    /\ BundleTypeOK /\ StoreTypeOK /\ GuidanceTypeOK

\* 6 August 1966 and 31 December 1995
TwoDates == {<<6, 6, 0, 8, 0, 6>>, <<9, 5, 1, 2, 3, 1>>}

FourWords == {<<1, 1, 1>>, <<1, 1, 2>>, <<1, 2, 1>>, <<2, 1, 1>>}

TwoSurnames == <<"surname", "surname">>

\* the dates of two centuries that the last two digits of the year do not tell apart, one
\* whose digits begin like a year, and an ordinary one
SomeDates ==
    {[day |-> 20, month |-> 6, year |-> 1990], [day |-> 20, month |-> 6, year |-> 1919],
     [day |-> 20, month |-> 6, year |-> 2019], [day |-> 19, month |-> 2, year |-> 2001]}

\* a required field of the registration form, one with a label that fits two rules, and a box
SomeFormFields ==
    {[place |-> <<1, 22, 85>>, words |-> {}, technical |-> FALSE, checkbox |-> FALSE],
     [place |-> <<>>, words |-> {"address", "new_address"}, technical |-> FALSE, checkbox |-> FALSE],
     [place |-> <<>>, words |-> {}, technical |-> TRUE, checkbox |-> TRUE]}

\* a case that is shown, one of low value on the edge of a bucket, and one that is hidden
SomeCaseKinds ==
    {[type |-> "surname", confidence |-> 100], [type |-> "bic", confidence |-> 50],
     [type |-> "surname", confidence |-> 49]}
=============================================================================
