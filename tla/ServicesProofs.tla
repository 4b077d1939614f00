---------------------------- MODULE ServicesProofs ----------------------------
(***************************************************************************)
(* The services side by side: what is proved of each on its own holds of   *)
(* the run that explores all of them, since a step of one leaves the       *)
(* others alone.                                                           *)
(***************************************************************************)
EXTENDS MCServices, StoreProofs, PageProofs, ReadingProofs

\* The services begin where each of them begins.
LEMMA AllBegin ==
  Init => /\ NoiseInit /\ DeskInit /\ FileInit /\ AuditInit /\ FormInit /\ MrzInit
          /\ ExtractionInit /\ KnowledgeInit /\ ResolutionInit /\ ProfileInit /\ AdvisoryInit /\ OcrInit
          /\ BundleInit /\ StoreInit /\ FillingInit /\ MigrationInit /\ GuidanceInit
  BY DEF Init

\* A step of the services is, for each of them, one of its own or none.
LEMMA OneMovesAtMost ==
  [Next]_allVars => /\ [NoiseNext]_noiseVars /\ [DeskNext]_deskVars /\ [FileNext]_fileVars
                    /\ [AuditNext]_auditVars /\ [FormNext]_formVars /\ [MrzNext]_mrzVars
                    /\ [ExtractionNext]_extractionVars /\ [KnowledgeNext]_knowledgeVars /\ [ResolutionNext]_resolutionVars
                    /\ [ProfileNext]_profileVars /\ [AdvisoryNext]_advisoryVars /\ [OcrNext]_ocrVars
                    /\ [BundleNext]_bundleVars /\ [StoreNext]_storeVars /\ [FillingNext]_fillingVars
                    /\ [MigrationNext]_migrationVars /\ [GuidanceNext]_guidanceVars
<1>1. CASE Next
  BY <1>1, Zenon DEF Next
<1>2. CASE UNCHANGED allVars
  BY <1>2, Zenon DEF allVars
<1> QED
  BY <1>1, <1>2, Zenon

\* What the run explores is a behaviour of each service on its own, so that every
\* theorem about one of them holds of the run.
THEOREM EachOnItsOwn ==
  Spec => /\ NoiseSpec /\ DeskSpec /\ FileSpec /\ AuditSpec /\ FormSpec /\ MrzSpec
          /\ ExtractionSpec /\ KnowledgeSpec /\ ResolutionSpec /\ ProfileSpec /\ AdvisorySpec /\ OcrSpec
          /\ BundleSpec /\ StoreSpec /\ FillingSpec /\ MigrationSpec /\ GuidanceSpec
<1>1. Spec => NoiseSpec
  BY AllBegin, OneMovesAtMost, PTL DEF Spec, NoiseSpec
<1>2. Spec => DeskSpec
  BY AllBegin, OneMovesAtMost, PTL DEF Spec, DeskSpec
<1>3. Spec => FileSpec
  BY AllBegin, OneMovesAtMost, PTL DEF Spec, FileSpec
<1>4. Spec => AuditSpec
  BY AllBegin, OneMovesAtMost, PTL DEF Spec, AuditSpec
<1>5. Spec => FormSpec
  BY AllBegin, OneMovesAtMost, PTL DEF Spec, FormSpec
<1>6. Spec => MrzSpec
  BY AllBegin, OneMovesAtMost, PTL DEF Spec, MrzSpec
<1>7. Spec => ExtractionSpec
  BY AllBegin, OneMovesAtMost, PTL DEF Spec, ExtractionSpec
<1>8. Spec => KnowledgeSpec
  BY AllBegin, OneMovesAtMost, PTL DEF Spec, KnowledgeSpec
<1>9. Spec => ResolutionSpec
  BY AllBegin, OneMovesAtMost, PTL DEF Spec, ResolutionSpec
<1>10. Spec => ProfileSpec
  BY AllBegin, OneMovesAtMost, PTL DEF Spec, ProfileSpec
<1>11. Spec => AdvisorySpec
  BY AllBegin, OneMovesAtMost, PTL DEF Spec, AdvisorySpec
<1>12. Spec => OcrSpec
  BY AllBegin, OneMovesAtMost, PTL DEF Spec, OcrSpec
<1>13. Spec => BundleSpec
  BY AllBegin, OneMovesAtMost, PTL DEF Spec, BundleSpec
<1>14. Spec => StoreSpec
  BY AllBegin, OneMovesAtMost, PTL DEF Spec, StoreSpec
<1>15. Spec => FillingSpec
  BY AllBegin, OneMovesAtMost, PTL DEF Spec, FillingSpec
<1>16. Spec => MigrationSpec
  BY AllBegin, OneMovesAtMost, PTL DEF Spec, MigrationSpec
<1>17. Spec => GuidanceSpec
  BY AllBegin, OneMovesAtMost, PTL DEF Spec, GuidanceSpec
<1> QED
  BY <1>1, <1>2, <1>3, <1>4, <1>5, <1>6, <1>7, <1>8, <1>9, <1>10, <1>11, <1>12, <1>13, <1>14, <1>15, <1>16, <1>17

\* Every table, queue, log, result and process of the services keeps its type,
\* whatever the files, words, dates, fields and bounds are.
THEOREM ServicesTyped == Spec => []ServicesTypeOK
<1>1. Spec => /\ []NoiseTypeOK /\ []DeskTypeOK /\ []FileTypeOK /\ []AuditTypeOK
              /\ []FormTypeOK /\ []MrzTypeOK /\ []ExtractionTypeOK /\ []KnowledgeTypeOK
              /\ []ResolutionTypeOK /\ []ProfileTypeOK /\ []AdvisoryTypeOK /\ []OcrTypeOK
              /\ []BundleTypeOK /\ []StoreTypeOK /\ []FillingTypeOK /\ []MigrationTypeOK
              /\ []GuidanceTypeOK
  BY EachOnItsOwn, NoiseTyped, DeskTyped, FileTyped, AuditTyped, FormTyped, ZoneTyped, ExtractionTyped, KnowledgeTyped, ResolutionTyped, ProfileTyped, AdvisoryTyped, OcrTyped, BundleTyped, StoreTyped, FillingTyped, MigrationTyped, GuidanceTyped
<1>2. /\ NoiseTypeOK /\ DeskTypeOK /\ FileTypeOK /\ AuditTypeOK
      /\ FormTypeOK /\ MrzTypeOK /\ ExtractionTypeOK /\ KnowledgeTypeOK
      /\ ResolutionTypeOK /\ ProfileTypeOK /\ AdvisoryTypeOK /\ OcrTypeOK
      /\ BundleTypeOK /\ StoreTypeOK /\ FillingTypeOK /\ MigrationTypeOK
      /\ GuidanceTypeOK
      => ServicesTypeOK
  BY DEF ServicesTypeOK
<1> QED
  BY <1>1, <1>2, PTL
=============================================================================
