--------------------------- MODULE ReadingProofs ----------------------------
(***************************************************************************)
(* Proofs about what the program reads out of a document: the text that    *)
(* OCR recognises, the dates of a machine readable zone, the extraction of *)
(* candidates, their filtering and naming, and the resolution of a person  *)
(* among the known ones.  Each part states its inductive invariant, one    *)
(* lemma per group of actions, and its theorems.                           *)
(***************************************************************************)
EXTENDS EntityResolution, Extraction, KnowledgeBuild, Mrz, TextRecognition, NumberLemmas

-----------------------------------------------------------------------------
(* Extraction *)

\* what may leave an extractor: candidates about the entity that asked
Claimable(candidates) == IsFiniteSet(candidates) /\ \A c \in candidates : c.entity = "requester"

ExtractionInv ==
    /\ work = [pc |-> work.pc, candidates |-> work.candidates, pending |-> work.pending,
               saved |-> work.saved, noise |-> work.noise, failed |-> work.failed, skipped |-> work.skipped]
    /\ work.pc \in {"idle", "extract", "settle", "done"}
    /\ Claimable(work.candidates)
    /\ work.pc # "idle" => sheet \in Sheets
    /\ work.pc = "settle" /\ work.candidates = {} => work.pending
    /\ work.pc # "done" => /\ work.saved = 0 /\ work.noise = FALSE
                           /\ work.failed = FALSE /\ work.skipped = FALSE
    /\ PagesEndSomewhere

\* What a function takes from a finite set is finite.
LEMMA ImageIsFinite ==
  ASSUME NEW S, IsFiniteSet(S), NEW f, DOMAIN f = S
  PROVE  IsFiniteSet({f[x] : x \in S})
<1> DEFINE T == {f[x] : x \in S}
<1> DEFINE g == [x \in S |-> f[x]]
<1>1. g \in [S -> T] /\ \A y \in T : \E x \in S : g[x] = y
  OBVIOUS
<1>2. g \in Surjection(S, T)
  <2> HIDE DEF g, T
  <2> QED
    BY <1>1 DEF Surjection
<1> QED
  BY <1>2, FS_Surjection

\* A handful of things is finite.
LEMMA FourAreFinite ==
  ASSUME NEW a, NEW b, NEW c, NEW d
  PROVE  IsFiniteSet({a, b, c, d})
<1>1. IsFiniteSet({a})
  BY FS_Singleton
<1>2. IsFiniteSet({a} \cup {b})
  BY <1>1, FS_AddElement
<1>3. IsFiniteSet(({a} \cup {b}) \cup {c})
  BY <1>2, FS_AddElement
<1>4. IsFiniteSet((({a} \cup {b}) \cup {c}) \cup {d})
  BY <1>3, FS_AddElement
<1>5. {a, b, c, d} = ((({a} \cup {b}) \cup {c}) \cup {d})
  OBVIOUS
<1> QED
  BY <1>4, <1>5

\* A page holds finitely many labelled values.
LEMMA LinesOnAPage ==
  ASSUME sheet \in Sheets
  PROVE  IsFiniteSet(sheet.lines)
<1>1. sheet.lines \subseteq Lines
  BY DEF Sheets
<1> DEFINE Labelled(label, form) == [label |-> label, form |-> form]
<1> DEFINE A == {Labelled("surname", "word"), Labelled("surname", "label"), Labelled("place_of_birth", "label"), Labelled("employer", "label")}
<1> DEFINE B == {Labelled("date_of_birth", "dayFirst"), Labelled("date_of_issue", "dayFirst"), Labelled("gross_salary", "amount"), Labelled("iban", "account")}
<1> DEFINE C == {Labelled("passport_number", "code"), Labelled("invoice_number", "code"), Labelled("total_amount", "amount"), Labelled("closing_balance", "amount")}
<1> DEFINE D == {Labelled("line_items_raw", "table"), Labelled("probation_end_date", "dayFirst"), Labelled("line_items_raw", "table"), Labelled("probation_end_date", "dayFirst")}
<1>2. IsFiniteSet(A) /\ IsFiniteSet(B) /\ IsFiniteSet(C) /\ IsFiniteSet(D)
  <2> HIDE DEF Labelled
  <2> QED
    BY FourAreFinite
<1>3. Lines = (A \cup B) \cup (C \cup D)
  BY Zenon DEF Lines
<1>4. IsFiniteSet((A \cup B) \cup (C \cup D))
  <2> HIDE DEF A, B, C, D
  <2> QED
    BY <1>2, FS_Union
<1> HIDE DEF A, B, C, D
<1> QED
  BY <1>1, <1>3, <1>4, FS_Subset

-----------------------------------------------------------------------------
(* What the extractors find *)

\* What the extractors make of a page is about the entity that asked.
LEMMA CandidateIsRequested == \A type, form : Candidate(type, form).entity = "requester"
  BY DEF Candidate

\* Candidates found one by one in a finite set are claimable.
LEMMA ImageIsClaimable ==
  ASSUME NEW S, IsFiniteSet(S), NEW f, DOMAIN f = S, \A x \in S : f[x].entity = "requester"
  PROVE  Claimable({f[x] : x \in S})
  BY ImageIsFinite DEF Claimable

\* Claimable candidates stay claimable together.
LEMMA ClaimableTogether ==
  ASSUME NEW A, Claimable(A), NEW B, Claimable(B)
  PROVE  Claimable(A \cup B)
  BY FS_Union DEF Claimable

\* One candidate or two about the entity that asked are claimable.
LEMMA OneIsClaimable ==
  /\ Claimable({})
  /\ \A c : c.entity = "requester" => Claimable({c})
  /\ \A c, d : c.entity = "requester" /\ d.entity = "requester" => Claimable({c, d})
<1>1. \A c, d : IsFiniteSet({c, d}) /\ IsFiniteSet({c})
  <2> TAKE c, d
  <2>1. {c, c, c, c} = {c} /\ {c, c, d, d} = {c, d}
    OBVIOUS
  <2>2. IsFiniteSet({c, c, c, c}) /\ IsFiniteSet({c, c, d, d})
    BY FourAreFinite
  <2> QED
    BY <2>1, <2>2
<1> QED
  BY <1>1, FS_EmptySet DEF Claimable

\* A result adds no candidates.
LEMMA ResultIsClaimable ==
  ASSUME NEW candidates, Claimable(candidates)
  PROVE  Claimable(ResultOf(candidates).candidates)
  BY DEF ResultOf, Claimable

\* Candidates about the document make the result a failure, unless there are none.
LEMMA DocumentsAreRefused ==
  ASSUME NEW candidates, \A c \in candidates : c.entity = "document"
  PROVE  ResultOf(candidates).ok => Claimable(ResultOf(candidates).candidates)
  BY OneIsClaimable DEF ResultOf

\* The values of some of the labels.
LEMMA LabelledAreClaimable ==
  ASSUME sheet \in Sheets, NEW L \in SUBSET sheet.lines
  PROVE  /\ Claimable({Candidate(l.label, l.form) : l \in L})
         /\ Claimable({Candidate("document_label", l.label) : l \in L})
<1>1. IsFiniteSet(L)
  BY LinesOnAPage, FS_Subset
<1>2. Claimable({Candidate(l.label, l.form) : l \in L})
  <2> DEFINE f == [l \in L |-> Candidate(l.label, l.form)]
  <2>1. DOMAIN f = L /\ \A l \in L : f[l].entity = "requester"
    BY CandidateIsRequested
  <2>2. {Candidate(l.label, l.form) : l \in L} = {f[l] : l \in L}
    OBVIOUS
  <2> HIDE DEF f
  <2> QED
    <3>1. Claimable({f[l] : l \in L})
      BY <1>1, <2>1, ImageIsClaimable
    <3> QED
      BY ONLY <2>2, <3>1, Zenon
<1>3. Claimable({Candidate("document_label", l.label) : l \in L})
  <2> DEFINE f == [l \in L |-> Candidate("document_label", l.label)]
  <2>1. DOMAIN f = L /\ \A l \in L : f[l].entity = "requester"
    BY CandidateIsRequested
  <2>2. {Candidate("document_label", l.label) : l \in L} = {f[l] : l \in L}
    OBVIOUS
  <2> HIDE DEF f
  <2> QED
    <3>1. Claimable({f[l] : l \in L})
      BY <1>1, <2>1, ImageIsClaimable
    <3> QED
      BY ONLY <2>2, <3>1, Zenon
<1> QED
  BY <1>2, <1>3

\* The patterns of the universal extractor find claimable candidates.
LEMMA PatternsAreClaimable ==
  ASSUME sheet \in Sheets PROVE Claimable(UniversalPatterns)
<1> DEFINE f == [l \in sheet.lines |->
      CASE l.form = "dayFirst" -> {Candidate("date", "dayFirst"), Candidate("phone_number", l.label)}
        [] l.form = "amount" -> {Candidate("amount", l.label)}
        [] l.form = "account" -> {Candidate("iban", "account"), Candidate("phone_number", l.label)}
        [] OTHER -> {}]
<1>1. UniversalPatterns = UNION {f[l] : l \in sheet.lines}
  BY DEF UniversalPatterns
<1>2. ASSUME NEW l \in sheet.lines PROVE Claimable(f[l])
  <2>2. \/ f[l] = {Candidate("date", "dayFirst"), Candidate("phone_number", l.label)}
        \/ f[l] = {Candidate("amount", l.label)}
        \/ f[l] = {Candidate("iban", "account"), Candidate("phone_number", l.label)}
        \/ f[l] = {}
    BY Zenon
  <2> HIDE DEF f
  <2> QED
    BY <2>2, OneIsClaimable, CandidateIsRequested
<1>3. DOMAIN f = sheet.lines
  OBVIOUS
<1> HIDE DEF f
<1>4. IsFiniteSet({f[l] : l \in sheet.lines})
  BY <1>3, LinesOnAPage, ImageIsFinite
<1>5. IsFiniteSet(UNION {f[l] : l \in sheet.lines})
  BY <1>2, <1>4, FS_UNION DEF Claimable
<1> QED
  BY <1>1, <1>2, <1>5 DEF Claimable

\* The universal extractor finds claimable candidates.
LEMMA UniversalIsClaimable ==
  ASSUME sheet \in Sheets PROVE Claimable(Universal.candidates)
<1>1. Claimable(UniversalLabelValues) /\ Claimable(UniversalContext)
  BY LabelledAreClaimable DEF UniversalLabelValues, UniversalContext
<1>2. Claimable(UniversalZone)
  BY OneIsClaimable, CandidateIsRequested DEF UniversalZone
<1>3. Claimable(((UniversalLabelValues \cup UniversalPatterns) \cup UniversalContext) \cup UniversalZone)
  BY <1>1, <1>2, PatternsAreClaimable, ClaimableTogether
<1> QED
  BY <1>3, ResultIsClaimable DEF Universal

\* The passport extractor finds claimable candidates.
LEMMA PassportIsClaimable ==
  ASSUME sheet \in Sheets PROVE Claimable(Passport.candidates)
<1>1. Claimable(PassportLabels)
  BY LabelledAreClaimable DEF PassportLabels
<1>2. Claimable(PassportZone)
  <2> DEFINE f == [type \in ZoneTypes |-> Candidate(type, "word")]
  <2> DEFINE more == {Candidate("document_code", "letter"), Candidate("passport_number", "code"), Candidate("mrz_confidence", "number"),
                      Candidate("date_of_birth", ZoneDate), Candidate("date_of_expiry", ZoneDate)}
  <2>1. IsFiniteSet(ZoneTypes)
    <3>1. ZoneTypes = {"issuing_country", "surname", "given_names", "nationality"} \cup {"sex", "mrz_status", "mrz_check_passed", "sex"}
      BY DEF ZoneTypes
    <3> QED
      BY <3>1, FourAreFinite, FS_Union
  <2>2. Claimable({f[type] : type \in ZoneTypes})
    <3>1. DOMAIN f = ZoneTypes /\ \A type \in ZoneTypes : f[type].entity = "requester"
      BY CandidateIsRequested
    <3> HIDE DEF f
    <3> QED
      BY <2>1, <3>1, ImageIsClaimable
  <2>3. Claimable(more)
    <3>1. more = ({Candidate("document_code", "letter"), Candidate("passport_number", "code")}
                  \cup {Candidate("mrz_confidence", "number"), Candidate("date_of_birth", ZoneDate)})
                 \cup {Candidate("date_of_expiry", ZoneDate)}
      BY Zenon
    <3> HIDE DEF more
    <3> QED
      BY <3>1, OneIsClaimable, ClaimableTogether, CandidateIsRequested
  <2>4. {f[type] : type \in ZoneTypes} = {Candidate(type, "word") : type \in ZoneTypes}
    OBVIOUS
  <2>5. PassportZone = {} \/ PassportZone = {Candidate(type, "word") : type \in ZoneTypes} \cup more
    BY Zenon DEF PassportZone
  <2> HIDE DEF f, more
  <2>6. Claimable({f[type] : type \in ZoneTypes} \cup more)
    BY <2>2, <2>3, ClaimableTogether
  <2> QED
    BY <2>4, <2>5, <2>6, OneIsClaimable
<1>3. Claimable(PassportOcr)
  <2> DEFINE here == {l \in sheet.lines : l.label \in PassportPatterns \ {c.type : c \in PassportZone}}
  <2> DEFINE f == [l \in here |->
        CASE l.form = "label" -> Candidate("review_candidate", l.label)
          [] l.form = "dayFirst" -> Candidate(l.label, "iso")
          [] OTHER -> Candidate(l.label, l.form)]
  <2>1. PassportOcr = {f[l] : l \in here}
    BY Zenon DEF PassportOcr
  <2>2. IsFiniteSet(here)
    BY LinesOnAPage, FS_Subset
  <2>3. ASSUME NEW l \in here PROVE f[l].entity = "requester"
    <3>1. \/ f[l] = Candidate("review_candidate", l.label)
          \/ f[l] = Candidate(l.label, "iso")
          \/ f[l] = Candidate(l.label, l.form)
      BY Zenon
    <3> HIDE DEF f
    <3> QED
      BY <3>1, CandidateIsRequested
  <2>4. DOMAIN f = here
    OBVIOUS
  <2> HIDE DEF f, here
  <2> QED
    BY <2>1, <2>2, <2>3, <2>4, ImageIsClaimable
<1>4. Claimable(PassportFallback)
  <2>1. /\ Claimable(IF sheet.title = "passport" THEN {Candidate("document_keyword", "label")} ELSE {})
        /\ Claimable(IF \E l \in sheet.lines : l.form = "dayFirst" THEN {Candidate("possible_date", "iso")} ELSE {})
    BY OneIsClaimable, CandidateIsRequested
  <2> QED
    BY <2>1, ClaimableTogether DEF PassportFallback
<1>5. Claimable(((PassportLabels \cup PassportZone) \cup PassportOcr) \cup PassportFallback)
  BY <1>1, <1>2, <1>3, <1>4, ClaimableTogether
<1> QED
  BY <1>5, ResultIsClaimable DEF Passport

\* The other extractors make candidates about the document: what they find is refused.
LEMMA OthersAreRefused ==
  ASSUME NEW result \in {IdCard, ResidencePermit, EmploymentContract, Payslip, BankStatement, Invoice}, result.ok
  PROVE  Claimable(result.candidates)
<1>1. \A type, form : ForDocument(type, form).entity = "document"
  BY DEF ForDocument
<1>2. \A c \in IdCardZone : c.entity = "document"
  BY <1>1 DEF IdCardZone
<1>3. \A labels : \A c \in SpannedDocument(labels) : c.entity = "document"
  BY <1>1 DEF SpannedDocument
<1>4. \A labels : \A c \in Amounts(labels) : c.entity = "document"
  BY <1>1 DEF Amounts
<1>5. IdCard.ok => Claimable(IdCard.candidates)
  <2>1. \A c \in IdCardZone \cup IdCardOcr : c.entity = "document"
    BY <1>2, <1>3 DEF IdCardOcr
  <2> QED
    BY <2>1, DocumentsAreRefused DEF IdCard
<1>6. ResidencePermit.ok => Claimable(ResidencePermit.candidates)
  <2>1. \A c \in ResidencePermitZone : c.entity = "document"
    BY <1>1, <1>2 DEF ResidencePermitZone
  <2>2. \A c \in ResidencePermitZone \cup ResidencePermitOcr : c.entity = "document"
    BY <2>1, <1>3 DEF ResidencePermitOcr
  <2> QED
    BY <2>2, DocumentsAreRefused DEF ResidencePermit
<1>7. EmploymentContract.ok => Claimable(EmploymentContract.candidates)
  <2>1. \A c \in ContractSalary : c.entity = "document"
    BY <1>1 DEF ContractSalary
  <2>2. \A c \in (ContractSalary \cup ContractProbation) \cup ContractOcr : c.entity = "document"
    BY <1>1, <1>3, <2>1 DEF ContractProbation, ContractOcr
  <2> QED
    BY <2>2, DocumentsAreRefused DEF EmploymentContract
<1>8. Payslip.ok => Claimable(Payslip.candidates)
  <2>1. \A c \in PayslipMonetary \cup PayslipOcr : c.entity = "document"
    BY <1>1, <1>4 DEF PayslipMonetary, PayslipOcr
  <2> QED
    BY <2>1, DocumentsAreRefused DEF Payslip
<1>9. BankStatement.ok => Claimable(BankStatement.candidates)
  <2>1. \A c \in BankMonetary \cup BankOcr : c.entity = "document"
    BY <1>1, <1>4 DEF BankMonetary, BankOcr
  <2> QED
    BY <2>1, DocumentsAreRefused DEF BankStatement
<1>10. Invoice.ok => Claimable(Invoice.candidates)
  <2>1. \A c \in (InvoiceMonetary \cup InvoiceLineItems) \cup InvoiceOcr : c.entity = "document"
    BY <1>1, <1>4 DEF InvoiceMonetary, InvoiceLineItems, InvoiceOcr
  <2> QED
    BY <2>1, DocumentsAreRefused DEF Invoice
<1> QED
  BY <1>5, <1>6, <1>7, <1>8, <1>9, <1>10

\* Whatever extractor is asked, what leaves the service is about the entity that asked.
LEMMA ServiceIsClaimable ==
  ASSUME sheet \in Sheets PROVE Claimable(RawCandidates) /\ Claimable(Accepted(RawCandidates))
<1>1. RequestType \in GivenTypes \cup {"universal"}
  <2>1. sheet.given \in GivenTypes
    BY DEF Sheets
  <2>2. DetectedKind \in {"passport", "payslip", "bank_statement", "invoice", "none"}
    BY DEF DetectedKind
  <2> QED
    BY <2>1, <2>2 DEF RequestType, GivenTypes
<1>2. ASSUME Claimed(RequestType) # {}, PrimaryOf(RequestType).ok PROVE Claimable(PrimaryOf(RequestType).candidates)
  <2>1. CASE sheet.registry = "universal"
    BY <2>1, UniversalIsClaimable DEF PrimaryOf
  <2>2. CASE sheet.registry # "universal"
    <3>1. sheet.registry = "german"
      BY <1>2, <2>2 DEF Claimed, Sheets
    <3>2. RequestType # "universal"
      BY <1>2, <3>1 DEF Claimed
    <3>3. RequestType \in {"passport", "id_card", "residence_permit", "employment_contract", "payslip", "bank_statement", "invoice"}
      BY <1>1, <1>2, <3>1, <3>2 DEF GivenTypes, RequestType, DetectedKind
    <3>4. PrimaryOf(RequestType) \in {Passport, IdCard, ResidencePermit, EmploymentContract, Payslip, BankStatement, Invoice}
      BY <2>2, <3>3 DEF PrimaryOf
    <3> QED
      BY <1>2, <3>4, PassportIsClaimable, OthersAreRefused
  <2> QED
    BY <2>1, <2>2
<1>3. Claimable(RawCandidates)
  BY <1>2, UniversalIsClaimable, ClaimableTogether DEF RawCandidates
<1> QED
  BY <1>3, FS_Subset DEF Claimable, Accepted

-----------------------------------------------------------------------------
(* The handler *)

\* Every step of the extraction handler keeps the invariant.
LEMMA ExtractionPreserved == ExtractionInv /\ [ExtractionNext]_extractionVars => ExtractionInv'
<1> SUFFICES ASSUME ExtractionInv, [ExtractionNext]_extractionVars PROVE ExtractionInv'
  OBVIOUS
<1>1. CASE TakeSheet
  BY <1>1, OneIsClaimable DEF TakeSheet, Nothing, ExtractionInv, PagesEndSomewhere
<1>2. CASE ExtractSheet
  <2>1. sheet \in Sheets
    BY <1>2 DEF ExtractSheet, ExtractionInv
  <2>2. Claimable(Accepted(RawCandidates))
    BY <2>1, ServiceIsClaimable
  <2>3. Accepted(RawCandidates) = {} => NeedsLanguageModel(RawCandidates, Accepted(RawCandidates))
    <3>1. Cardinality({}) < PoorQuality
      BY FS_EmptySet, ExtractionAssumption
    <3> QED
      BY <3>1 DEF NeedsLanguageModel
  <2> QED
    BY <1>2, <2>1, <2>2, <2>3 DEF ExtractSheet, ExtractionInv, PagesEndSomewhere, Claimable
<1>3. CASE FailExtraction
  <2>1. /\ work' = [pc |-> "done", candidates |-> work.candidates, pending |-> work.pending, saved |-> 0,
                     noise |-> FALSE, failed |-> TRUE, skipped |-> FALSE]
        /\ UNCHANGED sheet /\ sheet \in Sheets
    BY <1>3 DEF FailExtraction, ExtractionInv
  <2> QED
    BY <2>1 DEF ExtractionInv, PagesEndSomewhere, Claimable
<1>4. CASE SkipCases
  <2>1. /\ work' = [pc |-> "done", candidates |-> work.candidates, pending |-> work.pending, saved |-> 0,
                     noise |-> FALSE, failed |-> FALSE, skipped |-> TRUE]
        /\ UNCHANGED sheet /\ sheet \in Sheets
    BY <1>4 DEF SkipCases, GivesUp, ExtractionInv
  <2> QED
    BY <2>1 DEF ExtractionInv, PagesEndSomewhere, Claimable
<1>5. ASSUME NEW saved \in 0..12, SaveCases(saved) PROVE ExtractionInv'
  <2>1. Cardinality(work.candidates) \in Nat /\ Cardinality(work.candidates) # 0
    BY <1>5, FS_CardinalityType, FS_EmptySet DEF SaveCases, ExtractionInv, Claimable
  <2>2. /\ work' = [pc |-> "done", candidates |-> work.candidates, pending |-> work.pending, saved |-> saved,
                     noise |-> FALSE, failed |-> saved < Cardinality(work.candidates), skipped |-> FALSE]
        /\ UNCHANGED sheet /\ work.pc = "settle" /\ saved <= Cardinality(work.candidates)
    BY <1>5 DEF SaveCases, ExtractionInv
  <2>3. (saved > 0 /\ saved = Cardinality(work.candidates)) \/ saved < Cardinality(work.candidates)
    BY <2>1, <2>2
  <2> QED
    BY <2>2, <2>3 DEF ExtractionInv, PagesEndSomewhere, Claimable
<1>6. CASE SkipNoise
  <2>1. /\ work' = [pc |-> "done", candidates |-> {}, pending |-> work.pending, saved |-> 0,
                     noise |-> FALSE, failed |-> FALSE, skipped |-> TRUE]
        /\ UNCHANGED sheet /\ sheet \in Sheets
    BY <1>6 DEF SkipNoise, GivesUp, ExtractionInv
  <2> QED
    BY <1>6, <2>1 DEF SkipNoise, ExtractionInv, PagesEndSomewhere, Claimable
<1>7. ASSUME NEW stored \in BOOLEAN, KeepNoise(stored) PROVE ExtractionInv'
  <2>1. /\ work' = [pc |-> "done", candidates |-> {}, pending |-> work.pending, saved |-> 0,
                     noise |-> WantsNoise /\ stored, failed |-> WantsNoise /\ ~stored, skipped |-> FALSE]
        /\ UNCHANGED sheet /\ sheet \in Sheets
    BY <1>7 DEF KeepNoise, ExtractionInv
  <2>2. ~sheet.blank => WantsNoise
    BY <1>7 DEF KeepNoise, WantsNoise, ExtractionInv
  <2>3. ~sheet.blank => (WantsNoise /\ stored) \/ (WantsNoise /\ ~stored)
    BY <2>2
  <2> QED
    BY <1>7, <2>1, <2>3 DEF KeepNoise, ExtractionInv, PagesEndSomewhere, Claimable
<1>8. CASE UNCHANGED extractionVars
  BY <1>8 DEF extractionVars, ExtractionInv, PagesEndSomewhere, Sheets
<1> QED
  BY <1>1, <1>2, <1>3, <1>4, <1>5, <1>6, <1>7, <1>8 DEF ExtractionNext

\* Only a handler without a database loses a page: every other handled page with text on it ends with
\* its candidates under review, with a noise item, or with a recorded failure.
THEOREM NoPageIsLost == ExtractionSpec => []PagesEndSomewhere
<1>1. ExtractionInit => ExtractionInv
  BY OneIsClaimable DEF ExtractionInit, Nothing, ExtractionInv, PagesEndSomewhere
<1>2. ExtractionInv => PagesEndSomewhere
  BY DEF ExtractionInv
<1> QED
  BY <1>1, <1>2, ExtractionPreserved, PTL DEF ExtractionSpec

-----------------------------------------------------------------------------
(* Knowledge build *)

\* The first rule that holds gives the name.
LEMMA RulesInOrder ==
  ASSUME NEW n \in Nat, NEW rules, DOMAIN rules = 1..n, NEW last \in 1..n, rules[last] # NoName
  PROVE  \E k \in 1..n : /\ FirstRule(rules) = rules[k] /\ rules[k] # NoName
                         /\ \A j \in 1..(k - 1) : rules[j] = NoName
<1> DEFINE holding == {i \in 1..n : rules[i] # NoName}
<1>1. holding \in SUBSET Nat /\ last \in holding
  OBVIOUS
<1> HIDE DEF holding
<1>2. PICK least \in holding : \A i \in holding : least <= i
  BY <1>1, LeastNumber
<1>3. least \in 1..n /\ rules[least] # NoName
  BY <1>2 DEF holding
<1>4. ASSUME NEW j \in 1..(least - 1) PROVE rules[j] = NoName
  <2>1. j \in 1..n /\ ~(least <= j)
    BY <1>3
  <2> QED
    BY <1>2, <2>1 DEF holding
<1> DEFINE P(i) == rules[i] # NoName /\ \A j \in 1..(i - 1) : rules[j] = NoName
           k == CHOOSE i \in DOMAIN rules : P(i)
<1>5. \E i \in DOMAIN rules : P(i)
  BY <1>3, <1>4
<1>6. k \in DOMAIN rules /\ P(k)
  <2> HIDE DEF P
  <2> QED
    BY <1>5
<1>7. FirstRule(rules) = rules[k]
  BY DEF FirstRule
<1> HIDE DEF k
<1> QED
  BY <1>6, <1>7

\* A candidate has a form the quality gate lets through under its name.
LEMMA CandidateForms ==
  ASSUME NEW c \in NamedCandidates
  PROVE  c.field \in Fields /\ c.form \in Gated(c.field)
BY DEF NamedCandidates

\* The rules _classify_date_field asks, one after the other.
DateRules(c) == <<
    Rule(InContext(c, LegalReferenceDateHints), "legal_reference_date"),
    Rule(InContext(c, TaxContextHints), "document_date"),
    Rule(c.field = "date_of_birth", "date_of_birth"),
    Rule(c.field = "date_of_issue", "issue_date"),
    Rule(c.form = "futureDate", "expiry_date"),
    Rule(c.form = "soonDate", "document_date"),
    Rule(c.form \in {"adultDate", "digitsDate"} /\ BirthContext(c), "date_of_birth"),
    Rule(c.form = "recentDate", "document_date"),
    Rule(TRUE, "date") >>

DateName(c, k) ==
    \/ k = 1 /\ InContext(c, LegalReferenceDateHints) /\ ClassifiedDate(c) = "legal_reference_date"
    \/ k = 2 /\ InContext(c, TaxContextHints) /\ ClassifiedDate(c) = "document_date"
    \/ k = 3 /\ c.field = "date_of_birth" /\ ClassifiedDate(c) = "date_of_birth"
    \/ k = 4 /\ c.field = "date_of_issue" /\ ClassifiedDate(c) = "issue_date"
    \/ k = 5 /\ ClassifiedDate(c) = "expiry_date"
    \/ k = 6 /\ ClassifiedDate(c) = "document_date"
    \/ k = 7 /\ BirthContext(c) /\ ClassifiedDate(c) = "date_of_birth"
    \/ k = 8 /\ ClassifiedDate(c) = "document_date"
    \/ k = 9 /\ ClassifiedDate(c) = "date"

\* What _classify_date_field makes of a candidate, with the number of the rule that decides.
LEMMA DatesAreClassified ==
  ASSUME NEW c
  PROVE  \E k \in 1..9 : /\ DateName(c, k)
                         /\ k > 3 => c.field # "date_of_birth"
                         /\ k > 4 => c.field # "date_of_issue"
<1> DEFINE rules == DateRules(c)
<1>1. ClassifiedDate(c) = FirstRule(rules)
  BY DEF ClassifiedDate, DateRules
<1>2. /\ DOMAIN rules = 1..9
      /\ rules[1] = Rule(InContext(c, LegalReferenceDateHints), "legal_reference_date")
      /\ rules[2] = Rule(InContext(c, TaxContextHints), "document_date")
      /\ rules[3] = Rule(c.field = "date_of_birth", "date_of_birth")
      /\ rules[4] = Rule(c.field = "date_of_issue", "issue_date")
      /\ rules[5] = Rule(c.form = "futureDate", "expiry_date")
      /\ rules[6] = Rule(c.form = "soonDate", "document_date")
      /\ rules[7] = Rule(c.form \in {"adultDate", "digitsDate"} /\ BirthContext(c), "date_of_birth")
      /\ rules[8] = Rule(c.form = "recentDate", "document_date")
      /\ rules[9] = Rule(TRUE, "date")
  BY DEF DateRules
<1> HIDE DEF rules
<1>3. /\ rules[1] # NoName => InContext(c, LegalReferenceDateHints) /\ rules[1] = "legal_reference_date"
      /\ rules[2] # NoName => InContext(c, TaxContextHints) /\ rules[2] = "document_date"
      /\ rules[3] # NoName => c.field = "date_of_birth" /\ rules[3] = "date_of_birth"
      /\ rules[4] # NoName => c.field = "date_of_issue" /\ rules[4] = "issue_date"
      /\ rules[5] # NoName => rules[5] = "expiry_date"
      /\ rules[6] # NoName => rules[6] = "document_date"
      /\ rules[7] # NoName => BirthContext(c) /\ rules[7] = "date_of_birth"
      /\ rules[8] # NoName => rules[8] = "document_date"
      /\ rules[9] = "date"
  BY <1>2 DEF Rule
<1>4. /\ rules[3] = NoName => c.field # "date_of_birth"
      /\ rules[4] = NoName => c.field # "date_of_issue"
      /\ rules[9] # NoName
  BY <1>2 DEF Rule, NoName
<1>5. PICK k \in 1..9 : /\ FirstRule(rules) = rules[k] /\ rules[k] # NoName
                        /\ \A j \in 1..(k - 1) : rules[j] = NoName
  <2>1. DOMAIN rules = 1..9 /\ 9 \in 1..9
    BY <1>2
  <2> QED
    BY <1>4, <2>1, RulesInOrder
<1>6. k = 1 \/ k = 2 \/ k = 3 \/ k = 4 \/ k = 5 \/ k = 6 \/ k = 7 \/ k = 8 \/ k = 9
  OBVIOUS
<1>7. DateName(c, k)
  BY <1>1, <1>3, <1>5, <1>6 DEF DateName
<1>8. (k > 3 => c.field # "date_of_birth") /\ (k > 4 => c.field # "date_of_issue")
  BY <1>4, <1>5
<1> QED
  BY <1>7, <1>8

\* The rules _resolve_field_name asks.
NameRules(c) == <<
    Rule(c.field \in DateNames \/ LooksLikeDate(c), ClassifiedDate(c)),
    Rule(c.field = "email" /\ NonPersonContact(c, "email"), "contact_email"),
    Rule(c.field \in PhoneNames /\ (NonPersonContact(c, c.field) \/ PhoneNoise(c, c.field)), "contact_phone"),
    Rule(LikelyOrganizationName(c, c.field), "organization_name"),
    Rule(NonPersonIban(c, c.field), "organization_iban"),
    Rule(c.field \in AddressNames /\ OrganizationContext(c), "organization_address"),
    Rule(c.field \in ReferenceNames /\ OrganizationContext(c), "organization_reference"),
    Rule(ReferenceNoise(c, c.field), "reference_noise"),
    Rule(InContext(c, HealthContextHints) /\ c.field \notin Protected, "health_reference"),
    Rule(InContext(c, TaxContextHints) /\ c.field \notin Protected, "tax_reference"),
    Rule(InContext(c, BusinessContextHints) /\ c.field \notin Protected, "business_reference"),
    Rule(InContext(c, BankContextHints) /\ c.field # "iban", "bank_reference"),
    Rule(InContext(c, AuthorityContextHints) /\ c.field \notin Protected, "public_authority_reference"),
    Rule(InContext(c, FormContextHints) /\ c.field \notin Protected, "form_instruction"),
    Rule(TRUE, c.field) >>

\* A date is named by the calendar and its label; any other candidate keeps its name or is
\* evidence only.
LEMMA NamesResolved ==
  ASSUME NEW c \in NamedCandidates
  PROVE  /\ c.field \in DateNames \/ LooksLikeDate(c) => ResolvedName(c) = ClassifiedDate(c)
         /\ ~(c.field \in DateNames \/ LooksLikeDate(c)) => ResolvedName(c) = c.field \/ ResolvedName(c) \in EvidenceOnly
<1> DEFINE rules == NameRules(c)
<1>1. ResolvedName(c) = FirstRule(rules)
  BY DEF ResolvedName, NameRules
<1>2. /\ DOMAIN rules = 1..15
      /\ rules[1] = Rule(c.field \in DateNames \/ LooksLikeDate(c), ClassifiedDate(c))
      /\ rules[2] \in {NoName, "contact_email"}
      /\ rules[3] \in {NoName, "contact_phone"}
      /\ rules[4] \in {NoName, "organization_name"}
      /\ rules[5] \in {NoName, "organization_iban"}
      /\ rules[6] \in {NoName, "organization_address"}
      /\ rules[7] \in {NoName, "organization_reference"}
      /\ rules[8] \in {NoName, "reference_noise"}
      /\ rules[9] \in {NoName, "health_reference"}
      /\ rules[10] \in {NoName, "tax_reference"}
      /\ rules[11] \in {NoName, "business_reference"}
      /\ rules[12] \in {NoName, "bank_reference"}
      /\ rules[13] \in {NoName, "public_authority_reference"}
      /\ rules[14] \in {NoName, "form_instruction"}
      /\ rules[15] = c.field
  BY DEF NameRules, Rule
<1> HIDE DEF rules
<1>3. c.field # NoName
  BY CandidateForms DEF Fields, NoName
<1>4. PICK k \in 1..15 : /\ FirstRule(rules) = rules[k] /\ rules[k] # NoName
                         /\ \A j \in 1..(k - 1) : rules[j] = NoName
  <2>1. DOMAIN rules = 1..15 /\ 15 \in 1..15 /\ rules[15] # NoName
    BY <1>2, <1>3
  <2> QED
    BY <2>1, RulesInOrder
<1>5. CASE c.field \in DateNames \/ LooksLikeDate(c)
  <2>1. rules[1] = ClassifiedDate(c)
    BY <1>2, <1>5 DEF Rule
  <2>2. ClassifiedDate(c) # NoName
    BY DatesAreClassified DEF DateName, NoName
  <2>3. k = 1
    BY <1>4, <2>1, <2>2
  <2> QED
    BY <1>1, <1>4, <1>5, <2>1, <2>3
<1>6. CASE ~(c.field \in DateNames \/ LooksLikeDate(c))
  <2>1. rules[1] = NoName
    BY <1>2, <1>6 DEF Rule
  <2>2. CASE k = 15
    BY <1>1, <1>2, <1>4, <1>6, <2>2
  <2>3. CASE k # 15
    <3>1. k \in 2..14
      BY <1>4, <2>1, <2>3
    <3>2. \A j \in 2..14 : rules[j] \in EvidenceOnly \cup {NoName}
      BY <1>2 DEF EvidenceOnly
    <3> QED
      BY <1>1, <1>4, <1>6, <3>1, <3>2
  <2> QED
    BY <2>2, <2>3
<1> QED
  BY <1>5, <1>6

\* A labelled date that becomes a fact keeps the meaning of its label.
LEMMA LabelsAreKept ==
  ASSUME NEW c \in NamedCandidates, ShouldBuildFact(c)
  PROVE  /\ c.field = "date_of_birth" => ResolvedName(c) = "date_of_birth"
         /\ c.field = "date_of_issue" => ResolvedName(c) = "issue_date"
         /\ c.field = "date_of_expiry" => ResolvedName(c) = "expiry_date"
<1>1. ResolvedName(c) \notin EvidenceOnly
  BY DEF ShouldBuildFact
<1>2. SUFFICES ASSUME c.field \in {"date_of_birth", "date_of_issue", "date_of_expiry"}
               PROVE  /\ c.field = "date_of_birth" => ResolvedName(c) = "date_of_birth"
                      /\ c.field = "date_of_issue" => ResolvedName(c) = "issue_date"
                      /\ c.field = "date_of_expiry" => ResolvedName(c) = "expiry_date"
  OBVIOUS
<1>3. c.form \in Dates
  BY <1>2, CandidateForms DEF Gated
<1>4. LooksLikeDate(c) /\ ResolvedName(c) = ClassifiedDate(c)
  BY <1>3, NamesResolved DEF LooksLikeDate
<1>5. ~InContext(c, LegalReferenceDateHints) /\ ~InContext(c, TaxContextHints) /\ ~BirthContext(c)
  BY <1>2, <1>3 DEF InContext, Hits, ContextText, LegalReferenceDateHints, TaxContextHints, BirthContext, Dates
<1>6. PICK k \in 1..9 : /\ DateName(c, k)
                        /\ k > 3 => c.field # "date_of_birth"
                        /\ k > 4 => c.field # "date_of_issue"
  BY DatesAreClassified
<1>7. "document_date" \in EvidenceOnly /\ "date" \in EvidenceOnly
  BY DEF EvidenceOnly
<1> QED
  BY <1>1, <1>2, <1>4, <1>5, <1>6, <1>7 DEF DateName

Others == OrganizationValueHints \cup NonPersonContextHints \cup NameContextNoiseHints

\* A candidate that becomes a fact under a name of the person hits none of the lists of words of
\* others.
LEMMA OthersStayOut ==
  ASSUME NEW c \in NamedCandidates, ShouldBuildFact(c),
         ResolvedName(c) \in PersonNames \cup AddressNames \cup PhoneNames \cup MailNames \cup {"iban"}
  PROVE  ~InValue(c, Others)
<1> DEFINE field == ResolvedName(c)
<1>1. field \notin EvidenceOnly
  BY DEF ShouldBuildFact
<1>2. field = c.field
  <2>1. ClassifiedDate(c) \notin PersonNames \cup AddressNames \cup PhoneNames \cup MailNames \cup {"iban"}
    <3>1. PICK k \in 1..9 : DateName(c, k)
      BY DatesAreClassified
    <3> QED
      BY <3>1 DEF DateName, PersonNames, AddressNames, PhoneNames, MailNames
  <2> QED
    BY <1>1, <2>1, NamesResolved
<1>3. c.field \in {"surname", "address", "phone_number", "email", "iban"}
  BY <1>1, <1>2 DEF PersonNames, AddressNames, PhoneNames, MailNames, EvidenceOnly
<1>4. /\ ~LikelyOrganizationName(c, c.field) /\ ~AddressNoise(c, c.field) /\ ~NameNoise(c, c.field)
  BY <1>2 DEF ShouldBuildFact
<1>5. CASE c.field = "surname"
  <2>1. ~InValue(c, OrganizationValueHints) /\ ~(InContext(c, NonPersonContextHints) /\ SeveralWords(c)) /\ c.form # "street"
    BY <1>4, <1>5 DEF LikelyOrganizationName, PersonNames
  <2>2. ~InContext(c, NameContextNoiseHints)
    BY <1>4, <1>5 DEF NameNoise, PersonNames, InContext, Hits
  <2>3. c.form \in Texts
    BY <1>5, CandidateForms DEF Gated
  <2>4. c.form \notin OrganizationValueHints /\ c.form \notin NameContextNoiseHints
    BY <2>1, <2>2 DEF InValue, InContext, Hits, ContextText
  <2>5. c.form \in NonPersonContextHints => ~SeveralWords(c)
    BY <2>1 DEF InContext, Hits, ContextText
  <2>6. c.form \notin NonPersonContextHints
    BY <2>1, <2>3, <2>4, <2>5 DEF NonPersonContextHints, OrganizationValueHints, SeveralWords, Texts
  <2> QED
    BY <2>4, <2>6 DEF InValue, Hits, Others
<1>6. CASE c.field = "address"
  <2>1. c.form = "postal"
    BY <1>4, <1>6 DEF AddressNoise, AddressNames, LooksLikeRealAddress
  <2> QED
    BY <2>1 DEF InValue, Hits, Others, OrganizationValueHints, NonPersonContextHints, NameContextNoiseHints
<1>7. CASE c.field \in {"phone_number", "email", "iban"}
  <2>1. c.form \in {"mobile", "mail", "officeMail", "account"}
    BY <1>7, CandidateForms DEF Gated
  <2> QED
    BY <2>1 DEF InValue, Hits, Others, OrganizationValueHints, NonPersonContextHints, NameContextNoiseHints
<1> QED
  BY <1>3, <1>5, <1>6, <1>7

KnowledgeInv ==
    /\ pile \subseteq NamedCandidates
    /\ built.pc \in {"waiting", "built"}
    /\ built.facts \subseteq {BuildFact(c) : c \in {x \in pile : ShouldBuildFact(x)}}
    /\ built.evidence \in {{}, {BuildEvidence(c) : c \in pile}}
    /\ built.pc = "waiting" => built = Unbuilt

\* The invariant says what the run checks.
LEMMA KnowledgeMeans ==
  ASSUME KnowledgeInv
  PROVE  OthersDataStaysOut /\ LabelledDatesKeepTheirMeaning
<1>1. ASSUME NEW f \in built.facts
      PROVE  f.of \in NamedCandidates /\ ShouldBuildFact(f.of) /\ f.name = ResolvedName(f.of)
  <2>1. PICK c \in pile : ShouldBuildFact(c) /\ f = BuildFact(c)
    BY <1>1 DEF KnowledgeInv
  <2> QED
    BY <2>1 DEF KnowledgeInv, BuildFact
<1>2. OthersDataStaysOut
  BY <1>1, OthersStayOut DEF OthersDataStaysOut, Others
<1>3. LabelledDatesKeepTheirMeaning
  BY <1>1, LabelsAreKept DEF LabelledDatesKeepTheirMeaning
<1> QED
  BY <1>2, <1>3

\* Taking candidates and building keep the invariant.
LEMMA KnowledgePreserved == KnowledgeInv /\ [KnowledgeNext]_knowledgeVars => KnowledgeInv'
<1> SUFFICES ASSUME KnowledgeInv, [KnowledgeNext]_knowledgeVars
             PROVE  KnowledgeInv'
  OBVIOUS
<1>1. CASE TakeCandidates
  <2>1. pile' \subseteq NamedCandidates /\ built' = built /\ built = Unbuilt
    BY <1>1 DEF TakeCandidates, KnowledgeInv
  <2> QED
    BY <2>1 DEF KnowledgeInv, Unbuilt
<1>2. CASE BuildKnowledge
  BY <1>2 DEF BuildKnowledge, KnowledgeInv, Unbuilt
<1>3. CASE UNCHANGED knowledgeVars
  BY <1>3 DEF knowledgeVars, KnowledgeInv
<1> QED
  BY <1>1, <1>2, <1>3 DEF KnowledgeNext

\* What belongs to an organisation does not become a fact of the person.
THEOREM OthersStayOutside == KnowledgeSpec => []OthersDataStaysOut
<1>1. KnowledgeInit => KnowledgeInv
  BY DEF KnowledgeInit, KnowledgeInv, Unbuilt
<1>2. KnowledgeInv => OthersDataStaysOut
  BY KnowledgeMeans
<1> QED
  BY <1>1, <1>2, KnowledgePreserved, PTL DEF KnowledgeSpec

\* A date read next to its label is stored under the meaning of the label.
THEOREM LabelsMeanTheirDates == KnowledgeSpec => []LabelledDatesKeepTheirMeaning
<1>1. KnowledgeInit => KnowledgeInv
  BY DEF KnowledgeInit, KnowledgeInv, Unbuilt
<1>2. KnowledgeInv => LabelledDatesKeepTheirMeaning
  BY KnowledgeMeans
<1> QED
  BY <1>1, <1>2, KnowledgePreserved, PTL DEF KnowledgeSpec

-----------------------------------------------------------------------------
(* Entity resolution *)

\* The candidates of the crowd, the first of them of the first entity.
CrowdOf(some) ==
    /\ some \in Seq(Candidates(Nat))
    /\ some # <<>> => some[1].entity = 1

ResolutionInv ==
    /\ CrowdOf(crowd)
    /\ \/ resolution.values = {} /\ resolution.pc # "resolved"
       \/ resolution = Resolved /\ crowd # <<>>

\* What the candidates for a person hold.
LEMMA CrowdTypes ==
  ASSUME CrowdOf(crowd)
  PROVE  /\ Len(crowd) \in Nat /\ DOMAIN crowd = 1..Len(crowd)
         /\ \A i \in DOMAIN crowd : /\ i \in Nat /\ crowd[i].entity \in Nat /\ crowd[i].confidence \in 1..2
                                    /\ crowd[i].type \in FactTypes
<1>1. \A c \in Candidates(Nat) : c.entity \in Nat /\ c.confidence \in 1..2 /\ c.type \in FactTypes
  BY DEF Candidates, Confidences
<1> QED
  BY <1>1 DEF CrowdOf

\* Among some candidates there is a first of the most confident ones.
LEMMA MostConfidentIsThere ==
  ASSUME CrowdOf(crowd), NEW ids \in SUBSET DOMAIN crowd, ids # {}
  PROVE  MostConfident(ids) \in ids
<1> DEFINE levels == {crowd[i].confidence : i \in ids}
<1>1. levels \subseteq Nat /\ levels # {} /\ \A n \in levels : n <= 2
  BY CrowdTypes
<1>2. PICK best \in levels : \A n \in levels : n <= best
  <2> HIDE DEF levels
  <2> QED
    BY <1>1, GreatestNumber
<1> DEFINE firsts == {i \in ids : crowd[i].confidence = best}
<1>3. firsts \subseteq Nat /\ firsts # {}
  BY <1>2, CrowdTypes
<1>4. PICK first \in firsts : \A n \in firsts : first <= n
  <2> HIDE DEF firsts
  <2> QED
    BY <1>3, LeastNumber
<1>5. ASSUME NEW j \in ids
      PROVE  IF j < first THEN crowd[j].confidence < crowd[first].confidence
                          ELSE crowd[j].confidence <= crowd[first].confidence
  <2>1. j \in Nat /\ first \in Nat /\ crowd[j].confidence \in Nat /\ crowd[j].confidence <= best /\ crowd[first].confidence = best
    BY <1>1, <1>2, <1>4, CrowdTypes
  <2>2. crowd[j].confidence = best => first <= j
    BY <1>4
  <2>3. j < first => crowd[j].confidence # best
    BY <2>1, <2>2
  <2>4. best \in Nat
    BY <2>1, <1>1, <1>2
  <2> QED
    BY <2>1, <2>3, <2>4
<1> HIDE DEF firsts
<1>6. first \in ids
  BY <1>4 DEF firsts
<1>7. \E i \in ids : \A j \in ids : IF j < i THEN crowd[j].confidence < crowd[i].confidence
                                             ELSE crowd[j].confidence <= crowd[i].confidence
  BY <1>5, <1>6
<1> QED
  BY <1>7, Zenon DEF MostConfident

\* The best fact of an entity for a type it shows is one of its facts.
LEMMA BestFactIsThere ==
  ASSUME CrowdOf(crowd), NEW e, NEW t \in TypesIn(e)
  PROVE  BestFact(e, t) \in DOMAIN crowd /\ crowd[BestFact(e, t)].entity = e /\ crowd[BestFact(e, t)].type = t
<1>1. FactsFor(e, t) # {} /\ FactsFor(e, t) \subseteq DOMAIN crowd
  BY DEF TypesIn, FactsFor
<1>2. BestFact(e, t) \in FactsFor(e, t)
  BY <1>1, MostConfidentIsThere DEF BestFact
<1> QED
  BY <1>2 DEF FactsFor

\* A value that is shown comes from a candidate that was kept.
LEMMA ValuesComeFromKept ==
  ASSUME CrowdOf(crowd), NEW clusters, NEW shown \in CanonicalValues(clusters)
  PROVE  \E i \in IdsOf(clusters) : shown = <<crowd[i].type, crowd[i].value>>
<1>1. PICK t \in UNION {TypesIn(e) : e \in clusters} :
        shown = <<t, crowd[MostConfident(UNION {{BestFact(e, t)} : e \in {c \in clusters : t \in TypesIn(c)}})].value>>
  BY DEF CanonicalValues
<1> DEFINE best == UNION {{BestFact(e, t)} : e \in {c \in clusters : t \in TypesIn(c)}}
<1>2. \A i \in best : i \in IdsOf(clusters) /\ crowd[i].type = t
  BY BestFactIsThere DEF IdsOf
<1>3. best # {}
  BY <1>1
<1>4. best \subseteq DOMAIN crowd
  BY <1>2 DEF IdsOf
<1>5. shown = <<t, crowd[MostConfident(best)].value>>
  BY <1>1
<1> HIDE DEF best
<1>6. MostConfident(best) \in best
  BY <1>3, <1>4, MostConfidentIsThere
<1> QED
  BY <1>2, <1>5, <1>6

-----------------------------------------------------------------------------
(* The strongest entity *)

\* Running sums of ones and twos grow by two at most.
LEMMA SumsAreDefined ==
  ASSUME NEW size \in Nat, NEW part, \A n \in 1..size : part[n] \in 0..2
  PROVE  /\ \E f : Sums(f, part, size)
         /\ \A f : Sums(f, part, size) => f[size] \in Nat /\ f[size] <= 2 * size
<1>0. \A n \in 1..size : part[n] \in Nat /\ part[n] <= 2
  OBVIOUS
<1>1. ASSUME NEW f, Sums(f, part, size) PROVE f[size] \in Nat /\ f[size] <= 2 * size
  <2> DEFINE good == {n \in Nat : n <= size => f[n] \in Nat /\ f[n] <= 2 * n}
  <2>1. f[0] = 0 /\ \A n \in 1..size : f[n] = f[n - 1] + part[n]
    BY <1>1, SumsUnfold
  <2>2. 0 \in good
    BY <2>1
  <2>3. ASSUME NEW n \in Nat, n \in good PROVE n + 1 \in good
    <3> SUFFICES ASSUME n + 1 <= size PROVE f[n + 1] \in Nat /\ f[n + 1] <= 2 * (n + 1)
      OBVIOUS
    <3>1. f[n] \in Nat /\ f[n] <= 2 * n
      BY <2>3
    <3>2. f[n + 1] = f[n] + part[n + 1] /\ part[n + 1] \in Nat /\ part[n + 1] <= 2
      <4>1. n + 1 \in 1..size /\ (n + 1) - 1 = n
        OBVIOUS
      <4> QED
        BY <1>0, <2>1, <4>1
    <3> QED
      BY <3>1, <3>2
  <2>4. Nat \subseteq good
    <3> HIDE DEF good
    <3> QED
      BY <2>2, <2>3, NumbersByInduction
  <2> QED
    BY <2>4
<1> QED
  BY <1>1, SumsUnfold

\* The confidence an entity gathers is a number, bounded by the candidates.
LEMMA TotalIsANumber ==
  ASSUME CrowdOf(crowd), NEW e
  PROVE  TotalConfidence(e) \in Nat /\ TotalConfidence(e) <= 2 * Len(crowd)
<1> DEFINE part == [n \in 1..Len(crowd) |-> IF crowd[n].entity = e THEN crowd[n].confidence ELSE 0]
           size == Len(crowd)
           UpTo == CHOOSE UpTo : UpTo = [n \in 0..Len(crowd) |->
                       IF n = 0 THEN 0 ELSE UpTo[n - 1] + (IF crowd[n].entity = e THEN crowd[n].confidence ELSE 0)]
<1>1. size \in Nat /\ \A n \in 1..size : part[n] \in 0..2
  BY CrowdTypes
<1>2. TotalConfidence(e) = UpTo[size]
  BY DEF TotalConfidence
<1>3. \A f : Sums(f, part, size) <=>
             f = [n \in 0..Len(crowd) |-> IF n = 0 THEN 0 ELSE f[n - 1] + (IF crowd[n].entity = e THEN crowd[n].confidence ELSE 0)]
  <2> TAKE f
  <2>1. \A n \in 0..Len(crowd) : (IF n = 0 THEN 0 ELSE f[n - 1] + (IF crowd[n].entity = e THEN crowd[n].confidence ELSE 0))
                                 = IF n = 0 THEN 0 ELSE f[n - 1] + part[n]
    BY <1>1
  <2>2. [n \in 0..Len(crowd) |-> IF n = 0 THEN 0 ELSE f[n - 1] + (IF crowd[n].entity = e THEN crowd[n].confidence ELSE 0)]
        = [n \in 0..size |-> IF n = 0 THEN 0 ELSE f[n - 1] + part[n]]
    <3> HIDE DEF part
    <3> QED
      BY <2>1
  <2> QED
    BY <2>2 DEF Sums
<1>4. \E f : Sums(f, part, size)
  <2> HIDE DEF part, size
  <2> QED
    BY <1>1, SumsAreDefined
<1>5. Sums(UpTo, part, size)
  BY <1>3, <1>4, Zenon
<1> HIDE DEF part, size, UpTo
<1>6. UpTo[size] \in Nat /\ UpTo[size] <= 2 * size
  BY <1>1, <1>5, SumsAreDefined
<1> QED
  BY <1>2, <1>6 DEF size

\* The primary entity is one of those with candidates.
LEMMA PrimaryIsThere ==
  ASSUME CrowdOf(crowd), crowd # <<>>
  PROVE  Primary \in Entities
<1> DEFINE totals == {TotalConfidence(e) : e \in Entities}
<1>0. Len(crowd) \in Nat /\ Len(crowd) # 0 /\ 1 \in DOMAIN crowd
  BY CrowdTypes DEF CrowdOf
<1>1. Entities \subseteq Nat /\ Entities # {} /\ 2 * Len(crowd) \in Nat
  BY <1>0, CrowdTypes DEF Entities
<1>2. totals \subseteq Nat /\ totals # {} /\ \A n \in totals : n <= 2 * Len(crowd)
  BY <1>1, TotalIsANumber
<1>3. PICK best \in totals : \A n \in totals : n <= best
  <2> HIDE DEF totals
  <2> QED
    BY <1>1, <1>2, GreatestNumber
<1> DEFINE firsts == {e \in Entities : TotalConfidence(e) = best}
<1>4. firsts \subseteq Nat /\ firsts # {}
  BY <1>1, <1>3
<1>5. PICK first \in firsts : \A n \in firsts : first <= n
  <2> HIDE DEF firsts
  <2> QED
    BY <1>4, LeastNumber
<1>6. first \in Entities
  OBVIOUS
<1>7. ASSUME NEW f \in Entities
      PROVE  IF f < first THEN TotalConfidence(f) < TotalConfidence(first)
                          ELSE TotalConfidence(f) <= TotalConfidence(first)
  <2>1. f \in Nat /\ first \in Nat /\ TotalConfidence(f) \in Nat /\ TotalConfidence(f) <= best /\ TotalConfidence(first) = best
        /\ best \in Nat
    BY <1>1, <1>2, <1>3, <1>5, TotalIsANumber
  <2>2. TotalConfidence(f) = best => first <= f
    BY <1>5
  <2> QED
    BY <2>1, <2>2
<1> HIDE DEF firsts, totals
<1> QED
  BY <1>6, <1>7, Zenon DEF Primary

-----------------------------------------------------------------------------
(* Resolution *)

\* Without a hard conflict the entities agree on the identifiers two of them show.
LEMMA NoConflictMeansAgreement ==
  ASSUME CrowdOf(crowd), ~HasHardConflict(AllMatches(Entities)),
         NEW a \in Entities, NEW b \in Entities, NEW t \in SharedTypes(a, b), StrategyFor(t) \in HardConflictStrategies
  PROVE  BestReading(a, t) = BestReading(b, t)
<1>1. a \in Nat /\ b \in Nat
  BY CrowdTypes DEF Entities
<1>2. ASSUME NEW x \in Entities, NEW y \in Entities, x < y, t \in SharedTypes(x, y), BestReading(x, t) # BestReading(y, t)
      PROVE  FALSE
  <2>1. BuildMatch(x, y, t) \in AllMatches(Entities)
    <3>1. <<x, y>> \in {q \in Entities \X Entities : q[1] < q[2]}
      BY <1>2
    <3> QED
      BY <1>2, <3>1 DEF AllMatches
  <2>2. BuildMatch(x, y, t).signal = "conflict" /\ BuildMatch(x, y, t).type = t
    BY <1>2 DEF BuildMatch, SignalFor
  <2> QED
    BY <2>1, <2>2 DEF HasHardConflict, ConflictMatches
<1>3. t \in SharedTypes(b, a)
  BY DEF SharedTypes
<1> QED
  BY <1>1, <1>2, <1>3

\* The candidates of some entities are about these entities.
LEMMA OnlyThatEntity ==
  ASSUME NEW clusters \in SUBSET Entities
  PROVE  {crowd[i].entity : i \in IdsOf(clusters)} = clusters
  BY DEF IdsOf, Entities

\* What a resolution keeps agrees, whether entities were merged or one was kept.
LEMMA ResolvedAgrees ==
  ASSUME CrowdOf(crowd), crowd # <<>>, resolution = Resolved
  PROVE  MergedEntitiesAgree
<1> DEFINE matches == AllMatches(Entities)
<1>1. 1 \in Entities
  BY CrowdTypes DEF CrowdOf, Entities
<1>2. PICK clusters \in SUBSET Entities :
        /\ \E conflicting, score : Resolved = ResolutionOf(clusters, conflicting, score)
        /\ \/ \E e : clusters = {e}
           \/ clusters = Entities /\ ~HasHardConflict(matches)
  <2>1. Primary \in Entities
    BY PrimaryIsThere
  <2>2. \/ Resolved = ResolutionOf({1}, {}, 100)
        \/ Resolved = ResolutionOf({Primary}, ConflictMatches(matches), OverallScore(matches))
        \/ Resolved = ResolutionOf({Primary}, {}, 100)
        \/ ~HasHardConflict(matches) /\ Resolved = ResolutionOf(Entities, {}, OverallScore(matches))
    BY Zenon DEF Resolved, ResolveSingleCluster, ResolveWithConflict
  <2> HIDE DEF matches
  <2>3. {1} \in SUBSET Entities /\ {Primary} \in SUBSET Entities /\ Entities \in SUBSET Entities
    BY <1>1, <2>1
  <2> QED
    BY <2>2, <2>3
<1>3. resolution.ids = IdsOf(clusters) /\ resolution.values = CanonicalValues(clusters)
  BY <1>2 DEF ResolutionOf
<1>4. {crowd[i].entity : i \in resolution.ids} = clusters
  BY <1>3, OnlyThatEntity
<1>5. \A e : Cardinality({e}) = 1
  BY FS_Singleton
<1>6. \/ Cardinality(clusters) = 1
      \/ \A a, b \in clusters : \A t \in SharedTypes(a, b) :
            StrategyFor(t) \in HardConflictStrategies => BestReading(a, t) = BestReading(b, t)
  BY <1>2, <1>5, NoConflictMeansAgreement
<1>7. \A shown \in resolution.values : \E i \in resolution.ids : shown = <<crowd[i].type, crowd[i].value>>
  BY <1>3, ValuesComeFromKept
<1> QED
  BY <1>4, <1>6, <1>7 DEF MergedEntitiesAgree

\* the types some clusters show, and what is shown for one
TypesOf(clusters) == UNION {TypesIn(e) : e \in clusters}
BestOf(clusters, t) == UNION {{BestFact(e, t)} : e \in {c \in clusters : t \in TypesIn(c)}}
Shown(clusters, t) == <<t, crowd[MostConfident(BestOf(clusters, t))].value>>

\* What is made of the crowd stays when the crowd does.
LEMMA SameCrowdSameResolution ==
  ASSUME UNCHANGED crowd PROVE Resolved' = Resolved
<1>1. \A ids : MostConfident(ids)' = MostConfident(ids)
  BY Zenon DEF MostConfident
<1>2. \A e, t : FactsFor(e, t)' = FactsFor(e, t) /\ TypesIn(e)' = TypesIn(e)
  BY DEF FactsFor, TypesIn
<1>3. \A e, t : BestFact(e, t)' = BestFact(e, t) /\ BestReading(e, t)' = BestReading(e, t)
  BY <1>1, <1>2 DEF BestFact, BestReading
<1>4. \A clusters : CanonicalValues(clusters)' = CanonicalValues(clusters)
  <2> TAKE clusters
  <2>1. TypesOf(clusters)' = TypesOf(clusters)
    BY <1>2 DEF TypesOf
  <2>2. \A t : BestOf(clusters, t)' = BestOf(clusters, t)
    BY <1>2, <1>3 DEF BestOf
  <2>3. \A t : Shown(clusters, t)' = Shown(clusters, t)
    BY <1>1, <2>2 DEF Shown
  <2>4. CanonicalValues(clusters) = {Shown(clusters, t) : t \in TypesOf(clusters)}
    BY DEF CanonicalValues, Shown, BestOf, TypesOf
  <2>5. CanonicalValues(clusters)' = {Shown(clusters, t)' : t \in TypesOf(clusters)'}
    BY DEF CanonicalValues, Shown, BestOf, TypesOf
  <2> QED
    BY <2>1, <2>3, <2>4, <2>5
<1>5. \A clusters : IdsOf(clusters)' = IdsOf(clusters)
  BY DEF IdsOf
<1>6. Entities' = Entities
  BY DEF Entities
<1>7. \A e : TotalConfidence(e)' = TotalConfidence(e)
  BY Zenon DEF TotalConfidence
<1>8. Primary' = Primary
  BY <1>6, <1>7, Zenon DEF Primary
<1>9. \A a, b, t : BuildMatch(a, b, t)' = BuildMatch(a, b, t) /\ SharedTypes(a, b)' = SharedTypes(a, b)
  BY <1>2, <1>3 DEF BuildMatch, SharedTypes
<1>10. \A clusters : AllMatches(clusters)' = AllMatches(clusters)
  BY <1>9 DEF AllMatches
<1> QED
  BY <1>4, <1>5, <1>6, <1>8, <1>10 DEF Resolved, ResolveSingleCluster, ResolveWithConflict, ResolutionOf

\* The invariant says what the run checks.
LEMMA ResolutionMeans == ResolutionInv => MergedEntitiesAgree
  BY ResolvedAgrees DEF ResolutionInv, MergedEntitiesAgree

\* The invariant holds at the start.
LEMMA ResolutionBegins == ResolutionInit => ResolutionInv
  BY DEF ResolutionInit, ResolutionInv, CrowdOf, Unresolved

\* Every step of the resolution keeps the invariant.
LEMMA ResolutionPreserved == ResolutionInv /\ [ResolutionNext]_resolutionVars => ResolutionInv'
<1> SUFFICES ASSUME ResolutionInv, [ResolutionNext]_resolutionVars PROVE ResolutionInv'
  OBVIOUS
<1>1. CASE AddCandidate
  <2>1. PICK c \in Candidates(IF crowd = <<>> THEN {1} ELSE {crowd[Len(crowd)].entity, crowd[Len(crowd)].entity + 1}) :
          crowd' = Append(crowd, c)
    BY <1>1 DEF AddCandidate
  <2>2. c \in Candidates(Nat) /\ (crowd = <<>> => c.entity = 1)
    <3>1. crowd # <<>> => crowd[Len(crowd)].entity \in Nat
      BY CrowdTypes DEF ResolutionInv
    <3> QED
      BY <2>1, <3>1 DEF Candidates
  <2>3. CrowdOf(crowd')
    BY <2>1, <2>2 DEF ResolutionInv, CrowdOf
  <2> QED
    BY <1>1, <2>3 DEF AddCandidate, ResolutionInv, Unresolved
<1>2. CASE FindNoCandidates \/ RefuseSeveralEntities
  BY <1>2 DEF FindNoCandidates, RefuseSeveralEntities, ResolutionInv, Unresolved
<1>3. CASE ResolveForJob \/ ResolveFacts
  <2>1. UNCHANGED crowd /\ resolution' = Resolved /\ Resolved' = Resolved
    BY <1>3, SameCrowdSameResolution DEF ResolveForJob, ResolveFacts
  <2>2. crowd # <<>>
    <3>1. crowd = <<>> => Cardinality(Entities) = 0
      BY FS_EmptySet DEF Entities
    <3> QED
      BY <1>3, <3>1 DEF ResolveForJob, ResolveFacts
  <2> QED
    BY <2>1, <2>2 DEF ResolutionInv
<1>4. CASE UNCHANGED resolutionVars
  <2>1. UNCHANGED <<crowd, resolution>> /\ Resolved' = Resolved
    BY <1>4, SameCrowdSameResolution DEF resolutionVars
  <2> QED
    BY <2>1 DEF ResolutionInv
<1> QED
  BY <1>1, <1>2, <1>3, <1>4 DEF ResolutionNext

\* Entities become one person only if they agree on every identifier two of them show, and a value
\* always comes from a candidate that was kept, for any number of candidates.
THEOREM OnePersonAgrees == ResolutionSpec => []MergedEntitiesAgree
  BY ResolutionBegins, ResolutionPreserved, ResolutionMeans, PTL DEF ResolutionSpec

-----------------------------------------------------------------------------
(* Machine readable zone *)

Cells == 0..Filler
WeightAt(k) == <<7, 3, 1>>[((k - 1) % 3) + 1]
Weighed(text, k) == MrzValue(text[k]) * WeightAt(k)

\* A character weighs seven, three or one time its value.
LEMMA WeightsAreNumbers ==
  ASSUME NEW k \in Nat \ {0}, NEW text, text[k] \in Cells
  PROVE  /\ Weighed(text, k) \in Nat
         /\ WeightAt(k) = IF (k - 1) % 3 = 0 THEN 7 ELSE IF (k - 1) % 3 = 1 THEN 3 ELSE 1
<1>1. (k - 1) % 3 \in 0..2
  OBVIOUS
<1>2. WeightAt(k) = IF (k - 1) % 3 = 0 THEN 7 ELSE IF (k - 1) % 3 = 1 THEN 3 ELSE 1
  <2> DEFINE m == ((k - 1) % 3) + 1
  <2>1. m = 1 \/ m = 2 \/ m = 3
    BY <1>1
  <2>2. WeightAt(k) = <<7, 3, 1>>[m]
    BY DEF WeightAt
  <2>3. (k - 1) % 3 = m - 1
    BY <1>1
  <2> HIDE DEF m
  <2> QED
    BY <2>1, <2>2, <2>3
<1>3. MrzValue(text[k]) \in Nat
  BY DEF MrzValue, Cells, Filler
<1> QED
  BY <1>2, <1>3 DEF Weighed

\* the running sum of the weighed characters of a text
RunningSum(total, text, size) ==
    /\ CheckDigitOf(text) = total[size] % 10
    /\ total[0] = 0
    /\ \A k \in 1..size : total[k] = total[k - 1] + Weighed(text, k)
    /\ \A k \in 0..size : total[k] \in Nat

\* The check digit is the last digit of the running sum of the weighed characters.
LEMMA CheckDigitSums ==
  ASSUME NEW size \in Nat, NEW text, Len(text) = size, \A k \in 1..size : text[k] \in Cells
  PROVE  \E total : RunningSum(total, text, size)
<1> DEFINE part == [k \in 1..size |-> Weighed(text, k)]
           total == CHOOSE total : total = [k \in 0..Len(text) |->
                      IF k = 0 THEN 0 ELSE total[k - 1] + MrzValue(text[k]) * <<7, 3, 1>>[((k - 1) % 3) + 1]]
<1>1. CheckDigitOf(text) = total[size] % 10
  BY DEF CheckDigitOf
<1>2. \A f : Sums(f, part, size) <=>
             f = [k \in 0..Len(text) |-> IF k = 0 THEN 0 ELSE f[k - 1] + MrzValue(text[k]) * <<7, 3, 1>>[((k - 1) % 3) + 1]]
  <2> TAKE f
  <2>1. \A k \in 1..size : part[k] = MrzValue(text[k]) * <<7, 3, 1>>[((k - 1) % 3) + 1]
    BY DEF Weighed, WeightAt
  <2>2. \A k \in 0..size : k # 0 => k \in 1..size
    OBVIOUS
  <2> HIDE DEF part
  <2>3. [k \in 0..Len(text) |-> IF k = 0 THEN 0 ELSE f[k - 1] + MrzValue(text[k]) * <<7, 3, 1>>[((k - 1) % 3) + 1]]
        = [k \in 0..size |-> IF k = 0 THEN 0 ELSE f[k - 1] + part[k]]
    BY <2>1, <2>2, Zenon
  <2> QED
    BY <2>3 DEF Sums
<1>3. \E f : Sums(f, part, size)
  <2> HIDE DEF part
  <2> QED
    BY SumsUnfold
<1>4. Sums(total, part, size)
  BY <1>2, <1>3, Zenon
<1>5. \A k \in 1..size : part[k] = Weighed(text, k) /\ part[k] \in Nat
  BY WeightsAreNumbers
<1> HIDE DEF part, total
<1>6. total[0] = 0 /\ \A k \in 1..size : total[k] = total[k - 1] + part[k]
  <2>1. \A f : Sums(f, part, size) => f[0] = 0 /\ \A k \in 1..size : f[k] = f[k - 1] + part[k]
    BY SumsUnfold
  <2> QED
    BY <1>4, <2>1, Zenon
<1>7. \A k \in 0..size : total[k] \in Nat
  BY <1>4, <1>5, SumsAreNumbers
<1> QED
  BY <1>1, <1>5, <1>6, <1>7 DEF RunningSum

\* A check digit is a digit.
LEMMA CheckDigitsAreDigits ==
  ASSUME NEW text, Len(text) \in Nat, \A k \in 1..Len(text) : text[k] \in Cells
  PROVE  CheckDigitOf(text) \in 0..9
<1>1. PICK total : RunningSum(total, text, Len(text))
  BY CheckDigitSums
<1>2. CheckDigitOf(text) = total[Len(text)] % 10 /\ total[Len(text)] \in Nat
  BY <1>1 DEF RunningSum
<1>3. \A n \in Nat : n % 10 \in 0..9
  OBVIOUS
<1> QED
  BY <1>2, <1>3

\* The check digit of six characters.
LEMMA CheckDigitOfSix ==
  ASSUME NEW text, Len(text) = 6, \A k \in 1..6 : text[k] \in Cells
  PROVE  /\ CheckDigitOf(text) = (7 * MrzValue(text[1]) + 3 * MrzValue(text[2]) + MrzValue(text[3])
                                  + 7 * MrzValue(text[4]) + 3 * MrzValue(text[5]) + MrzValue(text[6])) % 10
         /\ \A k \in 1..6 : MrzValue(text[k]) \in Nat
<1>0. \E total : RunningSum(total, text, 6)
  BY CheckDigitSums
<1>1. PICK total : RunningSum(total, text, 6)
  BY <1>0, Zenon
<1>2. \A k \in 1..6 : MrzValue(text[k]) \in Nat
  BY DEF MrzValue, Cells, Filler
<1>3. /\ WeightAt(1) = 7 /\ WeightAt(2) = 3 /\ WeightAt(3) = 1
      /\ WeightAt(4) = 7 /\ WeightAt(5) = 3 /\ WeightAt(6) = 1
  BY WeightsAreNumbers
<1>4. /\ Weighed(text, 1) = 7 * MrzValue(text[1]) /\ Weighed(text, 2) = 3 * MrzValue(text[2])
      /\ Weighed(text, 3) = MrzValue(text[3]) /\ Weighed(text, 4) = 7 * MrzValue(text[4])
      /\ Weighed(text, 5) = 3 * MrzValue(text[5]) /\ Weighed(text, 6) = MrzValue(text[6])
  BY <1>2, <1>3 DEF Weighed
<1>5. /\ total[1] = total[0] + Weighed(text, 1) /\ total[2] = total[1] + Weighed(text, 2)
      /\ total[3] = total[2] + Weighed(text, 3) /\ total[4] = total[3] + Weighed(text, 4)
      /\ total[5] = total[4] + Weighed(text, 5) /\ total[6] = total[5] + Weighed(text, 6)
  BY <1>1 DEF RunningSum
<1> QED
  BY <1>1, <1>2, <1>4, <1>5 DEF RunningSum

\* The repair leaves digits alone.
LEMMA DigitsStay == ASSUME NEW c \in 0..9 PROVE RepairedDigit(c) = c
BY DEF RepairedDigit, NumericMap, Letter

\* Of the confusions only a G for a 6 weighs the same, and the repair makes a 6 of it.
LEMMA LookAlikesDiffer ==
  ASSUME NEW d \in 0..9, NEW c \in LookAlikes(d)
  PROVE  /\ c \in Cells /\ c # Filler
         /\ c % 10 = d => RepairedDigit(c) = d
<1>1. c \in {24, 26, 18, 11, 28, 16, 35} \cup 0..9 /\ (d = 6 => c = 16) /\ c # d
      /\ (c = 24 => d = 0) /\ (c = 26 => d = 0) /\ (c = 18 => d = 1) /\ (c = 11 => d = 8)
      /\ (c = 28 => d = 5) /\ (c = 16 => d = 6) /\ (c = 35 => d = 2)
  BY DEF LookAlikes, NumericMap, Letter
<1>2. c % 10 = d => c = 16 /\ d = 6
  BY <1>1
<1>3. RepairedDigit(16) = 6
  BY DEF RepairedDigit, NumericMap, Letter
<1> QED
  BY <1>1, <1>2, <1>3 DEF Cells, Filler

\* Seven, three and one have no divisor in common with ten.
LEMMA WeightsTell ==
  ASSUME NEW rest \in Nat, NEW c \in 0..35, NEW d \in 0..9,
         \/ (rest + 7 * c) % 10 = (rest + 7 * d) % 10
         \/ (rest + 3 * c) % 10 = (rest + 3 * d) % 10
         \/ (rest + c) % 10 = (rest + d) % 10
  PROVE  c % 10 = d
OBVIOUS

\* A date with at most one confusion, in it or in its digit, is repaired to what was printed as
\* soon as the digit matches.
LEMMA OneConfusionIsFound ==
  ASSUME NEW d \in [1..6 -> 0..9], NEW t, Len(t) = 6, DOMAIN t = 1..6, NEW found, NEW j \in 1..7,
         \A k \in 1..6 : t[k] = d[k] \/ t[k] \in LookAlikes(d[k]),
         \A k \in 1..6 : k # j => t[k] = d[k],
         j # 7 => found = CheckDigitOf(d),
         found = CheckDigitOf(t)
  PROVE  RepairNumeric(t) = d
<1>0. Len(d) = 6 /\ DOMAIN d = 1..6 /\ \A k \in 1..6 : d[k] \in 0..9
  OBVIOUS
<1>1. \A k \in 1..6 : d[k] \in Cells /\ t[k] \in Cells
  BY <1>0, LookAlikesDiffer DEF Cells, Filler
<1>2. \A k \in 1..6 : k # j => RepairedDigit(t[k]) = d[k]
  BY <1>0, DigitsStay
<1>3. ASSUME j # 7 PROVE RepairedDigit(t[j]) = d[j]
  <2>1. j \in 1..6
    BY <1>3
  <2>2. CASE t[j] = d[j]
    BY <1>0, <2>1, <2>2, DigitsStay
  <2>3. CASE t[j] \in LookAlikes(d[j])
    <3>1. t[j] \in 0..35
      BY <1>0, <2>1, <2>3, LookAlikesDiffer DEF Cells, Filler
    <3>2. CheckDigitOf(t) = CheckDigitOf(d)
      BY <1>3
    <3> DEFINE v(k) == MrzValue(t[k])
               w(k) == MrzValue(d[k])
    <3>3. \A k \in 1..6 : v(k) \in Nat /\ w(k) = d[k] /\ w(k) \in Nat
      BY <1>0, <1>1 DEF MrzValue, Filler, Cells
    <3>4. v(j) = t[j]
      BY <3>1 DEF MrzValue, Filler
    <3>5. \A k \in 1..6 : k # j => v(k) = w(k)
      OBVIOUS
    <3>6. (7 * v(1) + 3 * v(2) + v(3) + 7 * v(4) + 3 * v(5) + v(6)) % 10
          = (7 * w(1) + 3 * w(2) + w(3) + 7 * w(4) + 3 * w(5) + w(6)) % 10
      BY <1>0, <1>1, <3>2, CheckDigitOfSix
    <3> HIDE DEF v, w
    <3>a. /\ v(1) \in Nat /\ v(2) \in Nat /\ v(3) \in Nat /\ v(4) \in Nat /\ v(5) \in Nat /\ v(6) \in Nat
          /\ w(1) \in Nat /\ w(2) \in Nat /\ w(3) \in Nat /\ w(4) \in Nat /\ w(5) \in Nat /\ w(6) \in Nat
          /\ (j # 1 => v(1) = w(1)) /\ (j # 2 => v(2) = w(2)) /\ (j # 3 => v(3) = w(3))
          /\ (j # 4 => v(4) = w(4)) /\ (j # 5 => v(5) = w(5)) /\ (j # 6 => v(6) = w(6))
      BY <3>3, <3>5
    <3>7. v(j) \in 0..35 /\ w(j) \in 0..9
      BY <1>0, <2>1, <3>1, <3>3, <3>4
    <3>8. \E rest \in Nat : \/ (rest + 7 * v(j)) % 10 = (rest + 7 * w(j)) % 10
                            \/ (rest + 3 * v(j)) % 10 = (rest + 3 * w(j)) % 10
                            \/ (rest + v(j)) % 10 = (rest + w(j)) % 10
      <4>1. CASE j = 1
        <5> DEFINE rest == 3 * v(2) + v(3) + 7 * v(4) + 3 * v(5) + v(6)
        <5>1. rest \in Nat /\ rest + 7 * v(1) = 7 * v(1) + 3 * v(2) + v(3) + 7 * v(4) + 3 * v(5) + v(6)
              /\ rest + 7 * w(1) = 7 * w(1) + 3 * w(2) + w(3) + 7 * w(4) + 3 * w(5) + w(6)
          BY <3>a, <4>1
        <5> QED
          BY <3>6, <4>1, <5>1
      <4>2. CASE j = 2
        <5> DEFINE rest == 7 * v(1) + v(3) + 7 * v(4) + 3 * v(5) + v(6)
        <5>1. rest \in Nat /\ rest + 3 * v(2) = 7 * v(1) + 3 * v(2) + v(3) + 7 * v(4) + 3 * v(5) + v(6)
              /\ rest + 3 * w(2) = 7 * w(1) + 3 * w(2) + w(3) + 7 * w(4) + 3 * w(5) + w(6)
          BY <3>a, <4>2
        <5> QED
          BY <3>6, <4>2, <5>1
      <4>3. CASE j = 3
        <5> DEFINE rest == 7 * v(1) + 3 * v(2) + 7 * v(4) + 3 * v(5) + v(6)
        <5>1. rest \in Nat /\ rest + v(3) = 7 * v(1) + 3 * v(2) + v(3) + 7 * v(4) + 3 * v(5) + v(6)
              /\ rest + w(3) = 7 * w(1) + 3 * w(2) + w(3) + 7 * w(4) + 3 * w(5) + w(6)
          BY <3>a, <4>3
        <5> QED
          BY <3>6, <4>3, <5>1
      <4>4. CASE j = 4
        <5> DEFINE rest == 7 * v(1) + 3 * v(2) + v(3) + 3 * v(5) + v(6)
        <5>1. rest \in Nat /\ rest + 7 * v(4) = 7 * v(1) + 3 * v(2) + v(3) + 7 * v(4) + 3 * v(5) + v(6)
              /\ rest + 7 * w(4) = 7 * w(1) + 3 * w(2) + w(3) + 7 * w(4) + 3 * w(5) + w(6)
          BY <3>a, <4>4
        <5> QED
          BY <3>6, <4>4, <5>1
      <4>5. CASE j = 5
        <5> DEFINE rest == 7 * v(1) + 3 * v(2) + v(3) + 7 * v(4) + v(6)
        <5>1. rest \in Nat /\ rest + 3 * v(5) = 7 * v(1) + 3 * v(2) + v(3) + 7 * v(4) + 3 * v(5) + v(6)
              /\ rest + 3 * w(5) = 7 * w(1) + 3 * w(2) + w(3) + 7 * w(4) + 3 * w(5) + w(6)
          BY <3>a, <4>5
        <5> QED
          BY <3>6, <4>5, <5>1
      <4>6. CASE j = 6
        <5> DEFINE rest == 7 * v(1) + 3 * v(2) + v(3) + 7 * v(4) + 3 * v(5)
        <5>1. rest \in Nat /\ rest + v(6) = 7 * v(1) + 3 * v(2) + v(3) + 7 * v(4) + 3 * v(5) + v(6)
              /\ rest + w(6) = 7 * w(1) + 3 * w(2) + w(3) + 7 * w(4) + 3 * w(5) + w(6)
          BY <3>a, <4>6
        <5> QED
          BY <3>6, <4>6, <5>1
      <4> QED
        BY <2>1, <4>1, <4>2, <4>3, <4>4, <4>5, <4>6
    <3>9. v(j) % 10 = w(j)
      BY <3>7, <3>8, WeightsTell
    <3> QED
      BY <1>0, <2>1, <2>3, <3>3, <3>4, <3>9, LookAlikesDiffer
  <2> QED
    BY <2>1, <2>2, <2>3
<1>4. \A k \in 1..6 : RepairedDigit(t[k]) = d[k]
  BY <1>2, <1>3
<1> QED
  BY <1>0, <1>4 DEF RepairNumeric

-----------------------------------------------------------------------------
(* The printed lines *)

\* a text of some length, and a text that holds another one after its first p characters
IsText(text, n) == text \in Seq(Cells) /\ Len(text) = n
PartAt(text, p, part, n) == \A k \in 1..n : text[p + k] = part[k]

\* Two texts, one after the other.
LEMMA JoinedTexts ==
  ASSUME NEW a, NEW b, NEW m \in Nat, NEW n \in Nat, IsText(a, m), IsText(b, n)
  PROVE  IsText(a \o b, m + n) /\ PartAt(a \o b, 0, a, m) /\ PartAt(a \o b, m, b, n)
<1>1. IsText(a \o b, m + n)
  BY DEF IsText
<1>2. \A k \in 1..m : (a \o b)[k] = a[k] /\ 0 + k = k
  BY DEF IsText
<1>3. \A k \in 1..n : (a \o b)[m + k] = b[k]
  BY DEF IsText
<1> QED
  BY <1>1, <1>2, <1>3, Zenon DEF PartAt

\* One cell of a text that holds another one.
LEMMA AtCell ==
  ASSUME NEW text, NEW p, NEW part, NEW n, PartAt(text, p, part, n), NEW k \in 1..n
  PROVE  text[p + k] = part[k]
BY DEF PartAt

\* What a text holds it still holds with another text behind it.
LEMMA TextsKept ==
  ASSUME NEW a, NEW b, NEW m \in Nat, NEW n \in Nat, NEW part, NEW p \in Nat, NEW size \in Nat,
         IsText(a, m), IsText(b, n), PartAt(a, p, part, size), p + size <= m
  PROVE  PartAt(a \o b, p, part, size)
<1> SUFFICES ASSUME NEW k \in 1..size PROVE (a \o b)[p + k] = part[k]
  BY DEF PartAt
<1>1. p + k \in 1..m /\ a[p + k] = part[k]
  BY DEF PartAt
<1>2. (a \o b)[p + k] = a[p + k]
  BY <1>1 DEF IsText
<1> QED
  BY <1>1, <1>2

\* A part of a part.
LEMMA TextsWithin ==
  ASSUME NEW text, NEW part, NEW piece, NEW p \in Nat, NEW n \in Nat, NEW q \in Nat, NEW size \in Nat,
         PartAt(text, p, part, n), PartAt(part, q, piece, size), q + size <= n
  PROVE  PartAt(text, p + q, piece, size)
<1> SUFFICES ASSUME NEW k \in 1..size PROVE text[p + q + k] = piece[k]
  BY DEF PartAt
<1>1. q + k \in 1..n /\ part[q + k] = piece[k]
  BY DEF PartAt
<1>2. text[p + (q + k)] = part[q + k]
  BY <1>1 DEF PartAt
<1>3. p + (q + k) = p + q + k
  OBVIOUS
<1> QED
  BY <1>1, <1>2, <1>3

\* What stands in a text.
LEMMA TextCells ==
  ASSUME NEW n \in Nat, NEW text
  PROVE  /\ IsText(text, n) => text \in Seq(Cells) /\ DOMAIN text = 1..n /\ \A k \in 1..n : text[k] \in Cells
         /\ text \in [1..n -> Cells] => IsText(text, n)
BY DEF IsText

\* The check digit of a sequence of characters.
LEMMA DigitsAreTexts ==
  ASSUME NEW text \in Seq(Cells)
  PROVE  CheckDigitOf(text) \in Cells /\ IsText(<<CheckDigitOf(text)>>, 1)
<1>1. Len(text) \in Nat /\ \A k \in 1..Len(text) : text[k] \in Cells
  OBVIOUS
<1>2. CheckDigitOf(text) \in 0..9
  BY <1>1, CheckDigitsAreDigits, Zenon
<1>3. CheckDigitOf(text) \in Cells
  BY <1>2 DEF Cells, Filler
<1> QED
  BY <1>3 DEF IsText

\* A text with its check digit.
LEMMA TextsWithDigits ==
  ASSUME NEW text, NEW n \in Nat, IsText(text, n)
  PROVE  /\ IsText(WithDigit(text), n + 1) /\ PartAt(WithDigit(text), 0, text, n)
         /\ WithDigit(text)[n + 1] = CheckDigitOf(text)
<1>1. CheckDigitOf(text) \in Cells /\ text \in Seq(Cells)
  BY DigitsAreTexts DEF IsText
<1> QED
  BY <1>1 DEF WithDigit, IsText, PartAt

\* Sequences of characters are joined and cut to sequences of characters.
LEMMA CharacterSequences ==
  /\ \A a, b \in Seq(Cells) : a \o b \in Seq(Cells)
  /\ \A n \in Nat : \A a, p, q : IsText(a, n) /\ p \in 1..n /\ q \in 1..n => SubSeq(a, p, q) \in Seq(Cells)
<1>1. ASSUME NEW n \in Nat, NEW a, IsText(a, n), NEW p \in 1..n, NEW q \in 1..n
      PROVE  SubSeq(a, p, q) \in Seq(Cells)
  <2>1. a \in Seq(Cells) /\ Len(a) = n
    BY <1>1 DEF IsText
  <2> QED
    BY <2>1
<1>2. \A a, b \in Seq(Cells) : a \o b \in Seq(Cells)
  OBVIOUS
<1> QED
  BY <1>1, <1>2, Zenon

\* The fixed parts of a zone.
LEMMA FixedTexts ==
  /\ IsText(Country, 3) /\ IsText(MrzNumber, 9)
  /\ \A n \in Nat : IsText(Fillers(n), n) /\ \A k \in 1..n : Fillers(n)[k] = Filler
  /\ \A c \in Cells : IsText(<<c>>, 1) /\ IsText(<<c, Filler>>, 2)
  /\ Letter.I \in Cells /\ Letter.P \in Cells /\ Letter.M \in Cells /\ Filler \in Cells /\ 5 \in Cells
<1>1. \A n \in Nat : IsText(Fillers(n), n) /\ \A k \in 1..n : Fillers(n)[k] = Filler
  BY DEF Fillers, Cells, Filler, IsText
<1>2. IsText(Country, 3)
  BY DEF Country, Letter, Cells, Filler, IsText
<1>3. IsText(MrzNumber, 9)
  BY DEF MrzNumber, Letter, Cells, Filler, IsText
<1>4. Letter.I \in Cells /\ Letter.P \in Cells /\ Letter.M \in Cells /\ Filler \in Cells /\ 5 \in Cells
  BY DEF Letter, Cells, Filler
<1>5. \A c \in Cells : IsText(<<c>>, 1) /\ IsText(<<c, Filler>>, 2)
  BY <1>4 DEF IsText
<1> QED
  BY <1>1, <1>2, <1>3, <1>4, <1>5

\* The line of names: its second and its tenth character are fillers.
LEMMA NamesLine ==
  ASSUME NEW n \in Nat, n >= 10
  PROVE  IsText(MrzNames(n), n) /\ MrzNames(n)[2] = Filler /\ MrzNames(n)[10] = Filler
<1> DEFINE head == <<Letter.A, Filler, Filler, Letter.B>>
<1>1. IsText(head, 4) /\ head[2] = Filler
  BY DEF Letter, Cells, Filler, IsText
<1>2. PICK m \in Nat : m = n - 4 /\ 6 \in 1..m
  OBVIOUS
<1>3. IsText(Fillers(m), m) /\ Fillers(m)[6] = Filler
  BY <1>2, FixedTexts
<1>4. MrzNames(n) = head \o Fillers(m)
  BY <1>2 DEF MrzNames
<1> HIDE DEF head
<1> DEFINE line == head \o Fillers(m)
<1>5. IsText(line, 4 + m) /\ PartAt(line, 0, head, 4) /\ PartAt(line, 4, Fillers(m), m)
  BY <1>1, <1>3, JoinedTexts
<1> HIDE DEF line
<1>6. line[0 + 2] = head[2] /\ line[4 + 6] = Fillers(m)[6]
  BY <1>2, <1>5, AtCell
<1>7. 0 + 2 = 2 /\ 4 + 6 = 10 /\ 4 + m = n
  BY <1>2
<1>8. IsText(line, n) /\ line[2] = Filler /\ line[10] = Filler
  BY <1>1, <1>3, <1>5, <1>6, <1>7
<1> QED
  BY <1>4, <1>8, Zenon DEF line

\* the first line of a document with two lines
FirstLine(c, n) == <<c, Filler>> \o Country \o MrzNames(n)

\* Two of its cells are fillers.
LEMMA FirstLines ==
  ASSUME NEW c \in Cells, NEW n \in Nat, n >= 10
  PROVE  IsText(FirstLine(c, n), n + 5) /\ FirstLine(c, n)[7] = Filler /\ FirstLine(c, n)[15] = Filler
<1> DEFINE head == <<c, Filler>> \o Country
<1>1. IsText(head, 5)
  <2>1. IsText(<<c, Filler>> \o Country, 2 + 3)
    BY FixedTexts, JoinedTexts
  <2> QED
    BY <2>1
<1> HIDE DEF head
<1>2. IsText(MrzNames(n), n) /\ MrzNames(n)[2] = Filler /\ MrzNames(n)[10] = Filler
  BY NamesLine
<1> DEFINE line == head \o MrzNames(n)
<1>3. IsText(line, 5 + n) /\ PartAt(line, 5, MrzNames(n), n)
  BY <1>1, <1>2, JoinedTexts
<1> HIDE DEF line
<1>4. line[5 + 2] = MrzNames(n)[2] /\ line[5 + 10] = MrzNames(n)[10]
  BY <1>3, AtCell
<1>5. 5 + n = n + 5 /\ 5 + 2 = 7 /\ 5 + 10 = 15
  OBVIOUS
<1>6. IsText(line, n + 5) /\ line[7] = Filler /\ line[15] = Filler
  BY <1>2, <1>3, <1>4, <1>5
<1> QED
  BY <1>6, Zenon DEF head, line, FirstLine

\* A date that is printed is a text of digits.
LEMMA DatesAreTexts ==
  ASSUME NEW d \in PrintedDates
  PROVE  d \in [1..6 -> 0..9] /\ IsText(d, 6) /\ IsText(WithDigit(d), 7)
<1>1. d \in [1..6 -> 0..9]
  BY MrzAssumption
<1>2. d \in [1..6 -> Cells] /\ 6 \in Nat
  BY <1>1 DEF Cells, Filler
<1>3. IsText(d, 6)
  BY <1>2, TextCells
<1>4. IsText(WithDigit(d), 6 + 1)
  BY <1>3, TextsWithDigits
<1> QED
  BY <1>1, <1>3, <1>4

\* The two dates with their digits, next to each other.
LEMMA DatesSideBySide ==
  ASSUME NEW birth \in PrintedDates, NEW expiry \in PrintedDates
  PROVE  LET both == BirthAndExpiry(birth, expiry)
         IN  IsText(both, 15) /\ PartAt(both, 0, WithDigit(birth), 7) /\ PartAt(both, 8, WithDigit(expiry), 7)
<1> DEFINE first == WithDigit(birth)
           second == WithDigit(expiry)
           left == first \o <<Letter.M>>
<1>1. IsText(first, 7) /\ IsText(second, 7) /\ IsText(<<Letter.M>>, 1)
  BY DatesAreTexts, FixedTexts
<1>2. BirthAndExpiry(birth, expiry) = left \o second
  BY DEF BirthAndExpiry
<1> HIDE DEF first, second
<1>3. IsText(left, 8) /\ PartAt(left, 0, first, 7)
  <2>1. IsText(left, 7 + 1) /\ PartAt(left, 0, first, 7)
    BY <1>1, JoinedTexts
  <2> QED
    BY <2>1
<1> HIDE DEF left
<1>4. IsText(left \o second, 8 + 7) /\ PartAt(left \o second, 8, second, 7)
  BY <1>1, <1>3, JoinedTexts
<1>5. PartAt(left \o second, 0, first, 7)
  BY <1>1, <1>3, TextsKept
<1>6. 8 + 7 = 15
  OBVIOUS
<1> QED
  BY <1>2, <1>4, <1>5, <1>6, Zenon DEF first, second

\* a line that holds the two dates, each with its digit
Dated(line, n, p, q, birth, expiry) ==
    /\ IsText(line, n) /\ p + 7 <= n /\ q + 7 <= n
    /\ PartAt(line, p, WithDigit(birth), 7) /\ PartAt(line, q, WithDigit(expiry), 7)

\* More text behind such a line, and such a line behind more text.
LEMMA DatedGrow ==
  ASSUME NEW a, NEW b, NEW m \in Nat, NEW n \in Nat, NEW p \in Nat, NEW q \in Nat, NEW birth, NEW expiry,
         Dated(a, m, p, q, birth, expiry), IsText(b, n)
  PROVE  Dated(a \o b, m + n, p, q, birth, expiry) /\ Dated(b \o a, n + m, n + p, n + q, birth, expiry)
<1>0. IsText(a, m) /\ p + 7 <= m /\ q + 7 <= m /\ 7 \in Nat
      /\ PartAt(a, p, WithDigit(birth), 7) /\ PartAt(a, q, WithDigit(expiry), 7)
  BY DEF Dated
<1>1. IsText(a \o b, m + n) /\ IsText(b \o a, n + m) /\ PartAt(b \o a, n, a, m)
  BY <1>0, JoinedTexts
<1>2. PartAt(a \o b, p, WithDigit(birth), 7) /\ PartAt(a \o b, q, WithDigit(expiry), 7)
  BY <1>0, TextsKept, Zenon
<1>3. PartAt(b \o a, n + p, WithDigit(birth), 7)
  BY <1>0, <1>1, TextsWithin, Zenon
<1>4. PartAt(b \o a, n + q, WithDigit(expiry), 7)
  BY <1>0, <1>1, TextsWithin, Zenon
<1>5. p + 7 <= m + n /\ q + 7 <= m + n /\ n + p + 7 <= n + m /\ n + q + 7 <= n + m
  BY <1>0
<1> QED
  BY <1>1, <1>2, <1>3, <1>4, <1>5, Zenon DEF Dated

\* The second line of a document of three lines, as it is printed.
LEMMA SecondLineOfThree ==
  ASSUME NEW birth \in PrintedDates, NEW expiry \in PrintedDates, NEW c \in Cells
  PROVE  Dated(BirthAndExpiry(birth, expiry) \o Country \o Fillers(11) \o <<c>>, 30, 0, 8, birth, expiry)
<1> DEFINE dates == BirthAndExpiry(birth, expiry)
           one == dates \o Country
           two == one \o Fillers(11)
<1>1. Dated(dates, 15, 0, 8, birth, expiry)
  <2>1. 0 + 7 <= 15 /\ 8 + 7 <= 15
    OBVIOUS
  <2> QED
    BY <2>1, DatesSideBySide DEF Dated
<1>2. IsText(Country, 3) /\ IsText(Fillers(11), 11) /\ IsText(<<c>>, 1)
  BY FixedTexts
<1> HIDE DEF dates
<1>3. Dated(one, 15 + 3, 0, 8, birth, expiry)
  BY <1>1, <1>2, DatedGrow
<1> HIDE DEF one
<1>4. Dated(two, 18 + 11, 0, 8, birth, expiry)
  <2>1. Dated(one, 18, 0, 8, birth, expiry)
    BY <1>3
  <2> QED
    BY <2>1, <1>2, DatedGrow
<1> HIDE DEF two
<1>5. Dated(two \o <<c>>, 29 + 1, 0, 8, birth, expiry)
  <2>1. Dated(two, 29, 0, 8, birth, expiry)
    BY <1>4
  <2> QED
    BY <2>1, <1>2, DatedGrow
<1>6. 29 + 1 = 30
  OBVIOUS
<1> QED
  BY <1>5, <1>6, Zenon DEF one, two, dates

\* The second line of a document of two lines; what follows the dates differs.
LEMMA SecondLineOfTwo ==
  ASSUME NEW birth \in PrintedDates, NEW expiry \in PrintedDates, NEW c \in Cells,
         NEW size \in Nat, NEW tail, IsText(tail, size)
  PROVE  Dated(WithDigit(MrzNumber) \o Country \o BirthAndExpiry(birth, expiry) \o tail \o <<c>>,
               29 + size, 13, 21, birth, expiry)
<1> DEFINE number == WithDigit(MrzNumber)
           dates == BirthAndExpiry(birth, expiry)
           zero == number \o Country
           one == zero \o dates
           two == one \o tail
<1>1. Dated(dates, 15, 0, 8, birth, expiry)
  <2>1. 0 + 7 <= 15 /\ 8 + 7 <= 15
    OBVIOUS
  <2> QED
    BY <2>1, DatesSideBySide DEF Dated
<1>2. IsText(Country, 3) /\ IsText(MrzNumber, 9) /\ IsText(<<c>>, 1)
  BY FixedTexts
<1>3. IsText(number, 9 + 1)
  BY <1>2, TextsWithDigits
<1> HIDE DEF dates, number
<1>4. IsText(zero, 10 + 3)
  <2>1. IsText(number, 10)
    BY <1>3
  <2> QED
    BY <2>1, <1>2, JoinedTexts
<1> HIDE DEF zero
<1>5. Dated(one, 13 + 15, 13 + 0, 13 + 8, birth, expiry)
  <2>1. IsText(zero, 13)
    BY <1>4
  <2> QED
    BY <2>1, <1>1, DatedGrow
<1> HIDE DEF one
<1>6. Dated(two, 28 + size, 13, 21, birth, expiry)
  <2>1. Dated(one, 28, 13, 21, birth, expiry)
    BY <1>5
  <2> QED
    BY <2>1, DatedGrow
<1> HIDE DEF two
<1>7. Dated(two \o <<c>>, 28 + size + 1, 13, 21, birth, expiry)
  <2>1. 28 + size \in Nat
    OBVIOUS
  <2> QED
    BY <1>2, <1>6, <2>1, DatedGrow
<1>8. 28 + size + 1 = 29 + size
  OBVIOUS
<1> QED
  BY <1>7, <1>8, Zenon DEF zero, one, two, dates, number

\* the shape of a zone: its lines, their width, what comes before a date on the second line
LinesIn(kind) == IF kind = "TD1" THEN 3 ELSE 2
WidthOf(kind) == IF kind = "TD1" THEN 30 ELSE IF kind = "TD2" THEN 36 ELSE 44
CellsBefore(kind, date) == IF kind = "TD1" THEN (IF date = "birth" THEN 0 ELSE 8) ELSE (IF date = "birth" THEN 13 ELSE 21)
IsZone(kind, lines, birth, expiry) ==
    /\ DOMAIN lines = 1..LinesIn(kind) /\ Len(lines) = LinesIn(kind) /\ lines \in Seq(Seq(Cells))
    /\ \A k \in 1..LinesIn(kind) : IsText(lines[k], WidthOf(kind))
    /\ Dated(lines[2], WidthOf(kind), CellsBefore(kind, "birth"), CellsBefore(kind, "expiry"), birth, expiry)
    /\ kind # "TD1" => lines[1][7] = Filler /\ lines[1][15] = Filler

\* What is printed has that shape.
LEMMA PrintedZones ==
  ASSUME NEW kind \in MrzKind, NEW birth \in PrintedDates, NEW expiry \in PrintedDates
  PROVE  IsZone(kind, PrintedLines(kind, birth, expiry), birth, expiry)
<1> DEFINE number == WithDigit(MrzNumber)
           dates == BirthAndExpiry(birth, expiry)
           checked == SubSeq(dates, 1, 7) \o SubSeq(dates, 9, 15)
           personal == WithDigit(<<5>> \o Fillers(13))
           first == <<Letter.I, Filler>> \o Country \o number \o Fillers(15)
           c1 == CheckDigitOf(SubSeq(first, 6, 30) \o checked \o Fillers(11))
           c2 == CheckDigitOf(number \o checked \o Fillers(7))
           c3 == CheckDigitOf(number \o checked \o personal)
           one == <<first, dates \o Country \o Fillers(11) \o <<c1>>, MrzNames(30)>>
           two == <<<<Letter.I, Filler>> \o Country \o MrzNames(31), number \o Country \o dates \o Fillers(7) \o <<c2>>>>
           three == <<<<Letter.P, Filler>> \o Country \o MrzNames(39), number \o Country \o dates \o personal \o <<c3>>>>
           lines == PrintedLines(kind, birth, expiry)
<1>1. /\ kind = "TD1" => lines = one
      /\ kind = "TD2" => lines = two
      /\ kind = "TD3" => lines = three
  <2>1. CASE kind = "TD1"
    BY <2>1, Zenon DEF PrintedLines
  <2>2. CASE kind = "TD2"
    BY <2>2, Zenon DEF PrintedLines
  <2>3. CASE kind = "TD3"
    BY <2>3, Zenon DEF PrintedLines
  <2> QED
    BY <2>1, <2>2, <2>3 DEF MrzKind
<1>2. IsText(number, 10)
  <2>1. IsText(number, 9 + 1)
    BY FixedTexts, TextsWithDigits
  <2> QED
    BY <2>1
<1>3. IsText(dates, 15)
  BY DatesSideBySide
<1>4. checked \in Seq(Cells)
  <2>1. 15 \in Nat /\ 1 \in 1..15 /\ 7 \in 1..15 /\ 9 \in 1..15 /\ 15 \in 1..15
    OBVIOUS
  <2>2. SubSeq(dates, 1, 7) \in Seq(Cells) /\ SubSeq(dates, 9, 15) \in Seq(Cells)
    BY <1>3, <2>1, CharacterSequences, Zenon
  <2> QED
    BY <2>2, CharacterSequences, Zenon
<1>5. IsText(personal, 15)
  <2>1. IsText(<<5>>, 1) /\ IsText(Fillers(13), 13)
    BY FixedTexts
  <2>2. IsText(<<5>> \o Fillers(13), 1 + 13)
    BY <2>1, JoinedTexts
  <2>3. IsText(<<5>> \o Fillers(13), 14)
    BY <2>2
  <2>4. IsText(personal, 14 + 1)
    BY <2>3, TextsWithDigits
  <2> QED
    BY <2>4
<1> HIDE DEF number, dates, checked, personal, lines
<1>6. IsText(first, 30)
  <2> DEFINE p == <<Letter.I, Filler>>
             q == p \o Country
             r == q \o number
  <2>1. IsText(p, 2) /\ IsText(Country, 3) /\ IsText(Fillers(15), 15)
    BY FixedTexts
  <2> HIDE DEF p
  <2>2. IsText(q, 2 + 3)
    BY <2>1, JoinedTexts
  <2>3. IsText(q, 5)
    BY <2>2
  <2> HIDE DEF q
  <2>4. IsText(r, 5 + 10)
    BY <1>2, <2>3, JoinedTexts
  <2>5. IsText(r, 15)
    BY <2>4
  <2> HIDE DEF r
  <2>6. IsText(r \o Fillers(15), 15 + 15)
    BY <2>1, <2>5, JoinedTexts
  <2>7. 15 + 15 = 30
    OBVIOUS
  <2> QED
    BY <2>6, <2>7, Zenon DEF p, q, r
<1> HIDE DEF first
<1>7. c1 \in Cells /\ c2 \in Cells /\ c3 \in Cells
  <2>1. 30 \in Nat /\ 6 \in 1..30 /\ 30 \in 1..30
    OBVIOUS
  <2>2. SubSeq(first, 6, 30) \in Seq(Cells)
    BY <1>6, <2>1, CharacterSequences, Zenon
  <2>3. number \in Seq(Cells) /\ personal \in Seq(Cells) /\ Fillers(11) \in Seq(Cells) /\ Fillers(7) \in Seq(Cells)
    BY <1>2, <1>5, FixedTexts DEF IsText
  <2>4. /\ SubSeq(first, 6, 30) \o checked \o Fillers(11) \in Seq(Cells)
        /\ number \o checked \o Fillers(7) \in Seq(Cells)
        /\ number \o checked \o personal \in Seq(Cells)
    BY <1>4, <2>2, <2>3, CharacterSequences, Zenon
  <2> QED
    BY <2>4, DigitsAreTexts, Zenon
<1> HIDE DEF c1, c2, c3
<1>8. CASE kind = "TD1"
  <2>1. Dated(one[2], 30, 0, 8, birth, expiry) /\ one[1] = first /\ one[3] = MrzNames(30)
    BY <1>7, SecondLineOfThree DEF dates
  <2>2. IsText(one[1], 30) /\ IsText(one[2], 30) /\ IsText(one[3], 30)
    BY <1>6, <2>1, NamesLine DEF Dated
  <2>3. DOMAIN one = 1..3 /\ Len(one) = 3
    OBVIOUS
  <2>a. one \in Seq(Seq(Cells))
    <3>1. one[1] \in Seq(Cells) /\ one[2] \in Seq(Cells) /\ one[3] \in Seq(Cells)
      BY <2>2 DEF IsText
    <3> QED
      BY <3>1
  <2> HIDE DEF one
  <2>4. \A k \in 1..3 : IsText(one[k], 30)
    BY <2>2
  <2>5. LinesIn(kind) = 3 /\ WidthOf(kind) = 30 /\ CellsBefore(kind, "birth") = 0 /\ CellsBefore(kind, "expiry") = 8
    BY <1>8 DEF LinesIn, WidthOf, CellsBefore
  <2> QED
    BY <1>1, <1>8, <2>1, <2>3, <2>4, <2>5, <2>a, Zenon DEF IsZone, lines
<1>9. CASE kind = "TD2"
  <2>1. Dated(two[2], 29 + 7, 13, 21, birth, expiry)
    BY <1>7, SecondLineOfTwo, FixedTexts DEF dates, number
  <2>2. IsText(two[1], 31 + 5) /\ two[1][7] = Filler /\ two[1][15] = Filler
    <3>1. /\ IsText(FirstLine(Letter.I, 31), 31 + 5)
          /\ FirstLine(Letter.I, 31)[7] = Filler /\ FirstLine(Letter.I, 31)[15] = Filler
      BY FirstLines, FixedTexts
    <3>2. two[1] = FirstLine(Letter.I, 31)
      BY DEF FirstLine
    <3> HIDE DEF two
    <3> QED
      BY <3>1, <3>2
  <2>3. DOMAIN two = 1..2 /\ Len(two) = 2
    OBVIOUS
  <2>a. two \in Seq(Seq(Cells))
    <3>1. two[1] \in Seq(Cells) /\ two[2] \in Seq(Cells)
      BY <2>1, <2>2 DEF IsText, Dated
    <3> QED
      BY <3>1
  <2> HIDE DEF two
  <2>4. Dated(two[2], 36, 13, 21, birth, expiry) /\ IsText(two[1], 36)
    BY <2>1, <2>2
  <2>5. \A k \in 1..2 : IsText(two[k], 36)
    BY <2>4 DEF Dated
  <2>6. LinesIn(kind) = 2 /\ WidthOf(kind) = 36 /\ CellsBefore(kind, "birth") = 13 /\ CellsBefore(kind, "expiry") = 21
    BY <1>9 DEF LinesIn, WidthOf, CellsBefore
  <2> QED
    BY <1>1, <1>9, <2>2, <2>3, <2>4, <2>5, <2>6, <2>a, Zenon DEF IsZone, lines
<1>10. CASE kind = "TD3"
  <2>1. Dated(three[2], 29 + 15, 13, 21, birth, expiry)
    BY <1>5, <1>7, SecondLineOfTwo DEF dates, number
  <2>2. IsText(three[1], 39 + 5) /\ three[1][7] = Filler /\ three[1][15] = Filler
    <3>1. /\ IsText(FirstLine(Letter.P, 39), 39 + 5)
          /\ FirstLine(Letter.P, 39)[7] = Filler /\ FirstLine(Letter.P, 39)[15] = Filler
      BY FirstLines, FixedTexts
    <3>2. three[1] = FirstLine(Letter.P, 39)
      BY DEF FirstLine
    <3> HIDE DEF three
    <3> QED
      BY <3>1, <3>2
  <2>3. DOMAIN three = 1..2 /\ Len(three) = 2
    OBVIOUS
  <2>a. three \in Seq(Seq(Cells))
    <3>1. three[1] \in Seq(Cells) /\ three[2] \in Seq(Cells)
      BY <2>1, <2>2 DEF IsText, Dated
    <3> QED
      BY <3>1
  <2> HIDE DEF three
  <2>4. Dated(three[2], 44, 13, 21, birth, expiry) /\ IsText(three[1], 44)
    BY <2>1, <2>2
  <2>5. \A k \in 1..2 : IsText(three[k], 44)
    BY <2>4 DEF Dated
  <2>6. LinesIn(kind) = 2 /\ WidthOf(kind) = 44 /\ CellsBefore(kind, "birth") = 13 /\ CellsBefore(kind, "expiry") = 21
    BY <1>10 DEF LinesIn, WidthOf, CellsBefore
  <2> QED
    BY <1>1, <1>10, <2>2, <2>3, <2>4, <2>5, <2>6, <2>a, Zenon DEF IsZone, lines
<1> QED
  BY <1>8, <1>9, <1>10 DEF MrzKind, lines

-----------------------------------------------------------------------------
(* What is read and what the parser makes of it *)

\* a line as it is read: a character that differs is a look-alike, at a place that was misread
LineAsRead(read, line, l, wrong) ==
    /\ IsText(read, Len(line))
    /\ \A p \in DOMAIN line :
          \/ read[p] = line[p]
          \/ <<l, p>> \in wrong /\ read[p] \in LookAlikes(line[p])

\* the text that is handed over: perhaps the words above the zone, then the lines of the zone
ReadAs(offset, text, lines, wrong) ==
    /\ DOMAIN text = 1..(offset + Len(lines)) /\ text \in Seq(Seq(Cells))
    /\ offset = 1 => IsText(text[1], 24)
    /\ \A l \in DOMAIN lines : LineAsRead(text[l + offset], lines[l], l, wrong)

\* The invariant: a zone has the shape of what is printed, and what is read differs from it in
\* look-alikes at the places that were misread.
MrzInv ==
    /\ IsFiniteSet(misread)
    /\ parsed = Unparsed \/ parsed.status \in MrzStatus
    /\ CheckedDatesAreThePrintedOnes
    /\ \/ zone.kind = "none" /\ zone.lines = <<>> /\ reading = <<>> /\ misread = {} /\ parsed = Unparsed
       \/ /\ zone.kind \in MrzKind
          /\ \E birth, expiry \in PrintedDates, offset \in {0, 1} :
                 /\ IsZone(zone.kind, zone.lines, birth, expiry)
                 /\ ReadAs(offset, reading, zone.lines, misread)

\* Only digits are mistaken, for digits and letters.
LEMMA OnlyDigitsAreMistaken ==
  ASSUME NEW d \in Cells, NEW c \in LookAlikes(d)
  PROVE  d \in 0..9 /\ c \in Cells /\ c # Filler /\ d # Filler
<1>1. d \in 0..9
  BY DEF LookAlikes, NumericMap, Letter, Cells, Filler
<1> QED
  BY <1>1, LookAlikesDiffer DEF Filler

\* one sequence after the other
Together(both, a, b, m, n, S) ==
    /\ both \in Seq(S) /\ Len(both) = m + n
    /\ \A k \in 1..m : both[k] = a[k]
    /\ \A k \in 1..n : both[m + k] = b[k]

\* Two sequences, one after the other.
LEMMA SequencesJoin ==
  ASSUME NEW S, NEW a \in Seq(S), NEW b \in Seq(S), NEW m \in Nat, NEW n \in Nat, Len(a) = m, Len(b) = n
  PROVE  Together(a \o b, a, b, m, n, S)
<1>1. a \o b \in Seq(S) /\ Len(a \o b) = m + n
  OBVIOUS
<1>2. \A k \in 1..m : (a \o b)[k] = a[k]
  OBVIOUS
<1>3. \A k \in 1..n : (a \o b)[m + k] = b[k]
  OBVIOUS
<1> QED
  BY <1>1, <1>2, <1>3, Zenon DEF Together

\* A new zone is read as it is printed.
LEMMA PhotographReads ==
  ASSUME NEW kind \in MrzKind, NEW birth \in PrintedDates, NEW expiry \in PrintedDates,
         NEW lines, IsZone(kind, lines, birth, expiry), NEW heading \in {<<>>, <<Words>>}
  PROVE  \E offset \in {0, 1} : ReadAs(offset, heading \o lines, lines, {})
<1>1. PICK n \in Nat : DOMAIN lines = 1..n /\ Len(lines) = n /\ n >= 2
  BY DEF IsZone, LinesIn
<1>2. PICK w \in Nat : \A k \in 1..n : IsText(lines[k], w)
  BY <1>1 DEF IsZone, WidthOf
<1>3. lines \in Seq(Seq(Cells))
  BY DEF IsZone
<1>4. \A l \in DOMAIN lines : LineAsRead(lines[l], lines[l], l, {})
  BY <1>1, <1>2 DEF LineAsRead, IsText
<1>5. CASE heading = <<>>
  <2>1. heading \o lines = lines
    BY <1>3, <1>5
  <2>2. ReadAs(0, lines, lines, {})
    BY <1>1, <1>3, <1>4 DEF ReadAs
  <2> QED
    BY <2>1, <2>2
<1>6. CASE heading = <<Words>>
  <2>1. Words \in Seq(Cells) /\ Len(Words) = 24
    <3>1. [k \in 1..23 |-> Letter.D] \in Seq(Cells) /\ Len([k \in 1..23 |-> Letter.D]) = 23
      BY DEF Letter, Cells, Filler
    <3>2. <<Letter.I>> \in Seq(Cells) /\ Len(<<Letter.I>>) = 1
      BY DEF Letter, Cells, Filler
    <3> QED
      BY <3>1, <3>2 DEF Words
  <2>2. <<Words>> \in Seq(Seq(Cells)) /\ Len(<<Words>>) = 1 /\ <<Words>>[1] = Words
    BY <2>1
  <2> DEFINE text == heading \o lines
  <2> DEFINE above == <<Words>>
  <2> HIDE DEF above
  <2>a. above \in Seq(Seq(Cells)) /\ Len(above) = 1 /\ above[1] = Words /\ text = above \o lines
    BY <1>6, <2>2 DEF above
  <2>3. text \in Seq(Seq(Cells)) /\ DOMAIN text = 1..(1 + n) /\ text[1] = Words
        /\ \A l \in 1..n : text[l + 1] = lines[l]
    <3>0. PICK m \in Nat : m = 1
      OBVIOUS
    <3>1. above \in Seq(Seq(Cells)) /\ Len(above) = m /\ lines \in Seq(Seq(Cells)) /\ Len(lines) = n /\ m \in 1..m
      BY <1>1, <1>3, <2>a, <3>0
    <3>2. Together(above \o lines, above, lines, m, n, Seq(Cells))
      BY <1>1, <3>0, <3>1, SequencesJoin, Zenon
    <3> DEFINE both == above \o lines
    <3> HIDE DEF both
    <3>4. both \in Seq(Seq(Cells)) /\ Len(both) = 1 + n /\ both[1] = Words /\ \A l \in 1..n : both[l + 1] = lines[l]
      <4>1. both \in Seq(Seq(Cells)) /\ Len(both) = m + n
            /\ (\A l \in 1..m : both[l] = above[l]) /\ (\A l \in 1..n : both[m + l] = lines[l])
        BY <3>2 DEF both, Together
      <4>2. \A l \in 1..n : m + l = l + 1
        BY <3>0
      <4> QED
        BY <2>a, <3>0, <3>1, <4>1, <4>2
    <3>5. text = both
      BY <2>a DEF both
    <3> HIDE DEF text
    <3> QED
      BY <1>1, <3>4, <3>5
  <2> HIDE DEF text
  <2>5. IsText(Words, 24)
    BY <2>1 DEF IsText
  <2>4. ReadAs(1, text, lines, {})
    BY <1>1, <1>4, <2>3, <2>5 DEF ReadAs
  <2> QED
    BY <2>4 DEF text
<1> QED
  BY <1>5, <1>6

\* Six characters cut out of a text.
LEMMA CutOut ==
  ASSUME NEW n \in Nat, NEW text, IsText(text, n), NEW p \in Nat, p + 6 <= n
  PROVE  LET cut == SubSeq(text, p + 1, p + 6)
         IN  DOMAIN cut = 1..6 /\ Len(cut) = 6 /\ \A k \in 1..6 : cut[k] = text[p + k] /\ cut[k] \in Cells
<1> DEFINE cut == SubSeq(text, p + 1, p + 6)
<1>1. text \in Seq(Cells) /\ Len(text) = n /\ \A k \in 1..n : text[k] \in Cells
  BY DEF IsText
<1>2. cut = [k \in 1..6 |-> text[p + k]]
  <2>1. cut \in Seq(Cells) /\ Len(cut) = 6
    BY <1>1
  <2>2. \A k \in 1..6 : cut[k] = text[p + k]
    BY <1>1
  <2> HIDE DEF cut
  <2> QED
    BY <2>1, <2>2
<1>3. \A k \in 1..6 : text[p + k] \in Cells
  BY <1>1
<1> HIDE DEF cut
<1>4. DOMAIN cut = 1..6 /\ Len(cut) = 6 /\ \A k \in 1..6 : cut[k] = text[p + k]
  <2>1. cut \in Seq(Cells) /\ DOMAIN cut = 1..6
    BY <1>2, <1>3
  <2> QED
    BY <1>2, <2>1
<1> QED
  BY <1>3, <1>4, Zenon DEF cut

\* Of places with at most one mistake all but one are right.
LEMMA AtMostOneMistake ==
  ASSUME NEW wrong, IsFiniteSet(wrong), NEW p \in Nat,
         Cardinality(wrong \cap {<<2, q>> : q \in (p + 1)..(p + 7)}) <= 1
  PROVE  \E j \in 1..7 : \A k \in 1..7 : k # j => <<2, p + k>> \notin wrong
<1> DEFINE some == wrong \cap {<<2, q>> : q \in (p + 1)..(p + 7)}
<1>1. IsFiniteSet(some)
  BY FS_Subset
<1>2. ASSUME NEW j \in 1..7, NEW k \in 1..7, <<2, p + j>> \in wrong, <<2, p + k>> \in wrong PROVE j = k
  <2>1. <<2, p + j>> \in some /\ <<2, p + k>> \in some
    BY <1>2
  <2>2. some # {} /\ Cardinality(some) \in Nat /\ (Cardinality(some) = 0 <=> some = {})
    <3> HIDE DEF some
    <3> QED
      BY <1>1, <2>1, FS_CardinalityType, FS_EmptySet
  <2>3. Cardinality(some) = 1
    <3>1. Cardinality(some) <= 1
      OBVIOUS
    <3> HIDE DEF some
    <3> QED
      BY <2>2, <3>1
  <2>4. PICK x : some = {x}
    <3> HIDE DEF some
    <3> QED
      BY <1>1, <2>3, FS_Singleton
  <2>5. <<2, p + j>> = <<2, p + k>>
    <3> HIDE DEF some
    <3> QED
      BY <2>1, <2>4
  <2> QED
    BY <2>5
<1>3. CASE \E j \in 1..7 : <<2, p + j>> \in wrong
  BY <1>2, <1>3
<1>4. CASE ~ \E j \in 1..7 : <<2, p + j>> \in wrong
  BY <1>4
<1> QED
  BY <1>3, <1>4

\* of a date behind p cells and its digit: they fit, repaired they are d, they are as in another
\* line, and one at most of their places is among those of some mistakes
DigitFits(line, p) == line[p + 7] = CheckDigitOf(SubSeq(line, p + 1, p + 6))
RepairsTo(line, p, d) == RepairNumeric(SubSeq(line, p + 1, p + 6)) = d
SameDate(line, other, p) == \A k \in 1..7 : line[p + k] = other[p + k]
OneWrong(wrong, p) == Cardinality(wrong \cap {<<2, q>> : q \in (p + 1)..(p + 7)}) <= 1

\* A date that is read with at most one mistake, and whose digit matches, is repaired to what was printed.
LEMMA MatchingDates ==
  ASSUME NEW d \in PrintedDates, NEW n \in Nat, NEW line, IsText(line, n), NEW p \in Nat, p + 7 <= n,
         PartAt(line, p, WithDigit(d), 7), NEW wrong, IsFiniteSet(wrong), NEW read, LineAsRead(read, line, 2, wrong),
         NEW size \in Nat, NEW norm, IsText(norm, size), p + 7 <= size,
         SameDate(norm, read, p), OneWrong(wrong, p), DigitFits(norm, p)
  PROVE  RepairsTo(norm, p, d)
<1> DEFINE t == SubSeq(norm, p + 1, p + 6)
<1>1. DOMAIN t = 1..6 /\ Len(t) = 6 /\ \A k \in 1..6 : t[k] = norm[p + k]
  BY CutOut
<1>2. PICK j \in 1..7 : \A k \in 1..7 : k # j => <<2, p + k>> \notin wrong
  BY AtMostOneMistake DEF OneWrong
<1> DEFINE found == norm[p + 7]
<1>3. found = CheckDigitOf(t)
  BY DEF DigitFits
<1> HIDE DEF t, found
<1>4. \A k \in 1..7 : p + k \in DOMAIN line
  <2>1. DOMAIN line = 1..n
    BY DEF IsText
  <2> QED
    BY <2>1
<1>5. \A k \in 1..7 :
         \/ norm[p + k] = line[p + k]
         \/ <<2, p + k>> \in wrong /\ norm[p + k] \in LookAlikes(line[p + k])
  BY <1>4 DEF LineAsRead, SameDate
<1>6. /\ \A k \in 1..6 : line[p + k] = d[k]
      /\ line[p + 7] = CheckDigitOf(d)
  <2>1. PartAt(WithDigit(d), 0, d, 6) /\ WithDigit(d)[6 + 1] = CheckDigitOf(d)
    BY DatesAreTexts, TextsWithDigits
  <2>2. \A k \in 1..6 : WithDigit(d)[k] = d[k]
    <3> TAKE k \in 1..6
    <3>1. WithDigit(d)[0 + k] = d[k] /\ 0 + k = k
      BY <2>1, AtCell
    <3> QED
      BY <3>1
  <2>3. \A k \in 1..7 : line[p + k] = WithDigit(d)[k]
    BY DEF PartAt
  <2> QED
    BY <2>1, <2>2, <2>3
<1>7. \A k \in 1..6 : t[k] = d[k] \/ t[k] \in LookAlikes(d[k])
  BY <1>1, <1>5, <1>6
<1>8. \A k \in 1..6 : k # j => t[k] = d[k]
  BY <1>1, <1>2, <1>5, <1>6
<1>9. j # 7 => found = CheckDigitOf(d)
  BY <1>2, <1>5, <1>6 DEF found
<1>10. d \in [1..6 -> 0..9]
  BY DatesAreTexts
<1>11. RepairNumeric(t) = d
  BY <1>1, <1>2, <1>3, <1>7, <1>8, <1>9, <1>10, OneConfusionIsFound
<1> QED
  BY <1>11 DEF t, RepairsTo

\* The places of a date are the seven cells behind what comes before it.
LEMMA DatePlaces ==
  ASSUME NEW kind \in MrzKind, NEW f \in {"birth", "expiry"}
  PROVE  /\ CellsBefore(kind, f) \in Nat /\ CellsBefore(kind, f) + 7 <= 30
         /\ Place(kind, f) = {<<2, q>> : q \in (CellsBefore(kind, f) + 1)..(CellsBefore(kind, f) + 7)}
<1> DEFINE from == CASE kind = "TD1" /\ f = "birth" -> 1 [] kind = "TD1" /\ f = "expiry" -> 9
                     [] kind # "TD1" /\ f = "birth" -> 14 [] kind # "TD1" /\ f = "expiry" -> 22
           p == CellsBefore(kind, f)
<1>1. from = p + 1 /\ p \in Nat /\ p + 7 <= 30
  BY DEF CellsBefore
<1>2. Place(kind, f) = {<<2, q>> : q \in from..(from + 6)}
  BY DEF Place
<1> HIDE DEF from, p
<1>3. from + 6 = p + 7
  BY <1>1
<1> QED
  BY <1>1, <1>2, <1>3 DEF p

\* What is printed of a date is the date.
LEMMA PrintedDateIsPrinted ==
  ASSUME NEW f \in {"birth", "expiry"}, zone.kind \in MrzKind, NEW d \in PrintedDates,
         IsText(zone.lines[2], WidthOf(zone.kind)), PartAt(zone.lines[2], CellsBefore(zone.kind, f), WithDigit(d), 7)
  PROVE  PrintedDate(f) = d
<1> DEFINE p == CellsBefore(zone.kind, f)
           places == Place(zone.kind, f)
           line == zone.lines[2]
           from == CHOOSE q \in 1..44 : <<2, q>> \in places /\ \A r \in 1..44 : <<2, r>> \in places => q <= r
<1>1. PrintedDate(f) = SubSeq(line, from, from + 5)
  BY DEF PrintedDate
<1>2. p \in Nat /\ p + 7 <= 30 /\ places = {<<2, q>> : q \in (p + 1)..(p + 7)}
  BY DatePlaces
<1>3. \A q : <<2, q>> \in places <=> q \in (p + 1)..(p + 7)
  <2> HIDE DEF p, places
  <2> QED
    BY <1>2
<1> HIDE DEF p, places
<1>4. from = p + 1
  <2>1. p + 1 \in 1..44 /\ <<2, p + 1>> \in places /\ \A r \in 1..44 : <<2, r>> \in places => p + 1 <= r
    BY <1>2, <1>3
  <2>2. \A q \in 1..44 : <<2, q>> \in places /\ (\A r \in 1..44 : <<2, r>> \in places => q <= r) => q = p + 1
    BY <1>2, <1>3, <2>1
  <2> QED
    BY <2>1, <2>2
<1> HIDE DEF from
<1>5. PICK n \in Nat : n = WidthOf(zone.kind) /\ p + 6 <= n
  BY <1>2 DEF WidthOf
<1>6. IsText(line, n) /\ PartAt(line, p, WithDigit(d), 7)
  BY <1>5 DEF p
<1> HIDE DEF line
<1> DEFINE cut == SubSeq(line, p + 1, p + 6)
<1>7. DOMAIN cut = 1..6 /\ \A k \in 1..6 : cut[k] = line[p + k]
  BY <1>2, <1>5, <1>6, CutOut
<1>8. PartAt(WithDigit(d), 0, d, 6) /\ d \in [1..6 -> 0..9]
  BY DatesAreTexts, TextsWithDigits
<1>a. cut = SubSeq(line, from, from + 5)
  <2>1. from + 5 = p + 6
    BY <1>2, <1>4
  <2> QED
    BY <1>4, <2>1
<1>b. cut \in Seq(Cells)
  <2>1. p + 1 \in 1..n /\ p + 6 \in 1..n
    BY <1>2, <1>5
  <2> QED
    BY <1>5, <1>6, <2>1, CharacterSequences
<1> HIDE DEF cut
<1>9. \A k \in 1..6 : cut[k] = d[k]
  <2> TAKE k \in 1..6
  <2>1. k \in 1..7 /\ 0 + k = k
    OBVIOUS
  <2>2. line[p + k] = WithDigit(d)[k] /\ WithDigit(d)[0 + k] = d[k]
    BY <1>6, <1>8, <2>1, AtCell
  <2> QED
    BY <1>7, <2>1, <2>2
<1>10. cut = d
  BY <1>7, <1>8, <1>9, <1>b
<1> QED
  BY <1>1, <1>10, <1>a

\* Misreading one more character.
LEMMA OneMoreMistake ==
  ASSUME NEW offset \in {0, 1}, NEW text, NEW lines, NEW wrong, ReadAs(offset, text, lines, wrong),
         NEW n \in Nat, DOMAIN lines = 1..n, Len(lines) = n, \A k \in 1..n : lines[k] \in Seq(Cells),
         NEW l \in DOMAIN lines, NEW p \in DOMAIN lines[l], NEW c \in LookAlikes(lines[l][p])
  PROVE  ReadAs(offset, [text EXCEPT ![l + offset][p] = c], lines, wrong \cup {<<l, p>>})
<1> DEFINE new == [text EXCEPT ![l + offset][p] = c]
           more == wrong \cup {<<l, p>>}
           line == [text[l + offset] EXCEPT ![p] = c]
<1>0. (offset = 1 => IsText(text[1], 24)) /\ offset \in Nat /\ l \in 1..n
  BY DEF ReadAs
<1>b. text \in Seq(Seq(Cells))
  BY DEF ReadAs
<1>1. /\ DOMAIN text = 1..(offset + n)
      /\ \A k \in 1..n : LineAsRead(text[k + offset], lines[k], k, wrong)
  BY DEF ReadAs
<1>2. l + offset \in DOMAIN text /\ l \in 1..n /\ (offset = 1 => l + offset # 1)
  <2>1. l + offset \in 1..(offset + n) /\ (offset = 1 => l + offset # 1)
    BY <1>0
  <2> QED
    BY <1>0, <1>1, <2>1, Zenon
<1>3. DOMAIN new = DOMAIN text /\ new[l + offset] = line /\ \A k \in DOMAIN text : k # l + offset => new[k] = text[k]
  BY <1>2
<1>4. IsText(text[l + offset], Len(lines[l])) /\ Len(lines[l]) \in Nat /\ DOMAIN lines[l] = 1..Len(lines[l])
  BY <1>1, <1>2 DEF LineAsRead
<1>5. c \in Cells
  BY <1>2, OnlyDigitsAreMistaken
<1>6. /\ IsText(line, Len(lines[l])) /\ line[p] = c
      /\ \A q \in DOMAIN lines[l] : q # p => line[q] = text[l + offset][q]
  <2> DEFINE old == text[l + offset]
             size == Len(lines[l])
  <2>1. old \in Seq(Cells) /\ Len(old) = size /\ size \in Nat /\ p \in 1..size /\ DOMAIN lines[l] = 1..size
    BY <1>4 DEF IsText
  <2> HIDE DEF old, size
  <2>2. [old EXCEPT ![p] = c] \in [1..size -> Cells]
    BY <1>5, <2>1
  <2>3. IsText([old EXCEPT ![p] = c], size)
    BY <2>1, <2>2, TextCells
  <2>4. [old EXCEPT ![p] = c][p] = c /\ \A q \in 1..size : q # p => [old EXCEPT ![p] = c][q] = old[q]
    BY <2>1
  <2> QED
    BY <2>1, <2>3, <2>4 DEF old, size
<1> HIDE DEF new, line
<1>7. new \in Seq(Seq(Cells))
  <2>1. line \in Seq(Cells)
    BY <1>6 DEF IsText
  <2>2. \A k \in DOMAIN text : new[k] \in Seq(Cells)
    <3>1. \A k \in DOMAIN text : text[k] \in Seq(Cells)
      BY <1>b
    <3> QED
      BY <1>3, <2>1, <3>1, Zenon
  <2>3. new = [k \in DOMAIN text |-> new[k]]
    BY DEF new
  <2>4. PICK m \in Nat : m = offset + n
    OBVIOUS
  <2>5. new \in [1..m -> Seq(Cells)]
    BY <1>1, <2>2, <2>3, <2>4, Zenon
  <2> QED
    BY <2>4, <2>5
<1>8. ASSUME NEW k \in 1..n PROVE LineAsRead(new[k + offset], lines[k], k, more)
  <2>1. CASE k = l
    <3>1. \A q \in DOMAIN lines[l] :
             \/ line[q] = lines[l][q]
             \/ <<l, q>> \in more /\ line[q] \in LookAlikes(lines[l][q])
      <4> TAKE q \in DOMAIN lines[l]
      <4>1. CASE q = p
        BY <1>6, <4>1
      <4>2. CASE q # p
        BY <1>1, <1>2, <1>6, <4>2 DEF LineAsRead
      <4> QED
        BY <4>1, <4>2
    <3> HIDE DEF more
    <3> QED
      BY <1>3, <1>6, <2>1, <3>1 DEF LineAsRead
  <2>2. CASE k # l
    <3>1. new[k + offset] = text[k + offset]
      <4>1. k + offset \in DOMAIN text /\ k + offset # l + offset
        BY <1>0, <1>1, <1>2, <2>2
      <4> QED
        BY <1>3, <4>1
    <3> QED
      BY <1>1, <3>1 DEF LineAsRead
  <2> QED
    BY <2>1, <2>2
<1>9. offset = 1 => new[1] = text[1]
  <2>1. 1 \in 1..(offset + n)
    BY <1>0
  <2> QED
    BY <1>1, <1>2, <1>3, <2>1, Zenon
<1> HIDE DEF more
<1>10. ReadAs(offset, new, lines, more)
  BY <1>0, <1>1, <1>3, <1>7, <1>8, <1>9 DEF ReadAs
<1> QED
  BY <1>10 DEF new, more

\* All that is read are lines of a zone to the parser; how many there are decides on the type.
LEMMA AllLinesMatch ==
  ASSUME NEW n \in Nat, n >= 2, NEW text \in Seq(Seq(Cells)), DOMAIN text = 1..n,
         \A k \in 1..n : Len(text[k]) \in 15..44
  PROVE  /\ MrzLines(text) = text
         /\ DetectedType(text) \in {"TD1", "TD2", "TD3", "UNKNOWN"}
         /\ DetectedType(text) = "TD1" => n = 3
         /\ DetectedType(text) \in {"TD2", "TD3"} => n = 2
<1>1. Len(text) = n /\ text # <<>>
  OBVIOUS
<1>2. {k \in DOMAIN text : Len(text[k]) \in 15..44} = DOMAIN text
  BY Zenon
<1>3. AtPlaces(text, DOMAIN text) = text
  BY AllPlacesAreAll
<1>4. MrzLines(text) = text
  BY <1>1, <1>2, <1>3, Zenon DEF MrzLines
<1>5. /\ DetectedType(text) \in {"TD1", "TD2", "TD3", "UNKNOWN"}
      /\ DetectedType(text) = "TD1" => n = 3
      /\ DetectedType(text) \in {"TD2", "TD3"} => n = 2
  <2>1. Len(text) = 3 <=> n = 3
    BY <1>1
  <2>2. Len(text) = 2 <=> n = 2
    BY <1>1
  <2> QED
    BY <2>1, <2>2, Zenon DEF DetectedType
<1> QED
  BY <1>4, <1>5, Zenon

\* Padding or cutting a line changes none of its characters.
LEMMA NormalisedLines ==
  ASSUME NEW text, NEW type, NEW k \in DOMAIN text, NEW n \in Nat, IsText(text[k], n)
  PROVE  LET size == IF type = "TD1" THEN 30 ELSE IF type = "TD2" THEN 36 ELSE 44
         IN  /\ IsText(Normalised(text, type)[k], size)
             /\ \A q \in 1..size : q <= n => Normalised(text, type)[k][q] = text[k][q]
<1> DEFINE size == IF type = "TD1" THEN 30 ELSE IF type = "TD2" THEN 36 ELSE 44
           line == [q \in 1..size |-> IF q <= Len(text[k]) THEN text[k][q] ELSE Filler]
<1>0. size \in Nat
  OBVIOUS
<1>1. Normalised(text, type)[k] = line
  BY DEF Normalised
<1> HIDE DEF size
<1>2. Len(text[k]) = n /\ \A q \in 1..n : text[k][q] \in Cells
  BY DEF IsText
<1>a. Filler \in Cells
  BY DEF Cells, Filler
<1> DEFINE read == text[k]
<1> HIDE DEF read
<1>b. line = [q \in 1..size |-> IF q <= n THEN read[q] ELSE Filler] /\ \A q \in 1..n : read[q] \in Cells
  BY <1>2 DEF read
<1>3. \A q \in 1..size : line[q] \in Cells /\ (q <= n => line[q] = text[k][q])
  <2>1. \A q \in 1..size : q <= n => q \in 1..n
    BY <1>0
  <2>2. \A q \in 1..size : line[q] = IF q <= n THEN read[q] ELSE Filler
    BY <1>b, Zenon
  <2> HIDE DEF line
  <2> QED
    BY <1>a, <1>b, <2>1, <2>2, Zenon DEF read
<1>4. line \in [1..size -> Cells]
  BY <1>3
<1> HIDE DEF line
<1>5. IsText(line, size)
  BY <1>0, <1>4, TextCells
<1> QED
  BY <1>1, <1>3, <1>5, Zenon DEF size

\* A type whose dates are checked: where its checks look, and where its dates are taken from.
LEMMA ChecksLook ==
  ASSUME NEW norm, NEW type \in MrzKind, NEW f \in {"birth", "expiry"}
  PROVE  LET checks == CASE type = "TD1" -> Td1Checks(norm) [] type = "TD2" -> Td2Checks(norm) [] OTHER -> Td3Checks(norm)
             p == CellsBefore(type, f)
         IN  /\ checks[f] = (norm[2][p + 7] = CheckDigitOf(SubSeq(norm[2], p + 1, p + 6)))
             /\ DOMAIN DatesOf(norm, type) = {"birth", "expiry"}
             /\ DatesOf(norm, type)[f] = RepairNumeric(SubSeq(norm[2], p + 1, p + 6))
<1> DEFINE checks == CASE type = "TD1" -> Td1Checks(norm) [] type = "TD2" -> Td2Checks(norm) [] OTHER -> Td3Checks(norm)
<1>1. CASE type = "TD1"
  <2>1. /\ checks["birth"] = DigitMatches(norm[2], 1, 6) /\ checks["expiry"] = DigitMatches(norm[2], 9, 14)
    BY <1>1 DEF Td1Checks
  <2>2. /\ CellsBefore(type, "birth") = 0 /\ CellsBefore(type, "expiry") = 8
        /\ 0 + 7 = 6 + 1 /\ 0 + 1 = 1 /\ 0 + 6 = 6 /\ 8 + 7 = 14 + 1 /\ 8 + 1 = 9 /\ 8 + 6 = 14
    BY <1>1 DEF CellsBefore
  <2>3. /\ DatesOf(norm, type)["birth"] = RepairNumeric(SubSeq(norm[2], 1, 6))
        /\ DatesOf(norm, type)["expiry"] = RepairNumeric(SubSeq(norm[2], 9, 14))
        /\ DOMAIN DatesOf(norm, type) = {"birth", "expiry"}
    BY <1>1 DEF DatesOf
  <2>4. CASE f = "birth"
    BY <2>1, <2>2, <2>3, <2>4, Zenon DEF DigitMatches
  <2>5. CASE f = "expiry"
    BY <2>1, <2>2, <2>3, <2>5, Zenon DEF DigitMatches
  <2> QED
    BY <2>4, <2>5
<1>2. CASE type # "TD1"
  <2>1. /\ checks["birth"] = DigitMatches(norm[2], 14, 19) /\ checks["expiry"] = DigitMatches(norm[2], 22, 27)
    <3>1. CASE type = "TD2"
      BY <3>1 DEF Td2Checks
    <3>2. CASE type = "TD3"
      BY <3>2 DEF Td3Checks
    <3> QED
      BY <1>2, <3>1, <3>2 DEF MrzKind
  <2>2. /\ CellsBefore(type, "birth") = 13 /\ CellsBefore(type, "expiry") = 21
        /\ 13 + 7 = 19 + 1 /\ 13 + 1 = 14 /\ 13 + 6 = 19 /\ 21 + 7 = 27 + 1 /\ 21 + 1 = 22 /\ 21 + 6 = 27
    BY <1>2 DEF CellsBefore
  <2>3. /\ DatesOf(norm, type)["birth"] = RepairNumeric(SubSeq(norm[2], 14, 19))
        /\ DatesOf(norm, type)["expiry"] = RepairNumeric(SubSeq(norm[2], 22, 27))
        /\ DOMAIN DatesOf(norm, type) = {"birth", "expiry"}
    BY <1>2 DEF DatesOf
  <2>4. CASE f = "birth"
    BY <2>1, <2>2, <2>3, <2>4, Zenon DEF DigitMatches
  <2>5. CASE f = "expiry"
    BY <2>1, <2>2, <2>3, <2>5, Zenon DEF DigitMatches
  <2> QED
    BY <2>4, <2>5
<1> QED
  BY <1>1, <1>2

\* a date is misread at one place at most; a type has as many lines as are read
FewMistakes(wrong, kind, f) == Cardinality(wrong \cap Place(kind, f)) <= 1
TypeFits(type, kind, offset) == offset + LinesIn(kind) = IF type = "TD1" THEN 3 ELSE 2

\* The parser gets a checked date right, or none of it when it took the lines for another type.
LEMMA ParsedDatesAreRight ==
  ASSUME NEW kind \in MrzKind, NEW lines, NEW birth \in PrintedDates, NEW expiry \in PrintedDates,
         IsZone(kind, lines, birth, expiry), NEW wrong, IsFiniteSet(wrong),
         NEW offset \in {0, 1}, NEW text, ReadAs(offset, text, lines, wrong),
         NEW type \in MrzKind, TypeFits(type, kind, offset),
         NEW f \in {"birth", "expiry"},
         FewMistakes(wrong, kind, f),
         NEW p, p = CellsBefore(type, f), NEW line, line = Normalised(text, type)[2],
         DigitFits(line, p),
         NEW d, d = IF f = "birth" THEN birth ELSE expiry
  PROVE  RepairsTo(line, p, d)
<1>0. PICK n \in Nat : n = WidthOf(kind) /\ n >= 30
  BY DEF WidthOf
<1>1. DOMAIN lines = 1..LinesIn(kind) /\ LinesIn(kind) \in {2, 3} /\ Len(lines) = LinesIn(kind)
  BY DEF IsZone, LinesIn
<1>2. /\ DOMAIN text = 1..(offset + LinesIn(kind))
      /\ \A l \in 1..LinesIn(kind) : LineAsRead(text[l + offset], lines[l], l, wrong)
  BY <1>1 DEF ReadAs
<1>3. \A l \in 1..LinesIn(kind) : IsText(lines[l], n) /\ Len(lines[l]) = n
  BY <1>0 DEF IsZone, IsText
<1>4. \A l \in 1..LinesIn(kind) : IsText(text[l + offset], n)
  BY <1>2, <1>3 DEF LineAsRead
<1>5. 2 \in DOMAIN text /\ 1 \in 1..LinesIn(kind) /\ 2 \in 1..LinesIn(kind) /\ 1 + 1 = 2 /\ 2 + 0 = 2
  <2>1. 2 \in 1..(offset + LinesIn(kind))
    BY <1>1
  <2> QED
    BY <1>1, <1>2, <2>1
<1>6. IsText(text[2], n)
  <2>1. CASE offset = 0
    <3>1. IsText(text[2 + 0], n)
      BY <1>4, <1>5, <2>1, Zenon
    <3> QED
      BY <1>5, <3>1
  <2>2. CASE offset = 1
    <3>1. IsText(text[1 + 1], n)
      BY <1>4, <1>5, <2>2, Zenon
    <3> QED
      BY <1>5, <3>1
  <2> QED
    BY <2>1, <2>2
<1>7. PICK size \in Nat : /\ size = IF type = "TD1" THEN 30 ELSE IF type = "TD2" THEN 36 ELSE 44
                          /\ size >= 30
  OBVIOUS
<1>8. IsText(line, size) /\ \A q \in 1..size : q <= n => line[q] = text[2][q]
  BY <1>5, <1>6, <1>7, NormalisedLines
<1>9. p \in Nat /\ p + 7 <= 30
  BY DatePlaces
<1>10. line[p + 7] = CheckDigitOf(SubSeq(line, p + 1, p + 6))
  BY DEF DigitFits
<1>11. \A k \in 1..7 : line[p + k] = text[2][p + k]
  BY <1>0, <1>7, <1>8, <1>9
<1>12. CASE offset = 0
  <2>1. (type = "TD1") <=> (kind = "TD1")
    BY <1>1, <1>12 DEF LinesIn, TypeFits
  <2>2. p = CellsBefore(kind, f)
    BY <2>1 DEF CellsBefore
  <2>3. PartAt(lines[2], p, WithDigit(d), 7)
    <3>1. Dated(lines[2], WidthOf(kind), CellsBefore(kind, "birth"), CellsBefore(kind, "expiry"), birth, expiry)
      BY DEF IsZone
    <3>2. CASE f = "birth"
      BY <2>2, <3>1, <3>2 DEF Dated
    <3>3. CASE f = "expiry"
      BY <2>2, <3>1, <3>3 DEF Dated
    <3> QED
      BY <3>2, <3>3
  <2>4. LineAsRead(text[2], lines[2], 2, wrong)
    <3>1. LineAsRead(text[2 + 0], lines[2], 2, wrong)
      BY <1>2, <1>5, <1>12, Zenon
    <3> QED
      BY <1>5, <3>1
  <2>5. OneWrong(wrong, p) /\ SameDate(line, text[2], p)
    BY <1>11, <2>2, DatePlaces DEF FewMistakes, OneWrong, SameDate
  <2>6. d \in PrintedDates
    OBVIOUS
  <2>7. IsText(lines[2], n) /\ p + 7 <= n /\ p + 7 <= size
    BY <1>0, <1>3, <1>5, <1>7, <1>9
  <2> QED
    BY <1>0, <1>7, <1>8, <1>9, <2>3, <2>4, <2>5, <2>6, <2>7, MatchingDates
<1>13. CASE offset = 1
  <2>1. type = "TD1" /\ kind # "TD1"
    BY <1>1, <1>13 DEF LinesIn, TypeFits
  <2>2. p + 7 = 7 \/ p + 7 = 15
    BY <2>1 DEF CellsBefore
  <2>3. lines[1][p + 7] = Filler
    BY <2>1, <2>2 DEF IsZone
  <2>4. text[2][p + 7] = Filler
    <3>1. LineAsRead(text[1 + 1], lines[1], 1, wrong)
      BY <1>2, <1>5, <1>13, Zenon
    <3>2. p + 7 \in DOMAIN lines[1]
      <4>1. IsText(lines[1], n)
        BY <1>3, <1>5
      <4>2. DOMAIN lines[1] = 1..n
        BY <1>0, <4>1, TextCells
      <4> QED
        BY <1>0, <1>9, <4>2
    <3>3. text[1 + 1][p + 7] = Filler
      <4>1. Filler \in Cells
        BY DEF Filler, Cells
      <4>2. \A c : c \notin LookAlikes(Filler)
        BY <4>1, OnlyDigitsAreMistaken
      <4> QED
        BY <2>3, <3>1, <3>2, <4>2 DEF LineAsRead
    <3> QED
      BY <1>5, <3>3
  <2>5. line[p + 7] = Filler
    <3>1. 7 \in 1..7
      OBVIOUS
    <3> QED
      BY <1>11, <2>4, <3>1
  <2>6. CheckDigitOf(SubSeq(line, p + 1, p + 6)) \in 0..9
    <3> DEFINE cut == SubSeq(line, p + 1, p + 6)
    <3>1. Len(cut) = 6 /\ \A k \in 1..6 : cut[k] \in Cells
      BY <1>7, <1>8, <1>9, CutOut
    <3> HIDE DEF cut
    <3>2. Len(cut) \in Nat /\ \A k \in 1..Len(cut) : cut[k] \in Cells
      BY <3>1
    <3>3. CheckDigitOf(cut) \in 0..9
      BY <3>2, CheckDigitsAreDigits
    <3> QED
      BY <3>3 DEF cut
  <2> QED
    BY <1>10, <2>5, <2>6 DEF Filler
<1> QED
  BY <1>12, <1>13

\* Nothing is printed at first.
LEMMA MrzBegins == MrzInit => MrzInv
<1> SUFFICES ASSUME MrzInit PROVE MrzInv
  OBVIOUS
<1>1. zone.kind = "none" /\ zone.lines = <<>> /\ reading = <<>> /\ misread = {} /\ parsed = Unparsed
  BY DEF MrzInit
<1>2. IsFiniteSet(misread)
  BY <1>1, FS_EmptySet
<1>3. DOMAIN parsed.date = {}
  BY <1>1 DEF Unparsed
<1> QED
  BY <1>1, <1>2, <1>3 DEF MrzInv, CheckedDatesAreThePrintedOnes

\* Nothing was parsed, so no date is claimed.
LEMMA UnparsedClaimsNothing == parsed = Unparsed => CheckedDatesAreThePrintedOnes
BY DEF Unparsed, CheckedDatesAreThePrintedOnes

\* A photograph of a document.
LEMMA PhotographKeeps ==
  ASSUME MrzInv, NEW kind \in MrzKind, NEW birth \in PrintedDates, NEW expiry \in PrintedDates,
         NEW heading \in {<<>>, <<Words>>}, Photograph(kind, birth, expiry, heading)
  PROVE  MrzInv'
<1> DEFINE lines == PrintedLines(kind, birth, expiry)
<1>1. /\ zone.kind = "none" /\ zone'.kind = kind /\ zone'.lines = lines /\ reading' = heading \o lines
      /\ misread' = misread /\ parsed' = parsed
  BY DEF Photograph
<1>2. misread = {} /\ parsed = Unparsed /\ IsFiniteSet(misread)
  BY <1>1 DEF MrzInv, MrzKind
<1>3. IsZone(kind, lines, birth, expiry)
  BY PrintedZones
<1> HIDE DEF lines
<1>4. PICK offset \in {0, 1} : ReadAs(offset, heading \o lines, lines, {})
  BY <1>3, PhotographReads
<1>5. DOMAIN parsed'.date = {}
  BY <1>1, <1>2 DEF Unparsed
<1>6. CheckedDatesAreThePrintedOnes'
  BY <1>5 DEF CheckedDatesAreThePrintedOnes
<1> QED
  BY <1>1, <1>2, <1>3, <1>4, <1>6 DEF MrzInv

\* A character is misread.
LEMMA MisreadKeeps ==
  ASSUME MrzInv, NEW l \in DOMAIN zone.lines, NEW p \in DOMAIN zone.lines[l],
         NEW c \in LookAlikes(zone.lines[l][p]), Misread(l, p, c)
  PROVE  MrzInv'
<1>0. zone.kind \in MrzKind
  <2>1. zone.lines # <<>>
    OBVIOUS
  <2> QED
    BY <2>1 DEF MrzInv
<1>1. PICK birth \in PrintedDates, expiry \in PrintedDates, offset \in {0, 1} :
         /\ IsZone(zone.kind, zone.lines, birth, expiry)
         /\ ReadAs(offset, reading, zone.lines, misread)
  BY <1>0 DEF MrzInv, MrzKind
<1>2. PICK n \in Nat : /\ DOMAIN zone.lines = 1..n /\ Len(zone.lines) = n
                       /\ \A k \in 1..n : zone.lines[k] \in Seq(Cells)
  BY <1>1 DEF IsZone, IsText, LinesIn
<1>3. Len(reading) = offset + n
  <2>1. DOMAIN reading = 1..(offset + n) /\ reading \in Seq(Seq(Cells)) /\ offset \in Nat
    BY <1>1, <1>2 DEF ReadAs
  <2> QED
    BY <2>1
<1>4. Len(reading) - Len(zone.lines) = offset
  BY <1>2, <1>3
<1>5. /\ parsed = Unparsed /\ parsed' = parsed /\ zone' = zone
      /\ reading' = [reading EXCEPT ![l + offset][p] = c]
      /\ misread' = misread \cup {<<l, p>>}
  BY <1>4 DEF Misread
<1>6. ReadAs(offset, reading', zone.lines, misread')
  BY <1>1, <1>2, <1>5, OneMoreMistake
<1>7. IsFiniteSet(misread')
  BY <1>5, FS_AddElement DEF MrzInv
<1>8. DOMAIN parsed'.date = {}
  BY <1>5 DEF Unparsed
<1>9. CheckedDatesAreThePrintedOnes'
  BY <1>8 DEF CheckedDatesAreThePrintedOnes
<1> QED
  BY <1>0, <1>1, <1>5, <1>6, <1>7, <1>9 DEF MrzInv

\* The parser runs.
LEMMA ParseKeeps == ASSUME MrzInv, ParseZone PROVE MrzInv'
<1> DEFINE lines == MrzLines(reading)
           type == DetectedType(lines)
           norm == Normalised(lines, type)
           checks == CASE type = "TD1" -> Td1Checks(norm) [] type = "TD2" -> Td2Checks(norm) [] OTHER -> Td3Checks(norm)
           date == DatesOf(norm, type)
           errors == \/ \E c \in DOMAIN checks : ~checks[c]
                     \/ \E f \in DOMAIN date : ~IsMrzDate(date[f])
<1>1. /\ zone.kind # "none" /\ UNCHANGED <<zone, reading, misread>>
      /\ parsed' = IF type = "UNKNOWN" THEN [Unparsed EXCEPT !.type = type, !.status = "INVALID"]
                   ELSE [type |-> type, status |-> StatusOf(errors, checks), checks |-> checks, date |-> date]
  BY DEF ParseZone
<1>2. PICK birth \in PrintedDates, expiry \in PrintedDates, offset \in {0, 1} :
         /\ IsZone(zone.kind, zone.lines, birth, expiry)
         /\ ReadAs(offset, reading, zone.lines, misread)
  BY <1>1 DEF MrzInv
<1>3. zone.kind \in MrzKind /\ IsFiniteSet(misread)
  BY <1>1 DEF MrzInv
<1> HIDE DEF errors
<1>4. StatusOf(errors, checks) \in MrzStatus
  <2> HIDE DEF checks
  <2> QED
    BY Zenon DEF StatusOf, MrzStatus
<1>5. parsed'.status \in MrzStatus
  <2>1. CASE type = "UNKNOWN"
    BY <1>1, <2>1 DEF Unparsed, MrzStatus
  <2>2. CASE type # "UNKNOWN"
    <3> HIDE DEF type, checks, date
    <3> QED
      BY <1>1, <1>4, <2>2
  <2> QED
    BY <2>1, <2>2
<1>6. PICK n \in Nat : n = offset + LinesIn(zone.kind) /\ n >= 2
  BY DEF LinesIn
<1>7. DOMAIN reading = 1..n /\ reading \in Seq(Seq(Cells))
  BY <1>2, <1>6 DEF ReadAs, IsZone
<1>8. \A k \in 1..n : Len(reading[k]) \in 15..44
  <2> TAKE k \in 1..n
  <2>1. CASE k - offset \in 1..LinesIn(zone.kind)
    <3>1. LineAsRead(reading[(k - offset) + offset], zone.lines[k - offset], k - offset, misread)
      BY <1>2, <2>1 DEF ReadAs, IsZone
    <3>2. (k - offset) + offset = k
      OBVIOUS
    <3>3. IsText(zone.lines[k - offset], WidthOf(zone.kind))
      BY <1>2, <2>1 DEF IsZone
    <3>4. WidthOf(zone.kind) \in 15..44
      BY DEF WidthOf
    <3> QED
      BY <3>1, <3>2, <3>3, <3>4 DEF LineAsRead, IsText
  <2>2. CASE k - offset \notin 1..LinesIn(zone.kind)
    <3>1. k = 1 /\ offset = 1
      BY <1>6, <2>2 DEF LinesIn
    <3>2. IsText(reading[1], 24)
      BY <1>2, <3>1 DEF ReadAs
    <3>3. 24 \in 15..44
      OBVIOUS
    <3> QED
      BY <3>1, <3>2, <3>3 DEF IsText
  <2> QED
    BY <2>1, <2>2
<1>9. /\ lines = reading /\ DetectedType(reading) \in {"TD1", "TD2", "TD3", "UNKNOWN"}
      /\ DetectedType(reading) = "TD1" => n = 3
      /\ DetectedType(reading) \in {"TD2", "TD3"} => n = 2
  BY <1>6, <1>7, <1>8, AllLinesMatch
<1>10. CheckedDatesAreThePrintedOnes'
  <2> SUFFICES ASSUME NEW f \in DOMAIN parsed'.date, parsed'.checks[f],
                      Cardinality(misread \cap Place(zone.kind, f)) <= 1
               PROVE  parsed'.date[f] = PrintedDate(f)
    <3>1. zone' = zone /\ misread' = misread
      BY <1>1
    <3>2. \A f : PrintedDate(f)' = PrintedDate(f)
      BY <3>1 DEF PrintedDate
    <3> QED
      BY <3>1, <3>2 DEF CheckedDatesAreThePrintedOnes
  <2>1. type # "UNKNOWN"
    <3> SUFFICES ASSUME type = "UNKNOWN" PROVE DOMAIN parsed'.date = {}
      OBVIOUS
    <3> QED
      BY <1>1 DEF Unparsed
  <2>2. type \in MrzKind
    BY <1>9, <2>1 DEF MrzKind
  <2>3. parsed'.date = date /\ parsed'.checks = checks
    <3> HIDE DEF type, checks, date
    <3> QED
      BY <1>1, <2>1
  <2>4. f \in {"birth", "expiry"}
    <3>1. DOMAIN date = {"birth", "expiry"}
      BY <2>2, ChecksLook
    <3> QED
      BY <2>3, <3>1
  <2> DEFINE p == CellsBefore(type, f)
  <2>5. /\ checks[f] = (norm[2][p + 7] = CheckDigitOf(SubSeq(norm[2], p + 1, p + 6)))
        /\ date[f] = RepairNumeric(SubSeq(norm[2], p + 1, p + 6))
    BY <2>2, <2>4, ChecksLook
  <2>6. norm = Normalised(reading, type)
    BY <1>9
  <2>7. TypeFits(type, zone.kind, offset)
    BY <1>6, <1>9, <2>2 DEF MrzKind, TypeFits
  <2> DEFINE d == IF f = "birth" THEN birth ELSE expiry
  <2> DEFINE second == Normalised(reading, type)[2]
  <2>8. DigitFits(second, p) /\ date[f] = RepairNumeric(SubSeq(second, p + 1, p + 6))
    <3>1. norm[2] = second
      BY <2>6
    <3> HIDE DEF checks, norm, p, second, date
    <3> QED
      BY <2>3, <2>5, <3>1 DEF DigitFits
  <2>a. FewMistakes(misread, zone.kind, f)
    BY DEF FewMistakes
  <2>b. p = CellsBefore(type, f) /\ second = Normalised(reading, type)[2]
    OBVIOUS
  <2> HIDE DEF type, checks, date, norm, p, second
  <2>9. RepairNumeric(SubSeq(second, p + 1, p + 6)) = IF f = "birth" THEN birth ELSE expiry
    <3>0. d = IF f = "birth" THEN birth ELSE expiry
      OBVIOUS
    <3> HIDE DEF d
    <3>1. RepairsTo(second, p, d)
      BY <1>2, <1>3, <2>2, <2>4, <2>7, <2>8, <2>a, <2>b, <3>0, ParsedDatesAreRight
    <3> QED
      BY <3>0, <3>1 DEF RepairsTo
  <2>10. PrintedDate(f) = IF f = "birth" THEN birth ELSE expiry
    <3>1. Dated(zone.lines[2], WidthOf(zone.kind), CellsBefore(zone.kind, "birth"),
                CellsBefore(zone.kind, "expiry"), birth, expiry)
      BY <1>2 DEF IsZone
    <3>2. CASE f = "birth"
      BY <1>3, <3>1, <3>2, PrintedDateIsPrinted DEF Dated
    <3>3. CASE f = "expiry"
      BY <1>3, <3>1, <3>3, PrintedDateIsPrinted DEF Dated
    <3> QED
      BY <2>4, <3>2, <3>3
  <2> QED
    BY <2>3, <2>8, <2>9, <2>10
<1> HIDE DEF lines, type, norm, checks, date
<1>11. \E b, e \in PrintedDates, o \in {0, 1} : /\ IsZone(zone'.kind, zone'.lines, b, e)
                                                /\ ReadAs(o, reading', zone'.lines, misread')
  BY <1>1, <1>2
<1> QED
  BY <1>1, <1>3, <1>5, <1>10, <1>11 DEF MrzInv

\* Every step keeps the invariant.
LEMMA MrzPreserved == MrzInv /\ [MrzNext]_mrzVars => MrzInv'
<1> SUFFICES ASSUME MrzInv, [MrzNext]_mrzVars PROVE MrzInv'
  OBVIOUS
<1>1. CASE \E kind \in MrzKind, birth, expiry \in PrintedDates, heading \in {<<>>, <<Words>>} :
              Photograph(kind, birth, expiry, heading)
  BY <1>1, PhotographKeeps
<1>2. CASE \E line \in DOMAIN zone.lines : \E position \in DOMAIN zone.lines[line] :
              \E c \in LookAlikes(zone.lines[line][position]) : Misread(line, position, c)
  BY <1>2, MisreadKeeps
<1>3. CASE ParseZone
  BY <1>3, ParseKeeps
<1>4. CASE UNCHANGED mrzVars
  <2>1. zone' = zone /\ reading' = reading /\ misread' = misread /\ parsed' = parsed
    BY <1>4 DEF mrzVars
  <2>2. \A f : PrintedDate(f)' = PrintedDate(f)
    BY <2>1 DEF PrintedDate
  <2>3. CheckedDatesAreThePrintedOnes'
    BY <2>1, <2>2 DEF MrzInv, CheckedDatesAreThePrintedOnes
  <2> QED
    BY <2>1, <2>3 DEF MrzInv
<1> QED
  BY <1>1, <1>2, <1>3, <1>4, Zenon DEF MrzNext

\* Whatever dates are printed and however many characters are misread: a date whose check digit
\* matched, with at most one confusion in it and in its digit, is the date on the document.
THEOREM CheckedDatesArePrinted == MrzSpec => []CheckedDatesAreThePrintedOnes
<1>1. MrzInv => CheckedDatesAreThePrintedOnes
  BY DEF MrzInv
<1> QED
  BY <1>1, MrzBegins, MrzPreserved, PTL DEF MrzSpec

-----------------------------------------------------------------------------
(* How often a sequence holds one of some values *)

HowMany(s, S) == Cardinality({k \in DOMAIN s : s[k] \in S})

\* A sequence has places from one up to its length, and its hits are a number.
LEMMA PlacesOfSequence ==
  ASSUME NEW T, NEW s \in Seq(T), NEW S
  PROVE  /\ Len(s) \in Nat /\ DOMAIN s = 1..Len(s) /\ IsFiniteSet(DOMAIN s) /\ Cardinality(DOMAIN s) = Len(s)
         /\ IsFiniteSet({k \in DOMAIN s : s[k] \in S}) /\ HowMany(s, S) \in Nat
<1>1. PICK size \in Nat : size = Len(s) /\ DOMAIN s = 1..size
  OBVIOUS
<1>2. IsFiniteSet(1..size) /\ Cardinality(1..size) = size
  <2>1. size \in Int /\ 1 \in Int
    OBVIOUS
  <2>2. Cardinality(1..size) = IF 1 > size THEN 0 ELSE size - 1 + 1
    BY <2>1, FS_Interval
  <2> QED
    BY <2>1, <2>2, FS_Interval
<1> DEFINE A == {k \in DOMAIN s : s[k] \in S}
<1>3. A \in SUBSET (1..size)
  BY <1>1
<1>4. HowMany(s, S) = Cardinality(A)
  BY DEF HowMany
<1> HIDE DEF A
<1>5. IsFiniteSet(A) /\ Cardinality(A) \in Nat
  BY <1>2, <1>3, FS_Subset, FS_CardinalityType
<1> QED
  BY <1>1, <1>2, <1>4, <1>5 DEF A

\* How many there are is counted place by place.
LEMMA CountedByPlace ==
  ASSUME NEW T, NEW s \in Seq(T), NEW S, NEW n \in 1..Len(s)
  PROVE  Cardinality({k \in 1..n : s[k] \in S})
           = Cardinality({k \in 1..(n - 1) : s[k] \in S}) + (IF s[n] \in S THEN 1 ELSE 0)
<1> DEFINE A == {k \in 1..n : s[k] \in S}
           B == {k \in 1..(n - 1) : s[k] \in S}
<1>1. n \in Nat /\ n \notin B /\ B \in SUBSET (1..(n - 1))
  OBVIOUS
<1>2. A = IF s[n] \in S THEN B \cup {n} ELSE B
  OBVIOUS
<1>3. IsFiniteSet(1..(n - 1))
  <2>1. n - 1 \in Int /\ 1 \in Int
    BY <1>1
  <2> QED
    BY <2>1, FS_Interval
<1> HIDE DEF A, B
<1>4. IsFiniteSet(B) /\ Cardinality(B) \in Nat
  BY <1>1, <1>3, FS_Subset, FS_CardinalityType
<1>5. Cardinality(A) = Cardinality(B) + (IF s[n] \in S THEN 1 ELSE 0)
  <2>1. Cardinality(B \cup {n}) = Cardinality(B) + 1
    BY <1>1, <1>4, FS_AddElement
  <2> QED
    BY <1>2, <1>4, <2>1
<1> QED
  BY <1>5 DEF A, B

\* Two sequences one after the other hold what both hold.
LEMMA JoinedHits ==
  ASSUME NEW T, NEW a \in Seq(T), NEW b \in Seq(T), NEW S
  PROVE  a \o b \in Seq(T) /\ HowMany(a \o b, S) = HowMany(a, S) + HowMany(b, S)
<1>1. PICK m \in Nat : m = Len(a) /\ DOMAIN a = 1..m
  OBVIOUS
<1>2. PICK n \in Nat : n = Len(b) /\ DOMAIN b = 1..n
  OBVIOUS
<1> DEFINE c == a \o b
           A == {k \in 1..m : a[k] \in S}
           B == {k \in 1..n : b[k] \in S}
           C == {k \in 1..(m + n) : c[k] \in S}
           shifted == {m + k : k \in B}
<1>3. c \in Seq(T) /\ DOMAIN c = 1..(m + n) /\ \A k \in 1..(m + n) : c[k] = IF k <= m THEN a[k] ELSE b[k - m]
  BY <1>1, <1>2
<1> HIDE DEF c
<1>4. C = A \cup shifted
  <2>1. ASSUME NEW k \in C PROVE k \in A \cup shifted
    <3>1. CASE k <= m
      BY <1>3, <3>1
    <3>2. CASE ~(k <= m)
      <4>1. k - m \in 1..n /\ k = m + (k - m)
        BY <3>2
      <4>2. k - m \in B
        BY <1>3, <3>2, <4>1
      <4> QED
        BY <4>1, <4>2
    <3> QED
      BY <3>1, <3>2
  <2>2. ASSUME NEW k \in A PROVE k \in C
    BY <1>3
  <2>3. ASSUME NEW k \in B PROVE m + k \in C
    <3>1. m + k \in 1..(m + n) /\ ~(m + k <= m) /\ (m + k) - m = k
      OBVIOUS
    <3> QED
      BY <1>3, <3>1
  <2> QED
    BY <2>1, <2>2, <2>3
<1>5. A \cap shifted = {}
  OBVIOUS
<1>6. IsFiniteSet(A) /\ IsFiniteSet(B) /\ HowMany(a, S) = Cardinality(A) /\ HowMany(b, S) = Cardinality(B)
  <2>1. HowMany(a, S) = Cardinality(A) /\ HowMany(b, S) = Cardinality(B)
    BY <1>1, <1>2 DEF HowMany
  <2>2. IsFiniteSet({k \in DOMAIN a : a[k] \in S}) /\ IsFiniteSet({k \in DOMAIN b : b[k] \in S})
    BY PlacesOfSequence
  <2> QED
    BY <1>1, <1>2, <2>1, <2>2
<1>7. IsFiniteSet(shifted) /\ Cardinality(shifted) = Cardinality(B)
  <2> DEFINE f == [k \in B |-> m + k]
  <2>1. f \in [B -> shifted]
    OBVIOUS
  <2>2. \A i, j \in B : f[i] = f[j] => i = j
    OBVIOUS
  <2>3. \A x \in shifted : \E i \in B : f[i] = x
    OBVIOUS
  <2> HIDE DEF f, shifted, B
  <2>4. f \in Bijection(B, shifted)
    BY <2>1, <2>2, <2>3 DEF Bijection, Injection, Surjection, IsInjective
  <2> QED
    BY <1>6, <2>4, FS_Bijection DEF ExistsBijection
<1>8. HowMany(c, S) = Cardinality(C)
  BY <1>3 DEF HowMany
<1> HIDE DEF A, B, C, shifted
<1>9. Cardinality(A \cup shifted) = Cardinality(A) + Cardinality(shifted)
  <2>1. Cardinality(A) \in Nat /\ Cardinality(shifted) \in Nat
    BY <1>6, <1>7, FS_CardinalityType
  <2>2. Cardinality(A \cup shifted) = Cardinality(A) + Cardinality(shifted) - Cardinality(A \cap shifted)
    BY <1>6, <1>7, FS_Union
  <2>3. Cardinality(A \cap shifted) = 0
    BY <1>5, FS_EmptySet
  <2> QED
    BY <2>1, <2>2, <2>3
<1> QED
  BY <1>3, <1>4, <1>6, <1>7, <1>8, <1>9 DEF c

\* a sequence of sequences over T
Lists(parts, T) ==
    /\ Len(parts) \in Nat /\ DOMAIN parts = 1..Len(parts) /\ \A i \in 1..Len(parts) : parts[i] \in Seq(T)
    /\ parts = [i \in DOMAIN parts |-> parts[i]]

\* f joins the parts up to each place
Joins(f, parts, size) == f = [i \in 1..size |-> IF i = 1 THEN parts[i] ELSE f[i - 1] \o parts[i]]

\* Joined parts add each part to those before.
LEMMA JoinsUnfold ==
  ASSUME NEW size \in Nat, NEW parts, NEW f, Joins(f, parts, size)
  PROVE  \A n \in 1..size : f[n] = IF n = 1 THEN parts[n] ELSE f[n - 1] \o parts[n]
<1> DEFINE g == [n \in 1..size |-> IF n = 1 THEN parts[n] ELSE f[n - 1] \o parts[n]]
<1>1. f = g
  BY DEF Joins
<1>2. \A n \in 1..size : g[n] = IF n = 1 THEN parts[n] ELSE f[n - 1] \o parts[n]
  OBVIOUS
<1> HIDE DEF g
<1> QED
  BY <1>1, <1>2

\* The parts of a sequence of sequences can be joined one after the other.
LEMMA PartsCanBeJoined ==
  ASSUME NEW size \in Nat, NEW parts
  PROVE  \E f : Joins(f, parts, size)
<1> DEFINE done == {n \in Nat : \E f : Joins(f, parts, n)}
<1>1. 0 \in done
  <2> DEFINE f == [n \in 1..0 |-> 0]
  <2>1. f = [n \in 1..0 |-> IF n = 1 THEN parts[n] ELSE f[n - 1] \o parts[n]]
    OBVIOUS
  <2> HIDE DEF f
  <2> QED
    BY <2>1 DEF Joins
<1>2. ASSUME NEW n \in Nat, n \in done PROVE n + 1 \in done
  <2>1. PICK f : Joins(f, parts, n)
    BY <1>2
  <2> DEFINE last == IF n = 0 THEN parts[1] ELSE f[n] \o parts[n + 1]
             g == [k \in 1..(n + 1) |-> IF k = n + 1 THEN last ELSE f[k]]
  <2>2. \A k \in 1..n : f[k] = IF k = 1 THEN parts[k] ELSE f[k - 1] \o parts[k]
    BY <2>1, JoinsUnfold
  <2>3. \A k \in 1..n : g[k] = f[k]
    OBVIOUS
  <2>4. g[n + 1] = last
    OBVIOUS
  <2>5. DOMAIN g = 1..(n + 1) /\ g = [k \in 1..(n + 1) |-> g[k]]
    OBVIOUS
  <2> HIDE DEF g, done
  <2>6. \A k \in 1..(n + 1) : g[k] = IF k = 1 THEN parts[k] ELSE g[k - 1] \o parts[k]
    <3> SUFFICES ASSUME NEW k \in 1..(n + 1) PROVE g[k] = IF k = 1 THEN parts[k] ELSE g[k - 1] \o parts[k]
      OBVIOUS
    <3>1. CASE k = n + 1 /\ n = 0
      BY <2>4, <3>1
    <3>2. CASE k = n + 1 /\ n # 0
      <4>1. n \in 1..n /\ k # 1 /\ k - 1 = n
        BY <3>2
      <4>2. g[k] = f[n] \o parts[k] /\ g[k - 1] = f[n]
        BY <2>3, <2>4, <3>2, <4>1
      <4> QED
        BY <4>1, <4>2
    <3>3. CASE k # n + 1
      <4>1. k \in 1..n /\ (k # 1 => k - 1 \in 1..n)
        BY <3>3
      <4> QED
        BY <2>2, <2>3, <4>1
    <3> QED
      BY <3>1, <3>2, <3>3
  <2>7. g = [k \in 1..(n + 1) |-> IF k = 1 THEN parts[k] ELSE g[k - 1] \o parts[k]]
    BY <2>5, <2>6
  <2>8. \E h : Joins(h, parts, n + 1)
    BY <2>7 DEF Joins
  <2> QED
    BY <2>8 DEF done
<1>3. Nat \subseteq done
  <2> HIDE DEF done
  <2> QED
    BY <1>1, <1>2, NumbersByInduction
<1> QED
  BY <1>3

\* What the parts hold together is what the joined sequence holds.
LEMMA HitsAddUp ==
  ASSUME NEW T, NEW parts, Lists(parts, T), NEW S, NEW c, c[0] = 0,
         \A n \in 1..Len(parts) : c[n] = c[n - 1] + HowMany(parts[n], S)
  PROVE  FlattenSeq(parts) \in Seq(T) /\ HowMany(FlattenSeq(parts), S) = c[Len(parts)]
<1>1. PICK size \in Nat : size = Len(parts) /\ DOMAIN parts = 1..size
  BY DEF Lists
<1>2. \A i \in 1..size : parts[i] \in Seq(T)
  BY <1>1 DEF Lists
<1>3. CASE size = 0
  <2>1. FlattenSeq(parts) = parts
    BY <1>1, <1>3 DEF FlattenSeq
  <2>2. DOMAIN parts = {} /\ {k \in DOMAIN parts : parts[k] \in S} = {}
    BY <1>1, <1>3
  <2>3. HowMany(parts, S) = 0
    BY <2>2, FS_EmptySet DEF HowMany
  <2>4. parts \in Seq(T)
    <3>1. parts = [i \in 1..0 |-> parts[i]]
      BY <1>1, <1>3 DEF Lists
    <3>2. parts \in [1..0 -> T]
      BY <2>2, <3>1
    <3> QED
      BY <3>2
  <2> QED
    BY <1>1, <1>3, <2>1, <2>3, <2>4
<1>4. CASE size # 0
  <2> DEFINE f == CHOOSE g : Joins(g, parts, size)
  <2>1. Joins(f, parts, size)
    BY PartsCanBeJoined
  <2>2. FlattenSeq(parts) = f[size]
    BY <1>1, <1>4 DEF FlattenSeq, Joins
  <2> HIDE DEF f
  <2>3. \A n \in 1..size : f[n] = IF n = 1 THEN parts[n] ELSE f[n - 1] \o parts[n]
    BY <2>1, JoinsUnfold
  <2> DEFINE good == {n \in Nat : n \in 1..size => f[n] \in Seq(T) /\ HowMany(f[n], S) = c[n]}
  <2>4. 0 \in good
    OBVIOUS
  <2>5. ASSUME NEW n \in Nat, n \in good PROVE n + 1 \in good
    <3> SUFFICES ASSUME n + 1 \in 1..size PROVE f[n + 1] \in Seq(T) /\ HowMany(f[n + 1], S) = c[n + 1]
      OBVIOUS
    <3>1. parts[n + 1] \in Seq(T) /\ c[n + 1] = c[n] + HowMany(parts[n + 1], S) /\ (n + 1) - 1 = n
      BY <1>1, <1>2
    <3>2. CASE n = 0
      <4>1. f[1] = parts[1] /\ parts[1] \in Seq(T) /\ c[1] = 0 + HowMany(parts[1], S)
        BY <2>3, <3>1, <3>2
      <4>2. HowMany(parts[1], S) \in Nat
        BY <4>1, PlacesOfSequence
      <4> QED
        BY <3>2, <4>1, <4>2
    <3>3. CASE n # 0
      <4>1. n \in 1..size /\ n + 1 # 1
        BY <3>3
      <4>2. f[n] \in Seq(T) /\ HowMany(f[n], S) = c[n]
        BY <2>5, <4>1
      <4>3. f[n + 1] = f[n] \o parts[n + 1]
        BY <2>3, <3>1, <4>1
      <4> QED
        BY <3>1, <4>2, <4>3, JoinedHits
    <3> QED
      BY <3>2, <3>3
  <2>6. Nat \subseteq good
    <3> HIDE DEF good
    <3> QED
      BY <2>4, <2>5, NumbersByInduction
  <2> QED
    BY <1>1, <1>4, <2>2, <2>6
<1> QED
  BY <1>3, <1>4

\* Sequences of sequences that hold as much part by part hold as much when they are joined.
LEMMA JoinedAlike ==
  ASSUME NEW T, NEW U, NEW a, NEW b, Lists(a, T), Lists(b, U), Len(a) = Len(b), NEW S, NEW R,
         \A i \in 1..Len(a) : HowMany(a[i], S) = HowMany(b[i], R)
  PROVE  HowMany(FlattenSeq(a), S) = HowMany(FlattenSeq(b), R)
<1> DEFINE part == [i \in 1..Len(a) |-> HowMany(a[i], S)]
<1>1. PICK c : Sums(c, part, Len(a))
  BY SumsUnfold DEF Lists
<1>2. c[0] = 0 /\ \A n \in 1..Len(a) : c[n] = c[n - 1] + part[n]
  <2> HIDE DEF part
  <2> QED
    BY <1>1, SumsUnfold DEF Lists
<1>3. \A n \in 1..Len(a) : part[n] = HowMany(a[n], S)
  OBVIOUS
<1> HIDE DEF part
<1>4. \A n \in 1..Len(a) : c[n] = c[n - 1] + HowMany(a[n], S)
  BY <1>2, <1>3
<1>5. \A n \in 1..Len(b) : c[n] = c[n - 1] + HowMany(b[n], R)
  BY <1>4
<1>6. HowMany(FlattenSeq(a), S) = c[Len(a)]
  BY <1>2, <1>4, HitsAddUp
<1>7. HowMany(FlattenSeq(b), R) = c[Len(b)]
  BY <1>2, <1>5, HitsAddUp
<1> QED
  BY <1>6, <1>7

\* When only one part holds some of the values, the joined sequence holds what that part does.
LEMMA OneHolds ==
  ASSUME NEW T, NEW parts, Lists(parts, T), NEW S, NEW one \in 1..Len(parts),
         \A i \in 1..Len(parts) : i # one => HowMany(parts[i], S) = 0
  PROVE  HowMany(FlattenSeq(parts), S) = HowMany(parts[one], S)
<1> DEFINE c == [n \in 0..Len(parts) |-> IF n < one THEN 0 ELSE HowMany(parts[one], S)]
<1>1. Len(parts) \in Nat /\ HowMany(parts[one], S) \in Nat
  BY PlacesOfSequence DEF Lists
<1>2. c[0] = 0 /\ c[Len(parts)] = HowMany(parts[one], S)
  BY <1>1
<1>3. ASSUME NEW n \in 1..Len(parts) PROVE c[n] = c[n - 1] + HowMany(parts[n], S)
  <2>1. n \in 0..Len(parts) /\ n - 1 \in 0..Len(parts)
    BY <1>1
  <2>2. /\ c[n] = IF n < one THEN 0 ELSE HowMany(parts[one], S)
        /\ c[n - 1] = IF n - 1 < one THEN 0 ELSE HowMany(parts[one], S)
    BY <2>1
  <2> HIDE DEF c
  <2>3. CASE n = one
    BY <1>1, <2>2, <2>3
  <2>4. CASE n # one
    <3>1. n < one <=> n - 1 < one
      BY <2>4
    <3> QED
      BY <1>1, <2>2, <2>4, <3>1
  <2> QED
    BY <2>3, <2>4
<1> HIDE DEF c
<1> QED
  BY <1>2, <1>3, HitsAddUp

\* When no part holds any of the values, neither does the joined sequence.
LEMMA NoneHolds ==
  ASSUME NEW T, NEW parts, Lists(parts, T), NEW S, \A i \in 1..Len(parts) : HowMany(parts[i], S) = 0
  PROVE  HowMany(FlattenSeq(parts), S) = 0
<1> DEFINE c == [n \in 0..Len(parts) |-> 0]
<1>1. Len(parts) \in Nat
  BY DEF Lists
<1>2. c[0] = 0 /\ c[Len(parts)] = 0 /\ \A n \in 1..Len(parts) : c[n] = c[n - 1] + HowMany(parts[n], S)
  BY <1>1
<1> HIDE DEF c
<1> QED
  BY <1>2, HitsAddUp

\* Sequences whose places hold one of their values alike have as many hits.
LEMMA HeldAlike ==
  ASSUME NEW a, NEW b, DOMAIN a = DOMAIN b, NEW S, NEW R, \A k \in DOMAIN a : a[k] \in S <=> b[k] \in R
  PROVE  HowMany(a, S) = HowMany(b, R)
<1>1. {k \in DOMAIN a : a[k] \in S} = {k \in DOMAIN b : b[k] \in R}
  OBVIOUS
<1> QED
  BY <1>1 DEF HowMany

\* One value alone is a hit or none.
LEMMA AloneHit ==
  ASSUME NEW x, NEW S
  PROVE  HowMany(<<x>>, S) = IF x \in S THEN 1 ELSE 0
<1>1. {k \in DOMAIN <<x>> : <<x>>[k] \in S} = IF x \in S THEN {1} ELSE {}
  OBVIOUS
<1> QED
  BY <1>1, FS_EmptySet, FS_Singleton DEF HowMany

\* A sequence cut into its single values holds what it held.
LEMMA SinglesHold ==
  ASSUME NEW T, NEW s \in Seq(T), NEW S, NEW parts, parts = [i \in DOMAIN s |-> <<s[i]>>]
  PROVE  Lists(parts, T) /\ HowMany(FlattenSeq(parts), S) = HowMany(s, S)
<1>1. PICK size \in Nat : size = Len(s) /\ DOMAIN s = 1..size
  OBVIOUS
<1>2. Len(parts) = size /\ DOMAIN parts = 1..size /\ parts = [i \in DOMAIN parts |-> parts[i]]
  BY <1>1
<1>3. \A i \in 1..size : parts[i] = <<s[i]>> /\ s[i] \in T
  BY <1>1
<1>4. Lists(parts, T)
  BY <1>2, <1>3 DEF Lists
<1> DEFINE c == [n \in 0..size |-> Cardinality({k \in 1..n : s[k] \in S})]
<1>5. c[0] = 0
  <2>1. {k \in 1..0 : s[k] \in S} = {}
    OBVIOUS
  <2> QED
    BY <2>1, FS_EmptySet
<1>6. ASSUME NEW n \in 1..size PROVE c[n] = c[n - 1] + HowMany(parts[n], S)
  <2>1. n \in 0..size /\ n - 1 \in 0..size /\ n \in 1..Len(s)
    BY <1>1
  <2>2. c[n] = Cardinality({k \in 1..n : s[k] \in S}) /\ c[n - 1] = Cardinality({k \in 1..(n - 1) : s[k] \in S})
    BY <2>1
  <2>3. HowMany(parts[n], S) = IF s[n] \in S THEN 1 ELSE 0
    <3>1. HowMany(<<s[n]>>, S) = IF s[n] \in S THEN 1 ELSE 0
      BY AloneHit
    <3> QED
      BY <1>3, <3>1
  <2> HIDE DEF c
  <2>4. Cardinality({k \in 1..n : s[k] \in S})
          = Cardinality({k \in 1..(n - 1) : s[k] \in S}) + (IF s[n] \in S THEN 1 ELSE 0)
    BY <2>1, CountedByPlace
  <2> QED
    BY <2>2, <2>3, <2>4
<1>7. c[size] = HowMany(s, S)
  BY <1>1 DEF HowMany
<1> HIDE DEF c
<1> QED
  BY <1>2, <1>4, <1>5, <1>6, <1>7, HitsAddUp

\* t is s in the order p
Reordered(t, s, p) ==
    \E size \in Nat :
       /\ p \in [1..size -> 1..size] /\ \A k, m \in 1..size : k < m => p[k] # p[m]
       /\ DOMAIN s = 1..size /\ DOMAIN t = 1..size /\ \A k \in 1..size : t[k] = s[p[k]]

\* A sequence put in another order holds what it held.
LEMMA ReorderedHolds ==
  ASSUME NEW s, NEW t, NEW p, Reordered(t, s, p), NEW S
  PROVE  HowMany(t, S) = HowMany(s, S)
<1> PICK size \in Nat :
       /\ p \in [1..size -> 1..size] /\ \A k, m \in 1..size : k < m => p[k] # p[m]
       /\ DOMAIN s = 1..size /\ DOMAIN t = 1..size /\ \A k \in 1..size : t[k] = s[p[k]]
  BY DEF Reordered
<1> DEFINE held == {i \in 1..size : s[i] \in S}
<1>1. \A k, m \in 1..size : p[k] = p[m] => k = m
  <2> SUFFICES ASSUME NEW k \in 1..size, NEW m \in 1..size, k # m PROVE p[k] # p[m]
    OBVIOUS
  <2>1. k < m \/ m < k
    OBVIOUS
  <2> QED
    BY <2>1
<1>2. \A m \in 1..size : \E k \in 1..size : p[k] = m
  <2>1. p \in Injection(1..size, 1..size)
    BY <1>1 DEF Injection, IsInjective
  <2>2. IsFiniteSet(1..size)
    <3>1. size \in Int /\ 1 \in Int
      OBVIOUS
    <3> QED
      BY <3>1, FS_Interval
  <2>3. p \in Surjection(1..size, 1..size)
    BY <2>1, <2>2, FS_Injection
  <2> QED
    BY <2>3 DEF Surjection
<1>3. Held(p, size, held) = {k \in 1..size : t[k] \in S}
  BY DEF Held
<1>4. (1..size) \cap held = held
  OBVIOUS
<1>5. DOMAIN p = 1..size /\ \A k \in 1..size : p[k] \in 1..size
  OBVIOUS
<1> HIDE DEF held
<1>6. Cardinality(Held(p, size, held)) = Cardinality((1..size) \cap held)
  <2>1. ListedOnce(p, size, 1..size)
    BY <1>1, <1>2, <1>5 DEF ListedOnce
  <2> QED
    BY <2>1, ListedHeld
<1> QED
  BY <1>3, <1>4, <1>6 DEF HowMany, held

-----------------------------------------------------------------------------
(* Lines of text *)

LineStatus == {"read", "matched", "primary_only", "secondary_only"}
TextLines == [text : Seq(Nat), y : Nat, x : Nat, status : LineStatus]

\* the lines that read a text
LinesWith(text) == {line \in TextLines : line.text = text}

\* how often a text is among some lines
Times(lines, text) == HowMany(lines, LinesWith(text))

\* A line that is marked reads the same.
LEMMA MarkingKeepsText ==
  ASSUME NEW line \in TextLines, NEW status \in LineStatus
  PROVE  /\ Marked(line, status) \in TextLines
         /\ Marked(line, status).text = line.text
         /\ \A text : Marked(line, status) \in LinesWith(text) <=> line \in LinesWith(text)
<1>1. Marked(line, status) = [text |-> line.text, y |-> line.y, x |-> line.x, status |-> status]
  BY DEF Marked, TextLines
<1>2. line.text \in Seq(Nat) /\ line.y \in Nat /\ line.x \in Nat
  BY DEF TextLines
<1>3. [text |-> line.text, y |-> line.y, x |-> line.x, status |-> status] \in TextLines
  BY <1>2 DEF TextLines
<1>4. Marked(line, status) \in TextLines /\ Marked(line, status).text = line.text
  BY <1>1, <1>3
<1> QED
  BY <1>4 DEF LinesWith

\* Sorted lines are the lines in another order, and such an order exists.
LEMMA SortingKeepsLines ==
  ASSUME NEW lines \in Seq(TextLines), NEW S
  PROVE  InReadingOrder(lines) \in Seq(TextLines) /\ Len(InReadingOrder(lines)) = Len(lines)
         /\ HowMany(InReadingOrder(lines), S) = HowMany(lines, S)
<1>1. PICK size \in Nat : size = Len(lines) /\ DOMAIN lines = 1..size
  OBVIOUS
<1>2. \A i \in 1..size : lines[i].y \in Nat /\ lines[i].x \in Nat /\ lines[i] \in TextLines
  <2>1. \A i \in 1..size : lines[i] \in TextLines
    BY <1>1
  <2>2. \A line \in TextLines : line.y \in Nat /\ line.x \in Nat
    BY DEF TextLines
  <2> QED
    BY <2>1, <2>2
<1> DEFINE Above(i, j) == \/ lines[i].y < lines[j].y
                          \/ lines[i].y = lines[j].y /\ lines[i].x < lines[j].x
                          \/ lines[i].y = lines[j].y /\ lines[i].x = lines[j].x /\ i < j
           R == {pair \in (1..size) \X (1..size) : Above(pair[1], pair[2])}
           order == CHOOSE p \in [DOMAIN lines -> DOMAIN lines] :
                       \A k, m \in DOMAIN lines : k < m => Above(p[k], p[m])
<1>3. \A i \in 1..size : ~Above(i, i)
  BY <1>2
<1>4. \A i, j, k \in 1..size : Above(i, j) /\ Above(j, k) => Above(i, k)
  <2> SUFFICES ASSUME NEW i \in 1..size, NEW j \in 1..size, NEW k \in 1..size, Above(i, j), Above(j, k)
               PROVE  Above(i, k)
    OBVIOUS
  <2> DEFINE a == lines[i].y  b == lines[j].y  c == lines[k].y
             u == lines[i].x  v == lines[j].x  w == lines[k].x
  <2>1. a \in Nat /\ b \in Nat /\ c \in Nat /\ u \in Nat /\ v \in Nat /\ w \in Nat
    BY <1>2
  <2>2. /\ a < b \/ (a = b /\ u < v) \/ (a = b /\ u = v /\ i < j)
        /\ b < c \/ (b = c /\ v < w) \/ (b = c /\ v = w /\ j < k)
    OBVIOUS
  <2> HIDE DEF a, b, c, u, v, w
  <2>3. a < c \/ (a = c /\ u < w) \/ (a = c /\ u = w /\ i < k)
    BY <2>1, <2>2
  <2> QED
    BY <2>3 DEF a, c, u, w
<1>5. \A i, j \in 1..size : i # j => Above(i, j) \/ Above(j, i)
  <2> SUFFICES ASSUME NEW i \in 1..size, NEW j \in 1..size, i # j PROVE Above(i, j) \/ Above(j, i)
    OBVIOUS
  <2>1. lines[i].y \in Nat /\ lines[j].y \in Nat /\ lines[i].x \in Nat /\ lines[j].x \in Nat
    BY <1>2
  <2> QED
    BY <2>1
<1>6. InReadingOrder(lines) = [k \in DOMAIN lines |-> lines[order[k]]]
  BY DEF InReadingOrder
<1> HIDE DEF Above
<1>7. \A i, j \in 1..size : <<i, j>> \in R <=> Above(i, j)
  OBVIOUS
<1>8. Orders(R, size)
  <2> HIDE DEF R
  <2> QED
    BY <1>3, <1>4, <1>5, <1>7 DEF Orders
<1>9. PICK p \in [1..size -> 1..size] : \A k, m \in 1..size : k < m => <<p[k], p[m]>> \in R
  <2> HIDE DEF R
  <2> QED
    BY <1>8, OrdersAreListed
<1>10. \A k, m \in 1..size : k < m => Above(p[k], p[m])
  <2> HIDE DEF R
  <2> QED
    BY <1>7, <1>9
<1>11. order \in [1..size -> 1..size] /\ \A k, m \in 1..size : k < m => Above(order[k], order[m])
  BY <1>1, <1>9, <1>10
<1> HIDE DEF order, R
<1>12. \A k, m \in 1..size : k < m => order[k] # order[m]
  BY <1>3, <1>11
<1>13. InReadingOrder(lines) = [k \in 1..size |-> lines[order[k]]]
  BY <1>1, <1>6
<1>14. \A k \in 1..size : lines[order[k]] \in TextLines
  BY <1>2, <1>11
<1>15. InReadingOrder(lines) \in Seq(TextLines) /\ Len(InReadingOrder(lines)) = size
  BY <1>13, <1>14
<1>16. HowMany(InReadingOrder(lines), S) = HowMany(lines, S)
  <2> DEFINE sorted == InReadingOrder(lines)
  <2>1. DOMAIN sorted = 1..size /\ \A k \in 1..size : sorted[k] = lines[order[k]]
    BY <1>13
  <2> HIDE DEF sorted
  <2>2. Reordered(sorted, lines, order)
    BY <1>1, <1>11, <1>12, <2>1 DEF Reordered
  <2>3. HowMany(sorted, S) = HowMany(lines, S)
    BY <2>2, ReorderedHolds
  <2> QED
    BY <2>3 DEF sorted
<1> QED
  BY <1>1, <1>13, <1>15, <1>16

\* The places of a sequence that hold some values.
LEMMA TimesAreCounted ==
  ASSUME NEW lines \in Seq(TextLines), NEW text
  PROVE  /\ Times(lines, text) \in Nat
         /\ Times(lines, text) = Cardinality({i \in DOMAIN lines : lines[i].text = text})
         /\ Times(lines, text) = 0 <=> \A i \in DOMAIN lines : lines[i].text # text
<1>1. \A i \in DOMAIN lines : lines[i] \in TextLines
  OBVIOUS
<1>2. {i \in DOMAIN lines : lines[i].text = text} = {i \in DOMAIN lines : lines[i] \in LinesWith(text)}
  BY <1>1 DEF LinesWith
<1> DEFINE A == {i \in DOMAIN lines : lines[i] \in LinesWith(text)}
<1>3. IsFiniteSet(A) /\ Times(lines, text) \in Nat
  BY PlacesOfSequence DEF Times
<1>4. Times(lines, text) = Cardinality(A)
  BY DEF Times, HowMany
<1>5. A = {} <=> \A i \in DOMAIN lines : lines[i].text # text
  BY <1>2
<1> HIDE DEF A
<1>6. Cardinality(A) = 0 <=> A = {}
  BY <1>3, FS_EmptySet
<1> QED
  BY <1>2, <1>3, <1>4, <1>5, <1>6 DEF A

\* how often a text is there after lines that read it a and b times were matched
Fused(a, b) == IF a = 0 \/ b = 0 THEN a + b ELSE a + b - 1

\* The index of a line with a text that is among some lines is that of such a line.
LEMMA FirstIsOne ==
  ASSUME NEW lines \in Seq(TextLines), NEW text, \E i \in DOMAIN lines : lines[i].text = text
  PROVE  FirstWith(text, lines) \in DOMAIN lines /\ lines[FirstWith(text, lines)].text = text
<1> DEFINE T == {i \in DOMAIN lines : lines[i].text = text}
<1>1. T \subseteq Nat /\ T # {}
  OBVIOUS
<1> HIDE DEF T
<1>2. \E least \in T : \A n \in T : least <= n
  BY <1>1, LeastNumber
<1>3. Min(T) \in T
  BY <1>2 DEF Min
<1> QED
  BY <1>3 DEF FirstWith, T

\* Two sequences of lines that are matched keep every text: of those in both one line is used up,
\* the first of the secondary lines.
LEMMA FusionKeepsLines ==
  ASSUME NEW primary \in Seq(TextLines), NEW secondary \in Seq(TextLines), NEW text
  PROVE  FuseLines(primary, secondary) \in Seq(TextLines)
         /\ Times(FuseLines(primary, secondary), text) = Fused(Times(primary, text), Times(secondary, text))
<1> DEFINE matched == Matches(primary, secondary)
           used == {FirstWith(primary[i].text, secondary) : i \in matched}
           left == (DOMAIN secondary) \ used
           rest == InOrder(left)
           front == [i \in DOMAIN primary |-> Marked(primary[i], IF i \in matched THEN "matched" ELSE "primary_only")]
           back == [k \in DOMAIN rest |-> Marked(secondary[rest[k]], "secondary_only")]
           alike == {i \in DOMAIN secondary : secondary[i].text = text}
<1>1. FuseLines(primary, secondary) = InReadingOrder(front \o back)
  BY DEF FuseLines
<1>2. PICK m \in Nat : m = Len(primary) /\ DOMAIN primary = 1..m
  OBVIOUS
<1>3. PICK n \in Nat : n = Len(secondary) /\ DOMAIN secondary = 1..n
  OBVIOUS
<1>4. \A i \in 1..m : primary[i] \in TextLines
  BY <1>2
<1>5. \A i \in 1..n : secondary[i] \in TextLines
  BY <1>3
<1>6. matched \subseteq 1..m
  BY <1>2 DEF Matches
<1>7. left \subseteq 1..n
  BY <1>3
<1> HIDE DEF matched
<1>8. front \in Seq(TextLines) /\ Times(front, text) = Times(primary, text)
  <2>1. DOMAIN front = DOMAIN primary
    OBVIOUS
  <2>2. \A i \in DOMAIN primary : front[i] \in TextLines /\ (front[i] \in LinesWith(text) <=> primary[i] \in LinesWith(text))
    <3> SUFFICES ASSUME NEW i \in DOMAIN primary
                 PROVE  front[i] \in TextLines /\ (front[i] \in LinesWith(text) <=> primary[i] \in LinesWith(text))
      OBVIOUS
    <3>1. PICK status \in LineStatus : front[i] = Marked(primary[i], status)
      BY DEF LineStatus
    <3>2. primary[i] \in TextLines
      BY <1>2, <1>4
    <3> HIDE DEF front
    <3> QED
      BY <3>1, <3>2, MarkingKeepsText
  <2>3. front = [i \in 1..m |-> front[i]]
    BY <1>2
  <2> HIDE DEF front
  <2>4. front \in Seq(TextLines)
    <3>1. \A i \in 1..m : front[i] \in TextLines
      BY <1>2, <2>2
    <3>2. front \in [1..m -> TextLines]
      BY <2>3, <3>1
    <3> QED
      BY <3>2
  <2> QED
    BY <2>1, <2>2, <2>4, HeldAlike DEF Times
<1>9. IsFiniteSet(DOMAIN secondary) /\ IsFiniteSet(left)
  <2>1. IsFiniteSet(DOMAIN secondary)
    BY PlacesOfSequence
  <2>2. left \in SUBSET DOMAIN secondary
    OBVIOUS
  <2> HIDE DEF left
  <2> QED
    BY <2>1, <2>2, FS_Subset
<1>10. PICK size \in Nat : /\ DOMAIN rest = 1..size
                           /\ \A k \in 1..size : rest[k] \in left
                           /\ ListedOnce(rest, size, left)
  <2>1. left \in SUBSET Nat
    BY <1>7
  <2> HIDE DEF left
  <2> QED
    BY <1>9, <2>1, InOrderOnce
<1> HIDE DEF rest
<1>11. \A k \in 1..size : rest[k] \in 1..n /\ secondary[rest[k]] \in TextLines
  BY <1>5, <1>7, <1>10
<1>12. \A k \in 1..size : back[k] = Marked(secondary[rest[k]], "secondary_only")
  BY <1>10
<1>13. back = [k \in 1..size |-> back[k]] /\ DOMAIN back = 1..size
  BY <1>10
<1> HIDE DEF back, left, used
<1>14. \A k \in 1..size : /\ back[k] \in TextLines
                          /\ back[k] \in LinesWith(text) <=> rest[k] \in alike
  <2> SUFFICES ASSUME NEW k \in 1..size
               PROVE  back[k] \in TextLines /\ (back[k] \in LinesWith(text) <=> rest[k] \in alike)
    OBVIOUS
  <2>1. "secondary_only" \in LineStatus
    BY DEF LineStatus
  <2>2. back[k] \in TextLines /\ back[k].text = secondary[rest[k]].text
    BY <1>11, <1>12, <2>1, MarkingKeepsText
  <2>3. rest[k] \in alike <=> secondary[rest[k]].text = text
    BY <1>3, <1>11
  <2> QED
    BY <2>2, <2>3 DEF LinesWith
<1>15. back \in Seq(TextLines)
  <2>1. back \in [1..size -> TextLines]
    BY <1>13, <1>14
  <2> QED
    BY <2>1
<1>16. Times(back, text) = Cardinality(left \cap alike)
  <2>1. {k \in DOMAIN back : back[k] \in LinesWith(text)} = Held(rest, size, alike)
    BY <1>13, <1>14 DEF Held
  <2>2. Cardinality(Held(rest, size, alike)) = Cardinality(left \cap alike)
    BY <1>10, ListedHeld
  <2> QED
    BY <2>1, <2>2 DEF Times, HowMany
<1>17. /\ Times(primary, text) \in Nat /\ Times(secondary, text) \in Nat
       /\ Times(secondary, text) = Cardinality(alike)
       /\ Times(primary, text) = 0 <=> \A i \in 1..m : primary[i].text # text
       /\ Times(secondary, text) = 0 <=> \A i \in 1..n : secondary[i].text # text
  BY <1>2, <1>3, TimesAreCounted
<1>18. Times(back, text) = IF Times(primary, text) = 0 \/ Times(secondary, text) = 0
                           THEN Times(secondary, text) ELSE Times(secondary, text) - 1
  <2>1. left = (1..n) \ used
    BY <1>3 DEF left
  <2>2. ASSUME NEW j \in used PROVE \E i \in matched : /\ j = FirstWith(primary[i].text, secondary)
                                                     /\ j \in 1..n /\ secondary[j].text = primary[i].text
    <3>1. PICK i \in matched : j = FirstWith(primary[i].text, secondary)
      BY <2>2 DEF used
    <3>2. \E k \in DOMAIN secondary : secondary[k].text = primary[i].text
      BY <3>1 DEF matched, Matches
    <3>3. j \in DOMAIN secondary /\ secondary[j].text = primary[i].text
      BY <3>1, <3>2, FirstIsOne
    <3> QED
      BY <1>3, <3>1, <3>3
  <2>3. CASE Times(primary, text) = 0
    <3>1. \A j \in used : j \notin alike
      BY <1>6, <1>17, <2>2, <2>3
    <3>2. alike \subseteq 1..n
      BY <1>3
    <3> HIDE DEF alike
    <3>3. left \cap alike = alike
      BY <2>1, <3>1, <3>2
    <3> QED
      BY <1>16, <1>17, <2>3, <3>3
  <2>4. CASE Times(secondary, text) = 0
    <3>1. alike = {}
      BY <1>3, <1>17, <2>4
    <3>2. left \cap alike = alike
      BY <3>1
    <3> QED
      BY <1>16, <1>17, <2>4, <3>2
  <2>5. CASE Times(primary, text) # 0 /\ Times(secondary, text) # 0
    <3> DEFINE first == FirstWith(text, secondary)
    <3>1. first \in DOMAIN secondary /\ secondary[first].text = text
      <4>1. \E j \in DOMAIN secondary : secondary[j].text = text
        BY <1>3, <1>17, <2>5
      <4> QED
        BY <4>1, FirstIsOne
    <3>2. first \in used
      <4> DEFINE T == {i \in 1..m : primary[i].text = text}
      <4>1. T \subseteq Nat /\ T # {}
        BY <1>17, <2>5
      <4>2. PICK i \in T : \A j \in T : i <= j
        <5> HIDE DEF T
        <5> QED
          BY <4>1, LeastNumber
      <4>3. i \in 1..m /\ primary[i].text = text
        OBVIOUS
      <4>4. \A j \in 1..(i - 1) : primary[j].text # text
        <5> SUFFICES ASSUME NEW j \in 1..(i - 1), primary[j].text = text PROVE FALSE
          OBVIOUS
        <5>1. j \in T /\ ~(i <= j)
          BY <4>3
        <5> QED
          BY <4>2, <5>1
      <4>5. i \in matched
        BY <1>2, <3>1, <4>3, <4>4 DEF matched, Matches
      <4> HIDE DEF first
      <4> QED
        BY <4>3, <4>5 DEF used, first
    <3>3. first \in alike
      BY <3>1
    <3>4. \A j \in used : j \in alike => j = first
      BY <2>2
    <3>5. alike \subseteq 1..n /\ IsFiniteSet(alike)
      <4>1. alike \in SUBSET DOMAIN secondary
        OBVIOUS
      <4> HIDE DEF alike
      <4> QED
        BY <1>3, <1>9, <4>1, FS_Subset
    <3> HIDE DEF alike, first
    <3>6. left \cap alike = alike \ {first}
      BY <2>1, <3>2, <3>4, <3>5
    <3>7. Cardinality(alike \ {first}) = Cardinality(alike) - 1
      BY <3>3, <3>5, FS_RemoveElement
    <3> QED
      BY <1>16, <1>17, <2>5, <3>6, <3>7
  <2> QED
    BY <2>3, <2>4, <2>5
<1> HIDE DEF front, alike
<1>19. front \o back \in Seq(TextLines) /\ Times(front \o back, text) = Times(front, text) + Times(back, text)
  BY <1>8, <1>15, JoinedHits DEF Times
<1>20. InReadingOrder(front \o back) \in Seq(TextLines) /\ Times(InReadingOrder(front \o back), text) = Times(front \o back, text)
  BY <1>19, SortingKeepsLines DEF Times
<1> QED
  BY <1>1, <1>8, <1>17, <1>18, <1>19, <1>20 DEF Fused

-----------------------------------------------------------------------------
(* Pages *)

\* Joined sequences over a set are a sequence over it.
LEMMA JoinedType ==
  ASSUME NEW T, NEW parts, Lists(parts, T)
  PROVE  FlattenSeq(parts) \in Seq(T)
<1> DEFINE part == [i \in 1..Len(parts) |-> HowMany(parts[i], {})]
<1>1. PICK c : Sums(c, part, Len(parts))
  BY SumsUnfold DEF Lists
<1>2. c[0] = 0 /\ \A n \in 1..Len(parts) : c[n] = c[n - 1] + part[n]
  <2> HIDE DEF part
  <2> QED
    BY <1>1, SumsUnfold DEF Lists
<1>3. \A n \in 1..Len(parts) : part[n] = HowMany(parts[n], {})
  OBVIOUS
<1> HIDE DEF part
<1>4. \A n \in 1..Len(parts) : c[n] = c[n - 1] + HowMany(parts[n], {})
  BY <1>2, <1>3
<1> QED
  BY <1>2, <1>4, HitsAddUp

\* Nothing is among nothing.
LEMMA EmptyHits == ASSUME NEW S PROVE HowMany(<<>>, S) = 0
<1>1. {k \in DOMAIN <<>> : <<>>[k] \in S} = {}
  OBVIOUS
<1> QED
  BY <1>1, FS_EmptySet DEF HowMany

\* A single part holds what the joined sequence does.
LEMMA OnePartHolds ==
  ASSUME NEW T, NEW s \in Seq(T), NEW S, NEW parts, parts = <<s>>
  PROVE  Lists(parts, T) /\ HowMany(FlattenSeq(parts), S) = HowMany(s, S)
<1>1. Len(parts) = 1 /\ DOMAIN parts = 1..1 /\ parts[1] = s /\ parts = [k \in DOMAIN parts |-> parts[k]]
  OBVIOUS
<1>2. Lists(parts, T)
  BY <1>1 DEF Lists
<1>3. 1 \in 1..Len(parts) /\ \A k \in 1..Len(parts) : k # 1 => HowMany(parts[k], S) = 0
  BY <1>1
<1>4. HowMany(FlattenSeq(parts), S) = HowMany(parts[1], S)
  BY <1>2, <1>3, OneHolds
<1> QED
  BY <1>1, <1>2, <1>4

\* pages of lines, each with its own number
PagesOfLines(pages) ==
    /\ Len(pages) \in Nat /\ DOMAIN pages = 1..Len(pages)
    /\ \A i \in 1..Len(pages) : pages[i].number \in Nat /\ Lists(pages[i].blocks, TextLines)
    /\ \A i, j \in 1..Len(pages) : pages[i].number = pages[j].number => i = j

\* The lines of a page are those of the one page with its number.
LEMMA LinesOfOnePage ==
  ASSUME NEW pages, PagesOfLines(pages), NEW n, NEW text
  PROVE  /\ LinesOfPage(pages, n) \in Seq(TextLines)
         /\ \A i \in DOMAIN pages : /\ CollectLines(pages[i]) \in Seq(TextLines)
                                    /\ pages[i].number = n => Times(LinesOfPage(pages, n), text) = Times(CollectLines(pages[i]), text)
         /\ n \notin NumbersOf(pages) => Times(LinesOfPage(pages, n), text) = 0
<1> DEFINE parts == [i \in DOMAIN pages |-> IF pages[i].number = n THEN CollectLines(pages[i]) ELSE <<>>]
<1>1. PICK size \in Nat : size = Len(pages) /\ DOMAIN pages = 1..size
  BY DEF PagesOfLines
<1>2. ASSUME NEW i \in 1..size PROVE CollectLines(pages[i]) \in Seq(TextLines)
  <2>1. Lists(pages[i].blocks, TextLines)
    BY <1>1 DEF PagesOfLines
  <2> QED
    BY <2>1, JoinedType DEF CollectLines
<1>3. LinesOfPage(pages, n) = FlattenSeq(parts)
  BY DEF LinesOfPage
<1>4. /\ DOMAIN parts = 1..size /\ parts = [i \in DOMAIN parts |-> parts[i]]
      /\ \A i \in 1..size : parts[i] = IF pages[i].number = n THEN CollectLines(pages[i]) ELSE <<>>
  BY <1>1
<1>5. Len(parts) = size
  BY <1>1
<1> HIDE DEF parts
<1>6. Lists(parts, TextLines)
  <2>1. <<>> \in Seq(TextLines)
    OBVIOUS
  <2>2. \A i \in 1..size : parts[i] \in Seq(TextLines)
    BY <1>2, <1>4, <2>1
  <2> QED
    BY <1>4, <1>5, <2>2 DEF Lists
<1>7. ASSUME NEW i \in 1..size, pages[i].number = n
      PROVE  Times(LinesOfPage(pages, n), text) = Times(CollectLines(pages[i]), text)
  <2>1. \A j \in 1..Len(parts) : j # i => HowMany(parts[j], LinesWith(text)) = 0
    <3> SUFFICES ASSUME NEW j \in 1..Len(parts), j # i PROVE HowMany(parts[j], LinesWith(text)) = 0
      OBVIOUS
    <3>1. pages[j].number # n
      BY <1>1, <1>5, <1>7 DEF PagesOfLines
    <3>2. parts[j] = <<>>
      BY <1>4, <1>5, <3>1
    <3> QED
      BY <3>2, EmptyHits
  <2>2. HowMany(FlattenSeq(parts), LinesWith(text)) = HowMany(parts[i], LinesWith(text))
    BY <1>5, <1>6, <2>1, OneHolds
  <2>3. parts[i] = CollectLines(pages[i])
    BY <1>4, <1>7
  <2> QED
    BY <1>3, <2>2, <2>3 DEF Times
<1>8. ASSUME n \notin NumbersOf(pages) PROVE Times(LinesOfPage(pages, n), text) = 0
  <2>1. \A j \in 1..Len(parts) : parts[j] = <<>>
    BY <1>1, <1>4, <1>5, <1>8 DEF NumbersOf
  <2>2. \A j \in 1..Len(parts) : HowMany(parts[j], LinesWith(text)) = 0
    BY <2>1, EmptyHits
  <2> QED
    BY <1>3, <1>6, <2>2, NoneHolds DEF Times
<1>9. LinesOfPage(pages, n) \in Seq(TextLines)
  BY <1>3, <1>6, JoinedType
<1> QED
  BY <1>1, <1>2, <1>7, <1>8, <1>9

\* The lines of a page and the places of a line are numbers, finitely many, and a line has one.
LEMMA WordsOnPage ==
  ASSUME NEW words \in SUBSET Printed, NEW n
  PROVE  /\ LinesOn(words, n) \in SUBSET Nat /\ IsFiniteSet(LinesOn(words, n))
         /\ \A l \in LinesOn(words, n) : /\ PlacesOn(words, n, l) \in SUBSET Nat
                                         /\ IsFiniteSet(PlacesOn(words, n, l)) /\ PlacesOn(words, n, l) # {}
         /\ LinesOn(words, n) # {} <=> n \in {w[1] : w \in words}
         /\ {w[1] : w \in words} \in SUBSET Nat /\ IsFiniteSet({w[1] : w \in words})
<1>1. IsFiniteSet(Printed) /\ \A w \in Printed : w[1] \in Nat /\ w[2] \in Nat /\ w[3] \in Nat
  BY OcrAssumption
<1>2. IsFiniteSet(words)
  BY <1>1, FS_Subset
<1>3. ASSUME NEW S \in SUBSET words PROVE /\ IsFiniteSet({w[1] : w \in S}) /\ IsFiniteSet({w[2] : w \in S})
                                          /\ IsFiniteSet({w[3] : w \in S})
  <2>1. IsFiniteSet(S)
    BY <1>2, FS_Subset
  <2> DEFINE f == [w \in S |-> w[1]]  g == [w \in S |-> w[2]]  h == [w \in S |-> w[3]]
  <2>2. {w[1] : w \in S} = {f[w] : w \in S} /\ {w[2] : w \in S} = {g[w] : w \in S} /\ {w[3] : w \in S} = {h[w] : w \in S}
    OBVIOUS
  <2>3. DOMAIN f = S /\ DOMAIN g = S /\ DOMAIN h = S
    OBVIOUS
  <2> HIDE DEF f, g, h
  <2>4. IsFiniteSet({f[w] : w \in S}) /\ IsFiniteSet({g[w] : w \in S}) /\ IsFiniteSet({h[w] : w \in S})
    BY <2>1, <2>3, ImageIsFinite
  <2> QED
    BY <2>2, <2>4
<1>4. LinesOn(words, n) \in SUBSET Nat /\ IsFiniteSet(LinesOn(words, n))
  <2> DEFINE S == {v \in words : v[1] = n}
  <2>1. S \in SUBSET words
    OBVIOUS
  <2>2. LinesOn(words, n) = {w[2] : w \in S}
    BY DEF LinesOn
  <2> HIDE DEF S
  <2>3. IsFiniteSet({w[2] : w \in S})
    BY <1>3, <2>1
  <2> QED
    BY <1>1, <2>1, <2>2, <2>3
<1>5. ASSUME NEW l \in LinesOn(words, n)
      PROVE  /\ PlacesOn(words, n, l) \in SUBSET Nat
             /\ IsFiniteSet(PlacesOn(words, n, l)) /\ PlacesOn(words, n, l) # {}
  <2> DEFINE S == {v \in words : v[1] = n /\ v[2] = l}
  <2>1. S \in SUBSET words /\ S # {}
    BY DEF LinesOn
  <2>2. PlacesOn(words, n, l) = {w[3] : w \in S}
    BY DEF PlacesOn
  <2> HIDE DEF S
  <2>3. IsFiniteSet({w[3] : w \in S})
    BY <1>3, <2>1
  <2> QED
    BY <1>1, <2>1, <2>2, <2>3
<1>6. LinesOn(words, n) # {} <=> n \in {w[1] : w \in words}
  BY DEF LinesOn
<1>7. {w[1] : w \in words} \in SUBSET Nat
  BY <1>1
<1>8. IsFiniteSet({w[1] : w \in words})
  BY <1>3
<1> QED
  BY <1>4, <1>5, <1>6, <1>7, <1>8

\* what is read on a page n: how many of its lines read a text
LinesReading(words, n, text) == {l \in LinesOn(words, n) : ReadLine(words, n, l).text = text}

\* A line as an engine reads it is a line.
LEMMA ReadLineIsLine ==
  ASSUME NEW words \in SUBSET Printed, NEW n, NEW l \in LinesOn(words, n)
  PROVE  ReadLine(words, n, l) \in TextLines
<1> DEFINE places == PlacesOn(words, n, l)
<1>1. places \in SUBSET Nat /\ IsFiniteSet(places) /\ places # {} /\ l \in Nat
  BY WordsOnPage
<1> HIDE DEF places
<1>2. InOrder(places) \in Seq(Nat)
  <2>1. /\ Len(InOrder(places)) \in Nat
        /\ DOMAIN InOrder(places) = 1..Len(InOrder(places))
        /\ \A i \in DOMAIN InOrder(places) : InOrder(places)[i] \in places
        /\ InOrder(places) \in Seq(places)
    BY <1>1, InOrderOnce, InOrderLists
  <2>2. \A i \in 1..Len(InOrder(places)) : InOrder(places)[i] \in Nat
    BY <1>1, <2>1
  <2>3. InOrder(places) \in [1..Len(InOrder(places)) -> Nat]
    BY <2>1, <2>2
  <2> QED
    BY <2>1, <2>3
<1>3. Min(places) \in Nat
  <2>1. \E least \in places : \A p \in places : least <= p
    BY <1>1, LeastNumber
  <2>2. Min(places) \in places
    BY <2>1 DEF Min
  <2> QED
    BY <1>1, <2>2
<1>4. "read" \in LineStatus
  BY DEF LineStatus
<1>5. ReadLine(words, n, l) = [text |-> InOrder(places), y |-> l, x |-> Min(places), status |-> "read"]
  BY DEF ReadLine, places
<1> QED
  BY <1>1, <1>2, <1>3, <1>4, <1>5 DEF TextLines

\* An engine returns every line of a page once.
LEMMA ReadLinesOnce ==
  ASSUME NEW words \in SUBSET Printed, NEW n, NEW text
  PROVE  /\ ReadLines(words, n) \in Seq(TextLines)
         /\ Times(ReadLines(words, n), text) = Cardinality(LinesReading(words, n, text))
<1> DEFINE lines == InOrder(LinesOn(words, n))
           read == ReadLines(words, n)
<1>1. PICK size \in Nat : /\ DOMAIN lines = 1..size
                          /\ \A i \in 1..size : lines[i] \in LinesOn(words, n)
                          /\ ListedOnce(lines, size, LinesOn(words, n))
  <2> DEFINE some == LinesOn(words, n)
  <2>1. some \in SUBSET Nat /\ IsFiniteSet(some)
    BY WordsOnPage
  <2> HIDE DEF some
  <2>2. \E size \in Nat : /\ DOMAIN InOrder(some) = 1..size
                          /\ \A i \in 1..size : InOrder(some)[i] \in some
                          /\ ListedOnce(InOrder(some), size, some)
    BY <2>1, InOrderOnce
  <2> QED
    BY <2>2 DEF some
<1>2. read = [i \in DOMAIN lines |-> ReadLine(words, n, lines[i])]
  BY DEF ReadLines
<1> HIDE DEF lines, read
<1>3. DOMAIN read = 1..size /\ \A i \in 1..size : read[i] = ReadLine(words, n, lines[i])
  BY <1>1, <1>2
<1>4. \A i \in 1..size : read[i] \in TextLines
  BY <1>1, <1>3, ReadLineIsLine
<1>5. read \in Seq(TextLines)
  <2>1. read \in [1..size -> TextLines]
    BY <1>1, <1>2, <1>3, <1>4
  <2> QED
    BY <2>1
<1> DEFINE alike == LinesReading(words, n, text)
<1>6. alike \subseteq LinesOn(words, n)
  BY DEF LinesReading
<1>7. \A i \in 1..size : read[i] \in LinesWith(text) <=> lines[i] \in alike
  BY <1>1, <1>3, <1>4 DEF LinesWith, LinesReading
<1> HIDE DEF alike
<1>8. {k \in DOMAIN read : read[k] \in LinesWith(text)} = Held(lines, size, alike)
  BY <1>3, <1>7 DEF Held
<1>9. Cardinality(Held(lines, size, alike)) = Cardinality(LinesOn(words, n) \cap alike)
  BY <1>1, ListedHeld
<1>10. LinesOn(words, n) \cap alike = alike
  BY <1>6
<1> QED
  BY <1>5, <1>8, <1>9, <1>10 DEF Times, HowMany, read, alike

\* The pages an engine returns are pages of lines, and each has the lines of its number.
LEMMA EnginePages ==
  ASSUME NEW words \in SUBSET Printed, NEW engine
  PROVE  /\ PagesOfLines(PagesOf(engine, words))
         /\ NumbersOf(PagesOf(engine, words)) = {w[1] : w \in words}
         /\ \A i \in DOMAIN PagesOf(engine, words) : \A text :
               Times(CollectLines(PagesOf(engine, words)[i]), text)
                 = Cardinality(LinesReading(words, PagesOf(engine, words)[i].number, text))
<1> DEFINE numbers == InOrder({w[1] : w \in words})
           pages == PagesOf(engine, words)
<1>1. PICK size \in Nat : /\ DOMAIN numbers = 1..size
                          /\ \A i \in 1..size : numbers[i] \in {w[1] : w \in words} /\ numbers[i] \in Nat
                          /\ ListedOnce(numbers, size, {w[1] : w \in words})
  <2> DEFINE some == {w[1] : w \in words}
  <2>1. some \in SUBSET Nat /\ IsFiniteSet(some)
    BY WordsOnPage
  <2> HIDE DEF some
  <2>2. \E size \in Nat : /\ DOMAIN InOrder(some) = 1..size
                          /\ \A i \in 1..size : InOrder(some)[i] \in some /\ InOrder(some)[i] \in Nat
                          /\ ListedOnce(InOrder(some), size, some)
    BY <2>1, InOrderOnce
  <2> QED
    BY <2>2 DEF some
<1>2. pages = [i \in DOMAIN numbers |-> IF engine = "tesseract" THEN TesseractPage(words, numbers[i])
                                                                 ELSE PaddlePage(words, numbers[i])]
  BY DEF PagesOf
<1> HIDE DEF numbers, pages
<1>3. /\ DOMAIN pages = 1..size /\ Len(pages) = size
      /\ \A i \in 1..size : pages[i] = IF engine = "tesseract" THEN TesseractPage(words, numbers[i])
                                                               ELSE PaddlePage(words, numbers[i])
  BY <1>1, <1>2
<1>4. ASSUME NEW i \in 1..size, NEW text
      PROVE  /\ pages[i].number = numbers[i] /\ Lists(pages[i].blocks, TextLines)
             /\ Times(CollectLines(pages[i]), text) = Cardinality(LinesReading(words, numbers[i], text))
  <2> DEFINE lines == ReadLines(words, numbers[i])
  <2>1. lines \in Seq(TextLines) /\ Times(lines, text) = Cardinality(LinesReading(words, numbers[i], text))
    BY ReadLinesOnce
  <2>2. CASE engine = "tesseract"
    <3> DEFINE blocks == [k \in DOMAIN lines |-> <<lines[k]>>]
    <3>1. pages[i] = [number |-> numbers[i], blocks |-> blocks]
      BY <1>3, <2>2 DEF TesseractPage
    <3>2. blocks = [k \in DOMAIN lines |-> <<lines[k]>>]
      OBVIOUS
    <3> HIDE DEF blocks, lines
    <3>3. Lists(blocks, TextLines) /\ HowMany(FlattenSeq(blocks), LinesWith(text)) = HowMany(lines, LinesWith(text))
      BY <2>1, <3>2, SinglesHold
    <3> QED
      BY <2>1, <3>1, <3>3 DEF CollectLines, Times
  <2>3. CASE engine # "tesseract"
    <3> DEFINE blocks == <<lines>>
    <3>1. pages[i] = [number |-> numbers[i], blocks |-> blocks]
      BY <1>3, <2>3 DEF PaddlePage
    <3>2. blocks = <<lines>>
      OBVIOUS
    <3> HIDE DEF blocks, lines
    <3>3. Lists(blocks, TextLines) /\ HowMany(FlattenSeq(blocks), LinesWith(text)) = HowMany(lines, LinesWith(text))
      BY <2>1, <3>2, OnePartHolds
    <3> QED
      BY <2>1, <3>1, <3>3 DEF CollectLines, Times
  <2> QED
    BY <2>2, <2>3
<1>5. PagesOfLines(pages)
  <2>1. \A i, j \in 1..size : numbers[i] = numbers[j] => i = j
    BY <1>1 DEF ListedOnce
  <2>2. \A i \in 1..size : pages[i].number = numbers[i] /\ numbers[i] \in Nat /\ Lists(pages[i].blocks, TextLines)
    BY <1>1, <1>4
  <2>3. \A i, j \in 1..size : pages[i].number = pages[j].number => i = j
    BY <2>1, <2>2
  <2> QED
    BY <1>3, <2>2, <2>3 DEF PagesOfLines
<1>6. NumbersOf(pages) = {w[1] : w \in words}
  <2> DEFINE some == {w[1] : w \in words}
  <2>1. ListedOnce(numbers, size, some)
    BY <1>1
  <2> HIDE DEF some
  <2>2. \A i \in 1..size : pages[i].number = numbers[i] /\ numbers[i] \in some
    BY <1>4, <2>1 DEF ListedOnce
  <2>3. \A m \in some : \E i \in 1..size : numbers[i] = m
    BY <2>1 DEF ListedOnce
  <2>4. NumbersOf(pages) = some
    BY <1>3, <2>2, <2>3 DEF NumbersOf
  <2> QED
    BY <2>4 DEF some
<1> QED
  BY <1>3, <1>4, <1>5, <1>6 DEF pages

-----------------------------------------------------------------------------
(* Fusion *)

\* Lines that are all marked alike read the same.
LEMMA MarkingAllKeeps ==
  ASSUME NEW lines \in Seq(TextLines), NEW status \in LineStatus, NEW text
  PROVE  MarkedAll(lines, status) \in Seq(TextLines) /\ Times(MarkedAll(lines, status), text) = Times(lines, text)
<1> DEFINE marked == MarkedAll(lines, status)
<1>1. PICK size \in Nat : size = Len(lines) /\ DOMAIN lines = 1..size
  OBVIOUS
<1>2. \A i \in 1..size : lines[i] \in TextLines
  BY <1>1
<1>3. marked = [i \in 1..size |-> Marked(lines[i], status)]
  BY <1>1 DEF MarkedAll
<1> HIDE DEF marked
<1>4. DOMAIN marked = 1..size /\ \A i \in 1..size : marked[i] = Marked(lines[i], status)
  BY <1>3
<1>5. \A i \in 1..size : marked[i] \in TextLines /\ (marked[i] \in LinesWith(text) <=> lines[i] \in LinesWith(text))
  BY <1>2, <1>4, MarkingKeepsText
<1>6. marked \in Seq(TextLines)
  <2>1. marked \in [1..size -> TextLines]
    BY <1>3, <1>4, <1>5
  <2> QED
    BY <2>1
<1>7. HowMany(marked, LinesWith(text)) = HowMany(lines, LinesWith(text))
  BY <1>1, <1>4, <1>5, HeldAlike
<1> QED
  BY <1>6, <1>7 DEF marked, Times

\* A fused page has every text as often as the pages it is made from have it, the matched ones once.
LEMMA FusedPage ==
  ASSUME NEW primary, NEW secondary, PagesOfLines(primary), PagesOfLines(secondary), NEW n, NEW text
  PROVE  /\ FusePage(primary, secondary, n) \in Seq(TextLines)
         /\ Times(FusePage(primary, secondary, n), text)
              = Fused(Times(LinesOfPage(primary, n), text), Times(LinesOfPage(secondary, n), text))
<1> DEFINE p == LinesOfPage(primary, n)
           s == LinesOfPage(secondary, n)
<1>1. /\ p \in Seq(TextLines) /\ (n \notin NumbersOf(primary) => Times(p, text) = 0)
      /\ s \in Seq(TextLines) /\ (n \notin NumbersOf(secondary) => Times(s, text) = 0)
  BY LinesOfOnePage
<1>2. FusePage(primary, secondary, n) =
        IF n \in NumbersOf(primary) \cap NumbersOf(secondary) THEN FuseLines(p, s)
        ELSE IF n \in NumbersOf(primary) THEN MarkedAll(p, "primary_only") ELSE MarkedAll(s, "secondary_only")
  BY DEF FusePage
<1> HIDE DEF p, s
<1>3. /\ MarkedAll(p, "primary_only") \in Seq(TextLines) /\ Times(MarkedAll(p, "primary_only"), text) = Times(p, text)
      /\ MarkedAll(s, "secondary_only") \in Seq(TextLines) /\ Times(MarkedAll(s, "secondary_only"), text) = Times(s, text)
  BY <1>1, MarkingAllKeeps DEF LineStatus
<1>4. FuseLines(p, s) \in Seq(TextLines) /\ Times(FuseLines(p, s), text) = Fused(Times(p, text), Times(s, text))
  BY <1>1, FusionKeepsLines
<1>5. Times(p, text) \in Nat /\ Times(s, text) \in Nat
  BY <1>1, TimesAreCounted
<1>6. /\ FusePage(primary, secondary, n) \in Seq(TextLines)
      /\ Times(FusePage(primary, secondary, n), text) = Fused(Times(p, text), Times(s, text))
  <2>1. CASE n \in NumbersOf(primary) /\ n \in NumbersOf(secondary)
    BY <1>2, <1>4, <2>1
  <2>2. CASE n \in NumbersOf(primary) /\ n \notin NumbersOf(secondary)
    BY <1>1, <1>2, <1>3, <1>5, <2>2 DEF Fused
  <2>3. CASE n \notin NumbersOf(primary)
    BY <1>1, <1>2, <1>3, <1>5, <2>3 DEF Fused
  <2> QED
    BY <2>1, <2>2, <2>3
<1> QED
  BY <1>6 DEF p, s

\* The numbers of some pages are finitely many.
LEMMA NumbersAreFinite ==
  ASSUME NEW pages, PagesOfLines(pages)
  PROVE  NumbersOf(pages) \in SUBSET Nat /\ IsFiniteSet(NumbersOf(pages))
<1>1. PICK size \in Nat : DOMAIN pages = 1..size /\ \A i \in 1..size : pages[i].number \in Nat
  BY DEF PagesOfLines
<1> DEFINE f == [i \in 1..size |-> pages[i].number]
<1>2. NumbersOf(pages) = {f[i] : i \in 1..size}
  BY <1>1 DEF NumbersOf
<1>3. DOMAIN f = 1..size /\ \A i \in 1..size : f[i] \in Nat
  BY <1>1
<1>4. IsFiniteSet(1..size)
  <2>1. size \in Int /\ 1 \in Int
    OBVIOUS
  <2> QED
    BY <2>1, FS_Interval
<1> HIDE DEF f
<1>5. IsFiniteSet({f[i] : i \in 1..size})
  BY <1>3, <1>4, ImageIsFinite
<1> QED
  BY <1>2, <1>3, <1>5

\* The fused pages are pages of lines, and each has the lines of the fused page of its number.
LEMMA FusedPages ==
  ASSUME NEW primary, NEW secondary, PagesOfLines(primary), PagesOfLines(secondary), NEW n, NEW text
  PROVE  /\ PagesOfLines(FusePages(primary, secondary))
         /\ Times(LinesOfPage(FusePages(primary, secondary), n), text)
              = Fused(Times(LinesOfPage(primary, n), text), Times(LinesOfPage(secondary, n), text))
<1> DEFINE some == {m \in NumbersOf(primary) \cup NumbersOf(secondary) : FusePage(primary, secondary, m) # <<>>}
           numbers == InOrder(some)
           pages == FusePages(primary, secondary)
<1>1. some \in SUBSET Nat /\ IsFiniteSet(some)
  <2> DEFINE all == NumbersOf(primary) \cup NumbersOf(secondary)
  <2>1. all \in SUBSET Nat /\ IsFiniteSet(all)
    BY NumbersAreFinite, FS_Union
  <2>2. some \in SUBSET all
    OBVIOUS
  <2> HIDE DEF some, all
  <2> QED
    BY <2>1, <2>2, FS_Subset
<1>2. pages = [i \in DOMAIN numbers |-> [number |-> numbers[i], blocks |-> <<FusePage(primary, secondary, numbers[i])>>]]
  BY DEF FusePages
<1>3. ASSUME NEW m PROVE m \in some <=> m \in NumbersOf(primary) \cup NumbersOf(secondary) /\ FusePage(primary, secondary, m) # <<>>
  OBVIOUS
<1> HIDE DEF some
<1>4. PICK size \in Nat : /\ DOMAIN numbers = 1..size
                          /\ \A i \in 1..size : numbers[i] \in some /\ numbers[i] \in Nat
                          /\ ListedOnce(numbers, size, some)
  BY <1>1, InOrderOnce
<1> HIDE DEF numbers, pages
<1>5. /\ DOMAIN pages = 1..size /\ Len(pages) = size
      /\ \A i \in 1..size : /\ pages[i].number = numbers[i]
                            /\ pages[i].blocks = <<FusePage(primary, secondary, numbers[i])>>
  BY <1>2, <1>4
<1>6. ASSUME NEW i \in 1..size
      PROVE  /\ Lists(pages[i].blocks, TextLines)
             /\ Times(CollectLines(pages[i]), text) = Times(FusePage(primary, secondary, numbers[i]), text)
  <2> DEFINE lines == FusePage(primary, secondary, numbers[i])
             blocks == pages[i].blocks
  <2>1. lines \in Seq(TextLines)
    BY FusedPage
  <2>2. blocks = <<lines>>
    BY <1>5
  <2> HIDE DEF lines, blocks
  <2>3. Lists(blocks, TextLines) /\ HowMany(FlattenSeq(blocks), LinesWith(text)) = HowMany(lines, LinesWith(text))
    BY <2>1, <2>2, OnePartHolds
  <2> QED
    BY <2>3 DEF CollectLines, Times, lines, blocks
<1>7. PagesOfLines(pages)
  <2>1. \A i, j \in 1..size : numbers[i] = numbers[j] => i = j
    BY <1>4 DEF ListedOnce
  <2>2. \A i \in 1..size : pages[i].number \in Nat /\ Lists(pages[i].blocks, TextLines)
    BY <1>4, <1>5, <1>6
  <2>3. \A i, j \in 1..size : pages[i].number = pages[j].number => i = j
    BY <1>5, <2>1
  <2> QED
    BY <1>5, <2>2, <2>3 DEF PagesOfLines
<1>8. Times(LinesOfPage(pages, n), text) = Times(FusePage(primary, secondary, n), text)
  <2>1. CASE n \in some
    <3>1. PICK i \in 1..size : numbers[i] = n
      BY <1>4, <2>1 DEF ListedOnce
    <3>2. i \in DOMAIN pages /\ pages[i].number = n
      BY <1>5, <3>1
    <3>3. Times(LinesOfPage(pages, n), text) = Times(CollectLines(pages[i]), text)
      BY <1>7, <3>2, LinesOfOnePage
    <3> QED
      BY <1>6, <3>1, <3>3
  <2>2. CASE n \notin some
    <3>1. n \notin NumbersOf(pages)
      BY <1>4, <1>5, <2>2 DEF NumbersOf
    <3>2. Times(LinesOfPage(pages, n), text) = 0
      BY <1>7, <3>1, LinesOfOnePage
    <3>3. CASE n \in NumbersOf(primary) \cup NumbersOf(secondary)
      <4>1. FusePage(primary, secondary, n) = <<>>
        BY <1>3, <2>2, <3>3
      <4> QED
        BY <3>2, <4>1, EmptyHits DEF Times
    <3>4. CASE n \notin NumbersOf(primary) \cup NumbersOf(secondary)
      <4>1. Times(LinesOfPage(primary, n), text) = 0 /\ Times(LinesOfPage(secondary, n), text) = 0
        BY <3>4, LinesOfOnePage
      <4>2. Times(FusePage(primary, secondary, n), text) = Fused(0, 0)
        BY <4>1, FusedPage
      <4> QED
        BY <3>2, <4>2 DEF Fused
    <3> QED
      BY <3>3, <3>4
  <2> QED
    BY <2>1, <2>2
<1>9. Times(FusePage(primary, secondary, n), text)
        = Fused(Times(LinesOfPage(primary, n), text), Times(LinesOfPage(secondary, n), text))
  BY FusedPage
<1> QED
  BY <1>7, <1>8, <1>9 DEF pages

-----------------------------------------------------------------------------
(* Spans *)

AnySpan == [kind : {"block", "line", "word"}, page : Nat, y : SUBSET Nat, words : Seq(Nat)]

\* the spans of the lines of page n that read a text
SpansReading(n, text) == {s \in AnySpan : s.kind = "line" /\ s.page = n /\ s.words = text}

\* The spans of a line are one for the line and one for each of its words.
LEMMA LineHasOneSpan ==
  ASSUME NEW m \in Nat, NEW line \in TextLines, NEW n, NEW text
  PROVE  /\ LineSpans(m, line) \in Seq(AnySpan)
         /\ HowMany(LineSpans(m, line), SpansReading(n, text)) = IF m = n /\ line \in LinesWith(text) THEN 1 ELSE 0
<1> DEFINE one == Span("line", m, {line.y}, line.text)
           words == [i \in DOMAIN line.text |-> Span("word", m, {line.y}, <<line.text[i]>>)]
<1>1. line.y \in Nat /\ line.text \in Seq(Nat)
  BY DEF TextLines
<1>2. one \in AnySpan /\ one.kind = "line" /\ one.page = m /\ one.words = line.text
  BY <1>1 DEF Span, AnySpan
<1>3. PICK size \in Nat : DOMAIN line.text = 1..size /\ \A i \in 1..size : line.text[i] \in Nat
  BY <1>1
<1>4. ASSUME NEW i \in 1..size PROVE words[i] \in AnySpan /\ words[i].kind = "word"
  <2>1. words[i] = [kind |-> "word", page |-> m, y |-> {line.y}, words |-> <<line.text[i]>>]
    BY <1>3 DEF Span
  <2>2. <<line.text[i]>> \in Seq(Nat)
    BY <1>3
  <2> HIDE DEF words
  <2> QED
    BY <1>1, <2>1, <2>2 DEF AnySpan
<1>5. words = [i \in 1..size |-> words[i]] /\ DOMAIN words = 1..size
  BY <1>3
<1>6. LineSpans(m, line) = <<one>> \o words
  BY DEF LineSpans
<1> HIDE DEF one, words
<1>7. words \in Seq(AnySpan)
  <2>1. words \in [1..size -> AnySpan]
    BY <1>4, <1>5
  <2> QED
    BY <2>1
<1>8. HowMany(words, SpansReading(n, text)) = 0
  <2>1. {k \in DOMAIN words : words[k] \in SpansReading(n, text)} = {}
    BY <1>4, <1>5 DEF SpansReading
  <2> QED
    BY <2>1, FS_EmptySet DEF HowMany
<1>9. <<one>> \in Seq(AnySpan)
  BY <1>2
<1>10. HowMany(<<one>>, SpansReading(n, text)) = IF m = n /\ line \in LinesWith(text) THEN 1 ELSE 0
  <2>1. one \in SpansReading(n, text) <=> m = n /\ line.text = text
    BY <1>2 DEF SpansReading
  <2>2. line \in LinesWith(text) <=> line.text = text
    BY DEF LinesWith
  <2> QED
    BY <2>1, <2>2, AloneHit
<1>11. /\ <<one>> \o words \in Seq(AnySpan)
       /\ HowMany(<<one>> \o words, SpansReading(n, text)) = HowMany(<<one>>, SpansReading(n, text)) + HowMany(words, SpansReading(n, text))
  <2> DEFINE head == <<one>>
  <2>1. head \in Seq(AnySpan)
    BY <1>9
  <2> HIDE DEF head
  <2>2. /\ head \o words \in Seq(AnySpan)
        /\ HowMany(head \o words, SpansReading(n, text)) = HowMany(head, SpansReading(n, text)) + HowMany(words, SpansReading(n, text))
    BY <1>7, <2>1, JoinedHits
  <2> QED
    BY <2>2 DEF head
<1> QED
  BY <1>6, <1>8, <1>10, <1>11

\* The spans of a block are one for the block and those of its lines.
LEMMA BlockHasItsLines ==
  ASSUME NEW m \in Nat, NEW block \in Seq(TextLines), NEW n, NEW text
  PROVE  /\ BlockSpans(m, block) \in Seq(AnySpan)
         /\ m = n => HowMany(BlockSpans(m, block), SpansReading(n, text)) = Times(block, text)
         /\ m # n => HowMany(BlockSpans(m, block), SpansReading(n, text)) = 0
<1>1. CASE block = <<>>
  <2>1. BlockSpans(m, block) = <<>>
    BY <1>1 DEF BlockSpans
  <2>2. <<>> \in Seq(AnySpan)
    OBVIOUS
  <2> QED
    BY <1>1, <2>1, <2>2, EmptyHits DEF Times
<1>2. CASE block # <<>>
  <2> DEFINE R == SpansReading(n, text)
             texts == [i \in DOMAIN block |-> block[i].text]
             lines == [i \in DOMAIN block |-> LineSpans(m, block[i])]
             singles == [i \in DOMAIN block |-> <<block[i]>>]
             one == Span("block", m, {block[i].y : i \in DOMAIN block}, FlattenSeq(texts))
  <2>1. PICK size \in Nat : size = Len(block) /\ DOMAIN block = 1..size
    OBVIOUS
  <2>2. ASSUME NEW i \in 1..size PROVE block[i] \in TextLines /\ block[i].y \in Nat /\ block[i].text \in Seq(Nat)
    <3>1. block[i] \in TextLines
      BY <2>1
    <3> QED
      BY <3>1 DEF TextLines
  <2>3. Lists(texts, Nat)
    <3>1. Len(texts) = size /\ DOMAIN texts = 1..size /\ texts = [i \in DOMAIN texts |-> texts[i]]
      BY <2>1
    <3>2. \A i \in 1..size : texts[i] \in Seq(Nat)
      BY <2>1, <2>2
    <3> HIDE DEF texts
    <3> QED
      BY <3>1, <3>2 DEF Lists
  <2>4. Len(lines) = size /\ DOMAIN lines = 1..size /\ lines = [i \in DOMAIN lines |-> lines[i]]
    BY <2>1
  <2>5. \A i \in 1..size : lines[i] = LineSpans(m, block[i])
    BY <2>1
  <2>6. singles = [i \in DOMAIN block |-> <<block[i]>>]
    OBVIOUS
  <2>7. BlockSpans(m, block) = <<one>> \o FlattenSeq(lines)
    BY <1>2 DEF BlockSpans
  <2>8. one.kind = "block" /\ one \in AnySpan
    <3> DEFINE ys == {block[i].y : i \in DOMAIN block}
    <3>1. ys \in SUBSET Nat
      BY <2>1, <2>2
    <3> HIDE DEF ys, texts
    <3>2. FlattenSeq(texts) \in Seq(Nat)
      BY <2>3, JoinedType
    <3>3. Span("block", m, ys, FlattenSeq(texts)) \in AnySpan /\ Span("block", m, ys, FlattenSeq(texts)).kind = "block"
      BY <3>1, <3>2 DEF Span, AnySpan
    <3> QED
      BY <3>3 DEF ys
  <2> HIDE DEF one, lines, texts, singles
  <2>9. \A i \in 1..size : /\ lines[i] \in Seq(AnySpan)
                           /\ HowMany(lines[i], R) = IF m = n /\ block[i] \in LinesWith(text) THEN 1 ELSE 0
    <3> SUFFICES ASSUME NEW i \in 1..size
                 PROVE  lines[i] \in Seq(AnySpan) /\ HowMany(lines[i], R) = IF m = n /\ block[i] \in LinesWith(text) THEN 1 ELSE 0
      OBVIOUS
    <3>1. block[i] \in TextLines
      BY <2>2
    <3>2. /\ LineSpans(m, block[i]) \in Seq(AnySpan)
          /\ HowMany(LineSpans(m, block[i]), SpansReading(n, text)) = IF m = n /\ block[i] \in LinesWith(text) THEN 1 ELSE 0
      BY <3>1, LineHasOneSpan
    <3> QED
      BY <2>5, <3>2
  <2> HIDE DEF R
  <2>10. Lists(lines, AnySpan)
    BY <2>4, <2>9 DEF Lists
  <2>11. ASSUME m = n PROVE HowMany(FlattenSeq(lines), R) = Times(block, text)
    <3>1. Lists(singles, TextLines) /\ HowMany(FlattenSeq(singles), LinesWith(text)) = HowMany(block, LinesWith(text))
      BY <2>6, SinglesHold
    <3>2. Len(singles) = size /\ \A i \in 1..size : singles[i] = <<block[i]>>
      BY <2>1, <2>6
    <3>3. \A i \in 1..Len(lines) : HowMany(lines[i], R) = HowMany(singles[i], LinesWith(text))
      <4> SUFFICES ASSUME NEW i \in 1..Len(lines) PROVE HowMany(lines[i], R) = HowMany(singles[i], LinesWith(text))
        OBVIOUS
      <4>1. HowMany(<<block[i]>>, LinesWith(text)) = IF block[i] \in LinesWith(text) THEN 1 ELSE 0
        BY AloneHit
      <4> QED
        BY <2>4, <2>9, <2>11, <3>2, <4>1
    <3>4. HowMany(FlattenSeq(lines), R) = HowMany(FlattenSeq(singles), LinesWith(text))
      BY <2>4, <2>10, <3>1, <3>2, <3>3, JoinedAlike
    <3> QED
      BY <3>1, <3>4 DEF Times
  <2>12. ASSUME m # n PROVE HowMany(FlattenSeq(lines), R) = 0
    <3>1. \A i \in 1..Len(lines) : HowMany(lines[i], R) = 0
      BY <2>4, <2>9, <2>12
    <3> QED
      BY <2>10, <3>1, NoneHolds
  <2>13. <<one>> \in Seq(AnySpan) /\ HowMany(<<one>>, R) = 0
    <3>1. <<one>> \in Seq(AnySpan)
      BY <2>8
    <3>2. one \notin R
      BY <2>8 DEF R, SpansReading
    <3> QED
      BY <3>1, <3>2, AloneHit
  <2>14. FlattenSeq(lines) \in Seq(AnySpan)
    BY <2>10, JoinedType
  <2>15. /\ <<one>> \o FlattenSeq(lines) \in Seq(AnySpan)
         /\ HowMany(<<one>> \o FlattenSeq(lines), R) = HowMany(<<one>>, R) + HowMany(FlattenSeq(lines), R)
    <3> DEFINE head == <<one>>
               tail == FlattenSeq(lines)
    <3>1. head \in Seq(AnySpan) /\ tail \in Seq(AnySpan)
      BY <2>13, <2>14
    <3> HIDE DEF head, tail
    <3>2. head \o tail \in Seq(AnySpan) /\ HowMany(head \o tail, R) = HowMany(head, R) + HowMany(tail, R)
      BY <3>1, JoinedHits
    <3> QED
      BY <3>2 DEF head, tail
  <2>16. HowMany(FlattenSeq(lines), R) \in Nat
    BY <2>14, PlacesOfSequence
  <2> QED
    BY <2>7, <2>11, <2>12, <2>13, <2>15, <2>16 DEF R
<1> QED
  BY <1>1, <1>2

\* the spans of some pages
SpansOf(pages) ==
    FlattenSeq([p \in DOMAIN pages |->
       FlattenSeq([b \in DOMAIN pages[p].blocks |-> BlockSpans(pages[p].number, pages[p].blocks[b])])])

\* The spans of a result hold every line of a page as often as the page does.
LEMMA SpansHoldTheLines ==
  ASSUME NEW pages, PagesOfLines(pages), NEW n, NEW text
  PROVE  /\ SpansOf(pages) \in Seq(AnySpan)
         /\ HowMany(SpansOf(pages), SpansReading(n, text)) = Times(LinesOfPage(pages, n), text)
<1> DEFINE R == SpansReading(n, text)
           blocks(p) == [b \in DOMAIN pages[p].blocks |-> BlockSpans(pages[p].number, pages[p].blocks[b])]
           parts == [p \in DOMAIN pages |-> FlattenSeq(blocks(p))]
           lines == [i \in DOMAIN pages |-> IF pages[i].number = n THEN CollectLines(pages[i]) ELSE <<>>]
<1>1. PICK size \in Nat : size = Len(pages) /\ DOMAIN pages = 1..size
  BY DEF PagesOfLines
<1>2. \A p \in 1..size : pages[p].number \in Nat /\ Lists(pages[p].blocks, TextLines)
  BY <1>1 DEF PagesOfLines
<1>3. SpansOf(pages) = FlattenSeq(parts) /\ LinesOfPage(pages, n) = FlattenSeq(lines)
  BY DEF SpansOf, LinesOfPage
<1>4. ASSUME NEW p \in 1..size
      PROVE  /\ FlattenSeq(blocks(p)) \in Seq(AnySpan)
             /\ pages[p].number = n => HowMany(FlattenSeq(blocks(p)), R) = Times(CollectLines(pages[p]), text)
             /\ pages[p].number # n => HowMany(FlattenSeq(blocks(p)), R) = 0
  <2> DEFINE from == pages[p].blocks
             m == pages[p].number
             made_ == blocks(p)
  <2>1. Lists(from, TextLines) /\ m \in Nat
    BY <1>2
  <2>2. made_ = [b \in DOMAIN from |-> BlockSpans(m, from[b])]
    OBVIOUS
  <2> HIDE DEF from, m, made_
  <2>3. PICK count \in Nat : count = Len(from) /\ DOMAIN from = 1..count /\ \A b \in 1..count : from[b] \in Seq(TextLines)
    BY <2>1 DEF Lists
  <2>4. /\ DOMAIN made_ = 1..count /\ Len(made_) = count /\ made_ = [b \in DOMAIN made_ |-> made_[b]]
        /\ \A b \in 1..count : made_[b] = BlockSpans(m, from[b])
    BY <2>2, <2>3
  <2>5. \A b \in 1..count : /\ made_[b] \in Seq(AnySpan)
                            /\ m = n => HowMany(made_[b], R) = HowMany(from[b], LinesWith(text))
                            /\ m # n => HowMany(made_[b], R) = 0
    BY <2>1, <2>3, <2>4, BlockHasItsLines DEF Times
  <2> HIDE DEF R
  <2>6. Lists(made_, AnySpan)
    BY <2>4, <2>5 DEF Lists
  <2>7. FlattenSeq(made_) \in Seq(AnySpan)
    BY <2>6, JoinedType
  <2>8. ASSUME m = n PROVE HowMany(FlattenSeq(made_), R) = HowMany(FlattenSeq(from), LinesWith(text))
    <3>1. \A b \in 1..Len(made_) : HowMany(made_[b], R) = HowMany(from[b], LinesWith(text))
      BY <2>4, <2>5, <2>8
    <3>2. Len(made_) = Len(from)
      BY <2>3, <2>4
    <3> QED
      BY <2>1, <2>6, <3>1, <3>2, JoinedAlike
  <2>9. ASSUME m # n PROVE HowMany(FlattenSeq(made_), R) = 0
    <3>1. \A b \in 1..Len(made_) : HowMany(made_[b], R) = 0
      BY <2>4, <2>5, <2>9
    <3> QED
      BY <2>6, <3>1, NoneHolds
  <2> QED
    BY <2>7, <2>8, <2>9 DEF made_, from, m, Times, CollectLines
<1> HIDE DEF R
<1>5. /\ DOMAIN parts = 1..size /\ Len(parts) = size /\ parts = [i \in DOMAIN parts |-> parts[i]]
      /\ \A p \in 1..size : parts[p] = FlattenSeq(blocks(p))
  BY <1>1
<1>6. /\ DOMAIN lines = 1..size /\ Len(lines) = size /\ lines = [i \in DOMAIN lines |-> lines[i]]
      /\ \A p \in 1..size : lines[p] = IF pages[p].number = n THEN CollectLines(pages[p]) ELSE <<>>
  BY <1>1
<1> HIDE DEF parts, lines, blocks
<1>7. Lists(parts, AnySpan)
  BY <1>4, <1>5 DEF Lists
<1>8. Lists(lines, TextLines)
  <2>1. \A p \in 1..size : CollectLines(pages[p]) \in Seq(TextLines)
    BY <1>1, LinesOfOnePage
  <2>2. <<>> \in Seq(TextLines)
    OBVIOUS
  <2>3. \A p \in 1..size : lines[p] \in Seq(TextLines)
    BY <1>6, <2>1, <2>2
  <2> QED
    BY <1>6, <2>3 DEF Lists
<1>9. \A p \in 1..size : HowMany(parts[p], R) = HowMany(lines[p], LinesWith(text))
  <2> SUFFICES ASSUME NEW p \in 1..size PROVE HowMany(parts[p], R) = HowMany(lines[p], LinesWith(text))
    OBVIOUS
  <2>1. CASE pages[p].number = n
    BY <1>4, <1>5, <1>6, <2>1 DEF Times
  <2>2. CASE pages[p].number # n
    <3>1. lines[p] = <<>>
      BY <1>6, <2>2
    <3> QED
      BY <1>4, <1>5, <2>2, <3>1, EmptyHits
  <2> QED
    BY <2>1, <2>2
<1>10. HowMany(FlattenSeq(parts), R) = HowMany(FlattenSeq(lines), LinesWith(text))
  <2>1. Len(parts) = Len(lines) /\ \A p \in 1..Len(parts) : HowMany(parts[p], R) = HowMany(lines[p], LinesWith(text))
    BY <1>5, <1>6, <1>9
  <2> QED
    BY <1>7, <1>8, <2>1, JoinedAlike
<1>11. FlattenSeq(parts) \in Seq(AnySpan)
  BY <1>7, JoinedType
<1> QED
  BY <1>3, <1>10, <1>11 DEF R, Times

-----------------------------------------------------------------------------
(* Results *)

\* on how many lines of page n an engine read a text
Reads(words, n, text) == Cardinality(LinesReading(words, n, text))

\* What an engine read on a page are the lines of that page in its result.
LEMMA EngineReads ==
  ASSUME NEW words \in SUBSET Printed, NEW engine, NEW n, NEW text
  PROVE  /\ PagesOfLines(PagesOf(engine, words))
         /\ Times(LinesOfPage(PagesOf(engine, words), n), text) = Reads(words, n, text)
         /\ Reads(words, n, text) \in Nat
         /\ Reads(words, n, text) = 0 <=> LinesReading(words, n, text) = {}
<1> DEFINE pages == PagesOf(engine, words)
<1>1. PagesOfLines(pages) /\ NumbersOf(pages) = {w[1] : w \in words}
  BY EnginePages
<1>2. \A i \in DOMAIN pages : Times(CollectLines(pages[i]), text) = Reads(words, pages[i].number, text)
  BY EnginePages DEF Reads
<1>3. IsFiniteSet(LinesOn(words, n)) /\ (LinesOn(words, n) # {} <=> n \in {w[1] : w \in words})
  BY WordsOnPage
<1>4. LinesReading(words, n, text) \in SUBSET LinesOn(words, n)
  BY DEF LinesReading
<1>5. IsFiniteSet(LinesReading(words, n, text))
  BY <1>3, <1>4, FS_Subset
<1>6. Reads(words, n, text) \in Nat /\ (Reads(words, n, text) = 0 <=> LinesReading(words, n, text) = {})
  BY <1>5, FS_CardinalityType, FS_EmptySet DEF Reads
<1> HIDE DEF pages
<1>7. CASE n \in NumbersOf(pages)
  <2>1. PICK i \in DOMAIN pages : pages[i].number = n
    BY <1>7 DEF NumbersOf
  <2>2. Times(LinesOfPage(pages, n), text) = Times(CollectLines(pages[i]), text)
    BY <1>1, <2>1, LinesOfOnePage
  <2> QED
    BY <1>1, <1>2, <1>6, <2>1, <2>2 DEF pages
<1>8. CASE n \notin NumbersOf(pages)
  <2>1. Times(LinesOfPage(pages, n), text) = 0
    BY <1>1, <1>8, LinesOfOnePage
  <2>2. LinesOn(words, n) = {}
    BY <1>1, <1>3, <1>8
  <2> QED
    BY <1>1, <1>4, <1>6, <2>1, <2>2 DEF pages
<1> QED
  BY <1>7, <1>8

\* An engine that did not run made nothing out.
LEMMA NothingRead ==
  ASSUME NEW n, NEW text
  PROVE  Reads({}, n, text) = 0
<1>1. LinesReading({}, n, text) = {}
  BY DEF LinesReading, LinesOn
<1> QED
  BY <1>1, FS_EmptySet DEF Reads

\* what of the two engines ran for a result
RanFor(e) == e # "fusion" => \A f \in Single \ {e} : made[f] = {}

\* The lines of a result are what the engines made out, a line both made out once.
LEMMA ResultHolds ==
  ASSUME made \in [Single -> SUBSET Printed], NEW e \in EngineNames, RanFor(e), Run(e, made) # NoPages, NEW n, NEW text
  PROVE  /\ PagesOfLines(Run(e, made))
         /\ Times(LinesOfPage(Run(e, made), n), text)
              = Fused(Reads(made["tesseract"], n, text), Reads(made["paddle"], n, text))
<1> DEFINE t == made["tesseract"]
           p == made["paddle"]
           tPages == PagesOf("tesseract", t)
           pPages == PagesOf("paddle", p)
<1>1. t \in SUBSET Printed /\ p \in SUBSET Printed
  BY DEF Single
<1>2. /\ PagesOfLines(tPages) /\ Times(LinesOfPage(tPages, n), text) = Reads(t, n, text) /\ Reads(t, n, text) \in Nat
      /\ PagesOfLines(pPages) /\ Times(LinesOfPage(pPages, n), text) = Reads(p, n, text) /\ Reads(p, n, text) \in Nat
  <2> HIDE DEF t, p
  <2> QED
    BY <1>1, EngineReads
<1>3. \A pages : CheckedResult(pages) # NoPages => CheckedResult(pages) = pages
  BY DEF CheckedResult
<1>4. e \in {"tesseract", "paddle", "fusion"}
  BY DEF EngineNames, Single
<1>5. CASE e = "tesseract"
  <2>1. Run(e, made) = CheckedResult(tPages)
    BY <1>5 DEF Run
  <2>2. Run(e, made) = tPages
    BY <1>3, <2>1
  <2>3. p = {}
    BY <1>5 DEF RanFor, Single
  <2> HIDE DEF t, p, tPages, pPages
  <2>4. Reads(p, n, text) = 0
    BY <2>3, NothingRead
  <2> QED
    BY <1>2, <2>2, <2>4 DEF Fused, t, p
<1>6. CASE e = "paddle"
  <2>1. Run(e, made) = CheckedResult(pPages)
    BY <1>6 DEF Run
  <2>2. Run(e, made) = pPages
    BY <1>3, <2>1
  <2>3. t = {}
    BY <1>6 DEF RanFor, Single
  <2> HIDE DEF t, p, tPages, pPages
  <2>4. Reads(t, n, text) = 0
    BY <2>3, NothingRead
  <2> QED
    BY <1>2, <2>2, <2>4 DEF Fused, t, p
<1>7. CASE e = "fusion"
  <2>1. Run(e, made) = Fuse(CheckedResult(tPages), CheckedResult(pPages))
    BY <1>7 DEF Run
  <2> HIDE DEF t, p, tPages, pPages
  <2>2. CheckedResult(tPages) # NoPages /\ CheckedResult(pPages) # NoPages
    BY <2>1 DEF Fuse
  <2>3. Run(e, made) = CheckedResult(FusePages(tPages, pPages))
    BY <1>3, <2>1, <2>2 DEF Fuse
  <2>4. Run(e, made) = FusePages(tPages, pPages)
    BY <1>3, <2>3
  <2>5. /\ PagesOfLines(FusePages(tPages, pPages))
        /\ Times(LinesOfPage(FusePages(tPages, pPages), n), text)
             = Fused(Times(LinesOfPage(tPages, n), text), Times(LinesOfPage(pPages, n), text))
    BY <1>2, FusedPages
  <2> QED
    BY <1>2, <2>4, <2>5 DEF t, p
<1> QED
  BY <1>4, <1>5, <1>6, <1>7

OcrInv ==
    /\ ocrEngines \in Seq(EngineNames)
    /\ made \in [Single -> SUBSET Printed]
    /\ recognised # NoPages => \E e \in EngineNames : RanFor(e) /\ recognised = Run(e, made)
    /\ spans # <<>> => recognised # NoPages /\ spans = SpansOf(recognised)

\* A fusion never has a text less often than the engine that read it more often, and has a text
\* both read once once.
LEMMA FusedIsEnough ==
  ASSUME NEW a \in Nat, NEW b \in Nat, a # 0 \/ b # 0
  PROVE  /\ Fused(a, b) >= Max({a, b})
         /\ {a, b} \subseteq {0, 1} => Fused(a, b) = 1
<1>1. Max({a, b}) \in {a, b}
  <2>1. \E x \in {a, b} : \A y \in {a, b} : x >= y
    <3>1. CASE a >= b
      BY <3>1
    <3>2. CASE b >= a
      BY <3>2
    <3> QED
      BY <3>1, <3>2
  <2> QED
    BY <2>1 DEF Max
<1>2. Fused(a, b) >= a /\ Fused(a, b) >= b
  BY DEF Fused
<1>3. {a, b} \subseteq {0, 1} => Fused(a, b) = 1
  BY DEF Fused
<1> QED
  BY <1>1, <1>2, <1>3

\* What the invariant says of the lines of a result is that none is lost.
LEMMA LinesAreKept == OcrInv => NothingReadIsLost
<1> SUFFICES ASSUME OcrInv, spans # <<>>,
                    NEW n \in {w[1] : w \in Printed}, NEW e \in Single, NEW l \in LinesOn(made[e], n)
             PROVE  LET text == ReadLine(made[e], n, l).text
                        times == Cardinality({i \in DOMAIN spans : spans[i].kind = "line" /\ spans[i].page = n /\ spans[i].words = text})
                        reads == {ReadTimes(f, n, text) : f \in Single}
                    IN  /\ times >= Max(reads)
                        /\ reads \subseteq {0, 1} => times = 1
  BY DEF NothingReadIsLost
<1> DEFINE text == ReadLine(made[e], n, l).text
           times == Cardinality({i \in DOMAIN spans : spans[i].kind = "line" /\ spans[i].page = n /\ spans[i].words = text})
           reads == {ReadTimes(f, n, text) : f \in Single}
           a == Reads(made["tesseract"], n, text)
           b == Reads(made["paddle"], n, text)
<1>1. PICK engine \in EngineNames : RanFor(engine) /\ recognised = Run(engine, made)
  BY DEF OcrInv
<1>2. made \in [Single -> SUBSET Printed] /\ Run(engine, made) # NoPages /\ spans = SpansOf(recognised)
  BY <1>1 DEF OcrInv
<1>3. \A f : ReadTimes(f, n, text) = Reads(made[f], n, text)
  BY DEF ReadTimes, Reads, LinesReading
<1>4. reads = {a, b}
  <2> HIDE DEF text
  <2> QED
    BY <1>3 DEF Single
<1>5. l \in LinesReading(made[e], n, text)
  BY DEF LinesReading
<1> HIDE DEF text
<1>6. times = HowMany(spans, SpansReading(n, text)) /\ times = Fused(a, b)
  <2>1. PagesOfLines(recognised) /\ Times(LinesOfPage(recognised, n), text) = Fused(a, b)
    BY <1>1, <1>2, ResultHolds
  <2>2. spans \in Seq(AnySpan) /\ HowMany(spans, SpansReading(n, text)) = Fused(a, b)
    BY <1>2, <2>1, SpansHoldTheLines
  <2>3. \A i \in DOMAIN spans : spans[i] \in AnySpan
    BY <2>2
  <2>4. {i \in DOMAIN spans : spans[i].kind = "line" /\ spans[i].page = n /\ spans[i].words = text}
          = {i \in DOMAIN spans : spans[i] \in SpansReading(n, text)}
    BY <2>3 DEF SpansReading
  <2> QED
    BY <2>2, <2>4 DEF HowMany
<1>7. a \in Nat /\ b \in Nat /\ (a # 0 \/ b # 0)
  <2>1. made["tesseract"] \in SUBSET Printed /\ made["paddle"] \in SUBSET Printed /\ e \in {"tesseract", "paddle"}
    BY <1>2 DEF Single
  <2>2. /\ a \in Nat /\ (a = 0 <=> LinesReading(made["tesseract"], n, text) = {})
        /\ b \in Nat /\ (b = 0 <=> LinesReading(made["paddle"], n, text) = {})
    BY <2>1, EngineReads
  <2> QED
    BY <1>5, <2>1, <2>2
<1> HIDE DEF a, b, times, reads
<1>8. times >= Max(reads) /\ (reads \subseteq {0, 1} => times = 1)
  BY <1>4, <1>6, <1>7, FusedIsEnough
<1> QED
  BY <1>8 DEF times, reads, text

\* The invariant holds at the start.
LEMMA OcrBegins == OcrInit => OcrInv
<1> SUFFICES ASSUME OcrInit PROVE OcrInv
  OBVIOUS
<1>1. ocrEngines \in Seq(EngineNames)
  BY DEF OcrInit, EngineNames, Single
<1>2. made \in [Single -> SUBSET Printed]
  BY DEF OcrInit
<1> QED
  BY <1>1, <1>2 DEF OcrInit, OcrInv

\* A step that leaves the result alone keeps the invariant.
LEMMA ResultStays ==
  ASSUME OcrInv, ocrEngines' \in Seq(EngineNames), UNCHANGED <<made, recognised, spans>>
  PROVE  OcrInv'
<1>1. \A e : RanFor(e)' = RanFor(e)
  BY DEF RanFor
<1>2. \A e : Run(e, made)' = Run(e, made)
  BY DEF Run
<1>3. SpansOf(recognised)' = SpansOf(recognised)
  BY DEF SpansOf
<1> QED
  BY <1>1, <1>2, <1>3 DEF OcrInv

\* A recognition keeps the invariant.
LEMMA RecogniseKeeps ==
  ASSUME OcrInv, NEW e, Recognise(e)
  PROVE  OcrInv'
<1>1. PICK words \in [Single -> SUBSET Printed] :
         /\ e # "fusion" => \A f \in Single \ {e} : words[f] = {}
         /\ recognised' = Run(e, words)
         /\ made' = IF recognised' = NoPages THEN made ELSE words
  BY DEF Recognise
<1>2. Registered(e) /\ recognised = NoPages /\ UNCHANGED <<ocrEngines, defaultEngine, spans>>
  BY DEF Recognise
<1>3. e \in EngineNames
  BY <1>2 DEF Registered, OcrInv
<1>4. spans' = <<>> /\ ocrEngines' \in Seq(EngineNames)
  BY <1>2 DEF OcrInv
<1>5. made' \in [Single -> SUBSET Printed]
  BY <1>1 DEF OcrInv
<1>6. recognised' # NoPages => RanFor(e)' /\ recognised' = Run(e, made)'
  <2> SUFFICES ASSUME recognised' # NoPages PROVE RanFor(e)' /\ recognised' = Run(e, made)'
    OBVIOUS
  <2>1. made' = words
    BY <1>1
  <2>2. Run(e, made)' = Run(e, words)
    BY <2>1 DEF Run
  <2> QED
    BY <1>1, <2>1, <2>2 DEF RanFor
<1> QED
  BY <1>3, <1>4, <1>5, <1>6 DEF OcrInv

\* Every step keeps the invariant.
LEMMA OcrPreserved == OcrInv /\ [OcrNext]_ocrVars => OcrInv'
<1> SUFFICES ASSUME OcrInv, [OcrNext]_ocrVars PROVE OcrInv'
  OBVIOUS
<1>1. ocrEngines \in Seq(EngineNames)
  BY DEF OcrInv
<1>2. ASSUME NEW e \in EngineNames, RegisterEngine(e) PROVE OcrInv'
  <2>1. ocrEngines' \in Seq(EngineNames)
    BY <1>1, <1>2 DEF RegisterEngine
  <2> QED
    BY <1>2, <2>1, ResultStays DEF RegisterEngine
<1>3. ASSUME NEW e \in EngineNames, UnregisterEngine(e) PROVE OcrInv'
  <2> DEFINE kept == {i \in DOMAIN ocrEngines : ocrEngines[i] # e}
  <2>1. ocrEngines' = AtPlaces(ocrEngines, kept) /\ UNCHANGED <<made, recognised, spans>>
    BY <1>3 DEF UnregisterEngine
  <2>2. kept \in SUBSET DOMAIN ocrEngines
    OBVIOUS
  <2> HIDE DEF kept
  <2>3. AtPlaces(ocrEngines, kept) \in Seq(EngineNames)
    BY <1>1, <2>2, AtPlacesKeepsOrder
  <2> QED
    BY <2>1, <2>3, ResultStays
<1>4. ASSUME NEW e \in EngineNames, SetDefaultEngine(e) PROVE OcrInv'
  BY <1>1, <1>4, ResultStays DEF SetDefaultEngine
<1>5. CASE RecogniseByDefault
  BY <1>5, RecogniseKeeps DEF RecogniseByDefault
<1>6. CASE RecogniseByName
  BY <1>6, RecogniseKeeps DEF RecogniseByName
<1>7. CASE BuildSpans
  <2>1. UNCHANGED <<ocrEngines, defaultEngine, made, recognised>> /\ recognised # NoPages /\ spans' = SpansOf(recognised)
    BY <1>7 DEF BuildSpans, SpansOf
  <2>2. \A e : RanFor(e)' = RanFor(e) /\ Run(e, made)' = Run(e, made)
    BY <2>1 DEF RanFor, Run
  <2>3. SpansOf(recognised)' = SpansOf(recognised)
    BY <2>1 DEF SpansOf
  <2> QED
    BY <2>1, <2>2, <2>3 DEF OcrInv
<1>8. CASE UNCHANGED ocrVars
  BY <1>1, <1>8, ResultStays DEF ocrVars
<1> QED
  BY <1>2, <1>3, <1>4, <1>5, <1>6, <1>7, <1>8 DEF OcrNext

\* Every line an engine made out is a span of its page, for all documents and whichever words the
\* engines make out: none is lost when two readings of a page are joined line by line, however
\* often a text is repeated on it.
THEOREM NothingReadGetsLost == OcrSpec => []NothingReadIsLost
<1> QED
  BY OcrBegins, OcrPreserved, LinesAreKept, PTL DEF OcrSpec

-----------------------------------------------------------------------------
(* Types *)

\* In the knowledge build facts and evidence are of the candidates at hand.
LEMMA KnowledgeTyped == KnowledgeSpec => []KnowledgeTypeOK
<1>1. KnowledgeInit => KnowledgeInv
  BY DEF KnowledgeInit, KnowledgeInv, Unbuilt
<1>2. KnowledgeInv => KnowledgeTypeOK
  <2> SUFFICES ASSUME KnowledgeInv PROVE KnowledgeTypeOK
    OBVIOUS
  <2>1. \A c : BuildFact(c).of = c /\ BuildEvidence(c).of = c
    BY DEF BuildFact, BuildEvidence
  <2>2. \A f \in built.facts : f.of \in pile
    BY <2>1 DEF KnowledgeInv
  <2>3. {BuildEvidence(c).of : c \in pile} = pile
    BY <2>1
  <2>4. {e.of : e \in {BuildEvidence(c) : c \in pile}} = {BuildEvidence(c).of : c \in pile}
    OBVIOUS
  <2>5. {e.of : e \in {}} = {}
    OBVIOUS
  <2>6. {e.of : e \in built.evidence} \in {{}, pile}
    BY <2>3, <2>4, <2>5 DEF KnowledgeInv
  <2> QED
    BY <2>2, <2>6 DEF KnowledgeInv, KnowledgeTypeOK
<1> QED
  BY <1>1, <1>2, KnowledgePreserved, PTL DEF KnowledgeSpec

\* In the machine readable zone every character is one of the alphabet.
LEMMA ZoneTyped == MrzSpec => []MrzTypeOK
<1>1. MrzInv => MrzTypeOK
  <2> SUFFICES ASSUME MrzInv PROVE MrzTypeOK
    OBVIOUS
  <2>1. CASE zone.kind = "none" /\ zone.lines = <<>> /\ reading = <<>>
    BY <2>1 DEF MrzInv, MrzTypeOK
  <2>2. ASSUME zone.kind \in MrzKind, NEW birth \in PrintedDates, NEW expiry \in PrintedDates, NEW offset \in {0, 1},
               IsZone(zone.kind, zone.lines, birth, expiry), ReadAs(offset, reading, zone.lines, misread)
        PROVE  MrzTypeOK
    <3>1. zone.lines \in Seq(Seq(0..Filler)) /\ reading \in Seq(Seq(0..Filler))
      BY <2>2 DEF IsZone, ReadAs, Cells
    <3>2. parsed = Unparsed \/ parsed.status \in MrzStatus
      BY DEF MrzInv
    <3>3. \A k \in DOMAIN zone.lines : zone.lines[k] \in Seq(0..Filler)
      BY <3>1
    <3>4. \A k \in DOMAIN reading : reading[k] \in Seq(0..Filler)
      BY <3>1
    <3> QED
      BY <2>2, <3>2, <3>3, <3>4 DEF MrzTypeOK
  <2> QED
    BY <2>1, <2>2 DEF MrzInv
<1> QED
  BY <1>1, MrzBegins, MrzPreserved, PTL DEF MrzSpec

-----------------------------------------------------------------------------
(* Extraction *)

\* Nothing is saved before the end, and no more than there are candidates.
SavedInv == work.saved \in Nat /\ work.saved <= Cardinality(work.candidates) /\ (work.pc # "done" => work.saved = 0)

\* The steps of the extraction handler count no candidate twice.
LEMMA SavedKept == ExtractionInv /\ SavedInv /\ [ExtractionNext]_extractionVars => SavedInv'
<1> SUFFICES ASSUME ExtractionInv, SavedInv, [ExtractionNext]_extractionVars PROVE SavedInv'
  OBVIOUS
<1>0. /\ work = [pc |-> work.pc, candidates |-> work.candidates, pending |-> work.pending,
               saved |-> work.saved, noise |-> work.noise, failed |-> work.failed, skipped |-> work.skipped]
      /\ IsFiniteSet(work.candidates)
  BY DEF ExtractionInv, Claimable
<1>1. CASE TakeSheet
  <2>1. work'.saved = 0 /\ work'.candidates = {}
    BY <1>1 DEF TakeSheet, Nothing
  <2> QED
    BY <2>1, FS_EmptySet DEF SavedInv
<1>2. CASE ExtractSheet
  <2>1. work'.saved = 0 /\ work'.candidates = Accepted(RawCandidates)
    BY <1>0, <1>2 DEF ExtractSheet, SavedInv
  <2>2. ExtractionInv'
    BY <1>2, ExtractionPreserved DEF ExtractionNext
  <2>3. Cardinality(work'.candidates) \in Nat
    BY <2>2, FS_CardinalityType DEF ExtractionInv, Claimable
  <2> QED
    BY <2>1, <2>3 DEF SavedInv
<1>3. ASSUME NEW saved \in 0..12, SaveCases(saved) PROVE SavedInv'
  <2>1. work'.saved = saved /\ work'.candidates = work.candidates /\ work'.pc = "done" /\ saved <= Cardinality(work.candidates)
    BY <1>0, <1>3 DEF SaveCases
  <2> QED
    BY <2>1 DEF SavedInv
<1>4. CASE FailExtraction \/ SkipCases \/ SkipNoise \/ \E stored \in BOOLEAN : KeepNoise(stored)
  <2>1. CASE FailExtraction
    BY <1>0, <2>1 DEF FailExtraction, SavedInv
  <2>2. CASE SkipCases \/ SkipNoise
    BY <1>0, <2>2 DEF SkipCases, SkipNoise, GivesUp, SavedInv
  <2>3. ASSUME NEW stored \in BOOLEAN, KeepNoise(stored) PROVE SavedInv'
    <3>1. work'.saved = work.saved /\ work'.candidates = work.candidates /\ work'.pc = "done"
      BY <1>0, <2>3 DEF KeepNoise
    <3> QED
      BY <3>1 DEF SavedInv
  <2> QED
    BY <1>4, <2>1, <2>2, <2>3
<1>5. CASE UNCHANGED extractionVars
  BY <1>5 DEF extractionVars, SavedInv
<1> QED
  BY <1>1, <1>2, <1>3, <1>4, <1>5 DEF ExtractionNext

\* The work of the extraction handler keeps its type.
LEMMA ExtractionTyped == ExtractionSpec => []ExtractionTypeOK
<1>1. ExtractionInit => ExtractionInv
  BY OneIsClaimable DEF ExtractionInit, Nothing, ExtractionInv, PagesEndSomewhere
<1>2. ExtractionInit => SavedInv
  BY FS_EmptySet DEF ExtractionInit, Nothing, SavedInv
<1>3. ExtractionInv /\ SavedInv => ExtractionTypeOK
  <2> SUFFICES ASSUME ExtractionInv, SavedInv PROVE ExtractionTypeOK
    OBVIOUS
  <2>1. Cardinality(work.candidates) \in Nat
    BY FS_CardinalityType DEF ExtractionInv, Claimable
  <2> QED
    BY <2>1 DEF ExtractionInv, SavedInv, Claimable, ExtractionTypeOK
<1> QED
  BY <1>1, <1>2, <1>3, ExtractionPreserved, SavedKept, PTL DEF ExtractionSpec

-----------------------------------------------------------------------------
(* Recognition of text *)

\* Each engine is registered once, the default among them.
Distinct(engines) == \A i, j \in DOMAIN engines : engines[i] = engines[j] => i = j
Holds(engines, e) == \E i \in DOMAIN engines : engines[i] = e
RegistryInv == ocrEngines \in Seq(EngineNames) /\ Distinct(ocrEngines) /\ Holds(ocrEngines, defaultEngine)

\* Without one engine of several the registry holds the others, each once.
LEMMA OthersStay ==
  ASSUME NEW engines \in Seq(EngineNames), Distinct(engines), NEW e, Len(engines) > 1
  PROVE  LET left == AtPlaces(engines, {i \in DOMAIN engines : engines[i] # e}) IN
         /\ left \in Seq(EngineNames) /\ Distinct(left) /\ Holds(left, Head(left))
         /\ \A f : f # e /\ Holds(engines, f) => Holds(left, f)
<1> DEFINE kept == {i \in DOMAIN engines : engines[i] # e}
           left == AtPlaces(engines, kept)
           size == Cardinality(kept)
           order == InOrder(kept)
<1>1. /\ left \in Seq(EngineNames) /\ size \in Nat /\ order \in [1..size -> kept]
      /\ \A k, m \in 1..size : k < m => order[k] < order[m]
      /\ kept = {order[k] : k \in 1..size}
  <2>1. kept \in SUBSET DOMAIN engines
    OBVIOUS
  <2> HIDE DEF kept
  <2> QED
    BY <2>1, AtPlacesKeepsOrder
<1>2. DOMAIN left = 1..size /\ \A k \in 1..size : left[k] = engines[order[k]]
  BY DEF AtPlaces
<1>3. \A k \in 1..size : order[k] \in kept /\ order[k] \in DOMAIN engines
  BY <1>1
<1>4. DOMAIN engines \subseteq Nat /\ 1 \in DOMAIN engines /\ 2 \in DOMAIN engines
  OBVIOUS
<1>5. \E i \in DOMAIN engines : engines[i] # e
  <2>1. engines[1] # engines[2]
    BY <1>4 DEF Distinct
  <2> QED
    BY <1>4, <2>1
<1>6. \A f : f # e /\ Holds(engines, f) => Holds(left, f)
  <2> SUFFICES ASSUME NEW f, f # e, Holds(engines, f) PROVE Holds(left, f)
    OBVIOUS
  <2>1. PICK i \in DOMAIN engines : engines[i] = f
    BY DEF Holds
  <2>2. i \in kept
    BY <2>1
  <2> HIDE DEF kept
  <2>3. PICK k \in 1..size : order[k] = i
    BY <1>1, <2>2
  <2> HIDE DEF left, order, size
  <2> QED
    BY <1>2, <2>1, <2>3 DEF Holds
<1>7. kept # {}
  BY <1>5
<1> HIDE DEF kept, left, size, order
<1>8. Distinct(left)
  <2> SUFFICES ASSUME NEW k \in 1..size, NEW m \in 1..size, left[k] = left[m], k # m PROVE FALSE
    BY <1>2 DEF Distinct
  <2>1. order[k] = order[m]
    BY <1>2, <1>3 DEF Distinct
  <2>2. order[k] \in Nat
    BY <1>3, <1>4
  <2>3. k < m => order[k] < order[m]
    BY <1>1
  <2>4. m < k => order[m] < order[k]
    BY <1>1
  <2>5. k < m \/ m < k
    BY <1>1
  <2> QED
    BY <2>1, <2>2, <2>3, <2>4, <2>5
<1>9. Holds(left, Head(left))
  <2>1. 1 \in 1..size
    BY <1>1, <1>7
  <2>2. Head(left) = left[1]
    BY <1>1, <1>2, <2>1
  <2> QED
    BY <1>2, <2>1, <2>2 DEF Holds
<1> QED
  BY <1>1, <1>6, <1>8, <1>9 DEF left, kept

\* Every step keeps each engine registered once, the default among them.
LEMMA RegistryKept == RegistryInv /\ [OcrNext]_ocrVars => RegistryInv'
<1> SUFFICES ASSUME RegistryInv, [OcrNext]_ocrVars PROVE RegistryInv'
  OBVIOUS
<1>1. ocrEngines \in Seq(EngineNames) /\ Distinct(ocrEngines) /\ Holds(ocrEngines, defaultEngine)
  BY DEF RegistryInv
<1>2. ASSUME NEW e \in EngineNames, RegisterEngine(e) PROVE RegistryInv'
  <2>1. ocrEngines' = Append(ocrEngines, e) /\ defaultEngine' = defaultEngine /\ \A i \in DOMAIN ocrEngines : ocrEngines[i] # e
    BY <1>2 DEF RegisterEngine, Registered
  <2>2. /\ ocrEngines' \in Seq(EngineNames) /\ DOMAIN ocrEngines' = DOMAIN ocrEngines \cup {Len(ocrEngines) + 1}
        /\ ocrEngines'[Len(ocrEngines) + 1] = e /\ \A i \in DOMAIN ocrEngines : ocrEngines'[i] = ocrEngines[i]
    BY <1>1, <2>1
  <2>3. Distinct(ocrEngines')
    BY <1>1, <2>1, <2>2 DEF Distinct
  <2>4. Holds(ocrEngines', defaultEngine')
    BY <1>1, <2>1, <2>2 DEF Holds
  <2> QED
    BY <2>2, <2>3, <2>4 DEF RegistryInv
<1>3. ASSUME NEW e \in EngineNames, UnregisterEngine(e) PROVE RegistryInv'
  <2> DEFINE left == AtPlaces(ocrEngines, {i \in DOMAIN ocrEngines : ocrEngines[i] # e})
  <2>1. ocrEngines' = left /\ Len(ocrEngines) > 1 /\ defaultEngine' = IF e = defaultEngine THEN Head(left) ELSE defaultEngine
    BY <1>3 DEF UnregisterEngine
  <2>2. /\ left \in Seq(EngineNames) /\ Distinct(left) /\ Holds(left, Head(left))
        /\ \A f : f # e /\ Holds(ocrEngines, f) => Holds(left, f)
    BY <1>1, <2>1, OthersStay
  <2> HIDE DEF left
  <2>3. Holds(left, defaultEngine')
    BY <1>1, <2>1, <2>2
  <2> QED
    BY <2>1, <2>2, <2>3 DEF RegistryInv
<1>4. ASSUME NEW e \in EngineNames, SetDefaultEngine(e) PROVE RegistryInv'
  BY <1>1, <1>4 DEF SetDefaultEngine, Registered, RegistryInv, Holds
<1>5. ASSUME NEW e, Recognise(e) PROVE RegistryInv'
  BY <1>1, <1>5 DEF Recognise, RegistryInv
<1>6. CASE BuildSpans \/ UNCHANGED ocrVars
  BY <1>1, <1>6 DEF BuildSpans, ocrVars, RegistryInv
<1> QED
  BY <1>2, <1>3, <1>4, <1>5, <1>6 DEF OcrNext, RecogniseByDefault, RecogniseByName

\* A result of an engine has passed its constructor.
LEMMA ResultIsChecked ==
  ASSUME NEW e, NEW words, Run(e, words) # NoPages PROVE IsResult(Run(e, words))
<1>1. \A pages : CheckedResult(pages) # NoPages => IsResult(CheckedResult(pages))
  BY DEF CheckedResult
<1>2. \A primary, secondary : Fuse(primary, secondary) # NoPages => IsResult(Fuse(primary, secondary))
  BY <1>1 DEF Fuse
<1> QED
  BY <1>1, <1>2 DEF Run

\* The engines, the result and its spans keep their types.
LEMMA OcrTyped == OcrSpec => []OcrTypeOK
<1>1. OcrInit => RegistryInv
  <2> SUFFICES ASSUME OcrInit PROVE RegistryInv
    OBVIOUS
  <2>1. ocrEngines = <<"tesseract">> /\ defaultEngine = "tesseract"
    BY DEF OcrInit
  <2> QED
    BY <2>1 DEF RegistryInv, Distinct, Holds, EngineNames, Single
<1>2. OcrInv /\ RegistryInv => OcrTypeOK
  <2> SUFFICES ASSUME OcrInv, RegistryInv PROVE OcrTypeOK
    OBVIOUS
  <2>1. ocrEngines \in Seq(EngineNames) /\ IsInjective(ocrEngines) /\ Registered(defaultEngine)
    BY DEF RegistryInv, Distinct, Holds, IsInjective, Registered
  <2>2. made \in [Single -> SUBSET Printed]
    BY DEF OcrInv
  <2>3. recognised # NoPages => IsResult(recognised)
    BY ResultIsChecked DEF OcrInv
  <2>4. \A i \in DOMAIN spans : spans[i].kind \in {"block", "line", "word"}
    <3>1. CASE spans = <<>>
      BY <3>1
    <3>2. CASE spans # <<>>
      <4>1. PICK e \in EngineNames : RanFor(e) /\ recognised = Run(e, made) /\ recognised # NoPages
        BY <3>2 DEF OcrInv
      <4>2. PagesOfLines(recognised)
        BY <2>2, <4>1, ResultHolds
      <4>3. spans \in Seq(AnySpan)
        BY <3>2, <4>2, SpansHoldTheLines DEF OcrInv
      <4>4. \A i \in DOMAIN spans : spans[i] \in AnySpan
        BY <4>3
      <4> QED
        BY <4>4 DEF AnySpan
    <3> QED
      BY <3>1, <3>2
  <2> QED
    BY <2>1, <2>2, <2>3, <2>4 DEF OcrTypeOK
<1> QED
  BY <1>1, <1>2, OcrBegins, OcrPreserved, RegistryKept, PTL DEF OcrSpec

-----------------------------------------------------------------------------
(* Sums over a finite set *)

\* The sums of the weights over the subsets of a set, one element after the other.
TotalOf(f, weight, s) == IF s = {} THEN 0 ELSE weight[CHOOSE x \in s : TRUE] + f[s \ {CHOOSE x \in s : TRUE}]
Totals(f, weight, S) == f = [s \in SUBSET S |-> TotalOf(f, weight, s)]

\* Taking the chosen element out of a finite set leaves a smaller one.
LEMMA ChosenIsTaken ==
  ASSUME NEW S, IsFiniteSet(S), NEW s \in SUBSET S
  PROVE  /\ Cardinality(s) \in Nat /\ (Cardinality(s) = 0 <=> s = {})
         /\ s # {} => /\ (CHOOSE x \in s : TRUE) \in S /\ s \ {CHOOSE x \in s : TRUE} \in SUBSET S
                      /\ Cardinality(s \ {CHOOSE x \in s : TRUE}) = Cardinality(s) - 1
<1>1. IsFiniteSet(s)
  BY FS_Subset
<1>2. s # {} => (CHOOSE x \in s : TRUE) \in s
  OBVIOUS
<1> QED
  BY <1>1, <1>2, FS_CardinalityType, FS_EmptySet, FS_RemoveElement

\* Such sums exist, whatever the weights.
LEMMA TotalsExist ==
  ASSUME NEW S, IsFiniteSet(S), NEW weight
  PROVE  \E f : Totals(f, weight, S)
<1> DEFINE Right(f, n) == /\ f = [s \in SUBSET S |-> f[s]]
                          /\ \A s \in SUBSET S : Cardinality(s) <= n => f[s] = TotalOf(f, weight, s)
           next(f) == [s \in SUBSET S |-> TotalOf(f, weight, s)]
           good == {n \in Nat : \E f : Right(f, n)}
<1>1. 0 \in good
  <2> DEFINE f == [s \in SUBSET S |-> 0]
  <2>1. ASSUME NEW s \in SUBSET S, Cardinality(s) <= 0 PROVE s = {}
    <3>1. Cardinality(s) \in Nat /\ (Cardinality(s) = 0 <=> s = {})
      BY ChosenIsTaken
    <3> QED
      BY <2>1, <3>1
  <2>2. Right(f, 0)
    BY <2>1 DEF TotalOf
  <2> QED
    BY <2>2
<1>2. ASSUME NEW n \in Nat, n \in good PROVE n + 1 \in good
  <2>1. PICK f : Right(f, n)
    BY <1>2
  <2>2. ASSUME NEW s \in SUBSET S, Cardinality(s) <= n + 1 PROVE next(f)[s] = TotalOf(next(f), weight, s)
    <3> DEFINE rest == s \ {CHOOSE x \in s : TRUE}
    <3>1. CASE s = {}
      BY <3>1 DEF TotalOf
    <3>2. CASE s # {}
      <4>1. rest \in SUBSET S /\ Cardinality(rest) <= n
        BY <2>2, <3>2, ChosenIsTaken
      <4>2. next(f)[rest] = f[rest]
        BY <2>1, <4>1
      <4>3. next(f)[s] = TotalOf(f, weight, s)
        OBVIOUS
      <4> HIDE DEF next
      <4> QED
        BY <3>2, <4>2, <4>3 DEF TotalOf
    <3> QED
      BY <3>1, <3>2
  <2>3. Right(next(f), n + 1)
    <3>1. next(f) = [s \in SUBSET S |-> next(f)[s]]
      OBVIOUS
    <3> HIDE DEF next
    <3> QED
      BY <2>2, <3>1
  <2> HIDE DEF Right
  <2> QED
    BY <2>3
<1>3. Cardinality(S) \in good
  <2>1. Cardinality(S) \in Nat
    BY FS_CardinalityType
  <2> HIDE DEF good
  <2> QED
    BY <1>1, <1>2, <2>1, NumbersByInduction
<1>4. PICK f : Right(f, Cardinality(S))
  BY <1>3
<1>5. \A s \in SUBSET S : Cardinality(s) <= Cardinality(S)
  BY FS_Subset
<1>6. f = next(f)
  <2>1. \A s \in SUBSET S : f[s] = TotalOf(f, weight, s)
    BY <1>4, <1>5
  <2>2. f = [s \in SUBSET S |-> f[s]]
    BY <1>4
  <2> HIDE DEF Right
  <2> QED
    BY <2>1, <2>2, Zenon
<1> QED
  BY <1>6 DEF Totals

\* A mean of percentages is a percentage: with weights of their own, the sum of the weighted
\* ones is at most a hundred times the sum of the weights.
LEMMA TotalsCompare ==
  ASSUME NEW S, IsFiniteSet(S), NEW weight, NEW weighted, \A x \in S : weight[x] \in Nat /\ weighted[x] \in 0..(100 * weight[x]),
         NEW f, Totals(f, weight, S), NEW g, Totals(g, weighted, S)
  PROVE  f[S] \in Nat /\ g[S] \in Nat /\ g[S] <= 100 * f[S]
<1> DEFINE Fine(s) == f[s] \in Nat /\ g[s] \in Nat /\ g[s] <= 100 * f[s]
           good == {n \in Nat : \A s \in SUBSET S : Cardinality(s) = n => Fine(s)}
<1>1. \A s \in SUBSET S : f[s] = TotalOf(f, weight, s) /\ g[s] = TotalOf(g, weighted, s)
  BY Zenon DEF Totals
<1>2. 0 \in good
  <2>1. ASSUME NEW s \in SUBSET S, Cardinality(s) = 0 PROVE Fine(s)
    <3>1. s = {}
      BY <2>1, ChosenIsTaken
    <3>2. f[s] = 0 /\ g[s] = 0
      BY <1>1, <3>1 DEF TotalOf
    <3> QED
      BY <3>2
  <2> QED
    BY <2>1
<1>3. ASSUME NEW n \in Nat, n \in good PROVE n + 1 \in good
  <2>1. ASSUME NEW s \in SUBSET S, Cardinality(s) = n + 1 PROVE Fine(s)
    <3> DEFINE x == CHOOSE x \in s : TRUE
               rest == s \ {x}
    <3>1. s # {} /\ x \in S /\ rest \in SUBSET S /\ Cardinality(rest) = n
      BY <2>1, ChosenIsTaken
    <3>2. f[s] = weight[x] + f[rest] /\ g[s] = weighted[x] + g[rest]
      BY <1>1, <3>1 DEF TotalOf
    <3> HIDE DEF x, rest
    <3>3. Fine(rest)
      BY <1>3, <3>1
    <3>4. weight[x] \in Nat /\ weighted[x] \in Nat /\ weighted[x] <= 100 * weight[x]
      BY <3>1
    <3> QED
      BY <3>2, <3>3, <3>4
  <2> HIDE DEF Fine
  <2> QED
    BY <2>1
<1>4. Cardinality(S) \in good
  <2>1. Cardinality(S) \in Nat
    BY FS_CardinalityType
  <2> HIDE DEF good
  <2> QED
    BY <1>2, <1>3, <2>1, NumbersByInduction
<1> QED
  BY <1>4

-----------------------------------------------------------------------------
(* The score *)

WeightsOf(matches) == [m \in matches |-> WeightFor(m.type)]
WeightedOf(matches) == [m \in matches |-> m.confidence * WeightFor(m.type)]

\* The sums of the score are such sums.
LEMMA SumsAreTotals ==
  ASSUME NEW matches, IsFiniteSet(matches)
  PROVE  \E f, g : /\ Totals(f, WeightsOf(matches), matches) /\ Totals(g, WeightedOf(matches), matches)
                   /\ MapThenSumSet(LAMBDA m : WeightFor(m.type), matches) = f[matches]
                   /\ MapThenSumSet(LAMBDA m : m.confidence * WeightFor(m.type), matches) = g[matches]
<1> DEFINE some(s) == CHOOSE x \in s : TRUE
           oneOf(s) == WeightFor(some(s).type)
           weighedOf(s) == some(s).confidence * WeightFor(some(s).type)
           stepF(h, s) == IF s = {} THEN 0 ELSE oneOf(s) + h[s \ {some(s)}]
           stepG(h, s) == IF s = {} THEN 0 ELSE weighedOf(s) + h[s \ {some(s)}]
           f == CHOOSE f : f = [s \in SUBSET matches |-> stepF(f, s)]
           g == CHOOSE g : g = [s \in SUBSET matches |-> stepG(g, s)]
<1>1. MapThenSumSet(LAMBDA m : WeightFor(m.type), matches) = f[matches]
  BY DEF MapThenSumSet, MapThenFoldSet
<1>2. MapThenSumSet(LAMBDA m : m.confidence * WeightFor(m.type), matches) = g[matches]
  BY DEF MapThenSumSet, MapThenFoldSet
<1>3. ASSUME NEW s \in SUBSET matches, s # {} PROVE some(s) \in matches
  <2>1. some(s) \in s
    BY <1>3, Zenon
  <2> QED
    BY <2>1
<1>4. \A h : \A s \in SUBSET matches : TotalOf(h, WeightsOf(matches), s) = stepF(h, s)
  BY <1>3 DEF TotalOf, WeightsOf
<1>5. \A h : \A s \in SUBSET matches : TotalOf(h, WeightedOf(matches), s) = stepG(h, s)
  BY <1>3 DEF TotalOf, WeightedOf
<1> HIDE DEF some, stepF, stepG
<1>6. Totals(f, WeightsOf(matches), matches)
  <2>1. \A h : Totals(h, WeightsOf(matches), matches) <=> h = [s \in SUBSET matches |-> stepF(h, s)]
    BY <1>4, Zenon DEF Totals
  <2>2. \E h : Totals(h, WeightsOf(matches), matches)
    BY TotalsExist
  <2> QED
    BY <2>1, <2>2, Zenon
<1>7. Totals(g, WeightedOf(matches), matches)
  <2>1. \A h : Totals(h, WeightedOf(matches), matches) <=> h = [s \in SUBSET matches |-> stepG(h, s)]
    BY <1>5, Zenon DEF Totals
  <2>2. \E h : Totals(h, WeightedOf(matches), matches)
    BY TotalsExist
  <2> QED
    BY <2>1, <2>2, Zenon
<1> HIDE DEF f, g, oneOf, weighedOf
<1> QED
  BY <1>1, <1>2, <1>6, <1>7, Zenon

\* The candidates of finitely many entities are compared in finitely many matches.
LEMMA MatchesAreFinite ==
  ASSUME CrowdOf(crowd)
  PROVE  /\ IsFiniteSet(Entities) /\ IsFiniteSet(AllMatches(Entities))
         /\ \A m \in AllMatches(Entities) : m.confidence \in 0..100 /\ WeightFor(m.type) \in 50..100
<1> DEFINE places == DOMAIN crowd
           entityAt == [i \in places |-> crowd[i].entity]
<1>1. IsFiniteSet(places)
  BY CrowdTypes, FS_Interval
<1>2. IsFiniteSet(Entities)
  <2>1. entityAt \in Surjection(places, Entities)
    BY DEF Surjection, Entities
  <2> QED
    BY <1>1, <2>1, FS_Surjection
<1> DEFINE questions == (Entities \X Entities) \X FactTypes
           answer == [q \in questions |-> BuildMatch(q[1][1], q[1][2], q[2])]
           answers == {answer[q] : q \in questions}
<1>3. IsFiniteSet(FactTypes)
  <2>1. IsFiniteSet({}) /\ \A S, x : IsFiniteSet(S) => IsFiniteSet(S \cup {x})
    BY FS_EmptySet, FS_AddElement
  <2>2. FactTypes = (({} \cup {"tax_id"}) \cup {"surname"}) \cup {"date_of_birth"}
    BY DEF FactTypes
  <2> QED
    BY <2>1, <2>2
<1>4. IsFiniteSet(questions)
  BY <1>2, <1>3, FS_Product
<1>5. IsFiniteSet(answers)
  <2>1. answer \in Surjection(questions, answers)
    BY DEF Surjection
  <2> HIDE DEF answer, answers, questions
  <2> QED
    BY <1>4, <2>1, FS_Surjection
<1>6. ASSUME NEW m \in AllMatches(Entities)
      PROVE  m \in answers /\ m.confidence \in 0..100 /\ WeightFor(m.type) \in 50..100
  <2>0. PICK a \in Entities, b \in Entities : \E t \in SharedTypes(a, b) : m = BuildMatch(a, b, t)
    BY DEF AllMatches
  <2>1. PICK t \in SharedTypes(a, b) : m = BuildMatch(a, b, t)
    BY <2>0
  <2>2. t \in FactTypes
    BY CrowdTypes DEF SharedTypes, TypesIn
  <2>3. m \in answers
    <3>1. <<<<a, b>>, t>> \in questions /\ answer[<<<<a, b>>, t>>] = m
      BY <2>1, <2>2
    <3> HIDE DEF answer, questions
    <3> QED
      BY <3>1
  <2>4. \A x, y : FuzzyRatio(t, x, y) \in {50, 76, 100}
    BY DEF FuzzyRatio
  <2>5. \A x, y : MatchConfidence(t, x, y) \in {0, 25, 38, 50, 76, 100}
    <3>1. 50 \div 2 = 25
      OBVIOUS
    <3> QED
      BY <2>4, <3>1 DEF MatchConfidence, FuzzyThreshold
  <2>6. m.confidence \in 0..100 /\ m.type = t
    <3>1. m.confidence = MatchConfidence(t, BestReading(a, t), BestReading(b, t)) /\ m.type = t
      BY <2>1 DEF BuildMatch
    <3> QED
      BY <2>5, <3>1
  <2>7. WeightFor(t) \in 50..100
    BY <2>2 DEF WeightFor, FactTypes
  <2> QED
    BY <2>3, <2>6, <2>7
<1>7. AllMatches(Entities) \in SUBSET answers
  <2> HIDE DEF answers
  <2> QED
    BY <1>6
<1> QED
  <2> HIDE DEF answers
  <2> QED
    BY <1>2, <1>5, <1>6, <1>7, FS_Subset

\* The score of a comparison is a percentage.
LEMMA ScoreIsAPercentage ==
  ASSUME CrowdOf(crowd)
  PROVE  OverallScore(AllMatches(Entities)) \in 0..100
<1> DEFINE matches == AllMatches(Entities)
<1>1. IsFiniteSet(matches) /\ \A m \in matches : m.confidence \in 0..100 /\ WeightFor(m.type) \in 50..100
  BY MatchesAreFinite
<1> HIDE DEF matches
<1>2. PICK f, g : /\ Totals(f, WeightsOf(matches), matches) /\ Totals(g, WeightedOf(matches), matches)
                  /\ MapThenSumSet(LAMBDA m : WeightFor(m.type), matches) = f[matches]
                  /\ MapThenSumSet(LAMBDA m : m.confidence * WeightFor(m.type), matches) = g[matches]
  BY <1>1, SumsAreTotals
<1>3. \A m \in matches : WeightsOf(matches)[m] \in Nat /\ WeightedOf(matches)[m] \in 0..(100 * WeightsOf(matches)[m])
  <2>1. \A c \in 0..100, w \in 50..100 : w \in Nat /\ c * w \in 0..(100 * w)
    OBVIOUS
  <2>2. \A m \in matches : WeightsOf(matches)[m] = WeightFor(m.type) /\ WeightedOf(matches)[m] = m.confidence * WeightFor(m.type)
    BY DEF WeightsOf, WeightedOf
  <2>3. ASSUME NEW m \in matches
        PROVE  WeightFor(m.type) \in Nat /\ m.confidence * WeightFor(m.type) \in 0..(100 * WeightFor(m.type))
    <3>1. m.confidence \in 0..100 /\ WeightFor(m.type) \in 50..100
      BY <1>1
    <3> QED
      BY <2>1, <3>1, Zenon
  <2> QED
    BY <2>2, <2>3, Zenon
<1>4. f[matches] \in Nat /\ g[matches] \in Nat /\ g[matches] <= 100 * f[matches]
  BY <1>1, <1>2, <1>3, TotalsCompare
<1>5. \A n \in Nat, total \in Nat \ {0} : n <= 100 * total => n \div total \in 0..100
  OBVIOUS
<1>6. OverallScore(matches) = IF f[matches] = 0 THEN 0 ELSE g[matches] \div f[matches]
  BY <1>2, Zenon DEF OverallScore
<1>7. OverallScore(matches) \in 0..100
  <2>1. CASE f[matches] = 0
    BY <1>6, <2>1
  <2>2. CASE f[matches] # 0
    <3>1. g[matches] \div f[matches] \in 0..100
      <4>1. f[matches] \in Nat \ {0}
        BY <1>4, <2>2
      <4> QED
        BY <1>4, <1>5, <4>1
    <3> QED
      BY <1>6, <2>2, <3>1
  <2> QED
    BY <2>1, <2>2
<1> QED
  BY <1>7 DEF matches

\* An entity is numbered in the order of its first candidate.
NumberedInOrder == Len(crowd) <= MaxCandidates /\ \A i \in DOMAIN crowd : crowd[i].entity \in 1..i

\* Every step of the resolution keeps the numbers in order.
LEMMA NumberedKept == ResolutionInv /\ NumberedInOrder /\ [ResolutionNext]_resolutionVars => NumberedInOrder'
<1> SUFFICES ASSUME ResolutionInv, NumberedInOrder, [ResolutionNext]_resolutionVars PROVE NumberedInOrder'
  OBVIOUS
<1>1. crowd \in Seq(Candidates(Nat)) /\ MaxCandidates \in Nat
  BY ResolutionAssumption DEF ResolutionInv, CrowdOf
<1>2. CASE AddCandidate
  <2>1. PICK c \in Candidates(IF crowd = <<>> THEN {1} ELSE {crowd[Len(crowd)].entity, crowd[Len(crowd)].entity + 1}) :
          crowd' = Append(crowd, c)
    BY <1>2 DEF AddCandidate
  <2>2. c.entity \in 1..(Len(crowd) + 1)
    <3>1. CASE crowd = <<>>
      BY <2>1, <3>1 DEF Candidates
    <3>2. CASE crowd # <<>>
      <4>1. crowd[Len(crowd)].entity \in 1..Len(crowd)
        BY <1>1, <3>2 DEF NumberedInOrder
      <4>2. c.entity \in {crowd[Len(crowd)].entity, crowd[Len(crowd)].entity + 1}
        BY <2>1, <3>2 DEF Candidates
      <4> QED
        BY <1>1, <4>1, <4>2
    <3> QED
      BY <3>1, <3>2
  <2>3. /\ Len(crowd') = Len(crowd) + 1 /\ DOMAIN crowd' = DOMAIN crowd \cup {Len(crowd) + 1}
        /\ crowd'[Len(crowd) + 1] = c /\ \A i \in DOMAIN crowd : crowd'[i] = crowd[i]
    <3>1. c \in Candidates(Nat)
      <4>1. \A i \in DOMAIN crowd : crowd[i].entity \in Nat
        BY CrowdTypes DEF ResolutionInv
      <4>2. crowd # <<>> => crowd[Len(crowd)].entity \in Nat
        BY <1>1, <4>1
      <4> QED
        BY <2>1, <4>2 DEF Candidates
    <3> QED
      BY <1>1, <2>1, <3>1
  <2>4. Len(crowd) < MaxCandidates /\ Len(crowd) \in Nat
    BY <1>1, <1>2 DEF AddCandidate
  <2> QED
    BY <1>1, <2>2, <2>3, <2>4 DEF NumberedInOrder
<1>3. CASE UNCHANGED crowd
  BY <1>3 DEF NumberedInOrder
<1> QED
  BY <1>2, <1>3 DEF ResolutionNext, FindNoCandidates, RefuseSeveralEntities, ResolveForJob, ResolveFacts, resolutionVars

\* A resolution that did not come about is one of three.
EndsEarly ==
    resolution.pc = "resolved"
    \/ resolution \in {Unresolved, [Unresolved EXCEPT !.pc = "warned"], [Unresolved EXCEPT !.pc = "refused"]}

\* What a resolution keeps are candidates, and its score is a percentage.
LEMMA ResolvedTyped ==
  ASSUME CrowdOf(crowd)
  PROVE  Resolved.pc = "resolved" /\ Resolved.ids \subseteq DOMAIN crowd /\ Resolved.score \in 0..100
<1> DEFINE matches == AllMatches(Entities)
<1>1. OverallScore(matches) \in 0..100
  BY ScoreIsAPercentage
<1>2. \A clusters, conflicting, score :
        /\ ResolutionOf(clusters, conflicting, score).pc = "resolved"
        /\ ResolutionOf(clusters, conflicting, score).ids \subseteq DOMAIN crowd
        /\ ResolutionOf(clusters, conflicting, score).score = score
  BY DEF ResolutionOf, IdsOf
<1>3. \/ Resolved = ResolutionOf({1}, {}, 100)
      \/ Resolved = ResolutionOf({Primary}, ConflictMatches(matches), OverallScore(matches))
      \/ Resolved = ResolutionOf({Primary}, {}, 100)
      \/ Resolved = ResolutionOf(Entities, {}, OverallScore(matches))
  BY Zenon DEF Resolved, ResolveSingleCluster, ResolveWithConflict
<1> HIDE DEF matches
<1> QED
  BY <1>1, <1>2, <1>3

\* Every step ends in one of these ways.
LEMMA EndsKept == ResolutionInv /\ EndsEarly /\ [ResolutionNext]_resolutionVars => EndsEarly'
<1> SUFFICES ASSUME ResolutionInv, EndsEarly, [ResolutionNext]_resolutionVars PROVE EndsEarly'
  OBVIOUS
<1>1. CASE resolution' = Resolved
  BY <1>1, ResolvedTyped DEF EndsEarly, ResolutionInv
<1>2. CASE resolution' = resolution
  BY <1>2 DEF EndsEarly
<1>3. CASE FindNoCandidates \/ RefuseSeveralEntities
  BY <1>3 DEF FindNoCandidates, RefuseSeveralEntities, EndsEarly
<1> QED
  BY <1>1, <1>2, <1>3 DEF ResolutionNext, AddCandidate, ResolveForJob, ResolveFacts, resolutionVars

\* The crowd and what is made of it keep their types.
LEMMA ResolutionTyped == ResolutionSpec => []ResolutionTypeOK
<1>1. ResolutionInit => NumberedInOrder
  BY ResolutionAssumption DEF ResolutionInit, NumberedInOrder
<1>2. ResolutionInit => EndsEarly
  BY DEF ResolutionInit, EndsEarly
<1>3. ResolutionInv /\ NumberedInOrder /\ EndsEarly => ResolutionTypeOK
  <2> SUFFICES ASSUME ResolutionInv, NumberedInOrder, EndsEarly PROVE ResolutionTypeOK
    OBVIOUS
  <2>1. CrowdOf(crowd) /\ crowd \in Seq(Candidates(Nat)) /\ Len(crowd) \in Nat /\ MaxCandidates \in Nat
    BY ResolutionAssumption DEF ResolutionInv, CrowdOf
  <2>2. \A i \in 1..Len(crowd) : crowd[i] \in Candidates(1..MaxCandidates)
    <3>1. ASSUME NEW i \in 1..Len(crowd) PROVE crowd[i] \in Candidates(1..MaxCandidates)
      <4>1. crowd[i] \in Candidates(Nat)
        BY <2>1
      <4>2. crowd[i].entity \in 1..MaxCandidates
        BY <2>1 DEF NumberedInOrder
      <4> QED
        BY <4>1, <4>2 DEF Candidates
    <3> QED
      BY <3>1
  <2>3. crowd \in Seq(Candidates(1..MaxCandidates))
    BY <2>1, <2>2
  <2>4. /\ resolution.pc \in {"open", "warned", "refused", "resolved"}
        /\ resolution.ids \subseteq DOMAIN crowd /\ resolution.score \in 0..100
    <3>1. CASE resolution.pc = "resolved"
      <4>1. resolution = Resolved
        BY <3>1 DEF ResolutionInv
      <4> QED
        BY <2>1, <3>1, <4>1, ResolvedTyped
    <3>2. CASE resolution.pc # "resolved"
      BY <3>2 DEF EndsEarly, Unresolved
    <3> QED
      BY <3>1, <3>2
  <2> QED
    BY <2>3, <2>4 DEF ResolutionTypeOK, NumberedInOrder
<1> QED
  BY <1>1, <1>2, <1>3, ResolutionBegins, ResolutionPreserved, NumberedKept, EndsKept, PTL DEF ResolutionSpec
=============================================================================
