------------------------------ MODULE Extraction ------------------------------
(***************************************************************************)
(* From the text of a page to review cases: the extraction service with    *)
(* its registry and extractors, the quality gate, and the handler that     *)
(* saves a case per candidate or keeps the text as a noise item.           *)
(* (processing/extraction, pipeline/handlers/extraction_handler.py)        *)
(*                                                                         *)
(* A page is what the patterns find on it: labelled values, a machine      *)
(* readable zone, a title that gives its kind away.  A value is known by   *)
(* its form.  The handler passes no spatial data, so an extractor that     *)
(* looks for the span of a value finds none.                               *)
(***************************************************************************)
EXTENDS Naturals, FiniteSets

CONSTANTS
    PoorPage,       \* fewer candidates than this call for the language model (6 in the code)
    PoorQuality,    \* fewer accepted candidates than this, too (4 in the code)
    MaxLines        \* bound: labelled values on a page

\* a page without any accepted candidate always calls for the language model
ASSUME ExtractionAssumption == PoorQuality \in Nat \ {0}

VARIABLES
    sheet,      \* the page, the type its owner gave it, and what the registry holds
    work        \* the extraction of the page

extractionVars == <<sheet, work>>

GivenTypes == {"unknown", "passport", "id_card", "residence_permit", "employment_contract",
               "payslip", "bank_statement", "invoice"}

\* "label": another label where the value was expected; "dayFirst": 06.08.1966;
\* "amount" with its currency; "account": an IBAN; "code": letters and digits
Lines == { [label |-> "surname", form |-> "word"],          [label |-> "surname", form |-> "label"],
           [label |-> "place_of_birth", form |-> "label"],  [label |-> "employer", form |-> "label"],
           [label |-> "date_of_birth", form |-> "dayFirst"], [label |-> "date_of_issue", form |-> "dayFirst"],
           [label |-> "gross_salary", form |-> "amount"],   [label |-> "iban", form |-> "account"],
           [label |-> "passport_number", form |-> "code"],  [label |-> "invoice_number", form |-> "code"],
           [label |-> "total_amount", form |-> "amount"],   [label |-> "closing_balance", form |-> "amount"],
           [label |-> "line_items_raw", form |-> "table"],  [label |-> "probation_end_date", form |-> "dayFirst"] }

Sheets == { s \in [given : GivenTypes, registry : {"empty", "universal", "german"},
                   title : {"none", "passport", "payslip"}, zone : {"none", "read", "spoilt"},
                   lines : {L \in SUBSET Lines : Cardinality(L) <= MaxLines},
                   blank : BOOLEAN] :
               /\ \A x, y \in s.lines : x.label = y.label => x = y
               /\ s.zone # "none" => s.title = "none"
               /\ s.blank => s.lines = {} /\ s.zone = "none" /\ s.title = "none" }

NoSheet == [given |-> "none"]
\* skipped: the handler gave up without a word in the job
Nothing == [pc |-> "idle", candidates |-> {}, pending |-> FALSE, saved |-> 0, noise |-> FALSE,
            failed |-> FALSE, skipped |-> FALSE]

ExtractionInit == sheet = NoSheet /\ work = Nothing

Has(label) == \E l \in sheet.lines : l.label = label
FormOf(label) == (CHOOSE l \in sheet.lines : l.label = label).form

-----------------------------------------------------------------------------
(* Candidates and results *)

\* a candidate names the entity it is about: the one of the request, or - a placeholder - the document
Candidate(type, form) == [type |-> type, form |-> form, entity |-> "requester"]
ForDocument(type, form) == [type |-> type, form |-> form, entity |-> "document"]

\* CandidateFact refuses the id of a document as the id of an entity; the extractor
\* catches the exception and returns a failure without candidates
ResultOf(candidates) ==
    IF \A c \in candidates : c.entity = "requester"
    THEN [ok |-> TRUE, candidates |-> candidates]
    ELSE [ok |-> FALSE, candidates |-> {}]

-----------------------------------------------------------------------------
(* The extractors.  Of the labels an extractor knows the model keeps those *)
(* of Lines, and of the forms those that tell its rules apart.             *)

\* _extract_label_values: names are words without digits - the label after a label too
UniversalLabels == {"surname", "place_of_birth", "employer", "date_of_birth", "date_of_issue",
                    "gross_salary", "iban", "passport_number", "invoice_number"}
UniversalLabelValues ==
    {Candidate(l.label, l.form) : l \in {x \in sheet.lines : x.label \in UniversalLabels}}

\* _extract_patterns: the digits of a date or of an account pass for a phone number
UniversalPatterns ==
    UNION { CASE l.form = "dayFirst" -> {Candidate("date", "dayFirst"), Candidate("phone_number", l.label)}
              [] l.form = "amount" -> {Candidate("amount", l.label)}
              [] l.form = "account" -> {Candidate("iban", "account"), Candidate("phone_number", l.label)}
              [] OTHER -> {} : l \in sheet.lines }

\* words of eight to ten characters with digits on a line that mentions the passport number
UniversalContext == {Candidate(l.label, l.form) : l \in {x \in sheet.lines : x.label = "passport_number"}}

UniversalZone ==
    IF sheet.zone = "none" THEN {} ELSE {Candidate("mrz_line", "firstLine"), Candidate("mrz_line", "secondLine")}

Universal == ResultOf(UniversalLabelValues \cup UniversalPatterns \cup UniversalContext \cup UniversalZone)

\* the labels themselves become candidates
PassportLabelNames == {"surname", "place_of_birth", "date_of_birth", "date_of_issue", "passport_number"}
PassportLabels == {Candidate("document_label", l.label) : l \in {x \in sheet.lines : x.label \in PassportLabelNames}}

\* dates are normalised when the zone holds valid ones, and stay six digits otherwise
ZoneDate == IF sheet.zone = "read" THEN "iso" ELSE "sixDigits"
ZoneTypes == {"issuing_country", "surname", "given_names", "nationality", "sex", "mrz_status", "mrz_check_passed"}
PassportZone ==
    IF sheet.zone = "none" THEN {}
    ELSE {Candidate(type, "word") : type \in ZoneTypes}
         \cup {Candidate("document_code", "letter"), Candidate("passport_number", "code"), Candidate("mrz_confidence", "number"),
               Candidate("date_of_birth", ZoneDate), Candidate("date_of_expiry", ZoneDate)}

\* labelled values of the types the zone did not yield; a value that looks like a label is put up for review
PassportPatterns == {"surname", "place_of_birth", "date_of_issue", "passport_number"}
PassportOcr ==
    LET found == {c.type : c \in PassportZone}
        here == {l \in sheet.lines : l.label \in PassportPatterns \ found}
    IN  { CASE l.form = "label" -> Candidate("review_candidate", l.label)
            [] l.form = "dayFirst" -> Candidate(l.label, "iso")
            [] OTHER -> Candidate(l.label, l.form) : l \in here }

\* the title and the first date of the page
PassportFallback ==
    (IF sheet.title = "passport" THEN {Candidate("document_keyword", "label")} ELSE {})
    \cup (IF \E l \in sheet.lines : l.form = "dayFirst" THEN {Candidate("possible_date", "iso")} ELSE {})

Passport == ResultOf(PassportLabels \cup PassportZone \cup PassportOcr \cup PassportFallback)

\* all_spans of a content without spatial data: extractors that ask for the span of a value skip it
Spans == {}
Spanned(labels) == {l \in sheet.lines : l.label \in labels /\ Spans # {}}

\* identity cards
IdCardZone ==
    IF sheet.zone = "none" THEN {}
    ELSE {ForDocument(type, "word") : type \in ZoneTypes}
         \cup {ForDocument("document_code", "letter"), ForDocument("id_number", "code"), ForDocument("mrz_confidence", "number"),
               ForDocument("date_of_birth", ZoneDate), ForDocument("date_of_expiry", ZoneDate)}
IdCardPatterns == {"place_of_birth", "date_of_issue"}
SpannedDocument(labels) ==
    {ForDocument(l.label, IF l.form = "dayFirst" THEN "iso" ELSE l.form) : l \in Spanned(labels)}
IdCardOcr == SpannedDocument(IdCardPatterns)
IdCard == ResultOf(IdCardZone \cup IdCardOcr)

\* residence permits
ResidencePermitZone ==
    {IF c.type = "id_number" THEN ForDocument("permit_number", c.form) ELSE c : c \in IdCardZone}
PermitPatterns == {"place_of_birth", "date_of_issue"}
ResidencePermitOcr == SpannedDocument(PermitPatterns)
ResidencePermit == ResultOf(ResidencePermitZone \cup ResidencePermitOcr)

\* employment contracts: the salary with its currency, the probation, then the labelled values
ContractSalary == UNION {{ForDocument("salary_amount", "number"), ForDocument("salary_currency", "word")} : l \in Spanned({"gross_salary"})}
ContractProbation == SpannedDocument({"probation_end_date"})
ContractPatterns == {"employer"}
ContractOcr == {ForDocument("employer_name", l.form) : l \in Spanned(ContractPatterns)}
EmploymentContract == ResultOf(ContractSalary \cup ContractProbation \cup ContractOcr)

\* payslips, invoices and bank statements keep values without a span; amounts lose their currency
Amounts(labels) == {ForDocument(l, "number") : l \in {x \in labels : Has(x)}}
PayslipAmounts == {"gross_salary"}
PayslipMonetary == Amounts(PayslipAmounts)
PayslipPatterns == {"employer"}
PayslipOcr == {ForDocument("employer_name", FormOf(l)) : l \in {x \in PayslipPatterns : Has(x)}}
Payslip == ResultOf(PayslipMonetary \cup PayslipOcr)

InvoiceAmounts == {"total_amount"}
InvoiceMonetary == Amounts(InvoiceAmounts)
InvoiceLineItems == IF Has("line_items_raw") THEN {ForDocument("line_items_raw", "table")} ELSE {}
InvoicePatterns == {"invoice_number"}
InvoiceOcr == {ForDocument(l, FormOf(l)) : l \in {x \in InvoicePatterns : Has(x)}}
Invoice == ResultOf(InvoiceMonetary \cup InvoiceLineItems \cup InvoiceOcr)

BankAmounts == {"closing_balance"}
BankMonetary == Amounts(BankAmounts)
BankPatterns == {"iban"}
BankOcr == {ForDocument(l, FormOf(l)) : l \in {x \in BankPatterns : Has(x)}}
BankStatement == ResultOf(BankMonetary \cup BankOcr)

-----------------------------------------------------------------------------
(* The service *)

\* _DOC_TYPE_PATTERNS in their order; a machine readable zone passes for a passport
DetectedKind ==
    IF sheet.title = "passport" \/ sheet.zone # "none" THEN "passport"
    ELSE IF sheet.title = "payslip" THEN "payslip"
    ELSE IF Has("iban") THEN "bank_statement"
    ELSE IF Has("invoice_number") THEN "invoice"
    ELSE "none"

\* ExtractorRegistry.resolve: the universal extractor does not claim employment contracts
Claimed(type) ==
    CASE sheet.registry = "empty" -> {}
      [] sheet.registry = "universal" -> {type} \ {"employment_contract"}
      [] sheet.registry = "german" -> {type} \ {"universal"}

\* the type the page is extracted as: the given one, the detected one, or none in particular
RequestType ==
    LET asked == IF sheet.given # "unknown" THEN sheet.given
                 ELSE IF DetectedKind # "none" THEN DetectedKind ELSE "universal"
    IN  IF Claimed(asked) = {} /\ DetectedKind \notin {"none", asked} THEN DetectedKind ELSE asked

PrimaryOf(type) ==
    IF sheet.registry = "universal" THEN Universal
    ELSE CASE type = "passport" -> Passport
           [] type = "id_card" -> IdCard
           [] type = "residence_permit" -> ResidencePermit
           [] type = "employment_contract" -> EmploymentContract
           [] type = "payslip" -> Payslip
           [] type = "bank_statement" -> BankStatement
           [] type = "invoice" -> Invoice

\* extract: the primary extractor and the universal one, or the universal one alone;
\* a candidate whose type and value are the same is kept once
RawCandidates ==
    IF Claimed(RequestType) = {} \/ ~PrimaryOf(RequestType).ok
    THEN Universal.candidates
    ELSE PrimaryOf(RequestType).candidates \cup Universal.candidates

-----------------------------------------------------------------------------
(* The quality gate *)

GateDateTypes == {"date", "date_of_birth", "date_of_issue", "date_of_expiry"}
GateTextTypes == {"surname", "given_names", "place_of_birth", "nationality", "employer"}

IsLabelAsValue(c) == c.form = "label"
IsOcrJunk(c) == c.form = "letter"
IsHumanTextValue(c) == c.form = "word"
\* three numbers with the year at the end, and the prefix of a country
IsDateValue(c) == c.form = "dayFirst"
IsValidPhoneNumber(c) == c.form = "international"

\* is_valid_candidate_fact: dates day first only, phone numbers with a prefix only, amounts with their currency only
GateAccepts(c) ==
    /\ c.type \notin {"document_label", "review_candidate"}
    /\ ~IsLabelAsValue(c) /\ ~IsOcrJunk(c)
    /\ c.type = "phone_number" => IsValidPhoneNumber(c)
    /\ c.type \in GateDateTypes => IsDateValue(c)
    /\ c.type \in GateTextTypes => IsHumanTextValue(c)
    /\ c.type = "gross_salary" => c.form = "amount"

Accepted(candidates) == {c \in candidates : GateAccepts(c)}

\* _needs_llm_cleanup
NeedsLanguageModel(raw, accepted) ==
    \/ RequestType = "passport" \/ sheet.title = "passport"
    \/ Cardinality(raw) < PoorPage
    \/ Cardinality(accepted) < PoorQuality

-----------------------------------------------------------------------------
(* The handler *)

\* the document and its text reach the handler
TakeSheet ==
    /\ work.pc = "idle"
    /\ sheet' \in Sheets
    /\ work' = [Nothing EXCEPT !.pc = "extract"]

\* Bug variant: the call for the language model is decided on the candidates before the gate.
ExtractSheetUngated ==
    /\ work.pc = "extract"
    /\ work' = [work EXCEPT !.pc = "settle", !.candidates = Accepted(RawCandidates),
                            !.pending = NeedsLanguageModel(RawCandidates, RawCandidates)]
    /\ UNCHANGED sheet

\* extract, the gate, and the artifact with what passed it
ExtractSheet ==
    /\ work.pc = "extract"
    /\ work' = [work EXCEPT !.pc = "settle", !.candidates = Accepted(RawCandidates),
                            !.pending = NeedsLanguageModel(RawCandidates, Accepted(RawCandidates))]
    /\ UNCHANGED sheet

\* there is no text, no document or no request - one for a blank entity is refused -, or the
\* service raises: all of them are recorded
FailExtraction ==
    /\ work.pc = "extract"
    /\ work' = [work EXCEPT !.pc = "done", !.failed = TRUE]
    /\ UNCHANGED sheet

\* _resolve_db_connection swallows every exception and returns None: a warning in the log, but
\* no failure in the job
GivesUp ==
    /\ work' = [work EXCEPT !.pc = "done", !.skipped = TRUE]
    /\ UNCHANGED sheet

\* no database for the cases.  The handler would also leave them for a blank entity; none gets
\* this far, as Source and ExtractionRequest refuse it
SkipCases == work.pc = "settle" /\ work.candidates # {} /\ GivesUp

\* the cases are saved one by one; the first exception ends it and is recorded
SaveCases(saved) ==
    /\ work.pc = "settle" /\ work.candidates # {}
    /\ saved <= Cardinality(work.candidates)
    /\ work' = [work EXCEPT !.pc = "done", !.saved = saved, !.failed = saved < Cardinality(work.candidates)]
    /\ UNCHANGED sheet

\* a page nothing was found on is kept for the language model if it has text
WantsNoise == work.pending /\ ~sheet.blank

\* no database for the noise item
SkipNoise == work.pc = "settle" /\ work.candidates = {} /\ WantsNoise /\ GivesUp

\* the item is created, or there already from an earlier run of the job; an exception is recorded
KeepNoise(stored) ==
    /\ work.pc = "settle" /\ work.candidates = {}
    /\ work' = [work EXCEPT !.pc = "done", !.noise = WantsNoise /\ stored, !.failed = WantsNoise /\ ~stored]
    /\ UNCHANGED sheet

ExtractionNext ==
    \/ TakeSheet
    \/ ExtractSheet
    \/ FailExtraction
    \/ SkipCases
    \/ \E saved \in 0..12 : SaveCases(saved)
    \/ SkipNoise
    \/ \E stored \in BOOLEAN : KeepNoise(stored)

ExtractionSpec == ExtractionInit /\ [][ExtractionNext]_extractionVars

-----------------------------------------------------------------------------
(* Properties *)

ExtractionTypeOK ==
    /\ work.pc \in {"idle", "extract", "settle", "done"}
    /\ \A c \in work.candidates : c.entity \in {"requester", "document"}
    /\ work.saved \in 0..Cardinality(work.candidates)

\* A handled page with any text on it ends with a review case for every accepted
\* candidate, with a noise item for the language model, or with a recorded failure -
\* the gate may refuse all the extractors found, and then the noise item must be
\* there - except where the handler gave up: it does so only because it found no
\* database, and then nothing at all is left of the page.  Though most of
\* the extractors make their candidates about the document, those that leave are
\* about the entity that asked: the resolver refuses several entities at once.
PagesEndSomewhere ==
    /\ \A c \in work.candidates : c.entity = "requester"
    /\ work.pc = "done" /\ ~sheet.blank =>
          LET settled == \/ work.saved > 0 /\ work.saved = Cardinality(work.candidates)
                         \/ work.noise
                         \/ work.failed
          IN  settled <=> ~work.skipped
=============================================================================
