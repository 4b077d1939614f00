SPECIFICATION Spec
CONSTANTS
    Items = {i1, i2}
    Pages = {p1, p2}
    Values = {x1}
    DeskCases = {1, 2, 3}
    Paths = {f1, f2}
    Contents = {x}
    MaxOperations = 3
    Recorders = {r1, r2}
    MaxEntries = 4
    MaxTime = 2
    Templates = {t1}
    FieldNames = {n1, n2}
    Editors = {e1, e2}
    Nowhere = Nowhere
    PrintedDates <- TwoDates
    MaxMisreadings = 2
    PoorPage = 2
    PoorQuality = 1
    MaxLines = 2
    MaxPile = 2
    MaxCandidates = 4
    Viewers = {v1, v2}
    ProfileNames = {"surname", "email"}
    AcceptableFacts = {1, 2}
    NameOfFact <- TwoSurnames
    MaxFieldIds = 2
    Persons = {"p"}
    TraitsInPlay = {}
    ExpiryFields = {"passport_expiry"}
    ExpiryDays = {31}
    MaxDay = 1
    MaxQuestions = 2
    Printed <- FourWords
    MaxRetries = 2
    OutputTypes = {"profile_report", "fact_export"}
    StoreDates <- SomeDates
    StoreNumbers = {"n1", "n2"}
    StoreFields = {"dob", "date_of_birth", "valid_to", "mobile"}
    MaxStoreFacts = 2
    FormFields <- SomeFormFields
    Applicants = {a1, a2}
    ProfileTexts = {"new"}
    MaxProfileEdits = 2
    Extractions = {x1, x2}
    OldRows = {"old row"}
    NewRows = {"new row"}
    DisplayNames = {"n"}
    EntityTypes = {"person", "company"}
    MaxResidents = 2
    CaseKinds <- SomeCaseKinds
    MaxClaims = 2
    LimitPerBucket = 1
INVARIANTS
    ServicesTypeOK
    ProcessingIsAttended
    DeskTellsOneStory
    RollbackRestores
    LinksLeadBack
    StoredTemplateIsUsable
    CheckedDatesAreThePrintedOnes
    PagesEndSomewhere
    OthersDataStaysOut
    LabelledDatesKeepTheirMeaning
    MergedEntitiesAgree
    BuildsTellTheTruth
    AdvisorsAgree
    SavedAsTold
    NothingReadIsLost
    OutputsLeadBack
    NothingNewIsDropped
    CompletedFormsAreTrue
    MigrationKeepsRows
    PagesGuideTheUser
CHECK_DEADLOCK FALSE
