------------------------------ MODULE Guidance ------------------------------
(***************************************************************************)
(* Whose data the pages of one browser session act on, and what they tell  *)
(* its user to do next: the active entity (ui/layout/topbar.py, the pages  *)
(* settings, profile and advisory), the counts and advice of the home and  *)
(* profile pages (ui/services/api_client.py), and the review page's        *)
(* metrics and buckets (ui/viewmodels/review_vm.py).  Other sessions       *)
(* create entities and decide cases in between.                            *)
(*                                                                         *)
(* An action is one click: the script runs from the top to the handler,    *)
(* then again to show the result, and what it shows is a function of the   *)
(* state it leaves.  Residents and reviewCases are numbered in the order   *)
(* of their creation.                                                      *)
(***************************************************************************)
EXTENDS Naturals, Sequences, FiniteSets, SequencesExt

CONSTANTS
    DisplayNames, EntityTypes,
    MaxResidents,       \* bound: entities created
    CaseKinds,          \* the types of facts in play, with a confidence in hundredths
    MaxClaims,          \* bound: review cases opened
    LimitPerBucket      \* 20 in the code

ASSUME GuidanceAssumption ==
    /\ MaxResidents \in Nat /\ MaxClaims \in Nat /\ LimitPerBucket \in Nat \ {0}
    /\ \A k \in CaseKinds : k = [type |-> k.type, confidence |-> k.confidence] /\ k.confidence \in 0..100

VARIABLES
    residents,      \* entities table: display name and type
    filed,          \* documents table: the entities that have one
    reviewCases,    \* review_cases table: each with the fact it was opened for
    trusted,        \* profile_fields table: the entities that have fields
    visitor         \* st.session_state

guidanceVars == <<residents, filed, reviewCases, trusted, visitor>>

People == 1..Len(residents)

\* the forms, outputs and audit pages differ from home in nothing modelled here
PageIds == {"home", "documents", "review", "profile", "advisory", "settings"}
ClaimStatus == {"PENDING", "COMPLETED", "CANCELLED"}

GuidanceInit ==
    /\ residents = <<>> /\ filed = {} /\ reviewCases = <<>> /\ trusted = {}
    \* `chosen` is history: the entity the user last picked or created, 0 for none
    /\ visitor = [active |-> 0, chosen |-> 0, page |-> "home", selected |-> 0]

-----------------------------------------------------------------------------
(* Whose data a page acts on *)

\* list_entities is newest first, and a later entry of `options` replaces an earlier one: a
\* label, or on the advisory page a bare name, stands for the oldest entity that has it
Label == {"name", "type"}
Name == {"name"}

Namesakes(rows, e, shown) == {p \in DOMAIN rows : \A f \in shown : rows[p][f] = rows[e][f]}
Standing(rows, e, shown) == Min(Namesakes(rows, e, shown))

\* the select box shows the entity if an option stands for it, else the first option: a box
\* whose options or index changed starts again at its index
Picked(rows, e, shown) ==
    IF Standing(rows, e, shown) = e THEN e ELSE Standing(rows, Len(rows), shown)

\* an entity that does not exist gives way to the newest
Synced(rows, e) == IF e \in DOMAIN rows THEN e ELSE Len(rows)

Rendered(rows, e, page) ==
    IF rows = <<>> THEN 0
    ELSE LET top == Picked(rows, Synced(rows, e), Label)
         IN IF page = "advisory" THEN Picked(rows, top, Name) ELSE top

\* st.rerun with entity e active: the page that is shown settles on an entity
ShowPage(rows, e, page, chosen, selected) ==
    visitor' = [active |-> Rendered(rows, e, page), page |-> page,
                chosen |-> chosen, selected |-> selected]

Stay == ShowPage(residents, visitor.active, visitor.page, visitor.chosen, visitor.selected)
OpenPage(page) == ShowPage(residents, visitor.active, page, visitor.chosen, visitor.selected)
Choose(rows, e) == ShowPage(rows, e, visitor.page, e, visitor.selected)

NewResident == [name : DisplayNames, type : EntityTypes]

\* the forms of the settings and the profile page
CreatePerson ==
    /\ visitor.page \in {"settings", "profile"} /\ Len(residents) < MaxResidents
    /\ \E r \in NewResident : residents' = Append(residents, r)
    /\ Choose(residents', Len(residents'))
    /\ UNCHANGED <<filed, reviewCases, trusted>>

Activate ==
    /\ visitor.page = "settings"
    /\ \E e \in People \ {visitor.active} : Choose(residents, e)
    /\ UNCHANGED <<residents, filed, reviewCases, trusted>>

ChooseInTopbar ==
    /\ \E e \in People : visitor.active # Standing(residents, e, Label) /\ Choose(residents, Standing(residents, e, Label))
    /\ UNCHANGED <<residents, filed, reviewCases, trusted>>

ChooseInAdvisory ==
    /\ visitor.page = "advisory"
    /\ \E e \in People : visitor.active # Standing(residents, e, Name) /\ Choose(residents, Standing(residents, e, Name))
    /\ UNCHANGED <<residents, filed, reviewCases, trusted>>

-----------------------------------------------------------------------------
(* What the pages count and advise *)

ClaimsOf(e, status) == {c \in DOMAIN reviewCases : reviewCases[c].person = e /\ reviewCases[c].status = status}
Everywhere(status) == {c \in DOMAIN reviewCases : reviewCases[c].status = status}

LOW_VALUE_FACT_TYPES == {"review_candidate", "bic"}
LowValue(c) == reviewCases[c].type \in LOW_VALUE_FACT_TYPES

\* load_metrics: what the review page counts
Metrics(e) ==
    LET pending == ClaimsOf(e, "PENDING")
    IN [pending |-> Cardinality(pending),
        accepted |-> Cardinality(ClaimsOf(e, "COMPLETED")),
        rejected |-> Cardinality(ClaimsOf(e, "CANCELLED")),
        visible |-> Cardinality({c \in pending : reviewCases[c].confidence >= 50 /\ ~LowValue(c)}),
        hiddenForLlm |-> Cardinality({c \in pending : reviewCases[c].confidence < 50 \/ LowValue(c)})]

\* Bug variant: the highest bucket ends below certainty.
BUCKETSBelowOne == <<<<90, 100>>, <<80, 90>>, <<70, 80>>, <<60, 70>>, <<50, 60>>, <<0, 50>>>>

BUCKETS == <<<<90, 101>>, <<80, 90>>, <<70, 80>>, <<60, 70>>, <<50, 60>>, <<0, 50>>>>

\* load_bucketed_queue, with the filters of the page: the low-value box and the types wanted
Bucket(e, b, includeLowValue, wanted) ==
    {c \in ClaimsOf(e, "PENDING") :
        /\ reviewCases[c].confidence >= BUCKETS[b][1] /\ reviewCases[c].confidence < BUCKETS[b][2]
        /\ includeLowValue \/ ~LowValue(c)
        /\ reviewCases[c].type \in wanted}

\* the best, and of equals the newest, up to the limit
Better(c, d) == \/ reviewCases[c].confidence > reviewCases[d].confidence
                \/ reviewCases[c].confidence = reviewCases[d].confidence /\ c > d

Queue(e, includeLowValue, wanted) ==
    UNION {LET found == Bucket(e, b, includeLowValue, wanted)
           IN {c \in found : Cardinality({d \in found : Better(d, c)}) < LimitPerBucket} :
           b \in DOMAIN BUCKETS}

CaseTypes == {k.type : k \in CaseKinds}

\* load_fact_types: the types the filter offers beside All
OfferedTypes(e) == {reviewCases[c].type : c \in {d \in ClaimsOf(e, "PENDING") : reviewCases[d].confidence >= 50}}

\* without an active entity the view model takes the entity of the newest case
ReviewedPerson == IF visitor.active # 0 THEN visitor.active
                  ELSE IF reviewCases # <<>> THEN Last(reviewCases).person ELSE 0

\* the clean state takes the place of the queue and of the selected case
Clean == Metrics(ReviewedPerson).pending = 0 /\ Queue(ReviewedPerson, TRUE, CaseTypes) = {}

HasProfile(e) == e \in trusted
ProfilesCount == Cardinality(trusted)

\* get_profile_status, for one entity
ProfileStep(e) ==
    IF e \notin filed THEN "upload documents"
    ELSE IF ClaimsOf(e, "PENDING") # {} THEN "review pending facts"
    ELSE IF ClaimsOf(e, "COMPLETED") = {} THEN "accept facts"
    ELSE IF ~HasProfile(e) THEN "build the profile"
    ELSE "ready"

\* get_health counts the whole database; the upload stores no output
Health == [entities |-> Len(residents), documents |-> Cardinality(filed),
           extractedFacts |-> Len(reviewCases), acceptedFacts |-> Cardinality(Everywhere("COMPLETED")),
           pendingReview |-> Cardinality(Everywhere("PENDING")), profiles |-> ProfilesCount,
           outputs |-> 0]

\* _compute_next_step
Stage ==
    IF Health.entities = 0 THEN "Entity Start"
    ELSE IF Health.documents = 0 THEN "Document Intake"
    ELSE IF Health.extractedFacts = 0 THEN "Extraction"
    ELSE IF Health.pendingReview > 0 /\ Health.acceptedFacts = 0 THEN "Human Review"
    ELSE IF Health.acceptedFacts > 0 /\ Health.profiles = 0 THEN "Profile Build"
    ELSE IF Health.profiles > 0 /\ Health.outputs = 0 THEN "Forms and Output"
    ELSE "Operational"

\* the button of the home page, beside the stage
HomeButton ==
    IF Health.entities = 0 THEN "profile"
    ELSE IF Health.documents = 0 THEN "documents"
    ELSE IF Health.pendingReview > 0 THEN "review"
    ELSE IF Health.profiles = 0 THEN "profile"
    ELSE "documents"

-----------------------------------------------------------------------------
(* What the user does *)

GoTo ==
    /\ \E page \in PageIds \ {visitor.page} : OpenPage(page)
    /\ UNCHANGED <<residents, filed, reviewCases, trusted>>

FollowHome ==
    /\ visitor.page = "home" /\ OpenPage(HomeButton)
    /\ UNCHANGED <<residents, filed, reviewCases, trusted>>

FollowProfile ==
    /\ visitor.page = "profile" /\ visitor.active # 0
    /\ \/ ProfileStep(visitor.active) = "upload documents" /\ OpenPage("documents")
       \/ ProfileStep(visitor.active) = "review pending facts" /\ OpenPage("review")
    /\ UNCHANGED <<residents, filed, reviewCases, trusted>>

NewClaim(e) ==
    {[person |-> e, confidence |-> k.confidence, type |-> k.type, status |-> "PENDING"] : k \in CaseKinds}

\* an upload that yields nothing, or a fact with the case opened for it
Upload ==
    /\ visitor.page = "documents" /\ visitor.active # 0
    /\ filed' = filed \cup {visitor.active}
    /\ \/ reviewCases' = reviewCases
       \/ Len(reviewCases) < MaxClaims /\ \E new \in NewClaim(visitor.active) : reviewCases' = Append(reviewCases, new)
    /\ Stay
    /\ UNCHANGED <<residents, trusted>>

OpenClaim ==
    /\ visitor.page = "review" /\ ~Clean
    /\ \E c \in Queue(ReviewedPerson, TRUE, CaseTypes) \ {visitor.selected} :
        ShowPage(residents, visitor.active, "review", visitor.chosen, c)
    /\ UNCHANGED <<residents, filed, reviewCases, trusted>>

\* the selected case stays open when the active entity changes; it is decided for its own
DecideClaim ==
    /\ visitor.page = "review" /\ ~Clean
    /\ visitor.selected # 0 /\ reviewCases[visitor.selected].status = "PENDING"
    /\ \E status \in ClaimStatus \ {"PENDING"} : reviewCases' = [reviewCases EXCEPT ![visitor.selected].status = status]
    /\ ShowPage(residents, visitor.active, "review", visitor.chosen, 0)
    /\ UNCHANGED <<residents, filed, trusted>>

BuildFromAccepted ==
    /\ visitor.page = "profile" /\ visitor.active # 0 /\ ClaimsOf(visitor.active, "COMPLETED") # {}
    /\ trusted' = trusted \cup {visitor.active}
    /\ Stay
    /\ UNCHANGED <<residents, filed, reviewCases>>

ClearTrusted ==
    /\ visitor.page = "profile" /\ visitor.active # 0
    /\ trusted' = trusted \ {visitor.active}
    /\ Stay
    /\ UNCHANGED <<residents, filed, reviewCases>>

\* the same clicks in another session; this one shows the old state until its next click
Elsewhere ==
    /\ UNCHANGED <<trusted, visitor>>
    /\ \/ /\ Len(residents) < MaxResidents
          /\ \E r \in NewResident : residents' = Append(residents, r)
          /\ UNCHANGED <<filed, reviewCases>>
       \/ /\ \E c \in Everywhere("PENDING"), status \in ClaimStatus \ {"PENDING"} :
                reviewCases' = [reviewCases EXCEPT ![c].status = status]
          /\ UNCHANGED <<residents, filed>>

GuidanceNext ==
    \/ CreatePerson \/ Activate \/ ChooseInTopbar \/ ChooseInAdvisory
    \/ GoTo \/ FollowHome \/ FollowProfile
    \/ Upload \/ OpenClaim \/ DecideClaim \/ BuildFromAccepted \/ ClearTrusted
    \/ Elsewhere

GuidanceSpec == GuidanceInit /\ [][GuidanceNext]_guidanceVars

-----------------------------------------------------------------------------

GuidanceTypeOK ==
    /\ residents \in Seq(NewResident)
    /\ filed \subseteq People /\ trusted \subseteq People
    /\ \A c \in DOMAIN reviewCases :
        /\ reviewCases[c].person \in People /\ reviewCases[c].status \in ClaimStatus
        /\ [type |-> reviewCases[c].type, confidence |-> reviewCases[c].confidence] \in CaseKinds
    /\ visitor \in [active : People \cup {0}, chosen : People \cup {0}, page : PageIds,
                    selected : DOMAIN reviewCases \cup {0}]

\* Whoever the user chose stays the one the pages act on, through every page and whatever
\* other sessions create, unless an older entity has the same name.
ChosenStaysActive ==
    LET chosen == visitor.chosen
    IN chosen # 0 /\ Standing(residents, chosen, Name) = chosen => visitor.active = chosen

\* The advice leads somewhere: a person told to review finds a case in the queue, a person told
\* to build has something to build from, and with one entity the home page agrees.  The
\* metrics and the buckets count every pending case once, and a type that is offered is found.
AdviceCanBeFollowed ==
    /\ \A e \in People :
        /\ ProfileStep(e) = "review pending facts" => Queue(e, TRUE, CaseTypes) # {}
        /\ ProfileStep(e) = "build the profile" => ClaimsOf(e, "COMPLETED") # {}
        /\ Metrics(e).pending = Metrics(e).visible + Metrics(e).hiddenForLlm
        /\ \A c \in ClaimsOf(e, "PENDING") :
            Cardinality({b \in DOMAIN BUCKETS : c \in Bucket(e, b, TRUE, CaseTypes)}) = 1
        /\ \A t \in OfferedTypes(e) : Queue(e, TRUE, {t}) # {}
    /\ Len(residents) = 1 /\ Stage = "Human Review" =>
        HomeButton = "review" /\ Queue(1, TRUE, CaseTypes) # {}

\* The pages guide the user about the person the user chose, to steps that can be taken.
PagesGuideTheUser == ChosenStaysActive /\ AdviceCanBeFollowed
=============================================================================
