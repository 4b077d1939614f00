------------------------------- MODULE Advisory -------------------------------
(***************************************************************************)
(* The advisory page: ui/pages/advisory.py, ui/viewmodels/advisory_vm.py   *)
(* and the two advisors behind it, processing/llm/personal_advisor/ and    *)
(* processing/llm/proactive_advisor.py.  One session chooses a person,     *)
(* keeps the advice for that person in a cache, and asks questions, one of *)
(* which opens review cases.                                               *)
(*                                                                         *)
(* A profile is the set of its remarkable fields and the day on which each *)
(* field that names an expiry ends.  Wording and languages are left out;   *)
(* so is the order of the advice, which the set of items determines.       *)
(***************************************************************************)
EXTENDS Integers, Sequences, FiniteSets

CONSTANTS
    Persons,        \* the active entities
    TraitsInPlay,   \* what a profile may show beside expiries
    ExpiryFields,   \* its fields that name an expiry
    ExpiryDays,     \* the days they may end on
    MaxDay,         \* bound: days that pass
    MaxQuestions    \* bound: questions asked

\* a day is counted from today, so an expiry may lie behind
ASSUME AdvisoryAssumption == ExpiryDays \subseteq Int /\ MaxDay \in Nat /\ MaxQuestions \in Nat

VARIABLES
    portrait,       \* profiles table: one row for a person, or none
    day,            \* today
    advisor,        \* the session: its page, its cache and the call it is in
    claims          \* review_cases opened by the chat

advisoryVars == <<portrait, day, advisor, claims>>

NoPortrait == [traits |-> {"none"}, ends |-> <<>>]
NoAdvice == [person |-> "nobody", found |-> FALSE, personal |-> {}, proactive |-> {}, days |-> {}]

\* a row of the profiles table; a field whose date cannot be read has no day
Portraits == [traits : SUBSET TraitsInPlay, ends : UNION {[F -> ExpiryDays] : F \in SUBSET ExpiryFields}]

AdvisoryInit ==
    /\ portrait = [p \in Persons |-> NoPortrait]
    /\ day = 0
    /\ advisor = [pc |-> "idle", person |-> "nobody", cache |-> NoAdvice,
                  vault |-> NoPortrait, draft |-> NoAdvice, null |-> FALSE,
                  history |-> <<>>, declared |-> {}, inserted |-> {}]
    /\ claims = {}

-----------------------------------------------------------------------------
(* The two advisors *)

\* the fields that end within `warning` days, as the personal advisor counts them
ExpiringDocs(row, today, warning) ==
    {[field |-> f, days |-> row.ends[f] - today] : f \in {g \in DOMAIN row.ends : row.ends[g] - today <= warning}}

DocumentAdvice(doc) ==
    [category |-> "documents", field |-> doc.field,
     severity |-> IF doc.days < 0 \/ doc.days <= 30 THEN "critical" ELSE "warning"]

General(category, severity) == [category |-> category, field |-> "none", severity |-> severity]

\* the vault of the page holds no conflicts, so that rule has nothing to count
RunRules(row, today) ==
    {DocumentAdvice(doc) : doc \in ExpiringDocs(row, today, 90)}
    \cup {General("general", "warning") : t \in row.traits \cap {"incomplete"}}
    \cup {General("health", "info") : t \in row.traits \cap {"aged"}}
    \cup {General("financial", "info") : t \in {u \in row.traits : {"iban", "bank"} \subseteq row.traits}}
    \cup {General("family", "info") : t \in row.traits \cap {"married"}}
    \cup {General("employment", "info") : t \in {u \in row.traits : {"employer", "job"} \subseteq row.traits}}

\* no profile: nothing to advise
PersonalAdvice(row, today) == IF row = NoPortrait THEN {} ELSE RunRules(row, today)

\* Bug variant: the day that is thirty days ahead is not urgent yet.
SeverityLate(days) == IF days < 30 THEN "critical" ELSE IF days <= 90 THEN "warning" ELSE "info"

Severity(days) ==
    IF days <= 30 THEN "critical" ELSE IF days <= 90 THEN "warning" ELSE "info"

ProactiveAdvice(row, today) ==
    {[field |-> f, severity |-> Severity(row.ends[f] - today)] :
        f \in {g \in DOMAIN row.ends : row.ends[g] - today <= 90}}

-----------------------------------------------------------------------------
(* The world *)

BuildPortrait(p) ==
    /\ \E row \in Portraits : portrait' = [portrait EXCEPT ![p] = row]
    /\ UNCHANGED <<day, advisor, claims>>

PassMidnight ==
    /\ day < MaxDay
    /\ day' = day + 1
    /\ UNCHANGED <<portrait, advisor, claims>>

-----------------------------------------------------------------------------
(* The page: choosing a person, and the cache of its advice *)

\* another person: the cache goes, what was asked and answered stays
SelectPerson(p) ==
    /\ advisor.pc = "idle" /\ p # advisor.person
    /\ advisor' = [advisor EXCEPT !.person = p, !.cache = NoAdvice]
    /\ UNCHANGED <<portrait, day, claims>>

\* the cache is empty or of somebody else, or Refresh is pressed
LoadAdvice ==
    /\ advisor.pc = "idle" /\ advisor.person \in Persons
    /\ advisor' = [advisor EXCEPT !.pc = "personal", !.null = FALSE, !.vault = portrait[advisor.person],
                                  !.draft = [NoAdvice EXCEPT !.person = advisor.person]]
    /\ UNCHANGED <<portrait, day, claims>>

\* the person is gone or its row cannot be read: there is no advice to show
FindNoVault ==
    /\ advisor.pc = "idle" /\ advisor.person \in Persons
    /\ advisor' = [advisor EXCEPT !.cache = [NoAdvice EXCEPT !.person = advisor.person]]
    /\ UNCHANGED <<portrait, day, claims>>

AdvisePersonal ==
    /\ advisor.pc = "personal"
    /\ advisor' = [advisor EXCEPT !.pc = "proactive", !.draft.days = {day},
                                  !.draft.personal = PersonalAdvice(advisor.vault, day)]
    /\ UNCHANGED <<portrait, day, claims>>

AdviseProactive ==
    /\ advisor.pc = "proactive"
    /\ advisor' = [advisor EXCEPT !.pc = "idle", !.draft = NoAdvice, !.vault = NoPortrait, !.null = FALSE,
                                  !.cache = [advisor.draft EXCEPT !.found = TRUE, !.days = @ \cup {day},
                                                                  !.proactive = ProactiveAdvice(advisor.vault, day)]]
    /\ UNCHANGED <<portrait, day, claims>>

\* an advisor raises: both start over without a language model, and a second time there is no advice
AdvisorFails ==
    /\ advisor.pc \in {"personal", "proactive"}
    /\ advisor' = IF advisor.null
                  THEN [advisor EXCEPT !.pc = "idle", !.cache = [NoAdvice EXCEPT !.person = advisor.person],
                                       !.draft = NoAdvice, !.vault = NoPortrait, !.null = FALSE]
                  ELSE [advisor EXCEPT !.pc = "personal", !.null = TRUE]
    /\ UNCHANGED <<portrait, day, claims>>

-----------------------------------------------------------------------------
(* The chat *)

\* what the phrases of a question are about, in the order in which the chat asks
TopicsInOrder == <<{"blank"}, {"assistant"}, {"assistantAge"}, {"greeting"}, {"noise"}, {"save"}, {"me", "review", "profile"}>>
Topics == UNION {TopicsInOrder[k] : k \in DOMAIN TopicsInOrder}
Answers == <<"blank", "assistant", "assistant", "greeting", "noise", "save", "summary">>

\* the first topic that applies decides who answers; with none it is the language model
AnswerKind(topics) ==
    LET hits == {k \in DOMAIN TopicsInOrder : TopicsInOrder[k] \cap topics # {}}
    IN  IF hits = {} THEN "model" ELSE Answers[CHOOSE k \in hits : \A l \in hits : k <= l]

\* read anew after the context of the prompt
HasPortrait(p) == portrait[p] # NoPortrait

\* what the tables tell: a profile is trusted, a review case is a candidate only
Summary(topics) ==
    LET built == HasPortrait(advisor.person) IN
    CASE topics \cap {"me", "profile"} # {} /\ built -> "trusted"
      [] "me" \in topics /\ ~built -> "candidates"
      [] topics \cap {"me", "profile"} = {"profile"} /\ ~built -> "nothing trusted"
      [] topics \cap {"me", "review", "profile"} = {"review"} -> "candidates"
      [] OTHER -> "counts"

\* the model answers, or claims to be the user, or fails and a summary stands in
Replies(topics) ==
    CASE AnswerKind(topics) = "model" -> {"model", "assistant", Summary(topics)}
      [] AnswerKind(topics) = "summary" -> {Summary(topics)}
      [] OTHER -> {AnswerKind(topics)}

Answered(kind) == Append(advisor.history, [person |-> advisor.person, kind |-> kind, facts |-> {}])

AskAdvisor(topics) ==
    /\ advisor.pc = "idle" /\ advisor.cache.found /\ advisor.cache.person = advisor.person
    /\ Len(advisor.history) < MaxQuestions
    /\ AnswerKind(topics) # "save"
    /\ \E kind \in Replies(topics) :
          advisor' = [advisor EXCEPT !.history = Answered(kind)]
    /\ UNCHANGED <<portrait, day, claims>>

\* "save this info": the name and the age it declares, as far as they are found
DeclareFacts(facts) ==
    /\ advisor.pc = "idle" /\ advisor.cache.found /\ advisor.cache.person = advisor.person
    /\ Len(advisor.history) < MaxQuestions
    /\ advisor' = IF facts = {}
                  THEN [advisor EXCEPT !.history = Answered("unclear")]
                  ELSE [advisor EXCEPT !.pc = "saving", !.declared = facts, !.inserted = {}]
    /\ UNCHANGED <<portrait, day, claims>>

Claim(fact) == [question |-> Len(advisor.history) + 1, person |-> advisor.person, fact |-> fact]

\* Bug variant: every insert is committed by itself.
InsertClaimAtOnce(fact) ==
    /\ advisor.pc = "saving" /\ fact \in advisor.declared \ advisor.inserted
    /\ "name" \in advisor.declared \ advisor.inserted => fact = "name"
    /\ advisor' = [advisor EXCEPT !.inserted = @ \cup {fact}]
    /\ claims' = claims \cup {Claim(fact)}
    /\ UNCHANGED <<portrait, day>>

\* inside the transaction of the connection; the name goes first
InsertClaim(fact) ==
    /\ advisor.pc = "saving" /\ fact \in advisor.declared \ advisor.inserted
    /\ "name" \in advisor.declared \ advisor.inserted => fact = "name"
    /\ advisor' = [advisor EXCEPT !.inserted = @ \cup {fact}]
    /\ UNCHANGED <<portrait, day, claims>>

CommitClaims ==
    /\ advisor.pc = "saving" /\ advisor.inserted = advisor.declared
    /\ claims' = claims \cup {Claim(fact) : fact \in advisor.inserted}
    /\ advisor' = [advisor EXCEPT !.pc = "idle", !.declared = {}, !.inserted = {},
                     !.history = Append(@, [person |-> advisor.person, kind |-> "saved", facts |-> advisor.declared])]
    /\ UNCHANGED <<portrait, day>>

\* an insert or the commit raises: the transaction is rolled back
ClaimFails ==
    /\ advisor.pc = "saving"
    /\ advisor' = [advisor EXCEPT !.pc = "idle", !.declared = {}, !.inserted = {}, !.history = Answered("failed")]
    /\ UNCHANGED <<portrait, day, claims>>

AdvisoryNext ==
    \/ \E p \in Persons : BuildPortrait(p) \/ SelectPerson(p)
    \/ PassMidnight
    \/ LoadAdvice \/ FindNoVault \/ AdvisePersonal \/ AdviseProactive \/ AdvisorFails
    \/ \E one \in Topics : \E topics \in {{}, {one}} \cup {{one, other} : other \in Topics} : AskAdvisor(topics)
    \/ \E facts \in SUBSET {"name", "age"} : DeclareFacts(facts)
    \/ \E fact \in {"name", "age"} : InsertClaim(fact)
    \/ CommitClaims \/ ClaimFails

AdvisorySpec == AdvisoryInit /\ [][AdvisoryNext]_advisoryVars

-----------------------------------------------------------------------------
(* Properties *)

AdvisoryTypeOK ==
    /\ portrait \in [Persons -> Portraits \cup {NoPortrait}]
    /\ day \in 0..MaxDay
    /\ advisor.pc \in {"idle", "personal", "proactive", "saving"}
    /\ advisor.person \in Persons \cup {"nobody"}
    /\ Len(advisor.history) <= MaxQuestions

\* The two advisors read the same vault with code of their own, each with its own
\* thresholds and its own clock.  The page never shows one of them warning of an expiry the
\* other does not mention or finds less urgent, unless midnight passed between the two.
AdvisorsAgree ==
    LET seen == {[field |-> i.field, severity |-> i.severity] :
                     i \in {j \in advisor.cache.personal : j.category = "documents"}}
    IN  Cardinality(advisor.cache.days) < 2 => seen = advisor.cache.proactive

\* What the chat says about saving is so: it told of the very cases it opened, name and age together or
\* neither, and no case exists that it did not tell of.
SavedAsTold ==
    claims = UNION {{[question |-> n, person |-> advisor.history[n].person, fact |-> f] : f \in advisor.history[n].facts} :
                       n \in 1..Len(advisor.history)}
=============================================================================
