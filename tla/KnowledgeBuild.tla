---------------------------- MODULE KnowledgeBuild ----------------------------
(***************************************************************************)
(* Which candidates become facts of the person, under which name, and      *)
(* which stay evidence: processing/knowledge_build/knowledge_builder.py    *)
(* behind the quality gate, as the knowledge build handler runs it.        *)
(*                                                                         *)
(* The builder looks for words in the name, the value and the surroundings *)
(* of a candidate; extraction records no surroundings, so name and value   *)
(* decide.  A value is known by its form, a form by the lists of words     *)
(* (topics) it contains a member of: "agWord" is a surname such as Wagner, *)
(* which contains the "ag" of a company.                                   *)
(***************************************************************************)
EXTENDS Naturals, Sequences, FiniteSets

CONSTANT MaxPile        \* bound: candidates handed over at once

VARIABLES
    pile,       \* the candidates of the extraction artifact
    built       \* the result of the build

knowledgeVars == <<pile, built>>

Fields == {"surname", "place_of_birth", "date_of_birth", "date_of_issue", "date_of_expiry", "date", "passport_number",
           "document_number", "customer_number", "tax_id", "address", "amount", "phone_number", "email", "iban",
           "employer", "issuing_authority"}

Texts == {"word", "agWord", "twoWords", "street", "bank", "organisation", "authority", "taxOffice",
          "formText", "staff", "mail", "officeMail"}
Dates == {"adultDate", "recentDate", "soonDate", "futureDate"}
Numbers == {"digits", "digitsDate", "code", "mobile", "account", "postal", "money"}

\* the forms the quality gate lets through under a name
Gated(field) ==
    CASE field \in {"surname", "place_of_birth", "address", "employer", "issuing_authority"} -> Texts
      [] field \in {"date_of_birth", "date_of_issue", "date_of_expiry", "date"} -> Dates
      [] field = "passport_number" -> {"digits", "digitsDate", "code"}
      [] field = "document_number" -> {"code"}
      [] field \in {"customer_number", "tax_id"} -> Numbers \cup Dates
      [] field = "phone_number" -> {"mobile"}
      [] field = "email" -> {"mail", "officeMail"}
      [] field = "iban" -> {"account"}
      [] field = "amount" -> {"money"}

NamedCandidates == UNION {{[field |-> f, form |-> v] : v \in Gated(f)} : f \in Fields}

Unbuilt == [pc |-> "waiting", facts |-> {}, evidence |-> {}]
KnowledgeInit == pile = {} /\ built = Unbuilt

-----------------------------------------------------------------------------
(* The lists of names *)

EvidenceOnly == {"date", "document_date", "legal_reference_date", "organization_name", "contact_email", "contact_phone",
                 "organization_iban", "organization_address", "organization_reference", "employer",
                 "public_authority_reference", "tax_reference", "health_reference", "business_reference",
                 "bank_reference", "form_instruction", "reference_noise"}
PersonNames == {"surname"}
AddressNames == {"address"}
PhoneNames == {"phone_number", "contact_phone"}
MailNames == {"email", "contact_email"}
ReferenceNames == {"customer_number", "document_number"}
Protected == {"surname", "date_of_birth", "place_of_birth", "tax_id", "iban", "phone_number", "email", "address"}
DateNames == {"date", "date_of_birth", "date_of_issue"}

-----------------------------------------------------------------------------
(* The lists of words: the names and the forms of values that contain one *)

LegalReferenceDateHints == {"organisation"}
HealthContextHints == {"organisation"}
BusinessContextHints == {"employer"}
BankContextHints == {"bank", "iban"}
TaxContextHints == {"taxOffice"}
AuthorityContextHints == {"authority", "taxOffice", "issuing_authority"}
FormContextHints == {"formText"}
NonPersonContextHints == {"street", "bank", "organisation", "authority", "taxOffice", "formText", "email", "iban",
                          "employer", "issuing_authority"}
OrganizationValueHints == {"agWord", "bank", "organisation", "authority", "taxOffice", "issuing_authority"}
PhoneContextNoiseHints == {"authority", "taxOffice", "phone_number"}
FormValueNoiseHints == {"formText"}
ReferenceNoiseHints == {"bank", "authority", "taxOffice", "email"}
NameContextNoiseHints == {"staff"}

\* _candidate_context_text: the name and the value are all there is around a value
ContextText(c) == {c.field, c.form}
Hits(text, hints) == text \cap hints # {}
InContext(c, hints) == Hits(ContextText(c), hints)
InValue(c, hints) == Hits({c.form}, hints)

-----------------------------------------------------------------------------
(* What a value looks like *)

LooksLikeDate(c) == c.form \in Dates \cup {"digitsDate"}
LooksLikeRealAddress(c) == c.form = "postal"
SeveralWords(c) == c.form \in {"twoWords", "organisation", "authority", "taxOffice", "formText", "staff"}
Mailbox(c) == c.form \in {"mail", "officeMail"}
\* capitalised words
StrongPersonSignal(c, field) ==
    \/ /\ field \in PersonNames
       /\ c.form \in {"word", "agWord", "twoWords", "street", "bank", "authority", "taxOffice", "formText", "staff"}
    \/ field = "date_of_birth" /\ LooksLikeDate(c)
    \/ field \in AddressNames /\ LooksLikeRealAddress(c)

\* the name a rule gives when it holds
NoName == "none"
Rule(holds, name) == IF holds THEN name ELSE NoName

\* the name the first rule that holds gives
FirstRule(rules) ==
    rules[CHOOSE i \in DOMAIN rules : rules[i] # NoName /\ \A j \in 1..(i - 1) : rules[j] = NoName]

-----------------------------------------------------------------------------
(* Names *)

\* a passport is the only name that counts as the surroundings of a date of birth
BirthContext(c) == c.field = "passport_number"

\* Bug variant: the calendar is asked before the name.
ClassifiedByCalendar(c) ==
    FirstRule(<<
        Rule(c.form = "futureDate", "expiry_date"),
        Rule(c.form \in {"soonDate", "recentDate"}, "document_date"),
        Rule(c.field = "date_of_birth", "date_of_birth"),
        Rule(c.field = "date_of_issue", "issue_date"),
        Rule(TRUE, "date") >>)

\* _classify_date_field: the words around, then the name it came with - date_of_expiry is not in the
\* list - then the calendar
ClassifiedDate(c) ==
    FirstRule(<<
        Rule(InContext(c, LegalReferenceDateHints), "legal_reference_date"),
        Rule(InContext(c, TaxContextHints), "document_date"),
        Rule(c.field = "date_of_birth", "date_of_birth"),
        Rule(c.field = "date_of_issue", "issue_date"),
        Rule(c.form = "futureDate", "expiry_date"),
        Rule(c.form = "soonDate", "document_date"),
        Rule(c.form \in {"adultDate", "digitsDate"} /\ BirthContext(c), "date_of_birth"),
        Rule(c.form = "recentDate", "document_date"),
        Rule(TRUE, "date") >>)

NonPersonContact(c, field) ==
    /\ field \in PhoneNames \cup MailNames
    /\ \/ InContext(c, NonPersonContextHints)
       \/ field \in PhoneNames /\ InContext(c, PhoneContextNoiseHints)
       \/ field \in MailNames /\ (c.form = "officeMail" \/ InValue(c, OrganizationValueHints))

\* Bug variant: the words of the value are not looked up in the list of organisations.
OrganizationByContext(c, field) ==
    field \in PersonNames /\ ((InContext(c, NonPersonContextHints) /\ SeveralWords(c)) \/ c.form = "street")

LikelyOrganizationName(c, field) ==
    /\ field \in PersonNames
    /\ \/ InValue(c, OrganizationValueHints)
       \/ InContext(c, NonPersonContextHints) /\ SeveralWords(c)
       \/ c.form = "street"

NonPersonIban(c, field) == field \in {"iban", "organization_iban"} /\ InContext(c, NonPersonContextHints)

OrganizationContext(c) == InContext(c, NonPersonContextHints) \/ InValue(c, OrganizationValueHints)

PhoneNoise(c, field) ==
    field \in PhoneNames /\ (c.form # "mobile" \/ InContext(c, NonPersonContextHints \cup PhoneContextNoiseHints))

ReferenceNoise(c, field) ==
    /\ field \in ReferenceNames
    /\ \/ InValue(c, ReferenceNoiseHints)
       \/ InContext(c, FormContextHints \cup AuthorityContextHints \cup HealthContextHints \cup TaxContextHints
                        \cup BankContextHints)
       \/ c.form \in Texts

\* _resolve_field_name
ResolvedName(c) ==
    FirstRule(<<
        Rule(c.field \in DateNames \/ LooksLikeDate(c), ClassifiedDate(c)),
        Rule(c.field = "email" /\ NonPersonContact(c, "email"), "contact_email"),
        Rule(c.field \in PhoneNames /\ (NonPersonContact(c, c.field) \/ PhoneNoise(c, c.field)), "contact_phone"),
        Rule(LikelyOrganizationName(c, c.field), "organization_name"),
        Rule(NonPersonIban(c, c.field), "organization_iban"),
        Rule(c.field \in AddressNames /\ OrganizationContext(c), "organization_address"),
        Rule(c.field \in ReferenceNames /\ OrganizationContext(c), "organization_reference"),
        Rule(ReferenceNoise(c, c.field), "reference_noise"),
        Rule(InContext(c, HealthContextHints) /\ c.field \notin Protected, "health_reference"),
        Rule(InContext(c, TaxContextHints) /\ c.field \notin Protected, "tax_reference"),
        Rule(InContext(c, BusinessContextHints) /\ c.field \notin Protected, "business_reference"),
        Rule(InContext(c, BankContextHints) /\ c.field # "iban", "bank_reference"),
        Rule(InContext(c, AuthorityContextHints) /\ c.field \notin Protected, "public_authority_reference"),
        Rule(InContext(c, FormContextHints) /\ c.field \notin Protected, "form_instruction"),
        Rule(TRUE, c.field) >>)

-----------------------------------------------------------------------------
(* Noise *)

JunkValue(c, field) == (Mailbox(c) /\ field \notin MailNames) \/ InValue(c, FormValueNoiseHints)

AddressNoise(c, field) == field \in AddressNames /\ ~LooksLikeRealAddress(c)

FormValueNoise(c, field) ==
    /\ ~(field \in Protected /\ StrongPersonSignal(c, field))
    /\ InValue(c, FormValueNoiseHints) \/ (InContext(c, FormContextHints) /\ field \notin Protected)

NameNoise(c, field) ==
    field \in PersonNames /\ (InContext(c, NameContextNoiseHints \cup AuthorityContextHints \cup BusinessContextHints) \/ Mailbox(c))

DomainNoise(c, field) ==
    /\ ~(field \in Protected /\ StrongPersonSignal(c, field))
    /\ \/ InContext(c, FormContextHints) /\ field \notin Protected
       \/ InContext(c, HealthContextHints \cup TaxContextHints \cup BusinessContextHints \cup BankContextHints \cup AuthorityContextHints) /\ field \in AddressNames
       \/ field \in PhoneNames /\ InContext(c, PhoneContextNoiseHints \cup AuthorityContextHints \cup HealthContextHints \cup TaxContextHints \cup BusinessContextHints)
       \/ field \in ReferenceNames /\ InContext(c, NonPersonContextHints)

\* amounts are marked as no fact of a person by the extractor
NotOfPerson(c) == c.field = "amount"

\* _should_build_fact
ShouldBuildFact(c) ==
    LET field == ResolvedName(c) IN
    /\ c.field \notin EvidenceOnly /\ field \notin EvidenceOnly /\ ~NotOfPerson(c)
    /\ ~JunkValue(c, field) /\ ~NonPersonContact(c, field) /\ ~LikelyOrganizationName(c, field)
    /\ ~NonPersonIban(c, field) /\ ~AddressNoise(c, field) /\ ~PhoneNoise(c, field)
    /\ ~ReferenceNoise(c, field) /\ ~FormValueNoise(c, field) /\ ~NameNoise(c, field) /\ ~DomainNoise(c, field)

-----------------------------------------------------------------------------
(* Building *)

BuildFact(c) == [name |-> ResolvedName(c), of |-> c]
BuildEvidence(c) == [name |-> ResolvedName(c), of |-> c]

TakeCandidates ==
    /\ built.pc = "waiting" /\ pile = {}
    /\ \E first \in NamedCandidates :
          \E rest \in SUBSET {c \in NamedCandidates : c.field = first.field} :
             Cardinality(rest) < MaxPile /\ pile' = rest \cup {first}
    /\ UNCHANGED built

\* a fact and its links, the provenance among them, for the candidates that are the person's; evidence for all
BuildKnowledge ==
    /\ built.pc = "waiting" /\ pile # {}
    /\ built' = [pc |-> "built", facts |-> {BuildFact(c) : c \in {x \in pile : ShouldBuildFact(x)}},
                 evidence |-> {BuildEvidence(c) : c \in pile}]
    /\ UNCHANGED pile

KnowledgeNext == TakeCandidates \/ BuildKnowledge
KnowledgeSpec == KnowledgeInit /\ [][KnowledgeNext]_knowledgeVars

-----------------------------------------------------------------------------
(* Properties *)

KnowledgeTypeOK ==
    /\ pile \subseteq NamedCandidates
    /\ built.pc \in {"waiting", "built"}
    /\ \A f \in built.facts : f.of \in pile
    /\ {e.of : e \in built.evidence} \in {{}, pile}

\* What belongs to an organisation does not enter the person's name, address or
\* means of contact: the value is recognised under the name it came with or
\* under the one it was given, whichever of the lists of words it hits.
OthersDataStaysOut ==
    \A f \in built.facts :
        f.name \in PersonNames \cup AddressNames \cup PhoneNames \cup MailNames \cup {"iban"}
            => ~InValue(f.of, OrganizationValueHints \cup NonPersonContextHints \cup NameContextNoiseHints)

\* A date that was read next to its label is stored under the meaning of the label or
\* not at all, whatever the calendar suggests: a date of birth never becomes a
\* date of expiry, nor an issue date a date of birth.
LabelledDatesKeepTheirMeaning ==
    \A f \in built.facts :
        /\ f.of.field = "date_of_birth" => f.name = "date_of_birth"
        /\ f.of.field = "date_of_issue" => f.name = "issue_date"
        /\ f.of.field = "date_of_expiry" => f.name = "expiry_date"
=============================================================================
