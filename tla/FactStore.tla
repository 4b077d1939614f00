------------------------------ MODULE FactStore ------------------------------
(***************************************************************************)
(* What KnowledgeApplicationService.persist_knowledge_build keeps of the   *)
(* facts of a document, with their evidence and links                      *)
(* (application/services/knowledge_service.py), and the statuses of a fact *)
(* (knowledge/fact.py).                                                    *)
(*                                                                         *)
(* A fact is dropped, with its evidence, when a fact with its key is       *)
(* stored already, whatever became of that one.  The key is the field,     *)
(* under one of its names, and the value as it is written, brought into    *)
(* one form.  A value is modelled as what it means and the form it is      *)
(* written in; what a key is made of follows the code digit by digit.      *)
(*                                                                         *)
(* One call at a time: DocumentFlow interleaves calls and the statements   *)
(* of one, and shows why the entity and the sources exist.  An uploaded    *)
(* document names one entity, for which resolution finds no conflicts.     *)
(***************************************************************************)
EXTENDS Naturals, Sequences, FiniteSets, Functions, Listings

CONSTANTS
    StoreDates,      \* the dates that are printed, [day, month, year]
    StoreNumbers,    \* the phone numbers
    StoreFields,     \* the names of fields extraction uses
    MaxStoreFacts    \* bound: facts built

\* Years are written with four digits.  Before 1300 they will not do: the digits 18101005 of a
\* day in 1810 have the key of a day in 1005, for four digits are a year from 1900 to 2100 only.
ASSUME StoreAssumption ==
    /\ StoreDates \subseteq [day : 1..31, month : 1..12, year : 1300..9999]
    /\ MaxStoreFacts \in Nat

VARIABLES
    facts,      \* the facts table, in the order of created_at
    evidence,   \* the evidence table, with the place of the fact it is linked to
    offered     \* the readings persist_knowledge_build was called with

storeVars == <<facts, evidence, offered>>

-----------------------------------------------------------------------------
(* Fields and values *)
BirthFields == {"date", "birth_date", "date_birth", "dob", "date_of_birth"}
ExpiryFieldNames == {"expiry", "expiry_date", "expiration_date", "valid_until", "valid_to"}
IssueFields == {"issue", "issued_date", "date_of_issue", "issue_date"}
PhoneFields == {"phone", "phone_number", "telephone", "mobile", "mobile_number"}

\* _normalize_field_name_for_dedup
DedupField(name) ==
    CASE name \in BirthFields -> "date_of_birth"
      [] name \in ExpiryFieldNames -> "expiry_date"
      [] name \in IssueFields -> "issue_date"
      [] name \in PhoneFields -> "phone_number"
      [] OTHER -> name

DateForms == {"iso", "dotted", "short", "packed_iso", "packed", "packed_short"}
NumberForms == {"international", "spaced", "zeros"}

\* a year of two digits stands for one of these
ShortYears == 1931..2030

Value ==
    {v \in [form : DateForms, is : StoreDates] :
        v.form \in {"short", "packed_short"} => v.is.year \in ShortYears}
    \cup [form : NumberForms, is : StoreNumbers]

IsDateField(name) == DedupField(name) \in {"date_of_birth", "expiry_date", "issue_date"}

Reading == {[field |-> name, value |-> v] : name \in StoreFields, v \in Value}

\* extraction reads dates into date fields and numbers into the others
Readable == {r \in Reading : IsDateField(r.field) <=> r.value.form \in DateForms}

\* Bug variant: people of this century are not born yet.
PivotLastCentury(yy) == 1900 + yy

\* the year two digits stand for
Pivot(yy) == IF yy > 30 THEN 1900 + yy ELSE 2000 + yy

\* year, month and day of a date of eight digits, taken for the date of a year the digits
\* begin with, or else for day, month and year in this order
EightDigits(head, tail) ==
    IF head \in 1900..2100 THEN <<head, tail \div 100, tail % 100>>
    ELSE <<tail, head % 100, head \div 100>>

\* _normalize_date_value: of a date with separators, of eight digits, of six
DateKey(form, d) ==
    CASE form \in {"iso", "dotted"} -> <<d.year, d.month, d.day>>
      [] form \in {"short", "packed_short"} -> <<Pivot(d.year % 100), d.month, d.day>>
      [] form = "packed_iso" -> EightDigits(d.year, 100 * d.month + d.day)
      [] form = "packed" -> EightDigits(100 * d.day + d.month, d.year)

\* _normalize_phone_value keeps a leading plus and the digits
PhoneKey(form, number) == IF form = "zeros" THEN <<"00", number>> ELSE <<"+", number>>

\* _fact_key
FactKey(r) ==
    <<DedupField(r.field),
      IF IsDateField(r.field) THEN DateKey(r.value.form, r.value.is)
      ELSE PhoneKey(r.value.form, r.value.is)>>

-----------------------------------------------------------------------------
FactStatus == {"pending", "accepted", "rejected", "superseded"}

\* Fact.create and the row of it
NewFact(r) == [reading |-> r, status |-> "pending"]

\* Evidence.create and the link Knowledge builder makes to the fact
NewEvidence(r, fact) == [reading |-> r, fact |-> fact]

StoreTypeOK ==
    /\ \A i \in DOMAIN facts : facts[i].reading \in Readable /\ facts[i].status \in FactStatus
    /\ \A e \in evidence : e.fact \in DOMAIN facts
    /\ offered \subseteq Readable

StoreInit == facts = <<>> /\ evidence = {} /\ offered = {}

KnownKeys == {FactKey(facts[i].reading) : i \in DOMAIN facts}

\* _deduplicate_facts: the keys of the batch count as well
KeptOf(batch) ==
    AtPlaces(batch, {i \in DOMAIN batch :
        FactKey(batch[i]) \notin KnownKeys \cup {FactKey(batch[j]) : j \in 1..(i - 1)}})

PersistKnowledgeBuild(batch) ==
    LET kept == KeptOf(batch) IN
        /\ offered' = offered \cup Range(batch)
        /\ facts' = facts \o [i \in DOMAIN kept |-> NewFact(kept[i])]
        /\ evidence' = evidence \cup {NewEvidence(kept[i], Len(facts) + i) : i \in DOMAIN kept}

Persist ==
    \E n \in 1..(MaxStoreFacts - Cardinality(offered)) : \E batch \in [1..n -> Readable] :
        PersistKnowledgeBuild(batch)

SetStatus(i, from, to) ==
    /\ facts[i].status = from
    /\ facts' = [facts EXCEPT ![i].status = to]
    /\ UNCHANGED <<evidence, offered>>

AcceptFact(i) == SetStatus(i, "pending", "accepted")
RejectFact(i) == SetStatus(i, "pending", "rejected")

StoreNext == Persist \/ \E i \in DOMAIN facts : AcceptFact(i) \/ RejectFact(i)

StoreSpec == StoreInit /\ [][StoreNext]_storeVars

-----------------------------------------------------------------------------
\* what a reading says, whatever its form: the name of the field and the value itself
Says(r) == <<DedupField(r.field), r.value.is>>

\* Deduplication drops what is known and nothing else: whatever a document said of a date
\* or a number, in whichever form, some fact with evidence says it.  Two values that
\* differ never share a key.
NothingNewIsDropped ==
    \A r \in offered : \E e \in evidence :
        Says(facts[e.fact].reading) = Says(r) /\ Says(e.reading) = Says(r)
=============================================================================
