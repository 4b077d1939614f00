----------------------------- MODULE FormFilling -----------------------------
(***************************************************************************)
(* Which fields of a form are filled, and with what                        *)
(* (ui/viewmodels/forms_vm.py, ui/pages/forms.py): the analysis names the  *)
(* profile field of every PDF field, by the place it has on the            *)
(* registration form or by the words of its name; the page shows which     *)
(* required fields the profile leaves empty; the button fills a copy.      *)
(*                                                                         *)
(* One form, whose file and row exist: FormTemplates has the sessions that *)
(* create and delete them, and the copies of a row two analyses may make.  *)
(* A session fills the form while others analyse it, start the analysis    *)
(* over and edit the profiles.  A PDF field is modelled as its place, the  *)
(* rules that have a word of its label, and what marks it as technical;    *)
(* its box on the page and the drawing of pages are left out.              *)
(***************************************************************************)
EXTENDS Naturals, Sequences, FiniteSets, SequencesExt

CONSTANTS
    FormFields,         \* the fields of the PDF file
    Applicants,         \* entities with a profile
    ProfileTexts,       \* what can stand in a profile field
    MaxProfileEdits     \* bound

VARIABLES
    profiles,   \* entity -> profile field -> value, "" for none
    edits,      \* the profiles every entity has had
    rows,       \* the rows of dynamic_form_fields
    filler,     \* the session that fills the form
    completed   \* the file the page offers, <<>> for none

fillingVars == <<profiles, edits, rows, filler, completed>>

-----------------------------------------------------------------------------
(* What the analysis makes of a field *)

Anmeldung(profile, required) == [profile |-> profile, required |-> required]

\* _known_anmeldung_field: page, x and y
KnownPlaces ==
    {<<1, 22, 85>>, <<1, 112, 85>>, <<1, 22, 103>>, <<1, 112, 103>>, <<1, 174, 103>>, <<1, 32, 243>>,
     <<1, 116, 243>>, <<1, 32, 251>>, <<1, 32, 259>>, <<1, 32, 267>>, <<2, 22, 148>>}

KnownAnmeldungField(place) ==
    CASE place = <<1, 22, 85>> -> Anmeldung("surname", TRUE)
      [] place = <<1, 112, 85>> -> Anmeldung("given_names", TRUE)
      [] place = <<1, 22, 103>> -> Anmeldung("date_of_birth", TRUE)
      [] place = <<1, 112, 103>> -> Anmeldung("place_of_birth", FALSE)
      [] place = <<1, 174, 103>> -> Anmeldung("nationality", TRUE)
      [] place = <<1, 32, 243>> -> Anmeldung("address", FALSE)
      [] place = <<1, 116, 243>> -> Anmeldung("move_in_date", FALSE)
      [] place = <<1, 32, 251>> -> Anmeldung("postal_code", FALSE)
      [] place = <<1, 32, 259>> -> Anmeldung("city", FALSE)
      [] place = <<1, 32, 267>> -> Anmeldung("new_address", FALSE)
      [] place = <<2, 22, 148>> -> Anmeldung("current_date", FALSE)

\* suggest_mapping_for_label: the rules in the order they are tried
LabelRules ==
    <<"surname", "given_names", "date_of_birth", "place_of_birth", "nationality", "passport_number",
      "address", "new_address", "email", "phone", "move_in_date", "sex", "marital_status">>

SuggestMapping(words) ==
    LET fit == SelectSeq(LabelRules, LAMBDA rule : rule \in words) IN
        IF fit = <<>> THEN "" ELSE Head(fit)

\* readable_field_label: a name that has a place in it is not used as a label
LabelWords(field) == IF field.place = <<>> THEN field.words ELSE {}

IsKnown(field) == field.place \in KnownPlaces

NewRow(field) ==
    IF IsKnown(field)
    THEN LET known == KnownAnmeldungField(field.place) IN
            [field |-> field, mapped |-> known.profile, required |-> known.required, confidence |-> 92]
    ELSE LET mapped == SuggestMapping(LabelWords(field)) IN
            [field |-> field, mapped |-> mapped, required |-> FALSE,
             confidence |-> IF mapped = "" THEN 25 ELSE 65]

\* _is_system_or_helper_field
IsHelper(row) ==
    \/ row.field.technical
    \/ row.field.checkbox /\ row.mapped = "" /\ row.confidence < 50

\* smart_field_view
IsVisible(row) ==
    \/ IsKnown(row.field)
    \/ row.mapped # ""
    \/ ~IsHelper(row) /\ row.confidence >= 65

VisibleRows(some) == {r \in some : IsVisible(r)}

-----------------------------------------------------------------------------
(* Preview and filling *)

\* build_preview: the required fields it calls missing
MissingInPreview(some, profile) ==
    {r \in VisibleRows(some) : r.required /\ (r.mapped = "" \/ profile[r.mapped] = "")}

RequiredDataReady(some, profile) == MissingInPreview(some, profile) = {}

\* values_by_pdf_field
Fillable(some, profile) == {r \in VisibleRows(some) : r.mapped # "" /\ profile[r.mapped] # ""}

ValuesByPdfField(some, profile) ==
    {[field |-> r.field, value |-> profile[r.mapped]] : r \in Fillable(some, profile)}

\* Bug variant: a required field counts as missing only when nothing is mapped to it.
CountUnmapped(some, profile) == Cardinality({r \in VisibleRows(some) : r.required /\ r.mapped = ""})

MissingCount(some, profile) ==
    Cardinality({r \in VisibleRows(some) : r.required /\ r \notin Fillable(some, profile)})

-----------------------------------------------------------------------------
ProfileFieldNames == Range(LabelRules) \cup {"postal_code", "city", "current_date"}

\* the profile fields some field of the form asks for
AskedFor == {NewRow(f).mapped : f \in FormFields} \ {""}

Profile == [ProfileFieldNames -> {""} \cup ProfileTexts]

EmptyProfile == [n \in ProfileFieldNames |-> ""]

FillerPc == {"page", "analyse", "rows", "profile", "write"}

AtPage(person) == [pc |-> "page", person |-> person, todo |-> {}, read |-> {}, profile |-> EmptyProfile]

FillingTypeOK ==
    /\ profiles \in [Applicants -> Profile]
    /\ \A r \in rows : r = NewRow(r.field) /\ r.field \in FormFields
    /\ filler.pc \in FillerPc /\ filler.person \in Applicants
    /\ filler.todo \subseteq FormFields
    /\ \A f \in Range(completed) : f.person \in Applicants /\ f.missing \in Nat

FillingInit ==
    /\ profiles = [p \in Applicants |-> EmptyProfile]
    /\ edits = [p \in Applicants |-> {EmptyProfile}]
    /\ rows = {}
    /\ filler \in {AtPage(p) : p \in Applicants}
    /\ completed = <<>>

\* how often any profile has been changed
TotalEdits == Cardinality(UNION {{<<p, version>> : version \in edits[p]} : p \in Applicants})

\* ProfileVM: a field is added, changed or deleted, by any session
EditProfile(p, name, value) ==
    /\ TotalEdits < Cardinality(Applicants) + MaxProfileEdits
    /\ profiles[p][name] # value
    /\ profiles' = [profiles EXCEPT ![p][name] = value]
    /\ edits' = [edits EXCEPT ![p] = @ \cup {profiles'[p]}]
    /\ UNCHANGED <<rows, filler, completed>>

\* another session's analysis inserts a row
AnalyseField(f) ==
    /\ f \notin {r.field : r \in rows}
    /\ rows' = rows \cup {NewRow(f)}
    /\ UNCHANGED <<profiles, edits, filler, completed>>

\* another session starts the analysis over
ResetFields ==
    /\ rows # {}
    /\ rows' = {}
    /\ UNCHANGED <<profiles, edits, filler, completed>>

\* the active entity is chosen on another page
SwitchPerson(p) ==
    /\ filler.pc = "page"
    /\ filler' = AtPage(p)
    /\ UNCHANGED <<profiles, edits, rows, completed>>

\* "Fill Automatically": smart_prepare_template analyses a form without rows
FillAutomatically ==
    /\ filler.pc = "page"
    /\ filler' = IF rows = {} THEN [filler EXCEPT !.pc = "analyse", !.todo = FormFields]
                 ELSE [filler EXCEPT !.pc = "rows"]
    /\ UNCHANGED <<profiles, edits, rows, completed>>

AnalyseNext ==
    /\ filler.pc = "analyse"
    /\ \E f \in filler.todo :
          /\ rows' = rows \cup {NewRow(f)}
          /\ filler' = [filler EXCEPT !.todo = @ \ {f},
                                       !.pc = IF filler.todo = {f} THEN "rows" ELSE "analyse"]
    /\ UNCHANGED <<profiles, edits, completed>>

\* the known fields are updated to what they are already; then the visible rows are read
ReadRows ==
    /\ filler.pc = "rows"
    /\ filler' = IF VisibleRows(rows) = {} THEN AtPage(filler.person)
                 ELSE [filler EXCEPT !.pc = "profile", !.read = rows]
    /\ UNCHANGED <<profiles, edits, rows, completed>>

\* _profile_values; without a value the form is refused
ReadProfile ==
    /\ filler.pc = "profile"
    /\ filler' = IF Fillable(filler.read, profiles[filler.person]) = {} THEN AtPage(filler.person)
                 ELSE [filler EXCEPT !.pc = "write", !.profile = profiles[filler.person]]
    /\ UNCHANGED <<profiles, edits, rows, completed>>

\* generate_filled_pdf writes the file, which the page offers from now on
WriteForm ==
    /\ filler.pc = "write"
    /\ completed' = <<[person |-> filler.person, read |-> filler.read,
                       values |-> ValuesByPdfField(filler.read, filler.profile),
                       missing |-> MissingCount(filler.read, filler.profile)]>>
    /\ filler' = AtPage(filler.person)
    /\ UNCHANGED <<profiles, edits, rows>>

\* a click elsewhere, a PDF error or an exception ends the run at any statement
Interrupt ==
    /\ filler.pc # "page"
    /\ filler' = AtPage(filler.person)
    /\ UNCHANGED <<profiles, edits, rows, completed>>

FillingNext ==
    \/ \E p \in Applicants : \E name \in AskedFor : \E value \in {""} \cup ProfileTexts :
          EditProfile(p, name, value)
    \/ \E f \in FormFields : AnalyseField(f)
    \/ ResetFields
    \/ \E p \in Applicants : SwitchPerson(p)
    \/ FillAutomatically
    \/ AnalyseNext
    \/ ReadRows
    \/ ReadProfile
    \/ WriteForm
    \/ Interrupt

FillingSpec == FillingInit /\ [][FillingNext]_fillingVars

-----------------------------------------------------------------------------
(* Properties *)

RequiredFields == {f \in FormFields : IsKnown(f) /\ KnownAnmeldungField(f.place).required}

\* A completed form comes from one version of the profile of one person, whoever edits
\* profiles or fields while it is filled: no mixture of two versions.  When no required field
\* was reported missing, the required ones that were analysed are filled in; and what the
\* preview calls ready, the filling, which counts for itself, completes.
CompletedFormsAreTrue ==
    /\ \A form \in Range(completed) :
          /\ \E version \in edits[form.person] :
                \A entry \in form.values : entry.value = version[NewRow(entry.field).mapped]
          /\ form.missing = 0 =>
                \A f \in RequiredFields :
                    f \in {r.field : r \in form.read} => f \in {entry.field : entry \in form.values}
    /\ \A p \in Applicants :
          RequiredDataReady(rows, profiles[p]) <=> MissingCount(rows, profiles[p]) = 0
=============================================================================
