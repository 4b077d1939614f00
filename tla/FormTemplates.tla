---------------------------- MODULE FormTemplates ----------------------------
(***************************************************************************)
(* Dynamic form templates (ui/viewmodels/forms_vm.py): sessions create a   *)
(* template from a PDF file, analyse its fields, prepare it and delete it. *)
(* Every statement commits by itself; dynamic_form_fields has a foreign    *)
(* key on dynamic_form_templates but no UNIQUE constraint on field names.  *)
(* What stands in a field (label, position, mapping) is left out.          *)
(***************************************************************************)
EXTENDS Naturals, FiniteSets

CONSTANTS
    Templates,      \* template ids, each created once
    FieldNames,     \* the names of the fields in the PDF file
    Editors,        \* browser sessions on the Forms page
    Nowhere         \* no template

VARIABLES
    template,   \* template -> "unborn", "stored" or "deleted" in dynamic_form_templates
    pdf,        \* the templates whose PDF file exists
    fields,     \* template -> field name -> number of rows in dynamic_form_fields
    editor      \* what every session is doing

formVars == <<template, pdf, fields, editor>>

\* "lost": the field a session has just inserted is gone again
EditorPc == {"idle", "insertTemplate", "clear", "next", "insert", "confirm", "lost",
             "fields", "row", "unlink", "prepare"}
\* todo: the field names the analysis has still to look at; name: the one it looked up last
EditorRecord == [pc : EditorPc, template : Templates \cup {Nowhere},
                 todo : SUBSET FieldNames, name : FieldNames \cup {Nowhere},
                 preparing : BOOLEAN]
AtRest == [pc |-> "idle", template |-> Nowhere, todo |-> {}, name |-> Nowhere, preparing |-> FALSE]

FormTypeOK ==
    /\ template \in [Templates -> {"unborn", "stored", "deleted"}]
    /\ pdf \subseteq Templates
    /\ fields \in [Templates -> [FieldNames -> Nat]]
    /\ editor \in [Editors -> EditorRecord]

FormInit ==
    /\ template = [t \in Templates |-> "unborn"]
    /\ pdf = {}
    /\ fields = [t \in Templates |-> [n \in FieldNames |-> 0]]
    /\ editor = [s \in Editors |-> AtRest]

Stored(t) == template[t] = "stored"
HasFields(t) == \E n \in FieldNames : fields[t][n] > 0
NoFields == [n \in FieldNames |-> 0]

Step(s, pc) == editor' = [editor EXCEPT ![s].pc = pc]
Finish(s) == editor' = [editor EXCEPT ![s] = AtRest]

\* DELETE FROM dynamic_form_fields, which takes away what other sessions just inserted
DropFields(s, t, pc) ==
    /\ fields' = [fields EXCEPT ![t] = NoFields]
    /\ editor' = [e \in Editors |->
          IF e = s THEN [editor[e] EXCEPT !.pc = pc]
          ELSE IF editor[e].pc = "confirm" /\ editor[e].template = t
               THEN [editor[e] EXCEPT !.pc = "lost"] ELSE editor[e]]

-----------------------------------------------------------------------------
(* create_template *)

CopyPdf(s, t) ==
    /\ editor[s].pc = "idle"
    /\ template[t] = "unborn" /\ t \notin pdf
    /\ pdf' = pdf \cup {t}
    /\ editor' = [editor EXCEPT ![s] = [AtRest EXCEPT !.pc = "insertTemplate", !.template = t]]
    /\ UNCHANGED <<template, fields>>

InsertTemplate(s) ==
    /\ editor[s].pc = "insertTemplate"
    /\ template' = [template EXCEPT ![editor[s].template] = "stored"]
    /\ Finish(s)
    /\ UNCHANGED <<pdf, fields>>

-----------------------------------------------------------------------------
(* delete_template *)

StartDelete(s, t) ==
    /\ editor[s].pc = "idle"
    /\ Stored(t)
    /\ editor' = [editor EXCEPT ![s] = [AtRest EXCEPT !.pc = "fields", !.template = t]]
    /\ UNCHANGED <<template, pdf, fields>>

DeleteFields(s) ==
    /\ editor[s].pc = "fields"
    /\ DropFields(s, editor[s].template, "row")
    /\ UNCHANGED <<template, pdf>>

\* Bug variant: a refused DELETE is passed over.
DeleteRowAnyway(s) ==
    /\ editor[s].pc = "row"
    /\ template' = IF HasFields(editor[s].template) THEN template
                   ELSE [template EXCEPT ![editor[s].template] = "deleted"]
    /\ Step(s, "unlink")
    /\ UNCHANGED <<pdf, fields>>

\* a field inserted in the meantime makes the foreign key refuse the DELETE, which raises
DeleteRow(s) ==
    /\ editor[s].pc = "row"
    /\ IF HasFields(editor[s].template)
       THEN Finish(s) /\ UNCHANGED template
       ELSE /\ template' = [template EXCEPT ![editor[s].template] = "deleted"]
            /\ Step(s, "unlink")
    /\ UNCHANGED <<pdf, fields>>

Unlink(s) ==
    /\ editor[s].pc = "unlink"
    /\ pdf' = pdf \ {editor[s].template}
    /\ Finish(s)
    /\ UNCHANGED <<template, fields>>

-----------------------------------------------------------------------------
(* analyze_pdf_form *)

Analysing(t, pc, preparing) ==
    [AtRest EXCEPT !.pc = pc, !.template = t, !.todo = FieldNames, !.preparing = preparing]

\* the row and the file are read; without either the analysis is refused
StartAnalysis(s, t, clear) ==
    /\ editor[s].pc = "idle"
    /\ Stored(t) /\ t \in pdf
    /\ editor' = [editor EXCEPT ![s] = Analysing(t, IF clear THEN "clear" ELSE "next", FALSE)]
    /\ UNCHANGED <<template, pdf, fields>>

\* delete_fields_for_template
ClearFields(s) ==
    /\ editor[s].pc = "clear"
    /\ IF Stored(editor[s].template)
       THEN DropFields(s, editor[s].template, "next")
       ELSE Step(s, "next") /\ UNCHANGED fields
    /\ UNCHANGED <<template, pdf>>

\* _field_exists
LookUpField(s, n) ==
    /\ editor[s].pc = "next" /\ n \in editor[s].todo
    /\ editor' = [editor EXCEPT ![s].todo = @ \ {n}, ![s].name = n,
                                ![s].pc = IF fields[editor[s].template][n] > 0 THEN "next" ELSE "insert"]
    /\ UNCHANGED <<template, pdf, fields>>

\* add_field: without the template it raises, by its own look-up or by the foreign key
InsertField(s) ==
    /\ editor[s].pc = "insert"
    /\ IF Stored(editor[s].template)
       THEN /\ fields' = [fields EXCEPT ![editor[s].template][editor[s].name] = @ + 1]
            /\ Step(s, "confirm")
       ELSE Finish(s) /\ UNCHANGED fields
    /\ UNCHANGED <<template, pdf>>

\* add_field loads the row it inserted, and raises when it is gone
ConfirmField(s) ==
    /\ editor[s].pc \in {"confirm", "lost"}
    /\ IF editor[s].pc = "confirm" THEN Step(s, "next") ELSE Finish(s)
    /\ UNCHANGED <<template, pdf, fields>>

\* the metadata are written, and preparation goes on with the fields
Analysed(s) ==
    /\ editor[s].pc = "next" /\ editor[s].todo = {}
    /\ IF editor[s].preparing THEN Step(s, "prepare") ELSE Finish(s)
    /\ UNCHANGED <<template, pdf, fields>>

-----------------------------------------------------------------------------
(* smart_prepare_template *)

\* a template without fields is analysed first
StartPreparation(s, t) ==
    /\ editor[s].pc = "idle"
    /\ Stored(t)
    /\ HasFields(t) \/ t \in pdf
    /\ editor' = [editor EXCEPT ![s] =
          IF HasFields(t) THEN [AtRest EXCEPT !.pc = "prepare", !.template = t]
                          ELSE Analysing(t, "next", TRUE)]
    /\ UNCHANGED <<template, pdf, fields>>

\* labels and mappings are updated in place
Prepare(s) ==
    /\ editor[s].pc = "prepare"
    /\ Finish(s)
    /\ UNCHANGED <<template, pdf, fields>>

\* a crash forgets the sessions
FormCrash ==
    /\ editor' = [s \in Editors |-> AtRest]
    /\ UNCHANGED <<template, pdf, fields>>

FormNext ==
    \/ \E s \in Editors :
          \/ \E t \in Templates :
                \/ CopyPdf(s, t)
                \/ StartDelete(s, t)
                \/ \E clear \in BOOLEAN : StartAnalysis(s, t, clear)
                \/ StartPreparation(s, t)
          \/ \E n \in FieldNames : LookUpField(s, n)
          \/ InsertTemplate(s)
          \/ DeleteFields(s)
          \/ DeleteRow(s)
          \/ Unlink(s)
          \/ ClearFields(s)
          \/ InsertField(s)
          \/ ConfirmField(s)
          \/ Analysed(s)
          \/ Prepare(s)
    \/ FormCrash

FormSpec == FormInit /\ [][FormNext]_formVars

-----------------------------------------------------------------------------
(* Properties *)

\* A stored template has its PDF file, and fields belong to stored templates
\* only: deletions that meet an analysis, are refused half-way by the foreign
\* key, or are cut off by a crash never leave a form that cannot be filled.
StoredTemplateIsUsable ==
    \A t \in Templates :
        /\ Stored(t) => t \in pdf
        /\ HasFields(t) => Stored(t)

=============================================================================
