----------------------------- MODULE PageProofs -----------------------------
(***************************************************************************)
(* Proofs about what the pages show and make: form templates, the filling  *)
(* of a form, the fields of a profile, the advice and the chat, and the    *)
(* home and review pages.  Each part states its inductive invariant, one   *)
(* lemma per group of actions, and its theorems.                           *)
(***************************************************************************)
EXTENDS FormTemplates, FormFilling, ProfileFields, Advisory, Guidance, NumberLemmas

-----------------------------------------------------------------------------
(* Form templates *)

\* A session that inserts a template is the only one that knows it, and its file exists.
InsertingInv ==
    /\ \A s \in Editors : editor[s].pc = "insertTemplate" =>
          editor[s].template \in pdf /\ template[editor[s].template] = "unborn"
    /\ \A s, o \in Editors : editor[s].pc = "insertTemplate" /\ editor[o].pc = "insertTemplate" =>
          (editor[s].template = editor[o].template => s = o)

\* A session that deletes a template found its row, and when it removes the file it has seen the
\* row go. No row ever comes back.
DeletingInv ==
    \A s \in Editors :
        /\ editor[s].pc \in {"fields", "row"} =>
              editor[s].template \in Templates /\ template[editor[s].template] # "unborn"
        /\ editor[s].pc = "unlink" => template[editor[s].template] = "deleted"

FormInv == FormTypeOK /\ InsertingInv /\ DeletingInv /\ StoredTemplateIsUsable

\* No session comes to hold a template: who inserts it or removes its file did so before, and who
\* is to delete its row was at it or found the row.
NoNewHolder ==
    \A s \in Editors :
        /\ editor'[s].pc \in {"insertTemplate", "unlink"} =>
              editor'[s].pc = editor[s].pc /\ editor'[s].template = editor[s].template
        /\ editor'[s].pc \in {"fields", "row"} =>
              \/ editor[s].pc \in {"fields", "row"} /\ editor'[s].template = editor[s].template
              \/ editor'[s].template \in Templates /\ Stored(editor'[s].template)

\* A session at rest is a session.
LEMMA RestTypes == AtRest \in EditorRecord /\ AtRest.pc = "idle"
  BY DEF AtRest, EditorRecord, EditorPc

\* What a session of the forms page carries, typed.
LEMMA EditorTypes ==
    ASSUME FormTypeOK, NEW s \in Editors
    PROVE  /\ editor[s] \in EditorRecord /\ editor[s].pc \in EditorPc
           /\ editor[s].template \in Templates \cup {Nowhere}
           /\ editor[s].todo \subseteq FieldNames /\ editor[s].name \in FieldNames \cup {Nowhere}
           /\ editor[s].preparing \in BOOLEAN
  BY DEF FormTypeOK, EditorRecord

\* No template is stored at first.
LEMMA InitForm == FormInit => FormInv
  <1> SUFFICES ASSUME FormInit PROVE FormInv
    OBVIOUS
  <1>1. FormTypeOK
    BY RestTypes DEF FormInit, FormTypeOK
  <1>2. InsertingInv /\ DeletingInv
    BY RestTypes DEF FormInit, InsertingInv, DeletingInv
  <1>3. StoredTemplateIsUsable
    BY DEF FormInit, StoredTemplateIsUsable, Stored, HasFields
  <1> QED
    BY <1>1, <1>2, <1>3 DEF FormInv

\* One more row of a field; of a name that is no field, nothing.
LEMMA OneRowMore ==
    ASSUME NEW f \in [FieldNames -> Nat], NEW n
    PROVE  [f EXCEPT ![n] = @ + 1] \in [FieldNames -> Nat]
  <1>1. CASE n \in FieldNames
    <2>1. f[n] + 1 \in Nat
      BY <1>1
    <2> QED
      BY <2>1
  <1>2. CASE n \notin FieldNames
    BY <1>2
  <1> QED
    BY <1>1, <1>2

-----------------------------------------------------------------------------
(* Statements that only move sessions, and those that write fields *)

\* One session goes on to a place where it neither inserts a template nor removes a file.
LEMMA OneGoesOn ==
    ASSUME FormTypeOK, NEW s \in Editors, NEW record \in EditorRecord,
           editor' = [editor EXCEPT ![s] = record],
           record.pc \notin {"insertTemplate", "fields", "row", "unlink"}
    PROVE  editor' \in [Editors -> EditorRecord] /\ NoNewHolder
  BY DEF FormTypeOK, NoNewHolder

\* A session that goes on to another place, but to none where it holds a template, holds none.
LEMMA StepGoesOn ==
    ASSUME FormTypeOK, NEW s \in Editors, NEW pc \in EditorPc \ {"insertTemplate", "fields", "row", "unlink"}, Step(s, pc)
    PROVE  editor' \in [Editors -> EditorRecord] /\ NoNewHolder
  <1> DEFINE record == [editor[s] EXCEPT !.pc = pc]
  <1>1. record \in EditorRecord /\ record.pc = pc
    BY EditorTypes DEF EditorRecord
  <1>2. editor' = [editor EXCEPT ![s] = record]
    BY DEF Step, FormTypeOK
  <1> HIDE DEF record
  <1> QED
    BY <1>1, <1>2, OneGoesOn

\* A session that ends holds no template.
LEMMA FinishGoesOn ==
    ASSUME FormTypeOK, NEW s \in Editors, Finish(s)
    PROVE  editor' \in [Editors -> EditorRecord] /\ NoNewHolder
  BY RestTypes, OneGoesOn DEF Finish

\* With templates and files as they are, fields may be dropped, or written where a template is stored.
LEMMA FieldsWritten ==
    ASSUME FormInv, template' = template, pdf' = pdf,
           editor' \in [Editors -> EditorRecord], NoNewHolder,
           fields' \in [Templates -> [FieldNames -> Nat]],
           \A t \in Templates : HasFields(t)' => HasFields(t) \/ Stored(t)
    PROVE  FormInv'
  <1>1. FormTypeOK'
    BY DEF FormInv, FormTypeOK
  <1>2. InsertingInv'
    BY DEF FormInv, InsertingInv, NoNewHolder
  <1>3. DeletingInv'
    <2> SUFFICES ASSUME NEW s \in Editors
                 PROVE  /\ editor'[s].pc \in {"fields", "row"} =>
                              editor'[s].template \in Templates /\ template[editor'[s].template] # "unborn"
                        /\ editor'[s].pc = "unlink" => template[editor'[s].template] = "deleted"
      BY DEF DeletingInv
    <2> QED
      BY DEF FormInv, DeletingInv, NoNewHolder, Stored
  <1>4. StoredTemplateIsUsable'
    BY DEF FormInv, StoredTemplateIsUsable, Stored
  <1> QED
    BY <1>1, <1>2, <1>3, <1>4 DEF FormInv

\* When the tables and the files stay, sessions that hold no new template keep the invariant.
LEMMA OnlySessionsMove ==
    ASSUME FormInv, UNCHANGED <<template, pdf, fields>>,
           editor' \in [Editors -> EditorRecord], NoNewHolder
    PROVE  FormInv'
  <1>1. fields' \in [Templates -> [FieldNames -> Nat]]
    BY DEF FormInv, FormTypeOK
  <1>2. \A t \in Templates : HasFields(t)' => HasFields(t)
    BY DEF HasFields
  <1> QED
    BY <1>1, <1>2, FieldsWritten

\* Deleting the fields of a template keeps the invariant.
LEMMA DroppedFields ==
    ASSUME FormInv, UNCHANGED <<template, pdf>>, NEW s \in Editors, NEW t,
           NEW pc \in {"row", "next"}, DropFields(s, t, pc), pc = "row" => editor[s].pc = "fields"
    PROVE  FormInv'
  <1>0. FormTypeOK
    BY DEF FormInv
  <1>1. fields' \in [Templates -> [FieldNames -> Nat]]
    BY <1>0 DEF FormTypeOK, DropFields, NoFields
  <1>2. \A u \in Templates : HasFields(u)' => HasFields(u)
    BY <1>0 DEF FormTypeOK, DropFields, NoFields, HasFields
  <1>3. ASSUME NEW e \in Editors
        PROVE  /\ editor'[e] \in EditorRecord
               /\ \/ editor'[e] = editor[e]
                  \/ editor'[e].pc \in {"next", "lost"}
                  \/ editor'[e].pc = "row" /\ editor[e].pc = "fields" /\ editor'[e].template = editor[e].template
    <2>1. \A c \in EditorPc : LET record == [editor[e] EXCEPT !.pc = c]
                              IN record \in EditorRecord /\ record.pc = c /\ record.template = editor[e].template
      BY <1>0, EditorTypes DEF EditorRecord
    <2>2. pc \in EditorPc /\ "lost" \in EditorPc
      BY DEF EditorPc
    <2>3. \/ e = s /\ editor'[e] = [editor[e] EXCEPT !.pc = pc]
          \/ editor'[e] = [editor[e] EXCEPT !.pc = "lost"]
          \/ editor'[e] = editor[e]
      BY DEF DropFields
    <2> QED
      BY <1>0, <2>1, <2>2, <2>3, EditorTypes
  <1>4. editor' \in [Editors -> EditorRecord]
    <2>1. editor' = [e \in Editors |-> editor'[e]]
      BY DEF DropFields
    <2> QED
      BY <1>3, <2>1
  <1>5. NoNewHolder
    BY <1>3 DEF NoNewHolder
  <1> QED
    BY <1>1, <1>2, <1>4, <1>5, FieldsWritten

-----------------------------------------------------------------------------

\* Every step of the sessions keeps the invariant, crashes included.
LEMMA FormPreserved == FormInv /\ [FormNext]_formVars => FormInv'
  <1> SUFFICES ASSUME FormInv, [FormNext]_formVars PROVE FormInv'
    OBVIOUS
  <1>0. FormTypeOK /\ InsertingInv /\ DeletingInv /\ StoredTemplateIsUsable
    BY DEF FormInv
  <1>1. ASSUME NEW s \in Editors, NEW t \in Templates, CopyPdf(s, t) PROVE FormInv'
    <2> DEFINE record == [AtRest EXCEPT !.pc = "insertTemplate", !.template = t]
    <2>1. record \in EditorRecord /\ record.pc = "insertTemplate" /\ record.template = t
      BY DEF AtRest, EditorRecord, EditorPc
    <2>2. editor' = [editor EXCEPT ![s] = record]
      BY <1>1 DEF CopyPdf
    <2> HIDE DEF record
    <2>3. editor'[s] = record /\ \A e \in Editors : e # s => editor'[e] = editor[e]
      BY <1>0, <2>2 DEF FormTypeOK
    <2>4. template[t] = "unborn" /\ t \notin pdf /\ pdf' = pdf \cup {t} /\ template' = template
          /\ fields' = fields
      BY <1>1 DEF CopyPdf
    <2>5. FormTypeOK'
      BY <1>0, <2>1, <2>2, <2>4 DEF FormTypeOK
    <2>6. InsertingInv' /\ DeletingInv'
      BY <1>0, <2>1, <2>3, <2>4 DEF InsertingInv, DeletingInv
    <2>7. StoredTemplateIsUsable'
      BY <1>0, <2>4 DEF StoredTemplateIsUsable, Stored, HasFields
    <2> QED
      BY <2>5, <2>6, <2>7 DEF FormInv
  <1>2. ASSUME NEW s \in Editors, InsertTemplate(s) PROVE FormInv'
    <2> DEFINE t == editor[s].template
    <2>1. t \in pdf /\ t \in Templates /\ template[t] = "unborn"
          /\ \A o \in Editors : editor[o].pc = "insertTemplate" /\ editor[o].template = t => o = s
      BY <1>0, <1>2 DEF InsertTemplate, InsertingInv, FormTypeOK
    <2>2. template' = [template EXCEPT ![t] = "stored"] /\ pdf' = pdf /\ fields' = fields
      BY <1>2 DEF InsertTemplate
    <2>3. editor' \in [Editors -> EditorRecord] /\ NoNewHolder
      BY <1>0, <1>2, FinishGoesOn DEF InsertTemplate
    <2>4. editor'[s].pc = "idle"
      BY <1>0, <1>2, RestTypes DEF InsertTemplate, Finish, FormTypeOK
    <2> HIDE DEF t
    <2>5. template'[t] = "stored" /\ \A u : u # t => template'[u] = template[u]
      BY <1>0, <2>1, <2>2 DEF FormTypeOK
    <2>6. FormTypeOK'
      BY <1>0, <2>2, <2>3 DEF FormTypeOK
    <2>7. \A e \in Editors : e # s => editor'[e] = editor[e]
      BY <1>0, <1>2 DEF InsertTemplate, Finish, FormTypeOK
    <2>8. InsertingInv'
      BY <1>0, <2>1, <2>2, <2>4, <2>5, <2>7 DEF InsertingInv
    <2>9. DeletingInv'
      BY <1>0, <2>1, <2>4, <2>5, <2>7 DEF DeletingInv
    <2>10. StoredTemplateIsUsable'
      BY <1>0, <2>1, <2>2, <2>5 DEF StoredTemplateIsUsable, Stored, HasFields
    <2> QED
      BY <2>6, <2>8, <2>9, <2>10 DEF FormInv
  <1>3. ASSUME NEW s \in Editors, NEW t \in Templates, StartDelete(s, t) PROVE FormInv'
    <2> DEFINE record == [AtRest EXCEPT !.pc = "fields", !.template = t]
    <2>1. record \in EditorRecord /\ record.pc = "fields" /\ record.template = t
      BY DEF AtRest, EditorRecord, EditorPc
    <2>2. Stored(t) /\ editor' = [editor EXCEPT ![s] = record] /\ UNCHANGED <<template, pdf, fields>>
      BY <1>3 DEF StartDelete
    <2> HIDE DEF record
    <2>3. editor' \in [Editors -> EditorRecord] /\ NoNewHolder
      BY <1>0, <2>1, <2>2 DEF FormTypeOK, NoNewHolder
    <2> QED
      BY <2>2, <2>3, OnlySessionsMove
  <1>4. ASSUME NEW s \in Editors, DeleteFields(s) PROVE FormInv'
    BY <1>4, DroppedFields DEF DeleteFields
  <1>5. ASSUME NEW s \in Editors, DeleteRow(s) PROVE FormInv'
    <2> DEFINE t == editor[s].template
    <2>1. CASE HasFields(t)
      <3>1. Finish(s) /\ UNCHANGED <<template, pdf, fields>>
        BY <1>5, <2>1 DEF DeleteRow
      <3> QED
        BY <1>0, <3>1, FinishGoesOn, OnlySessionsMove
    <2>2. CASE ~HasFields(t)
      <3> DEFINE record == [editor[s] EXCEPT !.pc = "unlink"]
      <3>1. template' = [template EXCEPT ![t] = "deleted"] /\ pdf' = pdf /\ fields' = fields
            /\ Step(s, "unlink")
        BY <1>5, <2>2 DEF DeleteRow
      <3>2. record \in EditorRecord /\ record.pc = "unlink" /\ record.template = t
        BY <1>0, EditorTypes DEF EditorRecord, EditorPc
      <3>3. editor' = [editor EXCEPT ![s] = record]
        BY <1>0, <3>1 DEF Step, FormTypeOK
      <3>4. t \in Templates /\ template[t] # "unborn"
        BY <1>0, <1>5 DEF DeleteRow, DeletingInv
      <3> HIDE DEF t, record
      <3>5. template'[t] = "deleted" /\ \A u : u # t => template'[u] = template[u]
        BY <1>0, <3>1, <3>4 DEF FormTypeOK
      <3>6. editor'[s] = record /\ \A e \in Editors : e # s => editor'[e] = editor[e]
        BY <1>0, <3>3 DEF FormTypeOK
      <3>7. FormTypeOK'
        BY <1>0, <3>1, <3>2, <3>3 DEF FormTypeOK
      <3>8. InsertingInv' /\ DeletingInv'
        BY <1>0, <3>1, <3>2, <3>4, <3>5, <3>6 DEF InsertingInv, DeletingInv
      <3>9. StoredTemplateIsUsable'
        BY <1>0, <2>2, <3>1, <3>5 DEF StoredTemplateIsUsable, Stored, HasFields, t
      <3> QED
        BY <3>7, <3>8, <3>9 DEF FormInv
    <2> QED
      BY <2>1, <2>2
  <1>6. ASSUME NEW s \in Editors, Unlink(s) PROVE FormInv'
    <2> DEFINE t == editor[s].template
    <2>1. template[t] = "deleted" /\ pdf' = pdf \ {t} /\ template' = template /\ fields' = fields
      BY <1>0, <1>6 DEF Unlink, DeletingInv
    <2>2. editor' \in [Editors -> EditorRecord] /\ NoNewHolder
      BY <1>0, <1>6, FinishGoesOn DEF Unlink
    <2> HIDE DEF t
    <2>3. FormTypeOK'
      BY <1>0, <2>1, <2>2 DEF FormTypeOK
    <2>4. InsertingInv' /\ DeletingInv'
      BY <1>0, <2>1, <2>2 DEF InsertingInv, DeletingInv, NoNewHolder, Stored
    <2>5. StoredTemplateIsUsable'
      BY <1>0, <2>1 DEF StoredTemplateIsUsable, Stored, HasFields
    <2> QED
      BY <2>3, <2>4, <2>5 DEF FormInv
  <1>7. ASSUME NEW s \in Editors, NEW t \in Templates, NEW clear \in BOOLEAN, StartAnalysis(s, t, clear)
        PROVE  FormInv'
    <2> DEFINE record == Analysing(t, IF clear THEN "clear" ELSE "next", FALSE)
    <2>1. record \in EditorRecord /\ record.pc \in {"clear", "next"}
      BY DEF Analysing, AtRest, EditorRecord, EditorPc
    <2>2. editor' = [editor EXCEPT ![s] = record] /\ UNCHANGED <<template, pdf, fields>>
      BY <1>7 DEF StartAnalysis
    <2> HIDE DEF record
    <2> QED
      BY <1>0, <2>1, <2>2, OneGoesOn, OnlySessionsMove
  <1>8. ASSUME NEW s \in Editors, ClearFields(s) PROVE FormInv'
    <2>1. CASE Stored(editor[s].template)
      BY <1>8, <2>1, DroppedFields DEF ClearFields
    <2>2. CASE ~Stored(editor[s].template)
      <3>1. Step(s, "next") /\ UNCHANGED <<template, pdf, fields>>
        BY <1>8, <2>2 DEF ClearFields
      <3>2. "next" \in EditorPc \ {"insertTemplate", "fields", "row", "unlink"}
        BY DEF EditorPc
      <3> QED
        BY <1>0, <3>1, <3>2, StepGoesOn, OnlySessionsMove
    <2> QED
      BY <2>1, <2>2
  <1>9. ASSUME NEW s \in Editors, NEW n \in FieldNames, LookUpField(s, n) PROVE FormInv'
    <2> DEFINE pc == IF fields[editor[s].template][n] > 0 THEN "next" ELSE "insert"
               record == [editor[s] EXCEPT !.todo = @ \ {n}, !.name = n, !.pc = pc]
    <2>1. pc \in {"next", "insert"}
      OBVIOUS
    <2>2. editor' = [editor EXCEPT ![s] = record] /\ UNCHANGED <<template, pdf, fields>>
      BY <1>0, <1>9 DEF LookUpField, FormTypeOK
    <2> HIDE DEF pc
    <2>3. record \in EditorRecord /\ record.pc = pc
      BY <1>0, <2>1, EditorTypes DEF EditorRecord, EditorPc
    <2> HIDE DEF record
    <2> QED
      BY <1>0, <2>1, <2>2, <2>3, OneGoesOn, OnlySessionsMove
  <1>10. ASSUME NEW s \in Editors, InsertField(s) PROVE FormInv'
    <2> DEFINE t == editor[s].template
    <2>1. CASE Stored(t)
      <3>1. /\ fields' = [fields EXCEPT ![t][editor[s].name] = @ + 1]
            /\ Step(s, "confirm") /\ template' = template /\ pdf' = pdf
        BY <1>10, <2>1 DEF InsertField
      <3>2. "confirm" \in EditorPc \ {"insertTemplate", "fields", "row", "unlink"}
        BY DEF EditorPc
      <3>3. editor' \in [Editors -> EditorRecord] /\ NoNewHolder
        BY <1>0, <3>1, <3>2, StepGoesOn
      <3> HIDE DEF t
      <3>4. fields' \in [Templates -> [FieldNames -> Nat]]
        <4> DEFINE counts == [fields[t] EXCEPT ![editor[s].name] = @ + 1]
        <4>1. t \in Templates => counts \in [FieldNames -> Nat]
          BY <1>0, OneRowMore DEF FormTypeOK
        <4>2. fields' = [fields EXCEPT ![t] = counts]
          BY <3>1
        <4> HIDE DEF counts
        <4> QED
          BY <1>0, <4>1, <4>2 DEF FormTypeOK
      <3>5. \A u \in Templates : HasFields(u)' => HasFields(u) \/ Stored(u)
        BY <1>0, <2>1, <3>1 DEF FormTypeOK, HasFields
      <3> QED
        BY <3>1, <3>3, <3>4, <3>5, FieldsWritten
    <2>2. CASE ~Stored(t)
      <3>1. Finish(s) /\ UNCHANGED <<template, pdf, fields>>
        BY <1>10, <2>2 DEF InsertField
      <3> QED
        BY <1>0, <3>1, FinishGoesOn, OnlySessionsMove
    <2> QED
      BY <2>1, <2>2
  <1>11. ASSUME NEW s \in Editors, ConfirmField(s) \/ Analysed(s) \/ Prepare(s) PROVE FormInv'
    <2>1. UNCHANGED <<template, pdf, fields>> /\ (Step(s, "next") \/ Step(s, "prepare") \/ Finish(s))
      BY <1>11 DEF ConfirmField, Analysed, Prepare
    <2>2. {"next", "prepare"} \subseteq EditorPc \ {"insertTemplate", "fields", "row", "unlink"}
      BY DEF EditorPc
    <2>3. editor' \in [Editors -> EditorRecord] /\ NoNewHolder
      BY <1>0, <2>1, <2>2, StepGoesOn, FinishGoesOn
    <2> QED
      BY <2>1, <2>3, OnlySessionsMove
  <1>12. ASSUME NEW s \in Editors, NEW t \in Templates, StartPreparation(s, t) PROVE FormInv'
    <2> DEFINE record == IF HasFields(t) THEN [AtRest EXCEPT !.pc = "prepare", !.template = t]
                         ELSE Analysing(t, "next", TRUE)
    <2>1. record \in EditorRecord /\ record.pc \in {"prepare", "next"}
      BY DEF Analysing, AtRest, EditorRecord, EditorPc
    <2>2. editor' = [editor EXCEPT ![s] = record] /\ UNCHANGED <<template, pdf, fields>>
      BY <1>12 DEF StartPreparation
    <2> HIDE DEF record
    <2> QED
      BY <1>0, <2>1, <2>2, OneGoesOn, OnlySessionsMove
  <1>13. CASE FormCrash
    <2>1. editor' \in [Editors -> EditorRecord] /\ NoNewHolder
      BY <1>13, RestTypes DEF FormCrash, NoNewHolder
    <2> QED
      BY <1>13, <2>1, OnlySessionsMove DEF FormCrash
  <1>14. CASE UNCHANGED formVars
    <2>1. editor' \in [Editors -> EditorRecord] /\ NoNewHolder
      BY <1>0, <1>14 DEF formVars, FormTypeOK, NoNewHolder
    <2> QED
      BY <1>14, <2>1, OnlySessionsMove DEF formVars
  <1> QED
    BY <1>1, <1>2, <1>3, <1>4, <1>5, <1>6, <1>7, <1>8, <1>9, <1>10, <1>11, <1>12, <1>13, <1>14 DEF FormNext

\* Whoever deletes, analyses or prepares a template, and wherever it is cut off: a template that is
\* listed can be filled, and no field is left without its template.
THEOREM TemplateUsable == FormSpec => []StoredTemplateIsUsable
  <1>1. FormInv => StoredTemplateIsUsable
    BY DEF FormInv
  <1> QED
    BY <1>1, InitForm, FormPreserved, PTL DEF FormSpec

-----------------------------------------------------------------------------
(* Filling of a form *)

RowsOfFields(some) == IsFiniteSet(some) /\ \A r \in some : r = NewRow(r.field)

\* What the session carries while it fills the form, and what it has completed.
FillingInv ==
    /\ DOMAIN profiles = Applicants /\ DOMAIN edits = Applicants
    /\ \A p \in Applicants : profiles[p] \in edits[p]
    /\ RowsOfFields(rows)
    /\ filler.person \in Applicants
    /\ filler.pc \in {"profile", "write"} => RowsOfFields(filler.read)
    /\ filler.pc = "write" => filler.profile \in edits[filler.person]
    /\ \A form \in Range(completed) : form.person \in Applicants
    /\ CompletedFormsAreTrue

\* The analysis makes a row for the field it found.
LEMMA RowOfField == ASSUME NEW f PROVE NewRow(f).field = f
  BY DEF NewRow

\* A field the form requires is one the user sees.
LEMMA RequiredRow ==
  ASSUME NEW f \in RequiredFields
  PROVE  NewRow(f).required /\ IsVisible(NewRow(f))
  BY DEF RequiredFields, NewRow, Anmeldung, IsVisible

\* What is counted is what the preview shows.
LEMMA CountIsPreview ==
  ASSUME NEW some, RowsOfFields(some), NEW version
  PROVE  /\ MissingCount(some, version) = 0 <=> MissingInPreview(some, version) = {}
         /\ MissingInPreview(some, version) = {r \in VisibleRows(some) : r.required /\ r \notin Fillable(some, version)}
  <1>1. MissingInPreview(some, version) = {r \in VisibleRows(some) : r.required /\ r \notin Fillable(some, version)}
    BY DEF MissingInPreview, Fillable
  <1>2. MissingInPreview(some, version) \subseteq some
    BY DEF MissingInPreview, VisibleRows
  <1>3. IsFiniteSet(MissingInPreview(some, version))
    BY <1>2, FS_Subset DEF RowsOfFields
  <1>4. MissingCount(some, version) = Cardinality(MissingInPreview(some, version))
    BY <1>1 DEF MissingCount
  <1> QED
    BY <1>1, <1>3, <1>4, FS_EmptySet

\* A form as it is written says the truth about the version it was filled from.
LEMMA WrittenFormIsTrue ==
  ASSUME NEW read, RowsOfFields(read), NEW version
  PROVE  /\ \A entry \in ValuesByPdfField(read, version) : entry.value = version[NewRow(entry.field).mapped]
         /\ MissingCount(read, version) = 0 =>
               \A f \in RequiredFields :
                  f \in {r.field : r \in read} => f \in {entry.field : entry \in ValuesByPdfField(read, version)}
  <1>1. ASSUME NEW entry \in ValuesByPdfField(read, version) PROVE entry.value = version[NewRow(entry.field).mapped]
    <2>1. PICK r \in Fillable(read, version) : entry = [field |-> r.field, value |-> version[r.mapped]]
      BY DEF ValuesByPdfField
    <2>2. r = NewRow(r.field)
      BY DEF Fillable, VisibleRows, RowsOfFields
    <2> QED
      BY <2>1, <2>2
  <1>2. ASSUME MissingCount(read, version) = 0, NEW f \in RequiredFields, f \in {r.field : r \in read}
        PROVE  f \in {entry.field : entry \in ValuesByPdfField(read, version)}
    <2>1. PICK r \in read : f = r.field
      BY <1>2
    <2>2. r = NewRow(f)
      BY <2>1 DEF RowsOfFields
    <2>3. r \in VisibleRows(read) /\ r.required
      BY <2>2, RequiredRow DEF VisibleRows
    <2>4. r \in Fillable(read, version)
      BY <1>2, <2>3, CountIsPreview
    <2>5. [field |-> r.field, value |-> version[r.mapped]] \in ValuesByPdfField(read, version)
      BY <2>4 DEF ValuesByPdfField
    <2>6. [field |-> r.field, value |-> version[r.mapped]].field = f
      BY <2>1
    <2> QED
      BY <2>5, <2>6
  <1> QED
    BY <1>1, <1>2

\* No form is completed and no row is analysed at first.
LEMMA FillingBegins == FillingInit => FillingInv
  <1> SUFFICES ASSUME FillingInit PROVE FillingInv
    OBVIOUS
  <1>1. RowsOfFields(rows)
    BY FS_EmptySet DEF FillingInit, RowsOfFields
  <1>2. Range(completed) = {}
    BY DEF FillingInit, Range
  <1>3. CompletedFormsAreTrue
    BY <1>1, <1>2, CountIsPreview DEF CompletedFormsAreTrue, RequiredDataReady
  <1>4. filler.person \in Applicants /\ filler.pc = "page"
    BY DEF FillingInit, AtPage
  <1> QED
    BY <1>1, <1>2, <1>3, <1>4 DEF FillingInit, FillingInv

\* Steps that complete no form: the profiles have one version more, the rows stay analysed and
\* the session carries what it read.
LEMMA FillingGoesOn ==
  ASSUME FillingInv, UNCHANGED completed,
         DOMAIN profiles' = Applicants, DOMAIN edits' = Applicants,
         \A p \in Applicants : profiles'[p] \in edits'[p] /\ edits[p] \subseteq edits'[p],
         RowsOfFields(rows'), filler'.person \in Applicants,
         filler'.pc \in {"profile", "write"} => RowsOfFields(filler'.read),
         filler'.pc = "write" => filler'.profile \in edits'[filler'.person]
  PROVE  FillingInv'
  <1>1. \A form \in Range(completed') : form.person \in Applicants /\ form \in Range(completed)
    BY DEF FillingInv
  <1>2. \A p \in Applicants : RequiredDataReady(rows', profiles'[p]) <=> MissingCount(rows', profiles'[p]) = 0
    BY CountIsPreview DEF RequiredDataReady
  <1>3. CompletedFormsAreTrue'
    BY <1>1, <1>2 DEF FillingInv, CompletedFormsAreTrue
  <1> QED
    BY <1>1, <1>3 DEF FillingInv

\* A row more is an analysed set of rows still.
LEMMA OneFieldMore ==
  ASSUME NEW some, RowsOfFields(some), NEW f
  PROVE  RowsOfFields(some \cup {NewRow(f)})
  BY FS_AddElement, RowOfField DEF RowsOfFields

\* The file is written from the rows and the profile the session read.
LEMMA WriteFormKeeps == FillingInv /\ WriteForm => FillingInv'
  <1> SUFFICES ASSUME FillingInv, WriteForm PROVE FillingInv'
    OBVIOUS
  <1> DEFINE form == [person |-> filler.person, read |-> filler.read,
                       values |-> ValuesByPdfField(filler.read, filler.profile),
                       missing |-> MissingCount(filler.read, filler.profile)]
  <1>1. /\ completed' = <<form>> /\ UNCHANGED <<profiles, edits, rows>>
        /\ RowsOfFields(filler.read) /\ filler.profile \in edits[filler.person]
        /\ filler.person \in Applicants /\ filler'.person = filler.person /\ filler'.pc = "page"
    BY DEF WriteForm, FillingInv, AtPage
  <1>2. /\ form.person = filler.person /\ form.read = filler.read
        /\ form.values = ValuesByPdfField(filler.read, filler.profile)
        /\ form.missing = MissingCount(filler.read, filler.profile)
    OBVIOUS
  <1> HIDE DEF form
  <1>3. Range(completed') = {form}
    BY <1>1 DEF Range
  <1>4. /\ \A entry \in form.values : entry.value = filler.profile[NewRow(entry.field).mapped]
        /\ form.missing = 0 =>
                \A f \in RequiredFields :
                    f \in {r.field : r \in form.read} => f \in {entry.field : entry \in form.values}
    BY <1>1, <1>2, WrittenFormIsTrue
  <1>5. CompletedFormsAreTrue'
    BY <1>1, <1>2, <1>3, <1>4 DEF FillingInv, CompletedFormsAreTrue
  <1> QED
    BY <1>1, <1>2, <1>3, <1>5 DEF FillingInv

\* Every step of the page and of the profile keeps the invariant.
LEMMA FillingPreserved == FillingInv /\ [FillingNext]_fillingVars => FillingInv'
  <1> SUFFICES ASSUME FillingInv, [FillingNext]_fillingVars PROVE FillingInv'
    OBVIOUS
  <1>1. ASSUME NEW p \in Applicants, NEW name, NEW value, EditProfile(p, name, value) PROVE FillingInv'
    <2>1. /\ UNCHANGED <<rows, filler, completed>>
          /\ DOMAIN profiles' = Applicants /\ DOMAIN edits' = Applicants
          /\ \A q \in Applicants : profiles'[q] \in edits'[q] /\ edits[q] \subseteq edits'[q]
      BY <1>1 DEF EditProfile, FillingInv
    <2> QED
      BY <2>1, FillingGoesOn DEF FillingInv
  <1>2. ASSUME NEW f \in FormFields, AnalyseField(f) PROVE FillingInv'
    BY <1>2, OneFieldMore, FillingGoesOn DEF AnalyseField, FillingInv
  <1>3. CASE ResetFields
    BY <1>3, FS_EmptySet, FillingGoesOn DEF ResetFields, FillingInv, RowsOfFields
  <1>4. ASSUME NEW p \in Applicants, filler' = AtPage(p), UNCHANGED <<profiles, edits, rows, completed>>
        PROVE  FillingInv'
    BY <1>4, FillingGoesOn DEF FillingInv, AtPage
  <1>5. CASE \E p \in Applicants : SwitchPerson(p)
    BY <1>4, <1>5 DEF SwitchPerson
  <1>6. CASE FillAutomatically
    BY <1>6, FillingGoesOn DEF FillAutomatically, FillingInv
  <1>7. CASE AnalyseNext
    <2>1. PICK f \in filler.todo : rows' = rows \cup {NewRow(f)}
            /\ filler' = [filler EXCEPT !.todo = @ \ {f}, !.pc = IF filler.todo = {f} THEN "rows" ELSE "analyse"]
      BY <1>7 DEF AnalyseNext
    <2>2. filler'.person = filler.person /\ filler'.pc \in {"rows", "analyse"}
      BY <2>1, <1>7 DEF AnalyseNext
    <2> QED
      BY <1>7, <2>1, <2>2, OneFieldMore, FillingGoesOn DEF AnalyseNext, FillingInv
  <1>8. CASE ReadRows
    BY <1>4, <1>8, FillingGoesOn DEF ReadRows, FillingInv
  <1>9. CASE ReadProfile
    BY <1>4, <1>9, FillingGoesOn DEF ReadProfile, FillingInv
  <1>10. CASE WriteForm
    BY <1>10, WriteFormKeeps
  <1>11. CASE Interrupt
    BY <1>4, <1>11 DEF Interrupt, FillingInv
  <1>12. CASE UNCHANGED fillingVars
    BY <1>12, FillingGoesOn DEF fillingVars, FillingInv
  <1> QED
    BY <1>1, <1>2, <1>3, <1>5, <1>6, <1>7, <1>8, <1>9, <1>10, <1>11, <1>12 DEF FillingNext

\* For any applicants, values and fields: a completed form comes from one version of the version
\* of its applicant, and no required field that was analysed is left out of a form that reported
\* none missing; and the preview and the filling count alike.
THEOREM FormsAreTrue == FillingSpec => []CompletedFormsAreTrue
  <1>1. FillingInv => CompletedFormsAreTrue
    BY DEF FillingInv
  <1> QED
    BY <1>1, FillingBegins, FillingPreserved, PTL DEF FillingSpec

-----------------------------------------------------------------------------
(* Profile fields *)

-----------------------------------------------------------------------------
VRecord == [pc : {"idle", "look", "write", "built", "failed"}, facts : Seq(AcceptableFacts), done : Nat,
            found : BOOLEAN, shown : [ProfileNames -> Nat], touched : SUBSET ProfileNames]

ProfileRow == [id : Nat, value : AcceptableFacts \cup {Typed}, source : {"none", "accepted_fact", "manual"}]

ProfileTypes ==
    /\ accepted \subseteq AcceptableFacts
    /\ profile \in [ProfileNames -> ProfileRow]
    /\ lastFieldId \in Nat
    /\ viewer \in [Viewers -> VRecord]

NameAt(s, k) == NameOfFact[viewer[s].facts[k]]

\* a build lists its facts in order and goes through them one by one
PlaceInv(s) ==
    viewer[s].pc # "idle" =>
        /\ \A i, j \in 1..Len(viewer[s].facts) : i < j => viewer[s].facts[i] < viewer[s].facts[j]
        /\ viewer[s].done \in 0..Len(viewer[s].facts)
        /\ viewer[s].pc \in {"look", "write", "failed"} => viewer[s].done + 1 \in 1..Len(viewer[s].facts)
        /\ viewer[s].pc = "built" => viewer[s].done = Len(viewer[s].facts)

\* what was looked up is so still, or another session changed it
LookedUpInv(s) ==
    /\ viewer[s].pc = "write" /\ NextName(s) \notin viewer[s].touched => (viewer[s].found <=> HasField(NextName(s)))
    /\ viewer[s].pc = "failed" => NextName(s) \in viewer[s].touched

\* what was written and not overwritten since is there
WrittenInv(s) ==
    viewer[s].pc # "idle" =>
        \A k \in 1..viewer[s].done :
            /\ NameAt(s, k) \notin viewer[s].touched
            /\ \A j \in 1..viewer[s].done : k < j => NameAt(s, j) # NameAt(s, k)
            => profile[NameAt(s, k)].value = viewer[s].facts[k] /\ profile[NameAt(s, k)].source = "accepted_fact"

BuildInv(s) == PlaceInv(s) /\ LookedUpInv(s) /\ WrittenInv(s)

ProfileInv == ProfileTypes /\ \A s \in Viewers : BuildInv(s)

\* What a session of the profile page carries, typed.
LEMMA ViewerTypes ==
  ASSUME ProfileTypes, NEW s \in Viewers
  PROVE  /\ viewer[s] \in VRecord
         /\ viewer[s].facts \in Seq(AcceptableFacts) /\ viewer[s].done \in Nat
         /\ viewer[s].touched \subseteq ProfileNames /\ viewer[s].found \in BOOLEAN
         /\ viewer[s].shown \in [ProfileNames -> Nat]
         /\ \A k \in 1..Len(viewer[s].facts) : viewer[s].facts[k] \in AcceptableFacts /\ NameAt(s, k) \in ProfileNames
<1>1. viewer[s] \in VRecord
  BY DEF ProfileTypes
<1>2. viewer[s].facts \in Seq(AcceptableFacts)
  BY <1>1 DEF VRecord
<1>3. \A k \in 1..Len(viewer[s].facts) : viewer[s].facts[k] \in AcceptableFacts
  BY <1>2
<1>4. \A k \in 1..Len(viewer[s].facts) : NameAt(s, k) \in ProfileNames
  BY <1>3, ViewerAssumption DEF NameAt
<1> QED
  BY <1>1, <1>2, <1>3, <1>4 DEF VRecord

\* A session whose build is not touched by a step, but for the names others change
LEMMA OthersBuild ==
  ASSUME ProfileInv, NEW v \in Viewers, NEW names \in SUBSET ProfileNames,
         \A n \in ProfileNames \ names : profile'[n] = profile[n],
         viewer'[v] = [viewer[v] EXCEPT !.touched = @ \cup names]
  PROVE  viewer'[v] \in VRecord /\ BuildInv(v)'
<1> USE ViewerTypes DEF ProfileInv
<1>1. /\ viewer'[v] \in VRecord
      /\ viewer'[v].pc = viewer[v].pc /\ viewer'[v].facts = viewer[v].facts
      /\ viewer'[v].done = viewer[v].done /\ viewer'[v].found = viewer[v].found
      /\ viewer'[v].touched = viewer[v].touched \cup names
  BY DEF VRecord
<1>2. /\ \A k : NameAt(v, k)' = NameAt(v, k)
      /\ NextName(v)' = NextName(v) /\ NextName(v) = NameAt(v, viewer[v].done + 1)
  BY <1>1 DEF NameAt, NextName, NextFact
<1>3. PlaceInv(v)'
  BY <1>1 DEF PlaceInv, BuildInv
<1>4. LookedUpInv(v)'
  <2>1. viewer[v].pc \in {"write", "failed"} => NextName(v) \in ProfileNames
    BY <1>2 DEF PlaceInv, BuildInv
  <2> QED
    BY <1>1, <1>2, <2>1 DEF LookedUpInv, BuildInv, HasField
<1>5. WrittenInv(v)'
  <2> SUFFICES ASSUME viewer[v].pc # "idle", NEW k \in 1..viewer[v].done, NameAt(v, k) \notin viewer[v].touched \cup names,
                      \A j \in 1..viewer[v].done : k < j => NameAt(v, j) # NameAt(v, k)
               PROVE  profile'[NameAt(v, k)].value = viewer[v].facts[k] /\ profile'[NameAt(v, k)].source = "accepted_fact"
    BY <1>1, <1>2 DEF WrittenInv
  <2>1. k \in 1..Len(viewer[v].facts)
    BY DEF PlaceInv, BuildInv
  <2>2. profile'[NameAt(v, k)] = profile[NameAt(v, k)]
    BY <2>1
  <2> QED
    BY <2>2 DEF WrittenInv, BuildInv
<1> QED
  BY <1>1, <1>3, <1>4, <1>5 DEF BuildInv

\* What the steps of a session have in common: s goes to `new`, the names it changed are noted.
LEMMA SessionMoves ==
  ASSUME ProfileInv, NEW s \in Viewers, NEW names \in SUBSET ProfileNames, NEW new \in VRecord,
         viewer' = [v \in Viewers |-> IF v = s THEN new ELSE [viewer[v] EXCEPT !.touched = @ \cup names]],
         accepted' \subseteq AcceptableFacts, profile' \in [ProfileNames -> ProfileRow], lastFieldId' \in Nat,
         \A n \in ProfileNames \ names : profile'[n] = profile[n],
         BuildInv(s)'
  PROVE  ProfileInv'
<1>1. \A v \in Viewers : v # s => viewer'[v] = [viewer[v] EXCEPT !.touched = @ \cup names]
  OBVIOUS
<1>2. viewer'[s] = new
  OBVIOUS
<1>3. \A v \in Viewers : viewer'[v] \in VRecord /\ BuildInv(v)'
  BY <1>1, <1>2, OthersBuild
<1>4. viewer' \in [Viewers -> VRecord]
  BY <1>3
<1> QED
  BY <1>3, <1>4 DEF ProfileInv, ProfileTypes

\* A step of s alone
LEMMA SessionMovesAlone ==
  ASSUME ProfileInv, NEW s \in Viewers, NEW new \in VRecord, viewer' = [viewer EXCEPT ![s] = new],
         UNCHANGED <<accepted, profile, lastFieldId>>,
         BuildInv(s)'
  PROVE  ProfileInv'
<1>1. \A v \in Viewers : viewer[v] = [viewer[v] EXCEPT !.touched = @ \cup {}]
  BY ViewerTypes DEF ProfileInv, VRecord
<1>2. viewer' = [v \in Viewers |-> IF v = s THEN new ELSE [viewer[v] EXCEPT !.touched = @ \cup {}]]
  BY <1>1 DEF ProfileInv, ProfileTypes
<1> QED
  BY <1>2, SessionMoves DEF ProfileInv, ProfileTypes

\* A session between two builds carries nothing.
LEMMA IdleBuild ==
  ASSUME NEW s \in Viewers, viewer[s].pc = "idle" PROVE BuildInv(s)
  BY DEF BuildInv, PlaceInv, LookedUpInv, WrittenInv

-----------------------------------------------------------------------------

\* Every name has a number of rows in the table.
LEMMA IdsTyped == ProfileTypes => IdsInTable \in [ProfileNames -> Nat]
  BY DEF ProfileTypes, IdsInTable, ProfileRow

\* A step of an idle session that stays idle: loading, and every change by hand.
LEMMA IdleSteps ==
  ASSUME ProfileInv, NEW s \in Viewers, viewer[s].pc = "idle",
         NEW shown \in [ProfileNames -> Nat], NEW names \in SUBSET ProfileNames,
         Proceed(s, [viewer[s] EXCEPT !.shown = shown], names),
         UNCHANGED accepted, profile' \in [ProfileNames -> ProfileRow], lastFieldId' \in Nat,
         \A n \in ProfileNames \ names : profile'[n] = profile[n]
  PROVE  ProfileInv'
<1> DEFINE new == [viewer[s] EXCEPT !.shown = shown]
<1>1. new \in VRecord /\ new.pc = "idle"
  BY ViewerTypes DEF ProfileInv, VRecord
<1>2. viewer' = [v \in Viewers |-> IF v = s THEN new ELSE [viewer[v] EXCEPT !.touched = @ \cup names]]
  BY DEF Proceed
<1> HIDE DEF new
<1>3. BuildInv(s)'
  BY <1>1, <1>2 DEF BuildInv, PlaceInv, LookedUpInv, WrittenInv
<1> QED
  BY <1>1, <1>2, <1>3, SessionMoves DEF ProfileInv, ProfileTypes

\* Loading the page, and a field added, edited or deleted by hand, keep the invariant.
LEMMA HandSteps ==
  ASSUME ProfileInv, NEW s \in Viewers,
         \/ ClearProfile(s)
         \/ \E n \in ProfileNames : \/ AddProfileField(s, n) \/ DeleteProfileField(s, n)
                                   \/ \E source \in {"accepted_fact", "manual"} : UpdateProfileField(s, n, source)
  PROVE  ProfileInv'
<1>1. NoField \in ProfileRow /\ \A n \in ProfileNames : profile[n] \in ProfileRow
  BY DEF ProfileInv, ProfileTypes, NoField, ProfileRow, Typed
<1>2. ASSUME NEW names \in SUBSET ProfileNames, viewer[s].pc = "idle", Rerun(s, names), UNCHANGED accepted,
             profile' \in [ProfileNames -> ProfileRow], lastFieldId' \in Nat,
             \A n \in ProfileNames \ names : profile'[n] = profile[n]
      PROVE  ProfileInv'
  <2>1. [n \in ProfileNames |-> profile'[n].id] \in [ProfileNames -> Nat]
    BY <1>2 DEF ProfileRow
  <2> QED
    BY <1>2, <2>1, IdleSteps DEF Rerun
<1>3. lastFieldId \in Nat
  BY DEF ProfileInv, ProfileTypes
<1>4. CASE ClearProfile(s)
  BY <1>1, <1>2, <1>3, <1>4 DEF ClearProfile
<1>5. ASSUME NEW n \in ProfileNames, AddProfileField(s, n) PROVE ProfileInv'
  <2>1. /\ [profile[n] EXCEPT !.value = Typed, !.source = "manual"] \in ProfileRow
        /\ [id |-> lastFieldId + 1, value |-> Typed, source |-> "manual"] \in ProfileRow
    <3>1. profile[n] \in ProfileRow /\ lastFieldId + 1 \in Nat
      BY <1>1, <1>3
    <3> QED
      BY <3>1 DEF ProfileRow, Typed
  <2>2. PICK row \in ProfileRow : profile' = [profile EXCEPT ![n] = row]
    BY <1>5, <2>1 DEF AddProfileField
  <2>3. lastFieldId' \in Nat
    <3>1. CASE HasField(n)
      BY <1>3, <1>5, <3>1 DEF AddProfileField
    <3>2. CASE ~HasField(n)
      <4>1. lastFieldId' = lastFieldId + 1 /\ lastFieldId \in Nat
        BY <1>3, <1>5, <3>2 DEF AddProfileField
      <4> QED
        BY <4>1
    <3> QED
      BY <3>1, <3>2
  <2>4. profile' \in [ProfileNames -> ProfileRow] /\ \A m \in ProfileNames \ {n} : profile'[m] = profile[m]
    BY <2>2 DEF ProfileInv, ProfileTypes
  <2> QED
    BY <1>2, <1>5, <2>3, <2>4 DEF AddProfileField
<1>6. \A id : NamesWithId(id) \subseteq ProfileNames
  BY DEF NamesWithId
<1>7. ASSUME NEW n \in ProfileNames, DeleteProfileField(s, n) PROVE ProfileInv'
  <2> DEFINE names == NamesWithId(viewer[s].shown[n])
  <2>1. profile' = [m \in ProfileNames |-> IF m \in names THEN NoField ELSE profile[m]]
    BY <1>7 DEF DeleteProfileField
  <2>2. profile' \in [ProfileNames -> ProfileRow] /\ \A m \in ProfileNames \ names : profile'[m] = profile[m]
    BY <1>1, <2>1
  <2> QED
    BY <1>2, <1>3, <1>6, <1>7, <2>2 DEF DeleteProfileField
<1>8. ASSUME NEW n \in ProfileNames, NEW source \in {"accepted_fact", "manual"}, UpdateProfileField(s, n, source) PROVE ProfileInv'
  <2> DEFINE names == NamesWithId(viewer[s].shown[n])
  <2>1. profile' = [m \in ProfileNames |-> IF m \in names THEN [profile[m] EXCEPT !.value = Typed, !.source = source] ELSE profile[m]]
    BY <1>8 DEF UpdateProfileField
  <2>2. \A m \in ProfileNames : [profile[m] EXCEPT !.value = Typed, !.source = source] \in ProfileRow
    BY <1>1 DEF ProfileRow, Typed
  <2>3. profile' \in [ProfileNames -> ProfileRow] /\ \A m \in ProfileNames \ names : profile'[m] = profile[m]
    BY <1>1, <2>1, <2>2
  <2> QED
    BY <1>2, <1>3, <1>6, <1>8, <2>3 DEF UpdateProfileField
<1> QED
  BY <1>4, <1>5, <1>7, <1>8

\* A build begins with the facts in order, of which there is one at least.
LEMMA ListingSteps == ASSUME ProfileInv, NEW s \in Viewers, ListAcceptedFacts(s) PROVE ProfileInv'
<1> DEFINE listed == InOrder(accepted)
           new == [viewer[s] EXCEPT !.pc = "look", !.done = 0, !.touched = {}, !.facts = listed]
<1>1. accepted \in SUBSET Nat /\ IsFiniteSet(accepted) /\ accepted # {} /\ accepted \subseteq AcceptableFacts
  BY ViewerAssumption, FS_Subset DEF ProfileInv, ProfileTypes, ListAcceptedFacts
<1>2. /\ listed \in Seq(accepted) /\ Len(listed) = Cardinality(accepted)
      /\ \A i, j \in 1..Len(listed) : i < j => listed[i] < listed[j]
  BY <1>1, InOrderLists
<1>3. Cardinality(accepted) \in Nat \ {0}
  BY <1>1, FS_CardinalityType, FS_EmptySet
<1> HIDE DEF listed
<1>4. listed \in Seq(AcceptableFacts)
  <2>1. Len(listed) \in Nat /\ listed \in [1..Len(listed) -> accepted]
    BY <1>2
  <2>2. listed \in [1..Len(listed) -> AcceptableFacts]
    BY <1>1, <2>1
  <2> HIDE DEF new
  <2> QED
    BY <2>1, <2>2
<1>5. new \in VRecord /\ new.pc = "look" /\ new.done = 0 /\ new.facts = listed
  BY <1>4, ViewerTypes DEF ProfileInv, VRecord
<1>6. viewer' = [viewer EXCEPT ![s] = new] /\ UNCHANGED <<accepted, profile, lastFieldId>>
  BY DEF ListAcceptedFacts, listed
<1> HIDE DEF new
<1>7. viewer'[s] = new
  BY <1>6 DEF ProfileInv, ProfileTypes
<1>8. BuildInv(s)'
  BY <1>2, <1>3, <1>5, <1>7 DEF BuildInv, PlaceInv, LookedUpInv, WrittenInv
<1> QED
  BY <1>5, <1>6, <1>8, SessionMovesAlone

\* Looking up, being refused and reporting change the session alone.
LEMMA LookingSteps ==
  ASSUME ProfileInv, NEW s \in Viewers, LookForField(s) \/ RefuseBuiltField(s) \/ ReportBuild(s)
  PROVE  ProfileInv'
<1>1. viewer[s] \in VRecord /\ BuildInv(s) /\ UNCHANGED <<accepted, profile, lastFieldId>>
  BY ViewerTypes DEF ProfileInv, LookForField, RefuseBuiltField, ReportBuild
<1>2. ASSUME NEW pc \in {"write", "failed"}, NEW found \in BOOLEAN, viewer[s].pc \in {"look", "write"},
             viewer' = [viewer EXCEPT ![s] = [viewer[s] EXCEPT !.pc = pc, !.found = found]],
             pc = "write" => (found <=> HasField(NextName(s))),
             pc = "failed" => NextName(s) \in viewer[s].touched
      PROVE  ProfileInv'
  <2> DEFINE new == [viewer[s] EXCEPT !.pc = pc, !.found = found]
  <2>1. new \in VRecord /\ new.pc = pc /\ new.found = found /\ new.facts = viewer[s].facts /\ new.done = viewer[s].done
        /\ new.touched = viewer[s].touched
    BY <1>1 DEF VRecord
  <2>2. viewer' = [viewer EXCEPT ![s] = new]
    BY <1>2
  <2> HIDE DEF new
  <2>3. viewer'[s] = new
    BY <2>2 DEF ProfileInv, ProfileTypes
  <2>4. (\A k : NameAt(s, k)' = NameAt(s, k)) /\ NextName(s)' = NextName(s)
    BY <2>1, <2>3 DEF NameAt, NextName, NextFact
  <2>5. PlaceInv(s)' /\ LookedUpInv(s)'
    BY <1>1, <1>2, <2>1, <2>3, <2>4 DEF BuildInv, PlaceInv, LookedUpInv, HasField
  <2>6. WrittenInv(s)'
    BY <1>1, <1>2, <2>1, <2>3, <2>4 DEF BuildInv, WrittenInv
  <2> QED
    BY <1>1, <2>1, <2>2, <2>5, <2>6, SessionMovesAlone DEF BuildInv
<1>3. CASE LookForField(s)
  <2>1. viewer' = [viewer EXCEPT ![s] = [viewer[s] EXCEPT !.pc = "write", !.found = HasField(NextName(s))]]
        /\ viewer[s].pc = "look" /\ HasField(NextName(s)) \in BOOLEAN
    BY <1>3 DEF LookForField, HasField, ProfileInv, ProfileTypes
  <2> QED
    BY <1>2, <2>1
<1>4. CASE RefuseBuiltField(s)
  <2>1. viewer[s].pc = "write" /\ ~viewer[s].found /\ HasField(NextName(s))
    BY <1>4 DEF RefuseBuiltField
  <2>2. NextName(s) \in viewer[s].touched
    BY <1>1, <2>1 DEF BuildInv, LookedUpInv
  <2>3. viewer' = [viewer EXCEPT ![s] = [viewer[s] EXCEPT !.pc = "failed", !.found = viewer[s].found]] /\ viewer[s].found \in BOOLEAN
    BY <1>1, <1>4 DEF RefuseBuiltField, ProfileInv, ProfileTypes, VRecord
  <2> QED
    BY <1>2, <2>1, <2>2, <2>3
<1>5. CASE ReportBuild(s)
  <2> DEFINE new == [ViewerAtRest EXCEPT !.shown = IF viewer[s].pc = "built" THEN IdsInTable ELSE viewer[s].shown]
  <2>1. new \in VRecord /\ new.pc = "idle"
    <3>1. ViewerAtRest \in VRecord /\ ViewerAtRest.pc = "idle"
      <4>1. <<>> \in Seq(AcceptableFacts) /\ [n \in ProfileNames |-> 0] \in [ProfileNames -> Nat] /\ {} \in SUBSET ProfileNames
        OBVIOUS
      <4> QED
        BY <4>1 DEF ViewerAtRest, VRecord
    <3>2. (IF viewer[s].pc = "built" THEN IdsInTable ELSE viewer[s].shown) \in [ProfileNames -> Nat]
      BY IdsTyped, ViewerTypes DEF ProfileInv
    <3> QED
      BY <3>1, <3>2 DEF VRecord
  <2>2. viewer' = [viewer EXCEPT ![s] = new]
    BY <1>5 DEF ReportBuild
  <2> HIDE DEF new
  <2>3. viewer'[s] = new
    BY <2>2 DEF ProfileInv, ProfileTypes
  <2>4. BuildInv(s)'
    BY <2>1, <2>3 DEF BuildInv, PlaceInv, LookedUpInv, WrittenInv
  <2> QED
    BY <1>1, <2>1, <2>2, <2>4, SessionMovesAlone
<1> QED
  BY <1>3, <1>4, <1>5

\* Writing the next fact: its field shows it now, and no field before is changed unless its name is the same.
LEMMA WritingSteps ==
  ASSUME ProfileInv, NEW s \in Viewers, InsertBuiltField(s) \/ UpdateBuiltField(s)
  PROVE  ProfileInv'
<1> DEFINE d == viewer[s].done + 1
           n == NameAt(s, d)
           new == Written(s)
<1>1. /\ viewer[s] \in VRecord /\ BuildInv(s) /\ viewer[s].pc = "write"
      /\ d \in 1..Len(viewer[s].facts) /\ n \in ProfileNames /\ viewer[s].facts[d] \in AcceptableFacts
      /\ NextName(s) = n /\ NextFact(s) = viewer[s].facts[d]
  BY ViewerTypes DEF ProfileInv, BuildInv, PlaceInv, InsertBuiltField, UpdateBuiltField, NextName, NextFact, NameAt
<1>2. /\ new \in VRecord /\ new.pc \in {"built", "look"} /\ new.done = d /\ new.facts = viewer[s].facts
      /\ new.touched = viewer[s].touched /\ (new.pc = "built" <=> d = Len(viewer[s].facts))
  <2>1. d \in Nat /\ (IF viewer[s].done + 1 = Len(viewer[s].facts) THEN "built" ELSE "look") \in {"built", "look"}
    BY <1>1
  <2> QED
    BY <1>1, <2>1 DEF Written, VRecord
<1>3. /\ profile' \in [ProfileNames -> ProfileRow] /\ \A m \in ProfileNames \ {n} : profile'[m] = profile[m]
      /\ n \notin viewer[s].touched => profile'[n].value = viewer[s].facts[d] /\ profile'[n].source = "accepted_fact"
      /\ lastFieldId' \in Nat /\ UNCHANGED accepted
  <2>1. CASE InsertBuiltField(s)
    <3> DEFINE row == [id |-> lastFieldId + 1, value |-> viewer[s].facts[d], source |-> "accepted_fact"]
    <3>1. row \in ProfileRow /\ row.value = viewer[s].facts[d] /\ row.source = "accepted_fact"
      BY <1>1 DEF ProfileInv, ProfileTypes, ProfileRow
    <3>2. profile' = [profile EXCEPT ![n] = row]
      BY <1>1, <2>1 DEF InsertBuiltField
    <3> HIDE DEF row, n
    <3> QED
      BY <1>1, <2>1, <3>1, <3>2 DEF InsertBuiltField, ProfileInv, ProfileTypes
  <2>2. CASE UpdateBuiltField(s)
    <3> DEFINE row == [profile[n] EXCEPT !.value = viewer[s].facts[d], !.source = "accepted_fact"]
    <3>1. row \in ProfileRow /\ row.value = viewer[s].facts[d] /\ row.source = "accepted_fact"
      BY <1>1 DEF ProfileInv, ProfileTypes, ProfileRow
    <3>2. profile' = IF HasField(n) THEN [profile EXCEPT ![n] = row] ELSE profile
      BY <1>1, <2>2 DEF UpdateBuiltField
    <3>3. n \notin viewer[s].touched => HasField(n)
      BY <1>1, <2>2 DEF UpdateBuiltField, BuildInv, LookedUpInv
    <3> HIDE DEF row, n
    <3> QED
      BY <1>1, <2>2, <3>1, <3>2, <3>3 DEF UpdateBuiltField, ProfileInv, ProfileTypes
  <2> QED
    BY <2>1, <2>2
<1>4. viewer' = [v \in Viewers |-> IF v = s THEN new ELSE [viewer[v] EXCEPT !.touched = @ \cup {n}]]
  BY <1>1 DEF InsertBuiltField, UpdateBuiltField, Proceed
<1> HIDE DEF new
<1>5. viewer'[s] = new /\ \A k : NameAt(s, k)' = NameAt(s, k)
  BY <1>2, <1>4 DEF NameAt
<1>6. PlaceInv(s)' /\ LookedUpInv(s)'
  BY <1>1, <1>2, <1>5, ViewerTypes DEF ProfileInv, BuildInv, PlaceInv, LookedUpInv
<1>7. WrittenInv(s)'
  <2> SUFFICES ASSUME NEW k \in 1..d, NameAt(s, k) \notin viewer[s].touched,
                      \A j \in 1..d : k < j => NameAt(s, j) # NameAt(s, k)
               PROVE  profile'[NameAt(s, k)].value = viewer[s].facts[k] /\ profile'[NameAt(s, k)].source = "accepted_fact"
    BY <1>2, <1>5 DEF WrittenInv
  <2>1. CASE k = d
    BY <1>3, <2>1
  <2>2. CASE k # d
    <3>1. k \in 1..viewer[s].done /\ k < d /\ d \in 1..d /\ k \in 1..Len(viewer[s].facts)
      BY <1>1, <2>2, ViewerTypes DEF ProfileInv
    <3>2. NameAt(s, k) # n /\ NameAt(s, k) \in ProfileNames
      BY <3>1, ViewerTypes DEF ProfileInv
    <3>3. \A j \in 1..viewer[s].done : j \in 1..d
      BY <1>1, ViewerTypes DEF ProfileInv
    <3>4. profile[NameAt(s, k)].value = viewer[s].facts[k] /\ profile[NameAt(s, k)].source = "accepted_fact"
      BY <1>1, <3>1, <3>3 DEF BuildInv, WrittenInv
    <3> QED
      BY <1>3, <3>2, <3>4
  <2> QED
    BY <2>1, <2>2
<1> HIDE DEF n
<1> QED
  BY <1>1, <1>2, <1>3, <1>4, <1>6, <1>7, SessionMoves DEF BuildInv, ProfileInv, ProfileTypes

\* The table is empty at first.
LEMMA ProfileBegins == ProfileInit => ProfileInv
<1> SUFFICES ASSUME ProfileInit PROVE ProfileInv
  OBVIOUS
<1>1. ViewerAtRest \in VRecord /\ ViewerAtRest.pc = "idle" /\ NoField \in ProfileRow
  BY DEF ViewerAtRest, VRecord, NoField, ProfileRow, Typed
<1>2. ProfileTypes
  BY <1>1 DEF ProfileInit, ProfileTypes
<1>3. \A s \in Viewers : viewer[s].pc = "idle"
  BY <1>1 DEF ProfileInit
<1> QED
  BY <1>2, <1>3, IdleBuild DEF ProfileInv

\* Every step of building and of editing by hand keeps the invariant.
LEMMA ProfilePreserved == ProfileInv /\ [ProfileNext]_profileVars => ProfileInv'
<1> SUFFICES ASSUME ProfileInv, [ProfileNext]_profileVars PROVE ProfileInv'
  OBVIOUS
<1>1. ASSUME UNCHANGED <<profile, lastFieldId, viewer>>, accepted' \subseteq AcceptableFacts PROVE ProfileInv'
  BY <1>1 DEF ProfileInv, ProfileTypes, BuildInv, PlaceInv, LookedUpInv, WrittenInv, NameAt, NextName, NextFact, HasField
<1>2. CASE AcceptForProfile \/ UNCHANGED profileVars
  BY <1>1, <1>2 DEF AcceptForProfile, profileVars, ProfileInv, ProfileTypes
<1>3. ASSUME NEW s \in Viewers, LoadProfile(s) PROVE ProfileInv'
  <2> DEFINE new == [viewer[s] EXCEPT !.shown = IdsInTable]
  <2>1. new \in VRecord /\ new.pc = "idle" /\ viewer' = [viewer EXCEPT ![s] = new] /\ UNCHANGED <<accepted, profile, lastFieldId>>
    BY <1>3, IdsTyped, ViewerTypes DEF LoadProfile, ProfileInv, VRecord
  <2> HIDE DEF new
  <2>2. viewer'[s] = new
    BY <2>1 DEF ProfileInv, ProfileTypes
  <2>3. BuildInv(s)'
    BY <2>1, <2>2 DEF BuildInv, PlaceInv, LookedUpInv, WrittenInv
  <2> QED
    BY <2>1, <2>3, SessionMovesAlone
<1> QED
  BY <1>2, <1>3, HandSteps, ListingSteps, LookingSteps, WritingSteps DEF ProfileNext

\* What the invariant knows of the rows is what a build must have told.
LEMMA BuildMeans == ProfileInv => BuildsTellTheTruth
<1> SUFFICES ASSUME ProfileInv PROVE BuildsTellTheTruth
  OBVIOUS
<1>1. ASSUME NEW s \in Viewers, viewer[s].pc = "built", NEW n \in ProfileNames \ viewer[s].touched, NEW f \in NewestFor(s, n)
      PROVE  profile[n].value = f /\ profile[n].source = "accepted_fact"
  <2>1. /\ viewer[s].facts \in Seq(AcceptableFacts) /\ viewer[s].done = Len(viewer[s].facts)
        /\ \A i, j \in 1..Len(viewer[s].facts) : i < j => viewer[s].facts[i] < viewer[s].facts[j]
    BY <1>1, ViewerTypes DEF ProfileInv, BuildInv, PlaceInv
  <2>2. PICK k \in 1..Len(viewer[s].facts) : viewer[s].facts[k] = f
    BY <2>1 DEF NewestFor, Range
  <2>3. \A j \in 1..Len(viewer[s].facts) : viewer[s].facts[j] \in Range(viewer[s].facts) /\ viewer[s].facts[j] \in Nat
    <3>1. \A j \in 1..Len(viewer[s].facts) : viewer[s].facts[j] \in AcceptableFacts
      BY <2>1
    <3>2. DOMAIN viewer[s].facts = 1..Len(viewer[s].facts)
      BY <2>1
    <3> QED
      BY <3>1, <3>2, ViewerAssumption DEF Range
  <2>4. \A j \in 1..Len(viewer[s].facts) : NameAt(s, j) = n => viewer[s].facts[j] <= f
    BY <2>3 DEF NewestFor, NameAt
  <2>5. \A j \in 1..Len(viewer[s].facts) : k < j => NameAt(s, j) # n
    BY <2>1, <2>2, <2>3, <2>4
  <2>6. NameAt(s, k) = n
    BY <2>2 DEF NewestFor, NameAt
  <2> QED
    BY <1>1, <2>1, <2>2, <2>5, <2>6 DEF ProfileInv, BuildInv, WrittenInv
<1>2. \A s \in Viewers : viewer[s].pc = "failed" => NextName(s) \in viewer[s].touched
  BY DEF ProfileInv, BuildInv, LookedUpInv
<1> QED
  BY <1>1, <1>2 DEF BuildsTellTheTruth

\* For any facts and names and any edits in between: after a build that succeeds every name with a
\* fact shows its newest fact, marked as accepted, unless another session changed that very field;
\* and a build fails only because another session did.
THEOREM BuildsAreTrue == ProfileSpec => []BuildsTellTheTruth
  BY ProfileBegins, ProfilePreserved, BuildMeans, PTL DEF ProfileSpec

-----------------------------------------------------------------------------
(* Advice and chat *)

Rows == Portraits \cup {NoPortrait}
PersonalOnes == {PersonalAdvice(row, today) : row \in Rows, today \in Nat}
ProactiveOnes == {ProactiveAdvice(row, today) : row \in Rows, today \in Nat}
SomePerson == Persons \cup {"nobody"}

Advice == [person : SomePerson, found : BOOLEAN, personal : PersonalOnes, proactive : ProactiveOnes, days : SUBSET Nat]
AllReplies == {"blank", "assistant", "greeting", "noise", "save", "summary", "model", "trusted", "candidates",
               "nothing trusted", "counts", "unclear", "saved", "failed"}
Told == [person : SomePerson, kind : AllReplies, facts : SUBSET {"name", "age"}]

ARecord == [pc : {"idle", "personal", "proactive", "saving"}, person : SomePerson, cache : Advice,
            vault : Rows, draft : Advice, null : BOOLEAN,
            history : Seq(Told), declared : SUBSET {"name", "age"}, inserted : SUBSET {"name", "age"}]

AdvisoryTypes ==
    /\ portrait \in [Persons -> Rows]
    /\ day \in Nat
    /\ advisor \in ARecord

\* what is shown was read off one row, each advisor on a day of its own
ShownInv ==
    IF advisor.cache.found
    THEN \E row \in Rows, then, now \in Nat :
            /\ advisor.cache.personal = PersonalAdvice(row, then)
            /\ advisor.cache.proactive = ProactiveAdvice(row, now)
            /\ advisor.cache.days = {then, now}
    ELSE advisor.cache.personal = {} /\ advisor.cache.proactive = {}

DraftInv ==
    advisor.pc = "proactive" =>
        \E then \in Nat : advisor.draft.personal = PersonalAdvice(advisor.vault, then) /\ advisor.draft.days = {then}

AdviceInv == AdvisoryTypes /\ ShownInv /\ DraftInv

\* No row of the vault gives no advice.
LEMMA NothingFromNobody ==
  /\ \A today : PersonalAdvice(NoPortrait, today) = {} /\ ProactiveAdvice(NoPortrait, today) = {}
  /\ {} \in PersonalOnes /\ {} \in ProactiveOnes
  /\ NoAdvice \in Advice /\ NoAdvice.found = FALSE
  /\ \A p \in SomePerson : [NoAdvice EXCEPT !.person = p] \in Advice /\ [NoAdvice EXCEPT !.person = p].found = FALSE
<1>1. \A today : PersonalAdvice(NoPortrait, today) = {}
  BY DEF PersonalAdvice
<1>2. DOMAIN NoPortrait.ends = {}
  BY DEF NoPortrait
<1>3. \A today : ProactiveAdvice(NoPortrait, today) = {}
  BY <1>2 DEF ProactiveAdvice
<1>4. NoPortrait \in Rows /\ 0 \in Nat
  BY DEF Rows
<1>5. {} \in PersonalOnes /\ {} \in ProactiveOnes
  <2>1. PersonalAdvice(NoPortrait, 0) \in PersonalOnes
    BY <1>4 DEF PersonalOnes
  <2>2. ProactiveAdvice(NoPortrait, 0) \in ProactiveOnes
    BY <1>4 DEF ProactiveOnes
  <2> QED
    BY <1>1, <1>3, <2>1, <2>2
<1>6. NoAdvice \in Advice /\ NoAdvice.found = FALSE
  BY <1>5 DEF NoAdvice, Advice, SomePerson
<1>7. \A p \in SomePerson : [NoAdvice EXCEPT !.person = p] \in Advice /\ [NoAdvice EXCEPT !.person = p].found = FALSE
  BY <1>6 DEF Advice
<1> QED
  BY <1>1, <1>3, <1>5, <1>6, <1>7

\* Read off the same row on the same day, the two advisors agree.
LEMMA SameDaySameAdvice ==
  ASSUME NEW row \in Rows, NEW today \in Nat
  PROVE  {[field |-> i.field, severity |-> i.severity] :
             i \in {j \in PersonalAdvice(row, today) : j.category = "documents"}} = ProactiveAdvice(row, today)
<1>1. CASE row = NoPortrait
  BY <1>1, NothingFromNobody
<1>2. CASE row # NoPortrait
  <2> DEFINE due == {g \in DOMAIN row.ends : row.ends[g] - today <= 90}
             paper == {DocumentAdvice(doc) : doc \in ExpiringDocs(row, today, 90)}
             short(i) == [field |-> i.field, severity |-> i.severity]
  <2>1. \A g \in due : row.ends[g] \in Int
    <3>1. row \in Portraits
      BY <1>2 DEF Rows
    <3>2. PICK F \in SUBSET ExpiryFields : row.ends \in [F -> ExpiryDays]
      BY <3>1 DEF Portraits
    <3> QED
      BY <3>2, AdvisoryAssumption
  <2>2. {j \in PersonalAdvice(row, today) : j.category = "documents"} = paper
    <3>1. \A j \in paper : j.category = "documents"
      BY DEF DocumentAdvice
    <3>2. PersonalAdvice(row, today) = RunRules(row, today)
      BY <1>2 DEF PersonalAdvice
    <3>3. \A j \in RunRules(row, today) : j \in paper \/ j.category # "documents"
      BY DEF RunRules, General
    <3>4. paper \subseteq RunRules(row, today)
      BY DEF RunRules
    <3> HIDE DEF paper
    <3> QED
      BY <3>1, <3>2, <3>3, <3>4
  <2>3. paper = {DocumentAdvice([field |-> f, days |-> row.ends[f] - today]) : f \in due}
    BY DEF ExpiringDocs
  <2>4. \A f \in due : short(DocumentAdvice([field |-> f, days |-> row.ends[f] - today]))
                       = [field |-> f, severity |-> Severity(row.ends[f] - today)]
    BY <2>1 DEF DocumentAdvice, Severity
  <2>5. ProactiveAdvice(row, today) = {[field |-> f, severity |-> Severity(row.ends[f] - today)] : f \in due}
    BY DEF ProactiveAdvice
  <2>6. {short(i) : i \in paper} = {short(DocumentAdvice([field |-> f, days |-> row.ends[f] - today])) : f \in due}
    <3> HIDE DEF due, short
    <3> QED
      BY <2>3
  <2>7. {short(DocumentAdvice([field |-> f, days |-> row.ends[f] - today])) : f \in due}
        = {[field |-> f, severity |-> Severity(row.ends[f] - today)] : f \in due}
    <3> HIDE DEF due, short
    <3> QED
      BY <2>4
  <2>8. {short(i) : i \in {j \in PersonalAdvice(row, today) : j.category = "documents"}} = {short(i) : i \in paper}
    BY <2>2
  <2> HIDE DEF due
  <2> QED
    BY <2>5, <2>6, <2>7, <2>8
<1> QED
  BY <1>1, <1>2

\* What is shown was read off one row, and on the same day the advisors agree about it.
LEMMA AdviceMeans == AdviceInv => AdvisorsAgree
<1> SUFFICES ASSUME AdviceInv, Cardinality(advisor.cache.days) < 2
             PROVE  {[field |-> i.field, severity |-> i.severity] :
                        i \in {j \in advisor.cache.personal : j.category = "documents"}} = advisor.cache.proactive
  BY DEF AdvisorsAgree
<1>1. CASE advisor.cache.found
  <2>1. PICK row \in Rows, then \in Nat, now \in Nat :
            /\ advisor.cache.personal = PersonalAdvice(row, then)
            /\ advisor.cache.proactive = ProactiveAdvice(row, now)
            /\ advisor.cache.days = {then, now}
    BY <1>1 DEF AdviceInv, ShownInv
  <2>2. then = now
    <3> SUFFICES ASSUME then # now PROVE FALSE
      OBVIOUS
    <3> DEFINE one == {then}
    <3>1. IsFiniteSet(one) /\ Cardinality(one) = 1 /\ {then, now} = one \cup {now} /\ now \notin one
      BY FS_Singleton
    <3> HIDE DEF one
    <3>2. Cardinality(one \cup {now}) = 1 + 1
      BY <3>1, FS_AddElement
    <3> QED
      BY <2>1, <3>1, <3>2
  <2> QED
    BY <2>1, <2>2, SameDaySameAdvice
<1>2. CASE ~advisor.cache.found
  BY <1>2 DEF AdviceInv, ShownInv
<1> QED
  BY <1>1, <1>2

-----------------------------------------------------------------------------

\* Every row gives advice of the type the session keeps.
LEMMA RowsAdvise ==
  \A row \in Rows, today \in Nat : PersonalAdvice(row, today) \in PersonalOnes /\ ProactiveAdvice(row, today) \in ProactiveOnes
  BY DEF PersonalOnes, ProactiveOnes

\* Nothing is shown and nothing drafted at first.
LEMMA AdvisoryBegins == AdvisoryInit => AdviceInv
<1> SUFFICES ASSUME AdvisoryInit PROVE AdviceInv
  OBVIOUS
<1>1. NoPortrait \in Rows /\ <<>> \in Seq(Told) /\ "nobody" \in SomePerson
  BY DEF Rows, SomePerson
<1>2. advisor \in ARecord /\ advisor.cache = NoAdvice /\ advisor.pc = "idle"
  BY <1>1, NothingFromNobody DEF AdvisoryInit, ARecord
<1>3. AdvisoryTypes
  BY <1>1, <1>2 DEF AdvisoryInit, AdvisoryTypes
<1> QED
  BY <1>2, <1>3 DEF AdviceInv, ShownInv, DraftInv, NoAdvice

\* A step that leaves the cache and the draft alone, outside the second advisor
LEMMA AdviceStays ==
  ASSUME AdviceInv, AdvisoryTypes', advisor'.cache = advisor.cache,
         advisor'.pc # "proactive" \/ (advisor'.pc = advisor.pc /\ advisor'.draft = advisor.draft /\ advisor'.vault = advisor.vault)
  PROVE  AdviceInv'
  BY DEF AdviceInv, ShownInv, DraftInv

\* Of the topics that apply the first decides.
LEMMA RepliesKnown == ASSUME NEW topics PROVE Replies(topics) \subseteq AllReplies
<1> DEFINE hits == {k \in DOMAIN TopicsInOrder : TopicsInOrder[k] \cap topics # {}}
<1>1. DOMAIN TopicsInOrder = 1..7 /\ \A k \in 1..7 : Answers[k] \in AllReplies
  BY DEF TopicsInOrder, Answers, AllReplies
<1>2. AnswerKind(topics) \in AllReplies
  <2>1. CASE hits = {}
    BY <2>1 DEF AnswerKind, AllReplies
  <2>2. CASE hits # {}
    <3>1. hits \subseteq Nat
      BY <1>1
    <3>2. \E k \in hits : \A l \in hits : k <= l
      <4> HIDE DEF hits
      <4> QED
        BY <2>2, <3>1, LeastNumber
    <3>3. (CHOOSE k \in hits : \A l \in hits : k <= l) \in hits
      BY <3>2
    <3>4. AnswerKind(topics) = Answers[CHOOSE k \in hits : \A l \in hits : k <= l]
      BY <2>2 DEF AnswerKind
    <3> QED
      BY <1>1, <3>3, <3>4
  <2> QED
    BY <2>1, <2>2
<1>3. Summary(topics) \in AllReplies
  <2>1. Summary(topics) \in {"trusted", "candidates", "nothing trusted", "counts"}
    BY DEF Summary
  <2> QED
    BY <2>1 DEF AllReplies
<1> QED
  BY <1>2, <1>3 DEF Replies, AllReplies

\* Every step of the page keeps the invariant, whatever the vault does between its reads.
LEMMA AdvicePreserved == AdviceInv /\ [AdvisoryNext]_advisoryVars => AdviceInv'
<1> SUFFICES ASSUME AdviceInv, [AdvisoryNext]_advisoryVars PROVE AdviceInv'
  OBVIOUS
<1>1. /\ advisor \in ARecord /\ portrait \in [Persons -> Rows] /\ day \in Nat /\ NoPortrait \in Rows
      /\ advisor.history \in Seq(Told) /\ advisor.draft \in Advice /\ advisor.vault \in Rows
  BY DEF AdviceInv, AdvisoryTypes, ARecord, Rows
<1>2. ASSUME UNCHANGED advisor, portrait' \in [Persons -> Rows], day' \in Nat PROVE AdviceInv'
  BY <1>1, <1>2, AdviceStays DEF AdvisoryTypes
<1>3. ASSUME NEW p \in Persons, BuildPortrait(p) PROVE AdviceInv'
  BY <1>1, <1>2, <1>3 DEF BuildPortrait, Rows
<1>4. CASE PassMidnight
  BY <1>1, <1>2, <1>4 DEF PassMidnight
<1>5. ASSUME NEW new \in ARecord, advisor' = new, UNCHANGED <<portrait, day>> PROVE AdvisoryTypes'
  BY <1>1, <1>5 DEF AdvisoryTypes
<1>6. ASSUME NEW p \in SomePerson, NEW new \in ARecord, advisor' = new, new.pc # "proactive", UNCHANGED <<portrait, day>>,
             new.cache = [NoAdvice EXCEPT !.person = p]
      PROVE  AdviceInv'
  <2>1. new.cache.found = FALSE /\ new.cache.personal = {} /\ new.cache.proactive = {}
    BY <1>6 DEF NoAdvice
  <2> QED
    BY <1>5, <1>6, <2>1 DEF AdviceInv, ShownInv, DraftInv
<1>7. ASSUME NEW p \in Persons, SelectPerson(p) PROVE AdviceInv'
  <2> DEFINE new == [advisor EXCEPT !.person = p, !.cache = NoAdvice]
  <2>1. new \in ARecord /\ new.pc = "idle" /\ new.cache = NoAdvice /\ advisor' = new
    BY <1>1, <1>7, NothingFromNobody DEF SelectPerson, ARecord, SomePerson
  <2>2. NoAdvice = [NoAdvice EXCEPT !.person = "nobody"]
    BY DEF NoAdvice
  <2> HIDE DEF new
  <2> QED
    BY <1>6, <1>7, <2>1, <2>2 DEF SelectPerson, SomePerson
<1>8. CASE LoadAdvice
  <2> DEFINE new == [advisor EXCEPT !.pc = "personal", !.null = FALSE, !.vault = portrait[advisor.person],
                                    !.draft = [NoAdvice EXCEPT !.person = advisor.person]]
  <2>1. portrait[advisor.person] \in Rows /\ [NoAdvice EXCEPT !.person = advisor.person] \in Advice
    BY <1>1, <1>8, NothingFromNobody DEF LoadAdvice, SomePerson
  <2>2. new \in ARecord /\ new.pc = "personal" /\ new.cache = advisor.cache /\ advisor' = new
    BY <1>1, <1>8, <2>1 DEF LoadAdvice, ARecord
  <2> HIDE DEF new
  <2> QED
    BY <1>5, <1>8, <2>2, AdviceStays DEF LoadAdvice
<1>9. CASE FindNoVault
  <2> DEFINE new == [advisor EXCEPT !.cache = [NoAdvice EXCEPT !.person = advisor.person]]
  <2>1. new \in ARecord /\ new.pc = "idle" /\ new.cache = [NoAdvice EXCEPT !.person = advisor.person] /\ advisor' = new
        /\ advisor.person \in SomePerson
    BY <1>1, <1>9, NothingFromNobody DEF FindNoVault, ARecord, SomePerson
  <2> HIDE DEF new
  <2> QED
    BY <1>6, <1>9, <2>1 DEF FindNoVault
<1>10. CASE AdvisePersonal
  <2> DEFINE draft == [advisor.draft EXCEPT !.days = {day}, !.personal = PersonalAdvice(advisor.vault, day)]
             new == [advisor EXCEPT !.pc = "proactive", !.draft = draft]
  <2>1. draft \in Advice /\ draft.personal = PersonalAdvice(advisor.vault, day) /\ draft.days = {day}
    BY <1>1, RowsAdvise DEF Advice
  <2>2. advisor' = new
    BY <1>1, <1>10 DEF AdvisePersonal, ARecord, Advice
  <2> HIDE DEF draft
  <2>3. new \in ARecord /\ new.pc = "proactive" /\ new.cache = advisor.cache /\ new.draft = draft /\ new.vault = advisor.vault
    BY <1>1, <2>1 DEF ARecord
  <2> HIDE DEF new
  <2>4. AdvisoryTypes'
    BY <1>5, <1>10, <2>2, <2>3 DEF AdvisePersonal
  <2>5. ShownInv' /\ DraftInv'
    BY <1>1, <2>1, <2>2, <2>3 DEF AdviceInv, ShownInv, DraftInv
  <2> QED
    BY <2>4, <2>5 DEF AdviceInv
<1>11. CASE AdviseProactive
  <2> DEFINE cache == [advisor.draft EXCEPT !.found = TRUE, !.days = @ \cup {day}, !.proactive = ProactiveAdvice(advisor.vault, day)]
             new == [advisor EXCEPT !.pc = "idle", !.draft = NoAdvice, !.vault = NoPortrait, !.null = FALSE, !.cache = cache]
  <2>1. PICK then \in Nat : advisor.draft.personal = PersonalAdvice(advisor.vault, then) /\ advisor.draft.days = {then}
    BY <1>11 DEF AdviseProactive, AdviceInv, DraftInv
  <2>2. cache \in Advice /\ cache.found /\ cache.personal = PersonalAdvice(advisor.vault, then)
        /\ cache.proactive = ProactiveAdvice(advisor.vault, day) /\ cache.days = {then, day}
    BY <1>1, <2>1, RowsAdvise DEF Advice
  <2>3. advisor' = new
    BY <1>11 DEF AdviseProactive
  <2> HIDE DEF cache
  <2>4. new \in ARecord /\ new.pc = "idle" /\ new.cache = cache
    BY <1>1, <2>2, NothingFromNobody DEF ARecord
  <2> HIDE DEF new
  <2>5. AdvisoryTypes'
    BY <1>5, <1>11, <2>3, <2>4 DEF AdviseProactive
  <2>6. ShownInv' /\ DraftInv'
    BY <1>1, <2>2, <2>3, <2>4 DEF ShownInv, DraftInv
  <2> QED
    BY <2>5, <2>6 DEF AdviceInv
<1>12. CASE AdvisorFails
  <2>1. CASE advisor.null
    <3> DEFINE new == [advisor EXCEPT !.pc = "idle", !.cache = [NoAdvice EXCEPT !.person = advisor.person],
                                      !.draft = NoAdvice, !.vault = NoPortrait, !.null = FALSE]
    <3>1. new \in ARecord /\ new.pc = "idle" /\ new.cache = [NoAdvice EXCEPT !.person = advisor.person] /\ advisor' = new
          /\ advisor.person \in SomePerson
      BY <1>1, <1>12, <2>1, NothingFromNobody DEF AdvisorFails, ARecord
    <3> HIDE DEF new
    <3> QED
      BY <1>6, <1>12, <3>1 DEF AdvisorFails
  <2>2. CASE ~advisor.null
    <3> DEFINE new == [advisor EXCEPT !.pc = "personal", !.null = TRUE]
    <3>1. new \in ARecord /\ new.pc = "personal" /\ new.cache = advisor.cache /\ advisor' = new
      BY <1>1, <1>12, <2>2 DEF AdvisorFails, ARecord
    <3> HIDE DEF new
    <3> QED
      BY <1>5, <1>12, <3>1, AdviceStays DEF AdvisorFails
  <2> QED
    BY <2>1, <2>2
<1>13. ASSUME NEW pc \in {"idle", "saving"}, NEW history \in Seq(Told), NEW declared \in SUBSET {"name", "age"},
              NEW inserted \in SUBSET {"name", "age"}, UNCHANGED <<portrait, day>>,
              advisor' = [advisor EXCEPT !.pc = pc, !.history = history, !.declared = declared, !.inserted = inserted]
       PROVE  AdviceInv'
  <2> DEFINE new == [advisor EXCEPT !.pc = pc, !.history = history, !.declared = declared, !.inserted = inserted]
  <2>1. new \in ARecord /\ new.pc = pc /\ new.cache = advisor.cache
    BY <1>1 DEF ARecord
  <2>2. advisor' = new
    BY <1>13
  <2> HIDE DEF new
  <2> QED
    BY <1>5, <1>13, <2>1, <2>2, AdviceStays
<1>14. /\ advisor.declared \in SUBSET {"name", "age"} /\ advisor.inserted \in SUBSET {"name", "age"} /\ {} \in SUBSET {"name", "age"}
       /\ \A kind \in AllReplies : Answered(kind) \in Seq(Told)
  <2>1. \A kind \in AllReplies : [person |-> advisor.person, kind |-> kind, facts |-> {}] \in Told
    BY <1>1 DEF Told, ARecord
  <2> QED
    BY <1>1, <2>1 DEF Answered, ARecord
<1>15. ASSUME NEW topics, AskAdvisor(topics) PROVE AdviceInv'
  <2>1. Replies(topics) \subseteq AllReplies
    BY RepliesKnown
  <2>2. PICK kind \in AllReplies : advisor' = [advisor EXCEPT !.history = Answered(kind)]
    BY <1>15, <2>1 DEF AskAdvisor
  <2>3. advisor' = [advisor EXCEPT !.pc = "idle", !.history = Answered(kind), !.declared = advisor.declared, !.inserted = advisor.inserted]
    BY <1>1, <1>15, <2>2 DEF AskAdvisor, ARecord
  <2> QED
    BY <1>13, <1>14, <1>15, <2>3 DEF AskAdvisor
<1>16. ASSUME NEW facts \in SUBSET {"name", "age"}, DeclareFacts(facts) PROVE AdviceInv'
  <2>0. UNCHANGED <<portrait, day>>
    BY <1>16 DEF DeclareFacts
  <2>1. CASE facts = {}
    <3>1. Answered("unclear") \in Seq(Told)
      BY <1>14 DEF AllReplies
    <3>2. advisor' = [advisor EXCEPT !.pc = "idle", !.history = Answered("unclear"), !.declared = advisor.declared, !.inserted = advisor.inserted]
      BY <1>1, <1>16, <2>1 DEF DeclareFacts, ARecord
    <3> QED
      BY <1>13, <1>14, <2>0, <3>1, <3>2
  <2>2. CASE facts # {}
    <3>1. advisor' = [advisor EXCEPT !.pc = "saving", !.history = advisor.history, !.declared = facts, !.inserted = {}]
      BY <1>1, <1>16, <2>2 DEF DeclareFacts, ARecord
    <3> QED
      BY <1>1, <1>13, <1>14, <2>0, <3>1
  <2> QED
    BY <2>1, <2>2
<1>17. ASSUME NEW fact \in {"name", "age"}, InsertClaim(fact) PROVE AdviceInv'
  <2>1. advisor' = [advisor EXCEPT !.pc = "saving", !.history = advisor.history, !.declared = advisor.declared, !.inserted = advisor.inserted \cup {fact}]
    BY <1>1, <1>17 DEF InsertClaim, ARecord
  <2>2. UNCHANGED <<portrait, day>>
    BY <1>17 DEF InsertClaim
  <2>3. advisor.inserted \cup {fact} \in SUBSET {"name", "age"}
    BY <1>14, <1>17
  <2> QED
    BY <1>1, <1>13, <1>14, <2>1, <2>2, <2>3
<1>18. CASE CommitClaims
  <2> DEFINE history == Append(advisor.history, [person |-> advisor.person, kind |-> "saved", facts |-> advisor.declared])
  <2>1. history \in Seq(Told)
    <3>1. [person |-> advisor.person, kind |-> "saved", facts |-> advisor.declared] \in Told
      BY <1>1, <1>14 DEF Told, ARecord, AllReplies
    <3> QED
      BY <1>1, <3>1
  <2>2. advisor' = [advisor EXCEPT !.pc = "idle", !.history = history, !.declared = {}, !.inserted = {}]
    BY <1>1, <1>18 DEF CommitClaims, ARecord
  <2>3. UNCHANGED <<portrait, day>>
    BY <1>18 DEF CommitClaims
  <2> HIDE DEF history
  <2> QED
    BY <1>13, <1>14, <2>1, <2>2, <2>3
<1>19. CASE ClaimFails
  <2>1. Answered("failed") \in Seq(Told)
    BY <1>14 DEF AllReplies
  <2>2. advisor' = [advisor EXCEPT !.pc = "idle", !.history = Answered("failed"), !.declared = {}, !.inserted = {}]
    BY <1>1, <1>19 DEF ClaimFails, ARecord
  <2> QED
    BY <1>13, <1>14, <1>19, <2>1, <2>2 DEF ClaimFails
<1>20. CASE UNCHANGED advisoryVars
  BY <1>1, <1>2, <1>20 DEF advisoryVars
<1> QED
  BY <1>3, <1>4, <1>7, <1>8, <1>9, <1>10, <1>11, <1>12, <1>15, <1>16, <1>17, <1>18, <1>19, <1>20 DEF AdvisoryNext

\* The two advisors never contradict each other on the page.
THEOREM AdvisorsAreOfOneMind == AdvisorySpec => []AdvisorsAgree
  BY AdvisoryBegins, AdvicePreserved, AdviceMeans, PTL DEF AdvisorySpec

-----------------------------------------------------------------------------
(* What the chat says about saving *)

\* the cases an answer tells of
ToldOf(n, told) == {[question |-> n, person |-> told.person, fact |-> f] : f \in told.facts}

\* What is saved is what the answers told, one after the other.
LEMMA ToldSoFar ==
  SavedAsTold <=> claims = UNION {ToldOf(n, advisor.history[n]) : n \in 1..Len(advisor.history)}
  BY DEF SavedAsTold, ToldOf

\* One answer more
LEMMA OneAnswerMore ==
  ASSUME AdviceInv, SavedAsTold, NEW told \in Told, advisor'.history = Append(advisor.history, told),
         claims' = claims \cup ToldOf(Len(advisor.history) + 1, told)
  PROVE  SavedAsTold'
<1>1. advisor.history \in Seq(Told) /\ Len(advisor.history) \in Nat
  BY DEF AdviceInv, AdvisoryTypes, ARecord
<1> DEFINE before == advisor.history
           after == Append(before, told)
<1>2. Len(after) = Len(before) + 1 /\ after[Len(before) + 1] = told /\ \A n \in 1..Len(before) : after[n] = before[n]
  BY <1>1
<1>3. 1..(Len(before) + 1) = (1..Len(before)) \cup {Len(before) + 1}
  BY <1>1
<1> HIDE DEF before, after
<1>4. UNION {ToldOf(n, after[n]) : n \in 1..Len(after)}
      = (UNION {ToldOf(n, before[n]) : n \in 1..Len(before)}) \cup ToldOf(Len(before) + 1, told)
  BY <1>2, <1>3
<1> QED
  BY <1>4, ToldSoFar DEF before, after, SavedAsTold, ToldOf

\* Every step keeps what the chat told and what it saved together.
LEMMA SavedPreserved == AdviceInv /\ SavedAsTold /\ [AdvisoryNext]_advisoryVars => SavedAsTold'
<1> SUFFICES ASSUME AdviceInv, SavedAsTold, [AdvisoryNext]_advisoryVars PROVE SavedAsTold'
  OBVIOUS
<1>1. advisor \in ARecord
  BY DEF AdviceInv, AdvisoryTypes
<1>2. ASSUME UNCHANGED claims, advisor'.history = advisor.history PROVE SavedAsTold'
  BY <1>2 DEF SavedAsTold
<1>3. ASSUME NEW kind \in AllReplies, advisor'.history = Answered(kind), UNCHANGED claims PROVE SavedAsTold'
  <2> DEFINE told == [person |-> advisor.person, kind |-> kind, facts |-> {}]
  <2>1. told \in Told /\ ToldOf(Len(advisor.history) + 1, told) = {}
    BY <1>1 DEF Told, ARecord, ToldOf
  <2>2. advisor'.history = Append(advisor.history, told)
    BY <1>3 DEF Answered
  <2> HIDE DEF told
  <2> QED
    BY <1>3, <2>1, <2>2, OneAnswerMore
<1>4. ASSUME NEW p \in Persons, BuildPortrait(p) \/ SelectPerson(p) PROVE SavedAsTold'
  BY <1>1, <1>2, <1>4 DEF BuildPortrait, SelectPerson, ARecord
<1>5. CASE PassMidnight \/ UNCHANGED advisoryVars
  BY <1>2, <1>5 DEF PassMidnight, advisoryVars
<1>6. CASE LoadAdvice \/ FindNoVault \/ AdvisePersonal \/ AdviseProactive \/ AdvisorFails
  BY <1>1, <1>2, <1>6 DEF LoadAdvice, FindNoVault, AdvisePersonal, AdviseProactive, AdvisorFails, ARecord
<1>7. ASSUME NEW topics, AskAdvisor(topics) PROVE SavedAsTold'
  <2>1. PICK kind \in AllReplies : advisor' = [advisor EXCEPT !.history = Answered(kind)]
    BY <1>7, RepliesKnown DEF AskAdvisor
  <2> QED
    BY <1>1, <1>3, <1>7, <2>1 DEF AskAdvisor, ARecord
<1>8. ASSUME NEW facts \in SUBSET {"name", "age"}, DeclareFacts(facts) PROVE SavedAsTold'
  <2>1. CASE facts = {}
    <3>1. advisor'.history = Answered("unclear") /\ UNCHANGED claims /\ "unclear" \in AllReplies
      BY <1>1, <1>8, <2>1 DEF DeclareFacts, ARecord, AllReplies
    <3> QED
      BY <1>3, <3>1
  <2>2. CASE facts # {}
    BY <1>1, <1>2, <1>8, <2>2 DEF DeclareFacts, ARecord
  <2> QED
    BY <2>1, <2>2
<1>9. ASSUME NEW fact, InsertClaim(fact) PROVE SavedAsTold'
  BY <1>1, <1>2, <1>9 DEF InsertClaim, ARecord
<1>10. CASE CommitClaims
  <2> DEFINE told == [person |-> advisor.person, kind |-> "saved", facts |-> advisor.declared]
  <2>1. told \in Told /\ told.person = advisor.person /\ told.facts = advisor.inserted
    BY <1>1, <1>10 DEF CommitClaims, Told, ARecord, AllReplies
  <2>2. advisor'.history = Append(advisor.history, told)
    BY <1>1, <1>10 DEF CommitClaims, ARecord
  <2> HIDE DEF told
  <2>3. claims' = claims \cup ToldOf(Len(advisor.history) + 1, told)
    BY <1>10, <2>1 DEF CommitClaims, Claim, ToldOf
  <2> QED
    BY <2>1, <2>2, <2>3, OneAnswerMore
<1>11. CASE ClaimFails
  <2>1. advisor'.history = Answered("failed") /\ UNCHANGED claims /\ "failed" \in AllReplies
    BY <1>1, <1>11 DEF ClaimFails, ARecord, AllReplies
  <2> QED
    BY <1>3, <2>1
<1> QED
  BY <1>4, <1>5, <1>6, <1>7, <1>8, <1>9, <1>10, <1>11 DEF AdvisoryNext

\* Nothing is told and nothing saved at first.
LEMMA NothingToldYet == AdvisoryInit => SavedAsTold
<1> SUFFICES ASSUME AdvisoryInit PROVE SavedAsTold
  OBVIOUS
<1>1. advisor.history = <<>> /\ claims = {}
  BY DEF AdvisoryInit
<1> QED
  BY <1>1 DEF SavedAsTold

\* The chat told of the very cases it opened.
THEOREM ChatTellsTheTruth == AdvisorySpec => []SavedAsTold
  BY AdvisoryBegins, AdvicePreserved, NothingToldYet, SavedPreserved, PTL DEF AdvisorySpec

-----------------------------------------------------------------------------
(* Home page and review page *)

ClaimRow == [person : Nat, confidence : 0..100, type : CaseTypes, status : ClaimStatus]

GuidanceTypes ==
    /\ residents \in Seq(NewResident)
    /\ reviewCases \in Seq(ClaimRow)
    /\ \A c \in DOMAIN reviewCases : reviewCases[c].person \in People
    /\ visitor \in [active : {0} \cup People, chosen : {0} \cup People, page : PageIds, selected : Nat]

GuidanceInv == GuidanceTypes /\ ChosenStaysActive

-----------------------------------------------------------------------------
(* What can be found in the queue *)

\* The queue of the home page holds list of review cases.
LEMMA ClaimsAreTyped ==
  ASSUME GuidanceTypes
  PROVE  /\ DOMAIN reviewCases = 1..Len(reviewCases) /\ Len(reviewCases) \in Nat
         /\ \A c \in DOMAIN reviewCases :
              /\ c \in Nat /\ reviewCases[c] \in ClaimRow /\ reviewCases[c].confidence \in 0..100
              /\ reviewCases[c].type \in CaseTypes /\ reviewCases[c].status \in ClaimStatus
<1>1. \A c \in 1..Len(reviewCases) : reviewCases[c] \in ClaimRow
  BY DEF GuidanceTypes
<1>2. DOMAIN reviewCases = 1..Len(reviewCases) /\ Len(reviewCases) \in Nat
  BY DEF GuidanceTypes
<1>3. \A c \in 1..Len(reviewCases) : c \in Nat
  BY <1>2
<1> QED
  BY <1>1, <1>2, <1>3 DEF ClaimRow

\* A bucket that holds a case shows one.
LEMMA BucketShowsItsBest ==
  ASSUME GuidanceTypes, NEW e, NEW b \in DOMAIN BUCKETS, NEW lowValue, NEW wanted, Bucket(e, b, lowValue, wanted) # {}
  PROVE  Queue(e, lowValue, wanted) # {}
<1> DEFINE found == Bucket(e, b, lowValue, wanted)
           confidences == {n \in Nat : \E c \in found : reviewCases[c].confidence = n}
<1>1. found \subseteq DOMAIN reviewCases
  BY DEF Bucket, ClaimsOf
<1>2. \A c \in found : c \in Nat /\ c <= Len(reviewCases) /\ reviewCases[c].confidence \in Nat /\ reviewCases[c].confidence <= 100
  <2>1. \A c \in found : c \in 1..Len(reviewCases) /\ reviewCases[c].confidence \in 0..100
    BY <1>1, ClaimsAreTyped
  <2>2. Len(reviewCases) \in Nat
    BY ClaimsAreTyped
  <2>3. \A c \in 1..Len(reviewCases) : c \in Nat /\ c <= Len(reviewCases)
    BY <2>2
  <2>4. \A n \in 0..100 : n \in Nat /\ n <= 100
    OBVIOUS
  <2> HIDE DEF found
  <2> QED
    BY <2>1, <2>3, <2>4
<1> HIDE DEF found
<1>3. PICK high \in confidences : \A n \in confidences : n <= high
  <2>1. confidences \subseteq Nat /\ confidences # {} /\ \A n \in confidences : n <= 100
    BY <1>2 DEF found
  <2> HIDE DEF confidences
  <2> QED
    BY <2>1, GreatestNumber
<1> DEFINE top == {c \in found : reviewCases[c].confidence = high}
<1>4. PICK c \in top : \A d \in top : d <= c
  <2>1. top \subseteq Nat /\ top # {} /\ \A d \in top : d <= Len(reviewCases)
    BY <1>2, <1>3
  <2>2. Len(reviewCases) \in Nat
    BY ClaimsAreTyped
  <2> HIDE DEF top
  <2> QED
    BY <2>1, <2>2, GreatestNumber
<1>5. \A d \in found : ~Better(d, c)
  <2> SUFFICES ASSUME NEW d \in found, Better(d, c) PROVE FALSE
    OBVIOUS
  <2>1. reviewCases[d].confidence \in confidences /\ reviewCases[d].confidence <= high /\ reviewCases[c].confidence = high
        /\ reviewCases[d].confidence \in Nat /\ high \in Nat
    <3>1. reviewCases[d].confidence \in confidences /\ high \in Nat /\ reviewCases[c].confidence = high
      BY <1>2, <1>3, <1>4
    <3> HIDE DEF confidences
    <3> QED
      BY <1>2, <1>3, <3>1
  <2>2. reviewCases[d].confidence = high /\ d > c
    BY <2>1 DEF Better
  <2>3. d \in top /\ d \in Nat /\ c \in Nat
    BY <1>2, <1>4, <2>2
  <2> QED
    BY <1>4, <2>2, <2>3
<1>6. {d \in found : Better(d, c)} = {}
  BY <1>5
<1>7. Cardinality({d \in found : Better(d, c)}) < LimitPerBucket
  BY <1>6, FS_EmptySet, GuidanceAssumption
<1>8. c \in {k \in found : Cardinality({d \in found : Better(d, k)}) < LimitPerBucket}
  BY <1>4, <1>7
<1> QED
  BY <1>8 DEF Queue, found

\* Every confidence falls into one bucket.
LEMMA OneBucket ==
  ASSUME NEW n \in 0..100
  PROVE  \E b \in DOMAIN BUCKETS : \A a \in DOMAIN BUCKETS : (n >= BUCKETS[a][1] /\ n < BUCKETS[a][2]) <=> a = b
<1>1. DOMAIN BUCKETS = 1..6
  BY DEF BUCKETS
<1>2. /\ BUCKETS[1][1] = 90 /\ BUCKETS[1][2] = 101 /\ BUCKETS[2][1] = 80 /\ BUCKETS[2][2] = 90
      /\ BUCKETS[3][1] = 70 /\ BUCKETS[3][2] = 80 /\ BUCKETS[4][1] = 60 /\ BUCKETS[4][2] = 70
      /\ BUCKETS[5][1] = 50 /\ BUCKETS[5][2] = 60 /\ BUCKETS[6][1] = 0 /\ BUCKETS[6][2] = 50
  BY DEF BUCKETS
<1>3. \A a \in 1..6 : a = 1 \/ a = 2 \/ a = 3 \/ a = 4 \/ a = 5 \/ a = 6
  OBVIOUS
<1>4. CASE n >= 90
  <2>1. \A a \in 1..6 : (n >= BUCKETS[a][1] /\ n < BUCKETS[a][2]) <=> a = 1
    BY <1>2, <1>3, <1>4
  <2> QED
    BY <1>1, <2>1
<1>5. CASE n >= 80 /\ n < 90
  <2>1. \A a \in 1..6 : (n >= BUCKETS[a][1] /\ n < BUCKETS[a][2]) <=> a = 2
    BY <1>2, <1>3, <1>5
  <2> QED
    BY <1>1, <2>1
<1>6. CASE n >= 70 /\ n < 80
  <2>1. \A a \in 1..6 : (n >= BUCKETS[a][1] /\ n < BUCKETS[a][2]) <=> a = 3
    BY <1>2, <1>3, <1>6
  <2> QED
    BY <1>1, <2>1
<1>7. CASE n >= 60 /\ n < 70
  <2>1. \A a \in 1..6 : (n >= BUCKETS[a][1] /\ n < BUCKETS[a][2]) <=> a = 4
    BY <1>2, <1>3, <1>7
  <2> QED
    BY <1>1, <2>1
<1>8. CASE n >= 50 /\ n < 60
  <2>1. \A a \in 1..6 : (n >= BUCKETS[a][1] /\ n < BUCKETS[a][2]) <=> a = 5
    BY <1>2, <1>3, <1>8
  <2> QED
    BY <1>1, <2>1
<1>9. CASE n < 50
  <2>1. \A a \in 1..6 : (n >= BUCKETS[a][1] /\ n < BUCKETS[a][2]) <=> a = 6
    BY <1>2, <1>3, <1>9
  <2> QED
    BY <1>1, <2>1
<1> QED
  BY <1>4, <1>5, <1>6, <1>7, <1>8, <1>9

InOneBucket(c, e, wanted) ==
    \E b \in DOMAIN BUCKETS : \A a \in DOMAIN BUCKETS : c \in Bucket(e, a, TRUE, wanted) <=> a = b

\* A pending case of a wanted type is in one bucket.
LEMMA PendingInOneBucket ==
  ASSUME GuidanceTypes, NEW e, NEW c \in ClaimsOf(e, "PENDING"), NEW wanted, reviewCases[c].type \in wanted
  PROVE  InOneBucket(c, e, wanted)
<1>1. c \in DOMAIN reviewCases
  BY DEF ClaimsOf
<1>2. reviewCases[c].confidence \in 0..100
  BY <1>1, ClaimsAreTyped
<1>3. PICK b \in DOMAIN BUCKETS : \A a \in DOMAIN BUCKETS :
          (reviewCases[c].confidence >= BUCKETS[a][1] /\ reviewCases[c].confidence < BUCKETS[a][2]) <=> a = b
  BY <1>2, OneBucket
<1> QED
  BY <1>3 DEF Bucket, InOneBucket

\* A pending case of a wanted type is in the queue.
LEMMA PendingIsFound ==
  ASSUME GuidanceTypes, NEW e, NEW c \in ClaimsOf(e, "PENDING"), NEW wanted, reviewCases[c].type \in wanted
  PROVE  Queue(e, TRUE, wanted) # {}
<1>1. PICK b \in DOMAIN BUCKETS : c \in Bucket(e, b, TRUE, wanted)
  BY PendingInOneBucket DEF InOneBucket
<1> QED
  BY <1>1, BucketShowsItsBest

\* Visible or hidden, a pending case is counted once.
LEMMA MetricsAddUp ==
  ASSUME GuidanceTypes, NEW e
  PROVE  Metrics(e).pending = Metrics(e).visible + Metrics(e).hiddenForLlm
<1> DEFINE pending == ClaimsOf(e, "PENDING")
           shown == {c \in pending : reviewCases[c].confidence >= 50 /\ ~LowValue(c)}
           hidden == {c \in pending : reviewCases[c].confidence < 50 \/ LowValue(c)}
<1>1. IsFiniteSet(pending)
  <2>1. pending \subseteq 1..Len(reviewCases) /\ Len(reviewCases) \in Int
    BY ClaimsAreTyped DEF ClaimsOf
  <2>2. IsFiniteSet(1..Len(reviewCases))
    BY <2>1, FS_Interval
  <2> HIDE DEF pending
  <2> QED
    BY <2>1, <2>2, FS_Subset
<1>2. \A c \in pending : reviewCases[c].confidence \in Nat
  <2> SUFFICES ASSUME NEW c \in DOMAIN reviewCases PROVE reviewCases[c].confidence \in Nat
    BY DEF ClaimsOf
  <2>1. reviewCases[c].confidence \in 0..100
    BY ClaimsAreTyped
  <2> QED
    BY <2>1
<1> HIDE DEF pending
<1>3. IsFiniteSet(shown) /\ IsFiniteSet(hidden)
  BY <1>1, FS_Subset
<1>4. shown \cup hidden = pending /\ shown \cap hidden = {}
  BY <1>2
<1> HIDE DEF shown, hidden
<1>5. Cardinality(pending) = Cardinality(shown) + Cardinality(hidden) - Cardinality({})
  BY <1>3, <1>4, FS_Union
<1>6. Cardinality(pending) = Cardinality(shown) + Cardinality(hidden)
  BY <1>3, <1>5, FS_EmptySet, FS_CardinalityType
<1> QED
  BY <1>6 DEF Metrics, pending, shown, hidden

\* What the pages advise can be followed, from the types alone.
LEMMA AdviceLeadsSomewhere == GuidanceTypes => AdviceCanBeFollowed
<1> SUFFICES ASSUME GuidanceTypes PROVE AdviceCanBeFollowed
  OBVIOUS
<1>1. ASSUME NEW e, ClaimsOf(e, "PENDING") # {} PROVE Queue(e, TRUE, CaseTypes) # {}
  <2>1. PICK c \in ClaimsOf(e, "PENDING") : TRUE
    BY <1>1
  <2>2. reviewCases[c].type \in CaseTypes
    BY <2>1, ClaimsAreTyped DEF ClaimsOf
  <2> QED
    BY <2>1, <2>2, PendingIsFound
<1>2. ASSUME NEW e \in People
      PROVE  /\ ProfileStep(e) = "review pending facts" => Queue(e, TRUE, CaseTypes) # {}
             /\ ProfileStep(e) = "build the profile" => ClaimsOf(e, "COMPLETED") # {}
  BY <1>1 DEF ProfileStep
<1>3. ASSUME NEW e \in People, NEW c \in ClaimsOf(e, "PENDING")
      PROVE  Cardinality({b \in DOMAIN BUCKETS : c \in Bucket(e, b, TRUE, CaseTypes)}) = 1
  <2>1. reviewCases[c].type \in CaseTypes
    BY <1>3, ClaimsAreTyped DEF ClaimsOf
  <2>2. PICK b \in DOMAIN BUCKETS : \A a \in DOMAIN BUCKETS : c \in Bucket(e, a, TRUE, CaseTypes) <=> a = b
    <3>1. InOneBucket(c, e, CaseTypes)
      BY <1>3, <2>1, PendingInOneBucket
    <3> QED
      BY <3>1 DEF InOneBucket
  <2>3. {a \in DOMAIN BUCKETS : c \in Bucket(e, a, TRUE, CaseTypes)} = {b}
    BY <2>2
  <2> QED
    BY <2>3, FS_Singleton
<1>4. ASSUME NEW e \in People, NEW t \in OfferedTypes(e) PROVE Queue(e, TRUE, {t}) # {}
  <2>1. PICK c \in ClaimsOf(e, "PENDING") : reviewCases[c].type = t
    BY <1>4 DEF OfferedTypes
  <2> QED
    BY <2>1, PendingIsFound
<1>5. ASSUME Len(residents) = 1, Stage = "Human Review" PROVE HomeButton = "review" /\ Queue(1, TRUE, CaseTypes) # {}
  <2>1. Health.pendingReview > 0 /\ Health.entities # 0 /\ Health.documents # 0
    BY <1>5 DEF Stage
  <2>2. HomeButton = "review"
    BY <2>1 DEF HomeButton
  <2>3. Cardinality(Everywhere("PENDING")) > 0
    BY <2>1 DEF Health
  <2>4. Everywhere("PENDING") # {}
    BY <2>3, FS_EmptySet
  <2>5. PICK c \in DOMAIN reviewCases : reviewCases[c].status = "PENDING"
    BY <2>4 DEF Everywhere
  <2>6. reviewCases[c].person = 1
    <3>1. reviewCases[c].person \in 1..1
      BY <1>5, <2>5 DEF GuidanceTypes, People
    <3> QED
      BY <3>1
  <2>7. c \in ClaimsOf(1, "PENDING")
    BY <2>5, <2>6 DEF ClaimsOf
  <2> QED
    BY <1>1, <2>2, <2>7
<1> QED
  BY <1>2, <1>3, <1>4, <1>5, MetricsAddUp DEF AdviceCanBeFollowed

-----------------------------------------------------------------------------
(* Whose data the pages act on *)

\* An entity stands for the oldest that looks the same.
LEMMA StandingIsOldest ==
  ASSUME NEW list \in Seq(NewResident), NEW e \in DOMAIN list, NEW shown
  PROVE  /\ Standing(list, e, shown) \in Namesakes(list, e, shown) /\ Standing(list, e, shown) \in DOMAIN list
         /\ \A p \in Namesakes(list, e, shown) : Standing(list, e, shown) <= p
<1> DEFINE same == Namesakes(list, e, shown)
<1>1. same \subseteq Nat /\ e \in same /\ same \subseteq DOMAIN list
  BY DEF Namesakes
<1> HIDE DEF same
<1>2. \E x \in same : \A y \in same : x <= y
  BY <1>1, LeastNumber
<1>3. Min(same) \in same /\ \A y \in same : Min(same) <= y
  BY <1>2 DEF Min
<1> QED
  BY <1>1, <1>3 DEF Standing, same

\* Who stands for itself by its name does so by its label.
LEMMA NameThenLabel ==
  ASSUME NEW list \in Seq(NewResident), NEW e \in DOMAIN list, Standing(list, e, Name) = e
  PROVE  Standing(list, e, Label) = e
<1>1. Namesakes(list, e, Label) \subseteq Namesakes(list, e, Name) /\ e \in Namesakes(list, e, Label)
  BY DEF Namesakes, Label, Name
<1>2. e <= Standing(list, e, Label) /\ Standing(list, e, Label) <= e
  BY <1>1, StandingIsOldest
<1> QED
  BY <1>2, StandingIsOldest

\* Whoever comes later takes nobody's place.
LEMMA NewcomersStandBehind ==
  ASSUME NEW list \in Seq(NewResident), NEW r \in NewResident, NEW e \in DOMAIN list, NEW shown
  PROVE  Standing(Append(list, r), e, shown) = Standing(list, e, shown)
<1> DEFINE more == Append(list, r)
           old == Standing(list, e, shown)
           new == Standing(more, e, shown)
<1>1. /\ more \in Seq(NewResident) /\ Len(more) = Len(list) + 1 /\ DOMAIN more = 1..(Len(list) + 1) /\ DOMAIN list = 1..Len(list)
      /\ \A p \in DOMAIN list : more[p] = list[p] /\ p \in DOMAIN more /\ p <= Len(list) /\ Len(list) \in Nat /\ p \in Nat
  OBVIOUS
<1> HIDE DEF more
<1>2. old \in Namesakes(list, e, shown) /\ old \in DOMAIN list /\ \A p \in Namesakes(list, e, shown) : old <= p
  BY StandingIsOldest
<1>3. new \in Namesakes(more, e, shown) /\ new \in DOMAIN more /\ \A p \in Namesakes(more, e, shown) : new <= p
  BY <1>1, StandingIsOldest
<1> HIDE DEF old, new
<1>4. old \in Namesakes(more, e, shown) /\ new <= old
  BY <1>1, <1>2, <1>3 DEF Namesakes
<1>5. new \in DOMAIN list
  <2>1. new \in Nat /\ new >= 1 /\ old \in Nat /\ old <= Len(list) /\ Len(list) \in Nat
    BY <1>1, <1>2, <1>3
  <2> QED
    BY <1>1, <1>4, <2>1
<1>6. new \in Namesakes(list, e, shown)
  BY <1>1, <1>3, <1>5 DEF Namesakes
<1>7. old <= new /\ old \in Nat /\ new \in Nat
  BY <1>1, <1>2, <1>5, <1>6
<1> QED
  BY <1>4, <1>7 DEF old, new, more

\* A page shows one of the residents, or nobody.
LEMMA PageShowsSomebody ==
  ASSUME NEW list \in Seq(NewResident), NEW e \in Nat, NEW page
  PROVE  Rendered(list, e, page) \in {0} \cup 1..Len(list)
<1>1. CASE list = <<>>
  BY <1>1 DEF Rendered
<1>2. CASE list # <<>>
  <2>1. DOMAIN list = 1..Len(list) /\ Len(list) \in DOMAIN list /\ Synced(list, e) \in DOMAIN list
    BY <1>2 DEF Synced
  <2>2. \A p \in DOMAIN list : \A shown : Picked(list, p, shown) \in DOMAIN list
    BY <2>1, StandingIsOldest DEF Picked
  <2> QED
    BY <1>2, <2>1, <2>2 DEF Rendered
<1> QED
  BY <1>1, <1>2

\* A resident that is the oldest of its name is the one a page goes on to show.
LEMMA PageShowsTheChosen ==
  ASSUME NEW list \in Seq(NewResident), NEW e \in DOMAIN list, Standing(list, e, Name) = e, NEW page
  PROVE  Rendered(list, e, page) = e
<1>1. list # <<>>
  OBVIOUS
<1>2. Standing(list, e, Label) = e
  BY NameThenLabel
<1> QED
  BY <1>1, <1>2 DEF Rendered, Synced, Picked

\* A click that leaves the chosen entity, and one that chooses another
LEMMA ShowingKeepsChosen ==
  ASSUME GuidanceInv, UNCHANGED residents, reviewCases' \in Seq(ClaimRow),
         \A c \in DOMAIN reviewCases' : reviewCases'[c].person \in People,
         NEW page \in PageIds, NEW selected \in Nat,
         ShowPage(residents, visitor.active, page, visitor.chosen, selected)
  PROVE  GuidanceInv'
<1> DEFINE new == Rendered(residents, visitor.active, page)
<1>1. residents \in Seq(NewResident) /\ visitor.active \in {0} \cup People /\ visitor.chosen \in {0} \cup People
      /\ People = 1..Len(residents) /\ People = DOMAIN residents /\ Len(residents) \in Nat
  BY DEF GuidanceInv, GuidanceTypes, People
<1>2. new \in {0} \cup People
  <2>1. visitor.active \in Nat
    BY <1>1
  <2> QED
    BY <1>1, <2>1, PageShowsSomebody
<1>3. visitor.chosen # 0 /\ Standing(residents, visitor.chosen, Name) = visitor.chosen => new = visitor.chosen
  BY <1>1, PageShowsTheChosen DEF GuidanceInv, ChosenStaysActive
<1>4. visitor' = [active |-> new, page |-> page, chosen |-> visitor.chosen, selected |-> selected]
  BY DEF ShowPage
<1> HIDE DEF new
<1>5. People' = People
  BY DEF People
<1>6. GuidanceTypes'
  BY <1>1, <1>2, <1>4, <1>5 DEF GuidanceTypes
<1>7. ChosenStaysActive'
  BY <1>3, <1>4 DEF ChosenStaysActive
<1> QED
  BY <1>6, <1>7 DEF GuidanceInv

\* Choosing a resident keeps the invariant, whoever was created before.
LEMMA ChoosingKeepsChosen ==
  ASSUME GuidanceInv, residents' \in Seq(NewResident), Len(residents) <= Len(residents'), UNCHANGED reviewCases,
         NEW e \in People', Choose(residents', e)
  PROVE  GuidanceInv'
<1> DEFINE new == Rendered(residents', e, visitor.page)
<1>1. People' = 1..Len(residents') /\ People' = DOMAIN residents' /\ Len(residents') \in Nat /\ e \in Nat
      /\ People \subseteq People' /\ visitor.page \in PageIds /\ visitor.selected \in Nat
  BY DEF GuidanceInv, GuidanceTypes, People
<1>2. new \in {0} \cup People'
  BY <1>1, PageShowsSomebody
<1>3. Standing(residents', e, Name) = e => new = e
  BY <1>1, PageShowsTheChosen
<1>4. visitor' = [active |-> new, page |-> visitor.page, chosen |-> e, selected |-> visitor.selected]
  BY DEF Choose, ShowPage
<1> HIDE DEF new
<1>5. GuidanceTypes'
  BY <1>1, <1>2, <1>4 DEF GuidanceTypes, GuidanceInv
<1>6. ChosenStaysActive'
  BY <1>3, <1>4 DEF ChosenStaysActive
<1> QED
  BY <1>5, <1>6 DEF GuidanceInv

\* A newcomer elsewhere changes nothing here.
LEMMA NewcomerKeepsChosen ==
  ASSUME GuidanceInv, NEW r \in NewResident, residents' = Append(residents, r), UNCHANGED <<reviewCases, visitor>>
  PROVE  GuidanceInv'
<1>1. residents \in Seq(NewResident) /\ People = DOMAIN residents /\ People = 1..Len(residents) /\ Len(residents) \in Nat
      /\ visitor.chosen \in {0} \cup People
  BY DEF GuidanceInv, GuidanceTypes, People
<1>2. residents' \in Seq(NewResident) /\ Len(residents') = Len(residents) + 1
  BY <1>1
<1>3. People \subseteq People'
  BY <1>1, <1>2 DEF People
<1>4. visitor.chosen # 0 => Standing(residents', visitor.chosen, Name) = Standing(residents, visitor.chosen, Name)
  BY <1>1, NewcomersStandBehind
<1>5. GuidanceTypes'
  BY <1>2, <1>3 DEF GuidanceTypes, GuidanceInv
<1>6. ChosenStaysActive'
  BY <1>4 DEF ChosenStaysActive, GuidanceInv
<1> QED
  BY <1>5, <1>6 DEF GuidanceInv

\* A decision changes the status of one case and nothing else of the queue.
LEMMA DecidingKeepsClaims ==
  ASSUME GuidanceInv, NEW c, NEW status \in ClaimStatus, reviewCases' = [reviewCases EXCEPT ![c].status = status]
  PROVE  reviewCases' \in Seq(ClaimRow) /\ \A d \in DOMAIN reviewCases' : reviewCases'[d].person \in People
<1>1. /\ reviewCases \in [1..Len(reviewCases) -> ClaimRow] /\ Len(reviewCases) \in Nat
      /\ \A d \in 1..Len(reviewCases) : reviewCases[d].person \in People
  BY DEF GuidanceInv, GuidanceTypes
<1>2. \A d \in 1..Len(reviewCases) : [reviewCases[d] EXCEPT !.status = status] \in ClaimRow
                                     /\ [reviewCases[d] EXCEPT !.status = status].person = reviewCases[d].person
  BY <1>1 DEF ClaimRow
<1>3. reviewCases' \in [1..Len(reviewCases) -> ClaimRow] /\ \A d \in 1..Len(reviewCases) : reviewCases'[d].person \in People
  BY <1>1, <1>2
<1> QED
  BY <1>1, <1>3

\* No entity is active at first.
LEMMA GuidanceBegins == GuidanceInit => GuidanceInv
<1> SUFFICES ASSUME GuidanceInit PROVE GuidanceInv
  OBVIOUS
<1>1. residents = <<>> /\ reviewCases = <<>> /\ visitor = [active |-> 0, chosen |-> 0, page |-> "home", selected |-> 0]
  BY DEF GuidanceInit
<1>2. GuidanceTypes
  BY <1>1 DEF GuidanceTypes, PageIds
<1>3. ChosenStaysActive
  BY <1>1 DEF ChosenStaysActive
<1> QED
  BY <1>2, <1>3 DEF GuidanceInv

\* Every step keeps the types, and the resident the user chose active.
LEMMA GuidancePreserved == GuidanceInv /\ [GuidanceNext]_guidanceVars => GuidanceInv'
<1> SUFFICES ASSUME GuidanceInv, [GuidanceNext]_guidanceVars PROVE GuidanceInv'
  OBVIOUS
<1>1. /\ residents \in Seq(NewResident) /\ reviewCases \in Seq(ClaimRow) /\ People = 1..Len(residents) /\ DOMAIN residents = People
      /\ Len(residents) \in Nat /\ visitor.page \in PageIds /\ visitor.selected \in Nat /\ visitor.active \in {0} \cup People
      /\ \A c \in DOMAIN reviewCases : reviewCases[c].person \in People
  BY DEF GuidanceInv, GuidanceTypes, People
<1>2. ASSUME NEW e \in People, UNCHANGED <<residents, reviewCases>>, Choose(residents, e) PROVE GuidanceInv'
  <2>1. e \in People' /\ Choose(residents', e) /\ residents' \in Seq(NewResident) /\ Len(residents) <= Len(residents')
    BY <1>1, <1>2 DEF People, Choose, ShowPage
  <2> QED
    BY <1>2, <2>1, ChoosingKeepsChosen
<1>3. ASSUME UNCHANGED residents, reviewCases' \in Seq(ClaimRow), \A c \in DOMAIN reviewCases' : reviewCases'[c].person \in People,
             NEW page \in PageIds, NEW selected \in Nat,
             ShowPage(residents, visitor.active, page, visitor.chosen, selected)
      PROVE  GuidanceInv'
  BY <1>3, ShowingKeepsChosen
<1>4. ASSUME NEW page \in PageIds, UNCHANGED <<residents, reviewCases>>, OpenPage(page) PROVE GuidanceInv'
  BY <1>1, <1>3, <1>4 DEF OpenPage
<1>5. CASE CreatePerson
  <2>1. PICK r \in NewResident : residents' = Append(residents, r)
    BY <1>5 DEF CreatePerson
  <2>2. residents' \in Seq(NewResident) /\ Len(residents') = Len(residents) + 1 /\ Len(residents') \in 1..Len(residents')
    BY <1>1, <2>1
  <2> DEFINE e == Len(residents')
  <2>3. PICK new \in People' : new = e
    BY <2>2 DEF People
  <2>4. Choose(residents', new)
    BY <1>5, <2>3 DEF CreatePerson
  <2>5. UNCHANGED reviewCases /\ Len(residents) <= Len(residents')
    BY <1>1, <1>5, <2>2 DEF CreatePerson
  <2> QED
    BY <2>2, <2>4, <2>5, ChoosingKeepsChosen
<1>6. CASE Activate
  BY <1>2, <1>6 DEF Activate
<1>7. ASSUME NEW e \in People, NEW shown PROVE Standing(residents, e, shown) \in People
  BY <1>1, StandingIsOldest
<1>8. CASE ChooseInTopbar
  BY <1>2, <1>7, <1>8 DEF ChooseInTopbar
<1>9. CASE ChooseInAdvisory
  BY <1>2, <1>7, <1>9 DEF ChooseInAdvisory
<1>10. CASE GoTo
  BY <1>4, <1>10 DEF GoTo
<1>11. CASE FollowHome
  <2>1. HomeButton \in PageIds
    BY DEF HomeButton, PageIds
  <2> QED
    BY <1>4, <1>11, <2>1 DEF FollowHome
<1>12. CASE FollowProfile
  BY <1>4, <1>12 DEF FollowProfile, PageIds
<1>13. CASE Upload
  <2>1. visitor.active \in People /\ UNCHANGED residents /\ Stay
    BY <1>1, <1>13 DEF Upload
  <2>2. reviewCases' \in Seq(ClaimRow) /\ \A c \in DOMAIN reviewCases' : reviewCases'[c].person \in People
    <3>1. CASE reviewCases' = reviewCases
      BY <1>1, <3>1
    <3>2. CASE \E new \in NewClaim(visitor.active) : reviewCases' = Append(reviewCases, new)
      <4>1. PICK k \in CaseKinds : reviewCases' = Append(reviewCases,
                [person |-> visitor.active, confidence |-> k.confidence, type |-> k.type, status |-> "PENDING"])
        BY <3>2 DEF NewClaim
      <4> DEFINE new == [person |-> visitor.active, confidence |-> k.confidence, type |-> k.type, status |-> "PENDING"]
      <4>2. new \in ClaimRow /\ new.person \in People
        BY <1>1, <2>1, GuidanceAssumption DEF ClaimRow, CaseTypes, ClaimStatus
      <4>3. reviewCases' = Append(reviewCases, new)
        BY <4>1
      <4> HIDE DEF new
      <4> QED
        BY <1>1, <4>2, <4>3
    <3> QED
      BY <1>13, <3>1, <3>2 DEF Upload
  <2> QED
    BY <1>1, <1>3, <2>1, <2>2 DEF Stay
<1>14. CASE OpenClaim
  <2>1. PICK c \in Queue(ReviewedPerson, TRUE, CaseTypes) : ShowPage(residents, visitor.active, "review", visitor.chosen, c)
    BY <1>14 DEF OpenClaim
  <2>2. c \in DOMAIN reviewCases
    BY <2>1 DEF Queue, Bucket, ClaimsOf
  <2>3. c \in Nat /\ "review" \in PageIds /\ UNCHANGED <<residents, reviewCases>>
    BY <1>1, <1>14, <2>2 DEF OpenClaim, PageIds
  <2> QED
    BY <1>1, <1>3, <2>1, <2>3
<1>15. CASE DecideClaim
  <2>1. PICK status \in ClaimStatus : reviewCases' = [reviewCases EXCEPT ![visitor.selected].status = status]
    BY <1>15 DEF DecideClaim
  <2>2. reviewCases' \in Seq(ClaimRow) /\ \A d \in DOMAIN reviewCases' : reviewCases'[d].person \in People
    BY <2>1, DecidingKeepsClaims
  <2>3. UNCHANGED residents /\ "review" \in PageIds /\ ShowPage(residents, visitor.active, "review", visitor.chosen, 0)
    BY <1>15 DEF DecideClaim, PageIds
  <2> QED
    BY <1>3, <2>2, <2>3
<1>16. CASE BuildFromAccepted \/ ClearTrusted
  BY <1>1, <1>3, <1>16 DEF BuildFromAccepted, ClearTrusted, Stay
<1>17. CASE Elsewhere
  <2>1. CASE /\ \E c \in Everywhere("PENDING"), status \in ClaimStatus \ {"PENDING"} :
                    reviewCases' = [reviewCases EXCEPT ![c].status = status]
             /\ UNCHANGED residents
    <3>1. PICK c \in Everywhere("PENDING"), status \in ClaimStatus : reviewCases' = [reviewCases EXCEPT ![c].status = status]
      BY <2>1
    <3>2. reviewCases' \in Seq(ClaimRow) /\ \A d \in DOMAIN reviewCases' : reviewCases'[d].person \in People
      BY <3>1, DecidingKeepsClaims
    <3>3. UNCHANGED visitor
      BY <1>17 DEF Elsewhere
    <3> QED
      BY <2>1, <3>2, <3>3 DEF GuidanceInv, GuidanceTypes, ChosenStaysActive, People
  <2>2. CASE \E r \in NewResident : residents' = Append(residents, r) /\ UNCHANGED reviewCases
    BY <1>17, <2>2, NewcomerKeepsChosen DEF Elsewhere
  <2> QED
    BY <1>17, <2>1, <2>2 DEF Elsewhere
<1>18. CASE UNCHANGED guidanceVars
  BY <1>18 DEF guidanceVars, GuidanceInv, GuidanceTypes, ChosenStaysActive, People
<1> QED
  BY <1>5, <1>6, <1>8, <1>9, <1>10, <1>11, <1>12, <1>13, <1>14, <1>15, <1>16, <1>17, <1>18 DEF GuidanceNext

\* For any people, claims and confidences: the pages show the person the user chose, the home page
\* adds up, every pending claim is in exactly one bucket of the review queue, and each step the
\* pages advise has something to act on.
THEOREM GuidanceIsTrue == GuidanceSpec => []PagesGuideTheUser
<1>1. GuidanceInv => PagesGuideTheUser
  BY AdviceLeadsSomewhere DEF GuidanceInv, PagesGuideTheUser
<1> QED
  BY <1>1, GuidanceBegins, GuidancePreserved, PTL DEF GuidanceSpec

-----------------------------------------------------------------------------
(* Types *)

\* On the forms page every template, field and session keeps its type.
LEMMA FormTyped == FormSpec => []FormTypeOK
<1>1. FormInv => FormTypeOK
  BY DEF FormInv
<1> QED
  BY <1>1, InitForm, FormPreserved, PTL DEF FormSpec

-----------------------------------------------------------------------------
(* Profile fields *)

\* Every row has an id that was given out.
GivenInv == lastFieldId <= MaxFieldIds /\ \A n \in ProfileNames : profile[n].id <= lastFieldId

\* A step that gives out no id leaves the rows their ids or none.
LEMMA NoIdIsGiven ==
  ASSUME ProfileTypes, GivenInv, lastFieldId' = lastFieldId,
         \A n \in ProfileNames : profile'[n].id = profile[n].id \/ profile'[n].id = 0
  PROVE  GivenInv'
<1>1. lastFieldId \in Nat
  BY DEF ProfileTypes
<1> QED
  BY <1>1 DEF GivenInv

\* A step that gives out the next id gives it to one row.
LEMMA OneIdIsGiven ==
  ASSUME ProfileTypes, GivenInv, lastFieldId < MaxFieldIds, lastFieldId' = lastFieldId + 1,
         \A n \in ProfileNames : profile'[n].id = profile[n].id \/ profile'[n].id = lastFieldId + 1
  PROVE  GivenInv'
<1>1. lastFieldId \in Nat /\ MaxFieldIds \in Nat
  BY ViewerAssumption DEF ProfileTypes
<1>2. \A n \in ProfileNames : profile[n].id \in Nat
  BY DEF ProfileTypes, ProfileRow
<1> QED
  BY <1>1, <1>2 DEF GivenInv

\* The steps of the profile page use the ids in order.
LEMMA GivenKept == ProfileTypes /\ GivenInv /\ [ProfileNext]_profileVars => GivenInv'
<1> SUFFICES ASSUME ProfileTypes, GivenInv, [ProfileNext]_profileVars PROVE GivenInv'
  OBVIOUS
<1>0. profile \in [ProfileNames -> ProfileRow] /\ \A n \in ProfileNames : profile[n] \in ProfileRow
  BY DEF ProfileTypes
<1>1. CASE UNCHANGED <<profile, lastFieldId>>
  BY <1>1, NoIdIsGiven
<1>2. ASSUME NEW s \in Viewers, InsertBuiltField(s) PROVE GivenInv'
  <2>1. /\ profile' = [profile EXCEPT ![NextName(s)] = [id |-> lastFieldId + 1, value |-> NextFact(s), source |-> "accepted_fact"]]
        /\ lastFieldId < MaxFieldIds /\ lastFieldId' = lastFieldId + 1
    BY <1>2 DEF InsertBuiltField
  <2>2. \A n \in ProfileNames : profile'[n].id = profile[n].id \/ profile'[n].id = lastFieldId + 1
    BY <1>0, <2>1
  <2> QED
    BY <2>1, <2>2, OneIdIsGiven
<1>3. ASSUME NEW s \in Viewers, UpdateBuiltField(s) PROVE GivenInv'
  <2>1. lastFieldId' = lastFieldId /\ \A n \in ProfileNames : profile'[n].id = profile[n].id
    BY <1>0, <1>3 DEF UpdateBuiltField, ProfileRow
  <2> QED
    BY <2>1, NoIdIsGiven
<1>4. ASSUME NEW s \in Viewers, ClearProfile(s) PROVE GivenInv'
  <2>1. lastFieldId' = lastFieldId /\ \A n \in ProfileNames : profile'[n].id = 0
    BY <1>4 DEF ClearProfile, NoField
  <2> QED
    BY <2>1, NoIdIsGiven
<1>5. ASSUME NEW s \in Viewers, NEW n \in ProfileNames, AddProfileField(s, n) PROVE GivenInv'
  <2>1. CASE HasField(n)
    <3>1. lastFieldId' = lastFieldId /\ profile' = [profile EXCEPT ![n] = [@ EXCEPT !.value = Typed, !.source = "manual"]]
      BY <1>5, <2>1 DEF AddProfileField
    <3>2. \A m \in ProfileNames : profile'[m].id = profile[m].id
      BY <1>0, <3>1 DEF ProfileRow
    <3> QED
      BY <3>1, <3>2, NoIdIsGiven
  <2>2. CASE ~HasField(n)
    <3>1. /\ lastFieldId < MaxFieldIds /\ lastFieldId' = lastFieldId + 1
          /\ profile' = [profile EXCEPT ![n] = [id |-> lastFieldId + 1, value |-> Typed, source |-> "manual"]]
      BY <1>5, <2>2 DEF AddProfileField
    <3>2. \A m \in ProfileNames : profile'[m].id = profile[m].id \/ profile'[m].id = lastFieldId + 1
      BY <1>0, <3>1
    <3> QED
      BY <3>1, <3>2, OneIdIsGiven
  <2> QED
    BY <2>1, <2>2
<1>6. ASSUME NEW s \in Viewers, NEW n \in ProfileNames, NEW source, UpdateProfileField(s, n, source) PROVE GivenInv'
  <2>1. lastFieldId' = lastFieldId /\ \A m \in ProfileNames : profile'[m].id = profile[m].id
    BY <1>0, <1>6 DEF UpdateProfileField, ProfileRow
  <2> QED
    BY <2>1, NoIdIsGiven
<1>7. ASSUME NEW s \in Viewers, NEW n \in ProfileNames, DeleteProfileField(s, n) PROVE GivenInv'
  <2>1. lastFieldId' = lastFieldId /\ \A m \in ProfileNames : profile'[m].id = profile[m].id \/ profile'[m].id = 0
    BY <1>0, <1>7 DEF DeleteProfileField, NoField
  <2> QED
    BY <2>1, NoIdIsGiven
<1>8. ASSUME NEW s \in Viewers,
             AcceptForProfile \/ LoadProfile(s) \/ ListAcceptedFacts(s) \/ LookForField(s) \/ RefuseBuiltField(s) \/ ReportBuild(s)
      PROVE  UNCHANGED <<profile, lastFieldId>>
  BY <1>8 DEF AcceptForProfile, LoadProfile, ListAcceptedFacts, LookForField, RefuseBuiltField, ReportBuild
<1>9. AcceptForProfile \/ UNCHANGED profileVars => UNCHANGED <<profile, lastFieldId>>
  BY DEF AcceptForProfile, profileVars
<1> QED
  BY <1>1, <1>2, <1>3, <1>4, <1>5, <1>6, <1>7, <1>8, <1>9 DEF ProfileNext

\* The profile and its sessions keep their type.
LEMMA ProfileTyped == ProfileSpec => []ProfileTypeOK
<1>1. ProfileInit => GivenInv
  BY ViewerAssumption DEF ProfileInit, GivenInv, NoField
<1>2. ProfileInv => ProfileTypes
  BY DEF ProfileInv
<1>3. ProfileTypes /\ GivenInv => ProfileTypeOK
  <2> SUFFICES ASSUME ProfileTypes, GivenInv PROVE ProfileTypeOK
    OBVIOUS
  <2>1. lastFieldId \in Nat /\ MaxFieldIds \in Nat
    BY ViewerAssumption DEF ProfileTypes
  <2>2. ASSUME NEW n \in ProfileNames
        PROVE  profile[n] \in [id : 0..MaxFieldIds, value : AcceptableFacts \cup {Typed},
                               source : {"none", "accepted_fact", "manual"}]
    <3>1. profile[n] \in ProfileRow /\ profile[n].id <= lastFieldId /\ lastFieldId <= MaxFieldIds
      BY DEF ProfileTypes, GivenInv
    <3> QED
      BY <2>1, <3>1 DEF ProfileRow
  <2>3. \A s \in Viewers : viewer[s].pc \in {"idle", "look", "write", "built", "failed"}
    BY DEF ProfileTypes, VRecord
  <2> QED
    BY <2>2, <2>3 DEF ProfileTypes, ProfileTypeOK
<1> QED
  BY <1>1, <1>2, <1>3, ProfileBegins, ProfilePreserved, GivenKept, PTL DEF ProfileSpec

-----------------------------------------------------------------------------
(* Advisory page *)

\* The day is in play, and who saves facts has a question left to tell of it.
AskedInv ==
    /\ day <= MaxDay
    /\ Len(advisor.history) <= MaxQuestions
    /\ advisor.pc = "saving" => Len(advisor.history) < MaxQuestions

\* A step of the page that tells nothing, and does not begin to save.
LEMMA NothingIsTold ==
  ASSUME AskedInv, day' = day, advisor'.history = advisor.history, advisor'.pc = "saving" => advisor.pc = "saving"
  PROVE  AskedInv'
  BY DEF AskedInv

\* A step of the page that tells one thing.
LEMMA OneThingIsTold ==
  ASSUME AdvisoryTypes, AskedInv, day' = day, Len(advisor.history) < MaxQuestions, advisor'.pc = "idle", NEW told,
         advisor'.history = Append(advisor.history, told)
  PROVE  AskedInv'
<1>1. advisor.history \in Seq(Told) /\ MaxQuestions \in Nat
  BY AdvisoryAssumption DEF AdvisoryTypes, ARecord
<1>2. Len(advisor'.history) = Len(advisor.history) + 1 /\ Len(advisor.history) \in Nat
  BY <1>1
<1> QED
  BY <1>1, <1>2 DEF AskedInv

\* The steps of the page keep within the bounds on days and questions.
LEMMA AskedKept == AdvisoryTypes /\ AskedInv /\ [AdvisoryNext]_advisoryVars => AskedInv'
<1> SUFFICES ASSUME AdvisoryTypes, AskedInv, [AdvisoryNext]_advisoryVars PROVE AskedInv'
  OBVIOUS
<1>0. /\ advisor = [pc |-> advisor.pc, person |-> advisor.person, cache |-> advisor.cache, vault |-> advisor.vault,
                   draft |-> advisor.draft, null |-> advisor.null, history |-> advisor.history,
                   declared |-> advisor.declared, inserted |-> advisor.inserted]
      /\ advisor.history \in Seq(Told) /\ day \in Nat /\ MaxDay \in Nat
  BY AdvisoryAssumption DEF AdvisoryTypes, ARecord
<1>1. ASSUME UNCHANGED advisor, day' = day PROVE AskedInv'
  BY <1>1 DEF AskedInv
<1>2. ASSUME NEW p \in Persons, BuildPortrait(p) \/ UNCHANGED advisoryVars PROVE AskedInv'
  BY <1>1, <1>2 DEF BuildPortrait, advisoryVars
<1>3. CASE PassMidnight
  BY <1>0, <1>3 DEF PassMidnight, AskedInv
<1>4. ASSUME NEW p \in Persons, SelectPerson(p) PROVE AskedInv'
  BY <1>0, <1>4, NothingIsTold DEF SelectPerson
<1>5. CASE LoadAdvice
  <2>1. advisor'.history = advisor.history /\ advisor'.pc = "personal" /\ day' = day
    BY <1>0, <1>5 DEF LoadAdvice
  <2> QED
    BY <2>1, NothingIsTold
<1>6. CASE FindNoVault
  BY <1>0, <1>6, NothingIsTold DEF FindNoVault
<1>7. CASE AdvisePersonal
  <2>1. advisor'.history = advisor.history /\ advisor'.pc = "proactive" /\ day' = day
    BY <1>0, <1>7 DEF AdvisePersonal
  <2> QED
    BY <2>1, NothingIsTold
<1>8. CASE AdviseProactive
  <2>1. advisor'.history = advisor.history /\ advisor'.pc = "idle" /\ day' = day
    BY <1>0, <1>8 DEF AdviseProactive
  <2> QED
    BY <2>1, NothingIsTold
<1>9. CASE AdvisorFails
  <2>1. advisor'.history = advisor.history /\ advisor'.pc \in {"idle", "personal"} /\ day' = day
    BY <1>0, <1>9 DEF AdvisorFails
  <2> QED
    BY <2>1, NothingIsTold
<1>10. ASSUME NEW topics, AskAdvisor(topics) PROVE AskedInv'
  <2>1. PICK kind \in Replies(topics) : advisor' = [advisor EXCEPT !.history = Answered(kind)]
    BY <1>10 DEF AskAdvisor
  <2>2. advisor.pc = "idle" /\ Len(advisor.history) < MaxQuestions /\ day' = day
    BY <1>10 DEF AskAdvisor
  <2>3. /\ advisor'.pc = "idle"
        /\ advisor'.history = Append(advisor.history, [person |-> advisor.person, kind |-> kind, facts |-> {}])
    BY <1>0, <2>1, <2>2 DEF Answered
  <2> QED
    BY <2>2, <2>3, OneThingIsTold
<1>11. ASSUME NEW some, DeclareFacts(some) PROVE AskedInv'
  <2>1. advisor.pc = "idle" /\ Len(advisor.history) < MaxQuestions /\ day' = day
    BY <1>11 DEF DeclareFacts
  <2>2. CASE some = {}
    <3>1. advisor'.pc = "idle" /\ advisor'.history = Answered("unclear")
      BY <1>0, <1>11, <2>1, <2>2 DEF DeclareFacts
    <3> QED
      BY <2>1, <3>1, OneThingIsTold DEF Answered
  <2>3. CASE some # {}
    <3>1. advisor'.history = advisor.history
      BY <1>0, <1>11, <2>3 DEF DeclareFacts
    <3> QED
      BY <2>1, <3>1 DEF AskedInv
  <2> QED
    BY <2>2, <2>3
<1>12. ASSUME NEW fact, InsertClaim(fact) PROVE AskedInv'
  <2>1. advisor'.history = advisor.history /\ advisor'.pc = advisor.pc /\ day' = day
    BY <1>0, <1>12 DEF InsertClaim
  <2> QED
    BY <2>1, NothingIsTold
<1>13. CASE CommitClaims
  <2>1. /\ advisor.pc = "saving" /\ day' = day /\ advisor'.pc = "idle"
        /\ advisor'.history = Append(advisor.history, [person |-> advisor.person, kind |-> "saved", facts |-> advisor.declared])
    BY <1>0, <1>13 DEF CommitClaims
  <2>2. Len(advisor.history) < MaxQuestions
    BY <2>1 DEF AskedInv
  <2> QED
    BY <2>1, <2>2, OneThingIsTold
<1>14. CASE ClaimFails
  <2>1. advisor.pc = "saving" /\ day' = day /\ advisor'.pc = "idle" /\ advisor'.history = Answered("failed")
    BY <1>0, <1>14 DEF ClaimFails
  <2>2. Len(advisor.history) < MaxQuestions
    BY <2>1 DEF AskedInv
  <2> QED
    BY <2>1, <2>2, OneThingIsTold DEF Answered
<1> QED
  BY <1>1, <1>2, <1>3, <1>4, <1>5, <1>6, <1>7, <1>8, <1>9, <1>10, <1>11, <1>12, <1>13, <1>14 DEF AdvisoryNext, advisoryVars

\* The session of the advisory page keeps its type.
LEMMA AdvisoryTyped == AdvisorySpec => []AdvisoryTypeOK
<1>1. AdvisoryInit => AskedInv
  BY AdvisoryAssumption DEF AdvisoryInit, AskedInv
<1>2. AdviceInv => AdvisoryTypes
  BY DEF AdviceInv
<1>3. AdvisoryTypes /\ AskedInv => AdvisoryTypeOK
  BY AdvisoryAssumption DEF AdvisoryTypes, AskedInv, AdvisoryTypeOK, ARecord, Rows, SomePerson
<1> QED
  BY <1>1, <1>2, <1>3, AdvisoryBegins, AdvicePreserved, AskedKept, PTL DEF AdvisorySpec

-----------------------------------------------------------------------------
(* Home page and review page *)

\* A review case was opened for a fact of a kind in play.
OfKinds(cases) ==
    \A c \in DOMAIN cases : [type |-> cases[c].type, confidence |-> cases[c].confidence] \in CaseKinds

\* What the tables and the session name exists.
NamedInv ==
    /\ filed \subseteq People /\ trusted \subseteq People
    /\ OfKinds(reviewCases)
    /\ visitor.selected \in DOMAIN reviewCases \cup {0}

\* A decision leaves a case the kind of its fact.
LEMMA DecidingKeepsKinds ==
  ASSUME GuidanceTypes, OfKinds(reviewCases), NEW c, NEW status, reviewCases' = [reviewCases EXCEPT ![c].status = status]
  PROVE  OfKinds(reviewCases') /\ DOMAIN reviewCases' = DOMAIN reviewCases
<1>1. DOMAIN reviewCases' = DOMAIN reviewCases
  OBVIOUS
<1>2. ASSUME NEW d \in DOMAIN reviewCases
      PROVE  reviewCases'[d].type = reviewCases[d].type /\ reviewCases'[d].confidence = reviewCases[d].confidence
  <2>1. reviewCases[d] \in ClaimRow
    BY ClaimsAreTyped
  <2> QED
    BY <2>1 DEF ClaimRow
<1> QED
  BY <1>1, <1>2 DEF OfKinds

\* A click that leaves the tables alone, but for a newcomer.
LEMMA ClickKeepsNames ==
  ASSUME NamedInv, People \subseteq People', UNCHANGED <<filed, reviewCases, trusted>>, visitor'.selected = visitor.selected
  PROVE  NamedInv'
  BY DEF NamedInv, OfKinds

\* The clicks of the sessions keep what is named in existence.
LEMMA NamedKept == GuidanceTypes /\ NamedInv /\ [GuidanceNext]_guidanceVars => NamedInv'
<1> SUFFICES ASSUME GuidanceTypes, NamedInv, [GuidanceNext]_guidanceVars PROVE NamedInv'
  OBVIOUS
<1>0. /\ residents \in Seq(NewResident) /\ Len(residents) \in Nat /\ reviewCases \in Seq(ClaimRow)
      /\ visitor.active \in {0} \cup People
      /\ DOMAIN reviewCases = 1..Len(reviewCases) /\ Len(reviewCases) \in Nat
  BY DEF GuidanceTypes
<1>1. ASSUME residents' = residents PROVE People' = People
  BY <1>1 DEF People
<1>2. ASSUME NEW r \in NewResident, residents' = Append(residents, r) PROVE People \subseteq People'
  <2>1. Len(residents') = Len(residents) + 1
    BY <1>0, <1>2
  <2> QED
    BY <1>0, <2>1 DEF People
<1>3. CASE CreatePerson
  <2>1. UNCHANGED <<filed, reviewCases, trusted>> /\ visitor'.selected = visitor.selected
    BY <1>3 DEF CreatePerson, Choose, ShowPage
  <2>2. People \subseteq People'
    BY <1>2, <1>3 DEF CreatePerson
  <2> QED
    BY <2>1, <2>2, ClickKeepsNames
<1>4. CASE Activate \/ ChooseInTopbar \/ ChooseInAdvisory \/ GoTo \/ FollowHome \/ FollowProfile
  <2>1. UNCHANGED <<residents, filed, reviewCases, trusted>> /\ visitor'.selected = visitor.selected
    <3>1. \A e : Choose(residents, e) => visitor'.selected = visitor.selected
      BY DEF Choose, ShowPage
    <3>2. \A page : OpenPage(page) => visitor'.selected = visitor.selected
      BY DEF OpenPage, ShowPage
    <3>3. CASE Activate \/ ChooseInTopbar \/ ChooseInAdvisory
      BY <3>1, <3>3 DEF Activate, ChooseInTopbar, ChooseInAdvisory
    <3>4. CASE GoTo \/ FollowHome \/ FollowProfile
      BY <3>2, <3>4 DEF GoTo, FollowHome, FollowProfile
    <3> QED
      BY <1>4, <3>3, <3>4
  <2> QED
    BY <1>1, <2>1, ClickKeepsNames
<1>5. CASE Upload
  <2>1. /\ visitor.active \in People /\ residents' = residents /\ filed' = filed \cup {visitor.active} /\ trusted' = trusted
        /\ visitor'.selected = visitor.selected
    BY <1>0, <1>5 DEF Upload, Stay, ShowPage
  <2>2. filed' \subseteq People' /\ trusted' \subseteq People'
    BY <1>1, <2>1 DEF NamedInv
  <2>3. OfKinds(reviewCases') /\ DOMAIN reviewCases \subseteq DOMAIN reviewCases'
    <3>1. CASE reviewCases' = reviewCases
      BY <3>1 DEF NamedInv
    <3>2. ASSUME NEW k \in CaseKinds, NEW new, new.type = k.type, new.confidence = k.confidence,
                 reviewCases' = Append(reviewCases, new)
          PROVE  OfKinds(reviewCases') /\ DOMAIN reviewCases \subseteq DOMAIN reviewCases'
      <4>1. /\ DOMAIN reviewCases' = 1..(Len(reviewCases) + 1) /\ reviewCases'[Len(reviewCases) + 1] = new
            /\ \A c \in 1..Len(reviewCases) : reviewCases'[c] = reviewCases[c]
        BY <1>0, <3>2
      <4>2. [type |-> new.type, confidence |-> new.confidence] \in CaseKinds
        BY <3>2, GuidanceAssumption
      <4>3. ASSUME NEW c \in 1..(Len(reviewCases) + 1)
            PROVE  [type |-> reviewCases'[c].type, confidence |-> reviewCases'[c].confidence] \in CaseKinds
        <5>1. CASE c = Len(reviewCases) + 1
          BY <4>1, <4>2, <5>1
        <5>2. CASE c \in 1..Len(reviewCases)
          BY <1>0, <4>1, <5>2 DEF NamedInv, OfKinds
        <5> QED
          BY <1>0, <5>1, <5>2
      <4> QED
        BY <1>0, <4>1, <4>3 DEF OfKinds
    <3>3. ASSUME NEW k \in CaseKinds,
                 reviewCases' = Append(reviewCases, [person |-> visitor.active, confidence |-> k.confidence,
                                                     type |-> k.type, status |-> "PENDING"])
          PROVE  OfKinds(reviewCases') /\ DOMAIN reviewCases \subseteq DOMAIN reviewCases'
      <4> DEFINE new == [person |-> visitor.active, confidence |-> k.confidence, type |-> k.type, status |-> "PENDING"]
      <4>1. new.type = k.type /\ new.confidence = k.confidence /\ reviewCases' = Append(reviewCases, new)
        BY <3>3
      <4> HIDE DEF new
      <4> QED
        BY <3>2, <4>1
    <3> QED
      BY <1>5, <3>1, <3>3 DEF Upload, NewClaim
  <2> QED
    BY <2>1, <2>2, <2>3 DEF NamedInv
<1>6. CASE OpenClaim
  <2>1. PICK c \in Queue(ReviewedPerson, TRUE, CaseTypes) : ShowPage(residents, visitor.active, "review", visitor.chosen, c)
    BY <1>6 DEF OpenClaim
  <2>2. c \in DOMAIN reviewCases /\ visitor'.selected = c
    BY <2>1 DEF Queue, Bucket, ClaimsOf, ShowPage
  <2>3. UNCHANGED <<residents, filed, reviewCases, trusted>>
    BY <1>6 DEF OpenClaim
  <2> QED
    BY <1>1, <2>2, <2>3 DEF NamedInv, OfKinds
<1>7. CASE DecideClaim
  <2>1. PICK status : reviewCases' = [reviewCases EXCEPT ![visitor.selected].status = status]
    BY <1>7 DEF DecideClaim
  <2>2. OfKinds(reviewCases')
    BY <2>1, DecidingKeepsKinds DEF NamedInv
  <2>3. UNCHANGED <<residents, filed, trusted>> /\ visitor'.selected = 0
    BY <1>7 DEF DecideClaim, ShowPage
  <2> QED
    BY <1>1, <2>2, <2>3 DEF NamedInv
<1>8. CASE BuildFromAccepted \/ ClearTrusted
  <2>1. /\ trusted' \subseteq trusted \cup {visitor.active} /\ visitor.active \in People
        /\ UNCHANGED <<residents, filed, reviewCases>> /\ visitor'.selected = visitor.selected
    BY <1>0, <1>8 DEF BuildFromAccepted, ClearTrusted, Stay, ShowPage
  <2> QED
    BY <1>1, <2>1 DEF NamedInv, OfKinds
<1>9. CASE Elsewhere
  <2>1. trusted' = trusted /\ visitor' = visitor
    BY <1>9 DEF Elsewhere
  <2>2. ASSUME NEW r \in NewResident, residents' = Append(residents, r), UNCHANGED <<filed, reviewCases>> PROVE NamedInv'
    BY <1>2, <2>1, <2>2, ClickKeepsNames
  <2>3. ASSUME NEW c, NEW status, reviewCases' = [reviewCases EXCEPT ![c].status = status], UNCHANGED <<residents, filed>>
        PROVE  NamedInv'
    <3>1. OfKinds(reviewCases') /\ DOMAIN reviewCases' = DOMAIN reviewCases
      BY <2>3, DecidingKeepsKinds DEF NamedInv
    <3> QED
      BY <1>1, <2>1, <2>3, <3>1 DEF NamedInv
  <2> QED
    BY <1>9, <2>2, <2>3 DEF Elsewhere
<1>10. CASE UNCHANGED guidanceVars
  BY <1>1, <1>10, ClickKeepsNames DEF guidanceVars
<1> QED
  BY <1>3, <1>4, <1>5, <1>6, <1>7, <1>8, <1>9, <1>10 DEF GuidanceNext

\* The tables and the session of the pages keep their type.
LEMMA GuidanceTyped == GuidanceSpec => []GuidanceTypeOK
<1>1. GuidanceInit => NamedInv
  BY DEF GuidanceInit, NamedInv, OfKinds
<1>2. GuidanceInv => GuidanceTypes
  BY DEF GuidanceInv
<1>3. GuidanceTypes /\ NamedInv => GuidanceTypeOK
  <2> SUFFICES ASSUME GuidanceTypes, NamedInv PROVE GuidanceTypeOK
    OBVIOUS
  <2>1. visitor \in [active : People \cup {0}, chosen : People \cup {0}, page : PageIds,
                     selected : DOMAIN reviewCases \cup {0}]
    BY DEF GuidanceTypes, NamedInv
  <2>2. ASSUME NEW c \in DOMAIN reviewCases
        PROVE  /\ reviewCases[c].person \in People /\ reviewCases[c].status \in ClaimStatus
               /\ [type |-> reviewCases[c].type, confidence |-> reviewCases[c].confidence] \in CaseKinds
    BY ClaimsAreTyped DEF GuidanceTypes, NamedInv, OfKinds
  <2> QED
    BY <2>1, <2>2 DEF GuidanceTypes, NamedInv, GuidanceTypeOK
<1> QED
  BY <1>1, <1>2, <1>3, GuidanceBegins, GuidancePreserved, NamedKept, PTL DEF GuidanceSpec

-----------------------------------------------------------------------------
(* Filling of a form *)

\* The profiles, and what the session has yet to analyse.
FillerTypes ==
    /\ profiles \in [Applicants -> Profile]
    /\ \A r \in rows : r = NewRow(r.field) /\ r.field \in FormFields
    /\ filler = [pc |-> filler.pc, person |-> filler.person, todo |-> filler.todo, read |-> filler.read,
                 profile |-> filler.profile]
    /\ filler.pc \in FillerPc /\ filler.todo \subseteq FormFields
    /\ \A form \in Range(completed) : form.missing \in Nat

\* A session that goes on with its work, or back to the page.
FillerStep(new) ==
    /\ new = [pc |-> new.pc, person |-> new.person, todo |-> new.todo, read |-> new.read, profile |-> new.profile]
    /\ new.pc \in FillerPc /\ new.todo \subseteq FormFields

\* The page is where a session may be.
LEMMA BackAtPage == ASSUME NEW p PROVE FillerStep(AtPage(p))
  BY DEF FillerStep, AtPage, FillerPc

\* A step of the session that writes nothing.
LEMMA FillerMoves ==
  ASSUME FillerTypes, FillerStep(filler'), UNCHANGED <<profiles, completed>>,
         \A r \in rows' : r \in rows \/ \E f \in FormFields : r = NewRow(f)
  PROVE  FillerTypes'
<1>1. \A r \in rows' : r = NewRow(r.field) /\ r.field \in FormFields
  BY RowOfField DEF FillerTypes
<1> QED
  BY <1>1 DEF FillerTypes, FillerStep

\* The steps of the page and of the profile keep the types.
LEMMA FillerKept == FillingInv /\ FillerTypes /\ [FillingNext]_fillingVars => FillerTypes'
<1> SUFFICES ASSUME FillingInv, FillerTypes, [FillingNext]_fillingVars PROVE FillerTypes'
  OBVIOUS
<1>0. FillerStep(filler) /\ profiles \in [Applicants -> Profile] /\ filler.todo \subseteq FormFields
  BY DEF FillerTypes, FillerStep
<1>1. ASSUME NEW p \in Applicants, NEW name, NEW value \in {""} \cup ProfileTexts, EditProfile(p, name, value) PROVE FillerTypes'
  <2>1. profiles' = [profiles EXCEPT ![p] = [profiles[p] EXCEPT ![name] = value]] /\ UNCHANGED <<rows, filler, completed>>
    BY <1>1 DEF EditProfile
  <2>2. [profiles[p] EXCEPT ![name] = value] \in Profile
    BY <1>0 DEF Profile
  <2>3. profiles' \in [Applicants -> Profile]
    BY <1>0, <2>1, <2>2
  <2> QED
    BY <2>1, <2>3 DEF FillerTypes
<1>2. ASSUME NEW f \in FormFields, AnalyseField(f) PROVE FillerTypes'
  BY <1>0, <1>2, FillerMoves DEF AnalyseField
<1>3. CASE ResetFields
  BY <1>0, <1>3, FillerMoves DEF ResetFields
<1>4. ASSUME NEW p, filler' = AtPage(p), UNCHANGED <<profiles, rows, completed>> PROVE FillerTypes'
  BY <1>4, BackAtPage, FillerMoves
<1>5. CASE \E p \in Applicants : SwitchPerson(p)
  BY <1>4, <1>5 DEF SwitchPerson
<1>6. ASSUME FillerStep(filler'), UNCHANGED <<profiles, rows, completed>> PROVE FillerTypes'
  BY <1>6, FillerMoves
<1>7. CASE FillAutomatically
  <2>1. FillerStep(filler')
    BY <1>0, <1>7 DEF FillAutomatically, FillerStep, FillerPc
  <2> QED
    BY <1>6, <1>7, <2>1 DEF FillAutomatically
<1>8. CASE AnalyseNext
  <2>1. PICK f \in filler.todo :
           /\ rows' = rows \cup {NewRow(f)}
           /\ filler' = [filler EXCEPT !.todo = @ \ {f}, !.pc = IF filler.todo = {f} THEN "rows" ELSE "analyse"]
    BY <1>8 DEF AnalyseNext
  <2>2. FillerStep(filler')
    BY <1>0, <2>1 DEF FillerStep, FillerPc
  <2> QED
    BY <1>0, <1>8, <2>1, <2>2, FillerMoves DEF AnalyseNext
<1>9. CASE ReadRows
  <2>1. filler' = [filler EXCEPT !.pc = "profile", !.read = rows] => FillerStep(filler')
    BY <1>0 DEF FillerStep, FillerPc
  <2> QED
    BY <1>6, <1>9, <2>1, BackAtPage DEF ReadRows
<1>10. CASE ReadProfile
  <2>1. filler' = [filler EXCEPT !.pc = "write", !.profile = profiles[filler.person]] => FillerStep(filler')
    BY <1>0 DEF FillerStep, FillerPc
  <2> QED
    BY <1>6, <1>10, <2>1, BackAtPage DEF ReadProfile
<1>11. CASE WriteForm
  <2> DEFINE form == [person |-> filler.person, read |-> filler.read,
                      values |-> ValuesByPdfField(filler.read, filler.profile),
                      missing |-> MissingCount(filler.read, filler.profile)]
  <2>1. RowsOfFields(filler.read)
    BY <1>11 DEF WriteForm, FillingInv
  <2>2. MissingCount(filler.read, filler.profile) \in Nat
    <3>1. IsFiniteSet({r \in VisibleRows(filler.read) : r.required /\ r \notin Fillable(filler.read, filler.profile)})
      BY <2>1, FS_Subset DEF RowsOfFields, VisibleRows
    <3> QED
      BY <3>1, FS_CardinalityType DEF MissingCount
  <2>3. completed' = <<form>> /\ form.missing \in Nat
    BY <1>11, <2>2 DEF WriteForm
  <2> HIDE DEF form
  <2>4. Range(completed') = {form}
    BY <2>3 DEF Range
  <2>5. FillerStep(filler') /\ UNCHANGED <<profiles, rows>>
    BY <1>11, BackAtPage DEF WriteForm
  <2> QED
    BY <2>3, <2>4, <2>5 DEF FillerTypes, FillerStep
<1>12. CASE Interrupt
  BY <1>4, <1>12 DEF Interrupt
<1>13. CASE UNCHANGED fillingVars
  BY <1>0, <1>6, <1>13 DEF fillingVars
<1> QED
  BY <1>1, <1>2, <1>3, <1>5, <1>7, <1>8, <1>9, <1>10, <1>11, <1>12, <1>13 DEF FillingNext

\* The form, its rows and the session that fills it keep their type.
LEMMA FillingTyped == FillingSpec => []FillingTypeOK
<1>1. FillingInit => FillerTypes
  <2> SUFFICES ASSUME FillingInit PROVE FillerTypes
    OBVIOUS
  <2>1. profiles \in [Applicants -> Profile]
    BY DEF FillingInit, EmptyProfile, Profile
  <2>2. FillerStep(filler)
    BY BackAtPage DEF FillingInit
  <2>3. Range(completed) = {} /\ rows = {}
    BY DEF FillingInit, Range
  <2> QED
    BY <2>1, <2>2, <2>3 DEF FillerTypes, FillerStep
<1>2. FillingInv /\ FillerTypes => FillingTypeOK
  BY DEF FillingInv, FillerTypes, FillingTypeOK
<1> QED
  BY <1>1, <1>2, FillingBegins, FillingPreserved, FillerKept, PTL DEF FillingSpec
=============================================================================
