-------------------------- MODULE HumanReviewProofs --------------------------
(***************************************************************************)
(* Proofs about HumanReview: type correctness, that a completed case has   *)
(* had its effect on the facts, and that a foreign fact's owner is related *)
(* to the active entity, for any number of sessions, cases and facts, with *)
(* crashes and storage errors at every statement.                          *)
(***************************************************************************)
EXTENDS HumanReview, TLAPS

-----------------------------------------------------------------------------
(* What the operators yield *)

LEMMA NullRows ==
    /\ NoRow.status = "absent" /\ NoRow.case = None /\ NoRow.claimed = None
    /\ NoCase.status = "absent" /\ NoCase.fact = None
    /\ NoCase \notin CaseRow
    /\ NoRow \notin FactRow
  BY DEF NoRow, NoCase, CaseRow, FactRow, CaseStatus, FactStatus

\* A treated case stays treated as long as the facts of the cases only move forward and
\* the facts inserted for it are left alone.
LEMMA TreatedStays ==
    ASSUME NEW c \in Cases,
           cases'[c].fact = cases[c].fact,
           \A f \in Facts : facts[f].status \in {"accepted", "rejected"} =>
                facts'[f].status \in {"accepted", "rejected"},
           \A f \in Facts : facts[f].status = "accepted" /\ facts[f].case = c
                            /\ cases[c].fact = None => facts'[f] = facts[f],
           cases[c].fact \in Facts \cup {None}
    PROVE  Treated(c) => Treated(c)'
  BY DEF Treated

-----------------------------------------------------------------------------
(* Initially *)

LEMMA InitReview == Init => ReviewInv
  <1> SUFFICES ASSUME Init PROVE ReviewInv
    OBVIOUS
  <1> USE NullRows DEF Init
  <1>1. TypeOK
    BY DEF TypeOK, Waiting, SessionRecord
  <1>2. ReferenceInv /\ ExtractionInv
    BY DEF ReferenceInv, ExtractionInv, Extraction, Waiting
  <1>3. CopyInv /\ OwnerInv
    BY DEF CopyInv, OwnerInv, Waiting
  <1>4. CompletedCaseTreated /\ ForeignFactIsRelated
    BY IdsAssumption DEF CompletedCaseTreated, ForeignFactIsRelated
  <1> QED
    BY <1>1, <1>2, <1>3, <1>4 DEF ReviewInv

-----------------------------------------------------------------------------
(* Steps that touch one session and no table *)

\* A step of session s that leaves the tables alone preserves the invariant when the new
\* record of s satisfies what the invariant says of a session.
LEMMA SessionStep ==
    ASSUME ReviewInv,
           NEW s \in Sessions, NEW r \in SessionRecord,
           session' = [session EXCEPT ![s] = r],
           UNCHANGED <<facts, evidenced, cases, directory, upload>>,
           r.pc # "idle" => r.selected # None /\ r.copy # "absent",
           r.selected # None => cases[r.selected] # NoCase,
           r.pc = "close" \/ (r.pc # "idle" /\ r.copy = "COMPLETED") => Treated(r.selected),
           r.pc \in {"lookupRelation", "relate"} => r.owner \in owners,
           r.pc \in {"write", "close"} => r.owner \in related \cup {Self}
    PROVE  ReviewInv'
  <1> USE DEF ReviewInv, directory
  <1>0. \A q \in Sessions : session'[q] = IF q = s THEN r ELSE session[q]
    BY DEF TypeOK
  <1>1. TypeOK'
    <2>1. session' \in [Sessions -> SessionRecord]
      BY DEF TypeOK
    <2> QED
      BY <2>1, <1>0 DEF TypeOK
  <1>2. ReferenceInv' /\ ExtractionInv'
    BY <1>0 DEF ReferenceInv, ExtractionInv, Extraction, Stored
  <1>3. \A c : Treated(c)' <=> Treated(c)
    BY DEF Treated
  <1>4. CopyInv'
    BY <1>0, <1>3 DEF CopyInv, Treated
  <1>5. OwnerInv'
    BY <1>0 DEF OwnerInv
  <1>6. CompletedCaseTreated' /\ ForeignFactIsRelated'
    BY <1>3 DEF CompletedCaseTreated, ForeignFactIsRelated, Treated
  <1> QED
    BY <1>1, <1>2, <1>4, <1>5, <1>6

LEMMA SelectStep ==
    ASSUME ReviewInv, NEW s \in Sessions, NEW c \in Cases, Select(s, c)
    PROVE  ReviewInv'
  <1> DEFINE r == Waiting(c)
  <1>1. r \in SessionRecord
    BY DEF Waiting, SessionRecord
  <1>2. cases[c] # NoCase
    BY NullRows DEF Select
  <1> QED
    BY <1>1, <1>2, SessionStep DEF Select, Waiting

\* Loading a case copies its status: a case loaded as completed is treated.
LEMMA LoadStep ==
    ASSUME ReviewInv, NEW s \in Sessions, NEW pc \in {"lookup", "rejectSave", "editSave"},
           NEW target \in {"self", "external"}, Load(s, pc, target)
    PROVE  ReviewInv'
  <1> DEFINE c == session[s].selected
             r == [session[s] EXCEPT !.pc = pc, !.target = target, !.copy = cases[c].status]
  <1>1. session[s] \in SessionRecord /\ c \in Cases
    BY DEF ReviewInv, TypeOK, Load, SessionRecord
  <1>2. cases[c].status \in CaseStatus \cup {"absent"}
    BY <1>1, NullRows DEF ReviewInv, TypeOK, CaseRow
  <1>3. r \in SessionRecord
    BY <1>1, <1>2 DEF SessionRecord, Deciding
  <1>4. r.pc = pc /\ r.selected = c /\ r.copy = cases[c].status
    BY <1>1 DEF SessionRecord
  <1>5. c # None /\ cases[c] # NoCase /\ cases[c].status # "absent"
    BY <1>1 DEF Load, ReviewInv, ReferenceInv, TypeOK, CaseRow, CaseStatus
  <1>6. r.copy = "COMPLETED" => Treated(c)
    BY <1>1, <1>4 DEF ReviewInv, CompletedCaseTreated
  <1>7. /\ session' = [session EXCEPT ![s] = r]
        /\ UNCHANGED <<facts, evidenced, cases, directory, upload>>
    BY DEF Load
  <1> HIDE DEF r, c
  <1> QED
    BY <1>3, <1>4, <1>5, <1>6, <1>7, SessionStep

\* Moving on inside an accept, with the owner that has been found.
LEMMA AdvanceStep ==
    ASSUME ReviewInv, NEW s \in Sessions, session[s].pc \notin {"idle", "close"},
           NEW pc \in {"insertOwner", "lookupRelation", "relate", "write"},
           NEW e \in Entities \cup {Self, None},
           pc \in {"lookupRelation", "relate"} => e \in owners,
           pc = "write" => e \in related \cup {Self},
           Advance(s, pc, e),
           UNCHANGED <<facts, evidenced, cases, directory, upload>>
    PROVE  ReviewInv'
  <1> DEFINE r == [session[s] EXCEPT !.pc = pc, !.owner = e]
  <1>1. session[s] \in SessionRecord
    BY DEF ReviewInv, TypeOK
  <1>2. r \in SessionRecord
    BY <1>1 DEF SessionRecord, Deciding
  <1>3. /\ r.pc = pc /\ r.owner = e
        /\ r.selected = session[s].selected /\ r.copy = session[s].copy
    BY <1>1 DEF SessionRecord
  <1>4. r.selected # None /\ r.copy # "absent" /\ cases[r.selected] # NoCase
    BY <1>3 DEF ReviewInv, ReferenceInv, TypeOK
  <1>5. r.copy = "COMPLETED" => Treated(r.selected)
    BY <1>3 DEF ReviewInv, CopyInv
  <1>6. session' = [session EXCEPT ![s] = r]
    BY DEF Advance
  <1> HIDE DEF r
  <1> QED
    BY <1>2, <1>3, <1>4, <1>5, <1>6, SessionStep

\* A failed statement leaves the session with its selection.
LEMMA FailStep ==
    ASSUME ReviewInv, NEW s \in Sessions,
           session' = [session EXCEPT ![s] = Waiting(session[s].selected)],
           UNCHANGED <<facts, evidenced, cases, directory, upload>>
    PROVE  ReviewInv'
  <1> DEFINE r == Waiting(session[s].selected)
  <1>1. r \in SessionRecord
    BY DEF ReviewInv, TypeOK, Waiting, SessionRecord
  <1>2. /\ r.pc = "idle" /\ r.selected = session[s].selected
        /\ r.copy = "absent" /\ r.owner = None
    BY DEF Waiting
  <1>3. r.selected # None => cases[r.selected] # NoCase
    BY <1>2 DEF ReviewInv, ReferenceInv
  <1> HIDE DEF r
  <1> QED
    BY <1>1, <1>2, <1>3, SessionStep DEF r

LEMMA SessionOnlySteps ==
    ASSUME ReviewInv, NEW s \in Sessions,
           \/ Accept(s) \/ Reject(s) \/ Edit(s)
           \/ KeepActive(s) \/ FindOwner(s) \/ FindRelation(s)
           \/ RelateRefused(s) \/ StorageError(s)
    PROVE  ReviewInv'
  <1>1. CASE Accept(s)
    <2>1. PICK target \in Targets : Load(s, "lookup", target)
      BY <1>1 DEF Accept
    <2> QED
      BY <2>1, LoadStep, InputsAssumption
  <1>2. CASE Reject(s)
    BY <1>2, LoadStep DEF Reject
  <1>3. CASE Edit(s)
    BY <1>3, LoadStep DEF Edit
  <1>4. CASE KeepActive(s)
    BY <1>4, AdvanceStep DEF KeepActive
  <1>5. CASE FindOwner(s)
    <2>1. CASE Advance(s, "insertOwner", None)
      BY <1>5, <2>1, AdvanceStep DEF FindOwner
    <2>2. CASE \E e \in owners : Advance(s, "lookupRelation", e)
      <3>1. PICK e \in owners : Advance(s, "lookupRelation", e)
        BY <2>2
      <3>2. e \in Entities
        BY DEF ReviewInv, TypeOK
      <3> QED
        BY <1>5, <3>1, <3>2, AdvanceStep DEF FindOwner
    <2> QED
      BY <1>5, <2>1, <2>2 DEF FindOwner
  <1>6. CASE FindRelation(s)
    <2> DEFINE e == session[s].owner
    <2>1. e \in owners /\ e \in Entities
      BY <1>6 DEF FindRelation, ReviewInv, OwnerInv, TypeOK
    <2>2. CASE e \in related
      BY <1>6, <2>1, <2>2, AdvanceStep DEF FindRelation
    <2>3. CASE e \notin related
      BY <1>6, <2>1, <2>3, AdvanceStep DEF FindRelation
    <2> QED
      BY <2>2, <2>3
  <1>7. CASE RelateRefused(s)
    BY <1>7, FailStep DEF RelateRefused
  <1>8. CASE StorageError(s)
    BY <1>8, FailStep DEF StorageError
  <1> QED
    BY <1>1, <1>2, <1>3, <1>4, <1>5, <1>6, <1>7, <1>8

LEMMA CrashStep ==
    ASSUME ReviewInv, Crash
    PROVE  ReviewInv'
  <1> USE DEF ReviewInv, Crash, directory
  <1>1. TypeOK'
    BY DEF TypeOK, Waiting, SessionRecord
  <1>2. ReferenceInv' /\ ExtractionInv'
    BY DEF ReferenceInv, ExtractionInv, Extraction, Stored, Waiting
  <1>3. CopyInv' /\ OwnerInv'
    BY DEF CopyInv, OwnerInv, Waiting
  <1>4. CompletedCaseTreated' /\ ForeignFactIsRelated'
    BY DEF CompletedCaseTreated, ForeignFactIsRelated, Treated
  <1> QED
    BY <1>1, <1>2, <1>3, <1>4

-----------------------------------------------------------------------------
(* Producers *)

LEMMA PersistStep ==
    ASSUME ReviewInv, NEW f \in Facts, PersistFact(f)
    PROVE  ReviewInv'
  <1> USE DEF ReviewInv, directory
  <1>0. /\ \A g \in Facts : facts'[g] = IF g = f THEN Extracted ELSE facts[g]
        /\ facts[f] = NoRow
        /\ UNCHANGED <<evidenced, cases, owners, related, session, upload>>
    BY DEF PersistFact, TypeOK, Stored
  <1>1. TypeOK'
    <2>1. Extracted \in FactRow
      BY DEF Extracted, FactRow, FactStatus
    <2> QED
      BY <1>0, <2>1 DEF PersistFact, TypeOK
  <1>2. Extracted.status = "pending" /\ Extracted.case = None /\ Extracted.claimed = None
        /\ Extracted # NoRow
    BY IdsAssumption DEF Extracted, NoRow
  <1>3. ReferenceInv' /\ ExtractionInv'
    <2>1. ReferenceInv'
      BY <1>0, <1>2 DEF ReferenceInv
    <2>2. \A g \in Facts : Extraction(g) => Extraction(g)'
      BY <1>0, <1>2 DEF Extraction, Stored
    <2>3. \A c \in Cases : cases[c].fact \in Facts \cup {None}
      BY NullRows DEF TypeOK, CaseRow
    <2>4. \A u \in Uploads : upload[u] \subseteq Facts
      BY DEF TypeOK
    <2>5. ExtractionInv'
      BY <1>0, <2>2, <2>3, <2>4 DEF ExtractionInv
    <2> QED
      BY <2>1, <2>5
  <1>4. \A c \in Cases : Treated(c) => Treated(c)'
    <2>1. TAKE c \in Cases
    <2>2. cases[c].fact \in Facts \cup {None}
      BY NullRows DEF TypeOK, CaseRow
    <2>3. facts[f].status \notin {"accepted", "rejected"}
      BY <1>0, NullRows
    <2> QED
      BY <1>0, <2>2, <2>3, TreatedStays
  <1>5. CopyInv' /\ OwnerInv'
    BY <1>0, <1>4 DEF CopyInv, OwnerInv, TypeOK, SessionRecord
  <1>6. CompletedCaseTreated' /\ ForeignFactIsRelated'
    BY <1>0, <1>2, <1>4, IdsAssumption DEF CompletedCaseTreated, ForeignFactIsRelated
  <1> QED
    BY <1>1, <1>3, <1>5, <1>6

\* Steps that leave facts, cases, owners and sessions alone.
LEMMA AcceptanceStep ==
    ASSUME ReviewInv,
           UNCHANGED <<facts, cases, directory, session>>,
           evidenced' \subseteq Facts,
           upload' \in [Uploads -> SUBSET Facts],
           \A u \in Uploads : \A f \in upload'[u] : Extraction(f)
    PROVE  ReviewInv'
  <1> USE DEF ReviewInv, directory
  <1>1. TypeOK'
    BY DEF TypeOK
  <1>2. ReferenceInv' /\ ExtractionInv'
    BY DEF ReferenceInv, ExtractionInv, Extraction, Stored
  <1>3. CopyInv' /\ OwnerInv'
    BY DEF CopyInv, OwnerInv, Treated
  <1>4. CompletedCaseTreated' /\ ForeignFactIsRelated'
    BY DEF CompletedCaseTreated, ForeignFactIsRelated, Treated
  <1> QED
    BY <1>1, <1>2, <1>3, <1>4

LEMMA LinkEvidenceStep ==
    ASSUME ReviewInv, NEW f \in Facts, LinkEvidence(f)
    PROVE  ReviewInv'
  BY AcceptanceStep DEF LinkEvidence, ReviewInv, TypeOK, ExtractionInv

LEMMA ListAndSkipSteps ==
    ASSUME ReviewInv, NEW u \in Uploads,
           ListPending(u) \/ \E f \in Facts : SkipFact(u, f)
    PROVE  ReviewInv'
  <1>1. CASE ListPending(u)
    <2> DEFINE P == {g \in Facts : facts[g].status = "pending"}
    <2>1. \A g \in P : Extraction(g)
      BY NullRows DEF ReviewInv, ReferenceInv, Extraction, Stored
    <2>2. /\ upload' \in [Uploads -> SUBSET Facts]
          /\ \A v \in Uploads : upload'[v] = IF v = u THEN P ELSE upload[v]
      BY <1>1 DEF ListPending, ReviewInv, TypeOK
    <2> HIDE DEF P
    <2>3. \A v \in Uploads : \A g \in upload'[v] : Extraction(g)
      BY <2>1, <2>2 DEF ReviewInv, ExtractionInv
    <2> QED
      BY <1>1, <2>2, <2>3, AcceptanceStep DEF ListPending, ReviewInv, TypeOK
  <1>2. CASE \E f \in Facts : SkipFact(u, f)
    <2>1. /\ upload' \in [Uploads -> SUBSET Facts]
          /\ \A v \in Uploads : upload'[v] \subseteq upload[v]
      BY <1>2 DEF SkipFact, ReviewInv, TypeOK
    <2>2. \A v \in Uploads : \A g \in upload'[v] : Extraction(g)
      BY <2>1 DEF ReviewInv, ExtractionInv
    <2> QED
      BY <1>2, <2>1, <2>2, AcceptanceStep DEF SkipFact, ReviewInv, TypeOK
  <1> QED
    BY <1>1, <1>2

\* A case that did not exist is opened, for an extracted fact or for none.
LEMMA OpenStep ==
    ASSUME ReviewInv, NEW c \in Cases, NEW g \in Facts \cup {None},
           cases[c] = NoCase,
           cases' = [cases EXCEPT ![c] = [status |-> "PENDING", fact |-> g]],
           g # None => Extraction(g),
           UNCHANGED <<facts, evidenced, directory, session>>,
           upload' \in [Uploads -> SUBSET Facts],
           \A u \in Uploads : upload'[u] \subseteq upload[u]
    PROVE  ReviewInv'
  <1> DEFINE row == [status |-> "PENDING", fact |-> g]
  <1> USE DEF ReviewInv, directory
  <1>0. /\ \A d \in Cases : cases'[d] = IF d = c THEN row ELSE cases[d]
        /\ row \in CaseRow /\ row.status = "PENDING" /\ row.fact = g /\ row # NoCase
    BY NullRows DEF TypeOK, CaseRow, CaseStatus
  <1>1. TypeOK'
    BY <1>0 DEF TypeOK
  <1> HIDE DEF row
  <1>2. ReferenceInv'
    BY <1>0 DEF ReferenceInv, TypeOK, SessionRecord
  <1>3. \A f \in Facts : facts[f].case # c
    <2>1. TAKE f \in Facts
    <2>2. c # None
      BY IdsAssumption
    <2> QED
      BY <2>2 DEF ReferenceInv
  <1>4. \A f \in Facts : Extraction(f) => Extraction(f)'
    <2>1. TAKE f \in Facts
    <2>2. HAVE Extraction(f)
    <2>3. facts[f].case \in Cases \cup {None}
      BY NullRows DEF TypeOK, FactRow
    <2> QED
      BY <1>0, <1>3, <2>2, <2>3 DEF Extraction, Stored
  <1>5. ExtractionInv'
    BY <1>0, <1>4 DEF ExtractionInv, TypeOK, CaseRow, NoCase
  <1>6. \A d \in Cases : d # c => (Treated(d) => Treated(d)')
    BY <1>0 DEF Treated
  <1>7. \A s \in Sessions : session[s].selected # c
    BY IdsAssumption DEF ReferenceInv
  <1>8. CopyInv' /\ OwnerInv'
    BY <1>6, <1>7 DEF CopyInv, OwnerInv, TypeOK, SessionRecord
  <1>9. CompletedCaseTreated' /\ ForeignFactIsRelated'
    BY <1>0, <1>6 DEF CompletedCaseTreated, ForeignFactIsRelated
  <1> QED
    BY <1>1, <1>2, <1>5, <1>8, <1>9

LEMMA OpenSteps ==
    ASSUME ReviewInv, NEW c \in Cases,
           OpenClaim(c) \/ \E u \in Uploads, f \in Facts : OpenCase(u, f, c)
    PROVE  ReviewInv'
  <1>1. CASE OpenClaim(c)
    BY <1>1, OpenStep DEF OpenClaim, ReviewInv, TypeOK
  <1>2. CASE \E u \in Uploads, f \in Facts : OpenCase(u, f, c)
    <2>1. PICK u \in Uploads, f \in Facts : OpenCase(u, f, c)
      BY <1>2
    <2>2. f \in upload[u] /\ Extraction(f)
      BY <2>1 DEF OpenCase, ReviewInv, ExtractionInv
    <2>3. /\ upload' \in [Uploads -> SUBSET Facts]
          /\ \A v \in Uploads : upload'[v] \subseteq upload[v]
      BY <2>1 DEF OpenCase, ReviewInv, TypeOK
    <2> QED
      BY <2>1, <2>2, <2>3, OpenStep DEF OpenCase
  <1> QED
    BY <1>1, <1>2

-----------------------------------------------------------------------------
(* The owners *)

LEMMA InsertOwnerStep ==
    ASSUME ReviewInv, NEW s \in Sessions, InsertOwner(s)
    PROVE  ReviewInv'
  <1> USE DEF ReviewInv
  <1>1. PICK e \in Entities \ owners :
            owners' = owners \cup {e} /\ Advance(s, "lookupRelation", e)
    BY DEF InsertOwner
  <1>2. \A q \in Sessions : session'[q] =
            IF q = s THEN [session[s] EXCEPT !.pc = "lookupRelation", !.owner = e] ELSE session[q]
    BY <1>1 DEF Advance, TypeOK
  <1>3. /\ session'[s].pc = "lookupRelation" /\ session'[s].owner = e
        /\ session'[s].selected = session[s].selected /\ session'[s].copy = session[s].copy
        /\ session'[s] \in SessionRecord
        /\ session[s].pc = "insertOwner"
    BY <1>2 DEF TypeOK, SessionRecord, Deciding, InsertOwner
  <1>4. TypeOK'
    <2>1. session' \in [Sessions -> SessionRecord]
      BY <1>1, <1>2, <1>3 DEF TypeOK, Advance
    <2> QED
      BY <1>1, <1>2, <1>3, <2>1 DEF TypeOK, InsertOwner
  <1>5. ReferenceInv' /\ ExtractionInv'
    BY <1>2, <1>3 DEF ReferenceInv, ExtractionInv, Extraction, Stored, InsertOwner
  <1>6. CopyInv'
    BY <1>2, <1>3 DEF CopyInv, Treated, InsertOwner
  <1>7. OwnerInv'
    BY <1>1, <1>2, <1>3 DEF OwnerInv, InsertOwner
  <1>8. CompletedCaseTreated' /\ ForeignFactIsRelated'
    BY DEF CompletedCaseTreated, ForeignFactIsRelated, Treated, InsertOwner
  <1> QED
    BY <1>4, <1>5, <1>6, <1>7, <1>8

LEMMA RelateStep ==
    ASSUME ReviewInv, NEW s \in Sessions, Relate(s)
    PROVE  ReviewInv'
  <1> USE DEF ReviewInv
  <1>1. \A q \in Sessions : session'[q] =
            IF q = s THEN [session[s] EXCEPT !.pc = "write", !.owner = session[s].owner]
            ELSE session[q]
    BY DEF Relate, Advance, TypeOK
  <1>2. /\ session'[s].pc = "write" /\ session'[s].owner = session[s].owner
        /\ session'[s].selected = session[s].selected /\ session'[s].copy = session[s].copy
        /\ session'[s] \in SessionRecord
        /\ session[s].pc = "relate" /\ session[s].owner \in owners
        /\ related' = related \cup {session[s].owner}
    BY <1>1 DEF TypeOK, SessionRecord, Deciding, Relate, OwnerInv
  <1>3. TypeOK'
    <2>1. session' \in [Sessions -> SessionRecord]
      BY <1>1, <1>2 DEF TypeOK, Advance, Relate
    <2> QED
      BY <1>1, <1>2, <2>1 DEF TypeOK, Relate
  <1>4. ReferenceInv' /\ ExtractionInv'
    BY <1>1, <1>2 DEF ReferenceInv, ExtractionInv, Extraction, Stored, Relate
  <1>5. CopyInv'
    BY <1>1, <1>2 DEF CopyInv, Treated, Relate
  <1>6. OwnerInv'
    BY <1>1, <1>2 DEF OwnerInv, Relate
  <1>7. CompletedCaseTreated' /\ ForeignFactIsRelated'
    BY <1>2 DEF CompletedCaseTreated, ForeignFactIsRelated, Treated, Relate
  <1> QED
    BY <1>3, <1>4, <1>5, <1>6, <1>7

-----------------------------------------------------------------------------
(* The facts *)

\* Writing the fact of an accepted case: the fact is either one the case was opened for, or
\* a fresh one.
LEMMA WriteStep ==
    ASSUME ReviewInv, NEW s \in Sessions, NEW f \in Facts, NEW e \in Entities \cup {Self},
           session[s].pc = "write",
           \/ f = cases[session[s].selected].fact
           \/ cases[session[s].selected].fact = None /\ ~Stored(f),
           facts' = [facts EXCEPT ![f] = Reviewed(session[s].selected, e, session[s].owner)],
           Advance(s, "close", session[s].owner),
           UNCHANGED <<evidenced, cases, directory, upload>>
    PROVE  ReviewInv'
  <1> USE DEF ReviewInv, directory
  <1>a. session[s].selected \in Cases
    BY DEF TypeOK, SessionRecord
  <1>b. PICK c \in Cases : c = session[s].selected
    BY <1>a
  <1> DEFINE row == Reviewed(c, e, session[s].owner)
  <1>1. /\ c # None /\ cases[c] # NoCase
        /\ session[s].owner \in related \cup {Self}
        /\ session[s].owner \in Entities \cup {Self}
    BY <1>b DEF TypeOK, SessionRecord, ReferenceInv, OwnerInv
  <1>2. /\ row \in FactRow /\ row.status = "accepted" /\ row.case = c
        /\ row.claimed = session[s].owner /\ row # NoRow
    BY <1>1, IdsAssumption, NullRows DEF Reviewed, FactRow, FactStatus
  <1>3. \A g \in Facts : facts'[g] = IF g = f THEN row ELSE facts[g]
    BY <1>b DEF TypeOK
  <1>4. facts' \in [Facts -> FactRow \cup {NoRow}]
    BY <1>b, <1>2 DEF TypeOK
  <1> HIDE DEF row
  <1>5. \A q \in Sessions : session'[q] =
            IF q = s THEN [session[s] EXCEPT !.pc = "close", !.owner = session[s].owner]
            ELSE session[q]
    BY DEF Advance, TypeOK
  <1>6. /\ session'[s].pc = "close" /\ session'[s].owner = session[s].owner
        /\ session'[s].selected = c /\ session'[s].copy # "absent"
        /\ session'[s] \in SessionRecord
    BY <1>b, <1>5 DEF TypeOK, SessionRecord, Deciding
  <1>7. TypeOK'
    <2>1. session' \in [Sessions -> SessionRecord]
      BY <1>5, <1>6 DEF TypeOK, Advance
    <2> QED
      BY <1>1, <1>4, <1>5, <1>6, <2>1 DEF TypeOK
  <1>8. ReferenceInv'
    BY <1>1, <1>2, <1>3, <1>5, <1>6 DEF ReferenceInv
  <1>9. cases[c].fact \in Facts \cup {None}
    BY <1>1, NullRows DEF TypeOK, CaseRow
  <1>10. \A g \in Facts : Extraction(g) => Extraction(g)'
    <2>1. TAKE g \in Facts
    <2>2. CASE g = f
      BY <1>b, <1>1, <1>2, <1>3, <2>2 DEF Extraction, Stored
    <2>3. CASE g # f
      BY <1>3, <2>3 DEF Extraction, Stored
    <2> QED
      BY <2>2, <2>3
  <1>11. ExtractionInv'
    <2>1. \A d \in Cases : cases[d].fact # None => cases[d].fact \in Facts
      BY NullRows DEF TypeOK, CaseRow
    <2>2. \A u \in Uploads : upload[u] \subseteq Facts
      BY DEF TypeOK
    <2> QED
      BY <1>10, <2>1, <2>2 DEF ExtractionInv
  <1>12. Treated(c)'
    BY <1>b, <1>1, <1>2, <1>3, <1>9 DEF Treated
  <1>13. \A d \in Cases : Treated(d) => Treated(d)'
    <2>1. TAKE d \in Cases
    <2>2. cases[d].fact \in Facts \cup {None}
      BY NullRows DEF TypeOK, CaseRow
    <2>3. \A g \in Facts : facts[g].status \in {"accepted", "rejected"} =>
                facts'[g].status \in {"accepted", "rejected"}
      BY <1>2, <1>3
    <2>4. ASSUME NEW g \in Facts, facts[g].status = "accepted", facts[g].case = d,
                 cases[d].fact = None
          PROVE  facts'[g] = facts[g]
      <3>1. d # None
        BY IdsAssumption
      <3>2. Stored(g) /\ (g = f => g = cases[c].fact)
        BY <1>b, <2>4, NullRows DEF Stored
      <3>3. g # f
        BY <1>1, <2>4, <3>1, <3>2, IdsAssumption DEF ExtractionInv, Extraction
      <3> QED
        BY <1>3, <3>3
    <2> QED
      BY <2>2, <2>3, <2>4, TreatedStays
  <1>14. CopyInv'
    <2>1. ASSUME NEW q \in Sessions, NEW d \in Cases, d = session[q].selected, q # s,
                 \/ session[q].pc \notin {"idle", "close"} /\ session[q].copy = "COMPLETED"
                 \/ session[q].pc = "close"
          PROVE  Treated(d)'
      BY <1>13, <2>1 DEF CopyInv
    <2>2. \A q \in Sessions : session[q].pc # "idle" => session[q].selected \in Cases
      BY DEF TypeOK, SessionRecord
    <2>3. \A q \in Sessions : q # s => session'[q] = session[q]
      BY <1>5
    <2> QED
      BY <1>6, <1>12, <2>1, <2>2, <2>3 DEF CopyInv, Treated
  <1>15. OwnerInv'
    BY <1>1, <1>5, <1>6 DEF OwnerInv
  <1>16. CompletedCaseTreated'
    BY <1>13 DEF CompletedCaseTreated
  <1>17. ForeignFactIsRelated'
    BY <1>1, <1>2, <1>3, IdsAssumption DEF ForeignFactIsRelated
  <1> QED
    BY <1>7, <1>8, <1>11, <1>14, <1>15, <1>16, <1>17

LEMMA WriteSteps ==
    ASSUME ReviewInv, NEW s \in Sessions, UpdateFact(s) \/ \E f \in Facts : InsertFact(s, f)
    PROVE  ReviewInv'
  <1> DEFINE c == session[s].selected
  <1>1. session[s].pc = "write" => /\ c \in Cases
                                   /\ session[s].owner \in Entities \cup {Self}
    BY DEF ReviewInv, TypeOK, SessionRecord, OwnerInv
  <1>2. CASE UpdateFact(s)
    <2> DEFINE g == cases[c].fact
    <2>1. g \in Facts /\ Stored(g)
      BY <1>1, <1>2, NullRows DEF UpdateFact, Backed, ReviewInv, TypeOK, CaseRow
    <2>2. facts[g].entity \in Entities \cup {Self}
      BY <2>1 DEF Stored, ReviewInv, TypeOK, FactRow
    <2>3. facts' = [facts EXCEPT ![g] = Reviewed(c, facts[g].entity, session[s].owner)]
      BY <1>2, <2>1 DEF UpdateFact, ReviewInv, TypeOK
    <2> QED
      BY <1>2, <2>1, <2>2, <2>3, WriteStep DEF UpdateFact
  <1>3. CASE \E f \in Facts : InsertFact(s, f)
    <2> PICK f \in Facts : InsertFact(s, f)
      BY <1>3
    <2>1. cases[c].fact = None
      BY <1>1 DEF InsertFact, Backed, ReviewInv, ExtractionInv, Extraction
    <2> QED
      BY <1>1, <2>1, WriteStep DEF InsertFact
  <1> QED
    BY <1>2, <1>3

LEMMA RejectFactStep ==
    ASSUME ReviewInv, NEW s \in Sessions, RejectFact(s)
    PROVE  ReviewInv'
  <1> DEFINE f == cases[session[s].selected].fact
  <1> USE DEF ReviewInv, directory
  <1>1. /\ facts' = [g \in Facts |->
                        IF g = f /\ Stored(g) THEN [facts[g] EXCEPT !.status = "rejected"]
                        ELSE facts[g]]
        /\ session' = [session EXCEPT ![s] = Waiting(None)]
        /\ UNCHANGED <<evidenced, cases, owners, related, upload>>
        /\ session[s].pc = "rejectFact"
    BY DEF RejectFact
  <1> HIDE DEF f
  <1>2. \A g \in Facts : facts'[g] # facts[g] =>
            /\ g = f
            /\ facts[g] \in FactRow
            /\ facts'[g] = [facts[g] EXCEPT !.status = "rejected"]
    BY <1>1 DEF TypeOK, Stored
  <1>3. \A g \in Facts : facts'[g] # facts[g] =>
            /\ g = f
            /\ facts'[g] \in FactRow /\ facts'[g] # NoRow /\ facts[g] # NoRow
            /\ facts'[g].status = "rejected"
            /\ facts'[g].case = facts[g].case
            /\ facts'[g].claimed = facts[g].claimed
    BY <1>2, NullRows DEF FactRow, FactStatus
  <1>4. \A q \in Sessions : session'[q] = IF q = s THEN Waiting(None) ELSE session[q]
    BY <1>1 DEF TypeOK
  <1>5. /\ Waiting(None) \in SessionRecord
        /\ Waiting(None).pc = "idle" /\ Waiting(None).selected = None
    BY DEF Waiting, SessionRecord
  <1>6. TypeOK'
    <2>1. facts' \in [Facts -> FactRow \cup {NoRow}]
      BY <1>1, <1>3 DEF TypeOK
    <2>2. session' \in [Sessions -> SessionRecord]
      BY <1>1, <1>5 DEF TypeOK
    <2> QED
      BY <1>1, <1>4, <1>5, <2>1, <2>2 DEF TypeOK
  <1>7. ReferenceInv'
    BY <1>1, <1>3, <1>4, <1>5 DEF ReferenceInv
  <1>8. \A g \in Facts : Extraction(g) => Extraction(g)'
    BY <1>1, <1>3 DEF Extraction, Stored
  <1>9. \A d \in Cases : cases[d].fact \in Facts \cup {None}
    BY NullRows DEF TypeOK, CaseRow
  <1>10. ExtractionInv'
    <2>1. \A u \in Uploads : upload[u] \subseteq Facts
      BY DEF TypeOK
    <2> QED
      BY <1>1, <1>8, <1>9, <2>1 DEF ExtractionInv
  <1>11. \A d \in Cases : Treated(d) => Treated(d)'
    <2>1. TAKE d \in Cases
    <2>2. \A g \in Facts : facts[g].status \in {"accepted", "rejected"} =>
                facts'[g].status \in {"accepted", "rejected"}
      BY <1>3
    <2>3. session[s].selected \in Cases
      BY <1>1 DEF TypeOK, SessionRecord
    <2>4. ASSUME NEW g \in Facts, facts[g].status = "accepted", facts[g].case = d,
                 cases[d].fact = None
          PROVE  facts'[g] = facts[g]
      <3>1. d # None
        BY IdsAssumption
      <3>2. g # f
        BY <2>3, <2>4, <3>1, IdsAssumption DEF ExtractionInv, Extraction, f
      <3> QED
        BY <1>3, <3>2
    <2> QED
      BY <1>1, <1>9, <2>2, <2>4, TreatedStays
  <1>12. CopyInv' /\ OwnerInv'
    <2>1. \A q \in Sessions : session[q].pc # "idle" => session[q].selected \in Cases
      BY DEF TypeOK, SessionRecord
    <2>2. ASSUME NEW q \in Sessions, NEW d \in Cases, d = session[q].selected,
                 \/ session[q].pc \notin {"idle", "close"} /\ session[q].copy = "COMPLETED"
                 \/ session[q].pc = "close"
          PROVE  Treated(d)'
      BY <1>11, <2>2 DEF CopyInv
    <2>3. CopyInv'
      BY <1>4, <1>5, <2>1, <2>2 DEF CopyInv, Treated
    <2>4. OwnerInv'
      BY <1>1, <1>4, <1>5 DEF OwnerInv
    <2> QED
      BY <2>3, <2>4
  <1>13. CompletedCaseTreated' /\ ForeignFactIsRelated'
    BY <1>1, <1>3, <1>11 DEF CompletedCaseTreated, ForeignFactIsRelated
  <1> QED
    BY <1>6, <1>7, <1>10, <1>12, <1>13

-----------------------------------------------------------------------------
(* The cases *)

\* Saving the status of a case: COMPLETED only once the case is treated.
LEMMA SaveStep ==
    ASSUME ReviewInv, NEW s \in Sessions, session[s].pc # "idle",
           NEW status \in CaseStatus, SaveCase(s, status),
           status = "COMPLETED" => Treated(session[s].selected),
           NEW r \in SessionRecord, session' = [session EXCEPT ![s] = r],
           r.pc \in {"idle", "rejectFact"},
           r.selected \in {None, session[s].selected},
           r.pc = "rejectFact" => /\ r.selected = session[s].selected
                                  /\ r.copy = session[s].copy
                                  /\ session[s].pc # "close",
           UNCHANGED <<facts, evidenced, directory, upload>>
    PROVE  ReviewInv'
  <1> USE DEF ReviewInv, directory
  <1>1. /\ session[s].selected \in Cases
        /\ session[s].selected # None /\ session[s].copy # "absent"
    BY DEF TypeOK, SessionRecord
  <1>2. PICK c \in Cases : c = session[s].selected
    BY <1>1
  <1>3. cases[c] \in CaseRow
    BY <1>1, <1>2 DEF TypeOK, ReferenceInv
  <1>4. \A d \in Cases : cases'[d] = IF d = c THEN [cases[c] EXCEPT !.status = status] ELSE cases[d]
    BY <1>2 DEF SaveCase, TypeOK
  <1>5. /\ cases'[c] \in CaseRow /\ cases'[c] # NoCase
        /\ cases'[c].status = status
        /\ \A d \in Cases : cases'[d].fact = cases[d].fact
    BY <1>3, <1>4, NullRows DEF CaseRow
  <1>6. \A q \in Sessions : session'[q] = IF q = s THEN r ELSE session[q]
    BY DEF TypeOK
  <1>7. TypeOK'
    <2>1. cases' \in [Cases -> CaseRow \cup {NoCase}]
      BY <1>2, <1>4, <1>5 DEF TypeOK, SaveCase
    <2>2. session' \in [Sessions -> SessionRecord]
      BY DEF TypeOK
    <2> QED
      BY <1>1, <1>6, <2>1, <2>2 DEF TypeOK
  <1>8. ReferenceInv'
    <2>1. \A d \in Cases : cases[d] # NoCase => cases'[d] # NoCase
      BY <1>4, <1>5
    <2>2. \A f \in Facts : facts[f].case \in Cases \cup {None}
      BY NullRows DEF TypeOK, FactRow
    <2>3. \A q \in Sessions : session[q].selected \in Cases \cup {None}
      BY DEF TypeOK, SessionRecord
    <2>4. \A q \in Sessions : session'[q].selected \in {None, session[q].selected}
      BY <1>6
    <2> QED
      BY <2>1, <2>2, <2>3, <2>4 DEF ReferenceInv
  <1>9. \A f \in Facts : Extraction(f) => Extraction(f)'
    <2>1. TAKE f \in Facts
    <2>2. facts[f].case \in Cases \cup {None}
      BY NullRows DEF TypeOK, FactRow
    <2> QED
      BY <1>5, <2>2 DEF Extraction, Stored
  <1>10. ExtractionInv'
    <2>1. \A d \in Cases : cases[d].fact \in Facts \cup {None}
      BY NullRows DEF TypeOK, CaseRow
    <2>2. \A u \in Uploads : upload[u] \subseteq Facts
      BY DEF TypeOK
    <2> QED
      BY <1>5, <1>9, <2>1, <2>2 DEF ExtractionInv
  <1>11. \A d \in Cases : Treated(d) => Treated(d)'
    BY <1>5 DEF Treated
  <1>12. CopyInv' /\ OwnerInv'
    <2>1. \A q \in Sessions : session[q].pc # "idle" => session[q].selected \in Cases
      BY DEF TypeOK, SessionRecord
    <2>2. ASSUME NEW q \in Sessions, NEW d \in Cases, d = session[q].selected,
                 \/ session[q].pc \notin {"idle", "close"} /\ session[q].copy = "COMPLETED"
                 \/ session[q].pc = "close"
          PROVE  Treated(d)'
      BY <1>11, <2>2 DEF CopyInv
    <2>3. CopyInv'
      BY <1>6, <2>1, <2>2 DEF CopyInv, Treated
    <2>4. OwnerInv'
      BY <1>6 DEF OwnerInv
    <2> QED
      BY <2>3, <2>4
  <1>13. CompletedCaseTreated' /\ ForeignFactIsRelated'
    BY <1>2, <1>4, <1>5, <1>11 DEF CompletedCaseTreated, ForeignFactIsRelated
  <1> QED
    BY <1>7, <1>8, <1>10, <1>12, <1>13

LEMMA SaveSteps ==
    ASSUME ReviewInv, NEW s \in Sessions, CloseAccepted(s) \/ CancelCase(s) \/ SaveEdit(s)
    PROVE  ReviewInv'
  <1>1. /\ session[s] \in SessionRecord
        /\ session[s].pc # "idle" => session[s].copy \in CaseStatus
    BY DEF ReviewInv, TypeOK, SessionRecord
  <1>2. ASSUME NEW c \in Cases \cup {None}
        PROVE  /\ Waiting(c) \in SessionRecord
               /\ Waiting(c).pc = "idle" /\ Waiting(c).selected = c
    BY DEF Waiting, SessionRecord
  <1>3. CASE CloseAccepted(s)
    <2>1. CompletedSafely(session[s].copy) \in CaseStatus
      BY <1>1, <1>3 DEF CloseAccepted, CompletedSafely, CaseStatus
    <2>2. Treated(session[s].selected)
      BY <1>3 DEF CloseAccepted, ReviewInv, CopyInv
    <2> QED
      BY <1>2, <1>3, <2>1, <2>2, SaveStep DEF CloseAccepted
  <1>4. CASE CancelCase(s)
    <2> DEFINE r == [session[s] EXCEPT !.pc = "rejectFact"]
    <2>1. /\ r \in SessionRecord /\ r.pc = "rejectFact"
          /\ r.selected = session[s].selected /\ r.copy = session[s].copy
      BY <1>1 DEF SessionRecord, Deciding
    <2>2. session' = [session EXCEPT ![s] = r] /\ session[s].pc = "rejectSave"
      BY <1>4 DEF CancelCase
    <2> HIDE DEF r
    <2> QED
      BY <1>4, <2>1, <2>2, SaveStep DEF CancelCase, CaseStatus
  <1>5. CASE SaveEdit(s)
    <2>1. session[s].copy = "COMPLETED" => Treated(session[s].selected)
      BY <1>5 DEF SaveEdit, ReviewInv, CopyInv
    <2>2. session[s].selected \in Cases \cup {None}
      BY <1>1 DEF SessionRecord
    <2> QED
      BY <1>1, <1>2, <1>5, <2>1, <2>2, SaveStep DEF SaveEdit
  <1> QED
    BY <1>3, <1>4, <1>5

-----------------------------------------------------------------------------
(* The theorems *)

LEMMA NextReview ==
    ASSUME ReviewInv, [Next]_vars
    PROVE  ReviewInv'
  <1>1. CASE UNCHANGED vars
    BY <1>1 DEF vars, directory, ReviewInv, TypeOK, ReferenceInv, ExtractionInv, Extraction, Stored,
        CopyInv, OwnerInv, CompletedCaseTreated, ForeignFactIsRelated, Treated
  <1>2. CASE Produce
    BY <1>2, PersistStep, ListAndSkipSteps, OpenSteps, LinkEvidenceStep DEF Produce
  <1>3. ASSUME NEW s \in Sessions, Decide(s) \/ Execute(s) \/ StorageError(s)
        PROVE  ReviewInv'
    BY <1>3, SelectStep, SessionOnlySteps, InsertOwnerStep, RelateStep, WriteSteps,
        RejectFactStep, SaveSteps DEF Decide, Execute
  <1> QED
    BY <1>1, <1>2, <1>3, CrashStep DEF Next

\* The rows, the selections and the copies stay within their types, and the invariant that
\* ties them together holds.
THEOREM ReviewInvariant == Spec => []ReviewInv
  <1>1. Init => ReviewInv
    BY InitReview
  <1>2. ReviewInv /\ [Next]_vars => ReviewInv'
    BY NextReview
  <1> QED
    BY <1>1, <1>2, PTL DEF Spec

THEOREM ReviewTypeCorrect == Spec => []TypeOK
  BY ReviewInvariant, PTL DEF ReviewInv

\* Whatever sessions race and wherever the process dies, a case closed as COMPLETED has had
\* its effect on the facts table: accepting writes the fact before it saves the case.
THEOREM CompletedCasesAreTreated == Spec => []CompletedCaseTreated
  BY ReviewInvariant, PTL DEF ReviewInv

\* Whatever sessions race and wherever the process dies, a fact recorded for an external
\* owner finds that owner related to the active entity.
THEOREM ForeignFactsAreRelated == Spec => []ForeignFactIsRelated
  BY ReviewInvariant, PTL DEF ReviewInv

-----------------------------------------------------------------------------
(* One session *)

Alone == \A s, t \in Sessions : s = t

\* what one session has selected is as open as it was loaded, but for the case it is rejecting
SoloInv ==
    \A s \in Sessions :
        /\ session[s].selected # None =>
              cases[session[s].selected].status = IF session[s].pc = "rejectFact" THEN "CANCELLED" ELSE "PENDING"
        /\ session[s].pc # "idle" => session[s].copy = "PENDING"

StoryInv == ReviewInv /\ SoloInv /\ FactsAndCasesAgree

\* Cases and facts point at each other, typed.
LEMMA StoryTypes ==
    ASSUME ReviewInv
    PROVE  /\ \A c \in Cases : cases[c].fact \in Facts \cup {None}
           /\ \A f \in Facts : facts[f].case \in Cases \cup {None}
           /\ \A f \in Facts : facts[f].status = "accepted" => facts[f].case \in Cases
           /\ \A s \in Sessions : session[s] \in SessionRecord /\ session[s].selected \in Cases \cup {None}
           /\ \A s \in Sessions : session[s].pc # "idle" => session[s].selected \in Cases
  <1>1. \A s \in Sessions : session[s] \in SessionRecord
    BY DEF ReviewInv, TypeOK
  <1> QED
    BY <1>1, NullRows DEF ReviewInv, TypeOK, ReferenceInv, CaseRow, FactRow, SessionRecord

\* A step of the session that writes nothing, and is not between two writes.
LEMMA StorySession ==
    ASSUME StoryInv, Alone, NEW s \in Sessions, NEW r \in SessionRecord,
           session' = [session EXCEPT ![s] = r], UNCHANGED <<facts, cases>>,
           session[s].pc \notin {"close", "rejectFact"}, r.pc \notin {"close", "rejectFact"},
           r.selected # None => cases[r.selected].status = "PENDING",
           r.pc # "idle" => r.copy = "PENDING"
    PROVE  SoloInv' /\ FactsAndCasesAgree'
  <1>1. \A q \in Sessions : q = s /\ session'[q] = r
    BY DEF Alone, StoryInv, ReviewInv, TypeOK
  <1>2. SoloInv'
    BY <1>1 DEF SoloInv
  <1>3. FactsAndCasesAgree'
    BY <1>1 DEF StoryInv, FactsAndCasesAgree
  <1> QED
    BY <1>2, <1>3

\* Selecting a case, beginning a decision and looking for its owner change the story of no fact.
LEMMA StoryQuietSteps ==
    ASSUME StoryInv, Alone, NEW s \in Sessions,
           \/ \E c \in Cases : Select(s, c)
           \/ Accept(s) \/ Reject(s) \/ Edit(s) \/ KeepActive(s) \/ FindOwner(s) \/ InsertOwner(s)
           \/ FindRelation(s) \/ Relate(s) \/ RelateRefused(s)
    PROVE  SoloInv' /\ FactsAndCasesAgree'
  <1>1. /\ session[s] \in SessionRecord
        /\ session[s].selected # None /\ session[s].pc # "rejectFact" =>
              cases[session[s].selected].status = "PENDING"
        /\ session[s].pc # "idle" => session[s].copy = "PENDING"
    BY StoryTypes DEF StoryInv, SoloInv
  <1>2. ASSUME NEW c \in Cases, Select(s, c) PROVE SoloInv' /\ FactsAndCasesAgree'
    <2>1. Waiting(c) \in SessionRecord /\ Waiting(c).pc = "idle" /\ Waiting(c).selected = c
      BY DEF Waiting, SessionRecord
    <2> QED
      BY <1>2, <2>1, StorySession DEF Select
  <1>3. ASSUME NEW pc \in {"lookup", "rejectSave", "editSave"}, NEW target \in {"self", "external"},
               Load(s, pc, target)
        PROVE  SoloInv' /\ FactsAndCasesAgree'
    <2> DEFINE r == [session[s] EXCEPT !.pc = pc, !.target = target, !.copy = cases[session[s].selected].status]
    <2>1. session[s].pc = "idle" /\ cases[session[s].selected].status = "PENDING" /\ session' = [session EXCEPT ![s] = r]
          /\ UNCHANGED <<facts, cases>>
      BY <1>1, <1>3 DEF Load
    <2>2. /\ r \in SessionRecord /\ r.pc = pc /\ r.selected = session[s].selected /\ r.copy = "PENDING"
      BY <1>1, <2>1 DEF SessionRecord, Deciding, CaseStatus
    <2> HIDE DEF r
    <2> QED
      BY <2>1, <2>2, StorySession
  <1>4. ASSUME NEW pc \in {"insertOwner", "lookupRelation", "relate", "write"}, NEW e \in Entities \cup {Self, None},
               session[s].pc \in {"lookup", "insertOwner", "lookupRelation", "relate"},
               Advance(s, pc, e), UNCHANGED <<facts, cases>>
        PROVE  SoloInv' /\ FactsAndCasesAgree'
    <2> DEFINE r == [session[s] EXCEPT !.pc = pc, !.owner = e]
    <2>1. session' = [session EXCEPT ![s] = r]
      BY <1>4 DEF Advance
    <2>2. r \in SessionRecord /\ r.pc = pc /\ r.selected = session[s].selected /\ r.copy = "PENDING"
      BY <1>1, <1>4 DEF SessionRecord, Deciding
    <2> HIDE DEF r
    <2> QED
      BY <1>1, <1>4, <2>1, <2>2, StorySession
  <1>5. CASE Accept(s)
    BY <1>3, <1>5, InputsAssumption DEF Accept
  <1>6. CASE Reject(s) \/ Edit(s)
    BY <1>3, <1>6 DEF Reject, Edit
  <1>7. CASE KeepActive(s)
    BY <1>4, <1>7 DEF KeepActive
  <1>8. owners \subseteq Entities /\ session[s].owner \in Entities \cup {Self, None}
    BY <1>1 DEF StoryInv, ReviewInv, TypeOK, SessionRecord
  <1>9. CASE FindOwner(s)
    BY <1>4, <1>8, <1>9 DEF FindOwner
  <1>10. CASE InsertOwner(s)
    BY <1>4, <1>8, <1>10 DEF InsertOwner
  <1>11. CASE FindRelation(s)
    BY <1>4, <1>8, <1>11 DEF FindRelation
  <1>12. CASE Relate(s)
    BY <1>4, <1>8, <1>12 DEF Relate
  <1>13. CASE RelateRefused(s)
    <2> DEFINE r == Waiting(session[s].selected)
    <2>1. r \in SessionRecord /\ r.pc = "idle" /\ r.selected = session[s].selected
      BY StoryTypes DEF Waiting, SessionRecord, StoryInv
    <2> HIDE DEF r
    <2> QED
      BY <1>1, <1>13, <2>1, StorySession DEF RelateRefused, r
  <1> QED
    BY <1>2, <1>5, <1>6, <1>7, <1>9, <1>10, <1>11, <1>12, <1>13

\* New facts are behind no case, and new cases are pending.
LEMMA StoryProducers ==
    ASSUME StoryInv, Produce
    PROVE  SoloInv' /\ FactsAndCasesAgree'
  <1>1. ASSUME NEW f \in Facts, PersistFact(f) PROVE SoloInv' /\ FactsAndCasesAgree'
    <2>1. /\ \A g \in Facts : facts'[g] = IF g = f THEN Extracted ELSE facts[g]
          /\ UNCHANGED <<cases, session>> /\ Extracted.status = "pending"
          /\ ~Stored(f) /\ facts[f].status = "absent"
      BY <1>1, NullRows DEF PersistFact, StoryInv, ReviewInv, TypeOK, Extracted, Stored
    <2>2. \A c \in Cases : cases[c].fact # f
      BY <2>1, IdsAssumption DEF StoryInv, ReviewInv, ExtractionInv, Extraction
    <2> QED
      BY <2>1, <2>2, StoryTypes DEF StoryInv, SoloInv, FactsAndCasesAgree
  <1>2. ASSUME UNCHANGED <<facts, cases, session>> PROVE SoloInv' /\ FactsAndCasesAgree'
    BY <1>2 DEF StoryInv, SoloInv, FactsAndCasesAgree
  <1>3. ASSUME NEW c \in Cases, NEW g \in Facts \cup {None}, cases[c] = NoCase,
               cases' = [cases EXCEPT ![c] = [status |-> "PENDING", fact |-> g]],
               UNCHANGED <<facts, session>>
        PROVE  SoloInv' /\ FactsAndCasesAgree'
    <2>1. /\ \A d \in Cases : d # c => cases'[d] = cases[d]
          /\ cases'[c].status = "PENDING" /\ cases[c].status = "absent" /\ cases[c].fact = None
      BY <1>3, NullRows DEF StoryInv, ReviewInv, TypeOK
    <2>2. \A s \in Sessions : session[s].selected # c
      BY <1>3, IdsAssumption DEF StoryInv, ReviewInv, ReferenceInv
    <2>3. SoloInv'
      BY <1>3, <2>1, <2>2, StoryTypes DEF StoryInv, SoloInv
    <2>4. c # None /\ None \notin Facts
      BY IdsAssumption
    <2>5. FactsAndCasesAgree'
      <3>1. ASSUME NEW d \in Cases, cases'[d].status = "CANCELLED", cases'[d].fact # None
            PROVE  \/ facts'[cases'[d].fact].status # "pending"
                   \/ \E s \in Sessions : session'[s].pc = "rejectFact" /\ session'[s].selected = d
        BY <1>3, <2>1, <3>1 DEF StoryInv, FactsAndCasesAgree
      <3>2. ASSUME NEW f \in Facts, facts'[f].status = "rejected"
            PROVE  \E d \in Cases : cases'[d].fact = f /\ cases'[d].status = "CANCELLED"
        BY <1>3, <2>1, <2>4, <3>2 DEF StoryInv, FactsAndCasesAgree
      <3>3. ASSUME NEW f \in Facts, facts'[f].status = "accepted"
            PROVE  \/ cases'[facts'[f].case].status = "COMPLETED"
                   \/ \E s \in Sessions : session'[s].pc = "close" /\ session'[s].selected = facts'[f].case
        <4>1. facts[f].case \in Cases
          BY <1>3, <3>3, StoryTypes DEF StoryInv
        <4> QED
          BY <1>3, <2>1, <3>3, <4>1 DEF StoryInv, FactsAndCasesAgree
      <3> QED
        BY <3>1, <3>2, <3>3 DEF FactsAndCasesAgree
    <2> QED
      BY <2>3, <2>5
  <1>4. ASSUME NEW u \in Uploads, NEW f \in Facts, NEW c \in Cases, OpenCase(u, f, c)
        PROVE  SoloInv' /\ FactsAndCasesAgree'
    BY <1>3, <1>4 DEF OpenCase
  <1>5. ASSUME NEW c \in Cases, OpenClaim(c) PROVE SoloInv' /\ FactsAndCasesAgree'
    BY <1>3, <1>5 DEF OpenClaim
  <1>6. ASSUME NEW f \in Facts, LinkEvidence(f) PROVE UNCHANGED <<facts, cases, session>>
    BY <1>6 DEF LinkEvidence
  <1>7. ASSUME NEW u \in Uploads, ListPending(u) \/ \E f \in Facts : SkipFact(u, f)
        PROVE  UNCHANGED <<facts, cases, session>>
    BY <1>7 DEF ListPending, SkipFact
  <1> QED
    BY <1>1, <1>2, <1>4, <1>5, <1>6, <1>7 DEF Produce

\* An accepted fact: its case is the one the session closes next.
LEMMA StoryWrites ==
    ASSUME StoryInv, Alone, NEW s \in Sessions, UpdateFact(s) \/ \E f \in Facts : InsertFact(s, f)
    PROVE  SoloInv' /\ FactsAndCasesAgree'
  <1> DEFINE c == session[s].selected
  <1>1. /\ session[s].pc = "write" /\ UNCHANGED cases /\ Advance(s, "close", session[s].owner)
        /\ c \in Cases /\ cases[c].status = "PENDING" /\ session[s].copy = "PENDING"
        /\ session[s] \in SessionRecord /\ c # None
    BY StoryTypes, IdsAssumption DEF StoryInv, SoloInv, UpdateFact, InsertFact
  <1>2. /\ session'[s].pc = "close" /\ session'[s].selected = c /\ session'[s].copy = "PENDING"
        /\ \A q \in Sessions : q = s
    BY <1>1 DEF Advance, StoryInv, ReviewInv, TypeOK, SessionRecord, Alone
  <1>3. PICK f \in Facts :
          /\ \A g \in Facts \ {f} : facts'[g] = facts[g]
          /\ facts'[f].status = "accepted" /\ facts'[f].case = c
    <2>1. CASE UpdateFact(s)
      BY <1>1, <2>1, StoryTypes DEF UpdateFact, Backed, StoryInv, ReviewInv, TypeOK, Reviewed
    <2>2. CASE \E f \in Facts : InsertFact(s, f)
      BY <2>2 DEF InsertFact, StoryInv, ReviewInv, TypeOK, Reviewed
    <2> QED
      BY <2>1, <2>2
  <1>4. SoloInv'
    BY <1>1, <1>2 DEF SoloInv
  <1>5. FactsAndCasesAgree'
    BY <1>1, <1>2, <1>3, StoryTypes DEF StoryInv, FactsAndCasesAgree
  <1> QED
    BY <1>4, <1>5

\* Saving the case the session has selected.
LEMMA StorySaves ==
    ASSUME StoryInv, Alone, NEW s \in Sessions, CloseAccepted(s) \/ CancelCase(s) \/ SaveEdit(s)
    PROVE  SoloInv' /\ FactsAndCasesAgree'
  <1> DEFINE c == session[s].selected
  <1>1. /\ c \in Cases /\ c # None /\ cases[c].status = "PENDING" /\ session[s].copy = "PENDING"
        /\ session[s] \in SessionRecord /\ session[s].pc \in {"close", "rejectSave", "editSave"}
        /\ UNCHANGED facts /\ \A q \in Sessions : q = s
    BY StoryTypes, IdsAssumption
    DEF StoryInv, SoloInv, CloseAccepted, CancelCase, SaveEdit, Alone
  <1>2. ASSUME NEW status, SaveCase(s, status)
        PROVE  /\ \A d \in Cases \ {c} : cases'[d] = cases[d]
               /\ cases'[c].status = status
               /\ \A d \in Cases : cases'[d].fact = cases[d].fact
    <2>1. cases[c] \in CaseRow
      BY <1>1 DEF StoryInv, ReviewInv, TypeOK, ReferenceInv
    <2> QED
      BY <1>1, <1>2, <2>1 DEF SaveCase, StoryInv, ReviewInv, TypeOK, CaseRow
  <1>3. /\ Waiting(None).pc = "idle" /\ Waiting(None).selected = None
        /\ Waiting(c).pc = "idle" /\ Waiting(c).selected = c
    BY DEF Waiting
  <1>4. CASE CloseAccepted(s)
    <2>1. SaveCase(s, "COMPLETED") /\ session[s].pc = "close" /\ session'[s] = Waiting(None)
      BY <1>1, <1>4 DEF CloseAccepted, CompletedSafely, IsOpen, StoryInv, ReviewInv, TypeOK
    <2>2. SoloInv'
      BY <1>1, <1>3, <2>1 DEF SoloInv
    <2>3. \A d \in Cases : cases[d].status \in {"CANCELLED", "COMPLETED"} => d # c /\ cases'[d] = cases[d]
      BY <1>1, <1>2, <2>1
    <2>4. FactsAndCasesAgree'
      BY <1>1, <1>2, <2>1, <2>3, StoryTypes DEF StoryInv, FactsAndCasesAgree
    <2> QED
      BY <2>2, <2>4
  <1>5. CASE CancelCase(s)
    <2>1. SaveCase(s, "CANCELLED") /\ session[s].pc = "rejectSave"
          /\ session'[s].pc = "rejectFact" /\ session'[s].selected = c /\ session'[s].copy = "PENDING"
      BY <1>1, <1>5 DEF CancelCase, StoryInv, ReviewInv, TypeOK, SessionRecord
    <2>2. SoloInv'
      BY <1>1, <1>2, <2>1 DEF SoloInv
    <2>3. \A d \in Cases : cases[d].status \in {"CANCELLED", "COMPLETED"} => d # c /\ cases'[d] = cases[d]
      BY <1>1, <1>2, <2>1
    <2>4. FactsAndCasesAgree'
      BY <1>1, <1>2, <2>1, <2>3, StoryTypes DEF StoryInv, FactsAndCasesAgree
    <2> QED
      BY <2>2, <2>4
  <1>6. CASE SaveEdit(s)
    <2>1. SaveCase(s, "PENDING") /\ session[s].pc = "editSave" /\ session'[s] = Waiting(c)
      BY <1>1, <1>6 DEF SaveEdit, StoryInv, ReviewInv, TypeOK
    <2>2. SoloInv'
      BY <1>1, <1>2, <1>3, <2>1 DEF SoloInv
    <2>3. \A d \in Cases : cases'[d].status = cases[d].status /\ cases'[d].fact = cases[d].fact
      BY <1>1, <1>2, <2>1
    <2>4. FactsAndCasesAgree'
      BY <1>1, <2>1, <2>3, StoryTypes DEF StoryInv, FactsAndCasesAgree
    <2> QED
      BY <2>2, <2>4
  <1> QED
    BY <1>4, <1>5, <1>6

\* The second half of a rejection gives the cancelled case its rejected fact.
LEMMA StoryRejects ==
    ASSUME StoryInv, Alone, NEW s \in Sessions, RejectFact(s)
    PROVE  SoloInv' /\ FactsAndCasesAgree'
  <1> DEFINE c == session[s].selected
  <1>1. /\ c \in Cases /\ c # None /\ cases[c].status = "CANCELLED" /\ session[s].pc = "rejectFact"
        /\ UNCHANGED cases /\ \A q \in Sessions : q = s
    BY StoryTypes, IdsAssumption DEF StoryInv, SoloInv, RejectFact, Alone
  <1>2. session'[s].pc = "idle" /\ session'[s].selected = None
    BY DEF RejectFact, StoryInv, ReviewInv, TypeOK, Waiting
  <1>3. SoloInv'
    BY <1>1, <1>2 DEF SoloInv
  <1>4. /\ \A g \in Facts : g # cases[c].fact => facts'[g] = facts[g]
        /\ cases[c].fact # None => facts'[cases[c].fact].status = "rejected"
    <2>1. cases[c].fact # None => cases[c].fact \in Facts /\ Stored(cases[c].fact) /\ facts[cases[c].fact] \in FactRow
      BY <1>1, StoryTypes DEF StoryInv, ReviewInv, ExtractionInv, Extraction, TypeOK, Stored
    <2> QED
      BY <2>1 DEF RejectFact, FactRow
  <1>5. ASSUME NEW d \in Cases, cases[d].status = "CANCELLED", cases[d].fact # None
        PROVE  facts'[cases[d].fact].status # "pending"
    <2>1. CASE cases[d].fact = cases[c].fact
      BY <1>4, <1>5, <2>1
    <2>2. CASE cases[d].fact # cases[c].fact
      <3>1. facts'[cases[d].fact] = facts[cases[d].fact] /\ d # c
        BY <1>4, <1>5, <2>2, StoryTypes DEF StoryInv
      <3> QED
        BY <1>1, <1>5, <3>1 DEF StoryInv, FactsAndCasesAgree
    <2> QED
      BY <2>1, <2>2
  <1>6. ASSUME NEW f \in Facts, facts'[f].status = "rejected"
        PROVE  \E d \in Cases : cases[d].fact = f /\ cases[d].status = "CANCELLED"
    BY <1>1, <1>4, <1>6 DEF StoryInv, FactsAndCasesAgree
  <1>7. ASSUME NEW f \in Facts, facts'[f].status = "accepted"
        PROVE  cases[facts'[f].case].status = "COMPLETED"
    <2>1. facts'[f] = facts[f]
      BY <1>4, <1>7, IdsAssumption
    <2> QED
      BY <1>1, <1>7, <2>1 DEF StoryInv, FactsAndCasesAgree
  <1> QED
    BY <1>1, <1>3, <1>5, <1>6, <1>7 DEF FactsAndCasesAgree

\* With one session and no failing statement, for any number of cases, facts and entities: no
\* pending fact hides behind a cancelled case, a rejected fact has its cancelled case and an
\* accepted one its completed case, except the case the session is between its two writes for.
THEOREM OneSessionAgrees ==
    ASSUME Alone, Faults = {}
    PROVE  Spec => []FactsAndCasesAgree
  <1>1. Init => StoryInv
    <2> SUFFICES ASSUME Init PROVE StoryInv
      OBVIOUS
    <2>1. \A s \in Sessions : session[s].pc = "idle" /\ session[s].selected = None
      BY DEF Init, Waiting
    <2> QED
      BY <2>1, InitReview, NullRows DEF Init, StoryInv, SoloInv, FactsAndCasesAgree
  <1>2. StoryInv /\ [Next]_vars => StoryInv'
    <2> SUFFICES ASSUME StoryInv, [Next]_vars PROVE StoryInv'
      OBVIOUS
    <2>1. ReviewInv'
      BY NextReview DEF StoryInv
    <2>2. CASE UNCHANGED vars
      BY <2>1, <2>2 DEF vars, StoryInv, SoloInv, FactsAndCasesAgree
    <2>3. CASE Produce
      BY <2>1, <2>3, StoryProducers DEF StoryInv
    <2>4. ASSUME NEW s \in Sessions, Decide(s) \/ Execute(s) PROVE StoryInv'
      BY <2>1, <2>4, StoryQuietSteps, StoryWrites, StorySaves, StoryRejects DEF StoryInv, Decide, Execute
    <2> QED
      BY <2>2, <2>3, <2>4 DEF Next, Crash, StorageError
  <1>3. StoryInv => FactsAndCasesAgree
    BY DEF StoryInv
  <1> QED
    BY <1>1, <1>2, <1>3, PTL DEF Spec
=============================================================================
