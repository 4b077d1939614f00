----------------------------- MODULE ProfileFields -----------------------------
(***************************************************************************)
(* The profile of one entity: ui/viewmodels/profile_vm.py behind           *)
(* ui/pages/profile.py.  Sessions build it from accepted facts, field by   *)
(* field and every statement committed by itself, while others edit, add,  *)
(* delete and clear it by hand from the rows their page showed.            *)
(*                                                                         *)
(* Facts are numbered in the order of their creation, the order in which   *)
(* they are listed; a fact's number stands for its value.                  *)
(***************************************************************************)
EXTENDS Naturals, Sequences, FiniteSets, Functions, Listings

CONSTANTS
    Viewers,        \* the sessions
    ProfileNames,   \* the names of fields in play
    AcceptableFacts,\* 1..n, the facts the review may accept
    NameOfFact,     \* the field of a fact
    MaxFieldIds     \* bound: rows inserted

ASSUME ViewerAssumption ==
    /\ AcceptableFacts \subseteq Nat \ {0} /\ IsFiniteSet(AcceptableFacts)
    /\ NameOfFact \in [AcceptableFacts -> ProfileNames]
    /\ MaxFieldIds \in Nat

VARIABLES
    accepted,       \* facts table: the accepted facts
    profile,        \* profile_fields: one row per name at most
    lastFieldId,    \* the ids given out
    viewer          \* the sessions

profileVars == <<accepted, profile, lastFieldId, viewer>>

Typed == 0          \* a value entered by hand
NoField == [id |-> 0, value |-> Typed, source |-> "none"]
ViewerAtRest == [pc |-> "idle", facts |-> <<>>, done |-> 0, found |-> FALSE,
                 shown |-> [n \in ProfileNames |-> 0],
                 touched |-> {}]    \* names other sessions changed since the build began

ProfileInit ==
    /\ accepted = {}
    /\ profile = [n \in ProfileNames |-> NoField]
    /\ lastFieldId = 0
    /\ viewer = [s \in Viewers |-> ViewerAtRest]

HasField(n) == profile[n].id # 0
IdsInTable == [n \in ProfileNames |-> profile[n].id]

\* the row that is next in a build
NextFact(s) == viewer[s].facts[viewer[s].done + 1]
NextName(s) == NameOfFact[NextFact(s)]

\* session s goes to `new`, and the names it changed are noted for the others
Proceed(s, new, names) ==
    viewer' = [v \in Viewers |-> IF v = s THEN new ELSE [viewer[v] EXCEPT !.touched = @ \cup names]]

\* st.rerun: the page shows the table as it is
Rerun(s, names) ==
    Proceed(s, [viewer[s] EXCEPT !.shown = [n \in ProfileNames |-> profile'[n].id]], names)

-----------------------------------------------------------------------------
(* The review, and the page *)

AcceptForProfile ==
    /\ \E f \in AcceptableFacts \ accepted : accepted' = accepted \cup {f}
    /\ UNCHANGED <<profile, lastFieldId, viewer>>

LoadProfile(s) ==
    /\ viewer[s].pc = "idle" /\ viewer[s].shown # IdsInTable
    /\ viewer' = [viewer EXCEPT ![s].shown = IdsInTable]
    /\ UNCHANGED <<accepted, profile, lastFieldId>>

-----------------------------------------------------------------------------
(* build_from_accepted_facts *)

\* ORDER BY created_at; nothing accepted: the build is refused and nothing happens
ListAcceptedFacts(s) ==
    /\ viewer[s].pc = "idle" /\ accepted # {}
    /\ viewer' = [viewer EXCEPT ![s] = [@ EXCEPT !.pc = "look", !.done = 0, !.touched = {},
                                                 !.facts = InOrder(accepted)]]
    /\ UNCHANGED <<accepted, profile, lastFieldId>>

\* Bug variant: the look-up never finds a field.
LookForNone(s) ==
    /\ viewer[s].pc = "look"
    /\ viewer' = [viewer EXCEPT ![s].pc = "write", ![s].found = FALSE]
    /\ UNCHANGED <<accepted, profile, lastFieldId>>

LookForField(s) ==
    /\ viewer[s].pc = "look"
    /\ viewer' = [viewer EXCEPT ![s].pc = "write", ![s].found = HasField(NextName(s))]
    /\ UNCHANGED <<accepted, profile, lastFieldId>>

Written(s) ==
    [viewer[s] EXCEPT !.done = @ + 1, !.pc = IF viewer[s].done + 1 = Len(viewer[s].facts) THEN "built" ELSE "look"]

InsertBuiltField(s) ==
    /\ viewer[s].pc = "write" /\ ~viewer[s].found /\ ~HasField(NextName(s))
    /\ lastFieldId < MaxFieldIds
    /\ profile' = [profile EXCEPT ![NextName(s)] = [id |-> lastFieldId + 1, value |-> NextFact(s), source |-> "accepted_fact"]]
    /\ lastFieldId' = lastFieldId + 1
    /\ Proceed(s, Written(s), {NextName(s)})
    /\ UNCHANGED accepted

\* somebody else inserted it: UNIQUE raises; rollback finds nothing to take back
RefuseBuiltField(s) ==
    /\ viewer[s].pc = "write" /\ ~viewer[s].found /\ HasField(NextName(s))
    /\ viewer' = [viewer EXCEPT ![s].pc = "failed"]
    /\ UNCHANGED <<accepted, profile, lastFieldId>>

\* an UPDATE that meets no row is counted all the same
UpdateBuiltField(s) ==
    /\ viewer[s].pc = "write" /\ viewer[s].found
    /\ profile' = IF HasField(NextName(s))
                  THEN [profile EXCEPT ![NextName(s)] = [@ EXCEPT !.value = NextFact(s), !.source = "accepted_fact"]]
                  ELSE profile
    /\ Proceed(s, Written(s), {NextName(s)})
    /\ UNCHANGED <<accepted, lastFieldId>>

\* the result is shown; after a success the page reruns
ReportBuild(s) ==
    /\ viewer[s].pc \in {"built", "failed"}
    /\ viewer' = [viewer EXCEPT ![s] = [ViewerAtRest EXCEPT !.shown =
                     IF viewer[s].pc = "built" THEN IdsInTable ELSE viewer[s].shown]]
    /\ UNCHANGED <<accepted, profile, lastFieldId>>

-----------------------------------------------------------------------------
(* By hand *)

\* one statement: INSERT ... ON CONFLICT DO UPDATE
AddProfileField(s, n) ==
    /\ viewer[s].pc = "idle"
    /\ IF HasField(n)
       THEN /\ profile' = [profile EXCEPT ![n] = [@ EXCEPT !.value = Typed, !.source = "manual"]]
            /\ UNCHANGED lastFieldId
       ELSE /\ lastFieldId < MaxFieldIds
            /\ profile' = [profile EXCEPT ![n] = [id |-> lastFieldId + 1, value |-> Typed, source |-> "manual"]]
            /\ lastFieldId' = lastFieldId + 1
    /\ Rerun(s, {n})
    /\ UNCHANGED accepted

\* the names of the rows with an id
NamesWithId(id) == {n \in ProfileNames : HasField(n) /\ profile[n].id = id}

\* Save: the source is the one of the row unless another is chosen; an id that is gone changes nothing
UpdateProfileField(s, n, source) ==
    LET names == NamesWithId(viewer[s].shown[n]) IN
    /\ viewer[s].pc = "idle" /\ viewer[s].shown[n] # 0
    /\ profile' = [m \in ProfileNames |-> IF m \in names THEN [profile[m] EXCEPT !.value = Typed, !.source = source] ELSE profile[m]]
    /\ Rerun(s, names)
    /\ UNCHANGED <<accepted, lastFieldId>>

DeleteProfileField(s, n) ==
    LET names == NamesWithId(viewer[s].shown[n]) IN
    /\ viewer[s].pc = "idle" /\ viewer[s].shown[n] # 0
    /\ profile' = [m \in ProfileNames |-> IF m \in names THEN NoField ELSE profile[m]]
    /\ Rerun(s, names)
    /\ UNCHANGED <<accepted, lastFieldId>>

ClearProfile(s) ==
    /\ viewer[s].pc = "idle" /\ \E n \in ProfileNames : HasField(n)
    /\ profile' = [n \in ProfileNames |-> NoField]
    /\ Rerun(s, ProfileNames)
    /\ UNCHANGED <<accepted, lastFieldId>>

ProfileNext ==
    \/ AcceptForProfile
    \/ \E s \in Viewers :
          \/ LoadProfile(s) \/ ListAcceptedFacts(s) \/ LookForField(s)
          \/ InsertBuiltField(s) \/ RefuseBuiltField(s) \/ UpdateBuiltField(s) \/ ReportBuild(s)
          \/ ClearProfile(s)
          \/ \E n \in ProfileNames :
                \/ AddProfileField(s, n) \/ DeleteProfileField(s, n)
                \/ \E source \in {"accepted_fact", "manual"} : UpdateProfileField(s, n, source)

ProfileSpec == ProfileInit /\ [][ProfileNext]_profileVars

-----------------------------------------------------------------------------
(* Properties *)

ProfileTypeOK ==
    /\ accepted \subseteq AcceptableFacts
    /\ profile \in [ProfileNames -> [id : 0..MaxFieldIds, value : AcceptableFacts \cup {Typed},
                                     source : {"none", "accepted_fact", "manual"}]]
    /\ \A s \in Viewers : viewer[s].pc \in {"idle", "look", "write", "built", "failed"}

\* The newest of the facts a build read for a name.
NewestFor(s, n) == {f \in Range(viewer[s].facts) : NameOfFact[f] = n /\ \A g \in Range(viewer[s].facts) : NameOfFact[g] = n => g <= f}

\* What a build reports is so: after a success every name with a fact shows its newest
\* fact, marked as accepted, unless another session changed that very field
\* during the build; and a build only fails because another session did.
BuildsTellTheTruth ==
    \A s \in Viewers :
        /\ viewer[s].pc = "built" =>
              \A n \in ProfileNames \ viewer[s].touched : \A f \in NewestFor(s, n) :
                 profile[n].value = f /\ profile[n].source = "accepted_fact"
        /\ viewer[s].pc = "failed" => NextName(s) \in viewer[s].touched
=============================================================================
