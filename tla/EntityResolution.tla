--------------------------- MODULE EntityResolution ---------------------------
(***************************************************************************)
(* Which candidates are one person: processing/entity_resolution and the   *)
(* pipeline stage that calls it.  The stage refuses candidates of several  *)
(* entities; the resolver itself compares them, merges all of them when    *)
(* they agree well enough, and keeps the strongest one otherwise.          *)
(*                                                                         *)
(* Candidates are numbered in the order they come in, entities in the      *)
(* order of their first candidate.  Ratios and weights are percentages.    *)
(***************************************************************************)
EXTENDS Naturals, Sequences, FiniteSetsExt

CONSTANT MaxCandidates      \* bound: candidates of one resolution
ASSUME ResolutionAssumption == MaxCandidates \in Nat

VARIABLES
    crowd,      \* the candidates of the extraction artifacts, one after the other
    resolution  \* what became of them

resolutionVars == <<crowd, resolution>>

FactTypes == {"tax_id", "surname", "date_of_birth"}
Readings == {1, 2}          \* the values of a type
Confidences == {1, 2}

Unresolved == [pc |-> "open", ids |-> {}, values |-> {}, conflicts |-> {}, competing |-> {}, score |-> 0]
ResolutionInit == crowd = <<>> /\ resolution = Unresolved

Entities == {crowd[i].entity : i \in DOMAIN crowd}

-----------------------------------------------------------------------------
(* Clusters: the candidates of one entity *)

FactsFor(e, t) == {i \in DOMAIN crowd : crowd[i].entity = e /\ crowd[i].type = t}
TypesIn(e) == {crowd[i].type : i \in {j \in DOMAIN crowd : crowd[j].entity = e}}
SharedTypes(a, b) == TypesIn(a) \cap TypesIn(b)

\* the first of the most confident candidates
MostConfident(ids) ==
    CHOOSE i \in ids : \A j \in ids : IF j < i THEN crowd[j].confidence < crowd[i].confidence
                                               ELSE crowd[j].confidence <= crowd[i].confidence
BestFact(e, t) == MostConfident(FactsFor(e, t))
BestReading(e, t) == crowd[BestFact(e, t)].value

IdsOf(clusters) == {i \in DOMAIN crowd : crowd[i].entity \in clusters}
TotalConfidence(e) ==
    LET UpTo[n \in 0..Len(crowd)] ==
            IF n = 0 THEN 0 ELSE UpTo[n - 1] + (IF crowd[n].entity = e THEN crowd[n].confidence ELSE 0)
    IN  UpTo[Len(crowd)]
Primary ==
    CHOOSE e \in Entities : \A f \in Entities : IF f < e THEN TotalConfidence(f) < TotalConfidence(e)
                                                         ELSE TotalConfidence(f) <= TotalConfidence(e)

\* for every type the best reading, over several clusters the first of the best
CanonicalValues(clusters) ==
    {<<t, crowd[MostConfident(UNION {{BestFact(e, t)} : e \in {c \in clusters : t \in TypesIn(c)}})].value>>
        : t \in UNION {TypesIn(e) : e \in clusters}}

-----------------------------------------------------------------------------
(* Matches *)

StrategyFor(type) ==
    CASE type \in {"ssn", "tax_id", "iban", "passport_number", "national_id"} -> "identifier"
      [] type \in {"birth_date", "issue_date", "expiry_date"} -> "date"
      [] OTHER -> "fuzzy"
HardConflictStrategies == {"identifier", "date"}

WeightFor(type) ==
    CASE type \in {"ssn", "tax_id"} -> 100
      [] type = "iban" -> 95
      [] type = "birth_date" -> 80
      [] type = "full_name" -> 70
      [] OTHER -> 50

\* two dates have half of their digits in common, two surnames read from similar letters more than that
FuzzyRatio(type, a, b) ==
    IF a = b THEN 100 ELSE IF type = "date_of_birth" THEN 50 ELSE 76

FuzzyThreshold == 60
MatchConfidence(type, a, b) ==
    IF StrategyFor(type) \in HardConflictStrategies
    THEN IF a = b THEN 100 ELSE 0
    ELSE IF FuzzyRatio(type, a, b) >= FuzzyThreshold THEN FuzzyRatio(type, a, b) ELSE FuzzyRatio(type, a, b) \div 2

SignalOf(confidence) ==
    CASE confidence >= 90 -> "strong"
      [] confidence >= 70 /\ confidence < 90 -> "moderate"
      [] confidence >= 40 /\ confidence < 70 -> "weak"
      [] confidence < 40 -> "unknown"
SignalFor(type, a, b) ==
    IF StrategyFor(type) \in HardConflictStrategies
    THEN IF a = b THEN "strong" ELSE "conflict"
    ELSE SignalOf(MatchConfidence(type, a, b))

BuildMatch(a, b, t) ==
    [type |-> t, facts |-> {BestFact(a, t), BestFact(b, t)},
     confidence |-> MatchConfidence(t, BestReading(a, t), BestReading(b, t)),
     signal |-> SignalFor(t, BestReading(a, t), BestReading(b, t))]

\* Bug variant: each entity is compared with the next one only.
MatchesOfNeighbours(clusters) ==
    UNION {{BuildMatch(p[1], p[2], t) : t \in SharedTypes(p[1], p[2])} : p \in {q \in clusters \X clusters : q[2] = q[1] + 1}}

AllMatches(clusters) ==
    UNION {{BuildMatch(p[1], p[2], t) : t \in SharedTypes(p[1], p[2])} : p \in {q \in clusters \X clusters : q[1] < q[2]}}

ConflictMatches(matches) == {m \in matches : m.signal = "conflict"}
HasHardConflict(matches) == \E m \in ConflictMatches(matches) : StrategyFor(m.type) \in HardConflictStrategies

\* the mean of the confidences, weighted by type
OverallScore(matches) ==
    LET total == MapThenSumSet(LAMBDA m : WeightFor(m.type), matches)
    IN  IF total = 0 THEN 0
        ELSE MapThenSumSet(LAMBDA m : m.confidence * WeightFor(m.type), matches) \div total

-----------------------------------------------------------------------------
(* Resolution *)

MergeThreshold == 65

ConflictFactTypes(conflicting) == {m.type : m \in conflicting}
ConflictDetails(conflicting) ==
    {<<t, UNION {m.facts : m \in {x \in conflicting : x.type = t}}>> : t \in ConflictFactTypes(conflicting)}

ResolutionOf(clusters, conflicting, score) ==
    [pc |-> "resolved", ids |-> IdsOf(clusters), values |-> CanonicalValues(clusters),
     conflicts |-> ConflictFactTypes(conflicting), competing |-> ConflictDetails(conflicting), score |-> score]

ResolveSingleCluster(e) == ResolutionOf({e}, {}, 100)
ResolveWithConflict(matches) == ResolutionOf({Primary}, ConflictMatches(matches), OverallScore(matches))

\* one person, the strongest of several in conflict or too far apart, or all of them as one
Resolved ==
    LET matches == AllMatches(Entities) IN
    IF Cardinality(Entities) = 1 THEN ResolveSingleCluster(1)
    ELSE IF HasHardConflict(matches) THEN ResolveWithConflict(matches)
    ELSE IF OverallScore(matches) < MergeThreshold THEN ResolveSingleCluster(Primary)
    ELSE ResolutionOf(Entities, {}, OverallScore(matches))

-----------------------------------------------------------------------------
(* Actions *)

Candidates(entities) == [entity : entities, type : FactTypes, value : Readings, confidence : Confidences]

\* extraction: the candidates of one artifact after the other, an artifact is about one entity
AddCandidate ==
    /\ resolution = Unresolved /\ Len(crowd) < MaxCandidates
    /\ \E c \in Candidates(IF crowd = <<>> THEN {1} ELSE {crowd[Len(crowd)].entity, crowd[Len(crowd)].entity + 1}) :
          \* the readings of a type are numbered as they come
          /\ c.value = 2 => \E i \in DOMAIN crowd : crowd[i].type = c.type /\ crowd[i].value = 1
          /\ crowd' = Append(crowd, c)
    /\ UNCHANGED resolution

\* the stage: nothing to resolve, or the candidates of several entities
FindNoCandidates ==
    /\ resolution = Unresolved /\ crowd = <<>>
    /\ resolution' = [Unresolved EXCEPT !.pc = "warned"]
    /\ UNCHANGED crowd
RefuseSeveralEntities ==
    /\ resolution = Unresolved /\ Cardinality(Entities) > 1
    /\ resolution' = [Unresolved EXCEPT !.pc = "refused"]
    /\ UNCHANGED crowd
ResolveForJob ==
    /\ resolution = Unresolved /\ Cardinality(Entities) = 1
    /\ resolution' = Resolved
    /\ UNCHANGED crowd

\* EntityResolutionService.resolve, called without the stage
ResolveFacts ==
    /\ resolution = Unresolved /\ crowd # <<>>
    /\ resolution' = Resolved
    /\ UNCHANGED crowd

ResolutionNext == AddCandidate \/ FindNoCandidates \/ RefuseSeveralEntities \/ ResolveForJob \/ ResolveFacts
ResolutionSpec == ResolutionInit /\ [][ResolutionNext]_resolutionVars

-----------------------------------------------------------------------------
(* Properties *)

ResolutionTypeOK ==
    /\ crowd \in Seq(Candidates(1..MaxCandidates)) /\ Len(crowd) <= MaxCandidates
    /\ resolution.pc \in {"open", "warned", "refused", "resolved"}
    /\ resolution.ids \subseteq DOMAIN crowd
    /\ resolution.score \in 0..100

\* Candidates that came in under several entities become one person only if the
\* entities agree on every identifier that two of them show, however many others
\* stand between them and however alike their names are; otherwise the candidates
\* of one entity are kept, and a value always comes from a candidate that was kept.
MergedEntitiesAgree ==
    LET merged == {crowd[i].entity : i \in resolution.ids} IN
    /\ resolution.pc = "resolved" =>
          \/ Cardinality(merged) = 1
          \/ \A a, b \in merged : \A t \in SharedTypes(a, b) :
                StrategyFor(t) \in HardConflictStrategies => BestReading(a, t) = BestReading(b, t)
    /\ \A shown \in resolution.values : \E i \in resolution.ids : shown = <<crowd[i].type, crowd[i].value>>
=============================================================================
