---------------------------- MODULE StoreProofs -----------------------------
(***************************************************************************)
(* Proofs about what the program keeps: the noise queue, the cases of the  *)
(* in-memory review service, the audit log, the facts of a document, the   *)
(* migration of the old tables, the files of a transaction and the         *)
(* artifacts of a pipeline job.  Each part states its inductive invariant, *)
(* one lemma per group of actions, and its theorem.                        *)
(***************************************************************************)
EXTENDS NoiseQueue, ReviewDesk, AuditLog, FactStore, SchemaMigration, FileTransaction, PipelineArtifacts,
    NumberLemmas

-----------------------------------------------------------------------------
(* Noise queue *)

NoiseInv == NoiseTypeOK /\ ProcessingIsAttended

\* UPDATE and DELETE change the status of one item, or nothing.
LEMMA UpdateChangesOne ==
    ASSUME NoiseTypeOK, NEW i \in Items, NEW status \in NoiseStatus \cup {"deleted"}, UpdateStatus(i, status)
    PROVE  /\ noise' \in [Items -> NoiseStatus \cup {"unborn", "deleted"}]
           /\ noise'[i] # noise[i] => noise'[i] = status
           /\ \A j \in Items : j # i => noise'[j] = noise[j]
  BY DEF NoiseTypeOK, NoiseStatus, UpdateStatus, InTable

\* A session that goes on touches its own place only.
LEMMA TurnMovesOne ==
    ASSUME NoiseTypeOK, NEW p \in Pages, NEW pc \in PagePc, Turn(p, pc)
    PROVE  /\ page' \in [Pages -> PageRecord]
           /\ page'[p].pc = pc /\ page'[p].item = page[p].item
           /\ \A q \in Pages : q # p => page'[q] = page[q]
  BY DEF NoiseTypeOK, PageRecord, Turn

\* What a session of the noise page carries, typed.
LEMMA NoisePageTypes ==
    ASSUME NoiseTypeOK, NEW p \in Pages
    PROVE  page[p] \in PageRecord /\ page[p].item \in Items
  BY DEF NoiseTypeOK, PageRecord

\* A session at work gets an answer, or inserts its cases, and stays at work.
LEMMA WorkGoesOn ==
    ASSUME NoiseTypeOK, NEW p \in Pages, NEW pc \in {"insert", "promote", "fail"}, NEW found \in SUBSET Values,
           page' = [page EXCEPT ![p].pc = pc, ![p].found = found]
    PROVE  /\ page' \in [Pages -> PageRecord]
           /\ \A q \in Pages : q # p => page'[q] = page[q]
           /\ \A i \in Items : AtWork(p, i) => AtWork(p, i)'
  <1> DEFINE record == [page[p] EXCEPT !.pc = pc, !.found = found]
  <1>1. /\ record \in PageRecord
        /\ record.item = page[p].item /\ record.pc = pc
    BY NoisePageTypes DEF PageRecord, PagePc
  <1>2. page' = [page EXCEPT ![p] = record]
    BY DEF NoiseTypeOK
  <1> HIDE DEF record
  <1> QED
    BY <1>1, <1>2 DEF NoiseTypeOK, AtWork

\* A session that does not leave its work keeps what it attends, and an item whose status does
\* not turn to processing stays attended.
LEMMA StillAttended ==
    ASSUME NoiseInv, NEW p \in Pages,
           \A q \in Pages : q # p => page'[q] = page[q],
           \A i \in Items : AtWork(p, i) => AtWork(p, i)',
           \A i \in Items : noise'[i] = "processing" => noise[i] = "processing"
    PROVE  ProcessingIsAttended'
  BY DEF NoiseInv, ProcessingIsAttended, AtWork

\* Every step of the sessions keeps the invariant.
LEMMA NoisePreserved == NoiseInv /\ [NoiseNext]_noiseVars => NoiseInv'
  <1> SUFFICES ASSUME NoiseInv, [NoiseNext]_noiseVars PROVE NoiseInv'
    OBVIOUS
  <1>0. NoiseTypeOK /\ ProcessingIsAttended
    BY DEF NoiseInv
  <1>1. ASSUME NEW i \in Items, CreateNoise(i) PROVE NoiseInv'
    <2>1. NoiseTypeOK'
      BY <1>0, <1>1 DEF CreateNoise, NoiseTypeOK, NoiseStatus
    <2>2. \A j \in Items : noise'[j] = "processing" => noise[j] = "processing"
      BY <1>0, <1>1 DEF CreateNoise, NoiseTypeOK
    <2> QED
      BY <1>0, <1>1, <2>1, <2>2 DEF CreateNoise, NoiseInv, ProcessingIsAttended, AtWork
  <1>2. ASSUME NEW v \in Values, CasesChange(v) PROVE NoiseInv'
    BY <1>0, <1>2 DEF CasesChange, NoiseInv, NoiseTypeOK, ProcessingIsAttended, AtWork
  <1>3. ASSUME NEW p \in Pages, NEW i \in Items, Show(p, i) PROVE NoiseInv'
    <2>1. NoiseTypeOK'
      BY <1>0, <1>3 DEF Show, NoiseTypeOK, PageRecord, PagePc, InTable
    <2>2. /\ \A q \in Pages : q # p => page'[q] = page[q]
          /\ \A j \in Items : AtWork(p, j) => AtWork(p, j)'
      BY <1>0, <1>3 DEF Show, NoiseTypeOK, AtWork
    <2> QED
      BY <1>3, <2>1, <2>2, StillAttended DEF Show, NoiseInv
  <1>4. ASSUME NEW p \in Pages, NEW status \in {"reviewed", "open", "ignored"}, Mark(p, status)
        PROVE  NoiseInv'
    <2>1. UpdateStatus(page[p].item, status) /\ Turn(p, "idle") /\ page[p].pc = "shown"
          /\ openCases' = openCases
      BY <1>4 DEF Mark
    <2>2. status \in NoiseStatus /\ "idle" \in PagePc
      BY DEF NoiseStatus, PagePc
    <2>3. NoiseTypeOK'
      BY <1>0, <2>1, <2>2, NoisePageTypes, UpdateChangesOne, TurnMovesOne DEF NoiseTypeOK
    <2>4. \A j \in Items : noise'[j] = "processing" => noise[j] = "processing"
      BY <1>0, <2>1, <2>2, NoisePageTypes, UpdateChangesOne
    <2> QED
      BY <1>0, <2>1, <2>2, <2>3, <2>4, TurnMovesOne, StillAttended DEF NoiseInv, AtWork
  <1>5. ASSUME NEW p \in Pages, DeleteNoise(p) PROVE NoiseInv'
    <2>1. UpdateStatus(page[p].item, "deleted") /\ Turn(p, "idle") /\ page[p].pc = "shown"
          /\ openCases' = openCases
      BY <1>5 DEF DeleteNoise
    <2>2. "idle" \in PagePc
      BY DEF PagePc
    <2>3. NoiseTypeOK'
      BY <1>0, <2>1, <2>2, NoisePageTypes, UpdateChangesOne, TurnMovesOne DEF NoiseTypeOK
    <2>4. \A j \in Items : noise'[j] = "processing" => noise[j] = "processing"
      BY <1>0, <2>1, NoisePageTypes, UpdateChangesOne
    <2> QED
      BY <1>0, <2>1, <2>2, <2>3, <2>4, TurnMovesOne, StillAttended DEF NoiseInv, AtWork
  <1>6. ASSUME NEW p \in Pages, LookAway(p) \/ Process(p) \/ Guard(p) PROVE NoiseInv'
    <2>1. PICK pc \in {"idle", "guard", "mark"} : Turn(p, pc)
      BY <1>6 DEF LookAway, Process, Guard
    <2>2. pc \in PagePc
      BY DEF PagePc
    <2>3. noise' = noise /\ openCases' = openCases /\ page[p].pc \in {"shown", "guard"}
      BY <1>6 DEF LookAway, Process, Guard
    <2>4. NoiseTypeOK'
      BY <1>0, <2>1, <2>2, <2>3, TurnMovesOne DEF NoiseTypeOK
    <2> QED
      BY <1>0, <2>1, <2>2, <2>3, <2>4, TurnMovesOne, StillAttended DEF NoiseInv, AtWork
  <1>7. ASSUME NEW p \in Pages, MarkProcessing(p) PROVE NoiseInv'
    <2>1. UpdateStatus(page[p].item, "processing") /\ Turn(p, "ask") /\ page[p].pc = "mark"
          /\ openCases' = openCases
      BY <1>7 DEF MarkProcessing
    <2>2. "processing" \in NoiseStatus /\ "ask" \in PagePc
      BY DEF NoiseStatus, PagePc
    <2>3. NoiseTypeOK'
      BY <1>0, <2>1, <2>2, NoisePageTypes, UpdateChangesOne, TurnMovesOne DEF NoiseTypeOK
    <2>4. page'[p].item = page[p].item /\ page'[p].pc = "ask"
      BY <1>0, <2>1, <2>2, TurnMovesOne
    <2>5. ASSUME NEW j \in Items, noise'[j] = "processing", j # page[p].item
          PROVE  \E q \in Pages : AtWork(q, j)'
      <3>1. PICK q \in Pages : AtWork(q, j)
        BY <1>0, <2>1, <2>2, <2>5, NoisePageTypes, UpdateChangesOne DEF ProcessingIsAttended
      <3> QED
        BY <1>0, <2>1, <2>2, <3>1, TurnMovesOne DEF AtWork
    <2>6. ProcessingIsAttended'
      BY <2>4, <2>5 DEF ProcessingIsAttended, AtWork
    <2> QED
      BY <2>3, <2>6 DEF NoiseInv
  <1>8. ASSUME NEW p \in Pages, Ask(p) PROVE NoiseInv'
    <2>1. PICK found \in SUBSET Values :
            page' = [page EXCEPT ![p].pc = IF found = {} THEN "fail" ELSE "insert", ![p].found = found]
      BY <1>8 DEF Ask
    <2>2. noise' = noise /\ openCases' = openCases
      BY <1>8 DEF Ask
    <2>3. (IF found = {} THEN "fail" ELSE "insert") \in {"insert", "promote", "fail"}
      OBVIOUS
    <2>4. /\ page' \in [Pages -> PageRecord]
          /\ \A q \in Pages : q # p => page'[q] = page[q]
          /\ \A i \in Items : AtWork(p, i) => AtWork(p, i)'
      BY <1>0, <2>1, <2>3, WorkGoesOn
    <2>5. NoiseTypeOK'
      BY <1>0, <2>2, <2>4 DEF NoiseTypeOK
    <2> QED
      BY <2>2, <2>4, <2>5, StillAttended DEF NoiseInv
  <1>9. ASSUME NEW p \in Pages, InsertCases(p) PROVE NoiseInv'
    <2>1. page[p].found \subseteq Values
      BY <1>0 DEF NoiseTypeOK, PageRecord
    <2>2. PICK pc \in {"insert", "promote", "fail"}, new \in SUBSET Values :
            page' = [page EXCEPT ![p].pc = pc, ![p].found = new]
      BY <1>9, <2>1 DEF InsertCases
    <2>3. noise' = noise /\ openCases' \subseteq Values
      BY <1>0, <1>9, <2>1 DEF InsertCases, NoiseTypeOK
    <2>4. /\ page' \in [Pages -> PageRecord]
          /\ \A q \in Pages : q # p => page'[q] = page[q]
          /\ \A i \in Items : AtWork(p, i) => AtWork(p, i)'
      BY <1>0, <2>2, WorkGoesOn
    <2>5. NoiseTypeOK'
      BY <1>0, <2>3, <2>4 DEF NoiseTypeOK
    <2> QED
      BY <2>3, <2>4, <2>5, StillAttended DEF NoiseInv
  <1>10. ASSUME NEW p \in Pages, Settle(p) PROVE NoiseInv'
    <2>1. PICK status \in {"promoted", "failed"} : UpdateStatus(page[p].item, status)
      BY <1>10 DEF Settle
    <2>2. Turn(p, "idle") /\ openCases' = openCases
      BY <1>10 DEF Settle
    <2>3. status \in NoiseStatus /\ "idle" \in PagePc
      BY DEF NoiseStatus, PagePc
    <2>4. NoiseTypeOK'
      BY <1>0, <2>1, <2>2, <2>3, NoisePageTypes, UpdateChangesOne, TurnMovesOne DEF NoiseTypeOK
    <2>5. noise'[page[p].item] # "processing"
      BY <1>0, <2>1, NoisePageTypes DEF UpdateStatus, NoiseTypeOK, InTable, NoiseStatus
    <2>6. ASSUME NEW j \in Items, noise'[j] = "processing" PROVE \E q \in Pages : AtWork(q, j)'
      <3>1. j # page[p].item /\ noise[j] = "processing"
        BY <1>0, <2>1, <2>3, <2>5, <2>6, NoisePageTypes, UpdateChangesOne
      <3>2. PICK q \in Pages : AtWork(q, j)
        BY <1>0, <3>1 DEF ProcessingIsAttended
      <3> QED
        BY <1>0, <2>2, <2>3, <3>1, <3>2, TurnMovesOne DEF AtWork
    <2>7. ProcessingIsAttended'
      BY <2>6 DEF ProcessingIsAttended, AtWork
    <2> QED
      BY <2>4, <2>7 DEF NoiseInv
  <1>11. CASE UNCHANGED noiseVars
    BY <1>0, <1>11 DEF noiseVars, NoiseInv, NoiseTypeOK, ProcessingIsAttended, AtWork
  <1> QED
    BY <1>1, <1>2, <1>3, <1>4, <1>5, <1>6, <1>7, <1>8, <1>9, <1>10, <1>11 DEF NoiseNext

\* The invariant holds in every reachable state.
LEMMA NoiseAlways == NoiseSpec => []NoiseInv
  <1>1. NoiseInit => NoiseInv
    <2> SUFFICES ASSUME NoiseInit PROVE NoiseInv
      OBVIOUS
    <2>1. NoiseTypeOK
      BY DEF NoiseInit, NoiseTypeOK, PageRecord, PagePc, NoiseStatus
    <2>2. ProcessingIsAttended
      BY DEF NoiseInit, ProcessingIsAttended
    <2> QED
      BY <2>1, <2>2 DEF NoiseInv
  <1> QED
    BY <1>1, NoisePreserved, PTL DEF NoiseSpec

\* An item shown as processing has a session that works on it, however many sessions look
\* at the tab, press its buttons on stale pages, and delete what another one processes.
THEOREM ProcessingAttended == NoiseSpec => []ProcessingIsAttended
  <1>1. NoiseInv => ProcessingIsAttended
    BY DEF NoiseInv
  <1> QED
    BY <1>1, NoiseAlways, PTL

-----------------------------------------------------------------------------
(* In-memory review service *)

Copies == [case : DeskCases, value : CaseValue]

\* The queue is one that the service may hold: every case once.
EachOnce(queue) ==
    /\ queue \in Seq(Copies)
    /\ \A k, m \in DOMAIN queue : queue[k].case = queue[m].case => k = m

InOrderOfUrgency(queue) == \A k, m \in DOMAIN queue : k < m => MoreUrgent(queue[k], queue[m])

DeskInv == DeskTypeOK /\ DeskTellsOneStory

\* What a copy in the queue holds.
LEMMA CopyTypes ==
  ASSUME NEW copy \in Copies
  PROVE  copy.case \in Nat /\ copy.value \in CaseValue /\ copy.value.priority \in 0..3 /\ copy.value.status \in DeskStatus
<1>1. copy.value \in CaseValue /\ copy.case \in DeskCases
  BY DEF Copies
<1> QED
  BY <1>1, DeskAssumption DEF CaseValue, DeskPriority

\* What a queue of copies holds at its places.
LEMMA QueueTypes ==
  ASSUME NEW queue \in Seq(Copies)
  PROVE  /\ Len(queue) \in Nat /\ DOMAIN queue = 1..Len(queue)
         /\ \A k \in DOMAIN queue :
              /\ k \in Nat /\ queue[k] \in Copies /\ queue[k].case \in Nat /\ queue[k].case \in DeskCases
              /\ queue[k].value \in CaseValue
              /\ queue[k].value.priority \in 0..3 /\ queue[k].value.status \in DeskStatus
<1>1. \A k \in DOMAIN queue : k \in Nat /\ queue[k] \in Copies
  OBVIOUS
<1> QED
  BY <1>1, CopyTypes DEF Copies

\* A number that puts copies of cases up to a bound in the order of their urgency.
UrgencyKey(copy, bound) ==
    copy.case + (IF copy.value.priority = 0 THEN 0
                 ELSE IF copy.value.priority = 1 THEN bound + 1
                 ELSE IF copy.value.priority = 2 THEN 2 * (bound + 1)
                 ELSE 3 * (bound + 1))

\* Urgency is the order of a number: the priority first, the case second.
LEMMA KeyTellsUrgency ==
  ASSUME NEW bound \in Nat, NEW x \in Copies, NEW y \in Copies, x.case <= bound, y.case <= bound
  PROVE  /\ UrgencyKey(x, bound) \in Nat
         /\ MoreUrgent(x, y) <=> UrgencyKey(x, bound) < UrgencyKey(y, bound)
         /\ UrgencyKey(x, bound) = UrgencyKey(y, bound) => x.case = y.case
<1> DEFINE p == x.value.priority
           q == y.value.priority
           c == x.case
           d == y.case
<1>1. p \in 0..3 /\ q \in 0..3 /\ c \in Nat /\ d \in Nat
  BY CopyTypes
<1>2. p \in {0, 1, 2, 3} /\ q \in {0, 1, 2, 3}
  BY <1>1
<1>3. c <= bound /\ d <= bound
  OBVIOUS
<1>4. UrgencyKey(x, bound) = c + (IF p = 0 THEN 0 ELSE IF p = 1 THEN bound + 1 ELSE IF p = 2 THEN 2 * (bound + 1) ELSE 3 * (bound + 1))
  BY DEF UrgencyKey
<1>5. UrgencyKey(y, bound) = d + (IF q = 0 THEN 0 ELSE IF q = 1 THEN bound + 1 ELSE IF q = 2 THEN 2 * (bound + 1) ELSE 3 * (bound + 1))
  BY DEF UrgencyKey
<1>6. MoreUrgent(x, y) <=> p < q \/ (p = q /\ c < d)
  BY DEF MoreUrgent
<1> HIDE DEF p, q, c, d
<1> QED
  BY <1>1, <1>2, <1>3, <1>4, <1>5, <1>6 DEF c, d

\* A queue with every case once can be put in order.
LEMMA QueuesCanBeSorted ==
  ASSUME NEW queue, EachOnce(queue)
  PROVE  \E p \in [DOMAIN queue -> DOMAIN queue] :
            \A k, m \in DOMAIN queue : k < m => p[k] # p[m] /\ ~MoreUrgent(queue[p[m]], queue[p[k]])
<1> DEFINE places == DOMAIN queue
<1>1. PICK bound \in Nat : \A c \in DeskCases : c <= bound
  BY DeskAssumption, FiniteSetsAreBounded
<1> DEFINE key == [k \in places |-> UrgencyKey(queue[k], bound)]
           keys == {key[k] : k \in places}
<1>2. /\ \A k \in places : key[k] \in Nat
      /\ \A k, m \in places : (MoreUrgent(queue[k], queue[m]) <=> key[k] < key[m]) /\ (key[k] = key[m] => k = m)
  BY <1>1, QueueTypes, KeyTellsUrgency DEF EachOnce
<1>3. IsFiniteSet(places) /\ Cardinality(places) = Len(queue) /\ Len(queue) \in Nat /\ places = 1..Len(queue)
  <2>1. PICK size \in Nat : size = Len(queue)
    BY QueueTypes DEF EachOnce
  <2>2. IsFiniteSet(1..size) /\ Cardinality(1..size) = size
    BY FS_Interval
  <2>3. places = 1..size
    BY <2>1, QueueTypes DEF EachOnce
  <2> HIDE DEF places
  <2> QED
    BY <2>1, <2>2, <2>3
<1>4. key = [k \in places |-> key[k]]
  OBVIOUS
<1> HIDE DEF key, places
<1>5. key \in Bijection(places, keys)
  <2>1. key \in [places -> keys]
    BY <1>4
  <2> QED
    BY <1>2, <2>1 DEF Bijection, Injection, Surjection, IsInjective
<1>6. IsFiniteSet(keys) /\ Cardinality(keys) = Len(queue)
  <2>1. ExistsBijection(places, keys)
    BY <1>5 DEF ExistsBijection
  <2> HIDE DEF keys
  <2> QED
    BY <1>3, <2>1, FS_Bijection
<1>7. keys \in SUBSET Nat
  BY <1>2
<1>8. PICK listed : Listing(listed, keys)
  <2> HIDE DEF keys
  <2> QED
    BY <1>6, <1>7, FiniteSetsAreListed
<1>9. /\ \A k \in places : listed[k] \in keys
      /\ \A k, m \in places : k < m => listed[k] < listed[m]
  BY <1>3, <1>6, <1>8 DEF Listing
<1> DEFINE p == [k \in places |-> CHOOSE m \in places : key[m] = listed[k]]
<1>10. \A k \in places : p[k] \in places /\ key[p[k]] = listed[k]
  BY <1>9
<1>11. p \in [places -> places]
  BY <1>10
<1> HIDE DEF p, keys
<1>12. ASSUME NEW k \in places, NEW m \in places, k < m PROVE p[k] # p[m] /\ ~MoreUrgent(queue[p[m]], queue[p[k]])
  <2>1. key[p[k]] < key[p[m]] /\ key[p[k]] \in Nat /\ key[p[m]] \in Nat /\ p[k] \in places /\ p[m] \in places
    BY <1>2, <1>9, <1>10, <1>12
  <2>2. ~(key[p[m]] < key[p[k]]) /\ p[k] # p[m]
    BY <2>1
  <2> QED
    BY <1>2, <2>1, <2>2
<1> QED
  BY <1>11, <1>12 DEF places

\* Sorting keeps the copies, each once, and puts the more urgent ones first.
LEMMA SortingKeeps ==
  ASSUME NEW queue, EachOnce(queue)
  PROVE  /\ Sorted(queue) \in Seq(Copies)
         /\ InOrderOfUrgency(Sorted(queue))
         /\ \A k \in DOMAIN Sorted(queue) : \E m \in DOMAIN queue : Sorted(queue)[k] = queue[m]
<1> DEFINE order == CHOOSE p \in [DOMAIN queue -> DOMAIN queue] :
                        \A k, m \in DOMAIN queue : k < m => p[k] # p[m] /\ ~MoreUrgent(queue[p[m]], queue[p[k]])
<1>1. /\ order \in [DOMAIN queue -> DOMAIN queue]
      /\ \A k, m \in DOMAIN queue : k < m => order[k] # order[m] /\ ~MoreUrgent(queue[order[m]], queue[order[k]])
  BY QueuesCanBeSorted, Zenon
<1>2. Sorted(queue) = [k \in DOMAIN queue |-> queue[order[k]]]
  BY DEF Sorted
<1> HIDE DEF order
<1>3. queue \in Seq(Copies) /\ Len(queue) \in Nat /\ DOMAIN queue = 1..Len(queue)
  BY QueueTypes DEF EachOnce
<1>4. \A k \in DOMAIN queue : order[k] \in DOMAIN queue /\ queue[order[k]] \in Copies
  BY <1>1, QueueTypes DEF EachOnce
<1>5. Sorted(queue) \in Seq(Copies) /\ DOMAIN Sorted(queue) = DOMAIN queue
  BY <1>2, <1>3, <1>4
<1>6. ASSUME NEW k \in DOMAIN queue, NEW m \in DOMAIN queue, k < m
      PROVE  MoreUrgent(queue[order[k]], queue[order[m]])
  <2> DEFINE x == queue[order[k]]
             y == queue[order[m]]
  <2>1. x.case # y.case /\ ~MoreUrgent(y, x)
    BY <1>1, <1>6 DEF EachOnce
  <2>2. /\ x.case \in Nat /\ x.value.priority \in 0..3
        /\ y.case \in Nat /\ y.value.priority \in 0..3
    BY <1>4, CopyTypes
  <2>3. \A i, j \in 0..3 : i < j \/ j < i \/ i = j
    OBVIOUS
  <2> HIDE DEF x, y
  <2>4. \A i, j \in Nat : i < j \/ j < i \/ i = j
    OBVIOUS
  <2>5. MoreUrgent(x, y)
    BY <2>1, <2>2, <2>3, <2>4 DEF MoreUrgent
  <2> QED
    BY <2>5 DEF x, y
<1> QED
  BY <1>2, <1>4, <1>5, <1>6 DEF InOrderOfUrgency

-----------------------------------------------------------------------------
(* The service *)

\* The queue as the property describes it holds every case once.
LEMMA QueueHoldsOnce ==
  ASSUME DeskInv PROVE EachOnce(deskQueue)
<1>1. deskQueue \in Seq(Copies)
  BY DEF DeskInv, DeskTypeOK, Copies
<1>2. ASSUME NEW k \in DOMAIN deskQueue, NEW m \in DOMAIN deskQueue, deskQueue[k].case = deskQueue[m].case, k < m
      PROVE  FALSE
  <2>1. deskQueue[k].value = deskQueue[m].value
    BY <1>2 DEF DeskInv, DeskTellsOneStory
  <2>2. MoreUrgent(deskQueue[k], deskQueue[m])
    BY <1>2 DEF DeskInv, DeskTellsOneStory
  <2>3. deskQueue[k].case \in Nat /\ deskQueue[k].value.priority \in 0..3
    BY <1>1, QueueTypes
  <2> QED
    BY <1>2, <2>1, <2>2, <2>3 DEF MoreUrgent
<1>3. \A k, m \in DOMAIN deskQueue : k = m \/ k < m \/ m < k
  BY <1>1, QueueTypes
<1> QED
  BY <1>1, <1>2, <1>3 DEF EachOnce

\* When the queue after a step is in order and its copies are the cases as they are stored, the
\* rest of the story is about cases and decisions.
LEMMA StoryIsTold ==
  ASSUME deskCase' \in [DeskCases -> CaseValue \cup {Unopened}], decisions' \in [DeskCases -> Nat],
         deskQueue' \in Seq(Copies), InOrderOfUrgency(deskQueue'),
         \A k \in DOMAIN deskQueue' : /\ deskQueue'[k].value = deskCase'[deskQueue'[k].case]
                                      /\ deskQueue'[k].value.status # "CANCELLED",
         \A c \in DeskCases : decisions'[c] = IF deskCase'[c].status = "COMPLETED" THEN 1 ELSE 0
  PROVE  DeskInv'
  BY DEF DeskInv, DeskTypeOK, DeskTellsOneStory, InOrderOfUrgency, Copies, MoreUrgent

\* Storing a case and its copy keeps the two in step, whether the case is queued or not.
LEMMA StoringKeeps ==
  ASSUME DeskInv, NEW c \in DeskCases, NEW value \in CaseValue, Store(c, value), value.status # "CANCELLED",
         decisions' \in [DeskCases -> Nat],
         \A d \in DeskCases : decisions'[d] = IF deskCase'[d].status = "COMPLETED" THEN 1 ELSE 0
  PROVE  DeskInv'
<1> DEFINE replaced == [k \in DOMAIN deskQueue |-> IF deskQueue[k].case = c THEN CopyOf(c, value) ELSE deskQueue[k]]
<1>1. EachOnce(deskQueue) /\ deskQueue \in Seq(Copies) /\ CopyOf(c, value) \in Copies /\ CopyOf(c, value).case = c
      /\ CopyOf(c, value).value = value
  BY QueueHoldsOnce DEF EachOnce, CopyOf, Copies
<1>2. /\ replaced \in Seq(Copies) /\ DOMAIN replaced = DOMAIN deskQueue
      /\ \A k \in DOMAIN deskQueue : replaced[k].case = deskQueue[k].case
  <2>1. ASSUME NEW k \in DOMAIN deskQueue PROVE deskQueue[k] \in Copies
    BY <1>1, <2>1
  <2>2. ASSUME NEW k \in DOMAIN deskQueue PROVE replaced[k] \in Copies /\ replaced[k].case = deskQueue[k].case
    BY <1>1, <2>1, <2>2
  <2>3. Len(deskQueue) \in Nat /\ DOMAIN deskQueue = 1..Len(deskQueue)
    BY <1>1
  <2>4. DOMAIN replaced = DOMAIN deskQueue
    OBVIOUS
  <2> HIDE DEF replaced
  <2>5. replaced \in [1..Len(deskQueue) -> Copies]
    <3>1. \A k \in 1..Len(deskQueue) : replaced[k] \in Copies
      BY <2>2, <2>3
    <3>2. replaced = [k \in 1..Len(deskQueue) |-> replaced[k]]
      BY <2>3, <2>4 DEF replaced
    <3> QED
      BY <3>1, <3>2
  <2> QED
    BY <2>2, <2>3, <2>4, <2>5
<1>3. EachOnce(replaced)
  BY <1>1, <1>2 DEF EachOnce
<1>4. deskQueue' = Sorted(replaced) /\ deskCase' = [deskCase EXCEPT ![c] = value]
  BY DEF Store, Replace
<1>5. /\ deskCase' \in [DeskCases -> CaseValue \cup {Unopened}]
      /\ deskCase'[c] = value /\ \A d \in DeskCases : d # c => deskCase'[d] = deskCase[d]
  BY <1>4 DEF DeskInv, DeskTypeOK
<1>6. \A k \in DOMAIN replaced : /\ replaced[k].value = deskCase'[replaced[k].case]
                                 /\ replaced[k].value.status # "CANCELLED"
  <2> SUFFICES ASSUME NEW k \in DOMAIN deskQueue
               PROVE  replaced[k].value = deskCase'[replaced[k].case] /\ replaced[k].value.status # "CANCELLED"
    BY <1>2
  <2>1. CASE deskQueue[k].case = c
    BY <1>1, <1>2, <1>5, <2>1
  <2>2. CASE deskQueue[k].case # c
    BY <1>1, <1>2, <1>5, <2>2, QueueTypes DEF DeskInv, DeskTellsOneStory
  <2> QED
    BY <2>1, <2>2
<1> HIDE DEF replaced
<1> QED
  BY <1>3, <1>4, <1>5, <1>6, SortingKeeps, StoryIsTold

\* A case that is opened enters the queue once.
LEMMA OpeningKeeps ==
  ASSUME DeskInv, NEW c \in DeskCases, NEW priority \in DeskPriority, OpenDeskCase(c, priority)
  PROVE  DeskInv'
<1> DEFINE value == [status |-> "PENDING", priority |-> priority]
           longer == Append(deskQueue, CopyOf(c, value))
<1>1. /\ value \in CaseValue /\ CopyOf(c, value) \in Copies /\ CopyOf(c, value).case = c
      /\ CopyOf(c, value).value = value /\ value.status = "PENDING"
  BY DEF CaseValue, DeskStatus, Copies, CopyOf
<1>2. /\ deskCase[c] = Unopened /\ UNCHANGED decisions
      /\ deskCase' = [deskCase EXCEPT ![c] = value] /\ deskQueue' = Sorted(longer)
  BY DEF OpenDeskCase
<1>3. EachOnce(deskQueue) /\ deskQueue \in Seq(Copies) /\ Len(deskQueue) \in Nat /\ DOMAIN deskQueue = 1..Len(deskQueue)
  BY QueueHoldsOnce, QueueTypes DEF EachOnce
<1>4. \A k \in DOMAIN deskQueue : deskQueue[k].case # c
  <2>1. \A k \in DOMAIN deskQueue : deskQueue[k].value = deskCase[deskQueue[k].case] /\ deskQueue[k].value.status \in DeskStatus
    BY <1>3, QueueTypes DEF DeskInv, DeskTellsOneStory
  <2> QED
    BY <1>2, <2>1 DEF Unopened, DeskStatus
<1> HIDE DEF value
<1>5. /\ longer \in Seq(Copies) /\ DOMAIN longer = 1..(Len(deskQueue) + 1)
      /\ longer[Len(deskQueue) + 1] = CopyOf(c, value)
      /\ \A k \in DOMAIN deskQueue : longer[k] = deskQueue[k]
  BY <1>1, <1>3
<1>6. \A k \in DOMAIN longer : k = Len(deskQueue) + 1 \/ k \in DOMAIN deskQueue
  BY <1>3, <1>5
<1> HIDE DEF longer
<1>7. EachOnce(longer)
  BY <1>1, <1>3, <1>4, <1>5, <1>6 DEF EachOnce
<1>8. /\ deskCase' \in [DeskCases -> CaseValue \cup {Unopened}]
      /\ deskCase'[c] = value /\ \A d \in DeskCases : d # c => deskCase'[d] = deskCase[d]
  BY <1>1, <1>2 DEF DeskInv, DeskTypeOK
<1>9. \A k \in DOMAIN longer : longer[k].value = deskCase'[longer[k].case] /\ longer[k].value.status # "CANCELLED"
  BY <1>1, <1>3, <1>4, <1>5, <1>6, <1>8, QueueTypes DEF DeskInv, DeskTellsOneStory
<1>10. decisions' \in [DeskCases -> Nat] /\ \A d \in DeskCases : decisions'[d] = IF deskCase'[d].status = "COMPLETED" THEN 1 ELSE 0
  BY <1>1, <1>2, <1>8 DEF DeskInv, DeskTypeOK, DeskTellsOneStory, Unopened
<1> QED
  BY <1>2, <1>7, <1>8, <1>9, <1>10, SortingKeeps, StoryIsTold

\* A case that is cancelled leaves the queue, when it is there.
LEMMA CancellingKeeps ==
  ASSUME DeskInv, NEW c \in DeskCases, CancelDeskCase(c)
  PROVE  DeskInv'
<1> DEFINE places == {k \in DOMAIN deskQueue : deskQueue[k].case # c}
           size == Cardinality(places)
<1>1. EachOnce(deskQueue) /\ deskQueue \in Seq(Copies) /\ Len(deskQueue) \in Nat /\ DOMAIN deskQueue = 1..Len(deskQueue)
  BY QueueHoldsOnce, QueueTypes DEF EachOnce
<1>2. /\ deskCase[c].status \in OpenStatus /\ UNCHANGED decisions
      /\ deskCase' = [deskCase EXCEPT ![c].status = "CANCELLED"] /\ deskQueue' = AtPlaces(deskQueue, places)
  BY DEF CancelDeskCase, Without
<1>3. places \in SUBSET DOMAIN deskQueue /\ \A k \in places : deskQueue[k].case # c
  OBVIOUS
<1> HIDE DEF places
<1> DEFINE order == InOrder(places)
<1>4. /\ deskQueue' = [k \in 1..size |-> deskQueue[order[k]]]
      /\ order \in [1..size -> places] /\ \A k, m \in 1..size : k < m => order[k] < order[m]
  <2>1. order \in [1..size -> places] /\ \A k, m \in 1..size : k < m => order[k] < order[m]
    BY <1>1, <1>3, AtPlacesKeepsOrder
  <2> QED
    BY <1>2, <2>1 DEF AtPlaces
<1>5. deskQueue' \in Seq(Copies)
  BY <1>1, <1>2, <1>3, AtPlacesKeepsOrder
<1>6. DOMAIN deskQueue' = 1..size
  BY <1>4
<1> HIDE DEF size, order
<1>7. \A k \in 1..size : order[k] \in DOMAIN deskQueue /\ deskQueue[order[k]].case # c /\ deskQueue'[k] = deskQueue[order[k]]
                         /\ deskQueue[order[k]].case \in DeskCases
  BY <1>1, <1>3, <1>4, QueueTypes
<1>8. /\ deskCase' \in [DeskCases -> CaseValue \cup {Unopened}]
      /\ deskCase'[c].status = "CANCELLED" /\ \A d \in DeskCases : d # c => deskCase'[d] = deskCase[d]
  <2>1. deskCase[c] \in CaseValue
    BY <1>2 DEF DeskInv, DeskTypeOK, Unopened, OpenStatus
  <2>2. [deskCase[c] EXCEPT !.status = "CANCELLED"] \in CaseValue /\ [deskCase[c] EXCEPT !.status = "CANCELLED"].status = "CANCELLED"
    BY <2>1 DEF CaseValue, DeskStatus
  <2> QED
    BY <1>2, <2>2 DEF DeskInv, DeskTypeOK
<1>9. \A k \in DOMAIN deskQueue' : deskQueue'[k].value = deskCase'[deskQueue'[k].case] /\ deskQueue'[k].value.status # "CANCELLED"
  BY <1>6, <1>7, <1>8 DEF DeskInv, DeskTellsOneStory
<1>10. InOrderOfUrgency(deskQueue')
  BY <1>4, <1>6, <1>7 DEF InOrderOfUrgency, DeskInv, DeskTellsOneStory
<1>11. decisions' \in [DeskCases -> Nat] /\ \A d \in DeskCases : decisions'[d] = IF deskCase'[d].status = "COMPLETED" THEN 1 ELSE 0
  BY <1>2, <1>8 DEF DeskInv, DeskTypeOK, DeskTellsOneStory, OpenStatus
<1> QED
  BY <1>5, <1>8, <1>9, <1>10, <1>11, StoryIsTold

\* dequeue_next takes the head and leaves the rest as it stands.
LEMMA DequeueingKeeps == ASSUME DeskInv, DequeueNext PROVE DeskInv'
<1>1. deskQueue \in Seq(Copies) /\ Len(deskQueue) \in Nat /\ DOMAIN deskQueue = 1..Len(deskQueue)
  BY QueueHoldsOnce, QueueTypes DEF EachOnce
<1>2. /\ deskQueue' \in Seq(Copies) /\ DOMAIN deskQueue' = 1..(Len(deskQueue) - 1)
      /\ \A k \in DOMAIN deskQueue' : k + 1 \in DOMAIN deskQueue /\ deskQueue'[k] = deskQueue[k + 1]
      /\ UNCHANGED deskCase /\ UNCHANGED decisions
  BY <1>1 DEF DequeueNext
<1>3. InOrderOfUrgency(deskQueue')
  <2>1. \A k, m \in DOMAIN deskQueue' : k < m => k + 1 < m + 1
    BY <1>1, <1>2
  <2> QED
    BY <1>2, <2>1 DEF InOrderOfUrgency, DeskInv, DeskTellsOneStory
<1>4. \A k \in DOMAIN deskQueue' : deskQueue'[k].value = deskCase'[deskQueue'[k].case] /\ deskQueue'[k].value.status # "CANCELLED"
  BY <1>2 DEF DeskInv, DeskTellsOneStory
<1> QED
  BY <1>2, <1>3, <1>4, StoryIsTold DEF DeskInv, DeskTypeOK, DeskTellsOneStory

\* Every operation of the review service keeps the invariant.
LEMMA DeskPreserved == DeskInv /\ [DeskNext]_deskVars => DeskInv'
<1> SUFFICES ASSUME DeskInv, [DeskNext]_deskVars PROVE DeskInv'
  OBVIOUS
<1>0. /\ deskCase \in [DeskCases -> CaseValue \cup {Unopened}] /\ decisions \in [DeskCases -> Nat]
      /\ \A c \in DeskCases : decisions[c] = IF deskCase[c].status = "COMPLETED" THEN 1 ELSE 0
  BY DEF DeskInv, DeskTypeOK, DeskTellsOneStory
<1>1. ASSUME NEW c \in DeskCases, NEW value \in CaseValue, Store(c, value),
             deskCase[c].status \in OpenStatus, value.status \in OpenStatus, UNCHANGED decisions
      PROVE  DeskInv'
  <2>1. \A d \in DeskCases : decisions'[d] = IF deskCase'[d].status = "COMPLETED" THEN 1 ELSE 0
    BY <1>0, <1>1 DEF Store, OpenStatus
  <2> QED
    BY <1>0, <1>1, <2>1, StoringKeeps DEF OpenStatus
<1>2. ASSUME NEW c \in DeskCases, deskCase[c].status \in OpenStatus
      PROVE  deskCase[c] \in CaseValue /\ \A status \in DeskStatus : [deskCase[c] EXCEPT !.status = status] \in CaseValue
                                                                    /\ [deskCase[c] EXCEPT !.status = status].status = status
  BY <1>0, <1>2 DEF CaseValue, Unopened, OpenStatus
<1>3. ASSUME NEW c \in DeskCases, AssignDeskCase(c) \/ StartReview(c) PROVE DeskInv'
  BY <1>1, <1>2, <1>3 DEF AssignDeskCase, StartReview, OpenStatus, DeskStatus
<1>4. ASSUME NEW c \in DeskCases, EscalateDeskCase(c) PROVE DeskInv'
  BY <1>1, <1>4 DEF EscalateDeskCase, OpenStatus, DeskStatus, CaseValue, DeskPriority
<1>5. ASSUME NEW c \in DeskCases, DecideDeskCase(c) PROVE DeskInv'
  <2> DEFINE value == [deskCase[c] EXCEPT !.status = "COMPLETED"]
  <2>1. deskCase[c].status = "IN_REVIEW" /\ Store(c, value) /\ decisions' = [decisions EXCEPT ![c] = @ + 1]
    BY <1>5 DEF DecideDeskCase
  <2>2. value \in CaseValue /\ value.status = "COMPLETED"
    BY <1>2, <2>1 DEF OpenStatus, DeskStatus
  <2> HIDE DEF value
  <2>3. deskCase' = [deskCase EXCEPT ![c] = value]
    BY <2>1 DEF Store
  <2>4. decisions' \in [DeskCases -> Nat] /\ \A d \in DeskCases : decisions'[d] = IF deskCase'[d].status = "COMPLETED" THEN 1 ELSE 0
    BY <1>0, <2>1, <2>2, <2>3
  <2> QED
    BY <2>1, <2>2, <2>4, StoringKeeps
<1>6. CASE UNCHANGED deskVars
  BY <1>6 DEF deskVars, DeskInv, DeskTypeOK, DeskTellsOneStory, MoreUrgent
<1> QED
  BY <1>3, <1>4, <1>5, <1>6, OpeningKeeps, CancellingKeeps, DequeueingKeeps DEF DeskNext

\* Cases, decisions and queue of the in-memory review service tell one story, whatever was
\* dequeued and whatever raised half-way, for any number of cases.
THEOREM DeskStoryIsTrue == DeskSpec => []DeskTellsOneStory
<1>1. DeskInit => DeskInv
  BY DEF DeskInit, DeskInv, DeskTypeOK, DeskTellsOneStory, Unopened
<1>2. DeskInv => DeskTellsOneStory
  BY DEF DeskInv
<1> QED
  BY <1>1, <1>2, DeskPreserved, PTL DEF DeskSpec

-----------------------------------------------------------------------------
(* Audit log *)

\* the types the argument needs; that the log and the clock stay within their bounds is not needed
NatEntry == [previous : Nat, time : Nat]
NatRecorder == [pc : {"idle", "create", "number", "insert"}, entry : NatEntry, number : Nat]
LogTypes == log \in Seq(NatEntry) /\ recorder \in [Recorders -> NatRecorder] /\ now \in Nat

\* No entry is from the future.
PastInv == \A i \in DOMAIN log : log[i].time <= now

\* The entry a recorder prepares links to one that is in the log; once its time is drawn, it is
\* no older than that one and not from the future.  The time is drawn after the link: this is
\* why a recorder that was overtaken still tells the truth.
PreparedInv ==
    \A r \in Recorders :
        LET entry == recorder[r].entry IN
        /\ recorder[r].pc # "idle" => entry.previous <= Len(log)
        /\ recorder[r].pc \in {"number", "insert"} =>
              /\ entry.time <= now
              /\ entry.previous # 0 => log[entry.previous].time <= entry.time

AuditInv == LogTypes /\ PastInv /\ PreparedInv /\ LinksLeadBack

\* The log is empty at first.
LEMMA InitAudit == AuditInit => AuditInv
  <1> SUFFICES ASSUME AuditInit PROVE AuditInv
    OBVIOUS
  <1>1. LogTypes
    BY DEF AuditInit, LogTypes, NatEntry, NatRecorder
  <1>2. PastInv /\ LinksLeadBack
    BY DEF AuditInit, PastInv, LinksLeadBack
  <1>3. PreparedInv
    BY DEF AuditInit, PreparedInv
  <1> QED
    BY <1>1, <1>2, <1>3 DEF AuditInv

\* A recorder moves, the log stays: only what that recorder prepared is to be looked at.
LEMMA OnlyOneMoves ==
    ASSUME AuditInv, log' = log, now' = now, NEW r \in Recorders, NEW record \in NatRecorder,
           recorder' = [recorder EXCEPT ![r] = record],
           record.pc # "idle" => record.entry.previous <= Len(log),
           record.pc \in {"number", "insert"} =>
              /\ record.entry.time <= now
              /\ record.entry.previous # 0 => log[record.entry.previous].time <= record.entry.time
    PROVE  AuditInv'
  <1>1. LogTypes'
    BY DEF AuditInv, LogTypes
  <1>2. PastInv' /\ LinksLeadBack'
    BY DEF AuditInv, PastInv, LinksLeadBack
  <1>3. /\ recorder'[r] = record
        /\ \A q \in Recorders : q # r => recorder'[q] = recorder[q]
    BY DEF AuditInv, LogTypes
  <1>4. PreparedInv'
    BY <1>3 DEF AuditInv, PreparedInv
  <1> QED
    BY <1>1, <1>2, <1>4 DEF AuditInv

\* What a recorder carries, typed.
LEMMA RecorderTypes ==
    ASSUME LogTypes, NEW r \in Recorders
    PROVE  /\ recorder[r] \in NatRecorder /\ recorder[r].entry \in NatEntry
           /\ recorder[r].entry.previous \in Nat /\ recorder[r].entry.time \in Nat
           /\ recorder[r].number \in Nat /\ Len(log) \in Nat /\ now \in Nat
  BY DEF LogTypes, NatRecorder, NatEntry

\* An entry of the log, typed.
LEMMA LoggedTypes ==
    ASSUME LogTypes, NEW i \in DOMAIN log
    PROVE  /\ log[i] \in NatEntry /\ log[i].previous \in Nat /\ log[i].time \in Nat
           /\ i \in Nat /\ DOMAIN log = 1..Len(log) /\ Len(log) \in Nat
  <1>1. log[i] \in NatEntry
    BY DEF LogTypes
  <1>2. DOMAIN log = 1..Len(log) /\ Len(log) \in Nat
    BY DEF LogTypes
  <1>3. log[i].previous \in Nat /\ log[i].time \in Nat
    BY <1>1 DEF NatEntry
  <1> QED
    BY <1>1, <1>2, <1>3

\* Every step of the recorders and of the clock keeps the invariant.
LEMMA AuditPreserved == AuditInv /\ [AuditNext]_auditVars => AuditInv'
  <1> SUFFICES ASSUME AuditInv, [AuditNext]_auditVars PROVE AuditInv'
    OBVIOUS
  <1>0. LogTypes /\ PastInv /\ PreparedInv /\ LinksLeadBack
    BY DEF AuditInv
  <1>1. ASSUME Tick PROVE AuditInv'
    <2>1. now' = now + 1 /\ log' = log /\ recorder' = recorder
      BY <1>1 DEF Tick
    <2>2. LogTypes' /\ LinksLeadBack'
      BY <1>0, <2>1 DEF LogTypes, LinksLeadBack
    <2>3. PastInv'
      <3> SUFFICES ASSUME NEW i \in DOMAIN log PROVE log[i].time <= now + 1
        BY <2>1 DEF PastInv
      <3>1. log[i].time <= now /\ log[i].time \in Nat /\ now \in Nat
        BY <1>0, LoggedTypes DEF PastInv, LogTypes
      <3> QED
        BY <3>1
    <2>4. PreparedInv'
      BY <1>0, <2>1, RecorderTypes DEF PreparedInv
    <2> QED
      BY <2>2, <2>3, <2>4 DEF AuditInv
  <1>2. ASSUME NEW r \in Recorders, ReadLatest(r) PROVE AuditInv'
    <2> DEFINE record == [recorder[r] EXCEPT !.pc = "create", !.entry.previous = Len(log)]
    <2>1. recorder' = [recorder EXCEPT ![r] = record] /\ log' = log /\ now' = now
      BY <1>0, <1>2 DEF ReadLatest, LogTypes
    <2>2. record \in NatRecorder /\ record.pc = "create" /\ record.entry.previous = Len(log)
      BY <1>0, RecorderTypes DEF NatRecorder, NatEntry
    <2> HIDE DEF record
    <2>3. Len(log) <= Len(log)
      BY <1>0, RecorderTypes
    <2> QED
      BY <2>1, <2>2, <2>3, OnlyOneMoves
  <1>3. ASSUME NEW r \in Recorders, CreateEntry(r) PROVE AuditInv'
    <2> DEFINE record == [recorder[r] EXCEPT !.pc = "number", !.entry.time = now]
    <2>1. recorder' = [recorder EXCEPT ![r] = record] /\ log' = log /\ now' = now
      BY <1>0, <1>3 DEF CreateEntry, LogTypes
    <2>2. /\ record \in NatRecorder /\ record.pc = "number"
          /\ record.entry.previous = recorder[r].entry.previous /\ record.entry.time = now
      BY <1>0, RecorderTypes DEF NatRecorder, NatEntry
    <2> HIDE DEF record
    <2>3. recorder[r].entry.previous <= Len(log)
      BY <1>0, <1>3 DEF CreateEntry, PreparedInv
    <2>4. recorder[r].entry.previous # 0 => log[recorder[r].entry.previous].time <= now
      BY <1>0, <2>3, RecorderTypes DEF LogTypes, PastInv
    <2>5. now <= now
      BY <1>0, RecorderTypes
    <2> QED
      BY <2>1, <2>2, <2>3, <2>4, <2>5, OnlyOneMoves
  <1>4. ASSUME NEW r \in Recorders, NextNumber(r) PROVE AuditInv'
    <2> DEFINE record == [recorder[r] EXCEPT !.pc = "insert", !.number = Len(log) + 1]
    <2>1. recorder' = [recorder EXCEPT ![r] = record] /\ log' = log /\ now' = now
      BY <1>0, <1>4 DEF NextNumber, LogTypes
    <2>2. record \in NatRecorder /\ record.pc = "insert" /\ record.entry = recorder[r].entry
      <3>1. Len(log) + 1 \in Nat
        BY <1>0, RecorderTypes
      <3> QED
        BY <1>0, <3>1, RecorderTypes DEF NatRecorder
    <2> HIDE DEF record
    <2>3. recorder[r].pc = "number"
      BY <1>4 DEF NextNumber
    <2> QED
      BY <1>0, <2>1, <2>2, <2>3, OnlyOneMoves DEF PreparedInv
  <1>5. ASSUME NEW r \in Recorders, InsertEntry(r) PROVE AuditInv'
    <2> DEFINE record == [recorder[r] EXCEPT !.pc = "idle"]
               entry == recorder[r].entry
    <2>1. recorder' = [recorder EXCEPT ![r] = record] /\ now' = now
      BY <1>0, <1>5 DEF InsertEntry, LogTypes
    <2>2. record \in NatRecorder /\ record.pc = "idle"
      BY <1>0, RecorderTypes DEF NatRecorder
    <2>3. CASE log' = log
      <3> HIDE DEF record
      <3> QED
        BY <2>1, <2>2, <2>3, OnlyOneMoves
    <2>4. CASE log' = Append(log, entry)
      <3>1. /\ entry \in NatEntry /\ entry.previous <= Len(log) /\ entry.time <= now
            /\ entry.previous # 0 => log[entry.previous].time <= entry.time
        BY <1>0, <1>5, RecorderTypes DEF InsertEntry, PreparedInv
      <3> HIDE DEF record, entry
      <3>2. /\ Len(log') = Len(log) + 1 /\ log'[Len(log) + 1] = entry
            /\ \A i \in DOMAIN log : log'[i] = log[i]
            /\ log' \in Seq(NatEntry) /\ DOMAIN log' = 1..(Len(log) + 1) /\ DOMAIN log = 1..Len(log)
        BY <1>0, <2>4, <3>1 DEF LogTypes
      <3>3. LogTypes'
        BY <1>0, <2>1, <2>2, <3>2 DEF LogTypes
      <3>4. PastInv'
        BY <1>0, <2>1, <3>1, <3>2 DEF PastInv, LogTypes
      <3>5. LinksLeadBack'
        <4>1. ASSUME NEW i \in DOMAIN log
              PROVE  /\ log'[i].previous < i
                     /\ log'[i].previous # 0 => log'[log'[i].previous].time <= log'[i].time
          <5>1. log[i].previous < i /\ log[i].previous \in Nat
            BY <1>0, LoggedTypes DEF LinksLeadBack
          <5>2. log[i].previous # 0 => log[i].previous \in DOMAIN log
            BY <1>0, <3>2, <5>1, LoggedTypes
          <5> QED
            BY <1>0, <3>2, <5>1, <5>2 DEF LinksLeadBack
        <4>2. /\ entry.previous < Len(log) + 1
              /\ entry.previous # 0 => log'[entry.previous].time <= entry.time
          BY <1>0, <3>1, <3>2 DEF NatEntry, LogTypes
        <4> QED
          BY <1>0, <3>2, <4>1, <4>2 DEF LinksLeadBack, LogTypes
      <3>6. /\ recorder'[r].pc = "idle"
            /\ \A q \in Recorders : q # r => recorder'[q] = recorder[q]
        BY <1>0, <2>1, <2>2 DEF LogTypes
      <3>7. PreparedInv'
        <4> SUFFICES ASSUME NEW q \in Recorders, q # r
                     PROVE  /\ recorder[q].pc # "idle" => recorder[q].entry.previous <= Len(log) + 1
                            /\ recorder[q].pc \in {"number", "insert"} =>
                                  /\ recorder[q].entry.time <= now
                                  /\ recorder[q].entry.previous # 0 =>
                                        log'[recorder[q].entry.previous].time <= recorder[q].entry.time
          BY <2>1, <3>2, <3>6 DEF PreparedInv
        <4>1. recorder[q].pc # "idle" /\ recorder[q].entry.previous # 0 =>
                 recorder[q].entry.previous \in DOMAIN log
          BY <1>0, <3>2, RecorderTypes DEF PreparedInv
        <4> QED
          BY <1>0, <3>2, <4>1, RecorderTypes DEF PreparedInv
      <3> QED
        BY <3>3, <3>4, <3>5, <3>7 DEF AuditInv
    <2> QED
      BY <1>5, <2>3, <2>4 DEF InsertEntry
  <1>6. CASE UNCHANGED auditVars
    BY <1>0, <1>6 DEF auditVars, AuditInv, LogTypes, PastInv, PreparedInv, LinksLeadBack
  <1> QED
    BY <1>1, <1>2, <1>3, <1>4, <1>5, <1>6 DEF AuditNext

\* Recorders may fork the chain and draw numbers in another order than hashes: the links of every
\* entry still lead back, in numbers and in time, to the beginning of the log.
THEOREM ForksLeadBack == AuditSpec => []LinksLeadBack
  <1>1. AuditInv => LinksLeadBack
    BY DEF AuditInv
  <1> QED
    BY <1>1, InitAudit, AuditPreserved, PTL DEF AuditSpec

-----------------------------------------------------------------------------
(* Facts of a document *)

\* The three shapes of a key of a date: the date itself, the digits of a year the code takes for
\* no year, and the digits of a day and a month the code takes for a year.
Plain(key, d) == key = <<d.year, d.month, d.day>>
DayFirst(key, d) == key = <<100 * d.month + d.day, d.year % 100, d.year \div 100>>
YearFirst(key, d) == key = <<100 * d.day + d.month, d.year \div 100, d.year % 100>> /\ 100 * d.day + d.month \in 1900..2100

DaysOfMonth == 1..31
MonthsOfYear == 1..12
FourDigits == 1300..9999
IsDate(d) == d.day \in DaysOfMonth /\ d.month \in MonthsOfYear /\ d.year \in FourDigits

\* The parts of a date that is printed.
LEMMA DateParts ==
  ASSUME NEW d \in StoreDates
  PROVE  IsDate(d)
BY StoreAssumption DEF IsDate, DaysOfMonth, MonthsOfYear, FourDigits

\* Two digits stand for the year they were written for, from 1931 to 2030.
LEMMA ShortYearsAreTold ==
  ASSUME NEW year \in ShortYears
  PROVE  Pivot(year % 100) = year
<1>1. CASE year \in 1931..1999
  <2>1. year % 100 = year - 1900
    BY <1>1
  <2> QED
    BY <1>1, <2>1 DEF Pivot
<1>2. CASE year \in 2000..2030
  <2>1. year % 100 = year - 2000
    BY <1>2
  <2> QED
    BY <1>2, <2>1 DEF Pivot
<1> QED
  BY <1>1, <1>2 DEF ShortYears

\* Two numbers of two digits, written one after the other, can be taken apart again.
LEMMA MonthsAndDays ==
  ASSUME NEW a \in DaysOfMonth, NEW b \in DaysOfMonth
  PROVE  (100 * a + b) \div 100 = a /\ (100 * a + b) % 100 = b
BY DEF DaysOfMonth

\* A year is known by its first two and its last two digits.
LEMMA SameHundreds ==
  ASSUME NEW x \in FourDigits, NEW y \in FourDigits, x \div 100 = y \div 100, x % 100 = y % 100
  PROVE  x = y
BY DEF FourDigits

\* The digits of a day and a month say which day and which month.
LEMMA SamePairs ==
  ASSUME NEW a \in DaysOfMonth, NEW b \in DaysOfMonth, NEW c \in DaysOfMonth, NEW d \in DaysOfMonth,
         100 * a + b = 100 * c + d
  PROVE  a = c /\ b = d
BY DEF DaysOfMonth

\* The number of a month is the number of some day.
LEMMA MonthsAreDays == MonthsOfYear \subseteq DaysOfMonth
BY DEF MonthsOfYear, DaysOfMonth

\* The digits of a month and a day are no year of four digits, and no year 1900 to 2100.
LEMMA PairsAreEarly ==
  ASSUME NEW month \in MonthsOfYear, NEW day \in DaysOfMonth
  PROVE  100 * month + day \notin FourDigits /\ 100 * month + day \notin 1900..2100
BY DEF MonthsOfYear, DaysOfMonth, FourDigits

\* The first two digits of a year are the number of no month.
LEMMA CenturiesAreNoMonths ==
  ASSUME NEW year \in FourDigits
  PROVE  year \div 100 \notin MonthsOfYear
<1>1. year \div 100 >= 13
  BY DEF FourDigits
<1> QED
  BY <1>1 DEF MonthsOfYear

\* How eight digits are read, by the number the first four of them make.
LEMMA EightDigitsRead ==
  ASSUME NEW head, NEW tail
  PROVE  /\ head \in 1900..2100 => EightDigits(head, tail) = <<head, tail \div 100, tail % 100>>
         /\ head \notin 1900..2100 => EightDigits(head, tail) = <<tail, head % 100, head \div 100>>
BY DEF EightDigits

\* The key of a date has one of three shapes, whatever form the date is written in.
LEMMA KeyShapes ==
  ASSUME NEW v \in Value, v.form \in DateForms
  PROVE  \/ Plain(DateKey(v.form, v.is), v.is)
         \/ DayFirst(DateKey(v.form, v.is), v.is)
         \/ YearFirst(DateKey(v.form, v.is), v.is)
<1>1. v.is \in StoreDates /\ (v.form \in {"short", "packed_short"} => v.is.year \in ShortYears)
  BY DEF Value, DateForms, NumberForms
<1>2. v.is.day \in DaysOfMonth /\ v.is.month \in DaysOfMonth
  <2>1. IsDate(v.is)
    BY <1>1, DateParts
  <2> QED
    BY <2>1, MonthsAreDays DEF IsDate
<1>3. CASE v.form \in {"iso", "dotted"}
  BY <1>3 DEF DateKey, Plain
<1>4. CASE v.form \in {"short", "packed_short"}
  BY <1>1, <1>4, ShortYearsAreTold DEF DateKey, Plain
<1>5. CASE v.form = "packed_iso"
  <2>1. (100 * v.is.month + v.is.day) \div 100 = v.is.month /\ (100 * v.is.month + v.is.day) % 100 = v.is.day
    BY <1>2, MonthsAndDays
  <2> QED
    BY <1>5, <2>1 DEF DateKey, EightDigits, Plain, DayFirst
<1>6. CASE v.form = "packed"
  <2>1. (100 * v.is.day + v.is.month) \div 100 = v.is.day /\ (100 * v.is.day + v.is.month) % 100 = v.is.month
    BY <1>2, MonthsAndDays
  <2>2. DateKey(v.form, v.is) = EightDigits(100 * v.is.day + v.is.month, v.is.year)
    BY <1>6 DEF DateKey
  <2>3. CASE 100 * v.is.day + v.is.month \in 1900..2100
    BY <2>2, <2>3, EightDigitsRead DEF YearFirst
  <2>4. CASE 100 * v.is.day + v.is.month \notin 1900..2100
    BY <2>1, <2>2, <2>4, EightDigitsRead DEF Plain
  <2> QED
    BY <2>3, <2>4
<1> QED
  BY <1>3, <1>4, <1>5, <1>6 DEF DateForms

\* A key of these shapes is the key of one date only.
LEMMA ShapesTell ==
  ASSUME NEW d \in StoreDates, NEW e \in StoreDates, NEW key,
         Plain(key, d) \/ DayFirst(key, d) \/ YearFirst(key, d),
         Plain(key, e) \/ DayFirst(key, e) \/ YearFirst(key, e)
  PROVE  d = e
<1>1. IsDate(d) /\ IsDate(e)
  BY DateParts
<1>2. d.day = e.day /\ d.month = e.month /\ d.year = e.year => d = e
  BY StoreAssumption
<1>3. ASSUME NEW f \in StoreDates, NEW g \in StoreDates, Plain(key, f)
      PROVE  ~DayFirst(key, g) /\ ~YearFirst(key, g)
  <2>1. IsDate(f) /\ IsDate(g)
    BY DateParts
  <2>2. ~DayFirst(key, g)
    <3>1. f.year \in FourDigits /\ 100 * g.month + g.day \notin FourDigits
      BY <2>1, PairsAreEarly DEF IsDate
    <3>2. DayFirst(key, g) => f.year = 100 * g.month + g.day
      BY <1>3 DEF Plain, DayFirst
    <3> QED
      BY <3>1, <3>2
  <2>3. ~YearFirst(key, g)
    <3>1. f.month \in MonthsOfYear /\ g.year \div 100 \notin MonthsOfYear
      BY <2>1, CenturiesAreNoMonths DEF IsDate
    <3>2. YearFirst(key, g) => f.month = g.year \div 100
      BY <1>3 DEF Plain, YearFirst
    <3> QED
      BY <3>1, <3>2
  <2> QED
    BY <2>2, <2>3
<1>4. ASSUME NEW f \in StoreDates, NEW g \in StoreDates, DayFirst(key, f)
      PROVE  ~YearFirst(key, g)
  <2>1. IsDate(f) /\ IsDate(g)
    BY DateParts
  <2>2. 100 * f.month + f.day \notin 1900..2100
    BY <2>1, PairsAreEarly DEF IsDate
  <2>3. YearFirst(key, g) => 100 * f.month + f.day = 100 * g.day + g.month /\ 100 * g.day + g.month \in 1900..2100
    BY <1>4 DEF DayFirst, YearFirst
  <2> QED
    BY <2>2, <2>3
<1>5. CASE Plain(key, d) /\ Plain(key, e)
  BY <1>2, <1>5 DEF Plain
<1>6. CASE DayFirst(key, d) /\ DayFirst(key, e)
  <2>1. /\ 100 * d.month + d.day = 100 * e.month + e.day
        /\ d.year % 100 = e.year % 100 /\ d.year \div 100 = e.year \div 100
    BY <1>6 DEF DayFirst
  <2>2. d.year = e.year
    BY <1>1, <2>1, SameHundreds DEF IsDate
  <2>3. d.month = e.month /\ d.day = e.day
    BY <1>1, <2>1, SamePairs, MonthsAreDays DEF IsDate
  <2> QED
    BY <1>2, <2>2, <2>3
<1>7. CASE YearFirst(key, d) /\ YearFirst(key, e)
  <2>1. /\ 100 * d.day + d.month = 100 * e.day + e.month
        /\ d.year % 100 = e.year % 100 /\ d.year \div 100 = e.year \div 100
    BY <1>7 DEF YearFirst
  <2>2. d.year = e.year
    BY <1>1, <2>1, SameHundreds DEF IsDate
  <2>3. d.month = e.month /\ d.day = e.day
    BY <1>1, <2>1, SamePairs, MonthsAreDays DEF IsDate
  <2> QED
    BY <1>2, <2>2, <2>3
<1> QED
  BY <1>3, <1>4, <1>5, <1>6, <1>7

\* What a reading is made of.
LEMMA ReadingTypes ==
  ASSUME NEW r \in Readable
  PROVE  /\ r \in Reading /\ r.value \in Value
         /\ IsDateField(r.field) <=> r.value.form \in DateForms
BY DEF Readable, Reading

\* Readings that share a key say the same.
LEMMA KeysTell ==
  ASSUME NEW r \in Readable, NEW s \in Readable, FactKey(r) = FactKey(s)
  PROVE  Says(r) = Says(s)
<1>1. DedupField(r.field) = DedupField(s.field) /\ (IsDateField(r.field) <=> IsDateField(s.field))
  BY DEF FactKey, IsDateField
<1>2. r.value \in Value /\ s.value \in Value
  BY ReadingTypes
<1>3. CASE IsDateField(r.field)
  <2>1. r.value.form \in DateForms /\ s.value.form \in DateForms
    BY <1>1, <1>3, ReadingTypes
  <2>2. DateKey(r.value.form, r.value.is) = DateKey(s.value.form, s.value.is)
    BY <1>1, <1>3 DEF FactKey
  <2>3. r.value.is \in StoreDates /\ s.value.is \in StoreDates
    BY <1>2, <2>1 DEF Value, DateForms, NumberForms
  <2>4. r.value.is = s.value.is
    BY <1>2, <2>1, <2>2, <2>3, KeyShapes, ShapesTell
  <2> QED
    BY <1>1, <2>4 DEF Says
<1>4. CASE ~IsDateField(r.field)
  <2>1. PhoneKey(r.value.form, r.value.is) = PhoneKey(s.value.form, s.value.is)
    BY <1>1, <1>4 DEF FactKey
  <2>2. r.value.is = s.value.is
    BY <2>1 DEF PhoneKey
  <2> QED
    BY <1>1, <2>2 DEF Says
<1> QED
  BY <1>3, <1>4

Facts == [reading : Readable, status : FactStatus]

StoreInv ==
    /\ facts \in Seq(Facts)
    /\ evidence \subseteq [reading : Readable, fact : DOMAIN facts]
    /\ offered \subseteq Readable
    /\ \A e \in evidence : e.reading = facts[e.fact].reading
    /\ \A i \in DOMAIN facts : \E e \in evidence : e.fact = i
    /\ \A r \in offered : FactKey(r) \in KnownKeys

\* The invariant says what the run checks.
LEMMA StoreMeans ==
  ASSUME StoreInv
  PROVE  StoreTypeOK /\ NothingNewIsDropped
<1>1. StoreTypeOK
  <2>1. \A i \in DOMAIN facts : facts[i] \in Facts
    BY DEF StoreInv
  <2> QED
    BY <2>1 DEF StoreInv, StoreTypeOK, Facts
<1>2. ASSUME NEW r \in offered
      PROVE  \E e \in evidence : Says(facts[e.fact].reading) = Says(r) /\ Says(e.reading) = Says(r)
  <2>1. PICK i \in DOMAIN facts : FactKey(facts[i].reading) = FactKey(r)
    BY <1>2 DEF StoreInv, KnownKeys
  <2>2. PICK e \in evidence : e.fact = i
    BY <2>1 DEF StoreInv
  <2>3. facts[i].reading \in Readable /\ r \in Readable /\ e.reading = facts[i].reading
    BY <1>2, <2>1, <2>2 DEF StoreInv, Facts
  <2>4. Says(facts[i].reading) = Says(r)
    BY <2>1, <2>3, KeysTell
  <2> QED
    BY <2>2, <2>3, <2>4
<1> QED
  BY <1>1, <1>2 DEF NothingNewIsDropped

\* Two sequences, one after the other.
LEMMA Joined ==
  ASSUME NEW S, NEW s \in Seq(S), NEW t \in Seq(S)
  PROVE  s \o t \in Seq(S) /\ Len(s \o t) = Len(s) + Len(t)
OBVIOUS

\* A call of persist_knowledge_build keeps the invariant: what is dropped shares its key with a
\* fact that is stored already or goes before it in the batch.
LEMMA PersistKeeps ==
  ASSUME StoreInv, NEW n \in Nat, NEW batch \in [1..n -> Readable], PersistKnowledgeBuild(batch)
  PROVE  StoreInv'
<1> DEFINE places == {i \in DOMAIN batch :
                         FactKey(batch[i]) \notin KnownKeys \cup {FactKey(batch[j]) : j \in 1..(i - 1)}}
           kept == KeptOf(batch)
           size == Cardinality(places)
           order == InOrder(places)
           new == [i \in DOMAIN kept |-> NewFact(kept[i])]
<1>1. batch \in Seq(Readable) /\ DOMAIN batch = 1..n
  OBVIOUS
<1>2. places \in SUBSET DOMAIN batch
  OBVIOUS
<1>3. /\ offered' = offered \cup {batch[i] : i \in 1..n}
      /\ facts' = facts \o new
      /\ evidence' = evidence \cup {NewEvidence(kept[i], Len(facts) + i) : i \in DOMAIN kept}
  BY <1>1 DEF PersistKnowledgeBuild, Range
<1>4. ASSUME NEW i \in 1..n
      PROVE  \/ FactKey(batch[i]) \in KnownKeys
             \/ \E j \in places : FactKey(batch[j]) = FactKey(batch[i])
  <2> DEFINE alike == {j \in 1..n : FactKey(batch[j]) = FactKey(batch[i])}
  <2>1. alike \in SUBSET Nat /\ alike # {}
    BY <1>4
  <2> HIDE DEF alike
  <2>2. PICK least \in alike : \A j \in alike : least <= j
    BY <2>1, LeastNumber
  <2>3. least \in 1..n /\ FactKey(batch[least]) = FactKey(batch[i])
    BY <2>2 DEF alike
  <2>4. \A j \in 1..(least - 1) : FactKey(batch[j]) # FactKey(batch[least])
    BY <2>2, <2>3 DEF alike
  <2> QED
    BY <1>1, <2>3, <2>4
<1> HIDE DEF places
<1>5. /\ kept = [k \in 1..size |-> batch[order[k]]]
      /\ size \in Nat /\ order \in [1..size -> places] /\ places = {order[k] : k \in 1..size}
      /\ kept \in Seq(Readable)
  <2>1. kept = AtPlaces(batch, places)
    BY DEF KeptOf, places
  <2>2. /\ size \in Nat /\ order \in [1..size -> places] /\ places = {order[k] : k \in 1..size}
        /\ AtPlaces(batch, places) \in Seq(Readable)
    BY <1>1, <1>2, AtPlacesKeepsOrder
  <2> QED
    BY <2>1, <2>2 DEF AtPlaces
<1> HIDE DEF kept, size, order
<1>6. \A k \in 1..size : kept[k] \in Readable /\ kept[k] = batch[order[k]]
  BY <1>5
<1>7. DOMAIN kept = 1..size
  BY <1>5
<1>8. new \in Seq(Facts) /\ Len(new) = size /\ \A k \in 1..size : new[k] = [reading |-> kept[k], status |-> "pending"]
  <2>1. \A k \in 1..size : [reading |-> kept[k], status |-> "pending"] \in Facts
    BY <1>6 DEF Facts, FactStatus
  <2>2. new = [k \in 1..size |-> [reading |-> kept[k], status |-> "pending"]]
    BY <1>7 DEF NewFact
  <2> HIDE DEF new
  <2>3. new \in [1..size -> Facts]
    BY <2>1, <2>2
  <2>4. size \in Nat
    BY <1>5
  <2>5. new \in Seq(Facts) /\ Len(new) = size
    BY <2>3, <2>4
  <2> QED
    BY <2>2, <2>5
<1> HIDE DEF new
<1>9. facts \in Seq(Facts) /\ Len(facts) \in Nat /\ DOMAIN facts = 1..Len(facts)
  BY DEF StoreInv
<1>10. /\ facts' \in Seq(Facts) /\ Len(facts') = Len(facts) + size
       /\ \A i \in DOMAIN facts : facts'[i] = facts[i]
       /\ \A k \in 1..size : facts'[Len(facts) + k] = new[k]
  <2>1. new \in Seq(Facts) /\ Len(new) = size /\ size \in Nat
    BY <1>5, <1>8
  <2>2. facts' = facts \o new
    BY <1>3
  <2>3. facts' \in Seq(Facts) /\ Len(facts') = Len(facts) + size
    <3>1. facts \in Seq(Facts)
      BY <1>9
    <3>2. facts \o new \in Seq(Facts) /\ Len(facts \o new) = Len(facts) + Len(new)
      BY <2>1, <3>1, Joined
    <3> QED
      BY <2>1, <2>2, <3>2
  <2>4. ASSUME NEW i \in 1..(Len(facts) + size)
        PROVE  facts'[i] = IF i <= Len(facts) THEN facts[i] ELSE new[i - Len(facts)]
    BY <1>9, <2>1, <2>2
  <2>5. ASSUME NEW i \in DOMAIN facts PROVE facts'[i] = facts[i]
    <3>1. i \in 1..(Len(facts) + size) /\ i <= Len(facts)
      BY <1>9, <2>1
    <3> QED
      BY <2>4, <3>1
  <2>6. ASSUME NEW k \in 1..size PROVE facts'[Len(facts) + k] = new[k]
    <3>1. Len(facts) + k \in 1..(Len(facts) + size) /\ ~(Len(facts) + k <= Len(facts)) /\ Len(facts) + k - Len(facts) = k
      BY <1>9, <2>1
    <3> QED
      BY <2>4, <3>1
  <2> QED
    BY <2>3, <2>5, <2>6
<1>11. DOMAIN facts' = 1..(Len(facts) + size) /\ DOMAIN facts \subseteq DOMAIN facts'
       /\ \A k \in 1..size : Len(facts) + k \in DOMAIN facts'
  <2>1. DOMAIN facts' = 1..(Len(facts) + size)
    BY <1>10
  <2>2. DOMAIN facts \subseteq DOMAIN facts' /\ \A k \in 1..size : Len(facts) + k \in DOMAIN facts'
    BY <1>5, <1>9, <2>1
  <2> QED
    BY <2>1, <2>2
<1>12. ASSUME NEW e \in evidence'
       PROVE  /\ e \in [reading : Readable, fact : DOMAIN facts']
              /\ e.reading = facts'[e.fact].reading
  <2>1. CASE e \in evidence
    <3>1. e \in [reading : Readable, fact : DOMAIN facts] /\ e.reading = facts[e.fact].reading
      BY <2>1 DEF StoreInv
    <3>2. facts'[e.fact] = facts[e.fact] /\ e.fact \in DOMAIN facts'
      BY <1>10, <1>11, <3>1
    <3> QED
      BY <3>1, <3>2
  <2>2. CASE e \notin evidence
    <3>1. PICK k \in 1..size : e = NewEvidence(kept[k], Len(facts) + k)
      BY <1>3, <1>7, <2>2
    <3>2. e = [reading |-> kept[k], fact |-> Len(facts) + k] /\ kept[k] \in Readable
      BY <1>6, <3>1 DEF NewEvidence
    <3>3. Len(facts) + k \in DOMAIN facts' /\ facts'[Len(facts) + k] = new[k]
      BY <1>10, <1>11
    <3>4. new[k].reading = kept[k]
      BY <1>8
    <3> QED
      BY <3>2, <3>3, <3>4
  <2> QED
    BY <2>1, <2>2
<1>13. ASSUME NEW i \in DOMAIN facts'
       PROVE  \E e \in evidence' : e.fact = i
  <2>1. CASE i \in DOMAIN facts
    BY <1>3, <2>1 DEF StoreInv
  <2>2. CASE i \notin DOMAIN facts
    <3>3. i - Len(facts) \in 1..size /\ i = Len(facts) + (i - Len(facts))
      BY <1>5, <1>9, <1>11, <1>13, <2>2
    <3> DEFINE k == i - Len(facts)
    <3>1. k \in 1..size /\ i = Len(facts) + k
      BY <3>3
    <3> HIDE DEF k
    <3>2. NewEvidence(kept[k], Len(facts) + k) \in evidence'
      BY <1>3, <1>7, <3>1
    <3> QED
      BY <3>1, <3>2 DEF NewEvidence
  <2> QED
    BY <2>1, <2>2
<1>14. \A i \in DOMAIN facts' : FactKey(facts'[i].reading) \in KnownKeys'
  BY DEF KnownKeys
<1>15. KnownKeys \subseteq KnownKeys'
  BY <1>10, <1>11, <1>14 DEF KnownKeys
<1>16. ASSUME NEW j \in places
       PROVE  FactKey(batch[j]) \in KnownKeys'
  <2>1. PICK k \in 1..size : j = order[k]
    BY <1>5
  <2>2. facts'[Len(facts) + k].reading = batch[j] /\ Len(facts) + k \in DOMAIN facts'
    <3>1. facts'[Len(facts) + k] = new[k] /\ Len(facts) + k \in DOMAIN facts'
      BY <1>10, <1>11
    <3>2. new[k].reading = kept[k] /\ kept[k] = batch[j]
      BY <1>6, <1>8, <2>1
    <3> QED
      BY <3>1, <3>2
  <2> QED
    BY <1>14, <2>2
<1>17. ASSUME NEW r \in offered'
       PROVE  r \in Readable /\ FactKey(r) \in KnownKeys'
  <2>1. CASE r \in offered
    BY <1>15, <2>1 DEF StoreInv
  <2>2. CASE r \notin offered
    <3>1. PICK i \in 1..n : r = batch[i]
      BY <1>3, <2>2
    <3> QED
      BY <1>4, <1>15, <1>16, <3>1
  <2> QED
    BY <2>1, <2>2
<1>18. evidence' \subseteq [reading : Readable, fact : DOMAIN facts']
  BY <1>12
<1> QED
  BY <1>10, <1>12, <1>13, <1>17, <1>18 DEF StoreInv

\* A fact that is accepted or rejected stays, with its evidence.
LEMMA StatusKeeps ==
  ASSUME StoreInv, NEW i \in DOMAIN facts, AcceptFact(i) \/ RejectFact(i)
  PROVE  StoreInv'
<1>1. PICK to \in FactStatus : facts' = [facts EXCEPT ![i].status = to] /\ UNCHANGED <<evidence, offered>>
  BY DEF AcceptFact, RejectFact, SetStatus, FactStatus
<1>2. facts \in Seq(Facts) /\ facts[i] \in Facts
  BY DEF StoreInv
<1>3. [facts[i] EXCEPT !.status = to] \in Facts /\ [facts[i] EXCEPT !.status = to].reading = facts[i].reading
  BY <1>2 DEF Facts
<1>4. facts' \in Seq(Facts) /\ DOMAIN facts' = DOMAIN facts
  BY <1>1, <1>2, <1>3
<1>5. \A j \in DOMAIN facts : facts'[j].reading = facts[j].reading
  BY <1>1, <1>2, <1>3
<1>6. KnownKeys' = KnownKeys
  BY <1>4, <1>5 DEF KnownKeys
<1>7. evidence' = evidence /\ offered' = offered
  BY <1>1
<1> QED
  BY <1>4, <1>5, <1>6, <1>7 DEF StoreInv

\* Every step of the store keeps the invariant.
LEMMA StorePreserved == StoreInv /\ [StoreNext]_storeVars => StoreInv'
<1> SUFFICES ASSUME StoreInv, [StoreNext]_storeVars
             PROVE  StoreInv'
  OBVIOUS
<1>1. CASE Persist
  BY <1>1, PersistKeeps DEF Persist
<1>2. ASSUME NEW i \in DOMAIN facts, AcceptFact(i) \/ RejectFact(i)
      PROVE  StoreInv'
  BY <1>2, StatusKeeps
<1>3. CASE UNCHANGED storeVars
  <2>1. facts' = facts /\ evidence' = evidence /\ offered' = offered
    BY <1>3 DEF storeVars
  <2>2. KnownKeys' = KnownKeys
    BY <2>1 DEF KnownKeys
  <2> QED
    BY <2>1, <2>2 DEF StoreInv
<1> QED
  BY <1>1, <1>2, <1>3 DEF StoreNext

\* Deduplication drops what is known and nothing else: of every reading that was offered some fact
\* with evidence says the same, for any dates of years with four digits from 1300 on and any phone
\* numbers.
THEOREM NothingIsDropped == StoreSpec => []NothingNewIsDropped
<1>1. StoreInit => StoreInv
  BY DEF StoreInit, StoreInv, KnownKeys
<1>2. StoreInv => NothingNewIsDropped
  BY StoreMeans
<1> QED
  BY <1>1, <1>2, StorePreserved, PTL DEF StoreSpec

-----------------------------------------------------------------------------
(* Migration of the old tables *)

Row == OldRows \cup NewRows
TableOfRows == [schema : {"none", "old", "new"}, rows : SUBSET Row]
Converting(w) == worker[w] \in {"create", "copy", "drop"}

MigrationTypes ==
    /\ tables \in [Tables -> TableOfRows]
    /\ aside \in [Tables -> TableOfRows]
    /\ starter \in StarterPc
    /\ worker \in [Extractions -> WorkerPc]
    /\ saved \in [Tables -> SUBSET Row]
    /\ disturbed \in BOOLEAN
    /\ \A n \in Tables : /\ ~IsThere(tables[n]) => tables[n].rows = {}
                         /\ ~IsThere(aside[n]) => aside[n].rows = {}
    /\ starter = "copy" => IsThere(tables["jobs"])

\* where the jobs are while the start-up converts their table, unless an earlier one was cut off
JobsKept ==
    \/ disturbed
    \/ /\ starter = "create" => saved["jobs"] = aside["jobs"].rows
       /\ starter = "copy" => saved["jobs"] = tables["jobs"].rows \cup aside["jobs"].rows
       /\ starter \notin {"create", "copy"} => saved["jobs"] = tables["jobs"].rows

\* one extraction at a time converts the table of noise items, and only in a running application
OneConverts ==
    /\ starter # "running" => \A w \in Extractions : worker[w] = "idle"
    /\ \A v, w \in Extractions : Converting(v) /\ Converting(w) => v = w

\* the table set aside stays until it is dropped, and is dropped when its rows are copied
NoiseAside ==
    \A w \in Extractions :
       /\ Converting(w) => IsThere(aside["noise_items"])
       /\ worker[w] = "create" => ~IsThere(tables["noise_items"])
       /\ worker[w] \in {"copy", "drop"} => IsThere(tables["noise_items"])
       /\ worker[w] = "drop" => aside["noise_items"].rows \subseteq tables["noise_items"].rows

\* only a conversion that was cut off leaves a table aside
AsideIsConverted ==
    disturbed \/ (IsThere(aside["noise_items"]) => \E w \in Extractions : Converting(w))

NoiseKept == saved["noise_items"] = tables["noise_items"].rows \cup aside["noise_items"].rows

MigrationInv ==
    MigrationTypes /\ JobsKept /\ OneConverts /\ NoiseAside /\ AsideIsConverted /\ NoiseKept

-----------------------------------------------------------------------------

\* The database starts with its rows where the invariant says they are.
LEMMA MigrationBegins == MigrationInit => MigrationInv
<1> SUFFICES ASSUME MigrationInit PROVE MigrationInv
  OBVIOUS
<1>1. PICK first \in [Tables -> {NoTable, [schema |-> "old", rows |-> OldRows], [schema |-> "new", rows |-> OldRows]}] :
         tables = first
  BY DEF MigrationInit
<1>2. tables \in [Tables -> TableOfRows] /\ \A n \in Tables : ~IsThere(tables[n]) => tables[n].rows = {}
  BY <1>1 DEF TableOfRows, Row, NoTable, IsThere
<1>3. aside \in [Tables -> TableOfRows] /\ \A n \in Tables : ~IsThere(aside[n]) /\ aside[n].rows = {}
  BY DEF MigrationInit, TableOfRows, Row, NoTable, IsThere
<1>4. saved \in [Tables -> SUBSET Row] /\ \A n \in Tables : saved[n] = tables[n].rows
  BY <1>2 DEF MigrationInit, TableOfRows
<1>5. MigrationTypes
  BY <1>2, <1>3, <1>4 DEF MigrationInit, MigrationTypes, StarterPc, WorkerPc
<1>6. JobsKept /\ NoiseKept
  BY <1>3, <1>4 DEF MigrationInit, JobsKept, NoiseKept, Tables
<1>7. OneConverts /\ NoiseAside /\ AsideIsConverted
  BY <1>3 DEF MigrationInit, OneConverts, NoiseAside, AsideIsConverted, Converting, Tables
<1> QED
  BY <1>5, <1>6, <1>7 DEF MigrationInv

\* The start-up converts the jobs alone: what the noise items need holds before it does
LEMMA StarterKeeps ==
  ASSUME MigrationInv,
         CheckJobs \/ DropJobsAside \/ RenameJobs \/ CreateJobs \/ CopyJobs
  PROVE  MigrationInv'
<1> USE DEF Tables
<1>1. /\ UNCHANGED <<worker, saved, disturbed>>
      /\ tables'["noise_items"] = tables["noise_items"]
      /\ aside'["noise_items"] = aside["noise_items"]
      /\ starter # "running"
  BY DEF MigrationInv, MigrationTypes, CheckJobs, DropJobsAside, RenameJobs, CreateJobs, CopyJobs, StarterGoes, Rename
<1>2. MigrationTypes'
  <2> USE DEF MigrationInv, MigrationTypes, StarterGoes, StarterPc, TableOfRows, IsThere, NoTable, NewTable
  <2>1. CASE CheckJobs
    BY <2>1 DEF CheckJobs
  <2>2. CASE DropJobsAside
    BY <2>2 DEF DropJobsAside
  <2>3. CASE RenameJobs
    BY <2>3 DEF RenameJobs, Rename
  <2>4. CASE CreateJobs
    BY <2>4 DEF CreateJobs
  <2>5. CASE CopyJobs
    <3>1. aside' \in [Tables -> TableOfRows] /\ aside'["jobs"].rows = {} /\ starter' \in StarterPc
      BY <2>5 DEF CopyJobs
    <3>2. tables' \in [Tables -> TableOfRows]
      BY <2>5 DEF CopyJobs
    <3>3. IsThere(tables["jobs"])
      BY <2>5 DEF CopyJobs
    <3> QED
      BY <2>5, <1>1, <3>1, <3>2, <3>3 DEF CopyJobs
  <2> QED
    BY <2>1, <2>2, <2>3, <2>4, <2>5
<1>3. JobsKept'
  <2> USE DEF MigrationInv, MigrationTypes, JobsKept, StarterGoes, TableOfRows, NoTable, NewTable
  <2>1. CASE CheckJobs
    BY <2>1 DEF CheckJobs
  <2>2. CASE DropJobsAside
    BY <2>2 DEF DropJobsAside
  <2>3. CASE RenameJobs
    BY <2>3 DEF RenameJobs, Rename
  <2>4. CASE CreateJobs
    BY <2>4 DEF CreateJobs
  <2>5. CASE CopyJobs
    BY <2>5 DEF CopyJobs
  <2> QED
    BY <2>1, <2>2, <2>3, <2>4, <2>5
<1>4. OneConverts' /\ NoiseAside' /\ AsideIsConverted' /\ NoiseKept'
  BY <1>1 DEF MigrationInv, OneConverts, NoiseAside, AsideIsConverted, NoiseKept, Converting
<1> QED
  BY <1>2, <1>3, <1>4 DEF MigrationInv

\* A start-up sets a table aside only when it is the old one, and loses no row by it.
LEMMA BootstrapKeeps == MigrationInv /\ Bootstrap => MigrationInv'
<1> SUFFICES ASSUME MigrationInv, Bootstrap PROVE MigrationInv'
  OBVIOUS
<1> USE DEF Tables
<1>1. /\ starter' = "check" /\ UNCHANGED <<worker, saved, disturbed, aside>>
      /\ \A w \in Extractions : worker[w] = "idle"
  BY DEF Bootstrap, StarterGoes, MigrationInv, OneConverts
<1>2. \A n \in Tables : /\ tables'[n] \in TableOfRows /\ IsThere(tables'[n])
                        /\ tables'[n].rows = tables[n].rows
  BY DEF Bootstrap, Bootstrapped, NewTable, MigrationInv, MigrationTypes, TableOfRows, IsThere
<1>3. tables' \in [Tables -> TableOfRows]
  BY <1>2 DEF Bootstrap
<1>4. MigrationTypes'
  BY <1>1, <1>2, <1>3 DEF MigrationInv, MigrationTypes, StarterPc, IsThere
<1>5. JobsKept' /\ NoiseKept'
  BY <1>1, <1>2 DEF Bootstrap, MigrationInv, JobsKept, NoiseKept
<1>6. OneConverts' /\ NoiseAside' /\ AsideIsConverted'
  BY <1>1 DEF MigrationInv, OneConverts, NoiseAside, AsideIsConverted, Converting
<1> QED
  BY <1>4, <1>5, <1>6 DEF MigrationInv

\* A crash between two statements of a start-up or of a conversion moves no row.
LEMMA CrashKeeps == MigrationInv /\ MigrationCrash => MigrationInv'
<1> SUFFICES ASSUME MigrationInv, MigrationCrash PROVE MigrationInv'
  OBVIOUS
<1>1. /\ starter' = "bootstrap" /\ UNCHANGED <<tables, aside, saved>>
      /\ worker' = [w \in Extractions |-> "idle"]
      /\ disturbed' = (disturbed \/ Migrating)
  BY DEF MigrationCrash
<1>2. disturbed' \in BOOLEAN /\ (~disturbed' => ~disturbed /\ ~Migrating)
  BY <1>1 DEF MigrationInv, MigrationTypes, Migrating
<1>3. MigrationTypes'
  BY <1>1, <1>2 DEF MigrationInv, MigrationTypes, StarterPc, WorkerPc
<1>4. JobsKept'
  BY <1>1, <1>2 DEF MigrationInv, JobsKept, Migrating
<1>5. AsideIsConverted'
  BY <1>1, <1>2 DEF MigrationInv, AsideIsConverted, Migrating, Converting
<1>6. OneConverts' /\ NoiseAside' /\ NoiseKept'
  BY <1>1 DEF MigrationInv, OneConverts, NoiseAside, NoiseKept, Converting
<1> QED
  BY <1>3, <1>4, <1>5, <1>6 DEF MigrationInv

-----------------------------------------------------------------------------
\* Every step of an extraction, and its saving.  Only the noise items and one extraction change.
LEMMA ExtractionKeeps ==
  ASSUME MigrationInv, NEW w \in Extractions,
         \/ StartExtraction(w) \/ CheckNoise(w) \/ RenameNoise(w) \/ CreateNoiseTable(w)
         \/ CopyNoise(w) \/ DropNoiseAside(w) \/ \E r \in NewRows : SaveNoise(w, r)
  PROVE  MigrationInv'
<1> USE DEF Tables
<1>1. PICK pc \in WorkerPc : worker' = [worker EXCEPT ![w] = pc] /\ UNCHANGED <<starter, disturbed>>
  BY DEF StartExtraction, CheckNoise, RenameNoise, CreateNoiseTable, CopyNoise, DropNoiseAside, SaveNoise, WorkerGoes, WorkerPc
<1>2. worker'[w] = pc /\ \A v \in Extractions \ {w} : worker'[v] = worker[v]
  BY <1>1 DEF MigrationInv, MigrationTypes
<1>3. /\ tables'["jobs"] = tables["jobs"] /\ aside'["jobs"] = aside["jobs"]
      /\ saved'["jobs"] = saved["jobs"]
  BY DEF MigrationInv, MigrationTypes, StartExtraction, CheckNoise, RenameNoise, CreateNoiseTable,
         CopyNoise, DropNoiseAside, SaveNoise, Rename
<1>4. starter = "running"
  BY DEF MigrationInv, OneConverts, MigrationTypes, StartExtraction, CheckNoise, RenameNoise, CreateNoiseTable,
         CopyNoise, DropNoiseAside, SaveNoise
<1>5. JobsKept'
  BY <1>1, <1>3 DEF MigrationInv, JobsKept
<1>6. ASSUME UNCHANGED <<tables, aside, saved>>, ~Converting(w), pc \notin {"create", "copy", "drop"}
      PROVE  MigrationInv'
  <2>1. \A v \in Extractions : Converting(v)' <=> Converting(v)
    BY <1>2, <1>6 DEF Converting
  <2>2. OneConverts'
    BY <1>1, <1>4, <2>1 DEF MigrationInv, OneConverts
  <2>3. NoiseAside'
    BY <1>2, <1>6, <2>1 DEF MigrationInv, NoiseAside, Converting
  <2>4. AsideIsConverted'
    BY <1>1, <1>6, <2>1 DEF MigrationInv, AsideIsConverted
  <2> QED
    BY <1>1, <1>2, <1>4, <1>5, <1>6, <2>2, <2>3, <2>4
    DEF MigrationInv, MigrationTypes, NoiseKept
<1>7. ASSUME UNCHANGED saved, Converting(w) \/ worker[w] = "rename", 
             tables'["noise_items"] \in TableOfRows, aside'["noise_items"] \in TableOfRows,
             tables' = [tables EXCEPT !["noise_items"] = tables'["noise_items"]],
             aside' = [aside EXCEPT !["noise_items"] = aside'["noise_items"]],
             ~IsThere(tables'["noise_items"]) => tables'["noise_items"].rows = {},
             ~IsThere(aside'["noise_items"]) => aside'["noise_items"].rows = {}
      PROVE  MigrationTypes'
  BY <1>1, <1>3, <1>4, <1>7 DEF MigrationInv, MigrationTypes, IsThere
<1>8. CASE StartExtraction(w)
  BY <1>1, <1>2, <1>6, <1>8 DEF StartExtraction, WorkerGoes, Converting
<1>9. CASE CheckNoise(w)
  BY <1>1, <1>2, <1>6, <1>9 DEF CheckNoise, WorkerGoes, Converting
<1>10. CASE RenameNoise(w)
  <2>1. CASE ~(IsThere(tables["noise_items"]) /\ ~IsThere(aside["noise_items"]))
    BY <1>10, <2>1, <1>1, <1>2, <1>6 DEF RenameNoise, WorkerGoes, Converting
  <2>2. CASE IsThere(tables["noise_items"]) /\ ~IsThere(aside["noise_items"])
    <3>1. /\ worker[w] = "rename" /\ pc = "create" /\ UNCHANGED saved
          /\ aside' = [aside EXCEPT !["noise_items"] = tables["noise_items"]]
          /\ tables' = [tables EXCEPT !["noise_items"] = NoTable]
      BY <1>10, <2>2, <1>1, <1>2 DEF RenameNoise, Rename, WorkerGoes, MigrationInv, MigrationTypes
    <3>2. /\ aside'["noise_items"] = tables["noise_items"] /\ IsThere(aside'["noise_items"])
          /\ tables'["noise_items"] = NoTable /\ ~IsThere(NoTable) /\ NoTable.rows = {} /\ NoTable \in TableOfRows
      BY <3>1, <2>2 DEF MigrationInv, MigrationTypes, IsThere, NoTable, TableOfRows
    <3>3. \A v \in Extractions : ~Converting(v)
      BY <2>2 DEF MigrationInv, NoiseAside
    <3>4. MigrationTypes'
      BY <1>7, <3>1, <3>2 DEF MigrationInv, MigrationTypes
    <3>5. \A v \in Extractions : Converting(v)' <=> v = w
      BY <1>2, <3>1, <3>3 DEF Converting
    <3>6. OneConverts'
      BY <3>5, <1>1, <1>4 DEF OneConverts
    <3>7. NoiseAside'
      BY <1>2, <3>1, <3>2, <3>3, <3>5 DEF NoiseAside, Converting
    <3>8. AsideIsConverted'
      BY <3>5 DEF AsideIsConverted
    <3>9. aside["noise_items"].rows = {}
      BY <2>2 DEF MigrationInv, MigrationTypes
    <3>10. NoiseKept'
      BY <3>1, <3>2, <3>9 DEF NoiseKept, MigrationInv
    <3> QED
      BY <1>5, <3>4, <3>6, <3>7, <3>8, <3>10 DEF MigrationInv
  <2> QED
    BY <2>1, <2>2
<1>11. ASSUME Converting(w), UNCHANGED saved,
              pc \in {"copy", "drop"} \/ (pc = "save" /\ ~IsThere(aside'["noise_items"]))
       PROVE  /\ OneConverts' /\ AsideIsConverted'
              /\ \A v \in Extractions \ {w} : ~Converting(v) /\ ~Converting(v)'
  <2>1. \A v \in Extractions \ {w} : ~Converting(v) /\ ~Converting(v)'
    BY <1>2, <1>11 DEF MigrationInv, OneConverts, Converting
  <2>2. OneConverts'
    BY <2>1, <1>1, <1>4 DEF OneConverts
  <2>3. AsideIsConverted'
    BY <1>1, <1>2, <1>11 DEF AsideIsConverted, Converting
  <2> QED
    BY <2>1, <2>2, <2>3
<1>12. CASE CreateNoiseTable(w)
  <2>1. /\ worker[w] = "create" /\ pc = "copy" /\ UNCHANGED <<aside, saved>>
        /\ tables' = [tables EXCEPT !["noise_items"] = NewTable]
    BY <1>12, <1>1, <1>2 DEF CreateNoiseTable, WorkerGoes, MigrationInv, MigrationTypes
  <2>2. /\ tables'["noise_items"] = NewTable /\ IsThere(NewTable) /\ NewTable.rows = {} /\ NewTable \in TableOfRows
        /\ tables["noise_items"].rows = {} /\ Converting(w) /\ IsThere(aside["noise_items"])
    BY <2>1 DEF MigrationInv, MigrationTypes, NoiseAside, IsThere, NewTable, TableOfRows, Converting
  <2>3. MigrationTypes'
    BY <1>7, <2>1, <2>2 DEF MigrationInv, MigrationTypes
  <2>4. /\ OneConverts' /\ AsideIsConverted'
        /\ \A v \in Extractions \ {w} : ~Converting(v) /\ ~Converting(v)'
    BY <1>11, <2>1, <2>2
  <2>5. NoiseAside'
    BY <1>2, <2>1, <2>2, <2>4 DEF NoiseAside, Converting
  <2>6. NoiseKept'
    BY <2>1, <2>2 DEF NoiseKept, MigrationInv
  <2> QED
    BY <1>5, <2>3, <2>4, <2>5, <2>6 DEF MigrationInv
<1>13. CASE CopyNoise(w)
  <2>1. /\ worker[w] = "copy" /\ pc = "drop" /\ UNCHANGED <<aside, saved>>
        /\ tables' = [tables EXCEPT !["noise_items"].rows = @ \cup aside["noise_items"].rows]
    BY <1>13, <1>1, <1>2 DEF CopyNoise, WorkerGoes, MigrationInv, MigrationTypes
  <2>2. Converting(w) /\ IsThere(aside["noise_items"]) /\ IsThere(tables["noise_items"])
    BY <2>1 DEF MigrationInv, NoiseAside, Converting
  <2>3. /\ tables'["noise_items"] \in TableOfRows /\ IsThere(tables'["noise_items"])
        /\ tables'["noise_items"].rows = tables["noise_items"].rows \cup aside["noise_items"].rows
        /\ tables' = [tables EXCEPT !["noise_items"] = tables'["noise_items"]]
    BY <2>1, <2>2 DEF MigrationInv, MigrationTypes, IsThere, TableOfRows
  <2>4. MigrationTypes'
    BY <1>7, <2>1, <2>2, <2>3 DEF MigrationInv, MigrationTypes
  <2>5. /\ OneConverts' /\ AsideIsConverted'
        /\ \A v \in Extractions \ {w} : ~Converting(v) /\ ~Converting(v)'
    BY <1>11, <2>1, <2>2
  <2>6. NoiseAside'
    BY <1>2, <2>1, <2>2, <2>3, <2>5 DEF NoiseAside, Converting
  <2>7. NoiseKept'
    BY <2>1, <2>3 DEF NoiseKept, MigrationInv
  <2> QED
    BY <1>5, <2>4, <2>5, <2>6, <2>7 DEF MigrationInv
<1>14. CASE DropNoiseAside(w)
  <2>1. /\ worker[w] = "drop" /\ pc = "save" /\ UNCHANGED <<tables, saved>>
        /\ aside' = [aside EXCEPT !["noise_items"] = NoTable]
    BY <1>14, <1>1, <1>2 DEF DropNoiseAside, WorkerGoes, MigrationInv, MigrationTypes
  <2>2. /\ aside'["noise_items"] = NoTable /\ ~IsThere(NoTable) /\ NoTable.rows = {} /\ NoTable \in TableOfRows
        /\ aside["noise_items"].rows \subseteq tables["noise_items"].rows /\ Converting(w)
    BY <2>1 DEF MigrationInv, MigrationTypes, NoiseAside, IsThere, NoTable, TableOfRows, Converting
  <2>3. MigrationTypes'
    BY <1>7, <2>1, <2>2 DEF MigrationInv, MigrationTypes
  <2>4. /\ OneConverts' /\ AsideIsConverted'
        /\ \A v \in Extractions \ {w} : ~Converting(v) /\ ~Converting(v)'
    BY <1>11, <2>1, <2>2
  <2>5. NoiseAside'
    BY <1>2, <2>1, <2>2, <2>4 DEF NoiseAside, Converting
  <2>6. NoiseKept'
    BY <2>1, <2>2 DEF NoiseKept, MigrationInv
  <2> QED
    BY <1>5, <2>3, <2>4, <2>5, <2>6 DEF MigrationInv
<1>15. ASSUME NEW r \in NewRows, SaveNoise(w, r) PROVE MigrationInv'
  <2>1. CASE ~IsThere(tables["noise_items"])
    BY <1>15, <2>1, <1>1, <1>2, <1>6 DEF SaveNoise, WorkerGoes, Converting
  <2>2. CASE IsThere(tables["noise_items"])
    <3>1. /\ worker[w] = "save" /\ pc = "idle" /\ UNCHANGED aside
          /\ tables' = [tables EXCEPT !["noise_items"].rows = @ \cup {r}]
          /\ saved' = [saved EXCEPT !["noise_items"] = @ \cup {r}]
      BY <1>15, <2>2, <1>1, <1>2 DEF SaveNoise, WorkerGoes, MigrationInv, MigrationTypes
    <3>2. /\ tables'["noise_items"] \in TableOfRows /\ IsThere(tables'["noise_items"])
          /\ tables'["noise_items"].rows = tables["noise_items"].rows \cup {r}
          /\ tables' = [tables EXCEPT !["noise_items"] = tables'["noise_items"]]
      BY <3>1, <2>2 DEF MigrationInv, MigrationTypes, IsThere, TableOfRows, Row
    <3>3. saved'["noise_items"] = saved["noise_items"] \cup {r} /\ saved' \in [Tables -> SUBSET Row]
      BY <3>1 DEF MigrationInv, MigrationTypes, Row
    <3>4. MigrationTypes'
      <4>1. tables' \in [Tables -> TableOfRows] /\ tables'["jobs"] = tables["jobs"]
        BY <3>2, <1>3 DEF MigrationInv, MigrationTypes
      <4> QED
        BY <4>1, <1>1, <3>1, <3>2, <3>3 DEF MigrationInv, MigrationTypes
    <3>5. \A v \in Extractions : Converting(v)' <=> Converting(v)
      BY <1>2, <3>1 DEF Converting
    <3>6. OneConverts' /\ AsideIsConverted'
      BY <1>1, <1>4, <3>1, <3>5 DEF MigrationInv, OneConverts, AsideIsConverted
    <3>7. NoiseAside'
      BY <1>2, <2>2, <3>1, <3>2, <3>5 DEF MigrationInv, NoiseAside, Converting
    <3>8. NoiseKept'
      BY <3>1, <3>2, <3>3 DEF NoiseKept, MigrationInv
    <3> QED
      BY <1>5, <3>4, <3>6, <3>7, <3>8 DEF MigrationInv
  <2> QED
    BY <2>1, <2>2
<1> QED
  BY <1>8, <1>9, <1>10, <1>12, <1>13, <1>14, <1>15

\* Where the invariant places the rows, none of them is lost.
LEMMA MigrationMeans == MigrationInv => MigrationKeepsRows
<1> SUFFICES ASSUME MigrationInv, NEW n \in Tables, ~disturbed, ~Migrating PROVE saved[n] = tables[n].rows
  BY DEF MigrationInv, NoiseKept, MigrationKeepsRows
<1>1. CASE n = "jobs"
  BY <1>1 DEF MigrationInv, JobsKept, Migrating
<1>2. CASE n = "noise_items"
  <2>1. ~IsThere(aside["noise_items"])
    BY DEF MigrationInv, AsideIsConverted, Migrating, Converting
  <2>2. aside["noise_items"].rows = {}
    BY <2>1 DEF MigrationInv, MigrationTypes, Tables
  <2> QED
    BY <1>2, <2>2 DEF MigrationInv, NoiseKept
<1> QED
  BY <1>1, <1>2 DEF Tables

\* For any rows and any number of extractions that convert the tables while the program is started
\* again: the application has all rows as soon as no migration is under way and none was cut off,
\* and a noise item that was saved is in the table or in the one set aside, whatever was cut off.
THEOREM RowsAreKept == MigrationSpec => []MigrationKeepsRows
<1>1. MigrationInv /\ UNCHANGED migrationVars => MigrationInv'
  BY DEF migrationVars, MigrationInv, MigrationTypes, JobsKept, OneConverts, NoiseAside, AsideIsConverted, NoiseKept, Converting, IsThere
<1>2. MigrationInv /\ [MigrationNext]_migrationVars => MigrationInv'
  BY <1>1, StarterKeeps, BootstrapKeeps, CrashKeeps, ExtractionKeeps DEF MigrationNext
<1> QED
  BY <1>2, MigrationBegins, MigrationMeans, PTL DEF MigrationSpec

-----------------------------------------------------------------------------
(* File transactions *)

Disk == [Paths -> Content]

\* what a record puts back into the files f, out of the backups b
PutBack(f, b, entry) ==
    CASE entry.kind = "restore" ->
            IF b[entry.path] # Missing THEN [f EXCEPT ![entry.path] = b[entry.path]] ELSE f
      [] entry.kind = "delete" ->
            [f EXCEPT ![entry.path] = Missing]
      [] entry.kind = "move" ->
            LET returned == IF f[entry.path] # Missing /\ entry.path # entry.source
                            THEN [f EXCEPT ![entry.source] = f[entry.path], ![entry.path] = Missing]
                            ELSE f
            IN IF entry.existed /\ b[entry.path] # Missing
               THEN [returned EXCEPT ![entry.path] = b[entry.path]] ELSE returned

\* h leads from the files at the beginning to the files now, one step for every record
Leads(h) ==
    /\ Len(h) = Len(undo) + 1
    /\ h[1] = before /\ h[Len(h)] = files
    /\ \A k \in 1 .. Len(undo) : PutBack(h[k + 1], backup, undo[k]) = h[k]

Undoable == overwritten = {} /\ torn = {} /\ state \in {"open", "undoing"}

\* a record that needs a backup has one
BackedUp ==
    Undoable => \A k \in 1 .. Len(undo) :
                   undo[k].existed \/ undo[k].kind = "restore" => Saved(undo[k].path)

Traceable == Undoable => \E h \in Seq(Disk) : Leads(h)

FileInv == FileTypeOK /\ BackedUp /\ Traceable /\ RollbackRestores

-----------------------------------------------------------------------------

\* UndoOne, puts back what PutBack says.
LEMMA UndoneIsPutBack ==
  ASSUME NEW entry \in UndoRecord
  PROVE  Undone(entry) = PutBack(files, backup, entry)
  BY DEF Undone, PutBack, Saved, Exists

\* Putting a record back leaves a disk.
LEMMA PutBackType ==
  ASSUME NEW f \in Disk, NEW b \in Disk, NEW entry \in UndoRecord
  PROVE  PutBack(f, b, entry) \in Disk
<1>1. Missing \in Content /\ entry.path \in Paths /\ entry.source \in Paths
  BY DEF Content, UndoRecord
<1>2. CASE entry.kind = "restore"
  BY <1>1, <1>2 DEF PutBack, Disk
<1>3. CASE entry.kind = "delete"
  BY <1>1, <1>3 DEF PutBack, Disk
<1>4. CASE entry.kind = "move"
  BY <1>1, <1>4 DEF PutBack, Disk
<1> QED
  BY <1>2, <1>3, <1>4 DEF UndoRecord

\* A backup of another file, or of a file whose backup no record needs, changes nothing.
LEMMA OtherBackups ==
  ASSUME NEW f \in Disk, NEW b \in Disk, NEW entry \in UndoRecord, NEW p \in Paths, NEW c \in Content,
         b[p] = Missing, entry.existed \/ entry.kind = "restore" => b[entry.path] # Missing
  PROVE  PutBack(f, [b EXCEPT ![p] = c], entry) = PutBack(f, b, entry)
<1>1. entry.path \in Paths /\ entry.existed \in BOOLEAN
  BY DEF UndoRecord
<1>2. CASE entry.path # p
  <2>1. [b EXCEPT ![p] = c][entry.path] = b[entry.path]
    BY <1>1, <1>2 DEF Disk
  <2> QED
    BY <2>1 DEF PutBack
<1>3. CASE entry.path = p
  <2>1. entry.kind # "restore" /\ ~entry.existed
    BY <1>3
  <2>2. CASE entry.kind = "delete"
    BY <2>2 DEF PutBack
  <2>3. CASE entry.kind = "move"
    BY <1>1, <2>1, <2>3 DEF PutBack
  <2> QED
    BY <2>1, <2>2, <2>3 DEF UndoRecord
<1> QED
  BY <1>2, <1>3

\* A write, a copy or a deletion is undone by the record made for it, because the backup was taken
\* first.
LEMMA UndoingUndoes ==
  ASSUME FileTypeOK, NEW p \in Paths, NEW c \in Content, NEW b \in Disk,
         Exists(p) => b[p] = files[p]
  PROVE  Undoing(p) \in UndoRecord /\ PutBack([files EXCEPT ![p] = c], b, Undoing(p)) = files
<1>1. Undoing(p) \in UndoRecord
  BY DEF Undoing, UndoRecord, Exists
<1>2. files \in Disk /\ Undoing(p).path = p
  BY DEF FileTypeOK, Disk, Undoing
<1>3. CASE Exists(p)
  <2>1. Undoing(p).kind = "restore" /\ b[p] # Missing /\ b[p] = files[p]
    BY <1>3 DEF Undoing, Exists
  <2>2. PutBack([files EXCEPT ![p] = c], b, Undoing(p)) = [[files EXCEPT ![p] = c] EXCEPT ![p] = files[p]]
    BY <1>2, <2>1 DEF PutBack
  <2> QED
    BY <1>1, <1>2, <2>2 DEF Disk
<1>4. CASE ~Exists(p)
  <2>1. Undoing(p).kind = "delete" /\ files[p] = Missing
    BY <1>4 DEF Undoing, Exists
  <2>2. PutBack([files EXCEPT ![p] = c], b, Undoing(p)) = [[files EXCEPT ![p] = c] EXCEPT ![p] = files[p]]
    BY <1>2, <2>1 DEF PutBack
  <2> QED
    BY <1>1, <1>2, <2>2 DEF Disk
<1> QED
  BY <1>3, <1>4

\* A move is undone by its record: the source comes back, and what lay at the target too.
LEMMA MovingUndoes ==
  ASSUME FileTypeOK, NEW p \in Paths, NEW source \in Paths, NEW b \in Disk,
         Exists(source), Exists(p) => b[p] = files[p]
  PROVE  /\ MovingBack(p, source) \in UndoRecord
         /\ PutBack(IF source = p THEN files ELSE [files EXCEPT ![p] = files[source], ![source] = Missing],
                     b, MovingBack(p, source)) = files
<1>1. MovingBack(p, source) \in UndoRecord
  BY DEF MovingBack, UndoRecord, Exists
<1>2. files \in Disk
  BY DEF FileTypeOK, Disk
<1> DEFINE moved == IF source = p THEN files ELSE [files EXCEPT ![p] = files[source], ![source] = Missing]
           entry == MovingBack(p, source)
           returned == IF moved[p] # Missing /\ p # source
                       THEN [moved EXCEPT ![source] = moved[p], ![p] = Missing] ELSE moved
<1>3. entry.kind = "move" /\ entry.path = p /\ entry.source = source /\ (entry.existed <=> Exists(p))
  BY DEF MovingBack
<1>4. PutBack(moved, b, entry) = IF Exists(p) /\ b[p] # Missing THEN [returned EXCEPT ![p] = b[p]] ELSE returned
  <2> HIDE DEF entry, moved
  <2> QED
    BY <1>3 DEF PutBack
<1>5. returned \in Disk /\ (\A q \in Paths \ {p} : returned[q] = files[q])
      /\ (source # p => returned[p] = Missing)
  BY <1>2 DEF Disk, Exists, Content
<1>6. PutBack(moved, b, entry) = files
  <2> HIDE DEF returned, moved, entry
  <2>1. CASE Exists(p)
    <3>1. [returned EXCEPT ![p] = files[p]] = files
      BY <1>2, <1>5 DEF Disk
    <3> QED
      BY <1>4, <2>1, <3>1 DEF Exists
  <2>2. CASE ~Exists(p)
    <3>1. source # p
      BY <2>2
    <3>2. returned = files
      BY <1>2, <1>5, <2>2, <3>1 DEF Disk, Exists
    <3> QED
      BY <1>4, <2>2, <3>2
  <2> QED
    BY <2>1, <2>2
<1> QED
  BY <1>1, <1>6

-----------------------------------------------------------------------------
\* After a backup that replaces none, the records still lead back.
LEMMA BackUpKeeps ==
  ASSUME FileInv, NEW p \in Paths, BackUp(p)
  PROVE  /\ backup' \in Disk /\ overwritten' \subseteq Paths
         /\ overwritten \subseteq overwritten'
         /\ Exists(p) => backup'[p] = files[p]
         /\ Undoable /\ overwritten' = {} =>
               \A k \in 1 .. Len(undo) :
                  /\ undo[k].existed \/ undo[k].kind = "restore" => backup'[undo[k].path] # Missing
                  /\ \A f \in Disk : PutBack(f, backup', undo[k]) = PutBack(f, backup, undo[k])
<1>1. /\ backup' \in Disk /\ overwritten' \subseteq Paths /\ overwritten \subseteq overwritten'
      /\ Exists(p) => backup'[p] = files[p]
  BY DEF FileInv, FileTypeOK, BackUp, Disk
<1>2. ASSUME Undoable, overwritten' = {}, NEW k \in 1 .. Len(undo)
      PROVE  /\ undo[k].existed \/ undo[k].kind = "restore" => backup'[undo[k].path] # Missing
             /\ \A f \in Disk : PutBack(f, backup', undo[k]) = PutBack(f, backup, undo[k])
  <2>1. undo[k] \in UndoRecord /\ undo[k].path \in Paths
    <3>1. undo \in Seq(UndoRecord)
      BY DEF FileInv, FileTypeOK
    <3>2. undo[k] \in UndoRecord
      BY <3>1
    <3> QED
      BY <3>2 DEF UndoRecord
  <2>2. undo[k].existed \/ undo[k].kind = "restore" => backup[undo[k].path] # Missing
    BY <1>2 DEF FileInv, BackedUp, Saved
  <2>3. CASE ~Exists(p)
    BY <2>2, <2>3 DEF BackUp
  <2>4. CASE Exists(p)
    <3>1. backup[p] = Missing /\ backup' = [backup EXCEPT ![p] = files[p]] /\ files[p] \in Content /\ backup \in Disk
          /\ files[p] # Missing
      BY <1>2, <2>4 DEF BackUp, Saved, Exists, FileInv, FileTypeOK, Disk
    <3> QED
      BY <2>1, <2>2, <3>1, OtherBackups DEF Disk
  <2> QED
    BY <2>3, <2>4
<1> QED
  BY <1>1, <1>2

\* An operation that records how to undo it
LEMMA RecordedKeeps ==
  ASSUME FileInv, NEW p \in Paths, NEW entry \in UndoRecord,
         BackUp(p), Record(entry), UNCHANGED <<state, before, torn>>,
         state = "open", files' \in Disk, entry.path = p,
         entry.existed \/ entry.kind = "restore" => Exists(p),
         PutBack(files', backup', entry) = files
  PROVE  FileInv'
<1>1. FileTypeOK'
  BY BackUpKeeps DEF FileInv, FileTypeOK, Record, Disk
<1>2. undo \in Seq(UndoRecord) /\ undo' = Append(undo, entry) /\ Len(undo') = Len(undo) + 1
      /\ (\A k \in 1 .. Len(undo) : undo'[k] = undo[k]) /\ undo'[Len(undo) + 1] = entry
  BY DEF FileInv, FileTypeOK, Record
<1>3. Undoable' => Undoable /\ overwritten' = {}
  BY BackUpKeeps DEF Undoable
<1>4. BackedUp'
  <2> SUFFICES ASSUME Undoable', NEW k \in 1 .. Len(undo'), undo'[k].existed \/ undo'[k].kind = "restore"
               PROVE  backup'[undo'[k].path] # Missing
    BY DEF BackedUp, Saved
  <2>1. CASE k \in 1 .. Len(undo)
    BY <1>2, <1>3, <2>1, BackUpKeeps
  <2>2. CASE k = Len(undo) + 1
    BY <1>2, <2>2, BackUpKeeps DEF Exists
  <2> QED
    BY <1>2, <2>1, <2>2
<1>5. Traceable'
  <2> SUFFICES ASSUME Undoable' PROVE \E h \in Seq(Disk) : Leads(h)'
    BY DEF Traceable
  <2>1. PICK h \in Seq(Disk) : Leads(h)
    BY <1>3 DEF FileInv, Traceable
  <2> DEFINE longer == Append(h, files')
  <2>2. /\ longer \in Seq(Disk) /\ Len(longer) = Len(h) + 1
        /\ (\A k \in 1 .. Len(h) : longer[k] = h[k]) /\ longer[Len(h) + 1] = files'
    OBVIOUS
  <2> HIDE DEF longer
  <2>3. Len(longer) = Len(undo') + 1 /\ longer[1] = before' /\ longer[Len(longer)] = files'
    BY <1>2, <2>1, <2>2 DEF Leads
  <2>4. ASSUME NEW k \in 1 .. Len(undo') PROVE PutBack(longer[k + 1], backup', undo'[k]) = longer[k]
    <3>1. CASE k \in 1 .. Len(undo)
      <4>1. h[k + 1] \in Disk /\ longer[k + 1] = h[k + 1] /\ longer[k] = h[k]
        BY <2>1, <2>2, <3>1 DEF Leads
      <4> QED
        BY <1>2, <1>3, <2>1, <3>1, <4>1, BackUpKeeps DEF Leads
    <3>2. CASE k = Len(undo) + 1
      BY <1>2, <2>1, <2>2, <3>2 DEF Leads
    <3> QED
      BY <1>2, <3>1, <3>2
  <2> QED
    BY <2>2, <2>3, <2>4 DEF Leads
<1>6. RollbackRestores'
  BY DEF RollbackRestores
<1> QED
  BY <1>1, <1>4, <1>5, <1>6 DEF FileInv

\* Every way to write a file keeps the invariant.
LEMMA WriteKeeps ==
  ASSUME FileInv, NEW p \in Paths, NEW c \in Content, Open, BackUp(p),
         files' = [files EXCEPT ![p] = c], Record(Undoing(p)), UNCHANGED <<state, before, torn>>
  PROVE  FileInv'
<1>1. backup' \in Disk /\ (Exists(p) => backup'[p] = files[p])
  BY BackUpKeeps
<1>2. Undoing(p) \in UndoRecord /\ PutBack(files', backup', Undoing(p)) = files
  BY <1>1, UndoingUndoes DEF FileInv
<1>3. /\ files' \in Disk /\ state = "open" /\ Undoing(p).path = p
      /\ Undoing(p).existed \/ Undoing(p).kind = "restore" => Exists(p)
  BY DEF FileInv, FileTypeOK, Disk, Open, Undoing
<1> QED
  BY <1>2, <1>3, RecordedKeeps

\* Every operation of a transaction adds one record, and the invariant holds after it.
LEMMA OperationKeeps ==
  ASSUME FileInv, NEW p \in Paths,
         \/ \E content \in Contents : Write(p, content)
         \/ \E source \in Paths : Copy(source, p) \/ Move(source, p)
         \/ Delete(p)
  PROVE  FileInv'
<1>1. ASSUME NEW content \in Contents, Write(p, content) PROVE FileInv'
  BY <1>1, WriteKeeps DEF Write, Content
<1>2. ASSUME NEW source \in Paths, Copy(source, p) PROVE FileInv'
  <2>1. files[source] \in Content
    BY DEF FileInv, FileTypeOK
  <2> QED
    BY <1>2, <2>1, WriteKeeps DEF Copy
<1>3. CASE Delete(p)
  <2>1. Missing \in Content
    BY DEF Content
  <2> QED
    BY <1>3, <2>1, WriteKeeps DEF Delete
<1>4. ASSUME NEW source \in Paths, Move(source, p) PROVE FileInv'
  <2>1. backup' \in Disk /\ (Exists(p) => backup'[p] = files[p])
    BY <1>4, BackUpKeeps DEF Move
  <2>2. /\ MovingBack(p, source) \in UndoRecord
        /\ PutBack(files', backup', MovingBack(p, source)) = files
    BY <1>4, <2>1, MovingUndoes DEF Move, FileInv
  <2>3. /\ files' \in Disk /\ state = "open" /\ MovingBack(p, source).path = p
        /\ MovingBack(p, source).existed \/ MovingBack(p, source).kind = "restore" => Exists(p)
    BY <1>4 DEF Move, FileInv, FileTypeOK, Disk, Open, MovingBack, Content
  <2> QED
    BY <1>4, <2>2, <2>3, RecordedKeeps DEF Move
<1> QED
  BY <1>1, <1>2, <1>3, <1>4

\* An operation that fails records nothing: the backup it took is not needed.
LEMMA FailureKeeps ==
  ASSUME FileInv, NEW p \in Paths,
         Raises(p) \/ \E source \in Paths : CopyTears(source, p)
  PROVE  FileInv'
<1>1. CASE Raises(p)
  <2>1. BackUp(p) /\ UNCHANGED <<files, undo, state, before, torn>>
    BY <1>1 DEF Raises
  <2>2. FileTypeOK' /\ RollbackRestores'
    BY <1>1, <2>1, BackUpKeeps DEF FileInv, FileTypeOK, Disk, RollbackRestores, Raises, Open
  <2>3. Undoable' => Undoable /\ overwritten' = {}
    BY <2>1, BackUpKeeps DEF Undoable
  <2>4. BackedUp'
    BY <2>1, <2>3, BackUpKeeps DEF BackedUp, Saved
  <2>5. ASSUME Undoable' PROVE \E h \in Seq(Disk) : Leads(h)'
    <3>1. PICK h \in Seq(Disk) : Leads(h)
      BY <2>3, <2>5 DEF FileInv, Traceable
    <3>2. \A k \in 1 .. Len(undo) : h[k + 1] \in Disk
      BY <3>1 DEF Leads
    <3> QED
      BY <2>1, <2>3, <2>5, <3>1, <3>2, BackUpKeeps DEF Leads
  <2> QED
    BY <2>2, <2>4, <2>5 DEF FileInv, Traceable
<1>2. ASSUME NEW source \in Paths, CopyTears(source, p) PROVE FileInv'
  <2>1. torn' # {} /\ state' = "open"
    BY <1>2 DEF CopyTears, Open
  <2>2. FileTypeOK'
    BY <1>2, BackUpKeeps DEF CopyTears, FileInv, FileTypeOK, Disk, Content
  <2> QED
    BY <2>1, <2>2 DEF FileInv, BackedUp, Traceable, Undoable, RollbackRestores
<1> QED
  BY <1>1, <1>2

\* The last record undone, one step less leads to the files.
LEMMA UndoLastKeeps == FileInv /\ UndoLast => FileInv'
<1> SUFFICES ASSUME FileInv, UndoLast PROVE FileInv'
  OBVIOUS
<1> DEFINE n == Len(undo)
<1>1. /\ undo \in Seq(UndoRecord) /\ n \in Nat \ {0} /\ undo[n] \in UndoRecord
      /\ undo' \in Seq(UndoRecord) /\ Len(undo') = n - 1 /\ \A k \in 1 .. n - 1 : undo'[k] = undo[k]
  <2>1. undo \in Seq(UndoRecord) /\ undo # <<>> /\ undo' = SubSeq(undo, 1, n - 1)
    BY DEF UndoLast, FileInv, FileTypeOK
  <2>2. n \in Nat \ {0} /\ undo[n] \in UndoRecord
    BY <2>1
  <2>3. undo' \in Seq(UndoRecord) /\ Len(undo') = n - 1
    <3>1. \A t \in Seq(UndoRecord) : \A k \in 0 .. Len(t) :
             SubSeq(t, 1, k) \in Seq(UndoRecord) /\ Len(SubSeq(t, 1, k)) = k
      OBVIOUS
    <3>2. n - 1 \in 0 .. Len(undo)
      BY <2>2
    <3> QED
      BY <2>1, <3>1, <3>2
  <2>4. \A k \in 1 .. n - 1 : undo'[k] = undo[k]
    BY <2>1, <2>2
  <2> QED
    BY <2>1, <2>2, <2>3, <2>4
<1>2. files' = PutBack(files, backup, undo[n]) /\ files' \in Disk
  <2>1. files' = Undone(undo[n]) /\ files \in Disk /\ backup \in Disk
    BY DEF UndoLast, FileInv, FileTypeOK, Disk
  <2> QED
    BY <1>1, <2>1, UndoneIsPutBack, PutBackType
<1>3. UNCHANGED <<backup, before, overwritten, torn>> /\ state' = "undoing" /\ (Undoable' => Undoable)
  BY DEF UndoLast, Undoable, Undoes
<1>4. FileTypeOK' /\ BackedUp' /\ RollbackRestores'
  BY <1>1, <1>2, <1>3 DEF FileInv, FileTypeOK, BackedUp, RollbackRestores, Disk, Saved
<1>5. ASSUME Undoable' PROVE \E h \in Seq(Disk) : Leads(h)'
  <2>1. PICK h \in Seq(Disk) : Leads(h)
    BY <1>3, <1>5 DEF FileInv, Traceable
  <2> DEFINE shorter == SubSeq(h, 1, n)
  <2>2. shorter \in Seq(Disk) /\ Len(shorter) = n /\ \A k \in 1 .. n : shorter[k] = h[k]
    BY <1>1, <2>1 DEF Leads
  <2> HIDE DEF shorter
  <2>3. shorter[1] = before' /\ shorter[Len(shorter)] = files'
    BY <1>1, <1>2, <1>3, <2>1, <2>2 DEF Leads
  <2>4. \A k \in 1 .. Len(undo') : PutBack(shorter[k + 1], backup', undo'[k]) = shorter[k]
    <3> SUFFICES ASSUME NEW k \in 1 .. Len(undo') PROVE PutBack(shorter[k + 1], backup', undo'[k]) = shorter[k]
      OBVIOUS
    <3>0. n \in Nat /\ Len(undo') = n - 1 /\ Len(undo) = n
      BY <1>1
    <3>1. k \in 1 .. Len(undo) /\ shorter[k + 1] = h[k + 1] /\ shorter[k] = h[k] /\ undo'[k] = undo[k]
      <4>1. k \in 1 .. n - 1 /\ k \in 1 .. n /\ k + 1 \in 1 .. n
        BY <3>0
      <4>2. undo'[k] = undo[k]
        BY <1>1, <4>1
      <4> QED
        BY <2>2, <3>0, <4>1, <4>2
    <3>2. PutBack(h[k + 1], backup, undo[k]) = h[k]
      BY <2>1, <3>1 DEF Leads
    <3> QED
      BY <1>3, <3>1, <3>2
  <2> QED
    BY <1>1, <2>2, <2>3, <2>4 DEF Leads
<1> QED
  BY <1>4, <1>5 DEF FileInv, Traceable

\* Commit and rollback drop the records together with the backups they need.
LEMMA FileEnds == FileInv /\ (Commit \/ RolledBack) => FileInv'
<1> SUFFICES ASSUME FileInv, Commit \/ RolledBack PROVE FileInv'
  OBVIOUS
<1>1. FileTypeOK'
  BY DEF FileInv, FileTypeOK, Commit, RolledBack, Content
<1>2. CASE Commit
  BY <1>1, <1>2 DEF FileInv, Commit, BackedUp, Traceable, Undoable, RollbackRestores
<1>3. CASE RolledBack
  <2>1. Undoable => files = before
    BY <1>3 DEF FileInv, Traceable, Leads, RolledBack
  <2> QED
    BY <1>1, <1>3, <2>1 DEF FileInv, RolledBack, Undoes, BackedUp, Traceable, Undoable, RollbackRestores
<1> QED
  BY <1>2, <1>3

\* No transaction is open at first.
LEMMA FileBegins == FileInit => FileInv
<1> SUFFICES ASSUME FileInit PROVE FileInv
  OBVIOUS
<1>1. FileTypeOK
  BY DEF FileInit, FileTypeOK, Content
<1>2. <<files>> \in Seq(Disk) /\ Leads(<<files>>)
  BY <1>1 DEF FileInit, FileTypeOK, Leads, Disk
<1>3. BackedUp /\ RollbackRestores
  BY DEF FileInit, BackedUp, RollbackRestores
<1> QED
  BY <1>1, <1>2, <1>3 DEF FileInv, Traceable

\* For any paths and contents and any sequence of writes, copies, moves and deletions: after a
\* rollback every file is as it was when the transaction began, when no backup replaced an earlier
\* one and no copy was torn.
THEOREM RollbackIsExact == FileSpec => []RollbackRestores
<1>1. FileInv /\ UNCHANGED fileVars => FileInv'
  BY DEF fileVars, FileInv, FileTypeOK, BackedUp, Traceable, Leads, Undoable, Saved, RollbackRestores
<1>2. FileInv /\ [FileNext]_fileVars => FileInv'
  BY <1>1, OperationKeeps, FailureKeeps, UndoLastKeeps, FileEnds DEF FileNext
<1>3. FileInv => RollbackRestores
  BY DEF FileInv
<1> QED
  BY <1>2, <1>3, FileBegins, PTL DEF FileSpec

-----------------------------------------------------------------------------
(* Pipeline artifacts *)

Sets == SUBSET Nat
Artifacts == [kind : {"document"}, from : Sets, typed : BOOLEAN]
             \cup [kind : {"extraction"}, from : Sets, candidates : BOOLEAN]
             \cup [kind : Kinds \ {"document", "extraction"}, from : Sets]

\* what an artifact of a kind is made from
MadeFrom == [document |-> "document", ocr |-> "document", extraction |-> "ocr", resolution |-> "extraction",
             knowledge |-> "resolution", acceptance |-> "knowledge", profile |-> "acceptance", output |-> "profile"]

\* each artifact rests on earlier ones of the kind before it, and a resolution on every reading before it
WellMade(i) ==
    /\ bundle[i].from \subseteq 1..(i - 1)
    /\ bundle[i].kind # "document" => bundle[i].from # {}
    /\ \A j \in bundle[i].from : bundle[j].kind = MadeFrom[bundle[i].kind]
    /\ bundle[i].kind = "resolution" => \A j \in 1..(i - 1) : bundle[j].kind = "extraction" => j \in bundle[i].from

BundleTypes ==
    /\ bundle \in Seq(Artifacts)
    /\ stage \in 1..10
    /\ verdict \in {"running", "retrying", "completed", "failed"}

JobInv ==
    /\ verdict = "completed" => failures = {} /\ stage = 10
    /\ verdict = "retrying" => failures # {}
    /\ failures = {} => \A i \in DOMAIN bundle : IsRoot(i) => i = 1
    /\ failures = {} /\ stage = 1 => bundle = <<>>
    /\ failures = {} /\ stage = 10 => OfKind("output") # {}
    /\ ~HasCritical /\ stage > 1 => OfKind("document") # {}

BundleInv == BundleTypes /\ (\A i \in DOMAIN bundle : WellMade(i)) /\ JobInv

-----------------------------------------------------------------------------
(* Lineages *)

\* The recursive lineage of an artifact is defined, because an artifact is made from earlier ones
\* only.
LEMMA LineageIsDefined ==
  ASSUME BundleInv
  PROVE  \A i \in DOMAIN bundle : Lineage[i] = {i} \cup UNION {Lineage[j] : j \in bundle[i].from}
<1> DEFINE size == Len(bundle)
           Traced(f, n) == f = [i \in 1..n |-> {i} \cup UNION {f[j] : j \in bundle[i].from}]
           done == {n \in Nat : n <= size => \E f : Traced(f, n)}
<1>1. size \in Nat /\ DOMAIN bundle = 1..size /\ \A i \in 1..size : bundle[i].from \subseteq 1..(i - 1)
  BY DEF BundleInv, BundleTypes, WellMade
<1> HIDE DEF size
<1>2. 0 \in done
  <2>1. Traced(<<>>, 0)
    OBVIOUS
  <2> QED
    BY <2>1
<1>3. ASSUME NEW n \in Nat, n \in done PROVE n + 1 \in done
  <2> SUFFICES ASSUME n + 1 <= size PROVE \E f : Traced(f, n + 1)
    OBVIOUS
  <2>1. PICK f : Traced(f, n)
    BY <1>1, <1>3
  <2> DEFINE g == [i \in 1..(n + 1) |-> IF i = n + 1 THEN {n + 1} \cup UNION {f[j] : j \in bundle[n + 1].from} ELSE f[i]]
  <2>2. \A i \in 1..(n + 1) : bundle[i].from \subseteq 1..n
    BY <1>1
  <2>3. \A j \in 1..n : g[j] = f[j]
    OBVIOUS
  <2>4. \A i \in 1..(n + 1) : {g[j] : j \in bundle[i].from} = {f[j] : j \in bundle[i].from}
    <3> HIDE DEF g
    <3> QED
      BY <2>2, <2>3
  <2>5. \A i \in 1..n : f[i] = {i} \cup UNION {f[j] : j \in bundle[i].from}
    <3> HIDE DEF g, done
    <3> QED
      BY <2>1
  <2>6. \A i \in 1..(n + 1) : g[i] = {i} \cup UNION {f[j] : j \in bundle[i].from}
    <3>1. g[n + 1] = {n + 1} \cup UNION {f[j] : j \in bundle[n + 1].from}
      OBVIOUS
    <3> HIDE DEF g, done
    <3>2. \A i \in 1..(n + 1) : i = n + 1 \/ i \in 1..n
      OBVIOUS
    <3> QED
      BY <2>3, <2>5, <3>1, <3>2
  <2>7. g = [i \in 1..(n + 1) |-> g[i]]
    OBVIOUS
  <2>8. Traced(g, n + 1)
    <3> HIDE DEF g, done
    <3>1. \A i \in 1..(n + 1) : g[i] = {i} \cup UNION {g[j] : j \in bundle[i].from}
      BY <2>4, <2>6
    <3> QED
      BY <2>7, <3>1
  <2> QED
    BY <2>8
<1>4. Nat \subseteq done
  <2> HIDE DEF done
  <2> QED
    BY <1>2, <1>3, NumbersByInduction
<1>5. \E f : Traced(f, size)
  <2>1. size \in done /\ size <= size
    <3> HIDE DEF done
    <3> QED
      BY <1>1, <1>4
  <2> HIDE DEF Traced
  <2> QED
    BY <2>1
<1>6. Lineage = [i \in DOMAIN bundle |-> {i} \cup UNION {Lineage[j] : j \in bundle[i].from}]
  BY <1>1, <1>5 DEF Lineage
<1> QED
  BY <1>6

\* What a member of a lineage rests on belongs to the lineage as well.
LEMMA LineageGrows ==
  ASSUME BundleInv, NEW i \in DOMAIN bundle
  PROVE  /\ i \in Lineage[i]
         /\ \A j \in bundle[i].from : j \in DOMAIN bundle /\ j < i /\ Lineage[j] \subseteq Lineage[i]
<1>1. DOMAIN bundle = 1..Len(bundle) /\ Len(bundle) \in Nat /\ bundle[i].from \subseteq 1..(i - 1)
  BY DEF BundleInv, BundleTypes, WellMade
<1>2. Lineage[i] = {i} \cup UNION {Lineage[j] : j \in bundle[i].from}
  BY LineageIsDefined
<1> QED
  BY <1>1, <1>2

\* Lineage never leaves the bundle.
LEMMA LineageStaysInside ==
  ASSUME BundleInv PROVE \A i \in DOMAIN bundle : Lineage[i] \subseteq DOMAIN bundle
<1> DEFINE bad == {i \in DOMAIN bundle : ~(Lineage[i] \subseteq DOMAIN bundle)}
<1> SUFFICES ASSUME bad # {} PROVE FALSE
  OBVIOUS
<1>1. bad \subseteq Nat
  BY DEF BundleInv, BundleTypes
<1>2. PICK i \in bad : \A n \in bad : i <= n
  <2> HIDE DEF bad
  <2> QED
    BY <1>1, LeastNumber
<1>3. \A j \in bundle[i].from : Lineage[j] \subseteq DOMAIN bundle
  <2>1. \A j \in bundle[i].from : j \in DOMAIN bundle /\ j < i
    BY LineageGrows
  <2> QED
    BY <1>1, <1>2, <2>1
<1> QED
  BY <1>3, LineageIsDefined

\* Every artifact leads back to a document.
LEMMA LineageHasARoot ==
  ASSUME BundleInv PROVE \A i \in DOMAIN bundle : \E root \in Lineage[i] : IsRoot(root)
<1> DEFINE bad == {i \in DOMAIN bundle : ~ \E root \in Lineage[i] : IsRoot(root)}
<1> SUFFICES ASSUME bad # {} PROVE FALSE
  OBVIOUS
<1>1. bad \subseteq Nat
  BY DEF BundleInv, BundleTypes
<1>2. PICK i \in bad : \A n \in bad : i <= n
  <2> HIDE DEF bad
  <2> QED
    BY <1>1, LeastNumber
<1>3. CASE bundle[i].from = {}
  BY <1>2, <1>3, LineageGrows DEF IsRoot
<1>4. CASE bundle[i].from # {}
  <2>1. PICK j \in bundle[i].from : TRUE
    BY <1>4
  <2>2. j \in DOMAIN bundle /\ j < i /\ Lineage[j] \subseteq Lineage[i]
    BY <2>1, LineageGrows
  <2> QED
    BY <1>1, <1>2, <2>2
<1> QED
  BY <1>3, <1>4

\* Before an artifact of a kind stands one of the kind it is made from.
LEMMA LineageGoesBack ==
  ASSUME BundleInv, NEW i \in DOMAIN bundle, bundle[i].kind # "document"
  PROVE  \E j \in DOMAIN bundle : bundle[j].kind = MadeFrom[bundle[i].kind] /\ Lineage[j] \subseteq Lineage[i]
<1>1. PICK j \in bundle[i].from : bundle[j].kind = MadeFrom[bundle[i].kind]
  BY DEF BundleInv, WellMade
<1> QED
  BY <1>1, LineageGrows

\* An output leads back to artifacts of every kind, a document among them.
LEMMA OutputsRestOnAll ==
  ASSUME BundleInv, NEW out \in OfKind("output")
  PROVE  {bundle[i].kind : i \in Lineage[out]} = Kinds
<1>1. \A i \in DOMAIN bundle : bundle[i].kind \in Kinds
  BY DEF BundleInv, BundleTypes, Artifacts, Kinds
<1>2. out \in DOMAIN bundle /\ bundle[out].kind = "output"
  BY DEF OfKind
<1>3. PICK prof \in DOMAIN bundle : bundle[prof].kind = "profile" /\ Lineage[prof] \subseteq Lineage[out]
  BY <1>2, LineageGoesBack DEF MadeFrom
<1>4. PICK acc \in DOMAIN bundle : bundle[acc].kind = "acceptance" /\ Lineage[acc] \subseteq Lineage[prof]
  BY <1>3, LineageGoesBack DEF MadeFrom
<1>5. PICK know \in DOMAIN bundle : bundle[know].kind = "knowledge" /\ Lineage[know] \subseteq Lineage[acc]
  BY <1>4, LineageGoesBack DEF MadeFrom
<1>6. PICK res \in DOMAIN bundle : bundle[res].kind = "resolution" /\ Lineage[res] \subseteq Lineage[know]
  BY <1>5, LineageGoesBack DEF MadeFrom
<1>7. PICK ext \in DOMAIN bundle : bundle[ext].kind = "extraction" /\ Lineage[ext] \subseteq Lineage[res]
  BY <1>6, LineageGoesBack DEF MadeFrom
<1>8. PICK text \in DOMAIN bundle : bundle[text].kind = "ocr" /\ Lineage[text] \subseteq Lineage[ext]
  BY <1>7, LineageGoesBack DEF MadeFrom
<1>9. PICK doc \in DOMAIN bundle : bundle[doc].kind = "document" /\ Lineage[doc] \subseteq Lineage[text]
  BY <1>8, LineageGoesBack DEF MadeFrom
<1>10. {doc, text, ext, res, know, acc, prof, out} \subseteq Lineage[out]
  BY <1>2, <1>3, <1>4, <1>5, <1>6, <1>7, <1>8, <1>9, LineageGrows
<1>11. \A kind \in Kinds : \E i \in Lineage[out] : bundle[i].kind = kind
  BY <1>2, <1>3, <1>4, <1>5, <1>6, <1>7, <1>8, <1>9, <1>10 DEF Kinds
<1>12. \A i \in Lineage[out] : bundle[i].kind \in Kinds
  BY <1>1, <1>2, LineageStaysInside
<1> QED
  BY <1>11, <1>12

\* What the invariant says of every artifact is what the property asks of a completed job and of
\* each resolution.
LEMMA BundleMeans == BundleInv => OutputsLeadBack
<1> SUFFICES ASSUME BundleInv PROVE OutputsLeadBack
  OBVIOUS
<1>1. CompletedMeansBuilt
  <2> SUFFICES ASSUME verdict = "completed"
               PROVE  /\ OfKind("output") # {}
                      /\ \A out \in OfKind("output") : {bundle[i].kind : i \in Lineage[out]} = Kinds /\ {i \in Lineage[out] : IsRoot(i)} = {1}
    BY DEF CompletedMeansBuilt
  <2>1. OfKind("output") # {} /\ \A i \in DOMAIN bundle : IsRoot(i) => i = 1
    BY DEF BundleInv, JobInv
  <2>2. ASSUME NEW out \in OfKind("output") PROVE {i \in Lineage[out] : IsRoot(i)} = {1}
    <3>1. out \in DOMAIN bundle
      BY DEF OfKind
    <3>2. Lineage[out] \subseteq DOMAIN bundle /\ \E root \in Lineage[out] : IsRoot(root)
      BY <3>1, LineageStaysInside, LineageHasARoot
    <3> QED
      BY <2>1, <3>2
  <2> QED
    BY <2>1, <2>2, OutputsRestOnAll
<1>2. ReadingsAreResolved
  <2> SUFFICES ASSUME NEW r \in OfKind("resolution"), NEW i \in 1..r, bundle[i].kind = "extraction"
               PROVE  i \in Lineage[r] /\ \E root \in Lineage[r] \cap Lineage[i] : IsRoot(root)
    BY DEF ReadingsAreResolved
  <2>1. r \in DOMAIN bundle /\ bundle[r].kind = "resolution" /\ r \in Nat
    BY DEF OfKind, BundleInv, BundleTypes
  <2>2. i # r /\ i \in 1..(r - 1)
    BY <2>1
  <2>3. i \in bundle[r].from
    BY <2>1, <2>2 DEF BundleInv, WellMade
  <2>4. i \in DOMAIN bundle /\ Lineage[i] \subseteq Lineage[r] /\ i \in Lineage[i]
    BY <2>1, <2>3, LineageGrows
  <2>5. PICK root \in Lineage[i] : IsRoot(root)
    BY <2>4, LineageHasARoot
  <2> QED
    BY <2>4, <2>5
<1> QED
  BY <1>1, <1>2 DEF OutputsLeadBack

-----------------------------------------------------------------------------
(* The stages *)

\* Where a kind has artifacts, the newest of them is one of that kind.
LEMMA NewestIsThere ==
  ASSUME BundleInv, NEW kind, OfKind(kind) # {}
  PROVE  NewestOf(kind) \in OfKind(kind)
<1>1. OfKind(kind) \subseteq Nat /\ Len(bundle) \in Nat /\ \A i \in OfKind(kind) : i <= Len(bundle)
  BY DEF OfKind, BundleInv, BundleTypes
<1>2. \E i \in OfKind(kind) : \A j \in OfKind(kind) : j <= i
  BY <1>1, GreatestNumber
<1> QED
  BY <1>2 DEF NewestOf

\* Artifacts that may be added to the bundle together
Addable(added) ==
    /\ added \in Seq(Artifacts)
    /\ \A n \in 1..Len(added) :
        /\ added[n].from \subseteq DOMAIN bundle
        /\ added[n].kind # "document" => added[n].from # {}
        /\ \A j \in added[n].from : bundle[j].kind = MadeFrom[added[n].kind]
        /\ added[n].kind = "resolution" => \A j \in DOMAIN bundle : bundle[j].kind = "extraction" => j \in added[n].from
        /\ added[n].kind = "extraction" => Len(added) = 1

\* Artifacts that may be added leave the earlier ones as they are, and all of them well made.
LEMMA AddingKeeps ==
  ASSUME BundleInv, NEW added, Addable(added), bundle' = bundle \o added
  PROVE  /\ bundle' \in Seq(Artifacts) /\ \A i \in DOMAIN bundle' : WellMade(i)'
         /\ Len(bundle') = Len(bundle) + Len(added)
         /\ \A i \in DOMAIN bundle : i \in DOMAIN bundle' /\ bundle'[i] = bundle[i]
         /\ \A n \in 1..Len(added) : Len(bundle) + n \in DOMAIN bundle' /\ bundle'[Len(bundle) + n] = added[n]
<1> DEFINE more == Len(added)
<1>0. PICK size \in Nat : size = Len(bundle)
  BY DEF BundleInv, BundleTypes
<1>1. bundle \in Seq(Artifacts) /\ added \in Seq(Artifacts) /\ more \in Nat /\ DOMAIN bundle = 1..size
  BY <1>0 DEF BundleInv, BundleTypes, Addable
<1>2. /\ bundle' \in Seq(Artifacts) /\ Len(bundle') = size + more /\ DOMAIN bundle' = 1..(size + more)
      /\ \A i \in 1..size : bundle'[i] = bundle[i]
      /\ \A n \in 1..more : bundle'[size + n] = added[n]
  BY <1>0, <1>1
<1> HIDE DEF more
<1>3. ASSUME NEW i \in 1..size PROVE WellMade(i)'
  <2>1. WellMade(i) /\ \A j \in 1..(i - 1) : j \in 1..size /\ bundle'[j] = bundle[j]
    <3>1. \A j \in 1..(i - 1) : j \in 1..size
      BY <1>3
    <3> QED
      BY <1>1, <1>2, <1>3, <3>1 DEF BundleInv
  <2> QED
    BY <1>2, <2>1 DEF WellMade
<1>4. ASSUME NEW n \in 1..more, NEW i \in Nat, i = size + n PROVE WellMade(i)'
  <2>1. /\ added[n].from \subseteq 1..size
        /\ added[n].kind # "document" => added[n].from # {}
        /\ \A j \in added[n].from : bundle[j].kind = MadeFrom[added[n].kind]
        /\ added[n].kind = "resolution" => \A j \in 1..size : bundle[j].kind = "extraction" => j \in added[n].from
    BY <1>1, <1>4 DEF Addable, more
  <2>2. \A m \in 1..more : added[m].kind = "extraction" => more = 1
    BY <1>1 DEF Addable, more
  <2>3. ASSUME added[n].kind = "resolution", NEW j \in 1..(i - 1), bundle'[j].kind = "extraction" PROVE j \in added[n].from
    <3>1. CASE j \in 1..size
      BY <1>2, <2>1, <2>3, <3>1
    <3>2. CASE j \notin 1..size
      <4>1. j - size \in 1..more /\ j = size + (j - size) /\ j - size < n
        BY <1>1, <1>4, <3>2
      <4>2. added[j - size].kind = "extraction"
        BY <1>2, <2>3, <4>1
      <4>3. more = 1
        BY <2>2, <4>1, <4>2
      <4> QED
        BY <1>4, <4>1, <4>3
    <3> QED
      BY <3>1, <3>2
  <2>4. bundle'[i] = added[n] /\ \A j \in added[n].from : j \in 1..(i - 1) /\ bundle'[j] = bundle[j]
    BY <1>1, <1>2, <1>4, <2>1
  <2>5. bundle'[i].from = added[n].from /\ bundle'[i].kind = added[n].kind
    BY <2>4
  <2>6. bundle'[i].from \subseteq 1..(i - 1) /\ \A j \in bundle'[i].from : bundle'[j].kind = MadeFrom[bundle'[i].kind]
    BY <2>1, <2>4, <2>5
  <2>7. bundle'[i].kind = "resolution" => \A j \in 1..(i - 1) : bundle'[j].kind = "extraction" => j \in bundle'[i].from
    BY <2>3, <2>5
  <2> QED
    BY <2>1, <2>5, <2>6, <2>7 DEF WellMade
<1>5. \A i \in DOMAIN bundle' : i \in 1..size \/ \E n \in 1..more : i = size + n
  <2>1. ASSUME NEW i \in 1..(size + more), i \notin 1..size PROVE i - size \in 1..more /\ i = size + (i - size)
    BY <1>1, <2>1
  <2> QED
    BY <1>2, <2>1
<1>6. \A i \in DOMAIN bundle' : WellMade(i)'
  <2> SUFFICES ASSUME NEW i \in DOMAIN bundle' PROVE WellMade(i)'
    OBVIOUS
  <2>1. CASE i \in 1..size
    BY <1>3, <2>1
  <2>2. CASE \E n \in 1..more : i = size + n
    <3>1. PICK n \in 1..more : i = size + n
      BY <2>2
    <3>2. i \in Nat
      BY <1>1, <3>1
    <3> QED
      BY <1>4, <3>1, <3>2
  <2> QED
    BY <1>5, <2>1, <2>2
<1>7. \A n \in 1..more : size + n \in 1..(size + more)
  BY <1>1
<1>8. \A i \in 1..size : i \in 1..(size + more)
  BY <1>1
<1> QED
  BY <1>0, <1>1, <1>2, <1>6, <1>7, <1>8 DEF more

\* One artifact made from the kind before it, a resolution from every reading, may be added.
LEMMA AddOne ==
  ASSUME BundleInv, NEW artifact \in Artifacts, artifact.from \subseteq DOMAIN bundle,
         artifact.kind # "document" => artifact.from # {},
         \A j \in artifact.from : bundle[j].kind = MadeFrom[artifact.kind],
         artifact.kind = "resolution" => artifact.from = OfKind("extraction")
  PROVE  Addable(<<artifact>>)
<1>1. <<artifact>> \in Seq(Artifacts) /\ Len(<<artifact>>) = 1 /\ \A n \in 1..1 : <<artifact>>[n] = artifact
  OBVIOUS
<1>2. artifact.kind = "resolution" => \A j \in DOMAIN bundle : bundle[j].kind = "extraction" => j \in artifact.from
  BY DEF OfKind
<1> QED
  BY <1>1, <1>2 DEF Addable

\* A stage that adds artifacts, or a failure, or neither, goes on to the next.
LEMMA StageGoesOn ==
  ASSUME BundleInv, NEW name, At(name), NEW added, Addable(added), bundle' = bundle \o added,
         failures \subseteq failures',
         \* while nothing failed the only document imported is the first artifact
         failures' = {} => \A n \in 1..Len(added) : added[n].from = {} => bundle = <<>> /\ n = 1,
         failures' = {} /\ stage = 9 => \E n \in 1..Len(added) : added[n].kind = "output",
         ~HasCritical' /\ stage = 1 => \E n \in 1..Len(added) : added[n].kind = "document"
  PROVE  BundleInv'
<1>1. /\ verdict = "running" /\ verdict' = "running" /\ stage \in 1..9 /\ stage' = stage + 1
  BY DEF At, BundleInv, BundleTypes, Stages
<1>2. BundleTypes' /\ \A i \in DOMAIN bundle' : WellMade(i)'
  <2>1. stage' \in 1..10
    BY <1>1
  <2> QED
    BY <1>1, <2>1, AddingKeeps DEF BundleTypes
<1>3. Len(bundle) \in Nat /\ bundle \in Seq(Artifacts) /\ Len(added) \in Nat
  BY DEF BundleInv, BundleTypes, Addable
<1>4. ASSUME failures' = {}, NEW i \in DOMAIN bundle', IsRoot(i)' PROVE i = 1
  <2>1. failures = {}
    BY <1>4
  <2>2. CASE i \in DOMAIN bundle
    BY <1>4, <2>1, <2>2, AddingKeeps DEF IsRoot, BundleInv, JobInv
  <2>3. CASE i \notin DOMAIN bundle
    <3>1. PICK n \in 1..Len(added) : i = Len(bundle) + n
      <4>1. i \in 1..(Len(bundle) + Len(added)) /\ i \notin 1..Len(bundle)
        BY <1>3, <1>2, <1>4, <2>3, AddingKeeps
      <4>2. i - Len(bundle) \in 1..Len(added) /\ i = Len(bundle) + (i - Len(bundle))
        BY <1>3, <4>1
      <4> QED
        BY <4>2
    <3>2. added[n].from = {}
      BY <1>4, <3>1, AddingKeeps DEF IsRoot
    <3> QED
      BY <1>4, <3>1, <3>2
  <2> QED
    BY <2>2, <2>3
<1>5. ASSUME failures' = {}, stage' = 10 PROVE OfKind("output")' # {}
  <2>0. stage = 9
    BY <1>1, <1>5
  <2>1. PICK n \in 1..Len(added) : added[n].kind = "output"
    <3>1. \E n \in 1..Len(added) : added[n].kind = "output"
      BY <1>5, <2>0
    <3> QED
      BY <3>1, Zenon
  <2> QED
    BY <2>1, AddingKeeps DEF OfKind
<1>6. ASSUME ~HasCritical' PROVE OfKind("document")' # {}
  <2>1. ~HasCritical
    BY <1>6 DEF HasCritical
  <2>2. CASE stage = 1
    <3>1. PICK n \in 1..Len(added) : added[n].kind = "document"
      BY <1>6, <2>2
    <3> QED
      BY <3>1, AddingKeeps DEF OfKind
  <2>3. CASE stage # 1
    <3>1. PICK i \in DOMAIN bundle : bundle[i].kind = "document"
      BY <1>1, <2>1, <2>3 DEF BundleInv, JobInv, OfKind
    <3> QED
      BY <3>1, AddingKeeps DEF OfKind
  <2> QED
    BY <2>2, <2>3
<1>7. stage' # 1 /\ verdict' \notin {"completed", "retrying"}
  BY <1>1
<1>8. JobInv'
  BY <1>4, <1>5, <1>6, <1>7 DEF JobInv
<1> QED
  BY <1>2, <1>8 DEF BundleInv

\* A stage that appends nothing keeps the invariant.
LEMMA StageLeavesBundle ==
  ASSUME BundleInv, NEW name, At(name), UNCHANGED bundle, failures \subseteq failures',
         failures' = {} => name # "output_build", ~HasCritical' => name # "document_import"
  PROVE  BundleInv'
<1>1. stage \in 1..9 /\ Stages[stage] = name
  BY DEF At, BundleInv, BundleTypes, Stages
<1>2. failures' = {} => stage # 9
  BY <1>1 DEF Stages
<1>3. ~HasCritical' => stage # 1
  BY <1>1 DEF Stages
<1> DEFINE added == <<>>
<1>4. Addable(added) /\ bundle' = bundle \o added
  BY DEF Addable, BundleInv, BundleTypes
<1>5. 1..Len(added) = {}
  OBVIOUS
<1> HIDE DEF added
<1> QED
  BY <1>2, <1>3, <1>4, <1>5, StageGoesOn

\* A stage that adds one such artifact and goes on or fails keeps the invariant.
LEMMA StageAddsOne ==
  ASSUME BundleInv, NEW name, name \notin {"document_import", "output_build"}, At(name), failures \subseteq failures',
         NEW artifact \in Artifacts, bundle' = bundle \o <<artifact>>,
         artifact.from \subseteq DOMAIN bundle, artifact.from # {},
         \A j \in artifact.from : bundle[j].kind = MadeFrom[artifact.kind],
         artifact.kind = "resolution" => artifact.from = OfKind("extraction")
  PROVE  BundleInv'
<1>1. stage \in 1..9 /\ Stages[stage] = name
  BY DEF At, BundleInv, BundleTypes, Stages
<1>2. stage # 9 /\ stage # 1
  BY <1>1 DEF Stages
<1> DEFINE added == <<artifact>>
<1>3. Addable(added) /\ bundle' = bundle \o added
  BY AddOne
<1>4. \A n \in 1..Len(added) : added[n] = artifact
  OBVIOUS
<1> HIDE DEF added
<1> QED
  BY <1>2, <1>3, <1>4, StageGoesOn

\* A failure at a stage
LEMMA FailingKeeps ==
  ASSUME BundleInv, NEW name, At(name), NEW retryable \in BOOLEAN, NEW review \in BOOLEAN,
         NEW severity, Fails(name, severity, retryable, review),
         name = "document_import" => severity = "critical"
  PROVE  BundleInv'
<1>1. failures \subseteq failures' /\ failures' # {} /\ UNCHANGED bundle /\ Failure(name, severity, retryable, review) \in failures'
  BY DEF Fails
<1>2. severity = "critical" => HasCritical'
  BY <1>1 DEF HasCritical, Failure
<1> QED
  BY <1>1, <1>2, StageLeavesBundle

\* Where a kind has artifacts, the newest of them is one of the bundle.
LEMMA SourcesExist ==
  ASSUME BundleInv, NEW kind, OfKind(kind) # {}
  PROVE  NewestOf(kind) \in DOMAIN bundle /\ bundle[NewestOf(kind)].kind = kind /\ {NewestOf(kind)} \in Sets /\ OfKind(kind) \in Sets
<1>1. OfKind(kind) \subseteq Nat
  BY DEF OfKind, BundleInv, BundleTypes
<1>2. NewestOf(kind) \in OfKind(kind)
  BY NewestIsThere
<1> QED
  BY <1>1, <1>2 DEF OfKind, Sets

\* A stage that adds one artifact, made from the newest of the kind before
LEMMA StageGoesBackOne ==
  ASSUME BundleInv, NEW name, name \notin {"document_import", "output_build"}, At(name), failures \subseteq failures',
         NEW artifact \in Artifacts, bundle' = bundle \o <<artifact>>,
         NEW kind, OfKind(kind) # {}, artifact.from = {NewestOf(kind)}, MadeFrom[artifact.kind] = kind,
         artifact.kind # "resolution"
  PROVE  BundleInv'
<1>1. NewestOf(kind) \in DOMAIN bundle /\ bundle[NewestOf(kind)].kind = kind
  BY SourcesExist
<1>2. artifact.from \subseteq DOMAIN bundle /\ artifact.from # {}
  BY <1>1
<1>3. \A j \in artifact.from : bundle[j].kind = MadeFrom[artifact.kind]
  BY <1>1
<1> QED
  BY <1>2, <1>3, StageAddsOne

\* Document import keeps the invariant.
LEMMA ImportKeeps == ASSUME BundleInv, ImportDocument PROVE BundleInv'
<1>1. At("document_import") /\ stage = 1
  BY DEF ImportDocument, At, BundleInv, BundleTypes, Stages
<1>2. CASE upload = "broken"
  BY <1>1, <1>2, FailingKeeps DEF ImportDocument
<1>3. CASE upload # "broken"
  <2> DEFINE doc == DocumentArtifact({}, upload = "typed")
  <2>1. doc \in Artifacts /\ doc.kind = "document" /\ doc.from = {}
    BY DEF DocumentArtifact, Artifacts, Sets
  <2>2. bundle' = bundle \o <<doc>> /\ failures' = failures
    BY <1>3 DEF ImportDocument, Emits
  <2> HIDE DEF doc
  <2> DEFINE added == <<doc>>
  <2>3. Addable(added)
    BY <2>1, AddOne
  <2>4. Len(added) = 1 /\ added[1] = doc /\ 1 \in 1..1 /\ \A n \in 1..1 : n = 1
    OBVIOUS
  <2>5. failures = {} => bundle = <<>>
    BY <1>1 DEF BundleInv, JobInv
  <2>6. bundle' = bundle \o added
    BY <2>2
  <2> HIDE DEF added
  <2> QED
    BY <1>1, <2>1, <2>2, <2>3, <2>4, <2>5, <2>6, StageGoesOn
<1> QED
  BY <1>2, <1>3

\* OCR keeps the invariant.
LEMMA ReadTextKeeps == ASSUME BundleInv, ReadText PROVE BundleInv'
<1>1. At("ocr")
  BY DEF ReadText
<1>2. OfKind("document") # {}
  <2>1. ~HasCritical /\ stage = 2
    BY DEF ReadText, At, BundleInv, BundleTypes, Stages, MustTry
  <2> QED
    BY <2>1 DEF BundleInv, JobInv
<1>3. CASE Emits(<<OcrArtifact(NewestOf("document"))>>)
  <2> DEFINE text == OcrArtifact(NewestOf("document"))
  <2>1. text \in Artifacts /\ text.kind = "ocr" /\ text.from = {NewestOf("document")}
    BY <1>2, SourcesExist DEF OcrArtifact, Artifacts, Kinds
  <2>2. bundle' = bundle \o <<text>> /\ failures' = failures
    BY <1>3 DEF Emits
  <2> HIDE DEF text
  <2>3. MadeFrom[text.kind] = "document"
    BY <2>1 DEF MadeFrom
  <2> QED
    BY <1>1, <1>2, <2>1, <2>2, <2>3, StageGoesBackOne
<1>4. CASE \E retryable \in BOOLEAN : Fails("ocr", "critical", retryable, TRUE)
  BY <1>1, <1>4, FailingKeeps
<1>5. CASE LeavesNothing
  BY <1>1, <1>5, StageLeavesBundle DEF LeavesNothing
<1> QED
  BY <1>3, <1>4, <1>5 DEF ReadText

\* Classification keeps the invariant.
LEMMA ClassifyKeeps == ASSUME BundleInv, Classify PROVE BundleInv'
<1>1. At("classification")
  BY DEF Classify
<1>2. CASE OfKind("ocr") = {}
  BY <1>1, <1>2, FailingKeeps DEF Classify
<1>3. CASE OfKind("ocr") # {}
  <2> DEFINE doc == DocumentOf(NewestOf("ocr"))
             typed == DocumentArtifact({doc}, TRUE)
  <2>1. NewestOf("ocr") \in DOMAIN bundle /\ bundle[NewestOf("ocr")].kind = "ocr"
    BY <1>3, SourcesExist
  <2>2. doc \in DOMAIN bundle /\ bundle[doc].kind = "document"
    <3>1. \E i \in bundle[NewestOf("ocr")].from : bundle[i].kind = "document"
      BY <2>1 DEF BundleInv, WellMade, MadeFrom
    <3>2. doc \in bundle[NewestOf("ocr")].from /\ bundle[doc].kind = "document"
      BY <3>1 DEF DocumentOf
    <3> HIDE DEF doc
    <3> QED
      BY <2>1, <3>2, LineageGrows
  <2>3. CASE bundle[doc].typed
    <3>1. LeavesNothing
      BY <1>3, <2>3 DEF Classify
    <3> QED
      BY <1>1, <3>1, StageLeavesBundle DEF LeavesNothing
  <2>4. CASE ~bundle[doc].typed
    <3>1. bundle' = bundle \o <<typed>> /\ failures' = failures
      BY <1>3, <2>4 DEF Classify, Emits
    <3> HIDE DEF doc
    <3>2. typed \in Artifacts /\ typed.kind = "document" /\ typed.from = {doc}
      <4>1. {doc} \in Sets
        BY <2>2 DEF Sets, BundleInv, BundleTypes
      <4> QED
        BY <4>1 DEF DocumentArtifact, Artifacts
    <3> HIDE DEF typed
    <3>3. typed.from \subseteq DOMAIN bundle /\ typed.from # {} /\ \A j \in typed.from : bundle[j].kind = MadeFrom[typed.kind]
      BY <2>2, <3>2 DEF MadeFrom
    <3> QED
      BY <1>1, <3>1, <3>2, <3>3, StageAddsOne
  <2> QED
    BY <2>3, <2>4
<1> QED
  BY <1>2, <1>3

\* Extraction keeps the invariant.
LEMMA ExtractKeeps == ASSUME BundleInv, Extract PROVE BundleInv'
<1>1. At("extraction")
  BY DEF Extract
<1>2. ASSUME NEW severity, NEW retryable \in BOOLEAN, NEW review \in BOOLEAN,
             Fails("extraction", severity, retryable, review) PROVE BundleInv'
  BY <1>1, <1>2, FailingKeeps
<1>3. CASE OfKind("ocr") = {}
  BY <1>2, <1>3 DEF Extract
<1>4. CASE OfKind("ocr") # {}
  <2>1. ASSUME NEW candidates \in BOOLEAN, bundle' = Append(bundle, ExtractionArtifact(NewestOf("ocr"), candidates)),
               failures \subseteq failures' PROVE BundleInv'
    <3> DEFINE reading == ExtractionArtifact(NewestOf("ocr"), candidates)
    <3>1. reading \in Artifacts /\ reading.kind = "extraction" /\ reading.from = {NewestOf("ocr")}
      BY <1>4, SourcesExist DEF ExtractionArtifact, Artifacts
    <3>2. bundle' = Append(bundle, reading)
      BY <2>1
    <3> HIDE DEF reading
    <3>3. bundle' = bundle \o <<reading>>
      BY <3>1, <3>2 DEF BundleInv, BundleTypes
    <3>4. MadeFrom[reading.kind] = "ocr"
      BY <3>1 DEF MadeFrom
    <3> QED
      BY <1>1, <1>4, <2>1, <3>1, <3>3, <3>4, StageGoesBackOne
  <2>2. CASE \E candidates \in BOOLEAN, unsaved \in BOOLEAN :
                /\ bundle' = Append(bundle, ExtractionArtifact(NewestOf("ocr"), candidates))
                /\ failures' = IF unsaved
                               THEN failures \cup {Failure("extraction", "warning", FALSE, FALSE)}
                               ELSE failures
    BY <2>1, <2>2
  <2> QED
    BY <1>2, <1>4, <2>2 DEF Extract
<1> QED
  BY <1>3, <1>4

\* Entity resolution keeps the invariant.
LEMMA ResolveKeeps == ASSUME BundleInv, ResolveEntity PROVE BundleInv'
<1>1. At("entity_resolution")
  BY DEF ResolveEntity
<1>2. ASSUME NEW severity, NEW retryable \in BOOLEAN, NEW review \in BOOLEAN,
             Fails("entity_resolution", severity, retryable, review) PROVE BundleInv'
  BY <1>1, <1>2, FailingKeeps
<1>3. ASSUME OfKind("extraction") # {}, Emits(<<EntityResolutionArtifact(OfKind("extraction"))>>) PROVE BundleInv'
  <2> DEFINE resolved == EntityResolutionArtifact(OfKind("extraction"))
  <2>1. resolved \in Artifacts /\ resolved.kind = "resolution" /\ resolved.from = OfKind("extraction")
    BY <1>3, SourcesExist DEF EntityResolutionArtifact, Artifacts, Kinds
  <2>2. bundle' = bundle \o <<resolved>> /\ failures' = failures
    BY <1>3 DEF Emits
  <2> HIDE DEF resolved
  <2>3. resolved.from \subseteq DOMAIN bundle /\ resolved.from # {} /\ MadeFrom[resolved.kind] = "extraction"
        /\ \A j \in resolved.from : bundle[j].kind = "extraction"
    BY <1>3, <2>1 DEF OfKind, MadeFrom
  <2> QED
    BY <1>1, <2>1, <2>2, <2>3, StageAddsOne
<1> QED
  BY <1>2, <1>3 DEF ResolveEntity

\* The stages that come after: they fail, leave nothing, or add one artifact.
LEMMA LateStageKeeps ==
  ASSUME BundleInv, NEW name, name \notin {"document_import", "output_build"}, At(name), NEW kind,
         NEW artifact \in Artifacts, artifact.from = {NewestOf(kind)}, MadeFrom[artifact.kind] = kind, artifact.kind # "resolution",
         OfKind(kind) # {}, Emits(<<artifact>>)
  PROVE  BundleInv'
<1>1. bundle' = bundle \o <<artifact>> /\ failures \subseteq failures'
  BY DEF Emits
<1> QED
  BY <1>1, StageGoesBackOne

\* Knowledge building, acceptance and profile building keep the invariant.
LEMMA LateStages ==
  ASSUME BundleInv, BuildFacts \/ AcceptFacts \/ ProfileBuild PROVE BundleInv'
<1>1. ASSUME NEW name, name # "document_import", At(name), NEW severity, NEW retryable \in BOOLEAN, NEW review \in BOOLEAN,
             Fails(name, severity, retryable, review) PROVE BundleInv'
  BY <1>1, FailingKeeps
<1>2. CASE BuildFacts
  <2>1. At("knowledge_build")
    BY <1>2 DEF BuildFacts
  <2>2. ASSUME OfKind("resolution") # {}, Emits(<<KnowledgeBuildArtifact(NewestOf("resolution"))>>) PROVE BundleInv'
    <3> DEFINE artifact == KnowledgeBuildArtifact(NewestOf("resolution"))
    <3>1. artifact \in Artifacts /\ artifact.kind = "knowledge" /\ artifact.from = {NewestOf("resolution")}
      BY <2>2, SourcesExist DEF KnowledgeBuildArtifact, Artifacts, Kinds
    <3>2. Emits(<<artifact>>)
      BY <2>2
    <3> HIDE DEF artifact
    <3>3. MadeFrom[artifact.kind] = "resolution"
      BY <3>1 DEF MadeFrom
    <3> QED
      BY <2>1, <2>2, <3>1, <3>2, <3>3, LateStageKeeps
  <2> QED
    BY <1>1, <1>2, <2>1, <2>2 DEF BuildFacts
<1>3. CASE AcceptFacts
  <2>1. At("fact_acceptance")
    BY <1>3 DEF AcceptFacts
  <2>2. ASSUME OfKind("knowledge") # {}, Emits(<<FactAcceptanceArtifact(NewestOf("knowledge"))>>) PROVE BundleInv'
    <3> DEFINE artifact == FactAcceptanceArtifact(NewestOf("knowledge"))
    <3>1. artifact \in Artifacts /\ artifact.kind = "acceptance" /\ artifact.from = {NewestOf("knowledge")}
      BY <2>2, SourcesExist DEF FactAcceptanceArtifact, Artifacts, Kinds
    <3>2. Emits(<<artifact>>)
      BY <2>2
    <3> HIDE DEF artifact
    <3>3. MadeFrom[artifact.kind] = "knowledge"
      BY <3>1 DEF MadeFrom
    <3> QED
      BY <2>1, <2>2, <3>1, <3>2, <3>3, LateStageKeeps
  <2> QED
    BY <1>1, <1>3, <2>1, <2>2 DEF AcceptFacts
<1>4. CASE ProfileBuild
  <2>1. At("profile_build")
    BY <1>4 DEF ProfileBuild
  <2>2. ASSUME OfKind("acceptance") # {}, Emits(<<ProfileArtifact(NewestOf("acceptance"))>>) PROVE BundleInv'
    <3> DEFINE artifact == ProfileArtifact(NewestOf("acceptance"))
    <3>1. artifact \in Artifacts /\ artifact.kind = "profile" /\ artifact.from = {NewestOf("acceptance")}
      BY <2>2, SourcesExist DEF ProfileArtifact, Artifacts, Kinds
    <3>2. Emits(<<artifact>>)
      BY <2>2
    <3> HIDE DEF artifact
    <3>3. MadeFrom[artifact.kind] = "acceptance"
      BY <3>1 DEF MadeFrom
    <3> QED
      BY <2>1, <2>2, <3>1, <3>2, <3>3, LateStageKeeps
  <2>3. CASE LeavesNothing
    BY <2>1, <2>3, StageLeavesBundle DEF LeavesNothing
  <2> QED
    BY <1>1, <1>4, <2>1, <2>2, <2>3 DEF ProfileBuild
<1> QED
  BY <1>2, <1>3, <1>4

\* Output building keeps the invariant.
LEMMA OutputKeeps == ASSUME BundleInv, OutputBuild PROVE BundleInv'
<1>1. At("output_build") /\ stage = 9
  BY DEF OutputBuild, At, BundleInv, BundleTypes, Stages
<1>2. ASSUME NEW severity, NEW retryable \in BOOLEAN, NEW review \in BOOLEAN,
             Fails("output_build", severity, retryable, review) PROVE BundleInv'
  BY <1>1, <1>2, FailingKeeps
<1>3. ASSUME OfKind("profile") # {}, NEW generated \in SUBSET OutputTypes, generated # {}, Emits(GeneratedOutputs(generated))
      PROVE  BundleInv'
  <2> DEFINE output == OutputArtifact(NewestOf("profile"))
             added == GeneratedOutputs(generated)
             many == Cardinality(generated)
  <2>1. many \in Nat /\ many # 0
    BY <1>3, BundleAssumption, FS_Subset, FS_CardinalityType, FS_EmptySet
  <2>2. output \in Artifacts /\ output.kind = "output" /\ output.from = {NewestOf("profile")}
    BY <1>3, SourcesExist DEF OutputArtifact, Artifacts, Kinds
  <2>3. added = [n \in 1..many |-> output]
    BY DEF GeneratedOutputs
  <2> HIDE DEF output, many
  <2>4. added \in Seq(Artifacts) /\ Len(added) = many /\ \A n \in 1..many : added[n] = output
    BY <2>1, <2>2, <2>3
  <2>5. bundle' = bundle \o added /\ failures' = failures
    BY <1>3 DEF Emits
  <2> HIDE DEF added
  <2>6. output.from \subseteq DOMAIN bundle /\ output.from # {} /\ \A j \in output.from : bundle[j].kind = MadeFrom[output.kind]
    <3>1. NewestOf("profile") \in DOMAIN bundle /\ bundle[NewestOf("profile")].kind = "profile"
      BY <1>3, SourcesExist
    <3> QED
      BY <2>2, <3>1 DEF MadeFrom
  <2>7. Addable(added)
    BY <2>2, <2>4, <2>6 DEF Addable
  <2>8. 1 \in 1..many
    BY <2>1
  <2>9. \E n \in 1..Len(added) : added[n].kind = "output"
    BY <2>2, <2>4, <2>8
  <2>10. \A n \in 1..Len(added) : added[n].from # {}
    BY <2>4, <2>6
  <2>11. At("output_build") /\ failures \subseteq failures' /\ stage # 1
    BY <1>1, <2>5
  <2>12. failures' = {} => \A n \in 1..Len(added) : added[n].from = {} => bundle = <<>> /\ n = 1
    BY <2>10
  <2> HIDE DEF added
  <2> QED
    BY <2>5, <2>7, <2>9, <2>11, <2>12, StageGoesOn
<1> QED
  BY <1>2, <1>3 DEF OutputBuild

\* Written out and read back, the bundle is the same.
LEMMA RestoredIsTheSame == ASSUME NEW S, NEW items \in Seq(S) PROVE Restored(items) = items
<1> DEFINE size == Len(items)
           added == CHOOSE f : f = [n \in 0..size |-> IF n = 0 THEN <<>> ELSE Append(f[n - 1], items[n])]
           prefixes == [n \in 0..size |-> SubSeq(items, 1, n)]
           done == {n \in Nat : n <= size => added[n] = SubSeq(items, 1, n)}
<1>1. size \in Nat
  OBVIOUS
<1>2. \A n \in 1..size : SubSeq(items, 1, n) = Append(SubSeq(items, 1, n - 1), items[n])
  <2> SUFFICES ASSUME NEW n \in 1..size PROVE SubSeq(items, 1, n) = Append(SubSeq(items, 1, n - 1), items[n])
    OBVIOUS
  <2>1. SubSeq(items, 1, n) \in Seq(S) /\ SubSeq(items, 1, n - 1) \in Seq(S) /\ items[n] \in S
    OBVIOUS
  <2>2. Len(SubSeq(items, 1, n)) = n /\ Len(SubSeq(items, 1, n - 1)) = n - 1
    OBVIOUS
  <2>3. \A k \in 1..n : SubSeq(items, 1, n)[k] = items[k]
    OBVIOUS
  <2>4. \A k \in 1..(n - 1) : SubSeq(items, 1, n - 1)[k] = items[k]
    OBVIOUS
  <2> QED
    BY <2>1, <2>2, <2>3, <2>4
<1>3. SubSeq(items, 1, 0) = <<>> /\ SubSeq(items, 1, size) = items
  OBVIOUS
<1>4. prefixes = [n \in 0..size |-> IF n = 0 THEN <<>> ELSE Append(prefixes[n - 1], items[n])]
  <2>1. \A n \in 0..size : n # 0 => n \in 1..size /\ n - 1 \in 0..size
    BY <1>1
  <2>2. \A n \in 0..size : prefixes[n] = SubSeq(items, 1, n)
    OBVIOUS
  <2> HIDE DEF size
  <2> QED
    BY <1>2, <1>3, <2>1, <2>2
<1>5. added = [n \in 0..size |-> IF n = 0 THEN <<>> ELSE Append(added[n - 1], items[n])]
  <2> HIDE DEF prefixes, size
  <2> QED
    BY <1>4
<1> HIDE DEF added
<1>6. 0 \in done
  BY <1>1, <1>3, <1>5
<1>7. ASSUME NEW n \in Nat, n \in done PROVE n + 1 \in done
  <2> SUFFICES ASSUME n + 1 <= size PROVE added[n + 1] = SubSeq(items, 1, n + 1)
    OBVIOUS
  <2>1. n + 1 \in 0..size /\ n + 1 # 0 /\ (n + 1) - 1 = n /\ n + 1 \in 1..size /\ n <= size
    BY <1>1
  <2>2. added[n + 1] = Append(added[n], items[n + 1])
    <3> HIDE DEF size, done
    <3> QED
      BY <1>5, <2>1
  <2>3. added[n] = SubSeq(items, 1, n)
    BY <1>7, <2>1
  <2> HIDE DEF size, done
  <2> QED
    BY <1>2, <2>1, <2>2, <2>3
<1>8. Nat \subseteq done
  <2> HIDE DEF done
  <2> QED
    BY <1>6, <1>7, NumbersByInduction
<1>9. added[size] = items
  <2>1. size \in done /\ size <= size
    <3> HIDE DEF done
    <3> QED
      BY <1>1, <1>8
  <2>2. added[size] = SubSeq(items, 1, size)
    BY <2>1
  <2> QED
    BY <1>3, <2>2
<1> QED
  BY <1>9 DEF Restored, added

\* The pipeline starts with the invariant.
LEMMA BundleBegins == BundleInit => BundleInv
<1> SUFFICES ASSUME BundleInit PROVE BundleInv
  OBVIOUS
<1>1. bundle = <<>> /\ stage = 1 /\ verdict = "running" /\ bundle \in Seq(Artifacts) /\ DOMAIN bundle = {}
  BY DEF BundleInit
<1> QED
  BY <1>1 DEF BundleInv, BundleTypes, JobInv

\* Every step of the pipeline keeps the invariant, failures and retries included.
LEMMA BundlePreserved == BundleInv /\ [BundleNext]_bundleVars => BundleInv'
<1> SUFFICES ASSUME BundleInv, [BundleNext]_bundleVars PROVE BundleInv'
  OBVIOUS
<1>1. ASSUME UNCHANGED <<bundle, failures>>, BundleTypes', JobInv' PROVE BundleInv'
  BY <1>1 DEF BundleInv, WellMade
<1>2. CASE Skip
  <2>1. HasCritical /\ failures # {} /\ stage \in 1..9 /\ stage' = stage + 1 /\ UNCHANGED <<bundle, failures>>
        /\ verdict = "running" /\ verdict' = verdict
    BY <1>2 DEF Skip, BundleInv, BundleTypes, Stages, HasCritical
  <2>2. stage' \in 1..10 /\ HasCritical'
    BY <2>1 DEF HasCritical
  <2>3. BundleTypes'
    BY <2>1, <2>2 DEF BundleTypes, BundleInv
  <2>4. JobInv'
    BY <2>1, <2>2 DEF JobInv
  <2> QED
    BY <1>1, <2>1, <2>3, <2>4
<1>3. CASE Route
  <2>1. stage = 10 /\ verdict' \in {"completed", "retrying", "failed"} /\ UNCHANGED <<bundle, failures, stage>>
    BY <1>3 DEF Route, BundleInv, BundleTypes, Stages
  <2>2. verdict' = "completed" => failures = {}
    BY <1>3 DEF Route, RecoveryDecision
  <2>3. verdict' = "retrying" => failures # {}
    BY <1>3 DEF Route, RecoveryDecision
  <2>4. BundleTypes'
    BY <2>1 DEF BundleTypes, BundleInv
  <2>5. JobInv'
    BY <2>1, <2>2, <2>3 DEF JobInv, BundleInv, HasCritical, OfKind, IsRoot
  <2> QED
    BY <1>1, <2>1, <2>4, <2>5
<1>4. CASE RunAgain
  <2>1. failures # {} /\ stage' = 1 /\ verdict' = "running" /\ failures' = failures
    BY <1>4 DEF RunAgain, BundleInv, JobInv
  <2>2. bundle' = bundle
    BY <1>4, RestoredIsTheSame DEF RunAgain, BundleInv, BundleTypes
  <2>3. BundleTypes'
    BY <2>1, <2>2 DEF BundleTypes, BundleInv
  <2>4. JobInv'
    BY <2>1 DEF JobInv
  <2> QED
    BY <1>1, <2>1, <2>2, <2>3, <2>4
<1>5. CASE UNCHANGED bundleVars
  <2>1. UNCHANGED <<bundle, failures, stage, verdict>>
    BY <1>5 DEF bundleVars
  <2>2. BundleTypes'
    BY <2>1 DEF BundleTypes, BundleInv
  <2>3. JobInv'
    BY <2>1 DEF JobInv, BundleInv, HasCritical, OfKind, IsRoot
  <2> QED
    BY <1>1, <2>1, <2>2, <2>3
<1> QED
  BY <1>2, <1>3, <1>4, <1>5, ImportKeeps, ReadTextKeeps, ClassifyKeeps, ExtractKeeps, ResolveKeeps, LateStages, OutputKeeps
  DEF BundleNext

\* For any number of readings, entities and attempts: a completed job has built every kind of
\* artifact, its output leads back to a document, and a resolution rests on every text extracted
\* before it, in earlier attempts too.
THEOREM OutputsAreFounded == BundleSpec => []OutputsLeadBack
  BY BundleBegins, BundlePreserved, BundleMeans, PTL DEF BundleSpec

-----------------------------------------------------------------------------
(* Types *)

\* In the noise queue every item, case and page keeps its type.
LEMMA NoiseTyped == NoiseSpec => []NoiseTypeOK
<1>1. NoiseInv => NoiseTypeOK
  BY DEF NoiseInv
<1> QED
  BY <1>1, NoiseAlways, PTL

\* In the review service every case, copy and count keeps its type.
LEMMA DeskTyped == DeskSpec => []DeskTypeOK
<1>1. DeskInit => DeskInv
  BY DEF DeskInit, DeskInv, DeskTypeOK, DeskTellsOneStory, Unopened
<1>2. DeskInv => DeskTypeOK
  BY DEF DeskInv
<1> QED
  BY <1>1, <1>2, DeskPreserved, PTL DEF DeskSpec

\* In a file transaction every file, backup and record keeps its type.
LEMMA FileTyped == FileSpec => []FileTypeOK
<1>1. FileInv /\ UNCHANGED fileVars => FileInv'
  BY DEF fileVars, FileInv, FileTypeOK, BackedUp, Traceable, Leads, Undoable, Saved, RollbackRestores
<1>2. FileInv /\ [FileNext]_fileVars => FileInv'
  BY <1>1, OperationKeeps, FailureKeeps, UndoLastKeeps, FileEnds DEF FileNext
<1>3. FileInv => FileTypeOK
  BY DEF FileInv
<1> QED
  BY <1>2, <1>3, FileBegins, PTL DEF FileSpec

\* In the store every fact and every evidence keeps its type.
LEMMA StoreTyped == StoreSpec => []StoreTypeOK
<1>1. StoreInit => StoreInv
  BY DEF StoreInit, StoreInv, KnownKeys
<1>2. StoreInv => StoreTypeOK
  BY StoreMeans
<1> QED
  BY <1>1, <1>2, StorePreserved, PTL DEF StoreSpec

\* In the migration every table and process keeps its type.
LEMMA MigrationTyped == MigrationSpec => []MigrationTypeOK
<1>1. MigrationInv /\ UNCHANGED migrationVars => MigrationInv'
  BY DEF migrationVars, MigrationInv, MigrationTypes, JobsKept, OneConverts, NoiseAside, AsideIsConverted, NoiseKept, Converting, IsThere
<1>2. MigrationInv /\ [MigrationNext]_migrationVars => MigrationInv'
  BY <1>1, StarterKeeps, BootstrapKeeps, CrashKeeps, ExtractionKeeps DEF MigrationNext
<1>3. MigrationInv => MigrationTypeOK
  <2> SUFFICES ASSUME MigrationInv PROVE MigrationTypeOK
    OBVIOUS
  <2>1. ASSUME NEW n \in Tables
        PROVE  /\ tables[n].schema \in {"none", "old", "new"} /\ tables[n].rows \subseteq OldRows \cup NewRows
               /\ aside[n].schema \in {"none", "old", "new"} /\ aside[n].rows \subseteq OldRows \cup NewRows
    <3>1. tables[n] \in TableOfRows /\ aside[n] \in TableOfRows
      BY DEF MigrationInv, MigrationTypes
    <3> QED
      BY <3>1 DEF TableOfRows, Row
  <2> QED
    BY <2>1 DEF MigrationInv, MigrationTypes, MigrationTypeOK
<1> QED
  BY <1>2, <1>3, MigrationBegins, PTL DEF MigrationSpec

-----------------------------------------------------------------------------
(* Audit log *)

\* the recorders between the reading of the last hash and the insertion
Recording == {q \in Recorders : recorder[q].pc # "idle"}

\* Every recorder at work has a place left in the log.
PlacesInv == AuditTypeOK /\ IsFiniteSet(Recording) /\ Len(log) + Cardinality(Recording) <= MaxEntries

\* What a recorder carries, typed.
LEMMA BoundedRecorder ==
  ASSUME AuditTypeOK, NEW r \in Recorders
  PROVE  /\ recorder[r] \in Recorder /\ recorder[r].entry \in Entry
         /\ recorder[r].entry.previous \in 0..MaxEntries /\ recorder[r].entry.time \in Time
         /\ recorder[r].number \in 1..(MaxEntries + 1) /\ recorder[r].pc \in {"idle", "create", "number", "insert"}
BY DEF AuditTypeOK, Recorder, Entry

\* A recorder that goes on with its work takes no further place.
LEMMA RecordingGoesOn ==
  ASSUME PlacesInv, log' = log, now' = now, NEW r \in Recorders, recorder[r].pc # "idle", NEW record \in Recorder,
         record.pc # "idle", recorder' = [recorder EXCEPT ![r] = record]
  PROVE  PlacesInv'
<1>0. AuditTypeOK /\ IsFiniteSet(Recording) /\ Len(log) + Cardinality(Recording) <= MaxEntries
  BY DEF PlacesInv
<1>1. recorder' \in [Recorders -> Recorder] /\ recorder'[r] = record /\ \A q \in Recorders : q # r => recorder'[q] = recorder[q]
  BY DEF PlacesInv, AuditTypeOK
<1>2. Recording' = Recording
  BY <1>1 DEF Recording
<1>3. AuditTypeOK'
  BY <1>0, <1>1 DEF AuditTypeOK
<1>4. IsFiniteSet(Recording') /\ Len(log') + Cardinality(Recording') <= MaxEntries
  BY <1>0, <1>2
<1> QED
  BY <1>3, <1>4 DEF PlacesInv

\* The steps of the recorders and of the clock keep the log within its bound.
LEMMA PlacesKept == PlacesInv /\ [AuditNext]_auditVars => PlacesInv'
<1> SUFFICES ASSUME PlacesInv, [AuditNext]_auditVars PROVE PlacesInv'
  OBVIOUS
<1>0. /\ log \in Seq(Entry) /\ Len(log) \in Nat /\ recorder \in [Recorders -> Recorder] /\ now \in Nat /\ now <= MaxTime
      /\ MaxEntries \in Nat /\ MaxTime \in Nat /\ AuditTypeOK
      /\ IsFiniteSet(Recording) /\ Cardinality(Recording) \in Nat /\ Len(log) + Cardinality(Recording) <= MaxEntries
  BY AuditAssumption, FS_CardinalityType DEF PlacesInv, AuditTypeOK, Time
<1>1. CASE Tick
  <2>1. now' \in Time /\ log' = log /\ recorder' = recorder
    BY <1>0, <1>1 DEF Tick, Time
  <2>2. Recording' = Recording
    BY <2>1 DEF Recording
  <2> QED
    BY <1>0, <2>1, <2>2 DEF PlacesInv, AuditTypeOK
<1>2. ASSUME NEW r \in Recorders, ReadLatest(r) PROVE PlacesInv'
  <2> DEFINE record == [recorder[r] EXCEPT !.pc = "create", !.entry.previous = Len(log)]
  <2>1. recorder' = [recorder EXCEPT ![r] = record] /\ log' = log /\ now' = now /\ recorder[r].pc = "idle"
    BY <1>0, <1>2 DEF ReadLatest
  <2>2. Len(log) + Cardinality(Recording) < MaxEntries
    BY <1>2 DEF ReadLatest, Recording
  <2>3. record \in Recorder /\ record.pc = "create"
    <3>1. Len(log) \in 0..MaxEntries
      BY <1>0, <2>2
    <3>2. recorder[r] \in Recorder /\ recorder[r].entry \in Entry
      BY <1>0, BoundedRecorder
    <3>3. [recorder[r].entry EXCEPT !.previous = Len(log)] \in Entry
      BY <3>1, <3>2 DEF Entry
    <3> QED
      BY <3>2, <3>3 DEF Recorder
  <2> HIDE DEF record
  <2>4. recorder' \in [Recorders -> Recorder] /\ recorder'[r] = record /\ \A q \in Recorders : q # r => recorder'[q] = recorder[q]
    BY <1>0, <2>1, <2>3
  <2>5. Recording' = Recording \cup {r} /\ r \notin Recording
    BY <2>1, <2>3, <2>4 DEF Recording
  <2>6. IsFiniteSet(Recording') /\ Cardinality(Recording') = Cardinality(Recording) + 1
    BY <1>0, <2>5, FS_AddElement
  <2>7. Len(log) + Cardinality(Recording') <= MaxEntries
    BY <1>0, <2>2, <2>6
  <2> QED
    BY <1>0, <2>1, <2>4, <2>6, <2>7 DEF PlacesInv, AuditTypeOK
<1>3. ASSUME NEW r \in Recorders, CreateEntry(r) PROVE PlacesInv'
  <2> DEFINE record == [recorder[r] EXCEPT !.pc = "number", !.entry.time = now]
  <2>1. recorder' = [recorder EXCEPT ![r] = record] /\ log' = log /\ now' = now /\ recorder[r].pc # "idle"
    BY <1>0, <1>3 DEF CreateEntry
  <2>2. record \in Recorder /\ record.pc = "number"
    <3>1. recorder[r] \in Recorder /\ recorder[r].entry \in Entry
      BY <1>0, BoundedRecorder
    <3>2. [recorder[r].entry EXCEPT !.time = now] \in Entry
      BY <1>0, <3>1 DEF Entry, Time
    <3> QED
      BY <3>1, <3>2 DEF Recorder
  <2> HIDE DEF record
  <2> QED
    BY <2>1, <2>2, RecordingGoesOn
<1>4. ASSUME NEW r \in Recorders, NextNumber(r) PROVE PlacesInv'
  <2> DEFINE record == [recorder[r] EXCEPT !.pc = "insert", !.number = Len(log) + 1]
  <2>1. recorder' = [recorder EXCEPT ![r] = record] /\ log' = log /\ now' = now /\ recorder[r].pc # "idle"
    BY <1>0, <1>4 DEF NextNumber
  <2>2. Len(log) + 1 \in 1..(MaxEntries + 1)
    BY <1>0
  <2>3. record \in Recorder /\ record.pc = "insert"
    BY <1>0, <2>2, BoundedRecorder DEF Recorder
  <2> HIDE DEF record
  <2> QED
    BY <2>1, <2>3, RecordingGoesOn
<1>5. ASSUME NEW r \in Recorders, InsertEntry(r) PROVE PlacesInv'
  <2> DEFINE record == [recorder[r] EXCEPT !.pc = "idle"]
  <2>1. recorder' = [recorder EXCEPT ![r] = record] /\ now' = now /\ recorder[r].pc = "insert"
    BY <1>0, <1>5 DEF InsertEntry
  <2>2. record \in Recorder /\ record.pc = "idle"
    BY <1>0, BoundedRecorder DEF Recorder
  <2> HIDE DEF record
  <2>3. recorder' \in [Recorders -> Recorder] /\ recorder'[r] = record /\ \A q \in Recorders : q # r => recorder'[q] = recorder[q]
    BY <1>0, <2>1, <2>2
  <2>4. Recording' = Recording \ {r} /\ r \in Recording
    BY <2>1, <2>2, <2>3 DEF Recording
  <2>5. IsFiniteSet(Recording') /\ Cardinality(Recording') = Cardinality(Recording) - 1
    BY <1>0, <2>4, FS_RemoveElement
  <2>6. log' \in Seq(Entry) /\ Len(log') <= Len(log) + 1 /\ Len(log') \in Nat
    BY <1>0, <1>5, BoundedRecorder DEF InsertEntry
  <2>7. Len(log') + Cardinality(Recording') <= MaxEntries /\ Len(log') <= MaxEntries
    <3>1. Cardinality(Recording') \in Nat
      BY <2>5, FS_CardinalityType
    <3> QED
      BY <1>0, <2>5, <2>6, <3>1
  <2> QED
    BY <1>0, <2>1, <2>3, <2>5, <2>6, <2>7 DEF PlacesInv, AuditTypeOK
<1>6. CASE UNCHANGED auditVars
  <2>1. log' = log /\ recorder' = recorder /\ now' = now
    BY <1>6 DEF auditVars
  <2>2. Recording' = Recording
    BY <2>1 DEF Recording
  <2> QED
    BY <2>1, <2>2 DEF PlacesInv, AuditTypeOK
<1> QED
  BY <1>1, <1>2, <1>3, <1>4, <1>5, <1>6 DEF AuditNext

\* The log keeps its type and its bound.
LEMMA AuditTyped == AuditSpec => []AuditTypeOK
<1>1. AuditInit => PlacesInv
  <2> SUFFICES ASSUME AuditInit PROVE PlacesInv
    OBVIOUS
  <2>1. AuditTypeOK
    BY AuditAssumption DEF AuditInit, AuditTypeOK, Recorder, Entry, Time
  <2>2. Recording = {}
    BY DEF AuditInit, Recording
  <2> QED
    BY <2>1, <2>2, AuditAssumption, FS_EmptySet DEF AuditInit, PlacesInv
<1>2. PlacesInv => AuditTypeOK
  BY DEF PlacesInv
<1> QED
  BY <1>1, <1>2, PlacesKept, PTL DEF AuditSpec

-----------------------------------------------------------------------------
(* Pipeline artifacts *)

FailureRecord == [stage : Range(Stages), severity : {"critical", "error", "warning"},
                  retryable : BOOLEAN, review : BOOLEAN]

\* The upload, the failures that were recorded, and the retries that were used.
RecordedInv == upload \in Uploads /\ failures \subseteq FailureRecord /\ retryCount \in 0..MaxRetries

\* The stages that record failures are stages of the pipeline.
LEMMA StagesInRange ==
  {"document_import", "ocr", "classification", "extraction", "entity_resolution",
   "knowledge_build", "fact_acceptance", "profile_build", "output_build"} \subseteq Range(Stages)
<1>1. DOMAIN Stages = 1..9
  BY DEF Stages
<1>2. \A k \in 1..9 : Stages[k] \in Range(Stages)
  BY <1>1 DEF Range
<1>3. /\ Stages[1] = "document_import" /\ Stages[2] = "ocr" /\ Stages[3] = "classification" /\ Stages[4] = "extraction"
      /\ Stages[5] = "entity_resolution" /\ Stages[6] = "knowledge_build" /\ Stages[7] = "fact_acceptance"
      /\ Stages[8] = "profile_build" /\ Stages[9] = "output_build"
  BY DEF Stages
<1> HIDE DEF Stages
<1> QED
  BY <1>2, <1>3

\* A stage that fails records a failure, and any other leaves the failures alone.
LEMMA FailuresAreRecords ==
  ASSUME NEW name \in Range(Stages), NEW severity \in {"critical", "error", "warning"},
         NEW retryable \in BOOLEAN, NEW review \in BOOLEAN
  PROVE  Failure(name, severity, retryable, review) \in FailureRecord
  BY DEF Failure, FailureRecord

\* Every step records failures only, and retries while it may.
LEMMA RecordedKept == RecordedInv /\ [BundleNext]_bundleVars => RecordedInv'
<1> SUFFICES ASSUME RecordedInv, [BundleNext]_bundleVars PROVE RecordedInv'
  OBVIOUS
<1>1. ASSUME UNCHANGED <<upload, retryCount>>, failures' \subseteq FailureRecord PROVE RecordedInv'
  BY <1>1 DEF RecordedInv
<1>2. ASSUME UNCHANGED <<upload, retryCount, failures>> PROVE RecordedInv'
  BY <1>2 DEF RecordedInv
<1>3. ASSUME NEW name, At(name) PROVE UNCHANGED <<upload, retryCount>>
  BY <1>3 DEF At
<1>4. ASSUME NEW name \in Range(Stages), NEW severity \in {"critical", "error", "warning"},
             NEW retryable \in BOOLEAN, NEW review \in BOOLEAN,
             UNCHANGED <<upload, retryCount>>, Fails(name, severity, retryable, review)
      PROVE  RecordedInv'
  BY <1>1, <1>4, FailuresAreRecords DEF Fails, RecordedInv
<1>5. ASSUME UNCHANGED <<upload, retryCount>>, NEW artifacts, Emits(artifacts) \/ LeavesNothing PROVE RecordedInv'
  BY <1>2, <1>5 DEF Emits, LeavesNothing
<1>6. CASE Skip \/ RunAgain \/ UNCHANGED bundleVars
  BY <1>2, <1>6 DEF Skip, RunAgain, bundleVars
<1>7. CASE ImportDocument
  BY <1>3, <1>4, <1>5, <1>7, StagesInRange DEF ImportDocument
<1>8. CASE ReadText
  BY <1>3, <1>4, <1>5, <1>8, StagesInRange DEF ReadText
<1>9. CASE Classify
  BY <1>3, <1>4, <1>5, <1>9, StagesInRange DEF Classify
<1>10. CASE Extract
  <2>1. UNCHANGED <<upload, retryCount>> /\ "extraction" \in Range(Stages)
    BY <1>3, <1>10, StagesInRange DEF Extract
  <2>2. ASSUME NEW unsaved \in BOOLEAN,
               failures' = IF unsaved THEN failures \cup {Failure("extraction", "warning", FALSE, FALSE)} ELSE failures
        PROVE  RecordedInv'
    BY <1>1, <2>1, <2>2, FailuresAreRecords DEF RecordedInv
  <2> QED
    BY <1>4, <1>10, <2>1, <2>2 DEF Extract
<1>11. CASE ResolveEntity
  BY <1>3, <1>4, <1>5, <1>11, StagesInRange DEF ResolveEntity
<1>12. CASE BuildFacts
  BY <1>3, <1>4, <1>5, <1>12, StagesInRange DEF BuildFacts
<1>13. CASE AcceptFacts
  BY <1>3, <1>4, <1>5, <1>13, StagesInRange DEF AcceptFacts
<1>14. CASE ProfileBuild
  BY <1>3, <1>4, <1>5, <1>14, StagesInRange DEF ProfileBuild
<1>15. CASE OutputBuild
  <2>1. UNCHANGED <<upload, retryCount>> /\ "output_build" \in Range(Stages)
    BY <1>3, <1>15, StagesInRange DEF OutputBuild
  <2> QED
    BY <1>4, <1>5, <1>15, <2>1 DEF OutputBuild
<1>16. CASE Route
  <2>1. UNCHANGED <<upload, failures>> /\ (verdict' = "retrying" => CanRetry)
        /\ retryCount' = IF verdict' = "retrying" THEN retryCount + 1 ELSE retryCount
    BY <1>16 DEF Route
  <2>2. retryCount' \in 0..MaxRetries
    BY <2>1, BundleAssumption DEF CanRetry, RecordedInv
  <2> QED
    BY <2>1, <2>2 DEF RecordedInv
<1> QED
  BY <1>6, <1>7, <1>8, <1>9, <1>10, <1>11, <1>12, <1>13, <1>14, <1>15, <1>16 DEF BundleNext

\* The bundle and the failures of a job keep their type.
LEMMA BundleTyped == BundleSpec => []BundleTypeOK
<1>1. BundleInit => RecordedInv
  BY BundleAssumption DEF BundleInit, RecordedInv
<1>2. BundleInv /\ RecordedInv => BundleTypeOK
  <2> SUFFICES ASSUME BundleInv, RecordedInv PROVE BundleTypeOK
    OBVIOUS
  <2>1. \A i \in DOMAIN bundle : bundle[i].kind \in Kinds /\ bundle[i].from \subseteq 1..(i - 1)
    BY DEF BundleInv, BundleTypes, WellMade, Artifacts, Kinds
  <2>2. stage \in 1..(Len(Stages) + 1) /\ verdict \in {"running", "retrying", "completed", "failed"}
    BY DEF BundleInv, BundleTypes, Stages
  <2> QED
    BY <2>1, <2>2 DEF RecordedInv, FailureRecord, BundleTypeOK
<1> QED
  BY <1>1, <1>2, BundleBegins, BundlePreserved, RecordedKept, PTL DEF BundleSpec
=============================================================================
