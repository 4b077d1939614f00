----------------------------- MODULE NoiseQueue -----------------------------
(***************************************************************************)
(* The noise queue: OCR text set aside for a later pass of the language    *)
(* model (noise_items), the "Noise Processing" tab that shows the items    *)
(* (ui/components/review/noise_processing_panel.py) and the operations     *)
(* behind its buttons (ui/viewmodels/noise_vm.py).  A page renders an item *)
(* with the status it loaded, and the buttons it offers depend on that     *)
(* status; every UPDATE commits by itself.  Texts and metadata are left    *)
(* out, and with them the Save button, which touches nothing else.         *)
(***************************************************************************)
CONSTANTS
    Items,      \* noise ids, each created once
    Pages,      \* browser sessions on the Noise Processing tab
    Values      \* the (fact type, value) pairs a model may read out of a text

VARIABLES
    noise,      \* item -> status in noise_items
    openCases,  \* the values an open review case already holds
    page        \* what every session shows or is doing

noiseVars == <<noise, openCases, page>>

NoiseStatus == {"open", "processing", "reviewed", "ignored", "promoted", "failed"}
InTable(i) == noise[i] \in NoiseStatus

PagePc == {"idle", "shown", "guard", "mark", "ask", "insert", "promote", "fail"}

\* found: the values of the model's answer that no open case held
PageRecord == [pc : PagePc, item : Items, seen : NoiseStatus, found : SUBSET Values]

NoiseTypeOK ==
    /\ noise \in [Items -> NoiseStatus \cup {"unborn", "deleted"}]
    /\ openCases \subseteq Values
    /\ page \in [Pages -> PageRecord]

NoiseInit ==
    /\ noise = [i \in Items |-> "unborn"]
    /\ openCases = {}
    /\ page \in [Pages -> {[pc |-> "idle", item |-> i, seen |-> "open", found |-> {}] : i \in Items}]

\* UPDATE ... WHERE noise_id = ?: no effect on a row that is gone
UpdateStatus(i, status) == noise' = IF InTable(i) THEN [noise EXCEPT ![i] = status] ELSE noise

Turn(p, pc) == page' = [page EXCEPT ![p].pc = pc, ![p].found = {}]

-----------------------------------------------------------------------------
(* Extraction and the review page, seen from here *)

\* ExtractionHandler._persist_deferred_llm_noise, one item per run
CreateNoise(i) ==
    /\ noise[i] = "unborn"
    /\ noise' = [noise EXCEPT ![i] = "open"]
    /\ UNCHANGED <<openCases, page>>

\* other producers open a case for a value, or a person closes it
CasesChange(v) ==
    /\ openCases' = IF v \in openCases THEN openCases \ {v} ELSE openCases \cup {v}
    /\ UNCHANGED <<noise, page>>

-----------------------------------------------------------------------------
(* The tab *)

\* the rerun of the script behind a click loads the items again
Show(p, i) ==
    /\ page[p].pc = "idle"
    /\ InTable(i)
    /\ page' = [page EXCEPT ![p] = [pc |-> "shown", item |-> i, seen |-> noise[i], found |-> {}]]
    /\ UNCHANGED <<noise, openCases>>

LookAway(p) ==
    /\ page[p].pc = "shown"
    /\ Turn(p, "idle")
    /\ UNCHANGED <<noise, openCases>>

\* "Reviewed", "Reopen" and "Ignore"; an item shown as processing has no buttons
Mark(p, status) ==
    /\ page[p].pc = "shown"
    /\ page[p].seen # "processing"
    /\ UpdateStatus(page[p].item, status)
    /\ Turn(p, "idle")
    /\ UNCHANGED openCases

DeleteNoise(p) ==
    /\ page[p].pc = "shown"
    /\ page[p].seen # "processing"
    /\ UpdateStatus(page[p].item, "deleted")
    /\ Turn(p, "idle")
    /\ UNCHANGED openCases

\* "Process with LLM", offered for open and failed items only
Process(p) ==
    /\ page[p].pc = "shown"
    /\ page[p].seen \in {"open", "failed"}
    /\ Turn(p, "guard")
    /\ UNCHANGED <<noise, openCases>>

-----------------------------------------------------------------------------
(* NoiseVM.process_with_llm, statement by statement *)

\* the item is loaded once more; gone, already processing, or without an
\* entity or a text it is refused
Guard(p) ==
    /\ page[p].pc = "guard"
    /\ \E usable \in BOOLEAN :
          LET accepted == usable /\ InTable(page[p].item) /\ noise[page[p].item] # "processing"
          IN Turn(p, IF accepted THEN "mark" ELSE "idle")
    /\ UNCHANGED <<noise, openCases>>

MarkProcessing(p) ==
    /\ page[p].pc = "mark"
    /\ UpdateStatus(page[p].item, "processing")
    /\ Turn(p, "ask")
    /\ UNCHANGED openCases

\* the model and its fallback find usable values, or nothing, or raise
Ask(p) ==
    /\ page[p].pc = "ask"
    /\ \E found \in SUBSET Values :
          page' = [page EXCEPT ![p].pc = IF found = {} THEN "fail" ELSE "insert",
                               ![p].found = found]
    /\ UNCHANGED <<noise, openCases>>

\* the CHECK of review_cases and the priority _insert_review_cases writes
AllowedPriorities == {"LOW", "NORMAL", "HIGH", "CRITICAL"}
NoiseCasePriority == "MEDIUM"

\* Bug variant: an exception of the insert escapes without the item being settled.
InsertCasesEscaping(p) ==
    /\ page[p].pc = "insert"
    /\ Turn(p, "idle")
    /\ UNCHANGED <<noise, openCases>>

\* one case for every value that has no open case; none at all, or one that is refused, fails the item
InsertCases(p) ==
    /\ page[p].pc = "insert"
    /\ LET new == page[p].found \ openCases
           accepted == NoiseCasePriority \in AllowedPriorities
       IN /\ openCases' = IF accepted THEN openCases \cup new ELSE openCases
          /\ page' = [page EXCEPT ![p].pc = IF accepted /\ new # {} THEN "promote" ELSE "fail",
                                  ![p].found = new]
    /\ UNCHANGED noise

\* the last write of a run: promoted after cases were inserted, failed otherwise
Settle(p) ==
    /\ page[p].pc \in {"promote", "fail"}
    /\ UpdateStatus(page[p].item, IF page[p].pc = "promote" THEN "promoted" ELSE "failed")
    /\ Turn(p, "idle")
    /\ UNCHANGED openCases

-----------------------------------------------------------------------------
NoiseNext ==
    \/ \E i \in Items : CreateNoise(i)
    \/ \E v \in Values : CasesChange(v)
    \/ \E p \in Pages :
          \/ \E i \in Items : Show(p, i)
          \/ \E status \in {"reviewed", "open", "ignored"} : Mark(p, status)
          \/ LookAway(p)
          \/ DeleteNoise(p)
          \/ Process(p)
          \/ Guard(p)
          \/ MarkProcessing(p)
          \/ Ask(p)
          \/ InsertCases(p)
          \/ Settle(p)

NoiseSpec == NoiseInit /\ [][NoiseNext]_noiseVars

-----------------------------------------------------------------------------
(* Properties *)

AtWork(p, i) == page[p].item = i /\ page[p].pc \in {"ask", "insert", "promote", "fail"}

\* Without a crash, an item shown as "LLM processing" has a session that works
\* on it and will settle it, whatever other sessions press in the meantime:
\* the panel offers no button to free such an item.
ProcessingIsAttended ==
    \A i \in Items : noise[i] = "processing" => \E p \in Pages : AtWork(p, i)

\* The panel's promise ("move useful results into the Review Queue"): no run
\* that found a value without an open case ends by marking its item failed.
UsefulResultsReachReview ==
    \A p \in Pages : page[p].pc = "fail" => page[p].found = {}
=============================================================================
