--------------------------- MODULE DocumentArchive ---------------------------
(***************************************************************************)
(* What the archive promises of its documents, with no word about uploads, *)
(* stages and threads: the life cycle of archive/document.py, one row per  *)
(* file, and the foreign keys of schema.sql.  A document comes in for a    *)
(* file, alone or in the place of one nothing was kept of; it is processed *)
(* and settled once; what it leaves behind is kept.  DocumentFlow          *)
(* implements it.                                                          *)
(***************************************************************************)
CONSTANTS Documents, Files, Entities, None

VARIABLES
    row,        \* Document as it is saved, by file
    kept,       \* the documents a source was kept of
    known,      \* the entities there is knowledge of
    queued      \* the documents the LLM will read

archiveVars == <<row, kept, known, queued>>

Absent == [doc |-> None, entity |-> None, status |-> "absent"]

Init ==
    /\ row = [h \in Files |-> Absent]
    /\ kept = {} /\ known = {} /\ queued = {}

\* _ALLOWED_TRANSITIONS
Successors(status) ==
    CASE status = "pending" -> {"processing", "failed"}
      [] status = "processing" -> {"processed", "failed"}
      [] OTHER -> {}

\* A document comes in, new or with what became of it while another one had its row. Nothing was
\* kept of either, so it counts as processed only for what is known of the entity already.
Enter(h, d, e, status) ==
    /\ row[h].doc \notin kept /\ d \notin kept
    /\ \A g \in Files : row[g].doc # d
    /\ row[h] = Absent => status \in {"pending", "failed"}
    /\ status = "processed" => e \in known
    /\ row' = [row EXCEPT ![h] = [doc |-> d, entity |-> e, status |-> status]]
    /\ UNCHANGED <<kept, known, queued>>

\* A document that is processed shows for it; one the LLM will read does not fail.
Advance(h, status) ==
    /\ status \in Successors(row[h].status)
    /\ status = "processed" => row[h].doc \in kept \/ row[h].entity \in known
    /\ status = "failed" => row[h].doc \notin queued
    /\ row' = [row EXCEPT ![h].status = status]
    /\ UNCHANGED <<kept, known, queued>>

Keep(h) ==
    /\ row[h].status = "processing" /\ row[h].doc \notin kept
    /\ kept' = kept \cup {row[h].doc}
    /\ UNCHANGED <<row, known, queued>>

\* knowledge comes from documents that are kept and being processed
Learn(h) ==
    /\ row[h].status = "processing" /\ row[h].doc \in kept
    /\ known' = known \cup {row[h].entity}
    /\ UNCHANGED <<row, kept, queued>>

Queue(h) ==
    /\ row[h].status = "processing" /\ row[h].doc \in kept
    /\ queued' = queued \cup {row[h].doc}
    /\ UNCHANGED <<row, kept, known>>

Next == \E h \in Files :
    \/ \E d \in Documents, e \in Entities, status \in {"pending", "processing", "processed", "failed"} :
          Enter(h, d, e, status)
    \/ \E status \in {"processing", "processed", "failed"} : Advance(h, status)
    \/ Keep(h) \/ Learn(h) \/ Queue(h)

Spec == Init /\ [][Next]_archiveVars
=============================================================================
