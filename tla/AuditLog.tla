------------------------------ MODULE AuditLog ------------------------------
(***************************************************************************)
(* The audit log: recorders that append entries to the audit_entries table *)
(* (infrastructure/db/repositories/sqlite_audit_recorder.py), each entry   *)
(* naming the hash of the entry before it (audit/audit_entry.py).  A       *)
(* recorder looks up the last hash, draws the time, looks up the next      *)
(* number and inserts: four steps, no transaction, one UNIQUE constraint.  *)
(* The hash of an entry is the entry's own number here: numbers are unique *)
(* and entries never change.                                               *)
(***************************************************************************)
EXTENDS Naturals, Sequences, FiniteSets

CONSTANTS
    Recorders,      \* threads that record
    MaxEntries,     \* bound on the length of the log
    MaxTime         \* bound on the clock

ASSUME AuditAssumption == MaxEntries \in Nat /\ MaxTime \in Nat

VARIABLES
    log,        \* audit_entries by sequence_number
    recorder,   \* what every recorder has read and built so far
    now         \* the clock, which does not run backwards

auditVars == <<log, recorder, now>>

Time == 0..MaxTime
\* previous is 0 for an entry without previous_hash
Entry == [previous : 0..MaxEntries, time : Time]
Recorder == [pc : {"idle", "create", "number", "insert"}, entry : Entry, number : 1..(MaxEntries + 1)]

AuditTypeOK ==
    /\ log \in Seq(Entry) /\ Len(log) <= MaxEntries
    /\ recorder \in [Recorders -> Recorder]
    /\ now \in Time

AuditInit ==
    /\ log = <<>>
    /\ recorder = [r \in Recorders |->
          [pc |-> "idle", entry |-> [previous |-> 0, time |-> 0], number |-> 1]]
    /\ now = 0

Tick ==
    /\ now < MaxTime
    /\ now' = now + 1
    /\ UNCHANGED <<log, recorder>>

-----------------------------------------------------------------------------
(* SqliteAuditRecorder.record *)

\* _latest_entry_hash
ReadLatest(r) ==
    /\ recorder[r].pc = "idle"
    /\ Len(log) + Cardinality({q \in Recorders : recorder[q].pc # "idle"}) < MaxEntries
    /\ recorder' = [recorder EXCEPT ![r].pc = "create", ![r].entry.previous = Len(log)]
    /\ UNCHANGED <<log, now>>

\* Bug variant: the time was drawn before the last hash was read.
CreateWithOldTime(r) ==
    /\ recorder[r].pc = "create"
    /\ \E t \in 0..now : recorder' = [recorder EXCEPT ![r].pc = "number", ![r].entry.time = t]
    /\ UNCHANGED <<log, now>>

\* AuditEntry.create
CreateEntry(r) ==
    /\ recorder[r].pc = "create"
    /\ recorder' = [recorder EXCEPT ![r].pc = "number", ![r].entry.time = now]
    /\ UNCHANGED <<log, now>>

\* _next_sequence_number
NextNumber(r) ==
    /\ recorder[r].pc = "number"
    /\ recorder' = [recorder EXCEPT ![r].pc = "insert", ![r].number = Len(log) + 1]
    /\ UNCHANGED <<log, now>>

\* the INSERT, or IntegrityError when another recorder took the number
InsertEntry(r) ==
    /\ recorder[r].pc = "insert"
    /\ log' = IF recorder[r].number = Len(log) + 1 THEN Append(log, recorder[r].entry) ELSE log
    /\ recorder' = [recorder EXCEPT ![r].pc = "idle"]
    /\ UNCHANGED now

AuditNext ==
    \/ Tick
    \/ \E r \in Recorders :
          \/ ReadLatest(r)
          \/ CreateEntry(r)
          \/ NextNumber(r)
          \/ InsertEntry(r)

AuditSpec == AuditInit /\ [][AuditNext]_auditVars

-----------------------------------------------------------------------------
(* Properties *)

\* Every link leads to an entry with a smaller number that is not younger,
\* although numbers and times of the log as a whole may disagree: following the
\* links from any entry is a chain that AuditChain accepts.
LinksLeadBack ==
    \A i \in DOMAIN log :
        /\ log[i].previous < i
        /\ log[i].previous # 0 => log[log[i].previous].time <= log[i].time
=============================================================================
