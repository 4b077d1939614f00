--------------------------- MODULE FileTransaction ---------------------------
(***************************************************************************)
(* Transactions on files (core/transactions.py over core/filesystem.py):   *)
(* every operation first copies the file it is about to replace into the   *)
(* backup directory, then changes it, then records how to undo the change; *)
(* rollback undoes the records in reverse order.  A backup lives under the *)
(* path of its file, so a second backup of the same file replaces the      *)
(* first.  Files and backups are their contents.                           *)
(***************************************************************************)
EXTENDS Naturals, Sequences

CONSTANTS
    Paths,          \* the files a transaction may touch
    Contents,       \* what a write may put into a file
    MaxOperations   \* bound: how many operations one transaction records

VARIABLES
    files,      \* path -> content, or Missing
    backup,     \* the backup directory: path -> content, or Missing
    undo,       \* Transaction._ops
    state,      \* Transaction._state; "undoing" inside rollback
    before,     \* history: the files when the transaction began
    overwritten, \* history: paths whose backup replaced an earlier one
    torn        \* history: destinations of copies that failed half-way

fileVars == <<files, backup, undo, state, before, overwritten, torn>>

Missing == "missing"
Garbage == "garbage"
\* what a file holds before the transaction is named after the file itself
Content == Contents \cup Paths \cup {Missing, Garbage}
Exists(p) == files[p] # Missing
Saved(p) == backup[p] # Missing

\* source is the path itself except for a move
UndoRecord == [kind : {"restore", "delete", "move"}, path : Paths, source : Paths, existed : BOOLEAN]

FileTypeOK ==
    /\ files \in [Paths -> Content]
    /\ backup \in [Paths -> Content]
    /\ undo \in Seq(UndoRecord)
    /\ state \in {"open", "committed", "undoing", "rolled_back"}
    /\ before \in [Paths -> Content]
    /\ overwritten \subseteq Paths
    /\ torn \subseteq Paths

FileInit ==
    /\ files \in { f \in [Paths -> Paths \cup {Missing}] : \A p \in Paths : f[p] \in {p, Missing} }
    /\ backup = [p \in Paths |-> Missing]
    /\ undo = <<>>
    /\ state = "open"
    /\ before = files
    /\ overwritten = {}
    /\ torn = {}

-----------------------------------------------------------------------------
(* Operations *)

Open == state = "open" /\ Len(undo) < MaxOperations

\* copy_file(path, self._backup_path(path)) when the path exists
BackUp(p) ==
    /\ backup' = IF Exists(p) THEN [backup EXCEPT ![p] = files[p]] ELSE backup
    /\ overwritten' = IF Exists(p) /\ Saved(p) THEN overwritten \cup {p} ELSE overwritten

Undoing(p) == [kind |-> IF Exists(p) THEN "restore" ELSE "delete", path |-> p,
               source |-> p, existed |-> Exists(p)]
MovingBack(p, source) == [kind |-> "move", path |-> p, source |-> source, existed |-> Exists(p)]
Record(entry) == undo' = Append(undo, entry)

Write(p, content) ==
    /\ Open
    /\ BackUp(p)
    /\ files' = [files EXCEPT ![p] = content]
    /\ Record(Undoing(p))
    /\ UNCHANGED <<state, before, torn>>

\* copying a file onto itself raises after the backup: see Raises
Copy(source, p) ==
    /\ Open
    /\ source # p /\ Exists(source)
    /\ BackUp(p)
    /\ files' = [files EXCEPT ![p] = files[source]]
    /\ Record(Undoing(p))
    /\ UNCHANGED <<state, before, torn>>

\* Bug variant: the backup of a destination that existed is forgotten.
MoveUnsaved(source, p) ==
    /\ Open
    /\ Exists(source)
    /\ files' = IF source = p THEN files ELSE [files EXCEPT ![p] = files[source], ![source] = Missing]
    /\ Record(MovingBack(p, source))
    /\ UNCHANGED <<state, before, torn, backup, overwritten>>

Move(source, p) ==
    /\ Open
    /\ Exists(source)
    /\ BackUp(p)
    /\ files' = IF source = p THEN files ELSE [files EXCEPT ![p] = files[source], ![source] = Missing]
    /\ Record(MovingBack(p, source))
    /\ UNCHANGED <<state, before, torn>>

\* deleting a file that does not exist does nothing and records nothing
Delete(p) ==
    /\ Open
    /\ Exists(p)
    /\ BackUp(p)
    /\ files' = [files EXCEPT ![p] = Missing]
    /\ Record(Undoing(p))
    /\ UNCHANGED <<state, before, torn>>

\* an operation raises after the backup and before the file changed: nothing is recorded
Raises(p) ==
    /\ Open
    /\ Exists(p)
    /\ BackUp(p)
    /\ UNCHANGED <<files, undo, state, before, torn>>

\* copy_file fails half-way into the destination (shutil.copy2 is not atomic)
CopyTears(source, p) ==
    /\ Open
    /\ source # p /\ Exists(source)
    /\ BackUp(p)
    /\ files' = [files EXCEPT ![p] = Garbage]
    /\ torn' = torn \cup {p}
    /\ UNCHANGED <<undo, state, before>>

Commit ==
    /\ state = "open"
    /\ state' = "committed"
    /\ backup' = [p \in Paths |-> Missing]
    /\ UNCHANGED <<files, undo, before, overwritten, torn>>

-----------------------------------------------------------------------------
(* Rollback *)

\* rollback of an open transaction, or a rollback that is on its way
Undoes == state \in {"open", "undoing"}

\* what one record puts back
Undone(entry) ==
    CASE entry.kind = "restore" ->
            IF Saved(entry.path) THEN [files EXCEPT ![entry.path] = backup[entry.path]] ELSE files
      [] entry.kind = "delete" ->
            [files EXCEPT ![entry.path] = Missing]
      [] entry.kind = "move" ->
            LET returned == IF Exists(entry.path) /\ entry.path # entry.source
                            THEN [files EXCEPT ![entry.source] = files[entry.path], ![entry.path] = Missing]
                            ELSE files
            IN IF entry.existed /\ Saved(entry.path)
               THEN [returned EXCEPT ![entry.path] = backup[entry.path]] ELSE returned

\* Bug variant: rollback undoes in the order of the operations.
UndoFirst ==
    /\ Undoes /\ undo # <<>>
    /\ files' = Undone(Head(undo))
    /\ undo' = Tail(undo)
    /\ state' = "undoing"
    /\ UNCHANGED <<backup, before, overwritten, torn>>

UndoLast ==
    /\ Undoes /\ undo # <<>>
    /\ files' = Undone(undo[Len(undo)])
    /\ undo' = SubSeq(undo, 1, Len(undo) - 1)
    /\ state' = "undoing"
    /\ UNCHANGED <<backup, before, overwritten, torn>>

\* the backup directory is removed with the last record
RolledBack ==
    /\ Undoes /\ undo = <<>>
    /\ state' = "rolled_back"
    /\ backup' = [p \in Paths |-> Missing]
    /\ UNCHANGED <<files, undo, before, overwritten, torn>>

FileNext ==
    \/ \E p \in Paths :
          \/ \E content \in Contents : Write(p, content)
          \/ \E source \in Paths : Copy(source, p) \/ Move(source, p) \/ CopyTears(source, p)
          \/ Delete(p)
          \/ Raises(p)
    \/ Commit
    \/ UndoLast
    \/ RolledBack

FileSpec == FileInit /\ [][FileNext]_fileVars

-----------------------------------------------------------------------------
(* Property *)

\* Rollback undoes any mix of writes, copies, moves and deletes, raised
\* operations included: when no backup replaced an earlier one and no copy was
\* torn, every file is as it was when the transaction began.
RollbackRestores ==
    state = "rolled_back" /\ overwritten = {} /\ torn = {} => files = before
=============================================================================
