---------------------------- MODULE BackupCatalog ----------------------------
(***************************************************************************)
(* BackupService (src/app/services/backup_service.py): one backup          *)
(* directory, shared by processes that each keep a history of their own    *)
(* (the workers, and scripts/disaster_recovery.py, which is started for    *)
(* one command and ends, as any process here may).                         *)
(*                                                                         *)
(* A backup has a working directory while it is made, then an archive      *)
(* <id>.tar.gz, then <id>_metadata.json.  A file that is being written is  *)
(* "partial".  create_backup gives up the event loop only while it looks   *)
(* for the datasets ("list"); from there to its end the process does       *)
(* nothing else, but other processes go on, and this one may die.          *)
(*                                                                         *)
(* Storage is local: nothing gives BackupConfig another backend.  What an  *)
(* archive holds is left out, since no dataset gets into one: a listed     *)
(* dataset is a DatasetResponse, and dataset_info["id"] of it raises.      *)
(***************************************************************************)
EXTENDS FiniteSets

CONSTANTS
    Procs,      \* processes that use the backup directory
    Backups     \* backup ids; each is given to one create_backup

VARIABLES
    \* the backup directory
    temp,       \* <id>/, the working directories
    archive,    \* <id>.tar.gz
    meta,       \* <id>_metadata.json
    old,        \* backups whose timestamp is before the cutoff of the retention
    \* each process
    history,    \* backup_history
    unread,     \* metadata files that _load_backup_history has still to read
    \* each create_backup, in active_backups while it runs
    proc, phase, status,
    \* history of the system, no counterpart in the code
    cancelled,  \* a caller was told that the backup is cancelled
    asked,      \* a caller asked for the backup to be deleted
    removed     \* a process deleted it, asked to or not

directory == <<temp, archive, meta, old>>
process == <<history, unread>>
call == <<proc, phase, status>>
log == <<cancelled, asked, removed>>
vars == <<directory, process, call, log>>

File == {"none", "partial", "whole"}
Working == {"archive", "sized", "clear", "store", "record"}
Phases == {"new", "list", "done", "failed", "dead"} \cup Working
BackupStatus == {"pending", "running", "completed", "failed", "cancelled"}

\* The process has started, and no create_backup holds its event loop.
Free(p) ==
    /\ unread[p] = {}
    /\ \A b \in Backups : proc[b] = p => phase[b] \notin Working

Init ==
    /\ temp = {} /\ old = {}
    /\ archive = [b \in Backups |-> "none"]
    /\ meta = [b \in Backups |-> "none"]
    /\ history = [p \in Procs |-> {}]
    /\ unread = [p \in Procs |-> {}]
    /\ proc \in [Backups -> Procs]
    /\ phase = [b \in Backups |-> "new"]
    /\ status = [b \in Backups |-> "pending"]
    /\ cancelled = {} /\ asked = {} /\ removed = {}

-----------------------------------------------------------------------------
(* create_backup                                                            *)

To(b, next) == phase' = [phase EXCEPT ![b] = next]
SetStatus(b, s) == status' = [status EXCEPT ![b] = s]
Fail(b) == To(b, "failed") /\ SetStatus(b, "failed")

Create(b) ==
    /\ phase[b] = "new" /\ Free(proc[b])
    /\ To(b, "list") /\ SetStatus(b, "running")
    /\ temp' = temp \cup {b}
    /\ UNCHANGED <<archive, meta, old, process, proc, log>>

\* A type of backup that is not supported, or no directory can be made.
CreateRefused(b) ==
    /\ phase[b] = "new" /\ Free(proc[b])
    /\ Fail(b)
    /\ UNCHANGED <<directory, process, proc, log>>

\* There was nothing to back up, or all that was asked for was skipped.
OpenArchive(b) ==
    /\ phase[b] = "list" /\ Free(proc[b])
    /\ To(b, "archive")
    /\ archive' = [archive EXCEPT ![b] = "partial"]
    /\ UNCHANGED <<temp, meta, old, process, proc, status, log>>

\* Mutant of CloseArchive: an error while the archive is written is swallowed.
CloseArchiveQuietly(b) ==
    /\ phase[b] = "archive"
    /\ To(b, "sized")
    /\ archive' \in {archive, [archive EXCEPT ![b] = "whole"]}
    /\ UNCHANGED <<temp, meta, old, process, proc, status, log>>

CloseArchive(b) ==
    /\ phase[b] = "archive"
    /\ To(b, "sized")
    /\ archive' = [archive EXCEPT ![b] = "whole"]
    /\ UNCHANGED <<temp, meta, old, process, proc, status, log>>

\* Size and checksum.
Measure(b) ==
    /\ phase[b] = "sized"
    /\ To(b, "clear")
    /\ UNCHANGED <<directory, process, proc, status, log>>

\* The working directory goes, the status is COMPLETED, and the metadata file
\* is opened for writing.
ClearTemp(b) ==
    /\ phase[b] = "clear"
    /\ temp' = temp \ {b}
    /\ To(b, "store") /\ SetStatus(b, "completed")
    /\ meta' = [meta EXCEPT ![b] = "partial"]
    /\ UNCHANGED <<archive, old, process, proc, log>>

StoreMetadata(b) ==
    /\ phase[b] = "store"
    /\ meta' = [meta EXCEPT ![b] = "whole"]
    /\ To(b, "record")
    /\ UNCHANGED <<temp, archive, old, process, proc, status, log>>

\* Mutant of Record: something still fails after the metadata is stored.
RecordOrFail(b) ==
    /\ phase[b] = "record"
    /\ \/ /\ history' = [history EXCEPT ![proc[b]] = @ \cup {b}]
          /\ To(b, "done")
          /\ UNCHANGED status
       \/ Fail(b) /\ UNCHANGED history
    /\ UNCHANGED <<directory, unread, proc, log>>

Record(b) ==
    /\ phase[b] = "record"
    /\ history' = [history EXCEPT ![proc[b]] = @ \cup {b}]
    /\ To(b, "done")
    /\ UNCHANGED <<directory, unread, proc, status, log>>

\* A dataset is there, whose record raises, or the list itself raises, or any
\* step up to the removal of the working directory.  The handler removes the
\* directory, unless that raises too.  An archive stays as it is.
BuildFails(b) ==
    /\ phase[b] \in {"list", "archive", "sized", "clear"}
    /\ phase[b] = "list" => Free(proc[b])
    /\ Fail(b)
    /\ temp' \in {temp, temp \ {b}}
    /\ UNCHANGED <<archive, meta, old, process, proc, log>>

\* Mutant of StoreFails: the metadata is taken for stored.
StoreFailsQuietly(b) ==
    /\ phase[b] = "store"
    /\ history' = [history EXCEPT ![proc[b]] = @ \cup {b}]
    /\ To(b, "done")
    /\ UNCHANGED <<directory, unread, proc, status, log>>

\* The metadata cannot be written; nothing of the backup is removed.
StoreFails(b) ==
    /\ phase[b] = "store"
    /\ Fail(b)
    /\ UNCHANGED <<directory, process, proc, log>>

\* cancel_backup sets the status of a running backup and answers that it is
\* cancelled; create_backup does not look at the status.
Cancel(b) ==
    /\ phase[b] = "list" /\ Free(proc[b])
    /\ SetStatus(b, "cancelled")
    /\ cancelled' = cancelled \cup {b}
    /\ UNCHANGED <<directory, process, proc, phase, asked, removed>>

-----------------------------------------------------------------------------
(* delete_backup, cleanup_old_backups                                       *)

\* The archive goes if it is there, and the entry of this process with it.
Drop(p, gone) ==
    /\ archive' = [b \in Backups |-> IF b \in gone THEN "none" ELSE archive[b]]
    /\ history' = [history EXCEPT ![p] = @ \ gone]
    /\ removed' = removed \cup gone
    /\ UNCHANGED <<temp, meta, old, unread, call, cancelled>>

DeleteBackup(p, b) ==
    /\ Free(p) /\ b \in history[p]
    /\ Drop(p, {b})
    /\ asked' = asked \cup {b}

\* A delete that raises is skipped.
CleanupOldBackups(p) ==
    /\ Free(p)
    /\ \E gone \in SUBSET (history[p] \cap old) : gone # {} /\ Drop(p, gone)
    /\ UNCHANGED asked

\* Time passes: the backup is now older than retention_days.
Age(b) ==
    /\ phase[b] # "new" /\ b \notin old
    /\ old' = old \cup {b}
    /\ UNCHANGED <<temp, archive, meta, process, call, log>>

-----------------------------------------------------------------------------
(* Processes                                                                *)

\* A process ends at any point, and one in its place starts and looks for
\* metadata files.
Restart(p) ==
    /\ history' = [history EXCEPT ![p] = {}]
    /\ unread' = [unread EXCEPT ![p] = {b \in Backups : meta[b] # "none"}]
    /\ phase' = [b \in Backups |->
                    IF proc[b] = p /\ phase[b] \in Working \cup {"list"}
                    THEN "dead" ELSE phase[b]]
    /\ UNCHANGED <<directory, proc, status, log>>

\* Mutant of LoadEntry: the file is read once more.
LoadEntryAgain(p, b) ==
    /\ b \in unread[p]
    /\ history' = [history EXCEPT ![p] = @ \cup {c \in {b} : meta[c] = "whole"}]
    /\ UNCHANGED <<directory, unread, call, log>>

\* One metadata file of _load_backup_history; one that does not parse is
\* skipped.
LoadEntry(p, b) ==
    /\ b \in unread[p]
    /\ history' = [history EXCEPT ![p] = @ \cup {c \in {b} : meta[c] = "whole"}]
    /\ unread' = [unread EXCEPT ![p] = @ \ {b}]
    /\ UNCHANGED <<directory, call, log>>

-----------------------------------------------------------------------------
Make(b) ==
    \/ Create(b) \/ CreateRefused(b)
    \/ OpenArchive(b) \/ CloseArchive(b) \/ Measure(b) \/ ClearTemp(b)
    \/ StoreMetadata(b) \/ Record(b)
    \/ BuildFails(b) \/ StoreFails(b)
    \/ Cancel(b)

Next ==
    \/ \E b \in Backups : Make(b) \/ Age(b)
    \/ \E p \in Procs : \/ CleanupOldBackups(p) \/ Restart(p)
                        \/ \E b \in Backups : DeleteBackup(p, b) \/ LoadEntry(p, b)

Spec == Init /\ [][Next]_vars

-----------------------------------------------------------------------------
(* Properties                                                               *)

\* Every variable has its type, and no metadata file is read twice, so that a
\* history, which is a list in the code, may be a set here.
TypeOK ==
    /\ temp \subseteq Backups /\ old \subseteq Backups
    /\ archive \in [Backups -> File] /\ meta \in [Backups -> File]
    /\ history \in [Procs -> SUBSET Backups]
    /\ unread \in [Procs -> SUBSET Backups]
    /\ proc \in [Backups -> Procs]
    /\ phase \in [Backups -> Phases]
    /\ status \in [Backups -> BackupStatus]
    /\ cancelled \subseteq Backups
    /\ asked \subseteq removed /\ removed \subseteq Backups
    /\ \A p \in Procs : history[p] \cap unread[p] = {}

\* What any process lists can be restored: the archive is there, in full,
\* whichever process made it and whatever died on the way, unless some process
\* has deleted the backup.
ListedIsRestorable ==
    \A p \in Procs : \A b \in history[p] \ removed : archive[b] = "whole"

\* A backup whose caller was told that it failed is listed by no process, then
\* or after any restart: nothing fails after its metadata is complete.
FailedIsNotListed ==
    \A b \in Backups : phase[b] = "failed" =>
        /\ meta[b] # "whole"
        /\ \A p \in Procs : b \notin history[p]

\* A backup whose caller was told that it is complete is kept, across restarts,
\* until someone asks for its deletion or its retention ends: both files are
\* there, and the process that made it lists it again when it has started.
CompletedIsKept ==
    \A b \in Backups : (phase[b] = "done" /\ b \notin asked \cup old) =>
        /\ archive[b] = "whole" /\ meta[b] = "whole"
        /\ b \in history[proc[b]] \cup unread[proc[b]]

(* Properties the code does not have                                        *)

\* Docstring of delete_backup, "Delete a backup": what was deleted is not
\* listed, now or after a restart.
DeletedStaysDeleted == \A p \in Procs : history[p] \cap asked = {}

\* "Backup cancelled successfully": what was cancelled does not complete.
CancelledIsNotCompleted == \A b \in cancelled : status[b] # "completed"
=============================================================================
