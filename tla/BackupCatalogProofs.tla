------------------------- MODULE BackupCatalogProofs -------------------------
(***************************************************************************)
(* TypeOK and the three invariants of BackupCatalog, for any number of     *)
(* processes and backups.  The strengthening says how far the two files of *)
(* a backup are in each phase (Files), and that whatever a process lists   *)
(* or a caller asked to delete had its metadata in full (Listed).          *)
(***************************************************************************)
EXTENDS BackupCatalog, TLAPS

\* The archive is written before the metadata, and in full before the
\* metadata is opened.
Files ==
    \A b \in Backups :
        /\ phase[b] \in {"new", "list", "archive", "sized", "clear"} => meta[b] = "none"
        /\ phase[b] \in {"sized", "clear", "store"} => archive[b] = "whole"
        /\ phase[b] = "store" => meta[b] = "partial"
        /\ phase[b] \in {"record", "done"} => meta[b] = "whole"
        /\ phase[b] = "failed" => meta[b] # "whole"
        /\ meta[b] = "whole" /\ b \notin removed => archive[b] = "whole"

Listed ==
    /\ \A p \in Procs : \A b \in history[p] : meta[b] = "whole"
    /\ \A b \in removed : meta[b] = "whole" /\ (b \in asked \/ b \in old)

\* No process has a backup still to read that it is making itself.
Unread ==
    \A b \in Backups :
        phase[b] \in {"new", "list"} \cup Working => b \notin unread[proc[b]]

\* The process that made a backup lists it, or will when it has started.
Kept ==
    \A b \in Backups : (phase[b] = "done" /\ b \notin removed) =>
        b \in history[proc[b]] \cup unread[proc[b]]

IInv == TypeOK /\ Files /\ Listed /\ Unread /\ Kept

-----------------------------------------------------------------------------
LEMMA InitIInv == Init => IInv
  BY DEF Init, IInv, TypeOK, Files, Listed, Unread, Kept, File, Phases, Working, BackupStatus

(* Types: one step per action.                                              *)
LEMMA TypeStep == IInv /\ [Next]_vars => TypeOK'
<1> SUFFICES ASSUME IInv, [Next]_vars PROVE TypeOK'
  OBVIOUS
<1> USE DEF IInv, TypeOK, File, Phases, Working, BackupStatus, directory,
            process, call, log, To, SetStatus, Fail
<1>1. ASSUME NEW b \in Backups, Create(b) PROVE TypeOK'
  BY <1>1 DEF Create
<1>2. ASSUME NEW b \in Backups, CreateRefused(b) PROVE TypeOK'
  BY <1>2 DEF CreateRefused
<1>3. ASSUME NEW b \in Backups, OpenArchive(b) PROVE TypeOK'
  BY <1>3 DEF OpenArchive
<1>4. ASSUME NEW b \in Backups, CloseArchive(b) PROVE TypeOK'
  BY <1>4 DEF CloseArchive
<1>5. ASSUME NEW b \in Backups, Measure(b) PROVE TypeOK'
  BY <1>5 DEF Measure
<1>6. ASSUME NEW b \in Backups, ClearTemp(b) PROVE TypeOK'
  BY <1>6 DEF ClearTemp
<1>7. ASSUME NEW b \in Backups, StoreMetadata(b) PROVE TypeOK'
  BY <1>7 DEF StoreMetadata
<1>8. ASSUME NEW b \in Backups, Record(b) PROVE TypeOK'
  <2>1. b \notin unread[proc[b]]
    BY <1>8 DEF Record, Unread
  <2>2. /\ history' = [history EXCEPT ![proc[b]] = @ \cup {b}]
        /\ unread' = unread /\ proc' = proc /\ phase' \in [Backups -> Phases]
        /\ temp' = temp /\ old' = old /\ archive' = archive /\ meta' = meta
        /\ status' = status /\ cancelled' = cancelled /\ asked' = asked
        /\ removed' = removed
    BY <1>8 DEF Record
  <2>3. history' \in [Procs -> SUBSET Backups]
    BY <2>2
  <2>4. \A p \in Procs : history'[p] \cap unread[p] = {}
    BY <2>1, <2>2
  <2> QED BY <2>2, <2>3, <2>4
<1>9. ASSUME NEW b \in Backups, BuildFails(b) PROVE TypeOK'
  BY <1>9 DEF BuildFails
<1>10. ASSUME NEW b \in Backups, StoreFails(b) PROVE TypeOK'
  BY <1>10 DEF StoreFails
<1>11. ASSUME NEW b \in Backups, Cancel(b) PROVE TypeOK'
  BY <1>11 DEF Cancel
<1>12. ASSUME NEW b \in Backups, Age(b) PROVE TypeOK'
  BY <1>12 DEF Age
<1>13. ASSUME NEW p \in Procs, NEW b \in Backups, DeleteBackup(p, b) PROVE TypeOK'
  BY <1>13 DEF DeleteBackup, Drop
<1>14. ASSUME NEW p \in Procs, CleanupOldBackups(p) PROVE TypeOK'
  BY <1>14 DEF CleanupOldBackups, Drop
<1>15. ASSUME NEW p \in Procs, Restart(p) PROVE TypeOK'
  BY <1>15 DEF Restart
<1>16. ASSUME NEW p \in Procs, NEW b \in Backups, LoadEntry(p, b) PROVE TypeOK'
  BY <1>16 DEF LoadEntry
<1>17. CASE UNCHANGED vars
  BY <1>17 DEF vars
<1> QED BY <1>1, <1>2, <1>3, <1>4, <1>5, <1>6, <1>7, <1>8, <1>9, <1>10, <1>11,
           <1>12, <1>13, <1>14, <1>15, <1>16, <1>17 DEF Next, Make

(* How far the files are: each step moves one backup by one phase.          *)
LEMMA FilesStep == IInv /\ [Next]_vars => Files'
<1> SUFFICES ASSUME IInv, [Next]_vars PROVE Files'
  OBVIOUS
<1> USE DEF Files, Listed, IInv, TypeOK, Phases, Working, directory, process, call, log, To, SetStatus, Fail
<1>1. ASSUME NEW b \in Backups, Create(b) PROVE Files'
  BY <1>1 DEF Create
<1>2. ASSUME NEW b \in Backups, CreateRefused(b) PROVE Files'
  BY <1>2 DEF CreateRefused
<1>3. ASSUME NEW b \in Backups, OpenArchive(b) PROVE Files'
  BY <1>3 DEF OpenArchive
<1>4. ASSUME NEW b \in Backups, CloseArchive(b) PROVE Files'
  BY <1>4 DEF CloseArchive
<1>5. ASSUME NEW b \in Backups, Measure(b) PROVE Files'
  BY <1>5 DEF Measure
<1>6. ASSUME NEW b \in Backups, ClearTemp(b) PROVE Files'
  BY <1>6 DEF ClearTemp
<1>7. ASSUME NEW b \in Backups, StoreMetadata(b) PROVE Files'
  BY <1>7 DEF StoreMetadata
<1>8. ASSUME NEW b \in Backups, Record(b) PROVE Files'
  BY <1>8 DEF Record
<1>9. ASSUME NEW b \in Backups, BuildFails(b) PROVE Files'
  BY <1>9 DEF BuildFails
<1>10. ASSUME NEW b \in Backups, StoreFails(b) PROVE Files'
  BY <1>10 DEF StoreFails
<1>11. ASSUME NEW b \in Backups, Cancel(b) PROVE Files'
  BY <1>11 DEF Cancel
<1>12. ASSUME NEW b \in Backups, Age(b) PROVE Files'
  BY <1>12 DEF Age
<1>13. ASSUME NEW p \in Procs, NEW b \in Backups, DeleteBackup(p, b) PROVE Files'
  BY <1>13 DEF DeleteBackup, Drop
<1>14. ASSUME NEW p \in Procs, CleanupOldBackups(p) PROVE Files'
  BY <1>14 DEF CleanupOldBackups, Drop
<1>15. ASSUME NEW p \in Procs, Restart(p) PROVE Files'
  BY <1>15 DEF Restart
<1>16. ASSUME NEW p \in Procs, NEW b \in Backups, LoadEntry(p, b) PROVE Files'
  BY <1>16 DEF LoadEntry
<1>17. CASE UNCHANGED vars
  BY <1>17 DEF vars
<1> QED BY <1>1, <1>2, <1>3, <1>4, <1>5, <1>6, <1>7, <1>8, <1>9, <1>10, <1>11,
           <1>12, <1>13, <1>14, <1>15, <1>16, <1>17 DEF Next, Make

(* An entry comes from a finished backup or from a whole file.              *)
LEMMA ListedStep == IInv /\ [Next]_vars => Listed'
<1> SUFFICES ASSUME IInv, [Next]_vars PROVE Listed'
  OBVIOUS
<1> USE DEF Listed, Files, IInv, TypeOK, Phases, Working, directory, process, call, log, To, SetStatus, Fail
<1>1. ASSUME NEW b \in Backups, Create(b) PROVE Listed'
  BY <1>1 DEF Create
<1>2. ASSUME NEW b \in Backups, CreateRefused(b) PROVE Listed'
  BY <1>2 DEF CreateRefused
<1>3. ASSUME NEW b \in Backups, OpenArchive(b) PROVE Listed'
  BY <1>3 DEF OpenArchive
<1>4. ASSUME NEW b \in Backups, CloseArchive(b) PROVE Listed'
  BY <1>4 DEF CloseArchive
<1>5. ASSUME NEW b \in Backups, Measure(b) PROVE Listed'
  BY <1>5 DEF Measure
<1>6. ASSUME NEW b \in Backups, ClearTemp(b) PROVE Listed'
  BY <1>6 DEF ClearTemp
<1>7. ASSUME NEW b \in Backups, StoreMetadata(b) PROVE Listed'
  BY <1>7 DEF StoreMetadata
<1>8. ASSUME NEW b \in Backups, Record(b) PROVE Listed'
  BY <1>8 DEF Record
<1>9. ASSUME NEW b \in Backups, BuildFails(b) PROVE Listed'
  BY <1>9 DEF BuildFails
<1>10. ASSUME NEW b \in Backups, StoreFails(b) PROVE Listed'
  BY <1>10 DEF StoreFails
<1>11. ASSUME NEW b \in Backups, Cancel(b) PROVE Listed'
  BY <1>11 DEF Cancel
<1>12. ASSUME NEW b \in Backups, Age(b) PROVE Listed'
  BY <1>12 DEF Age
<1>13. ASSUME NEW p \in Procs, NEW b \in Backups, DeleteBackup(p, b) PROVE Listed'
  BY <1>13 DEF DeleteBackup, Drop
<1>14. ASSUME NEW p \in Procs, CleanupOldBackups(p) PROVE Listed'
  BY <1>14 DEF CleanupOldBackups, Drop
<1>15. ASSUME NEW p \in Procs, Restart(p) PROVE Listed'
  BY <1>15 DEF Restart
<1>16. ASSUME NEW p \in Procs, NEW b \in Backups, LoadEntry(p, b) PROVE Listed'
  BY <1>16 DEF LoadEntry
<1>17. CASE UNCHANGED vars
  BY <1>17 DEF vars
<1> QED BY <1>1, <1>2, <1>3, <1>4, <1>5, <1>6, <1>7, <1>8, <1>9, <1>10, <1>11,
           <1>12, <1>13, <1>14, <1>15, <1>16, <1>17 DEF Next, Make

(* A restart ends what the process was making.                              *)
LEMMA UnreadStep == IInv /\ [Next]_vars => Unread'
<1> SUFFICES ASSUME IInv, [Next]_vars PROVE Unread'
  OBVIOUS
<1> USE DEF Unread, Files, IInv, TypeOK, Phases, Working, directory, process, call, log, To, SetStatus, Fail
<1>1. ASSUME NEW b \in Backups, Create(b) PROVE Unread'
  BY <1>1 DEF Create
<1>2. ASSUME NEW b \in Backups, CreateRefused(b) PROVE Unread'
  BY <1>2 DEF CreateRefused
<1>3. ASSUME NEW b \in Backups, OpenArchive(b) PROVE Unread'
  BY <1>3 DEF OpenArchive
<1>4. ASSUME NEW b \in Backups, CloseArchive(b) PROVE Unread'
  BY <1>4 DEF CloseArchive
<1>5. ASSUME NEW b \in Backups, Measure(b) PROVE Unread'
  BY <1>5 DEF Measure
<1>6. ASSUME NEW b \in Backups, ClearTemp(b) PROVE Unread'
  BY <1>6 DEF ClearTemp
<1>7. ASSUME NEW b \in Backups, StoreMetadata(b) PROVE Unread'
  BY <1>7 DEF StoreMetadata
<1>8. ASSUME NEW b \in Backups, Record(b) PROVE Unread'
  BY <1>8 DEF Record
<1>9. ASSUME NEW b \in Backups, BuildFails(b) PROVE Unread'
  BY <1>9 DEF BuildFails
<1>10. ASSUME NEW b \in Backups, StoreFails(b) PROVE Unread'
  BY <1>10 DEF StoreFails
<1>11. ASSUME NEW b \in Backups, Cancel(b) PROVE Unread'
  BY <1>11 DEF Cancel
<1>12. ASSUME NEW b \in Backups, Age(b) PROVE Unread'
  BY <1>12 DEF Age
<1>13. ASSUME NEW p \in Procs, NEW b \in Backups, DeleteBackup(p, b) PROVE Unread'
  BY <1>13 DEF DeleteBackup, Drop
<1>14. ASSUME NEW p \in Procs, CleanupOldBackups(p) PROVE Unread'
  BY <1>14 DEF CleanupOldBackups, Drop
<1>15. ASSUME NEW p \in Procs, Restart(p) PROVE Unread'
  BY <1>15 DEF Restart
<1>16. ASSUME NEW p \in Procs, NEW b \in Backups, LoadEntry(p, b) PROVE Unread'
  BY <1>16 DEF LoadEntry
<1>17. CASE UNCHANGED vars
  BY <1>17 DEF vars
<1> QED BY <1>1, <1>2, <1>3, <1>4, <1>5, <1>6, <1>7, <1>8, <1>9, <1>10, <1>11,
           <1>12, <1>13, <1>14, <1>15, <1>16, <1>17 DEF Next, Make

(* Only a delete takes an entry out of a process that has started.          *)
LEMMA KeptStep == IInv /\ [Next]_vars => Kept'
<1> SUFFICES ASSUME IInv, [Next]_vars PROVE Kept'
  OBVIOUS
<1> USE DEF Kept, Files, Unread, IInv, TypeOK, Phases, Working, directory, process, call, log, To, SetStatus, Fail
<1>1. ASSUME NEW b \in Backups, Create(b) PROVE Kept'
  BY <1>1 DEF Create
<1>2. ASSUME NEW b \in Backups, CreateRefused(b) PROVE Kept'
  BY <1>2 DEF CreateRefused
<1>3. ASSUME NEW b \in Backups, OpenArchive(b) PROVE Kept'
  BY <1>3 DEF OpenArchive
<1>4. ASSUME NEW b \in Backups, CloseArchive(b) PROVE Kept'
  BY <1>4 DEF CloseArchive
<1>5. ASSUME NEW b \in Backups, Measure(b) PROVE Kept'
  BY <1>5 DEF Measure
<1>6. ASSUME NEW b \in Backups, ClearTemp(b) PROVE Kept'
  BY <1>6 DEF ClearTemp
<1>7. ASSUME NEW b \in Backups, StoreMetadata(b) PROVE Kept'
  BY <1>7 DEF StoreMetadata
<1>8. ASSUME NEW b \in Backups, Record(b) PROVE Kept'
  BY <1>8 DEF Record
<1>9. ASSUME NEW b \in Backups, BuildFails(b) PROVE Kept'
  BY <1>9 DEF BuildFails
<1>10. ASSUME NEW b \in Backups, StoreFails(b) PROVE Kept'
  BY <1>10 DEF StoreFails
<1>11. ASSUME NEW b \in Backups, Cancel(b) PROVE Kept'
  BY <1>11 DEF Cancel
<1>12. ASSUME NEW b \in Backups, Age(b) PROVE Kept'
  BY <1>12 DEF Age
<1>13. ASSUME NEW p \in Procs, NEW b \in Backups, DeleteBackup(p, b) PROVE Kept'
  BY <1>13 DEF DeleteBackup, Drop
<1>14. ASSUME NEW p \in Procs, CleanupOldBackups(p) PROVE Kept'
  BY <1>14 DEF CleanupOldBackups, Drop
<1>15. ASSUME NEW p \in Procs, Restart(p) PROVE Kept'
  BY <1>15 DEF Restart
<1>16. ASSUME NEW p \in Procs, NEW b \in Backups, LoadEntry(p, b) PROVE Kept'
  BY <1>16 DEF LoadEntry
<1>17. CASE UNCHANGED vars
  BY <1>17 DEF vars
<1> QED BY <1>1, <1>2, <1>3, <1>4, <1>5, <1>6, <1>7, <1>8, <1>9, <1>10, <1>11,
           <1>12, <1>13, <1>14, <1>15, <1>16, <1>17 DEF Next, Make

-----------------------------------------------------------------------------
(* The theorems.                                                            *)
LEMMA Inductive == Spec => []IInv
<1>1. IInv /\ [Next]_vars => IInv'
  BY TypeStep, FilesStep, ListedStep, UnreadStep, KeptStep DEF IInv
<1> QED BY InitIInv, <1>1, PTL DEF Spec

(* Every variable keeps its type, and no history holds a backup twice.      *)
THEOREM TypeCorrect == Spec => []TypeOK
  BY Inductive, PTL DEF IInv

(* Whatever process lists a backup that nobody deleted can restore it, with *)
(* any number of processes over the directory and deaths at any point.      *)
THEOREM Restorable == Spec => []ListedIsRestorable
<1>1. IInv => ListedIsRestorable
  BY DEF IInv, TypeOK, Files, Listed, ListedIsRestorable
<1> QED BY Inductive, <1>1, PTL

(* A backup that was reported as failed is never listed.                    *)
THEOREM FailureIsFinal == Spec => []FailedIsNotListed
<1>1. IInv => FailedIsNotListed
  BY DEF IInv, TypeOK, Files, Listed, FailedIsNotListed
<1> QED BY Inductive, <1>1, PTL

(* A backup that was reported as complete is kept and listed by its maker.  *)
THEOREM CompletionIsDurable == Spec => []CompletedIsKept
<1>1. IInv => CompletedIsKept
  BY DEF IInv, TypeOK, Files, Listed, Kept, CompletedIsKept
<1> QED BY Inductive, <1>1, PTL
=============================================================================
