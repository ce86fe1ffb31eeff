------------------------- MODULE TransferJobsProofs -------------------------
(***************************************************************************)
(* TypeOK and RowsAccounted of TransferJobs, for any number of jobs, any   *)
(* files and any batch sizes.  RowsAccounted is about jobs that process    *)
(* rows or ended; the strengthening adds what the counters are before      *)
(* that, and how many rows were processed while there are some to come     *)
(* (Counted).                                                              *)
(***************************************************************************)
EXTENDS TransferJobs, TLAPS

CountedOf(j) ==
    /\ step[j] \in {"none", "dataset", "read"} =>
          /\ status[j] = "running"
          /\ batch[j] = 0 /\ processed[j] = 0
          /\ successful[j] = 0 /\ failed[j] = 0
    /\ step[j] = "rows" =>
          /\ status[j] = "running"
          /\ total[j] = successful[j] + failed[j] + batch[j] + goodLeft[j] + badLeft[j]
          /\ batch[j] < batchSize[j]
          /\ processed[j] + goodLeft[j] + Bad(j) = total[j]
          /\ noted[j] > 0 \/ failed[j] = 0
    /\ (step[j] = "ended" /\ status[j] # "failed") =>
          /\ total[j] = successful[j] + failed[j]
          /\ processed[j] + Bad(j) = total[j]
          /\ status[j] = "completed" <=> failed[j] = 0

Counted == \A j \in Imports : CountedOf(j)

IInv == TypeOK /\ Counted

-----------------------------------------------------------------------------
\* The rows that will raise are counted by a natural number.
LEMMA BadNat == TypeOK => \A j \in Imports : Bad(j) \in Nat /\ file[j].good \in Nat
  BY TransferJobsAssumption DEF TypeOK, Bad, CsvRaises, JsonRaises, NoFile

LEMMA SizePositive == TypeOK => \A j \in Imports : batchSize[j] \in Nat /\ batchSize[j] > 0
<1> SUFFICES ASSUME TypeOK, NEW j \in Imports PROVE batchSize[j] \in Nat /\ batchSize[j] > 0
  OBVIOUS
<1>1. batchSize[j] \in BatchSizes \cup {1}
  BY DEF TypeOK
<1>2. BatchSizes \cup {1} \subseteq Nat \ {0}
  BY TransferJobsAssumption
<1> QED BY <1>1, <1>2

LEMMA InitIInv == Init => IInv
  BY DEF Init, IInv, TypeOK, Counted, CountedOf, NoFile, Jobs, ImportSteps, ImportStatuses,
         ExportSteps, ExportStatuses, Formats

(* Types: one step per action.                                              *)
LEMMA TypeStep == IInv /\ [Next]_vars => TypeOK'
<1> SUFFICES ASSUME IInv, [Next]_vars PROVE TypeOK'
  OBVIOUS
<1> USE TransferJobsAssumption
    DEF IInv, TypeOK, imports, exports, ImportSteps, ImportStatuses, ExportSteps,
        ExportStatuses, Formats
<1>1. ASSUME NEW j \in Imports, ImportStart(j) PROVE TypeOK'
  BY <1>1 DEF ImportStart, JobFormat
<1>2. ASSUME NEW j \in Imports, CloseUpload(j) PROVE TypeOK'
  BY <1>2 DEF CloseUpload
<1>3. ASSUME NEW j \in Imports, GetDataset(j) PROVE TypeOK'
  BY <1>3 DEF GetDataset
<1>4. ASSUME NEW j \in Imports, ReadFile(j) PROVE TypeOK'
  <2>1. Bad(j) \in Nat /\ file[j].good \in Nat /\ Skipped(j) \in Nat
    BY BadNat DEF Skipped, NoFile
  <2> QED BY <1>4, <2>1 DEF ReadFile
<1>5. ASSUME NEW j \in Imports, GoodRow(j) PROVE TypeOK'
  BY <1>5 DEF GoodRow, InsertBatch
<1>6. ASSUME NEW j \in Imports, BadRow(j) PROVE TypeOK'
  BY <1>6 DEF BadRow
<1>7. ASSUME NEW j \in Imports, ImportFinish(j) PROVE TypeOK'
  <2>1. batch' \in [Imports -> Nat] /\ failed' \in [Imports -> Nat]
    BY <1>7 DEF ImportFinish, InsertBatch
  <2>2. noted' \in [Imports -> Nat] /\ successful' \in [Imports -> Nat]
    BY <1>7 DEF ImportFinish, InsertBatch
  <2>3. status' \in [Imports -> ImportStatuses] /\ step' \in [Imports -> ImportSteps]
    BY <1>7 DEF ImportFinish
  <2> QED BY <1>7, <2>1, <2>2, <2>3 DEF ImportFinish
<1>8. ASSUME NEW j \in Imports, ImportFails(j) PROVE TypeOK'
  BY <1>8 DEF ImportFails
<1>9. ASSUME NEW j \in Exports, ExportStart(j) PROVE TypeOK'
  BY <1>9 DEF ExportStart
<1>10. ASSUME NEW j \in Exports, CountVectors(j) PROVE TypeOK'
  BY ZenonT(40), <1>10 DEF CountVectors
<1>11. ASSUME NEW j \in Exports, OpenExport(j) PROVE TypeOK'
  BY <1>11 DEF OpenExport
<1>12. ASSUME NEW j \in Exports, ExportFinish(j) PROVE TypeOK'
  BY <1>12 DEF ExportFinish
<1>13. ASSUME NEW j \in Exports, ExportFails(j) PROVE TypeOK'
  BY <1>13 DEF ExportFails
<1>14. ASSUME NEW j \in Imports, GetImportStatus(j) PROVE TypeOK'
  BY <1>14 DEF GetImportStatus, Found, Jobs
<1>15. ASSUME NEW j \in Exports, GetExportStatus(j) \/ Download(j) PROVE TypeOK'
  BY <1>15 DEF GetExportStatus, Download, Found, Jobs
<1>16. CASE CleanupJobs
  BY <1>16 DEF CleanupJobs
<1>17. CASE Restart
  BY <1>17 DEF Restart, Died
<1>18. CASE UNCHANGED vars
  BY <1>18 DEF vars
<1> QED BY <1>1, <1>2, <1>3, <1>4, <1>5, <1>6, <1>7, <1>8, <1>9, <1>10, <1>11, <1>12,
           <1>13, <1>14, <1>15, <1>16, <1>17, <1>18 DEF Next, ImportTask, ExportTask

\* What is not of imports leaves their counters alone.
LEMMA CountedKept == Counted /\ UNCHANGED imports => Counted'
  BY DEF Counted, CountedOf, imports, Bad

(* The rows: a step moves one row, or the batch, from one counter to        *)
(* another.                                                                 *)
LEMMA CountedStep == IInv /\ [Next]_vars => Counted'
<1> SUFFICES ASSUME IInv, [Next]_vars PROVE Counted'
  OBVIOUS
<1>0. \A j \in Imports : Bad(j) \in Nat /\ file[j].good \in Nat
  BY BadNat DEF IInv
<1> USE DEF IInv, TypeOK, Counted, CountedOf
<1>1. ASSUME NEW j \in Imports, ImportStart(j) PROVE Counted'
  BY <1>0, <1>1 DEF ImportStart, Bad
<1>2. ASSUME NEW j \in Imports, CloseUpload(j) PROVE Counted'
  BY <1>0, <1>2 DEF CloseUpload, Bad
<1>3. ASSUME NEW j \in Imports, GetDataset(j) PROVE Counted'
  BY <1>0, <1>3 DEF GetDataset, Bad
<1>4. ASSUME NEW j \in Imports, ReadFile(j) PROVE Counted'
  <2>1. \A i \in Imports : Bad(i)' = Bad(i)
    BY <1>4 DEF ReadFile, Bad
  <2>2. batchSize[j] > 0
    BY SizePositive
  <2>3. CountedOf(j)'
    BY <1>0, <1>4, <2>1, <2>2 DEF ReadFile
  <2>4. ASSUME NEW i \in Imports, i # j PROVE CountedOf(i)'
    BY <1>4, <2>1, <2>4 DEF ReadFile
  <2> QED BY <2>3, <2>4
<1>5. ASSUME NEW j \in Imports, GoodRow(j) PROVE Counted'
  <2>1. \A i \in Imports : Bad(i)' = Bad(i)
    BY <1>5 DEF GoodRow, Bad
  <2>2. batchSize[j] > 0 /\ batchSize[j] \in Nat
    BY SizePositive
  <2>3. CountedOf(j)'
    <3>1. /\ step[j] = "rows" /\ step'[j] = "rows" /\ status'[j] = "running"
          /\ total'[j] = total[j] /\ badLeft'[j] = badLeft[j]
          /\ batchSize'[j] = batchSize[j] /\ successful'[j] = successful[j]
          /\ goodLeft'[j] = goodLeft[j] - 1 /\ processed'[j] = processed[j] + 1
      BY <1>5 DEF GoodRow, InsertBatch
    <3>2. \/ /\ batch'[j] = 0 /\ failed'[j] = failed[j] + (batch[j] + 1)
             /\ noted'[j] = noted[j] + 1
          \/ /\ batch[j] + 1 < batchSize[j] /\ batch'[j] = batch[j] + 1
             /\ failed'[j] = failed[j] /\ noted'[j] = noted[j]
      BY <1>5, <2>2 DEF GoodRow, InsertBatch
    <3>3. /\ total[j] \in Nat /\ successful[j] \in Nat /\ failed[j] \in Nat /\ batch[j] \in Nat
          /\ goodLeft[j] \in Nat /\ badLeft[j] \in Nat /\ processed[j] \in Nat /\ noted[j] \in Nat
          /\ Bad(j) \in Nat /\ Bad(j)' = Bad(j) /\ CountedOf(j)
      BY <1>0, <2>1
    <3>4. /\ total[j] = successful[j] + failed[j] + batch[j] + goodLeft[j] + badLeft[j]
          /\ processed[j] + goodLeft[j] + Bad(j) = total[j]
          /\ noted[j] > 0 \/ failed[j] = 0
      BY <3>1, <3>3
    <3> HIDE DEF IInv, TypeOK, Counted, CountedOf
    <3>5. /\ total'[j] = successful'[j] + failed'[j] + batch'[j] + goodLeft'[j] + badLeft'[j]
          /\ batch'[j] < batchSize'[j]
          /\ processed'[j] + goodLeft'[j] + Bad(j)' = total'[j]
          /\ noted'[j] > 0 \/ failed'[j] = 0
      BY <2>2, <3>1, <3>2, <3>3, <3>4
    <3> QED BY <3>1, <3>5 DEF CountedOf
  <2>4. ASSUME NEW i \in Imports, i # j PROVE CountedOf(i)'
    BY <1>5, <2>1, <2>4 DEF GoodRow, InsertBatch
  <2> HIDE DEF CountedOf
  <2> QED BY <2>3, <2>4
<1>6. ASSUME NEW j \in Imports, BadRow(j) PROVE Counted'
  <2>1. \A i \in Imports : Bad(i)' = Bad(i)
    BY <1>6 DEF BadRow, Bad
  <2>2. CountedOf(j)'
    <3>1. /\ step[j] = "rows" /\ step'[j] = "rows" /\ status'[j] = status[j]
          /\ total'[j] = total[j] /\ goodLeft'[j] = goodLeft[j] /\ batch'[j] = batch[j]
          /\ batchSize'[j] = batchSize[j] /\ successful'[j] = successful[j]
          /\ badLeft'[j] = badLeft[j] - 1 /\ failed'[j] = failed[j] + 1
          /\ processed'[j] = processed[j] /\ noted'[j] = noted[j] + 1
      BY <1>6 DEF BadRow
    <3>2. /\ successful[j] \in Nat /\ failed[j] \in Nat /\ batch[j] \in Nat
          /\ goodLeft[j] \in Nat /\ badLeft[j] \in Nat /\ noted[j] \in Nat
          /\ CountedOf(j)
      OBVIOUS
    <3> HIDE DEF IInv, TypeOK, Counted, CountedOf
    <3>3. /\ status[j] = "running"
          /\ total[j] = successful[j] + failed[j] + batch[j] + goodLeft[j] + badLeft[j]
          /\ batch[j] < batchSize[j]
          /\ processed[j] + goodLeft[j] + Bad(j) = total[j]
      BY <3>1, <3>2 DEF CountedOf
    <3>4. /\ total'[j] = successful'[j] + failed'[j] + batch'[j] + goodLeft'[j] + badLeft'[j]
          /\ noted'[j] > 0
      BY <3>1, <3>2, <3>3
    <3> QED BY <2>1, <3>1, <3>3, <3>4 DEF CountedOf
  <2>3. ASSUME NEW i \in Imports, i # j PROVE CountedOf(i)'
    BY <1>6, <2>1, <2>3 DEF BadRow
  <2> HIDE DEF CountedOf
  <2> QED BY <2>2, <2>3
<1>7. ASSUME NEW j \in Imports, ImportFinish(j) PROVE Counted'
  <2>1. \A i \in Imports : Bad(i)' = Bad(i)
    BY <1>7 DEF ImportFinish, Bad
  <2> QED BY <1>0, <1>7, <2>1 DEF ImportFinish, InsertBatch
<1>8. ASSUME NEW j \in Imports, ImportFails(j) PROVE Counted'
  BY <1>0, <1>8 DEF ImportFails, Bad
<1>9. CASE UNCHANGED imports
  BY <1>9, CountedKept
<1>10. CASE Restart
  BY <1>0, <1>10 DEF Restart, Died, Bad
<1> QED BY <1>1, <1>2, <1>3, <1>4, <1>5, <1>6, <1>7, <1>8, <1>9, <1>10
        DEF Next, ImportTask, ExportTask, ExportStart, CountVectors, OpenExport,
            ExportFinish, ExportFails, GetImportStatus, GetExportStatus, Download,
            CleanupJobs, vars

LEMMA Invariance == Spec => []IInv
<1>1. IInv /\ [Next]_vars => IInv'
  BY TypeStep, CountedStep DEF IInv
<1> QED BY InitIInv, <1>1, PTL DEF Spec

\* Every variable of the jobs keeps its type.
THEOREM TypeCorrect == Spec => []TypeOK
  BY Invariance, PTL DEF IInv

\* Whatever the files, the batch sizes and the jobs that run, every row that
\* was read is counted exactly once (the counters of ImportJobStatus).
THEOREM EveryRowIsCounted == Spec => []RowsAccounted
<1>1. ASSUME IInv, NEW j \in Imports PROVE
        /\ step[j] = "rows" =>
              /\ total[j] = successful[j] + failed[j] + batch[j] + goodLeft[j] + badLeft[j]
              /\ batch[j] < batchSize[j]
              /\ noted[j] > 0 \/ failed[j] = 0
        /\ (step[j] = "ended" /\ status[j] # "failed") =>
              /\ total[j] = successful[j] + failed[j]
              /\ processed[j] + Bad(j) = total[j]
              /\ status[j] = "completed" <=> successful[j] = total[j]
  <2>1. CountedOf(j) /\ total[j] \in Nat /\ successful[j] \in Nat /\ failed[j] \in Nat
    BY <1>1 DEF IInv, TypeOK, Counted
  <2>2. total[j] = successful[j] + failed[j] => (failed[j] = 0 <=> successful[j] = total[j])
    BY <2>1
  <2> QED BY <2>1, <2>2 DEF CountedOf
<1>2. IInv => RowsAccounted
  BY <1>1 DEF RowsAccounted
<1> QED BY Invariance, <1>2, PTL

=============================================================================
