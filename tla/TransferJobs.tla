---------------------------- MODULE TransferJobs ----------------------------
(***************************************************************************)
(* Import and export jobs: src/app/services/import_export_service.py and   *)
(* the handlers of src/app/api/http/v1/import_export.py, in one worker.    *)
(*                                                                         *)
(* A handler builds an ImportExportService of its own, starts a task and   *)
(* answers; the task goes on after the answer, while FastAPI closes the    *)
(* upload it is to read.  The task keeps the job's counters.  A job is     *)
(* only in the dictionary of the service that started it, so no later      *)
(* request finds it.                                                       *)
(*                                                                         *)
(* A file is how many rows of each sort its parser meets: good rows, wrong *)
(* rows (another dimension, no values, not an object) and junk rows (text  *)
(* that is not JSON).  The order of the rows is left open.                 *)
(***************************************************************************)
EXTENDS Naturals

CONSTANTS
    Imports, Exports,   \* the jobs
    Files,              \* what may be uploaded
    BatchSizes,         \* batch_size of an import
    Counts,             \* vectors a dataset may hold
    Limits              \* limit of an export; 0 is none

ASSUME TransferJobsAssumption ==
    /\ Files \subseteq [good : Nat, wrong : Nat, junk : Nat, text : BOOLEAN]
    /\ BatchSizes \subseteq Nat \ {0}
    /\ Counts \subseteq Nat /\ Limits \subseteq Nat

VARIABLES
    \* each import: the task, and ImportJobStatus
    step, status, format, file, batchSize,
    closed,             \* FastAPI has closed the upload
    goodLeft, badLeft,  \* rows still to come
    batch,              \* len(batch)
    total, processed, successful, failed, noted,    \* noted: len(job.errors)
    \* each export
    xstep, xstatus, limit, xtotal,
    stored,             \* its file is in export_path
    \* what the last GET of a job was answered
    answer

imports == <<step, status, format, file, batchSize, closed, goodLeft, badLeft,
             batch, total, processed, successful, failed, noted>>
exports == <<xstep, xstatus, limit, xtotal, stored>>
vars == <<imports, exports, answer>>

Jobs == Imports \cup Exports
Formats == {"csv", "json", "jsonl"}
Suffixes == Formats \cup {"other"}
Asked == Formats \cup {"none", "other"}
NoFile == [good |-> 0, wrong |-> 0, junk |-> 0, text |-> TRUE]

\* gone: the process died with the job.
ImportSteps == {"none", "dataset", "read", "rows", "ended", "gone"}
ImportStatuses == {"running", "completed", "completed_with_errors", "failed"}
ExportSteps == {"none", "count", "open", "page", "ended", "gone"}
ExportStatuses == {"running", "completed", "failed"}

\* The jobs in the dictionaries of a service that was just built.
NewService == {}

Init ==
    /\ step = [j \in Imports |-> "none"]
    /\ status = [j \in Imports |-> "running"]
    /\ format = [j \in Imports |-> "csv"]
    /\ file = [j \in Imports |-> NoFile]
    /\ batchSize = [j \in Imports |-> 1]
    /\ closed = [j \in Imports |-> FALSE]
    /\ goodLeft = [j \in Imports |-> 0] /\ badLeft = [j \in Imports |-> 0]
    /\ batch = [j \in Imports |-> 0]
    /\ total = [j \in Imports |-> 0] /\ processed = [j \in Imports |-> 0]
    /\ successful = [j \in Imports |-> 0] /\ failed = [j \in Imports |-> 0]
    /\ noted = [j \in Imports |-> 0]
    /\ xstep = [j \in Exports |-> "none"]
    /\ xstatus = [j \in Exports |-> "running"]
    /\ limit = [j \in Exports |-> 0]
    /\ xtotal = [j \in Exports |-> 0]
    /\ stored = [j \in Exports |-> FALSE]
    /\ answer = [j \in Jobs |-> "none"]

-----------------------------------------------------------------------------
(* Imports *)

\* The format a request asks for, or that of the file's name; "other" is
\* answered with 400.
RequestFormat(asked, suffix) == IF asked = "none" THEN suffix ELSE asked

\* The format of the job: what is not CSV goes by the file's name alone.
JobFormat(asked, suffix) ==
    IF RequestFormat(asked, suffix) = "csv" THEN "csv"
    ELSE IF suffix = "json" THEN "json" ELSE "jsonl"

ImportStart(j) ==
    /\ step[j] = "none"
    /\ \E asked \in Asked, suffix \in Suffixes, f \in Files, size \in BatchSizes :
          /\ RequestFormat(asked, suffix) # "other"
          /\ format' = [format EXCEPT ![j] = JobFormat(asked, suffix)]
          /\ file' = [file EXCEPT ![j] = f]
          /\ batchSize' = [batchSize EXCEPT ![j] = size]
    /\ step' = [step EXCEPT ![j] = "dataset"]
    /\ UNCHANGED <<status, closed, goodLeft, badLeft, batch, total, processed,
                   successful, failed, noted, exports, answer>>

\* The form, with its files, is closed when the request ends, whether or not
\* the task has read it.
CloseUpload(j) ==
    /\ step[j] # "none" /\ ~closed[j]
    /\ closed' = [closed EXCEPT ![j] = TRUE]
    /\ UNCHANGED <<step, status, format, file, batchSize, goodLeft, badLeft,
                   batch, total, processed, successful, failed, noted,
                   exports, answer>>

GetDataset(j) ==
    /\ step[j] = "dataset"
    /\ step' = [step EXCEPT ![j] = "read"]
    /\ UNCHANGED <<status, format, file, batchSize, closed, goodLeft, badLeft,
                   batch, total, processed, successful, failed, noted,
                   exports, answer>>

\* The rows that will raise: a line of CSV whose values are not JSON, as well
\* as one of another dimension.  JSON that does not parse is no row.
CsvRaises(f) == f.wrong + f.junk
JsonRaises(f) == f.wrong
Bad(j) == IF format[j] = "csv" THEN CsvRaises(file[j]) ELSE JsonRaises(file[j])

\* Lines of JSONL that do not parse are noted and skipped; an array of JSON
\* that does not parse fails the job.
Skipped(j) == IF format[j] = "jsonl" THEN file[j].junk ELSE 0
Readable(j) ==
    ~closed[j] /\ file[j].text /\ (format[j] = "json" => file[j].junk = 0)

ReadFile(j) ==
    /\ step[j] = "read" /\ Readable(j)
    /\ step' = [step EXCEPT ![j] = "rows"]
    /\ goodLeft' = [goodLeft EXCEPT ![j] = file[j].good]
    /\ badLeft' = [badLeft EXCEPT ![j] = Bad(j)]
    /\ total' = [total EXCEPT ![j] = file[j].good + Bad(j)]
    /\ noted' = [noted EXCEPT ![j] = Skipped(j)]
    /\ UNCHANGED <<status, format, file, batchSize, closed, batch, processed,
                   successful, failed, exports, answer>>

\* _insert_batch of n vectors: it calls batch_insert_vectors, which
\* DeepLakeService does not have, and counts the batch as failed.
InsertBatch(j, n) ==
    /\ failed' = [failed EXCEPT ![j] = @ + n]
    /\ noted' = [noted EXCEPT ![j] = @ + 1]
    /\ UNCHANGED successful

\* Mutant of GoodRow: the batch is not emptied after it was inserted.
GoodRowKeepsBatch(j) ==
    /\ step[j] = "rows" /\ goodLeft[j] > 0
    /\ goodLeft' = [goodLeft EXCEPT ![j] = @ - 1]
    /\ processed' = [processed EXCEPT ![j] = @ + 1]
    /\ batch' = [batch EXCEPT ![j] = @ + 1]
    /\ IF batch[j] + 1 >= batchSize[j]
       THEN InsertBatch(j, batch[j] + 1)
       ELSE UNCHANGED <<successful, failed, noted>>
    /\ UNCHANGED <<step, status, format, file, batchSize, closed, badLeft,
                   total, exports, answer>>

\* A row becomes a vector of the batch, and a full batch is inserted.
GoodRow(j) ==
    /\ step[j] = "rows" /\ goodLeft[j] > 0
    /\ goodLeft' = [goodLeft EXCEPT ![j] = @ - 1]
    /\ processed' = [processed EXCEPT ![j] = @ + 1]
    /\ IF batch[j] + 1 >= batchSize[j]
       THEN /\ InsertBatch(j, batch[j] + 1)
            /\ batch' = [batch EXCEPT ![j] = 0]
       ELSE /\ batch' = [batch EXCEPT ![j] = @ + 1]
            /\ UNCHANGED <<successful, failed, noted>>
    /\ UNCHANGED <<step, status, format, file, batchSize, closed, badLeft,
                   total, exports, answer>>

\* Mutant of BadRow: one row more than the file has.
BadRowOnceMore(j) ==
    /\ step[j] = "rows"
    /\ badLeft' = [badLeft EXCEPT ![j] = @ - 1]
    /\ failed' = [failed EXCEPT ![j] = @ + 1]
    /\ noted' = [noted EXCEPT ![j] = @ + 1]
    /\ UNCHANGED <<step, status, format, file, batchSize, closed, goodLeft,
                   batch, total, processed, successful, exports, answer>>

\* A row that raises is counted as failed, and not as processed.
BadRow(j) ==
    /\ step[j] = "rows" /\ badLeft[j] > 0
    /\ badLeft' = [badLeft EXCEPT ![j] = @ - 1]
    /\ failed' = [failed EXCEPT ![j] = @ + 1]
    /\ noted' = [noted EXCEPT ![j] = @ + 1]
    /\ UNCHANGED <<step, status, format, file, batchSize, closed, goodLeft,
                   batch, total, processed, successful, exports, answer>>

\* What is left in the batch is inserted, and the status follows the failures.
ImportFinish(j) ==
    /\ step[j] = "rows" /\ goodLeft[j] = 0 /\ badLeft[j] = 0
    /\ IF batch[j] > 0
       THEN InsertBatch(j, batch[j])
       ELSE UNCHANGED <<successful, failed, noted>>
    /\ batch' = [batch EXCEPT ![j] = 0]
    /\ status' = [status EXCEPT ![j] =
                    IF failed'[j] = 0 THEN "completed" ELSE "completed_with_errors"]
    /\ step' = [step EXCEPT ![j] = "ended"]
    /\ UNCHANGED <<format, file, batchSize, closed, goodLeft, badLeft, total,
                   processed, exports, answer>>

\* Mutant of ImportFails: an upload that cannot be read is tried again.
ImportFailsRetries(j) ==
    /\ step[j] = "read" /\ ~Readable(j)
    /\ step' = [step EXCEPT ![j] = "dataset"]
    /\ UNCHANGED <<status, format, file, batchSize, closed, goodLeft, badLeft,
                   batch, total, processed, successful, failed, noted,
                   exports, answer>>

\* The dataset cannot be read, or the upload.
ImportFails(j) ==
    /\ step[j] = "dataset" \/ (step[j] = "read" /\ ~Readable(j))
    /\ status' = [status EXCEPT ![j] = "failed"]
    /\ step' = [step EXCEPT ![j] = "ended"]
    /\ noted' = [noted EXCEPT ![j] = @ + 1]
    /\ UNCHANGED <<format, file, batchSize, closed, goodLeft, badLeft, batch,
                   total, processed, successful, failed, exports, answer>>

ImportTask(j) ==
    \/ GetDataset(j) \/ ReadFile(j) \/ GoodRow(j) \/ BadRow(j)
    \/ ImportFinish(j) \/ ImportFails(j)

-----------------------------------------------------------------------------
(* Exports *)

ExportStart(j) ==
    /\ xstep[j] = "none"
    /\ \E l \in Limits : limit' = [limit EXCEPT ![j] = l]
    /\ xstep' = [xstep EXCEPT ![j] = "count"]
    /\ UNCHANGED <<imports, xstatus, xtotal, stored, answer>>

\* total_vectors: what get_dataset_stats counts, up to the limit.
CountVectors(j) ==
    /\ xstep[j] = "count"
    /\ \E n \in Counts :
          xtotal' = [xtotal EXCEPT ![j] =
                        IF limit[j] # 0 /\ limit[j] < n THEN limit[j] ELSE n]
    /\ xstep' = [xstep EXCEPT ![j] = "open"]
    /\ UNCHANGED <<imports, xstatus, limit, stored, answer>>

\* The file, with its first line.
OpenExport(j) ==
    /\ xstep[j] = "open"
    /\ stored' = [stored EXCEPT ![j] = TRUE]
    /\ xstep' = [xstep EXCEPT ![j] = "page"]
    /\ UNCHANGED <<imports, xstatus, limit, xtotal, answer>>

\* The loop over the pages ends at offset >= total_vectors.  The offset never
\* leaves 0, as fetching the first page raises (ExportFails): only an export
\* of nothing gets here.
ExportFinish(j) ==
    /\ xstep[j] = "page" /\ xtotal[j] = 0
    /\ xstatus' = [xstatus EXCEPT ![j] = "completed"]
    /\ xstep' = [xstep EXCEPT ![j] = "ended"]
    /\ UNCHANGED <<imports, limit, xtotal, stored, answer>>

\* Counting raises, or opening the file or its first line, before or after the
\* file is there; list_vectors raises, which has no parameter filters; or, of
\* an export of nothing, the end of the file or stat(), which comes after the
\* status was completed.  What is on the disk stays.
ExportFails(j) ==
    /\ xstep[j] \in {"count", "open", "page"}
    /\ \E there \in BOOLEAN :
          /\ there # stored[j] => xstep[j] = "open"
          /\ stored' = [stored EXCEPT ![j] = there]
    /\ xstatus' = [xstatus EXCEPT ![j] = "failed"]
    /\ xstep' = [xstep EXCEPT ![j] = "ended"]
    /\ UNCHANGED <<imports, limit, xtotal, answer>>

ExportTask(j) ==
    CountVectors(j) \/ OpenExport(j) \/ ExportFinish(j) \/ ExportFails(j)

-----------------------------------------------------------------------------
(* Other requests, and the worker *)

\* The service of a request looks the job up among its own.
Found(j) == IF j \in NewService THEN "job" ELSE "404"

GetImportStatus(j) ==
    /\ step[j] # "none"
    /\ answer' = [answer EXCEPT ![j] = Found(j)]
    /\ UNCHANGED <<imports, exports>>

GetExportStatus(j) ==
    /\ xstep[j] # "none"
    /\ answer' = [answer EXCEPT ![j] = Found(j)]
    /\ UNCHANGED <<imports, exports>>

\* The file of a completed export.
Download(j) ==
    /\ xstep[j] # "none"
    /\ answer' = [answer EXCEPT ![j] =
          IF j \in NewService /\ xstatus[j] = "completed" THEN "file" ELSE "404"]
    /\ UNCHANGED <<imports, exports>>

\* Jobs that ended long ago are forgotten, and the files of the exports among
\* them removed, as far as the service of this request knows them.
CleanupJobs ==
    /\ stored' = [j \in Exports |->
                    IF j \in NewService /\ xstep[j] = "ended" THEN FALSE ELSE stored[j]]
    /\ UNCHANGED <<imports, xstep, xstatus, limit, xtotal, answer>>

Died(steps) == [j \in DOMAIN steps |-> IF steps[j] = "none" THEN "none" ELSE "gone"]

\* The worker dies: jobs and tasks are lost, files stay.
Restart ==
    /\ step' = Died(step) /\ xstep' = Died(xstep)
    /\ UNCHANGED <<status, format, file, batchSize, closed, goodLeft, badLeft,
                   batch, total, processed, successful, failed, noted,
                   xstatus, limit, xtotal, stored, answer>>

Next ==
    \/ \E j \in Imports : ImportStart(j) \/ CloseUpload(j) \/ ImportTask(j)
    \/ \E j \in Exports : ExportStart(j) \/ ExportTask(j)
    \/ \E j \in Imports : GetImportStatus(j)
    \/ \E j \in Exports : GetExportStatus(j) \/ Download(j)
    \/ CleanupJobs \/ Restart

\* The event loop runs every task that can go on.
Spec ==
    /\ Init /\ [][Next]_vars
    /\ \A j \in Imports : WF_vars(ImportTask(j))
    /\ \A j \in Exports : WF_vars(ExportTask(j))

-----------------------------------------------------------------------------
(* Properties *)

\* Every variable has its type.
TypeOK ==
    /\ step \in [Imports -> ImportSteps] /\ status \in [Imports -> ImportStatuses]
    /\ format \in [Imports -> Formats] /\ file \in [Imports -> Files \cup {NoFile}]
    /\ batchSize \in [Imports -> BatchSizes \cup {1}]
    /\ closed \in [Imports -> BOOLEAN]
    /\ goodLeft \in [Imports -> Nat] /\ badLeft \in [Imports -> Nat]
    /\ batch \in [Imports -> Nat] /\ total \in [Imports -> Nat]
    /\ processed \in [Imports -> Nat] /\ successful \in [Imports -> Nat]
    /\ failed \in [Imports -> Nat] /\ noted \in [Imports -> Nat]
    /\ xstep \in [Exports -> ExportSteps] /\ xstatus \in [Exports -> ExportStatuses]
    /\ limit \in [Exports -> Limits \cup {0}]
    /\ xtotal \in [Exports -> Nat] /\ stored \in [Exports -> BOOLEAN]
    /\ answer \in [Jobs -> {"none", "job", "file", "404"}]

\* The counters of an import tell every row of the file once: while it runs a
\* row is inserted, failed, in the batch or still to come, the rows that were
\* read are those processed or refused, and a job that ended other than by
\* failing has none left and is completed only if all were inserted.
RowsAccounted ==
    \A j \in Imports :
        /\ step[j] = "rows" =>
              /\ total[j] = successful[j] + failed[j] + batch[j] + goodLeft[j] + badLeft[j]
              /\ batch[j] < batchSize[j]
              /\ noted[j] > 0 \/ failed[j] = 0
        /\ (step[j] = "ended" /\ status[j] # "failed") =>
              /\ total[j] = successful[j] + failed[j]
              /\ processed[j] + Bad(j) = total[j]
              /\ status[j] = "completed" <=> successful[j] = total[j]

\* Every job that was started ends, or dies with its worker.
JobsEnd ==
    /\ \A j \in Imports : step[j] = "dataset" ~> step[j] \in {"ended", "gone"}
    /\ \A j \in Exports : xstep[j] = "count" ~> xstep[j] \in {"ended", "gone"}

-----------------------------------------------------------------------------
(* Properties the code does not have *)

\* docs/import-export.md:89, "Endpoint: GET /api/v1/import/{job_id}": a job
\* that was started is found.
JobIsFound == \A j \in Jobs : answer[j] # "404"

\* docs/import-export.md:120, "completed: Import finished successfully":
\* no line of the file was left out.
CompletedNotesNothing ==
    \A j \in Imports : status[j] = "completed" => noted[j] = 0

\* docs/import-export.md:95-100, where 5 of 1000 rows failed and 1000 are
\* processed: a job that ended has processed all its rows.
AllProcessed ==
    \A j \in Imports :
        (step[j] = "ended" /\ status[j] # "failed") => processed[j] = total[j]

\* docs/import-export.md:326, "Clean up temporary files after processing":
\* an export that failed leaves no file.
FailedExportLeavesNoFile ==
    \A j \in Exports : xstatus[j] = "failed" => ~stored[j]

\* An import fails only when the dataset or the file is at fault.
UploadIsRead ==
    \A j \in Imports : (step[j] = "read" /\ closed[j]) => ~file[j].text

=============================================================================
