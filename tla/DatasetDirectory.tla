-------------------------- MODULE DatasetDirectory --------------------------
(***************************************************************************)
(* The life of ONE dataset name in DeepLakeService                         *)
(* (src/app/services/deeplake_service.py): the directory on disk, the      *)
(* handle that each worker process keeps in self.datasets, and the         *)
(* requests that create, read, fill and delete it.                         *)
(*                                                                         *)
(* A worker runs its coroutines on one event loop, so what lies between    *)
(* two awaits is one step, except where the file system is read twice:     *)
(* executor threads and other workers can change it in between, and the    *)
(* request then keeps the loop (turn) from one step to the next.  Every    *)
(* run_in_executor call is a step of its own.                              *)
(*                                                                         *)
(* Successive datasets under the same name are told apart by a generation  *)
(* number, which has no counterpart in the code.                           *)
(***************************************************************************)
EXTENDS Naturals

CONSTANTS
    Workers,        \* uvicorn worker processes (HTTP_WORKERS)
    Tasks,          \* slots for requests in progress
    NoTask,         \* the event loop is between coroutines
    LoadAttempts,   \* stop_after_attempt of _load_dataset: 3 in the code
    MaxGen          \* bound: datasets created under the name

ASSUME DirectoryAssumption ==
    /\ NoTask \notin Tasks
    /\ LoadAttempts \in Nat \ {0}
    /\ MaxGen \in Nat

VARIABLES
    \* the directory <storage>/<tenant>/<name>
    path,       \* does it exist
    files,      \* generation of the Deep Lake files in it, 0 for none
    meta,       \* generation its dataset_metadata.json describes, 0 for none
    \* each worker process
    datasets,   \* self.datasets: generation of the cached handle, 0 for none
    turn,       \* the task that holds the event loop
    \* each request
    pc,         \* what it does next
    op,         \* which operation it is
    home,       \* the worker that serves it
    overwrite,  \* the flag of a create
    handle,     \* generation of the handle it holds, 0 for none
    tries,      \* failed attempts of _load_dataset
    \* history, no counterpart in the code
    created,    \* generations made so far
    overlap,    \* a create or delete met another request
    contest,    \* two creates were in progress together
    torn,       \* a create failed, or a crash hit a create or a delete
    lost        \* an insert was acknowledged and its rows are nowhere

disk == <<path, files, meta>>
call == <<op, home, overwrite>>
local == <<handle, tries>>
history == <<created, overlap, contest, torn, lost>>
vars == <<disk, datasets, turn, pc, call, local, history>>

Gens == 0 .. MaxGen
Phases == {"idle", "clean", "rmdir", "create", "store", "load", "commit",
           "rmtree", "rmrest", "rmroot", "reply"}

TypeOK ==
    /\ path \in BOOLEAN /\ files \in Gens /\ meta \in Gens
    /\ datasets \in [Workers -> Gens]
    /\ turn \in [Workers -> Tasks \cup {NoTask}]
    /\ pc \in [Tasks -> Phases]
    /\ op \in [Tasks -> {"create", "read", "insert", "delete"}]
    /\ home \in [Tasks -> Workers]
    /\ overwrite \in [Tasks -> BOOLEAN]
    /\ handle \in [Tasks -> Gens]
    /\ tries \in [Tasks -> 0 .. LoadAttempts]
    /\ created \in Gens
    /\ overlap \in BOOLEAN /\ contest \in BOOLEAN
    /\ torn \in BOOLEAN /\ lost \in BOOLEAN

Busy(t) == pc[t] # "idle"
Lifecycle(t) == op[t] \in {"create", "delete"}
Destroys(t) == Busy(t) /\ (op[t] = "delete" \/ overwrite[t])

Init ==
    /\ path = FALSE /\ files = 0 /\ meta = 0
    /\ datasets = [w \in Workers |-> 0]
    /\ turn = [w \in Workers |-> NoTask]
    /\ pc = [t \in Tasks |-> "idle"]
    /\ op = [t \in Tasks |-> "read"]
    /\ home \in [Tasks -> Workers]
    /\ overwrite = [t \in Tasks |-> FALSE]
    /\ handle = [t \in Tasks |-> 0]
    /\ tries = [t \in Tasks |-> 0]
    /\ created = 0
    /\ overlap = FALSE /\ contest = FALSE
    /\ torn = FALSE /\ lost = FALSE

-----------------------------------------------------------------------------
(* Steps of a request t on the event loop of its worker.                    *)

LoopFree(w, t) == turn[w] \in {t, NoTask}

Goto(t, phase) == pc' = [pc EXCEPT ![t] = phase]

(* A response, or an exception that becomes one: the request is over.       *)
Finish(t) ==
    /\ Goto(t, "idle")
    /\ overwrite' = [overwrite EXCEPT ![t] = FALSE]
    /\ handle' = [handle EXCEPT ![t] = 0]
    /\ tries' = [tries EXCEPT ![t] = 0]
    /\ UNCHANGED <<op, home>>

(* A request arrives in slot t of worker w; its first step takes it to      *)
(* phase, holding the handle h.                                             *)
Arrive(t, w, kind, ow, phase, h) ==
    /\ ~Busy(t)
    /\ turn[w] = NoTask
    /\ Goto(t, phase)
    /\ op' = [op EXCEPT ![t] = kind]
    /\ home' = [home EXCEPT ![t] = w]
    /\ overwrite' = [overwrite EXCEPT ![t] = ow]
    /\ handle' = [handle EXCEPT ![t] = h]
    /\ overlap' = (overlap \/ \E u \in Tasks \ {t} :
                      Busy(u) /\ (Lifecycle(u) \/ kind \in {"create", "delete"}))
    /\ contest' = (contest \/ (kind = "create" /\ \E u \in Tasks \ {t} :
                                  Busy(u) /\ op[u] = "create"))
    /\ UNCHANGED <<tries, created, torn, lost>>

\* Mutant of CreateCheck: a name already taken is not refused.
CreateCheckTakesAll(t, w) ==
    \E ow \in BOOLEAN :
        /\ Arrive(t, w, "create", ow, "clean", 0)
        /\ turn' = [turn EXCEPT ![w] = t]
        /\ UNCHANGED <<disk, datasets>>

(* create_dataset: the check that refuses a name already taken.  A request  *)
(* that is refused leaves no trace.                                         *)
CreateCheck(t, w) ==
    \E ow \in BOOLEAN :
        /\ ~path \/ ow
        /\ Arrive(t, w, "create", ow, "clean", 0)
        /\ turn' = [turn EXCEPT ![w] = t]
        /\ UNCHANGED <<disk, datasets>>

(* The second os.path.exists and the rmtree of whatever is there, errors    *)
(* ignored: unlink the files here, the directory in CreateCleanRoot.        *)
CreateClean(t) ==
    /\ pc[t] = "clean" /\ turn[home[t]] = t
    /\ \/ /\ path
          /\ files' = 0 /\ meta' = 0
          /\ Goto(t, "rmdir")
          /\ UNCHANGED turn
       \/ /\ ~path
          /\ Goto(t, "create")
          /\ turn' = [turn EXCEPT ![home[t]] = NoTask]
          /\ UNCHANGED <<files, meta>>
    /\ UNCHANGED <<path, datasets, call, local, history>>

(* rmdir of a directory: only an empty one goes.                            *)
RemoveRoot ==
    /\ path' = (path /\ (files # 0 \/ meta # 0))
    /\ UNCHANGED <<files, meta>>

CreateCleanRoot(t) ==
    /\ pc[t] = "rmdir" /\ turn[home[t]] = t
    /\ RemoveRoot
    /\ Goto(t, "create")
    /\ turn' = [turn EXCEPT ![home[t]] = NoTask]
    /\ UNCHANGED <<datasets, call, local, history>>

(* deeplake.create in an executor thread.  The library refuses a path that  *)
(* already holds a dataset and may fail for reasons of its own.             *)
ExecCreate(t) ==
    /\ pc[t] = "create"
    /\ files = 0
    /\ created < MaxGen
    /\ created' = created + 1
    /\ path' = TRUE
    /\ files' = created + 1
    /\ handle' = [handle EXCEPT ![t] = created + 1]
    /\ Goto(t, "store")
    /\ UNCHANGED <<meta, datasets, turn, call, tries, overlap, contest, torn, lost>>

ExecCreateFails(t) ==
    /\ pc[t] = "create"
    /\ Goto(t, "reply")
    /\ torn' = TRUE
    /\ UNCHANGED <<disk, datasets, turn, call, local, created, overlap, contest, lost>>

\* Mutant of CreateStore: the new handle is not cached.
CreateStoreKeepsHandle(t) ==
    /\ pc[t] = "store" /\ LoopFree(home[t], t)
    /\ path
    /\ meta' = handle[t]
    /\ Finish(t)
    /\ UNCHANGED <<path, files, datasets, turn, history>>

(* Back on the loop: write dataset_metadata.json, cache the handle, answer. *)
CreateStore(t) ==
    /\ pc[t] = "store" /\ LoopFree(home[t], t)
    /\ path
    /\ meta' = handle[t]
    /\ datasets' = [datasets EXCEPT ![home[t]] = handle[t]]
    /\ Finish(t)
    /\ UNCHANGED <<path, files, turn, history>>

(* open(..., "w") raises: the directory is gone, or the disk is full.  The  *)
(* handle is not cached and what was created stays.                         *)
CreateStoreFails(t) ==
    /\ pc[t] = "store" /\ LoopFree(home[t], t)
    /\ Finish(t)
    /\ torn' = TRUE
    /\ UNCHANGED <<disk, datasets, turn, created, overlap, contest, lost>>

-----------------------------------------------------------------------------
(* get_dataset and every operation that only reads rows are "read",         *)
(* insert_vectors is "insert".  They begin the same way: the path must      *)
(* exist, and a worker with no handle loads one.                            *)

UseStart(t, w) ==
    \E kind \in {"read", "insert"} :
        /\ path
        /\ \/ /\ datasets[w] = 0
              /\ Arrive(t, w, kind, FALSE, "load", 0)
           \/ /\ datasets[w] # 0
              /\ Arrive(t, w, kind, FALSE,
                        IF kind = "insert" THEN "commit" ELSE "reply", datasets[w])
        /\ UNCHANGED <<disk, datasets, turn>>

(* deeplake.open in an executor thread.                                     *)
ExecLoad(t) ==
    /\ pc[t] = "load" /\ handle[t] = 0
    /\ files # 0
    /\ handle' = [handle EXCEPT ![t] = files]
    /\ UNCHANGED <<disk, datasets, turn, pc, call, tries, history>>

\* Mutants of ExecLoadFails: no attempt is counted; one attempt too many.
ExecLoadFailsForever(t) ==
    /\ pc[t] = "load" /\ handle[t] = 0
    /\ UNCHANGED vars

ExecLoadFailsOnceMore(t) ==
    /\ pc[t] = "load" /\ handle[t] = 0
    /\ tries' = [tries EXCEPT ![t] = tries[t] + 1]
    /\ Goto(t, IF tries[t] > LoadAttempts THEN "reply" ELSE "load")
    /\ UNCHANGED <<disk, datasets, turn, call, handle, history>>

(* It raises; _load_dataset makes LoadAttempts attempts in all.             *)
ExecLoadFails(t) ==
    /\ pc[t] = "load" /\ handle[t] = 0
    /\ tries[t] < LoadAttempts
    /\ tries' = [tries EXCEPT ![t] = tries[t] + 1]
    /\ Goto(t, IF tries[t] + 1 = LoadAttempts THEN "reply" ELSE "load")
    /\ UNCHANGED <<disk, datasets, turn, call, handle, history>>

(* The coroutine resumes with the handle and stores it in self.datasets.    *)
(* An insert appends its rows to the handle here and goes on to commit.     *)
LoadStore(t) ==
    /\ pc[t] = "load" /\ handle[t] # 0 /\ LoopFree(home[t], t)
    /\ datasets' = [datasets EXCEPT ![home[t]] = handle[t]]
    /\ Goto(t, IF op[t] = "insert" THEN "commit" ELSE "reply")
    /\ UNCHANGED <<disk, turn, call, local, history>>

(* dataset.commit in an executor thread.  What it does when the files it    *)
(* was opened on are gone or replaced is the library's affair: it may       *)
(* report success, and the rows are then in no dataset.                     *)
ExecCommit(t) ==
    /\ pc[t] = "commit"
    /\ lost' = (lost \/ files # handle[t])
    /\ Goto(t, "reply")
    /\ UNCHANGED <<disk, datasets, turn, call, local, created, overlap, contest, torn>>

ExecCommitFails(t) ==
    /\ pc[t] = "commit"
    /\ Goto(t, "reply")
    /\ UNCHANGED <<disk, datasets, turn, call, local, history>>

-----------------------------------------------------------------------------
(* delete_dataset: drop this worker's handle, then rmtree in an executor.   *)

DeleteStart(t, w) ==
    /\ path
    /\ Arrive(t, w, "delete", FALSE, "rmtree", 0)
    /\ datasets' = [datasets EXCEPT ![w] = 0]
    /\ UNCHANGED <<disk, turn>>

(* rmtree unlinks the entries in the order scandir yields them: some of     *)
(* them here, the others in ExecUnlinkRest.  It raises if the path is gone. *)
ExecUnlinkSome(t) ==
    /\ pc[t] = "rmtree"
    /\ \/ files' = 0 /\ meta' = meta
       \/ meta' = 0 /\ files' = files
    /\ Goto(t, IF path THEN "rmrest" ELSE "reply")
    /\ UNCHANGED <<path, datasets, turn, call, local, history>>

ExecUnlinkRest(t) ==
    /\ pc[t] = "rmrest"
    /\ files' = 0 /\ meta' = 0
    /\ Goto(t, "rmroot")
    /\ UNCHANGED <<path, datasets, turn, call, local, history>>

(* The directory goes last; rmdir raises when files appeared meanwhile.     *)
ExecRmRoot(t) ==
    /\ pc[t] = "rmroot"
    /\ RemoveRoot
    /\ Goto(t, "reply")
    /\ UNCHANGED <<datasets, turn, call, local, history>>

(* The executor call is over, the coroutine resumes and answers.            *)
Reply(t) ==
    /\ pc[t] = "reply" /\ LoopFree(home[t], t)
    /\ Finish(t)
    /\ UNCHANGED <<disk, datasets, turn, history>>

(* The process dies and is started again: an empty self.datasets, and the   *)
(* requests it was serving are gone.                                        *)
Restart(w) ==
    LET killed == {t \in Tasks : home[t] = w} IN
    /\ datasets' = [datasets EXCEPT ![w] = 0]
    /\ turn' = [turn EXCEPT ![w] = NoTask]
    /\ pc' = [t \in Tasks |-> IF t \in killed THEN "idle" ELSE pc[t]]
    /\ overwrite' = [t \in Tasks |-> t \notin killed /\ overwrite[t]]
    /\ handle' = [t \in Tasks |-> IF t \in killed THEN 0 ELSE handle[t]]
    /\ tries' = [t \in Tasks |-> IF t \in killed THEN 0 ELSE tries[t]]
    /\ torn' = (torn \/ \E t \in killed : Busy(t) /\ Lifecycle(t))
    /\ UNCHANGED <<disk, op, home, created, overlap, contest, lost>>

-----------------------------------------------------------------------------
Executor(t) ==
    \/ ExecCreate(t) \/ ExecCreateFails(t)
    \/ ExecLoad(t) \/ ExecLoadFails(t)
    \/ ExecCommit(t) \/ ExecCommitFails(t)
    \/ ExecUnlinkSome(t) \/ ExecUnlinkRest(t) \/ ExecRmRoot(t)

Resume(t) ==
    \/ CreateClean(t) \/ CreateCleanRoot(t)
    \/ CreateStore(t) \/ CreateStoreFails(t)
    \/ LoadStore(t) \/ Reply(t)

Begin(t, w) == CreateCheck(t, w) \/ UseStart(t, w) \/ DeleteStart(t, w)

Next ==
    \/ \E t \in Tasks : Executor(t) \/ Resume(t)
    \/ \E t \in Tasks, w \in Workers : Begin(t, w)
    \/ \E w \in Workers : Restart(w)

Spec == Init /\ [][Next]_vars

(* Executor jobs finish, and asyncio's ready queue is first in, first out:  *)
(* a coroutine that is ready again and again is resumed.                    *)
FairSpec == Spec /\ \A t \in Tasks : WF_vars(Executor(t)) /\ SF_vars(Resume(t))

-----------------------------------------------------------------------------
(* Properties                                                               *)

Quiet == \A t \in Tasks : ~(Busy(t) /\ Lifecycle(t))

(* When creates and deletes have never met another request, and none of     *)
(* them failed halfway, every handle in self.datasets is a handle on the    *)
(* dataset that is in the directory, and dataset_metadata.json describes    *)
(* that dataset: search, get and insert all go through this pair.           *)
HandleFresh ==
    (~overlap /\ ~torn /\ Quiet /\ path) =>
        /\ files # 0
        /\ meta = files
        /\ \A w \in Workers : datasets[w] \in {0, files}

(* Under the same conditions no insert is acknowledged whose rows went to a *)
(* dataset that is no longer in the directory.                              *)
NoLostInsert == (~overlap /\ ~torn) => ~lost

(* The files of a dataset leave the directory only while a delete, or a     *)
(* create that asked to overwrite, is in progress, as long as no two        *)
(* creates of the name were ever in progress together: a create without     *)
(* overwrite is refused before its cleanup reaches a dataset.               *)
CleanupSparesOthers ==
    [][(files # 0 /\ files' # files)
          => (contest \/ \E t \in Tasks : Destroys(t))]_vars

(* The same for creates that may meet.                                      *)
CreateNeverDestroys ==
    [][(files # 0 /\ files' # files)
          => \E t \in Tasks : Destroys(t)]_vars

(* Every request ends, whatever the executor jobs return: the retries of    *)
(* _load_dataset are bounded and no coroutine keeps the event loop.         *)
EveryRequestEnds == \A t \in Tasks : Busy(t) ~> ~Busy(t)
=============================================================================
