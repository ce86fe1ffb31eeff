----------------------- MODULE DatasetDirectoryProofs -----------------------
(***************************************************************************)
(* Proofs about DatasetDirectory, for every number of request slots, load  *)
(* attempts and generations.                                               *)
(***************************************************************************)
EXTENDS DatasetDirectory, TLAPS

(***************************************************************************)
(* The strengthening of HandleFresh and NoLostInsert.  Alone: as long as   *)
(* overlap is FALSE a create or delete in progress is the only request.    *)
(* PhaseOp: which kind of request each phase belongs to.  Settled: what    *)
(* the directory and the handles look like between lifecycle requests.     *)
(* Steady: what each phase of a request finds on disk.                     *)
(***************************************************************************)
Alone ==
    ~overlap => \A t, u \in Tasks :
        (t # u /\ Busy(t) /\ Lifecycle(t)) => ~Busy(u)

PhaseOp ==
    \A t \in Tasks :
        /\ pc[t] \in {"clean", "rmdir", "create", "store"} => op[t] = "create"
        /\ pc[t] \in {"load", "commit"} => ~Lifecycle(t)
        /\ pc[t] \in {"rmtree", "rmrest", "rmroot"} => op[t] = "delete"

Emptied == files = 0 /\ meta = 0

Settled ==
    /\ path => /\ files # 0
               /\ meta = files
               /\ \A w \in Workers : datasets[w] \in {0, files}
    /\ ~path => Emptied

OnDisk(t) ==
    /\ pc[t] \in {"clean", "rmtree"} => Settled
    /\ pc[t] \in {"rmtree", "rmrest"} => path
    /\ pc[t] \in {"rmdir", "rmroot"} => Emptied
    /\ pc[t] = "create" => Emptied /\ ~path
    /\ pc[t] = "store" => path /\ files = handle[t] /\ files # 0
    /\ pc[t] = "reply" /\ op[t] = "delete" => Emptied /\ ~path
    /\ pc[t] = "reply" => op[t] # "create"
    /\ pc[t] \in {"load", "commit"} => path
    /\ pc[t] = "load" => handle[t] \in {0, files}
    /\ pc[t] = "commit" => handle[t] = files

Steady ==
    (~overlap /\ ~torn) =>
        /\ ~lost
        /\ Quiet => Settled
        /\ \A t \in Tasks : OnDisk(t)

IInv == TypeOK /\ Alone /\ PhaseOp /\ Steady

-----------------------------------------------------------------------------
(* Type correctness.                                                        *)

LEMMA InitType == Init => TypeOK
<1>1. 0 \in Gens /\ 0 \in 0 .. LoadAttempts
  BY DirectoryAssumption DEF Gens
<1>2. SUFFICES ASSUME Init PROVE TypeOK
  OBVIOUS
<1>3. /\ path \in BOOLEAN /\ overlap \in BOOLEAN /\ contest \in BOOLEAN
      /\ torn \in BOOLEAN /\ lost \in BOOLEAN
  BY <1>2, Zenon DEF Init
<1>4. /\ datasets \in [Workers -> Gens]
      /\ turn \in [Workers -> Tasks \cup {NoTask}]
      /\ pc \in [Tasks -> Phases]
      /\ op \in [Tasks -> {"create", "read", "insert", "delete"}]
      /\ home \in [Tasks -> Workers]
      /\ handle \in [Tasks -> Gens]
      /\ tries \in [Tasks -> 0 .. LoadAttempts]
  BY <1>1, <1>2 DEF Init, Phases
<1>5. overwrite \in [Tasks -> BOOLEAN]
  BY <1>2 DEF Init
<1>6. QED
  BY <1>1, <1>2, <1>3, <1>4, <1>5 DEF Init, TypeOK

LEMMA BeginType ==
    ASSUME TypeOK, NEW t \in Tasks, NEW w \in Workers, Begin(t, w)
    PROVE  TypeOK'
<1> USE DirectoryAssumption DEF TypeOK, Phases, Gens, Arrive, Goto, disk
<1>1. CASE CreateCheck(t, w)
  BY <1>1 DEF CreateCheck
<1>2. CASE UseStart(t, w)
  <2>1. PICK kind \in {"read", "insert"}, phase \in {"load", "commit", "reply"} :
            /\ Arrive(t, w, kind, FALSE, phase, datasets[w])
            /\ UNCHANGED <<disk, datasets, turn>>
    BY <1>2, SMT DEF UseStart
  <2>2. QED
    BY <2>1
<1>3. CASE DeleteStart(t, w)
  BY <1>3 DEF DeleteStart
<1>4. QED
  BY <1>1, <1>2, <1>3 DEF Begin

LEMMA ResumeType ==
    ASSUME TypeOK, NEW t \in Tasks, Resume(t)
    PROVE  TypeOK'
<1> USE DirectoryAssumption
    DEF TypeOK, Phases, Gens, Goto, Finish, RemoveRoot,
        disk, call, local, history
<1>1. CASE CreateClean(t)
  BY <1>1 DEF CreateClean
<1>2. CASE CreateCleanRoot(t)
  BY <1>2 DEF CreateCleanRoot
<1>3. CASE CreateStore(t)
  BY <1>3 DEF CreateStore
<1>4. CASE CreateStoreFails(t)
  BY <1>4 DEF CreateStoreFails
<1>5. CASE LoadStore(t)
  BY <1>5 DEF LoadStore
<1>6. CASE Reply(t)
  BY <1>6 DEF Reply
<1>7. QED
  BY <1>1, <1>2, <1>3, <1>4, <1>5, <1>6 DEF Resume

LEMMA ExecutorType ==
    ASSUME TypeOK, NEW t \in Tasks, Executor(t)
    PROVE  TypeOK'
<1> USE DirectoryAssumption
    DEF TypeOK, Phases, Gens, Goto, RemoveRoot,
        disk, call, local, history
<1>1. CASE ExecCreate(t)
  BY <1>1 DEF ExecCreate
<1>2. CASE ExecCreateFails(t)
  BY <1>2 DEF ExecCreateFails
<1>3. CASE ExecLoad(t)
  BY <1>3 DEF ExecLoad
<1>4. CASE ExecLoadFails(t)
  BY <1>4 DEF ExecLoadFails
<1>5. CASE ExecCommit(t)
  BY <1>5 DEF ExecCommit
<1>6. CASE ExecCommitFails(t)
  BY <1>6 DEF ExecCommitFails
<1>7. CASE ExecUnlinkSome(t)
  BY <1>7 DEF ExecUnlinkSome
<1>8. CASE ExecUnlinkRest(t)
  BY <1>8 DEF ExecUnlinkRest
<1>9. CASE ExecRmRoot(t)
  BY <1>9 DEF ExecRmRoot
<1>10. QED
  BY <1>1, <1>2, <1>3, <1>4, <1>5, <1>6, <1>7, <1>8, <1>9 DEF Executor

LEMMA RestartType ==
    ASSUME TypeOK, NEW w \in Workers, Restart(w)
    PROVE  TypeOK'
  BY DirectoryAssumption DEF TypeOK, Phases, Gens, Restart, disk

(* Every variable keeps its type, whatever the interleaving.                *)
THEOREM TypeCorrect == Spec => []TypeOK
<1>1. TypeOK /\ [Next]_vars => TypeOK'
  <2> SUFFICES ASSUME TypeOK, [Next]_vars PROVE TypeOK'
    OBVIOUS
  <2>1. CASE UNCHANGED vars
    BY <2>1 DEF vars, disk, call, local, history, TypeOK
  <2>2. CASE Next
    BY <2>2, BeginType, ResumeType, ExecutorType, RestartType DEF Next
  <2>3. QED
    BY <2>1, <2>2
<1>2. QED
  BY InitType, <1>1, PTL DEF Spec

-----------------------------------------------------------------------------
(* Alone and PhaseOp: which requests can be in progress together, and what  *)
(* their phases say about their kind.                                       *)

LEMMA InitShape == Init => Alone /\ PhaseOp
  BY DEF Init, Alone, PhaseOp, Busy, Lifecycle

LEMMA BeginShape ==
    ASSUME TypeOK, Alone, PhaseOp, NEW t \in Tasks, NEW w \in Workers, Begin(t, w)
    PROVE  Alone' /\ PhaseOp'
<1>1. PICK kind \in {"create", "read", "insert", "delete"}, ow \in BOOLEAN,
           phase \in Phases, h \in Gens :
        /\ Arrive(t, w, kind, ow, phase, h)
        /\ \/ kind = "create" /\ phase = "clean"
           \/ kind \in {"read", "insert"} /\ phase \in {"load", "commit", "reply"}
           \/ kind = "delete" /\ phase = "rmtree"
  <2> USE DirectoryAssumption DEF Gens, Phases
  <2>1. CASE CreateCheck(t, w)
    <3>1. PICK ow \in BOOLEAN : Arrive(t, w, "create", ow, "clean", 0)
      BY <2>1 DEF CreateCheck
    <3>2. QED
      BY <3>1
  <2>2. CASE UseStart(t, w)
    <3>1. datasets[w] \in Gens
      BY DEF TypeOK
    <3>2. PICK kind \in {"read", "insert"}, phase \in {"load", "commit", "reply"} :
              Arrive(t, w, kind, FALSE, phase, datasets[w])
      BY <2>2, Zenon DEF UseStart
    <3>3. QED
      BY <3>1, <3>2, Zenon
  <2>3. CASE DeleteStart(t, w)
    <3>1. Arrive(t, w, "delete", FALSE, "rmtree", 0)
      BY <2>3 DEF DeleteStart
    <3>2. 0 \in Gens
      OBVIOUS
    <3>3. QED
      BY <3>1, <3>2, Zenon
  <2>4. QED
    BY <2>1, <2>2, <2>3 DEF Begin
<1>2. /\ pc[t] = "idle" /\ pc' = [pc EXCEPT ![t] = phase]
      /\ op' = [op EXCEPT ![t] = kind]
      /\ ~overlap' => ~overlap /\ \A u \in Tasks \ {t} :
            pc[u] # "idle" =>
                op[u] \notin {"create", "delete"} /\ kind \notin {"create", "delete"}
  BY <1>1 DEF Arrive, Goto, Busy, Lifecycle
<1>3. Alone'
  BY <1>2 DEF Alone, TypeOK, Busy, Lifecycle
<1>4. PhaseOp'
  BY <1>1, <1>2 DEF PhaseOp, TypeOK, Lifecycle
<1>5. QED
  BY <1>3, <1>4

LEMMA RunningShape ==
    ASSUME TypeOK, Alone, PhaseOp, NEW t \in Tasks, Executor(t) \/ Resume(t)
    PROVE  Alone' /\ PhaseOp'
<1>1. /\ pc[t] # "idle"
      /\ overlap' = overlap
      /\ op' = op
      /\ \A u \in Tasks \ {t} : pc'[u] = pc[u]
  <2>1. CASE Executor(t)
    BY <2>1 DEF Executor, TypeOK, ExecCreate, ExecCreateFails, ExecLoad,
       ExecLoadFails, ExecCommit, ExecCommitFails, ExecUnlinkSome,
       ExecUnlinkRest, ExecRmRoot, Goto, call, history
  <2>2. CASE Resume(t)
    BY <2>2 DEF Resume, TypeOK, CreateClean, CreateCleanRoot, CreateStore,
       CreateStoreFails, LoadStore, Reply, Goto, Finish, call, history
  <2>3. QED
    BY <2>1, <2>2
<1>2. Alone'
  BY <1>1 DEF Alone, Busy, Lifecycle, TypeOK
<1>3. \/ pc'[t] \in {pc[t], "idle", "reply"}
      \/ pc[t] = "clean" /\ pc'[t] \in {"rmdir", "create"}
      \/ pc[t] = "rmdir" /\ pc'[t] = "create"
      \/ pc[t] = "create" /\ pc'[t] = "store"
      \/ pc[t] = "load" /\ pc'[t] = "commit"
      \/ pc[t] = "rmtree" /\ pc'[t] = "rmrest"
      \/ pc[t] = "rmrest" /\ pc'[t] = "rmroot"
  <2>1. CASE Executor(t)
    BY <2>1 DEF Executor, TypeOK, ExecCreate, ExecCreateFails, ExecLoad,
       ExecLoadFails, ExecCommit, ExecCommitFails, ExecUnlinkSome,
       ExecUnlinkRest, ExecRmRoot, Goto
  <2>2. CASE Resume(t)
    BY <2>2 DEF Resume, TypeOK, CreateClean, CreateCleanRoot, CreateStore,
       CreateStoreFails, LoadStore, Reply, Goto, Finish
  <2>3. QED
    BY <2>1, <2>2
<1>4. PhaseOp'
  BY <1>1, <1>3 DEF PhaseOp, Lifecycle
<1>5. QED
  BY <1>2, <1>4

LEMMA RestartShape ==
    ASSUME TypeOK, Alone, PhaseOp, NEW w \in Workers, Restart(w)
    PROVE  Alone' /\ PhaseOp'
  BY DEF TypeOK, Alone, PhaseOp, Busy, Lifecycle, Restart

-----------------------------------------------------------------------------
(* Steady.  Two facts carry every case: while a create or delete is in      *)
(* progress and overlap is FALSE, all other requests are idle; and the only *)
(* worker is the one whose handle the request sets or drops.                *)

LEMMA InitSteady == Init => Steady
  BY DEF Init, Steady, Settled, OnDisk, Emptied

LEMMA OthersIdle ==
    ASSUME TypeOK, Alone, ~overlap, NEW t \in Tasks, Busy(t), Lifecycle(t)
    PROVE  \A u \in Tasks \ {t} : pc[u] = "idle"
  BY DEF Alone, Busy

LEMMA BeginSteady ==
    ASSUME IInv, NEW t \in Tasks, NEW w \in Workers, Workers = {w}, Begin(t, w)
    PROVE  Steady'
<1> SUFFICES ASSUME ~overlap', ~torn' PROVE
       ~lost' /\ (Quiet => Settled)' /\ \A u \in Tasks : OnDisk(u)'
  BY DEF Steady
<1>1. PICK kind, ow, phase, h :
         Arrive(t, w, kind, ow, phase, h) /\ UNCHANGED disk
  BY Zenon DEF Begin, CreateCheck, UseStart, DeleteStart
<1>2. /\ pc[t] = "idle"
      /\ \A u \in Tasks \ {t} : pc'[u] = pc[u] /\ op'[u] = op[u] /\ handle'[u] = handle[u]
      /\ ~overlap /\ ~torn /\ UNCHANGED <<lost, path, files, meta>>
  BY <1>1 DEF Arrive, Goto, Busy, IInv, TypeOK, disk
<1>3. ~lost /\ (Quiet => Settled) /\ \A u \in Tasks : OnDisk(u)
  BY <1>2 DEF IInv, Steady
<1>4. CASE UseStart(t, w)
  <2>1. UNCHANGED datasets
    BY <1>4 DEF UseStart
  <2>2. path /\ (pc'[t] = "load" => handle'[t] = 0)
             /\ (pc'[t] \in {"commit", "reply"} => handle'[t] = datasets[w] /\ datasets[w] # 0)
             /\ pc'[t] \in {"load", "commit", "reply"}
             /\ op'[t] \in {"read", "insert"}
    BY <1>4 DEF UseStart, Arrive, Goto, IInv, TypeOK
  <2>3. \A u \in Tasks \ {t} : Busy(u) => ~Lifecycle(u)
    BY <1>4, <1>2 DEF UseStart, Arrive
  <2>4. Quiet
    BY <1>2, <2>3 DEF Quiet, Busy
  <2>5. Settled /\ Settled'
    BY <1>2, <1>3, <2>1, <2>4 DEF Settled, Emptied
  <2>6. OnDisk(t)'
    BY <1>2, <2>2, <2>5 DEF OnDisk, Settled
  <2>7. \A u \in Tasks \ {t} : OnDisk(u)'
    BY <1>2, <1>3, <2>5 DEF OnDisk, Emptied
  <2>8. QED
    BY <1>2, <1>3, <2>5, <2>6, <2>7
<1>5. CASE CreateCheck(t, w) \/ DeleteStart(t, w)
  <2>1. op'[t] \in {"create", "delete"} /\ pc'[t] \in {"clean", "rmtree"}
        /\ (pc'[t] = "rmtree" => path)
    BY <1>5 DEF CreateCheck, DeleteStart, Arrive, Goto, IInv, TypeOK
  <2>2. \A u \in Tasks : pc[u] = "idle"
    BY <1>5, <1>2 DEF CreateCheck, DeleteStart, Arrive, Busy
  <2>3. Settled
    BY <1>3, <2>2 DEF Quiet, Busy
  <2>4. datasets' = datasets \/ datasets' = [datasets EXCEPT ![w] = 0]
    BY <1>5 DEF CreateCheck, DeleteStart
  <2>5. Settled'
    BY <1>2, <2>3, <2>4 DEF Settled, Emptied, IInv, TypeOK
  <2>6. ~Quiet'
    BY <2>1 DEF Quiet, Busy, Lifecycle
  <2>7. \A u \in Tasks : OnDisk(u)'
    BY <1>2, <2>1, <2>2, <2>5 DEF OnDisk
  <2>8. QED
    BY <1>2, <1>3, <2>6, <2>7
<1>6. QED
  BY <1>4, <1>5 DEF Begin

(* Steps of a lifecycle request: everything else is idle, so only its own   *)
(* phase and the state of the directory matter.                             *)
LEMMA LifecycleSteady ==
    ASSUME IInv, NEW t \in Tasks, NEW w \in Workers, Workers = {w},
           Lifecycle(t), Executor(t) \/ Resume(t)
    PROVE  Steady'
<1> SUFFICES ASSUME ~overlap', ~torn' PROVE
       ~lost' /\ (Quiet => Settled)' /\ \A u \in Tasks : OnDisk(u)'
  BY DEF Steady
<1>1. /\ pc[t] # "idle" /\ ~overlap /\ ~torn /\ op' = op
      /\ pc[t] \notin {"load", "commit"}
      /\ \A u \in Tasks \ {t} : pc'[u] = pc[u]
  <2>1. CASE Executor(t)
    BY <2>1 DEF IInv, PhaseOp, Executor, TypeOK, ExecCreate, ExecCreateFails,
       ExecLoad, ExecLoadFails, ExecCommit, ExecCommitFails, ExecUnlinkSome,
       ExecUnlinkRest, ExecRmRoot, Goto, call, history
  <2>2. CASE Resume(t)
    BY <2>2 DEF IInv, PhaseOp, Resume, TypeOK, CreateClean, CreateCleanRoot,
       CreateStore, CreateStoreFails, LoadStore, Reply, Goto, Finish, call, history
  <2>3. QED
    BY <2>1, <2>2
<1>2. \A u \in Tasks \ {t} : pc'[u] = "idle"
  BY <1>1, OthersIdle DEF IInv, Busy
<1>3. ~lost /\ OnDisk(t)
  BY <1>1 DEF IInv, Steady
<1>4. SUFFICES ~lost' /\ (pc'[t] = "idle" => Settled') /\ OnDisk(t)'
  BY <1>1, <1>2 DEF Quiet, OnDisk, Busy, Lifecycle
<1> USE DEF OnDisk, Settled, Emptied, disk, call, local, history
<1>5. CASE CreateClean(t)
  BY <1>5, <1>1, <1>3 DEF CreateClean, Goto, IInv, TypeOK
<1>6. CASE CreateCleanRoot(t)
  BY <1>6, <1>1, <1>3 DEF CreateCleanRoot, RemoveRoot, Goto, IInv, TypeOK
<1>7. CASE ExecCreate(t)
  BY <1>7, <1>1, <1>3 DEF ExecCreate, Goto, IInv, TypeOK, Gens
<1>8. CASE CreateStore(t)
  BY <1>8, <1>1, <1>3 DEF CreateStore, Finish, Goto, IInv, TypeOK
<1>9. CASE ExecCreateFails(t) \/ CreateStoreFails(t)
  BY <1>9 DEF ExecCreateFails, CreateStoreFails
<1>10. CASE ExecUnlinkSome(t)
  BY <1>10, <1>1, <1>3 DEF ExecUnlinkSome, Goto, IInv, TypeOK
<1>11. CASE ExecUnlinkRest(t)
  BY <1>11, <1>1, <1>3 DEF ExecUnlinkRest, Goto, IInv, TypeOK
<1>12. CASE ExecRmRoot(t)
  BY <1>12, <1>1, <1>3 DEF ExecRmRoot, RemoveRoot, Goto, IInv, TypeOK, PhaseOp
<1>13. CASE Reply(t)
  BY <1>13, <1>1, <1>3 DEF Reply, Finish, Goto, IInv, TypeOK, Lifecycle
<1>14. ~(ExecLoad(t) \/ ExecLoadFails(t) \/ ExecCommit(t) \/ ExecCommitFails(t)
         \/ LoadStore(t))
  BY <1>1 DEF ExecLoad, ExecLoadFails, ExecCommit, ExecCommitFails, LoadStore
<1>15. QED
  BY <1>5, <1>6, <1>7, <1>8, <1>9, <1>10, <1>11, <1>12, <1>13, <1>14
     DEF Executor, Resume

(* Steps of a request that uses a handle: the directory does not change.    *)
LEMMA UseSteady ==
    ASSUME IInv, NEW t \in Tasks, NEW w \in Workers, Workers = {w},
           ~Lifecycle(t), Executor(t) \/ Resume(t)
    PROVE  Steady'
<1> SUFFICES ASSUME ~overlap', ~torn' PROVE
       ~lost' /\ (Quiet => Settled)' /\ \A u \in Tasks : OnDisk(u)'
  BY DEF Steady
<1> USE DEF disk, call, local, history
<1>1. pc[t] \in {"load", "commit", "reply"}
  BY DEF IInv, PhaseOp, Lifecycle, Executor, ExecCreate, ExecCreateFails,
     ExecLoad, ExecLoadFails, ExecCommit, ExecCommitFails, ExecUnlinkSome,
     ExecUnlinkRest, ExecRmRoot, Resume, CreateClean, CreateCleanRoot,
     CreateStore, CreateStoreFails, LoadStore, Reply
<1>2. \/ ExecLoad(t) \/ ExecLoadFails(t) \/ ExecCommit(t) \/ ExecCommitFails(t)
      \/ LoadStore(t) \/ Reply(t)
  BY <1>1 DEF Executor, ExecCreate, ExecCreateFails, ExecUnlinkSome,
     ExecUnlinkRest, ExecRmRoot, Resume, CreateClean, CreateCleanRoot,
     CreateStore, CreateStoreFails
<1>3. /\ UNCHANGED <<path, files, meta, op>> /\ ~overlap /\ ~torn
      /\ \A u \in Tasks \ {t} : pc'[u] = pc[u] /\ handle'[u] = handle[u]
      /\ pc'[t] \in {"load", "commit", "reply", "idle"}
  BY <1>2, <1>1 DEF ExecLoad, ExecLoadFails, ExecCommit, ExecCommitFails,
     LoadStore, Reply, Finish, Goto, IInv, TypeOK
<1>4. ~lost /\ (Quiet => Settled) /\ \A u \in Tasks : OnDisk(u)
  BY <1>3 DEF IInv, Steady
<1>5. Quiet' => Quiet
  BY <1>3 DEF Quiet, Busy, Lifecycle
<1>6. \A u \in Tasks \ {t} : Busy(u) => ~Lifecycle(u)
  BY <1>1, <1>3 DEF IInv, Alone, Busy
<1>7. Quiet
  BY <1>6 DEF Quiet
<1>8. Settled'
  <2>1. datasets' = datasets \/
        (path /\ handle[t] = files /\ datasets' = [datasets EXCEPT ![home[t]] = handle[t]])
    BY <1>2, <1>4 DEF ExecLoad, ExecLoadFails, ExecCommit, ExecCommitFails,
       LoadStore, Reply, OnDisk
  <2>2. QED
    BY <2>1, <1>3, <1>4, <1>7 DEF Settled, Emptied, IInv, TypeOK
<1>9. OnDisk(t)'
  BY <1>1, <1>2, <1>3, <1>4 DEF OnDisk, ExecLoad, ExecLoadFails, ExecCommit,
     ExecCommitFails, LoadStore, Reply, Finish, Goto, IInv, TypeOK, Lifecycle
<1>10. \A u \in Tasks \ {t} : OnDisk(u)'
  BY <1>3, <1>4, <1>8 DEF OnDisk, Emptied
<1>11. ~lost'
  BY <1>2, <1>4 DEF ExecLoad, ExecLoadFails, ExecCommit, ExecCommitFails,
     LoadStore, Reply, OnDisk
<1>12. QED
  BY <1>8, <1>9, <1>10, <1>11

LEMMA RestartSteady ==
    ASSUME IInv, NEW w \in Workers, Workers = {w}, Restart(w)
    PROVE  Steady'
<1> SUFFICES ASSUME ~overlap', ~torn' PROVE
       ~lost' /\ (Quiet => Settled)' /\ \A u \in Tasks : OnDisk(u)'
  BY DEF Steady
<1>1. \A u \in Tasks : home[u] = w
  BY DEF IInv, TypeOK
<1>2. /\ \A u \in Tasks : pc'[u] = "idle" /\ (Busy(u) => ~Lifecycle(u))
      /\ ~overlap /\ ~torn /\ UNCHANGED <<path, files, meta, lost>>
      /\ datasets' = [datasets EXCEPT ![w] = 0]
  BY <1>1 DEF Restart, disk
<1>3. ~lost /\ Settled
  BY <1>2 DEF IInv, Steady, Quiet
<1>4. Settled'
  BY <1>2, <1>3 DEF Settled, Emptied, IInv, TypeOK
<1>5. QED
  BY <1>2, <1>3, <1>4 DEF OnDisk

LEMMA InductiveStep ==
    ASSUME NEW w0, Workers = {w0}, IInv, [Next]_vars
    PROVE  IInv'
<1>1. CASE UNCHANGED vars
  BY <1>1 DEF vars, disk, call, local, history, IInv, TypeOK, Alone, PhaseOp,
     Steady, Quiet, Busy, Lifecycle, Settled, Emptied, OnDisk
<1>2. ASSUME NEW t \in Tasks, Executor(t) \/ Resume(t)
      PROVE  IInv'
  <2>1. TypeOK'
    BY <1>2, ExecutorType, ResumeType DEF IInv
  <2>2. Alone' /\ PhaseOp'
    BY <1>2, RunningShape DEF IInv
  <2>3. Steady'
    BY <1>2, LifecycleSteady, UseSteady
  <2>4. QED
    BY <2>1, <2>2, <2>3 DEF IInv
<1>3. ASSUME NEW t \in Tasks, NEW w \in Workers, Begin(t, w)
      PROVE  IInv'
  BY <1>3, BeginType, BeginShape, BeginSteady DEF IInv
<1>4. ASSUME NEW w \in Workers, Restart(w)
      PROVE  IInv'
  BY <1>4, RestartType, RestartShape, RestartSteady DEF IInv
<1>5. QED
  BY <1>1, <1>2, <1>3, <1>4 DEF Next

(* With one worker process, as long as creates and deletes of the name meet *)
(* no other request and none fails halfway, the cached handle, the metadata *)
(* file and the files in the directory are of one and the same dataset.     *)
THEOREM SingleWorkerHandleFresh ==
    ASSUME NEW w0, Workers = {w0}
    PROVE  Spec => []HandleFresh
<1>1. Init => IInv
  BY InitType, InitShape, InitSteady DEF IInv
<1>2. IInv /\ [Next]_vars => IInv'
  BY InductiveStep
<1>3. IInv => HandleFresh
  BY DEF IInv, Steady, Settled, HandleFresh
<1>4. QED
  BY <1>1, <1>2, <1>3, PTL DEF Spec

(* Under the same conditions no acknowledged insert is lost.                *)
THEOREM SingleWorkerNoLostInsert ==
    ASSUME NEW w0, Workers = {w0}
    PROVE  Spec => []NoLostInsert
<1>1. Init => IInv
  BY InitType, InitShape, InitSteady DEF IInv
<1>2. IInv /\ [Next]_vars => IInv'
  BY InductiveStep
<1>3. IInv => NoLostInsert
  BY DEF IInv, Steady, NoLostInsert
<1>4. QED
  BY <1>1, <1>2, <1>3, PTL DEF Spec

-----------------------------------------------------------------------------
(* CleanupSparesOthers, for any number of workers.  Two creates in progress *)
(* mean a contest; without one, a create that did not ask to overwrite and  *)
(* is about to clean up finds no directory.                                 *)
Contested ==
    \A t, u \in Tasks :
        (t # u /\ Busy(t) /\ Busy(u) /\ op[t] = "create" /\ op[u] = "create") => contest

NothingToClean ==
    \A t \in Tasks : (pc[t] = "clean" /\ ~overwrite[t]) => (~path \/ contest)

CInv == TypeOK /\ Alone /\ PhaseOp /\ Contested /\ NothingToClean

LEMMA RunningContested ==
    ASSUME CInv, NEW t \in Tasks, Executor(t) \/ Resume(t)
    PROVE  Contested' /\ NothingToClean'
<1> USE DEF disk, call, local, history
<1>1. /\ pc[t] # "idle" /\ pc'[t] # "clean" /\ UNCHANGED <<op, contest>>
      /\ \A u \in Tasks \ {t} : pc'[u] = pc[u] /\ overwrite'[u] = overwrite[u]
      /\ path' => path \/ op[t] = "create"
  <2>1. CASE Executor(t)
    BY <2>1 DEF CInv, PhaseOp, Executor, TypeOK, ExecCreate, ExecCreateFails,
       ExecLoad, ExecLoadFails, ExecCommit, ExecCommitFails, ExecUnlinkSome,
       ExecUnlinkRest, ExecRmRoot, RemoveRoot, Goto
  <2>2. CASE Resume(t)
    BY <2>2 DEF CInv, Resume, TypeOK, CreateClean, CreateCleanRoot, RemoveRoot,
       CreateStore, CreateStoreFails, LoadStore, Reply, Goto, Finish
  <2>3. QED
    BY <2>1, <2>2
<1>2. Contested'
  BY <1>1 DEF CInv, Contested, Busy
<1>3. NothingToClean'
  BY <1>1 DEF CInv, Contested, NothingToClean, PhaseOp, Busy
<1>4. QED
  BY <1>2, <1>3

LEMMA BeginContested ==
    ASSUME CInv, NEW t \in Tasks, NEW w \in Workers, Begin(t, w)
    PROVE  Contested' /\ NothingToClean'
<1> USE DEF disk
<1>1. PICK kind, ow, phase, h : Arrive(t, w, kind, ow, phase, h) /\ UNCHANGED disk
  BY Zenon DEF Begin, CreateCheck, UseStart, DeleteStart
<1>2. /\ \A u \in Tasks \ {t} : pc'[u] = pc[u] /\ op'[u] = op[u]
                                 /\ overwrite'[u] = overwrite[u]
      /\ op'[t] = kind /\ UNCHANGED path /\ (contest => contest')
      /\ kind = "create" => \A u \in Tasks \ {t} :
            Busy(u) /\ op[u] = "create" => contest'
  BY <1>1 DEF Arrive, Goto, CInv, TypeOK
<1>3. pc'[t] = "clean" /\ ~overwrite'[t] => ~path
  BY DEF Begin, CreateCheck, UseStart, DeleteStart, Arrive, Goto, CInv, TypeOK
<1>4. Contested'
  BY <1>2 DEF CInv, Contested, Busy
<1>5. NothingToClean'
  BY <1>2, <1>3 DEF CInv, NothingToClean
<1>6. QED
  BY <1>4, <1>5

LEMMA ContestStep == CInv /\ [Next]_vars => CInv'
<1> SUFFICES ASSUME CInv, [Next]_vars PROVE CInv'
  OBVIOUS
<1>1. CASE UNCHANGED vars
  BY <1>1 DEF vars, disk, call, local, history, CInv, TypeOK, Alone, PhaseOp,
     Contested, NothingToClean, Busy, Lifecycle
<1>2. ASSUME NEW t \in Tasks, Executor(t) \/ Resume(t)
      PROVE  CInv'
  BY <1>2, ExecutorType, ResumeType, RunningShape, RunningContested DEF CInv
<1>3. ASSUME NEW t \in Tasks, NEW w \in Workers, Begin(t, w)
      PROVE  CInv'
  BY <1>3, BeginType, BeginShape, BeginContested DEF CInv
<1>4. ASSUME NEW w \in Workers, Restart(w)
      PROVE  CInv'
  <2>1. Contested' /\ NothingToClean'
    BY <1>4 DEF Restart, CInv, Contested, NothingToClean, TypeOK, Busy, disk
  <2>2. QED
    BY <1>4, <2>1, RestartType, RestartShape DEF CInv
<1>5. QED
  BY <1>1, <1>2, <1>3, <1>4 DEF Next

(* Whatever the number of workers and requests: as long as no two creates   *)
(* of the name were in progress together, the files of a dataset leave the  *)
(* directory only on behalf of a delete or of an overwriting create.        *)
THEOREM CleanupIsAsked == Spec => CleanupSparesOthers
<1>1. Init => CInv
  BY InitType, InitShape DEF Init, CInv, Contested, NothingToClean, Busy
<1>2. CInv /\ [Next]_vars =>
        [(files # 0 /\ files' # files) => (contest \/ \E t \in Tasks : Destroys(t))]_vars
  <2> SUFFICES ASSUME CInv, Next, files # 0, files' # files, ~contest
               PROVE  \E t \in Tasks : Destroys(t)
    BY DEF vars, disk
  <2> USE DEF disk, call, local, history
  <2>1. ~\E t \in Tasks, w \in Workers : Begin(t, w)
    BY DEF Begin, CreateCheck, UseStart, DeleteStart
  <2>2. ~\E w \in Workers : Restart(w)
    BY DEF Restart
  <2>3. PICK t \in Tasks : Executor(t) \/ Resume(t)
    BY <2>1, <2>2 DEF Next
  <2>4. \/ pc[t] \in {"rmtree", "rmrest"}
        \/ pc[t] = "clean" /\ path
    BY <2>3 DEF Executor, ExecCreate, ExecCreateFails, ExecLoad, ExecLoadFails,
       ExecCommit, ExecCommitFails, ExecUnlinkSome, ExecUnlinkRest, ExecRmRoot,
       RemoveRoot, Resume, CreateClean, CreateCleanRoot, CreateStore,
       CreateStoreFails, LoadStore, Reply
  <2>5. Destroys(t)
    BY <2>4 DEF CInv, PhaseOp, NothingToClean, Destroys, Busy
  <2>6. QED
    BY <2>5
<1>3. QED
  BY <1>1, <1>2, ContestStep, PTL DEF Spec, CleanupSparesOthers
=============================================================================
