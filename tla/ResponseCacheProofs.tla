------------------------ MODULE ResponseCacheProofs ------------------------
(***************************************************************************)
(* What holds of the cached dataset and the cached vector of ResponseCache *)
(* for every number of requests in progress and every bound.               *)
(***************************************************************************)
EXTENDS ResponseCache, TLAPS

USE ResponseCacheAssumption

-----------------------------------------------------------------------------
(* Types *)

\* A dataset that has the vector is not empty, so that a delete of the vector
\* leaves a size.
Inhabited == vec # 0 => size # 0

Typed == TypeOK /\ Inhabited

LEMMA GotoTyped ==
  ASSUME NEW r \in Tasks, NEW phase \in Phases, pc \in [Tasks -> Phases],
         Goto(r, phase)
  PROVE  pc' \in [Tasks -> Phases]
  BY DEF Goto

LEMMA ForgetTyped ==
  ASSUME NEW r \in Tasks, TypeOK, Forget(r)
  PROVE  /\ copyBorn' \in [Tasks -> 0 .. MaxBorn]
         /\ copySize' \in [Tasks -> 0 .. MaxSize]
         /\ copyVec' \in [Tasks -> 0 .. MaxWrites]
  BY DEF TypeOK, Forget

LEMMA RacesTyped ==
  ASSUME TypeOK, NEW r \in Tasks
  PROVE  /\ InfoRaces(r) => racedInfo' \in BOOLEAN
         /\ VectorRaces(r) => racedVector' \in BOOLEAN
         /\ LeavesInfo => leftInfo' \in BOOLEAN
         /\ LeavesVector => leftVector' \in BOOLEAN
  BY Zenon DEF TypeOK, InfoRaces, VectorRaces, LeavesInfo, LeavesVector

LEMMA TInit == ASSUME Init PROVE Typed
  <1>1. /\ pc \in [Tasks -> Phases]
        /\ copyBorn \in [Tasks -> 0 .. MaxBorn]
        /\ copySize \in [Tasks -> 0 .. MaxSize]
        /\ copyVec \in [Tasks -> 0 .. MaxWrites]
    BY DEF Init, Phases
  <1>2. /\ resultsCached \in BOOLEAN
        /\ lost \in BOOLEAN /\ wreck \in BOOLEAN
        /\ racedInfo \in BOOLEAN /\ racedVector \in BOOLEAN
        /\ leftInfo \in BOOLEAN /\ leftVector \in BOOLEAN
    BY Zenon DEF Init
  <1>3. /\ born = 0 /\ size = 0 /\ vec = 0 /\ made = 0 /\ writes = 0
        /\ infoBorn = 0 /\ infoSize = 0 /\ vecCached = 0
    BY Zenon DEF Init
  <1> QED  BY <1>1, <1>2, <1>3 DEF Typed, TypeOK, Inhabited

LEMMA TCreate ==
  ASSUME Typed, NEW r \in Tasks, Create(r) PROVE Typed'
  <1>1. pc' \in [Tasks -> Phases]
    BY GotoTyped DEF Typed, TypeOK, Create, Phases
  <1>2. racedInfo' \in BOOLEAN /\ racedVector' \in BOOLEAN /\ leftVector' \in BOOLEAN
    BY RacesTyped DEF Typed, Create
  <1>3. made' \in 0 .. MaxBorn /\ born' \in 0 .. MaxBorn
    BY DEF Typed, TypeOK, Create
  <1>4. /\ copyBorn' \in [Tasks -> 0 .. MaxBorn]
        /\ copySize' \in [Tasks -> 0 .. MaxSize]
    BY DEF Typed, TypeOK, Create
  <1>5. wreck' = FALSE /\ leftInfo' = leftInfo /\ lost' = lost
    BY DEF Create
  <1>6. wreck' \in BOOLEAN /\ leftInfo' \in BOOLEAN /\ lost' \in BOOLEAN
    BY <1>5 DEF Typed, TypeOK
  <1> QED
    BY <1>1, <1>2, <1>3, <1>4, <1>6
    DEF Typed, TypeOK, Inhabited, Create, redis, info

LEMMA TDeleteDataset ==
  ASSUME Typed, NEW r \in Tasks, DeleteDataset(r) PROVE Typed'
  <1>1. pc' \in [Tasks -> Phases]
    BY GotoTyped DEF Typed, TypeOK, DeleteDataset, Phases
  <1>2. racedInfo' \in BOOLEAN /\ racedVector' \in BOOLEAN /\ leftVector' \in BOOLEAN
    BY RacesTyped DEF Typed, DeleteDataset
  <1>3. wreck' = FALSE /\ leftInfo' = leftInfo /\ lost' = lost
    BY DEF DeleteDataset
  <1>4. wreck' \in BOOLEAN /\ leftInfo' \in BOOLEAN /\ lost' \in BOOLEAN
    BY <1>3 DEF Typed, TypeOK
  <1> QED
    BY <1>1, <1>2, <1>4
    DEF Typed, TypeOK, Inhabited, DeleteDataset, redis, info, copies

\* A create or a delete of the dataset that changed it and raised.
HalfDone(r) == CreateFails(r) \/ DeleteDatasetFails(r)

LEMMA THalfDone ==
  ASSUME Typed, NEW r \in Tasks, HalfDone(r) PROVE Typed'
  <1>1. /\ racedInfo' \in BOOLEAN /\ racedVector' \in BOOLEAN
        /\ leftInfo' \in BOOLEAN /\ leftVector' \in BOOLEAN
    BY RacesTyped DEF Typed, HalfDone, CreateFails, DeleteDatasetFails
  <1>2. made' \in 0 .. MaxBorn /\ born' \in 0 .. MaxBorn
    BY DEF Typed, TypeOK, HalfDone, CreateFails, DeleteDatasetFails
  <1>3. wreck' \in BOOLEAN /\ size' = 0 /\ vec' = 0
    BY DEF HalfDone, CreateFails, DeleteDatasetFails
  <1>4. UNCHANGED <<writes, redis, pc, copies, lost>>
    BY DEF HalfDone, CreateFails, DeleteDatasetFails
  <1> QED
    BY <1>1, <1>2, <1>3, <1>4 DEF Typed, TypeOK, Inhabited, redis, info, copies

\* The inserts, of one vector and of many.
Inserts(r) == Insert(r) \/ InsertBatch(r)

LEMMA AddsTyped ==
  ASSUME Typed, NEW n \in Nat, Adds(n)
  PROVE  /\ size' \in 0 .. MaxSize /\ vec' \in 0 .. MaxWrites
         /\ writes' \in 0 .. MaxWrites /\ Inhabited'
  BY DEF Typed, TypeOK, Inhabited, Adds

LEMMA TInserts ==
  ASSUME Typed, NEW r \in Tasks, Inserts(r) PROVE Typed'
  <1>1. PICK n \in Nat : Adds(n)
    BY DEF Inserts, Insert, InsertBatch
  <1>2. pc' \in [Tasks -> Phases]
    <2>1. "clearInfo" \in Phases /\ pc \in [Tasks -> Phases]
      BY DEF Phases, Typed, TypeOK
    <2>2. Goto(r, "clearInfo") \/ pc' = pc
      BY DEF Inserts, Insert, InsertBatch
    <2> QED  BY <2>1, <2>2, GotoTyped
  <1>3. UNCHANGED <<born, wreck, made, redis, copies, history>>
    BY DEF Inserts, Insert, InsertBatch
  <1> QED
    BY <1>1, <1>2, <1>3, AddsTyped
    DEF Typed, TypeOK, redis, info, copies, history

LEMMA TUpdateVector ==
  ASSUME Typed, NEW r \in Tasks, UpdateVector(r) PROVE Typed'
  <1>1. pc' \in [Tasks -> Phases]
    <2>1. "dropUpdated" \in Phases /\ pc \in [Tasks -> Phases]
      BY DEF Phases, Typed, TypeOK
    <2>2. Goto(r, "dropUpdated") \/ pc' = pc
      BY DEF UpdateVector
    <2> QED  BY <2>1, <2>2, GotoTyped
  <1>2. racedVector' \in BOOLEAN
    BY RacesTyped DEF Typed, UpdateVector
  <1>3. leftVector' \in BOOLEAN
    <2>1. LeavesVector \/ leftVector' = leftVector
      BY DEF UpdateVector
    <2> QED  BY <2>1, RacesTyped DEF Typed, TypeOK
  <1> QED
    BY <1>1, <1>2, <1>3
    DEF Typed, TypeOK, Inhabited, UpdateVector, redis, info, copies

LEMMA TDeleteVector ==
  ASSUME Typed, NEW r \in Tasks, DeleteVector(r) PROVE Typed'
  <1>1. pc' \in [Tasks -> Phases]
    <2>1. {"dropDeleted", "clearInfo"} \subseteq Phases /\ pc \in [Tasks -> Phases]
      BY DEF Phases, Typed, TypeOK
    <2>2. Goto(r, "dropDeleted") \/ Goto(r, "clearInfo") \/ pc' = pc
      BY DEF DeleteVector
    <2> QED  BY <2>1, <2>2, GotoTyped
  <1>2. racedVector' \in BOOLEAN
    <2>1. VectorRaces(r) \/ racedVector' = racedVector
      BY DEF DeleteVector
    <2> QED  BY <2>1, RacesTyped DEF Typed, TypeOK
  <1>3. leftVector' \in BOOLEAN
    <2>1. LeavesVector \/ leftVector' = leftVector
      BY DEF DeleteVector
    <2> QED  BY <2>1, RacesTyped DEF Typed, TypeOK
  <1>4. size' \in 0 .. MaxSize /\ vec' \in 0 .. MaxWrites /\ Inhabited'
    BY DEF Typed, TypeOK, Inhabited, DeleteVector
  <1> QED
    BY <1>1, <1>2, <1>3, <1>4 DEF Typed, TypeOK, DeleteVector, redis, info, copies

\* The steps that only read: the request moves on.
Moves(r) ==
    \/ GetInfo(r) \/ PutInfo(r) \/ LookInfo(r) \/ GetVector(r) \/ LookVector(r)
    \/ Search(r) \/ LookResults(r) \/ AnswerError(r) \/ RunSearch(r)

LEMMA TMoves ==
  ASSUME Typed, NEW r \in Tasks, Moves(r) PROVE Typed'
  <1>1. pc' \in [Tasks -> Phases]
    BY GotoTyped
    DEF Typed, TypeOK, Moves, GetInfo, PutInfo, LookInfo, GetVector, LookVector,
        Search, LookResults, AnswerError, RunSearch, Phases
  <1>2. UNCHANGED <<stored, redis, copies, history>>
    BY DEF Moves, GetInfo, PutInfo, LookInfo, GetVector, LookVector, Search,
           LookResults, AnswerError, RunSearch
  <1> QED
    BY <1>1, <1>2
    DEF Typed, TypeOK, Inhabited, stored, redis, info, copies, history

\* The steps that take a copy.
LEMMA TReads ==
  ASSUME Typed, NEW r \in Tasks, ReadInfo(r) \/ ReadVector(r) PROVE Typed'
  <1>1. pc' \in [Tasks -> Phases]
    BY GotoTyped DEF Typed, TypeOK, ReadInfo, ReadVector, Phases
  <1>2. /\ copyBorn' \in [Tasks -> 0 .. MaxBorn]
        /\ copySize' \in [Tasks -> 0 .. MaxSize]
        /\ copyVec' \in [Tasks -> 0 .. MaxWrites]
    BY DEF Typed, TypeOK, ReadInfo, ReadVector, copies
  <1>3. UNCHANGED <<stored, redis, history>>
    BY DEF ReadInfo, ReadVector
  <1> QED
    BY <1>1, <1>2, <1>3
    DEF Typed, TypeOK, Inhabited, stored, redis, info, history

\* The steps that change redis.
Stores(r) ==
    \/ CacheInfo(r) \/ ClearInfo(r) \/ ClearResults(r)
    \/ CacheVector(r) \/ DropVector(r) \/ CacheResults(r)

LEMMA TStores ==
  ASSUME Typed, NEW r \in Tasks, Stores(r) PROVE Typed'
  <1>1. pc' \in [Tasks -> Phases]
    BY GotoTyped
    DEF Typed, TypeOK, Stores, CacheInfo, ClearInfo, ClearResults, CacheVector,
        DropVector, CacheResults, Phases
  <1>2. Forget(r) \/ UNCHANGED copies
    BY DEF Stores, CacheInfo, ClearInfo, ClearResults, CacheVector, DropVector,
           CacheResults
  <1>3. /\ copyBorn' \in [Tasks -> 0 .. MaxBorn]
        /\ copySize' \in [Tasks -> 0 .. MaxSize]
        /\ copyVec' \in [Tasks -> 0 .. MaxWrites]
    BY <1>2, ForgetTyped DEF Typed, TypeOK, copies
  <1>4. /\ infoBorn' \in 0 .. MaxBorn /\ infoSize' \in 0 .. MaxSize
        /\ vecCached' \in 0 .. MaxWrites
    <2>1. /\ copyBorn[r] \in 0 .. MaxBorn /\ copySize[r] \in 0 .. MaxSize
          /\ copyVec[r] \in 0 .. MaxWrites
      BY DEF Typed, TypeOK
    <2>2. /\ infoBorn' \in {infoBorn, copyBorn[r], 0}
          /\ infoSize' \in {infoSize, copySize[r], 0}
          /\ vecCached' \in {vecCached, copyVec[r], 0}
      BY DEF Stores, CacheInfo, ClearInfo, ClearResults, CacheVector,
             DropVector, CacheResults, info
    <2> QED  BY <2>1, <2>2 DEF Typed, TypeOK
  <1>5. resultsCached' \in BOOLEAN
    BY Zenon DEF Typed, TypeOK, Stores, CacheInfo, ClearInfo, ClearResults,
                 CacheVector, DropVector, CacheResults
  <1>6. UNCHANGED <<stored, lost, raced>>
    BY DEF Stores, CacheInfo, ClearInfo, ClearResults, CacheVector, DropVector,
           CacheResults, raced, history
  <1>7. leftInfo' \in BOOLEAN /\ leftVector' \in BOOLEAN
    <2>1. leftInfo' \in {leftInfo, FALSE} /\ leftVector' \in {leftVector, FALSE}
      BY DEF Stores, CacheInfo, ClearInfo, ClearResults, CacheVector, DropVector,
             CacheResults, history
    <2> QED  BY <2>1 DEF Typed, TypeOK
  <1> QED
    BY <1>1, <1>3, <1>4, <1>5, <1>6, <1>7
    DEF Typed, TypeOK, Inhabited, stored, raced

Failures(r) == RedisFails(r) \/ Dies(r)

LEMMA TFailures ==
  ASSUME Typed, NEW r \in Tasks, Failures(r) PROVE Typed'
  <1>1. AfterFailure(r) \in Phases
    BY DEF AfterFailure, Phases
  <1>2. pc' \in [Tasks -> Phases]
    BY <1>1, GotoTyped DEF Typed, TypeOK, Failures, RedisFails, Dies, Phases
  <1>3. /\ copyBorn' \in [Tasks -> 0 .. MaxBorn]
        /\ copySize' \in [Tasks -> 0 .. MaxSize]
        /\ copyVec' \in [Tasks -> 0 .. MaxWrites]
    BY ForgetTyped DEF Typed, Failures, RedisFails, Dies
  <1>4. lost' /\ UNCHANGED <<stored, redis, raced, leftInfo, leftVector>>
    BY DEF Failures, RedisFails, Dies
  <1> QED
    BY <1>2, <1>3, <1>4 DEF Typed, TypeOK, Inhabited, stored, redis, info, raced

Expiries == ExpireInfo \/ ExpireVector \/ ExpireResults

LEMMA TExpiries == ASSUME Typed, Expiries PROVE Typed'
  <1>1. UNCHANGED <<stored, pc, copies, lost, raced>>
    BY DEF Expiries, ExpireInfo, ExpireVector, ExpireResults, raced, history
  <1>2. /\ infoBorn' \in {infoBorn, 0} /\ infoSize' \in {infoSize, 0}
        /\ vecCached' \in {vecCached, 0}
    BY DEF Expiries, ExpireInfo, ExpireVector, ExpireResults, info
  <1>3. resultsCached' \in BOOLEAN
    BY Zenon DEF Typed, TypeOK, Expiries, ExpireInfo, ExpireVector, ExpireResults
  <1>4. leftInfo' \in BOOLEAN /\ leftVector' \in BOOLEAN
    <2>1. leftInfo' \in {leftInfo, FALSE} /\ leftVector' \in {leftVector, FALSE}
      BY DEF Expiries, ExpireInfo, ExpireVector, ExpireResults, history
    <2> QED  BY <2>1 DEF Typed, TypeOK
  <1> QED
    BY <1>1, <1>2, <1>3, <1>4
    DEF Typed, TypeOK, Inhabited, stored, copies, raced

\* The steps of the system, by family.
LEMMA Steps ==
  ASSUME Next
  PROVE  \/ Expiries
         \/ \E r \in Tasks :
              \/ Create(r) \/ DeleteDataset(r) \/ HalfDone(r) \/ Inserts(r)
              \/ UpdateVector(r) \/ DeleteVector(r) \/ Moves(r)
              \/ ReadInfo(r) \/ ReadVector(r) \/ Stores(r) \/ Failures(r)
  BY Zenon DEF Next, Handle, Expiries, Moves, Stores, Failures, HalfDone, Inserts

LEMMA TStutter == ASSUME Typed, UNCHANGED vars PROVE Typed'
  BY DEF Typed, TypeOK, Inhabited, vars, stored, redis, info, copies, history

LEMMA TNext == ASSUME Typed, [Next]_vars PROVE Typed'
  <1>1. CASE UNCHANGED vars
    BY <1>1, TStutter
  <1>2. CASE Next
    <2>1. CASE Expiries
      BY <2>1, TExpiries
    <2>2. ASSUME NEW r \in Tasks,
                 \/ Create(r) \/ DeleteDataset(r) \/ HalfDone(r) \/ Inserts(r)
                 \/ UpdateVector(r) \/ DeleteVector(r) \/ Moves(r)
                 \/ ReadInfo(r) \/ ReadVector(r) \/ Stores(r) \/ Failures(r)
          PROVE  Typed'
      BY <2>2, TCreate, TDeleteDataset, THalfDone, TInserts, TUpdateVector,
         TDeleteVector, TMoves, TReads, TStores, TFailures
    <2> QED  BY <1>2, <2>1, <2>2, Steps
  <1> QED  BY <1>1, <1>2

LEMMA AlwaysTyped == Spec => []Typed
  <1>1. Init => Typed
    BY TInit
  <1>2. Typed /\ [Next]_vars => Typed'
    BY TNext
  <1> QED  BY <1>1, <1>2, PTL DEF Spec

\* Every variable keeps its type, for all requests and bounds.
THEOREM TypeCorrect == Spec => []TypeOK
  <1>1. Typed => TypeOK
    BY DEF Typed
  <1> QED  BY <1>1, AlwaysTyped, PTL

-----------------------------------------------------------------------------
(* The cached dataset *)

\* What makes InfoFresh inductive: what a request is about to store is what is
\* there, unless the dataset changed meanwhile.
CopiesOfInfo ==
    (~lost /\ ~racedInfo) =>
        \A r \in Tasks : pc[r] \in StoringInfo => copyBorn[r] = born

InfoKept == CopiesOfInfo /\ InfoFresh

LEMMA IInit == ASSUME Init PROVE InfoKept
  BY DEF Init, InfoKept, CopiesOfInfo, InfoFresh, StoringInfo

\* A change of the dataset that met no request about to store.
LEMMA NobodyStores ==
  ASSUME NEW r \in Tasks, InfoRaces(r), ~racedInfo'
  PROVE  ~racedInfo /\ \A q \in Tasks \ {r} : pc[q] \notin StoringInfo
  BY DEF InfoRaces

LEMMA ICreate ==
  ASSUME Typed, InfoKept, NEW r \in Tasks, Create(r) PROVE InfoKept'
  <1>1. pc'[r] = "cacheNew" /\ \A q \in Tasks \ {r} : pc'[q] = pc[q]
    BY DEF Typed, TypeOK, Create, Goto
  <1>2. copyBorn'[r] = born'
    BY DEF Typed, TypeOK, Create
  <1>3. CopiesOfInfo'
    <2> SUFFICES ASSUME ~racedInfo', NEW q \in Tasks, pc'[q] \in StoringInfo
                 PROVE  copyBorn'[q] = born'
      BY DEF CopiesOfInfo
    <2> QED  BY <1>1, <1>2, NobodyStores DEF Create
  <1> QED  BY <1>1, <1>3 DEF InfoKept, InfoFresh

LEMMA IDeleteDataset ==
  ASSUME Typed, InfoKept, NEW r \in Tasks, DeleteDataset(r) PROVE InfoKept'
  <1>1. pc'[r] = "clearInfo" /\ \A q \in Tasks \ {r} : pc'[q] = pc[q]
    BY DEF Typed, TypeOK, DeleteDataset, Goto
  <1>2. CopiesOfInfo'
    <2> SUFFICES ASSUME ~racedInfo', NEW q \in Tasks, pc'[q] \in StoringInfo
                 PROVE  FALSE
      BY DEF CopiesOfInfo
    <2> QED  BY <1>1, NobodyStores DEF DeleteDataset, StoringInfo
  <1> QED  BY <1>1, <1>2 DEF InfoKept, InfoFresh

\* The handler failed: the entry, if there is one, is left behind.
LEMMA IHalfDone ==
  ASSUME Typed, InfoKept, NEW r \in Tasks, HalfDone(r) PROVE InfoKept'
  <1>1. /\ pc[r] = "idle" /\ UNCHANGED <<redis, pc, copies, lost>>
        /\ InfoRaces(r) /\ LeavesInfo
    BY DEF HalfDone, CreateFails, DeleteDatasetFails
  <1>2. CopiesOfInfo'
    <2> SUFFICES ASSUME ~racedInfo', NEW q \in Tasks, pc'[q] \in StoringInfo
                 PROVE  FALSE
      BY DEF CopiesOfInfo
    <2> QED  BY <1>1, NobodyStores DEF StoringInfo
  <1>3. InfoFresh'
    BY <1>1, Zenon DEF InfoFresh, LeavesInfo, redis, info
  <1> QED  BY <1>2, <1>3 DEF InfoKept

\* A step of one request that leaves the dataset, its entry and the copies of
\* it alone, and is not the one that owes the entry a change.
LEMMA ISame ==
  ASSUME Typed, InfoKept, NEW r \in Tasks, NEW phase \in Phases, Goto(r, phase),
         phase \notin StoringInfo, pc[r] \notin {"cacheNew", "clearInfo"},
         born' = born, infoBorn' = infoBorn,
         \A q \in Tasks \ {r} : copyBorn'[q] = copyBorn[q],
         lost' = lost, racedInfo' = racedInfo, leftInfo' = leftInfo
  PROVE  InfoKept'
  <1>1. pc'[r] = phase /\ \A q \in Tasks \ {r} : pc'[q] = pc[q]
    BY DEF Typed, TypeOK, Goto
  <1>2. CopiesOfInfo'
    BY <1>1 DEF InfoKept, CopiesOfInfo
  <1>3. InfoFresh'
    BY <1>1 DEF InfoKept, InfoFresh
  <1> QED  BY <1>2, <1>3 DEF InfoKept

LEMMA IReadInfo ==
  ASSUME Typed, InfoKept, NEW r \in Tasks, ReadInfo(r) PROVE InfoKept'
  <1>1. pc[r] = "readInfo" /\ \A q \in Tasks \ {r} : pc'[q] = pc[q]
    BY DEF Typed, TypeOK, ReadInfo, Goto
  <1>2. \A q \in Tasks \ {r} : copyBorn'[q] = copyBorn[q]
    BY DEF Typed, TypeOK, ReadInfo, copies
  <1>3. \/ pc'[r] = "idle"
        \/ pc'[r] = "cacheInfo" /\ copyBorn'[r] = born
    BY DEF Typed, TypeOK, ReadInfo, Goto
  <1>4. UNCHANGED <<stored, redis, history>>
    BY DEF ReadInfo
  <1>5. CopiesOfInfo'
    BY <1>1, <1>2, <1>3, <1>4
    DEF InfoKept, CopiesOfInfo, StoringInfo, stored, history
  <1>6. InfoFresh'
    BY <1>1, <1>3, <1>4
    DEF InfoKept, InfoFresh, stored, redis, info, history
  <1> QED  BY <1>5, <1>6 DEF InfoKept

LEMMA ICacheInfo ==
  ASSUME Typed, InfoKept, NEW r \in Tasks, CacheInfo(r) PROVE InfoKept'
  <1>1. pc'[r] = "idle" /\ \A q \in Tasks \ {r} : pc'[q] = pc[q]
    BY DEF Typed, TypeOK, CacheInfo, Goto
  <1>2. \A q \in Tasks \ {r} : copyBorn'[q] = copyBorn[q]
    BY DEF Typed, TypeOK, CacheInfo, Forget
  <1>3. UNCHANGED <<stored, lost, raced>> /\ infoBorn' = copyBorn[r]
    BY DEF CacheInfo, raced
  <1>4. pc[r] \in StoringInfo
    BY DEF CacheInfo
  <1>5. CopiesOfInfo'
    BY <1>1, <1>2, <1>3
    DEF InfoKept, CopiesOfInfo, StoringInfo, stored, raced
  <1>6. InfoFresh'
    BY <1>3, <1>4 DEF InfoKept, CopiesOfInfo, InfoFresh, stored, raced
  <1> QED  BY <1>5, <1>6 DEF InfoKept

LEMMA IClearInfo ==
  ASSUME Typed, InfoKept, NEW r \in Tasks, ClearInfo(r) PROVE InfoKept'
  <1>1. pc'[r] = "clearResults" /\ \A q \in Tasks \ {r} : pc'[q] = pc[q]
    BY DEF Typed, TypeOK, ClearInfo, Goto
  <1>2. UNCHANGED <<stored, copies, lost, raced>> /\ infoBorn' = 0
    BY DEF ClearInfo, raced
  <1>3. CopiesOfInfo'
    BY <1>1, <1>2
    DEF InfoKept, CopiesOfInfo, StoringInfo, stored, copies, raced
  <1>4. InfoFresh'
    BY <1>2 DEF InfoFresh
  <1> QED  BY <1>3, <1>4 DEF InfoKept

\* A request that is over before its next step.
LEMMA StaysIdle ==
  ASSUME Typed, NEW r \in Tasks, pc[r] = "idle", pc' = pc
  PROVE  Goto(r, "idle")
  BY DEF Typed, TypeOK, Goto

\* The changes of vectors, which do not touch the entry of the dataset.
LEMMA IVectors ==
  ASSUME Typed, InfoKept, NEW r \in Tasks,
         Inserts(r) \/ UpdateVector(r) \/ DeleteVector(r)
  PROVE  InfoKept'
  <1>1. /\ pc[r] = "idle"
        /\ \/ pc' = pc
           \/ \E phase \in {"clearInfo", "dropUpdated", "dropDeleted"} : Goto(r, phase)
    BY DEF Inserts, Insert, InsertBatch, UpdateVector, DeleteVector
  <1>2. {"idle", "clearInfo", "dropUpdated", "dropDeleted"} \subseteq Phases \ StoringInfo
    BY DEF Phases, StoringInfo
  <1>3. PICK phase \in Phases \ StoringInfo : Goto(r, phase)
    BY <1>1, <1>2, StaysIdle
  <1>4. /\ born' = born /\ infoBorn' = infoBorn /\ lost' = lost
        /\ racedInfo' = racedInfo /\ leftInfo' = leftInfo /\ copyBorn' = copyBorn
    BY DEF Inserts, Insert, InsertBatch, UpdateVector, DeleteVector,
           redis, info, copies, history
  <1> QED  BY <1>1, <1>3, <1>4, ISame

\* The other steps of a request.
LEMMA IOthers ==
  ASSUME Typed, InfoKept, NEW r \in Tasks,
         \/ Moves(r) \/ ReadVector(r) \/ ClearResults(r) \/ CacheVector(r)
         \/ DropVector(r) \/ CacheResults(r)
  PROVE  InfoKept'
  <1>1. PICK phase \in Phases \ StoringInfo : Goto(r, phase)
    <2> DEFINE Reached == {"idle", "lookInfo", "readInfo", "clearInfo",
                           "lookVector", "readVector", "cacheVector",
                           "lookResults", "search", "cacheResults", "error"}
    <2>1. \E phase \in Reached : Goto(r, phase)
      BY DEF Moves, GetInfo, PutInfo, LookInfo, GetVector, LookVector, Search,
             LookResults, AnswerError, RunSearch, ReadVector, ClearResults,
             CacheVector, DropVector, CacheResults
    <2>2. Reached \subseteq Phases \ StoringInfo
      BY DEF Phases, StoringInfo
    <2> QED  BY <2>1, <2>2
  <1>2. pc[r] \notin {"cacheNew", "clearInfo"}
    BY DEF Moves, GetInfo, PutInfo, LookInfo, GetVector, LookVector, Search,
           LookResults, AnswerError, RunSearch, ReadVector, ClearResults,
           CacheVector, DropVector, CacheResults
  <1>3. born' = born /\ infoBorn' = infoBorn /\ lost' = lost
        /\ racedInfo' = racedInfo /\ leftInfo' = leftInfo
    BY DEF Moves, GetInfo, PutInfo, LookInfo, GetVector, LookVector, Search,
           LookResults, AnswerError, RunSearch, ReadVector, ClearResults,
           CacheVector, DropVector, CacheResults,
           stored, redis, info, history, raced
  <1>4. UNCHANGED copyBorn \/ Forget(r)
    BY DEF Moves, GetInfo, PutInfo, LookInfo, GetVector, LookVector, Search,
           LookResults, AnswerError, RunSearch, ReadVector, ClearResults,
           CacheVector, DropVector, CacheResults, copies
  <1>5. \A q \in Tasks \ {r} : copyBorn'[q] = copyBorn[q]
    BY <1>4 DEF Typed, TypeOK, Forget
  <1> QED  BY <1>1, <1>2, <1>3, <1>5, ISame

\* The steps that leave every request and the dataset where they are.
LEMMA IRest ==
  ASSUME Typed, InfoKept,
         Expiries \/ UNCHANGED vars
  PROVE  InfoKept'
  <1>1. /\ pc' = pc /\ born' = born /\ copyBorn' = copyBorn
        /\ lost' = lost /\ racedInfo' = racedInfo
        /\ (infoBorn' = infoBorn /\ leftInfo' = leftInfo) \/ infoBorn' = 0
    BY DEF Expiries, ExpireInfo, ExpireVector, ExpireResults, vars,
           stored, redis, info, copies, history, raced
  <1> QED  BY <1>1 DEF InfoKept, CopiesOfInfo, InfoFresh

LEMMA INext == ASSUME Typed, InfoKept, [Next]_vars PROVE InfoKept'
  <1>1. CASE UNCHANGED vars
    BY <1>1, IRest
  <1>2. CASE Next
    <2>1. CASE Expiries
      BY <2>1, IRest
    <2>2. ASSUME NEW r \in Tasks, Failures(r) PROVE InfoKept'
      BY <2>2 DEF Failures, RedisFails, Dies, InfoKept, CopiesOfInfo, InfoFresh
    <2>3. ASSUME NEW r \in Tasks,
                 \/ Create(r) \/ DeleteDataset(r) \/ HalfDone(r) \/ Inserts(r)
                 \/ UpdateVector(r) \/ DeleteVector(r) \/ Moves(r)
                 \/ ReadInfo(r) \/ ReadVector(r) \/ Stores(r)
          PROVE  InfoKept'
      BY <2>3, ICreate, IDeleteDataset, IHalfDone, IVectors, IOthers, IReadInfo,
         ICacheInfo, IClearInfo DEF Stores
    <2> QED  BY <1>2, <2>1, <2>2, <2>3, Steps
  <1> QED  BY <1>1, <1>2

\* Any order of the handlers, at any number of workers, leaves the right
\* dataset in the cache, unless redis or a worker failed, a change met a request
\* about to store, or the entry was left behind by a change that raised.
THEOREM CachedDatasetIsFresh == Spec => []InfoFresh
  <1>1. Init => InfoKept
    BY IInit
  <1>2. Typed /\ InfoKept /\ [Next]_vars => InfoKept'
    BY INext
  <1>3. InfoKept => InfoFresh
    BY DEF InfoKept
  <1> QED  BY <1>1, <1>2, <1>3, AlwaysTyped, PTL DEF Spec

-----------------------------------------------------------------------------
(* The cached vector *)

\* What makes VectorFresh inductive, as CopiesOfInfo does InfoFresh: a copy is
\* of a vector that is there, so that an insert never finds one.
CopiesOfVector ==
    (~lost /\ ~racedVector) =>
        \A r \in Tasks : pc[r] = "cacheVector" => copyVec[r] # 0 /\ copyVec[r] = vec

VectorKept == CopiesOfVector /\ VectorFresh

LEMMA VInit == ASSUME Init PROVE VectorKept
  BY DEF Init, VectorKept, CopiesOfVector, VectorFresh

LEMMA NobodyStoresVector ==
  ASSUME NEW r \in Tasks, VectorRaces(r), ~racedVector'
  PROVE  ~racedVector /\ \A q \in Tasks \ {r} : pc[q] # "cacheVector"
  BY DEF VectorRaces

\* A change of the vector that goes to a phase which stores no vector.
LEMMA VChange ==
  ASSUME Typed, NEW r \in Tasks, NEW phase \in Phases, Goto(r, phase),
         phase # "cacheVector", VectorRaces(r)
  PROVE  CopiesOfVector'
  <1> SUFFICES ASSUME ~racedVector', NEW q \in Tasks, pc'[q] = "cacheVector"
               PROVE  FALSE
    BY DEF CopiesOfVector
  <1>1. pc'[r] = phase /\ \A s \in Tasks \ {r} : pc'[s] = pc[s]
    BY DEF Typed, TypeOK, Goto
  <1> QED  BY <1>1, NobodyStoresVector

\* A change of the vector that leaves its entry behind.
LEMMA VLeft ==
  ASSUME Typed, VectorKept, NEW r \in Tasks, NEW phase \in Phases, Goto(r, phase),
         phase # "cacheVector", VectorRaces(r), LeavesVector, vecCached' = vecCached
  PROVE  VectorKept'
  <1>1. CopiesOfVector'
    BY VChange
  <1>2. VectorFresh'
    BY Zenon DEF VectorFresh, LeavesVector
  <1> QED  BY <1>1, <1>2 DEF VectorKept

\* The dataset goes away, its cached vector stays.
LEMMA VDataset ==
  ASSUME Typed, VectorKept, NEW r \in Tasks,
         Create(r) \/ DeleteDataset(r) \/ HalfDone(r)
  PROVE  VectorKept'
  <1>1. {"idle", "cacheNew", "clearInfo"} \subseteq Phases
    BY DEF Phases
  <1>2. \/ Goto(r, "cacheNew") \/ Goto(r, "clearInfo")
        \/ pc[r] = "idle" /\ pc' = pc
    BY DEF Create, DeleteDataset, HalfDone, CreateFails, DeleteDatasetFails
  <1>3. VectorRaces(r) /\ LeavesVector /\ vecCached' = vecCached
    BY DEF Create, DeleteDataset, HalfDone, CreateFails, DeleteDatasetFails, redis
  <1> QED  BY <1>1, <1>2, <1>3, VLeft, StaysIdle

LEMMA VInsert ==
  ASSUME Typed, VectorKept, NEW r \in Tasks, Inserts(r) PROVE VectorKept'
  <1>1. UNCHANGED <<redis, copies, history>> /\ (vec' = vec \/ vec = 0)
    BY DEF Inserts, Insert, InsertBatch, Adds
  <1>2. pc[r] = "idle" /\ (pc' = pc \/ Goto(r, "clearInfo"))
    BY DEF Inserts, Insert, InsertBatch
  <1>3. /\ \A q \in Tasks \ {r} : pc'[q] = pc[q]
        /\ pc'[r] \in {"idle", "clearInfo"}
    BY <1>2 DEF Typed, TypeOK, Goto
  <1>4. CopiesOfVector'
    BY <1>1, <1>3 DEF VectorKept, CopiesOfVector, copies, history
  <1>5. VectorFresh'
    BY <1>1, <1>2, <1>3 DEF VectorKept, VectorFresh, redis, history
  <1> QED  BY <1>4, <1>5 DEF VectorKept

\* A step of one request that leaves the vector, its entry and the copies of it
\* alone, and is not the one that owes the entry a change.
LEMMA VSame ==
  ASSUME Typed, VectorKept, NEW r \in Tasks, NEW phase \in Phases,
         Goto(r, phase), phase # "cacheVector",
         pc[r] \notin {"dropUpdated", "dropDeleted"},
         vec' = vec, vecCached' = vecCached,
         \A q \in Tasks \ {r} : copyVec'[q] = copyVec[q],
         lost' = lost, racedVector' = racedVector, leftVector' = leftVector
  PROVE  VectorKept'
  <1>1. pc'[r] = phase /\ \A q \in Tasks \ {r} : pc'[q] = pc[q]
    BY DEF Typed, TypeOK, Goto
  <1>2. CopiesOfVector'
    BY <1>1 DEF VectorKept, CopiesOfVector
  <1>3. VectorFresh'
    BY <1>1 DEF VectorKept, VectorFresh
  <1> QED  BY <1>2, <1>3 DEF VectorKept

LEMMA VUpdateVector ==
  ASSUME Typed, VectorKept, NEW r \in Tasks, UpdateVector(r) PROVE VectorKept'
  <1>1. /\ pc[r] = "idle" /\ VectorRaces(r) /\ vecCached' = vecCached
        /\ Goto(r, "dropUpdated") \/ (pc' = pc /\ LeavesVector)
    BY DEF UpdateVector, redis
  <1>2. {"idle", "dropUpdated"} \subseteq Phases
    BY DEF Phases
  <1>3. CASE Goto(r, "dropUpdated")
    <2>1. CopiesOfVector'
      BY <1>1, <1>2, <1>3, VChange
    <2>2. pc'[r] = "dropUpdated"
      BY <1>3 DEF Typed, TypeOK, Goto
    <2> QED  BY <2>1, <2>2 DEF VectorKept, VectorFresh
  <1>4. CASE pc' = pc /\ LeavesVector
    BY <1>1, <1>2, <1>4, VLeft, StaysIdle
  <1> QED  BY <1>1, <1>3, <1>4

LEMMA VDeleteVector ==
  ASSUME Typed, VectorKept, NEW r \in Tasks, DeleteVector(r) PROVE VectorKept'
  <1>1. {"idle", "dropDeleted", "clearInfo"} \subseteq Phases
    BY DEF Phases
  <1>2. pc[r] = "idle" /\ vecCached' = vecCached /\ copyVec' = copyVec /\ lost' = lost
    BY DEF DeleteVector, redis, copies
  <1>3. CASE Goto(r, "dropDeleted") /\ VectorRaces(r)
    <2>1. CopiesOfVector'
      BY <1>1, <1>3, VChange
    <2>2. pc'[r] = "dropDeleted"
      BY <1>3 DEF Typed, TypeOK, Goto
    <2> QED  BY <2>1, <2>2 DEF VectorKept, VectorFresh
  <1>4. CASE pc' = pc /\ VectorRaces(r) /\ LeavesVector
    BY <1>1, <1>2, <1>4, VLeft, StaysIdle
  <1>5. CASE /\ Goto(r, "clearInfo") \/ UNCHANGED pc
             /\ UNCHANGED <<vec, racedVector, leftVector>>
    <2>1. PICK phase \in {"idle", "clearInfo"} : Goto(r, phase)
      BY <1>2, <1>5, StaysIdle
    <2> QED  BY <1>1, <1>2, <1>5, <2>1, VSame
  <1> QED  BY <1>3, <1>4, <1>5 DEF DeleteVector

LEMMA VReadVector ==
  ASSUME Typed, VectorKept, NEW r \in Tasks, ReadVector(r) PROVE VectorKept'
  <1>1. pc[r] = "readVector" /\ \A q \in Tasks \ {r} : pc'[q] = pc[q]
    BY DEF Typed, TypeOK, ReadVector, Goto
  <1>2. \A q \in Tasks \ {r} : copyVec'[q] = copyVec[q]
    BY DEF Typed, TypeOK, ReadVector
  <1>3. \/ pc'[r] = "idle"
        \/ pc'[r] = "cacheVector" /\ copyVec'[r] = vec /\ vec # 0
    BY DEF Typed, TypeOK, ReadVector, Goto
  <1>4. UNCHANGED <<stored, redis, history>>
    BY DEF ReadVector
  <1>5. CopiesOfVector'
    BY <1>1, <1>2, <1>3, <1>4
    DEF VectorKept, CopiesOfVector, stored, history
  <1>6. VectorFresh'
    BY <1>1, <1>3, <1>4 DEF VectorKept, VectorFresh, stored, redis, history
  <1> QED  BY <1>5, <1>6 DEF VectorKept

LEMMA VCacheVector ==
  ASSUME Typed, VectorKept, NEW r \in Tasks, CacheVector(r) PROVE VectorKept'
  <1>1. pc'[r] = "idle" /\ \A q \in Tasks \ {r} : pc'[q] = pc[q]
    BY DEF Typed, TypeOK, CacheVector, Goto
  <1>2. \A q \in Tasks \ {r} : copyVec'[q] = copyVec[q]
    BY DEF Typed, TypeOK, CacheVector, Forget
  <1>3. UNCHANGED <<stored, lost, raced>> /\ vecCached' = copyVec[r]
        /\ pc[r] = "cacheVector"
    BY DEF CacheVector, raced
  <1>4. CopiesOfVector'
    BY <1>1, <1>2, <1>3 DEF VectorKept, CopiesOfVector, stored, raced
  <1>5. VectorFresh'
    BY <1>3 DEF VectorKept, CopiesOfVector, VectorFresh, stored, raced
  <1> QED  BY <1>4, <1>5 DEF VectorKept

LEMMA VDropVector ==
  ASSUME Typed, VectorKept, NEW r \in Tasks, DropVector(r) PROVE VectorKept'
  <1>1. \A q \in Tasks \ {r} : pc'[q] = pc[q]
    BY DEF Typed, TypeOK, DropVector, Goto
  <1>2. pc'[r] # "cacheVector"
    BY DEF Typed, TypeOK, DropVector, Goto
  <1>3. UNCHANGED <<stored, copies, lost, raced>> /\ vecCached' = 0
    BY DEF DropVector, raced
  <1>4. CopiesOfVector'
    BY <1>1, <1>2, <1>3 DEF VectorKept, CopiesOfVector, stored, copies, raced
  <1>5. VectorFresh'
    BY <1>3 DEF VectorFresh
  <1> QED  BY <1>4, <1>5 DEF VectorKept

\* The other steps of a request.
LEMMA VOthers ==
  ASSUME Typed, VectorKept, NEW r \in Tasks,
         \/ Moves(r) \/ ReadInfo(r) \/ CacheInfo(r) \/ ClearInfo(r)
         \/ ClearResults(r) \/ CacheResults(r)
  PROVE  VectorKept'
  <1>1. PICK phase \in Phases \ {"cacheVector"} : Goto(r, phase)
    <2> DEFINE Reached == {"idle", "lookInfo", "readInfo", "cacheInfo",
                           "clearResults", "lookVector", "readVector",
                           "lookResults", "search", "cacheResults", "error"}
    <2>1. \E phase \in Reached : Goto(r, phase)
      BY DEF Moves, GetInfo, PutInfo, LookInfo, GetVector, LookVector, Search,
             LookResults, AnswerError, RunSearch, ReadInfo, CacheInfo,
             ClearInfo, ClearResults, CacheResults
    <2>2. Reached \subseteq Phases \ {"cacheVector"}
      BY DEF Phases
    <2> QED  BY <2>1, <2>2
  <1>2. pc[r] \notin {"dropUpdated", "dropDeleted"}
    BY DEF Moves, GetInfo, PutInfo, LookInfo, GetVector, LookVector, Search,
           LookResults, AnswerError, RunSearch, ReadInfo, CacheInfo,
           ClearInfo, ClearResults, CacheResults, StoringInfo
  <1>3. vec' = vec /\ vecCached' = vecCached /\ lost' = lost
        /\ racedVector' = racedVector /\ leftVector' = leftVector
    BY DEF Moves, GetInfo, PutInfo, LookInfo, GetVector, LookVector, Search,
           LookResults, AnswerError, RunSearch, ReadInfo, CacheInfo,
           ClearInfo, ClearResults, CacheResults, stored, redis, history, raced
  <1>4. UNCHANGED copyVec \/ Forget(r)
    BY DEF Moves, GetInfo, PutInfo, LookInfo, GetVector, LookVector, Search,
           LookResults, AnswerError, RunSearch, ReadInfo, CacheInfo,
           ClearInfo, ClearResults, CacheResults, copies
  <1>5. \A q \in Tasks \ {r} : copyVec'[q] = copyVec[q]
    BY <1>4 DEF Typed, TypeOK, Forget
  <1> QED  BY <1>1, <1>2, <1>3, <1>5, VSame

LEMMA VRest ==
  ASSUME VectorKept, Expiries \/ UNCHANGED vars PROVE VectorKept'
  <1>1. /\ pc' = pc /\ vec' = vec /\ copyVec' = copyVec
        /\ lost' = lost /\ racedVector' = racedVector
        /\ (vecCached' = vecCached /\ leftVector' = leftVector) \/ vecCached' = 0
    BY DEF Expiries, ExpireInfo, ExpireVector, ExpireResults, vars,
           stored, redis, copies, history, raced
  <1> QED  BY <1>1 DEF VectorKept, CopiesOfVector, VectorFresh

LEMMA VNext == ASSUME Typed, VectorKept, [Next]_vars PROVE VectorKept'
  <1>1. CASE Expiries \/ UNCHANGED vars
    BY <1>1, VRest
  <1>2. ASSUME NEW r \in Tasks, Failures(r) PROVE VectorKept'
    BY <1>2 DEF Failures, RedisFails, Dies, VectorKept, CopiesOfVector,
                VectorFresh
  <1>3. ASSUME NEW r \in Tasks,
               \/ Create(r) \/ DeleteDataset(r) \/ HalfDone(r) \/ Inserts(r)
               \/ UpdateVector(r) \/ DeleteVector(r) \/ Moves(r)
               \/ ReadInfo(r) \/ ReadVector(r) \/ Stores(r)
        PROVE  VectorKept'
    BY <1>3, VDataset, VInsert, VUpdateVector, VDeleteVector, VReadVector,
       VCacheVector, VDropVector, VOthers DEF Stores
  <1> QED  BY <1>1, <1>2, <1>3, Steps

\* The same of the cached vector, which its dataset leaves behind as well.
THEOREM CachedVectorIsFresh == Spec => []VectorFresh
  <1>1. Init => VectorKept
    BY VInit
  <1>2. Typed /\ VectorKept /\ [Next]_vars => VectorKept'
    BY VNext
  <1>3. VectorKept => VectorFresh
    BY DEF VectorKept
  <1> QED  BY <1>1, <1>2, <1>3, AlwaysTyped, PTL DEF Spec

=============================================================================
