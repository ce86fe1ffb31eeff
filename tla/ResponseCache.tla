--------------------------- MODULE ResponseCache ---------------------------
(***************************************************************************)
(* The redis cache in front of ONE dataset and ONE vector of it: the HTTP  *)
(* handlers of src/app/api/http/v1/{datasets,vectors,search}.py as users   *)
(* of CacheService and CacheManager (src/app/services/cache_service.py).   *)
(*                                                                         *)
(* Handlers look an entry up, and on a miss read DeepLakeService and store *)
(* what they read; changes go to DeepLakeService first and to the cache    *)
(* afterwards.  Each of these is a step, in any worker.  A call of         *)
(* DeepLakeService is one step here; DatasetDirectory and VectorTable say  *)
(* what happens inside.  A call that raises may have changed what is       *)
(* stored all the same; its handler answers an error and leaves the cache  *)
(* alone (the actions named ...Fails).  A redis command that raises is     *)
(* swallowed by CacheService: a lookup misses, a store or a delete does    *)
(* not happen.                                                             *)
(*                                                                         *)
(* The batch delete is no action: DELETE of /batch is taken by the route   *)
(* of delete_vector, which comes before it (vectors.py:303, 355), as the   *)
(* delete of a vector named batch.                                         *)
(*                                                                         *)
(* A dataset is known by the number of its creation (born), a vector by    *)
(* the number of its last write (vec); 0 is none.                          *)
(***************************************************************************)
EXTENDS Naturals

CONSTANTS
    Tasks,      \* slots for requests in progress
    MaxBorn,    \* bound: creations of the dataset
    MaxWrites,  \* bound: writes of the vector
    MaxSize     \* bound: vectors in the dataset

ASSUME ResponseCacheAssumption ==
    MaxBorn \in Nat /\ MaxWrites \in Nat /\ MaxSize \in Nat

VARIABLES
    \* what DeepLakeService has
    born, size, vec,
    wreck,                  \* a directory is left that is no dataset
    made, writes,           \* creations and writes so far
    \* redis
    infoBorn, infoSize,     \* dataset_info:<dataset>:...
    vecCached,              \* vector_info:<dataset>:<vector>:...
    resultsCached,          \* search_results:<dataset>:<query>:...
    \* each request
    pc,
    copyBorn, copySize, copyVec,    \* what it has read and is about to store
    \* history, no counterpart in the code
    lost,       \* a redis command raised, or a worker died in a request
    racedInfo,  \* the dataset was created or deleted while another request
                \* was about to store what it had read of it
    racedVector,    \* the vector was written or deleted while another request
                    \* was about to store what it had read of it
    leftInfo,   \* the cached dataset outlived a change whose handler failed
                \* before it came to the cache
    leftVector  \* the cached vector outlived such a change, or its dataset

stored == <<born, size, vec, wreck, made, writes>>
info == <<infoBorn, infoSize>>
redis == <<info, vecCached, resultsCached>>
copies == <<copyBorn, copySize, copyVec>>
raced == <<racedInfo, racedVector>>
history == <<lost, racedInfo, racedVector, leftInfo, leftVector>>
vars == <<stored, redis, pc, copies, history>>

Phases == {"idle",
           "lookInfo", "readInfo", "cacheInfo",         \* get, put a dataset
           "cacheNew",                                  \* create one
           "clearInfo", "clearResults",                 \* delete
           "lookVector", "readVector", "cacheVector",   \* get a vector
           "dropUpdated", "dropDeleted",                \* update, delete one
           "lookResults", "search", "cacheResults", "error"}
StoringInfo == {"cacheInfo", "cacheNew"}

Goto(r, phase) == pc' = [pc EXCEPT ![r] = phase]
Forget(r) ==
    /\ copyBorn' = [copyBorn EXCEPT ![r] = 0]
    /\ copySize' = [copySize EXCEPT ![r] = 0]
    /\ copyVec' = [copyVec EXCEPT ![r] = 0]

\* History: r creates or removes the dataset; r writes or removes the vector.
InfoRaces(r) ==
    racedInfo' = (racedInfo \/ \E q \in Tasks \ {r} : pc[q] \in StoringInfo)
VectorRaces(r) ==
    racedVector' = (racedVector \/ \E q \in Tasks \ {r} : pc[q] = "cacheVector")

\* History: a change leaves the entry of the dataset, or of the vector, behind.
LeavesInfo == leftInfo' = (leftInfo \/ infoBorn # 0)
LeavesVector == leftVector' = (leftVector \/ vecCached # 0)

Init ==
    /\ born = 0 /\ size = 0 /\ vec = 0 /\ wreck = FALSE
    /\ made = 0 /\ writes = 0
    /\ infoBorn = 0 /\ infoSize = 0 /\ vecCached = 0 /\ resultsCached = FALSE
    /\ pc = [r \in Tasks |-> "idle"]
    /\ copyBorn = [r \in Tasks |-> 0]
    /\ copySize = [r \in Tasks |-> 0]
    /\ copyVec = [r \in Tasks |-> 0]
    /\ lost = FALSE /\ racedInfo = FALSE /\ racedVector = FALSE
    /\ leftInfo = FALSE /\ leftVector = FALSE

-----------------------------------------------------------------------------
(* The dataset *)

\* A new dataset, or one that replaces another; a name that is taken is
\* refused unless overwrite is set, which changes nothing.
Create(r) ==
    /\ pc[r] = "idle" /\ made < MaxBorn
    /\ Goto(r, "cacheNew")
    /\ made' = made + 1 /\ born' = made + 1
    /\ size' = 0 /\ vec' = 0 /\ wreck' = FALSE
    /\ copyBorn' = [copyBorn EXCEPT ![r] = made + 1]
    /\ copySize' = [copySize EXCEPT ![r] = 0]
    /\ InfoRaces(r) /\ VectorRaces(r) /\ LeavesVector
    /\ UNCHANGED <<writes, redis, copyVec, lost, leftInfo>>

\* create_dataset raises, after overwrite removed what there was and with or
\* without a directory of its own, or list_datasets raises after the new one
\* was made.
CreateFails(r) ==
    /\ pc[r] = "idle"
    /\ \/ born' = 0 /\ wreck' \in BOOLEAN /\ UNCHANGED made
       \/ /\ made < MaxBorn
          /\ made' = made + 1 /\ born' = made + 1 /\ wreck' = FALSE
    /\ size' = 0 /\ vec' = 0
    /\ InfoRaces(r) /\ VectorRaces(r) /\ LeavesInfo /\ LeavesVector
    /\ UNCHANGED <<writes, redis, pc, copies, lost>>

\* get_dataset looks in the cache first, update_dataset does not; it checks
\* that the dataset is there and then reads it.
GetInfo(r) ==
    /\ pc[r] = "idle"
    /\ Goto(r, "lookInfo")
    /\ UNCHANGED <<stored, redis, copies, history>>

PutInfo(r) ==
    /\ pc[r] = "idle" /\ born # 0
    /\ Goto(r, "readInfo")
    /\ UNCHANGED <<stored, redis, copies, history>>

LookInfo(r) ==
    /\ pc[r] = "lookInfo"
    /\ Goto(r, IF infoBorn # 0 THEN "idle" ELSE "readInfo")
    /\ UNCHANGED <<stored, redis, copies, history>>

\* It is not there, or the service raises.
ReadInfo(r) ==
    /\ pc[r] = "readInfo"
    /\ \/ Goto(r, "idle") /\ UNCHANGED copies
       \/ /\ born # 0
          /\ Goto(r, "cacheInfo")
          /\ copyBorn' = [copyBorn EXCEPT ![r] = born]
          /\ copySize' = [copySize EXCEPT ![r] = size]
          /\ UNCHANGED copyVec
    /\ UNCHANGED <<stored, redis, history>>

CacheInfo(r) ==
    /\ pc[r] \in StoringInfo
    /\ infoBorn' = copyBorn[r] /\ infoSize' = copySize[r]
    /\ leftInfo' = FALSE
    /\ Goto(r, "idle") /\ Forget(r)
    /\ UNCHANGED <<stored, vecCached, resultsCached, lost, raced, leftVector>>

DeleteDataset(r) ==
    /\ pc[r] = "idle" /\ (born # 0 \/ wreck)
    /\ Goto(r, "clearInfo")
    /\ born' = 0 /\ size' = 0 /\ vec' = 0 /\ wreck' = FALSE
    /\ InfoRaces(r) /\ VectorRaces(r) /\ LeavesVector
    /\ UNCHANGED <<made, writes, redis, copies, lost, leftInfo>>

\* rmtree raises halfway: what is left is no dataset.
DeleteDatasetFails(r) ==
    /\ pc[r] = "idle" /\ (born # 0 \/ wreck)
    /\ born' = 0 /\ size' = 0 /\ vec' = 0 /\ wreck' = TRUE
    /\ InfoRaces(r) /\ VectorRaces(r) /\ LeavesInfo /\ LeavesVector
    /\ UNCHANGED <<made, writes, redis, pc, copies, lost>>

\* Mutant of ClearInfo: the pattern matches no entry of the dataset.
ClearInfoMisses(r) ==
    /\ pc[r] = "clearInfo"
    /\ Goto(r, "clearResults")
    /\ UNCHANGED <<stored, redis, copies, history>>

\* invalidate_dataset_cache: KEYS and DEL of dataset_info, then the same of
\* search_results; vector_info is not among them.
ClearInfo(r) ==
    /\ pc[r] = "clearInfo"
    /\ infoBorn' = 0 /\ infoSize' = 0 /\ leftInfo' = FALSE
    /\ Goto(r, "clearResults")
    /\ UNCHANGED <<stored, vecCached, resultsCached, copies, lost, raced, leftVector>>

ClearResults(r) ==
    /\ pc[r] = "clearResults"
    /\ resultsCached' = FALSE
    /\ Goto(r, "idle")
    /\ UNCHANGED <<stored, info, vecCached, copies, history>>

-----------------------------------------------------------------------------
(* The vector *)

\* n vectors, this one may be among them; a second row of this one is not
\* found while the first is there, and is not told apart from another vector.
Adds(n) ==
    /\ size + n <= MaxSize
    /\ size' = size + n
    /\ \/ UNCHANGED <<vec, writes>>
       \/ /\ n > 0 /\ vec = 0 /\ writes < MaxWrites
          /\ writes' = writes + 1 /\ vec' = writes + 1

\* The insert of one vector leaves the cache alone, whether it raises or not.
Insert(r) ==
    /\ pc[r] = "idle" /\ born # 0
    /\ Adds(1)
    /\ UNCHANGED <<born, wreck, made, redis, pc, copies, history>>

\* A batch clears the entries of the dataset, unless insert_vectors raises
\* after its rows are in, or get_dataset after it.
InsertBatch(r) ==
    /\ pc[r] = "idle" /\ born # 0
    /\ \E n \in 0 .. MaxSize : Adds(n)
    /\ Goto(r, "clearInfo") \/ UNCHANGED pc
    /\ UNCHANGED <<born, wreck, made, redis, copies, history>>

\* validate_dataset_access, then the cache.
GetVector(r) ==
    /\ pc[r] = "idle" /\ born # 0
    /\ Goto(r, "lookVector")
    /\ UNCHANGED <<stored, redis, copies, history>>

LookVector(r) ==
    /\ pc[r] = "lookVector"
    /\ Goto(r, IF vecCached # 0 THEN "idle" ELSE "readVector")
    /\ UNCHANGED <<stored, redis, copies, history>>

ReadVector(r) ==
    /\ pc[r] = "readVector"
    /\ \/ Goto(r, "idle") /\ UNCHANGED copyVec
       \/ /\ vec # 0
          /\ Goto(r, "cacheVector")
          /\ copyVec' = [copyVec EXCEPT ![r] = vec]
    /\ UNCHANGED <<stored, redis, copyBorn, copySize, history>>

CacheVector(r) ==
    /\ pc[r] = "cacheVector"
    /\ vecCached' = copyVec[r] /\ leftVector' = FALSE
    /\ Goto(r, "idle") /\ Forget(r)
    /\ UNCHANGED <<stored, info, resultsCached, lost, raced, leftInfo>>

\* The service raises after it wrote: at a later field, at the commit, or when
\* it reads the vector back.
UpdateVector(r) ==
    /\ pc[r] = "idle" /\ vec # 0 /\ writes < MaxWrites
    /\ writes' = writes + 1 /\ vec' = writes + 1
    /\ VectorRaces(r)
    /\ \/ Goto(r, "dropUpdated") /\ UNCHANGED leftVector
       \/ UNCHANGED pc /\ LeavesVector
    /\ UNCHANGED <<born, size, wreck, made, redis, copies, lost, racedInfo, leftInfo>>

\* Mutant of DeleteVector: what is not there is deleted as well.
DeleteVectorTwice(r) ==
    /\ pc[r] = "idle" /\ born # 0
    /\ Goto(r, "dropDeleted")
    /\ vec' = 0 /\ size' = size - 1
    /\ VectorRaces(r)
    /\ UNCHANGED <<born, wreck, made, writes, redis, copies, lost, racedInfo,
                   leftInfo, leftVector>>

\* Of this vector, or of another, whose own entry is not modelled; the service
\* may raise once it has popped an id.
DeleteVector(r) ==
    /\ pc[r] = "idle"
    /\ \/ /\ vec # 0 /\ vec' = 0 /\ VectorRaces(r)
          /\ \/ Goto(r, "dropDeleted") /\ UNCHANGED leftVector
             \/ UNCHANGED pc /\ LeavesVector
       \/ /\ size > IF vec = 0 THEN 0 ELSE 1
          /\ Goto(r, "clearInfo") \/ UNCHANGED pc
          /\ UNCHANGED <<vec, racedVector, leftVector>>
    /\ size' = size - 1
    /\ UNCHANGED <<born, wreck, made, writes, redis, copies, lost, racedInfo, leftInfo>>

\* Mutant of DropVector: only a delete drops the entry.
DropVectorOnDelete(r) ==
    /\ pc[r] \in {"dropUpdated", "dropDeleted"}
    /\ vecCached' = IF pc[r] = "dropDeleted" THEN 0 ELSE vecCached
    /\ Goto(r, IF pc[r] = "dropDeleted" THEN "clearInfo" ELSE "idle")
    /\ UNCHANGED <<stored, info, resultsCached, copies, history>>

\* invalidate_vector_cache; after a delete, invalidate_dataset_cache too.
DropVector(r) ==
    /\ pc[r] \in {"dropUpdated", "dropDeleted"}
    /\ vecCached' = 0 /\ leftVector' = FALSE
    /\ Goto(r, IF pc[r] = "dropDeleted" THEN "clearInfo" ELSE "idle")
    /\ UNCHANGED <<stored, info, resultsCached, copies, lost, raced, leftInfo>>

-----------------------------------------------------------------------------
(* Search *)

Search(r) ==
    /\ pc[r] = "idle" /\ born # 0
    /\ Goto(r, "lookResults")
    /\ UNCHANGED <<stored, redis, copies, history>>

\* What is stored is a list with one response; what is made of it after a
\* hit is a SearchResponse, and the validation of a list as one raises.
LookResults(r) ==
    /\ pc[r] = "lookResults"
    /\ Goto(r, IF resultsCached THEN "error" ELSE "search")
    /\ UNCHANGED <<stored, redis, copies, history>>

AnswerError(r) ==
    /\ pc[r] = "error"
    /\ Goto(r, "idle")
    /\ UNCHANGED <<stored, redis, copies, history>>

RunSearch(r) ==
    /\ pc[r] = "search"
    /\ Goto(r, "idle") \/ (born # 0 /\ Goto(r, "cacheResults"))
    /\ UNCHANGED <<stored, redis, copies, history>>

CacheResults(r) ==
    /\ pc[r] = "cacheResults"
    /\ resultsCached' = TRUE
    /\ Goto(r, "idle")
    /\ UNCHANGED <<stored, info, vecCached, copies, history>>

-----------------------------------------------------------------------------
(* Redis and the workers *)

\* What a handler does next when the redis command it is at raises.
AfterFailure(r) ==
    CASE pc[r] = "lookInfo" -> "readInfo"
      [] pc[r] = "lookVector" -> "readVector"
      [] pc[r] = "lookResults" -> "search"
      [] pc[r] = "dropDeleted" -> "clearInfo"
      [] pc[r] = "clearInfo" -> "clearResults"
      [] OTHER -> "idle"

RedisFails(r) ==
    /\ pc[r] \notin {"idle", "readInfo", "readVector", "search", "error"}
    /\ Goto(r, AfterFailure(r)) /\ Forget(r)
    /\ lost' = TRUE
    /\ UNCHANGED <<stored, redis, raced, leftInfo, leftVector>>

\* The worker dies in the middle of a request.
Dies(r) ==
    /\ pc[r] # "idle"
    /\ Goto(r, "idle") /\ Forget(r)
    /\ lost' = TRUE
    /\ UNCHANGED <<stored, redis, raced, leftInfo, leftVector>>

\* setex: an entry lasts 900, 1800 or 300 seconds.
ExpireInfo ==
    /\ infoBorn # 0
    /\ infoBorn' = 0 /\ infoSize' = 0 /\ leftInfo' = FALSE
    /\ UNCHANGED <<stored, vecCached, resultsCached, pc, copies, lost, raced, leftVector>>

ExpireVector ==
    /\ vecCached # 0
    /\ vecCached' = 0 /\ leftVector' = FALSE
    /\ UNCHANGED <<stored, info, resultsCached, pc, copies, lost, raced, leftInfo>>

ExpireResults ==
    /\ resultsCached
    /\ resultsCached' = FALSE
    /\ UNCHANGED <<stored, info, vecCached, pc, copies, history>>

Handle(r) ==
    \/ Create(r) \/ CreateFails(r) \/ GetInfo(r) \/ PutInfo(r) \/ LookInfo(r)
    \/ ReadInfo(r) \/ CacheInfo(r)
    \/ DeleteDataset(r) \/ DeleteDatasetFails(r) \/ ClearInfo(r) \/ ClearResults(r)
    \/ Insert(r) \/ InsertBatch(r) \/ GetVector(r) \/ LookVector(r) \/ ReadVector(r)
    \/ CacheVector(r) \/ UpdateVector(r) \/ DeleteVector(r) \/ DropVector(r)
    \/ Search(r) \/ LookResults(r) \/ AnswerError(r) \/ RunSearch(r)
    \/ CacheResults(r)

Next ==
    \/ \E r \in Tasks : Handle(r) \/ RedisFails(r) \/ Dies(r)
    \/ ExpireInfo \/ ExpireVector \/ ExpireResults

Spec == Init /\ [][Next]_vars

-----------------------------------------------------------------------------
(* Properties *)

\* Every variable has its type.
TypeOK ==
    /\ born \in 0 .. MaxBorn /\ made \in 0 .. MaxBorn
    /\ size \in 0 .. MaxSize /\ wreck \in BOOLEAN
    /\ vec \in 0 .. MaxWrites /\ writes \in 0 .. MaxWrites
    /\ infoBorn \in 0 .. MaxBorn /\ infoSize \in 0 .. MaxSize
    /\ vecCached \in 0 .. MaxWrites /\ resultsCached \in BOOLEAN
    /\ pc \in [Tasks -> Phases]
    /\ copyBorn \in [Tasks -> 0 .. MaxBorn]
    /\ copySize \in [Tasks -> 0 .. MaxSize]
    /\ copyVec \in [Tasks -> 0 .. MaxWrites]
    /\ lost \in BOOLEAN
    /\ racedInfo \in BOOLEAN /\ racedVector \in BOOLEAN
    /\ leftInfo \in BOOLEAN /\ leftVector \in BOOLEAN

\* Whatever the order of the handlers: if redis and the workers did not fail,
\* and no change overlapped a request that was about to store what it had
\* read, then the cached dataset is the one that is there, or the request that
\* changed it has yet to touch the cache, and so has not been answered, or it
\* is the very entry that was cached when a create or a delete failed after
\* it had changed the dataset: such an entry ends with its 900 seconds, with
\* the next change that succeeds, or with the next store.
InfoFresh ==
    (infoBorn # 0 /\ ~lost /\ ~racedInfo /\ ~leftInfo) =>
        \/ infoBorn = born
        \/ \E r \in Tasks : pc[r] \in {"cacheNew", "clearInfo"}

\* The same of the vector, after updates and deletes that failed once they had
\* changed it, and after its dataset went away under the entry.
VectorFresh ==
    (vecCached # 0 /\ ~lost /\ ~racedVector /\ ~leftVector) =>
        \/ vecCached = vec
        \/ \E r \in Tasks : pc[r] \in {"dropUpdated", "dropDeleted"}

-----------------------------------------------------------------------------
(* Properties the code does not have *)

Quiet == \A r \in Tasks : pc[r] = "idle"

\* Docstring of invalidate_dataset_cache, "Invalidate all cache entries for a
\* dataset.": no vector of a dataset that was deleted or replaced is cached
\* once all requests were answered, although redis and the workers did not
\* fail and no change overlapped a fill.
NoVectorOfAnOldDataset ==
    (Quiet /\ ~lost /\ ~racedVector /\ vecCached # 0) => vecCached = vec

\* The same docstring: once the delete of a dataset was answered, the cache
\* does not hold the dataset.
DeletedDatasetIsNotCached ==
    (Quiet /\ ~lost /\ ~leftInfo /\ born = 0) => infoBorn = 0

\* docs/architecture.md:173, in the flow of an insert, "Invalidate related
\* cache": the vector count in the cache is the current one.
CachedCountIsCurrent ==
    (Quiet /\ ~lost /\ ~racedInfo /\ ~leftInfo /\ infoBorn # 0) => infoSize = size

\* README.md:266, "Repeating an identical query vector returns the
\* Redis-cached response": a search that finds its results in the cache
\* answers them.
RepeatedSearchAnswers == \A r \in Tasks : pc[r] # "error"

=============================================================================
