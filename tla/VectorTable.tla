---------------------------- MODULE VectorTable ----------------------------
(***************************************************************************)
(* The rows of ONE dataset behind ONE handle of DeepLakeService            *)
(* (src/app/services/deeplake_service.py): insert_vectors, get_vector,     *)
(* update_vector and delete_vector, the scans by which they find a row,    *)
(* and the commits that make their changes durable.                        *)
(*                                                                         *)
(* The handle holds a working copy of the columns, shared by the event     *)
(* loop and by every executor thread without a lock; commit saves it.  The *)
(* loop of insert_vectors runs on the event loop from its first vector to  *)
(* its last (turn); everything else runs in executor threads, in steps     *)
(* that interleave with it and with each other.  Between two executor      *)
(* calls a coroutine only waits for the loop, which delays the next call   *)
(* and is not a step here.                                                 *)
(*                                                                         *)
(* Of the fourteen columns two are kept: id, which the scans read and which *)
(* is popped first, and the others as one, rest.  A row of rest carries a  *)
(* number that tells rows apart and the id it was inserted with, and the   *)
(* versions of its values, the field an update writes first, and of its    *)
(* metadata, which stands for the fields it writes after them.             *)
(***************************************************************************)
EXTENDS Naturals, Sequences, FiniteSets, SequencesExt

CONSTANTS
    Ids,            \* vector ids
    Tasks,          \* slots for requests in progress
    NoTask,         \* the event loop is between coroutines
    Batches,        \* the sequences of ids that an insert may carry
    Modes,          \* the flags an insert may carry, see Inserts
    CommitAttempts, \* max_retries of insert_vectors: 5 in the code
    MaxRows,        \* bound: rows ever appended
    MaxUpdates      \* bound: updates of one row

Inserts == {"insert", "skip", "overwrite"}
ByIndex == {"get", "update", "delete"}
Phases == {"idle", "exists", "append", "find", "poprest", "popid",
           "write", "writemeta", "readrest", "readid", "commit"}

ASSUME TableAssumption ==
    /\ NoTask \notin Tasks
    /\ Modes \subseteq Inserts
    /\ Batches \subseteq Seq(Ids) \ {<<>>}
    /\ CommitAttempts \in Nat \ {0}
    /\ MaxRows \in Nat /\ MaxUpdates \in Nat

VARIABLES
    \* the handle's working copy and what was committed last
    id, rest,
    saved,
    turn,       \* the insert that holds the event loop
    \* each request
    pc,         \* what it does next
    op,         \* "insert", "skip", "overwrite", "get", "update", "delete"
    todo,       \* ids it has still to insert, or the one id it is about
    at,         \* the index its scan has reached, or found
    limit,      \* len(dataset) when the scan began
    retry,      \* commit attempts that met a lock
    mine,       \* the rows it wrote
    \* history, no counterpart in the code
    appended,   \* number of rows appended so far
    acked,      \* rows, as written, that a request was told are stored
                \* and no later delete was asked to remove
    raced,      \* a delete met a get, an update or another delete
    half,       \* a delete failed between its pops, in this process
    torn,       \* a delete met an insert, or a commit saved what a failed
                \* delete had left half popped
    plain,      \* an insert without skip_existing began
    crossed     \* two updates of one vector met

columns == <<id, rest>>
scan == <<at, limit>>
request == <<pc, op, todo, scan, retry, mine>>
history == <<appended, acked, raced, half, torn, plain, crossed>>
vars == <<columns, saved, turn, request, history>>

Versions == 0 .. MaxUpdates
Rows == [row : 1 .. MaxRows, of : Ids, values : Versions, meta : Versions]
Tables == [id : Seq(Ids), rest : Seq(Rows)]

TablesTyped ==
    /\ id \in Seq(Ids) /\ rest \in Seq(Rows)
    /\ saved \in Tables
    /\ appended \in 0 .. MaxRows
    /\ acked \subseteq Rows

RequestsTyped ==
    /\ turn \in Tasks \cup {NoTask}
    /\ pc \in [Tasks -> Phases]
    /\ op \in [Tasks -> Inserts \cup ByIndex]
    /\ todo \in [Tasks -> Seq(Ids)]
    /\ at \in [Tasks -> 1 .. MaxRows + 1]
    /\ limit \in [Tasks -> 0 .. MaxRows]
    /\ retry \in [Tasks -> 0 .. CommitAttempts - 1]
    /\ mine \in [Tasks -> SUBSET Rows]

FlagsTyped ==
    /\ raced \in BOOLEAN /\ half \in BOOLEAN /\ torn \in BOOLEAN
    /\ plain \in BOOLEAN /\ crossed \in BOOLEAN

TypeOK == TablesTyped /\ RequestsTyped /\ FlagsTyped

Busy(t) == pc[t] # "idle"
Target(t) == Head(todo[t])

Init ==
    /\ id = <<>> /\ rest = <<>>
    /\ saved = [id |-> <<>>, rest |-> <<>>]
    /\ turn = NoTask
    /\ pc = [t \in Tasks |-> "idle"]
    /\ op = [t \in Tasks |-> "get"]
    /\ todo = [t \in Tasks |-> <<>>]
    /\ at = [t \in Tasks |-> 1]
    /\ limit = [t \in Tasks |-> 0]
    /\ retry = [t \in Tasks |-> 0]
    /\ mine = [t \in Tasks |-> {}]
    /\ appended = 0 /\ acked = {}
    /\ raced = FALSE /\ half = FALSE /\ torn = FALSE
    /\ plain = FALSE /\ crossed = FALSE

-----------------------------------------------------------------------------
Goto(t, phase) == pc' = [pc EXCEPT ![t] = phase]

BeginScan(t, len) ==
    /\ at' = [at EXCEPT ![t] = 1]
    /\ limit' = [limit EXCEPT ![t] = len]

(* An answer or an exception: the request is over.                          *)
Finish(t) ==
    /\ Goto(t, "idle")
    /\ op' = [op EXCEPT ![t] = "get"]
    /\ todo' = [todo EXCEPT ![t] = <<>>]
    /\ BeginScan(t, 0)
    /\ retry' = [retry EXCEPT ![t] = 0]
    /\ mine' = [mine EXCEPT ![t] = {}]

(* for i in range(len(dataset)): the row at i has the id.  A row that is    *)
(* gone by the time it is read raises, and the scan then answers as if the  *)
(* id were nowhere.                                                         *)
\* Mutant of ScanFails: the last row is not looked at.
ScanFailsEarly(t) == at[t] >= limit[t] \/ at[t] > Len(id)

ScanFails(t) == at[t] > limit[t] \/ at[t] > Len(id)
ScanHits(t) == ~ScanFails(t) /\ id[at[t]] = Target(t)

ScanNext(t) ==
    /\ ~ScanFails(t) /\ ~ScanHits(t)
    /\ at' = [at EXCEPT ![t] = at[t] + 1]
    /\ UNCHANGED <<columns, saved, turn, pc, op, todo, limit, retry, mine, history>>

-----------------------------------------------------------------------------
(* insert_vectors                                                           *)

(* The loop over the vectors: left are still to come, the table has len     *)
(* rows.  After the last one the coroutine leaves the event loop.           *)
Visit(t, kind, left, len) ==
    /\ todo' = [todo EXCEPT ![t] = left]
    /\ \/ /\ left = <<>>
          /\ Goto(t, "commit")
          /\ turn' = NoTask
          /\ BeginScan(t, 0)
       \/ /\ left # <<>>
          /\ turn' = t
          /\ IF kind = "skip"
             THEN Goto(t, "exists") /\ BeginScan(t, len)
             ELSE Goto(t, "append") /\ UNCHANGED scan

InsertStart(t) ==
    \E b \in Batches, kind \in Modes :
        /\ ~Busy(t)
        /\ turn = NoTask
        /\ op' = [op EXCEPT ![t] = kind]
        /\ Visit(t, kind, b, Len(id))
        /\ torn' = (torn \/ \E u \in Tasks : Busy(u) /\ op[u] = "delete")
        /\ plain' = (plain \/ kind # "skip")
        /\ UNCHANGED <<columns, saved, retry, mine, appended, acked, raced, half, crossed>>

(* _vector_exists, row by row.  An id that is found is skipped.             *)
ExistsHit(t) ==
    /\ pc[t] = "exists" /\ ScanHits(t)
    /\ Visit(t, op[t], Tail(todo[t]), Len(id))
    /\ UNCHANGED <<columns, saved, op, retry, mine, history>>

ExistsMiss(t) ==
    /\ pc[t] = "exists" /\ ScanFails(t)
    /\ Goto(t, "append")
    /\ BeginScan(t, 0)
    /\ UNCHANGED <<columns, saved, turn, op, todo, retry, mine, history>>

(* dataset.append of one row with all its columns.                          *)
AppendRow(t) ==
    LET r == [row |-> appended + 1, of |-> Target(t), values |-> 0, meta |-> 0] IN
    /\ pc[t] = "append"
    /\ appended < MaxRows
    /\ id' = Append(id, Target(t))
    /\ rest' = Append(rest, r)
    /\ appended' = appended + 1
    /\ mine' = [mine EXCEPT ![t] = mine[t] \cup {r}]
    /\ Visit(t, op[t], Tail(todo[t]), Len(id) + 1)
    /\ UNCHANGED <<saved, op, retry, acked, raced, half, torn, plain, crossed>>

(* Wrong dimensions, or append raises: counted as failed, and the next.     *)
AppendFails(t) ==
    /\ pc[t] = "append"
    /\ Visit(t, op[t], Tail(todo[t]), Len(id))
    /\ UNCHANGED <<columns, saved, op, retry, mine, history>>

-----------------------------------------------------------------------------
(* get_vector, update_vector, delete_vector: find the row's index in one    *)
(* executor call, use the index in the next.                                *)

ByIndexStart(t) ==
    \E kind \in ByIndex, v \in Ids :
        /\ ~Busy(t)
        /\ turn = NoTask
        /\ Goto(t, "find")
        /\ op' = [op EXCEPT ![t] = kind]
        /\ todo' = [todo EXCEPT ![t] = <<v>>]
        /\ BeginScan(t, Len(id))
        /\ raced' = (raced \/ \E u \in Tasks :
                        Busy(u) /\ op[u] \in ByIndex /\ "delete" \in {kind, op[u]})
        /\ torn' = (torn \/ \E u \in Tasks :
                        Busy(u) /\ op[u] \in Inserts /\ kind = "delete")
        /\ crossed' = (crossed \/ \E u \in Tasks :
                        Busy(u) /\ kind = "update" /\ op[u] = "update" /\ Target(u) = v)
        /\ acked' = {a \in acked : kind = "delete" => a.of # v}
        /\ UNCHANGED <<columns, saved, turn, retry, mine, appended, half, plain>>

\* Mutant of FindHit: the index counts from one.
FindHitOneBased(t) ==
    /\ pc[t] = "find" /\ ScanHits(t)
    /\ Goto(t, CASE op[t] = "get" -> "readrest"
                 [] op[t] = "update" -> "write"
                 [] op[t] = "delete" -> "popid")
    /\ at' = [at EXCEPT ![t] = at[t] + 1]
    /\ limit' = [limit EXCEPT ![t] = 0]
    /\ UNCHANGED <<columns, saved, turn, op, todo, retry, mine, history>>

FindHit(t) ==
    /\ pc[t] = "find" /\ ScanHits(t)
    /\ Goto(t, CASE op[t] = "get" -> "readrest"
                 [] op[t] = "update" -> "write"
                 [] op[t] = "delete" -> "popid")
    /\ limit' = [limit EXCEPT ![t] = 0]
    /\ UNCHANGED <<columns, saved, turn, op, todo, at, retry, mine, history>>

(* VectorNotFoundException.                                                 *)
FindMiss(t) ==
    /\ pc[t] = "find" /\ ScanFails(t)
    /\ Finish(t)
    /\ UNCHANGED <<columns, saved, turn, history>>

(* _get_vector_data_by_index reads the metadata first and then the id, and  *)
(* answers with what it read.                                               *)
ReadRest(t) ==
    /\ pc[t] = "readrest"
    /\ at[t] <= Len(rest)
    /\ mine' = [mine EXCEPT ![t] = {rest[at[t]]}]
    /\ Goto(t, "readid")
    /\ UNCHANGED <<columns, saved, turn, op, todo, scan, retry, history>>

ReadId(t) ==
    /\ pc[t] = "readid"
    /\ at[t] <= Len(id)
    /\ Finish(t)
    /\ UNCHANGED <<columns, saved, turn, history>>

(* _update_vector_at_index: the values first, then one field after another, *)
(* each in the row that is at the index when it is written.                 *)
WriteValues(t) ==
    LET r == [rest[at[t]] EXCEPT !.values = rest[at[t]].values + 1] IN
    /\ pc[t] = "write"
    /\ at[t] <= Len(rest)
    /\ rest[at[t]].values < MaxUpdates
    /\ rest' = [rest EXCEPT ![at[t]] = r]
    /\ mine' = [mine EXCEPT ![t] = {r}]
    /\ Goto(t, "writemeta")
    /\ UNCHANGED <<id, saved, turn, op, todo, scan, retry, history>>

WriteMeta(t) ==
    /\ pc[t] = "writemeta"
    /\ at[t] <= Len(rest)
    /\ \E r \in mine[t] :
           /\ rest' = [rest EXCEPT ![at[t]].meta = r.values]
           /\ mine' = [mine EXCEPT ![t] = {[r EXCEPT !.meta = r.values]}]
    /\ Goto(t, "commit")
    /\ BeginScan(t, 0)
    /\ UNCHANGED <<id, saved, turn, op, todo, retry, history>>

(* _delete_vector_at_index, up to its commit.                               *)
PopId(t) ==
    /\ pc[t] = "popid"
    /\ at[t] <= Len(id)
    /\ id' = RemoveAt(id, at[t])
    /\ Goto(t, "poprest")
    /\ UNCHANGED <<rest, saved, turn, op, todo, scan, retry, mine, history>>

\* Mutant of PopRest: pop() without the index.
PopRestLast(t) ==
    /\ pc[t] = "poprest"
    /\ at[t] <= Len(rest)
    /\ rest' = RemoveAt(rest, Len(rest))
    /\ Goto(t, "commit")
    /\ BeginScan(t, 0)
    /\ UNCHANGED <<id, saved, turn, op, todo, retry, mine, history>>

PopRest(t) ==
    /\ pc[t] = "poprest"
    /\ at[t] <= Len(rest)
    /\ rest' = RemoveAt(rest, at[t])
    /\ Goto(t, "commit")
    /\ BeginScan(t, 0)
    /\ UNCHANGED <<id, saved, turn, op, todo, retry, mine, history>>

(* The index is past the end of the column by now, or the library raises:   *)
(* what was done of the call stays done.                                    *)
Raises(t) ==
    /\ pc[t] \in {"readrest", "readid", "write", "writemeta", "popid", "poprest"}
    /\ half' = (half \/ pc[t] = "poprest")
    /\ Finish(t)
    /\ UNCHANGED <<columns, saved, turn, appended, acked, raced, torn, plain, crossed>>

-----------------------------------------------------------------------------
(* commit saves the working copy as it is, whoever changed it.  An update   *)
(* answers with a get_vector of its own.                                    *)
Commit(t) ==
    /\ pc[t] = "commit"
    /\ saved' = [id |-> id, rest |-> rest]
    /\ acked' = acked \cup mine[t]
    /\ torn' = (torn \/ half)
    /\ \/ /\ op[t] # "update"
          /\ Finish(t)
       \/ /\ op[t] = "update"
          /\ Goto(t, "find")
          /\ op' = [op EXCEPT ![t] = "get"]
          /\ BeginScan(t, Len(id))
          /\ mine' = [mine EXCEPT ![t] = {}]
          /\ UNCHANGED <<todo, retry>>
    /\ UNCHANGED <<columns, turn, appended, raced, half, plain, crossed>>

\* Mutants of CommitLocked: one attempt too many; the count starts again.
CommitLockedOnceMore(t) ==
    /\ pc[t] = "commit" /\ op[t] \in Inserts
    /\ retry[t] < CommitAttempts
    /\ retry' = [retry EXCEPT ![t] = retry[t] + 1]
    /\ UNCHANGED <<columns, saved, turn, pc, op, todo, scan, mine, history>>

CommitLockedWraps(t) ==
    /\ pc[t] = "commit" /\ op[t] \in Inserts
    /\ retry' = [retry EXCEPT ![t] = (retry[t] + 1) % CommitAttempts]
    /\ UNCHANGED <<columns, saved, turn, pc, op, todo, scan, mine, history>>

(* insert_vectors tries again when the error names a lock.                  *)
CommitLocked(t) ==
    /\ pc[t] = "commit" /\ op[t] \in Inserts
    /\ retry[t] < CommitAttempts - 1
    /\ retry' = [retry EXCEPT ![t] = retry[t] + 1]
    /\ UNCHANGED <<columns, saved, turn, pc, op, todo, scan, mine, history>>

\* Mutant of CommitFails: the loop over the attempts ends and answers success.
CommitFailsQuietly(t) ==
    /\ pc[t] = "commit"
    /\ acked' = acked \cup mine[t]
    /\ Finish(t)
    /\ UNCHANGED <<columns, saved, turn, appended, raced, half, torn, plain, crossed>>

(* Any other error, or the last attempt: the request fails, and what it     *)
(* changed stays in the working copy.                                       *)
CommitFails(t) ==
    /\ pc[t] = "commit"
    /\ Finish(t)
    /\ UNCHANGED <<columns, saved, turn, history>>

(* The process dies; the next one opens the table as it was committed.      *)
Restart ==
    /\ id' = saved.id /\ rest' = saved.rest
    /\ turn' = NoTask
    /\ pc' = [t \in Tasks |-> "idle"]
    /\ op' = [t \in Tasks |-> "get"]
    /\ todo' = [t \in Tasks |-> <<>>]
    /\ at' = [t \in Tasks |-> 1]
    /\ limit' = [t \in Tasks |-> 0]
    /\ retry' = [t \in Tasks |-> 0]
    /\ mine' = [t \in Tasks |-> {}]
    /\ half' = FALSE
    /\ UNCHANGED <<saved, appended, acked, raced, torn, plain, crossed>>

-----------------------------------------------------------------------------
Start(t) == InsertStart(t) \/ ByIndexStart(t)

Scan(t) ==
    \/ pc[t] \in {"exists", "find"} /\ ScanNext(t)
    \/ ExistsHit(t) \/ ExistsMiss(t)
    \/ FindHit(t) \/ FindMiss(t)

Use(t) ==
    \/ AppendRow(t) \/ AppendFails(t)
    \/ ReadRest(t) \/ ReadId(t)
    \/ WriteValues(t) \/ WriteMeta(t)
    \/ PopId(t) \/ PopRest(t)
    \/ Raises(t)

Save(t) == Commit(t) \/ CommitLocked(t) \/ CommitFails(t)

Next == Restart \/ \E t \in Tasks : Start(t) \/ Scan(t) \/ Use(t) \/ Save(t)

Spec == Init /\ [][Next]_vars

(* A coroutine that runs goes on, and an executor call ends.                *)
FairSpec == Spec /\ \A t \in Tasks : WF_vars(Scan(t) \/ Use(t) \/ Save(t))

-----------------------------------------------------------------------------
(* Properties                                                               *)

Aligned(tab) ==
    /\ Len(tab.id) = Len(tab.rest)
    /\ \A i \in 1 .. Len(tab.id) : tab.rest[i].of = tab.id[i]

(* A row has what was once written to it, or something newer.               *)
Covers(r, a) ==
    r.row = a.row /\ r.of = a.of /\ r.values >= a.values /\ r.meta >= a.meta

(* A request that found its vector by index stands, for as long as it uses  *)
(* the index, at a row of that vector, provided no delete met another       *)
(* request that goes by index; the columns after the id are that row's too, *)
(* unless a delete met an insert or had left the columns half popped.       *)
RightRow ==
    ~raced => \A t \in Tasks :
        /\ pc[t] \in {"write", "writemeta", "readrest", "readid"} =>
              /\ at[t] <= Len(id) /\ id[at[t]] = Target(t)
              /\ torn \/ half \/ rest[at[t]].of = Target(t)
        /\ pc[t] = "popid" => at[t] <= Len(id) /\ id[at[t]] = Target(t)

(* The columns of the saved table line up, row for row, provided no delete  *)
(* met another request and no commit saved what a failed delete had left    *)
(* half popped.  So a delete that fails between its pops does no harm that  *)
(* a restart before the next commit does not undo.  The columns of the      *)
(* working copy line up whenever no delete stands between its pops or       *)
(* failed there in this process.                                            *)
ColumnsAligned ==
    (~raced /\ ~torn) =>
        /\ Aligned(saved)
        /\ (~half /\ \A t \in Tasks : pc[t] # "poprest") =>
               Aligned([id |-> id, rest |-> rest])

(* What an insert or an update was told is stored is in the committed       *)
(* table, in every field and across restarts, failed commits and deletes    *)
(* that fail between their pops, until a delete of that vector begins,      *)
(* provided no delete met another request, no commit saved what a failed    *)
(* delete had left half popped, and no two updates of one vector met.       *)
AckedDurable ==
    (~raced /\ ~torn /\ ~crossed) => \A a \in acked :
        \E i \in DOMAIN saved.rest : Covers(saved.rest[i], a)

(* Inserts with skip_existing never give two rows one id, whatever the      *)
(* inserts that meet and the commits that fail, provided every insert asked *)
(* for it, no delete met one of them and no commit saved what a failed      *)
(* delete had left half popped.                                             *)
SkipExistingUnique == (~plain /\ ~torn) => IsInjective(id)

(* Every request ends: the retries of the commit are bounded.               *)
EveryRequestEnds == \A t \in Tasks : Busy(t) ~> ~Busy(t)

(* The same as RightRow, for a delete, whatever it meets.                   *)
DeletesItsVector ==
    \A t \in Tasks : (pc[t] = "popid" /\ at[t] <= Len(id)) => id[at[t]] = Target(t)

(* The same as SkipExistingUnique with deletes that meet inserts.           *)
SkipExistingAlwaysUnique == ~plain => IsInjective(id)

(* An update is stored as a whole: no commit saves the values of one update *)
(* beside the metadata of another, or of none.                              *)
UpdatesAreWhole == \A i \in DOMAIN saved.rest : saved.rest[i].values = saved.rest[i].meta

(* No commit saves a row without the other columns.                         *)
SavedAligned == ~raced => Len(saved.id) = Len(saved.rest)

(* An insert with overwrite leaves one row of each of its vectors.          *)
OverwriteReplaces ==
    [][\A t \in Tasks : (op[t] = "overwrite" /\ acked' # acked /\ pc'[t] = "idle") =>
          \A r \in mine[t], i \in DOMAIN rest :
              rest[i].of = r.of => rest[i].row = r.row]_vars
=============================================================================
