------------------------- MODULE VectorTableProofs -------------------------
(***************************************************************************)
(* Proofs about VectorTable, for every set of ids and of request slots,    *)
(* every set of batches and every bound.                                   *)
(***************************************************************************)
EXTENDS VectorTable, SequenceTheorems, TLAPS

(* RemoveAt drops one element and moves those behind it up by one place.    *)
LEMMA RemoveAtElements ==
    ASSUME NEW S, NEW s \in Seq(S), NEW i \in 1 .. Len(s)
    PROVE  /\ RemoveAt(s, i) \in Seq(S)
           /\ Len(RemoveAt(s, i)) = Len(s) - 1
           /\ \A j \in 1 .. Len(s) - 1 :
                 RemoveAt(s, i)[j] = IF j < i THEN s[j] ELSE s[j + 1]
<1> DEFINE front == SubSeq(s, 1, i - 1)
           back == SubSeq(s, i + 1, Len(s))
<1>1. front \in Seq(S) /\ Len(front) = i - 1
      /\ \A j \in 1 .. i - 1 : front[j] = s[j]
  OBVIOUS
<1>2. back \in Seq(S) /\ Len(back) = Len(s) - i
      /\ \A j \in 1 .. Len(s) - i : back[j] = s[i + j]
  OBVIOUS
<1>3. RemoveAt(s, i) = front \o back
  BY DEF RemoveAt
<1> HIDE DEF front, back
<1>4. front \o back \in Seq(S) /\ Len(front \o back) = Len(s) - 1
  BY <1>1, <1>2
<1>5. ASSUME NEW j \in 1 .. Len(s) - 1
      PROVE  (front \o back)[j] = IF j < i THEN s[j] ELSE s[j + 1]
  BY <1>1, <1>2
<1> QED BY <1>3, <1>4, <1>5

(* What remains of a sequence without repetitions has none.                 *)
LEMMA RemoveAtKeepsInjective ==
    ASSUME NEW S, NEW s \in Seq(S), NEW i \in 1 .. Len(s), IsInjective(s)
    PROVE  IsInjective(RemoveAt(s, i))
<1> DEFINE r == RemoveAt(s, i)
<1>1. /\ r \in Seq(S) /\ Len(r) = Len(s) - 1
      /\ \A j \in 1 .. Len(s) - 1 : r[j] = IF j < i THEN s[j] ELSE s[j + 1]
  BY RemoveAtElements
<1> HIDE DEF r
<1>2. DOMAIN r = 1 .. Len(s) - 1
  BY <1>1
<1>3. ASSUME NEW j \in 1 .. Len(s) - 1, NEW k \in 1 .. Len(s) - 1, r[j] = r[k]
      PROVE  j = k
  <2> DEFINE J == IF j < i THEN j ELSE j + 1
             K == IF k < i THEN k ELSE k + 1
  <2>1. J \in DOMAIN s /\ K \in DOMAIN s /\ s[J] = s[K]
    BY <1>1, <1>3
  <2>2. J = K
    BY <2>1 DEF IsInjective
  <2> QED BY <2>2
<1> QED BY <1>2, <1>3 DEF IsInjective, r

(* An element that is not in the sequence may be appended.                  *)
LEMMA AppendKeepsInjective ==
    ASSUME NEW S, NEW s \in Seq(S), NEW e \in S, IsInjective(s),
           \A j \in 1 .. Len(s) : s[j] # e
    PROVE  IsInjective(Append(s, e))
<1> DEFINE r == Append(s, e)
<1>1. /\ r \in Seq(S) /\ Len(r) = Len(s) + 1
      /\ \A j \in 1 .. Len(s) : r[j] = s[j]
      /\ r[Len(s) + 1] = e
  BY AppendProperties
<1> SUFFICES IsInjective(r)
  OBVIOUS
<1> HIDE DEF r
<1>2. DOMAIN r = 1 .. Len(s) + 1 /\ DOMAIN s = 1 .. Len(s)
  BY <1>1
<1>3. ASSUME NEW j \in 1 .. Len(s) + 1, NEW k \in 1 .. Len(s) + 1, r[j] = r[k]
      PROVE  j = k
  BY <1>1, <1>2, <1>3 DEF IsInjective
<1>4. SUFFICES ASSUME NEW j \in DOMAIN r, NEW k \in DOMAIN r, r[j] = r[k]
               PROVE  j = k
  BY Zenon DEF IsInjective
<1> QED BY <1>2, <1>3, <1>4

-----------------------------------------------------------------------------
(* Sizes bounds what a scan can reach.  Working says what a request in each *)
(* phase is about; an insert visits its vectors only while it holds the     *)
(* event loop, which is what makes the check and the append one step for    *)
(* the other inserts.                                                       *)
Sizes == Len(id) <= appended /\ Len(saved.id) <= appended

Working ==
    \A t \in Tasks :
        /\ pc[t] \in {"exists", "append"} =>
              todo[t] # <<>> /\ turn = t /\ op[t] \in Inserts
        /\ pc[t] = "exists" => op[t] = "skip"
        /\ pc[t] = "find" => op[t] \in ByIndex
        /\ pc[t] \in {"popid", "poprest"} => op[t] = "delete"

TInv == TablesTyped /\ RequestsTyped /\ Sizes /\ Working

USE TableAssumption DEF TableAssumption

LEMMA TInvInit == Init => TInv
  BY DEF Init, TInv, TablesTyped, RequestsTyped, Sizes, Working, Tables, Inserts,
         ByIndex, Phases

(* The version after one below the bound.                                   *)
LEMMA NextVersion ==
    ASSUME NEW v \in Versions, v < MaxUpdates PROVE v + 1 \in Versions
  BY DEF Versions

(* What a row is once one of its fields is written.                         *)
LEMMA RowWritten ==
    ASSUME NEW x \in Rows, NEW v \in Versions
    PROVE  /\ [x EXCEPT !.values = v] \in Rows
           /\ [x EXCEPT !.values = v] =
                 [row |-> x.row, of |-> x.of, values |-> v, meta |-> x.meta]
           /\ [x EXCEPT !.meta = v] \in Rows
           /\ [x EXCEPT !.meta = v] =
                 [row |-> x.row, of |-> x.of, values |-> x.values, meta |-> v]
  BY DEF Rows

(* A scan begins at the first row, with a limit that the bound allows.      *)
LEMMA BeginScanTyped ==
    ASSUME RequestsTyped, NEW t \in Tasks, NEW len \in 0 .. MaxRows,
           BeginScan(t, len)
    PROVE  /\ at' \in [Tasks -> 1 .. MaxRows + 1]
           /\ limit' \in [Tasks -> 0 .. MaxRows]
<1>1. 1 \in 1 .. MaxRows + 1 /\ 0 \in 0 .. MaxRows
  OBVIOUS
<1> QED BY <1>1 DEF BeginScan, RequestsTyped

(* Going on to the next vector keeps the types of what it touches.          *)
LEMMA VisitTyped ==
    ASSUME RequestsTyped, NEW t \in Tasks, NEW kind, NEW left \in Seq(Ids),
           NEW len \in 0 .. MaxRows, Visit(t, kind, left, len)
    PROVE  /\ turn' \in Tasks \cup {NoTask}
           /\ pc' \in [Tasks -> Phases]
           /\ todo' \in [Tasks -> Seq(Ids)]
           /\ at' \in [Tasks -> 1 .. MaxRows + 1]
           /\ limit' \in [Tasks -> 0 .. MaxRows]
<1> USE DEF RequestsTyped, Visit, Goto, scan, Phases
<1>1. CASE left = <<>>
  <2>1. /\ BeginScan(t, 0) /\ turn' = NoTask
        /\ pc' = [pc EXCEPT ![t] = "commit"] /\ todo' = [todo EXCEPT ![t] = left]
    BY <1>1
  <2>2. /\ at' \in [Tasks -> 1 .. MaxRows + 1]
        /\ limit' \in [Tasks -> 0 .. MaxRows]
    BY <2>1, BeginScanTyped, 0 \in 0 .. MaxRows
  <2> HIDE DEF Visit
  <2> QED BY <2>1, <2>2
<1>2. CASE left # <<>> /\ kind = "skip"
  BY <1>2, BeginScanTyped
<1>3. CASE left # <<>> /\ kind # "skip"
  BY <1>3
<1> QED BY <1>1, <1>2, <1>3

(* The columns, saved and unsaved, keep their types and sizes.              *)
LEMMA TablesStep == TablesTyped /\ RequestsTyped /\ Sizes /\ Working /\ [Next]_vars => (TablesTyped /\ Sizes)'
<1> SUFFICES ASSUME TablesTyped, RequestsTyped, Sizes, Working, [Next]_vars PROVE (TablesTyped /\ Sizes)'
  OBVIOUS
<1> USE DEF TablesTyped, Sizes, columns, scan, request, history, vars
<1>1. CASE Restart
  BY <1>1 DEF Restart, Tables
<1>2. ASSUME NEW t \in Tasks, InsertStart(t) PROVE (TablesTyped /\ Sizes)'
  BY <1>2 DEF InsertStart
<1>3. ASSUME NEW t \in Tasks, ByIndexStart(t) PROVE (TablesTyped /\ Sizes)'
  BY <1>3 DEF ByIndexStart
<1>4. ASSUME NEW t \in Tasks, ScanNext(t) PROVE (TablesTyped /\ Sizes)'
  BY <1>4 DEF ScanNext
<1>5. ASSUME NEW t \in Tasks, ExistsHit(t) PROVE (TablesTyped /\ Sizes)'
  BY <1>5 DEF ExistsHit
<1>6. ASSUME NEW t \in Tasks, ExistsMiss(t) PROVE (TablesTyped /\ Sizes)'
  BY <1>6 DEF ExistsMiss
<1>7. ASSUME NEW t \in Tasks, FindHit(t) PROVE (TablesTyped /\ Sizes)'
  BY <1>7 DEF FindHit
<1>8. ASSUME NEW t \in Tasks, FindMiss(t) PROVE (TablesTyped /\ Sizes)'
  BY <1>8 DEF FindMiss
<1>9. ASSUME NEW t \in Tasks, AppendRow(t) PROVE (TablesTyped /\ Sizes)'
  <2>1. Target(t) \in Ids
    BY <1>9 DEF AppendRow, Working, RequestsTyped, Target
  <2>2. [row |-> appended + 1, of |-> Target(t), values |-> 0, meta |-> 0] \in Rows
    BY <1>9, <2>1 DEF AppendRow, Rows, Versions
  <2> QED BY <1>9, <2>1, <2>2 DEF AppendRow
<1>10. ASSUME NEW t \in Tasks, AppendFails(t) PROVE (TablesTyped /\ Sizes)'
  BY <1>10 DEF AppendFails
<1>11. ASSUME NEW t \in Tasks, ReadRest(t) PROVE (TablesTyped /\ Sizes)'
  BY <1>11 DEF ReadRest
<1>12. ASSUME NEW t \in Tasks, ReadId(t) PROVE (TablesTyped /\ Sizes)'
  BY <1>12 DEF ReadId
<1>13. ASSUME NEW t \in Tasks, WriteValues(t) PROVE (TablesTyped /\ Sizes)'
  <2>1. at[t] \in DOMAIN rest /\ rest[at[t]] \in Rows
    BY <1>13 DEF WriteValues, RequestsTyped
  <2>2. rest[at[t]].values + 1 \in Versions
    <3>1. rest[at[t]].values \in Versions
      BY <2>1 DEF Rows
    <3>2. rest[at[t]].values < MaxUpdates
      BY <1>13, Zenon DEF WriteValues
    <3> QED BY <3>1, <3>2, NextVersion
  <2>3. [rest[at[t]] EXCEPT !.values = rest[at[t]].values + 1] \in Rows
    BY <2>1, <2>2, RowWritten
  <2> QED BY <1>13, <2>1, <2>3 DEF WriteValues
<1>21. ASSUME NEW t \in Tasks, WriteMeta(t) PROVE (TablesTyped /\ Sizes)'
  <2>1. at[t] \in DOMAIN rest /\ rest[at[t]] \in Rows
    BY <1>21 DEF WriteMeta, RequestsTyped
  <2>2. PICK r \in mine[t] : rest' = [rest EXCEPT ![at[t]].meta = r.values]
    BY <1>21 DEF WriteMeta
  <2>3. r.values \in Versions
    <3>1. r \in Rows
      BY DEF RequestsTyped
    <3> QED BY <3>1 DEF Rows
  <2>4. [rest[at[t]] EXCEPT !.meta = r.values] \in Rows
    BY <2>1, <2>3, RowWritten
  <2> QED BY <1>21, <2>1, <2>2, <2>4 DEF WriteMeta
<1>14. ASSUME NEW t \in Tasks, PopId(t) PROVE (TablesTyped /\ Sizes)'
  <2>1. at[t] \in 1 .. Len(id)
    BY <1>14 DEF PopId, RequestsTyped
  <2> QED BY <1>14, <2>1, RemoveAtElements DEF PopId
<1>15. ASSUME NEW t \in Tasks, PopRest(t) PROVE (TablesTyped /\ Sizes)'
  <2>1. at[t] \in 1 .. Len(rest)
    BY <1>15 DEF PopRest, RequestsTyped
  <2> QED BY <1>15, <2>1, RemoveAtElements DEF PopRest
<1>16. ASSUME NEW t \in Tasks, Raises(t) PROVE (TablesTyped /\ Sizes)'
  BY <1>16 DEF Raises
<1>17. ASSUME NEW t \in Tasks, Commit(t) PROVE (TablesTyped /\ Sizes)'
  <2>1. mine[t] \subseteq Rows
    BY DEF RequestsTyped
  <2> QED BY <1>17, <2>1 DEF Commit, Tables
<1>18. ASSUME NEW t \in Tasks, CommitLocked(t) PROVE (TablesTyped /\ Sizes)'
  BY <1>18 DEF CommitLocked
<1>19. ASSUME NEW t \in Tasks, CommitFails(t) PROVE (TablesTyped /\ Sizes)'
  BY <1>19 DEF CommitFails
<1>20. CASE UNCHANGED vars
  BY <1>20
<1> QED BY <1>1, <1>2, <1>3, <1>4, <1>5, <1>6, <1>7, <1>8, <1>9, <1>10, <1>11, <1>12, <1>13, <1>14, <1>15, <1>16, <1>17, <1>18, <1>19, <1>20, <1>21
       DEF Next, Start, Scan, Use, Save

(* What a request keeps stays of its type.                                  *)
LEMMA RequestsStep == TablesTyped /\ RequestsTyped /\ Sizes /\ Working /\ [Next]_vars => RequestsTyped'
<1> SUFFICES ASSUME TablesTyped, RequestsTyped, Sizes, Working, [Next]_vars PROVE RequestsTyped'
  OBVIOUS
<1> USE DEF RequestsTyped, Inserts, ByIndex, Phases, columns, scan, request, history, vars
<1>1. CASE Restart
  BY <1>1 DEF Restart
<1>2. ASSUME NEW t \in Tasks, InsertStart(t) PROVE RequestsTyped'
  <2>1. Len(id) \in 0 .. MaxRows
    BY DEF TablesTyped, Sizes
  <2> QED BY <1>2, <2>1, VisitTyped DEF InsertStart
<1>3. ASSUME NEW t \in Tasks, ByIndexStart(t) PROVE RequestsTyped'
  <2>1. Len(id) \in 0 .. MaxRows
    BY DEF TablesTyped, Sizes
  <2> QED BY <1>3, <2>1 DEF ByIndexStart, Goto, BeginScan
<1>4. ASSUME NEW t \in Tasks, ScanNext(t) PROVE RequestsTyped'
  BY <1>4 DEF ScanNext, ScanFails
<1>5. ASSUME NEW t \in Tasks, ExistsHit(t) PROVE RequestsTyped'
  <2>1. Len(id) \in 0 .. MaxRows /\ todo[t] # <<>>
    BY <1>5 DEF ExistsHit, TablesTyped, Sizes, Working
  <2>2. Tail(todo[t]) \in Seq(Ids)
    BY <2>1
  <2> QED BY <1>5, <2>1, <2>2, VisitTyped DEF ExistsHit
<1>6. ASSUME NEW t \in Tasks, ExistsMiss(t) PROVE RequestsTyped'
  BY <1>6 DEF ExistsMiss, Goto, BeginScan
<1>7. ASSUME NEW t \in Tasks, FindHit(t) PROVE RequestsTyped'
  BY <1>7 DEF FindHit, Goto, Working
<1>8. ASSUME NEW t \in Tasks, FindMiss(t) PROVE RequestsTyped'
  BY <1>8 DEF FindMiss, Finish, Goto, BeginScan
<1>9. ASSUME NEW t \in Tasks, AppendRow(t) PROVE RequestsTyped'
  <2>1. Target(t) \in Ids /\ todo[t] # <<>> /\ Len(id) + 1 \in 0 .. MaxRows
    BY <1>9 DEF AppendRow, Working, Target, TablesTyped, Sizes
  <2>2. [row |-> appended + 1, of |-> Target(t), values |-> 0, meta |-> 0] \in Rows
    BY <1>9, <2>1 DEF AppendRow, Rows, Versions, TablesTyped
  <2>3. Tail(todo[t]) \in Seq(Ids)
    BY <2>1
  <2> QED BY <1>9, <2>1, <2>2, <2>3, VisitTyped DEF AppendRow
<1>10. ASSUME NEW t \in Tasks, AppendFails(t) PROVE RequestsTyped'
  <2>1. Len(id) \in 0 .. MaxRows /\ todo[t] # <<>>
    BY <1>10 DEF AppendFails, TablesTyped, Sizes, Working
  <2>2. Tail(todo[t]) \in Seq(Ids)
    BY <2>1
  <2> QED BY <1>10, <2>1, <2>2, VisitTyped DEF AppendFails
<1>11. ASSUME NEW t \in Tasks, ReadRest(t) PROVE RequestsTyped'
  <2>1. rest[at[t]] \in Rows
    BY <1>11 DEF ReadRest, TablesTyped
  <2> QED BY <1>11, <2>1 DEF ReadRest, Goto
<1>12. ASSUME NEW t \in Tasks, ReadId(t) PROVE RequestsTyped'
  BY <1>12 DEF ReadId, Finish, Goto, BeginScan
<1>13. ASSUME NEW t \in Tasks, WriteValues(t) PROVE RequestsTyped'
  <2>1. rest[at[t]] \in Rows
    BY <1>13 DEF WriteValues, TablesTyped
  <2>2. rest[at[t]].values + 1 \in Versions
    <3>1. rest[at[t]].values \in Versions
      BY <2>1 DEF Rows
    <3>2. rest[at[t]].values < MaxUpdates
      BY <1>13, Zenon DEF WriteValues
    <3> QED BY <3>1, <3>2, NextVersion
  <2> DEFINE r == [rest[at[t]] EXCEPT !.values = rest[at[t]].values + 1]
  <2>3. r \in Rows
    BY <2>1, <2>2, RowWritten
  <2>4. /\ mine' = [mine EXCEPT ![t] = {r}]
        /\ pc' = [pc EXCEPT ![t] = "writemeta"]
        /\ UNCHANGED <<turn, op, todo, at, limit, retry>>
    BY <1>13 DEF WriteValues, Goto
  <2>5. {r} \in SUBSET Rows
    BY <2>3
  <2> HIDE DEF r
  <2> QED BY <2>4, <2>5
<1>21. ASSUME NEW t \in Tasks, WriteMeta(t) PROVE RequestsTyped'
  <2>1. PICK r \in mine[t] : mine' = [mine EXCEPT ![t] = {[r EXCEPT !.meta = r.values]}]
    BY <1>21 DEF WriteMeta
  <2>2. r \in Rows /\ r.values \in Versions
    BY DEF Rows
  <2> DEFINE w == [r EXCEPT !.meta = r.values]
  <2>3. w \in Rows
    BY <2>2, RowWritten
  <2>4. /\ mine' = [mine EXCEPT ![t] = {w}]
        /\ pc' = [pc EXCEPT ![t] = "commit"]
        /\ BeginScan(t, 0)
        /\ UNCHANGED <<turn, op, todo, retry>>
    BY <1>21, <2>1 DEF WriteMeta, Goto
  <2>5. {w} \in SUBSET Rows /\ 0 \in 0 .. MaxRows
    BY <2>3
  <2> HIDE DEF w
  <2> QED BY <2>4, <2>5, BeginScanTyped
<1>14. ASSUME NEW t \in Tasks, PopId(t) PROVE RequestsTyped'
  BY <1>14 DEF PopId, Goto
<1>15. ASSUME NEW t \in Tasks, PopRest(t) PROVE RequestsTyped'
  BY <1>15 DEF PopRest, Goto, BeginScan
<1>16. ASSUME NEW t \in Tasks, Raises(t) PROVE RequestsTyped'
  BY <1>16 DEF Raises, Finish, Goto, BeginScan
<1>17. ASSUME NEW t \in Tasks, Commit(t) PROVE RequestsTyped'
  <2>1. Len(id) \in 0 .. MaxRows
    BY DEF TablesTyped, Sizes
  <2>2. CASE op[t] # "update"
    <3>1. Finish(t) /\ turn' = turn
      BY <1>17, <2>2 DEF Commit
    <3>2. 0 \in 0 .. MaxRows /\ 0 \in 0 .. CommitAttempts - 1
          /\ {} \in SUBSET Rows /\ <<>> \in Seq(Ids)
      OBVIOUS
    <3>3. /\ BeginScan(t, 0)
          /\ pc' = [pc EXCEPT ![t] = "idle"] /\ op' = [op EXCEPT ![t] = "get"]
          /\ todo' = [todo EXCEPT ![t] = <<>>] /\ retry' = [retry EXCEPT ![t] = 0]
          /\ mine' = [mine EXCEPT ![t] = {}] /\ turn' = turn
      BY <3>1 DEF Finish, Goto
    <3> QED BY <3>2, <3>3, BeginScanTyped
  <2>3. CASE op[t] = "update"
    <3>1. /\ pc' = [pc EXCEPT ![t] = "find"] /\ op' = [op EXCEPT ![t] = "get"]
          /\ mine' = [mine EXCEPT ![t] = {}] /\ BeginScan(t, Len(id))
          /\ UNCHANGED <<turn, todo, retry>>
      BY <1>17, <2>3 DEF Commit, Goto
    <3>2. {} \in SUBSET Rows
      OBVIOUS
    <3> QED BY <2>1, <3>1, <3>2, BeginScanTyped
  <2> QED BY <2>2, <2>3
<1>18. ASSUME NEW t \in Tasks, CommitLocked(t) PROVE RequestsTyped'
  <2>1. retry[t] \in 0 .. CommitAttempts - 1 /\ CommitAttempts \in Nat
    BY TableAssumption
  <2>2. retry[t] + 1 \in 0 .. CommitAttempts - 1
    BY <2>1, <1>18 DEF CommitLocked
  <2>3. retry' = [retry EXCEPT ![t] = retry[t] + 1]
        /\ UNCHANGED <<turn, pc, op, todo, at, limit, mine>>
    BY <1>18 DEF CommitLocked, scan
  <2> QED  BY <2>2, <2>3
<1>19. ASSUME NEW t \in Tasks, CommitFails(t) PROVE RequestsTyped'
  BY <1>19 DEF CommitFails, Finish, Goto, BeginScan
<1>20. CASE UNCHANGED vars
  BY <1>20
<1> QED BY <1>1, <1>2, <1>3, <1>4, <1>5, <1>6, <1>7, <1>8, <1>9, <1>10, <1>11, <1>12, <1>13, <1>14, <1>15, <1>16, <1>17, <1>18, <1>19, <1>20, <1>21
       DEF Next, Start, Scan, Use, Save

(* Requests keep to their phases, and only one insert is in its loop.       *)
LEMMA WorkingStep == TablesTyped /\ RequestsTyped /\ Sizes /\ Working /\ [Next]_vars => Working'
<1> SUFFICES ASSUME TablesTyped, RequestsTyped, Sizes, Working, [Next]_vars PROVE Working'
  OBVIOUS
<1> USE DEF Working, RequestsTyped, Inserts, ByIndex, Phases, columns, scan, request, history, vars
<1>1. CASE Restart
  BY <1>1 DEF Restart
<1>2. ASSUME NEW t \in Tasks, InsertStart(t) PROVE Working'
  BY <1>2 DEF InsertStart, Visit, Goto, BeginScan, Busy
<1>3. ASSUME NEW t \in Tasks, ByIndexStart(t) PROVE Working'
  BY <1>3 DEF ByIndexStart, Goto, BeginScan, Busy
<1>4. ASSUME NEW t \in Tasks, ScanNext(t) PROVE Working'
  BY <1>4 DEF ScanNext, ScanFails
<1>5. ASSUME NEW t \in Tasks, ExistsHit(t) PROVE Working'
  BY <1>5 DEF ExistsHit, Visit, Goto, BeginScan
<1>6. ASSUME NEW t \in Tasks, ExistsMiss(t) PROVE Working'
  BY <1>6 DEF ExistsMiss, Goto, BeginScan
<1>7. ASSUME NEW t \in Tasks, FindHit(t) PROVE Working'
  BY <1>7 DEF FindHit, Goto
<1>8. ASSUME NEW t \in Tasks, FindMiss(t) PROVE Working'
  BY <1>8 DEF FindMiss, Finish, Goto, BeginScan
<1>9. ASSUME NEW t \in Tasks, AppendRow(t) PROVE Working'
  BY SMTT(30), <1>9 DEF AppendRow, Visit, Goto, BeginScan, Target
<1>10. ASSUME NEW t \in Tasks, AppendFails(t) PROVE Working'
  <2>1. pc[t] = "append" /\ op[t] \in Inserts /\ turn = t /\ op' = op
    BY <1>10 DEF AppendFails
  <2>2. CASE Tail(todo[t]) = <<>>
    <3>1. /\ todo' = [todo EXCEPT ![t] = <<>>]
          /\ pc' = [pc EXCEPT ![t] = "commit"] /\ turn' = NoTask
      BY <1>10, <2>2 DEF AppendFails, Visit, Goto
    <3> QED BY <2>1, <3>1
  <2>3. CASE Tail(todo[t]) # <<>>
    <3>1. /\ todo' = [todo EXCEPT ![t] = Tail(todo[t])] /\ turn' = t
          /\ pc' = [pc EXCEPT ![t] = IF op[t] = "skip" THEN "exists" ELSE "append"]
      BY <1>10, <2>3 DEF AppendFails, Visit, Goto
    <3> QED BY <2>1, <2>3, <3>1
  <2> QED BY <2>2, <2>3
<1>11. ASSUME NEW t \in Tasks, ReadRest(t) PROVE Working'
  BY <1>11 DEF ReadRest, Goto
<1>12. ASSUME NEW t \in Tasks, ReadId(t) PROVE Working'
  BY <1>12 DEF ReadId, Finish, Goto, BeginScan
<1>13. ASSUME NEW t \in Tasks, WriteValues(t) PROVE Working'
  BY <1>13 DEF WriteValues, Goto, BeginScan
<1>21. ASSUME NEW t \in Tasks, WriteMeta(t) PROVE Working'
  BY <1>21 DEF WriteMeta, Goto, BeginScan
<1>14. ASSUME NEW t \in Tasks, PopId(t) PROVE Working'
  BY <1>14 DEF PopId, Goto
<1>15. ASSUME NEW t \in Tasks, PopRest(t) PROVE Working'
  BY <1>15 DEF PopRest, Goto, BeginScan
<1>16. ASSUME NEW t \in Tasks, Raises(t) PROVE Working'
  BY <1>16 DEF Raises, Finish, Goto, BeginScan
<1>17. ASSUME NEW t \in Tasks, Commit(t) PROVE Working'
  <2>1. CASE op[t] # "update"
    <3>1. Finish(t) /\ turn' = turn
      BY <1>17, <2>1 DEF Commit
    <3> QED BY <3>1 DEF Finish, Goto
  <2>2. CASE op[t] = "update"
    BY ZenonT(40), <1>17, <2>2 DEF Commit, Goto, BeginScan
  <2> QED BY <2>1, <2>2
<1>18. ASSUME NEW t \in Tasks, CommitLocked(t) PROVE Working'
  BY <1>18 DEF CommitLocked
<1>19. ASSUME NEW t \in Tasks, CommitFails(t) PROVE Working'
  BY <1>19 DEF CommitFails, Finish, Goto, BeginScan
<1>20. CASE UNCHANGED vars
  BY <1>20
<1> QED BY <1>1, <1>2, <1>3, <1>4, <1>5, <1>6, <1>7, <1>8, <1>9, <1>10, <1>11, <1>12, <1>13, <1>14, <1>15, <1>16, <1>17, <1>18, <1>19, <1>20, <1>21
       DEF Next, Start, Scan, Use, Save

LEMMA TInvStep == TInv /\ [Next]_vars => TInv'
  BY TablesStep, RequestsStep, WorkingStep DEF TInv

(* The flags of the history are either true or false.                       *)
LEMMA FlagsStep == FlagsTyped /\ [Next]_vars => FlagsTyped'
<1> SUFFICES ASSUME FlagsTyped, [Next]_vars PROVE FlagsTyped'
  OBVIOUS
<1> USE DEF FlagsTyped, history, vars
<1>1. CASE Restart
  BY <1>1, Zenon DEF Restart
<1>2. ASSUME NEW t \in Tasks, Start(t) PROVE FlagsTyped'
  BY <1>2, Zenon DEF Start, InsertStart, ByIndexStart
<1>3. ASSUME NEW t \in Tasks, Scan(t) PROVE FlagsTyped'
  BY <1>3, Zenon DEF Scan, ScanNext, ExistsHit, ExistsMiss, FindHit, FindMiss
<1>4. ASSUME NEW t \in Tasks, Use(t) PROVE FlagsTyped'
  BY <1>4, Zenon DEF Use, AppendRow, AppendFails, ReadRest, ReadId, WriteValues, WriteMeta, PopId,
                     PopRest, Raises
<1>5. ASSUME NEW t \in Tasks, Save(t) PROVE FlagsTyped'
  BY <1>5, Zenon DEF Save, Commit, CommitLocked, CommitFails
<1>6. CASE UNCHANGED vars
  BY <1>6, Zenon
<1> QED BY <1>1, <1>2, <1>3, <1>4, <1>5, <1>6, Zenon DEF Next

(* Every variable keeps its type.                                           *)
THEOREM TypeCorrect == Spec => []TypeOK
<1>1. Init => FlagsTyped
  BY DEF Init, FlagsTyped
<1>2. TInv /\ FlagsTyped => TypeOK
  BY Zenon DEF TInv, TypeOK
<1> QED BY TInvInit, TInvStep, FlagsStep, <1>1, <1>2, PTL DEF Spec

-----------------------------------------------------------------------------
(* skip_existing.  Under the conditions of the property no delete is in     *)
(* progress beside an insert (Apart) and every insert looks first (Asked).  *)
(* The one that holds the event loop then knows that its id is nowhere in   *)
(* the rows it has passed, and, once it appends, nowhere at all (Scanned).  *)
(* Unique must also speak of the saved table, which a restart brings back.  *)
Apart ==
    ~torn => \A t, u \in Tasks :
        ~(pc[t] # "idle" /\ op[t] = "delete" /\ pc[u] # "idle" /\ op[u] \in Inserts)

Asked == ~plain => \A t \in Tasks : op[t] \in Inserts => op[t] = "skip"

Unique == (~plain /\ ~torn) => IsInjective(id) /\ IsInjective(saved.id)

Passed(t) ==
    /\ pc[t] = "exists" =>
          /\ limit[t] = Len(id)
          /\ \A j \in 1 .. Len(id) : j < at[t] => id[j] # Head(todo[t])
    /\ pc[t] = "append" => \A j \in 1 .. Len(id) : id[j] # Head(todo[t])

Scanned == (~plain /\ ~torn) => \A t \in Tasks : Passed(t)

SInv == Apart /\ Asked /\ Unique /\ Scanned

(* What a visit of the next vector leaves.                                  *)
LEMMA VisitOutcome ==
    ASSUME RequestsTyped, NEW t \in Tasks, NEW kind, NEW left, NEW len,
           Visit(t, kind, left, len)
    PROVE  /\ pc'[t] \in {"commit", "exists", "append"}
           /\ pc'[t] = "exists" => kind = "skip" /\ at'[t] = 1 /\ limit'[t] = len
           /\ pc'[t] = "append" => kind # "skip"
           /\ \A u \in Tasks \ {t} :
                 /\ pc'[u] = pc[u] /\ todo'[u] = todo[u]
                 /\ at'[u] = at[u] /\ limit'[u] = limit[u]
<1> USE DEF RequestsTyped, Visit, Goto, BeginScan, scan, Phases
<1>1. CASE left = <<>>
  BY <1>1
<1>2. CASE left # <<>> /\ kind = "skip"
  BY <1>2
<1>3. CASE left # <<>> /\ kind # "skip"
  BY <1>3
<1> QED BY <1>1, <1>2, <1>3

(* The loop is held by one insert at a time.                                *)
LEMMA OneInLoop ==
    ASSUME Working, NEW t \in Tasks, NEW u \in Tasks, u # t,
           turn = NoTask \/ pc[t] \in {"exists", "append"}
    PROVE  pc[u] \notin {"exists", "append"}
  BY DEF Working

LEMMA SInvInit == Init => SInv
  BY DEF Init, SInv, Apart, Asked, Unique, Scanned, Passed, Inserts, IsInjective

(* A delete that meets an insert is noted when the second of them starts.   *)
LEMMA ApartStep ==
    TInv /\ FlagsTyped /\ SInv /\ [Next]_vars => Apart'
<1> SUFFICES ASSUME TInv, FlagsTyped, SInv, [Next]_vars PROVE Apart'
  OBVIOUS
<1> USE DEF SInv, Apart, TInv, RequestsTyped, Working, Inserts, ByIndex, columns, scan, request, history, vars
<1>1. CASE Restart
  BY <1>1 DEF Restart
<1>2. ASSUME NEW t \in Tasks, InsertStart(t) PROVE Apart'
  <2>1. SUFFICES ASSUME ~torn', NEW a \in Tasks, NEW b \in Tasks,
                        pc'[a] # "idle", op'[a] = "delete",
                        pc'[b] # "idle", op'[b] \in Inserts
                 PROVE  FALSE
    BY Zenon
  <2>2. ~torn /\ \A u \in Tasks : ~(pc[u] # "idle" /\ op[u] = "delete")
    BY <1>2, <2>1, Zenon DEF InsertStart, Busy
  <2>3. PICK b1 \in Batches, kind \in Modes :
           Visit(t, kind, b1, Len(id)) /\ op' = [op EXCEPT ![t] = kind]
    BY <1>2 DEF InsertStart
  <2>4. a # t /\ op'[a] = op[a]
    BY <2>1, <2>3
  <2>5. pc'[a] = pc[a]
    <3>1. RequestsTyped
      OBVIOUS
    <3> HIDE DEF RequestsTyped
    <3>2. \A u \in Tasks \ {t} : pc'[u] = pc[u]
      BY <2>3, <3>1, VisitOutcome
    <3> QED BY <2>4, <3>2
  <2> QED BY <2>1, <2>2, <2>4, <2>5
<1>3. ASSUME NEW t \in Tasks, ByIndexStart(t) PROVE Apart'
  <2>1. SUFFICES ASSUME ~torn', NEW a \in Tasks, NEW b \in Tasks,
                        pc'[a] # "idle", op'[a] = "delete",
                        pc'[b] # "idle", op'[b] \in Inserts
                 PROVE  FALSE
    BY Zenon
  <2>2. PICK kind \in ByIndex :
           /\ pc' = [pc EXCEPT ![t] = "find"] /\ op' = [op EXCEPT ![t] = kind]
           /\ ~torn /\ ~\E u \in Tasks : Busy(u) /\ op[u] \in Inserts /\ kind = "delete"
    BY <1>3, <2>1, Zenon DEF ByIndexStart, Goto
  <2>3. b # t /\ op'[b] = op[b] /\ pc'[b] = pc[b]
    BY <2>1, <2>2
  <2>4. CASE a = t
    BY <2>1, <2>2, <2>3, <2>4 DEF Busy
  <2>5. CASE a # t
    BY <2>1, <2>2, <2>3, <2>5
  <2> QED BY <2>4, <2>5
<1>4. ASSUME NEW t \in Tasks, ScanNext(t) PROVE Apart'
  BY <1>4 DEF ScanNext, ScanFails
<1>5. ASSUME NEW t \in Tasks, ExistsHit(t) PROVE Apart'
  BY SMTT(30), <1>5 DEF ExistsHit, Visit, Goto, BeginScan
<1>6. ASSUME NEW t \in Tasks, ExistsMiss(t) PROVE Apart'
  BY <1>6 DEF ExistsMiss, Goto, BeginScan
<1>7. ASSUME NEW t \in Tasks, FindHit(t) PROVE Apart'
  BY <1>7 DEF FindHit, Goto
<1>8. ASSUME NEW t \in Tasks, FindMiss(t) PROVE Apart'
  BY <1>8 DEF FindMiss, Finish, Goto, BeginScan
<1>9. ASSUME NEW t \in Tasks, AppendRow(t) PROVE Apart'
  <2>1. \A u \in Tasks : op'[u] = op[u] /\ (pc'[u] # "idle" => pc[u] # "idle")
    BY SMTT(30), <1>9, VisitOutcome DEF AppendRow
  <2>2. torn' = torn
    BY <1>9 DEF AppendRow
  <2> QED BY <2>1, <2>2
<1>10. ASSUME NEW t \in Tasks, AppendFails(t) PROVE Apart'
  <2>1. \A u \in Tasks : op'[u] = op[u] /\ (pc'[u] # "idle" => pc[u] # "idle")
    BY <1>10, VisitOutcome DEF AppendFails
  <2>2. torn' = torn
    BY <1>10 DEF AppendFails
  <2> QED BY <2>1, <2>2
<1>11. ASSUME NEW t \in Tasks, ReadRest(t) PROVE Apart'
  BY <1>11 DEF ReadRest, Goto
<1>12. ASSUME NEW t \in Tasks, ReadId(t) PROVE Apart'
  BY <1>12 DEF ReadId, Finish, Goto, BeginScan
<1>13. ASSUME NEW t \in Tasks, WriteValues(t) PROVE Apart'
  BY <1>13 DEF WriteValues, Goto, BeginScan
<1>21. ASSUME NEW t \in Tasks, WriteMeta(t) PROVE Apart'
  BY <1>21 DEF WriteMeta, Goto, BeginScan
<1>14. ASSUME NEW t \in Tasks, PopId(t) PROVE Apart'
  BY <1>14 DEF PopId, Goto
<1>15. ASSUME NEW t \in Tasks, PopRest(t) PROVE Apart'
  BY <1>15 DEF PopRest, Goto, BeginScan
<1>16. ASSUME NEW t \in Tasks, Raises(t) PROVE Apart'
  BY <1>16 DEF Raises, Finish, Goto, BeginScan
<1>17. ASSUME NEW t \in Tasks, Commit(t) PROVE Apart'
  <2>1. torn => torn'
    BY <1>17, Zenon DEF Commit
  <2>2. \A u \in Tasks : (op'[u] = op[u] /\ (pc'[u] # "idle" => pc[u] # "idle"))
                           \/ op'[u] = "get"
    BY <1>17 DEF Commit, Finish, Goto
  <2> QED BY <2>1, <2>2
<1>18. ASSUME NEW t \in Tasks, CommitLocked(t) PROVE Apart'
  BY <1>18 DEF CommitLocked
<1>19. ASSUME NEW t \in Tasks, CommitFails(t) PROVE Apart'
  BY <1>19 DEF CommitFails, Finish, Goto, BeginScan
<1>20. CASE UNCHANGED vars
  BY <1>20
<1> QED BY <1>1, <1>2, <1>3, <1>4, <1>5, <1>6, <1>7, <1>8, <1>9, <1>10, <1>11, <1>12, <1>13, <1>14, <1>15, <1>16, <1>17, <1>18, <1>19, <1>20, <1>21
       DEF Next, Start, Scan, Use, Save

(* So is an insert that does not ask for skip_existing.                     *)
LEMMA AskedStep ==
    TInv /\ FlagsTyped /\ SInv /\ [Next]_vars => Asked'
<1> SUFFICES ASSUME TInv, FlagsTyped, SInv, [Next]_vars PROVE Asked'
  OBVIOUS
<1> USE DEF SInv, Asked, TInv, RequestsTyped, Working, Inserts, ByIndex, columns, scan, request, history, vars
<1>1. CASE Restart
  BY <1>1 DEF Restart
<1>2. ASSUME NEW t \in Tasks, InsertStart(t) PROVE Asked'
  BY <1>2 DEF InsertStart, Visit, Goto, BeginScan, Busy
<1>3. ASSUME NEW t \in Tasks, ByIndexStart(t) PROVE Asked'
  BY <1>3 DEF ByIndexStart, Goto, BeginScan, Busy
<1>4. ASSUME NEW t \in Tasks, ScanNext(t) PROVE Asked'
  BY <1>4 DEF ScanNext, ScanFails
<1>5. ASSUME NEW t \in Tasks, ExistsHit(t) PROVE Asked'
  BY <1>5 DEF ExistsHit, Visit, Goto, BeginScan
<1>6. ASSUME NEW t \in Tasks, ExistsMiss(t) PROVE Asked'
  BY <1>6 DEF ExistsMiss, Goto, BeginScan
<1>7. ASSUME NEW t \in Tasks, FindHit(t) PROVE Asked'
  BY <1>7 DEF FindHit, Goto
<1>8. ASSUME NEW t \in Tasks, FindMiss(t) PROVE Asked'
  BY <1>8 DEF FindMiss, Finish, Goto, BeginScan
<1>9. ASSUME NEW t \in Tasks, AppendRow(t) PROVE Asked'
  BY <1>9 DEF AppendRow, Visit, Goto, BeginScan, Target
<1>10. ASSUME NEW t \in Tasks, AppendFails(t) PROVE Asked'
  BY <1>10 DEF AppendFails, Visit, Goto, BeginScan
<1>11. ASSUME NEW t \in Tasks, ReadRest(t) PROVE Asked'
  BY <1>11 DEF ReadRest, Goto
<1>12. ASSUME NEW t \in Tasks, ReadId(t) PROVE Asked'
  BY <1>12 DEF ReadId, Finish, Goto, BeginScan
<1>13. ASSUME NEW t \in Tasks, WriteValues(t) PROVE Asked'
  BY <1>13 DEF WriteValues, Goto, BeginScan
<1>21. ASSUME NEW t \in Tasks, WriteMeta(t) PROVE Asked'
  BY <1>21 DEF WriteMeta, Goto, BeginScan
<1>14. ASSUME NEW t \in Tasks, PopId(t) PROVE Asked'
  BY <1>14 DEF PopId, Goto
<1>15. ASSUME NEW t \in Tasks, PopRest(t) PROVE Asked'
  BY <1>15 DEF PopRest, Goto, BeginScan
<1>16. ASSUME NEW t \in Tasks, Raises(t) PROVE Asked'
  BY <1>16 DEF Raises, Finish, Goto, BeginScan
<1>17. ASSUME NEW t \in Tasks, Commit(t) PROVE Asked'
  BY <1>17 DEF Commit, Finish, Goto, BeginScan
<1>18. ASSUME NEW t \in Tasks, CommitLocked(t) PROVE Asked'
  BY <1>18 DEF CommitLocked
<1>19. ASSUME NEW t \in Tasks, CommitFails(t) PROVE Asked'
  BY <1>19 DEF CommitFails, Finish, Goto, BeginScan
<1>20. CASE UNCHANGED vars
  BY <1>20
<1> QED BY <1>1, <1>2, <1>3, <1>4, <1>5, <1>6, <1>7, <1>8, <1>9, <1>10, <1>11, <1>12, <1>13, <1>14, <1>15, <1>16, <1>17, <1>18, <1>19, <1>20, <1>21
       DEF Next, Start, Scan, Use, Save

(* Only an append adds an id, one that is nowhere in the table by then.     *)
LEMMA UniqueStep ==
    TInv /\ FlagsTyped /\ SInv /\ [Next]_vars => Unique'
<1> SUFFICES ASSUME TInv, FlagsTyped, SInv, [Next]_vars PROVE Unique'
  OBVIOUS
<1> USE DEF SInv, Unique, columns, scan, request, history, vars
<1>1. CASE Restart
  BY <1>1 DEF Restart
<1>2. ASSUME NEW t \in Tasks, InsertStart(t) PROVE Unique'
  BY <1>2 DEF InsertStart
<1>3. ASSUME NEW t \in Tasks, ByIndexStart(t) PROVE Unique'
  <2>1. (torn => torn') /\ plain' = plain /\ id' = id /\ saved' = saved
    BY <1>3, Zenon DEF ByIndexStart
  <2> QED BY <2>1
<1>4. ASSUME NEW t \in Tasks, ScanNext(t) PROVE Unique'
  BY <1>4 DEF ScanNext
<1>5. ASSUME NEW t \in Tasks, ExistsHit(t) PROVE Unique'
  BY <1>5 DEF ExistsHit
<1>6. ASSUME NEW t \in Tasks, ExistsMiss(t) PROVE Unique'
  BY <1>6 DEF ExistsMiss
<1>7. ASSUME NEW t \in Tasks, FindHit(t) PROVE Unique'
  BY <1>7 DEF FindHit
<1>8. ASSUME NEW t \in Tasks, FindMiss(t) PROVE Unique'
  BY <1>8 DEF FindMiss
<1>9. ASSUME NEW t \in Tasks, AppendRow(t) PROVE Unique'
  <2>1. SUFFICES ASSUME ~plain, ~torn PROVE IsInjective(id') /\ IsInjective(saved'.id)
    BY <1>9, Zenon DEF AppendRow
  <2>2. Target(t) \in Ids /\ id \in Seq(Ids)
    BY <1>9 DEF AppendRow, TInv, Working, RequestsTyped, TablesTyped, Target
  <2>3. \A j \in 1 .. Len(id) : id[j] # Target(t)
    BY <1>9, <2>1 DEF AppendRow, Scanned, Passed, Target
  <2>4. IsInjective(Append(id, Target(t)))
    BY <2>1, <2>2, <2>3, AppendKeepsInjective
  <2> QED BY <1>9, <2>1, <2>4 DEF AppendRow
<1>10. ASSUME NEW t \in Tasks, AppendFails(t) PROVE Unique'
  BY <1>10 DEF AppendFails
<1>11. ASSUME NEW t \in Tasks, ReadRest(t) PROVE Unique'
  BY <1>11 DEF ReadRest
<1>12. ASSUME NEW t \in Tasks, ReadId(t) PROVE Unique'
  BY <1>12 DEF ReadId
<1>13. ASSUME NEW t \in Tasks, WriteValues(t) PROVE Unique'
  BY <1>13 DEF WriteValues
<1>21. ASSUME NEW t \in Tasks, WriteMeta(t) PROVE Unique'
  BY <1>21 DEF WriteMeta
<1>14. ASSUME NEW t \in Tasks, PopId(t) PROVE Unique'
  <2>1. SUFFICES ASSUME ~plain, ~torn PROVE IsInjective(id') /\ IsInjective(saved'.id)
    BY <1>14, Zenon DEF PopId
  <2>2. at[t] \in 1 .. Len(id) /\ id \in Seq(Ids)
    BY <1>14 DEF PopId, TInv, RequestsTyped, TablesTyped
  <2>3. IsInjective(RemoveAt(id, at[t]))
    BY <2>1, <2>2, RemoveAtKeepsInjective
  <2> QED BY <1>14, <2>1, <2>3 DEF PopId
<1>15. ASSUME NEW t \in Tasks, PopRest(t) PROVE Unique'
  BY <1>15 DEF PopRest
<1>16. ASSUME NEW t \in Tasks, Raises(t) PROVE Unique'
  BY <1>16 DEF Raises
<1>17. ASSUME NEW t \in Tasks, Commit(t) PROVE Unique'
  BY <1>17 DEF Commit
<1>18. ASSUME NEW t \in Tasks, CommitLocked(t) PROVE Unique'
  BY <1>18 DEF CommitLocked
<1>19. ASSUME NEW t \in Tasks, CommitFails(t) PROVE Unique'
  BY <1>19 DEF CommitFails
<1>20. CASE UNCHANGED vars
  BY <1>20
<1> QED BY <1>1, <1>2, <1>3, <1>4, <1>5, <1>6, <1>7, <1>8, <1>9, <1>10, <1>11, <1>12, <1>13, <1>14, <1>15, <1>16, <1>17, <1>18, <1>19, <1>20, <1>21
       DEF Next, Start, Scan, Use, Save

(* The insert that scans holds the loop, so nothing else appends; no delete *)
(* is in progress, so nothing pops.                                         *)
LEMMA ScannedStep ==
    TInv /\ FlagsTyped /\ SInv /\ [Next]_vars => Scanned'
<1> SUFFICES ASSUME TInv, FlagsTyped, SInv, [Next]_vars PROVE Scanned'
  OBVIOUS
<1> USE DEF SInv, Scanned, Passed, TInv, RequestsTyped, TablesTyped, Inserts,
            ByIndex, columns, scan, request, history, vars
<1>1. CASE Restart
  BY <1>1 DEF Restart
<1>2. ASSUME NEW t \in Tasks, InsertStart(t) PROVE Scanned'
  <2>1. SUFFICES ASSUME ~plain', ~torn', NEW u \in Tasks PROVE Passed(u)'
    BY Zenon
  <2>2. ~plain /\ ~torn
    BY <1>2, <2>1, Zenon DEF InsertStart
  <2>3. CASE u = t
    <3>1. PICK b \in Batches, kind \in Modes :
             Visit(t, kind, b, Len(id)) /\ plain' = (plain \/ kind # "skip") /\ id' = id
      BY <1>2 DEF InsertStart
    <3>2. kind = "skip"
      BY <2>1, <3>1, Zenon
    <3>3. pc'[t] # "append" /\ (pc'[t] = "exists" => at'[t] = 1 /\ limit'[t] = Len(id))
      BY <3>1, <3>2, VisitOutcome
    <3> QED BY <2>3, <3>1, <3>3
  <2>4. CASE u # t
    <3>1. (\E b \in Batches, kind \in Modes : Visit(t, kind, b, Len(id))) /\ turn = NoTask
      BY <1>2 DEF InsertStart
    <3>2. RequestsTyped /\ Working
      OBVIOUS
    <3> HIDE DEF RequestsTyped
    <3>3. pc'[u] = pc[u]
      BY <2>4, <3>1, <3>2, VisitOutcome
    <3>4. pc[u] \notin {"exists", "append"}
      BY <2>4, <3>1, <3>2, OneInLoop
    <3> QED BY <3>3, <3>4
  <2> QED BY <2>3, <2>4
<1>3. ASSUME NEW t \in Tasks, ByIndexStart(t) PROVE Scanned'
  <2>1. (torn => torn') /\ plain' = plain /\ id' = id
    BY <1>3, Zenon DEF ByIndexStart
  <2>2. /\ pc' = [pc EXCEPT ![t] = "find"]
        /\ \A u \in Tasks \ {t} : todo'[u] = todo[u] /\ at'[u] = at[u] /\ limit'[u] = limit[u]
    BY <1>3 DEF ByIndexStart, Goto, BeginScan
  <2> QED BY SMTT(30), <2>1, <2>2
<1>4. ASSUME NEW t \in Tasks, ScanNext(t) PROVE Scanned'
  <2>1. SUFFICES ASSUME ~plain', ~torn', NEW u \in Tasks PROVE Passed(u)'
    BY Zenon
  <2>2. ~plain /\ ~torn
    BY <1>4, <2>1, Zenon DEF ScanNext
  <2>3. CASE u = t
    <3>1. pc'[t] = pc[t] /\ id' = id /\ todo' = todo /\ limit' = limit
          /\ at'[t] = at[t] + 1 /\ at[t] \in Nat
      BY <1>4 DEF ScanNext
    <3>2. id[at[t]] # Head(todo[t])
      BY <1>4 DEF ScanNext, ScanHits, Target
    <3> QED BY SMTT(30), <2>2, <2>3, <3>1, <3>2
  <2>4. CASE u # t
    BY <1>4, <2>2, <2>4 DEF ScanNext
  <2> QED BY <2>3, <2>4
<1>5. ASSUME NEW t \in Tasks, ExistsHit(t) PROVE Scanned'
  <2>1. SUFFICES ASSUME ~plain', ~torn', NEW u \in Tasks PROVE Passed(u)'
    BY Zenon
  <2>2. ~plain /\ ~torn
    BY <1>5, <2>1, Zenon DEF ExistsHit
  <2>3. CASE u = t
    <3>1. op[t] = "skip" /\ Len(id') = Len(id)
      BY <1>5, <2>2 DEF ExistsHit, Asked, Working
    <3>2. pc'[t] # "append" /\ (pc'[t] = "exists" => at'[t] = 1 /\ limit'[t] = Len(id'))
      BY SMTT(30), <1>5, <3>1, VisitOutcome DEF ExistsHit
    <3> QED BY SMTT(30), <2>3, <3>2
  <2>4. CASE u # t
    <3>1. Visit(t, op[t], Tail(todo[t]), Len(id)) /\ pc[t] = "exists"
      BY <1>5 DEF ExistsHit
    <3>2. RequestsTyped /\ Working
      OBVIOUS
    <3> HIDE DEF RequestsTyped
    <3>3. pc'[u] = pc[u]
      BY <2>4, <3>1, <3>2, VisitOutcome
    <3>4. pc[u] \notin {"exists", "append"}
      BY <2>4, <3>1, <3>2, OneInLoop
    <3> QED BY <3>3, <3>4
  <2> QED BY <2>3, <2>4
<1>6. ASSUME NEW t \in Tasks, ExistsMiss(t) PROVE Scanned'
  <2>1. SUFFICES ASSUME ~plain', ~torn', NEW u \in Tasks PROVE Passed(u)'
    BY Zenon
  <2>2. ~plain /\ ~torn
    BY <1>6, <2>1, Zenon DEF ExistsMiss
  <2>3. CASE u = t
    <3>1. pc'[t] = "append" /\ id' = id /\ todo' = todo
      BY <1>6 DEF ExistsMiss, Goto
    <3>2. at[t] > Len(id) /\ at[t] \in Nat
      BY <1>6, <2>2 DEF ExistsMiss, ScanFails
    <3>3. \A j \in 1 .. Len(id) : j < at[t] /\ id[j] # Head(todo[t])
      BY SMTT(30), <1>6, <2>2, <3>2 DEF ExistsMiss
    <3> QED BY <2>3, <3>1, <3>3
  <2>4. CASE u # t
    BY <1>6, <2>2, <2>4 DEF ExistsMiss, Goto, BeginScan
  <2> QED BY <2>3, <2>4
<1>7. ASSUME NEW t \in Tasks, FindHit(t) PROVE Scanned'
  <2>1. pc'[t] \notin {"exists", "append"}
    BY <1>7 DEF FindHit, Goto, Working
  <2> QED BY <1>7, <2>1 DEF FindHit, Goto
<1>8. ASSUME NEW t \in Tasks, FindMiss(t) PROVE Scanned'
  BY <1>8 DEF FindMiss, Finish, Goto, BeginScan
<1>9. ASSUME NEW t \in Tasks, AppendRow(t) PROVE Scanned'
  <2>1. SUFFICES ASSUME ~plain', ~torn', NEW u \in Tasks PROVE Passed(u)'
    BY Zenon
  <2>2. ~plain /\ ~torn
    BY <1>9, <2>1, Zenon DEF AppendRow
  <2>3. Visit(t, op[t], Tail(todo[t]), Len(id) + 1) /\ pc[t] = "append"
    BY <1>9 DEF AppendRow
  <2>4. Len(id') = Len(id) + 1 /\ op[t] = "skip"
    BY <1>9, <2>2 DEF AppendRow, Asked, Working
  <2>7. RequestsTyped /\ Working
    OBVIOUS
  <2>5. CASE u = t
    <3> HIDE DEF RequestsTyped
    <3>1. pc'[t] # "append" /\ (pc'[t] = "exists" => at'[t] = 1 /\ limit'[t] = Len(id) + 1)
      BY <2>3, <2>4, <2>7, VisitOutcome
    <3> QED BY <2>4, <2>5, <3>1
  <2>6. CASE u # t
    <3> HIDE DEF RequestsTyped
    <3>1. pc'[u] = pc[u]
      BY <2>3, <2>6, <2>7, VisitOutcome
    <3>2. pc[u] \notin {"exists", "append"}
      BY <2>3, <2>6, <2>7, OneInLoop
    <3> QED BY <3>1, <3>2
  <2> QED BY <2>5, <2>6
<1>10. ASSUME NEW t \in Tasks, AppendFails(t) PROVE Scanned'
  <2>1. SUFFICES ASSUME ~plain', ~torn', NEW u \in Tasks PROVE Passed(u)'
    BY Zenon
  <2>2. ~plain /\ ~torn
    BY <1>10, <2>1, Zenon DEF AppendFails
  <2>3. CASE u = t
    <3>1. op[t] = "skip" /\ Len(id') = Len(id)
      BY <1>10, <2>2 DEF AppendFails, Asked, Working
    <3>2. pc'[t] # "append" /\ (pc'[t] = "exists" => at'[t] = 1 /\ limit'[t] = Len(id'))
      BY <1>10, <3>1, VisitOutcome DEF AppendFails
    <3> QED BY SMTT(30), <2>3, <3>2
  <2>4. CASE u # t
    <3>1. Visit(t, op[t], Tail(todo[t]), Len(id)) /\ pc[t] = "append"
      BY <1>10 DEF AppendFails
    <3>2. RequestsTyped /\ Working
      OBVIOUS
    <3> HIDE DEF RequestsTyped
    <3>3. pc'[u] = pc[u]
      BY <2>4, <3>1, <3>2, VisitOutcome
    <3>4. pc[u] \notin {"exists", "append"}
      BY <2>4, <3>1, <3>2, OneInLoop
    <3> QED BY <3>3, <3>4
  <2> QED BY <2>3, <2>4
<1>11. ASSUME NEW t \in Tasks, ReadRest(t) PROVE Scanned'
  BY <1>11 DEF ReadRest, Goto
<1>12. ASSUME NEW t \in Tasks, ReadId(t) PROVE Scanned'
  BY <1>12 DEF ReadId, Finish, Goto, BeginScan
<1>13. ASSUME NEW t \in Tasks, WriteValues(t) PROVE Scanned'
  BY <1>13 DEF WriteValues, Goto, BeginScan
<1>21. ASSUME NEW t \in Tasks, WriteMeta(t) PROVE Scanned'
  BY <1>21 DEF WriteMeta, Goto, BeginScan
<1>14. ASSUME NEW t \in Tasks, PopId(t) PROVE Scanned'
  <2>1. SUFFICES ASSUME ~plain', ~torn', NEW u \in Tasks PROVE Passed(u)'
    BY Zenon
  <2>2. ~plain /\ ~torn
    BY <1>14, <2>1, Zenon DEF PopId
  <2>3. pc[t] # "idle" /\ op[t] = "delete"
    BY <1>14 DEF PopId, Working
  <2>4. pc'[u] \notin {"exists", "append"}
    BY <1>14, <2>2, <2>3 DEF PopId, Goto, Apart, Working
  <2> QED BY <2>4
<1>15. ASSUME NEW t \in Tasks, PopRest(t) PROVE Scanned'
  BY <1>15 DEF PopRest, Goto, BeginScan
<1>16. ASSUME NEW t \in Tasks, Raises(t) PROVE Scanned'
  BY <1>16 DEF Raises, Finish, Goto, BeginScan
<1>17. ASSUME NEW t \in Tasks, Commit(t) PROVE Scanned'
  <2>1. SUFFICES ASSUME ~plain', ~torn', NEW u \in Tasks PROVE Passed(u)'
    BY Zenon
  <2>2. ~plain /\ ~torn
    BY <1>17, <2>1, Zenon DEF Commit
  <2>3. id' = id /\ pc'[t] \notin {"exists", "append"}
    BY <1>17 DEF Commit, Finish, Goto
  <2>4. ASSUME u # t PROVE /\ pc'[u] = pc[u] /\ todo'[u] = todo[u]
                           /\ at'[u] = at[u] /\ limit'[u] = limit[u]
    BY <1>17, <2>4 DEF Commit, Finish, Goto, BeginScan
  <2> QED BY SMTT(30), <2>2, <2>3, <2>4
<1>18. ASSUME NEW t \in Tasks, CommitLocked(t) PROVE Scanned'
  BY <1>18 DEF CommitLocked
<1>19. ASSUME NEW t \in Tasks, CommitFails(t) PROVE Scanned'
  BY <1>19 DEF CommitFails, Finish, Goto, BeginScan
<1>20. CASE UNCHANGED vars
  BY <1>20
<1> QED BY <1>1, <1>2, <1>3, <1>4, <1>5, <1>6, <1>7, <1>8, <1>9, <1>10, <1>11, <1>12, <1>13, <1>14, <1>15, <1>16, <1>17, <1>18, <1>19, <1>20, <1>21
       DEF Next, Start, Scan, Use, Save

(* Inserts with skip_existing never give two rows one id, in any table and  *)
(* with any number of requests in progress, under the conditions stated in  *)
(* the property.                                                            *)
THEOREM SkipExistingNeverDuplicates == Spec => []SkipExistingUnique
<1>1. TInv /\ FlagsTyped /\ SInv /\ [Next]_vars => SInv'
  BY ApartStep, AskedStep, UniqueStep, ScannedStep DEF SInv
<1>2. Init => FlagsTyped
  BY DEF Init, FlagsTyped
<1>3. SInv => SkipExistingUnique
  BY DEF SInv, Unique, SkipExistingUnique
<1> QED BY TInvInit, TInvStep, FlagsStep, SInvInit, <1>1, <1>2, <1>3, PTL DEF Spec

-----------------------------------------------------------------------------
(* The rows: that an index stays on its row, that the columns line up and   *)
(* that what was acknowledged stays stored.  RightRow, ColumnsAligned and   *)
(* AckedDurable are not inductive.  RowInv adds what a request is doing     *)
(* (Doing), which requests may meet while the flags are down (Meeting),     *)
(* where the columns stand in the middle of a delete (Lined) and in the     *)
(* middle of an update, and that the working copy, which the next commit    *)
(* saves, holds what is promised (Durable).  After a delete that failed     *)
(* between its pops only the saved table is spoken of: a commit that saves  *)
(* that working copy ends the calm, and a restart drops it.                 *)

Doing(t) ==
    /\ pc[t] = "idle" => op[t] = "get"
    /\ pc[t] \in {"write", "writemeta"} => op[t] = "update"
    /\ pc[t] \in {"readrest", "readid"} => op[t] = "get"
    /\ pc[t] \in {"popid", "poprest"} => op[t] = "delete"
    /\ pc[t] \in {"exists", "append"} => op[t] \in Inserts
    /\ pc[t] = "find" => op[t] \in ByIndex
    /\ pc[t] = "commit" => op[t] # "get"
    /\ op[t] \in Inserts => pc[t] \in {"exists", "append", "commit"}
    /\ op[t] = "delete" => mine[t] = {}
    /\ pc[t] \in {"idle", "find"} => mine[t] = {}

\* What t and another request u may be while the flags are down, said of every
\* ordered pair of requests.
Meeting(t, u) ==
    /\ ~raced => ~(op[t] = "delete" /\ pc[u] # "idle" /\ op[u] \in ByIndex)
    /\ ~torn => ~(op[t] = "delete" /\ op[u] \in Inserts)
    /\ ~crossed => ~(op[t] = "update" /\ op[u] = "update" /\ Head(todo[t]) = Head(todo[u]))

\* The phases in which a request uses the index that it found.
Using == {"write", "writemeta", "readrest", "readid", "popid"}

Placed(t) ==
    (~raced /\ pc[t] \in Using) => at[t] <= Len(id) /\ id[at[t]] = Head(todo[t])

AllDoing == \A t \in Tasks : Doing(t)
AllMeeting == \A t \in Tasks : \A u \in Tasks \ {t} : Meeting(t, u)
AllPlaced == \A t \in Tasks : Placed(t)

\* The tables of ids is and rows rs line up.
InLine(is, rs) == Len(is) = Len(rs) /\ \A i \in 1 .. Len(is) : rs[i].of = is[i]

\* Half of a delete is done: id lines up with what rest will be.
HalfPopped(t) ==
    /\ at[t] <= Len(rest)
    /\ rest[at[t]].of = Head(todo[t])
    /\ InLine(id, RemoveAt(rest, at[t]))

Calm == ~raced /\ ~torn

Lined ==
    Calm => /\ InLine(saved.id, saved.rest)
            /\ ~half =>
                  /\ (\A t \in Tasks : pc[t] # "poprest") => InLine(id, rest)
                  /\ \A t \in Tasks : pc[t] = "poprest" => HalfPopped(t)

Stored(rs, a) == \E i \in 1 .. Len(rs) : Covers(rs[i], a)

\* An update writes its metadata over an older one.
Ordered(rs) == \A i \in 1 .. Len(rs) : rs[i].meta <= rs[i].values

\* What t wrote is in the working copy; a delete removes nothing acknowledged;
\* between the fields of an update the row is the one that t wrote first.
Promised(t) ==
    /\ op[t] = "delete" => \A a \in acked : a.of # Head(todo[t])
    /\ (op[t] \in Inserts \/ (op[t] = "update" /\ pc[t] = "commit")) =>
          \A r \in mine[t] : Stored(rest, r)
    /\ pc[t] = "writemeta" =>
          at[t] <= Len(rest) /\ mine[t] = {rest[at[t]]}

Durable ==
    (Calm /\ ~crossed) =>
        /\ \A a \in acked : Stored(saved.rest, a)
        /\ Ordered(saved.rest)
        /\ ~half =>
              /\ \A a \in acked : Stored(rest, a)
              /\ Ordered(rest)
              /\ \A t \in Tasks : Promised(t)

RowInv == AllDoing /\ AllMeeting /\ AllPlaced /\ Lined /\ Durable

-----------------------------------------------------------------------------
(* A step of a request, other than the end of its worker.                   *)
StepOf(t) == Start(t) \/ Scan(t) \/ Use(t) \/ Save(t)

LEMMA NextCases == [Next]_vars => Restart \/ UNCHANGED vars \/ \E t \in Tasks : StepOf(t)
  BY Zenon DEF Next, StepOf

(* A request changes nothing that another one keeps.                        *)
Alike(u) ==
    /\ pc'[u] = pc[u] /\ op'[u] = op[u] /\ todo'[u] = todo[u]
    /\ at'[u] = at[u] /\ mine'[u] = mine[u]

LEMMA OthersAlike ==
    ASSUME RequestsTyped, NEW t \in Tasks, StepOf(t), NEW u \in Tasks \ {t}
    PROVE  Alike(u)
<1> USE DEF Alike, columns, scan, request, history
<1>1. CASE InsertStart(t)
  BY <1>1, VisitOutcome DEF InsertStart, RequestsTyped
<1>2. CASE ByIndexStart(t)
  BY <1>2 DEF ByIndexStart, RequestsTyped, Goto, BeginScan
<1>3. CASE ScanNext(t)
  BY <1>3 DEF ScanNext, RequestsTyped
<1>4. CASE ExistsHit(t)
  BY <1>4, VisitOutcome DEF ExistsHit, RequestsTyped
<1>5. CASE ExistsMiss(t)
  BY <1>5 DEF ExistsMiss, RequestsTyped, Goto, BeginScan
<1>6. CASE FindHit(t)
  BY <1>6 DEF FindHit, RequestsTyped, Goto
<1>7. CASE FindMiss(t)
  BY <1>7 DEF FindMiss, RequestsTyped, Finish, Goto, BeginScan
<1>8. CASE AppendRow(t)
  BY <1>8, VisitOutcome DEF AppendRow, RequestsTyped
<1>9. CASE AppendFails(t)
  BY <1>9, VisitOutcome DEF AppendFails, RequestsTyped
<1>10. CASE ReadRest(t)
  BY <1>10 DEF ReadRest, RequestsTyped, Goto
<1>11. CASE ReadId(t)
  BY <1>11 DEF ReadId, RequestsTyped, Finish, Goto, BeginScan
<1>12. CASE WriteValues(t)
  BY <1>12 DEF WriteValues, RequestsTyped, Goto
<1>13. CASE WriteMeta(t)
  BY <1>13 DEF WriteMeta, RequestsTyped, Goto, BeginScan
<1>14. CASE PopId(t)
  BY <1>14 DEF PopId, RequestsTyped, Goto
<1>15. CASE PopRest(t)
  BY <1>15 DEF PopRest, RequestsTyped, Goto, BeginScan
<1>16. CASE Raises(t)
  BY <1>16 DEF Raises, RequestsTyped, Finish, Goto, BeginScan
<1>17. CASE Commit(t)
  BY <1>17 DEF Commit, RequestsTyped, Finish, Goto, BeginScan
<1>18. CASE CommitLocked(t)
  BY <1>18 DEF CommitLocked, RequestsTyped
<1>19. CASE CommitFails(t)
  BY <1>19 DEF CommitFails, RequestsTyped, Finish, Goto, BeginScan
<1> QED BY <1>1, <1>2, <1>3, <1>4, <1>5, <1>6, <1>7, <1>8, <1>9, <1>10, <1>11, <1>12, <1>13, <1>14, <1>15, <1>16, <1>17, <1>18, <1>19, Zenon DEF StepOf, Start, Scan, Use, Save

(* What a request does fits its phase.                                      *)
LEMMA DoingStep == TInv /\ AllDoing /\ [Next]_vars => AllDoing'
<1> SUFFICES ASSUME TInv, AllDoing, [Next]_vars PROVE AllDoing'
  OBVIOUS
<1> USE DEF columns, scan, request, history
<1>1. CASE Restart
  BY <1>1 DEF Restart, AllDoing, Doing, Inserts
<1>2. CASE UNCHANGED vars
  BY <1>2 DEF vars, AllDoing, Doing
<1>3. ASSUME NEW t \in Tasks, StepOf(t) PROVE AllDoing'
  <2>1. RequestsTyped /\ Working /\ Doing(t)
    BY DEF TInv, AllDoing
  <2>2. ASSUME NEW u \in Tasks \ {t} PROVE Doing(u)'
    <3>1. Alike(u) /\ Doing(u)
      BY <1>3, <2>1, OthersAlike DEF AllDoing
    <3> QED BY <3>1 DEF Alike, Doing
  <2> SUFFICES Doing(t)'
    BY <2>2 DEF AllDoing
  <2> USE <2>1
  <2>3. CASE InsertStart(t)
    <3>1. PICK b \in Batches, kind \in Modes :
             Visit(t, kind, b, Len(id)) /\ op' = [op EXCEPT ![t] = kind]
      BY <2>3 DEF InsertStart
    <3>2. pc'[t] \in {"commit", "exists", "append"}
      BY <3>1, VisitOutcome
    <3>3. op'[t] = kind /\ kind \in Inserts
      BY <3>1, TableAssumption DEF RequestsTyped, TableAssumption
    <3> QED BY <3>2, <3>3 DEF Doing, Inserts, ByIndex
  <2>4. CASE ByIndexStart(t)
    BY <2>4 DEF ByIndexStart, RequestsTyped, Doing, Inserts, ByIndex, Goto, Busy
  <2>5. CASE ScanNext(t)
    BY <2>5 DEF ScanNext, RequestsTyped, Doing, Inserts, ByIndex
  <2>6. CASE ExistsHit(t)
    <3>1. pc'[t] \in {"commit", "exists", "append"}
      BY <2>6, VisitOutcome DEF ExistsHit
    <3>2. op'[t] = op[t] /\ op[t] \in Inserts
      BY <2>6 DEF ExistsHit, Doing
    <3> QED BY <3>1, <3>2 DEF Doing, Inserts, ByIndex
  <2>7. CASE ExistsMiss(t)
    BY <2>7 DEF ExistsMiss, RequestsTyped, Doing, Inserts, ByIndex, Goto, Working
  <2>8. CASE FindHit(t)
    BY <2>8 DEF FindHit, RequestsTyped, Doing, Inserts, ByIndex, Goto, Working
  <2>9. CASE FindMiss(t)
    BY <2>9 DEF FindMiss, RequestsTyped, Doing, Inserts, ByIndex, Finish, Goto
  <2>10. CASE AppendRow(t)
    <3>1. pc'[t] \in {"commit", "exists", "append"}
      BY <2>10, VisitOutcome DEF AppendRow
    <3>2. op'[t] = op[t] /\ op[t] \in Inserts
      BY <2>10 DEF AppendRow, Doing
    <3> QED BY <3>1, <3>2 DEF Doing, Inserts, ByIndex
  <2>11. CASE AppendFails(t)
    <3>1. pc'[t] \in {"commit", "exists", "append"}
      BY <2>11, VisitOutcome DEF AppendFails
    <3>2. op'[t] = op[t] /\ op[t] \in Inserts
      BY <2>11 DEF AppendFails, Doing
    <3> QED BY <3>1, <3>2 DEF Doing, Inserts, ByIndex
  <2>12. CASE ReadRest(t)
    BY <2>12 DEF ReadRest, RequestsTyped, Doing, Inserts, ByIndex, Goto
  <2>13. CASE ReadId(t)
    BY <2>13 DEF ReadId, RequestsTyped, Doing, Inserts, ByIndex, Finish, Goto
  <2>14. CASE WriteValues(t)
    BY <2>14 DEF WriteValues, RequestsTyped, Doing, Inserts, ByIndex, Goto
  <2>15. CASE WriteMeta(t)
    BY <2>15 DEF WriteMeta, RequestsTyped, Doing, Inserts, ByIndex, Goto
  <2>16. CASE PopId(t)
    BY <2>16 DEF PopId, RequestsTyped, Doing, Inserts, ByIndex, Goto
  <2>17. CASE PopRest(t)
    BY <2>17 DEF PopRest, RequestsTyped, Doing, Inserts, ByIndex, Goto
  <2>18. CASE Raises(t)
    BY <2>18 DEF Raises, RequestsTyped, Doing, Inserts, ByIndex, Finish, Goto
  <2>19. CASE Commit(t)
    BY <2>19 DEF Commit, RequestsTyped, Doing, Inserts, ByIndex, Finish, Goto
  <2>20. CASE CommitLocked(t)
    BY <2>20 DEF CommitLocked, RequestsTyped, Doing, Inserts, ByIndex
  <2>21. CASE CommitFails(t)
    BY <2>21 DEF CommitFails, RequestsTyped, Doing, Inserts, ByIndex, Finish, Goto
  <2> QED BY <1>3, <2>3, <2>4, <2>5, <2>6, <2>7, <2>8, <2>9, <2>10, <2>11, <2>12, <2>13, <2>14, <2>15, <2>16, <2>17, <2>18, <2>19, <2>20, <2>21, Zenon DEF StepOf, Start, Scan, Use, Save
<1> QED BY <1>1, <1>2, <1>3, NextCases, Zenon

(* The flags of the history only rise while the process lives.              *)
LEMMA FlagsRise ==
    ASSUME NEW t \in Tasks, StepOf(t)
    PROVE  /\ raced => raced'
           /\ torn => torn'
           /\ half => half'
           /\ crossed => crossed'
<1>1. CASE Start(t)
  <2>1. CASE InsertStart(t)
    <3>1. torn' = (torn \/ \E u \in Tasks : Busy(u) /\ op[u] = "delete")
      BY <2>1, Zenon DEF InsertStart
    <3>2. raced' = raced /\ crossed' = crossed /\ half' = half
      BY <2>1 DEF InsertStart
    <3> QED BY <3>1, <3>2, Zenon
  <2>2. CASE ByIndexStart(t)
    <3>1. half' = half
      BY <2>2 DEF ByIndexStart
    <3>2. (raced => raced') /\ (torn => torn') /\ (crossed => crossed')
      BY <2>2, Zenon DEF ByIndexStart
    <3> QED BY <3>1, <3>2
  <2> QED BY <1>1, <2>1, <2>2, Zenon DEF Start
<1>2. CASE Scan(t)
  BY <1>2 DEF Scan, ScanNext, ExistsHit, ExistsMiss, FindHit, FindMiss, history
<1>3. CASE Use(t)
  <2>1. CASE AppendRow(t)
    BY <2>1 DEF AppendRow
  <2>2. CASE AppendFails(t) \/ ReadRest(t) \/ ReadId(t)
    BY <2>2 DEF AppendFails, ReadRest, ReadId, history
  <2>3. CASE WriteValues(t) \/ WriteMeta(t)
    BY <2>3 DEF WriteValues, WriteMeta, history
  <2>4. CASE PopId(t) \/ PopRest(t)
    BY <2>4 DEF PopId, PopRest, history
  <2>5. CASE Raises(t)
    BY <2>5, Zenon DEF Raises
  <2> QED BY <1>3, <2>1, <2>2, <2>3, <2>4, <2>5, Zenon DEF Use
<1>4. CASE Save(t)
  <2>1. CASE Commit(t)
    <3>1. torn' = (torn \/ half)
      BY <2>1 DEF Commit
    <3>2. raced' = raced /\ crossed' = crossed /\ half' = half
      BY <2>1 DEF Commit
    <3> QED BY <3>1, <3>2, Zenon
  <2>2. CASE CommitLocked(t) \/ CommitFails(t)
    BY <2>2 DEF CommitLocked, CommitFails, history
  <2> QED BY <1>4, <2>1, <2>2, Zenon DEF Save
<1> QED BY <1>1, <1>2, <1>3, <1>4, Zenon DEF StepOf

(* A request goes on with what it is, ends, or reads what it updated.       *)
LEMMA GoesOn ==
    ASSUME RequestsTyped, NEW t \in Tasks, Doing(t), Scan(t) \/ Use(t) \/ Save(t)
    PROVE  /\ pc[t] # "idle"
           /\ \/ op'[t] = op[t]
              \/ op'[t] = "get" /\ pc'[t] = "idle"
              \/ op'[t] = "get" /\ op[t] = "update"
           /\ op'[t] \in {"update", "delete"} => todo'[t] = todo[t]
<1> USE DEF RequestsTyped, Doing, Inserts, ByIndex, columns, scan, request, history
<1>1. CASE ScanNext(t) /\ pc[t] \in {"exists", "find"}
  BY <1>1 DEF ScanNext
<1>2. CASE ExistsHit(t)
  <2>1. op'[t] = op[t] /\ op[t] \in Inserts /\ pc[t] # "idle"
    BY <1>2 DEF ExistsHit
  <2> QED BY <2>1
<1>3. CASE ExistsMiss(t)
  BY <1>3 DEF ExistsMiss, Goto
<1>4. CASE FindHit(t)
  BY <1>4 DEF FindHit, Goto
<1>5. CASE FindMiss(t)
  BY <1>5 DEF FindMiss, Finish, Goto
<1>6. CASE AppendRow(t)
  <2>1. op'[t] = op[t] /\ op[t] \in Inserts /\ pc[t] # "idle"
    BY <1>6 DEF AppendRow
  <2> QED BY <2>1
<1>7. CASE AppendFails(t)
  <2>1. op'[t] = op[t] /\ op[t] \in Inserts /\ pc[t] # "idle"
    BY <1>7 DEF AppendFails
  <2> QED BY <2>1
<1>8. CASE ReadRest(t)
  BY <1>8 DEF ReadRest, Goto
<1>9. CASE ReadId(t)
  BY <1>9 DEF ReadId, Finish, Goto
<1>10. CASE WriteValues(t)
  BY <1>10 DEF WriteValues, Goto
<1>11. CASE WriteMeta(t)
  BY <1>11 DEF WriteMeta, Goto
<1>12. CASE PopId(t)
  BY <1>12 DEF PopId, Goto
<1>13. CASE PopRest(t)
  BY <1>13 DEF PopRest, Goto
<1>14. CASE Raises(t)
  BY <1>14 DEF Raises, Finish, Goto
<1>15. CASE Commit(t)
  BY <1>15 DEF Commit, Finish, Goto
<1>16. CASE CommitLocked(t)
  BY <1>16 DEF CommitLocked
<1>17. CASE CommitFails(t)
  BY <1>17 DEF CommitFails, Finish, Goto
<1> QED BY <1>1, <1>2, <1>3, <1>4, <1>5, <1>6, <1>7, <1>8, <1>9, <1>10, <1>11, <1>12, <1>13, <1>14, <1>15, <1>16, <1>17, Zenon DEF Scan, Use, Save

(* A meeting is noted when the second of the two requests starts.           *)
LEMMA MeetingStep == TInv /\ AllDoing /\ AllMeeting /\ [Next]_vars => AllMeeting'
<1> SUFFICES ASSUME TInv, AllDoing, AllMeeting, [Next]_vars PROVE AllMeeting'
  OBVIOUS
<1> USE DEF columns, scan, request, history
<1>1. CASE Restart
  BY <1>1 DEF Restart, AllMeeting, Meeting
<1>2. CASE UNCHANGED vars
  BY <1>2 DEF vars, AllMeeting, Meeting
<1>3. ASSUME NEW t \in Tasks, StepOf(t) PROVE AllMeeting'
  <2>1. RequestsTyped /\ \A u \in Tasks : Doing(u)
    BY DEF TInv, AllDoing
  <2>2. \A u \in Tasks \ {t} : Alike(u)
    BY <1>3, <2>1, OthersAlike
  <2>3. (raced => raced') /\ (torn => torn') /\ (crossed => crossed')
    BY <1>3, FlagsRise, Zenon
  <2>4. ASSUME NEW a \in Tasks \ {t}, NEW b \in Tasks \ {t}, a # b PROVE Meeting(a, b)'
    <3>1. Meeting(a, b) /\ Alike(a) /\ Alike(b)
      BY <2>2, <2>4 DEF AllMeeting
    <3> QED BY <2>3, <3>1 DEF Alike, Meeting
  <2> SUFFICES ASSUME NEW u \in Tasks \ {t} PROVE Meeting(t, u)' /\ Meeting(u, t)'
    BY <2>4 DEF AllMeeting
  <2>5. Alike(u) /\ Doing(u) /\ Meeting(t, u) /\ Meeting(u, t)
    BY <2>1, <2>2 DEF AllMeeting
  <2>6. CASE Scan(t) \/ Use(t) \/ Save(t)
    <3>1. /\ pc[t] # "idle"
          /\ \/ op'[t] = op[t]
             \/ op'[t] = "get" /\ pc'[t] = "idle"
             \/ op'[t] = "get" /\ op[t] = "update"
          /\ op'[t] \in {"update", "delete"} => todo'[t] = todo[t]
      BY <2>1, <2>6, GoesOn
    <3> QED BY <2>3, <2>5, <3>1 DEF Alike, Meeting, Inserts, ByIndex
  <2>7. CASE InsertStart(t)
    <3>1. op'[t] \in Inserts
      BY <2>1, <2>7, TableAssumption DEF InsertStart, RequestsTyped, TableAssumption
    <3>2. ~torn' => ~(pc[u] # "idle" /\ op[u] = "delete")
      BY <2>7, Zenon DEF InsertStart, Busy
    <3> QED BY <2>3, <2>5, <3>1, <3>2 DEF Alike, Meeting, Doing, Inserts, ByIndex
  <2>8. CASE ByIndexStart(t)
    <3>1. PICK kind \in ByIndex, v \in Ids :
             /\ op' = [op EXCEPT ![t] = kind] /\ todo' = [todo EXCEPT ![t] = <<v>>]
             /\ raced' = (raced \/ \E x \in Tasks :
                             Busy(x) /\ op[x] \in ByIndex /\ "delete" \in {kind, op[x]})
             /\ torn' = (torn \/ \E x \in Tasks :
                             Busy(x) /\ op[x] \in Inserts /\ kind = "delete")
             /\ crossed' = (crossed \/ \E x \in Tasks :
                             Busy(x) /\ kind = "update" /\ op[x] = "update" /\ Target(x) = v)
      BY <2>8, Zenon DEF ByIndexStart
    <3>2. op'[t] = kind /\ Head(todo'[t]) = v
      BY <2>1, <3>1 DEF RequestsTyped
    <3>3. ~raced' => ~(pc[u] # "idle" /\ op[u] \in ByIndex /\ "delete" \in {kind, op[u]})
      BY <3>1, Zenon DEF Busy
    <3>4. ~torn' => ~(pc[u] # "idle" /\ op[u] \in Inserts /\ kind = "delete")
      BY <3>1, Zenon DEF Busy
    <3>5. ~crossed' => ~(pc[u] # "idle" /\ kind = "update" /\ op[u] = "update" /\ Head(todo[u]) = v)
      BY <3>1, Zenon DEF Busy, Target
    <3>6. op[u] \in {"delete", "update"} => pc[u] # "idle"
      BY <2>5 DEF Doing
    <3>7. op[u] \in Inserts => pc[u] # "idle"
      BY <2>5 DEF Doing
    <3> QED BY <2>3, <2>5, <3>2, <3>3, <3>4, <3>5, <3>6, <3>7 DEF Alike, Meeting, Inserts, ByIndex
  <2> QED BY <1>3, <2>6, <2>7, <2>8 DEF StepOf, Start
<1> QED BY <1>1, <1>2, <1>3, NextCases, Zenon

(* Which steps change the columns, the saved table and the promises.        *)
LEMMA Changes ==
    ASSUME NEW t \in Tasks, StepOf(t)
    PROVE  /\ id' = id \/ AppendRow(t) \/ PopId(t)
           /\ rest' = rest \/ AppendRow(t) \/ WriteValues(t) \/ WriteMeta(t) \/ PopRest(t)
           /\ saved' = saved \/ Commit(t)
           /\ acked' = acked \/ ByIndexStart(t) \/ Commit(t)
<1> USE DEF columns, history
<1>1. CASE Start(t)
  BY <1>1 DEF Start, InsertStart, ByIndexStart
<1>2. CASE Scan(t)
  BY <1>2 DEF Scan, ScanNext, ExistsHit, ExistsMiss, FindHit, FindMiss
<1>3. CASE Use(t)
  <2>1. CASE AppendRow(t)
    BY <2>1 DEF AppendRow
  <2>2. CASE AppendFails(t) \/ ReadRest(t) \/ ReadId(t)
    BY <2>2 DEF AppendFails, ReadRest, ReadId
  <2>3. CASE WriteValues(t) \/ WriteMeta(t)
    BY <2>3 DEF WriteValues, WriteMeta
  <2>4. CASE PopId(t) \/ PopRest(t)
    BY <2>4 DEF PopId, PopRest
  <2>5. CASE Raises(t)
    BY <2>5 DEF Raises
  <2> QED BY <1>3, <2>1, <2>2, <2>3, <2>4, <2>5, Zenon DEF Use
<1>4. CASE Save(t)
  BY <1>4 DEF Save, Commit, CommitLocked, CommitFails
<1> QED BY <1>1, <1>2, <1>3, <1>4, Zenon DEF StepOf

(* Which steps bring a request to an index, and to the phases in which a    *)
(* delete or an update is half done.                                        *)
LEMMA Arrivals ==
    ASSUME RequestsTyped, NEW t \in Tasks, Doing(t), StepOf(t)
    PROVE  /\ pc'[t] \in Using =>
                 FindHit(t) \/ (pc[t] \in Using /\ at'[t] = at[t] /\ todo'[t] = todo[t])
           /\ pc'[t] = "poprest" => PopId(t)
           /\ pc[t] = "poprest" => PopRest(t) \/ half'
           /\ pc'[t] = "writemeta" => WriteValues(t)
           /\ (pc'[t] = "commit" /\ op'[t] = "update") => WriteMeta(t)
           /\ op'[t] \in Inserts =>
                 \/ op[t] \in Inserts /\ (AppendRow(t) \/ mine'[t] = mine[t])
                 \/ mine'[t] = {}
           /\ op'[t] = "delete" =>
                 ByIndexStart(t) \/ (op[t] = "delete" /\ todo'[t] = todo[t])
<1> USE DEF RequestsTyped, Doing, Using, Inserts, ByIndex, columns, scan, request, history
<1>1. CASE ScanNext(t) /\ pc[t] \in {"exists", "find"}
  BY <1>1 DEF ScanNext
<1>2. CASE ExistsMiss(t)
  BY <1>2 DEF ExistsMiss, Goto
<1>3. CASE FindMiss(t)
  BY <1>3 DEF FindMiss, Finish, Goto
<1>4. CASE ReadRest(t)
  BY <1>4 DEF ReadRest, Goto
<1>5. CASE ReadId(t)
  BY <1>5 DEF ReadId, Finish, Goto
<1>6. CASE WriteValues(t)
  BY <1>6 DEF WriteValues, Goto
<1>7. CASE WriteMeta(t)
  BY <1>7 DEF WriteMeta, Goto
<1>8. CASE PopId(t)
  BY <1>8 DEF PopId, Goto
<1>9. CASE PopRest(t)
  BY <1>9 DEF PopRest, Goto
<1>10. CASE Raises(t)
  BY <1>10 DEF Raises, Finish, Goto
<1>11. CASE Commit(t)
  BY <1>11 DEF Commit, Finish, Goto
<1>12. CASE CommitLocked(t)
  BY <1>12 DEF CommitLocked
<1>13. CASE CommitFails(t)
  BY <1>13 DEF CommitFails, Finish, Goto
<1>14. CASE InsertStart(t)
  <2>1. PICK b \in Batches, kind \in Modes :
           Visit(t, kind, b, Len(id)) /\ op' = [op EXCEPT ![t] = kind]
    BY <1>14 DEF InsertStart
  <2>2. pc'[t] \in {"commit", "exists", "append"}
    BY <2>1, VisitOutcome
  <2>3. op'[t] \in Inserts
    BY <2>1, TableAssumption DEF TableAssumption
  <2>4. mine'[t] = {} /\ pc[t] = "idle"
    BY <1>14 DEF InsertStart, Busy
  <2> QED BY <2>2, <2>3, <2>4
<1>15. CASE ByIndexStart(t)
  <2>1. PICK kind \in ByIndex : op' = [op EXCEPT ![t] = kind] /\ Goto(t, "find")
    BY <1>15 DEF ByIndexStart
  <2>2. pc[t] = "idle"
    BY <1>15 DEF ByIndexStart, Busy
  <2> QED BY <1>15, <2>1, <2>2 DEF Goto
<1>16. CASE FindHit(t)
  <2>1. pc[t] = "find" /\ UNCHANGED <<op, todo, mine>>
    BY <1>16 DEF FindHit
  <2>2. pc'[t] = CASE op[t] = "get" -> "readrest"
                   [] op[t] = "update" -> "write"
                   [] op[t] = "delete" -> "popid"
    BY <1>16 DEF FindHit, Goto
  <2>3. op[t] \in ByIndex
    BY <2>1
  <2>4. pc'[t] \in {"readrest", "write", "popid"}
    BY <2>2, <2>3
  <2> QED BY <1>16, <2>1, <2>3, <2>4
<1>17. CASE ExistsHit(t)
  <2>1. pc'[t] \in {"commit", "exists", "append"}
    BY <1>17, VisitOutcome DEF ExistsHit
  <2>2. op'[t] = op[t] /\ op[t] \in Inserts /\ pc[t] \in {"exists", "append"}
    BY <1>17 DEF ExistsHit
  <2>3. AppendRow(t) \/ mine'[t] = mine[t]
    BY <1>17 DEF ExistsHit
  <2> QED BY <2>1, <2>2, <2>3
<1>18. CASE AppendRow(t)
  <2>1. pc'[t] \in {"commit", "exists", "append"}
    BY <1>18, VisitOutcome DEF AppendRow
  <2>2. op'[t] = op[t] /\ op[t] \in Inserts /\ pc[t] \in {"exists", "append"}
    BY <1>18 DEF AppendRow
  <2>3. AppendRow(t) \/ mine'[t] = mine[t]
    BY <1>18 DEF AppendRow
  <2> QED BY <2>1, <2>2, <2>3
<1>19. CASE AppendFails(t)
  <2>1. pc'[t] \in {"commit", "exists", "append"}
    BY <1>19, VisitOutcome DEF AppendFails
  <2>2. op'[t] = op[t] /\ op[t] \in Inserts /\ pc[t] \in {"exists", "append"}
    BY <1>19 DEF AppendFails
  <2>3. AppendRow(t) \/ mine'[t] = mine[t]
    BY <1>19 DEF AppendFails
  <2> QED BY <2>1, <2>2, <2>3
<1> QED BY <1>1, <1>2, <1>3, <1>4, <1>5, <1>6, <1>7, <1>8, <1>9, <1>10, <1>11, <1>12, <1>13, <1>14, <1>15, <1>16, <1>17, <1>18, <1>19, Zenon DEF StepOf, Start, Scan, Use, Save

(* An index stays on its row: a delete that could move the row does not     *)
(* meet the request.                                                        *)
LEMMA PlacedStep == TInv /\ AllDoing /\ AllMeeting /\ AllPlaced /\ [Next]_vars => AllPlaced'
<1> SUFFICES ASSUME TInv, AllDoing, AllMeeting, AllPlaced, [Next]_vars PROVE AllPlaced'
  OBVIOUS
<1>1. CASE Restart
  BY <1>1 DEF Restart, AllPlaced, Placed, Using
<1>2. CASE UNCHANGED vars
  BY <1>2 DEF vars, columns, request, scan, history, AllPlaced, Placed
<1>3. ASSUME NEW t \in Tasks, StepOf(t) PROVE AllPlaced'
  <2>1. RequestsTyped /\ TablesTyped /\ \A u \in Tasks : Doing(u)
    BY DEF TInv, AllDoing
  <2>2. raced => raced'
    BY <1>3, FlagsRise, Zenon
  <2> SUFFICES ASSUME NEW u \in Tasks, ~raced', pc'[u] \in Using
               PROVE  at'[u] <= Len(id') /\ id'[at'[u]] = Head(todo'[u])
    BY DEF AllPlaced, Placed
  <2>3. CASE u = t /\ FindHit(t)
    BY <2>1, <2>3 DEF FindHit, ScanHits, ScanFails, Target, columns, RequestsTyped, TablesTyped
  <2>4. CASE ~(u = t /\ FindHit(t))
    <3>1. pc[u] \in Using /\ at'[u] = at[u] /\ todo'[u] = todo[u]
      <4>1. CASE u = t
        BY <1>3, <2>1, <2>4, <4>1, Arrivals
      <4>2. CASE u # t
        BY <1>3, <2>1, <4>2, OthersAlike DEF Alike
      <4> QED BY <4>1, <4>2
    <3>2. at[u] <= Len(id) /\ id[at[u]] = Head(todo[u]) /\ at[u] \in Nat \ {0}
      BY SMTT(30), <2>1, <2>2, <3>1 DEF AllPlaced, Placed, RequestsTyped
    <3>3. CASE id' = id
      BY <3>1, <3>2, <3>3
    <3>4. CASE AppendRow(t)
      <4>1. id' = Append(id, Target(t)) /\ id \in Seq(Ids)
        BY <2>1, <3>4 DEF AppendRow, TablesTyped
      <4>2. Len(id') = Len(id) + 1 /\ id'[at[u]] = id[at[u]]
        BY <3>2, <4>1
      <4> QED BY <2>1, <3>1, <3>2, <4>1, <4>2 DEF TablesTyped
    <3>5. CASE PopId(t)
      <4>1. pc[t] = "popid" /\ pc'[t] = "poprest"
        BY <2>1, <3>5 DEF PopId, Goto, RequestsTyped
      <4>2. u # t
        BY <4>1 DEF Using
      <4>3. op[t] = "delete" /\ op[u] \in ByIndex /\ pc[u] # "idle"
        BY <2>1, <3>1, <4>1 DEF Doing, Using, ByIndex
      <4>4. Meeting(t, u)
        BY <4>2 DEF AllMeeting
      <4> QED BY <2>2, <4>3, <4>4 DEF Meeting
    <3> QED BY <1>3, <3>3, <3>4, <3>5, Changes
  <2> QED BY <2>3, <2>4
<1> QED BY <1>1, <1>2, <1>3, NextCases, Zenon

-----------------------------------------------------------------------------
(* Columns that line up still do when a row is added, written or removed.   *)
LEMMA InLineAppend ==
    ASSUME NEW is \in Seq(Ids), NEW rs \in Seq(Rows), InLine(is, rs),
           NEW v \in Ids, NEW r \in Rows, r.of = v
    PROVE  InLine(Append(is, v), Append(rs, r))
  BY DEF InLine

LEMMA InLineWrite ==
    ASSUME NEW is \in Seq(Ids), NEW rs \in Seq(Rows), InLine(is, rs),
           NEW i \in 1 .. Len(rs), NEW r \in Rows, r.of = rs[i].of
    PROVE  InLine(is, [rs EXCEPT ![i] = r])
  BY DEF InLine

LEMMA InLineRemove ==
    ASSUME NEW is \in Seq(Ids), NEW rs \in Seq(Rows), InLine(is, rs),
           NEW i \in 1 .. Len(rs)
    PROVE  InLine(RemoveAt(is, i), RemoveAt(rs, i))
<1> DEFINE is2 == RemoveAt(is, i)
           rs2 == RemoveAt(rs, i)
<1>1. /\ Len(is2) = Len(is) - 1
      /\ \A j \in 1 .. Len(is) - 1 : is2[j] = IF j < i THEN is[j] ELSE is[j + 1]
  BY RemoveAtElements DEF InLine
<1>2. /\ Len(rs2) = Len(rs) - 1
      /\ \A j \in 1 .. Len(rs) - 1 : rs2[j] = IF j < i THEN rs[j] ELSE rs[j + 1]
  BY RemoveAtElements
<1> HIDE DEF is2, rs2
<1>3. Len(is) = Len(rs) /\ \A j \in 1 .. Len(rs) : rs[j].of = is[j]
  BY DEF InLine
<1>4. ASSUME NEW j \in 1 .. Len(rs) - 1 PROVE rs2[j].of = is2[j]
  <2>1. j \in 1 .. Len(rs) /\ j + 1 \in 1 .. Len(rs)
    OBVIOUS
  <2>2. CASE j < i
    BY <1>1, <1>2, <1>3, <2>1, <2>2
  <2>3. CASE ~(j < i)
    BY <1>1, <1>2, <1>3, <2>1, <2>3
  <2> QED BY <2>2, <2>3
<1> QED BY <1>1, <1>2, <1>3, <1>4 DEF InLine, is2, rs2

(* The fields of a row once one of them is written.                         *)
LEMMA RowFields ==
    ASSUME NEW x \in Rows, NEW v \in Versions
    PROVE  /\ [x EXCEPT !.values = v] \in Rows
           /\ [x EXCEPT !.values = v].row = x.row
           /\ [x EXCEPT !.values = v].of = x.of
           /\ [x EXCEPT !.values = v].values = v
           /\ [x EXCEPT !.values = v].meta = x.meta
           /\ [x EXCEPT !.meta = v] \in Rows
           /\ [x EXCEPT !.meta = v].row = x.row
           /\ [x EXCEPT !.meta = v].of = x.of
           /\ [x EXCEPT !.meta = v].values = x.values
           /\ [x EXCEPT !.meta = v].meta = v
<1> DEFINE y == [x EXCEPT !.values = v]
           z == [x EXCEPT !.meta = v]
<1>1. /\ y \in Rows
      /\ y = [row |-> x.row, of |-> x.of, values |-> v, meta |-> x.meta]
      /\ z \in Rows
      /\ z = [row |-> x.row, of |-> x.of, values |-> x.values, meta |-> v]
  BY RowWritten
<1> HIDE DEF y, z
<1>2. y.row = x.row /\ y.of = x.of /\ y.values = v /\ y.meta = x.meta
  BY <1>1
<1>3. z.row = x.row /\ z.of = x.of /\ z.values = x.values /\ z.meta = v
  BY <1>1
<1> QED BY <1>1, <1>2, <1>3 DEF y, z

(* An update writes another version into the row at its index.              *)
LEMMA RowRewritten ==
    ASSUME TInv, NEW t \in Tasks, WriteValues(t) \/ WriteMeta(t)
    PROVE  \E r \in Rows :
              /\ r.row = rest[at[t]].row /\ r.of = rest[at[t]].of
              /\ rest' = [rest EXCEPT ![at[t]] = r]
              /\ WriteValues(t) => /\ r.values = rest[at[t]].values + 1
                                   /\ r.meta = rest[at[t]].meta
                                   /\ mine' = [mine EXCEPT ![t] = {r}]
              /\ WriteMeta(t) => /\ r.values = rest[at[t]].values
                                 /\ \E w \in mine[t] :
                                       /\ r.meta = w.values
                                       /\ mine' = [mine EXCEPT ![t] = {[w EXCEPT !.meta = w.values]}]
<1>1. at[t] \in 1 .. Len(rest) /\ rest[at[t]] \in Rows
  BY DEF WriteValues, WriteMeta, TInv, RequestsTyped, TablesTyped
<1>2. CASE WriteValues(t)
  <2>1. rest[at[t]].values \in Versions
    BY <1>1 DEF Rows
  <2>2. rest[at[t]].values < MaxUpdates
    BY <1>2, Zenon DEF WriteValues
  <2>3. rest[at[t]].values + 1 \in Versions
    BY <2>1, <2>2, NextVersion
  <2> DEFINE r == [rest[at[t]] EXCEPT !.values = rest[at[t]].values + 1]
  <2>4. /\ r \in Rows
        /\ r.row = rest[at[t]].row /\ r.of = rest[at[t]].of
        /\ r.values = rest[at[t]].values + 1 /\ r.meta = rest[at[t]].meta
    BY ZenonT(40), <1>1, <2>3, RowFields
  <2>5. rest' = [rest EXCEPT ![at[t]] = r] /\ mine' = [mine EXCEPT ![t] = {r}]
    BY <1>2 DEF WriteValues
  <2>6. ~WriteMeta(t)
    BY <1>2 DEF WriteValues, WriteMeta
  <2> HIDE DEF r
  <2> QED BY <2>4, <2>5, <2>6
<1>3. CASE WriteMeta(t)
  <2>1. PICK w \in mine[t] :
           /\ rest' = [rest EXCEPT ![at[t]].meta = w.values]
           /\ mine' = [mine EXCEPT ![t] = {[w EXCEPT !.meta = w.values]}]
    BY <1>3 DEF WriteMeta
  <2>2. w.values \in Versions
    <3>1. w \in Rows
      BY DEF TInv, RequestsTyped
    <3> QED BY <3>1 DEF Rows
  <2> DEFINE r == [rest[at[t]] EXCEPT !.meta = w.values]
  <2>3. /\ r \in Rows
        /\ r.row = rest[at[t]].row /\ r.of = rest[at[t]].of
        /\ r.values = rest[at[t]].values /\ r.meta = w.values
    BY ZenonT(40), <1>1, <2>2, RowFields
  <2>4. rest' = [rest EXCEPT ![at[t]] = r]
    BY <2>1
  <2>5. ~WriteValues(t)
    BY <1>3 DEF WriteValues, WriteMeta
  <2> HIDE DEF r
  <2> QED BY <2>1, <2>3, <2>4, <2>5
<1> QED BY <1>2, <1>3

(* While a calm delete is in progress nothing else is.                      *)
LEMMA DeleteAlone ==
    ASSUME RequestsTyped, AllDoing, AllMeeting, Calm,
           NEW t \in Tasks, NEW u \in Tasks \ {t}, op[t] = "delete"
    PROVE  pc[u] = "idle"
<1>1. Meeting(t, u)
  BY DEF AllMeeting
<1>2. op[u] \in Inserts \/ op[u] \in ByIndex
  BY DEF RequestsTyped
<1> QED BY <1>1, <1>2 DEF Calm, Meeting

(* Beside a failed delete a commit ends the calm, so that the saved table   *)
(* and what is promised of it stand.                                        *)
LEMMA SavedBesideHalf ==
    ASSUME NEW t \in Tasks, StepOf(t), half', ~torn'
    PROVE  saved' = saved /\ acked' \subseteq acked
<1>1. ~Commit(t)
  <2>1. SUFFICES ASSUME Commit(t) PROVE FALSE
    OBVIOUS
  <2>2. half' = half /\ torn' = (torn \/ half)
    BY <2>1, Zenon DEF Commit
  <2> QED BY <2>2, Zenon
<1>2. ByIndexStart(t) => acked' \subseteq acked
  BY DEF ByIndexStart
<1> QED BY <1>1, <1>2, Changes

(* A delete leaves the columns in line, one after the other; nobody sees or *)
(* saves them in between.                                                   *)
LEMMA LinedStep ==
    TInv /\ AllDoing /\ AllMeeting /\ AllPlaced /\ Lined /\ [Next]_vars => Lined'
<1> SUFFICES ASSUME TInv, AllDoing, AllMeeting, AllPlaced, Lined, [Next]_vars PROVE Lined'
  OBVIOUS
<1>0. /\ RequestsTyped /\ id \in Seq(Ids) /\ rest \in Seq(Rows)
      /\ saved.id \in Seq(Ids) /\ saved.rest \in Seq(Rows)
  BY DEF TInv, TablesTyped, Tables
<1>1. CASE Restart
  <2>1. (Calm' => Calm) /\ saved' = saved /\ id' = saved.id /\ rest' = saved.rest
    BY <1>1 DEF Restart, Calm, history
  <2>2. \A t \in Tasks : pc'[t] = "idle"
    BY <1>1 DEF Restart
  <2> QED BY <2>1, <2>2 DEF Lined
<1>2. CASE UNCHANGED vars
  BY <1>2 DEF vars, columns, request, scan, history, Lined, Calm, HalfPopped
<1>3. ASSUME NEW t \in Tasks, StepOf(t) PROVE Lined'
  <2>1. (raced => raced') /\ (torn => torn') /\ (half => half')
    BY <1>3, FlagsRise, Zenon
  <2>13. ASSUME Calm', half' PROVE InLine(saved'.id, saved'.rest)
    <3>1. saved' = saved
      BY <1>3, <2>13, SavedBesideHalf DEF Calm
    <3> QED BY <2>1, <2>13, <3>1 DEF Lined, Calm
  <2> SUFFICES ASSUME Calm', ~half'
               PROVE  /\ InLine(saved'.id, saved'.rest)
                      /\ (\A u \in Tasks : pc'[u] # "poprest") => InLine(id', rest')
                      /\ \A u \in Tasks : pc'[u] = "poprest" => HalfPopped(u)'
    BY <2>13 DEF Lined
  <2>2. Calm /\ ~half /\ ~half'
    BY <2>1 DEF Calm
  <2>3. /\ InLine(saved.id, saved.rest)
        /\ (\A u \in Tasks : pc[u] # "poprest") => InLine(id, rest)
        /\ \A u \in Tasks : pc[u] = "poprest" => HalfPopped(u)
    BY <2>2 DEF Lined
  <2>4. \A u \in Tasks \ {t} : Alike(u)
    BY <1>0, <1>3, OthersAlike
  <2>5. Doing(t) /\ \A u \in Tasks : pc[u] = "poprest" => op[u] = "delete"
    BY DEF AllDoing, Doing
  <2>6. ASSUME pc[t] # "idle", pc[t] # "poprest"
        PROVE  InLine(id, rest) /\ \A u \in Tasks : pc[u] # "poprest"
    <3>1. ASSUME NEW u \in Tasks, pc[u] = "poprest" PROVE FALSE
      BY <1>0, <2>2, <2>5, <2>6, <3>1, DeleteAlone
    <3> QED BY <2>3, <3>1
  <2>7. CASE AppendRow(t)
    <3>1. pc[t] = "append" /\ pc'[t] # "poprest"
      BY <1>0, <2>7, VisitOutcome DEF AppendRow
    <3>2. PICK r : /\ r = [row |-> appended + 1, of |-> Target(t), values |-> 0, meta |-> 0]
                   /\ id' = Append(id, Target(t)) /\ rest' = Append(rest, r) /\ saved' = saved
      BY <2>7 DEF AppendRow
    <3>3. Target(t) \in Ids /\ r \in Rows
      <4>1. Target(t) \in Ids
        BY <3>1 DEF TInv, Working, RequestsTyped, Target
      <4> QED BY <2>7, <3>2, <4>1, TableAssumption
             DEF AppendRow, Rows, Versions, TInv, TablesTyped, TableAssumption
    <3>4. InLine(id', rest')
      BY <1>0, <2>6, <3>1, <3>2, <3>3, InLineAppend
    <3> QED BY <2>3, <2>4, <2>6, <3>1, <3>2, <3>4 DEF Alike
  <2>8. CASE WriteValues(t) \/ WriteMeta(t)
    <3>1. pc[t] \in {"write", "writemeta"} /\ pc'[t] # "poprest"
      BY <1>0, <2>8 DEF WriteValues, WriteMeta, Goto, RequestsTyped
    <3>2. saved' = saved /\ id' = id
      BY <2>8 DEF WriteValues, WriteMeta
    <3>3. PICK r \in Rows : r.of = rest[at[t]].of /\ rest' = [rest EXCEPT ![at[t]] = r]
      BY <1>0, <2>8, RowRewritten DEF TInv
    <3>4. at[t] \in 1 .. Len(rest)
      BY <1>0, <2>8 DEF WriteValues, WriteMeta, RequestsTyped
    <3>5. InLine(id', rest')
      BY <1>0, <2>6, <3>1, <3>2, <3>3, <3>4, InLineWrite
    <3> QED BY <2>3, <2>4, <2>6, <3>1, <3>2, <3>5 DEF Alike
  <2>9. CASE PopId(t)
    <3>1. /\ pc[t] = "popid" /\ pc'[t] = "poprest" /\ at' = at /\ todo' = todo
          /\ id' = RemoveAt(id, at[t]) /\ rest' = rest /\ saved' = saved
      BY <1>0, <2>9 DEF PopId, Goto, scan, RequestsTyped
    <3>2. at[t] \in 1 .. Len(id) /\ id[at[t]] = Head(todo[t])
      BY <1>0, <2>2, <3>1 DEF AllPlaced, Placed, Using, Calm, RequestsTyped
    <3>3. InLine(id, rest)
      BY <2>6, <3>1
    <3>4. at[t] \in 1 .. Len(rest) /\ rest[at[t]].of = Head(todo[t])
      BY <3>2, <3>3 DEF InLine
    <3>5. HalfPopped(t)'
      BY <1>0, <3>1, <3>3, <3>4, InLineRemove DEF HalfPopped
    <3> QED BY <2>3, <2>4, <2>6, <3>1, <3>5 DEF Alike
  <2>10. CASE PopRest(t)
    <3>1. /\ pc[t] = "poprest" /\ pc'[t] = "commit"
          /\ rest' = RemoveAt(rest, at[t]) /\ id' = id /\ saved' = saved
      BY <1>0, <2>10 DEF PopRest, Goto, RequestsTyped
    <3>2. InLine(id', rest')
      BY <2>3, <3>1 DEF HalfPopped
    <3>3. \A u \in Tasks \ {t} : pc'[u] = "idle"
      BY <1>0, <2>2, <2>4, <2>5, <3>1, DeleteAlone DEF Alike
    <3> QED BY <2>3, <3>1, <3>2, <3>3
  <2>11. CASE Commit(t)
    <3>1. /\ pc[t] = "commit" /\ saved' = [id |-> id, rest |-> rest]
          /\ id' = id /\ rest' = rest /\ pc'[t] # "poprest"
      BY <1>0, <2>11 DEF Commit, Finish, Goto, columns, RequestsTyped
    <3> QED BY <2>4, <2>6, <3>1 DEF Alike
  <2>12. CASE ~(AppendRow(t) \/ WriteValues(t) \/ WriteMeta(t) \/ PopId(t) \/ PopRest(t) \/ Commit(t))
    <3>1. id' = id /\ rest' = rest /\ saved' = saved
      BY <1>3, <2>12, Changes
    <3>2. pc'[t] # "poprest" /\ pc[t] # "poprest"
      BY <1>0, <1>3, <2>2, <2>5, <2>12, Arrivals
    <3> QED BY <2>3, <2>4, <3>1, <3>2 DEF Alike, HalfPopped
  <2> QED BY <2>7, <2>8, <2>9, <2>10, <2>11, <2>12
<1> QED BY <1>1, <1>2, <1>3, NextCases, Zenon

-----------------------------------------------------------------------------
(* What is stored stays stored when a row is added, when one is written     *)
(* with newer fields, and when one of another vector is removed.            *)
LEMMA StoredAppend ==
    ASSUME NEW rs \in Seq(Rows), NEW r \in Rows, NEW a, Stored(rs, a)
    PROVE  Stored(Append(rs, r), a)
<1>1. PICK i \in 1 .. Len(rs) : Covers(rs[i], a)
  BY DEF Stored
<1>2. i \in 1 .. Len(Append(rs, r)) /\ Append(rs, r)[i] = rs[i]
  OBVIOUS
<1> QED BY <1>1, <1>2 DEF Stored

LEMMA StoredWrite ==
    ASSUME NEW rs \in Seq(Rows), NEW i \in 1 .. Len(rs), NEW r \in Rows,
           r.row = rs[i].row, r.of = rs[i].of,
           r.values >= rs[i].values, r.meta >= rs[i].meta,
           NEW a \in Rows, Stored(rs, a)
    PROVE  Stored([rs EXCEPT ![i] = r], a)
<1>1. PICK j \in 1 .. Len(rs) : Covers(rs[j], a)
  BY DEF Stored
<1> DEFINE ws == [rs EXCEPT ![i] = r]
<1>2. Len(ws) = Len(rs) /\ ws[j] = IF j = i THEN r ELSE rs[j]
  OBVIOUS
<1>3. rs[i] \in Rows /\ \A x \in Rows : x.values \in Nat /\ x.meta \in Nat
  <2>1. rs[i] \in Rows
    OBVIOUS
  <2>2. ASSUME NEW x \in Rows PROVE x.values \in Nat /\ x.meta \in Nat
    BY DEF Rows, Versions
  <2> QED BY <2>1, <2>2
<1>4. CASE j = i
  <2>1. r.values >= a.values /\ r.meta >= a.meta
    BY <1>1, <1>3, <1>4 DEF Covers
  <2> QED BY <1>1, <1>2, <1>4, <2>1 DEF Stored, Covers
<1>5. CASE j # i
  BY <1>1, <1>2, <1>5 DEF Stored
<1> QED BY <1>4, <1>5

LEMMA StoredRemove ==
    ASSUME NEW rs \in Seq(Rows), NEW i \in 1 .. Len(rs),
           NEW a, a.of # rs[i].of, Stored(rs, a)
    PROVE  Stored(RemoveAt(rs, i), a)
<1>1. PICK j \in 1 .. Len(rs) : Covers(rs[j], a)
  BY DEF Stored
<1> DEFINE ws == RemoveAt(rs, i)
<1>2. /\ Len(ws) = Len(rs) - 1
      /\ \A k \in 1 .. Len(rs) - 1 : ws[k] = IF k < i THEN rs[k] ELSE rs[k + 1]
  BY RemoveAtElements
<1> HIDE DEF ws
<1>3. j # i
  BY <1>1 DEF Covers
<1>4. CASE j < i
  <2>1. j \in 1 .. Len(ws) /\ ws[j] = rs[j]
    BY <1>2, <1>4
  <2> QED BY <1>1, <2>1 DEF Stored, ws
<1>5. CASE j > i
  <2>1. j - 1 \in 1 .. Len(ws) /\ ws[j - 1] = rs[j]
    BY <1>2, <1>5
  <2> QED BY <1>1, <2>1 DEF Stored, ws
<1> QED BY <1>3, <1>4, <1>5

LEMMA OrderedRemove ==
    ASSUME NEW rs \in Seq(Rows), NEW i \in 1 .. Len(rs), Ordered(rs)
    PROVE  Ordered(RemoveAt(rs, i))
<1> DEFINE ws == RemoveAt(rs, i)
<1>1. /\ Len(ws) = Len(rs) - 1
      /\ \A k \in 1 .. Len(rs) - 1 : ws[k] = IF k < i THEN rs[k] ELSE rs[k + 1]
  BY RemoveAtElements
<1> HIDE DEF ws
<1>2. ASSUME NEW k \in 1 .. Len(ws) PROVE ws[k].meta <= ws[k].values
  <2>1. k \in 1 .. Len(rs) /\ k + 1 \in 1 .. Len(rs)
    BY <1>1
  <2> QED BY <1>1, <1>2, <2>1 DEF Ordered
<1> QED BY <1>2 DEF Ordered, ws

(* The steps that keep every promise as it is.                              *)
LEMMA PromisesKept ==
    ASSUME TInv, AllDoing, NEW t \in Tasks, StepOf(t),
           ~(AppendRow(t) \/ WriteValues(t) \/ WriteMeta(t) \/ PopRest(t)
               \/ ByIndexStart(t) \/ Commit(t)),
           \A u \in Tasks : Promised(u)
    PROVE  \A u \in Tasks : Promised(u)'
<1>1. rest' = rest /\ acked' = acked
  BY Changes
<1>2. RequestsTyped /\ Doing(t) /\ Promised(t)
  BY DEF TInv, AllDoing
<1>3. ASSUME NEW u \in Tasks \ {t} PROVE Promised(u)'
  <2>1. Alike(u) /\ Promised(u)
    BY <1>2, OthersAlike
  <2> QED BY <1>1, <2>1 DEF Alike, Promised
<1>4. /\ pc'[t] # "writemeta"
      /\ ~(pc'[t] = "commit" /\ op'[t] = "update")
      /\ op'[t] \in Inserts =>
            (op[t] \in Inserts /\ mine'[t] = mine[t]) \/ mine'[t] = {}
      /\ op'[t] = "delete" => op[t] = "delete" /\ todo'[t] = todo[t]
  BY <1>2, Arrivals
<1>5. Promised(t)'
  BY <1>1, <1>2, <1>4, Zenon DEF Promised
<1> QED BY <1>3, <1>5

(* Everything that was acknowledged, and everything that is about to be, is *)
(* in the working copy, so that the next commit, whoever asks for it, saves *)
(* it.                                                                      *)
LEMMA DurableStep ==
    TInv /\ RowInv /\ [Next]_vars => Durable'
<1> SUFFICES ASSUME TInv, RowInv, [Next]_vars PROVE Durable'
  OBVIOUS
<1>0. /\ RequestsTyped /\ rest \in Seq(Rows) /\ acked \subseteq Rows
      /\ AllDoing /\ AllMeeting /\ AllPlaced /\ Lined /\ Durable
  BY DEF TInv, TablesTyped, RowInv
<1>1. CASE Restart
  <2>1. /\ (Calm' /\ ~crossed' => Calm /\ ~crossed)
        /\ saved' = saved /\ rest' = saved.rest /\ acked' = acked
    BY <1>1 DEF Restart, Calm, history
  <2>2. \A t \in Tasks : pc'[t] = "idle" /\ op'[t] = "get"
    BY <1>1 DEF Restart
  <2> QED BY <1>0, <2>1, <2>2 DEF Durable, Promised, Inserts
<1>2. CASE UNCHANGED vars
  BY <1>0, <1>2 DEF vars, columns, request, scan, history, Durable, Calm, Promised
<1>3. ASSUME NEW t \in Tasks, StepOf(t) PROVE Durable'
  <2>1. (raced => raced') /\ (torn => torn') /\ (half => half') /\ (crossed => crossed')
    BY <1>3, FlagsRise, Zenon
  <2>12. ASSUME Calm', ~crossed', half'
         PROVE  (\A a \in acked' : Stored(saved'.rest, a)) /\ Ordered(saved'.rest)
    <3>1. saved' = saved /\ acked' \subseteq acked
      BY <1>3, <2>12, SavedBesideHalf DEF Calm
    <3> QED BY <1>0, <2>1, <2>12, <3>1 DEF Durable, Calm
  <2> SUFFICES ASSUME Calm', ~crossed', ~half'
               PROVE  /\ \A a \in acked' : Stored(saved'.rest, a) /\ Stored(rest', a)
                      /\ Ordered(saved'.rest) /\ Ordered(rest')
                      /\ \A u \in Tasks : Promised(u)'
    BY <2>12 DEF Durable
  <2>2. Calm /\ ~half /\ ~crossed
    BY <2>1 DEF Calm
  <2>3. /\ \A a \in acked : a \in Rows /\ Stored(saved.rest, a) /\ Stored(rest, a)
        /\ Ordered(saved.rest) /\ Ordered(rest)
        /\ \A u \in Tasks : Promised(u)
    BY <1>0, <2>2 DEF Durable
  <2>4. \A u \in Tasks \ {t} : Alike(u)
    BY <1>0, <1>3, OthersAlike
  <2>5. \A u \in Tasks : Doing(u)
    BY <1>0 DEF AllDoing
  <2>6. CASE AppendRow(t)
    <3>1. PICK r : /\ r = [row |-> appended + 1, of |-> Target(t), values |-> 0, meta |-> 0]
                   /\ rest' = Append(rest, r) /\ mine' = [mine EXCEPT ![t] = mine[t] \cup {r}]
                   /\ saved' = saved /\ acked' = acked /\ op' = op
      BY <2>6 DEF AppendRow
    <3>2. r \in Rows
      <4>1. Target(t) \in Ids
        BY <2>6 DEF AppendRow, TInv, Working, RequestsTyped, Target
      <4> QED BY <2>6, <3>1, <4>1, TableAssumption
             DEF AppendRow, Rows, Versions, TInv, TablesTyped, TableAssumption
    <3>3. \A a : Stored(rest, a) => Stored(rest', a)
      BY <1>0, <3>1, <3>2, StoredAppend
    <3>4. /\ Len(rest') = Len(rest) + 1 /\ rest'[Len(rest) + 1] = r
          /\ \A i \in 1 .. Len(rest) : rest'[i] = rest[i]
      BY <1>0, <3>1, <3>2
    <3>5. Ordered(rest')
      BY <1>0, <2>3, <3>1, <3>4 DEF Ordered
    <3>6. Stored(rest', r)
      <4>1. Covers(r, r)
        BY <3>1 DEF Covers
      <4>2. Len(rest) + 1 \in 1 .. Len(rest')
        BY <1>0, <3>4
      <4> QED BY <3>4, <4>1, <4>2 DEF Stored
    <3>7. op[t] \in Inserts /\ pc'[t] # "writemeta"
      BY <1>0, <2>5, <2>6, VisitOutcome DEF AppendRow, Doing
    <3>8. Promised(t)'
      <4>1. op'[t] \in Inserts /\ mine'[t] = mine[t] \cup {r}
        BY <1>0, <3>1, <3>7 DEF RequestsTyped
      <4>2. \A x \in mine[t] : Stored(rest', x)
        BY <2>3, <3>3, <3>7 DEF Promised
      <4> QED BY <3>6, <3>7, <4>1, <4>2 DEF Promised, Inserts
    <3>9. ASSUME NEW u \in Tasks \ {t} PROVE Promised(u)'
      <4>1. Promised(u) /\ Alike(u) /\ at[u] \in Nat \ {0}
        BY <1>0, <2>3, <2>4 DEF RequestsTyped
      <4>2. pc[u] = "writemeta" => at[u] <= Len(rest') /\ rest'[at[u]] = rest[at[u]]
        BY <1>0, <3>4, <4>1 DEF Promised
      <4> QED BY <3>1, <3>3, <4>1, <4>2 DEF Promised, Alike
    <3> QED BY <2>3, <3>1, <3>3, <3>5, <3>8, <3>9
  <2>7. CASE WriteValues(t) \/ WriteMeta(t)
    <3>1. PICK r \in Rows :
              /\ r.row = rest[at[t]].row /\ r.of = rest[at[t]].of
              /\ rest' = [rest EXCEPT ![at[t]] = r]
              /\ WriteValues(t) => /\ r.values = rest[at[t]].values + 1
                                   /\ r.meta = rest[at[t]].meta
                                   /\ mine' = [mine EXCEPT ![t] = {r}]
              /\ WriteMeta(t) => /\ r.values = rest[at[t]].values
                                 /\ \E w \in mine[t] :
                                       /\ r.meta = w.values
                                       /\ mine' = [mine EXCEPT ![t] = {[w EXCEPT !.meta = w.values]}]
      BY <2>7, RowRewritten
    <3>2. /\ at[t] \in 1 .. Len(rest) /\ pc[t] \in {"write", "writemeta"}
          /\ saved' = saved /\ acked' = acked /\ op' = op /\ todo' = todo
      BY <1>0, <2>7 DEF WriteValues, WriteMeta, RequestsTyped, history
    <3> DEFINE old == rest[at[t]]
    <3>3. old \in Rows /\ old.values \in Nat /\ old.meta \in Nat /\ old.meta <= old.values
      <4>1. old \in Rows
        BY <1>0, <3>2
      <4>2. old.meta <= old.values
        BY <2>3, <3>2 DEF Ordered
      <4> QED BY <4>1, <4>2 DEF Rows, Versions
    <3>4. r.values \in Nat /\ r.meta \in Nat
      BY DEF Rows, Versions
    <3>5. WriteMeta(t) => /\ mine[t] = {old} /\ r.meta = old.values
                          /\ mine'[t] = {[old EXCEPT !.meta = old.values]}
      <4>1. ASSUME WriteMeta(t) PROVE mine[t] = {old}
        <5>1. pc[t] = "writemeta"
          BY <4>1 DEF WriteMeta
        <5> QED BY <2>3, <5>1 DEF Promised
      <4> QED BY <1>0, <3>1, <4>1 DEF RequestsTyped
    <3>6. r.values >= old.values /\ r.meta >= old.meta /\ r.meta <= r.values
      BY <2>7, <3>1, <3>3, <3>4, <3>5
    <3>7. \A a \in Rows : Stored(rest, a) => Stored(rest', a)
      BY <1>0, <3>1, <3>2, <3>6, StoredWrite
    <3>8. /\ Len(rest') = Len(rest) /\ rest'[at[t]] = r
          /\ \A i \in 1 .. Len(rest) : i # at[t] => rest'[i] = rest[i]
      BY <1>0, <3>1, <3>2
    <3>9. Ordered(rest')
      BY <2>3, <3>6, <3>8 DEF Ordered
    <3>10. op[t] = "update"
      BY <2>5, <3>2 DEF Doing
    <3>11. Promised(t)'
      <4>1. CASE WriteValues(t)
        <5>1. pc'[t] = "writemeta" /\ at' = at /\ mine'[t] = {r}
          BY <1>0, <3>1, <4>1 DEF WriteValues, Goto, scan, RequestsTyped
        <5> QED BY <3>2, <3>8, <3>10, <5>1 DEF Promised, Inserts
      <4>2. CASE WriteMeta(t)
        <5>1. pc'[t] = "commit"
          BY <1>0, <4>2 DEF WriteMeta, Goto, RequestsTyped
        <5> DEFINE new == [old EXCEPT !.meta = old.values]
        <5>2. new.row = old.row /\ new.of = old.of /\ new.values = old.values
              /\ new.meta = old.values
          <6>1. old.values \in Versions
            BY <3>3 DEF Rows
          <6> QED BY <3>3, <6>1, RowFields
        <5>3. mine'[t] = {new}
          BY <3>5, <4>2
        <5> HIDE DEF new
        <5>4. Covers(r, new)
          BY <3>1, <3>3, <3>5, <4>2, <5>2 DEF Covers
        <5>5. Stored(rest', new)
          BY <3>2, <3>8, <5>4 DEF Stored
        <5> QED BY <3>2, <3>10, <5>1, <5>3, <5>5 DEF Promised, Inserts
      <4> QED BY <2>7, <4>1, <4>2
    <3>12. ASSUME NEW u \in Tasks \ {t} PROVE Promised(u)'
      <4>1. Promised(u) /\ Alike(u) /\ mine[u] \subseteq Rows /\ at[u] \in Nat \ {0}
        BY SMTT(30), <1>0, <2>3, <2>4 DEF RequestsTyped
      <4>2. ASSUME pc[u] = "writemeta" PROVE at[u] # at[t]
        <5>1. op[u] = "update" /\ Meeting(t, u)
          BY <1>0, <2>5, <4>2 DEF Doing, AllMeeting
        <5>2. Head(todo[t]) # Head(todo[u])
          BY <2>2, <3>10, <5>1 DEF Meeting
        <5>3. id[at[t]] = Head(todo[t]) /\ id[at[u]] = Head(todo[u])
          BY <1>0, <2>2, <3>2, <4>2 DEF AllPlaced, Placed, Calm, Using
        <5> QED BY <5>2, <5>3
      <4>3. pc[u] = "writemeta" => at[u] <= Len(rest') /\ rest'[at[u]] = rest[at[u]]
        BY <1>0, <3>8, <4>1, <4>2 DEF Promised
      <4> QED BY <3>2, <3>7, <4>1, <4>3 DEF Promised, Alike
    <3> QED BY <2>3, <3>2, <3>7, <3>9, <3>11, <3>12
  <2>8. CASE PopRest(t)
    <3>1. /\ pc[t] = "poprest" /\ pc'[t] = "commit" /\ op' = op /\ todo' = todo /\ mine' = mine
          /\ rest' = RemoveAt(rest, at[t]) /\ saved' = saved /\ acked' = acked
      BY <1>0, <2>8 DEF PopRest, Goto, RequestsTyped, history
    <3>2. at[t] \in 1 .. Len(rest) /\ rest[at[t]].of = Head(todo[t])
      BY <1>0, <2>2, <3>1 DEF Lined, HalfPopped, RequestsTyped
    <3>3. op[t] = "delete" /\ mine[t] = {}
      BY <2>5, <3>1 DEF Doing
    <3>4. \A a \in acked : a.of # rest[at[t]].of
      BY <2>3, <3>2, <3>3 DEF Promised
    <3>5. \A a \in acked : Stored(rest', a)
      BY <1>0, <2>3, <3>1, <3>2, <3>4, StoredRemove
    <3>6. Ordered(rest')
      BY <1>0, <2>3, <3>1, <3>2, OrderedRemove
    <3>7. Promised(t)'
      BY <2>3, <3>1, <3>3 DEF Promised, Inserts
    <3>8. ASSUME NEW u \in Tasks \ {t} PROVE Promised(u)'
      <4>1. pc[u] = "idle" /\ op[u] = "get" /\ Alike(u)
        BY <1>0, <2>2, <2>4, <2>5, <3>3, DeleteAlone DEF Doing
      <4> QED BY <4>1 DEF Alike, Promised, Inserts
    <3> QED BY <2>3, <3>1, <3>5, <3>6, <3>7, <3>8
  <2>9. CASE ByIndexStart(t)
    <3>1. PICK kind \in ByIndex, v \in Ids :
             /\ op' = [op EXCEPT ![t] = kind] /\ todo' = [todo EXCEPT ![t] = <<v>>]
             /\ acked' = {a \in acked : kind = "delete" => a.of # v}
             /\ Goto(t, "find") /\ rest' = rest /\ saved' = saved
      BY <2>9 DEF ByIndexStart, columns
    <3>2. op'[t] = kind /\ Head(todo'[t]) = v /\ pc'[t] = "find" /\ acked' \subseteq acked
      BY <1>0, <3>1 DEF RequestsTyped, Goto
    <3>3. Promised(t)'
      BY <3>1, <3>2 DEF Promised, Inserts, ByIndex
    <3>4. ASSUME NEW u \in Tasks \ {t} PROVE Promised(u)'
      BY <2>3, <2>4, <3>1, <3>2 DEF Promised, Alike
    <3> QED BY <2>3, <3>1, <3>2, <3>3, <3>4
  <2>10. CASE Commit(t)
    <3>1. /\ pc[t] = "commit" /\ rest' = rest /\ saved'.rest = rest
          /\ acked' = acked \cup mine[t]
          /\ op'[t] = "get" /\ pc'[t] \in {"idle", "find"}
      BY <1>0, <2>10 DEF Commit, Finish, Goto, columns, RequestsTyped
    <3>2. \A r \in mine[t] : Stored(rest, r)
      <4>1. op[t] # "get" /\ (op[t] = "delete" => mine[t] = {})
        BY <2>5, <3>1 DEF Doing
      <4>2. op[t] \in {"get", "update", "delete"} \cup Inserts
        BY <1>0 DEF RequestsTyped, ByIndex
      <4> QED BY <2>3, <3>1, <4>1, <4>2 DEF Promised
    <3>3. Promised(t)'
      BY <3>1 DEF Promised, Inserts
    <3>4. ASSUME NEW u \in Tasks \ {t} PROVE Promised(u)'
      <4>1. op[u] # "delete"
        BY <1>0, <2>2, <3>1, DeleteAlone
      <4> QED BY <2>3, <2>4, <3>1, <4>1 DEF Promised, Alike
    <3> QED BY <2>3, <3>1, <3>2, <3>3, <3>4
  <2>11. CASE ~(AppendRow(t) \/ WriteValues(t) \/ WriteMeta(t) \/ PopRest(t)
                  \/ ByIndexStart(t) \/ Commit(t))
    <3>1. rest' = rest /\ saved' = saved /\ acked' = acked
      BY <1>3, <2>11, Changes
    <3>2. \A u \in Tasks : Promised(u)'
      BY <1>0, <1>3, <2>2, <2>3, <2>11, PromisesKept
    <3> QED BY <2>3, <3>1, <3>2
  <2> QED BY <2>6, <2>7, <2>8, <2>9, <2>10, <2>11
<1> QED BY <1>1, <1>2, <1>3, NextCases, Zenon

LEMMA RowInvInit == Init => RowInv
<1> SUFFICES ASSUME Init PROVE RowInv
  OBVIOUS
<1> USE DEF Init
<1>1. AllDoing /\ AllMeeting /\ AllPlaced
  BY DEF AllDoing, Doing, AllMeeting, Meeting, AllPlaced, Placed, Using, Inserts, ByIndex
<1>2. Lined
  BY DEF Lined, InLine
<1>3. Durable
  BY DEF Durable, Ordered, Promised, Inserts
<1> QED BY <1>1, <1>2, <1>3 DEF RowInv

LEMMA RowInvStep == TInv /\ RowInv /\ [Next]_vars => RowInv'
  BY DoingStep, MeetingStep, PlacedStep, LinedStep, DurableStep, Zenon DEF RowInv

-----------------------------------------------------------------------------
(* A request by index uses the row of its vector, in any table and with any *)
(* number of requests, unless a delete met another request by index.        *)
THEOREM IndexStaysOnItsRow == Spec => []RightRow
<1>1. TInv /\ RowInv => RightRow
  <2> SUFFICES ASSUME TInv, RowInv, ~raced, NEW t \in Tasks
               PROVE  /\ pc[t] \in {"write", "writemeta", "readrest", "readid"} =>
                            /\ at[t] <= Len(id) /\ id[at[t]] = Target(t)
                            /\ torn \/ half \/ rest[at[t]].of = Target(t)
                      /\ pc[t] = "popid" => at[t] <= Len(id) /\ id[at[t]] = Target(t)
    BY DEF RightRow
  <2>1. pc[t] \in Using => at[t] <= Len(id) /\ id[at[t]] = Target(t)
    BY DEF RowInv, AllPlaced, Placed, Target
  <2>2. ASSUME ~torn, ~half, pc[t] \in {"write", "writemeta", "readrest", "readid"}
        PROVE  rest[at[t]].of = Target(t)
    <3>1. \A u \in Tasks : pc[u] # "poprest"
      <4>1. ASSUME NEW u \in Tasks, pc[u] = "poprest" PROVE FALSE
        <5>1. op[u] = "delete" /\ u # t
          BY <2>2, <4>1 DEF RowInv, AllDoing, Doing
        <5> QED BY <2>2, <5>1, DeleteAlone DEF TInv, RowInv, Calm
      <4> QED BY <4>1
    <3>2. InLine(id, rest)
      BY <2>2, <3>1 DEF RowInv, Lined, Calm
    <3>3. at[t] \in 1 .. Len(id) /\ id[at[t]] = Target(t)
      BY <2>1, <2>2 DEF Using, TInv, RequestsTyped
    <3> QED BY <3>2, <3>3 DEF InLine
  <2> QED BY <2>1, <2>2 DEF Using
<1> QED BY TInvInit, TInvStep, RowInvInit, RowInvStep, <1>1, PTL DEF Spec

(* The columns of the saved table line up unless a delete met another       *)
(* request or a commit saved what a failed delete had left half popped;     *)
(* those of the working copy do so too unless a delete stands, or in this   *)
(* process failed, between its pops.                                        *)
THEOREM ColumnsStayAligned == Spec => []ColumnsAligned
<1>1. RowInv => ColumnsAligned
  BY DEF RowInv, Lined, Calm, InLine, ColumnsAligned, Aligned
<1> QED BY TInvInit, TInvStep, RowInvInit, RowInvStep, <1>1, PTL DEF Spec

(* What a request was told is stored stays stored through failed commits,   *)
(* failed deletes and restarts, unless a delete met another request, two    *)
(* updates of one vector met, or a commit saved what a failed delete had    *)
(* left half popped.                                                        *)
THEOREM AcknowledgedIsDurable == Spec => []AckedDurable
<1>1. TInv /\ RowInv => AckedDurable
  <2> SUFFICES ASSUME TInv, RowInv, ~raced, ~torn, ~crossed, NEW a \in acked
               PROVE  \E i \in DOMAIN saved.rest : Covers(saved.rest[i], a)
    BY DEF AckedDurable
  <2>1. Stored(saved.rest, a)
    BY DEF RowInv, Durable, Calm
  <2>2. DOMAIN saved.rest = 1 .. Len(saved.rest)
    BY DEF TInv, TablesTyped, Tables
  <2> QED BY <2>1, <2>2 DEF Stored
<1> QED BY TInvInit, TInvStep, RowInvInit, RowInvStep, <1>1, PTL DEF Spec
=============================================================================
