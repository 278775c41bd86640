-------------------------- MODULE MutationQueueProofs --------------------------
(***************************************************************************)
(* Proofs about MutationQueue and about what the write path promises, for  *)
(* any users and any number of writes: the rows on disk stand for the      *)
(* queues of the pipeline although their ids start over, SyncEngine calls  *)
(* the callback of the batch it means, and all of it, with and without     *)
(* rows, implements the queue of WriteQueue.                               *)
(*                                                                         *)
(* The ids are safe because the next one is above those of all the rows,   *)
(* of every user, and at most the number of the next write; so RowsFit,    *)
(* beside the invariant of the pipeline, says how far ids have come.       *)
(*                                                                         *)
(* The promise is kept because, while a call lasts, each write of the      *)
(* pipeline is on its way to the server or its answer is on the way back   *)
(* (AnswersFit): the server takes the write that WriteQueue applies next,  *)
(* and an answer belongs to the oldest write.  One lemma per action says   *)
(* which step of WriteQueue it is, or that the app cannot see it.          *)
(***************************************************************************)
EXTENDS WritePipelineProofs, FiniteSetTheorems, WellFoundedInduction

\* The rows of a user are the writes of the queue, and sorted by id they are
\* sorted by the time of issue.
RowsFit ==
  /\ \A u \in Users : \A row \in rows[u] : Contains(queue[u], row.write)
  /\ \A u \in Users : \A i \in DOMAIN queue[u] :
       \E row \in rows[u] : row.write = queue[u][i]
  /\ \A u \in Users : \A r, s \in rows[u] : r.id < s.id <=> r.write < s.write

\* The next id is fresh, and ids have not come further than the writes.
IdsFit ==
  /\ \A u \in Users : \A row \in rows[u] : row.id < nextBatchId
  /\ \A w \in Writes : told[w] = "unissued" => nextBatchId <= w

RowsInv ==
  /\ RowsTypeOK
  /\ RowsFit
  /\ IdsFit
  /\ CallbackIsOwn

-------------------------------------------------------------------------------
(* Ids. *)

\* Max is what it says for a set of numbers with a bound: of the sets of those
\* that are at least x, one is least.
LEMMA MaxIs ==
  ASSUME NEW S \in SUBSET Nat, S # {}, NEW n \in Nat, \A s \in S : s <= n
  PROVE  Max(S) \in S /\ \A s \in S : s <= Max(S)
<1> DEFINE Above(x) == {y \in S : y >= x}
           Aboves   == {Above(x) : x \in S}
<1>1. IsFiniteSet(S)
  BY FS_BoundedSetOfNaturals
<1>2. Aboves \subseteq FiniteSubsetsOf(S)
  <2> SUFFICES ASSUME NEW x \in S PROVE Above(x) \in FiniteSubsetsOf(S)
    OBVIOUS
  <2> QED
    BY <1>1, FS_Subset DEF FiniteSubsetsOf
<1>3. Aboves # {}
  OBVIOUS
<1> HIDE DEF Aboves
<1>4. \E U \in Aboves : \A V \in Aboves : ~ (<<V, U>> \in StrictSubsetOrdering(S))
  BY <1>2, <1>3, FS_StrictSubsetOrderingWellFounded, WFMin
<1> USE DEF Aboves
<1>5. PICK x \in S : \A y \in S : ~ (<<Above(y), Above(x)>> \in StrictSubsetOrdering(S))
  BY <1>4
<1>6. \A y \in S : ~ (Above(y) \subseteq Above(x) /\ Above(y) # Above(x))
  BY <1>5 DEF StrictSubsetOrdering
<1>7. ASSUME NEW y \in S, y > x PROVE FALSE
  <2>1. x \in Nat /\ y \in Nat
    OBVIOUS
  <2>2. Above(y) \subseteq Above(x)
    <3> SUFFICES ASSUME NEW z \in S, z >= y PROVE z >= x
      OBVIOUS
    <3>1. z \in Nat
      OBVIOUS
    <3> QED
      BY <1>7, <2>1, <3>1
  <2>3. x \in Above(x) /\ x \notin Above(y)
    BY <1>7, <2>1
  <2> QED
    BY <1>6, <2>2, <2>3
<1>8. \A y \in S : y <= x
  BY <1>7
<1> QED
  BY <1>8 DEF Max

\* LoadNextBatchIdFromDb gives an id above those of all rows, and no further
\* than another one that is.
LEMMA LoadedIdIsFresh ==
  ASSUME NEW rs \in [Users -> SUBSET Row], NEW n \in BatchId,
         \A u \in Users : \A row \in rs[u] : row.id < n
  PROVE  /\ LoadNextBatchIdFromDb(rs) \in BatchId
         /\ LoadNextBatchIdFromDb(rs) <= n
         /\ \A u \in Users : \A row \in rs[u] : row.id < LoadNextBatchIdFromDb(rs)
<1> DEFINE ids == {0} \cup {row.id : row \in UNION {rs[u] : u \in Users}}
<1>1. n \in Nat \ {0} /\ n <= MaxWrites + 1 /\ MaxWrites \in Nat
  BY MaxWritesAssumption DEF BatchId
<1>2. \A u \in Users : \A row \in rs[u] : row.id \in Nat /\ row.id \in ids
  BY DEF Row, BatchId
<1>3. ids \in SUBSET Nat /\ ids # {}
  BY <1>2
<1>4. n - 1 \in Nat /\ \A s \in ids : s <= n - 1
  BY <1>1, <1>2
<1> HIDE DEF ids
<1>5. Max(ids) \in ids /\ \A s \in ids : s <= Max(ids)
  BY <1>3, <1>4, MaxIs
<1>6. LoadNextBatchIdFromDb(rs) = 1 + Max(ids)
  BY DEF LoadNextBatchIdFromDb, ids
<1>7. Max(ids) \in Nat /\ Max(ids) <= n - 1
  BY <1>3, <1>4, <1>5
<1>8. 1 + Max(ids) \in BatchId /\ 1 + Max(ids) <= n
  BY <1>1, <1>7 DEF BatchId
<1>9. ASSUME NEW u \in Users, NEW row \in rs[u] PROVE row.id < 1 + Max(ids)
  BY <1>2, <1>5, <1>7
<1> QED
  BY <1>6, <1>8, <1>9

-------------------------------------------------------------------------------
(* The steps. *)

LEMMA InitRowsInv ==
  ASSUME InitOnRows
  PROVE  RowsInv
<1>1. IInv
  BY InitIInv DEF InitOnRows
<1>2. TypeOK
  BY <1>1 DEF IInv
<1>3. /\ rows = [u \in Users |-> {}] /\ nextBatchId = 1
      /\ callbacks = [u \in Users |-> {}]
      /\ queue = [u \in Users |-> <<>>] /\ told = [w \in Writes |-> "unissued"]
      /\ owner \in [Writes -> Users]
  BY <1>2 DEF InitOnRows, Init, RowsInit, TypeOK
<1>4. 1 \in BatchId
  BY MaxWritesAssumption DEF BatchId
<1>5. RowsTypeOK
  BY <1>2, <1>3, <1>4 DEF RowsTypeOK
<1>6. RowsFit
  <2>1. DOMAIN <<>> = {}
    OBVIOUS
  <2>2. \A u \in Users : DOMAIN queue[u] = {} /\ rows[u] = {}
    BY <1>3, <2>1, Zenon
  <2> QED
    BY <2>2 DEF RowsFit
<1>7. IdsFit
  BY <1>3 DEF IdsFit, Writes
<1>8. CallbackIsOwn
  BY <1>3 DEF CallbackIsOwn
<1> QED
  BY <1>5, <1>6, <1>7, <1>8 DEF RowsInv

\* A step that leaves queues, callbacks and rows alone, but for the next id, if
\* that is loaded.
LEMMA NextIdRowsInv ==
  ASSUME RowsInv, IInv', UNCHANGED <<queue, told, owner, rows, callbacks>>,
         nextBatchId' \in {nextBatchId, LoadNextBatchIdFromDb(rows)}
  PROVE  RowsInv'
<1>1. /\ rows \in [Users -> SUBSET Row] /\ nextBatchId \in BatchId
      /\ \A u \in Users : \A row \in rows[u] : row.id < nextBatchId
      /\ \A w \in Writes : told[w] = "unissued" => nextBatchId <= w
  BY DEF RowsInv, RowsTypeOK, IdsFit
<1>2. /\ nextBatchId' \in BatchId /\ nextBatchId' <= nextBatchId
      /\ \A u \in Users : \A row \in rows[u] : row.id < nextBatchId'
  <2>1. nextBatchId \in Nat /\ nextBatchId <= nextBatchId
    BY <1>1 DEF BatchId
  <2> QED
    BY <1>1, <2>1, LoadedIdIsFresh
<1>3. RowsTypeOK'
  BY <1>1, <1>2 DEF RowsInv, RowsTypeOK, IInv
<1>4. RowsFit'
  BY DEF RowsInv, RowsFit, Contains
<1>5. IdsFit'
  <2>1. ASSUME NEW w \in Writes, told'[w] = "unissued" PROVE nextBatchId' <= w
    <3>1. nextBatchId <= w
      BY <1>1, <2>1
    <3>2. nextBatchId \in Nat /\ nextBatchId' \in Nat /\ w \in Nat
      BY <1>1, <1>2 DEF BatchId, Writes
    <3> QED
      BY <1>2, <3>1, <3>2
  <2> QED
    BY <1>2, <2>1 DEF IdsFit
<1>6. CallbackIsOwn'
  BY DEF RowsInv, CallbackIsOwn
<1> QED
  BY <1>3, <1>4, <1>5, <1>6 DEF RowsInv

\* A restart: the callbacks are gone, and nobody waits for one.
LEMMA RelaunchRowsInv ==
  ASSUME RowsInv, IInv', Relaunch, RestartQueue
  PROVE  RowsInv'
<1>1. /\ rows \in [Users -> SUBSET Row] /\ nextBatchId \in BatchId
      /\ \A u \in Users : \A row \in rows[u] : row.id < nextBatchId
      /\ \A w \in Writes : told[w] = "unissued" => nextBatchId <= w
      /\ told \in [Writes -> {"unissued", "waiting", "ok", "error", "lost"}]
      /\ owner \in [Writes -> Users]
  BY DEF RowsInv, RowsTypeOK, IdsFit, TypeOK
<1>2. /\ UNCHANGED <<queue, owner, rows>>
      /\ told' = [w \in Writes |-> IF told[w] = "waiting" THEN "lost" ELSE told[w]]
      /\ nextBatchId' = LoadNextBatchIdFromDb(rows)
      /\ callbacks' = [u \in Users |-> {}]
  BY DEF Relaunch, RestartQueue, history
<1>3. /\ nextBatchId' \in BatchId /\ nextBatchId' <= nextBatchId
      /\ \A u \in Users : \A row \in rows[u] : row.id < nextBatchId'
  BY <1>1, <1>2, LoadedIdIsFresh
<1>4. RowsTypeOK'
  BY <1>1, <1>2, <1>3 DEF RowsTypeOK, IInv
<1>5. RowsFit'
  BY <1>2 DEF RowsInv, RowsFit, Contains
<1>6. IdsFit'
  <2>1. ASSUME NEW w \in Writes, told'[w] = "unissued" PROVE nextBatchId' <= w
    <3>1. nextBatchId <= w
      BY <1>1, <1>2, <2>1
    <3>2. nextBatchId \in Nat /\ nextBatchId' \in Nat /\ w \in Nat
      BY <1>1, <1>3 DEF BatchId, Writes
    <3> QED
      BY <1>3, <3>1, <3>2
  <2> QED
    BY <1>2, <1>3, <2>1 DEF IdsFit
<1>7. CallbackIsOwn'
  <2>1. \A w \in Writes : told'[w] # "waiting" /\ owner[w] \in Users
    BY <1>1, <1>2
  <2> QED
    BY <1>2, <2>1 DEF CallbackIsOwn
<1> QED
  BY <1>4, <1>5, <1>6, <1>7 DEF RowsInv

\* A write is issued: its row goes in under an id that no row has, above all.
LEMMA IssueRowsInv ==
  ASSUME IInv, RowsInv, IInv', NEW w \in Writes, WriteMutationsOf(w), AddMutationBatch(w)
  PROVE  RowsInv'
<1> DEFINE q   == queue[current]
           new == [id |-> nextBatchId, write |-> w]
<1>1. /\ TypeOK /\ QueuesFit /\ ChangesFit(worker, authUser, current)
      /\ RowsTypeOK /\ RowsFit /\ IdsFit /\ CallbackIsOwn
  BY DEF IInv, RowsInv
<1>2. /\ current \in Users /\ q \in Seq(Writes) /\ queue \in [Users -> Seq(Writes)]
      /\ told \in [Writes -> {"unissued", "waiting", "ok", "error", "lost"}]
      /\ owner \in [Writes -> Users]
      /\ rows \in [Users -> SUBSET Row] /\ callbacks \in [Users -> SUBSET Row]
      /\ nextBatchId \in BatchId
  BY <1>1 DEF TypeOK, RowsTypeOK
<1>3. authUser = current
  BY <1>1 DEF WriteMutationsOf, Posted, ChangesFit
<1>4. /\ told[w] = "unissued" /\ \A v \in 1..(w - 1) : told[v] # "unissued"
      /\ owner' = [owner EXCEPT ![w] = current]
      /\ queue' = [queue EXCEPT ![current] = Append(q, w)]
      /\ told' = [told EXCEPT ![w] = "waiting"]
      /\ UNCHANGED current
  BY <1>3 DEF WriteMutationsOf
<1>5. /\ Append(q, w) \in Seq(Writes)
      /\ Len(q) \in Nat /\ Len(Append(q, w)) = Len(q) + 1
      /\ \A i \in 1..Len(q) : Append(q, w)[i] = q[i]
      /\ Append(q, w)[Len(q) + 1] = w
      /\ DOMAIN q = 1..Len(q) /\ DOMAIN Append(q, w) = 1..(Len(q) + 1)
  BY <1>2, AppendIs
<1>6. /\ nextBatchId \in Nat \ {0} /\ nextBatchId <= w /\ w <= MaxWrites
      /\ MaxWrites \in Nat /\ w \in Nat \ {0}
  BY <1>1, <1>2, <1>4, MaxWritesAssumption DEF IdsFit, BatchId, Writes
<1>7. nextBatchId + 1 \in BatchId /\ nextBatchId' = nextBatchId + 1 /\ new \in Row
  BY <1>2, <1>6 DEF BatchId, AddMutationBatch, Row
<1>8. \A u \in Users : \A row \in rows[u] :
        /\ row \in Row /\ row.id \in Nat /\ row.id < nextBatchId
        /\ row.write \in Writes /\ told[row.write] # "unissued"
        /\ row.write \in Nat /\ row.write < w
  <2> SUFFICES ASSUME NEW u \in Users, NEW row \in rows[u]
               PROVE  /\ row \in Row /\ row.id \in Nat /\ row.id < nextBatchId
                      /\ row.write \in Writes /\ told[row.write] # "unissued"
                      /\ row.write \in Nat /\ row.write < w
    OBVIOUS
  <2>1. row \in Row /\ row.id < nextBatchId /\ Contains(queue[u], row.write)
    BY <1>1, <1>2 DEF IdsFit, RowsFit
  <2>2. row.id \in Nat /\ row.write \in Writes /\ row.write \in Nat
    BY <2>1 DEF Row, BatchId, Writes
  <2>3. told[row.write] # "unissued"
    BY <1>1, <2>1 DEF QueuesFit, Contains
  <2>4. ~ (w < row.write) /\ row.write # w
    BY <1>1, <1>4, <2>2, <2>3 DEF QueuesFit
  <2>5. row.write < w
    BY <1>6, <2>2, <2>4
  <2> QED
    BY <2>1, <2>2, <2>3, <2>5
<1>9. callbacks[current] \subseteq rows[current]
  BY <1>1, <1>2 DEF CallbackIsOwn
<1>10. /\ rows' = [rows EXCEPT ![current] = rows[current] \cup {new}]
       /\ callbacks' = [callbacks EXCEPT ![current] = callbacks[current] \cup {new}]
  <2>1. {row \in rows[current] : row.id # nextBatchId} = rows[current]
    BY <1>2, <1>6, <1>8
  <2>2. ~ \E row \in callbacks[current] : row.id = nextBatchId
    BY <1>2, <1>6, <1>8, <1>9
  <2>3. Put(rows[current], nextBatchId, w) = rows[current] \cup {new}
    BY <2>1 DEF Put
  <2>4. Insert(callbacks[current], nextBatchId, w) = callbacks[current] \cup {new}
    BY <2>2 DEF Insert
  <2> QED
    BY <2>3, <2>4 DEF AddMutationBatch
<1> HIDE DEF q
<1>11. /\ queue'[current] = Append(q, w)
       /\ rows'[current] = rows[current] \cup {new}
       /\ callbacks'[current] = callbacks[current] \cup {new}
       /\ \A u \in Users : u # current => /\ queue'[u] = queue[u]
                                          /\ rows'[u] = rows[u]
                                          /\ callbacks'[u] = callbacks[u]
  BY <1>2, <1>4, <1>10
<1>12. new.id = nextBatchId /\ new.write = w
  OBVIOUS
<1> HIDE DEF new
<1>13. RowsTypeOK'
  <2>1. rows' \in [Users -> SUBSET Row] /\ callbacks' \in [Users -> SUBSET Row]
    BY <1>2, <1>7, <1>10
  <2> QED
    BY <1>7, <2>1 DEF RowsTypeOK, IInv
<1>14. RowsFit'
  <2>1. ASSUME NEW u \in Users, NEW row \in rows'[u] PROVE Contains(queue'[u], row.write)
    <3>1. CASE row \in rows[u]
      <4>1. PICK i \in DOMAIN queue[u] : queue[u][i] = row.write
        BY <1>1, <3>1 DEF RowsFit, Contains
      <4>2. CASE u = current
        BY <1>5, <1>11, <4>1, <4>2 DEF Contains, q
      <4>3. CASE u # current
        BY <1>11, <4>1, <4>3 DEF Contains
      <4> QED
        BY <4>2, <4>3
    <3>2. CASE u = current /\ row = new
      <4>1. Len(q) + 1 \in DOMAIN Append(q, w)
        BY <1>5
      <4> QED
        BY <1>5, <1>11, <1>12, <3>2, <4>1 DEF Contains
    <3> QED
      BY <1>11, <2>1, <3>1, <3>2
  <2>2. ASSUME NEW u \in Users, NEW i \in DOMAIN queue'[u]
        PROVE  \E row \in rows'[u] : row.write = queue'[u][i]
    <3>1. CASE u # current
      BY <1>1, <1>11, <2>2, <3>1 DEF RowsFit
    <3>2. CASE u = current /\ i = Len(q) + 1
      BY <1>5, <1>11, <1>12, <3>2
    <3>3. CASE u = current /\ i # Len(q) + 1
      <4>1. i \in DOMAIN queue[current] /\ queue'[current][i] = queue[current][i]
        BY <1>5, <1>11, <2>2, <3>3 DEF q
      <4>2. \E row \in rows[current] : row.write = queue[current][i]
        BY <1>1, <1>2, <4>1 DEF RowsFit
      <4> QED
        BY <1>11, <3>3, <4>1, <4>2
    <3> QED
      BY <3>1, <3>2, <3>3
  <2>3. ASSUME NEW u \in Users, NEW r \in rows'[u], NEW s \in rows'[u]
        PROVE  r.id < s.id <=> r.write < s.write
    <3>1. CASE r \in rows[u] /\ s \in rows[u]
      BY <1>1, <3>1 DEF RowsFit
    <3>2. CASE r \in rows[u] /\ s = new
      BY <1>6, <1>8, <1>12, <3>2
    <3>3. CASE r = new /\ s \in rows[u]
      <4>1. s.id \in Nat /\ s.id < nextBatchId /\ s.write \in Nat /\ s.write < w
        BY <1>8, <3>3
      <4> QED
        BY <1>6, <1>12, <3>3, <4>1
    <3>4. CASE r = new /\ s = new
      BY <1>6, <1>12, <3>4
    <3> QED
      BY <1>11, <2>3, <3>1, <3>2, <3>3, <3>4
  <2> QED
    BY <2>1, <2>2, <2>3 DEF RowsFit
<1>15. IdsFit'
  <2>1. ASSUME NEW u \in Users, NEW row \in rows'[u] PROVE row.id < nextBatchId'
    <3>1. row \in rows[u] \/ row = new
      BY <1>11, <2>1
    <3>2. CASE row \in rows[u]
      <4>1. row.id \in Nat /\ row.id < nextBatchId
        BY <1>8, <3>2
      <4> QED
        BY <1>6, <1>7, <4>1
    <3>3. CASE row = new
      BY <1>6, <1>7, <1>12, <3>3
    <3> QED
      BY <3>1, <3>2, <3>3
  <2>2. ASSUME NEW v \in Writes, told'[v] = "unissued" PROVE nextBatchId' <= v
    <3>1. v # w /\ told[v] = "unissued" /\ v \in Nat \ {0}
      BY <1>2, <1>4, <2>2 DEF Writes
    <3>2. v > w
      BY <1>4, <1>6, <3>1
    <3> QED
      BY <1>6, <1>7, <3>1, <3>2
  <2> QED
    BY <2>1, <2>2 DEF IdsFit
<1>16. CallbackIsOwn'
  <2>1. \A u \in Users : callbacks'[u] \subseteq rows'[u]
    <3> SUFFICES ASSUME NEW u \in Users PROVE callbacks'[u] \subseteq rows'[u]
      OBVIOUS
    <3>1. callbacks[u] \subseteq rows[u]
      BY <1>1 DEF CallbackIsOwn
    <3> QED
      BY <1>11, <3>1
  <2>2. ASSUME NEW v \in Writes
        PROVE  told'[v] = "waiting" <=> \E row \in callbacks'[owner'[v]] : row.write = v
    <3>1. CASE v = w
      <4>1. told'[v] = "waiting" /\ owner'[v] = current
        BY <1>2, <1>4, <3>1
      <4> QED
        BY <1>11, <1>12, <3>1, <4>1
    <3>2. CASE v # w
      <4>1. told'[v] = told[v] /\ owner'[v] = owner[v] /\ owner[v] \in Users
        BY <1>2, <1>4, <3>2
      <4>2. told[v] = "waiting" <=> \E row \in callbacks[owner[v]] : row.write = v
        BY <1>1 DEF CallbackIsOwn
      <4>3. \A row \in callbacks'[owner[v]] :
              row.write = v <=> row \in callbacks[owner[v]] /\ row.write = v
        BY <1>11, <1>12, <3>2, <4>1
      <4>4. callbacks[owner[v]] \subseteq callbacks'[owner[v]]
        BY <1>11, <4>1
      <4> QED
        BY <4>1, <4>2, <4>3, <4>4
    <3> QED
      BY <3>1, <3>2
  <2> QED
    BY <2>1, <2>2 DEF CallbackIsOwn
<1> QED
  BY <1>13, <1>14, <1>15, <1>16 DEF RowsInv

\* What an answer, or a refusal, does to the queue and to the callback's fate.
Answers(end) ==
  /\ queue[current] # <<>> /\ Head(remote.pipeline) = queue[current][1]
  /\ queue' = [queue EXCEPT ![current] = Tail(queue[current])]
  /\ NotifyUser(queue[current][1], end)
  /\ UNCHANGED <<current, owner, stored>>

LEMMA ResultAnswers ==
  ASSUME IInv, RunResultRead
  PROVE  Answers("ok")
<1> DEFINE q == queue[current]
<1>1. /\ TypeOK /\ QueuesFit /\ Settled(remote, q) /\ OpsFit(worker, remote, current)
  BY DEF IInv
<1>2. /\ worker # <<>> /\ 1 \in DOMAIN worker /\ Head(worker) = worker[1]
      /\ Head(worker).kind = "read" /\ Head(worker).live /\ IsOpen(remote)
  BY FirstOp DEF RunResultRead, Runs, OfCall
<1>3. Owed(remote)
  BY <1>1, <1>2 DEF OpsFit, Live
<1>4. /\ q \in Seq(Writes) /\ Increasing(q) /\ remote.handshake
      /\ remote.pipeline \in Seq(Writes) /\ IsPrefix(remote.pipeline, q)
      /\ Len(remote.toServer) \in Nat /\ Len(remote.toClient) \in Nat
  BY <1>1 DEF RunResultRead, Settled, Core, Remote, TypeOK, QueuesFit
<1>5. remote.pipeline # <<>>
  <2>1. PICK a \in Nat, b \in Nat, c \in Nat :
          a = Len(remote.toServer) /\ b = Len(remote.toClient) /\ c = Len(remote.pipeline)
    BY <1>4
  <2>2. a + b < c
    BY <1>3, <1>4, <2>1 DEF Owed
  <2>3. Len(<<>>) = 0 /\ c # 0
    BY <2>2
  <2> QED
    BY <2>1, <2>3, Zenon
<1>6. q # <<>> /\ Head(remote.pipeline) = q[1]
  BY <1>4, <1>5, PrefixTails, TailIs
<1>7. Remove(q, q[1]) = Tail(q)
  BY <1>4, <1>6, RemovesFirst
<1> QED
  BY <1>6, <1>7 DEF Answers, RunResultRead, history

LEMMA RejectionAnswers ==
  ASSUME IInv, RunRejected
  PROVE  Answers("error")
<1> DEFINE q == queue[current]
<1>1. TypeOK /\ QueuesFit /\ Settled(remote, q)
  BY DEF IInv
<1>2. /\ q \in Seq(Writes) /\ Increasing(q)
      /\ remote.pipeline \in Seq(Writes) /\ IsPrefix(remote.pipeline, q)
      /\ remote.pipeline # <<>>
  BY <1>1 DEF RunRejected, BlamesFront, Settled, Core, Remote, TypeOK, QueuesFit
<1>3. q # <<>> /\ Head(remote.pipeline) = q[1]
  BY <1>2, PrefixTails, TailIs
<1>4. Remove(q, q[1]) = Tail(q)
  BY <1>2, <1>3, RemovesFirst
<1> QED
  BY <1>3, <1>4 DEF Answers, RunRejected, history

\* A write is answered: of the rows and the callbacks, those under its id go,
\* which are its own.
LEMMA AnswerRowsInv ==
  ASSUME IInv, RowsInv, IInv', NEW end \in {"ok", "error"}, Answers(end),
         RemoveMutationBatch(queue[current][1])
  PROVE  RowsInv'
<1> DEFINE q    == queue[current]
           w    == q[1]
           left == {row \in rows[current] : row.write # w}
<1>1. /\ TypeOK /\ QueuesFit /\ RowsTypeOK /\ RowsFit /\ IdsFit /\ CallbackIsOwn
  BY DEF IInv, RowsInv
<1>2. /\ current \in Users /\ q \in Seq(Writes) /\ queue \in [Users -> Seq(Writes)]
      /\ told \in [Writes -> {"unissued", "waiting", "ok", "error", "lost"}]
      /\ owner \in [Writes -> Users]
      /\ rows \in [Users -> SUBSET Row] /\ callbacks \in [Users -> SUBSET Row]
      /\ nextBatchId \in BatchId
  BY <1>1 DEF TypeOK, RowsTypeOK
<1>3. /\ q # <<>>
      /\ queue' = [queue EXCEPT ![current] = Tail(q)]
      /\ told' = [told EXCEPT ![w] = IF @ = "waiting" THEN end ELSE @]
      /\ UNCHANGED <<current, owner>>
  BY DEF Answers, NotifyUser
<1>4. /\ Tail(q) \in Seq(Writes) /\ Len(q) \in Nat /\ Len(q) > 0
      /\ Len(Tail(q)) = Len(q) - 1
      /\ \A i \in 1..(Len(q) - 1) : Tail(q)[i] = q[i + 1]
      /\ DOMAIN q = 1..Len(q) /\ DOMAIN Tail(q) = 1..(Len(q) - 1)
      /\ w \in Writes /\ 1 \in DOMAIN q
  BY <1>2, <1>3, TailIs
<1>5. owner[w] = current /\ told[w] # "unissued"
  BY <1>1, <1>2, <1>4 DEF QueuesFit
<1>6. \A u \in Users : \A row \in rows[u] :
        row \in Row /\ row.id \in Nat /\ row.write \in Writes /\ row.write \in Nat
  BY <1>2 DEF Row, BatchId, Writes
<1>7. \A r, s \in rows[current] : r.id = s.id <=> r.write = s.write
  <2> SUFFICES ASSUME NEW r \in rows[current], NEW s \in rows[current]
               PROVE  r.id = s.id <=> r.write = s.write
    OBVIOUS
  <2>1. (r.id < s.id <=> r.write < s.write) /\ (s.id < r.id <=> s.write < r.write)
    BY <1>1, <1>2 DEF RowsFit
  <2>2. r.id \in Nat /\ s.id \in Nat /\ r.write \in Nat /\ s.write \in Nat
    BY <1>2, <1>6
  <2> QED
    BY <2>1, <2>2
<1>8. callbacks[current] \subseteq rows[current]
  BY <1>1, <1>2 DEF CallbackIsOwn
<1>9. /\ rows' = [rows EXCEPT ![current] = left]
      /\ callbacks' = [callbacks EXCEPT ![current] = callbacks[current] \cap left]
      /\ UNCHANGED nextBatchId
  <2> DEFINE ids == {row.id : row \in {row \in rows[current] : row.write = w}}
  <2>1. \A row \in rows[current] : row.id \notin ids <=> row.write # w
    BY <1>7
  <2>2. {row \in rows[current] : row.id \notin ids} = left
    BY <2>1
  <2>3. {row \in callbacks[current] : row.id \notin ids} = callbacks[current] \cap left
    BY <1>8, <2>1
  <2>4. /\ rows' = [rows EXCEPT ![current] = {row \in rows[current] : row.id \notin ids}]
        /\ callbacks' = [callbacks EXCEPT ![current] =
                           {row \in callbacks[current] : row.id \notin ids}]
        /\ UNCHANGED nextBatchId
    BY DEF RemoveMutationBatch
  <2> QED
    BY <2>2, <2>3, <2>4
<1> HIDE DEF left
<1>10. /\ queue'[current] = Tail(q) /\ rows'[current] = left
       /\ callbacks'[current] = callbacks[current] \cap left
       /\ \A u \in Users : u # current => /\ queue'[u] = queue[u]
                                          /\ rows'[u] = rows[u]
                                          /\ callbacks'[u] = callbacks[u]
       /\ left \subseteq rows[current]
  BY <1>2, <1>3, <1>9 DEF left
<1>11. \A u \in Users : rows'[u] \subseteq rows[u]
  BY <1>10
<1>12. RowsTypeOK'
  <2>1. callbacks[current] \cap left \in SUBSET Row /\ left \in SUBSET Row
    BY <1>2, <1>10
  <2>2. rows' \in [Users -> SUBSET Row] /\ callbacks' \in [Users -> SUBSET Row]
    BY <1>2, <1>9, <2>1
  <2> QED
    BY <1>2, <1>9, <2>2 DEF RowsTypeOK, IInv
<1>13. RowsFit'
  <2>1. ASSUME NEW u \in Users, NEW row \in rows'[u] PROVE Contains(queue'[u], row.write)
    <3>1. PICK i \in DOMAIN queue[u] : queue[u][i] = row.write
      BY <1>1, <1>11, <2>1 DEF RowsFit, Contains
    <3>2. CASE u # current
      BY <1>10, <3>1, <3>2 DEF Contains
    <3>3. CASE u = current
      <4>1. row.write # w
        BY <1>10, <2>1, <3>3 DEF left
      <4>2. i \in 1..Len(q) /\ i # 1
        BY <1>4, <3>1, <3>3, <4>1
      <4>3. i - 1 \in 1..(Len(q) - 1) /\ (i - 1) + 1 = i
        BY <1>4, <4>2
      <4>4. Tail(q)[i - 1] = row.write
        BY <1>4, <3>1, <3>3, <4>3
      <4> HIDE DEF q
      <4> QED
        BY <1>4, <1>10, <3>3, <4>3, <4>4 DEF Contains
    <3> QED
      BY <3>2, <3>3
  <2>2. ASSUME NEW u \in Users, NEW i \in DOMAIN queue'[u]
        PROVE  \E row \in rows'[u] : row.write = queue'[u][i]
    <3>1. CASE u # current
      BY <1>1, <1>10, <2>2, <3>1 DEF RowsFit
    <3>2. CASE u = current
      <4>0. i \in DOMAIN Tail(q)
        BY <1>10, <2>2, <3>2
      <4>1. i \in 1..(Len(q) - 1) /\ i + 1 \in 1..Len(q) /\ 1 < i + 1
        <5>1. PICK n \in Nat : n = Len(q)
          BY <1>4
        <5>2. i \in 1..(n - 1)
          BY <1>4, <4>0, <5>1
        <5> QED
          BY <5>1, <5>2
      <4>2. queue'[u][i] = q[i + 1]
        BY <1>4, <1>10, <3>2, <4>1
      <4>3. PICK row \in rows[current] : row.write = q[i + 1]
        BY <1>1, <1>2, <1>4, <4>1 DEF RowsFit
      <4>4. q[i + 1] # w
        <5>1. q[1] < q[i + 1] /\ q[1] \in Nat
          BY <1>1, <1>2, <1>4, <4>1 DEF QueuesFit, Increasing, Writes
        <5> QED
          BY <5>1
      <4>5. row \in left
        BY <4>3, <4>4 DEF left
      <4> QED
        BY <1>10, <3>2, <4>2, <4>3, <4>5
    <3> QED
      BY <3>1, <3>2
  <2> QED
    BY <1>1, <1>11, <2>1, <2>2 DEF RowsFit
<1>14. IdsFit'
  <2>1. \A v \in Writes : told'[v] = "unissued" => told[v] = "unissued"
    BY <1>2, <1>3
  <2> QED
    BY <1>1, <1>9, <1>11, <2>1 DEF IdsFit
<1>15. CallbackIsOwn'
  <2>1. \A u \in Users : callbacks'[u] \subseteq rows'[u]
    <3> SUFFICES ASSUME NEW u \in Users PROVE callbacks'[u] \subseteq rows'[u]
      OBVIOUS
    <3>1. callbacks[u] \subseteq rows[u]
      BY <1>1 DEF CallbackIsOwn
    <3> QED
      BY <1>10, <3>1
  <2>2. ASSUME NEW v \in Writes
        PROVE  told'[v] = "waiting" <=> \E row \in callbacks'[owner'[v]] : row.write = v
    <3>1. CASE v = w
      <4>1. told'[v] # "waiting"
        BY <1>2, <1>3, <3>1
      <4>2. owner'[v] = current /\ \A row \in callbacks'[current] : row.write # w
        BY <1>3, <1>5, <1>10, <3>1 DEF left
      <4> QED
        BY <3>1, <4>1, <4>2
    <3>2. CASE v # w
      <4>1. told'[v] = told[v] /\ owner'[v] = owner[v] /\ owner[v] \in Users
        BY <1>2, <1>3, <3>2
      <4>2. told[v] = "waiting" <=> \E row \in callbacks[owner[v]] : row.write = v
        BY <1>1 DEF CallbackIsOwn
      <4>3. \A row \in rows[current] : row.write = v => row \in left
        BY <3>2 DEF left
      <4>4. \A row : row \in callbacks'[owner[v]] => row \in callbacks[owner[v]]
        BY <1>10, <4>1
      <4>5. \A row \in callbacks[owner[v]] : row.write = v => row \in callbacks'[owner[v]]
        BY <1>8, <1>10, <4>1, <4>3
      <4> QED
        BY <4>1, <4>2, <4>4, <4>5
    <3> QED
      BY <3>1, <3>2
  <2> QED
    BY <2>1, <2>2 DEF CallbackIsOwn
<1> QED
  BY <1>12, <1>13, <1>14, <1>15 DEF RowsInv

LEMMA NextRowsInv ==
  ASSUME IInv, RowsInv, [NextOnRows]_allVars
  PROVE  RowsInv'
<1>1. IInv'
  BY RowsStep, NextIInv
<1>2. TypeOK
  BY DEF IInv
<1>3. ASSUME NEW w \in Writes, WriteMutationsOf(w), AddMutationBatch(w) PROVE RowsInv'
  BY <1>1, <1>3, IssueRowsInv
<1>4. CASE (Kill \/ RunAborts) /\ RestartQueue
  BY <1>1, <1>4, RelaunchRowsInv DEF Kill, RunAborts
<1>5. CASE RunChange /\ HandleUserChange
  <2>1. UNCHANGED <<queue, told, owner, rows, callbacks>>
    BY <1>5 DEF RunChange, HandleUserChange, history
  <2>2. nextBatchId' \in {nextBatchId, LoadNextBatchIdFromDb(rows)}
    BY <1>5 DEF HandleUserChange
  <2> QED
    BY <1>1, <2>1, <2>2, NextIdRowsInv
<1>6. CASE RunResultRead /\ RemoveMutationBatch(Head(remote.pipeline))
  <2>1. Answers("ok") /\ RemoveMutationBatch(queue[current][1])
    BY <1>6, ResultAnswers DEF Answers
  <2> QED
    BY <1>1, <2>1, AnswerRowsInv
<1>7. CASE RunRejected /\ RemoveMutationBatch(Head(remote.pipeline))
  <2>1. Answers("error") /\ RemoveMutationBatch(queue[current][1])
    BY <1>7, RejectionAnswers DEF Answers
  <2> QED
    BY <1>1, <2>1, AnswerRowsInv
<1>8. CASE UNCHANGED <<queue, told, owner, rowVars>>
  <2>1. UNCHANGED <<rows, nextBatchId, callbacks>>
    BY <1>8 DEF rowVars
  <2> QED
    BY <1>1, <1>8, <2>1, NextIdRowsInv
<1>9. CASE UNCHANGED allVars
  BY <1>8, <1>9 DEF allVars, vars
<1>10. CASE /\ \/ RunCancelled \/ RunToken \/ RunHandshakeRead
               \/ RunFailed \/ RunFinished \/ RunFinishedOk
            /\ UNCHANGED rowVars
  <2>1. UNCHANGED <<queue, told, owner>>
    BY <1>10 DEF RunCancelled, RunToken, RunHandshakeRead, RunFailed, RunFinished,
                 RunFinishedOk, history
  <2> QED
    BY <1>8, <1>10, <2>1
<1>11. CASE /\ \/ \E u \in Users : AuthStateDidChange(u)
               \/ ConnectivityChanged \/ BackoffElapsed \/ IdleTimeout
               \/ GetTokenAnswers \/ GetTokenFails
               \/ Serve \/ Disconnect \/ ServerEndsCall
               \/ ReadCompletes \/ OperationFails
            /\ UNCHANGED rowVars
  <2>1. UNCHANGED <<queue, told, owner>>
    BY <1>11 DEF AuthStateDidChange, ConnectivityChanged, BackoffElapsed, IdleTimeout,
                 GetTokenAnswers, GetTokenFails, Serve, ServerTakes, ServerRefuses,
                 Disconnect, ServerEndsCall, ReadCompletes, OperationFails, history
  <2> QED
    BY <1>8, <1>11, <2>1
<1> QED
  BY <1>3, <1>4, <1>5, <1>6, <1>7, <1>9, <1>10, <1>11 DEF NextOnRows, RunOnRows

LEMMA RowsInvHolds == SpecOnRows => [](IInv /\ RowsInv)
<1>1. InitOnRows => IInv /\ RowsInv
  BY InitIInv, InitRowsInv DEF InitOnRows
<1>2. IInv /\ RowsInv /\ [NextOnRows]_allVars => IInv' /\ RowsInv'
  BY RowsStep, NextIInv, NextRowsInv
<1> QED
  BY <1>1, <1>2, PTL DEF SpecOnRows

-------------------------------------------------------------------------------
(* The theorems. *)

\* Every reachable state of the store is well typed: in particular the next id
\* never goes beyond one more than the number of writes, though it is worked out
\* anew at every start of a queue.
THEOREM RowsTypeInvariant == SpecOnRows => []RowsTypeOK
<1>1. RowsInv => RowsTypeOK
  BY DEF RowsInv
<1> QED
  BY <1>1, RowsInvHolds, PTL

\* NotifyUser calls the callback of the batch that was answered, and of a batch
\* whose callback is due it finds one, across kills, restarts and changes of user.
THEOREM OwnCallbacks == SpecOnRows => []CallbackIsOwn
<1>1. RowsInv => CallbackIsOwn
  BY DEF RowsInv
<1> QED
  BY <1>1, RowsInvHolds, PTL

LEMMA QueueIs ==
  ASSUME NEW q \in Seq(Writes), Increasing(q)
  PROVE  /\ Len(q) \in Nat /\ DOMAIN q = 1..Len(q)
         /\ \A i \in 1..Len(q) : q[i] \in Writes /\ q[i] \in Nat
         /\ \A i, j \in 1..Len(q) : i < j => q[i] < q[j]
<1>1. DOMAIN q = 1..Len(q) /\ Len(q) \in Nat
  OBVIOUS
<1>2. \A i \in 1..Len(q) : q[i] \in Writes
  OBVIOUS
<1> QED
  BY <1>1, <1>2 DEF Increasing, Writes

\* The rows with the first k writes of a queue are k.
LEMMA RowsCount ==
  ASSUME IInv, RowsInv, NEW u \in Users, NEW k \in 0..Len(queue[u]),
         NEW R, R = {row \in rows[u] : \E i \in 1..k : row.write = queue[u][i]}
  PROVE  Cardinality(R) = k
<1> DEFINE q    == queue[u]
           f(i) == CHOOSE row \in rows[u] : row.write = q[i]
           F    == [i \in 1..k |-> f(i)]
<1>1. /\ q \in Seq(Writes) /\ Increasing(q) /\ RowsFit
      /\ Len(q) \in Nat /\ DOMAIN q = 1..Len(q) /\ rows[u] \in SUBSET Row
      /\ \A i \in 1..Len(q) : q[i] \in Nat
      /\ \A i, j \in 1..Len(q) : i < j => q[i] < q[j]
  <2>1. q \in Seq(Writes) /\ Increasing(q) /\ RowsFit /\ rows[u] \in SUBSET Row
    BY DEF IInv, TypeOK, QueuesFit, RowsInv, RowsTypeOK
  <2> QED
    BY <2>1, QueueIs
<1>2. k \in Nat /\ \A i \in 1..k : i \in DOMAIN q
  BY <1>1
<1>3. \A i \in 1..k : f(i) \in rows[u] /\ f(i).write = q[i]
  BY <1>1, <1>2 DEF RowsFit
<1>4. \A i, j \in 1..k : q[i] = q[j] => i = j
  <2> SUFFICES ASSUME NEW i \in 1..k, NEW j \in 1..k, i < j PROVE q[i] # q[j]
    BY <1>2
  <2>1. q[i] < q[j] /\ q[i] \in Nat
    BY <1>1, <1>2
  <2> QED
    BY <2>1
<1>5. \A r, s \in rows[u] : r.write = s.write => r = s
  <2> SUFFICES ASSUME NEW r \in rows[u], NEW s \in rows[u], r.write = s.write PROVE r = s
    OBVIOUS
  <2>1. /\ r \in Row /\ s \in Row /\ r.id \in Nat /\ s.id \in Nat /\ r.write \in Nat
    BY <1>1 DEF Row, BatchId, Writes
  <2>2. ~ (r.id < s.id) /\ ~ (s.id < r.id)
    BY <1>1, <2>1 DEF RowsFit
  <2>3. r.id = s.id
    BY <2>1, <2>2
  <2> QED
    BY <2>1, <2>3 DEF Row
<1> HIDE DEF f, q
<1>6. F \in [1..k -> R]
  BY <1>3 DEF q
<1>7. \A i, j \in 1..k : F[i] = F[j] => i = j
  BY <1>3, <1>4
<1>8. \A row \in R : \E i \in 1..k : F[i] = row
  BY <1>3, <1>5 DEF q
<1>9. F \in Bijection(1..k, R)
  BY <1>6, <1>7, <1>8 DEF Bijection, Injection, Surjection, IsInjective
<1>10. ExistsBijection(1..k, R)
  BY <1>9 DEF ExistsBijection
<1> QED
  BY <1>2, <1>10, FS_CountingElements

\* Ids start over when the rows are gone, yet no row is written over another and
\* none sorts before an older one: LevelDB gives the writes back in the order of
\* issue.
THEOREM RowsKeepTheQueue == SpecOnRows => []RowsAreQueue
<1>1. ASSUME IInv, RowsInv PROVE RowsAreQueue
  <2> SUFFICES ASSUME NEW u \in Users
               PROVE  /\ Cardinality(rows[u]) = Len(queue[u])
                      /\ \A i \in DOMAIN queue[u] :
                           \E row \in rows[u] :
                             /\ row.write = queue[u][i]
                             /\ Cardinality({r \in rows[u] : r.id < row.id}) = i - 1
    BY DEF RowsAreQueue
  <2>1. /\ queue[u] \in Seq(Writes) /\ Increasing(queue[u]) /\ RowsFit
        /\ Len(queue[u]) \in Nat /\ DOMAIN queue[u] = 1..Len(queue[u])
    BY <1>1, QueueIs DEF IInv, TypeOK, QueuesFit, RowsInv
  <2>2. Cardinality(rows[u]) = Len(queue[u])
    <3>1. rows[u] = {row \in rows[u] : \E i \in 1..Len(queue[u]) : row.write = queue[u][i]}
      <4>1. \A row \in rows[u] : \E i \in 1..Len(queue[u]) : row.write = queue[u][i]
        BY <2>1 DEF RowsFit, Contains
      <4> QED
        BY <4>1
    <3>2. Len(queue[u]) \in 0..Len(queue[u])
      BY <2>1
    <3> QED
      BY <1>1, <3>1, <3>2, RowsCount
  <2>3. ASSUME NEW i \in DOMAIN queue[u]
        PROVE  \E row \in rows[u] :
                 /\ row.write = queue[u][i]
                 /\ Cardinality({r \in rows[u] : r.id < row.id}) = i - 1
    <3>1. PICK row \in rows[u] : row.write = queue[u][i]
      BY <2>1 DEF RowsFit
    <3>2. i \in 1..Len(queue[u]) /\ i - 1 \in 0..Len(queue[u])
      BY <2>1
    <3>3. ASSUME NEW r \in rows[u]
          PROVE  r.id < row.id <=> \E j \in 1..(i - 1) : r.write = queue[u][j]
      <4>1. r.id < row.id <=> r.write < queue[u][i]
        BY <2>1, <3>1 DEF RowsFit
      <4>2. PICK j \in 1..Len(queue[u]) : r.write = queue[u][j]
        BY <2>1 DEF RowsFit, Contains
      <4>3. /\ \A m \in 1..Len(queue[u]) : queue[u][m] \in Nat
            /\ \A m, n \in 1..Len(queue[u]) : m < n => queue[u][m] < queue[u][n]
        BY <2>1, QueueIs
      <4>4. CASE j < i
        <5>1. queue[u][j] < queue[u][i] /\ j \in 1..(i - 1)
          BY <3>2, <4>2, <4>3, <4>4
        <5> QED
          BY <4>1, <4>2, <5>1
      <4>5. CASE i <= j
        <5>1. ~ (queue[u][j] < queue[u][i])
          BY <3>2, <4>2, <4>3, <4>5
        <5>2. \A m \in 1..(i - 1) : m \in 1..Len(queue[u]) /\ queue[u][m] < queue[u][i]
          BY <3>2, <4>3
        <5>3. \A m \in 1..(i - 1) : r.write # queue[u][m]
          BY <4>2, <5>1, <5>2
        <5> QED
          BY <4>1, <4>2, <5>1, <5>3
      <4> QED
        BY <3>2, <4>2, <4>4, <4>5
    <3>4. {r \in rows[u] : r.id < row.id}
            = {r \in rows[u] : \E j \in 1..(i - 1) : r.write = queue[u][j]}
      BY <3>3
    <3>5. Cardinality({r \in rows[u] : r.id < row.id}) = i - 1
      BY <1>1, <3>2, <3>4, RowsCount
    <3> QED
      BY <3>1, <3>5
  <2> QED
    BY <2>2, <2>3
<1> QED
  BY <1>1, RowsInvHolds, PTL

-------------------------------------------------------------------------------
(* The pipeline keeps the promise of WriteQueue. *)

\* A reply was read and waits to be handled.
Reading(ops) == \E i \in DOMAIN ops : Live(ops, i, {"read"})

\* The answers on their way to the client: none before the handshake.
AnswersDue(ops, r) ==
  IF r.handshake THEN (IF Reading(ops) THEN 1 ELSE 0) + Len(r.toClient) ELSE 0

\* The replies read are answers once there was the handshake, and a call that
\* failed has ended.
RepliesFit(ops, r) ==
  \A i \in DOMAIN ops :
    /\ Live(ops, i, {"read"}) => (ops[i].msg # Handshake <=> r.handshake)
    /\ Live(ops, i, {"failed", "finished"}) => r.ended # "no"

\* While a call lasts, each write of the pipeline is on its way to the server or
\* its answer is on the way back.
AnswersFit(ops, r) ==
  /\ RepliesFit(ops, r)
  /\ \A i \in DOMAIN r.toClient : r.toClient[i] # Handshake <=> r.handshake
  /\ IsOpen(r) /\ r.handshake /\ r.ended = "no" =>
       AnswersDue(ops, r) + Len(r.toServer) = Len(r.pipeline)

\* The invariant that the steps of the promise rest on.
PromiseInv == AnswersFit(worker, remote)

\* Unread, of any operations and call.
UnreadIn(ops, r) ==
  LET reads == {i \in DOMAIN ops : /\ ops[i].kind = "read"
                                   /\ ops[i].live /\ ops[i].msg # Handshake}
  IN  (IF reads = {} THEN 0 ELSE 1)
        + (IF r.handshake THEN Len(r.toClient) ELSE 0)

LEMMA UnreadIsDue ==
  ASSUME NEW ops, NEW r \in Remote, AnswersFit(ops, r)
  PROVE  UnreadIn(ops, r) = AnswersDue(ops, r) /\ AnswersDue(ops, r) \in Nat
<1> DEFINE reads == {i \in DOMAIN ops : /\ ops[i].kind = "read"
                                        /\ ops[i].live /\ ops[i].msg # Handshake}
<1>1. reads # {} <=> r.handshake /\ Reading(ops)
  BY DEF AnswersFit, RepliesFit, Reading, Live
<1>2. Len(r.toClient) \in Nat
  BY DEF Remote
<1> HIDE DEF reads
<1>3. UnreadIn(ops, r)
        = (IF reads = {} THEN 0 ELSE 1) + (IF r.handshake THEN Len(r.toClient) ELSE 0)
  BY DEF UnreadIn, reads
<1>4. PICK n \in Nat : n = Len(r.toClient)
  BY <1>2
<1>5. CASE ~r.handshake
  BY <1>1, <1>3, <1>5 DEF AnswersDue
<1>6. CASE r.handshake /\ Reading(ops)
  <2>1. UnreadIn(ops, r) = 1 + n /\ AnswersDue(ops, r) = 1 + n
    BY <1>1, <1>3, <1>4, <1>6, Zenon DEF AnswersDue
  <2> QED
    BY <2>1
<1>7. CASE r.handshake /\ ~Reading(ops)
  <2>1. UnreadIn(ops, r) = 0 + n /\ AnswersDue(ops, r) = 0 + n
    BY <1>1, <1>3, <1>4, <1>7, Zenon DEF AnswersDue
  <2> QED
    BY <2>1
<1> QED
  BY <1>5, <1>6, <1>7

\* A stream without an open call owes no answers.
LEMMA ClosedOwesNothing ==
  ASSUME NEW q, NEW r, Settled(r, q), NEW ops, NEW user, OpsFit(ops, r, user), ~IsOpen(r)
  PROVE  AnswersFit(ops, r) /\ AnswersDue(ops, r) = 0
<1>1. ~r.handshake /\ r.toClient = <<>>
  BY DEF Settled, Core
<1>2. \A i \in DOMAIN ops : ~Live(ops, i, OfCall)
  BY DEF OpsFit
<1>3. \A i \in DOMAIN ops : ~Live(ops, i, {"read"}) /\ ~Live(ops, i, {"failed", "finished"})
  BY <1>2 DEF Live, OfCall
<1> QED
  BY <1>1, <1>3 DEF AnswersFit, RepliesFit, AnswersDue

\* A call that only changes in what answers do not depend on.
LEMMA SameAnswers ==
  ASSUME NEW ops, NEW r, NEW s, AnswersFit(ops, r),
         s.handshake = r.handshake, s.ended = r.ended, s.toClient = r.toClient,
         s.toServer = r.toServer, s.pipeline = r.pipeline, s.state = r.state
  PROVE  AnswersFit(ops, s) /\ AnswersDue(ops, s) = AnswersDue(ops, r)
BY DEF AnswersFit, RepliesFit, AnswersDue, IsOpen

\* Posting an operation, which is no reply.
LEMMA PostAnswers ==
  ASSUME NEW ops \in Seq(Op), NEW r, AnswersFit(ops, r), NEW e \in Op, e.kind # "read",
         e.kind \in {"failed", "finished"} => r.ended # "no"
  PROVE  AnswersFit(Append(ops, e), r) /\ AnswersDue(Append(ops, e), r) = AnswersDue(ops, r)
<1> DEFINE all == Append(ops, e)
           n   == Len(ops) + 1
<1>1. /\ Len(ops) \in Nat /\ DOMAIN all = 1..n /\ DOMAIN ops = 1..Len(ops)
      /\ \A i \in 1..Len(ops) : all[i] = ops[i]
      /\ all[n] = e
  BY AppendIs
<1>2. /\ \A i \in DOMAIN all : i \in DOMAIN ops \/ i = n
      /\ \A i \in DOMAIN ops : i \in DOMAIN all /\ all[i] = ops[i]
  BY <1>1
<1> HIDE DEF all, n
<1>3. \A kinds : \A i \in DOMAIN ops : Live(all, i, kinds) <=> Live(ops, i, kinds)
  BY <1>2 DEF Live
<1>4. ~Live(all, n, {"read"}) /\ (Live(all, n, {"failed", "finished"}) => r.ended # "no")
  BY <1>1 DEF Live
<1>5. Reading(all) <=> Reading(ops)
  BY <1>2, <1>3, <1>4 DEF Reading
<1>6. RepliesFit(all, r)
  BY <1>2, <1>3, <1>4 DEF AnswersFit, RepliesFit
<1>7. AnswersFit(all, r) /\ AnswersDue(all, r) = AnswersDue(ops, r)
  BY <1>5, <1>6 DEF AnswersFit, AnswersDue
<1> QED
  BY <1>7 DEF all

\* The operations that are left after the first one.
LEMMA TailReplies ==
  ASSUME NEW ops \in Seq(Op), ops # <<>>, NEW r, RepliesFit(ops, r)
  PROVE  /\ RepliesFit(Tail(ops), r)
         /\ ~Live(ops, 1, {"read"}) => (Reading(Tail(ops)) <=> Reading(ops))
<1>1. /\ Tail(ops) \in Seq(Op) /\ Len(ops) \in Nat /\ Len(ops) > 0
      /\ Len(Tail(ops)) = Len(ops) - 1
      /\ \A i \in 1..(Len(ops) - 1) : Tail(ops)[i] = ops[i + 1]
  BY TailIs
<1>2. DOMAIN Tail(ops) = 1..(Len(ops) - 1) /\ DOMAIN ops = 1..Len(ops)
  BY <1>1
<1>3. /\ \A i \in DOMAIN Tail(ops) : i + 1 \in DOMAIN ops /\ Tail(ops)[i] = ops[i + 1]
      /\ \A i \in DOMAIN ops : i # 1 => i - 1 \in DOMAIN Tail(ops) /\ (i - 1) + 1 = i
  BY <1>1, <1>2
<1>4. \A i \in DOMAIN Tail(ops) : \A kinds : Live(Tail(ops), i, kinds) <=> Live(ops, i + 1, kinds)
  BY <1>3 DEF Live
<1>5. RepliesFit(Tail(ops), r)
  BY <1>3, <1>4 DEF RepliesFit
<1>6. ASSUME ~Live(ops, 1, {"read"}) PROVE Reading(Tail(ops)) <=> Reading(ops)
  <2>1. Reading(Tail(ops)) => Reading(ops)
    BY <1>3, <1>4 DEF Reading
  <2>2. ASSUME NEW i \in DOMAIN ops, Live(ops, i, {"read"}) PROVE Reading(Tail(ops))
    <3>1. i - 1 \in DOMAIN Tail(ops) /\ (i - 1) + 1 = i
      BY <1>3, <1>6, <2>2
    <3>2. Live(Tail(ops), i - 1, {"read"})
      BY <1>4, <2>2, <3>1
    <3> QED
      BY <3>1, <3>2 DEF Reading
  <2> QED
    BY <2>1, <2>2 DEF Reading
<1> QED
  BY <1>5, <1>6

\* Skipping an operation that is no reply.
LEMMA TailAnswers ==
  ASSUME NEW ops \in Seq(Op), ops # <<>>, NEW r, AnswersFit(ops, r), ~Live(ops, 1, {"read"})
  PROVE  AnswersFit(Tail(ops), r) /\ AnswersDue(Tail(ops), r) = AnswersDue(ops, r)
BY TailReplies DEF AnswersFit, AnswersDue

-------------------------------------------------------------------------------
(* The steps of the promise. *)

Due == AnswersDue(worker, remote)

\* Unread, before and after a step, is what the call owes.
LEMMA UnreadInStep ==
  ASSUME IInv, IInv', PromiseInv, PromiseInv'
  PROVE  Unread = Due /\ Unread' = Due' /\ Due \in Nat /\ Due' \in Nat
<1>1. remote \in Remote /\ remote' \in Remote
  BY DEF IInv, TypeOK
<1>2. UnreadIn(worker, remote) = Due /\ Due \in Nat
  BY <1>1, UnreadIsDue DEF PromiseInv, Due
<1>3. UnreadIn(worker', remote') = Due' /\ Due' \in Nat
  BY <1>1, UnreadIsDue DEF PromiseInv, Due
<1> QED
  BY <1>2, <1>3 DEF Unread, UnreadIn

\* What each step has to do for the promise, and to keep it.
Promised == PromiseInv' /\ [Promise!Next]_(Promise!vars)

\* A step to a stream without an open call.
LEMMA ClosedStep ==
  ASSUME IInv, ~IsOpen(remote)
  PROVE  PromiseInv /\ Due = 0
BY ClosedOwesNothing DEF IInv, PromiseInv, Due

LEMMA ClosedStepPrime ==
  ASSUME IInv', ~IsOpen(remote')
  PROVE  PromiseInv' /\ Due' = 0
BY ClosedOwesNothing DEF IInv, PromiseInv, Due

\* The call is gone, with its answers; the user may be another.
LEMMA SwitchStep ==
  ASSUME IInv, PromiseInv, IInv', ~IsOpen(remote'), UNCHANGED <<queue, told, stored>>
  PROVE  Promised
<1>1. PromiseInv' /\ Due' = 0
  BY ClosedStepPrime
<1>2. Unread' = 0
  BY <1>1, UnreadInStep
<1>3. current' \in Users
  BY DEF IInv, TypeOK
<1>4. Promise!SwitchUser
  BY <1>2, <1>3 DEF Promise!SwitchUser
<1> QED
  BY <1>1, <1>4 DEF Promised, Promise!Next

\* A step that changes neither queues nor what is due.
LEMMA StutterStep ==
  ASSUME IInv, PromiseInv, IInv', PromiseInv', Due' = Due,
         UNCHANGED <<queue, current, told, stored>>
  PROVE  Promised
<1>1. Unread' = Unread
  BY UnreadInStep
<1> QED
  BY <1>1 DEF Promised, Promise!vars

LEMMA LosesStep ==
  ASSUME IInv, PromiseInv, IInv', PromiseInv', Due' \in 0..Due,
         UNCHANGED <<queue, current, told, stored>>
  PROVE  Promised
<1>1. Unread' \in 0..Unread
  BY UnreadInStep
<1>2. Promise!Disconnect
  BY <1>1 DEF Promise!Disconnect
<1> QED
  BY <1>2 DEF Promised, Promise!Next

\* The server takes a request: a write is applied, the next one without an answer.
LEMMA ServerTakesPromised ==
  ASSUME IInv, PromiseInv, ServerTakes
  PROVE  IInv' /\ Promised
<1> DEFINE m == Head(remote.toServer)
           a == Len(remote.toServer)
           b == Len(remote.toClient)
           c == Len(remote.pipeline)
<1>1. /\ IInv' /\ IsOpen(remote)
      /\ m # Handshake <=> remote.handshake
      /\ m # Handshake => m \in Writes /\ m = queue[current][c - a + 1]
  BY ServerTakesIInv
<1>2. /\ remote \in Remote /\ remote.toServer # <<>> /\ remote.ended = "no"
      /\ remote.toServer \in Seq(Messages) /\ remote.toClient \in Seq(Messages)
      /\ remote.pipeline \in Seq(Writes)
      /\ remote' = [remote EXCEPT !.toServer = Tail(@), !.toClient = Append(@, m)]
      /\ UNCHANGED <<queue, current, told, worker>>
      /\ stored' = IF m = Handshake THEN stored
                   ELSE [stored EXCEPT ![m] = @ \cup {remote.caller}]
  BY DEF ServerTakes, IInv, TypeOK, Remote
<1>3. /\ m \in Messages /\ a \in Nat /\ a > 0 /\ b \in Nat /\ c \in Nat
      /\ Len(Tail(remote.toServer)) = a - 1
      /\ Len(Append(remote.toClient, m)) = b + 1
      /\ \A i \in 1..b : Append(remote.toClient, m)[i] = remote.toClient[i]
      /\ Append(remote.toClient, m)[b + 1] = m
      /\ DOMAIN Append(remote.toClient, m) = 1..(b + 1)
      /\ DOMAIN remote.toClient = 1..b
  <2>1. m \in Messages
    BY <1>2, TailIs
  <2> HIDE DEF m
  <2> QED
    BY <1>2, <2>1, TailIs, AppendIs
<1> HIDE DEF m, a, b, c
<1>4. /\ remote'.handshake = remote.handshake /\ remote'.state = remote.state
      /\ remote'.ended = remote.ended /\ remote'.pipeline = remote.pipeline
      /\ remote'.toServer = Tail(remote.toServer)
      /\ remote'.toClient = Append(remote.toClient, m)
  BY <1>2 DEF Remote
<1>5. /\ remote.handshake => AnswersDue(worker, remote) + a = c
      /\ remote.handshake => AnswersDue(worker', remote') = AnswersDue(worker, remote) + 1
      /\ AnswersDue(worker, remote) \in Nat
      /\ ~remote.handshake => AnswersDue(worker', remote') = AnswersDue(worker, remote)
  <2>1. AnswersDue(worker, remote) \in Nat
    BY <1>2, UnreadIsDue DEF PromiseInv
  <2>2. remote.handshake => AnswersDue(worker, remote) + a = c
    BY <1>1, <1>2 DEF PromiseInv, AnswersFit, a, c
  <2>3. ~remote.handshake => AnswersDue(worker', remote') = AnswersDue(worker, remote)
    BY <1>4 DEF AnswersDue
  <2>4. ASSUME remote.handshake
        PROVE  AnswersDue(worker', remote') = AnswersDue(worker, remote) + 1
    <3>1. PICK k \in {0, 1} : k = IF Reading(worker) THEN 1 ELSE 0
      OBVIOUS
    <3>2. AnswersDue(worker, remote) = k + b /\ AnswersDue(worker', remote') = k + (b + 1)
      BY <1>2, <1>3, <1>4, <2>4, <3>1, Zenon DEF AnswersDue, b
    <3>3. k + (b + 1) = (k + b) + 1
      BY <1>3
    <3> QED
      BY <3>2, <3>3, Zenon
  <2> QED
    BY <2>1, <2>2, <2>3, <2>4
<1>6. PromiseInv'
  <2>1. RepliesFit(worker', remote')
    BY <1>2, <1>4 DEF PromiseInv, AnswersFit, RepliesFit
  <2>2. ASSUME NEW i \in DOMAIN remote'.toClient
        PROVE  remote'.toClient[i] # Handshake <=> remote'.handshake
    <3>1. i \in 1..b \/ i = b + 1
      BY <1>3, <1>4
    <3> QED
      BY <1>1, <1>3, <1>4, <3>1 DEF PromiseInv, AnswersFit
  <2>3. remote.handshake =>
          AnswersDue(worker', remote') + Len(remote'.toServer) = Len(remote'.pipeline)
    <3> SUFFICES ASSUME remote.handshake
                 PROVE AnswersDue(worker', remote') + Len(remote'.toServer) = Len(remote'.pipeline)
      OBVIOUS
    <3>1. PICK n \in Nat : n = AnswersDue(worker, remote)
      BY <1>5
    <3>2. n + a = c /\ AnswersDue(worker', remote') = n + 1
      BY <1>5, <3>1
    <3>3. (n + 1) + (a - 1) = c
      BY <1>3, <3>2
    <3>4. Len(remote'.toServer) = a - 1 /\ Len(remote'.pipeline) = c
      BY <1>3, <1>4 DEF c
    <3> QED
      BY <3>2, <3>3, <3>4
  <2> QED
    BY <1>4, <2>1, <2>2, <2>3 DEF PromiseInv, AnswersFit
<1>7. CASE ~remote.handshake
  <2>1. Due' = Due /\ UNCHANGED <<queue, current, told, stored>>
    BY <1>1, <1>2, <1>5, <1>7 DEF Due
  <2> QED
    BY <1>1, <1>6, <2>1, StutterStep
<1>8. CASE remote.handshake
  <2>1. PICK n \in Nat : n = Due
    BY <1>5 DEF Due
  <2>2. Unread = n /\ Unread' = n + 1
    BY <1>1, <1>5, <1>6, <1>8, <2>1, UnreadInStep DEF Due
  <2>3. n + a = c
    BY <1>5, <1>8, <2>1 DEF Due
  <2>4. n < Len(queue[current])
    <3>1. c <= Len(queue[current]) /\ queue[current] \in Seq(Writes)
      BY DEF IInv, Settled, Core, IsPrefix, TypeOK, c
    <3> QED
      BY <1>3, <2>3, <3>1
  <2>5. m \in Writes /\ m # Handshake /\ m = queue[current][n + 1]
    <3>1. c - a + 1 = n + 1
      BY <1>3, <2>3
    <3> QED
      BY <1>1, <1>8, <3>1
  <2>6. {w \in Writes : stored'[w] # {}} = {w \in Writes : stored[w] # {}} \cup {m}
    <3>1. stored \in [Writes -> SUBSET Users]
      BY DEF IInv, TypeOK
    <3>2. stored' = [stored EXCEPT ![m] = @ \cup {remote.caller}]
      BY <1>2, <2>5
    <3> QED
      BY <2>5, <3>1, <3>2
  <2>7. Promise!Apply
    BY <1>2, <2>2, <2>4, <2>5, <2>6 DEF Promise!Apply
  <2> QED
    BY <1>1, <1>6, <2>7 DEF Promised, Promise!Next
<1> QED
  BY <1>7, <1>8

LEMMA ServerRefusesPromised ==
  ASSUME IInv, PromiseInv, ServerRefuses
  PROVE  IInv' /\ Promised
<1>1. IInv'
  BY ServerRefusesIInv
<1>2. /\ remote \in Remote /\ remote' = [remote EXCEPT !.ended = "refused"]
      /\ UNCHANGED <<queue, current, told, worker, stored>>
  BY DEF ServerRefuses, IInv, TypeOK
<1>3. /\ remote'.handshake = remote.handshake /\ remote'.ended = "refused"
      /\ remote'.toClient = remote.toClient
  BY <1>2 DEF Remote
<1>4. PromiseInv' /\ Due' = Due
  BY <1>2, <1>3 DEF PromiseInv, AnswersFit, RepliesFit, AnswersDue, Due
<1> QED
  BY <1>1, <1>2, <1>4, StutterStep

LEMMA DisconnectPromised ==
  ASSUME IInv, PromiseInv, Disconnect
  PROVE  IInv' /\ Promised
<1>1. IInv'
  BY DisconnectIInv
<1>2. /\ remote \in Remote
      /\ remote' = [remote EXCEPT !.ended = "down", !.toServer = <<>>, !.toClient = <<>>]
      /\ UNCHANGED <<queue, current, told, worker, stored>>
  BY DEF Disconnect, IInv, TypeOK, history
<1>3. remote'.handshake = remote.handshake /\ remote'.ended = "down" /\ remote'.toClient = <<>>
  BY <1>2 DEF Remote
<1>4. PromiseInv'
  BY <1>2, <1>3 DEF PromiseInv, AnswersFit, RepliesFit
<1>5. Due' \in 0..Due
  <2>1. Due \in Nat
    BY <1>1, <1>4, UnreadInStep
  <2>2. CASE ~remote.handshake
    BY <1>3, <2>2 DEF Due, AnswersDue
  <2>3. CASE remote.handshake
    <3>1. Len(remote.toClient) \in Nat /\ Len(<<>>) = 0
      BY <1>2 DEF Remote
    <3>2. PICK k \in {0, 1}, b \in Nat :
            k = (IF Reading(worker) THEN 1 ELSE 0) /\ b = Len(remote.toClient)
      BY <3>1
    <3>3. Due = k + b /\ Due' = k + 0
      BY <1>2, <1>3, <2>3, <3>1, <3>2, Zenon DEF Due, AnswersDue
    <3> QED
      BY <3>3
  <2> QED
    BY <2>2, <2>3
<1> QED
  BY <1>1, <1>2, <1>4, <1>5, LosesStep

\* A call that the server ends: its replies are still due.
LEMMA ServerEndsCallPromised ==
  ASSUME IInv, PromiseInv, ServerEndsCall
  PROVE  IInv' /\ Promised
<1>1. IInv'
  BY ServerEndsCallIInv
<1>2. /\ remote \in Remote /\ remote' = [remote EXCEPT !.ended = "ok"]
      /\ UNCHANGED <<queue, current, told, worker, stored>>
  BY DEF ServerEndsCall, IInv, TypeOK, history
<1>3. /\ remote'.handshake = remote.handshake /\ remote'.ended = "ok"
      /\ remote'.toClient = remote.toClient /\ remote'.toServer = remote.toServer
      /\ remote'.pipeline = remote.pipeline /\ remote'.state = remote.state
  BY <1>2 DEF Remote
<1>4. PromiseInv' /\ Due' = Due
  BY <1>2, <1>3 DEF PromiseInv, AnswersFit, RepliesFit, AnswersDue, Due
<1> QED
  BY <1>1, <1>2, <1>4, StutterStep

\* The next reply is read: it is due until it is handled.
LEMMA ReadCompletesPromised ==
  ASSUME IInv, PromiseInv, ReadCompletes
  PROVE  IInv' /\ Promised
<1> DEFINE n == Len(worker) + 1
           b == Len(remote.toClient)
<1>1. IInv'
  BY ReadCompletesIInv
<1>2. /\ remote \in Remote /\ worker \in Seq(Op) /\ remote.toClient \in Seq(Messages)
      /\ remote.toClient # <<>> /\ authUser \in Users
      /\ remote' = [remote EXCEPT !.toClient = Tail(@)]
      /\ UNCHANGED <<queue, current, told, stored>>
      /\ \A i \in DOMAIN worker : ~Live(worker, i, {"read"})
  BY DEF ReadCompletes, IInv, TypeOK, Remote, history, Posted, Live
<1>3. /\ Head(remote.toClient) = remote.toClient[1] /\ Head(remote.toClient) \in Messages
      /\ b \in Nat /\ b > 0 /\ Len(Tail(remote.toClient)) = b - 1
      /\ DOMAIN Tail(remote.toClient) = 1..(b - 1) /\ DOMAIN remote.toClient = 1..b
      /\ \A i \in 1..(b - 1) : Tail(remote.toClient)[i] = remote.toClient[i + 1]
  BY <1>2, TailIs
<1>4. PICK e \in Op : /\ worker' = Append(worker, e) /\ e.kind = "read" /\ e.live
                      /\ e.msg = remote.toClient[1]
  <2>1. [kind |-> "read", user |-> authUser, msg |-> Head(remote.toClient),
         flag |-> TRUE, live |-> TRUE] \in Op
    BY <1>2, <1>3 DEF Op, Kinds
  <2> QED
    BY <1>3, <2>1 DEF ReadCompletes, Post
<1>5. /\ remote'.handshake = remote.handshake /\ remote'.state = remote.state
      /\ remote'.ended = remote.ended /\ remote'.pipeline = remote.pipeline
      /\ remote'.toServer = remote.toServer /\ remote'.toClient = Tail(remote.toClient)
  BY <1>2 DEF Remote
<1>6. /\ Len(worker) \in Nat /\ DOMAIN worker' = 1..n /\ DOMAIN worker = 1..Len(worker)
      /\ \A i \in 1..Len(worker) : worker'[i] = worker[i]
      /\ worker'[n] = e
  BY <1>2, <1>4, AppendIs
<1>7. n \in DOMAIN worker' /\ \A i \in DOMAIN worker' : i \in DOMAIN worker \/ i = n
  BY <1>6
<1> HIDE DEF n, b
<1>8. \A i \in DOMAIN worker : \A kinds : Live(worker', i, kinds) <=> Live(worker, i, kinds)
  BY <1>6 DEF Live
<1>9. Reading(worker') /\ ~Reading(worker)
  BY <1>2, <1>4, <1>6, <1>7 DEF Reading, Live
<1>10. remote.toClient[1] # Handshake <=> remote.handshake
  <2>1. 1 \in DOMAIN remote.toClient
    BY <1>3
  <2> QED
    BY <2>1 DEF PromiseInv, AnswersFit
<1>11. RepliesFit(worker', remote')
  <2>1. ASSUME NEW i \in DOMAIN worker'
        PROVE  /\ Live(worker', i, {"read"}) => (worker'[i].msg # Handshake <=> remote.handshake)
               /\ Live(worker', i, {"failed", "finished"}) => remote.ended # "no"
    <3>1. CASE i \in DOMAIN worker
      BY <1>6, <1>8, <3>1 DEF PromiseInv, AnswersFit, RepliesFit
    <3>2. CASE i = n
      BY <1>4, <1>6, <1>10, <3>2 DEF Live
    <3> QED
      BY <1>7, <3>1, <3>2
  <2> QED
    BY <1>5, <2>1 DEF RepliesFit
<1>12. AnswersDue(worker', remote') = AnswersDue(worker, remote)
  <2>1. CASE ~remote.handshake
    BY <1>5, <2>1 DEF AnswersDue
  <2>2. CASE remote.handshake
    <3>1. AnswersDue(worker', remote') = 1 + (b - 1) /\ AnswersDue(worker, remote) = 0 + b
      BY <1>3, <1>5, <1>9, <2>2, Zenon DEF AnswersDue, b
    <3> QED
      BY <1>3, <3>1
  <2> QED
    BY <2>1, <2>2
<1>13. \A i \in DOMAIN remote'.toClient : remote'.toClient[i] # Handshake <=> remote'.handshake
  <2>1. \A i \in 1..(b - 1) : i + 1 \in 1..b
    BY <1>3
  <2> QED
    BY <1>3, <1>5, <2>1 DEF PromiseInv, AnswersFit
<1>14. PromiseInv' /\ Due' = Due
  BY <1>5, <1>11, <1>12, <1>13 DEF PromiseInv, AnswersFit, Due, IsOpen
<1> QED
  BY <1>1, <1>2, <1>14, StutterStep

LEMMA OperationFailsPromised ==
  ASSUME IInv, PromiseInv, OperationFails
  PROVE  IInv' /\ Promised
<1>1. IInv'
  BY OperationFailsIInv
<1>2. /\ worker \in Seq(Op) /\ authUser \in Users /\ remote.ended # "no"
      /\ UNCHANGED <<queue, current, told, stored, remote>>
  BY DEF OperationFails, IInv, TypeOK, history
<1>3. PICK e \in Op : worker' = Append(worker, e) /\ e.kind = "failed"
  <2>1. [kind |-> "failed", user |-> authUser, msg |-> Handshake,
         flag |-> TRUE, live |-> TRUE] \in Op
    BY <1>2 DEF Op, Kinds, Messages
  <2> QED
    BY <2>1 DEF OperationFails, Post
<1>4. PromiseInv' /\ Due' = Due
  BY <1>2, <1>3, PostAnswers DEF PromiseInv, Due
<1> QED
  BY <1>1, <1>2, <1>4, StutterStep

LEMMA AuthStateDidChangePromised ==
  ASSUME IInv, PromiseInv, NEW u \in Users, AuthStateDidChange(u)
  PROVE  IInv' /\ Promised
<1>1. IInv'
  BY AuthStateDidChangeIInv
<1>2. worker \in Seq(Op) /\ UNCHANGED <<queue, current, told, stored, remote>>
  BY DEF AuthStateDidChange, IInv, TypeOK, history
<1>3. PICK e \in Op : worker' = Append(worker, e) /\ e.kind = "change"
  <2>1. [kind |-> "change", user |-> u, msg |-> Handshake, flag |-> TRUE, live |-> TRUE] \in Op
    BY DEF Op, Kinds, Messages
  <2> QED
    BY <2>1 DEF AuthStateDidChange, Post
<1>4. PromiseInv' /\ Due' = Due
  BY <1>2, <1>3, PostAnswers DEF PromiseInv, Due
<1> QED
  BY <1>1, <1>2, <1>4, StutterStep

LEMMA GetTokenPromised ==
  ASSUME IInv, PromiseInv, GetTokenAnswers \/ GetTokenFails
  PROVE  IInv' /\ Promised
<1>1. IInv'
  BY GetTokenIInv
<1>2. /\ worker \in Seq(Op) /\ authUser \in Users /\ remote \in Remote
      /\ remote' = [remote EXCEPT !.asked = FALSE]
      /\ UNCHANGED <<queue, current, told, stored>>
  BY DEF GetTokenAnswers, GetTokenFails, IInv, TypeOK, history
<1>3. PICK e \in Op : worker' = Append(worker, e) /\ e.kind = "token"
  <2>1. \A flag \in BOOLEAN :
          [kind |-> "token", user |-> authUser, msg |-> Handshake, flag |-> flag,
           live |-> TRUE] \in Op
    BY <1>2 DEF Op, Kinds, Messages
  <2> QED
    BY <2>1 DEF GetTokenAnswers, GetTokenFails, Post
<1>4. /\ remote'.handshake = remote.handshake /\ remote'.state = remote.state
      /\ remote'.ended = remote.ended /\ remote'.pipeline = remote.pipeline
      /\ remote'.toServer = remote.toServer /\ remote'.toClient = remote.toClient
  BY <1>2 DEF Remote
<1>5. AnswersFit(worker, remote') /\ AnswersDue(worker, remote') = AnswersDue(worker, remote)
  BY <1>4, SameAnswers DEF PromiseInv
<1>6. PromiseInv' /\ Due' = Due
  BY <1>2, <1>3, <1>5, PostAnswers DEF PromiseInv, Due
<1> QED
  BY <1>1, <1>2, <1>6, StutterStep

LEMMA RunCancelledPromised ==
  ASSUME IInv, PromiseInv, RunCancelled
  PROVE  IInv' /\ Promised
<1>1. IInv'
  BY RunCancelledIInv
<1>2. /\ worker \in Seq(Op) /\ worker # <<>> /\ Head(worker) = worker[1]
      /\ ~Head(worker).live /\ worker' = Tail(worker)
      /\ UNCHANGED <<queue, current, told, stored, remote>>
  BY FirstOp DEF RunCancelled, history
<1>3. PromiseInv' /\ Due' = Due
  <2>1. ~Live(worker, 1, {"read"})
    BY <1>2 DEF Live
  <2> QED
    BY <1>2, <2>1, TailAnswers DEF PromiseInv, Due
<1> QED
  BY <1>1, <1>2, <1>3, StutterStep

LEMMA RunTokenPromised ==
  ASSUME IInv, PromiseInv, RunToken
  PROVE  IInv' /\ Promised
<1>1. /\ IInv' /\ ~IsOpen(remote)
      /\ IsOpen(remote') => /\ worker' = Tail(worker)
                            /\ ~remote'.handshake /\ remote'.toClient = <<>>
  BY RunTokenIInv
<1>2. UNCHANGED <<queue, current, told, stored>>
  BY DEF RunToken, history
<1>3. Due = 0
  BY <1>1, ClosedStep
<1>4. PromiseInv' /\ Due' = 0
  <2>1. CASE ~IsOpen(remote')
    BY <1>1, <2>1, ClosedStepPrime
  <2>2. CASE IsOpen(remote')
    <3>1. /\ worker \in Seq(Op) /\ worker # <<>> /\ Head(worker).kind = "token"
          /\ OpsFit(worker, remote, current)
      BY DEF RunToken, Runs, IInv, TypeOK
    <3>2. OpsFit(Tail(worker), remote, current)
      <4>1. Head(worker).kind # "change"
        BY <3>1
      <4> QED
        BY <3>1, <4>1, TailFits
    <3>3. \A i \in DOMAIN Tail(worker) : ~Live(Tail(worker), i, OfCall)
      BY <1>1, <3>2 DEF OpsFit
    <3>4. RepliesFit(worker', remote')
      BY <1>1, <2>2, <3>3 DEF RepliesFit, Live, OfCall
    <3>5. DOMAIN <<>> = {}
      OBVIOUS
    <3>6. ~remote'.handshake /\ DOMAIN remote'.toClient = {}
      BY <1>1, <2>2, <3>5, Zenon
    <3>7. PromiseInv'
      BY <3>4, <3>6 DEF PromiseInv, AnswersFit
    <3> QED
      BY <3>6, <3>7 DEF Due, AnswersDue
  <2> QED
    BY <2>1, <2>2
<1> QED
  BY <1>1, <1>2, <1>3, <1>4, StutterStep

\* The reply to the handshake is no answer; the whole pipeline is sent.
LEMMA RunHandshakeReadPromised ==
  ASSUME IInv, PromiseInv, RunHandshakeRead
  PROVE  IInv' /\ Promised
<1>1. /\ IInv' /\ IsOpen(remote)
      /\ remote'.handshake /\ remote'.toClient = <<>>
      /\ remote'.toServer = remote'.pipeline
  BY RunHandshakeReadIInv
<1>2. /\ ~remote.handshake /\ worker' = Tail(worker) /\ worker \in Seq(Op)
      /\ worker # <<>> /\ Head(worker).kind = "read" /\ Head(worker).live
      /\ UNCHANGED <<queue, current, told, stored>>
      /\ Head(worker) = worker[1] /\ 1 \in DOMAIN worker
  BY FirstOp DEF RunHandshakeRead, Runs, history
<1>3. remote'.ended = remote.ended
  BY DEF RunHandshakeRead, IInv, TypeOK, Remote, WriteMutations, Send, Assert
<1>4. /\ \A i \in DOMAIN worker' : ~Live(worker', i, {"read"})
      /\ RepliesFit(Tail(worker), remote)
  <2>1. Live(worker, 1, {"read"}) /\ OpsFit(worker, remote, current)
        /\ Head(worker).kind # "change"
    BY <1>2 DEF Live, IInv
  <2> QED
    BY <1>2, <2>1, TailFits, TailReplies DEF PromiseInv, AnswersFit
<1>5. ~Reading(worker') /\ RepliesFit(worker', remote')
  BY <1>2, <1>3, <1>4 DEF Reading, RepliesFit
<1>6. AnswersDue(worker', remote') = 0 /\ AnswersDue(worker, remote) = 0
  <2>1. 0 + Len(<<>>) = 0
    OBVIOUS
  <2>2. AnswersDue(worker', remote') = 0 + Len(<<>>)
    BY <1>1, <1>5, Zenon DEF AnswersDue
  <2> QED
    BY <1>2, <2>1, <2>2 DEF AnswersDue
<1>7. PromiseInv'
  <2>1. Len(remote'.pipeline) \in Nat
    BY <1>1 DEF IInv, TypeOK, Remote
  <2>2. AnswersDue(worker', remote') + Len(remote'.toServer) = Len(remote'.pipeline)
    BY <1>1, <1>6, <2>1
  <2> QED
    BY <1>1, <1>5, <2>2 DEF PromiseInv, AnswersFit
<1>8. Due' = Due
  BY <1>6 DEF Due
<1> QED
  BY <1>1, <1>2, <1>7, <1>8, StutterStep

\* The call has failed: what its replies answered may not be known any more.
LEMMA RunFailedPromised ==
  ASSUME IInv, PromiseInv, RunFailed
  PROVE  IInv' /\ Promised
<1> DEFINE rest == Cancel(Tail(worker), {"read", "failed"})
<1>1. IInv'
  BY RunFailedIInv
<1>2. /\ worker \in Seq(Op) /\ worker # <<>> /\ Tail(worker) \in Seq(Op)
      /\ Head(worker) = worker[1] /\ 1 \in DOMAIN worker
      /\ Head(worker).kind = "failed" /\ Head(worker).live
      /\ authUser \in Users /\ remote \in Remote
      /\ UNCHANGED <<queue, current, told, stored, remote>>
  BY FirstOp DEF RunFailed, Runs, history, IInv, TypeOK
<1>3. PICK e \in Op : worker' = Append(rest, e) /\ e.kind = "finished"
  <2>1. [kind |-> "finished", user |-> authUser, msg |-> Handshake,
         flag |-> remote.ended = "refused", live |-> TRUE] \in Op
    BY <1>2 DEF Op, Kinds, Messages
  <2> QED
    BY <2>1 DEF RunFailed
<1>4. remote.ended # "no"
  <2>1. Live(worker, 1, {"failed", "finished"})
    BY <1>2 DEF Live
  <2> QED
    BY <1>2, <2>1 DEF PromiseInv, AnswersFit, RepliesFit
<1>5. /\ rest \in Seq(Op)
      /\ \A i \in DOMAIN rest : ~Live(rest, i, {"read"})
  <2>1. PICK kinds : kinds = {"read", "failed"}
    OBVIOUS
  <2>2. PICK ops \in Seq(Op) : ops = Tail(worker)
    BY <1>2
  <2>3. /\ Cancel(ops, kinds) \in Seq(Op)
        /\ DOMAIN Cancel(ops, kinds) = DOMAIN ops
        /\ \A i \in DOMAIN ops :
             Cancel(ops, kinds)[i].live = (ops[i].live /\ ops[i].kind \notin kinds)
    BY CancelIs
  <2>4. \A i \in DOMAIN ops : Cancel(ops, kinds)[i].kind = ops[i].kind
    BY CancelIs
  <2>5. rest = Cancel(ops, kinds)
    BY <2>1, <2>2
  <2> QED
    BY <2>1, <2>3, <2>4, <2>5 DEF Live
<1> HIDE DEF rest
<1>6. ~Reading(rest) /\ AnswersFit(rest, remote)
  BY <1>4, <1>5 DEF Reading, PromiseInv, AnswersFit, RepliesFit
<1>7. PromiseInv' /\ Due' = AnswersDue(rest, remote)
  BY <1>2, <1>3, <1>4, <1>5, <1>6, PostAnswers DEF PromiseInv, Due
<1>8. AnswersDue(rest, remote) \in 0..Due
  <2>1. CASE ~remote.handshake
    BY <2>1 DEF Due, AnswersDue
  <2>2. CASE remote.handshake
    <3>1. Len(remote.toClient) \in Nat
      BY <1>2 DEF Remote
    <3>2. PICK k \in {0, 1}, b \in Nat :
            k = (IF Reading(worker) THEN 1 ELSE 0) /\ b = Len(remote.toClient)
      BY <3>1
    <3>3. Due = k + b /\ AnswersDue(rest, remote) = 0 + b
      BY <1>6, <2>2, <3>2, Zenon DEF Due, AnswersDue
    <3> QED
      BY <3>3
  <2> QED
    BY <2>1, <2>2
<1>9. Due' \in 0..Due
  BY <1>7, <1>8
<1> QED
  BY <1>1, <1>2, <1>7, <1>9, LosesStep

\* The oldest write is answered: the answer it was due is handled.
LEMMA RunResultReadPromised ==
  ASSUME IInv, PromiseInv, RunResultRead
  PROVE  IInv' /\ Promised
<1> DEFINE r == [remote EXCEPT !.pipeline = Tail(@)]
<1>1. /\ IInv' /\ IsOpen(remote)
      /\ FilledFrom(remote', r, queue'[current])
      /\ Len(Tail(remote.pipeline)) = Len(remote.pipeline) - 1
  BY RunResultReadIInv
<1>2. /\ remote.handshake /\ worker' = Tail(worker) /\ worker \in Seq(Op)
      /\ worker # <<>> /\ Head(worker).kind = "read" /\ Head(worker).live
      /\ Head(worker) = worker[1] /\ 1 \in DOMAIN worker
      /\ UNCHANGED <<current, stored>>
      /\ remote \in Remote
  BY FirstOp DEF RunResultRead, Runs, history, IInv, TypeOK
<1>3. /\ r.handshake = remote.handshake /\ r.state = remote.state /\ r.ended = remote.ended
      /\ r.toClient = remote.toClient /\ r.toServer = remote.toServer
      /\ r.pipeline = Tail(remote.pipeline)
  BY <1>2 DEF Remote
<1> HIDE DEF r
<1>4. /\ remote'.handshake = remote.handshake /\ remote'.ended = remote.ended
      /\ remote'.toClient = remote.toClient
      /\ Len(remote'.toServer) + Len(Tail(remote.pipeline))
           = Len(remote.toServer) + Len(remote'.pipeline)
  BY <1>1, <1>2, <1>3 DEF FilledFrom, IsOpen
<1>5. PICK a \in Nat, b \in Nat, c \in Nat, d \in Nat, f \in Nat :
        /\ a = Len(remote.toServer) /\ b = Len(remote.toClient) /\ c = Len(remote.pipeline)
        /\ d = Len(remote'.toServer) /\ f = Len(remote'.pipeline)
  <2>1. remote' \in Remote
    BY <1>1 DEF IInv, TypeOK
  <2> QED
    BY <1>2, <2>1 DEF Remote
<1>6. d + (c - 1) = a + f
  BY <1>1, <1>4, <1>5
<1>7. Reading(worker) /\ ~Reading(worker') /\ RepliesFit(worker', remote')
  <2>1. Live(worker, 1, {"read"}) /\ OpsFit(worker, remote, current)
        /\ Head(worker).kind # "change"
    BY <1>2 DEF Live, IInv
  <2>2. \A i \in DOMAIN Tail(worker) : ~Live(Tail(worker), i, {"read"})
    BY <1>2, <2>1, TailFits
  <2>3. RepliesFit(Tail(worker), remote)
    BY <1>2, TailReplies DEF PromiseInv, AnswersFit
  <2> QED
    BY <1>2, <1>4, <2>1, <2>2, <2>3 DEF Reading, RepliesFit
<1>8. AnswersDue(worker, remote) = 1 + b /\ AnswersDue(worker', remote') = 0 + b
  BY <1>2, <1>4, <1>5, <1>7, Zenon DEF AnswersDue
<1>9. PromiseInv'
  <2>1. ASSUME remote.ended = "no"
        PROVE  AnswersDue(worker', remote') + Len(remote'.toServer) = Len(remote'.pipeline)
    <3>1. (1 + b) + a = c
      BY <1>1, <1>2, <1>5, <1>8, <2>1 DEF PromiseInv, AnswersFit
    <3>2. (0 + b) + d = f
      BY <1>6, <3>1
    <3> QED
      BY <1>5, <1>8, <3>2
  <2> QED
    BY <1>4, <1>7, <2>1 DEF PromiseInv, AnswersFit
<1>10. Unread = 1 + b /\ Unread' = b
  BY <1>1, <1>8, <1>9, UnreadInStep DEF Due
<1>11. Promise!Acknowledge
  <2>1. /\ queue[current] # <<>> /\ NotifyUser(queue[current][1], "ok")
        /\ queue' = [queue EXCEPT ![current] = Tail(queue[current])]
    BY ResultAnswers DEF Answers
  <2>2. Head(queue[current]) = queue[current][1]
    <3>1. queue[current] \in Seq(Writes)
      BY DEF IInv, TypeOK
    <3> QED
      BY <2>1, <3>1, TailIs
  <2>3. Promise!Tell(Head(queue[current]), "ok")
    BY <2>1, <2>2 DEF NotifyUser, Promise!Tell
  <2>4. Unread > 0 /\ Unread' = Unread - 1
    BY <1>10
  <2> QED
    BY <1>2, <2>1, <2>3, <2>4 DEF Promise!Acknowledge
<1> QED
  BY <1>1, <1>9, <1>11 DEF Promised, Promise!Next

LEMMA RunRejectedPromised ==
  ASSUME IInv, PromiseInv, RunRejected
  PROVE  IInv' /\ Promised
<1>1. IInv' /\ ~IsOpen(remote')
  BY RunRejectedIInv
<1>2. PromiseInv' /\ Due' = 0
  BY <1>1, ClosedStepPrime
<1>3. Unread' = 0
  BY <1>1, <1>2, UnreadInStep
<1>4. /\ queue[current] # <<>> /\ NotifyUser(queue[current][1], "error")
      /\ queue' = [queue EXCEPT ![current] = Tail(queue[current])]
      /\ UNCHANGED <<current, stored>>
  BY RejectionAnswers DEF Answers
<1>5. Head(queue[current]) = queue[current][1]
  <2>1. queue[current] \in Seq(Writes)
    BY DEF IInv, TypeOK
  <2> QED
    BY <1>4, <2>1, TailIs
<1>6. Promise!Tell(Head(queue[current]), "error")
  BY <1>4, <1>5 DEF NotifyUser, Promise!Tell
<1>7. Promise!Refuse
  BY <1>3, <1>4, <1>6 DEF Promise!Refuse
<1> QED
  BY <1>1, <1>2, <1>7 DEF Promised, Promise!Next

\* A write is issued: sent or not, no more answers are due than before.
LEMMA WriteMutationsOfPromised ==
  ASSUME IInv, PromiseInv, NEW w \in Writes, WriteMutationsOf(w)
  PROVE  IInv' /\ Promised
<1>1. IInv' /\ FilledFrom(remote', remote, queue'[current])
  BY WriteMutationsOfIInv
<1>2. /\ told[w] = "unissued" /\ \A v \in 1..(w - 1) : told[v] # "unissued"
      /\ queue' = [queue EXCEPT ![current] = Append(queue[current], w)]
      /\ told' = [told EXCEPT ![w] = "waiting"]
      /\ UNCHANGED <<current, worker, stored>>
      /\ remote \in Remote /\ remote' \in Remote
  BY <1>1 DEF WriteMutationsOf, IInv, TypeOK
<1>3. PromiseInv' /\ Due' = Due
  <2>1. CASE ~IsOpen(remote)
    <3>1. ~IsOpen(remote')
      BY <1>1, <2>1 DEF FilledFrom
    <3> QED
      BY <1>1, <2>1, <3>1, ClosedStep, ClosedStepPrime
  <2>2. CASE IsOpen(remote)
    <3>1. /\ remote'.handshake = remote.handshake /\ remote'.ended = remote.ended
          /\ remote'.toClient = remote.toClient
          /\ remote.handshake => Len(remote'.toServer) + Len(remote.pipeline)
                                   = Len(remote.toServer) + Len(remote'.pipeline)
      BY <1>1, <2>2 DEF FilledFrom
    <3>2. AnswersDue(worker', remote') = AnswersDue(worker, remote)
          /\ RepliesFit(worker', remote')
      BY <1>2, <3>1 DEF AnswersDue, RepliesFit, PromiseInv, AnswersFit
    <3>3. ASSUME remote.handshake, remote.ended = "no"
          PROVE  AnswersDue(worker', remote') + Len(remote'.toServer) = Len(remote'.pipeline)
      <4>1. PICK a \in Nat, c \in Nat, d \in Nat, f \in Nat, n \in Nat :
              /\ a = Len(remote.toServer) /\ c = Len(remote.pipeline)
              /\ d = Len(remote'.toServer) /\ f = Len(remote'.pipeline)
              /\ n = AnswersDue(worker, remote)
        <5>1. AnswersDue(worker, remote) \in Nat
          BY <1>2, UnreadIsDue DEF PromiseInv
        <5> QED
          BY <1>2, <5>1 DEF Remote
      <4>2. n + a = c
        BY <2>2, <3>3, <4>1 DEF PromiseInv, AnswersFit
      <4>3. d + c = a + f
        BY <3>1, <3>3, <4>1
      <4>4. n + d = f
        BY <4>2, <4>3
      <4> QED
        BY <3>2, <4>1, <4>4
    <3>4. PromiseInv'
      BY <3>1, <3>2, <3>3 DEF PromiseInv, AnswersFit
    <3> QED
      BY <3>2, <3>4 DEF Due
  <2> QED
    BY <2>1, <2>2
<1>4. Unread' = Unread
  BY <1>1, <1>3, UnreadInStep
<1>5. Promise!Issue(w)
  BY <1>2, <1>4 DEF Promise!Issue
<1>6. w \in Promise!Writes
  BY DEF Promise!Writes, Writes
<1> QED
  BY <1>1, <1>3, <1>5, <1>6 DEF Promised, Promise!Next

\* The app is started again: every handler that waits is lost.
LEMMA RelaunchPromised ==
  ASSUME IInv, PromiseInv, IInv', ~IsOpen(remote'), Relaunch
  PROVE  Promised
<1>1. PromiseInv' /\ Due' = 0
  BY ClosedStepPrime
<1>2. Unread' = 0
  BY <1>1, UnreadInStep
<1>3. current' \in Users
  BY DEF IInv, TypeOK
<1>4. Promise!Writes = Writes
  BY DEF Promise!Writes, Writes
<1>5. Promise!Kill
  BY <1>2, <1>3, <1>4 DEF Promise!Kill, Relaunch, history
<1> QED
  BY <1>1, <1>5 DEF Promised, Promise!Next

LEMMA StepKeepsPromise ==
  ASSUME IInv, PromiseInv, [Next]_vars
  PROVE  IInv' /\ Promised
<1>1. CASE UNCHANGED vars
  <2>1. IInv' /\ UNCHANGED <<queue, current, told, worker, remote, stored>>
    BY <1>1, NextIInv DEF vars
  <2>2. PromiseInv' /\ Due' = Due
    BY <2>1 DEF PromiseInv, Due
  <2> QED
    BY <2>1, <2>2, StutterStep
<1>2. ASSUME NEW w \in Writes, WriteMutationsOf(w) PROVE IInv' /\ Promised
  BY <1>2, WriteMutationsOfPromised
<1>3. ASSUME NEW u \in Users, AuthStateDidChange(u) PROVE IInv' /\ Promised
  BY <1>3, AuthStateDidChangePromised
<1>4. Kill => IInv' /\ Promised
  BY KillIInv, RelaunchPromised DEF Kill
<1>9. RunAborts => IInv' /\ Promised
  BY RunAbortsIInv, RelaunchPromised DEF RunAborts
<1>5. ASSUME \/ ConnectivityChanged \/ BackoffElapsed \/ IdleTimeout
             \/ RunChange \/ RunFinished \/ RunFinishedOk
      PROVE  IInv' /\ Promised
  <2>1. IInv' /\ ~IsOpen(remote')
    BY ConnectivityChangedIInv, BackoffElapsedIInv, IdleTimeoutIInv, RunChangeIInv,
       RunFinishedIInv, RunFinishedOkIInv, <1>5
  <2>2. UNCHANGED <<queue, told, stored>>
    BY <1>5 DEF ConnectivityChanged, BackoffElapsed, IdleTimeout, RunChange, RunFinished,
           RunFinishedOk, history
  <2> QED
    BY <2>1, <2>2, SwitchStep
<1>6. GetTokenAnswers \/ GetTokenFails => IInv' /\ Promised
  BY GetTokenPromised
<1>7. Serve \/ Disconnect \/ ServerEndsCall \/ ReadCompletes \/ OperationFails
        => IInv' /\ Promised
  BY ServerTakesPromised, ServerRefusesPromised, DisconnectPromised,
     ServerEndsCallPromised, ReadCompletesPromised, OperationFailsPromised DEF Serve
<1>8. Run => IInv' /\ Promised
  BY <1>5, <1>9, RunCancelledPromised, RunTokenPromised, RunHandshakeReadPromised,
     RunResultReadPromised, RunFailedPromised, RunRejectedPromised DEF Run
<1> QED
  BY <1>1, <1>2, <1>3, <1>4, <1>5, <1>6, <1>7, <1>8 DEF Next

LEMMA InitKeepsPromise ==
  ASSUME Init
  PROVE  PromiseInv /\ Promise!Init
<1>1. IInv
  BY InitIInv
<1>2. ~IsOpen(remote)
  BY DEF Init, Fresh, IsOpen
<1>3. PromiseInv /\ Due = 0
  BY <1>1, <1>2, ClosedStep
<1>4. Unread = 0
  <2>1. UnreadIn(worker, remote) = Due
    BY <1>1, <1>3, UnreadIsDue DEF PromiseInv, Due, IInv, TypeOK
  <2> QED
    BY <1>3, <2>1 DEF Unread, UnreadIn
<1>5. {w \in Writes : stored[w] # {}} = {}
  BY DEF Init
<1>6. Promise!Writes = Writes
  BY DEF Promise!Writes, Writes
<1> QED
  BY <1>3, <1>4, <1>5, <1>6 DEF Init, Promise!Init

\* ImplementsWriteQueue: to an app, WriteStream, WriteMutations and SyncEngine are the
\* queue of WriteQueue. Whatever the connection, the token and the order of the
\* callbacks on the AsyncQueue, a write is applied by Firestore in the order of the
\* calls, acknowledged or refused once, and lost only by what WriteQueue says loses it.
THEOREM PipelineKeepsPromise == Spec => ImplementsWriteQueue
<1>1. Init => IInv /\ PromiseInv /\ Promise!Init
  BY InitIInv, InitKeepsPromise
<1>2. IInv /\ PromiseInv /\ [Next]_vars
        => IInv' /\ PromiseInv' /\ [Promise!Next]_(Promise!vars)
  BY StepKeepsPromise DEF Promised
<1>3. Spec => Promise!Spec
  BY <1>1, <1>2, PTL DEF Spec, Promise!Spec
<1> QED
  BY <1>3 DEF ImplementsWriteQueue

\* ImplementsWriteQueue, with the batches kept as rows on disk whose ids start over with
\* each new queue: the app sees no other order of writes for it.
THEOREM RowsKeepPromise == SpecOnRows => ImplementsWriteQueue
BY RowsKeepPipeline, PipelineKeepsPromise
===============================================================================
