---------------------------- MODULE MutationQueue ----------------------------
(***************************************************************************)
(* The write pipeline on the store it really has.                          *)
(*                                                                         *)
(* WritePipeline takes the writes of a user for a first-in-first-out       *)
(* queue, and a callback for a property of its write.  In the code the     *)
(* writes are rows of LevelDB under the key (user, batch id), read back in *)
(* the order of the ids; the next id is worked out from the rows each time *)
(* a user's queue is started, so ids are used again after a restart; and   *)
(* SyncEngine finds a callback by user and id.  Here each action of the    *)
(* pipeline that touches its queue is taken together with what it does to  *)
(* those rows and maps.                                                    *)
(***************************************************************************)
EXTENDS WritePipeline, FiniteSets, FiniteSetsExt

VARIABLES
  rows,         \* per user, the mutation rows: batch ids with their writes
  nextBatchId,  \* next_batch_id_ of the queue in use
  callbacks     \* mutation_callbacks_: per user, batch ids with their writes

rowVars == <<rows, nextBatchId, callbacks>>
allVars == <<vars, rowVars>>

BatchId == 1..(MaxWrites + 1)
Row     == [id: BatchId, write: Writes]

RowsTypeOK ==
  /\ TypeOK
  /\ rows        \in [Users -> SUBSET Row]
  /\ nextBatchId \in BatchId
  /\ callbacks   \in [Users -> SUBSET Row]

RowsInit ==
  /\ rows = [u \in Users |-> {}]
  /\ nextBatchId = 1
  /\ callbacks = [u \in Users |-> {}]

-------------------------------------------------------------------------------

\* Mutants of the next id: as many as there are rows; one is left out.
NextIdFromCount(rs) == 1 + Cardinality(UNION {rs[u] : u \in Users})

NextIdSkips(rs) == 2 + Max({0} \cup {row.id : row \in UNION {rs[u] : u \in Users}})

\* LoadNextBatchIdFromDb: one more than the highest id of any user.
LoadNextBatchIdFromDb(rs) ==
  1 + Max({0} \cup {row.id : row \in UNION {rs[u] : u \in Users}})

\* A put under an id replaces the row that has it; an insert into the map of
\* callbacks leaves the entry that has it.
Put(rs, id, w)    == {row \in rs : row.id # id} \cup {[id |-> id, write |-> w]}
Insert(rs, id, w) == IF \E row \in rs : row.id = id THEN rs
                     ELSE rs \cup {[id |-> id, write |-> w]}

\* AddMutationBatch, and the callback that WriteMutations keeps.
AddMutationBatch(w) ==
  /\ rows' = [rows EXCEPT ![current] = Put(@, nextBatchId, w)]
  /\ callbacks' = [callbacks EXCEPT ![current] = Insert(@, nextBatchId, w)]
  /\ nextBatchId' = nextBatchId + 1

\* Mutant of RemoveMutationBatch: NotifyUser does not erase the callback.
CallbackStays(w) ==
  /\ rows' = [rows EXCEPT ![current] = {row \in @ : row.write # w}]
  /\ UNCHANGED <<callbacks, nextBatchId>>

\* AcknowledgeBatch or RejectBatch of the batch of write w, and NotifyUser.
RemoveMutationBatch(w) ==
  LET ids == {row.id : row \in {row \in rows[current] : row.write = w}}
  IN  /\ rows' = [rows EXCEPT ![current] = {row \in @ : row.id \notin ids}]
      /\ callbacks' = [callbacks EXCEPT ![current] = {row \in @ : row.id \notin ids}]
      /\ UNCHANGED nextBatchId

\* HandleUserChange, for a user who is another: that user's queue is started.
HandleUserChange ==
  /\ nextBatchId' = IF current' # current THEN LoadNextBatchIdFromDb(rows)
                    ELSE nextBatchId
  /\ UNCHANGED <<rows, callbacks>>

\* LocalStore::Start after a kill or a failed assertion.
RestartQueue ==
  /\ nextBatchId' = LoadNextBatchIdFromDb(rows)
  /\ callbacks' = [u \in Users |-> {}]
  /\ UNCHANGED rows

RunOnRows ==
  \/ RunChange /\ HandleUserChange
  \/ (RunResultRead \/ RunRejected) /\ RemoveMutationBatch(Head(remote.pipeline))
  \/ RunAborts /\ RestartQueue
  \/ /\ \/ RunCancelled \/ RunToken \/ RunHandshakeRead
        \/ RunFailed \/ RunFinished \/ RunFinishedOk
     /\ UNCHANGED rowVars

NextOnRows ==
  \/ \E w \in Writes : WriteMutationsOf(w) /\ AddMutationBatch(w)
  \/ Kill /\ RestartQueue
  \/ RunOnRows
  \/ /\ \/ \E u \in Users : AuthStateDidChange(u)
        \/ ConnectivityChanged \/ BackoffElapsed \/ IdleTimeout
        \/ GetTokenAnswers \/ GetTokenFails
        \/ Serve \/ Disconnect \/ ServerEndsCall
        \/ ReadCompletes \/ OperationFails
     /\ UNCHANGED rowVars

InitOnRows == Init /\ RowsInit

SpecOnRows == InitOnRows /\ [][NextOnRows]_allVars

FairSpecOnRows == SpecOnRows /\ Fairness

-------------------------------------------------------------------------------
(* What holds. *)

\* Read in the order of their ids, a user's rows are the queue in the order of
\* issue, though ids start over when the rows are gone: no row is written over
\* another, and none sorts before an older one.
RowsAreQueue ==
  \A u \in Users :
    /\ Cardinality(rows[u]) = Len(queue[u])
    /\ \A i \in DOMAIN queue[u] :
         \E row \in rows[u] :
           /\ row.write = queue[u][i]
           /\ Cardinality({r \in rows[u] : r.id < row.id}) = i - 1

\* NotifyUser finds under a batch's id the callback of that batch, and finds it
\* as long as the callback is due.
CallbackIsOwn ==
  /\ \A u \in Users : callbacks[u] \subseteq rows[u]
  /\ \A w \in Writes :
       told[w] = "waiting" <=> \E row \in callbacks[owner[w]] : row.write = w
===============================================================================
