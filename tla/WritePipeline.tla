---------------------------- MODULE WritePipeline ----------------------------
(***************************************************************************)
(* How the Firestore SDK of a device sends its queued writes.              *)
(*                                                                         *)
(* SyncEngine keeps a queue of writes per user (MutationQueue).            *)
(* RemoteStore copies the oldest ones of the current user into its write   *)
(* pipeline and sends them over WriteStream, a Stream, which asks for      *)
(* credentials, opens a gRPC call, shakes hands, closes when it is idle    *)
(* and backs off after an error.  Everything runs on one worker queue, to  *)
(* which the credentials, the timers and the completions of the gRPC call  *)
(* post operations of their own; handlers call each other before they      *)
(* return, so each of them is a function on the record "remote" here, and  *)
(* an action is one operation of the worker queue with all its calls.      *)
(*                                                                         *)
(* "remote.sound" is the conjunction of the HARD_ASSERTs met so far.  One  *)
(* HARD_ASSERT does fail, when the server ends a call with status OK while *)
(* writes are in flight: the app ends there (RunAborts).  The server is    *)
(* external; it takes no request of a call that is over.                   *)
(***************************************************************************)
EXTENDS Naturals, Sequences

CONSTANTS
  Users,       \* the accounts used on the device
  MaxWrites,   \* bound: writes issued; their numbers stand for batch ids
  MaxPending,  \* kMaxPendingWrites
  MaxFaults    \* bound: lost connections, kills, changes of user, ...

ASSUME UsersAssumption      == Users # {}
ASSUME MaxWritesAssumption  == MaxWrites \in Nat
ASSUME MaxPendingAssumption == MaxPending \in Nat \ {0}
ASSUME MaxFaultsAssumption  == MaxFaults \in Nat

Writes    == 1..MaxWrites
Handshake == 0             \* the request, and the reply, that are no write
Messages  == Writes \cup {Handshake}

VARIABLES
  queue,     \* LocalStore: per user, the writes on disk without an answer
  current,   \* SyncEngine's current_user_
  told,      \* what became of each write's callback
  authUser,  \* the credentials provider's current_user
  worker,    \* operations posted to the worker queue, oldest first
  remote,    \* RemoteStore, its write stream and the gRPC call
  owner,     \* history: the user who issued each write
  stored,    \* history: per write, the users whose token the server saw with it
  refused,   \* history: writes the server refused
  faults     \* faults so far

vars == <<queue, current, told, authUser, worker, remote, owner, stored,
          refused, faults>>

-------------------------------------------------------------------------------
(* Data. *)

States == {"Initial", "Starting", "Open", "Error", "Backoff"}
Ended  == {"no", "refused", "down", "ok"}

Remote ==
  [state: States, handshake: BOOLEAN,  \* WriteStream
   idle: BOOLEAN, backoff: BOOLEAN,    \* its timers
   asked: BOOLEAN,                     \* GetToken has not answered the stream
   enabled: BOOLEAN,                   \* is_network_enabled_
   pipeline: Seq(Writes),
   caller: Users,                      \* whose token the call carries
   toServer: Seq(Messages), toClient: Seq(Messages),
   ended: Ended,                       \* how the server ended the call
   sound: BOOLEAN]

\* An operation on the worker queue: a change of user; a token that arrived; a
\* message read, a failed operation, or the status, of the gRPC call.
Kinds == {"change", "token", "read", "failed", "finished"}
Op    == [kind: Kinds, user: Users, msg: Messages,
          flag: BOOLEAN,   \* token: it is good.  status: the error is permanent
          live: BOOLEAN]   \* FALSE: cancelled, or for an earlier close count

Post(kind, user, msg, flag) ==
  Append(worker, [kind |-> kind, user |-> user, msg |-> msg, flag |-> flag,
                  live |-> TRUE])

\* Some operation of one of these kinds is on its way.
Posted(kinds) == \E i \in DOMAIN worker : worker[i].kind \in kinds /\ worker[i].live

\* The operations ops after those of some kinds were cancelled.
Cancel(ops, kinds) ==
  [i \in DOMAIN ops |->
     [ops[i] EXCEPT !.live = @ /\ ops[i].kind \notin kinds]]

OfCall   == {"read", "failed", "finished"}   \* cancelled with the gRPC call
OfStream == OfCall \cup {"token"}            \* void once the stream is closed

\* RemoteStore before it is started, and after a kill.
Fresh == [state |-> "Initial", handshake |-> FALSE, idle |-> FALSE,
          backoff |-> FALSE, asked |-> FALSE, enabled |-> TRUE,
          pipeline |-> <<>>, caller |-> CHOOSE u \in Users : TRUE,
          toServer |-> <<>>, toClient |-> <<>>, ended |-> "no", sound |-> TRUE]

Assert(r, condition) == [r EXCEPT !.sound = @ /\ condition]

-------------------------------------------------------------------------------
(* Stream. *)

IsOpen(r)    == r.state = "Open"
IsStarted(r) == r.state \in {"Starting", "Backoff", "Open"}

BackoffAndTryRestarting(r) ==
  [Assert(r, r.state = "Error") EXCEPT !.state = "Backoff", !.backoff = TRUE]

\* Start, with RequestCredentials.
Start(r) ==
  IF r.state = "Error"
  THEN BackoffAndTryRestarting(r)
  ELSE [Assert(r, r.state = "Initial") EXCEPT !.state = "Starting", !.asked = TRUE]

InhibitBackoff(r) == [Assert(r, ~IsStarted(r)) EXCEPT !.state = "Initial"]

MarkIdle(r) == [r EXCEPT !.idle = @ \/ IsOpen(r)]

\* Write, which cancels the idle timer: messages ms go to the gRPC call.
Send(r, ms) ==
  [Assert(r, IsOpen(r)) EXCEPT !.idle = FALSE, !.toServer = @ \o ms]

\* Mutant of CloseSteps: no close count, a late token finds the next stream.
CloseKeepsToken(r, graceful) ==
  [Assert(r, IsStarted(r)) EXCEPT
     !.idle = FALSE, !.backoff = FALSE,
     !.toServer = <<>>, !.toClient = <<>>, !.ended = "no",
     !.state = IF graceful THEN "Initial" ELSE "Error"]

\* Close, up to the notification: the timers are cancelled, the close count
\* disowns the outstanding GetToken, the call is destroyed.
CloseSteps(r, graceful) ==
  [Assert(r, IsStarted(r)) EXCEPT
     !.idle = FALSE, !.backoff = FALSE,
     !.asked = FALSE,
     !.toServer = <<>>, !.toClient = <<>>, !.ended = "no",
     !.state = IF graceful THEN "Initial" ELSE "Error"]

-------------------------------------------------------------------------------
(* WriteStream and RemoteStore. *)

WriteHandshake(r) == Send(Assert(r, ~r.handshake), <<Handshake>>)

WriteMutations(r, ws) == Send(Assert(r, r.handshake), ws)

ShouldStartWriteStream(r) == r.enabled /\ ~IsStarted(r) /\ r.pipeline # <<>>

StartIfNeeded(r) == IF ShouldStartWriteStream(r) THEN Start(r) ELSE r

\* Mutant of After: one write is skipped.
AfterNext(q, w) ==
  LET k == CHOOSE k \in 0..Len(q) : \A i \in 1..Len(q) : i <= k <=> q[i] <= w
  IN  SubSeq(q, k + 2, Len(q))

\* GetNextMutationBatch, again and again: the writes of q after number w.
After(q, w) ==
  LET k == CHOOSE k \in 0..Len(q) : \A i \in 1..Len(q) : i <= k <=> q[i] <= w
  IN  SubSeq(q, k + 1, Len(q))

LastPending(r) ==
  IF r.pipeline = <<>> THEN 0 ELSE r.pipeline[Len(r.pipeline)]

\* What FillWritePipeline adds: the next writes, while there is room.
NextWrites(r, q) ==
  LET rest == After(q, LastPending(r))
      room == IF r.enabled /\ Len(r.pipeline) < MaxPending
              THEN MaxPending - Len(r.pipeline) ELSE 0
  IN  SubSeq(rest, 1, IF Len(rest) < room THEN Len(rest) ELSE room)

FillWritePipeline(r, q) ==
  LET next   == NextWrites(r, q)
      filled == [r EXCEPT !.pipeline = @ \o next]
  IN  StartIfNeeded(
        IF next # <<>> /\ IsOpen(r) /\ r.handshake THEN WriteMutations(filled, next)
        ELSE IF next = <<>> /\ r.enabled /\ r.pipeline = <<>> THEN MarkIdle(r)
        ELSE filled)

\* OnWriteStreamClose after a graceful stop, then the end of NotifyStreamClose.
ClosedGracefully(r) ==
  [StartIfNeeded(Assert(r, ~ShouldStartWriteStream(r))) EXCEPT !.handshake = FALSE]

\* Stop: graceful and idempotent.
Stop(r) ==
  IF IsStarted(r) THEN ClosedGracefully(CloseSteps(r, TRUE)) ELSE r

\* DisableNetworkInternal, with the network switched off first.
DisableNetworkInternal(r) == [Stop([r EXCEPT !.enabled = FALSE]) EXCEPT !.pipeline = <<>>]

\* Mutant of RestartNetwork: the writes in flight are kept.
RestartKeepsPipeline(r, q) ==
  LET off == InhibitBackoff(Stop([r EXCEPT !.enabled = FALSE]))
  IN  FillWritePipeline([off EXCEPT !.enabled = TRUE], q)

\* RestartNetwork.
RestartNetwork(r, q) ==
  LET off == InhibitBackoff(DisableNetworkInternal(r))
  IN  FillWritePipeline([off EXCEPT !.enabled = TRUE], q)

\* Mutant of PopFront: the newest write goes.
PopBack(r) ==
  [Assert(r, r.pipeline # <<>>) EXCEPT !.pipeline = SubSeq(@, 1, Len(@) - 1)]

\* OnWriteStreamMutationResult: the answer is taken for the oldest write.
PopFront(r) == [Assert(r, r.pipeline # <<>>) EXCEPT !.pipeline = Tail(@)]

\* An error is held against the oldest write: HandleWriteError, permanent case.
BlamesFront(r, permanent) == permanent /\ r.handshake /\ r.pipeline # <<>>

\* Mutant of ClosedByError: nothing starts the stream again.
ClosedForGood(r, permanent, q) ==
  LET handled == IF BlamesFront(r, permanent)
                 THEN FillWritePipeline(InhibitBackoff(PopFront(r)), q)
                 ELSE r
  IN  [handled EXCEPT !.handshake = FALSE]

\* OnWriteStreamClose after an error, with q the queue that is left.
ClosedByError(r, permanent, q) ==
  LET handled == IF BlamesFront(r, permanent)
                 THEN FillWritePipeline(InhibitBackoff(PopFront(r)), q)
                 ELSE r
  IN  [StartIfNeeded(handled) EXCEPT !.handshake = FALSE]

-------------------------------------------------------------------------------
(* SyncEngine and LocalStore. *)

\* Mutant of NotifyUser: the callback of a killed app is called.
NotifyAlways(w, end) == told' = [told EXCEPT ![w] = end]

\* NotifyUser of the current user: a waiting callback is called and dropped.
NotifyUser(w, end) ==
  told' = [told EXCEPT ![w] = IF @ = "waiting" THEN end ELSE @]

\* RemoveMutationBatch, which fails a HARD_ASSERT unless the batch is there.
Contains(q, w) == \E i \in DOMAIN q : q[i] = w

Remove(q, w) ==
  LET i == CHOOSE i \in DOMAIN q : q[i] = w
  IN  IF Contains(q, w) THEN SubSeq(q, 1, i - 1) \o SubSeq(q, i + 1, Len(q)) ELSE q

-------------------------------------------------------------------------------

TypeOK ==
  /\ queue    \in [Users -> Seq(Writes)]
  /\ current  \in Users
  /\ told     \in [Writes -> {"unissued", "waiting", "ok", "error", "lost"}]
  /\ authUser \in Users
  /\ worker   \in Seq(Op)
  /\ remote   \in Remote
  /\ owner    \in [Writes -> Users]
  /\ stored   \in [Writes -> SUBSET Users]
  /\ refused  \in SUBSET Writes
  /\ faults   \in 0..MaxFaults

Init ==
  /\ queue = [u \in Users |-> <<>>]
  /\ current \in Users
  /\ told = [w \in Writes |-> "unissued"]
  /\ authUser = current
  /\ worker = <<>>
  /\ remote = Fresh
  /\ owner = [w \in Writes |-> current]
  /\ stored = [w \in Writes |-> {}]
  /\ refused = {}
  /\ faults = 0

history == <<owner, stored, refused>>

Fault == faults < MaxFaults /\ faults' = faults + 1

-------------------------------------------------------------------------------
(* The app and the account. *)

\* SyncEngine::WriteMutations.  It is posted like everything else, so a change
\* of user that was posted before it has taken effect.
WriteMutationsOf(w) ==
  LET q == Append(queue[current], w)
  IN  /\ told[w] = "unissued"
      /\ \A v \in 1..(w - 1) : told[v] # "unissued"
      /\ ~Posted({"change"})
      /\ owner' = [owner EXCEPT ![w] = authUser]
      /\ queue' = [queue EXCEPT ![current] = q]
      /\ told' = [told EXCEPT ![w] = "waiting"]
      /\ remote' = FillWritePipeline(remote, q)
      /\ UNCHANGED <<current, authUser, worker, stored, refused, faults>>

\* The account changes: the credentials provider knows at once, SyncEngine will.
AuthStateDidChange(u) ==
  /\ u # authUser
  /\ Fault
  /\ authUser' = u
  /\ worker' = Post("change", u, Handshake, TRUE)
  /\ UNCHANGED <<queue, current, told, remote, history>>

\* The app is started again: FirestoreClient::Initialize.
Relaunch ==
  /\ current' = authUser
  /\ worker' = <<>>
  /\ remote' = [FillWritePipeline(Fresh, queue[authUser])
                  EXCEPT !.sound = @ /\ remote.sound]
  /\ told' = [w \in Writes |-> IF told[w] = "waiting" THEN "lost" ELSE told[w]]
  /\ UNCHANGED <<queue, authUser, history>>

\* The app is killed and started again.
Kill == Fault /\ Relaunch

\* The connectivity callback of RemoteStore::Start.
ConnectivityChanged ==
  /\ Fault
  /\ worker' = Cancel(worker, OfStream)
  /\ remote' = RestartNetwork(remote, queue[current])
  /\ UNCHANGED <<queue, current, told, authUser, history>>

-------------------------------------------------------------------------------
(* Timers and credentials. *)

\* Backoff has elapsed.
BackoffElapsed ==
  /\ remote.backoff
  /\ remote' = LET r == [Assert(remote, remote.state = "Backoff")
                          EXCEPT !.backoff = FALSE, !.state = "Initial"]
               IN  Assert(Start(r), IsStarted(Start(r)))
  /\ UNCHANGED <<queue, current, told, authUser, worker, history, faults>>

\* The stream has been idle for kIdleTimeout.
IdleTimeout ==
  /\ remote.idle
  /\ remote' = Stop(remote)
  /\ worker' = Cancel(worker, OfStream)
  /\ UNCHANGED <<queue, current, told, authUser, history, faults>>

\* GetToken answers with a token of the account there is by now.
GetTokenAnswers ==
  /\ remote.asked
  /\ remote' = [remote EXCEPT !.asked = FALSE]
  /\ worker' = Post("token", authUser, Handshake, TRUE)
  /\ UNCHANGED <<queue, current, told, authUser, history, faults>>

GetTokenFails ==
  /\ remote.asked
  /\ Fault
  /\ remote' = [remote EXCEPT !.asked = FALSE]
  /\ worker' = Post("token", authUser, Handshake, FALSE)
  /\ UNCHANGED <<queue, current, told, authUser, history>>

-------------------------------------------------------------------------------
(* The server and the network. *)

\* The server takes a request: it shakes hands, or applies a write.
ServerTakes ==
  LET m == Head(remote.toServer)
  IN  /\ remote.toServer # <<>>
      /\ remote.ended = "no"
      /\ remote' = [remote EXCEPT !.toServer = Tail(@), !.toClient = Append(@, m)]
      /\ stored' = IF m = Handshake THEN stored
                   ELSE [stored EXCEPT ![m] = @ \cup {remote.caller}]
      /\ UNCHANGED <<queue, current, told, authUser, worker, owner, refused, faults>>

\* It refuses a write for good, which ends the call.
ServerRefuses ==
  LET m == Head(remote.toServer)
  IN  /\ remote.toServer # <<>>
      /\ m # Handshake
      /\ remote.ended = "no"
      /\ remote' = [remote EXCEPT !.ended = "refused"]
      /\ refused' = refused \cup {m}
      /\ UNCHANGED <<queue, current, told, authUser, worker, owner, stored, faults>>

\* The connection is lost, with what was on it.
Disconnect ==
  /\ IsOpen(remote)
  /\ remote.ended = "no"
  /\ Fault
  /\ remote' = [remote EXCEPT !.ended = "down", !.toServer = <<>>, !.toClient = <<>>]
  /\ UNCHANGED <<queue, current, told, authUser, worker, history>>

\* It ends the call with status OK, though the client is not done with it.
ServerEndsCall ==
  /\ IsOpen(remote)
  /\ remote.ended = "no"
  /\ Fault
  /\ remote' = [remote EXCEPT !.ended = "ok"]
  /\ UNCHANGED <<queue, current, told, authUser, worker, history>>

-------------------------------------------------------------------------------
(* The gRPC call. *)

\* The outstanding read completes with the next message.
ReadCompletes ==
  /\ remote.toClient # <<>>
  /\ ~Posted({"read", "finished"})
  /\ remote' = [remote EXCEPT !.toClient = Tail(@)]
  /\ worker' = Post("read", authUser, Head(remote.toClient), TRUE)
  /\ UNCHANGED <<queue, current, told, authUser, history, faults>>

\* An operation of the call fails: the read, when the call has ended and every
\* message is read; or a write that was sent when the call was over, behind the
\* one that was refused, which is known once every reply is there, of which the
\* outstanding read takes the first.
OperationFails ==
  /\ remote.ended # "no"
  /\ ~Posted({"failed", "finished"})
  /\ \/ remote.toClient = <<>> /\ ~Posted({"read"})
     \/ /\ \/ remote.ended = "refused" /\ Len(remote.toServer) > 1
           \/ remote.ended = "ok" /\ remote.toServer # <<>>
        /\ remote.toClient = <<>> \/ Posted({"read"})
  /\ worker' = Post("failed", authUser, Handshake, TRUE)
  /\ UNCHANGED <<queue, current, told, authUser, remote, history, faults>>

-------------------------------------------------------------------------------
(* The worker queue. *)

\* The next operation is of this kind and has not been cancelled.
Runs(kind) == worker # <<>> /\ Head(worker).kind = kind /\ Head(worker).live

RunCancelled ==
  /\ worker # <<>>
  /\ ~Head(worker).live
  /\ worker' = Tail(worker)
  /\ UNCHANGED <<queue, current, told, authUser, remote, history, faults>>

\* Mutant of RunChange: the stream of the other user goes on.
ChangeWithoutRestart ==
  /\ Runs("change")
  /\ current' = Head(worker).user
  /\ worker' = Tail(worker)
  /\ remote' = FillWritePipeline([remote EXCEPT !.pipeline = <<>>],
                                 queue[Head(worker).user])
  /\ UNCHANGED <<queue, told, authUser, history, faults>>

\* HandleCredentialChange.
RunChange ==
  LET u == Head(worker).user
  IN  /\ Runs("change")
      /\ current' = u
      /\ worker' = Cancel(Tail(worker), OfStream)
      /\ remote' = RestartNetwork(remote, queue[u])
      /\ UNCHANGED <<queue, told, authUser, history, faults>>

\* ResumeStartWithCredentials: the call is made and its OnStreamStart at once
\* opens the stream, or the stream is closed by the error.
RunToken ==
  LET r == Assert(remote, remote.state = "Starting")
  IN  /\ Runs("token")
      /\ \/ /\ Head(worker).flag
            /\ remote' = WriteHandshake([r EXCEPT !.state = "Open",
                                                  !.caller = Head(worker).user])
            /\ worker' = Tail(worker)
         \/ /\ ~Head(worker).flag
            /\ remote' = ClosedByError(CloseSteps(r, FALSE), FALSE, queue[current])
            /\ worker' = Cancel(Tail(worker), OfStream)
      /\ UNCHANGED <<queue, current, told, authUser, history, faults>>

\* OnStreamRead, first message: OnWriteStreamHandshakeComplete.
RunHandshakeRead ==
  LET r == [Assert(remote, IsStarted(remote)) EXCEPT !.handshake = TRUE]
  IN  /\ Runs("read")
      /\ ~remote.handshake
      /\ remote' = IF r.pipeline = <<>> THEN r ELSE WriteMutations(r, r.pipeline)
      /\ worker' = Tail(worker)
      /\ UNCHANGED <<queue, current, told, authUser, history, faults>>

\* OnStreamRead, a further message: OnWriteStreamMutationResult, with
\* HandleSuccessfulWrite.
RunResultRead ==
  LET r == PopFront(Assert(remote, IsStarted(remote)))
      w == Head(remote.pipeline)
      q == Remove(queue[current], w)
  IN  /\ Runs("read")
      /\ remote.handshake
      /\ NotifyUser(w, "ok")
      /\ queue' = [queue EXCEPT ![current] = q]
      /\ remote' = FillWritePipeline(Assert(r, Contains(queue[current], w)), q)
      /\ worker' = Tail(worker)
      /\ UNCHANGED <<current, authUser, history, faults>>

\* OnOperationFailed: FinishGrpcCall cancels the other completions and asks for
\* the status of the call.
RunFailed ==
  /\ Runs("failed")
  /\ worker' = Append(Cancel(Tail(worker), {"read", "failed"}),
                      [kind |-> "finished", user |-> authUser, msg |-> Handshake,
                       flag |-> remote.ended = "refused", live |-> TRUE])
  /\ UNCHANGED <<queue, current, told, authUser, remote, history, faults>>

\* OnStreamFinish of a call that ended without fault of a write in flight.
RunFinished ==
  LET r == CloseSteps(remote, FALSE)
  IN  /\ Runs("finished")
      /\ remote.ended # "ok"
      /\ ~BlamesFront(remote, Head(worker).flag)
      /\ remote' = ClosedByError(r, Head(worker).flag, queue[current])
      /\ worker' = Cancel(Tail(worker), OfStream)
      /\ UNCHANGED <<queue, current, told, authUser, history, faults>>

\* OnStreamFinish that rejects the oldest write: HandleRejectedWrite.
RunRejected ==
  LET w == Head(remote.pipeline)
      q == Remove(queue[current], w)
      r == Assert(CloseSteps(remote, FALSE), Contains(queue[current], w))
  IN  /\ Runs("finished")
      /\ remote.ended # "ok"
      /\ BlamesFront(remote, Head(worker).flag)
      /\ NotifyUser(w, "error")
      /\ queue' = [queue EXCEPT ![current] = q]
      /\ remote' = ClosedByError(r, TRUE, q)
      /\ worker' = Cancel(Tail(worker), OfStream)
      /\ UNCHANGED <<current, authUser, history, faults>>

\* OnStreamFinish with status OK, and nothing left to send: a graceful close.
RunFinishedOk ==
  LET r == CloseSteps(remote, TRUE)
  IN  /\ Runs("finished")
      /\ remote.ended = "ok"
      /\ ~ShouldStartWriteStream(r)
      /\ remote' = ClosedGracefully(r)
      /\ worker' = Cancel(Tail(worker), OfStream)
      /\ UNCHANGED <<queue, current, told, authUser, history, faults>>

\* OnStreamFinish with status OK while the stream is needed: "Write stream was
\* stopped gracefully while still needed" ends the app, which is started again.
RunAborts ==
  /\ Runs("finished")
  /\ remote.ended = "ok"
  /\ ShouldStartWriteStream(CloseSteps(remote, TRUE))
  /\ Relaunch
  /\ UNCHANGED faults

-------------------------------------------------------------------------------

Run ==
  \/ RunCancelled \/ RunChange \/ RunToken \/ RunHandshakeRead \/ RunResultRead
  \/ RunFailed \/ RunFinished \/ RunRejected \/ RunFinishedOk \/ RunAborts

Serve == ServerTakes \/ ServerRefuses

Next ==
  \/ \E w \in Writes : WriteMutationsOf(w)
  \/ \E u \in Users : AuthStateDidChange(u)
  \/ Kill \/ ConnectivityChanged \/ BackoffElapsed \/ IdleTimeout
  \/ GetTokenAnswers \/ GetTokenFails
  \/ Serve \/ Disconnect \/ ServerEndsCall \/ ReadCompletes \/ OperationFails \/ Run

Spec == Init /\ [][Next]_vars

\* Something that is due happens: a posted operation runs, a timer fires, a
\* request, a reply or an error arrives.  MaxFaults bounds the faults, so the
\* network stays up in the end; it need not be idle for the idle timer.
Fairness ==
  WF_vars(GetTokenAnswers \/ OperationFails \/ ReadCompletes \/ Serve
            \/ BackoffElapsed \/ Run)

FairSpec == Spec /\ Fairness

-------------------------------------------------------------------------------
(* What holds. *)

\* No other HARD_ASSERT of the write path fails, whatever timers, changes of
\* user, lost connections and refusals come between two operations; and
\* OnWriteStreamClose's fails of a call that ended with status OK alone, never
\* of a stream that the client stops or finds idle.
AssertionsHold == remote.sound

\* The writes in flight are the oldest of the user who is signed in, in order:
\* so the answer that pops the pipeline removes the right batch from disk.
PipelineIsPrefix ==
  /\ Len(remote.pipeline) <= MaxPending
  /\ Len(remote.pipeline) <= Len(queue[current])
  /\ remote.pipeline = SubSeq(queue[current], 1, Len(remote.pipeline))

\* A write is applied under the token of the user who issued it, though tokens
\* are fetched, and users change, while streams start and stop.
WrittenAsOwner == \A w \in Writes : stored[w] \subseteq {owner[w]}

\* What the server applies is still queued: a write that was answered is never
\* sent again, so that no older write lands on top of an answered newer one.
NothingAnsweredIsResent ==
  \A i \in DOMAIN remote.toServer :
    remote.toServer[i] # Handshake => Contains(queue[current], remote.toServer[i])

\* The writes of a user arrive in the order of issue: one is applied only when
\* each earlier one was applied before it or given up.
StoredInOrder ==
  \A v, w \in Writes :
    v < w /\ owner[v] = owner[w] /\ stored[w] # {} =>
      stored[v] # {} \/ ~Contains(queue[owner[v]], v)

\* The stream is never left stopped, idle or backing off with a write to send:
\* while the network lasts, the queue of the user who is signed in is emptied.
EventuallyAnswered == []<>(queue[current] = <<>>)

\* The answers on their way to the client.
Unread ==
  LET reads == {i \in DOMAIN worker : /\ worker[i].kind = "read"
                                      /\ worker[i].live /\ worker[i].msg # Handshake}
  IN  (IF reads = {} THEN 0 ELSE 1)
        + (IF remote.handshake THEN Len(remote.toClient) ELSE 0)

Promise == INSTANCE WriteQueue WITH
  reached <- Unread, stored <- {w \in Writes : stored[w] # {}}

\* All this machinery implements the queue that the app relies on.
ImplementsWriteQueue == Promise!Spec

-------------------------------------------------------------------------------
(* What a comment in the code says and the code does not do. *)

\* HandleWriteError says of a permanent error "the request itself was the
\* problem": a write that is rejected was refused.
RejectedWasRefused == \A w \in Writes : told[w] = "error" => w \in refused
===============================================================================
