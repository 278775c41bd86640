-------------------------- MODULE WritePipelineProofs --------------------------
(***************************************************************************)
(* Proofs about WritePipeline, for any users, any number of writes, any    *)
(* size of the pipeline and any number of faults; and that the queue on    *)
(* disk of MutationQueue only adds to it, so that they hold there too.     *)
(***************************************************************************)
EXTENDS MutationQueue, TLAPS

(* The inductive invariant. *)

Increasing(q) == \A i, j \in DOMAIN q : i < j => q[i] < q[j]

IsPrefix(s, q) == Len(s) <= Len(q) /\ \A i \in 1..Len(s) : s[i] = q[i]

\* The requests in s are the last ones of pipeline p.
IsSuffix(s, p) ==
  /\ Len(s) <= Len(p)
  /\ \A i \in 1..Len(s) : s[i] = p[Len(p) - Len(s) + i]

\* What every handler leaves as it finds it, with q the queue being sent.
Core(r, q) ==
  /\ r \in Remote
  /\ r.sound /\ r.enabled
  /\ Len(r.pipeline) <= MaxPending
  /\ IsPrefix(r.pipeline, q)
  /\ r.idle => IsOpen(r) /\ r.handshake /\ r.pipeline = <<>>
  /\ r.backoff => r.state = "Backoff"
  /\ r.asked => r.state = "Starting"
  /\ r.state \in {"Starting", "Backoff"} => r.pipeline # <<>>
  /\ ~IsOpen(r) => r.toServer = <<>> /\ r.toClient = <<>> /\ r.ended = "no"
  /\ IsOpen(r) /\ r.handshake =>
       /\ IsSuffix(r.toServer, r.pipeline)
       /\ Len(r.toServer) + Len(r.toClient) <= Len(r.pipeline)
  /\ IsOpen(r) /\ ~r.handshake =>
       /\ r.pipeline # <<>>
       /\ \A i \in DOMAIN r.toServer : r.toServer[i] = Handshake
       /\ Len(r.toServer) + Len(r.toClient) <= 1

\* What holds when no handler is at work: the stream is started if it is needed.
Settled(r, q) ==
  /\ Core(r, q)
  /\ IsStarted(r) \/ r.pipeline = <<>>
  /\ r.handshake => IsOpen(r)

\* A reply is due that is neither asked for nor on its way.
Owed(r) == Len(r.toServer) + Len(r.toClient) < IF r.handshake THEN Len(r.pipeline) ELSE 1

\* Operation i is one of these kinds and has not been cancelled.
Live(ops, i, kinds) == ops[i].live /\ ops[i].kind \in kinds

\* The operations ops fit the stream of r, for user.
OpsFit(ops, r, user) ==
  /\ \A i \in DOMAIN ops :
       Live(ops, i, {"token"}) =>
         /\ r.state = "Starting" /\ ~r.asked
         /\ ops[i].user = user \/ \E j \in 1..(i - 1) : ops[j].kind = "change"
         /\ \A j \in DOMAIN ops : Live(ops, j, {"token"}) => i = j
  /\ \A i \in DOMAIN ops : Live(ops, i, OfCall) => IsOpen(r)
  /\ \A i \in DOMAIN ops :
       Live(ops, i, {"read"}) =>
         /\ Owed(r)
         /\ \A j \in DOMAIN ops : Live(ops, j, {"read"}) => i = j

\* The operations ops end with the account the provider has, from SyncEngine's.
ChangesFit(ops, account, user) ==
  /\ \A i \in DOMAIN ops : ops[i].kind = "change" => ops[i].live
  /\ \A i \in DOMAIN ops :
       /\ ops[i].kind = "change"
       /\ \A j \in DOMAIN ops : ops[j].kind = "change" => j <= i
       => ops[i].user = account
  /\ (\A i \in DOMAIN ops : ops[i].kind # "change") => account = user

\* The call carries the token of the user whose queue is sent; and while it
\* lasts, what is in the pipeline and no longer on its way has been applied.
CallFits(r, user, st) ==
  IsOpen(r) =>
    /\ r.caller = user
    /\ r.handshake /\ r.ended = "no" =>
         \A i \in 1..(Len(r.pipeline) - Len(r.toServer)) : st[r.pipeline[i]] # {}

\* The queues are in order of issue and belong to who issued.
QueuesFit ==
  /\ \A v, w \in Writes : v < w /\ told[v] = "unissued" => told[w] = "unissued"
  /\ \A u \in Users : Increasing(queue[u])
  /\ \A u \in Users : \A i \in DOMAIN queue[u] :
       owner[queue[u][i]] = u /\ told[queue[u][i]] # "unissued"
  /\ \A w \in Writes : stored[w] # {} => told[w] # "unissued"
  /\ WrittenAsOwner
  /\ StoredInOrder

IInv ==
  /\ TypeOK
  /\ Settled(remote, queue[current])
  /\ OpsFit(worker, remote, current)
  /\ ChangesFit(worker, authUser, current)
  /\ CallFits(remote, current, stored)
  /\ QueuesFit

-------------------------------------------------------------------------------
(* Reading on in the queue. *)

USE UsersAssumption, MaxWritesAssumption, MaxPendingAssumption, MaxFaultsAssumption

LEMMA SubSeqIs ==
  ASSUME NEW S, NEW q \in Seq(S), NEW a \in 1..(Len(q) + 1), NEW b \in (a - 1)..Len(q)
  PROVE  /\ SubSeq(q, a, b) \in Seq(S)
         /\ Len(SubSeq(q, a, b)) = b - a + 1
         /\ \A i \in 1..(b - a + 1) : SubSeq(q, a, b)[i] = q[a + i - 1]
  OBVIOUS

LEMMA ConcatIs ==
  ASSUME NEW S, NEW s \in Seq(S), NEW t \in Seq(S)
  PROVE  /\ s \o t \in Seq(S)
         /\ Len(s \o t) = Len(s) + Len(t)
         /\ \A i \in 1..Len(s) : (s \o t)[i] = s[i]
         /\ \A i \in 1..Len(t) : (s \o t)[Len(s) + i] = t[i]
  OBVIOUS

\* A prefix that goes on with the next elements of the queue.
LEMMA PrefixGrows ==
  ASSUME NEW q \in Seq(Writes), NEW p \in Seq(Writes), IsPrefix(p, q),
         NEW next \in Seq(Writes), Len(p) + Len(next) <= Len(q),
         \A i \in 1..Len(next) : next[i] = q[Len(p) + i]
  PROVE  /\ IsPrefix(p \o next, q)
         /\ p \o next \in Seq(Writes)
         /\ Len(p \o next) = Len(p) + Len(next)
<1> DEFINE m == Len(next)
<1>1. /\ p \o next \in Seq(Writes) /\ Len(p \o next) = Len(p) + m
      /\ \A i \in 1..Len(p) : (p \o next)[i] = p[i]
      /\ \A i \in 1..m : (p \o next)[Len(p) + i] = next[i]
  BY ConcatIs
<1>2. ASSUME NEW i \in 1..(Len(p) + m) PROVE (p \o next)[i] = q[i]
  <2>1. CASE i <= Len(p)
    BY <1>1, <2>1 DEF IsPrefix
  <2>2. CASE i > Len(p)
    <3>1. i - Len(p) \in 1..m /\ i = Len(p) + (i - Len(p))
      BY <2>2
    <3> QED
      BY <1>1, <3>1
  <2> QED
    BY <2>1, <2>2
<1> QED
  BY <1>1, <1>2 DEF IsPrefix

\* After finds the writes that follow a prefix of an increasing queue.
LEMMA AfterPrefix ==
  ASSUME NEW q \in Seq(Writes), NEW p \in Seq(Writes), Increasing(q), IsPrefix(p, q)
  PROVE  After(q, IF p = <<>> THEN 0 ELSE p[Len(p)]) = SubSeq(q, Len(p) + 1, Len(q))
<1> DEFINE w == IF p = <<>> THEN 0 ELSE p[Len(p)]
           Splits(k) == \A i \in 1..Len(q) : i <= k <=> q[i] <= w
<1>0. Len(p) \in 0..Len(q) /\ Len(q) \in Nat
  BY DEF IsPrefix
<1>1. \A i \in 1..Len(q) : q[i] \in Nat /\ q[i] > 0
  BY DEF Writes
<1>2. Splits(Len(p))
  <2>1. CASE p = <<>>
    BY <1>0, <1>1, <2>1
  <2>2. CASE p # <<>>
    <3>1. w = q[Len(p)] /\ Len(p) \in 1..Len(q)
      BY <1>0, <2>2 DEF IsPrefix
    <3> QED
      BY <1>0, <1>1, <3>1 DEF Increasing
  <2> QED
    BY <2>1, <2>2
<1>3. \A k \in 0..Len(q) : Splits(k) => k = Len(p)
  <2> SUFFICES ASSUME NEW k \in 0..Len(q), Splits(k), k # Len(p) PROVE FALSE
    OBVIOUS
  <2>1. CASE k < Len(p)
    BY <1>0, <1>2, <2>1
  <2>2. CASE Len(p) < k
    BY <1>0, <1>2, <2>2
  <2> QED
    BY <1>0, <2>1, <2>2
<1> HIDE DEF w
<1>4. (CHOOSE k \in 0..Len(q) : Splits(k)) = Len(p)
  BY <1>0, <1>2, <1>3
<1>5. After(q, w) = SubSeq(q, Len(p) + 1, Len(q))
  BY <1>4 DEF After
<1> QED
  BY <1>5 DEF w

\* What FillWritePipeline adds goes on with the prefix, and has room.
LEMMA NextWritesFollow ==
  ASSUME NEW r \in Remote, NEW q \in Seq(Writes), Increasing(q),
         IsPrefix(r.pipeline, q), Len(r.pipeline) <= MaxPending
  PROVE  /\ NextWrites(r, q) \in Seq(Writes)
         /\ IsPrefix(r.pipeline \o NextWrites(r, q), q)
         /\ Len(r.pipeline \o NextWrites(r, q)) <= MaxPending
<1>1. PICK p \in Seq(Writes) :
        /\ p = r.pipeline
        /\ Len(p) \in 0..Len(q) /\ Len(p) \in 0..MaxPending /\ IsPrefix(p, q)
  <2>1. r.pipeline \in Seq(Writes)
    BY DEF Remote
  <2>2. Len(r.pipeline) \in 0..Len(q) /\ Len(r.pipeline) \in 0..MaxPending
    BY <2>1 DEF IsPrefix
  <2> QED
    BY <2>1, <2>2
<1>2. Len(q) \in Nat
  OBVIOUS
<1> DEFINE room == IF r.enabled /\ Len(p) < MaxPending THEN MaxPending - Len(p) ELSE 0
           rest == SubSeq(q, Len(p) + 1, Len(q))
           m    == IF Len(rest) < room THEN Len(rest) ELSE room
<1>3. room \in 0..(MaxPending - Len(p))
  BY <1>1
<1>4. /\ rest \in Seq(Writes) /\ Len(rest) = Len(q) - Len(p)
      /\ \A i \in 1..Len(rest) : rest[i] = q[Len(p) + i]
  <2>1. Len(p) + 1 \in 1..(Len(q) + 1) /\ Len(q) \in (Len(p) + 1 - 1)..Len(q)
    BY <1>1, <1>2
  <2>2. /\ rest \in Seq(Writes)
        /\ Len(rest) = Len(q) - (Len(p) + 1) + 1
        /\ \A i \in 1..(Len(q) - (Len(p) + 1) + 1) : rest[i] = q[Len(p) + 1 + i - 1]
    BY <2>1, SubSeqIs
  <2> HIDE DEF rest
  <2>3. Len(q) - (Len(p) + 1) + 1 = Len(q) - Len(p)
    BY <1>1, <1>2
  <2>4. \A i \in 1..Len(rest) : Len(p) + 1 + i - 1 = Len(p) + i
    BY <1>1, <2>2
  <2> QED
    BY <2>2, <2>3, <2>4
<1>5. m \in 0..Len(rest) /\ m <= room
  <2> HIDE DEF room, rest
  <2> QED
    BY <1>1, <1>2, <1>3, <1>4
<1>6. NextWrites(r, q) = SubSeq(rest, 1, m)
  <2>1. After(q, LastPending(r)) = rest
    BY <1>1, AfterPrefix DEF LastPending
  <2> QED
    BY <1>1, <2>1 DEF NextWrites
<1> HIDE DEF room, rest, m
<1>7. /\ NextWrites(r, q) \in Seq(Writes) /\ Len(NextWrites(r, q)) = m
      /\ \A i \in 1..m : NextWrites(r, q)[i] = q[Len(p) + i]
  <2>1. 1 \in 1..(Len(rest) + 1) /\ m \in (1 - 1)..Len(rest)
    BY <1>4, <1>5
  <2>2. /\ SubSeq(rest, 1, m) \in Seq(Writes)
        /\ Len(SubSeq(rest, 1, m)) = m - 1 + 1
        /\ \A i \in 1..(m - 1 + 1) : SubSeq(rest, 1, m)[i] = rest[1 + i - 1]
    BY <1>4, <2>1, SubSeqIs
  <2> QED
    BY <1>4, <1>5, <1>6, <2>2
<1>8. m \in 0..(Len(q) - Len(p)) /\ Len(p) + m <= MaxPending
  BY <1>1, <1>2, <1>3, <1>4, <1>5
<1>9. /\ IsPrefix(p \o NextWrites(r, q), q)
      /\ Len(p \o NextWrites(r, q)) = Len(p) + m
  <2>1. \A i \in 1..m : NextWrites(r, q)[i] = q[Len(p) + i]
    BY <1>4, <1>5, <1>7
  <2>2. Len(p) + Len(NextWrites(r, q)) <= Len(q)
    BY <1>1, <1>2, <1>7, <1>8
  <2> QED
    BY <1>1, <1>7, <1>8, <2>1, <2>2, PrefixGrows
<1> QED
  BY <1>1, <1>7, <1>8, <1>9

-------------------------------------------------------------------------------
(* The handlers. *)

USE DEF IsOpen, IsStarted, Assert, States, Ended

\* StartIfNeeded leaves the stream started if it is needed, and the rest alone.
LEMMA StartsIfNeeded ==
  ASSUME NEW q \in Seq(Writes), NEW r, Core(r, q), NEW s, s = StartIfNeeded(r)
  PROVE  /\ Core(s, q)
         /\ IsStarted(s) \/ s.pipeline = <<>>
         /\ IsStarted(r) => s = r
         /\ ~IsOpen(r) => ~IsOpen(s)
         /\ s.caller = r.caller
         /\ s.handshake = r.handshake /\ s.pipeline = r.pipeline
<1>1. CASE ~ShouldStartWriteStream(r)
  BY <1>1 DEF StartIfNeeded, ShouldStartWriteStream, Core
<1>2. CASE ShouldStartWriteStream(r) /\ r.state = "Error"
  <2>1. s = [r EXCEPT !.sound = @ /\ TRUE, !.state = "Backoff", !.backoff = TRUE]
    BY <1>2 DEF StartIfNeeded, Start, BackoffAndTryRestarting
  <2> QED
    BY <1>2, <2>1 DEF Core, Remote, ShouldStartWriteStream
<1>3. CASE ShouldStartWriteStream(r) /\ r.state # "Error"
  <2>1. r.state = "Initial"
    BY <1>3 DEF Core, Remote, ShouldStartWriteStream
  <2>2. s = [r EXCEPT !.sound = @ /\ TRUE, !.state = "Starting", !.asked = TRUE]
    BY <1>3, <2>1 DEF StartIfNeeded, Start
  <2> QED
    BY <1>3, <2>1, <2>2 DEF Core, Remote, ShouldStartWriteStream
<1> QED
  BY <1>1, <1>2, <1>3

\* What is added to a pipeline and sent is at the end of both.
LEMMA SuffixGrows ==
  ASSUME NEW s \in Seq(Messages), NEW p \in Seq(Writes), NEW next \in Seq(Writes),
         IsSuffix(s, p)
  PROVE  /\ s \o next \in Seq(Messages)
         /\ Len(s \o next) = Len(s) + Len(next)
         /\ IsSuffix(s \o next, p \o next)
<1>1. next \in Seq(Messages)
  BY DEF Messages
<1>2. /\ s \o next \in Seq(Messages) /\ Len(s \o next) = Len(s) + Len(next)
      /\ \A i \in 1..Len(s) : (s \o next)[i] = s[i]
      /\ \A i \in 1..Len(next) : (s \o next)[Len(s) + i] = next[i]
  BY <1>1, ConcatIs
<1>3. /\ Len(p \o next) = Len(p) + Len(next)
      /\ \A i \in 1..Len(p) : (p \o next)[i] = p[i]
      /\ \A i \in 1..Len(next) : (p \o next)[Len(p) + i] = next[i]
  BY ConcatIs
<1>4. Len(s) \in Nat /\ Len(p) \in Nat /\ Len(next) \in Nat /\ Len(s) <= Len(p)
  BY DEF IsSuffix
<1>5. ASSUME NEW i \in 1..(Len(s) + Len(next))
      PROVE  (s \o next)[i] = (p \o next)[Len(p) - Len(s) + i]
  <2>1. CASE i <= Len(s)
    <3>1. Len(p) - Len(s) + i \in 1..Len(p) /\ i \in 1..Len(s)
      BY <1>4, <2>1
    <3> QED
      BY <1>2, <1>3, <3>1 DEF IsSuffix
  <2>2. CASE i > Len(s)
    <3>1. /\ i - Len(s) \in 1..Len(next)
          /\ Len(s) + (i - Len(s)) = i
          /\ Len(p) + (i - Len(s)) = Len(p) - Len(s) + i
      BY <1>4, <2>2
    <3> QED
      BY <1>2, <1>3, <3>1
  <2> QED
    BY <1>4, <2>1, <2>2
<1>6. Len(p) + Len(next) - (Len(s) + Len(next)) = Len(p) - Len(s)
  BY <1>4
<1> QED
  BY <1>2, <1>3, <1>4, <1>5, <1>6 DEF IsSuffix

\* What filling the pipeline makes of r.
FilledFrom(f, r, q) ==
  /\ Core(f, q)
  /\ IsStarted(f) \/ f.pipeline = <<>>
  /\ IsStarted(r) => f.state = r.state /\ f.asked = r.asked
  /\ ~IsOpen(r) => ~IsOpen(f)
  /\ f.caller = r.caller /\ f.handshake = r.handshake
  /\ IsOpen(r) => f.toClient = r.toClient /\ f.ended = r.ended
  /\ IsOpen(r) /\ ~r.handshake => f.toServer = r.toServer
  /\ IsOpen(r) /\ r.handshake =>
       Len(f.toServer) + Len(r.pipeline) = Len(r.toServer) + Len(f.pipeline)

\* FillWritePipeline keeps what it finds in order.
LEMMA Fills ==
  ASSUME NEW q \in Seq(Writes), Increasing(q), NEW r, Core(r, q),
         NEW f, f = FillWritePipeline(r, q)
  PROVE  FilledFrom(f, r, q)
<1> DEFINE next   == NextWrites(r, q)
           filled == [r EXCEPT !.pipeline = @ \o next]
           sent   == WriteMutations(filled, next)
<1>1. /\ r \in Remote /\ r.pipeline \in Seq(Writes) /\ r.toServer \in Seq(Messages)
      /\ next \in Seq(Writes)
      /\ r.pipeline \o next \in Seq(Writes)
      /\ IsPrefix(r.pipeline \o next, q)
      /\ Len(r.pipeline \o next) <= MaxPending
      /\ Len(r.pipeline \o next) = Len(r.pipeline) + Len(next)
  <2>1. r \in Remote /\ IsPrefix(r.pipeline, q) /\ Len(r.pipeline) <= MaxPending
    BY DEF Core
  <2>2. r.pipeline \in Seq(Writes) /\ r.toServer \in Seq(Messages)
    BY <2>1 DEF Remote
  <2>3. /\ next \in Seq(Writes)
        /\ IsPrefix(r.pipeline \o next, q) /\ Len(r.pipeline \o next) <= MaxPending
    BY <2>1, NextWritesFollow
  <2> QED
    BY <2>1, <2>2, <2>3, ConcatIs
<1> HIDE DEF next
<1>2. CASE next # <<>> /\ IsOpen(r) /\ r.handshake
  <2>1. f = StartIfNeeded(sent)
    BY <1>2 DEF FillWritePipeline, next
  <2>2. /\ r.toServer \o next \in Seq(Messages)
        /\ Len(r.toServer \o next) = Len(r.toServer) + Len(next)
        /\ IsSuffix(r.toServer \o next, r.pipeline \o next)
    BY <1>1, <1>2, SuffixGrows DEF Core
  <2>3. sent = [r EXCEPT !.pipeline = @ \o next, !.sound = TRUE, !.idle = FALSE,
                         !.toServer = @ \o next]
    BY <1>1, <1>2 DEF WriteMutations, Send, Core, Remote
  <2>4. Len(next) \in Nat /\ Len(r.toClient) \in Nat /\ Len(r.pipeline) \in Nat
        /\ Len(r.toServer) \in Nat
    BY <1>1 DEF Remote
  <2> HIDE DEF sent
  <2>5. sent \in Remote
    BY <1>1, <2>2, <2>3 DEF Remote
  <2>6. /\ sent.state = "Open" /\ sent.handshake /\ sent.enabled /\ ~sent.idle
        /\ sent.sound /\ sent.backoff = r.backoff /\ sent.asked = r.asked
        /\ sent.pipeline = r.pipeline \o next /\ sent.toServer = r.toServer \o next
        /\ sent.toClient = r.toClient /\ sent.caller = r.caller /\ sent.ended = r.ended
    <3>1. r.state = "Open" /\ r.handshake /\ r.enabled
      BY <1>2 DEF Core
    <3> QED
      BY <1>1, <2>3, <3>1 DEF Remote
  <2>7. Len(r.toServer) + Len(r.toClient) <= Len(r.pipeline)
    BY <1>2 DEF Core
  <2>8. Len(sent.toServer) + Len(sent.toClient) <= Len(sent.pipeline)
    <3>1. /\ Len(sent.toServer) = Len(r.toServer) + Len(next)
          /\ Len(sent.pipeline) = Len(r.pipeline) + Len(next)
          /\ Len(sent.toClient) = Len(r.toClient)
      BY <1>1, <2>2, <2>6
    <3>2. \A a, b, c, d \in Nat : a + b <= c => (a + d) + b <= c + d
      OBVIOUS
    <3> QED
      BY <2>4, <2>7, <3>1, <3>2, Zenon
  <2>9. Core(sent, q)
    <3>1. r.state = "Open" /\ ~r.backoff /\ ~r.asked
      BY <1>2 DEF Core
    <3> QED
      BY <1>1, <2>2, <2>5, <2>6, <2>8, <3>1 DEF Core
  <2>10. IsStarted(sent)
    BY <2>6
  <2>11. f = sent
    BY <2>1, <2>5, <2>9, <2>10, StartsIfNeeded
  <2>12. Len(sent.toServer) + Len(r.pipeline) = Len(r.toServer) + Len(sent.pipeline)
    <3>1. /\ Len(sent.toServer) = Len(r.toServer) + Len(next)
          /\ Len(sent.pipeline) = Len(r.pipeline) + Len(next)
      BY <1>1, <2>2, <2>6
    <3>2. \A a, b, d \in Nat : (a + d) + b = a + (b + d)
      OBVIOUS
    <3>3. (Len(r.toServer) + Len(next)) + Len(r.pipeline)
            = Len(r.toServer) + (Len(r.pipeline) + Len(next))
      <4>1. PICK a \in Nat, b \in Nat, d \in Nat :
              a = Len(r.toServer) /\ b = Len(r.pipeline) /\ d = Len(next)
        BY <2>4, Zenon
      <4>2. (a + d) + b = a + (b + d)
        OBVIOUS
      <4> QED
        BY <4>1, <4>2, Zenon
    <3> QED
      BY <3>1, <3>3, Zenon
  <2> QED
    BY <1>2, <2>6, <2>9, <2>10, <2>11, <2>12 DEF FilledFrom
<1>3. CASE next = <<>> /\ r.enabled /\ r.pipeline = <<>>
  <2>1. f = StartIfNeeded(MarkIdle(r))
    BY <1>3 DEF FillWritePipeline, next
  <2>2. MarkIdle(r) = [r EXCEPT !.idle = @ \/ IsOpen(r)]
    BY DEF MarkIdle
  <2>3. Core(MarkIdle(r), q)
    BY <1>3, <2>2 DEF Core, Remote
  <2> QED
    <3>1. PICK m : m = MarkIdle(r)
      OBVIOUS
    <3>2. /\ m.state = r.state /\ m.asked = r.asked /\ m.caller = r.caller
          /\ m.handshake = r.handshake /\ m.toClient = r.toClient
          /\ m.toServer = r.toServer /\ m.ended = r.ended /\ m.pipeline = r.pipeline
      BY <1>1, <2>2, <3>1 DEF Remote
    <3>3. /\ Core(f, q)
          /\ IsStarted(f) \/ f.pipeline = <<>>
          /\ IsStarted(m) => f = m
          /\ ~IsOpen(m) => ~IsOpen(f)
          /\ f.caller = m.caller /\ f.handshake = m.handshake
      BY <2>1, <2>3, <3>1, StartsIfNeeded
    <3> QED
      BY <1>3, <3>2, <3>3 DEF FilledFrom
<1>4. CASE ~(next # <<>> /\ IsOpen(r) /\ r.handshake) /\ ~(next = <<>> /\ r.enabled /\ r.pipeline = <<>>)
  <2>1. f = StartIfNeeded(filled)
    BY <1>4 DEF FillWritePipeline, next
  <2>2. r.pipeline # <<>> \/ (next # <<>> /\ ~(IsOpen(r) /\ r.handshake))
    BY <1>4 DEF Core
  <2>3. r.pipeline \o next # <<>>
    BY <1>1, <2>2
  <2>4. ASSUME IsOpen(r), r.handshake PROVE filled = r
    <3>1. r.pipeline \o next = r.pipeline
      BY <1>1, <1>4, <2>4
    <3> QED
      BY <1>1, <3>1 DEF Remote
  <2>5. Core(filled, q)
    <3>1. CASE IsOpen(r) /\ r.handshake
      BY <3>1, <2>4
    <3>2. CASE ~(IsOpen(r) /\ r.handshake)
      BY <1>1, <2>3, <3>2 DEF Core, Remote
    <3> QED
      BY <3>1, <3>2
  <2>6. /\ filled.state = r.state /\ filled.asked = r.asked /\ filled.caller = r.caller
        /\ filled.handshake = r.handshake /\ filled.toClient = r.toClient
        /\ filled.toServer = r.toServer /\ filled.ended = r.ended
    BY <1>1 DEF Remote
  <2> HIDE DEF filled
  <2>7. /\ Core(f, q)
        /\ IsStarted(f) \/ f.pipeline = <<>>
        /\ IsStarted(filled) => f = filled
        /\ ~IsOpen(filled) => ~IsOpen(f)
        /\ f.caller = filled.caller /\ f.handshake = filled.handshake
    BY <2>1, <2>5, StartsIfNeeded
  <2>8. Len(r.toServer) \in Nat /\ Len(r.pipeline) \in Nat
    BY <1>1
  <2> QED
    BY <2>4, <2>6, <2>7, <2>8 DEF FilledFrom
<1> QED
  BY <1>2, <1>3, <1>4

\* What was applied of a call's pipeline stays in front of what is added to it.
LEMMA FillsFitCall ==
  ASSUME NEW q \in Seq(Writes), NEW r, Core(r, q), NEW f, FilledFrom(f, r, q),
         NEW user, NEW st, CallFits(r, user, st)
  PROVE  CallFits(f, user, st)
<1>1. CASE ~IsOpen(r)
  BY <1>1 DEF FilledFrom, CallFits
<1>2. CASE IsOpen(r) /\ ~r.handshake
  BY <1>2 DEF FilledFrom, CallFits
<1>3. CASE IsOpen(r) /\ r.handshake
  <2>1. /\ f.caller = user /\ f.ended = r.ended /\ f.handshake
        /\ Len(f.toServer) + Len(r.pipeline) = Len(r.toServer) + Len(f.pipeline)
        /\ IsPrefix(f.pipeline, q) /\ IsPrefix(r.pipeline, q)
        /\ f \in Remote /\ r \in Remote
    BY <1>3 DEF FilledFrom, CallFits, Core
  <2>2. PICK a \in Nat, b \in Nat, c \in Nat, d \in Nat :
          /\ a = Len(r.toServer) /\ b = Len(r.pipeline)
          /\ c = Len(f.toServer) /\ d = Len(f.pipeline)
    BY <2>1 DEF Remote
  <2>3. c + b = a + d
    BY <2>1, <2>2, Zenon
  <2>4. d - c = b - a
    BY <2>3
  <2>5. ASSUME r.ended = "no", NEW i \in 1..(d - c) PROVE st[f.pipeline[i]] # {}
    <3>1. i \in 1..(b - a) /\ i \in 1..b /\ i \in 1..d
      BY <2>4
    <3>2. f.pipeline[i] = q[i] /\ r.pipeline[i] = q[i]
      BY <2>1, <2>2, <3>1, Zenon DEF IsPrefix
    <3>3. st[r.pipeline[i]] # {}
      BY <1>3, <2>2, <2>5, <3>1 DEF CallFits
    <3> QED
      BY <3>2, <3>3
  <2> QED
    BY <2>1, <2>2, <2>5 DEF CallFits
<1> QED
  BY <1>1, <1>2, <1>3

\* A stream without timers, token and call, and with nothing in flight.
Idle(r) ==
  /\ r \in Remote
  /\ r.state = "Initial" /\ r.sound /\ ~r.handshake
  /\ ~r.idle /\ ~r.backoff /\ ~r.asked
  /\ r.pipeline = <<>> /\ r.toServer = <<>> /\ r.toClient = <<>> /\ r.ended = "no"

\* From there, a filled pipeline is settled, and no call is open yet.
LEMMA FillsFromIdle ==
  ASSUME NEW q \in Seq(Writes), Increasing(q), NEW r, Idle(r), r.enabled
  PROVE  /\ Settled(FillWritePipeline(r, q), q)
         /\ ~IsOpen(FillWritePipeline(r, q))
<1>1. Core(r, q)
  BY DEF Idle, Core, IsPrefix
<1>2. PICK f : f = FillWritePipeline(r, q)
  OBVIOUS
<1>3. FilledFrom(f, r, q)
  BY <1>1, <1>2, Fills, Zenon
<1> QED
  BY <1>2, <1>3 DEF FilledFrom, Idle, Settled

LEMMA FreshIsIdle == Idle(Fresh) /\ Fresh.enabled
<1>1. (CHOOSE u \in Users : TRUE) \in Users
  OBVIOUS
<1>2. <<>> \in Seq(Writes) /\ <<>> \in Seq(Messages)
  OBVIOUS
<1> QED
  BY <1>1, <1>2 DEF Idle, Fresh, Remote

\* Closing a started stream fails no assertion and leaves the pipeline.
LEMMA Closes ==
  ASSUME NEW r \in Remote, IsStarted(r), NEW graceful \in BOOLEAN,
         NEW c, c = CloseSteps(r, graceful)
  PROVE  /\ c \in Remote
         /\ c.state = IF graceful THEN "Initial" ELSE "Error"
         /\ c.sound = r.sound /\ c.enabled = r.enabled /\ c.handshake = r.handshake
         /\ c.pipeline = r.pipeline
         /\ ~c.idle /\ ~c.backoff /\ ~c.asked
         /\ c.toServer = <<>> /\ c.toClient = <<>> /\ c.ended = "no"
<1>1. <<>> \in Seq(Messages)
  OBVIOUS
<1> QED
  BY <1>1 DEF CloseSteps, Remote

\* A stream that has nothing to send closes gracefully.
LEMMA ClosesWhenEmpty ==
  ASSUME NEW q \in Seq(Writes), NEW r, Settled(r, q), IsStarted(r), r.pipeline = <<>>,
         NEW d, d = ClosedGracefully(CloseSteps(r, TRUE))
  PROVE  Settled(d, q) /\ ~IsOpen(d)
<1>1. r \in Remote /\ IsStarted(r) /\ r.pipeline = <<>> /\ r.sound /\ r.enabled
  BY DEF Settled, Core
<1>2. PICK c : c = CloseSteps(r, TRUE)
  OBVIOUS
<1>3. /\ c \in Remote /\ c.state = "Initial" /\ c.sound /\ c.enabled
      /\ c.pipeline = <<>> /\ ~c.idle /\ ~c.backoff /\ ~c.asked
      /\ c.toServer = <<>> /\ c.toClient = <<>> /\ c.ended = "no"
  BY <1>1, <1>2, Closes
<1>4. d = [c EXCEPT !.sound = TRUE, !.handshake = FALSE]
  <2>1. PICK a : a = [c EXCEPT !.sound = TRUE]
    OBVIOUS
  <2>2. Assert(c, ~ShouldStartWriteStream(c)) = a
    BY <1>3, <2>1 DEF ShouldStartWriteStream
  <2>3. StartIfNeeded(a) = a
    BY <1>3, <2>1 DEF StartIfNeeded, ShouldStartWriteStream, Remote
  <2>4. d = [a EXCEPT !.handshake = FALSE]
    BY <1>2, <2>2, <2>3 DEF ClosedGracefully
  <2> QED
    BY <1>3, <2>1, <2>4 DEF Remote
<1>5. Idle(d) /\ d.enabled
  BY <1>3, <1>4 DEF Idle, Remote
<1> QED
  BY <1>5 DEF Idle, Settled, Core, IsPrefix

\* The idle timer stops a stream that has nothing to send.
LEMMA StopsWhenIdle ==
  ASSUME NEW q \in Seq(Writes), NEW r, Settled(r, q), r.idle
  PROVE  Settled(Stop(r), q) /\ ~IsOpen(Stop(r))
<1>1. IsStarted(r) /\ r.pipeline = <<>>
  BY DEF Settled, Core
<1>2. Stop(r) = ClosedGracefully(CloseSteps(r, TRUE))
  BY <1>1 DEF Stop
<1> QED
  BY <1>1, <1>2, ClosesWhenEmpty

\* RestartNetwork starts over with the queue q, whatever was under way.
LEMMA Restarts ==
  ASSUME NEW q0 \in Seq(Writes), NEW q \in Seq(Writes), Increasing(q), NEW r, Settled(r, q0)
  PROVE  /\ Settled(RestartNetwork(r, q), q)
         /\ ~IsOpen(RestartNetwork(r, q))
<1> DEFINE quiet == [r EXCEPT !.enabled = FALSE]
           off   == InhibitBackoff(DisableNetworkInternal(r))
           on    == [off EXCEPT !.enabled = TRUE]
<1>1. r \in Remote /\ r.sound
  BY DEF Settled, Core
<1>2. /\ quiet \in Remote /\ quiet.sound /\ ~quiet.enabled /\ quiet.state = r.state
      /\ quiet.handshake = r.handshake /\ IsStarted(quiet) = IsStarted(r)
      /\ quiet.idle = r.idle /\ quiet.backoff = r.backoff /\ quiet.asked = r.asked
      /\ quiet.toServer = r.toServer /\ quiet.toClient = r.toClient
      /\ quiet.ended = r.ended
  BY <1>1 DEF Remote
<1>3. DisableNetworkInternal(r) = [Stop(quiet) EXCEPT !.pipeline = <<>>]
  BY DEF DisableNetworkInternal
<1> HIDE DEF quiet
<1>4. /\ Stop(quiet) \in Remote /\ Stop(quiet).sound
      /\ Stop(quiet).state \in {"Initial", "Error"}
      /\ ~Stop(quiet).handshake
      /\ ~Stop(quiet).idle /\ ~Stop(quiet).backoff /\ ~Stop(quiet).asked
      /\ Stop(quiet).toServer = <<>> /\ Stop(quiet).toClient = <<>>
      /\ Stop(quiet).ended = "no"
  <2>1. CASE IsStarted(quiet)
    <3>1. PICK c : c = CloseSteps(quiet, TRUE)
      OBVIOUS
    <3>2. /\ c \in Remote /\ c.state = "Initial"
          /\ c.sound = quiet.sound /\ c.enabled = quiet.enabled
          /\ ~c.idle /\ ~c.backoff /\ ~c.asked
          /\ c.toServer = <<>> /\ c.toClient = <<>> /\ c.ended = "no"
      <4>1. quiet \in Remote /\ TRUE \in BOOLEAN
        BY <1>2
      <4> QED
        BY <2>1, <3>1, <4>1, Closes
    <3>3. PICK a : a = [c EXCEPT !.sound = TRUE]
      OBVIOUS
    <3>4. Assert(c, ~ShouldStartWriteStream(c)) = a
      BY <1>2, <3>2, <3>3 DEF ShouldStartWriteStream
    <3>5. StartIfNeeded(a) = a
      BY <1>2, <3>2, <3>3 DEF StartIfNeeded, ShouldStartWriteStream, Remote
    <3>6. Stop(quiet) = [a EXCEPT !.handshake = FALSE]
      BY <2>1, <3>1, <3>4, <3>5 DEF Stop, ClosedGracefully
    <3> QED
      BY <3>2, <3>3, <3>6 DEF Remote
  <2>2. CASE ~IsStarted(quiet)
    <3>1. Stop(quiet) = quiet
      BY <2>2 DEF Stop
    <3>2. r.state \in {"Initial", "Error"}
      BY <1>1, <1>2, <2>2 DEF Remote
    <3> QED
      BY <1>2, <2>2, <3>1, <3>2 DEF Settled, Core
  <2> QED
    BY <2>1, <2>2
<1>5. off = [Stop(quiet) EXCEPT !.pipeline = <<>>, !.sound = @ /\ TRUE, !.state = "Initial"]
  BY <1>3, <1>4 DEF InhibitBackoff, Remote
<1> HIDE DEF off
<1>6. <<>> \in Seq(Writes)
  OBVIOUS
<1>7. Idle(on) /\ on.enabled
  BY <1>4, <1>5, <1>6 DEF Idle, Remote
<1>8. RestartNetwork(r, q) = FillWritePipeline(on, q)
  BY DEF RestartNetwork, off
<1> HIDE DEF on
<1> QED
  BY <1>7, <1>8, FillsFromIdle

\* What Close leaves of a stream that failed.
Broken(r) ==
  /\ r \in Remote
  /\ r.state = "Error" /\ r.sound /\ r.enabled
  /\ ~r.idle /\ ~r.backoff /\ ~r.asked
  /\ Len(r.pipeline) <= MaxPending
  /\ r.toServer = <<>> /\ r.toClient = <<>> /\ r.ended = "no"

LEMMA Breaks ==
  ASSUME NEW q \in Seq(Writes), NEW r, Settled(r, q), IsStarted(r), NEW a \in Remote,
         \/ a = r
         \/ a = Assert(r, r.state = "Starting") /\ r.state = "Starting"
  PROVE  /\ Broken(CloseSteps(a, FALSE))
         /\ CloseSteps(a, FALSE).handshake = r.handshake
         /\ CloseSteps(a, FALSE).pipeline = r.pipeline
<1>1. /\ r \in Remote /\ r.sound /\ r.enabled /\ Len(r.pipeline) <= MaxPending
  BY DEF Settled, Core
<1>2. /\ a.sound /\ a.enabled /\ a.pipeline = r.pipeline /\ a.handshake = r.handshake
      /\ a.state = r.state
  BY <1>1 DEF Remote
<1>3. PICK c : c = CloseSteps(a, FALSE)
  OBVIOUS
<1>4. /\ c \in Remote
      /\ c.state = IF FALSE THEN "Initial" ELSE "Error"
      /\ c.sound = a.sound /\ c.enabled = a.enabled /\ c.handshake = a.handshake
      /\ c.pipeline = a.pipeline
      /\ ~c.idle /\ ~c.backoff /\ ~c.asked
      /\ c.toServer = <<>> /\ c.toClient = <<>> /\ c.ended = "no"
  <2>1. FALSE \in BOOLEAN /\ IsStarted(a)
    BY <1>2
  <2> QED
    BY <1>3, <2>1, Closes
<1> QED
  BY <1>1, <1>2, <1>3, <1>4 DEF Broken

\* At the end of NotifyStreamClose the handshake is forgotten.
LEMMA Forgets ==
  ASSUME NEW q \in Seq(Writes), NEW r, Core(r, q), ~IsOpen(r), IsStarted(r) \/ r.pipeline = <<>>
  PROVE  /\ Settled([r EXCEPT !.handshake = FALSE], q)
         /\ ~IsOpen([r EXCEPT !.handshake = FALSE])
  BY DEF Settled, Core, Remote

\* OnWriteStreamClose after an error leaves the stream settled, with the oldest
\* write given up or not.
LEMMA RecoversFromError ==
  ASSUME NEW q \in Seq(Writes), Increasing(q), NEW r, Broken(r), NEW permanent \in BOOLEAN,
         BlamesFront(r, permanent) => IsPrefix(Tail(r.pipeline), q),
         ~BlamesFront(r, permanent) => IsPrefix(r.pipeline, q)
  PROVE  /\ Settled(ClosedByError(r, permanent, q), q)
         /\ ~IsOpen(ClosedByError(r, permanent, q))
<1>1. CASE ~BlamesFront(r, permanent)
  <2>1. Core(r, q)
    BY <1>1 DEF Broken, Core
  <2>2. ~IsOpen(r)
    BY DEF Broken
  <2>3. PICK s : s = StartIfNeeded(r)
    OBVIOUS
  <2>4. /\ Core(s, q)
        /\ IsStarted(s) \/ s.pipeline = <<>>
        /\ ~IsOpen(r) => ~IsOpen(s)
    <3> HIDE DEF IsOpen, IsStarted, Assert, States, Ended
    <3> QED
      BY <2>1, <2>3, StartsIfNeeded
  <2>5. ClosedByError(r, permanent, q) = [s EXCEPT !.handshake = FALSE]
    BY <1>1, <2>3 DEF ClosedByError
  <2> QED
    BY <2>2, <2>4, <2>5, Forgets
<1>2. CASE BlamesFront(r, permanent)
  <2>1. r.pipeline # <<>> /\ r \in Remote /\ r.pipeline \in Seq(Writes)
    BY <1>2 DEF BlamesFront, Broken, Remote
  <2>2. PICK p : p = InhibitBackoff(PopFront(r))
    OBVIOUS
  <2>3. p = [r EXCEPT !.sound = TRUE, !.pipeline = Tail(@), !.state = "Initial"]
    BY <2>1, <2>2 DEF InhibitBackoff, PopFront, Broken, Remote
  <2>4. Tail(r.pipeline) \in Seq(Writes) /\ Len(Tail(r.pipeline)) = Len(r.pipeline) - 1
    BY <2>1
  <2>5. Core(p, q) /\ ~IsOpen(p)
    <3>1. p \in Remote
      BY <2>1, <2>3, <2>4 DEF Remote
    <3>2. /\ p.state = "Initial" /\ p.sound /\ p.pipeline = Tail(r.pipeline)
          /\ p.enabled = r.enabled /\ p.idle = r.idle /\ p.backoff = r.backoff
          /\ p.asked = r.asked /\ p.toServer = r.toServer /\ p.toClient = r.toClient
          /\ p.ended = r.ended
      BY <2>1, <2>3 DEF Remote
    <3>3. Len(p.pipeline) <= MaxPending
      BY <2>1, <2>4, <3>2 DEF Broken
    <3> QED
      BY <1>2, <3>1, <3>2, <3>3 DEF Core, Broken
  <2>6. PICK f : f = FillWritePipeline(p, q)
    OBVIOUS
  <2>7. Core(f, q) /\ ~IsOpen(f)
    <3>1. FilledFrom(f, p, q)
      BY <2>5, <2>6, Fills, Zenon
    <3> QED
      BY <2>5, <3>1 DEF FilledFrom
  <2>8. PICK s : s = StartIfNeeded(f)
    OBVIOUS
  <2>9. /\ Core(s, q)
        /\ IsStarted(s) \/ s.pipeline = <<>>
        /\ ~IsOpen(f) => ~IsOpen(s)
    <3> HIDE DEF IsOpen, IsStarted, Assert, States, Ended
    <3> QED
      BY <2>7, <2>8, StartsIfNeeded
  <2>10. ClosedByError(r, permanent, q) = [s EXCEPT !.handshake = FALSE]
    BY <1>2, <2>2, <2>6, <2>8 DEF ClosedByError
  <2> QED
    BY <2>7, <2>9, <2>10, Forgets
<1> QED
  BY <1>1, <1>2

-------------------------------------------------------------------------------
(* The worker queue. *)

LEMMA TailIs ==
  ASSUME NEW S, NEW s \in Seq(S), s # <<>>
  PROVE  /\ Tail(s) \in Seq(S) /\ Head(s) \in S /\ Head(s) = s[1]
         /\ Len(s) \in Nat /\ Len(s) > 0 /\ Len(Tail(s)) = Len(s) - 1
         /\ \A i \in 1..(Len(s) - 1) : Tail(s)[i] = s[i + 1]
  OBVIOUS

LEMMA AppendIs ==
  ASSUME NEW S, NEW s \in Seq(S), NEW e \in S
  PROVE  /\ Append(s, e) \in Seq(S)
         /\ Len(s) \in Nat /\ Len(Append(s, e)) = Len(s) + 1
         /\ \A i \in 1..Len(s) : Append(s, e)[i] = s[i]
         /\ Append(s, e)[Len(s) + 1] = e
  OBVIOUS

LEMMA CancelIs ==
  ASSUME NEW ops \in Seq(Op), NEW kinds
  PROVE  /\ Cancel(ops, kinds) \in Seq(Op)
         /\ DOMAIN Cancel(ops, kinds) = DOMAIN ops
         /\ \A i \in DOMAIN ops :
              /\ Cancel(ops, kinds)[i].kind = ops[i].kind
              /\ Cancel(ops, kinds)[i].user = ops[i].user
              /\ Cancel(ops, kinds)[i].live = (ops[i].live /\ ops[i].kind \notin kinds)
<1>1. ASSUME NEW i \in DOMAIN ops
      PROVE  /\ Cancel(ops, kinds)[i] \in Op
             /\ Cancel(ops, kinds)[i].kind = ops[i].kind
             /\ Cancel(ops, kinds)[i].user = ops[i].user
             /\ Cancel(ops, kinds)[i].live = (ops[i].live /\ ops[i].kind \notin kinds)
  <2>1. ops[i] \in Op
    OBVIOUS
  <2>2. Cancel(ops, kinds)[i] = [ops[i] EXCEPT !.live = @ /\ ops[i].kind \notin kinds]
    BY DEF Cancel
  <2> QED
    BY <2>1, <2>2 DEF Op
<1>2. DOMAIN Cancel(ops, kinds) = 1..Len(ops) /\ DOMAIN ops = 1..Len(ops) /\ Len(ops) \in Nat
  BY DEF Cancel
<1>3. Cancel(ops, kinds) \in [1..Len(ops) -> Op]
  <2>1. Cancel(ops, kinds) = [i \in 1..Len(ops) |-> Cancel(ops, kinds)[i]]
    BY <1>2 DEF Cancel
  <2> QED
    BY <1>1, <1>2, <2>1
<1> QED
  BY <1>1, <1>2, <1>3

\* Once the operations of the stream are void, the rest fits any stream.
LEMMA VoidOpsFit ==
  ASSUME NEW ops \in Seq(Op), NEW r, NEW user
  PROVE  OpsFit(Cancel(ops, OfStream), r, user)
<1>1. \A i \in DOMAIN Cancel(ops, OfStream) :
        ~(Cancel(ops, OfStream)[i].live /\ Cancel(ops, OfStream)[i].kind \in OfStream)
  BY CancelIs
<1> QED
  BY <1>1 DEF OpsFit, Live, OfStream, OfCall

\* A stream that stays as far as it was suits the same operations.
LEMMA OpsFitOn ==
  ASSUME NEW ops, NEW r, NEW s, NEW user, OpsFit(ops, r, user),
         r.state = "Starting" /\ ~r.asked => s.state = "Starting" /\ ~s.asked,
         IsOpen(r) => IsOpen(s),
         IsOpen(r) /\ Owed(r) => Owed(s)
  PROVE  OpsFit(ops, s, user)
<1>1. \A i : Live(ops, i, {"read"}) => Live(ops, i, OfCall)
  BY DEF Live, OfCall
<1> HIDE DEF IsOpen
<1> QED
  BY <1>1 DEF OpsFit

\* The operations that are left after the first one still fit.
LEMMA TailFits ==
  ASSUME NEW ops \in Seq(Op), ops # <<>>, Head(ops).kind # "change",
         NEW r, NEW user, OpsFit(ops, r, user)
  PROVE  /\ OpsFit(Tail(ops), r, user)
         /\ Live(ops, 1, {"token"}) => \A i \in DOMAIN Tail(ops) : ~Live(Tail(ops), i, {"token"})
         /\ Live(ops, 1, {"read"}) => \A i \in DOMAIN Tail(ops) : ~Live(Tail(ops), i, {"read"})
<1>1. /\ Tail(ops) \in Seq(Op) /\ Head(ops) = ops[1] /\ Len(ops) \in Nat /\ Len(ops) > 0
      /\ Len(Tail(ops)) = Len(ops) - 1
      /\ \A i \in 1..(Len(ops) - 1) : Tail(ops)[i] = ops[i + 1]
  BY TailIs
<1>2. DOMAIN Tail(ops) = 1..(Len(ops) - 1) /\ DOMAIN ops = 1..Len(ops)
  BY <1>1
<1>3. /\ \A i \in DOMAIN Tail(ops) : i + 1 \in DOMAIN ops /\ i \in Nat /\ i + 1 # 1
      /\ 1 \in DOMAIN ops
  BY <1>1, <1>2
<1>4. \A i \in DOMAIN Tail(ops) : \A kinds : Live(Tail(ops), i, kinds) <=> Live(ops, i + 1, kinds)
  BY <1>1, <1>2 DEF Live
<1>5. ASSUME NEW i \in DOMAIN Tail(ops), Live(Tail(ops), i, {"token"})
      PROVE  /\ r.state = "Starting" /\ ~r.asked
             /\ Tail(ops)[i].user = user \/ \E j \in 1..(i - 1) : Tail(ops)[j].kind = "change"
             /\ \A j \in DOMAIN Tail(ops) : Live(Tail(ops), j, {"token"}) => i = j
  <2>1. /\ r.state = "Starting" /\ ~r.asked
        /\ ops[i + 1].user = user \/ \E j \in 1..(i + 1 - 1) : ops[j].kind = "change"
        /\ \A j \in DOMAIN ops : Live(ops, j, {"token"}) => i + 1 = j
    BY <1>3, <1>4, <1>5 DEF OpsFit
  <2>2. CASE \E j \in 1..(i + 1 - 1) : ops[j].kind = "change"
    <3>1. PICK j \in 1..(i + 1 - 1) : ops[j].kind = "change"
      BY <2>2
    <3>2. j # 1
      BY <1>1, <3>1
    <3>3. j - 1 \in 1..(i - 1) /\ j - 1 \in 1..(Len(ops) - 1) /\ (j - 1) + 1 = j
      BY <1>1, <1>2, <3>1, <3>2
    <3>4. Tail(ops)[j - 1].kind = "change"
      BY <1>1, <3>1, <3>3
    <3>5. \A k \in DOMAIN Tail(ops) : Live(Tail(ops), k, {"token"}) => i = k
      BY <1>3, <1>4, <2>1
    <3> QED
      BY <2>1, <3>3, <3>4, <3>5
  <2>3. CASE ops[i + 1].user = user
    <3>1. Tail(ops)[i].user = user
      BY <1>1, <1>2, <2>3
    <3>2. \A k \in DOMAIN Tail(ops) : Live(Tail(ops), k, {"token"}) => i = k
      BY <1>3, <1>4, <2>1
    <3> QED
      BY <2>1, <3>1, <3>2
  <2> QED
    BY <2>1, <2>2, <2>3
<1>6. \A i \in DOMAIN Tail(ops) : Live(Tail(ops), i, OfCall) => IsOpen(r)
  BY <1>3, <1>4 DEF OpsFit
<1>7. \A i \in DOMAIN Tail(ops) :
        Live(Tail(ops), i, {"read"}) =>
          /\ Owed(r)
          /\ \A j \in DOMAIN Tail(ops) : Live(Tail(ops), j, {"read"}) => i = j
  BY <1>3, <1>4 DEF OpsFit
<1>8. OpsFit(Tail(ops), r, user)
  BY <1>5, <1>6, <1>7 DEF OpsFit
<1>9. ASSUME Live(ops, 1, {"token"}), NEW i \in DOMAIN Tail(ops)
      PROVE  ~Live(Tail(ops), i, {"token"})
  BY <1>3, <1>4, <1>9 DEF OpsFit
<1>10. ASSUME Live(ops, 1, {"read"}), NEW i \in DOMAIN Tail(ops)
      PROVE  ~Live(Tail(ops), i, {"read"})
  BY <1>3, <1>4, <1>10 DEF OpsFit
<1> QED
  BY <1>8, <1>9, <1>10

\* An operation that is posted fits if it fits alone.
LEMMA PostFits ==
  ASSUME NEW ops \in Seq(Op), NEW r, NEW user, OpsFit(ops, r, user),
         NEW e \in Op,
         e.kind = "token" =>
           /\ r.state = "Starting" /\ ~r.asked
           /\ e.user = user \/ \E j \in DOMAIN ops : ops[j].kind = "change"
           /\ \A i \in DOMAIN ops : ~Live(ops, i, {"token"}),
         e.kind \in OfCall => IsOpen(r),
         e.kind = "read" => Owed(r) /\ \A i \in DOMAIN ops : ~Live(ops, i, {"read"})
  PROVE  OpsFit(Append(ops, e), r, user)
<1> DEFINE all == Append(ops, e)
           n   == Len(ops) + 1
<1>1. /\ all \in Seq(Op) /\ Len(ops) \in Nat /\ Len(all) = n
      /\ \A i \in 1..Len(ops) : all[i] = ops[i]
      /\ all[n] = e
  BY AppendIs
<1>2. DOMAIN all = 1..n /\ DOMAIN ops = 1..Len(ops)
  BY <1>1
<1>3. \A i \in DOMAIN all : (i \in DOMAIN ops /\ i # n /\ i <= Len(ops)) \/ i = n
  BY <1>1, <1>2
<1>4. /\ \A i \in DOMAIN ops : \A kinds : Live(all, i, kinds) <=> Live(ops, i, kinds)
      /\ \A kinds : Live(all, n, kinds) => e.kind \in kinds
  BY <1>1, <1>2 DEF Live
<1> HIDE DEF all
<1>5. ASSUME NEW i \in DOMAIN all, Live(all, i, {"token"})
      PROVE  /\ r.state = "Starting" /\ ~r.asked
             /\ all[i].user = user \/ \E j \in 1..(i - 1) : all[j].kind = "change"
             /\ \A j \in DOMAIN all : Live(all, j, {"token"}) => i = j
  <2>1. CASE i \in DOMAIN ops
    <3>1. /\ r.state = "Starting" /\ ~r.asked
          /\ ops[i].user = user \/ \E j \in 1..(i - 1) : ops[j].kind = "change"
          /\ \A j \in DOMAIN ops : Live(ops, j, {"token"}) => i = j
      BY <1>4, <1>5, <2>1 DEF OpsFit
    <3>2. all[i].user = user \/ \E j \in 1..(i - 1) : all[j].kind = "change"
      <4>1. \A j \in 1..(i - 1) : j \in 1..Len(ops)
        BY <1>1, <1>2, <2>1
      <4> QED
        BY <1>1, <1>2, <2>1, <3>1, <4>1
    <3>3. e.kind # "token"
      BY <1>4, <1>5, <2>1
    <3> QED
      BY <1>3, <1>4, <3>1, <3>2, <3>3
  <2>2. CASE i = n
    <3>1. e.kind = "token"
      BY <1>4, <1>5, <2>2
    <3>2. all[i].user = user \/ \E j \in 1..(i - 1) : all[j].kind = "change"
      <4>1. n - 1 = Len(ops)
        BY <1>1
      <4> HIDE DEF n
      <4> QED
        BY <1>1, <1>2, <2>2, <3>1, <4>1
    <3>3. \A j \in DOMAIN all : Live(all, j, {"token"}) => i = j
      BY <1>3, <1>4, <2>2, <3>1
    <3> QED
      BY <3>1, <3>2, <3>3
  <2> QED
    BY <1>3, <1>5, <2>1, <2>2
<1>6. \A i \in DOMAIN all : Live(all, i, OfCall) => IsOpen(r)
  <2> HIDE DEF n, IsOpen
  <2> QED
    BY <1>3, <1>4 DEF OpsFit
<1>7. ASSUME NEW i \in DOMAIN all, Live(all, i, {"read"})
      PROVE  /\ Owed(r)
             /\ \A j \in DOMAIN all : Live(all, j, {"read"}) => i = j
  <2> HIDE DEF n
  <2>1. CASE i = n
    BY <1>3, <1>4, <1>7, <2>1
  <2>2. CASE i \in DOMAIN ops
    BY <1>3, <1>4, <1>7, <2>2 DEF OpsFit
  <2> QED
    BY <1>3, <2>1, <2>2
<1> HIDE DEF n
<1>8. OpsFit(all, r, user)
  BY <1>5, <1>6, <1>7 DEF OpsFit
<1> QED
  BY <1>8 DEF all

\* Changes of user: cancelling the operations of the stream does not touch them.
LEMMA ChangesCancel ==
  ASSUME NEW ops \in Seq(Op), NEW account, NEW user, NEW kinds, "change" \notin kinds,
         ChangesFit(ops, account, user)
  PROVE  ChangesFit(Cancel(ops, kinds), account, user)
<1>1. /\ DOMAIN Cancel(ops, kinds) = DOMAIN ops
      /\ \A i \in DOMAIN ops :
           /\ Cancel(ops, kinds)[i].kind = ops[i].kind
           /\ Cancel(ops, kinds)[i].user = ops[i].user
           /\ Cancel(ops, kinds)[i].live = (ops[i].live /\ ops[i].kind \notin kinds)
  BY CancelIs
<1>2. \A i \in DOMAIN ops : ops[i].kind = "change" => Cancel(ops, kinds)[i].live = ops[i].live
  <2> SUFFICES ASSUME NEW i \in DOMAIN ops, ops[i].kind = "change"
               PROVE  Cancel(ops, kinds)[i].live = ops[i].live
    OBVIOUS
  <2>1. ops[i] \in Op
    OBVIOUS
  <2>2. ops[i].live \in BOOLEAN
    BY <2>1 DEF Op
  <2> QED
    BY <1>1, <2>2
<1> DEFINE now == Cancel(ops, kinds)
<1>3. /\ DOMAIN now = DOMAIN ops
      /\ \A i \in DOMAIN ops : now[i].kind = ops[i].kind /\ now[i].user = ops[i].user
      /\ \A i \in DOMAIN ops : ops[i].kind = "change" => now[i].live = ops[i].live
  BY <1>1, <1>2
<1> HIDE DEF now
<1>4. ChangesFit(now, account, user)
  BY <1>3 DEF ChangesFit
<1> QED
  BY <1>4 DEF now

\* Running the first operation: a change of user is then no longer outstanding.
LEMMA ChangesTail ==
  ASSUME NEW ops \in Seq(Op), ops # <<>>, NEW account, NEW user,
         ChangesFit(ops, account, user)
  PROVE  ChangesFit(Tail(ops), account,
                    IF Head(ops).kind = "change" THEN Head(ops).user ELSE user)
<1> DEFINE now == IF Head(ops).kind = "change" THEN Head(ops).user ELSE user
<1>1. /\ Head(ops) = ops[1] /\ Len(ops) \in Nat /\ Len(ops) > 0
      /\ DOMAIN Tail(ops) = 1..(Len(ops) - 1) /\ DOMAIN ops = 1..Len(ops)
      /\ \A i \in 1..(Len(ops) - 1) : Tail(ops)[i] = ops[i + 1]
  BY TailIs
<1>2. \A i \in DOMAIN Tail(ops) : i + 1 \in DOMAIN ops /\ i \in Nat
  BY <1>1
<1>3. \A i \in DOMAIN ops : i # 1 => i - 1 \in DOMAIN Tail(ops) /\ (i - 1) + 1 = i
  BY <1>1
<1>4. \A i \in DOMAIN Tail(ops) : Tail(ops)[i].kind = "change" => Tail(ops)[i].live
  BY <1>1, <1>2 DEF ChangesFit
<1>5. ASSUME NEW i \in DOMAIN Tail(ops), Tail(ops)[i].kind = "change",
             \A j \in DOMAIN Tail(ops) : Tail(ops)[j].kind = "change" => j <= i
      PROVE  Tail(ops)[i].user = account
  <2>1. i + 1 \in DOMAIN ops /\ ops[i + 1].kind = "change"
    BY <1>1, <1>2, <1>5
  <2>2. ASSUME NEW j \in DOMAIN ops, ops[j].kind = "change" PROVE j <= i + 1
    <3>1. CASE j = 1
      BY <1>2, <3>1
    <3>2. CASE j # 1
      <4>1. j - 1 \in DOMAIN Tail(ops) /\ (j - 1) + 1 = j
        BY <1>3, <3>2
      <4>2. Tail(ops)[j - 1].kind = "change"
        BY <1>1, <2>2, <4>1
      <4>3. j - 1 <= i
        BY <1>5, <4>1, <4>2
      <4> QED
        BY <1>1, <1>2, <4>3
    <3> QED
      BY <3>1, <3>2
  <2>3. ops[i + 1].user = account
    BY <2>1, <2>2 DEF ChangesFit
  <2> QED
    BY <1>1, <2>3
<1>6. ASSUME \A i \in DOMAIN Tail(ops) : Tail(ops)[i].kind # "change"
      PROVE  account = now
  <2>1. \A i \in DOMAIN ops : ops[i].kind = "change" => i = 1
    <3> SUFFICES ASSUME NEW i \in DOMAIN ops, ops[i].kind = "change", i # 1 PROVE FALSE
      OBVIOUS
    <3>1. i - 1 \in DOMAIN Tail(ops) /\ (i - 1) + 1 = i
      BY <1>3
    <3>2. Tail(ops)[i - 1].kind = "change"
      BY <1>1, <3>1
    <3> QED
      BY <1>6, <3>1, <3>2
  <2>2. 1 \in DOMAIN ops
    BY <1>1
  <2>3. CASE Head(ops).kind = "change"
    <3>1. ops[1].kind = "change" /\ \A j \in DOMAIN ops : ops[j].kind = "change" => j <= 1
      BY <1>1, <2>1, <2>3
    <3> QED
      BY <1>1, <2>2, <2>3, <3>1 DEF ChangesFit
  <2>4. CASE Head(ops).kind # "change"
    <3>1. \A i \in DOMAIN ops : ops[i].kind # "change"
      BY <1>1, <2>1, <2>4
    <3> QED
      BY <2>4, <3>1 DEF ChangesFit
  <2> QED
    BY <2>3, <2>4
<1> HIDE DEF now
<1>7. ChangesFit(Tail(ops), account, now)
  BY <1>4, <1>5, <1>6 DEF ChangesFit
<1> QED
  BY <1>7 DEF now

\* Posting an operation: a change of user sets the account.
LEMMA ChangesPost ==
  ASSUME NEW ops \in Seq(Op), NEW account, NEW user, ChangesFit(ops, account, user),
         NEW e \in Op, e.live
  PROVE  ChangesFit(Append(ops, e), IF e.kind = "change" THEN e.user ELSE account, user)
<1> DEFINE all == Append(ops, e)
           n   == Len(ops) + 1
<1>1. /\ Len(ops) \in Nat /\ DOMAIN all = 1..n /\ DOMAIN ops = 1..Len(ops)
      /\ \A i \in 1..Len(ops) : all[i] = ops[i]
      /\ all[n] = e
  BY AppendIs
<1>2. \A i \in DOMAIN all : (i \in DOMAIN ops /\ i < n) \/ i = n
  BY <1>1
<1>3. n \in DOMAIN all /\ \A i \in DOMAIN ops : i \in DOMAIN all /\ i \in Nat /\ ~(n <= i)
  BY <1>1
<1>4. n \in Nat
  BY <1>1
<1> HIDE DEF all, n
<1>5. CASE e.kind = "change"
  <2>1. \A i \in DOMAIN all :
          (\A j \in DOMAIN all : all[j].kind = "change" => j <= i) => i = n
    BY <1>1, <1>2, <1>3, <1>5
  <2>2. \A i \in DOMAIN all : all[i].kind = "change" => all[i].live
    BY <1>1, <1>2 DEF ChangesFit
  <2>3. ChangesFit(all, e.user, user)
    BY <1>1, <1>3, <1>5, <2>1, <2>2 DEF ChangesFit
  <2> QED
    BY <1>5, <2>3 DEF all
<1>6. CASE e.kind # "change"
  <2>1. \A i \in DOMAIN all : all[i].kind = "change" => i \in DOMAIN ops /\ all[i] = ops[i]
    BY <1>1, <1>2, <1>6
  <2>2. \A i \in DOMAIN ops : i \in DOMAIN all /\ all[i] = ops[i]
    BY <1>1, <1>3
  <2>3. ChangesFit(all, account, user)
    BY <2>1, <2>2 DEF ChangesFit
  <2> QED
    BY <1>6, <2>3 DEF all
<1> QED
  BY <1>5, <1>6

-------------------------------------------------------------------------------
(* The invariant holds at first and after every step. *)

\* A step that leaves the queues and the histories as they are.
QueuesStay == UNCHANGED <<queue, told, owner, stored>>

LEMMA QueuesStayFit ==
  ASSUME QueuesFit, QueuesStay
  PROVE  QueuesFit'
BY DEF QueuesFit, QueuesStay, WrittenAsOwner, StoredInOrder

LEMMA FaultCounts ==
  ASSUME TypeOK, Fault
  PROVE  faults' \in 0..MaxFaults
BY DEF TypeOK, Fault

LEMMA InitIInv ==
  ASSUME Init
  PROVE  IInv
<1>1. Settled(remote, queue[current])
  BY FreshIsIdle DEF Init, Idle, Settled, Core, IsPrefix
<1>2. TypeOK
  BY FreshIsIdle DEF Init, TypeOK, Idle
<1>3. OpsFit(worker, remote, current) /\ ChangesFit(worker, authUser, current)
  BY DEF Init, OpsFit, ChangesFit, Live
<1>4. CallFits(remote, current, stored)
  BY DEF Init, CallFits, Fresh
<1>5. QueuesFit
  BY DEF Init, QueuesFit, WrittenAsOwner, StoredInOrder, Increasing
<1> QED
  BY <1>1, <1>2, <1>3, <1>4, <1>5 DEF IInv

LEMMA AuthStateDidChangeIInv ==
  ASSUME IInv, NEW u \in Users, AuthStateDidChange(u)
  PROVE  IInv'
<1>1. PICK e \in Op : worker' = Append(worker, e) /\ e.kind = "change" /\ e.user = u /\ e.live
  <2>1. [kind |-> "change", user |-> u, msg |-> Handshake, flag |-> TRUE, live |-> TRUE] \in Op
    BY DEF Op, Kinds, Messages
  <2> QED
    BY <2>1 DEF AuthStateDidChange, Post
<1>2. TypeOK /\ worker \in Seq(Op)
  BY DEF IInv, TypeOK
<1>3. TypeOK'
  <2>1. worker' \in Seq(Op)
    BY <1>1, <1>2, AppendIs
  <2>2. faults' \in 0..MaxFaults
    BY <1>2, FaultCounts DEF AuthStateDidChange
  <2> QED
    BY <1>2, <2>1, <2>2 DEF TypeOK, AuthStateDidChange, history
<1>4. Settled(remote', queue'[current'])
  BY DEF IInv, AuthStateDidChange
<1>5. OpsFit(worker', remote', current')
  <2>1. OpsFit(worker, remote, current)
    BY DEF IInv
  <2>2. e.kind \notin OfStream
    BY <1>1 DEF OfStream, OfCall
  <2>3. OpsFit(Append(worker, e), remote, current)
    BY <1>1, <1>2, <2>1, <2>2, PostFits DEF OfStream, OfCall
  <2> QED
    BY <1>1, <2>3 DEF AuthStateDidChange
<1>6. ChangesFit(worker', authUser', current')
  BY <1>1, <1>2, ChangesPost DEF IInv, AuthStateDidChange
<1>7. CallFits(remote', current', stored')
  BY DEF IInv, AuthStateDidChange, history
<1>8. QueuesFit'
  BY QueuesStayFit DEF IInv, AuthStateDidChange, history, QueuesStay
<1> QED
  BY <1>3, <1>4, <1>5, <1>6, <1>7, <1>8 DEF IInv

\* The app starts again, killed or after a failed assertion.
LEMMA RelaunchIInv ==
  ASSUME IInv, Relaunch, faults' \in 0..MaxFaults
  PROVE  IInv' /\ ~IsOpen(remote')
<1>1. TypeOK /\ QueuesFit /\ Settled(remote, queue[current])
  BY DEF IInv
<1>2. queue[authUser] \in Seq(Writes) /\ Increasing(queue[authUser])
  BY <1>1 DEF TypeOK, QueuesFit
<1>3. PICK f : f = FillWritePipeline(Fresh, queue[authUser])
  OBVIOUS
<1>4. Settled(f, queue[authUser]) /\ ~IsOpen(f)
  BY <1>2, <1>3, FillsFromIdle, FreshIsIdle
<1>5. remote' = f
  <2>1. remote' = [f EXCEPT !.sound = @ /\ remote.sound]
    BY <1>3 DEF Relaunch
  <2>2. f \in Remote /\ f.sound /\ remote.sound
    BY <1>1, <1>4 DEF Settled, Core
  <2> QED
    BY <2>1, <2>2 DEF Remote
<1>6. TypeOK'
  <2>1. remote' \in Remote
    BY <1>4, <1>5 DEF Settled, Core
  <2> QED
    BY <1>1, <2>1 DEF TypeOK, Relaunch, history
<1>7. Settled(remote', queue'[current'])
  BY <1>4, <1>5 DEF Relaunch
<1>8. OpsFit(worker', remote', current') /\ ChangesFit(worker', authUser', current')
  BY DEF Relaunch, OpsFit, ChangesFit, Live
<1>9. CallFits(remote', current', stored')
  BY <1>4, <1>5 DEF CallFits
<1>10. QueuesFit'
  <2>1. \A w \in Writes : told'[w] = "unissued" <=> told[w] = "unissued"
    BY <1>1 DEF Relaunch, TypeOK
  <2>2. UNCHANGED <<queue, owner, stored>>
    BY DEF Relaunch, history
  <2>3. \A u \in Users : \A i \in DOMAIN queue[u] : queue[u][i] \in Writes
    BY <1>1 DEF TypeOK
  <2> QED
    BY <1>1, <2>1, <2>2, <2>3 DEF QueuesFit, WrittenAsOwner, StoredInOrder
<1> QED
  BY <1>4, <1>5, <1>6, <1>7, <1>8, <1>9, <1>10 DEF IInv

LEMMA KillIInv ==
  ASSUME IInv, Kill
  PROVE  IInv' /\ ~IsOpen(remote')
<1>1. TypeOK
  BY DEF IInv
<1> QED
  BY <1>1, FaultCounts, RelaunchIInv DEF Kill

LEMMA ConnectivityChangedIInv ==
  ASSUME IInv, ConnectivityChanged
  PROVE  IInv' /\ ~IsOpen(remote')
<1>1. /\ TypeOK /\ QueuesFit /\ Settled(remote, queue[current])
      /\ ChangesFit(worker, authUser, current)
  BY DEF IInv
<1>2. /\ queue[current] \in Seq(Writes) /\ Increasing(queue[current])
      /\ worker \in Seq(Op)
  BY <1>1 DEF TypeOK, QueuesFit
<1>3. Settled(remote', queue[current]) /\ ~IsOpen(remote')
  BY <1>1, <1>2, Restarts DEF ConnectivityChanged
<1>4. worker' = Cancel(worker, OfStream) /\ "change" \notin OfStream
  BY DEF ConnectivityChanged, OfStream, OfCall
<1>5. TypeOK'
  <2>1. faults' \in 0..MaxFaults
    BY <1>1, FaultCounts DEF ConnectivityChanged
  <2>2. remote' \in Remote /\ worker' \in Seq(Op)
    BY <1>2, <1>3, <1>4, CancelIs DEF Settled, Core
  <2> QED
    BY <1>1, <2>1, <2>2 DEF TypeOK, ConnectivityChanged, history
<1>6. Settled(remote', queue'[current'])
  BY <1>3 DEF ConnectivityChanged
<1>7. OpsFit(worker', remote', current')
  BY <1>2, <1>4, VoidOpsFit
<1>8. ChangesFit(worker', authUser', current')
  BY <1>1, <1>2, <1>4, ChangesCancel DEF ConnectivityChanged
<1>9. CallFits(remote', current', stored')
  BY <1>3 DEF CallFits
<1>10. QueuesFit'
  BY <1>1, QueuesStayFit DEF ConnectivityChanged, history, QueuesStay
<1> QED
  BY <1>3, <1>5, <1>6, <1>7, <1>8, <1>9, <1>10 DEF IInv

LEMMA BackoffElapsedIInv ==
  ASSUME IInv, BackoffElapsed
  PROVE  IInv' /\ ~IsOpen(remote')
<1>1. /\ TypeOK /\ QueuesFit /\ Settled(remote, queue[current])
      /\ ChangesFit(worker, authUser, current)
      /\ OpsFit(worker, remote, current) /\ CallFits(remote, current, stored)
  BY DEF IInv
<1>2. remote.backoff /\ remote.state = "Backoff" /\ remote \in Remote /\ remote.sound
  BY <1>1 DEF BackoffElapsed, Settled, Core
<1>3. remote' = [remote EXCEPT !.backoff = FALSE, !.state = "Starting", !.asked = TRUE]
  <2>1. PICK r : r = [Assert(remote, remote.state = "Backoff")
                        EXCEPT !.backoff = FALSE, !.state = "Initial"]
    OBVIOUS
  <2>2. r = [remote EXCEPT !.backoff = FALSE, !.state = "Initial"]
    BY <1>2, <2>1 DEF Remote
  <2>3. PICK s : s = Start(r)
    OBVIOUS
  <2>4. s = [r EXCEPT !.state = "Starting", !.asked = TRUE]
    BY <1>2, <2>2, <2>3 DEF Start, Remote
  <2>5. remote' = Assert(s, IsStarted(s))
    BY <2>1, <2>3 DEF BackoffElapsed
  <2> QED
    BY <1>2, <2>2, <2>4, <2>5 DEF Remote
<1>4. Settled(remote', queue[current])
  BY <1>1, <1>2, <1>3 DEF Settled, Core, Remote
<1>5. TypeOK'
  <2>1. remote' \in Remote
    BY <1>4 DEF Settled, Core
  <2> QED
    BY <1>1, <2>1 DEF TypeOK, BackoffElapsed, history
<1>6. OpsFit(worker', remote', current')
  <2>1. OpsFit(worker, remote', current)
    BY <1>1, <1>2, OpsFitOn
  <2> QED
    BY <2>1 DEF BackoffElapsed
<1>7. CallFits(remote', current', stored')
  BY <1>2, <1>3 DEF CallFits, Remote
<1>8. QueuesFit'
  BY <1>1, QueuesStayFit DEF BackoffElapsed, history, QueuesStay
<1>9. ~IsOpen(remote')
  BY <1>2, <1>3 DEF Remote
<1> QED
  BY <1>1, <1>4, <1>5, <1>6, <1>7, <1>8, <1>9 DEF IInv, BackoffElapsed

LEMMA IdleTimeoutIInv ==
  ASSUME IInv, IdleTimeout
  PROVE  IInv' /\ ~IsOpen(remote')
<1>1. /\ TypeOK /\ QueuesFit /\ Settled(remote, queue[current])
      /\ ChangesFit(worker, authUser, current)
  BY DEF IInv
<1>2. /\ queue[current] \in Seq(Writes) /\ worker \in Seq(Op)
  BY <1>1 DEF TypeOK
<1>3. Settled(remote', queue[current]) /\ ~IsOpen(remote')
  BY <1>1, <1>2, StopsWhenIdle DEF IdleTimeout
<1>4. worker' = Cancel(worker, OfStream) /\ "change" \notin OfStream
  BY DEF IdleTimeout, OfStream, OfCall
<1>5. TypeOK'
  <2>1. remote' \in Remote /\ worker' \in Seq(Op)
    BY <1>2, <1>3, <1>4, CancelIs DEF Settled, Core
  <2> QED
    BY <1>1, <2>1 DEF TypeOK, IdleTimeout, history
<1>6. Settled(remote', queue'[current'])
  BY <1>3 DEF IdleTimeout
<1>7. OpsFit(worker', remote', current')
  BY <1>2, <1>4, VoidOpsFit
<1>8. ChangesFit(worker', authUser', current')
  BY <1>1, <1>2, <1>4, ChangesCancel DEF IdleTimeout
<1>9. CallFits(remote', current', stored')
  BY <1>3 DEF CallFits
<1>10. QueuesFit'
  BY <1>1, QueuesStayFit DEF IdleTimeout, history, QueuesStay
<1> QED
  BY <1>3, <1>5, <1>6, <1>7, <1>8, <1>9, <1>10 DEF IInv

\* GetToken answers, with a token or an error.
TokenAnswer(flag) ==
  /\ remote.asked
  /\ remote' = [remote EXCEPT !.asked = FALSE]
  /\ worker' = Post("token", authUser, Handshake, flag)
  /\ UNCHANGED <<queue, current, told, authUser, history>>
  /\ faults' \in 0..MaxFaults

LEMMA TokenAnswerIInv ==
  ASSUME IInv, NEW flag \in BOOLEAN, TokenAnswer(flag)
  PROVE  IInv'
<1>1. /\ TypeOK /\ QueuesFit /\ Settled(remote, queue[current])
      /\ ChangesFit(worker, authUser, current)
      /\ OpsFit(worker, remote, current) /\ CallFits(remote, current, stored)
  BY DEF IInv
<1>2. PICK e \in Op : /\ worker' = Append(worker, e)
                      /\ e.kind = "token" /\ e.user = authUser /\ e.live
  <2>1. [kind |-> "token", user |-> authUser, msg |-> Handshake, flag |-> flag,
         live |-> TRUE] \in Op
    BY <1>1 DEF Op, Kinds, Messages, TypeOK
  <2> QED
    BY <2>1 DEF TokenAnswer, Post
<1>3. worker \in Seq(Op) /\ authUser \in Users
  BY <1>1 DEF TypeOK
<1>4. remote.asked /\ remote.state = "Starting" /\ remote \in Remote
  BY <1>1 DEF TokenAnswer, Settled, Core
<1>5. remote' = [remote EXCEPT !.asked = FALSE]
  BY DEF TokenAnswer
<1>6. Settled(remote', queue[current]) /\ remote'.state = "Starting" /\ ~remote'.asked
  BY <1>1, <1>4, <1>5 DEF Settled, Core, Remote
<1>7. TypeOK'
  <2>1. remote' \in Remote
    BY <1>6 DEF Settled, Core
  <2>2. worker' \in Seq(Op)
    BY <1>2, <1>3, AppendIs
  <2> QED
    BY <1>1, <2>1, <2>2 DEF TypeOK, TokenAnswer, history
<1>8. OpsFit(worker', remote', current')
  <2>1. OpsFit(worker, remote', current)
    BY <1>1, <1>4, OpsFitOn
  <2>2. \A i \in DOMAIN worker : ~Live(worker, i, {"token"})
    BY <1>1, <1>4 DEF OpsFit
  <2>3. e.user = current \/ \E j \in DOMAIN worker : worker[j].kind = "change"
    BY <1>1, <1>2 DEF ChangesFit
  <2>4. e.kind \notin OfCall /\ e.kind # "read"
    BY <1>2 DEF OfCall
  <2>5. OpsFit(Append(worker, e), remote', current)
    BY <1>3, <1>6, <2>1, <2>2, <2>3, <2>4, PostFits
  <2> QED
    BY <1>2, <2>5 DEF TokenAnswer
<1>9. ChangesFit(worker', authUser', current')
  BY <1>1, <1>2, <1>3, ChangesPost DEF TokenAnswer
<1>10. CallFits(remote', current', stored')
  BY <1>6 DEF CallFits
<1>11. QueuesFit'
  BY <1>1, QueuesStayFit DEF TokenAnswer, history, QueuesStay
<1> QED
  BY <1>6, <1>7, <1>8, <1>9, <1>10, <1>11 DEF IInv, TokenAnswer

LEMMA GetTokenIInv ==
  ASSUME IInv, GetTokenAnswers \/ GetTokenFails
  PROVE  IInv'
<1>1. TypeOK
  BY DEF IInv
<1>2. CASE GetTokenAnswers
  <2>1. TokenAnswer(TRUE)
    BY <1>1, <1>2 DEF GetTokenAnswers, TokenAnswer, TypeOK
  <2> QED
    BY <2>1, TokenAnswerIInv
<1>3. CASE GetTokenFails
  <2>1. TokenAnswer(FALSE)
    BY <1>1, <1>3, FaultCounts DEF GetTokenFails, TokenAnswer
  <2> QED
    BY <2>1, TokenAnswerIInv
<1> QED
  BY <1>2, <1>3

\* The server and the network.

LEMMA ServerTakesIInv ==
  ASSUME IInv, ServerTakes
  PROVE  /\ IInv' /\ IsOpen(remote)
         /\ Head(remote.toServer) # Handshake <=> remote.handshake
         /\ Head(remote.toServer) # Handshake =>
              /\ Head(remote.toServer) \in Writes
              /\ Head(remote.toServer)
                   = queue[current][Len(remote.pipeline) - Len(remote.toServer) + 1]
<1> DEFINE m == Head(remote.toServer)
<1>1. /\ TypeOK /\ QueuesFit /\ Settled(remote, queue[current])
      /\ OpsFit(worker, remote, current) /\ CallFits(remote, current, stored)
      /\ ChangesFit(worker, authUser, current)
  BY DEF IInv
<1>2. /\ remote \in Remote /\ remote.toServer \in Seq(Messages)
      /\ remote.toClient \in Seq(Messages) /\ remote.pipeline \in Seq(Writes)
      /\ remote.toServer # <<>> /\ IsOpen(remote)
  BY <1>1 DEF ServerTakes, Settled, Core, Remote
<1>3. /\ Tail(remote.toServer) \in Seq(Messages) /\ m \in Messages
      /\ m = remote.toServer[1]
      /\ Len(remote.toServer) \in Nat /\ Len(remote.toServer) > 0
      /\ Len(Tail(remote.toServer)) = Len(remote.toServer) - 1
      /\ \A i \in 1..(Len(remote.toServer) - 1) :
           Tail(remote.toServer)[i] = remote.toServer[i + 1]
  BY <1>2, TailIs
<1>4. /\ Append(remote.toClient, m) \in Seq(Messages)
      /\ Len(remote.toClient) \in Nat
      /\ Len(Append(remote.toClient, m)) = Len(remote.toClient) + 1
  BY <1>2, <1>3, AppendIs
<1>5. remote' = [remote EXCEPT !.toServer = Tail(@), !.toClient = Append(@, m)]
  BY DEF ServerTakes
<1> HIDE DEF m
<1>6. /\ remote' \in Remote
      /\ remote'.toServer = Tail(remote.toServer)
      /\ remote'.toClient = Append(remote.toClient, m)
      /\ remote'.state = remote.state /\ remote'.handshake = remote.handshake
      /\ remote'.idle = remote.idle /\ remote'.backoff = remote.backoff
      /\ remote'.asked = remote.asked /\ remote'.enabled = remote.enabled
      /\ remote'.pipeline = remote.pipeline /\ remote'.caller = remote.caller
      /\ remote'.ended = remote.ended /\ remote'.sound = remote.sound
  BY <1>2, <1>3, <1>4, <1>5 DEF Remote
<1>7. Len(remote'.toServer) + Len(remote'.toClient)
        = Len(remote.toServer) + Len(remote.toClient)
  <2>1. PICK a \in Nat, b \in Nat : a = Len(remote.toServer) /\ b = Len(remote.toClient)
    BY <1>3, <1>4, Zenon
  <2>2. Len(remote'.toServer) = a - 1 /\ Len(remote'.toClient) = b + 1
    BY <1>3, <1>4, <1>6, <2>1, Zenon
  <2>3. (a - 1) + (b + 1) = a + b
    OBVIOUS
  <2> QED
    BY <2>1, <2>2, <2>3, Zenon
<1>8. IsSuffix(remote.toServer, remote.pipeline)
        => IsSuffix(Tail(remote.toServer), remote.pipeline)
  <2> SUFFICES ASSUME IsSuffix(remote.toServer, remote.pipeline)
               PROVE  IsSuffix(Tail(remote.toServer), remote.pipeline)
    OBVIOUS
  <2>1. PICK a \in Nat, b \in Nat : a = Len(remote.toServer) /\ b = Len(remote.pipeline)
    BY <1>2
  <2>2. a > 0 /\ a <= b
    BY <1>3, <2>1 DEF IsSuffix
  <2>3. ASSUME NEW i \in 1..(a - 1)
        PROVE  Tail(remote.toServer)[i] = remote.pipeline[b - (a - 1) + i]
    <3>1. i + 1 \in 1..a /\ b - a + (i + 1) = b - (a - 1) + i
      BY <2>2
    <3>2. remote.toServer[i + 1] = remote.pipeline[b - a + (i + 1)]
      BY <2>1, <3>1 DEF IsSuffix
    <3> QED
      BY <1>3, <2>1, <3>1, <3>2
  <2>4. a - 1 <= b
    BY <2>2
  <2> QED
    BY <1>3, <2>1, <2>3, <2>4 DEF IsSuffix
<1>9. (\A i \in DOMAIN remote.toServer : remote.toServer[i] = Handshake)
        => \A i \in DOMAIN Tail(remote.toServer) : Tail(remote.toServer)[i] = Handshake
  <2>1. /\ DOMAIN Tail(remote.toServer) = 1..(Len(remote.toServer) - 1)
        /\ DOMAIN remote.toServer = 1..Len(remote.toServer)
    BY <1>2, <1>3
  <2>2. \A i \in DOMAIN Tail(remote.toServer) : i + 1 \in DOMAIN remote.toServer
    BY <1>3, <2>1
  <2> QED
    BY <1>3, <2>1, <2>2
<1>10. Settled(remote', queue[current])
  BY <1>1, <1>2, <1>6, <1>7, <1>8, <1>9 DEF Settled, Core
<1> DEFINE k == Len(remote.pipeline) - Len(remote.toServer) + 1
<1>11. m # Handshake =>
         /\ m \in Writes /\ owner[m] = current /\ told[m] # "unissued"
         /\ remote.handshake /\ k \in DOMAIN queue[current] /\ m = queue[current][k]
         /\ m = remote.pipeline[k] /\ k <= Len(remote.pipeline)
  <2> SUFFICES ASSUME m # Handshake
               PROVE  /\ m \in Writes /\ owner[m] = current /\ told[m] # "unissued"
                      /\ remote.handshake /\ k \in DOMAIN queue[current]
                      /\ m = queue[current][k]
                      /\ m = remote.pipeline[k] /\ k <= Len(remote.pipeline)
    OBVIOUS
  <2> HIDE DEF k
  <2>1. m \in Writes
    BY <1>3 DEF Messages
  <2>2. remote.handshake
    <3>1. 1 \in DOMAIN remote.toServer
      BY <1>2, <1>3
    <3> QED
      BY <1>1, <1>2, <1>3, <3>1 DEF Settled, Core
  <2>3. k \in 1..Len(remote.pipeline) /\ m = remote.pipeline[k]
    <3>1. PICK a \in Nat, b \in Nat : a = Len(remote.toServer) /\ b = Len(remote.pipeline)
      BY <1>2
    <3>2. IsSuffix(remote.toServer, remote.pipeline)
      BY <1>1, <1>2, <2>2 DEF Settled, Core
    <3>3. a > 0 /\ a <= b /\ m = remote.pipeline[b - a + 1]
      <4>1. a > 0 /\ a <= b
        BY <1>3, <3>1, <3>2 DEF IsSuffix
      <4>2. \A i \in 1..a : remote.toServer[i] = remote.pipeline[b - a + i]
        BY <3>1, <3>2, Zenon DEF IsSuffix
      <4>3. 1 \in 1..a
        BY <4>1
      <4> QED
        BY <1>3, <4>1, <4>2, <4>3, Zenon
    <3>4. b - a + 1 \in 1..b
      BY <3>3
    <3> QED
      BY <3>1, <3>3, <3>4 DEF k
  <2>4. k \in DOMAIN queue[current] /\ m = queue[current][k]
    <3>1. IsPrefix(remote.pipeline, queue[current]) /\ queue[current] \in Seq(Writes)
      BY <1>1 DEF Settled, Core, TypeOK
    <3>2. Len(remote.pipeline) \in Nat /\ Len(queue[current]) \in Nat
      BY <1>2, <3>1
    <3>3. k \in 1..Len(queue[current])
      BY <2>3, <3>1, <3>2 DEF IsPrefix
    <3> QED
      BY <2>3, <3>1, <3>3 DEF IsPrefix
  <2>5. current \in Users
    BY <1>1 DEF TypeOK
  <2>6. k <= Len(remote.pipeline)
    BY <1>2, <2>3
  <2> QED
    BY <1>1, <2>1, <2>2, <2>3, <2>4, <2>5, <2>6 DEF QueuesFit
<1>12. stored' = IF m = Handshake THEN stored
                 ELSE [stored EXCEPT ![m] = @ \cup {remote.caller}]
  BY DEF ServerTakes, m
<1>13. remote.caller = current
  BY <1>1, <1>2 DEF CallFits
<1>14. stored' \in [Writes -> SUBSET Users]
  BY <1>1, <1>11, <1>12, <1>13 DEF TypeOK
<1>15. TypeOK'
  BY <1>1, <1>6, <1>14 DEF TypeOK, ServerTakes
<1>16. OpsFit(worker', remote', current')
  <2>1. Owed(remote) => Owed(remote')
    BY <1>6, <1>7 DEF Owed
  <2>2. OpsFit(worker, remote', current)
    BY <1>1, <1>6, <2>1, OpsFitOn
  <2> QED
    BY <2>2 DEF ServerTakes
<1>17. CallFits(remote', current', stored')
  <2>1. ASSUME remote.handshake,
               NEW i \in 1..(Len(remote.pipeline) - (Len(remote.toServer) - 1))
        PROVE  stored'[remote.pipeline[i]] # {}
    <3>1. Len(remote.pipeline) \in Nat /\ Len(remote.toServer) <= Len(remote.pipeline)
          /\ k \in Nat
      <4>1. Len(remote.toServer) <= Len(remote.pipeline)
        BY <1>1, <1>2, <2>1 DEF Settled, Core, IsSuffix
      <4> QED
        BY <1>2, <1>3, <4>1
    <3>2. remote.pipeline[i] \in Writes
      <4>1. Len(remote.pipeline) - (Len(remote.toServer) - 1) <= Len(remote.pipeline)
        BY <1>3, <3>1
      <4>2. i \in 1..Len(remote.pipeline)
        BY <1>3, <3>1, <4>1
      <4> QED
        BY <1>2, <4>2
    <3>3. i = k \/ i \in 1..(Len(remote.pipeline) - Len(remote.toServer))
      BY <1>3, <3>1
    <3>4. CASE i = k
      <4>1. m # Handshake
        <5>1. m \in Writes
          <6>1. PICK a \in Nat, b \in Nat : a = Len(remote.toServer) /\ b = Len(remote.pipeline)
            <7>1. Len(remote.toServer) \in Nat /\ Len(remote.pipeline) \in Nat
              BY <1>2
            <7> QED
              BY <7>1, Zenon
          <6>2. IsSuffix(remote.toServer, remote.pipeline)
            BY <1>1, <1>2, <2>1 DEF Settled, Core
          <6>3. 1 \in 1..a
            BY <1>3, <6>1
          <6>4. m = remote.pipeline[b - a + 1]
            BY <1>3, <6>1, <6>2, <6>3, Zenon DEF IsSuffix
          <6> QED
            BY <3>2, <3>4, <6>1, <6>4
        <5> QED
          BY <5>1 DEF Handshake, Writes
      <4> QED
        BY <1>1, <1>11, <1>12, <1>13, <3>4, <4>1 DEF TypeOK
    <3>5. CASE i \in 1..(Len(remote.pipeline) - Len(remote.toServer))
      <4>1. stored[remote.pipeline[i]] # {}
        BY <1>1, <1>2, <2>1, <3>5 DEF CallFits, ServerTakes
      <4> QED
        BY <1>1, <1>11, <1>12, <3>2, <4>1 DEF TypeOK
    <3> QED
      BY <3>3, <3>4, <3>5
  <2> HIDE DEF k
  <2> QED
    BY <1>3, <1>6, <1>13, <2>1 DEF CallFits, ServerTakes
<1>18. \A w \in Writes : stored'[w] # {} => told[w] # "unissued"
  BY <1>1, <1>11, <1>12 DEF QueuesFit, TypeOK
<1>19. \A w \in Writes : stored'[w] \subseteq {owner[w]}
  <2>1. CASE m = Handshake
    BY <1>1, <1>12, <2>1 DEF QueuesFit, WrittenAsOwner
  <2>2. CASE m # Handshake
    <3>1. stored' = [stored EXCEPT ![m] = @ \cup {current}] /\ owner[m] = current
      BY <1>11, <1>12, <1>13, <2>2
    <3> QED
      BY <1>1, <3>1 DEF QueuesFit, WrittenAsOwner, TypeOK
  <2> QED
    BY <2>1, <2>2
<1>20. StoredInOrder'
  <2> SUFFICES ASSUME NEW v \in Writes, NEW w \in Writes,
                      v < w, owner[v] = owner[w], stored'[w] # {}, stored'[v] = {}
               PROVE  ~Contains(queue[owner[v]], v)
    BY DEF StoredInOrder, ServerTakes
  <2>1. stored[v] = {}
    BY <1>1, <1>11, <1>12 DEF TypeOK
  <2>2. CASE stored[w] # {}
    BY <1>1, <2>1, <2>2 DEF QueuesFit, StoredInOrder
  <2>3. CASE stored[w] = {}
    <3>1. m # Handshake /\ w = m /\ owner[v] = current
      BY <1>1, <1>11, <1>12, <2>3 DEF TypeOK
    <3>2. SUFFICES ASSUME NEW j \in DOMAIN queue[current], queue[current][j] = v
                   PROVE  FALSE
      BY <3>1 DEF Contains
    <3>3. /\ k \in DOMAIN queue[current] /\ m = queue[current][k]
          /\ remote.handshake /\ k <= Len(remote.pipeline)
          /\ queue[current] \in Seq(Writes) /\ Increasing(queue[current])
          /\ IsPrefix(remote.pipeline, queue[current])
      BY <1>1, <1>11, <3>1 DEF Settled, Core, TypeOK, QueuesFit
    <3> HIDE DEF k
    <3>4. j < k
      <4>1. j = k => v = w
        BY <3>1, <3>2, <3>3
      <4>2. k < j => w < v
        BY <3>1, <3>2, <3>3 DEF Increasing
      <4>3. j \in Nat /\ k \in Nat
        BY <3>3
      <4> QED
        BY <4>1, <4>2, <4>3 DEF Writes
    <3>5. PICK a \in Nat, b \in Nat : a = Len(remote.toServer) /\ b = Len(remote.pipeline)
      BY <1>2
    <3>6. j \in 1..(b - a) /\ j \in 1..b
      <4>1. k = b - a + 1 /\ k <= b
        BY <3>3, <3>5 DEF k
      <4>2. j \in Nat /\ j > 0
        BY <3>3
      <4> QED
        BY <3>4, <4>1, <4>2
    <3>7. remote.pipeline[j] = v
      BY <3>2, <3>3, <3>5, <3>6 DEF IsPrefix
    <3>8. stored[remote.pipeline[j]] # {}
      BY <1>1, <1>2, <3>3, <3>5, <3>6 DEF CallFits, ServerTakes
    <3> QED
      BY <2>1, <3>7, <3>8
  <2> QED
    BY <2>2, <2>3
<1>21. QueuesFit'
  BY <1>1, <1>18, <1>19, <1>20 DEF QueuesFit, WrittenAsOwner, ServerTakes
<1>22. remote.handshake => m # Handshake
  <2> SUFFICES ASSUME remote.handshake PROVE m \in Writes
    BY DEF Handshake, Writes
  <2>1. PICK a \in Nat, b \in Nat : a = Len(remote.toServer) /\ b = Len(remote.pipeline)
    BY <1>2
  <2>2. IsSuffix(remote.toServer, remote.pipeline)
    BY <1>1, <1>2 DEF Settled, Core
  <2>3. 0 < a /\ a <= b
    BY <1>3, <2>1, <2>2, Zenon DEF IsSuffix
  <2>4. 1 \in 1..a /\ b - a + 1 \in 1..b
    BY <2>3
  <2>5. m = remote.pipeline[b - a + 1]
    BY <1>3, <2>1, <2>2, <2>4, Zenon DEF IsSuffix
  <2>6. \A i \in 1..b : remote.pipeline[i] \in Writes
    BY <1>2, <2>1
  <2> QED
    BY <2>4, <2>5, <2>6, Zenon
<1>23. IInv'
  BY <1>1, <1>10, <1>15, <1>16, <1>17, <1>21 DEF IInv, ServerTakes
<1> QED
  BY <1>2, <1>11, <1>22, <1>23 DEF m

LEMMA ServerRefusesIInv ==
  ASSUME IInv, ServerRefuses
  PROVE  IInv'
<1>1. /\ TypeOK /\ QueuesFit /\ Settled(remote, queue[current])
      /\ OpsFit(worker, remote, current) /\ CallFits(remote, current, stored)
      /\ ChangesFit(worker, authUser, current)
  BY DEF IInv
<1>2. remote \in Remote /\ remote.toServer \in Seq(Messages) /\ remote.toServer # <<>>
      /\ IsOpen(remote)
  BY <1>1 DEF ServerRefuses, Settled, Core, Remote
<1>3. remote' = [remote EXCEPT !.ended = "refused"]
  BY DEF ServerRefuses
<1>4. Settled(remote', queue[current])
  BY <1>1, <1>2, <1>3 DEF Settled, Core, Remote
<1>5. TypeOK'
  <2>1. remote' \in Remote
    BY <1>4 DEF Settled, Core
  <2>2. Head(remote.toServer) \in Messages
    BY <1>2
  <2>3. refused' \in SUBSET Writes
    BY <1>1, <2>2 DEF TypeOK, ServerRefuses, Messages
  <2> QED
    BY <1>1, <2>1, <2>3 DEF TypeOK, ServerRefuses
<1>6. OpsFit(worker', remote', current')
  <2>1. /\ remote'.state = remote.state /\ remote'.asked = remote.asked
        /\ Owed(remote) = Owed(remote')
    BY <1>2, <1>3 DEF Remote, Owed
  <2>2. OpsFit(worker, remote', current)
    BY <1>1, <2>1, OpsFitOn
  <2> QED
    BY <2>2 DEF ServerRefuses
<1>7. CallFits(remote', current', stored')
  BY <1>1, <1>2, <1>3 DEF CallFits, ServerRefuses, Remote
<1>8. QueuesFit'
  BY <1>1, QueuesStayFit DEF ServerRefuses, QueuesStay
<1> QED
  BY <1>1, <1>4, <1>5, <1>6, <1>7, <1>8 DEF IInv, ServerRefuses

LEMMA DisconnectIInv ==
  ASSUME IInv, Disconnect
  PROVE  IInv'
<1>1. /\ TypeOK /\ QueuesFit /\ Settled(remote, queue[current])
      /\ OpsFit(worker, remote, current) /\ CallFits(remote, current, stored)
      /\ ChangesFit(worker, authUser, current)
  BY DEF IInv
<1>2. remote \in Remote /\ remote.pipeline \in Seq(Writes) /\ IsOpen(remote)
  BY <1>1 DEF Disconnect, Settled, Core, Remote
<1>3. remote' = [remote EXCEPT !.ended = "down", !.toServer = <<>>, !.toClient = <<>>]
  BY DEF Disconnect
<1>4. <<>> \in Seq(Messages) /\ Len(remote.pipeline) \in Nat
      /\ (remote.pipeline # <<>> => Len(remote.pipeline) > 0)
  BY <1>2
<1>5. /\ remote' \in Remote
      /\ remote'.toServer = <<>> /\ remote'.toClient = <<>>
      /\ remote'.state = remote.state /\ remote'.handshake = remote.handshake
      /\ remote'.idle = remote.idle /\ remote'.backoff = remote.backoff
      /\ remote'.asked = remote.asked /\ remote'.enabled = remote.enabled
      /\ remote'.pipeline = remote.pipeline /\ remote'.caller = remote.caller
      /\ remote'.sound = remote.sound
  BY <1>2, <1>3, <1>4 DEF Remote
<1>6. Settled(remote', queue[current])
  <2>1. IsSuffix(<<>>, remote.pipeline)
    BY <1>4 DEF IsSuffix
  <2>2. /\ Len(remote'.toServer) = 0 /\ Len(remote'.toClient) = 0 /\ 0 + 0 <= 1
        /\ 0 + 0 <= Len(remote.pipeline)
    BY <1>4, <1>5
  <2>3. DOMAIN remote'.toServer = {}
    BY <1>5
  <2> HIDE DEF IsStarted
  <2>4. Core(remote', queue[current])
    BY <1>1, <1>2, <1>5, <2>1, <2>2, <2>3 DEF Settled, Core
  <2> QED
    BY <1>1, <1>2, <1>5, <2>4 DEF Settled, IsStarted
<1>7. TypeOK'
  BY <1>1, <1>5, FaultCounts DEF TypeOK, Disconnect, history
<1>8. OpsFit(worker', remote', current')
  <2>1. Owed(remote) => Owed(remote')
    <3>1. \A a, b \in Nat : \A c \in Nat : a + b < c => 0 + 0 < c
      OBVIOUS
    <3>2. Len(remote.toServer) \in Nat /\ Len(remote.toClient) \in Nat
      BY <1>2 DEF Remote
    <3>3. Len(remote'.toServer) = 0 /\ Len(remote'.toClient) = 0
      BY <1>5
    <3> QED
      BY <1>4, <1>5, <3>1, <3>2, <3>3 DEF Owed
  <2>2. OpsFit(worker, remote', current)
    BY <1>1, <1>5, <2>1, OpsFitOn
  <2> QED
    BY <2>2 DEF Disconnect
<1>9. CallFits(remote', current', stored')
  BY <1>1, <1>5 DEF CallFits, Disconnect
<1>10. QueuesFit'
  BY <1>1, QueuesStayFit DEF Disconnect, history, QueuesStay
<1> QED
  BY <1>1, <1>6, <1>7, <1>8, <1>9, <1>10 DEF IInv, Disconnect, history

LEMMA ServerEndsCallIInv ==
  ASSUME IInv, ServerEndsCall
  PROVE  IInv'
<1>1. /\ TypeOK /\ QueuesFit /\ Settled(remote, queue[current])
      /\ OpsFit(worker, remote, current) /\ CallFits(remote, current, stored)
      /\ ChangesFit(worker, authUser, current)
  BY DEF IInv
<1>2. remote \in Remote /\ IsOpen(remote)
  BY <1>1 DEF ServerEndsCall, Settled, Core
<1>3. /\ remote' \in Remote /\ remote'.ended = "ok"
      /\ remote'.toServer = remote.toServer /\ remote'.toClient = remote.toClient
      /\ remote'.state = remote.state /\ remote'.handshake = remote.handshake
      /\ remote'.idle = remote.idle /\ remote'.backoff = remote.backoff
      /\ remote'.asked = remote.asked /\ remote'.enabled = remote.enabled
      /\ remote'.pipeline = remote.pipeline /\ remote'.caller = remote.caller
      /\ remote'.sound = remote.sound
  BY <1>2 DEF ServerEndsCall, Remote, Ended
<1>4. Settled(remote', queue[current])
  BY <1>1, <1>2, <1>3 DEF Settled, Core
<1>5. TypeOK'
  BY <1>1, <1>3, FaultCounts DEF TypeOK, ServerEndsCall, history
<1>6. OpsFit(worker', remote', current')
  <2>1. Owed(remote) => Owed(remote')
    BY <1>3 DEF Owed
  <2>2. OpsFit(worker, remote', current)
    BY <1>1, <1>3, <2>1, OpsFitOn
  <2> QED
    BY <2>2 DEF ServerEndsCall
<1>7. CallFits(remote', current', stored')
  BY <1>1, <1>3 DEF CallFits, ServerEndsCall
<1>8. QueuesFit'
  BY <1>1, QueuesStayFit DEF ServerEndsCall, history, QueuesStay
<1> QED
  BY <1>1, <1>4, <1>5, <1>6, <1>7, <1>8 DEF IInv, ServerEndsCall, history

\* The gRPC call.

LEMMA ReadCompletesIInv ==
  ASSUME IInv, ReadCompletes
  PROVE  IInv'
<1>1. /\ TypeOK /\ QueuesFit /\ Settled(remote, queue[current])
      /\ OpsFit(worker, remote, current) /\ CallFits(remote, current, stored)
      /\ ChangesFit(worker, authUser, current)
  BY DEF IInv
<1>2. /\ remote \in Remote /\ remote.toClient \in Seq(Messages)
      /\ remote.toServer \in Seq(Messages) /\ remote.pipeline \in Seq(Writes)
      /\ remote.toClient # <<>> /\ IsOpen(remote)
      /\ worker \in Seq(Op) /\ authUser \in Users
  BY <1>1 DEF ReadCompletes, Settled, Core, Remote, TypeOK
<1>3. /\ Tail(remote.toClient) \in Seq(Messages) /\ Head(remote.toClient) \in Messages
      /\ Len(remote.toClient) \in Nat /\ Len(remote.toClient) > 0
      /\ Len(Tail(remote.toClient)) = Len(remote.toClient) - 1
  BY <1>2, TailIs
<1>4. PICK e \in Op : worker' = Append(worker, e) /\ e.kind = "read" /\ e.live
  <2>1. [kind |-> "read", user |-> authUser, msg |-> Head(remote.toClient),
         flag |-> TRUE, live |-> TRUE] \in Op
    BY <1>2, <1>3 DEF Op, Kinds
  <2> QED
    BY <2>1 DEF ReadCompletes, Post
<1>5. remote' = [remote EXCEPT !.toClient = Tail(@)]
  BY DEF ReadCompletes
<1>6. /\ remote' \in Remote
      /\ remote'.toServer = remote.toServer
      /\ remote'.toClient = Tail(remote.toClient)
      /\ remote'.state = remote.state /\ remote'.handshake = remote.handshake
      /\ remote'.idle = remote.idle /\ remote'.backoff = remote.backoff
      /\ remote'.asked = remote.asked /\ remote'.enabled = remote.enabled
      /\ remote'.pipeline = remote.pipeline /\ remote'.caller = remote.caller
      /\ remote'.ended = remote.ended /\ remote'.sound = remote.sound
  BY <1>2, <1>3, <1>5 DEF Remote
<1>7. PICK a \in Nat, b \in Nat, c \in Nat :
        /\ a = Len(remote.toServer) /\ b = Len(remote.toClient)
        /\ c = Len(remote.pipeline)
  BY <1>2
<1>8. b > 0 /\ Len(remote'.toServer) = a /\ Len(remote'.toClient) = b - 1
      /\ Len(remote'.pipeline) = c
  BY <1>3, <1>6, <1>7, Zenon
<1>9. IF remote.handshake THEN a + b <= c ELSE a + b <= 1
  BY <1>1, <1>2, <1>7 DEF Settled, Core
<1>10. IF remote.handshake THEN a + (b - 1) < c ELSE a + (b - 1) < 1
  BY <1>8, <1>9
<1>11. Owed(remote')
  BY <1>6, <1>8, <1>10 DEF Owed
<1>12. Settled(remote', queue[current])
  <2>1. IF remote'.handshake
        THEN Len(remote'.toServer) + Len(remote'.toClient) <= Len(remote'.pipeline)
        ELSE Len(remote'.toServer) + Len(remote'.toClient) <= 1
    <3>1. IF remote.handshake THEN a + (b - 1) <= c ELSE a + (b - 1) <= 1
      BY <1>8, <1>10
    <3> QED
      BY <1>6, <1>8, <3>1
  <2> HIDE DEF IsStarted
  <2>2. Core(remote', queue[current])
    BY <1>1, <1>2, <1>6, <2>1 DEF Settled, Core
  <2> QED
    BY <1>1, <1>2, <1>6, <2>2 DEF Settled, IsStarted
<1>13. TypeOK'
  <2>1. worker' \in Seq(Op)
    BY <1>2, <1>4, AppendIs
  <2> QED
    BY <1>1, <1>6, <2>1 DEF TypeOK, ReadCompletes, history
<1>14. OpsFit(worker', remote', current')
  <2>1. OpsFit(worker, remote', current)
    BY <1>1, <1>6, <1>11, OpsFitOn
  <2>2. \A i \in DOMAIN worker : ~Live(worker, i, {"read"})
    BY DEF ReadCompletes, Posted, Live
  <2>3. OpsFit(Append(worker, e), remote', current)
    BY <1>2, <1>4, <1>6, <1>11, <2>1, <2>2, PostFits
  <2> QED
    BY <1>4, <2>3 DEF ReadCompletes
<1>15. ChangesFit(worker', authUser', current')
  BY <1>1, <1>2, <1>4, ChangesPost DEF ReadCompletes
<1>16. CallFits(remote', current', stored')
  BY <1>1, <1>6 DEF CallFits, ReadCompletes, history
<1>17. QueuesFit'
  BY <1>1, QueuesStayFit DEF ReadCompletes, history, QueuesStay
<1> QED
  BY <1>12, <1>13, <1>14, <1>15, <1>16, <1>17 DEF IInv, ReadCompletes, history

LEMMA OperationFailsIInv ==
  ASSUME IInv, OperationFails
  PROVE  IInv'
<1>1. /\ TypeOK /\ QueuesFit /\ Settled(remote, queue[current])
      /\ OpsFit(worker, remote, current) /\ CallFits(remote, current, stored)
      /\ ChangesFit(worker, authUser, current)
  BY DEF IInv
<1>2. worker \in Seq(Op) /\ authUser \in Users /\ IsOpen(remote)
  BY <1>1 DEF OperationFails, Settled, Core, TypeOK
<1>3. PICK e \in Op : worker' = Append(worker, e) /\ e.kind = "failed" /\ e.live
  <2>1. [kind |-> "failed", user |-> authUser, msg |-> Handshake,
         flag |-> TRUE, live |-> TRUE] \in Op
    BY <1>2 DEF Op, Kinds, Messages
  <2> QED
    BY <2>1 DEF OperationFails, Post
<1>4. TypeOK'
  <2>1. worker' \in Seq(Op)
    BY <1>2, <1>3, AppendIs
  <2> QED
    BY <1>1, <2>1 DEF TypeOK, OperationFails, history
<1>5. OpsFit(worker', remote', current')
  <2>1. OpsFit(Append(worker, e), remote, current)
    BY <1>1, <1>2, <1>3, PostFits
  <2> QED
    BY <1>3, <2>1 DEF OperationFails
<1>6. ChangesFit(worker', authUser', current')
  <2>1. ChangesFit(Append(worker, e), authUser, current)
    BY <1>1, <1>2, <1>3, ChangesPost
  <2> QED
    BY <1>3, <2>1 DEF OperationFails
<1>7. QueuesFit'
  BY <1>1, QueuesStayFit DEF OperationFails, history, QueuesStay
<1> QED
  BY <1>1, <1>4, <1>5, <1>6, <1>7 DEF IInv, OperationFails, history

-------------------------------------------------------------------------------
(* The operations of the worker queue. *)

\* What every operation that runs finds.
LEMMA FirstOp ==
  ASSUME IInv, worker # <<>>
  PROVE  /\ worker \in Seq(Op) /\ 1 \in DOMAIN worker
         /\ Head(worker) \in Op /\ Head(worker) = worker[1]
         /\ Tail(worker) \in Seq(Op)
         /\ Head(worker).kind = "change" => Head(worker).live
         /\ Head(worker).live /\ Head(worker).kind \in OfCall => IsOpen(remote)
<1>1. TypeOK /\ worker \in Seq(Op) /\ OpsFit(worker, remote, current)
      /\ ChangesFit(worker, authUser, current)
  BY DEF IInv, TypeOK
<1>2. Len(worker) > 0 /\ Len(worker) \in Nat /\ Head(worker) = worker[1]
      /\ Head(worker) \in Op /\ Tail(worker) \in Seq(Op) /\ DOMAIN worker = 1..Len(worker)
  BY <1>1, TailIs
<1>3. 1 \in DOMAIN worker
  BY <1>2
<1> HIDE DEF IsOpen
<1> QED
  BY <1>1, <1>2, <1>3 DEF OpsFit, ChangesFit, Live

LEMMA RunCancelledIInv ==
  ASSUME IInv, RunCancelled
  PROVE  IInv'
<1>1. /\ TypeOK /\ QueuesFit
      /\ OpsFit(worker, remote, current) /\ ChangesFit(worker, authUser, current)
  BY DEF IInv
<1>2. worker \in Seq(Op) /\ worker # <<>> /\ Tail(worker) \in Seq(Op)
      /\ Head(worker).kind # "change"
  BY FirstOp DEF RunCancelled
<1>3. OpsFit(Tail(worker), remote, current) /\ ChangesFit(Tail(worker), authUser, current)
  BY <1>1, <1>2, TailFits, ChangesTail
<1>4. TypeOK'
  BY <1>1, <1>2 DEF TypeOK, RunCancelled, history
<1>5. QueuesFit'
  BY <1>1, QueuesStayFit DEF RunCancelled, history, QueuesStay
<1> QED
  BY <1>3, <1>4, <1>5 DEF IInv, RunCancelled, history

LEMMA RunChangeIInv ==
  ASSUME IInv, RunChange
  PROVE  IInv' /\ ~IsOpen(remote')
<1> DEFINE u == Head(worker).user
<1>1. /\ TypeOK /\ QueuesFit /\ Settled(remote, queue[current])
      /\ ChangesFit(worker, authUser, current)
  BY DEF IInv
<1>2. worker \in Seq(Op) /\ worker # <<>> /\ Tail(worker) \in Seq(Op)
      /\ Head(worker).kind = "change" /\ u \in Users
  BY FirstOp DEF RunChange, Runs, Op
<1>3. queue[current] \in Seq(Writes) /\ queue[u] \in Seq(Writes) /\ Increasing(queue[u])
  BY <1>1, <1>2 DEF TypeOK, QueuesFit
<1>4. ChangesFit(Tail(worker), authUser, u)
  BY <1>1, <1>2, ChangesTail
<1>5. /\ worker' = Cancel(Tail(worker), OfStream) /\ "change" \notin OfStream
      /\ remote' = RestartNetwork(remote, queue[u]) /\ current' = u
  BY DEF RunChange, OfStream, OfCall
<1> HIDE DEF u
<1>6. Settled(remote', queue[u]) /\ ~IsOpen(remote')
  BY <1>1, <1>3, <1>5, Restarts
<1>7. TypeOK'
  <2>1. remote' \in Remote /\ worker' \in Seq(Op)
    BY <1>2, <1>5, <1>6, CancelIs DEF Settled, Core
  <2> QED
    BY <1>1, <1>2, <1>5, <2>1 DEF TypeOK, RunChange, history
<1>8. Settled(remote', queue'[current'])
  BY <1>5, <1>6 DEF RunChange
<1>9. OpsFit(worker', remote', current')
  BY <1>2, <1>5, VoidOpsFit
<1>10. ChangesFit(worker', authUser', current')
  BY <1>2, <1>4, <1>5, ChangesCancel DEF RunChange
<1>11. CallFits(remote', current', stored')
  BY <1>6 DEF CallFits
<1>12. QueuesFit'
  BY <1>1, QueuesStayFit DEF RunChange, history, QueuesStay
<1> QED
  BY <1>6, <1>7, <1>8, <1>9, <1>10, <1>11, <1>12 DEF IInv

LEMMA RunTokenIInv ==
  ASSUME IInv, RunToken
  PROVE  /\ IInv' /\ ~IsOpen(remote)
         /\ IsOpen(remote') => /\ worker' = Tail(worker)
                               /\ ~remote'.handshake /\ remote'.toClient = <<>>
<1> DEFINE r == Assert(remote, remote.state = "Starting")
<1>1. /\ TypeOK /\ QueuesFit /\ Settled(remote, queue[current])
      /\ OpsFit(worker, remote, current) /\ CallFits(remote, current, stored)
      /\ ChangesFit(worker, authUser, current)
  BY DEF IInv
<1>2. /\ worker \in Seq(Op) /\ worker # <<>> /\ Tail(worker) \in Seq(Op)
      /\ 1 \in DOMAIN worker /\ Head(worker) = worker[1] /\ Head(worker) \in Op
      /\ Head(worker).kind = "token" /\ Head(worker).live
  BY FirstOp DEF RunToken, Runs
<1>3. remote \in Remote /\ remote.sound
  BY <1>1 DEF Settled, Core
<1>4. /\ remote.state = "Starting" /\ ~remote.asked /\ Head(worker).user = current
  <2>1. Live(worker, 1, {"token"})
    BY <1>2 DEF Live
  <2>2. 1..(1 - 1) = {}
    OBVIOUS
  <2> QED
    BY <1>1, <1>2, <2>1, <2>2 DEF OpsFit
<1>5. r = remote /\ r \in Remote
  BY <1>3, <1>4 DEF Remote
<1>6. queue[current] \in Seq(Writes) /\ Increasing(queue[current]) /\ current \in Users
  BY <1>1 DEF TypeOK, QueuesFit
<1> HIDE DEF r
<1>7. CASE Head(worker).flag
  <2>1. remote' = WriteHandshake([r EXCEPT !.state = "Open", !.caller = Head(worker).user])
        /\ worker' = Tail(worker)
    BY <1>7 DEF RunToken, r
  <2>2. PICK o : o = [remote EXCEPT !.state = "Open", !.caller = current]
    OBVIOUS
  <2>3. /\ o \in Remote /\ o.state = "Open" /\ o.caller = current
        /\ o.handshake = remote.handshake /\ o.idle = remote.idle
        /\ o.backoff = remote.backoff /\ o.asked = remote.asked
        /\ o.enabled = remote.enabled /\ o.pipeline = remote.pipeline
        /\ o.toServer = remote.toServer /\ o.toClient = remote.toClient
        /\ o.ended = remote.ended /\ o.sound = remote.sound
    BY <1>3, <1>6, <2>2 DEF Remote
  <2>4. /\ ~remote.handshake /\ remote.toServer = <<>> /\ remote.toClient = <<>>
        /\ remote.pipeline # <<>> /\ ~remote.idle /\ ~remote.backoff /\ remote.enabled
        /\ remote.ended = "no"
    BY <1>1, <1>4 DEF Settled, Core
  <2>5. PICK h : h = [o EXCEPT !.sound = TRUE]
    OBVIOUS
  <2>6. Assert(o, ~o.handshake) = h
    BY <1>3, <2>3, <2>4, <2>5 DEF Remote
  <2>7. <<>> \o <<Handshake>> = <<Handshake>>
    OBVIOUS
  <2>8. remote' = [o EXCEPT !.sound = TRUE, !.idle = FALSE, !.toServer = <<Handshake>>]
    <3>1. remote' = Send(h, <<Handshake>>)
      BY <1>4, <1>5, <2>1, <2>2, <2>6 DEF WriteHandshake
    <3> QED
      BY <2>3, <2>4, <2>5, <2>7, <3>1 DEF Send, Remote
  <2>9. <<Handshake>> \in Seq(Messages) /\ Len(<<Handshake>>) = 1
        /\ \A i \in DOMAIN <<Handshake>> : <<Handshake>>[i] = Handshake
    BY DEF Messages
  <2>10. /\ remote' \in Remote
         /\ remote'.state = "Open" /\ remote'.caller = current
         /\ ~remote'.handshake /\ ~remote'.idle /\ ~remote'.backoff /\ ~remote'.asked
         /\ remote'.enabled /\ remote'.pipeline = remote.pipeline
         /\ remote'.toServer = <<Handshake>> /\ remote'.toClient = <<>>
         /\ remote'.ended = "no" /\ remote'.sound
    BY <1>3, <1>4, <2>3, <2>4, <2>8, <2>9 DEF Remote
  <2>11. Settled(remote', queue[current])
    <3>1. Len(remote'.toServer) + Len(remote'.toClient) <= 1
      BY <2>9, <2>10
    <3> QED
      BY <1>1, <2>4, <2>9, <2>10, <3>1 DEF Settled, Core
  <2>12. OpsFit(Tail(worker), remote, current)
         /\ \A i \in DOMAIN Tail(worker) : ~Live(Tail(worker), i, {"token"})
    BY <1>1, <1>2, TailFits DEF Live
  <2>13. \A i \in DOMAIN Tail(worker) : ~Live(Tail(worker), i, OfCall)
    BY <1>4, <2>12 DEF OpsFit
  <2>14. OpsFit(worker', remote', current')
    <3>1. OpsFit(Tail(worker), remote', current)
      BY <2>12, <2>13 DEF OpsFit, Live, OfCall
    <3> QED
      BY <2>1, <3>1 DEF RunToken
  <2>15. ChangesFit(worker', authUser', current')
    BY <1>1, <1>2, <2>1, ChangesTail DEF RunToken
  <2>16. CallFits(remote', current', stored')
    BY <2>10 DEF CallFits, RunToken
  <2>17. TypeOK'
    BY <1>1, <1>2, <2>1, <2>10 DEF TypeOK, RunToken, history
  <2>18. QueuesFit'
    BY <1>1, QueuesStayFit DEF RunToken, history, QueuesStay
  <2> QED
    BY <1>4, <2>1, <2>10, <2>11, <2>14, <2>15, <2>16, <2>17, <2>18 DEF IInv, RunToken, history
<1>8. CASE ~Head(worker).flag
  <2>1. /\ remote' = ClosedByError(CloseSteps(r, FALSE), FALSE, queue[current])
        /\ worker' = Cancel(Tail(worker), OfStream) /\ "change" \notin OfStream
    BY <1>8 DEF RunToken, r, OfStream, OfCall
  <2>2. PICK c : c = CloseSteps(r, FALSE)
    OBVIOUS
  <2>3. Broken(c) /\ c.pipeline = remote.pipeline
    BY <1>1, <1>4, <1>5, <1>6, <2>2, Breaks
  <2>4. ~BlamesFront(c, FALSE) /\ FALSE \in BOOLEAN
        /\ IsPrefix(c.pipeline, queue[current])
    BY <1>1, <2>3 DEF BlamesFront, Settled, Core
  <2>5. Settled(remote', queue[current]) /\ ~IsOpen(remote')
    BY <1>6, <2>1, <2>2, <2>3, <2>4, RecoversFromError
  <2>6. OpsFit(worker', remote', current')
    BY <1>2, <2>1, VoidOpsFit
  <2>7. ChangesFit(worker', authUser', current')
    <3>1. ChangesFit(Tail(worker), authUser, current)
      BY <1>1, <1>2, ChangesTail
    <3> QED
      BY <1>2, <2>1, <3>1, ChangesCancel DEF RunToken
  <2>8. CallFits(remote', current', stored')
    BY <2>5 DEF CallFits
  <2>9. TypeOK'
    <3>1. remote' \in Remote /\ worker' \in Seq(Op)
      BY <1>2, <2>1, <2>5, CancelIs DEF Settled, Core
    <3> QED
      BY <1>1, <3>1 DEF TypeOK, RunToken, history
  <2>10. QueuesFit'
    BY <1>1, QueuesStayFit DEF RunToken, history, QueuesStay
  <2> QED
    BY <1>4, <2>5, <2>6, <2>7, <2>8, <2>9, <2>10 DEF IInv, RunToken, history
<1> QED
  BY <1>7, <1>8

LEMMA RunHandshakeReadIInv ==
  ASSUME IInv, RunHandshakeRead
  PROVE  /\ IInv' /\ IsOpen(remote)
         /\ remote'.handshake /\ remote'.toClient = <<>>
         /\ remote'.toServer = remote'.pipeline
<1>1. /\ TypeOK /\ QueuesFit /\ Settled(remote, queue[current])
      /\ OpsFit(worker, remote, current) /\ CallFits(remote, current, stored)
      /\ ChangesFit(worker, authUser, current)
  BY DEF IInv
<1>2. /\ worker \in Seq(Op) /\ worker # <<>> /\ Tail(worker) \in Seq(Op)
      /\ 1 \in DOMAIN worker /\ Head(worker) = worker[1]
      /\ Head(worker).kind = "read" /\ Head(worker).live /\ IsOpen(remote)
  BY FirstOp DEF RunHandshakeRead, Runs, OfCall
<1>3. Live(worker, 1, {"read"}) /\ Owed(remote)
  BY <1>1, <1>2 DEF OpsFit, Live
<1>4. /\ remote \in Remote /\ remote.sound /\ remote.pipeline # <<>>
      /\ ~remote.handshake /\ ~remote.idle /\ ~remote.backoff /\ ~remote.asked
      /\ remote.pipeline \in Seq(Writes)
      /\ remote.toServer \in Seq(Messages) /\ remote.toClient \in Seq(Messages)
  BY <1>1, <1>2 DEF RunHandshakeRead, Settled, Core, Remote
<1>5. remote.toServer = <<>> /\ remote.toClient = <<>>
  <2>1. PICK a \in Nat, b \in Nat : a = Len(remote.toServer) /\ b = Len(remote.toClient)
    BY <1>4
  <2>2. a + b < 1
    BY <1>3, <1>4, <2>1 DEF Owed
  <2>3. a = 0 /\ b = 0
    BY <2>2
  <2>4. \A s \in Seq(Messages) : Len(s) = 0 => s = <<>>
    OBVIOUS
  <2> QED
    BY <1>4, <2>1, <2>3, <2>4, Zenon
<1>6. remote' = [remote EXCEPT !.sound = TRUE, !.handshake = TRUE, !.idle = FALSE,
                               !.toServer = remote.pipeline]
  <2>1. PICK r : r = [Assert(remote, IsStarted(remote)) EXCEPT !.handshake = TRUE]
    OBVIOUS
  <2>2. r = [remote EXCEPT !.sound = TRUE, !.handshake = TRUE]
    BY <1>2, <1>4, <2>1 DEF Remote
  <2>3. remote' = Send(Assert(r, r.handshake), r.pipeline)
    BY <1>4, <2>1, <2>2 DEF RunHandshakeRead, WriteMutations, Remote
  <2>4. <<>> \o remote.pipeline = remote.pipeline
    BY <1>4
  <2>5. Assert(r, r.handshake) = r
    BY <1>4, <2>2 DEF Remote
  <2> QED
    BY <1>2, <1>4, <1>5, <2>2, <2>3, <2>4, <2>5 DEF Send, Remote
<1>7. remote.pipeline \in Seq(Messages)
  BY <1>4 DEF Messages
<1>8. /\ remote' \in Remote
      /\ remote'.state = "Open" /\ remote'.caller = remote.caller
      /\ remote'.handshake /\ ~remote'.idle /\ ~remote'.backoff /\ ~remote'.asked
      /\ remote'.enabled = remote.enabled /\ remote'.pipeline = remote.pipeline
      /\ remote'.toServer = remote.pipeline /\ remote'.toClient = <<>>
      /\ remote'.sound
  BY <1>2, <1>4, <1>5, <1>6, <1>7 DEF Remote
<1>9. Settled(remote', queue[current])
  <2>1. PICK c \in Nat : c = Len(remote.pipeline)
    BY <1>4
  <2>2. c <= c /\ c + 0 <= c /\ \A i \in 1..c : c - c + i = i
    OBVIOUS
  <2>3. IsSuffix(remote.pipeline, remote.pipeline)
    BY <2>1, <2>2 DEF IsSuffix
  <2>4. Len(remote'.toServer) + Len(remote'.toClient) <= Len(remote'.pipeline)
    BY <1>8, <2>1, <2>2
  <2> HIDE DEF IsStarted
  <2>5. Core(remote', queue[current])
    BY <1>1, <1>4, <1>8, <2>3, <2>4 DEF Settled, Core
  <2> QED
    BY <1>8, <2>5 DEF Settled, IsStarted
<1>10. OpsFit(worker', remote', current')
  <2>1. OpsFit(Tail(worker), remote, current)
        /\ \A i \in DOMAIN Tail(worker) : ~Live(Tail(worker), i, {"read"})
    BY <1>1, <1>2, <1>3, TailFits
  <2>2. OpsFit(Tail(worker), remote', current)
    BY <1>2, <1>8, <2>1 DEF OpsFit
  <2> QED
    BY <2>2 DEF RunHandshakeRead
<1>11. ChangesFit(worker', authUser', current')
  BY <1>1, <1>2, ChangesTail DEF RunHandshakeRead
<1>12. CallFits(remote', current', stored')
  <2>1. Len(remote'.pipeline) - Len(remote'.toServer) = 0 /\ 1..0 = {}
    BY <1>4, <1>8
  <2>2. remote.caller = current
    BY <1>1, <1>2 DEF CallFits
  <2> QED
    BY <1>8, <2>1, <2>2 DEF CallFits, RunHandshakeRead
<1>13. TypeOK'
  <2>1. worker' \in Seq(Op)
    BY <1>2 DEF RunHandshakeRead
  <2> QED
    BY <1>1, <1>8, <2>1 DEF TypeOK, RunHandshakeRead, history
<1>14. QueuesFit'
  BY <1>1, QueuesStayFit DEF RunHandshakeRead, history, QueuesStay
<1> QED
  BY <1>2, <1>8, <1>9, <1>10, <1>11, <1>12, <1>13, <1>14 DEF IInv, RunHandshakeRead, history

LEMMA RunFailedIInv ==
  ASSUME IInv, RunFailed
  PROVE  IInv'
<1>1. /\ TypeOK /\ QueuesFit
      /\ OpsFit(worker, remote, current) /\ ChangesFit(worker, authUser, current)
  BY DEF IInv
<1>2. /\ worker \in Seq(Op) /\ worker # <<>> /\ Tail(worker) \in Seq(Op)
      /\ Head(worker).kind = "failed" /\ IsOpen(remote) /\ authUser \in Users
  BY <1>1, FirstOp DEF RunFailed, Runs, OfCall, TypeOK
<1>3. PICK e \in Op : /\ worker' = Append(Cancel(Tail(worker), {"read", "failed"}), e)
                      /\ e.kind = "finished" /\ e.live
  <2>1. [kind |-> "finished", user |-> authUser, msg |-> Handshake,
         flag |-> remote.ended = "refused", live |-> TRUE] \in Op
    BY <1>2 DEF Op, Kinds, Messages
  <2> QED
    BY <2>1 DEF RunFailed
<1>4. PICK rest : rest = Cancel(Tail(worker), {"read", "failed"})
  OBVIOUS
<1>5. /\ rest \in Seq(Op) /\ DOMAIN rest = DOMAIN Tail(worker)
      /\ \A i \in DOMAIN Tail(worker) :
           /\ rest[i].kind = Tail(worker)[i].kind
           /\ rest[i].live => Tail(worker)[i].live /\ rest[i].kind # "read"
  <2>1. PICK ops \in Seq(Op) : ops = Tail(worker)
    BY <1>2
  <2>2. PICK kinds : kinds = {"read", "failed"}
    OBVIOUS
  <2>3. /\ Cancel(ops, kinds) \in Seq(Op) /\ DOMAIN Cancel(ops, kinds) = DOMAIN ops
        /\ \A i \in DOMAIN ops :
             /\ Cancel(ops, kinds)[i].kind = ops[i].kind
             /\ Cancel(ops, kinds)[i].live = (ops[i].live /\ ops[i].kind \notin kinds)
    BY CancelIs, Zenon
  <2> QED
    BY <1>4, <2>1, <2>2, <2>3
<1>6. OpsFit(Tail(worker), remote, current) /\ ChangesFit(Tail(worker), authUser, current)
  BY <1>1, <1>2, TailFits, ChangesTail
<1>7. OpsFit(rest, remote, current)
  <2>1. \A i \in DOMAIN rest : \A kinds : Live(rest, i, kinds) => Live(Tail(worker), i, kinds)
    BY <1>5 DEF Live
  <2>4. ASSUME NEW i \in DOMAIN rest, Live(rest, i, {"token"})
        PROVE  /\ remote.state = "Starting" /\ ~remote.asked
               /\ rest[i].user = current \/ \E j \in 1..(i - 1) : rest[j].kind = "change"
               /\ \A j \in DOMAIN rest : Live(rest, j, {"token"}) => i = j
    <3>1. FALSE
      BY <1>2, <1>5, <1>6, <2>1, <2>4 DEF OpsFit
    <3> QED
      BY <3>1
  <2>5. \A i \in DOMAIN rest : ~Live(rest, i, {"read"})
    BY <1>5 DEF Live
  <2> QED
    BY <1>2, <2>4, <2>5 DEF OpsFit
<1>8. ChangesFit(rest, authUser, current)
  BY <1>2, <1>4, <1>6, ChangesCancel
<1>9. OpsFit(worker', remote', current')
  <2>1. OpsFit(Append(rest, e), remote, current)
    BY <1>2, <1>3, <1>5, <1>7, PostFits
  <2> QED
    BY <1>3, <1>4, <2>1 DEF RunFailed
<1>10. ChangesFit(worker', authUser', current')
  <2>1. ChangesFit(Append(rest, e), authUser, current)
    BY <1>3, <1>5, <1>8, ChangesPost
  <2> QED
    BY <1>3, <1>4, <2>1 DEF RunFailed
<1>11. TypeOK'
  <2>1. worker' \in Seq(Op)
    BY <1>3, <1>4, <1>5, AppendIs
  <2> QED
    BY <1>1, <2>1 DEF TypeOK, RunFailed, history
<1>12. QueuesFit'
  BY <1>1, QueuesStayFit DEF RunFailed, history, QueuesStay
<1> QED
  BY <1>9, <1>10, <1>11, <1>12 DEF IInv, RunFailed, history

-------------------------------------------------------------------------------
(* Answers. *)

\* Removing the oldest write of a queue leaves the rest.
LEMMA RemovesFirst ==
  ASSUME NEW q \in Seq(Writes), Increasing(q), q # <<>>
  PROVE  /\ Contains(q, q[1]) /\ Remove(q, q[1]) = Tail(q)
         /\ Tail(q) \in Seq(Writes) /\ Increasing(Tail(q))
         /\ \A i \in DOMAIN Tail(q) : \E j \in DOMAIN q : Tail(q)[i] = q[j]
<1>1. /\ Tail(q) \in Seq(Writes) /\ Len(q) \in Nat /\ Len(q) > 0
      /\ Len(Tail(q)) = Len(q) - 1
      /\ \A i \in 1..(Len(q) - 1) : Tail(q)[i] = q[i + 1]
  BY TailIs
<1>2. DOMAIN q = 1..Len(q) /\ DOMAIN Tail(q) = 1..(Len(q) - 1)
  BY <1>1
<1>3. 1 \in DOMAIN q /\ Contains(q, q[1])
  BY <1>1, <1>2 DEF Contains
<1>4. \A i \in DOMAIN q : q[i] \in Nat
  BY DEF Writes
<1>5. \A i \in DOMAIN q : q[i] = q[1] => i = 1
  <2> SUFFICES ASSUME NEW i \in DOMAIN q, q[i] = q[1], i # 1 PROVE FALSE
    OBVIOUS
  <2>1. 1 < i
    BY <1>2
  <2>2. q[1] < q[i]
    BY <1>3, <2>1 DEF Increasing
  <2> QED
    BY <1>3, <1>4, <2>2
<1>6. (CHOOSE i \in DOMAIN q : q[i] = q[1]) = 1
  BY <1>3, <1>5
<1>7. Remove(q, q[1]) = SubSeq(q, 1, 1 - 1) \o SubSeq(q, 1 + 1, Len(q))
  BY <1>3, <1>6, Zenon DEF Remove
<1>8. SubSeq(q, 1, 1 - 1) \o SubSeq(q, 1 + 1, Len(q)) = Tail(q)
  <2>1. SubSeq(q, 1, 1 - 1) = <<>>
    OBVIOUS
  <2>2. SubSeq(q, 1 + 1, Len(q)) = Tail(q)
    OBVIOUS
  <2>3. <<>> \o Tail(q) = Tail(q)
    BY <1>1
  <2> QED
    BY <2>1, <2>2, <2>3, Zenon
<1>9. Increasing(Tail(q))
  <2> SUFFICES ASSUME NEW i \in DOMAIN Tail(q), NEW j \in DOMAIN Tail(q), i < j
               PROVE  Tail(q)[i] < Tail(q)[j]
    BY DEF Increasing
  <2>1. i + 1 \in DOMAIN q /\ j + 1 \in DOMAIN q /\ i + 1 < j + 1
    BY <1>1, <1>2
  <2>2. q[i + 1] < q[j + 1]
    BY <2>1 DEF Increasing
  <2> QED
    BY <1>1, <1>2, <2>2
<1>10. ASSUME NEW i \in DOMAIN Tail(q) PROVE \E j \in DOMAIN q : Tail(q)[i] = q[j]
  <2>1. i + 1 \in DOMAIN q
    BY <1>1, <1>2
  <2> QED
    BY <1>1, <1>2, <2>1
<1> QED
  BY <1>1, <1>3, <1>7, <1>8, <1>9, <1>10

\* The rest of a prefix is a prefix of the rest.
LEMMA PrefixTails ==
  ASSUME NEW q \in Seq(Writes), NEW p \in Seq(Writes), IsPrefix(p, q), p # <<>>
  PROVE  q # <<>> /\ p[1] = q[1] /\ IsPrefix(Tail(p), Tail(q))
<1>1. /\ Tail(p) \in Seq(Writes) /\ Len(p) \in Nat /\ Len(p) > 0
      /\ Len(Tail(p)) = Len(p) - 1
      /\ \A i \in 1..(Len(p) - 1) : Tail(p)[i] = p[i + 1]
  BY TailIs
<1>2. PICK a \in Nat, b \in Nat : a = Len(p) /\ b = Len(q)
  OBVIOUS
<1>3. a > 0 /\ a <= b /\ \A i \in 1..a : p[i] = q[i]
  BY <1>1, <1>2, Zenon DEF IsPrefix
<1>4. q # <<>> /\ 1 \in 1..a
  BY <1>2, <1>3
<1>5. /\ Len(Tail(q)) = Len(q) - 1
      /\ \A i \in 1..(Len(q) - 1) : Tail(q)[i] = q[i + 1]
  BY <1>4, TailIs
<1>6. ASSUME NEW i \in 1..(a - 1) PROVE Tail(p)[i] = Tail(q)[i]
  <2>1. i \in 1..(b - 1) /\ i + 1 \in 1..a
    BY <1>3
  <2> QED
    BY <1>1, <1>2, <1>3, <1>5, <2>1
<1>7. a - 1 <= b - 1
  BY <1>3
<1> QED
  BY <1>1, <1>2, <1>3, <1>4, <1>5, <1>6, <1>7 DEF IsPrefix

\* An answer to the oldest write of the current user keeps the queues in order.
LEMMA AnswerFits ==
  ASSUME TypeOK, QueuesFit, queue[current] # <<>>, NEW end \in {"ok", "error"},
         NotifyUser(queue[current][1], end),
         queue' = [queue EXCEPT ![current] = Tail(queue[current])],
         UNCHANGED <<owner, stored>>
  PROVE  /\ QueuesFit'
         /\ queue' \in [Users -> Seq(Writes)]
         /\ told' \in [Writes -> {"unissued", "waiting", "ok", "error", "lost"}]
         /\ queue'[current] = Tail(queue[current])
<1> DEFINE q == queue[current]
           w == q[1]
<1>1. /\ queue \in [Users -> Seq(Writes)] /\ current \in Users /\ q \in Seq(Writes)
      /\ told \in [Writes -> {"unissued", "waiting", "ok", "error", "lost"}]
      /\ Increasing(q)
  BY DEF TypeOK, QueuesFit
<1>2. /\ Tail(q) \in Seq(Writes) /\ Increasing(Tail(q))
      /\ \A i \in DOMAIN Tail(q) : \E j \in DOMAIN q : Tail(q)[i] = q[j]
  BY <1>1, RemovesFirst
<1>3. w \in Writes /\ told[w] # "unissued"
  <2>1. 1 \in DOMAIN q /\ w \in Writes
    BY <1>1
  <2> QED
    BY <1>1, <2>1 DEF QueuesFit
<1>4. told' = [told EXCEPT ![w] = IF @ = "waiting" THEN end ELSE @]
  BY DEF NotifyUser
<1>5. /\ told' \in [Writes -> {"unissued", "waiting", "ok", "error", "lost"}]
      /\ \A v \in Writes : told'[v] = "unissued" <=> told[v] = "unissued"
  BY <1>1, <1>3, <1>4
<1>6. /\ queue' \in [Users -> Seq(Writes)] /\ queue'[current] = Tail(q)
      /\ \A u \in Users : u # current => queue'[u] = queue[u]
  BY <1>1, <1>2
<1> HIDE DEF q, w
<1>7. \A u \in Users : Increasing(queue'[u])
  BY <1>2, <1>6 DEF QueuesFit
<1>8. ASSUME NEW u \in Users, NEW i \in DOMAIN queue'[u]
      PROVE  owner'[queue'[u][i]] = u /\ told'[queue'[u][i]] # "unissued"
  <2>1. PICK j \in DOMAIN queue[u] : queue'[u][i] = queue[u][j]
    BY <1>2, <1>6, <1>8 DEF q
  <2>2. queue[u] \in Seq(Writes)
    BY <1>1
  <2>3. queue[u][j] \in Writes
    BY <2>1, <2>2
  <2>4. owner[queue[u][j]] = u /\ told[queue[u][j]] # "unissued"
    BY <2>1 DEF QueuesFit
  <2> QED
    BY <1>5, <2>1, <2>3, <2>4
<1>9. StoredInOrder'
  <2>1. \A u \in Users : \A v \in Writes : Contains(queue'[u], v) => Contains(queue[u], v)
    BY <1>2, <1>6 DEF Contains, q
  <2>2. \A v \in Writes : owner[v] \in Users
    BY DEF TypeOK
  <2>3. StoredInOrder
    BY DEF QueuesFit
  <2> QED
    BY <2>1, <2>2, <2>3 DEF StoredInOrder
<1>10. QueuesFit'
  BY <1>5, <1>7, <1>8, <1>9 DEF QueuesFit, WrittenAsOwner
<1> QED
  BY <1>5, <1>6, <1>10 DEF q

LEMMA RunFinishedIInv ==
  ASSUME IInv, RunFinished
  PROVE  IInv' /\ ~IsOpen(remote')
<1> DEFINE permanent == Head(worker).flag
<1>1. /\ TypeOK /\ QueuesFit /\ Settled(remote, queue[current])
      /\ ChangesFit(worker, authUser, current)
  BY DEF IInv
<1>2. /\ worker \in Seq(Op) /\ worker # <<>> /\ Tail(worker) \in Seq(Op)
      /\ Head(worker).kind = "finished" /\ permanent \in BOOLEAN /\ IsOpen(remote)
  BY FirstOp DEF RunFinished, Runs, OfCall, Op
<1>3. queue[current] \in Seq(Writes) /\ Increasing(queue[current]) /\ remote \in Remote
  BY <1>1 DEF TypeOK, QueuesFit
<1>4. PICK r : r = CloseSteps(remote, FALSE)
  OBVIOUS
<1>5. Broken(r) /\ r.handshake = remote.handshake /\ r.pipeline = remote.pipeline
  BY <1>1, <1>2, <1>3, <1>4, Breaks
<1>6. /\ remote' = ClosedByError(r, permanent, queue[current])
      /\ worker' = Cancel(Tail(worker), OfStream) /\ "change" \notin OfStream
  BY <1>4 DEF RunFinished, OfStream, OfCall
<1>7. ~BlamesFront(r, permanent)
  BY <1>5 DEF RunFinished, BlamesFront
<1> HIDE DEF permanent
<1>8. Settled(remote', queue[current]) /\ ~IsOpen(remote')
  <2>1. IsPrefix(r.pipeline, queue[current])
    BY <1>1, <1>5 DEF Settled, Core
  <2> QED
    BY <1>2, <1>3, <1>5, <1>6, <1>7, <2>1, RecoversFromError
<1>9. OpsFit(worker', remote', current')
  BY <1>2, <1>6, VoidOpsFit
<1>10. ChangesFit(worker', authUser', current')
  <2>1. ChangesFit(Tail(worker), authUser, current)
    BY <1>1, <1>2, ChangesTail
  <2> QED
    BY <1>2, <1>6, <2>1, ChangesCancel DEF RunFinished
<1>11. CallFits(remote', current', stored')
  BY <1>8 DEF CallFits
<1>12. TypeOK'
  <2>1. remote' \in Remote /\ worker' \in Seq(Op)
    BY <1>2, <1>6, <1>8, CancelIs DEF Settled, Core
  <2> QED
    BY <1>1, <2>1 DEF TypeOK, RunFinished, history
<1>13. QueuesFit'
  BY <1>1, QueuesStayFit DEF RunFinished, history, QueuesStay
<1> QED
  BY <1>8, <1>9, <1>10, <1>11, <1>12, <1>13 DEF IInv, RunFinished, history

LEMMA RunFinishedOkIInv ==
  ASSUME IInv, RunFinishedOk
  PROVE  IInv' /\ ~IsOpen(remote')
<1>1. /\ TypeOK /\ QueuesFit /\ Settled(remote, queue[current])
      /\ ChangesFit(worker, authUser, current)
  BY DEF IInv
<1>2. /\ worker \in Seq(Op) /\ worker # <<>> /\ Tail(worker) \in Seq(Op)
      /\ Head(worker).kind = "finished" /\ IsOpen(remote)
  BY FirstOp DEF RunFinishedOk, Runs, OfCall, Op
<1>3. queue[current] \in Seq(Writes) /\ remote \in Remote /\ remote.enabled
  BY <1>1 DEF TypeOK, Settled, Core
<1>4. PICK r : r = CloseSteps(remote, TRUE)
  OBVIOUS
<1>5. r.state = "Initial" /\ r.enabled = remote.enabled /\ r.pipeline = remote.pipeline
  <2>1. TRUE \in BOOLEAN /\ IsStarted(remote)
    BY <1>2
  <2> HIDE DEF IsStarted
  <2> QED
    BY <1>3, <1>4, <2>1, Closes
<1>6. /\ remote' = ClosedGracefully(CloseSteps(remote, TRUE))
      /\ worker' = Cancel(Tail(worker), OfStream) /\ "change" \notin OfStream
      /\ ~ShouldStartWriteStream(r)
  BY <1>4 DEF RunFinishedOk, OfStream, OfCall
<1>7. remote.pipeline = <<>>
  BY <1>3, <1>5, <1>6 DEF ShouldStartWriteStream
<1>8. Settled(remote', queue[current]) /\ ~IsOpen(remote')
  BY <1>1, <1>2, <1>3, <1>6, <1>7, ClosesWhenEmpty
<1>9. OpsFit(worker', remote', current')
  BY <1>2, <1>6, VoidOpsFit
<1>10. ChangesFit(worker', authUser', current')
  <2>1. ChangesFit(Tail(worker), authUser, current)
    BY <1>1, <1>2, ChangesTail
  <2> QED
    BY <1>2, <1>6, <2>1, ChangesCancel DEF RunFinishedOk
<1>11. CallFits(remote', current', stored')
  BY <1>8 DEF CallFits
<1>12. TypeOK'
  <2>1. remote' \in Remote /\ worker' \in Seq(Op)
    BY <1>2, <1>6, <1>8, CancelIs DEF Settled, Core
  <2> QED
    BY <1>1, <2>1 DEF TypeOK, RunFinishedOk, history
<1>13. QueuesFit'
  BY <1>1, QueuesStayFit DEF RunFinishedOk, history, QueuesStay
<1> QED
  BY <1>8, <1>9, <1>10, <1>11, <1>12, <1>13 DEF IInv, RunFinishedOk, history

LEMMA RunAbortsIInv ==
  ASSUME IInv, RunAborts
  PROVE  IInv' /\ ~IsOpen(remote')
<1>1. faults' \in 0..MaxFaults
  BY DEF IInv, TypeOK, RunAborts
<1> QED
  BY <1>1, RelaunchIInv DEF RunAborts

LEMMA RunRejectedIInv ==
  ASSUME IInv, RunRejected
  PROVE  IInv' /\ ~IsOpen(remote')
<1> DEFINE q == queue[current]
           w == Head(remote.pipeline)
<1>1. /\ TypeOK /\ QueuesFit /\ Settled(remote, q)
      /\ ChangesFit(worker, authUser, current)
  BY DEF IInv
<1>2. /\ worker \in Seq(Op) /\ worker # <<>> /\ Tail(worker) \in Seq(Op)
      /\ Head(worker).kind = "finished" /\ IsOpen(remote)
  BY FirstOp DEF RunRejected, Runs, OfCall
<1>3. q \in Seq(Writes) /\ Increasing(q) /\ remote \in Remote /\ current \in Users
  BY <1>1 DEF TypeOK, QueuesFit
<1>4. /\ Head(worker).flag /\ remote.handshake /\ remote.pipeline # <<>>
      /\ remote.pipeline \in Seq(Writes) /\ IsPrefix(remote.pipeline, q)
  BY <1>1, <1>3 DEF RunRejected, BlamesFront, Settled, Core, Remote
<1>5. /\ q # <<>> /\ w = q[1] /\ IsPrefix(Tail(remote.pipeline), Tail(q))
  BY <1>3, <1>4, PrefixTails
<1>6. Contains(q, w) /\ Remove(q, w) = Tail(q) /\ Tail(q) \in Seq(Writes)
      /\ Increasing(Tail(q))
  BY <1>3, <1>5, RemovesFirst
<1>7. PICK r : r = CloseSteps(remote, FALSE)
  OBVIOUS
<1>8. Broken(r) /\ r.handshake = remote.handshake /\ r.pipeline = remote.pipeline
  BY <1>1, <1>2, <1>3, <1>7, Breaks
<1>9. Assert(r, Contains(q, w)) = r
  BY <1>6, <1>8 DEF Broken, Remote
<1>10. /\ remote' = ClosedByError(r, TRUE, Tail(q))
       /\ worker' = Cancel(Tail(worker), OfStream) /\ "change" \notin OfStream
       /\ queue' = [queue EXCEPT ![current] = Tail(q)]
       /\ NotifyUser(q[1], "error")
  <2> HIDE DEF Assert
  <2> QED
    BY <1>5, <1>6, <1>7, <1>9 DEF RunRejected, OfStream, OfCall
<1>11. Settled(remote', Tail(q)) /\ ~IsOpen(remote')
  <2>1. BlamesFront(r, TRUE) /\ TRUE \in BOOLEAN
    BY <1>4, <1>8 DEF BlamesFront
  <2> QED
    BY <1>5, <1>6, <1>8, <1>10, <2>1, RecoversFromError
<1>12. /\ QueuesFit'
       /\ queue' \in [Users -> Seq(Writes)]
       /\ told' \in [Writes -> {"unissued", "waiting", "ok", "error", "lost"}]
       /\ queue'[current] = Tail(q)
  BY <1>1, <1>5, <1>10, AnswerFits DEF RunRejected, history
<1>13. OpsFit(worker', remote', current')
  BY <1>2, <1>10, VoidOpsFit
<1>14. ChangesFit(worker', authUser', current')
  <2>1. ChangesFit(Tail(worker), authUser, current)
    BY <1>1, <1>2, ChangesTail
  <2>2. ChangesFit(Cancel(Tail(worker), OfStream), authUser, current)
    BY <1>2, <1>10, <2>1, ChangesCancel
  <2> QED
    BY <1>10, <2>2 DEF RunRejected
<1>15. CallFits(remote', current', stored')
  BY <1>11 DEF CallFits
<1>16. TypeOK'
  <2>1. remote' \in Remote /\ worker' \in Seq(Op)
    BY <1>2, <1>10, <1>11, CancelIs DEF Settled, Core
  <2> QED
    BY <1>1, <1>12, <2>1 DEF TypeOK, RunRejected, history
<1> HIDE DEF q
<1>17. Settled(remote', queue'[current'])
  BY <1>11, <1>12 DEF RunRejected
<1> QED
  BY <1>11, <1>12, <1>13, <1>14, <1>15, <1>16, <1>17 DEF IInv

LEMMA RunResultReadIInv ==
  ASSUME IInv, RunResultRead
  PROVE  /\ IInv' /\ IsOpen(remote)
         /\ FilledFrom(remote', [remote EXCEPT !.pipeline = Tail(@)], queue'[current])
         /\ Len(Tail(remote.pipeline)) = Len(remote.pipeline) - 1
<1> DEFINE q == queue[current]
           w == Head(remote.pipeline)
<1>1. /\ TypeOK /\ QueuesFit /\ Settled(remote, q) /\ OpsFit(worker, remote, current)
      /\ ChangesFit(worker, authUser, current) /\ CallFits(remote, current, stored)
  BY DEF IInv
<1>2. /\ worker \in Seq(Op) /\ worker # <<>> /\ Tail(worker) \in Seq(Op)
      /\ 1 \in DOMAIN worker /\ Head(worker) = worker[1]
      /\ Head(worker).kind = "read" /\ Head(worker).live /\ IsOpen(remote)
  BY FirstOp DEF RunResultRead, Runs, OfCall
<1>3. Live(worker, 1, {"read"}) /\ Owed(remote)
  BY <1>1, <1>2 DEF OpsFit, Live
<1>4. /\ q \in Seq(Writes) /\ Increasing(q) /\ current \in Users
      /\ remote \in Remote /\ remote.handshake /\ remote.sound
      /\ remote.pipeline \in Seq(Writes) /\ IsPrefix(remote.pipeline, q)
      /\ remote.toServer \in Seq(Messages) /\ remote.toClient \in Seq(Messages)
      /\ IsSuffix(remote.toServer, remote.pipeline)
  BY <1>1, <1>2 DEF RunResultRead, Settled, Core, Remote, TypeOK, QueuesFit
<1>5. PICK a \in Nat, b \in Nat, c \in Nat :
        a = Len(remote.toServer) /\ b = Len(remote.toClient) /\ c = Len(remote.pipeline)
  BY <1>4
<1>6. a + b < c
  BY <1>3, <1>4, <1>5 DEF Owed
<1>7. remote.pipeline # <<>> /\ 0 < c
  <2>1. 0 < c /\ Len(<<>>) = 0 /\ c # 0
    BY <1>6
  <2> QED
    BY <1>5, <2>1, Zenon
<1>8. /\ Tail(remote.pipeline) \in Seq(Writes) /\ Len(Tail(remote.pipeline)) = c - 1
      /\ \A i \in 1..(c - 1) : Tail(remote.pipeline)[i] = remote.pipeline[i + 1]
  BY <1>4, <1>5, <1>7, TailIs
<1>9. q # <<>> /\ w = q[1] /\ IsPrefix(Tail(remote.pipeline), Tail(q))
  BY <1>4, <1>7, PrefixTails
<1>10. /\ Contains(q, w) /\ Remove(q, w) = Tail(q) /\ Tail(q) \in Seq(Writes)
       /\ Increasing(Tail(q))
  BY <1>4, <1>9, RemovesFirst
<1>11. PICK r : r = [remote EXCEPT !.pipeline = Tail(@)]
  OBVIOUS
<1>12. /\ r \in Remote /\ r.pipeline = Tail(remote.pipeline)
       /\ r.toServer = remote.toServer /\ r.toClient = remote.toClient
       /\ r.state = remote.state /\ r.handshake = remote.handshake
       /\ r.idle = remote.idle /\ r.backoff = remote.backoff
       /\ r.asked = remote.asked /\ r.enabled = remote.enabled
       /\ r.caller = remote.caller /\ r.ended = remote.ended
       /\ r.sound = remote.sound
  BY <1>4, <1>8, <1>11 DEF Remote
<1>13. Assert(PopFront(Assert(remote, IsStarted(remote))), Contains(q, w)) = r
  <2>1. Assert(remote, IsStarted(remote)) = remote
    BY <1>2, <1>4 DEF Remote
  <2>2. PopFront(remote) = r
    BY <1>4, <1>7, <1>11 DEF PopFront, Remote
  <2>3. Assert(r, Contains(q, w)) = r
    BY <1>4, <1>10, <1>12 DEF Remote
  <2> HIDE DEF Assert
  <2> QED
    BY <2>1, <2>2, <2>3
<1>14. /\ remote' = FillWritePipeline(r, Tail(q))
       /\ worker' = Tail(worker)
       /\ queue' = [queue EXCEPT ![current] = Tail(q)]
       /\ NotifyUser(q[1], "ok")
  <2> HIDE DEF Assert
  <2> QED
    BY <1>9, <1>10, <1>13 DEF RunResultRead
<1>15. Core(r, Tail(q))
  <2>1. ASSUME NEW i \in 1..a
        PROVE  remote.toServer[i] = Tail(remote.pipeline)[c - 1 - a + i]
    <3>1. remote.toServer[i] = remote.pipeline[c - a + i]
      BY <1>4, <1>5 DEF IsSuffix
    <3>2. c - 1 - a + i \in 1..(c - 1) /\ (c - 1 - a + i) + 1 = c - a + i
      BY <1>6
    <3> QED
      BY <1>8, <3>1, <3>2
  <2>2. a <= c - 1 /\ a + b <= c - 1
    BY <1>6
  <2>3. IsSuffix(remote.toServer, Tail(remote.pipeline))
    BY <1>5, <1>8, <2>1, <2>2 DEF IsSuffix
  <2>4. Len(r.pipeline) <= MaxPending
    <3>1. c <= MaxPending
      BY <1>1, <1>5 DEF Settled, Core
    <3>2. c - 1 <= MaxPending
      BY <3>1
    <3> QED
      BY <1>8, <1>12, <3>2
  <2>5. Len(r.toServer) + Len(r.toClient) <= Len(r.pipeline)
    BY <1>5, <1>8, <1>12, <2>2
  <2>6. r.state = "Open" /\ ~r.idle
    BY <1>1, <1>2, <1>7, <1>12 DEF Settled, Core
  <2> QED
    BY <1>1, <1>4, <1>9, <1>12, <2>3, <2>4, <2>5, <2>6 DEF Settled, Core
<1>16. PICK f : f = FillWritePipeline(r, Tail(q))
  OBVIOUS
<1>17. FilledFrom(f, r, Tail(q))
  BY <1>10, <1>15, <1>16, Fills, Zenon
<1>18. Settled(remote', Tail(q)) /\ IsOpen(remote') /\ remote'.caller = remote.caller
  BY <1>2, <1>12, <1>14, <1>16, <1>17 DEF Settled, FilledFrom
<1>19. /\ QueuesFit'
       /\ queue' \in [Users -> Seq(Writes)]
       /\ told' \in [Writes -> {"unissued", "waiting", "ok", "error", "lost"}]
       /\ queue'[current] = Tail(q)
  BY <1>1, <1>9, <1>14, AnswerFits DEF RunResultRead, history
<1>20. OpsFit(worker', remote', current')
  <2>1. OpsFit(Tail(worker), remote, current)
        /\ \A i \in DOMAIN Tail(worker) : ~Live(Tail(worker), i, {"read"})
    BY <1>1, <1>2, <1>3, TailFits
  <2>2. OpsFit(Tail(worker), remote', current)
    BY <1>2, <1>18, <2>1 DEF OpsFit
  <2> QED
    BY <1>14, <2>2 DEF RunResultRead
<1>21. ChangesFit(worker', authUser', current')
  <2>1. ChangesFit(Tail(worker), authUser, current)
    BY <1>1, <1>2, ChangesTail
  <2> QED
    BY <1>14, <2>1 DEF RunResultRead
<1>22. CallFits(remote', current', stored')
  <2>1. ASSUME r.ended = "no", NEW i \in 1..(Len(r.pipeline) - Len(r.toServer))
        PROVE  stored[r.pipeline[i]] # {}
    <3>1. Len(r.pipeline) = c - 1 /\ Len(r.toServer) = a
      BY <1>5, <1>8, <1>12
    <3>2. i \in 1..(c - 1) /\ i + 1 \in 1..(c - a)
      BY <1>6, <2>1, <3>1
    <3>3. stored[remote.pipeline[i + 1]] # {}
      BY <1>1, <1>2, <1>4, <1>5, <1>12, <2>1, <3>2 DEF CallFits
    <3> QED
      BY <1>8, <1>12, <3>2, <3>3
  <2>2. CallFits(r, current, stored)
    BY <1>1, <1>2, <1>12, <2>1 DEF CallFits
  <2>3. CallFits(f, current, stored)
    BY <1>2, <1>10, <1>12, <1>15, <1>17, <2>2, FillsFitCall
  <2> QED
    BY <1>14, <1>16, <2>3 DEF RunResultRead, history
<1>23. TypeOK'
  <2>1. remote' \in Remote
    BY <1>18 DEF Settled, Core
  <2> QED
    BY <1>1, <1>2, <1>14, <1>19, <2>1 DEF TypeOK, RunResultRead, history
<1> HIDE DEF q
<1>24. Settled(remote', queue'[current'])
  BY <1>18, <1>19 DEF RunResultRead
<1>25. FilledFrom(remote', r, queue'[current])
  BY <1>14, <1>16, <1>17, <1>19
<1>26. Len(Tail(remote.pipeline)) = Len(remote.pipeline) - 1
  BY <1>5, <1>8
<1> QED
  BY <1>2, <1>11, <1>19, <1>20, <1>21, <1>22, <1>23, <1>24, <1>25, <1>26 DEF IInv

\* A write is issued: the queue of the current user grows.
LEMMA WriteMutationsOfIInv ==
  ASSUME IInv, NEW w \in Writes, WriteMutationsOf(w)
  PROVE  IInv' /\ FilledFrom(remote', remote, queue'[current])
<1> DEFINE q0 == queue[current]
           q  == Append(q0, w)
<1>1. /\ TypeOK /\ QueuesFit /\ Settled(remote, q0) /\ OpsFit(worker, remote, current)
      /\ ChangesFit(worker, authUser, current) /\ CallFits(remote, current, stored)
  BY DEF IInv
<1>2. /\ q0 \in Seq(Writes) /\ Increasing(q0) /\ current \in Users
      /\ queue \in [Users -> Seq(Writes)]
      /\ told \in [Writes -> {"unissued", "waiting", "ok", "error", "lost"}]
      /\ owner \in [Writes -> Users] /\ stored \in [Writes -> SUBSET Users]
  BY <1>1 DEF TypeOK, QueuesFit
<1>3. /\ q \in Seq(Writes) /\ Len(q0) \in Nat /\ Len(q) = Len(q0) + 1
      /\ \A i \in 1..Len(q0) : q[i] = q0[i]
      /\ q[Len(q0) + 1] = w
  BY <1>2, AppendIs
<1>4. DOMAIN q = 1..(Len(q0) + 1) /\ DOMAIN q0 = 1..Len(q0)
  BY <1>2, <1>3
<1>5. authUser = current
  BY <1>1 DEF WriteMutationsOf, Posted, ChangesFit
<1>6. /\ told[w] = "unissued" /\ \A v \in 1..(w - 1) : told[v] # "unissued"
      /\ owner' = [owner EXCEPT ![w] = current]
      /\ queue' = [queue EXCEPT ![current] = q]
      /\ told' = [told EXCEPT ![w] = "waiting"]
      /\ remote' = FillWritePipeline(remote, q)
      /\ UNCHANGED <<current, authUser, worker, stored, refused, faults>>
  BY <1>5 DEF WriteMutationsOf
<1> HIDE DEF q
<1>7. \A i \in DOMAIN q0 : q0[i] \in Writes /\ q0[i] # w /\ q0[i] < w
  <2> SUFFICES ASSUME NEW i \in DOMAIN q0
               PROVE  q0[i] \in Writes /\ q0[i] # w /\ q0[i] < w
    OBVIOUS
  <2>1. q0[i] \in Writes /\ told[q0[i]] # "unissued"
    BY <1>1, <1>2 DEF QueuesFit
  <2>2. ~(w < q0[i]) /\ q0[i] # w
    BY <1>1, <1>6, <2>1 DEF QueuesFit
  <2> QED
    BY <2>1, <2>2 DEF Writes
<1>8. Increasing(q)
  <2> SUFFICES ASSUME NEW i \in DOMAIN q, NEW j \in DOMAIN q, i < j PROVE q[i] < q[j]
    BY DEF Increasing
  <2>1. i \in DOMAIN q0 /\ q[i] = q0[i]
    BY <1>3, <1>4
  <2>2. CASE j \in DOMAIN q0
    BY <1>2, <1>3, <1>4, <2>1, <2>2 DEF Increasing
  <2>3. CASE j = Len(q0) + 1
    BY <1>3, <1>7, <2>1, <2>3
  <2> QED
    BY <1>3, <1>4, <2>2, <2>3
<1>9. Core(remote, q)
  <2>1. remote.pipeline \in Seq(Writes) /\ IsPrefix(remote.pipeline, q0)
    BY <1>1 DEF Settled, Core, Remote
  <2>2. IsPrefix(remote.pipeline, q)
    <3>1. PICK a \in Nat : a = Len(remote.pipeline)
      BY <2>1
    <3>2. a <= Len(q0) /\ \A i \in 1..a : remote.pipeline[i] = q0[i]
      BY <2>1, <3>1 DEF IsPrefix
    <3>3. a <= Len(q0) + 1 /\ \A i \in 1..a : i \in 1..Len(q0)
      BY <1>3, <3>2
    <3> QED
      BY <1>3, <3>1, <3>2, <3>3 DEF IsPrefix
  <2> QED
    BY <1>1, <2>2 DEF Settled, Core
<1>10. PICK f : f = FillWritePipeline(remote, q)
  OBVIOUS
<1>11. /\ FilledFrom(f, remote, q)
       /\ Core(f, q)
       /\ IsStarted(f) \/ f.pipeline = <<>>
       /\ IsStarted(remote) => f.state = remote.state /\ f.asked = remote.asked
       /\ ~IsOpen(remote) => ~IsOpen(f)
       /\ f.caller = remote.caller /\ f.handshake = remote.handshake
       /\ IsOpen(remote) => f.toClient = remote.toClient
       /\ IsOpen(remote) /\ ~remote.handshake => f.toServer = remote.toServer
       /\ IsOpen(remote) /\ remote.handshake =>
            Len(f.toServer) + Len(remote.pipeline) = Len(remote.toServer) + Len(f.pipeline)
  <2>1. FilledFrom(f, remote, q)
    BY <1>3, <1>8, <1>9, <1>10, Fills, Zenon
  <2> QED
    BY <2>1 DEF FilledFrom
<1>12. remote' = f
  BY <1>6, <1>10
<1>13. Settled(f, q)
  BY <1>1, <1>11 DEF Settled
<1>14. OpsFit(worker', remote', current')
  <2>1. IsOpen(remote) /\ Owed(remote) => Owed(f)
    <3> SUFFICES ASSUME IsOpen(remote), Owed(remote) PROVE Owed(f)
      OBVIOUS
    <3>1. CASE ~remote.handshake
      BY <1>11, <3>1 DEF Owed
    <3>2. CASE remote.handshake
      <4>1. f \in Remote /\ remote \in Remote
        BY <1>9, <1>11 DEF Core
      <4>2. PICK a \in Nat, b \in Nat, c \in Nat, d \in Nat, e \in Nat :
              /\ a = Len(remote.toServer) /\ b = Len(remote.toClient)
              /\ c = Len(remote.pipeline) /\ d = Len(f.toServer) /\ e = Len(f.pipeline)
        BY <4>1 DEF Remote
      <4>3. a + b < c /\ d + c = a + e /\ Len(f.toClient) = b
        BY <1>11, <3>2, <4>2 DEF Owed
      <4>4. d + b < e
        BY <4>3
      <4> QED
        BY <1>11, <3>2, <4>2, <4>3, <4>4 DEF Owed
    <3> QED
      BY <3>1, <3>2
  <2>2. OpsFit(worker, f, current)
    BY <1>1, <1>11, <2>1, OpsFitOn
  <2> QED
    BY <1>6, <1>12, <2>2
<1>15. CallFits(remote', current', stored')
  <2>1. CallFits(f, current, stored)
    BY <1>1, <1>3, <1>9, <1>11, FillsFitCall
  <2> QED
    BY <1>6, <1>12, <2>1
<1>16. /\ queue' \in [Users -> Seq(Writes)] /\ queue'[current] = q
       /\ \A u \in Users : u # current => queue'[u] = queue[u]
  BY <1>2, <1>3, <1>6
<1>17. TypeOK'
  <2>1. f \in Remote
    BY <1>11 DEF Core
  <2> QED
    BY <1>1, <1>2, <1>6, <1>12, <1>16, <2>1 DEF TypeOK
<1>18. QueuesFit'
  <2>1. \A v, x \in Writes : v < x /\ told'[v] = "unissued" => told'[x] = "unissued"
    <3> SUFFICES ASSUME NEW v \in Writes, NEW x \in Writes, v < x, told'[v] = "unissued"
                 PROVE  told'[x] = "unissued"
      OBVIOUS
    <3>1. v # w /\ told[v] = "unissued"
      BY <1>2, <1>6
    <3>2. w < v
      BY <1>6, <3>1 DEF Writes
    <3>3. x # w
      BY <3>2 DEF Writes
    <3> QED
      BY <1>1, <1>2, <1>6, <3>1, <3>3 DEF QueuesFit
  <2>2. \A u \in Users : Increasing(queue'[u])
    BY <1>1, <1>8, <1>16 DEF QueuesFit
  <2>3. ASSUME NEW u \in Users, NEW i \in DOMAIN queue'[u]
        PROVE  owner'[queue'[u][i]] = u /\ told'[queue'[u][i]] # "unissued"
    <3>1. CASE \E j \in DOMAIN queue[u] : queue'[u][i] = queue[u][j]
      <4>1. PICK j \in DOMAIN queue[u] : queue'[u][i] = queue[u][j]
        BY <3>1
      <4>2. queue[u][j] \in Writes /\ owner[queue[u][j]] = u /\ told[queue[u][j]] # "unissued"
        BY <1>1, <1>2 DEF QueuesFit
      <4> QED
        BY <1>2, <1>6, <4>1, <4>2
    <3>2. CASE u = current /\ i = Len(q0) + 1
      BY <1>2, <1>3, <1>6, <1>16, <3>2
    <3>3. u # current => queue'[u] = queue[u]
      BY <1>16
    <3>4. u = current => i = Len(q0) + 1 \/ (i \in DOMAIN q0 /\ queue'[u][i] = q0[i])
      <4> SUFFICES ASSUME u = current
                   PROVE  i = Len(q0) + 1 \/ (i \in DOMAIN q0 /\ q[i] = q0[i])
        BY <1>16
      <4>1. i \in 1..(Len(q0) + 1)
        BY <1>4, <1>16, <2>3
      <4> QED
        BY <1>3, <1>4, <4>1
    <3> QED
      BY <2>3, <3>1, <3>2, <3>3, <3>4
  <2>4. \A v \in Writes : stored'[v] # {} => told'[v] # "unissued"
    BY <1>1, <1>2, <1>6 DEF QueuesFit
  <2>5. \A v \in Writes : stored'[v] \subseteq {owner'[v]}
    <3>1. stored[w] = {}
      BY <1>1, <1>6 DEF QueuesFit
    <3> QED
      BY <1>1, <1>2, <1>6, <3>1 DEF QueuesFit, WrittenAsOwner
  <2>6. StoredInOrder'
    <3> SUFFICES ASSUME NEW v \in Writes, NEW x \in Writes,
                        v < x, owner'[v] = owner'[x], stored[x] # {}, stored[v] = {}
                 PROVE  ~Contains(queue'[owner'[v]], v)
      BY <1>6 DEF StoredInOrder
    <3>1. x # w /\ v # w
      <4>1. told[x] # "unissued"
        BY <1>1 DEF QueuesFit
      <4>2. told[v] # "unissued"
        BY <1>1, <4>1 DEF QueuesFit
      <4> QED
        BY <1>6, <4>1, <4>2
    <3>2. owner'[v] = owner[v] /\ owner'[x] = owner[x] /\ owner[v] \in Users
      BY <1>2, <1>6, <3>1
    <3>3. ~Contains(queue[owner[v]], v)
      BY <1>1, <3>2 DEF QueuesFit, StoredInOrder
    <3>4. CASE owner[v] = current
      BY <1>3, <1>4, <1>16, <3>1, <3>2, <3>3, <3>4 DEF Contains
    <3>5. CASE owner[v] # current
      BY <1>16, <3>2, <3>3, <3>5
    <3> QED
      BY <3>4, <3>5
  <2> QED
    BY <2>1, <2>2, <2>3, <2>4, <2>5, <2>6 DEF QueuesFit, WrittenAsOwner
<1> HIDE DEF q0
<1>19. Settled(remote', queue'[current'])
  BY <1>6, <1>12, <1>13, <1>16
<1>20. FilledFrom(remote', remote, queue'[current])
  BY <1>11, <1>12, <1>16
<1> QED
  BY <1>1, <1>6, <1>14, <1>15, <1>17, <1>18, <1>19, <1>20 DEF IInv

-------------------------------------------------------------------------------
(* The theorems. *)

LEMMA NextIInv ==
  ASSUME IInv, [Next]_vars
  PROVE  IInv'
<1>1. CASE UNCHANGED vars
  <2>1. UNCHANGED <<queue, current, told, authUser, worker, remote, owner, stored,
                    refused, faults>>
    BY <1>1 DEF vars
  <2>2. TypeOK' /\ QueuesFit'
    BY <2>1, QueuesStayFit DEF IInv, TypeOK, QueuesStay
  <2> QED
    BY <2>1, <2>2 DEF IInv
<1>2. ASSUME NEW w \in Writes, WriteMutationsOf(w) PROVE IInv'
  BY <1>2, WriteMutationsOfIInv
<1>3. ASSUME NEW u \in Users, AuthStateDidChange(u) PROVE IInv'
  BY <1>3, AuthStateDidChangeIInv
<1>4. Kill \/ ConnectivityChanged \/ BackoffElapsed \/ IdleTimeout => IInv'
  BY KillIInv, ConnectivityChangedIInv, BackoffElapsedIInv, IdleTimeoutIInv
<1>5. GetTokenAnswers \/ GetTokenFails => IInv'
  BY GetTokenIInv
<1>6. Serve \/ Disconnect \/ ServerEndsCall \/ ReadCompletes \/ OperationFails => IInv'
  BY ServerTakesIInv, ServerRefusesIInv, DisconnectIInv, ServerEndsCallIInv,
     ReadCompletesIInv, OperationFailsIInv DEF Serve
<1>7. Run => IInv'
  BY RunCancelledIInv, RunChangeIInv, RunTokenIInv, RunHandshakeReadIInv,
     RunResultReadIInv, RunFailedIInv, RunFinishedIInv, RunRejectedIInv,
     RunFinishedOkIInv, RunAbortsIInv DEF Run
<1> QED
  BY <1>1, <1>2, <1>3, <1>4, <1>5, <1>6, <1>7 DEF Next

LEMMA IInvHolds == Spec => []IInv
<1>1. Init => IInv
  BY InitIInv
<1>2. IInv /\ [Next]_vars => IInv'
  BY NextIInv
<1> QED
  BY <1>1, <1>2, PTL DEF Spec

\* The variables keep their types: no handler leaves the stream, the pipeline or
\* the worker queue in a shape the next one does not expect.
THEOREM TypeInvariant == Spec => []TypeOK
<1>1. IInv => TypeOK
  BY DEF IInv
<1> QED
  BY <1>1, IInvHolds, PTL

\* No HARD_ASSERT of Stream, WriteStream, RemoteStore and LocalStore fails,
\* whatever comes between two operations of the worker queue, but for the one
\* step that takes a failing OnWriteStreamClose for the end of the app: that one
\* fails only when the server has ended the call with status OK.
THEOREM NoAssertionFails == Spec => []AssertionsHold
<1>1. IInv => AssertionsHold
  BY DEF IInv, Settled, Core, AssertionsHold
<1> QED
  BY <1>1, IInvHolds, PTL

\* FillWritePipeline, the answers and the restarts keep the pipeline the oldest
\* writes of the current user, in order, and never more than kMaxPendingWrites.
THEOREM PipelineInOrder == Spec => []PipelineIsPrefix
<1>1. ASSUME IInv PROVE PipelineIsPrefix
  <2>1. /\ queue[current] \in Seq(Writes) /\ remote.pipeline \in Seq(Writes)
        /\ Len(remote.pipeline) <= MaxPending /\ IsPrefix(remote.pipeline, queue[current])
    BY <1>1 DEF IInv, TypeOK, Settled, Core, Remote
  <2>2. \A q \in Seq(Writes), p \in Seq(Writes) : IsPrefix(p, q) => p = SubSeq(q, 1, Len(p))
    <3> SUFFICES ASSUME NEW q \in Seq(Writes), NEW p \in Seq(Writes), IsPrefix(p, q)
                 PROVE  p = SubSeq(q, 1, Len(p))
      OBVIOUS
    <3>1. PICK n \in Nat : n = Len(p)
      OBVIOUS
    <3>2. n \in (1 - 1)..Len(q) /\ 1 \in 1..(Len(q) + 1) /\ n - 1 + 1 = n
      BY <3>1 DEF IsPrefix
    <3>3. /\ SubSeq(q, 1, n) \in Seq(Writes) /\ Len(SubSeq(q, 1, n)) = n - 1 + 1
          /\ \A i \in 1..(n - 1 + 1) : SubSeq(q, 1, n)[i] = q[1 + i - 1]
      BY <3>2, SubSeqIs
    <3>4. Len(SubSeq(q, 1, n)) = n /\ \A i \in 1..n : SubSeq(q, 1, n)[i] = q[i]
      BY <3>2, <3>3
    <3>5. \A i \in 1..n : SubSeq(q, 1, n)[i] = p[i]
      BY <3>1, <3>4 DEF IsPrefix
    <3> QED
      BY <3>1, <3>3, <3>4, <3>5
  <2> QED
    BY <2>1, <2>2 DEF PipelineIsPrefix, IsPrefix
<1> QED
  BY <1>1, IInvHolds, PTL

\* Tokens are fetched and users change while streams start and stop: a write is
\* still applied under the token of the user who issued it.
THEOREM WritesAreOwners == Spec => []WrittenAsOwner
<1>1. IInv => WrittenAsOwner
  BY DEF IInv, QueuesFit
<1> QED
  BY <1>1, IInvHolds, PTL

\* The server applies the writes of a user in the order of issue, across lost
\* connections, kills and changes of user, but for those that are given up.
THEOREM WritesArriveInOrder == Spec => []StoredInOrder
<1>1. IInv => StoredInOrder
  BY DEF IInv, QueuesFit
<1> QED
  BY <1>1, IInvHolds, PTL

\* What is on its way to the server has not been answered, however often the
\* stream was started over.
THEOREM AnsweredStaysAnswered == Spec => []NothingAnsweredIsResent
<1>1. ASSUME IInv PROVE NothingAnsweredIsResent
  <2> SUFFICES ASSUME NEW i \in DOMAIN remote.toServer, remote.toServer[i] # Handshake
               PROVE  Contains(queue[current], remote.toServer[i])
    BY DEF NothingAnsweredIsResent
  <2>1. /\ Core(remote, queue[current]) /\ remote \in Remote
        /\ remote.toServer \in Seq(Messages) /\ remote.pipeline \in Seq(Writes)
        /\ queue[current] \in Seq(Writes)
    BY <1>1 DEF IInv, TypeOK, Settled, Core, Remote
  <2>2. IsOpen(remote) /\ remote.handshake
    <3>1. remote.toServer # <<>>
      OBVIOUS
    <3>2. IsOpen(remote)
      BY <2>1, <3>1 DEF Core
    <3>3. ~remote.handshake => remote.toServer[i] = Handshake
      BY <2>1, <3>2 DEF Core
    <3>4. remote.handshake \in BOOLEAN
      BY <2>1 DEF Remote
    <3> QED
      BY <3>2, <3>3, <3>4
  <2>3. IsSuffix(remote.toServer, remote.pipeline) /\ IsPrefix(remote.pipeline, queue[current])
    BY <2>1, <2>2 DEF Core
  <2>4. PICK a \in Nat, b \in Nat : a = Len(remote.toServer) /\ b = Len(remote.pipeline)
    BY <2>1
  <2>5. i \in 1..a /\ a <= b
    BY <2>1, <2>3, <2>4 DEF IsSuffix
  <2>6. b - a + i \in 1..b
    BY <2>5
  <2>7. remote.toServer[i] = remote.pipeline[b - a + i]
    BY <2>3, <2>4, <2>5, Zenon DEF IsSuffix
  <2>8. /\ remote.pipeline[b - a + i] = queue[current][b - a + i]
        /\ b - a + i \in DOMAIN queue[current]
    <3>1. b <= Len(queue[current]) /\ Len(queue[current]) \in Nat
          /\ DOMAIN queue[current] = 1..Len(queue[current])
      BY <2>1, <2>3, <2>4 DEF IsPrefix
    <3>2. b - a + i \in 1..Len(queue[current])
      BY <2>6, <3>1
    <3> QED
      BY <2>3, <2>4, <2>6, <3>1, <3>2 DEF IsPrefix
  <2> QED
    BY <2>7, <2>8 DEF Contains
<1> QED
  BY <1>1, IInvHolds, PTL

\* A step on the rows is a step of the pipeline.
LEMMA RowsStep == [NextOnRows]_allVars => [Next]_vars
<1>1. UNCHANGED allVars => UNCHANGED vars
  BY DEF allVars, vars, rowVars
<1>2. RunOnRows => Run
  BY DEF RunOnRows, Run
<1>3. NextOnRows => Next
  BY <1>2 DEF NextOnRows, Next
<1> QED
  BY <1>1, <1>3

\* With the rows on disk, every step is still a step of the pipeline: the
\* theorems above hold of what a device does with its database.
THEOREM RowsKeepPipeline == SpecOnRows => Spec
<1>1. InitOnRows => Init
  BY DEF InitOnRows
<1> QED
  BY <1>1, RowsStep, PTL DEF SpecOnRows, Spec
===============================================================================
