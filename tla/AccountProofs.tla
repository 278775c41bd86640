----------------------------- MODULE AccountProofs -----------------------------
(***************************************************************************)
(* The safety properties of signing up, for any users and any number of    *)
(* taps.                                                                   *)
(*                                                                         *)
(* What is in a document is only as good as the write it came from, that   *)
(* write as the chain that queued it, and the chain as the answer of Auth  *)
(* that let it go on.  IInv follows the requests along that way: Base in   *)
(* any behaviour, Patient as long as no two of them have crossed.          *)
(***************************************************************************)
EXTENDS Account, TLAPS

Going == {"naming", "customer", "details"}

\* Request r has left something on the device, in an account, in a document or at Stripe.
Wrote(r) ==
  \/ \E u \in Users : displayName[u] = r
  \/ \E u \in Sessions : \E i \in 1..Len(queue[u]) : queue[u][i].request = r
  \/ \E u \in Users : documents[u].username = r \/ documents[u].customer = r
  \/ r \in customers

\* Auth has made the account of r for it, and r has not ended without a trace.
Made(r) == Wrote(r) \/ (kind[r] = "signup" /\ stage[r] \in Going \cup {"answered"})

\* The details of r are in the document of u, or on their way to it.
DetailsFor(r, u) ==
  \/ documents[u].customer = r
  \/ \E v \in Sessions : \E i \in 1..Len(queue[v]) :
       queue[v][i].sets = "details" /\ queue[v][i].request = r /\ queue[v][i].document = u

\* Numbers are used once, and a stage is reached only on the way to it.
StagesFit ==
  /\ \A r \in Requests : r > tapped => stage[r] = "none"
  /\ \A r \in Requests : stage[r] \in Going => kind[r] = "signup"
  /\ \A r \in Requests : stage[r] \notin {"none"} => account[r] \in Users
  /\ \A r \in Requests : Wrote(r) => kind[r] = "signup" /\ stage[r] \in Going \cup {"over"}

\* An answer on the main queue is to a request that waits for it, and to no other.
EventsFit ==
  /\ \A i \in 1..Len(mainQueue) :
       mainQueue[i].is # "user" => stage[mainQueue[i].request] = "answered"
  /\ \A i \in 1..Len(mainQueue) :
       mainQueue[i].is = "navigate" => kind[mainQueue[i].request] = "login"
  /\ \A i, j \in 1..Len(mainQueue) :
       /\ mainQueue[i].is # "user" /\ mainQueue[j].is # "user"
       /\ mainQueue[i].request = mainQueue[j].request
       => i = j

\* An account is made for one request.
MadeOnce ==
  /\ \A r \in Requests : Made(r) => account[r] \in accounts
  /\ \A r, s \in Requests : Made(r) /\ Made(s) /\ account[r] = account[s] => r = s

\* The details of a request have one document.
OneDocument ==
  /\ \A r \in Requests, u \in Users :
       DetailsFor(r, u) => stage[r] \in {"details", "over"}
  /\ \A r \in Requests, u, v \in Users : DetailsFor(r, u) /\ DetailsFor(r, v) => u = v

-------------------------------------------------------------------------------
(* As long as nobody has tapped before the last request was over. *)

\* One request at a time, on the login screen, with its own user signed in.
OneAtATime ==
  /\ \A r, s \in Requests : Live(r) /\ Live(s) => r = s
  /\ \A r \in Requests : Live(r) => screen = "login"
  /\ \A r \in Requests :
       kind[r] = "signup" /\ stage[r] \in Going \cup {"answered"}
         => current = account[r]

\* Firestore has been told of that user, or will be before the request goes on.
ToldInTime ==
  /\ \A r \in Requests :
       stage[r] \in Going => mainQueue = <<>> /\ firestoreUser = account[r]
  /\ \A i \in 1..Len(mainQueue) :
       mainQueue[i].is # "user" =>
         /\ i = Len(mainQueue)
         /\ kind[mainQueue[i].request] = "signup" =>
              IF i = 1 THEN firestoreUser = account[mainQueue[i].request]
              ELSE mainQueue[i - 1] = [is |-> "user", user |-> account[mainQueue[i].request]]

\* A pending write is with the user whose document it is for.
WritesAreHome ==
  \A u \in Sessions : \A i \in 1..Len(queue[u]) :
    account[queue[u][i].request] = u /\ queue[u][i].document = u

\* The write at place i of the queue of u replaces a document; it comes before the
\* others of its request, which has not gone past the username yet, and finds no more
\* than a username that is still to be written again.
ComesFirst(u, i) ==
  LET w == queue[u][i]
  IN  /\ \A j \in 1..(i - 1) : queue[u][j].request # w.request
      /\ \A j \in 1..Len(queue[u]) :
           queue[u][j].sets = "details" => queue[u][j].request # w.request
      /\ stage[w.request] \notin {"customer", "details"}
      /\ documents[w.document].customer = Nothing
      /\ documents[w.document].username # Nothing =>
           \E j \in 1..Len(queue[u]) :
             queue[u][j] = [sets |-> "username", document |-> w.document,
                            request |-> documents[w.document].username]

ReplacesFirst ==
  \A u \in Sessions : \A i \in 1..Len(queue[u]) :
    queue[u][i].sets = "account" => ComesFirst(u, i)

\* A username that the server has applied over this connection is in its document.
ReachedIsStored ==
  \A i \in 1..reached :
    LET w == queue[firestoreUser][i]
    IN  w.sets = "username" => documents[w.document].username = w.request

\* The customer comes after the username.
UsernameFirst ==
  /\ \A r \in Requests : stage[r] \in {"customer", "details"} =>
       documents[account[r]].username = r
  /\ \A u \in Sessions : \A i \in 1..Len(queue[u]) :
       queue[u][i].sets = "details" =>
         documents[queue[u][i].document].username = queue[u][i].request

Patient ==
  OneAtATime /\ ToldInTime /\ WritesAreHome /\ ReplacesFirst /\ ReachedIsStored /\ UsernameFirst

\* What holds however the requests cross.
Base == TypeOK /\ StagesFit /\ EventsFit /\ MadeOnce /\ OneDocument

IInv == Base /\ (~crossed => Patient) /\ DetailsAreOwn

-------------------------------------------------------------------------------
(* The queues. *)

LEMMA EventType ==
  ASSUME NEW e \in Events
  PROVE  /\ e.is = "user" => e.user \in Sessions /\ e = [is |-> "user", user |-> e.user]
         /\ e.is # "user" => e.request \in Requests
         /\ e.is \in {"user", "answer", "navigate"}
BY DEF Events

\* The event that runs next.
LEMMA HeadEvent ==
  ASSUME TypeOK, mainQueue # <<>>
  PROVE  /\ Head(mainQueue) = mainQueue[1] /\ mainQueue[1] \in Events
         /\ Tail(mainQueue) \in Seq(Events)
         /\ Len(mainQueue) \in Nat \ {0} /\ Len(Tail(mainQueue)) = Len(mainQueue) - 1
         /\ \A i \in 1..Len(Tail(mainQueue)) :
              i + 1 \in 1..Len(mainQueue) /\ Tail(mainQueue)[i] = mainQueue[i + 1]
BY DEF TypeOK

\* The request whose answer runs next.
LEMMA HeadAnswer ==
  ASSUME TypeOK, EventsFit, mainQueue # <<>>, Head(mainQueue).is # "user"
  PROVE  LET r == Head(mainQueue).request
         IN  /\ r \in Requests /\ stage[r] = "answered"
             /\ Head(mainQueue).is = "navigate" => kind[r] = "login"
             /\ \A i \in 1..Len(Tail(mainQueue)) :
                  Tail(mainQueue)[i].is # "user" => Tail(mainQueue)[i].request # r
<1>1. 1 \in 1..Len(mainQueue) /\ Head(mainQueue) = mainQueue[1] /\ mainQueue[1] \in Events
  BY HeadEvent
<1>2. \A i \in 1..Len(Tail(mainQueue)) :
        i + 1 \in 1..Len(mainQueue) /\ i + 1 # 1 /\ Tail(mainQueue)[i] = mainQueue[i + 1]
  BY HeadEvent
<1> QED
  BY <1>1, <1>2, EventType DEF EventsFit

\* Any pending write, and the oldest.
LEMMA PendingWrite ==
  ASSUME TypeOK, NEW n \in 1..Len(queue[firestoreUser])
  PROVE  /\ queue[firestoreUser][n] \in Writes
         /\ queue[firestoreUser][n].request \in Requests
         /\ queue[firestoreUser][n].document \in Users
         /\ queue[firestoreUser][n].sets \in {"account", "username", "details"}
<1>1. firestoreUser \in Sessions /\ queue[firestoreUser] \in Seq(Writes)
  BY DEF TypeOK
<1>2. queue[firestoreUser][n] \in Writes
  BY <1>1
<1> QED
  BY <1>2 DEF Writes

LEMMA OldestWrite ==
  ASSUME TypeOK, Pending # <<>>
  PROVE  /\ 1 \in 1..Len(queue[firestoreUser]) /\ Oldest = queue[firestoreUser][1]
         /\ Oldest \in Writes
         /\ Oldest.request \in Requests /\ Oldest.document \in Users
         /\ Oldest.sets \in {"account", "username", "details"}
<1>1. firestoreUser \in Sessions /\ queue[firestoreUser] \in Seq(Writes)
  BY DEF TypeOK
<1>2. 1 \in 1..Len(queue[firestoreUser]) /\ Oldest = queue[firestoreUser][1] /\ Oldest \in Writes
  BY <1>1 DEF Pending, Oldest
<1> QED
  BY <1>2 DEF Writes

\* By how much a dequeue moves the writes of u.
Shift(u) == IF u = firestoreUser THEN 1 ELSE 0

LEMMA AfterDequeue ==
  ASSUME TypeOK, Pending # <<>>, Dequeue
  PROVE  /\ queue' \in [Sessions -> Seq(Writes)]
         /\ Len(queue'[firestoreUser]) = Len(queue[firestoreUser]) - 1
         /\ \A u \in Sessions : \A i \in 1..Len(queue'[u]) :
              i + Shift(u) \in 1..Len(queue[u]) /\ queue'[u][i] = queue[u][i + Shift(u)]
         /\ \A u \in Sessions : \A i \in 1..Len(queue[u]) :
              i = 1 \/ (i - Shift(u) \in 1..Len(queue'[u]) /\ queue'[u][i - Shift(u)] = queue[u][i])
              \/ u # firestoreUser
<1>1. firestoreUser \in Sessions /\ queue \in [Sessions -> Seq(Writes)]
  BY DEF TypeOK
<1>2. Tail(Pending) \in Seq(Writes) /\ queue'[firestoreUser] = Tail(Pending)
  BY <1>1 DEF Pending, Dequeue
<1>3. \A i \in 1..Len(Tail(Pending)) :
        i + 1 \in 1..Len(Pending) /\ Tail(Pending)[i] = Pending[i + 1]
  BY <1>1 DEF Pending
<1>4. queue' \in [Sessions -> Seq(Writes)]
  BY <1>1, <1>2 DEF Dequeue, Pending
<1>5. \A u \in Sessions \ {firestoreUser} : queue'[u] = queue[u]
  BY <1>1 DEF Dequeue
<1>6. \A u \in Sessions \ {firestoreUser} : \A i \in 1..Len(queue'[u]) : i + 0 = i
  BY <1>4
<1>7. Len(Tail(Pending)) = Len(Pending) - 1
  BY <1>1 DEF Pending
<1>8. \A i \in 1..Len(Pending) : i = 1 \/
        (i - 1 \in 1..Len(Tail(Pending)) /\ Tail(Pending)[i - 1] = Pending[i])
  BY <1>1 DEF Pending
<1> QED
  BY <1>2, <1>3, <1>4, <1>5, <1>6, <1>7, <1>8 DEF Shift, Pending

LEMMA AfterEnqueue ==
  ASSUME TypeOK, NEW ws \in Seq(Writes), Enqueue(ws)
  PROVE  /\ queue' \in [Sessions -> Seq(Writes)]
         /\ \A u \in Sessions : Len(queue'[u]) >= Len(queue[u])
         /\ \A u \in Sessions : \A i \in 1..Len(queue[u]) :
              i \in 1..Len(queue'[u]) /\ queue'[u][i] = queue[u][i]
         /\ \A u \in Sessions : \A i \in 1..Len(queue'[u]) :
              \/ i \in 1..Len(queue[u]) /\ queue'[u][i] = queue[u][i]
              \/ /\ u = firestoreUser /\ i > Len(queue[u])
                 /\ i - Len(queue[u]) \in 1..Len(ws)
                 /\ queue'[u][i] = ws[i - Len(queue[u])]
<1>1. firestoreUser \in Sessions /\ queue \in [Sessions -> Seq(Writes)]
  BY DEF TypeOK
<1>2. queue'[firestoreUser] = queue[firestoreUser] \o ws /\ queue[firestoreUser] \in Seq(Writes)
  BY <1>1 DEF Enqueue
<1>3. queue' \in [Sessions -> Seq(Writes)]
  BY <1>1, <1>2 DEF Enqueue
<1>4. \A u \in Sessions \ {firestoreUser} : queue'[u] = queue[u]
  BY <1>1 DEF Enqueue
<1>5. ASSUME NEW i \in 1..Len(queue'[firestoreUser])
      PROVE  \/ i \in 1..Len(queue[firestoreUser]) /\ queue'[firestoreUser][i] = queue[firestoreUser][i]
             \/ /\ i > Len(queue[firestoreUser])
                /\ i - Len(queue[firestoreUser]) \in 1..Len(ws)
                /\ queue'[firestoreUser][i] = ws[i - Len(queue[firestoreUser])]
  BY <1>2
<1>6. /\ Len(queue'[firestoreUser]) >= Len(queue[firestoreUser])
      /\ \A i \in 1..Len(queue[firestoreUser]) :
           /\ i \in 1..Len(queue'[firestoreUser])
           /\ queue'[firestoreUser][i] = queue[firestoreUser][i]
  BY <1>2
<1>7. \A u \in Sessions \ {firestoreUser} : Len(queue'[u]) >= Len(queue[u])
  BY <1>1, <1>4
<1> QED
  BY <1>3, <1>4, <1>5, <1>6, <1>7

-------------------------------------------------------------------------------
(* How a step moves the requests. *)

USE UsersAssumption, MaxTapsAssumption

\* Request s stays where it is or goes to the next stage or to the end.
Goes(s) ==
  \/ stage'[s] = stage[s]
  \/ Live(s) /\ stage'[s] = "over"
  \/ /\ stage[s] = "asked" /\ stage'[s] = "answered"
     /\ kind[s] = "signup" => account[s] \in accounts' \ accounts
  \/ stage[s] = "answered" /\ stage'[s] = "naming" /\ kind[s] = "signup"
  \/ stage[s] = "naming" /\ stage'[s] = "customer"
  \/ stage[s] = "customer" /\ stage'[s] = "details"

\* It only leaves something behind once it is on its way,
Leaves(s) ==
  Wrote(s)' => \/ Wrote(s)
               \/ /\ kind[s] = "signup" /\ stage[s] \in {"answered", "customer"}
                  /\ stage'[s] \in Going \cup {"over"}

\* and details for the current user, when it has a customer.
Details(s) ==
  \A u \in Users : DetailsFor(s, u)' =>
    \/ DetailsFor(s, u)
    \/ stage[s] = "customer" /\ stage'[s] = "details" /\ u = current

\* A step that starts no request.
Moving ==
  /\ UNCHANGED <<tapped, kind, account>>
  /\ accounts \subseteq accounts'
  /\ \A s \in Requests : Goes(s) /\ Leaves(s) /\ Details(s)
  /\ \A s, t \in Requests : stage'[s] = "answered" /\ stage'[t] = "answered"
       => stage[s] = "answered" \/ stage[t] = "answered" \/ s = t

LEMMA MovingKeeps ==
  ASSUME TypeOK, StagesFit, MadeOnce, OneDocument, Moving
  PROVE  StagesFit' /\ MadeOnce' /\ OneDocument'
<1>1. \A s \in Requests : stage[s] \in Stages /\ kind[s] \in {"signup", "login"}
  BY DEF TypeOK
<1>2. StagesFit'
  <2>1. \A s \in Requests : s > tapped' => stage'[s] = "none"
    BY DEF Moving, Goes, Live, StagesFit
  <2>2. \A s \in Requests : stage'[s] \in Going => kind'[s] = "signup"
    BY DEF Moving, Goes, StagesFit, Going
  <2>3. \A s \in Requests : stage'[s] \notin {"none"} => account'[s] \in Users
    BY DEF Moving, Goes, Live, StagesFit
  <2>4. \A s \in Requests : Wrote(s)' => kind'[s] = "signup" /\ stage'[s] \in Going \cup {"over"}
    BY DEF Moving, Goes, Leaves, StagesFit, Going
  <2> QED
    BY <2>1, <2>2, <2>3, <2>4 DEF StagesFit
<1>3. MadeOnce'
  <2>1. ASSUME NEW s \in Requests, Made(s)'
        PROVE  \/ Made(s)
               \/ /\ stage[s] = "asked" /\ stage'[s] = "answered"
                  /\ account[s] \in accounts' \ accounts
    BY <2>1 DEF Moving, Goes, Leaves, StagesFit, Going, Made
  <2> QED
    BY <2>1 DEF MadeOnce, Moving
<1>4. OneDocument'
  <2>1. \A s \in Requests, u \in Users : DetailsFor(s, u)' => stage'[s] \in {"details", "over"}
    BY DEF Moving, Goes, Details, OneDocument
  <2>2. \A s \in Requests, u, v \in Users : DetailsFor(s, u)' /\ DetailsFor(s, v)' => u = v
    BY DEF Moving, Details, OneDocument
  <2> QED
    BY <2>1, <2>2 DEF OneDocument
<1> QED
  BY <1>2, <1>3, <1>4

\* Nothing is written.
LEMMA SameLeaves ==
  ASSUME UNCHANGED <<displayName, queue, documents, customers>>
  PROVE  \A s \in Requests : Leaves(s) /\ Details(s) /\ (Wrote(s)' <=> Wrote(s))
BY DEF Leaves, Details, Wrote, DetailsFor

\* A pending write is stored, or the oldest is taken from the queue.
LEMMA ServedLeaves ==
  ASSUME TypeOK, NEW n \in 1..Len(queue[firestoreUser]),
         \/ documents' = documents
         \/ /\ Stores(queue[firestoreUser][n])
            /\ documents' = Applied(queue[firestoreUser][n]),
         UNCHANGED queue \/ (Pending # <<>> /\ Dequeue),
         UNCHANGED <<displayName, customers>>
  PROVE  /\ documents' \in [Users -> Documents]
         /\ \A u \in Users : documents'[u].there \/ documents'[u] = NoDocument
         /\ \A s \in Requests : Leaves(s) /\ Details(s) /\ (Wrote(s)' => Wrote(s))
<1> DEFINE w == queue[firestoreUser][n]
<1>1. /\ firestoreUser \in Sessions
      /\ n \in 1..Len(queue[firestoreUser]) /\ w = queue[firestoreUser][n]
      /\ w.request \in Requests /\ w.document \in Users
      /\ w.sets \in {"account", "username", "details"}
  BY PendingWrite DEF TypeOK
<1>2. /\ documents \in [Users -> Documents]
      /\ \A u \in Users : documents[u] \in Documents
      /\ NewDocument \in Documents
      /\ NewDocument.username = Nothing /\ NewDocument.customer = Nothing /\ NewDocument.there
  BY DEF TypeOK, Documents, NewDocument
<1>3. \A u \in Users : documents[u].there \/ documents[u] = NoDocument
  BY DEF TypeOK
<1>. HIDE DEF w
<1>4. documents' = documents \/ (Stores(w) /\ documents' = Applied(w))
  BY DEF w
<1>5. ASSUME NEW u \in Users
      PROVE  /\ documents'[u] \in Documents
             /\ documents'[u].there \/ documents'[u] = NoDocument
             /\ \A s \in Requests :
                  /\ documents'[u].username = s => documents[u].username = s \/ w.request = s
                  /\ documents'[u].customer = s =>
                       \/ documents[u].customer = s
                       \/ w.request = s /\ w.sets = "details" /\ w.document = u
  <2>1. CASE documents' = documents
    BY <2>1, <1>2, <1>3
  <2>2. CASE documents' = Applied(w) /\ u # w.document
    <3>1. documents'[u] = documents[u]
      BY <2>2, <1>1, <1>2 DEF Applied
    <3> QED
      BY <3>1, <1>2, <1>3
  <2>3. CASE documents' = Applied(w) /\ u = w.document /\ w.sets = "account"
    <3>1. documents'[u] = NewDocument
      BY <2>3, <1>1, <1>2 DEF Applied
    <3> QED
      BY <3>1, <1>2 DEF Nothing, Requests
  <2>4. CASE documents' = Applied(w) /\ Stores(w) /\ u = w.document /\ w.sets = "username"
    <3>1. documents'[u] = [documents[u] EXCEPT !.username = w.request] /\ documents[u].there
      BY <2>4, <1>1, <1>2 DEF Applied, Stores
    <3> QED
      BY <3>1, <1>1, <1>2 DEF Documents
  <2>5. CASE documents' = Applied(w) /\ Stores(w) /\ u = w.document /\ w.sets = "details"
    <3>1. documents'[u] = [documents[u] EXCEPT !.customer = w.request] /\ documents[u].there
      BY <2>5, <1>1, <1>2 DEF Applied, Stores
    <3> QED
      BY <3>1, <1>1, <1>2, <2>5 DEF Documents
  <2> QED
    BY <2>1, <2>2, <2>3, <2>4, <2>5, <1>1, <1>4
<1>6. documents' \in [Users -> Documents]
  <2>1. documents' = documents \/ documents' = [u \in Users |-> documents'[u]]
    BY <1>2, <1>4 DEF Applied
  <2> QED
    BY <1>2, <1>5, <2>1
<1>7. \A u \in Sessions : \A i \in 1..Len(queue'[u]) :
        \E j \in 1..Len(queue[u]) : queue'[u][i] = queue[u][j]
  <2>1. CASE UNCHANGED queue
    BY <2>1
  <2>2. CASE Pending # <<>> /\ Dequeue
    BY <2>2, AfterDequeue
  <2> QED
    BY <2>1, <2>2
<1>8. ASSUME NEW s \in Requests, Wrote(s)' PROVE Wrote(s)
  <2>1. CASE \E u \in Users : displayName'[u] = s
    BY <2>1 DEF Wrote
  <2>2. CASE \E u \in Sessions : \E i \in 1..Len(queue'[u]) : queue'[u][i].request = s
    BY <2>2, <1>7 DEF Wrote
  <2>3. CASE \E u \in Users : documents'[u].username = s \/ documents'[u].customer = s
    BY <2>3, <1>1, <1>5 DEF Wrote
  <2>4. CASE s \in customers'
    BY <2>4 DEF Wrote
  <2> QED
    BY <1>8, <2>1, <2>2, <2>3, <2>4 DEF Wrote
<1>9. ASSUME NEW s \in Requests, NEW u \in Users, DetailsFor(s, u)' PROVE DetailsFor(s, u)
  <2>1. CASE documents'[u].customer = s
    BY <2>1, <1>1, <1>5 DEF DetailsFor
  <2>2. CASE \E v \in Sessions : \E i \in 1..Len(queue'[v]) :
          queue'[v][i].sets = "details" /\ queue'[v][i].request = s /\ queue'[v][i].document = u
    BY <2>2, <1>7 DEF DetailsFor
  <2> QED
    BY <1>9, <2>1, <2>2 DEF DetailsFor
<1> QED
  BY <1>5, <1>6, <1>8, <1>9 DEF Leaves, Details

\* Writes of request r are added to the queue of Firestore's user.
LEMMA QueuedLeaves ==
  ASSUME TypeOK, NEW r \in Requests, NEW ws \in Seq(Writes), Enqueue(ws),
         \A i \in 1..Len(ws) : ws[i].request = r,
         UNCHANGED <<documents, customers>>,
         \A u \in Users : displayName'[u] # displayName[u] => displayName'[u] = r
  PROVE  /\ queue' \in [Sessions -> Seq(Writes)]
         /\ reached' \in 0..Len(queue'[firestoreUser])
         /\ \A s \in Requests : Wrote(s)' => Wrote(s) \/ s = r
         /\ \A s \in Requests, u \in Users : DetailsFor(s, u)' =>
              \/ DetailsFor(s, u)
              \/ s = r /\ \E i \in 1..Len(ws) : ws[i].sets = "details" /\ ws[i].document = u
<1>1. \A u \in Sessions : \A i \in 1..Len(queue'[u]) :
        \/ \E j \in 1..Len(queue[u]) : queue'[u][i] = queue[u][j]
        \/ \E j \in 1..Len(ws) : queue'[u][i] = ws[j]
  BY AfterEnqueue
<1>2. queue' \in [Sessions -> Seq(Writes)] /\ reached' \in 0..Len(queue'[firestoreUser])
  <2>1. /\ firestoreUser \in Sessions /\ reached' = reached
        /\ Len(queue[firestoreUser]) \in Nat /\ reached \in 0..Len(queue[firestoreUser])
    BY DEF TypeOK, Enqueue
  <2>2. /\ queue' \in [Sessions -> Seq(Writes)]
        /\ Len(queue'[firestoreUser]) >= Len(queue[firestoreUser])
    BY <2>1, AfterEnqueue
  <2>3. Len(queue'[firestoreUser]) \in Nat
    BY <2>1, <2>2
  <2> QED
    BY <2>1, <2>2, <2>3
<1>3. \A s \in Requests : Wrote(s)' => Wrote(s) \/ s = r
  BY <1>1 DEF Wrote
<1>4. \A s \in Requests, u \in Users : DetailsFor(s, u)' =>
        \/ DetailsFor(s, u)
        \/ s = r /\ \E i \in 1..Len(ws) : ws[i].sets = "details" /\ ws[i].document = u
  BY <1>1 DEF DetailsFor
<1> QED
  BY <1>2, <1>3, <1>4

LEMMA EmptySeq ==
  ASSUME NEW S, NEW q \in Seq(S), Len(q) = 0
  PROVE  q = <<>>
OBVIOUS

LEMMA AppendIs ==
  ASSUME NEW S, NEW q \in Seq(S), NEW e \in S
  PROVE  /\ Append(q, e) \in Seq(S) /\ Len(Append(q, e)) = Len(q) + 1
         /\ \A i \in 1..Len(q) : Append(q, e)[i] = q[i]
         /\ Append(q, e)[Len(q) + 1] = e
OBVIOUS

\* The answers on the main queue are those of before, k places further on.
LEMMA EventsMoved ==
  ASSUME TypeOK, EventsFit, UNCHANGED kind, NEW k \in Nat, mainQueue' \in Seq(Events),
         \A i \in 1..Len(mainQueue') : mainQueue'[i].is # "user" =>
           /\ i + k \in 1..Len(mainQueue) /\ mainQueue'[i] = mainQueue[i + k]
           /\ stage'[mainQueue'[i].request] = "answered"
  PROVE  EventsFit'
<1>1. \A i \in 1..Len(mainQueue') :
        mainQueue'[i].is = "navigate" => kind'[mainQueue'[i].request] = "login"
  BY DEF EventsFit
<1>2. ASSUME NEW i \in 1..Len(mainQueue'), NEW j \in 1..Len(mainQueue'),
             mainQueue'[i].is # "user", mainQueue'[j].is # "user",
             mainQueue'[i].request = mainQueue'[j].request
      PROVE  i = j
  <2>1. i \in Nat /\ j \in Nat
    OBVIOUS
  <2>2. i + k = j + k
    BY <1>2 DEF EventsFit
  <2> QED
    BY <2>1, <2>2
<1> QED
  BY <1>1, <1>2 DEF EventsFit

\* The next event is taken; if it was an answer its request may go on.
LEMMA EventTaken ==
  ASSUME TypeOK, EventsFit, UNCHANGED kind, mainQueue # <<>>, mainQueue' = Tail(mainQueue),
         \A s \in Requests : stage'[s] # stage[s] =>
           Head(mainQueue).is # "user" /\ s = Head(mainQueue).request
  PROVE  mainQueue' \in Seq(Events) /\ EventsFit'
<1>1. /\ mainQueue' \in Seq(Events)
      /\ \A i \in 1..Len(mainQueue') : /\ i + 1 \in 1..Len(mainQueue)
                                       /\ mainQueue'[i] = mainQueue[i + 1]
                                       /\ mainQueue[i + 1] \in Events
  BY HeadEvent DEF TypeOK
<1>2. ASSUME NEW i \in 1..Len(mainQueue'), mainQueue'[i].is # "user"
      PROVE  stage'[mainQueue'[i].request] = "answered"
  <2>1. /\ stage[mainQueue'[i].request] = "answered" /\ mainQueue'[i].request \in Requests
        /\ Head(mainQueue).is # "user" => mainQueue'[i].request # Head(mainQueue).request
    BY <1>1, <1>2, EventType, HeadAnswer DEF EventsFit
  <2> QED
    BY <2>1
<1> QED
  BY <1>1, <1>2, EventsMoved

\* The main queue is left alone, and so is who waits on it.
LEMMA EventsLeft ==
  ASSUME TypeOK, EventsFit, UNCHANGED <<kind, mainQueue>>,
         \A s \in Requests : stage[s] = "answered" => stage'[s] = "answered"
  PROVE  EventsFit'
<1>1. \A i \in 1..Len(mainQueue') : mainQueue'[i] \in Events
  BY DEF TypeOK
<1>2. \A i \in 1..Len(mainQueue') : mainQueue'[i].is # "user" =>
        stage'[mainQueue'[i].request] = "answered"
  BY <1>1, EventType DEF EventsFit
<1> QED
  BY <1>2 DEF EventsFit

\* The answer to r is queued, behind the user it signs in.
LEMMA EventsAdded ==
  ASSUME TypeOK, EventsFit, UNCHANGED kind, NEW r \in Requests, NEW u \in Users,
         stage[r] = "asked", SignsIn(r, u)
  PROVE  /\ mainQueue' \in Seq(Events) /\ EventsFit'
         /\ Len(mainQueue') = Len(mainQueue) + 2
         /\ \A i \in 1..Len(mainQueue) : mainQueue'[i] = mainQueue[i]
         /\ mainQueue'[Len(mainQueue) + 1] = [is |-> "user", user |-> u]
         /\ mainQueue'[Len(mainQueue) + 2] = [is |-> "answer", request |-> r]
<1> DEFINE a == [is |-> "user", user |-> u]
           b == [is |-> "answer", request |-> r]
<1>1. a \in Events /\ b \in Events /\ mainQueue \in Seq(Events)
  BY DEF Events, Sessions, TypeOK
<1>2. a.is = "user" /\ b.is = "answer" /\ b.request = r
  OBVIOUS
<1>3. mainQueue' = mainQueue \o <<a, b>>
  BY DEF SignsIn
<1> HIDE DEF a, b
<1>4. /\ mainQueue' \in Seq(Events) /\ Len(mainQueue') = Len(mainQueue) + 2
      /\ \A i \in 1..Len(mainQueue) : mainQueue'[i] = mainQueue[i]
      /\ mainQueue'[Len(mainQueue) + 1] = a
      /\ mainQueue'[Len(mainQueue) + 2] = b
  BY <1>1, <1>3
<1>5. stage'[r] = "answered" /\ \A s \in Requests \ {r} : stage'[s] = stage[s]
  BY DEF SignsIn, Moves, TypeOK
<1>6. ASSUME NEW i \in 1..Len(mainQueue'), mainQueue'[i].is # "user"
      PROVE  \/ /\ i \in 1..Len(mainQueue) /\ mainQueue'[i] = mainQueue[i]
                /\ mainQueue[i].is # "user" /\ mainQueue[i].request # r
                /\ stage'[mainQueue[i].request] = "answered"
             \/ i = Len(mainQueue) + 2 /\ mainQueue'[i].request = r /\ mainQueue'[i].is = "answer"
  <2>1. CASE i \in 1..Len(mainQueue)
    <3>1. mainQueue[i] \in Events /\ mainQueue'[i] = mainQueue[i]
      BY <1>1, <1>4, <2>1
    <3>2. stage[mainQueue[i].request] = "answered" /\ mainQueue[i].request \in Requests
      BY <1>6, <2>1, <3>1, EventType DEF EventsFit
    <3> QED
      BY <1>5, <1>6, <2>1, <3>1, <3>2
  <2>2. CASE i \notin 1..Len(mainQueue)
    BY <1>1, <1>2, <1>4, <1>6, <2>2
  <2> QED
    BY <2>1, <2>2
<1>7. EventsFit'
  <2>1. \A i \in 1..Len(mainQueue') :
          mainQueue'[i].is # "user" => stage'[mainQueue'[i].request] = "answered"
    BY <1>5, <1>6
  <2>2. \A i \in 1..Len(mainQueue') :
          mainQueue'[i].is = "navigate" => kind'[mainQueue'[i].request] = "login"
    BY <1>6 DEF EventsFit
  <2>3. \A i, j \in 1..Len(mainQueue') :
          /\ mainQueue'[i].is # "user" /\ mainQueue'[j].is # "user"
          /\ mainQueue'[i].request = mainQueue'[j].request
          => i = j
    BY <1>6 DEF EventsFit
  <2> QED
    BY <2>1, <2>2, <2>3 DEF EventsFit
<1> QED
  BY <1>4, <1>7 DEF a, b

\* The answer to a login is put back, as the change of screen it asks for.
LEMMA EventRequeued ==
  ASSUME TypeOK, StagesFit, EventsFit, UNCHANGED <<kind, stage>>, NextIs("answer"),
         kind[Head(mainQueue).request] = "login",
         mainQueue' = Append(Tail(mainQueue),
                             [is |-> "navigate", request |-> Head(mainQueue).request])
  PROVE  mainQueue' \in Seq(Events) /\ EventsFit'
<1> DEFINE t == Tail(mainQueue)
           r == Head(mainQueue).request
           b == [is |-> "navigate", request |-> r]
<1>1. /\ r \in Requests /\ stage[r] = "answered"
      /\ \A i \in 1..Len(t) : t[i].is # "user" => t[i].request # r
  BY HeadAnswer DEF NextIs
<1>2. /\ t \in Seq(Events) /\ Len(t) = Len(mainQueue) - 1 /\ Len(t) \in Nat
      /\ \A i \in 1..Len(t) : i + 1 \in 1..Len(mainQueue) /\ t[i] = mainQueue[i + 1]
  BY HeadEvent DEF NextIs
<1>3. b \in Events /\ b.is = "navigate" /\ b.request = r
  BY <1>1 DEF Events
<1>4. mainQueue' = Append(t, b) /\ kind[r] = "login"
  OBVIOUS
<1> HIDE DEF t, r, b
<1>5. /\ mainQueue' \in Seq(Events) /\ Len(mainQueue') = Len(t) + 1
      /\ \A i \in 1..Len(t) : mainQueue'[i] = t[i]
      /\ mainQueue'[Len(t) + 1] = b
  BY ONLY <1>2, <1>3, <1>4, AppendIs
<1>6. ASSUME NEW i \in 1..Len(mainQueue'), mainQueue'[i].is # "user"
      PROVE  \/ /\ i + 1 \in 1..Len(mainQueue) /\ mainQueue'[i] = mainQueue[i + 1]
                /\ mainQueue'[i].request # r
             \/ i = Len(t) + 1 /\ mainQueue'[i].request = r
  <2>1. CASE i \in 1..Len(t)
    BY <1>1, <1>2, <1>5, <1>6, <2>1
  <2>2. CASE i \notin 1..Len(t)
    BY <1>2, <1>3, <1>5, <1>6, <2>2
  <2> QED
    BY <2>1, <2>2
<1>7. EventsFit'
  <2>1. \A i \in 1..Len(mainQueue') :
          mainQueue'[i].is # "user" => stage'[mainQueue'[i].request] = "answered"
    BY <1>1, <1>6 DEF EventsFit
  <2>2. \A i \in 1..Len(mainQueue') :
          mainQueue'[i].is = "navigate" => kind'[mainQueue'[i].request] = "login"
    BY <1>4, <1>6 DEF EventsFit
  <2>3. \A i, j \in 1..Len(mainQueue') :
          /\ mainQueue'[i].is # "user" /\ mainQueue'[j].is # "user"
          /\ mainQueue'[i].request = mainQueue'[j].request
          => i = j
    <3> SUFFICES ASSUME NEW i \in 1..Len(mainQueue'), NEW j \in 1..Len(mainQueue'),
                        mainQueue'[i].is # "user", mainQueue'[j].is # "user",
                        mainQueue'[i].request = mainQueue'[j].request
                 PROVE  i = j
      OBVIOUS
    <3>1. CASE mainQueue'[i].request = r
      BY <1>6, <3>1
    <3>2. CASE mainQueue'[i].request # r
      <4>1. i + 1 = j + 1
        <5>1. \A a, c \in 1..Len(mainQueue) :
                /\ mainQueue[a].is # "user" /\ mainQueue[c].is # "user"
                /\ mainQueue[a].request = mainQueue[c].request
                => a = c
          BY DEF EventsFit
        <5>2. i + 1 \in 1..Len(mainQueue) /\ mainQueue'[i] = mainQueue[i + 1]
          BY <1>6, <3>2
        <5>3. j + 1 \in 1..Len(mainQueue) /\ mainQueue'[j] = mainQueue[j + 1]
          BY <1>6, <3>2
        <5> QED
          BY <5>1, <5>2, <5>3
      <4> QED
        BY <4>1
    <3> QED
      BY <3>1, <3>2
  <2> QED
    BY <2>1, <2>2, <2>3 DEF EventsFit
<1> QED
  BY <1>5, <1>7

-------------------------------------------------------------------------------
(* Base is inductive on its own. *)

LEMMA BaseInit ==
  ASSUME Init
  PROVE  Base
<1>1. TypeOK
  <2>1. NoDocument \in Documents
    BY DEF NoDocument, Documents, Nothing
  <2>2. <<>> \in Seq(Events) /\ <<>> \in Seq(Writes)
    OBVIOUS
  <2>3. "none" \in Stages /\ 0 \in 0..MaxTaps /\ 0 \in 0..0 /\ Nobody \in Sessions
    BY DEF Stages, Sessions
  <2>4. /\ displayName \in [Users -> Requests \cup {Nothing}]
        /\ queue \in [Sessions -> Seq(Writes)]
        /\ documents \in [Users -> Documents] /\ \A u \in Users : documents[u] = NoDocument
    BY <2>1, <2>2 DEF Init
  <2>5. /\ kind \in [Requests -> {"signup", "login"}] /\ account \in [Requests -> Sessions]
        /\ from \in [Requests -> 0..MaxTaps] /\ stage \in [Requests -> Stages]
    BY <2>3 DEF Init
  <2>6. reached \in 0..Len(queue[firestoreUser])
    BY <2>3 DEF Init
  <2> QED
    BY <2>2, <2>3, <2>4, <2>5, <2>6 DEF Init, TypeOK
<1>2. \A r \in Requests : ~Wrote(r) /\ ~Made(r) /\ \A u \in Users : ~DetailsFor(r, u)
  BY DEF Init, Wrote, Made, DetailsFor, NoDocument, Requests, Nothing, Going
<1>3. StagesFit /\ EventsFit /\ MadeOnce /\ OneDocument
  BY <1>2 DEF Init, StagesFit, EventsFit, MadeOnce, OneDocument, Going
<1> QED
  BY <1>1, <1>3 DEF Base

\* Request r moves.
LEMMA OneMoves ==
  ASSUME TypeOK, NEW r \in Requests, NEW to \in Stages, Moves(r, to)
  PROVE  /\ stage' \in [Requests -> Stages]
         /\ stage'[r] = to /\ \A s \in Requests \ {r} : stage'[s] = stage[s]
BY DEF TypeOK, Moves

LEMMA TapKeepsBase ==
  ASSUME Base, NEW what \in {"signup", "login"}, NEW u \in Users, Tap(what, u)
  PROVE  Base'
<1>0. PICK r \in Requests : r = tapped + 1
  BY DEF Base, TypeOK, Tap, Requests
<1>1. /\ tapped' = r /\ r > tapped
      /\ r \in 0..MaxTaps /\ visit \in 0..MaxTaps /\ visit' \in 0..tapped'
  BY <1>0 DEF Base, TypeOK, Tap, Requests, screenVars
<1>2. /\ kind' = [kind EXCEPT ![r] = what] /\ account' = [account EXCEPT ![r] = u]
      /\ from' = [from EXCEPT ![r] = visit] /\ stage' = [stage EXCEPT ![r] = "asked"]
  BY <1>1 DEF Tap, Moves
<1>3. /\ stage[r] = "none" /\ stage'[r] = "asked" /\ account'[r] = u
      /\ \A s \in Requests \ {r} :
           stage'[s] = stage[s] /\ account'[s] = account[s] /\ kind'[s] = kind[s]
  BY <1>1, <1>2 DEF Base, TypeOK, StagesFit
<1>4. TypeOK'
  <2>1. "asked" \in Stages /\ u \in Sessions
    BY DEF Stages, Sessions
  <2>2. /\ kind' \in [Requests -> {"signup", "login"}] /\ account' \in [Requests -> Sessions]
        /\ from' \in [Requests -> 0..MaxTaps] /\ stage' \in [Requests -> Stages]
    BY <1>1, <1>2, <2>1 DEF Base, TypeOK
  <2>3. crossed' \in BOOLEAN
    BY DEF Tap
  <2>4. UNCHANGED <<accounts, displayName, documents, customers, current, mainQueue,
                    firestoreUser, queue, reached, screen>>
    BY DEF Tap, serverVars, sessionVars, screenVars
  <2>5. tapped' \in 0..MaxTaps
    BY <1>0, <1>1 DEF Requests
  <2> QED
    BY <1>1, <2>2, <2>3, <2>4, <2>5 DEF Base, TypeOK
<1>5. \A s \in Requests : /\ Wrote(s)' <=> Wrote(s)
                          /\ \A v \in Users : DetailsFor(s, v)' <=> DetailsFor(s, v)
  BY DEF Tap, serverVars, Wrote, DetailsFor
<1>6. ~Wrote(r) /\ ~Made(r)' /\ \A s \in Requests \ {r} : Made(s)' <=> Made(s)
  <2>1. ~Wrote(r) /\ ~Wrote(r)'
    BY <1>1, <1>3, <1>5 DEF Base, StagesFit, Going
  <2>2. ~Made(r)'
    BY <1>3, <2>1 DEF Made, Going
  <2>3. ASSUME NEW s \in Requests \ {r} PROVE Made(s)' <=> Made(s)
    BY <1>3, <1>5 DEF Made
  <2> QED
    BY <2>1, <2>2, <2>3
<1>7. StagesFit'
  <2>1. \A s \in Requests : s > tapped' => stage'[s] = "none"
    BY <1>1, <1>3 DEF Base, TypeOK, StagesFit, Requests
  <2>2. \A s \in Requests : stage'[s] \in Going => kind'[s] = "signup"
    BY <1>3 DEF Base, StagesFit, Going
  <2>3. \A s \in Requests : stage'[s] \notin {"none"} => account'[s] \in Users
    BY <1>3 DEF Base, StagesFit
  <2>4. \A s \in Requests : Wrote(s)' => kind'[s] = "signup" /\ stage'[s] \in Going \cup {"over"}
    BY <1>3, <1>5, <1>6 DEF Base, StagesFit
  <2> QED
    BY <2>1, <2>2, <2>3, <2>4 DEF StagesFit
<1>8. EventsFit'
  <2>1. \A i \in 1..Len(mainQueue) : mainQueue[i].is # "user" =>
          /\ mainQueue[i].request \in Requests \ {r}
          /\ stage[mainQueue[i].request] = "answered"
    <3>1. \A i \in 1..Len(mainQueue) : mainQueue[i] \in Events
      BY DEF Base, TypeOK
    <3> QED
      BY <1>3, <3>1, EventType DEF Base, EventsFit
  <2>2. UNCHANGED mainQueue
    BY DEF Tap, sessionVars
  <2> QED
    BY <1>3, <2>1, <2>2 DEF Base, EventsFit
<1>9. MadeOnce'
  <2>1. UNCHANGED accounts
    BY DEF Tap, serverVars
  <2>2. \A s \in Requests : Made(s)' => s # r /\ Made(s) /\ account'[s] = account[s]
    BY <1>3, <1>6
  <2> QED
    BY <2>1, <2>2 DEF Base, MadeOnce
<1>10. OneDocument'
  BY <1>3, <1>5 DEF Base, OneDocument
<1> QED
  BY <1>4, <1>7, <1>8, <1>9, <1>10 DEF Base

\* What is to show of the other actions.
LEMMA BaseFrom ==
  ASSUME Base, TypeOK', EventsFit', Moving
  PROVE  Base'
BY MovingKeeps DEF Base

\* Firestore connects anew.
LEMMA NothingReached ==
  ASSUME queue' \in [Sessions -> Seq(Writes)], firestoreUser' \in Sessions, reached' = 0
  PROVE  reached' \in 0..Len(queue'[firestoreUser'])
<1>1. Len(queue'[firestoreUser']) \in Nat
  OBVIOUS
<1> QED
  BY <1>1

\* The user and the app.
LEMMA FinishKeepsBase ==
  ASSUME Base, FinishWalkthrough
  PROVE  Base'
<1>1. TypeOK'
  BY DEF Base, TypeOK, FinishWalkthrough, serverVars, sessionVars, requestVars
<1>2. EventsFit'
  BY EventsLeft DEF Base, FinishWalkthrough, sessionVars, requestVars
<1>3. Moving
  BY SameLeaves DEF Moving, Goes, FinishWalkthrough, serverVars, requestVars
<1> QED
  BY <1>1, <1>2, <1>3, BaseFrom

LEMMA SignOutKeepsBase ==
  ASSUME Base, SignOutButtonPressed
  PROVE  Base'
<1> DEFINE e == [is |-> "user", user |-> Nobody]
<1>1. e \in Events /\ e.is = "user"
  BY DEF Events, Sessions
<1>2. mainQueue' = mainQueue \/ mainQueue' = Append(mainQueue, e)
  BY DEF SignOutButtonPressed
<1> HIDE DEF e
<1>3. /\ mainQueue' \in Seq(Events)
      /\ \A i \in 1..Len(mainQueue') : mainQueue'[i].is # "user" =>
           i \in 1..Len(mainQueue) /\ mainQueue'[i] = mainQueue[i]
  <2>1. mainQueue \in Seq(Events)
    BY DEF Base, TypeOK
  <2>2. CASE mainQueue' = mainQueue
    BY <2>1, <2>2
  <2>3. CASE mainQueue' = Append(mainQueue, e)
    BY <1>1, <2>1, <2>3
  <2> QED
    BY <1>2, <2>2, <2>3
<1>4. TypeOK'
  BY <1>3 DEF Base, TypeOK, SignOutButtonPressed, serverVars, requestVars, Sessions
<1>5. EventsFit'
  BY <1>3 DEF Base, EventsFit, SignOutButtonPressed, requestVars
<1>6. Moving
  BY SameLeaves DEF Moving, Goes, SignOutButtonPressed, serverVars, requestVars
<1> QED
  BY <1>4, <1>5, <1>6, BaseFrom

LEMMA RelaunchKeepsBase ==
  ASSUME Base, Relaunch
  PROVE  Base'
<1>1. stage' = [r \in Requests |-> IF Live(r) THEN "over" ELSE stage[r]]
  BY DEF Relaunch
<1>2. \A r \in Requests : stage'[r] = stage[r] \/ (Live(r) /\ stage'[r] = "over")
  BY <1>1
<1>3. TypeOK'
  <2>1. stage' \in [Requests -> Stages]
    BY <1>1 DEF Base, TypeOK, Stages
  <2>2. reached' \in 0..Len(queue'[firestoreUser'])
    BY NothingReached DEF Base, TypeOK, Relaunch
  <2> QED
    BY <2>1, <2>2 DEF Base, TypeOK, Relaunch, serverVars, requestVars
<1>4. EventsFit'
  BY DEF EventsFit, Relaunch
<1>5. Moving
  BY <1>2, SameLeaves DEF Moving, Goes, Relaunch, serverVars, requestVars
<1> QED
  BY <1>3, <1>4, <1>5, BaseFrom

\* Auth.
LEMMA AccountCreatedKeepsBase ==
  ASSUME Base, NEW r \in Requests, AccountCreated(r)
  PROVE  Base'
<1>1. /\ stage[r] = "asked" /\ kind[r] = "signup" /\ account[r] \in Users
      /\ account[r] \in accounts' \ accounts /\ accounts \subseteq accounts'
      /\ SignsIn(r, account[r]) /\ current' = account[r] /\ UNCHANGED kind
  BY DEF Base, StagesFit, AccountCreated, SignsIn, requestVars
<1>2. mainQueue' \in Seq(Events) /\ EventsFit'
  BY <1>1, EventsAdded DEF Base
<1>3. /\ stage' \in [Requests -> Stages] /\ stage'[r] = "answered"
      /\ \A s \in Requests \ {r} : stage'[s] = stage[s]
  BY <1>1, OneMoves DEF Base, SignsIn, Stages
<1>4. TypeOK'
  BY <1>1, <1>2, <1>3 DEF Base, TypeOK, AccountCreated, screenVars, requestVars, Sessions
<1>5. Moving
  BY <1>1, <1>3, SameLeaves DEF Moving, Goes, AccountCreated, requestVars
<1> QED
  BY <1>2, <1>4, <1>5, BaseFrom

LEMMA SignedInKeepsBase ==
  ASSUME Base, NEW r \in Requests, SignedIn(r)
  PROVE  Base'
<1>1. /\ stage[r] = "asked" /\ kind[r] = "login" /\ account[r] \in Users
      /\ SignsIn(r, account[r]) /\ current' = account[r] /\ UNCHANGED kind
  BY DEF Base, StagesFit, SignedIn, SignsIn, requestVars
<1>2. mainQueue' \in Seq(Events) /\ EventsFit'
  BY <1>1, EventsAdded DEF Base
<1>3. /\ stage' \in [Requests -> Stages] /\ stage'[r] = "answered"
      /\ \A s \in Requests \ {r} : stage'[s] = stage[s]
  BY <1>1, OneMoves DEF Base, SignsIn, Stages
<1>4. TypeOK'
  BY <1>1, <1>2, <1>3 DEF Base, TypeOK, SignedIn, serverVars, screenVars, requestVars, Sessions
<1>5. Moving
  BY <1>1, <1>3, SameLeaves DEF Moving, Goes, SignedIn, serverVars, requestVars
<1> QED
  BY <1>2, <1>4, <1>5, BaseFrom

LEMMA AuthFailsKeepsBase ==
  ASSUME Base, NEW r \in Requests, AuthFails(r)
  PROVE  Base'
<1>1. stage[r] = "asked" /\ account[r] \in Users
  BY DEF Base, StagesFit, AuthFails
<1>2. /\ stage' \in [Requests -> Stages] /\ stage'[r] = "over"
      /\ \A s \in Requests \ {r} : stage'[s] = stage[s]
  BY OneMoves DEF Base, AuthFails, Stages
<1>3. TypeOK'
  BY <1>1, <1>2 DEF Base, TypeOK, AuthFails, sessionVars, screenVars, requestVars
<1>4. EventsFit'
  BY <1>1, <1>2, EventsLeft DEF Base, AuthFails, sessionVars, requestVars
<1>5. Moving
  BY <1>1, <1>2, SameLeaves DEF Moving, Goes, Live, AuthFails, requestVars
<1> QED
  BY <1>3, <1>4, <1>5, BaseFrom

\* The main queue.
LEMMA CredentialChangeKeepsBase ==
  ASSUME Base, CredentialChange
  PROVE  Base'
<1>1. mainQueue # <<>> /\ Head(mainQueue).is = "user" /\ Head(mainQueue) \in Events
  BY HeadEvent DEF Base, CredentialChange, NextIs
<1>2. firestoreUser' \in Sessions
  BY <1>1, EventType DEF CredentialChange
<1>3. mainQueue' \in Seq(Events) /\ EventsFit'
  BY <1>1, EventTaken DEF Base, CredentialChange, requestVars
<1>4. TypeOK'
  <2>1. reached' \in 0..Len(queue'[firestoreUser'])
    BY <1>2, NothingReached DEF Base, TypeOK, CredentialChange
  <2> QED
    BY <1>2, <1>3, <2>1 DEF Base, TypeOK, CredentialChange, serverVars, screenVars, requestVars
<1>5. Moving
  BY SameLeaves DEF Moving, Goes, CredentialChange, serverVars, requestVars
<1> QED
  BY <1>3, <1>4, <1>5, BaseFrom

\* The request whose answer runs next.
LEMMA AnswerRuns ==
  ASSUME Base, mainQueue # <<>>, Head(mainQueue).is # "user"
  PROVE  \E r \in Requests :
           /\ r = Head(mainQueue).request /\ stage[r] = "answered" /\ account[r] \in Users
           /\ Head(mainQueue).is = "navigate" => kind[r] = "login"
BY HeadAnswer DEF Base, StagesFit

\* The writes NewUserCreated queues, for an answered sign-up r.
LEMMA WritesOf ==
  ASSUME TypeOK, NEW r \in Requests, account[r] \in Users
  PROVE  /\ AccountWrite(r) \in Writes
         /\ AccountWrite(r).sets = "account" /\ AccountWrite(r).request = r
         /\ AccountWrite(r).document = account[r]
         /\ current # Nobody =>
              /\ UsernameWrite(r) \in Writes
              /\ UsernameWrite(r).sets = "username" /\ UsernameWrite(r).request = r
              /\ UsernameWrite(r).document = current
              /\ DetailsWrite(r) \in Writes
              /\ DetailsWrite(r).sets = "details" /\ DetailsWrite(r).request = r
              /\ DetailsWrite(r).document = current
BY DEF TypeOK, Sessions, Writes, AccountWrite, UsernameWrite, DetailsWrite

\* What NewUserCreated adds to Firestore's queue.
LEMMA NewUserWrites ==
  ASSUME Base, NewUserCreated
  PROVE  \E r \in Requests, ws \in Seq(Writes) :
           /\ r = Head(mainQueue).request /\ kind[r] = "signup"
           /\ stage[r] = "answered" /\ account[r] \in Users
           /\ Moves(r, "over") \/ Moves(r, "naming")
           /\ Enqueue(ws)
           /\ \A i \in 1..Len(ws) :
                \/ i = 1 /\ ws[i] = AccountWrite(r)
                \/ i = 2 /\ ws[i] = UsernameWrite(r) /\ current # Nobody
<1>1. PICK r \in Requests : r = Head(mainQueue).request /\ stage[r] = "answered" /\ account[r] \in Users
  BY AnswerRuns DEF NewUserCreated, NextIs
<1>2. /\ AccountWrite(r) \in Writes
      /\ current # Nobody => UsernameWrite(r) \in Writes
  BY <1>1, WritesOf DEF Base
<1>3. kind[r] = "signup"
  BY <1>1 DEF NewUserCreated
<1>4. CASE ~Alive(r)
  <2> DEFINE ws == <<>>
  <2>1. Moves(r, "over") /\ queue' = queue /\ reached' = reached
    BY <1>1, <1>4 DEF NewUserCreated
  <2>2. Enqueue(ws)
    <3>1. queue \in [Sessions -> Seq(Writes)] /\ firestoreUser \in Sessions
      BY DEF Base, TypeOK
    <3>2. queue[firestoreUser] \o <<>> = queue[firestoreUser]
      BY <3>1
    <3> QED
      BY <2>1, <3>1, <3>2 DEF Enqueue
  <2>3. ws \in Seq(Writes) /\ 1..Len(ws) = {}
    OBVIOUS
  <2> HIDE DEF ws
  <2> QED
    BY <1>1, <1>3, <2>1, <2>2, <2>3
<1>5. CASE Alive(r) /\ current = Nobody
  <2> DEFINE ws == <<AccountWrite(r)>>
  <2>1. Moves(r, "over") /\ Enqueue(ws)
    BY <1>1, <1>5 DEF NewUserCreated
  <2>2. ws \in Seq(Writes) /\ \A i \in 1..Len(ws) : i = 1 /\ ws[i] = AccountWrite(r)
    BY <1>2
  <2> HIDE DEF ws
  <2> QED
    BY <1>1, <1>3, <2>1, <2>2
<1>6. CASE Alive(r) /\ current # Nobody
  <2> DEFINE ws == <<AccountWrite(r), UsernameWrite(r)>>
  <2>1. Moves(r, "naming") /\ Enqueue(ws)
    BY <1>1, <1>6 DEF NewUserCreated
  <2>2. /\ ws \in Seq(Writes)
        /\ \A i \in 1..Len(ws) : \/ i = 1 /\ ws[i] = AccountWrite(r)
                                 \/ i = 2 /\ ws[i] = UsernameWrite(r)
    BY <1>2, <1>6
  <2> HIDE DEF ws
  <2> QED
    BY <1>1, <1>3, <1>6, <2>1, <2>2
<1> QED
  BY <1>4, <1>5, <1>6

LEMMA NewUserCreatedKeepsBase ==
  ASSUME Base, NewUserCreated
  PROVE  Base'
<1>1. PICK r \in Requests, ws \in Seq(Writes) :
           /\ r = Head(mainQueue).request /\ kind[r] = "signup"
           /\ stage[r] = "answered" /\ account[r] \in Users
           /\ Moves(r, "over") \/ Moves(r, "naming")
           /\ Enqueue(ws)
           /\ \A i \in 1..Len(ws) :
                \/ i = 1 /\ ws[i] = AccountWrite(r)
                \/ i = 2 /\ ws[i] = UsernameWrite(r) /\ current # Nobody
  BY NewUserWrites
<1>2. /\ stage' \in [Requests -> Stages] /\ stage'[r] \in {"over", "naming"}
      /\ \A s \in Requests \ {r} : stage'[s] = stage[s]
  BY <1>1, OneMoves DEF Base, Stages
<1>3. /\ mainQueue # <<>> /\ Head(mainQueue).is = "answer" /\ mainQueue' = Tail(mainQueue)
      /\ UNCHANGED <<documents, customers, accounts, kind, account, tapped>>
      /\ displayName' = [u \in Users |-> IF u = current THEN r ELSE displayName[u]]
  BY <1>1 DEF NewUserCreated, NextIs, requestVars
<1>4. mainQueue' \in Seq(Events) /\ EventsFit'
  BY <1>1, <1>2, <1>3, EventTaken DEF Base
<1>5. \A i \in 1..Len(ws) : ws[i].request = r /\ ws[i].sets # "details"
  BY <1>1, WritesOf DEF Base
<1>6. /\ queue' \in [Sessions -> Seq(Writes)]
      /\ reached' \in 0..Len(queue'[firestoreUser])
      /\ \A s \in Requests : Wrote(s)' => Wrote(s) \/ s = r
      /\ \A s \in Requests, u \in Users : DetailsFor(s, u)' => DetailsFor(s, u)
  <2>1. \A u \in Users : displayName'[u] # displayName[u] => displayName'[u] = r
    BY <1>3
  <2>2. TypeOK /\ UNCHANGED <<documents, customers>> /\ Enqueue(ws)
        /\ \A i \in 1..Len(ws) : ws[i].request = r
    BY <1>1, <1>3, <1>5 DEF Base
  <2>3. /\ queue' \in [Sessions -> Seq(Writes)]
        /\ reached' \in 0..Len(queue'[firestoreUser])
        /\ \A s \in Requests : Wrote(s)' => Wrote(s) \/ s = r
        /\ \A s \in Requests, u \in Users : DetailsFor(s, u)' =>
              \/ DetailsFor(s, u)
              \/ s = r /\ \E i \in 1..Len(ws) : ws[i].sets = "details" /\ ws[i].document = u
    BY ONLY <2>1, <2>2, QueuedLeaves
  <2> QED
    BY <1>5, <2>3
<1>7. TypeOK'
  <2>1. displayName' \in [Users -> Requests \cup {Nothing}]
    BY <1>3 DEF Base, TypeOK
  <2>2. UNCHANGED <<accounts, current, firestoreUser, documents, customers, screen,
                    visit, tapped, kind, account, from, crossed>>
    BY DEF NewUserCreated, screenVars, requestVars
  <2> QED
    BY <1>2, <1>4, <1>6, <2>1, <2>2 DEF Base, TypeOK
<1>8. Moving
  <2>1. \A s \in Requests : Leaves(s)
    BY <1>1, <1>2, <1>6 DEF Leaves, Going
  <2>2. \A s \in Requests : Details(s)
    BY <1>6 DEF Details
  <2>3. \A s \in Requests : Goes(s)
    BY <1>1, <1>2 DEF Goes, Live
  <2> QED
    BY <1>2, <1>3, <2>1, <2>2, <2>3 DEF Moving
<1> QED
  BY <1>4, <1>7, <1>8, BaseFrom

LEMMA ExistingUserSignedKeepsBase ==
  ASSUME Base, ExistingUserSigned
  PROVE  Base'
<1>1. mainQueue' \in Seq(Events) /\ EventsFit'
  BY EventRequeued DEF Base, ExistingUserSigned, requestVars
<1>2. TypeOK'
  BY <1>1 DEF Base, TypeOK, ExistingUserSigned, serverVars, screenVars, requestVars
<1>3. Moving
  BY SameLeaves DEF Moving, Goes, ExistingUserSigned, serverVars, requestVars
<1> QED
  BY <1>1, <1>2, <1>3, BaseFrom

LEMMA NavigateKeepsBase ==
  ASSUME Base, NavigateToMainView
  PROVE  Base'
<1>1. PICK r \in Requests : r = Head(mainQueue).request /\ stage[r] = "answered"
  BY AnswerRuns DEF NavigateToMainView, NextIs
<1>2. Moves(r, "over")
  BY <1>1 DEF NavigateToMainView
<1>3. /\ stage' \in [Requests -> Stages] /\ stage'[r] = "over"
      /\ \A s \in Requests \ {r} : stage'[s] = stage[s]
  BY <1>2, OneMoves DEF Base, Stages
<1>4. mainQueue' \in Seq(Events) /\ EventsFit'
  BY <1>1, <1>3, EventTaken DEF Base, NavigateToMainView, NextIs, requestVars
<1>5. TypeOK'
  BY <1>3, <1>4 DEF Base, TypeOK, NavigateToMainView, serverVars, requestVars
<1>6. Moving
  BY <1>1, <1>3, SameLeaves DEF Moving, Goes, Live, NavigateToMainView, serverVars, requestVars
<1> QED
  BY <1>4, <1>5, <1>6, BaseFrom

\* Firestore.
LEMMA ServedKeepsBase ==
  ASSUME Base, NEW n \in 1..Len(queue[firestoreUser]),
         \/ documents' = documents
         \/ /\ Stores(queue[firestoreUser][n])
            /\ documents' = Applied(queue[firestoreUser][n]),
         UNCHANGED queue \/ (Pending # <<>> /\ Dequeue),
         reached' \in 0..Len(queue'[firestoreUser]),
         UNCHANGED <<accounts, displayName, customers, sessionVars, requestVars, visit>>,
         screen' \in {"login", "walkthrough", "main"},
         \A s \in Requests : Goes(s) /\ (stage[s] = "answered" => stage'[s] = "answered")
                                     /\ (stage'[s] = "answered" => stage[s] = "answered"),
         stage' \in [Requests -> Stages]
  PROVE  Base'
<1>1. /\ documents' \in [Users -> Documents]
      /\ \A u \in Users : documents'[u].there \/ documents'[u] = NoDocument
      /\ \A s \in Requests : Leaves(s) /\ Details(s)
  BY ServedLeaves DEF Base
<1>2. queue' \in [Sessions -> Seq(Writes)]
  BY AfterDequeue DEF Base, TypeOK
<1>3. TypeOK'
  BY <1>1, <1>2 DEF Base, TypeOK, sessionVars, requestVars
<1>4. EventsFit'
  BY EventsLeft DEF Base, sessionVars, requestVars
<1>5. Moving
  BY <1>1 DEF Moving, requestVars
<1> QED
  BY <1>3, <1>4, <1>5, BaseFrom

\* Where the server has got to in the queue.
LEMMA ReachedMoves ==
  ASSUME Base, ApplyNext \/ Disconnect \/ FirestoreAnswers
  PROVE  /\ Pending # <<>>
         /\ 1 \in 1..Len(queue[firestoreUser])
         /\ reached' \in 0..Len(queue'[firestoreUser])
<1>1. /\ queue \in [Sessions -> Seq(Writes)] /\ firestoreUser \in Sessions
      /\ Len(queue[firestoreUser]) \in Nat /\ reached \in 0..Len(queue[firestoreUser])
  BY DEF Base, TypeOK
<1>2. Pending # <<>> /\ Len(queue[firestoreUser]) # 0
  <2>1. Len(queue[firestoreUser]) # 0 \/ Pending # <<>>
    BY <1>1 DEF ApplyNext, Disconnect, FirestoreAnswers, DatabaseUserCreated,
                UsernameUpdated, DetailsUpdated, Answered, Refused, Pending
  <2> QED
    BY <1>1, <2>1, EmptySeq DEF Pending
<1>3. CASE ApplyNext \/ Disconnect
  BY <1>1, <1>3 DEF ApplyNext, Disconnect, Pending
<1>4. CASE FirestoreAnswers
  <2>1. Dequeue /\ (reached' = 0 \/ (reached > 0 /\ reached' = reached - 1))
    BY <1>4 DEF FirestoreAnswers, DatabaseUserCreated, UsernameUpdated, DetailsUpdated,
                Answered, Refused
  <2>2. Len(queue'[firestoreUser]) = Len(queue[firestoreUser]) - 1
    BY <1>2, <2>1, AfterDequeue DEF Base
  <2> QED
    BY <1>1, <1>2, <2>1, <2>2
<1> QED
  BY <1>1, <1>2, <1>3, <1>4

\* A request may go on when the write it waits for is answered.
LEMMA FirestoreKeepsBase ==
  ASSUME Base, ApplyNext \/ Disconnect \/ FirestoreAnswers
  PROVE  Base'
<1>1. /\ Pending # <<>> /\ 1 \in 1..Len(queue[firestoreUser])
      /\ reached' \in 0..Len(queue'[firestoreUser])
  BY ReachedMoves
<1>2. \A s \in Requests : stage[s] \in Stages
  BY DEF Base, TypeOK
<1>3. screen \in {"login", "walkthrough", "main"} /\ stage \in [Requests -> Stages]
  BY DEF Base, TypeOK
<1>4. \A s \in Requests : stage'[s] = stage[s] => Goes(s)
  BY DEF Goes
<1>5. PICK r \in Requests : r = Oldest.request
  BY <1>1, OldestWrite DEF Base
<1>6. ASSUME \/ stage' = stage
             \/ stage[r] \in {"naming", "details"} /\ Moves(r, "over")
             \/ stage[r] = "naming" /\ Moves(r, "customer")
      PROVE  /\ stage' \in [Requests -> Stages]
             /\ \A s \in Requests : Goes(s) /\ (stage[s] = "answered" => stage'[s] = "answered")
                                            /\ (stage'[s] = "answered" => stage[s] = "answered")
  <2>1. CASE stage' = stage
    BY <1>3, <1>4, <2>1
  <2>2. CASE stage' # stage
    <3>1. /\ stage[r] \in {"naming", "details"}
          /\ stage' \in [Requests -> Stages] /\ stage'[r] \in {"over", "customer"}
          /\ stage[r] = "naming" \/ stage'[r] = "over"
          /\ \A s \in Requests \ {r} : stage'[s] = stage[s]
      BY <1>6, <2>2, OneMoves DEF Base, Stages
    <3> QED
      BY <3>1 DEF Goes, Live
  <2> QED
    BY <2>1, <2>2
<1>7. CASE ApplyNext
  <2>1. reached + 1 \in 1..Len(queue[firestoreUser])
    BY <1>7 DEF Base, TypeOK, ApplyNext, Pending
  <2> QED
    BY <1>1, <1>3, <1>4, <1>7, <2>1, ServedKeepsBase DEF ApplyNext, Pending, screenVars
<1>12. CASE Disconnect
  BY <1>1, <1>3, <1>4, <1>12, ServedKeepsBase DEF Disconnect, serverVars, screenVars
<1>8. CASE DatabaseUserCreated
  BY <1>1, <1>3, <1>4, <1>8, ServedKeepsBase DEF DatabaseUserCreated, Answered, serverVars, screenVars
<1>9. CASE UsernameUpdated
  <2>1. \/ stage' = stage
        \/ stage[r] = "naming" /\ (Moves(r, "over") \/ Moves(r, "customer"))
    BY <1>5, <1>9 DEF UsernameUpdated
  <2>2. /\ stage' \in [Requests -> Stages]
        /\ \A s \in Requests : Goes(s) /\ (stage[s] = "answered" => stage'[s] = "answered")
                                       /\ (stage'[s] = "answered" => stage[s] = "answered")
    BY <1>6, <2>1
  <2> QED
    BY <1>1, <1>3, <1>9, <2>2, ServedKeepsBase DEF UsernameUpdated, Answered, serverVars, screenVars
<1>10. CASE DetailsUpdated
  <2>1. \/ stage' = stage
        \/ stage[r] = "details" /\ Moves(r, "over")
    BY <1>5, <1>10 DEF DetailsUpdated
  <2>2. /\ stage' \in [Requests -> Stages]
        /\ \A s \in Requests : Goes(s) /\ (stage[s] = "answered" => stage'[s] = "answered")
                                       /\ (stage'[s] = "answered" => stage[s] = "answered")
    BY <1>6, <2>1
  <2>3. screen' \in {"login", "walkthrough", "main"}
    BY <1>3, <1>10 DEF DetailsUpdated
  <2> QED
    BY <1>1, <1>10, <2>2, <2>3, ServedKeepsBase DEF DetailsUpdated, Answered, serverVars
<1>11. CASE Refused
  <2>1. \/ stage' = stage
        \/ stage[r] \in {"naming", "details"} /\ Moves(r, "over")
    BY <1>5, <1>11 DEF Refused, Moves
  <2>2. /\ stage' \in [Requests -> Stages]
        /\ \A s \in Requests : Goes(s) /\ (stage[s] = "answered" => stage'[s] = "answered")
                                       /\ (stage'[s] = "answered" => stage[s] = "answered")
    BY <1>6, <2>1
  <2> QED
    BY <1>1, <1>3, <1>11, <2>2, ServedKeepsBase DEF Refused, serverVars, screenVars
<1> QED
  BY <1>7, <1>8, <1>9, <1>10, <1>11, <1>12 DEF FirestoreAnswers

\* The Cloud Function.
LEMMA CustomerCreatedKeepsBase ==
  ASSUME Base, NEW r \in Requests, CustomerCreated(r)
  PROVE  Base'
<1>1. stage[r] = "customer" /\ kind[r] = "signup"
  BY DEF Base, StagesFit, CustomerCreated, Going
<1>2. TypeOK'
  BY DEF Base, TypeOK, CustomerCreated, sessionVars, screenVars, requestVars
<1>3. EventsFit'
  BY EventsLeft DEF Base, CustomerCreated, sessionVars, requestVars
<1>4. ASSUME NEW s \in Requests PROVE Leaves(s) /\ Details(s)
  <2>1. Wrote(s)' => Wrote(s) \/ s = r
    BY DEF Wrote, CustomerCreated
  <2>2. \A u \in Users : DetailsFor(s, u)' <=> DetailsFor(s, u)
    BY DEF DetailsFor, CustomerCreated
  <2>3. stage'[r] \in Going /\ kind[r] = "signup"
    BY <1>1 DEF CustomerCreated, Going
  <2> QED
    BY <1>1, <2>1, <2>2, <2>3 DEF Leaves, Details
<1>5. Moving
  BY <1>4 DEF Moving, Goes, CustomerCreated, requestVars
<1> QED
  BY <1>2, <1>3, <1>5, BaseFrom

LEMMA CustomerAnsweredKeepsBase ==
  ASSUME Base, NEW r \in Requests, CustomerAnswered(r)
  PROVE  Base'
<1>1. stage[r] = "customer" /\ kind[r] = "signup" /\ account[r] \in Users
  BY DEF Base, StagesFit, CustomerAnswered, Going
<1>2. \/ Moves(r, "over") /\ UNCHANGED <<queue, reached>>
      \/ current # Nobody /\ Moves(r, "details") /\ Enqueue(<<DetailsWrite(r)>>)
  BY DEF CustomerAnswered
<1>3. /\ stage' \in [Requests -> Stages] /\ stage'[r] \in {"over", "details"}
      /\ \A s \in Requests \ {r} : stage'[s] = stage[s]
  BY <1>2, OneMoves DEF Base, Stages
<1>4. EventsFit'
  BY <1>1, <1>3, EventsLeft DEF Base, CustomerAnswered, sessionVars, requestVars
<1>5. \A s \in Requests : Goes(s)
  BY <1>1, <1>3 DEF Goes, Live
<1>6. CASE Moves(r, "over") /\ UNCHANGED <<queue, reached>>
  <2>1. TypeOK'
    BY <1>3, <1>6 DEF Base, TypeOK, CustomerAnswered, serverVars, sessionVars, screenVars,
                      requestVars
  <2>2. Moving
    BY <1>1, <1>3, <1>5, <1>6, SameLeaves DEF Moving, CustomerAnswered, serverVars, requestVars
  <2> QED
    BY <1>4, <2>1, <2>2, BaseFrom
<1>7. CASE current # Nobody /\ Moves(r, "details") /\ Enqueue(<<DetailsWrite(r)>>)
  <2> DEFINE ws == <<DetailsWrite(r)>>
  <2>1. DetailsWrite(r) \in Writes /\ DetailsWrite(r).request = r
        /\ DetailsWrite(r).document = current
    BY <1>1, <1>7, WritesOf DEF Base
  <2>2. /\ ws \in Seq(Writes) /\ Enqueue(ws)
        /\ \A i \in 1..Len(ws) : ws[i].request = r /\ ws[i].document = current
    BY <1>7, <2>1
  <2> HIDE DEF ws
  <2>3. /\ TypeOK /\ UNCHANGED <<documents, customers>>
        /\ \A u \in Users : displayName'[u] # displayName[u] => displayName'[u] = r
    BY DEF Base, CustomerAnswered, serverVars
  <2>4. /\ queue' \in [Sessions -> Seq(Writes)]
        /\ reached' \in 0..Len(queue'[firestoreUser])
        /\ \A s \in Requests : Wrote(s)' => Wrote(s) \/ s = r
        /\ \A s \in Requests, u \in Users : DetailsFor(s, u)' =>
              \/ DetailsFor(s, u)
              \/ s = r /\ \E i \in 1..Len(ws) : ws[i].sets = "details" /\ ws[i].document = u
    BY ONLY <2>2, <2>3, QueuedLeaves
  <2>5. TypeOK'
    BY <1>3, <2>4 DEF Base, TypeOK, CustomerAnswered, serverVars, sessionVars, screenVars,
                      requestVars
  <2>6. stage'[r] = "details"
    BY <1>7, OneMoves DEF Base, Stages
  <2>7. \A s \in Requests : Leaves(s) /\ Details(s)
    BY <1>1, <2>2, <2>4, <2>6 DEF Leaves, Details, Going
  <2>8. Moving
    BY <1>1, <1>3, <1>5, <2>7 DEF Moving, CustomerAnswered, serverVars, requestVars
  <2> QED
    BY <1>4, <2>5, <2>8, BaseFrom
<1> QED
  BY <1>2, <1>6, <1>7

LEMMA CustomerFailsKeepsBase ==
  ASSUME Base, NEW r \in Requests, CustomerFails(r)
  PROVE  Base'
<1>1. stage[r] = "customer" /\ Moves(r, "over")
  BY DEF CustomerFails
<1>2. /\ stage' \in [Requests -> Stages] /\ stage'[r] = "over"
      /\ \A s \in Requests \ {r} : stage'[s] = stage[s]
  BY <1>1, OneMoves DEF Base, Stages
<1>3. TypeOK'
  BY <1>2 DEF Base, TypeOK, CustomerFails, serverVars, sessionVars, screenVars, requestVars
<1>4. EventsFit'
  BY <1>1, <1>2, EventsLeft DEF Base, CustomerFails, sessionVars, requestVars
<1>5. Moving
  BY <1>1, <1>2, SameLeaves DEF Moving, Goes, Live, CustomerFails, serverVars, requestVars
<1> QED
  BY <1>3, <1>4, <1>5, BaseFrom

LEMMA BaseStep ==
  ASSUME Base, [Next]_vars
  PROVE  Base'
<1>1. CASE UNCHANGED vars
  <2>1. TypeOK'
    BY <1>1 DEF Base, TypeOK, vars
  <2>2. EventsFit'
    BY <1>1, EventsLeft DEF Base, vars
  <2>3. Moving
    BY <1>1, SameLeaves DEF Moving, Goes, vars
  <2> QED
    BY <2>1, <2>2, <2>3, BaseFrom
<1>2. ASSUME NEW what \in {"signup", "login"}, NEW u \in Users, Tap(what, u) PROVE Base'
  BY <1>2, TapKeepsBase
<1>3. CASE FinishWalkthrough \/ SignOutButtonPressed \/ Relaunch
  BY <1>3, FinishKeepsBase, SignOutKeepsBase, RelaunchKeepsBase
<1>4. ASSUME NEW r \in Requests,
             AuthAnswers(r) \/ CustomerCreated(r) \/ CustomerAnswered(r) \/ CustomerFails(r)
      PROVE  Base'
  BY <1>4, AccountCreatedKeepsBase, SignedInKeepsBase, AuthFailsKeepsBase,
     CustomerCreatedKeepsBase, CustomerAnsweredKeepsBase, CustomerFailsKeepsBase DEF AuthAnswers
<1>5. CASE RunMainQueue
  BY <1>5, CredentialChangeKeepsBase, NewUserCreatedKeepsBase, ExistingUserSignedKeepsBase,
     NavigateKeepsBase DEF RunMainQueue
<1>6. CASE ApplyNext \/ Disconnect \/ FirestoreAnswers
  BY <1>6, FirestoreKeepsBase
<1> QED
  BY <1>1, <1>2, <1>3, <1>4, <1>5, <1>6 DEF Next

THEOREM BaseHolds == Spec => []Base
BY BaseInit, BaseStep, PTL DEF Spec

\* The state has the shape that is meant, for any users and any number of taps.
THEOREM TypeInvariant == Spec => []TypeOK
<1>1. Base => TypeOK
  BY DEF Base
<1> QED
  BY <1>1, BaseHolds, PTL

\* No account gets two Stripe customers and no two documents get the same one, even
\* when requests cross: an account is made for one request, which has one answer.
THEOREM CustomersApart == Spec => []OneCustomerEach
<1>1. ASSUME Base PROVE OneCustomerEach
  <2>1. ASSUME NEW r \in customers, NEW s \in customers, account[r] = account[s] PROVE r = s
    <3>1. r \in Requests /\ s \in Requests
      BY <1>1 DEF Base, TypeOK
    <3> QED
      BY <1>1, <2>1, <3>1 DEF Base, MadeOnce, Made, Wrote
  <2>2. ASSUME NEW u \in Users, NEW v \in Users, u # v,
               documents[u].customer = documents[v].customer
        PROVE  documents[u].customer = Nothing
    <3>1. documents[u].customer \in Requests \cup {Nothing}
      BY <1>1 DEF Base, TypeOK, Documents
    <3> QED
      BY <1>1, <2>2, <3>1 DEF Base, OneDocument, DetailsFor
  <2> QED
    BY <2>1, <2>2 DEF OneCustomerEach
<1> QED
  BY <1>1, BaseHolds, PTL

-------------------------------------------------------------------------------
(* Taking turns. *)

Turn == OneAtATime /\ ToldInTime

\* The request of an answer on the main queue.
LEMMA Waits ==
  ASSUME Base, NEW i \in 1..Len(mainQueue), mainQueue[i].is # "user"
  PROVE  /\ mainQueue[i].request \in Requests /\ stage[mainQueue[i].request] = "answered"
         /\ Live(mainQueue[i].request)
<1>1. mainQueue[i] \in Events
  BY DEF Base, TypeOK
<1>2. mainQueue[i].request \in Requests /\ stage[mainQueue[i].request] = "answered"
  BY <1>1, EventType DEF Base, EventsFit
<1> QED
  BY <1>2 DEF Live

\* Nothing but stages changes, and no request comes to life.
LEMMA TurnLeft ==
  ASSUME Base, Turn, UNCHANGED <<sessionVars, kind, account>>,
         \A s \in Requests : /\ Live(s)' => Live(s) /\ screen' = "login"
                             /\ stage'[s] = "answered" => stage[s] = "answered"
                             /\ stage'[s] \in Going => stage[s] \in Going
  PROVE  Turn'
<1>1. OneAtATime'
  BY DEF Turn, OneAtATime, sessionVars, Going
<1>2. ToldInTime'
  BY DEF Turn, ToldInTime, sessionVars
<1> QED
  BY <1>1, <1>2 DEF Turn

LEMMA TapKeepsTurn ==
  ASSUME Base, Base', Turn, ~crossed', NEW what \in {"signup", "login"}, NEW u \in Users,
         Tap(what, u)
  PROVE  Turn'
<1>1. PICK r \in Requests : r = tapped'
  BY DEF Base, TypeOK, Tap, Requests
<1>2. \A s \in Requests : ~Live(s)
  BY DEF Tap
<1>3. /\ stage' = [stage EXCEPT ![r] = "asked"] /\ kind' = [kind EXCEPT ![r] = what]
      /\ account' = [account EXCEPT ![r] = u]
      /\ UNCHANGED <<mainQueue, screen>> /\ screen = "login"
  BY <1>1 DEF Tap, Moves, sessionVars, screenVars
<1>4. stage'[r] = "asked" /\ \A s \in Requests \ {r} : stage'[s] = stage[s]
  BY <1>3 DEF Base, TypeOK
<1>5. \A s \in Requests : /\ Live(s)' => s = r
                          /\ stage'[s] \notin Going \cup {"answered"}
  BY <1>2, <1>4 DEF Live, Going
<1>6. OneAtATime'
  BY <1>3, <1>5 DEF OneAtATime
<1>7. \A i \in 1..Len(mainQueue') : mainQueue'[i].is = "user"
  BY <1>2, <1>3, Waits
<1>8. ToldInTime'
  BY <1>5, <1>7 DEF ToldInTime
<1> QED
  BY <1>6, <1>8 DEF Turn

\* Nobody can sign out while a request is under way.
LEMMA SignOutKeepsTurn ==
  ASSUME Base, Turn, SignOutButtonPressed
  PROVE  Turn'
<1> DEFINE e == [is |-> "user", user |-> Nobody]
<1>1. \A s \in Requests : ~Live(s)
  BY DEF Turn, OneAtATime, SignOutButtonPressed
<1>2. \A s \in Requests : ~Live(s)' /\ stage'[s] \notin Going \cup {"answered"}
  BY <1>1 DEF Live, SignOutButtonPressed, Going
<1>3. e.is = "user" /\ e \in Events
  BY DEF Events, Sessions
<1>4. mainQueue \in Seq(Events) /\ \A i \in 1..Len(mainQueue) : mainQueue[i].is = "user"
  BY <1>1, Waits DEF Base, TypeOK
<1>5. mainQueue' = mainQueue \/ mainQueue' = Append(mainQueue, e)
  BY DEF SignOutButtonPressed
<1> HIDE DEF e
<1>6. \A i \in 1..Len(mainQueue') : mainQueue'[i].is = "user"
  BY <1>3, <1>4, <1>5
<1> QED
  BY <1>2, <1>6 DEF Turn, OneAtATime, ToldInTime

LEMMA RelaunchKeepsTurn ==
  ASSUME Relaunch
  PROVE  Turn'
<1>1. \A s \in Requests : ~Live(s)' /\ stage'[s] \notin Going \cup {"answered"}
  BY DEF Relaunch, Live, Going
<1>2. Len(mainQueue') = 0
  BY DEF Relaunch
<1> QED
  BY <1>1, <1>2 DEF Turn, OneAtATime, ToldInTime

\* Auth answers the only request there is: nobody else's answer waits, and the user
\* is put on the main queue just before it.
LEMMA SignsInKeepsTurn ==
  ASSUME Base, Turn, NEW r \in Requests, stage[r] = "asked", SignsIn(r, account[r]),
         UNCHANGED <<firestoreUser, kind, account, screen>>
  PROVE  Turn'
<1>1. account[r] \in Users /\ current' = account[r]
  BY DEF Base, StagesFit, SignsIn
<1>2. /\ mainQueue \in Seq(Events) /\ Len(mainQueue') = Len(mainQueue) + 2
      /\ \A i \in 1..Len(mainQueue) : mainQueue'[i] = mainQueue[i]
      /\ mainQueue'[Len(mainQueue) + 1] = [is |-> "user", user |-> account[r]]
      /\ mainQueue'[Len(mainQueue) + 2] = [is |-> "answer", request |-> r]
  BY <1>1, EventsAdded DEF Base, TypeOK
<1>3. stage'[r] = "answered" /\ \A s \in Requests \ {r} : stage'[s] = stage[s]
  BY OneMoves DEF Base, SignsIn, Stages
<1>4. Live(r) /\ \A s \in Requests \ {r} : ~Live(s)
  BY DEF Live, Turn, OneAtATime
<1>5. /\ \A s \in Requests \ {r} : ~Live(s)'
      /\ \A s \in Requests : /\ stage'[s] \notin Going
                             /\ stage'[s] = "answered" => s = r
  BY <1>3, <1>4 DEF Live, Going
<1>6. OneAtATime'
  <2>1. screen' = "login"
    BY <1>4 DEF Turn, OneAtATime
  <2> QED
    BY <1>1, <1>5, <2>1 DEF OneAtATime
<1>7. \A i \in 1..Len(mainQueue) : mainQueue[i].is = "user"
  <2>1. \A s \in Requests : stage[s] # "answered"
    BY <1>3, <1>5
  <2> QED
    BY <2>1, Waits
<1>8. \A i \in 1..Len(mainQueue') : mainQueue'[i].is # "user" =>
        /\ i = Len(mainQueue') /\ i # 1 /\ mainQueue'[i].request = r
        /\ mainQueue'[i - 1] = [is |-> "user", user |-> account[r]]
  <2> SUFFICES ASSUME NEW i \in 1..Len(mainQueue'), mainQueue'[i].is # "user"
               PROVE  i = Len(mainQueue) + 2
    BY <1>2
  <2>1. CASE i \in 1..Len(mainQueue)
    BY <1>2, <1>7, <2>1
  <2>2. CASE i = Len(mainQueue) + 1
    BY <1>2, <2>2
  <2> QED
    BY <1>2, <2>1, <2>2
<1>9. ToldInTime'
  BY <1>5, <1>8 DEF ToldInTime
<1> QED
  BY <1>6, <1>9 DEF Turn

LEMMA CredentialChangeKeepsTurn ==
  ASSUME Base, Turn, CredentialChange
  PROVE  Turn'
<1>1. /\ mainQueue # <<>> /\ mainQueue[1].is = "user" /\ firestoreUser' = mainQueue[1].user
      /\ Len(mainQueue) \in Nat \ {0} /\ Len(mainQueue') = Len(mainQueue) - 1
      /\ \A i \in 1..Len(mainQueue') :
           i + 1 \in 1..Len(mainQueue) /\ mainQueue'[i] = mainQueue[i + 1]
  BY HeadEvent DEF Base, CredentialChange, NextIs
<1>2. UNCHANGED <<current, stage, kind, account, screen>>
  BY DEF CredentialChange, screenVars, requestVars
<1>3. OneAtATime'
  BY <1>2 DEF Turn, OneAtATime, Live
<1>4. \A s \in Requests : stage'[s] \notin Going
  BY <1>1, <1>2 DEF Turn, ToldInTime
<1>5. ASSUME NEW i \in 1..Len(mainQueue'), mainQueue'[i].is # "user"
      PROVE  /\ i = Len(mainQueue')
             /\ kind'[mainQueue'[i].request] = "signup" =>
                  IF i = 1 THEN firestoreUser' = account'[mainQueue'[i].request]
                  ELSE mainQueue'[i - 1] =
                         [is |-> "user", user |-> account'[mainQueue'[i].request]]
  <2>1. /\ i + 1 \in 1..Len(mainQueue) /\ mainQueue'[i] = mainQueue[i + 1] /\ i + 1 # 1
        /\ (i + 1) - 1 = i
    BY <1>1
  <2>2. /\ i + 1 = Len(mainQueue)
        /\ kind[mainQueue[i + 1].request] = "signup" =>
             mainQueue[i] = [is |-> "user", user |-> account[mainQueue[i + 1].request]]
    BY <1>5, <2>1 DEF Turn, ToldInTime
  <2>3. CASE i = 1
    <3>1. i = Len(mainQueue')
      BY <1>1, <2>2
    <3>2. kind[mainQueue[i + 1].request] = "signup" =>
            firestoreUser' = account[mainQueue[i + 1].request]
      BY <1>1, <2>2, <2>3
    <3> QED
      BY <1>2, <2>1, <2>3, <3>1, <3>2
  <2>4. CASE i # 1
    <3>1. i - 1 \in 1..Len(mainQueue') /\ (i - 1) + 1 = i
      BY <1>1, <2>4
    <3>2. mainQueue'[i - 1] = mainQueue[i]
      BY <1>1, <3>1
    <3> QED
      BY <1>1, <1>2, <2>1, <2>2, <2>4, <3>2
  <2> QED
    BY <2>3, <2>4
<1>6. ToldInTime'
  BY <1>4, <1>5 DEF ToldInTime
<1> QED
  BY <1>3, <1>6 DEF Turn

\* When the answer to a request runs it is the last event.
LEMMA LastEvent ==
  ASSUME Base, Turn, mainQueue # <<>>, Head(mainQueue).is # "user"
  PROVE  /\ Len(Tail(mainQueue)) = 0 /\ Tail(mainQueue) = <<>>
         /\ \E r \in Requests :
              /\ r = Head(mainQueue).request /\ stage[r] = "answered" /\ account[r] \in Users
              /\ \A s \in Requests \ {r} : ~Live(s)
              /\ kind[r] = "signup" => firestoreUser = account[r] /\ current = account[r]
<1>1. /\ mainQueue \in Seq(Events) /\ 1 \in 1..Len(mainQueue) /\ Head(mainQueue) = mainQueue[1]
      /\ Tail(mainQueue) \in Seq(Events) /\ Len(Tail(mainQueue)) = Len(mainQueue) - 1
  BY HeadEvent DEF Base, TypeOK
<1>2. PICK r \in Requests :
        r = Head(mainQueue).request /\ stage[r] = "answered" /\ account[r] \in Users
  BY AnswerRuns
<1>3. /\ 1 = Len(mainQueue)
      /\ kind[r] = "signup" => firestoreUser = account[r]
  BY <1>1, <1>2 DEF Turn, ToldInTime
<1>4. /\ \A s \in Requests \ {r} : ~Live(s)
      /\ kind[r] = "signup" => current = account[r]
  BY <1>2 DEF Turn, OneAtATime, Live
<1>5. Tail(mainQueue) = <<>>
  <2> DEFINE t == Tail(mainQueue)
  <2>1. t \in Seq(Events) /\ Len(t) = Len(mainQueue) - 1
    BY <1>1
  <2>2. Len(mainQueue) = 1
    BY <1>3
  <2> HIDE DEF t
  <2>3. Len(t) = 0
    BY <2>1, <2>2
  <2>4. t = <<>>
    BY <2>1, <2>3, EmptySeq
  <2> QED
    BY <2>4 DEF t
<1> QED
  BY <1>1, <1>2, <1>3, <1>4, <1>5

LEMMA AnswersKeepTurn ==
  ASSUME Base, Turn, NewUserCreated \/ ExistingUserSigned \/ NavigateToMainView
  PROVE  Turn'
<1>1. mainQueue # <<>> /\ Head(mainQueue).is # "user"
  BY DEF NewUserCreated, ExistingUserSigned, NavigateToMainView, NextIs
<1>2. Tail(mainQueue) = <<>> /\ Len(Tail(mainQueue)) = 0
  BY <1>1, LastEvent
<1>3. PICK r \in Requests :
        /\ r = Head(mainQueue).request /\ stage[r] = "answered"
        /\ \A s \in Requests \ {r} : ~Live(s)
        /\ kind[r] = "signup" => firestoreUser = account[r] /\ current = account[r]
  BY <1>1, LastEvent
<1>4. UNCHANGED <<current, firestoreUser, kind, account>>
  BY DEF NewUserCreated, ExistingUserSigned, NavigateToMainView, requestVars
<1>5. Live(r) /\ screen = "login"
  BY <1>3 DEF Live, Turn, OneAtATime
<1>6. CASE NewUserCreated
  <2>1. /\ mainQueue' = <<>> /\ Len(mainQueue') = 0 /\ UNCHANGED screen /\ kind[r] = "signup"
        /\ Moves(r, "over") \/ Moves(r, "naming")
    BY <1>2, <1>3, <1>6 DEF NewUserCreated, screenVars
  <2>2. stage'[r] \in {"over", "naming"} /\ \A s \in Requests \ {r} : stage'[s] = stage[s]
    BY <2>1, OneMoves DEF Base, Stages
  <2>3. \A s \in Requests : /\ Live(s)' => s = r
                            /\ stage'[s] \in Going \cup {"answered"} => s = r
    BY <1>3, <2>2 DEF Live, Going
  <2>4. OneAtATime'
    BY <1>3, <1>4, <1>5, <2>1, <2>3 DEF OneAtATime
  <2>5. ToldInTime'
    BY <1>3, <1>4, <2>1, <2>3 DEF ToldInTime, Going
  <2> QED
    BY <2>4, <2>5 DEF Turn
<1>7. CASE ExistingUserSigned
  <2> DEFINE b == [is |-> "navigate", request |-> r]
  <2>1. mainQueue' = Append(<<>>, b) /\ UNCHANGED <<stage, screen>> /\ kind[r] = "login"
    BY <1>2, <1>3, <1>7 DEF ExistingUserSigned, screenVars
  <2>2. b.request = r
    OBVIOUS
  <2> HIDE DEF b
  <2>3. Len(mainQueue') = 1 /\ mainQueue'[1] = b
    BY <2>1
  <2>4. OneAtATime'
    BY <1>4, <2>1 DEF Turn, OneAtATime, Live
  <2>5. \A s \in Requests : stage'[s] \notin Going
    BY <1>3, <2>1 DEF Live, Going
  <2>6. ToldInTime'
    BY <1>4, <2>1, <2>2, <2>3, <2>5 DEF ToldInTime
  <2> QED
    BY <2>4, <2>6 DEF Turn
<1>8. CASE NavigateToMainView
  <2>1. Len(mainQueue') = 0 /\ Moves(r, "over")
    BY <1>2, <1>3, <1>8 DEF NavigateToMainView
  <2>2. stage'[r] = "over" /\ \A s \in Requests \ {r} : stage'[s] = stage[s]
    BY <2>1, OneMoves DEF Base, Stages
  <2>3. \A s \in Requests : ~Live(s)' /\ stage'[s] \notin Going \cup {"answered"}
    BY <1>3, <2>2 DEF Live, Going
  <2> QED
    BY <2>1, <2>3 DEF Turn, OneAtATime, ToldInTime
<1> QED
  BY <1>6, <1>7, <1>8

\* What Firestore's actions do: the server applies the next write, or the connection
\* goes, or the oldest write is answered.
LEMMA FirestoreMoves ==
  ASSUME Base, ApplyNext \/ Disconnect \/ FirestoreAnswers
  PROVE  /\ UNCHANGED <<displayName, customers, sessionVars, requestVars>>
         /\ \/ /\ reached + 1 \in 1..Len(queue[firestoreUser]) /\ reached' = reached + 1
               /\ documents' = Applied(queue[firestoreUser][reached + 1])
               /\ UNCHANGED <<queue, stage, screen>>
            \/ reached' = 0 /\ UNCHANGED <<documents, queue, stage, screen>>
            \/ /\ 1 \in 1..Len(queue[firestoreUser]) /\ UNCHANGED documents
               /\ Pending # <<>> /\ Dequeue
               /\ reached' = 0 \/ (reached > 0 /\ reached' = reached - 1)
               /\ \E r \in Requests :
                    /\ r = queue[firestoreUser][1].request
                    /\ \A s \in Requests \ {r} : stage'[s] = stage[s]
                    /\ \/ stage'[r] = stage[r]
                       \/ Live(r) /\ stage'[r] = "over"
                       \/ /\ queue[firestoreUser][1].sets = "username" /\ reached > 0
                          /\ stage[r] = "naming" /\ stage'[r] = "customer"
               /\ screen' = screen \/ \E r \in Requests : Live(r) /\ stage'[r] = "over"
<1>1. UNCHANGED <<displayName, customers, sessionVars, requestVars>>
  BY DEF ApplyNext, Disconnect, FirestoreAnswers, DatabaseUserCreated, UsernameUpdated,
         DetailsUpdated, Answered, Refused, serverVars
<1>2. CASE ApplyNext
  BY <1>1, <1>2 DEF Base, TypeOK, ApplyNext, Pending, screenVars
<1>3. CASE Disconnect
  BY <1>1, <1>3 DEF Disconnect, serverVars, screenVars
<1>4. CASE FirestoreAnswers
  <2>1. Pending # <<>>
    BY ReachedMoves
  <2>2. /\ 1 \in 1..Len(queue[firestoreUser]) /\ Oldest = queue[firestoreUser][1]
        /\ Oldest.request \in Requests
    BY <2>1, OldestWrite DEF Base
  <2>3. PICK r \in Requests : r = Oldest.request
    BY <2>2
  <2>4. /\ UNCHANGED documents /\ Dequeue
        /\ reached' = 0 \/ (reached > 0 /\ reached' = reached - 1)
    BY <1>4 DEF FirestoreAnswers, DatabaseUserCreated, UsernameUpdated, DetailsUpdated,
                Answered, Refused, serverVars
  <2>5. \/ stage' = stage
        \/ stage[r] \in {"naming", "details"} /\ Moves(r, "over")
        \/ /\ Oldest.sets = "username" /\ reached > 0
           /\ stage[r] = "naming" /\ Moves(r, "customer")
    BY <1>4, <2>3 DEF FirestoreAnswers, DatabaseUserCreated, UsernameUpdated,
                DetailsUpdated, Answered, Refused, Moves
  <2>6. \/ stage' = stage
        \/ /\ \A s \in Requests \ {r} : stage'[s] = stage[s]
           /\ \/ stage[r] \in {"naming", "details"} /\ stage'[r] = "over"
              \/ /\ Oldest.sets = "username" /\ reached > 0
                 /\ stage[r] = "naming" /\ stage'[r] = "customer"
    BY <2>5, OneMoves DEF Base, Stages
  <2>7. \/ screen' = screen
        \/ stage[r] = "details" /\ Moves(r, "over")
    BY <1>4, <2>3 DEF FirestoreAnswers, DatabaseUserCreated, UsernameUpdated,
                DetailsUpdated, Answered, Refused, screenVars
  <2>8. screen' = screen \/ (Live(r) /\ stage'[r] = "over")
    BY <2>7, OneMoves DEF Base, Stages, Live
  <2>9. Live(r) \/ stage[r] \notin {"naming", "details"}
    BY DEF Live
  <2> QED
    BY <1>1, <2>1, <2>2, <2>3, <2>4, <2>6, <2>8, <2>9
<1> QED
  BY <1>2, <1>3, <1>4

LEMMA TurnStep ==
  ASSUME Base, Base', Turn, ~crossed', [Next]_vars
  PROVE  Turn'
<1>1. CASE UNCHANGED vars
  BY <1>1 DEF vars, Turn, OneAtATime, ToldInTime, Live
<1>2. ASSUME NEW what \in {"signup", "login"}, NEW u \in Users, Tap(what, u) PROVE Turn'
  BY <1>2, TapKeepsTurn
<1>3. CASE FinishWalkthrough
  <2>1. \A s \in Requests : ~Live(s)
    BY <1>3 DEF Turn, OneAtATime, FinishWalkthrough
  <2>2. UNCHANGED <<sessionVars, kind, account, stage>>
    BY <1>3 DEF FinishWalkthrough, requestVars
  <2> QED
    BY <2>1, <2>2, TurnLeft DEF Live
<1>4. CASE SignOutButtonPressed \/ Relaunch
  BY <1>4, SignOutKeepsTurn, RelaunchKeepsTurn
<1>5. ASSUME NEW r \in Requests, AccountCreated(r) \/ SignedIn(r) PROVE Turn'
  <2>1. /\ stage[r] = "asked" /\ SignsIn(r, account[r])
        /\ UNCHANGED <<firestoreUser, kind, account, screen>>
    BY <1>5 DEF AccountCreated, SignedIn, screenVars, requestVars
  <2> QED
    BY <2>1, SignsInKeepsTurn
<1>6. ASSUME NEW r \in Requests,
             AuthFails(r) \/ CustomerCreated(r) \/ CustomerAnswered(r) \/ CustomerFails(r)
      PROVE  Turn'
  <2>1. /\ UNCHANGED <<sessionVars, screen, kind, account>>
        /\ \/ stage' = stage
           \/ Moves(r, "over")
           \/ stage[r] = "customer" /\ Moves(r, "details")
    BY <1>6 DEF AuthFails, CustomerCreated, CustomerAnswered, CustomerFails, screenVars,
                requestVars
  <2>2. \/ stage' = stage
        \/ /\ \A s \in Requests \ {r} : stage'[s] = stage[s]
           /\ stage'[r] = "over" \/ (stage[r] = "customer" /\ stage'[r] = "details")
    BY <2>1, OneMoves DEF Base, Stages
  <2>3. \A s \in Requests : /\ Live(s)' => Live(s)
                            /\ stage'[s] = "answered" => stage[s] = "answered"
                            /\ stage'[s] \in Going => stage[s] \in Going
    BY <2>2 DEF Live, Going
  <2>4. \A s \in Requests : Live(s) => screen' = "login"
    BY <2>1 DEF Turn, OneAtATime
  <2> QED
    BY <2>1, <2>3, <2>4, TurnLeft
<1>7. CASE RunMainQueue
  BY <1>7, CredentialChangeKeepsTurn, AnswersKeepTurn DEF RunMainQueue
<1>8. CASE ApplyNext \/ Disconnect \/ FirestoreAnswers
  <2>1. \A s \in Requests : \/ stage'[s] = stage[s]
                            \/ Live(s) /\ stage'[s] = "over"
                            \/ stage[s] = "naming" /\ stage'[s] = "customer"
    BY <1>8, FirestoreMoves
  <2>2. \A s \in Requests : /\ Live(s)' => Live(s)
                            /\ stage'[s] = "answered" => stage[s] = "answered"
                            /\ stage'[s] \in Going => stage[s] \in Going
    BY <2>1 DEF Live, Going
  <2>3. ASSUME NEW s \in Requests, Live(s)' PROVE screen' = "login"
    <3>1. Live(s) /\ screen = "login" /\ \A t \in Requests : Live(t) => s = t
      BY <2>2, <2>3 DEF Turn, OneAtATime
    <3>2. stage'[s] # "over"
      BY <2>3 DEF Live
    <3> QED
      BY <1>8, <3>1, <3>2, FirestoreMoves
  <2>4. UNCHANGED <<sessionVars, kind, account>>
    BY <1>8, FirestoreMoves DEF requestVars
  <2> QED
    BY <2>2, <2>3, <2>4, TurnLeft
<1> QED
  BY <1>1, <1>2, <1>3, <1>4, <1>5, <1>6, <1>7, <1>8 DEF Next, AuthAnswers

-------------------------------------------------------------------------------
(* What is queued and stored. *)

\* What is kept as long as nobody crosses.
Store ==
  WritesAreHome /\ ReplacesFirst /\ ReachedIsStored /\ UsernameFirst /\ DetailsAreOwn

LEMMA QueuedWrite ==
  ASSUME TypeOK, NEW u \in Sessions, NEW i \in 1..Len(queue[u])
  PROVE  /\ queue[u][i].request \in Requests /\ queue[u][i].document \in Users
         /\ Wrote(queue[u][i].request)
<1>1. queue[u][i] \in Writes
  BY DEF TypeOK
<1>2. queue[u][i].request \in Requests /\ queue[u][i].document \in Users
  BY <1>1 DEF Writes
<1> QED
  BY <1>2 DEF Wrote

\* Nothing is queued or stored, and no request that has written changes.
LEMMA StoreLeft ==
  ASSUME Base, Store, ~crossed, UNCHANGED <<queue, documents, displayName>>,
         reached' = 0 \/ UNCHANGED <<reached, firestoreUser>>,
         \A s \in Requests : Wrote(s) => account'[s] = account[s],
         \A s \in Requests : stage'[s] \in {"customer", "details"} =>
           stage[s] \in {"customer", "details"} /\ account'[s] = account[s]
  PROVE  Store'
<1>1. \A u \in Sessions : \A i \in 1..Len(queue[u]) :
        account'[queue[u][i].request] = account[queue[u][i].request]
  BY QueuedWrite DEF Base
<1>2. WritesAreHome'
  BY <1>1 DEF Store, WritesAreHome
<1>3. ReplacesFirst'
  <2> SUFFICES ASSUME NEW u \in Sessions, NEW i \in 1..Len(queue[u]),
                      queue[u][i].sets = "account"
               PROVE  ComesFirst(u, i)'
    BY DEF ReplacesFirst
  <2>1. ComesFirst(u, i) /\ queue[u][i].request \in Requests
    BY QueuedWrite DEF Base, Store, ReplacesFirst
  <2> QED
    BY <2>1 DEF ComesFirst
<1>4. ReachedIsStored'
  BY DEF Store, ReachedIsStored
<1>5. UsernameFirst'
  BY DEF Store, UsernameFirst
<1>6. DetailsAreOwn'
  <2> SUFFICES ASSUME NEW u \in Users
               PROVE  /\ displayName[u] # Nothing => account'[displayName[u]] = u
                      /\ documents[u].username # Nothing => account'[documents[u].username] = u
                      /\ documents[u].customer # Nothing =>
                           documents[u].customer = documents[u].username
    BY DEF DetailsAreOwn
  <2>1. displayName[u] \in Requests \cup {Nothing}
        /\ documents[u].username \in Requests \cup {Nothing}
    BY DEF Base, TypeOK, Documents
  <2> QED
    BY <2>1 DEF Store, DetailsAreOwn, Wrote
<1> QED
  BY <1>2, <1>3, <1>4, <1>5, <1>6 DEF Store

\* Whoever has written for an account is the request it was made for.
LEMMA SameRequest ==
  ASSUME Base, NEW s \in Requests, NEW t \in Requests, Wrote(s), Wrote(t),
         account[s] = account[t]
  PROVE  s = t
BY DEF Base, MadeOnce, Made

\* The server applies the next write: all that is written for its document was written
\* by its request, and in the order of the chain.
LEMMA AppliedKeepsStore ==
  ASSUME Base, Store, ~crossed, NEW n \in 1..Len(queue[firestoreUser]),
         n = reached + 1, reached' = n, documents' = Applied(queue[firestoreUser][n]),
         UNCHANGED <<queue, stage, account, displayName, firestoreUser>>
  PROVE  Store'
<1>1. PICK a \in Sessions : a = firestoreUser
  BY DEF Base, TypeOK
<1>2. PICK w \in Writes : w = queue[a][n]
  BY <1>1, PendingWrite DEF Base
<1>3. /\ n \in 1..Len(queue[a])
      /\ w.request \in Requests /\ w.document \in Users /\ Wrote(w.request)
      /\ w.sets \in {"account", "username", "details"}
  BY <1>1, <1>2, QueuedWrite, PendingWrite DEF Base
<1>4. a \in Users /\ w.document = a /\ account[w.request] = a
  BY <1>2, <1>3 DEF Store, WritesAreHome
<1>5. \A s \in Requests : Wrote(s) /\ account[s] = a => s = w.request
  BY <1>3, <1>4, SameRequest
<1>6. \A i \in 1..Len(queue[a]) : queue[a][i].request = w.request
  BY <1>5, QueuedWrite DEF Base, Store, WritesAreHome
<1>7. \A u \in Users : documents[u].username \in Requests \cup {Nothing}
                       /\ documents[u].customer \in Requests \cup {Nothing}
  BY DEF Base, TypeOK, Documents
<1>8. documents[a].username \in {Nothing, w.request} /\ w.request # Nothing
  BY <1>3, <1>4, <1>5, <1>7 DEF Store, DetailsAreOwn, Wrote, Requests, Nothing
<1>9. w.sets = "details" => documents[a].username = w.request
  BY <1>2, <1>3, <1>4 DEF Store, UsernameFirst
<1>10. w.sets = "account" => ComesFirst(a, n)
  BY <1>2, <1>3 DEF Store, ReplacesFirst
\* The documents.
<1>11. documents' = Applied(w)
  BY <1>1, <1>2
<1>12. \A u \in Users \ {a} : documents'[u] = documents[u]
  BY <1>4, <1>11 DEF Base, TypeOK, Applied
<1>13. \/ /\ w.sets = "account"
          /\ documents'[a].username = Nothing /\ documents'[a].customer = Nothing
       \/ /\ w.sets = "username" /\ documents'[a].username = w.request
          /\ documents'[a].customer = documents[a].customer
       \/ /\ w.sets = "details" /\ documents'[a].username = documents[a].username
          /\ documents'[a].customer = w.request
  <2>1. documents[a] \in Documents /\ documents \in [Users -> Documents]
    BY <1>4 DEF Base, TypeOK
  <2>2. CASE w.sets = "account"
    BY <1>4, <1>11, <2>1, <2>2 DEF Applied, NewDocument
  <2>3. CASE w.sets = "username"
    BY <1>4, <1>11, <2>1, <2>3 DEF Applied, Documents
  <2>4. CASE w.sets = "details"
    BY <1>4, <1>11, <2>1, <2>4 DEF Applied, Documents
  <2> QED
    BY <1>3, <2>2, <2>3, <2>4
<1>14. WritesAreHome'
  BY DEF Store, WritesAreHome
\* An account write that is queued is of the request that is served.
<1>15. ReplacesFirst'
  <2> SUFFICES ASSUME NEW u \in Sessions, NEW i \in 1..Len(queue[u]),
                      queue[u][i].sets = "account"
               PROVE  ComesFirst(u, i)'
    BY DEF ReplacesFirst
  <2>1. ComesFirst(u, i)
    BY DEF Store, ReplacesFirst
  <2>2. queue[u][i].document = u /\ u \in Users
    BY QueuedWrite DEF Base, Store, WritesAreHome
  <2>3. CASE u # a
    BY <1>12, <2>1, <2>2, <2>3 DEF ComesFirst
  <2>4. CASE u = a
    <3>1. w.sets # "details"
      BY <1>2, <1>3, <1>6, <2>1, <2>4 DEF ComesFirst
    <3>2. documents[a].customer = Nothing
      BY <2>1, <2>2, <2>4 DEF ComesFirst
    <3>3. documents'[a].customer = Nothing
      BY <1>13, <3>1, <3>2
    <3>4. documents'[a].username # Nothing =>
            queue[a][n] = [sets |-> "username", document |-> a,
                           request |-> documents'[a].username]
      <4>1. w = [sets |-> w.sets, document |-> w.document, request |-> w.request]
        BY DEF Writes
      <4> QED
        BY <1>2, <1>4, <1>13, <3>1, <4>1
    <3> QED
      BY <1>3, <2>1, <2>2, <2>4, <3>3, <3>4 DEF ComesFirst
  <2> QED
    BY <2>3, <2>4
<1>16. ReachedIsStored'
  <2> SUFFICES ASSUME NEW i \in 1..n, queue[a][i].sets = "username"
               PROVE  documents'[queue[a][i].document].username = queue[a][i].request
    BY <1>1 DEF ReachedIsStored
  <2>1. i \in 1..Len(queue[a]) /\ (i = n \/ (i \in 1..reached /\ i \in 1..(n - 1)))
    <3>1. n \in 1..Len(queue[a]) /\ Len(queue[a]) \in Nat /\ n = reached + 1 /\ reached \in Nat
      BY <1>1 DEF Base, TypeOK
    <3> QED
      BY ONLY <3>1, i \in 1..n
  <2>2. queue[a][i].document = a /\ queue[a][i].request = w.request
    BY <1>6, <2>1 DEF Store, WritesAreHome
  <2>3. CASE i = n
    BY <1>2, <1>13, <2>2, <2>3
  <2>4. CASE i \in 1..reached /\ i \in 1..(n - 1)
    <3>1. documents[a].username = w.request
      BY <1>1, <2>2, <2>4 DEF Store, ReachedIsStored
    <3>2. w.sets # "account"
      BY <1>2, <1>10, <2>2, <2>4 DEF ComesFirst
    <3> QED
      BY <1>13, <2>2, <3>1, <3>2
  <2> QED
    BY <2>1, <2>3, <2>4
<1>17. UsernameFirst'
  <2>1. ASSUME NEW s \in Requests, stage[s] \in {"customer", "details"}
        PROVE  documents'[account[s]].username = s
    <3>1. documents[account[s]].username = s /\ account[s] \in Users
      BY <2>1 DEF Base, StagesFit, Store, UsernameFirst
    <3>2. CASE account[s] # a
      BY <1>12, <3>1, <3>2
    <3>3. CASE account[s] = a
      <4>1. s = w.request
        BY <1>5, <3>1, <3>3 DEF Wrote
      <4>2. w.sets # "account"
        BY <1>2, <1>10, <2>1, <4>1 DEF ComesFirst
      <4> QED
        BY <1>13, <3>1, <3>3, <4>1, <4>2
    <3> QED
      BY <3>2, <3>3
  <2>2. ASSUME NEW u \in Sessions, NEW i \in 1..Len(queue[u]), queue[u][i].sets = "details"
        PROVE  documents'[queue[u][i].document].username = queue[u][i].request
    <3>1. /\ documents[u].username = queue[u][i].request
          /\ queue[u][i].document = u /\ u \in Users
      BY <2>2, QueuedWrite DEF Base, Store, UsernameFirst, WritesAreHome
    <3>2. CASE u # a
      BY <1>12, <3>1, <3>2
    <3>3. CASE u = a
      <4>1. queue[a][i].request = w.request
        BY <1>6, <3>3
      <4>2. w.sets # "account"
        BY <1>2, <1>10, <2>2, <3>3, <4>1 DEF ComesFirst
      <4> QED
        BY <1>13, <3>1, <3>3, <4>1, <4>2
    <3> QED
      BY <3>2, <3>3
  <2> QED
    BY <2>1, <2>2 DEF UsernameFirst
<1>18. DetailsAreOwn'
  <2> SUFFICES ASSUME NEW u \in Users
               PROVE  /\ displayName[u] # Nothing => account[displayName[u]] = u
                      /\ documents'[u].username # Nothing => account[documents'[u].username] = u
                      /\ documents'[u].customer # Nothing =>
                           documents'[u].customer = documents'[u].username
    BY DEF DetailsAreOwn
  <2>1. /\ displayName[u] # Nothing => account[displayName[u]] = u
        /\ documents[u].username # Nothing => account[documents[u].username] = u
        /\ documents[u].customer # Nothing => documents[u].customer = documents[u].username
    BY DEF Store, DetailsAreOwn
  <2>2. CASE u # a
    BY <1>12, <2>1, <2>2
  <2>3. CASE u = a
    BY <1>4, <1>8, <1>9, <1>13, <2>1, <2>3
  <2> QED
    BY <2>2, <2>3
<1> QED
  BY <1>14, <1>15, <1>16, <1>17, <1>18 DEF Store

\* The oldest write leaves the queue; if it was the username, its request may go on.
LEMMA AnsweredKeepsStore ==
  ASSUME Base, Store, ~crossed, 1 \in 1..Len(queue[firestoreUser]), Pending # <<>>, Dequeue,
         reached' = 0 \/ (reached > 0 /\ reached' = reached - 1),
         UNCHANGED <<documents, account, displayName, firestoreUser>>,
         \A s \in Requests : stage'[s] \in {"customer", "details"} =>
           \/ stage[s] \in {"customer", "details"}
           \/ /\ s = queue[firestoreUser][1].request /\ reached > 0
              /\ queue[firestoreUser][1].sets = "username"
  PROVE  Store'
<1>1. PICK a \in Sessions : a = firestoreUser
  BY DEF Base, TypeOK
<1>2. /\ queue[a][1].request \in Requests /\ queue[a][1].document = a
      /\ account[queue[a][1].request] = a /\ Wrote(queue[a][1].request)
      /\ 1 \in 1..Len(queue[a]) /\ a \in Users
  BY <1>1, QueuedWrite DEF Base, Store, WritesAreHome
<1>3. \A u \in Sessions : \A i \in 1..Len(queue'[u]) :
        i + Shift(u) \in 1..Len(queue[u]) /\ queue'[u][i] = queue[u][i + Shift(u)]
  BY AfterDequeue DEF Base
<1>4. \A i \in 1..Len(queue[a]) :
        i = 1 \/ (i - 1 \in 1..Len(queue'[a]) /\ queue'[a][i - 1] = queue[a][i])
  BY <1>1, AfterDequeue DEF Base, Shift
<1>5. \A u \in Sessions \ {a} : queue'[u] = queue[u]
  BY <1>1 DEF Base, TypeOK, Dequeue
<1>6. Shift(a) = 1 /\ \A u \in Sessions : Shift(u) \in {0, 1}
  BY <1>1 DEF Shift
<1>7. WritesAreHome'
  BY <1>3 DEF Store, WritesAreHome
<1>8. ReplacesFirst'
  <2> SUFFICES ASSUME NEW u \in Sessions, NEW i \in 1..Len(queue'[u]),
                      queue'[u][i].sets = "account"
               PROVE  ComesFirst(u, i)'
    BY DEF ReplacesFirst
  <2>1. PICK m \in 1..Len(queue[u]) : m = i + Shift(u)
    BY <1>3
  <2>2. /\ queue'[u][i] = queue[u][m] /\ queue[u][m].sets = "account" /\ ComesFirst(u, m)
    BY <1>3, <2>1 DEF Store, ReplacesFirst
  <2>3. /\ queue[u][m].request \in Requests /\ queue[u][m].document = u /\ u \in Users
        /\ Wrote(queue[u][m].request) /\ account[queue[u][m].request] = u
    BY QueuedWrite DEF Base, Store, WritesAreHome
  <2>4. u = a => queue[a][1].request # queue[u][m].request
    BY <1>2, <1>6, <2>1, <2>2 DEF ComesFirst
  <2>5. u # a
    BY <1>2, <2>3, <2>4, SameRequest
  <2>6. queue'[u] = queue[u] /\ i = m
    BY <1>1, <1>5, <2>1, <2>5 DEF Shift
  <2>7. stage'[queue[u][m].request] \notin {"customer", "details"}
    BY <1>1, <1>2, <2>2, <2>3, <2>5 DEF ComesFirst
  <2> QED
    BY <2>2, <2>6, <2>7 DEF ComesFirst
<1>9. ReachedIsStored'
  <2> SUFFICES ASSUME NEW i \in 1..reached', queue'[a][i].sets = "username"
               PROVE  documents[queue'[a][i].document].username = queue'[a][i].request
    BY <1>1 DEF ReachedIsStored
  <2>1. /\ reached' = reached - 1 /\ i + 1 \in 1..reached /\ i \in 1..Len(queue'[a])
    <3>1. /\ reached \in 0..Len(queue[a]) /\ Len(queue[a]) \in Nat
          /\ Len(queue'[a]) = Len(queue[a]) - 1
      BY <1>1, AfterDequeue DEF Base, TypeOK
    <3> QED
      BY <3>1
  <2>2. queue'[a][i] = queue[a][i + 1]
    BY <1>3, <1>6, <2>1
  <2> QED
    BY <1>1, <2>1, <2>2 DEF Store, ReachedIsStored
<1>10. UsernameFirst'
  <2>1. ASSUME NEW s \in Requests, stage'[s] \in {"customer", "details"}
        PROVE  documents[account[s]].username = s
    <3>1. CASE stage[s] \in {"customer", "details"}
      BY <3>1 DEF Store, UsernameFirst
    <3>2. CASE s = queue[a][1].request /\ reached > 0 /\ queue[a][1].sets = "username"
      <4>1. 1 \in 1..reached
        BY <3>2 DEF Base, TypeOK
      <4> QED
        BY <1>1, <1>2, <3>2, <4>1 DEF Store, ReachedIsStored
    <3> QED
      BY <1>1, <2>1, <3>1, <3>2
  <2>2. ASSUME NEW u \in Sessions, NEW i \in 1..Len(queue'[u]), queue'[u][i].sets = "details"
        PROVE  documents[queue'[u][i].document].username = queue'[u][i].request
    BY <1>3, <2>2 DEF Store, UsernameFirst
  <2> QED
    BY <2>1, <2>2 DEF UsernameFirst
<1>11. DetailsAreOwn'
  BY DEF Store, DetailsAreOwn
<1> QED
  BY <1>7, <1>8, <1>9, <1>10, <1>11 DEF Store

\* The writes ws of request r go to the end of the queue of user a, r's own.
LEMMA QueuedKeepsStore ==
  ASSUME Base, Store, ~crossed, NEW r \in Requests, NEW ws \in Seq(Writes), Enqueue(ws),
         firestoreUser = account[r], current = account[r], account[r] \in Users,
         UNCHANGED <<documents, account, firestoreUser>>,
         \A u \in Users : displayName'[u] = displayName[u] \/ (u = account[r] /\ displayName'[u] = r),
         \A i \in 1..Len(ws) : ws[i].request = r /\ ws[i].document = account[r],
         \A i \in 1..Len(ws) : ws[i].sets = "account" =>
           /\ i = 1 /\ ~Wrote(r) /\ stage[r] = "answered"
           /\ documents[account[r]].username = Nothing
           /\ documents[account[r]].customer = Nothing,
         \A i \in 1..Len(ws) : ws[i].sets = "details" =>
           /\ documents[account[r]].username = r /\ stage[r] = "customer"
           /\ \A j \in 1..Len(ws) : ws[j].sets # "account",
         \A s \in Requests : stage'[s] \in {"customer", "details"} =>
           stage[s] \in {"customer", "details"}
  PROVE  Store'
<1>1. \A u \in Sessions : queue[u] \in Seq(Writes) /\ queue'[u] \in Seq(Writes)
  BY AfterEnqueue DEF Base, TypeOK
<1>2. \A u \in Sessions : \A i \in 1..Len(queue'[u]) :
        \/ i \in 1..Len(queue[u]) /\ queue'[u][i] = queue[u][i]
        \/ /\ u = account[r] /\ i > Len(queue[u])
           /\ i - Len(queue[u]) \in 1..Len(ws)
           /\ queue'[u][i] = ws[i - Len(queue[u])]
  BY AfterEnqueue DEF Base
<1>3. \A u \in Sessions : \A i \in 1..Len(queue[u]) :
        i \in 1..Len(queue'[u]) /\ queue'[u][i] = queue[u][i]
  BY AfterEnqueue DEF Base
<1>4. WritesAreHome'
  <2> SUFFICES ASSUME NEW u \in Sessions, NEW i \in 1..Len(queue'[u])
               PROVE  account[queue'[u][i].request] = u /\ queue'[u][i].document = u
    BY DEF WritesAreHome
  <2>1. CASE i \in 1..Len(queue[u]) /\ queue'[u][i] = queue[u][i]
    BY <2>1 DEF Store, WritesAreHome
  <2>2. CASE u = account[r] /\ i - Len(queue[u]) \in 1..Len(ws)
             /\ queue'[u][i] = ws[i - Len(queue[u])]
    BY <2>2
  <2> QED
    BY <1>2, <2>1, <2>2
<1>5. ReplacesFirst'
  <2> SUFFICES ASSUME NEW u \in Sessions, NEW i \in 1..Len(queue'[u]),
                      queue'[u][i].sets = "account"
               PROVE  ComesFirst(u, i)'
    BY DEF ReplacesFirst
  <2>1. CASE i \in 1..Len(queue[u]) /\ queue'[u][i] = queue[u][i]
    <3>1. ComesFirst(u, i) /\ queue[u][i].request \in Requests
      BY <2>1, QueuedWrite DEF Base, Store, ReplacesFirst
    <3>2. \A j \in 1..(i - 1) : queue'[u][j] = queue[u][j]
      <4>1. Len(queue[u]) \in Nat
        BY <1>1
      <4>2. \A j \in 1..(i - 1) : j \in 1..Len(queue[u])
        BY <2>1, <4>1
      <4> QED
        BY <1>3, <4>2
    <3>3. ASSUME NEW j \in 1..Len(queue'[u]), queue'[u][j].sets = "details"
          PROVE  queue'[u][j].request # queue[u][i].request
      <4>1. CASE j \in 1..Len(queue[u]) /\ queue'[u][j] = queue[u][j]
        BY <3>1, <3>3, <4>1 DEF ComesFirst
      <4>2. CASE j - Len(queue[u]) \in 1..Len(ws) /\ queue'[u][j] = ws[j - Len(queue[u])]
        BY <3>1, <3>3, <4>2 DEF ComesFirst
      <4> QED
        BY <1>2, <4>1, <4>2
    <3>4. stage'[queue[u][i].request] \notin {"customer", "details"}
      BY <3>1 DEF ComesFirst
    <3>5. documents[queue[u][i].document].username # Nothing =>
            \E j \in 1..Len(queue'[u]) :
              queue'[u][j] = [sets |-> "username", document |-> queue[u][i].document,
                              request |-> documents[queue[u][i].document].username]
      BY <1>3, <3>1 DEF ComesFirst
    <3> QED
      BY <2>1, <3>1, <3>2, <3>3, <3>4, <3>5 DEF ComesFirst
  <2>2. CASE /\ u = account[r] /\ i > Len(queue[u]) /\ i - Len(queue[u]) \in 1..Len(ws)
             /\ queue'[u][i] = ws[i - Len(queue[u])]
    <3>1. /\ i - Len(queue[u]) = 1 /\ ~Wrote(r) /\ queue'[u][i].request = r
          /\ queue'[u][i].document = account[r] /\ stage'[r] \notin {"customer", "details"}
          /\ documents[account[r]].username = Nothing
          /\ documents[account[r]].customer = Nothing
          /\ \A j \in 1..Len(ws) : ws[j].sets # "details"
      BY <2>2
    <3>2. ASSUME NEW j \in 1..(i - 1)
          PROVE  j \in 1..Len(queue[u]) /\ queue'[u][j] = queue[u][j]
      <4>1. Len(queue[u]) \in Nat /\ Len(queue'[u]) \in Nat
        BY <1>1
      <4>2. i = Len(queue[u]) + 1
        BY <3>1, <4>1
      <4>3. j \in 1..Len(queue[u])
        BY <4>1, <4>2
      <4> QED
        BY <1>3, <4>3
    <3>3. \A j \in 1..Len(queue[u]) : queue[u][j].request # r
      BY <3>1 DEF Wrote
    <3>4. \A j \in 1..Len(queue'[u]) : queue'[u][j].sets = "details" => queue'[u][j].request # r
      BY <1>2, <3>1, <3>3
    <3> QED
      BY <3>1, <3>2, <3>3, <3>4 DEF ComesFirst
  <2> QED
    BY <1>2, <2>1, <2>2
<1>6. ReachedIsStored'
  <2> SUFFICES ASSUME NEW i \in 1..reached
               PROVE  /\ i \in 1..Len(queue[firestoreUser])
                      /\ queue'[firestoreUser][i] = queue[firestoreUser][i]
    BY DEF Store, ReachedIsStored, Enqueue
  <2>1. firestoreUser \in Sessions /\ i \in 1..Len(queue[firestoreUser])
    BY DEF Base, TypeOK
  <2> QED
    BY <1>3, <2>1
<1>7. UsernameFirst'
  <2>1. ASSUME NEW u \in Sessions, NEW i \in 1..Len(queue'[u]), queue'[u][i].sets = "details"
        PROVE  documents[queue'[u][i].document].username = queue'[u][i].request
    <3>1. CASE i \in 1..Len(queue[u]) /\ queue'[u][i] = queue[u][i]
      BY <2>1, <3>1 DEF Store, UsernameFirst
    <3>2. CASE i - Len(queue[u]) \in 1..Len(ws) /\ queue'[u][i] = ws[i - Len(queue[u])]
      BY <2>1, <3>2
    <3> QED
      BY <1>2, <3>1, <3>2
  <2>2. \A s \in Requests : stage'[s] \in {"customer", "details"} =>
          documents[account[s]].username = s
    BY DEF Store, UsernameFirst
  <2> QED
    BY <2>1, <2>2 DEF UsernameFirst
<1>8. DetailsAreOwn'
  BY DEF Store, DetailsAreOwn
<1> QED
  BY <1>4, <1>5, <1>6, <1>7, <1>8 DEF Store

\* The first write of a sign-up finds nothing in its document: what is there was
\* written for the same account, and the account was made for this request.
LEMMA NothingToReplace ==
  ASSUME Base, Store, ~crossed, NEW r \in Requests,
         stage[r] = "answered", kind[r] = "signup", account[r] \in Users
  PROVE  /\ ~Wrote(r) /\ documents[account[r]].username = Nothing
         /\ documents[account[r]].customer = Nothing
<1>1. ~Wrote(r) /\ Made(r)
  BY DEF Base, StagesFit, Made, Going
<1>2. documents[account[r]].username \in Requests \cup {Nothing}
  BY DEF Base, TypeOK, Documents
<1>3. ASSUME NEW s \in Requests, documents[account[r]].username = s PROVE FALSE
  <2>1. s # Nothing /\ Wrote(s) /\ Made(s)
    BY <1>3 DEF Wrote, Made, Requests, Nothing
  <2>2. account[s] = account[r]
    BY <1>3, <2>1 DEF Store, DetailsAreOwn
  <2>3. s = r
    BY <1>1, <2>1, <2>2 DEF Base, MadeOnce
  <2> QED
    BY <1>1, <2>1, <2>3
<1>4. documents[account[r]].username = Nothing
  BY <1>2, <1>3
<1> QED
  BY <1>1, <1>4 DEF Store, DetailsAreOwn

LEMMA NewUserCreatedKeepsStore ==
  ASSUME Base, Turn, Store, ~crossed, NewUserCreated
  PROVE  Store'
<1>1. PICK r \in Requests, ws \in Seq(Writes) :
           /\ r = Head(mainQueue).request /\ kind[r] = "signup"
           /\ stage[r] = "answered" /\ account[r] \in Users
           /\ Moves(r, "over") \/ Moves(r, "naming")
           /\ Enqueue(ws)
           /\ \A i \in 1..Len(ws) :
                \/ i = 1 /\ ws[i] = AccountWrite(r)
                \/ i = 2 /\ ws[i] = UsernameWrite(r) /\ current # Nobody
  BY NewUserWrites
<1>2. firestoreUser = account[r] /\ current = account[r] /\ current # Nobody
  BY <1>1, LastEvent DEF NewUserCreated, NextIs
<1>3. \A i \in 1..Len(ws) : /\ ws[i].request = r /\ ws[i].document = account[r]
                            /\ ws[i].sets # "details"
                            /\ ws[i].sets = "account" => i = 1
  BY <1>1, <1>2, WritesOf DEF Base
<1>4. /\ ~Wrote(r) /\ stage[r] = "answered" /\ documents[account[r]].username = Nothing
      /\ documents[account[r]].customer = Nothing
  BY <1>1, NothingToReplace
<1>5. UNCHANGED <<documents, account, firestoreUser>>
  BY DEF NewUserCreated, requestVars
<1>6. \A u \in Users : displayName'[u] = displayName[u] \/ (u = account[r] /\ displayName'[u] = r)
  BY <1>1, <1>2 DEF NewUserCreated
<1>7. \A s \in Requests : stage'[s] \in {"customer", "details"} =>
        stage[s] \in {"customer", "details"}
  BY <1>1, OneMoves DEF Base, Stages
<1>8. Enqueue(ws) /\ account[r] \in Users
  BY <1>1
<1> QED
  BY ONLY Base, Store, ~crossed, <1>2, <1>3, <1>4, <1>5, <1>6, <1>7, <1>8, QueuedKeepsStore

LEMMA CustomerAnsweredKeepsStore ==
  ASSUME Base, Turn, Store, ~crossed, NEW r \in Requests, CustomerAnswered(r)
  PROVE  Store'
<1>1. /\ stage[r] = "customer" /\ account[r] \in Users
      /\ firestoreUser = account[r] /\ current = account[r] /\ current # Nobody
      /\ documents[account[r]].username = r
  BY DEF CustomerAnswered, Base, StagesFit, Turn, OneAtATime, ToldInTime, Store, UsernameFirst,
         Going
<1> DEFINE ws == <<DetailsWrite(r)>>
<1>2. Enqueue(ws) /\ Moves(r, "details")
  BY <1>1 DEF CustomerAnswered
<1>3. /\ DetailsWrite(r) \in Writes
      /\ DetailsWrite(r).sets = "details" /\ DetailsWrite(r).request = r
      /\ DetailsWrite(r).document = account[r]
  BY <1>1, WritesOf DEF Base
<1>4. /\ ws \in Seq(Writes)
      /\ \A i \in 1..Len(ws) : /\ ws[i].request = r /\ ws[i].document = account[r]
                               /\ ws[i].sets = "details"
  BY <1>3
<1> HIDE DEF ws
<1>5. UNCHANGED <<documents, account, displayName, firestoreUser>>
  BY DEF CustomerAnswered, serverVars, sessionVars, requestVars
<1>6. \A s \in Requests : stage'[s] \in {"customer", "details"} =>
        stage[s] \in {"customer", "details"}
  BY <1>1, <1>2, OneMoves DEF Base, Stages
<1> QED
  BY ONLY Base, Store, ~crossed, <1>1, <1>2, <1>4, <1>5, <1>6, QueuedKeepsStore

LEMMA StoreStep ==
  ASSUME Base, Turn, Store, ~crossed, [Next]_vars
  PROVE  Store'
<1> DEFINE Kept == /\ UNCHANGED <<queue, documents, displayName>>
                   /\ reached' = 0 \/ UNCHANGED <<reached, firestoreUser>>
                   /\ \A s \in Requests : Wrote(s) => account'[s] = account[s]
                   /\ \A s \in Requests : stage'[s] \in {"customer", "details"} =>
                        stage[s] \in {"customer", "details"} /\ account'[s] = account[s]
<1>1. Kept => Store'
  BY StoreLeft
<1>2. CASE UNCHANGED vars
  BY <1>1, <1>2 DEF vars
<1>3. ASSUME NEW what \in {"signup", "login"}, NEW u \in Users, Tap(what, u) PROVE Store'
  <2>1. PICK r \in Requests : r = tapped' /\ r = tapped + 1
    BY <1>3 DEF Base, TypeOK, Tap, Requests
  <2>2. stage[r] = "none" /\ ~Wrote(r)
    <3>1. r > tapped
      BY <2>1 DEF Base, TypeOK
    <3>2. stage[r] = "none"
      BY <3>1 DEF Base, StagesFit
    <3> QED
      BY <3>2 DEF Base, StagesFit, Going
  <2>3. /\ stage' = [stage EXCEPT ![r] = "asked"] /\ account' = [account EXCEPT ![r] = u]
        /\ UNCHANGED <<queue, reached, firestoreUser, documents, displayName>>
    BY <1>3, <2>1 DEF Tap, Moves, serverVars, sessionVars
  <2>4. /\ \A s \in Requests \ {r} : stage'[s] = stage[s] /\ account'[s] = account[s]
        /\ stage'[r] = "asked"
    BY <2>3 DEF Base, TypeOK
  <2>5. Kept
    BY <2>2, <2>3, <2>4
  <2> QED
    BY <1>1, <2>5
<1>4. CASE FinishWalkthrough \/ SignOutButtonPressed \/ Relaunch
  <2>1. /\ UNCHANGED <<queue, documents, displayName, account>>
        /\ reached' = 0 \/ UNCHANGED <<reached, firestoreUser>>
        /\ stage' = stage \/ stage' = [r \in Requests |-> IF Live(r) THEN "over" ELSE stage[r]]
    BY <1>4 DEF FinishWalkthrough, SignOutButtonPressed, Relaunch, serverVars, sessionVars,
                requestVars
  <2>2. \A s \in Requests : stage'[s] = stage[s] \/ stage'[s] = "over"
    BY <2>1
  <2> QED
    BY <1>1, <2>1, <2>2
<1>5. ASSUME NEW r \in Requests,
             AuthAnswers(r) \/ CustomerCreated(r) \/ CustomerFails(r)
      PROVE  Store'
  <2>1. /\ UNCHANGED <<queue, reached, firestoreUser, documents, displayName, account>>
        /\ stage' = stage \/ Moves(r, "answered") \/ Moves(r, "over")
    BY <1>5 DEF AuthAnswers, AccountCreated, SignedIn, SignsIn, AuthFails, CustomerCreated,
                CustomerFails, serverVars, sessionVars, requestVars
  <2>2. \A s \in Requests : stage'[s] = stage[s] \/ stage'[s] \in {"over", "answered"}
    BY <2>1, OneMoves DEF Base, Stages
  <2> QED
    BY <1>1, <2>1, <2>2
<1>6. ASSUME NEW r \in Requests, CustomerAnswered(r) PROVE Store'
  BY <1>6, CustomerAnsweredKeepsStore
<1>7. CASE NewUserCreated
  BY <1>7, NewUserCreatedKeepsStore
<1>8. CASE CredentialChange \/ ExistingUserSigned
  <2>1. /\ UNCHANGED <<queue, documents, displayName, account, stage>>
        /\ reached' = 0 \/ UNCHANGED <<reached, firestoreUser>>
    BY <1>8 DEF CredentialChange, ExistingUserSigned, serverVars, requestVars
  <2> QED
    BY <1>1, <2>1
<1>9. CASE NavigateToMainView
  <2>1. PICK r \in Requests : r = Head(mainQueue).request
    BY <1>9, AnswerRuns DEF NavigateToMainView, NextIs
  <2>2. /\ UNCHANGED <<queue, reached, firestoreUser, documents, displayName, account>>
        /\ Moves(r, "over")
    BY <1>9, <2>1 DEF NavigateToMainView, serverVars, requestVars
  <2>3. \A s \in Requests : stage'[s] = stage[s] \/ stage'[s] = "over"
    BY <2>2, OneMoves DEF Base, Stages
  <2> QED
    BY <1>1, <2>2, <2>3
<1>10. CASE ApplyNext \/ Disconnect \/ FirestoreAnswers
  <2>1. UNCHANGED <<displayName, account, firestoreUser>>
    BY <1>10, FirestoreMoves DEF sessionVars, requestVars
  <2>2. CASE /\ reached + 1 \in 1..Len(queue[firestoreUser]) /\ reached' = reached + 1
             /\ documents' = Applied(queue[firestoreUser][reached + 1])
             /\ UNCHANGED <<queue, stage>>
    BY <2>1, <2>2, AppliedKeepsStore
  <2>3. CASE reached' = 0 /\ UNCHANGED <<documents, queue, stage>>
    BY <1>1, <2>1, <2>3
  <2>4. CASE /\ 1 \in 1..Len(queue[firestoreUser]) /\ UNCHANGED documents
             /\ Pending # <<>> /\ Dequeue
             /\ reached' = 0 \/ (reached > 0 /\ reached' = reached - 1)
             /\ \E r \in Requests :
                  /\ r = queue[firestoreUser][1].request
                  /\ \A s \in Requests \ {r} : stage'[s] = stage[s]
                  /\ \/ stage'[r] = stage[r]
                     \/ stage'[r] = "over"
                     \/ /\ queue[firestoreUser][1].sets = "username" /\ reached > 0
                        /\ stage'[r] = "customer"
    <3>1. \A s \in Requests : stage'[s] \in {"customer", "details"} =>
           \/ stage[s] \in {"customer", "details"}
           \/ /\ s = queue[firestoreUser][1].request /\ reached > 0
              /\ queue[firestoreUser][1].sets = "username"
      BY <2>4
    <3> QED
      BY <2>1, <2>4, <3>1, AnsweredKeepsStore
  <2> QED
    BY <1>10, <2>2, <2>3, <2>4, FirestoreMoves
<1> QED
  BY <1>2, <1>3, <1>4, <1>5, <1>6, <1>7, <1>8, <1>9, <1>10 DEF Next, RunMainQueue

-------------------------------------------------------------------------------

LEMMA Invariance == Spec => []IInv
<1>1. ASSUME Init PROVE IInv
  <2>1. Base
    BY <1>1, BaseInit
  <2>2. \A r \in Requests : ~Live(r) /\ stage[r] = "none"
    BY <1>1 DEF Init, Live
  <2>3. Len(mainQueue) = 0 /\ \A u \in Sessions : Len(queue[u]) = 0
    BY <1>1 DEF Init
  <2>4. reached = 0
    BY <1>1 DEF Init
  <2>6. /\ OneAtATime /\ ToldInTime /\ WritesAreHome /\ ReplacesFirst /\ ReachedIsStored
        /\ UsernameFirst
    BY <2>2, <2>3, <2>4 DEF OneAtATime, ToldInTime, WritesAreHome, ReplacesFirst,
                            ReachedIsStored, UsernameFirst, Going
  <2>5. DetailsAreOwn
    BY <1>1 DEF Init, DetailsAreOwn, NoDocument
  <2> QED
    BY <2>1, <2>5, <2>6 DEF IInv, Patient
<1>2. ASSUME IInv, [Next]_vars PROVE IInv'
  <2>1. Base /\ Base'
    BY <1>2, BaseStep DEF IInv
  <2>2. CASE crossed'
    BY <2>1, <2>2 DEF IInv, DetailsAreOwn
  <2>3. CASE ~crossed'
    <3>1. ~crossed
      BY <1>2, <2>3 DEF Next, vars, Tap, FinishWalkthrough, SignOutButtonPressed, Relaunch,
         AuthAnswers, AccountCreated, SignedIn, AuthFails, CustomerCreated, CustomerAnswered,
         CustomerFails, RunMainQueue, CredentialChange, NewUserCreated, ExistingUserSigned,
         NavigateToMainView, ApplyNext, Disconnect, FirestoreAnswers, DatabaseUserCreated, UsernameUpdated,
         DetailsUpdated, Answered, Refused, requestVars
    <3>2. Turn /\ Store
      BY <1>2, <3>1 DEF IInv, Patient, Turn, Store
    <3>3. Turn'
      BY <1>2, <2>1, <2>3, <3>2, TurnStep
    <3>4. Store'
      BY <1>2, <2>1, <3>1, <3>2, StoreStep
    <3> QED
      BY <2>1, <3>3, <3>4 DEF IInv, Patient, Turn, Store
  <2> QED
    BY <2>2, <2>3
<1> QED
  BY <1>1, <1>2, PTL DEF Spec

\* As long as nobody taps before the last request is over, every document, display
\* name and customer is of the account it was made for.
THEOREM OwnDetails == Spec => []DetailsAreOwn
<1>1. IInv => DetailsAreOwn
  BY DEF IInv
<1> QED
  BY <1>1, Invariance, PTL

\* And no write, not even the first one sent again, takes a username that was answered
\* for, or a customer, from a document that has them.
THEOREM NothingTaken == Spec => AnsweredIsKept
<1> DEFINE Kept(u) ==
      /\ documents[u].username # Nothing =>
           \/ documents'[u].username # Nothing
           \/ \E i \in 1..Len(queue'[u]) :
                queue'[u][i] = [sets |-> "username", document |-> u,
                                request |-> documents[u].username]
      /\ documents[u].customer # Nothing => documents'[u].customer # Nothing
<1>1. ASSUME IInv, [Next]_vars, ~crossed', NEW u \in Users PROVE Kept(u)
  <2>1. CASE UNCHANGED documents
    BY <2>1
  <2>2. CASE ApplyNext
    <3>1. Base /\ ~crossed /\ Store
      BY <1>1, <2>2, FirestoreMoves DEF IInv, Patient, Store, requestVars
    <3>2. PICK a \in Sessions : a = firestoreUser
      BY <3>1 DEF Base, TypeOK
    <3>3. /\ reached + 1 \in 1..Len(queue[a]) /\ UNCHANGED queue
          /\ documents' = Applied(queue[a][reached + 1])
      BY <2>2, <3>1, <3>2 DEF Base, TypeOK, ApplyNext, Pending
    <3>4. PICK n \in 1..Len(queue[a]) : n = reached + 1
      BY <3>3
    <3>5. PICK w \in Writes : w = queue[a][n]
      BY <3>1, <3>2, PendingWrite DEF Base
    <3>6. /\ w.request \in Requests /\ w.document = a /\ a \in Users
          /\ w.sets \in {"account", "username", "details"}
      BY <3>1, <3>2, <3>5, PendingWrite DEF Base, Store, WritesAreHome
    <3>7. w.sets = "account" =>
            /\ documents[a].customer = Nothing
            /\ documents[a].username # Nothing =>
                 \E j \in 1..Len(queue[a]) :
                   queue[a][j] = [sets |-> "username", document |-> a,
                                  request |-> documents[a].username]
      BY <3>1, <3>5, <3>6 DEF Store, ReplacesFirst, ComesFirst
    <3>8. w.request # Nothing
      BY <3>6 DEF Requests, Nothing
    <3>9. documents[u] \in Documents /\ documents \in [Users -> Documents]
      BY <3>1 DEF Base, TypeOK
    <3>10. documents' = Applied(w)
      BY <3>3, <3>4, <3>5
    <3>11. CASE u # a
      BY <3>6, <3>9, <3>10, <3>11 DEF Applied
    <3>12. CASE u = a /\ w.sets = "account"
      BY <3>3, <3>7, <3>12
    <3>13. CASE u = a /\ w.sets = "username"
      BY <3>6, <3>8, <3>9, <3>10, <3>13 DEF Applied, Documents
    <3>14. CASE u = a /\ w.sets = "details"
      BY <3>6, <3>8, <3>9, <3>10, <3>14 DEF Applied, Documents
    <3> QED
      BY <3>6, <3>11, <3>12, <3>13, <3>14
  <2>3. UNCHANGED documents \/ ApplyNext
    BY <1>1 DEF Next, vars, Tap, FinishWalkthrough, SignOutButtonPressed, Relaunch,
       AuthAnswers, AccountCreated, SignedIn, AuthFails, CustomerCreated, CustomerAnswered,
       CustomerFails, RunMainQueue, CredentialChange, NewUserCreated, ExistingUserSigned,
       NavigateToMainView, Disconnect, FirestoreAnswers, DatabaseUserCreated, UsernameUpdated,
       DetailsUpdated, Answered, Refused, serverVars
  <2> QED
    BY <2>1, <2>2, <2>3
<1>2. IInv /\ [Next]_vars => [~crossed' => \A u \in Users : Kept(u)]_vars
  BY <1>1
<1> QED
  BY <1>2, Invariance, PTL DEF Spec, AnsweredIsKept

===============================================================================
