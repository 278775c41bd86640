----------------------------- MODULE RosterProofs -----------------------------
(***************************************************************************)
(* The theorems of Roster, for every set of users, devices and SuShares    *)
(* and for every bound on the taps: typing, then the safety theorems.      *)
(*                                                                         *)
(* The stored lists are safe because of where they come from: every list   *)
(* that a screen, a queue or the database holds was composed, on a screen, *)
(* from a list of the same origin.  IInv says so (CopiesAreProposals) and  *)
(* says of the composed lists themselves what the theorems need            *)
(* (ProposalsGrow, ScreensWereOpened); the other two conjuncts say of the  *)
(* writes that a document is created from one queue only, though perhaps   *)
(* more than once (CreatesAreHome), and that a report follows its flag     *)
(* (ReportsFollowFlags).  The refinement of RosterRegister rests on the    *)
(* same invariant.                                                         *)
(*                                                                         *)
(* Notices are counted, at the end: NoticesFit adds to the notices on file *)
(* those in the queues that are not on file yet and those that a read will *)
(* cause, and every step that adds to the sum is an answered join.         *)
(***************************************************************************)
EXTENDS Roster, TLAPS, FiniteSetTheorems, SequenceTheorems, WellFoundedInduction

-------------------------------------------------------------------------------
(* Queues: what appending to a queue and taking its head leave in it. *)

LEMMA AppendRange ==
  ASSUME NEW T, NEW q \in Seq(T), NEW w \in T
  PROVE  /\ Append(q, w) \in Seq(T)
         /\ Range(Append(q, w)) = Range(q) \cup {w}
<1>1. /\ Append(q, w) \in Seq(T)
      /\ Len(Append(q, w)) = Len(q) + 1
      /\ \A i \in 1..Len(q) : Append(q, w)[i] = q[i]
      /\ Append(q, w)[Len(q) + 1] = w
  BY AppendProperties
<1>2. DOMAIN Append(q, w) = 1..(Len(q) + 1) /\ DOMAIN q = 1..Len(q) /\ Len(q) \in Nat
  BY <1>1, LenProperties
<1>3. \A i \in 1..(Len(q) + 1) : i \in 1..Len(q) \/ i = Len(q) + 1
  BY <1>2
<1>4. Range(Append(q, w)) \subseteq Range(q) \cup {w}
  BY <1>1, <1>2, <1>3 DEF Range
<1>5. Range(q) \cup {w} \subseteq Range(Append(q, w))
  BY <1>1, <1>2 DEF Range
<1> QED  BY <1>1, <1>4, <1>5

LEMMA TailRange ==
  ASSUME NEW T, NEW q \in Seq(T), q # <<>>
  PROVE  /\ Tail(q) \in Seq(T)
         /\ Range(Tail(q)) \subseteq Range(q)
         /\ Head(q) \in T
         /\ Head(q) \in Range(q)
         /\ 1 \in DOMAIN q
         /\ Head(q) = q[1]
<1>1. /\ Head(q) \in T
      /\ Tail(q) \in Seq(T)
      /\ Len(Tail(q)) = Len(q) - 1
      /\ \A i \in 1..Len(Tail(q)) : Tail(q)[i] = q[i + 1]
  BY HeadTailProperties
<1>2. DOMAIN Tail(q) = 1..(Len(q) - 1) /\ DOMAIN q = 1..Len(q) /\ Len(q) \in Nat
  BY <1>1, LenProperties
<1>3. Len(q) # 0
  BY EmptySeq
<1>4. Head(q) = q[1]
  OBVIOUS
<1>5. \A i \in 1..(Len(q) - 1) : i + 1 \in 1..Len(q)
  BY <1>2
<1> QED  BY <1>1, <1>2, <1>3, <1>4, <1>5 DEF Range

\* The members of a queue are writes.
LEMMA RangeType ==
  ASSUME NEW T, NEW q \in Seq(T)
  PROVE  Range(q) \subseteq T
BY ElementOfSeq, LenProperties DEF Range

-------------------------------------------------------------------------------
(* A nonempty set of positions has a last one. *)

LEMMA MaxIsMember ==
  ASSUME NEW n \in Nat, NEW S \in SUBSET (1..n), S # {}
  PROVE  Max(S) \in S
<1> DEFINE T == {n - i : i \in S}
<1>1. T \subseteq Nat /\ T # {}
  <2>1. \A i \in S : n - i \in Nat
    BY SMT
  <2> QED  BY <2>1
<1>2. PICK m \in T : \A k \in T : ~ (<<k, m>> \in OpToRel(<, Nat))
  BY <1>1, NatLessThanWellFounded, WFMin, Zenon
<1>3. PICK i \in S : m = n - i
  OBVIOUS
<1>4. \A j \in S : ~ (n - j < n - i)
  BY <1>1, <1>2, <1>3 DEF OpToRel
<1>5. \A j \in S : i >= j
  BY <1>4
<1> QED  BY <1>5 DEF Max

-------------------------------------------------------------------------------
(* Types. *)

\* What the SDK shows of a document is a document, or nothing.
LEMMA OverlayType ==
  ASSUME TypeOK, NEW c \in Devices, NEW d \in SuShares
  PROVE  Overlay(c, d) \in Doc \cup {NoDoc}
<1> DEFINE lists == Pending(c, d, {"create", "join"})
<1>1. queue[c] \in Seq(Write) /\ DOMAIN queue[c] = 1..Len(queue[c]) /\ Len(queue[c]) \in Nat
  BY LenProperties DEF TypeOK
<1>2. lists \in SUBSET (1..Len(queue[c]))
  BY <1>1 DEF Pending
<1>3. lists # {} => queue[c][Max(lists)] \in Write
  <2>1. SUFFICES ASSUME lists # {} PROVE queue[c][Max(lists)] \in Write
    OBVIOUS
  <2>2. Max(lists) \in 1..Len(queue[c])
    BY <1>1, <1>2, <2>1, MaxIsMember
  <2> QED  BY <1>1, <2>2, ElementOfSeq
<1>4. server[d] \in Doc \cup {NoDoc} /\ Account[c] \in Users
  BY AccountAssumption DEF TypeOK
<1>5. Pending(c, d, {"create"}) # {} => lists # {}
  BY DEF Pending
<1>6. lists = {} => server[d].there \/ Overlay(c, d) = NoDoc
  BY <1>5 DEF Overlay
<1>7. CASE server[d].there
  <2>1. server[d] \in Doc
    BY <1>4, <1>7 DEF NoDoc
  <2>2. (IF lists = {} THEN server[d].users ELSE queue[c][Max(lists)].users) \in Seq(Users)
    BY <1>3, <2>1 DEF Doc, Write
  <2>3. (IF Pending(c, d, {"create"}) = {} THEN server[d].reported ELSE FALSE) \in BOOLEAN
    BY <2>1 DEF Doc
  <2> QED  BY <1>7, <2>1, <2>2, <2>3 DEF Overlay, Doc
<1>8. CASE ~server[d].there /\ lists # {}
  <2>1. queue[c][Max(lists)].users \in Seq(Users)
    BY <1>3, <1>8 DEF Write
  <2>2. Pending(c, d, {"create"}) # {} \/ Overlay(c, d) = NoDoc
    BY <1>8 DEF Overlay
  <2> QED  BY <1>4, <1>8, <2>1, <2>2 DEF Overlay, Doc, NoDoc
<1>9. CASE ~server[d].there /\ lists = {}
  BY <1>6, <1>9
<1> QED  BY <1>7, <1>8, <1>9

LEMMA NewWriteType ==
  ASSUME NEW op \in Ops, NEW d \in SuShares, NEW users \in Seq(Users), NEW to \in Users
  PROVE  NewWrite(op, d, users, to) \in Write
BY DEF NewWrite, Write

\* The next write that the server applies.
LEMMA NextFacts ==
  ASSUME TypeOK, NEW b \in Devices, reached[b] < Len(queue[b])
  PROVE  LET w == NextWrite(b)
         IN  /\ w \in Write
             /\ w \in Range(queue[b])
             /\ w.doc \in SuShares
             /\ w.users \in Seq(Users)
             /\ w.to \in Users
             /\ reached[b] + 1 \in DOMAIN queue[b]
             /\ w = queue[b][reached[b] + 1]
<1> DEFINE w == NextWrite(b)
<1>1. queue[b] \in Seq(Write) /\ reached[b] \in Nat
  BY DEF TypeOK
<1>2. DOMAIN queue[b] = 1..Len(queue[b]) /\ Len(queue[b]) \in Nat
  BY <1>1, LenProperties
<1>3. reached[b] + 1 \in 1..Len(queue[b])
  BY <1>1, <1>2
<1>4. w = queue[b][reached[b] + 1]
  BY DEF NextWrite
<1>5. w \in Write /\ w \in Range(queue[b])
  BY <1>1, <1>2, <1>3, <1>4, ElementOfSeq DEF Range
<1> HIDE DEF w
<1>6. w.doc \in SuShares /\ w.users \in Seq(Users) /\ w.to \in Users
  BY <1>5 DEF Write
<1> QED  BY <1>2, <1>3, <1>4, <1>5, <1>6 DEF w

\* The head of b's queue.
LEMMA HeadFacts ==
  ASSUME TypeOK, NEW b \in Devices, queue[b] # <<>>
  PROVE  LET w == Head(queue[b])
         IN  /\ w \in Write
             /\ w \in Range(queue[b])
             /\ w.doc \in SuShares
             /\ w.users \in Seq(Users)
             /\ w.to \in Users
             /\ 1 \in DOMAIN queue[b]
             /\ w = queue[b][1]
<1> DEFINE w == Head(queue[b])
<1>1. w \in Write /\ w \in Range(queue[b]) /\ 1 \in DOMAIN queue[b] /\ w = queue[b][1]
  BY TailRange DEF TypeOK
<1> HIDE DEF w
<1>2. w.doc \in SuShares /\ w.users \in Seq(Users) /\ w.to \in Users
  BY <1>1 DEF Write
<1> QED  BY <1>1, <1>2 DEF w

\* An answer is for a write in the queue.
LEMMA AnsweredQueued ==
  ASSUME TypeOK, NEW c \in Devices, reached[c] > 0
  PROVE  queue[c] # <<>> /\ reached[c] - 1 \in Nat /\ reached[c] - 1 <= Len(Tail(queue[c]))
<1>1. /\ queue[c] \in Seq(Write) /\ reached[c] \in Nat /\ reached[c] <= Len(queue[c])
      /\ Len(queue[c]) \in Nat
  BY LenProperties DEF TypeOK
<1>2. queue[c] # <<>>
  BY <1>1, EmptySeq
<1>3. Len(Tail(queue[c])) = Len(queue[c]) - 1
  BY <1>1, <1>2, HeadTailProperties
<1> QED  BY <1>1, <1>2, <1>3

\* What the server has reached lies in the queues.
ReachedOK == reached \in [Devices -> Nat] /\ \A c \in Devices : reached[c] <= Len(queue[c])

\* Appending a write to a queue keeps the queues queues of writes.
LEMMA EnqueueType ==
  ASSUME TypeOK, NEW c \in Devices, NEW w \in Write, Enqueue(c, w)
  PROVE  queue' \in [Devices -> Seq(Write)] /\ (reached' = reached => ReachedOK')
<1>1. /\ Append(queue[c], w) \in Seq(Write) /\ Len(Append(queue[c], w)) = Len(queue[c]) + 1
      /\ Len(queue[c]) \in Nat /\ reached[c] \in Nat /\ reached[c] <= Len(queue[c])
  BY AppendProperties, LenProperties DEF TypeOK
<1>2. \A b \in Devices : queue'[b] = IF b = c THEN Append(queue[c], w) ELSE queue[b]
  BY DEF TypeOK, Enqueue
<1>3. ASSUME NEW b \in Devices PROVE reached[b] <= Len(queue'[b])
  <2>1. CASE b = c
    <3> DEFINE n == Len(Append(queue[c], w))
    <3>1. n = Len(queue[c]) + 1
      BY <1>1
    <3>2. Len(queue'[b]) = n
      BY <1>2, <2>1
    <3> HIDE DEF n
    <3> QED  BY <1>1, <2>1, <3>1, <3>2
  <2>2. CASE b # c
    BY <1>2, <2>2 DEF TypeOK
  <2> QED  BY <2>1, <2>2
<1> QED  BY <1>1, <1>3 DEF TypeOK, Enqueue, ReachedOK

\* So does replacing one queue, if it is long enough for what is reached.
LEMMA ReplaceType ==
  ASSUME TypeOK, NEW c \in Devices, NEW q \in Seq(Write), NEW n \in Nat, n <= Len(q),
         queue' = [queue EXCEPT ![c] = q], reached' = [reached EXCEPT ![c] = n]
  PROVE  queue' \in [Devices -> Seq(Write)] /\ ReachedOK'
<1>1. \A b \in Devices : reached'[b] <= Len(queue'[b])
  BY DEF TypeOK
<1> QED  BY <1>1 DEF TypeOK, ReachedOK

LEMMA HeadType ==
  ASSUME TypeOK, NEW c \in Devices, queue[c] # <<>>
  PROVE  Head(queue[c]) \in Write /\ Tail(queue[c]) \in Seq(Write)
BY TailRange DEF TypeOK

\* An answered write leaves its queue.
LEMMA AnswerType ==
  ASSUME TypeOK, NEW c \in Devices, NEW ops, Answers(c, ops), Dequeue(c)
  PROVE  queue' \in [Devices -> Seq(Write)] /\ ReachedOK'
<1>1. queue[c] # <<>> /\ reached[c] - 1 \in Nat /\ reached[c] - 1 <= Len(Tail(queue[c]))
  BY AnsweredQueued DEF Answers
<1>2. Tail(queue[c]) \in Seq(Write)
  BY <1>1, HeadType
<1>3. /\ queue' = [queue EXCEPT ![c] = Tail(queue[c])]
      /\ reached' = [reached EXCEPT ![c] = reached[c] - 1]
  BY DEF Dequeue, Answers
<1> QED  BY <1>1, <1>2, <1>3, ReplaceType

\* Tables of counters stay tables of counters when one counter changes.
LEMMA TableUpdate ==
  ASSUME NEW A, NEW B, NEW f \in [A -> [B -> Nat]],
         NEW a \in A, NEW b \in B, NEW n \in Nat
  PROVE  [f EXCEPT ![a][b] = n] \in [A -> [B -> Nat]]
OBVIOUS

LEMMA DeepTableUpdate ==
  ASSUME NEW A, NEW B, NEW C, NEW f \in [A -> [B -> [C -> Nat]]],
         NEW a \in A, NEW b \in B, NEW c \in C, NEW n \in Nat
  PROVE  [f EXCEPT ![a][b][c] = n] \in [A -> [B -> [C -> Nat]]]
OBVIOUS

LEMMA TapType ==
  ASSUME TypeOK, NEW t \in Taps, NEW d \in SuShares, NEW u \in Users, Tap(t, d, u)
  PROVE  taps' \in [Taps -> [SuShares -> [Users -> Nat]]]
BY DEF TypeOK, Tap

LEMMA EmptyList == <<>> \in Seq(Users)
OBVIOUS

LEMMA InitType == Init => TypeOK
<1> SUFFICES ASSUME Init PROVE TypeOK
  OBVIOUS
<1>1. NoDoc \in Doc \cup {NoDoc} /\ NoScreen \in Screen \cup {NoScreen}
  OBVIOUS
<1>2. queue \in [Devices -> Seq(Write)]
  BY DEF Init
<1> QED  BY <1>1, <1>2 DEF Init, TypeOK

\* Every step of a device keeps the types.
LEMMA StepType ==
  ASSUME TypeOK, [Next]_vars
  PROVE  TypeOK'
<1> USE DEF serverVars, historyVars
<1>1. CASE UNCHANGED vars
  BY <1>1 DEF vars, TypeOK
<1>2. ASSUME NEW c \in Devices, NEW d \in SuShares, CreateASusu(c, d) PROVE TypeOK'
  <2> DEFINE users == <<Account[c]>>
             w == NewWrite("create", d, users, Account[c])
  <2>1. Account[c] \in Users /\ users \in Seq(Users)
    BY AccountAssumption
  <2>2. w \in Write
    BY <2>1, NewWriteType DEF Ops
  <2>3. queue' \in [Devices -> Seq(Write)] /\ ReachedOK'
    BY <1>2, <2>2, EnqueueType DEF CreateASusu
  <2>4. proposed' \in [SuShares -> SUBSET Seq(Users)]
    BY <1>2, <2>1 DEF CreateASusu, TypeOK
  <2>5. taps' \in [Taps -> [SuShares -> [Users -> Nat]]]
    BY <1>2, <2>1, TapType DEF CreateASusu, Taps
  <2> QED  BY <1>2, <2>3, <2>4, <2>5 DEF CreateASusu, TypeOK, ReachedOK
<1>3. ASSUME NEW c \in Devices, NEW d \in SuShares, OpenDetail(c, d) PROVE TypeOK'
  <2>1. Account[c] \in Users
    BY AccountAssumption
  <2>2. list[c][d] \in Doc
    BY <1>3 DEF OpenDetail, TypeOK, NoDoc
  <2>3. [open |-> TRUE, id |-> d, userId |-> list[c][d].userId, users |-> list[c][d].users]
          \in Screen
    BY <2>2 DEF Doc, Screen
  <2>4. detail' \in [Devices -> Screen \cup {NoScreen}]
    BY <1>3, <2>3 DEF OpenDetail, TypeOK
  <2>5. taps' \in [Taps -> [SuShares -> [Users -> Nat]]]
    BY <1>3, <2>1, TapType DEF OpenDetail, Taps
  <2> QED  BY <1>3, <2>4, <2>5 DEF OpenDetail, TypeOK
<1>4. ASSUME NEW c \in Devices, NEW d \in SuShares, OpenCreated(c, d) PROVE TypeOK'
  <2> DEFINE doc == Overlay(c, d)
  <2>1. Account[c] \in Users
    BY AccountAssumption
  <2>2. doc \in Doc
    BY <1>4, OverlayType DEF OpenCreated, NoDoc
  <2> HIDE DEF doc
  <2>3. [open |-> TRUE, id |-> d, userId |-> doc.userId, users |-> doc.users] \in Screen
    BY <2>2 DEF Doc, Screen
  <2>4. detail' \in [Devices -> Screen \cup {NoScreen}]
    BY <1>4, <2>3 DEF OpenCreated, TypeOK, doc
  <2>5. taps' \in [Taps -> [SuShares -> [Users -> Nat]]]
    BY <1>4, <2>1, TapType DEF OpenCreated, Taps
  <2> QED  BY <1>4, <2>4, <2>5 DEF OpenCreated, TypeOK
<1>5. ASSUME NEW c \in Devices, NEW d \in SuShares, NEW v \in Users, OpenFavorite(c, v, d)
      PROVE  TypeOK'
  <2>1. Account[c] \in Users
    BY AccountAssumption
  <2>2. FavoritesSeen(c, v, d) \subseteq Seq(Users)
    <3>1. \A i \in Pending(c, d, {"favorite"}) : queue[c][i] \in Write
      BY ElementOfSeq, LenProperties DEF TypeOK, Pending
    <3> QED  BY <3>1 DEF FavoritesSeen, TypeOK, Write
  <2>3. PICK users \in Seq(Users) :
          detail' = [detail EXCEPT ![c] = [open |-> TRUE, id |-> d,
                                           userId |-> v, users |-> users]]
    BY <1>5, <2>2 DEF OpenFavorite
  <2>4. detail' \in [Devices -> Screen \cup {NoScreen}]
    BY <2>3 DEF TypeOK, Screen
  <2>5. taps' \in [Taps -> [SuShares -> [Users -> Nat]]]
    BY <1>5, <2>1, TapType DEF OpenFavorite, Taps
  <2> QED  BY <1>5, <2>4, <2>5 DEF OpenFavorite, TypeOK
<1>6. ASSUME NEW c \in Devices, NEW d \in SuShares, ReportPressed(c, d) PROVE TypeOK'
  <2>1. Account[c] \in Users
    BY AccountAssumption
  <2>2. NewWrite("flag", d, <<>>, Account[c]) \in Write
    BY <2>1, EmptyList, NewWriteType DEF Ops
  <2>3. queue' \in [Devices -> Seq(Write)] /\ ReachedOK'
    BY <1>6, <2>2, EnqueueType DEF ReportPressed
  <2>4. taps' \in [Taps -> [SuShares -> [Users -> Nat]]]
    BY <1>6, <2>1, TapType DEF ReportPressed, Taps
  <2> QED  BY <1>6, <2>3, <2>4 DEF ReportPressed, TypeOK, ReachedOK
<1>7. ASSUME NEW c \in Devices, JoinSushareButtonPressed(c) PROVE TypeOK'
  <2> DEFINE s == detail[c]
             users == JoinedList(s, Account[c])
  <2>1. Account[c] \in Users
    BY AccountAssumption
  <2>2. s \in Screen
    BY <1>7 DEF JoinSushareButtonPressed, TypeOK, NoScreen
  <2>3. users \in Seq(Users) /\ s.id \in SuShares /\ s.userId \in Users
    BY <2>1, <2>2, AppendProperties DEF Screen, JoinedList
  <2>4. NewWrite("join", s.id, users, s.userId) \in Write
    BY <2>3, NewWriteType DEF Ops
  <2>5. queue' \in [Devices -> Seq(Write)] /\ ReachedOK'
    BY <1>7, <2>4, EnqueueType DEF JoinSushareButtonPressed
  <2>6. proposed' \in [SuShares -> SUBSET Seq(Users)]
    BY <1>7, <2>3 DEF JoinSushareButtonPressed, TypeOK
  <2>7. taps' \in [Taps -> [SuShares -> [Users -> Nat]]]
    BY <1>7, <2>1, <2>3, TapType DEF JoinSushareButtonPressed, Taps
  <2> QED  BY <1>7, <2>5, <2>6, <2>7 DEF JoinSushareButtonPressed, TypeOK, ReachedOK
<1>8. ASSUME NEW c \in Devices, FavoriteButtonPressed(c) PROVE TypeOK'
  <2> DEFINE s == detail[c]
  <2>1. Account[c] \in Users
    BY AccountAssumption
  <2>2. s \in Screen
    BY <1>8 DEF FavoriteButtonPressed, TypeOK, NoScreen
  <2>3. s.users \in Seq(Users) /\ s.id \in SuShares
    BY <2>2 DEF Screen
  <2>4. /\ NewWrite("favorite", s.id, s.users, Account[c]) \in Write
        /\ NewWrite("unfavorite", s.id, <<>>, Account[c]) \in Write
    BY <2>1, <2>3, EmptyList, NewWriteType DEF Ops
  <2>5. queue' \in [Devices -> Seq(Write)] /\ ReachedOK'
    BY <1>8, <2>4, EnqueueType DEF FavoriteButtonPressed
  <2>6. taps' \in [Taps -> [SuShares -> [Users -> Nat]]]
    BY <1>8, <2>1, <2>3, TapType DEF FavoriteButtonPressed, Taps
  <2> QED  BY <1>8, <2>5, <2>6 DEF FavoriteButtonPressed, TypeOK, ReachedOK
<1>9. ASSUME NEW c \in Devices, DeliverSnapshot(c) PROVE TypeOK'
  <2>1. [d \in SuShares |-> Overlay(c, d)] \in [SuShares -> Doc \cup {NoDoc}]
    BY OverlayType
  <2> QED  BY <1>9, <2>1 DEF DeliverSnapshot, TypeOK
<1>10. ASSUME NEW c \in Devices, Store(c) PROVE TypeOK'
  <2> DEFINE w == NextWrite(c)
  <2>1. Account[c] \in Users
    BY AccountAssumption
  <2>2. reached[c] < Len(queue[c]) /\ reached' = [reached EXCEPT ![c] = @ + 1]
    BY <1>10 DEF Store, Applies, StoreCreate, StoreJoin, StoreNotice, StoreFlag,
                 StoreRecord, StoreFavorite, StoreUnfavorite
  <2>3. w \in Write /\ reached[c] + 1 \in DOMAIN queue[c]
    BY <2>2, NextFacts
  <2>4. w.doc \in SuShares /\ w.users \in Seq(Users) /\ w.to \in Users
    BY <2>2, NextFacts
  <2>5. reached' \in [Devices -> Nat]
        /\ \A b \in Devices : reached'[b] <= Len(queue[b])
    <3>1. \A b \in Devices : /\ queue[b] \in Seq(Write) /\ Len(queue[b]) \in Nat
                              /\ reached[b] \in Nat /\ reached[b] <= Len(queue[b])
      BY LenProperties DEF TypeOK
    <3>2. \A b \in Devices : reached'[b] = IF b = c THEN reached[c] + 1 ELSE reached[b]
      BY <2>2 DEF TypeOK
    <3>3. reached[c] + 1 \in Nat /\ reached[c] + 1 <= Len(queue[c])
      BY <2>2, <3>1
    <3>4. reached' \in [Devices -> Nat]
      BY <2>2, <3>3 DEF TypeOK
    <3> QED  BY <3>1, <3>2, <3>3, <3>4
  <2> HIDE DEF w
  <2>6. CASE StoreCreate(c)
    <3>1. [there |-> TRUE, userId |-> Account[c], users |-> w.users, reported |-> FALSE] \in Doc
      BY <2>1, <2>4 DEF Doc
    <3>2. server' \in [SuShares -> Doc \cup {NoDoc}]
      BY <2>6, <3>1 DEF StoreCreate, TypeOK, w
    <3>3. recreated' \in SUBSET SuShares
      BY <2>4, <2>6 DEF StoreCreate, TypeOK, w
    <3> QED  BY <2>5, <2>6, <3>2, <3>3 DEF StoreCreate, TypeOK
  <2>7. CASE StoreJoin(c)
    <3>1. server[w.doc] \in Doc
      BY <2>4, <2>7 DEF StoreJoin, TypeOK, NoDoc, w
    <3>2. UpdateUsers(server[w.doc], w.users) \in Doc
      BY <2>4, <3>1 DEF UpdateUsers, Doc
    <3>3. server' \in [SuShares -> Doc \cup {NoDoc}]
      BY <2>7, <3>2 DEF StoreJoin, TypeOK, w
    <3> QED  BY <2>5, <2>7, <3>3 DEF StoreJoin, TypeOK
  <2>8. CASE StoreNotice(c)
    <3>1. inbox' \in [Users -> [SuShares -> [Users -> Nat]]]
      <4>1. inbox[w.to][w.doc][Account[c]] + 1 \in Nat
        BY <2>1, <2>4 DEF TypeOK
      <4>2. inbox \in [Users -> [SuShares -> [Users -> Nat]]]
        BY DEF TypeOK
      <4> DEFINE n == inbox[w.to][w.doc][Account[c]] + 1
      <4>3. n \in Nat
        BY <4>1
      <4> HIDE DEF n
      <4>4. [inbox EXCEPT ![w.to][w.doc][Account[c]] = n]
              \in [Users -> [SuShares -> [Users -> Nat]]]
        BY <2>1, <2>4, <4>2, <4>3, DeepTableUpdate
      <4>5. inbox' = inbox \/ inbox' = [inbox EXCEPT ![w.to][w.doc][Account[c]] = n]
        BY <2>8 DEF StoreNotice, n, w
      <4> QED  BY <4>2, <4>4, <4>5
    <3>2. [w EXCEPT !.filed = TRUE] \in Write
      BY <2>3 DEF Write
    <3>3. queue[c] \in Seq(Write) /\ DOMAIN queue[c] = 1..Len(queue[c])
      BY LenProperties DEF TypeOK
    <3> DEFINE q == [queue[c] EXCEPT ![reached[c] + 1] = [w EXCEPT !.filed = TRUE]]
    <3>4. q \in Seq(Write) /\ Len(q) = Len(queue[c])
      BY <2>3, <3>2, <3>3, ExceptSeq
    <3>5. queue' = [queue EXCEPT ![c] = q]
      BY <2>8 DEF StoreNotice, w
    <3> HIDE DEF q
    <3>6. reached' = [reached EXCEPT ![c] = reached[c] + 1]
          /\ reached[c] + 1 \in Nat /\ reached[c] + 1 <= Len(q)
      BY <2>2, <2>5, <3>4 DEF TypeOK
    <3>7. queue' \in [Devices -> Seq(Write)] /\ ReachedOK'
      BY <3>4, <3>5, <3>6, ReplaceType
    <3> QED  BY <2>8, <3>1, <3>7 DEF StoreNotice, TypeOK, ReachedOK
  <2>9. CASE StoreFlag(c)
    <3>1. server[w.doc] \in Doc
      BY <2>4, <2>9 DEF StoreFlag, TypeOK, NoDoc, w
    <3>2. [server[w.doc] EXCEPT !.reported = TRUE] \in Doc
      BY <3>1 DEF Doc
    <3>3. server' \in [SuShares -> Doc \cup {NoDoc}]
      BY <2>9, <3>2 DEF StoreFlag, TypeOK, w
    <3> QED  BY <2>5, <2>9, <3>3 DEF StoreFlag, TypeOK
  <2>10. CASE StoreRecord(c)
    BY <2>1, <2>4, <2>5, <2>10 DEF StoreRecord, TypeOK, w
  <2>11. CASE StoreFavorite(c)
    <3>1. favorites' \in [Users -> [SuShares -> SUBSET Seq(Users)]]
      BY <2>1, <2>4, <2>11 DEF StoreFavorite, TypeOK, w
    <3> QED  BY <2>5, <2>11, <3>1 DEF StoreFavorite, TypeOK
  <2>12. CASE StoreUnfavorite(c)
    <3>1. favorites' \in [Users -> [SuShares -> SUBSET Seq(Users)]]
      BY <2>1, <2>4, <2>12 DEF StoreUnfavorite, TypeOK, w
    <3> QED  BY <2>5, <2>12, <3>1 DEF StoreUnfavorite, TypeOK
  <2> QED  BY <1>10, <2>6, <2>7, <2>8, <2>9, <2>10, <2>11, <2>12 DEF Store
<1>14. ASSUME NEW c \in Devices, Succeed(c) PROVE TypeOK'
  <2> DEFINE w == Head(queue[c])
  <2>1. queue[c] # <<>> /\ reached[c] - 1 \in Nat /\ reached[c] - 1 <= Len(Tail(queue[c]))
    BY <1>14, AnsweredQueued DEF Succeed, Answers, JoinSucceeded, FlagSucceeded, WriteSucceeded
  <2>2. w \in Write /\ Tail(queue[c]) \in Seq(Write) /\ Account[c] \in Users
    BY <2>1, HeadType, AccountAssumption
  <2>3. w.doc \in SuShares /\ w.users \in Seq(Users) /\ w.to \in Users
    BY <2>2 DEF Write
  <2> HIDE DEF w
  <2>4. CASE JoinSucceeded(c)
    <3>1. fetching' \in [Devices -> [SuShares -> [Users -> Nat]]]
      <4>1. fetching[c][w.doc][w.to] + 1 \in Nat
        BY <2>3 DEF TypeOK
      <4>2. [fetching EXCEPT ![c][w.doc][w.to] = fetching[c][w.doc][w.to] + 1]
              \in [Devices -> [SuShares -> [Users -> Nat]]]
        BY <2>3, <4>1, DeepTableUpdate DEF TypeOK
      <4> QED  BY <2>4, <4>2 DEF JoinSucceeded, TypeOK, w
    <3>2. committed' \in [SuShares -> [Users -> Nat]]
      <4>1. committed[w.doc][Account[c]] + 1 \in Nat
        BY <2>2, <2>3 DEF TypeOK
      <4>2. [committed EXCEPT ![w.doc][Account[c]] = committed[w.doc][Account[c]] + 1]
              \in [SuShares -> [Users -> Nat]]
        BY <2>2, <2>3, <4>1, TableUpdate DEF TypeOK
      <4> QED  BY <2>4, <4>2 DEF JoinSucceeded, w
    <3>3. queue' \in [Devices -> Seq(Write)] /\ ReachedOK'
      BY <2>4, AnswerType DEF JoinSucceeded
    <3> QED  BY <2>4, <3>1, <3>2, <3>3 DEF JoinSucceeded, TypeOK, ReachedOK
  <2>5. CASE FlagSucceeded(c)
    <3> DEFINE x == NewWrite("record", w.doc, <<>>, w.to)
               q == IF w.live THEN Append(Tail(queue[c]), x) ELSE Tail(queue[c])
    <3>1. x \in Write
      BY <2>3, EmptyList, NewWriteType DEF Ops
    <3> HIDE DEF x
    <3>2. /\ Append(Tail(queue[c]), x) \in Seq(Write)
          /\ Len(Append(Tail(queue[c]), x)) = Len(Tail(queue[c])) + 1
          /\ Len(Tail(queue[c])) \in Nat
      BY <2>2, <3>1, AppendProperties, LenProperties
    <3>3. q \in Seq(Write) /\ reached[c] - 1 <= Len(q)
      BY <2>1, <2>2, <3>2
    <3>4. /\ queue' = [queue EXCEPT ![c] = q]
          /\ reached' = [reached EXCEPT ![c] = reached[c] - 1]
      BY <2>5 DEF FlagSucceeded, Answers, w, x
    <3> HIDE DEF q
    <3>5. queue' \in [Devices -> Seq(Write)] /\ ReachedOK'
      BY <2>1, <3>3, <3>4, ReplaceType
    <3> QED  BY <2>5, <3>5 DEF FlagSucceeded, TypeOK, ReachedOK
  <2>6. CASE WriteSucceeded(c)
    <3>1. queue' \in [Devices -> Seq(Write)] /\ ReachedOK'
      BY <2>6, AnswerType DEF WriteSucceeded
    <3> QED  BY <2>6, <3>1 DEF WriteSucceeded, TypeOK, ReachedOK
  <2> QED  BY <1>14, <2>4, <2>5, <2>6 DEF Succeed
<1>11. ASSUME NEW c \in Devices, Fetched(c) PROVE TypeOK'
  <2>1. PICK d \in SuShares, v \in Users :
          GetCurrentUserSucceeds(c, d, v) \/ GetCurrentUserFails(c, d, v)
    BY <1>11 DEF Fetched
  <2>2. fetching' \in [Devices -> [SuShares -> [Users -> Nat]]]
    <3>1. fetching[c][d][v] \in Nat /\ fetching[c][d][v] > 0
      BY <2>1 DEF TypeOK, GetCurrentUserSucceeds, GetCurrentUserFails
    <3>2. fetching[c][d][v] - 1 \in Nat
      BY <3>1
    <3>3. [fetching EXCEPT ![c][d][v] = fetching[c][d][v] - 1]
            \in [Devices -> [SuShares -> [Users -> Nat]]]
      BY <3>2, DeepTableUpdate DEF TypeOK
    <3> QED  BY <2>1, <3>3 DEF GetCurrentUserSucceeds, GetCurrentUserFails
  <2>3. CASE GetCurrentUserSucceeds(c, d, v)
    <3>1. NewWrite("notice", d, <<>>, v) \in Write
      BY EmptyList, NewWriteType DEF Ops
    <3>2. queue' \in [Devices -> Seq(Write)] /\ ReachedOK'
      BY <2>3, <3>1, EnqueueType DEF GetCurrentUserSucceeds
    <3> QED  BY <2>2, <2>3, <3>2 DEF GetCurrentUserSucceeds, TypeOK, ReachedOK
  <2>4. CASE GetCurrentUserFails(c, d, v)
    BY <2>2, <2>4 DEF GetCurrentUserFails, TypeOK
  <2> QED  BY <2>1, <2>3, <2>4
<1>12. ASSUME NEW c \in Devices, Reject(c) PROVE TypeOK'
  <2>1. Tail(queue[c]) \in Seq(Write) /\ 0 <= Len(Tail(queue[c]))
    BY <1>12, HeadType, LenProperties DEF Reject
  <2>2. queue' = [queue EXCEPT ![c] = Tail(queue[c])] /\ reached' = [reached EXCEPT ![c] = 0]
    BY <1>12 DEF Reject, Dequeue
  <2>3. queue' \in [Devices -> Seq(Write)] /\ ReachedOK'
    BY <2>1, <2>2, ReplaceType
  <2> QED  BY <1>12, <2>3 DEF Reject, TypeOK, ReachedOK
<1>15. ASSUME NEW c \in Devices, Disconnect(c) PROVE TypeOK'
  <2>1. \A b \in Devices : 0 <= Len(queue[b])
    BY LenProperties DEF TypeOK
  <2> QED  BY <1>15, <2>1 DEF Disconnect, TypeOK
<1>13. ASSUME NEW c \in Devices, Kill(c) PROVE TypeOK'
  <2> DEFINE q == [i \in DOMAIN queue[c] |-> [queue[c][i] EXCEPT !.live = FALSE]]
  <2>1. q \in Seq(Write) /\ 0 <= Len(q)
    <3>1. /\ Len(queue[c]) \in Nat /\ DOMAIN queue[c] = 1..Len(queue[c])
          /\ \A i \in DOMAIN queue[c] : queue[c][i] \in Write
      BY ElementOfSeq, LenProperties DEF TypeOK
    <3>2. \A i \in DOMAIN queue[c] : [queue[c][i] EXCEPT !.live = FALSE] \in Write
      BY <3>1 DEF Write
    <3>3. q \in Seq(Write)
      BY <3>1, <3>2, IsASeq
    <3> HIDE DEF q
    <3> QED  BY <3>3, LenProperties
  <2>2. queue' = [queue EXCEPT ![c] = q] /\ reached' = [reached EXCEPT ![c] = 0]
    BY <1>13 DEF Kill
  <2> HIDE DEF q
  <2>3. queue' \in [Devices -> Seq(Write)] /\ ReachedOK'
    BY <2>1, <2>2, ReplaceType
  <2> QED  BY <1>13, <2>3 DEF Kill, TypeOK, ReachedOK
<1> QED
  BY <1>1, <1>2, <1>3, <1>4, <1>5, <1>6, <1>7, <1>8, <1>9, <1>10, <1>11, <1>12, <1>13,
     <1>14, <1>15 DEF Next, User

\* Every variable keeps its type: in particular a screen and a queued write
\* always name a SuShare, and every list is a list of uids.
THEOREM TypeInvariant == Spec => []TypeOK
<1>1. Init => TypeOK
  BY InitType
<1>2. TypeOK /\ [Next]_vars => TypeOK'
  BY StepType
<1> QED  BY <1>1, <1>2, PTL DEF Spec

-------------------------------------------------------------------------------
(* Where lists and messages come from: the inductive invariant. *)

\* How often u may be listed in list l of d.
Allowed(d, u, l) == taps["open"][d][u] + (IF u = Head(l) THEN 1 ELSE 0)

\* The lists composed for a SuShare share their head, the creator, and list
\* the others no more often than they tapped.
ProposalsGrow ==
  \A d \in SuShares : \A l \in proposed[d] :
    /\ l # <<>>
    /\ \A m \in proposed[d] : Head(m) = Head(l)
    /\ \A i \in DOMAIN l : l[i] = Head(l) \/ taps["join"][d][l[i]] > 0
    /\ \A u \in Users : Cardinality(Occurrences(l, u)) <= Allowed(d, u, l)

\* A screen's list has room for its user: the tap that opened the screen.
ScreensWereOpened ==
  \A c \in Devices : detail[c].open =>
    Cardinality(Occurrences(detail[c].users, Account[c])) + 1
      <= Allowed(detail[c].id, Account[c], detail[c].users)

Listing == {"create", "join", "favorite"}

\* Every list that is held anywhere was composed for the SuShare it stands in.
CopiesAreProposals ==
  /\ \A d \in SuShares : server[d].there =>
       server[d].users \in proposed[d] /\ server[d].userId = Head(server[d].users)
  /\ \A u \in Users, d \in SuShares : favorites[u][d] \subseteq proposed[d]
  /\ \A c \in Devices, d \in SuShares : list[c][d].there => list[c][d].users \in proposed[d]
  /\ \A c \in Devices : detail[c].open => detail[c].users \in proposed[detail[c].id]
  /\ \A c \in Devices : \A w \in Range(queue[c]) :
       w.op \in Listing => w.users \in proposed[w.doc]

IsCreate(c, i, d) == queue[c][i].op = "create" /\ queue[c][i].doc = d

\* Only the creator's own queue holds writes that create d, and they list the
\* creator alone: applied again, they found the same SuShare again.
CreatesAreHome ==
  /\ \A c \in Devices, d \in SuShares : \A i \in DOMAIN queue[c] :
       IsCreate(c, i, d) => /\ queue[c][i].users = <<Account[c]>>
                            /\ server[d].there => server[d].userId = Account[c]
  /\ \A b, c \in Devices, d \in SuShares :
       \A i \in DOMAIN queue[b], j \in DOMAIN queue[c] :
         IsCreate(b, i, d) /\ IsCreate(c, j, d) => b = c

\* The flag of d was set, and lost only if d was created again.
Flagged(d) == server[d].there /\ (server[d].reported \/ d \in recreated)

\* A write that flags and has been applied, or one that files a report.
Reports(c, i) ==
  \/ queue[c][i].op = "record"
  \/ queue[c][i].op = "flag" /\ i <= reached[c]

\* Reports, on file, queued or about to be, follow the flag.
ReportsFollowFlags ==
  /\ \A r \in flagged : Flagged(r[1])
  /\ \A c \in Devices : \A i \in DOMAIN queue[c] :
       Reports(c, i) => Flagged(queue[c][i].doc)

IInv ==
  /\ TypeOK
  /\ ProposalsGrow
  /\ ScreensWereOpened
  /\ CopiesAreProposals
  /\ CreatesAreHome
  /\ ReportsFollowFlags

-------------------------------------------------------------------------------
(* How a step changes the queues. *)

\* The same write, apart from its handler and from whether it is on file.
Same(w, x) == w.op = x.op /\ w.doc = x.doc /\ w.users = x.users

\* A write that a step of c puts at the end of c's queue.
Fresh(c, w) ==
  \/ w.op \in {"unfavorite", "flag"}
  \/ w.op = "create"   /\ CreateASusu(c, w.doc) /\ w.users = <<Account[c]>>
  \/ w.op = "join"     /\ JoinSushareButtonPressed(c) /\ w.doc = detail[c].id
                       /\ w.users = JoinedList(detail[c], Account[c])
  \/ w.op = "favorite" /\ detail[c].open /\ w.doc = detail[c].id
                       /\ w.users = detail[c].users
  \/ w.op = "record"   /\ FlagSucceeded(c) /\ w.doc = Head(queue[c]).doc
  \/ w.op = "notice"   /\ \E v \in Users : fetching[c][w.doc][v] > 0

\* From queue q to queue r of c: k writes leave at the head, a fresh one may
\* come at the end.
Moves(c, q, r, k) ==
  \A i \in DOMAIN r :
    \/ i + k \in DOMAIN q /\ Same(r[i], q[i + k])
    \/ i = Len(r) /\ Fresh(c, r[i])

LEMMA StillMoves ==
  ASSUME NEW c, NEW q \in Seq(Write)
  PROVE  Moves(c, q, q, 0)
<1>1. \A i \in DOMAIN q : i + 0 \in DOMAIN q /\ i + 0 = i
  BY LenProperties
<1> QED  BY <1>1 DEF Moves, Same

LEMMA AppendMoves ==
  ASSUME NEW c, NEW q \in Seq(Write), NEW w \in Write, Fresh(c, w)
  PROVE  Moves(c, q, Append(q, w), 0)
<1> DEFINE r == Append(q, w)
<1>1. /\ r \in Seq(Write)
      /\ Len(r) = Len(q) + 1
      /\ \A i \in 1..Len(q) : r[i] = q[i]
      /\ r[Len(q) + 1] = w
  BY AppendProperties
<1>2. DOMAIN r = 1..(Len(q) + 1) /\ DOMAIN q = 1..Len(q) /\ Len(q) \in Nat
  BY <1>1, LenProperties
<1> HIDE DEF r
<1>3. ASSUME NEW i \in DOMAIN r
      PROVE  \/ i + 0 \in DOMAIN q /\ r[i] = q[i + 0]
             \/ i = Len(r) /\ r[i] = w
  BY <1>1, <1>2
<1> QED  BY <1>3 DEF Moves, Same, r

LEMMA TailMoves ==
  ASSUME NEW c, NEW q \in Seq(Write), q # <<>>
  PROVE  Moves(c, q, Tail(q), 1)
<1>1. Len(Tail(q)) = Len(q) - 1 /\ \A i \in 1..Len(Tail(q)) : Tail(q)[i] = q[i + 1]
  BY HeadTailProperties
<1>2. DOMAIN Tail(q) = 1..(Len(q) - 1) /\ DOMAIN q = 1..Len(q) /\ Len(q) \in Nat
  BY <1>1, HeadTailProperties, LenProperties
<1>3. \A i \in DOMAIN Tail(q) : i + 1 \in DOMAIN q /\ Tail(q)[i] = q[i + 1]
  BY <1>1, <1>2
<1> QED  BY <1>3 DEF Moves, Same

LEMMA TailAppendMoves ==
  ASSUME NEW c, NEW q \in Seq(Write), q # <<>>, NEW w \in Write, Fresh(c, w)
  PROVE  Moves(c, q, Append(Tail(q), w), 1)
<1> DEFINE t == Tail(q)
           r == Append(t, w)
<1>1. /\ t \in Seq(Write)
      /\ Len(t) = Len(q) - 1
      /\ \A i \in 1..Len(t) : t[i] = q[i + 1]
  BY HeadTailProperties
<1>2. /\ r \in Seq(Write)
      /\ Len(r) = Len(t) + 1
      /\ \A i \in 1..Len(t) : r[i] = t[i]
      /\ r[Len(t) + 1] = w
  BY <1>1, AppendProperties
<1>3. DOMAIN r = 1..Len(q) /\ DOMAIN q = 1..Len(q) /\ Len(q) \in Nat /\ Len(r) = Len(q)
  BY <1>1, <1>2, LenProperties
<1> HIDE DEF r, t
<1>4. ASSUME NEW i \in DOMAIN r
      PROVE  \/ i + 1 \in DOMAIN q /\ r[i] = q[i + 1]
             \/ i = Len(r) /\ r[i] = w
  <2>1. i \in Nat /\ 1 <= i /\ i <= Len(q)
    BY <1>3
  <2>2. CASE i = Len(q)
    BY <1>1, <1>2, <1>3, <2>2
  <2>3. CASE i # Len(q)
    <3>1. i \in 1..Len(t) /\ i + 1 \in 1..Len(q)
      BY <1>1, <1>3, <2>1, <2>3
    <3> QED  BY <1>1, <1>2, <1>3, <3>1
  <2> QED  BY <2>2, <2>3
<1> QED  BY <1>4 DEF Moves, Same, r, t

\* Applying a notice changes nothing but whether it is on file.
LEMMA StoreNoticeMoves ==
  ASSUME TypeOK, NEW c \in Devices, StoreNotice(c)
  PROVE  /\ DOMAIN queue'[c] = DOMAIN queue[c]
         /\ \A i \in DOMAIN queue[c] : Same(queue'[c][i], queue[c][i])
         /\ Moves(c, queue[c], queue'[c], 0)
<1> DEFINE w == NextWrite(c)
           n == reached[c] + 1
<1>1. w \in Write /\ n \in DOMAIN queue[c] /\ w = queue[c][n]
  BY NextFacts DEF StoreNotice, Applies
<1>2. queue'[c] = [queue[c] EXCEPT ![n] = [w EXCEPT !.filed = TRUE]]
  BY DEF StoreNotice, TypeOK
<1>3. queue[c] \in Seq(Write) /\ DOMAIN queue[c] = 1..Len(queue[c])
  BY LenProperties DEF TypeOK
<1> HIDE DEF w, n
<1>4. DOMAIN queue'[c] = DOMAIN queue[c]
  BY <1>2, <1>3
<1>5. ASSUME NEW i \in DOMAIN queue[c]
      PROVE  Same(queue'[c][i], queue[c][i]) /\ i + 0 = i
  <2>1. i + 0 = i
    BY <1>3
  <2>2. CASE i = n
    <3>1. queue'[c][i] = [w EXCEPT !.filed = TRUE]
      BY <1>1, <1>2, <1>3, <2>2
    <3> QED  BY <1>1, <2>1, <2>2, <3>1 DEF Same, Write
  <2>3. CASE i # n
    BY <1>2, <1>3, <2>1, <2>3 DEF Same
  <2> QED  BY <2>2, <2>3
<1> QED  BY <1>4, <1>5 DEF Moves

\* A kill changes handlers only.
LEMMA KillMoves ==
  ASSUME TypeOK, NEW c \in Devices, Kill(c)
  PROVE  Moves(c, queue[c], queue'[c], 0)
<1>1. /\ \A i \in DOMAIN queue[c] : queue[c][i] \in Write /\ i + 0 = i
      /\ queue'[c] = [i \in DOMAIN queue[c] |-> [queue[c][i] EXCEPT !.live = FALSE]]
  BY ElementOfSeq, LenProperties DEF TypeOK, Kill
<1>2. ASSUME NEW i \in DOMAIN queue'[c]
      PROVE  i + 0 \in DOMAIN queue[c] /\ Same(queue'[c][i], queue[c][i + 0])
  BY <1>1 DEF Same, Write
<1> QED  BY <1>2 DEF Moves

LEMMA EnqueueMoves ==
  ASSUME TypeOK, NEW b \in Devices, NEW w \in Write, Enqueue(b, w), Fresh(b, w),
         NEW c \in Devices
  PROVE  Moves(c, queue[c], queue'[c], 0)
<1>1. queue[c] \in Seq(Write) /\ queue'[c] = IF c = b THEN Append(queue[b], w) ELSE queue[c]
  BY DEF TypeOK, Enqueue
<1>2. Moves(c, queue[c], IF c = b THEN Append(queue[b], w) ELSE queue[c], 0)
  BY <1>1, AppendMoves, StillMoves
<1> QED  BY <1>1, <1>2

LEMMA DequeueMoves ==
  ASSUME TypeOK, NEW b \in Devices, queue[b] # <<>>, Dequeue(b), NEW c \in Devices
  PROVE  \E k \in {0, 1} : Moves(c, queue[c], queue'[c], k)
<1>1. queue[c] \in Seq(Write) /\ queue'[c] = IF c = b THEN Tail(queue[b]) ELSE queue[c]
  BY DEF TypeOK, Dequeue
<1>2. CASE c = b
  <2>1. Moves(c, queue[c], Tail(queue[c]), 1)
    BY <1>1, <1>2, TailMoves
  <2> QED  BY <1>1, <1>2, <2>1
<1>3. CASE c # b
  <2>1. Moves(c, queue[c], queue[c], 0)
    BY <1>1, StillMoves
  <2> QED  BY <1>1, <1>3, <2>1
<1> QED  BY <1>2, <1>3

\* In one step each queue loses at most its head and gains at most one write,
\* of a known origin.
LEMMA QueueStep ==
  ASSUME TypeOK, [Next]_vars, NEW c \in Devices
  PROVE  \E k \in {0, 1} : Moves(c, queue[c], queue'[c], k)
<1>0. queue[c] \in Seq(Write) /\ Moves(c, queue[c], queue[c], 0)
  BY StillMoves DEF TypeOK
<1>u. UNCHANGED queue => \E k \in {0, 1} : Moves(c, queue[c], queue'[c], k)
  BY <1>0
<1> DEFINE Goal == \E k \in {0, 1} : Moves(c, queue[c], queue'[c], k)
<1>e. ASSUME NEW b \in Devices, NEW w \in Write, Enqueue(b, w), Fresh(b, w)
      PROVE  Goal
  BY <1>e, EnqueueMoves
<1>d. ASSUME NEW b \in Devices, queue[b] # <<>>, Dequeue(b)
      PROVE  Goal
  BY <1>d, DequeueMoves
<1> HIDE DEF Goal
<1>1. CASE UNCHANGED vars
  BY <1>1, <1>u DEF vars, Goal
<1>2. ASSUME NEW b \in Devices, NEW d \in SuShares, CreateASusu(b, d) PROVE Goal
  <2> DEFINE w == NewWrite("create", d, <<Account[b]>>, Account[b])
  <2>0. Account[b] \in Users /\ <<Account[b]>> \in Seq(Users)
    BY AccountAssumption
  <2>1. w \in Write
    BY <2>0, NewWriteType DEF Ops
  <2>2. Enqueue(b, w)
    BY <1>2 DEF CreateASusu
  <2>3. Fresh(b, w)
    BY <1>2 DEF Fresh, NewWrite
  <2> HIDE DEF w
  <2> QED  BY <2>1, <2>2, <2>3, <1>e
<1>3. ASSUME NEW b \in Devices, NEW d \in SuShares, ReportPressed(b, d) PROVE Goal
  <2> DEFINE w == NewWrite("flag", d, <<>>, Account[b])
  <2>1. w \in Write
    BY AccountAssumption, EmptyList, NewWriteType DEF Ops
  <2>2. Enqueue(b, w)
    BY <1>3 DEF ReportPressed
  <2>3. Fresh(b, w)
    BY DEF Fresh, NewWrite
  <2> HIDE DEF w
  <2> QED  BY <2>1, <2>2, <2>3, <1>e
<1>4. ASSUME NEW b \in Devices, JoinSushareButtonPressed(b) PROVE Goal
  <2> DEFINE s == detail[b]
             w == NewWrite("join", s.id, JoinedList(s, Account[b]), s.userId)
  <2>1. s \in Screen
    BY <1>4 DEF JoinSushareButtonPressed, TypeOK, NoScreen
  <2>2. JoinedList(s, Account[b]) \in Seq(Users) /\ s.id \in SuShares /\ s.userId \in Users
    BY <2>1, AccountAssumption, AppendProperties DEF Screen, JoinedList
  <2>3. w \in Write
    BY <2>2, NewWriteType DEF Ops
  <2>4. Enqueue(b, w)
    BY <1>4 DEF JoinSushareButtonPressed
  <2>5. Fresh(b, w)
    BY <1>4 DEF Fresh, NewWrite
  <2> HIDE DEF w
  <2> QED  BY <2>3, <2>4, <2>5, <1>e
<1>5. ASSUME NEW b \in Devices, FavoriteButtonPressed(b) PROVE Goal
  <2> DEFINE s == detail[b]
             w == NewWrite("favorite", s.id, s.users, Account[b])
             x == NewWrite("unfavorite", s.id, <<>>, Account[b])
  <2>1. s \in Screen /\ s.open
    BY <1>5 DEF FavoriteButtonPressed, TypeOK, NoScreen
  <2>2. w \in Write /\ x \in Write
    BY <2>1, AccountAssumption, EmptyList, NewWriteType DEF Ops, Screen
  <2>3. Enqueue(b, w) \/ Enqueue(b, x)
    BY <1>5 DEF FavoriteButtonPressed
  <2>4. Fresh(b, w) /\ Fresh(b, x)
    BY <2>1 DEF Fresh, NewWrite
  <2> HIDE DEF w, x
  <2> QED  BY <2>2, <2>3, <2>4, <1>e
<1>6. ASSUME NEW b \in Devices, JoinSucceeded(b) \/ WriteSucceeded(b) PROVE Goal
  <2>1. queue[b] # <<>> /\ Dequeue(b)
    BY <1>6, AnsweredQueued DEF Answers, JoinSucceeded, WriteSucceeded
  <2> QED  BY <2>1, <1>d
<1>12. ASSUME NEW b \in Devices, Store(b) PROVE Goal
  <2>1. CASE StoreNotice(b)
    <3>1. CASE c = b
      BY <2>1, <3>1, StoreNoticeMoves DEF Goal
    <3>2. CASE c # b
      <4>1. queue'[c] = queue[c]
        BY <2>1, <3>2 DEF StoreNotice, TypeOK
      <4> QED  BY <1>0, <4>1 DEF Goal
    <3> QED  BY <3>1, <3>2
  <2>2. CASE ~StoreNotice(b)
    <3>1. UNCHANGED queue
      BY <1>12, <2>2 DEF Store, StoreCreate, StoreJoin, StoreFlag, StoreRecord,
                         StoreFavorite, StoreUnfavorite
    <3> QED  BY <1>u, <3>1 DEF Goal
  <2> QED  BY <2>1, <2>2
<1>7. ASSUME NEW b \in Devices, FlagSucceeded(b) PROVE Goal
  <2> DEFINE h == Head(queue[b])
             w == NewWrite("record", h.doc, <<>>, h.to)
  <2>1. queue[b] # <<>> /\ queue[b] \in Seq(Write)
    BY <1>7, AnsweredQueued DEF FlagSucceeded, Answers, TypeOK
  <2>2. h \in Write
    BY <2>1, HeadType
  <2>3. w \in Write
    BY <2>2, EmptyList, NewWriteType DEF Ops, Write
  <2>4. Fresh(b, w)
    BY <1>7 DEF Fresh, NewWrite
  <2>5. queue'[b] = IF h.live THEN Append(Tail(queue[b]), w) ELSE Tail(queue[b])
    BY <1>7 DEF FlagSucceeded, TypeOK
  <2>6. c # b => queue'[c] = queue[c]
    BY <1>7 DEF FlagSucceeded, TypeOK
  <2>7. /\ Moves(b, queue[b], Tail(queue[b]), 1)
        /\ Moves(b, queue[b], Append(Tail(queue[b]), w), 1)
    BY <2>1, <2>3, <2>4, TailMoves, TailAppendMoves
  <2> HIDE DEF w, h
  <2>8. Moves(b, queue[b], queue'[b], 1)
    BY <2>5, <2>7
  <2> QED  BY <1>0, <2>6, <2>8 DEF Goal
<1>8. ASSUME NEW b \in Devices, Fetched(b) PROVE Goal
  <2>1. PICK d \in SuShares, v \in Users :
          GetCurrentUserSucceeds(b, d, v) \/ GetCurrentUserFails(b, d, v)
    BY <1>8 DEF Fetched
  <2>2. CASE GetCurrentUserSucceeds(b, d, v)
    <3> DEFINE w == NewWrite("notice", d, <<>>, v)
    <3>1. w \in Write
      BY EmptyList, NewWriteType DEF Ops
    <3>2. Enqueue(b, w)
      BY <2>2 DEF GetCurrentUserSucceeds
    <3>3. Fresh(b, w)
      BY <2>2 DEF Fresh, NewWrite, GetCurrentUserSucceeds
    <3> HIDE DEF w
    <3> QED  BY <3>1, <3>2, <3>3, <1>e
  <2>3. CASE GetCurrentUserFails(b, d, v)
    BY <2>3, <1>u DEF GetCurrentUserFails, Goal
  <2> QED  BY <2>1, <2>2, <2>3
<1>9. ASSUME NEW b \in Devices, Reject(b) PROVE Goal
  BY <1>9, <1>d DEF Reject
<1>10. ASSUME NEW b \in Devices, Kill(b) PROVE Goal
  <2>1. CASE c = b
    BY <1>10, <2>1, KillMoves DEF Goal
  <2>2. CASE c # b
    BY <1>0, <1>10, <2>2 DEF Kill, TypeOK, Goal
  <2> QED  BY <2>1, <2>2
<1>11. ASSUME NEW b \in Devices,
              \/ DeliverSnapshot(b) \/ Disconnect(b)
              \/ \E d \in SuShares : \/ OpenDetail(b, d) \/ OpenCreated(b, d)
                                    \/ \E v \in Users : OpenFavorite(b, v, d)
       PROVE  Goal
  BY <1>11, <1>u DEF DeliverSnapshot, Disconnect, OpenDetail, OpenCreated, OpenFavorite, Goal
<1> QED
  BY <1>1, <1>2, <1>3, <1>4, <1>5, <1>6, <1>7, <1>8, <1>9, <1>10, <1>11, <1>12
     DEF Next, User, Succeed, Goal

\* So every write in a queue was there before or is fresh.
LEMMA WriteOrigin ==
  ASSUME TypeOK, [Next]_vars, NEW c \in Devices, NEW w \in Range(queue'[c])
  PROVE  \/ \E x \in Range(queue[c]) : Same(w, x)
         \/ Fresh(c, w)
<1>1. PICK k \in {0, 1} : Moves(c, queue[c], queue'[c], k)
  BY QueueStep
<1>2. PICK i \in DOMAIN queue'[c] : w = queue'[c][i]
  BY DEF Range
<1> QED  BY <1>1, <1>2 DEF Moves, Range

-------------------------------------------------------------------------------
(* The lists that are composed. *)

LEMMA OccurrencesFinite ==
  ASSUME NEW l \in Seq(Users), NEW u
  PROVE  IsFiniteSet(Occurrences(l, u)) /\ Cardinality(Occurrences(l, u)) \in Nat
<1>1. Occurrences(l, u) \subseteq 1..Len(l) /\ Len(l) \in Nat
  BY LenProperties DEF Occurrences
<1>2. IsFiniteSet(1..Len(l))
  BY <1>1, FS_Interval
<1> QED  BY <1>1, <1>2, FS_Subset, FS_CardinalityType

\* Appending a user keeps the head and adds one occurrence, of that user.
LEMMA AppendFacts ==
  ASSUME NEW l \in Seq(Users), l # <<>>, NEW u \in Users, NEW v \in Users
  PROVE  LET m == Append(l, u)
         IN  /\ m \in Seq(Users)
             /\ m # <<>>
             /\ Head(m) = Head(l)
             /\ \A i \in DOMAIN m : m[i] = u \/ (i \in DOMAIN l /\ m[i] = l[i])
             /\ Cardinality(Occurrences(m, v))
                  = Cardinality(Occurrences(l, v)) + (IF v = u THEN 1 ELSE 0)
<1> DEFINE m == Append(l, u)
<1>1. /\ m \in Seq(Users)
      /\ Len(m) = Len(l) + 1
      /\ \A i \in 1..Len(l) : m[i] = l[i]
      /\ m[Len(l) + 1] = u
  BY AppendProperties
<1>2. DOMAIN m = 1..(Len(l) + 1) /\ DOMAIN l = 1..Len(l) /\ Len(l) \in Nat /\ Len(l) # 0
  BY <1>1, LenProperties, EmptySeq
<1>3. Head(m) = m[1] /\ Head(l) = l[1]
  OBVIOUS
<1> HIDE DEF m
<1>4. m # <<>> /\ Head(m) = Head(l)
  BY <1>1, <1>2, <1>3
<1>5. ASSUME NEW i \in DOMAIN m
      PROVE  m[i] = u \/ (i \in DOMAIN l /\ m[i] = l[i])
  <2>1. i \in 1..Len(l) \/ i = Len(l) + 1
    BY <1>2
  <2> QED  BY <1>1, <1>2, <2>1
<1>6. Cardinality(Occurrences(m, v))
        = Cardinality(Occurrences(l, v)) + (IF v = u THEN 1 ELSE 0)
  <2>1. CASE v = u
    <3>1. Occurrences(m, v) = Occurrences(l, v) \cup {Len(l) + 1}
      BY <1>1, <1>2, <2>1 DEF Occurrences
    <3>2. Len(l) + 1 \notin Occurrences(l, v)
      BY <1>2 DEF Occurrences
    <3> QED  BY <2>1, <3>1, <3>2, OccurrencesFinite, FS_AddElement
  <2>2. CASE v # u
    <3>1. Occurrences(m, v) = Occurrences(l, v)
      BY <1>1, <1>2, <2>2 DEF Occurrences
    <3> QED  BY <2>2, <3>1, OccurrencesFinite
  <2> QED  BY <2>1, <2>2
<1> QED  BY <1>1, <1>4, <1>5, <1>6 DEF m

\* A new list of one member.
LEMMA FoundingFacts ==
  ASSUME NEW u \in Users, NEW v \in Users
  PROVE  /\ <<u>> \in Seq(Users)
         /\ <<u>> # <<>>
         /\ Head(<<u>>) = u
         /\ \A i \in DOMAIN <<u>> : <<u>>[i] = u
         /\ Cardinality(Occurrences(<<u>>, v)) = IF v = u THEN 1 ELSE 0
<1>1. DOMAIN <<u>> = {1} /\ <<u>>[1] = u
  OBVIOUS
<1>2. v = u => Occurrences(<<u>>, v) = {1}
  BY <1>1 DEF Occurrences
<1>3. v # u => Occurrences(<<u>>, v) = {}
  BY <1>1 DEF Occurrences
<1>4. Cardinality(Occurrences(<<u>>, v)) = IF v = u THEN 1 ELSE 0
  BY <1>2, <1>3, FS_EmptySet, FS_Singleton
<1> QED  BY <1>1, <1>4

\* Taps are only added.
LEMMA TapsGrow ==
  ASSUME TypeOK, [Next]_vars, NEW t \in Taps, NEW d \in SuShares, NEW u \in Users
  PROVE  taps'[t][d][u] \in Nat /\ taps[t][d][u] \in Nat /\ taps'[t][d][u] >= taps[t][d][u]
<1>1. taps'[t][d][u] \in Nat /\ taps[t][d][u] \in Nat
  BY StepType DEF TypeOK
<1>2. ASSUME NEW s \in Taps, NEW e \in SuShares, NEW v \in Users, Tap(s, e, v)
      PROVE  taps'[t][d][u] >= taps[t][d][u]
  <2>1. taps' = [taps EXCEPT ![s][e][v] = taps[s][e][v] + 1]
    BY <1>2 DEF Tap
  <2>2. taps \in [Taps -> [SuShares -> [Users -> Nat]]]
    BY DEF TypeOK
  <2> DEFINE n == taps[s][e][v] + 1
  <2>3. n >= taps[s][e][v]
    BY <2>2
  <2> HIDE DEF n
  <2>4. taps'[t][d][u] = IF t = s /\ d = e /\ u = v THEN n ELSE taps[t][d][u]
    BY <2>1, <2>2 DEF n
  <2> QED  BY <1>1, <2>3, <2>4
<1>3. ASSUME taps' = taps PROVE taps'[t][d][u] >= taps[t][d][u]
  BY <1>1, <1>3
<1>4. taps' = taps \/ \E s \in Taps, e \in SuShares, v \in Users : Tap(s, e, v)
  <2>1. CASE UNCHANGED vars
    BY <2>1 DEF vars
  <2>2. ASSUME NEW c \in Devices,
               DeliverSnapshot(c) \/ Store(c) \/ Succeed(c) \/ Fetched(c) \/ Reject(c)
               \/ Disconnect(c) \/ Kill(c)
        PROVE  taps' = taps
    BY <2>2 DEF historyVars, DeliverSnapshot, Store, StoreCreate, StoreJoin, StoreNotice, StoreFlag, StoreRecord,
                StoreFavorite, StoreUnfavorite, Applies, Succeed, JoinSucceeded,
                FlagSucceeded, WriteSucceeded, Answers, Disconnect, Fetched,
                GetCurrentUserSucceeds, GetCurrentUserFails, Reject, Kill
  <2>3. ASSUME NEW c \in Devices, User(c)
        PROVE  taps' = taps \/ \E s \in Taps, e \in SuShares, v \in Users : Tap(s, e, v)
    <3>1. Account[c] \in Users
      BY AccountAssumption
    <3>2. detail[c].open => detail[c].id \in SuShares
      <4>1. detail[c] \in Screen \/ detail[c] = NoScreen
        BY DEF TypeOK
      <4>2. NoScreen.open = FALSE
        BY DEF NoScreen
      <4>3. detail[c] \in Screen => detail[c].id \in SuShares
        BY DEF Screen
      <4> QED  BY <4>1, <4>2, <4>3
    <3> QED  BY <2>3, <3>1, <3>2 DEF User, CreateASusu, OpenDetail, OpenCreated, OpenFavorite,
                ReportPressed, JoinSushareButtonPressed, FavoriteButtonPressed, Taps
  <2> QED  BY <2>1, <2>2, <2>3 DEF Next
<1> QED  BY <1>1, <1>2, <1>3, <1>4

\* A step composes at most one list: that of a new SuShare or that of a join.
LEMMA ProposalStep ==
  ASSUME TypeOK, [Next]_vars, NEW d \in SuShares
  PROVE  /\ proposed[d] \subseteq proposed'[d]
         /\ \/ proposed'[d] = proposed[d]
            \/ \E c \in Devices : /\ CreateASusu(c, d)
                                  /\ proposed'[d] = {<<Account[c]>>}
                                  /\ proposed[d] = {}
            \/ \E c \in Devices : /\ JoinSushareButtonPressed(c)
                                  /\ detail[c].id = d
                                  /\ proposed'[d] = proposed[d] \cup
                                                     {JoinedList(detail[c], Account[c])}
<1>1. CASE proposed' = proposed
  BY <1>1
<1>2. ASSUME NEW c \in Devices, NEW e \in SuShares, CreateASusu(c, e)
      PROVE  \/ proposed'[d] = proposed[d]
             \/ CreateASusu(c, d) /\ proposed'[d] = {<<Account[c]>>} /\ proposed[d] = {}
  BY <1>2 DEF CreateASusu, TypeOK
<1>3. ASSUME NEW c \in Devices, JoinSushareButtonPressed(c)
      PROVE  \/ proposed'[d] = proposed[d]
             \/ /\ detail[c].id = d
                /\ proposed'[d] = proposed[d] \cup {JoinedList(detail[c], Account[c])}
  BY <1>3 DEF JoinSushareButtonPressed, TypeOK
<1>4. \/ proposed' = proposed
      \/ \E c \in Devices, e \in SuShares : CreateASusu(c, e)
      \/ \E c \in Devices : JoinSushareButtonPressed(c)
  <2>1. CASE UNCHANGED vars
    BY <2>1 DEF vars
  <2>2. ASSUME NEW c \in Devices,
               DeliverSnapshot(c) \/ Store(c) \/ Succeed(c) \/ Fetched(c) \/ Reject(c)
               \/ Disconnect(c) \/ Kill(c)
        PROVE  proposed' = proposed
    BY <2>2 DEF historyVars, DeliverSnapshot, Store, StoreCreate, StoreJoin, StoreNotice, StoreFlag, StoreRecord,
                StoreFavorite, StoreUnfavorite, Applies, Succeed, JoinSucceeded,
                FlagSucceeded, WriteSucceeded, Answers, Disconnect, Fetched,
                GetCurrentUserSucceeds, GetCurrentUserFails, Reject, Kill
  <2>3. ASSUME NEW c \in Devices, User(c)
        PROVE  \/ proposed' = proposed
               \/ \E e \in SuShares : CreateASusu(c, e)
               \/ JoinSushareButtonPressed(c)
    BY <2>3 DEF User, OpenDetail, OpenCreated, OpenFavorite, ReportPressed,
                FavoriteButtonPressed
  <2> QED  BY <2>1, <2>2, <2>3 DEF Next
<1> QED  BY <1>1, <1>2, <1>3, <1>4

\* Every open screen shows a list of users for a SuShare.
LEMMA ScreenFacts ==
  ASSUME TypeOK, NEW c \in Devices, detail[c].open
  PROVE  /\ detail[c] \in Screen
         /\ detail[c].id \in SuShares
         /\ detail[c].users \in Seq(Users)
         /\ Account[c] \in Users
<1>1. detail[c] \in Screen
  BY DEF TypeOK, NoScreen
<1> QED  BY <1>1, AccountAssumption DEF Screen

LEMMA ProposalsGrowStep ==
  ASSUME TypeOK, ProposalsGrow, ScreensWereOpened, CopiesAreProposals, [Next]_vars
  PROVE  ProposalsGrow'
<1> SUFFICES ASSUME NEW d \in SuShares, NEW l \in proposed'[d]
             PROVE  /\ l # <<>>
                    /\ \A m \in proposed'[d] : Head(m) = Head(l)
                    /\ \A i \in DOMAIN l : l[i] = Head(l) \/ taps'["join"][d][l[i]] > 0
                    /\ \A u \in Users : Cardinality(Occurrences(l, u)) <= Allowed(d, u, l)'
  BY DEF ProposalsGrow
<1> DEFINE Room(m, u) == Cardinality(Occurrences(m, u))
                           <= taps'["open"][d][u] + (IF u = Head(m) THEN 1 ELSE 0)
           Joiners(m) == \A i \in DOMAIN m : m[i] = Head(m) \/ taps'["join"][d][m[i]] > 0
<1>1. \A u \in Users :
        /\ taps'["open"][d][u] \in Nat /\ taps["open"][d][u] \in Nat
        /\ taps'["open"][d][u] >= taps["open"][d][u]
        /\ taps'["join"][d][u] \in Nat /\ taps["join"][d][u] \in Nat
        /\ taps'["join"][d][u] >= taps["join"][d][u]
  BY TapsGrow DEF Taps
<1>2. ASSUME NEW m \in proposed[d]
      PROVE  /\ m \in Seq(Users) /\ m # <<>> /\ Joiners(m)
             /\ \A u \in Users : Room(m, u)
             /\ \A k \in proposed[d] : Head(k) = Head(m)
  <2>1. m \in Seq(Users)
    BY DEF TypeOK
  <2>2. \A i \in DOMAIN m : m[i] \in Users
    BY <2>1, ElementOfSeq, LenProperties
  <2>3. \A u \in Users : Room(m, u)
    <3> SUFFICES ASSUME NEW u \in Users PROVE Room(m, u)
      OBVIOUS
    <3>1. Cardinality(Occurrences(m, u)) <= Allowed(d, u, m)
      BY DEF ProposalsGrow
    <3>2. Cardinality(Occurrences(m, u)) \in Nat
      BY <2>1, OccurrencesFinite
    <3> QED  BY <1>1, <3>1, <3>2 DEF Allowed
  <2>4. Joiners(m)
    BY <1>1, <2>2 DEF ProposalsGrow
  <2> QED  BY <2>1, <2>3, <2>4 DEF ProposalsGrow
<1>3. ASSUME proposed'[d] = proposed[d]
      PROVE  l # <<>> /\ (\A m \in proposed'[d] : Head(m) = Head(l)) /\ Joiners(l)
             /\ \A u \in Users : Room(l, u)
  <2>1. l \in proposed[d]
    BY <1>3
  <2> QED  BY <1>2, <1>3, <2>1
<1>4. ASSUME NEW c \in Devices, proposed'[d] = {<<Account[c]>>}
      PROVE  l # <<>> /\ (\A m \in proposed'[d] : Head(m) = Head(l)) /\ Joiners(l)
             /\ \A u \in Users : Room(l, u)
  <2>1. l = <<Account[c]>> /\ Account[c] \in Users
    BY <1>4, AccountAssumption
  <2>2. l # <<>> /\ Head(l) = Account[c] /\ Joiners(l)
    BY <2>1, FoundingFacts
  <2>3. \A u \in Users : Room(l, u)
    BY <1>1, <2>1, <2>2, FoundingFacts
  <2> QED  BY <1>4, <2>1, <2>2, <2>3
<1>5. ASSUME NEW c \in Devices, JoinSushareButtonPressed(c), detail[c].id = d,
             proposed'[d] = proposed[d] \cup {JoinedList(detail[c], Account[c])}
      PROVE  l # <<>> /\ (\A m \in proposed'[d] : Head(m) = Head(l)) /\ Joiners(l)
             /\ \A u \in Users : Room(l, u)
  <2> DEFINE old == detail[c].users
             u   == Account[c]
             new == Append(old, u)
  <2>1. detail[c].open /\ Tap("join", d, u)
    BY <1>5 DEF JoinSushareButtonPressed
  <2>2. old \in Seq(Users) /\ u \in Users
    BY <2>1, ScreenFacts
  <2>3. old \in proposed[d]
    BY <1>5, <2>1 DEF CopiesAreProposals
  <2>4. Cardinality(Occurrences(old, u)) + 1 <= Allowed(d, u, old)
    BY <1>5, <2>1 DEF ScreensWereOpened
  <2>5. taps'["join"][d][u] > 0
    <3>1. taps'["join"][d][u] = taps["join"][d][u] + 1
      BY <2>1, <2>2 DEF Tap, TypeOK, Taps
    <3> QED  BY <1>1, <2>2, <3>1
  <2>6. /\ new # <<>> /\ Head(new) = Head(old)
        /\ \A i \in DOMAIN new : new[i] = u \/ (i \in DOMAIN old /\ new[i] = old[i])
        /\ \A v \in Users : Cardinality(Occurrences(new, v))
                              = Cardinality(Occurrences(old, v)) + (IF v = u THEN 1 ELSE 0)
    BY <1>2, <2>2, <2>3, AppendFacts
  <2> HIDE DEF new
  <2>7. Joiners(new)
    BY <1>2, <2>3, <2>5, <2>6
  <2>8. \A v \in Users : Room(new, v)
    <3> SUFFICES ASSUME NEW v \in Users PROVE Room(new, v)
      OBVIOUS
    <3>1. Cardinality(Occurrences(old, v)) \in Nat
      BY <2>2, OccurrencesFinite
    <3>2. CASE v = u
      <4>1. Cardinality(Occurrences(new, v)) = Cardinality(Occurrences(old, v)) + 1
        BY <2>6, <3>2
      <4> QED  BY <1>1, <2>4, <2>6, <3>1, <3>2, <4>1 DEF Allowed
    <3>3. CASE v # u
      <4>1. Cardinality(Occurrences(new, v)) = Cardinality(Occurrences(old, v))
        BY <2>6, <3>1, <3>3
      <4>2. Room(old, v)
        BY <1>2, <2>3
      <4> QED  BY <2>6, <4>1, <4>2
    <3> QED  BY <3>2, <3>3
  <2>9. \A m \in proposed'[d] : Head(m) = Head(old)
    <3>1. \A m \in proposed[d] : Head(m) = Head(old)
      BY <1>2, <2>3
    <3> QED  BY <1>5, <2>6, <3>1 DEF JoinedList, new
  <2>10. l \in proposed[d] \/ l = new
    BY <1>5 DEF JoinedList, new
  <2> QED  BY <1>2, <2>6, <2>7, <2>8, <2>9, <2>10
<1> HIDE DEF Room, Joiners
<1>6. l # <<>> /\ (\A m \in proposed'[d] : Head(m) = Head(l)) /\ Joiners(l)
      /\ \A u \in Users : Room(l, u)
  BY <1>2, <1>3, <1>4, <1>5, ProposalStep
<1> QED  BY <1>6 DEF Room, Joiners, Allowed

\* What a device sees of a document, its own writes included, is a proposal.
LEMMA OverlayIsProposal ==
  ASSUME TypeOK, CopiesAreProposals, NEW c \in Devices, NEW d \in SuShares, Overlay(c, d).there
  PROVE  Overlay(c, d).users \in proposed[d]
<1> DEFINE lists == Pending(c, d, {"create", "join"})
<1>1. queue[c] \in Seq(Write) /\ DOMAIN queue[c] = 1..Len(queue[c]) /\ Len(queue[c]) \in Nat
  BY LenProperties DEF TypeOK
<1>2. lists \in SUBSET (1..Len(queue[c]))
  BY <1>1 DEF Pending
<1>3. Pending(c, d, {"create"}) # {} => lists # {}
  BY DEF Pending
<1>4. server[d].there \/ Pending(c, d, {"create"}) # {}
  BY DEF Overlay, NoDoc
<1>5. CASE lists # {}
  <2> DEFINE i == Max(lists)
             w == queue[c][i]
  <2>1. i \in lists
    BY <1>1, <1>2, <1>5, MaxIsMember
  <2> HIDE DEF i
  <2>2. w.op \in {"create", "join"} /\ w.doc = d /\ w \in Range(queue[c])
    BY <2>1 DEF Pending, Range
  <2>3. w.users \in proposed[d]
    BY <2>2 DEF CopiesAreProposals, Listing
  <2>4. Overlay(c, d).users = w.users
    BY <1>4, <1>5 DEF Overlay, i
  <2> QED  BY <2>3, <2>4
<1>6. CASE lists = {}
  <2>1. server[d].there /\ Overlay(c, d).users = server[d].users
    BY <1>3, <1>4, <1>6 DEF Overlay
  <2> QED  BY <2>1 DEF CopiesAreProposals
<1> QED  BY <1>5, <1>6

LEMMA FavoritesAreProposals ==
  ASSUME CopiesAreProposals, NEW c \in Devices, NEW v \in Users, NEW d \in SuShares
  PROVE  FavoritesSeen(c, v, d) \subseteq proposed[d]
<1>1. favorites[v][d] \subseteq proposed[d]
  BY DEF CopiesAreProposals
<1>2. ASSUME NEW i \in Pending(c, d, {"favorite"}) PROVE queue[c][i].users \in proposed[d]
  <2>1. queue[c][i] \in Range(queue[c]) /\ queue[c][i].op = "favorite" /\ queue[c][i].doc = d
    BY DEF Pending, Range
  <2> QED  BY <2>1 DEF CopiesAreProposals, Listing
<1> QED  BY <1>1, <1>2 DEF FavoritesSeen

\* An open screen was open before, unchanged, or is opened by this step's tap,
\* with a proposal.
LEMMA ScreenStep ==
  ASSUME TypeOK, CopiesAreProposals, [Next]_vars, NEW c \in Devices, detail'[c].open
  PROVE  \/ detail'[c] = detail[c]
         \/ /\ detail'[c].id \in SuShares
            /\ Tap("open", detail'[c].id, Account[c])
            /\ detail'[c].users \in proposed[detail'[c].id]
<1> DEFINE Opened(d, v, users) ==
             detail' = [detail EXCEPT ![c] = [open |-> TRUE, id |-> d, userId |-> v,
                                              users |-> users]]
<1>1. ASSUME NEW d \in SuShares, NEW v, NEW users \in proposed[d], Opened(d, v, users)
      PROVE  detail'[c].id = d /\ detail'[c].users \in proposed[d]
  BY <1>1 DEF TypeOK
<1>2. ASSUME NEW d \in SuShares, OpenDetail(c, d)
      PROVE  detail'[c].id = d /\ detail'[c].users \in proposed[d] /\ Tap("open", d, Account[c])
  <2>1. list[c][d].users \in proposed[d]
    BY <1>2 DEF OpenDetail, CopiesAreProposals
  <2>2. Opened(d, list[c][d].userId, list[c][d].users)
    BY <1>2 DEF OpenDetail
  <2>3. detail'[c].id = d /\ detail'[c].users \in proposed[d]
    BY <1>1, <2>1, <2>2
  <2> QED  BY <1>2, <2>3 DEF OpenDetail
<1>3. ASSUME NEW d \in SuShares, OpenCreated(c, d)
      PROVE  detail'[c].id = d /\ detail'[c].users \in proposed[d] /\ Tap("open", d, Account[c])
  <2>1. Overlay(c, d).users \in proposed[d]
    BY <1>3, OverlayIsProposal DEF OpenCreated
  <2> QED  BY <1>1, <1>3, <2>1 DEF OpenCreated
<1>4. ASSUME NEW d \in SuShares, NEW v \in Users, OpenFavorite(c, v, d)
      PROVE  detail'[c].id = d /\ detail'[c].users \in proposed[d] /\ Tap("open", d, Account[c])
  <2>1. PICK users \in FavoritesSeen(c, v, d) : Opened(d, v, users)
    BY <1>4 DEF OpenFavorite
  <2>2. users \in proposed[d]
    BY FavoritesAreProposals
  <2> QED  BY <1>1, <1>4, <2>1, <2>2 DEF OpenFavorite
<1>5. ASSUME NEW b \in Devices,
             \/ Kill(b)
             \/ b # c /\ \E d \in SuShares :
                           \/ OpenDetail(b, d) \/ OpenCreated(b, d)
                           \/ \E v \in Users : OpenFavorite(b, v, d)
      PROVE  detail'[c] = detail[c] \/ detail'[c] = NoScreen
  BY <1>5 DEF Kill, OpenDetail, OpenCreated, OpenFavorite, TypeOK
<1>6. NoScreen.open = FALSE
  BY DEF NoScreen
<1>7. \/ detail' = detail
      \/ \E b \in Devices :
           \/ Kill(b)
           \/ \E d \in SuShares : \/ OpenDetail(b, d) \/ OpenCreated(b, d)
                                 \/ \E v \in Users : OpenFavorite(b, v, d)
  <2>1. CASE UNCHANGED vars
    BY <2>1 DEF vars
  <2>2. ASSUME NEW b \in Devices, DeliverSnapshot(b) \/ Store(b) \/ Succeed(b) \/ Fetched(b) \/ Reject(b)
               \/ Disconnect(b)
        PROVE  detail' = detail
    BY <2>2 DEF DeliverSnapshot, Store, StoreCreate, StoreJoin, StoreNotice, StoreFlag, StoreRecord,
                StoreFavorite, StoreUnfavorite, Applies, Succeed, JoinSucceeded,
                FlagSucceeded, WriteSucceeded, Answers, Disconnect, Fetched,
                GetCurrentUserSucceeds, GetCurrentUserFails, Reject
  <2>3. ASSUME NEW b \in Devices, User(b)
        PROVE  \/ detail' = detail
               \/ \E d \in SuShares : \/ OpenDetail(b, d) \/ OpenCreated(b, d)
                                     \/ \E v \in Users : OpenFavorite(b, v, d)
    BY <2>3 DEF User, CreateASusu, ReportPressed, JoinSushareButtonPressed,
                FavoriteButtonPressed
  <2> QED  BY <2>1, <2>2, <2>3 DEF Next
<1> HIDE DEF Opened
<1> QED  BY <1>2, <1>3, <1>4, <1>5, <1>6, <1>7

LEMMA ScreensWereOpenedStep ==
  ASSUME TypeOK, ProposalsGrow, ScreensWereOpened, CopiesAreProposals, [Next]_vars
  PROVE  ScreensWereOpened'
<1> SUFFICES ASSUME NEW c \in Devices, detail'[c].open
             PROVE  Cardinality(Occurrences(detail'[c].users, Account[c])) + 1
                      <= taps'["open"][detail'[c].id][Account[c]]
                         + (IF Account[c] = Head(detail'[c].users) THEN 1 ELSE 0)
  BY DEF ScreensWereOpened, Allowed
<1> DEFINE u == Account[c]
<1>1. CASE detail'[c] = detail[c]
  <2>1. detail[c].id \in SuShares /\ detail[c].users \in Seq(Users) /\ u \in Users
    BY <1>1, ScreenFacts
  <2>2. Cardinality(Occurrences(detail[c].users, u)) \in Nat
    BY <2>1, OccurrencesFinite
  <2>3. /\ taps'["open"][detail[c].id][u] \in Nat /\ taps["open"][detail[c].id][u] \in Nat
        /\ taps'["open"][detail[c].id][u] >= taps["open"][detail[c].id][u]
    BY <2>1, TapsGrow DEF Taps
  <2>4. Cardinality(Occurrences(detail[c].users, u)) + 1
          <= taps["open"][detail[c].id][u] + (IF u = Head(detail[c].users) THEN 1 ELSE 0)
    BY <1>1 DEF ScreensWereOpened, Allowed
  <2> QED  BY <1>1, <2>2, <2>3, <2>4
<1>2. ASSUME NEW d \in SuShares, d = detail'[c].id, Tap("open", d, u),
             detail'[c].users \in proposed[d]
      PROVE  Cardinality(Occurrences(detail'[c].users, u)) + 1
               <= taps'["open"][d][u] + (IF u = Head(detail'[c].users) THEN 1 ELSE 0)
  <2> DEFINE l == detail'[c].users
  <2>1. u \in Users /\ l \in Seq(Users)
    BY <1>2, AccountAssumption DEF TypeOK
  <2>2. Cardinality(Occurrences(l, u)) \in Nat
    BY <2>1, OccurrencesFinite
  <2>3. taps["open"][d][u] \in Nat /\ taps'["open"][d][u] = taps["open"][d][u] + 1
    BY <1>2, <2>1 DEF Tap, TypeOK, Taps
  <2>4. Cardinality(Occurrences(l, u)) <= taps["open"][d][u] + (IF u = Head(l) THEN 1 ELSE 0)
    BY <1>2, <2>1 DEF ProposalsGrow, Allowed
  <2> QED  BY <2>2, <2>3, <2>4
<1> QED  BY <1>1, <1>2, ScreenStep

-------------------------------------------------------------------------------
(* How a step changes the server's documents. *)

\* A document changes by being created, by a join or by a flag.
LEMMA ServerStep ==
  ASSUME TypeOK, [Next]_vars, NEW d \in SuShares
  PROVE  \/ server'[d] = server[d]
         \/ \E b \in Devices :
              LET w == NextWrite(b)
              IN  /\ reached[b] < Len(queue[b])
                  /\ w.doc = d
                  /\ \/ /\ StoreCreate(b) /\ w.op = "create"
                        /\ server'[d] = [there |-> TRUE, userId |-> Account[b],
                                         users |-> w.users, reported |-> FALSE]
                     \/ /\ StoreJoin(b) /\ w.op = "join" /\ server[d].there
                        /\ server'[d] = UpdateUsers(server[d], w.users)
                     \/ /\ StoreFlag(b) /\ w.op = "flag" /\ server[d].there
                        /\ server'[d] = [server[d] EXCEPT !.reported = TRUE]
<1> DEFINE Goal ==
      \/ server'[d] = server[d]
      \/ \E b \in Devices :
           LET w == NextWrite(b)
           IN  /\ reached[b] < Len(queue[b])
               /\ w.doc = d
               /\ \/ /\ StoreCreate(b) /\ w.op = "create"
                     /\ server'[d] = [there |-> TRUE, userId |-> Account[b],
                                      users |-> w.users, reported |-> FALSE]
                  \/ /\ StoreJoin(b) /\ w.op = "join" /\ server[d].there
                     /\ server'[d] = UpdateUsers(server[d], w.users)
                  \/ /\ StoreFlag(b) /\ w.op = "flag" /\ server[d].there
                     /\ server'[d] = [server[d] EXCEPT !.reported = TRUE]
<1>2. ASSUME NEW b \in Devices, StoreCreate(b) PROVE Goal
  <2>1. reached[b] < Len(queue[b]) /\ NextWrite(b).op = "create" /\ NextWrite(b).doc \in SuShares
    BY <1>2, NextFacts DEF StoreCreate, Applies
  <2>2. server'[d] = IF d = NextWrite(b).doc
                     THEN [there |-> TRUE, userId |-> Account[b],
                           users |-> NextWrite(b).users, reported |-> FALSE]
                     ELSE server[d]
    BY <1>2 DEF StoreCreate, TypeOK
  <2> QED  BY <1>2, <2>1, <2>2
<1>3. ASSUME NEW b \in Devices, StoreJoin(b) PROVE Goal
  <2>1. /\ reached[b] < Len(queue[b]) /\ NextWrite(b).op = "join" /\ NextWrite(b).doc \in SuShares
        /\ server[NextWrite(b).doc].there
    BY <1>3, NextFacts DEF StoreJoin, Applies
  <2>2. server'[d] = IF d = NextWrite(b).doc
                     THEN UpdateUsers(server[d], NextWrite(b).users)
                     ELSE server[d]
    BY <1>3 DEF StoreJoin, TypeOK
  <2> QED  BY <1>3, <2>1, <2>2
<1>4. ASSUME NEW b \in Devices, StoreFlag(b) PROVE Goal
  <2>1. /\ reached[b] < Len(queue[b]) /\ NextWrite(b).op = "flag" /\ NextWrite(b).doc \in SuShares
        /\ server[NextWrite(b).doc].there
    BY <1>4, NextFacts DEF StoreFlag, Applies
  <2>2. server'[d] = IF d = NextWrite(b).doc
                     THEN [server[d] EXCEPT !.reported = TRUE]
                     ELSE server[d]
    BY <1>4 DEF StoreFlag, TypeOK
  <2> QED  BY <1>4, <2>1, <2>2
<1>5. server' = server \/ \E b \in Devices : StoreCreate(b) \/ StoreJoin(b) \/ StoreFlag(b)
  <2>1. CASE UNCHANGED vars
    BY <2>1 DEF vars
  <2>2. ASSUME NEW b \in Devices,
               DeliverSnapshot(b) \/ Fetched(b) \/ Reject(b) \/ Kill(b)
               \/ Succeed(b) \/ Disconnect(b)
        PROVE  server' = server
    BY <2>2 DEF serverVars, DeliverSnapshot, Fetched, GetCurrentUserSucceeds,
                GetCurrentUserFails, Reject, Kill, Succeed, JoinSucceeded,
                FlagSucceeded, WriteSucceeded, Disconnect
  <2>3. ASSUME NEW b \in Devices, User(b)
        PROVE  server' = server
    BY <2>3 DEF serverVars, User, CreateASusu, OpenDetail, OpenCreated, OpenFavorite,
                ReportPressed, JoinSushareButtonPressed, FavoriteButtonPressed
  <2>4. ASSUME NEW b \in Devices, Store(b)
        PROVE  server' = server \/ StoreCreate(b) \/ StoreJoin(b) \/ StoreFlag(b)
    BY <2>4 DEF Store, StoreNotice, StoreRecord, StoreFavorite, StoreUnfavorite
  <2> QED  BY <2>1, <2>2, <2>3, <2>4 DEF Next
<1> HIDE DEF Goal
<1>6. Goal
  <2>1. server' = server => Goal
    BY DEF Goal
  <2> QED  BY <1>2, <1>3, <1>4, <1>5, <2>1
<1> QED  BY <1>6 DEF Goal

\* recreated is only added to.
LEMMA RecreatedGrows ==
  ASSUME [Next]_vars
  PROVE  recreated \subseteq recreated'
<1>1. CASE UNCHANGED vars
  BY <1>1 DEF vars
<1>2. ASSUME NEW b \in Devices,
             DeliverSnapshot(b) \/ Fetched(b) \/ Reject(b) \/ Kill(b)
             \/ Succeed(b) \/ Disconnect(b)
      PROVE  recreated' = recreated
  BY <1>2 DEF historyVars, DeliverSnapshot, Fetched, GetCurrentUserSucceeds,
              GetCurrentUserFails, Reject, Kill, Succeed, JoinSucceeded,
              FlagSucceeded, WriteSucceeded, Disconnect
<1>3. ASSUME NEW b \in Devices, User(b)
      PROVE  recreated' = recreated
  BY <1>3 DEF User, CreateASusu, OpenDetail, OpenCreated, OpenFavorite,
              ReportPressed, JoinSushareButtonPressed, FavoriteButtonPressed
<1>4. ASSUME NEW b \in Devices, Store(b), ~StoreCreate(b)
      PROVE  recreated' = recreated
  BY <1>4 DEF historyVars, Store, StoreJoin, StoreNotice, StoreFlag, StoreRecord,
              StoreFavorite, StoreUnfavorite
<1>5. ASSUME NEW b \in Devices, StoreCreate(b)
      PROVE  recreated \subseteq recreated'
  BY <1>5 DEF StoreCreate
<1> QED  BY <1>1, <1>2, <1>3, <1>4, <1>5 DEF Next

\* A document that is stored stays stored, with its creator; it keeps its flag
\* unless it is created again.
LEMMA DocumentKept ==
  ASSUME TypeOK, CreatesAreHome, [Next]_vars, NEW d \in SuShares, server[d].there
  PROVE  /\ server'[d].there
         /\ server'[d].userId = server[d].userId
         /\ \/ server[d].reported => server'[d].reported
            \/ d \in recreated' /\ \E b \in Devices : Pending(b, d, {"create"}) # {}
<1>0. server[d] \in Doc
  BY DEF TypeOK, NoDoc
<1>1. ASSUME NEW b \in Devices, reached[b] < Len(queue[b]), NextWrite(b).doc = d,
             NextWrite(b).op = "create", StoreCreate(b),
             server'[d] = [there |-> TRUE, userId |-> Account[b],
                           users |-> NextWrite(b).users, reported |-> FALSE]
      PROVE  /\ server'[d].there
             /\ server'[d].userId = server[d].userId
             /\ d \in recreated'
             /\ Pending(b, d, {"create"}) # {}
  <2>1. /\ reached[b] + 1 \in DOMAIN queue[b] /\ NextWrite(b) = queue[b][reached[b] + 1]
    BY <1>1, NextFacts
  <2>2. IsCreate(b, reached[b] + 1, d)
    BY <1>1, <2>1 DEF IsCreate
  <2>3. server[d].userId = Account[b]
    BY <2>1, <2>2 DEF CreatesAreHome
  <2>4. d \in recreated'
    BY <1>1 DEF StoreCreate
  <2>5. reached[b] + 1 \in Pending(b, d, {"create"})
    BY <2>1, <2>2 DEF Pending, IsCreate
  <2> QED  BY <1>1, <2>3, <2>4, <2>5
<1>2. ASSUME NEW users, server'[d] = UpdateUsers(server[d], users)
      PROVE  /\ server'[d].there
             /\ server'[d].userId = server[d].userId
             /\ server'[d].reported = server[d].reported
  BY <1>0, <1>2 DEF UpdateUsers, Doc
<1>3. ASSUME server'[d] = [server[d] EXCEPT !.reported = TRUE]
      PROVE  /\ server'[d].there
             /\ server'[d].userId = server[d].userId
             /\ server'[d].reported
  BY <1>0, <1>3 DEF Doc
<1> QED  BY <1>1, <1>2, <1>3, ServerStep

\* So a flag that was set once is set, or lost to a create.
LEMMA FlaggedKept ==
  ASSUME TypeOK, CreatesAreHome, [Next]_vars, NEW d \in SuShares, Flagged(d)
  PROVE  Flagged(d)'
BY DocumentKept, RecreatedGrows DEF Flagged

-------------------------------------------------------------------------------
(* The remaining conjuncts are kept. *)

LEMMA CopiesAreProposalsStep ==
  ASSUME TypeOK, ProposalsGrow, CopiesAreProposals, CreatesAreHome, [Next]_vars
  PROVE  CopiesAreProposals'
<1>0. \A d \in SuShares : proposed[d] \subseteq proposed'[d]
  BY ProposalStep
<1>1. ASSUME NEW d \in SuShares, server'[d].there
      PROVE  server'[d].users \in proposed'[d] /\ server'[d].userId = Head(server'[d].users)
  <2>1. CASE server'[d] = server[d]
    BY <1>0, <1>1, <2>1 DEF CopiesAreProposals
  <2>2. ASSUME NEW b \in Devices, NEW w, w = NextWrite(b), reached[b] < Len(queue[b]),
               w.doc = d, w.op \in {"create", "join"}
        PROVE  w.users \in proposed[d] /\ w.users \in Seq(Users)
    BY <2>2, NextFacts DEF CopiesAreProposals, Listing
  <2>3. ASSUME NEW b \in Devices, NEW w, w = NextWrite(b), reached[b] < Len(queue[b]),
               w.doc = d, w.op = "create",
               server'[d] = [there |-> TRUE, userId |-> Account[b],
                             users |-> w.users, reported |-> FALSE]
        PROVE  server'[d].users \in proposed'[d] /\ server'[d].userId = Head(server'[d].users)
    <3>1. w.users \in proposed[d]
      BY <2>2, <2>3
    <3>2. w.users = <<Account[b]>>
      <4>1. reached[b] + 1 \in DOMAIN queue[b] /\ w = queue[b][reached[b] + 1]
        BY <2>3, NextFacts
      <4>2. IsCreate(b, reached[b] + 1, d)
        BY <2>3, <4>1 DEF IsCreate
      <4> QED  BY <4>1, <4>2 DEF CreatesAreHome
    <3>3. Head(<<Account[b]>>) = Account[b]
      OBVIOUS
    <3> QED  BY <1>0, <2>3, <3>1, <3>2, <3>3
  <2>4. ASSUME NEW b \in Devices, NEW w, w = NextWrite(b), reached[b] < Len(queue[b]),
               w.doc = d, w.op = "join", server[d].there,
               server'[d] = UpdateUsers(server[d], w.users)
        PROVE  server'[d].users \in proposed'[d] /\ server'[d].userId = Head(server'[d].users)
    <3>1. w.users \in proposed[d]
      BY <2>2, <2>4
    <3>2. server[d] \in Doc
      BY <2>4 DEF TypeOK, NoDoc
    <3>3. server'[d].users = w.users /\ server'[d].userId = server[d].userId
      BY <2>4, <3>2 DEF UpdateUsers, Doc
    <3>4. server[d].users \in proposed[d] /\ server[d].userId = Head(server[d].users)
      BY <2>4 DEF CopiesAreProposals
    <3>5. Head(server[d].users) = Head(w.users)
      BY <3>1, <3>4 DEF ProposalsGrow
    <3> QED  BY <1>0, <3>1, <3>3, <3>4, <3>5
  <2>5. ASSUME server[d].there, server'[d] = [server[d] EXCEPT !.reported = TRUE]
        PROVE  server'[d].users \in proposed'[d] /\ server'[d].userId = Head(server'[d].users)
    <3>1. server[d] \in Doc
      BY <2>5 DEF TypeOK, NoDoc
    <3>2. server'[d].users = server[d].users /\ server'[d].userId = server[d].userId
      BY <2>5, <3>1 DEF Doc
    <3> QED  BY <1>0, <2>5, <3>2 DEF CopiesAreProposals
  <2>6. SUFFICES ASSUME server'[d] # server[d]
                 PROVE  server'[d].users \in proposed'[d]
                        /\ server'[d].userId = Head(server'[d].users)
    BY <2>1
  <2>7. PICK b \in Devices :
          /\ reached[b] < Len(queue[b])
          /\ NextWrite(b).doc = d
          /\ \/ /\ NextWrite(b).op = "create"
                /\ server'[d] = [there |-> TRUE, userId |-> Account[b],
                                 users |-> NextWrite(b).users, reported |-> FALSE]
             \/ /\ NextWrite(b).op = "join" /\ server[d].there
                /\ server'[d] = UpdateUsers(server[d], NextWrite(b).users)
             \/ /\ server[d].there
                /\ server'[d] = [server[d] EXCEPT !.reported = TRUE]
    BY <2>6, ServerStep
  <2> QED  BY <2>3, <2>4, <2>5, <2>7
<1>2. ASSUME NEW u \in Users, NEW d \in SuShares
      PROVE  favorites'[u][d] \subseteq proposed'[d]
  <2>0. favorites[u][d] \subseteq proposed[d]
    BY DEF CopiesAreProposals
  <2>1. CASE favorites' = favorites
    BY <1>0, <2>0, <2>1
  <2>2. ASSUME NEW b \in Devices, StoreFavorite(b)
        PROVE  favorites'[u][d] \subseteq proposed'[d]
    <3> DEFINE w == NextWrite(b)
    <3>1. reached[b] < Len(queue[b]) /\ w.op = "favorite"
      BY <2>2 DEF StoreFavorite, Applies
    <3>2. w \in Range(queue[b]) /\ w.doc \in SuShares
      BY <3>1, NextFacts
    <3>3. w.users \in proposed[w.doc]
      BY <3>1, <3>2 DEF CopiesAreProposals, Listing
    <3>4. favorites'[u][d] = favorites[u][d]
          \/ (d = w.doc /\ favorites'[u][d] = favorites[u][d] \cup {w.users})
      BY <2>2 DEF StoreFavorite, TypeOK
    <3> HIDE DEF w
    <3> QED  BY <1>0, <2>0, <3>3, <3>4
  <2>3. ASSUME NEW b \in Devices, StoreUnfavorite(b)
        PROVE  favorites'[u][d] \subseteq proposed'[d]
    <3>1. favorites'[u][d] = favorites[u][d] \/ favorites'[u][d] = {}
      BY <2>3 DEF StoreUnfavorite, TypeOK
    <3> QED  BY <1>0, <2>0, <3>1
  <2>4. favorites' = favorites \/ \E b \in Devices : StoreFavorite(b) \/ StoreUnfavorite(b)
    <3>1. CASE UNCHANGED vars
      BY <3>1 DEF vars
    <3>2. ASSUME NEW b \in Devices, DeliverSnapshot(b) \/ Fetched(b) \/ Reject(b) \/ Kill(b)
               \/ Succeed(b) \/ Disconnect(b)
          PROVE  favorites' = favorites
      BY <3>2 DEF serverVars, DeliverSnapshot, Fetched, GetCurrentUserSucceeds,
                  GetCurrentUserFails, Reject, Kill, Succeed, JoinSucceeded,
                  FlagSucceeded, WriteSucceeded, Disconnect
    <3>3. ASSUME NEW b \in Devices, User(b)
          PROVE  favorites' = favorites
      BY <3>3 DEF serverVars, User, CreateASusu, OpenDetail, OpenCreated, OpenFavorite,
                  ReportPressed, JoinSushareButtonPressed, FavoriteButtonPressed
    <3>4. ASSUME NEW b \in Devices, Store(b)
          PROVE  favorites' = favorites \/ StoreFavorite(b) \/ StoreUnfavorite(b)
      BY <3>4 DEF Store, StoreCreate, StoreJoin, StoreFlag, StoreNotice, StoreRecord
    <3> QED  BY <3>1, <3>2, <3>3, <3>4 DEF Next
  <2> QED  BY <2>1, <2>2, <2>3, <2>4
<1>3. ASSUME NEW c \in Devices, NEW d \in SuShares, list'[c][d].there
      PROVE  list'[c][d].users \in proposed'[d]
  <2>1. CASE list' = list
    BY <1>0, <1>3, <2>1 DEF CopiesAreProposals
  <2>2. ASSUME NEW b \in Devices, DeliverSnapshot(b)
        PROVE  list'[c][d].users \in proposed'[d]
    <3>1. list'[c][d] = IF c = b THEN Overlay(c, d) ELSE list[c][d]
      BY <2>2 DEF DeliverSnapshot, TypeOK
    <3>2. CASE c = b
      BY <1>0, <1>3, <3>1, <3>2, OverlayIsProposal
    <3>3. CASE c # b
      BY <1>0, <1>3, <3>1, <3>3 DEF CopiesAreProposals
    <3> QED  BY <3>2, <3>3
  <2>3. ASSUME NEW b \in Devices, Kill(b)
        PROVE  list'[c][d].users \in proposed'[d]
    <3>1. list'[c][d] = IF c = b THEN NoDoc ELSE list[c][d]
      BY <2>3 DEF Kill, TypeOK
    <3> QED  BY <1>0, <1>3, <3>1 DEF CopiesAreProposals, NoDoc
  <2>4. list' = list \/ \E b \in Devices : DeliverSnapshot(b) \/ Kill(b)
    <3>1. CASE UNCHANGED vars
      BY <3>1 DEF vars
    <3>2. ASSUME NEW b \in Devices, Store(b) \/ Succeed(b) \/ Disconnect(b)
                                   \/ Fetched(b) \/ Reject(b)
          PROVE  list' = list
      BY <3>2 DEF Store, StoreCreate, StoreJoin, StoreNotice, StoreFlag, StoreRecord,
                StoreFavorite, StoreUnfavorite, Applies, Succeed, JoinSucceeded,
                FlagSucceeded, WriteSucceeded, Answers, Disconnect, Fetched, GetCurrentUserSucceeds,
                  GetCurrentUserFails, Reject
    <3>3. ASSUME NEW b \in Devices, User(b)
          PROVE  list' = list
      BY <3>3 DEF User, CreateASusu, OpenDetail, OpenCreated, OpenFavorite,
                  ReportPressed, JoinSushareButtonPressed, FavoriteButtonPressed
    <3> QED  BY <3>1, <3>2, <3>3 DEF Next
  <2> QED  BY <2>1, <2>2, <2>3, <2>4
<1>4. ASSUME NEW c \in Devices, detail'[c].open
      PROVE  detail'[c].users \in proposed'[detail'[c].id]
  <2>1. CASE detail'[c] = detail[c]
    <3>1. detail[c].id \in SuShares
      BY <1>4, <2>1, ScreenFacts
    <3> QED  BY <1>0, <1>4, <2>1, <3>1 DEF CopiesAreProposals
  <2>2. CASE detail'[c].id \in SuShares /\ detail'[c].users \in proposed[detail'[c].id]
    BY <1>0, <2>2
  <2> QED  BY <1>4, <2>1, <2>2, ScreenStep
<1>5. ASSUME NEW c \in Devices, NEW w \in Range(queue'[c]), w.op \in Listing
      PROVE  w.users \in proposed'[w.doc]
  <2>0. w.doc \in SuShares
    <3>1. queue'[c] \in Seq(Write)
      BY StepType DEF TypeOK
    <3>2. w \in Write
      BY <3>1, RangeType
    <3> QED  BY <3>2 DEF Write
  <2>1. ASSUME NEW x \in Range(queue[c]), Same(w, x)
        PROVE  w.users \in proposed'[w.doc]
    BY <1>0, <1>5, <2>0, <2>1 DEF Same, CopiesAreProposals
  <2>2. CASE Fresh(c, w)
    <3>1. CASE w.op = "create"
      <4>1. CreateASusu(c, w.doc) /\ w.users = <<Account[c]>>
        BY <2>2, <3>1 DEF Fresh
      <4> QED  BY <2>0, <4>1 DEF CreateASusu, TypeOK
    <3>2. CASE w.op = "join"
      <4>1. /\ JoinSushareButtonPressed(c) /\ w.doc = detail[c].id
            /\ w.users = JoinedList(detail[c], Account[c])
        BY <2>2, <3>2 DEF Fresh
      <4> QED  BY <2>0, <4>1 DEF JoinSushareButtonPressed, TypeOK
    <3>3. CASE w.op = "favorite"
      <4>1. detail[c].open /\ w.doc = detail[c].id /\ w.users = detail[c].users
        BY <2>2, <3>3 DEF Fresh
      <4> QED  BY <1>0, <2>0, <4>1 DEF CopiesAreProposals
    <3> QED  BY <1>5, <3>1, <3>2, <3>3 DEF Listing
  <2> QED  BY <2>1, <2>2, WriteOrigin
<1> QED  BY <1>1, <1>2, <1>3, <1>4, <1>5 DEF CopiesAreProposals

\* A SuShare for which nothing was composed has no write that creates it.
LEMMA NothingComposed ==
  ASSUME TypeOK, CopiesAreProposals, NEW d \in SuShares, proposed[d] = {},
         NEW c \in Devices, NEW i \in DOMAIN queue[c]
  PROVE  ~IsCreate(c, i, d) /\ ~server[d].there
BY DEF CopiesAreProposals, IsCreate, Listing, Range

\* Where a queued write that creates d comes from.
LEMMA CreateOrigin ==
  ASSUME NEW c \in Devices, NEW k \in {0, 1}, Moves(c, queue[c], queue'[c], k),
         NEW d \in SuShares, NEW i \in DOMAIN queue'[c], IsCreate(c, i, d)'
  PROVE  \/ /\ i + k \in DOMAIN queue[c] /\ IsCreate(c, i + k, d)
            /\ queue'[c][i].users = queue[c][i + k].users
         \/ /\ i = Len(queue'[c]) /\ CreateASusu(c, d)
            /\ queue'[c][i].users = <<Account[c]>>
BY DEF Moves, Same, Fresh, IsCreate

LEMMA CreatesAreHomeStep ==
  ASSUME TypeOK, CopiesAreProposals, CreatesAreHome, [Next]_vars
  PROVE  CreatesAreHome'
<1>1. ASSUME NEW c \in Devices, NEW d \in SuShares, NEW i \in DOMAIN queue'[c], IsCreate(c, i, d)'
      PROVE  /\ queue'[c][i].users = <<Account[c]>>
             /\ server'[d].there => server'[d].userId = Account[c]
             /\ \/ \E j \in DOMAIN queue[c] : IsCreate(c, j, d)
                \/ CreateASusu(c, d)
  <2>1. PICK k \in {0, 1} : Moves(c, queue[c], queue'[c], k)
    BY QueueStep
  <2>2. CASE i + k \in DOMAIN queue[c] /\ IsCreate(c, i + k, d)
             /\ queue'[c][i].users = queue[c][i + k].users
    <3>1. queue'[c][i].users = <<Account[c]>>
      BY <2>2 DEF CreatesAreHome
    <3>2. ASSUME server'[d].there PROVE server'[d].userId = Account[c]
      <4>1. CASE server[d].there
        <5>1. server[d].userId = Account[c]
          BY <2>2, <4>1 DEF CreatesAreHome
        <5> QED  BY <4>1, <5>1, DocumentKept
      <4>2. CASE ~server[d].there
        <5>0. server'[d] # server[d]
          BY <3>2, <4>2
        <5>1. PICK b \in Devices :
                /\ reached[b] < Len(queue[b]) /\ NextWrite(b).doc = d
                /\ NextWrite(b).op = "create"
                /\ server'[d] = [there |-> TRUE, userId |-> Account[b],
                                 users |-> NextWrite(b).users, reported |-> FALSE]
          BY <4>2, <5>0, ServerStep
        <5>2. reached[b] + 1 \in DOMAIN queue[b] /\ IsCreate(b, reached[b] + 1, d)
          BY <5>1, NextFacts DEF IsCreate
        <5>3. b = c
          BY <2>2, <5>2 DEF CreatesAreHome
        <5> QED  BY <5>1, <5>3
      <4> QED  BY <4>1, <4>2
    <3> QED  BY <2>2, <3>1, <3>2
  <2>3. CASE i = Len(queue'[c]) /\ CreateASusu(c, d) /\ queue'[c][i].users = <<Account[c]>>
    <3>1. server' = server /\ proposed[d] = {}
      BY <2>3 DEF CreateASusu, serverVars
    <3>2. ~server[d].there
      BY <3>1 DEF CopiesAreProposals
    <3> QED  BY <2>3, <3>1, <3>2
  <2> QED  BY <1>1, <2>1, <2>2, <2>3, CreateOrigin
<1>2. ASSUME NEW b \in Devices, NEW c \in Devices, NEW d \in SuShares,
             NEW i \in DOMAIN queue'[b], NEW j \in DOMAIN queue'[c],
             IsCreate(b, i, d)', IsCreate(c, j, d)'
      PROVE  b = c
  <2>1. ASSUME NEW a \in Devices, CreateASusu(a, d),
               NEW e \in Devices, NEW n \in DOMAIN queue'[e], IsCreate(e, n, d)'
        PROVE  e = a
    <3>1. SUFFICES ASSUME e # a PROVE FALSE
      OBVIOUS
    <3>2. queue'[e] = queue[e] /\ proposed[d] = {}
      BY <2>1, <3>1 DEF CreateASusu, Enqueue, TypeOK
    <3>3. n \in DOMAIN queue[e] /\ IsCreate(e, n, d)
      BY <2>1, <3>2 DEF IsCreate
    <3> QED  BY <3>2, <3>3, NothingComposed
  <2>2. CASE \E a \in Devices : CreateASusu(a, d)
    BY <1>2, <2>1, <2>2
  <2>3. CASE ~\E a \in Devices : CreateASusu(a, d)
    <3>1. /\ \E m \in DOMAIN queue[b] : IsCreate(b, m, d)
          /\ \E n \in DOMAIN queue[c] : IsCreate(c, n, d)
      BY <1>1, <1>2, <2>3
    <3> QED  BY <3>1 DEF CreatesAreHome
  <2> QED  BY <2>2, <2>3
<1> QED  BY <1>1, <1>2 DEF CreatesAreHome

\* A write that the server has reached was reached before, or is the one that
\* is applied in this step.
LEMMA ReachedStep ==
  ASSUME TypeOK, [Next]_vars, NEW c \in Devices,
         NEW i \in DOMAIN queue'[c], i <= reached'[c]
  PROVE  \/ \E j \in DOMAIN queue[c] : j <= reached[c] /\ Same(queue'[c][i], queue[c][j])
         \/ /\ Store(c) /\ reached[c] < Len(queue[c])
            /\ Same(queue'[c][i], NextWrite(c))
<1> DEFINE Before == \E j \in DOMAIN queue[c] : j <= reached[c]
                                                  /\ Same(queue'[c][i], queue[c][j])
<1>0. /\ queue[c] \in Seq(Write) /\ queue'[c] \in Seq(Write)
      /\ DOMAIN queue[c] = 1..Len(queue[c]) /\ DOMAIN queue'[c] = 1..Len(queue'[c])
      /\ Len(queue[c]) \in Nat /\ Len(queue'[c]) \in Nat
      /\ reached[c] \in Nat /\ reached'[c] \in Nat
      /\ reached[c] <= Len(queue[c])
  <2>1. TypeOK'
    BY StepType
  <2> QED  BY <2>1, LenProperties DEF TypeOK
<1>1. CASE queue'[c] = queue[c] /\ reached'[c] <= reached[c]
  <2>1. i \in DOMAIN queue[c] /\ i <= reached[c]
    BY <1>0, <1>1
  <2> QED  BY <1>1, <2>1 DEF Same
<1>2. ASSUME NEW w \in Write, queue'[c] = Append(queue[c], w), reached'[c] = reached[c]
      PROVE  Before
  <2>1. \A j \in 1..Len(queue[c]) : Append(queue[c], w)[j] = queue[c][j]
    BY <1>0, AppendProperties
  <2>2. i \in 1..Len(queue[c]) /\ i <= reached[c]
    BY <1>0, <1>2
  <2> QED  BY <1>0, <1>2, <2>1, <2>2 DEF Same
<1>3. ASSUME queue[c] # <<>>, reached'[c] = reached[c] - 1,
             \/ queue'[c] = Tail(queue[c])
             \/ \E w \in Write : queue'[c] = Append(Tail(queue[c]), w)
      PROVE  Before
  <2> DEFINE t == Tail(queue[c])
  <2>1. /\ t \in Seq(Write) /\ Len(t) = Len(queue[c]) - 1
        /\ \A j \in 1..Len(t) : t[j] = queue[c][j + 1]
    BY <1>0, <1>3, HeadTailProperties
  <2>2. \A w \in Write : \A j \in 1..Len(t) : Append(t, w)[j] = t[j]
    BY <2>1, AppendProperties
  <2>3. queue'[c] = t \/ \E w \in Write : queue'[c] = Append(t, w)
    BY <1>3
  <2> HIDE DEF t
  <2>4. i \in 1..Len(t) /\ i + 1 \in DOMAIN queue[c] /\ i + 1 <= reached[c]
    BY <1>0, <1>3, <2>1
  <2>5. queue'[c][i] = queue[c][i + 1]
    BY <2>1, <2>2, <2>3, <2>4
  <2> QED  BY <2>4, <2>5 DEF Same
<1>4. CASE reached'[c] = 0
  BY <1>0, <1>4
<1>5. ASSUME Store(c)
      PROVE  \/ Before
             \/ reached[c] < Len(queue[c]) /\ Same(queue'[c][i], NextWrite(c))
  <2>1. reached[c] < Len(queue[c]) /\ reached'[c] = reached[c] + 1
    BY <1>5 DEF Store, Applies, StoreCreate, StoreJoin, StoreNotice, StoreFlag,
                StoreRecord, StoreFavorite, StoreUnfavorite, TypeOK
  <2>2. /\ DOMAIN queue'[c] = DOMAIN queue[c]
        /\ \A j \in DOMAIN queue[c] : Same(queue'[c][j], queue[c][j])
    <3>1. CASE StoreNotice(c)
      BY <3>1, StoreNoticeMoves
    <3>2. CASE queue' = queue
      BY <3>2 DEF Same
    <3> QED  BY <1>5, <3>1, <3>2 DEF Store, StoreCreate, StoreJoin, StoreFlag,
                  StoreRecord, StoreFavorite, StoreUnfavorite
  <2>3. i \in DOMAIN queue[c] /\ Same(queue'[c][i], queue[c][i])
    BY <2>2
  <2>4. CASE i <= reached[c]
    BY <2>3, <2>4
  <2>5. CASE i = reached[c] + 1
    BY <2>1, <2>3, <2>5 DEF NextWrite
  <2> QED  BY <1>0, <2>1, <2>3, <2>4, <2>5
<1> HIDE DEF Before
<1>e. ASSUME NEW b \in Devices, NEW w \in Write, Enqueue(b, w), reached' = reached
      PROVE  Before
  <2>1. queue'[c] = IF c = b THEN Append(queue[c], w) ELSE queue[c]
    BY <1>e DEF Enqueue, TypeOK
  <2> QED  BY <1>0, <1>1, <1>2, <1>e, <2>1 DEF Before, Same
<1>u. ASSUME UNCHANGED <<queue, reached>> PROVE Before
  BY <1>0, <1>1, <1>u DEF Before, Same
<1>6. CASE UNCHANGED vars
  BY <1>6, <1>u DEF vars, Before
<1>7. ASSUME NEW b \in Devices, User(b) PROVE Before
  <2>1. ASSUME NEW d \in SuShares, CreateASusu(b, d) PROVE Before
    <3>0. Account[b] \in Users /\ <<Account[b]>> \in Seq(Users)
      BY AccountAssumption
    <3>1. NewWrite("create", d, <<Account[b]>>, Account[b]) \in Write
      BY <3>0, NewWriteType DEF Ops
    <3> QED  BY <1>e, <2>1, <3>1 DEF CreateASusu
  <2>2. ASSUME NEW d \in SuShares, ReportPressed(b, d) PROVE Before
    <3>1. NewWrite("flag", d, <<>>, Account[b]) \in Write
      BY AccountAssumption, EmptyList, NewWriteType DEF Ops
    <3> QED  BY <1>e, <2>2, <3>1 DEF ReportPressed
  <2>3. ASSUME JoinSushareButtonPressed(b) PROVE Before
    <3> DEFINE w == NewWrite("join", detail[b].id, JoinedList(detail[b], Account[b]),
                             detail[b].userId)
    <3>1. detail[b] \in Screen
      BY <2>3 DEF JoinSushareButtonPressed, TypeOK, NoScreen
    <3>2. w \in Write
      BY <3>1, AccountAssumption, AppendProperties, NewWriteType DEF Ops, Screen, JoinedList
    <3>3. Enqueue(b, w) /\ reached' = reached
      BY <2>3 DEF JoinSushareButtonPressed
    <3> HIDE DEF w
    <3> QED  BY <1>e, <3>2, <3>3
  <2>4. ASSUME FavoriteButtonPressed(b) PROVE Before
    <3> DEFINE w == NewWrite("favorite", detail[b].id, detail[b].users, Account[b])
               x == NewWrite("unfavorite", detail[b].id, <<>>, Account[b])
    <3>1. detail[b] \in Screen
      BY <2>4 DEF FavoriteButtonPressed, TypeOK, NoScreen
    <3>2. w \in Write /\ x \in Write
      BY <3>1, AccountAssumption, EmptyList, NewWriteType DEF Ops, Screen
    <3>3. (Enqueue(b, w) \/ Enqueue(b, x)) /\ reached' = reached
      BY <2>4 DEF FavoriteButtonPressed
    <3> HIDE DEF w, x
    <3> QED  BY <1>e, <3>2, <3>3
  <2>5. ASSUME NEW d \in SuShares,
               OpenDetail(b, d) \/ OpenCreated(b, d) \/ \E v \in Users : OpenFavorite(b, v, d)
        PROVE  Before
    BY <1>u, <2>5 DEF OpenDetail, OpenCreated, OpenFavorite
  <2> QED  BY <1>7, <2>1, <2>2, <2>3, <2>4, <2>5 DEF User
<1>8. ASSUME NEW b \in Devices, Fetched(b) PROVE Before
  <2>1. PICK d \in SuShares, v \in Users :
          GetCurrentUserSucceeds(b, d, v) \/ GetCurrentUserFails(b, d, v)
    BY <1>8 DEF Fetched
  <2>2. NewWrite("notice", d, <<>>, v) \in Write
    BY EmptyList, NewWriteType DEF Ops
  <2> QED  BY <1>e, <1>u, <2>1, <2>2 DEF GetCurrentUserSucceeds, GetCurrentUserFails
<1>9. ASSUME NEW b \in Devices, b # c,
             Store(b) \/ Succeed(b) \/ Reject(b) \/ Disconnect(b) \/ Kill(b)
      PROVE  Before
  <2>1. queue'[c] = queue[c] /\ reached'[c] = reached[c]
    BY <1>9 DEF Store, Applies, StoreCreate, StoreJoin, StoreNotice, StoreFlag, StoreRecord,
                StoreFavorite, StoreUnfavorite, Succeed, Answers, JoinSucceeded,
                FlagSucceeded, WriteSucceeded, Dequeue, Reject, Disconnect, Kill, TypeOK
  <2> QED  BY <1>0, <1>1, <2>1 DEF Before, Same
<1>10. ASSUME JoinSucceeded(c) \/ WriteSucceeded(c) PROVE Before
  <2>1. queue[c] # <<>> /\ queue'[c] = Tail(queue[c]) /\ reached'[c] = reached[c] - 1
    BY <1>10, AnsweredQueued DEF JoinSucceeded, WriteSucceeded, Answers, Dequeue, TypeOK
  <2> QED  BY <1>3, <2>1
<1>11. ASSUME FlagSucceeded(c) PROVE Before
  <2> DEFINE w == Head(queue[c])
             x == NewWrite("record", w.doc, <<>>, w.to)
  <2>1. queue[c] # <<>> /\ reached'[c] = reached[c] - 1
    BY <1>11, AnsweredQueued DEF FlagSucceeded, Answers, TypeOK
  <2>2. x \in Write
    <3>1. w.doc \in SuShares /\ w.to \in Users
      BY <2>1, HeadFacts
    <3> HIDE DEF w
    <3> QED  BY <3>1, EmptyList, NewWriteType DEF Ops
  <2>3. queue'[c] = Tail(queue[c]) \/ queue'[c] = Append(Tail(queue[c]), x)
    BY <1>11 DEF FlagSucceeded, TypeOK
  <2> HIDE DEF x
  <2> QED  BY <1>3, <2>1, <2>2, <2>3
<1>12. ASSUME Reject(c) \/ Disconnect(c) \/ Kill(c) PROVE reached'[c] = 0
  BY <1>12 DEF Reject, Disconnect, Kill, TypeOK
<1>13. ASSUME NEW b \in Devices, DeliverSnapshot(b) PROVE Before
  BY <1>13, <1>u DEF DeliverSnapshot
<1> QED
  BY <1>4, <1>5, <1>6, <1>7, <1>8, <1>9, <1>10, <1>11, <1>12, <1>13 DEF Next, Succeed, Before

LEMMA ReportsFollowFlagsStep ==
  ASSUME TypeOK, CreatesAreHome, ReportsFollowFlags, [Next]_vars
  PROVE  ReportsFollowFlags'
<1>1. ASSUME NEW r \in flagged' PROVE Flagged(r[1])'
  <2>1. CASE r \in flagged
    <3>1. r[1] \in SuShares /\ Flagged(r[1])
      BY <2>1 DEF TypeOK, ReportsFollowFlags
    <3> QED  BY <3>1, FlaggedKept
  <2>2. ASSUME NEW b \in Devices, StoreRecord(b), r = <<NextWrite(b).doc, Account[b]>>
        PROVE  Flagged(r[1])'
    <3>1. reached[b] < Len(queue[b]) /\ NextWrite(b).op = "record"
      BY <2>2 DEF StoreRecord, Applies
    <3>2. /\ reached[b] + 1 \in DOMAIN queue[b] /\ NextWrite(b) = queue[b][reached[b] + 1]
          /\ NextWrite(b).doc \in SuShares
      BY <3>1, NextFacts
    <3>3. Flagged(NextWrite(b).doc)
      BY <3>1, <3>2 DEF ReportsFollowFlags, Reports
    <3> QED  BY <2>2, <3>2, <3>3, FlaggedKept
  <2>3. flagged' = flagged \/ \E b \in Devices :
          StoreRecord(b) /\ flagged' = flagged \cup {<<NextWrite(b).doc, Account[b]>>}
    <3>1. CASE UNCHANGED vars
      BY <3>1 DEF vars
    <3>2. ASSUME NEW b \in Devices,
                 DeliverSnapshot(b) \/ Fetched(b) \/ Reject(b) \/ Kill(b)
                 \/ Succeed(b) \/ Disconnect(b)
          PROVE  flagged' = flagged
      BY <3>2 DEF serverVars, DeliverSnapshot, Fetched, GetCurrentUserSucceeds,
                  GetCurrentUserFails, Reject, Kill, Succeed, JoinSucceeded,
                  FlagSucceeded, WriteSucceeded, Disconnect
    <3>3. ASSUME NEW b \in Devices, User(b)
          PROVE  flagged' = flagged
      BY <3>3 DEF serverVars, User, CreateASusu, OpenDetail, OpenCreated, OpenFavorite,
                  ReportPressed, JoinSushareButtonPressed, FavoriteButtonPressed
    <3>4. ASSUME NEW b \in Devices, Store(b)
          PROVE  flagged' = flagged \/
                 (StoreRecord(b) /\ flagged' = flagged \cup {<<NextWrite(b).doc, Account[b]>>})
      BY <3>4 DEF Store, StoreCreate, StoreJoin, StoreFlag, StoreNotice, StoreRecord,
                  StoreFavorite, StoreUnfavorite
    <3> QED  BY <3>1, <3>2, <3>3, <3>4 DEF Next
  <2> QED  BY <2>1, <2>2, <2>3
<1>2. ASSUME NEW c \in Devices, NEW i \in DOMAIN queue'[c] PROVE queue'[c][i].doc \in SuShares
  <2>1. queue'[c] \in Seq(Write)
    BY StepType DEF TypeOK
  <2>2. queue'[c][i] \in Write
    BY <2>1, ElementOfSeq, LenProperties
  <2> QED  BY <2>2 DEF Write
<1>3. ASSUME NEW c \in Devices, NEW i \in DOMAIN queue'[c], queue'[c][i].op = "record",
             NEW d \in SuShares, d = queue'[c][i].doc
      PROVE  Flagged(d)'
  <2>1. PICK k \in {0, 1} : Moves(c, queue[c], queue'[c], k)
    BY QueueStep
  <2>2. CASE i + k \in DOMAIN queue[c] /\ Same(queue'[c][i], queue[c][i + k])
    <3>1. queue[c][i + k].doc = d /\ queue[c][i + k].op = "record"
      BY <1>3, <2>2 DEF Same
    <3>2. Flagged(d)
      BY <2>2, <3>1 DEF ReportsFollowFlags, Reports
    <3> QED  BY <3>2, FlaggedKept
  <2>3. CASE Fresh(c, queue'[c][i])
    <3>1. FlagSucceeded(c) /\ d = Head(queue[c]).doc
      BY <1>3, <2>3 DEF Fresh
    <3>2. queue[c] # <<>> /\ Head(queue[c]).op = "flag" /\ reached[c] > 0 /\ reached[c] \in Nat
      BY <3>1, AnsweredQueued DEF FlagSucceeded, Answers, TypeOK
    <3>3. 1 \in DOMAIN queue[c] /\ Head(queue[c]) = queue[c][1]
      BY <3>2, HeadFacts
    <3>4. Flagged(d)
      BY <3>1, <3>2, <3>3 DEF ReportsFollowFlags, Reports
    <3> QED  BY <3>4, FlaggedKept
  <2> QED  BY <2>1, <2>2, <2>3 DEF Moves
<1>4. ASSUME NEW c \in Devices, NEW i \in DOMAIN queue'[c], queue'[c][i].op = "flag",
             i <= reached'[c], NEW d \in SuShares, d = queue'[c][i].doc
      PROVE  Flagged(d)'
  <2>1. ASSUME NEW j \in DOMAIN queue[c], j <= reached[c], Same(queue'[c][i], queue[c][j])
        PROVE  Flagged(d)'
    <3>1. queue[c][j].doc = d /\ queue[c][j].op = "flag"
      BY <1>4, <2>1 DEF Same
    <3>2. Flagged(d)
      BY <2>1, <3>1 DEF ReportsFollowFlags, Reports
    <3> QED  BY <3>2, FlaggedKept
  <2>2. ASSUME Store(c), Same(queue'[c][i], NextWrite(c))
        PROVE  Flagged(d)'
    <3>1. NextWrite(c).op = "flag" /\ NextWrite(c).doc = d
      BY <1>4, <2>2 DEF Same
    <3>2. StoreFlag(c)
      BY <2>2, <3>1 DEF Store, Applies, StoreCreate, StoreJoin, StoreNotice, StoreRecord,
                        StoreFavorite, StoreUnfavorite
    <3>3. server[d] \in Doc
      BY <3>1, <3>2 DEF StoreFlag, TypeOK, NoDoc
    <3>4. server'[d] = [server[d] EXCEPT !.reported = TRUE]
      BY <3>1, <3>2 DEF StoreFlag, TypeOK
    <3>5. server'[d].there /\ server'[d].reported
      BY <3>3, <3>4 DEF Doc
    <3> QED  BY <3>5 DEF Flagged
  <2> QED  BY <1>4, <2>1, <2>2, ReachedStep
<1>5. ASSUME NEW c \in Devices, NEW i \in DOMAIN queue'[c],
             queue'[c][i].op = "record" \/ (queue'[c][i].op = "flag" /\ i <= reached'[c])
      PROVE  LET d == queue'[c][i].doc
             IN  server'[d].there /\ (server'[d].reported \/ d \in recreated')
  <2>1. PICK d \in SuShares : d = queue'[c][i].doc
    BY <1>2
  <2>2. Flagged(d)'
    BY <1>3, <1>4, <1>5, <2>1
  <2> QED  BY <2>1, <2>2 DEF Flagged
<1> QED  BY <1>1, <1>5 DEF ReportsFollowFlags, Reports, Flagged

-------------------------------------------------------------------------------
(* The theorems. *)

LEMMA InitIInv == Init => IInv
<1> SUFFICES ASSUME Init PROVE IInv
  OBVIOUS
<1>1. \A c \in Devices : DOMAIN queue[c] = {} /\ Range(queue[c]) = {}
  <2>1. DOMAIN <<>> = {}
    OBVIOUS
  <2> QED  BY <2>1 DEF Init, Range
<1>2. NoDoc.there = FALSE /\ NoScreen.open = FALSE
  BY DEF NoDoc, NoScreen
<1>3. TypeOK
  BY InitType
<1>4. ProposalsGrow
  BY DEF Init, ProposalsGrow
<1>5. ScreensWereOpened
  BY <1>2 DEF Init, ScreensWereOpened
<1>6. CopiesAreProposals
  <2>1. \A d \in SuShares : ~server[d].there
    BY <1>2 DEF Init
  <2>2. \A c \in Devices : (~detail[c].open) /\ \A d \in SuShares : ~list[c][d].there
    BY <1>2 DEF Init
  <2>3. \A u \in Users, d \in SuShares : favorites[u][d] = {}
    BY DEF Init
  <2> QED  BY <1>1, <2>1, <2>2, <2>3 DEF CopiesAreProposals
<1>7. CreatesAreHome
  BY <1>1 DEF CreatesAreHome
<1>8. ReportsFollowFlags
  <2>1. flagged = {}
    BY DEF Init
  <2> QED  BY <1>1, <2>1 DEF ReportsFollowFlags
<1> QED  BY <1>3, <1>4, <1>5, <1>6, <1>7, <1>8 DEF IInv

LEMMA StepIInv ==
  ASSUME IInv, [Next]_vars
  PROVE  IInv'
<1>1. TypeOK'
  BY StepType DEF IInv
<1>2. ProposalsGrow'
  BY ProposalsGrowStep DEF IInv
<1>3. ScreensWereOpened'
  BY ScreensWereOpenedStep DEF IInv
<1>4. CopiesAreProposals'
  BY CopiesAreProposalsStep DEF IInv
<1>5. CreatesAreHome'
  BY CreatesAreHomeStep DEF IInv
<1>6. ReportsFollowFlags'
  BY ReportsFollowFlagsStep DEF IInv
<1> QED  BY <1>1, <1>2, <1>3, <1>4, <1>5, <1>6 DEF IInv

\* Everything the devices and the database hold descends from what some user
\* composed, in the order the handlers impose: IInv holds always.
THEOREM Provenance == Spec => []IInv
<1>1. Init => IInv
  BY InitIInv
<1>2. IInv /\ [Next]_vars => IInv'
  BY StepIInv
<1> QED  BY <1>1, <1>2, PTL DEF Spec

\* The stored list of a SuShare is a proposal, headed by the creator.
LEMMA StoredFacts ==
  ASSUME IInv, NEW d \in SuShares, server[d].there
  PROVE  /\ server[d].users \in Seq(Users)
         /\ server[d].users \in proposed[d]
         /\ server[d].users # <<>>
         /\ server[d].userId = Head(server[d].users)
<1>1. server[d] \in Doc
  BY DEF IInv, TypeOK, NoDoc
<1>2. server[d].users \in proposed[d] /\ server[d].userId = Head(server[d].users)
  BY DEF IInv, CopiesAreProposals
<1>3. server[d].users # <<>>
  BY <1>2 DEF IInv, ProposalsGrow
<1> QED  BY <1>1, <1>2, <1>3 DEF Doc

\* joinUserToSuShare never lists anybody but the creator and users who tapped
\* "Join" in that SuShare, however stale the list it writes back.
THEOREM JoinersOnly == Spec => []OnlyJoinersListed
<1>1. IInv => OnlyJoinersListed
  <2> SUFFICES ASSUME IInv, NEW d \in SuShares, server[d].there, NEW u \in Members(server[d])
               PROVE  u = server[d].userId \/ taps["join"][d][u] > 0
    BY DEF OnlyJoinersListed
  <2>1. PICK i \in DOMAIN server[d].users : u = server[d].users[i]
    BY DEF Members
  <2> QED  BY <2>1, StoredFacts DEF IInv, ProposalsGrow
<1> QED  BY <1>1, Provenance, PTL

\* The creator stays listed, and first.
THEOREM CreatorStaysFirst == Spec => []CreatorLeads
<1>1. IInv => CreatorLeads
  BY StoredFacts DEF CreatorLeads
<1> QED  BY <1>1, Provenance, PTL

\* A user is listed at most once for each time they opened the SuShare, and once
\* more as its creator: taps on one screen do not add up.
THEOREM ListedOncePerScreen == Spec => []OncePerScreen
<1>1. IInv => OncePerScreen
  <2> SUFFICES ASSUME IInv, NEW d \in SuShares, NEW u \in Users, server[d].there
               PROVE  Cardinality(Occurrences(server[d].users, u))
                        <= taps["open"][d][u] + (IF u = server[d].userId THEN 1 ELSE 0)
    BY DEF OncePerScreen
  <2> QED  BY StoredFacts DEF IInv, ProposalsGrow, Allowed
<1> QED  BY <1>1, Provenance, PTL

\* A report on file means that the SuShare was flagged, and is flagged unless its
\* create, its answer lost, was applied again.
THEOREM ReportsAreFlagged == Spec => []ReportMeansFlagged
<1>1. IInv => ReportMeansFlagged
  BY DEF IInv, ReportsFollowFlags, ReportMeansFlagged, Flagged
<1> QED  BY <1>1, Provenance, PTL

\* Once the create is answered, no step takes a flag back, however many writes of
\* older copies are still to come and however often they are sent.
THEOREM FlagsStay == Spec => FlagIsForever
<1> DEFINE Kept == \A d \in SuShares :
                     /\ server[d].there
                     /\ server[d].reported
                     /\ \A c \in Devices : Pending(c, d, {"create"}) = {}
                     => server'[d].there /\ server'[d].reported
<1>1. IInv /\ [Next]_vars => Kept
  <2> SUFFICES ASSUME IInv, [Next]_vars, NEW d \in SuShares, server[d].there, server[d].reported,
                      \A c \in Devices : Pending(c, d, {"create"}) = {}
               PROVE  server'[d].there /\ server'[d].reported
    OBVIOUS
  <2> QED  BY DocumentKept DEF IInv
<1> HIDE DEF Kept
<1>2. IInv /\ [Next]_vars => [Kept]_vars
  BY <1>1
<1>3. Spec => [][Kept]_vars
  BY <1>2, Provenance, PTL DEF Spec
<1> QED  BY <1>3 DEF FlagIsForever, Kept

-------------------------------------------------------------------------------
(* Roster implements RosterRegister: the initial state maps to the initial *)
(* state and every step to a step of the register or to a stutter.         *)

LEMMA InitRefines == Init => Register!Init
BY DEF Init, Register!Init, Stored, NoDoc

\* Only creating and joining a SuShare changes the list stored for it.
LEMMA StoredStep ==
  ASSUME IInv, [Next]_vars, proposed' = proposed
  PROVE  Stored' = Stored \/ \E d \in SuShares : Register!Settle(d)
<1>0. TypeOK /\ ProposalsGrow /\ CopiesAreProposals /\ CreatesAreHome /\ TypeOK'
  BY StepType DEF IInv
<1>1. ASSUME \A d \in SuShares : Stored'[d] = Stored[d]
      PROVE  Stored' = Stored
  BY <1>1 DEF Stored
<1>2. ASSUME NEW d \in SuShares, Stored'[d] # Stored[d],
             \A e \in SuShares \ {d} : server'[e] = server[e]
      PROVE  Register!Settle(d)
  <2>1. Stored'[d] \in proposed[d]
    <3>1. server'[d].there
      <4>1. server[d].there => server'[d].there
        BY <1>0, DocumentKept
      <4> QED  BY <1>2, <4>1 DEF Stored
    <3>2. server'[d].users \in proposed'[d]
      BY <1>0, <3>1, CopiesAreProposalsStep DEF CopiesAreProposals
    <3> QED  BY <3>1, <3>2 DEF Stored
  <2>2. Stored' = [Stored EXCEPT ![d] = Stored'[d]]
    <3> DEFINE x == Stored'[d]
    <3>1. \A e \in SuShares \ {d} : Stored'[e] = Stored[e]
      BY <1>2 DEF Stored
    <3>2. /\ DOMAIN Stored' = SuShares /\ Stored' = [e \in SuShares |-> Stored'[e]]
          /\ DOMAIN Stored = SuShares
      BY DEF Stored
    <3>3. Stored'[d] = x
      OBVIOUS
    <3> HIDE DEF x
    <3>4. Stored' = [e \in SuShares |-> IF e = d THEN x ELSE Stored[e]]
      BY <3>1, <3>2, <3>3
    <3>5. [Stored EXCEPT ![d] = x] = [e \in SuShares |-> IF e = d THEN x ELSE Stored[e]]
      BY <3>2
    <3> QED  BY <3>4, <3>5 DEF x
  <2> QED  BY <2>1, <2>2 DEF Register!Settle
<1>3. ASSUME NEW d \in SuShares, server'[d] # server[d], NEW e \in SuShares \ {d}
      PROVE  server'[e] = server[e]
  <2>1. PICK b \in Devices :
          /\ reached[b] < Len(queue[b]) /\ NextWrite(b).doc = d
          /\ StoreCreate(b) \/ StoreJoin(b) \/ StoreFlag(b)
    BY <1>0, <1>3, ServerStep
  <2> QED  BY <1>0, <2>1 DEF StoreCreate, StoreJoin, StoreFlag, TypeOK
<1>4. SUFFICES ASSUME NEW d \in SuShares, Stored'[d] # Stored[d]
               PROVE  \E e \in SuShares : Register!Settle(e)
  BY <1>1
<1>5. server'[d] # server[d]
  BY <1>4 DEF Stored
<1> QED  BY <1>2, <1>3, <1>4, <1>5

LEMMA StepRefines ==
  ASSUME IInv, [Next]_vars
  PROVE  [Register!Next]_(Register!vars)
<1>0. TypeOK /\ CopiesAreProposals
  BY DEF IInv
<1>1. ASSUME NEW c \in Devices, NEW d \in SuShares, CreateASusu(c, d)
      PROVE  Register!Next
  <2>1. Account[c] \in Users
    BY AccountAssumption
  <2>2. Stored' = Stored
    BY <1>1 DEF CreateASusu, serverVars, Stored
  <2>3. proposed' = [proposed EXCEPT ![d] = {<<Account[c]>>}] /\ proposed[d] = {}
    BY <1>1 DEF CreateASusu
  <2>4. Register!Found(d, Account[c])
    BY <2>2, <2>3 DEF Register!Found
  <2> QED  BY <2>1, <2>4 DEF Register!Next
<1>2. ASSUME NEW c \in Devices, JoinSushareButtonPressed(c)
      PROVE  Register!Next
  <2> DEFINE d == detail[c].id
             u == Account[c]
             l == detail[c].users
  <2>1. detail[c].open /\ d \in SuShares /\ u \in Users
    BY <1>0, <1>2, ScreenFacts DEF JoinSushareButtonPressed
  <2>2. l \in proposed[d]
    BY <1>0, <2>1 DEF CopiesAreProposals
  <2>3. Stored' = Stored
    BY <1>2 DEF JoinSushareButtonPressed, serverVars, Stored
  <2>4. proposed' = [proposed EXCEPT ![d] = proposed[d] \cup {Append(l, u)}]
    BY <1>2 DEF JoinSushareButtonPressed, JoinedList
  <2> HIDE DEF d, u, l
  <2>5. Register!Propose(d, u)
    BY <2>2, <2>3, <2>4 DEF Register!Propose
  <2> QED  BY <2>1, <2>5 DEF Register!Next
<1>3. CASE proposed' = proposed
  <2>1. CASE Stored' = Stored
    BY <1>3, <2>1 DEF Register!vars
  <2>2. CASE \E d \in SuShares : Register!Settle(d)
    BY <2>2 DEF Register!Next
  <2> QED  BY <1>3, <2>1, <2>2, StoredStep
<1>4. \/ proposed' = proposed
      \/ \E c \in Devices, d \in SuShares : CreateASusu(c, d)
      \/ \E c \in Devices : JoinSushareButtonPressed(c)
  <2>1. SUFFICES ASSUME \A c \in Devices, d \in SuShares : ~CreateASusu(c, d),
                        \A c \in Devices : ~JoinSushareButtonPressed(c)
                 PROVE  proposed' = proposed
    OBVIOUS
  <2>2. \A d \in SuShares : proposed'[d] = proposed[d]
    BY <1>0, <2>1, ProposalStep
  <2> QED  BY <1>0, <2>2, StepType DEF TypeOK
<1> QED  BY <1>1, <1>2, <1>3, <1>4

\* For every set of devices and however they interleave, go stale or are killed,
\* usersInTheSuShare behaves as a register of proposals: each stored list grew
\* one joiner at a time from the list its creator stored.
THEOREM RosterIsRegister == Spec => ImplementsRegister
<1>1. Init => Register!Init
  BY InitRefines
<1>2. IInv /\ [Next]_vars => [Register!Next]_(Register!vars)
  BY StepRefines
<1>3. Spec => Register!Spec
  BY <1>1, <1>2, Provenance, PTL DEF Spec, Register!Spec
<1> QED  BY <1>3 DEF ImplementsRegister

-------------------------------------------------------------------------------
(* Notices: how many there are and can still be. *)

\* Of one queue, the notices of d that are not on file yet; of all of u's devices,
\* those of d and the reads whose answers will queue one.
NoticesIn(q, d)    == {i \in DOMAIN q :
                         q[i].op = "notice" /\ q[i].doc = d /\ ~q[i].filed}
DevicesOf(u)       == {c \in Devices : Account[c] = u}
QueuedIn(q, d, u)  == UNION {{c} \X NoticesIn(q[c], d) : c \in DevicesOf(u)}
Readers(u)         == DevicesOf(u) \X Users
Reads(reads, d, u) == Copies([p \in Readers(u) |-> reads[p[1]][d][p[2]]])

\* Each answered join pays for one notice: on file, queued, or still to come.
NoticesFit ==
  \A d \in SuShares, u \in Users :
    /\ IsFiniteSet(Notices(d, u))
    /\ IsFiniteSet(Reads(fetching, d, u))
    /\ IsFiniteSet(QueuedIn(queue, d, u))
    /\ Cardinality(Notices(d, u)) + Cardinality(Reads(fetching, d, u))
         + Cardinality(QueuedIn(queue, d, u)) <= committed[d][u]

LEMMA CopiesMember ==
  ASSUME NEW count, NEW x
  PROVE  x \in Copies(count)
           <=> \E k \in DOMAIN count : \E i \in 1..count[k] : x = <<k, i>>
BY DEF Copies

\* No copies where every count is zero.
LEMMA NoCopies ==
  ASSUME NEW count, \A k \in DOMAIN count : count[k] = 0
  PROVE  IsFiniteSet(Copies(count)) /\ Cardinality(Copies(count)) = 0
<1>1. \A i : i \notin 1..0
  OBVIOUS
<1>2. Copies(count) = {}
  BY <1>1, CopiesMember
<1> QED
  BY <1>2, FS_EmptySet

\* Fewer copies where no count is higher.
LEMMA FewerCopies ==
  ASSUME NEW K, NEW f \in [K -> Nat], NEW g \in [K -> Nat], \A k \in K : g[k] <= f[k],
         IsFiniteSet(Copies(f))
  PROVE  IsFiniteSet(Copies(g)) /\ Cardinality(Copies(g)) <= Cardinality(Copies(f))
<1>1. \A k \in K : 1..g[k] \subseteq 1..f[k]
  OBVIOUS
<1>2. Copies(g) \subseteq Copies(f)
  BY <1>1, CopiesMember
<1> QED
  BY <1>2, FS_Subset

\* One copy more where one count is one higher.
LEMMA OneMoreCopy ==
  ASSUME NEW K, NEW f \in [K -> Nat], NEW g \in [K -> Nat], NEW x \in K,
         g[x] = f[x] + 1, \A k \in K : k # x => g[k] = f[k],
         IsFiniteSet(Copies(f))
  PROVE  IsFiniteSet(Copies(g)) /\ Cardinality(Copies(g)) = Cardinality(Copies(f)) + 1
<1> DEFINE n == f[x] + 1
<1>1. n \in 1..g[x] /\ n \notin 1..f[x] /\ \A i \in 1..g[x] : i \in 1..f[x] \/ i = n
  OBVIOUS
<1>2. 1..f[x] \subseteq 1..g[x]
  OBVIOUS
<1> HIDE DEF n
<1>3. ASSUME NEW y \in Copies(g) PROVE y \in Copies(f) \cup {<<x, n>>}
  <2>0. PICK k \in K : \E i \in 1..g[k] : y = <<k, i>>
    BY <1>3, CopiesMember
  <2>1. PICK i \in 1..g[k] : y = <<k, i>>
    BY <2>0
  <2>2. i \in 1..f[k] \/ (k = x /\ i = n)
    BY <1>1, <2>1
  <2> QED
    BY <2>1, <2>2, CopiesMember
<1>4. ASSUME NEW y \in Copies(f) \cup {<<x, n>>} PROVE y \in Copies(g)
  <2>1. CASE y \in Copies(f)
    <3>0. PICK k \in K : \E i \in 1..f[k] : y = <<k, i>>
      BY <2>1, CopiesMember
    <3>1. PICK i \in 1..f[k] : y = <<k, i>>
      BY <3>0
    <3>2. i \in 1..g[k]
      BY <1>2, <3>1
    <3> QED
      BY <3>1, <3>2, CopiesMember
  <2> QED
    BY <1>1, <1>4, <2>1, CopiesMember
<1>5. Copies(g) = Copies(f) \cup {<<x, n>>}
  BY <1>3, <1>4
<1>6. <<x, n>> \notin Copies(f)
  BY <1>1, CopiesMember
<1>7. /\ IsFiniteSet(Copies(f) \cup {<<x, n>>})
      /\ Cardinality(Copies(f) \cup {<<x, n>>}) = Cardinality(Copies(f)) + 1
  BY <1>6, FS_AddElement
<1> QED
  BY <1>5, <1>7

-------------------------------------------------------------------------------
(* The notices in the queues. *)

\* Adding to a finite set.
LEMMA OneMore ==
  ASSUME NEW S, IsFiniteSet(S), NEW x
  PROVE  /\ IsFiniteSet(S \cup {x})
         /\ Cardinality(S \cup {x}) <= Cardinality(S) + 1
<1>1. /\ IsFiniteSet(S \cup {x})
      /\ Cardinality(S \cup {x}) = IF x \in S THEN Cardinality(S) ELSE Cardinality(S) + 1
  BY FS_AddElement
<1>2. Cardinality(S) \in Nat
  BY FS_CardinalityType
<1> QED
  BY <1>1, <1>2

\* Queues with the same notices.
LEMMA SameQueued ==
  ASSUME NEW q, NEW r, NEW d, NEW u, \A c \in Devices : NoticesIn(r[c], d) = NoticesIn(q[c], d)
  PROVE  QueuedIn(r, d, u) = QueuedIn(q, d, u)
BY DEF QueuedIn, DevicesOf

LEMMA AppendNotices ==
  ASSUME NEW q \in Seq(Write), NEW w \in Write, ~w.filed, NEW d
  PROVE  NoticesIn(Append(q, w), d)
           = NoticesIn(q, d) \cup (IF w.op = "notice" /\ w.doc = d THEN {Len(q) + 1} ELSE {})
<1>1. /\ Len(Append(q, w)) = Len(q) + 1
      /\ Append(q, w) \in Seq(Write)
      /\ \A i \in 1..Len(q) : Append(q, w)[i] = q[i]
      /\ Append(q, w)[Len(q) + 1] = w
  BY AppendProperties
<1>2. DOMAIN Append(q, w) = 1..(Len(q) + 1) /\ DOMAIN q = 1..Len(q) /\ Len(q) \in Nat
  BY <1>1, LenProperties
<1>3. \A i : i \in 1..(Len(q) + 1) <=> i \in 1..Len(q) \/ i = Len(q) + 1
  BY <1>2
<1>4. \A i : i \in NoticesIn(Append(q, w), d)
               <=> i \in NoticesIn(q, d) \/ (i = Len(q) + 1 /\ w.op = "notice" /\ w.doc = d)
  BY <1>1, <1>2, <1>3, Zenon DEF NoticesIn
<1> QED
  BY <1>4

\* A write that is queued is one notice more if it is a notice of d by u.
LEMMA AppendQueued ==
  ASSUME NEW q \in [Devices -> Seq(Write)], NEW c \in Devices, NEW w \in Write,
         ~w.filed, NEW d, NEW u, IsFiniteSet(QueuedIn(q, d, u)),
         NEW r, r[c] = Append(q[c], w), \A b \in Devices : b # c => r[b] = q[b]
  PROVE  /\ IsFiniteSet(QueuedIn(r, d, u))
         /\ Cardinality(QueuedIn(r, d, u))
              <= Cardinality(QueuedIn(q, d, u))
                   + (IF w.op = "notice" /\ w.doc = d /\ Account[c] = u THEN 1 ELSE 0)
<1>1. q[c] \in Seq(Write)
  OBVIOUS
<1>2. Cardinality(QueuedIn(q, d, u)) \in Nat
  BY FS_CardinalityType
<1>3. CASE w.op = "notice" /\ w.doc = d /\ Account[c] = u
  <2> DEFINE new == Len(q[c]) + 1
  <2>1. NoticesIn(r[c], d) = NoticesIn(q[c], d) \cup {new}
    <3>1. NoticesIn(Append(q[c], w), d)
            = NoticesIn(q[c], d) \cup (IF w.op = "notice" /\ w.doc = d THEN {new} ELSE {})
      BY <1>1, AppendNotices
    <3> HIDE DEF new
    <3> QED
      BY <1>3, <3>1
  <2> HIDE DEF new
  <2> DEFINE old(b) == NoticesIn(q[b], d)
             now(b) == NoticesIn(r[b], d)
  <2>2. /\ QueuedIn(q, d, u) = UNION {{b} \X old(b) : b \in DevicesOf(u)}
        /\ QueuedIn(r, d, u) = UNION {{b} \X now(b) : b \in DevicesOf(u)}
    BY DEF QueuedIn
  <2>3. /\ now(c) = old(c) \cup {new} /\ c \in DevicesOf(u)
        /\ \A b \in DevicesOf(u) : b # c => now(b) = old(b)
    BY <1>3, <2>1 DEF DevicesOf
  <2> HIDE DEF old, now
  <2>4. QueuedIn(r, d, u) = QueuedIn(q, d, u) \cup {<<c, new>>}
    BY <2>2, <2>3
  <2>5. /\ IsFiniteSet(QueuedIn(r, d, u))
        /\ Cardinality(QueuedIn(r, d, u)) <= Cardinality(QueuedIn(q, d, u)) + 1
    BY <2>4, OneMore
  <2> QED
    BY <1>3, <2>5
<1>4. CASE ~ (w.op = "notice" /\ w.doc = d)
  <2>1. NoticesIn(r[c], d) = NoticesIn(q[c], d)
    <3>1. NoticesIn(Append(q[c], w), d)
            = NoticesIn(q[c], d)
                \cup (IF w.op = "notice" /\ w.doc = d THEN {Len(q[c]) + 1} ELSE {})
      BY <1>1, AppendNotices
    <3> QED
      BY <1>4, <3>1, Zenon
  <2>2. \A b \in Devices : NoticesIn(r[b], d) = NoticesIn(q[b], d)
    BY <2>1
  <2>3. QueuedIn(r, d, u) = QueuedIn(q, d, u)
    BY <2>2, SameQueued
  <2> QED
    BY <1>2, <1>4, <2>3
<1>5. CASE Account[c] # u
  <2>1. QueuedIn(r, d, u) = QueuedIn(q, d, u)
    BY <1>5 DEF QueuedIn, DevicesOf
  <2> QED
    BY <1>2, <1>5, <2>1
<1> QED
  BY <1>3, <1>4, <1>5

\* A write that leaves its queue leaves no more notices than there were.
LEMMA TailQueued ==
  ASSUME NEW q \in [Devices -> Seq(Write)], NEW c \in Devices, q[c] # <<>>,
         NEW d, NEW u, IsFiniteSet(QueuedIn(q, d, u)),
         NEW r, r[c] = Tail(q[c]), \A b \in Devices : b # c => r[b] = q[b]
  PROVE  /\ IsFiniteSet(QueuedIn(r, d, u))
         /\ Cardinality(QueuedIn(r, d, u)) <= Cardinality(QueuedIn(q, d, u))
         /\ Cardinality(QueuedIn(r, d, u)) \in Nat
<1> DEFINE moved(x) == IF x[1] = c THEN <<c, x[2] + 1>> ELSE x
           f        == [x \in QueuedIn(r, d, u) |-> moved(x)]
<1>2. /\ Len(q[c]) \in Nat /\ Len(q[c]) # 0
      /\ Tail(q[c]) \in Seq(Write) /\ Len(Tail(q[c])) = Len(q[c]) - 1
      /\ \A i \in 1..Len(Tail(q[c])) : Tail(q[c])[i] = q[c][i + 1]
      /\ Head(q[c]) = q[c][1]
  BY HeadTailProperties, LenProperties, EmptySeq
<1>3. DOMAIN r[c] = 1..(Len(q[c]) - 1) /\ DOMAIN q[c] = 1..Len(q[c])
  BY <1>2, LenProperties
<1>4. ASSUME NEW i \in NoticesIn(r[c], d)
      PROVE  i \in Nat /\ i + 1 \in NoticesIn(q[c], d)
  <2>1. i \in 1..(Len(q[c]) - 1) /\ r[c][i].op = "notice" /\ r[c][i].doc = d
        /\ ~r[c][i].filed
    BY <1>3, <1>4 DEF NoticesIn
  <2>2. i \in Nat /\ i + 1 \in 1..Len(q[c])
    BY <1>2, <2>1
  <2>3. r[c][i] = q[c][i + 1]
    BY <1>2, <2>1
  <2> QED
    BY <1>3, <2>1, <2>2, <2>3 DEF NoticesIn
<1>5. ASSUME NEW x \in QueuedIn(r, d, u)
      PROVE  moved(x) \in QueuedIn(q, d, u)
  <2>1. PICK b \in Devices : Account[b] = u /\ \E i \in NoticesIn(r[b], d) : x = <<b, i>>
    BY <1>5 DEF QueuedIn, DevicesOf
  <2>2. PICK i \in NoticesIn(r[b], d) : x = <<b, i>>
    BY <2>1
  <2>3. CASE b = c
    <3>1. moved(x) = <<c, i + 1>> /\ i + 1 \in NoticesIn(q[c], d)
      BY <1>4, <2>2, <2>3
    <3> QED
      BY <2>1, <2>3, <3>1 DEF QueuedIn, DevicesOf
  <2>4. CASE b # c
    <3>1. moved(x) = x /\ i \in NoticesIn(q[b], d)
      BY <2>2, <2>4
    <3> QED
      BY <2>1, <2>2, <3>1 DEF QueuedIn, DevicesOf
  <2> QED
    BY <2>3, <2>4
<1>6. ASSUME NEW x \in QueuedIn(r, d, u), NEW y \in QueuedIn(r, d, u), moved(x) = moved(y)
      PROVE  x = y
  <2>1. PICK b \in Devices : \E i \in NoticesIn(r[b], d) : x = <<b, i>>
    BY <1>6 DEF QueuedIn, DevicesOf
  <2>2. PICK i \in NoticesIn(r[b], d) : x = <<b, i>>
    BY <2>1
  <2>3. PICK e \in Devices : \E j \in NoticesIn(r[e], d) : y = <<e, j>>
    BY <1>6 DEF QueuedIn, DevicesOf
  <2>4. PICK j \in NoticesIn(r[e], d) : y = <<e, j>>
    BY <2>3
  <2>5. b = c => i \in Nat
    BY <1>4, <2>2
  <2>6. e = c => j \in Nat
    BY <1>4, <2>4
  <2> QED
    BY <1>6, <2>2, <2>4, <2>5, <2>6
<1>7. f \in Injection(QueuedIn(r, d, u), QueuedIn(q, d, u))
  BY <1>5, <1>6 DEF Injection, IsInjective
<1> HIDE DEF f
<1> QED
  BY <1>7, FS_Injection, FS_CardinalityType

-------------------------------------------------------------------------------
(* The steps, and the theorem. *)

\* Of the reads, a step changes one count.
LEMMA FetchingChange ==
  ASSUME TypeOK, NEW a \in Devices, NEW b \in SuShares, NEW c \in Users, NEW n,
         fetching' = [fetching EXCEPT ![a][b][c] = n]
  PROVE  /\ fetching'[a][b][c] = n
         /\ \A x \in Devices, y \in SuShares, z \in Users :
              ~ (x = a /\ y = b /\ z = c) => fetching'[x][y][z] = fetching[x][y][z]
<1>1. fetching'[a] = [fetching[a] EXCEPT ![b][c] = n]
      /\ \A x \in Devices : x # a => fetching'[x] = fetching[x]
  BY DEF TypeOK
<1>2. fetching[a] \in [SuShares -> [Users -> Nat]] /\ fetching[a][b] \in [Users -> Nat]
  BY DEF TypeOK
<1>3. fetching'[a][b] = [fetching[a][b] EXCEPT ![c] = n]
      /\ \A y \in SuShares : y # b => fetching'[a][y] = fetching[a][y]
  BY <1>1, <1>2
<1>4. fetching'[a][b][c] = n /\ \A z \in Users : z # c => fetching'[a][b][z] = fetching[a][b][z]
  BY <1>2, <1>3
<1> QED
  BY <1>1, <1>3, <1>4

LEMMA NoticesTypes ==
  ASSUME TypeOK, NEW d \in SuShares, NEW u \in Users
  PROVE  /\ [v \in Users |-> inbox[v][d][u]] \in [Users -> Nat]
         /\ [p \in Readers(u) |-> fetching[p[1]][d][p[2]]] \in [Readers(u) -> Nat]
         /\ committed[d][u] \in Nat
<1>1. \A v \in Users : inbox[v][d][u] \in Nat
  BY DEF TypeOK
<1>2. ASSUME NEW p \in Readers(u) PROVE fetching[p[1]][d][p[2]] \in Nat
  <2>1. p[1] \in Devices /\ p[2] \in Users
    BY <1>2 DEF Readers, DevicesOf
  <2> QED
    BY <2>1 DEF TypeOK
<1> QED
  BY <1>1, <1>2 DEF TypeOK

\* What NoticesFit says, as numbers.
LEMMA NoticesNumbers ==
  ASSUME TypeOK, NoticesFit, NEW d \in SuShares, NEW u \in Users
  PROVE  /\ Cardinality(Notices(d, u)) \in Nat
         /\ Cardinality(Reads(fetching, d, u)) \in Nat
         /\ Cardinality(QueuedIn(queue, d, u)) \in Nat
         /\ committed[d][u] \in Nat
BY FS_CardinalityType DEF NoticesFit, TypeOK

\* A step that queues no notice, and takes writes out of queues at most.
LEMMA QueueOnly ==
  ASSUME TypeOK, NoticesFit, UNCHANGED <<inbox, fetching, committed>>,
         \A d \in SuShares, u \in Users :
           /\ IsFiniteSet(QueuedIn(queue', d, u))
           /\ Cardinality(QueuedIn(queue', d, u)) <= Cardinality(QueuedIn(queue, d, u))
  PROVE  NoticesFit'
<1> SUFFICES ASSUME NEW d \in SuShares, NEW u \in Users
             PROVE  /\ IsFiniteSet(Notices(d, u)')
                    /\ IsFiniteSet(Reads(fetching', d, u))
                    /\ IsFiniteSet(QueuedIn(queue', d, u))
                    /\ Cardinality(Notices(d, u)') + Cardinality(Reads(fetching', d, u))
                         + Cardinality(QueuedIn(queue', d, u)) <= committed'[d][u]
  BY DEF NoticesFit
<1>1. Notices(d, u)' = Notices(d, u) /\ Reads(fetching', d, u) = Reads(fetching, d, u)
  BY DEF Notices
<1>2. Cardinality(QueuedIn(queue', d, u)) \in Nat
  BY FS_CardinalityType
<1>3. /\ IsFiniteSet(Notices(d, u)) /\ IsFiniteSet(Reads(fetching, d, u))
      /\ Cardinality(Notices(d, u)) + Cardinality(Reads(fetching, d, u))
           + Cardinality(QueuedIn(queue, d, u)) <= committed[d][u]
  BY DEF NoticesFit
<1> QED
  BY <1>1, <1>2, <1>3, NoticesNumbers

LEMMA EnqueueQueued ==
  ASSUME TypeOK, NoticesFit, NEW c \in Devices, NEW w \in Write, ~w.filed, Enqueue(c, w),
         NEW d \in SuShares, NEW u \in Users
  PROVE  /\ IsFiniteSet(QueuedIn(queue', d, u))
         /\ Cardinality(QueuedIn(queue', d, u))
              <= Cardinality(QueuedIn(queue, d, u))
                   + (IF w.op = "notice" /\ w.doc = d /\ Account[c] = u THEN 1 ELSE 0)
<1>1. queue'[c] = Append(queue[c], w) /\ \A b \in Devices : b # c => queue'[b] = queue[b]
  BY DEF Enqueue, TypeOK
<1>2. IsFiniteSet(QueuedIn(queue, d, u)) /\ queue \in [Devices -> Seq(Write)]
  BY DEF NoticesFit, TypeOK
<1> QED
  BY <1>1, <1>2, AppendQueued

LEMMA OtherEnqueued ==
  ASSUME TypeOK, NoticesFit, NEW c \in Devices, NEW w \in Write, w.op # "notice", ~w.filed,
         Enqueue(c, w), UNCHANGED <<inbox, fetching, committed>>
  PROVE  NoticesFit'
<1>1. ASSUME NEW d \in SuShares, NEW u \in Users
      PROVE  /\ IsFiniteSet(QueuedIn(queue', d, u))
             /\ Cardinality(QueuedIn(queue', d, u)) <= Cardinality(QueuedIn(queue, d, u))
  <2>1. /\ IsFiniteSet(QueuedIn(queue', d, u))
        /\ Cardinality(QueuedIn(queue', d, u)) <= Cardinality(QueuedIn(queue, d, u)) + 0
    BY EnqueueQueued
  <2> QED
    BY <2>1, NoticesNumbers
<1> QED
  BY <1>1, QueueOnly

LEMMA LessQueued ==
  ASSUME TypeOK, NoticesFit, NEW c \in Devices, queue[c] # <<>>, Dequeue(c),
         NEW d \in SuShares, NEW u \in Users
  PROVE  /\ IsFiniteSet(QueuedIn(queue', d, u))
         /\ Cardinality(QueuedIn(queue', d, u)) <= Cardinality(QueuedIn(queue, d, u))
         /\ Cardinality(QueuedIn(queue', d, u)) \in Nat
<1>1. queue'[c] = Tail(queue[c]) /\ \A b \in Devices : b # c => queue'[b] = queue[b]
  BY DEF Dequeue, TypeOK
<1>2. IsFiniteSet(QueuedIn(queue, d, u)) /\ queue \in [Devices -> Seq(Write)]
  BY DEF NoticesFit, TypeOK
<1> QED
  BY <1>1, <1>2, TailQueued

LEMMA OtherDequeued ==
  ASSUME TypeOK, NoticesFit, NEW c \in Devices, queue[c] # <<>>, Dequeue(c),
         UNCHANGED <<inbox, fetching, committed>>
  PROVE  NoticesFit'
BY LessQueued, QueueOnly

LEMMA FlagSucceededNotices ==
  ASSUME TypeOK, NoticesFit, NEW c \in Devices, FlagSucceeded(c)
  PROVE  NoticesFit'
<1> DEFINE w    == Head(queue[c])
           x    == NewWrite("record", w.doc, <<>>, w.to)
           rest == [queue EXCEPT ![c] = Tail(@)]
<1>1. queue[c] # <<>> /\ UNCHANGED <<inbox, fetching, committed>>
  BY AnsweredQueued DEF FlagSucceeded, Answers, serverVars, historyVars
<1>2. w \in Write /\ Tail(queue[c]) \in Seq(Write)
  BY <1>1, HeadType
<1>3. x \in Write /\ x.op # "notice" /\ ~x.filed
  BY <1>2, EmptyList, NewWriteType DEF Write, Ops, NewWrite
<1>4. rest \in [Devices -> Seq(Write)] /\ rest[c] = Tail(queue[c])
      /\ \A b \in Devices : b # c => rest[b] = queue[b]
  BY <1>2 DEF TypeOK
<1>5. queue' = [queue EXCEPT ![c] = IF w.live THEN Append(Tail(@), x) ELSE Tail(@)]
  BY DEF FlagSucceeded
<1> HIDE DEF w, x, rest
<1>6. ASSUME NEW d \in SuShares, NEW u \in Users
      PROVE  /\ IsFiniteSet(QueuedIn(rest, d, u))
             /\ Cardinality(QueuedIn(rest, d, u)) <= Cardinality(QueuedIn(queue, d, u))
             /\ Cardinality(QueuedIn(rest, d, u)) \in Nat
  <2>1. IsFiniteSet(QueuedIn(queue, d, u)) /\ queue \in [Devices -> Seq(Write)]
    BY DEF NoticesFit, TypeOK
  <2> QED
    BY <1>1, <1>4, <2>1, TailQueued
<1>7. CASE w.live
  <2>1. queue'[c] = Append(rest[c], x) /\ \A b \in Devices : b # c => queue'[b] = rest[b]
    BY <1>4, <1>5, <1>7 DEF TypeOK
  <2>2. ASSUME NEW d \in SuShares, NEW u \in Users
        PROVE  /\ IsFiniteSet(QueuedIn(queue', d, u))
               /\ Cardinality(QueuedIn(queue', d, u)) <= Cardinality(QueuedIn(queue, d, u))
    <3>1. /\ IsFiniteSet(QueuedIn(queue', d, u))
          /\ Cardinality(QueuedIn(queue', d, u))
               <= Cardinality(QueuedIn(rest, d, u))
                    + (IF x.op = "notice" /\ x.doc = d /\ Account[c] = u THEN 1 ELSE 0)
      <4>1. IsFiniteSet(QueuedIn(rest, d, u))
        BY <1>6
      <4> QED
        BY <1>3, <1>4, <2>1, <4>1, AppendQueued
    <3>2. Cardinality(QueuedIn(queue', d, u)) \in Nat
      BY <3>1, FS_CardinalityType
    <3> QED
      BY <1>3, <1>6, <3>1, <3>2, NoticesNumbers
  <2> QED
    BY <1>1, <2>2, QueueOnly
<1>8. CASE ~w.live
  <2>1. queue' = rest
    BY <1>5, <1>8 DEF rest
  <2> QED
    BY <1>1, <1>6, <2>1, QueueOnly
<1> QED
  BY <1>7, <1>8

\* The answer to a read is one read less.
LEMMA FetchedNotices ==
  ASSUME TypeOK, TypeOK', NoticesFit, NEW c \in Devices, NEW e \in SuShares, NEW v \in Users,
         fetching[c][e][v] > 0,
         fetching' = [fetching EXCEPT ![c][e][v] = @ - 1],
         NEW d \in SuShares, NEW u \in Users
  PROVE  /\ IsFiniteSet(Reads(fetching', d, u))
         /\ Cardinality(Reads(fetching', d, u)) \in Nat
         /\ Cardinality(Reads(fetching', d, u))
              + (IF d = e /\ Account[c] = u THEN 1 ELSE 0) = Cardinality(Reads(fetching, d, u))
<1> DEFINE f == [p \in Readers(u) |-> fetching[p[1]][d][p[2]]]
           g == [p \in Readers(u) |-> fetching'[p[1]][d][p[2]]]
<1>1. f \in [Readers(u) -> Nat] /\ g \in [Readers(u) -> Nat]
  <2>1. f \in [Readers(u) -> Nat]
    BY NoticesTypes
  <2>2. ASSUME NEW p \in Readers(u) PROVE fetching'[p[1]][d][p[2]] \in Nat
    BY <2>2 DEF TypeOK, Readers, DevicesOf
  <2> QED
    BY <2>1, <2>2
<1>2. fetching'[c][e][v] = fetching[c][e][v] - 1
  BY DEF TypeOK
<1>3. \A b \in Devices, z \in Users :
        ~ (b = c /\ d = e /\ z = v) => fetching'[b][d][z] = fetching[b][d][z]
  BY FetchingChange
<1>4. IsFiniteSet(Copies(f))
  BY DEF NoticesFit, Reads
<1>5. Copies(f) = Reads(fetching, d, u) /\ Copies(g) = Reads(fetching', d, u)
  BY DEF Reads
<1>6. CASE d = e /\ Account[c] = u
  <2> DEFINE x == <<c, v>>
  <2>1. x \in Readers(u) /\ x[1] = c /\ x[2] = v
    BY <1>6 DEF Readers, DevicesOf
  <2>2. g[x] = fetching[c][e][v] - 1 /\ f[x] = fetching[c][e][v] /\ fetching[c][e][v] \in Nat
    BY <1>2, <1>6, <2>1 DEF TypeOK
  <2>3. f[x] = g[x] + 1
    BY <2>2
  <2>4. ASSUME NEW k \in Readers(u), k # x PROVE g[k] = f[k]
    <3>1. k[1] \in Devices /\ k[2] \in Users /\ k = <<k[1], k[2]>>
      BY DEF Readers, DevicesOf
    <3>2. ~ (k[1] = c /\ k[2] = v)
      BY <2>4, <3>1
    <3> QED
      BY <1>3, <3>1, <3>2
  <2> HIDE DEF f, g, x
  <2>5. \A k \in Readers(u) : g[k] <= f[k]
    <3>1. \A k \in Readers(u) : f[k] \in Nat /\ g[k] \in Nat
      BY <1>1
    <3> QED
      BY <2>3, <2>4, <3>1
  <2>6. IsFiniteSet(Copies(g))
    BY <1>1, <1>4, <2>5, FewerCopies
  <2>7. Cardinality(Copies(f)) = Cardinality(Copies(g)) + 1
    BY <1>1, <2>1, <2>3, <2>4, <2>6, OneMoreCopy
  <2>8. Cardinality(Copies(g)) \in Nat
    BY <2>6, FS_CardinalityType
  <2> QED
    BY <1>5, <1>6, <2>6, <2>7, <2>8
<1>7. CASE ~ (d = e /\ Account[c] = u)
  <2>1. ASSUME NEW k \in Readers(u) PROVE g[k] = f[k]
    <3>1. k[1] \in Devices /\ k[2] \in Users /\ Account[k[1]] = u
      BY DEF Readers, DevicesOf
    <3> QED
      BY <1>3, <1>7, <3>1
  <2>2. f = g
    BY <2>1
  <2>3. Cardinality(Copies(f)) \in Nat
    BY <1>4, FS_CardinalityType
  <2> HIDE DEF f, g
  <2> QED
    BY <1>4, <1>5, <1>7, <2>2, <2>3
<1> QED
  BY <1>6, <1>7

LEMMA SucceedsNotices ==
  ASSUME TypeOK, TypeOK', NoticesFit, NEW c \in Devices, NEW e \in SuShares, NEW v \in Users,
         GetCurrentUserSucceeds(c, e, v)
  PROVE  NoticesFit'
<1> DEFINE w == NewWrite("notice", e, <<>>, v)
<1>1. w \in Write /\ w.op = "notice" /\ w.doc = e /\ ~w.filed
  BY EmptyList, NewWriteType DEF Ops, NewWrite
<1>2. Enqueue(c, w) /\ inbox' = inbox /\ committed' = committed
  BY DEF GetCurrentUserSucceeds, serverVars, historyVars
<1> HIDE DEF w
<1> SUFFICES ASSUME NEW d \in SuShares, NEW u \in Users
             PROVE  /\ IsFiniteSet(Notices(d, u)')
                    /\ IsFiniteSet(Reads(fetching', d, u))
                    /\ IsFiniteSet(QueuedIn(queue', d, u))
                    /\ Cardinality(Notices(d, u)') + Cardinality(Reads(fetching', d, u))
                         + Cardinality(QueuedIn(queue', d, u)) <= committed'[d][u]
  BY DEF NoticesFit
<1> DEFINE one == IF d = e /\ Account[c] = u THEN 1 ELSE 0
<1>3. /\ IsFiniteSet(Reads(fetching', d, u))
      /\ Cardinality(Reads(fetching', d, u)) \in Nat
      /\ Cardinality(Reads(fetching', d, u)) + one = Cardinality(Reads(fetching, d, u))
  BY FetchedNotices DEF GetCurrentUserSucceeds
<1>4. /\ IsFiniteSet(QueuedIn(queue', d, u))
      /\ Cardinality(QueuedIn(queue', d, u)) <= Cardinality(QueuedIn(queue, d, u)) + one
  BY <1>1, <1>2, EnqueueQueued
<1>5. Notices(d, u)' = Notices(d, u)
  BY <1>2 DEF Notices
<1>6. Cardinality(QueuedIn(queue', d, u)) \in Nat
  BY <1>4, FS_CardinalityType
<1>7. /\ IsFiniteSet(Notices(d, u))
      /\ Cardinality(Notices(d, u)) + Cardinality(Reads(fetching, d, u))
           + Cardinality(QueuedIn(queue, d, u)) <= committed[d][u]
  BY DEF NoticesFit
<1>8. one \in Nat
  OBVIOUS
<1> HIDE DEF one
<1> QED
  BY <1>2, <1>3, <1>4, <1>5, <1>6, <1>7, <1>8, NoticesNumbers

LEMMA FailsNotices ==
  ASSUME TypeOK, TypeOK', NoticesFit, NEW c \in Devices, NEW e \in SuShares, NEW v \in Users,
         GetCurrentUserFails(c, e, v)
  PROVE  NoticesFit'
<1>1. UNCHANGED <<inbox, queue, committed>>
  BY DEF GetCurrentUserFails, serverVars, historyVars
<1> SUFFICES ASSUME NEW d \in SuShares, NEW u \in Users
             PROVE  /\ IsFiniteSet(Notices(d, u)')
                    /\ IsFiniteSet(Reads(fetching', d, u))
                    /\ IsFiniteSet(QueuedIn(queue', d, u))
                    /\ Cardinality(Notices(d, u)') + Cardinality(Reads(fetching', d, u))
                         + Cardinality(QueuedIn(queue', d, u)) <= committed'[d][u]
  BY DEF NoticesFit
<1>2. PICK n \in {0, 1} :
        /\ IsFiniteSet(Reads(fetching', d, u))
        /\ Cardinality(Reads(fetching', d, u)) \in Nat
        /\ Cardinality(Reads(fetching', d, u)) + n = Cardinality(Reads(fetching, d, u))
  BY FetchedNotices DEF GetCurrentUserFails
<1>3. Notices(d, u)' = Notices(d, u)
  BY <1>1 DEF Notices
<1>4. /\ IsFiniteSet(Notices(d, u)) /\ IsFiniteSet(QueuedIn(queue, d, u))
      /\ Cardinality(Notices(d, u)) + Cardinality(Reads(fetching, d, u))
           + Cardinality(QueuedIn(queue, d, u)) <= committed[d][u]
  BY DEF NoticesFit
<1> QED
  BY <1>1, <1>2, <1>3, <1>4, NoticesNumbers

\* An answered join pays for the read that its handler sends, if it still exists.
LEMMA JoinSucceededNotices ==
  ASSUME TypeOK, TypeOK', NoticesFit, NEW c \in Devices, JoinSucceeded(c)
  PROVE  NoticesFit'
<1> DEFINE w  == Head(queue[c])
           e  == w.doc
           to == w.to
           u0 == Account[c]
<1>1. /\ queue[c] # <<>> /\ Dequeue(c) /\ inbox' = inbox
      /\ committed' = [committed EXCEPT ![e][u0] = @ + 1]
      /\ fetching' = IF w.live THEN [fetching EXCEPT ![c][e][to] = @ + 1] ELSE fetching
  BY AnsweredQueued DEF JoinSucceeded, Answers, serverVars
<1>2. w \in Write /\ u0 \in Users /\ e \in SuShares /\ to \in Users
  BY <1>1, HeadType, AccountAssumption DEF Write
<1> HIDE DEF w, e, to, u0
<1> SUFFICES ASSUME NEW d \in SuShares, NEW u \in Users
             PROVE  /\ IsFiniteSet(Notices(d, u)')
                    /\ IsFiniteSet(Reads(fetching', d, u))
                    /\ IsFiniteSet(QueuedIn(queue', d, u))
                    /\ Cardinality(Notices(d, u)') + Cardinality(Reads(fetching', d, u))
                         + Cardinality(QueuedIn(queue', d, u)) <= committed'[d][u]
  BY DEF NoticesFit
<1> DEFINE one == IF d = e /\ u = u0 THEN 1 ELSE 0
<1>3. committed'[d][u] = committed[d][u] + one
  <2>1. CASE d = e /\ u = u0
    BY <1>1, <1>2, <2>1 DEF TypeOK
  <2>2. CASE ~ (d = e /\ u = u0)
    <3>1. committed'[d][u] = committed[d][u]
      <4>1. committed \in [SuShares -> [Users -> Nat]] /\ committed[e] \in [Users -> Nat]
        BY <1>2 DEF TypeOK
      <4>2. /\ committed'[e] = [committed[e] EXCEPT ![u0] = committed[e][u0] + 1]
            /\ \A y \in SuShares : y # e => committed'[y] = committed[y]
        BY <1>1, <1>2, <4>1
      <4>3. \A v \in Users : v # u0 => committed'[e][v] = committed[e][v]
        BY <1>2, <4>1, <4>2
      <4>4. CASE d # e
        BY <4>2, <4>4
      <4>5. CASE d = e /\ u # u0
        BY <4>3, <4>5
      <4> QED
        BY <2>2, <4>4, <4>5
    <3>2. committed[d][u] \in Nat
      BY DEF TypeOK
    <3> QED
      BY <2>2, <3>1, <3>2
  <2> QED
    BY <2>1, <2>2
<1>4. /\ IsFiniteSet(Reads(fetching', d, u))
      /\ Cardinality(Reads(fetching', d, u)) \in Nat
      /\ Cardinality(Reads(fetching', d, u)) <= Cardinality(Reads(fetching, d, u)) + one
  <2> DEFINE f == [p \in Readers(u) |-> fetching[p[1]][d][p[2]]]
             g == [p \in Readers(u) |-> fetching'[p[1]][d][p[2]]]
             x == <<c, to>>
  <2>1. f \in [Readers(u) -> Nat] /\ g \in [Readers(u) -> Nat]
    <3>1. f \in [Readers(u) -> Nat]
      BY NoticesTypes
    <3>2. ASSUME NEW p \in Readers(u) PROVE fetching'[p[1]][d][p[2]] \in Nat
      BY <3>2 DEF TypeOK, Readers, DevicesOf
    <3> QED
      BY <3>1, <3>2
  <2>2. Copies(f) = Reads(fetching, d, u) /\ Copies(g) = Reads(fetching', d, u)
    BY DEF Reads
  <2>3. IsFiniteSet(Copies(f)) /\ Cardinality(Copies(f)) \in Nat
    BY <2>2, NoticesNumbers DEF NoticesFit
  <2>4. CASE w.live /\ d = e /\ u = u0
    <3>1. x \in Readers(u) /\ x[1] = c /\ x[2] = to
      BY <1>2, <2>4 DEF Readers, DevicesOf, u0
    <3>2. fetching' = [fetching EXCEPT ![c][e][to] = fetching[c][e][to] + 1]
      BY <1>1, <2>4
    <3>3. /\ fetching'[c][d][to] = fetching[c][d][to] + 1
          /\ \A b \in Devices, y \in SuShares, z \in Users :
               ~ (b = c /\ y = e /\ z = to) => fetching'[b][y][z] = fetching[b][y][z]
      <4> DEFINE n == fetching[c][e][to] + 1
      <4>1. fetching' = [fetching EXCEPT ![c][e][to] = n]
        BY <3>2
      <4> HIDE DEF n
      <4>2. /\ fetching \in [Devices -> [SuShares -> [Users -> Nat]]]
            /\ fetching[c] \in [SuShares -> [Users -> Nat]] /\ fetching[c][e] \in [Users -> Nat]
        BY <1>2 DEF TypeOK
      <4>3. /\ fetching'[c] = [fetching[c] EXCEPT ![e][to] = n]
            /\ \A b \in Devices : b # c => fetching'[b] = fetching[b]
        BY <1>2, <4>1, <4>2
      <4>4. /\ fetching'[c][e] = [fetching[c][e] EXCEPT ![to] = n]
            /\ \A y \in SuShares : y # e => fetching'[c][y] = fetching[c][y]
        BY <1>2, <4>2, <4>3
      <4>5. /\ fetching'[c][e][to] = n
            /\ \A z \in Users : z # to => fetching'[c][e][z] = fetching[c][e][z]
        BY <1>2, <4>2, <4>4
      <4> QED
        BY <2>4, <4>3, <4>4, <4>5 DEF n
    <3>4. g[x] = f[x] + 1
      BY <3>1, <3>3
    <3>5. ASSUME NEW k \in Readers(u), k # x PROVE g[k] = f[k]
      <4>1. k[1] \in Devices /\ k[2] \in Users /\ k = <<k[1], k[2]>>
        BY DEF Readers, DevicesOf
      <4>2. ~ (k[1] = c /\ k[2] = to)
        BY <3>5, <4>1
      <4> QED
        BY <3>3, <4>1, <4>2
    <3> HIDE DEF f, g, x
    <3>6. /\ IsFiniteSet(Copies(g))
          /\ Cardinality(Copies(g)) = Cardinality(Copies(f)) + 1
      BY <2>1, <2>3, <3>1, <3>4, <3>5, OneMoreCopy
    <3> QED
      BY <2>2, <2>3, <2>4, <3>6
  <2>5. CASE ~ (w.live /\ d = e /\ u = u0)
    <3>1. ASSUME NEW k \in Readers(u) PROVE g[k] = f[k]
      <4>1. k[1] \in Devices /\ k[2] \in Users /\ Account[k[1]] = u
        BY DEF Readers, DevicesOf
      <4>2. CASE ~w.live
        BY <1>1, <4>2
      <4>3. CASE w.live
        <5>1. fetching' = [fetching EXCEPT ![c][e][to] = fetching[c][e][to] + 1]
          BY <1>1, <4>3
        <5>2. ~ (k[1] = c /\ d = e)
          BY <2>5, <4>1, <4>3 DEF u0
        <5> QED
          BY <1>2, <4>1, <5>1, <5>2, FetchingChange
      <4> QED
        BY <4>2, <4>3
    <3>2. f = g
      BY <3>1
    <3> HIDE DEF f, g
    <3>3. one \in Nat
      OBVIOUS
    <3> HIDE DEF one
    <3> QED
      BY <2>2, <2>3, <3>2, <3>3
  <2> QED
    BY <2>4, <2>5
<1>5. /\ IsFiniteSet(QueuedIn(queue', d, u))
      /\ Cardinality(QueuedIn(queue', d, u)) <= Cardinality(QueuedIn(queue, d, u))
      /\ Cardinality(QueuedIn(queue', d, u)) \in Nat
  BY <1>1, LessQueued
<1>6. Notices(d, u)' = Notices(d, u)
  BY <1>1 DEF Notices
<1>7. /\ IsFiniteSet(Notices(d, u))
      /\ Cardinality(Notices(d, u)) + Cardinality(Reads(fetching, d, u))
           + Cardinality(QueuedIn(queue, d, u)) <= committed[d][u]
  BY DEF NoticesFit
<1>8. one \in Nat
  OBVIOUS
<1> HIDE DEF one
<1> QED
  BY <1>3, <1>4, <1>5, <1>6, <1>7, <1>8, NoticesNumbers

\* A notice that comes on file was queued, and is on file from then on.
LEMMA StoreNoticeNotices ==
  ASSUME TypeOK, TypeOK', NoticesFit, NEW c \in Devices, StoreNotice(c)
  PROVE  NoticesFit'
<1> DEFINE w  == NextWrite(c)
           n  == reached[c] + 1
           e  == w.doc
           to == w.to
           u0 == Account[c]
<1>1. /\ w.op = "notice"
      /\ UNCHANGED <<fetching, committed>>
      /\ inbox' = IF w.filed THEN inbox
                  ELSE [inbox EXCEPT ![to][e][u0] = inbox[to][e][u0] + 1]
      /\ queue' = [queue EXCEPT ![c][n] = [w EXCEPT !.filed = TRUE]]
  BY DEF StoreNotice, Applies, historyVars
<1>2. w \in Write /\ u0 \in Users /\ e \in SuShares /\ to \in Users
      /\ n \in DOMAIN queue[c] /\ w = queue[c][n]
  BY NextFacts, AccountAssumption DEF StoreNotice, Applies
<1> SUFFICES ASSUME NEW d \in SuShares, NEW u \in Users
             PROVE  /\ IsFiniteSet(Notices(d, u)')
                    /\ IsFiniteSet(Reads(fetching', d, u))
                    /\ IsFiniteSet(QueuedIn(queue', d, u))
                    /\ Cardinality(Notices(d, u)') + Cardinality(Reads(fetching', d, u))
                         + Cardinality(QueuedIn(queue', d, u)) <= committed'[d][u]
  BY DEF NoticesFit
<1> DEFINE one == IF ~w.filed /\ e = d /\ u0 = u THEN 1 ELSE 0
<1>3. /\ IsFiniteSet(QueuedIn(queue', d, u))
      /\ Cardinality(QueuedIn(queue', d, u)) + one = Cardinality(QueuedIn(queue, d, u))
  <2>1. queue[c] \in Seq(Write) /\ DOMAIN queue[c] = 1..Len(queue[c])
    BY LenProperties DEF TypeOK
  <2>2. /\ queue'[c] = [queue[c] EXCEPT ![n] = [w EXCEPT !.filed = TRUE]]
        /\ \A b \in Devices : b # c => queue'[b] = queue[b]
    BY <1>1 DEF TypeOK
  <2>3. [w EXCEPT !.filed = TRUE].filed = TRUE
    BY <1>2 DEF Write
  <2> HIDE DEF w, n, e, to, u0
  <2>4. /\ DOMAIN queue'[c] = DOMAIN queue[c]
        /\ queue'[c][n].filed = TRUE
        /\ \A i \in DOMAIN queue[c] : i # n => queue'[c][i] = queue[c][i]
    BY <1>2, <2>1, <2>2, <2>3
  <2>5. NoticesIn(queue'[c], d) = NoticesIn(queue[c], d) \ {n}
    BY <2>4 DEF NoticesIn
  <2> DEFINE old(b) == NoticesIn(queue[b], d)
             now(b) == NoticesIn(queue'[b], d)
  <2>6. /\ QueuedIn(queue, d, u) = UNION {{b} \X old(b) : b \in DevicesOf(u)}
        /\ QueuedIn(queue', d, u) = UNION {{b} \X now(b) : b \in DevicesOf(u)}
    BY DEF QueuedIn
  <2>7. now(c) = old(c) \ {n} /\ \A b \in DevicesOf(u) : b # c => now(b) = old(b)
    BY <2>2, <2>5 DEF DevicesOf
  <2>8. <<c, n>> \in QueuedIn(queue, d, u) <=> ~w.filed /\ e = d /\ u0 = u
    <3>1. n \in NoticesIn(queue[c], d) <=> ~w.filed /\ e = d
      BY <1>1, <1>2 DEF NoticesIn, e
    <3>2. c \in DevicesOf(u) <=> u0 = u
      BY DEF DevicesOf, u0
    <3> QED
      BY <3>1, <3>2 DEF QueuedIn
  <2> HIDE DEF old, now
  <2>9. QueuedIn(queue', d, u) = QueuedIn(queue, d, u) \ {<<c, n>>}
    BY <2>6, <2>7
  <2>10. /\ IsFiniteSet(QueuedIn(queue, d, u) \ {<<c, n>>})
         /\ Cardinality(QueuedIn(queue, d, u) \ {<<c, n>>})
              = IF <<c, n>> \in QueuedIn(queue, d, u)
                THEN Cardinality(QueuedIn(queue, d, u)) - 1
                ELSE Cardinality(QueuedIn(queue, d, u))
    BY FS_RemoveElement DEF NoticesFit
  <2>11. Cardinality(QueuedIn(queue, d, u)) \in Nat
    BY NoticesNumbers
  <2> QED
    BY <2>8, <2>9, <2>10, <2>11
<1> HIDE DEF w, e, to, u0, n
<1>4. /\ IsFiniteSet(Notices(d, u)')
      /\ Cardinality(Notices(d, u)') = Cardinality(Notices(d, u)) + one
  <2> DEFINE f == [v \in Users |-> inbox[v][d][u]]
             g == [v \in Users |-> inbox'[v][d][u]]
  <2>1. f \in [Users -> Nat] /\ g \in [Users -> Nat]
    <3>1. \A v \in Users : inbox[v][d][u] \in Nat /\ inbox'[v][d][u] \in Nat
      BY DEF TypeOK
    <3> QED
      BY <3>1
  <2>2. Copies(f) = Notices(d, u) /\ Copies(g) = Notices(d, u)'
    BY DEF Notices
  <2>3. IsFiniteSet(Copies(f)) /\ Cardinality(Copies(f)) \in Nat
    BY <2>2, NoticesNumbers DEF NoticesFit
  <2>4. ASSUME ~w.filed
        PROVE  /\ inbox'[to][e][u0] = inbox[to][e][u0] + 1
               /\ \A v \in Users, y \in SuShares, z \in Users :
                    ~ (v = to /\ y = e /\ z = u0) => inbox'[v][y][z] = inbox[v][y][z]
    <3> DEFINE m == inbox[to][e][u0] + 1
    <3>1. inbox' = [inbox EXCEPT ![to][e][u0] = m]
      BY <1>1, <2>4
    <3> HIDE DEF m
    <3>2. /\ inbox \in [Users -> [SuShares -> [Users -> Nat]]]
          /\ inbox[to] \in [SuShares -> [Users -> Nat]] /\ inbox[to][e] \in [Users -> Nat]
      BY <1>2 DEF TypeOK
    <3>3. /\ inbox'[to] = [inbox[to] EXCEPT ![e][u0] = m]
          /\ \A x \in Users : x # to => inbox'[x] = inbox[x]
      BY <1>2, <3>1, <3>2
    <3>4. /\ inbox'[to][e] = [inbox[to][e] EXCEPT ![u0] = m]
          /\ \A y \in SuShares : y # e => inbox'[to][y] = inbox[to][y]
      BY <1>2, <3>2, <3>3
    <3>5. /\ inbox'[to][e][u0] = m
          /\ \A z \in Users : z # u0 => inbox'[to][e][z] = inbox[to][e][z]
      BY <1>2, <3>2, <3>4
    <3> QED
      BY <3>3, <3>4, <3>5 DEF m
  <2>5. CASE ~w.filed /\ e = d /\ u0 = u
    <3>1. g[to] = f[to] + 1 /\ \A v \in Users : v # to => g[v] = f[v]
      BY <1>2, <2>4, <2>5
    <3> HIDE DEF f, g
    <3>2. /\ IsFiniteSet(Copies(g))
          /\ Cardinality(Copies(g)) = Cardinality(Copies(f)) + 1
      BY <1>2, <2>1, <2>3, <3>1, OneMoreCopy
    <3> QED
      BY <2>2, <2>5, <3>2
  <2>6. CASE ~ (~w.filed /\ e = d /\ u0 = u)
    <3>1. f = g
      BY <1>1, <2>4, <2>6
    <3> HIDE DEF f, g
    <3> QED
      BY <2>2, <2>3, <2>6, <3>1
  <2> QED
    BY <2>5, <2>6
<1>5. Cardinality(QueuedIn(queue', d, u)) \in Nat
  BY <1>3, FS_CardinalityType
<1>6. /\ IsFiniteSet(Reads(fetching, d, u))
      /\ Cardinality(Notices(d, u)) + Cardinality(Reads(fetching, d, u))
           + Cardinality(QueuedIn(queue, d, u)) <= committed[d][u]
  BY DEF NoticesFit
<1>7. one \in Nat
  OBVIOUS
<1> HIDE DEF one
<1> QED
  BY <1>1, <1>3, <1>4, <1>5, <1>6, <1>7, NoticesNumbers

\* A kill leaves the notices that are queued, and forgets reads.
LEMMA KillNotices ==
  ASSUME TypeOK, TypeOK', NoticesFit, NEW c \in Devices, Kill(c)
  PROVE  NoticesFit'
<1>1. UNCHANGED <<inbox, committed>>
  BY DEF Kill, serverVars, historyVars
<1>2. ASSUME NEW b \in Devices, NEW d \in SuShares
      PROVE  NoticesIn(queue'[b], d) = NoticesIn(queue[b], d)
  <2>1. CASE b # c
    <3>1. queue'[b] = queue[b]
      BY <2>1 DEF Kill, TypeOK
    <3> QED
      BY <3>1
  <2>2. CASE b = c
    <3>1. queue'[c] = [i \in DOMAIN queue[c] |-> [queue[c][i] EXCEPT !.live = FALSE]]
      BY DEF Kill, TypeOK
    <3>2. \A i \in DOMAIN queue[c] : queue[c][i] \in Write
      BY ElementOfSeq, LenProperties DEF TypeOK
    <3>3. /\ DOMAIN queue'[c] = DOMAIN queue[c]
          /\ \A i \in DOMAIN queue[c] : /\ queue'[c][i].op = queue[c][i].op
                                        /\ queue'[c][i].doc = queue[c][i].doc
                                        /\ queue'[c][i].filed = queue[c][i].filed
      BY <3>1, <3>2 DEF Write
    <3> QED
      BY <2>2, <3>3 DEF NoticesIn
  <2> QED
    BY <2>1, <2>2
<1>3. \A b \in Devices, d \in SuShares, v \in Users :
        fetching'[b][d][v] = fetching[b][d][v] \/ fetching'[b][d][v] = 0
  BY DEF Kill, TypeOK
<1> SUFFICES ASSUME NEW d \in SuShares, NEW u \in Users
             PROVE  /\ IsFiniteSet(Notices(d, u)')
                    /\ IsFiniteSet(Reads(fetching', d, u))
                    /\ IsFiniteSet(QueuedIn(queue', d, u))
                    /\ Cardinality(Notices(d, u)') + Cardinality(Reads(fetching', d, u))
                         + Cardinality(QueuedIn(queue', d, u)) <= committed'[d][u]
  BY DEF NoticesFit
<1>4. /\ IsFiniteSet(Reads(fetching', d, u))
      /\ Cardinality(Reads(fetching', d, u)) <= Cardinality(Reads(fetching, d, u))
      /\ Cardinality(Reads(fetching', d, u)) \in Nat
  <2> DEFINE f == [p \in Readers(u) |-> fetching[p[1]][d][p[2]]]
             g == [p \in Readers(u) |-> fetching'[p[1]][d][p[2]]]
  <2>1. f \in [Readers(u) -> Nat]
    BY NoticesTypes
  <2>2. ASSUME NEW k \in Readers(u) PROVE g[k] \in Nat /\ g[k] <= f[k]
    <3>1. k[1] \in Devices /\ k[2] \in Users
      BY DEF Readers, DevicesOf
    <3>2. f[k] \in Nat /\ (g[k] = f[k] \/ g[k] = 0)
      BY <1>3, <2>1, <3>1
    <3> HIDE DEF f, g
    <3> QED
      BY <3>2
  <2>3. g \in [Readers(u) -> Nat]
    BY <2>2
  <2>4. Copies(f) = Reads(fetching, d, u) /\ Copies(g) = Reads(fetching', d, u)
    BY DEF Reads
  <2>5. IsFiniteSet(Copies(f))
    BY <2>4 DEF NoticesFit
  <2> HIDE DEF f, g
  <2>6. IsFiniteSet(Copies(g)) /\ Cardinality(Copies(g)) <= Cardinality(Copies(f))
    BY <2>1, <2>2, <2>3, <2>5, FewerCopies
  <2>7. Cardinality(Copies(g)) \in Nat
    BY <2>6, FS_CardinalityType
  <2> QED
    BY <2>4, <2>6, <2>7
<1>5. QueuedIn(queue', d, u) = QueuedIn(queue, d, u)
  BY <1>2, SameQueued
<1>6. Notices(d, u)' = Notices(d, u)
  BY <1>1 DEF Notices
<1>7. /\ IsFiniteSet(Notices(d, u)) /\ IsFiniteSet(QueuedIn(queue, d, u))
      /\ Cardinality(Notices(d, u)) + Cardinality(Reads(fetching, d, u))
           + Cardinality(QueuedIn(queue, d, u)) <= committed[d][u]
  BY DEF NoticesFit
<1> QED
  BY <1>1, <1>4, <1>5, <1>6, <1>7, NoticesNumbers

LEMMA InitNotices ==
  ASSUME Init
  PROVE  NoticesFit
<1> SUFFICES ASSUME NEW d \in SuShares, NEW u \in Users
             PROVE  /\ IsFiniteSet(Notices(d, u))
                    /\ IsFiniteSet(Reads(fetching, d, u))
                    /\ IsFiniteSet(QueuedIn(queue, d, u))
                    /\ Cardinality(Notices(d, u)) + Cardinality(Reads(fetching, d, u))
                         + Cardinality(QueuedIn(queue, d, u)) <= committed[d][u]
  BY DEF NoticesFit
<1>1. IsFiniteSet(Notices(d, u)) /\ Cardinality(Notices(d, u)) = 0
  <2> DEFINE f == [v \in Users |-> inbox[v][d][u]]
  <2>1. \A v \in DOMAIN f : f[v] = 0
    BY DEF Init
  <2> HIDE DEF f
  <2>2. IsFiniteSet(Copies(f)) /\ Cardinality(Copies(f)) = 0
    BY <2>1, NoCopies
  <2> QED
    BY <2>2 DEF Notices, f
<1>2. IsFiniteSet(Reads(fetching, d, u)) /\ Cardinality(Reads(fetching, d, u)) = 0
  <2> DEFINE f == [p \in Readers(u) |-> fetching[p[1]][d][p[2]]]
  <2>1. \A p \in DOMAIN f : f[p] = 0
    BY DEF Init, Readers, DevicesOf
  <2> HIDE DEF f
  <2>2. IsFiniteSet(Copies(f)) /\ Cardinality(Copies(f)) = 0
    BY <2>1, NoCopies
  <2> QED
    BY <2>2 DEF Reads, f
<1>3. QueuedIn(queue, d, u) = {}
  <2>1. DOMAIN <<>> = {}
    OBVIOUS
  <2>2. \A c \in Devices : NoticesIn(queue[c], d) = {}
    BY <2>1 DEF Init, NoticesIn
  <2> QED
    BY <2>2 DEF QueuedIn, DevicesOf
<1>4. committed[d][u] = 0
  BY DEF Init
<1> QED
  BY <1>1, <1>2, <1>3, <1>4, FS_EmptySet

LEMMA StepNotices ==
  ASSUME TypeOK, TypeOK', NoticesFit, [Next]_vars
  PROVE  NoticesFit'
<1> USE DEF serverVars, historyVars
<1>1. UNCHANGED <<inbox, fetching, committed, queue>> => NoticesFit'
  <2> SUFFICES ASSUME UNCHANGED <<inbox, fetching, committed, queue>> PROVE NoticesFit'
    OBVIOUS
  <2>1. \A d \in SuShares, u \in Users :
          /\ IsFiniteSet(QueuedIn(queue', d, u))
          /\ Cardinality(QueuedIn(queue', d, u)) <= Cardinality(QueuedIn(queue, d, u))
    BY NoticesNumbers DEF NoticesFit
  <2> QED
    BY <2>1, QueueOnly
<1>2. ASSUME NEW c \in Devices, NEW d \in SuShares,
             \/ OpenDetail(c, d) \/ OpenCreated(c, d)
             \/ \E v \in Users : OpenFavorite(c, v, d)
      PROVE  NoticesFit'
  BY <1>1, <1>2 DEF OpenDetail, OpenCreated, OpenFavorite
<1>3. ASSUME NEW c \in Devices, DeliverSnapshot(c) PROVE NoticesFit'
  BY <1>1, <1>3 DEF DeliverSnapshot
<1>4. ASSUME NEW c \in Devices, NEW d \in SuShares, CreateASusu(c, d) PROVE NoticesFit'
  <2> DEFINE w == NewWrite("create", d, <<Account[c]>>, Account[c])
  <2>1. w \in Write /\ w.op # "notice" /\ ~w.filed
    <3>1. Account[c] \in Users /\ <<Account[c]>> \in Seq(Users)
      BY AccountAssumption
    <3> QED
      BY <3>1, NewWriteType DEF Ops, NewWrite
  <2>2. Enqueue(c, w) /\ UNCHANGED <<inbox, fetching, committed>>
    BY <1>4 DEF CreateASusu
  <2> HIDE DEF w
  <2> QED
    BY <2>1, <2>2, OtherEnqueued
<1>5. ASSUME NEW c \in Devices, NEW d \in SuShares, ReportPressed(c, d) PROVE NoticesFit'
  <2> DEFINE w == NewWrite("flag", d, <<>>, Account[c])
  <2>1. w \in Write /\ w.op # "notice" /\ ~w.filed
    BY AccountAssumption, EmptyList, NewWriteType DEF Ops, NewWrite
  <2>2. Enqueue(c, w) /\ UNCHANGED <<inbox, fetching, committed>>
    BY <1>5 DEF ReportPressed
  <2> HIDE DEF w
  <2> QED
    BY <2>1, <2>2, OtherEnqueued
<1>6. ASSUME NEW c \in Devices, JoinSushareButtonPressed(c) PROVE NoticesFit'
  <2> DEFINE s == detail[c]
             w == NewWrite("join", s.id, JoinedList(s, Account[c]), s.userId)
  <2>1. Account[c] \in Users
    BY AccountAssumption
  <2>2. s \in Screen
    BY <1>6 DEF JoinSushareButtonPressed, TypeOK, NoScreen
  <2>3. JoinedList(s, Account[c]) \in Seq(Users) /\ s.id \in SuShares /\ s.userId \in Users
    BY <2>1, <2>2, AppendProperties DEF Screen, JoinedList
  <2>4. w \in Write /\ w.op # "notice" /\ ~w.filed
    BY <2>3, NewWriteType DEF Ops, NewWrite
  <2>5. Enqueue(c, w) /\ UNCHANGED <<inbox, fetching, committed>>
    BY <1>6 DEF JoinSushareButtonPressed
  <2> HIDE DEF w
  <2> QED
    BY <2>4, <2>5, OtherEnqueued
<1>7. ASSUME NEW c \in Devices, FavoriteButtonPressed(c) PROVE NoticesFit'
  <2> DEFINE s == detail[c]
             x == NewWrite("favorite", s.id, s.users, Account[c])
             y == NewWrite("unfavorite", s.id, <<>>, Account[c])
  <2>1. Account[c] \in Users
    BY AccountAssumption
  <2>2. s \in Screen
    BY <1>7 DEF FavoriteButtonPressed, TypeOK, NoScreen
  <2>3. s.users \in Seq(Users) /\ s.id \in SuShares
    BY <2>2 DEF Screen
  <2>4. x \in Write /\ x.op # "notice" /\ y \in Write /\ y.op # "notice"
        /\ ~x.filed /\ ~y.filed
    BY <2>1, <2>3, EmptyList, NewWriteType DEF Ops, NewWrite
  <2>5. (Enqueue(c, x) \/ Enqueue(c, y)) /\ UNCHANGED <<inbox, fetching, committed>>
    BY <1>7 DEF FavoriteButtonPressed
  <2> HIDE DEF x, y
  <2> QED
    BY <2>4, <2>5, OtherEnqueued
<1>8. ASSUME NEW c \in Devices, Store(c) PROVE NoticesFit'
  <2>1. CASE ~StoreNotice(c)
    BY <1>1, <1>8, <2>1 DEF Store, StoreCreate, StoreJoin, StoreFlag, StoreRecord,
                            StoreFavorite, StoreUnfavorite
  <2> QED
    BY <2>1, StoreNoticeNotices
<1>13. ASSUME NEW c \in Devices, Succeed(c) PROVE NoticesFit'
  <2>1. CASE WriteSucceeded(c)
    <3>1. queue[c] # <<>> /\ Dequeue(c) /\ UNCHANGED <<inbox, fetching, committed>>
      BY <2>1, AnsweredQueued DEF WriteSucceeded, Answers
    <3> QED
      BY <3>1, OtherDequeued
  <2> QED
    BY <1>13, <2>1, JoinSucceededNotices, FlagSucceededNotices DEF Succeed
<1>14. ASSUME NEW c \in Devices, Disconnect(c) PROVE NoticesFit'
  BY <1>1, <1>14 DEF Disconnect
<1>9. ASSUME NEW c \in Devices, Fetched(c) PROVE NoticesFit'
  BY <1>9, SucceedsNotices, FailsNotices DEF Fetched
<1>10. ASSUME NEW c \in Devices, Reject(c) PROVE NoticesFit'
  BY <1>10, OtherDequeued DEF Reject
<1>11. ASSUME NEW c \in Devices, Kill(c) PROVE NoticesFit'
  BY <1>11, KillNotices
<1>12. UNCHANGED vars => NoticesFit'
  BY <1>1 DEF vars
<1> QED
  BY <1>2, <1>3, <1>4, <1>5, <1>6, <1>7, <1>8, <1>9, <1>10, <1>11, <1>12,
     <1>13, <1>14 DEF Next, User

\* NoticesNeedJoins, for any number of users and devices: a notice on file, one in
\* a queue and one that a read will still cause are each paid for by a join that
\* was answered with success, and by one of their own, however often the writes
\* are sent.
THEOREM NoticesArePaidFor == Spec => []NoticesNeedJoins
<1>1. Init => TypeOK /\ NoticesFit
  BY InitType, InitNotices
<1>2. TypeOK /\ NoticesFit /\ [Next]_vars => TypeOK' /\ NoticesFit'
  BY StepType, StepNotices
<1>3. TypeOK /\ NoticesFit => NoticesNeedJoins
  <2> SUFFICES ASSUME TypeOK, NoticesFit, NEW d \in SuShares, NEW u \in Users
               PROVE  Cardinality(Notices(d, u)) <= committed[d][u]
    BY DEF NoticesNeedJoins
  <2>1. Cardinality(Notices(d, u)) + Cardinality(Reads(fetching, d, u))
          + Cardinality(QueuedIn(queue, d, u)) <= committed[d][u]
    BY DEF NoticesFit
  <2> QED
    BY <2>1, NoticesNumbers
<1> QED
  BY <1>1, <1>2, <1>3, PTL DEF Spec
===============================================================================
