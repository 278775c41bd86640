-------------------------------- MODULE Roster --------------------------------
(***************************************************************************)
(* The core of SuShare: who is listed in a SuShare.                        *)
(*                                                                         *)
(* The Firestore document of a SuShare holds usersInTheSuShare, the list   *)
(* of the uids that joined.  A device shows a list of SuShares that it got *)
(* from a snapshot listener, opens one of them in DetailViewController,    *)
(* which keeps a private copy of the document, and on "Join" writes back   *)
(* the copy's list with its own uid appended.  When that write is          *)
(* acknowledged it reads the current user and then writes an Update, the   *)
(* notice that somebody joined.  Reporting and favouriting write to the    *)
(* same database; a favourite is a copy of the document, list included,    *)
(* which can be opened and joined like the document itself.                *)
(*                                                                         *)
(* Every write goes through the Firestore SDK of the device: it is queued  *)
(* (on disk: it survives a kill of the app), is visible to the device at   *)
(* once, reaches the server in queue order, and its completion handler     *)
(* runs when the answer arrives.  The handler is lost if the app is killed *)
(* first.  When answers are lost with their connection, the writes they    *)
(* were for are sent and applied again (WriteQueue).  Devices stay signed  *)
(* in here.                                                                *)
(***************************************************************************)
EXTENDS Naturals, Sequences, FiniteSets, FiniteSetsExt

CONSTANTS
  Users,      \* uids
  Devices,    \* installed apps
  Account,    \* the uid signed in on each device
  SuShares,   \* document ids of the suShare collection
  MaxTaps     \* bound: how often each user taps each control of one SuShare

Taps == {"create", "open", "join", "favorite", "report"}

ASSUME AccountAssumption == Account \in [Devices -> Users]
ASSUME MaxTapsAssumption == MaxTaps \in [Users -> [Taps -> Nat]]

VARIABLES
  \* The server.
  server,     \* suShare collection
  inbox,      \* updates collection: copies per recipient, SuShare, joined user
  flagged,    \* "flagged SuShares" collection: the reports on file
  favorites,  \* favorites collection: the lists that each user's copies hold
  \* Each device.
  queue,      \* writes the SDK has not had an answer for, oldest first
  reached,    \* how many of them the server has applied over this connection
  list,       \* ExploreViewController's SuShares: the last snapshot delivered
  detail,     \* DetailViewController's own copy of the SuShare it shows
  fetching,   \* getCurrentUser reads whose answer a finished join waits for
  \* History.
  proposed,   \* every list some device has composed for a SuShare
  committed,  \* joins that were answered with success, per SuShare and user
  recreated,  \* SuShares whose create was applied when they were there already
  taps        \* taps so far, per control, SuShare and user

vars == <<server, inbox, flagged, favorites, queue, reached, list, detail,
          fetching, proposed, committed, recreated, taps>>

serverVars  == <<server, inbox, flagged, favorites>>
historyVars == <<proposed, committed, recreated, taps>>

-------------------------------------------------------------------------------
(* Data. *)

\* A SuShare document, with the fields the app changes or addresses mail by.
NoDoc == [there |-> FALSE]
Doc   == [there: {TRUE}, userId: Users, users: Seq(Users), reported: BOOLEAN]

\* The copy a detail screen holds: suShareId, userId and usersInTheSuShare.
NoScreen == [open |-> FALSE]
Screen   == [open: {TRUE}, id: SuShares, userId: Users, users: Seq(Users)]

\* A queued write.  "live" says whether it has a completion handler that goes on
\* to something and still exists, "filed" of a notice that its document, which
\* has an id of its own, is there.
Ops   == {"create", "join", "notice", "flag", "record", "favorite", "unfavorite"}
Write == [op: Ops, doc: SuShares, users: Seq(Users), to: Users,
          live: BOOLEAN, filed: BOOLEAN]

Members(doc) == {doc.users[i] : i \in DOMAIN doc.users}

\* How often u is listed.
Occurrences(users, u) == {i \in DOMAIN users : users[i] = u}

-------------------------------------------------------------------------------
(* The Firestore SDK on a device. *)

NewWrite(op, d, users, to) ==
  [op |-> op, doc |-> d, users |-> users, to |-> to,
   live |-> op \in {"join", "flag"}, filed |-> FALSE]

Enqueue(c, w) == queue' = [queue EXCEPT ![c] = Append(@, w)]
Dequeue(c)    == queue' = [queue EXCEPT ![c] = Tail(@)]

Pending(c, d, ops) ==
  {i \in DOMAIN queue[c] : queue[c][i].doc = d /\ queue[c][i].op \in ops}

\* What the device sees of document d: the server's version with the device's
\* own unanswered writes laid over it, field by field; a create replaces it.
Overlay(c, d) ==
  LET lists   == Pending(c, d, {"create", "join"})
      creates == Pending(c, d, {"create"})
  IN  IF server[d].there \/ creates # {}
      THEN [there    |-> TRUE,
            userId   |-> IF server[d].there THEN server[d].userId ELSE Account[c],
            users    |-> IF lists = {} THEN server[d].users
                                       ELSE queue[c][Max(lists)].users,
            reported |-> \/ IF creates = {} THEN server[d].reported ELSE FALSE
                         \/ Pending(c, d, {"flag"}) # {}]
      ELSE NoDoc

\* The lists of the copies of d that the device finds under v's favourites.
FavoritesSeen(c, v, d) ==
  favorites[v][d] \cup
    {queue[c][i].users : i \in IF v = Account[c] THEN Pending(c, d, {"favorite"})
                                                ELSE {}}

-------------------------------------------------------------------------------

TypeOK ==
  /\ server    \in [SuShares -> Doc \cup {NoDoc}]
  /\ inbox     \in [Users -> [SuShares -> [Users -> Nat]]]
  /\ flagged   \in SUBSET (SuShares \X Users)
  /\ favorites \in [Users -> [SuShares -> SUBSET Seq(Users)]]
  /\ queue     \in [Devices -> Seq(Write)]
  /\ reached   \in [Devices -> Nat]
  /\ \A c \in Devices : reached[c] <= Len(queue[c])
  /\ list      \in [Devices -> [SuShares -> Doc \cup {NoDoc}]]
  /\ detail    \in [Devices -> Screen \cup {NoScreen}]
  /\ fetching  \in [Devices -> [SuShares -> [Users -> Nat]]]
  /\ proposed  \in [SuShares -> SUBSET Seq(Users)]
  /\ committed \in [SuShares -> [Users -> Nat]]
  /\ recreated \in SUBSET SuShares
  /\ taps      \in [Taps -> [SuShares -> [Users -> Nat]]]

Init ==
  /\ server    = [d \in SuShares |-> NoDoc]
  /\ inbox     = [v \in Users |-> [d \in SuShares |-> [u \in Users |-> 0]]]
  /\ flagged   = {}
  /\ favorites = [u \in Users |-> [d \in SuShares |-> {}]]
  /\ queue     = [c \in Devices |-> <<>>]
  /\ reached   = [c \in Devices |-> 0]
  /\ list      = [c \in Devices |-> [d \in SuShares |-> NoDoc]]
  /\ detail    = [c \in Devices |-> NoScreen]
  /\ fetching  = [c \in Devices |-> [d \in SuShares |-> [u \in Users |-> 0]]]
  /\ proposed  = [d \in SuShares |-> {}]
  /\ committed = [d \in SuShares |-> [u \in Users |-> 0]]
  /\ recreated = {}
  /\ taps      = [t \in Taps |-> [d \in SuShares |-> [u \in Users |-> 0]]]

-------------------------------------------------------------------------------
(* The user. *)

\* One more tap of control t, within the bound.
Tap(t, d, u) ==
  /\ taps[t][d][u] < MaxTaps[u][t]
  /\ taps' = [taps EXCEPT ![t][d][u] = @ + 1]

\* createASusu: a document under a fresh id, listing its creator alone.
CreateASusu(c, d) ==
  LET users == <<Account[c]>>
  IN  /\ proposed[d] = {}
      /\ Tap("create", d, Account[c])
      /\ Enqueue(c, NewWrite("create", d, users, Account[c]))
      /\ proposed' = [proposed EXCEPT ![d] = @ \cup {users}]
      /\ UNCHANGED <<serverVars, reached, list, detail, fetching, committed, recreated>>

\* Selecting a cell of the list.  The detail screen gets the cell's SuShare and
\* is never told of later versions.  Explore hides the reported ones.
OpenDetail(c, d) ==
  /\ list[c][d].there
  /\ ~list[c][d].reported
  /\ Tap("open", d, Account[c])
  /\ detail' = [detail EXCEPT ![c] = [open |-> TRUE, id |-> d,
                                      userId |-> list[c][d].userId,
                                      users  |-> list[c][d].users]]
  /\ UNCHANGED <<serverVars, queue, reached, list, fetching, proposed, committed,
                     recreated>>

\* Selecting a cell under "created" on a profile, where the reported ones show
\* too.  The profile reads the collection by itself.
OpenCreated(c, d) ==
  LET doc == Overlay(c, d)
  IN  /\ doc.there
      /\ Tap("open", d, Account[c])
      /\ detail' = [detail EXCEPT ![c] = [open |-> TRUE, id |-> d,
                                          userId |-> doc.userId,
                                          users  |-> doc.users]]
      /\ UNCHANGED <<serverVars, queue, reached, list, fetching, proposed, committed,
                     recreated>>

\* Selecting a cell of the favourites on v's profile.  The copy was filed with
\* v as its userId.
OpenFavorite(c, v, d) ==
  /\ Tap("open", d, Account[c])
  /\ \E users \in FavoritesSeen(c, v, d) :
       detail' = [detail EXCEPT ![c] = [open |-> TRUE, id |-> d,
                                        userId |-> v, users |-> users]]
  /\ UNCHANGED <<serverVars, queue, reached, list, fetching, proposed, committed,
                     recreated>>

\* Mutants of the list: the document's id instead of the user's; the owner of
\* the copy instead of the user; the user in front.
JoinedListOfIds(s, u)    == Append(s.users, s.id)
JoinedListOfOwner(s, u)  == Append(s.users, s.userId)
JoinedListInFront(s, u)  == <<u>> \o s.users

\* The list a join writes: the screen's list and the user.
JoinedList(s, u) == Append(s.users, u)

\* Mutant of joinSushareButtonPressed: the screen keeps the list it wrote, so a
\* second tap appends the user again.
JoinAppendsToScreen(c) ==
  LET s     == detail[c]
      users == JoinedList(s, Account[c])
  IN  /\ s.open
      /\ Tap("join", s.id, Account[c])
      /\ Enqueue(c, NewWrite("join", s.id, users, s.userId))
      /\ proposed' = [proposed EXCEPT ![s.id] = @ \cup {users}]
      /\ detail' = [detail EXCEPT ![c] = [s EXCEPT !.users = users]]
      /\ UNCHANGED <<serverVars, reached, list, fetching, committed, recreated>>

\* joinSushareButtonPressed.  The uid is appended to a local copy of the
\* screen's SuShare; the screen's own copy stays as it was.
JoinSushareButtonPressed(c) ==
  LET s     == detail[c]
      users == JoinedList(s, Account[c])
  IN  /\ s.open
      /\ Tap("join", s.id, Account[c])
      /\ Enqueue(c, NewWrite("join", s.id, users, s.userId))
      /\ proposed' = [proposed EXCEPT ![s.id] = @ \cup {users}]
      /\ UNCHANGED <<serverVars, reached, list, detail, fetching, committed, recreated>>

\* favoriteButtonPressed: addToFavorites or removeFromFavorite, by the colour of
\* the heart, which follows the answers of queries and may be behind.
FavoriteButtonPressed(c) ==
  LET s == detail[c]
  IN  /\ s.open
      /\ Tap("favorite", s.id, Account[c])
      /\ \/ Enqueue(c, NewWrite("favorite", s.id, s.users, Account[c]))
         \/ Enqueue(c, NewWrite("unfavorite", s.id, <<>>, Account[c]))
      /\ UNCHANGED <<serverVars, reached, list, detail, fetching, proposed, committed,
                     recreated>>

\* Mutant of "Report": the report is filed without waiting for the flag.
ReportFiledAtOnce(c, d) ==
  /\ \/ list[c][d].there /\ ~list[c][d].reported
     \/ detail[c].open /\ detail[c].id = d
  /\ Tap("report", d, Account[c])
  /\ Enqueue(c, NewWrite("record", d, <<>>, Account[c]))
  /\ UNCHANGED <<serverVars, reached, list, detail, fetching, proposed, committed,
                     recreated>>

\* "Report" in the extra options of a cell or of the detail screen.
ReportPressed(c, d) ==
  /\ \/ list[c][d].there /\ ~list[c][d].reported
     \/ detail[c].open /\ detail[c].id = d
  /\ Tap("report", d, Account[c])
  /\ Enqueue(c, NewWrite("flag", d, <<>>, Account[c]))
  /\ UNCHANGED <<serverVars, reached, list, detail, fetching, proposed, committed,
                     recreated>>

-------------------------------------------------------------------------------
(* The SDK, the server and the completion handlers. *)

\* The snapshot listener runs: the whole collection as the device sees it.
DeliverSnapshot(c) ==
  /\ list' = [list EXCEPT ![c] = [d \in SuShares |-> Overlay(c, d)]]
  /\ UNCHANGED <<serverVars, queue, reached, detail, fetching, historyVars>>

\* The server applies the next write of the device, which is of kind op.
NextWrite(c) == queue[c][reached[c] + 1]

Applies(c, op) ==
  /\ reached[c] < Len(queue[c])
  /\ NextWrite(c).op = op
  /\ reached' = [reached EXCEPT ![c] = @ + 1]

\* createASusu's setData names every field but isTheSuShareFlagged and replaces
\* the document, if it is there.
StoreCreate(c) ==
  LET w == NextWrite(c)
  IN  /\ Applies(c, "create")
      /\ server' = [server EXCEPT ![w.doc] =
                      [there |-> TRUE, userId |-> Account[c],
                       users |-> w.users, reported |-> FALSE]]
      /\ recreated' = IF server[w.doc].there THEN recreated \cup {w.doc} ELSE recreated
      /\ UNCHANGED <<inbox, flagged, favorites, queue, list, detail, fetching,
                     proposed, committed, taps>>

\* Mutant of the update: the whole document is written, as setData would.
SetUsers(doc, users) ==
  [there |-> TRUE, userId |-> doc.userId, users |-> users, reported |-> FALSE]

\* updateData replaces usersInTheSuShare and nothing else.
UpdateUsers(doc, users) == [doc EXCEPT !.users = users]

\* joinUserToSuShare.
StoreJoin(c) ==
  LET w == NextWrite(c)
  IN  /\ Applies(c, "join")
      /\ server[w.doc].there
      /\ server' = [server EXCEPT ![w.doc] = UpdateUsers(@, w.users)]
      /\ UNCHANGED <<inbox, flagged, favorites, queue, list, detail, fetching,
                     historyVars>>

\* addUpdate: a document under an id of its own, the same if it is sent again.
StoreNotice(c) ==
  LET w == NextWrite(c)
  IN  /\ Applies(c, "notice")
      /\ inbox' = IF w.filed THEN inbox
                  ELSE [inbox EXCEPT ![w.to][w.doc][Account[c]] = @ + 1]
      /\ queue' = [queue EXCEPT ![c][reached[c] + 1] = [w EXCEPT !.filed = TRUE]]
      /\ UNCHANGED <<server, flagged, favorites, list, detail, fetching, historyVars>>

\* updateFlaggedInSuShare.
StoreFlag(c) ==
  LET w == NextWrite(c)
  IN  /\ Applies(c, "flag")
      /\ server[w.doc].there
      /\ server' = [server EXCEPT ![w.doc] = [@ EXCEPT !.reported = TRUE]]
      /\ UNCHANGED <<inbox, flagged, favorites, queue, list, detail, fetching,
                     historyVars>>

\* flagASuShare.
StoreRecord(c) ==
  /\ Applies(c, "record")
  /\ flagged' = flagged \cup {<<NextWrite(c).doc, Account[c]>>}
  /\ UNCHANGED <<server, inbox, favorites, queue, list, detail, fetching, historyVars>>

\* addToFavorites.
StoreFavorite(c) ==
  LET w == NextWrite(c)
  IN  /\ Applies(c, "favorite")
      /\ favorites' = [favorites EXCEPT ![Account[c]][w.doc] = @ \cup {w.users}]
      /\ UNCHANGED <<server, inbox, flagged, queue, list, detail, fetching, historyVars>>

\* removeFromFavorite deletes every copy of the SuShare the user has.
StoreUnfavorite(c) ==
  /\ Applies(c, "unfavorite")
  /\ favorites' = [favorites EXCEPT ![Account[c]][NextWrite(c).doc] = {}]
  /\ UNCHANGED <<server, inbox, flagged, queue, list, detail, fetching, historyVars>>

\* The success of the oldest write of the device, which is of a kind in ops,
\* arrives.
Answers(c, ops) ==
  /\ reached[c] > 0
  /\ Head(queue[c]).op \in ops
  /\ reached' = [reached EXCEPT ![c] = @ - 1]

\* joinUserToSuShare succeeds; the handler goes on to getCurrentUser.
JoinSucceeded(c) ==
  LET w == Head(queue[c])
  IN  /\ Answers(c, {"join"})
      /\ Dequeue(c)
      /\ committed' = [committed EXCEPT ![w.doc][Account[c]] = @ + 1]
      /\ fetching' = IF w.live
                     THEN [fetching EXCEPT ![c][w.doc][w.to] = @ + 1]
                     ELSE fetching
      /\ UNCHANGED <<serverVars, list, detail, proposed, recreated, taps>>

\* Mutant of the answer: the handler is left in place and may run again.
GetCurrentUserRepeats(c, d, v) ==
  /\ fetching[c][d][v] > 0
  /\ Enqueue(c, NewWrite("notice", d, <<>>, v))
  /\ UNCHANGED <<serverVars, reached, list, detail, fetching, historyVars>>

\* getCurrentUser answers: addUpdate, addressed to the userId of the copy that
\* was joined.
GetCurrentUserSucceeds(c, d, v) ==
  /\ fetching[c][d][v] > 0
  /\ fetching' = [fetching EXCEPT ![c][d][v] = @ - 1]
  /\ Enqueue(c, NewWrite("notice", d, <<>>, v))
  /\ UNCHANGED <<serverVars, reached, list, detail, historyVars>>

GetCurrentUserFails(c, d, v) ==
  /\ fetching[c][d][v] > 0
  /\ fetching' = [fetching EXCEPT ![c][d][v] = @ - 1]
  /\ UNCHANGED <<serverVars, queue, reached, list, detail, historyVars>>

\* Mutant of the report: the handler of the flag flags the SuShare again.
FlagsAgain(c) ==
  LET w == Head(queue[c])
  IN  /\ Answers(c, {"flag"})
      /\ queue' = [queue EXCEPT ![c] =
                     IF w.live
                     THEN Append(Tail(@), NewWrite("flag", w.doc, <<>>, w.to))
                     ELSE Tail(@)]
      /\ UNCHANGED <<serverVars, list, detail, fetching, historyVars>>

\* updateFlaggedInSuShare succeeds; the handler goes on to flagASuShare.
FlagSucceeded(c) ==
  LET w == Head(queue[c])
  IN  /\ Answers(c, {"flag"})
      /\ queue' = [queue EXCEPT ![c] =
                     IF w.live
                     THEN Append(Tail(@), NewWrite("record", w.doc, <<>>, w.to))
                     ELSE Tail(@)]
      /\ UNCHANGED <<serverVars, list, detail, fetching, historyVars>>

\* The handlers of the other writes queue nothing.
WriteSucceeded(c) ==
  /\ Answers(c, Ops \ {"join", "flag"})
  /\ Dequeue(c)
  /\ UNCHANGED <<serverVars, list, detail, fetching, historyVars>>

\* The oldest write is given up as refused (a rule, updateData of a document
\* that does not exist, or, by the misreading of WritePipeline, the refusal of a
\* later write), and the connection with it.  Every failure branch prints the
\* error and stops.
Reject(c) ==
  /\ queue[c] # <<>>
  /\ Dequeue(c)
  /\ reached' = [reached EXCEPT ![c] = 0]
  /\ UNCHANGED <<serverVars, list, detail, fetching, historyVars>>

\* The connection breaks and takes the answers along: all writes in the queue
\* are sent again.
Disconnect(c) ==
  /\ reached[c] > 0
  /\ reached' = [reached EXCEPT ![c] = 0]
  /\ UNCHANGED <<serverVars, queue, list, detail, fetching, historyVars>>

\* The app is killed and started again: the screens and the handlers are gone,
\* the queued writes are not.
Kill(c) ==
  /\ queue' = [queue EXCEPT ![c] =
                 [i \in DOMAIN queue[c] |-> [queue[c][i] EXCEPT !.live = FALSE]]]
  /\ reached' = [reached EXCEPT ![c] = 0]
  /\ list' = [list EXCEPT ![c] = [d \in SuShares |-> NoDoc]]
  /\ detail' = [detail EXCEPT ![c] = NoScreen]
  /\ fetching' = [fetching EXCEPT ![c] = [d \in SuShares |-> [u \in Users |-> 0]]]
  /\ UNCHANGED <<serverVars, historyVars>>

-------------------------------------------------------------------------------

Store(c) ==
  \/ StoreCreate(c) \/ StoreJoin(c)   \/ StoreNotice(c)
  \/ StoreFlag(c)   \/ StoreRecord(c) \/ StoreFavorite(c)
  \/ StoreUnfavorite(c)

Succeed(c) == JoinSucceeded(c) \/ FlagSucceeded(c) \/ WriteSucceeded(c)

User(c) ==
  \/ \E d \in SuShares :
       \/ CreateASusu(c, d)
       \/ OpenDetail(c, d)
       \/ OpenCreated(c, d)
       \/ \E v \in Users : OpenFavorite(c, v, d)
       \/ ReportPressed(c, d)
  \/ JoinSushareButtonPressed(c)
  \/ FavoriteButtonPressed(c)

Fetched(c) ==
  \E d \in SuShares, v \in Users :
    GetCurrentUserSucceeds(c, d, v) \/ GetCurrentUserFails(c, d, v)

Next ==
  \E c \in Devices :
    \/ User(c) \/ DeliverSnapshot(c) \/ Fetched(c)
    \/ Store(c) \/ Succeed(c) \/ Reject(c) \/ Disconnect(c) \/ Kill(c)

Spec == Init /\ [][Next]_vars

\* A device comes online again and again, so its SDK gets an answer for every
\* write it holds, however often answers are lost before, and every read is
\* answered.  Nothing obliges the user.
Fairness ==
  \A c \in Devices : WF_vars(Succeed(c) \/ Reject(c)) /\ WF_vars(Fetched(c))

FairSpec == Spec /\ Fairness

-------------------------------------------------------------------------------
(* What holds. *)

\* A list in the database names nobody who neither created the SuShare nor
\* tapped "Join" in it, whatever stale copies the devices write back, once or
\* again.
OnlyJoinersListed ==
  \A d \in SuShares : server[d].there =>
    \A u \in Members(server[d]) : u = server[d].userId \/ taps["join"][d][u] > 0

\* The creator, whom createASusu lists first, stays first: no join, from a fresh
\* or a stale screen or from a favourite copy, moves or drops the creator.
CreatorLeads ==
  \A d \in SuShares : server[d].there =>
    server[d].users # <<>> /\ Head(server[d].users) = server[d].userId

\* joinSushareButtonPressed appends to a local copy, so a second tap on the same
\* screen writes the same list again: a user is listed no more often than they
\* opened the SuShare, once more for its creator.
OncePerScreen ==
  \A d \in SuShares, u \in Users : server[d].there =>
    Cardinality(Occurrences(server[d].users, u))
      <= taps["open"][d][u] + (IF u = server[d].userId THEN 1 ELSE 0)

\* As many copies of each key as count says.
Copies(count) == UNION {{k} \X (1..count[k]) : k \in DOMAIN count}

\* The notices of u's joining d, in all the inboxes.
Notices(d, u) == Copies([v \in Users |-> inbox[v][d][u]])

\* The notices of a join never outnumber the joins that were answered with
\* success: addUpdate runs in the handler of the join, and at most once,
\* whatever kills, retaps and writes sent again come between.
NoticesNeedJoins ==
  \A d \in SuShares, u \in Users :
    Cardinality(Notices(d, u)) <= committed[d][u]

\* A report on file has taken effect: flagASuShare runs after
\* updateFlaggedInSuShare has succeeded, and nothing clears the flag but the
\* document's own create, when its answer was lost and it is applied again.
ReportMeansFlagged ==
  \A r \in flagged : server[r[1]].there
                        /\ (server[r[1]].reported \/ r[1] \in recreated)

\* Once the create of a SuShare is answered, no step takes
\* isTheSuShareFlagged back: a join from a screen that was opened before the
\* report, sent again or not, replaces one field only.
FlagIsForever ==
  [][\A d \in SuShares :
       /\ server[d].there
       /\ server[d].reported
       /\ \A c \in Devices : Pending(c, d, {"create"}) = {}
       => server'[d].there /\ server'[d].reported]_vars

\* The chains of handlers end: once the user stops, every device is left with no
\* write and no read to wait for (taps are bounded by MaxTaps).
Settled ==
  \A c \in Devices :
    /\ queue[c] = <<>>
    /\ \A d \in SuShares, v \in Users : fetching[c][d][v] = 0

EventuallySettled == <>[]Settled

\* The stored list behaves as a register of proposals.
Stored == [d \in SuShares |-> IF server[d].there THEN server[d].users ELSE <<>>]

Register == INSTANCE RosterRegister WITH roster <- Stored

\* The devices, their stale screens, the queues and the kills together implement
\* the register: what joinUserToSuShare stores is always a list that grew, one
\* joiner at a time, from the list that createASusu stored.
ImplementsRegister == Register!Spec

-------------------------------------------------------------------------------
(* What comments in the code say and the code does not do. *)

\* DetailViewController says of joinUserToSuShare "userId added to array in db":
\* a user whose join was answered with success is listed, unless the create of
\* the SuShare was applied again.
JoinedStaysListed ==
  \A d \in SuShares, u \in Users :
    committed[d][u] > 0 /\ d \notin recreated => u \in Members(server[d])

\* addUpdate says of the addressee "this is grabbing user who created": a notice
\* is in the inbox of the SuShare's creator.
NoticeReachesCreator ==
  \A d \in SuShares, u, v \in Users :
    inbox[v][d][u] > 0 => v = server[d].userId
===============================================================================
