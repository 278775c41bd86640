# SuShare in TLA+

SuShare is an iOS app for rotating savings groups ("susus"), with Firebase
(Firestore, Auth, Storage) as its only backend, Stripe for payments, and a few
Cloud Functions. There is no server code between the app and Firestore: the
rules of the system are what the view controllers and `DatabaseService` write,
and in which order the SDK delivers their writes and runs their completion
handlers. That is what this directory models.

Paths below are relative to `src/SuShare/SuShare/`.

## 1. The system

| component | source | state it keeps | operations | talks to |
|---|---|---|---|---|
| **Roster**: create, open, join, favourite, report, announce | `Jaheed/Sushare-Detail/DetailViewController.swift`, `FirebaseServices/DatabaseServices.swift`, `Models/SuShare.swift` | Firestore: `suShare` documents (`usersInTheSuShare`, `isTheSuShareFlagged`), `favorites` copies, `updates` notices, reports. Device: the detail screen's private copy, pending handlers | join, report (flag, then record), (un)favourite, create, and the handlers of each | Firestore SDK; every list screen opens it; Checkout is pushed by a join |
| **Explore list** | `Matt/ExploreViewController.swift` | all / shown SuShares, tags, query, listener | snapshot, tag, search, report, open | Firestore listener, Roster |
| **Profile** | `Juan/PersonalViewController.swift`, `Juan/HeaderView.swift` | tab, shown SuShares, two listener slots | select tab, refresh, appear, disappear, nested query answers | Firestore listeners, Roster |
| **Checkout** | `Matt/PaymentViewController.swift`, `Matt/MyAPIClient.swift`, `Matt/SubscribeCell.swift` | amount, payment context, client secret | appear, pay, result callbacks | Stripe SDK, a payment server, Cloud Functions |
| **Updates inbox** | `Juan/UpdatesViewController.swift` | the list shown | reload, swipe to delete | Firestore `updates` |
| **Comments** | `Jaheed/Sushare-Detail/CommentsViewController.swift` | comments shown, listeners | appear, post, snapshot | Firestore sub-collection |
| **Friends, user search** | `Juan/AddFriendViewController.swift`, `Jaheed/SideView/Friends/UserFriendsViewController.swift` | users, query, friend names | search, add, list | Firestore `friends`, `users` |
| **Sign-up and login** | `Jaheed/Login/LoginViewController.swift`, `Matt/AuthenticationSession.swift`, `Shaniya/SceneDelegate.swift` | Auth account and current user, user document, display name, Stripe customer, screen | create account, fill in, sign in, sign out, relaunch | Auth, Firestore, Stripe functions |
| **Firestore write path** | `Pods/FirebaseFirestore/Firestore/core/src/` (`core/sync_engine.cc`, `remote/remote_store.cc`, `remote/stream.cc`, `remote/write_stream.cc`, `remote/grpc_stream.cc`, `local/leveldb_mutation_queue.cc`) | a queue of writes per user on disk, callbacks, write pipeline, write stream, timers | issue, fill, send, acknowledge, reject, back off, change of user, change of network, restart | every write of the app, the credentials, the server |
| **Settings** | `Jaheed/SideView/Settings/SettingsViewController.swift`, `FirebaseServices/StorageService.swift` | photo, user document, Auth profile | pick, upload, update | Storage, Firestore, Auth |
| **Create form** | `Shaniya/CreateSusuViewController.swift`, `FirebaseServices/StorageService.swift` | form fields, photo | edit, add, upload, update URL | Firestore, Storage |
| **Cloud Functions** | `../functions/index.js` | `stripe_customers` documents | customer, source, charge, clean up | Firestore triggers (at least once), Stripe |
| **Menus, transitions, cells** | `Jaheed/SideView/…`, `Extensions/…` | view hierarchy | animation, layout | none |

### What is hard to test here

* Every device reads copies and writes back whole fields computed from them
  (`DetailViewController.swift:142`); there is no transaction in the code.
* A tap starts a chain of completion handlers; refusals, other taps and a kill
  of the app fall between the links. Firestore's persistence is on by default,
  so queued writes survive a kill and the handlers do not.
* Listeners are added twice or replaced without being removed, so that results
  for one screen state arrive in another.
* Results of reads and uploads come in any order; failure branches only print.
* A sign-up is five calls that each ask again who the current user is, while the
  button stays enabled and the app may be killed
  (`LoginViewController.swift:100-198`).
* Below every write is a state machine of its own: tokens, timers, a call that
  breaks, changes of user and of network, and answers that are lost after the
  server has applied the write (`remote_store.cc`, `stream.cc`).

`PROJECT.json` lists these one by one, at their lines, with the properties that
cover them.

## 2. Modules and plan

| module | what it is | state |
|---|---|---|
| `RosterRegister` | abstract: the list of a SuShare is a register of proposals | done |
| `Roster` | devices, the SDK's queues, screens, handler chains, the server; refines `RosterRegister` | done |
| `RosterProofs` | typing, safety, the count of notices, refinement | done |
| `Explore`, `ExploreProofs` | the list of SuShares with its tags, its search and its listeners | done |
| `Checkout`, `CheckoutProofs` | the first contribution | done |
| `Publish`, `PublishProofs` | the chain behind the form's add button | done |
| `Profile`, `ProfileProofs` | the tabs of a profile and their reads | done |
| `WriteQueue` | abstract: what a device's queue of writes promises | done |
| `WritePipeline` | the SDK's write pipeline, stream and worker queue; refines `WriteQueue` | done |
| `MutationQueue` | `WritePipeline` composed with the rows on disk and the callbacks; implements it | done |
| `WritePipelineProofs` | safety of the pipeline, with and without the rows | done |
| `MutationQueueProofs` | ids, rows and callbacks; the refinement of `WriteQueue` | done |
| `Account`, `AccountProofs` | signing up, logging in, signing out; the chain of a sign-up | done |
| `StripeFunctions` | triggers that run at least once, the idempotency key of a charge, the failing error path of `addPaymentSource` (`../functions/index.js:95-123`) | planned |
| `Comments` | posting, and the listener that every appearance adds | planned |
| `Updates` | reload and swipe-to-delete that race | planned |
| `Friends` | the field names under which friendships are written and read | planned |
| `Settings` | photo upload, user document and auth profile in sequence | planned |
| `JoinAndPay` | composition: a join pushes the checkout (`DetailViewController.swift:176`), so who is listed and who has paid | planned |

The order is by what goes wrong when it goes wrong: who is in a SuShare, what is
charged, what the lists show, then the rest. `MC*.tla` hold the instances, one
`MC*.cfg` per run. `Roster` implements `RosterRegister`, and `MutationQueue`
`WritePipeline` and `WriteQueue`; `Roster`, `Publish` and `Account` take the queue
of writes for what `WriteQueue` says of it: writes are applied in order, several
of them may be before the first is answered, and those whose answers are lost are
applied again. The components of the app share documents with
`Roster` and nothing else, and model what others write to them as a change that
may come at any time (`OthersChange`, `StoredChanges`).

Theorems to come: the correctness of the functions' idempotency key for any
number of deliveries, and of `JoinAndPay` the relation between the list and the
charges.

## 3. How the modules correspond to the code

`PROJECT.json` maps each definition to its lines. What follows is what a reader
needs to know before comparing.

**Roster.** A Firestore write is `Enqueue`d by a tap or a handler, seen by its
own device at once (`Overlay`), applied on the server by `Store…`, and answered by
`…Succeeded` or `Reject`, in queue order. `reached` is how many writes of the queue
the server has applied over this connection: several may be before the first is
answered, and a `Disconnect` or a `Kill` sets it back to none, so that they are all
applied again. A second create replaces the document (`setData`), flag and list
included (`recreated` remembers it); a second notice finds its document `filed`; the
others repeat what they did. A write's `live` flag says that its
completion handler still exists; `Kill` clears it, since persistence keeps the
queue and not the closures. `detail` is the copy of the SuShare that
`DetailViewController` was given; it is never refreshed. A join is three links:
`JoinSushareButtonPressed` (the list of the copy, plus the user, replaces the
stored list), `JoinSucceeded` → `GetCurrentUserSucceeds` → the notice. A report is
two: the flag, then the record. A favourite is a copy of the document whose
`userId` is the one of whoever filed it; it can be opened from any profile and
joined. Each device shows one detail screen; devices stay signed in;
`removeFromFavorite`, a query and its deletions, is one write. `proposed`,
`committed`, `recreated` and `taps` are history variables, `taps` also carries the
bound. A create applied again is the one thing that takes a flag back: `ReportMeansFlagged`
excepts it by `recreated`, and `FlagIsForever` holds once the create is answered.

**Explore.** `originalSusus` and `currentSusus` are the controller's two lists,
as sets: both come from one query sorted by date. Listeners are numbered by
registration; `Held` is the one in the controller's slot. A SuShare's title and
description are abstracted to the queries that match it. The device's own
report is visible to it before the server has answered, and is taken back when
the server refuses (`FlagRefused`).

**Checkout.** `state` and `screen` are the payment context's own
(`STPPaymentContext.m`): what it is busy with, and whether its options are on
screen. The two part when loading the cards fails while the options are open: they
are dismissed and `state` stays `showing`. It loads the cards, remembers taps that
wait for them, lets the user choose, enter and delete cards, and calls the screen
back once per request. Every way of setting the selected option goes through
`Select`, which calls for a secret if the option is another one, or none as before.
The screen keeps the secret that is answered last and confirms with the one it holds
by then. Choosing a card and the end of the closing animation are two steps, in
which a secret may arrive; so are `Charge` and the answer to the confirmation, which
may be lost in between. An alert with "Retry" (`asked`) covers the screen; which of
two alerts presented at once is shown is left open. `lastTap` is a history variable:
what became of the last tap of Subscribe. Amounts are cents; `Charges` and `Labels`
are sets, since the code divides in binary floating point: an exact share such as
1.16 / 4 may be charged a cent lower (28, not 29). Cards are the only options, as no
Apple Pay merchant, bank or shipping is configured. The account ids written into the
code stand for the customer's. Leaving the screen ends the behaviour.

**Publish.** A tap, its chain of calls and its document have one number.
`AddSusu` takes the photo that is selected at the tap. A kill cuts the chains'
handlers and uploads, and leaves the queued Firestore writes, which are then
stored or refused without anybody hearing. Chains touch different documents, so
their writes are not ordered against each other. A write is applied
(`CreateApplied`, `UrlApplied`) before it is answered, and possibly again. A chain
that ends without a word is in a stage of its own: `refused`, the document was
refused, and `unanswered`, the upload never called its completion
(`StorageService.swift:22`, a photo without JPEG data, or an answer with neither
error nor result); `unseen` is an alert that was due when the form was gone. One
visit to the form.

**Profile.** A listener's handler does not use its snapshot: it starts a read
whose answer replaces the list, whatever tab is selected by then. There is a
slot for each of two kinds of listener; registering overwrites it. Reads of one
kind are counted (`asked`) and answered in order.

**WritePipeline.** All of this code runs on one worker queue, and its handlers
call each other before they return. So an action is one operation of that queue
with every call it makes: `RemoteStore` and its `WriteStream` are the fields of
the record `remote`, and their methods (`Start`, `CloseSteps`,
`FillWritePipeline`, `RestartNetwork`, …) functions on it, which the actions
apply in the order of the code. Every `HARD_ASSERT` on the way is collected in
`remote.sound`. `worker` holds what the credentials, the timers and the
completions of the gRPC call post; an operation that is cancelled, or whose
close count is old, stays there with `live` false and does nothing
(`RunCancelled`). A call ends refused, broken or with status OK (`ended`). Ended
with OK it closes gracefully (`RunFinishedOk`); with writes in the pipeline or on
disk the assertion at `remote_store.cc:456` then ends the app, which is started
again over what is on disk (`RunAborts`). What the model leaves out: replies that cannot be parsed, the
empty write that `TearDown` sends, shutting down, transactions, and the watch
stream; the network is only disabled inside `RestartNetwork`. A batch of several
writes is one write. What it assumes: the server stops taking the requests of a
call when the call is over, and a write posted before a change of user runs
before it.

**MutationQueue.** The queue of `WritePipeline` is really rows of LevelDB under
(user, batch id), and a callback is found by user and id. Each action that
touches the queue is taken together with what it does to the rows: an id is one
more than the highest one in the database, worked out anew at every start of a
user's queue, and a put under an id replaces.

**Account.** A tap and the chain of calls it starts have one number; `stage` is
how far it is. Auth changes the current user on a queue of its own and dispatches
first the notification, then the handler, to the main queue (`mainQueue`), where
Firestore hears of the user (`CredentialChange`) before the handler runs. Each
handler that uses `Auth.auth().currentUser` reads `current` as it is then.
`NewUserCreated` is all that the handler of `createNewUser` does: the change of
the display name (its failure is only printed, and is left out), the document,
the username. Handlers hold the screen weakly but for the last two, which is
`Alive`. The switch between "sign up" and "login" is a free choice at each tap;
names are read when the username has been answered, and a missing one ends the
chain. Full name and customer are written by one call and stand as `customer`.
`ApplyNext` has the server apply the next write of the queue, `Answered` has the
oldest one answered, `reached` is how many have been applied and not answered, and
`Disconnect`, a kill or a change of user has them all applied again.
The walkthrough covers the screen it was shown over, and `screen = "login"` means
that nothing does. An answer of Firestore and its handler are one step.
`crossed` is a history variable: somebody tapped before the last request was over.

## 4. What is checked

| run | kind | what it shows |
|---|---|---|
| `roster_join` | pass | two users, a phone each: nobody is listed who neither created nor joined, the creator stays first, notices do not outnumber accepted joins, and the devices together refine the register |
| `roster_report` | pass | one user on two devices: a report on file has flagged the SuShare and no write but its create, applied again, takes the flag back; a user is listed at most once per opened screen; every chain of handlers ends |
| `roster_lost_join` | violation | of two accepted joins from screens opened at the same version, the later drops the earlier from the list |
| `roster_notice_astray` | violation | the notice of a join from a favourite goes to the user who filed the favourite |
| `explore` | pass | an unfiltered table is the last snapshot, at most one listener leaks, the unfiltered table follows the collection |
| `checkout` | pass | success is shown only for a charge, each charge has a tap, the user pays no more than is shown for each confirmation that ended or is under way and no less than a cent below it for each success, and a tap is answered unless the context shows the options, or believes so, when its turn comes |
| `publish` | pass | the photo of a document is the one selected at its tap; a document with a URL has its photo; every chain ends, and with the form open the user sees its end unless the document is refused or the upload is not answered |
| `profile` | pass | only taps and pulls leak listeners; a tab left alone catches up with its collection |
| `profile_tabs` | violation | with no failure at all, a quiet profile shows the created SuShares under Favorites |
| `write_pipeline` | pass | no `HARD_ASSERT` fails, except that a call which the server ends with OK while it is needed ends the app; the pipeline is the head of the current user's queue; a write is applied under its owner's token only, in order of issue, and never sent once it is answered; ids and callbacks match the rows though ids are used again; with the network there the queue drains again and again; rows, pipeline and stream together implement `WriteQueue` |
| `write_misread` | violation | a write that the server has applied is reported as refused: its answer is cancelled when a later write fails the call, and the error is charged to the head of the pipeline |
| `account` | pass | whoever waits for each request to be over finds username, names and customer of their own in their document, and what they were told is written is not taken back by a write that is applied again; an account gets one customer however often the button is tapped; every request ends, unless its write waits for its user to come back |

Seen while modelling, and not runs of their own:

* An accepted join is not announced when the app is killed, the user's document
  cannot be read or the notice is refused (`DetailViewController.swift:152`).
* A SuShare reported from a filtered table stays in it
  (`ExploreViewController.swift:174`, against `:379`).
* Subscribe can charge a second first payment (`PaymentViewController.swift:75`),
  after a success or after an error that hid a charge. 200.00 for three is shown as
  66.67 and charged as 66.66 (`:46`), though the footer says that the amount above
  is what is contributed (`:144`); `ChargedAsShown` bounds the difference by a cent.
* If loading the cards fails while the options are open, the payment context goes on
  believing that it shows them (`STPPaymentContext.m:131`): after a Retry, Subscribe
  and the payment row do nothing.
* A create that is applied again, its answer lost, takes back the flag of a report
  and the joins made in between (`DatabaseServices.swift:119`).
* The first write of an account that is applied again takes the username back until
  the username's own write, which follows, is applied again too
  (`DatabaseServices.swift:159`).
* A write call that the server ends with status OK while writes are in flight ends
  the app: `remote_store.cc:456` asserts that it cannot happen.
* An upload whose photo has no JPEG data never calls its completion
  (`StorageService.swift:22`), and `createASusu` does not call its completion when the document is refused
  (`DatabaseServices.swift:135`), nor `createDummyUser` when the function fails
  (`MyAPIClient.swift:37`): the chain ends and nobody is told.
* A second sign-up or login between two links of a chain sends the username or
  the customer of one user to the document of another, and a first write that is
  sent again can then empty it: `DetailsAreOwn` and `AnsweredIsKept` hold only as
  long as nobody taps before the last request is over, which nothing enforces.
* A sign-up that fails after its first link (an empty name, a kill, a refused
  write) leaves an account without name or customer. Tapping again fails, since
  the address is in use, and logging in does not complete the document.
* In the form, a row of the selected categories stands for another category when
  it is tapped, a slider at 9.7 stores 9 and shows 10, and schedule buttons never
  turn back (`CreateSusuViewController.swift:545`, `:301`, `:323`).

### Bounds

* `roster_join`: two users and two phones are the fewest that can overwrite each
  other. Ann creates; both open and join once; Bob files a favourite, which either
  may open. That has a stale screen, a favourite opened from another's profile, and
  writes applied in any order, once or again, with refusals and kills.
* `roster_report`: one user with two devices creates, opens, taps Join twice and
  reports, on either device; two devices make writes overtake each other, and the
  uid does not matter to a report. The theorems lift both.
* `explore`: two SuShares under two tags and a query that finds one: enough for
  a filter that hides, shows and empties; three registrations, so that one in
  the middle can be left behind; two changes.
* `checkout`: two cards, one of which can be deleted with the other left, four
  calls (one may be overtaken, one used up and one left over), two taps; 1.00, 2.00
  and 3.00 for three cover a label rounded down, one rounded up and a share that
  divides.
* `publish`: two chains and two photos; a third chain shares nothing more.
* `profile`: one SuShare (a list is right or wrong by it), three registrations,
  two taps or pulls, two reads of a kind under way, one failure. `profile_tabs`
  allows no failure, so that the disagreement is not one of lost answers.
* `write_pipeline`: two users, so that a token or an operation can be for the
  wrong one; a pipeline of two with three writes, so that the third waits on disk
  and fills a slot; two faults (a lost call, a call ended with OK, a failed token, a change of user or
  of network, a kill), which are a change of user there and back, or a fault met
  while another is handled. Ids start over after the rows are gone.
* `write_misread` needs an answer, a second and a failing write in one pipeline
  of four, and no fault.
* `account`: two users, three taps, two under way at once: a sign-up tapped twice,
  a login across a sign-up, and a third request after both. The theorems lift it.

Deadlock is checked where a behaviour cannot legitimately stop. It is not in
`explore`, `checkout`, `publish` and the write runs: there the bounds on
registrations and changes, the end of the taps, a closed form with all its chains
settled, or writes that are all answered stop the behaviour.

### Fairness

Nothing obliges a user to tap, to stay or to leave, and nothing obliges other
devices. What is assumed is that the SDKs answer: Roster, each device gets an
answer for the oldest write it holds and for every read (`WF` of its success or
refusal, and of the read's two answers), because a device comes online again and
Firestore retries; Explore and Profile, a live listener is called with what is due to it,
and a read is answered; Checkout, the read of the cards and the confirmation are
answered, if only with a failure, and the options finish closing; Publish, every
call of a chain is answered, or ends without a word as the code lets it;
WritePipeline, one `WF` of the disjunction of token, completion, server, backoff
and worker queue, so that something of what is due happens as long as anything
is, and faults are bounded; Account, Auth, the main queue, Firestore and the
Stripe function each answer, if only with a failure.
No strong fairness is used, and no answer is assumed to be a success.

## 5. What is proved

The theorems hold for any users, devices, SuShares, tags, cards, photos and
bounds, any number of writes and any size of the pipeline. They assume only what
the modules assume of their constants, by name: what `Account`, `TagOf`, `Matches`
and `MaxTaps` map to what, that sizes are positive, and that a "nothing" value is
not a value.

* **Roster.** `TypeInvariant` first. The safety properties are not inductive:
  a list in the database is only as good as the queued write it came from, that
  write as the screen it was composed on, that screen as the snapshot, pending
  write or favourite copy it was opened from. `IInv` follows
  the list along that way:
  `CopiesAreProposals`, every list anywhere was composed for its SuShare;
  `ProposalsGrow`, the composed lists of a SuShare have one head, and list others no
  more often than they tapped; `ScreensWereOpened`, a screen's list leaves room
  for its user; `CreatesAreHome`, a create is
  queued on its creator's device only, so that applying it again changes neither the
  creator nor the head of the list; `ReportsFollowFlags`, a report is queued only
  behind its flag, on a SuShare that is flagged or was created again. From it:
  `JoinersOnly`, `CreatorStaysFirst`, `ListedOncePerScreen`, `ReportsAreFlagged`,
  `FlagsStay`, and that every step is a step of `RosterRegister` or a stutter
  (`RosterIsRegister`). `NoticesNeedJoins` counts, and needs to count what may
  still become a notice: by `NoticesFit` the notices on file, those in the queues
  of the user's devices and the reads whose answers will queue one are together at
  most the accepted joins. Each step moves at most one from reads to queue to file,
  and only an accepted join adds one (`NoticesArePaidFor`). The sets counted are
  finite although users and devices need not be.
* **Explore.** `UnfilteredIsWhole` needs that the two lists were brought
  together by every action that clears a filter, and that a search never
  becomes unset; `LeakIsBounded`.
* **Checkout.** `ChargesAreTapped`, `SuccessIsCharged` and `PaidIsShown` count:
  `ChargeInv` says that charges, plus one while a request is pending, are at most the
  taps; that successes, plus one while a confirmation has charged, are at most the
  charges; and that the charges are at most the confirmations that ended, plus that
  one. The amounts agree to a cent by a lemma about division, and `PaidIsShown`
  multiplies.
* **Publish.** `StageInv` ties each chain's stage to what the server holds;
  `PhotosAreAsTapped` and `UrlsLeadToPhotos` follow.
* **Profile.** `LeakInv` splits the live listeners into those in a slot and
  those outside: the latter are at most the taps, and a hidden profile has
  none of the former. `LeakIsBounded` follows.

* **WritePipeline.** No assertion fails on its own account: each one holds because
  of what earlier handlers left. `IInv` says what every handler leaves: `Core`,
  the pipeline is the head of the queue, what is on its way to the server is the
  end of the pipeline, timers and the question for a token belong to the state of
  the stream; `Settled`, between operations the stream is started if it is
  needed; `OpsFit`, an operation that is still live fits the stream as it is now
  (the heart of it: a token of the user before is dead, or a change of user stands
  before it); `ChangesFit`, the posted changes lead to the user the credentials
  have; `CallFits`, what the pipeline holds and the call no longer carries has
  been applied; `QueuesFit`. Each function on `remote` has a lemma that it keeps
  `Core`, and the actions compose them. `NoAssertionFails`, `PipelineInOrder`,
  `WritesAreOwners`, `WritesArriveInOrder` and `AnsweredStaysAnswered` follow, and
  `RowsKeepPipeline` carries them over to the queue on disk.
* **MutationQueue.** `RowsAreQueue` and `CallbackIsOwn` are not inductive: an id
  that is used again is harmless only because no row has it or a higher one.
  `RowsInv` adds `RowsFit`, the rows of a user are the writes of the queue and sort
  by id as they were issued, and `IdsFit`, the next id is above those of all rows
  of all users and not above the number of the next write; that bound makes the
  sets of ids finite, so that the highest id exists. From it `RowsTypeInvariant`,
  `RowsKeepTheQueue` and `OwnCallbacks`.
* **The promise.** `PipelineKeepsPromise` and `RowsKeepPromise`: one lemma per action
  says which step of `WriteQueue` it is. `WriteMutationsOf` issues; `Kill` kills; a
  step after which no call is open is `SwitchUser`, to the same user or another; a
  connection that breaks and the answers it takes along are `Disconnect`; the server's taking of a write is `Apply`; a read answer is
  `Acknowledge`, and the handling of a refusal `Refuse`; the others the app cannot
  see. `AnswersFit` carries it: while a call lasts, each write of the pipeline is on
  its way to the server, or its answer is on its way back, in the same order.
  Hence the write that the server takes is the one `WriteQueue` applies next, and
  an answer is for the oldest write.
* **Account.** `IInv` is in two parts. `Base` holds however requests cross:
  `StagesFit` and `EventsFit` (an answer on the main queue is to a request that
  waits for it; typing is not inductive without them), `MadeOnce` (only one request
  can have made an account, and all that is written comes from such a request) and
  `OneDocument`. `CustomersApart` follows from it. `Patient` holds as long as nobody
  crosses: `OneAtATime`, `ToldInTime` (Firestore has been told of the new user when
  the chain's first handler runs), `WritesAreHome` (a queued write is in its own
  user's queue, for that user's document), `ReplacesFirst` (the write that replaces
  the document comes first, and finds no username there but one whose own write is
  still behind it), `ReachedIsStored` (what has been applied over this connection is
  in the document) and `UsernameFirst`. `OwnDetails` and `NothingTaken` follow: when
  a write is applied, for the first time or again, all that is in its document came
  from the same request, in the order of the chain.

Only model-checked: all liveness, since the prover does not do fairness, and the
four disagreements. Every invariant, every action property and both refinements
that the runs check have a theorem. Induction over data is out of the prover's
reach too: that is why `NoticesNeedJoins` is the cardinality of a set and not a
sum by recursion, and why the highest id is found by a least-element theorem.

## 6. What is not modelled

* The planned components of section 2.
* Menus, transitions, cells, the keyboard, pickers' menus, fonts, colours other
  than the schedule buttons': no state that another part reads.
* The heart of a favourite is modelled as either colour: it follows queries
  whose answers may be late.
* The controls of the form (slider, stepper, category table, schedule buttons,
  privacy switch): `Publish` has the one condition that the required fields are
  filled in.
* Signing out while writes are queued, in `Roster`: there devices stay signed in.
  What becomes of such writes is in `Account` and `WritePipeline`.
* `createDummyUser2` and `createCustomAccount` of `MyAPIClient`, which nothing
  calls.
* The pods, but for the write path of Firestore and Stripe's payment context with
  its options screen: what the code relies on of
  Storage, Auth, Stripe and the reads and listeners of Firestore is modelled as
  external steps, from how the code uses it.
