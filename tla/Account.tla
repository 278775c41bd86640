-------------------------------- MODULE Account --------------------------------
(***************************************************************************)
(* Signing up, logging in and signing out on one device.                   *)
(*                                                                         *)
(* LoginViewController starts a chain of calls when "Sign Up" is tapped:   *)
(*                                                                         *)
(*   createNewUser        makes the account and makes it the current user  *)
(*   createDatabaseUser   writes the user's document, without a username   *)
(*   updateDatabaseUser   writes the username into it                      *)
(*   createDummyUser      has a Cloud Function make a Stripe customer      *)
(*   updateFireBaseUserWithStripeStuff                                     *)
(*                        writes the full name and the customer            *)
(*                                                                         *)
(* and shows the walkthrough.  Every link but createDatabaseUser asks      *)
(* again who the current user is, nothing disables the button meanwhile,   *)
(* and nothing resumes a chain: the app may be killed between any two      *)
(* links and opens the main screen if somebody is signed in.               *)
(*                                                                         *)
(* Firebase Auth changes the current user on a queue of its own and tells  *)
(* Firestore and the app on the main queue.  Firestore keeps a queue of    *)
(* writes per user and sends those of the user it has been told of, as     *)
(* WriteQueue describes: the server may have applied several of them       *)
(* before the first is answered, and if the connection goes they are all   *)
(* sent and applied again.  Full name and customer are written together,   *)
(* so the customer stands for both.                                        *)
(***************************************************************************)
EXTENDS Integers, Sequences, FiniteSets

CONSTANTS
  Users,      \* e-mail addresses; the account of each has the same name
  Nobody,
  MaxTaps,    \* bound: taps of "Sign Up" and "Login"
  MaxLive     \* bound: requests under way at once

ASSUME UsersAssumption   == Nobody \notin Users
ASSUME MaxTapsAssumption == MaxTaps \in Nat

\* A tap and the chain it starts have one number.
Requests == 1..MaxTaps
Nothing  == 0

Sessions == Users \cup {Nobody}

Stages == {"none",        \* not tapped yet
           "asked",       \* Auth has been asked
           "answered",    \* its answer waits on the main queue
           "naming",      \* the username is written
           "customer",    \* the Stripe customer is asked for
           "details",     \* full name and customer are written
           "over"}        \* done, failed or cut off

VARIABLES
  accounts,       \* at Firebase Auth
  displayName,    \* of each account: the request that set it
  current,        \* Auth.auth().currentUser; kept on the device
  mainQueue,      \* what Auth has dispatched to the main queue
  firestoreUser,  \* the user Firestore has been told of
  queue,          \* Firestore's pending writes, per user; kept on the device
  reached,        \* how many of firestoreUser's the server has applied so far
  documents,      \* of the users collection
  customers,      \* Stripe customers, named by the request they were made for
  screen,
  visit,          \* the login screen that was opened last, by the taps before it
  tapped,         \* taps so far
  kind,           \* of each request: "signup" or "login"
  account,        \* the e-mail address it was made with
  from,           \* the login screen it was made on
  stage,
  crossed         \* history: a tap while another request was not over

vars == <<accounts, displayName, current, mainQueue, firestoreUser, queue, reached, documents,
          customers, screen, visit, tapped, kind, account, from, stage, crossed>>

serverVars  == <<accounts, displayName, documents, customers>>
sessionVars == <<current, mainQueue, firestoreUser>>
screenVars  == <<screen, visit>>
requestVars == <<tapped, kind, account, from, crossed>>

Writes == [sets : {"account", "username", "details"}, document : Users, request : Requests]

Events == [is : {"user"}, user : Sessions]
            \cup [is : {"answer", "navigate"}, request : Requests]

Documents == [there : BOOLEAN, username : Requests \cup {Nothing},
              customer : Requests \cup {Nothing}]

NoDocument  == [there |-> FALSE, username |-> Nothing, customer |-> Nothing]
NewDocument == [there |-> TRUE,  username |-> Nothing, customer |-> Nothing]

TypeOK ==
  /\ accounts \subseteq Users
  /\ displayName \in [Users -> Requests \cup {Nothing}]
  /\ current \in Sessions /\ firestoreUser \in Sessions
  /\ mainQueue \in Seq(Events)
  /\ queue \in [Sessions -> Seq(Writes)]
  /\ reached \in 0..Len(queue[firestoreUser])
  /\ documents \in [Users -> Documents]
  /\ \A u \in Users : documents[u].there \/ documents[u] = NoDocument
  /\ customers \subseteq Requests
  /\ screen \in {"login", "walkthrough", "main"}
  /\ tapped \in 0..MaxTaps /\ visit \in 0..tapped
  /\ kind \in [Requests -> {"signup", "login"}]
  /\ account \in [Requests -> Sessions]
  /\ from \in [Requests -> 0..MaxTaps]
  /\ stage \in [Requests -> Stages]
  /\ crossed \in BOOLEAN

\* The first launch: nobody is signed in, SceneDelegate shows the login screen.
Init ==
  /\ accounts = {}
  /\ displayName = [u \in Users |-> Nothing]
  /\ current = Nobody /\ firestoreUser = Nobody
  /\ mainQueue = <<>>
  /\ queue = [u \in Sessions |-> <<>>] /\ reached = 0
  /\ documents = [u \in Users |-> NoDocument]
  /\ customers = {}
  /\ screen = "login" /\ visit = 0
  /\ tapped = 0
  /\ kind = [r \in Requests |-> "login"]
  /\ account = [r \in Requests |-> Nobody]
  /\ from = [r \in Requests |-> 0]
  /\ stage = [r \in Requests |-> "none"]
  /\ crossed = FALSE

Live(r) == stage[r] \notin {"none", "over"}

Moves(r, to) == stage' = [stage EXCEPT ![r] = to]

\* The login screen of r is the one that is up; the walkthrough lies over it.
Shown(r) == screen # "main" /\ from[r] = visit

\* Its weak references still lead to it: the handlers of the last two calls hold on
\* to the screen.
Alive(r) ==
  \/ Shown(r)
  \/ \E s \in Requests : from[s] = from[r] /\ stage[s] \in {"customer", "details"}

-------------------------------------------------------------------------------
(* The user. *)

\* loginButtonPressed, with the fields filled in.
Tap(what, u) ==
  /\ screen = "login"
  /\ tapped < MaxTaps /\ Cardinality({r \in Requests : Live(r)}) < MaxLive
  /\ tapped' = tapped + 1
  /\ kind' = [kind EXCEPT ![tapped'] = what]
  /\ account' = [account EXCEPT ![tapped'] = u]
  /\ from' = [from EXCEPT ![tapped'] = visit]
  /\ Moves(tapped', "asked")
  /\ crossed' = (crossed \/ \E r \in Requests : Live(r))
  /\ UNCHANGED <<serverVars, sessionVars, screenVars, queue, reached>>

\* The walkthrough's "skip" and "next" lead to the main screen.
FinishWalkthrough ==
  /\ screen = "walkthrough"
  /\ screen' = "main"
  /\ UNCHANGED <<serverVars, sessionVars, visit, requestVars, stage, queue, reached>>

\* SettingsViewController: a new login screen; Firestore is told in its turn.
SignOutButtonPressed ==
  /\ screen = "main"
  /\ current' = Nobody
  /\ mainQueue' = IF current = Nobody THEN mainQueue
                  ELSE Append(mainQueue, [is |-> "user", user |-> Nobody])
  /\ screen' = "login" /\ visit' = tapped
  /\ UNCHANGED <<serverVars, firestoreUser, requestVars, stage, queue, reached>>

\* The app is killed and opened again: no handler is left, and no connection.
Relaunch ==
  /\ mainQueue' = <<>> /\ firestoreUser' = current /\ reached' = 0
  /\ stage' = [r \in Requests |-> IF Live(r) THEN "over" ELSE stage[r]]
  /\ screen' = (IF current = Nobody THEN "login" ELSE "main") /\ visit' = tapped
  /\ UNCHANGED <<serverVars, current, requestVars, queue>>

-------------------------------------------------------------------------------
(* Firebase Auth. *)

\* The answer to r makes u the current user; the main queue is told of the user,
\* then the handler of r is put there.
SignsIn(r, u) ==
  /\ current' = u
  /\ mainQueue' = mainQueue \o << [is |-> "user", user |-> u],
                                  [is |-> "answer", request |-> r] >>
  /\ Moves(r, "answered")

\* Mutant: an account that is there already is signed in.
CreateOrSignIn(r) ==
  /\ stage[r] = "asked" /\ kind[r] = "signup"
  /\ accounts' = accounts \cup {account[r]}
  /\ SignsIn(r, account[r])
  /\ UNCHANGED <<displayName, documents, customers, firestoreUser, screenVars, requestVars,
                 queue, reached>>

AccountCreated(r) ==
  /\ stage[r] = "asked" /\ kind[r] = "signup" /\ account[r] \notin accounts
  /\ accounts' = accounts \cup {account[r]}
  /\ SignsIn(r, account[r])
  /\ UNCHANGED <<displayName, documents, customers, firestoreUser, screenVars, requestVars,
                 queue, reached>>

SignedIn(r) ==
  /\ stage[r] = "asked" /\ kind[r] = "login" /\ account[r] \in accounts
  /\ SignsIn(r, account[r])
  /\ UNCHANGED <<serverVars, firestoreUser, screenVars, requestVars, queue, reached>>

\* Mutant: the chain goes on after a failure.
FailureIgnored(r) ==
  /\ stage[r] = "asked"
  /\ Moves(r, "answered")
  /\ mainQueue' = Append(mainQueue, [is |-> "answer", request |-> r])
  /\ UNCHANGED <<serverVars, current, firestoreUser, screenVars, requestVars, queue, reached>>

\* A refusal or no answer; the account may have been created all the same.
AuthFails(r) ==
  /\ stage[r] = "asked"
  /\ Moves(r, "over")
  /\ \/ accounts' = accounts
     \/ kind[r] = "signup" /\ accounts' = accounts \cup {account[r]}
  /\ UNCHANGED <<displayName, documents, customers, sessionVars, screenVars, requestVars,
                 queue, reached>>

AuthAnswers(r) == AccountCreated(r) \/ SignedIn(r) \/ AuthFails(r)

-------------------------------------------------------------------------------
(* The main queue. *)

NextIs(what) == mainQueue # <<>> /\ Head(mainQueue).is = what

\* Firestore hears of the current user, as it was when this was dispatched, and
\* connects anew for it.
CredentialChange ==
  /\ NextIs("user")
  /\ firestoreUser' = Head(mainQueue).user /\ reached' = 0
  /\ mainQueue' = Tail(mainQueue)
  /\ UNCHANGED <<serverVars, current, screenVars, requestVars, stage, queue>>

\* setData of createDatabaseUser, and updateData of updateDatabaseUser.
AccountWrite(r)  == [sets |-> "account", document |-> account[r], request |-> r]
UsernameWrite(r) == [sets |-> "username", document |-> current, request |-> r]
DetailsWrite(r)  == [sets |-> "details", document |-> current, request |-> r]

Enqueue(writes) ==
  queue' = [queue EXCEPT ![firestoreUser] = @ \o writes] /\ UNCHANGED reached

\* createNewUser's handler: sets the display name of the current user (a failure would
\* only be printed), writes the document of the new one and the username of the
\* current one.
NewUserCreated ==
  LET r == Head(mainQueue).request
  IN  /\ NextIs("answer") /\ kind[r] = "signup"
      /\ mainQueue' = Tail(mainQueue)
      /\ displayName' = [u \in Users |-> IF u = current THEN r ELSE displayName[u]]
      /\ IF ~Alive(r) THEN Moves(r, "over") /\ UNCHANGED <<queue, reached>>
         ELSE IF current = Nobody
              THEN Moves(r, "over") /\ Enqueue(<<AccountWrite(r)>>)
              ELSE Moves(r, "naming") /\ Enqueue(<<AccountWrite(r), UsernameWrite(r)>>)
      /\ UNCHANGED <<accounts, documents, customers, current, firestoreUser,
                     screenVars, requestVars>>

\* Mutant: a login also creates the user's document.
LoginCreatesUser ==
  LET r == Head(mainQueue).request
  IN  /\ NextIs("answer") /\ kind[r] = "login"
      /\ mainQueue' = Append(Tail(mainQueue), [is |-> "navigate", request |-> r])
      /\ Enqueue(<<AccountWrite(r)>>)
      /\ UNCHANGED <<serverVars, current, firestoreUser, screenVars, requestVars, stage>>

\* signExistingUser's handler dispatches navigateToMainView.
ExistingUserSigned ==
  LET r == Head(mainQueue).request
  IN  /\ NextIs("answer") /\ kind[r] = "login"
      /\ mainQueue' = Append(Tail(mainQueue), [is |-> "navigate", request |-> r])
      /\ UNCHANGED <<serverVars, current, firestoreUser, screenVars, requestVars, stage,
                     queue, reached>>

NavigateToMainView ==
  LET r == Head(mainQueue).request
  IN  /\ NextIs("navigate")
      /\ mainQueue' = Tail(mainQueue)
      /\ screen' = IF Alive(r) THEN "main" ELSE screen
      /\ Moves(r, "over")
      /\ UNCHANGED <<serverVars, current, firestoreUser, visit, requestVars, queue, reached>>

RunMainQueue == CredentialChange \/ NewUserCreated \/ ExistingUserSigned \/ NavigateToMainView

-------------------------------------------------------------------------------
(* Firestore. *)

Pending == queue[firestoreUser]
Oldest  == Head(Pending)
Dequeue == queue' = [queue EXCEPT ![firestoreUser] = Tail(@)]

\* Mutant: an update creates a document that is not there.
AlwaysStores(w) == TRUE

\* updateData fails where there is no document.
Stores(w) == w.sets = "account" \/ documents[w.document].there

Applied(w) ==
  [documents EXCEPT ![w.document] =
     IF w.sets = "account" THEN NewDocument
     ELSE IF w.sets = "username" THEN [@ EXCEPT !.username = w.request]
     ELSE [@ EXCEPT !.customer = w.request]]

\* The server applies the next write, whether or not the ones before have been
\* answered.
ApplyNext ==
  LET w == Pending[reached + 1]
  IN  /\ reached < Len(Pending) /\ Stores(w)
      /\ documents' = Applied(w)
      /\ reached' = reached + 1
      /\ UNCHANGED <<accounts, displayName, customers, sessionVars, screenVars, requestVars,
                     stage, queue>>

\* The connection breaks and takes the answers along: all writes are sent again.
Disconnect ==
  /\ reached > 0 /\ reached' = 0
  /\ UNCHANGED <<serverVars, sessionVars, screenVars, requestVars, stage, queue>>

\* The success of the oldest write arrives: createDatabaseUser's handler has nothing
\* to do,
Answered(what) ==
  /\ reached > 0 /\ Oldest.sets = what
  /\ Dequeue /\ reached' = reached - 1
  /\ UNCHANGED <<serverVars, sessionVars, requestVars>>

DatabaseUserCreated == Answered("account") /\ UNCHANGED <<screenVars, stage>>

\* updateDatabaseUser's reads the names from the fields, as they are now, and asks for
\* a customer,
UsernameUpdated ==
  LET r == Oldest.request
  IN  /\ Answered("username")
      /\ IF stage[r] # "naming" THEN stage' = stage
         ELSE \/ Moves(r, "over")
              \/ Alive(r) /\ current # Nobody /\ Moves(r, "customer")
      /\ UNCHANGED screenVars

\* and that of the last link shows the walkthrough, over its own screen.
DetailsUpdated ==
  LET r == Oldest.request
  IN  /\ Answered("details")
      /\ IF stage[r] # "details" THEN UNCHANGED <<screen, stage>>
         ELSE /\ Moves(r, "over")
              /\ screen' = IF Shown(r) THEN "walkthrough" ELSE screen
      /\ UNCHANGED visit

\* Mutant: a refused write is not reported to its handler.
RefusedUnheard ==
  /\ Pending # <<>>
  /\ Dequeue /\ reached' = 0
  /\ UNCHANGED <<serverVars, sessionVars, screenVars, requestVars, stage>>

\* The oldest write is given up as refused, and the connection with it.
Refused ==
  LET r == Oldest.request
  IN  /\ Pending # <<>>
      /\ Dequeue /\ reached' = 0
      /\ stage' = IF \/ Oldest.sets = "username" /\ stage[r] = "naming"
                     \/ Oldest.sets = "details" /\ stage[r] = "details"
                  THEN [stage EXCEPT ![r] = "over"] ELSE stage
      /\ UNCHANGED <<serverVars, sessionVars, screenVars, requestVars>>

FirestoreAnswers == DatabaseUserCreated \/ UsernameUpdated \/ DetailsUpdated \/ Refused

-------------------------------------------------------------------------------
(* The Cloud Function createStripeCustomer. *)

CustomerCreated(r) ==
  /\ stage[r] = "customer" /\ r \notin customers
  /\ customers' = customers \cup {r}
  /\ UNCHANGED <<accounts, displayName, documents, sessionVars, screenVars, requestVars,
                 stage, queue, reached>>

\* createDummyUser's handler writes the details of the current user, if there is one.
CustomerAnswered(r) ==
  /\ stage[r] = "customer" /\ r \in customers
  /\ IF current = Nobody THEN Moves(r, "over") /\ UNCHANGED <<queue, reached>>
                         ELSE Moves(r, "details") /\ Enqueue(<<DetailsWrite(r)>>)
  /\ UNCHANGED <<serverVars, sessionVars, screenVars, requestVars>>

\* A failed call is printed; the completion is not called.
CustomerFails(r) ==
  /\ stage[r] = "customer"
  /\ Moves(r, "over")
  /\ UNCHANGED <<serverVars, sessionVars, screenVars, requestVars, queue, reached>>

-------------------------------------------------------------------------------

Next ==
  \/ \E what \in {"signup", "login"}, u \in Users : Tap(what, u)
  \/ FinishWalkthrough \/ SignOutButtonPressed \/ Relaunch
  \/ \E r \in Requests :
       AuthAnswers(r) \/ CustomerCreated(r) \/ CustomerAnswered(r) \/ CustomerFails(r)
  \/ RunMainQueue
  \/ ApplyNext \/ Disconnect \/ FirestoreAnswers

Spec == Init /\ [][Next]_vars

\* Auth, the main queue, Firestore and the function answer, if only with a failure:
\* the oldest write of a user Firestore works for is not put off for ever.
FairSpec ==
  /\ Spec
  /\ \A r \in Requests : WF_vars(AuthAnswers(r))
                         /\ WF_vars(CustomerAnswered(r) \/ CustomerFails(r))
  /\ WF_vars(RunMainQueue)
  /\ WF_vars(FirestoreAnswers)

-------------------------------------------------------------------------------
(* What holds. *)

\* Whoever waits for each request to be over gets a document of their own: the
\* display name, the username and the customer come from the sign-up of the account
\* they are kept under, and the customer after the username; whatever is refused,
\* lost or sent again, and whenever the app is killed.
DetailsAreOwn ==
  ~crossed => \A u \in Users :
    /\ displayName[u] # Nothing => account[displayName[u]] = u
    /\ documents[u].username # Nothing => account[documents[u].username] = u
    /\ documents[u].customer # Nothing => documents[u].customer = documents[u].username

\* However often the button is tapped, an account has one Stripe customer made for it
\* at most, and no customer is in two documents.
OneCustomerEach ==
  /\ \A r, s \in customers : account[r] = account[s] => r = s
  /\ \A u, v \in Users :
       documents[u].customer = documents[v].customer /\ u # v
         => documents[u].customer = Nothing

\* The first write replaces the whole document and may be sent again, and as long as
\* they wait it can take back only what is not settled yet: a username whose own write
\* is still in the queue, unanswered, to be sent again behind it.  A username the
\* sign-up has been told of, and a customer, are never taken from their document.
AnsweredIsKept ==
  [][~crossed' => \A u \in Users :
       /\ documents[u].username # Nothing =>
            \/ documents'[u].username # Nothing
            \/ \E i \in 1..Len(queue'[u]) :
                 queue'[u][i] = [sets |-> "username", document |-> u,
                                 request |-> documents[u].username]
       /\ documents[u].customer # Nothing => documents'[u].customer # Nothing]_vars

\* The write a request waits for is with a user Firestore does not work for.
Parked(r) ==
  \E u \in Sessions \ {firestoreUser} :
    \E i \in 1..Len(queue[u]) : queue[u][i].request = r /\ queue[u][i].sets # "account"

\* Every request is over at some time, or waits for its user to come back.
EventuallySettled ==
  \A r \in Requests : Live(r) ~> (~Live(r) \/ Parked(r))

===============================================================================
