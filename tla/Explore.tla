-------------------------------- MODULE Explore --------------------------------
(***************************************************************************)
(* ExploreViewController: the list of SuShares, its tags and its search.   *)
(*                                                                         *)
(* The controller keeps two lists.  originalSusus is the last snapshot     *)
(* that a listener of the suShare collection brought, without the reported *)
(* SuShares; currentSusus is what the table shows.  A snapshot goes into   *)
(* currentSusus only while no tag and no query is set, or when the table   *)
(* is empty.  setSuShareListener registers a listener and keeps one slot   *)
(* for it; it is called by viewDidLoad and again by every viewWillAppear.  *)
(*                                                                         *)
(* Both lists are sorted by date, in every snapshot alike, so they are     *)
(* sets here.  A SuShare's description and title are abstracted to the     *)
(* queries they match.                                                     *)
(***************************************************************************)
EXTENDS Naturals, FiniteSets

CONSTANTS
  SuShares,    \* documents of the suShare collection
  Tags,        \* the six category buttons
  TagOf,       \* category.first ?? 0 of each SuShare
  Queries,     \* what the user may type in the search bar
  Matches,     \* the SuShares whose title or description contains a query
  MaxListeners,  \* bound: registrations made
  MaxChanges     \* bound: changes of the collection, reports included

ASSUME TagOfAssumption   == TagOf \in [SuShares -> Tags]
ASSUME MatchesAssumption == Matches \in [Queries -> SUBSET SuShares]
ASSUME BoundsAssumption  == MaxListeners \in Nat \ {0} /\ MaxChanges \in Nat

VARIABLES
  stored,         \* the collection: which documents are there, which reported
  report,         \* how far this device's report of each SuShare has got
  onScreen,
  made,           \* listeners registered so far; the last one is in the slot
  live,           \* registrations not removed
  due,            \* live ones with a snapshot that was not delivered yet
  originalSusus,
  currentSusus,
  currentTags,
  currentQuery,
  changes

vars == <<stored, report, onScreen, made, live, due, originalSusus,
          currentSusus, currentTags, currentQuery, changes>>

collectionVars == <<stored, report, changes>>
listenerVars   == <<onScreen, made, live, due>>
listVars       == <<originalSusus, currentSusus, currentTags, currentQuery>>

NoQuery == "no query"

ASSUME NoQueryAssumption == NoQuery \notin Queries

\* suShareListener: the last registration, removed or not.
Held == made

\* What the collection looks like on this device, without the reported ones.  A
\* report counts from the tap on, before the server has answered.
Unflagged == {d \in SuShares : stored[d] = "listed" /\ report[d] # "flagging"}

Unfiltered == currentTags = {} /\ currentQuery = NoQuery

Tagged(shares, tags) == {d \in shares : TagOf[d] \in tags}

-------------------------------------------------------------------------------

TypeOK ==
  /\ stored \in [SuShares -> {"absent", "listed", "flagged"}]
  /\ report \in [SuShares -> {"none", "flagging", "filing", "confirmed"}]
  /\ onScreen \in BOOLEAN
  /\ made \in 0..MaxListeners
  /\ live \subseteq 1..made
  /\ due \subseteq live
  /\ originalSusus \subseteq SuShares
  /\ currentSusus \subseteq SuShares
  /\ currentTags \subseteq Tags
  /\ currentQuery \in Queries \cup {NoQuery}
  /\ changes \in 0..MaxChanges

\* viewDidLoad has run: one listener is registered, the view is not shown yet.
Init ==
  /\ stored \in [SuShares -> {"absent", "listed"}]
  /\ report = [d \in SuShares |-> "none"]
  /\ onScreen = FALSE
  /\ made = 1 /\ live = {1} /\ due = {1}
  /\ originalSusus = {} /\ currentSusus = {}
  /\ currentTags = {} /\ currentQuery = NoQuery
  /\ changes = 0

-------------------------------------------------------------------------------
(* The view's life. *)

\* setSuShareListener: the slot is overwritten, the old registration is not
\* removed; the new one gets the collection as it is.
SetSuShareListener ==
  /\ made < MaxListeners
  /\ made' = made + 1
  /\ live' = live \cup {made'}
  /\ due' = due \cup {made'}

ViewWillAppear ==
  /\ ~onScreen
  /\ onScreen' = TRUE
  /\ SetSuShareListener
  /\ UNCHANGED <<collectionVars, listVars>>

\* Mutant: the listener goes on while the view is hidden.
HiddenKeepsListening ==
  /\ onScreen
  /\ onScreen' = FALSE
  /\ UNCHANGED <<collectionVars, made, live, due, listVars>>

\* Mutant: a removed listener still brings its last snapshot.
RemovedStillDelivers ==
  /\ onScreen
  /\ onScreen' = FALSE
  /\ live' = live \ {Held}
  /\ UNCHANGED <<collectionVars, made, due, listVars>>

ViewWillDisappear ==
  /\ onScreen
  /\ onScreen' = FALSE
  /\ live' = live \ {Held}
  /\ due' = due \ {Held}
  /\ UNCHANGED <<collectionVars, made, listVars>>

-------------------------------------------------------------------------------
(* Snapshots. *)

\* Mutant of the handler: only originalSusus is set, and its didSet fills an
\* empty table.
ShownAfterSnapshotByDidSet(shares) ==
  IF currentSusus = {} THEN shares ELSE currentSusus

\* currentSusus after a snapshot: originalSusus' didSet fills an empty table, and
\* the handler refreshes an unfiltered one.
ShownAfterSnapshot(shares) ==
  IF currentSusus = {} \/ Unfiltered THEN shares ELSE currentSusus

Deliver(l) ==
  /\ l \in due
  /\ due' = due \ {l}
  /\ originalSusus' = Unflagged
  /\ currentSusus' = ShownAfterSnapshot(Unflagged)
  /\ UNCHANGED <<collectionVars, onScreen, made, live, currentTags, currentQuery>>

\* The listener gets an error: it is printed, and nothing follows.
ListenerFails(l) ==
  /\ l \in live
  /\ live' = live \ {l}
  /\ due' = due \ {l}
  /\ UNCHANGED <<collectionVars, onScreen, made, listVars>>

\* Somebody else creates or reports a SuShare.
OthersChange(d) ==
  /\ changes < MaxChanges
  /\ changes' = changes + 1
  /\ \/ stored[d] = "absent" /\ stored' = [stored EXCEPT ![d] = "listed"]
     \/ stored[d] = "listed" /\ stored' = [stored EXCEPT ![d] = "flagged"]
  /\ due' = live
  /\ UNCHANGED <<report, onScreen, made, live, listVars>>

-------------------------------------------------------------------------------
(* The filter. *)

\* Mutant: taking the last tag away leaves the table as it was.
TagButtonKeepsTable(tag) ==
  /\ onScreen
  /\ IF tag \notin currentTags
     THEN /\ currentTags' = currentTags \cup {tag}
          /\ currentSusus' = Tagged(originalSusus, currentTags')
     ELSE /\ currentTags' = currentTags \ {tag}
          /\ currentSusus' = currentSusus
  /\ UNCHANGED <<collectionVars, listenerVars, originalSusus, currentQuery>>

\* tagButtonPressed, tagFilter.  With the last tag gone and a query set, nothing
\* is left of the list.
TagButtonPressed(tag) ==
  /\ onScreen
  /\ currentTags' = IF tag \in currentTags THEN currentTags \ {tag}
                                           ELSE currentTags \cup {tag}
  /\ currentSusus' = IF currentTags' = {} /\ currentQuery = NoQuery
                     THEN originalSusus
                     ELSE Tagged(originalSusus, currentTags')
  /\ UNCHANGED <<collectionVars, listenerVars, originalSusus, currentQuery>>

\* searchBarSearchButtonClicked with some text: the tags are not looked at.
Search(query) ==
  /\ onScreen
  /\ currentQuery' = query
  /\ currentSusus' = originalSusus \cap Matches[query]
  /\ UNCHANGED <<collectionVars, listenerVars, originalSusus, currentTags>>

\* The same with an empty search bar: currentQuery keeps the last query.
SearchEmpty ==
  /\ onScreen
  /\ currentSusus' = IF currentTags # {} THEN Tagged(originalSusus, currentTags)
                                         ELSE originalSusus
  /\ UNCHANGED <<collectionVars, listenerVars, originalSusus, currentTags,
                 currentQuery>>

-------------------------------------------------------------------------------
(* Reporting from a cell. *)

\* updateSushareFlagged: the listeners see the device's own write at once.
Report(d) ==
  /\ onScreen
  /\ d \in currentSusus
  /\ report[d] = "none"
  /\ changes < MaxChanges
  /\ changes' = changes + 1
  /\ report' = [report EXCEPT ![d] = "flagging"]
  /\ due' = live
  /\ UNCHANGED <<stored, onScreen, made, live, listVars>>

\* The flag is stored; addSuShareToFlaggedList goes on.
FlagStored(d) ==
  /\ report[d] = "flagging"
  /\ report' = [report EXCEPT ![d] = "filing"]
  /\ stored' = [stored EXCEPT ![d] = "flagged"]
  /\ due' = live
  /\ UNCHANGED <<changes, onScreen, made, live, listVars>>

\* The flag is refused: the device's own write is taken back.
FlagRefused(d) ==
  /\ report[d] = "flagging"
  /\ report' = [report EXCEPT ![d] = "none"]
  /\ due' = live
  /\ UNCHANGED <<stored, changes, onScreen, made, live, listVars>>

\* flagASuShare succeeds: "this SuShare has been flagged".
ReportConfirmed(d) ==
  /\ report[d] = "filing"
  /\ report' = [report EXCEPT ![d] = "confirmed"]
  /\ UNCHANGED <<stored, changes, listenerVars, listVars>>

ReportNotFiled(d) ==
  /\ report[d] = "filing"
  /\ report' = [report EXCEPT ![d] = "none"]
  /\ UNCHANGED <<stored, changes, listenerVars, listVars>>

-------------------------------------------------------------------------------

Next ==
  \/ ViewWillAppear \/ ViewWillDisappear
  \/ \E l \in live : Deliver(l) \/ ListenerFails(l)
  \/ \E tag \in Tags : TagButtonPressed(tag)
  \/ \E query \in Queries : Search(query)
  \/ SearchEmpty
  \/ \E d \in SuShares :
       \/ OthersChange(d)
       \/ Report(d) \/ FlagStored(d) \/ FlagRefused(d)
       \/ ReportConfirmed(d) \/ ReportNotFiled(d)

Spec == Init /\ [][Next]_vars

\* The SDK delivers what is due, unless the listener is removed or fails first.
Fairness == \A l \in 1..MaxListeners : WF_vars(Deliver(l))

FairSpec == Spec /\ Fairness

-------------------------------------------------------------------------------
(* What holds. *)

\* While no tag and no query is set, the table shows the whole snapshot, whatever
\* tags were set and taken away and whatever snapshots came meanwhile.
UnfilteredShowsAll == Unfiltered => currentSusus = originalSusus

\* The registration of viewDidLoad is overwritten by the first viewWillAppear and
\* never removed; no other is left behind, however often the view comes and goes.
OneListenerLeaks ==
  /\ live \subseteq {1, Held}
  /\ ~onScreen => live \subseteq {1}

\* The table follows the collection as long as no filter is set and the view's
\* listener works: SuShares of others appear, reported ones go.
FollowsCollection ==
  <>[](Unfiltered /\ Held \in live) => <>[](currentSusus = Unflagged)
===============================================================================
