-------------------------------- MODULE Profile --------------------------------
(***************************************************************************)
(* PersonalViewController: a profile with the tabs Created, Favorites and  *)
(* Backed (which is always empty).                                         *)
(*                                                                         *)
(* When the view appears, when a tab is tapped and when the list is pulled *)
(* down, configureSuShares2 registers a Firestore listener for the tab.    *)
(* Its handler does not use the snapshot: it starts a read, and the read's *)
(* answer replaces the list.  There is a slot for a listener of each kind; *)
(* the slots are emptied when the view disappears, not when the tab        *)
(* changes, and a registration overwrites its slot without removing what   *)
(* was in it.                                                              *)
(*                                                                         *)
(* Answers to reads of one kind come in the order of the reads, and tell   *)
(* what the device has learnt of the collection by then.                   *)
(***************************************************************************)
EXTENDS Integers, FiniteSets

CONSTANTS
  SuShares,
  MaxListeners,  \* bound: registrations
  MaxTaps,       \* bound: taps on tabs and pulls
  MaxReads,      \* bound: reads of one kind under way
  MaxFailures    \* bound: listeners and reads that fail

ASSUME BoundsAssumption ==
  /\ MaxListeners \in Nat /\ MaxTaps \in Nat /\ MaxReads \in Nat \ {0}
  /\ MaxFailures \in Nat

Kinds == {"created", "favorites"}
Tabs  == Kinds \cup {"backed"}

Listeners == 1..MaxListeners
None      == 0

VARIABLES
  stored,     \* the SuShares of each kind, as far as the device knows
  visible,
  headerTag,  \* the tab
  suShares,   \* the list that is shown
  made,       \* registrations so far
  kind,       \* of each registration
  live,       \* registrations that were not removed
  due,        \* those whose next snapshot has not been handled
  slot,       \* createListner and favListener
  asked,      \* reads under way
  failures,   \* so far
  missed,     \* history: the last read or listener of this kind has failed
  taps        \* history: taps and pulls

vars == <<stored, visible, headerTag, suShares, made, kind, live, due, slot, asked,
          failures, missed, taps>>

listenerVars == <<made, kind, live, due, slot>>
failureVars  == <<failures, missed>>

TypeOK ==
  /\ stored \in [Kinds -> SUBSET SuShares]
  /\ visible \in BOOLEAN
  /\ headerTag \in Tabs
  /\ suShares \in SUBSET SuShares
  /\ made \in 0..MaxListeners
  /\ kind \in [Listeners -> Kinds]
  /\ live \subseteq 1..made /\ due \subseteq live
  /\ slot \in [Kinds -> 0..made]
  /\ asked \in [Kinds -> 0..MaxReads]
  /\ failures \in 0..MaxFailures
  /\ missed \in [Kinds -> BOOLEAN]
  /\ taps \in 0..MaxTaps

\* viewDidLoad: configureSuShares reads what was created.
Init ==
  /\ stored \in [Kinds -> SUBSET SuShares]
  /\ visible = FALSE /\ headerTag = "created" /\ suShares = {}
  /\ made = 0 /\ kind = [l \in Listeners |-> "created"]
  /\ live = {} /\ due = {} /\ slot = [k \in Kinds |-> None]
  /\ asked = [k \in Kinds |-> IF k = "created" THEN 1 ELSE 0]
  /\ failures = 0 /\ missed = [k \in Kinds |-> FALSE] /\ taps = 0

-------------------------------------------------------------------------------

\* configureSuShares2(tag).
ConfigureSuShares2(tab) ==
  IF tab = "backed"
  THEN suShares' = {} /\ UNCHANGED listenerVars
  ELSE /\ made < MaxListeners
       /\ made' = made + 1
       /\ kind' = [kind EXCEPT ![made'] = tab]
       /\ live' = live \cup {made'}
       /\ due' = due \cup {made'}
       /\ slot' = [slot EXCEPT ![tab] = made']
       /\ UNCHANGED suShares

\* The tab's listener is registered anew.
ViewDidAppear ==
  /\ ~visible
  /\ visible' = TRUE
  /\ ConfigureSuShares2(headerTag)
  /\ UNCHANGED <<stored, headerTag, asked, failureVars, taps>>

\* Mutant: the listener of what was created is forgotten.
FavoritesOnlyRemoved ==
  /\ visible
  /\ visible' = FALSE
  /\ live' = live \ {slot["favorites"]}
  /\ due' = due \cap live'
  /\ UNCHANGED <<stored, headerTag, suShares, made, kind, slot, asked, failureVars,
                 taps>>

\* Mutant: a listener that was removed is called once more.
RemovedStillDelivers ==
  /\ visible
  /\ visible' = FALSE
  /\ live' = live \ {slot[k] : k \in Kinds}
  /\ UNCHANGED <<stored, headerTag, suShares, made, kind, due, slot, asked,
                 failureVars, taps>>

\* The listeners in the slots are removed.
ViewDidDisappear ==
  /\ visible
  /\ visible' = FALSE
  /\ live' = live \ {slot[k] : k \in Kinds}
  /\ due' = due \cap live'
  /\ UNCHANGED <<stored, headerTag, suShares, made, kind, slot, asked, failureVars,
                 taps>>

\* A tap on a tab.
SelectedHeader(tab) ==
  /\ visible /\ taps < MaxTaps
  /\ taps' = taps + 1
  /\ ConfigureSuShares2(tab)
  /\ headerTag' = tab
  /\ UNCHANGED <<stored, visible, asked, failureVars>>

\* The list is pulled down.
RefreshSuShares ==
  /\ visible /\ taps < MaxTaps
  /\ taps' = taps + 1
  /\ ConfigureSuShares2(headerTag)
  /\ UNCHANGED <<stored, visible, headerTag, asked, failureVars>>

-------------------------------------------------------------------------------

\* The collection of kind k changes; every listener of that kind will hear of it.
StoredChanges(k) ==
  /\ \E s \in SUBSET SuShares :
       s # stored[k] /\ stored' = [stored EXCEPT ![k] = s]
  /\ due' = due \cup {l \in live : kind[l] = k}
  /\ UNCHANGED <<visible, headerTag, suShares, made, kind, live, slot, asked,
                 failureVars, taps>>

\* A listener's handler starts a read.
Deliver(l) ==
  /\ l \in due
  /\ asked[kind[l]] < MaxReads
  /\ due' = due \ {l}
  /\ asked' = [asked EXCEPT ![kind[l]] = @ + 1]
  /\ UNCHANGED <<stored, visible, headerTag, suShares, made, kind, live, slot,
                 failureVars, taps>>

\* A listener fails and is not called again; the error is printed.
ListenerFails(l) ==
  /\ l \in live /\ failures < MaxFailures
  /\ live' = live \ {l} /\ due' = due \ {l}
  /\ failures' = failures + 1
  /\ missed' = [missed EXCEPT ![kind[l]] = TRUE]
  /\ UNCHANGED <<stored, visible, headerTag, suShares, made, kind, slot, asked, taps>>

\* Mutant: an empty answer does not replace the list.
EmptyIsIgnored(k) ==
  /\ asked[k] > 0
  /\ asked' = [asked EXCEPT ![k] = @ - 1]
  /\ suShares' = IF stored[k] = {} THEN suShares ELSE stored[k]
  /\ missed' = [missed EXCEPT ![k] = FALSE]
  /\ UNCHANGED <<stored, visible, headerTag, listenerVars, failures, taps>>

\* A read's answer replaces the list, whichever tab is selected by now.
ReadArrives(k) ==
  /\ asked[k] > 0
  /\ asked' = [asked EXCEPT ![k] = @ - 1]
  /\ suShares' = stored[k]
  /\ missed' = [missed EXCEPT ![k] = FALSE]
  /\ UNCHANGED <<stored, visible, headerTag, listenerVars, failures, taps>>

\* A read fails; the error is printed.
ReadFails(k) ==
  /\ asked[k] > 0 /\ failures < MaxFailures
  /\ asked' = [asked EXCEPT ![k] = @ - 1]
  /\ failures' = failures + 1
  /\ missed' = [missed EXCEPT ![k] = TRUE]
  /\ UNCHANGED <<stored, visible, headerTag, suShares, listenerVars, taps>>

-------------------------------------------------------------------------------

Answers(k) == ReadArrives(k) \/ ReadFails(k)

Next ==
  \/ ViewDidAppear \/ ViewDidDisappear \/ RefreshSuShares
  \/ \E tab \in Tabs : SelectedHeader(tab)
  \/ \E k \in Kinds : StoredChanges(k) \/ Answers(k)
  \/ \E l \in Listeners : Deliver(l) \/ ListenerFails(l)

Spec == Init /\ [][Next]_vars

\* Firestore calls the listeners and answers the reads.
FairSpec ==
  /\ Spec
  /\ \A l \in Listeners : WF_vars(Deliver(l))
  /\ \A k \in Kinds : WF_vars(Answers(k))

-------------------------------------------------------------------------------
(* What holds. *)

\* Coming and going leaks no listener: each one that is alive without need was
\* replaced by a tap or a pull.
LeaksNeedTaps ==
  Cardinality(live) <= taps + (IF visible THEN 1 ELSE 0)

\* Tab k is shown, its listener is alive, and no listener or read of the other
\* kind is.
Undisturbed(k) ==
  /\ headerTag = k /\ slot[k] \in live /\ ~missed[k]
  /\ \A l \in live : kind[l] = k
  /\ \A other \in Kinds \ {k} : asked[other] = 0

\* A tab that is left alone from the time its listener has something to tell
\* catches up with its collection when that comes to rest.
FollowsOwnTab ==
  \A k \in Kinds : \A s \in SUBSET SuShares :
    [](/\ slot[k] \in due
       /\ [](Undisturbed(k) /\ stored[k] = s)
       => <>[](suShares = s))

-------------------------------------------------------------------------------
(* What the tabs say and the code does not do. *)

\* Nothing is on its way to the list.
Quiet == due = {} /\ \A k \in Kinds : asked[k] = 0 /\ ~missed[k]

\* "Created", "Favorites": once all is quiet, the list is that of its tab.
TabTellsTheList ==
  visible /\ Quiet /\ headerTag \in Kinds => suShares = stored[headerTag]
===============================================================================
