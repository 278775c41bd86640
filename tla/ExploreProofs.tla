----------------------------- MODULE ExploreProofs -----------------------------
(***************************************************************************)
(* The safety properties of the Explore list, for any collection, tags,    *)
(* queries and bounds.                                                     *)
(***************************************************************************)
EXTENDS Explore, TLAPS

\* Every state of the Explore list is well typed.
THEOREM TypeInvariant == Spec => []TypeOK
<1>1. Init => TypeOK
  <2> SUFFICES ASSUME Init PROVE TypeOK
    OBVIOUS
  <2>1. stored \in [SuShares -> {"absent", "listed", "flagged"}]
    BY DEF Init
  <2>2. /\ report \in [SuShares -> {"none", "flagging", "filing", "confirmed"}]
        /\ onScreen \in BOOLEAN
    BY DEF Init
  <2>3. made \in 0..MaxListeners /\ live \subseteq 1..made /\ due \subseteq live
    BY BoundsAssumption DEF Init
  <2> QED
    BY <2>1, <2>2, <2>3, BoundsAssumption DEF Init, TypeOK
<1>2. TypeOK /\ [Next]_vars => TypeOK'
  <2> SUFFICES ASSUME TypeOK, [Next]_vars PROVE TypeOK'
    OBVIOUS
  <2> USE BoundsAssumption, MatchesAssumption
        DEF TypeOK, collectionVars, listenerVars, listVars
  <2>1. CASE ViewWillAppear
    BY <2>1 DEF ViewWillAppear, SetSuShareListener
  <2>2. CASE ViewWillDisappear
    BY <2>2 DEF ViewWillDisappear, Held
  <2>3. ASSUME NEW l \in live, Deliver(l) PROVE TypeOK'
    BY <2>3 DEF Deliver, ShownAfterSnapshot, Unflagged
  <2>4. ASSUME NEW l \in live, ListenerFails(l) PROVE TypeOK'
    BY <2>4 DEF ListenerFails
  <2>5. ASSUME NEW tag \in Tags, TagButtonPressed(tag) PROVE TypeOK'
    BY <2>5 DEF TagButtonPressed, Tagged
  <2>6. ASSUME NEW query \in Queries, Search(query) PROVE TypeOK'
    BY <2>6 DEF Search
  <2>7. CASE SearchEmpty
    BY <2>7 DEF SearchEmpty, Tagged
  <2>8. ASSUME NEW d \in SuShares, OthersChange(d) PROVE TypeOK'
    BY <2>8 DEF OthersChange
  <2>9. ASSUME NEW d \in SuShares, Report(d) PROVE TypeOK'
    BY <2>9 DEF Report
  <2>10. ASSUME NEW d \in SuShares, FlagStored(d) PROVE TypeOK'
    BY <2>10 DEF FlagStored
  <2>11. ASSUME NEW d \in SuShares, FlagRefused(d) PROVE TypeOK'
    BY <2>11 DEF FlagRefused
  <2>12. ASSUME NEW d \in SuShares, ReportConfirmed(d) PROVE TypeOK'
    BY <2>12 DEF ReportConfirmed
  <2>13. ASSUME NEW d \in SuShares, ReportNotFiled(d) PROVE TypeOK'
    BY <2>13 DEF ReportNotFiled
  <2>14. CASE UNCHANGED vars
    BY <2>14 DEF vars
  <2> QED
    BY <2>1, <2>2, <2>3, <2>4, <2>5, <2>6, <2>7, <2>8, <2>9, <2>10, <2>11,
       <2>12, <2>13, <2>14 DEF Next
<1> QED
  BY <1>1, <1>2, PTL DEF Spec

\* The table of an unfiltered Explore list is the last snapshot: setting and
\* clearing tags and the fill-up of an empty table never leave it behind.
THEOREM UnfilteredIsWhole == Spec => []UnfilteredShowsAll
<1>1. Init => UnfilteredShowsAll
  BY DEF Init, UnfilteredShowsAll
<1>2. TypeOK /\ UnfilteredShowsAll /\ [Next]_vars => UnfilteredShowsAll'
  <2> SUFFICES ASSUME TypeOK, UnfilteredShowsAll, [Next]_vars
               PROVE  UnfilteredShowsAll'
    OBVIOUS
  <2> USE DEF UnfilteredShowsAll, Unfiltered, collectionVars, listenerVars, listVars
  <2>1. CASE ViewWillAppear \/ ViewWillDisappear
    BY <2>1 DEF ViewWillAppear, ViewWillDisappear
  <2>2. ASSUME NEW l \in live, Deliver(l) \/ ListenerFails(l)
        PROVE  UnfilteredShowsAll'
    BY <2>2 DEF Deliver, ListenerFails, ShownAfterSnapshot
  <2>3. ASSUME NEW tag \in Tags, TagButtonPressed(tag) PROVE UnfilteredShowsAll'
    BY <2>3 DEF TagButtonPressed
  \* A query, once set, is never cleared.
  <2>4. ASSUME NEW query \in Queries, Search(query) PROVE UnfilteredShowsAll'
    BY <2>4, NoQueryAssumption DEF Search
  <2>5. CASE SearchEmpty
    BY <2>5 DEF SearchEmpty
  <2>6. ASSUME NEW d \in SuShares,
               \/ OthersChange(d) \/ Report(d) \/ FlagStored(d) \/ FlagRefused(d)
               \/ ReportConfirmed(d) \/ ReportNotFiled(d)
        PROVE  UnfilteredShowsAll'
    BY <2>6 DEF OthersChange, Report, FlagStored, FlagRefused, ReportConfirmed,
                ReportNotFiled
  <2>7. CASE UNCHANGED vars
    BY <2>7 DEF vars
  <2> QED
    BY <2>1, <2>2, <2>3, <2>4, <2>5, <2>6, <2>7 DEF Next
<1> QED
  BY <1>1, <1>2, TypeInvariant, PTL DEF Spec

\* Of all the listeners the view has registered, only the first and the last can
\* be alive, and the last only while the view shows.
THEOREM LeakIsBounded == Spec => []OneListenerLeaks
<1>1. Init => OneListenerLeaks
  BY DEF Init, OneListenerLeaks, Held
<1>2. TypeOK /\ OneListenerLeaks /\ [Next]_vars => OneListenerLeaks'
  <2> SUFFICES ASSUME TypeOK, OneListenerLeaks, [Next]_vars
               PROVE  OneListenerLeaks'
    OBVIOUS
  <2> USE DEF OneListenerLeaks, Held
  \* Nothing but the first listener is alive when another is registered.
  <2>1. CASE ViewWillAppear
    BY <2>1 DEF ViewWillAppear, SetSuShareListener, TypeOK
  <2>2. CASE ViewWillDisappear
    BY <2>2 DEF ViewWillDisappear
  <2>3. ASSUME NEW l \in live, Deliver(l) \/ ListenerFails(l)
        PROVE  OneListenerLeaks'
    BY <2>3 DEF Deliver, ListenerFails
  <2>4. CASE SearchEmpty \/ \E tag \in Tags : TagButtonPressed(tag)
    BY <2>4 DEF TagButtonPressed, SearchEmpty, listenerVars
  <2>5. ASSUME NEW query \in Queries, Search(query) PROVE OneListenerLeaks'
    BY <2>5 DEF Search, listenerVars
  <2>6. ASSUME NEW d \in SuShares,
               \/ OthersChange(d) \/ Report(d) \/ FlagStored(d) \/ FlagRefused(d)
               \/ ReportConfirmed(d) \/ ReportNotFiled(d)
        PROVE  OneListenerLeaks'
    BY <2>6 DEF OthersChange, Report, FlagStored, FlagRefused, ReportConfirmed,
                ReportNotFiled, listenerVars
  <2>7. CASE UNCHANGED vars
    BY <2>7 DEF vars
  <2> QED
    BY <2>1, <2>2, <2>3, <2>4, <2>5, <2>6, <2>7 DEF Next
<1> QED
  BY <1>1, <1>2, TypeInvariant, PTL DEF Spec
===============================================================================
