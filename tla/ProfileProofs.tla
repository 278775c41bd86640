----------------------------- MODULE ProfileProofs -----------------------------
(***************************************************************************)
(* The safety properties of the profile, for any SuShares and bounds.      *)
(***************************************************************************)
EXTENDS Profile, FiniteSetTheorems, TLAPS

\* A registration is well typed.
LEMMA RegistrationTyped ==
  ASSUME TypeOK, NEW tab \in Tabs, ConfigureSuShares2(tab)
  PROVE  /\ suShares' \in SUBSET SuShares
         /\ made' \in 0..MaxListeners
         /\ kind' \in [Listeners -> Kinds]
         /\ live' \subseteq 1..made' /\ due' \subseteq live'
         /\ slot' \in [Kinds -> 0..made']
<1>1. CASE tab = "backed"
  BY <1>1 DEF ConfigureSuShares2, TypeOK, listenerVars
<1>2. CASE tab # "backed"
  <2>1. tab \in Kinds
    BY <1>2 DEF Tabs
  <2>2. /\ made \in 0..MaxListeners /\ made < MaxListeners /\ made' = made + 1
        /\ live \subseteq 1..made /\ due \subseteq live
        /\ live' = live \cup {made'} /\ due' = due \cup {made'}
    BY <1>2 DEF ConfigureSuShares2, TypeOK
  <2>3. /\ made' \in 1..MaxListeners
        /\ live' \subseteq 1..made' /\ due' \subseteq live'
    BY <2>2, BoundsAssumption
  <2>4. kind' \in [Listeners -> Kinds]
    BY <1>2, <2>1, <2>3 DEF ConfigureSuShares2, TypeOK, Listeners
  <2>5. slot' \in [Kinds -> 0..made']
    <3>1. slot \in [Kinds -> 0..made] /\ slot' = [slot EXCEPT ![tab] = made']
      BY <1>2 DEF ConfigureSuShares2, TypeOK
    <3>2. \A k \in Kinds : slot[k] \in 0..made'
      BY <2>2, <3>1, BoundsAssumption
    <3>3. made' \in 0..made'
      BY <2>3
    <3> QED
      BY <3>1, <3>2, <3>3
  <2> QED
    BY <1>2, <2>3, <2>4, <2>5 DEF ConfigureSuShares2, TypeOK
<1> QED
  BY <1>1, <1>2

\* Every state of the profile is well typed.
THEOREM TypeInvariant == Spec => []TypeOK
<1>1. Init => TypeOK
  <2> SUFFICES ASSUME Init PROVE TypeOK
    OBVIOUS
  <2>1. kind \in [Listeners -> Kinds]
    BY DEF Init, Kinds
  <2>2. slot \in [Kinds -> 0..made]
    BY DEF Init, None
  <2>3. asked \in [Kinds -> 0..MaxReads]
    BY BoundsAssumption DEF Init
  <2>4. missed \in [Kinds -> BOOLEAN]
    BY DEF Init
  <2>5. made \in 0..MaxListeners /\ failures \in 0..MaxFailures /\ taps \in 0..MaxTaps
    BY BoundsAssumption DEF Init
  <2>6. /\ stored \in [Kinds -> SUBSET SuShares] /\ visible \in BOOLEAN
        /\ headerTag \in Tabs /\ suShares \in SUBSET SuShares
        /\ live \subseteq 1..made /\ due \subseteq live
    BY DEF Init, Tabs, Kinds
  <2> QED
    BY <2>1, <2>2, <2>3, <2>4, <2>5, <2>6 DEF TypeOK
<1>2. TypeOK /\ [Next]_vars => TypeOK'
  <2> SUFFICES ASSUME TypeOK, [Next]_vars PROVE TypeOK'
    OBVIOUS
  <2> USE BoundsAssumption DEF listenerVars, failureVars
  <2>1. CASE ViewDidAppear
    <3>1. headerTag \in Tabs
      BY DEF TypeOK
    <3> QED
      BY <2>1, <3>1, RegistrationTyped DEF ViewDidAppear, TypeOK
  <2>2. CASE ViewDidDisappear
    BY <2>2 DEF ViewDidDisappear, TypeOK
  <2>3. ASSUME NEW tab \in Tabs, SelectedHeader(tab) PROVE TypeOK'
    <3>1. taps' \in 0..MaxTaps
      BY <2>3 DEF SelectedHeader, TypeOK
    <3> QED
      BY <2>3, <3>1, RegistrationTyped DEF SelectedHeader, TypeOK
  <2>4. CASE RefreshSuShares
    <3>1. taps' \in 0..MaxTaps /\ headerTag \in Tabs
      BY <2>4 DEF RefreshSuShares, TypeOK
    <3> QED
      BY <2>4, <3>1, RegistrationTyped DEF RefreshSuShares, TypeOK
  <2>5. ASSUME NEW k \in Kinds, StoredChanges(k) PROVE TypeOK'
    <3>1. stored' \in [Kinds -> SUBSET SuShares]
      BY <2>5 DEF StoredChanges, TypeOK
    <3>2. due' \subseteq live'
      BY <2>5 DEF StoredChanges, TypeOK
    <3> QED
      BY <2>5, <3>1, <3>2 DEF StoredChanges, TypeOK
  <2>6. ASSUME NEW l \in Listeners, Deliver(l) PROVE TypeOK'
    <3>1. kind[l] \in Kinds
      BY DEF TypeOK
    <3>2. asked' \in [Kinds -> 0..MaxReads]
      <4>1. asked[kind[l]] \in 0..MaxReads /\ asked[kind[l]] < MaxReads
        BY <2>6, <3>1 DEF Deliver, TypeOK
      <4>2. asked[kind[l]] + 1 \in 0..MaxReads
        BY <4>1
      <4> QED
        BY <2>6, <3>1, <4>2 DEF Deliver, TypeOK
    <3> QED
      BY <2>6, <3>2 DEF Deliver, TypeOK
  <2>7. ASSUME NEW l \in Listeners, ListenerFails(l) PROVE TypeOK'
    <3>1. missed' \in [Kinds -> BOOLEAN] /\ failures' \in 0..MaxFailures
      BY <2>7 DEF ListenerFails, TypeOK
    <3> QED
      BY <2>7, <3>1 DEF ListenerFails, TypeOK
  <2>8. ASSUME NEW k \in Kinds, ReadArrives(k) PROVE TypeOK'
    <3>1. asked' \in [Kinds -> 0..MaxReads]
      BY <2>8 DEF ReadArrives, TypeOK
    <3>2. missed' \in [Kinds -> BOOLEAN] /\ suShares' \in SUBSET SuShares
      BY <2>8 DEF ReadArrives, TypeOK
    <3> QED
      BY <2>8, <3>1, <3>2 DEF ReadArrives, TypeOK
  <2>9. ASSUME NEW k \in Kinds, ReadFails(k) PROVE TypeOK'
    <3>1. asked' \in [Kinds -> 0..MaxReads]
      BY <2>9 DEF ReadFails, TypeOK
    <3>2. missed' \in [Kinds -> BOOLEAN] /\ failures' \in 0..MaxFailures
      BY <2>9 DEF ReadFails, TypeOK
    <3> QED
      BY <2>9, <3>1, <3>2 DEF ReadFails, TypeOK
  <2>10. CASE UNCHANGED vars
    BY <2>10 DEF vars, TypeOK
  <2> QED
    BY <2>1, <2>2, <2>3, <2>4, <2>5, <2>6, <2>7, <2>8, <2>9, <2>10
       DEF Next, Answers
<1> QED
  BY <1>1, <1>2, PTL DEF Spec

-------------------------------------------------------------------------------
(* Leaks. *)

Slotted == {slot[k] : k \in Kinds}

\* What is alive outside the slots was put there by a tap, and a hidden profile
\* has nothing alive in them.
LeakInv ==
  /\ Cardinality(live \ Slotted) <= taps
  /\ ~visible => live \cap Slotted = {}
  /\ LeaksNeedTaps

\* There are finitely many listeners.
LEMMA LiveIsFinite ==
  ASSUME TypeOK PROVE IsFiniteSet(live)
<1>1. IsFiniteSet(1..made)
  BY FS_Interval, BoundsAssumption DEF TypeOK
<1> QED
  BY <1>1, FS_Subset DEF TypeOK

\* A part of the listeners is no larger than all of them.
LEMMA Fewer ==
  ASSUME NEW S, NEW T, IsFiniteSet(S), T \subseteq S
  PROVE  /\ IsFiniteSet(T)
         /\ Cardinality(S) \in Nat /\ Cardinality(T) \in Nat
         /\ Cardinality(T) <= Cardinality(S)
<1>1. IsFiniteSet(T) /\ Cardinality(T) <= Cardinality(S)
  BY FS_Subset
<1> QED
  BY <1>1, FS_CardinalityType

\* One more is at most one more.
LEMMA OneMore ==
  ASSUME NEW S, NEW T, NEW x, IsFiniteSet(S), T \subseteq S \cup {x}
  PROVE  /\ Cardinality(S) \in Nat /\ Cardinality(T) \in Nat
         /\ Cardinality(T) <= Cardinality(S) + 1
<1>1. /\ IsFiniteSet(S \cup {x}) /\ Cardinality(S) \in Nat
      /\ Cardinality(S \cup {x}) <= Cardinality(S) + 1
  <2>1. Cardinality(S) \in Nat
    BY FS_CardinalityType
  <2>2. /\ IsFiniteSet(S \cup {x})
        /\ Cardinality(S \cup {x}) =
             IF x \in S THEN Cardinality(S) ELSE Cardinality(S) + 1
    BY FS_AddElement
  <2> QED
    BY <2>1, <2>2
<1>2. /\ Cardinality(T) \in Nat /\ Cardinality(S \cup {x}) \in Nat
      /\ Cardinality(T) <= Cardinality(S \cup {x})
  BY <1>1, Fewer
<1> QED
  BY <1>1, <1>2

\* A registration adds one listener, and pushes at most one out of its slot.
LEMMA RegistrationCounts ==
  ASSUME TypeOK, NEW tab \in Tabs, ConfigureSuShares2(tab)
  PROVE  /\ \E x : live' \subseteq live \cup {x}
         /\ \E x : live' \ Slotted' \subseteq (live \ Slotted) \cup {x}
         /\ live' \ Slotted' \subseteq live
<1>1. CASE tab = "backed"
  BY <1>1 DEF ConfigureSuShares2, listenerVars, Slotted
<1>2. CASE tab # "backed"
  <2>1. tab \in Kinds
    BY <1>2 DEF Tabs
  <2>2. live' = live \cup {made'} /\ slot' = [slot EXCEPT ![tab] = made']
    BY <1>2 DEF ConfigureSuShares2
  <2>3. made' \in Slotted'
    BY <2>1, <2>2 DEF Slotted, TypeOK
  <2>4. Slotted \subseteq Slotted' \cup {slot[tab]}
    <3>1. ASSUME NEW k \in Kinds PROVE slot[k] \in Slotted' \cup {slot[tab]}
      <4>1. CASE k = tab
        BY <4>1
      <4>2. CASE k # tab
        BY <2>2, <4>2 DEF Slotted, TypeOK
      <4> QED
        BY <4>1, <4>2
    <3> QED
      BY <3>1 DEF Slotted
  <2>5. live' \ Slotted' \subseteq (live \ Slotted) \cup {slot[tab]}
    BY <2>2, <2>3, <2>4
  <2> QED
    BY <2>2, <2>3, <2>5
<1> QED
  BY <1>1, <1>2

\* The count of what is outside the slots is kept.
LEMMA LeakInvHolds == Spec => []LeakInv
<1>1. Init => LeakInv
  <2> SUFFICES ASSUME Init PROVE LeakInv
    OBVIOUS
  <2>1. live = {} /\ live \ Slotted = {} /\ taps = 0
    BY DEF Init
  <2>2. Cardinality(live) = 0 /\ Cardinality(live \ Slotted) = 0
    BY <2>1, FS_EmptySet
  <2> QED
    BY <2>1, <2>2 DEF LeakInv, LeaksNeedTaps
<1>2. TypeOK /\ LeakInv /\ [Next]_vars => LeakInv'
  <2> SUFFICES ASSUME TypeOK, LeakInv, [Next]_vars PROVE LeakInv'
    OBVIOUS
  <2>1. IsFiniteSet(live) /\ IsFiniteSet(live \ Slotted)
    BY LiveIsFinite, Fewer
  <2>2. /\ Cardinality(live) \in Nat /\ Cardinality(live \ Slotted) \in Nat
        /\ taps \in Nat
    BY <2>1, FS_CardinalityType DEF TypeOK
  \* Steps that take listeners away, if anything.
  <2>3. ASSUME live' \subseteq live,
               UNCHANGED <<slot, taps, visible>>
        PROVE  LeakInv'
    <3>1. Slotted' = Slotted
      BY <2>3 DEF Slotted
    <3>2. live' \ Slotted' \subseteq live \ Slotted
      BY <2>3, <3>1
    <3>3. /\ Cardinality(live') \in Nat /\ Cardinality(live') <= Cardinality(live)
          /\ Cardinality(live' \ Slotted') \in Nat
          /\ Cardinality(live' \ Slotted') <= Cardinality(live \ Slotted)
      BY <2>1, <2>3, <3>2, Fewer
    <3> QED
      BY <2>2, <2>3, <3>1, <3>3 DEF LeakInv, LeaksNeedTaps
  \* A tap or a pull.
  <2>4. ASSUME NEW tab \in Tabs, ConfigureSuShares2(tab), visible, visible',
               taps' = taps + 1
        PROVE  LeakInv'
    <3>1. PICK x : live' \subseteq live \cup {x}
      BY <2>4, RegistrationCounts
    <3>2. PICK y : live' \ Slotted' \subseteq (live \ Slotted) \cup {y}
      BY <2>4, RegistrationCounts
    <3>3. /\ Cardinality(live') \in Nat /\ Cardinality(live') <= Cardinality(live) + 1
          /\ Cardinality(live' \ Slotted') \in Nat
          /\ Cardinality(live' \ Slotted') <= Cardinality(live \ Slotted) + 1
      BY <2>1, <3>1, <3>2, OneMore
    <3> QED
      BY <2>2, <2>4, <3>3 DEF LeakInv, LeaksNeedTaps
  \* Nothing was alive in the slots.
  <2>5. CASE ViewDidAppear
    <3>1. headerTag \in Tabs /\ ConfigureSuShares2(headerTag)
          /\ ~visible /\ visible' = TRUE /\ taps' = taps
      BY <2>5 DEF ViewDidAppear, TypeOK
    <3>2. PICK x : live' \subseteq live \cup {x}
      BY <3>1, RegistrationCounts
    <3>3. live' \ Slotted' \subseteq live
      BY <3>1, RegistrationCounts
    <3>4. /\ Cardinality(live') \in Nat /\ Cardinality(live') <= Cardinality(live) + 1
          /\ Cardinality(live' \ Slotted') \in Nat
          /\ Cardinality(live' \ Slotted') <= Cardinality(live)
      BY <2>1, <3>2, <3>3, OneMore, Fewer
    <3>5. Cardinality(live) <= taps
      BY <2>2, <3>1 DEF LeakInv, LeaksNeedTaps
    <3> QED
      BY <2>2, <3>1, <3>4, <3>5 DEF LeakInv, LeaksNeedTaps
  \* What is left is what was outside the slots.
  <2>6. CASE ViewDidDisappear
    <3>1. /\ live' = live \ Slotted /\ slot' = slot /\ taps' = taps
          /\ visible' = FALSE
      BY <2>6 DEF ViewDidDisappear, Slotted
    <3>2. Slotted' = Slotted
      BY <3>1 DEF Slotted
    <3>3. live' \ Slotted' = live \ Slotted /\ live' \cap Slotted' = {}
      BY <3>1, <3>2
    <3>4. Cardinality(live \ Slotted) <= taps
      BY DEF LeakInv
    <3>5. /\ Cardinality(live' \ Slotted') <= taps'
          /\ Cardinality(live') <= taps'
      BY <3>1, <3>3, <3>4
    <3> HIDE DEF Slotted
    <3> QED
      BY <3>1, <3>3, <3>5, <2>2 DEF LeakInv, LeaksNeedTaps
  <2>7. ASSUME NEW tab \in Tabs, SelectedHeader(tab) PROVE LeakInv'
    BY <2>4, <2>7 DEF SelectedHeader
  <2>8. CASE RefreshSuShares
    BY <2>4, <2>8 DEF RefreshSuShares, TypeOK
  <2>9. ASSUME NEW k \in Kinds, StoredChanges(k) \/ Answers(k) PROVE LeakInv'
    BY <2>3, <2>9 DEF StoredChanges, Answers, ReadArrives, ReadFails, listenerVars
  <2>10. ASSUME NEW l \in Listeners, Deliver(l) \/ ListenerFails(l) PROVE LeakInv'
    BY <2>3, <2>10 DEF Deliver, ListenerFails
  <2>11. CASE UNCHANGED vars
    BY <2>3, <2>11 DEF vars
  <2> QED
    BY <2>5, <2>6, <2>7, <2>8, <2>9, <2>10, <2>11 DEF Next
<1> QED
  BY <1>1, <1>2, TypeInvariant, PTL DEF Spec

\* However often the profile comes and goes, the listeners alive without need are
\* at most as many as the taps and pulls.
THEOREM LeakIsBounded == Spec => []LeaksNeedTaps
  BY LeakInvHolds, PTL DEF LeakInv
===============================================================================
