---------------------------- MODULE CheckoutProofs ----------------------------
(***************************************************************************)
(* The safety properties of the checkout, for any amounts, cards and       *)
(* bounds.                                                                 *)
(***************************************************************************)
EXTENDS Checkout, FiniteSetTheorems, TLAPS

\* What is cut off by the division is a share smaller than a cent each.
LEMMA Division ==
  ASSUME NEW p \in Nat, NEW n \in Nat \ {0}
  PROVE  /\ p \div n \in Nat
         /\ n * (p \div n) <= p
         /\ p - n * (p \div n) < n
         /\ p % n = 0 => n * (p \div n) = p
<1>1. p \div n \in Int /\ p % n \in 0..(n - 1)
  OBVIOUS
<1>2. n * (p \div n) + (p % n) = p
  OBVIOUS
<1>3. p \div n \in Nat
  OBVIOUS
<1> DEFINE q == n * (p \div n)
<1>4. q \in Int
  BY <1>1
<1>5. q + (p % n) = p
  BY <1>2
<1> HIDE DEF q
<1>6. q <= p /\ p - q < n /\ (p % n = 0 => q = p)
  BY <1>1, <1>4, <1>5
<1> QED
  BY <1>3, <1>6 DEF q

\* The amount charged is a number of cents, whichever way the binary
\* approximation falls, and so is the amount shown.
LEMMA AmountsAreCents ==
  ASSUME NEW p \in Nat, NEW n \in Nat \ {0}
  PROVE  Charges(p, n) \subseteq Nat /\ Labels(p, n) \subseteq Nat
  BY Division DEF Charges, Labels

-------------------------------------------------------------------------------

\* Selecting a card makes at most one call.
LEMMA SelectTyped ==
  ASSUME TypeOK, NEW card \in Options, NEW known \in SUBSET Cards, Select(card, known)
  PROVE  /\ saved' \subseteq Cards /\ option' \in Options
         /\ made' \in Intents
         /\ calls' \subseteq 1..made'
<1>1. saved' \subseteq Cards /\ option' \in Options
  BY DEF Select, Options
<1>2. CASE card = option /\ card # NoCard
  BY <1>1, <1>2 DEF Select, TypeOK
<1>3. CASE ~(card = option /\ card # NoCard)
  <2>1. made \in 1..MaxCalls /\ calls \subseteq 1..made /\ made < MaxCalls
    BY <1>3 DEF Select, TypeOK, Intents
  <2>2. made' = made + 1 /\ calls' = calls \cup {made'}
    BY <1>3 DEF Select
  <2>3. made' \in 1..MaxCalls /\ calls' \subseteq 1..made'
    BY <2>1, <2>2, BoundsAssumption
  <2> QED
    BY <1>1, <2>3 DEF Intents
<1> QED
  BY <1>2, <1>3

\* A request shows the options or confirms.
LEMMA RequestTyped ==
  ASSUME TypeOK, NEW card \in Options, RequestPayment(card)
  PROVE  /\ state' = "requesting" /\ screen' \in {"none", "shown"}
         /\ confirming' \in Intents \cup {NoIntent}
         /\ charged' \in BOOLEAN
  BY DEF TypeOK, RequestPayment, DidCreatePaymentResult, confirmVars

\* A removal selects at most one other card.
LEMMA RemoveTyped ==
  ASSUME TypeOK, NEW card \in Cards, RemovePaymentOption(card)
  PROVE  /\ saved' \subseteq Cards /\ option' \in Options
         /\ made' \in Intents
         /\ calls' \subseteq 1..made'
<1> DEFINE rest == saved \ {card}
<1>1. rest \in SUBSET Cards
  BY DEF TypeOK
<1>2. CASE card = option
  <2>1. PICK next \in IF rest = {} THEN {NoCard} ELSE rest : Select(next, rest)
    BY <1>2 DEF RemovePaymentOption
  <2>2. next \in Options
    BY <1>1 DEF Options
  <2> HIDE DEF rest
  <2> QED
    BY <1>1, <2>1, <2>2, SelectTyped
<1>3. CASE card # option
  BY <1>1, <1>3 DEF RemovePaymentOption, TypeOK
<1> QED
  BY <1>2, <1>3

\* Every state of the checkout is well typed.
THEOREM TypeInvariant == Spec => []TypeOK
<1>1. Init => TypeOK
  <2> SUFFICES ASSUME Init PROVE TypeOK
    OBVIOUS
  <2>1. paymentAmount \in Nat /\ totalLabel \in Nat
    <3>1. PICK p \in Pots, n \in Sizes :
            paymentAmount \in Charges(p, n) /\ totalLabel \in Labels(p, n)
      BY DEF Init
    <3>2. p \in Nat /\ n \in Nat \ {0}
      BY AmountsAssumption
    <3> QED
      BY <3>1, <3>2, AmountsAreCents
  <2>2. intent \in [Intents -> {"none", "open", "succeeded"}]
    BY DEF Init
  <2>3. made \in Intents /\ calls \subseteq 1..made
    BY BoundsAssumption DEF Init, Intents
  <2>4. taps \in 0..MaxTaps /\ successes \in Nat /\ ended \in Nat
    BY BoundsAssumption DEF Init
  <2>5. /\ loading \in {"loading", "loaded", "failed"} /\ asked \in BOOLEAN
        /\ saved \subseteq Cards /\ option \in Options
        /\ state \in {"none", "showing", "requesting"}
        /\ screen \in {"none", "shown", "closing"}
        /\ waiting \in BOOLEAN /\ charged \in BOOLEAN
        /\ clientSecret \in Intents \cup {NoIntent}
        /\ confirming \in Intents \cup {NoIntent}
        /\ lastTap \in {"none", "owed", "answered", "passed"}
    BY DEF Init, Options
  <2> QED
    BY <2>1, <2>2, <2>3, <2>4, <2>5 DEF TypeOK
<1>2. TypeOK /\ [Next]_vars => TypeOK'
  <2> SUFFICES ASSUME TypeOK, [Next]_vars PROVE TypeOK'
    OBVIOUS
  <2> USE BoundsAssumption DEF TypeOK, Intents, amounts, cardVars, requestVars,
          secretVars, confirmVars, history
  <2>1. ASSUME NEW k \in Intents, CreateIntent(k) PROVE TypeOK'
    BY <2>1 DEF CreateIntent
  <2>2. ASSUME NEW k \in Intents, SecretArrives(k) PROVE TypeOK'
    BY <2>2 DEF SecretArrives
  <2>3. ASSUME NEW k \in Intents, CallFails(k) PROVE TypeOK'
    BY <2>3 DEF CallFails
  <2>4. ASSUME NEW listed \in SUBSET Cards, NEW card \in Options,
               CardsLoaded(listed, card)
        PROVE  TypeOK'
    <3>1. /\ saved' \subseteq Cards /\ option' \in Options
          /\ made' \in Intents /\ calls' \subseteq 1..made'
      BY <2>4, SelectTyped DEF CardsLoaded
    <3>2. /\ state' \in {"none", "showing", "requesting"}
          /\ screen' \in {"none", "shown", "closing"}
          /\ confirming' \in Intents \cup {NoIntent} /\ charged' \in BOOLEAN
      BY <2>4, RequestTyped DEF CardsLoaded
    <3>3. lastTap' \in {"none", "owed", "answered", "passed"}
      BY <2>4 DEF CardsLoaded
    <3> QED
      BY <2>4, <3>1, <3>2, <3>3 DEF CardsLoaded
  <2>5. CASE CardsFail
    BY <2>5 DEF CardsFail
  <2>6. CASE RetryLoading
    BY <2>6 DEF RetryLoading
  <2>7. CASE SubscribeButtonPressed
    <3>1. /\ state' \in {"none", "showing", "requesting"}
          /\ screen' \in {"none", "shown", "closing"}
          /\ confirming' \in Intents \cup {NoIntent} /\ charged' \in BOOLEAN
      BY <2>7, RequestTyped DEF SubscribeButtonPressed
    <3>2. /\ taps' \in 0..MaxTaps /\ waiting' \in BOOLEAN
          /\ lastTap' \in {"none", "owed", "answered", "passed"}
      BY <2>7 DEF SubscribeButtonPressed
    <3> QED
      BY <2>7, <3>1, <3>2 DEF SubscribeButtonPressed
  <2>8. CASE ShowOptions
    BY <2>8 DEF ShowOptions
  <2>9. CASE OptionsFinish
    <3>1. /\ state' \in {"none", "showing", "requesting"}
          /\ screen' \in {"none", "shown", "closing"}
          /\ confirming' \in Intents \cup {NoIntent} /\ charged' \in BOOLEAN
      BY <2>9, RequestTyped DEF OptionsFinish
    <3> QED
      BY <2>9, <3>1 DEF OptionsFinish
  <2>10. CASE OptionsCancel
    BY <2>10 DEF OptionsCancel
  <2>11. ASSUME NEW card \in Cards, SelectOption(card) PROVE TypeOK'
    <3>1. /\ saved' \subseteq Cards /\ option' \in Options
          /\ made' \in Intents /\ calls' \subseteq 1..made'
      BY <2>11, SelectTyped DEF SelectOption, Options
    <3> QED
      BY <2>11, <3>1 DEF SelectOption
  <2>12. ASSUME NEW card \in Cards, RemovePaymentOption(card) PROVE TypeOK'
    <3>1. /\ saved' \subseteq Cards /\ option' \in Options
          /\ made' \in Intents /\ calls' \subseteq 1..made'
      BY <2>12, RemoveTyped
    <3> QED
      BY <2>12, <3>1 DEF RemovePaymentOption
  <2>13. CASE Charge
    <3>1. intent' \in [Intents -> {"none", "open", "succeeded"}]
      BY <2>13 DEF Charge
    <3> QED
      BY <2>13, <3>1 DEF Charge
  <2>14. CASE ConfirmSucceeds
    <3>1. successes' \in Nat /\ ended' \in Nat
      BY <2>14 DEF ConfirmSucceeds, Finish
    <3> QED
      BY <2>14, <3>1 DEF ConfirmSucceeds, Finish
  <2>15. CASE ConfirmFails
    <3>1. successes' \in Nat /\ ended' \in Nat
      BY <2>15 DEF ConfirmFails, Finish
    <3> QED
      BY <2>15, <3>1 DEF ConfirmFails, Finish
  <2>16. CASE UNCHANGED vars
    BY <2>16 DEF vars
  <2> QED
    BY <2>1, <2>2, <2>3, <2>4, <2>5, <2>6, <2>7, <2>8, <2>9, <2>10, <2>11, <2>12,
       <2>13, <2>14, <2>15, <2>16 DEF Next, Loaded, Confirmed
<1> QED
  BY <1>1, <1>2, PTL DEF Spec

-------------------------------------------------------------------------------
(* The amount charged and the amount shown. *)

\* The two are the same number of cents, or one cent less is charged.
AmountsAgree == totalLabel - paymentAmount \in {0, 1}

\* Cutting off and rounding part by a cent at most, never in the other direction.
LEMMA CutIsBelowLabel ==
  ASSUME NEW p \in Nat, NEW n \in Nat \ {0},
         NEW c \in Charges(p, n), NEW l \in Labels(p, n)
  PROVE  l - c \in {0, 1}
<1> DEFINE q == p \div n
           s == n * q
<1>1. /\ q \in Nat /\ s <= p /\ p - s < n
      /\ p % n = 0 => s = p
  BY Division
<1>2. c = q \/ (c = q - 1 /\ p % n = 0)
  BY DEF Charges
<1>3. l \in {q, q + 1} /\ 2 * (l * n - p) <= n
  BY DEF Labels
<1>4. (q + 1) * n = s + n
  <2> HIDE DEF q
  <2> QED
    BY <1>1
<1> HIDE DEF q, s
<1>5. p % n = 0 => l = q
  <2> SUFFICES ASSUME p % n = 0, l = q + 1 PROVE FALSE
    BY <1>3
  <2>1. l * n = p + n
    BY <1>1, <1>4
  <2> QED
    BY <1>3, <2>1
<1> QED
  BY <1>1, <1>2, <1>3, <1>5

\* The amounts are set before the first tap and never again.
LEMMA AmountsStay == [Next]_vars => UNCHANGED amounts
<1> SUFFICES ASSUME [Next]_vars PROVE UNCHANGED amounts
  OBVIOUS
<1> QED
  BY DEF Next, Loaded, Confirmed, CreateIntent, SecretArrives, CallFails,
     CardsLoaded, CardsFail, RetryLoading, SubscribeButtonPressed, ShowOptions,
     OptionsFinish, OptionsCancel, SelectOption, RemovePaymentOption, Charge,
     ConfirmSucceeds, ConfirmFails, Finish, vars, amounts

LEMMA AmountsAlwaysAgree == Spec => []AmountsAgree
<1>1. Init => AmountsAgree
  <2> SUFFICES ASSUME Init PROVE AmountsAgree
    OBVIOUS
  <2>1. PICK p \in Pots, n \in Sizes :
          paymentAmount \in Charges(p, n) /\ totalLabel \in Labels(p, n)
    BY DEF Init
  <2>2. p \in Nat /\ n \in Nat \ {0}
    BY AmountsAssumption
  <2> QED
    BY <2>1, <2>2, CutIsBelowLabel DEF AmountsAgree
<1>2. AmountsAgree /\ [Next]_vars => AmountsAgree'
  BY AmountsStay DEF AmountsAgree, amounts
<1> QED
  BY <1>1, <1>2, PTL DEF Spec

-------------------------------------------------------------------------------
(* Charges. *)

\* A tap that has not led to a charge yet, and may.
Pending == waiting \/ (state = "requesting" /\ ~charged)

\* What is counted: each charge used up one tap, each success and each end of a
\* confirmation at most one charge, and the context serves one request at a time.
ChargeInv ==
  /\ Cardinality(Succeeded) + (IF Pending THEN 1 ELSE 0) <= taps
  /\ successes + (IF charged THEN 1 ELSE 0) <= Cardinality(Succeeded)
  /\ Cardinality(Succeeded) <= ended + (IF charged THEN 1 ELSE 0)
  /\ charged => Confirming
  /\ waiting => loading = "loading"
  /\ state = "requesting" => loading = "loaded"
  /\ asked => loading = "failed"

\* There are finitely many intents.
LEMMA SucceededIsFinite == IsFiniteSet(Succeeded) /\ Cardinality(Succeeded) \in Nat
<1>1. IsFiniteSet(Intents)
  BY BoundsAssumption, FS_Interval DEF Intents
<1>2. Succeeded \subseteq Intents
  BY DEF Succeeded
<1> QED
  BY <1>1, <1>2, FS_Subset, FS_CardinalityType

\* A charge adds one intent to those that succeeded.
LEMMA ChargeCounts ==
  ASSUME TypeOK, Charge
  PROVE  Cardinality(Succeeded') = Cardinality(Succeeded) + 1
<1>1. confirming \in Intents
  BY DEF Charge, TypeOK
<1>2. Succeeded' = Succeeded \cup {confirming}
  BY <1>1 DEF Charge, TypeOK, Succeeded
<1>3. confirming \notin Succeeded
  BY DEF Charge, Succeeded
<1> QED
  BY <1>2, <1>3, SucceededIsFinite, FS_AddElement

\* An intent succeeds by being charged only.
LEMMA OthersDoNotCharge ==
  /\ UNCHANGED intent => Succeeded' = Succeeded
  /\ \A k \in Intents : TypeOK /\ CreateIntent(k) => Succeeded' = Succeeded
<1>1. UNCHANGED intent => Succeeded' = Succeeded
  BY DEF Succeeded
<1>2. ASSUME NEW k \in Intents, TypeOK, CreateIntent(k)
      PROVE  Succeeded' = Succeeded
  BY <1>2 DEF CreateIntent, Succeeded, TypeOK
<1> QED
  BY <1>1, <1>2

\* The counts agree at every step.
LEMMA ChargeInvHolds == Spec => []ChargeInv
<1>1. Init => ChargeInv
  <2> SUFFICES ASSUME Init PROVE ChargeInv
    OBVIOUS
  <2>1. Succeeded = {}
    BY DEF Init, Succeeded
  <2>2. Cardinality(Succeeded) = 0
    BY <2>1, FS_EmptySet
  <2> QED
    BY <2>2 DEF Init, ChargeInv, Pending, Confirming
<1>2. TypeOK /\ ChargeInv /\ [Next]_vars => ChargeInv'
  <2> SUFFICES ASSUME TypeOK, ChargeInv, [Next]_vars PROVE ChargeInv'
    OBVIOUS
  <2> DEFINE n == Cardinality(Succeeded)
  <2>1. /\ n \in Nat /\ taps \in Nat /\ successes \in Nat /\ ended \in Nat
        /\ charged \in BOOLEAN /\ waiting \in BOOLEAN
    <3>1. n \in Nat
      BY SucceededIsFinite
    <3> HIDE DEF n
    <3> QED
      BY <3>1, BoundsAssumption DEF TypeOK
  <2>2. /\ UNCHANGED intent => n' = n
        /\ \A k \in Intents : CreateIntent(k) => n' = n
    BY OthersDoNotCharge
  <2>3. Charge => n' = n + 1
    BY ChargeCounts
  <2>4. /\ n + (IF Pending THEN 1 ELSE 0) <= taps
        /\ successes + (IF charged THEN 1 ELSE 0) <= n
        /\ n <= ended + (IF charged THEN 1 ELSE 0)
        /\ charged => Confirming
        /\ waiting => loading = "loading"
        /\ state = "requesting" => loading = "loaded"
        /\ asked => loading = "failed"
    BY DEF ChargeInv
  <2> DEFINE Goal == /\ n' + (IF Pending' THEN 1 ELSE 0) <= taps'
                     /\ successes' + (IF charged' THEN 1 ELSE 0) <= n'
                     /\ n' <= ended' + (IF charged' THEN 1 ELSE 0)
                     /\ charged' => Confirming'
                     /\ waiting' => loading' = "loading"
                     /\ state' = "requesting" => loading' = "loaded"
                     /\ asked' => loading' = "failed"
  <2> SUFFICES Goal
    BY DEF ChargeInv
  <2> HIDE DEF n
  <2> USE <2>1, <2>2, <2>3, <2>4
          DEF Pending, Confirming, amounts, cardVars, requestVars, secretVars,
              confirmVars, history
  <2>5. ASSUME NEW k \in Intents,
               CreateIntent(k) \/ SecretArrives(k) \/ CallFails(k)
        PROVE  Goal
    BY <2>5 DEF CreateIntent, SecretArrives, CallFails
  <2>6. ASSUME NEW listed \in SUBSET Cards, NEW card \in Options,
               CardsLoaded(listed, card)
        PROVE  Goal
    BY <2>6 DEF CardsLoaded, RequestPayment, DidCreatePaymentResult
  <2>7. CASE CardsFail
    BY <2>7 DEF CardsFail
  <2>8. CASE RetryLoading
    BY <2>8 DEF RetryLoading
  <2>9. CASE SubscribeButtonPressed
    BY <2>9 DEF SubscribeButtonPressed, RequestPayment, DidCreatePaymentResult
  <2>10. CASE ShowOptions \/ OptionsCancel
    BY <2>10 DEF ShowOptions, OptionsCancel
  <2>11. CASE OptionsFinish
    BY <2>11 DEF OptionsFinish, RequestPayment, DidCreatePaymentResult
  <2>12. ASSUME NEW card \in Cards, SelectOption(card) PROVE Goal
    BY <2>12 DEF SelectOption
  <2>13. ASSUME NEW card \in Cards, RemovePaymentOption(card) PROVE Goal
    BY <2>13 DEF RemovePaymentOption
  <2>14. CASE Charge
    BY <2>14 DEF Charge
  <2>15. CASE Confirmed
    BY <2>15 DEF Confirmed, ConfirmSucceeds, ConfirmFails, Finish
  <2>16. CASE UNCHANGED vars
    BY <2>16 DEF vars
  <2> QED
    BY <2>5, <2>6, <2>7, <2>8, <2>9, <2>10, <2>11, <2>12, <2>13, <2>14, <2>15, <2>16
       DEF Next, Loaded
<1> QED
  BY <1>1, <1>2, TypeInvariant, PTL DEF Spec

\* "Success!" is never shown without a charge of its own.
THEOREM SuccessIsCharged == Spec => []SuccessMeansCharged
<1>1. TypeOK /\ ChargeInv => SuccessMeansCharged
  <2> SUFFICES ASSUME TypeOK, ChargeInv PROVE SuccessMeansCharged
    OBVIOUS
  <2> DEFINE n == Cardinality(Succeeded)
  <2>1. n \in Nat
    BY SucceededIsFinite
  <2>4. successes \in Nat
    BY BoundsAssumption DEF TypeOK
  <2>2. successes + (IF charged THEN 1 ELSE 0) <= n
    BY DEF ChargeInv
  <2> HIDE DEF n
  <2>3. successes <= n
    BY <2>1, <2>2, <2>4
  <2> QED
    BY <2>3 DEF SuccessMeansCharged, n
<1> QED
  BY <1>1, TypeInvariant, ChargeInvHolds, PTL

\* Every charge has a tap of its own.
THEOREM ChargesAreTapped == Spec => []ChargesNeedTaps
<1>1. TypeOK /\ ChargeInv => ChargesNeedTaps
  <2> SUFFICES ASSUME TypeOK, ChargeInv PROVE ChargesNeedTaps
    OBVIOUS
  <2> DEFINE n == Cardinality(Succeeded)
  <2>1. n \in Nat
    BY SucceededIsFinite
  <2>4. taps \in Nat
    BY BoundsAssumption DEF TypeOK
  <2>2. n + (IF Pending THEN 1 ELSE 0) <= taps
    BY DEF ChargeInv
  <2> HIDE DEF n
  <2>3. n <= taps
    BY <2>1, <2>2, <2>4
  <2> QED
    BY <2>3 DEF ChargesNeedTaps, n
<1> QED
  BY <1>1, TypeInvariant, ChargeInvHolds, PTL

\* Products grow with their factors.
LEMMA Times ==
  ASSUME NEW a \in Nat, NEW b \in Nat, NEW c \in Int, NEW d \in Nat, a <= b, c <= d
  PROVE  a * c <= b * d
<1>1. a * c <= a * d
  OBVIOUS
<1>2. a * d <= b * d
  OBVIOUS
<1>3. a * c \in Int /\ a * d \in Int /\ b * d \in Int
  OBVIOUS
<1> QED
  BY <1>1, <1>2, <1>3

\* The user pays at most what is shown, once for each confirmation that ended or is
\* under way, and each "Success!" stands for that amount or a cent less.
THEOREM PaidIsShown == Spec => []ChargedAsShown
<1>1. TypeOK /\ ChargeInv /\ AmountsAgree => ChargedAsShown
  <2> SUFFICES ASSUME TypeOK, ChargeInv, AmountsAgree PROVE ChargedAsShown
    OBVIOUS
  <2> DEFINE n == Cardinality(Succeeded)
             m == ended + (IF charged THEN 1 ELSE 0)
  <2>1. n \in Nat
    BY SucceededIsFinite
  <2>2. successes \in Nat /\ ended \in Nat /\ charged \in BOOLEAN
    BY DEF TypeOK
  <2>3. /\ successes + (IF charged THEN 1 ELSE 0) <= n
        /\ n <= ended + (IF charged THEN 1 ELSE 0)
    BY DEF ChargeInv
  <2>4. paymentAmount \in Nat /\ totalLabel \in Nat
    BY DEF TypeOK
  <2>5. totalLabel - paymentAmount \in {0, 1}
    BY DEF AmountsAgree
  <2> HIDE DEF n
  <2>6. m \in Nat /\ n <= m /\ successes <= n
    BY <2>1, <2>2, <2>3
  <2>7. /\ paymentAmount <= totalLabel
        /\ totalLabel - 1 \in Int /\ totalLabel - 1 <= paymentAmount
    BY <2>4, <2>5
  <2> HIDE DEF m
  <2>8. n * paymentAmount <= m * totalLabel
    BY <2>1, <2>4, <2>6, <2>7, Times
  <2>9. successes * (totalLabel - 1) <= n * paymentAmount
    BY <2>1, <2>2, <2>4, <2>6, <2>7, Times
  <2> QED
    BY <2>8, <2>9 DEF ChargedAsShown, n, m
<1> QED
  BY <1>1, TypeInvariant, ChargeInvHolds, AmountsAlwaysAgree, PTL
===============================================================================
