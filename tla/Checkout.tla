------------------------------- MODULE Checkout -------------------------------
(***************************************************************************)
(* PaymentViewController: the first contribution to a SuShare.             *)
(*                                                                         *)
(* The screen owns an STPPaymentContext (Stripe SDK, vendored).  Whenever  *)
(* the context's selected payment option is set to another one, and once   *)
(* when the screen appears, paymentContextDidChange calls the cloud        *)
(* function createChargeFunction, which creates a PaymentIntent on         *)
(* Stripe's server and returns its client secret; the screen keeps the     *)
(* secret that arrived last.  "Subscribe" makes the context request a      *)
(* payment: it waits for the customer's cards, lets the user choose one if *)
(* none is selected, and has the screen confirm the intent whose secret it *)
(* holds at that moment.                                                   *)
(*                                                                         *)
(* The calls, the server and the user act in any order.  A PaymentIntent   *)
(* is named by the number of the call that creates it.                     *)
(***************************************************************************)
EXTENDS Integers, FiniteSets

CONSTANTS
  Pots,      \* potAmount, in cents
  Sizes,     \* numOfParticipants
  Cards,     \* payment methods the customer may have or enter
  MaxCalls,  \* bound: calls of createChargeFunction
  MaxTaps    \* bound: taps of "Subscribe"

ASSUME AmountsAssumption == Pots \subseteq Nat /\ Sizes \subseteq Nat \ {0}
ASSUME BoundsAssumption  == MaxCalls \in Nat \ {0} /\ MaxTaps \in Nat

NoCard   == "no card"
NoIntent == 0

ASSUME NoCardAssumption == NoCard \notin Cards

Intents == 1..MaxCalls
Options == Cards \cup {NoCard}

VARIABLES
  paymentAmount,       \* what the context is told to charge, in cents
  totalLabel,          \* what the screen says, in cents
  loading,             \* the context's read of the customer's cards
  asked,               \* the alert with "Retry" is up
  saved,               \* paymentOptions: the cards the context knows
  option,              \* selectedPaymentOption
  state,               \* STPPaymentContextState
  screen,              \* paymentOptionsViewController
  waiting,             \* taps wait for the cards
  made,                \* calls of createChargeFunction so far
  calls,               \* those not answered yet
  intent,              \* the intents on the server
  clientSecret,        \* the intent whose secret the screen holds
  confirming,          \* the intent being confirmed
  charged,             \* whether that confirmation has charged
  taps, lastTap,       \* history: taps, and what became of the last one
  successes, ended     \* history: "Success!" alerts, confirmations that ended

amounts     == <<paymentAmount, totalLabel>>
cardVars    == <<loading, asked, saved, option>>
requestVars == <<state, screen, waiting>>
secretVars  == <<made, calls, clientSecret>>
confirmVars == <<confirming, charged>>
history     == <<taps, lastTap, successes, ended>>

vars == <<paymentAmount, totalLabel, loading, asked, saved, option, state, screen,
          waiting, made, calls, intent, clientSecret, confirming, charged, taps,
          lastTap, successes, ended>>

-------------------------------------------------------------------------------
(* Amounts. *)

\* Int(pot / participants * 100): cut off.  When the quotient is a whole number
\* of cents, its binary approximation may lie just below it.
Charges(p, n) ==
  IF p % n = 0 THEN {p \div n, p \div n - 1} \cap Nat ELSE {p \div n}

\* "%.2f": rounded to the nearest cent; the binary approximation decides a tie.
Labels(p, n) ==
  {c \in {p \div n, p \div n + 1} :
     /\ 2 * (p - c * n) <= n
     /\ 2 * (c * n - p) <= n}

-------------------------------------------------------------------------------

TypeOK ==
  /\ paymentAmount \in Nat /\ totalLabel \in Nat
  /\ loading \in {"loading", "loaded", "failed"} /\ asked \in BOOLEAN
  /\ saved \subseteq Cards /\ option \in Options
  /\ state \in {"none", "showing", "requesting"}
  /\ screen \in {"none", "shown", "closing"}
  /\ waiting \in BOOLEAN
  /\ made \in Intents
  /\ calls \subseteq 1..made
  /\ intent \in [Intents -> {"none", "open", "succeeded"}]
  /\ clientSecret \in Intents \cup {NoIntent}
  /\ confirming \in Intents \cup {NoIntent}
  /\ charged \in BOOLEAN
  /\ taps \in 0..MaxTaps
  /\ lastTap \in {"none", "owed", "answered", "passed"}
  /\ successes \in Nat /\ ended \in Nat

\* viewDidLoad, and the call that follows when the view appears.
Init ==
  /\ \E pot \in Pots, participants \in Sizes :
       /\ paymentAmount \in Charges(pot, participants)
       /\ totalLabel \in Labels(pot, participants)
  /\ loading = "loading" /\ asked = FALSE /\ saved = {} /\ option = NoCard
  /\ state = "none" /\ screen = "none" /\ waiting = FALSE
  /\ made = 1 /\ calls = {1}
  /\ intent = [k \in Intents |-> "none"]
  /\ clientSecret = NoIntent
  /\ confirming = NoIntent /\ charged = FALSE
  /\ taps = 0 /\ lastTap = "none" /\ successes = 0 /\ ended = 0

-------------------------------------------------------------------------------
(* The secret. *)

\* setSelectedPaymentOption: a card not known yet is added; unless the card is
\* the one selected already, paymentContextDidChange calls createChargeFunction.
\* Setting none when none was selected counts as a change.
Select(card, known) ==
  /\ saved' = known \cup ({card} \ {NoCard})
  /\ option' = card
  /\ IF card = option /\ card # NoCard
     THEN UNCHANGED <<made, calls>>
     ELSE /\ made < MaxCalls
          /\ made' = made + 1
          /\ calls' = calls \cup {made'}

\* createChargeFunction creates the intent.
CreateIntent(k) ==
  /\ k \in calls /\ intent[k] = "none"
  /\ intent' = [intent EXCEPT ![k] = "open"]
  /\ UNCHANGED <<amounts, cardVars, requestVars, secretVars, confirmVars, history>>

\* Its answer arrives; answers overtake each other.
SecretArrives(k) ==
  /\ k \in calls /\ intent[k] # "none"
  /\ clientSecret' = k
  /\ calls' = calls \ {k}
  /\ UNCHANGED <<amounts, cardVars, requestVars, made, intent, confirmVars, history>>

\* Mutant: a failed call is repeated at once.
FailedCallRepeats(k) ==
  /\ k \in calls
  /\ made' = made + 1
  /\ calls' = (calls \ {k}) \cup {made'}
  /\ UNCHANGED <<amounts, cardVars, requestVars, intent, clientSecret, confirmVars,
                 history>>

\* The call fails, before or after the intent was created.
CallFails(k) ==
  /\ k \in calls
  /\ calls' = calls \ {k}
  /\ UNCHANGED <<amounts, cardVars, requestVars, made, intent, clientSecret,
                 confirmVars, history>>

-------------------------------------------------------------------------------
(* Requests. *)

\* didCreatePaymentResult: the secret held now is taken along; it may be none.
DidCreatePaymentResult ==
  /\ state' = "requesting"
  /\ screen' = "none"
  /\ confirming' = clientSecret
  /\ charged' = FALSE

\* requestPayment with the cards at hand, the context free and card selected:
\* without a card the options are presented for the request.
RequestPayment(card) ==
  IF card = NoCard
  THEN state' = "requesting" /\ screen' = "shown" /\ UNCHANGED confirmVars
  ELSE DidCreatePaymentResult

\* The cards are there, with the one used last, if any; then the taps that waited
\* are served in order: the first that finds the context free makes a request,
\* and a context that shows the options passes all of them over.
CardsLoaded(listed, card) ==
  /\ loading = "loading"
  /\ loading' = "loaded"
  /\ waiting' = FALSE
  /\ card \in listed \cup {NoCard}
  /\ Select(card, listed)
  /\ IF waiting /\ state = "none" THEN RequestPayment(card)
                                  ELSE UNCHANGED <<state, screen, confirmVars>>
  /\ lastTap' = IF waiting /\ state = "showing" THEN "passed" ELSE lastTap
  /\ UNCHANGED <<amounts, asked, intent, clientSecret, taps, successes, ended>>

\* The options, if shown, are dismissed, which leaves the state as it is, and the
\* alert with "Retry" is presented.  Every tap that waited ends in an alert of its
\* own, which frees the context; it may keep the other from being presented.
CardsFail ==
  /\ loading = "loading"
  /\ loading' = "failed"
  /\ asked' \in IF waiting /\ screen = "shown" THEN BOOLEAN ELSE {TRUE}
  /\ screen' = "none"
  /\ waiting' = FALSE
  /\ IF waiting THEN state' = "none" /\ lastTap' = "answered"
                ELSE UNCHANGED <<state, lastTap>>
  /\ UNCHANGED <<amounts, saved, option, secretVars, intent, confirmVars, taps,
                 successes, ended>>

\* "Retry" in the alert.
RetryLoading ==
  /\ asked
  /\ asked' = FALSE
  /\ loading' = "loading"
  /\ UNCHANGED <<amounts, saved, option, requestVars, secretVars, intent, confirmVars,
                 history>>

\* Mutant: a tap is served whatever the context is doing.
TapInterrupts ==
  /\ taps < MaxTaps /\ screen = "none" /\ ~asked
  /\ taps' = taps + 1
  /\ waiting' = (waiting \/ loading = "loading")
  /\ IF loading = "loaded" THEN RequestPayment(option)
                           ELSE UNCHANGED <<state, screen, confirmVars>>
  /\ lastTap' = IF loading = "failed" THEN "answered" ELSE "owed"
  /\ UNCHANGED <<amounts, cardVars, secretVars, intent, successes, ended>>

\* requestPayment: it waits for the cards, or fails at once with them; with the
\* cards at hand a tap during a request is left to that request, and a tap while
\* the context believes that it shows the options is passed over.
SubscribeButtonPressed ==
  /\ taps < MaxTaps /\ screen = "none" /\ ~asked
  /\ taps' = taps + 1
  /\ waiting' = (waiting \/ loading = "loading")
  /\ \/ loading = "loading" /\ lastTap' = "owed" /\ UNCHANGED <<state, screen, confirmVars>>
     \/ /\ loading = "failed"
        /\ lastTap' = "answered"
        /\ state' = "none" /\ UNCHANGED <<screen, confirmVars>>
     \/ /\ loading = "loaded"
        /\ lastTap' = IF state = "showing" THEN "passed" ELSE "owed"
        /\ IF state = "none" THEN RequestPayment(option)
                             ELSE UNCHANGED <<state, screen, confirmVars>>
  /\ UNCHANGED <<amounts, cardVars, secretVars, intent, successes, ended>>

-------------------------------------------------------------------------------
(* The payment options. *)

\* The payment row: the options are pushed without a request.
ShowOptions ==
  /\ state = "none" /\ ~asked
  /\ state' = "showing" /\ screen' = "shown"
  /\ UNCHANGED <<amounts, cardVars, waiting, secretVars, intent, confirmVars, history>>

\* A card is chosen, or entered anew; the options begin to close.
SelectOption(card) ==
  /\ screen = "shown" /\ loading = "loaded"
  /\ Select(card, saved)
  /\ screen' = "closing"
  /\ UNCHANGED <<amounts, loading, asked, state, waiting, intent, clientSecret,
                 confirmVars, history>>

\* A card is deleted; if it was selected, another one is, if there is one.
RemovePaymentOption(card) ==
  /\ screen = "shown" /\ loading = "loaded"
  /\ card \in saved
  /\ LET rest == saved \ {card}
     IN  IF card = option
         THEN \E next \in IF rest = {} THEN {NoCard} ELSE rest : Select(next, rest)
         ELSE saved' = rest /\ UNCHANGED <<option, made, calls>>
  /\ UNCHANGED <<amounts, loading, asked, requestVars, intent, clientSecret,
                 confirmVars, history>>

\* Mutant: closing the options ends the request that asked for them.
ChoiceEndsRequest ==
  /\ screen = "closing"
  /\ state' = "none" /\ screen' = "none"
  /\ UNCHANGED <<amounts, cardVars, waiting, secretVars, intent, confirmVars, history>>

\* The options are closed; a request that asked for them goes on.
OptionsFinish ==
  /\ screen = "closing"
  /\ \/ state = "requesting" /\ RequestPayment(option)
     \/ state = "showing" /\ state' = "none" /\ screen' = "none" /\ UNCHANGED confirmVars
  /\ UNCHANGED <<amounts, cardVars, waiting, secretVars, intent, history>>

\* "Cancel" closes the options and ends the request, without a message.
OptionsCancel ==
  /\ screen = "shown"
  /\ state' = "none" /\ screen' = "none"
  /\ lastTap' = IF state = "requesting" THEN "answered" ELSE lastTap
  /\ UNCHANGED <<amounts, cardVars, waiting, secretVars, intent, confirmVars, taps,
                 successes, ended>>

-------------------------------------------------------------------------------
(* The confirmation. *)

Confirming == state = "requesting" /\ screen = "none"

\* Stripe charges an intent that is open, once.
Charge ==
  /\ Confirming /\ ~charged
  /\ confirming # NoIntent /\ intent[confirming] = "open"
  /\ intent' = [intent EXCEPT ![confirming] = "succeeded"]
  /\ charged' = TRUE
  /\ UNCHANGED <<amounts, cardVars, requestVars, secretVars, confirming, history>>

\* The status block and didFinishWith: the context is free again.
Finish ==
  /\ state' = "none"
  /\ confirming' = NoIntent
  /\ charged' = FALSE
  /\ ended' = ended + 1
  /\ lastTap' = "answered"
  /\ UNCHANGED <<amounts, cardVars, screen, waiting, secretVars, intent, taps>>

\* "Success!  Your first payment has been processed."
ConfirmSucceeds ==
  /\ Confirming /\ charged
  /\ successes' = successes + 1
  /\ Finish

\* Mutant: every end of the confirmation but a cancellation is a success.
FailureIsSuccess ==
  /\ Confirming
  /\ successes' = successes + 1
  /\ Finish

\* Mutant: a failed payment is requested again at once.
FailureRetries ==
  /\ Confirming
  /\ DidCreatePaymentResult
  /\ UNCHANGED <<amounts, cardVars, waiting, secretVars, intent, history>>

\* The card is declined, the secret is missing or used up, the user cancels, or
\* the answer is lost, even after the charge.
ConfirmFails ==
  /\ Confirming
  /\ UNCHANGED successes
  /\ Finish

-------------------------------------------------------------------------------

Confirmed == ConfirmSucceeds \/ ConfirmFails
Loaded    == \/ CardsFail
             \/ \E listed \in SUBSET Cards, card \in Options : CardsLoaded(listed, card)

Next ==
  \/ \E k \in Intents : CreateIntent(k) \/ SecretArrives(k) \/ CallFails(k)
  \/ Loaded \/ RetryLoading
  \/ SubscribeButtonPressed
  \/ ShowOptions \/ OptionsFinish \/ OptionsCancel
  \/ \E card \in Cards : SelectOption(card) \/ RemovePaymentOption(card)
  \/ Charge \/ Confirmed

Spec == Init /\ [][Next]_vars

\* Reads and confirmations are answered and the options finish closing; nothing
\* obliges the user.
Fairness == WF_vars(Loaded) /\ WF_vars(Confirmed) /\ WF_vars(OptionsFinish)

FairSpec == Spec /\ Fairness

-------------------------------------------------------------------------------
(* What holds. *)

Succeeded == {k \in Intents : intent[k] = "succeeded"}

\* "Success!" is never shown without a charge of its own: secrets that arrive
\* late, used-up intents and lost answers may hide a charge but not invent one.
SuccessMeansCharged == successes <= Cardinality(Succeeded)

\* Every charge has a tap of "Subscribe" of its own, whichever option changes and
\* answers come in between.
ChargesNeedTaps == Cardinality(Succeeded) <= taps

\* What the user has paid is at most the amount on the screen for each confirmation
\* that has ended, and for the one under way: taps and choices that cross, and
\* secrets that overtake each other, never charge twice before the user hears of
\* the first charge, and cutting off never charges more than the label says.  What
\* "Success!" stands for is at most a cent each below the label.
ChargedAsShown ==
  LET paid == Cardinality(Succeeded) * paymentAmount
  IN  /\ paid <= (ended + IF charged THEN 1 ELSE 0) * totalLabel
      /\ successes * (totalLabel - 1) <= paid

\* The last tap of "Subscribe" is answered by an alert, or by the end of a request
\* the user cancelled: through the loading of the cards and its failure, the
\* choice of a card and the confirmation.  Only the open options wait for the user;
\* only a tap whose turn comes while the context shows the options, or believes so
\* after a failed load has dismissed them, is passed over for good.
SubscribeIsAnswered ==
  lastTap = "owed" ~> lastTap \in {"answered", "passed"} \/ screen = "shown"

===============================================================================
