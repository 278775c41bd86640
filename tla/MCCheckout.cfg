SPECIFICATION FairSpec
CHECK_DEADLOCK FALSE
CONSTANTS
  visa = visa
  debit = debit
  Pots = {100, 200, 300}
  Sizes = {3}
  Cards = {visa, debit}
  MaxCalls = 4
  MaxTaps = 2
INVARIANTS TypeOK SuccessMeansCharged ChargesNeedTaps ChargedAsShown
PROPERTY SubscribeIsAnswered
