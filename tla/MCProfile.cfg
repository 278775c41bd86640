SPECIFICATION FairSpec
CONSTANTS
  laptop = laptop
  SuShares = {laptop}
  MaxListeners = 3
  MaxTaps = 2
  MaxReads = 2
  MaxFailures = 1
INVARIANTS TypeOK LeaksNeedTaps
PROPERTY FollowsOwnTab
