SPECIFICATION Spec
CONSTANTS
  laptop = laptop
  SuShares = {laptop}
  MaxListeners = 3
  MaxTaps = 2
  MaxReads = 2
  MaxFailures = 0
INVARIANT TabTellsTheList
