SPECIFICATION FairSpec
CHECK_DEADLOCK FALSE
CONSTANTS
  laptop = laptop
  trip = trip
  SuShares = {laptop, trip}
  Tags = {"technology", "travel"}
  TagOf <- OneEach
  Queries = {"blue"}
  Matches <- FindsTrip
  MaxListeners = 3
  MaxChanges = 2
INVARIANTS TypeOK UnfilteredShowsAll OneListenerLeaks
PROPERTY FollowsCollection
