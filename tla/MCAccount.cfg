SPECIFICATION FairSpec
CONSTANTS
  ana = ana
  ben = ben
  Users = {ana, ben}
  Nobody = Nobody
  MaxTaps = 3
  MaxLive = 2
INVARIANTS TypeOK DetailsAreOwn OneCustomerEach
PROPERTY AnsweredIsKept
PROPERTY EventuallySettled
